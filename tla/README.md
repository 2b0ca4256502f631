# Verification of the Telegram tools server

TLA+ models of the server's own core logic, TLC configurations that check them on
small instances, and TLAPS proofs for every value of the constants.  Everything is
translated from `backend/app`, `scripts`, the `.bat` files and one hook of the web client;
source lines of each definition are in `PROJECT.json`
under `map`.

## The system

A FastAPI process (one per database, guarded by an instance lock) works through
Telegram accounts for its users.  All work is asyncio tasks in one event loop over a
SQL database: nothing is preempted inside a step, anything may happen at an `await`.

| Component | State | Operations | What makes it correct |
|---|---|---|---|
| Message sender (`message_dispatch_runner.py`) | job row, item rows, encrypted text, job tasks, account workers | create, launch, claim, send, save, recount, finalize, recover, stop | a text reaches a recipient at most once; reports are honest; claims are never stranded; jobs settle |
| Phone checker (`phone_check_runner.py`, `phone_checker.py`, `routers/phone_checks.py`) | job row with counters, item rows, account rows, one job task, account workers | create, pause, resume, cancel, rebalance, launch, claim, check, save, finalize, recover, stop | counters never drift; one checker per number; attempts bounded; jobs settle; moved items are taken over |
| Job store (`job_store.py`, `routers/jobs.py`) | job and item rows, heartbeats, cancel events | create, start/finish item, counts, cancel, pause, resume, finish, recover stale, retry | a closed job is exact; every job ends; a retry repeats nothing that was done |
| Streamed bulk jobs (`utils.py` `bulk_stream`, `routers/bulk.py`, `messaging.py`, `groups.py`, `security.py`) | result queue, workers, semaphore, operation locks | one worker per account, stream rows to the client | each account yields one row; what is reported ok is so; no account stays locked |
| Account lifecycle (`tg_manager.py`, `telegram_session_store.py`, `proxy_store.py`) | clients, owners, locks, backoff, session rows and files, proxy slots | start, stop, reconnect, replace, import, remove, refresh, fail over | one client per account; sessions not overwritten by older ones; a removed account stays down; no direct connection when a proxy is set |
| Logins (`tg_manager.py`, `routers/accounts.py`) | pending logins, QR entries, waiting tasks, temporary clients and files | send code, submit, 2FA, QR, renew, cancel, expire | none leaked; a stale request spares a newer login; an account is stored once |
| Live log (`realtime_events.py`, `routers/events.py`, `useRealtimeEvents.js`) | event rows, subscriber queues, cursors, the panel | emit, publish, overflow, catch up, reload, older, clear | the panel shows every event between its oldest and its newest |
| Access (`auth.py`, `supabase_identity.py`, `quota.py`, `routers/admin.py`) | identities, session cut-offs, cached quotas, bootstrap lock | authenticate, change, purge, bootstrap, check capacity | an ended session stays out; an administrator is left; quotas hold |
| Operations (`watchdog.py`, `ops_alerts.py`, `db.py`, `graceful_stop.py`, `*.bat`) | lock file, restart counters, alerts file, advisory lock, `.maintenance` | probe, restart, alert, stop, start | one watchdog, one backend, bounded restarts, true alerts; a backend that is down comes back |
| Backups (`backup_*.py`, `restore_runtime.py`) | archives, the alert | dump, pack, verify, rotate, restore | the last good backup is kept and restorable |
| Others | | | targets and imports, secrets, inbox, request limits, rest of the web client: see `components` in `PROJECT.json` |

How they interact: routers write job rows and the runners poll for queued ones; the
only channel between a request and a running worker is the row, which the worker reads
before each item.  Workers share Telegram clients under the account's operation lock.
Runners, stores and the account manager emit events; nothing waits for them.  At start
the process recovers interrupted work before it serves; at stop it cancels the tasks,
which may still save and finalize.

What is hard: every handler loads a row, changes the object and commits it after
further awaits, and SQLAlchemy writes only the columns whose value changed, so requests,
workers and finalizers overwrite each other in ways a unit test would not order; sends
cannot be undone or asked about; a process may die between any two commits.

## Modules

| Module | Models | Depends on |
|---|---|---|
| `OutboxDelivery` | the promise of a message sender: what an item's report may say | – |
| `MessageDispatch` | the message sender and the requests on its jobs | – |
| `MessageDispatchProperties` | its properties, the inductive invariant, the refinement mapping | `MessageDispatch`, `OutboxDelivery` |
| `MessageDispatchProofs` | theorems and proofs | `MessageDispatchProperties`, TLAPS |
| `PhoneCheck` | the phone checker and the requests on its jobs | – |
| `PhoneCheckProperties` | its properties and the inductive invariant | `PhoneCheck` |
| `PhoneCheckProofs` | theorems and proofs | `PhoneCheckProperties`, TLAPS |
| `BulkReport` | the promise of a bulk stream to its client | – |
| `BulkActions` | what each bulk action may do to an account, and the row it makes of the answer | – |
| `BulkStream` | workers, stream, disconnects, recovery, retries | `BulkActions` |
| `BulkStreamProperties` | its properties, the inductive invariant, the mapping to `BulkReport` | `BulkStream`, `BulkReport` |
| `BulkStreamProofs` | theorems and proofs | `BulkStreamProperties`, TLAPS |
| `AccountLifecycle`, `AccountLifecycleProperties`, `AccountLifecycleProofs` | one account's client, session, proxy and status | – |
| `Logins`, `LiveEvents`, `Access`, `Operations`, `Backups`, each with a module `…Properties` | the parts beside jobs and accounts | – |
| `LoginsProofs`, `LiveEventsProofs`, `AccessProofs`, `OperationsProofs` | theorems and proofs about them; the last one about operations and backups | the modules of properties, TLAPS |
| `MCMessageDispatch`, `MCPhoneCheck`, `MCBulkStream`, `MCAccountLifecycle`, `MCServices` | instances for TLC | the above |

Conventions of the two runner models; the others keep the first and the last, and have
a scenario per behaviour (which requests come, in which circumstances) instead of
arbitrary clients:

- **Read and commit.** A handler that loads a row, changes it and commits is two
  actions (`ReadRow`/`CommitRow`, `SelectItem`/`CommitClaim`, `CheckToken`/`Save`,
  `FinalRead`/`Close...`).  `Flush(loaded, assigned, stored)` is SQLAlchemy's unit of
  work: a column is written only if the handler changed the value it had loaded.
- **Workers and tasks** are records with a `pc` that names the step, the item held and
  what has been read.  A worker is identified by job, account and runner id; its claim
  token (a fresh uuid in the code) is that identity, sound because a worker holds one
  claim at a time and `Fresh` never reuses a runner id that still occurs anywhere.
- **Time.** A retry time that has not come, a FloodWait being waited out and a pacing
  sleep are steps not taken; which retry is due is nondeterministic, and `SelectItem` is
  strongly fair.  The worker of a disconnected account, which sleeps and looks again, cannot
  go on until the account is in `online` again.
- **Faults** are switched by the constant `Faults`: `crash` kills the process at any
  step; `stop` is the graceful stop, which cancels tasks and lets interrupted workers
  save; `db` makes any database access fail; `offline` lets accounts disconnect (they
  may always come back).
- **Variants** (operators whose comment says *Variant*) are plausible bugs, used only
  by the mutants of `PROJECT.json`.

### MessageDispatch

`status`, `runner`, `tally` are the job row, `secret` the stored text, `item`, `token`,
`attempts` the item row; `wire` and `delivered` are Telegram: a request may be executed
after its sender gave up, or be lost.  Handler by handler: `create_message_job` is
`BeginCreate`, `CommitCreate`, `AbortCreate`; `_run_job_scoped` is `Launch`,
`MarkRunning`, `StartWorkers`, `SecretMissing`, `Join`; `_finalize_job` is `FinalCount`,
`FinalRead`, one of `CloseCancelled`, `ClosePaused`, `CloseWorked`, then `WipeSecret`;
`_run_account` is `CheckStatus`, `SelectItem`, `CommitClaim`, `NothingDue`,
`SendMessage`, an answer (`ResolveFails`, `ReplyOk`, `FloodReply`, `GiveUp`),
`CheckToken`, `Save`, `CountItems`, `WriteCounts`.  `stop` and `recover_stale` are
`Stop`, `Exit`, `Restart`.  Message jobs never have the status `interrupted` (stale
recovery excludes them) and their items never `skipped` or `pending`.  A message job is made
for connected accounts; `Disconnect` and `Connect` change `online` later, and `CheckStatus`
goes on to a claim only for a connected account (it notices a pause or a cancel all the
same).  A worker interrupted by `Stop` saves its attempt as unknown, unless a second
cancellation meets that save (`Droppable`): `gather` ends with the first worker that does,
and the task cancels the others again.

### PhoneCheck

Differs where the code does: one job at a time, checks may be repeated (so an
interrupted item is runnable again), counters are added to with each result (`Store`),
attempts are limited (`Retried`), and `rebalance` moves items between accounts
(`Moves`).  `retry_required` is handled exactly like `temporary_error`, which stands for
both.  Not modelled: the display status and `assigned_total` of `PhoneCheckAccount`, the
contact the check leaves in the account, which of two queued jobs is older.

### BulkStream and BulkActions

A job is asked for (`Ask`), created with its items (`CreateJob`), and has a worker for
every account: cancelled or not, connected or not (`Begin`), FloodWait (`CheckFlood`),
pacer (`TakeTurn`), operation lock, semaphore, `MarkItemStarted`, the action (`Call`), the
bookkeeping of its error (`Note`), `MarkItemResult`.  The stream takes rows from the queue
(`TakeRow`), stores counters, settles on a final status and closes the job.  `Disconnect`,
`StreamFails` and `WorkerFails` are the `finally` clauses (the client may also go before the
workers start or after they have ended: `StreamFails`); `HeartbeatAges`, `FindStale`
and `RecoverInterrupted` the heartbeat and the status loop; `Direct...` another request
on the same account, `Retry` a retry of another job.  `BulkActions` gives every action as a
relation between the account before and the answer with the account after: an action may
have taken effect although it answered with an error or ran out of time.  The amounts of
time, the texts, and which chats an account is in (one stands for all) are left out.  Left
out too: a client that goes between the commit of its new job and the start of its workers
(the job is then like one of a crashed process, which the model has), and a status that
changes between the read and the commit of the stream's own cancel request (the user's has
the two steps).

### AccountLifecycle

One account; nothing is shared with others but the status loop, whose rounds touch each
separately.  Every task (a request, the start-up, a round of the loop, the shutdown) has a
`pc`.  `start_client` is `Lock`, `Load`, `ReadProxy`, `Dial` and what comes of it, up to
`Settle` and `Keep`; `stop_client` is `Stop`, `Save`, `Disconnect`, of which only the
first is under the lifecycle lock, as in the code.  Clients are numbered and a connected
one is in `conn` whether it is registered or not, so that a forgotten client is seen.
Sessions are named by the login that brought them.  `CommitLogin` writes the status and the
mark of deletion whatever the login has read: a column it did not change, which the code
would leave alone, is written too.

### The services

`Logins`: at first one login is under way or none; a login by code lives in `otp`, QR logins in `qr` by the client that began them,
their tasks in `waits`; requests look the login up when they enter and use it later, as the
code keeps the entry across its awaits.  `LiveEvents`: some emitters, one panel; ids are
given at the insert, so commits and publications come in any order.  The panel's requests of
the history are numbered (`asked`), and several may be under way: their answers come in any
order.  The panel's cap of 1500 shown events is left out.  `Access`: sessions are
numbered, and a cut-off is the number of the last session it ends; a change reads the
metadata and writes all of it back.  What a request to create or update asks for (a role, a
ban, a password, a quota of any size) is its `body` in the scenario: administrators may make
and promote others, raise a quota or lower it.  Any call to Supabase or to the database may
raise (`GiveUp`).  A deleted user stays `Deleted`: its id is never given again.  A quota is
cut to `0..MaxQuota` (`MaxQuota` is the code's 1,000,000); `MaxSessions` bounds the sessions
of a user.  That `list_users` reads the first 1,000 users only is left out.  `Operations`: two overlapping runs of the watchdog,
a backend of the task and one of another machine, the alerts file with its two writing
processes.  `Backups`: an archive is the set of rows and of files read one after the other.
The run is `Dump`, `CopyFiles`, `Pack`, `Verify`, `CopyFor` the week and the month, `Prune`
one file after the other (daily, weekly, monthly), `Complete`; it may fail (`FailRun`) or be
killed (`CrashRun`) at each of these, with the archive or the copy it was making left torn.
Its end is told by `Tell`, a write of the shared file of alerts, or not at all
(`TellNothing`: the code ignores the failure).  `AlertWriters` are the server and the
watchdog: each reads all alerts (`OtherReads`) and writes them back (`OtherWrites`) under a
lock of its own process, so it may undo what the run has told.  The deletion of an account may
stop for good between its file and its row.  In `Logins`, `Scan` sets `authorized` and the
user together: between them a poll finds the login as after a failed `get_me`.

History variables (`met`, `beside`, `clash`, `past`, `done` and the like) record which
requests overlapped or what has been broken on the way; properties use them to say
precisely when a promise does not hold.

## Runs

| Run | Result | Shows |
|---|---|---|
| `dispatch_faults` | pass | at most one delivery, honest reports, no stranded claim, exact completion, no open item without its text, inductive invariant, finished items stay, refinement of `OutboxDelivery` |
| `dispatch_liveness` | pass | with crashes and lost connections: jobs settle once the process and the accounts stay up, and live cancels end also without a connection |
| `dispatch_db_errors` | pass | `ok` still means delivered when runs overlap |
| `dispatch_stuck_cancel` | violation | a cancel before the runner takes the job is not carried out |
| `dispatch_duplicate` | violation | a worker that outlives its run sends an item twice |
| `phone_faults` | pass | counters, one checker, claims, inductive invariant (with attempts and exact completion), finished items, jobs settle, live cancels end |
| `phone_rebalance` | pass | claims are held, account and job counters agree, and completion is exact, while items move (`MovingInv`) |
| `phone_db_errors` | pass | the counters still agree when runs overlap |
| `phone_rebalance_stuck` | violation | moved items wait for an offline account |
| `bulk_faults` | pass | locks, counters, files (with what makes them inductive); what is reported ok is so and was done once; refinement of `BulkReport`; a retry repeats nothing done; jobs, cancels and streams end |
| `account_lifecycle` | pass | no stray client, a removed account stays down, departures are logged (`LifecycleInv`), an account shown as connected has a client (`StatusIsTrue`, with what makes it inductive in `StatusInv`), clients start with the right session and proxy, tasks end, connections come back |
| `services` | pass | the promises of logins, live log, access, operations and backups as inductive invariants; only those who may end a pending login (`LoginsStay`); events are sent in order (`SentInOrder`); and what must happen some day |

The violations are described under `findings`.  Deadlock is not checked: a finished
system has nothing to do.

Where the code keeps a promise only most of the time, the property or the assumption of its
theorem names the exception, and a reader should know these: a number that a rebalance moves while a worker has picked it
is checked and counted twice; two messages for one phone at once, or a request that
fails on the way, leave a temporary client connected; two renewals of a QR code leave the
first one's task alive, which may mark the new code expired; two codes asked for at once lose a
connection (no file); two polls of a QR login at
once take the account down; a round of the status loop may connect a client that was
stopped meanwhile, or report it connected after the account was removed or its session
replaced; a shutdown beside a removal may store the removed session again; a login beside another start may lose to the older session; an event
overtaken by a later one is not shown until a reload, and one that a
reload skips while the stream or another answer is behind leaves a gap until the next; of two changes of one user one is
lost, a forced logout included, and a role that was given or taken away may be written back as it was; two administrators who
oust each other at once may leave none, and a bootstrap may then make one; a quota can be exceeded by requests at once and its cache
refilled with the old value (a quota that is lowered later leaves the accounts there are, as it should); a purge misses what the tenant's own requests write
meanwhile; two watchdogs may run when one finds the other's new lock file, and the
older finding may then be told last; an alert may be undone by another process that keeps
alerts in the same file (`told` in `AlarmIsTrue` is then false), or not be given because the call that gives it failed; a torn weekly or monthly copy is never replaced; a restore that
failed leaves rows without files until one succeeds.

**Bounds.** One job, one or two accounts, one or two items that can be worked on, one
request in progress at a time (its read and its commit interleave with everything else),
two runner ids (without database errors at most one run is live and one id is
remembered).  Two workers with an item each let a claim, a save and a finalization of
different workers interleave; `dispatch_liveness` has one worker with two items, which
exercises the order of claims, and an account that goes and comes at any step.  The task slots and semaphores are larger than what one
job needs: competition between jobs is in the model but in no run yet.  `FloodBound` and `RetryBound` cap how often FloodWait or an interruption
may send an item round again; each lap is the same, so one lap shows what the second
would.  `SYMMETRY` over runner ids is used only in runs without liveness properties.

In `bulk_faults` two jobs, two accounts, one place in the semaphore and at most one
failure in a behaviour: every conflict in the code is between two workers of a job, a job
and another request, or a job and its retry.  Sequences of two failures are left out
there to keep the run small.  In `account_lifecycle` three tasks and one failure: `Pairs` has all pairs
of the seven kinds of work, `Triples` the status loop between two requests, `Removals` a removal
beside each request that may undo it, and before a restart.  In `services`
three requests, four events with pages of two (three are too few for a reload to
leave a gap), queues of two and a history of one (so that
pages, overflow and the reload gap all occur), quotas of none to two (one by default, so that it may be raised and lowered) and two sessions of a user, two watchdogs, a restart
limit of two and three restarts in all (the code's limit is three: what matters is reaching
it and one more), four days with weeks of two and a month of four, and for the file of alerts
two other processes with two writes between them beside two runs, one of which may fail.  The parts of
`services` share no variable: a behaviour runs one part, the others rest, so that no
product is explored.

**Fairness.** In the runner models weak fairness for every task, worker and commit: the
event loop runs what is ready, RPCs have a timeout, and the service is restarted
(`watchdog.py`).  Strong fairness for `SelectItem`: a worker checks every few seconds and
retry times are fixed instants, so it cannot for ever find them in the future.  None for
user requests, faults or reconnection; liveness that needs connected accounts or a process
that stays up says so in its hypothesis (both `JobsSettle`).  The other models have weak fairness for the
disjunction `Progress` of what goes on by itself: no step of it repeats for ever, so every
step that stays ready is taken.  Rounds of the status loop and of the watchdog (the
scheduler starts one every two minutes) belong to `Progress` when they could change
something; a waiting FloodWait, backoff, lock file or restart window comes to its end.
Requests, users, scans of a QR code, broken connections and crashes do not, nor does the
recovery of the network or the database.

## Proofs

The theorems hold for all jobs, accounts, items, users, tasks, scenarios, sizes and bounds
that the named assumptions of the modules allow.

| Module | Theorem | States | Assumes |
|---|---|---|---|
| `MessageDispatchProofs` | `TypeCorrect` | `[]TypeOK` | – |
| | `Delivery` | `[]DeliveryInv` | no database errors |
| | `SentAtMostOnce` | `[]AtMostOnce` | no database errors |
| | `ReportsAreHonest` | `[]HonestReports` | no database errors |
| | `ClaimsHeld` | `[]ClaimsAreHeld` | no database errors |
| | `CompletedExact` | `[]CompletedIsExact` | no database errors |
| | `SecretKept` | `[]UnfinishedHasSecret` | no database errors |
| | `FinishedStays` | `FinishedItemsStay` | no database errors |
| | `ImplementsOutbox` | `DeliversAsPromised` | no database errors |
| | `OkIsDelivered` | `[]OkMeansDelivered` | – |
| `PhoneCheckProofs` | `TypeCorrect` | `[]TypeOK` | – |
| | `Ledger` | `[]LedgerInv` | – |
| | `AccountsExact` | `[]AccountsAddUp` | – |
| | `Moving` | `[]MovingInv` | no database errors |
| | `ClaimsHeld` | `[]ClaimsAreHeld` | no database errors |
| | `CompletedExact` | `[]CompletedIsExact` | no database errors |
| | `Checker` | `[]CheckerInv` | no database errors, no rebalance |
| | `CheckedByOne` | `[]OneChecker` | the same |
| | `CountsExact` | `[]CountsAddUp` | the same |
| | `FinishedStays` | `FinishedItemsStay` | the same |
| `BulkStreamProofs` | `StreamsAgree` | `[]StreamInv` | – |
| | `ReportsTrue` | `[]ReportsAreTrue` | – |
| | `RetriesTakeUnfinished` | `RetriesUnfinished` | – |
| | `ImplementsReport` | `ReportHolds` | – |
| `AccountLifecycleProofs` | `Lifecycle` | `[]LifecycleInv` | – |
| | `StartsRight` | `StartsAreRight` | – |
| | `StatusHolds` | `[]StatusInv` | – |
| | `StatusTrue` | `[]StatusIsTrue` | – |
| `LoginsProofs` | `LoginsHold` | `[]LoginsInv` | – |
| | `LoginsStayHeld` | `LoginsStay` | – |
| `LiveEventsProofs` | `EventsHold` | `[]LiveEventsInv` | – |
| | `EventsInOrder` | `SentInOrder` | – |
| `AccessProofs` | `AccessHolds` | `[]AccessInv` | – |
| `OperationsProofs` | `OpsHold` | `[]OpsInv` | – |
| | `BackupsHold` | `[]BackupsInv` | – |

"No database errors" is `"db" \notin Faults`.  For the sender it is needed:
`dispatch_duplicate` violates `AtMostOnce` without it, because a worker whose task has been
finalized by another worker's error lives on beside the next run.  The phone checker has the
same structure.  "No rebalance" is `"rebalance" \notin Ops`, and it is needed too: a rebalance
may move an item that a worker has picked and not yet claimed, its new owner's worker claims
it as well, and both results are added to the job's counters.  With rebalance requests TLC
finds `OneChecker`, `CountsAddUp`, `AttemptsRespected` and `FinishedItemsStay` violated; what
is left then, the claims, completion and the agreement of account and job counters, is
`MovingInv`, which `phone_rebalance` checks.

**The sender.**  `AtMostOnce` is not inductive: a send is harmless only if nothing has been
sent for the item, which depends on who holds it.  `DeliveryInv` says so: a live worker
belongs to the run its task waits for (`WorkersAwaited`); a worker that holds an item
holds its token and the row says processing (`ClaimsMatch`), so no item has two holders;
an item that may still be claimed, or was reported failed, has no copy and no outstanding
request (`ItemsDelivered`); a worker about to send, or to save a failure or a FloodWait,
knows the same of its item, and one about to save `ok` knows it was delivered
(`WorkersKnow`).  The remaining conjuncts keep these stable through launches, creation and
restarts.  A worker that picked an item still finds it runnable because only workers of
the same account and run change it, and a finalizer runs only after all of them ended.
There is one lemma per group of actions; the refinement uses the same invariant to
show that each change of a report is one `OutboxDelivery` allows.  `OkMeansDelivered` needs
none of it, only what a worker knows when it saves `ok`, and so it survives overlapping runs.

**The phone checker.**  Three invariants, each needing more than the one before.  `LedgerInv`
holds whatever fails and whatever is asked: every result saved is charged to one account and
added to one counter of the job in the same commit (`AccountsAddUp`, the accounts' charges
counted as a set of pairs), for which it is enough that a worker about to save has an item
and an account (`WorkersKnow`) and that a job not yet created has been charged for nothing.
`MovingInv` adds that a live worker belongs to the run its task waits for (`WorkersAwaited`),
so while the task finalizes nobody changes the job's items (`FinalizerKnows`) and the outcome
it stores is theirs.  `CheckerInv` adds that nobody else touches an item: a live worker picks
only from its own account's share and holds what its token claims (`ClaimsMatch`); a stored
result then moves exactly one item out of the open ones and adds exactly one to a counter,
which is why counters that are kept by adding never drift from the rows.  The dealing of a
rebalance needs one lemma of its own: `Selected`, the connected accounts in their order, is
a sequence of accounts (by the least index at which it would not be).

**The bulk streams.**  `StreamInv` with `ReportsAreTrue` is inductive: a job agrees with its
stream (`JobMatches`), a worker with the lock, the semaphore and its row (`WorkerMatches`), the
database rows with what the workers made (`RowsMatch`), the rows sent with the rows taken
(`SentMatches`).  What is known of a job changes by its own steps only, or by what goes on
outside its stream, which changes its status and its heartbeat alone; a step of a worker is
one of seven kinds.

**The account.**  `LifecycleInv` adds to the four promises what the tasks at work know:
which steps belong to whom and who starts a client only while there is none (`TaskMatches`),
that tasks at work have met (`BusyMeet`), what a removal that runs alone has done so far
(`RemovalsHold`), whose session is at hand while logins run alone (`SessionsMatch`) and
which routes a start has left (`PlansMatch`).  `StartsAreRight` follows from the last two.

`StatusIsTrue` is about an account left alone, so its strengthening must say what is under way
while it is not.  `StatusMatches`: without a client somebody is on the way to start one or to
change what is shown (`WillTell`): a reconnection from its stop to its dial, a login or an
import that has found the account there, a removal until it has committed.  The one task that
writes "connected" on old knowledge is a round of the status loop, so `RoundsMatch` follows
it: while it is at work the client is registered, or some task has a session at hand and will
register one (`WillConnect`).  `TicketsMatch` shows why only overlapping polls of a QR login
may take the account down and then refuse.  All this while nothing has failed: then Telegram
knows every session at hand and only who replaces or removes it drops a client
(`QuietMatches`).  It rests on `LifecycleInv` and is proved on top of it.

**The services.**  Each invariant is the conjunction of the promises and of what they rest on.
Logins: a client belongs to one login, and others can find it only when the request that began
it is over (`ClientsMatch`); what a request has found is still what is pending, or the two
overlapped (`FoundIsPending`).  Live log: an event becomes *promised* when it is committed, and
is then newer than every row; every other step only takes promises away, so it is enough that
the stream, the loads and the older pages never pass a promised event (`StreamGoesOn`,
`PageIsNext`, `CursorsMeet`, `LoadsJoin`, `OlderJoin`).  Access: no cut-off in force, read or
about to be written is before one that a finished change has set (`CutoffsStand`); whoever is
about to oust another is an enabled administrator, and a change that is about to write has read
that its user is an administrator if it is one (`OustersAreEnabled`); no quota that is in force,
cached or read is above the highest one granted (`NoQuotaIsAbove`).  Operations: whoever is past the
lock file made it (`LockIsOwn`), the state file has all restarts of the window
(`RestartsAreKnown`), and a finding is followed through the lines still to be told into the
alerts (`RoundTells`).  Backups: a run that has come to a step has made what the steps before
it make (`StepsAreDone`), and what was copied would make a consistent archive (`CopiesMatch`).

**Only model-checked.**

- Liveness, for want of reasoning about fairness and `ENABLED` in the prover: `JobsSettle`,
  `LiveCancelsEnd`, `StreamsSettle`, `LifeSettles`, `ServicesSettle`, and the violated
  `CancelsEnd` and `ConnectedAccountsWork`.

## Not modelled

- Message targets and imports, sanitising, formatting, exports: functions on data without
  state that no hazard is about.
- Secrets: encryption, and the migration of legacy secrets, which runs once at start.
- Inbox, profile and chat history: single calls under the account operation lock.
- Daily quotas, request-rate limits, target checks, the group-list cache: counters and
  caches whose loss or staleness nothing else reads.
- The reconnect delay (`tg_manager.py`, a capped exponent with jitter): time is abstract.
- Retention clean-up of the database, migrations, release and verification scripts.
- The web client but for `useRealtimeEvents`.

Known gaps of what is modelled: competition of several message jobs for the task slots;
two phone-check jobs that share an account; the contact a check leaves in the account;
temporary `qr_` files left behind by a crash; text kept when the process dies between the
finalizer's commit and its deletion; a message job whose task died before its `try` block
(running until the process restarts); a FloodWait met while a recipient is resolved (the
item fails and the wait is not recorded).

## Plan

Every safety property the runs check has its theorem.  What is left is a composition: the
runners with the account lifecycle (a client stopped under a worker).
