--------------------------- MODULE MessageDispatch ----------------------------
(***************************************************************************)
(* The durable multi-target message sender: message_dispatch_runner.py,    *)
(* with the pause, resume and cancel requests of job_store.py.             *)
(*                                                                         *)
(* A job has Targets items, given to its accounts round robin.  The runner *)
(* gives a queued job a task; the task marks the row running under a fresh *)
(* runner id, reads the encrypted text and starts one worker per account.  *)
(* A worker loops: check the job, claim an item, send, save, recount.      *)
(*                                                                         *)
(* A handler that loads a row, changes it and commits is two steps here,   *)
(* with anything in between: the store gives no isolation between the two, *)
(* and the flush writes the columns whose value changed (see Flush).       *)
(***************************************************************************)
EXTENDS Integers, Sequences, FiniteSets

CONSTANTS
  Jobs,          \* job ids
  AccountOrder,  \* the job's accounts, in the order items are dealt to them
  Targets,       \* recipients per job
  Runs,          \* runner ids (uuid4: an id in use is never drawn again)
  Clients,       \* HTTP requests that may be in progress at once
  Ops,           \* the job requests users make: subset of AllOps
  Faults,        \* what may go wrong: subset of AllFaults
  JobSlots,      \* job tasks at once (4 in the code)
  Concurrency,   \* sends in progress at once (the semaphores)
  FloodBound,    \* bound: claims of one item that FloodWait may answer
  None

AllOps == {"pause", "resume", "cancel"}
AllFaults == {"crash", "stop", "db", "offline"}

ASSUME ConstantsAssumption ==
  /\ IsFiniteSet(Jobs)
  /\ Targets \in Nat \ {0}
  /\ AccountOrder \in Seq(Nat) /\ Len(AccountOrder) > 0
  /\ Ops \subseteq AllOps
  /\ Faults \subseteq AllFaults
  /\ {JobSlots, Concurrency, FloodBound} \subseteq Nat
  /\ None \notin Runs \union (Jobs \X Nat \X Runs) \union (Jobs \X Nat)

VARIABLES
  status,     \* BulkJob.status
  runner,     \* BulkJob.runner_id
  tally,      \* BulkJob.success, failed, skipped, pending
  secret,     \* the encrypted text of the job is stored
  item,       \* MessageDispatchItem.status
  token,      \* MessageDispatchItem.processing_token: the worker it stands for
  attempts,   \* MessageDispatchItem.attempts
  mode,       \* the process: up, stopping or down
  task,       \* the job tasks (_job_tasks) and where each is
  worker,     \* the account workers and where each is
  request,    \* the HTTP requests between their read and their commit
  wire,       \* send requests Telegram has neither executed nor lost
  delivered,  \* copies of the item's message the recipient received
  online      \* the accounts with a connected client

jobVars == <<status, runner, tally>>
itemVars == <<item, token, attempts>>
netVars == <<wire, delivered, online>>
vars == <<jobVars, secret, itemVars, mode, task, worker, request, netVars>>

-------------------------------------------------------------------------------
Accounts == {AccountOrder[k] : k \in DOMAIN AccountOrder}
Items == Jobs \X (1 .. Targets)
Workers == Jobs \X Accounts \X Runs

\* accounts[index % len(accounts)], for items numbered from 1.
AccountOf(i) == AccountOrder[((i[2] - 1) % Len(AccountOrder)) + 1]

ItemsOf(j) == {j} \X (1 .. Targets)
Share(w) == {i \in ItemsOf(w[1]) : AccountOf(i) = w[2]}
WorkersOf(j, r) == {w \in Workers : w[1] = j /\ w[3] = r /\ Share(w) # {}}

TerminalJob == {"completed", "completed_with_errors", "cancelled", "failed"}
JobStatus == {"absent", "queued", "running", "paused", "cancelling"}
             \union TerminalJob
RUNNABLE == {"queued", "rate_limited"}
TERMINAL == {"ok", "failed", "in_flight_unknown", "cancelled"}
ItemStatus == {"absent", "processing"} \union RUNNABLE \union TERMINAL

\* A worker is off, or at a step of its loop with the item it holds, the
\* attempts it read, the outcome it is about to save, the counts it read.
NoCount == [ok |-> 0, bad |-> 0, skip |-> 0, open |-> 0]
At(pc, i, out) ==
  [pc |-> pc, item |-> i, out |-> out, tries |-> 0, count |-> NoCount]
Off == At("off", None, "none")

\* A task is free, or at a step with its runner id and what it has read.
FreeTask == [pc |-> "free", run |-> None, saw |-> "absent", count |-> NoCount]
Idle == [op |-> "none", job |-> None, saw |-> "absent", owned |-> FALSE]

\* A commit stores a column only if the handler changed the value it loaded.
Flush(loaded, assigned, stored) == IF assigned = loaded THEN stored ELSE assigned

\* The GROUP BY of _refresh_counts.
Tally(j) ==
  LET Number(S) == Cardinality({i \in ItemsOf(j) : item[i] \in S})
  IN  [ok   |-> Number({"ok"}),
       bad  |-> Number({"failed", "in_flight_unknown"}),
       skip |-> Number({"cancelled"}),
       open |-> Number(ItemStatus \ TERMINAL)]

Init ==
  /\ status = [j \in Jobs |-> "absent"]
  /\ runner = [j \in Jobs |-> None]
  /\ tally = [j \in Jobs |-> NoCount]
  /\ secret = [j \in Jobs |-> FALSE]
  /\ item = [i \in Items |-> "absent"]
  /\ token = [i \in Items |-> None]
  /\ attempts = [i \in Items |-> 0]
  /\ mode = "up"
  /\ task = [j \in Jobs |-> FreeTask]
  /\ worker = [w \in Workers |-> Off]
  /\ request = [c \in Clients |-> Idle]
  /\ wire = {}
  /\ delivered = [i \in Items |-> 0]
  /\ online = Accounts

-------------------------------------------------------------------------------
(***************************************************************************)
(* HTTP requests.                                                          *)
(***************************************************************************)

\* The accounts are chosen among those connected; create_message_job stores
\* the text first...
BeginCreate(c, j) ==
  /\ mode = "up" /\ request[c] = Idle /\ Accounts \subseteq online
  /\ status[j] = "absent" /\ ~secret[j]
  /\ secret' = [secret EXCEPT ![j] = TRUE]
  /\ request' = [request EXCEPT ![c] = [Idle EXCEPT !.op = "create", !.job = j]]
  /\ UNCHANGED <<jobVars, itemVars, mode, task, worker, netVars>>

\* ... then the job and its items in one transaction.
CommitCreate(c) ==
  LET j == request[c].job IN
  /\ request[c].op = "create"
  /\ status' = [status EXCEPT ![j] = "queued"]
  /\ tally' = [tally EXCEPT ![j] = [NoCount EXCEPT !.open = Targets]]
  /\ item' = [i \in Items |-> IF i \in ItemsOf(j) THEN "queued" ELSE item[i]]
  /\ request' = [request EXCEPT ![c] = Idle]
  /\ UNCHANGED <<runner, secret, token, attempts, mode, task, worker, netVars>>

\* The transaction fails: the text is deleted again.
AbortCreate(c) ==
  /\ "db" \in Faults
  /\ request[c].op = "create"
  /\ secret' = [secret EXCEPT ![request[c].job] = FALSE]
  /\ request' = [request EXCEPT ![c] = Idle]
  /\ UNCHANGED <<jobVars, itemVars, mode, task, worker, netVars>>

\* The statuses in which each request is accepted.
Accepts(op) ==
  CASE op = "pause"  -> {"queued", "running"}
    [] op = "resume" -> {"paused"}
    [] op = "cancel" -> JobStatus \ (TerminalJob \union {"absent"})

\* What each accepted request assigns to the status.
Assigns(op) ==
  CASE op = "pause"  -> "paused"
    [] op = "resume" -> "queued"
    [] op = "cancel" -> "cancelling"

ReadRow(c, j, op) ==
  /\ mode = "up" /\ request[c] = Idle
  /\ status[j] \in Accepts(op)
  /\ request' = [request EXCEPT ![c] =
       [op |-> op, job |-> j, saw |-> status[j], owned |-> runner[j] # None]]
  /\ UNCHANGED <<jobVars, secret, itemVars, mode, task, worker, netVars>>

CommitRow(c) ==
  LET q == request[c] IN
  /\ q.op \in AllOps
  /\ status' = [status EXCEPT ![q.job] = Flush(q.saw, Assigns(q.op), @)]
  /\ runner' = IF q.op = "resume" /\ q.owned
               THEN [runner EXCEPT ![q.job] = None] ELSE runner
  /\ request' = [request EXCEPT ![c] = Idle]
  /\ UNCHANGED <<tally, secret, itemVars, mode, task, worker, netVars>>

-------------------------------------------------------------------------------
(***************************************************************************)
(* The job task.                                                           *)
(***************************************************************************)
Fresh(r) ==
  /\ \A j \in Jobs : runner[j] # r /\ task[j].run # r
  /\ \A w \in Workers : w[3] = r => worker[w].pc = "off"
  /\ \A i \in Items : token[i] # None => token[i][3] # r

Busy == {j \in Jobs : task[j].pc # "free"}

\* The loop finds the job queued, has no task for it and room for one; the
\* task reads the row again and goes on only if it is still queued.
Launch(j, r) ==
  /\ mode = "up" /\ task[j].pc = "free" /\ status[j] = "queued"
  /\ Cardinality(Busy) < JobSlots /\ Fresh(r)
  /\ task' = [task EXCEPT ![j] = [FreeTask EXCEPT !.pc = "begin", !.run = r]]
  /\ UNCHANGED <<jobVars, secret, itemVars, mode, worker, request, netVars>>

MarkRunning(j) ==
  /\ task[j].pc = "begin"
  /\ status' = [status EXCEPT ![j] = "running"]
  /\ runner' = [runner EXCEPT ![j] = task[j].run]
  /\ task' = [task EXCEPT ![j].pc = "secret"]
  /\ UNCHANGED <<tally, secret, itemVars, mode, worker, request, netVars>>

StartWorkers(j) ==
  /\ task[j].pc = "secret" /\ secret[j]
  /\ task' = [task EXCEPT ![j].pc = "gather"]
  /\ worker' = [w \in Workers |-> IF w \in WorkersOf(j, task[j].run)
                                  THEN At("check", None, "none") ELSE worker[w]]
  /\ UNCHANGED <<jobVars, secret, itemVars, mode, request, netVars>>

\* fail_job(MESSAGE_SECRET_MISSING); the task returns without finalizing.
SecretMissing(j) ==
  /\ task[j].pc = "secret" /\ ~secret[j]
  /\ status' = [status EXCEPT ![j] = "failed"]
  /\ runner' = [runner EXCEPT ![j] = None]
  /\ task' = [task EXCEPT ![j] = FreeTask]
  /\ UNCHANGED <<tally, secret, itemVars, mode, worker, request, netVars>>

\* Variant: the task goes on when the first worker returns.
FirstReturned(j) == \E w \in WorkersOf(j, task[j].run) : worker[w].pc = "off"

Gathered(j) == \A w \in WorkersOf(j, task[j].run) : worker[w].pc = "off"

Join(j) ==
  /\ task[j].pc = "gather" /\ Gathered(j)
  /\ task' = [task EXCEPT ![j].pc = "recount"]
  /\ UNCHANGED <<jobVars, secret, itemVars, mode, worker, request, netVars>>

\* _finalize_job starts with _refresh_counts...
FinalCount(j) ==
  /\ task[j].pc = "recount"
  /\ tally' = [tally EXCEPT ![j] = Tally(j)]
  /\ task' = [task EXCEPT ![j].pc = "load", ![j].count = Tally(j)]
  /\ UNCHANGED <<status, runner, secret, itemVars, mode, worker, request, netVars>>

\* ... then loads the row, and leaves it alone if another run owns it.
FinalRead(j) ==
  /\ task[j].pc = "load"
  /\ task' = [task EXCEPT ![j] = IF runner[j] = task[j].run
                                 THEN [@ EXCEPT !.pc = "close", !.saw = status[j]]
                                 ELSE FreeTask]
  /\ UNCHANGED <<jobVars, secret, itemVars, mode, worker, request, netVars>>

\* Variant: cancelling also rewrites items that ended without success.
CloseAllButSent(j) ==
  LET open(i) == i \in ItemsOf(j) /\ item[i] # "ok" IN
  /\ task[j].pc = "close" /\ task[j].saw = "cancelling"
  /\ item' = [i \in Items |-> IF open(i) THEN "cancelled" ELSE item[i]]
  /\ token' = [i \in Items |-> IF open(i) THEN None ELSE token[i]]
  /\ status' = [status EXCEPT ![j] = "cancelled"]
  /\ task' = [task EXCEPT ![j].pc = "wipe"]
  /\ UNCHANGED <<runner, tally, secret, attempts, mode, worker, request, netVars>>

\* Variant: the job's own status is not set.
CloseItemsOnly(j) ==
  LET open(i) == i \in ItemsOf(j) /\ item[i] \notin TERMINAL IN
  /\ task[j].pc = "close" /\ task[j].saw = "cancelling"
  /\ item' = [i \in Items |-> IF open(i) THEN "cancelled" ELSE item[i]]
  /\ token' = [i \in Items |-> IF open(i) THEN None ELSE token[i]]
  /\ task' = [task EXCEPT ![j].pc = "wipe"]
  /\ UNCHANGED <<jobVars, secret, attempts, mode, worker, request, netVars>>

\* A cancelled job closes the items it has not finished and keeps its runner
\* id and its counts.
CloseCancelled(j) ==
  LET open(i) == i \in ItemsOf(j) /\ item[i] \notin TERMINAL IN
  /\ task[j].pc = "close" /\ task[j].saw = "cancelling"
  /\ item' = [i \in Items |-> IF open(i) THEN "cancelled" ELSE item[i]]
  /\ token' = [i \in Items |-> IF open(i) THEN None ELSE token[i]]
  /\ status' = [status EXCEPT ![j] = "cancelled"]
  /\ task' = [task EXCEPT ![j].pc = "wipe"]
  /\ UNCHANGED <<runner, tally, secret, attempts, mode, worker, request, netVars>>

ClosePaused(j) ==
  /\ task[j].pc = "close" /\ task[j].saw = "paused"
  /\ runner' = [runner EXCEPT ![j] = None]
  /\ task' = [task EXCEPT ![j] = FreeTask]
  /\ UNCHANGED <<status, tally, secret, itemVars, mode, worker, request, netVars>>

\* Variants: open items are overlooked; a job with open items is not requeued.
OutcomeOfErrors(count) == IF count.bad > 0 THEN "completed_with_errors" ELSE "completed"
OutcomeNotRequeued(count) ==
  IF count.open > 0 THEN "running"
  ELSE IF count.bad > 0 THEN "completed_with_errors" ELSE "completed"

Outcome(count) ==
  IF count.open > 0 THEN "queued"
  ELSE IF count.bad > 0 THEN "completed_with_errors" ELSE "completed"

CloseWorked(j) ==
  LET new == Outcome(task[j].count) IN
  /\ task[j].pc = "close" /\ task[j].saw \notin {"cancelling", "paused"}
  /\ status' = [status EXCEPT ![j] = Flush(task[j].saw, new, @)]
  /\ runner' = [runner EXCEPT ![j] = None]
  /\ task' = [task EXCEPT ![j] = IF new = "queued" THEN FreeTask
                                 ELSE [@ EXCEPT !.pc = "wipe"]]
  /\ UNCHANGED <<tally, secret, itemVars, mode, worker, request, netVars>>

\* Variant: a finished task keeps its slot.
WipeKeepsTask(j) ==
  /\ task[j].pc = "wipe" /\ secret[j]
  /\ secret' = [secret EXCEPT ![j] = FALSE]
  /\ UNCHANGED <<jobVars, itemVars, mode, task, worker, request, netVars>>

WipeSecret(j) ==
  /\ task[j].pc = "wipe"
  /\ secret' = [secret EXCEPT ![j] = FALSE]
  /\ task' = [task EXCEPT ![j] = FreeTask]
  /\ UNCHANGED <<jobVars, itemVars, mode, worker, request, netVars>>

-------------------------------------------------------------------------------
(***************************************************************************)
(* The account worker.                                                     *)
(***************************************************************************)
Step(w, state) == worker' = [worker EXCEPT ![w] = state]

\* _job_status, then the client: a disconnected account's worker sleeps and
\* checks again, as does one that waits out a FloodWait: no step.
CheckStatus(w) ==
  LET runs == mode = "up" /\ runner[w[1]] = w[3] /\ status[w[1]] = "running" IN
  /\ worker[w].pc = "check"
  /\ runs => w[2] \in online
  /\ Step(w, IF runs THEN At("claim", None, "none") ELSE Off)
  /\ UNCHANGED <<jobVars, secret, itemVars, mode, task, request, netVars>>

\* _claim_next selects the first item whose retry time has come...
SelectItem(w) ==
  /\ worker[w].pc = "claim"
  /\ \E i \in Share(w) :
       /\ item[i] \in RUNNABLE
       /\ \A k \in Share(w) : k[2] < i[2] => item[k] # "queued"
       /\ Step(w, [At("picked", i, "none") EXCEPT !.tries = attempts[i]])
  /\ UNCHANGED <<jobVars, secret, itemVars, mode, task, request, netVars>>

\* ... and commits the claim.
CommitClaim(w) ==
  LET i == worker[w].item IN
  /\ worker[w].pc = "picked"
  /\ item' = [item EXCEPT ![i] = "processing"]
  /\ token' = [token EXCEPT ![i] = w]
  /\ attempts' = [attempts EXCEPT ![i] = worker[w].tries + 1]
  /\ Step(w, At("send", i, "none"))
  /\ UNCHANGED <<jobVars, secret, mode, task, request, netVars>>

\* Nothing is due: the worker waits if its share has unfinished items.
NothingDue(w) ==
  /\ worker[w].pc = "claim"
  /\ \A i \in Share(w) : item[i] # "queued"
  /\ Step(w, IF \A i \in Share(w) : item[i] \in TERMINAL
             THEN Off ELSE At("check", None, "none"))
  /\ UNCHANGED <<jobVars, secret, itemVars, mode, task, request, netVars>>

Sending == {w \in Workers : worker[w].pc \in {"rpc", "replied"}}

\* Under the account's operation lock and both semaphores.
SendMessage(w) ==
  LET i == worker[w].item IN
  /\ worker[w].pc = "send"
  /\ \A v \in Sending : v[2] # w[2]
  /\ Cardinality(Sending) < Concurrency
  /\ wire' = wire \union {<<w, i>>}
  /\ Step(w, At("rpc", i, "none"))
  /\ UNCHANGED <<jobVars, secret, itemVars, mode, task, request, delivered, online>>

ResolveFails(w) ==
  /\ worker[w].pc = "send"
  /\ Step(w, At("save", worker[w].item, "failed"))
  /\ UNCHANGED <<jobVars, secret, itemVars, mode, task, request, netVars>>

\* Variant: an item counts as sent once its request has left.
ReplyAssumed(w) ==
  /\ worker[w].pc \in {"rpc", "replied"}
  /\ Step(w, At("save", worker[w].item, "ok"))
  /\ UNCHANGED <<jobVars, secret, itemVars, mode, task, request, netVars>>

ReplyOk(w) ==
  /\ worker[w].pc = "replied"
  /\ Step(w, At("save", worker[w].item, "ok"))
  /\ UNCHANGED <<jobVars, secret, itemVars, mode, task, request, netVars>>

\* A FloodWait reply: Telegram refused the request.
FloodReply(w) ==
  LET i == worker[w].item IN
  /\ worker[w].pc = "rpc" /\ <<w, i>> \in wire
  /\ attempts[i] <= FloodBound
  /\ wire' = wire \ {<<w, i>>}
  /\ Step(w, At("save", i, "rate_limited"))
  /\ UNCHANGED <<jobVars, secret, itemVars, mode, task, request, delivered, online>>

\* Variants: a timeout is reported as a failure, is retried, or is not caught.
GiveUpAs(w, state) ==
  /\ worker[w].pc \in {"send", "rpc", "replied"}
  /\ Step(w, state)
  /\ UNCHANGED <<jobVars, secret, itemVars, mode, task, request, netVars>>
GiveUpFailed(w) == GiveUpAs(w, At("save", worker[w].item, "failed"))
GiveUpRetry(w) == GiveUpAs(w, At("save", worker[w].item, "rate_limited"))
GiveUpSilently(w) == GiveUpAs(w, Off)

\* A timeout or any other error: what became of the request is unknown.
GiveUp(w) ==
  /\ worker[w].pc \in {"send", "rpc", "replied"}
  /\ Step(w, At("save", worker[w].item, "in_flight_unknown"))
  /\ UNCHANGED <<jobVars, secret, itemVars, mode, task, request, netVars>>

\* The worker is one that its job's task waits for.
Awaited(w) == task[w[1]].pc = "gather" /\ task[w[1]].run = w[3]

\* Where a worker goes when it has saved, or found its claim taken over.
Saved(w) == IF mode = "stopping" /\ Awaited(w) THEN Off ELSE At("count", None, "none")

\* _save_item and _save_rate_limited load the row and go on only if it holds
\* the worker's token...
CheckToken(w) ==
  /\ worker[w].pc = "save"
  /\ Step(w, IF token[worker[w].item] = w THEN [worker[w] EXCEPT !.pc = "store"]
             ELSE Saved(w))
  /\ UNCHANGED <<jobVars, secret, itemVars, mode, task, request, netVars>>

\* ... then commit the outcome.
Save(w) ==
  LET i == worker[w].item IN
  /\ worker[w].pc = "store"
  /\ item' = [item EXCEPT ![i] = worker[w].out]
  /\ token' = [token EXCEPT ![i] = None]
  /\ Step(w, Saved(w))
  /\ UNCHANGED <<jobVars, secret, attempts, mode, task, request, netVars>>

\* _refresh_counts reads the items' counts, then writes them to the row.
CountItems(w) ==
  /\ worker[w].pc = "count"
  /\ Step(w, [At("counted", None, "none") EXCEPT !.count = Tally(w[1])])
  /\ UNCHANGED <<jobVars, secret, itemVars, mode, task, request, netVars>>

WriteCounts(w) ==
  /\ worker[w].pc = "counted"
  /\ tally' = [tally EXCEPT ![w[1]] = worker[w].count]
  /\ Step(w, At("check", None, "none"))
  /\ UNCHANGED <<status, runner, secret, itemVars, mode, task, request, netVars>>

-------------------------------------------------------------------------------
(***************************************************************************)
(* Telegram: a request is executed, even after its sender gave up, or lost.*)
(***************************************************************************)
Execute(w, i) ==
  /\ <<w, i>> \in wire
  /\ wire' = wire \ {<<w, i>>}
  /\ delivered' = [delivered EXCEPT ![i] = @ + 1]
  /\ worker' = IF worker[w].pc = "rpc" /\ worker[w].item = i
               THEN [worker EXCEPT ![w].pc = "replied"] ELSE worker
  /\ UNCHANGED <<jobVars, secret, itemVars, mode, task, request, online>>

Lose(w, i) ==
  /\ <<w, i>> \in wire
  /\ wire' = wire \ {<<w, i>>}
  /\ UNCHANGED <<jobVars, secret, itemVars, mode, task, worker, request, delivered, online>>

-------------------------------------------------------------------------------
(***************************************************************************)
(* The accounts' connections and the process.                              *)
(***************************************************************************)
Disconnect(a) ==
  /\ "offline" \in Faults /\ a \in online
  /\ online' = online \ {a}
  /\ UNCHANGED <<jobVars, secret, itemVars, mode, task, worker, request, wire, delivered>>

Connect(a) ==
  /\ a \notin online
  /\ online' = online \union {a}
  /\ UNCHANGED <<jobVars, secret, itemVars, mode, task, worker, request, wire, delivered>>

Crash ==
  /\ "crash" \in Faults /\ mode # "down"
  /\ mode' = "down"
  /\ task' = [j \in Jobs |-> FreeTask]
  /\ worker' = [w \in Workers |-> Off]
  /\ request' = [c \in Clients |-> Idle]
  /\ UNCHANGED <<jobVars, secret, itemVars, netVars>>

\* Where a cancelled worker goes on: an attempt is saved as unknown, unless
\* the cancellation falls in the claim's commit or in another save...
Interrupted(w, dropped) ==
  LET s == worker[w] IN
  IF ~Awaited(w) THEN s
  ELSE IF /\ w \notin dropped
          /\ \/ s.pc \in {"send", "rpc", "replied"}
             \/ s.pc \in {"save", "store"} /\ s.out = "ok"
  THEN At("save", s.item, "in_flight_unknown") ELSE Off

\* ... or a second one kills that save: the first worker to end ends gather,
\* and the task cancels the others again.
Droppable(dropped) ==
  \A w \in dropped :
    \/ worker[w].pc = "send"
    \/ \E v \in WorkersOf(w[1], w[3]) \ {w} :
         worker[v].pc # "off" /\ (v \in dropped => worker[v].pc = "send")

\* stop() cancels the job tasks.  One that awaits its workers cancels them
\* and then finalizes; any other ends where it is.
Stop ==
  /\ "stop" \in Faults /\ mode = "up"
  /\ mode' = "stopping"
  /\ \E dropped \in SUBSET {w \in Workers : worker[w].pc # "off"} :
       /\ Droppable(dropped)
       /\ worker' = [w \in Workers |-> Interrupted(w, dropped)]
  /\ task' = [j \in Jobs |-> IF task[j].pc = "gather" THEN task[j] ELSE FreeTask]
  /\ request' = [c \in Clients |-> Idle]
  /\ UNCHANGED <<jobVars, secret, itemVars, netVars>>

Exit ==
  /\ mode = "stopping" /\ Busy = {}
  /\ mode' = "down"
  /\ worker' = [w \in Workers |-> Off]
  /\ UNCHANGED <<jobVars, secret, itemVars, task, request, netVars>>

\* Variants: recovery puts what was in progress back in the queue, or marks
\* it with the status jobs of the other kinds get.
RecoveredForRetry(i) ==
  IF item[i] = "processing" THEN "queued"
  ELSE IF status[i[1]] = "cancelling" /\ item[i] \notin TERMINAL THEN "cancelled"
  ELSE item[i]
RecoveredAsInterrupted(i) ==
  IF item[i] = "processing" THEN "interrupted"
  ELSE IF status[i[1]] = "cancelling" /\ item[i] \notin TERMINAL THEN "cancelled"
  ELSE item[i]

\* What recover_stale makes of an item of job j.
Recovered(i) ==
  IF item[i] = "processing" THEN "in_flight_unknown"
  ELSE IF status[i[1]] = "cancelling" /\ item[i] \notin TERMINAL THEN "cancelled"
  ELSE item[i]

\* recover_stale, before anything else of the process runs.  The texts of the
\* jobs it cancels are deleted after its commit: a crash may keep them.
Restart ==
  /\ mode = "down"
  /\ mode' = "up"
  /\ item' = [i \in Items |-> Recovered(i)]
  /\ token' = [i \in Items |-> IF item[i] = "processing" THEN None ELSE token[i]]
  /\ status' = [j \in Jobs |->
       CASE status[j] = "running"    -> "queued"
         [] status[j] = "cancelling" -> "cancelled"
         [] OTHER                    -> status[j]]
  /\ runner' = [j \in Jobs |-> IF status[j] \in {"running", "cancelling"}
                               THEN None ELSE runner[j]]
  /\ tally' = [j \in Jobs |-> IF status[j] = "cancelling"
                              THEN [tally[j] EXCEPT !.open = 0] ELSE tally[j]]
  /\ \E kept \in SUBSET {j \in Jobs : status[j] = "cancelling"} :
       secret' = [j \in Jobs |-> secret[j] /\ (status[j] = "cancelling" => j \in kept)]
  /\ UNCHANGED <<attempts, task, worker, request, netVars>>

\* A database error ends a worker.  gather raises it and the job is finalized
\* at once; the other workers are not cancelled.
WorkerDies(w) ==
  /\ "db" \in Faults
  /\ worker[w].pc \in {"check", "claim", "picked", "save", "store", "count", "counted"}
  /\ Step(w, Off)
  /\ task' = IF Awaited(w) THEN [task EXCEPT ![w[1]].pc = "recount"] ELSE task
  /\ UNCHANGED <<jobVars, secret, itemVars, mode, request, netVars>>

\* A database error ends a task that has no workers to wait for.
TaskDies(j) ==
  /\ "db" \in Faults
  /\ task[j].pc \in {"begin", "secret", "recount", "load", "close"}
  /\ task' = [task EXCEPT ![j] = FreeTask]
  /\ UNCHANGED <<jobVars, secret, itemVars, mode, worker, request, netVars>>

-------------------------------------------------------------------------------
Client(c) ==
  \/ \E j \in Jobs : BeginCreate(c, j) \/ \E op \in Ops : ReadRow(c, j, op)
  \/ CommitCreate(c) \/ AbortCreate(c) \/ CommitRow(c)

JobTask(j) ==
  \/ \E r \in Runs : Launch(j, r)
  \/ MarkRunning(j) \/ StartWorkers(j) \/ SecretMissing(j) \/ Join(j)
  \/ FinalCount(j) \/ FinalRead(j)
  \/ CloseCancelled(j) \/ ClosePaused(j) \/ CloseWorked(j) \/ WipeSecret(j)

Worker(w) ==
  \/ CheckStatus(w) \/ SelectItem(w) \/ CommitClaim(w) \/ NothingDue(w)
  \/ SendMessage(w) \/ ResolveFails(w) \/ ReplyOk(w) \/ FloodReply(w)
  \/ GiveUp(w) \/ CheckToken(w) \/ Save(w)
  \/ CountItems(w) \/ WriteCounts(w)

Process ==
  \/ \E a \in Accounts : Disconnect(a) \/ Connect(a)
  \/ Crash \/ Stop \/ Exit \/ Restart
  \/ \E w \in Workers : WorkerDies(w)
  \/ \E j \in Jobs : TaskDies(j)

Next ==
  \/ \E c \in Clients : Client(c)
  \/ \E j \in Jobs : JobTask(j)
  \/ \E w \in Workers : Worker(w)
  \/ \E w \in Workers, i \in Items : Execute(w, i) \/ Lose(w, i)
  \/ Process

\* Tasks and handlers run to their next step, an exiting process is started
\* again, and a retry time comes (a worker cannot forever find nothing due).
\* Users need not make requests, accounts need not reconnect, and nothing
\* need go wrong.
Fairness ==
  /\ \A j \in Jobs : WF_vars(JobTask(j))
  /\ \A w \in Workers : WF_vars(Worker(w)) /\ SF_vars(SelectItem(w))
  /\ \A c \in Clients : WF_vars(CommitRow(c)) /\ WF_vars(CommitCreate(c))
  /\ WF_vars(Exit) /\ WF_vars(Restart)

Spec == Init /\ [][Next]_vars /\ Fairness

===============================================================================
