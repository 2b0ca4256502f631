----------------------------- MODULE BulkStream ------------------------------
(***************************************************************************)
(* Streamed bulk jobs (utils.bulk_stream over job_store): a request makes a *)
(* job with one item per account and answers with a stream of rows.  One    *)
(* worker per account performs the action under the account's operation     *)
(* lock and the job's semaphore, stores its row and queues it; the stream   *)
(* takes the rows, stores the counters, and closes the job when it has a    *)
(* row of every account.  Nothing but the database outlives the process,    *)
(* and these jobs are never resumed: the status loop marks those whose      *)
(* heartbeat is old as interrupted.                                         *)
(***************************************************************************)
EXTENDS BulkActions, Sequences, FiniteSets

CONSTANTS Jobs, Accounts,
  Scenarios,      \* what clients ask for, in which circumstances
  Retryable,      \* the job types that may be run again
  Conc,           \* the tenant's concurrency
  MaxActive,      \* the quota of active jobs
  FaultBound,     \* how many failures may happen
  None

FaultKinds == {"db", "crash", "disconnect", "late", "cancel", "direct"}

(* For every job a type and accounts, or the retry of another job; the       *)
(* accounts with a client, with a FloodWait, and in the chat; the failures.  *)
Scenario ==
  [wants : [Jobs -> [kind : Kinds \union {"retry", "none"},
                     accounts : SUBSET Accounts]],
   online : SUBSET Accounts, flood : SUBSET Accounts, members : SUBSET Accounts,
   faults : SUBSET FaultKinds]

Active == {"running", "cancelling"}
Final == {"completed", "completed_with_errors", "cancelled"}
Terminal == Final \union {"interrupted"}
RowStatus == {"ok", "pending", "skipped", "failed"}

\* The holder of a lock that is no bulk job.
Direct == "direct"

ASSUME BulkAssumption ==
  /\ Scenarios \subseteq Scenario
  /\ Retryable \subseteq Kinds
  /\ Conc \in 1..50
  /\ MaxActive \in Nat /\ FaultBound \in Nat
  /\ IsFiniteSet(Accounts)
  /\ Direct \notin Jobs /\ None \notin Jobs \union RowStatus \union {Direct}

VARIABLES
  job,        \* bulk_jobs: status, type, accounts, counters, whether the
              \*   heartbeat is recent
  item,       \* bulk_job_items: status and attempts
  event,      \* job_store._cancel_events
  gen,        \* where the job's stream is
  final,      \* the final status the stream has settled on
  worker,     \* where each worker is, and the row it has made
  outq,       \* the stream's queue of rows
  taken,      \* the accounts whose rows the stream has taken
  cancel,     \* a cancel request under way: the status it has read
  sweep,      \* recovery under way: the stale jobs it has read
  owner,      \* who holds each account's operation lock
  account,    \* the accounts, as Telegram has them and as they are stored
  sent,       \* history: messages the job sent from the account
  flood,      \* accounts with a FloodWait in the future
  given,      \* the scenario of this behaviour; never changes
  file,       \* whether the uploaded files of the job are on disk
  faults      \* failures so far

stored == <<job, item, flood>>
memory == <<event, gen, final, worker, outq, taken, owner, file>>
vars == <<job, item, event, gen, final, worker, outq, taken, cancel, sweep, owner,
          account, sent, flood, given, file, faults>>

NoTally == [s \in RowStatus |-> 0]
NoJob == [status |-> "absent", kind |-> None, accounts |-> {},
          count |-> NoTally, fresh |-> FALSE, source |-> None]
Idle == [pc |-> "off", row |-> None, answer |-> None]

Init ==
  /\ job = [j \in Jobs |-> NoJob]
  /\ item = [j \in Jobs |-> [a \in Accounts |->
                               [status |-> "absent", attempts |-> 0]]]
  /\ event = [j \in Jobs |-> "none"]
  /\ gen = [j \in Jobs |-> "none"]
  /\ final = [j \in Jobs |-> None]
  /\ worker = [j \in Jobs |-> [a \in Accounts |-> Idle]]
  /\ outq = [j \in Jobs |-> <<>>]
  /\ taken = [j \in Jobs |-> {}]
  /\ cancel = [j \in Jobs |-> "none"]
  /\ sweep = {}
  /\ owner = [a \in Accounts |-> None]
  /\ given \in Scenarios
  /\ account = [a \in Accounts |->
       [member |-> a \in given.members, dialog |-> a \in given.members,
        profile |-> "old", stored |-> "old", password |-> "old", known |-> "old"]]
  /\ sent = [j \in Jobs |-> [a \in Accounts |-> 0]]
  /\ flood = given.flood
  /\ file = [j \in Jobs |-> FALSE]
  /\ faults = 0

Fault(f) == f \in given.faults /\ faults < FaultBound /\ faults' = faults + 1

------------------------------------------------------------------------------
(* Requests.  A new job, or the accounts of a finished one that failed, are  *)
(* pending or were never run.                                                *)

ActiveJobs == {j \in Jobs : job[j].status \in Active}

Ask(j, kind, S, source) ==
  /\ gen[j] = "none"
  /\ IF Cardinality(ActiveJobs) >= MaxActive
     THEN gen' = [gen EXCEPT ![j] = "refused"] /\ UNCHANGED job
     ELSE /\ gen' = [gen EXCEPT ![j] = "create"]
          /\ job' = [job EXCEPT ![j].kind = kind, ![j].accounts = S,
                                ![j].source = source]
  /\ file' = [file EXCEPT ![j] = kind = "bulk_photo" /\ gen'[j] = "create"]
  /\ UNCHANGED <<item, event, worker, outq, taken, cancel, sweep, final, owner,
                 account, sent, flood, given, faults>>

Request(j) ==
  /\ given.wants[j].kind \in Kinds
  /\ Ask(j, given.wants[j].kind, given.wants[j].accounts, None)

\* Variant: rows that were ok are run again.
RetryAnyItems == {"failed", "pending", "queued", "running", "ok"}
RetryItems == {"failed", "pending", "queued", "running"}

Unfinished(j) == {a \in job[j].accounts : item[j][a].status \in RetryItems}

Retry(j, source) ==
  /\ given.wants[j].kind = "retry"
  /\ job[source].status \in Terminal
  /\ job[source].kind \in Retryable
  /\ Unfinished(source) # {}
  /\ Ask(j, job[source].kind, Unfinished(source), source)

(* The job, its items and its cancel event; the workers start. *)
CreateJob(j) ==
  /\ gen[j] = "create"
  /\ job' = [job EXCEPT ![j].status = "running", ![j].fresh = TRUE]
  /\ item' = [item EXCEPT ![j] = [a \in Accounts |->
       IF a \in job[j].accounts THEN [status |-> "queued", attempts |-> 0]
       ELSE @[a]]]
  /\ event' = [event EXCEPT ![j] = "clear"]
  /\ worker' = [worker EXCEPT ![j] = [a \in Accounts |->
       IF a \in job[j].accounts THEN [Idle EXCEPT !.pc = "begin"] ELSE Idle]]
  /\ gen' = [gen EXCEPT ![j] = IF job[j].accounts = {} THEN "check" ELSE "get"]
  /\ UNCHANGED <<outq, taken, cancel, sweep, final, owner, account, sent,
                 flood, given, file, faults>>

------------------------------------------------------------------------------
(* The worker of account a in job j. *)

IsCancelled(j) ==
  event[j] = "set" \/ job[j].status \in {"cancelling", "cancelled"}

Go(j, a, pc) == worker' = [worker EXCEPT ![j][a].pc = pc]

(* The row is made; it is stored and queued in the next step. *)
MakeRow(j, a, status) ==
  worker' = [worker EXCEPT ![j][a] = [@ EXCEPT !.pc = "write", !.row = status]]

Touched(j) == [job EXCEPT ![j].fresh = TRUE]

\* Variant: a worker that finds its job cancelled ends without a row.
BeginSilently(j, a) ==
  /\ worker[j][a].pc = "begin"
  /\ IF IsCancelled(j) \/ a \notin given.online THEN Go(j, a, "done")
     ELSE Go(j, a, "flood")
  /\ UNCHANGED <<stored, event, gen, outq, taken, cancel, sweep, final, owner,
                 account, sent, given, file, faults>>

(* Not run at all: cancelled, no client, or a FloodWait. *)
Begin(j, a) ==
  /\ worker[j][a].pc = "begin"
  /\ IF IsCancelled(j) \/ a \notin given.online THEN MakeRow(j, a, "skipped")
     ELSE Go(j, a, "flood")
  /\ UNCHANGED <<stored, event, gen, outq, taken, cancel, sweep, final, owner,
                 account, sent, given, file, faults>>

CheckFlood(j, a) ==
  /\ worker[j][a].pc = "flood"
  /\ IF a \in flood THEN MakeRow(j, a, "pending") ELSE Go(j, a, "turn")
  /\ UNCHANGED <<stored, event, gen, outq, taken, cancel, sweep, final, owner,
                 account, sent, given, file, faults>>

(* The pacer's turn has come: last look at the cancellation. *)
TakeTurn(j, a) ==
  /\ worker[j][a].pc = "turn"
  /\ IF IsCancelled(j) THEN MakeRow(j, a, "skipped") ELSE Go(j, a, "lock")
  /\ UNCHANGED <<stored, event, gen, outq, taken, cancel, sweep, final, owner,
                 account, sent, given, file, faults>>

Inside == {"start", "call", "note"}
Slots(j) == {b \in Accounts : worker[j][b].pc \in Inside}

Lock(j, a) ==
  /\ worker[j][a].pc = "lock"
  /\ owner[a] = None
  /\ owner' = [owner EXCEPT ![a] = j]
  /\ Go(j, a, "sem")
  /\ UNCHANGED <<stored, event, gen, outq, taken, cancel, sweep, account,
                 sent, final, given, file, faults>>

TakeSlot(j, a) ==
  /\ worker[j][a].pc = "sem"
  /\ Cardinality(Slots(j)) < Conc
  /\ Go(j, a, "start")
  /\ UNCHANGED <<stored, event, gen, outq, taken, cancel, sweep, final, owner,
                 account, sent, given, file, faults>>

MarkItemStarted(j, a) ==
  /\ worker[j][a].pc = "start"
  /\ item' = [item EXCEPT ![j][a] = [status |-> "running",
                                     attempts |-> @.attempts + 1]]
  /\ job' = Touched(j)
  /\ Go(j, a, "call")
  /\ UNCHANGED <<event, gen, outq, taken, cancel, sweep, final, owner, account, sent,
                 flood, given, file, faults>>

(* Whether the call brought the message out: a timeout may have. *)
Messages(kind, o) ==
  IF kind = "message_send" /\ (o.answer = "ok" \/ (o.answer = "timeout" /\ o.account.dialog))
  THEN 1 ELSE 0

(* The action runs; Telegram may have applied it whatever the answer is. *)
Call(j, a) ==
  /\ worker[j][a].pc = "call"
  /\ \E o \in Outcomes(job[j].kind, account[a], file[j]) :
       /\ account' = [account EXCEPT ![a] = o.account]
       /\ sent' = [sent EXCEPT ![j][a] = @ + Messages(job[j].kind, o)]
       /\ worker' = [worker EXCEPT ![j][a].pc = "note",
                                   ![j][a].answer = o.answer]
  /\ UNCHANGED <<job, item, event, gen, outq, taken, cancel, sweep, final, owner,
                 flood, given, file, faults>>

(* The account's state follows the answer, then the slot and the lock are    *)
(* given back.                                                               *)
Release(a) == owner' = [owner EXCEPT ![a] = None]

Note(j, a) ==
  LET answer == worker[j][a].answer IN
  /\ worker[j][a].pc = "note"
  /\ flood' = IF answer = "flood" THEN flood \union {a} ELSE flood
  /\ MakeRow(j, a, RowOf(answer))
  /\ Release(a)
  /\ UNCHANGED <<job, item, event, gen, outq, taken, cancel, sweep,
                 account, sent, final, given, file, faults>>

MarkItemResult(j, a) ==
  /\ worker[j][a].pc = "write"
  /\ item' = [item EXCEPT ![j][a].status = worker[j][a].row]
  /\ job' = Touched(j)
  /\ outq' = [outq EXCEPT ![j] = Append(@, a)]
  /\ Go(j, a, "done")
  /\ UNCHANGED <<event, gen, taken, cancel, sweep, final, owner, account, sent,
                 flood, given, file, faults>>

(* A database error ends the worker's task, which nobody awaits before the   *)
(* stream has all rows; one that meets the note of a success becomes the     *)
(* answer of the action.                                                     *)
Dies(j, a) == worker' = [worker EXCEPT ![j][a].pc = "dead"]

\* Variant: an operation that ends badly keeps its lock.
KeepLocked(S) == UNCHANGED owner

Unlock(S) == owner' = [a \in Accounts |-> IF a \in S THEN None ELSE owner[a]]
Held(j) == {a \in Accounts : owner[a] = j}

WorkerFails(j, a) ==
  /\ Fault("db")
  /\ \/ /\ worker[j][a].pc \in {"begin", "flood", "turn", "start", "write"}
        /\ Dies(j, a) /\ Unlock(Held(j) \intersect {a})
     \/ /\ worker[j][a].pc = "note" /\ worker[j][a].answer \in Raised
        /\ Dies(j, a) /\ Release(a)
     \/ /\ worker[j][a].pc = "note" /\ worker[j][a].answer \in {"ok", "warned"}
        /\ worker' = [worker EXCEPT ![j][a].answer = "error"]
        /\ UNCHANGED owner
  /\ UNCHANGED <<stored, event, gen, outq, taken, cancel, sweep, account,
                 sent, final, given, file>>

------------------------------------------------------------------------------
(* The stream of job j. *)

GenGo(j, pc) == gen' = [gen EXCEPT ![j] = pc]

Tally(j, S) ==
  [s \in RowStatus |-> Cardinality({a \in S : worker[j][a].row = s})]

TakeRow(j) ==
  /\ gen[j] = "get" /\ outq[j] # <<>>
  /\ taken' = [taken EXCEPT ![j] = @ \union {Head(outq[j])}]
  /\ outq' = [outq EXCEPT ![j] = Tail(@)]
  /\ GenGo(j, "count")
  /\ UNCHANGED <<stored, event, worker, cancel, sweep, final, owner, account, sent,
                 given, file, faults>>

(* The row goes out once the counters are stored. *)
UpdateCounts(j) ==
  /\ gen[j] = "count"
  /\ job' = [job EXCEPT ![j].count = Tally(j, taken[j]), ![j].fresh = TRUE]
  /\ GenGo(j, IF taken[j] = job[j].accounts THEN "check" ELSE "get")
  /\ UNCHANGED <<item, flood, event, worker, outq, taken, cancel,
                 sweep, final, owner, account, sent, given, file, faults>>

\* Variant: the wrong counter decides.
FinalBySkipped(j, cancelled) ==
  IF cancelled THEN "cancelled"
  ELSE IF Tally(j, taken[j])["skipped"] > 0 THEN "completed_with_errors"
  ELSE "completed"
FinalStatus(j, cancelled) ==
  IF cancelled THEN "cancelled"
  ELSE IF Tally(j, taken[j])["failed"] > 0 THEN "completed_with_errors"
  ELSE "completed"

(* The workers have ended: is the job cancelled? *)
CheckCancelled(j) ==
  /\ gen[j] = "check"
  /\ final' = [final EXCEPT ![j] = FinalStatus(j, IsCancelled(j))]
  /\ GenGo(j, "finish")
  /\ UNCHANGED <<stored, event, worker, outq, taken, cancel, sweep, owner,
                 account, sent, given, file, faults>>

FinishJob(j) ==
  /\ gen[j] = "finish"
  /\ job' = [job EXCEPT ![j].status = final[j], ![j].fresh = TRUE,
                        ![j].count = Tally(j, taken[j])]
  /\ event' = [event EXCEPT ![j] = "none"]
  /\ file' = [file EXCEPT ![j] = FALSE]
  /\ GenGo(j, "done")
  /\ UNCHANGED <<item, flood, worker, outq, taken, cancel, sweep,
                 final, owner, account, sent, given, faults>>

(* The client is gone, or the stream met a database error: it asks for the   *)
(* cancellation of its own job and waits for its workers.  The wait of a     *)
(* stream that is itself being cancelled is cut short, and with it the       *)
(* request or the workers.  The files of a photo job go with the stream.     *)
Disconnect(j) ==
  /\ Fault("disconnect")
  /\ gen[j] \in {"get", "count"}
  /\ GenGo(j, "closing")
  /\ file' \in {file, [file EXCEPT ![j] = FALSE]}
  /\ UNCHANGED <<stored, event, worker, outq, taken, cancel, sweep, final, owner,
                 account, sent, given>>

(* Before the workers start, or after they have ended, the stream just ends. *)
StreamFails(j) ==
  /\ \/ Fault("db") /\ gen[j] = "count" /\ GenGo(j, "closing")
     \/ /\ Fault("db") \/ Fault("disconnect")
        /\ gen[j] \in {"create", "check", "finish"} /\ GenGo(j, "raised")
  /\ file' = [file EXCEPT ![j] = @ /\ gen'[j] # "raised"]
  /\ UNCHANGED <<stored, event, worker, outq, taken, cancel, sweep, final, owner,
                 account, sent, given>>

Cancelled(j) == [job EXCEPT ![j].status = "cancelling", ![j].fresh = TRUE]

CloseStream(j) ==
  /\ gen[j] = "closing"
  /\ \/ /\ job[j].status \notin Terminal
        /\ job' = Cancelled(j)
        /\ event' = [event EXCEPT ![j] = IF @ = "none" THEN @ ELSE "set"]
     \/ /\ job[j].status \in Terminal \/ "disconnect" \in given.faults
        /\ UNCHANGED <<job, event>>
  /\ GenGo(j, "drain")
  /\ UNCHANGED <<item, flood, worker, outq, taken, cancel, sweep,
                 final, owner, account, sent, given, file, faults>>

Ended(j) == \A a \in Accounts : worker[j][a].pc \in {"off", "done", "dead"}

Drain(j) ==
  /\ gen[j] = "drain"
  /\ GenGo(j, "raised")
  /\ file' = [file EXCEPT ![j] = FALSE]
  /\ \/ Ended(j) /\ UNCHANGED <<worker, owner>>
     \/ /\ ~Ended(j) /\ "disconnect" \in given.faults
        /\ worker' = [worker EXCEPT ![j] = [a \in Accounts |->
             IF @[a].pc \in {"off", "done"} THEN @[a] ELSE [@[a] EXCEPT !.pc = "dead"]]]
        /\ Unlock(Held(j))
  /\ UNCHANGED <<stored, event, outq, taken, cancel, sweep, account, sent,
                 final, given, faults>>

------------------------------------------------------------------------------
(* Cancel requests of the user: read the job, then store and signal. *)

RequestCancel(j) ==
  /\ Fault("cancel")
  /\ cancel[j] = "none" /\ job[j].status \in Active
  /\ cancel' = [cancel EXCEPT ![j] = job[j].status]
  /\ UNCHANGED <<stored, memory, sweep, account, sent, given>>

(* Only a column that changes is written. *)
StoreCancel(j) ==
  /\ cancel[j] # "none"
  /\ job' = IF cancel[j] = "cancelling" THEN Touched(j) ELSE Cancelled(j)
  /\ event' = [event EXCEPT ![j] = IF @ = "none" THEN @ ELSE "set"]
  /\ cancel' = [cancel EXCEPT ![j] = "none"]
  /\ UNCHANGED <<item, flood, gen, worker, outq, taken, sweep, final, owner,
                 account, sent, given, file, faults>>

------------------------------------------------------------------------------
(* Requests that act on one account at once, under its operation lock.       *)

DirectKinds == Kinds \intersect {"group_join", "group_leave", "message_send"}

DirectLock(a) ==
  /\ Fault("direct")
  /\ a \in given.online /\ owner[a] = None
  /\ owner' = [owner EXCEPT ![a] = Direct]
  /\ UNCHANGED <<stored, event, gen, worker, outq, taken, cancel, sweep,
                 account, sent, final, given, file>>

DirectCall(a) ==
  /\ owner[a] = Direct
  /\ \E kind \in DirectKinds : \E o \in Outcomes(kind, account[a], FALSE) :
       account' = [account EXCEPT ![a] = o.account]
  /\ Release(a)
  /\ UNCHANGED <<stored, event, gen, worker, outq, taken, cancel, sweep, sent,
                 final, given, file, faults>>

------------------------------------------------------------------------------
(* The status loop: jobs whose heartbeat is three minutes old are marked.    *)

Live(j) == gen[j] \in {"get", "count", "check", "finish", "closing", "drain"}

(* A heartbeat is renewed by every write of the job, and by nothing else: it *)
(* ages when the job is dead or has nothing to write, and a live job may be  *)
(* late, when its pacing or its locks make it wait.                          *)
CanWrite(j) ==
  \/ gen[j] \in {"count", "check", "finish", "closing"}
  \/ gen[j] = "get" /\ outq[j] # <<>>
  \/ \E a \in Accounts : worker[j][a].pc \notin {"off", "done", "dead"}

HeartbeatAges(j) ==
  /\ job[j].status \in Active /\ job[j].fresh
  /\ IF CanWrite(j) THEN Fault("late") ELSE UNCHANGED faults
  /\ job' = [job EXCEPT ![j].fresh = FALSE]
  /\ UNCHANGED <<item, flood, memory, cancel, sweep, account, sent,
                 given>>

Stale == {j \in Jobs : job[j].status \in Active /\ ~job[j].fresh}

FindStale ==
  /\ sweep = {} /\ Stale # {}
  /\ sweep' = Stale
  /\ UNCHANGED <<stored, memory, cancel, account, sent, given, faults>>

RecoverInterrupted ==
  /\ sweep # {}
  /\ job' = [j \in Jobs |-> IF j \in sweep
       THEN [job[j] EXCEPT !.status = "interrupted", !.fresh = TRUE] ELSE job[j]]
  /\ sweep' = {}
  /\ UNCHANGED <<item, flood, memory, cancel, account, sent, given,
                 faults>>

(* FloodWaits pass. *)
FloodPasses(a) ==
  /\ a \in flood /\ flood' = flood \ {a}
  /\ UNCHANGED <<job, item, memory, cancel, sweep, account, sent,
                 given, faults>>

(* The process is killed and started again. *)
Crash ==
  /\ Fault("crash")
  /\ event' = [j \in Jobs |-> "none"]
  /\ gen' = [j \in Jobs |-> IF gen[j] \in {"none", "refused", "raised", "done"} THEN gen[j]
                            ELSE "lost"]
  /\ worker' = [j \in Jobs |-> [a \in Accounts |->
       IF worker[j][a].pc \in {"off", "done"} THEN worker[j][a]
       ELSE [worker[j][a] EXCEPT !.pc = "dead"]]]
  /\ outq' = [j \in Jobs |-> <<>>]
  /\ owner' = [a \in Accounts |-> None]
  /\ cancel' = [j \in Jobs |-> "none"]
  /\ sweep' = {}
  /\ UNCHANGED <<stored, taken, account, sent, final, given, file>>

------------------------------------------------------------------------------
Work(j, a) ==
  \/ Begin(j, a) \/ CheckFlood(j, a) \/ TakeTurn(j, a) \/ Lock(j, a)
  \/ TakeSlot(j, a) \/ MarkItemStarted(j, a) \/ Call(j, a) \/ Note(j, a)
  \/ MarkItemResult(j, a)

Stream(j) ==
  \/ CreateJob(j) \/ TakeRow(j) \/ UpdateCounts(j) \/ CheckCancelled(j)
  \/ FinishJob(j) \/ CloseStream(j) \/ Drain(j)

(* What goes on by itself: the coroutines, the status loop and time. *)
Progress ==
  \/ \E j \in Jobs : Stream(j) \/ StoreCancel(j) \/ \E a \in Accounts : Work(j, a)
  \/ \E a \in Accounts : FloodPasses(a) \/ DirectCall(a)
  \/ (\E j \in Jobs : HeartbeatAges(j)) \/ FindStale \/ RecoverInterrupted

(* What clients and failures add. *)
Event ==
  \/ \E j \in Jobs : \/ Request(j) \/ RequestCancel(j)
                     \/ \E s \in Jobs : Retry(j, s)
                     \/ Disconnect(j) \/ StreamFails(j)
                     \/ \E a \in Accounts : WorkerFails(j, a)
  \/ (\E a \in Accounts : DirectLock(a)) \/ Crash

Next == Progress \/ Event

(* The loop runs whatever is ready, the status loop among it, and time       *)
(* passes.  No step of Progress repeats for ever, so that fairness to one is *)
(* fairness to all.                                                          *)
Fairness == WF_vars(Progress)

Spec == Init /\ [][Next]_vars /\ Fairness
==============================================================================
