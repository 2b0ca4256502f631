------------------------------ MODULE PhoneCheck ------------------------------
(***************************************************************************)
(* The phone-number checker: phone_check_runner.py, with the create, pause,*)
(* resume, cancel and rebalance requests of routers/phone_checks.py.       *)
(*                                                                         *)
(* The runner works on one job at a time, with one worker per account.  A  *)
(* check may be repeated, so unlike a message an interrupted or unanswered *)
(* check goes back to the queue; the job row counts results as they come   *)
(* instead of recounting; and a request may move items between accounts    *)
(* while workers run.                                                      *)
(*                                                                         *)
(* Loading a row and committing it are two steps, as in MessageDispatch.   *)
(***************************************************************************)
EXTENDS Integers, Sequences, FiniteSets

CONSTANTS
  Jobs,
  AccountOrder,  \* a job's accounts, in the order items are dealt to them
  Phones,        \* numbers per job
  Invalid,       \* those of 1 .. Phones that cannot be normalized
  MaxAttempts,   \* PhoneCheckItem.max_attempts
  Runs,          \* runner ids
  Clients,       \* HTTP requests that may be in progress at once
  Ops,           \* the requests users make: subset of AllOps
  Faults,        \* what may go wrong: subset of AllFaults
  RetryBound,    \* bound: claims of an item that may end unanswered
  None

AllOps == {"pause", "resume", "cancel", "rebalance"}
AllFaults == {"crash", "stop", "db", "offline"}

ASSUME ConstantsAssumption ==
  /\ IsFiniteSet(Jobs)
  /\ Phones \in Nat \ {0} /\ Invalid \subseteq 1 .. Phones
  /\ AccountOrder \in Seq(Nat) /\ Len(AccountOrder) > 0
  /\ \A k, l \in DOMAIN AccountOrder : AccountOrder[k] = AccountOrder[l] => k = l
  /\ MaxAttempts \in Nat \ {0} /\ RetryBound \in Nat
  /\ Ops \subseteq AllOps /\ Faults \subseteq AllFaults
  /\ None \notin Runs \union Nat \union (Jobs \X Nat \X Runs) \union (Jobs \X Nat)

VARIABLES
  status, runner, count,   \* BulkJob: status, runner_id, the four counters
  item, owner, token, attempts,
                           \* PhoneCheckItem: status, account_id,
                           \* processing_token, attempts
  processed,               \* PhoneCheckAccount.processed
  online,                  \* the accounts with a connected client
  mode,                    \* the process: up, stopping or down
  task,                    \* the job task (_job_task)
  worker,                  \* the account workers
  request                  \* HTTP requests between their read and their commit

jobVars == <<status, runner, count>>
itemVars == <<item, owner, token, attempts>>
vars == <<jobVars, itemVars, processed, online, mode, task, worker, request>>

-------------------------------------------------------------------------------
Valid == (1 .. Phones) \ Invalid

\* The accounts that get a number; the others are not part of the job.
Used == SubSeq(AccountOrder, 1, IF Cardinality(Valid) < Len(AccountOrder)
                                THEN Cardinality(Valid) ELSE Len(AccountOrder))
Accounts == {Used[k] : k \in DOMAIN Used}
Items == Jobs \X (1 .. Phones)
Workers == Jobs \X Accounts \X Runs
Seats == Jobs \X Accounts
ItemsOf(j) == {j} \X (1 .. Phones)
ShareOf(j, a) == {i \in ItemsOf(j) : owner[i] = a}

TerminalJob == {"completed", "completed_with_errors", "cancelled", "failed"}
ActiveJob == {"queued", "running", "paused", "cancelling"}
JobStatus == {"absent"} \union ActiveJob \union TerminalJob

\* retry_required, the other answer that asks for a retry, is handled like
\* temporary_error, which stands for both.
RunnableItem == {"queued", "temporary_error", "rate_limited", "in_flight_unknown"}
TerminalItem == {"found", "not_discoverable", "invalid", "permanent_error", "cancelled"}
ItemStatus == {"absent", "processing"} \union RunnableItem \union TerminalItem

NoCount == [success |-> 0, failed |-> 0, skipped |-> 0, pending |-> 0]

\* A worker is off, or at a step of its loop with the item it holds, the
\* outcome it is about to save, the attempts and the account it has read.
At(pc, i, out) == [pc |-> pc, item |-> i, out |-> out, tries |-> 0, acct |-> None]
Off == At("off", None, "none")

\* The task is free, or at a step with its job, its runner id, the status it
\* loaded and the one it is about to store.
FreeTask == [pc |-> "free", job |-> None, run |-> None, saw |-> "absent", new |-> "absent"]
Idle == [op |-> "none", job |-> None, saw |-> "absent", owned |-> FALSE, moves |-> <<>>]

\* A commit stores a column only if the handler changed the value it loaded.
Flush(loaded, assigned, stored) == IF assigned = loaded THEN stored ELSE assigned

\* Items of S, in the order of their ids, are dealt to the accounts of seq.
Rank(i, S) == Cardinality({k \in S : k[2] < i[2]})
Deal(S, seq) == [i \in S |-> seq[(Rank(i, S) % Len(seq)) + 1]]

Init ==
  /\ status = [j \in Jobs |-> "absent"]
  /\ runner = [j \in Jobs |-> None]
  /\ count = [j \in Jobs |-> NoCount]
  /\ item = [i \in Items |-> "absent"]
  /\ owner = [i \in Items |-> None]
  /\ token = [i \in Items |-> None]
  /\ attempts = [i \in Items |-> 0]
  /\ processed = [s \in Seats |-> 0]
  /\ online = {AccountOrder[k] : k \in DOMAIN AccountOrder}
  /\ mode = "up"
  /\ task = FreeTask
  /\ worker = [w \in Workers |-> Off]
  /\ request = [c \in Clients |-> Idle]

-------------------------------------------------------------------------------
(***************************************************************************)
(* HTTP requests.                                                          *)
(***************************************************************************)

\* create_phone_check_job looks for connected accounts that no active job has...
BeginCreate(c, j) ==
  /\ mode = "up" /\ request[c] = Idle /\ status[j] = "absent"
  /\ \A d \in Clients : ~(request[d].op = "create" /\ request[d].job = j)
  /\ \A k \in DOMAIN AccountOrder : AccountOrder[k] \in online
  /\ Accounts # {} => \A k \in Jobs : status[k] \notin ActiveJob
  /\ request' = [request EXCEPT ![c] = [Idle EXCEPT !.op = "create", !.job = j]]
  /\ UNCHANGED <<jobVars, itemVars, processed, online, mode, task, worker>>

\* ... then inserts the job, deals its valid numbers and counts the others as
\* skipped.
CommitCreate(c) ==
  LET j == request[c].job
      dealt == Deal({j} \X Valid, Used)
  IN
  /\ request[c].op = "create"
  /\ status' = [status EXCEPT ![j] = "queued"]
  /\ count' = [count EXCEPT ![j] = [NoCount EXCEPT
       !.skipped = Cardinality(Invalid), !.pending = Cardinality(Valid)]]
  /\ item' = [i \in Items |-> IF i \notin ItemsOf(j) THEN item[i]
                              ELSE IF i[2] \in Valid THEN "queued" ELSE "invalid"]
  /\ owner' = [i \in Items |-> IF i \in DOMAIN dealt THEN dealt[i] ELSE owner[i]]
  /\ request' = [request EXCEPT ![c] = Idle]
  /\ UNCHANGED <<runner, token, attempts, processed, online, mode, task, worker>>

\* The statuses in which each request is accepted, and what it assigns.
Accepts(op) ==
  CASE op = "pause"     -> {"queued", "running"}
    [] op = "resume"    -> {"paused"}
    [] op = "cancel"    -> ActiveJob
    [] op = "rebalance" -> {"queued", "running", "paused"}

Assigns(op, loaded) ==
  CASE op = "pause"     -> "paused"
    [] op = "resume"    -> "queued"
    [] op = "cancel"    -> "cancelling"
    [] op = "rebalance" -> loaded

\* The elements of seq that are in S, in their order.
Selected(seq, S) ==
  LET kept[k \in 0 .. Len(seq)] ==
        IF k = 0 THEN <<>>
        ELSE IF seq[k] \in S THEN Append(kept[k - 1], seq[k])
        ELSE kept[k - 1]
  IN kept[Len(seq)]

\* rebalance deals the open items of disconnected accounts to connected ones.
Ready == Selected(Used, online)
Moves(j) ==
  Deal({i \in ItemsOf(j) : item[i] \in RunnableItem /\ owner[i] \notin online}, Ready)

ReadRow(c, j, op) ==
  /\ mode = "up" /\ request[c] = Idle
  /\ status[j] \in Accepts(op)
  /\ op = "rebalance" => Ready # <<>>
  /\ request' = [request EXCEPT ![c] =
       [op |-> op, job |-> j, saw |-> status[j], owned |-> runner[j] # None,
        moves |-> IF op = "rebalance" THEN Moves(j) ELSE <<>>]]
  /\ UNCHANGED <<jobVars, itemVars, processed, online, mode, task, worker>>

CommitRow(c) ==
  LET q == request[c] IN
  /\ q.op \in AllOps
  /\ status' = [status EXCEPT ![q.job] = Flush(q.saw, Assigns(q.op, q.saw), @)]
  /\ runner' = IF q.op = "resume" /\ q.owned
               THEN [runner EXCEPT ![q.job] = None] ELSE runner
  /\ owner' = [i \in Items |-> IF i \in DOMAIN q.moves THEN q.moves[i] ELSE owner[i]]
  /\ request' = [request EXCEPT ![c] = Idle]
  /\ UNCHANGED <<count, item, token, attempts, processed, online, mode, task, worker>>

-------------------------------------------------------------------------------
(***************************************************************************)
(* The job task.                                                           *)
(***************************************************************************)
Fresh(r) ==
  /\ \A j \in Jobs : runner[j] # r
  /\ \A w \in Workers : w[3] = r => worker[w].pc = "off"
  /\ \A i \in Items : token[i] # None => token[i][3] # r

\* The loop runs one job at a time; the task reads the row again and goes on
\* only if the job is still queued.
Launch(j, r) ==
  /\ mode = "up" /\ task.pc = "free" /\ status[j] = "queued" /\ Fresh(r)
  /\ task' = [FreeTask EXCEPT !.pc = "begin", !.job = j, !.run = r]
  /\ UNCHANGED <<jobVars, itemVars, processed, online, mode, worker, request>>

MarkRunning ==
  /\ task.pc = "begin"
  /\ status' = [status EXCEPT ![task.job] = "running"]
  /\ runner' = [runner EXCEPT ![task.job] = task.run]
  /\ task' = [task EXCEPT !.pc = "start"]
  /\ UNCHANGED <<count, itemVars, processed, online, mode, worker, request>>

Crew == {w \in Workers : w[1] = task.job /\ w[3] = task.run}

StartWorkers ==
  /\ task.pc = "start"
  /\ task' = [task EXCEPT !.pc = "gather"]
  /\ worker' = [w \in Workers |-> IF w \in Crew THEN At("check", None, "none") ELSE worker[w]]
  /\ UNCHANGED <<jobVars, itemVars, processed, online, mode, request>>

\* Variant: the task goes on when the first worker returns.
FirstReturned == \E w \in Crew : worker[w].pc = "off"

Gathered == \A w \in Crew : worker[w].pc = "off"

Join ==
  /\ task.pc = "gather" /\ Gathered
  /\ task' = [task EXCEPT !.pc = "load"]
  /\ UNCHANGED <<jobVars, itemVars, processed, online, mode, worker, request>>

\* _finalize_job loads the row and leaves it alone if another run owns it.
FinalRead ==
  LET seen == status[task.job] IN
  /\ task.pc = "load"
  /\ task' = IF runner[task.job] # task.run THEN FreeTask
             ELSE [task EXCEPT !.saw = seen, !.new = seen,
                     !.pc = IF seen \in {"cancelling", "paused"} THEN "close" ELSE "tally"]
  /\ UNCHANGED <<jobVars, itemVars, processed, online, mode, worker, request>>

\* Variants: open items are overlooked; a job with open items is not requeued.
OutcomeOfErrors(S) ==
  IF S \intersect {"invalid", "permanent_error"} # {} THEN "completed_with_errors"
  ELSE "completed"
OutcomeNotRequeued(S) ==
  IF S \subseteq TerminalItem THEN OutcomeOfErrors(S) ELSE "running"

\* What becomes of a job whose items have the statuses S.
Outcome(S) ==
  IF ~(S \subseteq TerminalItem) THEN "queued"
  ELSE IF S \intersect {"invalid", "permanent_error"} # {} THEN "completed_with_errors"
  ELSE "completed"

FinalTally ==
  /\ task.pc = "tally"
  /\ task' = [task EXCEPT !.pc = "close",
                          !.new = Outcome({item[i] : i \in ItemsOf(task.job)})]
  /\ UNCHANGED <<jobVars, itemVars, processed, online, mode, worker, request>>

CloseAs(closed, new) ==
  /\ task.pc = "close" /\ task.saw = "cancelling"
  /\ item' = [i \in Items |-> IF i \in closed THEN "cancelled" ELSE item[i]]
  /\ token' = [i \in Items |-> IF i \in closed THEN None ELSE token[i]]
  /\ status' = [status EXCEPT ![task.job] = new]
  /\ count' = [count EXCEPT ![task.job].pending = 0]
  /\ runner' = [runner EXCEPT ![task.job] = None]
  /\ task' = FreeTask
  /\ UNCHANGED <<owner, attempts, processed, online, mode, worker, request>>
OpenItems == {i \in ItemsOf(task.job) : item[i] \notin TerminalItem}

\* Variants: finished items are cancelled too; only the items are closed.
CloseEverything == CloseAs(ItemsOf(task.job), "cancelled")
CloseItemsOnly == CloseAs(OpenItems, "cancelling")

CloseCancelled == CloseAs(OpenItems, "cancelled")

\* A paused job only loses its runner; any other gets its outcome.
CloseWorked ==
  /\ task.pc = "close" /\ task.saw # "cancelling"
  /\ status' = [status EXCEPT ![task.job] = Flush(task.saw, task.new, @)]
  /\ runner' = [runner EXCEPT ![task.job] = None]
  /\ task' = FreeTask
  /\ UNCHANGED <<count, itemVars, processed, online, mode, worker, request>>

-------------------------------------------------------------------------------
(***************************************************************************)
(* The account worker.                                                     *)
(***************************************************************************)
Step(w, state) == worker' = [worker EXCEPT ![w] = state]

\* _job_state, then the client: a disconnected account's worker sleeps and
\* checks again, as does one that waits out a FloodWait: no step.
CheckState(w) ==
  LET runs == mode = "up" /\ runner[w[1]] = w[3] /\ status[w[1]] = "running" IN
  /\ worker[w].pc = "check"
  /\ runs => w[2] \in online
  /\ Step(w, IF runs THEN At("claim", None, "none") ELSE Off)
  /\ UNCHANGED <<jobVars, itemVars, processed, online, mode, task, request>>

\* _claim_next_item selects the first item whose retry time has come...
SelectItem(w) ==
  /\ worker[w].pc = "claim"
  /\ \E i \in ShareOf(w[1], w[2]) :
       /\ item[i] \in RunnableItem
       /\ \A k \in ShareOf(w[1], w[2]) : k[2] < i[2] => item[k] # "queued"
       /\ Step(w, [At("picked", i, "none") EXCEPT !.tries = attempts[i]])
  /\ UNCHANGED <<jobVars, itemVars, processed, online, mode, task, request>>

\* ... and commits the claim.
ClaimAs(w, tries) ==
  LET i == worker[w].item IN
  /\ worker[w].pc = "picked"
  /\ item' = [item EXCEPT ![i] = "processing"]
  /\ token' = [token EXCEPT ![i] = w]
  /\ attempts' = [attempts EXCEPT ![i] = tries]
  /\ Step(w, At("rpc", i, "none"))
  /\ UNCHANGED <<jobVars, owner, processed, online, mode, task, request>>

\* Variant: a claim does not count as an attempt.
ClaimUncounted(w) == ClaimAs(w, worker[w].tries)

CommitClaim(w) == ClaimAs(w, worker[w].tries + 1)

\* Nothing is due: the worker returns if its share has no open item.
NothingDue(w) ==
  LET share == ShareOf(w[1], w[2]) IN
  /\ worker[w].pc = "claim"
  /\ \A i \in share : item[i] # "queued"
  /\ Step(w, IF \A i \in share : item[i] \in TerminalItem
             THEN Off ELSE At("check", None, "none"))
  /\ UNCHANGED <<jobVars, itemVars, processed, online, mode, task, request>>

\* check_phone answers, under the account's operation lock; a timeout or an
\* exception counts as a temporary error.
Answer(w) ==
  LET i == worker[w].item IN
  /\ worker[w].pc = "rpc"
  /\ \E out \in {"found", "not_discoverable", "permanent_error",
                 "temporary_error", "rate_limited"} :
       /\ out = "rate_limited" => attempts[i] <= RetryBound
       /\ Step(w, At("save", i, out))
  /\ UNCHANGED <<jobVars, itemVars, processed, online, mode, task, request>>

\* The worker is one that the task waits for.
Awaited(w) == task.pc = "gather" /\ w \in Crew

\* Where a worker goes when it has saved, or found its claim taken over; a
\* cancelled one ends.
Saved(w) == IF mode = "stopping" /\ Awaited(w) THEN Off ELSE At("check", None, "none")

\* _save_result and _quarantine_item load the row and go on only if it holds
\* the worker's token...
CheckToken(w) ==
  LET i == worker[w].item IN
  /\ worker[w].pc = "save"
  /\ Step(w, IF token[i] = w
             THEN [worker[w] EXCEPT !.pc = "store", !.tries = attempts[i], !.acct = owner[i]]
             ELSE Saved(w))
  /\ UNCHANGED <<jobVars, itemVars, processed, online, mode, task, request>>

\* Variants: retries never run out; the error code is stored as the status.
RetriedAlways(out, tries) == out
RetriedAsCode(out, tries) ==
  IF out = "temporary_error" /\ tries >= MaxAttempts THEN "retry_exhausted" ELSE out

\* What an outcome becomes after the tries it took.
Retried(out, tries) ==
  IF out = "temporary_error" /\ tries >= MaxAttempts THEN "permanent_error" ELSE out

\* Variant: pending is not counted down.
CountedWithoutPending(n, result) ==
  [n EXCEPT !.success = IF result = "found" THEN @ + 1 ELSE @,
            !.skipped = IF result = "not_discoverable" THEN @ + 1 ELSE @,
            !.failed  = IF result = "permanent_error" THEN @ + 1 ELSE @]

\* The job's counters after a final result.
Counted(n, result) ==
  [success |-> IF result = "found" THEN n.success + 1 ELSE n.success,
   skipped |-> IF result = "not_discoverable" THEN n.skipped + 1 ELSE n.skipped,
   failed  |-> IF result = "permanent_error" THEN n.failed + 1 ELSE n.failed,
   pending |-> IF n.pending > 0 THEN n.pending - 1 ELSE 0]

\* ... then commit the item, the account's counter and the job's counters.
StoreAs(w, result, charged) ==
  LET i == worker[w].item IN
  /\ worker[w].pc = "store"
  /\ item' = [item EXCEPT ![i] = result]
  /\ token' = [token EXCEPT ![i] = None]
  /\ count' = IF result \in TerminalItem
              THEN [count EXCEPT ![i[1]] = Counted(@, result)] ELSE count
  /\ processed' = IF charged \in TerminalItem
                  THEN [processed EXCEPT ![<<i[1], worker[w].acct>>] = @ + 1] ELSE processed
  /\ Step(w, Saved(w))
  /\ UNCHANGED <<status, runner, owner, attempts, online, mode, task, request>>

\* Variant: a retry that runs out is not charged to the account.
StoreUncharged(w) ==
  StoreAs(w, Retried(worker[w].out, worker[w].tries), worker[w].out)

Store(w) ==
  LET result == Retried(worker[w].out, worker[w].tries) IN StoreAs(w, result, result)

-------------------------------------------------------------------------------
(***************************************************************************)
(* The accounts' connections and the process.                              *)
(***************************************************************************)
Disconnect(a) ==
  /\ "offline" \in Faults /\ a \in online
  /\ online' = online \ {a}
  /\ UNCHANGED <<jobVars, itemVars, processed, mode, task, worker, request>>

Connect(a) ==
  /\ a \notin online
  /\ online' = online \union {a}
  /\ UNCHANGED <<jobVars, itemVars, processed, mode, task, worker, request>>

\* Each interruption may cost every open item one more attempt.
Interruptible == mode = "up" => \A i \in Items : attempts[i] <= RetryBound

Crash ==
  /\ "crash" \in Faults /\ mode # "down" /\ Interruptible
  /\ mode' = "down"
  /\ task' = FreeTask
  /\ worker' = [w \in Workers |-> Off]
  /\ request' = [c \in Clients |-> Idle]
  /\ UNCHANGED <<jobVars, itemVars, processed, online>>

\* A cancelled worker saves its check as interrupted, unless the cancellation
\* falls in the claim's commit or in a save.
Interrupted(w, dropped) ==
  IF ~Awaited(w) THEN worker[w]
  ELSE IF worker[w].pc = "rpc" /\ w \notin dropped
  THEN At("save", worker[w].item, "in_flight_unknown") ELSE Off

\* stop() cancels the job task.  If it awaits its workers it cancels them and
\* then finalizes; otherwise it ends where it is.
Stop ==
  /\ "stop" \in Faults /\ mode = "up" /\ Interruptible
  /\ mode' = "stopping"
  /\ \E dropped \in SUBSET {w \in Workers : worker[w].pc = "rpc"} :
       worker' = [w \in Workers |-> Interrupted(w, dropped)]
  /\ task' = IF task.pc = "gather" THEN task ELSE FreeTask
  /\ request' = [c \in Clients |-> Idle]
  /\ UNCHANGED <<jobVars, itemVars, processed, online>>

Exit ==
  /\ mode = "stopping" /\ task.pc = "free"
  /\ mode' = "down"
  /\ worker' = [w \in Workers |-> Off]
  /\ UNCHANGED <<jobVars, itemVars, processed, online, task, request>>

\* Variant: recovery leaves claimed items as they are.
RecoveredUnclaimed(i) ==
  IF status[i[1]] = "cancelling" /\ item[i] \notin TerminalItem THEN "cancelled"
  ELSE item[i]

\* What recover_stale makes of an item.
Recovered(i) ==
  IF status[i[1]] = "cancelling" /\ item[i] \notin TerminalItem THEN "cancelled"
  ELSE IF item[i] = "processing" THEN "in_flight_unknown"
  ELSE item[i]

\* recover_stale, before anything else of the process runs.
Restart ==
  /\ mode = "down"
  /\ mode' = "up"
  /\ item' = [i \in Items |-> Recovered(i)]
  /\ token' = [i \in Items |-> IF item[i] = "processing" THEN None ELSE token[i]]
  /\ status' = [j \in Jobs |->
       CASE status[j] = "running"    -> "queued"
         [] status[j] = "cancelling" -> "cancelled"
         [] OTHER                    -> status[j]]
  /\ runner' = [j \in Jobs |-> IF status[j] \in {"running", "cancelling"}
                               THEN None ELSE runner[j]]
  /\ count' = [j \in Jobs |-> IF status[j] = "cancelling"
                              THEN [count[j] EXCEPT !.pending = 0] ELSE count[j]]
  /\ UNCHANGED <<owner, attempts, processed, online, task, worker, request>>

\* A database error ends a worker.  gather raises it and the job is finalized
\* at once; the other workers are not cancelled.
WorkerDies(w) ==
  /\ "db" \in Faults
  /\ worker[w].pc \in {"check", "claim", "picked", "save", "store"}
  /\ Step(w, Off)
  /\ task' = IF Awaited(w) THEN [task EXCEPT !.pc = "load"] ELSE task
  /\ UNCHANGED <<jobVars, itemVars, processed, online, mode, request>>

\* A database error ends the task where it has no workers to wait for.
TaskDies ==
  /\ "db" \in Faults
  /\ task.pc \in {"begin", "start", "load", "tally", "close"}
  /\ task' = FreeTask
  /\ UNCHANGED <<jobVars, itemVars, processed, online, mode, worker, request>>

-------------------------------------------------------------------------------
Client(c) ==
  \/ \E j \in Jobs : BeginCreate(c, j) \/ \E op \in Ops : ReadRow(c, j, op)
  \/ CommitCreate(c) \/ CommitRow(c)

JobTask ==
  \/ \E j \in Jobs, r \in Runs : Launch(j, r)
  \/ MarkRunning \/ StartWorkers \/ Join \/ FinalRead \/ FinalTally
  \/ CloseCancelled \/ CloseWorked

Worker(w) ==
  \/ CheckState(w) \/ SelectItem(w) \/ CommitClaim(w) \/ NothingDue(w)
  \/ Answer(w) \/ CheckToken(w) \/ Store(w)

Process ==
  \/ \E a \in Accounts : Disconnect(a) \/ Connect(a)
  \/ Crash \/ Stop \/ Exit \/ Restart
  \/ \E w \in Workers : WorkerDies(w)
  \/ TaskDies

Next ==
  \/ \E c \in Clients : Client(c)
  \/ JobTask
  \/ \E w \in Workers : Worker(w)
  \/ Process

\* Tasks and handlers run to their next step, an exiting process is started
\* again, and a retry time comes.  Users need not make requests, accounts need
\* not reconnect, and nothing need go wrong.
Fairness ==
  /\ WF_vars(JobTask)
  /\ \A w \in Workers : WF_vars(Worker(w)) /\ SF_vars(SelectItem(w))
  /\ \A c \in Clients : WF_vars(CommitRow(c)) /\ WF_vars(CommitCreate(c))
  /\ WF_vars(Exit) /\ WF_vars(Restart)

Spec == Init /\ [][Next]_vars /\ Fairness

===============================================================================
