------------------------- MODULE PhoneCheckProperties -------------------------
(***************************************************************************)
(* What the phone-number checker must guarantee.                           *)
(***************************************************************************)
EXTENDS PhoneCheck

Counters == [success : Nat, failed : Nat, skipped : Nat, pending : Nat]

TaskState ==
  [pc : {"free", "begin", "start", "gather", "load", "tally", "close"},
   job : Jobs \union {None}, run : Runs \union {None},
   saw : JobStatus, new : JobStatus]

Outcomes == {"none", "found", "not_discoverable", "permanent_error",
             "temporary_error", "rate_limited", "in_flight_unknown"}
WorkerState ==
  [pc : {"off", "check", "claim", "picked", "rpc", "save", "store"},
   item : Items \union {None}, out : Outcomes, tries : Nat,
   acct : Accounts \union {None}]

RequestState ==
  [op : AllOps \union {"none", "create"}, job : Jobs \union {None},
   saw : JobStatus, owned : BOOLEAN,
   moves : UNION {[S -> Accounts] : S \in SUBSET Items}]

\* Every variable holds what the code can store in it.
TypeOK ==
  /\ status \in [Jobs -> JobStatus]
  /\ runner \in [Jobs -> Runs \union {None}]
  /\ count \in [Jobs -> Counters]
  /\ item \in [Items -> ItemStatus]
  /\ owner \in [Items -> Accounts \union {None}]
  /\ token \in [Items -> Workers \union {None}]
  /\ attempts \in [Items -> Nat]
  /\ processed \in [Seats -> Nat]
  /\ online \subseteq {AccountOrder[k] : k \in DOMAIN AccountOrder}
  /\ mode \in {"up", "stopping", "down"}
  /\ task \in TaskState
  /\ worker \in [Workers -> WorkerState]
  /\ request \in [Clients -> RequestState]

Number(j, S) == Cardinality({i \in ItemsOf(j) : item[i] \in S})

\* The job's counters, kept one result at a time and never recounted, are at
\* all times those of its items: no claim, retry, crash or recovery between
\* two results loses one or counts it twice.
CountsAddUp ==
  \A j \in Jobs : status[j] # "absent" =>
    /\ count[j].success = Number(j, {"found"})
    /\ count[j].failed = Number(j, {"permanent_error"})
    /\ count[j].skipped = Number(j, {"not_discoverable", "invalid"})
    /\ count[j].pending = Number(j, ItemStatus \ TerminalItem)

\* The numbers charged to the accounts of a job: number n of account a.
Charged(j) == UNION {{a} \X (1 .. processed[j, a]) : a \in Accounts}

\* The accounts' counters and the job's agree, whichever account an item was
\* moved to and whoever saved it.
AccountsAddUp ==
  \A j \in Jobs : status[j] # "absent" =>
    Cardinality(Charged(j)) + Cardinality(Invalid)
      = count[j].success + count[j].failed + count[j].skipped

Holds(w, i) == worker[w].pc \in {"rpc", "save", "store"} /\ worker[w].item = i

\* A number is checked by one worker at a time.
OneChecker ==
  \A v, w \in Workers, i \in Items : Holds(v, i) /\ Holds(w, i) => v = w

\* While the process is up, a claimed item is in the hands of the worker whose
\* token it holds: no item is stuck in processing.
ClaimsAreHeld ==
  mode = "up" =>
    \A i \in Items : item[i] = "processing" =>
      \E w \in Workers : Holds(w, i) /\ token[i] = w

\* An item waits for a retry only if it has attempts left.
AttemptsRespected ==
  \A i \in Items : item[i] = "temporary_error" => attempts[i] < MaxAttempts

\* A completed job has no open item, and says "with errors" exactly if a
\* number was invalid or its check failed for good.
CompletedIsExact ==
  \A j \in Jobs : status[j] \in {"completed", "completed_with_errors"} =>
    /\ Number(j, ItemStatus \ TerminalItem) = 0
    /\ (status[j] = "completed") <=> (Number(j, {"invalid", "permanent_error"}) = 0)

-------------------------------------------------------------------------------
(***************************************************************************)
(* The inductive strengthening, in three layers: what holds whatever goes  *)
(* wrong, what holds while no database error ends a worker its task waits  *)
(* for, and what holds if, besides, no item is moved.                      *)
(***************************************************************************)
Holding == {"rpc", "save", "store"}

\* A job id is created by one request; the others name a job that exists.
RequestsMatch ==
  \A c \in Clients :
    /\ request[c].op = "create" =>
         /\ status[request[c].job] = "absent"
         /\ \A d \in Clients :
              request[d].op = "create" /\ request[d].job = request[c].job => d = c
    /\ request[c].op \in AllOps => status[request[c].job] # "absent"

\* The task works on a job that exists, and does not delete it.
TaskKnowsJob ==
  /\ task.pc # "free" => status[task.job] # "absent"
  /\ task.pc = "close" => task.new # "absent"

RowsTogether == \A i \in Items : (status[i[1]] = "absent") <=> (item[i] = "absent")

\* A worker has an item of its job that some account owns, and charges what it
\* saves to an account.
WorkersKnow ==
  \A w \in Workers :
    LET i == worker[w].item IN
    /\ worker[w].pc \in Holding \union {"picked"} =>
         i \in ItemsOf(w[1]) /\ item[i] # "absent" /\ owner[i] \in Accounts
    /\ worker[w].pc = "store" => worker[w].acct \in Accounts

NothingCharged ==
  \A j \in Jobs : status[j] = "absent" => \A a \in Accounts : processed[j, a] = 0

\* Inductive with every fault and every request.
LedgerInv ==
  /\ RequestsMatch /\ TaskKnowsJob /\ RowsTogether /\ WorkersKnow
  /\ NothingCharged /\ AccountsAddUp

\* A live worker belongs to the run the task waits for.
WorkersAwaited == \A w \in Workers : worker[w].pc # "off" => Awaited(w)

Completed == {"completed", "completed_with_errors"}

\* The task works on a job that is not completed.
TaskHasJob == task.pc # "free" => status[task.job] \notin Completed

DownIsQuiet ==
  /\ mode = "down" => task.pc = "free"
  /\ mode # "up" => \A c \in Clients : request[c].op = "none"

\* The outcome a task is about to store is that of its job's items, which no
\* worker changes any more.
FinalizerKnows ==
  /\ task.pc \in {"tally", "close"} => task.saw \notin Completed
  /\ task.pc = "tally" => task.saw \notin {"cancelling", "paused"}
  /\ task.pc = "close" =>
       /\ task.saw \notin {"cancelling", "paused"} =>
            task.new = Outcome({item[i] : i \in ItemsOf(task.job)})
       /\ task.saw = "paused" => task.new = "paused"

\* Claims, completion and the accounts' counters: inductive without database
\* errors, also while items are moved.
MovingInv ==
  /\ LedgerInv
  /\ WorkersAwaited /\ TaskHasJob /\ DownIsQuiet /\ ClaimsAreHeld
  /\ FinalizerKnows /\ CompletedIsExact

\* A worker picks, claims and holds items of its own share.
ClaimsMatch ==
  \A w \in Workers :
    LET i == worker[w].item IN
    /\ worker[w].pc \in Holding \union {"picked"} => i \in ShareOf(w[1], w[2])
    /\ worker[w].pc = "picked" => item[i] \in RunnableItem
    /\ worker[w].pc \in Holding => item[i] = "processing" /\ token[i] = w
    /\ worker[w].pc = "store" => worker[w].tries = attempts[i]

\* Inductive without database errors and rebalance requests.
CheckerInv ==
  /\ MovingInv
  /\ ClaimsMatch /\ AttemptsRespected /\ CountsAddUp

-------------------------------------------------------------------------------
\* A finished item never changes again.
FinishedItemsStay ==
  [][\A i \in Items : item[i] \in TerminalItem => item'[i] = item[i]]_vars

Settled(j) == status[j] \in TerminalJob \union {"paused", "cancelling"}

\* Once the process and every account stay up, a queued or running job
\* finishes unless a user pauses or cancels it.
JobsSettle ==
  <>[](mode = "up" /\ Accounts \subseteq online) =>
    \A j \in Jobs : status[j] \in {"queued", "running"} ~> Settled(j)

\* A cancel that reaches a job whose workers run is carried out.
LiveCancelsEnd ==
  \A j \in Jobs :
    (status[j] = "cancelling" /\ task.pc = "gather" /\ task.job = j
       /\ runner[j] = task.run) ~> status[j] # "cancelling"

\* Once connections stay as they are, an item of a running job whose account
\* is connected is not left waiting forever: this is what moving items to
\* connected accounts is for.
ConnectedAccountsWork ==
  <>[][online' = online]_vars =>
    \A i \in Items :
      ~<>[](/\ mode = "up" /\ status[i[1]] = "running"
            /\ item[i] \in RunnableItem /\ owner[i] \in online)

===============================================================================
