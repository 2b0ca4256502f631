---------------------- MODULE MessageDispatchProperties -----------------------
(***************************************************************************)
(* What the message sender must guarantee.                                 *)
(***************************************************************************)
EXTENDS MessageDispatch

Counts == [ok : Nat, bad : Nat, skip : Nat, open : Nat]

TaskState ==
  [pc : {"free", "begin", "secret", "gather", "recount", "load", "close", "wipe"},
   run : Runs \union {None}, saw : JobStatus, count : Counts]

WorkerPc == {"off", "check", "claim", "picked", "send", "rpc", "replied",
             "save", "store", "count", "counted"}
Outcomes == TERMINAL \union {"none", "rate_limited"}
WorkerState ==
  [pc : WorkerPc, item : Items \union {None}, out : Outcomes,
   tries : Nat, count : Counts]

RequestState ==
  [op : AllOps \union {"none", "create"}, job : Jobs \union {None},
   saw : JobStatus, owned : BOOLEAN]

\* Every variable holds what the code can store in it.
TypeOK ==
  /\ status \in [Jobs -> JobStatus]
  /\ runner \in [Jobs -> Runs \union {None}]
  /\ tally \in [Jobs -> Counts]
  /\ secret \in [Jobs -> BOOLEAN]
  /\ item \in [Items -> ItemStatus]
  /\ token \in [Items -> Workers \union {None}]
  /\ attempts \in [Items -> Nat]
  /\ mode \in {"up", "stopping", "down"}
  /\ task \in [Jobs -> TaskState]
  /\ worker \in [Workers -> WorkerState]
  /\ request \in [Clients -> RequestState]
  /\ wire \subseteq Workers \X Items
  /\ delivered \in [Items -> Nat]
  /\ online \subseteq Accounts

\* No recipient receives the text twice, whatever pauses, resumes, FloodWaits,
\* timeouts, crashes and restarts come between claim, send and save.
AtMostOnce == \A i \in Items : delivered[i] <= 1

Outstanding(i) == \E w \in Workers : <<w, i>> \in wire

\* An item reported ok was delivered; one that may still be claimed, or was
\* reported failed, was not, and no request for it is left that could be.
HonestReports ==
  \A i \in Items :
    /\ item[i] = "ok" => delivered[i] = 1
    /\ item[i] \in RUNNABLE \union {"failed"} =>
         delivered[i] = 0 /\ ~Outstanding(i)

\* While the process is up, a claimed item is in the hands of a live worker
\* that still holds the claim's token: no item is stuck in processing.
ClaimsAreHeld ==
  mode = "up" =>
    \A i \in Items : item[i] = "processing" =>
      \E w \in Workers :
        /\ worker[w].pc \in {"send", "rpc", "replied", "save", "store"}
        /\ worker[w].item = i /\ token[i] = w

\* A completed job has no open item, says "with errors" exactly if an item
\* failed, and its stored counts are those of its items.
CompletedIsExact ==
  \A j \in Jobs : status[j] \in {"completed", "completed_with_errors"} =>
    /\ tally[j] = Tally(j)
    /\ tally[j].open = 0
    /\ (status[j] = "completed") <=> (tally[j].bad = 0)

\* The text is kept as long as an item of the job can still be sent, through
\* every race of a request with the finalizer that deletes it.
UnfinishedHasSecret ==
  \A i \in Items : item[i] \in RUNNABLE => secret[i[1]]

\* A finished item never changes again: no late save, recovery or second
\* claim reopens or rewrites it.
FinishedItemsStay ==
  [][\A i \in Items : item[i] \in TERMINAL => item'[i] = item[i]]_vars

\* Whatever workers survive a database error, an item reported ok was
\* delivered.
OkMeansDelivered == \A i \in Items : item[i] = "ok" => delivered[i] > 0

\* The runner implements the promise of OutboxDelivery.
ItemReport == [i \in Items |->
  CASE item[i] \in RUNNABLE            -> "waiting"
    [] item[i] = "processing"          -> "attempting"
    [] item[i] = "in_flight_unknown"   -> "unknown"
    [] OTHER                           -> item[i]]

InFlight == [i \in Items |-> Outstanding(i)]

Outbox == INSTANCE OutboxDelivery
          WITH report <- ItemReport, inflight <- InFlight, copies <- delivered

DeliversAsPromised == Outbox!Spec

-------------------------------------------------------------------------------
(***************************************************************************)
(* The inductive strengthening of AtMostOnce and HonestReports: who may    *)
(* touch an item, and what has happened to it at each step of its claim.   *)
(***************************************************************************)
Holding == {"send", "rpc", "replied", "save", "store"}
Untouched(i) == delivered[i] = 0 /\ ~Outstanding(i)

\* A live worker has items and belongs to the run its job's task waits for.
WorkersAwaited ==
  \A w \in Workers : worker[w].pc # "off" => Share(w) # {} /\ Awaited(w)

TasksExist == \A j \in Jobs : task[j].pc # "free" => status[j] # "absent"

DownIsQuiet ==
  /\ mode = "down" => \A j \in Jobs : task[j].pc = "free"
  /\ mode # "up" => \A c \in Clients : request[c].op = "none"

\* A job id is created by one request; the others name a job that exists.
RequestsMatch ==
  \A c \in Clients :
    /\ request[c].op # "none" => request[c].job \in Jobs
    /\ request[c].op = "create" =>
         /\ status[request[c].job] = "absent" /\ secret[request[c].job]
         /\ \A d \in Clients :
              request[d].op = "create" /\ request[d].job = request[c].job => d = c
    /\ request[c].op \in AllOps => status[request[c].job] # "absent"

\* A job's row and its items are created together.
RowsTogether == \A i \in Items : (status[i[1]] = "absent") <=> (item[i] = "absent")

\* A worker picks, claims and holds items of its own share.
ClaimsMatch ==
  \A w \in Workers :
    /\ worker[w].pc \in Holding \union {"picked"} => worker[w].item \in Share(w)
    /\ worker[w].pc = "picked" => item[worker[w].item] \in RUNNABLE
    /\ worker[w].pc \in Holding =>
         item[worker[w].item] = "processing" /\ token[worker[w].item] = w

\* At most one copy or one outstanding request, and none for an item that
\* may still be sent or was reported failed.
ItemsDelivered ==
  \A i \in Items :
    /\ delivered[i] \in {0, 1}
    /\ delivered[i] = 1 => ~Outstanding(i)
    /\ item[i] \in RUNNABLE \union {"absent", "failed"} => Untouched(i)
    /\ item[i] = "ok" => delivered[i] = 1

OneRequest ==
  \A v, w \in Workers, i \in Items : <<v, i>> \in wire /\ <<w, i>> \in wire => v = w

\* What a worker knows of its item.
WorkersKnow ==
  \A w \in Workers :
    LET i == worker[w].item
        out == worker[w].out IN
    /\ worker[w].pc = "send" => Untouched(i)
    /\ worker[w].pc = "replied" => delivered[i] = 1
    /\ worker[w].pc \in {"save", "store"} =>
         /\ out \in {"ok", "failed", "rate_limited", "in_flight_unknown"}
         /\ out = "ok" => delivered[i] = 1
         /\ out \in {"failed", "rate_limited"} => Untouched(i)

\* A claimed item may go back to the queue, so its text must be kept too.
SecretIsKept ==
  \A i \in Items : item[i] \in RUNNABLE \union {"processing"} => secret[i[1]]

Completed == {"completed", "completed_with_errors"}

\* The counts a task finalizes with are those of its items, which no worker
\* changes any more; it does not finalize a job that is completed, and deletes
\* the text of none that can go on.
FinalizerKnows ==
  \A j \in Jobs :
    /\ task[j].pc \in {"load", "close"} => task[j].count = Tally(j) /\ tally[j] = Tally(j)
    /\ task[j].pc = "close" => task[j].saw \notin Completed
    /\ task[j].pc = "wipe" => \A i \in ItemsOf(j) : item[i] \in TERMINAL
    /\ status[j] \in Completed => task[j].pc \in {"free", "wipe"}

\* Inductive without database errors; it implies AtMostOnce, HonestReports and
\* UnfinishedHasSecret.
DeliveryInv ==
  /\ WorkersAwaited /\ TasksExist /\ DownIsQuiet
  /\ RequestsMatch /\ RowsTogether /\ ClaimsMatch
  /\ ItemsDelivered /\ OneRequest /\ WorkersKnow
  /\ ClaimsAreHeld /\ SecretIsKept /\ FinalizerKnows /\ CompletedIsExact

-------------------------------------------------------------------------------
Settled(j) == status[j] \in TerminalJob \union {"paused", "cancelling"}

\* Once the process and every account stay up, a queued or running job
\* finishes unless a user pauses or cancels it: no job is forgotten by the
\* loop, the workers or the finalizer, whatever went down before.
JobsSettle ==
  <>[](mode = "up" /\ Accounts \subseteq online) =>
    \A j \in Jobs : status[j] \in {"queued", "running"} ~> Settled(j)

\* A cancel that reaches a job whose workers run is carried out, also if
\* their accounts are not connected.
LiveCancelsEnd ==
  \A j \in Jobs :
    (status[j] = "cancelling" /\ task[j].pc = "gather" /\ runner[j] = task[j].run)
      ~> status[j] # "cancelling"

\* Every cancel request that was accepted is eventually carried out.
CancelsEnd ==
  \A j \in Jobs : status[j] = "cancelling" ~> status[j] # "cancelling"

===============================================================================
