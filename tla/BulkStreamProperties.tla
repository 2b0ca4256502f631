------------------------ MODULE BulkStreamProperties -------------------------
(***************************************************************************)
(* What streamed bulk jobs must guarantee.                                  *)
(***************************************************************************)
EXTENDS BulkStream

JobRecord ==
  [status : Active \union Terminal \union {"absent"}, kind : Kinds \union {None},
   accounts : SUBSET Accounts, count : [RowStatus -> Nat], fresh : BOOLEAN,
   source : Jobs \union {None}]

WorkerRecord ==
  [pc : Inside \union {"off", "begin", "flood", "turn", "lock", "sem", "write",
                       "done", "dead"},
   row : RowStatus \union {None}, answer : Returned \union Raised \union {None}]

\* Every variable holds what the code can store in it.
TypeOK ==
  /\ job \in [Jobs -> JobRecord]
  /\ item \in [Jobs -> [Accounts ->
       [status : RowStatus \union {"absent", "queued", "running"}, attempts : Nat]]]
  /\ event \in [Jobs -> {"none", "clear", "set"}]
  /\ gen \in [Jobs -> {"none", "refused", "create", "get", "count", "check",
                       "finish", "closing", "drain", "raised", "lost", "done"}]
  /\ final \in [Jobs -> Final \union {None}]
  /\ worker \in [Jobs -> [Accounts -> WorkerRecord]]
  /\ outq \in [Jobs -> Seq(Accounts)]
  /\ taken \in [Jobs -> SUBSET Accounts]
  /\ cancel \in [Jobs -> Active \union {"none"}]
  /\ sweep \subseteq Jobs
  /\ owner \in [Accounts -> Jobs \union {None, Direct}]
  /\ account \in [Accounts -> AccountSides]
  /\ sent \in [Jobs -> [Accounts -> Nat]]
  /\ flood \subseteq Accounts
  /\ file \in [Jobs -> BOOLEAN]

\* An operation lock is held exactly by the worker that is past it: whatever
\* dies, is cancelled or crashes between, no account stays locked and no two
\* operations of an account run at once.
LocksAreHeld ==
  /\ \A a \in Accounts, j \in Jobs :
       owner[a] = j <=> worker[j][a].pc \in Inside \union {"sem"}
  /\ \A j \in Jobs : Cardinality(Slots(j)) <= Conc

\* A job closed by its stream has a stored result of every account, its
\* counters are those of the stored rows, and it says "with errors" exactly if
\* a row failed.
FinishedIsExact ==
  \A j \in Jobs : job[j].status \in Final =>
    /\ \A a \in job[j].accounts : item[j][a].status \in RowStatus
    /\ job[j].count = [s \in RowStatus |->
         Cardinality({a \in job[j].accounts : item[j][a].status = s})]
    /\ job[j].status = "completed" => job[j].count["failed"] = 0
    /\ job[j].status = "completed_with_errors" => job[j].count["failed"] > 0

\* The stored counters never run ahead of the stored rows: a row is counted
\* only once it is in the database.
CountsFollowRows ==
  \A j \in Jobs, s \in RowStatus :
    job[j].count[s] <= Cardinality({a \in Accounts : item[j][a].status = s})

\* When an action is reported ok, and while the account is still locked, what
\* the report says is true of the account: it is in the chat it joined, out of
\* the chat it left, and the profile and the password stored are Telegram's,
\* unless the row warns that the password could not be stored.
OkIsTrue ==
  \A j \in Jobs, a \in Accounts :
    (worker[j][a].pc = "note" /\ worker[j][a].answer = "ok") =>
      CASE job[j].kind = "group_join" -> account[a].member
        [] job[j].kind \in {"group_leave", "group_leave_target"} ->
             ~account[a].member
        [] job[j].kind = "bulk_profile" -> account[a].stored = account[a].profile
        [] job[j].kind = "change_2fa" -> account[a].known = account[a].password
        [] OTHER -> TRUE

\* A bulk message goes out at most once per account and job, and an account
\* whose row is pending or skipped has not sent it.
SentOnce ==
  \A j \in Jobs, a \in Accounts :
    /\ sent[j][a] <= item[j][a].attempts
    /\ item[j][a].attempts <= 1
    /\ item[j][a].status \in {"pending", "skipped", "queued"} => sent[j][a] = 0

\* The uploaded photos are gone when the stream is, however it ended: refused,
\* closed, broken off, or failed.  (A crash leaves the files behind.)
FilesRemoved ==
  \A j \in Jobs : gen[j] \in {"refused", "done", "raised"} => ~file[j]

\* The rows of a retry are of accounts the source had not finished with, as
\* far as the source's stream was over.
RetriesUnfinished ==
  [][\A j \in Jobs : (gen[j] = "none" /\ gen'[j] = "create" /\ job'[j].source # None) =>
       LET s == job'[j].source IN
       \A a \in job'[j].accounts :
          worker[s][a].row = "ok" => Live(s) \/ worker[s][a].pc = "dead"]_vars

\* A job that is not created has left nothing behind, and nobody has read it.
JobMatches(j) ==
  /\ gen[j] \in {"none", "refused", "create"} => job[j].status = "absent"
  /\ job[j].status = "absent" =>
       /\ gen[j] \in {"none", "refused", "create", "raised", "lost"}
       /\ cancel[j] = "none" /\ j \notin sweep
       /\ taken[j] = {} /\ outq[j] = <<>>
       /\ \A a \in Accounts : worker[j][a] = Idle
  /\ gen[j] = "create" \/ job[j].status # "absent" => job[j].kind \in Kinds

\* A worker works while its stream waits for it, on an item of its job that
\* has a result exactly if the worker is done.
WorkerMatches(j, a) ==
  LET w == worker[j][a] IN
  /\ w.pc # "off" => a \in job[j].accounts
  /\ w.pc \notin {"off", "done", "dead"} => gen[j] \in {"get", "count", "closing", "drain"}
  /\ w.pc = "done" => item[j][a].status = w.row
  /\ w.pc \in {"write", "done"} <=> w.pc # "dead" /\ w.row \in RowStatus
  /\ w.pc # "done" => item[j][a].status \notin RowStatus
  /\ w.pc = "note" => w.answer \in Returned \union Raised
  /\ w.pc \in {"off", "begin", "flood", "turn", "lock", "sem", "start"} =>
       item[j][a].attempts = 0
  /\ w.pc \in {"call", "note"} => item[j][a] = [status |-> "running", attempts |-> 1]

\* The rows on their way to the stream and those it has taken are different
\* ones, of workers that are done; a verdict is about rows of all accounts.
RowsMatch(j) ==
  /\ \A m, n \in DOMAIN outq[j] : outq[j][m] = outq[j][n] => m = n
  /\ \A n \in DOMAIN outq[j] :
       outq[j][n] \notin taken[j] /\ worker[j][outq[j][n]].pc = "done"
  /\ \A a \in taken[j] : worker[j][a].pc = "done"
  /\ gen[j] \in {"check", "finish", "done"} => taken[j] = job[j].accounts
  /\ gen[j] \in {"finish", "done"} => \E c \in BOOLEAN : final[j] = FinalStatus(j, c)
  /\ job[j].status \in Final =>
       gen[j] = "done" /\ job[j].status = final[j] /\ job[j].count = Tally(j, taken[j])

\* A message is sent by a call, and what becomes of its row says that it may
\* have been.
SentMatches(j, a) ==
  sent[j][a] # 0 =>
    LET w == worker[j][a] IN
    /\ w.pc \in {"note", "write", "done", "dead"} /\ item[j][a].attempts = 1
    /\ w.pc = "note" => w.answer \in {"ok", "timeout", "error"}
    /\ w.pc = "write" => w.row \in {"ok", "failed"}
    /\ item[j][a].status \notin {"pending", "skipped", "queued"}

\* What the tables, the workers and the stream of a job know of each other.
JobsMatch ==
  \A j \in Jobs : /\ JobMatches(j) /\ RowsMatch(j)
                  /\ \A a \in Accounts : WorkerMatches(j, a) /\ SentMatches(j, a)

\* What holds in every state of the tables, the locks and the streams; with
\* ReportsAreTrue it is inductive.
StreamInv ==
  /\ TypeOK /\ LocksAreHeld /\ CountsFollowRows /\ FinishedIsExact /\ FilesRemoved
  /\ JobsMatch

\* What an account is reported to have done, it has done, and once.
ReportsAreTrue == OkIsTrue /\ SentOnce

\* What the client of a job has asked for, and what it has been told.
AskedFor(j) == IF job[j].status = "absent" THEN {} ELSE job[j].accounts
RowsOf(j) == [a \in Accounts |-> IF a \in taken[j] THEN worker[j][a].row ELSE None]
VerdictOf(j) ==
  CASE gen[j] = "done" -> final[j]
    [] gen[j] \in {"refused", "closing", "drain", "raised", "lost"} -> "broken"
    [] OTHER -> "open"

Report == INSTANCE BulkReport WITH
  asked <- [j \in Jobs |-> AskedFor(j)],
  rows <- [j \in Jobs |-> RowsOf(j)],
  verdict <- [j \in Jobs |-> VerdictOf(j)]

\* The stream brings the client what BulkReport promises, whatever happens to
\* the workers, the database and the process.
ReportHolds == Report!Spec

\* Every job that was created is some day over: its stream closes it, or its
\* heart stops and the status loop finds it.
JobsEnd == \A j \in Jobs : (job[j].status \in Active) ~> (job[j].status \in Terminal)

\* A cancel request accepted while rows are outstanding counts: the job does
\* not end as if nobody had asked.
CancelsCount ==
  \A j \in Jobs : (job[j].status = "cancelling" /\ gen[j] = "get") ~>
                    (job[j].status \in {"cancelled", "interrupted"})

\* A stream that is not broken off closes its job, unless a worker of its own
\* died on the way: only then does it wait for a row that never comes.
StreamsEnd ==
  \A j \in Jobs : (gen[j] = "get") ~>
     (gen[j] \in {"done", "raised", "lost"} \/ \E a \in Accounts : worker[j][a].pc = "dead")

\* Jobs, cancel requests and streams all come to their end.
StreamsSettle == JobsEnd /\ CancelsCount /\ StreamsEnd
==============================================================================
