-------------------------- MODULE BulkStreamProofs ---------------------------
(***************************************************************************)
(* Proofs about streamed bulk jobs, whatever fails: the tables, the locks,  *)
(* the streams and the files agree; what is reported ok was done, and once; *)
(* a retry takes nothing over that was done; and the stream implements      *)
(* BulkReport.                                                              *)
(*                                                                          *)
(* The invariant is StreamInv with ReportsAreTrue, for every set of jobs    *)
(* and accounts and every scenario.  What is known of one job (Own) changes *)
(* by that job's steps only, or by what goes on outside its stream, which   *)
(* changes its status and heartbeat alone (Outside).  A step of a worker is *)
(* one of seven kinds (WorkSteps), by where the worker is.                  *)
(***************************************************************************)
EXTENDS BulkStreamProperties, TLAPS, FiniteSetTheorems, SequenceTheorems

-------------------------------------------------------------------------------
(***************************************************************************)
(* Types.                                                                  *)
(***************************************************************************)
Context == given \in Scenarios /\ StreamInv /\ ReportsAreTrue

Busy == {"begin", "flood", "turn", "lock", "sem", "start", "call", "note", "write"}

\* What a job is asked to do is of the run's kinds, for accounts that exist.
LEMMA Given ==
  ASSUME given \in Scenarios, NEW j \in Jobs
  PROVE  /\ given.wants[j].kind \in Kinds \union {"retry", "none"}
         /\ given.wants[j].accounts \in SUBSET Accounts
BY BulkAssumption DEF Scenario

\* The counters of rows are numbers.
LEMMA TallyType ==
  ASSUME NEW j, NEW S \in SUBSET Accounts
  PROVE  Tally(j, S) \in [RowStatus -> Nat]
<1>1. ASSUME NEW s \in RowStatus
      PROVE  Cardinality({a \in S : worker[j][a].row = s}) \in Nat
  <2>1. IsFiniteSet({a \in S : worker[j][a].row = s})
    BY FS_Subset, BulkAssumption
  <2>2. QED
    BY <2>1, FS_CardinalityType
<1>2. QED
  BY <1>1 DEF Tally

\* The answers of an action, and the account it leaves.
Result == [answer : Returned \union Raised, account : AccountSides]

LEMMA OutcomesType ==
  ASSUME NEW kind \in Kinds, NEW t \in AccountSides, NEW f \in BOOLEAN
  PROVE  Outcomes(kind, t, f) \subseteq Result
<1> DEFINE A == Returned \union Raised
           joined == Joined(t)
           left == Left(t)
           wiped == Wiped(t)
           wrote == [t EXCEPT !.dialog = TRUE]
           renamed == [t EXCEPT !.profile = "new"]
           saved == [renamed EXCEPT !.stored = "new"]
           changed == [t EXCEPT !.password = "new"]
           kept == [changed EXCEPT !.known = "new"]
<1>1. {"ok", "warned", "pending", "skipped", "flood", "soft", "error", "timeout"} \subseteq A
  BY DEF Returned, Raised
<1>2. /\ joined \in AccountSides /\ left \in AccountSides /\ wiped \in AccountSides
      /\ wrote \in AccountSides /\ renamed \in AccountSides /\ changed \in AccountSides
  BY DEF Joined, Left, Wiped, AccountSides, Version
<1>3. saved \in AccountSides /\ kept \in AccountSides
  BY <1>2, ZenonT(60) DEF AccountSides, Version
<1> HIDE DEF A, joined, left, wiped, wrote, renamed, saved, changed, kept
<1>4. \A u \in AccountSides, s \in A : Out(s, u) \in Result
  BY DEF Out, Result, A
<1>5. \A u \in AccountSides, S \in SUBSET A : Answers(S, u) \subseteq Result
  BY <1>4 DEF Answers
<1>6. \A u \in AccountSides : Refused(u) \subseteq Result
  BY <1>1, <1>5 DEF Refused
<1>7. \A u, v \in AccountSides : TimesOut(u, v) \subseteq Result
  BY <1>1, <1>4 DEF TimesOut, Out
<1>8. JoinHandle(t) \subseteq Result
  BY <1>1, <1>2, <1>4, <1>5, <1>6, <1>7 DEF JoinHandle, joined
<1>9. LeaveWithClient(t) \subseteq Result
  BY <1>1, <1>2, <1>4, <1>6, <1>7 DEF LeaveWithClient, left
<1>10. LeaveByTarget(t) \subseteq Result
  BY <1>1, <1>4, <1>9 DEF LeaveByTarget
<1>11. LeaveAll(t) \subseteq Result
  BY <1>1, <1>2, <1>4, <1>5, <1>6, <1>7 DEF LeaveAll, left
<1>12. DeleteMyMessages(t) \subseteq Result
  BY <1>1, <1>2, <1>4, <1>5, <1>6, <1>7 DEF DeleteMyMessages, wiped
<1>13. Send(t) \subseteq Result
  BY <1>1, <1>2, <1>4, <1>6, <1>7 DEF Send, wrote
<1>14. View(t) \subseteq Result /\ React(t) \subseteq Result /\ EndOtherSessions(t) \subseteq Result
  BY <1>1, <1>5, <1>6 DEF View, React, EndOtherSessions
<1>15. WipeChat(t) \subseteq Result
  BY <1>1, <1>2, <1>4, <1>6, <1>7 DEF WipeChat, wiped
<1>16. EditProfile(t) \subseteq Result
  BY <1>1, <1>2, <1>3, <1>4, <1>6, <1>7 DEF EditProfile, renamed, saved
<1>17. Change2fa(t) \subseteq Result
  BY <1>1, <1>2, <1>3, <1>4, <1>6, <1>7 DEF Change2fa, changed, kept
<1>18. UploadPhoto(t, f) \subseteq Result
  BY <1>1, <1>4, <1>5, <1>6 DEF UploadPhoto
<1>19. QED
  BY <1>8, <1>9, <1>10, <1>11, <1>12, <1>13, <1>14, <1>15, <1>16, <1>17, <1>18,
     KindsAssumption DEF Outcomes, AllKinds

\* What is reported ok was done.
LEMMA OkOutcomes ==
  ASSUME NEW kind \in Kinds, NEW t \in AccountSides, NEW f \in BOOLEAN,
         NEW o \in Outcomes(kind, t, f), o.answer = "ok"
  PROVE  /\ kind = "group_join" => o.account.member
         /\ kind \in {"group_leave", "group_leave_target"} => ~o.account.member
         /\ kind = "bulk_profile" => o.account.stored = o.account.profile
         /\ kind = "change_2fa" => o.account.known = o.account.password
<1>1. /\ \A u : \A p \in Refused(u) : p.answer # "ok"
      /\ \A u, v : \A p \in TimesOut(u, v) : p.answer # "ok"
      /\ \A u, S : \A p \in Answers(S, u) : p.answer = "ok" => "ok" \in S
      /\ \A s, u : Out(s, u).answer = s /\ Out(s, u).account = u
  BY DEF Refused, TimesOut, Answers, Out
<1>2. CASE kind = "group_join"
  <2>1. o = Out("ok", Joined(t))
    BY <1>1, <1>2 DEF Outcomes, JoinHandle
  <2>2. QED
    BY <1>1, <1>2, <2>1 DEF Joined, AccountSides
<1>3. CASE kind \in {"group_leave", "group_leave_target"}
  <2>1. o \in LeaveWithClient(t)
    BY <1>1, <1>3 DEF Outcomes, LeaveByTarget
  <2>2. o = Out("ok", Left(t))
    BY <1>1, <2>1 DEF LeaveWithClient
  <2>3. QED
    BY <1>1, <1>3, <2>2 DEF Left, AccountSides
<1>4. CASE kind = "bulk_profile"
  <2>1. o = Out("ok", [[t EXCEPT !.profile = "new"] EXCEPT !.stored = "new"])
    BY <1>1, <1>4 DEF Outcomes, EditProfile
  <2> DEFINE half == [t EXCEPT !.profile = "new"]
             full == [half EXCEPT !.stored = "new"]
  <2>2. full.profile = "new" /\ full.stored = "new"
    BY DEF AccountSides
  <2>3. o.account = full
    BY <1>1, <2>1
  <2> HIDE DEF full
  <2>4. QED
    BY <1>4, <2>2, <2>3
<1>5. CASE kind = "change_2fa"
  <2>1. o = Out("ok", [[t EXCEPT !.password = "new"] EXCEPT !.known = "new"])
    BY <1>1, <1>5 DEF Outcomes, Change2fa
  <2> DEFINE half == [t EXCEPT !.password = "new"]
             full == [half EXCEPT !.known = "new"]
  <2>2. full.password = "new" /\ full.known = "new"
    BY DEF AccountSides
  <2>3. o.account = full
    BY <1>1, <2>1
  <2> HIDE DEF full
  <2>4. QED
    BY <1>5, <2>2, <2>3
<1>6. QED
  BY <1>2, <1>3, <1>4, <1>5

-------------------------------------------------------------------------------
(***************************************************************************)
(* Who changes what.  A worker changes its own row of the tables, and what  *)
(* it does with it depends on where it is.                                  *)
(***************************************************************************)

\* What the steps of one worker leave alone.
LEMMA WorkAlone ==
  ASSUME TypeOK, NEW j \in Jobs, NEW a \in Accounts, Work(j, a) \/ WorkerFails(j, a)
  PROVE  /\ UNCHANGED <<event, gen, taken, cancel, sweep, final, given, file>>
         /\ \A k \in Jobs, b \in Accounts : k # j \/ b # a =>
              /\ worker'[k][b] = worker[k][b] /\ item'[k][b] = item[k][b]
              /\ sent'[k][b] = sent[k][b]
         /\ \A b \in Accounts \ {a} : owner'[b] = owner[b] /\ account'[b] = account[b]
         /\ \A k \in Jobs :
              job'[k] = job[k] \/ (k = j /\ job'[k] = [job[k] EXCEPT !.fresh = TRUE])
         /\ \A k \in Jobs \ {j} : outq'[k] = outq[k]
<1> USE DEF TypeOK, stored, Go, MakeRow, Dies, Touched, Release, Unlock, Held
<1>1. CASE Begin(j, a) \/ CheckFlood(j, a) \/ TakeTurn(j, a) \/ Lock(j, a) \/ TakeSlot(j, a)
  BY <1>1 DEF Begin, CheckFlood, TakeTurn, Lock, TakeSlot
<1>2. CASE MarkItemStarted(j, a)
  BY <1>2 DEF MarkItemStarted
<1>3. CASE Call(j, a)
  BY <1>3 DEF Call
<1>4. CASE Note(j, a)
  BY <1>4 DEF Note
<1>5. CASE MarkItemResult(j, a)
  BY <1>5 DEF MarkItemResult
<1>6. CASE WorkerFails(j, a)
  BY <1>6 DEF WorkerFails
<1>7. QED
  BY <1>1, <1>2, <1>3, <1>4, <1>5, <1>6 DEF Work

Rests(j, a) == item'[j][a] = item[j][a] /\ sent'[j][a] = sent[j][a]
Waits(j) == outq'[j] = outq[j]

\* The steps of a worker before it has the lock.
Approaches(j, a) ==
  LET w == worker[j][a] v == worker'[j][a] IN
  /\ w.pc \in {"begin", "flood", "turn"}
  /\ \/ v.pc \in {"flood", "turn", "lock"} /\ v.row = w.row
     \/ v.pc = "write" /\ v.row \in {"skipped", "pending"}
  /\ Rests(j, a) /\ Waits(j) /\ owner'[a] = owner[a] /\ account'[a] = account[a]

Locks(j, a) ==
  LET w == worker[j][a] v == worker'[j][a] IN
  /\ \/ w.pc = "lock" /\ v.pc = "sem" /\ owner[a] = None /\ owner'[a] = j
     \/ w.pc = "sem" /\ v.pc = "start" /\ owner'[a] = owner[a]
        /\ Cardinality(Slots(j)) < Conc
  /\ v.row = w.row /\ Rests(j, a) /\ Waits(j) /\ account'[a] = account[a]

Starts(j, a) ==
  /\ worker[j][a].pc = "start" /\ worker'[j][a].pc = "call"
  /\ worker'[j][a].row = worker[j][a].row
  /\ item'[j][a] = [status |-> "running", attempts |-> item[j][a].attempts + 1]
  /\ sent'[j][a] = sent[j][a]
  /\ Waits(j) /\ owner'[a] = owner[a] /\ account'[a] = account[a]

Calls(j, a) ==
  /\ worker[j][a].pc = "call" /\ worker'[j][a].pc = "note"
  /\ worker'[j][a].row = worker[j][a].row
  /\ \E o \in Outcomes(job[j].kind, account[a], file[j]) :
       /\ worker'[j][a].answer = o.answer
       /\ account'[a] = o.account
       /\ sent'[j][a] = sent[j][a] + Messages(job[j].kind, o)
  /\ item'[j][a] = item[j][a]
  /\ Waits(j) /\ owner'[a] = owner[a]

Notes(j, a) ==
  /\ worker[j][a].pc = "note" /\ worker'[j][a].pc = "write"
  /\ worker'[j][a].row = RowOf(worker[j][a].answer)
  /\ Rests(j, a) /\ Waits(j) /\ owner'[a] = None /\ account'[a] = account[a]

Writes(j, a) ==
  /\ worker[j][a].pc = "write" /\ worker'[j][a].pc = "done"
  /\ worker'[j][a].row = worker[j][a].row
  /\ item'[j][a] = [item[j][a] EXCEPT !.status = worker[j][a].row]
  /\ outq'[j] = Append(outq[j], a)
  /\ sent'[j][a] = sent[j][a] /\ owner'[a] = owner[a] /\ account'[a] = account[a]

\* A failing worker dies, unlocked, or its answer becomes an error.
Fails(j, a) ==
  LET w == worker[j][a] v == worker'[j][a] IN
  /\ \/ v.pc = "dead" /\ w.pc \in {"begin", "flood", "turn", "start", "write", "note"}
        /\ owner'[a] = IF owner[a] = j THEN None ELSE owner[a]
     \/ v.pc = "note" /\ w.pc = "note" /\ w.answer \in {"ok", "warned"}
        /\ v.answer = "error" /\ owner'[a] = owner[a]
  /\ v.row = w.row /\ Rests(j, a) /\ Waits(j) /\ account'[a] = account[a]

LEMMA WorkerMoves ==
  ASSUME TypeOK, NEW j \in Jobs, NEW a \in Accounts, NEW x
  PROVE  /\ Go(j, a, x) => /\ worker'[j][a].pc = x
                           /\ worker'[j][a].row = worker[j][a].row
                           /\ worker'[j][a].answer = worker[j][a].answer
         /\ MakeRow(j, a, x) => worker'[j][a].pc = "write" /\ worker'[j][a].row = x
<1>1. worker[j] \in [Accounts -> WorkerRecord] /\ worker[j][a] \in WorkerRecord
      /\ DOMAIN worker = Jobs
  BY DEF TypeOK
<1>2. ASSUME Go(j, a, x)
      PROVE  worker'[j][a] = [worker[j][a] EXCEPT !.pc = x]
  <2>1. worker'[j] = [worker[j] EXCEPT ![a].pc = x]
    BY <1>1, <1>2 DEF Go
  <2>2. QED
    BY <1>1, <2>1
<1>3. ASSUME MakeRow(j, a, x)
      PROVE  worker'[j][a] = [worker[j][a] EXCEPT !.pc = "write", !.row = x]
  <2>1. worker'[j] = [worker[j] EXCEPT ![a] = [@ EXCEPT !.pc = "write", !.row = x]]
    BY <1>1, <1>3 DEF MakeRow
  <2>2. QED
    BY <1>1, <2>1
<1>4. QED
  BY <1>1, <1>2, <1>3 DEF WorkerRecord

LEMMA WorkSteps ==
  ASSUME TypeOK, LocksAreHeld, NEW j \in Jobs, NEW a \in Accounts,
         Work(j, a) \/ WorkerFails(j, a)
  PROVE  \/ Approaches(j, a) \/ Locks(j, a) \/ Starts(j, a) \/ Calls(j, a)
         \/ Notes(j, a) \/ Writes(j, a) \/ Fails(j, a)
<1> USE WorkerMoves DEF stored, Rests, Waits
<1>1. CASE Begin(j, a)
  BY <1>1 DEF Begin, Approaches
<1>2. CASE CheckFlood(j, a)
  BY <1>2 DEF CheckFlood, Approaches
<1>3. CASE TakeTurn(j, a)
  BY <1>3 DEF TakeTurn, Approaches
<1>4. CASE Lock(j, a)
  BY <1>4 DEF Lock, Locks, TypeOK
<1>5. CASE TakeSlot(j, a)
  BY <1>5 DEF TakeSlot, Locks
<1>6. CASE MarkItemStarted(j, a)
  BY <1>6 DEF MarkItemStarted, Starts, TypeOK
<1>7. CASE Call(j, a)
  BY <1>7 DEF Call, Calls, TypeOK, WorkerRecord
<1>8. CASE Note(j, a)
  BY <1>8 DEF Note, Notes, Release, TypeOK
<1>9. CASE MarkItemResult(j, a)
  <2>1. item'[j][a] = [item[j][a] EXCEPT !.status = worker[j][a].row]
    BY <1>9 DEF MarkItemResult, TypeOK
  <2>2. outq'[j] = Append(outq[j], a)
    BY <1>9 DEF MarkItemResult, TypeOK
  <2>3. QED
    BY <1>9, <2>1, <2>2 DEF MarkItemResult, Writes
<1>10. CASE WorkerFails(j, a)
  <2>1. worker[j][a].pc = "note" => owner[a] = j
    BY DEF LocksAreHeld, Inside
  <2>2. Rests(j, a) /\ Waits(j) /\ account'[a] = account[a]
    BY <1>10 DEF WorkerFails
  <2>3. CASE Dies(j, a) /\ Unlock(Held(j) \intersect {a})
             /\ worker[j][a].pc \in {"begin", "flood", "turn", "start", "write"}
    <3>1. worker'[j][a].pc = "dead" /\ worker'[j][a].row = worker[j][a].row
      BY <2>3 DEF Dies, TypeOK, WorkerRecord
    <3>2. owner'[a] = IF owner[a] = j THEN None ELSE owner[a]
      BY <2>3 DEF Unlock, Held, TypeOK
    <3>3. QED
      BY <2>2, <2>3, <3>1, <3>2 DEF Fails
  <2>4. CASE Dies(j, a) /\ Release(a) /\ worker[j][a].pc = "note"
    <3>1. worker'[j][a].pc = "dead" /\ worker'[j][a].row = worker[j][a].row
      BY <2>4 DEF Dies, TypeOK, WorkerRecord
    <3>2. owner'[a] = None
      BY <2>4 DEF Release, TypeOK
    <3>3. QED
      BY <2>1, <2>2, <2>4, <3>1, <3>2 DEF Fails
  <2>5. CASE /\ worker[j][a].pc = "note" /\ worker[j][a].answer \in {"ok", "warned"}
             /\ worker' = [worker EXCEPT ![j][a].answer = "error"]
             /\ UNCHANGED owner
    <3>1. worker[j] \in [Accounts -> WorkerRecord] /\ worker[j][a] \in WorkerRecord
          /\ DOMAIN worker = Jobs
      BY DEF TypeOK
    <3>2. worker'[j] = [worker[j] EXCEPT ![a].answer = "error"]
      BY <2>5, <3>1
    <3>3. worker'[j][a] = [worker[j][a] EXCEPT !.answer = "error"]
      BY <3>1, <3>2
    <3>4. QED
      BY <2>2, <2>5, <3>1, <3>3 DEF Fails, WorkerRecord
  <2>6. QED
    BY <1>10, <2>3, <2>4, <2>5 DEF WorkerFails
<1>11. QED
  BY <1>1, <1>2, <1>3, <1>4, <1>5, <1>6, <1>7, <1>8, <1>9, <1>10 DEF Work

-------------------------------------------------------------------------------
(***************************************************************************)
(* Type correctness.                                                       *)
(***************************************************************************)

\* Where a worker may go, with a row that is one.
LEMMA WorkerType ==
  ASSUME TypeOK, NEW j \in Jobs, NEW a \in Accounts, NEW x
  PROVE  /\ Go(j, a, x) /\ x \in Busy \union {"done", "dead"} =>
              worker' \in [Jobs -> [Accounts -> WorkerRecord]]
         /\ MakeRow(j, a, x) /\ x \in RowStatus =>
              worker' \in [Jobs -> [Accounts -> WorkerRecord]]
<1>1. worker[j] \in [Accounts -> WorkerRecord] /\ worker[j][a] \in WorkerRecord
      /\ worker \in [Jobs -> [Accounts -> WorkerRecord]]
  BY DEF TypeOK
<1>2. ASSUME Go(j, a, x), x \in Busy \union {"done", "dead"}
      PROVE  worker' \in [Jobs -> [Accounts -> WorkerRecord]]
  <2>1. [worker[j][a] EXCEPT !.pc = x] \in WorkerRecord
    BY <1>1, <1>2 DEF WorkerRecord, Busy, Inside
  <2>2. [worker[j] EXCEPT ![a].pc = x] \in [Accounts -> WorkerRecord]
    BY <1>1, <2>1
  <2>3. QED
    BY <1>1, <1>2, <2>2 DEF Go
<1>3. ASSUME MakeRow(j, a, x), x \in RowStatus
      PROVE  worker' \in [Jobs -> [Accounts -> WorkerRecord]]
  <2>1. [worker[j][a] EXCEPT !.pc = "write", !.row = x] \in WorkerRecord
    BY <1>1, <1>3 DEF WorkerRecord
  <2>2. [worker[j] EXCEPT ![a] = [@ EXCEPT !.pc = "write", !.row = x]]
          \in [Accounts -> WorkerRecord]
    BY <1>1, <2>1
  <2>3. QED
    BY <1>1, <1>3, <2>2 DEF MakeRow
<1>4. QED
  BY <1>2, <1>3

\* Renewing a heartbeat, or changing a job's status, keeps its type.
LEMMA JobType ==
  ASSUME TypeOK, NEW j \in Jobs
  PROVE  /\ Touched(j) \in [Jobs -> JobRecord]
         /\ Cancelled(j) \in [Jobs -> JobRecord]
<1>1. job \in [Jobs -> JobRecord] /\ job[j] \in JobRecord
  BY DEF TypeOK
<1>2. /\ [job[j] EXCEPT !.fresh = TRUE] \in JobRecord
      /\ [job[j] EXCEPT !.status = "cancelling", !.fresh = TRUE] \in JobRecord
  BY <1>1 DEF JobRecord, Active
<1>3. /\ Touched(j) = [job EXCEPT ![j] = [job[j] EXCEPT !.fresh = TRUE]]
      /\ Cancelled(j) =
           [job EXCEPT ![j] = [job[j] EXCEPT !.status = "cancelling", !.fresh = TRUE]]
  BY <1>1 DEF Touched, Cancelled
<1>4. QED
  BY <1>1, <1>2, <1>3

LEMMA WorkType ==
  ASSUME Context, NEW j \in Jobs, NEW a \in Accounts, Work(j, a) \/ WorkerFails(j, a)
  PROVE  TypeOK'
<1>1. TypeOK /\ WorkerMatches(j, a) /\ JobMatches(j)
  BY DEF Context, StreamInv, JobsMatch
<1>2. /\ UNCHANGED <<event, gen, taken, cancel, sweep, final, given, file>>
      /\ {"skipped", "pending"} \subseteq RowStatus
  BY <1>1, WorkAlone DEF RowStatus
<1>3. CASE Begin(j, a) \/ CheckFlood(j, a) \/ TakeTurn(j, a)
  <2>1. worker' \in [Jobs -> [Accounts -> WorkerRecord]]
    BY <1>1, <1>2, <1>3, WorkerType DEF Begin, CheckFlood, TakeTurn, Busy
  <2>2. QED
    BY <1>1, <1>3, <2>1 DEF Begin, CheckFlood, TakeTurn, TypeOK, stored
<1>4. CASE Lock(j, a) \/ TakeSlot(j, a)
  <2>1. worker' \in [Jobs -> [Accounts -> WorkerRecord]]
    BY <1>1, <1>2, <1>4, WorkerType DEF Lock, TakeSlot, Busy
  <2>2. owner' \in [Accounts -> Jobs \union {None, Direct}]
    BY <1>1, <1>4 DEF Lock, TakeSlot, TypeOK
  <2>3. QED
    BY <1>1, <1>4, <2>1, <2>2 DEF Lock, TakeSlot, TypeOK, stored
<1>5. CASE MarkItemStarted(j, a)
  <2>1. worker' \in [Jobs -> [Accounts -> WorkerRecord]]
    BY <1>1, <1>5, WorkerType DEF MarkItemStarted, Busy
  <2>2. item' \in [Jobs -> [Accounts ->
          [status : RowStatus \union {"absent", "queued", "running"}, attempts : Nat]]]
    BY <1>1, <1>5 DEF MarkItemStarted, TypeOK
  <2>3. QED
    BY <1>1, <1>5, <2>1, <2>2, JobType DEF MarkItemStarted, TypeOK
<1>6. CASE Call(j, a)
  <2>1. PICK o \in Outcomes(job[j].kind, account[a], file[j]) :
          /\ account' = [account EXCEPT ![a] = o.account]
          /\ sent' = [sent EXCEPT ![j][a] = @ + Messages(job[j].kind, o)]
          /\ worker' = [worker EXCEPT ![j][a].pc = "note", ![j][a].answer = o.answer]
    BY <1>6 DEF Call
  <2>2. job[j].kind \in Kinds
    <3>1. worker[j][a].pc = "call"
      BY <1>6 DEF Call
    <3>2. job[j].status # "absent"
      BY <1>1, <3>1 DEF JobMatches, Idle
    <3>3. QED
      BY <1>1, <3>2 DEF JobMatches
  <2>3. o \in Result
    BY <1>1, <2>2, OutcomesType DEF TypeOK
  <2>4. account' \in [Accounts -> AccountSides]
    BY <1>1, <2>1, <2>3 DEF TypeOK, Result
  <2>5. sent' \in [Jobs -> [Accounts -> Nat]]
    <3>1. Messages(job[j].kind, o) \in Nat
      BY DEF Messages
    <3>2. QED
      BY <1>1, <2>1, <3>1 DEF TypeOK
  <2>6. worker' \in [Jobs -> [Accounts -> WorkerRecord]]
    <3> DEFINE r == [worker[j][a] EXCEPT !.pc = "note", !.answer = o.answer]
    <3>1. /\ worker \in [Jobs -> [Accounts -> WorkerRecord]]
          /\ worker[j] \in [Accounts -> WorkerRecord] /\ worker[j][a] \in WorkerRecord
      BY <1>1 DEF TypeOK
    <3>2. r \in WorkerRecord
      BY <2>3, <3>1 DEF Result, WorkerRecord, Inside
    <3>3. [worker[j] EXCEPT ![a] = r] \in [Accounts -> WorkerRecord]
      BY <3>1, <3>2
    <3>4. worker' = [worker EXCEPT ![j] = [worker[j] EXCEPT ![a] = r]]
      BY <2>1, <3>1
    <3>5. QED
      BY <3>1, <3>3, <3>4
  <2>7. QED
    BY <1>1, <1>6, <2>4, <2>5, <2>6 DEF Call, TypeOK
<1>7. CASE Note(j, a)
  <2>1. RowOf(worker[j][a].answer) \in RowStatus
    BY <1>1, <1>7 DEF Note, WorkerMatches, RowOf, RowStatus, Returned, Raised
  <2>2. worker' \in [Jobs -> [Accounts -> WorkerRecord]]
    BY <1>1, <1>7, <2>1, WorkerType DEF Note
  <2>3. owner' \in [Accounts -> Jobs \union {None, Direct}]
    BY <1>1, <1>7 DEF Note, Release, TypeOK
  <2>4. flood' \subseteq Accounts
    BY <1>1, <1>7 DEF Note, TypeOK
  <2>5. QED
    BY <1>1, <1>7, <2>2, <2>3, <2>4 DEF Note, TypeOK
<1>8. CASE MarkItemResult(j, a)
  <2>1. worker' \in [Jobs -> [Accounts -> WorkerRecord]]
    BY <1>1, <1>8, WorkerType DEF MarkItemResult, Busy
  <2>2. worker[j][a].row \in RowStatus
    BY <1>1, <1>8 DEF MarkItemResult, WorkerMatches
  <2>3. item' \in [Jobs -> [Accounts ->
          [status : RowStatus \union {"absent", "queued", "running"}, attempts : Nat]]]
    <3> DEFINE I == [status : RowStatus \union {"absent", "queued", "running"}, attempts : Nat]
               r == [item[j][a] EXCEPT !.status = worker[j][a].row]
    <3>1. item \in [Jobs -> [Accounts -> I]] /\ item[j] \in [Accounts -> I] /\ item[j][a] \in I
      BY <1>1 DEF TypeOK
    <3>2. r \in I
      BY <2>2, <3>1
    <3>3. [item[j] EXCEPT ![a] = r] \in [Accounts -> I]
      BY <3>1, <3>2
    <3>4. item' = [item EXCEPT ![j] = [item[j] EXCEPT ![a] = r]]
      BY <1>8, <3>1 DEF MarkItemResult
    <3>5. QED
      BY <3>1, <3>3, <3>4
  <2>4. outq' \in [Jobs -> Seq(Accounts)]
    BY <1>1, <1>8 DEF MarkItemResult, TypeOK
  <2>5. QED
    BY <1>1, <1>8, <2>1, <2>3, <2>4, JobType DEF MarkItemResult, TypeOK
<1>9. CASE WorkerFails(j, a)
  <2>1. worker' \in [Jobs -> [Accounts -> WorkerRecord]]
    <3>1. CASE Dies(j, a)
      <4>1. Go(j, a, "dead") /\ "dead" \in Busy \union {"done", "dead"}
        BY <3>1 DEF Dies, Go
      <4>2. QED
        BY <1>1, <4>1, WorkerType
    <3>2. CASE worker' = [worker EXCEPT ![j][a].answer = "error"]
      <4> DEFINE r == [worker[j][a] EXCEPT !.answer = "error"]
      <4>1. /\ worker \in [Jobs -> [Accounts -> WorkerRecord]]
            /\ worker[j] \in [Accounts -> WorkerRecord] /\ worker[j][a] \in WorkerRecord
        BY <1>1 DEF TypeOK
      <4>2. r \in WorkerRecord
        BY <4>1 DEF Raised, WorkerRecord
      <4>3. [worker[j] EXCEPT ![a] = r] \in [Accounts -> WorkerRecord]
        BY <4>1, <4>2
      <4>4. worker' = [worker EXCEPT ![j] = [worker[j] EXCEPT ![a] = r]]
        BY <3>2, <4>1
      <4>5. QED
        BY <4>1, <4>3, <4>4
    <3>3. QED
      BY <1>9, <3>1, <3>2 DEF WorkerFails
  <2>2. owner' \in [Accounts -> Jobs \union {None, Direct}]
    BY <1>1, <1>9 DEF WorkerFails, Unlock, Release, TypeOK
  <2>3. QED
    BY <1>1, <1>9, <2>1, <2>2 DEF WorkerFails, TypeOK, stored
<1>10. QED
  BY <1>3, <1>4, <1>5, <1>6, <1>7, <1>8, <1>9 DEF Work

\* The request, the stream and its workers begin.
LEMMA RequestType ==
  ASSUME Context, NEW j \in Jobs,
         Request(j) \/ (\E s \in Jobs : Retry(j, s)) \/ CreateJob(j)
  PROVE  TypeOK'
<1>1. TypeOK /\ job \in [Jobs -> JobRecord] /\ job[j] \in JobRecord /\ given \in Scenarios
  BY DEF Context, StreamInv, TypeOK
<1>2. ASSUME NEW kind \in Kinds, NEW S \in SUBSET Accounts, NEW source \in Jobs \union {None},
             Ask(j, kind, S, source)
      PROVE  TypeOK'
  <2>1. [job[j] EXCEPT !.kind = kind, !.accounts = S, !.source = source] \in JobRecord
    BY <1>1 DEF JobRecord
  <2>2. job' = job \/ job' = [job EXCEPT ![j] =
          [job[j] EXCEPT !.kind = kind, !.accounts = S, !.source = source]]
    BY <1>1, <1>2 DEF Ask
  <2>3. job' \in [Jobs -> JobRecord]
    BY <1>1, <2>1, <2>2
  <2>4. gen' = [gen EXCEPT ![j] = "refused"] \/ gen' = [gen EXCEPT ![j] = "create"]
    BY <1>2 DEF Ask
  <2>5. file' \in [Jobs -> BOOLEAN]
    BY <1>1, <1>2 DEF Ask, TypeOK
  <2>6. QED
    BY <1>1, <1>2, <2>3, <2>4, <2>5 DEF Ask, TypeOK
<1>3. CASE Request(j)
  BY <1>1, <1>2, <1>3, Given DEF Request
<1>4. ASSUME NEW s \in Jobs, Retry(j, s)
      PROVE  TypeOK'
  <2>1. Unfinished(s) \in SUBSET Accounts
    BY <1>1 DEF Unfinished, TypeOK, JobRecord
  <2>2. QED
    BY <1>2, <1>4, <2>1, BulkAssumption DEF Retry
<1>5. CASE CreateJob(j)
  <2>1. job' \in [Jobs -> JobRecord]
    <3>1. [job[j] EXCEPT !.status = "running", !.fresh = TRUE] \in JobRecord
      BY <1>1 DEF JobRecord, Active
    <3>2. job' = [job EXCEPT ![j] = [job[j] EXCEPT !.status = "running", !.fresh = TRUE]]
      BY <1>1, <1>5 DEF CreateJob
    <3>3. QED
      BY <1>1, <3>1, <3>2
  <2>2. worker' \in [Jobs -> [Accounts -> WorkerRecord]]
    <3>1. Idle \in WorkerRecord /\ [Idle EXCEPT !.pc = "begin"] \in WorkerRecord
      BY DEF Idle, WorkerRecord
    <3>2. QED
      BY <1>1, <1>5, <3>1 DEF CreateJob, TypeOK
  <2>3. item' \in [Jobs -> [Accounts ->
          [status : RowStatus \union {"absent", "queued", "running"}, attempts : Nat]]]
    BY <1>1, <1>5 DEF CreateJob, TypeOK
  <2>4. gen' = [gen EXCEPT ![j] = "check"] \/ gen' = [gen EXCEPT ![j] = "get"]
    BY <1>5 DEF CreateJob
  <2>5. event' \in [Jobs -> {"none", "clear", "set"}]
    BY <1>1, <1>5 DEF CreateJob, TypeOK
  <2>6. QED
    BY <1>1, <1>5, <2>1, <2>2, <2>3, <2>4, <2>5 DEF CreateJob, TypeOK
<1>6. QED
  BY <1>3, <1>4, <1>5

LEMMA StreamType ==
  ASSUME Context, NEW j \in Jobs,
         \/ TakeRow(j) \/ UpdateCounts(j) \/ CheckCancelled(j) \/ FinishJob(j)
         \/ CloseStream(j) \/ Drain(j) \/ Disconnect(j) \/ StreamFails(j)
  PROVE  TypeOK'
<1>1. /\ TypeOK /\ job \in [Jobs -> JobRecord] /\ job[j] \in JobRecord
      /\ taken[j] \in SUBSET Accounts /\ RowsMatch(j)
  BY DEF Context, StreamInv, JobsMatch, TypeOK
<1>2. CASE TakeRow(j)
  <2>1. outq[j] \in Seq(Accounts) /\ outq[j] # <<>>
    BY <1>1, <1>2 DEF TakeRow, TypeOK
  <2>2. Head(outq[j]) \in Accounts /\ Tail(outq[j]) \in Seq(Accounts)
    BY <2>1
  <2>3. taken' \in [Jobs -> SUBSET Accounts] /\ outq' \in [Jobs -> Seq(Accounts)]
    BY <1>1, <1>2, <2>2 DEF TakeRow, TypeOK
  <2>4. gen' = [gen EXCEPT ![j] = "count"]
    BY <1>2 DEF TakeRow, GenGo
  <2>5. QED
    BY <1>1, <1>2, <2>3, <2>4 DEF TakeRow, TypeOK, stored
<1>3. CASE UpdateCounts(j)
  <2>1. [job[j] EXCEPT !.count = Tally(j, taken[j]), !.fresh = TRUE] \in JobRecord
    BY <1>1, TallyType DEF JobRecord
  <2>2. job' = [job EXCEPT ![j] = [job[j] EXCEPT !.count = Tally(j, taken[j]), !.fresh = TRUE]]
    BY <1>1, <1>3 DEF UpdateCounts
  <2>3. job' \in [Jobs -> JobRecord]
    BY <1>1, <2>1, <2>2
  <2>4. gen' = [gen EXCEPT ![j] = "check"] \/ gen' = [gen EXCEPT ![j] = "get"]
    BY <1>3 DEF UpdateCounts, GenGo
  <2>5. QED
    BY <1>1, <1>3, <2>3, <2>4 DEF UpdateCounts, TypeOK
<1>4. CASE CheckCancelled(j)
  <2>1. FinalStatus(j, IsCancelled(j)) \in Final
    BY DEF FinalStatus, Final
  <2>2. final' \in [Jobs -> Final \union {None}]
    BY <1>1, <1>4, <2>1 DEF CheckCancelled, TypeOK
  <2>3. gen' = [gen EXCEPT ![j] = "finish"]
    BY <1>4 DEF CheckCancelled, GenGo
  <2>4. QED
    BY <1>1, <1>4, <2>2, <2>3 DEF CheckCancelled, TypeOK, stored
<1>5. CASE FinishJob(j)
  <2>1. final[j] \in Final
    BY <1>1, <1>5 DEF FinishJob, RowsMatch, FinalStatus, Final
  <2>2. [job[j] EXCEPT !.status = final[j], !.fresh = TRUE, !.count = Tally(j, taken[j])]
          \in JobRecord
    BY <1>1, <2>1, TallyType DEF JobRecord, Terminal
  <2>3. job' = [job EXCEPT ![j] = [job[j] EXCEPT !.status = final[j], !.fresh = TRUE,
                                                 !.count = Tally(j, taken[j])]]
    BY <1>1, <1>5 DEF FinishJob
  <2>4. job' \in [Jobs -> JobRecord]
    BY <1>1, <2>2, <2>3
  <2>5. gen' = [gen EXCEPT ![j] = "done"]
    BY <1>5 DEF FinishJob, GenGo
  <2>6. file' \in [Jobs -> BOOLEAN] /\ event' \in [Jobs -> {"none", "clear", "set"}]
    BY <1>1, <1>5 DEF FinishJob, TypeOK
  <2>7. QED
    BY <1>1, <1>5, <2>4, <2>5, <2>6 DEF FinishJob, TypeOK
<1>6. CASE CloseStream(j)
  <2>1. gen' = [gen EXCEPT ![j] = "drain"]
    BY <1>6 DEF CloseStream, GenGo
  <2>2. job' \in [Jobs -> JobRecord]
    BY <1>1, <1>6, JobType DEF CloseStream
  <2>3. event' \in [Jobs -> {"none", "clear", "set"}]
    BY <1>1, <1>6 DEF CloseStream, TypeOK
  <2>4. QED
    BY <1>1, <1>6, <2>1, <2>2, <2>3 DEF CloseStream, TypeOK
<1>7. CASE Drain(j)
  <2>1. gen' = [gen EXCEPT ![j] = "raised"]
    BY <1>7 DEF Drain, GenGo
  <2>2. worker' \in [Jobs -> [Accounts -> WorkerRecord]]
    <3>1. worker \in [Jobs -> [Accounts -> WorkerRecord]]
          /\ worker[j] \in [Accounts -> WorkerRecord]
      BY <1>1 DEF TypeOK
    <3>2. \A a \in Accounts : [worker[j][a] EXCEPT !.pc = "dead"] \in WorkerRecord
      BY <3>1 DEF WorkerRecord
    <3>3. [a \in Accounts |->
             IF worker[j][a].pc \in {"off", "done"} THEN worker[j][a]
             ELSE [worker[j][a] EXCEPT !.pc = "dead"]] \in [Accounts -> WorkerRecord]
      BY <3>1, <3>2
    <3>4. QED
      BY <1>7, <3>1, <3>3 DEF Drain
  <2>3. owner' \in [Accounts -> Jobs \union {None, Direct}]
    BY <1>1, <1>7 DEF Drain, Unlock, TypeOK
  <2>4. file' \in [Jobs -> BOOLEAN]
    BY <1>1, <1>7 DEF Drain, TypeOK
  <2>5. QED
    BY <1>1, <1>7, <2>1, <2>2, <2>3, <2>4 DEF Drain, TypeOK, stored
<1>8. CASE Disconnect(j)
  <2>1. gen' = [gen EXCEPT ![j] = "closing"] /\ file' \in [Jobs -> BOOLEAN]
    BY <1>1, <1>8 DEF Disconnect, GenGo, TypeOK
  <2>2. QED
    BY <1>1, <1>8, <2>1 DEF Disconnect, TypeOK, stored
<1>9. CASE StreamFails(j)
  <2>1. gen' = [gen EXCEPT ![j] = "raised"] \/ gen' = [gen EXCEPT ![j] = "closing"]
    BY <1>9 DEF StreamFails, GenGo
  <2>2. file' \in [Jobs -> BOOLEAN]
    BY <1>1, <1>9 DEF StreamFails, TypeOK
  <2>3. QED
    BY <1>1, <1>9, <2>1, <2>2 DEF StreamFails, TypeOK, stored
<1>10. QED
  BY <1>2, <1>3, <1>4, <1>5, <1>6, <1>7, <1>8, <1>9

\* Cancel requests, the status loop, direct requests and time.
Elsewhere ==
  \/ \E j \in Jobs : RequestCancel(j) \/ StoreCancel(j) \/ HeartbeatAges(j)
  \/ \E a \in Accounts : DirectLock(a) \/ DirectCall(a) \/ FloodPasses(a)
  \/ FindStale \/ RecoverInterrupted

LEMMA ElsewhereType ==
  ASSUME Context, Elsewhere
  PROVE  TypeOK'
<1>1. TypeOK /\ job \in [Jobs -> JobRecord]
  BY DEF Context, StreamInv, TypeOK
<1>2. ASSUME NEW j \in Jobs, RequestCancel(j)
      PROVE  TypeOK'
  <2>1. cancel' \in [Jobs -> Active \union {"none"}]
    BY <1>1, <1>2 DEF RequestCancel, TypeOK
  <2>2. QED
    BY <1>1, <1>2, <2>1 DEF RequestCancel, TypeOK, stored, memory
<1>3. ASSUME NEW j \in Jobs, StoreCancel(j)
      PROVE  TypeOK'
  <2>1. job' \in [Jobs -> JobRecord]
    BY <1>1, <1>3, JobType DEF StoreCancel
  <2>2. event' \in [Jobs -> {"none", "clear", "set"}] /\ cancel' \in [Jobs -> Active \union {"none"}]
    BY <1>1, <1>3 DEF StoreCancel, TypeOK
  <2>3. QED
    BY <1>1, <1>3, <2>1, <2>2 DEF StoreCancel, TypeOK
<1>4. ASSUME NEW j \in Jobs, HeartbeatAges(j)
      PROVE  TypeOK'
  <2>1. [job[j] EXCEPT !.fresh = FALSE] \in JobRecord
    BY <1>1 DEF JobRecord
  <2>2. job' = [job EXCEPT ![j] = [job[j] EXCEPT !.fresh = FALSE]]
    BY <1>1, <1>4 DEF HeartbeatAges
  <2>3. job' \in [Jobs -> JobRecord]
    BY <1>1, <2>1, <2>2
  <2>4. QED
    BY <1>1, <1>4, <2>3 DEF HeartbeatAges, TypeOK, memory
<1>5. ASSUME NEW a \in Accounts, DirectLock(a)
      PROVE  TypeOK'
  BY <1>1, <1>5 DEF DirectLock, TypeOK, stored
<1>6. ASSUME NEW a \in Accounts, DirectCall(a)
      PROVE  TypeOK'
  <2>1. PICK kind \in DirectKinds : \E o \in Outcomes(kind, account[a], FALSE) :
          account' = [account EXCEPT ![a] = o.account]
    BY <1>6 DEF DirectCall
  <2>2. PICK o \in Outcomes(kind, account[a], FALSE) :
          account' = [account EXCEPT ![a] = o.account]
    BY <2>1
  <2>3. o \in Result
    BY <1>1, OutcomesType DEF DirectKinds, TypeOK
  <2>4. account' \in [Accounts -> AccountSides]
    BY <1>1, <2>2, <2>3 DEF TypeOK, Result
  <2>5. owner' \in [Accounts -> Jobs \union {None, Direct}]
    BY <1>1, <1>6 DEF DirectCall, Release, TypeOK
  <2>6. QED
    BY <1>1, <1>6, <2>4, <2>5 DEF DirectCall, TypeOK, stored
<1>7. ASSUME NEW a \in Accounts, FloodPasses(a)
      PROVE  TypeOK'
  BY <1>1, <1>7 DEF FloodPasses, TypeOK, memory
<1>8. CASE FindStale
  BY <1>1, <1>8 DEF FindStale, Stale, TypeOK, stored, memory
<1>9. CASE RecoverInterrupted
  <2>1. \A j \in Jobs : [job[j] EXCEPT !.status = "interrupted", !.fresh = TRUE] \in JobRecord
    BY <1>1 DEF JobRecord, Terminal
  <2>2. job' \in [Jobs -> JobRecord]
    BY <1>1, <1>9, <2>1 DEF RecoverInterrupted
  <2>3. QED
    BY <1>1, <1>9, <2>2 DEF RecoverInterrupted, TypeOK, memory
<1>10. QED
  BY <1>2, <1>3, <1>4, <1>5, <1>6, <1>7, <1>8, <1>9 DEF Elsewhere

\* What a crash, or a stream that is cut short, does to the workers of a job.
Dying(j) ==
  \A a \in Accounts :
    worker'[j][a] = IF worker[j][a].pc \in {"off", "done"} THEN worker[j][a]
                    ELSE [worker[j][a] EXCEPT !.pc = "dead"]

LEMMA Killed ==
  ASSUME TypeOK, NEW j \in Jobs, NEW a \in Accounts, Dying(j)
  PROVE  /\ worker[j][a].pc \in {"off", "done"} => worker'[j][a] = worker[j][a]
         /\ worker[j][a].pc \notin {"off", "done"} =>
              worker'[j][a].pc = "dead" /\ worker'[j][a].row = worker[j][a].row
<1>1. worker[j][a] \in WorkerRecord
  BY DEF TypeOK
<1>2. CASE worker[j][a].pc \notin {"off", "done"}
  <2>1. worker'[j][a] = [worker[j][a] EXCEPT !.pc = "dead"]
    BY <1>2 DEF Dying
  <2>2. QED
    BY <1>1, <1>2, <2>1 DEF WorkerRecord
<1>3. QED
  BY <1>2 DEF Dying

\* The second end of Drain.
LEMMA DrainKills ==
  ASSUME TypeOK, NEW j \in Jobs,
         worker' = [worker EXCEPT ![j] = [a \in Accounts |->
           IF @[a].pc \in {"off", "done"} THEN @[a] ELSE [@[a] EXCEPT !.pc = "dead"]]]
  PROVE  Dying(j)
BY DEF Dying, TypeOK

LEMMA CrashType ==
  ASSUME Context, Crash
  PROVE  TypeOK'
<1>1. TypeOK
  BY DEF Context, StreamInv
<1>2. worker' \in [Jobs -> [Accounts -> WorkerRecord]]
  <2>1. \A j \in Jobs, a \in Accounts : worker[j][a] \in WorkerRecord
    BY <1>1 DEF TypeOK
  <2>2. \A j \in Jobs, a \in Accounts : [worker[j][a] EXCEPT !.pc = "dead"] \in WorkerRecord
    BY <2>1 DEF WorkerRecord
  <2>3. QED
    BY <2>1, <2>2 DEF Crash
<1>3. outq' \in [Jobs -> Seq(Accounts)] /\ cancel' \in [Jobs -> Active \union {"none"}]
  BY DEF Crash
<1>4. gen' \in [Jobs -> {"none", "refused", "create", "get", "count", "check",
                         "finish", "closing", "drain", "raised", "lost", "done"}]
  BY DEF Crash
<1>5. QED
  BY <1>1, <1>2, <1>3, <1>4 DEF Crash, TypeOK, stored

-------------------------------------------------------------------------------
(***************************************************************************)
(* What the tables, the workers and the stream of one job know of each     *)
(* other.                                                                  *)
(***************************************************************************)
CountsMatch(j) ==
  \A s \in RowStatus :
    job[j].count[s] <= Cardinality({a \in Accounts : item[j][a].status = s})

OnceSent(j, a) ==
  /\ sent[j][a] <= item[j][a].attempts
  /\ item[j][a].attempts <= 1
  /\ item[j][a].status \in {"pending", "skipped", "queued"} => sent[j][a] = 0

Own(j) ==
  /\ JobMatches(j) /\ RowsMatch(j) /\ CountsMatch(j)
  /\ \A a \in Accounts : WorkerMatches(j, a) /\ SentMatches(j, a) /\ OnceSent(j, a)

LEMMA OwnIsInvariant ==
  ASSUME Context, NEW j \in Jobs
  PROVE  Own(j)
BY DEF Context, StreamInv, ReportsAreTrue, JobsMatch, CountsFollowRows, SentOnce, Own,
       CountsMatch, OnceSent

\* A job that a step leaves alone.
Untouched(j) ==
  /\ job'[j] = job[j] /\ item'[j] = item[j] /\ gen'[j] = gen[j] /\ final'[j] = final[j]
  /\ worker'[j] = worker[j] /\ outq'[j] = outq[j] /\ taken'[j] = taken[j]
  /\ cancel'[j] = cancel[j] /\ sent'[j] = sent[j]
  /\ (j \in sweep') <=> (j \in sweep)

LEMMA OwnUntouched ==
  ASSUME NEW j \in Jobs, Own(j), Untouched(j)
  PROVE  Own(j)'
<1>1. JobMatches(j)' = JobMatches(j) /\ CountsMatch(j)' = CountsMatch(j)
  BY DEF Untouched, JobMatches, CountsMatch
<1>2. RowsMatch(j)' = RowsMatch(j)
  BY DEF Untouched, RowsMatch, FinalStatus, Tally
<1>3. \A a \in Accounts : /\ WorkerMatches(j, a)' = WorkerMatches(j, a)
                          /\ SentMatches(j, a)' = SentMatches(j, a)
                          /\ OnceSent(j, a)' = OnceSent(j, a)
  BY DEF Untouched, WorkerMatches, SentMatches, OnceSent
<1>4. QED
  BY <1>1, <1>2, <1>3 DEF Own

\* More rows are stored with a status, or as many.
LEMMA CountsGrow ==
  ASSUME TypeOK, NEW j \in Jobs, CountsMatch(j), job'[j].count = job[j].count,
         \A a \in Accounts :
           item[j][a].status \in RowStatus => item'[j][a].status = item[j][a].status
  PROVE  CountsMatch(j)'
<1> SUFFICES ASSUME NEW s \in RowStatus
             PROVE  job[j].count[s] <= Cardinality({a \in Accounts : item'[j][a].status = s})
  BY DEF CountsMatch
<1> DEFINE A == {a \in Accounts : item[j][a].status = s}
           B == {a \in Accounts : item'[j][a].status = s}
<1>1. A \subseteq B /\ IsFiniteSet(A) /\ IsFiniteSet(B)
  BY FS_Subset, BulkAssumption
<1>2. Cardinality(A) <= Cardinality(B) /\ Cardinality(A) \in Nat /\ Cardinality(B) \in Nat
  BY <1>1, FS_Subset, FS_CardinalityType
<1>3. job[j].count[s] \in Nat /\ job[j].count[s] <= Cardinality(A)
  BY DEF TypeOK, JobRecord, CountsMatch
<1>4. QED
  BY <1>2, <1>3

\* What the stream has counted does not change when its workers are done.
LEMMA TallySame ==
  ASSUME NEW j \in Jobs, \A a \in taken[j] : worker'[j][a] = worker[j][a],
         taken'[j] = taken[j]
  PROVE  Tally(j, taken[j])' = Tally(j, taken[j])
<1>1. \A s : {a \in taken[j] : worker'[j][a].row = s} = {a \in taken[j] : worker[j][a].row = s}
  OBVIOUS
<1>2. QED
  BY <1>1 DEF Tally

LEMMA VerdictSame ==
  ASSUME NEW j \in Jobs, \A a \in taken[j] : worker'[j][a] = worker[j][a],
         taken'[j] = taken[j], NEW c
  PROVE  FinalStatus(j, c)' = FinalStatus(j, c)
<1>1. Tally(j, taken[j])' = Tally(j, taken[j])
  BY TallySame
<1>2. QED
  BY <1>1 DEF FinalStatus

-------------------------------------------------------------------------------
(***************************************************************************)
(* The worker's steps keep what is known of its job.                       *)
(***************************************************************************)
LEMMA WorkOwn ==
  ASSUME Context, NEW j \in Jobs, NEW a \in Accounts, Work(j, a) \/ WorkerFails(j, a)
  PROVE  Own(j)'
<1>1. /\ TypeOK /\ LocksAreHeld /\ Own(j)
      /\ item[j][a].attempts \in Nat /\ sent[j][a] \in Nat
      /\ worker[j][a] \in WorkerRecord
  BY OwnIsInvariant DEF Context, StreamInv, TypeOK
<1>2. /\ UNCHANGED <<gen, taken, cancel, sweep, final, file>>
      /\ \A b \in Accounts \ {a} :
           /\ worker'[j][b] = worker[j][b] /\ item'[j][b] = item[j][b]
           /\ sent'[j][b] = sent[j][b]
  BY <1>1, WorkAlone
<1>3. /\ job'[j].status = job[j].status /\ job'[j].kind = job[j].kind
      /\ job'[j].accounts = job[j].accounts /\ job'[j].count = job[j].count
  <2>1. job[j] \in JobRecord
    BY <1>1 DEF TypeOK
  <2>2. job'[j] = job[j] \/ job'[j] = [job[j] EXCEPT !.fresh = TRUE]
    BY <1>1, WorkAlone
  <2>3. QED
    BY <2>1, <2>2 DEF JobRecord
<1>4. \/ Approaches(j, a) \/ Locks(j, a) \/ Starts(j, a) \/ Calls(j, a)
      \/ Notes(j, a) \/ Writes(j, a) \/ Fails(j, a)
  BY <1>1, WorkSteps
<1>5. worker[j][a].pc \in Busy
  BY <1>4 DEF Approaches, Locks, Starts, Calls, Notes, Writes, Fails, Busy
<1>6. /\ job[j].status # "absent" /\ a \in job[j].accounts /\ job[j].kind \in Kinds
      /\ gen[j] \in {"get", "count", "closing", "drain"}
      /\ a \notin taken[j] /\ \A n \in DOMAIN outq[j] : outq[j][n] # a
      /\ item[j][a].status \notin RowStatus
  BY <1>1, <1>5 DEF Own, JobMatches, WorkerMatches, RowsMatch, Idle, Busy
<1>7. JobMatches(j)'
  BY <1>1, <1>2, <1>3, <1>6 DEF Own, JobMatches
<1>8. RowsMatch(j)'
  <2>1. job[j].status \notin Final
    BY <1>1, <1>6 DEF Own, RowsMatch
  <2>2. \A b \in taken[j] : worker'[j][b].pc = "done"
    BY <1>1, <1>2, <1>6 DEF Own, RowsMatch, TypeOK
  <2>3. CASE outq'[j] = outq[j]
    <3>1. \A n \in DOMAIN outq[j] : worker'[j][outq[j][n]] = worker[j][outq[j][n]]
      BY <1>1, <1>2, <1>6 DEF TypeOK
    <3>2. QED
      BY <1>1, <1>2, <1>3, <1>6, <2>1, <2>2, <2>3, <3>1 DEF Own, RowsMatch
  <2>4. CASE Writes(j, a)
    <3>1. outq[j] \in Seq(Accounts) /\ outq'[j] = Append(outq[j], a)
      BY <1>1, <2>4 DEF Writes, TypeOK
    <3>2. /\ DOMAIN outq'[j] = 1 .. Len(outq[j]) + 1
          /\ outq'[j][Len(outq[j]) + 1] = a
          /\ \A n \in 1 .. Len(outq[j]) : outq'[j][n] = outq[j][n]
          /\ DOMAIN outq[j] = 1 .. Len(outq[j]) /\ Len(outq[j]) \in Nat
      BY <3>1, AppendProperties
    <3>3. \A n \in DOMAIN outq'[j] : n \in DOMAIN outq[j] \/ n = Len(outq[j]) + 1
      BY <3>2
    <3>4. \A m, n \in DOMAIN outq'[j] : outq'[j][m] = outq'[j][n] => m = n
      BY <1>1, <1>6, <3>2, <3>3 DEF Own, RowsMatch
    <3>5. \A n \in DOMAIN outq[j] : worker'[j][outq[j][n]] = worker[j][outq[j][n]]
      BY <1>1, <1>2, <1>6, <3>1
    <3>6. worker'[j][a].pc = "done"
      BY <2>4 DEF Writes
    <3>7. \A n \in DOMAIN outq'[j] :
            outq'[j][n] \notin taken[j] /\ worker'[j][outq'[j][n]].pc = "done"
      BY <1>1, <1>6, <3>2, <3>3, <3>5, <3>6 DEF Own, RowsMatch
    <3>8. QED
      BY <1>2, <1>3, <1>6, <2>1, <2>2, <3>4, <3>7 DEF RowsMatch
  <2>5. QED
    BY <1>4, <2>3, <2>4 DEF Approaches, Locks, Starts, Calls, Notes, Fails, Waits
<1>9. CountsMatch(j)'
  <2>1. \A b \in Accounts :
          item[j][b].status \in RowStatus => item'[j][b].status = item[j][b].status
    BY <1>2, <1>6
  <2>2. QED
    BY <1>1, <1>3, <2>1, CountsGrow DEF Own
<1>10. ASSUME NEW b \in Accounts, b # a
       PROVE  WorkerMatches(j, b)' /\ SentMatches(j, b)' /\ OnceSent(j, b)'
  BY <1>1, <1>2, <1>3, <1>10 DEF Own, WorkerMatches, SentMatches, OnceSent
<1>11. WorkerMatches(j, a)'
  <2>1. WorkerMatches(j, a)
    BY <1>1 DEF Own
  <2>2. CASE Approaches(j, a)
    BY <1>2, <1>3, <1>6, <2>1, <2>2 DEF Approaches, Rests, WorkerMatches, RowStatus
  <2>3. CASE Locks(j, a)
    BY <1>2, <1>3, <1>6, <2>1, <2>3 DEF Locks, Rests, WorkerMatches
  <2>4. CASE Starts(j, a)
    BY <1>2, <1>3, <1>6, <2>1, <2>4 DEF Starts, WorkerMatches, RowStatus
  <2>5. CASE Calls(j, a)
    <3>1. worker'[j][a].answer \in Returned \union Raised
      BY <1>1, <1>6, <2>5, OutcomesType DEF Calls, Result, TypeOK
    <3>2. QED
      BY <1>2, <1>3, <1>6, <2>1, <2>5, <3>1 DEF Calls, WorkerMatches
  <2>6. CASE Notes(j, a)
    <3>1. RowOf(worker[j][a].answer) \in RowStatus
      BY <2>1, <2>6 DEF Notes, WorkerMatches, RowOf, RowStatus, Returned, Raised
    <3>2. QED
      BY <1>2, <1>3, <1>6, <2>1, <2>6, <3>1 DEF Notes, Rests, WorkerMatches
  <2>7. CASE Writes(j, a)
    <3>1. worker[j][a].row \in RowStatus
      BY <2>1, <2>7 DEF Writes, WorkerMatches
    <3>2. item'[j][a].status = worker[j][a].row
      BY <1>1, <2>7 DEF Writes, TypeOK
    <3>3. QED
      BY <1>2, <1>3, <1>6, <2>1, <2>7, <3>1, <3>2 DEF Writes, WorkerMatches
  <2>8. CASE Fails(j, a)
    BY <1>2, <1>3, <1>6, <2>1, <2>8 DEF Fails, Rests, WorkerMatches, Raised
  <2>9. QED
    BY <1>4, <2>2, <2>3, <2>4, <2>5, <2>6, <2>7, <2>8
<1>12. SentMatches(j, a)' /\ OnceSent(j, a)'
  <2>1. WorkerMatches(j, a) /\ SentMatches(j, a) /\ OnceSent(j, a)
    BY <1>1 DEF Own
  <2>2. CASE Approaches(j, a) \/ Locks(j, a)
    BY <1>1, <2>1, <2>2 DEF Approaches, Locks, Rests, SentMatches, OnceSent
  <2>3. CASE Starts(j, a)
    BY <1>1, <2>1, <2>3 DEF Starts, WorkerMatches, SentMatches, OnceSent
  <2>4. CASE Calls(j, a)
    <3>1. PICK o \in Outcomes(job[j].kind, account[a], file[j]) :
            worker'[j][a].answer = o.answer
            /\ sent'[j][a] = sent[j][a] + Messages(job[j].kind, o)
      BY <2>4 DEF Calls
    <3>2. sent[j][a] = 0
      BY <2>1, <2>4 DEF Calls, SentMatches
    <3>3. CASE Messages(job[j].kind, o) = 0
      BY <2>1, <2>4, <3>1, <3>2, <3>3 DEF Calls, SentMatches, OnceSent
    <3>4. CASE Messages(job[j].kind, o) = 1 /\ o.answer \in {"ok", "timeout"}
      <4>1. sent'[j][a] = 1
        BY <3>1, <3>2, <3>4
      <4>2. item'[j][a] = item[j][a] /\ worker'[j][a].pc = "note"
        BY <2>4 DEF Calls
      <4>3. item[j][a].attempts = 1 /\ item[j][a].status = "running"
        BY <2>1, <2>4 DEF Calls, WorkerMatches
      <4>4. QED
        BY <3>1, <3>4, <4>1, <4>2, <4>3 DEF SentMatches, OnceSent
    <3>5. QED
      BY <3>3, <3>4 DEF Messages
  <2>5. CASE Notes(j, a)
    BY <1>1, <2>1, <2>5 DEF Notes, Rests, SentMatches, OnceSent, RowOf
  <2>6. CASE Writes(j, a)
    <3>1. item'[j][a].status = worker[j][a].row /\ item'[j][a].attempts = item[j][a].attempts
      BY <1>1, <2>6 DEF Writes, TypeOK
    <3>2. QED
      BY <1>1, <2>1, <2>6, <3>1 DEF Writes, SentMatches, OnceSent
  <2>7. CASE Fails(j, a)
    BY <1>1, <2>1, <2>7 DEF Fails, Rests, SentMatches, OnceSent
  <2>8. QED
    BY <1>4, <2>2, <2>3, <2>4, <2>5, <2>6, <2>7
<1>13. QED
  BY <1>7, <1>8, <1>9, <1>10, <1>11, <1>12 DEF Own

-------------------------------------------------------------------------------
(***************************************************************************)
(* The other steps keep what is known of the jobs.                         *)
(***************************************************************************)

\* A step that leaves a job's workers, items and rows alone.
Still(j) ==
  /\ item'[j] = item[j] /\ worker'[j] = worker[j] /\ outq'[j] = outq[j]
  /\ taken'[j] = taken[j] /\ sent'[j] = sent[j]

LEMMA OwnStill ==
  ASSUME NEW j \in Jobs, Own(j), Still(j), JobMatches(j)', CountsMatch(j)',
         job'[j].accounts = job[j].accounts,
         \/ gen'[j] \in {"get", "count", "closing", "drain"}
         \/ \A a \in Accounts : worker[j][a].pc \in {"off", "done", "dead"},
         gen'[j] \in {"check", "finish", "done"} => taken[j] = job[j].accounts,
         gen'[j] \in {"finish", "done"} =>
           \E c \in BOOLEAN : final'[j] = FinalStatus(j, c),
         job'[j].status \in Final =>
           gen'[j] = "done" /\ job'[j].status = final'[j] /\ job'[j].count = Tally(j, taken[j])
  PROVE  Own(j)'
<1>1. Tally(j, taken[j])' = Tally(j, taken[j])
      /\ \A c \in BOOLEAN : FinalStatus(j, c)' = FinalStatus(j, c)
  BY TallySame, VerdictSame DEF Still
<1>2. RowsMatch(j)'
  <2>1. RowsMatch(j)
    BY DEF Own
  <2>2. /\ \A m, n \in DOMAIN outq'[j] : outq'[j][m] = outq'[j][n] => m = n
        /\ \A n \in DOMAIN outq'[j] :
             outq'[j][n] \notin taken'[j] /\ worker'[j][outq'[j][n]].pc = "done"
        /\ \A a \in taken'[j] : worker'[j][a].pc = "done"
    BY <2>1 DEF RowsMatch, Still
  <2>3. gen'[j] \in {"check", "finish", "done"} => taken'[j] = job'[j].accounts
    BY DEF Still
  <2>4. gen'[j] \in {"finish", "done"} =>
          \E c \in BOOLEAN : final'[j] = FinalStatus(j, c)'
    BY <1>1
  <2>5. job'[j].status \in Final =>
          gen'[j] = "done" /\ job'[j].status = final'[j] /\ job'[j].count = Tally(j, taken[j])'
    BY <1>1
  <2>6. QED
    BY <2>2, <2>3, <2>4, <2>5 DEF RowsMatch
<1>3. ASSUME NEW a \in Accounts
      PROVE  WorkerMatches(j, a)' /\ SentMatches(j, a)' /\ OnceSent(j, a)'
  BY DEF Own, Still, WorkerMatches, SentMatches, OnceSent
<1>4. QED
  BY <1>2, <1>3 DEF Own

\* What the stream is about to store never runs ahead of the stored rows.
LEMMA TallyStored ==
  ASSUME TypeOK, NEW j \in Jobs, Own(j), NEW s \in RowStatus
  PROVE  Tally(j, taken[j])[s] <= Cardinality({a \in Accounts : item[j][a].status = s})
<1> DEFINE A == {a \in taken[j] : worker[j][a].row = s}
           B == {a \in Accounts : item[j][a].status = s}
<1>1. taken[j] \subseteq Accounts
  BY DEF TypeOK
<1>2. A \subseteq B
  BY <1>1 DEF Own, RowsMatch, WorkerMatches
<1>3. IsFiniteSet(B) /\ Cardinality(A) <= Cardinality(B)
  BY <1>2, FS_Subset, BulkAssumption
<1>4. QED
  BY <1>3 DEF Tally

\* A job all of whose rows are taken has no worker left.
LEMMA AllTaken ==
  ASSUME NEW j \in Jobs, Own(j), taken[j] = job[j].accounts
  PROVE  \A a \in Accounts : worker[j][a].pc \in {"off", "done"}
BY DEF Own, RowsMatch, WorkerMatches

\* The steps of a job's stream leave the other jobs alone.
LEMMA StreamAlone ==
  ASSUME TypeOK, NEW j \in Jobs, NEW k \in Jobs \ {j},
         \/ Request(j) \/ (\E s \in Jobs : Retry(j, s)) \/ CreateJob(j) \/ TakeRow(j)
         \/ UpdateCounts(j) \/ CheckCancelled(j) \/ FinishJob(j) \/ CloseStream(j)
         \/ Drain(j) \/ Disconnect(j) \/ StreamFails(j)
  PROVE  Untouched(k)
<1>1. CASE Request(j) \/ (\E s \in Jobs : Retry(j, s))
  <2>1. ASSUME NEW kind, NEW S, NEW source, Ask(j, kind, S, source)
        PROVE  Untouched(k)
    BY <2>1 DEF Ask, Untouched, TypeOK
  <2>2. QED
    BY <1>1, <2>1 DEF Request, Retry
<1>2. CASE CreateJob(j)
  BY <1>2 DEF CreateJob, Untouched, TypeOK
<1>3. CASE TakeRow(j) \/ UpdateCounts(j) \/ CheckCancelled(j)
  BY <1>3 DEF TakeRow, UpdateCounts, CheckCancelled, GenGo, stored, Untouched, TypeOK
<1>4. CASE FinishJob(j)
  BY <1>4 DEF FinishJob, GenGo, Untouched, TypeOK
<1>5. CASE CloseStream(j)
  BY <1>5 DEF CloseStream, Cancelled, GenGo, Untouched, TypeOK
<1>6. CASE Drain(j)
  BY <1>6 DEF Drain, GenGo, stored, Untouched, TypeOK
<1>7. CASE Disconnect(j) \/ StreamFails(j)
  BY <1>7 DEF Disconnect, StreamFails, GenGo, stored, Untouched, TypeOK
<1>8. QED
  BY <1>1, <1>2, <1>3, <1>4, <1>5, <1>6, <1>7

LEMMA RequestOwn ==
  ASSUME Context, NEW j \in Jobs,
         Request(j) \/ (\E s \in Jobs : Retry(j, s))
  PROVE  Own(j)'
<1>1. TypeOK /\ Own(j) /\ given \in Scenarios
  BY OwnIsInvariant DEF Context, StreamInv
<1>2. PICK kind \in Kinds, S \in SUBSET Accounts, source \in Jobs \union {None} :
        Ask(j, kind, S, source)
  <2>1. CASE Request(j)
    BY <1>1, <2>1, Given DEF Request
  <2>2. ASSUME NEW s \in Jobs, Retry(j, s)
        PROVE  Ask(j, job[s].kind, Unfinished(s), s) /\ job[s].kind \in Kinds
               /\ Unfinished(s) \in SUBSET Accounts
    BY <1>1, <2>2, BulkAssumption DEF Retry, Unfinished, TypeOK, JobRecord
  <2>3. QED
    BY <2>1, <2>2
<1>3. Still(j) /\ final'[j] = final[j] /\ cancel'[j] = cancel[j] /\ sweep' = sweep
      /\ gen'[j] \in {"refused", "create"} /\ gen[j] = "none"
  BY <1>1, <1>2 DEF Ask, Still, TypeOK
<1>4. job[j].status = "absent"
  BY <1>1, <1>3 DEF Own, JobMatches
<1>5. /\ job'[j].status = "absent" /\ job'[j].count = job[j].count
      /\ gen'[j] = "create" => job'[j].kind \in Kinds
  <2>1. job[j] \in JobRecord
    BY <1>1 DEF TypeOK
  <2>2. \/ job'[j] = job[j] /\ gen'[j] = "refused"
        \/ job'[j] = [job[j] EXCEPT !.kind = kind, !.accounts = S, !.source = source]
    BY <1>1, <1>2 DEF Ask, TypeOK
  <2>3. QED
    BY <1>2, <1>4, <2>1, <2>2 DEF JobRecord
<1>6. JobMatches(j)'
  BY <1>1, <1>3, <1>4, <1>5 DEF Own, JobMatches, Still
<1>7. CountsMatch(j)'
  BY <1>1, <1>3, <1>5 DEF Own, CountsMatch, Still
<1>8. \A a \in Accounts : worker[j][a] = Idle
  BY <1>1, <1>4 DEF Own, JobMatches
<1>9. /\ RowsMatch(j)'
  BY <1>1, <1>3, <1>4, <1>5 DEF Own, JobMatches, RowsMatch, Still, Final
<1>10. ASSUME NEW a \in Accounts
       PROVE  WorkerMatches(j, a)' /\ SentMatches(j, a)' /\ OnceSent(j, a)'
  BY <1>1, <1>3, <1>8 DEF Own, Still, WorkerMatches, SentMatches, OnceSent, Idle
<1>11. QED
  BY <1>6, <1>7, <1>9, <1>10 DEF Own

LEMMA CreateOwn ==
  ASSUME Context, NEW j \in Jobs, CreateJob(j)
  PROVE  Own(j)'
<1>1. TypeOK /\ Own(j) /\ job[j] \in JobRecord /\ gen[j] = "create"
  BY OwnIsInvariant DEF Context, StreamInv, CreateJob, TypeOK
<1>2. /\ job[j].status = "absent" /\ job[j].kind \in Kinds
      /\ taken[j] = {} /\ outq[j] = <<>> /\ \A a \in Accounts : worker[j][a] = Idle
  BY <1>1 DEF Own, JobMatches
<1>3. /\ job'[j].status = "running" /\ job'[j].kind = job[j].kind
      /\ job'[j].accounts = job[j].accounts /\ job'[j].count = job[j].count
  BY <1>1 DEF CreateJob, TypeOK, JobRecord
<1>4. /\ taken' = taken /\ outq' = outq /\ sent' = sent
      /\ gen'[j] = (IF job[j].accounts = {} THEN "check" ELSE "get")
  BY <1>1 DEF CreateJob, TypeOK
<1>5. \A a \in Accounts :
        /\ item'[j][a] = IF a \in job[j].accounts THEN [status |-> "queued", attempts |-> 0]
                         ELSE item[j][a]
        /\ worker'[j][a] = IF a \in job[j].accounts THEN [Idle EXCEPT !.pc = "begin"] ELSE Idle
  BY <1>1 DEF CreateJob, TypeOK
<1>6. JobMatches(j)'
  BY <1>2, <1>3, <1>4 DEF JobMatches
<1>7. CountsMatch(j)'
  <2>1. \A a \in Accounts : item[j][a].status \notin RowStatus
    BY <1>1, <1>2 DEF Own, WorkerMatches, Idle
  <2>2. QED
    BY <1>1, <1>3, <2>1, CountsGrow DEF Own
<1>8. RowsMatch(j)'
  <2>1. DOMAIN outq'[j] = {}
    BY <1>2, <1>4
  <2>2. taken'[j] = {} /\ job'[j].status \notin Final
    BY <1>2, <1>3, <1>4 DEF Final
  <2>3. gen'[j] \in {"check", "finish", "done"} => taken'[j] = job'[j].accounts
    BY <1>3, <1>4, <2>2
  <2>4. gen'[j] \notin {"finish", "done"}
    BY <1>4
  <2>5. QED
    BY <2>1, <2>2, <2>3, <2>4 DEF RowsMatch
<1>9. ASSUME NEW a \in Accounts
      PROVE  WorkerMatches(j, a)' /\ SentMatches(j, a)' /\ OnceSent(j, a)'
  <2>1. WorkerMatches(j, a) /\ SentMatches(j, a) /\ OnceSent(j, a)
    BY <1>1 DEF Own
  <2>2. sent'[j][a] = 0 /\ None \notin RowStatus
    BY <1>2, <1>4, <2>1, BulkAssumption DEF SentMatches, Idle
  <2>3. CASE a \in job[j].accounts
    <3>1. /\ item'[j][a].status = "queued" /\ item'[j][a].attempts = 0
          /\ worker'[j][a].pc = "begin" /\ worker'[j][a].row = None
      BY <1>5, <2>3 DEF Idle
    <3>2. gen'[j] = "get"
      BY <1>4, <2>3
    <3>3. QED
      BY <1>3, <2>2, <2>3, <3>1, <3>2
         DEF WorkerMatches, SentMatches, OnceSent, RowStatus
  <2>4. CASE a \notin job[j].accounts
    BY <1>2, <1>3, <1>5, <2>1, <2>2, <2>4
       DEF WorkerMatches, SentMatches, OnceSent, Idle
  <2>5. QED
    BY <2>3, <2>4
<1>10. QED
  BY <1>6, <1>7, <1>8, <1>9 DEF Own

LEMMA StreamOwn ==
  ASSUME Context, NEW j \in Jobs,
         \/ TakeRow(j) \/ UpdateCounts(j) \/ CheckCancelled(j) \/ FinishJob(j)
         \/ CloseStream(j) \/ Drain(j) \/ Disconnect(j) \/ StreamFails(j)
  PROVE  Own(j)'
<1>1. /\ TypeOK /\ Own(j) /\ job[j] \in JobRecord
      /\ JobMatches(j) /\ RowsMatch(j) /\ CountsMatch(j)
      /\ taken[j] \in SUBSET Accounts
  BY OwnIsInvariant DEF Context, StreamInv, TypeOK, Own
<1>2. CASE TakeRow(j)
  <2>1. /\ outq[j] \in Seq(Accounts) /\ outq[j] # <<>> /\ gen[j] = "get"
        /\ outq'[j] = Tail(outq[j]) /\ taken'[j] = taken[j] \union {Head(outq[j])}
        /\ gen'[j] = "count" /\ UNCHANGED <<job, item, worker, sent, final, cancel, sweep>>
    BY <1>1, <1>2 DEF TakeRow, GenGo, stored, TypeOK
  <2>2. /\ Len(outq[j]) \in Nat /\ Len(outq[j]) > 0 /\ 1 \in DOMAIN outq[j]
        /\ Head(outq[j]) = outq[j][1] /\ DOMAIN outq[j] = 1 .. Len(outq[j])
        /\ DOMAIN Tail(outq[j]) = 1 .. Len(outq[j]) - 1
        /\ \A n \in 1 .. Len(outq[j]) - 1 : Tail(outq[j])[n] = outq[j][n + 1]
    BY <2>1
  <2>3. \A n \in DOMAIN outq'[j] : /\ n + 1 \in DOMAIN outq[j] /\ n + 1 # 1
                                   /\ outq'[j][n] = outq[j][n + 1]
                                   /\ n \in Int
    BY <2>1, <2>2
  <2>4. \A m, n \in DOMAIN outq'[j] : outq'[j][m] = outq'[j][n] => m = n
    <3>1. ASSUME NEW m \in DOMAIN outq'[j], NEW n \in DOMAIN outq'[j],
                 outq'[j][m] = outq'[j][n]
          PROVE  m + 1 = n + 1
      BY <1>1, <2>3, <3>1 DEF RowsMatch
    <3>2. QED
      BY <2>3, <3>1
  <2>5. \A n \in DOMAIN outq'[j] :
          outq'[j][n] \notin taken'[j] /\ worker'[j][outq'[j][n]].pc = "done"
    BY <1>1, <2>1, <2>2, <2>3 DEF RowsMatch
  <2>6. \A a \in taken'[j] : worker'[j][a].pc = "done"
    BY <1>1, <2>1, <2>2 DEF RowsMatch
  <2>7. job'[j].status \notin Final
    BY <1>1, <2>1 DEF RowsMatch
  <2>8. RowsMatch(j)'
    BY <2>1, <2>4, <2>5, <2>6, <2>7 DEF RowsMatch
  <2>9. JobMatches(j)' /\ CountsMatch(j)'
    BY <1>1, <2>1 DEF JobMatches, CountsMatch
  <2>10. ASSUME NEW a \in Accounts
         PROVE  WorkerMatches(j, a)' /\ SentMatches(j, a)' /\ OnceSent(j, a)'
    BY <1>1, <2>1 DEF Own, WorkerMatches, SentMatches, OnceSent
  <2>11. QED
    BY <2>8, <2>9, <2>10 DEF Own
<1>3. CASE UpdateCounts(j)
  <2>1. /\ job'[j].status = job[j].status /\ job'[j].kind = job[j].kind
        /\ job'[j].accounts = job[j].accounts /\ job'[j].count = Tally(j, taken[j])
        /\ gen[j] = "count"
        /\ gen'[j] = IF taken[j] = job[j].accounts THEN "check" ELSE "get"
        /\ Still(j) /\ final' = final /\ cancel' = cancel /\ sweep' = sweep
    BY <1>1, <1>3 DEF UpdateCounts, GenGo, TypeOK, JobRecord, Still
  <2>2. JobMatches(j)'
    BY <1>1, <2>1 DEF JobMatches, Still
  <2>3. CountsMatch(j)'
    BY <1>1, <2>1, TallyStored DEF CountsMatch, Still
  <2>4. taken[j] = job[j].accounts =>
          \A a \in Accounts : worker[j][a].pc \in {"off", "done", "dead"}
    BY <1>1, AllTaken
  <2>5. job'[j].status \notin Final
    BY <1>1, <2>1 DEF RowsMatch
  <2>6. QED
    BY <1>1, <2>1, <2>2, <2>3, <2>4, <2>5, OwnStill
<1>4. CASE CheckCancelled(j)
  <2>1. /\ job' = job /\ gen[j] = "check" /\ gen'[j] = "finish"
        /\ final'[j] = FinalStatus(j, IsCancelled(j))
        /\ Still(j) /\ cancel' = cancel /\ sweep' = sweep
    BY <1>1, <1>4 DEF CheckCancelled, GenGo, stored, TypeOK, Still
  <2>2. JobMatches(j)' /\ CountsMatch(j)'
    BY <1>1, <2>1 DEF JobMatches, CountsMatch, Still
  <2>3. taken[j] = job[j].accounts /\ job[j].status \notin Final
    BY <1>1, <2>1 DEF RowsMatch
  <2>4. IsCancelled(j) \in BOOLEAN
    BY DEF IsCancelled
  <2>5. QED
    BY <1>1, <2>1, <2>2, <2>3, <2>4, AllTaken, OwnStill
<1>5. CASE FinishJob(j)
  <2>1. /\ job'[j].status = final[j] /\ job'[j].kind = job[j].kind
        /\ job'[j].accounts = job[j].accounts /\ job'[j].count = Tally(j, taken[j])
        /\ gen[j] = "finish" /\ gen'[j] = "done"
        /\ Still(j) /\ final' = final /\ cancel' = cancel /\ sweep' = sweep
    BY <1>1, <1>5 DEF FinishJob, GenGo, TypeOK, JobRecord, Still
  <2>2. taken[j] = job[j].accounts /\ \E c \in BOOLEAN : final[j] = FinalStatus(j, c)
    BY <1>1, <2>1 DEF RowsMatch
  <2>3. job'[j].status # "absent" /\ job[j].status # "absent"
    BY <1>1, <2>1, <2>2 DEF FinalStatus, JobMatches
  <2>4. JobMatches(j)'
    BY <1>1, <2>1, <2>3 DEF JobMatches
  <2>5. CountsMatch(j)'
    BY <1>1, <2>1, TallyStored DEF CountsMatch, Still
  <2>6. QED
    BY <1>1, <2>1, <2>2, <2>4, <2>5, AllTaken, OwnStill
<1>6. CASE CloseStream(j)
  <2>1. /\ job'[j] = job[j]
           \/ job'[j] = [job[j] EXCEPT !.status = "cancelling", !.fresh = TRUE]
        /\ gen[j] = "closing" /\ gen'[j] = "drain"
        /\ Still(j) /\ final' = final /\ cancel' = cancel /\ sweep' = sweep
    BY <1>1, <1>6 DEF CloseStream, Cancelled, GenGo, TypeOK, Still
  <2>2. /\ job'[j].status \in {job[j].status, "cancelling"} /\ job'[j].kind = job[j].kind
        /\ job'[j].accounts = job[j].accounts /\ job'[j].count = job[j].count
    BY <1>1, <2>1 DEF JobRecord
  <2>3. JobMatches(j)' /\ CountsMatch(j)'
    BY <1>1, <2>1, <2>2 DEF JobMatches, CountsMatch, Still
  <2>4. job'[j].status \notin Final
    BY <1>1, <2>1, <2>2 DEF RowsMatch, Final
  <2>5. QED
    BY <1>1, <2>1, <2>2, <2>3, <2>4, OwnStill
<1>7. CASE Drain(j)
  <2>1. /\ job' = job /\ item' = item /\ outq' = outq /\ taken' = taken /\ sent' = sent
        /\ gen[j] = "drain" /\ gen'[j] = "raised"
        /\ final' = final /\ cancel' = cancel /\ sweep' = sweep
    BY <1>1, <1>7 DEF Drain, GenGo, stored, TypeOK
  <2>2. \A a \in Accounts :
          \/ worker'[j][a] = worker[j][a] /\ worker[j][a].pc \in {"off", "done", "dead"}
          \/ /\ worker'[j][a].pc = "dead" /\ worker'[j][a].row = worker[j][a].row
             /\ worker[j][a].pc \notin {"off", "done"}
    <3>1. CASE Ended(j) /\ UNCHANGED worker
      BY <3>1 DEF Ended
    <3>2. CASE worker' = [worker EXCEPT ![j] = [a \in Accounts |->
                 IF @[a].pc \in {"off", "done"} THEN @[a] ELSE [@[a] EXCEPT !.pc = "dead"]]]
      BY <1>1, <3>2, DrainKills, Killed
    <3>3. QED
      BY <1>7, <3>1, <3>2 DEF Drain
  <2>3. JobMatches(j)' /\ CountsMatch(j)'
    <3>1. job[j].status # "absent"
      BY <1>1, <2>1 DEF JobMatches
    <3>2. QED
      BY <1>1, <2>1, <3>1 DEF JobMatches, CountsMatch
  <2>4. \A n \in DOMAIN outq[j] : outq[j][n] \in Accounts
    BY <1>1 DEF TypeOK
  <2>5. job[j].status \notin Final
    BY <1>1, <2>1 DEF RowsMatch
  <2>6. RowsMatch(j)'
    BY <1>1, <2>1, <2>2, <2>4, <2>5 DEF RowsMatch
  <2>7. ASSUME NEW a \in Accounts
        PROVE  WorkerMatches(j, a)' /\ SentMatches(j, a)' /\ OnceSent(j, a)'
    BY <1>1, <2>1, <2>2 DEF Own, WorkerMatches, SentMatches, OnceSent
  <2>8. QED
    BY <2>3, <2>6, <2>7 DEF Own
<1>8. CASE Disconnect(j)
  <2>1. /\ job' = job /\ gen[j] \in {"get", "count"} /\ gen'[j] = "closing"
        /\ Still(j) /\ final' = final /\ cancel' = cancel /\ sweep' = sweep
    BY <1>1, <1>8 DEF Disconnect, GenGo, stored, TypeOK, Still
  <2>2. JobMatches(j)' /\ CountsMatch(j)' /\ job[j].status \notin Final
    BY <1>1, <2>1 DEF JobMatches, CountsMatch, Still, RowsMatch
  <2>3. QED
    BY <1>1, <2>1, <2>2, OwnStill
<1>9. CASE StreamFails(j)
  <2>1. /\ job' = job
        /\ \/ gen[j] = "create" /\ gen'[j] = "raised"
           \/ gen[j] = "count" /\ gen'[j] = "closing"
           \/ gen[j] \in {"check", "finish"} /\ gen'[j] = "raised"
        /\ Still(j) /\ final' = final /\ cancel' = cancel /\ sweep' = sweep
    BY <1>1, <1>9 DEF StreamFails, GenGo, stored, TypeOK, Still
  <2>2. JobMatches(j)' /\ CountsMatch(j)' /\ job[j].status \notin Final
    BY <1>1, <2>1 DEF JobMatches, CountsMatch, Still, RowsMatch
  <2>3. gen[j] = "create" => \A a \in Accounts : worker[j][a].pc = "off"
    BY <1>1 DEF JobMatches, Idle
  <2>4. gen[j] \in {"check", "finish"} => taken[j] = job[j].accounts
    BY <1>1 DEF RowsMatch
  <2>5. QED
    BY <1>1, <2>1, <2>2, <2>3, <2>4, AllTaken, OwnStill
<1>10. QED
  BY <1>2, <1>3, <1>4, <1>5, <1>6, <1>7, <1>8, <1>9

\* What goes on outside a job's stream may change its status, to one that is no
\* verdict, and its heartbeat; only a job that exists.
Outside(j) ==
  /\ Still(j) /\ gen'[j] = gen[j] /\ final'[j] = final[j]
  /\ job'[j].kind = job[j].kind /\ job'[j].accounts = job[j].accounts
  /\ job'[j].count = job[j].count
  /\ \/ job'[j].status = job[j].status
     \/ job[j].status # "absent" /\ job'[j].status \in {"cancelling", "interrupted"}
  /\ cancel'[j] \in {cancel[j], "none"} \/ job[j].status # "absent"
  /\ j \in sweep' => j \in sweep \/ job[j].status # "absent"

LEMMA OutsideOwn ==
  ASSUME NEW j \in Jobs, Own(j), Outside(j)
  PROVE  Own(j)'
<1>1. JobMatches(j)' /\ CountsMatch(j)'
  BY DEF Own, Outside, Still, JobMatches, CountsMatch
<1>2. /\ gen[j] \in {"check", "finish", "done"} => taken[j] = job[j].accounts
      /\ gen[j] \in {"finish", "done"} => \E c \in BOOLEAN : final[j] = FinalStatus(j, c)
      /\ job[j].status \in Final =>
           gen[j] = "done" /\ job[j].status = final[j] /\ job[j].count = Tally(j, taken[j])
  BY DEF Own, RowsMatch
<1>3. gen[j] \in {"get", "count", "closing", "drain"}
        \/ \A a \in Accounts : worker[j][a].pc \in {"off", "done", "dead"}
  BY DEF Own, WorkerMatches
<1>4. job'[j].status \in Final => job'[j].status = job[j].status
  BY DEF Outside, Final
<1>5. QED
  BY <1>1, <1>2, <1>3, <1>4, OwnStill DEF Outside

LEMMA ElsewhereOutside ==
  ASSUME Context, Elsewhere, NEW k \in Jobs
  PROVE  Outside(k)
<1>1. TypeOK /\ Own(k) /\ JobMatches(k) /\ job[k] \in JobRecord
  BY OwnIsInvariant DEF Context, StreamInv, TypeOK, Own
<1>2. ASSUME NEW j \in Jobs, RequestCancel(j)
      PROVE  Outside(k)
  <2>1. job' = job /\ sweep' = sweep /\ Still(k) /\ gen' = gen /\ final' = final
    BY <1>2 DEF RequestCancel, stored, memory, Still
  <2>2. cancel'[k] = cancel[k] \/ job[k].status \in Active
    BY <1>1, <1>2 DEF RequestCancel, TypeOK
  <2>3. QED
    BY <2>1, <2>2 DEF Outside, Active
<1>3. ASSUME NEW j \in Jobs, StoreCancel(j)
      PROVE  Outside(k)
  <2>1. sweep' = sweep /\ Still(k) /\ gen' = gen /\ final' = final
    BY <1>3 DEF StoreCancel, Still
  <2>2. cancel'[k] \in {cancel[k], "none"} /\ (k = j => cancel[k] # "none")
    BY <1>1, <1>3 DEF StoreCancel, TypeOK
  <2>3. \/ job'[k] = job[k]
        \/ k = j /\ job'[k] = [job[k] EXCEPT !.fresh = TRUE]
        \/ k = j /\ job'[k] = [job[k] EXCEPT !.status = "cancelling", !.fresh = TRUE]
    BY <1>1, <1>3 DEF StoreCancel, Touched, Cancelled, TypeOK
  <2>4. k = j => job[k].status # "absent"
    BY <1>1, <2>2 DEF JobMatches
  <2>5. /\ job'[k].kind = job[k].kind /\ job'[k].accounts = job[k].accounts
        /\ job'[k].count = job[k].count
        /\ \/ job'[k].status = job[k].status
           \/ job[k].status # "absent" /\ job'[k].status = "cancelling"
    <3>1. CASE job'[k] = job[k]
      BY <3>1
    <3>2. CASE job'[k] = [job[k] EXCEPT !.fresh = TRUE]
      BY <1>1, <3>2 DEF JobRecord
    <3>3. CASE k = j /\ job'[k] = [job[k] EXCEPT !.status = "cancelling", !.fresh = TRUE]
      BY <1>1, <2>4, <3>3 DEF JobRecord
    <3>4. QED
      BY <2>3, <3>1, <3>2, <3>3
  <2>6. QED
    BY <2>1, <2>2, <2>5 DEF Outside
<1>4. ASSUME NEW j \in Jobs, HeartbeatAges(j)
      PROVE  Outside(k)
  <2>1. sweep' = sweep /\ cancel' = cancel /\ Still(k) /\ gen' = gen /\ final' = final
    BY <1>4 DEF HeartbeatAges, memory, Still
  <2>2. job'[k] = job[k] \/ job'[k] = [job[k] EXCEPT !.fresh = FALSE]
    BY <1>1, <1>4 DEF HeartbeatAges, TypeOK
  <2>3. /\ job'[k].kind = job[k].kind /\ job'[k].accounts = job[k].accounts
        /\ job'[k].count = job[k].count /\ job'[k].status = job[k].status
    BY <1>1, <2>2 DEF JobRecord
  <2>4. QED
    BY <2>1, <2>3 DEF Outside
<1>5. ASSUME NEW a \in Accounts, DirectLock(a) \/ DirectCall(a) \/ FloodPasses(a)
      PROVE  Outside(k)
  BY <1>5 DEF DirectLock, DirectCall, FloodPasses, stored, memory, Outside, Still
<1>6. CASE FindStale
  <2>1. k \in sweep' => job[k].status \in Active
    BY <1>6 DEF FindStale, Stale
  <2>2. /\ job' = job /\ cancel' = cancel /\ Still(k) /\ gen' = gen /\ final' = final
    BY <1>6 DEF FindStale, stored, memory, Still
  <2>3. k \in sweep' => job[k].status # "absent"
    BY <2>1 DEF Active
  <2>4. QED
    BY <2>2, <2>3 DEF Outside
<1>7. CASE RecoverInterrupted
  <2>1. /\ sweep' = {} /\ cancel' = cancel /\ Still(k) /\ gen' = gen /\ final' = final
    BY <1>7 DEF RecoverInterrupted, memory, Still
  <2>2. job'[k] = IF k \in sweep THEN [job[k] EXCEPT !.status = "interrupted", !.fresh = TRUE]
                  ELSE job[k]
    BY <1>7 DEF RecoverInterrupted
  <2>3. k \in sweep => job[k].status # "absent"
    BY <1>1 DEF JobMatches
  <2>4. /\ job'[k].kind = job[k].kind /\ job'[k].accounts = job[k].accounts
        /\ job'[k].count = job[k].count
        /\ \/ job'[k].status = job[k].status
           \/ job[k].status # "absent" /\ job'[k].status = "interrupted"
    BY <1>1, <2>2, <2>3 DEF JobRecord
  <2>5. k \notin sweep' /\ cancel'[k] = cancel[k] /\ gen'[k] = gen[k] /\ final'[k] = final[k]
    BY <2>1
  <2>6. QED
    BY <2>1, <2>4, <2>5 DEF Outside
<1>8. QED
  BY <1>2, <1>3, <1>4, <1>5, <1>6, <1>7 DEF Elsewhere

LEMMA ElsewhereOwn ==
  ASSUME Context, Elsewhere, NEW k \in Jobs
  PROVE  Own(k)'
BY ElsewhereOutside, OwnIsInvariant, OutsideOwn

\* A crash kills the workers that are not done and breaks the streams that are
\* not over.
LEMMA CrashOwn ==
  ASSUME Context, Crash, NEW j \in Jobs
  PROVE  Own(j)'
<1>1. TypeOK /\ Own(j) /\ JobMatches(j) /\ RowsMatch(j) /\ CountsMatch(j)
      /\ taken[j] \in SUBSET Accounts
  BY OwnIsInvariant DEF Context, StreamInv, TypeOK, Own
<1>2. /\ job' = job /\ item' = item /\ taken' = taken /\ sent' = sent /\ final' = final
      /\ outq'[j] = <<>> /\ cancel'[j] = "none" /\ sweep' = {}
      /\ gen'[j] = IF gen[j] \in {"none", "refused", "raised", "done"} THEN gen[j] ELSE "lost"
  BY DEF Crash, stored
<1>3. \A a \in Accounts :
        /\ worker[j][a].pc \in {"off", "done"} => worker'[j][a] = worker[j][a]
        /\ worker[j][a].pc \notin {"off", "done"} =>
             worker'[j][a].pc = "dead" /\ worker'[j][a].row = worker[j][a].row
  BY <1>1, Killed DEF Crash, Dying
<1>4. \A a \in taken[j] : worker'[j][a] = worker[j][a] /\ worker[j][a].pc = "done"
  BY <1>1, <1>3 DEF RowsMatch
<1>5. Tally(j, taken[j])' = Tally(j, taken[j])
      /\ \A c \in BOOLEAN : FinalStatus(j, c)' = FinalStatus(j, c)
  BY <1>2, <1>4, TallySame, VerdictSame
<1>6. JobMatches(j)'
  <2>1. job[j].status = "absent" => \A a \in Accounts : worker'[j][a] = Idle
    BY <1>1, <1>3 DEF JobMatches, Idle
  <2>2. QED
    BY <1>1, <1>2, <2>1 DEF JobMatches
<1>7. CountsMatch(j)'
  BY <1>1, <1>2 DEF CountsMatch
<1>8. RowsMatch(j)'
  <2>1. DOMAIN outq'[j] = {}
    BY <1>2
  <2>2. gen'[j] \in {"check", "finish", "done"} => gen[j] = "done" /\ taken'[j] = job'[j].accounts
    BY <1>1, <1>2 DEF RowsMatch
  <2>3. gen'[j] \in {"finish", "done"} => \E c \in BOOLEAN : final'[j] = FinalStatus(j, c)'
    BY <1>1, <1>2, <1>5 DEF RowsMatch
  <2>4. job'[j].status \in Final =>
          gen'[j] = "done" /\ job'[j].status = final'[j] /\ job'[j].count = Tally(j, taken[j])'
    BY <1>1, <1>2, <1>5 DEF RowsMatch
  <2>5. \A a \in taken'[j] : worker'[j][a].pc = "done"
    BY <1>2, <1>4
  <2>6. QED
    BY <2>1, <2>2, <2>3, <2>4, <2>5 DEF RowsMatch
<1>9. ASSUME NEW a \in Accounts
      PROVE  WorkerMatches(j, a)' /\ SentMatches(j, a)' /\ OnceSent(j, a)'
  BY <1>1, <1>2, <1>3 DEF Own, WorkerMatches, SentMatches, OnceSent
<1>10. QED
  BY <1>6, <1>7, <1>8, <1>9 DEF Own

-------------------------------------------------------------------------------
(***************************************************************************)
(* Files, locks, and what is reported ok.                                  *)
(***************************************************************************)
LEMMA FilesStep ==
  ASSUME Context, Next
  PROVE  FilesRemoved'
<1>1. TypeOK /\ FilesRemoved
  BY DEF Context, StreamInv
<1>2. ASSUME UNCHANGED <<gen, file>>
      PROVE  FilesRemoved'
  BY <1>1, <1>2 DEF FilesRemoved
<1>3. ASSUME NEW j \in Jobs, NEW a \in Accounts, Work(j, a) \/ WorkerFails(j, a)
      PROVE  FilesRemoved'
  BY <1>1, <1>2, <1>3, WorkAlone
<1>4. ASSUME NEW j \in Jobs, NEW kind, NEW S, NEW source, Ask(j, kind, S, source)
      PROVE  FilesRemoved'
  BY <1>1, <1>4 DEF Ask, FilesRemoved, TypeOK
<1>5. ASSUME NEW j \in Jobs, CreateJob(j) \/ TakeRow(j) \/ UpdateCounts(j)
             \/ CheckCancelled(j) \/ CloseStream(j)
      PROVE  FilesRemoved'
  <2>1. file' = file /\ \E pc \in {"check", "get", "count", "finish", "drain"} :
          gen' = [gen EXCEPT ![j] = pc]
    BY <1>5 DEF CreateJob, TakeRow, UpdateCounts, CheckCancelled, CloseStream, GenGo
  <2>2. QED
    BY <1>1, <2>1 DEF FilesRemoved, TypeOK
<1>6. ASSUME NEW j \in Jobs, FinishJob(j) \/ Drain(j)
      PROVE  FilesRemoved'
  BY <1>1, <1>6 DEF FinishJob, Drain, GenGo, FilesRemoved, TypeOK
<1>7. ASSUME NEW j \in Jobs, Disconnect(j)
      PROVE  FilesRemoved'
  BY <1>1, <1>7 DEF Disconnect, GenGo, FilesRemoved, TypeOK
<1>8. ASSUME NEW j \in Jobs, StreamFails(j)
      PROVE  FilesRemoved'
  BY <1>1, <1>8 DEF StreamFails, GenGo, FilesRemoved, TypeOK
<1>9. CASE Elsewhere
  <2>1. UNCHANGED <<gen, file>>
    BY <1>9 DEF Elsewhere, RequestCancel, StoreCancel, HeartbeatAges, DirectLock, DirectCall,
                FloodPasses, FindStale, RecoverInterrupted, memory
  <2>2. QED
    BY <1>2, <2>1
<1>10. CASE Crash
  BY <1>1, <1>10 DEF Crash, FilesRemoved, TypeOK
<1>11. ASSUME NEW j \in Jobs, Request(j) \/ \E s \in Jobs : Retry(j, s)
       PROVE  FilesRemoved'
  BY <1>4, <1>11 DEF Request, Retry
<1>12. QED
  BY <1>3, <1>5, <1>6, <1>7, <1>8, <1>9, <1>10, <1>11
     DEF Next, Progress, Event, Stream, Elsewhere

Locked == Inside \union {"sem"}

\* Fewer slots are taken, and the owners are those who are past their lock.
LEMMA LocksStep ==
  ASSUME LocksAreHeld,
         \A a \in Accounts, j \in Jobs : owner'[a] = j <=> worker'[j][a].pc \in Locked,
         \A j \in Jobs, a \in Accounts :
           worker'[j][a].pc \in Inside => worker[j][a].pc \in Inside
  PROVE  LocksAreHeld'
<1>1. ASSUME NEW j \in Jobs
      PROVE  Cardinality(Slots(j)') <= Conc
  <2> DEFINE A == {b \in Accounts : worker[j][b].pc \in Inside}
             B == {b \in Accounts : worker'[j][b].pc \in Inside}
  <2>1. B \subseteq A /\ IsFiniteSet(A)
    BY FS_Subset, BulkAssumption
  <2>2. Cardinality(B) <= Cardinality(A) /\ Cardinality(A) \in Nat /\ Cardinality(B) \in Nat
    BY <2>1, FS_Subset, FS_CardinalityType
  <2>3. Cardinality(A) <= Conc /\ Conc \in Nat
    BY BulkAssumption DEF LocksAreHeld, Slots
  <2> HIDE DEF A, B
  <2>4. Cardinality(B) <= Conc
    BY <2>2, <2>3
  <2>5. QED
    BY <2>4 DEF B, Slots
<1>2. QED
  BY <1>1 DEF LocksAreHeld, Locked

LEMMA WorkLocks ==
  ASSUME Context, NEW j \in Jobs, NEW a \in Accounts, Work(j, a) \/ WorkerFails(j, a)
  PROVE  LocksAreHeld'
<1>1. TypeOK /\ LocksAreHeld
  BY DEF Context, StreamInv
<1>2. /\ \A k \in Jobs, b \in Accounts : k # j \/ b # a => worker'[k][b] = worker[k][b]
      /\ \A b \in Accounts \ {a} : owner'[b] = owner[b]
  BY <1>1, WorkAlone
<1>3. \A b \in Accounts, k \in Jobs : owner[b] = k <=> worker[k][b].pc \in Locked
  BY <1>1 DEF LocksAreHeld, Locked
<1>4. \/ Approaches(j, a) \/ Locks(j, a) \/ Starts(j, a) \/ Calls(j, a)
      \/ Notes(j, a) \/ Writes(j, a) \/ Fails(j, a)
  BY <1>1, WorkSteps
<1>5. None \notin Jobs
  BY BulkAssumption
<1>6. /\ owner'[a] = j <=> worker'[j][a].pc \in Locked
      /\ \A k \in Jobs \ {j} : owner'[a] = k <=> owner[a] = k
  BY <1>3, <1>4, <1>5 DEF Approaches, Locks, Starts, Calls, Notes, Writes, Fails, Locked, Inside
<1>7. \A b \in Accounts, k \in Jobs : owner'[b] = k <=> worker'[k][b].pc \in Locked
  <2>1. ASSUME NEW b \in Accounts, NEW k \in Jobs
        PROVE  owner'[b] = k <=> worker'[k][b].pc \in Locked
    <3>1. CASE b # a
      BY <1>2, <1>3, <3>1
    <3>2. CASE b = a /\ k # j
      BY <1>2, <1>3, <1>6, <3>2
    <3>3. CASE b = a /\ k = j
      BY <1>6, <3>3
    <3>4. QED
      BY <3>1, <3>2, <3>3
  <2>2. QED
    BY <2>1
<1>8. CASE ~(worker[j][a].pc = "sem" /\ Locks(j, a))
  <2>1. worker'[j][a].pc \in Inside => worker[j][a].pc \in Inside
    BY <1>4, <1>8 DEF Approaches, Locks, Starts, Calls, Notes, Writes, Fails, Inside
  <2>2. \A k \in Jobs, b \in Accounts : worker'[k][b].pc \in Inside => worker[k][b].pc \in Inside
    BY <1>2, <2>1
  <2>3. QED
    BY <1>1, <1>7, <2>2, LocksStep
<1>9. CASE worker[j][a].pc = "sem" /\ Locks(j, a)
  <2>1. Cardinality(Slots(j)) < Conc
    BY <1>9 DEF Locks
  <2>2. Slots(j)' = Slots(j) \union {a} /\ \A k \in Jobs \ {j} : Slots(k)' = Slots(k)
    BY <1>2, <1>9 DEF Slots, Locks, Inside
  <2>3. IsFiniteSet(Slots(j))
    BY FS_Subset, BulkAssumption DEF Slots
  <2>4. Cardinality(Slots(j)) \in Nat /\ Conc \in Nat
    BY <2>3, FS_CardinalityType, BulkAssumption
  <2>5. Cardinality(Slots(j) \union {a}) = Cardinality(Slots(j))
          \/ Cardinality(Slots(j) \union {a}) = Cardinality(Slots(j)) + 1
    BY <2>3, FS_AddElement
  <2> DEFINE c == Cardinality(Slots(j))
             d == Cardinality(Slots(j) \union {a})
  <2>6. c < Conc /\ c \in Nat /\ Conc \in Nat /\ (d = c \/ d = c + 1)
    BY <2>1, <2>4, <2>5
  <2> HIDE DEF c, d
  <2>7. d <= Conc
    BY <2>6
  <2>8. \A k \in Jobs : Cardinality(Slots(k)') <= Conc
    BY <1>1, <2>2, <2>7 DEF d, LocksAreHeld
  <2>9. QED
    BY <1>7, <2>8 DEF LocksAreHeld, Locked
<1>10. QED
  BY <1>8, <1>9

\* A stream that is broken off, like a crash, gives the locks of its workers
\* back; nothing else but direct requests takes or gives one.
LEMMA OtherLocks ==
  ASSUME Context, Next, ~\E j \in Jobs, a \in Accounts : Work(j, a) \/ WorkerFails(j, a)
  PROVE  LocksAreHeld'
<1>1. TypeOK /\ LocksAreHeld /\ None \notin Jobs /\ Direct \notin Jobs
  BY BulkAssumption DEF Context, StreamInv
<1>2. \A b \in Accounts, k \in Jobs : owner[b] = k <=> worker[k][b].pc \in Locked
  BY <1>1 DEF LocksAreHeld, Locked
<1>3. ASSUME UNCHANGED worker,
             \A a \in Accounts, j \in Jobs : owner'[a] = j <=> owner[a] = j
      PROVE  LocksAreHeld'
  BY <1>1, <1>2, <1>3, LocksStep
<1>4. ASSUME UNCHANGED <<worker, owner>>
      PROVE  LocksAreHeld'
  BY <1>3, <1>4
<1>5. ASSUME NEW j \in Jobs, Request(j) \/ \E s \in Jobs : Retry(j, s)
      PROVE  LocksAreHeld'
  BY <1>4, <1>5 DEF Request, Retry, Ask
<1>6. ASSUME NEW j \in Jobs, TakeRow(j) \/ UpdateCounts(j)
             \/ CheckCancelled(j) \/ FinishJob(j) \/ CloseStream(j) \/ Disconnect(j)
             \/ StreamFails(j)
      PROVE  LocksAreHeld'
  BY <1>4, <1>6 DEF TakeRow, UpdateCounts, CheckCancelled, FinishJob, CloseStream,
                    Disconnect, StreamFails
<1>7. ASSUME NEW j \in Jobs, CreateJob(j)
      PROVE  LocksAreHeld'
  <2>1. \A a \in Accounts : worker[j][a] = Idle
    BY <1>7, OwnIsInvariant DEF CreateJob, Own, JobMatches
  <2>2. \A a \in Accounts : /\ worker[j][a].pc = "off"
                            /\ worker'[j][a].pc \in {"off", "begin"}
    BY <1>1, <1>7, <2>1 DEF CreateJob, Idle, TypeOK
  <2>3. owner' = owner /\ \A k \in Jobs \ {j} : worker'[k] = worker[k]
    BY <1>1, <1>7 DEF CreateJob, TypeOK
  <2>4. \A a \in Accounts, k \in Jobs : worker'[k][a].pc \in Locked <=> worker[k][a].pc \in Locked
    BY <2>2, <2>3 DEF Locked, Inside
  <2>5. \A k \in Jobs, a \in Accounts : worker'[k][a].pc \in Inside => worker[k][a].pc \in Inside
    BY <2>2, <2>3 DEF Inside
  <2>6. QED
    BY <1>1, <1>2, <2>3, <2>4, <2>5, LocksStep
<1>8. ASSUME NEW j \in Jobs, Drain(j)
      PROVE  LocksAreHeld'
  <2>1. CASE UNCHANGED <<worker, owner>>
    BY <1>4, <2>1
  <2>2. CASE /\ worker' = [worker EXCEPT ![j] = [a \in Accounts |->
                  IF @[a].pc \in {"off", "done"} THEN @[a] ELSE [@[a] EXCEPT !.pc = "dead"]]]
             /\ Unlock(Held(j))
    <3>1. \A a \in Accounts : worker'[j][a].pc \in {"off", "done", "dead"}
      BY <1>1, <2>2, DrainKills, Killed, ZenonT(60)
    <3>2. \A k \in Jobs \ {j} : worker'[k] = worker[k]
      BY <1>1, <2>2 DEF TypeOK
    <3>3. \A a \in Accounts : owner'[a] = IF owner[a] = j THEN None ELSE owner[a]
      BY <2>2 DEF Unlock, Held
    <3>4. \A a \in Accounts, k \in Jobs : owner'[a] = k <=> worker'[k][a].pc \in Locked
      BY <1>1, <1>2, <3>1, <3>2, <3>3 DEF Locked, Inside
    <3>5. \A k \in Jobs, a \in Accounts : worker'[k][a].pc \in Inside => worker[k][a].pc \in Inside
      BY <3>1, <3>2 DEF Inside
    <3>6. QED
      BY <1>1, <3>4, <3>5, LocksStep
  <2>3. QED
    BY <1>8, <2>1, <2>2 DEF Drain
<1>9. CASE Elsewhere
  <2>1. UNCHANGED worker
    BY <1>9 DEF Elsewhere, RequestCancel, StoreCancel, HeartbeatAges, DirectLock, DirectCall,
                FloodPasses, FindStale, RecoverInterrupted, memory
  <2>2. \/ owner' = owner
        \/ \E b \in Accounts : owner[b] = None /\ owner' = [owner EXCEPT ![b] = Direct]
        \/ \E b \in Accounts : owner[b] = Direct /\ owner' = [owner EXCEPT ![b] = None]
    BY <1>9 DEF Elsewhere, RequestCancel, StoreCancel, HeartbeatAges, DirectLock, DirectCall,
                FloodPasses, FindStale, RecoverInterrupted, Release, memory
  <2>3. \A a \in Accounts, j \in Jobs : owner'[a] = j <=> owner[a] = j
    BY <1>1, <2>2 DEF TypeOK
  <2>4. QED
    BY <1>3, <2>1, <2>3
<1>10. CASE Crash
  <2>1. \A j \in Jobs, a \in Accounts : worker'[j][a].pc \in {"off", "done", "dead"}
    BY <1>1, <1>10, Killed DEF Crash, Dying
  <2>2. \A a \in Accounts : owner'[a] = None
    BY <1>10 DEF Crash
  <2>3. QED
    BY <1>1, <2>1, <2>2, LocksStep DEF Locked, Inside
<1>11. QED
  BY <1>5, <1>6, <1>7, <1>8, <1>9, <1>10 DEF Next, Progress, Event, Stream, Elsewhere

\* What a row that says ok claims of its account.
OkTrue(j, a) ==
  (worker[j][a].pc = "note" /\ worker[j][a].answer = "ok") =>
    CASE job[j].kind = "group_join" -> account[a].member
      [] job[j].kind \in {"group_leave", "group_leave_target"} -> ~account[a].member
      [] job[j].kind = "bulk_profile" -> account[a].stored = account[a].profile
      [] job[j].kind = "change_2fa" -> account[a].known = account[a].password
      [] OTHER -> TRUE

LEMMA TrueStill ==
  ASSUME NEW j \in Jobs, NEW a \in Accounts, OkIsTrue,
         worker'[j][a].pc = "note" =>
           /\ worker'[j][a] = worker[j][a] /\ job'[j].kind = job[j].kind
           /\ account'[a] = account[a]
  PROVE  OkTrue(j, a)'
<1>1. OkTrue(j, a)
  BY DEF OkIsTrue, OkTrue
<1>2. CASE worker'[j][a].pc = "note"
  BY <1>1, <1>2 DEF OkTrue
<1>3. QED
  BY <1>2 DEF OkTrue

LEMMA WorkTrue ==
  ASSUME Context, NEW j \in Jobs, NEW a \in Accounts, Work(j, a) \/ WorkerFails(j, a)
  PROVE  OkIsTrue'
<1>1. TypeOK /\ LocksAreHeld /\ OkIsTrue /\ Own(j)
  BY OwnIsInvariant DEF Context, StreamInv, ReportsAreTrue
<1>2. /\ \A k \in Jobs, b \in Accounts : k # j \/ b # a => worker'[k][b] = worker[k][b]
      /\ \A b \in Accounts \ {a} : account'[b] = account[b]
  BY <1>1, WorkAlone
<1>3. \A k \in Jobs : job'[k].kind = job[k].kind
  <2>1. ASSUME NEW k \in Jobs
        PROVE  job'[k].kind = job[k].kind
    <3>1. job'[k] = job[k] \/ job'[k] = [job[k] EXCEPT !.fresh = TRUE]
      BY <1>1, WorkAlone
    <3>2. job[k] \in JobRecord
      BY <1>1 DEF TypeOK
    <3>3. QED
      BY <3>1, <3>2 DEF JobRecord
  <2>2. QED
    BY <2>1
<1>4. \/ Approaches(j, a) \/ Locks(j, a) \/ Starts(j, a) \/ Calls(j, a)
      \/ Notes(j, a) \/ Writes(j, a) \/ Fails(j, a)
  BY <1>1, WorkSteps
<1>5. \/ account'[a] = account[a]
      \/ Calls(j, a) /\ \A k \in Jobs \ {j} : worker[k][a].pc # "note"
  <2>1. Calls(j, a) => owner[a] = j
    BY <1>1 DEF Calls, LocksAreHeld, Inside
  <2>2. owner[a] = j => \A k \in Jobs \ {j} : worker[k][a].pc # "note"
    BY <1>1 DEF LocksAreHeld, Inside
  <2>3. QED
    BY <1>4, <2>1, <2>2 DEF Approaches, Locks, Starts, Notes, Writes, Fails
<1>6. \A k \in Jobs, b \in Accounts : k # j \/ b # a => OkTrue(k, b)'
  BY <1>1, <1>2, <1>3, <1>5, TrueStill
<1>7. OkTrue(j, a)'
  <2>1. CASE Calls(j, a)
    <3>1. PICK o \in Outcomes(job[j].kind, account[a], file[j]) :
            worker'[j][a].answer = o.answer /\ account'[a] = o.account
      BY <2>1 DEF Calls
    <3>2. job[j].kind \in Kinds
      BY <1>1, <2>1 DEF Calls, Own, JobMatches, Idle
    <3>3. account[a] \in AccountSides /\ file[j] \in BOOLEAN
      BY <1>1 DEF TypeOK
    <3>4. o.answer = "ok" =>
            /\ job[j].kind = "group_join" => o.account.member
            /\ job[j].kind \in {"group_leave", "group_leave_target"} => ~o.account.member
            /\ job[j].kind = "bulk_profile" => o.account.stored = o.account.profile
            /\ job[j].kind = "change_2fa" => o.account.known = o.account.password
      BY <3>2, <3>3, OkOutcomes
    <3>5. QED
      BY <1>3, <3>1, <3>4 DEF OkTrue
  <2>2. CASE ~Calls(j, a)
    <3>1. worker'[j][a].pc = "note" => worker'[j][a].answer = "error"
      BY <1>4, <2>2 DEF Approaches, Locks, Starts, Notes, Writes, Fails
    <3>2. QED
      BY <3>1 DEF OkTrue
  <2>3. QED
    BY <2>1, <2>2
<1>8. QED
  BY <1>6, <1>7 DEF OkIsTrue, OkTrue

LEMMA OtherTrue ==
  ASSUME Context, Next, ~\E j \in Jobs, a \in Accounts : Work(j, a) \/ WorkerFails(j, a)
  PROVE  OkIsTrue'
<1>1. TypeOK /\ LocksAreHeld /\ OkIsTrue
  BY DEF Context, StreamInv, ReportsAreTrue
<1> SUFFICES ASSUME NEW k \in Jobs, NEW b \in Accounts, worker'[k][b].pc = "note"
             PROVE  /\ worker'[k][b] = worker[k][b] /\ job'[k].kind = job[k].kind
                    /\ account'[b] = account[b]
  BY <1>1, TrueStill DEF OkIsTrue, OkTrue
<1>2. job[k] \in JobRecord
  BY <1>1 DEF TypeOK
<1>3. ASSUME NEW j \in Jobs,
             Request(j) \/ (\E s \in Jobs : Retry(j, s)) \/ CreateJob(j)
      PROVE  worker'[k][b] = worker[k][b] /\ job'[k].kind = job[k].kind /\ account'[b] = account[b]
  <2>1. gen[j] \in {"none", "create"}
    BY <1>3 DEF Request, Retry, Ask, CreateJob
  <2>2. \A a \in Accounts : worker[j][a] = Idle
    BY <2>1, OwnIsInvariant DEF Own, JobMatches
  <2>3. account' = account
    BY <1>3 DEF Request, Retry, Ask, CreateJob
  <2>4. \A a \in Accounts : worker'[j][a].pc \in {"off", "begin"}
    <3>1. CASE worker' = worker
      BY <2>2, <3>1 DEF Idle
    <3>2. CASE CreateJob(j)
      BY <1>1, <3>2 DEF CreateJob, Idle, TypeOK
    <3>3. QED
      BY <1>3, <3>1, <3>2 DEF Request, Retry, Ask
  <2>5. k # j
    BY <2>4
  <2>6. Untouched(k)
    BY <1>1, <1>3, <2>5, StreamAlone
  <2>7. QED
    BY <2>3, <2>6 DEF Untouched
<1>4. ASSUME NEW j \in Jobs, TakeRow(j) \/ UpdateCounts(j)
             \/ CheckCancelled(j) \/ FinishJob(j) \/ CloseStream(j) \/ Disconnect(j)
             \/ StreamFails(j)
      PROVE  worker'[k][b] = worker[k][b] /\ job'[k].kind = job[k].kind /\ account'[b] = account[b]
  <2>1. worker' = worker /\ account' = account
    BY <1>4 DEF TakeRow, UpdateCounts, CheckCancelled, FinishJob, CloseStream,
                Disconnect, StreamFails
  <2>2. job'[k].kind = job[k].kind
    <3>1. CASE k # j
      BY <1>1, <1>4, <3>1, StreamAlone DEF Untouched
    <3>2. CASE k = j
      BY <1>1, <1>2, <1>4, <3>2
         DEF TakeRow, UpdateCounts, CheckCancelled, FinishJob, CloseStream, Cancelled,
             Disconnect, StreamFails, stored, TypeOK, JobRecord
    <3>3. QED
      BY <3>1, <3>2
  <2>3. QED
    BY <2>1, <2>2
<1>5. ASSUME NEW j \in Jobs, Drain(j)
      PROVE  worker'[k][b] = worker[k][b] /\ job'[k].kind = job[k].kind /\ account'[b] = account[b]
  <2>1. job' = job /\ account' = account
    BY <1>5 DEF Drain, stored
  <2>2. CASE UNCHANGED worker
    BY <2>1, <2>2
  <2>3. CASE worker' = [worker EXCEPT ![j] = [a \in Accounts |->
               IF @[a].pc \in {"off", "done"} THEN @[a] ELSE [@[a] EXCEPT !.pc = "dead"]]]
    <3>1. \A a \in Accounts : worker'[j][a].pc # "note"
      BY <1>1, <2>3, DrainKills, Killed
    <3>2. k # j
      BY <3>1
    <3>3. QED
      BY <1>1, <2>1, <2>3, <3>2 DEF TypeOK
  <2>4. QED
    BY <1>5, <2>2, <2>3 DEF Drain
<1>6. CASE Elsewhere
  <2>1. worker' = worker
    BY <1>6 DEF Elsewhere, RequestCancel, StoreCancel, HeartbeatAges, DirectLock, DirectCall,
                FloodPasses, FindStale, RecoverInterrupted, memory
  <2>2. account' = account
        \/ \E a \in Accounts : owner[a] = Direct /\ \E x : account' = [account EXCEPT ![a] = x]
    BY <1>6 DEF Elsewhere, RequestCancel, StoreCancel, HeartbeatAges, DirectLock, DirectCall,
                FloodPasses, FindStale, RecoverInterrupted
  <2>3. owner[b] = k /\ k # Direct
    BY <1>1, <2>1, BulkAssumption DEF LocksAreHeld, Inside
  <2>4. account'[b] = account[b]
    BY <1>1, <2>2, <2>3 DEF TypeOK
  <2>5. Outside(k)
    BY <1>6, ElsewhereOutside
  <2>6. QED
    BY <2>1, <2>4, <2>5 DEF Outside
<1>7. CASE Crash
  BY <1>1, <1>7, Killed DEF Crash, Dying, stored
<1>8. QED
  BY <1>3, <1>4, <1>5, <1>6, <1>7 DEF Next, Progress, Event, Stream, Elsewhere

-------------------------------------------------------------------------------
(***************************************************************************)
(* The inductive invariant.                                                *)
(***************************************************************************)

\* The verdict of a closed job follows from what its stream has taken.
LEMMA FinishedFollows ==
  ASSUME TypeOK, JobsMatch
  PROVE  FinishedIsExact
<1> SUFFICES ASSUME NEW j \in Jobs, job[j].status \in Final
             PROVE  /\ \A a \in job[j].accounts : item[j][a].status \in RowStatus
                    /\ job[j].count = [s \in RowStatus |->
                         Cardinality({a \in job[j].accounts : item[j][a].status = s})]
                    /\ job[j].status = "completed" => job[j].count["failed"] = 0
                    /\ job[j].status = "completed_with_errors" => job[j].count["failed"] > 0
  BY DEF FinishedIsExact
<1>1. /\ RowsMatch(j) /\ \A a \in Accounts : WorkerMatches(j, a)
      /\ job[j].accounts \in SUBSET Accounts /\ job[j].count \in [RowStatus -> Nat]
  BY DEF TypeOK, JobRecord, JobsMatch
<1>2. /\ gen[j] = "done" /\ job[j].status = final[j] /\ job[j].count = Tally(j, taken[j])
      /\ taken[j] = job[j].accounts /\ \E c \in BOOLEAN : final[j] = FinalStatus(j, c)
      /\ \A a \in job[j].accounts : worker[j][a].pc = "done"
  BY <1>1 DEF RowsMatch
<1>3. \A a \in job[j].accounts :
        item[j][a].status = worker[j][a].row /\ item[j][a].status \in RowStatus
  BY <1>1, <1>2 DEF WorkerMatches
<1>4. job[j].count = [s \in RowStatus |->
        Cardinality({a \in job[j].accounts : item[j][a].status = s})]
  <2>1. \A s \in RowStatus : {a \in job[j].accounts : worker[j][a].row = s}
                              = {a \in job[j].accounts : item[j][a].status = s}
    BY <1>3
  <2>2. QED
    BY <1>2, <2>1 DEF Tally
<1>5. /\ job[j].status = "completed" => ~(job[j].count["failed"] > 0)
      /\ job[j].status = "completed_with_errors" => job[j].count["failed"] > 0
  BY <1>2 DEF FinalStatus
<1>6. job[j].count["failed"] \in Nat
  BY <1>1 DEF RowStatus
<1>7. QED
  BY <1>3, <1>4, <1>5, <1>6

LEMMA OwnStep ==
  ASSUME Context, Next, TypeOK'
  PROVE  \A k \in Jobs : Own(k)'
<1> SUFFICES ASSUME NEW k \in Jobs
             PROVE  Own(k)'
  OBVIOUS
<1>1. TypeOK /\ Own(k)
  BY OwnIsInvariant DEF Context, StreamInv
<1>2. ASSUME NEW j \in Jobs, NEW a \in Accounts, Work(j, a) \/ WorkerFails(j, a)
      PROVE  Own(k)'
  <2>1. CASE k = j
    BY <1>2, <2>1, WorkOwn
  <2>2. CASE k # j
    <3>1. /\ job'[k] = job[k] /\ gen'[k] = gen[k] /\ final'[k] = final[k]
          /\ outq'[k] = outq[k] /\ taken'[k] = taken[k] /\ cancel'[k] = cancel[k]
          /\ sweep' = sweep
      BY <1>1, <1>2, <2>2, WorkAlone
    <3>2. \A b \in Accounts : /\ worker'[k][b] = worker[k][b] /\ item'[k][b] = item[k][b]
                              /\ sent'[k][b] = sent[k][b]
      BY <1>1, <1>2, <2>2, WorkAlone
    <3>3. worker'[k] = worker[k] /\ item'[k] = item[k] /\ sent'[k] = sent[k]
      BY <1>1, <3>2 DEF TypeOK
    <3>4. QED
      BY <1>1, <3>1, <3>3, OwnUntouched DEF Untouched
  <2>3. QED
    BY <2>1, <2>2
<1>3. ASSUME NEW j \in Jobs,
         \/ Request(j) \/ (\E s \in Jobs : Retry(j, s)) \/ CreateJob(j) \/ TakeRow(j)
         \/ UpdateCounts(j) \/ CheckCancelled(j) \/ FinishJob(j) \/ CloseStream(j)
         \/ Drain(j) \/ Disconnect(j) \/ StreamFails(j)
      PROVE  Own(k)'
  <2>1. CASE k = j
    BY <1>3, <2>1, RequestOwn, CreateOwn, StreamOwn
  <2>2. CASE k # j
    BY <1>1, <1>3, <2>2, StreamAlone, OwnUntouched
  <2>3. QED
    BY <2>1, <2>2
<1>4. QED
  BY <1>2, <1>3, ElsewhereOwn, CrashOwn DEF Next, Progress, Event, Stream, Elsewhere

LEMMA TypeStep ==
  ASSUME Context, Next
  PROVE  TypeOK'
BY WorkType, RequestType, StreamType, ElsewhereType, CrashType
   DEF Next, Progress, Event, Stream, Elsewhere

LEMMA GivenStep ==
  ASSUME Context, Next
  PROVE  given' = given
<1>1. ASSUME NEW j \in Jobs, NEW a \in Accounts, Work(j, a) \/ WorkerFails(j, a)
      PROVE  given' = given
  BY <1>1, WorkAlone DEF Context, StreamInv
<1>2. ASSUME NEW j \in Jobs, Stream(j) \/ Request(j) \/ (\E s \in Jobs : Retry(j, s))
             \/ Disconnect(j) \/ StreamFails(j)
      PROVE  given' = given
  BY <1>2 DEF Stream, Request, Retry, Ask, CreateJob, TakeRow, UpdateCounts, CheckCancelled,
              FinishJob, CloseStream, Drain, Disconnect, StreamFails
<1>3. CASE Elsewhere \/ Crash
  BY <1>3 DEF Elsewhere, RequestCancel, StoreCancel, HeartbeatAges, DirectLock, DirectCall,
              FloodPasses, FindStale, RecoverInterrupted, Crash
<1>4. QED
  BY <1>1, <1>2, <1>3 DEF Next, Progress, Event, Elsewhere

LEMMA Initially ==
  ASSUME Init
  PROVE  Context
<1> USE DEF Init
<1>1. given \in Scenarios /\ given.members \subseteq Accounts /\ given.flood \subseteq Accounts
  BY BulkAssumption DEF Scenario
<1>2. job \in [Jobs -> JobRecord]
  <2>1. NoTally \in [RowStatus -> Nat]
    BY DEF NoTally
  <2>2. NoJob \in JobRecord
    BY <2>1 DEF NoJob, JobRecord
  <2>3. QED
    BY <2>2
<1>3. TypeOK
  <2>1. Idle \in WorkerRecord
    BY DEF Idle, WorkerRecord
  <2>2. worker \in [Jobs -> [Accounts -> WorkerRecord]]
    BY <2>1
  <2>3. account \in [Accounts -> AccountSides]
    BY DEF AccountSides, Version
  <2>4. <<>> \in Seq(Accounts)
    OBVIOUS
  <2>5. QED
    BY <1>1, <1>2, <2>2, <2>3, <2>4 DEF TypeOK
<1>4. \A j \in Jobs : DOMAIN outq[j] = {}
  OBVIOUS
<1>5. None \notin Jobs /\ None \notin RowStatus /\ Conc \in Nat
  BY BulkAssumption
<1>6. LocksAreHeld
  <2>1. ASSUME NEW j \in Jobs
        PROVE  Cardinality(Slots(j)) <= Conc
    <3>1. Slots(j) = {}
      BY <2>1 DEF Slots, Idle, Inside
    <3>2. Cardinality(Slots(j)) = 0
      BY <3>1, FS_EmptySet
    <3>3. QED
      BY <1>5, <3>2
  <2>2. QED
    BY <1>5, <2>1 DEF LocksAreHeld, Idle, Inside
<1>7. CountsFollowRows
  <2>1. ASSUME NEW j \in Jobs, NEW s \in RowStatus
        PROVE  job[j].count[s] <= Cardinality({a \in Accounts : item[j][a].status = s})
    <3>1. IsFiniteSet({a \in Accounts : item[j][a].status = s})
      BY FS_Subset, BulkAssumption
    <3>2. Cardinality({a \in Accounts : item[j][a].status = s}) \in Nat
      BY <3>1, FS_CardinalityType
    <3>3. job[j].count[s] = 0
      BY DEF NoJob, NoTally
    <3>4. QED
      BY <3>2, <3>3
  <2>2. QED
    BY <2>1 DEF CountsFollowRows
<1>8. JobsMatch
  <2>1. ASSUME NEW j \in Jobs
        PROVE  JobMatches(j) /\ RowsMatch(j)
    BY <1>4 DEF JobMatches, RowsMatch, NoJob, Final
  <2>2. ASSUME NEW j \in Jobs, NEW a \in Accounts
        PROVE  WorkerMatches(j, a) /\ SentMatches(j, a)
    BY <1>5 DEF WorkerMatches, SentMatches, Idle, RowStatus
  <2>3. QED
    BY <2>1, <2>2 DEF JobsMatch
<1>9. FilesRemoved /\ OkIsTrue /\ SentOnce
  BY DEF FilesRemoved, OkIsTrue, SentOnce, Idle
<1>10. QED
  BY <1>1, <1>3, <1>6, <1>7, <1>8, <1>9, FinishedFollows DEF Context, StreamInv, ReportsAreTrue

LEMMA ContextStep ==
  ASSUME Context, [Next]_vars
  PROVE  Context'
<1>1. CASE Next
  <2>1. TypeOK' /\ given' \in Scenarios
    BY <1>1, TypeStep, GivenStep DEF Context
  <2>2. \A k \in Jobs : Own(k)'
    BY <1>1, <2>1, OwnStep
  <2>3. JobsMatch' /\ CountsFollowRows' /\ SentOnce'
    BY <2>2 DEF Own, JobsMatch, CountsFollowRows, CountsMatch, SentOnce, OnceSent
  <2>4. FinishedIsExact'
    BY <2>1, <2>3, FinishedFollows, PTL
  <2>5. LocksAreHeld' /\ OkIsTrue'
    BY <1>1, WorkLocks, OtherLocks, WorkTrue, OtherTrue
  <2>6. QED
    BY <1>1, <2>1, <2>3, <2>4, <2>5, FilesStep DEF Context, StreamInv, ReportsAreTrue
<1>2. CASE UNCHANGED vars
  <2> USE <1>2 DEF vars
  <2>1. TypeOK' = TypeOK /\ LocksAreHeld' = LocksAreHeld /\ FilesRemoved' = FilesRemoved
    BY DEF TypeOK, LocksAreHeld, Slots, FilesRemoved
  <2>2. \A k \in Jobs : Own(k)'
    BY OwnIsInvariant, OwnUntouched DEF Untouched
  <2>3. JobsMatch' /\ CountsFollowRows' /\ SentOnce'
    BY <2>2 DEF Own, JobsMatch, CountsFollowRows, CountsMatch, SentOnce, OnceSent
  <2>4. FinishedIsExact'
    <3>1. TypeOK'
      BY <2>1 DEF Context, StreamInv
    <3>2. QED
      BY <2>3, <3>1, FinishedFollows, PTL
  <2>5. OkIsTrue'
    BY DEF Context, ReportsAreTrue, OkIsTrue
  <2>6. QED
    BY <2>1, <2>3, <2>4, <2>5 DEF Context, StreamInv, ReportsAreTrue
<1>3. QED
  BY <1>1, <1>2

-------------------------------------------------------------------------------
(***************************************************************************)
(* The theorems.                                                           *)
(***************************************************************************)

LEMMA Invariant == Spec => []Context
<1>1. Init => Context
  BY Initially
<1>2. Context /\ [Next]_vars => Context'
  BY ContextStep
<1>3. QED
  BY <1>1, <1>2, PTL DEF Spec

\* The tables, the locks, the streams and the files agree: an account is locked
\* exactly by the worker that is past its lock, and no more of them than the
\* job's concurrency; counters follow the stored rows; a closed job has a result
\* of every account and says of them what they say; no files are left.
THEOREM StreamsAgree == Spec => []StreamInv
<1>1. Context => StreamInv
  BY DEF Context
<1>2. QED
  BY <1>1, Invariant, PTL

\* What is reported ok is true of the account, and no message goes out twice.
THEOREM ReportsTrue == Spec => []ReportsAreTrue
<1>1. Context => ReportsAreTrue
  BY DEF Context
<1>2. QED
  BY <1>1, Invariant, PTL

\* A job that retries another takes over none of the accounts whose action
\* was reported ok, once the other's stream is over and its worker not dead.
THEOREM RetriesTakeUnfinished == Spec => RetriesUnfinished
<1>1. ASSUME Context, [Next]_vars, NEW j \in Jobs,
             gen[j] = "none", gen'[j] = "create", job'[j].source # None,
             NEW a \in job'[j].accounts, worker[job'[j].source][a].row = "ok"
      PROVE  Live(job'[j].source) \/ worker[job'[j].source][a].pc = "dead"
  <2>1. TypeOK /\ Own(j) /\ job[j] \in JobRecord
    BY <1>1, OwnIsInvariant DEF Context, StreamInv, TypeOK
  <2>2. Request(j) \/ \E s \in Jobs : Retry(j, s)
    <3>1. \A i \in Jobs, b \in Accounts : ~(Work(i, b) \/ WorkerFails(i, b))
      BY <1>1, <2>1, WorkAlone
    <3>2. ~Elsewhere
      BY <1>1, ElsewhereOutside DEF Outside
    <3>3. ~Crash
      BY <1>1 DEF Crash
    <3>4. ASSUME NEW i \in Jobs, i # j
          PROVE  ~(Request(i) \/ (\E s \in Jobs : Retry(i, s)) \/ Stream(i)
                   \/ Disconnect(i) \/ StreamFails(i))
      BY <1>1, <2>1, <3>4, StreamAlone DEF Untouched, Stream
    <3>5. ~(Stream(j) \/ Disconnect(j) \/ StreamFails(j))
      BY <1>1 DEF Stream, CreateJob, TakeRow, UpdateCounts, CheckCancelled, FinishJob,
                  CloseStream, Drain, Disconnect, StreamFails
    <3>6. ~UNCHANGED vars
      BY <1>1 DEF vars
    <3>7. QED
      BY <1>1, <3>1, <3>2, <3>3, <3>4, <3>5, <3>6 DEF Next, Progress, Event, Elsewhere
  <2>3. ASSUME NEW kind, NEW S, NEW source, Ask(j, kind, S, source)
        PROVE  job'[j].accounts = S /\ job'[j].source = source
    <3>1. gen'[j] # "refused"
      BY <1>1
    <3>2. job' = [job EXCEPT ![j].kind = kind, ![j].accounts = S, ![j].source = source]
      BY <2>1, <2>3, <3>1 DEF Ask, TypeOK
    <3>3. job'[j] = [job[j] EXCEPT !.kind = kind, !.accounts = S, !.source = source]
      BY <2>1, <3>2 DEF TypeOK
    <3>4. QED
      BY <2>1, <3>3 DEF JobRecord
  <2>4. PICK s \in Jobs : Retry(j, s)
    BY <1>1, <2>2, <2>3 DEF Request
  <2>5. job'[j].accounts = Unfinished(s) /\ job'[j].source = s
    BY <2>3, <2>4 DEF Retry
  <2>6. a \in Accounts /\ item[s][a].status \in RetryItems /\ worker[s][a].row = "ok"
    BY <1>1, <2>1, <2>5 DEF Unfinished, TypeOK, JobRecord
  <2>7. WorkerMatches(s, a)
    BY <1>1, OwnIsInvariant, <2>6 DEF Own
  <2>8. CASE worker[s][a].pc = "done"
    BY <2>6, <2>7, <2>8 DEF WorkerMatches, RetryItems
  <2>9. CASE worker[s][a].pc = "write"
    BY <2>5, <2>7, <2>9 DEF WorkerMatches, Live
  <2>10. QED
    BY <2>5, <2>6, <2>7, <2>8, <2>9 DEF WorkerMatches, RowStatus
<1>2. Context /\ [Next]_vars =>
        [\A j \in Jobs : (gen[j] = "none" /\ gen'[j] = "create" /\ job'[j].source # None) =>
           LET s == job'[j].source IN
           \A a \in job'[j].accounts :
             worker[s][a].row = "ok" => Live(s) \/ worker[s][a].pc = "dead"]_vars
  BY <1>1
<1>3. QED
  BY <1>2, Invariant, PTL DEF Spec, RetriesUnfinished

-------------------------------------------------------------------------------
(***************************************************************************)
(* The stream implements BulkReport.  Every step tells the client of at    *)
(* most one job something new, but a crash, which breaks every open stream *)
(* off.                                                                    *)
(***************************************************************************)
Same(j) ==
  AskedFor(j)' = AskedFor(j) /\ RowsOf(j)' = RowsOf(j) /\ VerdictOf(j)' = VerdictOf(j)

Starting(j) ==
  /\ AskedFor(j) = {} /\ VerdictOf(j) = "open" /\ AskedFor(j)' \in SUBSET Accounts
  /\ RowsOf(j)' = RowsOf(j) /\ VerdictOf(j)' = VerdictOf(j)

Bringing(j) ==
  /\ VerdictOf(j) = "open"
  /\ \E a \in AskedFor(j) : \E s \in {"ok", "pending", "skipped", "failed"} :
       a \in Accounts /\ RowsOf(j)[a] = None /\ RowsOf(j)' = [RowsOf(j) EXCEPT ![a] = s]
  /\ AskedFor(j)' = AskedFor(j) /\ VerdictOf(j)' = VerdictOf(j)

Closing(j) ==
  /\ VerdictOf(j) = "open"
  /\ \A a \in AskedFor(j) : RowsOf(j)[a] # None
  /\ VerdictOf(j)' \in {"cancelled",
       IF \E a \in AskedFor(j) : RowsOf(j)[a] = "failed" THEN "completed_with_errors"
       ELSE "completed"}
  /\ AskedFor(j)' = AskedFor(j) /\ RowsOf(j)' = RowsOf(j)

Breaking(j) ==
  /\ VerdictOf(j) = "open" /\ VerdictOf(j)' = "broken"
  /\ AskedFor(j)' = AskedFor(j) /\ RowsOf(j)' = RowsOf(j)

\* What a client is told of a job that a step leaves alone.
LEMMA UntouchedTells ==
  ASSUME NEW j \in Jobs, Untouched(j)
  PROVE  Same(j)
BY DEF Untouched, Same, AskedFor, RowsOf, VerdictOf

LEMMA OutsideTells ==
  ASSUME NEW j \in Jobs, Outside(j)
  PROVE  Same(j)
BY DEF Outside, Still, Same, AskedFor, RowsOf, VerdictOf

LEMMA WorkTells ==
  ASSUME Context, NEW j \in Jobs, NEW a \in Accounts, Work(j, a) \/ WorkerFails(j, a)
  PROVE  \A k \in Jobs : Same(k)
<1> SUFFICES ASSUME NEW k \in Jobs
             PROVE  Same(k)
  OBVIOUS
<1>1. /\ TypeOK /\ LocksAreHeld /\ Own(j) /\ job[k] \in JobRecord
  BY OwnIsInvariant DEF Context, StreamInv, TypeOK
<1>2. /\ UNCHANGED <<gen, taken, final>>
      /\ \A b \in Accounts : k # j \/ b # a => worker'[k][b] = worker[k][b]
  BY <1>1, WorkAlone
<1>3. job'[k].status = job[k].status /\ job'[k].accounts = job[k].accounts
  <2>1. job'[k] = job[k] \/ job'[k] = [job[k] EXCEPT !.fresh = TRUE]
    BY <1>1, WorkAlone
  <2>2. QED
    BY <1>1, <2>1 DEF JobRecord
<1>4. worker[j][a].pc # "done"
  BY <1>1, WorkSteps DEF Approaches, Locks, Starts, Calls, Notes, Writes, Fails
<1>5. a \notin taken[j]
  BY <1>1, <1>4 DEF Own, RowsMatch
<1>6. RowsOf(k)' = RowsOf(k)
  BY <1>2, <1>5 DEF RowsOf
<1>7. QED
  BY <1>2, <1>3, <1>6 DEF Same, AskedFor, VerdictOf

LEMMA RequestTells ==
  ASSUME Context, NEW j \in Jobs, Request(j) \/ (\E s \in Jobs : Retry(j, s)) \/ CreateJob(j)
  PROVE  Same(j) \/ Breaking(j) \/ Starting(j)
<1>1. TypeOK /\ Own(j) /\ job[j] \in JobRecord
  BY OwnIsInvariant DEF Context, StreamInv, TypeOK
<1>2. ASSUME NEW kind, NEW S, NEW source, Ask(j, kind, S, source)
      PROVE  Same(j) \/ Breaking(j)
  <2>1. /\ gen[j] = "none" /\ gen'[j] \in {"refused", "create"}
        /\ taken' = taken /\ worker' = worker
        /\ job' = job \/ job' = [job EXCEPT ![j].kind = kind, ![j].accounts = S,
                                            ![j].source = source]
    BY <1>1, <1>2 DEF Ask, TypeOK
  <2>2. job'[j] = job[j]
        \/ job'[j] = [job[j] EXCEPT !.kind = kind, !.accounts = S, !.source = source]
    BY <1>1, <2>1 DEF TypeOK
  <2>3. job[j].status = "absent" /\ job'[j].status = "absent"
    BY <1>1, <2>1, <2>2 DEF Own, JobMatches, JobRecord
  <2>4. AskedFor(j)' = AskedFor(j) /\ RowsOf(j)' = RowsOf(j)
    BY <2>1, <2>3 DEF AskedFor, RowsOf
  <2>5. QED
    BY <2>1, <2>4 DEF Same, Breaking, VerdictOf
<1>3. CASE CreateJob(j)
  <2>1. /\ gen[j] = "create" /\ gen'[j] \in {"check", "get"} /\ taken' = taken
    BY <1>1, <1>3 DEF CreateJob, TypeOK
  <2>2. job[j].status = "absent" /\ taken[j] = {}
    BY <1>1, <2>1 DEF Own, JobMatches
  <2>3. AskedFor(j) = {} /\ AskedFor(j)' \in SUBSET Accounts
    <3>1. job' = [job EXCEPT ![j] = [job[j] EXCEPT !.status = "running", !.fresh = TRUE]]
      BY <1>1, <1>3 DEF CreateJob, TypeOK
    <3>2. job'[j].accounts = job[j].accounts
      BY <1>1, <3>1 DEF TypeOK, JobRecord
    <3>3. QED
      BY <1>1, <2>2, <3>2 DEF AskedFor, JobRecord
  <2>4. RowsOf(j)' = RowsOf(j)
    BY <2>1, <2>2 DEF RowsOf
  <2>5. QED
    BY <2>1, <2>3, <2>4 DEF Starting, VerdictOf
<1>4. QED
  BY <1>2, <1>3 DEF Request, Retry

LEMMA StreamTells ==
  ASSUME Context, NEW j \in Jobs,
         \/ TakeRow(j) \/ UpdateCounts(j) \/ CheckCancelled(j) \/ FinishJob(j)
         \/ CloseStream(j) \/ Drain(j) \/ Disconnect(j) \/ StreamFails(j)
  PROVE  Same(j) \/ Bringing(j) \/ Closing(j) \/ Breaking(j)
<1>1. /\ TypeOK /\ JobMatches(j) /\ RowsMatch(j) /\ job[j] \in JobRecord
      /\ \A a \in Accounts : WorkerMatches(j, a)
      /\ taken[j] \in SUBSET Accounts /\ None \notin RowStatus
  BY OwnIsInvariant, BulkAssumption DEF Context, StreamInv, TypeOK, Own
<1>2. CASE TakeRow(j)
  <2> DEFINE a == Head(outq[j])
  <2>1. /\ outq[j] \in Seq(Accounts) /\ outq[j] # <<>> /\ gen[j] = "get" /\ gen'[j] = "count"
        /\ taken'[j] = taken[j] \union {a} /\ job' = job /\ worker' = worker
    BY <1>1, <1>2 DEF TakeRow, GenGo, stored, TypeOK
  <2>2. a \in Accounts /\ 1 \in DOMAIN outq[j] /\ a = outq[j][1]
    BY <2>1
  <2>3. a \notin taken[j] /\ worker[j][a].pc = "done"
    BY <1>1, <2>2 DEF RowsMatch
  <2> HIDE DEF a
  <2>4. a \in job[j].accounts /\ worker[j][a].row \in RowStatus /\ job[j].status # "absent"
    BY <1>1, <2>1, <2>2, <2>3 DEF WorkerMatches, JobMatches
  <2>5. RowsOf(j)[a] = None /\ RowsOf(j)' = [RowsOf(j) EXCEPT ![a] = worker[j][a].row]
    BY <2>1, <2>2, <2>3 DEF RowsOf
  <2>6. AskedFor(j)' = AskedFor(j) /\ a \in AskedFor(j)
    BY <2>1, <2>4 DEF AskedFor
  <2>7. QED
    BY <2>1, <2>2, <2>4, <2>5, <2>6 DEF Bringing, VerdictOf, RowStatus
<1>3. CASE UpdateCounts(j)
  <2>1. /\ gen[j] = "count" /\ gen'[j] \in {"check", "get"} /\ taken' = taken /\ worker' = worker
        /\ job' = [job EXCEPT ![j].count = Tally(j, taken[j]), ![j].fresh = TRUE]
    BY <1>1, <1>3 DEF UpdateCounts, GenGo, TypeOK
  <2>2. job'[j].status = job[j].status /\ job'[j].accounts = job[j].accounts
    BY <1>1, <2>1 DEF TypeOK, JobRecord
  <2>3. QED
    BY <2>1, <2>2 DEF Same, AskedFor, RowsOf, VerdictOf
<1>4. CASE CheckCancelled(j)
  <2>1. gen[j] = "check" /\ gen'[j] = "finish" /\ UNCHANGED <<job, taken, worker>>
    BY <1>1, <1>4 DEF CheckCancelled, GenGo, stored, TypeOK
  <2>2. QED
    BY <2>1 DEF Same, AskedFor, RowsOf, VerdictOf
<1>5. CASE FinishJob(j)
  <2>1. /\ gen[j] = "finish" /\ gen'[j] = "done" /\ UNCHANGED <<taken, worker, final>>
        /\ job'[j].status = final[j] /\ job'[j].accounts = job[j].accounts
    BY <1>1, <1>5 DEF FinishJob, GenGo, TypeOK, JobRecord
  <2>2. PICK c \in BOOLEAN : final[j] = FinalStatus(j, c)
    BY <1>1, <2>1 DEF RowsMatch
  <2>3. /\ taken[j] = job[j].accounts /\ job[j].status # "absent" /\ final[j] # "absent"
        /\ \A a \in taken[j] : worker[j][a].row \in RowStatus
    BY <1>1, <2>1, <2>2 DEF RowsMatch, WorkerMatches, JobMatches, FinalStatus
  <2>4. AskedFor(j) = taken[j] /\ AskedFor(j)' = AskedFor(j)
    BY <2>1, <2>3 DEF AskedFor
  <2>5. RowsOf(j)' = RowsOf(j) /\ \A a \in taken[j] : RowsOf(j)[a] = worker[j][a].row
    BY <1>1, <2>1 DEF RowsOf
  <2>6. Tally(j, taken[j])["failed"] > 0 <=> \E a \in taken[j] : worker[j][a].row = "failed"
    <3> DEFINE B == {a \in taken[j] : worker[j][a].row = "failed"}
    <3>1. Tally(j, taken[j])["failed"] = Cardinality(B)
      BY DEF Tally, RowStatus
    <3>2. IsFiniteSet(B)
      BY <1>1, FS_Subset, BulkAssumption
    <3>3. Cardinality(B) \in Nat /\ (Cardinality(B) = 0 <=> B = {})
      BY <3>2, FS_EmptySet, FS_CardinalityType
    <3>4. B # {} <=> \E a \in taken[j] : worker[j][a].row = "failed"
      OBVIOUS
    <3> HIDE DEF B
    <3>5. QED
      BY <3>1, <3>3, <3>4
  <2>7. final[j] \in {"cancelled", IF \E a \in taken[j] : worker[j][a].row = "failed"
                                   THEN "completed_with_errors" ELSE "completed"}
    BY <2>2, <2>6 DEF FinalStatus
  <2>8. VerdictOf(j) = "open" /\ VerdictOf(j)' = final[j]
    BY <2>1 DEF VerdictOf
  <2>9. (\E a \in AskedFor(j) : RowsOf(j)[a] = "failed")
           <=> \E a \in taken[j] : worker[j][a].row = "failed"
    BY <2>4, <2>5
  <2>10. QED
    BY <1>1, <2>3, <2>4, <2>5, <2>7, <2>8, <2>9 DEF Closing
<1>6. CASE CloseStream(j)
  <2>1. /\ gen[j] = "closing" /\ gen'[j] = "drain" /\ UNCHANGED <<taken, worker>>
        /\ job' = job \/ job' = [job EXCEPT ![j].status = "cancelling", ![j].fresh = TRUE]
    BY <1>1, <1>6 DEF CloseStream, Cancelled, GenGo, TypeOK
  <2>2. /\ job'[j].accounts = job[j].accounts
        /\ job'[j].status # "absent" /\ job[j].status # "absent"
    BY <1>1, <2>1 DEF TypeOK, JobRecord, JobMatches
  <2>3. QED
    BY <2>1, <2>2 DEF Same, AskedFor, RowsOf, VerdictOf
<1>7. CASE Drain(j)
  <2>1. gen[j] = "drain" /\ gen'[j] = "raised" /\ UNCHANGED <<taken, job>>
    BY <1>1, <1>7 DEF Drain, GenGo, stored, TypeOK
  <2>2. \A a \in taken[j] : worker'[j][a] = worker[j][a]
    BY <1>1, <1>7, DrainKills, Killed DEF Drain, RowsMatch
  <2>3. QED
    BY <1>1, <2>1, <2>2 DEF Same, AskedFor, RowsOf, VerdictOf
<1>8. CASE Disconnect(j) \/ StreamFails(j)
  <2>1. /\ gen[j] \in {"create", "get", "count", "check", "finish"}
        /\ gen'[j] \in {"closing", "raised"} /\ UNCHANGED <<taken, job, worker>>
    BY <1>1, <1>8 DEF Disconnect, StreamFails, GenGo, stored, TypeOK
  <2>2. QED
    BY <2>1 DEF Breaking, AskedFor, RowsOf, VerdictOf
<1>9. QED
  BY <1>2, <1>3, <1>4, <1>5, <1>6, <1>7, <1>8

LEMMA CrashTells ==
  ASSUME Context, Crash, NEW j \in Jobs
  PROVE  Same(j) \/ Breaking(j)
<1>1. TypeOK /\ RowsMatch(j)
  BY OwnIsInvariant DEF Context, StreamInv, Own
<1>2. /\ UNCHANGED <<job, taken, final>>
      /\ gen'[j] = IF gen[j] \in {"none", "refused", "raised", "done"} THEN gen[j] ELSE "lost"
  BY DEF Crash, stored
<1>3. \A a \in taken[j] : worker'[j][a] = worker[j][a]
  BY <1>1, Killed DEF Crash, Dying, RowsMatch, TypeOK
<1>4. AskedFor(j)' = AskedFor(j) /\ RowsOf(j)' = RowsOf(j)
  BY <1>1, <1>2, <1>3 DEF AskedFor, RowsOf, TypeOK
<1>5. gen[j] \in {"none", "refused", "create", "get", "count", "check",
                  "finish", "closing", "drain", "raised", "lost", "done"}
  BY <1>1 DEF TypeOK
<1>6. VerdictOf(j)' = VerdictOf(j) \/ (VerdictOf(j) = "open" /\ VerdictOf(j)' = "broken")
  BY <1>2, <1>5 DEF VerdictOf
<1>7. QED
  BY <1>4, <1>6 DEF Same, Breaking

\* Every step is one of BulkReport's or none.
LEMMA StepTells ==
  ASSUME Context, Next
  PROVE  [Report!Next]_(Report!report)
<1>1. TypeOK
  BY DEF Context, StreamInv
<1>2. ASSUME \A k \in Jobs : Same(k)
      PROVE  UNCHANGED Report!report
  BY <1>2 DEF Same, Report!report
<1>3. ASSUME NEW j \in Jobs, \A k \in Jobs \ {j} : Same(k), Starting(j)
      PROVE  Report!Start(j)
  BY <1>3 DEF Same, Starting, Report!Start
<1>4. ASSUME NEW j \in Jobs, \A k \in Jobs \ {j} : Same(k), Bringing(j)
      PROVE  \E a \in Accounts : Report!Row(j, a)
  BY <1>4 DEF Same, Bringing, Report!Row
<1>5. ASSUME NEW j \in Jobs, \A k \in Jobs \ {j} : Same(k), Closing(j)
      PROVE  Report!Done(j)
  BY <1>5 DEF Same, Closing, Report!Done
<1>6. ASSUME \A k \in Jobs : Same(k) \/ Breaking(k)
      PROVE  \E S \in SUBSET Jobs : Report!Break(S)
  <2> DEFINE S == {k \in Jobs : Breaking(k)}
  <2>1. S \in SUBSET Jobs
    OBVIOUS
  <2>2. \A k \in Jobs : /\ VerdictOf(k)' = IF k \in S THEN "broken" ELSE VerdictOf(k)
                        /\ k \in S => VerdictOf(k) = "open"
                        /\ AskedFor(k)' = AskedFor(k) /\ RowsOf(k)' = RowsOf(k)
    BY <1>6 DEF Same, Breaking
  <2> HIDE DEF S
  <2>3. Report!Break(S)
    BY <2>1, <2>2 DEF Report!Break
  <2>4. QED
    BY <2>1, <2>3
<1>7. ASSUME NEW j \in Jobs, NEW a \in Accounts, Work(j, a) \/ WorkerFails(j, a)
      PROVE  UNCHANGED Report!report
  BY <1>2, <1>7, WorkTells
<1>8. ASSUME NEW j \in Jobs,
         \/ Request(j) \/ (\E s \in Jobs : Retry(j, s)) \/ CreateJob(j) \/ TakeRow(j)
         \/ UpdateCounts(j) \/ CheckCancelled(j) \/ FinishJob(j) \/ CloseStream(j)
         \/ Drain(j) \/ Disconnect(j) \/ StreamFails(j)
      PROVE  Report!Next \/ UNCHANGED Report!report
  <2>1. \A k \in Jobs \ {j} : Same(k)
    BY <1>1, <1>8, StreamAlone, UntouchedTells
  <2>2. Same(j) \/ Breaking(j) \/ Starting(j) \/ Bringing(j) \/ Closing(j)
    BY <1>8, RequestTells, StreamTells
  <2>3. QED
    BY <1>2, <1>3, <1>4, <1>5, <1>6, <2>1, <2>2 DEF Report!Next
<1>9. CASE Elsewhere
  BY <1>2, <1>9, ElsewhereOutside, OutsideTells
<1>10. CASE Crash
  BY <1>6, <1>10, CrashTells DEF Report!Next
<1>11. QED
  BY <1>7, <1>8, <1>9, <1>10 DEF Next, Progress, Event, Stream, Elsewhere

\* The client of a bulk job gets what BulkReport promises: a row of an account
\* once, a verdict only after all of them and in agreement with them, and
\* nothing more from a stream that has broken off.
THEOREM ImplementsReport == Spec => ReportHolds
<1>1. Init => Report!Init
  <2>1. ASSUME Init
        PROVE  \A j \in Jobs : AskedFor(j) = {} /\ RowsOf(j) = [a \in Accounts |-> None]
                               /\ VerdictOf(j) = "open"
    BY <2>1 DEF Init, NoJob, AskedFor, RowsOf, VerdictOf
  <2>2. QED
    BY <2>1 DEF Report!Init
<1>2. Context /\ [Next]_vars => [Report!Next]_(Report!report)
  <2>1. CASE Context /\ Next
    BY <2>1, StepTells
  <2>2. CASE UNCHANGED vars
    BY <2>2 DEF vars, Report!report, AskedFor, RowsOf, VerdictOf
  <2>3. QED
    BY <2>1, <2>2
<1>3. QED
  BY <1>1, <1>2, Invariant, PTL DEF Spec, ReportHolds, Report!Spec
==============================================================================
