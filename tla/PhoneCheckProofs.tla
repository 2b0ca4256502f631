---------------------------- MODULE PhoneCheckProofs ----------------------------
(***************************************************************************)
(* Proofs of the phone-number checker's properties.                        *)
(*                                                                         *)
(* The argument is about who may touch an item, in three layers.           *)
(*                                                                         *)
(* Whatever goes wrong, a job, its items and its create request know of    *)
(* each other, and a save counts a final result once for the job and once  *)
(* for an account (ResultsStored): LedgerInv needs no assumption.          *)
(*                                                                         *)
(* While no database error ends a worker, a live worker belongs to the run *)
(* its task waits for (WorkersAwaited): while the task finalizes, nobody   *)
(* changes the job's items (JobRests), and a claim has a worker even if    *)
(* its item is moved and claimed again (MovingInv).                        *)
(*                                                                         *)
(* While, besides, no item is moved, a worker picks only from its own      *)
(* account's share and holds what its token claims (ClaimsMatch), so what  *)
(* it stores moves exactly one item out of the open ones (AddsStored).  A  *)
(* rebalance request may move an item that is being picked; it is then     *)
(* checked by two workers, and the job counts it twice.                    *)
(***************************************************************************)
EXTENDS PhoneCheckProperties, TLAPS, FiniteSetTheorems, SequenceTheorems,
        WellFoundedInduction, NaturalsInduction

-------------------------------------------------------------------------------
(***************************************************************************)
(* Types.                                                                  *)
(***************************************************************************)

\* The sets the types are made of; what they have in common is all that the
\* type proofs use of them.
LEMMA Vocabulary ==
  /\ ActiveJob \union TerminalJob \union {"absent"} = JobStatus
  /\ {"queued", "running", "paused", "cancelling"} \subseteq ActiveJob
  /\ {"completed", "completed_with_errors", "cancelled"} \subseteq TerminalJob
  /\ RunnableItem \union TerminalItem \union {"absent", "processing"} = ItemStatus
  /\ {"queued", "temporary_error", "rate_limited", "in_flight_unknown"}
       \subseteq RunnableItem
  /\ {"invalid", "cancelled", "found", "not_discoverable", "permanent_error"}
       \subseteq TerminalItem
  /\ Outcomes \ {"none"} \subseteq ItemStatus
BY DEF JobStatus, ActiveJob, TerminalJob, ItemStatus, RunnableItem,
       TerminalItem, Outcomes

\* A job has finitely many items and numbers, so what is counted is a number.
LEMMA Finite ==
  /\ IsFiniteSet(1 .. Phones)
  /\ IsFiniteSet(Valid)
  /\ IsFiniteSet(Invalid)
  /\ \A j : IsFiniteSet(ItemsOf(j))
  /\ \A j : ItemsOf(j) \subseteq Items \/ j \notin Jobs
<1>1. IsFiniteSet(1 .. Phones)
  BY FS_Interval, ConstantsAssumption
<1>2. IsFiniteSet(Valid) /\ IsFiniteSet(Invalid)
  BY <1>1, FS_Subset, ConstantsAssumption DEF Valid
<1>3. ASSUME NEW j
      PROVE  IsFiniteSet(ItemsOf(j))
  <2>1. IsFiniteSet({j})
    BY FS_Singleton
  <2>2. QED
    BY <1>1, <2>1, FS_Product DEF ItemsOf
<1>4. QED
  BY <1>1, <1>2, <1>3 DEF ItemsOf, Items

LEMMA NumberType ==
  ASSUME NEW j, NEW S
  PROVE  Number(j, S) \in Nat
<1>1. IsFiniteSet({i \in ItemsOf(j) : item[i] \in S})
  BY Finite, FS_Subset
<1>2. QED
  BY <1>1, FS_CardinalityType DEF Number

\* The accounts in use are accounts of the list.
LEMMA UsedType ==
  /\ Used \in Seq(Nat)
  /\ Accounts \subseteq {AccountOrder[k] : k \in DOMAIN AccountOrder}
  /\ Used \in Seq(Accounts)
  /\ IsFiniteSet(Accounts)
  /\ Valid # {} => Len(Used) > 0
<1> DEFINE n == IF Cardinality(Valid) < Len(AccountOrder)
                THEN Cardinality(Valid) ELSE Len(AccountOrder)
<1>1. Cardinality(Valid) \in Nat /\ (Valid # {} => Cardinality(Valid) # 0)
  BY Finite, FS_CardinalityType, FS_EmptySet
<1>2. AccountOrder \in Seq(Nat) /\ Len(AccountOrder) \in Nat /\ Len(AccountOrder) > 0
  BY ConstantsAssumption
<1>3. n \in Nat /\ n <= Len(AccountOrder) /\ (Valid # {} => n > 0)
  BY <1>1, <1>2
<1>4. /\ Used = [k \in 1 .. n |-> AccountOrder[k]]
      /\ Used \in Seq(Nat) /\ Len(Used) = n
  BY <1>2, <1>3, SubSeqProperties DEF Used
<1>5. DOMAIN AccountOrder = 1 .. Len(AccountOrder) /\ DOMAIN Used = 1 .. n
  BY <1>2, <1>4
<1>6. \A k \in DOMAIN Used : k \in DOMAIN AccountOrder /\ Used[k] = AccountOrder[k]
  BY <1>2, <1>3, <1>4, <1>5
<1>7. \A k \in DOMAIN AccountOrder : AccountOrder[k] \in Nat
  BY <1>2
<1>8. Accounts \subseteq {AccountOrder[k] : k \in DOMAIN AccountOrder}
  BY <1>6 DEF Accounts
<1>9. Used \in Seq(Accounts)
  <2>1. \A k \in 1 .. n : AccountOrder[k] \in Accounts
    BY <1>4, <1>5 DEF Accounts
  <2>2. QED
    BY <1>3, <1>4, <2>1, IsASeq
<1>10. IsFiniteSet(Accounts)
  <2>1. IsFiniteSet(DOMAIN Used)
    BY <1>3, <1>5, FS_Interval
  <2>2. Used \in Surjection(DOMAIN Used, Accounts)
    BY <1>4, <1>5 DEF Accounts, Surjection
  <2>3. QED
    BY <2>1, <2>2, FS_Surjection
<1>11. QED
  BY <1>3, <1>4, <1>7, <1>8, <1>9, <1>10

\* The step of the selection, as a relation between a function and its values.
Selects(f, seq, S, n) ==
  f = [k \in 0 .. n |->
        IF k = 0 THEN <<>>
        ELSE IF seq[k] \in S THEN Append(f[k - 1], seq[k])
        ELSE f[k - 1]]

\* A sequence can be selected from, element by element: there is no shortest
\* prefix from which it cannot.
LEMMA SelectionExists ==
  ASSUME NEW T, NEW seq \in Seq(T), NEW S
  PROVE  \E f : Selects(f, seq, S, Len(seq))
<1> DEFINE Bad == {n \in Nat : n <= Len(seq) /\ ~ \E f : Selects(f, seq, S, n)}
<1>1. SUFFICES Bad = {}
  BY LenProperties
<1>2. SUFFICES ASSUME Bad # {}
               PROVE  FALSE
  OBVIOUS
<1>3. PICK n \in Bad : \A m \in Bad : ~(<<m, n>> \in OpToRel(<, Nat))
  BY <1>2, NatLessThanWellFounded, WFMin
<1>4. n \in Nat /\ n <= Len(seq) /\ \A m \in Nat : m < n => m \notin Bad
  BY <1>3 DEF OpToRel
<1>5. CASE n = 0
  <2>1. Selects([k \in 0 .. 0 |-> <<>>], seq, S, 0)
    BY DEF Selects
  <2>2. QED
    BY <1>3, <1>5, <2>1
<1>6. CASE n # 0
  <2>1. n - 1 \in Nat /\ n - 1 <= Len(seq) /\ n - 1 \notin Bad
    BY <1>4, <1>6, LenProperties
  <2>2. PICK f : Selects(f, seq, S, n - 1)
    BY <2>1
  <2> DEFINE last == IF seq[n] \in S THEN Append(f[n - 1], seq[n]) ELSE f[n - 1]
             g == [k \in 0 .. n |-> IF k = n THEN last ELSE f[k]]
  <2>3. \A k \in 0 .. n : k # n => k \in 0 .. n - 1
    BY <1>4
  <2>4. ASSUME NEW k \in 0 .. n
        PROVE  g[k] = IF k = 0 THEN <<>>
                      ELSE IF seq[k] \in S THEN Append(g[k - 1], seq[k])
                      ELSE g[k - 1]
    <3>1. CASE k = n
      BY <1>4, <1>6, <3>1
    <3>2. CASE k # n
      <4>1. k \in 0 .. n - 1 /\ (k # 0 => k - 1 \in 0 .. n /\ k - 1 # n)
        BY <1>4, <3>2
      <4>2. f[k] = IF k = 0 THEN <<>>
                   ELSE IF seq[k] \in S THEN Append(f[k - 1], seq[k])
                   ELSE f[k - 1]
        BY <2>2, <4>1 DEF Selects
      <4>3. QED
        BY <3>2, <4>1, <4>2
    <3>3. QED
      BY <3>1, <3>2
  <2>5. Selects(g, seq, S, n)
    <3> HIDE DEF last
    <3>1. g = [k \in 0 .. n |-> g[k]]
      OBVIOUS
    <3> HIDE DEF g
    <3>2. QED
      BY <2>4, <3>1 DEF Selects
  <2>6. QED
    BY <1>3, <2>5
<1>7. QED
  BY <1>5, <1>6

\* What is selected from a sequence is a sequence of the same things.
LEMMA SelectedType ==
  ASSUME NEW T, NEW seq \in Seq(T), NEW S
  PROVE  Selected(seq, S) \in Seq(T)
<1> DEFINE f == CHOOSE f : Selects(f, seq, S, Len(seq))
           Bad == {n \in Nat : n <= Len(seq) /\ f[n] \notin Seq(T)}
<1>1. Selects(f, seq, S, Len(seq))
  BY SelectionExists
<1> HIDE DEF f
<1>2. \A k \in 0 .. Len(seq) :
        f[k] = IF k = 0 THEN <<>>
               ELSE IF seq[k] \in S THEN Append(f[k - 1], seq[k])
               ELSE f[k - 1]
  BY <1>1 DEF Selects
<1>3. Bad = {}
  <2>1. SUFFICES ASSUME Bad # {}
                 PROVE  FALSE
    OBVIOUS
  <2>2. PICK n \in Bad : \A m \in Bad : ~(<<m, n>> \in OpToRel(<, Nat))
    BY <2>1, NatLessThanWellFounded, WFMin
  <2>3. n \in Nat /\ n <= Len(seq) /\ f[n] \notin Seq(T)
        /\ \A m \in Nat : m < n => m \notin Bad
    BY <2>2 DEF OpToRel
  <2>4. n # 0
    <3>1. f[0] = <<>>
      BY <1>2, LenProperties
    <3>2. QED
      BY <2>3, <3>1, EmptySeq
  <2>5. f[n - 1] \in Seq(T)
    BY <2>3, <2>4, LenProperties
  <2>6. n \in 1 .. Len(seq) /\ seq[n] \in T
    BY <2>3, <2>4, LenProperties, ElementOfSeq
  <2>7. f[n] = IF seq[n] \in S THEN Append(f[n - 1], seq[n]) ELSE f[n - 1]
    BY <1>2, <2>4, <2>6, LenProperties
  <2>8. Append(f[n - 1], seq[n]) \in Seq(T)
    BY <2>5, <2>6, AppendProperties
  <2>9. QED
    BY <2>3, <2>5, <2>7, <2>8
<1>4. f[Len(seq)] \in Seq(T)
  BY <1>3, LenProperties
<1>5. Selected(seq, S) = f[Len(seq)]
  BY DEF Selected, Selects, f
<1>6. QED
  BY <1>4, <1>5
\* Items are dealt to accounts.
LEMMA DealType ==
  ASSUME NEW S, IsFiniteSet(S), NEW T, NEW seq \in Seq(T), S # {} => seq # <<>>
  PROVE  Deal(S, seq) \in [S -> T]
<1> SUFFICES ASSUME NEW i \in S
             PROVE  seq[(Rank(i, S) % Len(seq)) + 1] \in T
  BY DEF Deal
<1>1. Len(seq) \in Nat /\ Len(seq) > 0
  BY EmptySeq
<1>2. Rank(i, S) \in Nat
  <2>1. IsFiniteSet({k \in S : k[2] < i[2]})
    BY FS_Subset
  <2>2. QED
    BY <2>1, FS_CardinalityType DEF Rank
<1>3. (Rank(i, S) % Len(seq)) + 1 \in 1 .. Len(seq)
  BY <1>1, <1>2
<1>4. QED
  BY <1>3, ElementOfSeq

\* A new job's numbers go to the accounts in use, an open item of an account
\* without a client to one with a client.
LEMMA DealtType ==
  ASSUME NEW j \in Jobs
  PROVE  Deal({j} \X Valid, Used) \in [{j} \X Valid -> Accounts]
<1>1. IsFiniteSet({j} \X Valid)
  BY Finite, FS_Singleton, FS_Product
<1>2. {j} \X Valid # {} => Used # <<>>
  BY UsedType, EmptySeq
<1>3. QED
  BY <1>1, <1>2, UsedType, DealType

LEMMA MovesType ==
  ASSUME NEW j \in Jobs, Ready # <<>>
  PROVE  Moves(j) \in UNION {[S -> Accounts] : S \in SUBSET Items}
<1> DEFINE S == {i \in ItemsOf(j) : item[i] \in RunnableItem /\ owner[i] \notin online}
<1>1. IsFiniteSet(S) /\ S \in SUBSET Items
  BY Finite, FS_Subset DEF ItemsOf, Items
<1>2. Ready \in Seq(Accounts)
  BY UsedType, SelectedType DEF Ready
<1>3. Moves(j) \in [S -> Accounts]
  BY <1>1, <1>2, DealType DEF Moves
<1>4. QED
  BY <1>1, <1>3

\* The records the steps build.
LEMMA Records ==
  /\ NoCount \in Counters
  /\ Off \in WorkerState
  /\ FreeTask \in TaskState
  /\ Idle \in RequestState
<1>1. NoCount \in Counters /\ Off \in WorkerState /\ FreeTask \in TaskState
  BY Vocabulary
     DEF NoCount, Counters, At, Off, WorkerState, Outcomes, FreeTask, TaskState
<1>2. <<>> \in [{} -> Accounts]
  OBVIOUS
<1>3. [{} -> Accounts] \subseteq UNION {[S -> Accounts] : S \in SUBSET Items}
  OBVIOUS
<1>4. <<>> \in UNION {[S -> Accounts] : S \in SUBSET Items}
  BY <1>2, <1>3
<1>5. QED
  BY <1>1, <1>4, Vocabulary DEF Idle, RequestState

\* TypeOK alone is not inductive: what a task and a worker act on must be typed.
TaskHolds == task.pc # "free" => task.job \in Jobs

SavedOutcomes == Outcomes \ {"none"}

WorkersHold ==
  \A w \in Workers :
    /\ worker[w].pc \in Holding \union {"picked"} => worker[w].item \in Items
    /\ worker[w].pc \in {"save", "store"} => worker[w].out \in SavedOutcomes

RequestsHold ==
  \A c \in Clients :
    /\ request[c].op # "none" => request[c].job \in Jobs
    /\ request[c].op \in Ops \union {"none", "create"}
    /\ request[c].op # "rebalance" => request[c].moves = <<>>

TypeInv == TypeOK /\ TaskHolds /\ WorkersHold /\ RequestsHold

LEMMA InitType == Init => TypeInv
BY ConstantsAssumption, Vocabulary, Records
   DEF Init, TypeInv, TypeOK, TaskHolds, WorkersHold, RequestsHold, Holding, Off,
       At, FreeTask, Idle

\* Who works on whom.
LEMMA WorkerNames ==
  \A w \in Workers : w[1] \in Jobs /\ w[2] \in Accounts /\ w[3] \in Runs
                     /\ ShareOf(w[1], w[2]) \subseteq Items
BY DEF Workers, ShareOf, ItemsOf, Items

LEMMA CountedType ==
  ASSUME NEW n \in Counters, NEW result
  PROVE  Counted(n, result) \in Counters
BY DEF Counters, Counted

LEMMA NextType == TypeInv /\ [Next]_vars => TypeInv'
<1> SUFFICES ASSUME TypeInv, [Next]_vars
             PROVE  TypeInv'
  OBVIOUS
<1> USE DEF TypeInv, TypeOK, TaskHolds, WorkersHold, RequestsHold, Holding, jobVars, itemVars
<1>1. ASSUME NEW c \in Clients, NEW j \in Jobs, BeginCreate(c, j)
      PROVE  TypeInv'
  BY <1>1, Vocabulary, Records DEF BeginCreate, RequestState, Idle
<1>2. ASSUME NEW c \in Clients, CommitCreate(c)
      PROVE  TypeInv'
  <2> DEFINE j == request[c].job
             dealt == Deal({j} \X Valid, Used)
  <2>1. j \in Jobs
    BY <1>2 DEF CommitCreate
  <2>2. dealt \in [{j} \X Valid -> Accounts]
    BY <2>1, DealtType
  <2>3. Cardinality(Invalid) \in Nat /\ Cardinality(Valid) \in Nat
    BY Finite, FS_CardinalityType
  <2>4. status' \in [Jobs -> JobStatus] /\ item' \in [Items -> ItemStatus]
    BY <1>2, Vocabulary DEF CommitCreate
  <2>5. count' \in [Jobs -> Counters]
    BY <1>2, <2>3 DEF CommitCreate, NoCount, Counters
  <2>6. owner' \in [Items -> Accounts \union {None}]
    <3> HIDE DEF dealt
    <3>1. owner' = [i \in Items |-> IF i \in DOMAIN dealt THEN dealt[i] ELSE owner[i]]
      BY <1>2 DEF CommitCreate, dealt
    <3>2. \A i \in DOMAIN dealt : dealt[i] \in Accounts
      BY <2>2
    <3>3. QED
      BY <3>1, <3>2
  <2>7. request' \in [Clients -> RequestState]
    BY <1>2, Records DEF CommitCreate
  <2>8. RequestsHold'
    BY <1>2 DEF CommitCreate, Idle
  <2>9. QED
    BY <1>2, <2>4, <2>5, <2>6, <2>7, <2>8 DEF CommitCreate
<1>3. ASSUME NEW c \in Clients, NEW j \in Jobs, NEW op \in Ops, ReadRow(c, j, op)
      PROVE  TypeInv'
  <2> DEFINE moves == IF op = "rebalance" THEN Moves(j) ELSE <<>>
             row == [op |-> op, job |-> j, saw |-> status[j],
                     owned |-> runner[j] # None, moves |-> moves]
  <2>1. op \in AllOps
    BY <1>3, ConstantsAssumption
  <2>2. Idle.moves = <<>> /\ Idle \in RequestState
    BY Records DEF Idle
  <2>3. <<>> \in UNION {[S -> Accounts] : S \in SUBSET Items}
    BY <2>2 DEF RequestState
  <2>4. moves \in UNION {[S -> Accounts] : S \in SUBSET Items}
    BY <1>3, <2>3, MovesType DEF ReadRow
  <2>5. request' = [request EXCEPT ![c] = row]
    BY <1>3 DEF ReadRow
  <2>6. /\ op # "rebalance" => moves = <<>>
        /\ status[j] \in JobStatus
    OBVIOUS
  <2> HIDE DEF moves
  <2>7. row \in RequestState
    BY <2>1, <2>4, <2>6 DEF RequestState
  <2>8. request' \in [Clients -> RequestState] /\ RequestsHold'
    BY <2>5, <2>6, <2>7
  <2>9. QED
    BY <1>3, <2>8 DEF ReadRow
<1>4. ASSUME NEW c \in Clients, CommitRow(c)
      PROVE  TypeInv'
  <2>1. request[c].job \in Jobs /\ request[c].saw \in JobStatus
    BY <1>4 DEF CommitRow, AllOps, RequestState
  <2>2. Assigns(request[c].op, request[c].saw) \in JobStatus
    BY <1>4, <2>1, Vocabulary DEF CommitRow, AllOps, Assigns
  <2>3. status' \in [Jobs -> JobStatus]
    BY <1>4, <2>1, <2>2 DEF CommitRow, Flush
  <2>4. owner' \in [Items -> Accounts \union {None}]
    <3> DEFINE moves == request[c].moves
    <3>1. moves \in UNION {[S -> Accounts] : S \in SUBSET Items}
      BY DEF RequestState
    <3> HIDE DEF moves
    <3>2. \A i \in DOMAIN moves : moves[i] \in Accounts
      BY <3>1
    <3>3. owner' = [i \in Items |-> IF i \in DOMAIN moves THEN moves[i] ELSE owner[i]]
      BY <1>4 DEF CommitRow, moves
    <3>4. QED
      BY <3>2, <3>3
  <2>5. runner' \in [Jobs -> Runs \union {None}]
    BY <1>4 DEF CommitRow
  <2>6. request' \in [Clients -> RequestState] /\ RequestsHold'
    BY <1>4, Records DEF CommitRow, Idle
  <2>7. QED
    BY <1>4, <2>3, <2>4, <2>5, <2>6 DEF CommitRow
<1>5. ASSUME NEW j \in Jobs, NEW r \in Runs, Launch(j, r)
      PROVE  TypeInv'
  BY <1>5, Vocabulary, Records DEF Launch, TaskState, FreeTask
<1>6. CASE MarkRunning
  BY <1>6, Vocabulary, Records DEF MarkRunning, TaskState
<1>7. CASE StartWorkers
  BY <1>7, Vocabulary, Records DEF StartWorkers, At, TaskState, WorkerState, Outcomes
<1>8. CASE Join
  BY <1>8, Vocabulary, Records DEF Join, TaskState
<1>9. CASE FinalRead
  <2>1. status[task.job] \in JobStatus
    BY <1>9 DEF FinalRead
  <2>2. QED
    BY <1>9, <2>1, Records DEF FinalRead, TaskState, FreeTask
<1>10. CASE FinalTally
  BY <1>10, Vocabulary, Records, ZenonT(60) DEF FinalTally, TaskState, Outcome
<1>11. CASE CloseCancelled
  <2>1. status' \in [Jobs -> JobStatus] /\ runner' \in [Jobs -> Runs \union {None}]
    BY <1>11, Vocabulary DEF CloseCancelled, CloseAs
  <2>2. count' \in [Jobs -> Counters]
    BY <1>11 DEF CloseCancelled, CloseAs, Counters
  <2>3. item' \in [Items -> ItemStatus] /\ token' \in [Items -> Workers \union {None}]
    BY <1>11, Vocabulary DEF CloseCancelled, CloseAs
  <2>4. task' \in TaskState /\ TaskHolds'
    BY <1>11, Records DEF CloseCancelled, CloseAs, FreeTask
  <2>5. QED
    BY <1>11, <2>1, <2>2, <2>3, <2>4 DEF CloseCancelled, CloseAs
<1>12. CASE CloseWorked
  BY <1>12, Vocabulary, Records DEF CloseWorked, TaskState, FreeTask, Flush
<1>13. ASSUME NEW w \in Workers, CheckState(w)
       PROVE  TypeInv'
  BY <1>13, Vocabulary, Records DEF CheckState, Step, At, Off, WorkerState
<1>14. ASSUME NEW w \in Workers, SelectItem(w)
       PROVE  TypeInv'
  <2>1. PICK i \in Items : worker' = [worker EXCEPT ![w] = [At("picked", i, "none") EXCEPT !.tries = attempts[i]]]
    BY <1>14, WorkerNames DEF SelectItem, Step
  <2>2. [At("picked", i, "none") EXCEPT !.tries = attempts[i]] \in WorkerState
    BY <2>1 DEF At, WorkerState, Outcomes
  <2>3. worker' \in [Workers -> WorkerState] /\ WorkersHold'
    BY <2>1, <2>2 DEF At
  <2>4. QED
    BY <1>14, <2>3 DEF SelectItem
<1>15. ASSUME NEW w \in Workers, CommitClaim(w)
       PROVE  TypeInv'
  <2>1. worker[w].item \in Items /\ worker[w].tries \in Nat
    BY <1>15 DEF CommitClaim, ClaimAs, WorkerState
  <2>2. /\ item' \in [Items -> ItemStatus]
        /\ token' \in [Items -> Workers \union {None}]
        /\ attempts' \in [Items -> Nat]
    BY <1>15, <2>1, Vocabulary DEF CommitClaim, ClaimAs
  <2>3. worker' \in [Workers -> WorkerState] /\ WorkersHold'
    BY <1>15, <2>1 DEF CommitClaim, ClaimAs, Step, At, WorkerState, Outcomes
  <2>4. QED
    BY <1>15, <2>2, <2>3 DEF CommitClaim, ClaimAs
<1>16. ASSUME NEW w \in Workers, NothingDue(w)
       PROVE  TypeInv'
  BY <1>16, Vocabulary, Records DEF NothingDue, Step, At, Off, WorkerState
<1>17. ASSUME NEW w \in Workers, Answer(w)
       PROVE  TypeInv'
  <2>1. worker[w].item \in Items
    BY <1>17 DEF Answer
  <2>2. PICK out \in SavedOutcomes : worker' = [worker EXCEPT ![w] = At("save", worker[w].item, out)]
    BY <1>17 DEF Answer, Step, SavedOutcomes, Outcomes
  <2>3. worker' \in [Workers -> WorkerState] /\ WorkersHold'
    BY <2>1, <2>2 DEF At, WorkerState, SavedOutcomes
  <2>4. QED
    BY <1>17, <2>3 DEF Answer
<1>18. ASSUME NEW w \in Workers, CheckToken(w)
       PROVE  TypeInv'
  <2>1. worker[w].item \in Items /\ worker[w].out \in SavedOutcomes
    BY <1>18 DEF CheckToken
  <2>2. attempts[worker[w].item] \in Nat /\ owner[worker[w].item] \in Accounts \union {None}
    BY <2>1
  <2>3. worker' \in [Workers -> WorkerState] /\ WorkersHold'
    BY <1>18, <2>1, <2>2, Records DEF CheckToken, Step, Saved, At, Off, WorkerState, SavedOutcomes
  <2>4. QED
    BY <1>18, <2>3 DEF CheckToken
<1>19. ASSUME NEW w \in Workers, Store(w)
       PROVE  TypeInv'
  <2> DEFINE i == worker[w].item
             result == Retried(worker[w].out, worker[w].tries)
  <2>1. i \in Items /\ result \in ItemStatus
    BY <1>19, Vocabulary DEF Store, StoreAs, Retried, SavedOutcomes
  <2>2. item' \in [Items -> ItemStatus] /\ token' \in [Items -> Workers \union {None}]
    BY <1>19, <2>1 DEF Store, StoreAs
  <2>3. count' \in [Jobs -> Counters]
    <3>1. \A n \in Counters : Counted(n, result) \in Counters
      BY CountedType
    <3>2. count' = count \/ count' = [count EXCEPT ![i[1]] = Counted(@, result)]
      BY <1>19 DEF Store, StoreAs
    <3>3. QED
      BY <3>1, <3>2
  <2>4. processed' \in [Seats -> Nat]
    <3> DEFINE s == <<i[1], worker[w].acct>>
    <3>1. processed' = processed \/ processed' = [processed EXCEPT ![s] = @ + 1]
      BY <1>19 DEF Store, StoreAs
    <3>2. processed \in [Seats -> Nat]
      OBVIOUS
    <3> HIDE DEF s
    <3>3. QED
      BY ONLY <3>1, <3>2
  <2>5. worker' \in [Workers -> WorkerState] /\ WorkersHold'
    BY <1>19, Records DEF Store, StoreAs, Step, Saved, At, Off, WorkerState
  <2>6. QED
    BY <1>19, <2>2, <2>3, <2>4, <2>5 DEF Store, StoreAs
<1>20. ASSUME NEW a \in Accounts, Disconnect(a) \/ Connect(a)
       PROVE  TypeInv'
  BY <1>20, UsedType DEF Disconnect, Connect
<1>21. CASE Crash
  BY <1>21, Records DEF Crash, Off, At, FreeTask, Idle
<1>22. CASE Stop
  <2>1. PICK dropped : worker' = [w \in Workers |-> Interrupted(w, dropped)]
    BY <1>22 DEF Stop
  <2>2. \A w \in Workers : worker'[w] \in {worker[w], Off} \/
          (worker[w].pc = "rpc" /\ worker'[w] = At("save", worker[w].item, "in_flight_unknown"))
    BY <2>1 DEF Interrupted
  <2>3. worker' \in [Workers -> WorkerState] /\ WorkersHold'
    BY <2>1, <2>2, Records DEF At, Off, WorkerState, Outcomes, SavedOutcomes
  <2>4. task' \in TaskState /\ TaskHolds' /\ request' \in [Clients -> RequestState] /\ RequestsHold'
    BY <1>22, Records DEF Stop, FreeTask, Idle
  <2>5. QED
    BY <1>22, <2>3, <2>4 DEF Stop
<1>23. CASE Exit
  BY <1>23, Records DEF Exit, Off, At
<1>24. CASE Restart
  <2>1. item' \in [Items -> ItemStatus]
    BY <1>24, Vocabulary DEF Restart, Recovered
  <2>2. status' \in [Jobs -> JobStatus]
    BY <1>24, Vocabulary DEF Restart
  <2>3. count' \in [Jobs -> Counters]
    BY <1>24 DEF Restart, Counters
  <2>4. QED
    BY <1>24, <2>1, <2>2, <2>3 DEF Restart
<1>25. ASSUME NEW w \in Workers, WorkerDies(w)
       PROVE  TypeInv'
  <2>1. task' \in TaskState /\ TaskHolds'
    BY <1>25 DEF WorkerDies, Awaited, TaskState
  <2>2. QED
    BY <1>25, <2>1, Records DEF WorkerDies, Step, Off, At
<1>26. CASE TaskDies
  BY <1>26, Records DEF TaskDies, FreeTask
<1>27. CASE UNCHANGED vars
  BY <1>27 DEF vars
<1>28. QED
  BY <1>1, <1>2, <1>3, <1>4, <1>5, <1>6, <1>7, <1>8, <1>9, <1>10, <1>11, <1>12,
     <1>13, <1>14, <1>15, <1>16, <1>17, <1>18, <1>19, <1>20, <1>21, <1>22, <1>23,
     <1>24, <1>25, <1>26, <1>27
     DEF Next, Client, JobTask, Worker, Process

\* Every variable holds what the code can store in it.
THEOREM TypeCorrect == Spec => []TypeOK
<1>1. Spec => []TypeInv
  BY InitType, NextType, PTL DEF Spec
<1>2. TypeInv => TypeOK
  BY DEF TypeInv
<1>3. QED
  BY <1>1, <1>2, PTL

-------------------------------------------------------------------------------
(***************************************************************************)
(* What holds whatever goes wrong: who creates what, and the accounts'     *)
(* counters.                                                               *)
(***************************************************************************)
Known == TypeInv /\ LedgerInv

\* The kinds of actor, and what each leaves alone.
LEMMA ClientAlone ==
  ASSUME NEW c \in Clients, Client(c), TypeInv
  PROVE  /\ UNCHANGED <<token, attempts, processed, online, mode, task, worker>>
         /\ CommitCreate(c) \/ UNCHANGED <<count, item>>
         /\ CommitCreate(c) \/ CommitRow(c) \/ UNCHANGED <<jobVars, owner>>
         /\ CommitCreate(c) \/ "rebalance" \in Ops \/ UNCHANGED owner
<1>1. CASE CommitRow(c)
  <2>1. ASSUME "rebalance" \notin Ops
        PROVE  UNCHANGED owner
    <3>1. request[c].moves = <<>>
      BY <1>1, <2>1 DEF TypeInv, RequestsHold, CommitRow, AllOps
    <3>2. owner' = [i \in Items |-> owner[i]]
      BY <1>1, <3>1 DEF CommitRow
    <3>3. QED
      BY <3>2 DEF TypeInv, TypeOK
  <2>2. QED
    BY <1>1, <2>1 DEF CommitRow
<1>2. CASE ~CommitRow(c)
  BY <1>2 DEF Client, BeginCreate, CommitCreate, ReadRow, jobVars, itemVars
<1>3. QED
  BY <1>1, <1>2

LEMMA TaskAlone ==
  ASSUME JobTask
  PROVE  UNCHANGED <<owner, attempts, processed, online, mode, request>>
BY DEF JobTask, Launch, MarkRunning, StartWorkers, Join, FinalRead, FinalTally,
       CloseCancelled, CloseAs, CloseWorked, jobVars, itemVars

LEMMA WorkerAlone ==
  ASSUME NEW w \in Workers, Worker(w), TypeInv
  PROVE  /\ worker[w].pc # "off"
         /\ \A v \in Workers \ {w} : worker'[v] = worker[v]
         /\ UNCHANGED <<status, runner, owner, online, mode, task, request>>
BY DEF Worker, CheckState, SelectItem, CommitClaim, ClaimAs, NothingDue, Answer,
       CheckToken, Store, StoreAs, Step, jobVars, itemVars, TypeInv, TypeOK

\* A created job stays created.
LEMMA StatusStays ==
  ASSUME Known, Next, NEW j \in Jobs, status'[j] = "absent"
  PROVE  status[j] = "absent"
<1>1. status \in [Jobs -> JobStatus] /\ TypeInv /\ TaskKnowsJob
  BY DEF Known, TypeInv, TypeOK, LedgerInv
<1>2. ASSUME NEW c \in Clients, Client(c)
      PROVE  status[j] = "absent"
  <2>1. CASE CommitRow(c)
    BY <1>1, <2>1 DEF CommitRow, Flush, Assigns, AllOps
  <2>2. QED
    BY <1>1, <1>2, <2>1, ClientAlone DEF CommitCreate, jobVars
<1>3. ASSUME JobTask
      PROVE  status[j] = "absent"
  <2>1. CASE CloseWorked
    BY <1>1, <2>1 DEF CloseWorked, TaskKnowsJob, Flush
  <2>2. QED
    BY <1>1, <1>3, <2>1
       DEF JobTask, Launch, MarkRunning, StartWorkers, Join, FinalRead, FinalTally,
           CloseCancelled, CloseAs, jobVars
<1>4. CASE Restart
  BY <1>1, <1>4 DEF Restart
<1>5. ASSUME NEW w \in Workers, Worker(w)
      PROVE  status[j] = "absent"
  BY <1>1, <1>5, WorkerAlone
<1>6. QED
  BY <1>2, <1>3, <1>4, <1>5
     DEF Next, Process, Disconnect, Connect, Crash, Stop, Exit, WorkerDies,
         TaskDies, jobVars

\* A job exists once its create request has committed.
LEMMA Created ==
  ASSUME Known, Next, NEW j \in Jobs, status[j] = "absent", status'[j] # "absent"
  PROVE  \E c \in Clients : CommitCreate(c) /\ request[c].job = j
<1>1. /\ status \in [Jobs -> JobStatus]
      /\ RequestsMatch /\ TaskKnowsJob /\ TypeInv
  BY DEF Known, TypeInv, TypeOK, LedgerInv
<1>2. ASSUME NEW c \in Clients, Client(c)
      PROVE  CommitCreate(c) /\ request[c].job = j
  <2>1. ~CommitRow(c)
    <3>1. ASSUME CommitRow(c)
          PROVE  status'[j] = "absent"
      <4>1. request[c].job # j
        BY <1>1, <3>1 DEF CommitRow, RequestsMatch
      <4>2. QED
        BY <1>1, <3>1, <4>1 DEF CommitRow
    <3>2. QED
      BY <3>1
  <2>2. CommitCreate(c)
    BY <1>1, <1>2, <2>1, ClientAlone DEF jobVars
  <2>3. QED
    BY <1>1, <2>2 DEF CommitCreate
<1>3. ~JobTask
  BY <1>1
     DEF JobTask, Launch, MarkRunning, StartWorkers, Join, FinalRead, FinalTally,
         CloseCancelled, CloseAs, CloseWorked, jobVars, TaskKnowsJob
<1>4. ~Restart
  BY <1>1 DEF Restart
<1>5. QED
  BY <1>1, <1>2, <1>3, <1>4, WorkerAlone
     DEF Next, Process, Disconnect, Connect, Crash, Stop, Exit, WorkerDies,
         TaskDies, jobVars

LEMMA RequestsMatchStep ==
  ASSUME Known, Next
  PROVE  RequestsMatch'
<1>1. /\ status \in [Jobs -> JobStatus]
      /\ request \in [Clients -> RequestState]
      /\ RequestsMatch /\ RequestsHold /\ TypeInv
  BY DEF Known, TypeInv, TypeOK, LedgerInv
<1>2. ASSUME NEW c \in Clients, NEW j \in Jobs, BeginCreate(c, j)
      PROVE  RequestsMatch'
  BY <1>1, <1>2 DEF BeginCreate, RequestsMatch, Idle, AllOps, jobVars
<1>3. ASSUME NEW c \in Clients, NEW j \in Jobs, NEW op \in Ops, ReadRow(c, j, op)
      PROVE  RequestsMatch'
  <2>1. op \in AllOps /\ "absent" \notin Accepts(op)
    BY <1>3, ConstantsAssumption DEF Accepts, AllOps, ActiveJob
  <2>2. status[j] # "absent"
    BY <1>3, <2>1 DEF ReadRow
  <2>3. request'[c].op = op /\ request'[c].job = j /\ \A d \in Clients \ {c} : request'[d] = request[d]
    BY <1>1, <1>3 DEF ReadRow
  <2>4. status' = status
    BY <1>3 DEF ReadRow, jobVars
  <2>5. QED
    BY <1>1, <2>1, <2>2, <2>3, <2>4 DEF RequestsMatch, AllOps
<1>4. ASSUME NEW c \in Clients, CommitCreate(c)
      PROVE  RequestsMatch'
  BY <1>1, <1>4 DEF CommitCreate, RequestsMatch, RequestsHold, Idle, AllOps
<1>5. ASSUME UNCHANGED request \/ \E c \in Clients : CommitRow(c),
             ~ \E c \in Clients : CommitCreate(c)
      PROVE  RequestsMatch'
  <2>1. \A d \in Clients : request'[d] \in {request[d], Idle}
    BY <1>1, <1>5 DEF CommitRow
  <2>2. \A d \in Clients : request'[d].op # "none" => request'[d] = request[d]
    BY <2>1 DEF Idle
  <2>3. \A j \in Jobs : (status[j] = "absent") <=> (status'[j] = "absent")
    BY <1>5, StatusStays, Created
  <2>4. \A d \in Clients : request[d].op # "none" =>
          (status[request[d].job] = "absent") <=> (status'[request[d].job] = "absent")
    BY <1>1, <2>3 DEF RequestsHold
  <2>5. QED
    BY <1>1, <2>1, <2>2, <2>4 DEF RequestsMatch, Idle, AllOps
<1>6. CASE Crash \/ Stop
  BY <1>6 DEF Crash, Stop, RequestsMatch, Idle, AllOps
<1>7. CASE \E c \in Clients : CommitCreate(c)
  BY <1>4, <1>7
<1>8. CASE ~ \E c \in Clients : CommitCreate(c)
  BY <1>1, <1>2, <1>3, <1>5, <1>6, <1>8, TaskAlone, WorkerAlone
     DEF Next, Client, Process, Disconnect, Connect, Exit, Restart, WorkerDies, TaskDies
<1>9. QED
  BY <1>7, <1>8

\* The items of a job.
LEMMA OfJob ==
  ASSUME NEW j \in Jobs
  PROVE  \A i : i \in ItemsOf(j) <=> i \in Items /\ i[1] = j
BY DEF ItemsOf, Items

\* Who changes an item's row, and of which job.
LEMMA ItemWriters ==
  ASSUME TypeInv, Next, NEW i \in Items, item'[i] # item[i]
  PROVE  \/ \E c \in Clients : CommitCreate(c) /\ request[c].job = i[1]
                               /\ item'[i] \in {"queued", "invalid"}
         \/ /\ CloseCancelled /\ task.job = i[1]
            /\ item[i] \notin TerminalItem /\ item'[i] = "cancelled"
         \/ \E w \in Workers : (CommitClaim(w) \/ Store(w)) /\ worker[w].item = i
         \/ Restart /\ item'[i] = Recovered(i)
<1>1. item \in [Items -> ItemStatus]
  BY DEF TypeInv, TypeOK
<1>2. ASSUME NEW c \in Clients, Client(c)
      PROVE  /\ CommitCreate(c) /\ request[c].job = i[1]
             /\ item'[i] \in {"queued", "invalid"}
  BY <1>1, <1>2, ClientAlone DEF CommitCreate, ItemsOf
<1>3. ASSUME JobTask
      PROVE  /\ CloseCancelled /\ task.job = i[1]
             /\ item[i] \notin TerminalItem /\ item'[i] = "cancelled"
  BY <1>1, <1>3
     DEF JobTask, Launch, MarkRunning, StartWorkers, Join, FinalRead, FinalTally,
         CloseCancelled, CloseAs, OpenItems, CloseWorked, itemVars, ItemsOf
<1>4. ASSUME NEW w \in Workers, Worker(w)
      PROVE  (CommitClaim(w) \/ Store(w)) /\ worker[w].item = i
  BY <1>1, <1>4
     DEF Worker, CheckState, SelectItem, CommitClaim, ClaimAs, NothingDue,
         Answer, CheckToken, Store, StoreAs, itemVars
<1>5. CASE Restart
  BY <1>1, <1>5 DEF Restart
<1>6. QED
  BY <1>1, <1>2, <1>3, <1>4, <1>5
     DEF Next, Process, Disconnect, Connect, Crash, Stop, Exit, WorkerDies,
         TaskDies, itemVars

\* What a worker stores: the answer, or that the retries have run out.
StoredOutcomes == {"found", "not_discoverable", "permanent_error",
                   "temporary_error", "rate_limited", "in_flight_unknown"}

LEMMA StoredType ==
  ASSUME TypeInv, NEW w \in Workers, Store(w)
  PROVE  Retried(worker[w].out, worker[w].tries) \in StoredOutcomes
BY DEF TypeInv, WorkersHold, SavedOutcomes, Outcomes, Store, StoreAs, Retried,
       StoredOutcomes

\* The item a worker claims or saves, and what it writes there.
LEMMA WorkerWrites ==
  ASSUME Known, NEW w \in Workers, CommitClaim(w) \/ Store(w)
  PROVE  /\ worker[w].item \in ItemsOf(w[1]) /\ worker[w].item \in Items
         /\ item[worker[w].item] # "absent"
         /\ CommitClaim(w) => item'[worker[w].item] = "processing"
         /\ Store(w) => /\ item'[worker[w].item] = Retried(worker[w].out, worker[w].tries)
                        /\ item'[worker[w].item] \in StoredOutcomes
         /\ \A i \in Items \ {worker[w].item} : item'[i] = item[i]
<1>1. /\ item \in [Items -> ItemStatus]
      /\ WorkersKnow /\ TypeInv /\ w[1] \in Jobs
  BY WorkerNames DEF Known, LedgerInv, TypeInv, TypeOK
<1>2. worker[w].pc \in Holding \union {"picked"}
  BY DEF CommitClaim, ClaimAs, Store, StoreAs, Holding
<1>3. /\ worker[w].item \in ItemsOf(w[1]) /\ worker[w].item \in Items
      /\ item[worker[w].item] # "absent"
  BY <1>1, <1>2, OfJob DEF WorkersKnow
<1>4. /\ CommitClaim(w) => item'[worker[w].item] = "processing"
      /\ Store(w) => item'[worker[w].item] = Retried(worker[w].out, worker[w].tries)
      /\ \A i \in Items \ {worker[w].item} : item'[i] = item[i]
  BY <1>1, <1>3 DEF CommitClaim, ClaimAs, Store, StoreAs
<1>5. QED
  BY <1>1, <1>3, <1>4, StoredType

\* A number is created with its job, and never forgotten.
LEMMA ItemCreated ==
  ASSUME Known, Next, NEW i \in Items, item'[i] # item[i]
  PROVE  /\ item'[i] # "absent"
         /\ item[i] = "absent" => /\ item'[i] \in {"queued", "invalid"}
                                  /\ \E c \in Clients : /\ CommitCreate(c)
                                                        /\ request[c].job = i[1]
<1>1. /\ i[1] \in Jobs /\ TypeInv
      /\ RowsTogether /\ TaskKnowsJob
  BY DEF Known, LedgerInv, Items
<1>2. CASE CloseCancelled /\ task.job = i[1] /\ item'[i] = "cancelled"
  <2>1. item[i] # "absent"
    BY <1>1, <1>2 DEF CloseCancelled, CloseAs, TaskKnowsJob, RowsTogether
  <2>2. QED
    BY <1>2, <2>1
<1>3. ASSUME NEW w \in Workers, CommitClaim(w) \/ Store(w), worker[w].item = i
      PROVE  item'[i] # "absent" /\ item[i] # "absent"
  BY <1>3, WorkerWrites DEF StoredOutcomes
<1>4. CASE Restart /\ item'[i] = Recovered(i)
  <2>1. item[i] = "absent" => Recovered(i) = "absent"
    BY <1>1 DEF RowsTogether, Recovered
  <2>2. item[i] # "absent" => Recovered(i) # "absent"
    BY DEF Recovered
  <2>3. QED
    BY <1>4, <2>1, <2>2
<1>5. QED
  BY <1>1, <1>2, <1>3, <1>4, ItemWriters

\* A job's row and its items are created together.
LEMMA RowsTogetherStep ==
  ASSUME Known, Next
  PROVE  RowsTogether'
<1> SUFFICES ASSUME NEW i \in Items
             PROVE  (status'[i[1]] = "absent") <=> (item'[i] = "absent")
  BY DEF RowsTogether
<1>1. /\ status \in [Jobs -> JobStatus]
      /\ item \in [Items -> ItemStatus]
      /\ i[1] \in Jobs
      /\ (status[i[1]] = "absent") <=> (item[i] = "absent")
  BY DEF Known, TypeInv, TypeOK, LedgerInv, RowsTogether, Items
<1>2. CASE \E c \in Clients : CommitCreate(c) /\ request[c].job = i[1]
  <2>1. PICK c \in Clients : CommitCreate(c) /\ request[c].job = i[1]
    BY <1>2
  <2>2. i \in ItemsOf(request[c].job)
    BY <1>1, <2>1, OfJob
  <2>3. QED
    BY <1>1, <2>1, <2>2 DEF CommitCreate
<1>3. CASE ~ \E c \in Clients : CommitCreate(c) /\ request[c].job = i[1]
  <2>1. (item'[i] = "absent") <=> (item[i] = "absent")
    BY <1>3, ItemCreated
  <2>2. (status'[i[1]] = "absent") <=> (status[i[1]] = "absent")
    BY <1>1, <1>3, StatusStays, Created
  <2>3. QED
    BY <1>1, <2>1, <2>2
<1>4. QED
  BY <1>2, <1>3

\* The task goes on with the job it was given, and stores what it read.
LEMMA TaskKnowsJobStep ==
  ASSUME Known, Next
  PROVE  TaskKnowsJob'
<1>1. /\ task \in TaskState /\ TaskHolds /\ TypeInv
      /\ status \in [Jobs -> JobStatus]
      /\ TaskKnowsJob
  BY DEF Known, TypeInv, TypeOK, LedgerInv
<1>2. CASE task' = FreeTask
  BY <1>2 DEF TaskKnowsJob, FreeTask
<1>3. ASSUME task.pc # "free", task'.job = task.job,
             task'.pc = "close" => task'.new # "absent"
      PROVE  TaskKnowsJob'
  BY <1>1, <1>3, StatusStays DEF TaskKnowsJob, TaskHolds
<1>4. ASSUME NEW j \in Jobs, NEW r \in Runs, Launch(j, r)
      PROVE  TaskKnowsJob'
  BY <1>1, <1>4 DEF Launch, FreeTask, TaskKnowsJob, jobVars
<1>5. CASE FinalRead
  <2>1. task.pc # "free" /\ status[task.job] # "absent"
    BY <1>1, <1>5 DEF FinalRead, TaskKnowsJob
  <2>2. task' = FreeTask \/ (task'.job = task.job /\ task'.new = status[task.job])
    BY <1>1, <1>5 DEF FinalRead, TaskState
  <2>3. QED
    BY <1>2, <1>3, <2>1, <2>2
<1>6. CASE FinalTally
  <2>1. task'.job = task.job /\ task'.new = Outcome({item[i] : i \in ItemsOf(task.job)})
    BY <1>1, <1>6 DEF FinalTally, TaskState
  <2>2. task'.new # "absent"
    BY <2>1 DEF Outcome
  <2>3. QED
    BY <1>3, <1>6, <2>1, <2>2 DEF FinalTally
<1>7. CASE MarkRunning \/ StartWorkers \/ Join
  <2>1. task.pc # "free" /\ task'.job = task.job /\ task'.pc # "close"
    BY <1>1, <1>7 DEF MarkRunning, StartWorkers, Join, TaskState
  <2>2. QED
    BY <1>3, <2>1
<1>8. CASE UNCHANGED task
  <2>1. CASE task.pc = "free"
    BY <1>8, <2>1 DEF TaskKnowsJob
  <2>2. CASE task.pc # "free"
    BY <1>1, <1>3, <1>8, <2>2 DEF TaskKnowsJob
  <2>3. QED
    BY <2>1, <2>2
<1>9. ASSUME NEW w \in Workers, WorkerDies(w)
      PROVE  TaskKnowsJob'
  <2>1. CASE Awaited(w)
    <3>1. task.pc # "free" /\ task'.job = task.job /\ task'.pc # "close"
      BY <1>1, <1>9, <2>1 DEF WorkerDies, Awaited, TaskState
    <3>2. QED
      BY <1>3, <3>1
  <2>2. CASE ~Awaited(w)
    BY <1>8, <1>9, <2>2 DEF WorkerDies
  <2>3. QED
    BY <2>1, <2>2
<1>10. CASE JobTask
  BY <1>2, <1>4, <1>5, <1>6, <1>7, <1>10
     DEF JobTask, CloseCancelled, CloseAs, CloseWorked
<1>11. QED
  BY <1>1, <1>2, <1>8, <1>9, <1>10, ClientAlone, WorkerAlone
     DEF Next, Process, Disconnect, Connect, Crash, Stop, Exit, Restart, TaskDies

\* An item is dealt and moved to accounts only.
LEMMA OwnersStay ==
  ASSUME TypeInv, Next, NEW i \in Items, owner[i] \in Accounts
  PROVE  owner'[i] \in Accounts
<1>1. owner \in [Items -> Accounts \union {None}] /\ RequestsHold
  BY DEF TypeInv, TypeOK
<1>2. ASSUME NEW c \in Clients, CommitCreate(c)
      PROVE  owner'[i] \in Accounts
  <2> DEFINE dealt == Deal({request[c].job} \X Valid, Used)
  <2>1. request[c].job \in Jobs
    BY <1>1, <1>2 DEF CommitCreate, RequestsHold
  <2>2. dealt \in [{request[c].job} \X Valid -> Accounts]
    BY <2>1, DealtType
  <2>3. owner'[i] = IF i \in DOMAIN dealt THEN dealt[i] ELSE owner[i]
    BY <1>2 DEF CommitCreate
  <2> HIDE DEF dealt
  <2>4. QED
    BY <2>2, <2>3
<1>3. ASSUME NEW c \in Clients, CommitRow(c)
      PROVE  owner'[i] \in Accounts
  <2> DEFINE moves == request[c].moves
  <2>1. moves \in UNION {[S -> Accounts] : S \in SUBSET Items}
    BY DEF TypeInv, TypeOK, RequestState
  <2>2. owner'[i] = IF i \in DOMAIN moves THEN moves[i] ELSE owner[i]
    BY <1>3 DEF CommitRow
  <2> HIDE DEF moves
  <2>3. QED
    BY <2>1, <2>2
<1>4. QED
  BY <1>2, <1>3, ClientAlone, TaskAlone, WorkerAlone
     DEF Next, Process, Disconnect, Connect, Crash, Stop, Exit, Restart, WorkerDies,
         TaskDies, itemVars

\* What a worker has in hand it had before, or selected from its share.
LEMMA WorkersKnowStep ==
  ASSUME Known, Next
  PROVE  WorkersKnow'
<1> DEFINE Knows(w, state) ==
      /\ state.pc \in Holding \union {"picked"} =>
           /\ state.item \in ItemsOf(w[1])
           /\ item[state.item] # "absent" /\ owner[state.item] \in Accounts
      /\ state.pc = "store" => state.acct \in Accounts
<1>1. /\ worker \in [Workers -> WorkerState]
      /\ item \in [Items -> ItemStatus]
      /\ owner \in [Items -> Accounts \union {None}]
      /\ TypeInv /\ WorkersKnow
      /\ \A w \in Workers : w[1] \in Jobs /\ w[2] \in Accounts
      /\ \A w \in Workers : Knows(w, worker[w])
  BY WorkerNames DEF Known, TypeInv, TypeOK, LedgerInv, WorkersKnow, Holding
<1>2. ASSUME NEW w \in Workers, Knows(w, worker'[w])
      PROVE  /\ worker'[w].pc \in Holding \union {"picked"} =>
                  /\ worker'[w].item \in ItemsOf(w[1])
                  /\ item'[worker'[w].item] # "absent"
                  /\ owner'[worker'[w].item] \in Accounts
             /\ worker'[w].pc = "store" => worker'[w].acct \in Accounts
  <2>1. ASSUME worker'[w].pc \in Holding \union {"picked"}
        PROVE  /\ item'[worker'[w].item] # "absent"
               /\ owner'[worker'[w].item] \in Accounts
    <3>1. worker'[w].item \in Items
      BY <1>1, <1>2, <2>1, OfJob
    <3>2. QED
      BY <1>1, <1>2, <2>1, <3>1, ItemCreated, OwnersStay
  <2>2. QED
    BY <1>2, <2>1
<1> SUFFICES ASSUME NEW v \in Workers
             PROVE  Knows(v, worker'[v])
  BY <1>2 DEF WorkersKnow, ItemsOf, Holding
<1>3. CASE worker'[v] = worker[v]
  BY <1>1, <1>3
<1>4. CASE worker'[v].pc \in {"off", "check", "claim"}
  BY <1>4 DEF Holding
<1>5. CASE Worker(v)
  <2>1. CASE CheckState(v) \/ NothingDue(v)
    BY <1>1, <1>4, <2>1 DEF CheckState, NothingDue, Step, Off, At
  <2>2. CASE SelectItem(v)
    <3>1. PICK i \in ShareOf(v[1], v[2]) :
            item[i] \in RunnableItem /\ worker'[v] = [At("picked", i, "none") EXCEPT !.tries = attempts[i]]
      BY <1>1, <2>2 DEF SelectItem, Step
    <3>2. i \in ItemsOf(v[1]) /\ owner[i] \in Accounts /\ item[i] # "absent"
      BY <1>1, <3>1 DEF ShareOf, RunnableItem
    <3>3. QED
      BY <3>1, <3>2 DEF At
  <2>3. CASE CommitClaim(v) \/ Answer(v)
    BY <1>1, <2>3 DEF CommitClaim, ClaimAs, Answer, Step, At, Holding
  <2>4. CASE CheckToken(v)
    BY <1>1, <2>4 DEF CheckToken, Saved, Step, Off, At, Holding, WorkerState
  <2>5. CASE Store(v)
    BY <1>1, <1>4, <2>5 DEF Store, StoreAs, Saved, Step, Off, At
  <2>6. QED
    BY <1>5, <2>1, <2>2, <2>3, <2>4, <2>5 DEF Worker
<1>6. CASE StartWorkers
  BY <1>1, <1>3, <1>4, <1>6 DEF StartWorkers, At
<1>7. CASE Stop
  <2>1. worker'[v] \in {worker[v], Off} \/
          (worker[v].pc = "rpc" /\ worker'[v] = At("save", worker[v].item, "in_flight_unknown"))
    BY <1>7 DEF Stop, Interrupted
  <2>2. QED
    BY <1>1, <2>1 DEF Off, At, Holding
<1>8. CASE Crash \/ Exit
  BY <1>4, <1>8 DEF Crash, Exit, Off, At
<1>9. ASSUME NEW w \in Workers, WorkerDies(w)
      PROVE  Knows(v, worker'[v])
  BY <1>1, <1>3, <1>4, <1>9 DEF WorkerDies, Step, Off, At
<1>10. ASSUME NEW w \in Workers, Worker(w), w # v
       PROVE  worker'[v] = worker[v]
  BY <1>1, <1>10, WorkerAlone
<1>11. QED
  BY <1>1, <1>3, <1>5, <1>6, <1>7, <1>8, <1>9, <1>10, ClientAlone
     DEF Next, JobTask, Launch, MarkRunning, Join, FinalRead, FinalTally,
         CloseCancelled, CloseAs, CloseWorked, Process, Disconnect, Connect,
         Restart, TaskDies

\* What is charged to the accounts of a job can be counted, and counts one more
\* after each charge.
LEMMA ChargedFinite ==
  ASSUME TypeInv, NEW j \in Jobs
  PROVE  IsFiniteSet(Charged(j))
<1> DEFINE part == [a \in Accounts |-> {a} \X (1 .. processed[j, a])]
           parts == {{a} \X (1 .. processed[j, a]) : a \in Accounts}
<1>1. IsFiniteSet(parts)
  <2>1. part \in Surjection(Accounts, parts)
    BY DEF Surjection
  <2>2. QED
    BY <2>1, UsedType, FS_Surjection
<1>2. ASSUME NEW a \in Accounts
      PROVE  IsFiniteSet({a} \X (1 .. processed[j, a]))
  <2>1. processed[j, a] \in Nat
    BY DEF TypeInv, TypeOK, Seats
  <2>2. IsFiniteSet({a}) /\ IsFiniteSet(1 .. processed[j, a])
    <3>1. \A n \in Nat : IsFiniteSet(1 .. n)
      BY FS_Interval
    <3>2. QED
      BY <2>1, <3>1, FS_Singleton
  <2>3. QED
    BY <2>2, FS_Product
<1>3. \A T \in parts : IsFiniteSet(T)
  BY <1>2
<1>4. QED
  BY <1>1, <1>3, FS_UNION DEF Charged

LEMMA ChargedSame ==
  ASSUME NEW j, \A a \in Accounts : processed'[j, a] = processed[j, a]
  PROVE  Charged(j)' = Charged(j)
BY DEF Charged

LEMMA ChargedMore ==
  ASSUME TypeInv, NEW j \in Jobs, NEW a \in Accounts,
         processed' = [processed EXCEPT ![<<j, a>>] = @ + 1]
  PROVE  Cardinality(Charged(j)') = Cardinality(Charged(j)) + 1
<1> DEFINE n == processed[j, a]
           x == <<a, n + 1>>
<1>1. /\ processed \in [Seats -> Nat]
      /\ \A b \in Accounts : <<j, b>> \in Seats /\ processed[j, b] \in Nat
  BY DEF TypeInv, TypeOK, Seats
<1>2. /\ processed'[j, a] = n + 1
      /\ \A b \in Accounts : b # a => processed'[j, b] = processed[j, b]
  BY <1>1
<1>3. /\ \A y : y \in Charged(j) <=>
             \E b \in Accounts : y \in {b} \X (1 .. processed[j, b])
      /\ \A y : y \in Charged(j)' <=>
             \E b \in Accounts : y \in {b} \X (1 .. processed'[j, b])
  BY DEF Charged
<1>4. n \in Nat
  BY <1>1
<1> HIDE DEF n
<1>5. x \notin Charged(j)
  <2>1. ASSUME NEW b \in Accounts, x \in {b} \X (1 .. processed[j, b])
        PROVE  FALSE
    <3>1. b = a /\ n + 1 \in 1 .. processed[j, b]
      BY <2>1
    <3>2. n + 1 \in 1 .. n
      BY <3>1 DEF n
    <3>3. QED
      BY <1>4, <3>2
  <2>2. QED
    BY <1>3, <2>1
<1>6. ASSUME NEW y
      PROVE  y \in Charged(j)' <=> y \in Charged(j) \union {x}
  <2>1. ASSUME NEW b \in Accounts, b # a
        PROVE  y \in {b} \X (1 .. processed'[j, b]) <=> y \in {b} \X (1 .. processed[j, b])
    BY <1>2, <2>1
  <2>2. y \in {a} \X (1 .. n + 1) <=> y \in {a} \X (1 .. n) \/ y = x
    <3>1. \A m : m \in 1 .. n + 1 <=> m \in 1 .. n \/ m = n + 1
      BY <1>4
    <3>2. QED
      BY <3>1
  <2>3. y \in {a} \X (1 .. processed'[j, a]) <=> y \in {a} \X (1 .. processed[j, a]) \/ y = x
    BY <1>2, <2>2 DEF n
  <2> HIDE DEF x
  <2>4. QED
    BY <1>3, <2>1, <2>3
<1>7. Charged(j)' = Charged(j) \union {x}
  BY <1>6
<1>8. QED
  BY <1>5, <1>7, ChargedFinite, FS_AddElement

LEMMA NothingChargedStep ==
  ASSUME Known, Next
  PROVE  NothingCharged'
<1> SUFFICES ASSUME NEW j \in Jobs, status'[j] = "absent", NEW a \in Accounts
             PROVE  processed'[j, a] = 0
  BY DEF NothingCharged
<1>1. processed[j, a] = 0
  BY StatusStays DEF Known, LedgerInv, NothingCharged
<1>2. /\ TypeInv /\ RowsTogether
      /\ processed \in [Seats -> Nat] /\ <<j, a>> \in Seats
      /\ status[j] = "absent"
  BY StatusStays DEF Known, TypeInv, TypeOK, LedgerInv, Seats
<1>3. ASSUME NEW w \in Workers, Store(w)
      PROVE  processed'[j, a] = 0
  <2> DEFINE k == worker[w].item
  <2>1. k \in Items /\ item[k] # "absent"
    BY <1>3, WorkerWrites
  <2>2. k[1] # j
    BY <1>2, <2>1 DEF RowsTogether
  <2>3. \/ processed' = processed
        \/ processed' = [processed EXCEPT ![<<k[1], worker[w].acct>>] = @ + 1]
    BY <1>3 DEF Store, StoreAs
  <2> HIDE DEF k
  <2>4. QED
    BY <1>1, <1>2, <2>2, <2>3
<1>4. CASE UNCHANGED processed
  BY <1>1, <1>4
<1>5. QED
  BY <1>2, <1>3, <1>4, ClientAlone, TaskAlone
     DEF Next, Worker, CheckState, SelectItem, CommitClaim, ClaimAs, NothingDue, Answer,
         CheckToken, Process, Disconnect, Connect, Crash, Stop, Exit, Restart,
         WorkerDies, TaskDies

\* The results a job has counted.
Results(n) == n.success + n.failed + n.skipped

\* Only a worker's save and the creation of the job change them.
LEMMA ResultsStay ==
  ASSUME Known, Next, NEW j \in Jobs, status[j] # "absent",
         ~ \E w \in Workers : Store(w)
  PROVE  Results(count'[j]) = Results(count[j]) /\ UNCHANGED processed
<1>1. /\ count \in [Jobs -> Counters]
      /\ TypeInv /\ RequestsMatch
  BY DEF Known, TypeInv, TypeOK, LedgerInv
<1>2. ASSUME count'[j] = count[j]
      PROVE  Results(count'[j]) = Results(count[j])
  BY <1>2
<1>3. ASSUME count'[j] = [count[j] EXCEPT !.pending = 0]
      PROVE  Results(count'[j]) = Results(count[j])
  <2>1. \A n \in Counters : Results([n EXCEPT !.pending = 0]) = Results(n)
    BY DEF Results, Counters
  <2>2. QED
    BY <1>1, <1>3, <2>1
<1>4. ASSUME NEW c \in Clients, Client(c)
      PROVE  count'[j] = count[j]
  <2>1. CASE CommitCreate(c)
    BY <1>1, <2>1 DEF CommitCreate, RequestsMatch
  <2>2. QED
    BY <1>1, <1>4, <2>1, ClientAlone
<1>5. ASSUME JobTask
      PROVE  count'[j] = count[j] \/ count'[j] = [count[j] EXCEPT !.pending = 0]
  BY <1>1, <1>5
     DEF JobTask, Launch, MarkRunning, StartWorkers, Join, FinalRead, FinalTally,
         CloseCancelled, CloseAs, CloseWorked, jobVars
<1>6. ASSUME Restart
      PROVE  count'[j] = count[j] \/ count'[j] = [count[j] EXCEPT !.pending = 0]
  BY <1>6 DEF Restart
<1>7. ASSUME NEW w \in Workers, Worker(w)
      PROVE  UNCHANGED <<count, processed>>
  BY <1>7
     DEF Worker, CheckState, SelectItem, CommitClaim, ClaimAs, NothingDue, Answer,
         CheckToken, jobVars
<1>8. count'[j] = count[j] \/ count'[j] = [count[j] EXCEPT !.pending = 0]
  BY <1>4, <1>5, <1>6, <1>7
     DEF Next, Process, Disconnect, Connect, Crash, Stop, Exit, Restart,
         WorkerDies, TaskDies, jobVars
<1>9. UNCHANGED processed
  BY <1>1, <1>7, ClientAlone, TaskAlone
     DEF Next, Process, Disconnect, Connect, Crash, Stop, Exit, Restart,
         WorkerDies, TaskDies
<1>10. QED
  BY <1>2, <1>3, <1>8, <1>9

\* A save counts a final result once for the job and once for an account.
LEMMA ResultsStored ==
  ASSUME Known, NEW j \in Jobs, NEW w \in Workers, Store(w)
  PROVE  \/ Results(count'[j]) = Results(count[j]) /\ Charged(j)' = Charged(j)
         \/ /\ Results(count'[j]) = Results(count[j]) + 1
            /\ Cardinality(Charged(j)') = Cardinality(Charged(j)) + 1
<1> DEFINE r == Retried(worker[w].out, worker[w].tries)
           a == worker[w].acct
<1>1. /\ count \in [Jobs -> Counters] /\ processed \in [Seats -> Nat]
      /\ \A b \in Accounts : <<j, b>> \in Seats
      /\ TypeInv /\ w[1] \in Jobs
      /\ WorkersKnow
  BY WorkerNames DEF Known, TypeInv, TypeOK, LedgerInv, Seats
<1>2. worker[w].item[1] = w[1] /\ a \in Accounts /\ r \in StoredOutcomes
  <2>1. a \in Accounts
    BY <1>1 DEF WorkersKnow, Store, StoreAs
  <2>2. worker[w].item[1] = w[1]
    BY <1>1, WorkerWrites, OfJob
  <2>3. QED
    BY <1>1, <2>1, <2>2, StoredType
<1>3. /\ count' = IF r \in TerminalItem
                  THEN [count EXCEPT ![w[1]] = Counted(@, r)] ELSE count
      /\ processed' = IF r \in TerminalItem
                      THEN [processed EXCEPT ![<<w[1], a>>] = @ + 1] ELSE processed
  BY <1>2 DEF Store, StoreAs
<1> HIDE DEF r, a
<1>4. CASE r \notin TerminalItem
  BY <1>3, <1>4, ChargedSame
<1>5. CASE r \in TerminalItem /\ w[1] # j
  <2>1. count'[j] = count[j]
    BY <1>1, <1>3, <1>5
  <2>2. \A b \in Accounts : processed'[j, b] = processed[j, b]
    BY <1>1, <1>3, <1>5
  <2>3. QED
    BY <2>1, <2>2, ChargedSame
<1>6. CASE r \in TerminalItem /\ w[1] = j
  <2>1. count'[j] = Counted(count[j], r) /\ count[j] \in Counters
    BY <1>1, <1>3, <1>6
  <2>2. r \in {"found", "not_discoverable", "permanent_error"}
    BY <1>2, <1>6 DEF StoredOutcomes, TerminalItem
  <2>3. Results(Counted(count[j], r)) = Results(count[j]) + 1
    BY <2>1, <2>2 DEF Results, Counted, Counters
  <2>4. processed' = [processed EXCEPT ![<<j, a>>] = @ + 1]
    BY <1>3, <1>6
  <2>5. Cardinality(Charged(j)') = Cardinality(Charged(j)) + 1
    BY <1>1, <1>2, <2>4, ChargedMore
  <2>6. QED
    BY <2>1, <2>3, <2>5
<1>7. QED
  BY <1>4, <1>5, <1>6

\* The accounts' counters follow the job's.
LEMMA AccountsAddUpStep ==
  ASSUME Known, Next
  PROVE  AccountsAddUp'
<1> SUFFICES ASSUME NEW j \in Jobs, status'[j] # "absent"
             PROVE  Cardinality(Charged(j)') + Cardinality(Invalid) = Results(count'[j])
  BY DEF AccountsAddUp, Results
<1>1. /\ TypeInv /\ AccountsAddUp /\ NothingCharged
      /\ count \in [Jobs -> Counters]
      /\ Cardinality(Charged(j)) \in Nat /\ Cardinality(Invalid) \in Nat
      /\ Results(count[j]) \in Nat
  <2>1. count[j] \in Counters
    BY DEF Known, TypeInv, TypeOK
  <2>2. Results(count[j]) \in Nat
    BY <2>1 DEF Counters, Results
  <2>3. QED
    BY <2>2, ChargedFinite, Finite, FS_CardinalityType DEF Known, TypeInv, TypeOK, LedgerInv
<1>2. CASE status[j] = "absent"
  <2>1. PICK c \in Clients : CommitCreate(c) /\ request[c].job = j
    BY <1>2, Created
  <2>2. \A a \in Accounts : processed'[j, a] = 0
    BY <1>1, <1>2, <2>1 DEF CommitCreate, NothingCharged
  <2>3. Charged(j)' = {}
    <3>1. 1 .. 0 = {}
      OBVIOUS
    <3>2. \A a \in Accounts : {a} \X (1 .. processed'[j, a]) = {}
      BY <2>2, <3>1
    <3>3. QED
      BY <3>2 DEF Charged
  <2>4. count'[j] = [NoCount EXCEPT !.skipped = Cardinality(Invalid),
                                    !.pending = Cardinality(Valid)]
    BY <1>1, <2>1 DEF CommitCreate
  <2>5. Results(count'[j]) = Cardinality(Invalid)
    BY <1>1, <2>4 DEF Results, NoCount
  <2>6. QED
    BY <1>1, <2>3, <2>5, FS_EmptySet
<1>3. CASE status[j] # "absent"
  <2>1. Cardinality(Charged(j)) + Cardinality(Invalid) = Results(count[j])
    BY <1>1, <1>3 DEF AccountsAddUp, Results
  <2>2. ASSUME NEW w \in Workers, Store(w)
        PROVE  Cardinality(Charged(j)') + Cardinality(Invalid) = Results(count'[j])
    BY <1>1, <2>1, <2>2, ResultsStored
  <2>3. CASE ~ \E w \in Workers : Store(w)
    <3>1. Results(count'[j]) = Results(count[j]) /\ UNCHANGED processed
      BY <1>3, <2>3, ResultsStay
    <3>2. Charged(j)' = Charged(j)
      BY <3>1, ChargedSame
    <3>3. QED
      BY <2>1, <3>1, <3>2
  <2>4. QED
    BY <2>2, <2>3
<1>4. QED
  BY <1>2, <1>3

LEMMA InitKnown == Init => Known
<1> SUFFICES ASSUME Init
             PROVE  LedgerInv
  BY InitType DEF Known
<1>1. RequestsMatch /\ TaskKnowsJob
  BY DEF Init, RequestsMatch, TaskKnowsJob, Idle, AllOps, FreeTask
<1>2. RowsTogether /\ WorkersKnow
  BY DEF Init, RowsTogether, Items, WorkersKnow, Off, At, Holding
<1>3. NothingCharged /\ AccountsAddUp
  BY DEF Init, NothingCharged, AccountsAddUp, Seats
<1>4. QED
  BY <1>1, <1>2, <1>3 DEF LedgerInv

LEMMA NextKnown == Known /\ [Next]_vars => Known'
<1>1. ASSUME Known, Next
      PROVE  Known'
  BY <1>1, NextType, RequestsMatchStep, TaskKnowsJobStep, RowsTogetherStep,
     WorkersKnowStep, NothingChargedStep, AccountsAddUpStep DEF Known, LedgerInv
<1>2. ASSUME Known, UNCHANGED vars
      PROVE  Known'
  <2>1. TypeInv'
    BY <1>2, NextType DEF Known
  <2>2. UNCHANGED <<status, count, item, owner, processed, task, worker, request>>
    BY <1>2 DEF vars, jobVars, itemVars
  <2>3. /\ RequestsMatch' = RequestsMatch /\ TaskKnowsJob' = TaskKnowsJob
        /\ RowsTogether' = RowsTogether /\ WorkersKnow' = WorkersKnow
    BY <2>2 DEF RequestsMatch, TaskKnowsJob, RowsTogether, WorkersKnow, ItemsOf
  <2>4. NothingCharged' = NothingCharged /\ AccountsAddUp' = AccountsAddUp
    BY <2>2 DEF NothingCharged, AccountsAddUp, Charged
  <2>5. QED
    BY <1>2, <2>1, <2>3, <2>4 DEF Known, LedgerInv
<1>3. QED
  BY <1>1, <1>2

\* Whatever fails and whatever users ask for, no request, worker or recovery
\* makes the accounts' counters drift from the job's.
THEOREM Ledger == Spec => []LedgerInv
<1>1. Init => Known
  BY InitKnown
<1>2. Known => LedgerInv
  BY DEF Known
<1>3. QED
  BY <1>1, <1>2, NextKnown, PTL DEF Spec

\* Every final result of a job is charged to one of its accounts, once.
THEOREM AccountsExact == Spec => []AccountsAddUp
<1>1. LedgerInv => AccountsAddUp
  BY DEF LedgerInv
<1>2. QED
  BY <1>1, Ledger, PTL

-------------------------------------------------------------------------------
(***************************************************************************)
(* What holds while no database error ends a worker that its task waits    *)
(* for: claims and completion, also while items are moved.                 *)
(***************************************************************************)
Context == "db" \notin Faults /\ TypeInv /\ MovingInv

LEMMA ContextKnown == Context => Known
BY DEF Context, MovingInv, Known

\* A job's completion is its finalizer's, with the outcome it read.
LEMMA CompletedWriters ==
  ASSUME Context, Next, NEW j \in Jobs,
         status'[j] \in Completed, status'[j] # status[j]
  PROVE  CloseWorked /\ task.job = j /\ task.saw # "paused" /\ status'[j] = task.new
<1>1. /\ status \in [Jobs -> JobStatus]
      /\ FinalizerKnows /\ "db" \notin Faults
      /\ TypeInv
  BY DEF Context, TypeInv, TypeOK, MovingInv
<1>2. ASSUME NEW c \in Clients, Client(c)
      PROVE  FALSE
  <2>1. CASE CommitRow(c)
    BY <1>1, <2>1 DEF CommitRow, Flush, Assigns, AllOps, Completed
  <2>2. QED
    BY <1>1, <1>2, <2>1, ClientAlone DEF CommitCreate, jobVars, Completed
<1>3. ASSUME JobTask
      PROVE  CloseWorked /\ task.job = j /\ task.saw # "paused" /\ status'[j] = task.new
  <2>1. CASE CloseWorked
    <3>1. task.saw = "paused" => task.new = "paused"
      BY <1>1, <2>1 DEF CloseWorked, FinalizerKnows
    <3>2. QED
      BY <1>1, <2>1, <3>1 DEF CloseWorked, Flush, Completed
  <2>2. QED
    BY <1>1, <1>3, <2>1
       DEF JobTask, Launch, MarkRunning, StartWorkers, Join, FinalRead, FinalTally,
           CloseCancelled, CloseAs, jobVars, Completed
<1>4. ASSUME NEW w \in Workers, Worker(w)
      PROVE  FALSE
  BY <1>1, <1>4, WorkerAlone
<1>5. ~Restart
  BY <1>1 DEF Restart, Completed
<1>6. QED
  BY <1>1, <1>2, <1>3, <1>4, <1>5
     DEF Next, Process, Disconnect, Connect, Crash, Stop, Exit, WorkerDies,
         TaskDies, jobVars

\* A task that runs is the only one that could complete its job.
LEMMA TaskHasJobStep ==
  ASSUME Context, Next
  PROVE  TaskHasJob'
<1>1. /\ task \in TaskState /\ TaskHolds
      /\ status \in [Jobs -> JobStatus]
      /\ TaskHasJob /\ DownIsQuiet /\ "db" \notin Faults
  BY DEF Context, TypeInv, TypeOK, MovingInv
<1>2. CASE task' = FreeTask
  BY <1>2 DEF TaskHasJob, FreeTask
<1>3. ASSUME task'.pc # "free", task.pc # "free", task'.job = task.job
      PROVE  TaskHasJob'
  <2>1. task.job \in Jobs
    BY <1>1, <1>3 DEF TaskHolds
  <2>2. ~CloseWorked
    BY <1>3 DEF CloseWorked, FreeTask
  <2>3. status'[task.job] \notin Completed
    BY <1>1, <1>3, <2>1, <2>2, CompletedWriters DEF TaskHasJob
  <2>4. QED
    BY <1>3, <2>3 DEF TaskHasJob
<1>4. ASSUME NEW j \in Jobs, NEW r \in Runs, Launch(j, r)
      PROVE  TaskHasJob'
  BY <1>1, <1>4 DEF Launch, FreeTask, TaskHasJob, Completed, jobVars
<1>5. CASE JobTask
  BY <1>1, <1>2, <1>3, <1>4, <1>5
     DEF JobTask, MarkRunning, StartWorkers, Join, FinalRead, FinalTally,
         CloseCancelled, CloseAs, CloseWorked, TaskState, FreeTask
<1>6. CASE UNCHANGED task
  BY <1>3, <1>6 DEF TaskHasJob
<1>7. QED
  BY <1>1, <1>2, <1>3, <1>5, <1>6, ClientAlone, WorkerAlone
     DEF Next, Process, Disconnect, Connect, Crash, Stop, Exit, Restart,
         WorkerDies, TaskDies, Context

\* A worker lives only while its task waits for it.
LEMMA WorkersAwaitedStep ==
  ASSUME Context, Next
  PROVE  WorkersAwaited'
<1> SUFFICES ASSUME NEW v \in Workers, worker'[v].pc # "off"
             PROVE  Awaited(v)'
  BY DEF WorkersAwaited
<1>1. /\ task \in TaskState
      /\ worker \in [Workers -> WorkerState]
      /\ WorkersAwaited /\ "db" \notin Faults /\ TypeInv
  BY DEF Context, TypeInv, TypeOK, MovingInv
<1>2. CASE worker[v].pc # "off" /\ UNCHANGED task
  BY <1>1, <1>2 DEF WorkersAwaited, Awaited, Crew
<1>3. CASE JobTask
  <2>1. CASE StartWorkers /\ v \in Crew
    BY <1>1, <2>1 DEF StartWorkers, Awaited, Crew, TaskState
  <2>2. CASE worker[v].pc # "off"
    <3>1. task.pc = "gather" /\ v \in Crew
      BY <1>1, <2>2 DEF WorkersAwaited, Awaited
    <3>2. FALSE
      BY <1>3, <2>2, <3>1
         DEF JobTask, Launch, MarkRunning, StartWorkers, Join, FinalRead, FinalTally,
             CloseCancelled, CloseAs, CloseWorked, Gathered
    <3>3. QED
      BY <3>2
  <2>3. CASE worker[v].pc = "off" /\ ~(StartWorkers /\ v \in Crew)
    BY <1>1, <1>3, <2>3
       DEF JobTask, Launch, MarkRunning, StartWorkers, Join, FinalRead, FinalTally,
           CloseCancelled, CloseAs, CloseWorked
  <2>4. QED
    BY <2>1, <2>2, <2>3
<1>4. ASSUME NEW w \in Workers, Worker(w)
      PROVE  worker[v].pc # "off" /\ UNCHANGED task
  BY <1>1, <1>4, WorkerAlone
<1>5. CASE Stop
  <2>1. worker[v].pc # "off"
    BY <1>1, <1>5 DEF Stop, Interrupted, Off, At
  <2>2. Awaited(v) /\ task' = task
    BY <1>1, <1>5, <2>1 DEF Stop, WorkersAwaited, Awaited
  <2>3. QED
    BY <2>2 DEF Awaited, Crew
<1>6. ~Crash /\ ~Exit
  BY DEF Crash, Exit, Off, At
<1>7. QED
  BY <1>1, <1>2, <1>3, <1>4, <1>5, <1>6, ClientAlone
     DEF Next, Process, Disconnect, Connect, Restart, WorkerDies, TaskDies

\* A process that is down has no task, one that is not up serves no requests.
LEMMA DownIsQuietStep ==
  ASSUME Context, Next
  PROVE  DownIsQuiet'
<1>1. /\ DownIsQuiet /\ TypeInv /\ "db" \notin Faults
      /\ mode \in {"up", "stopping", "down"}
      /\ request \in [Clients -> RequestState]
  BY DEF Context, TypeInv, TypeOK, MovingInv
<1>2. ASSUME NEW c \in Clients, Client(c)
      PROVE  DownIsQuiet'
  <2>1. UNCHANGED <<mode, task>>
    BY <1>1, <1>2, ClientAlone
  <2>2. mode = "up"
    BY <1>1, <1>2
       DEF DownIsQuiet, Client, BeginCreate, ReadRow, CommitCreate, CommitRow, AllOps
  <2>3. QED
    BY <2>1, <2>2 DEF DownIsQuiet
<1>3. CASE JobTask
  <2>1. mode # "down" /\ UNCHANGED <<mode, request>>
    BY <1>1, <1>3, TaskAlone
       DEF DownIsQuiet, JobTask, Launch, MarkRunning, StartWorkers, Join,
           FinalRead, FinalTally, CloseCancelled, CloseAs, CloseWorked
  <2>2. QED
    BY <1>1, <2>1 DEF DownIsQuiet
<1>4. CASE UNCHANGED <<mode, task, request>>
  BY <1>1, <1>4 DEF DownIsQuiet
<1>5. CASE Crash \/ Stop \/ Restart
  BY <1>1, <1>5 DEF Crash, Stop, Restart, DownIsQuiet, FreeTask, Idle
<1>6. CASE Exit
  BY <1>1, <1>6 DEF Exit, DownIsQuiet
<1>7. QED
  BY <1>1, <1>2, <1>3, <1>4, <1>5, <1>6, WorkerAlone
     DEF Next, Process, Disconnect, Connect, WorkerDies, TaskDies

LEMMA DownHasNoWorkers ==
  ASSUME Context, mode = "down", NEW w \in Workers
  PROVE  worker[w].pc = "off"
BY DEF Context, MovingInv, WorkersAwaited, Awaited, DownIsQuiet

\* While the process is up, a claimed item stays with its worker, or goes to one
\* that picked it before it was moved.
LEMMA ClaimsAreHeldStep ==
  ASSUME Context, Next
  PROVE  ClaimsAreHeld'
<1> SUFFICES ASSUME mode' = "up", NEW i \in Items, item'[i] = "processing"
             PROVE  \E w \in Workers : /\ worker'[w].pc \in Holding
                                       /\ worker'[w].item = i /\ token'[i] = w
  BY DEF ClaimsAreHeld, Holds, Holding
<1>1. /\ item \in [Items -> ItemStatus]
      /\ worker \in [Workers -> WorkerState]
      /\ token \in [Items -> Workers \union {None}]
      /\ "db" \notin Faults /\ TypeInv
      /\ ClaimsAreHeld /\ WorkersAwaited /\ Known
  BY ContextKnown DEF Context, TypeInv, TypeOK, MovingInv
<1>2. ~Restart
  BY <1>1 DEF Restart, Recovered
<1>3. \A w \in Workers : Store(w) => worker[w].item # i
  BY <1>1, WorkerWrites DEF StoredOutcomes
<1>4. ASSUME NEW w \in Workers, CommitClaim(w), worker[w].item = i
      PROVE  worker'[w].pc \in Holding /\ worker'[w].item = i /\ token'[i] = w
  BY <1>1, <1>4 DEF CommitClaim, ClaimAs, Step, At, Holding
<1>5. CASE item[i] # "processing"
  <2>1. PICK w \in Workers : CommitClaim(w) /\ worker[w].item = i
    BY <1>1, <1>2, <1>3, <1>5, ItemWriters
  <2>2. QED
    BY <1>4, <2>1
<1>6. CASE item[i] = "processing" /\ ~ \E w \in Workers : CommitClaim(w) /\ worker[w].item = i
  <2>1. mode = "up"
    BY <1>1, <1>2, ClientAlone, TaskAlone, WorkerAlone
       DEF Next, Process, Disconnect, Connect, Crash, Stop, Exit, WorkerDies, TaskDies
  <2>2. PICK w \in Workers : worker[w].pc \in Holding /\ worker[w].item = i /\ token[i] = w
    BY <1>1, <1>6, <2>1 DEF ClaimsAreHeld, Holds, Holding
  <2>3. task.pc = "gather" /\ w \in Crew
    BY <1>1, <2>2 DEF WorkersAwaited, Awaited, Holding
  <2> SUFFICES worker'[w].pc \in Holding /\ worker'[w].item = i /\ token'[i] = w
    OBVIOUS
  <2>4. ASSUME JobTask
        PROVE  worker'[w] = worker[w] /\ token'[i] = w
    BY <1>1, <2>2, <2>3, <2>4
       DEF JobTask, Launch, MarkRunning, StartWorkers, Join, FinalRead, FinalTally,
           CloseCancelled, CloseAs, CloseWorked, Gathered, Holding, itemVars
  <2>5. ASSUME NEW v \in Workers, Worker(v)
        PROVE  token'[i] = token[i]
    BY <1>1, <1>3, <1>6, <2>5
       DEF Worker, CheckState, SelectItem, CommitClaim, ClaimAs, NothingDue,
           Answer, CheckToken, Store, StoreAs, itemVars
  <2>6. ASSUME NEW v \in Workers, Worker(v), v # w
        PROVE  worker'[w] = worker[w] /\ token'[i] = w
    BY <1>1, <2>2, <2>5, <2>6, WorkerAlone
  <2>7. CASE Worker(w)
    <3>1. ~Store(w)
      BY <1>3, <2>2
    <3>2. CASE CheckToken(w)
      BY <1>1, <2>2, <3>2 DEF CheckToken, Step, itemVars, Holding, WorkerState
    <3>3. CASE Answer(w)
      BY <1>1, <2>2, <3>3 DEF Answer, Step, At, Holding, itemVars
    <3>4. QED
      BY <2>2, <2>7, <3>1, <3>2, <3>3
         DEF Worker, CheckState, SelectItem, CommitClaim, ClaimAs, NothingDue, Holding
  <2>8. ASSUME NEW c \in Clients, Client(c)
        PROVE  worker'[w] = worker[w] /\ token'[i] = w
    BY <1>1, <2>2, <2>8, ClientAlone
  <2>9. QED
    BY <1>1, <1>2, <2>2, <2>4, <2>6, <2>7, <2>8
       DEF Next, Process, Disconnect, Connect, Crash, Stop, Exit, WorkerDies,
           TaskDies, itemVars
<1>7. QED
  BY <1>4, <1>5, <1>6

\* While its task finalizes a job, its items are left alone.
LEMMA JobRests ==
  ASSUME Context, Next, task.pc \in {"load", "tally", "close"}, ~CloseCancelled,
         NEW i \in ItemsOf(task.job)
  PROVE  item'[i] = item[i]
<1>1. /\ RequestsMatch /\ TaskKnowsJob /\ WorkersAwaited /\ DownIsQuiet /\ TaskHolds
      /\ TypeInv
  BY DEF Context, TypeInv, MovingInv, LedgerInv
<1>2. task.job \in Jobs
  BY <1>1 DEF TaskHolds
<1>6. i \in Items /\ i[1] = task.job
  BY <1>2, OfJob
<1>3. ~ \E c \in Clients : CommitCreate(c) /\ request[c].job = task.job
  <2>1. \A c \in Clients : CommitCreate(c) => request[c].op = "create"
    BY DEF CommitCreate
  <2>2. status[task.job] # "absent"
    BY <1>1 DEF TaskKnowsJob
  <2>3. QED
    BY <1>1, <2>1, <2>2 DEF RequestsMatch
<1>4. ~Restart
  BY <1>1 DEF Restart, DownIsQuiet
<1>5. \A w \in Workers : ~CommitClaim(w) /\ ~Store(w)
  BY <1>1 DEF WorkersAwaited, Awaited, CommitClaim, ClaimAs, Store, StoreAs
<1>7. QED
  BY <1>1, <1>3, <1>4, <1>5, <1>6, ItemWriters

\* The outcome the finalizer holds stays that of the items.
LEMMA FinalizerKnowsStep ==
  ASSUME Context, Next
  PROVE  FinalizerKnows'
<1>1. /\ task \in TaskState /\ TaskHolds /\ TypeInv
      /\ status \in [Jobs -> JobStatus]
      /\ TaskHasJob /\ FinalizerKnows
      /\ "db" \notin Faults
  BY DEF Context, TypeInv, TypeOK, MovingInv
<1>2. CASE FinalRead
  <2>1. CASE task' = FreeTask
    BY <2>1 DEF FinalizerKnows, FreeTask
  <2>2. CASE task' # FreeTask
    <3>1. task'.saw = status[task.job] /\ task'.new = task'.saw
          /\ task'.pc = IF task'.saw \in {"cancelling", "paused"} THEN "close" ELSE "tally"
      BY <1>1, <1>2, <2>2 DEF FinalRead, TaskState
    <3>2. status[task.job] \notin Completed
      BY <1>1, <1>2 DEF FinalRead, TaskHasJob
    <3>3. QED
      BY <3>1, <3>2 DEF FinalizerKnows
  <2>3. QED
    BY <2>1, <2>2
<1>3. CASE FinalTally
  <2>1. /\ task'.new = Outcome({item[i] : i \in ItemsOf(task.job)})
        /\ task'.job = task.job /\ task'.saw = task.saw /\ item' = item
        /\ task'.pc = "close"
    BY <1>1, <1>3 DEF FinalTally, TaskState, itemVars
  <2>2. task.saw \notin {"cancelling", "paused"} \union Completed
    BY <1>1, <1>3 DEF FinalTally, FinalizerKnows
  <2>3. {item'[i] : i \in ItemsOf(task.job)} = {item[i] : i \in ItemsOf(task.job)}
    BY <2>1
  <2>4. QED
    BY <2>1, <2>2, <2>3 DEF FinalizerKnows, ItemsOf
<1>4. CASE task' = task /\ task.pc = "close"
  <2>1. ~CloseCancelled
    BY <1>1, <1>4 DEF CloseCancelled, CloseAs, FreeTask
  <2>2. \A i \in ItemsOf(task.job) : item'[i] = item[i]
    BY <1>4, <2>1, JobRests
  <2>3. {item'[i] : i \in ItemsOf(task.job)} = {item[i] : i \in ItemsOf(task.job)}
    BY <2>2
  <2>4. QED
    BY <1>1, <1>4, <2>3 DEF FinalizerKnows, ItemsOf
<1>5. CASE task' = task /\ task.pc # "close"
  BY <1>1, <1>5 DEF FinalizerKnows
<1>6. CASE task'.pc \notin {"tally", "close"}
  BY <1>6 DEF FinalizerKnows
<1>7. ASSUME JobTask, ~FinalRead, ~FinalTally
      PROVE  task'.pc \notin {"tally", "close"}
  <2>1. ASSUME NEW j \in Jobs, NEW r \in Runs, Launch(j, r)
        PROVE  task'.pc \notin {"tally", "close"}
    BY <2>1 DEF Launch, FreeTask
  <2>2. CASE MarkRunning \/ StartWorkers \/ Join
    BY <1>1, <2>2 DEF MarkRunning, StartWorkers, Join, TaskState
  <2>3. CASE CloseCancelled \/ CloseWorked
    BY <2>3 DEF CloseCancelled, CloseAs, CloseWorked, FreeTask
  <2>4. QED
    BY <1>7, <2>1, <2>2, <2>3 DEF JobTask
<1>8. QED
  BY <1>1, <1>2, <1>3, <1>4, <1>5, <1>6, <1>7, ClientAlone, WorkerAlone
     DEF Next, Process, Disconnect, Connect, Crash, Stop, Exit, Restart, WorkerDies,
         TaskDies, FreeTask

-------------------------------------------------------------------------------
(***************************************************************************)
(* Counting.                                                               *)
(***************************************************************************)

-------------------------------------------------------------------------------
(***************************************************************************)
(* Counting.                                                               *)
(***************************************************************************)

\* What is counted does not change while no item enters or leaves the category.
LEMMA NumberSame ==
  ASSUME NEW j, NEW S, \A i \in ItemsOf(j) : (item'[i] \in S) <=> (item[i] \in S)
  PROVE  Number(j, S)' = Number(j, S)
<1>1. {i \in ItemsOf(j) : item'[i] \in S} = {i \in ItemsOf(j) : item[i] \in S}
  OBVIOUS
<1>2. QED
  BY <1>1 DEF Number, ItemsOf

\* Nothing is counted in a category without items, and only then.
LEMMA NumberNone ==
  ASSUME NEW j, NEW S
  PROVE  (Number(j, S) = 0) <=> (\A i \in ItemsOf(j) : item[i] \notin S)
<1>1. IsFiniteSet({i \in ItemsOf(j) : item[i] \in S})
  BY Finite, FS_Subset
<1>2. (Number(j, S) = 0) <=> ({i \in ItemsOf(j) : item[i] \in S} = {})
  BY <1>1, FS_EmptySet DEF Number
<1>3. QED
  BY <1>2

LEMMA NumberNoneNext ==
  ASSUME NEW j, NEW S
  PROVE  (Number(j, S)' = 0) <=> (\A i \in ItemsOf(j) : item'[i] \notin S)
<1>1. IsFiniteSet({i \in ItemsOf(j) : item'[i] \in S})
  BY Finite, FS_Subset
<1>2. (Number(j, S)' = 0) <=> ({i \in ItemsOf(j) : item'[i] \in S} = {})
  BY <1>1, FS_EmptySet DEF Number, ItemsOf
<1>3. QED
  BY <1>2

\* The items of a completed job are left alone.
LEMMA CompletedRests ==
  ASSUME Context, Next, NEW j \in Jobs, status[j] \in Completed,
         NEW i \in ItemsOf(j), item[i] \in TerminalItem
  PROVE  item'[i] = item[i]
<1>1. /\ RequestsMatch /\ TaskHasJob /\ WorkersAwaited
      /\ TypeInv /\ Known
      /\ i \in Items /\ i[1] = j
  BY OfJob, ContextKnown DEF Context, MovingInv, LedgerInv
<1>2. ASSUME NEW c \in Clients, CommitCreate(c), request[c].job = j
      PROVE  FALSE
  BY <1>1, <1>2 DEF CommitCreate, RequestsMatch, Completed
<1>3. ~(CloseCancelled /\ task.job = j)
  BY <1>1 DEF CloseCancelled, CloseAs, TaskHasJob
<1>4. ASSUME NEW w \in Workers, CommitClaim(w) \/ Store(w), worker[w].item = i
      PROVE  FALSE
  <2>1. w[1] = j
    BY <1>1, <1>4, WorkerWrites, WorkerNames, OfJob
  <2>2. worker[w].pc # "off"
    BY <1>4 DEF CommitClaim, ClaimAs, Store, StoreAs
  <2>3. task.pc = "gather" /\ task.job = j
    BY <1>1, <2>1, <2>2 DEF WorkersAwaited, Awaited, Crew
  <2>4. QED
    BY <1>1, <2>3 DEF TaskHasJob
<1>5. Recovered(i) = item[i]
  BY <1>1 DEF Recovered, Completed, TerminalItem
<1>6. QED
  BY <1>1, <1>2, <1>3, <1>4, <1>5, ItemWriters

\* A job is completed with the outcome of its items, and they stay.
LEMMA CompletedIsExactStep ==
  ASSUME Context, Next
  PROVE  CompletedIsExact'
<1> DEFINE Open == ItemStatus \ TerminalItem
           Bad == {"invalid", "permanent_error"}
<1> SUFFICES ASSUME NEW j \in Jobs, status'[j] \in Completed
             PROVE  /\ Number(j, Open)' = 0
                    /\ (status'[j] = "completed") <=> (Number(j, Bad)' = 0)
  BY DEF CompletedIsExact, Completed
<1>1. /\ item \in [Items -> ItemStatus]
      /\ FinalizerKnows /\ CompletedIsExact
  BY DEF Context, TypeInv, TypeOK, MovingInv
<1>2. CASE status'[j] # status[j]
  <2>1. CloseWorked /\ task.job = j /\ task.saw # "paused" /\ status'[j] = task.new
    BY <1>2, CompletedWriters
  <2>2. task.new = Outcome({item[i] : i \in ItemsOf(j)}) /\ item' = item
    BY <1>1, <2>1 DEF CloseWorked, FinalizerKnows, itemVars
  <2>3. /\ \A i \in ItemsOf(j) : item[i] \in TerminalItem
        /\ (task.new = "completed") <=> (\A i \in ItemsOf(j) : item[i] \notin Bad)
    BY <2>1, <2>2 DEF Outcome, Completed
  <2>4. Number(j, Open)' = 0
    BY <2>2, <2>3, NumberNoneNext
  <2>5. (Number(j, Bad)' = 0) <=> (\A i \in ItemsOf(j) : item[i] \notin Bad)
    BY <2>2, NumberNoneNext
  <2>6. QED
    BY <2>1, <2>3, <2>4, <2>5
<1>3. CASE status'[j] = status[j]
  <2>1. /\ Number(j, Open) = 0
        /\ (status[j] = "completed") <=> (Number(j, Bad) = 0)
    BY <1>1, <1>3 DEF CompletedIsExact, Completed
  <2>2. \A i \in ItemsOf(j) : i \in Items /\ item[i] \in TerminalItem
    BY <1>1, <2>1, NumberNone, OfJob
  <2>3. \A i \in ItemsOf(j) : item'[i] = item[i]
    BY <1>3, <2>2, CompletedRests
  <2>4. Number(j, Open)' = Number(j, Open) /\ Number(j, Bad)' = Number(j, Bad)
    BY <2>3, NumberSame
  <2>5. QED
    BY <1>3, <2>1, <2>4
<1>4. QED
  BY <1>2, <1>3

LEMMA InitContext ==
  ASSUME "db" \notin Faults
  PROVE  Init => Context
<1> SUFFICES ASSUME Init
             PROVE  MovingInv
  BY InitType DEF Context
<1>1. LedgerInv
  BY InitKnown DEF Known
<1>2. WorkersAwaited /\ TaskHasJob /\ DownIsQuiet /\ FinalizerKnows
  BY DEF Init, WorkersAwaited, TaskHasJob, DownIsQuiet, FinalizerKnows, Off, At, FreeTask
<1>3. ClaimsAreHeld /\ CompletedIsExact
  BY DEF Init, ClaimsAreHeld, CompletedIsExact
<1>4. QED
  BY <1>1, <1>2, <1>3 DEF MovingInv

LEMMA NextContext == Context /\ [Next]_vars => Context'
<1>1. ASSUME Context, Next
      PROVE  Context'
  <2>1. TypeInv' /\ LedgerInv'
    BY <1>1, ContextKnown, NextKnown DEF Known
  <2>2. QED
    BY <1>1, <2>1, WorkersAwaitedStep, TaskHasJobStep, DownIsQuietStep,
       ClaimsAreHeldStep, FinalizerKnowsStep, CompletedIsExactStep
       DEF Context, MovingInv
<1>2. ASSUME Context, UNCHANGED vars
      PROVE  Context'
  <2>1. TypeInv' /\ LedgerInv'
    BY <1>2, ContextKnown, NextKnown DEF Known
  <2>2. /\ UNCHANGED <<status, item, token, mode, task, worker, request>>
    BY <1>2 DEF vars, jobVars, itemVars
  <2>3. /\ WorkersAwaited' = WorkersAwaited /\ TaskHasJob' = TaskHasJob
        /\ DownIsQuiet' = DownIsQuiet
    BY <2>2 DEF WorkersAwaited, Awaited, Crew, TaskHasJob, DownIsQuiet
  <2>4. FinalizerKnows' = FinalizerKnows /\ ClaimsAreHeld' = ClaimsAreHeld
    BY <2>2 DEF FinalizerKnows, ItemsOf, ClaimsAreHeld, Holds
  <2>5. CompletedIsExact' = CompletedIsExact
    BY <2>2 DEF CompletedIsExact, Number, ItemsOf
  <2>6. QED
    BY <1>2, <2>1, <2>3, <2>4, <2>5 DEF Context, MovingInv
<1>3. QED
  BY <1>1, <1>2

-------------------------------------------------------------------------------
(***************************************************************************)
(* What holds if, besides, no item is moved: one worker per number, and    *)
(* the job's counters.                                                     *)
(***************************************************************************)
Unmoved == "rebalance" \notin Ops /\ Context /\ CheckerInv

LEMMA UnmovedKnown == Unmoved => Known
BY ContextKnown DEF Unmoved

\* How an item's row may change.
LEMMA ItemSteps ==
  ASSUME Unmoved, Next, NEW i \in Items, item'[i] # item[i]
  PROVE  \/ item[i] = "absent" /\ item'[i] \in {"queued", "invalid"}
         \/ item[i] \in RunnableItem /\ item'[i] = "processing"
         \/ item[i] \in RunnableItem \union {"processing"} /\ item'[i] = "cancelled"
         \/ item[i] = "processing" /\ item'[i] \in StoredOutcomes
<1>1. /\ item \in [Items -> ItemStatus]
      /\ status \in [Jobs -> JobStatus]
      /\ i[1] \in Jobs
      /\ ClaimsMatch /\ TypeInv /\ Known
      /\ RequestsMatch /\ RowsTogether
  BY UnmovedKnown DEF Unmoved, Context, TypeInv, TypeOK, CheckerInv, MovingInv, LedgerInv, Items
<1>2. item[i] \in TerminalItem \union RunnableItem \union {"absent", "processing"}
  BY <1>1 DEF ItemStatus
<1>3. item[i] = "absent" => item'[i] \in {"queued", "invalid"}
  BY <1>1, ItemCreated
<1>4. ASSUME NEW w \in Workers, CommitClaim(w), worker[w].item = i
      PROVE  item[i] \in RunnableItem /\ item'[i] = "processing"
  BY <1>1, <1>4 DEF CommitClaim, ClaimAs, ClaimsMatch
<1>5. ASSUME NEW w \in Workers, Store(w), worker[w].item = i
      PROVE  item[i] = "processing" /\ item'[i] \in StoredOutcomes
  <2>1. item[i] = "processing"
    BY <1>1, <1>5 DEF Store, StoreAs, ClaimsMatch, Holding
  <2>2. item'[i] = Retried(worker[w].out, worker[w].tries)
    BY <1>1, <1>5 DEF Store, StoreAs
  <2>3. QED
    BY <1>1, <1>5, <2>1, <2>2, StoredType
<1>6. ASSUME NEW c \in Clients, CommitCreate(c), request[c].job = i[1]
      PROVE  item[i] = "absent"
  BY <1>1, <1>6 DEF CommitCreate, RequestsMatch, RowsTogether
<1>7. CASE Restart /\ item'[i] = Recovered(i)
  <2>1. item[i] = "processing" => item'[i] \in {"cancelled", "in_flight_unknown"}
    BY <1>7 DEF Recovered
  <2>2. item[i] \in RunnableItem => item'[i] = "cancelled" \/ item'[i] = item[i]
    BY <1>7 DEF Recovered, RunnableItem
  <2>3. item[i] \notin TerminalItem
    BY <1>7 DEF Recovered, TerminalItem
  <2>4. QED
    BY <1>2, <1>3, <2>1, <2>2, <2>3 DEF StoredOutcomes
<1>8. QED
  BY <1>1, <1>2, <1>3, <1>4, <1>5, <1>6, <1>7, ItemWriters

\* A finished item is never reopened or rewritten.
LEMMA FinishedStay ==
  ASSUME Unmoved, Next, NEW i \in Items, item[i] \in TerminalItem
  PROVE  item'[i] = item[i]
BY ItemSteps DEF TerminalItem, RunnableItem

\* Only one live worker has a job and an account for its own.
LEMMA SharesDisjoint ==
  ASSUME WorkersAwaited,
         NEW v \in Workers, NEW w \in Workers,
         NEW i, i \in ShareOf(v[1], v[2]), i \in ShareOf(w[1], w[2]),
         worker[v].pc # "off", worker[w].pc # "off"
  PROVE  v = w
<1>1. v[1] = w[1] /\ v[2] = w[2]
  BY DEF ShareOf, ItemsOf
<1>2. v[3] = w[3]
  BY DEF WorkersAwaited, Awaited, Crew
<1>3. QED
  BY <1>1, <1>2 DEF Workers

\* A worker keeps what it picked and holds what it claimed.
LEMMA ClaimsMatchStep ==
  ASSUME Unmoved, Next
  PROVE  ClaimsMatch'
<1> DEFINE Share(v) == ShareOf(v[1], v[2])
           Match(v, state, it, tok, att) ==
      /\ state.pc \in Holding \union {"picked"} => state.item \in Share(v)
      /\ state.pc = "picked" => it[state.item] \in RunnableItem
      /\ state.pc \in Holding => it[state.item] = "processing" /\ tok[state.item] = v
      /\ state.pc = "store" => state.tries = att[state.item]
<1>1. /\ worker \in [Workers -> WorkerState]
      /\ item \in [Items -> ItemStatus]
      /\ token \in [Items -> Workers \union {None}]
      /\ attempts \in [Items -> Nat]
      /\ owner \in [Items -> Accounts \union {None}]
      /\ WorkersAwaited /\ RequestsMatch /\ RowsTogether /\ TypeInv
      /\ \A w \in Workers : Match(w, worker[w], item, token, attempts)
      /\ \A w \in Workers : Share(w) \subseteq Items
      /\ "db" \notin Faults /\ "rebalance" \notin Ops
  BY WorkerNames DEF Unmoved, Context, TypeInv, TypeOK, CheckerInv, MovingInv, LedgerInv,
                     ClaimsMatch
<1>2. ASSUME NEW w \in Workers, NEW i \in Share(w), item[i] # "absent"
      PROVE  i \in Share(w)'
  <2>1. owner'[i] = owner[i]
    <3>1. ASSUME NEW c \in Clients, CommitCreate(c)
          PROVE  owner'[i] = owner[i]
      <4>1. i[1] # request[c].job /\ i \in Items
        BY <1>1, <1>2, <3>1 DEF CommitCreate, RequestsMatch, RowsTogether
      <4>2. i \notin {request[c].job} \X Valid
        BY <4>1
      <4>3. QED
        BY <3>1, <4>1, <4>2 DEF CommitCreate, Deal
    <3>2. UNCHANGED owner \/ \E c \in Clients : CommitCreate(c)
      BY <1>1, ClientAlone, TaskAlone, WorkerAlone
         DEF Next, Process, Disconnect, Connect, Crash, Stop, Exit, Restart,
             WorkerDies, TaskDies, itemVars
    <3>3. QED
      BY <3>1, <3>2
  <2>2. QED
    BY <2>1 DEF ShareOf, ItemsOf
<1> SUFFICES ASSUME NEW v \in Workers
             PROVE  Match(v, worker'[v], item', token', attempts')
  <2>1. ASSUME NEW w \in Workers, Match(w, worker'[w], item', token', attempts'),
               worker'[w].pc \in Holding \union {"picked"}
        PROVE  worker'[w].item \in Share(w)'
    <3>1. item'[worker'[w].item] # "absent" /\ worker'[w].item \in Items
      BY <1>1, <2>1 DEF RunnableItem
    <3>2. CASE item[worker'[w].item] # "absent"
      BY <1>2, <2>1, <3>2
    <3>3. CASE item[worker'[w].item] = "absent"
      <4>1. item'[worker'[w].item] = "queued" /\ worker'[w].pc = "picked"
        BY <1>1, <2>1, <3>1, <3>3, ItemSteps DEF RunnableItem
      <4>2. PICK c \in Clients : CommitCreate(c) /\ request[c].job = worker'[w].item[1]
        BY <3>1, <3>3, <4>1, ItemCreated, UnmovedKnown
      <4>3. worker' = worker
        BY <4>2 DEF CommitCreate
      <4>4. QED
        BY <1>1, <2>1, <3>3, <4>1, <4>3 DEF RunnableItem
    <3>4. QED
      BY <3>2, <3>3
  <2>2. QED
    BY <2>1 DEF ClaimsMatch, Holding
<1>3. Match(v, worker[v], item, token, attempts) /\ Share(v) \subseteq Items
  BY <1>1
<1>4. CASE worker'[v] = worker[v] /\ UNCHANGED <<item, token, attempts>>
  BY <1>3, <1>4
<1>5. ASSUME NEW c \in Clients, CommitCreate(c)
      PROVE  Match(v, worker'[v], item', token', attempts')
  <2>1. status[request[c].job] = "absent"
    BY <1>1, <1>5 DEF CommitCreate, RequestsMatch
  <2>2. \A i \in Items : item[i] # "absent" => item'[i] = item[i]
    BY <1>1, <1>5, <2>1 DEF CommitCreate, ItemsOf, RowsTogether
  <2>3. QED
    BY <1>3, <1>5, <2>2 DEF CommitCreate, RunnableItem
<1>6. CASE CloseCancelled
  <2>1. worker[v].pc = "off"
    BY <1>1, <1>6 DEF CloseCancelled, CloseAs, WorkersAwaited, Awaited
  <2>2. QED
    BY <1>6, <2>1 DEF CloseCancelled, CloseAs, Holding
<1>7. CASE StartWorkers
  BY <1>3, <1>7 DEF StartWorkers, itemVars, At, Holding
<1>8. ASSUME NEW w \in Workers, Worker(w), w # v
      PROVE  Match(v, worker'[v], item', token', attempts')
  <2>1. worker[w].pc # "off" /\ worker'[v] = worker[v]
    BY <1>1, <1>8, WorkerAlone
  <2>2. \A i \in Share(v) : worker[v].pc # "off" => i \notin Share(w)
    BY <1>1, <1>8, <2>1, SharesDisjoint
  <2>3. \A i \in Items : i \notin Share(w) =>
          item'[i] = item[i] /\ token'[i] = token[i] /\ attempts'[i] = attempts[i]
    BY <1>1, <1>8
       DEF Worker, CheckState, SelectItem, CommitClaim, ClaimAs, NothingDue,
           Answer, CheckToken, Store, StoreAs, itemVars, Holding
  <2>4. QED
    BY <1>3, <2>1, <2>2, <2>3 DEF Holding
<1>9. CASE Worker(v)
  <2>1. CASE CheckState(v) \/ NothingDue(v)
    BY <1>1, <2>1 DEF CheckState, NothingDue, Step, Off, At, Holding
  <2>2. CASE SelectItem(v)
    BY <1>1, <2>2 DEF SelectItem, Step, At, Holding, itemVars
  <2>3. CASE CommitClaim(v)
    BY <1>1, <1>3, <2>3 DEF CommitClaim, ClaimAs, Step, At, Holding
  <2>4. CASE Answer(v)
    BY <1>1, <1>3, <2>4 DEF Answer, Step, At, Holding, itemVars
  <2>5. CASE CheckToken(v)
    BY <1>1, <1>3, <2>5 DEF CheckToken, Saved, Step, Off, At, Holding, itemVars, WorkerState
  <2>6. CASE Store(v)
    BY <1>1, <2>6 DEF Store, StoreAs, Saved, Step, Off, At, Holding
  <2>7. QED
    BY <1>9, <2>1, <2>2, <2>3, <2>4, <2>5, <2>6 DEF Worker
<1>10. CASE Stop
  BY <1>1, <1>3, <1>10 DEF Stop, Interrupted, itemVars, Off, At, Holding
<1>11. CASE Crash \/ Exit
  BY <1>11 DEF Crash, Exit, Off, At, Holding
<1>12. CASE Restart
  BY <1>12, DownHasNoWorkers DEF Restart, Holding, Unmoved
<1>13. ASSUME NEW c \in Clients, Client(c), ~CommitCreate(c)
       PROVE  worker'[v] = worker[v] /\ UNCHANGED <<item, token, attempts>>
  BY <1>1, <1>13, ClientAlone DEF itemVars
<1>14. QED
  BY <1>1, <1>4, <1>5, <1>6, <1>7, <1>8, <1>9, <1>10, <1>11, <1>12, <1>13
     DEF Next, JobTask, Process, Launch, MarkRunning, Join, FinalRead, FinalTally,
         CloseWorked, Disconnect, Connect, WorkerDies, TaskDies, itemVars

\* An item is put back for a retry by the worker that counted its attempts.
LEMMA AttemptsRespectedStep ==
  ASSUME Unmoved, Next
  PROVE  AttemptsRespected'
<1> SUFFICES ASSUME NEW i \in Items, item'[i] = "temporary_error"
             PROVE  attempts'[i] < MaxAttempts
  BY DEF AttemptsRespected
<1>1. /\ item \in [Items -> ItemStatus]
      /\ attempts \in [Items -> Nat]
      /\ MaxAttempts \in Nat
      /\ AttemptsRespected /\ ClaimsMatch /\ TypeInv
      /\ "db" \notin Faults
  BY ConstantsAssumption DEF Unmoved, Context, TypeInv, TypeOK, CheckerInv, MovingInv, LedgerInv
<1>2. ~ \E w \in Workers : CommitClaim(w) /\ worker[w].item = i
  BY <1>1 DEF CommitClaim, ClaimAs
<1>3. attempts'[i] = attempts[i]
  <2>1. ASSUME NEW w \in Workers, Worker(w)
        PROVE  attempts'[i] = attempts[i]
    BY <1>1, <1>2, <2>1
       DEF Worker, CheckState, SelectItem, CommitClaim, ClaimAs, NothingDue,
           Answer, CheckToken, Store, StoreAs, itemVars
  <2>2. QED
    BY <1>1, <2>1, ClientAlone, TaskAlone
       DEF Next, Process, Disconnect, Connect, Crash, Stop, Exit, Restart,
           WorkerDies, TaskDies, itemVars
<1>4. CASE item[i] = "temporary_error"
  BY <1>1, <1>3, <1>4 DEF AttemptsRespected
<1>5. CASE item[i] # "temporary_error"
  <2>1. ~(Restart /\ item'[i] = Recovered(i))
    BY <1>5 DEF Recovered
  <2>2. PICK w \in Workers : Store(w) /\ worker[w].item = i
    BY <1>1, <1>2, <1>5, <2>1, ItemWriters
  <2>3. item'[i] = Retried(worker[w].out, worker[w].tries) /\ worker[w].tries = attempts[i]
    BY <1>1, <2>2 DEF Store, StoreAs, ClaimsMatch
  <2>4. attempts[i] \in Nat /\ ~(attempts[i] >= MaxAttempts)
    BY <1>1, <2>3 DEF Retried
  <2>5. QED
    BY <1>1, <1>3, <2>4
<1>6. QED
  BY <1>4, <1>5

\* An item that enters or leaves a category counts there by one.
LEMMA NumberMoves ==
  ASSUME NEW j, NEW S, NEW k \in ItemsOf(j),
         \A i \in ItemsOf(j) \ {k} : item'[i] = item[i]
  PROVE  /\ item[k] \notin S /\ item'[k] \in S => Number(j, S)' = Number(j, S) + 1
         /\ item[k] \in S /\ item'[k] \notin S => Number(j, S) = Number(j, S)' + 1
<1> DEFINE A == {i \in ItemsOf(j) : item[i] \in S}
           B == {i \in ItemsOf(j) : item'[i] \in S}
<1>1. IsFiniteSet(A) /\ IsFiniteSet(B)
  BY Finite, FS_Subset
<1>2. Number(j, S) = Cardinality(A) /\ Number(j, S)' = Cardinality(B)
  BY DEF Number, ItemsOf
<1>3. ASSUME item[k] \notin S, item'[k] \in S
      PROVE  Number(j, S)' = Number(j, S) + 1
  <2>1. k \notin A /\ B = A \union {k}
    BY <1>3
  <2>2. QED
    BY <1>1, <1>2, <2>1, FS_AddElement
<1>4. ASSUME item[k] \in S, item'[k] \notin S
      PROVE  Number(j, S) = Number(j, S)' + 1
  <2>1. k \notin B /\ A = B \union {k}
    BY <1>4
  <2>2. QED
    BY <1>1, <1>2, <2>1, FS_AddElement
<1>5. QED
  BY <1>3, <1>4

\* One conjunct of CountsAddUp, for one job.
Adds(j) ==
  /\ count[j].success = Number(j, {"found"})
  /\ count[j].failed = Number(j, {"permanent_error"})
  /\ count[j].skipped = Number(j, {"not_discoverable", "invalid"})
  /\ count[j].pending = Number(j, ItemStatus \ TerminalItem)

LEMMA AddsSame ==
  ASSUME NEW j \in Jobs, Adds(j), count'[j] = count[j],
         \A i \in ItemsOf(j) :
           \/ item'[i] = item[i]
           \/ {item[i], item'[i]} \subseteq ItemStatus \ TerminalItem
  PROVE  Adds(j)'
<1> DEFINE Same(S) == Number(j, S)' = Number(j, S)
<1>1. Same({"found"}) /\ Same({"permanent_error"}) /\ Same({"not_discoverable", "invalid"})
  BY NumberSame DEF TerminalItem
<1>2. Same(ItemStatus \ TerminalItem)
  BY NumberSame
<1>3. QED
  BY <1>1, <1>2 DEF Adds

\* A new job's counters are those of its numbers.
LEMMA AddsCreated ==
  ASSUME TypeInv, NEW c \in Clients, CommitCreate(c), NEW j \in Jobs, request[c].job = j
  PROVE  Adds(j)'
<1>1. \A i \in ItemsOf(j) : i \in Items /\ i[2] \in 1 .. Phones
                            /\ item'[i] = IF i[2] \in Valid THEN "queued" ELSE "invalid"
  BY DEF CommitCreate, ItemsOf, Items
<1>2. count'[j] = [NoCount EXCEPT !.skipped = Cardinality(Invalid),
                                  !.pending = Cardinality(Valid)]
  BY DEF CommitCreate, TypeInv, TypeOK
<1>3. /\ count'[j].success = 0 /\ count'[j].failed = 0
      /\ count'[j].skipped = Cardinality(Invalid)
      /\ count'[j].pending = Cardinality(Valid)
  BY <1>2 DEF NoCount
<1>4. Number(j, {"found"})' = 0 /\ Number(j, {"permanent_error"})' = 0
  BY <1>1, NumberNoneNext
<1>5. ASSUME NEW P, P \subseteq 1 .. Phones, IsFiniteSet(P)
      PROVE  Cardinality({j} \X P) = Cardinality(P)
  <2>1. IsFiniteSet({j}) /\ Cardinality({j}) = 1
    BY FS_Singleton
  <2>2. Cardinality({j} \X P) = 1 * Cardinality(P)
    BY <1>5, <2>1, FS_Product
  <2>3. QED
    BY <1>5, <2>2, FS_CardinalityType
<1>6. {i \in ItemsOf(j) : item'[i] \in {"not_discoverable", "invalid"}} = {j} \X Invalid
  BY <1>1, ConstantsAssumption DEF ItemsOf, Valid
<1>7. {i \in ItemsOf(j) : item'[i] \in ItemStatus \ TerminalItem} = {j} \X Valid
  BY <1>1, ConstantsAssumption DEF ItemsOf, Valid, ItemStatus, RunnableItem, TerminalItem
<1>8. Number(j, {"not_discoverable", "invalid"})' = Cardinality(Invalid)
  BY <1>5, <1>6, Finite, ConstantsAssumption DEF Number, ItemsOf
<1>9. Number(j, ItemStatus \ TerminalItem)' = Cardinality(Valid)
  <2>1. Valid \subseteq 1 .. Phones
    BY DEF Valid
  <2>2. QED
    BY <1>5, <1>7, <2>1, Finite DEF Number, ItemsOf
<1>10. QED
  BY <1>3, <1>4, <1>8, <1>9 DEF Adds

\* A job whose open items are cancelled has none left, and keeps its results.
LEMMA AddsCancelled ==
  ASSUME TypeInv, NEW j \in Jobs, Adds(j), count'[j] = [count[j] EXCEPT !.pending = 0],
         \A i \in ItemsOf(j) :
           item'[i] = IF item[i] \notin TerminalItem THEN "cancelled" ELSE item[i]
  PROVE  Adds(j)'
<1> DEFINE Same(S) == Number(j, S)' = Number(j, S)
<1>1. Same({"found"}) /\ Same({"permanent_error"}) /\ Same({"not_discoverable", "invalid"})
  BY NumberSame DEF TerminalItem
<1>2. Number(j, ItemStatus \ TerminalItem)' = 0
  BY NumberNoneNext DEF TerminalItem
<1>3. count[j] \in Counters
  BY DEF TypeInv, TypeOK
<1>4. QED
  BY <1>1, <1>2, <1>3 DEF Adds, Counters

\* A result moves one open item to the category its counter counts.
LEMMA AddsStored ==
  ASSUME TypeInv, ClaimsMatch, NEW w \in Workers, Store(w),
         NEW j \in Jobs, Adds(j), worker[w].item \in ItemsOf(j)
  PROVE  Adds(j)'
<1> DEFINE k == worker[w].item
           r == Retried(worker[w].out, worker[w].tries)
<1>1. /\ item \in [Items -> ItemStatus] /\ count \in [Jobs -> Counters]
      /\ k \in Items /\ k[1] = j /\ item[k] = "processing" /\ r \in StoredOutcomes
  <2>1. k \in Items /\ k[1] = j
    BY OfJob
  <2>2. item[k] = "processing"
    BY DEF ClaimsMatch, Store, StoreAs, Holding
  <2>3. QED
    BY <2>1, <2>2, StoredType DEF TypeInv, TypeOK
<1>2. item'[k] = r /\ \A i \in ItemsOf(j) \ {k} : item'[i] = item[i]
  BY <1>1, OfJob DEF Store, StoreAs
<1>3. CASE r \notin TerminalItem
  <2>1. count'[j] = count[j]
    BY <1>3 DEF Store, StoreAs
  <2>2. {item[k], item'[k]} \subseteq ItemStatus \ TerminalItem
    BY <1>1, <1>2, <1>3 DEF StoredOutcomes, ItemStatus, RunnableItem, TerminalItem
  <2>3. QED
    BY <1>2, <2>1, <2>2, AddsSame
<1>4. CASE r \in TerminalItem
  <2>1. count'[j] = Counted(count[j], r)
    BY <1>1, <1>4 DEF Store, StoreAs
  <2>2. r \in {"found", "not_discoverable", "permanent_error"}
    BY <1>1, <1>4 DEF StoredOutcomes, TerminalItem
  <2>3. \A S : Number(j, S) \in Nat /\ Number(j, S)' \in Nat
    <3>1. \A S : Number(j, S) \in Nat
      BY NumberType
    <3>2. ASSUME NEW S
          PROVE  Number(j, S)' \in Nat
      <4>1. IsFiniteSet({i \in ItemsOf(j) : item'[i] \in S})
        BY Finite, FS_Subset
      <4>2. QED
        BY <4>1, FS_CardinalityType DEF Number, ItemsOf
    <3>3. QED
      BY <3>1, <3>2
  <2>4. Number(j, ItemStatus \ TerminalItem) = Number(j, ItemStatus \ TerminalItem)' + 1
    <3>1. item[k] \in ItemStatus \ TerminalItem /\ item'[k] \notin ItemStatus \ TerminalItem
      BY <1>1, <1>2, <1>4 DEF ItemStatus, TerminalItem
    <3>2. QED
      BY <1>2, <3>1, NumberMoves
  <2>5. count'[j].pending = Number(j, ItemStatus \ TerminalItem)'
    <3>1. count[j].pending = Number(j, ItemStatus \ TerminalItem)
      BY DEF Adds
    <3>2. count'[j].pending = IF count[j].pending > 0 THEN count[j].pending - 1 ELSE 0
      BY <2>1 DEF Counted
    <3> HIDE DEF k, r
    <3>3. QED
      BY <2>3, <2>4, <3>1, <3>2
  <2>6. ASSUME NEW S, item[k] \notin S
        PROVE  Number(j, S)' = IF r \in S THEN Number(j, S) + 1 ELSE Number(j, S)
    <3>1. CASE r \in S
      BY <1>2, <2>6, <3>1, NumberMoves
    <3>2. CASE r \notin S
      BY <1>2, <2>6, <3>2, NumberSame
    <3>3. QED
      BY <3>1, <3>2
  <2>7. /\ Number(j, {"found"})' = IF r = "found" THEN Number(j, {"found"}) + 1
                                   ELSE Number(j, {"found"})
        /\ Number(j, {"permanent_error"})' =
             IF r = "permanent_error" THEN Number(j, {"permanent_error"}) + 1
             ELSE Number(j, {"permanent_error"})
        /\ Number(j, {"not_discoverable", "invalid"})' =
             IF r = "not_discoverable" THEN Number(j, {"not_discoverable", "invalid"}) + 1
             ELSE Number(j, {"not_discoverable", "invalid"})
    BY <1>1, <2>2, <2>6
  <2>8. /\ count'[j].success = IF r = "found" THEN count[j].success + 1 ELSE count[j].success
        /\ count'[j].failed = IF r = "permanent_error" THEN count[j].failed + 1
                              ELSE count[j].failed
        /\ count'[j].skipped = IF r = "not_discoverable" THEN count[j].skipped + 1
                               ELSE count[j].skipped
    BY <2>1 DEF Counted
  <2>9. QED
    BY <2>5, <2>7, <2>8 DEF Adds
<1>5. QED
  BY <1>3, <1>4

\* The counters follow the items.
LEMMA CountsAddUpStep ==
  ASSUME Unmoved, Next
  PROVE  CountsAddUp'
<1> SUFFICES ASSUME NEW j \in Jobs, status'[j] # "absent"
             PROVE  Adds(j)'
  BY DEF CountsAddUp, Adds
<1>1. /\ item \in [Items -> ItemStatus] /\ count \in [Jobs -> Counters]
      /\ CountsAddUp /\ ClaimsMatch /\ RequestsMatch /\ TypeInv /\ "db" \notin Faults
  BY DEF Unmoved, Context, TypeInv, TypeOK, CheckerInv, MovingInv, LedgerInv
<1>2. CASE status[j] = "absent"
  BY <1>1, <1>2, UnmovedKnown, Created, AddsCreated
<1>3. CASE status[j] # "absent"
  <2>1. Adds(j)
    BY <1>1, <1>3 DEF CountsAddUp, Adds
  <2>2. ASSUME NEW c \in Clients, Client(c)
        PROVE  Adds(j)'
    <3>1. CASE CommitCreate(c)
      <4>1. request[c].job # j
        BY <1>1, <1>3, <3>1 DEF CommitCreate, RequestsMatch
      <4>2. count'[j] = count[j]
        BY <1>1, <3>1, <4>1 DEF CommitCreate
      <4>3. \A i \in ItemsOf(j) : item'[i] = item[i]
        BY <3>1, <4>1, OfJob DEF CommitCreate, ItemsOf
      <4>4. QED
        BY <2>1, <4>2, <4>3, AddsSame
    <3>2. CASE UNCHANGED <<count, item>>
      BY <2>1, <3>2, AddsSame
    <3>3. QED
      BY <1>1, <2>2, <3>1, <3>2, ClientAlone
  <2>3. ASSUME JobTask
        PROVE  Adds(j)'
    <3>1. CASE CloseCancelled /\ task.job = j
      <4>1. count'[j] = [count[j] EXCEPT !.pending = 0]
        BY <1>1, <3>1 DEF CloseCancelled, CloseAs
      <4>2. \A i \in ItemsOf(j) :
              item'[i] = IF item[i] \notin TerminalItem THEN "cancelled" ELSE item[i]
        BY <1>1, <3>1, OfJob DEF CloseCancelled, CloseAs, OpenItems
      <4>3. QED
        BY <1>1, <2>1, <4>1, <4>2, AddsCancelled
    <3>2. CASE CloseCancelled /\ task.job # j
      <4>1. count'[j] = count[j]
        BY <1>1, <3>2 DEF CloseCancelled, CloseAs
      <4>2. \A i \in ItemsOf(j) : i \in Items /\ i \notin ItemsOf(task.job)
        BY <3>2, OfJob DEF ItemsOf
      <4>3. \A i \in ItemsOf(j) : item'[i] = item[i]
        BY <3>2, <4>2 DEF CloseCancelled, CloseAs, OpenItems
      <4>4. QED
        BY <2>1, <4>1, <4>3, AddsSame
    <3>3. CASE ~CloseCancelled
      <4>1. UNCHANGED <<count, item>>
        BY <2>3, <3>3
           DEF JobTask, Launch, MarkRunning, StartWorkers, Join, FinalRead,
               FinalTally, CloseWorked, jobVars, itemVars
      <4>2. QED
        BY <2>1, <4>1, AddsSame
    <3>4. QED
      BY <3>1, <3>2, <3>3
  <2>4. ASSUME NEW w \in Workers, Worker(w)
        PROVE  Adds(j)'
    <3>1. CASE Store(w) /\ worker[w].item \in ItemsOf(j)
      BY <1>1, <2>1, <3>1, AddsStored
    <3>2. CASE Store(w) /\ worker[w].item \notin ItemsOf(j)
      <4>1. worker[w].item \in Items
        BY <1>1, <3>2 DEF Store, StoreAs, TypeInv, WorkersHold, Holding
      <4>2. worker[w].item[1] # j
        BY <3>2, <4>1, OfJob
      <4>3. count'[j] = count[j]
        BY <1>1, <3>2, <4>2 DEF Store, StoreAs
      <4>4. \A i \in ItemsOf(j) : item'[i] = item[i]
        BY <1>1, <3>2, OfJob DEF Store, StoreAs
      <4>5. QED
        BY <2>1, <4>3, <4>4, AddsSame
    <3>3. CASE CommitClaim(w)
      <4>1. item[worker[w].item] \in ItemStatus \ TerminalItem
        BY <1>1, <3>3
           DEF CommitClaim, ClaimAs, ClaimsMatch, ItemStatus, RunnableItem, TerminalItem
      <4>2. "processing" \in ItemStatus \ TerminalItem
        BY DEF ItemStatus, TerminalItem
      <4>3. count' = count /\ item' = [item EXCEPT ![worker[w].item] = "processing"]
        BY <3>3 DEF CommitClaim, ClaimAs, jobVars
      <4>4. \A i \in ItemsOf(j) : i \in Items
        BY OfJob
      <4>5. QED
        BY <1>1, <2>1, <4>1, <4>2, <4>3, <4>4, AddsSame
    <3>4. CASE ~Store(w) /\ ~CommitClaim(w)
      <4>1. UNCHANGED <<count, item>>
        BY <2>4, <3>4
           DEF Worker, CheckState, SelectItem, NothingDue, Answer, CheckToken,
               jobVars, itemVars
      <4>2. QED
        BY <2>1, <4>1, AddsSame
    <3>5. QED
      BY <3>1, <3>2, <3>3, <3>4
  <2>5. CASE Restart
    <3>1. \A i \in ItemsOf(j) : i[1] = j /\ item'[i] = Recovered(i) /\ item[i] \in ItemStatus
      BY <1>1, <2>5, OfJob DEF Restart
    <3>2. CASE status[j] = "cancelling"
      <4>1. count'[j] = [count[j] EXCEPT !.pending = 0]
        BY <2>5, <3>2 DEF Restart
      <4>2. \A i \in ItemsOf(j) :
              item'[i] = IF item[i] \notin TerminalItem THEN "cancelled" ELSE item[i]
        BY <3>1, <3>2 DEF Recovered, TerminalItem
      <4>3. QED
        BY <1>1, <2>1, <4>1, <4>2, AddsCancelled
    <3>3. CASE status[j] # "cancelling"
      <4>1. count'[j] = count[j]
        BY <2>5, <3>3 DEF Restart
      <4>2. \A i \in ItemsOf(j) :
              \/ item'[i] = item[i]
              \/ {item[i], item'[i]} \subseteq ItemStatus \ TerminalItem
        BY <3>1, <3>3 DEF Recovered, ItemStatus, RunnableItem, TerminalItem
      <4>3. QED
        BY <2>1, <4>1, <4>2, AddsSame
    <3>4. QED
      BY <3>2, <3>3
  <2>6. CASE UNCHANGED <<count, item>>
    BY <2>1, <2>6, AddsSame
  <2>7. QED
    BY <1>1, <2>2, <2>3, <2>4, <2>5, <2>6
       DEF Next, Process, Disconnect, Connect, Crash, Stop, Exit, WorkerDies,
           TaskDies, jobVars, itemVars
<1>4. QED
  BY <1>2, <1>3

LEMMA InitUnmoved ==
  ASSUME "db" \notin Faults, "rebalance" \notin Ops
  PROVE  Init => Unmoved
<1> SUFFICES ASSUME Init
             PROVE  ClaimsMatch /\ AttemptsRespected /\ CountsAddUp
  BY InitContext DEF Unmoved, Context, CheckerInv
<1>1. ClaimsMatch
  BY DEF Init, ClaimsMatch, Off, At, Holding
<1>2. AttemptsRespected /\ CountsAddUp
  BY DEF Init, AttemptsRespected, CountsAddUp
<1>3. QED
  BY <1>1, <1>2

LEMMA NextUnmoved == Unmoved /\ [Next]_vars => Unmoved'
<1>1. ASSUME Unmoved, [Next]_vars
      PROVE  Context' /\ MovingInv'
  BY <1>1, NextContext DEF Unmoved, Context
<1>2. ASSUME Unmoved, Next
      PROVE  Unmoved'
  BY <1>1, <1>2, ClaimsMatchStep, AttemptsRespectedStep, CountsAddUpStep
     DEF Unmoved, CheckerInv
<1>3. ASSUME Unmoved, UNCHANGED vars
      PROVE  Unmoved'
  <2>1. UNCHANGED <<status, count, item, owner, token, attempts, worker>>
    BY <1>3 DEF vars, jobVars, itemVars
  <2>2. ClaimsMatch' = ClaimsMatch /\ AttemptsRespected' = AttemptsRespected
    BY <2>1 DEF ClaimsMatch, ShareOf, ItemsOf, AttemptsRespected
  <2>3. CountsAddUp' = CountsAddUp
    BY <2>1 DEF CountsAddUp, Number, ItemsOf
  <2>4. QED
    BY <1>1, <1>3, <2>2, <2>3 DEF Unmoved, CheckerInv
<1>4. QED
  BY <1>2, <1>3

-------------------------------------------------------------------------------
(***************************************************************************)
(* The theorems, for every number of jobs, accounts, numbers, runs and     *)
(* clients, with crashes, graceful stops and connections that come and go. *)
(***************************************************************************)

\* While items are moved between accounts, every claim still has its worker,
\* completion is exact and the accounts' counters are the job's.
THEOREM Moving ==
  ASSUME "db" \notin Faults
  PROVE  Spec => []MovingInv
<1>1. Init => Context
  BY InitContext
<1>2. Context => MovingInv
  BY DEF Context
<1>3. QED
  BY <1>1, <1>2, NextContext, PTL DEF Spec

\* No item is stuck in processing while the process is up: a worker holds it.
THEOREM ClaimsHeld ==
  ASSUME "db" \notin Faults
  PROVE  Spec => []ClaimsAreHeld
<1>1. MovingInv => ClaimsAreHeld
  BY DEF MovingInv
<1>2. QED
  BY <1>1, Moving, PTL

\* A completed job has no open item and reports its errors.
THEOREM CompletedExact ==
  ASSUME "db" \notin Faults
  PROVE  Spec => []CompletedIsExact
<1>1. MovingInv => CompletedIsExact
  BY DEF MovingInv
<1>2. QED
  BY <1>1, Moving, PTL

\* The checker's invariant: what the task, the workers, the requests and the
\* rows of the database know of each other.
THEOREM Checker ==
  ASSUME "db" \notin Faults, "rebalance" \notin Ops
  PROVE  Spec => []CheckerInv
<1>1. Init => Unmoved
  BY InitUnmoved
<1>2. Unmoved => CheckerInv
  BY DEF Unmoved
<1>3. QED
  BY <1>1, <1>2, NextUnmoved, PTL DEF Spec

\* No number is in the hands of two workers: not when a run was paused and
\* started again, not when the process crashed between a claim and its answer.
THEOREM CheckedByOne ==
  ASSUME "db" \notin Faults, "rebalance" \notin Ops
  PROVE  Spec => []OneChecker
<1>1. CheckerInv => OneChecker
  BY DEF CheckerInv, ClaimsMatch, OneChecker, Holds, Holding
<1>2. QED
  BY <1>1, Checker, PTL

\* The counters of a job, kept one result at a time, are those of its items.
THEOREM CountsExact ==
  ASSUME "db" \notin Faults, "rebalance" \notin Ops
  PROVE  Spec => []CountsAddUp
<1>1. CheckerInv => CountsAddUp
  BY DEF CheckerInv
<1>2. QED
  BY <1>1, Checker, PTL

\* A result is final: no worker, finalizer or recovery rewrites it.
THEOREM FinishedStays ==
  ASSUME "db" \notin Faults, "rebalance" \notin Ops
  PROVE  Spec => FinishedItemsStay
<1>1. ASSUME Unmoved, [Next]_vars
      PROVE  [\A i \in Items : item[i] \in TerminalItem => item'[i] = item[i]]_vars
  BY <1>1, FinishedStay
<1>2. Init => Unmoved
  BY InitUnmoved
<1>3. QED
  BY <1>1, <1>2, NextUnmoved, PTL DEF Spec, FinishedItemsStay

===============================================================================
