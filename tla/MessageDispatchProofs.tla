------------------------- MODULE MessageDispatchProofs -------------------------
(***************************************************************************)
(* Theorems about the message sender, for any jobs, accounts, items, runs, *)
(* clients, requests and bounds.                                           *)
(***************************************************************************)
EXTENDS MessageDispatchProperties, TLAPS, FiniteSetTheorems

-------------------------------------------------------------------------------
(***************************************************************************)
(* Types.                                                                  *)
(***************************************************************************)

\* A job has finitely many items, so its counts are numbers.
LEMMA TallyType ==
  ASSUME NEW j \in Jobs
  PROVE  Tally(j) \in Counts
<1>1. IsFiniteSet(ItemsOf(j))
  <2>1. IsFiniteSet({j})
    BY FS_Singleton
  <2>2. IsFiniteSet(1 .. Targets)
    BY FS_Interval, ConstantsAssumption
  <2>3. QED
    BY <2>1, <2>2, FS_Product DEF ItemsOf
<1>2. \A S : Cardinality({i \in ItemsOf(j) : item[i] \in S}) \in Nat
  BY <1>1, FS_Subset, FS_CardinalityType
<1>3. QED
  BY <1>2 DEF Tally, Counts

\* The sets the types are made of; what they have in common is all that the
\* type proofs use of them.
LEMMA Vocabulary ==
  /\ {"queued", "running", "paused", "cancelling", "cancelled", "failed",
      "absent", "completed", "completed_with_errors"} \subseteq JobStatus
  /\ {"absent", "processing", "queued", "cancelled", "in_flight_unknown"}
       \subseteq ItemStatus
  /\ {"ok", "failed", "in_flight_unknown", "rate_limited"}
       \subseteq ItemStatus \intersect Outcomes
  /\ "none" \in Outcomes
BY DEF JobStatus, TerminalJob, ItemStatus, RUNNABLE, TERMINAL, Outcomes

\* A worker's share is made of items.
LEMMA ShareType == \A w \in Workers : Share(w) \subseteq Items
BY DEF Share, ItemsOf, Items, Workers

\* The records the steps build.
LEMMA Records ==
  /\ NoCount \in Counts
  /\ \A pc \in WorkerPc, i \in Items \union {None}, out \in Outcomes :
       At(pc, i, out) \in WorkerState
  /\ Off \in WorkerState
  /\ FreeTask \in TaskState
  /\ Idle \in RequestState
BY Vocabulary
   DEF NoCount, Counts, At, Off, WorkerState, WorkerPc, Outcomes, FreeTask,
       TaskState, Idle, RequestState

\* TypeOK alone is not inductive: what a worker sends and saves must be typed.
WorkersHold ==
  \A w \in Workers :
    /\ worker[w].pc \in Holding \union {"picked"} => worker[w].item \in Items
    /\ worker[w].pc \in {"save", "store"} => worker[w].out \in ItemStatus

TypeInv == TypeOK /\ WorkersHold

LEMMA InitType == Init => TypeInv
BY ConstantsAssumption, Vocabulary, Records
   DEF Init, TypeInv, TypeOK, WorkersHold, Holding, Off, At

LEMMA NextType == TypeInv /\ [Next]_vars => TypeInv'
<1> SUFFICES ASSUME TypeInv, [Next]_vars
             PROVE  TypeInv'
  OBVIOUS
<1> USE DEF TypeInv, TypeOK, WorkersHold, Holding, vars, jobVars, itemVars, netVars
<1>1. ASSUME NEW c \in Clients, NEW j \in Jobs, BeginCreate(c, j)
      PROVE  TypeInv'
  BY <1>1, Vocabulary, Records
     DEF BeginCreate, RequestState
<1>2. ASSUME NEW c \in Clients, CommitCreate(c)
      PROVE  TypeInv'
  BY <1>2, Vocabulary, Records, ConstantsAssumption
     DEF CommitCreate, RequestState, Counts
<1>3. ASSUME NEW c \in Clients, AbortCreate(c)
      PROVE  TypeInv'
  BY <1>3, Vocabulary, Records
     DEF AbortCreate
<1>4. ASSUME NEW c \in Clients, NEW j \in Jobs, NEW op \in Ops, ReadRow(c, j, op)
      PROVE  TypeInv'
  BY <1>4, Vocabulary, Records, ConstantsAssumption
     DEF ReadRow, RequestState
<1>5. ASSUME NEW c \in Clients, CommitRow(c)
      PROVE  TypeInv'
  BY <1>5, Vocabulary, Records
     DEF CommitRow, RequestState, Flush, Assigns, AllOps
<1>6. ASSUME NEW j \in Jobs, NEW r \in Runs, Launch(j, r)
      PROVE  TypeInv'
  BY <1>6, Vocabulary, Records
     DEF Launch, TaskState
<1>7. ASSUME NEW j \in Jobs, MarkRunning(j)
      PROVE  TypeInv'
  BY <1>7, Vocabulary, Records
     DEF MarkRunning, TaskState
<1>8. ASSUME NEW j \in Jobs, StartWorkers(j)
      PROVE  TypeInv'
  BY <1>8, Vocabulary, Records
     DEF StartWorkers, At, Off, TaskState, WorkerPc
<1>9. ASSUME NEW j \in Jobs, SecretMissing(j)
      PROVE  TypeInv'
  BY <1>9, Vocabulary, Records
     DEF SecretMissing
<1>10. ASSUME NEW j \in Jobs, Join(j)
      PROVE  TypeInv'
  BY <1>10, Vocabulary, Records
     DEF Join, TaskState
<1>11. ASSUME NEW j \in Jobs, FinalCount(j)
      PROVE  TypeInv'
  BY <1>11, Vocabulary, Records, TallyType
     DEF FinalCount, TaskState
<1>12. ASSUME NEW j \in Jobs, FinalRead(j)
      PROVE  TypeInv'
  BY <1>12, Vocabulary, Records
     DEF FinalRead, TaskState
<1>13. ASSUME NEW j \in Jobs, CloseCancelled(j)
      PROVE  TypeInv'
  BY <1>13, Vocabulary, Records
     DEF CloseCancelled, TaskState
<1>14. ASSUME NEW j \in Jobs, ClosePaused(j)
      PROVE  TypeInv'
  BY <1>14, Vocabulary, Records
     DEF ClosePaused
<1>15. ASSUME NEW j \in Jobs, CloseWorked(j)
      PROVE  TypeInv'
  BY <1>15, Vocabulary, Records
     DEF CloseWorked, TaskState, Flush, Outcome
<1>16. ASSUME NEW j \in Jobs, WipeSecret(j)
      PROVE  TypeInv'
  BY <1>16, Vocabulary, Records
     DEF WipeSecret
<1>17. ASSUME NEW w \in Workers, CheckStatus(w)
      PROVE  TypeInv'
  BY <1>17, Vocabulary, Records
     DEF CheckStatus, At, Off, Step, WorkerPc, WorkerState
<1>18. ASSUME NEW w \in Workers, SelectItem(w)
      PROVE  TypeInv'
  BY <1>18, Vocabulary, Records, ShareType
     DEF SelectItem, At, Off, Step, WorkerPc, WorkerState
<1>19. ASSUME NEW w \in Workers, CommitClaim(w)
      PROVE  TypeInv'
  <2>1. worker[w].tries \in Nat
    BY DEF WorkerState
  <2>2. attempts' \in [Items -> Nat]
    BY <1>19, <2>1 DEF CommitClaim
  <2>3. worker' \in [Workers -> WorkerState]
    BY <1>19, Vocabulary, Records DEF CommitClaim, Step, WorkerPc
  <2>4. WorkersHold'
    BY <1>19, Vocabulary, Records DEF CommitClaim, Step, At
  <2>5. QED
    BY <1>19, <2>2, <2>3, <2>4, Vocabulary DEF CommitClaim
<1>20. ASSUME NEW w \in Workers, NothingDue(w)
      PROVE  TypeInv'
  BY <1>20, Vocabulary, Records
     DEF NothingDue, At, Off, Step, WorkerPc, WorkerState
<1>21. ASSUME NEW w \in Workers, SendMessage(w)
      PROVE  TypeInv'
  BY <1>21, Vocabulary, Records, ConstantsAssumption, SMTT(30)
     DEF SendMessage, At, Off, Step, WorkerPc, WorkerState
<1>22. ASSUME NEW w \in Workers, ResolveFails(w)
      PROVE  TypeInv'
  BY <1>22, Vocabulary, Records
     DEF ResolveFails, At, Off, Step, WorkerPc, WorkerState
<1>23. ASSUME NEW w \in Workers, ReplyOk(w)
      PROVE  TypeInv'
  BY <1>23, Vocabulary, Records
     DEF ReplyOk, At, Off, Step, WorkerPc, WorkerState
<1>24. ASSUME NEW w \in Workers, FloodReply(w)
      PROVE  TypeInv'
  BY <1>24, Vocabulary, Records
     DEF FloodReply, At, Off, Step, WorkerPc, WorkerState
<1>25. ASSUME NEW w \in Workers, GiveUp(w)
      PROVE  TypeInv'
  BY <1>25, Vocabulary, Records
     DEF GiveUp, At, Off, Step, WorkerPc, WorkerState
<1>26. ASSUME NEW w \in Workers, Save(w)
      PROVE  TypeInv'
  BY <1>26, Vocabulary, Records
     DEF Save, Saved, At, Off, Step, WorkerPc, WorkerState
<1>27. ASSUME NEW w \in Workers, CheckToken(w)
      PROVE  TypeInv'
  BY <1>27, Vocabulary, Records, SMTT(30)
     DEF CheckToken, Saved, At, Off, Step, WorkerPc, WorkerState
<1>28. ASSUME NEW w \in Workers, CountItems(w)
      PROVE  TypeInv'
  <2>1. [At("counted", None, "none") EXCEPT !.count = Tally(w[1])] \in WorkerState
    <3>1. Tally(w[1]) \in Counts
      BY TallyType DEF Workers
    <3>2. QED
      BY <3>1, Vocabulary DEF At, WorkerState, WorkerPc
  <2>2. QED
    BY <1>28, <2>1 DEF CountItems, Step, At
<1>29. ASSUME NEW w \in Workers, WriteCounts(w)
      PROVE  TypeInv'
  <2>1. worker[w].count \in Counts /\ w[1] \in Jobs
    BY DEF WorkerState, Workers
  <2>2. QED
    BY <1>29, <2>1, Vocabulary, Records DEF WriteCounts, Step, At, WorkerPc
<1>30. ASSUME NEW w \in Workers, NEW i \in Items, Execute(w, i)
      PROVE  TypeInv'
  <2>1. worker' \in [Workers -> WorkerState]
    BY <1>30 DEF Execute, WorkerState, WorkerPc
  <2>2. WorkersHold'
    BY <1>30 DEF Execute, WorkerState
  <2>3. QED
    BY <1>30, <2>1, <2>2 DEF Execute
<1>31. ASSUME NEW w \in Workers, NEW i \in Items, Lose(w, i)
      PROVE  TypeInv'
  BY <1>31, Vocabulary
     DEF Lose
<1>32. CASE Crash
  BY <1>32, Vocabulary, Records
     DEF Crash, At, Off
<1>33. CASE Stop
  <2>1. PICK dropped \in SUBSET {w \in Workers : worker[w].pc # "off"} :
          worker' = [w \in Workers |-> Interrupted(w, dropped)]
    BY <1>33 DEF Stop
  <2>2. ASSUME NEW w \in Workers
        PROVE  /\ Interrupted(w, dropped) \in WorkerState
               /\ \/ Interrupted(w, dropped) = worker[w]
                  \/ Interrupted(w, dropped) = Off
                  \/ /\ Interrupted(w, dropped)
                           = At("save", worker[w].item, "in_flight_unknown")
                     /\ worker[w].item \in Items
    BY Vocabulary, Records DEF Interrupted, WorkerPc, WorkerState
  <2>3. WorkersHold'
    BY <2>1, <2>2, Vocabulary DEF Off, At
  <2>4. QED
    BY <1>33, <2>1, <2>2, <2>3, Records DEF Stop
<1>34. CASE Exit
  BY <1>34, Vocabulary, Records
     DEF Exit, At, Off
<1>35. CASE Restart
  BY <1>35, Vocabulary
     DEF Restart, Recovered, Counts
<1>36. ASSUME NEW w \in Workers, WorkerDies(w)
      PROVE  TypeInv'
  BY <1>36, Vocabulary, Records
     DEF WorkerDies, At, Off, Step, TaskState
<1>37. ASSUME NEW j \in Jobs, TaskDies(j)
      PROVE  TypeInv'
  BY <1>37, Vocabulary, Records
     DEF TaskDies
<1>38. ASSUME NEW a \in Accounts, Disconnect(a) \/ Connect(a)
      PROVE  TypeInv'
  BY <1>38
     DEF Disconnect, Connect
<1>39. CASE UNCHANGED vars
  BY <1>39
<1> QED
  BY <1>1, <1>2, <1>3, <1>4, <1>5, <1>6, <1>7, <1>8, <1>9, <1>10, <1>11, <1>12, <1>13, <1>14, <1>15, <1>16, <1>17, <1>18, <1>19, <1>20, <1>21, <1>22, <1>23, <1>24, <1>25, <1>26, <1>28, <1>29, <1>30, <1>31, <1>32, <1>33, <1>34, <1>35, <1>36, <1>37, <1>38, <1>39, <1>27
     DEF Next, Client, JobTask, Worker, Process

\* Every variable keeps its type: TypeOK holds in every reachable state.
THEOREM TypeCorrect == Spec => []TypeOK
<1>1. Spec => []TypeInv
  BY InitType, NextType, PTL DEF Spec
<1>2. TypeInv => TypeOK
  BY DEF TypeInv
<1>3. QED
  BY <1>1, <1>2, PTL

-------------------------------------------------------------------------------
(***************************************************************************)
(* The delivery invariant, one conjunct at a time.  Each lemma has one     *)
(* step for the actions that leave the conjunct's variables alone and one  *)
(* for each action that does not.                                          *)
(***************************************************************************)
Context == "db" \notin Faults /\ TypeInv /\ DeliveryInv

\* The three kinds of actor, and what none of them touches.
LEMMA ClientAlone ==
  ASSUME NEW c \in Clients, Client(c)
  PROVE  UNCHANGED <<runner, token, attempts, mode, task, worker, wire, delivered>>
         \/ CommitRow(c)
BY DEF Client, BeginCreate, CommitCreate, AbortCreate, ReadRow, jobVars,
       itemVars, netVars

LEMMA TaskAlone ==
  ASSUME NEW j \in Jobs, JobTask(j), task \in [Jobs -> TaskState]
  PROVE  /\ \A k \in Jobs \ {j} : task'[k] = task[k]
         /\ UNCHANGED <<attempts, mode, request, wire, delivered>>
BY DEF JobTask, Launch, MarkRunning, StartWorkers, SecretMissing, Join,
       FinalCount, FinalRead, CloseCancelled, ClosePaused, CloseWorked,
       WipeSecret, jobVars, itemVars, netVars

LEMMA WorkerAlone ==
  ASSUME NEW w \in Workers, Worker(w), worker \in [Workers -> WorkerState]
  PROVE  /\ worker[w].pc # "off"
         /\ \A v \in Workers \ {w} : worker'[v] = worker[v]
         /\ UNCHANGED <<status, runner, secret, mode, task, request, delivered>>
BY DEF Worker, CheckStatus, SelectItem, CommitClaim, NothingDue, SendMessage,
       ResolveFails, ReplyOk, FloodReply, GiveUp, CheckToken, Save, CountItems,
       WriteCounts, Step, jobVars, itemVars, netVars

\* A created job stays created.
LEMMA StatusStays ==
  ASSUME Context, Next, NEW j \in Jobs, status'[j] = "absent"
  PROVE  status[j] = "absent"
<1>1. /\ status \in [Jobs -> JobStatus]
      /\ RequestsMatch /\ TasksExist
  BY DEF Context, TypeInv, TypeOK, DeliveryInv
<1>2. ASSUME NEW c \in Clients, Client(c)
      PROVE  status[j] = "absent"
  BY <1>1, <1>2
     DEF Client, BeginCreate, CommitCreate, AbortCreate, ReadRow, CommitRow,
         Flush, Assigns, AllOps, RequestsMatch, jobVars
<1>3. ASSUME NEW k \in Jobs, JobTask(k)
      PROVE  status[j] = "absent"
  BY <1>1, <1>3
     DEF JobTask, Launch, MarkRunning, StartWorkers, SecretMissing, Join,
         FinalCount, FinalRead, CloseCancelled, ClosePaused, CloseWorked,
         WipeSecret, Flush, Outcome, TasksExist, jobVars
<1>4. CASE Restart
  BY <1>1, <1>4 DEF Restart
<1>5. ASSUME NEW w \in Workers, Worker(w)
      PROVE  status[j] = "absent"
  BY <1>5, WorkerAlone DEF Context, TypeInv, TypeOK
<1>6. QED
  BY <1>2, <1>3, <1>4, <1>5
     DEF Next, Process, Disconnect, Connect, Execute, Lose, Crash, Stop, Exit,
         WorkerDies, TaskDies, jobVars

\* A task belongs to a job that was created: it was launched for a queued one.
LEMMA TasksExistStep ==
  ASSUME Context, Next
  PROVE  TasksExist'
<1> SUFFICES ASSUME NEW j \in Jobs, task'[j].pc # "free"
             PROVE  status[j] # "absent"
  BY StatusStays DEF TasksExist
<1>1. /\ task \in [Jobs -> TaskState]
      /\ TasksExist
      /\ "db" \notin Faults
  BY DEF Context, TypeInv, TypeOK, DeliveryInv
<1>2. CASE task'[j].pc = task[j].pc
  BY <1>1, <1>2 DEF TasksExist
<1>3. ASSUME NEW k \in Jobs, JobTask(k), task[j].pc = "free"
      PROVE  status[j] = "queued"
  <2>1. k = j
    BY <1>1, <1>3, TaskAlone
  <2>2. QED
    BY <1>1, <1>3, <2>1
       DEF JobTask, Launch, MarkRunning, StartWorkers, SecretMissing, Join,
           FinalCount, FinalRead, CloseCancelled, ClosePaused, CloseWorked,
           WipeSecret, FreeTask
<1>4. CASE Crash \/ Stop
  BY <1>1, <1>4 DEF Crash, Stop, FreeTask, TasksExist
<1>5. QED
  BY <1>1, <1>2, <1>3, <1>4, ClientAlone, WorkerAlone
     DEF Next, Process, Disconnect, Connect, CommitRow, Execute, Lose, Exit,
         Restart, WorkerDies, TaskDies, TasksExist, Context, TypeInv, TypeOK

\* A worker lives only while its task waits for it.
LEMMA WorkersAwaitedStep ==
  ASSUME Context, Next
  PROVE  WorkersAwaited'
<1> SUFFICES ASSUME NEW v \in Workers, worker'[v].pc # "off"
             PROVE  Share(v) # {} /\ Awaited(v)'
  BY DEF WorkersAwaited, Share, ItemsOf
<1>1. /\ task \in [Jobs -> TaskState]
      /\ worker \in [Workers -> WorkerState]
      /\ WorkersAwaited
      /\ "db" \notin Faults
      /\ v[1] \in Jobs
  BY DEF Context, TypeInv, TypeOK, DeliveryInv, Workers
<1>2. CASE worker[v].pc # "off" /\ UNCHANGED task
  BY <1>1, <1>2 DEF WorkersAwaited, Awaited
<1>3. ASSUME NEW j \in Jobs, JobTask(j)
      PROVE  Share(v) # {} /\ Awaited(v)'
  <2>1. CASE StartWorkers(j) /\ v \in WorkersOf(j, task[j].run)
    BY <1>1, <2>1 DEF StartWorkers, WorkersOf, Awaited, TaskState
  <2>2. CASE worker[v].pc # "off" /\ v[1] # j
    BY <1>1, <1>3, <2>2, TaskAlone DEF WorkersAwaited, Awaited
  <2>3. CASE worker[v].pc # "off" /\ v[1] = j
    <3>1. task[j].pc = "gather" /\ v \in WorkersOf(j, task[j].run)
      BY <1>1, <2>3 DEF WorkersAwaited, Awaited, WorkersOf
    <3>2. FALSE
      BY <1>3, <2>3, <3>1
         DEF JobTask, Launch, MarkRunning, StartWorkers, SecretMissing, Join,
             FinalCount, FinalRead, CloseCancelled, ClosePaused, CloseWorked,
             WipeSecret, Gathered
    <3>3. QED
      BY <3>2
  <2>4. CASE worker[v].pc = "off" /\ ~(StartWorkers(j) /\ v \in WorkersOf(j, task[j].run))
    <3>1. worker'[v] = worker[v]
      BY <1>1, <1>3, <2>4
         DEF JobTask, Launch, MarkRunning, StartWorkers, SecretMissing, Join,
             FinalCount, FinalRead, CloseCancelled, ClosePaused, CloseWorked,
             WipeSecret
    <3>2. QED
      BY <2>4, <3>1
  <2>5. QED
    BY <2>1, <2>2, <2>3, <2>4
<1>4. ASSUME NEW w \in Workers, Worker(w)
      PROVE  worker[v].pc # "off" /\ UNCHANGED task
  BY <1>1, <1>4, WorkerAlone
<1>5. ASSUME NEW w \in Workers, NEW i \in Items, Execute(w, i)
      PROVE  worker[v].pc # "off" /\ UNCHANGED task
  BY <1>1, <1>5 DEF Execute
<1>6. CASE Stop
  <2>1. worker[v].pc # "off" /\ Awaited(v)
    BY <1>1, <1>6 DEF Stop, Interrupted, WorkersAwaited, Off, At
  <2>2. task'[v[1]] = task[v[1]]
    BY <1>1, <1>6, <2>1 DEF Stop, Awaited
  <2>3. QED
    BY <1>1, <2>1, <2>2 DEF WorkersAwaited, Awaited
<1>7. CASE Crash \/ Exit
  BY <1>7 DEF Crash, Exit, Off, At
<1>8. QED
  BY <1>1, <1>2, <1>3, <1>4, <1>5, <1>6, <1>7, ClientAlone
     DEF Next, Process, Disconnect, Connect, CommitRow, Lose, Restart,
         WorkerDies, TaskDies

\* A process that is down has no tasks, one that is not up serves no requests.
LEMMA DownIsQuietStep ==
  ASSUME Context, Next
  PROVE  DownIsQuiet'
<1>1. /\ task \in [Jobs -> TaskState]
      /\ worker \in [Workers -> WorkerState]
      /\ request \in [Clients -> RequestState]
      /\ DownIsQuiet
      /\ "db" \notin Faults
  BY DEF Context, TypeInv, TypeOK, DeliveryInv
<1>2. ASSUME NEW c \in Clients, Client(c)
      PROVE  DownIsQuiet'
  BY <1>1, <1>2
     DEF Client, BeginCreate, CommitCreate, AbortCreate, ReadRow, CommitRow,
         DownIsQuiet, Idle, AllOps
<1>3. ASSUME NEW j \in Jobs, JobTask(j)
      PROVE  DownIsQuiet'
  <2>1. mode = "down" => task[j].pc = "free"
    BY <1>1 DEF DownIsQuiet
  <2>2. mode # "down"
    BY <1>3, <2>1
       DEF JobTask, Launch, MarkRunning, StartWorkers, SecretMissing, Join,
           FinalCount, FinalRead, CloseCancelled, ClosePaused, CloseWorked,
           WipeSecret
  <2>3. QED
    BY <1>1, <1>3, <2>2, TaskAlone DEF DownIsQuiet
<1>4. ASSUME NEW w \in Workers, Worker(w)
      PROVE  DownIsQuiet'
  BY <1>1, <1>4, WorkerAlone DEF DownIsQuiet
<1>5. CASE Crash \/ Stop
  BY <1>1, <1>5 DEF Crash, Stop, DownIsQuiet, FreeTask, Idle
<1>6. CASE Exit
  BY <1>1, <1>6 DEF Exit, Busy, DownIsQuiet
<1>7. QED
  BY <1>1, <1>2, <1>3, <1>4, <1>5, <1>6
     DEF Next, Process, Disconnect, Connect, Execute, Lose, Restart,
         WorkerDies, TaskDies, DownIsQuiet

\* Requests and job rows agree.
LEMMA RequestsMatchStep ==
  ASSUME Context, Next
  PROVE  RequestsMatch'
<1>1. /\ task \in [Jobs -> TaskState]
      /\ worker \in [Workers -> WorkerState]
      /\ request \in [Clients -> RequestState]
      /\ status \in [Jobs -> JobStatus]
      /\ secret \in [Jobs -> BOOLEAN]
      /\ RequestsMatch /\ DownIsQuiet /\ TasksExist
      /\ "db" \notin Faults /\ Ops \subseteq AllOps
  BY ConstantsAssumption DEF Context, TypeInv, TypeOK, DeliveryInv
<1>2. ASSUME NEW c \in Clients, NEW j \in Jobs, BeginCreate(c, j)
      PROVE  RequestsMatch'
  BY <1>1, <1>2 DEF BeginCreate, RequestsMatch, Idle, AllOps, jobVars
<1>3. ASSUME NEW c \in Clients, CommitCreate(c)
      PROVE  RequestsMatch'
  BY <1>1, <1>3 DEF CommitCreate, RequestsMatch, Idle, AllOps
<1>4. ASSUME NEW c \in Clients, NEW j \in Jobs, NEW op \in Ops, ReadRow(c, j, op)
      PROVE  RequestsMatch'
  <2>1. status[j] # "absent"
    BY <1>1, <1>4 DEF ReadRow, Accepts, AllOps
  <2>2. QED
    BY <1>1, <1>4, <2>1 DEF ReadRow, RequestsMatch, AllOps, jobVars
<1>5. ASSUME NEW c \in Clients, CommitRow(c)
      PROVE  RequestsMatch'
  <2>1. /\ \A j \in Jobs : status[j] # "absent" => status'[j] # "absent"
        /\ \A j \in Jobs : j # request[c].job => status'[j] = status[j]
    BY <1>1, <1>5, StatusStays DEF CommitRow
  <2>2. secret' = secret /\ request' = [request EXCEPT ![c] = Idle]
    BY <1>5 DEF CommitRow
  <2>3. QED
    BY <1>1, <1>5, <2>1, <2>2 DEF RequestsMatch, Idle, AllOps, CommitRow
<1>6. ASSUME NEW j \in Jobs, JobTask(j)
      PROVE  RequestsMatch'
  <2>1. status[j] # "absent"
    BY <1>1, <1>6
       DEF JobTask, Launch, MarkRunning, StartWorkers, SecretMissing, Join,
           FinalCount, FinalRead, CloseCancelled, ClosePaused, CloseWorked,
           WipeSecret, TasksExist
  <2>2. /\ request' = request
        /\ \A k \in Jobs \ {j} : status'[k] = status[k] /\ secret'[k] = secret[k]
    BY <1>1, <1>6, TaskAlone
       DEF JobTask, Launch, MarkRunning, StartWorkers, SecretMissing, Join,
           FinalCount, FinalRead, CloseCancelled, ClosePaused, CloseWorked,
           WipeSecret, jobVars
  <2>3. \A k \in Jobs : status[k] # "absent" => status'[k] # "absent"
    BY StatusStays
  <2>4. \A c \in Clients : request[c].op = "create" =>
             request[c].job \in Jobs \ {j}
    BY <1>1, <2>1 DEF RequestsMatch
  <2>5. \A c \in Clients : request[c].op \in AllOps => request[c].job \in Jobs
    BY <1>1 DEF RequestsMatch, AllOps
  <2>6. QED
    BY <1>1, <2>2, <2>3, <2>4, <2>5 DEF RequestsMatch
<1>7. CASE UNCHANGED <<status, secret, request>>
  BY <1>1, <1>7 DEF RequestsMatch
<1>8. CASE Crash \/ Stop
  BY <1>8 DEF Crash, Stop, RequestsMatch, Idle, AllOps
<1>9. CASE Restart
  BY <1>1, <1>9 DEF Restart, DownIsQuiet, RequestsMatch, AllOps
<1>10. QED
  BY <1>1, <1>2, <1>3, <1>4, <1>5, <1>6, <1>7, <1>8, <1>9, WorkerAlone
     DEF Next, Client, Process, Disconnect, Connect, AbortCreate, Execute,
         Lose, Exit, WorkerDies, TaskDies, jobVars

\* Who changes an item's row, and of which job.
LEMMA ItemWriters ==
  ASSUME Context, Next, NEW i \in Items, item'[i] # item[i]
  PROVE  \/ \E c \in Clients : CommitCreate(c) /\ request[c].job = i[1]
                               /\ item'[i] = "queued"
         \/ CloseCancelled(i[1]) /\ item[i] \notin TERMINAL /\ item'[i] = "cancelled"
         \/ \E w \in Workers : (CommitClaim(w) \/ Save(w)) /\ worker[w].item = i
         \/ Restart /\ item'[i] = Recovered(i)
<1>1. /\ item \in [Items -> ItemStatus]
      /\ worker \in [Workers -> WorkerState]
      /\ "db" \notin Faults
      /\ i[1] \in Jobs
  BY DEF Context, TypeInv, TypeOK, DeliveryInv, Items
<1>2. ASSUME NEW c \in Clients, Client(c)
      PROVE  CommitCreate(c) /\ request[c].job = i[1] /\ item'[i] = "queued"
  BY <1>1, <1>2
     DEF Client, BeginCreate, CommitCreate, AbortCreate, ReadRow, CommitRow,
         itemVars, ItemsOf
<1>3. ASSUME NEW j \in Jobs, JobTask(j)
      PROVE  CloseCancelled(i[1]) /\ item[i] \notin TERMINAL /\ item'[i] = "cancelled"
  BY <1>1, <1>3
     DEF JobTask, Launch, MarkRunning, StartWorkers, SecretMissing, Join,
         FinalCount, FinalRead, CloseCancelled, ClosePaused, CloseWorked,
         WipeSecret, itemVars, ItemsOf
<1>4. ASSUME NEW w \in Workers, Worker(w)
      PROVE  (CommitClaim(w) \/ Save(w)) /\ worker[w].item = i
  BY <1>1, <1>4
     DEF Worker, CheckStatus, SelectItem, CommitClaim, NothingDue, SendMessage,
         ResolveFails, ReplyOk, FloodReply, GiveUp, CheckToken, Save, CountItems,
         WriteCounts, itemVars
<1>5. CASE Restart
  BY <1>1, <1>5 DEF Restart
<1>6. QED
  BY <1>2, <1>3, <1>4, <1>5
     DEF Next, Process, Disconnect, Connect, Execute, Lose, Crash, Stop, Exit,
         WorkerDies, TaskDies, itemVars

\* A job's row and its items are created together.
LEMMA RowsTogetherStep ==
  ASSUME Context, Next
  PROVE  RowsTogether'
<1> SUFFICES ASSUME NEW i \in Items
             PROVE  (status'[i[1]] = "absent") <=> (item'[i] = "absent")
  BY DEF RowsTogether
<1>1. /\ status \in [Jobs -> JobStatus]
      /\ task \in [Jobs -> TaskState]
      /\ item \in [Items -> ItemStatus]
      /\ worker \in [Workers -> WorkerState]
      /\ i[1] \in Jobs
      /\ RowsTogether /\ ClaimsMatch /\ TasksExist /\ WorkersKnow /\ RequestsMatch
  BY DEF Context, TypeInv, TypeOK, DeliveryInv, Items
<1>2. ASSUME status'[i[1]] = "absent"
      PROVE  item'[i] = "absent"
  <2>1. status[i[1]] = "absent" /\ item[i] = "absent"
    BY <1>1, <1>2, StatusStays DEF RowsTogether
  <2>2. ~ \E c \in Clients : CommitCreate(c) /\ request[c].job = i[1]
    BY <1>1, <1>2 DEF CommitCreate
  <2>3. ~ CloseCancelled(i[1])
    BY <1>1, <2>1 DEF CloseCancelled, TasksExist
  <2>4. ~ \E w \in Workers : (CommitClaim(w) \/ Save(w)) /\ worker[w].item = i
    BY <1>1, <2>1 DEF CommitClaim, Save, ClaimsMatch, Holding, RUNNABLE
  <2>5. Restart => Recovered(i) = "absent"
    BY <2>1 DEF Recovered
  <2>6. QED
    BY <2>1, <2>2, <2>3, <2>4, <2>5, ItemWriters
<1>3. ASSUME item'[i] = "absent"
      PROVE  item[i] = "absent" /\ status[i[1]] = "absent"
  <2>1. ASSUME NEW w \in Workers, CommitClaim(w) \/ Save(w), worker[w].item = i,
               item'[i] # item[i]
        PROVE  FALSE
    BY <1>1, <1>3, <2>1 DEF CommitClaim, Save, WorkersKnow
  <2>2. Restart /\ item'[i] = Recovered(i) => item[i] = "absent"
    BY <1>3 DEF Recovered
  <2>3. item[i] = "absent"
    BY <1>3, <2>1, <2>2, ItemWriters
  <2>4. QED
    BY <1>1, <2>3 DEF RowsTogether
<1>4. ASSUME status[i[1]] = "absent", item'[i] = "absent"
      PROVE  status'[i[1]] = "absent"
  <2>1. ASSUME NEW c \in Clients, Client(c)
        PROVE  status'[i[1]] = "absent"
    BY <1>1, <1>4, <2>1
       DEF Client, BeginCreate, CommitCreate, AbortCreate, ReadRow, CommitRow,
           RequestsMatch, ItemsOf, Items, jobVars
  <2>2. ASSUME NEW j \in Jobs, JobTask(j)
        PROVE  status'[i[1]] = "absent"
    BY <1>1, <1>4, <2>2
       DEF JobTask, Launch, MarkRunning, StartWorkers, SecretMissing, Join,
           FinalCount, FinalRead, CloseCancelled, ClosePaused, CloseWorked,
           WipeSecret, TasksExist, jobVars
  <2>3. ASSUME NEW w \in Workers, Worker(w)
        PROVE  status'[i[1]] = "absent"
    BY <1>1, <1>4, <2>3, WorkerAlone
  <2>4. QED
    BY <1>1, <1>4, <2>1, <2>2, <2>3
       DEF Next, Process, Disconnect, Connect, Execute, Lose, Crash, Stop,
           Exit, Restart, WorkerDies, TaskDies, jobVars
<1>5. QED
  BY <1>2, <1>3, <1>4

\* Two live workers do not share an item: of a job and an account, only the
\* worker of the job's current run is alive.
LEMMA SharesDisjoint ==
  ASSUME WorkersAwaited,
         NEW v \in Workers, NEW w \in Workers, NEW i \in Share(v),
         worker[v].pc # "off", worker[w].pc # "off", i \in Share(w)
  PROVE  v = w
<1>1. v[1] = w[1] /\ v[2] = w[2]
  BY DEF Share, ItemsOf
<1>2. v[3] = w[3]
  BY <1>1 DEF WorkersAwaited, Awaited
<1>3. QED
  BY <1>1, <1>2 DEF Workers

\* A process that is down has no live worker.
LEMMA DownHasNoWorkers ==
  ASSUME Context, mode = "down", NEW w \in Workers
  PROVE  worker[w].pc = "off"
BY DEF Context, DeliveryInv, WorkersAwaited, Awaited, DownIsQuiet, Workers

\* A task that closes its job has no live worker left.
LEMMA ClosersHaveNoWorkers ==
  ASSUME Context, NEW w \in Workers, CloseCancelled(w[1])
  PROVE  worker[w].pc = "off"
BY DEF Context, DeliveryInv, WorkersAwaited, Awaited, CloseCancelled

\* A worker keeps what it picked and holds what it claimed.
LEMMA ClaimsMatchStep ==
  ASSUME Context, Next
  PROVE  ClaimsMatch'
<1> DEFINE Match(v, state, it, tok) ==
      /\ state.pc \in Holding \union {"picked"} => state.item \in Share(v)
      /\ state.pc = "picked" => it[state.item] \in RUNNABLE
      /\ state.pc \in Holding => it[state.item] = "processing" /\ tok[state.item] = v
<1> SUFFICES ASSUME NEW v \in Workers
             PROVE  Match(v, worker'[v], item', token')
  BY DEF ClaimsMatch, Share, ItemsOf, AccountOf, Holding
<1>1. /\ worker \in [Workers -> WorkerState]
      /\ item \in [Items -> ItemStatus]
      /\ token \in [Items -> Workers \union {None}]
      /\ WorkersAwaited /\ Match(v, worker[v], item, token)
      /\ \A w \in Workers : Match(w, worker[w], item, token)
      /\ "db" \notin Faults
      /\ v[1] \in Jobs
  BY DEF Context, TypeInv, TypeOK, DeliveryInv, ClaimsMatch, Workers
<1>2. CASE worker'[v] = worker[v] /\ UNCHANGED <<item, token>>
  BY <1>1, <1>2
<1>3. ASSUME NEW c \in Clients, CommitCreate(c)
      PROVE  Match(v, worker'[v], item', token')
  <2>1. status[request[c].job] = "absent"
    BY <1>3 DEF CommitCreate, Context, DeliveryInv, RequestsMatch
  <2>2. \A i \in Items : item[i] # "absent" => item'[i] = item[i]
    BY <1>3, <2>1 DEF CommitCreate, ItemsOf, Context, DeliveryInv, RowsTogether
  <2>3. QED
    BY <1>1, <1>3, <2>2, ShareType DEF CommitCreate, RUNNABLE
<1>4. ASSUME NEW j \in Jobs, CloseCancelled(j)
      PROVE  Match(v, worker'[v], item', token')
  <2>1. v[1] = j => worker[v].pc = "off"
    BY <1>4, ClosersHaveNoWorkers
  <2>2. v[1] # j => \A i \in Share(v) : item'[i] = item[i] /\ token'[i] = token[i]
    BY <1>4, ShareType DEF CloseCancelled, Share, ItemsOf
  <2>3. QED
    BY <1>1, <1>4, <2>1, <2>2, ZenonT(60) DEF CloseCancelled, Holding
<1>5. ASSUME NEW j \in Jobs, StartWorkers(j)
      PROVE  Match(v, worker'[v], item', token')
  BY <1>1, <1>5 DEF StartWorkers, itemVars, At, Holding
<1>6. ASSUME NEW w \in Workers, Worker(w), w # v
      PROVE  Match(v, worker'[v], item', token')
  <2>1. worker[w].pc # "off" /\ worker'[v] = worker[v]
    BY <1>1, <1>6, WorkerAlone
  <2>2. \A i \in Share(v) : worker[v].pc # "off" => i \notin Share(w)
    BY <1>1, <1>6, <2>1, SharesDisjoint
  <2>3. \A i \in Items : i \notin Share(w) => item'[i] = item[i] /\ token'[i] = token[i]
    BY <1>1, <1>6
       DEF Worker, CheckStatus, SelectItem, CommitClaim, NothingDue, SendMessage,
           ResolveFails, ReplyOk, FloodReply, GiveUp, CheckToken, Save, CountItems,
           WriteCounts, itemVars, Holding
  <2>4. QED
    BY <1>1, <2>1, <2>2, <2>3, ShareType DEF Holding
<1>7. CASE Worker(v)
  <2>1. CASE CheckStatus(v) \/ NothingDue(v) \/ CountItems(v) \/ WriteCounts(v)
    BY <1>1, <2>1
       DEF CheckStatus, NothingDue, CountItems, WriteCounts, Step, Off, At, Holding
  <2>2. CASE SelectItem(v)
    BY <1>1, <2>2 DEF SelectItem, Step, At, Holding, itemVars
  <2>3. CASE CommitClaim(v)
    BY <1>1, <2>3, ShareType DEF CommitClaim, Step, At, Holding
  <2>4. CASE SendMessage(v) \/ ResolveFails(v) \/ ReplyOk(v) \/ FloodReply(v) \/ GiveUp(v)
    BY <1>1, <2>4
       DEF SendMessage, ResolveFails, ReplyOk, FloodReply, GiveUp, Step, At,
           Holding, itemVars
  <2>5. CASE CheckToken(v) \/ Save(v)
    BY <1>1, <2>5 DEF CheckToken, Save, Saved, Step, Off, At, Holding, itemVars, WorkerState
  <2>6. QED
    BY <1>7, <2>1, <2>2, <2>3, <2>4, <2>5 DEF Worker
<1>8. ASSUME NEW w \in Workers, NEW i \in Items, Execute(w, i)
      PROVE  Match(v, worker'[v], item', token')
  BY <1>1, <1>8 DEF Execute, itemVars, Holding, WorkerState
<1>9. CASE Stop
  BY <1>1, <1>9 DEF Stop, Interrupted, itemVars, Off, At, Holding
<1>10. CASE Crash \/ Exit
  BY <1>10 DEF Crash, Exit, Off, At, Holding
<1>11. CASE Restart
  BY <1>11, DownHasNoWorkers DEF Restart, Holding
<1>12. QED
  BY <1>1, <1>2, <1>3, <1>4, <1>5, <1>6, <1>7, <1>8, <1>9, <1>10, <1>11
     DEF Next, Client, JobTask, Process, Disconnect, Connect, BeginCreate,
         AbortCreate, ReadRow, CommitRow, Launch, MarkRunning, SecretMissing,
         Join, FinalCount, FinalRead, ClosePaused, CloseWorked, WipeSecret,
         Lose, WorkerDies, TaskDies, itemVars

\* The network changes only when a request is sent, refused, executed or lost.
LEMMA NetWriters ==
  ASSUME Context, Next, ~ UNCHANGED <<wire, delivered>>
  PROVE  \/ \E w \in Workers : SendMessage(w) \/ FloodReply(w)
         \/ \E w \in Workers, i \in Items : Execute(w, i) \/ Lose(w, i)
BY DEF Next, Client, JobTask, Worker, Process, Disconnect, Connect,
       BeginCreate, CommitCreate, AbortCreate, ReadRow, CommitRow, Launch,
       MarkRunning, StartWorkers, SecretMissing, Join, FinalCount, FinalRead,
       CloseCancelled, ClosePaused, CloseWorked, WipeSecret, CheckStatus,
       SelectItem, CommitClaim, NothingDue, ResolveFails, ReplyOk, GiveUp,
       CheckToken, Save, CountItems, WriteCounts, Crash, Stop, Exit, Restart,
       WorkerDies, TaskDies, netVars

\* What the network does to an item: at most one copy, never taken back, and
\* an untouched item is touched only by the worker about to send it.
LEMMA NetStep ==
  ASSUME Context, Next, NEW i \in Items
  PROVE  /\ delivered'[i] \in {0, 1}
         /\ delivered[i] = 1 => delivered'[i] = 1
         /\ delivered'[i] = 1 => ~Outstanding(i)'
         /\ Untouched(i) /\ ~Untouched(i)' =>
              \E w \in Workers : SendMessage(w) /\ worker[w].item = i
<1>1. /\ worker \in [Workers -> WorkerState]
      /\ delivered \in [Items -> Nat]
      /\ ItemsDelivered /\ OneRequest
  BY DEF Context, TypeInv, TypeOK, DeliveryInv
<1>2. CASE UNCHANGED <<wire, delivered>>
  BY <1>1, <1>2 DEF ItemsDelivered, Outstanding, Untouched
<1>3. ASSUME NEW w \in Workers, SendMessage(w)
      PROVE  /\ delivered' = delivered
             /\ wire' = wire \union {<<w, worker[w].item>>}
             /\ delivered[worker[w].item] = 0
  BY <1>3 DEF SendMessage, Context, DeliveryInv, WorkersKnow, Untouched
<1>4. ASSUME NEW w \in Workers, SendMessage(w)
      PROVE  /\ delivered'[i] \in {0, 1}
             /\ delivered[i] = 1 => delivered'[i] = 1
             /\ delivered'[i] = 1 => ~Outstanding(i)'
             /\ Untouched(i) /\ ~Untouched(i)' => worker[w].item = i
  <2>1. /\ delivered' = delivered
        /\ delivered[worker[w].item] = 0
        /\ wire' = wire \union {<<w, worker[w].item>>}
    BY <1>3, <1>4
  <2>2. worker[w].item # i => (Outstanding(i)' <=> Outstanding(i))
    BY <2>1 DEF Outstanding
  <2>3. delivered[i] \in {0, 1} /\ (delivered[i] = 1 => ~Outstanding(i))
    BY <1>1 DEF ItemsDelivered
  <2>4. QED
    BY <2>1, <2>2, <2>3 DEF Untouched
<1>5. ASSUME NEW w \in Workers, FloodReply(w)
      PROVE  delivered' = delivered /\ wire' \subseteq wire
  BY <1>5 DEF FloodReply
<1>6. ASSUME NEW w \in Workers, NEW k \in Items, Lose(w, k)
      PROVE  delivered' = delivered /\ wire' \subseteq wire
  BY <1>6 DEF Lose
<1>7. CASE delivered' = delivered /\ wire' \subseteq wire
  BY <1>1, <1>7 DEF ItemsDelivered, Outstanding, Untouched
<1>8. ASSUME NEW w \in Workers, NEW k \in Items, Execute(w, k)
      PROVE  /\ delivered'[i] \in {0, 1}
             /\ delivered[i] = 1 => delivered'[i] = 1
             /\ delivered'[i] = 1 => ~Outstanding(i)'
             /\ Untouched(i) => Untouched(i)'
  <2>1. delivered[k] = 0 /\ Outstanding(k)
    BY <1>1, <1>8 DEF Execute, ItemsDelivered, Outstanding
  <2>2. delivered' = [delivered EXCEPT ![k] = 1] /\ wire' = wire \ {<<w, k>>}
    BY <1>1, <1>8, <2>1 DEF Execute
  <2>3. ~Outstanding(k)'
    BY <1>1, <1>8, <2>2 DEF Execute, OneRequest, Outstanding
  <2>4. QED
    BY <1>1, <2>1, <2>2, <2>3 DEF ItemsDelivered, Outstanding, Untouched
<1>9. QED
  BY <1>2, <1>4, <1>5, <1>6, <1>7, <1>8, NetWriters

\* Only an untouched item gets a request.
LEMMA OneRequestStep ==
  ASSUME Context, Next
  PROVE  OneRequest'
<1>1. OneRequest /\ WorkersKnow
  BY DEF Context, DeliveryInv
<1>2. ASSUME NEW w \in Workers, SendMessage(w)
      PROVE  OneRequest'
  BY <1>1, <1>2
     DEF SendMessage, WorkersKnow, Untouched, Outstanding, OneRequest
<1>3. CASE wire' \subseteq wire
  BY <1>1, <1>3 DEF OneRequest
<1>4. QED
  BY <1>2, <1>3, NetWriters DEF FloodReply, Execute, Lose

\* What the database says of an item agrees with what the network did.
LEMMA ItemsDeliveredStep ==
  ASSUME Context, Next
  PROVE  ItemsDelivered'
<1> SUFFICES ASSUME NEW i \in Items
             PROVE  /\ item'[i] \in RUNNABLE \union {"absent", "failed"} => Untouched(i)'
                    /\ item'[i] = "ok" => delivered'[i] = 1
  BY NetStep DEF ItemsDelivered
<1>1. /\ item \in [Items -> ItemStatus]
      /\ ItemsDelivered /\ ClaimsMatch /\ WorkersKnow
  BY DEF Context, TypeInv, TypeOK, DeliveryInv
<1>2. ASSUME item[i] \notin {"processing"}, Untouched(i)
      PROVE  Untouched(i)'
  BY <1>1, <1>2, NetStep DEF SendMessage, ClaimsMatch, Holding
<1>3. CASE item'[i] = item[i]
  BY <1>1, <1>2, <1>3, NetStep DEF ItemsDelivered, RUNNABLE
<1>4. ASSUME NEW c \in Clients, CommitCreate(c), request[c].job = i[1]
      PROVE  item[i] = "absent"
  BY <1>4
     DEF CommitCreate, Context, DeliveryInv, RequestsMatch, RowsTogether
<1>5. CASE item'[i] = "queued" /\ item[i] = "absent"
  BY <1>1, <1>2, <1>5 DEF ItemsDelivered
<1>6. ASSUME NEW w \in Workers, CommitClaim(w), worker[w].item = i
      PROVE  item'[i] = "processing"
  BY <1>1, <1>6 DEF CommitClaim
<1>7. ASSUME NEW w \in Workers, Save(w), worker[w].item = i, item'[i] # item[i]
      PROVE  /\ item'[i] \in RUNNABLE \union {"absent", "failed"} => Untouched(i)'
             /\ item'[i] = "ok" => delivered'[i] = 1
  <2>1. item'[i] = worker[w].out /\ wire' = wire /\ delivered' = delivered
    BY <1>1, <1>7 DEF Save, netVars
  <2>2. QED
    BY <1>1, <1>7, <2>1
       DEF Save, WorkersKnow, Untouched, Outstanding, RUNNABLE
<1>8. CASE item'[i] \in {"processing", "cancelled", "in_flight_unknown"}
  BY <1>8 DEF RUNNABLE
<1>9. Restart => Recovered(i) \in {item[i], "in_flight_unknown", "cancelled"}
  BY DEF Recovered
<1>10. QED
  BY <1>3, <1>4, <1>5, <1>6, <1>7, <1>8, <1>9, ItemWriters

\* A worker knows what became of the item it holds.
LEMMA WorkersKnowStep ==
  ASSUME Context, Next
  PROVE  WorkersKnow'
<1> DEFINE Knows(state) ==
      /\ state.pc = "send" => Untouched(state.item)
      /\ state.pc = "replied" => delivered[state.item] = 1
      /\ state.pc \in {"save", "store"} =>
           /\ state.out \in {"ok", "failed", "rate_limited", "in_flight_unknown"}
           /\ state.out = "ok" => delivered[state.item] = 1
           /\ state.out \in {"failed", "rate_limited"} => Untouched(state.item)
<1> SUFFICES ASSUME NEW v \in Workers
             PROVE  Knows(worker[v])'
  BY DEF WorkersKnow
<1>1. /\ worker \in [Workers -> WorkerState]
      /\ item \in [Items -> ItemStatus]
      /\ Knows(worker[v])
      /\ WorkersAwaited /\ ClaimsMatch /\ ItemsDelivered /\ OneRequest
  BY DEF Context, TypeInv, TypeOK, DeliveryInv, WorkersKnow
<1>2. worker[v].pc \in Holding => worker[v].item \in Share(v) /\ worker[v].item \in Items
  BY <1>1, ShareType DEF ClaimsMatch
<1>3. CASE worker'[v] = worker[v]
  <2>1. CASE SendMessage(v)
    BY <1>1, <1>3, <2>1 DEF SendMessage, Step, At
  <2>2. ASSUME worker[v].pc \in Holding, Untouched(worker[v].item), ~SendMessage(v)
        PROVE  Untouched(worker[v].item)'
    <3>1. ASSUME NEW w \in Workers, SendMessage(w), worker[w].item = worker[v].item
          PROVE  w = v
      <4>1. worker[w].pc = "send" /\ worker[w].item \in Share(w)
        BY <1>1, <3>1 DEF SendMessage, ClaimsMatch, Holding
      <4>2. QED
        BY <1>1, <1>2, <2>2, <3>1, <4>1, SharesDisjoint DEF Holding
    <3>2. QED
      BY <1>2, <1>3, <2>2, <3>1, NetStep
  <2>3. worker[v].pc \in Holding /\ delivered[worker[v].item] = 1
          => delivered'[worker[v].item] = 1
    BY <1>2, NetStep
  <2>4. QED
    BY <1>1, <1>3, <2>1, <2>2, <2>3 DEF Holding
<1>4. ASSUME NEW j \in Jobs, StartWorkers(j)
      PROVE  Knows(worker[v])'
  BY <1>1, <1>4, <1>3 DEF StartWorkers, At
<1>5. ASSUME NEW w \in Workers, Worker(w), w # v
      PROVE  Knows(worker[v])'
  BY <1>1, <1>3, <1>5, WorkerAlone
<1>6. CASE Worker(v)
  <2>1. CASE CheckStatus(v) \/ SelectItem(v) \/ NothingDue(v) \/ SendMessage(v)
             \/ Save(v) \/ CountItems(v) \/ WriteCounts(v)
    <3>1. worker'[v].pc \in {"off", "check", "claim", "picked", "rpc", "count", "counted"}
      <4>1. CASE CheckStatus(v) \/ NothingDue(v) \/ WriteCounts(v)
        BY <1>1, <4>1 DEF CheckStatus, NothingDue, WriteCounts, Step, Off, At
      <4>2. CASE SendMessage(v) \/ Save(v)
        BY <1>1, <4>2 DEF SendMessage, Save, Saved, Step, Off, At
      <4>3. CASE SelectItem(v)
        BY <1>1, <4>3 DEF SelectItem, Step, At
      <4>4. CASE CountItems(v)
        BY <1>1, <4>4 DEF CountItems, Step, At
      <4>5. QED
        BY <2>1, <4>1, <4>2, <4>3, <4>4
    <3>2. QED
      BY <3>1
  <2>2. CASE CommitClaim(v)
    <3>1. Untouched(worker[v].item)
      BY <1>1, <2>2, ShareType DEF CommitClaim, ClaimsMatch, ItemsDelivered
    <3>2. QED
      BY <1>1, <2>2, <3>1 DEF CommitClaim, Step, At, Untouched, Outstanding, netVars
  <2>3. CASE ResolveFails(v) \/ ReplyOk(v) \/ GiveUp(v)
    <3>1. UNCHANGED <<wire, delivered>>
      BY <2>3 DEF ResolveFails, ReplyOk, GiveUp, netVars
    <3>2. \/ worker[v].pc = "send" /\ worker'[v] = At("save", worker[v].item, "failed")
          \/ worker[v].pc = "replied" /\ worker'[v] = At("save", worker[v].item, "ok")
          \/ worker'[v] = At("save", worker[v].item, "in_flight_unknown")
      BY <1>1, <2>3 DEF ResolveFails, ReplyOk, GiveUp, Step
    <3>3. QED
      <4>1. CASE worker[v].pc = "send" /\ worker'[v] = At("save", worker[v].item, "failed")
        BY <1>1, <3>1, <4>1 DEF At, Untouched, Outstanding
      <4>2. CASE worker[v].pc = "replied" /\ worker'[v] = At("save", worker[v].item, "ok")
        BY <1>1, <3>1, <4>2 DEF At
      <4>3. CASE worker'[v] = At("save", worker[v].item, "in_flight_unknown")
        BY <4>3 DEF At
      <4>4. QED
        BY <3>2, <4>1, <4>2, <4>3
  <2>4. CASE FloodReply(v)
    <3>1. Outstanding(worker[v].item) /\ worker[v].item \in Items
      BY <1>2, <2>4 DEF FloodReply, Outstanding, Holding
    <3>2. delivered[worker[v].item] = 0
      BY <1>1, <3>1 DEF ItemsDelivered
    <3>3. ~ \E w \in Workers : <<w, worker[v].item>> \in wire'
      BY <1>1, <2>4, <3>1 DEF FloodReply, OneRequest
    <3>4. QED
      BY <1>1, <2>4, <3>2, <3>3 DEF FloodReply, Step, At, Untouched, Outstanding
  <2>5. CASE CheckToken(v)
    <3>1. /\ worker'[v] = [worker[v] EXCEPT !.pc = "store"] \/ worker'[v] = Saved(v)
          /\ worker[v].pc = "save"
          /\ UNCHANGED <<wire, delivered>>
      BY <1>1, <2>5 DEF CheckToken, Step, netVars
    <3>2. QED
      BY <1>1, <3>1, SMTT(30) DEF Saved, At, Off, Untouched, Outstanding, WorkerState
  <2>6. QED
    BY <1>6, <2>1, <2>2, <2>3, <2>4, <2>5 DEF Worker
<1>7. ASSUME NEW w \in Workers, NEW i \in Items, Execute(w, i)
      PROVE  Knows(worker[v])'
  <2>1. CASE worker[v].pc = "rpc" /\ worker[v].item = i /\ w = v
    <3>1. delivered[i] = 0
      BY <1>1, <1>7 DEF Execute, ItemsDelivered, Outstanding
    <3>2. delivered'[i] = 1
      BY <1>7, <3>1 DEF Execute, Context, TypeInv, TypeOK
    <3>3. QED
      BY <1>1, <1>7, <2>1, <3>2 DEF Execute, WorkerState
  <2>2. CASE ~(worker[v].pc = "rpc" /\ worker[v].item = i /\ w = v)
    BY <1>1, <1>3, <1>7, <2>2 DEF Execute
  <2>3. QED
    BY <2>1, <2>2
<1>8. CASE Stop
  BY <1>1, <1>3, <1>8 DEF Stop, Interrupted, Off, At
<1>9. CASE Crash \/ Exit
  BY <1>9 DEF Crash, Exit, Off, At
<1>10. QED
  BY <1>3, <1>4, <1>5, <1>6, <1>7, <1>8, <1>9, ClientAlone
     DEF Next, JobTask, Process, Disconnect, Connect, CommitRow, Launch,
         MarkRunning, SecretMissing, Join, FinalCount, FinalRead,
         CloseCancelled, ClosePaused, CloseWorked, WipeSecret, Lose, Restart,
         WorkerDies, TaskDies, Context

\* How an item's row may change.
LEMMA ItemSteps ==
  ASSUME Context, Next, NEW i \in Items, item'[i] # item[i]
  PROVE  \/ item[i] = "absent" /\ item'[i] = "queued"
         \/ item[i] \in RUNNABLE /\ item'[i] = "processing"
         \/ item[i] \notin TERMINAL \union {"absent"} /\ item'[i] = "cancelled"
         \/ /\ item[i] = "processing"
            /\ item'[i] \in {"ok", "failed", "rate_limited", "in_flight_unknown"}
            /\ item'[i] = "ok" => delivered[i] = 1
            /\ item'[i] \in {"failed", "rate_limited"} => Untouched(i)
<1>1. /\ item \in [Items -> ItemStatus]
      /\ status \in [Jobs -> JobStatus]
      /\ i[1] \in Jobs
      /\ RequestsMatch /\ RowsTogether /\ TasksExist /\ ClaimsMatch /\ WorkersKnow
  BY DEF Context, TypeInv, TypeOK, DeliveryInv, Items
<1>2. status[i[1]] = "absent" => item[i] = "absent"
  BY <1>1 DEF RowsTogether
<1>3. ASSUME NEW c \in Clients, CommitCreate(c), request[c].job = i[1]
      PROVE  item[i] = "absent"
  BY <1>1, <1>2, <1>3 DEF CommitCreate, RequestsMatch
<1>4. ASSUME NEW w \in Workers, CommitClaim(w), worker[w].item = i
      PROVE  item[i] \in RUNNABLE /\ item'[i] = "processing"
  BY <1>1, <1>4 DEF CommitClaim, ClaimsMatch
<1>5. ASSUME NEW w \in Workers, Save(w), worker[w].item = i
      PROVE  /\ item[i] = "processing"
             /\ item'[i] = worker[w].out
             /\ item'[i] \in {"ok", "failed", "rate_limited", "in_flight_unknown"}
             /\ item'[i] = "ok" => delivered[i] = 1
             /\ item'[i] \in {"failed", "rate_limited"} => Untouched(i)
  <2>1. item[i] = "processing" /\ item'[i] = worker[w].out
    BY <1>1, <1>5 DEF Save, ClaimsMatch, Holding
  <2>2. QED
    BY <1>1, <1>5, <2>1 DEF Save, WorkersKnow
<1>6. CASE CloseCancelled(i[1]) /\ item[i] \notin TERMINAL /\ item'[i] = "cancelled"
  <2>1. item[i] # "absent"
    BY <1>6, <1>1 DEF CloseCancelled, TasksExist, RowsTogether
  <2>2. QED
    BY <1>6, <2>1
<1>7. CASE Restart /\ item'[i] = Recovered(i)
  BY <1>7, <1>1 DEF Recovered, RowsTogether
<1>8. QED
  BY <1>3, <1>4, <1>5, <1>6, <1>7, ItemWriters

-------------------------------------------------------------------------------
(***************************************************************************)
(* Texts and claims.                                                       *)
(***************************************************************************)

\* A text is deleted by a finalizer, or by recovery with its job's cancel.
LEMMA SecretWriters ==
  ASSUME Context, Next, NEW j \in Jobs, secret[j], ~secret'[j]
  PROVE  WipeSecret(j) \/ (Restart /\ status[j] = "cancelling")
BY ZenonT(60) DEF Next, Client, JobTask, Worker, Process, Disconnect, Connect,
                  BeginCreate, CommitCreate, AbortCreate, ReadRow, CommitRow,
                  Launch, MarkRunning, StartWorkers, SecretMissing, Join,
                  FinalCount, FinalRead, CloseCancelled, ClosePaused,
                  CloseWorked, WipeSecret, CheckStatus, SelectItem,
                  CommitClaim, NothingDue, SendMessage, ResolveFails, ReplyOk,
                  FloodReply, GiveUp, CheckToken, Save, CountItems,
                  WriteCounts, Execute, Lose, Crash, Stop, Exit, Restart,
                  WorkerDies, TaskDies, Context, TypeInv, TypeOK

\* So no item that can go on loses its text.
LEMMA SecretIsKeptStep ==
  ASSUME Context, Next
  PROVE  SecretIsKept'
<1> SUFFICES ASSUME NEW i \in Items, item'[i] \in RUNNABLE \union {"processing"}
             PROVE  secret'[i[1]]
  BY DEF SecretIsKept
<1>1. /\ i[1] \in Jobs /\ i \in ItemsOf(i[1])
      /\ secret \in [Jobs -> BOOLEAN]
      /\ RequestsMatch /\ ClaimsMatch /\ SecretIsKept /\ FinalizerKnows
  BY DEF Context, TypeInv, TypeOK, DeliveryInv, Items, ItemsOf
<1>2. CASE item[i] = "absent" /\ item'[i] # item[i]
  <2>1. ASSUME NEW w \in Workers, CommitClaim(w) \/ Save(w), worker[w].item = i
        PROVE  FALSE
    BY <1>1, <1>2, <2>1 DEF CommitClaim, Save, ClaimsMatch, Holding, RUNNABLE
  <2>2. Recovered(i) \in {"absent", "cancelled"}
    BY <1>2 DEF Recovered
  <2>3. PICK c \in Clients : CommitCreate(c) /\ request[c].job = i[1]
    BY <1>2, <2>1, <2>2, ItemWriters DEF RUNNABLE
  <2>4. QED
    BY <1>1, <2>3 DEF CommitCreate, RequestsMatch
<1>3. CASE item[i] # "absent" \/ item'[i] = item[i]
  <2>1. item[i] \in RUNNABLE \union {"processing"}
    BY <1>3, ItemSteps DEF RUNNABLE, TERMINAL
  <2>2. secret[i[1]]
    BY <1>1, <2>1 DEF SecretIsKept
  <2>3. ~WipeSecret(i[1])
    BY <1>1, <2>1 DEF WipeSecret, FinalizerKnows, RUNNABLE, TERMINAL
  <2>4. ~(Restart /\ status[i[1]] = "cancelling")
    <3>1. SUFFICES ASSUME Restart, status[i[1]] = "cancelling"
                   PROVE  item'[i] \in {"in_flight_unknown", "cancelled"}
      BY DEF RUNNABLE
    <3>2. QED
      BY <2>1, <3>1 DEF Restart, Recovered, RUNNABLE, TERMINAL
  <2>5. QED
    BY <1>1, <2>2, <2>3, <2>4, SecretWriters
<1>4. QED
  BY <1>2, <1>3

\* While the process is up, a claimed item stays with its worker until the
\* worker saves it, and a claim is only made by a worker.
LEMMA ClaimsAreHeldStep ==
  ASSUME Context, Next
  PROVE  ClaimsAreHeld'
<1> SUFFICES ASSUME mode' = "up", NEW i \in Items, item'[i] = "processing"
             PROVE  \E w \in Workers : /\ worker'[w].pc \in Holding
                                       /\ worker'[w].item = i /\ token'[i] = w
  BY DEF ClaimsAreHeld, Holding
<1>1. /\ item \in [Items -> ItemStatus]
      /\ worker \in [Workers -> WorkerState]
      /\ token \in [Items -> Workers \union {None}]
      /\ "db" \notin Faults
      /\ ClaimsAreHeld /\ ClaimsMatch /\ WorkersAwaited /\ WorkersKnow
  BY DEF Context, TypeInv, TypeOK, DeliveryInv
<1>2. ~Restart
  BY <1>1 DEF Restart, Recovered
<1>3. CASE item[i] # "processing"
  <2>1. PICK w \in Workers : (CommitClaim(w) \/ Save(w)) /\ worker[w].item = i
    BY <1>2, <1>3, ItemWriters
  <2>2. ~Save(w)
    BY <1>1, <2>1 DEF Save, WorkersKnow
  <2>3. QED
    BY <1>1, <2>1, <2>2 DEF CommitClaim, Step, At, Holding
<1>4. CASE item[i] = "processing"
  <2>1. mode = "up"
    BY <1>2 DEF Next, Client, JobTask, Worker, Process, Disconnect, Connect,
                BeginCreate, CommitCreate, AbortCreate, ReadRow, CommitRow,
                Launch, MarkRunning, StartWorkers, SecretMissing, Join,
                FinalCount, FinalRead, CloseCancelled, ClosePaused,
                CloseWorked, WipeSecret, CheckStatus, SelectItem, CommitClaim,
                NothingDue, SendMessage, ResolveFails, ReplyOk, FloodReply,
                GiveUp, CheckToken, Save, CountItems, WriteCounts, Execute,
                Lose, Crash, Stop, Exit, WorkerDies, TaskDies
  <2>2. PICK w \in Workers : worker[w].pc \in Holding /\ worker[w].item = i /\ token[i] = w
    BY <1>1, <1>4, <2>1 DEF ClaimsAreHeld, Holding
  <2>3. w[1] \in Jobs /\ task[w[1]].pc = "gather" /\ i \in Items
    BY <1>1, <2>2 DEF WorkersAwaited, Awaited, Holding, Workers
  <2> SUFFICES worker'[w].pc \in Holding /\ worker'[w].item = i /\ token'[i] = w
    OBVIOUS
  <2>4. ASSUME NEW j \in Jobs, JobTask(j)
        PROVE  worker'[w] = worker[w] /\ token'[i] = w
    BY <1>1, <1>4, <2>2, <2>3, <2>4
       DEF JobTask, Launch, MarkRunning, StartWorkers, SecretMissing, Join,
           FinalCount, FinalRead, CloseCancelled, ClosePaused, CloseWorked,
           WipeSecret, WorkersOf, Holding, itemVars
  <2>5. ASSUME NEW v \in Workers, Worker(v), v # w
        PROVE  worker'[w] = worker[w] /\ token'[i] = w
    <3>1. worker'[w] = worker[w]
      BY <1>1, <2>5, WorkerAlone
    <3>2. token'[i] = token[i]
      BY <1>1, <1>4, <2>2, <2>5
         DEF Worker, CheckStatus, SelectItem, CommitClaim, NothingDue, SendMessage,
             ResolveFails, ReplyOk, FloodReply, GiveUp, CheckToken, Save, CountItems,
             WriteCounts, itemVars, ClaimsMatch, Holding, RUNNABLE
    <3>3. QED
      BY <2>2, <3>1, <3>2
  <2>6. CASE Worker(w)
    <3>1. ~Save(w)
      BY <1>1, <2>2 DEF Save, WorkersKnow
    <3>2. CASE CheckToken(w)
      BY <1>1, <2>2, <3>2 DEF CheckToken, Step, itemVars, Holding, WorkerState
    <3>3. CASE SendMessage(w) \/ ResolveFails(w) \/ ReplyOk(w) \/ FloodReply(w) \/ GiveUp(w)
      BY <1>1, <2>2, <3>3
         DEF SendMessage, ResolveFails, ReplyOk, FloodReply, GiveUp, Step, At,
             Holding, itemVars
    <3>4. QED
      BY <2>2, <2>6, <3>1, <3>2, <3>3
         DEF Worker, CheckStatus, SelectItem, CommitClaim, NothingDue, CountItems,
             WriteCounts, Holding
  <2>7. ASSUME NEW v \in Workers, NEW k \in Items, Execute(v, k) \/ Lose(v, k)
        PROVE  worker'[w].pc \in Holding /\ worker'[w].item = i /\ token'[i] = w
    BY <1>1, <2>2, <2>7 DEF Execute, Lose, Holding, itemVars, WorkerState
  <2>8. ASSUME NEW c \in Clients, Client(c)
        PROVE  worker'[w] = worker[w] /\ token'[i] = w
    BY <2>2, <2>8, ClientAlone DEF CommitRow, itemVars
  <2>9. QED
    BY <1>1, <1>2, <2>2, <2>4, <2>5, <2>6, <2>7, <2>8
       DEF Next, Process, Disconnect, Connect, Crash, Stop, Exit, WorkerDies,
           TaskDies, itemVars
<1>5. QED
  BY <1>3, <1>4

-------------------------------------------------------------------------------
(***************************************************************************)
(* The finalizer: its counts, and what a completed job says.               *)
(***************************************************************************)
\* Items that stay leave their counts as they are.
LEMMA TallyStays ==
  ASSUME NEW j \in Jobs, \A i \in ItemsOf(j) : item'[i] = item[i]
  PROVE  Tally(j)' = Tally(j)
<1>1. ItemsOf(j)' = ItemsOf(j)
  BY DEF ItemsOf
<1>2. \A S : {i \in ItemsOf(j) : item'[i] \in S} = {i \in ItemsOf(j) : item[i] \in S}
  OBVIOUS
<1>3. QED
  BY <1>1, <1>2 DEF Tally

\* Counts without an open item are counts of finished ones.
LEMMA NoneOpen ==
  ASSUME item \in [Items -> ItemStatus], NEW j \in Jobs, Tally(j).open = 0
  PROVE  \A i \in ItemsOf(j) : item[i] \in TERMINAL
<1> DEFINE Open == {i \in ItemsOf(j) : item[i] \in ItemStatus \ TERMINAL}
<1>1. IsFiniteSet(Open)
  <2>1. IsFiniteSet({j})
    BY FS_Singleton
  <2>2. IsFiniteSet(1 .. Targets)
    BY FS_Interval, ConstantsAssumption
  <2>3. IsFiniteSet(ItemsOf(j))
    BY <2>1, <2>2, FS_Product DEF ItemsOf
  <2>4. QED
    BY <2>3, FS_Subset
<1>2. Cardinality(Open) = 0
  BY DEF Tally
<1>3. Open = {}
  BY <1>1, <1>2, FS_EmptySet
<1>4. ItemsOf(j) \subseteq Items
  BY DEF ItemsOf, Items
<1>5. QED
  BY <1>3, <1>4

\* While its task finalizes, a job's items and counts are left alone.
LEMMA JobRests ==
  ASSUME Context, Next, NEW j \in Jobs,
         task[j].pc \in {"recount", "load", "close", "wipe"}
  PROVE  /\ ~CloseCancelled(j) => \A i \in ItemsOf(j) : item'[i] = item[i]
         /\ ~FinalCount(j) => tally'[j] = tally[j]
<1>1. /\ RequestsMatch /\ TasksExist /\ WorkersAwaited /\ ClaimsMatch /\ DownIsQuiet
      /\ tally \in [Jobs -> Counts]
      /\ worker \in [Workers -> WorkerState]
      /\ "db" \notin Faults
  BY DEF Context, TypeInv, TypeOK, DeliveryInv
<1>2. ~ \E c \in Clients : CommitCreate(c) /\ request[c].job = j
  BY <1>1 DEF CommitCreate, RequestsMatch, TasksExist
<1>3. \A w \in Workers : w[1] = j => worker[w].pc = "off"
  BY <1>1 DEF WorkersAwaited, Awaited
<1>4. ~Restart
  BY <1>1 DEF Restart, DownIsQuiet
<1>5. ASSUME ~CloseCancelled(j), NEW i \in ItemsOf(j)
      PROVE  item'[i] = item[i]
  <2>1. i \in Items /\ i[1] = j
    BY DEF ItemsOf, Items
  <2>2. ASSUME NEW w \in Workers, CommitClaim(w) \/ Save(w), worker[w].item = i
        PROVE  FALSE
    <3>1. w[1] = j /\ worker[w].pc # "off"
      BY <1>1, <2>1, <2>2 DEF ClaimsMatch, CommitClaim, Save, Holding, Share, ItemsOf
    <3>2. QED
      BY <1>3, <3>1
  <2>3. QED
    BY <1>2, <1>4, <1>5, <2>1, <2>2, ItemWriters
<1>6. ASSUME ~FinalCount(j)
      PROVE  tally'[j] = tally[j]
  <2>1. ASSUME NEW w \in Workers, Worker(w)
        PROVE  tally'[j] = tally[j]
    BY <1>1, <1>3, <2>1
       DEF Worker, CheckStatus, SelectItem, CommitClaim, NothingDue, SendMessage,
           ResolveFails, ReplyOk, FloodReply, GiveUp, CheckToken, Save, CountItems,
           WriteCounts, jobVars
  <2>2. ASSUME NEW c \in Clients, Client(c)
        PROVE  tally'[j] = tally[j]
    BY <1>1, <1>2, <2>2
       DEF Client, BeginCreate, CommitCreate, AbortCreate, ReadRow, CommitRow, jobVars
  <2>3. ASSUME NEW k \in Jobs, JobTask(k)
        PROVE  tally'[j] = tally[j]
    BY <1>1, <1>6, <2>3
       DEF JobTask, Launch, MarkRunning, StartWorkers, SecretMissing, Join,
           FinalCount, FinalRead, CloseCancelled, ClosePaused, CloseWorked,
           WipeSecret, jobVars
  <2>4. QED
    BY <1>4, <2>1, <2>2, <2>3
       DEF Next, Process, Disconnect, Connect, Execute, Lose, Crash, Stop,
           Exit, WorkerDies, TaskDies, jobVars
<1>7. QED
  BY <1>5, <1>6

\* A completed job has finished items, which stay, and nobody recounts them.
LEMMA CompletedRests ==
  ASSUME Context, Next, NEW j \in Jobs, status[j] \in Completed
  PROVE  /\ \A i \in ItemsOf(j) : item[i] \in TERMINAL /\ item'[i] = item[i]
         /\ tally'[j] = tally[j]
<1>1. /\ RequestsMatch /\ WorkersAwaited /\ FinalizerKnows /\ CompletedIsExact
      /\ item \in [Items -> ItemStatus]
      /\ tally \in [Jobs -> Counts]
      /\ worker \in [Workers -> WorkerState]
      /\ "db" \notin Faults
  BY DEF Context, TypeInv, TypeOK, DeliveryInv
<1>2. task[j].pc \in {"free", "wipe"} /\ Tally(j).open = 0
  BY <1>1 DEF FinalizerKnows, CompletedIsExact, Completed
<1>3. \A i \in ItemsOf(j) : item[i] \in TERMINAL
  BY <1>1, <1>2, NoneOpen
<1>4. ASSUME NEW i \in ItemsOf(j)
      PROVE  item'[i] = item[i]
  <2>1. i \in Items
    BY DEF ItemsOf, Items
  <2>2. QED
    BY <1>3, <2>1, ItemSteps DEF TERMINAL, RUNNABLE
<1>5. \A w \in Workers : w[1] = j => worker[w].pc = "off"
  BY <1>1, <1>2 DEF WorkersAwaited, Awaited
<1>6. tally'[j] = tally[j]
  <2>1. ASSUME NEW w \in Workers, Worker(w)
        PROVE  tally'[j] = tally[j]
    BY <1>1, <1>5, <2>1
       DEF Worker, CheckStatus, SelectItem, CommitClaim, NothingDue, SendMessage,
           ResolveFails, ReplyOk, FloodReply, GiveUp, CheckToken, Save, CountItems,
           WriteCounts, jobVars
  <2>2. ASSUME NEW c \in Clients, Client(c)
        PROVE  tally'[j] = tally[j]
    BY <1>1, <2>2
       DEF Client, BeginCreate, CommitCreate, AbortCreate, ReadRow, CommitRow,
           jobVars, RequestsMatch, Completed
  <2>3. ASSUME NEW k \in Jobs, JobTask(k)
        PROVE  tally'[j] = tally[j]
    BY <1>1, <1>2, <2>3
       DEF JobTask, Launch, MarkRunning, StartWorkers, SecretMissing, Join,
           FinalCount, FinalRead, CloseCancelled, ClosePaused, CloseWorked,
           WipeSecret, jobVars
  <2>4. CASE Restart
    BY <2>4 DEF Restart, Completed
  <2>5. QED
    BY <2>1, <2>2, <2>3, <2>4
       DEF Next, Process, Disconnect, Connect, Execute, Lose, Crash, Stop,
           Exit, WorkerDies, TaskDies, jobVars
<1>7. QED
  BY <1>3, <1>4, <1>6

\* A job is completed by its finalizer, with the outcome of its counts.
LEMMA CompletedWriters ==
  ASSUME Context, Next, NEW j \in Jobs,
         status'[j] \in Completed, status'[j] # status[j]
  PROVE  CloseWorked(j) /\ status'[j] = Outcome(task[j].count)
<1>1. /\ status \in [Jobs -> JobStatus]
      /\ RequestsMatch /\ "db" \notin Faults
  BY DEF Context, TypeInv, TypeOK, DeliveryInv
<1>2. ASSUME NEW c \in Clients, Client(c)
      PROVE  FALSE
  BY <1>1, <1>2
     DEF Client, BeginCreate, CommitCreate, AbortCreate, ReadRow, CommitRow,
         jobVars, Flush, Assigns, AllOps, Completed
<1>3. ASSUME NEW k \in Jobs, JobTask(k)
      PROVE  CloseWorked(j) /\ status'[j] = Outcome(task[j].count)
  BY <1>1, <1>3
     DEF JobTask, Launch, MarkRunning, StartWorkers, SecretMissing, Join,
         FinalCount, FinalRead, CloseCancelled, ClosePaused, CloseWorked,
         WipeSecret, Flush, Completed, jobVars
<1>4. ASSUME NEW w \in Workers, Worker(w)
      PROVE  FALSE
  BY <1>4, WorkerAlone DEF Context, TypeInv, TypeOK
<1>5. ~Restart
  BY <1>1 DEF Restart, Completed
<1>6. QED
  BY <1>1, <1>2, <1>3, <1>4, <1>5
     DEF Next, Process, Disconnect, Connect, Execute, Lose, Crash, Stop, Exit,
         WorkerDies, TaskDies, jobVars

\* Where a task that finalizes comes from.
LEMMA FinalizerSteps ==
  ASSUME Context, Next, NEW j \in Jobs
  PROVE  /\ task'[j].pc = "load" => FinalCount(j) \/ task'[j] = task[j]
         /\ task'[j].pc = "close" => FinalRead(j) \/ task'[j] = task[j]
         /\ task'[j].pc = "wipe" =>
              CloseCancelled(j) \/ CloseWorked(j) \/ task'[j] = task[j]
         /\ task'[j].pc \notin {"free", "wipe"} => Launch(j, task'[j].run) \/
              task[j].pc \notin {"free", "wipe"}
<1>1. task \in [Jobs -> TaskState] /\ "db" \notin Faults
  BY DEF Context, TypeInv, TypeOK
<1>2. ASSUME NEW k \in Jobs, JobTask(k), k # j
      PROVE  task'[j] = task[j]
  BY <1>1, <1>2, TaskAlone
<1>3. CASE JobTask(j)
  <2>1. CASE \E r \in Runs : Launch(j, r)
    <3>1. PICK r \in Runs : Launch(j, r)
      BY <2>1
    <3>2. task'[j].run = r /\ task'[j].pc = "begin"
      BY <1>1, <3>1 DEF Launch, FreeTask
    <3>3. QED
      BY <3>1, <3>2
  <2>2. CASE MarkRunning(j) \/ StartWorkers(j) \/ SecretMissing(j) \/ Join(j)
             \/ FinalCount(j)
    BY <1>1, <2>2
       DEF MarkRunning, StartWorkers, SecretMissing, Join, FinalCount, FreeTask,
           TaskState
  <2>3. CASE FinalRead(j)
    BY <1>1, <2>3 DEF FinalRead, FreeTask, TaskState
  <2>4. CASE CloseCancelled(j) \/ ClosePaused(j)
    BY <1>1, <2>4 DEF CloseCancelled, ClosePaused, FreeTask, TaskState
  <2>5. CASE CloseWorked(j) \/ WipeSecret(j)
    BY <1>1, <2>5 DEF CloseWorked, WipeSecret, FreeTask, TaskState
  <2>6. QED
    BY <1>3, <2>1, <2>2, <2>3, <2>4, <2>5 DEF JobTask
<1>4. CASE Crash \/ Stop
  BY <1>1, <1>4 DEF Crash, Stop, FreeTask
<1>5. QED
  BY <1>1, <1>2, <1>3, <1>4, ClientAlone, WorkerAlone
     DEF Next, Process, Disconnect, Connect, CommitRow, Execute, Lose, Exit,
         Restart, WorkerDies, TaskDies, Context, TypeInv, TypeOK

\* The counts the finalizer holds stay those of the items.
LEMMA FinalizerKnowsStep ==
  ASSUME Context, Next
  PROVE  FinalizerKnows'
<1> SUFFICES ASSUME NEW j \in Jobs
    PROVE /\ task'[j].pc \in {"load", "close"} =>
               task'[j].count = Tally(j)' /\ tally'[j] = Tally(j)'
          /\ task'[j].pc = "close" => task'[j].saw \notin Completed
          /\ task'[j].pc = "wipe" => \A i \in ItemsOf(j) : item'[i] \in TERMINAL
          /\ status'[j] \in Completed => task'[j].pc \in {"free", "wipe"}
  BY DEF FinalizerKnows, ItemsOf, Completed
<1>1. /\ task \in [Jobs -> TaskState]
      /\ tally \in [Jobs -> Counts]
      /\ item \in [Items -> ItemStatus]
      /\ FinalizerKnows
      /\ ItemsOf(j) \subseteq Items
  BY DEF Context, TypeInv, TypeOK, DeliveryInv, ItemsOf, Items
<1>2. ASSUME task'[j].pc \in {"load", "close"}
      PROVE  task'[j].count = Tally(j)' /\ tally'[j] = Tally(j)'
  <2>1. CASE FinalCount(j)
    <3>1. Tally(j)' = Tally(j)
      BY <2>1, TallyStays DEF FinalCount, itemVars
    <3>2. QED
      BY <1>1, <2>1, <3>1 DEF FinalCount, TaskState
  <2>2. CASE ~FinalCount(j)
    <3>1. /\ task[j].pc \in {"load", "close"}
          /\ task'[j].count = task[j].count
          /\ ~CloseCancelled(j)
      <4>1. ~CloseCancelled(j)
        BY <1>1, <1>2 DEF CloseCancelled, TaskState
      <4>2. CASE FinalRead(j)
        BY <1>1, <1>2, <4>1, <4>2 DEF FinalRead, FreeTask, TaskState
      <4>3. CASE task'[j] = task[j]
        BY <1>2, <4>1, <4>3
      <4>4. QED
        BY <1>2, <2>2, <4>2, <4>3, FinalizerSteps
    <3>2. Tally(j)' = Tally(j) /\ tally'[j] = tally[j]
      BY <2>2, <3>1, JobRests, TallyStays
    <3>3. QED
      BY <1>1, <3>1, <3>2 DEF FinalizerKnows
  <2>3. QED
    BY <2>1, <2>2
<1>3. ASSUME task'[j].pc = "close"
      PROVE  task'[j].saw \notin Completed
  <2>1. CASE FinalRead(j)
    BY <1>1, <1>3, <2>1 DEF FinalRead, FinalizerKnows, FreeTask, TaskState, Completed
  <2>2. CASE task'[j] = task[j]
    BY <1>1, <1>3, <2>2 DEF FinalizerKnows, Completed
  <2>3. QED
    BY <1>3, <2>1, <2>2, FinalizerSteps
<1>4. ASSUME task'[j].pc = "wipe", NEW i \in ItemsOf(j)
      PROVE  item'[i] \in TERMINAL
  <2>1. CASE CloseCancelled(j)
    BY <1>1, <2>1 DEF CloseCancelled, TERMINAL
  <2>2. CASE CloseWorked(j)
    <3>1. task[j].pc = "close" /\ task[j].count = Tally(j)
      BY <1>1, <2>2 DEF CloseWorked, FinalizerKnows
    <3>2. ~(Tally(j).open > 0)
      BY <1>1, <1>4, <2>2, <3>1 DEF CloseWorked, Outcome, FreeTask
    <3>3. Tally(j).open = 0
      BY <3>2, TallyType DEF Counts
    <3>4. item[i] \in TERMINAL
      BY <1>1, <3>3, NoneOpen
    <3>5. QED
      BY <2>2, <3>4 DEF CloseWorked, itemVars
  <2>3. CASE task'[j] = task[j] /\ ~CloseCancelled(j)
    BY <1>1, <1>4, <2>3, JobRests DEF FinalizerKnows
  <2>4. QED
    BY <1>4, <2>1, <2>2, <2>3, FinalizerSteps
<1>5. ASSUME status'[j] \in Completed
      PROVE  task'[j].pc \in {"free", "wipe"}
  <2>1. CASE status[j] \notin Completed
    <3>1. CloseWorked(j) /\ Outcome(task[j].count) # "queued"
      BY <1>5, <2>1, CompletedWriters DEF Completed
    <3>2. QED
      BY <1>1, <3>1 DEF CloseWorked, TaskState
  <2>2. CASE status[j] \in Completed
    <3>1. task[j].pc \in {"free", "wipe"}
      BY <1>1, <2>2 DEF FinalizerKnows, Completed
    <3>2. ~Launch(j, task'[j].run)
      BY <2>2 DEF Launch, Completed
    <3>3. QED
      BY <3>1, <3>2, FinalizerSteps
  <2>3. QED
    BY <2>1, <2>2
<1>6. QED
  BY <1>2, <1>3, <1>4, <1>5

\* What a completed job says stays true.
LEMMA CompletedIsExactStep ==
  ASSUME Context, Next
  PROVE  CompletedIsExact'
<1> SUFFICES ASSUME NEW j \in Jobs, status'[j] \in Completed
             PROVE  /\ tally'[j] = Tally(j)'
                    /\ tally'[j].open = 0
                    /\ (status'[j] = "completed") <=> (tally'[j].bad = 0)
  BY DEF CompletedIsExact, Completed
<1>1. FinalizerKnows /\ CompletedIsExact /\ status \in [Jobs -> JobStatus]
  BY DEF Context, TypeInv, TypeOK, DeliveryInv
<1>2. CASE status[j] \in Completed
  <2>1. Tally(j)' = Tally(j) /\ tally'[j] = tally[j]
    BY <1>2, CompletedRests, TallyStays
  <2>2. status'[j] = status[j]
    BY <1>1, <1>2, CompletedWriters DEF CloseWorked, FinalizerKnows, Completed
  <2>3. QED
    BY <1>1, <1>2, <2>1, <2>2 DEF CompletedIsExact, Completed
<1>3. CASE status[j] \notin Completed
  <2>1. CloseWorked(j) /\ status'[j] = Outcome(task[j].count)
    BY <1>3, CompletedWriters
  <2>2. task[j].pc = "close" /\ task[j].count = Tally(j) /\ tally[j] = Tally(j)
    BY <1>1, <2>1 DEF CloseWorked, FinalizerKnows
  <2>3. Tally(j)' = Tally(j) /\ tally'[j] = tally[j]
    BY <2>1, TallyStays DEF CloseWorked, itemVars
  <2>4. QED
    BY <2>1, <2>2, <2>3, TallyType DEF Outcome, Counts, Completed
<1>4. QED
  BY <1>2, <1>3

-------------------------------------------------------------------------------
LEMMA InitDelivery == Init => DeliveryInv
BY Vocabulary
   DEF Init, DeliveryInv, WorkersAwaited, TasksExist, DownIsQuiet,
       RequestsMatch, RowsTogether, ClaimsMatch, ItemsDelivered, OneRequest,
       WorkersKnow, ClaimsAreHeld, SecretIsKept, FinalizerKnows, Completed,
       CompletedIsExact, Outstanding, Untouched, Holding, Off, At, FreeTask,
       Idle, AllOps, RUNNABLE, Items

LEMMA NextDelivery == Context /\ [Next]_vars => Context'
<1> SUFFICES ASSUME Context, [Next]_vars
             PROVE  Context'
  OBVIOUS
<1>1. TypeInv'
  BY NextType DEF Context
<1>2. CASE Next
  BY <1>1, <1>2, WorkersAwaitedStep, TasksExistStep, DownIsQuietStep,
     RequestsMatchStep, RowsTogetherStep, ClaimsMatchStep,
     ItemsDeliveredStep, OneRequestStep, WorkersKnowStep, ClaimsAreHeldStep,
     SecretIsKeptStep, FinalizerKnowsStep, CompletedIsExactStep
     DEF Context, DeliveryInv
<1>3. CASE UNCHANGED vars
  <2>1. \A j \in Jobs : Tally(j)' = Tally(j)
    BY <1>3, TallyStays DEF vars, itemVars
  <2>2. (ClaimsAreHeld /\ SecretIsKept /\ FinalizerKnows /\ CompletedIsExact)'
    BY <1>3, <2>1
       DEF Context, DeliveryInv, ClaimsAreHeld, SecretIsKept, FinalizerKnows,
           CompletedIsExact, ItemsOf, vars, jobVars, itemVars
  <2>3. QED
    BY <1>1, <1>3, <2>2
       DEF Context, DeliveryInv, WorkersAwaited, Awaited, TasksExist, DownIsQuiet,
           RequestsMatch, RowsTogether, ClaimsMatch, ItemsDelivered, OneRequest,
           WorkersKnow, Outstanding, Untouched, vars, jobVars, itemVars, netVars
<1>4. QED
  BY <1>2, <1>3

\* The delivery invariant holds in every reachable state: whatever requests,
\* crashes, stops and restarts come, while the database does not fail.
THEOREM Delivery ==
  ASSUME "db" \notin Faults
  PROVE  Spec => []DeliveryInv
<1>1. Init => Context
  BY InitType, InitDelivery DEF Context
<1>2. Spec => []Context
  BY <1>1, NextDelivery, PTL DEF Spec
<1>3. Context => DeliveryInv
  BY DEF Context
<1>4. QED
  BY <1>2, <1>3, PTL

\* No recipient gets the text twice.
THEOREM SentAtMostOnce ==
  ASSUME "db" \notin Faults
  PROVE  Spec => []AtMostOnce
<1>1. DeliveryInv => AtMostOnce
  BY DEF DeliveryInv, ItemsDelivered, AtMostOnce
<1>2. QED
  BY <1>1, Delivery, PTL

\* What an item's row reports is what happened to its message.
THEOREM ReportsAreHonest ==
  ASSUME "db" \notin Faults
  PROVE  Spec => []HonestReports
<1>1. DeliveryInv => HonestReports
  BY DEF DeliveryInv, ItemsDelivered, HonestReports, Untouched
<1>2. QED
  BY <1>1, Delivery, PTL

\* While the process is up, no item is stuck in processing: its claim is in
\* the hands of a live worker.
THEOREM ClaimsHeld ==
  ASSUME "db" \notin Faults
  PROVE  Spec => []ClaimsAreHeld
<1>1. DeliveryInv => ClaimsAreHeld
  BY DEF DeliveryInv
<1>2. QED
  BY <1>1, Delivery, PTL

\* A completed job has no open item, its stored counts are those of its items
\* and it says "with errors" exactly if an item failed.
THEOREM CompletedExact ==
  ASSUME "db" \notin Faults
  PROVE  Spec => []CompletedIsExact
<1>1. DeliveryInv => CompletedIsExact
  BY DEF DeliveryInv
<1>2. QED
  BY <1>1, Delivery, PTL

\* The text of a job that can still send is kept.
THEOREM SecretKept ==
  ASSUME "db" \notin Faults
  PROVE  Spec => []UnfinishedHasSecret
<1>1. DeliveryInv => UnfinishedHasSecret
  BY DEF DeliveryInv, SecretIsKept, UnfinishedHasSecret
<1>2. QED
  BY <1>1, Delivery, PTL

-------------------------------------------------------------------------------
(***************************************************************************)
(* Consequences of the invariant for the steps.                            *)
(***************************************************************************)

\* A finished item is never reopened or rewritten.
THEOREM FinishedStays ==
  ASSUME "db" \notin Faults
  PROVE  Spec => FinishedItemsStay
<1>1. ASSUME Context, [Next]_vars
      PROVE  [\A i \in Items : item[i] \in TERMINAL => item'[i] = item[i]]_vars
  BY <1>1, ItemSteps DEF TERMINAL, RUNNABLE, vars, itemVars
<1>2. Init => Context
  BY InitType, InitDelivery DEF Context
<1>3. QED
  BY <1>1, <1>2, NextDelivery, PTL DEF Spec, FinishedItemsStay

-------------------------------------------------------------------------------
(***************************************************************************)
(* The sender implements OutboxDelivery.  Every step of the code changes   *)
(* the items' rows, or what the network did, or neither; never both.       *)
(***************************************************************************)
LEMMA OutboxInit == Init => Outbox!Init
BY DEF Init, Outbox!Init, ItemReport, InFlight, Outstanding, RUNNABLE

\* A change of rows is a report the promise allows.
LEMMA OutboxReport ==
  ASSUME Context, Next, UNCHANGED <<wire, delivered>>
  PROVE  Outbox!Report
<1>1. UNCHANGED <<InFlight, delivered>>
  BY DEF InFlight, Outstanding
<1>2. item' \in [Items -> ItemStatus]
  BY NextType DEF Context, TypeInv, TypeOK
<1>3. ASSUME NEW i \in Items
      PROVE  /\ ItemReport'[i] \in Outbox!Reports
             /\ \/ ItemReport'[i] = ItemReport[i]
                \/ ItemReport'[i] \in Outbox!Allowed(i)
  <2>1. ItemReport'[i] \in Outbox!Reports
    BY <1>2 DEF ItemReport, Outbox!Reports, ItemStatus, RUNNABLE, TERMINAL
  <2>2. CASE item'[i] = item[i]
    BY <2>1, <2>2 DEF ItemReport
  <2>3. CASE item[i] = "absent" /\ item'[i] = "queued"
    BY <2>1, <2>3 DEF ItemReport, Outbox!Allowed, RUNNABLE
  <2>4. CASE item[i] \in RUNNABLE /\ item'[i] = "processing"
    BY <2>1, <2>4 DEF ItemReport, Outbox!Allowed, RUNNABLE
  <2>5. CASE item[i] \notin TERMINAL \union {"absent"} /\ item'[i] = "cancelled"
    <3>1. item[i] \in RUNNABLE \union {"processing"}
      BY <2>5 DEF Context, TypeInv, TypeOK, ItemStatus
    <3>2. QED
      BY <2>1, <2>5, <3>1 DEF ItemReport, Outbox!Allowed, RUNNABLE
  <2>6. CASE /\ item[i] = "processing"
             /\ item'[i] \in {"ok", "failed", "rate_limited", "in_flight_unknown"}
             /\ item'[i] = "ok" => delivered[i] = 1
             /\ item'[i] \in {"failed", "rate_limited"} => Untouched(i)
    <3>1. Outbox!Untouched(i) <=> Untouched(i)
      BY DEF Outbox!Untouched, Untouched, InFlight
    <3>2. QED
      BY <2>1, <2>6, <3>1 DEF ItemReport, Outbox!Allowed, RUNNABLE
  <2>7. QED
    BY <2>1, <2>2, <2>3, <2>4, <2>5, <2>6, ItemSteps
<1>4. ItemReport' \in [Items -> Outbox!Reports]
  BY <1>3 DEF ItemReport
<1>5. QED
  BY <1>1, <1>3, <1>4 DEF Outbox!Report

\* A change of the network sends, delivers or drops one item's message.
LEMMA OutboxNet ==
  ASSUME Context, Next, ~ UNCHANGED <<wire, delivered>>
  PROVE  \E i \in Items : Outbox!Send(i) \/ Outbox!Arrive(i) \/ Outbox!Vanish(i)
<1>1. /\ worker \in [Workers -> WorkerState]
      /\ delivered \in [Items -> Nat]
      /\ ClaimsMatch /\ OneRequest /\ WorkersKnow
  BY DEF Context, TypeInv, TypeOK, DeliveryInv
<1>2. ASSUME NEW w \in Workers, SendMessage(w)
      PROVE  worker[w].item \in Items /\ Outbox!Send(worker[w].item)
  <2> DEFINE i == worker[w].item
  <2>1. i \in Items /\ item[i] = "processing" /\ Untouched(i)
    BY <1>1, <1>2, ShareType DEF SendMessage, ClaimsMatch, WorkersKnow, Holding
  <2>2. /\ wire' = wire \union {<<w, i>>}
        /\ UNCHANGED <<item, delivered>>
    BY <1>2 DEF SendMessage, itemVars
  <2>3. InFlight' = [InFlight EXCEPT ![i] = TRUE]
    BY <2>1, <2>2 DEF InFlight, Outstanding
  <2>4. QED
    BY <2>1, <2>2, <2>3
       DEF Outbox!Send, ItemReport, InFlight, Untouched, RUNNABLE
<1>3. ASSUME NEW w \in Workers, NEW i \in Items, <<w, i>> \in wire,
             wire' = wire \ {<<w, i>>}
      PROVE  InFlight[i] /\ InFlight' = [InFlight EXCEPT ![i] = FALSE]
  BY <1>1, <1>3 DEF InFlight, Outstanding, OneRequest
<1>4. ASSUME NEW w \in Workers, FloodReply(w)
      PROVE  worker[w].item \in Items /\ Outbox!Vanish(worker[w].item)
  <2>1. worker[w].item \in Items
    BY <1>1, <1>4, ShareType DEF FloodReply, ClaimsMatch, Holding
  <2>2. QED
    BY <1>3, <1>4, <2>1 DEF FloodReply, Outbox!Vanish, ItemReport, itemVars
<1>5. ASSUME NEW w \in Workers, NEW i \in Items, Lose(w, i)
      PROVE  Outbox!Vanish(i)
  BY <1>3, <1>5 DEF Lose, Outbox!Vanish, ItemReport, itemVars
<1>6. ASSUME NEW w \in Workers, NEW i \in Items, Execute(w, i)
      PROVE  Outbox!Arrive(i)
  BY <1>3, <1>6 DEF Execute, Outbox!Arrive, ItemReport, itemVars
<1>7. QED
  BY <1>2, <1>4, <1>5, <1>6, NetWriters

\* The runner with its database, requests, crashes and restarts implements the
\* promise: every step of it is a step of OutboxDelivery or a stutter.
THEOREM ImplementsOutbox ==
  ASSUME "db" \notin Faults
  PROVE  Spec => DeliversAsPromised
<1>1. Context /\ [Next]_vars => [Outbox!Next]_(Outbox!vars)
  <2>1. CASE Context /\ Next
    BY <2>1, OutboxReport, OutboxNet DEF Outbox!Next
  <2>2. CASE UNCHANGED vars
    BY <2>2
       DEF vars, itemVars, netVars, Outbox!vars, ItemReport, InFlight, Outstanding
  <2>3. QED
    BY <2>1, <2>2
<1>2. Init => Context
  BY InitType, InitDelivery DEF Context
<1>3. QED
  BY <1>1, <1>2, OutboxInit, NextDelivery, PTL
     DEF Spec, DeliversAsPromised, Outbox!Spec

-------------------------------------------------------------------------------
(***************************************************************************)
(* Whatever fails, database included: an item reported ok was delivered.   *)
(***************************************************************************)

\* A worker that has its reply, or is about to save it.
Answered(state) ==
  state.pc = "replied" \/ (state.pc \in {"save", "store"} /\ state.out = "ok")

Received(i) == delivered[i] > 0

OkInv ==
  /\ \A i \in Items : item[i] = "ok" => Received(i)
  /\ \A w \in Workers : Answered(worker[w]) => Received(worker[w].item)

LEMMA OkInit == Init => OkInv
BY DEF Init, OkInv, Answered, Off, At

LEMMA OkStep == TypeInv /\ OkInv /\ [Next]_vars => OkInv'
<1> SUFFICES ASSUME TypeInv, OkInv, [Next]_vars
             PROVE  OkInv'
  OBVIOUS
<1>1. /\ worker \in [Workers -> WorkerState]
      /\ item \in [Items -> ItemStatus]
      /\ delivered \in [Items -> Nat]
      /\ \A w \in Workers : Answered(worker[w]) => worker[w].item \in Items
  BY DEF TypeInv, TypeOK, WorkersHold, Holding, Answered
<1>2. ASSUME NEW i \in Items, Received(i)
      PROVE  Received(i)'
  <2>1. ASSUME NEW w \in Workers, NEW k \in Items, Execute(w, k)
        PROVE  delivered'[i] = delivered[i] \/ delivered'[i] = delivered[i] + 1
    BY <1>1, <2>1 DEF Execute
  <2>2. UNCHANGED delivered \/ \E w \in Workers, k \in Items : Execute(w, k)
    BY DEF Next, Client, JobTask, Worker, Process, Disconnect, Connect,
           BeginCreate, CommitCreate, AbortCreate, ReadRow, CommitRow, Launch,
           MarkRunning, StartWorkers, SecretMissing, Join, FinalCount,
           FinalRead, CloseCancelled, ClosePaused, CloseWorked, WipeSecret,
           CheckStatus, SelectItem, CommitClaim, NothingDue, SendMessage,
           ResolveFails, ReplyOk, FloodReply, GiveUp, CheckToken, Save,
           CountItems, WriteCounts, Lose, Crash, Stop, Exit, Restart,
           WorkerDies, TaskDies, netVars, vars
  <2>3. delivered[i] \in Nat
    BY <1>1
  <2>4. QED
    BY <1>2, <2>1, <2>2, <2>3 DEF Received
<1>3. ASSUME NEW w \in Workers, Answered(worker[w])'
      PROVE  Received(worker[w].item)'
  <2>1. CASE worker'[w] = worker[w]
    BY <1>1, <1>2, <1>3, <2>1 DEF OkInv, Answered
  <2>2. CASE Worker(w)
    <3>1. CASE ReplyOk(w)
      BY <1>1, <1>2, <3>1 DEF ReplyOk, Step, At, OkInv, Answered
    <3>2. CASE CheckToken(w)
      BY <1>1, <1>2, <1>3, <3>2
         DEF CheckToken, Step, Saved, Off, At, OkInv, Answered, WorkerState
    <3>3. CASE ResolveFails(w) \/ FloodReply(w) \/ GiveUp(w)
      BY <1>1, <1>3, <3>3 DEF ResolveFails, FloodReply, GiveUp, Step, At, Answered
    <3>4. CASE CheckStatus(w) \/ CommitClaim(w) \/ NothingDue(w) \/ SendMessage(w)
      BY <1>1, <1>3, <3>4
         DEF CheckStatus, CommitClaim, NothingDue, SendMessage, Step, Off, At,
             Answered
    <3>5. CASE Save(w) \/ CountItems(w) \/ WriteCounts(w)
      BY <1>1, <1>3, <3>5
         DEF Save, Saved, CountItems, WriteCounts, Step, Off, At, Answered
    <3>6. CASE SelectItem(w)
      BY <1>1, <1>3, <3>6 DEF SelectItem, Step, At, Answered
    <3>7. QED
      BY <2>2, <3>1, <3>2, <3>3, <3>4, <3>5, <3>6 DEF Worker
  <2>3. ASSUME NEW i \in Items, Execute(w, i), worker[w].pc = "rpc", worker[w].item = i
        PROVE  Received(worker[w].item)'
    <3>1. delivered'[i] = delivered[i] + 1 /\ worker'[w].item = i
      BY <1>1, <2>3 DEF Execute, WorkerState
    <3>2. delivered[i] \in Nat
      BY <1>1
    <3>3. QED
      BY <3>1, <3>2 DEF Received
  <2>4. CASE Crash \/ Stop \/ Exit
    BY <1>1, <1>2, <1>3, <2>4
       DEF Crash, Stop, Exit, Interrupted, Off, At, OkInv, Answered
  <2>5. ASSUME NEW v \in Workers, WorkerDies(v)
        PROVE  worker'[w] = worker[w] \/ worker'[w] = Off
    BY <1>1, <2>5 DEF WorkerDies, Step
  <2>6. ASSUME NEW j \in Jobs, StartWorkers(j)
        PROVE  worker'[w] = worker[w] \/ worker'[w] = At("check", None, "none")
    BY <2>6 DEF StartWorkers
  <2>7. ASSUME NEW v \in Workers, Worker(v), v # w
        PROVE  worker'[w] = worker[w]
    BY <1>1, <2>7, WorkerAlone
  <2>8. ASSUME NEW v \in Workers, NEW i \in Items, Execute(v, i),
               ~(v = w /\ worker[w].pc = "rpc" /\ worker[w].item = i)
        PROVE  worker'[w] = worker[w]
    BY <1>1, <2>8 DEF Execute
  <2>9. CASE UNCHANGED worker
    BY <2>1, <2>9
  <2>10. worker'[w] # Off /\ worker'[w] # At("check", None, "none")
    BY <1>3 DEF Answered, Off, At
  <2>11. QED
    BY <2>1, <2>2, <2>3, <2>4, <2>5, <2>6, <2>7, <2>8, <2>9, <2>10
       DEF Next, Client, JobTask, Process, Disconnect, Connect, BeginCreate,
           CommitCreate, AbortCreate, ReadRow, CommitRow, Launch, MarkRunning,
           SecretMissing, Join, FinalCount, FinalRead, CloseCancelled,
           ClosePaused, CloseWorked, WipeSecret, Lose, Restart, TaskDies, vars
<1>4. ASSUME NEW i \in Items, item'[i] = "ok"
      PROVE  Received(i)'
  <2>1. CASE item[i] = "ok"
    BY <1>1, <1>2, <2>1 DEF OkInv
  <2>2. ASSUME NEW w \in Workers, Save(w), worker[w].item = i, item[i] # "ok"
        PROVE  Received(i)'
    BY <1>1, <1>2, <1>4, <2>2 DEF Save, OkInv, Answered
  <2>3. ASSUME NEW w \in Workers, Save(w), worker[w].item # i
        PROVE  item'[i] = item[i]
    BY <1>1, <2>3 DEF Save
  <2>4. ASSUME NEW w \in Workers, CommitClaim(w)
        PROVE  item[i] = "ok"
    BY <1>1, <1>4, <2>4 DEF CommitClaim
  <2>5. CASE Restart
    <3>1. item'[i] = Recovered(i)
      BY <2>5 DEF Restart
    <3>2. QED
      BY <1>4, <2>1, <3>1 DEF Recovered
  <2>6. ASSUME NEW c \in Clients, CommitCreate(c)
        PROVE  item[i] = "ok"
    BY <1>1, <1>4, <2>6 DEF CommitCreate
  <2>7. ASSUME NEW j \in Jobs, CloseCancelled(j)
        PROVE  item[i] = "ok"
    BY <1>1, <1>4, <2>7 DEF CloseCancelled
  <2>8. CASE UNCHANGED item
    BY <1>4, <2>1, <2>8
  <2>9. QED
    BY <1>4, <2>1, <2>2, <2>3, <2>4, <2>5, <2>6, <2>7, <2>8
       DEF Next, Client, JobTask, Worker, Process, Disconnect, Connect,
           BeginCreate, AbortCreate, ReadRow, CommitRow, Launch, MarkRunning,
           StartWorkers, SecretMissing, Join, FinalCount, FinalRead,
           ClosePaused, CloseWorked, WipeSecret, CheckStatus, SelectItem,
           NothingDue, SendMessage, ResolveFails, ReplyOk, FloodReply, GiveUp,
           CheckToken, CountItems, WriteCounts, Execute, Lose, Crash, Stop,
           Exit, WorkerDies, TaskDies, itemVars, vars
<1>5. QED
  BY <1>3, <1>4 DEF OkInv

\* An item reported ok was delivered, whatever fails: also when a database
\* error leaves workers behind that outlive their run.
THEOREM OkIsDelivered == Spec => []OkMeansDelivered
<1>1. Init => TypeInv /\ OkInv
  BY InitType, OkInit
<1>2. TypeInv /\ OkInv /\ [Next]_vars => (TypeInv /\ OkInv)'
  BY NextType, OkStep
<1>3. TypeInv /\ OkInv => OkMeansDelivered
  BY DEF OkInv, OkMeansDelivered, Received
<1>4. QED
  BY <1>1, <1>2, <1>3, PTL DEF Spec

===============================================================================
