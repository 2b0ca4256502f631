------------------------ MODULE AccountLifecycleProofs ------------------------
(***************************************************************************)
(* The locks, the connections, the removed account and the log of           *)
(* departures hold in every reachable state, for any number of tasks, any   *)
(* scenario of them and any number of failures.  First what every step      *)
(* changes; then one lemma per part of LifecycleInv that says the steps     *)
(* keep it; last, on top of that, what is shown of the account.             *)
(***************************************************************************)
EXTENDS AccountLifecycleProperties, TLAPS, FiniteSetTheorems, SequenceTheorems

-------------------------------------------------------------------------------
(***************************************************************************)
(* Types.                                                                  *)
(***************************************************************************)
Others(t) == \A u \in Tasks \ {t} : task'[u] = task[u]
Stays(t) == /\ task'[t].cli = task[t].cli /\ task'[t].key = task[t].key
            /\ task'[t].plan = task[t].plan
\* The account with another status, the proxy with another slot.
Marked(s) == [row EXCEPT !.status = s]
Moved(s) == [proxy EXCEPT !.slot = s]

Goes(t, to) == Others(t) /\ Stays(t) /\ task'[t].pc = to

\* What the constants and the scenario provide.
LEMMA Given ==
  ASSUME TypeOK
  PROVE  /\ given.kinds \in [Tasks -> TaskKinds]
         /\ given.proxy \in ProxyRow
         /\ given.at \in {"new", "up", "stopped", "deleted"}
         /\ FaultBound \in Nat /\ IsFiniteSet(Tasks)
         /\ None \notin Tasks /\ None \notin Nat /\ None # Origin /\ Origin \notin Tasks
BY LifecycleAssumption DEF TypeOK, Scenario

\* A task's record, field by field.
LEMMA Fields ==
  ASSUME TypeOK, NEW t \in Tasks
  PROVE  /\ task[t] \in TaskRecord
         /\ task[t].pc \in Steps /\ task[t].cli \in Nat \union {None}
         /\ task[t].key \in Keys \union {None} /\ task[t].plan \in Seq(Routes)
         /\ task[t].known \in BOOLEAN /\ task[t].moved \in BOOLEAN
BY DEF TypeOK, TaskRecord

\* A task that goes on keeps what it remembers, and the others everything.
LEMMA Going ==
  ASSUME TypeOK, NEW t \in Tasks, NEW to \in Steps, Go(t, to)
  PROVE  /\ task' \in [Tasks -> TaskRecord] /\ Goes(t, to)
         /\ task'[t].known = task[t].known /\ task'[t].moved = task[t].moved
<1>1. task[t] \in TaskRecord /\ task \in [Tasks -> TaskRecord]
  BY DEF TypeOK
<1> DEFINE r == [task[t] EXCEPT !.pc = to]
<1>2. r \in TaskRecord /\ r.pc = to /\ r.cli = task[t].cli /\ r.key = task[t].key
      /\ r.plan = task[t].plan /\ r.known = task[t].known /\ r.moved = task[t].moved
  BY <1>1 DEF TaskRecord
<1>3. task' = [task EXCEPT ![t] = r]
  BY <1>1 DEF Go
<1> HIDE DEF r
<1>4. task'[t] = r /\ task' \in [Tasks -> TaskRecord] /\ Others(t)
  BY <1>1, <1>2, <1>3 DEF Others
<1>5. QED
  BY <1>2, <1>4 DEF Goes, Stays

\* A task whose record is replaced.
LEMMA Replacing ==
  ASSUME TypeOK, NEW t \in Tasks, NEW r \in TaskRecord, task' = [task EXCEPT ![t] = r]
  PROVE  task' \in [Tasks -> TaskRecord] /\ Others(t) /\ task'[t] = r
BY DEF TypeOK, Others

\* A failure counts, and is one the scenario allows.
LEMMA FaultType ==
  ASSUME TypeOK, NEW f, Fault(f)
  PROVE  faults' \in 0 .. FaultBound /\ faults' = faults + 1 /\ f \in given.faults
<1>1. faults \in 0 .. FaultBound /\ FaultBound \in Nat
  BY Given DEF TypeOK
<1>2. QED
  BY <1>1 DEF Fault

\* The routes a start is to try.
LEMMA PlanType ==
  ASSUME NEW p \in ProxyRow
  PROVE  /\ Plan(p) \in Seq(Routes) /\ Plan(p) # <<>>
         /\ p.enabled => \A i \in DOMAIN Plan(p) : Plan(p)[i] # "direct"
<1>1. \A a \in Routes : /\ <<a>> \in Seq(Routes) /\ <<a>> # <<>>
                        /\ a # "direct" => \A i \in DOMAIN <<a>> : <<a>>[i] # "direct"
  OBVIOUS
<1>2. /\ <<"primary", "fallback">> \in Seq(Routes) /\ <<"primary", "fallback">> # <<>>
      /\ \A i \in DOMAIN <<"primary", "fallback">> : <<"primary", "fallback">>[i] # "direct"
  BY DEF Routes
<1>3. /\ p.enabled \in BOOLEAN /\ p.spare \in BOOLEAN /\ p.slot \in {"primary", "fallback"}
  BY DEF ProxyRow
<1>4. {"direct", "primary", "fallback"} = Routes
  BY DEF Routes
<1>5. QED
  BY <1>1, <1>2, <1>3, <1>4 DEF Plan

\* Where the stop of a client leads.
LEMMA AfterStopType ==
  ASSUME TypeOK, NEW t \in Tasks
  PROVE  /\ AfterStop(t) \in {"halt", "lock", "clear"}
         /\ task[t].pc \in {"stop", "disconnect"} =>
              AfterStop(t) = IF Kind(t) = "shutdown" THEN "halt" ELSE "lock"
         /\ task[t].pc \notin {"stop", "disconnect"} => AfterStop(t) = "clear"
BY DEF AfterStop

\* Where the clearing of the stored session leads.
LEMMA AfterClearType ==
  ASSUME TypeOK, NEW t \in Tasks
  PROVE  /\ AfterClear(t) \in {"refused", "promote", "take", "commit", "unlink", "done"}
         /\ lock = t => AfterClear(t) = "refused"
         /\ lock # t /\ Kind(t) = "login" => AfterClear(t) = "promote"
         /\ lock # t /\ Kind(t) = "qr" => AfterClear(t) \in {"promote", "take"}
         /\ lock # t /\ Kind(t) = "sync" => AfterClear(t) = "commit"
         /\ lock # t /\ Kind(t) = "delete" => AfterClear(t) = "unlink"
         /\ lock # t /\ Kind(t) \notin {"login", "qr", "sync", "delete"} => AfterClear(t) = "done"
BY DEF AfterClear

-------------------------------------------------------------------------------
(***************************************************************************)
(* What each step changes.                                                 *)
(***************************************************************************)

\* An operation or a reconnection gets the operation lock.
LEMMA OpLockStep ==
  ASSUME TypeOK, NEW t \in Tasks, OpLock(t)
  PROVE  /\ task' \in [Tasks -> TaskRecord] /\ Others(t)
         /\ task[t].pc = "oplock" /\ op = None /\ op' = t /\ Stays(t)
         /\ task'[t].pc = IF Kind(t) = "operation" THEN "act" ELSE "stop"
         /\ UNCHANGED <<row, gone, store, file, proxy, client, lock, backoff,
                     ticket, conn, world, alive, made, met, revived, noted, latest, given, faults>>
BY Going, Fields DEF OpLock, Goes, Stays, Steps, Starting, Stopping,
   stored, memory, telegram, past, Status, Marked, Moved

\* An operation ends.
LEMMA ActStep ==
  ASSUME TypeOK, NEW t \in Tasks, Act(t)
  PROVE  /\ task' \in [Tasks -> TaskRecord] /\ Others(t)
         /\ task[t].pc = "act" /\ op' = None /\ Goes(t, "done")
         /\ \/ row' = row /\ noted' = noted
            \/ world # "ok" /\ row' = Marked(world) /\ noted' = TRUE
         /\ UNCHANGED <<gone, store, file, proxy, client, lock, backoff, ticket,
                     conn, world, alive, made, met, revived, latest, given, faults>>
BY Going, Fields DEF Act, Goes, Stays, Steps, Starting, Stopping,
   stored, memory, telegram, past, Status, Marked, Moved

\* The session of a stopped client is stored.
LEMMA SaveStep ==
  ASSUME TypeOK, NEW t \in Tasks, Save(t)
  PROVE  /\ task' \in [Tasks -> TaskRecord] /\ Others(t)
         /\ task[t].pc = "save" /\ Goes(t, "disconnect")
         /\ store' \in {store, KeyOf(t)}
         /\ UNCHANGED <<row, gone, file, proxy, client, lock, op, backoff,
                     ticket, conn, world, alive, made, met, revived, noted, latest, given, faults>>
BY Going, Fields DEF Save, Goes, Stays, Steps, Starting, Stopping, KeyOf,
   stored, memory, telegram, past

\* A stopped client is disconnected.
LEMMA DisconnectStep ==
  ASSUME TypeOK, NEW t \in Tasks, Disconnect(t)
  PROVE  /\ task' \in [Tasks -> TaskRecord] /\ Others(t)
         /\ task[t].pc \in {"disconnect", "hangup"} /\ Goes(t, AfterStop(t))
         /\ conn' = conn \ {task[t].cli}
         /\ UNCHANGED <<row, gone, store, file, proxy, client, lock, op, backoff,
                     ticket, world, alive, made, met, revived, noted, latest, given, faults>>
BY Going, Fields, AfterStopType DEF Disconnect, Goes, Stays, Steps, Starting, Stopping,
   stored, memory, telegram, past, Status, Marked, Moved

\* The stored session is cleared.
LEMMA ClearStep ==
  ASSUME TypeOK, NEW t \in Tasks, Clear(t)
  PROVE  /\ task' \in [Tasks -> TaskRecord] /\ Others(t)
         /\ task[t].pc = "clear" /\ store' = None /\ Goes(t, AfterClear(t))
         /\ UNCHANGED <<row, gone, file, proxy, client, lock, op, backoff,
                     ticket, conn, world, alive, made, met, revived, noted, latest, given, faults>>
BY Going, Fields, AfterClearType DEF Clear, Goes, Stays, Steps, Starting, Stopping,
   stored, memory, telegram, past, Status, Marked, Moved

\* A login puts its session into the file.
LEMMA PromoteStep ==
  ASSUME TypeOK, NEW t \in Tasks, Promote(t)
  PROVE  /\ task' \in [Tasks -> TaskRecord] /\ Others(t)
         /\ task[t].pc = "promote" /\ Goes(t, "commit")
         /\ file' = t /\ latest' = t
         /\ UNCHANGED <<row, gone, store, proxy, client, lock, op, backoff,
                     ticket, conn, world, alive, made, met, revived, noted, given, faults>>
BY Going, Fields DEF Promote, Goes, Stays, Steps, Starting, Stopping,
   stored, memory, telegram, past, Status, Marked, Moved

\* The file is removed.
LEMMA UnlinkStep ==
  ASSUME TypeOK, NEW t \in Tasks, Unlink(t)
  PROVE  /\ task' \in [Tasks -> TaskRecord] /\ Others(t)
         /\ task[t].pc = "unlink" /\ file' = None /\ Goes(t, "remove")
         /\ UNCHANGED <<row, gone, store, proxy, client, lock, op, backoff,
                     ticket, conn, world, alive, made, met, revived, noted, latest, given, faults>>
BY Going, Fields DEF Unlink, Goes, Stays, Steps, Starting, Stopping,
   stored, memory, telegram, past, Status, Marked, Moved

\* The account is removed.
LEMMA CommitDeleteStep ==
  ASSUME TypeOK, NEW t \in Tasks, CommitDelete(t)
  PROVE  /\ task' \in [Tasks -> TaskRecord] /\ Others(t)
         /\ task[t].pc = "remove" /\ Goes(t, "done")
         /\ row' = [row EXCEPT !.deleted = TRUE, !.status = "removed"]
         /\ gone' \in {gone, Append(gone, "removed")}
         /\ UNCHANGED <<store, file, proxy, client, lock, op, backoff, ticket,
                     conn, world, alive, made, met, revived, noted, latest, given, faults>>
BY Going, Fields DEF CommitDelete, Goes, Stays, Steps, Starting, Stopping,
   stored, memory, telegram, past, Status, Marked, Moved

\* A start gets the lifecycle lock, or finds a client.
LEMMA LockStep ==
  ASSUME TypeOK, NEW t \in Tasks, Lock(t)
  PROVE  /\ task' \in [Tasks -> TaskRecord] /\ Others(t)
         /\ task[t].pc = "lock" /\ lock = None
         /\ \/ client # None /\ lock' = lock /\ Goes(t, "started")
            \/ client = None /\ lock' = t /\ Goes(t, "load")
         /\ UNCHANGED <<row, gone, store, file, proxy, client, op, backoff,
                     ticket, conn, world, alive, made, met, revived, noted, latest, given, faults>>
BY Going, Fields DEF Lock, Goes, Stays, Steps, Starting, Stopping,
   stored, memory, telegram, past, Status, Marked, Moved

\* Telegram does not know the session of a start.
LEMMA UnauthorizedStep ==
  ASSUME TypeOK, NEW t \in Tasks, Unauthorized(t)
  PROVE  /\ task' \in [Tasks -> TaskRecord] /\ Others(t)
         /\ task[t].pc = "connect" /\ Stays(t) /\ task'[t].pc \in {"refused", "clear"}
         /\ row' = Marked("auth_required")
         /\ UNCHANGED <<gone, store, file, proxy, client, lock, op, backoff,
                     ticket, conn, world, alive, made, met, revived, noted, latest, given, faults>>
BY Going, Fields DEF Unauthorized, Goes, Stays, Steps, Starting, Stopping,
   stored, memory, telegram, past, Status, Marked, Moved

\* A departure is logged.
LEMMA LogGoneStep ==
  ASSUME TypeOK, NEW t \in Tasks, LogGone(t)
  PROVE  /\ task' \in [Tasks -> TaskRecord] /\ Others(t)
         /\ task[t].pc = "log" /\ Goes(t, IF lock = t THEN "clear" ELSE "drop")
         /\ \/ row' = row /\ gone' = gone
            \/ row' = Marked(world) /\ gone' = Append(gone, world)
         /\ UNCHANGED <<store, file, proxy, client, lock, op, backoff, ticket,
                     conn, world, alive, made, met, revived, noted, latest, given, faults>>
BY Going, Fields DEF LogGone, Goes, Stays, Steps, Starting, Stopping,
   stored, memory, telegram, past, Status, Marked, Moved

\* A new client is registered.
LEMMA RegisterStep ==
  ASSUME TypeOK, NEW t \in Tasks, Register(t)
  PROVE  /\ task' \in [Tasks -> TaskRecord] /\ Others(t)
         /\ task[t].pc = "connect" /\ Goes(t, "settle")
         /\ proxy' \in {proxy, Moved("fallback")}
         /\ client' = task[t].cli /\ conn' = conn \union {task[t].cli} /\ backoff' = FALSE
         /\ UNCHANGED <<row, gone, store, file, lock, op, ticket, world, alive,
                     made, met, revived, noted, latest, given, faults>>
BY Going, Fields DEF Register, Goes, Stays, Steps, Starting, Stopping,
   stored, memory, telegram, past, Status, Marked, Moved

\* A start is noted.
LEMMA SettleStep ==
  ASSUME TypeOK, NEW t \in Tasks, Settle(t)
  PROVE  /\ task' \in [Tasks -> TaskRecord] /\ Others(t)
         /\ task[t].pc = "settle" /\ Goes(t, "keep")
         /\ row' = Marked("connected")
         /\ UNCHANGED <<gone, store, file, proxy, client, lock, op, backoff,
                     ticket, conn, world, alive, made, met, revived, noted, latest, given, faults>>
BY Going, Fields DEF Settle, Goes, Stays, Steps, Starting, Stopping,
   stored, memory, telegram, past, Status, Marked, Moved

\* The session of a started client is stored.
LEMMA KeepStep ==
  ASSUME TypeOK, NEW t \in Tasks, Keep(t)
  PROVE  /\ task' \in [Tasks -> TaskRecord] /\ Others(t)
         /\ task[t].pc = "keep" /\ Goes(t, "started")
         /\ store' = KeyOf(t)
         /\ \/ row' = row /\ noted' = noted
            \/ world # "ok" /\ row' = Marked(world) /\ noted' = TRUE
         /\ UNCHANGED <<gone, file, proxy, client, lock, op, backoff, ticket,
                     conn, world, alive, made, met, revived, latest, given, faults>>
BY Going, Fields DEF Keep, Goes, Stays, Steps, Starting, Stopping,
   stored, memory, telegram, past, Status, Marked, Moved

\* A start is over.
LEMMA LeaveStep ==
  ASSUME TypeOK, NEW t \in Tasks, Leave(t)
  PROVE  /\ task' \in [Tasks -> TaskRecord] /\ Others(t)
         /\ task[t].pc \in {"started", "refused", "unreachable"} /\ Goes(t, "done")
         /\ lock' = (IF lock = t THEN None ELSE lock) /\ op' = (IF op = t THEN None ELSE op)
         /\ \/ row' = row /\ backoff' = backoff
            \/ row' = Marked("network_error") /\ backoff' = TRUE /\ Kind(t) = "refresh"
         /\ UNCHANGED <<gone, store, file, proxy, client, ticket, conn, world,
                     alive, made, met, revived, noted, latest, given, faults>>
BY Going, Fields DEF Leave, Goes, Stays, Steps, Starting, Stopping,
   stored, memory, telegram, past, Status, Marked, Moved, Release

\* A round of the status loop looks at its client.
LEMMA LookStep ==
  ASSUME TypeOK, NEW t \in Tasks, Look(t)
  PROVE  /\ task' \in [Tasks -> TaskRecord] /\ Others(t)
         /\ task[t].pc = "look" /\ Stays(t) /\ task'[t].pc \in {"done", "ask", "redial"}
         /\ row' \in {row, Marked("reconnecting"), Marked("disconnected")}
         /\ UNCHANGED <<gone, store, file, proxy, client, lock, op, backoff,
                     ticket, conn, world, alive, made, met, revived, noted, latest, given, faults>>
BY Going, Fields DEF Look, Goes, Stays, Steps, Starting, Stopping,
   stored, memory, telegram, past, Status, Marked, Moved

\* It connects its client again.
LEMMA RedialStep ==
  ASSUME TypeOK, NEW t \in Tasks, Redial(t)
  PROVE  /\ task' \in [Tasks -> TaskRecord] /\ Others(t)
         /\ task[t].pc = "redial" /\ Goes(t, "ask")
         /\ conn' = conn \union {task[t].cli}
         /\ revived' = IF task[t].cli = client THEN revived ELSE revived \union {task[t].cli}
         /\ UNCHANGED <<row, gone, store, file, proxy, client, lock, op, backoff,
                     ticket, world, alive, made, met, noted, latest, given, faults>>
BY Going, Fields DEF Redial, Goes, Stays, Steps, Starting, Stopping,
   stored, memory, telegram, past, Status, Marked, Moved

\* It asks whether the session is authorized.
LEMMA AskStep ==
  ASSUME TypeOK, NEW t \in Tasks, Ask(t)
  PROVE  /\ task' \in [Tasks -> TaskRecord] /\ Others(t)
         /\ task[t].pc = "ask" /\ Stays(t) /\ task'[t].pc \in {"done", "drop"}
         /\ row' \in {Marked("connected"), Marked("auth_required")}
         /\ backoff' = FALSE
         /\ UNCHANGED <<gone, store, file, proxy, client, lock, op, ticket, conn,
                     world, alive, made, met, revived, noted, latest, given, faults>>
BY Going, Fields DEF Ask, Goes, Stays, Steps, Starting, Stopping,
   stored, memory, telegram, past, Status, Marked, Moved

\* It loses the connection.
LEMMA LoseContactStep ==
  ASSUME TypeOK, NEW t \in Tasks, LoseContact(t)
  PROVE  /\ task' \in [Tasks -> TaskRecord] /\ Others(t)
         /\ task[t].pc \in {"redial", "ask"} /\ Goes(t, "lost")
         /\ faults' \in 0 .. FaultBound /\ faults' >= faults
         /\ UNCHANGED <<row, gone, store, file, proxy, client, lock, op, backoff,
                     ticket, conn, world, alive, made, met, revived, noted, latest, given>>
<1>1. faults \in Nat
  BY Given DEF TypeOK
<1>2. Go(t, "lost") /\ task[t].pc \in {"redial", "ask"} /\ Fault("network")
  BY DEF LoseContact
<1>3. faults' \in 0 .. FaultBound /\ faults' >= faults
  BY <1>1, <1>2, FaultType
<1>4. task' \in [Tasks -> TaskRecord] /\ Goes(t, "lost")
  BY <1>2, Going DEF Steps
<1>5. QED
  BY <1>2, <1>3, <1>4 DEF LoseContact, Goes, stored, memory, telegram, past

\* It moves the account to the spare proxy, or gives up.
LEMMA FailOverStep ==
  ASSUME TypeOK, NEW t \in Tasks, FailOver(t)
  PROVE  /\ task' \in [Tasks -> TaskRecord] /\ Others(t)
         /\ task[t].pc = "lost" /\ Stays(t) /\ task'[t].pc \in {"stop", "done"}
         /\ row' \in {Marked("proxy_error"), Marked("network_error")}
         /\ proxy' \in {proxy, Moved("fallback")}
         /\ backoff' \in BOOLEAN
         /\ UNCHANGED <<gone, store, file, client, lock, op, ticket, conn, world,
                     alive, made, met, revived, noted, latest, given, faults>>
<1>1. backoff \in BOOLEAN
  BY DEF TypeOK
<1>2. QED
  BY <1>1, Going, Fields DEF FailOver, Goes, Stays, Steps, Starting, Stopping,
     stored, memory, telegram, past, Status, Marked, Moved

\* A request switches the slot.
LEMMA SwitchSlotStep ==
  ASSUME TypeOK, NEW t \in Tasks, SwitchSlot(t)
  PROVE  /\ task' \in [Tasks -> TaskRecord] /\ Others(t)
         /\ task[t].pc = "slot" /\ Stays(t) /\ task'[t].pc \in {"done", "oplock"}
         /\ \/ proxy' = proxy
            \/ \E slot \in {"primary", "fallback"} : proxy' = Moved(slot)
         /\ UNCHANGED <<row, gone, store, file, client, lock, op, backoff,
                     ticket, conn, world, alive, made, met, revived, noted, latest, given, faults>>
BY Going, Fields DEF SwitchSlot, Goes, Stays, Steps, Starting, Stopping,
   stored, memory, telegram, past, Status, Marked, Moved

\* A request saves or deletes the proxy.
LEMMA SaveProxyStep ==
  ASSUME TypeOK, NEW t \in Tasks, SaveProxy(t)
  PROVE  /\ task' \in [Tasks -> TaskRecord] /\ Others(t)
         /\ task[t].pc = "proxy" /\ Goes(t, "done")
         /\ proxy' \in ProxyRow
         /\ UNCHANGED <<row, gone, store, file, client, lock, op, backoff,
                     ticket, conn, world, alive, made, met, revived, noted, latest, given, faults>>
<1>1. proxy \in ProxyRow
  BY DEF TypeOK
<1>2. proxy' \in ProxyRow
  <2>1. CASE Kind(t) = "delete_proxy"
    <3>1. proxy' = [enabled |-> FALSE, spare |-> FALSE, slot |-> "primary"]
      BY <2>1 DEF SaveProxy
    <3>2. QED
      BY <3>1 DEF ProxyRow
  <2>2. CASE Kind(t) # "delete_proxy"
    <3>1. PICK on, spare \in BOOLEAN :
            proxy' = [enabled |-> on, spare |-> spare,
                      slot |-> IF spare THEN proxy.slot ELSE "primary"]
      BY <2>2 DEF SaveProxy
    <3>2. proxy.slot \in {"primary", "fallback"}
      BY <1>1 DEF ProxyRow
    <3>3. QED
      BY <3>1, <3>2 DEF ProxyRow
  <2>3. QED
    BY <2>1, <2>2
<1>3. task[t].pc = "proxy" /\ Go(t, "done")
  BY DEF SaveProxy
<1>4. task' \in [Tasks -> TaskRecord] /\ Goes(t, "done")
  BY <1>3, Going DEF Steps
<1>5. QED
  BY <1>2, <1>3, <1>4 DEF SaveProxy, Goes, memory, telegram, past

\* A request or a background task enters.
LEMMA EnterStep ==
  ASSUME TypeOK, NEW t \in Tasks, Enter(t)
  PROVE  /\ task' \in [Tasks -> TaskRecord] /\ Others(t)
         /\ task[t].pc = "off" \/ (Kind(t) = "refresh" /\ task[t].pc = "done")
         /\ Enters(t) /\ task'[t].pc = FirstStep(t)
         /\ task'[t].cli = client /\ task'[t].plan = <<>>
         /\ met' = met \union {{t, u} : u \in Busy}
         /\ UNCHANGED <<row, gone, store, file, proxy, client, lock, op, backoff, ticket,
                        conn, world, alive, made, revived, noted, latest, given, faults>>
<1> DEFINE k == IF Kind(t) = "delete" THEN row.status # "banned" ELSE row.there
           r == [Idle EXCEPT !.pc = FirstStep(t), !.cli = client, !.known = k]
<1>1. client \in Nat \union {None} /\ row.there \in BOOLEAN
  <2>1. DOMAIN made \subseteq Nat
    BY DEF TypeOK
  <2>2. QED
    BY <2>1 DEF TypeOK
<1>2. FirstStep(t) \in Steps
  BY DEF FirstStep, Steps, Starting, Stopping
<1>3. task' = [task EXCEPT ![t] = r]
  BY DEF Enter
<1>4. k \in BOOLEAN
  BY <1>1
<1> HIDE DEF k
<1>5. Idle \in TaskRecord /\ Idle.plan = <<>>
  <2>1. <<>> \in Seq(Routes)
    OBVIOUS
  <2>2. QED
    BY <2>1 DEF Idle, TaskRecord, Steps
<1>6. r \in TaskRecord /\ r.pc = FirstStep(t) /\ r.cli = client /\ r.plan = Idle.plan
  BY <1>1, <1>2, <1>4, <1>5 DEF TaskRecord
<1> HIDE DEF r
<1>7. QED
  BY <1>3, <1>5, <1>6, Replacing DEF Enter, stored, memory, telegram

\* A client is unregistered.
LEMMA StopStep ==
  ASSUME TypeOK, NEW t \in Tasks, Stop(t)
  PROVE  /\ task' \in [Tasks -> TaskRecord] /\ Others(t)
         /\ task[t].pc \in {"stop", "drop"} /\ lock = None
         /\ client' = None /\ backoff' = FALSE
         /\ task'[t].cli = client /\ task'[t].key = task[t].key
         /\ task'[t].plan = task[t].plan
         /\ task'[t].pc = IF client = None THEN AfterStop(t)
                          ELSE IF task[t].pc = "stop" THEN "save" ELSE "hangup"
         /\ UNCHANGED <<row, gone, store, file, proxy, lock, op, ticket, conn, world, alive,
                        made, met, revived, noted, latest, given, faults>>
<1> DEFINE pc == IF client = None THEN AfterStop(t)
                 ELSE IF task[t].pc = "stop" THEN "save" ELSE "hangup"
           r == [task[t] EXCEPT !.cli = client, !.pc = pc]
<1>1. client \in Nat \union {None}
  <2>1. DOMAIN made \subseteq Nat
    BY DEF TypeOK
  <2>2. QED
    BY <2>1 DEF TypeOK
<1>2. pc \in Steps
  BY AfterStopType DEF Steps, Stopping
<1>3. task' = [task EXCEPT ![t] = r]
  BY Fields DEF Stop, TypeOK, TaskRecord
<1> HIDE DEF pc
<1>4. r \in TaskRecord /\ r.pc = pc /\ r.cli = client /\ r.key = task[t].key
      /\ r.plan = task[t].plan
  BY <1>1, <1>2, Fields DEF TaskRecord
<1> HIDE DEF r
<1>5. QED
  BY <1>3, <1>4, Replacing DEF Stop, stored, telegram, past, pc

\* A poll takes the login of a QR code.
LEMMA TakeTicketStep ==
  ASSUME TypeOK, NEW t \in Tasks, TakeTicket(t)
  PROVE  /\ task' \in [Tasks -> TaskRecord] /\ Others(t) /\ Stays(t)
         /\ task[t].pc = "take" /\ ticket' = FALSE
         /\ \/ task'[t].pc = "refused"
            \/ task'[t].pc = "drop" /\ row.there
            \/ task'[t].pc = "promote" /\ ~row.there
         /\ UNCHANGED <<row, gone, store, file, proxy, client, lock, op, backoff, conn,
                        world, alive, made, met, revived, noted, latest, given, faults>>
<1> DEFINE pc == IF ~ticket THEN "refused" ELSE IF row.there THEN "drop" ELSE "promote"
           r == [task[t] EXCEPT !.moved = TRUE, !.known = row.there, !.pc = pc]
<1>1. row.there \in BOOLEAN /\ pc \in Steps
  BY DEF TypeOK, Steps
<1>2. task' = [task EXCEPT ![t] = r]
  BY Fields DEF TakeTicket, TypeOK
<1>3. pc \in {"refused", "drop", "promote"} /\ (pc = "drop" => row.there)
      /\ (pc = "promote" => ~row.there)
  BY <1>1
<1> HIDE DEF pc
<1>4. r \in TaskRecord /\ r.pc = pc /\ r.cli = task[t].cli /\ r.key = task[t].key
      /\ r.plan = task[t].plan
  BY <1>1, Fields DEF TaskRecord
<1> HIDE DEF r
<1>5. QED
  BY <1>2, <1>3, <1>4, Replacing DEF TakeTicket, stored, telegram, past, Stays

\* A login brings the account back, unless another has added it meanwhile.
LEMMA CommitLoginStep ==
  ASSUME TypeOK, NEW t \in Tasks, CommitLogin(t)
  PROVE  /\ task' \in [Tasks -> TaskRecord] /\ Others(t) /\ Stays(t)
         /\ task[t].pc = "commit"
         /\ \/ task'[t].pc = "refused" /\ row' = row /\ row.there
            \/ /\ task'[t].pc = "lock"
               /\ row' = [there |-> TRUE, deleted |-> FALSE, status |-> "connected"]
         /\ UNCHANGED <<gone, store, file, proxy, client, lock, op, backoff, ticket, conn,
                        world, alive, made, met, revived, noted, latest, given, faults>>
<1>1. CASE row.there /\ ~task[t].known
  <2>1. Go(t, "refused") /\ row' = row /\ task[t].pc = "commit"
    BY <1>1 DEF CommitLogin
  <2>2. QED
    BY <1>1, <2>1, Going DEF CommitLogin, Goes, Steps, memory, telegram, past
<1>2. CASE ~(row.there /\ ~task[t].known)
  <2> DEFINE r == [task[t] EXCEPT !.pc = "lock", !.moved = FALSE]
  <2>1. task' = [task EXCEPT ![t] = r]
    BY <1>2, Fields DEF CommitLogin, TypeOK
  <2>2. r \in TaskRecord /\ r.pc = "lock" /\ r.cli = task[t].cli /\ r.key = task[t].key
        /\ r.plan = task[t].plan
    BY Fields DEF TaskRecord, Steps
  <2> HIDE DEF r
  <2>3. QED
    BY <1>2, <2>1, <2>2, Replacing DEF CommitLogin, memory, telegram, past, Stays
<1>3. QED
  BY <1>1, <1>2

\* The stored session is read.
LEMMA LoadStep ==
  ASSUME TypeOK, NEW t \in Tasks, Load(t)
  PROVE  /\ task' \in [Tasks -> TaskRecord] /\ Others(t)
         /\ task[t].pc = "load" /\ task'[t].pc = "plan" /\ task'[t].cli = task[t].cli
         /\ task'[t].key \in {store, None} /\ task'[t].plan = task[t].plan
         /\ faults' \in 0 .. FaultBound /\ faults' >= faults
         /\ UNCHANGED <<row, gone, store, file, proxy, client, lock, op, backoff, ticket,
                        conn, world, alive, made, met, revived, noted, latest, given>>
<1>1. PICK k \in {store, None} : task' = [task EXCEPT ![t].key = k, ![t].pc = "plan"]
  BY DEF Load
<1> DEFINE r == [task[t] EXCEPT !.key = k, !.pc = "plan"]
<1>2. k \in Keys \union {None}
  BY DEF TypeOK
<1>3. task' = [task EXCEPT ![t] = r]
  BY <1>1, Fields DEF TypeOK
<1>4. r \in TaskRecord /\ r.pc = "plan" /\ r.cli = task[t].cli /\ r.key = k
      /\ r.plan = task[t].plan
  BY <1>2, Fields DEF TaskRecord, Steps, Starting
<1> HIDE DEF r
<1>5. faults \in 0 .. FaultBound /\ faults \in Nat
  BY Given DEF TypeOK
<1>6. faults' \in 0 .. FaultBound /\ faults' >= faults
  <2>1. faults' = faults \/ Fault("db")
    BY DEF Load
  <2>2. QED
    BY <1>5, <2>1, FaultType
<1>7. QED
  BY <1>3, <1>4, <1>6, Replacing DEF Load, stored, memory, telegram, past

\* The stored proxy is read, and the routes to try are set.
LEMMA ReadProxyStep ==
  ASSUME TypeOK, NEW t \in Tasks, ReadProxy(t)
  PROVE  /\ task' \in [Tasks -> TaskRecord] /\ Others(t)
         /\ task[t].pc = "plan" /\ task'[t].cli = task[t].cli
         /\ task'[t].key = task[t].key
         /\ \/ task'[t].pc = "dial" /\ task'[t].plan = Plan(proxy) /\ row' = row
            \/ task'[t].pc = "refused" /\ row' \in {row, Marked("proxy_error")}
         /\ faults' \in 0 .. FaultBound /\ faults' >= faults
         /\ UNCHANGED <<gone, store, file, proxy, client, lock, op, backoff, ticket,
                        conn, world, alive, made, met, revived, noted, latest, given>>
<1>1. faults \in 0 .. FaultBound /\ faults \in Nat
  BY Given DEF TypeOK
<1>2. CASE UNCHANGED <<row, faults>> /\ task' = [task EXCEPT ![t].plan = Plan(proxy), ![t].pc = "dial"]
  <2> DEFINE p == Plan(proxy)
             r == [task[t] EXCEPT !.plan = p, !.pc = "dial"]
  <2>1. p \in Seq(Routes)
    BY PlanType DEF TypeOK
  <2>2. task' = [task EXCEPT ![t] = r]
    BY <1>2, Fields DEF TypeOK
  <2> HIDE DEF p
  <2>3. r \in TaskRecord /\ r.pc = "dial" /\ r.cli = task[t].cli /\ r.key = task[t].key
        /\ r.plan = p
    BY <2>1, Fields DEF TaskRecord, Steps, Starting
  <2> HIDE DEF r
  <2>4. task' \in [Tasks -> TaskRecord] /\ Others(t) /\ task'[t] = r
    BY <2>2, <2>3, Replacing
  <2>5. QED
    BY <1>1, <1>2, <2>3, <2>4 DEF ReadProxy, memory, telegram, past, p
<1>3. CASE Fault("db") /\ (Status("proxy_error") \/ UNCHANGED row) /\ Go(t, "refused")
  <2>1. task' \in [Tasks -> TaskRecord] /\ Goes(t, "refused")
    BY <1>3, Going DEF Steps
  <2>2. faults' \in 0 .. FaultBound /\ faults' >= faults
    BY <1>1, <1>3, FaultType
  <2>3. QED
    BY <1>3, <2>1, <2>2 DEF ReadProxy, Status, Marked, Goes, Stays, memory, telegram, past
<1>4. QED
  BY <1>2, <1>3 DEF ReadProxy

\* A client is made, with the session that was read, or else the file's, for
\* the first of the routes.
LEMMA DialStep ==
  ASSUME TypeOK, NEW t \in Tasks, Dial(t), task[t].plan # <<>>
  PROVE  /\ task' \in [Tasks -> TaskRecord] /\ Others(t)
         /\ task[t].pc = "dial" /\ task'[t].pc = "connect"
         /\ task'[t].cli = Len(made) + 1 /\ task'[t].key = task[t].key
         /\ task'[t].plan = Tail(task[t].plan)
         /\ made' \in Seq([key : Keys \union {None}, route : Routes])
         /\ Len(made') = Len(made) + 1 /\ Len(made) \in Nat
         /\ \A i \in DOMAIN made : made'[i] = made[i]
         /\ DOMAIN made' = DOMAIN made \union {Len(made) + 1}
         /\ made'[Len(made')].key = IF task[t].key # None THEN task[t].key ELSE file
         /\ made'[Len(made')].route = Head(task[t].plan)
         /\ row' = Marked("connecting")
         /\ UNCHANGED <<gone, store, file, proxy, client, lock, op, backoff, ticket,
                        conn, world, alive, met, revived, noted, latest, given, faults>>
<1> DEFINE k == IF task[t].key # None THEN task[t].key ELSE file
           R == [key : Keys \union {None}, route : Routes]
           e == [key |-> k, route |-> Head(task[t].plan)]
           n == Len(made) + 1
           p == Tail(task[t].plan)
           r == [task[t] EXCEPT !.cli = n, !.plan = p, !.pc = "connect"]
<1>1. p \in Seq(Routes) /\ Head(task[t].plan) \in Routes
  BY Fields
<1>2. k \in Keys \union {None}
  BY Fields DEF TypeOK
<1>3. made \in Seq(R) /\ Len(made) \in Nat /\ DOMAIN made = 1 .. Len(made) /\ n \in Nat
  BY DEF TypeOK
<1>4. made' = Append(made, e) /\ e \in R
  BY <1>1, <1>2 DEF Dial, Made
<1>5. task' = [task EXCEPT ![t] = r]
  BY Fields DEF Dial, TypeOK
<1>6. e.key = k /\ e.route = Head(task[t].plan)
  OBVIOUS
<1> HIDE DEF k, p, n, e, R
<1>7. r \in TaskRecord /\ r.pc = "connect" /\ r.cli = n /\ r.key = task[t].key /\ r.plan = p
  BY <1>1, <1>3, Fields DEF TaskRecord, Steps, Starting
<1> HIDE DEF r
<1>8. task' \in [Tasks -> TaskRecord] /\ Others(t) /\ task'[t] = r
  BY <1>5, <1>7, Replacing
<1>9. /\ made' \in Seq(R) /\ Len(made') = Len(made) + 1
      /\ \A i \in DOMAIN made : made'[i] = made[i]
      /\ DOMAIN made' = 1 .. (Len(made) + 1) /\ made'[Len(made')] = e
  BY <1>3, <1>4
<1>10. DOMAIN made' = DOMAIN made \union {Len(made) + 1}
  BY <1>3, <1>9
<1>11. QED
  BY <1>3, <1>6, <1>7, <1>8, <1>9, <1>10 DEF Dial, Status, Marked, memory, telegram, k, p, n, R

\* A route does not lead anywhere; the next one is tried.
LEMMA UnreachableStep ==
  ASSUME TypeOK, NEW t \in Tasks, Unreachable(t)
  PROVE  /\ task' \in [Tasks -> TaskRecord] /\ Others(t) /\ Stays(t)
         /\ task[t].pc = "connect"
         /\ task'[t].pc = IF task[t].plan = <<>> THEN "unreachable" ELSE "dial"
         /\ row' \in {Marked("network_error"), Marked("proxy_error")}
         /\ faults' \in 0 .. FaultBound /\ faults' >= faults
         /\ UNCHANGED <<gone, store, file, proxy, client, lock, op, backoff, ticket,
                        conn, world, alive, made, met, revived, noted, latest, given>>
<1> DEFINE pc == IF task[t].plan = <<>> THEN "unreachable" ELSE "dial"
           r == [task[t] EXCEPT !.pc = pc, !.moved = TRUE]
<1>1. faults \in Nat /\ faults' \in 0 .. FaultBound /\ faults' = faults + 1
  BY FaultType, Given DEF Unreachable, TypeOK
<1>2. pc \in Steps
  BY DEF Steps, Starting
<1>3. task' = [task EXCEPT ![t] = r]
  BY Fields DEF Unreachable, TypeOK
<1> HIDE DEF pc
<1>4. r \in TaskRecord /\ r.pc = pc /\ r.cli = task[t].cli /\ r.key = task[t].key
      /\ r.plan = task[t].plan
  BY <1>2, Fields DEF TaskRecord
<1> HIDE DEF r
<1>5. task' \in [Tasks -> TaskRecord] /\ Others(t) /\ task'[t] = r
  BY <1>3, <1>4, Replacing
<1>6. row' \in {Marked("network_error"), Marked("proxy_error")}
  BY DEF Unreachable, Status, Marked
<1>7. faults' \in 0 .. FaultBound /\ faults' >= faults
  BY <1>1
<1>8. QED
  BY <1>4, <1>5, <1>6, <1>7 DEF Unreachable, Stays, memory, telegram, past, pc

\* The account turns out to be banned or deactivated.
LEMMA ExpelledStep ==
  ASSUME TypeOK, NEW t \in Tasks, Expelled(t)
  PROVE  /\ task' \in [Tasks -> TaskRecord] /\ Others(t) /\ Stays(t)
         /\ task[t].pc \in {"connect", "ask"} /\ task'[t].pc = "log" /\ world # "ok"
         /\ backoff' \in {backoff, FALSE}
         /\ UNCHANGED <<row, gone, store, file, proxy, client, lock, op, ticket, conn,
                        world, alive, made, met, revived, noted, latest, given, faults>>
<1> DEFINE k == row.status # world
           r == [task[t] EXCEPT !.known = k, !.pc = "log"]
<1>1. task' = [task EXCEPT ![t] = r]
  BY Fields DEF Expelled, TypeOK
<1>2. k \in BOOLEAN
  OBVIOUS
<1> HIDE DEF k
<1>3. r \in TaskRecord /\ r.pc = "log" /\ r.cli = task[t].cli /\ r.key = task[t].key
      /\ r.plan = task[t].plan
  BY <1>2, Fields DEF TaskRecord, Steps
<1> HIDE DEF r
<1>4. QED
  BY <1>1, <1>3, Replacing DEF Expelled, Stays, stored, telegram, past

\* A database error ends a step of a task.
LEMMA DbErrorStep ==
  ASSUME TypeOK, NEW t \in Tasks, DbError(t)
  PROVE  /\ task' \in [Tasks -> TaskRecord] /\ Others(t) /\ Stays(t)
         /\ \/ task[t].pc = "save" /\ task'[t].pc = "disconnect" /\ conn' = conn
            \/ task[t].pc = "clear" /\ conn' = conn
               /\ task'[t].pc = IF Kind(t) = "delete" THEN "unlink" ELSE "refused"
            \/ task[t].pc \in {"commit", "remove"} /\ task'[t].pc = "refused" /\ conn' = conn
            \/ task[t].pc = "settle" /\ task'[t].pc = "refused" /\ conn' = conn \ {task[t].cli}
         /\ faults' \in 0 .. FaultBound /\ faults' > 0 /\ faults' >= faults
         /\ "db" \in given.faults
         /\ UNCHANGED <<row, gone, store, file, proxy, client, lock, op, backoff, ticket,
                        world, alive, made, met, revived, noted, latest, given>>
<1>1. faults \in Nat /\ faults' \in 0 .. FaultBound /\ faults' = faults + 1
      /\ "db" \in given.faults
  BY FaultType, Given DEF DbError, TypeOK
<1>2. faults' > 0 /\ faults' >= faults
  BY <1>1
<1>3. UNCHANGED <<row, gone, store, file, proxy, client, lock, op, backoff, ticket,
                  world, alive, made, met, revived, noted, latest, given>>
  BY DEF DbError, stored, memory, past
<1>4. \E to \in {"disconnect", "unlink", "refused"} : Go(t, to)
  BY DEF DbError
<1>5. task' \in [Tasks -> TaskRecord] /\ Others(t) /\ Stays(t)
  BY <1>4, Going DEF Goes, Steps, Stopping
<1>6. \A to \in {"disconnect", "unlink", "refused"} : Go(t, to) => task'[t].pc = to
  BY Going DEF Goes, Steps, Stopping
<1>7. QED
  BY <1>1, <1>2, <1>3, <1>5, <1>6 DEF DbError

\* The process ends.
LEMMA EndsStep ==
  ASSUME TypeOK, Ends
  PROVE  /\ task' \in [Tasks -> TaskRecord]
         /\ \A u \in Tasks : /\ task'[u].pc \in {"off", "done"}
                             /\ Kind(u) # "startup" /\ task[u].pc = "off" => task'[u].pc = "off"
                             /\ Kind(u) # "startup" /\ task[u].pc = "done" => task'[u].pc = "done"
                             /\ task'[u].pc = "off" => Kind(u) = "startup" \/ task[u].pc = "off"
         /\ client' = None /\ conn' = {} /\ lock' = None /\ op' = None
         /\ backoff' = FALSE /\ ticket' = FALSE
         /\ UNCHANGED <<row, gone, store, file, proxy, world, alive, made, met, revived,
                        noted, latest, given>>
<1>1. \A u \in Tasks : /\ [task[u] EXCEPT !.pc = "done"] \in TaskRecord
                       /\ [task[u] EXCEPT !.pc = "done"].pc = "done"
  BY Fields DEF TaskRecord, Steps
<1>2. Idle \in TaskRecord /\ Idle.pc = "off"
  <2>1. <<>> \in Seq(Routes)
    OBVIOUS
  <2>2. QED
    BY <2>1 DEF Idle, TaskRecord, Steps
<1>3. \A u \in Tasks :
        task'[u] = IF Kind(u) = "startup" THEN Idle
                   ELSE IF u \in Busy THEN [task[u] EXCEPT !.pc = "done"] ELSE task[u]
  BY DEF Ends
<1>4. task' \in [Tasks -> TaskRecord]
  BY <1>1, <1>2, Fields DEF Ends
<1>5. \A u \in Tasks : u \notin Busy => task[u].pc \in {"off", "done"}
  BY DEF Busy
<1>6. \A u \in Tasks : u \in Busy => task[u].pc \notin {"off", "done"}
  BY DEF Busy
<1>7. QED
  BY <1>1, <1>2, <1>3, <1>4, <1>5, <1>6 DEF Ends, stored, past

-------------------------------------------------------------------------------
(***************************************************************************)
(* Types are kept.                                                         *)
(***************************************************************************)
Row == [there : BOOLEAN, deleted : BOOLEAN, status : Statuses]
Departed == {"banned", "deactivated", "removed"}

\* The account with another status is an account.
LEMMA RowType ==
  ASSUME TypeOK, NEW s \in Statuses
  PROVE  row \in Row /\ Marked(s) \in Row
BY DEF TypeOK, Row, Marked

\* The proxy in another slot is a proxy, enabled or not as before.
LEMMA ProxyType ==
  ASSUME TypeOK, NEW s \in {"primary", "fallback"}
  PROVE  /\ proxy \in ProxyRow /\ Moved(s) \in ProxyRow
         /\ Moved(s).enabled = proxy.enabled
BY DEF TypeOK, ProxyRow, Moved

\* The clients made are numbered, and each has a session or none.
LEMMA KeyType ==
  ASSUME TypeOK, NEW c \in DOMAIN made
  PROVE  c \in Nat /\ c # None /\ made[c].key \in Keys \union {None}
<1> DEFINE R == [key : Keys \union {None}, route : Routes]
<1>1. made \in Seq(R) /\ DOMAIN made = 1 .. Len(made) /\ Len(made) \in Nat
  BY DEF TypeOK
<1>2. c \in Nat /\ made[c] \in R
  <2>1. c \in 1 .. Len(made)
    BY <1>1
  <2>2. made[c] \in R
    BY <1>1, <2>1, ElementOfSeq
  <2>3. QED
    BY <1>1, <2>1, <2>2
<1>3. made[c].key \in Keys \union {None}
  BY <1>2
<1>4. QED
  BY <1>2, <1>3, Given

\* The steps of a task.
LEMMA StepTypes ==
  ASSUME TypeOK, NEW t \in Tasks, TaskMatches(t),
         Step(t) \/ Enter(t) \/ Unreachable(t) \/ LoseContact(t) \/ DbError(t)
  PROVE  TypeOK'
<1>1. /\ given \in Scenarios /\ proxy \in ProxyRow /\ row \in Row
      /\ gone \in Seq(Departed) /\ {store, file} \subseteq Keys \union {None}
      /\ made \in Seq([key : Keys \union {None}, route : Routes])
      /\ client \in DOMAIN made \union {None} /\ conn \subseteq DOMAIN made
      /\ {lock, op} \subseteq Tasks \union {None}
      /\ {backoff, ticket, noted} \subseteq BOOLEAN
      /\ task \in [Tasks -> TaskRecord]
      /\ world \in {"ok", "banned", "deactivated"}
      /\ alive \subseteq Keys /\ latest \in Keys /\ faults \in 0 .. FaultBound
  BY DEF TypeOK, Row, Departed
<1>2. {"ok", "banned", "deactivated"} \ {"ok"} \subseteq Statuses
      /\ Tasks \subseteq Keys
  BY DEF Statuses, Keys
<1>3. world # "ok" => Marked(world) \in Row /\ Append(gone, world) \in Seq(Departed)
  <2>1. world # "ok" => world \in Departed
    BY <1>1 DEF Departed
  <2>2. QED
    BY <1>1, <1>2, <2>1, RowType
<1>4. \A s \in Statuses : Marked(s) \in Row
  BY RowType
<1>5. {"connected", "disconnected", "connecting", "reconnecting", "auth_required", "proxy_error",
       "network_error", "removed"} \subseteq Statuses
  BY DEF Statuses
<1>6. \A s \in {"primary", "fallback"} : Moved(s) \in ProxyRow
  BY ProxyType
<1> USE DEF TypeOK, Row, Departed
<1>7. CASE OpLock(t)
  BY <1>1, <1>7, OpLockStep
<1>8. CASE Act(t)
  <2>1. row' \in Row /\ noted' \in BOOLEAN
    BY <1>1, <1>3, <1>8, ActStep
  <2>2. QED
    BY <1>1, <2>1, <1>8, ActStep
<1>9. CASE Stop(t)
  BY <1>1, <1>9, StopStep
<1>10. CASE Save(t)
  <2>1. KeyOf(t) \in Keys \union {None}
    BY <1>10, SaveStep, KeyType DEF TaskMatches, KeyOf
  <2>2. QED
    BY <1>1, <1>10, <2>1, SaveStep
<1>11. CASE Disconnect(t)
  BY <1>1, <1>11, DisconnectStep
<1>12. CASE Clear(t)
  BY <1>1, <1>12, ClearStep
<1>13. CASE TakeTicket(t)
  BY <1>1, <1>13, TakeTicketStep
<1>14. CASE Promote(t)
  BY <1>1, <1>2, <1>14, PromoteStep
<1>15. CASE CommitLogin(t)
  <2>1. [there |-> TRUE, deleted |-> FALSE, status |-> "connected"] \in Row
    BY <1>5
  <2>2. row' \in Row
    BY <1>1, <2>1, <1>15, CommitLoginStep
  <2>3. QED
    BY <1>1, <2>2, <1>15, CommitLoginStep
<1>16. CASE Unlink(t)
  BY <1>1, <1>16, UnlinkStep
<1>17. CASE CommitDelete(t)
  <2>1. Append(gone, "removed") \in Seq(Departed)
    BY <1>1
  <2>2. [row EXCEPT !.deleted = TRUE, !.status = "removed"] \in Row
    BY <1>1, <1>5
  <2>3. QED
    BY <1>1, <2>1, <2>2, <1>17, CommitDeleteStep
<1>18. CASE Lock(t)
  BY <1>1, <1>18, LockStep
<1>19. CASE Load(t)
  BY <1>1, <1>19, LoadStep
<1>20. CASE ReadProxy(t)
  BY <1>1, <1>4, <1>5, <1>20, ReadProxyStep
<1>21. CASE Dial(t)
  <2>1. task[t].plan # <<>>
    BY <1>21 DEF TaskMatches, Dial
  <2>2. row' \in Row /\ UNCHANGED <<gone, store, file, proxy, client, lock, op, backoff, ticket,
                        conn, world, alive, met, revived, noted, latest, given, faults>>
    BY <1>4, <1>5, <1>21, <2>1, DialStep
  <2>3. made' \in Seq([key : Keys \union {None}, route : Routes])
        /\ DOMAIN made \subseteq DOMAIN made' /\ task' \in [Tasks -> TaskRecord]
    BY <1>21, <2>1, DialStep
  <2>4. QED
    BY <1>1, <2>2, <2>3
<1>22. CASE Unreachable(t)
  BY <1>1, <1>4, <1>5, <1>22, UnreachableStep
<1>23. CASE Unauthorized(t)
  BY <1>1, <1>4, <1>5, <1>23, UnauthorizedStep
<1>24. CASE Expelled(t)
  BY <1>1, <1>24, ExpelledStep, ZenonT(60)
<1>25. CASE LogGone(t)
  <2>1. world # "ok"
    BY <1>25 DEF TaskMatches, LogGone
  <2>2. row' \in Row /\ gone' \in Seq(Departed)
    BY <1>1, <1>3, <2>1, <1>25, LogGoneStep
  <2>3. QED
    BY <1>1, <2>2, <1>25, LogGoneStep
<1>26. CASE Register(t)
  <2>1. task[t].cli \in DOMAIN made
    BY <1>26 DEF TaskMatches, Register
  <2>2. QED
    BY <1>1, <1>6, <2>1, <1>26, RegisterStep
<1>27. CASE Settle(t)
  BY <1>1, <1>4, <1>5, <1>27, SettleStep
<1>28. CASE Keep(t)
  <2>1. KeyOf(t) \in Keys \union {None}
    BY <1>28, KeepStep, KeyType DEF TaskMatches, KeyOf
  <2>2. QED
    BY <1>1, <1>3, <1>28, <2>1, KeepStep
<1>29. CASE Leave(t)
  <2>1. row' \in Row
    BY <1>1, <1>4, <1>5, <1>29, LeaveStep
  <2>2. backoff' \in {backoff, TRUE} /\ lock' \in {lock, None} /\ op' \in {op, None}
    BY <1>29, LeaveStep
  <2>3. /\ UNCHANGED <<gone, store, file, proxy, client, ticket, conn, world, alive, made, noted,
                       latest, given, faults>>
        /\ task' \in [Tasks -> TaskRecord]
    BY <1>29, LeaveStep
  <2>4. QED
    BY <2>1, <2>2, <2>3
<1>30. CASE Look(t)
  BY <1>1, <1>4, <1>5, <1>30, LookStep
<1>31. CASE Redial(t)
  <2>1. task[t].cli \in DOMAIN made
    BY <1>31 DEF TaskMatches, Redial
  <2>2. QED
    BY <1>1, <2>1, <1>31, RedialStep
<1>32. CASE Ask(t)
  <2>1. row' \in Row
    BY <1>1, <1>4, <1>5, <1>32, AskStep
  <2>2. backoff' \in BOOLEAN
    BY <1>32, AskStep
  <2>3. /\ UNCHANGED <<gone, store, file, proxy, client, lock, op, ticket, conn, world, alive,
                       made, noted, latest, given, faults>>
        /\ task' \in [Tasks -> TaskRecord]
    BY <1>32, AskStep
  <2>4. QED
    BY <2>1, <2>2, <2>3
<1>33. CASE LoseContact(t)
  BY <1>1, <1>33, LoseContactStep
<1>34. CASE FailOver(t)
  <2>1. row' \in Row /\ proxy' \in ProxyRow
    BY <1>1, <1>4, <1>5, <1>6, <1>34, FailOverStep
  <2>2. QED
    BY <1>1, <2>1, <1>34, FailOverStep
<1>35. CASE SwitchSlot(t)
  BY <1>1, <1>6, <1>35, SwitchSlotStep
<1>36. CASE SaveProxy(t)
  BY <1>1, <1>36, SaveProxyStep
<1>37. CASE DbError(t)
  BY <1>1, <1>37, DbErrorStep
<1>38. CASE Halt(t)
  BY <1>1, <1>38, EndsStep DEF Halt
<1>39. CASE Enter(t)
  BY <1>1, <1>39, EnterStep
<1>40. QED
  BY <1>7, <1>8, <1>9, <1>10, <1>11, <1>12, <1>13, <1>14, <1>15, <1>16, <1>17, <1>18, <1>19,
     <1>20, <1>21, <1>22, <1>23, <1>24, <1>25, <1>26, <1>27, <1>28, <1>29, <1>30, <1>31, <1>32,
     <1>33, <1>34, <1>35, <1>36, <1>37, <1>38, <1>39 DEF Step, Start

\* What happens around the tasks.
Around == LoseConnection \/ Revoke \/ Expel \/ Crash \/ BackoffPasses

\* What happens around the tasks keeps the types.
LEMMA AroundTypes ==
  ASSUME TypeOK, Around
  PROVE  TypeOK'
<1>1. ASSUME NEW f, Fault(f)
      PROVE  faults' \in 0 .. FaultBound
  BY <1>1, FaultType
<1>2. CASE LoseConnection
  <2>1. faults' \in 0 .. FaultBound
    BY <1>1, <1>2 DEF LoseConnection
  <2>2. QED
    BY <1>2, <2>1 DEF LoseConnection, TypeOK, stored, memory, past
<1>3. CASE Revoke
  <2>1. faults' \in 0 .. FaultBound
    BY <1>1, <1>3 DEF Revoke
  <2>2. QED
    BY <1>3, <2>1 DEF Revoke, TypeOK, stored, memory, past
<1>4. CASE Expel
  <2>1. faults' \in 0 .. FaultBound
    BY <1>1, <1>4 DEF Expel
  <2>2. QED
    BY <1>4, <2>1 DEF Expel, TypeOK, stored, memory, past
<1>5. CASE Crash
  <2>1. faults' \in 0 .. FaultBound
    BY <1>1, <1>5 DEF Crash
  <2>2. QED
    BY <1>5, <2>1, EndsStep DEF Crash, TypeOK
<1>6. CASE BackoffPasses
  BY <1>6 DEF BackoffPasses, TypeOK, stored, telegram, past
<1>7. QED
  BY <1>2, <1>3, <1>4, <1>5, <1>6 DEF Around

-------------------------------------------------------------------------------
(***************************************************************************)
(* Every task is at a step of its own, and holds the locks it should.      *)
(***************************************************************************)
HeldSteps == Starting \union {"log", "clear", "started", "refused", "unreachable"}

LockMatches(t) ==
  /\ task[t].pc \in Starting => lock = t
  /\ lock = t => task[t].pc \in HeldSteps
  /\ op = t => task[t].pc \notin {"off", "done"}

Holds(t) == LockMatches(t) /\ TaskMatches(t)

Matched == \A t \in Tasks : Holds(t)

\* What a step of one task leaves alone of another's.
Aside(t) ==
  /\ \A u \in Tasks \ {t} : (lock' = u <=> lock = u) /\ (op' = u => op = u)
  /\ client' \in {client, None} \/ lock = t
  /\ DOMAIN made \subseteq DOMAIN made' /\ (world # "ok" => world' # "ok")
  /\ given' = given

\* A task's step leaves every other task in order.
LEMMA OthersHold ==
  ASSUME TypeOK, Matched, NEW t \in Tasks, Others(t), Aside(t), NEW u \in Tasks \ {t}
  PROVE  Holds(u)'
<1>1. /\ task'[u] = task[u] /\ (lock' = u <=> lock = u) /\ (op' = u => op = u)
      /\ client' \in {client, None} \/ lock = t
      /\ DOMAIN made \subseteq DOMAIN made' /\ (world # "ok" => world' # "ok")
      /\ Kind(u)' = Kind(u)
  BY DEF Others, Aside, Kind
<1>2. Holds(u) /\ u # t
  BY DEF Matched
<1>3. LockMatches(u)'
  BY <1>1, <1>2 DEF Holds, LockMatches
<1>4. (u \in Busy)' <=> u \in Busy
  BY <1>1 DEF Busy
<1>5. /\ task[u].pc \in {"load", "plan", "dial", "connect"} => client' = None
      /\ task[u].pc = "log" /\ lock' = u => client' = None
  BY <1>1, <1>2 DEF Holds, LockMatches, TaskMatches, Starting
<1>6. TaskMatches(u)'
  BY <1>1, <1>2, <1>4, <1>5 DEF Holds, TaskMatches
<1>7. QED
  BY <1>3, <1>6 DEF Holds

\* Who is where.
LEMMA Whose ==
  ASSUME TypeOK, NEW t \in Tasks, Holds(t), task[t].pc \notin {"off", "done"}
  PROVE  /\ Kind(t) \in KindsAt(task[t].pc) /\ t \in Busy
         /\ task[t].pc \in {"off", "done"} \union HeldSteps \union Stopping \union
              {"oplock", "act", "stop", "drop", "promote", "commit", "unlink", "remove", "lock",
               "look", "redial", "ask", "lost", "slot", "proxy", "take", "halt"}
<1>1. t \in Busy
  BY DEF Busy
<1>2. QED
  BY <1>1, Fields DEF Holds, TaskMatches, Steps, HeldSteps

\* A task that has taken a step matches again when it is at a step of its own,
\* knows its client and its plan, and has the locks of that step.
LEMMA Matching ==
  ASSUME TypeOK, NEW t \in Tasks,
         task'[t].pc \notin {"off", "done"} => Kind(t) \in KindsAt(task'[t].pc),
         task'[t].pc \in {"load", "plan", "dial", "connect"} => client' = None,
         task'[t].pc = "log" /\ lock' = t => client' = None,
         task'[t].pc \in {"connect", "settle", "keep", "save", "look", "redial", "ask"} =>
           task'[t].cli \in DOMAIN made',
         task'[t].pc = "dial" => task'[t].plan # <<>>,
         task'[t].pc = "log" => world' # "ok",
         given' = given, LockMatches(t)',
         lock' = t => Kind(t) \in Starters,
         op' = t => Kind(t) \in {"operation", "reconnect", "switch"}
                    /\ task'[t].pc \notin {"slot", "oplock"},
         task'[t].pc = "log" => lock' = t \/ Kind(t) = "refresh",
         task'[t].pc = "clear" => lock' = t \/ Kind(t) \notin {"reconnect", "switch"}
  PROVE  Holds(t)'
<1>1. Kind(t)' = Kind(t)
  BY DEF Kind
<1>2. (t \in Busy)' => task'[t].pc \notin {"off", "done"}
  BY DEF Busy
<1>3. TaskMatches(t)'
  BY <1>1, <1>2 DEF TaskMatches
<1>4. QED
  BY <1>3 DEF Holds

\* The steps of a stop.
LEMMA StopsMatch ==
  ASSUME TypeOK, Matched, NEW t \in Tasks,
         Stop(t) \/ Save(t) \/ Disconnect(t) \/ Clear(t)
  PROVE  /\ Others(t) /\ Aside(t) /\ Holds(t)'
<1>1. Holds(t)
  BY DEF Matched
<1> USE DEF Aside, LockMatches, HeldSteps, Starting, KindsAt, Starters
<1>2. CASE Stop(t)
  <2>1. Kind(t) \in KindsAt(task[t].pc)
    BY <1>1, <1>2, StopStep, Whose
  <2>2. lock # t /\ lock' = lock /\ op' = op
    BY <1>2, StopStep, Given
  <2>3. client # None => client \in DOMAIN made
    BY DEF TypeOK
  <2>4. /\ task'[t].pc \in {"halt", "lock", "clear", "save", "hangup"}
        /\ task'[t].pc = "save" => client # None
        /\ task'[t].cli = client
        /\ Kind(t) \in KindsAt(task'[t].pc)
        /\ task[t].pc = "drop" => task'[t].pc \in {"clear", "hangup"}
        /\ task[t].pc = "stop" => task'[t].pc \notin {"clear", "hangup"}
    BY <1>2, <2>1, StopStep, AfterStopType
  <2>5. Kind(t) \in {"reconnect", "switch"} => task[t].pc = "stop"
    BY <1>2, <2>1, StopStep
  <2>6. op = t => Kind(t) \in {"operation", "reconnect", "switch"}
    BY <1>1 DEF Holds, TaskMatches
  <2>7. Others(t) /\ UNCHANGED <<made, world, given>> /\ client' = None
    BY <1>2, StopStep
  <2>8. LockMatches(t)'
    BY <2>2, <2>4
  <2>9. Holds(t)'
    BY <2>2, <2>3, <2>4, <2>5, <2>6, <2>7, <2>8, Matching
  <2>10. QED
    BY <2>2, <2>7, <2>9
<1>3. CASE Save(t)
  BY <1>1, <1>3, SaveStep, Whose, Matching, Fields DEF Holds, TaskMatches, Goes, Stays
<1>4. CASE Disconnect(t)
  <2>1. Kind(t) \in KindsAt(task[t].pc) /\ lock # t
    BY <1>1, <1>4, DisconnectStep, Whose DEF Holds, Goes
  <2>2. QED
    BY <1>1, <1>4, <2>1, DisconnectStep, AfterStopType, Matching DEF Holds, TaskMatches, Goes, Stays
<1>5. CASE Clear(t)
  <2>1. Kind(t) \in Starters \union {"delete"}
    BY <1>1, <1>5, ClearStep, Whose DEF Holds, Goes
  <2>2. op = t => lock = t
    BY <1>1, <1>5, <2>1, ClearStep DEF Holds, TaskMatches
  <2>3. QED
    BY <1>1, <1>5, <2>1, <2>2, ClearStep, AfterClearType, Matching DEF Holds, TaskMatches, Goes, Stays
<1>6. QED
  BY <1>2, <1>3, <1>4, <1>5

\* The steps of a login, an import and a removal.
LEMMA LoginsMatch ==
  ASSUME TypeOK, Matched, NEW t \in Tasks,
         TakeTicket(t) \/ Promote(t) \/ CommitLogin(t) \/ Unlink(t) \/ CommitDelete(t)
  PROVE  /\ Others(t) /\ Aside(t) /\ Holds(t)'
<1>1. Holds(t)
  BY DEF Matched
<1>2. /\ Others(t) /\ UNCHANGED <<client, lock, op, made, world, given>>
      /\ task[t].pc \in {"take", "promote", "commit", "unlink", "remove"}
      /\ task[t].pc = "take" => task'[t].pc \in {"refused", "drop", "promote"}
      /\ task[t].pc = "promote" => task'[t].pc = "commit"
      /\ task[t].pc = "commit" => task'[t].pc \in {"refused", "lock"}
      /\ task[t].pc = "unlink" => task'[t].pc = "remove"
      /\ task[t].pc = "remove" => task'[t].pc = "done"
  BY TakeTicketStep, PromoteStep, CommitLoginStep, UnlinkStep, CommitDeleteStep DEF Goes
<1>3. Kind(t) \in KindsAt(task[t].pc) /\ lock # t /\ op # t
  BY <1>1, <1>2, Whose DEF Holds, LockMatches, TaskMatches, HeldSteps, Starting, KindsAt
<1>4. Kind(t) \in KindsAt(task'[t].pc) \/ task'[t].pc = "done"
  BY <1>2, <1>3 DEF KindsAt, Starters
<1>5. LockMatches(t)'
  BY <1>2, <1>3 DEF LockMatches, Starting
<1>6. Holds(t)'
  BY <1>2, <1>3, <1>4, <1>5, Matching
<1>7. QED
  BY <1>2, <1>6 DEF Aside

\* The steps of a start up to the connection.
LEMMA StartsMatch ==
  ASSUME TypeOK, Matched, NEW t \in Tasks,
         \/ Lock(t) \/ Load(t) \/ ReadProxy(t) \/ Dial(t) \/ Unreachable(t)
         \/ Unauthorized(t) \/ Register(t) \/ Settle(t) \/ Keep(t)
  PROVE  /\ Others(t) /\ Aside(t) /\ Holds(t)'
<1>1. Holds(t)
  BY DEF Matched
<1>2. task[t].pc = "dial" => task[t].plan # <<>>
  BY <1>1 DEF Holds, TaskMatches
<1>3. /\ Others(t) /\ UNCHANGED <<op, world, given>>
      /\ task[t].pc \in Starting \union {"lock"}
      /\ task'[t].pc \in Starting \union {"started", "refused", "unreachable", "clear"}
      /\ task'[t].pc = "clear" => task[t].pc = "connect"
      /\ DOMAIN made \subseteq DOMAIN made'
  BY <1>2, LockStep, LoadStep, ReadProxyStep, DialStep, UnreachableStep, UnauthorizedStep,
     RegisterStep, SettleStep, KeepStep, ZenonT(60) DEF Goes, Starting, Dial
<1>4. /\ Kind(t) \in Starters
      /\ op = t => Kind(t) \in {"operation", "reconnect", "switch"}
      /\ task[t].pc \in Starting => lock = t
  BY <1>1, <1>3, Whose DEF Holds, LockMatches, TaskMatches, KindsAt, Starting
<1>5. /\ task[t].pc = "lock" => \/ lock = None /\ lock' = None /\ task'[t].pc = "started"
                                \/ lock = None /\ lock' = t
      /\ task[t].pc # "lock" => lock' = lock
  BY <1>2, <1>3, LockStep, LoadStep, ReadProxyStep, DialStep, UnreachableStep, UnauthorizedStep,
     RegisterStep, SettleStep, KeepStep DEF Goes, Lock, Dial
<1>6. /\ task'[t].pc \in Starting => lock' = t
      /\ \A u \in Tasks \ {t} : lock' = u <=> lock = u
  BY <1>3, <1>4, <1>5, Given DEF Starting
<1>7. Kind(t) \in KindsAt(task'[t].pc)
  <2>1. CASE task'[t].pc \in {"refused", "clear"}
    BY <1>4, <2>1 DEF KindsAt
  <2>2. CASE task'[t].pc \in Starting \union {"started", "unreachable"}
    BY <1>4, <2>2 DEF KindsAt, Starting
  <2>3. QED
    BY <1>3, <2>1, <2>2
<1>8. LockMatches(t)'
  BY <1>3, <1>6 DEF LockMatches, HeldSteps, Starting
<1>9. client' = client \/ (task'[t].pc = "settle" /\ lock = t)
  BY <1>2, <1>4, LockStep, LoadStep, ReadProxyStep, DialStep, UnreachableStep, UnauthorizedStep,
     RegisterStep, SettleStep, KeepStep DEF Goes, Dial, Starting, Register
<1>10. task'[t].pc \in {"load", "plan", "dial", "connect"} => client' = None
  <2>1. task[t].pc \in {"load", "plan", "dial", "connect"} => client = None
    BY <1>1 DEF Holds, TaskMatches
  <2>2. task'[t].pc \in {"load", "plan", "dial", "connect"} =>
          \/ task[t].pc \in {"load", "plan", "dial", "connect"}
          \/ task[t].pc = "lock" /\ client = None
    BY <1>2, LockStep, LoadStep, ReadProxyStep, DialStep, UnreachableStep, UnauthorizedStep,
     RegisterStep, SettleStep, KeepStep DEF Goes, Dial
  <2>3. QED
    BY <1>9, <2>1, <2>2
<1>11. task'[t].pc \in {"connect", "settle", "keep"} => task'[t].cli \in DOMAIN made'
  <2>1. task[t].pc \in {"connect", "settle", "keep"} => task[t].cli \in DOMAIN made
    BY <1>1 DEF Holds, TaskMatches
  <2>2. CASE Dial(t)
    BY <1>2, <2>2, DialStep DEF Dial
  <2>3. CASE ~Dial(t)
    <3>1. task'[t].pc \in {"connect", "settle", "keep"} =>
            task[t].pc \in {"connect", "settle", "keep"} /\ task'[t].cli = task[t].cli
      BY <2>3, LockStep, LoadStep, ReadProxyStep, UnreachableStep, UnauthorizedStep,
         RegisterStep, SettleStep, KeepStep, ZenonT(60) DEF Goes, Stays
    <3>2. QED
      BY <1>3, <2>1, <3>1
  <2>4. QED
    BY <2>2, <2>3
<1>12. task'[t].pc = "dial" => task'[t].plan # <<>>
  <2>1. ReadProxy(t) \/ Unreachable(t) \/ task'[t].pc # "dial"
    BY <1>2, LockStep, LoadStep, DialStep, UnauthorizedStep,
       RegisterStep, SettleStep, KeepStep DEF Goes, Dial
  <2>2. CASE ReadProxy(t)
    BY <2>2, ReadProxyStep, PlanType DEF TypeOK
  <2>3. CASE Unreachable(t)
    BY <2>3, UnreachableStep DEF Stays
  <2>4. QED
    BY <2>1, <2>2, <2>3
<1>13. task'[t].pc \notin {"off", "done", "save", "look", "redial", "ask", "log", "slot", "oplock"}
  BY <1>3 DEF Starting
<1>14. task'[t].pc = "clear" => lock' = t
  BY <1>3, <1>4, <1>5 DEF Starting
<1>15. op' = t => Kind(t) \in {"operation", "reconnect", "switch"}
  BY <1>3, <1>4
<1>16. Holds(t)'
  BY <1>3, <1>4, <1>7, <1>8, <1>10, <1>11, <1>12, <1>13, <1>14, <1>15, Matching
<1>17. QED
  BY <1>3, <1>6, <1>9, <1>16 DEF Aside

\* The end of a start, the operations, the rounds of the status loop and the
\* requests about the proxy.
LEMMA RestMatches ==
  ASSUME TypeOK, Matched, NEW t \in Tasks,
         \/ OpLock(t) \/ Act(t) \/ Expelled(t) \/ LogGone(t) \/ Leave(t) \/ Look(t) \/ Redial(t)
         \/ Ask(t) \/ LoseContact(t) \/ FailOver(t) \/ SwitchSlot(t) \/ SaveProxy(t) \/ DbError(t)
  PROVE  /\ Others(t) /\ Aside(t) /\ Holds(t)'
<1>1. Holds(t)
  BY DEF Matched
<1> USE DEF LockMatches, HeldSteps, Starting, KindsAt, Starters
<1>2. CASE OpLock(t)
  <2>1. Kind(t) \in KindsAt("oplock") /\ lock # t
    BY <1>1, <1>2, OpLockStep, Whose DEF Holds
  <2>2. Others(t) /\ UNCHANGED <<client, lock, made, world, given>>
    BY <1>2, OpLockStep
  <2>3. LockMatches(t)'
    BY <1>2, <2>1, OpLockStep
  <2>4. Holds(t)'
    BY <1>2, <2>1, <2>3, OpLockStep, Matching
  <2>5. \A u \in Tasks \ {t} : op' # u
    BY <1>2, OpLockStep
  <2>6. QED
    BY <2>2, <2>4, <2>5 DEF Aside
<1>3. CASE Act(t)
  <2>1. lock # t
    BY <1>1, <1>3, ActStep DEF Holds
  <2>2. Holds(t)'
    BY <1>3, <2>1, ActStep, Given, Matching DEF Goes
  <2>3. QED
    BY <1>3, <2>2, ActStep, Given DEF Aside, Goes
<1>4. CASE Expelled(t)
  <2>1. /\ Others(t) /\ Stays(t) /\ task[t].pc \in {"connect", "ask"} /\ task'[t].pc = "log"
        /\ UNCHANGED <<client, lock, op, made, world, given>> /\ world # "ok"
    BY <1>4, ExpelledStep
  <2>2. Kind(t) \in KindsAt(task[t].pc)
    BY <1>1, <2>1, Whose
  <2>3. Holds(t)'
    BY <1>1, <2>1, <2>2, Matching DEF Holds, TaskMatches
  <2>4. QED
    BY <2>1, <2>3 DEF Aside
<1>5. CASE LogGone(t)
  <2>1. /\ Others(t) /\ UNCHANGED <<client, lock, op, made, world, given>>
        /\ task[t].pc = "log" /\ task'[t].pc = IF lock = t THEN "clear" ELSE "drop"
    BY <1>5, LogGoneStep DEF Goes
  <2>2. Kind(t) \in Starters
    BY <1>1, <2>1, Whose
  <2>3. lock = t \/ Kind(t) = "refresh"
    BY <1>1, <2>1 DEF Holds, TaskMatches
  <2>4. Kind(t) \in KindsAt(task'[t].pc)
    BY <2>1, <2>2, <2>3
  <2>5. /\ op = t => lock = t /\ Kind(t) \in {"operation", "reconnect", "switch"}
        /\ task'[t].pc = "clear" <=> lock = t
        /\ task'[t].pc \in {"clear", "drop"}
    BY <1>1, <2>1, <2>2, <2>3 DEF Holds, TaskMatches
  <2>6. LockMatches(t)' /\ (lock' = t <=> task'[t].pc = "clear") /\ (op' = t => op = t)
    BY <1>1, <2>1, <2>5 DEF Holds
  <2>8. Holds(t)'
    BY <2>1, <2>2, <2>4, <2>5, <2>6, Matching
  <2>7. QED
    BY <2>1, <2>8 DEF Aside
<1>6. CASE Leave(t)
  <2>1. lock' # t /\ op' # t
    BY <1>6, LeaveStep, Given
  <2>2. \A u \in Tasks \ {t} : (lock' = u <=> lock = u) /\ (op' = u => op = u)
    BY <1>6, LeaveStep, Given
  <2>3. Holds(t)'
    BY <1>6, <2>1, LeaveStep, Matching DEF Goes
  <2>4. QED
    BY <1>6, <2>2, <2>3, LeaveStep DEF Aside, Goes
<1>7. CASE Look(t) \/ Redial(t) \/ Ask(t) \/ LoseContact(t) \/ FailOver(t)
  <2>1. /\ Others(t) /\ Stays(t) /\ UNCHANGED <<client, lock, op, made, world, given>>
        /\ task[t].pc \in {"look", "redial", "ask", "lost"}
        /\ task'[t].pc \in {"done", "redial", "ask", "lost", "drop", "stop"}
        /\ task'[t].pc \in {"redial", "ask"} => task[t].pc \in {"look", "redial", "ask"}
    BY <1>7, LookStep, RedialStep, AskStep, LoseContactStep, FailOverStep DEF Goes
  <2>2. Kind(t) = "refresh" /\ lock # t /\ op # t
    BY <1>1, <2>1, Whose DEF Holds, TaskMatches
  <2>3. task'[t].pc # "done" => Kind(t) \in KindsAt(task'[t].pc)
    BY <2>1, <2>2
  <2>4. task'[t].pc \in {"redial", "ask"} => task'[t].cli \in DOMAIN made'
    BY <1>1, <2>1 DEF Holds, TaskMatches, Stays
  <2>5. LockMatches(t)'
    BY <2>1, <2>2
  <2>6. Holds(t)'
    BY <2>1, <2>2, <2>3, <2>4, <2>5, Matching
  <2>7. QED
    BY <2>1, <2>6 DEF Aside
<1>8. CASE SwitchSlot(t) \/ SaveProxy(t)
  <2>1. /\ Others(t) /\ UNCHANGED <<client, lock, op, made, world, given>>
        /\ task[t].pc \in {"slot", "proxy"} /\ task'[t].pc \in {"done", "oplock"}
        /\ task'[t].pc = "oplock" => task[t].pc = "slot"
    BY <1>8, SwitchSlotStep, SaveProxyStep DEF Goes
  <2>2. Kind(t) \in KindsAt(task[t].pc) /\ lock # t /\ op # t
    BY <1>1, <2>1, Whose DEF Holds, TaskMatches
  <2>3. QED
    BY <2>1, <2>2, Matching DEF Aside
<1>9. CASE DbError(t)
  <2>1. /\ Others(t) /\ Stays(t) /\ UNCHANGED <<client, lock, op, made, world, given>>
        /\ task[t].pc \in {"save", "clear", "commit", "remove", "settle"}
        /\ task'[t].pc \in {"disconnect", "unlink", "refused"}
        /\ task'[t].pc = "disconnect" <=> task[t].pc = "save"
        /\ task'[t].pc = "unlink" <=> task[t].pc = "clear" /\ Kind(t) = "delete"
    BY <1>9, DbErrorStep
  <2>2. Kind(t) \in KindsAt(task[t].pc)
    BY <1>1, <2>1, Whose
  <2>3. Kind(t) \in KindsAt(task'[t].pc)
    BY <2>1, <2>2
  <2>4. LockMatches(t)' /\ (lock' = t => Kind(t) \in Starters)
        /\ (op' = t => Kind(t) \in {"operation", "reconnect", "switch"})
    <3>1. lock = t => task'[t].pc = "refused"
      BY <1>1, <2>1 DEF Holds, TaskMatches
    <3>2. QED
      BY <1>1, <2>1, <3>1 DEF Holds, TaskMatches
  <2>5. Holds(t)'
    BY <2>1, <2>3, <2>4, Matching
  <2>6. QED
    BY <2>1, <2>5 DEF Aside
<1>10. QED
  BY <1>2, <1>3, <1>4, <1>5, <1>6, <1>7, <1>8, <1>9

\* A task enters.
LEMMA EnterMatches ==
  ASSUME TypeOK, Matched, NEW t \in Tasks, Enter(t)
  PROVE  /\ Others(t) /\ Aside(t) /\ Holds(t)'
<1>1. Holds(t)
  BY DEF Matched
<1>2. lock # t /\ op # t
  BY <1>1, EnterStep DEF Holds, LockMatches, HeldSteps, Starting
<1>3. Others(t) /\ Enters(t) /\ task'[t].pc = FirstStep(t) /\ task'[t].cli = client
      /\ UNCHANGED <<client, lock, op, made, world, given>>
  BY EnterStep
<1>4. Kind(t) \in TaskKinds /\ Kind(t) # "none"
  BY <1>3, Given DEF Enters, Kind
<1>5. Kind(t) \in KindsAt(FirstStep(t))
  BY <1>4 DEF FirstStep, KindsAt, Starters, TaskKinds
<1>6. /\ FirstStep(t) \in {"lock", "oplock", "slot", "look", "drop", "promote", "commit", "take",
                           "stop", "proxy"}
      /\ FirstStep(t) = "look" => Kind(t) = "refresh"
  BY <1>4 DEF FirstStep, TaskKinds
<1>7. FirstStep(t) = "look" => client \in DOMAIN made
  BY <1>3, <1>6 DEF Enters, RoundIsDue, TypeOK
<1>8. LockMatches(t)'
  BY <1>2, <1>3, <1>6 DEF LockMatches, Starting
<1>9. Holds(t)'
  BY <1>2, <1>3, <1>5, <1>6, <1>7, <1>8, Matching
<1>10. QED
  BY <1>3, <1>9 DEF Aside

\* The process ends.
LEMMA EndsMatch ==
  ASSUME TypeOK, Matched, Ends
  PROVE  Matched'
<1>1. ASSUME NEW u \in Tasks
      PROVE  Holds(u)'
  <2>1. task'[u].pc \in {"off", "done"} /\ lock' = None /\ op' = None /\ given' = given
    BY EndsStep
  <2>2. LockMatches(u)'
    BY <2>1, Given DEF LockMatches, Starting
  <2>3. QED
    BY <2>1, <2>2, Given, Matching
<1>2. QED
  BY <1>1 DEF Matched

\* Every step keeps the tasks and the locks in order.
LEMMA StepMatches ==
  ASSUME TypeOK, Matched, Next
  PROVE  Matched'
<1>1. ASSUME NEW t \in Tasks, Others(t), Aside(t), Holds(t)'
      PROVE  Matched'
  BY <1>1, OthersHold DEF Matched
<1>2. ASSUME NEW t \in Tasks,
             (Step(t) /\ ~Halt(t)) \/ Enter(t) \/ Unreachable(t) \/ LoseContact(t) \/ DbError(t)
      PROVE  Matched'
  BY <1>1, <1>2, StopsMatch, LoginsMatch, StartsMatch, RestMatches, EnterMatches DEF Step, Start
<1>3. ASSUME UNCHANGED <<task, client, lock, op, made, given>>, world # "ok" => world' # "ok"
      PROVE  Matched'
  BY <1>3 DEF Matched, Holds, LockMatches, TaskMatches, Busy, Kind
<1>4. CASE LoseConnection \/ Revoke \/ Expel \/ BackoffPasses
  BY <1>3, <1>4 DEF LoseConnection, Revoke, Expel, BackoffPasses, stored, memory, past, telegram
<1>5. CASE Crash \/ \E t \in Tasks : Halt(t)
  BY <1>5, EndsMatch DEF Crash, Halt
<1>6. QED
  BY <1>2, <1>4, <1>5 DEF Next, Progress, Event

-------------------------------------------------------------------------------
(***************************************************************************)
(* Which steps change what.                                                *)
(***************************************************************************)

\* A task takes a step, and the process goes on.
Works(t) == (Step(t) /\ ~Halt(t)) \/ Enter(t) \/ Unreachable(t) \/ LoseContact(t) \/ DbError(t)

\* The steps that change the account, its session, its log and its proxy.
TableChanges(t) ==
  /\ row'.there # row.there => CommitLogin(t)
  /\ row'.deleted # row.deleted => CommitLogin(t) \/ CommitDelete(t)
  /\ row'.status \in {"banned", "deactivated"} => row'.status = row.status \/ LogGone(t) \/ noted'
  /\ store' # store => Save(t) \/ Clear(t) \/ Keep(t)
  /\ file' # file => Promote(t) \/ Unlink(t)
  /\ gone' # gone => LogGone(t) \/ CommitDelete(t)
  /\ proxy'.enabled # proxy.enabled => SaveProxy(t)

\* The steps that change the register, the connections and the history.
MemoryChanges(t) ==
  /\ client' # client => Stop(t) \/ Register(t)
  /\ conn' # conn => Disconnect(t) \/ Register(t) \/ Redial(t) \/ DbError(t)
  /\ revived' # revived => Redial(t)
  /\ latest' # latest => Promote(t)
  /\ made' # made => Dial(t)
  /\ met' # met => Enter(t)
  /\ (noted => noted') /\ faults' >= faults /\ given' = given
  /\ Others(t) /\ (task[t].pc \in {"off", "done"} => Enter(t)) /\ task'[t].pc # "off"

\* The steps that lead to the steps the properties are about.
Arrivals(t) ==
  /\ task'[t].pc \in {"plan", "load"} => Load(t) \/ Lock(t)
  /\ task'[t].pc \in {"dial", "connect"} => ReadProxy(t) \/ Dial(t) \/ Unreachable(t)
  /\ task'[t].pc \in {"settle", "keep"} => Register(t) \/ Settle(t)
  /\ task'[t].pc \in {"save", "hangup"} => Stop(t)
  /\ task'[t].pc = "disconnect" => Save(t) \/ DbError(t)
  /\ task'[t].pc = "clear" => Stop(t) \/ Disconnect(t) \/ Unauthorized(t) \/ LogGone(t)
  /\ task'[t].pc \in {"unlink", "remove"} => Clear(t) \/ DbError(t) \/ Unlink(t)
  /\ task'[t].pc = "promote" => Clear(t) \/ TakeTicket(t) \/ Enter(t)

\* Every step of a task is one of those named for what it changes, and comes
\* to a step only from those that lead there.
LEMMA Changes ==
  ASSUME TypeOK, NEW t \in Tasks, TaskMatches(t), Works(t)
  PROVE  TableChanges(t) /\ MemoryChanges(t) /\ Arrivals(t)
<1>1. \A s : Marked(s).there = row.there /\ Marked(s).deleted = row.deleted /\ Marked(s).status = s
  BY DEF TypeOK, Marked
<1>2. [row EXCEPT !.deleted = TRUE, !.status = "removed"].there = row.there
      /\ [row EXCEPT !.deleted = TRUE, !.status = "removed"].status = "removed"
  BY DEF TypeOK
<1>3. \A s \in {"primary", "fallback"} : Moved(s).enabled = proxy.enabled
  BY ProxyType
<1>4. faults >= faults
  BY Given DEF TypeOK
<1>5. task[t].pc = "dial" => task[t].plan # <<>>
  BY DEF TaskMatches
<1> USE DEF TableChanges, MemoryChanges, Arrivals, Goes
<1>6. CASE OpLock(t)
  BY <1>1, <1>2, <1>3, <1>4, <1>6, OpLockStep
<1>7. CASE Act(t)
  <2>1. TableChanges(t)
    <3>1. /\ row'.there = row.there /\ row'.deleted = row.deleted
          /\ row' # row => noted' \/ row'.status \notin {"banned", "deactivated"}
      BY <1>1, <1>7, ActStep
    <3>2. QED
      BY <1>7, <3>1, ActStep
  <2>2. MemoryChanges(t)
    BY <1>4, <1>7, ActStep
  <2>3. Arrivals(t)
    BY <1>7, ActStep
  <2>4. QED
    BY <2>1, <2>2, <2>3
<1>8. CASE Stop(t)
  BY <1>1, <1>2, <1>3, <1>4, <1>8, StopStep, AfterStopType
<1>9. CASE Save(t)
  BY <1>1, <1>2, <1>3, <1>4, <1>9, SaveStep
<1>10. CASE Disconnect(t)
  BY <1>1, <1>2, <1>3, <1>4, <1>10, DisconnectStep, AfterStopType
<1>11. CASE Clear(t)
  BY <1>1, <1>2, <1>3, <1>4, <1>11, ClearStep, AfterClearType
<1>12. CASE TakeTicket(t)
  BY <1>1, <1>2, <1>3, <1>4, <1>12, TakeTicketStep
<1>13. CASE Promote(t)
  BY <1>1, <1>2, <1>3, <1>4, <1>13, PromoteStep
<1>14. CASE CommitLogin(t)
  BY <1>1, <1>2, <1>3, <1>4, <1>14, CommitLoginStep
<1>15. CASE Unlink(t)
  BY <1>1, <1>2, <1>3, <1>4, <1>15, UnlinkStep
<1>16. CASE CommitDelete(t)
  BY <1>1, <1>2, <1>3, <1>4, <1>16, CommitDeleteStep
<1>17. CASE Lock(t)
  BY <1>1, <1>2, <1>3, <1>4, <1>17, LockStep
<1>18. CASE Load(t)
  BY <1>1, <1>2, <1>3, <1>4, <1>18, LoadStep
<1>19. CASE ReadProxy(t)
  BY <1>1, <1>2, <1>3, <1>4, <1>19, ReadProxyStep
<1>20. CASE Dial(t)
  <2>1. task[t].plan # <<>>
    BY <1>5, <1>20 DEF Dial
  <2>2. QED
    BY <1>1, <1>4, <1>20, <2>1, DialStep
<1>21. CASE Unauthorized(t)
  BY <1>1, <1>2, <1>3, <1>4, <1>21, UnauthorizedStep
<1>22. CASE Expelled(t)
  BY <1>1, <1>2, <1>3, <1>4, <1>22, ExpelledStep
<1>23. CASE LogGone(t)
  BY <1>1, <1>2, <1>3, <1>4, <1>23, LogGoneStep
<1>24. CASE Register(t)
  BY <1>1, <1>2, <1>3, <1>4, <1>24, RegisterStep
<1>25. CASE Settle(t)
  BY <1>1, <1>2, <1>3, <1>4, <1>25, SettleStep
<1>26. CASE Keep(t)
  <2>1. TableChanges(t)
    <3>1. /\ row'.there = row.there /\ row'.deleted = row.deleted
          /\ row' # row => noted' \/ row'.status \notin {"banned", "deactivated"}
      BY <1>1, <1>26, KeepStep
    <3>2. QED
      BY <1>26, <3>1, KeepStep
  <2>2. MemoryChanges(t)
    BY <1>4, <1>26, KeepStep
  <2>3. Arrivals(t)
    BY <1>26, KeepStep
  <2>4. QED
    BY <2>1, <2>2, <2>3
<1>27. CASE Leave(t)
  <2>1. TableChanges(t)
    <3>1. /\ row'.there = row.there /\ row'.deleted = row.deleted
          /\ row' # row => noted' \/ row'.status \notin {"banned", "deactivated"}
      <4>1. row' = row \/ row' = Marked("network_error")
        BY <1>27, LeaveStep
      <4>2. QED
        BY <1>1, <4>1
    <3>2. QED
      BY <1>27, <3>1, LeaveStep
  <2>2. MemoryChanges(t)
    BY <1>4, <1>27, LeaveStep
  <2>3. Arrivals(t)
    BY <1>27, LeaveStep
  <2>4. QED
    BY <2>1, <2>2, <2>3
<1>28. CASE Look(t)
  BY <1>1, <1>2, <1>3, <1>4, <1>28, LookStep
<1>29. CASE Redial(t)
  BY <1>1, <1>2, <1>3, <1>4, <1>29, RedialStep
<1>30. CASE Ask(t)
  <2>1. TableChanges(t)
    <3>1. /\ row'.there = row.there /\ row'.deleted = row.deleted
          /\ row' # row => noted' \/ row'.status \notin {"banned", "deactivated"}
      BY <1>1, <1>30, AskStep
    <3>2. QED
      BY <1>30, <3>1, AskStep
  <2>2. MemoryChanges(t)
    BY <1>4, <1>30, AskStep
  <2>3. Arrivals(t)
    BY <1>30, AskStep
  <2>4. QED
    BY <2>1, <2>2, <2>3
<1>31. CASE FailOver(t)
  BY <1>1, <1>2, <1>3, <1>4, <1>31, FailOverStep
<1>32. CASE SwitchSlot(t)
  BY <1>1, <1>2, <1>3, <1>4, <1>32, SwitchSlotStep
<1>33. CASE SaveProxy(t)
  BY <1>1, <1>2, <1>3, <1>4, <1>33, SaveProxyStep
<1>34. CASE Enter(t)
  BY <1>1, <1>2, <1>3, <1>4, <1>34, EnterStep DEF FirstStep
<1>35. CASE Unreachable(t)
  BY <1>1, <1>2, <1>3, <1>4, <1>35, UnreachableStep
<1>36. CASE LoseContact(t)
  BY <1>1, <1>2, <1>3, <1>4, <1>36, LoseContactStep
<1>37. CASE DbError(t)
  BY <1>1, <1>2, <1>3, <1>4, <1>37, DbErrorStep
<1>38. QED
  BY <1>6, <1>7, <1>8, <1>9, <1>10, <1>11, <1>12, <1>13, <1>14, <1>15, <1>16, <1>17, <1>18,
     <1>19, <1>20, <1>21, <1>22, <1>23, <1>24, <1>25, <1>26, <1>27, <1>28, <1>29, <1>30, <1>31,
     <1>32, <1>33, <1>34, <1>35, <1>36, <1>37 DEF Works, Step, Start

-------------------------------------------------------------------------------
(***************************************************************************)
(* Tasks that overlap, an account that is not there yet, connections.      *)
(***************************************************************************)

\* What every step of a task leaves as it was.
LEMMA Common ==
  ASSUME TypeOK, Matched, NEW t \in Tasks, Works(t)
  PROVE  /\ TableChanges(t) /\ MemoryChanges(t) /\ Arrivals(t)
         /\ Others(t) /\ (t \notin Busy => Enter(t)) /\ met \subseteq met'
         /\ \A u \in Tasks \ {t} : u \in Busy' <=> u \in Busy
         /\ \A u \in Tasks : Kind(u)' = Kind(u)
         /\ TaskMatches(t)
<1>1. TaskMatches(t)
  BY DEF Matched, Holds
<1>2. TableChanges(t) /\ MemoryChanges(t) /\ Arrivals(t)
  BY <1>1, Changes
<1>3. met \subseteq met'
  BY <1>2, EnterStep DEF MemoryChanges
<1>4. \A u \in Tasks : Kind(u)' = Kind(u)
  BY <1>2 DEF MemoryChanges, Kind
<1>5. Others(t) /\ (t \notin Busy => Enter(t)) /\ \A u \in Tasks \ {t} : u \in Busy' <=> u \in Busy
  BY <1>2 DEF MemoryChanges, Busy, Others
<1>6. QED
  BY <1>1, <1>2, <1>3, <1>4, <1>5

\* Whoever enters has overlapped the tasks at work.
LEMMA MeetsKept ==
  ASSUME TypeOK, Matched, BusyMeet, NEW t \in Tasks, Works(t)
  PROVE  BusyMeet'
<1>1. ASSUME NEW u \in Busy', NEW v \in Busy', u # v
      PROVE  {u, v} \in met'
  <2>1. u \in Tasks /\ v \in Tasks
    BY DEF Busy
  <2>2. CASE u \in Busy /\ v \in Busy
    BY <1>1, <2>2, Common DEF BusyMeet
  <2>3. CASE u \notin Busy
    <3>1. u = t /\ Enter(t) /\ v \in Busy
      BY <1>1, <2>1, <2>3, Common
    <3>2. QED
      BY <3>1, EnterStep
  <2>4. CASE v \notin Busy
    <3>1. v = t /\ Enter(t) /\ u \in Busy
      BY <1>1, <2>1, <2>4, Common
    <3>2. {t, u} \in met' /\ {t, u} = {u, v}
      BY <3>1, EnterStep
    <3>3. QED
      BY <3>2
  <2>5. QED
    BY <2>2, <2>3, <2>4
<1>2. QED
  BY <1>1 DEF BusyMeet

\* Where a task can be before the account is there.
Early(t) == \/ Kind(t) = "shutdown" /\ task[t].pc \in {"stop", "halt"}
            \/ task[t].pc \in {"take", "promote", "commit", "refused", "proxy"}

\* Before the account is there, nothing is started, stopped or stored.
LEMMA NothingBeforeKept ==
  ASSUME TypeOK, Matched, NothingBefore, NEW t \in Tasks, Works(t)
  PROVE  NothingBefore'
<1> SUFFICES ASSUME ~row'.there
             PROVE  store' = None /\ client' = None /\ \A u \in Busy' : Early(u)'
  BY DEF NothingBefore, Early
<1>1. CASE row.there
  <2>1. CommitLogin(t)
    BY <1>1, Common DEF TableChanges
  <2>2. QED
    BY <1>1, <2>1, CommitLoginStep
<1>2. CASE ~row.there
  <2>1. store = None /\ client = None /\ \A u \in Busy : Early(u)
    BY <1>2 DEF NothingBefore, Early
  <2>2. \A u \in Tasks \ {t} : u \in Busy' => Early(u)'
    BY <2>1, Common DEF Early, Others
  <2>3. CASE Enter(t)
    <3>1. Kind(t) \in TaskKinds /\ Kind(t) \notin {"none", "startup", "reconnect", "switch",
                                                   "operation", "delete", "refresh"}
      BY <1>2, <2>1, <2>3, EnterStep, Given DEF Enters, Live, RoundIsDue, Kind
    <3>2. \/ FirstStep(t) \in {"take", "promote", "commit", "proxy"}
          \/ FirstStep(t) = "stop" /\ Kind(t) = "shutdown"
      <4>1. Kind(t) \in {"login", "sync", "qr", "shutdown", "save_proxy", "delete_proxy"}
        BY <3>1 DEF TaskKinds
      <4>2. Kind(t) \in {"save_proxy", "delete_proxy"} => FirstStep(t) = "proxy"
        BY DEF FirstStep
      <4>3. /\ Kind(t) = "login" => FirstStep(t) = "promote"
            /\ Kind(t) = "sync" => FirstStep(t) = "commit"
            /\ Kind(t) = "qr" => FirstStep(t) = "take"
        BY <1>2 DEF FirstStep
      <4>4. Kind(t) = "shutdown" => FirstStep(t) = "stop"
        BY DEF FirstStep
      <4>5. QED
        BY <4>1, <4>2, <4>3, <4>4
    <3>3. Early(t)' /\ store' = store /\ client' = client
      BY <2>3, <3>2, EnterStep, Common DEF Early
    <3>4. QED
      BY <2>1, <2>2, <3>3, Common DEF Busy
  <2>4. CASE ~Enter(t)
    <3>1. t \in Busy /\ Early(t)
      BY <2>1, <2>4, Common
    <3>2. Stop(t) \/ TakeTicket(t) \/ Promote(t) \/ CommitLogin(t) \/ Leave(t) \/ SaveProxy(t) \/ DbError(t)
      BY <2>4, <3>1 DEF Works, Step, Start, Early, OpLock, Act, Save, Disconnect, Clear, Unlink,
         CommitDelete, Lock, Load, ReadProxy, Dial, Unauthorized, Expelled, LogGone, Register,
         Settle, Keep, Look, Redial, Ask, FailOver, SwitchSlot, Unreachable, LoseContact, Halt
    <3>3. CASE Stop(t)
      <4>1. Kind(t) = "shutdown" /\ task[t].pc = "stop"
        BY <3>1, <3>3, StopStep DEF Early
      <4>2. task'[t].pc = "halt" /\ store' = store /\ client' = None
        BY <2>1, <3>3, <4>1, StopStep, AfterStopType
      <4>3. QED
        BY <2>1, <2>2, <4>1, <4>2, Common DEF Early, Busy
    <3>4. CASE ~Stop(t)
      <4>1. store' = store /\ client' = client
        BY <3>2, <3>4, TakeTicketStep, PromoteStep, CommitLoginStep, LeaveStep, SaveProxyStep,
           DbErrorStep
      <4>2. task'[t].pc \in {"take", "promote", "commit", "refused", "done"}
        <5>1. CASE TakeTicket(t) \/ Promote(t) \/ Leave(t) \/ SaveProxy(t)
          BY <1>2, <5>1, TakeTicketStep, PromoteStep, LeaveStep, SaveProxyStep DEF Goes
        <5>2. CASE CommitLogin(t)
          BY <1>2, <5>2, CommitLoginStep
        <5>3. CASE DbError(t)
          BY <3>1, <5>3, DbErrorStep DEF Early
        <5>4. QED
          BY <3>2, <3>4, <5>1, <5>2, <5>3
      <4>3. QED
        BY <2>1, <2>2, <4>1, <4>2 DEF Early, Busy
    <3>5. QED
      BY <3>3, <3>4
  <2>5. QED
    BY <2>3, <2>4
<1>3. QED
  BY <1>1, <1>2

\* The clients that are being stopped.
Stopped == {task[t].cli : t \in {u \in Tasks : task[u].pc \in Stopping}}

\* A connection is that of the registered client, of one being stopped, or of
\* one connected again by a round of the status loop.
LEMMA NoStraysKept ==
  ASSUME TypeOK, Matched, NoStrayClients, NEW t \in Tasks, Works(t)
  PROVE  NoStrayClients'
<1> SUFFICES ASSUME NEW c \in conn', c # client'
             PROVE  c \in revived' \union Stopped'
  BY DEF NoStrayClients, Stopped
<1>1. c # None
  <2>1. CASE c \in conn
    BY <2>1, KeyType DEF TypeOK
  <2>2. CASE c \notin conn
    <3>1. c = task[t].cli /\ task[t].pc \in {"connect", "redial"}
      BY <2>2, Common, DisconnectStep, RegisterStep, RedialStep, DbErrorStep DEF MemoryChanges
    <3>2. c \in DOMAIN made
      BY <3>1, Common DEF TaskMatches
    <3>3. QED
      BY <3>2, KeyType
  <2>3. QED
    BY <2>1, <2>2
<1>2. \A u \in Tasks \ {t} : task[u].pc \in Stopping => task[u].cli \in Stopped'
  BY Common DEF Others, Stopped
<1>3. task'[t].pc \in Stopping => task'[t].cli \in Stopped'
  BY DEF Stopped
<1>4. revived \subseteq revived'
  BY Common, RedialStep DEF MemoryChanges
<1>5. CASE c \in conn /\ c # client
  <2>1. c \in revived \/ \E u \in Tasks : task[u].pc \in Stopping /\ c = task[u].cli
    BY <1>5 DEF NoStrayClients
  <2>2. CASE c \in revived
    BY <1>4, <2>2
  <2>3. ASSUME NEW u \in Tasks, task[u].pc \in Stopping, c = task[u].cli
        PROVE  c \in Stopped'
    <3>1. CASE u # t
      BY <1>2, <2>3, <3>1
    <3>2. CASE u = t
      <4>1. Save(t) \/ Disconnect(t) \/ DbError(t)
        BY <2>3, <3>2 DEF Works, Step, Start, OpLock, Act, Stop, Clear, TakeTicket, Promote,
           CommitLogin, Unlink, CommitDelete, Lock, Load, ReadProxy, Dial, Unauthorized, Expelled,
           LogGone, Register, Settle, Keep, Leave, Look, Redial, Ask, FailOver, SwitchSlot,
           SaveProxy, Unreachable, LoseContact, Halt, Enter, Stopping
      <4>2. CASE Disconnect(t)
        BY <2>3, <3>2, <4>2, DisconnectStep
      <4>3. CASE Save(t) \/ DbError(t)
        <5>1. task'[t].pc = "disconnect" /\ task'[t].cli = c
          BY <2>3, <3>2, <4>3, SaveStep, DbErrorStep DEF Goes, Stays, Stopping
        <5>2. QED
          BY <1>3, <5>1 DEF Stopping
      <4>4. QED
        BY <4>1, <4>2, <4>3
    <3>3. QED
      BY <3>1, <3>2
  <2>4. QED
    BY <2>1, <2>2, <2>3
<1>6. CASE c = client
  <2>1. Stop(t) \/ Register(t)
    BY <1>6, Common DEF MemoryChanges
  <2>2. CASE Stop(t)
    <3>1. task'[t].pc \in {"save", "hangup"} /\ task'[t].cli = c
      BY <1>1, <1>6, <2>2, StopStep
    <3>2. QED
      BY <1>3, <3>1 DEF Stopping
  <2>3. CASE Register(t)
    <3>1. client = None
      BY <2>3, Common, RegisterStep DEF TaskMatches
    <3>2. QED
      BY <1>1, <1>6, <3>1
  <2>4. QED
    BY <2>1, <2>2, <2>3
<1>7. CASE c \notin conn
  <2>1. Register(t) \/ Redial(t)
    BY <1>7, Common, DisconnectStep, DbErrorStep DEF MemoryChanges
  <2>2. c = task[t].cli /\ ~Register(t)
    BY <1>7, <2>1, RegisterStep, RedialStep
  <2>3. QED
    BY <2>1, <2>2, RedialStep
<1>8. QED
  BY <1>5, <1>6, <1>7

-------------------------------------------------------------------------------
(***************************************************************************)
(* The log of departures, and the routes to try.                           *)
(***************************************************************************)

\* A log that grows keeps its entries, and gets a new one at its end.
LEMMA Logged ==
  ASSUME TypeOK, NEW x \in Departed, gone' = Append(gone, x)
  PROVE  /\ \A r : Departures(r) \subseteq Departures(r)'
         /\ Departures(x)' # {}
         /\ \A r : r # x => Departures(r)' = Departures(r)
         /\ Departures(x)' = Departures(x) \union {Len(gone) + 1}
         /\ Len(gone) + 1 \notin Departures(x)
<1>1. gone \in Seq(Departed) /\ Len(gone) \in Nat /\ DOMAIN gone = 1 .. Len(gone)
  BY DEF TypeOK, Departed
<1>2. /\ DOMAIN gone' = DOMAIN gone \union {Len(gone) + 1} /\ gone'[Len(gone) + 1] = x
      /\ \A i \in DOMAIN gone : gone'[i] = gone[i]
      /\ Len(gone) + 1 \notin DOMAIN gone
  BY <1>1
<1>3. QED
  BY <1>2 DEF Departures

\* The tasks and the log are finite.
LEMMA Finite ==
  ASSUME TypeOK, NEW r
  PROVE  /\ IsFiniteSet(Departures(r)) /\ IsFiniteSet(Removers) /\ IsFiniteSet(Removers')
         /\ Cardinality(Departures(r)) \in Nat /\ Cardinality(Removers) \in Nat
         /\ Cardinality(Removers') \in Nat
<1>1. gone \in Seq(Departed) /\ Len(gone) \in Nat /\ DOMAIN gone = 1 .. Len(gone)
  BY DEF TypeOK, Departed
<1>2. IsFiniteSet(1 .. Len(gone))
  BY <1>1, FS_Interval
<1>3. IsFiniteSet(Departures(r))
  BY <1>1, <1>2, FS_Subset DEF Departures
<1>4. Removers \subseteq Tasks /\ Removers' \subseteq Tasks /\ IsFiniteSet(Tasks)
  BY Given DEF Removers
<1>5. IsFiniteSet(Removers) /\ IsFiniteSet(Removers')
  BY <1>4, FS_Subset
<1>6. QED
  BY <1>3, <1>5, FS_CardinalityType

\* The same of the log after a step.
LEMMA FiniteNext ==
  ASSUME TypeOK', NEW r
  PROVE  Cardinality(Departures(r)') \in Nat
<1>1. gone' \in Seq(Departed) /\ Len(gone') \in Nat /\ DOMAIN gone' = 1 .. Len(gone')
  BY DEF TypeOK, Departed
<1>2. IsFiniteSet(1 .. Len(gone'))
  BY <1>1, FS_Interval
<1>3. IsFiniteSet(Departures(r)')
  BY <1>1, <1>2, FS_Subset DEF Departures
<1>4. QED
  BY <1>3, FS_CardinalityType

\* A request that has ended stays ended.
LEMMA RemoversStay ==
  ASSUME TypeOK, Matched, NEW t \in Tasks, Works(t)
  PROVE  Removers \subseteq Removers'
<1>1. ASSUME NEW u \in Removers
      PROVE  u \in Removers'
  <2>1. u \in Tasks /\ Kind(u) = "delete" /\ task[u].pc = "done" /\ u \notin Busy
    BY DEF Removers, Busy
  <2>2. u # t
    BY <2>1, Common, EnterStep
  <2>3. QED
    BY <2>1, <2>2, Common DEF Removers, Others
<1>2. QED
  BY <1>1

\* A step that marks the account as gone logs it, and only a removal's last
\* step logs a removal.
LEMMA GoneKept ==
  ASSUME TypeOK, TypeOK', Matched, GoneIsLogged, NEW t \in Tasks, Works(t)
  PROVE  GoneIsLogged'
<1> DEFINE n == IF given.at = "deleted" THEN 1 ELSE 0
<1>1. given' = given /\ n \in Nat
  BY Common DEF MemoryChanges
<1>2. CASE LogGone(t)
  <2>1. world \in Departed /\ world # "removed"
    BY <1>2, Common, LogGoneStep DEF TaskMatches, TypeOK, Departed
  <2>2. CASE gone' = gone /\ row' = row
    <3>1. Departures("removed")' = Departures("removed")
          /\ Departures(row.status)' = Departures(row.status)
      BY <2>2 DEF Departures
    <3>2. Cardinality(Removers) <= Cardinality(Removers')
      BY RemoversStay, Finite, FS_Subset
    <3>3. QED
      BY <1>1, <1>2, <2>2, <3>1, <3>2, Finite, Common DEF GoneIsLogged, MemoryChanges
  <2>3. CASE gone' = Append(gone, world) /\ row' = Marked(world)
    <3>1. PICK w \in Departed : w = world
      BY <2>1
    <3>2. row'.status = w
      BY <2>3, <3>1 DEF Marked, TypeOK
    <3>3. Departures("removed")' = Departures("removed") /\ Departures(w)' # {}
      BY <2>1, <2>3, <3>1, Logged
    <3>4. Departures(row.status)' # {}
      BY <3>2, <3>3 DEF Departures
    <3>5. Cardinality(Removers) <= Cardinality(Removers')
      BY RemoversStay, Finite, FS_Subset
    <3>6. QED
      BY <1>1, <3>3, <3>4, <3>5, Finite DEF GoneIsLogged
  <2>4. QED
    BY <1>2, <2>2, <2>3, LogGoneStep
<1>3. CASE CommitDelete(t)
  <2>1. row'.status = "removed"
    BY <1>3, CommitDeleteStep DEF TypeOK
  <2>2. Kind(t) = "delete" /\ task[t].pc = "remove" /\ task'[t].pc = "done"
    BY <1>3, Common, CommitDeleteStep, Whose DEF Matched, KindsAt, Goes
  <2>3. t \notin Removers /\ Removers' = Removers \union {t}
    <3>1. \A u \in Tasks \ {t} : u \in Removers' <=> u \in Removers
      BY Common DEF Removers, Others
    <3>2. t \in Removers' /\ t \notin Removers
      BY <2>2, Common DEF Removers
    <3>3. QED
      BY <3>1, <3>2 DEF Removers
  <2>4. Cardinality(Removers') = Cardinality(Removers) + 1
    BY <2>3, Finite, FS_AddElement
  <2>5. Cardinality(Departures("removed")') <= Cardinality(Departures("removed")) + 1
    <3>1. CASE gone' = gone
      <4>1. Departures("removed")' = Departures("removed")
        BY <3>1 DEF Departures
      <4>2. QED
        BY <4>1, Finite
    <3>2. CASE gone' = Append(gone, "removed")
      <4>1. /\ Departures("removed")' = Departures("removed") \union {Len(gone) + 1}
            /\ Len(gone) + 1 \notin Departures("removed")
        BY <3>2, Logged DEF Departed
      <4>2. IsFiniteSet(Departures("removed")) /\ Cardinality(Departures("removed")) \in Nat
        BY Finite
      <4>3. Cardinality(Departures("removed") \union {Len(gone) + 1}) = Cardinality(Departures("removed")) + 1
        BY <4>1, <4>2, FS_AddElement
      <4>4. Cardinality(Departures("removed")')
              = Cardinality(Departures("removed") \union {Len(gone) + 1})
        BY ONLY <4>1, Zenon
      <4>5. QED
        BY <4>2, <4>3, <4>4
    <3>3. QED
      BY <1>3, <3>1, <3>2, CommitDeleteStep
  <2>6. Cardinality(Departures("removed")') <= Cardinality(Removers') + n
    <3>1. Cardinality(Departures("removed")) <= Cardinality(Removers) + n
      BY DEF GoneIsLogged
    <3>2. /\ Cardinality(Departures("removed")) \in Nat /\ Cardinality(Removers) \in Nat
          /\ Cardinality(Departures("removed")') \in Nat
      BY Finite, FiniteNext
    <3>3. QED
      BY <1>1, <2>4, <2>5, <3>1, <3>2
  <2>7. QED
    BY <1>1, <2>1, <2>6 DEF GoneIsLogged
<1>4. CASE ~LogGone(t) /\ ~CommitDelete(t)
  <2>1. gone' = gone /\ (row'.status \in {"banned", "deactivated"} => row'.status = row.status \/ noted')
        /\ (noted => noted')
    BY <1>4, Common DEF TableChanges, MemoryChanges
  <2>2. Departures("removed")' = Departures("removed")
        /\ \A r : Departures(r)' = Departures(r)
    BY <2>1 DEF Departures
  <2>3. row'.status = row.status => Departures(row.status)' = Departures(row.status)
    BY <2>1 DEF Departures
  <2>4. Cardinality(Removers) <= Cardinality(Removers')
    BY RemoversStay, Finite, FS_Subset
  <2>5. row'.status \in {"banned", "deactivated"} => Departures(row.status)' # {} \/ noted'
    BY <2>1, <2>3 DEF GoneIsLogged
  <2>6. QED
    BY <1>1, <2>2, <2>4, <2>5, Finite DEF GoneIsLogged
<1>5. QED
  BY <1>2, <1>3, <1>4

\* The tail of a sequence holds what the sequence does.
LEMMA TailHolds ==
  ASSUME NEW s \in Seq(Routes), s # <<>>, NEW i \in DOMAIN Tail(s)
  PROVE  i + 1 \in DOMAIN s /\ Tail(s)[i] = s[i + 1]
OBVIOUS

\* The routes left to a start stay those of the stored proxy.
LEMMA PlansKept ==
  ASSUME TypeOK, Matched, BusyMeet, PlansMatch, NEW t \in Tasks, Works(t)
  PROVE  PlansMatch'
<1> DEFINE Beside(u) == Overlapped(u, {"save_proxy", "delete_proxy"})
           Proxied(u) == proxy.enabled => \A i \in DOMAIN task[u].plan : task[u].plan[i] # "direct"
<1> SUFFICES ASSUME NEW u \in Tasks, task'[u].pc \in {"dial", "connect"}
             PROVE  Beside(u)' \/ Proxied(u)'
  BY DEF PlansMatch
<1>1. Beside(u) => Beside(u)'
  BY Common DEF Overlapped
<1>2. CASE proxy'.enabled = proxy.enabled
  <2>1. CASE u # t
    <3>1. task'[u] = task[u]
      BY <2>1, Common DEF Others
    <3>2. Beside(u) \/ Proxied(u)
      BY <3>1 DEF PlansMatch
    <3>3. QED
      BY <1>1, <1>2, <3>1, <3>2
  <2>2. CASE u = t /\ ReadProxy(t)
    <3>1. task'[t].plan = Plan(proxy) /\ proxy \in ProxyRow /\ proxy' = proxy
      BY <2>2, ReadProxyStep DEF TypeOK
    <3>2. QED
      BY <2>2, <3>1, PlanType
  <2>3. CASE u = t /\ Dial(t)
    <3>1. task[t].plan # <<>> /\ task[t].plan \in Seq(Routes) /\ task[t].pc = "dial"
      BY <2>3, Common, Fields DEF TaskMatches, Dial
    <3>2. task'[t].plan = Tail(task[t].plan)
      BY <2>3, <3>1, DialStep
    <3>3. Beside(t) \/ Proxied(t)
      BY <3>1 DEF PlansMatch
    <3>4. Proxied(t) => Proxied(t)'
      BY <1>2, <3>1, <3>2, TailHolds
    <3>5. QED
      BY <1>1, <2>3, <3>3, <3>4
  <2>4. CASE u = t /\ Unreachable(t)
    <3>1. task'[t].plan = task[t].plan /\ task[t].pc = "connect"
      BY <2>4, UnreachableStep DEF Stays
    <3>2. QED
      BY <1>1, <1>2, <2>4, <3>1 DEF PlansMatch
  <2>5. QED
    BY <2>1, <2>2, <2>3, <2>4, Common DEF Arrivals
<1>3. CASE proxy'.enabled # proxy.enabled
  <2>1. SaveProxy(t)
    BY <1>3, Common DEF TableChanges
  <2>2. task[t].pc = "proxy" /\ task'[t].pc = "done"
    BY <2>1, SaveProxyStep DEF Goes
  <2>3. u # t /\ task[u].pc \in {"dial", "connect"}
    BY <2>2, Common DEF Others
  <2>4. u \in Busy /\ t \in Busy /\ Kind(t) \in {"save_proxy", "delete_proxy"}
    BY <2>2, <2>3, Whose DEF Matched, Busy, KindsAt
  <2>5. {u, t} \in met
    BY <2>3, <2>4 DEF BusyMeet
  <2>6. Beside(u)
    BY <2>4, <2>5 DEF Overlapped
  <2>7. QED
    BY <1>1, <2>6
<1>4. QED
  BY <1>2, <1>3

-------------------------------------------------------------------------------
(***************************************************************************)
(* A removal that runs alone.                                              *)
(***************************************************************************)

\* Who overlapped whom before has overlapped him after.
LEMMA OverlapsGrow ==
  ASSUME NEW t \in Tasks, NEW K, Overlapped(t, K), met \subseteq met', given' = given
  PROVE  Overlapped(t, K)'
BY DEF Overlapped, Kind

\* A removal that has run alone so far had done so before.
LEMMA AloneBefore ==
  ASSUME TypeOK, Matched, NEW t \in Tasks, Works(t), RemovalsAlone'
  PROVE  RemovalsAlone
<1>1. given' = given /\ met \subseteq met' /\ \A u \in Tasks : Kind(u)' = Kind(u)
  BY Common DEF MemoryChanges
<1>2. \A u \in Tasks : Overlapped(u, Starters \union {"shutdown"}) =>
                         Overlapped(u, Starters \union {"shutdown"})'
  BY <1>1, OverlapsGrow
<1>3. \A u \in Tasks : task'[u].pc = "off" => task[u].pc = "off"
  BY Common DEF MemoryChanges, Others
<1>4. QED
  BY <1>1, <1>2, <1>3 DEF RemovalsAlone

\* Beside a removal that runs alone, nobody starts the account or saves its
\* session, and nobody logs in.
LEMMA Alone ==
  ASSUME TypeOK, BusyMeet, RemovalsAlone
  PROVE  /\ \A t \in Busy : Kind(t) \notin {"login", "qr", "sync"}
         /\ \A d, u \in Busy : Kind(d) = "delete" => Kind(u) \notin Starters \union {"shutdown"}
<1>1. \A t \in Busy : Kind(t) \notin {"login", "qr", "sync"}
  BY DEF RemovalsAlone, Busy
<1>2. ASSUME NEW d \in Busy, NEW u \in Busy, Kind(d) = "delete",
             Kind(u) \in Starters \union {"shutdown"}
      PROVE  FALSE
  <2>1. d # u
    BY <1>2 DEF Starters
  <2>2. {d, u} \in met /\ u \in Tasks /\ d \in Tasks
    BY <2>1 DEF BusyMeet, Busy
  <2>3. Overlapped(d, Starters \union {"shutdown"})
    BY <1>2, <2>2 DEF Overlapped
  <2>4. QED
    BY <1>2, <2>2, <2>3 DEF RemovalsAlone
<1>3. QED
  BY <1>1, <1>2

\* Who saves, registers or starts something.
LEMMA Movers ==
  ASSUME TypeOK, Matched, NEW t \in Tasks, Works(t)
  PROVE  /\ t \notin Busy => Enter(t)
         /\ Register(t) \/ Keep(t) => t \in Busy /\ Kind(t) \in Starters
         /\ Save(t) => t \in Busy /\ Kind(t) \in Starters \union {"shutdown"}
         /\ Promote(t) => t \in Busy /\ Kind(t) \in {"login", "qr"}
         /\ CommitLogin(t) => t \in Busy /\ Kind(t) \in {"login", "qr", "sync"}
         /\ CommitDelete(t) => t \in Busy /\ Kind(t) = "delete" /\ task[t].pc = "remove"
         /\ Unlink(t) => t \in Busy /\ Kind(t) = "delete" /\ task[t].pc = "unlink"
<1>1. Holds(t)
  BY DEF Matched
<1>2. Register(t) \/ Keep(t) => task[t].pc \in {"connect", "keep"}
  BY DEF Register, Keep
<1>3. /\ Save(t) => task[t].pc = "save"
      /\ Promote(t) => task[t].pc = "promote"
      /\ CommitLogin(t) => task[t].pc = "commit"
      /\ CommitDelete(t) => task[t].pc = "remove"
      /\ Unlink(t) => task[t].pc = "unlink"
  BY DEF Save, Promote, CommitLogin, CommitDelete, Unlink
<1>4. QED
  BY <1>1, <1>2, <1>3, Whose, Common DEF KindsAt, Starters

\* The session and the faults of a step.
LEMMA ClearedStays ==
  ASSUME TypeOK, Matched, NEW t \in Tasks, Works(t), Cleared, ~Save(t), ~Keep(t)
  PROVE  Cleared'
<1>1. given' = given /\ faults' >= faults /\ faults \in Nat /\ faults' \in Nat
  <2>1. faults \in Nat /\ faults' >= faults /\ given' = given
    BY Common, Given DEF MemoryChanges, TypeOK
  <2>2. faults' \in Nat
    BY Common, StepTypes, Given DEF Works, TypeOK
  <2>3. QED
    BY <2>1, <2>2
<1>2. store' # store => store' = None
  BY Common, ClearStep DEF TableChanges
<1>3. QED
  BY <1>1, <1>2 DEF Cleared

\* A removal that runs alone takes the client, the session and the file away
\* in turn, and nobody brings one back.
LEMMA RemovalsKept ==
  ASSUME TypeOK, Matched, BusyMeet, RemovalsHold, DeletedIsDown, NEW t \in Tasks, Works(t)
  PROVE  RemovalsHold' /\ DeletedIsDown'
<1> SUFFICES ASSUME RemovalsAlone'
             PROVE  RemovalsHold' /\ DeletedIsDown'
  BY DEF RemovalsHold, DeletedIsDown
<1>1. RemovalsAlone
  BY AloneBefore
<1>2. /\ \A u \in Busy : Kind(u) \notin {"login", "qr", "sync"}
      /\ \A d, u \in Busy : Kind(d) = "delete" => Kind(u) \notin Starters \union {"shutdown"}
  BY <1>1, Alone
<1>3. ~Promote(t) /\ ~CommitLogin(t)
  BY <1>2, Movers
<1>4. /\ \A d \in Tasks : Kind(d) = "delete" =>
           /\ task[d].pc \in {"hangup", "clear", "unlink", "remove"} => client = None
           /\ task[d].pc \in {"unlink", "remove"} => Cleared
           /\ task[d].pc = "remove" => file = None
      /\ row.deleted => \A u \in Busy : Kind(u) \notin Starters /\ task[u].pc # "save"
  BY <1>1 DEF RemovalsHold
<1>5. row.deleted => client = None /\ file = None /\ Cleared
  BY <1>1 DEF DeletedIsDown
\* While a removal is at work, or the account removed, nothing comes up.
<1>6. ASSUME NEW d \in Busy, Kind(d) = "delete"
      PROVE  ~Register(t) /\ ~Keep(t) /\ ~Save(t)
  BY <1>2, <1>6, Movers
<1>7. row.deleted => ~Register(t) /\ ~Keep(t) /\ ~Save(t)
  <2>1. ASSUME row.deleted, Save(t)
        PROVE  FALSE
    BY <1>4, <2>1, Movers, SaveStep
  <2>2. QED
    BY <1>4, <2>1, Movers
<1>8. ASSUME ~Register(t), ~Keep(t), ~Save(t)
      PROVE  /\ client = None => client' = None
             /\ Cleared => Cleared'
             /\ file = None => file' = None
  <2>1. client = None => client' = None
    BY <1>8, Common, StopStep DEF MemoryChanges
  <2>2. file = None => file' = None
    BY <1>3, Common, UnlinkStep DEF TableChanges
  <2>3. QED
    BY <1>8, <2>1, <2>2, ClearedStays
<1>9. ASSUME NEW d \in Tasks, Kind(d) = "delete"
      PROVE  /\ task'[d].pc \in {"hangup", "clear", "unlink", "remove"} => client' = None
             /\ task'[d].pc \in {"unlink", "remove"} => Cleared'
             /\ task'[d].pc = "remove" => file' = None
  <2>1. CASE d # t
    <3>1. task'[d] = task[d]
      BY <2>1, Common DEF Others
    <3>2. task[d].pc \in {"hangup", "clear", "unlink", "remove"} => d \in Busy
      BY DEF Busy
    <3>3. QED
      BY <1>4, <1>6, <1>8, <1>9, <3>1, <3>2
  <2>2. CASE d = t /\ Enter(t)
    <3>1. task'[t].pc = "drop"
      BY <1>9, <2>2, EnterStep DEF FirstStep
    <3>2. QED
      BY <2>2, <3>1
  <2>3. CASE d = t /\ ~Enter(t)
    <3>1. t \in Busy /\ ~Register(t) /\ ~Keep(t) /\ ~Save(t)
      BY <1>6, <1>9, <2>3, Movers
    <3>2. /\ client = None => client' = None
          /\ Cleared => Cleared'
          /\ file = None => file' = None
      BY <1>8, <3>1
    <3>3. task'[t].pc \in {"hangup", "clear", "unlink", "remove"} => client' = None
      <4>1. ASSUME task'[t].pc \in {"hangup", "clear", "unlink", "remove"}, client' # None
            PROVE  FALSE
        <5>1. ~Stop(t) /\ task[t].pc \notin {"hangup", "clear", "unlink", "remove"}
          BY <1>4, <1>9, <2>3, <3>2, <4>1, StopStep
        <5>2. Unauthorized(t) \/ LogGone(t) \/ Disconnect(t)
          BY <4>1, <5>1, Common, ClearStep, UnlinkStep, DbErrorStep DEF Arrivals
        <5>3. task[t].pc \in {"connect", "log", "disconnect"}
          BY <5>1, <5>2, UnauthorizedStep, LogGoneStep, DisconnectStep
        <5>4. Kind(t) \notin KindsAt(task[t].pc)
          BY <1>9, <2>3, <5>3 DEF KindsAt, Starters
        <5>5. QED
          BY <5>3, <5>4, Whose DEF Matched
      <4>2. QED
        BY <4>1
    <3>4. task'[t].pc \in {"unlink", "remove"} => Cleared'
      <4>1. Clear(t) => Cleared'
        BY ClearStep DEF Cleared
      <4>2. DbError(t) => Cleared'
        BY DbErrorStep DEF Cleared
      <4>3. Unlink(t) => Cleared
        BY <1>4, <1>9, <2>3, UnlinkStep
      <4>4. QED
        BY <3>2, <4>1, <4>2, <4>3, Common DEF Arrivals
    <3>5. task'[t].pc = "remove" => file' = None
      <4>1. task'[t].pc = "remove" => Unlink(t)
        BY Common, ClearStep, DbErrorStep, AfterClearType DEF Arrivals, Goes
      <4>2. QED
        BY <4>1, UnlinkStep
    <3>6. QED
      BY <2>3, <3>3, <3>4, <3>5
  <2>4. QED
    BY <2>1, <2>2, <2>3
<1>10. CASE ~row'.deleted
  BY <1>9, <1>10, Common DEF RemovalsHold, DeletedIsDown
<1>11. CASE row'.deleted /\ ~row.deleted
  <2>1. CommitDelete(t)
    BY <1>3, <1>11, Common DEF TableChanges
  <2>2. t \in Busy /\ Kind(t) = "delete" /\ task[t].pc = "remove"
    BY <2>1, Movers
  <2>3. client' = None /\ file' = None /\ Cleared'
    BY <1>4, <1>6, <1>8, <2>2, Common DEF Busy
  <2>4. ASSUME NEW u \in Busy'
        PROVE  Kind(u)' \notin Starters /\ task'[u].pc # "save"
    <3>1. u # t /\ u \in Tasks
      BY <2>1, <2>4, CommitDeleteStep DEF Busy, Goes
    <3>2. u \in Busy /\ Kind(u)' = Kind(u) /\ task'[u] = task[u]
      BY <2>4, <3>1, Common DEF Others
    <3>3. Kind(u) \notin Starters \union {"shutdown"}
      BY <1>2, <2>2, <3>2
    <3>4. task[u].pc # "save"
      <4>1. task[u].pc = "save" => Kind(u) \in KindsAt("save")
        BY <3>1, <3>2, Whose DEF Matched, Busy
      <4>2. QED
        BY <3>3, <4>1 DEF KindsAt, Starters
    <3>5. QED
      BY <3>2, <3>3, <3>4
  <2>5. QED
    BY <1>9, <2>3, <2>4, Common DEF RemovalsHold, DeletedIsDown
<1>12. CASE row.deleted
  <2>1. client' = None /\ file' = None /\ Cleared'
    BY <1>5, <1>7, <1>8, <1>12
  <2>2. ASSUME NEW u \in Busy'
        PROVE  Kind(u)' \notin Starters /\ task'[u].pc # "save"
    <3>1. CASE u \in Busy
      <4>1. Kind(u) \notin Starters /\ task[u].pc # "save" /\ u \in Tasks
        BY <1>4, <1>12, <3>1 DEF Busy
      <4>2. u = t /\ task'[u].pc = "save" => Stop(t) /\ client # None
        BY Common, StopStep, AfterStopType DEF Arrivals
      <4>3. task'[u].pc # "save"
        BY <1>5, <1>12, <4>1, <4>2, Common DEF Others
      <4>4. QED
        BY <4>1, <4>3, Common
    <3>2. CASE u \notin Busy
      <4>1. u = t /\ Enter(t)
        BY <2>2, <3>2, Common DEF Busy
      <4>2. task'[t].pc = FirstStep(t) /\ Enters(t)
        BY <4>1, EnterStep
      <4>3. Kind(t) \notin {"startup", "reconnect", "switch", "refresh", "none"}
        BY <1>5, <1>12, <4>2 DEF Enters, Live, RoundIsDue
      <4>4. Kind(t) \notin {"login", "qr", "sync"}
        BY <2>2, <4>1, Common DEF RemovalsAlone, Busy
      <4>5. FirstStep(t) # "save"
        BY DEF FirstStep
      <4>6. QED
        BY <4>1, <4>2, <4>3, <4>4, <4>5, Common DEF Starters
    <3>3. QED
      BY <3>1, <3>2
  <2>3. QED
    BY <1>9, <2>1, <2>2, Common DEF RemovalsHold, DeletedIsDown
<1>13. QED
  BY <1>10, <1>11, <1>12

-------------------------------------------------------------------------------
(***************************************************************************)
(* Logins that run alone.                                                  *)
(***************************************************************************)
Last == {latest, None}

\* A login that has run alone so far had done so before.
LEMMA LoginsAloneBefore ==
  ASSUME TypeOK, Matched, NEW t \in Tasks, Works(t), LoginsAlone'
  PROVE  LoginsAlone
<1>1. given' = given /\ met \subseteq met' /\ \A u \in Tasks : Kind(u)' = Kind(u)
  BY Common DEF MemoryChanges
<1>2. \A u \in Tasks : Overlapped(u, Starters \union {"shutdown"}) =>
                         Overlapped(u, Starters \union {"shutdown"})'
  BY <1>1, OverlapsGrow
<1>3. QED
  BY <1>1, <1>2 DEF LoginsAlone

\* Beside a login that runs alone, nobody starts the account or saves its
\* session.
LEMMA LoginAlone ==
  ASSUME TypeOK, BusyMeet, LoginsAlone
  PROVE  \A d, u \in Busy : d # u /\ Kind(d) \in {"login", "qr"} =>
           Kind(u) \notin Starters \union {"shutdown"}
<1>1. ASSUME NEW d \in Busy, NEW u \in Busy, d # u, Kind(d) \in {"login", "qr"},
             Kind(u) \in Starters \union {"shutdown"}
      PROVE  FALSE
  <2>1. {d, u} \in met /\ u \in Tasks /\ d \in Tasks
    BY <1>1 DEF BusyMeet, Busy
  <2>2. Overlapped(d, Starters \union {"shutdown"})
    BY <1>1, <2>1 DEF Overlapped
  <2>3. QED
    BY <1>1, <2>1, <2>2 DEF LoginsAlone
<1>2. QED
  BY <1>1

\* What a task has of the session.
Fits(t) ==
  /\ task[t].pc \in {"plan", "dial", "connect"} => task[t].key \in Last
  /\ task[t].pc \in {"connect", "settle", "keep", "save"} => KeyOf(t) \in Last
  /\ Kind(t) \in {"login", "qr"} =>
       /\ task[t].pc \in {"hangup", "clear", "promote"} => client = None
       /\ task[t].pc = "promote" => store = None

\* The clients there are keep their sessions.
LEMMA KeysStay ==
  ASSUME TypeOK, Matched, NEW t \in Tasks, Works(t)
  PROVE  \A c \in DOMAIN made : made'[c] = made[c]
<1>1. CASE Dial(t)
  <2>1. task[t].plan # <<>>
    BY <1>1, Common DEF TaskMatches, Dial
  <2>2. QED
    BY <1>1, <2>1, DialStep
<1>2. CASE ~Dial(t)
  BY <1>2, Common DEF MemoryChanges
<1>3. QED
  BY <1>1, <1>2

\* A login alone: every session at hand stays that of the last login.
LEMMA SessionsKept ==
  ASSUME TypeOK, Matched, BusyMeet, NothingBefore, SessionsMatch, NEW t \in Tasks, Works(t)
  PROVE  SessionsMatch'
<1> SUFFICES ASSUME LoginsAlone'
             PROVE  /\ {file', store'} \subseteq Last'
                    /\ client' # None => made'[client'].key \in Last'
                    /\ \A u \in Tasks : Fits(u)'
  BY DEF SessionsMatch, Last, Fits
<1>1. /\ LoginsAlone /\ {file, store} \subseteq Last
      /\ client # None => made[client].key \in Last
      /\ \A u \in Tasks : Fits(u)
  BY LoginsAloneBefore DEF SessionsMatch, Last, Fits
<1>2. \A d, u \in Busy : d # u /\ Kind(d) \in {"login", "qr"} =>
        Kind(u) \notin Starters \union {"shutdown"}
  BY <1>1, LoginAlone
<1>3. Holds(t) /\ \A u \in Tasks : Holds(u)
  BY DEF Matched
<1>4. CASE Promote(t)
  <2>1. /\ file' = t /\ latest' = t /\ store' = store /\ client' = client
        /\ task[t].pc = "promote" /\ task'[t].pc = "commit"
    BY <1>4, PromoteStep DEF Goes
  <2>2. t \in Busy /\ Kind(t) \in {"login", "qr"}
    BY <1>4, Movers
  <2>3. store' = None /\ client' = None
    BY <1>1, <2>1, <2>2 DEF Fits
  <2>4. ASSUME NEW u \in Tasks
        PROVE  Fits(u)'
    <3>1. CASE u = t
      BY <2>1, <3>1 DEF Fits
    <3>2. CASE u # t
      <4>1. task'[u] = task[u] /\ Kind(u)' = Kind(u)
        BY <3>2, Common DEF Others
      <4>2. u \in Busy => Kind(u) \notin Starters \union {"shutdown"}
        BY <1>2, <2>2, <3>2
      <4>3. task[u].pc \in {"plan", "dial", "connect", "settle", "keep", "save"} =>
              u \in Busy /\ Kind(u) \in Starters \union {"shutdown"}
        BY <1>3, Whose DEF KindsAt, Starters, Busy
      <4>4. QED
        BY <2>3, <4>1, <4>2, <4>3 DEF Fits
    <3>3. QED
      BY <3>1, <3>2
  <2>5. QED
    BY <2>1, <2>3, <2>4 DEF Last
<1>5. CASE ~Promote(t)
  <2>1. latest' = latest /\ Last' = Last
    BY <1>5, Common DEF MemoryChanges, Last
  <2>2. \A c \in DOMAIN made : made'[c] = made[c]
    BY KeysStay
  <2>3. file' \in Last
    BY <1>1, <1>5, Common, UnlinkStep DEF TableChanges, Last
  <2>4. store' \in Last
    <3>1. Save(t) \/ Keep(t) => KeyOf(t) \in Last
      BY <1>1, SaveStep, KeepStep DEF Fits
    <3>2. store' # store => store' \in {None, KeyOf(t), store} /\ (store' = None \/ Save(t) \/ Keep(t))
      BY Common, SaveStep, KeepStep, ClearStep DEF TableChanges
    <3>3. QED
      BY <1>1, <3>1, <3>2 DEF Last
  <2>5. client' # None => made'[client'].key \in Last
    <3>1. CASE client' = client
      <4>1. client # None => client \in DOMAIN made
        BY DEF TypeOK
      <4>2. QED
        BY <1>1, <2>2, <3>1, <4>1
    <3>2. CASE Stop(t)
      BY <3>2, StopStep
    <3>3. CASE Register(t)
      <4>1. client' = task[t].cli /\ task[t].pc = "connect" /\ task[t].cli \in DOMAIN made
        BY <3>3, Common, RegisterStep DEF TaskMatches
      <4>2. made[task[t].cli].key \in Last
        BY <1>1, <4>1 DEF Fits, KeyOf
      <4>3. QED
        BY <2>2, <4>1, <4>2
    <3>4. QED
      BY <3>1, <3>2, <3>3, Common DEF MemoryChanges
  \* Another login sees nobody start the account or save its session.
  <2>6. ASSUME NEW u \in Busy \ {t}, Kind(u) \in {"login", "qr"}
        PROVE  (client = None => client' = None) /\ (store = None => store' = None)
    <3>1. ~Register(t) /\ ~Keep(t) /\ ~Save(t)
      BY <1>2, <2>6, Movers
    <3>2. QED
      BY <3>1, Common, StopStep, ClearStep DEF MemoryChanges, TableChanges
  <2>7. ASSUME NEW u \in Tasks, u # t
        PROVE  Fits(u)'
    <3>1. task'[u] = task[u] /\ Kind(u)' = Kind(u) /\ Fits(u) /\ TaskMatches(u)
      BY <1>1, <1>3, <2>7, Common DEF Others, Holds
    <3>2. task[u].pc \in {"connect", "settle", "keep", "save"} => KeyOf(u)' = KeyOf(u)
      BY <2>2, <3>1 DEF KeyOf, TaskMatches
    <3>3. task[u].pc \in {"hangup", "clear", "promote"} => u \in Busy \ {t}
      BY <2>7 DEF Busy
    <3>4. QED
      BY <2>1, <2>6, <3>1, <3>2, <3>3 DEF Fits
  <2>8. Fits(t)'
    <3>1. task'[t].pc \in {"plan", "dial", "connect"} => task'[t].key \in Last
      <4>1. CASE Load(t)
        BY <1>1, <4>1, LoadStep DEF Last
      <4>2. CASE ReadProxy(t)
        BY <1>1, <4>2, ReadProxyStep DEF Fits
      <4>3. CASE Unreachable(t)
        BY <1>1, <4>3, UnreachableStep DEF Stays, Fits
      <4>4. CASE Dial(t)
        BY <1>1, <4>4, Common, DialStep DEF TaskMatches, Dial, Fits
      <4>5. CASE Lock(t)
        BY <4>5, LockStep DEF Goes
      <4>6. QED
        BY <4>1, <4>2, <4>3, <4>4, <4>5, Common DEF Arrivals
    <3>2. task'[t].pc \in {"connect", "settle", "keep", "save"} => (KeyOf(t))' \in Last
      <4>1. CASE Dial(t)
        <5>1. task[t].plan # <<>> /\ task[t].pc = "dial"
          BY <4>1, Common DEF TaskMatches, Dial
        <5>2. /\ task'[t].cli = Len(made') /\ task[t].key \in Last
              /\ made'[Len(made')].key = IF task[t].key # None THEN task[t].key ELSE file
          BY <1>1, <4>1, <5>1, DialStep DEF Fits
        <5>3. QED
          BY <1>1, <5>2 DEF KeyOf
      <4>2. CASE Register(t) \/ Settle(t)
        <5>1. task[t].pc \in {"connect", "settle"} /\ task'[t].cli = task[t].cli
          BY <4>2, RegisterStep, SettleStep DEF Goes, Stays
        <5>2. KeyOf(t) \in Last /\ task[t].cli \in DOMAIN made
          BY <1>1, <5>1, Common DEF Fits, TaskMatches
        <5>3. QED
          BY <2>2, <5>1, <5>2 DEF KeyOf
      <4>3. CASE Stop(t)
        <5>1. task'[t].pc = "save" => client # None /\ task'[t].cli = client
          BY <4>3, StopStep, AfterStopType
        <5>2. client # None => client \in DOMAIN made
          BY DEF TypeOK
        <5>3. task'[t].pc \notin {"connect", "settle", "keep"}
          BY <4>3, StopStep, AfterStopType
        <5>4. QED
          BY <1>1, <2>2, <5>1, <5>2, <5>3 DEF KeyOf
      <4>4. task'[t].pc = "connect" => Dial(t)
        BY Common, ReadProxyStep, UnreachableStep DEF Arrivals
      <4>5. QED
        BY <4>1, <4>2, <4>3, <4>4, Common DEF Arrivals
    <3>3. Kind(t) \in {"login", "qr"} =>
             /\ task'[t].pc \in {"hangup", "clear", "promote"} => client' = None
             /\ task'[t].pc = "promote" => store' = None
      <4> SUFFICES ASSUME Kind(t) \in {"login", "qr"}
                   PROVE  /\ task'[t].pc \in {"hangup", "clear", "promote"} => client' = None
                          /\ task'[t].pc = "promote" => store' = None
        OBVIOUS
      <4>1. CASE Enter(t) \/ TakeTicket(t)
        <5>1. client' = client /\ store' = store
          BY <4>1, EnterStep, TakeTicketStep
        <5>2. task'[t].pc \notin {"hangup", "clear"} /\ (task'[t].pc = "promote" => ~row.there)
          <6>1. CASE TakeTicket(t)
            BY <6>1, TakeTicketStep
          <6>2. CASE Enter(t)
            BY <6>2, EnterStep DEF FirstStep
          <6>3. QED
            BY <4>1, <6>1, <6>2
        <5>3. QED
          BY <5>1, <5>2 DEF NothingBefore
      <4>2. CASE Stop(t)
        BY <4>2, StopStep, AfterStopType
      <4>3. CASE Disconnect(t)
        <5>1. task[t].pc = "hangup"
          <6>1. task[t].pc # "disconnect"
            BY <1>3, <4>3, Whose DEF KindsAt
          <6>2. QED
            BY <4>3, <6>1, DisconnectStep
        <5>2. QED
          BY <1>1, <4>3, <5>1, DisconnectStep, AfterStopType DEF Fits, Goes
      <4>4. CASE Clear(t)
        BY <1>1, <4>4, ClearStep, AfterClearType DEF Fits, Goes
      <4>5. CASE Unauthorized(t)
        BY <1>3, <4>5, UnauthorizedStep DEF Holds, TaskMatches
      <4>6. CASE LogGone(t)
        <5>1. client' = client /\ task[t].pc = "log" /\ (task'[t].pc = "clear" => lock = t)
              /\ task'[t].pc \in {"clear", "drop"}
          BY <4>6, LogGoneStep DEF Goes
        <5>2. task'[t].pc = "clear" => client' = None
          BY <5>1, Common DEF TaskMatches
        <5>3. QED
          BY <5>1, <5>2
      <4>7. QED
        BY <4>1, <4>2, <4>3, <4>4, <4>5, <4>6, Common DEF Arrivals
    <3>4. QED
      BY <2>1, <3>1, <3>2, <3>3, Common DEF Fits
  <2>9. QED
    BY <2>1, <2>3, <2>4, <2>5, <2>7, <2>8
<1>6. QED
  BY <1>4, <1>5

-------------------------------------------------------------------------------
(***************************************************************************)
(* The invariant, and what it says of a start.                             *)
(***************************************************************************)

\* The locks and the tasks in order, in the words of the properties.
LEMMA Matches == LocksAreHeld /\ (\A t \in Tasks : TaskMatches(t)) <=> Matched
BY DEF LocksAreHeld, Matched, Holds, LockMatches, HeldSteps

\* The same after a step.
LEMMA MatchesNext ==
  (LocksAreHeld /\ \A t \in Tasks : TaskMatches(t))' <=> Matched'
BY Matches, PTL

\* What happens around the tasks disturbs nothing.
LEMMA AroundKeeps ==
  ASSUME LifecycleInv, conn' \subseteq conn, faults' \in Nat, faults' >= faults,
         UNCHANGED <<row, gone, store, file, proxy, client, task, made, met, revived, noted,
                     latest, given>>
  PROVE  /\ NoStrayClients' /\ DeletedIsDown' /\ GoneIsLogged' /\ BusyMeet' /\ NothingBefore'
         /\ RemovalsHold' /\ SessionsMatch' /\ PlansMatch'
<1>1. TypeOK /\ faults \in Nat
  BY Given DEF LifecycleInv, TypeOK
<1>2. /\ \A t \in Tasks : Kind(t)' = Kind(t)
      /\ \A t \in Tasks : Overlapped(t, Starters \union {"shutdown"})' <=>
                            Overlapped(t, Starters \union {"shutdown"})
      /\ Busy' = Busy /\ RemovalsAlone' = RemovalsAlone /\ (Cleared => Cleared')
      /\ LoginsAlone' = LoginsAlone
  BY <1>1 DEF Kind, Overlapped, Busy, RemovalsAlone, Cleared, LoginsAlone
<1>3. NoStrayClients' /\ BusyMeet' /\ GoneIsLogged'
  BY <1>2 DEF LifecycleInv, NoStrayClients, BusyMeet, GoneIsLogged, Departures, Removers, Kind
<1>4. DeletedIsDown' /\ RemovalsHold'
  BY <1>2 DEF LifecycleInv, DeletedIsDown, RemovalsHold, Cleared, Busy
<1>5. NothingBefore' /\ PlansMatch'
  BY <1>2 DEF LifecycleInv, NothingBefore, PlansMatch, Overlapped, Kind
<1>6. SessionsMatch'
  BY <1>2 DEF LifecycleInv, SessionsMatch, KeyOf
<1>7. QED
  BY <1>3, <1>4, <1>5, <1>6

\* The end of the process takes the tasks and the clients along.
LEMMA EndsKeeps ==
  ASSUME LifecycleInv, Ends, faults' \in Nat, faults' >= faults
  PROVE  /\ NoStrayClients' /\ DeletedIsDown' /\ GoneIsLogged' /\ BusyMeet' /\ NothingBefore'
         /\ RemovalsHold' /\ SessionsMatch' /\ PlansMatch'
<1>1. TypeOK /\ faults \in Nat
  BY Given DEF LifecycleInv, TypeOK
<1>2. /\ client' = None /\ conn' = {}
      /\ UNCHANGED <<row, gone, store, file, proxy, made, met, revived, noted, latest, given>>
      /\ \A u \in Tasks : task'[u].pc \in {"off", "done"}
      /\ \A t \in Tasks : Kind(t)' = Kind(t)
  BY <1>1, EndsStep DEF Kind
<1>3. Busy' = {}
  BY <1>2 DEF Busy
<1>4. NoStrayClients' /\ BusyMeet' /\ PlansMatch'
  BY <1>2, <1>3 DEF NoStrayClients, BusyMeet, PlansMatch
<1>5. NothingBefore'
  BY <1>2, <1>3 DEF LifecycleInv, NothingBefore
<1>6. GoneIsLogged'
  <2>1. Removers \subseteq Removers'
    BY <1>1, <1>2, EndsStep DEF Removers
  <2>2. Cardinality(Removers) <= Cardinality(Removers')
    BY <1>1, <2>1, Finite, FS_Subset
  <2>3. \A r : Departures(r)' = Departures(r)
    BY <1>2 DEF Departures
  <2>4. Cardinality(Departures("removed")) \in Nat /\ Cardinality(Removers) \in Nat /\ Cardinality(Removers') \in Nat
    BY <1>1, Finite
  <2> DEFINE n == IF given.at = "deleted" THEN 1 ELSE 0
  <2>5. Cardinality(Departures("removed")) <= Cardinality(Removers) + n /\ n \in Nat
    BY DEF LifecycleInv, GoneIsLogged
  <2>6. n' = n
    BY <1>2
  <2> HIDE DEF n
  <2>7. Cardinality(Departures("removed")) <= Cardinality(Removers') + n
    BY <2>2, <2>4, <2>5
  <2>8. Departures(row.status)' = Departures(row.status)
    BY <1>2 DEF Departures
  <2>9. QED
    BY <1>2, <2>3, <2>6, <2>7, <2>8 DEF LifecycleInv, GoneIsLogged, n
<1>7. DeletedIsDown' /\ RemovalsHold'
  <2>1. RemovalsAlone' => RemovalsAlone
    <3>1. \A u \in Tasks : Kind(u) \in {"login", "qr", "sync"} =>
                             (task'[u].pc = "off" => task[u].pc = "off")
      BY <1>1, EndsStep
    <3>2. \A t \in Tasks : Overlapped(t, Starters \union {"shutdown"})' <=>
                            Overlapped(t, Starters \union {"shutdown"})
      BY <1>2 DEF Overlapped
    <3>3. QED
      BY <1>2, <3>1, <3>2 DEF RemovalsAlone
  <2>2. Cleared => Cleared'
    BY <1>1, <1>2 DEF Cleared
  <2>3. DeletedIsDown'
    BY <1>2, <2>1, <2>2 DEF LifecycleInv, DeletedIsDown
  <2>4. RemovalsHold'
    BY <1>2, <1>3 DEF RemovalsHold
  <2>5. QED
    BY <2>3, <2>4
<1>8. SessionsMatch'
  <2>1. LoginsAlone' => LoginsAlone
    <3>1. \A t \in Tasks : Overlapped(t, Starters \union {"shutdown"})' <=>
                            Overlapped(t, Starters \union {"shutdown"})
      BY <1>2 DEF Overlapped
    <3>2. QED
      BY <1>2, <3>1 DEF LoginsAlone
  <2>2. QED
    BY <1>2, <2>1 DEF LifecycleInv, SessionsMatch
<1>9. QED
  BY <1>4, <1>5, <1>6, <1>7, <1>8

\* Every step keeps the invariant.
LEMMA LifecycleKept ==
  ASSUME LifecycleInv, Next
  PROVE  LifecycleInv'
<1>1. TypeOK /\ Matched
  BY Matches DEF LifecycleInv
<1>2. Matched'
  BY <1>1, StepMatches
<1>3. CASE \E t \in Tasks : Works(t)
  <2>1. PICK t \in Tasks : Works(t)
    BY <1>3
  <2>2. TypeOK'
    BY <1>1, <2>1, StepTypes DEF Works, Matched, Holds
  <2>3. BusyMeet' /\ NothingBefore' /\ NoStrayClients'
    BY <1>1, <2>1, MeetsKept, NothingBeforeKept, NoStraysKept DEF LifecycleInv
  <2>4. GoneIsLogged' /\ PlansMatch'
    BY <1>1, <2>1, <2>2, GoneKept, PlansKept DEF LifecycleInv
  <2>5. RemovalsHold' /\ DeletedIsDown' /\ SessionsMatch'
    BY <1>1, <2>1, RemovalsKept, SessionsKept DEF LifecycleInv
  <2>6. QED
    BY <1>2, <2>2, <2>3, <2>4, <2>5, MatchesNext DEF LifecycleInv
<1>4. CASE Crash \/ \E t \in Tasks : Halt(t)
  <2>1. TypeOK'
    <3>1. CASE Crash
      BY <1>1, <3>1, AroundTypes DEF Around
    <3>2. ASSUME NEW t \in Tasks, Halt(t)
          PROVE  TypeOK'
      BY <1>1, <3>2, StepTypes DEF Step, Matched, Holds
    <3>3. QED
      BY <1>4, <3>1, <3>2
  <2>2. Ends /\ faults' \in Nat /\ faults' >= faults
    <3>1. faults \in Nat /\ faults' \in Nat
      BY <1>1, <2>1, Given DEF TypeOK
    <3>2. Ends /\ (faults' = faults \/ faults' = faults + 1)
      BY <1>4 DEF Crash, Halt, Fault
    <3>3. QED
      BY <3>1, <3>2
  <2>3. QED
    BY <1>2, <2>1, <2>2, EndsKeeps, MatchesNext DEF LifecycleInv
<1>5. CASE LoseConnection \/ Revoke \/ Expel \/ BackoffPasses
  <2>1. TypeOK'
    BY <1>1, <1>5, AroundTypes DEF Around
  <2>2. faults' \in Nat /\ faults' >= faults
    <3>1. faults \in Nat /\ faults' \in Nat
      BY <1>1, <2>1, Given DEF TypeOK
    <3>2. faults' = faults \/ faults' = faults + 1
      BY <1>5 DEF LoseConnection, Revoke, Expel, BackoffPasses, Fault
    <3>3. QED
      BY <3>1, <3>2
  <2>3. /\ UNCHANGED <<row, gone, store, file, proxy, client, task, made, met, revived, noted,
                     latest, given>>
        /\ conn' \subseteq conn
    BY <1>5 DEF LoseConnection, Revoke, Expel, BackoffPasses, stored, memory, telegram, past
  <2>4. QED
    BY <1>2, <2>1, <2>2, <2>3, AroundKeeps, MatchesNext DEF LifecycleInv
<1>6. QED
  BY <1>3, <1>4, <1>5 DEF Next, Progress, Event, Works

\* The first state.
LEMMA InitLifecycle ==
  ASSUME Init
  PROVE  LifecycleInv
<1>1. /\ given \in Scenarios /\ given \in Scenario /\ FaultBound \in Nat /\ IsFiniteSet(Tasks)
      /\ None \notin Tasks /\ None # Origin /\ Origin \notin Tasks /\ None \notin Nat
      /\ given.at \in {"new", "up", "stopped", "deleted"} /\ given.proxy \in ProxyRow
  BY LifecycleAssumption DEF Init, Scenario
<1>2. \A t \in Tasks : task[t] = Idle
  BY DEF Init
<1>3. Idle \in TaskRecord /\ Idle.pc = "off"
  <2>1. <<>> \in Seq(Routes)
    OBVIOUS
  <2>2. QED
    BY <2>1 DEF Idle, TaskRecord, Steps
<1>4. Busy = {} /\ lock = None /\ op = None /\ met = {} /\ faults = 0 /\ latest = Origin
      /\ \A t \in Tasks : task[t].pc = "off" /\ t \notin Busy
  BY <1>2, <1>3 DEF Busy, Init
<1>5. TypeOK
  <2>1. row \in [there : BOOLEAN, deleted : BOOLEAN, status : Statuses]
    <3>1. row = [there |-> given.at # "new", deleted |-> given.at = "deleted",
                 status |-> IF given.at = "up" THEN "connected"
                            ELSE IF given.at = "deleted" THEN "removed" ELSE "disconnected"]
      BY <1>1 DEF Init
    <3>2. QED
      BY <3>1 DEF Statuses
  <2>2. gone \in Seq({"banned", "deactivated", "removed"})
    <3> DEFINE R == {"banned", "deactivated", "removed"}
    <3>1. gone = IF given.at = "deleted" THEN <<"removed">> ELSE <<>>
      BY DEF Init
    <3>2. "removed" \in R
      OBVIOUS
    <3> HIDE DEF R
    <3>3. <<"removed">> \in Seq(R) /\ <<>> \in Seq(R)
      BY <3>2
    <3>4. gone \in Seq(R)
      BY <3>1, <3>3
    <3>5. QED
      BY <3>4 DEF R
  <2>3. made \in Seq([key : Keys \union {None}, route : Routes]) /\ client \in DOMAIN made \union {None}
        /\ conn \subseteq DOMAIN made
    <3> DEFINE r == [key |-> Origin, route |-> "direct"]
               R == [key : Keys \union {None}, route : Routes]
    <3>1. r \in R
      BY DEF Keys, Routes
    <3>2. made = IF given.at = "up" THEN <<r>> ELSE <<>>
      BY DEF Init
    <3>3. client = (IF given.at = "up" THEN 1 ELSE None) /\ conn = IF given.at = "up" THEN {1} ELSE {}
      BY DEF Init
    <3> HIDE DEF r, R
    <3>4. <<r>> \in Seq(R) /\ <<>> \in Seq(R) /\ DOMAIN <<r>> = {1}
      BY <3>1
    <3>5. QED
      BY <3>2, <3>3, <3>4 DEF R
  <2>4. task \in [Tasks -> TaskRecord] /\ {store, file} \subseteq Keys \union {None} /\ proxy \in ProxyRow
    BY <1>1, <1>3 DEF Init, Keys
  <2>5. /\ {lock, op} \subseteq Tasks \union {None}
        /\ world \in {"ok", "banned", "deactivated"}
        /\ alive \subseteq Keys /\ latest \in Keys /\ given \in Scenarios
    BY DEF Init, Keys
  <2>6. {backoff, ticket, noted} \subseteq BOOLEAN
    BY DEF Init
  <2>7. faults \in 0 .. FaultBound
    BY <1>1, <1>4
  <2>8. QED
    BY <2>1, <2>2, <2>3, <2>4, <2>5, <2>6, <2>7 DEF TypeOK
<1>6. LocksAreHeld /\ \A t \in Tasks : TaskMatches(t)
  BY <1>1, <1>4 DEF LocksAreHeld, TaskMatches, Starting
<1>7. NoStrayClients
  BY DEF NoStrayClients, Init
<1>8. DeletedIsDown /\ RemovalsHold
  <2>1. row.deleted => given.at = "deleted"
    BY DEF Init
  <2>2. QED
    BY <1>4, <2>1 DEF DeletedIsDown, RemovalsHold, RemovalsAlone
<1>9. GoneIsLogged
  <2>1. row.status \notin {"banned", "deactivated"}
    BY <1>1 DEF Init
  <2>2. Removers = {}
    BY <1>4 DEF Removers
  <2>3. CASE given.at = "deleted"
    <3>1. gone = <<"removed">>
      BY <2>3 DEF Init
    <3>2. Departures("removed") = {1}
      BY <3>1 DEF Departures
    <3>3. Cardinality(Departures("removed")) = 1 /\ Cardinality(Removers) = 0
      BY <2>2, <3>2, FS_Singleton, FS_EmptySet
    <3>4. QED
      BY <2>1, <2>3, <3>3 DEF GoneIsLogged
  <2>4. CASE given.at # "deleted"
    <3>1. gone = <<>>
      BY <2>4 DEF Init
    <3>2. Departures("removed") = {}
      BY <3>1 DEF Departures
    <3>3. Cardinality(Departures("removed")) = 0 /\ Cardinality(Removers) = 0
      BY <2>2, <3>2, FS_EmptySet
    <3>4. QED
      BY <2>1, <2>4, <3>3 DEF GoneIsLogged
  <2>5. QED
    BY <2>3, <2>4
<1>10. BusyMeet /\ PlansMatch
  BY <1>4 DEF BusyMeet, PlansMatch
<1>11. NothingBefore
  BY <1>1, <1>4 DEF NothingBefore, Init
<1>12. SessionsMatch
  <2>1. {file, store} \subseteq {latest, None}
    BY DEF Init
  <2>2. client # None => made[client].key \in {latest, None}
    BY DEF Init
  <2>3. QED
    BY <1>4, <2>1, <2>2 DEF SessionsMatch
<1>13. QED
  BY <1>5, <1>6, <1>7, <1>8, <1>9, <1>10, <1>11, <1>12 DEF LifecycleInv

\* The locks are with the task that is past them; a connection is that of the
\* registered client or of one being stopped; a removed account stays down; the
\* log of departures tells what the account's status does: in every state, with
\* everything this rests on.
THEOREM Lifecycle == Spec => []LifecycleInv
<1>1. ASSUME LifecycleInv, UNCHANGED vars
      PROVE  LifecycleInv'
  <2>1. /\ UNCHANGED <<row, gone, store, file, proxy, client, lock, op, backoff, ticket, task, conn,
                     world, alive, made, met, revived, noted, latest, given, faults>>
        /\ TypeOK /\ Matched
    BY <1>1, Matches DEF vars, stored, memory, telegram, past, LifecycleInv
  <2>2. TypeOK'
    BY <2>1 DEF TypeOK
  <2>3. Matched'
    BY <2>1 DEF Matched, Holds, LockMatches, TaskMatches, Busy, Kind
  <2>4. faults' \in Nat /\ faults' >= faults
    BY <2>1, Given DEF TypeOK
  <2>5. QED
    BY <1>1, <2>1, <2>2, <2>3, <2>4, AroundKeeps, MatchesNext DEF LifecycleInv
<1>2. LifecycleInv /\ [Next]_vars => LifecycleInv'
  BY <1>1, LifecycleKept
<1>3. QED
  BY InitLifecycle, <1>2, PTL DEF Spec

\* Only a start makes a client.
LEMMA MadeByDial ==
  ASSUME LifecycleInv, Next, made' # made
  PROVE  \E t \in Tasks : Dial(t) /\ TaskMatches(t)
<1>1. TypeOK /\ Matched
  BY Matches DEF LifecycleInv
<1>2. ASSUME NEW t \in Tasks, Works(t)
      PROVE  Dial(t) /\ TaskMatches(t)
  BY <1>1, <1>2, Common DEF MemoryChanges
<1>3. ~Ends /\ ~LoseConnection /\ ~Revoke /\ ~Expel /\ ~BackoffPasses
  BY <1>1, EndsStep DEF LoseConnection, Revoke, Expel, BackoffPasses, past
<1>4. QED
  BY <1>2, <1>3 DEF Next, Progress, Event, Works, Crash, Halt

\* A client made after a login has the session of that login, as long as nobody
\* else starts or stops the account beside it; and one made for an account with
\* an enabled proxy goes through a proxy, as long as nobody changes that beside
\* the start.
THEOREM StartsRight == Spec => StartsAreRight
<1>1. LifecycleInv /\ [Next]_vars =>
        (Len(made') > Len(made) =>
           made'[Len(made')].key \in {latest, None}
             \/ \E t \in Tasks : /\ Kind(t) \in {"login", "qr"}
                                /\ Overlapped(t, Starters \union {"shutdown"}))
  <2> SUFFICES ASSUME LifecycleInv, [Next]_vars, Len(made') > Len(made), LoginsAlone
               PROVE  made'[Len(made')].key \in {latest, None}
    BY DEF LoginsAlone
  <2>1. TypeOK /\ Len(made) \in Nat /\ SessionsMatch
    BY DEF LifecycleInv, TypeOK
  <2>2. made' # made
    BY <2>1
  <2>3. Next
    BY <2>2 DEF vars, past
  <2>4. PICK t \in Tasks : Dial(t) /\ TaskMatches(t)
    BY <2>2, <2>3, MadeByDial
  <2>5. task[t].plan # <<>> /\ task[t].pc = "dial"
    BY <2>4 DEF TaskMatches, Dial
  <2>6. made'[Len(made')].key = IF task[t].key # None THEN task[t].key ELSE file
    BY <2>1, <2>4, <2>5, DialStep
  <2>7. task[t].key \in {latest, None} /\ file \in {latest, None}
    BY <2>1, <2>5 DEF SessionsMatch
  <2>8. QED
    BY <2>6, <2>7
<1>2. LifecycleInv /\ [Next]_vars =>
        \A t \in Tasks : Dial(t) =>
          LET route == made'[Len(made')].route IN
          \/ proxy.enabled => route # "direct"
          \/ Overlapped(t, {"save_proxy", "delete_proxy"})
  <2> SUFFICES ASSUME LifecycleInv, NEW t \in Tasks, Dial(t)
               PROVE  \/ proxy.enabled => made'[Len(made')].route # "direct"
                      \/ Overlapped(t, {"save_proxy", "delete_proxy"})
    OBVIOUS
  <2>1. TypeOK /\ PlansMatch /\ TaskMatches(t)
    BY DEF LifecycleInv
  <2>2. task[t].plan # <<>> /\ task[t].pc = "dial" /\ task[t].plan \in Seq(Routes)
    BY <2>1, Fields DEF TaskMatches, Dial
  <2>3. made'[Len(made')].route = Head(task[t].plan)
    BY <2>1, <2>2, DialStep
  <2>4. Head(task[t].plan) = task[t].plan[1] /\ 1 \in DOMAIN task[t].plan
    BY <2>2
  <2>5. QED
    BY <2>1, <2>2, <2>3, <2>4 DEF PlansMatch
<1>3. QED
  BY <1>1, <1>2, Lifecycle, PTL DEF Spec, StartsAreRight, NewSessionWins, ProxyIsUsed
-------------------------------------------------------------------------------
(***************************************************************************)
(* What is shown of the account, while nothing has failed.                 *)
(***************************************************************************)

\* The steps of a task while nothing fails and nobody ends the process.
Quietly(t) ==
  \/ OpLock(t) \/ Act(t) \/ Stop(t) \/ Save(t) \/ Disconnect(t) \/ Clear(t)
  \/ TakeTicket(t) \/ Promote(t) \/ CommitLogin(t) \/ Unlink(t) \/ CommitDelete(t)
  \/ Lock(t) \/ Load(t) \/ ReadProxy(t) \/ Dial(t) \/ Unauthorized(t) \/ Register(t)
  \/ Settle(t) \/ Keep(t) \/ Leave(t) \/ Look(t) \/ Redial(t) \/ Ask(t)
  \/ SwitchSlot(t) \/ SaveProxy(t) \/ Enter(t)

\* A failure counts.
LEMMA NoFault ==
  ASSUME TypeOK, faults' = 0
  PROVE  \A f : ~Fault(f)
<1>1. faults \in Nat
  BY Given DEF TypeOK
<1>2. QED
  BY <1>1 DEF Fault

\* A task that takes a step takes one of these.
LEMMA QuietSteps ==
  ASSUME TypeOK, QuietMatches, NEW t \in Tasks, Works(t), faults' = 0
  PROVE  Quietly(t)
<1>1. ~Unreachable(t) /\ ~LoseContact(t) /\ ~DbError(t)
  BY NoFault DEF Unreachable, LoseContact, DbError
<1>2. ~Expelled(t) /\ ~LogGone(t) /\ ~FailOver(t)
  BY DEF QuietMatches, Calm, Expelled, LogGone, FailOver
<1>3. QED
  BY <1>1, <1>2 DEF Works, Step, Start, Quietly

\* What a task remembers when it stops a client or goes on after that.
LEMMA Remembers ==
  ASSUME TypeOK, NEW t \in Tasks, Stop(t) \/ Disconnect(t) \/ Clear(t) \/ Promote(t)
  PROVE  task'[t].known = task[t].known /\ task'[t].moved = task[t].moved
<1>1. CASE Stop(t)
  <2> DEFINE pc == IF client = None THEN AfterStop(t)
                   ELSE IF task[t].pc = "stop" THEN "save" ELSE "hangup"
  <2>1. task' = [task EXCEPT ![t] = [task[t] EXCEPT !.cli = client, !.pc = pc]]
    BY <1>1, Fields DEF Stop, TypeOK, TaskRecord
  <2> HIDE DEF pc
  <2>2. QED
    BY <2>1, Fields DEF TypeOK, TaskRecord
<1>2. CASE Disconnect(t)
  BY <1>2, Going, AfterStopType DEF Disconnect, Steps, Starting, Stopping
<1>3. CASE Clear(t)
  BY <1>3, Going, AfterClearType DEF Clear, Steps, Starting, Stopping
<1>4. CASE Promote(t)
  BY <1>4, Going DEF Promote, Steps
<1>5. QED
  BY <1>1, <1>2, <1>3, <1>4

\* A poll that takes the login has found the account, or not.
LEMMA TakenLogin ==
  ASSUME TypeOK, NEW t \in Tasks, TakeTicket(t)
  PROVE  /\ task'[t].known = row.there /\ task'[t].moved = TRUE
         /\ task'[t].pc = IF ~ticket THEN "refused" ELSE IF row.there THEN "drop" ELSE "promote"
<1> DEFINE pc == IF ~ticket THEN "refused" ELSE IF row.there THEN "drop" ELSE "promote"
<1>1. task' = [task EXCEPT ![t] = [task[t] EXCEPT !.moved = TRUE, !.known = row.there, !.pc = pc]]
  BY Fields DEF TakeTicket, TypeOK
<1> HIDE DEF pc
<1>2. task'[t].known = row.there /\ task'[t].moved = TRUE /\ task'[t].pc = pc
  BY <1>1, Fields DEF TypeOK, TaskRecord
<1>3. QED
  BY <1>2 DEF pc

\* Who drops a client first has found the account.
LEMMA EntersKnowing ==
  ASSUME TypeOK, NEW t \in Tasks, Enter(t)
  PROVE  /\ task'[t].moved = FALSE
         /\ FirstStep(t) = "drop" /\ Kind(t) # "delete" => task'[t].known
         /\ FirstStep(t) \in {"drop", "promote", "commit", "take"} => Kind(t) \in Replacers
<1> DEFINE k == IF Kind(t) = "delete" THEN row.status # "banned" ELSE row.there
<1>1. task' = [task EXCEPT ![t] = [Idle EXCEPT !.pc = FirstStep(t), !.cli = client, !.known = k]]
  BY DEF Enter
<1>2. FirstStep(t) = "drop" /\ Kind(t) # "delete" => k
  BY DEF FirstStep
<1>3. FirstStep(t) \in {"drop", "promote", "commit", "take"} => Kind(t) \in Replacers
  BY DEF FirstStep, Replacers
<1> HIDE DEF k
<1>4. task'[t].moved = FALSE /\ task'[t].known = k
  BY <1>1 DEF TypeOK, Idle
<1>5. QED
  BY <1>2, <1>3, <1>4

\* How the steps that may go wrong end while nothing does.
LEMMA QuietOutcomes ==
  ASSUME TypeOK, Matched, QuietMatches, NEW t \in Tasks, faults' = 0
  PROVE  /\ Unauthorized(t) => KeyOf(t) = None /\ task'[t].pc = "refused"
         /\ Register(t) => KeyOf(t) # None
         /\ Ask(t) => task'[t].pc = "done"
         /\ Load(t) => task'[t].key = store
         /\ ReadProxy(t) => task'[t].pc = "dial" /\ row' = row
         /\ Act(t) \/ Keep(t) \/ Leave(t) => row' = row
         /\ Save(t) => store' = KeyOf(t) /\ KeyOf(t) # None
<1>1. None \notin Keys /\ alive = Keys /\ world = "ok" /\ Calm(t)
  BY Given DEF QuietMatches, Keys
<1>2. \A f : ~Fault(f)
  BY NoFault
<1>3. task[t].pc \in {"connect", "ask"} => task[t].cli \in DOMAIN made /\ KeyOf(t) \in Keys \union {None}
  <2>1. task[t].pc \in {"connect", "ask"} => task[t].cli \in DOMAIN made
    BY DEF Matched, Holds, TaskMatches
  <2>2. \A c \in DOMAIN made : made[c].key \in Keys \union {None}
    BY KeyType
  <2>3. QED
    BY <2>1, <2>2 DEF KeyOf
<1>4. Unauthorized(t) => KeyOf(t) = None /\ task'[t].pc = "refused"
  <2> SUFFICES ASSUME Unauthorized(t)
               PROVE  KeyOf(t) = None /\ task'[t].pc = "refused"
    OBVIOUS
  <2>1. KeyOf(t) = None
    BY <1>1, <1>3 DEF Unauthorized
  <2>2. Go(t, "refused")
    BY <2>1 DEF Unauthorized
  <2>3. QED
    BY <2>1, <2>2, Going DEF Goes, Steps
<1>5. Register(t) => KeyOf(t) # None
  BY <1>1 DEF Register
<1>6. Ask(t) => task'[t].pc = "done"
  <2> SUFFICES ASSUME Ask(t)
               PROVE  task'[t].pc = "done"
    OBVIOUS
  <2>1. KeyOf(t) \in alive
    BY <1>1, <1>3 DEF Ask, Calm
  <2>2. Go(t, "done")
    BY <2>1 DEF Ask
  <2>3. QED
    BY <2>2, Going DEF Goes, Steps
<1>7. Load(t) => task'[t].key = store
  <2> SUFFICES ASSUME Load(t)
               PROVE  task'[t].key = store
    OBVIOUS
  <2>1. task' = [task EXCEPT ![t].key = store, ![t].pc = "plan"]
    BY <1>2 DEF Load
  <2>2. QED
    BY <2>1, Fields DEF TypeOK, TaskRecord
<1>8. ReadProxy(t) => task'[t].pc = "dial" /\ row' = row
  <2> SUFFICES ASSUME ReadProxy(t)
               PROVE  task'[t].pc = "dial" /\ row' = row
    OBVIOUS
  <2>1. task' = [task EXCEPT ![t].plan = Plan(proxy), ![t].pc = "dial"] /\ row' = row
    BY <1>2 DEF ReadProxy
  <2>2. QED
    BY <2>1, Fields DEF TypeOK, TaskRecord
<1>9. Act(t) \/ Keep(t) \/ Leave(t) => row' = row
  BY <1>1 DEF Act, Keep, Leave, Calm
<1>10. Save(t) => store' = KeyOf(t) /\ KeyOf(t) # None
  BY <1>1 DEF Save, KeyOf, Calm
<1>11. QED
  BY <1>4, <1>5, <1>6, <1>7, <1>8, <1>9, <1>10

\* What changes what is shown, the locks and the QR login, and what leads to
\* the steps the invariant is about.
QuietChanges(t) ==
  /\ world' = world /\ alive' = alive
  /\ \A u \in Tasks : lock' = u => lock = u \/ (u = t /\ Lock(t))
  /\ ticket' # ticket => TakeTicket(t)
  /\ (Live /\ row.status = "connected")' =>
       (Live /\ row.status = "connected") \/ CommitLogin(t) \/ Settle(t) \/ Ask(t)
  /\ task'[t].pc \notin {"log", "lost", "unreachable"}
  /\ task'[t].pc = "drop" => TakeTicket(t) \/ Enter(t)
  /\ task'[t].pc = "clear" => Stop(t) \/ Disconnect(t)
  /\ task'[t].pc = "stop" => OpLock(t) \/ Enter(t)
  /\ task'[t].pc = "look" => Enter(t)
  /\ task'[t].pc \in {"redial", "ask"} => Look(t) \/ Redial(t)
  /\ task'[t].pc = "take" => Enter(t) \/ Clear(t)

\* Every step does.
LEMMA QuietlyChanges ==
  ASSUME TypeOK, Matched, QuietMatches, NEW t \in Tasks, Works(t), faults' = 0
  PROVE  QuietChanges(t)
<1>1. Quietly(t) /\ lock \in Tasks \union {None} /\ None \notin Tasks
  BY QuietSteps, Given DEF TypeOK
<1>2. TaskMatches(t) /\ (task[t].pc = "dial" => task[t].plan # <<>>)
  BY DEF Matched, Holds, TaskMatches
<1>3. \A s : Marked(s).there = row.there /\ Marked(s).deleted = row.deleted /\ Marked(s).status = s
  BY DEF TypeOK, Marked
<1>4. [row EXCEPT !.deleted = TRUE, !.status = "removed"].status = "removed"
  BY DEF TypeOK
<1>5. (row' = row \/ (\E s : s # "connected" /\ row' = Marked(s)) \/ row'.status = "removed") =>
        ((Live /\ row.status = "connected")' => Live /\ row.status = "connected")
  BY <1>3 DEF Live
<1> USE DEF QuietChanges, Goes
<1>6. CASE OpLock(t) \/ SwitchSlot(t) \/ SaveProxy(t)
  BY <1>5, <1>6, OpLockStep, SwitchSlotStep, SaveProxyStep
<1>7. CASE Act(t) \/ Keep(t) \/ Leave(t)
  BY <1>1, <1>5, <1>7, ActStep, KeepStep, LeaveStep, QuietOutcomes
<1>8. CASE Stop(t) \/ Disconnect(t)
  BY <1>5, <1>8, StopStep, DisconnectStep, AfterStopType
<1>9. CASE Save(t) \/ Clear(t)
  BY <1>5, <1>9, SaveStep, ClearStep, AfterClearType
<1>10. CASE TakeTicket(t) \/ Promote(t) \/ Unlink(t)
  BY <1>5, <1>10, TakeTicketStep, PromoteStep, UnlinkStep
<1>11. CASE CommitLogin(t)
  BY <1>11, CommitLoginStep
<1>12. CASE CommitDelete(t)
  BY <1>4, <1>5, <1>12, CommitDeleteStep
<1>13. CASE Lock(t)
  BY <1>1, <1>5, <1>13, LockStep
<1>14. CASE Load(t) \/ ReadProxy(t)
  BY <1>5, <1>14, LoadStep, ReadProxyStep, QuietOutcomes
<1>15. CASE Dial(t)
  <2>1. task[t].plan # <<>>
    BY <1>2, <1>15 DEF Dial
  <2>2. QED
    BY <1>5, <1>15, <2>1, DialStep
<1>16. CASE Unauthorized(t)
  BY <1>5, <1>16, UnauthorizedStep, QuietOutcomes
<1>17. CASE Register(t) \/ Redial(t)
  BY <1>5, <1>17, RegisterStep, RedialStep
<1>18. CASE Settle(t)
  BY <1>18, SettleStep
<1>19. CASE Look(t)
  BY <1>5, <1>19, LookStep
<1>20. CASE Ask(t)
  BY <1>20, AskStep, QuietOutcomes
<1>21. CASE Enter(t)
  BY <1>5, <1>21, EnterStep DEF FirstStep
<1>22. QED
  BY <1>1, <1>6, <1>7, <1>8, <1>9, <1>10, <1>11, <1>12, <1>13, <1>14, <1>15, <1>16, <1>17,
     <1>18, <1>19, <1>20, <1>21 DEF Quietly

\* Sessions stay known, and every task in order.
LEMMA QuietKept ==
  ASSUME TypeOK, TypeOK', Matched, Quiet, QuietMatches, NEW t \in Tasks, Works(t), Quiet'
  PROVE  QuietMatches'
<1>1. /\ QuietChanges(t) /\ MemoryChanges(t) /\ Arrivals(t) /\ Others(t)
      /\ \A u \in Tasks : Kind(u)' = Kind(u) /\ Kind(u) # "shutdown"
  BY QuietlyChanges, Common DEF Quiet
<1>2. \A u \in Tasks : Calm(u) /\ Holds(u)
  BY DEF QuietMatches, Matched
<1>3. \A c \in DOMAIN made : made'[c] = made[c] /\ c # None
  BY KeysStay, KeyType
<1>4. client # None => client \in DOMAIN made /\ made[client].key # None
  BY DEF TypeOK, QuietMatches
<1>5. client' # None => made'[client'].key # None
  <2>1. CASE client' = client
    BY <1>3, <1>4, <2>1
  <2>2. CASE client' # client /\ Register(t)
    <3>1. client' = task[t].cli /\ made' = made /\ KeyOf(t) # None
      BY <2>2, RegisterStep, QuietOutcomes DEF Quiet
    <3>2. QED
      BY <3>1 DEF KeyOf
  <2>3. CASE client' # client /\ Stop(t)
    BY <2>3, StopStep
  <2>4. QED
    BY <1>1, <2>1, <2>2, <2>3 DEF MemoryChanges
<1>6. ASSUME NEW u \in Tasks, u # t
      PROVE  Calm(u)'
  <2>1. task'[u] = task[u] /\ Kind(u)' = Kind(u) /\ (lock' = u => lock = u)
    BY <1>1, <1>6 DEF Others, QuietChanges
  <2>2. task[u].pc \in {"settle", "keep", "save", "look", "redial", "ask"} => KeyOf(u)' = KeyOf(u)
    BY <1>2, <1>3, <2>1 DEF Holds, TaskMatches, KeyOf
  <2>3. task[u].pc \in {"settle", "keep"} => client' # None
    <3> SUFFICES ASSUME task[u].pc \in {"settle", "keep"}
                 PROVE  client' # None
      OBVIOUS
    <3>1. lock = u /\ client # None
      BY <1>2 DEF Holds, LockMatches, Starting, Calm
    <3>2. ~Stop(t) /\ ~Register(t)
      <4>1. ~Stop(t)
        BY <3>1, Given DEF Stop
      <4>2. task[t].pc = "connect" => lock = t
        BY <1>2 DEF Holds, LockMatches, Starting
      <4>3. QED
        BY <1>6, <3>1, <4>1, <4>2 DEF Register
    <3>3. QED
      BY <1>1, <3>1, <3>2 DEF MemoryChanges
  <2>4. QED
    BY <1>2, <2>1, <2>2, <2>3 DEF Calm
<1>7. Calm(t)'
  <2>1. task'[t].pc \in {"drop", "hangup", "clear"} =>
          Kind(t) \in Replacers /\ lock' # t /\ (Kind(t) # "delete" => task'[t].known)
    <3>1. CASE task[t].pc \in {"drop", "hangup", "clear"} /\ ~Enter(t)
      <4>1. Stop(t) \/ Disconnect(t) \/ Clear(t)
        BY <3>1, QuietSteps DEF Quiet, Quietly, OpLock, Act, Save, TakeTicket, Promote, CommitLogin,
          Unlink, CommitDelete, Lock, Load, ReadProxy, Dial, Unauthorized, Register, Settle, Keep,
          Leave, Look, Redial, Ask, SwitchSlot, SaveProxy
      <4>2. task'[t].known = task[t].known
        BY <4>1, Remembers
      <4>3. lock' # t
        BY <1>1, <1>2, <3>1 DEF QuietChanges, Calm, Lock
      <4>4. QED
        BY <1>2, <3>1, <4>2, <4>3 DEF Calm
    <3>2. CASE TakeTicket(t)
      <4>1. Kind(t) = "qr" /\ lock # t
        BY <1>2, <3>2, Whose DEF TakeTicket, KindsAt, Holds, LockMatches, HeldSteps, Starting
      <4>2. lock' # t
        BY <1>1, <3>2, <4>1 DEF QuietChanges, TakeTicket, Lock
      <4>3. QED
        BY <3>2, <4>1, <4>2, TakenLogin DEF Replacers
    <3>3. CASE Enter(t)
      <4>1. lock # t /\ lock' = lock /\ task'[t].pc = FirstStep(t)
        BY <1>2, <3>3, EnterStep DEF Holds, LockMatches, HeldSteps, Starting
      <4>2. FirstStep(t) \notin {"hangup", "clear"}
        BY DEF FirstStep
      <4>3. QED
        BY <3>3, <4>1, <4>2, EntersKnowing
    <3>4. CASE task[t].pc \notin {"drop", "hangup", "clear"} /\ ~TakeTicket(t) /\ ~Enter(t)
      <4>1. Stop(t) => task'[t].pc \in {"save", "halt", "lock"}
        BY <3>4, StopStep, AfterStopType
      <4>2. Disconnect(t) => task'[t].pc \in {"halt", "lock"}
        BY <3>4, DisconnectStep, AfterStopType DEF Goes
      <4>3. QED
        BY <1>1, <3>4, <4>1, <4>2 DEF QuietChanges, Arrivals
    <3>5. QED
      BY <3>1, <3>2, <3>3, <3>4
  <2>2. task'[t].pc \in {"stop", "save", "disconnect"} => Kind(t) # "refresh"
    <3>1. Enter(t) /\ Kind(t) = "refresh" => task'[t].pc = "look"
      BY EnterStep DEF FirstStep
    <3>2. OpLock(t) => Kind(t) # "refresh"
      BY <1>2, Whose DEF OpLock, KindsAt
    <3>3. Stop(t) /\ task'[t].pc = "save" => task[t].pc = "stop"
      BY StopStep, AfterStopType
    <3>4. task'[t].pc = "disconnect" => task[t].pc = "save"
      BY <1>1, NoFault, SaveStep DEF Arrivals, DbError, Quiet
    <3>5. QED
      BY <1>1, <1>2, <3>1, <3>2, <3>3, <3>4 DEF QuietChanges, Arrivals, Calm
  <2>3. task'[t].pc \in {"settle", "keep"} => KeyOf(t)' # None /\ client' # None
    <3>1. CASE Register(t)
      <4>1. task'[t].cli = task[t].cli /\ made' = made /\ client' = task[t].cli
        BY <3>1, RegisterStep DEF Goes, Stays
      <4>2. KeyOf(t) # None /\ task[t].cli \in DOMAIN made
        BY <1>2, <3>1, QuietOutcomes DEF Quiet, Register, Holds, TaskMatches
      <4>3. QED
        BY <1>3, <4>1, <4>2 DEF KeyOf
    <3>2. CASE Settle(t)
      <4>1. task'[t].cli = task[t].cli /\ made' = made /\ client' = client /\ task[t].pc = "settle"
        BY <3>2, SettleStep DEF Goes, Stays
      <4>2. QED
        BY <1>2, <4>1 DEF KeyOf, Calm
    <3>3. QED
      BY <1>1, <3>1, <3>2 DEF Arrivals
  <2>4. task'[t].pc = "save" => KeyOf(t)' # None
    <3> SUFFICES ASSUME task'[t].pc = "save"
                 PROVE  KeyOf(t)' # None
      OBVIOUS
    <3>1. Stop(t)
      BY <1>1 DEF Arrivals
    <3>2. client # None /\ task'[t].cli = client /\ made' = made
      BY <3>1, StopStep, AfterStopType
    <3>3. QED
      BY <1>4, <3>2 DEF KeyOf
  <2>5. task'[t].pc \in {"look", "redial", "ask"} => KeyOf(t)' # None
    <3>1. CASE Enter(t) /\ task'[t].pc \in {"look", "redial", "ask"}
      <4>1. task'[t].cli = client /\ made' = made /\ Enters(t) /\ task'[t].pc = FirstStep(t)
        BY <3>1, EnterStep
      <4>2. Kind(t) = "refresh"
        BY <3>1, <4>1 DEF FirstStep
      <4>3. client # None
        BY <4>1, <4>2 DEF Enters, RoundIsDue
      <4>4. QED
        BY <1>4, <4>1, <4>3 DEF KeyOf
    <3>2. CASE Look(t) \/ Redial(t)
      <4>1. task'[t].cli = task[t].cli /\ made' = made /\ task[t].pc \in {"look", "redial"}
        BY <3>2, LookStep, RedialStep DEF Goes, Stays
      <4>2. QED
        BY <1>2, <4>1 DEF KeyOf, Calm
    <3>3. QED
      BY <1>1, <3>1, <3>2 DEF QuietChanges
  <2>6. task'[t].pc = "take" => ~task'[t].moved
    <3>1. Enter(t) => ~task'[t].moved
      BY EntersKnowing
    <3>2. Clear(t) /\ task'[t].pc = "take" => ~task[t].moved
      BY ClearStep DEF Goes, AfterClear
    <3>3. Clear(t) => task'[t].moved = task[t].moved
      BY Remembers
    <3>4. QED
      BY <1>1, <3>1, <3>2, <3>3 DEF QuietChanges
  <2>7. QED
    BY <1>1, <2>1, <2>2, <2>3, <2>4, <2>5, <2>6 DEF Calm, QuietChanges
<1>8. (world = "ok" /\ alive = Keys)'
  BY <1>1 DEF QuietMatches, QuietChanges, Keys
<1>9. QED
  BY <1>5, <1>6, <1>7, <1>8 DEF QuietMatches

\* Whoever was at work with a task has overlapped it.
LEMMA Overlap ==
  ASSUME TypeOK, TypeOK', Matched, BusyMeet, NEW t \in Tasks, Works(t),
         NEW u \in Busy, NEW v \in Busy, u # v, NEW K, Kind(v) \in K
  PROVE  Overlapped(u, K)'
<1>1. {u, v} \in met /\ u \in Tasks /\ v \in Tasks
  BY DEF BusyMeet, Busy
<1>2. met \subseteq met' /\ Kind(v)' = Kind(v)
  BY <1>1, Common
<1>3. QED
  BY <1>1, <1>2 DEF Overlapped

\* An overlap is never forgotten.
LEMMA OverlapStays ==
  ASSUME TypeOK, Matched, NEW t \in Tasks, Works(t)
  PROVE  /\ \A u \in Tasks : \A K : Overlapped(u, K) => Overlapped(u, K)'
         /\ \A u \in Tasks : SpokeLast(u) => SpokeLast(u)'
<1>1. met \subseteq met' /\ given' = given /\ \A u \in Tasks : Kind(u)' = Kind(u)
  BY Common DEF MemoryChanges
<1>2. \A u \in Tasks : \A K : Overlapped(u, K) => Overlapped(u, K)'
  BY <1>1, OverlapsGrow
<1>3. QED
  BY <1>1, <1>2 DEF SpokeLast

\* A QR login is taken once.
LEMMA TicketsKept ==
  ASSUME TypeOK, TypeOK', Matched, BusyMeet, Quiet, QuietMatches, TicketsMatch,
         NEW t \in Tasks, Works(t), Quiet'
  PROVE  TicketsMatch'
<1> DEFINE At == {"drop", "hangup", "clear", "take"}
<1> SUFFICES ASSUME ~ticket', NEW u \in Tasks, Kind(u)' = "qr", task'[u].pc \in At, ~task'[u].moved
             PROVE  Overlapped(u, {"qr"})'
  BY DEF TicketsMatch
<1>1. QuietChanges(t) /\ Arrivals(t) /\ Others(t) /\ Kind(u) = "qr"
  BY QuietlyChanges, Common DEF Quiet
<1>2. CASE ~ticket
  <2>1. CASE u # t
    <3>1. task'[u] = task[u]
      BY <1>1, <2>1 DEF Others
    <3>2. Overlapped(u, {"qr"})
      BY <1>1, <1>2, <3>1 DEF TicketsMatch
    <3>3. QED
      BY <3>2, OverlapStays
  <2>2. CASE u = t
    <3>1. ~TakeTicket(t) /\ ~Enter(t)
      BY <1>1, <1>2, <2>2, TakenLogin, EnterStep DEF Enters
    <3>2. (Stop(t) /\ task[t].pc = "drop") \/ (Disconnect(t) /\ task[t].pc = "hangup") \/ Clear(t)
      BY <1>1, <2>2, <3>1, StopStep, DisconnectStep, AfterStopType DEF QuietChanges, Arrivals, Goes
    <3>3. task[t].pc \in At /\ ~task[t].moved
      BY <2>2, <3>2, Remembers DEF Clear
    <3>4. Overlapped(t, {"qr"})
      BY <1>1, <1>2, <2>2, <3>3 DEF TicketsMatch
    <3>5. QED
      BY <2>2, <3>4, OverlapStays
  <2>3. QED
    BY <2>1, <2>2
<1>3. CASE ticket
  <2>1. TakeTicket(t)
    BY <1>1, <1>3 DEF QuietChanges, TypeOK
  <2>2. u # t /\ task[t].pc = "take"
    BY <2>1, TakenLogin, TakeTicketStep
  <2>3. task'[u] = task[u]
    BY <1>1, <2>2 DEF Others
  <2>4. u \in Busy /\ t \in Busy /\ Kind(t) = "qr"
    BY <2>2, <2>3, Whose DEF Busy, Matched, KindsAt
  <2>5. QED
    BY <2>2, <2>4, Overlap
<1>4. QED
  BY <1>2, <1>3

\* A task that will register a client goes on to do so, unless one is
\* registered or the session is cleared beside it.
LEMMA Connecting ==
  ASSUME TypeOK, Matched, Quiet, QuietMatches, NEW t \in Tasks, Works(t), faults' = 0,
         NEW u \in Tasks, WillConnect(u), ~Clear(t), ~WillConnect(u)'
  PROVE  client' # None
<1>1. TableChanges(t) /\ Others(t) /\ Quietly(t) /\ Kind(t) # "shutdown"
  BY QuietSteps, Common DEF Quiet
<1>2. \A c \in DOMAIN made : made'[c] = made[c] /\ c # None
  BY KeysStay, KeyType
<1>3. /\ Save(t) => store' # None
      /\ Keep(t) => store' # None
  <2>1. Keep(t) => KeyOf(t) # None
    BY DEF QuietMatches, Calm, Keep
  <2>2. Keep(t) => store' # None
    BY <2>1, KeepStep
  <2>3. Save(t) => store' # None
    BY QuietOutcomes
  <2>4. QED
    BY <2>2, <2>3
<1>4. store # None => store' # None
  BY <1>1, <1>3 DEF TableChanges
<1>5. task[u].pc = "connect" => task[u].cli \in DOMAIN made
  BY DEF Matched, Holds, TaskMatches
<1>6. CASE u # t
  <2>1. task'[u] = task[u]
    BY <1>1, <1>6 DEF Others
  <2>2. task[u].pc = "connect" => KeyOf(u)' = KeyOf(u)
    BY <1>2, <1>5, <2>1 DEF KeyOf
  <2>3. QED
    BY <1>4, <2>1, <2>2 DEF WillConnect
<1>7. CASE u = t
  <2>1. task[t].pc \in {"save", "disconnect", "lock", "load", "plan", "dial", "connect"}
    BY <1>7 DEF WillConnect
  <2>2. Save(t) \/ Disconnect(t) \/ Lock(t) \/ Load(t) \/ ReadProxy(t) \/ Dial(t)
        \/ Unauthorized(t) \/ Register(t)
    BY <1>1, <2>1 DEF Quietly, OpLock, Act, Stop, Clear, TakeTicket, Promote, CommitLogin, Unlink,
      CommitDelete, Settle, Keep, Leave, Look, Redial, Ask, SwitchSlot, SaveProxy, Enter
  <2>3. ~Save(t)
    BY <1>3, <1>7, SaveStep DEF Goes, WillConnect
  <2>4. ~Disconnect(t)
    BY <1>1, <1>4, <1>7, <2>1, DisconnectStep, AfterStopType DEF Goes, WillConnect
  <2>5. Lock(t) => client' # None
    BY <1>4, <1>7, LockStep DEF Goes, WillConnect
  <2>6. ~Load(t)
    BY <1>7, LoadStep, QuietOutcomes DEF WillConnect
  <2>7. ~ReadProxy(t)
    BY <1>7, ReadProxyStep, QuietOutcomes DEF WillConnect
  <2>8. ~Dial(t)
    <3> SUFFICES ASSUME Dial(t)
                 PROVE  FALSE
      OBVIOUS
    <3>1. task[t].pc = "dial" /\ task[t].plan # <<>>
      BY DEF Dial, Matched, Holds, TaskMatches
    <3>2. /\ task'[t].pc = "connect" /\ task'[t].cli = Len(made')
          /\ made'[Len(made')].key = IF task[t].key # None THEN task[t].key ELSE file
      BY <3>1, DialStep
    <3>3. KeyOf(t)' # None
      BY <1>7, <3>1, <3>2 DEF WillConnect, KeyOf
    <3>4. QED
      BY <1>7, <3>2, <3>3 DEF WillConnect
  <2>9. ~Unauthorized(t)
    BY <1>7, QuietOutcomes DEF Unauthorized, WillConnect
  <2>10. Register(t) => client' # None
    BY <1>2, <1>5, <1>7, RegisterStep DEF Register
  <2>11. QED
    BY <2>2, <2>3, <2>4, <2>5, <2>6, <2>7, <2>8, <2>9, <2>10
<1>8. QED
  BY <1>6, <1>7

\* The client a round looks at is registered, or another will be.
LEMMA RoundsKept ==
  ASSUME TypeOK, TypeOK', Matched, BusyMeet, Quiet, QuietMatches, RoundsMatch,
         NEW t \in Tasks, Works(t), Quiet'
  PROVE  RoundsMatch'
<1> SUFFICES ASSUME NEW r \in Tasks, task'[r].pc \in {"look", "redial", "ask"},
                    client' = None, ~Overlapped(r, Replacers)'
             PROVE  \E u \in Tasks : WillConnect(u)'
  BY DEF RoundsMatch
<1>1. /\ QuietChanges(t) /\ MemoryChanges(t) /\ Others(t) /\ faults' = 0
      /\ Kind(t) # "shutdown" /\ Holds(t) /\ Calm(t)
  BY QuietlyChanges, Common DEF Quiet, QuietMatches, Matched
<1>2. task[r].pc \in {"look", "redial", "ask"}
  <2>1. CASE r = t /\ Enter(t)
    <3>1. client' = client /\ Enters(t) /\ task'[t].pc = FirstStep(t)
      BY <2>1, EnterStep
    <3>2. Kind(t) = "refresh"
      BY <2>1, <3>1 DEF FirstStep
    <3>3. QED
      BY <3>1, <3>2 DEF Enters, RoundIsDue
  <2>2. CASE r = t /\ ~Enter(t)
    BY <1>1, <2>2 DEF QuietChanges, Look, Redial
  <2>3. CASE r # t
    BY <1>1, <2>3 DEF Others
  <2>4. QED
    BY <2>1, <2>2, <2>3
<1>3. r \in Busy /\ Kind(r) = "refresh"
  BY <1>2, Whose DEF Matched, KindsAt, Busy
<1>4. ASSUME t \in Busy, Kind(t) \in Replacers
      PROVE  FALSE
  BY <1>3, <1>4, Overlap DEF Replacers
<1>5. client # None \/ \E u \in Tasks : WillConnect(u)
  BY <1>2, OverlapStays DEF RoundsMatch
<1>6. CASE client # None
  <2>1. Stop(t)
    <3>1. Register(t) => client' # None
      <4>1. Register(t) => task[t].cli \in DOMAIN made /\ client' = task[t].cli
        BY <1>1, RegisterStep DEF Holds, TaskMatches, Register
      <4>2. QED
        BY <4>1, KeyType
    <3>2. QED
      BY <1>1, <1>6, <3>1 DEF MemoryChanges
  <2>2. task[t].pc # "drop"
    BY <1>1, <1>4 DEF Calm, Busy
  <2>3. task'[t].pc = "save"
    BY <1>6, <2>1, <2>2, StopStep
  <2>4. QED
    BY <2>3 DEF WillConnect
<1>7. CASE \E u \in Tasks : WillConnect(u)
  <2>1. ~Clear(t)
    BY <1>1, <1>4 DEF Calm, Busy, Clear
  <2>2. QED
    BY <1>1, <1>7, <2>1, Connecting
<1>8. QED
  BY <1>5, <1>6, <1>7

\* A task that will change what is shown goes on to do so, unless a client is
\* registered or it finds the QR login taken.
LEMMA Telling ==
  ASSUME TypeOK, Matched, Quiet, QuietMatches, TicketsMatch, NEW t \in Tasks, Works(t),
         faults' = 0, Live, Live', row'.status = "connected", client' = None,
         NEW u \in Tasks, WillTell(u)
  PROVE  (\E v \in Tasks : WillTell(v)') \/ SpokeLast(u)
<1>1. /\ QuietChanges(t) /\ Others(t) /\ Quietly(t) /\ Kind(t) # "shutdown"
      /\ Holds(t) /\ Calm(t)
  BY QuietlyChanges, QuietSteps, Common DEF Quiet, QuietMatches, Matched
<1>2. CASE u # t
  BY <1>1, <1>2 DEF Others, WillTell
<1>3. CASE u = t
  <2>1. ~CommitDelete(t) /\ ~Dial(t) /\ ~Unauthorized(t)
    <3>1. ~CommitDelete(t)
      <4>1. CommitDelete(t) => row'.status = "removed"
        BY DEF CommitDelete, TypeOK
      <4>2. QED
        BY <4>1
    <3>2. \A s : Marked(s).status = s
      BY DEF TypeOK, Marked
    <3>3. ~Dial(t)
      BY <3>2 DEF Dial, Status, Marked
    <3>4. ~Unauthorized(t)
      BY <3>2 DEF Unauthorized, Status, Marked
    <3>5. QED
      BY <3>1, <3>3, <3>4
  <2>2. ~Register(t)
    <3>1. Register(t) => task[t].cli \in DOMAIN made /\ client' = task[t].cli
      BY <1>1, RegisterStep DEF Holds, TaskMatches, Register
    <3>2. QED
      BY <3>1, KeyType
  <2>3. \/ task[t].pc \in {"save", "disconnect", "lock", "load", "plan", "dial", "connect", "drop",
                           "hangup", "clear", "unlink", "remove"}
        \/ task[t].pc \in {"take", "promote", "commit"} /\ task[t].known
    BY <1>3 DEF WillTell
  <2>4. Save(t) \/ Disconnect(t) \/ Lock(t) \/ Load(t) \/ ReadProxy(t) \/ Stop(t) \/ Clear(t)
        \/ Unlink(t) \/ TakeTicket(t) \/ Promote(t) \/ CommitLogin(t)
    BY <1>1, <2>1, <2>2, <2>3 DEF Quietly, OpLock, Act, Settle, Keep, Leave, Look, Redial, Ask,
      SwitchSlot, SaveProxy, Enter
  <2>5. CASE Save(t) \/ Unlink(t) \/ Load(t) \/ ReadProxy(t)
    BY <2>5, SaveStep, UnlinkStep, LoadStep, ReadProxyStep, QuietOutcomes DEF Goes, WillTell
  <2>6. CASE Disconnect(t) \/ Stop(t)
    <3>1. task'[t].pc \in {"save", "hangup", "lock", "clear"}
      BY <1>1, <2>6, DisconnectStep, StopStep, AfterStopType DEF Goes
    <3>2. QED
      BY <3>1 DEF WillTell
  <2>7. CASE Lock(t)
    BY <2>7, LockStep DEF Goes, WillTell
  <2>8. CASE Clear(t)
    <3>1. lock # t /\ Kind(t) \in Replacers /\ (Kind(t) # "delete" => task[t].known)
      BY <1>1, <2>8 DEF Calm, Clear
    <3>2. \/ task'[t].pc = "unlink"
          \/ task'[t].pc \in {"promote", "take", "commit"} /\ Kind(t) # "delete"
      BY <2>8, <3>1, ClearStep, AfterClearType DEF Goes, Replacers
    <3>3. QED
      BY <2>8, <3>1, <3>2, Remembers DEF WillTell
  <2>9. CASE TakeTicket(t)
    <3>1. task[t].pc = "take" /\ ~task[t].moved /\ Kind(t) = "qr" /\ row.there
      BY <1>1, <2>9, Whose DEF TakeTicket, Calm, KindsAt, Live
    <3>2. ticket \/ Overlapped(t, {"qr"})
      BY <3>1 DEF TicketsMatch
    <3>3. ticket => task'[t].pc = "drop"
      BY <2>9, <3>1, TakenLogin
    <3>4. QED
      BY <1>3, <3>1, <3>2, <3>3 DEF WillTell, SpokeLast
  <2>10. CASE Promote(t)
    <3>1. task'[t].pc = "commit" /\ task'[t].known
      BY <2>3, <2>10, PromoteStep, Remembers DEF Goes, Promote
    <3>2. QED
      BY <3>1 DEF WillTell
  <2>11. CASE CommitLogin(t)
    <3>1. task[t].pc = "commit" /\ task[t].known
      BY <2>3, <2>11 DEF CommitLogin
    <3>2. task' = [task EXCEPT ![t].pc = "lock", ![t].moved = FALSE]
      BY <2>11, <3>1 DEF CommitLogin
    <3>3. task'[t].pc = "lock"
      BY <3>2, Fields DEF TypeOK, TaskRecord
    <3>4. QED
      BY <3>3 DEF WillTell
  <2>12. QED
    BY <2>4, <2>5, <2>6, <2>7, <2>8, <2>9, <2>10, <2>11
<1>4. QED
  BY <1>2, <1>3

\* What is shown stays true, or somebody is about to correct it.
LEMMA StatusKept ==
  ASSUME TypeOK, TypeOK', Matched, BusyMeet, Quiet, QuietMatches, TicketsMatch, RoundsMatch,
         StatusMatches, NEW t \in Tasks, Works(t), Quiet'
  PROVE  StatusMatches'
<1> SUFFICES ASSUME Live', row'.status = "connected", client' = None,
                    \A u \in Tasks : ~SpokeLast(u)'
             PROVE  \E u \in Tasks : WillTell(u)'
  BY DEF StatusMatches
<1>1. /\ QuietChanges(t) /\ MemoryChanges(t) /\ Others(t) /\ faults' = 0
      /\ Holds(t) /\ Calm(t)
  BY QuietlyChanges, Common DEF Quiet, QuietMatches, Matched
<1>2. \A u \in Tasks : ~SpokeLast(u)
  BY OverlapStays
<1>3. CASE Live /\ row.status = "connected"
  <2>1. CASE client = None
    <3>1. PICK u \in Tasks : WillTell(u)
      BY <1>2, <1>3, <2>1 DEF StatusMatches
    <3>2. QED
      BY <1>1, <1>2, <1>3, <3>1, Telling
  <2>2. CASE client # None
    <3>1. ~Register(t)
      <4>1. Register(t) => task[t].cli \in DOMAIN made /\ client' = task[t].cli
        BY <1>1, RegisterStep DEF Holds, TaskMatches, Register
      <4>2. QED
        BY <4>1, KeyType
    <3>2. Stop(t)
      BY <1>1, <2>2, <3>1 DEF MemoryChanges
    <3>3. task'[t].pc \in {"save", "hangup"}
      BY <2>2, <3>2, StopStep
    <3>4. QED
      BY <3>3 DEF WillTell
  <2>3. QED
    BY <2>1, <2>2
<1>4. CASE ~(Live /\ row.status = "connected")
  <2>1. CommitLogin(t) \/ Settle(t) \/ Ask(t)
    BY <1>1, <1>4 DEF QuietChanges, Live
  <2>2. CASE CommitLogin(t)
    <3>1. row' # row
      BY <1>4 DEF Live
    <3>2. task'[t].pc = "lock"
      BY <2>2, <3>1, CommitLoginStep
    <3>3. QED
      BY <3>2 DEF WillTell
  <2>3. ~Settle(t)
    BY <1>1, SettleStep DEF Calm, Settle
  <2>4. CASE Ask(t)
    <3>1. client' = client /\ task[t].pc = "ask"
      BY <2>4, AskStep
    <3>2. Kind(t) = "refresh"
      BY <1>1, <3>1, Whose DEF KindsAt
    <3>3. ~Overlapped(t, Replacers)
      BY <1>2, <3>2 DEF SpokeLast
    <3>4. PICK u \in Tasks : WillConnect(u)
      BY <3>1, <3>3 DEF RoundsMatch
    <3>5. u # t
      BY <3>1, <3>4 DEF WillConnect
    <3>6. WillTell(u)'
      BY <1>1, <3>4, <3>5 DEF WillConnect, WillTell, Others
    <3>7. QED
      BY <3>6
  <2>5. QED
    BY <2>1, <2>2, <2>3, <2>4
<1>5. QED
  BY <1>3, <1>4

\* The parts kept while nothing fails.
QuietParts == QuietMatches /\ TicketsMatch /\ RoundsMatch /\ StatusMatches

\* Once nobody is at work what is shown is true.
LEMMA Told == (Quiet => QuietParts) => StatusIsTrue
<1> SUFFICES ASSUME Quiet => StatusMatches, Busy = {}, faults = 0, Live,
                    row.status = "connected", client = None,
                    \A t \in Tasks : Kind(t) # "shutdown"
             PROVE  \E t \in Tasks : SpokeLast(t)
  BY DEF StatusIsTrue, QuietParts
<1>1. PICK t \in Tasks : WillTell(t) \/ SpokeLast(t)
  BY DEF Quiet, StatusMatches
<1>2. ~WillTell(t)
  BY DEF Busy, WillTell
<1>3. QED
  BY <1>1, <1>2

\* The same after a step.
LEMMA ToldNext == (Quiet => QuietParts)' => StatusIsTrue'
BY Told, PTL

\* What changes none of it leaves it true.
LEMMA StatusRests ==
  ASSUME StatusInv, UNCHANGED <<row, store, client, lock, ticket, task, world, alive, made, met,
                                given, faults>>
  PROVE  (Quiet => QuietParts)'
<1>1. /\ \A t \in Tasks : Kind(t)' = Kind(t)
      /\ \A t \in Tasks : \A K : Overlapped(t, K)' <=> Overlapped(t, K)
      /\ (Live' <=> Live) /\ (Quiet' <=> Quiet) /\ Keys' = Keys
  BY DEF Kind, Overlapped, Live, Quiet, Keys
<1> SUFFICES ASSUME QuietMatches, TicketsMatch, RoundsMatch, StatusMatches
             PROVE  QuietParts'
  BY <1>1 DEF StatusInv
<1>2. QuietMatches'
  BY <1>1 DEF QuietMatches, Calm, KeyOf
<1>3. TicketsMatch'
  BY <1>1 DEF TicketsMatch
<1>4. RoundsMatch'
  BY <1>1 DEF RoundsMatch, WillConnect, KeyOf
<1>5. StatusMatches'
  BY <1>1 DEF StatusMatches, WillTell, SpokeLast
<1>6. QED
  BY <1>2, <1>3, <1>4, <1>5 DEF QuietParts

\* Every step keeps what is shown true.
LEMMA StatusInvKept ==
  ASSUME LifecycleInv, LifecycleInv', StatusInv, Next
  PROVE  (Quiet => QuietParts)'
<1>1. TypeOK /\ TypeOK' /\ Matched /\ BusyMeet /\ faults \in Nat
  BY Matches, Given DEF LifecycleInv, TypeOK
<1>2. CASE \E t \in Tasks : Works(t)
  <2>1. PICK t \in Tasks : Works(t)
    BY <1>2
  <2> SUFFICES ASSUME Quiet'
               PROVE  QuietParts'
    OBVIOUS
  <2>2. Quiet
    <3>1. faults' \in Nat /\ faults' >= faults /\ \A u \in Tasks : Kind(u)' = Kind(u)
      BY <1>1, <2>1, Common DEF MemoryChanges, Quiet
    <3>2. QED
      BY <1>1, <3>1 DEF Quiet
  <2>3. QuietMatches /\ TicketsMatch /\ RoundsMatch /\ StatusMatches
    BY <2>2 DEF StatusInv
  <2>4. QED
    BY <1>1, <2>1, <2>2, <2>3, QuietKept, TicketsKept, RoundsKept, StatusKept DEF QuietParts
<1>3. CASE Crash \/ LoseConnection \/ Revoke \/ Expel
  BY <1>1, <1>3, NoFault DEF Crash, LoseConnection, Revoke, Expel, Quiet
<1>4. CASE \E t \in Tasks : Halt(t)
  <2>1. PICK t \in Tasks : Halt(t)
    BY <1>4
  <2>2. Kind(t) = "shutdown"
    BY <1>1, <2>1, Whose DEF Halt, Matched, KindsAt
  <2>3. Kind(t)' = Kind(t)
    BY <2>1 DEF Halt, Ends, past, Kind
  <2>4. QED
    BY <2>2, <2>3 DEF Quiet
<1>5. CASE BackoffPasses
  BY <1>5, StatusRests DEF BackoffPasses, stored, telegram, past
<1>6. QED
  BY <1>2, <1>3, <1>4, <1>5 DEF Next, Progress, Event, Works

\* At first nobody is at work, and an account shown as connected is.
LEMMA StatusInit ==
  ASSUME Init
  PROVE  Quiet => QuietParts
<1>1. /\ \A t \in Tasks : task[t].pc = "off"
      /\ ticket = TRUE /\ world = "ok" /\ alive = Keys
  BY DEF Init, Idle
<1>2. client # None => made[client].key # None
  BY LifecycleAssumption DEF Init
<1>3. row.status = "connected" => client # None
  <2>1. given.at \in {"new", "up", "stopped", "deleted"}
    BY LifecycleAssumption DEF Init, Scenario
  <2>2. given.at # "up" => row.status # "connected"
    BY <2>1 DEF Init
  <2>3. given.at = "up" => client = 1
    BY DEF Init
  <2>4. QED
    BY <2>2, <2>3, LifecycleAssumption
<1>4. QuietMatches
  BY <1>1, <1>2 DEF QuietMatches, Calm
<1>5. TicketsMatch /\ RoundsMatch /\ StatusMatches
  BY <1>1, <1>3 DEF TicketsMatch, RoundsMatch, StatusMatches
<1>6. QED
  BY <1>4, <1>5 DEF QuietParts

\* An account shown as connected has a client once nobody is at work with it,
\* and while somebody is, a client or a task that will register one or correct
\* what is shown; the exceptions are those SpokeLast names, failures and the end
\* of the process.
THEOREM StatusHolds == Spec => []StatusInv
<1>1. Init => StatusInv
  BY StatusInit, Told DEF StatusInv, QuietParts
<1>2. LifecycleInv /\ LifecycleInv' /\ StatusInv /\ [Next]_vars => StatusInv'
  <2> SUFFICES ASSUME LifecycleInv, LifecycleInv', StatusInv, [Next]_vars
               PROVE  StatusInv'
    OBVIOUS
  <2>1. (Quiet => QuietParts)'
    <3>1. CASE Next
      BY <3>1, StatusInvKept
    <3>2. CASE UNCHANGED vars
      BY <3>2, StatusRests DEF vars, stored, memory, telegram, past
    <3>3. QED
      BY <3>1, <3>2
  <2>2. QED
    BY <2>1, ToldNext DEF StatusInv, QuietParts
<1>3. QED
  BY <1>1, <1>2, Lifecycle, PTL DEF Spec

\* In particular what is shown of an account left alone is true.
THEOREM StatusTrue == Spec => []StatusIsTrue
<1>1. StatusInv => StatusIsTrue
  BY DEF StatusInv
<1>2. QED
  BY <1>1, StatusHolds, PTL
==============================================================================
