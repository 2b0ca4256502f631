--------------------------- MODULE AccountLifecycle ---------------------------
(***************************************************************************)
(* The life of one Telegram account in TgClientManager: requests and the    *)
(* status loop start, stop, reconnect, replace and remove its client.  A    *)
(* lifecycle lock guards start and stop, an operation lock the work done    *)
(* with the client; accounts share neither, so that one account is enough.  *)
(* Its session is kept twice: encrypted in the database, which a start      *)
(* prefers, and in a file.                                                  *)
(***************************************************************************)
EXTENDS Naturals, Sequences, FiniteSets

CONSTANTS Tasks,
  Scenarios,      \* what runs beside what, in which circumstances
  FaultBound,     \* how many failures may happen
  None, Origin    \* Origin: the session and client there are at first

TaskKinds == {"none", "startup", "sync", "login", "qr", "reconnect", "switch",
              "refresh", "operation", "delete", "save_proxy", "delete_proxy", "shutdown"}
FaultKinds == {"network", "revoke", "ban", "deactivate", "db", "crash"}
Keys == Tasks \union {Origin}      \* a login brings a session of its own
Routes == {"direct", "primary", "fallback"}
ProxyRow == [enabled : BOOLEAN, spare : BOOLEAN, slot : {"primary", "fallback"}]

Scenario ==
  [kinds : [Tasks -> TaskKinds], at : {"new", "up", "stopped", "deleted"},
   proxy : ProxyRow, auto : BOOLEAN, faults : SUBSET FaultKinds]

ASSUME LifecycleAssumption ==
  /\ Scenarios \subseteq Scenario
  /\ FaultBound \in Nat
  /\ IsFiniteSet(Tasks) /\ {None, Origin} \intersect Tasks = {} /\ None \notin Nat \union {Origin}

VARIABLES
  row,        \* accounts: whether it is there, deleted, and its status
  gone,       \* gone_accounts: the reasons logged
  store,      \* telegram_sessions: the encrypted session
  file,       \* the session in the account's file
  proxy,      \* account_proxies
  client,     \* _clients: the registered client, by its number
  lock, op,   \* who holds the lifecycle and the operation lock
  backoff,    \* the next reconnection lies in the future
  ticket,     \* an authorized QR login waits in _qr_pending
  task,       \* where each task is, and what it remembers
  conn,       \* the clients with a connection
  world,      \* what Telegram makes of the account
  alive,      \* the sessions Telegram accepts
  made,       \* history: session and route of every client made
  met,        \* history: the pairs of tasks that overlapped
  revived,    \* history: clients connected again after they were stopped
  noted,      \* history: an operation's error has changed the status
  latest,     \* history: the session of the last login
  given,      \* the scenario of this behaviour; never changes
  faults      \* failures so far

stored == <<row, gone, store, file, proxy>>
memory == <<client, lock, op, backoff, ticket>>
telegram == <<conn, world, alive>>
past == <<made, met, revived, noted, latest, given>>
vars == <<stored, memory, telegram, past, task, faults>>

(* known: what the task read of the account when it entered, or of its       *)
(* status; plan: the routes still to be tried; moved: it is past the first   *)
(* route, or has taken the QR login.                                         *)
Idle == [pc |-> "off", cli |-> None, key |-> None, plan |-> <<>>,
         known |-> FALSE, moved |-> FALSE]

Kind(t) == given.kinds[t]
Busy == {t \in Tasks : task[t].pc \notin {"off", "done"}}

Init ==
  /\ given \in Scenarios
  /\ row = [there |-> given.at # "new", deleted |-> given.at = "deleted",
            status |-> CASE given.at = "up" -> "connected"
                         [] given.at = "deleted" -> "removed"
                         [] OTHER -> "disconnected"]
  /\ gone = IF given.at = "deleted" THEN <<"removed">> ELSE <<>>
  /\ store = IF given.at \in {"up", "stopped"} THEN Origin ELSE None
  /\ file = IF given.at = "new" THEN None ELSE Origin
  /\ proxy = given.proxy
  /\ client = IF given.at = "up" THEN 1 ELSE None
  /\ lock = None /\ op = None /\ backoff = FALSE /\ ticket = TRUE
  /\ task = [t \in Tasks |-> Idle]
  /\ conn = IF given.at = "up" THEN {1} ELSE {}
  /\ world = "ok" /\ alive = Keys
  /\ made = IF given.at = "up" THEN <<[key |-> Origin, route |-> "direct"]>> ELSE <<>>
  /\ latest = Origin
  /\ met = {} /\ revived = {} /\ noted = FALSE /\ faults = 0

Fault(f) == f \in given.faults /\ faults < FaultBound /\ faults' = faults + 1

Go(t, pc) == task' = [task EXCEPT ![t].pc = pc]
Status(s) == row' = [row EXCEPT !.status = s]

------------------------------------------------------------------------------
(* Requests and background tasks enter. *)

Live == row.there /\ ~row.deleted

\* Variant: a round passes over clients that are not connected.
RoundIsDueConnected == client # None /\ ~backoff /\ client \in conn

(* A round of the status loop that would find everything as it left it is a  *)
(* stuttering step.                                                          *)
RoundIsDue ==
  /\ client # None /\ ~backoff
  /\ IF client \notin conn THEN given.auto \/ row.status # "disconnected"
     ELSE \/ world # "ok"
          \/ row.status # IF made[client].key \in alive THEN "connected"
                          ELSE "auth_required"

Enters(t) ==
  CASE Kind(t) = "startup" ->
         Live /\ row.status \notin {"banned", "deactivated", "auth_required"}
    [] Kind(t) \in {"reconnect", "switch", "delete", "operation"} -> Live
    [] Kind(t) = "refresh" -> RoundIsDue
    [] Kind(t) = "qr" -> ticket
    [] Kind(t) = "sync" -> file \in alive /\ ~Live
    [] Kind(t) = "none" -> FALSE
    [] OTHER -> TRUE

FirstStep(t) ==
  CASE Kind(t) = "startup" -> "lock"
    [] Kind(t) \in {"reconnect", "operation"} -> "oplock"
    [] Kind(t) = "switch" -> "slot"
    [] Kind(t) = "refresh" -> "look"
    [] Kind(t) = "login" -> IF row.there THEN "drop" ELSE "promote"
    [] Kind(t) = "sync" -> IF row.there THEN "drop" ELSE "commit"
    [] Kind(t) = "qr" -> IF row.there THEN "drop" ELSE "take"
    [] Kind(t) = "delete" -> "drop"
    [] Kind(t) = "shutdown" -> "stop"
    [] OTHER -> "proxy"

(* The task has read the client, and whether the account is there or, for a  *)
(* deletion, whether the departure is to be logged.                          *)
Enter(t) ==
  /\ task[t].pc = "off" \/ (Kind(t) = "refresh" /\ task[t].pc = "done")
  /\ Enters(t)
  /\ task' = [task EXCEPT ![t] = [Idle EXCEPT !.pc = FirstStep(t), !.cli = client,
       !.known = IF Kind(t) = "delete" THEN row.status # "banned" ELSE row.there]]
  /\ met' = met \union {{t, u} : u \in Busy}
  /\ UNCHANGED <<stored, memory, telegram, made, revived, noted, latest, given, faults>>

(* account_operation *)
OpLock(t) ==
  /\ task[t].pc = "oplock" /\ op = None
  /\ op' = t
  /\ Go(t, IF Kind(t) = "operation" THEN "act" ELSE "stop")
  /\ UNCHANGED <<stored, client, lock, backoff, ticket, telegram, past, faults>>

(* An operation whose error tells of a ban only changes the status. *)
Act(t) ==
  /\ task[t].pc = "act"
  /\ op' = None
  /\ IF client \in conn /\ world # "ok" THEN Status(world) /\ noted' = TRUE
     ELSE UNCHANGED <<row, noted>>
  /\ Go(t, "done")
  /\ UNCHANGED <<gone, store, file, proxy, client, lock, backoff, ticket, telegram, made, met,
                 revived, latest, given, faults>>

------------------------------------------------------------------------------
(* stop_client: only the removal from the register is under the lock.  A     *)
(* stop keeps the session, a drop does not.                                  *)

AfterStop(t) ==
  CASE task[t].pc \in {"stop", "disconnect"} ->
         IF Kind(t) = "shutdown" THEN "halt" ELSE "lock"
    [] OTHER -> "clear"

\* Variant: a client that has to be stopped takes a new start with it.
StopForgetting(t) ==
  /\ task[t].pc \in {"stop", "drop"} /\ lock = None
  /\ client' = None /\ backoff' = FALSE
  /\ task' = [task EXCEPT ![t].cli = client, ![t].pc =
       IF client = None THEN AfterStop(t)
       ELSE IF @ = "stop" THEN "done" ELSE "hangup"]
  /\ UNCHANGED <<stored, lock, op, ticket, telegram, past, faults>>

Stop(t) ==
  /\ task[t].pc \in {"stop", "drop"} /\ lock = None
  /\ client' = None /\ backoff' = FALSE
  /\ task' = [task EXCEPT ![t].cli = client, ![t].pc =
       IF client = None THEN AfterStop(t)
       ELSE IF @ = "stop" THEN "save" ELSE "hangup"]
  /\ UNCHANGED <<stored, lock, op, ticket, telegram, past, faults>>

Save(t) ==
  /\ task[t].pc = "save"
  /\ store' = IF made[task[t].cli].key = None THEN store ELSE made[task[t].cli].key
  /\ Go(t, "disconnect")
  /\ UNCHANGED <<row, gone, file, proxy, memory, telegram, past, faults>>

\* Variant: the client is unregistered and never disconnected.
DisconnectNothing(t) ==
  /\ task[t].pc \in {"disconnect", "hangup"}
  /\ Go(t, AfterStop(t))
  /\ UNCHANGED <<stored, memory, telegram, past, faults>>

Disconnect(t) ==
  /\ task[t].pc \in {"disconnect", "hangup"}
  /\ conn' = conn \ {task[t].cli}
  /\ Go(t, AfterStop(t))
  /\ UNCHANGED <<stored, memory, world, alive, past, faults>>

AfterClear(t) ==
  IF lock = t THEN "refused"
  ELSE CASE Kind(t) = "login" -> "promote"
         [] Kind(t) = "qr" -> IF task[t].moved THEN "promote" ELSE "take"
         [] Kind(t) = "sync" -> "commit"
         [] Kind(t) = "delete" -> "unlink"
         [] OTHER -> "done"

\* Variant: a new login leaves the encrypted session it replaces.
ClearKeeping(t) ==
  /\ task[t].pc = "clear"
  /\ Go(t, AfterClear(t))
  /\ UNCHANGED <<stored, memory, telegram, past, faults>>

Clear(t) ==
  /\ task[t].pc = "clear"
  /\ store' = None
  /\ Go(t, AfterClear(t))
  /\ UNCHANGED <<row, gone, file, proxy, memory, telegram, past, faults>>

------------------------------------------------------------------------------
(* A login or an import replaces the session and brings the account back.    *)
(* The poll of a QR login looks for the account, takes the login, unless     *)
(* another poll has, and looks for the account again.                        *)

TakeTicket(t) ==
  /\ task[t].pc = "take"
  /\ ticket' = FALSE
  /\ task' = [task EXCEPT ![t].moved = TRUE, ![t].known = row.there,
       ![t].pc = IF ~ticket THEN "refused" ELSE IF row.there THEN "drop" ELSE "promote"]
  /\ UNCHANGED <<stored, client, lock, op, backoff, telegram, past, faults>>

Promote(t) ==
  /\ task[t].pc = "promote"
  /\ file' = t /\ latest' = t
  /\ Go(t, "commit")
  /\ UNCHANGED <<row, gone, store, proxy, memory, telegram, made, met, revived, noted,
                 given, faults>>

(* The phone number is unique: an account another login has added meanwhile  *)
(* makes the insert fail.                                                    *)
CommitLogin(t) ==
  /\ task[t].pc = "commit"
  /\ IF row.there /\ ~task[t].known THEN Go(t, "refused") /\ UNCHANGED row
     ELSE /\ row' = [there |-> TRUE, deleted |-> FALSE, status |-> "connected"]
          /\ task' = [task EXCEPT ![t].pc = "lock", ![t].moved = FALSE]
  /\ UNCHANGED <<gone, store, file, proxy, memory, telegram, past, faults>>

Unlink(t) ==
  /\ task[t].pc = "unlink"
  /\ file' = None
  /\ Go(t, "remove")
  /\ UNCHANGED <<row, gone, store, proxy, memory, telegram, past, faults>>

CommitDelete(t) ==
  /\ task[t].pc = "remove"
  /\ row' = [row EXCEPT !.deleted = TRUE, !.status = "removed"]
  /\ gone' = IF task[t].known THEN Append(gone, "removed") ELSE gone
  /\ Go(t, "done")
  /\ UNCHANGED <<store, file, proxy, memory, telegram, past, faults>>

------------------------------------------------------------------------------
(* start_client. *)

Lock(t) ==
  /\ task[t].pc = "lock" /\ lock = None
  /\ IF client # None THEN Go(t, "started") /\ UNCHANGED lock
     ELSE lock' = t /\ Go(t, "load")
  /\ UNCHANGED <<stored, client, op, backoff, ticket, telegram, past, faults>>

(* A session that cannot be read counts as none. *)
Load(t) ==
  /\ task[t].pc = "load"
  /\ \/ task' = [task EXCEPT ![t].key = store, ![t].pc = "plan"] /\ UNCHANGED faults
     \/ Fault("db") /\ task' = [task EXCEPT ![t].key = None, ![t].pc = "plan"]
  /\ UNCHANGED <<stored, memory, telegram, past>>

(* An enabled proxy is used, in the active slot, and the spare one after     *)
(* the primary; a slot without a configuration falls back to the primary.    *)
Plan(p) ==
  IF ~p.enabled THEN <<IF p.slot = "fallback" /\ p.spare THEN "fallback" ELSE "direct">>
  ELSE IF p.slot = "primary"
       THEN IF p.spare THEN <<"primary", "fallback">> ELSE <<"primary">>
  ELSE IF p.spare THEN <<"fallback">> ELSE <<"primary">>

ReadProxy(t) ==
  /\ task[t].pc = "plan"
  /\ \/ /\ task' = [task EXCEPT ![t].plan = Plan(proxy), ![t].pc = "dial"]
        /\ UNCHANGED <<row, faults>>
     \/ Fault("db") /\ (Status("proxy_error") \/ UNCHANGED row) /\ Go(t, "refused")
  /\ UNCHANGED <<gone, store, file, proxy, memory, telegram, past>>

Made(key, route) == made' = Append(made, [key |-> key, route |-> route])

(* The file is opened when the client is made. *)
Dial(t) ==
  /\ task[t].pc = "dial"
  /\ Made(IF task[t].key # None THEN task[t].key ELSE file, Head(task[t].plan))
  /\ Status("connecting")
  /\ task' = [task EXCEPT ![t].cli = Len(made) + 1, ![t].plan = Tail(@), ![t].pc = "connect"]
  /\ UNCHANGED <<gone, store, file, proxy, memory, telegram, met, revived, noted, latest,
                 given, faults>>

KeyOf(t) == made[task[t].cli].key
RouteOf(t) == made[task[t].cli].route

Unreachable(t) ==
  /\ task[t].pc = "connect" /\ Fault("network")
  /\ Status(IF RouteOf(t) = "direct" THEN "network_error" ELSE "proxy_error")
  /\ task' = [task EXCEPT ![t].pc = IF task[t].plan = <<>> THEN "unreachable" ELSE "dial",
                          ![t].moved = TRUE]
  /\ UNCHANGED <<gone, store, file, proxy, memory, telegram, past>>

(* Telegram does not know the session, and says so in one of two ways. *)
Unauthorized(t) ==
  /\ task[t].pc = "connect" /\ KeyOf(t) \notin alive
  /\ Status("auth_required")
  /\ \/ Go(t, "refused")
     \/ KeyOf(t) # None /\ Go(t, "clear")
  /\ UNCHANGED <<gone, store, file, proxy, memory, telegram, past, faults>>

(* Banned or deactivated: logged if the status read is not that one. *)
Expelled(t) ==
  /\ task[t].pc \in {"connect", "ask"} /\ KeyOf(t) \in alive /\ world # "ok"
  /\ task' = [task EXCEPT ![t].known = row.status # world, ![t].pc = "log"]
  /\ backoff' = IF Kind(t) = "refresh" THEN FALSE ELSE backoff
  /\ UNCHANGED <<stored, client, lock, op, ticket, telegram, past, faults>>

LogGone(t) ==
  /\ task[t].pc = "log"
  /\ IF task[t].known THEN Status(world) /\ gone' = Append(gone, world)
     ELSE UNCHANGED <<row, gone>>
  /\ Go(t, IF lock = t THEN "clear" ELSE "drop")
  /\ UNCHANGED <<store, file, proxy, memory, telegram, past, faults>>

Register(t) ==
  /\ task[t].pc = "connect" /\ KeyOf(t) \in alive /\ world = "ok"
  /\ proxy' = IF task[t].moved /\ proxy.spare THEN [proxy EXCEPT !.slot = "fallback"]
              ELSE proxy
  /\ conn' = conn \union {task[t].cli}
  /\ client' = task[t].cli /\ backoff' = FALSE
  /\ Go(t, "settle")
  /\ UNCHANGED <<row, gone, store, file, lock, op, ticket, world, alive, past, faults>>

Settle(t) ==
  /\ task[t].pc = "settle"
  /\ Status("connected")
  /\ Go(t, "keep")
  /\ UNCHANGED <<gone, store, file, proxy, memory, telegram, past, faults>>

(* The session is stored and the profile read; an error of that is noted. *)
Keep(t) ==
  /\ task[t].pc = "keep"
  /\ store' = KeyOf(t)
  /\ IF world = "ok" THEN UNCHANGED <<row, noted>> ELSE Status(world) /\ noted' = TRUE
  /\ Go(t, "started")
  /\ UNCHANGED <<gone, file, proxy, memory, telegram, made, met, revived, latest, given,
                 faults>>

Release(l, t) == IF l = t THEN None ELSE l

(* The start is over, and with it the task: what it holds is given back.     *)
Leave(t) ==
  /\ task[t].pc \in {"started", "refused", "unreachable"}
  /\ lock' = Release(lock, t) /\ op' = Release(op, t)
  /\ IF Kind(t) = "refresh" /\ task[t].pc = "unreachable"
     THEN backoff' = TRUE /\ Status("network_error")
     ELSE UNCHANGED <<backoff, row>>
  /\ Go(t, "done")
  /\ UNCHANGED <<gone, store, file, proxy, client, ticket, telegram, past, faults>>

------------------------------------------------------------------------------
(* refresh_one, on the client of a snapshot. *)

Look(t) ==
  /\ task[t].pc = "look"
  /\ IF backoff THEN Go(t, "done") /\ UNCHANGED row
     ELSE IF task[t].cli \in conn THEN Go(t, "ask") /\ UNCHANGED row
     ELSE IF given.auto THEN Go(t, "redial") /\ Status("reconnecting")
     ELSE Go(t, "done") /\ Status("disconnected")
  /\ UNCHANGED <<gone, store, file, proxy, memory, telegram, past, faults>>

Redial(t) ==
  /\ task[t].pc = "redial"
  /\ conn' = conn \union {task[t].cli}
  /\ revived' = IF task[t].cli = client THEN revived ELSE revived \union {task[t].cli}
  /\ Go(t, "ask")
  /\ UNCHANGED <<stored, memory, world, alive, made, met, noted, latest, given, faults>>

(* A session Telegram does not know: the client stays, or is dropped when    *)
(* the answer was an error.                                                  *)
Ask(t) ==
  /\ task[t].pc = "ask"
  /\ \/ KeyOf(t) \in alive /\ world = "ok" /\ Status("connected") /\ Go(t, "done")
     \/ KeyOf(t) \notin alive /\ Status("auth_required") /\ Go(t, "done")
     \/ KeyOf(t) \notin alive /\ Status("auth_required") /\ Go(t, "drop")
  /\ backoff' = FALSE
  /\ UNCHANGED <<gone, store, file, proxy, client, lock, op, ticket, telegram, past, faults>>

LoseContact(t) ==
  /\ task[t].pc \in {"redial", "ask"} /\ Fault("network")
  /\ Go(t, "lost")
  /\ UNCHANGED <<stored, memory, telegram, past>>

(* A client of which the owner is still known moves to the spare proxy; the  *)
(* next reconnection waits otherwise.                                        *)
FailOver(t) ==
  /\ task[t].pc = "lost"
  /\ IF client # None /\ proxy.enabled /\ proxy.slot = "primary" /\ proxy.spare
     THEN /\ proxy' = [proxy EXCEPT !.slot = "fallback"]
          /\ Status("proxy_error") /\ Go(t, "stop") /\ UNCHANGED backoff
     ELSE /\ backoff' = TRUE /\ Status("network_error") /\ Go(t, "done")
          /\ UNCHANGED proxy
  /\ UNCHANGED <<gone, store, file, client, lock, op, ticket, telegram, past, faults>>

------------------------------------------------------------------------------
(* Requests about the proxy. *)

(* The fallback slot is refused when there is none. *)
SwitchSlot(t) ==
  /\ task[t].pc = "slot"
  /\ \E slot \in {"primary", "fallback"} :
       IF slot = "fallback" /\ ~proxy.spare THEN Go(t, "done") /\ UNCHANGED proxy
       ELSE proxy' = [proxy EXCEPT !.slot = slot] /\ Go(t, "oplock")
  /\ UNCHANGED <<row, gone, store, file, memory, telegram, past, faults>>

SaveProxy(t) ==
  /\ task[t].pc = "proxy"
  /\ IF Kind(t) = "delete_proxy"
     THEN proxy' = [enabled |-> FALSE, spare |-> FALSE, slot |-> "primary"]
     ELSE \E on, spare \in BOOLEAN :
            proxy' = [enabled |-> on, spare |-> spare,
                      slot |-> IF spare THEN proxy.slot ELSE "primary"]
  /\ Go(t, "done")
  /\ UNCHANGED <<row, gone, store, file, memory, telegram, past, faults>>

------------------------------------------------------------------------------
(* The world around. *)

LoseConnection ==
  /\ Fault("network")
  /\ \E c \in conn : conn' = conn \ {c}
  /\ UNCHANGED <<stored, memory, world, alive, past, task>>

Revoke ==
  /\ Fault("revoke")
  /\ \E k \in alive : alive' = alive \ {k}
  /\ UNCHANGED <<stored, memory, conn, world, past, task>>

Expel ==
  /\ world = "ok"
  /\ \/ Fault("ban") /\ world' = "banned"
     \/ Fault("deactivate") /\ world' = "deactivated"
  /\ UNCHANGED <<stored, memory, conn, alive, past, task>>

BackoffPasses ==
  /\ backoff /\ backoff' = FALSE
  /\ UNCHANGED <<stored, client, lock, op, ticket, telegram, past, task, faults>>

(* A database error: a session is not stored, an account not changed, and    *)
(* the client of a start that cannot note its success is disconnected.       *)
DbError(t) ==
  /\ Fault("db")
  /\ \/ task[t].pc = "save" /\ Go(t, "disconnect") /\ UNCHANGED conn
     \/ /\ task[t].pc = "clear"
        /\ Go(t, IF Kind(t) = "delete" THEN "unlink" ELSE "refused") /\ UNCHANGED conn
     \/ task[t].pc \in {"commit", "remove"} /\ Go(t, "refused") /\ UNCHANGED conn
     \/ task[t].pc = "settle" /\ Go(t, "refused") /\ conn' = conn \ {task[t].cli}
  /\ UNCHANGED <<stored, memory, world, alive, past>>

(* The process ends; the next one starts its accounts. *)
Ends ==
  /\ conn' = {} /\ client' = None
  /\ lock' = None /\ op' = None /\ backoff' = FALSE /\ ticket' = FALSE
  /\ task' = [t \in Tasks |->
       IF Kind(t) = "startup" THEN Idle
       ELSE IF t \in Busy THEN [task[t] EXCEPT !.pc = "done"] ELSE task[t]]
  /\ UNCHANGED <<stored, world, alive, past>>

Crash == Fault("crash") /\ Ends

Halt(t) == task[t].pc = "halt" /\ Ends /\ UNCHANGED faults

------------------------------------------------------------------------------
Start(t) ==
  \/ Lock(t) \/ Load(t) \/ ReadProxy(t) \/ Dial(t) \/ Unauthorized(t)
  \/ Expelled(t) \/ LogGone(t) \/ Register(t) \/ Settle(t) \/ Keep(t) \/ Leave(t)

Step(t) ==
  \/ OpLock(t) \/ Act(t)
  \/ Stop(t) \/ Save(t) \/ Disconnect(t) \/ Clear(t)
  \/ TakeTicket(t) \/ Promote(t) \/ CommitLogin(t) \/ Unlink(t) \/ CommitDelete(t)
  \/ Start(t)
  \/ Look(t) \/ Redial(t) \/ Ask(t) \/ FailOver(t)
  \/ SwitchSlot(t) \/ SaveProxy(t) \/ Halt(t)

(* What goes on by itself: the tasks, the rounds of the status loop, time.   *)
Progress ==
  \/ \E t \in Tasks : Step(t) \/ (Kind(t) = "refresh" /\ Enter(t))
  \/ BackoffPasses

Event ==
  \/ \E t \in Tasks : \/ Kind(t) # "refresh" /\ Enter(t)
                      \/ Unreachable(t) \/ LoseContact(t) \/ DbError(t)
  \/ LoseConnection \/ Revoke \/ Expel \/ Crash

Next == Progress \/ Event

(* No step of Progress repeats for ever, so that fairness to one is fairness *)
(* to all.                                                                   *)
Spec == Init /\ [][Next]_vars /\ WF_vars(Progress)
==============================================================================
