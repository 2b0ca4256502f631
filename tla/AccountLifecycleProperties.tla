---------------------- MODULE AccountLifecycleProperties ----------------------
(***************************************************************************)
(* What the life of an account must guarantee.                              *)
(***************************************************************************)
EXTENDS AccountLifecycle

Statuses == {"disconnected", "connecting", "connected", "reconnecting", "auth_required",
             "proxy_error", "network_error", "banned", "deactivated", "removed"}

Starting == {"load", "plan", "dial", "connect", "settle", "keep"}
Stopping == {"save", "disconnect", "hangup"}

Steps == Starting \union Stopping \union
  {"off", "done", "oplock", "act", "stop", "drop", "clear", "promote", "commit", "unlink",
   "remove", "lock", "log", "started", "refused", "unreachable", "look", "redial", "ask",
   "lost", "slot", "proxy", "take", "halt"}

TaskRecord ==
  [pc : Steps, cli : Nat \union {None}, key : Keys \union {None}, plan : Seq(Routes),
   known : BOOLEAN, moved : BOOLEAN]

\* Every variable holds what the code can store in it.
TypeOK ==
  /\ row \in [there : BOOLEAN, deleted : BOOLEAN, status : Statuses]
  /\ gone \in Seq({"banned", "deactivated", "removed"})
  /\ {store, file} \subseteq Keys \union {None}
  /\ proxy \in ProxyRow
  /\ made \in Seq([key : Keys \union {None}, route : Routes])
  /\ client \in DOMAIN made \union {None} /\ conn \subseteq DOMAIN made
  /\ {lock, op} \subseteq Tasks \union {None}
  /\ {backoff, ticket, noted} \subseteq BOOLEAN
  /\ task \in [Tasks -> TaskRecord]
  /\ world \in {"ok", "banned", "deactivated"}
  /\ alive \subseteq Keys /\ latest \in Keys
  /\ given \in Scenarios /\ faults \in 0 .. FaultBound

\* Both locks are with the task that is past them, and with nobody else:
\* however a start, a stop or an operation ends, the account is not locked.
LocksAreHeld ==
  \A t \in Tasks :
    /\ task[t].pc \in Starting => lock = t
    /\ lock = t => task[t].pc \in Starting \union {"log", "clear", "started", "refused",
                                                   "unreachable"}
    /\ op = t => task[t].pc \notin {"off", "done"}

\* A client that is connected is the registered one, or is being stopped: no
\* second connection of the session works on unseen.  The exception is a round
\* of the status loop that connects the client of its old snapshot again.
NoStrayClients ==
  conn \ {client} \subseteq
    revived \union {task[t].cli : t \in {u \in Tasks : task[u].pc \in Stopping}}

Overlapped(t, kinds) == \E u \in Tasks : Kind(u) \in kinds /\ {t, u} \in met
Starters == {"startup", "sync", "login", "qr", "reconnect", "switch", "refresh"}

\* Nobody logs in again, and nobody who starts the account or saves its session
\* overlaps a removal.
RemovalsAlone ==
  /\ given.at # "deleted"
  /\ \A t \in Tasks :
       /\ Kind(t) = "delete" => ~Overlapped(t, Starters \union {"shutdown"})
       /\ Kind(t) \in {"login", "qr", "sync"} => task[t].pc = "off"

\* A database error may have kept the session of a removed account.
Cleared == store = None \/ ("db" \in given.faults /\ faults > 0)

\* A removed account stays down: no client, and no session to start one from,
\* as long as nobody logs in again and no start or shutdown overlapped the
\* removal.
DeletedIsDown ==
  (RemovalsAlone /\ row.deleted) => client = None /\ file = None /\ Cleared

Departures(reason) == {i \in DOMAIN gone : gone[i] = reason}
Removers == {t \in Tasks : Kind(t) = "delete" /\ task[t].pc = "done"}

\* An account that is banned or deactivated has been logged as gone, unless an
\* operation's error was the first to tell; the removal is logged at most once
\* per request that ended.
GoneIsLogged ==
  /\ row.status \in {"banned", "deactivated"} => Departures(row.status) # {} \/ noted
  /\ Cardinality(Departures("removed")) <=
       Cardinality(Removers) + (IF given.at = "deleted" THEN 1 ELSE 0)

------------------------------------------------------------------------------
(* The inductive strengthening: what the tasks, the register and the tables   *)
(* know of each other.                                                       *)

\* Whose steps these are.
KindsAt(pc) ==
  CASE pc \in {"stop", "save", "disconnect"} -> {"reconnect", "switch", "refresh", "shutdown"}
    [] pc = "halt" -> {"shutdown"}
    [] pc \in {"drop", "hangup"} -> {"sync", "login", "qr", "refresh", "delete"}
    [] pc = "take" -> {"qr"}
    [] pc = "promote" -> {"login", "qr"}
    [] pc = "commit" -> {"sync", "login", "qr"}
    [] pc \in {"unlink", "remove"} -> {"delete"}
    [] pc \in {"clear", "refused"} -> Starters \union {"delete"}
    [] pc \in {"look", "redial", "ask", "lost"} -> {"refresh"}
    [] pc = "slot" -> {"switch"}
    [] pc = "oplock" -> {"reconnect", "switch", "operation"}
    [] pc = "act" -> {"operation"}
    [] pc = "proxy" -> {"save_proxy", "delete_proxy"}
    [] OTHER -> Starters

\* A task is at a step of its own; it starts a client only while there is none,
\* and knows the client it works with.
TaskMatches(t) ==
  /\ t \in Busy => Kind(t) \in KindsAt(task[t].pc)
  /\ \/ task[t].pc \in {"load", "plan", "dial", "connect"}
     \/ task[t].pc = "log" /\ lock = t
     => client = None
  /\ task[t].pc \in {"connect", "settle", "keep", "save", "look", "redial", "ask"} =>
       task[t].cli \in DOMAIN made
  /\ task[t].pc = "dial" => task[t].plan # <<>>
  /\ task[t].pc = "log" => world # "ok"
  /\ lock = t => Kind(t) \in Starters
  /\ op = t => Kind(t) \in {"operation", "reconnect", "switch"}
               /\ task[t].pc \notin {"slot", "oplock"}
  /\ \/ task[t].pc = "log" /\ Kind(t) # "refresh"
     \/ task[t].pc = "clear" /\ Kind(t) \in {"reconnect", "switch"}
     => lock = t

\* Two tasks at work have overlapped.
BusyMeet == \A t, u \in Busy : t # u => {t, u} \in met

\* Before the account is there, nobody starts or stops it.
NothingBefore ==
  ~row.there =>
    /\ store = None /\ client = None
    /\ \A t \in Busy : \/ Kind(t) = "shutdown" /\ task[t].pc \in {"stop", "halt"}
                       \/ task[t].pc \in {"take", "promote", "commit", "refused", "proxy"}

\* What a removal that runs alone has done so far.
RemovalsHold ==
  RemovalsAlone =>
    /\ \A t \in Tasks : Kind(t) = "delete" =>
         /\ task[t].pc \in {"hangup", "clear", "unlink", "remove"} => client = None
         /\ task[t].pc \in {"unlink", "remove"} => Cleared
         /\ task[t].pc = "remove" => file = None
    /\ row.deleted => \A t \in Busy : Kind(t) \notin Starters /\ task[t].pc # "save"

LoginsAlone ==
  \A t \in Tasks : Kind(t) \in {"login", "qr"} => ~Overlapped(t, Starters \union {"shutdown"})

\* While logins run alone every session at hand is that of the last one.
SessionsMatch ==
  LET Last == {latest, None} IN
  LoginsAlone =>
    /\ {file, store} \subseteq Last
    /\ client # None => made[client].key \in Last
    /\ \A t \in Tasks :
         /\ task[t].pc \in {"plan", "dial", "connect"} => task[t].key \in Last
         /\ task[t].pc \in {"connect", "settle", "keep", "save"} => KeyOf(t) \in Last
         /\ Kind(t) \in {"login", "qr"} =>
              /\ task[t].pc \in {"hangup", "clear", "promote"} => client = None
              /\ task[t].pc = "promote" => store = None

\* The routes a start has left to try, unless the proxy was saved or deleted
\* beside it.
PlansMatch ==
  \A t \in Tasks : task[t].pc \in {"dial", "connect"} =>
    \/ Overlapped(t, {"save_proxy", "delete_proxy"})
    \/ proxy.enabled => \A i \in DOMAIN task[t].plan : task[t].plan[i] # "direct"

\* The locks, the connections, the removed account and the log of departures,
\* with what they rest on, in every state.
LifecycleInv ==
  /\ TypeOK /\ LocksAreHeld /\ NoStrayClients /\ DeletedIsDown /\ GoneIsLogged
  /\ \A t \in Tasks : TaskMatches(t)
  /\ BusyMeet /\ NothingBefore /\ RemovalsHold /\ SessionsMatch /\ PlansMatch

------------------------------------------------------------------------------
(* What is shown of the account.                                             *)

Replacers == {"login", "qr", "sync", "delete"}

\* Two polls of one QR login, the second of which takes down what the first set
\* up; a round of the status loop beside a task that replaces or removes the
\* session, which may speak last, of a client stopped meanwhile.
SpokeLast(t) ==
  \/ Kind(t) = "qr" /\ Overlapped(t, {"qr"})
  \/ Kind(t) = "refresh" /\ Overlapped(t, Replacers)

\* An account left alone that is shown as connected has a client, unless one of
\* these overlapped or the process has stopped.
StatusIsTrue ==
  (Busy = {} /\ faults = 0 /\ Live /\ row.status = "connected") =>
    client # None \/ \E t \in Tasks : Kind(t) = "shutdown" \/ SpokeLast(t)

Quiet == faults = 0 /\ \A t \in Tasks : Kind(t) # "shutdown"

\* Without failures Telegram knows the session of every client that a task
\* works with; only who replaces or removes the session drops a client, and it
\* has found the account there.
Calm(t) ==
  /\ task[t].pc \notin {"log", "lost", "unreachable"}
  /\ task[t].pc \in {"drop", "hangup", "clear"} =>
       Kind(t) \in Replacers /\ lock # t /\ (Kind(t) # "delete" => task[t].known)
  /\ task[t].pc \in {"stop", "save", "disconnect"} => Kind(t) # "refresh"
  /\ task[t].pc \in {"settle", "keep", "save", "look", "redial", "ask"} => KeyOf(t) # None
  /\ task[t].pc \in {"settle", "keep"} => client # None
  /\ task[t].pc = "take" => ~task[t].moved

QuietMatches ==
  /\ world = "ok" /\ alive = Keys
  /\ client # None => made[client].key # None
  /\ \A t \in Tasks : Calm(t)

\* Who finds the QR login taken has overlapped the one that took it.
TicketsMatch ==
  ~ticket => \A t \in Tasks :
    (Kind(t) = "qr" /\ task[t].pc \in {"drop", "hangup", "clear", "take"} /\ ~task[t].moved) =>
      Overlapped(t, {"qr"})

\* A task that will register a client if none is.
WillConnect(u) ==
  \/ task[u].pc = "save"
  \/ task[u].pc \in {"disconnect", "lock", "load"} /\ store # None
  \/ task[u].pc \in {"plan", "dial"} /\ task[u].key # None
  \/ task[u].pc = "connect" /\ KeyOf(u) # None

\* A task that will register a client if none is, or change what is shown.
WillTell(u) ==
  \/ task[u].pc \in {"save", "disconnect", "lock", "load", "plan", "dial", "connect",
                     "drop", "hangup", "clear", "unlink", "remove"}
  \/ task[u].pc \in {"take", "promote", "commit"} /\ task[u].known

\* While a round of the status loop is at work a client is registered or will
\* be, unless the session is replaced or removed beside it.
RoundsMatch ==
  \A t \in Tasks : task[t].pc \in {"look", "redial", "ask"} =>
    client # None \/ Overlapped(t, Replacers) \/ \E u \in Tasks : WillConnect(u)

\* Without a client, somebody is about to change what is shown.
StatusMatches ==
  (Live /\ row.status = "connected") =>
    client # None \/ \E t \in Tasks : WillTell(t) \/ SpokeLast(t)

\* What is shown, with what it rests on while nothing has failed.
StatusInv ==
  /\ StatusIsTrue
  /\ Quiet => QuietMatches /\ TicketsMatch /\ RoundsMatch /\ StatusMatches

------------------------------------------------------------------------------
\* A client made after a login uses the session of that login, not the one it
\* replaced, unless another task that stops or starts the account overlapped
\* the login or was at work with it.
NewSessionWins ==
  [][Len(made') > Len(made) =>
       made'[Len(made')].key \in {latest, None}
         \/ \E t \in Tasks : /\ Kind(t) \in {"login", "qr"}
                            /\ Overlapped(t, Starters \union {"shutdown"})]_vars

\* A client is made for the route the stored proxy asks for: an enabled proxy
\* that fails is never replaced by a direct connection.
ProxyIsUsed ==
  [][\A t \in Tasks : Dial(t) =>
       LET route == made'[Len(made')].route IN
       \/ proxy.enabled => route # "direct"
       \/ Overlapped(t, {"save_proxy", "delete_proxy"})]_vars

\* Every client is made with the session and for the route it should have.
StartsAreRight == NewSessionWins /\ ProxyIsUsed

\* Nothing waits for ever: every request ends, whoever holds the locks.
TasksEnd == \A t \in Tasks : (task[t].pc \notin {"off", "done"}) ~> (task[t].pc \in {"off", "done"})

\* A registered client that lost its connection gets it back, or is reported
\* or unregistered: the status loop keeps trying.
ComesBack ==
  (client # None /\ client \notin conn /\ \E t \in Tasks : Kind(t) = "refresh") ~>
    (client = None \/ client \in conn \/ (~given.auto /\ row.status = "disconnected"))

\* Every request ends, and every lost connection comes back.
LifeSettles == TasksEnd /\ ComesBack
==============================================================================
