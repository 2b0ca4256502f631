------------------------- MODULE OperationsProperties -------------------------
(* What the watchdog, its files and the two locks promise.                   *)
EXTENDS Operations

Findings == {"healthy", "database", "down"}
DogPcs == {"off", "unlink", "create", "probe", "public", "permit", "save", "end", "run", "wait",
           "release"}

Round == [pc : DogPcs, on : Services, finding : Findings \union {"unknown"},
          seen : [Services -> SUBSET RestartIds]]
Telling == [say : Seq(Keys \X BOOLEAN), file : [Keys -> BOOLEAN] \union {<<>>}]
OpsHistory == [restarts : [Services -> SUBSET RestartIds], aged : SUBSET RestartIds,
            raced : BOOLEAN, lost : BOOLEAN, late : BOOLEAN, over : SUBSET Keys]

OpsTypeOK ==
  /\ opsPlan \in OpsScenarios
  /\ dogLock \in LockFile \union {NoOne}
  /\ dog \in [Dogs -> Round]
  /\ breaker \in [Services -> SUBSET RestartIds]
  /\ procs \in [Procs -> {"none", "boot", "start", "serve", "drain"}]
  /\ advisory \in Procs \union {NoOne, "gone"}
  /\ world \in [db : BOOLEAN, net : BOOLEAN, tunnel : BOOLEAN, maintenance : BOOLEAN]
  /\ alerts \in [Keys -> BOOLEAN]
  /\ teller \in [Writers -> Telling]
  /\ verdict \in Findings \union {"unknown"}
  /\ past \in OpsHistory

(* One watchdog at a time is past the lock file, unless one took another's   *)
(* fresh file for the old one it had seen, or was still at work when its own *)
(* file became old.                                                          *)
OneWatchdog == past.raced \/ Cardinality(Inside) <= 1

(* Whoever is past the lock file made the file that is there.                *)
LockIsOwn == past.raced \/ \A d \in Inside : dogLock = [by |-> d, old |-> FALSE]

(* A task is restarted at most RESTART_LIMIT times in a window, whatever     *)
(* crashes, unless two watchdogs read the same state.                        *)
RestartsAreLimited ==
  past.raced \/ \A s \in Services : ~Cardinality(past.restarts[s] \ past.aged) > RestartLimit

(* The state file has every restart of the window, and a watchdog that is    *)
(* about to write it has read what is there.                                 *)
RestartsAreKnown ==
  past.raced \/
    /\ \A s \in Services : past.restarts[s] \ past.aged \subseteq breaker[s]
    /\ \A d \in Dogs : dog[d].pc = "save" => dog[d].seen = breaker

(* Two backends never work on one database, not even while one of them ends, *)
(* unless the connection that held the lock was lost.                        *)
OneBackend ==
  past.lost \/ Cardinality({p \in Procs : procs[p] \in {"serve", "drain"}}) <= 1

(* A backend that works has the database lock.                               *)
BackendHasLock == past.lost \/ \A p \in Procs : procs[p] \in {"serve", "drain"} => advisory = p

(* No backend serves in maintenance, or is about to, whatever the watchdog   *)
(* was doing, except one that had passed its last look at the flag when the  *)
(* flag was set.                                                             *)
MaintenanceHolds == world.maintenance => past.late \/ procs["task"] \notin {"start", "serve"}

(* What a finding must have the alerts say; which alerts do, unless another  *)
(* process has written back an older state of the file.                      *)
Demand(finding) ==
  CASE finding = "healthy" -> {<<"backend", FALSE>>, <<"database", FALSE>>}
    [] finding = "database" -> {<<"database", TRUE>>}
    [] finding = "down" -> {<<"backend", TRUE>>}
    [] finding = "unknown" -> {}
Shows(alert) == alerts[alert[1]] = alert[2] \/ alert[1] \in past.over

(* Between rounds the alerts say what the last round found, unless two       *)
(* rounds ran at once: the older finding may then be told last.              *)
AlertsShow == past.raced \/ (Inside = {} => \A alert \in Demand(verdict) : Shows(alert))

(* During a round the alerts do, or the watchdog has still to set them, and  *)
(* it sets no other alert of the backend or the database.                    *)
Said(s) == {s[i] : i \in 1..Len(s)}
ToSay(w) == Said(teller[w].say)
RoundTells ==
  past.raced \/ \A d \in Inside :
    IF dog[d].finding = "unknown" THEN Free(d) /\ \A alert \in Demand(verdict) : Shows(alert)
    ELSE /\ \A alert \in Demand(dog[d].finding) : alert \in ToSay(d) \/ Shows(alert)
         /\ \A alert \in ToSay(d) :
              alert[1] \in {"backend", "database"} => alert \in Demand(dog[d].finding)

(* Nothing is left to say where a round goes on to say something else, a     *)
(* round has its finding from the probe on, and the health page speaks of    *)
(* itself alone.                                                             *)
TellersMatch ==
  /\ \A w \in Writers : teller[w].file # <<>> => ~Free(w)
  /\ \A d \in Dogs :
       /\ dog[d].pc \in {"off", "unlink", "create", "probe", "save", "end", "run"} => Free(d)
       /\ dog[d].pc \in {"off", "unlink", "create", "probe"} => dog[d].finding = "unknown"
       /\ dog[d].pc \in {"public", "permit", "save", "end", "run", "wait"} =>
            dog[d].finding # "unknown"
  /\ \A alert \in ToSay(Health) : alert[1] = "health"

OpsInv ==
  /\ OpsTypeOK /\ OneWatchdog /\ LockIsOwn /\ RestartsAreLimited /\ RestartsAreKnown
  /\ OneBackend /\ BackendHasLock /\ MaintenanceHolds /\ AlertsShow /\ RoundTells /\ TellersMatch

(* A backend that is missed: it does not serve, and it is not in maintenance, *)
(* the database is there, no other one has the lock and the bound on restarts *)
(* is not reached.  The watchdog must bring it back, past the locks of dead   *)
(* watchdogs and when the breaker closes again.                              *)
BackendIsMissed ==
  ~Serving /\ ~world.maintenance /\ world.db /\ procs["other"] = "none" /\ Made # RestartIds
================================================================================
