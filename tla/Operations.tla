------------------------------ MODULE Operations ------------------------------
(***************************************************************************)
(* The machine around the application: the watchdog that probes it every two *)
(* minutes and restarts its tasks, the lock file that keeps one watchdog at  *)
(* work, the circuit breaker, the alerts that several processes keep in one   *)
(* file, the advisory lock that keeps one backend, and the maintenance flag. *)
(***************************************************************************)
EXTENDS Naturals, FiniteSets, Sequences

CONSTANTS Dogs, Health, NoOne, OpsScenarios, RestartLimit, MaxRestarts

Services == {"backend", "ngrok"}                \* the tasks of the scheduler
Procs == {"task", "other"}   \* the backend of the task, and one on another machine
Writers == Dogs \union {Health}                 \* those that write the alerts
Keys == {"backend", "database", "ngrok", "network", "no_backend", "no_ngrok", "health"}
RestartIds == 1..MaxRestarts                    \* the bound: restarts made in all
Faults == {"crash", "slow", "die", "respawn", "db", "net", "tunnel", "lose", "other", "stop", "health"}

VARIABLES
  dogLock,   \* .watchdog.lock: its owner and whether it is old, or NoOne
  dog,       \* each run of the watchdog
  breaker,   \* watchdog-state.json: the restarts of each task
  procs,     \* the processes of the backend
  advisory,  \* who holds the database lock; "gone" if a dead process still does
  world,     \* database, network, tunnel, .maintenance
  alerts,    \* alerts-state.json: which alerts are active
  teller,    \* of each writer: alerts still to set, and the file it has read
  verdict,   \* history: what the last round found of the backend
  past,      \* history: restarts made, aged, raced, lost lock, late start, overwritten
  budget,    \* the bound: rounds begun at any time, faults
  opsPlan    \* the scenario; never changes

opsVars == <<dogLock, dog, breaker, procs, advisory, world, alerts, teller, verdict, past,
             budget, opsPlan>>

OpsScenario == [rounds : Nat, faults : Nat, kinds : SUBSET Faults]
LockFile == [by : Dogs, old : BOOLEAN]
ASSUME OpsAssumption ==
  /\ RestartLimit \in Nat /\ MaxRestarts \in Nat /\ Health \notin Dogs
  /\ NoOne \notin LockFile \union Procs \union {"gone"}

Asleep == [pc |-> "off", on |-> "backend", finding |-> "unknown", seen |-> [s \in Services |-> {}]]
Silent == [say |-> <<>>, file |-> <<>>]

OpsInit ==
  /\ opsPlan \in OpsScenarios
  /\ dogLock = NoOne /\ dog = [d \in Dogs |-> Asleep]
  /\ breaker = [s \in Services |-> {}]
  /\ procs = [task |-> "serve", other |-> "none"] /\ advisory = "task"
  /\ world = [db |-> TRUE, net |-> TRUE, tunnel |-> TRUE, maintenance |-> FALSE]
  /\ alerts = [k \in Keys |-> FALSE] /\ teller = [w \in Writers |-> Silent]
  /\ verdict = "healthy"
  /\ past = [restarts |-> [s \in Services |-> {}], aged |-> {}, raced |-> FALSE, lost |-> FALSE,
             late |-> FALSE, over |-> {}]
  /\ budget = [rounds |-> opsPlan.rounds, faults |-> opsPlan.faults]

Inside == {d \in Dogs : dog[d].pc \notin {"off", "unlink", "create"}}
Free(d) == teller[d].say = <<>>
Walk(d, pc) == dog' = [dog EXCEPT ![d].pc = pc]
LiesDown(d) == dog' = [dog EXCEPT ![d] = Asleep]
Serving == procs["task"] = "serve"
Finding == IF ~Serving THEN "down" ELSE IF world.db THEN "healthy" ELSE "database"
\* Variant: one restart more than the limit.
FullLate(set) == Cardinality(set \ past.aged) > RestartLimit

Full(set) == Cardinality(set \ past.aged) >= RestartLimit

------------------------------------------------------------------------------
(* set_alert: the state is read, and all of it written if the alert changes. *)

TellLoad(w) ==
  /\ teller[w].say # <<>> /\ teller[w].file = <<>>
  /\ LET key == Head(teller[w].say)[1]  on == Head(teller[w].say)[2] IN
     teller' = IF alerts[key] = on THEN [teller EXCEPT ![w].say = Tail(@)]
               ELSE [teller EXCEPT ![w].file = alerts]
  /\ UNCHANGED <<dogLock, dog, breaker, procs, advisory, world, alerts, verdict, past, budget,
                 opsPlan>>

TellSave(w) ==
  /\ teller[w].file # <<>>
  /\ LET key == Head(teller[w].say)[1]  on == Head(teller[w].say)[2] IN
     /\ alerts' = [teller[w].file EXCEPT ![key] = on]
     /\ past' = [past EXCEPT !.over = (@ \ {key}) \union {k \in Keys \ {key} :
                                                  alerts[k] # teller[w].file[k]}]
     /\ teller' = [teller EXCEPT ![w].file = <<>>, ![w].say = Tail(@)]
  /\ UNCHANGED <<dogLock, dog, breaker, procs, advisory, world, verdict, budget, opsPlan>>

(* reconcile, when an administrator opens the health page. *)
Reconcile(on) ==
  /\ "health" \in opsPlan.kinds /\ procs["task"] = "serve" /\ Free(Health)
  /\ budget.rounds > 0 /\ budget' = [budget EXCEPT !.rounds = @ - 1]
  /\ alerts["health"] # on
  /\ teller' = [teller EXCEPT ![Health].say = << <<"health", on>> >>]
  /\ UNCHANGED <<dogLock, dog, breaker, procs, advisory, world, alerts, verdict, past, opsPlan>>

------------------------------------------------------------------------------
(* A round of the watchdog.  It comes every two minutes; a round that would  *)
(* find what the last one found, and could do nothing, is left out.          *)

Due ==
  /\ \A d \in Dogs : dog[d].pc = "off"
  /\ \/ dogLock # NoOne /\ dogLock.old
     \/ /\ dogLock = NoOne /\ ~world.maintenance
        /\ \/ verdict # Finding
           \/ verdict = "healthy" /\ past.over \intersect {"backend", "database"} # {}
           \/ verdict = "down" /\ ~Full(breaker["backend"])

Sniff(d) ==
  /\ dog[d].pc = "off"
  /\ dog' = [dog EXCEPT ![d] = [Asleep EXCEPT
       !.pc = IF dogLock # NoOne /\ dogLock.old THEN "unlink" ELSE "create"]]
  /\ UNCHANGED <<dogLock, breaker, procs, advisory, world, alerts, teller, verdict, past, opsPlan>>

Unlink(d) ==
  /\ dog[d].pc = "unlink"
  /\ dogLock' = NoOne
  /\ past' = [past EXCEPT !.raced = @ \/ (dogLock # NoOne /\ ~dogLock.old)]
  /\ Walk(d, "create")
  /\ UNCHANGED <<breaker, procs, advisory, world, alerts, teller, verdict, budget, opsPlan>>

Create(d) ==
  /\ dog[d].pc = "create"
  /\ IF dogLock # NoOne THEN LiesDown(d) /\ UNCHANGED dogLock
     ELSE /\ dogLock' = [by |-> d, old |-> FALSE]
          /\ Walk(d, IF world.maintenance THEN "release" ELSE "probe")
  /\ UNCHANGED <<breaker, procs, advisory, world, alerts, teller, verdict, past, budget, opsPlan>>

(* handle_backend, as far as the restart. *)
Probe(d) ==
  /\ dog[d].pc = "probe"
  /\ dog' = [dog EXCEPT ![d].finding = Finding, ![d].pc =
       CASE Finding = "healthy" -> "public" [] Finding = "database" -> "release"
         [] Finding = "down" -> "permit"]
  /\ teller' = [teller EXCEPT ![d].say =
       CASE Finding = "healthy" -> << <<"backend", FALSE>>, <<"database", FALSE>> >>
         [] Finding = "database" -> << <<"database", TRUE>> >>
         [] Finding = "down" -> << <<"backend", TRUE>> >>]
  /\ UNCHANGED <<dogLock, breaker, procs, advisory, world, alerts, verdict, past, budget, opsPlan>>

(* handle_public, as far as the restart. *)
Public(d) ==
  /\ dog[d].pc = "public" /\ Free(d)
  /\ LET reached == world.net /\ world.tunnel /\ Serving IN
     /\ dog' = [dog EXCEPT ![d].on = "ngrok",
                           ![d].pc = IF ~reached /\ world.net THEN "permit" ELSE "release"]
     /\ teller' = [teller EXCEPT ![d].say =
          IF reached THEN << <<"ngrok", FALSE>>, <<"network", FALSE>> >>
          ELSE IF ~world.net THEN << <<"network", TRUE>> >>
          ELSE << <<"network", FALSE>>, <<"ngrok", TRUE>> >>]
  /\ UNCHANGED <<dogLock, breaker, procs, advisory, world, alerts, verdict, past, budget, opsPlan>>

(* restart_task *)
NoRestart(s) == IF s = "backend" THEN "no_backend" ELSE "no_ngrok"

PermitLoad(d) ==
  /\ dog[d].pc = "permit" /\ Free(d)
  /\ dog' = [dog EXCEPT ![d].seen = breaker, ![d].pc = "save"]
  /\ UNCHANGED <<dogLock, breaker, procs, advisory, world, alerts, teller, verdict, past, budget,
                 opsPlan>>

Made == UNION {past.restarts[s] : s \in Services}
PermitSave(d) ==
  /\ dog[d].pc = "save"
  /\ LET s == dog[d].on
         recent == dog[d].seen[s] \ past.aged IN
     IF Full(recent)
     THEN /\ breaker' = [dog[d].seen EXCEPT ![s] = recent]
          /\ teller' = [teller EXCEPT ![d].say = << <<NoRestart(s), TRUE>> >>]
          /\ Walk(d, "release") /\ UNCHANGED past
     ELSE \E n \in RestartIds :
          /\ Made = 1..(n - 1)
          /\ breaker' = [dog[d].seen EXCEPT ![s] = recent \union {n}]
          /\ past' = [past EXCEPT !.restarts[s] = @ \union {n}]
          /\ Walk(d, "end") /\ UNCHANGED teller
  /\ UNCHANGED <<dogLock, procs, advisory, world, alerts, verdict, budget, opsPlan>>

(* A process that ends leaves its lock until the server sees it gone. *)
Killed(p) ==
  /\ procs' = [procs EXCEPT ![p] = "none"]
  /\ advisory' = IF advisory = p THEN "gone" ELSE advisory

EndTask(d) ==
  /\ dog[d].pc = "end"
  /\ IF dog[d].on = "backend" THEN Killed("task") /\ UNCHANGED world
     ELSE world' = [world EXCEPT !.tunnel = FALSE] /\ UNCHANGED <<procs, advisory>>
  /\ Walk(d, "run")
  /\ UNCHANGED <<dogLock, breaker, alerts, teller, verdict, past, budget, opsPlan>>

Started ==                 \* the scheduler runs one instance of a task
  procs' = [procs EXCEPT !["task"] = IF @ = "none" THEN "boot" ELSE @]

RunTask(d) ==
  /\ dog[d].pc = "run"
  /\ IF dog[d].on = "backend" THEN Started /\ UNCHANGED world
     ELSE /\ \E up \in BOOLEAN :        \* run-ngrok.bat waits for the backend
               /\ up => ~world.maintenance /\ Finding = "healthy"
               /\ world' = [world EXCEPT !.tunnel = up]
          /\ UNCHANGED procs
  /\ teller' = [teller EXCEPT ![d].say = << <<NoRestart(dog[d].on), FALSE>> >>]
  /\ Walk(d, "wait")
  /\ UNCHANGED <<dogLock, breaker, advisory, alerts, verdict, past, budget, opsPlan>>

Wait(d) ==                 \* the answer comes, or the time is up
  /\ dog[d].pc = "wait" /\ Free(d)
  /\ LET s == dog[d].on
         came == IF s = "backend" THEN Finding = "healthy"
                 ELSE Serving /\ world.net /\ world.tunnel IN
     \/ /\ came
        /\ dog' = [dog EXCEPT ![d].pc = IF s = "backend" THEN "public" ELSE "release",
                              ![d].finding = IF s = "backend" THEN "healthy" ELSE @]
        /\ teller' = [teller EXCEPT ![d].say =
             IF s = "backend" THEN << <<"backend", FALSE>>, <<"database", FALSE>> >>
             ELSE << <<"ngrok", FALSE>> >>]
     \/ ~came /\ Walk(d, "release") /\ UNCHANGED teller
  /\ UNCHANGED <<dogLock, breaker, procs, advisory, world, alerts, verdict, past, budget, opsPlan>>

Release(d) ==              \* it unlinks the file, whoever made it
  /\ dog[d].pc = "release" /\ Free(d)
  /\ dogLock' = NoOne
  /\ verdict' = IF dog[d].finding = "unknown" THEN verdict ELSE dog[d].finding
  /\ LiesDown(d)
  /\ UNCHANGED <<breaker, procs, advisory, world, alerts, teller, past, budget, opsPlan>>

\* Variant: the lock file of a watchdog that has died never counts as old.
AgeLockLive(d) ==
  /\ dogLock # NoOne /\ dogLock.by = d /\ ~dogLock.old
  /\ d \in Inside /\ "slow" \in opsPlan.kinds
  /\ dogLock' = [dogLock EXCEPT !.old = TRUE]
  /\ past' = [past EXCEPT !.raced = TRUE]
  /\ UNCHANGED <<dog, breaker, procs, advisory, world, alerts, teller, verdict, budget, opsPlan>>

AgeLock(d) ==              \* ten minutes: of a dead watchdog, or of a slow one
  /\ dogLock # NoOne /\ dogLock.by = d /\ ~dogLock.old
  /\ d \notin Inside \/ "slow" \in opsPlan.kinds
  /\ dogLock' = [dogLock EXCEPT !.old = TRUE]
  /\ past' = [past EXCEPT !.raced = @ \/ d \in Inside]
  /\ UNCHANGED <<dog, breaker, procs, advisory, world, alerts, teller, verdict, budget, opsPlan>>

Elapse(n) ==               \* a restart leaves the window of fifteen minutes
  /\ n \in Made \ past.aged /\ \A m \in Made \ past.aged : n <= m
  /\ past' = [past EXCEPT !.aged = @ \union {n}]
  /\ UNCHANGED <<dogLock, dog, breaker, procs, advisory, world, alerts, teller, verdict, budget,
                 opsPlan>>

------------------------------------------------------------------------------
(* The backend: run-backend.bat, then lifespan. *)

Boot(p) ==
  /\ procs[p] = "boot"
  /\ LET stays == world.db /\ (p = "task" => ~world.maintenance) IN
     procs' = [procs EXCEPT ![p] = IF stays THEN "start" ELSE "none"]
  /\ UNCHANGED <<dogLock, dog, breaker, advisory, world, alerts, teller, verdict, past, budget,
                 opsPlan>>

TakeAdvisory(p) ==
  /\ procs[p] = "start"
  /\ IF advisory = NoOne /\ world.db
     THEN advisory' = p /\ procs' = [procs EXCEPT ![p] = "serve"]
     ELSE procs' = [procs EXCEPT ![p] = "none"] /\ UNCHANGED advisory
  /\ UNCHANGED <<dogLock, dog, breaker, world, alerts, teller, verdict, past, budget, opsPlan>>

Notice ==
  /\ advisory = "gone" /\ advisory' = NoOne
  /\ UNCHANGED <<dogLock, dog, breaker, procs, world, alerts, teller, verdict, past, budget,
                 opsPlan>>

Drained(p) ==              \* the lock is the last thing a backend gives up
  /\ procs[p] = "drain"
  /\ procs' = [procs EXCEPT ![p] = "none"]
  /\ advisory' = IF advisory = p THEN NoOne ELSE advisory
  /\ UNCHANGED <<dogLock, dog, breaker, world, alerts, teller, verdict, past, budget, opsPlan>>

------------------------------------------------------------------------------
(* Operators and faults. *)

Spend(kind) ==
  /\ kind \in opsPlan.kinds /\ budget.faults > 0
  /\ budget' = [budget EXCEPT !.faults = @ - 1]

StopPublic ==              \* stop-public.bat; a backend that starts is not seen
  /\ ~world.maintenance /\ Spend("stop")
  /\ world' = [world EXCEPT !.maintenance = TRUE, !.tunnel = FALSE]
  /\ procs' = [procs EXCEPT !["task"] = IF @ = "serve" THEN "drain" ELSE @]
  /\ past' = [past EXCEPT !.late = @ \/ procs["task"] = "start"]
  /\ UNCHANGED <<dogLock, dog, breaker, advisory, alerts, teller, verdict, opsPlan>>

StartPublic ==
  /\ world.maintenance
  /\ world' = [world EXCEPT !.maintenance = FALSE]
  /\ Started
  /\ UNCHANGED <<dogLock, dog, breaker, advisory, alerts, teller, verdict, past, budget, opsPlan>>

StartOther ==
  /\ procs["other"] = "none" /\ Spend("other")
  /\ procs' = [procs EXCEPT !["other"] = "boot"]
  /\ UNCHANGED <<dogLock, dog, breaker, advisory, world, alerts, teller, verdict, past, opsPlan>>

Respawn ==                 \* the scheduler runs a task that has failed again
  /\ procs["task"] = "none" /\ Spend("respawn") /\ Started
  /\ UNCHANGED <<dogLock, dog, breaker, advisory, world, alerts, teller, verdict, past, opsPlan>>

Die(p) ==
  /\ procs[p] # "none" /\ Spend("die") /\ Killed(p)
  /\ UNCHANGED <<dogLock, dog, breaker, world, alerts, teller, verdict, past, opsPlan>>

LoseAdvisory ==            \* the connection that holds the lock breaks
  /\ advisory \in Procs /\ Spend("lose")
  /\ advisory' = NoOne /\ past' = [past EXCEPT !.lost = TRUE]
  /\ UNCHANGED <<dogLock, dog, breaker, procs, world, alerts, teller, verdict, opsPlan>>

Fall(part) ==
  /\ world[part] /\ Spend(part)
  /\ world' = [world EXCEPT ![part] = FALSE]
  /\ UNCHANGED <<dogLock, dog, breaker, procs, advisory, alerts, teller, verdict, past, opsPlan>>

Mend(part) ==
  /\ ~world[part] /\ world' = [world EXCEPT ![part] = TRUE]
  /\ UNCHANGED <<dogLock, dog, breaker, procs, advisory, alerts, teller, verdict, past, budget,
                 opsPlan>>

CrashDog(d) ==
  /\ dog[d].pc # "off" /\ Spend("crash")
  /\ LiesDown(d) /\ teller' = [teller EXCEPT ![d] = Silent]
  /\ verdict' = "unknown"
  /\ UNCHANGED <<dogLock, breaker, procs, advisory, world, alerts, past, opsPlan>>

------------------------------------------------------------------------------
OpsProgress ==
  \/ \E d \in Dogs :
       \/ Due /\ Sniff(d) /\ UNCHANGED budget
       \/ Unlink(d) \/ Create(d) \/ Probe(d) \/ Public(d) \/ PermitLoad(d) \/ PermitSave(d)
       \/ EndTask(d) \/ RunTask(d) \/ Wait(d) \/ Release(d) \/ AgeLock(d)
  \/ \E w \in Writers : TellLoad(w) \/ TellSave(w)
  \/ \E n \in RestartIds : Elapse(n)
  \/ \E p \in Procs : Boot(p) \/ TakeAdvisory(p) \/ Drained(p)
  \/ Notice

OpsEvent ==
  \/ \E d \in Dogs :
       \/ budget.rounds > 0 /\ budget' = [budget EXCEPT !.rounds = @ - 1] /\ Sniff(d)
       \/ CrashDog(d)
  \/ \E on \in BOOLEAN : Reconcile(on)
  \/ \E p \in Procs : Die(p)
  \/ StopPublic \/ StartPublic \/ StartOther \/ Respawn \/ LoseAdvisory
  \/ \E part \in {"db", "net", "tunnel"} : Fall(part)
  \/ \E part \in {"db", "net"} : Mend(part)

OpsNext == OpsProgress \/ OpsEvent

OpsSpec == OpsInit /\ [][OpsNext]_opsVars /\ WF_opsVars(OpsProgress)
==============================================================================
