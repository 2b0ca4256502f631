------------------------------ MODULE MCServices ------------------------------
(***************************************************************************)
(* The services beside the jobs and the accounts, in one run: logins, the    *)
(* live log, access, the watchdog and the backups.  They share no variable,  *)
(* so a behaviour belongs to one part, whose scenario it picks; the others   *)
(* stay at a scenario in which nothing happens.                              *)
(***************************************************************************)
EXTENDS LoginsProperties, LiveEventsProperties, AccessProperties, OperationsProperties,
        BackupsProperties, TLC

CONSTANTS l1, l2, l3, q1, q2, q3, alice, bob, carol, d1, d2

VARIABLE part                                 \* the part that this behaviour runs

LoginCase(a, b, c, o, q, f) ==
  [kinds |-> l1 :> a @@ l2 :> b @@ l3 :> c, otp |-> o, qr |-> q, fail |-> f]
CodeKinds == {"send", "code", "pass", "cancel"}
QrKinds == {"qr_again", "qr_poll", "qr_pass", "qr_cancel"}
LoginCases ==
  {LoginCase(a, b, c, o, "none", FALSE) :
     a \in {"send", "code"}, b \in CodeKinds, c \in {"send", "sweep"}, o \in {"none", "code"}}
  \union {LoginCase(a, b, c, "none", "waiting", FALSE) :
     a \in QrKinds, b \in QrKinds, c \in {"qr_poll", "sweep"}}
  \union {LoginCase("pass", "pass", "send", "twofa", "none", FALSE),
          LoginCase("send", "code", "pass", "none", "none", TRUE),
          LoginCase("send", "qr_poll", "sweep", "none", "waiting", FALSE),
          LoginCase("qr_pass", "qr_poll", "qr_cancel", "none", "twofa", FALSE),
          LoginCase("qr_start", "qr_again", "qr_poll", "none", "none", TRUE)}
NoLogins == LoginCase("none", "none", "none", "none", "none", FALSE)

EventCase(b, w, d, u, f) == [before |-> b, wanted |-> w, drops |-> d, presses |-> u, fail |-> f]
EventCases ==
  {EventCase(1, {1, 2, 3, 4}, 1, 0, FALSE), EventCase(2, {1, 2, 3, 4}, 0, 2, FALSE),
   EventCase(2, {2, 4}, 1, 1, TRUE), EventCase(3, {1, 2, 3, 4}, 0, 2, TRUE)}
NoEvents == EventCase(4, {}, 0, 0, FALSE)

Asks(k, a, b, body) == [kind |-> k, who |-> a, whom |-> b, body |-> body]
Calls(k, a, b) == Asks(k, a, b, NoBody)
Role(r) == [NoBody EXCEPT !.role = r]
Ban(how) == [NoBody EXCEPT !.ban = how]
Quota(n) == [NoBody EXCEPT !.quota = n]
Password == [NoBody EXCEPT !.password = TRUE]
AccessCase(r1, r2, r3, admins, again, fail) ==
  [does |-> q1 :> r1 @@ q2 :> r2 @@ q3 :> r3, admins |-> admins,
   users |-> IF admins = {} THEN {} ELSE {carol}, again |-> again, fail |-> fail]
Adding == Calls("add", carol, carol)
Updates(a, b, body) == Asks("update", a, b, body)
Bootstraps(u) == Calls("bootstrap", u, u)
OnCarol(r1, r2, again) == AccessCase(r1, r2, Adding, {alice, bob}, again, FALSE)
AccessCases ==
  {OnCarol(Calls("logout", alice, carol), Updates(bob, carol, Quota(-1)), {carol}),
   OnCarol(Calls("logout", alice, carol), Updates(bob, carol, Password), {carol}),
   OnCarol(Updates(alice, carol, Ban("disable")), Updates(bob, carol, Ban("enable")), {}),
   OnCarol(Calls("purge", alice, carol), Calls("logout", bob, carol), {}),
   [AccessCase(Updates(alice, bob, Role("user")), Calls("delete", bob, alice),
               Bootstraps(carol), {alice, bob}, {}, FALSE) EXCEPT !.users = {}],
   AccessCase(Updates(alice, carol, Role("admin")), Calls("delete", carol, alice),
              Bootstraps(bob), {alice}, {}, FALSE),
   AccessCase(Updates(alice, carol, Role("admin")), Updates(alice, carol, Quota(0)),
              Updates(carol, alice, Role("user")), {alice}, {}, FALSE),
   AccessCase(Bootstraps(alice), Asks("create", alice, bob, Role("admin")),
              Calls("purge", bob, alice), {}, {alice, bob}, FALSE),
   AccessCase(Bootstraps(alice), Calls("create", alice, carol), Bootstraps(bob), {}, {alice}, TRUE),
   AccessCase(Bootstraps(alice), Bootstraps(bob), Bootstraps(carol), {}, {}, FALSE),
   AccessCase(Updates(alice, carol, Quota(2)), Calls("purge", alice, carol), Adding,
              {alice}, {}, TRUE)}
  \union {AccessCase(Updates(alice, carol, Quota(n)), Adding, Adding, {alice}, {}, f) :
            n \in {0, 5}, f \in BOOLEAN}
NoCalls == AccessCase(Calls("rest", alice, alice), Calls("rest", alice, alice),
                      Calls("rest", alice, alice), {alice}, {}, FALSE)

OpsCase(n, f, kinds) == [rounds |-> n, faults |-> f, kinds |-> kinds]
OpsCases ==
  {OpsCase(0, 2, {"die", "crash"}), OpsCase(0, 2, {"die", "respawn", "db"}),
   OpsCase(0, 2, {"die", "other", "lose"}), OpsCase(0, 2, {"die", "stop"}),
   OpsCase(1, 1, {"die", "health"}), OpsCase(1, 2, {"db", "net"}),
   OpsCase(2, 1, {"tunnel", "slow"}), OpsCase(2, 2, {"tunnel", "crash"}),
   OpsCase(2, 2, {"tunnel", "net"}), OpsCase(2, 1, {"slow", "db"})}
NoOps == OpsCase(0, 0, {})

BackupCase(d, c, f, r, o) ==
  [days |-> d, changes |-> c, faults |-> f, restores |-> r, others |-> o]
BackupCases ==
  {BackupCase(4, 0, 2, 0, 0), BackupCase(2, 1, 1, 1, 0), BackupCase(1, 2, 1, 1, 0),
   BackupCase(2, 2, 0, 1, 0), BackupCase(2, 0, 1, 0, 2)}
NoBackups == BackupCase(0, 0, 0, 0, 0)

AllLogins == LoginCases \union {NoLogins}
AllEvents == EventCases \union {NoEvents}
AllAccess == AccessCases \union {NoCalls}
AllOps == OpsCases \union {NoOps}
AllBackups == BackupCases \union {NoBackups}

------------------------------------------------------------------------------
vars == <<part, loginVars, eventVars, accessVars, opsVars, backupVars>>

Of(name, cases, quiet) == IF part = name THEN cases ELSE {quiet}

Init ==
  /\ part \in {"logins", "events", "access", "operations", "backups"}
  /\ plan \in Of("logins", LoginCases, NoLogins) /\ LoginsInit
  /\ evplan \in Of("events", EventCases, NoEvents) /\ LiveEventsInit
  /\ accessPlan \in Of("access", AccessCases, NoCalls) /\ AccessInit
  /\ opsPlan \in Of("operations", OpsCases, NoOps) /\ OpsInit
  /\ bkPlan \in Of("backups", BackupCases, NoBackups) /\ BackupsInit

Step(logins, events, access, ops, backups) ==
  \/ /\ part = "logins" /\ logins
     /\ UNCHANGED <<part, eventVars, accessVars, opsVars, backupVars>>
  \/ /\ part = "events" /\ events
     /\ UNCHANGED <<part, loginVars, accessVars, opsVars, backupVars>>
  \/ /\ part = "access" /\ access
     /\ UNCHANGED <<part, loginVars, eventVars, opsVars, backupVars>>
  \/ /\ part = "operations" /\ ops
     /\ UNCHANGED <<part, loginVars, eventVars, accessVars, backupVars>>
  \/ /\ part = "backups" /\ backups
     /\ UNCHANGED <<part, loginVars, eventVars, accessVars, opsVars>>

Next == Step(LoginsNext, LiveEventsNext, AccessNext, OpsNext, BackupsNext)
Progress ==
  Step(LoginsProgress, LiveEventsProgress, AccessProgress, OpsProgress, BackupsProgress)

Spec == Init /\ [][Next]_vars /\ WF_vars(Progress)

(* What the services must do some day, they do: old logins go, events reach  *)
(* the panel, requests end, and a backend that is down comes back.  Of the   *)
(* parts that do not run none is ever due.                                   *)
SomethingIsDue == LoginIsOld \/ EventIsOwed \/ CallIsOpen \/ BackendIsMissed
ServicesSettle == SomethingIsDue ~> ~SomethingIsDue
==============================================================================
