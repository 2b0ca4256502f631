--------------------------- MODULE LoginsProperties ---------------------------
(* What Logins promises while requests, sweeps and scans interleave.         *)
EXTENDS Logins

(* The steps of each kind of request.                                        *)
LoginStepsOf(kind) ==
  CASE kind = "none" -> {"off"}
    [] kind = "send" -> {"off", "drop", "connect", "request", "done"}
    [] kind = "code" -> {"off", "sign", "store", "persist", "drop", "done"}
    [] kind = "pass" -> {"off", "sign", "store", "persist", "done"}
    [] kind = "cancel" -> {"off", "drop", "done"}
    [] kind = "qr_start" -> {"off", "connect", "request", "done"}
    [] kind = "qr_again" -> {"off", "unwait", "renew", "done"}
    [] kind = "qr_poll" -> {"off", "final", "move", "persist", "done"}
    [] kind = "qr_pass" -> {"off", "sign", "final", "move", "persist", "done"}
    [] kind = "qr_cancel" -> {"off", "undo", "done"}
    [] kind = "sweep" -> {"off", "sweep", "sweepqr", "done"}
LoginSteps == UNION {LoginStepsOf(kind) : kind \in LoginKinds}
LoginPlace == [pc : LoginSteps, cli : Clients \union {NoLogin}, old : BOOLEAN]

LoginsTypeOK ==
  /\ plan \in LoginScenarios
  /\ otp \in OtpEntry \union {NoLogin}
  /\ qr \in [Clients -> QrEntry \union {NoLogin}]
  /\ login \in [LoginTasks -> LoginPlace]
  /\ \A t \in LoginTasks : login[t].pc \in LoginStepsOf(Does(t))
  /\ line \subseteq Clients /\ temp \subseteq Clients
  /\ waits \subseteq Clients \X Nat /\ lapsed \subseteq Clients \X Nat
  /\ persisted \subseteq Clients \X LoginTasks
  /\ beside \subseteq SUBSET LoginTasks /\ failed \in BOOLEAN

Overlapped(t, u) == {t, u} \in beside
Twice(kind) ==
  \E t, u \in LoginTasks : t # u /\ Does(t) = kind /\ Does(u) = kind /\ Overlapped(t, u)

(* Requests that are at work at once have overlapped.                        *)
OverlapsAreKnown == \A t, u \in AtWork : t # u => Overlapped(t, u)

(* A client belongs to a login by code or by QR, from the end of the request *)
(* that began it, and what the others do with it is of that kind.            *)
ByCode(c) ==
  (c = Origin /\ plan.otp # "none")
    \/ (c \in LoginTasks /\ Does(c) = "send" /\ login[c].pc = "done")
ByQr(c) ==
  (c = Origin /\ plan.qr # "none")
    \/ (c \in LoginTasks /\ Does(c) = "qr_start" /\ login[c].pc = "done")
ForCode(t) == login[t].pc \in {"sign", "store", "persist"} /\ Does(t) \in {"code", "pass"}
ForQr(t) ==
  /\ login[t].pc \in {"sign", "persist", "final", "move", "undo", "unwait", "renew"}
  /\ Does(t) \in {"qr_again", "qr_poll", "qr_pass", "qr_cancel"}
ClientsMatch ==
  /\ otp # NoLogin => ByCode(otp.cli)
  /\ \A c \in Known : ByQr(c) /\ c \in line
  /\ \A w \in waits : ByQr(w[1])
  /\ \A t \in LoginTasks :
       /\ ForCode(t) => ByCode(login[t].cli)
       /\ ForQr(t) => ByQr(login[t].cli)
       /\ login[t].pc = "request" => t \in line

(* While a new code is asked for, none is pending for the phone.             *)
PhoneIsFree ==
  Twice("send") \/ \A t \in LoginTasks :
    Does(t) = "send" /\ login[t].pc \in {"connect", "request"} => otp = NoLogin

(* A temporary client stays connected, and its file on the disk, only while  *)
(* a pending login or a request at work owns it; a request that failed on    *)
(* the way and two codes requested at once for the phone may lose one.       *)
Requesting == {t \in LoginTasks : login[t].pc = "request"}
NothingIsLost ==
  failed \/
    /\ Twice("send") \/ line \subseteq {Pending} \union Known \union Requesting
    /\ temp \subseteq Known \union {t \in Requesting : Does(t) = "qr_start"}

(* A QR login that reports "waiting" has a task that waits for its current   *)
(* code, except while that code is being renewed or after that has failed.   *)
WaitingIsWaited ==
  \A c \in Known :
    \/ failed \/ qr[c].authorized \/ qr[c].twofa \/ qr[c].error # "none"
    \/ \E t \in AtWork : login[t].pc = "renew" /\ login[t].cli = c
    \/ <<c, qr[c].code>> \in waits

(* A QR login reports "expired" only if its current code has expired, unless *)
(* two renewals overlapped: then the task of the first is never cancelled.   *)
ExpiredIsTrue ==
  Twice("qr_again") \/
  \A c \in Known : qr[c].error = "expired" => <<c, qr[c].code>> \in lapsed

(* The task that waits for a scan is the one the login knows of, and it is   *)
(* gone while its code is renewed, unless two renewals overlapped.           *)
WaitsAreCurrent ==
  Twice("qr_again") \/ \A w \in waits : w[1] \in Known =>
    /\ w[2] = qr[w[1]].code /\ w[2] = qr[w[1]].wait
    /\ \A t \in LoginTasks : ~(login[t].pc = "renew" /\ login[t].cli = w[1])

(* Two polls that both see a QR login authorized store its account once; a   *)
(* login by code is stored twice only by requests that overlapped.           *)
StoredOnce ==
  \A p, q \in persisted : p[1] = q[1] =>
    p = q \/ (Does(p[2]) \in {"code", "pass"} /\ Overlapped(p[2], q[2]))

(* A QR login that is stored has been taken out, by the request that stores  *)
(* it; a login by code is dropped before it is stored, and those who store   *)
(* it again signed in while it was pending.                                  *)
StoresMatch ==
  /\ \A p \in persisted :
       \/ Does(p[2]) \in {"code", "pass"} /\ ByCode(p[1]) /\ Pending # p[1]
       \/ Does(p[2]) \in {"qr_poll", "qr_pass"} /\ ByQr(p[1]) /\ p[1] \notin Known
  /\ \A t \in LoginTasks : login[t].pc = "persist" =>
       IF Does(t) \in {"code", "pass"} THEN Pending # login[t].cli
       ELSE /\ login[t].cli \notin Known /\ \A p \in persisted : p[1] # login[t].cli
            /\ \A u \in LoginTasks \ {t} : login[u].pc = "persist" => login[u].cli # login[t].cli
  /\ \A t \in LoginTasks, p \in persisted :
       ForCode(t) /\ p[1] = login[t].cli /\ p[2] # t => Overlapped(t, p[2])

(* The login by code that is pending is the one that a request or a sweep    *)
(* has found, old already then if a sweep found it so, or one begun beside.  *)
Found(t) ==
  \/ Does(t) \in {"code", "pass"} /\ login[t].pc \in {"sign", "store", "drop"}
  \/ login[t].pc = "sweep"
FoundIsPending ==
  otp # NoLogin => \A t \in LoginTasks : Found(t) =>
    \/ Overlapped(t, otp.cli)
    \/ /\ login[t].cli = otp.cli
       /\ login[t].pc = "sweep" /\ login[t].old => otp.old

LoginsInv ==
  /\ LoginsTypeOK /\ OverlapsAreKnown /\ ClientsMatch /\ PhoneIsFree /\ NothingIsLost
  /\ WaitingIsWaited /\ WaitsAreCurrent /\ ExpiredIsTrue /\ StoredOnce /\ StoresMatch
  /\ FoundIsPending

(* A pending login by code is removed by a request that came after it, or by *)
(* one that ran beside the request that began it: never by one that was over *)
(* before, and never by a sweep that found it young.                         *)
Removes(t) ==
  \/ Does(t) \in {"send", "cancel"} /\ login[t].pc \in {"drop", "request"}
  \/ login[t].pc \in {"drop", "store", "sweep"}
     /\ (login[t].cli = otp.cli \/ Overlapped(t, otp.cli))
LoginsStay ==
  [][otp # NoLogin /\ (otp' = NoLogin \/ otp'.cli # otp.cli) =>
       \E t \in AtWork : login'[t] # login[t] /\ Removes(t)
                         /\ (Does(t) = "sweep" => otp.old \/ Overlapped(t, otp.cli))]_loginVars

(* A login that is past its time to live; the status loop must renew or      *)
(* remove it some day, if it sweeps.                                         *)
LoginIsOld ==
  /\ \E t \in LoginTasks : Does(t) = "sweep"
  /\ (otp # NoLogin /\ otp.old) \/ \E c \in Known : qr[c].old
================================================================================
