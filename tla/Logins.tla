-------------------------------- MODULE Logins --------------------------------
(***************************************************************************)
(* Logins that are under way: by a code sent to one phone, kept in _pending  *)
(* until it is confirmed, and by a QR code that a second device scans, kept  *)
(* in _qr_pending with a task that waits for the scan.  Each has a temporary *)
(* client; the client of a QR login also has a file of its own.              *)
(***************************************************************************)
EXTENDS Naturals, FiniteSets

CONSTANTS LoginTasks, LoginScenarios, NoLogin, Origin   \* Origin: a login there at first

LoginKinds == {"none", "send", "code", "pass", "cancel", "qr_start", "qr_again",
               "qr_poll", "qr_pass", "qr_cancel", "sweep"}
Clients == LoginTasks \union {Origin}

(* twofa: a password is asked for; a QR login is also authorized, carries an *)
(* error, and remembers the number of its code and of the code its task      *)
(* waits for, 0 if that task has ended.  old: past its time to live.         *)
OtpLogin(cli) == [cli |-> cli, twofa |-> FALSE, old |-> FALSE]
QrLogin == [authorized |-> FALSE, twofa |-> FALSE, error |-> "none", me |-> FALSE,
            code |-> 1, wait |-> 1, old |-> FALSE]

VARIABLES
  otp,       \* _pending of the phone, or NoLogin
  qr,        \* _qr_pending: by the client; an entry taken out is NoLogin
  waits,     \* the tasks that wait for a scan: <<login, code>>
  line,      \* the temporary clients with a connection
  temp,      \* the qr_ files
  lapsed,    \* the QR codes that have expired: <<login, code>>
  login,     \* where each request is: pc, its login, whether it succeeded
  persisted, \* history: the logins stored as accounts, and by whom
  beside,    \* history: the pairs of requests that overlapped
  plan,      \* the scenario; never changes
  failed     \* history: a request has failed on the way

loginVars == <<otp, qr, waits, line, temp, lapsed, login, persisted, beside, plan, failed>>

LoginScenario ==                  \* at first one login is under way, or none
  {case \in [kinds : [LoginTasks -> LoginKinds], otp : {"none", "code", "twofa"},
             qr : {"none", "waiting", "twofa"}, fail : BOOLEAN] :
     case.otp = "none" \/ case.qr = "none"}
OtpEntry == [cli : Clients, twofa : BOOLEAN, old : BOOLEAN]
QrEntry == [authorized : BOOLEAN, twofa : BOOLEAN, error : {"none", "failed", "expired"},
            me : BOOLEAN, code : Nat, wait : Nat, old : BOOLEAN]
ASSUME LoginAssumption ==
  /\ LoginScenarios \subseteq LoginScenario
  /\ IsFiniteSet(LoginTasks) /\ Origin \notin LoginTasks
  /\ NoLogin \notin Clients \union OtpEntry \union QrEntry

Rests == [pc |-> "off", cli |-> NoLogin, old |-> FALSE]
Does(t) == plan.kinds[t]
AtWork == {t \in LoginTasks : login[t].pc \notin {"off", "done"}}

LoginsInit ==
  /\ plan \in LoginScenarios
  /\ otp = IF plan.otp = "none" THEN NoLogin
           ELSE [OtpLogin(Origin) EXCEPT !.twofa = plan.otp = "twofa"]
  /\ qr = [c \in Clients |->
       IF c # Origin \/ plan.qr = "none" THEN NoLogin
       ELSE IF plan.qr = "waiting" THEN QrLogin
       ELSE [QrLogin EXCEPT !.twofa = TRUE, !.wait = 0]]
  /\ waits = IF plan.qr = "waiting" THEN {<<Origin, 1>>} ELSE {}
  /\ line = IF plan.otp = "none" /\ plan.qr = "none" THEN {} ELSE {Origin}
  /\ temp = IF plan.qr = "none" THEN {} ELSE {Origin}
  /\ login = [t \in LoginTasks |-> Rests]
  /\ lapsed = {} /\ persisted = {} /\ beside = {} /\ failed = FALSE

Goes(t, pc) == login' = [login EXCEPT ![t].pc = pc]
Fails(t) == plan.fail /\ ~failed /\ failed' = TRUE /\ Goes(t, "done")

------------------------------------------------------------------------------
(* A request enters and looks up its login; a sweep takes a snapshot.        *)

Known == {c \in Clients : qr[c] # NoLogin}
Pending == IF otp = NoLogin THEN NoLogin ELSE otp.cli

Requested(t) ==
  CASE Does(t) \in {"send", "cancel"} -> [Rests EXCEPT !.pc = "drop"]
    [] Does(t) \in {"code", "pass"} ->
         [Rests EXCEPT !.pc = IF otp = NoLogin THEN "done" ELSE "sign", !.cli = Pending]
    [] Does(t) = "qr_start" -> [Rests EXCEPT !.pc = "connect"]
    [] Does(t) = "sweep" ->
         [pc |-> "sweep", cli |-> Pending, old |-> otp # NoLogin /\ otp.old]

Enter(t) ==
  /\ login[t].pc = "off" \/ (Does(t) = "sweep" /\ login[t].pc = "done")
  /\ \/ /\ Does(t) \in {"send", "code", "pass", "cancel", "qr_start"}
        /\ login' = [login EXCEPT ![t] = Requested(t)]
     \/ /\ Does(t) = "sweep" /\ \/ otp # NoLogin /\ otp.old
                                \/ \E c \in Known : qr[c].old
        /\ login' = [login EXCEPT ![t] = Requested(t)]
     \/ /\ Does(t) \in {"qr_again", "qr_poll", "qr_pass", "qr_cancel"}
        /\ \E c \in Known : login' = [login EXCEPT ![t] = [Rests EXCEPT !.cli = c, !.pc =
             CASE Does(t) = "qr_again" -> "unwait"
               [] Does(t) = "qr_poll" -> IF qr[c].authorized THEN "final" ELSE "off"
               [] Does(t) = "qr_pass" -> IF qr[c].twofa THEN "sign" ELSE "done"
               [] Does(t) = "qr_cancel" -> "undo"]]
  /\ beside' = beside \union {{t, u} : u \in AtWork}
  /\ UNCHANGED <<otp, qr, waits, line, temp, lapsed, persisted, plan, failed>>

------------------------------------------------------------------------------
(* Logins by code.  Whatever is pending for the phone is taken out and its   *)
(* client disconnected.                                                      *)

AfterDrop(t) ==
  CASE Does(t) = "send" -> "connect"
    [] login[t].pc = "store" -> "persist"
    [] OTHER -> "done"

Drop(t) ==
  /\ login[t].pc \in {"drop", "store"}
  /\ otp' = NoLogin
  /\ line' = line \ {Pending}
  /\ Goes(t, AfterDrop(t))
  /\ UNCHANGED <<qr, waits, temp, lapsed, persisted, beside, plan, failed>>

Connect(t) ==
  /\ login[t].pc = "connect"
  /\ \/ line' = line \union {t} /\ Goes(t, "request") /\ UNCHANGED failed
     \/ Fails(t) /\ UNCHANGED line
  /\ temp' = IF Does(t) = "qr_start" THEN temp \union {t} ELSE temp
  /\ UNCHANGED <<otp, qr, waits, lapsed, persisted, beside, plan>>

(* The code is requested; on a failure the client stays connected, except    *)
(* that a QR login is undone unless it was cut off by its time limit.        *)
Request(t) ==
  /\ login[t].pc = "request"
  /\ \/ /\ IF Does(t) = "send" THEN otp' = OtpLogin(t) /\ UNCHANGED <<qr, waits>>
           ELSE /\ qr' = [qr EXCEPT ![t] = QrLogin] /\ waits' = waits \union {<<t, 1>>}
                /\ UNCHANGED otp
        /\ Goes(t, "done")
        /\ UNCHANGED <<line, temp, failed>>
     \/ Fails(t) /\ UNCHANGED <<otp, qr, waits, line, temp>>
     \/ /\ Does(t) = "qr_start" /\ Fails(t)
        /\ line' = line \ {t} /\ temp' = temp \ {t}
        /\ UNCHANGED <<otp, qr, waits>>
  /\ UNCHANGED <<lapsed, persisted, beside, plan>>

(* sign_in on the client the request has found: accepted, a password is      *)
(* needed, or an error, always so when it has been disconnected.  A wrong     *)
(* password and a time limit keep the login; any other error drops it.       *)
Sign(t) ==
  /\ login[t].pc = "sign" /\ Does(t) \in {"code", "pass"}
  /\ \/ /\ login[t].cli \in line
        /\ Goes(t, "store") /\ UNCHANGED otp
     \/ /\ login[t].cli \in line /\ Does(t) = "code"
        /\ Goes(t, "done")
        /\ otp' = IF otp # NoLogin /\ otp.cli = login[t].cli THEN [otp EXCEPT !.twofa = TRUE]
                  ELSE otp
     \/ Goes(t, "done") /\ UNCHANGED otp
     \/ Does(t) = "code" /\ Goes(t, "drop") /\ UNCHANGED otp
  /\ UNCHANGED <<qr, waits, line, temp, lapsed, persisted, beside, plan, failed>>

(* _persist_account; for a QR login, when it has been moved to its account.  *)
Persist(t) ==
  /\ login[t].pc = "persist"
  /\ persisted' = persisted \union {<<login[t].cli, t>>}
  /\ Goes(t, "done")
  /\ UNCHANGED <<otp, qr, waits, line, temp, lapsed, beside, plan, failed>>

------------------------------------------------------------------------------
(* Logins by QR code. *)

(* The task that waits ends with a scan, with the end of the code, or with   *)
(* an error; it writes to the login even when that has been taken out.       *)
Scan(c, n) ==
  /\ <<c, n>> \in waits /\ c \in line
  /\ waits' = waits \ {<<c, n>>}
  /\ IF qr[c] = NoLogin THEN UNCHANGED qr
     ELSE \/ \E me \in BOOLEAN :
               /\ plan.fail \/ me
               /\ qr' = [qr EXCEPT ![c].authorized = TRUE, ![c].me = @ \/ me,
                                   ![c].error = IF me THEN @ ELSE "failed"]
          \/ qr' = [qr EXCEPT ![c].twofa = TRUE]
          \/ plan.fail /\ qr' = [qr EXCEPT ![c].error = "failed"]
  /\ UNCHANGED <<otp, line, temp, lapsed, login, persisted, beside, plan, failed>>

Lapse(c, n) ==
  /\ <<c, n>> \in waits
  /\ waits' = waits \ {<<c, n>>} /\ lapsed' = lapsed \union {<<c, n>>}
  /\ qr' = IF qr[c] = NoLogin THEN qr ELSE [qr EXCEPT ![c].error = "expired"]
  /\ UNCHANGED <<otp, line, temp, login, persisted, beside, plan, failed>>

\* Variant: the task that waits for the old code is left alone.
UnwaitNothing(t) ==
  /\ login[t].pc = "unwait" /\ Goes(t, "renew")
  /\ UNCHANGED <<otp, qr, waits, line, temp, lapsed, persisted, beside, plan, failed>>

(* The waiting task is cancelled before a new code is asked for: the one the *)
(* login knows of.                                                           *)
Unwait(t) ==
  /\ login[t].pc = "unwait"
  /\ LET c == login[t].cli IN
     waits' = IF qr[c] = NoLogin THEN waits ELSE waits \ {<<c, qr[c].wait>>}
  /\ Goes(t, "renew")
  /\ UNCHANGED <<otp, qr, line, temp, lapsed, persisted, beside, plan, failed>>

Renew(t) ==
  /\ login[t].pc = "renew"
  /\ LET c == login[t].cli IN
     \/ /\ c \in line /\ qr[c] # NoLogin
        /\ qr' = [qr EXCEPT ![c].code = @ + 1, ![c].wait = qr[c].code + 1,
                            ![c].error = "none", ![c].old = FALSE]
        /\ waits' = waits \union {<<c, qr[c].code + 1>>}
        /\ Goes(t, "done") /\ UNCHANGED failed
     \/ /\ c \notin line \/ qr[c] = NoLogin
        /\ Goes(t, "done") /\ UNCHANGED <<qr, waits, failed>>
     \/ Fails(t) /\ UNCHANGED <<qr, waits>>
  /\ UNCHANGED <<otp, line, temp, lapsed, persisted, beside, plan>>

(* The password of a QR login. *)
SignQr(t) ==
  /\ login[t].pc = "sign" /\ Does(t) = "qr_pass"
  /\ LET c == login[t].cli IN
     \/ /\ c \in line
        /\ qr' = IF qr[c] = NoLogin THEN qr
                 ELSE [qr EXCEPT ![c].authorized = TRUE, ![c].me = TRUE]
        /\ Goes(t, "final")
     \/ Goes(t, "done") /\ UNCHANGED qr
  /\ UNCHANGED <<otp, waits, line, temp, lapsed, persisted, beside, plan, failed>>

(* qr_finalize: the login must still be there, and the user known.           *)
Finalize(t) ==
  /\ login[t].pc = "final"
  /\ LET e == qr[login[t].cli] IN
     Goes(t, IF e # NoLogin /\ e.authorized /\ e.me THEN "move" ELSE "done")
  /\ UNCHANGED <<otp, qr, waits, line, temp, lapsed, persisted, beside, plan, failed>>

(* The login is taken out once: its task ends, its client is disconnected    *)
(* and its file moved to the account or removed.                             *)
TakeOut(c) ==
  /\ qr' = [qr EXCEPT ![c] = NoLogin]
  /\ waits' = waits \ {<<c, qr[c].wait>>}
  /\ line' = line \ {c} /\ temp' = temp \ {c}

Move(t) ==
  /\ login[t].pc = "move"
  /\ IF qr[login[t].cli] = NoLogin
     THEN Goes(t, "done") /\ UNCHANGED <<qr, waits, line, temp>>
     ELSE TakeOut(login[t].cli) /\ Goes(t, "persist")
  /\ UNCHANGED <<otp, lapsed, persisted, beside, plan, failed>>

Undo(t) ==
  /\ login[t].pc = "undo"
  /\ IF qr[login[t].cli] = NoLogin THEN UNCHANGED <<qr, waits, line, temp>>
     ELSE TakeOut(login[t].cli)
  /\ Goes(t, "done")
  /\ UNCHANGED <<otp, lapsed, persisted, beside, plan, failed>>

------------------------------------------------------------------------------
(* cleanup_pending.  Other logins come first in the snapshot, so that the    *)
(* one under the phone may be another when it is taken out.                  *)

\* Variant: what is pending for the phone is dropped, old or not.
SweepYoung(t) ==
  /\ login[t].pc = "sweep" /\ Goes(t, "sweepqr")
  /\ otp' = NoLogin /\ line' = line \ {Pending}
  /\ UNCHANGED <<qr, waits, temp, lapsed, persisted, beside, plan, failed>>

Sweep(t) ==
  /\ login[t].pc = "sweep"
  /\ login' = [login EXCEPT ![t] = [Rests EXCEPT !.pc = "sweepqr"]]
  /\ IF login[t].old
     THEN otp' = NoLogin /\ line' = line \ {Pending}
     ELSE UNCHANGED <<otp, line>>
  /\ UNCHANGED <<qr, waits, temp, lapsed, persisted, beside, plan, failed>>

SweepQr(t) ==
  /\ login[t].pc = "sweepqr"
  /\ \/ /\ \E c \in Known : qr[c].old /\ TakeOut(c)
        /\ UNCHANGED login
     \/ /\ \A c \in Known : ~qr[c].old
        /\ Goes(t, "done") /\ UNCHANGED <<qr, waits, line, temp>>
  /\ UNCHANGED <<otp, lapsed, persisted, beside, plan, failed>>

Aged ==
  /\ \/ otp # NoLogin /\ otp' = [otp EXCEPT !.old = TRUE] /\ UNCHANGED qr
     \/ \E c \in Known : qr' = [qr EXCEPT ![c].old = TRUE] /\ UNCHANGED otp
  /\ UNCHANGED <<waits, line, temp, lapsed, login, persisted, beside, plan, failed>>

------------------------------------------------------------------------------
LoginsProgress ==
  \E t \in LoginTasks :
    \/ Drop(t) \/ Connect(t) \/ Request(t) \/ Sign(t) \/ Persist(t)
    \/ Unwait(t) \/ Renew(t) \/ SignQr(t) \/ Finalize(t) \/ Move(t) \/ Undo(t)
    \/ Sweep(t) \/ SweepQr(t)
    \/ Does(t) = "sweep" /\ Enter(t)

LoginsEvent ==
  \/ \E t \in LoginTasks : Does(t) # "sweep" /\ Enter(t)
  \/ \E c \in Clients, n \in 1..(1 + Cardinality(LoginTasks)) : Scan(c, n) \/ Lapse(c, n)
  \/ Aged

LoginsNext == LoginsProgress \/ LoginsEvent

LoginsSpec == LoginsInit /\ [][LoginsNext]_loginVars /\ WF_loginVars(LoginsProgress)
==============================================================================
