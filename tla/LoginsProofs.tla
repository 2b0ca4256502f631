----------------------------- MODULE LoginsProofs -----------------------------
(***************************************************************************)
(* LoginsInv holds in every reachable state, for any requests and          *)
(* scenarios. First what each step changes (...Step).  A client belongs to *)
(* one login, whose request is over when others can find it: ByCode and    *)
(* ByQr never end (OriginsStay).  A step moves one request at most         *)
(* (OneGoes), does one thing to the clients (ClientWays) and one to the QR *)
(* logins (QrWays); from these follows each part of the invariant          *)
(* (...Kept).                                                              *)
(***************************************************************************)
EXTENDS LoginsProperties, TLAPS

-------------------------------------------------------------------------------
(* Requests and their kinds. *)

\* The steps of each kind, one by one.
LEMMA StepsAre ==
  /\ LoginStepsOf("none") = {"off"}
  /\ LoginStepsOf("send") = {"off", "drop", "connect", "request", "done"}
  /\ LoginStepsOf("code") = {"off", "sign", "store", "persist", "drop", "done"}
  /\ LoginStepsOf("pass") = {"off", "sign", "store", "persist", "done"}
  /\ LoginStepsOf("cancel") = {"off", "drop", "done"}
  /\ LoginStepsOf("qr_start") = {"off", "connect", "request", "done"}
  /\ LoginStepsOf("qr_again") = {"off", "unwait", "renew", "done"}
  /\ LoginStepsOf("qr_poll") = {"off", "final", "move", "persist", "done"}
  /\ LoginStepsOf("qr_pass") = {"off", "sign", "final", "move", "persist", "done"}
  /\ LoginStepsOf("qr_cancel") = {"off", "undo", "done"}
  /\ LoginStepsOf("sweep") = {"off", "sweep", "sweepqr", "done"}
<1>1. /\ LoginStepsOf("none") = {"off"}
      /\ LoginStepsOf("send") = {"off", "drop", "connect", "request", "done"}
      /\ LoginStepsOf("code") = {"off", "sign", "store", "persist", "drop", "done"}
      /\ LoginStepsOf("pass") = {"off", "sign", "store", "persist", "done"}
  BY DEF LoginStepsOf
<1>2. /\ LoginStepsOf("cancel") = {"off", "drop", "done"}
      /\ LoginStepsOf("qr_start") = {"off", "connect", "request", "done"}
      /\ LoginStepsOf("qr_again") = {"off", "unwait", "renew", "done"}
      /\ LoginStepsOf("qr_poll") = {"off", "final", "move", "persist", "done"}
  BY DEF LoginStepsOf
<1>3. /\ LoginStepsOf("qr_pass") = {"off", "sign", "final", "move", "persist", "done"}
      /\ LoginStepsOf("qr_cancel") = {"off", "undo", "done"}
      /\ LoginStepsOf("sweep") = {"off", "sweep", "sweepqr", "done"}
  BY DEF LoginStepsOf
<1>4. QED
  BY <1>1, <1>2, <1>3

\* Which kinds of requests come to a step.
LEMMA KindsAtSteps ==
  ASSUME LoginsTypeOK, NEW t \in LoginTasks
  PROVE  /\ Does(t) \in LoginKinds /\ login[t].pc \in LoginStepsOf(Does(t))
         /\ login[t].pc = "drop" => Does(t) \in {"send", "code", "cancel"}
         /\ login[t].pc = "store" => Does(t) \in {"code", "pass"}
         /\ login[t].pc \in {"connect", "request"} => Does(t) \in {"send", "qr_start"}
         /\ login[t].pc = "sign" => Does(t) \in {"code", "pass", "qr_pass"}
         /\ login[t].pc = "persist" => Does(t) \in {"code", "pass", "qr_poll", "qr_pass"}
         /\ login[t].pc \in {"unwait", "renew"} => Does(t) = "qr_again"
         /\ login[t].pc \in {"final", "move"} => Does(t) \in {"qr_poll", "qr_pass"}
         /\ login[t].pc = "undo" => Does(t) = "qr_cancel"
         /\ login[t].pc \in {"sweep", "sweepqr"} => Does(t) = "sweep"
<1>1. Does(t) \in LoginKinds
  BY LoginAssumption DEF LoginsTypeOK, LoginScenario, Does
<1>2. login[t].pc \in LoginStepsOf(Does(t))
  BY DEF LoginsTypeOK
<1>3. CASE Does(t) = "none"
  <2>1. login[t].pc \in {"off"}
    BY <1>2, <1>3, StepsAre
  <2>2. QED
    BY <1>1, <1>2, <1>3, <2>1
<1>4. CASE Does(t) = "send"
  <2>1. login[t].pc \in {"off", "drop", "connect", "request", "done"}
    BY <1>2, <1>4, StepsAre
  <2>2. QED
    BY <1>1, <1>2, <1>4, <2>1
<1>5. CASE Does(t) = "code"
  <2>1. login[t].pc \in {"off", "sign", "store", "persist", "drop", "done"}
    BY <1>2, <1>5, StepsAre
  <2>2. QED
    BY <1>1, <1>2, <1>5, <2>1
<1>6. CASE Does(t) = "pass"
  <2>1. login[t].pc \in {"off", "sign", "store", "persist", "done"}
    BY <1>2, <1>6, StepsAre
  <2>2. QED
    BY <1>1, <1>2, <1>6, <2>1
<1>7. CASE Does(t) = "cancel"
  <2>1. login[t].pc \in {"off", "drop", "done"}
    BY <1>2, <1>7, StepsAre
  <2>2. QED
    BY <1>1, <1>2, <1>7, <2>1
<1>8. CASE Does(t) = "qr_start"
  <2>1. login[t].pc \in {"off", "connect", "request", "done"}
    BY <1>2, <1>8, StepsAre
  <2>2. QED
    BY <1>1, <1>2, <1>8, <2>1
<1>9. CASE Does(t) = "qr_again"
  <2>1. login[t].pc \in {"off", "unwait", "renew", "done"}
    BY <1>2, <1>9, StepsAre
  <2>2. QED
    BY <1>1, <1>2, <1>9, <2>1
<1>10. CASE Does(t) = "qr_poll"
  <2>1. login[t].pc \in {"off", "final", "move", "persist", "done"}
    BY <1>2, <1>10, StepsAre
  <2>2. QED
    BY <1>1, <1>2, <1>10, <2>1
<1>11. CASE Does(t) = "qr_pass"
  <2>1. login[t].pc \in {"off", "sign", "final", "move", "persist", "done"}
    BY <1>2, <1>11, StepsAre
  <2>2. QED
    BY <1>1, <1>2, <1>11, <2>1
<1>12. CASE Does(t) = "qr_cancel"
  <2>1. login[t].pc \in {"off", "undo", "done"}
    BY <1>2, <1>12, StepsAre
  <2>2. QED
    BY <1>1, <1>2, <1>12, <2>1
<1>13. CASE Does(t) = "sweep"
  <2>1. login[t].pc \in {"off", "sweep", "sweepqr", "done"}
    BY <1>2, <1>13, StepsAre
  <2>2. QED
    BY <1>1, <1>2, <1>13, <2>1
<1>14. QED
  BY <1>1, <1>3, <1>4, <1>5, <1>6, <1>7, <1>8, <1>9, <1>10, <1>11, <1>12, <1>13 DEF LoginKinds

\* Every step is a step of some kind.
LEMMA StepsOfKinds ==
  ASSUME NEW kind \in LoginKinds, NEW pc \in LoginStepsOf(kind)
  PROVE  pc \in LoginSteps
BY DEF LoginSteps

\* The entries and the places are not NoLogin.
LEMMA Entries ==
  /\ \A e \in OtpEntry \union QrEntry \union Clients : e # NoLogin
  /\ \A t \in LoginTasks : t # Origin /\ t \in Clients /\ t # NoLogin
  /\ \A c \in Clients : OtpLogin(c) \in OtpEntry /\ OtpLogin(c).cli = c
  /\ QrLogin \in QrEntry /\ QrLogin # NoLogin
  /\ QrLogin.code = 1 /\ QrLogin.wait = 1 /\ QrLogin.error = "none"
<1>1. /\ \A e \in OtpEntry \union QrEntry \union Clients : e # NoLogin
      /\ \A t \in LoginTasks : t # Origin /\ t \in Clients
  BY LoginAssumption DEF Clients
<1>2. \A c \in Clients : OtpLogin(c) \in OtpEntry /\ OtpLogin(c).cli = c
  BY DEF OtpLogin, OtpEntry
<1>3. QrLogin \in QrEntry
  BY DEF QrLogin, QrEntry
<1>4. QrLogin.code = 1 /\ QrLogin.wait = 1 /\ QrLogin.error = "none"
  BY DEF QrLogin
<1>5. QED
  BY <1>1, <1>2, <1>3, <1>4

\* What is pending for the phone.
LEMMA PendingIs ==
  ASSUME LoginsTypeOK
  PROVE  /\ otp = NoLogin => Pending = NoLogin
         /\ otp # NoLogin => otp \in OtpEntry /\ Pending = otp.cli /\ Pending \in Clients
         /\ Pending \in Clients \union {NoLogin}
         /\ Pending = NoLogin => otp = NoLogin
BY Entries DEF LoginsTypeOK, Pending, OtpEntry

-------------------------------------------------------------------------------
(* What the steps change. *)
OtherLogins(t) == \A u \in LoginTasks \ {t} : login'[u] = login[u]
Went(t, pc) ==
  /\ login' \in [LoginTasks -> LoginPlace] /\ OtherLogins(t) /\ pc \in LoginStepsOf(Does(t))
  /\ login'[t].pc = pc /\ login'[t].cli = login[t].cli
AllQr == qr' \in [Clients -> QrEntry \union {NoLogin}]
OtherQr(c) == \A d \in Clients \ {c} : qr'[d] = qr[d]

\* A request that goes on to another of its steps.
LEMMA Goings ==
  ASSUME LoginsTypeOK, NEW t \in LoginTasks, NEW pc \in LoginStepsOf(Does(t)), Goes(t, pc)
  PROVE  Went(t, pc)
<1> DEFINE new == [login[t] EXCEPT !.pc = pc]
<1>1. login[t] \in LoginPlace /\ login' = [login EXCEPT ![t] = new]
  BY DEF LoginsTypeOK, Goes
<1>2. pc \in LoginSteps
  BY KindsAtSteps, StepsOfKinds
<1>3. new \in LoginPlace /\ new.pc = pc /\ new.cli = login[t].cli
  BY <1>1, <1>2 DEF LoginPlace
<1> HIDE DEF new
<1>4. QED
  BY <1>1, <1>3 DEF Went, OtherLogins, LoginsTypeOK

\* A request is put at a new place.
LEMMA Placing ==
  ASSUME LoginsTypeOK, NEW t \in LoginTasks, NEW new \in LoginPlace,
         login' = [login EXCEPT ![t] = new]
  PROVE  /\ login' \in [LoginTasks -> LoginPlace] /\ OtherLogins(t) /\ login'[t] = new
BY DEF OtherLogins, LoginsTypeOK

\* The entry of a QR login is replaced.
LEMMA NewQr ==
  ASSUME LoginsTypeOK, NEW c \in Clients, NEW new \in QrEntry \union {NoLogin},
         qr' = [qr EXCEPT ![c] = new]
  PROVE  AllQr /\ OtherQr(c) /\ qr'[c] = new
BY DEF AllQr, OtherQr, LoginsTypeOK

\* A QR login is taken out.
LEMMA TakingOut ==
  ASSUME LoginsTypeOK, NEW c \in Clients, TakeOut(c)
  PROVE  /\ AllQr /\ OtherQr(c) /\ qr'[c] = NoLogin
         /\ waits' = waits \ {<<c, qr[c].wait>>} /\ line' = line \ {c} /\ temp' = temp \ {c}
BY NewQr DEF TakeOut

\* A client that is known has an entry.
LEMMA KnownIs ==
  ASSUME LoginsTypeOK
  PROVE  \A c \in Clients : c \in Known <=> qr[c] # NoLogin /\ qr[c] \in QrEntry
BY DEF Known, LoginsTypeOK

-------------------------------------------------------------------------------
(* The steps, one by one. *)

\* A request arrives.
LEMMA EnterStep ==
  ASSUME LoginsTypeOK, NEW t \in LoginTasks, Enter(t)
  PROVE  /\ login' \in [LoginTasks -> LoginPlace] /\ OtherLogins(t)
         /\ login[t].pc = "off" \/ (login[t].pc = "done" /\ Does(t) = "sweep")
         /\ login'[t].pc \in LoginStepsOf(Does(t))
         /\ login'[t].pc \in {"off", "drop", "sign", "done", "connect", "sweep", "unwait",
                              "final", "undo"}
         /\ login'[t].pc = "connect" => Does(t) = "qr_start"
         /\ login'[t].pc = "sign" /\ Does(t) \in {"code", "pass"} =>
              otp # NoLogin /\ login'[t].cli = otp.cli
         /\ Does(t) \in {"qr_again", "qr_poll", "qr_pass", "qr_cancel"} =>
              login'[t].cli \in Known
         /\ beside' = beside \union {{t, u} : u \in AtWork}
         /\ UNCHANGED <<otp, qr, waits, line, temp, lapsed, persisted, plan, failed>>
<1> DEFINE new == login'[t]
<1>1. login[t].pc = "off" \/ (login[t].pc = "done" /\ Does(t) = "sweep")
  BY DEF Enter
<1>2. /\ beside' = beside \union {{t, u} : u \in AtWork}
      /\ UNCHANGED <<otp, qr, waits, line, temp, lapsed, persisted, plan, failed>>
  BY DEF Enter
<1>3. Pending \in Clients \union {NoLogin}
  BY PendingIs
<1>4. Rests.cli = NoLogin /\ Rests.old = FALSE
  BY DEF Rests
<1> DEFINE Good(place) ==
      /\ place \in LoginPlace /\ place.pc \in LoginStepsOf(Does(t))
      /\ place.pc \in {"off", "drop", "sign", "done", "connect", "sweep", "unwait", "final", "undo"}
      /\ place.pc = "connect" => Does(t) = "qr_start"
      /\ place.pc = "sign" /\ Does(t) \in {"code", "pass"} => otp # NoLogin /\ place.cli = otp.cli
      /\ Does(t) \in {"qr_again", "qr_poll", "qr_pass", "qr_cancel"} => place.cli \in Known
<1>5. Does(t) \in LoginKinds
  BY KindsAtSteps
<1>6. \A pc \in LoginStepsOf(Does(t)) : pc \in LoginSteps
  BY <1>5, StepsOfKinds
<1>7. \A pc, c, o : (pc \in LoginSteps /\ c \in Clients \union {NoLogin} /\ o \in BOOLEAN)
                      => [pc |-> pc, cli |-> c, old |-> o] \in LoginPlace
  BY DEF LoginPlace
<1>8. \E place : Good(place) /\ login' = [login EXCEPT ![t] = place]
  <2>1. CASE Does(t) \in {"send", "cancel"}
    <3> DEFINE place == [pc |-> "drop", cli |-> NoLogin, old |-> FALSE]
    <3>1. Requested(t) = place
      BY <2>1 DEF Requested, Rests
    <3>2. login' = [login EXCEPT ![t] = Requested(t)]
      BY <2>1 DEF Enter
    <3>3. place \in LoginPlace /\ "drop" \in LoginStepsOf(Does(t))
      BY <1>6, <1>7, <2>1, StepsAre
    <3>4. Good(place)
      BY <2>1, <3>3
    <3>5. QED
      BY <3>1, <3>2, <3>4
  <2>2. CASE Does(t) \in {"code", "pass"}
    <3> DEFINE pc == IF otp = NoLogin THEN "done" ELSE "sign"
               place == [pc |-> pc, cli |-> Pending, old |-> FALSE]
    <3>1. Requested(t) = place
      BY <2>2 DEF Requested, Rests
    <3>2. login' = [login EXCEPT ![t] = Requested(t)]
      BY <2>2 DEF Enter
    <3>3. place \in LoginPlace /\ pc \in LoginStepsOf(Does(t))
      BY <1>3, <1>6, <1>7, <2>2, StepsAre
    <3>4. Good(place)
      BY <2>2, <3>3, PendingIs
    <3>5. QED
      BY <3>1, <3>2, <3>4
  <2>3. CASE Does(t) = "qr_start"
    <3> DEFINE place == [pc |-> "connect", cli |-> NoLogin, old |-> FALSE]
    <3>1. Requested(t) = place
      BY <2>3 DEF Requested, Rests
    <3>2. login' = [login EXCEPT ![t] = Requested(t)]
      BY <2>3 DEF Enter
    <3>3. place \in LoginPlace /\ "connect" \in LoginStepsOf(Does(t))
      BY <1>6, <1>7, <2>3, StepsAre
    <3>4. Good(place)
      BY <2>3, <3>3
    <3>5. QED
      BY <3>1, <3>2, <3>4
  <2>4. CASE Does(t) = "sweep"
    <3> DEFINE o == otp # NoLogin /\ otp.old
               place == [pc |-> "sweep", cli |-> Pending, old |-> o]
    <3>1. Requested(t) = place
      BY <2>4 DEF Requested
    <3>2. login' = [login EXCEPT ![t] = Requested(t)]
      BY <2>4 DEF Enter
    <3>3. o \in BOOLEAN
      OBVIOUS
    <3> HIDE DEF o
    <3>4. place \in LoginPlace /\ "sweep" \in LoginStepsOf(Does(t))
      BY <1>3, <1>6, <1>7, <2>4, <3>3, StepsAre
    <3>5. Good(place)
      BY <2>4, <3>4
    <3>6. QED
      BY <3>1, <3>2, <3>5
  <2>5. ASSUME NEW c \in Known, NEW pc \in LoginStepsOf(Does(t)) \ {"persist", "renew", "move"},
               Does(t) \in {"qr_again", "qr_poll", "qr_pass", "qr_cancel"},
               login' = [login EXCEPT ![t] = [Rests EXCEPT !.cli = c, !.pc = pc]]
        PROVE  \E place : Good(place) /\ login' = [login EXCEPT ![t] = place]
    <3> DEFINE place == [Rests EXCEPT !.cli = c, !.pc = pc]
    <3>1. place.pc = pc /\ place.cli = c
      BY DEF Rests
    <3>2. place \in LoginPlace
      BY <1>6 DEF Known, Rests, LoginPlace
    <3> HIDE DEF place
    <3>3. pc \in {"off", "unwait", "done", "final", "sign", "undo"}
      BY <2>5, StepsAre
    <3>4. Good(place)
      BY <2>5, <3>1, <3>2, <3>3
    <3>5. QED
      BY <2>5, <3>4 DEF place
  <2>6. CASE Does(t) = "qr_again"
    <3>1. PICK c \in Known : login' = [login EXCEPT ![t] = [Rests EXCEPT !.cli = c, !.pc = "unwait"]]
      BY <2>6 DEF Enter
    <3>2. QED
      BY <2>5, <2>6, <3>1, StepsAre
  <2>7. CASE Does(t) = "qr_poll"
    <3>1. PICK c \in Known : login' = [login EXCEPT ![t] = [Rests EXCEPT !.cli = c,
                               !.pc = IF qr[c].authorized THEN "final" ELSE "off"]]
      BY <2>7 DEF Enter
    <3> DEFINE pc == IF qr[c].authorized THEN "final" ELSE "off"
    <3>2. pc \in LoginStepsOf(Does(t)) \ {"persist", "renew", "move"}
      BY <2>7, StepsAre
    <3>3. login' = [login EXCEPT ![t] = [Rests EXCEPT !.cli = c, !.pc = pc]]
      BY <3>1
    <3> HIDE DEF pc
    <3>4. QED
      BY <2>5, <2>7, <3>2, <3>3
  <2>8. CASE Does(t) = "qr_pass"
    <3>1. PICK c \in Known : login' = [login EXCEPT ![t] = [Rests EXCEPT !.cli = c,
                               !.pc = IF qr[c].twofa THEN "sign" ELSE "done"]]
      BY <2>8 DEF Enter
    <3> DEFINE pc == IF qr[c].twofa THEN "sign" ELSE "done"
    <3>2. pc \in LoginStepsOf(Does(t)) \ {"persist", "renew", "move"}
      BY <2>8, StepsAre
    <3>3. login' = [login EXCEPT ![t] = [Rests EXCEPT !.cli = c, !.pc = pc]]
      BY <3>1
    <3> HIDE DEF pc
    <3>4. QED
      BY <2>5, <2>8, <3>2, <3>3
  <2>9. CASE Does(t) = "qr_cancel"
    <3>1. PICK c \in Known : login' = [login EXCEPT ![t] = [Rests EXCEPT !.cli = c, !.pc = "undo"]]
      BY <2>9 DEF Enter
    <3>2. QED
      BY <2>5, <2>9, <3>1, StepsAre
  <2>10. CASE Does(t) = "none"
    BY <2>10 DEF Enter
  <2>11. QED
    BY <1>5, <2>1, <2>2, <2>3, <2>4, <2>6, <2>7, <2>8, <2>9, <2>10 DEF LoginKinds
<1>9. PICK place : Good(place) /\ login' = [login EXCEPT ![t] = place]
  BY <1>8
<1>10. login' \in [LoginTasks -> LoginPlace] /\ OtherLogins(t) /\ login'[t] = place
  BY <1>9, Placing
<1>11. QED
  BY <1>1, <1>2, <1>9, <1>10

\* What is pending for the phone is dropped.
LEMMA DropStep ==
  ASSUME LoginsTypeOK, NEW t \in LoginTasks, Drop(t)
  PROVE  /\ login[t].pc \in {"drop", "store"} /\ otp' = NoLogin /\ line' = line \ {Pending}
         /\ \/ Does(t) = "send" /\ Went(t, "connect")
            \/ login[t].pc = "store" /\ Went(t, "persist")
            \/ Does(t) # "send" /\ Went(t, "done")
         /\ UNCHANGED <<qr, waits, temp, lapsed, persisted, beside, plan, failed>>
<1>1. /\ login[t].pc \in {"drop", "store"} /\ otp' = NoLogin /\ line' = line \ {Pending}
      /\ Goes(t, AfterDrop(t))
      /\ UNCHANGED <<qr, waits, temp, lapsed, persisted, beside, plan, failed>>
  BY DEF Drop
<1>2. Does(t) \in {"send", "code", "cancel", "pass"}
      /\ (login[t].pc = "store" => Does(t) \in {"code", "pass"})
  BY <1>1, KindsAtSteps
<1>3. CASE Does(t) = "send"
  <2>1. AfterDrop(t) = "connect"
    BY <1>2, <1>3 DEF AfterDrop
  <2>2. "connect" \in LoginStepsOf(Does(t))
    BY <1>3, StepsAre
  <2>3. QED
    BY <1>1, <1>3, <2>1, <2>2, Goings
<1>4. CASE Does(t) # "send" /\ login[t].pc = "store"
  <2>1. AfterDrop(t) = "persist"
    BY <1>4 DEF AfterDrop
  <2>2. "persist" \in LoginStepsOf(Does(t))
    BY <1>2, <1>4, StepsAre
  <2>3. QED
    BY <1>1, <1>4, <2>1, <2>2, Goings
<1>5. CASE Does(t) # "send" /\ login[t].pc # "store"
  <2>1. AfterDrop(t) = "done"
    BY <1>5 DEF AfterDrop
  <2>2. "done" \in LoginStepsOf(Does(t))
    BY <1>2, <1>5, StepsAre
  <2>3. QED
    BY <1>1, <1>5, <2>1, <2>2, Goings
<1>6. QED
  BY <1>3, <1>4, <1>5

\* A temporary client connects.
LEMMA ConnectStep ==
  ASSUME LoginsTypeOK, NEW t \in LoginTasks, Connect(t)
  PROVE  /\ login[t].pc = "connect" /\ Does(t) \in {"send", "qr_start"}
         /\ \/ line' = line \union {t} /\ Went(t, "request") /\ failed' = failed
            \/ failed' = TRUE /\ Went(t, "done") /\ line' = line
         /\ \/ Does(t) = "qr_start" /\ temp' = temp \union {t}
            \/ Does(t) = "send" /\ temp' = temp
         /\ UNCHANGED <<otp, qr, waits, lapsed, persisted, beside, plan>>
<1>1. /\ login[t].pc = "connect"
      /\ \/ line' = line \union {t} /\ Goes(t, "request") /\ failed' = failed
         \/ failed' = TRUE /\ Goes(t, "done") /\ line' = line
      /\ temp' = IF Does(t) = "qr_start" THEN temp \union {t} ELSE temp
      /\ UNCHANGED <<otp, qr, waits, lapsed, persisted, beside, plan>>
  BY DEF Connect, Fails
<1>2. Does(t) \in {"send", "qr_start"}
  BY <1>1, KindsAtSteps
<1>3. "request" \in LoginStepsOf(Does(t)) /\ "done" \in LoginStepsOf(Does(t))
  BY <1>2, StepsAre
<1>4. QED
  BY <1>1, <1>2, <1>3, Goings

\* The code is requested.
LEMMA RequestStep ==
  ASSUME LoginsTypeOK, NEW t \in LoginTasks, Request(t)
  PROVE  /\ login[t].pc = "request" /\ Does(t) \in {"send", "qr_start"} /\ Went(t, "done")
         /\ \/ /\ Does(t) = "send" /\ otp' = OtpLogin(t)
               /\ UNCHANGED <<qr, waits, line, temp, failed>>
            \/ /\ Does(t) = "qr_start" /\ AllQr /\ OtherQr(t) /\ qr'[t] = QrLogin
               /\ waits' = waits \union {<<t, 1>>} /\ UNCHANGED <<otp, line, temp, failed>>
            \/ failed' = TRUE /\ UNCHANGED <<otp, qr, waits, line, temp>>
            \/ /\ Does(t) = "qr_start" /\ failed' = TRUE
               /\ line' = line \ {t} /\ temp' = temp \ {t} /\ UNCHANGED <<otp, qr, waits>>
         /\ UNCHANGED <<lapsed, persisted, beside, plan>>
<1>1. login[t].pc = "request" /\ UNCHANGED <<lapsed, persisted, beside, plan>> /\ Goes(t, "done")
  BY DEF Request, Fails
<1>2. Does(t) \in {"send", "qr_start"}
  BY <1>1, KindsAtSteps
<1>3. Went(t, "done")
  <2>1. "done" \in LoginStepsOf(Does(t))
    BY <1>2, StepsAre
  <2>2. QED
    BY <1>1, <2>1, Goings
<1>4. \/ /\ Does(t) = "send" /\ otp' = OtpLogin(t)
         /\ UNCHANGED <<qr, waits, line, temp, failed>>
      \/ /\ Does(t) # "send" /\ qr' = [qr EXCEPT ![t] = QrLogin]
         /\ waits' = waits \union {<<t, 1>>} /\ UNCHANGED <<otp, line, temp, failed>>
      \/ failed' = TRUE /\ UNCHANGED <<otp, qr, waits, line, temp>>
      \/ /\ Does(t) = "qr_start" /\ failed' = TRUE
         /\ line' = line \ {t} /\ temp' = temp \ {t} /\ UNCHANGED <<otp, qr, waits>>
  BY DEF Request, Fails
<1>5. qr' = [qr EXCEPT ![t] = QrLogin] => AllQr /\ OtherQr(t) /\ qr'[t] = QrLogin
  BY Entries, NewQr
<1>6. QED
  BY <1>1, <1>2, <1>3, <1>4, <1>5

\* sign_in by code.
LEMMA SignStep ==
  ASSUME LoginsTypeOK, NEW t \in LoginTasks, Sign(t)
  PROVE  /\ login[t].pc = "sign" /\ Does(t) \in {"code", "pass"}
         /\ \/ otp' = otp
            \/ otp # NoLogin /\ otp' \in OtpEntry /\ otp'.cli = otp.cli /\ otp'.old = otp.old
         /\ Went(t, "store") \/ Went(t, "done") \/ (Does(t) = "code" /\ Went(t, "drop"))
         /\ UNCHANGED <<qr, waits, line, temp, lapsed, persisted, beside, plan, failed>>
<1>1. /\ login[t].pc = "sign" /\ Does(t) \in {"code", "pass"}
      /\ UNCHANGED <<qr, waits, line, temp, lapsed, persisted, beside, plan, failed>>
      /\ Goes(t, "store") \/ Goes(t, "done") \/ (Does(t) = "code" /\ Goes(t, "drop"))
      /\ otp' = otp \/ (otp # NoLogin /\ otp' = [otp EXCEPT !.twofa = TRUE])
  BY DEF Sign
<1>2. /\ "store" \in LoginStepsOf(Does(t)) /\ "done" \in LoginStepsOf(Does(t))
      /\ Does(t) = "code" => "drop" \in LoginStepsOf(Does(t))
  BY <1>1, StepsAre
<1>3. Went(t, "store") \/ Went(t, "done") \/ (Does(t) = "code" /\ Went(t, "drop"))
  BY <1>1, <1>2, Goings
<1>4. otp # NoLogin /\ otp' = [otp EXCEPT !.twofa = TRUE]
        => otp' \in OtpEntry /\ otp'.cli = otp.cli /\ otp'.old = otp.old
  BY DEF LoginsTypeOK, OtpEntry
<1>5. QED
  BY <1>1, <1>3, <1>4

\* The account of a login is stored.
LEMMA PersistStep ==
  ASSUME LoginsTypeOK, NEW t \in LoginTasks, Persist(t)
  PROVE  /\ login[t].pc = "persist" /\ Does(t) \in {"code", "pass", "qr_poll", "qr_pass"}
         /\ Went(t, "done")
         /\ persisted' = persisted \union {<<login[t].cli, t>>}
         /\ UNCHANGED <<otp, qr, waits, line, temp, lapsed, beside, plan, failed>>
<1>1. /\ login[t].pc = "persist" /\ Goes(t, "done")
      /\ persisted' = persisted \union {<<login[t].cli, t>>}
      /\ UNCHANGED <<otp, qr, waits, line, temp, lapsed, beside, plan, failed>>
  BY DEF Persist
<1>2. Does(t) \in {"code", "pass", "qr_poll", "qr_pass"}
  BY <1>1, KindsAtSteps
<1>3. "done" \in LoginStepsOf(Does(t))
  BY <1>2, StepsAre
<1>4. QED
  BY <1>1, <1>2, <1>3, Goings

\* A QR login is scanned, or its task fails.
LEMMA ScanStep ==
  ASSUME LoginsTypeOK, NEW c \in Clients, NEW n, Scan(c, n)
  PROVE  /\ <<c, n>> \in waits /\ waits' = waits \ {<<c, n>>}
         /\ \/ qr[c] = NoLogin /\ qr' = qr
            \/ /\ qr[c] # NoLogin /\ AllQr /\ OtherQr(c) /\ qr'[c] \in QrEntry
               /\ qr'[c].code = qr[c].code /\ qr'[c].wait = qr[c].wait
               /\ qr'[c].authorized \/ qr'[c].twofa \/ qr'[c].error = "failed"
               /\ qr'[c].error \in {qr[c].error, "failed"}
         /\ UNCHANGED <<otp, line, temp, lapsed, login, persisted, beside, plan, failed>>
<1>1. /\ <<c, n>> \in waits /\ waits' = waits \ {<<c, n>>}
      /\ UNCHANGED <<otp, line, temp, lapsed, login, persisted, beside, plan, failed>>
  BY DEF Scan
<1>2. CASE qr[c] = NoLogin
  BY <1>1, <1>2 DEF Scan
<1>3. CASE qr[c] # NoLogin
  <2>1. qr[c] \in QrEntry
    BY <1>3 DEF LoginsTypeOK
  <2>2. ASSUME NEW me \in BOOLEAN,
               qr' = [qr EXCEPT ![c].authorized = TRUE, ![c].me = @ \/ me,
                                ![c].error = IF me THEN @ ELSE "failed"]
        PROVE  /\ AllQr /\ OtherQr(c) /\ qr'[c] \in QrEntry
               /\ qr'[c].code = qr[c].code /\ qr'[c].wait = qr[c].wait /\ qr'[c].authorized
               /\ qr'[c].error \in {qr[c].error, "failed"}
    <3> DEFINE known == qr[c].me \/ me
               error == IF me THEN qr[c].error ELSE "failed"
               new == [qr[c] EXCEPT !.authorized = TRUE, !.me = known, !.error = error]
    <3>1. qr' = [qr EXCEPT ![c] = new]
      BY <2>2 DEF LoginsTypeOK
    <3>2. known \in BOOLEAN /\ error \in {qr[c].error, "failed"}
      OBVIOUS
    <3> HIDE DEF known, error
    <3>3. error \in {"none", "failed", "expired"}
      BY <2>1, <3>2 DEF QrEntry
    <3>4. /\ new \in QrEntry /\ new.code = qr[c].code /\ new.wait = qr[c].wait /\ new.authorized
          /\ new.error = error
      BY <2>1, <3>2, <3>3 DEF QrEntry
    <3> HIDE DEF new
    <3>5. QED
      BY <3>1, <3>2, <3>4, NewQr
  <2>3. ASSUME qr' = [qr EXCEPT ![c].twofa = TRUE]
        PROVE  /\ AllQr /\ OtherQr(c) /\ qr'[c] \in QrEntry
               /\ qr'[c].code = qr[c].code /\ qr'[c].wait = qr[c].wait /\ qr'[c].twofa
               /\ qr'[c].error \in {qr[c].error, "failed"}
    <3> DEFINE new == [qr[c] EXCEPT !.twofa = TRUE]
    <3>1. qr' = [qr EXCEPT ![c] = new]
      BY <2>3
    <3>2. /\ new \in QrEntry /\ new.code = qr[c].code /\ new.wait = qr[c].wait /\ new.twofa
          /\ new.error = qr[c].error
      BY <2>1 DEF QrEntry
    <3> HIDE DEF new
    <3>3. QED
      BY <3>1, <3>2, NewQr
  <2>4. \/ \E me \in BOOLEAN :
             qr' = [qr EXCEPT ![c].authorized = TRUE, ![c].me = @ \/ me,
                              ![c].error = IF me THEN @ ELSE "failed"]
        \/ qr' = [qr EXCEPT ![c].twofa = TRUE]
        \/ qr' = [qr EXCEPT ![c].error = "failed"]
    BY <1>3 DEF Scan
  <2>5. ASSUME qr' = [qr EXCEPT ![c].error = "failed"]
        PROVE  /\ AllQr /\ OtherQr(c) /\ qr'[c] \in QrEntry
               /\ qr'[c].code = qr[c].code /\ qr'[c].wait = qr[c].wait
               /\ qr'[c].error = "failed"
    <3> DEFINE new == [qr[c] EXCEPT !.error = "failed"]
    <3>1. qr' = [qr EXCEPT ![c] = new]
      BY <2>5
    <3>2. /\ new \in QrEntry /\ new.code = qr[c].code /\ new.wait = qr[c].wait
          /\ new.error = "failed"
      BY <2>1 DEF QrEntry
    <3> HIDE DEF new
    <3>3. QED
      BY <3>1, <3>2, NewQr
  <2>6. QED
    BY <1>1, <1>3, <2>2, <2>3, <2>4, <2>5
<1>4. QED
  BY <1>2, <1>3

\* A QR code expires.
LEMMA LapseStep ==
  ASSUME LoginsTypeOK, NEW c \in Clients, NEW n, Lapse(c, n)
  PROVE  /\ <<c, n>> \in waits /\ waits' = waits \ {<<c, n>>}
         /\ lapsed' = lapsed \union {<<c, n>>}
         /\ \/ qr[c] = NoLogin /\ qr' = qr
            \/ /\ qr[c] # NoLogin /\ AllQr /\ OtherQr(c) /\ qr'[c] \in QrEntry
               /\ qr'[c].code = qr[c].code /\ qr'[c].wait = qr[c].wait
               /\ qr'[c].error = "expired"
         /\ UNCHANGED <<otp, line, temp, login, persisted, beside, plan, failed>>
<1> DEFINE new == [qr[c] EXCEPT !.error = "expired"]
<1>1. /\ <<c, n>> \in waits /\ waits' = waits \ {<<c, n>>}
      /\ lapsed' = lapsed \union {<<c, n>>}
      /\ qr' = IF qr[c] = NoLogin THEN qr ELSE [qr EXCEPT ![c] = new]
      /\ UNCHANGED <<otp, line, temp, login, persisted, beside, plan, failed>>
  BY DEF Lapse
<1>2. qr[c] # NoLogin => /\ new \in QrEntry /\ new.code = qr[c].code /\ new.wait = qr[c].wait
                         /\ new.error = "expired"
  BY DEF LoginsTypeOK, QrEntry
<1> HIDE DEF new
<1>3. QED
  BY <1>1, <1>2, NewQr

\* The task of the old code is cancelled.
LEMMA UnwaitStep ==
  ASSUME LoginsTypeOK, NEW t \in LoginTasks, Unwait(t)
  PROVE  /\ login[t].pc = "unwait" /\ Does(t) = "qr_again" /\ Went(t, "renew")
         /\ \/ qr[login[t].cli] = NoLogin /\ waits' = waits
            \/ waits' = waits \ {<<login[t].cli, qr[login[t].cli].wait>>}
         /\ qr[login[t].cli] # NoLogin =>
              waits' = waits \ {<<login[t].cli, qr[login[t].cli].wait>>}
         /\ UNCHANGED <<otp, qr, line, temp, lapsed, persisted, beside, plan, failed>>
<1>1. /\ login[t].pc = "unwait" /\ Goes(t, "renew")
      /\ waits' = IF qr[login[t].cli] = NoLogin THEN waits
                  ELSE waits \ {<<login[t].cli, qr[login[t].cli].wait>>}
      /\ UNCHANGED <<otp, qr, line, temp, lapsed, persisted, beside, plan, failed>>
  BY DEF Unwait
<1>2. Does(t) = "qr_again"
  BY <1>1, KindsAtSteps
<1>3. "renew" \in LoginStepsOf(Does(t))
  BY <1>2, StepsAre
<1>4. QED
  BY <1>1, <1>2, <1>3, Goings

\* A new code is asked for.
LEMMA RenewStep ==
  ASSUME LoginsTypeOK, NEW t \in LoginTasks, Renew(t), login[t].cli \in Clients
  PROVE  /\ login[t].pc = "renew" /\ Does(t) = "qr_again" /\ Went(t, "done")
         /\ \/ LET c == login[t].cli IN
               /\ c \in line /\ qr[c] # NoLogin
               /\ AllQr /\ OtherQr(c) /\ qr'[c] \in QrEntry
               /\ qr'[c].code = qr[c].code + 1 /\ qr'[c].wait = qr[c].code + 1
               /\ qr'[c].error = "none"
               /\ waits' = waits \union {<<c, qr[c].code + 1>>} /\ failed' = failed
            \/ /\ login[t].cli \notin line \/ qr[login[t].cli] = NoLogin
               /\ UNCHANGED <<qr, waits, failed>>
            \/ failed' = TRUE /\ UNCHANGED <<qr, waits>>
         /\ UNCHANGED <<otp, line, temp, lapsed, persisted, beside, plan>>
<1> DEFINE c == login[t].cli
           next == qr[c].code + 1
           new == [qr[c] EXCEPT !.code = next, !.wait = next, !.error = "none", !.old = FALSE]
<1>1. login[t].pc = "renew" /\ UNCHANGED <<otp, line, temp, lapsed, persisted, beside, plan>>
      /\ Goes(t, "done")
  BY DEF Renew, Fails
<1>2. Does(t) = "qr_again"
  BY <1>1, KindsAtSteps
<1>3. Went(t, "done")
  <2>1. "done" \in LoginStepsOf(Does(t))
    BY <1>2, StepsAre
  <2>2. QED
    BY <1>1, <2>1, Goings
<1>4. \/ /\ c \in line /\ qr[c] # NoLogin /\ qr' = [qr EXCEPT ![c] = new]
         /\ waits' = waits \union {<<c, next>>} /\ failed' = failed
      \/ (c \notin line \/ qr[c] = NoLogin) /\ UNCHANGED <<qr, waits, failed>>
      \/ failed' = TRUE /\ UNCHANGED <<qr, waits>>
  BY DEF Renew, Fails, LoginsTypeOK
<1>5. qr[c] # NoLogin => qr[c] \in QrEntry /\ next \in Nat
  BY DEF LoginsTypeOK, QrEntry
<1>6. c \in Clients
  OBVIOUS
<1> HIDE DEF c
<1>7. qr[c] # NoLogin => new \in QrEntry /\ new.code = next /\ new.wait = next /\ new.error = "none"
  <2> HIDE DEF next
  <2>1. QED
    BY <1>5 DEF QrEntry
<1>8. qr[c] # NoLogin /\ qr' = [qr EXCEPT ![c] = new] => AllQr /\ OtherQr(c) /\ qr'[c] = new
  <2> HIDE DEF new
  <2>1. QED
    BY <1>6, <1>7, NewQr
<1>9. QED
  <2> HIDE DEF new
  <2>1. QED
    BY <1>1, <1>2, <1>3, <1>4, <1>7, <1>8 DEF c

\* The password of a QR login.
LEMMA SignQrStep ==
  ASSUME LoginsTypeOK, NEW t \in LoginTasks, SignQr(t), login[t].cli \in Clients
  PROVE  /\ login[t].pc = "sign" /\ Does(t) = "qr_pass"
         /\ Went(t, "final") \/ Went(t, "done")
         /\ \/ qr' = qr
            \/ LET c == login[t].cli IN
               /\ qr[c] # NoLogin /\ AllQr /\ OtherQr(c) /\ qr'[c] \in QrEntry
               /\ qr'[c].code = qr[c].code /\ qr'[c].wait = qr[c].wait
               /\ qr'[c].authorized /\ qr'[c].error = qr[c].error
               /\ qr'[c].twofa = qr[c].twofa
         /\ UNCHANGED <<otp, waits, line, temp, lapsed, persisted, beside, plan, failed>>
<1> DEFINE c == login[t].cli
           new == [qr[c] EXCEPT !.authorized = TRUE, !.me = TRUE]
<1>1. /\ login[t].pc = "sign" /\ Does(t) = "qr_pass" /\ (Goes(t, "final") \/ Goes(t, "done"))
      /\ UNCHANGED <<otp, waits, line, temp, lapsed, persisted, beside, plan, failed>>
  BY DEF SignQr
<1>2. Went(t, "final") \/ Went(t, "done")
  <2>1. "final" \in LoginStepsOf(Does(t)) /\ "done" \in LoginStepsOf(Does(t))
    BY <1>1, StepsAre
  <2>2. QED
    BY <1>1, <2>1, Goings
<1>3. qr' = qr \/ (qr[c] # NoLogin /\ qr' = [qr EXCEPT ![c] = new])
  BY DEF SignQr, LoginsTypeOK
<1>4. qr[c] # NoLogin => /\ new \in QrEntry /\ new.code = qr[c].code /\ new.wait = qr[c].wait
                         /\ new.authorized /\ new.error = qr[c].error
                         /\ new.twofa = qr[c].twofa
  BY DEF LoginsTypeOK, QrEntry
<1>5. c \in Clients
  OBVIOUS
<1> HIDE DEF c, new
<1>6. qr[c] # NoLogin /\ qr' = [qr EXCEPT ![c] = new] => AllQr /\ OtherQr(c) /\ qr'[c] = new
  BY <1>4, <1>5, NewQr
<1>7. QED
  BY <1>1, <1>2, <1>3, <1>4, <1>6 DEF c

\* The login is looked up to be stored.
LEMMA FinalizeStep ==
  ASSUME LoginsTypeOK, NEW t \in LoginTasks, Finalize(t)
  PROVE  /\ login[t].pc = "final" /\ Does(t) \in {"qr_poll", "qr_pass"}
         /\ Went(t, "move") \/ Went(t, "done")
         /\ UNCHANGED <<otp, qr, waits, line, temp, lapsed, persisted, beside, plan, failed>>
<1>1. /\ login[t].pc = "final" /\ (Goes(t, "move") \/ Goes(t, "done"))
      /\ UNCHANGED <<otp, qr, waits, line, temp, lapsed, persisted, beside, plan, failed>>
  BY DEF Finalize
<1>2. Does(t) \in {"qr_poll", "qr_pass"}
  BY <1>1, KindsAtSteps
<1>3. "move" \in LoginStepsOf(Does(t)) /\ "done" \in LoginStepsOf(Does(t))
  BY <1>2, StepsAre
<1>4. QED
  BY <1>1, <1>2, <1>3, Goings

\* The login is taken out to be stored.
LEMMA MoveStep ==
  ASSUME LoginsTypeOK, NEW t \in LoginTasks, Move(t)
  PROVE  /\ login[t].pc = "move" /\ Does(t) \in {"qr_poll", "qr_pass"}
         /\ \/ Went(t, "done") /\ UNCHANGED <<qr, waits, line, temp>>
            \/ qr[login[t].cli] # NoLogin /\ Went(t, "persist") /\ TakeOut(login[t].cli)
         /\ UNCHANGED <<otp, lapsed, persisted, beside, plan, failed>>
<1>1. /\ login[t].pc = "move"
      /\ \/ Goes(t, "done") /\ UNCHANGED <<qr, waits, line, temp>>
         \/ qr[login[t].cli] # NoLogin /\ Goes(t, "persist") /\ TakeOut(login[t].cli)
      /\ UNCHANGED <<otp, lapsed, persisted, beside, plan, failed>>
  BY DEF Move
<1>2. Does(t) \in {"qr_poll", "qr_pass"}
  BY <1>1, KindsAtSteps
<1>3. "persist" \in LoginStepsOf(Does(t)) /\ "done" \in LoginStepsOf(Does(t))
  BY <1>2, StepsAre
<1>4. QED
  BY <1>1, <1>2, <1>3, Goings

\* The login is taken out to be given up.
LEMMA UndoStep ==
  ASSUME LoginsTypeOK, NEW t \in LoginTasks, Undo(t)
  PROVE  /\ login[t].pc = "undo" /\ Does(t) = "qr_cancel" /\ Went(t, "done")
         /\ \/ UNCHANGED <<qr, waits, line, temp>>
            \/ qr[login[t].cli] # NoLogin /\ TakeOut(login[t].cli)
         /\ UNCHANGED <<otp, lapsed, persisted, beside, plan, failed>>
<1>1. /\ login[t].pc = "undo" /\ Goes(t, "done")
      /\ \/ UNCHANGED <<qr, waits, line, temp>>
         \/ qr[login[t].cli] # NoLogin /\ TakeOut(login[t].cli)
      /\ UNCHANGED <<otp, lapsed, persisted, beside, plan, failed>>
  BY DEF Undo
<1>2. Does(t) = "qr_cancel"
  BY <1>1, KindsAtSteps
<1>3. "done" \in LoginStepsOf(Does(t))
  BY <1>2, StepsAre
<1>4. QED
  BY <1>1, <1>2, <1>3, Goings

\* The sweep of the logins by code.
LEMMA SweepStep ==
  ASSUME LoginsTypeOK, NEW t \in LoginTasks, Sweep(t)
  PROVE  /\ login[t].pc = "sweep" /\ Does(t) = "sweep"
         /\ login' \in [LoginTasks -> LoginPlace] /\ OtherLogins(t) /\ login'[t].pc = "sweepqr"
         /\ "sweepqr" \in LoginStepsOf(Does(t))
         /\ \/ login[t].old /\ otp' = NoLogin /\ line' = line \ {Pending}
            \/ UNCHANGED <<otp, line>>
         /\ UNCHANGED <<qr, waits, temp, lapsed, persisted, beside, plan, failed>>
<1> DEFINE new == [Rests EXCEPT !.pc = "sweepqr"]
<1>1. /\ login[t].pc = "sweep" /\ login' = [login EXCEPT ![t] = new]
      /\ \/ login[t].old /\ otp' = NoLogin /\ line' = line \ {Pending}
         \/ UNCHANGED <<otp, line>>
      /\ UNCHANGED <<qr, waits, temp, lapsed, persisted, beside, plan, failed>>
  BY DEF Sweep
<1>2. Does(t) = "sweep"
  BY <1>1, KindsAtSteps
<1>3. "sweepqr" \in LoginSteps /\ "sweepqr" \in LoginStepsOf(Does(t))
  BY <1>2, StepsAre, StepsOfKinds, KindsAtSteps
<1>4. new \in LoginPlace /\ new.pc = "sweepqr"
  BY <1>3 DEF Rests, LoginPlace
<1> HIDE DEF new
<1>5. QED
  BY <1>1, <1>2, <1>3, <1>4, Placing

\* The sweep of the QR logins.
LEMMA SweepQrStep ==
  ASSUME LoginsTypeOK, NEW t \in LoginTasks, SweepQr(t)
  PROVE  /\ login[t].pc = "sweepqr" /\ Does(t) = "sweep"
         /\ \/ (\E c \in Known : TakeOut(c)) /\ login' = login
            \/ Went(t, "done") /\ UNCHANGED <<qr, waits, line, temp>>
         /\ UNCHANGED <<otp, lapsed, persisted, beside, plan, failed>>
<1>1. /\ login[t].pc = "sweepqr"
      /\ \/ (\E c \in Known : TakeOut(c)) /\ login' = login
         \/ Goes(t, "done") /\ UNCHANGED <<qr, waits, line, temp>>
      /\ UNCHANGED <<otp, lapsed, persisted, beside, plan, failed>>
  BY DEF SweepQr
<1>2. Does(t) = "sweep"
  BY <1>1, KindsAtSteps
<1>3. "done" \in LoginStepsOf(Does(t))
  BY <1>2, StepsAre
<1>4. QED
  BY <1>1, <1>2, <1>3, Goings

\* Time passes.
LEMMA AgedStep ==
  ASSUME LoginsTypeOK, Aged
  PROVE  /\ \/ otp' = otp
            \/ otp # NoLogin /\ otp' \in OtpEntry /\ otp'.cli = otp.cli /\ otp'.old
         /\ \/ qr' = qr
            \/ \E c \in Known :
                 /\ AllQr /\ OtherQr(c) /\ qr'[c] \in QrEntry
                 /\ qr'[c].code = qr[c].code /\ qr'[c].wait = qr[c].wait
                 /\ qr'[c].error = qr[c].error /\ qr'[c].authorized = qr[c].authorized
                 /\ qr'[c].twofa = qr[c].twofa
         /\ UNCHANGED <<waits, line, temp, lapsed, login, persisted, beside, plan, failed>>
<1>1. UNCHANGED <<waits, line, temp, lapsed, login, persisted, beside, plan, failed>>
  BY DEF Aged
<1>2. ASSUME otp # NoLogin, otp' = [otp EXCEPT !.old = TRUE]
      PROVE  otp' \in OtpEntry /\ otp'.cli = otp.cli /\ otp'.old
  BY <1>2 DEF LoginsTypeOK, OtpEntry
<1>3. ASSUME NEW c \in Known, qr' = [qr EXCEPT ![c].old = TRUE]
      PROVE  /\ AllQr /\ OtherQr(c) /\ qr'[c] \in QrEntry
             /\ qr'[c].code = qr[c].code /\ qr'[c].wait = qr[c].wait
             /\ qr'[c].error = qr[c].error /\ qr'[c].authorized = qr[c].authorized
             /\ qr'[c].twofa = qr[c].twofa
  <2> DEFINE new == [qr[c] EXCEPT !.old = TRUE]
  <2>1. qr' = [qr EXCEPT ![c] = new] /\ c \in Clients /\ qr[c] \in QrEntry
    BY <1>3, KnownIs DEF Known
  <2>2. /\ new \in QrEntry /\ new.code = qr[c].code /\ new.wait = qr[c].wait
        /\ new.error = qr[c].error /\ new.authorized = qr[c].authorized
        /\ new.twofa = qr[c].twofa
    BY <2>1 DEF QrEntry
  <2> HIDE DEF new
  <2>3. QED
    BY <2>1, <2>2, NewQr
<1>4. \/ otp # NoLogin /\ otp' = [otp EXCEPT !.old = TRUE] /\ qr' = qr
      \/ \E c \in Known : qr' = [qr EXCEPT ![c].old = TRUE] /\ otp' = otp
  BY DEF Aged
<1>5. QED
  BY <1>1, <1>2, <1>3, <1>4

-------------------------------------------------------------------------------
(* What every step has in common. *)

\* A client of a login is a client, and of one kind only.
LEMMA OriginsAreClients ==
  ASSUME LoginsTypeOK, NEW c
  PROVE  /\ ByCode(c) \/ ByQr(c) => c \in Clients
         /\ ~(ByCode(c) /\ ByQr(c))
         /\ c \in LoginTasks /\ (ByCode(c) \/ ByQr(c)) => login[c].pc = "done"
<1>1. plan.otp = "none" \/ plan.qr = "none"
  BY LoginAssumption DEF LoginsTypeOK, LoginScenario
<1>2. QED
  BY <1>1, Entries DEF ByCode, ByQr, Clients

\* The QR login that a request works on is that of a client.
LEMMA WorksOnClient ==
  ASSUME LoginsTypeOK, ClientsMatch, NEW t \in LoginTasks, Does(t) \in LoginKinds
  PROVE  /\ login[t].pc \in {"unwait", "renew", "final", "move", "undo"} =>
              ForQr(t) /\ login[t].cli \in Clients /\ ByQr(login[t].cli)
         /\ login[t].pc = "sign" /\ Does(t) = "qr_pass" =>
              ForQr(t) /\ login[t].cli \in Clients /\ ByQr(login[t].cli)
         /\ login[t].pc = "persist" /\ Does(t) \in {"qr_poll", "qr_pass"} =>
              ForQr(t) /\ login[t].cli \in Clients /\ ByQr(login[t].cli)
<1>1. login[t].pc \in {"unwait", "renew", "final", "move", "undo"} => ForQr(t)
  BY KindsAtSteps DEF ForQr
<1>2. login[t].pc = "sign" /\ Does(t) = "qr_pass" => ForQr(t)
  BY DEF ForQr
<1>3. login[t].pc = "persist" /\ Does(t) \in {"qr_poll", "qr_pass"} => ForQr(t)
  BY DEF ForQr
<1>4. ForQr(t) => ByQr(login[t].cli)
  BY DEF ClientsMatch
<1>5. QED
  BY <1>1, <1>2, <1>3, <1>4, OriginsAreClients

\* What a step is.
LEMMA StepIs ==
  ASSUME LoginsTypeOK, ClientsMatch, [LoginsNext]_loginVars
  PROVE  \/ \E t \in LoginTasks :
              \/ Enter(t) \/ Drop(t) \/ Connect(t) \/ Request(t) \/ Sign(t) \/ Persist(t)
              \/ Unwait(t) \/ Finalize(t) \/ Move(t) \/ Undo(t) \/ Sweep(t) \/ SweepQr(t)
         \/ \E t \in LoginTasks : login[t].cli \in Clients /\ (Renew(t) \/ SignQr(t))
         \/ \E c \in Clients, n \in Nat : Scan(c, n) \/ Lapse(c, n)
         \/ Aged \/ UNCHANGED loginVars
<1>1. ASSUME NEW t \in LoginTasks, Renew(t) \/ SignQr(t)
      PROVE  login[t].cli \in Clients
  <2>1. login[t].pc = "renew" \/ (login[t].pc = "sign" /\ Does(t) = "qr_pass")
    BY <1>1 DEF Renew, SignQr
  <2>2. QED
    BY <2>1, WorksOnClient, KindsAtSteps
<1>2. ASSUME NEW c \in Clients, NEW n, Scan(c, n) \/ Lapse(c, n)
      PROVE  n \in Nat
  <2>1. <<c, n>> \in waits
    BY <1>2 DEF Scan, Lapse
  <2>2. QED
    BY <2>1 DEF LoginsTypeOK
<1>3. QED
  BY <1>1, <1>2 DEF LoginsNext, LoginsProgress, LoginsEvent

\* What no step takes back.
LEMMA Lasting ==
  ASSUME LoginsTypeOK, ClientsMatch, [LoginsNext]_loginVars
  PROVE  /\ plan' = plan /\ beside \subseteq beside' /\ (failed => failed')
         /\ persisted \subseteq persisted' /\ lapsed \subseteq lapsed'
<1>1. ASSUME NEW t \in LoginTasks,
             \/ Enter(t) \/ Drop(t) \/ Connect(t) \/ Request(t) \/ Sign(t) \/ Persist(t)
             \/ Unwait(t) \/ Finalize(t)
      PROVE  /\ plan' = plan /\ beside \subseteq beside' /\ (failed => failed')
             /\ persisted \subseteq persisted' /\ lapsed \subseteq lapsed'
  BY <1>1, EnterStep, DropStep, ConnectStep, RequestStep, SignStep, PersistStep, UnwaitStep,
     FinalizeStep
<1>2. ASSUME NEW t \in LoginTasks, Move(t) \/ Undo(t) \/ Sweep(t) \/ SweepQr(t)
      PROVE  /\ plan' = plan /\ beside \subseteq beside' /\ (failed => failed')
             /\ persisted \subseteq persisted' /\ lapsed \subseteq lapsed'
  BY <1>2, MoveStep, UndoStep, SweepStep, SweepQrStep
<1>3. ASSUME NEW t \in LoginTasks, login[t].cli \in Clients, Renew(t) \/ SignQr(t)
      PROVE  /\ plan' = plan /\ beside \subseteq beside' /\ (failed => failed')
             /\ persisted \subseteq persisted' /\ lapsed \subseteq lapsed'
  BY <1>3, RenewStep, SignQrStep
<1>4. ASSUME NEW c \in Clients, NEW n \in Nat, Scan(c, n) \/ Lapse(c, n)
      PROVE  /\ plan' = plan /\ beside \subseteq beside' /\ (failed => failed')
             /\ persisted \subseteq persisted' /\ lapsed \subseteq lapsed'
  BY <1>4, ScanStep, LapseStep
<1>5. QED
  BY <1>1, <1>2, <1>3, <1>4, StepIs, AgedStep DEF loginVars

\* One request goes on, or arrives, or none does.
GoesOn(t) ==
  /\ login[t].pc \notin {"off", "done"} /\ login' \in [LoginTasks -> LoginPlace] /\ OtherLogins(t)
  /\ login'[t].pc \in LoginStepsOf(Does(t)) /\ login'[t].pc # "off"

LEMMA OneGoes ==
  ASSUME LoginsTypeOK, ClientsMatch, [LoginsNext]_loginVars
  PROVE  \/ login' = login /\ beside' = beside
         \/ \E t \in LoginTasks : GoesOn(t) /\ beside' = beside
         \/ \E t \in LoginTasks : Enter(t)
<1>1. ASSUME NEW t \in LoginTasks, NEW pc, Went(t, pc), login[t].pc \notin {"off", "done"}, pc # "off"
      PROVE  GoesOn(t)
  BY <1>1 DEF Went, GoesOn
<1>2. ASSUME NEW t \in LoginTasks, Drop(t) \/ Connect(t) \/ Request(t)
      PROVE  GoesOn(t) /\ beside' = beside
  BY <1>1, <1>2, DropStep, ConnectStep, RequestStep
<1>3. ASSUME NEW t \in LoginTasks, Sign(t) \/ Persist(t) \/ Unwait(t) \/ Finalize(t)
      PROVE  GoesOn(t) /\ beside' = beside
  BY <1>1, <1>3, SignStep, PersistStep, UnwaitStep, FinalizeStep
<1>4. ASSUME NEW t \in LoginTasks, Move(t) \/ Undo(t)
      PROVE  GoesOn(t) /\ beside' = beside
  BY <1>1, <1>4, MoveStep, UndoStep
<1>5. ASSUME NEW t \in LoginTasks, Sweep(t)
      PROVE  GoesOn(t) /\ beside' = beside
  BY <1>5, SweepStep DEF GoesOn
<1>6. ASSUME NEW t \in LoginTasks, SweepQr(t)
      PROVE  (login' = login \/ GoesOn(t)) /\ beside' = beside
  BY <1>1, <1>6, SweepQrStep
<1>7. ASSUME NEW t \in LoginTasks, login[t].cli \in Clients, Renew(t) \/ SignQr(t)
      PROVE  GoesOn(t) /\ beside' = beside
  BY <1>1, <1>7, RenewStep, SignQrStep
<1>8. ASSUME NEW c \in Clients, NEW n \in Nat, Scan(c, n) \/ Lapse(c, n)
      PROVE  login' = login /\ beside' = beside
  BY <1>8, ScanStep, LapseStep
<1>9. QED
  BY <1>2, <1>3, <1>4, <1>5, <1>6, <1>7, <1>8, StepIs, AgedStep DEF loginVars

\* A request that is over stays so, except a sweep.
LEMMA OverIsOver ==
  ASSUME LoginsTypeOK, ClientsMatch, [LoginsNext]_loginVars, NEW t \in LoginTasks,
         login[t].pc = "done", Does(t) # "sweep"
  PROVE  login'[t].pc = "done"
<1>1. CASE \E u \in LoginTasks : GoesOn(u)
  BY <1>1 DEF GoesOn, OtherLogins
<1>2. CASE \E u \in LoginTasks : Enter(u)
  BY <1>2, EnterStep DEF OtherLogins
<1>3. QED
  BY <1>1, <1>2, OneGoes

\* A client stays that of the login it was made for.
LEMMA OriginsStay ==
  ASSUME LoginsTypeOK, ClientsMatch, [LoginsNext]_loginVars, NEW c
  PROVE  (ByCode(c) => ByCode(c)') /\ (ByQr(c) => ByQr(c)')
<1>1. plan' = plan
  BY Lasting
<1>2. c \in LoginTasks /\ Does(c) \in {"send", "qr_start"} /\ login[c].pc = "done"
        => login'[c].pc = "done"
  BY OverIsOver
<1>3. QED
  BY <1>1, <1>2 DEF ByCode, ByQr, Does

\* What has overlapped, has.
LEMMA OverlapsStay ==
  ASSUME LoginsTypeOK, ClientsMatch, [LoginsNext]_loginVars
  PROVE  /\ \A t, u : Overlapped(t, u) => Overlapped(t, u)'
         /\ \A kind : Twice(kind) => Twice(kind)'
<1>1. plan' = plan /\ beside \subseteq beside'
  BY Lasting
<1>2. QED
  BY <1>1 DEF Overlapped, Twice, Does

\* Who is at work has overlapped all others at work.
LEMMA OverlapsKept ==
  ASSUME LoginsTypeOK, ClientsMatch, OverlapsAreKnown, [LoginsNext]_loginVars
  PROVE  OverlapsAreKnown'
<1>1. ASSUME AtWork' \subseteq AtWork
      PROVE  OverlapsAreKnown'
  BY <1>1, OverlapsStay DEF OverlapsAreKnown
<1>2. CASE login' = login
  BY <1>1, <1>2 DEF AtWork
<1>3. ASSUME NEW t \in LoginTasks, GoesOn(t)
      PROVE  AtWork' \subseteq AtWork
  BY <1>3 DEF GoesOn, AtWork, OtherLogins
<1>4. ASSUME NEW t \in LoginTasks, Enter(t)
      PROVE  OverlapsAreKnown'
  <2>1. AtWork' \subseteq AtWork \union {t} /\ t \notin AtWork
    BY <1>4, EnterStep DEF AtWork, OtherLogins
  <2>2. \A u \in AtWork : {t, u} \in beside'
    BY <1>4, EnterStep
  <2>3. \A u, v \in AtWork : u # v => {u, v} \in beside'
    BY Lasting DEF OverlapsAreKnown, Overlapped
  <2>4. \A u \in AtWork : {u, t} = {t, u}
    OBVIOUS
  <2>5. QED
    BY <2>1, <2>2, <2>3, <2>4 DEF OverlapsAreKnown, Overlapped
<1>5. QED
  BY <1>1, <1>2, <1>3, <1>4, OneGoes

\* The types.
LEMMA TypeKept ==
  ASSUME LoginsTypeOK, ClientsMatch, [LoginsNext]_loginVars
  PROVE  LoginsTypeOK'
<1>1. plan' = plan
  BY Lasting
<1>2. /\ login' \in [LoginTasks -> LoginPlace]
      /\ \A t \in LoginTasks : login'[t].pc \in LoginStepsOf(Does(t))
  <2>1. /\ login \in [LoginTasks -> LoginPlace]
        /\ \A t \in LoginTasks : login[t].pc \in LoginStepsOf(Does(t))
    BY DEF LoginsTypeOK
  <2>2. CASE \E t \in LoginTasks : GoesOn(t)
    BY <2>1, <2>2 DEF GoesOn, OtherLogins
  <2>3. CASE \E t \in LoginTasks : Enter(t)
    BY <2>1, <2>3, EnterStep DEF OtherLogins
  <2>4. QED
    BY <2>1, <2>2, <2>3, OneGoes
<1> DEFINE OtpOK == otp' \in OtpEntry \union {NoLogin}
           LineOK == line' \subseteq Clients
           TempOK == temp' \subseteq Clients
           WaitsOK == waits' \subseteq Clients \X Nat
           LapsedOK == lapsed' \subseteq Clients \X Nat
           PersistedOK == persisted' \subseteq Clients \X LoginTasks
           BesideOK == beside' \subseteq SUBSET LoginTasks
           FailedOK == failed' \in BOOLEAN
           Rest == /\ OtpOK /\ AllQr /\ LineOK /\ TempOK /\ WaitsOK /\ LapsedOK /\ PersistedOK
                   /\ BesideOK /\ FailedOK
<1>3. /\ otp \in OtpEntry \union {NoLogin}
      /\ qr \in [Clients -> QrEntry \union {NoLogin}]
      /\ line \subseteq Clients /\ temp \subseteq Clients
      /\ waits \subseteq Clients \X Nat /\ lapsed \subseteq Clients \X Nat
      /\ persisted \subseteq Clients \X LoginTasks
      /\ beside \subseteq SUBSET LoginTasks /\ failed \in BOOLEAN
      /\ LoginTasks \subseteq Clients
  BY DEF LoginsTypeOK, Clients
<1>4. /\ otp' = otp => OtpOK
      /\ otp' = NoLogin => OtpOK
      /\ otp' \in OtpEntry => OtpOK
  BY <1>3
<1>5. qr' = qr => AllQr
  BY <1>3 DEF AllQr
<1>6. /\ line' \subseteq line => LineOK
      /\ \A t \in LoginTasks : line' = line \union {t} => LineOK
      /\ temp' \subseteq temp => TempOK
      /\ \A t \in LoginTasks : temp' = temp \union {t} => TempOK
  BY <1>3
<1>7. /\ waits' \subseteq waits => WaitsOK
      /\ \A c \in Clients, n \in Nat : waits' = waits \union {<<c, n>>} => WaitsOK
      /\ lapsed' = lapsed => LapsedOK
      /\ \A c \in Clients, n \in Nat : lapsed' = lapsed \union {<<c, n>>} => LapsedOK
  BY <1>3
<1>8. /\ persisted' = persisted => PersistedOK
      /\ \A c \in Clients, t \in LoginTasks : persisted' = persisted \union {<<c, t>>} => PersistedOK
      /\ beside' = beside => BesideOK
      /\ \A t \in LoginTasks : beside' = beside \union {{t, u} : u \in AtWork} => BesideOK
  BY <1>3 DEF AtWork
<1>9. /\ failed' = failed => FailedOK
      /\ failed' = TRUE => FailedOK
  BY <1>3
<1>10. /\ \A x : line \ x \subseteq line /\ temp \ x \subseteq temp /\ waits \ x \subseteq waits
       /\ line \subseteq line /\ temp \subseteq temp /\ waits \subseteq waits
  OBVIOUS
<1> HIDE DEF OtpOK, LineOK, TempOK, WaitsOK, LapsedOK, PersistedOK, BesideOK, FailedOK
<1>11. ASSUME NEW t \in LoginTasks, Enter(t)
       PROVE  Rest
  BY <1>4, <1>5, <1>6, <1>7, <1>8, <1>9, <1>10, <1>11, EnterStep
<1>12. ASSUME NEW t \in LoginTasks, Drop(t)
       PROVE  Rest
  BY <1>4, <1>5, <1>6, <1>7, <1>8, <1>9, <1>10, <1>12, DropStep
<1>13. ASSUME NEW t \in LoginTasks, Connect(t)
       PROVE  Rest
  BY <1>4, <1>5, <1>6, <1>7, <1>8, <1>9, <1>10, <1>13, ConnectStep
<1>14. ASSUME NEW t \in LoginTasks, Request(t)
       PROVE  Rest
  <2>1. OtpLogin(t) \in OtpEntry /\ t \in Clients /\ 1 \in Nat
    BY Entries
  <2>2. QED
    BY <1>4, <1>5, <1>6, <1>7, <1>8, <1>9, <1>10, <1>14, <2>1, RequestStep
<1>15. ASSUME NEW t \in LoginTasks, Sign(t) \/ Unwait(t) \/ Finalize(t)
       PROVE  Rest
  BY <1>4, <1>5, <1>6, <1>7, <1>8, <1>9, <1>10, <1>15, SignStep, UnwaitStep, FinalizeStep
<1>16. ASSUME NEW t \in LoginTasks, Persist(t)
       PROVE  Rest
  <2>1. login[t].pc = "persist" /\ Does(t) \in {"code", "pass", "qr_poll", "qr_pass"}
    BY <1>16, PersistStep
  <2>2. ForCode(t) \/ ForQr(t)
    BY <2>1 DEF ForCode, ForQr
  <2>3. login[t].cli \in Clients
    BY <2>2, OriginsAreClients DEF ClientsMatch
  <2>4. QED
    BY <1>4, <1>5, <1>6, <1>7, <1>8, <1>9, <1>10, <1>16, <2>3, PersistStep
<1>17. ASSUME NEW c \in Clients, TakeOut(c)
       PROVE  AllQr /\ LineOK /\ TempOK /\ WaitsOK
  BY <1>6, <1>7, <1>10, <1>17, TakingOut
<1>18. ASSUME NEW t \in LoginTasks, Move(t) \/ Undo(t)
       PROVE  Rest
  <2>1. login[t].pc \in {"move", "undo"}
    BY <1>18, MoveStep, UndoStep
  <2>2. login[t].cli \in Clients
    BY <2>1, WorksOnClient, KindsAtSteps
  <2>3. QED
    BY <1>4, <1>5, <1>6, <1>7, <1>8, <1>9, <1>10, <1>17, <1>18, <2>2, MoveStep, UndoStep
<1>19. ASSUME NEW t \in LoginTasks, Sweep(t)
       PROVE  Rest
  BY <1>4, <1>5, <1>6, <1>7, <1>8, <1>9, <1>10, <1>19, SweepStep
<1>20. ASSUME NEW t \in LoginTasks, SweepQr(t)
       PROVE  Rest
  <2>1. \A c \in Known : c \in Clients
    BY DEF Known
  <2>2. QED
    BY <1>4, <1>5, <1>6, <1>7, <1>8, <1>9, <1>10, <1>17, <1>20, <2>1, SweepQrStep
<1>21. ASSUME NEW t \in LoginTasks, login[t].cli \in Clients, Renew(t)
       PROVE  Rest
  <2>1. qr[login[t].cli] # NoLogin => qr[login[t].cli].code + 1 \in Nat
    BY <1>3, <1>21 DEF QrEntry
  <2>2. QED
    BY <1>4, <1>5, <1>6, <1>7, <1>8, <1>9, <1>10, <1>21, <2>1, RenewStep
<1>22. ASSUME NEW t \in LoginTasks, login[t].cli \in Clients, SignQr(t)
       PROVE  Rest
  BY <1>4, <1>5, <1>6, <1>7, <1>8, <1>9, <1>10, <1>22, SignQrStep
<1>23. ASSUME NEW c \in Clients, NEW n \in Nat, Scan(c, n) \/ Lapse(c, n)
       PROVE  Rest
  BY <1>4, <1>5, <1>6, <1>7, <1>8, <1>9, <1>10, <1>23, ScanStep, LapseStep
<1>24. ASSUME Aged
       PROVE  Rest
  BY <1>4, <1>5, <1>6, <1>7, <1>8, <1>9, <1>10, <1>24, AgedStep
<1>25. ASSUME UNCHANGED loginVars
       PROVE  Rest
  BY <1>4, <1>5, <1>6, <1>7, <1>8, <1>9, <1>10, <1>25 DEF loginVars
<1>26. Rest
  BY <1>11, <1>12, <1>13, <1>14, <1>15, <1>16, <1>18, <1>19, <1>20, <1>21, <1>22, <1>23, <1>24,
     <1>25, StepIs
<1>27. QED
  BY <1>1, <1>2, <1>26
     DEF LoginsTypeOK, AllQr, Does, OtpOK, LineOK, TempOK, WaitsOK, LapsedOK, PersistedOK,
         BesideOK, FailedOK

-------------------------------------------------------------------------------
(* The temporary clients. *)
SendsOn ==
  \A u \in LoginTasks : Does(u) = "send" /\ login'[u].pc \in {"connect", "request"}
                          => login[u].pc \in {"connect", "request"}
SameCode ==
  \/ otp' = otp
  \/ otp # NoLogin /\ otp' # NoLogin /\ otp'.cli = otp.cli
Freed ==
  /\ otp' = NoLogin /\ line' = line \ {Pending} /\ UNCHANGED <<qr, waits, temp>>
  /\ Requesting' = Requesting
TakenOut(c) ==
  /\ c \in Known /\ Known' = Known \ {c} /\ line' = line \ {c} /\ temp' = temp \ {c}
  /\ waits' \subseteq waits /\ otp' = otp /\ Requesting' = Requesting /\ SendsOn
Connected(t) ==
  /\ line' = line \union {t}
  /\ temp' = temp \/ (Does(t) = "qr_start" /\ temp' = temp \union {t})
  /\ UNCHANGED <<otp, qr, waits>> /\ Requesting' = Requesting \union {t} /\ SendsOn
CodeSent(t) ==
  /\ t \in Requesting /\ Does(t) = "send" /\ login'[t].pc = "done"
  /\ otp' # NoLogin /\ otp'.cli = t /\ UNCHANGED <<qr, waits, line, temp>>
  /\ Requesting' = Requesting \ {t} /\ SendsOn
QrShown(t) ==
  /\ t \in Requesting /\ Does(t) = "qr_start" /\ login'[t].pc = "done"
  /\ Known' = Known \union {t} /\ waits' = waits \union {<<t, 1>>} /\ UNCHANGED <<otp, line, temp>>
  /\ Requesting' = Requesting \ {t} /\ SendsOn
QrUndone(t) ==
  /\ t \in Requesting /\ failed' = TRUE /\ line' = line \ {t} /\ UNCHANGED <<otp, qr, waits>>
  /\ Requesting' = Requesting \ {t} /\ SendsOn
Quiet ==
  /\ SameCode /\ Known' = Known /\ line' = line
  /\ \A w \in waits' : w \in waits \/ w[1] \in Known
  /\ Requesting' \subseteq Requesting
  /\ failed' \/ (Requesting' = Requesting /\ temp' = temp)
  /\ SendsOn

\* An entry that is replaced by another leaves the login known.
LEMMA KnownStays ==
  ASSUME LoginsTypeOK
  PROVE  /\ qr' = qr => Known' = Known
         /\ \A c \in Clients : (/\ AllQr /\ OtherQr(c)
                                /\ qr[c] # NoLogin /\ qr'[c] \in QrEntry) => Known' = Known
         /\ \A c \in Clients : AllQr /\ OtherQr(c) /\ qr'[c] = NoLogin => Known' = Known \ {c}
         /\ \A c \in Clients : AllQr /\ OtherQr(c) /\ qr'[c] = QrLogin => Known' = Known \union {c}
<1>1. qr' = qr => Known' = Known
  BY DEF Known
<1>2. ASSUME NEW c \in Clients, AllQr, OtherQr(c), qr[c] # NoLogin, qr'[c] \in QrEntry
      PROVE  Known' = Known
  BY <1>2, Entries DEF Known, OtherQr
<1>3. ASSUME NEW c \in Clients, AllQr, OtherQr(c), qr'[c] = NoLogin
      PROVE  Known' = Known \ {c}
  BY <1>3 DEF Known, OtherQr
<1>4. ASSUME NEW c \in Clients, AllQr, OtherQr(c), qr'[c] = QrLogin
      PROVE  Known' = Known \union {c}
  BY <1>4, Entries DEF Known, OtherQr
<1>5. QED
  BY <1>1, <1>2, <1>3, <1>4

\* The requests for a code, after a step of one request.
LEMMA RequestsAfter ==
  ASSUME LoginsTypeOK, NEW t \in LoginTasks, OtherLogins(t)
  PROVE  /\ login[t].pc # "request" /\ login'[t].pc # "request" => Requesting' = Requesting
         /\ login'[t].pc = "request" => Requesting' = Requesting \union {t}
         /\ login'[t].pc # "request" => Requesting' = Requesting \ {t}
         /\ login'[t].pc \notin {"connect", "request"} => SendsOn
         /\ login[t].pc \in {"connect", "request"} => SendsOn
         /\ Does(t) # "send" => SendsOn
BY DEF OtherLogins, Requesting, SendsOn

\* What a step does to the clients.
LEMMA ClientWays ==
  ASSUME LoginsTypeOK, ClientsMatch, [LoginsNext]_loginVars
  PROVE  \/ Freed \/ Quiet
         \/ \E c \in Clients : TakenOut(c)
         \/ \E t \in LoginTasks : Connected(t) \/ CodeSent(t) \/ QrShown(t) \/ QrUndone(t)
<1>1. login' = login => Requesting' = Requesting /\ SendsOn
  BY DEF Requesting, SendsOn
<1>2. ASSUME NEW t \in LoginTasks, NEW pc, Went(t, pc)
      PROVE  OtherLogins(t) /\ login'[t].pc = pc
  BY <1>2 DEF Went
<1>3. ASSUME NEW t \in LoginTasks, Enter(t)
      PROVE  Quiet
  <2>1. /\ OtherLogins(t) /\ login[t].pc # "request" /\ login'[t].pc # "request"
        /\ UNCHANGED <<otp, qr, waits, line, temp>>
        /\ login'[t].pc = "connect" => Does(t) = "qr_start"
    BY <1>3, EnterStep
  <2>2. Requesting' = Requesting /\ SendsOn
    BY <2>1, RequestsAfter
  <2>3. QED
    BY <2>1, <2>2, KnownStays DEF Quiet, SameCode
<1>4. ASSUME NEW t \in LoginTasks, Drop(t)
      PROVE  Freed
  <2>1. /\ OtherLogins(t) /\ login[t].pc # "request" /\ login'[t].pc # "request"
        /\ otp' = NoLogin /\ line' = line \ {Pending} /\ UNCHANGED <<qr, waits, temp>>
    BY <1>2, <1>4, DropStep
  <2>2. Requesting' = Requesting
    BY <2>1, RequestsAfter
  <2>3. QED
    BY <2>1, <2>2 DEF Freed
<1>5. ASSUME NEW t \in LoginTasks, Connect(t)
      PROVE  Connected(t) \/ Quiet
  <2>1. /\ OtherLogins(t) /\ login[t].pc = "connect" /\ UNCHANGED <<otp, qr, waits>>
        /\ temp' = temp \/ (Does(t) = "qr_start" /\ temp' = temp \union {t})
        /\ \/ line' = line \union {t} /\ login'[t].pc = "request"
           \/ failed' = TRUE /\ login'[t].pc = "done" /\ line' = line
    BY <1>2, <1>5, ConnectStep
  <2>2. CASE line' = line \union {t} /\ login'[t].pc = "request"
    <3>1. Requesting' = Requesting \union {t} /\ SendsOn
      BY <2>1, <2>2, RequestsAfter
    <3>2. QED
      BY <2>1, <2>2, <3>1 DEF Connected
  <2>3. CASE failed' = TRUE /\ login'[t].pc = "done" /\ line' = line
    <3>1. Requesting' = Requesting /\ SendsOn
      BY <2>1, <2>3, RequestsAfter
    <3>2. QED
      BY <2>1, <2>3, <3>1, KnownStays DEF Quiet, SameCode
  <2>4. QED
    BY <2>1, <2>2, <2>3
<1>6. ASSUME NEW t \in LoginTasks, Request(t)
      PROVE  CodeSent(t) \/ QrShown(t) \/ QrUndone(t) \/ Quiet
  <2>1. /\ OtherLogins(t) /\ login'[t].pc = "done" /\ t \in Requesting
        /\ Requesting' = Requesting \ {t} /\ SendsOn
    <3>1. login[t].pc = "request" /\ OtherLogins(t) /\ login'[t].pc = "done"
      BY <1>2, <1>6, RequestStep
    <3>2. QED
      BY <3>1, RequestsAfter DEF Requesting
  <2>2. CASE Does(t) = "send" /\ otp' = OtpLogin(t) /\ UNCHANGED <<qr, waits, line, temp, failed>>
    <3>1. otp' # NoLogin /\ otp'.cli = t
      BY <2>2, Entries
    <3>2. QED
      BY <2>1, <2>2, <3>1 DEF CodeSent
  <2>3. CASE /\ Does(t) = "qr_start" /\ AllQr /\ OtherQr(t) /\ qr'[t] = QrLogin
             /\ waits' = waits \union {<<t, 1>>} /\ UNCHANGED <<otp, line, temp, failed>>
    <3>1. Known' = Known \union {t}
      BY <2>3, KnownStays DEF Clients
    <3>2. QED
      BY <2>1, <2>3, <3>1 DEF QrShown
  <2>4. CASE failed' = TRUE /\ UNCHANGED <<otp, qr, waits, line, temp>>
    BY <2>1, <2>4, KnownStays DEF Quiet, SameCode
  <2>5. CASE /\ Does(t) = "qr_start" /\ failed' = TRUE
             /\ line' = line \ {t} /\ temp' = temp \ {t} /\ UNCHANGED <<otp, qr, waits>>
    BY <2>1, <2>5 DEF QrUndone
  <2>6. QED
    BY <1>6, <2>2, <2>3, <2>4, <2>5, RequestStep
<1>7. ASSUME NEW t \in LoginTasks, Sign(t) \/ Persist(t) \/ Finalize(t)
      PROVE  Quiet
  <2>1. OtherLogins(t) /\ login[t].pc # "request" /\ login'[t].pc \notin {"connect", "request"}
    BY <1>2, <1>7, SignStep, PersistStep, FinalizeStep
  <2>2. UNCHANGED <<qr, waits, line, temp>>
    BY <1>7, SignStep, PersistStep, FinalizeStep
  <2>3. SameCode
    BY <1>7, SignStep, PersistStep, FinalizeStep, Entries DEF SameCode
  <2>4. QED
    BY <2>1, <2>2, <2>3, RequestsAfter, KnownStays DEF Quiet
<1>8. ASSUME NEW t \in LoginTasks, Unwait(t)
      PROVE  Quiet
  <2>1. OtherLogins(t) /\ login[t].pc # "request" /\ login'[t].pc \notin {"connect", "request"}
    BY <1>2, <1>8, UnwaitStep
  <2>2. UNCHANGED <<otp, qr, line, temp>> /\ waits' \subseteq waits
    BY <1>8, UnwaitStep
  <2>3. QED
    BY <2>1, <2>2, RequestsAfter, KnownStays DEF Quiet, SameCode
<1>9. ASSUME NEW t \in LoginTasks, login[t].cli \in Clients, Renew(t) \/ SignQr(t)
      PROVE  Quiet
  <2>1. OtherLogins(t) /\ login[t].pc # "request" /\ login'[t].pc \notin {"connect", "request"}
    <3>1. CASE Renew(t)
      <4>1. login[t].pc = "renew" /\ Went(t, "done")
        BY <1>9, <3>1, RenewStep
      <4>2. QED
        BY <1>2, <4>1
    <3>2. CASE SignQr(t)
      BY <1>2, <1>9, <3>2, SignQrStep
    <3>3. QED
      BY <1>9, <3>1, <3>2
  <2>2. UNCHANGED <<otp, line, temp>>
    BY <1>9, RenewStep, SignQrStep
  <2>3. Known' = Known
    BY <1>9, RenewStep, SignQrStep, KnownStays
  <2>4. \A w \in waits' : w \in waits \/ w[1] \in Known
    <3>1. \/ waits' = waits
          \/ /\ qr[login[t].cli] # NoLogin
             /\ waits' = waits \union {<<login[t].cli, qr[login[t].cli].code + 1>>}
      BY <1>9, RenewStep, SignQrStep
    <3>2. QED
      BY <1>9, <3>1 DEF Known
  <2>5. QED
    BY <2>1, <2>2, <2>3, <2>4, RequestsAfter DEF Quiet, SameCode
<1>10. ASSUME NEW c \in Clients, TakeOut(c), qr[c] # NoLogin, otp' = otp,
              Requesting' = Requesting, SendsOn
       PROVE  TakenOut(c)
  <2>1. Known' = Known \ {c} /\ c \in Known
    BY <1>10, TakingOut, KnownStays DEF Known
  <2>2. QED
    BY <1>10, <2>1, TakingOut DEF TakenOut
<1>11. ASSUME NEW t \in LoginTasks, Move(t) \/ Undo(t)
       PROVE  Quiet \/ \E c \in Clients : TakenOut(c)
  <2>1. OtherLogins(t) /\ login[t].pc \in {"move", "undo"} /\ login'[t].pc \notin {"connect", "request"}
    BY <1>2, <1>11, MoveStep, UndoStep
  <2>2. Requesting' = Requesting /\ SendsOn /\ login[t].cli \in Clients
    BY <2>1, RequestsAfter, WorksOnClient, KindsAtSteps
  <2>3. otp' = otp
    BY <1>11, MoveStep, UndoStep
  <2>4. CASE UNCHANGED <<qr, waits, line, temp>>
    BY <2>2, <2>3, <2>4, KnownStays DEF Quiet, SameCode
  <2>5. QED
    BY <1>10, <1>11, <2>2, <2>3, <2>4, MoveStep, UndoStep
<1>12. ASSUME NEW t \in LoginTasks, Sweep(t)
       PROVE  Quiet \/ Freed
  <2>1. OtherLogins(t) /\ login[t].pc = "sweep" /\ login'[t].pc \notin {"connect", "request"}
    BY <1>12, SweepStep
  <2>2. Requesting' = Requesting /\ SendsOn
    BY <2>1, RequestsAfter
  <2>3. QED
    BY <1>12, <2>2, SweepStep, KnownStays DEF Quiet, SameCode, Freed
<1>13. ASSUME NEW t \in LoginTasks, SweepQr(t)
       PROVE  Quiet \/ \E c \in Clients : TakenOut(c)
  <2>1. \/ login' = login
        \/ /\ OtherLogins(t) /\ login[t].pc = "sweepqr" /\ login'[t].pc \notin {"connect", "request"}
    BY <1>2, <1>13, SweepQrStep
  <2>2. Requesting' = Requesting /\ SendsOn
    BY <1>1, <2>1, RequestsAfter
  <2>3. otp' = otp
    BY <1>13, SweepQrStep
  <2>4. CASE UNCHANGED <<qr, waits, line, temp>>
    BY <2>2, <2>3, <2>4, KnownStays DEF Quiet, SameCode
  <2>5. CASE \E c \in Known : TakeOut(c)
    BY <1>10, <2>2, <2>3, <2>5 DEF Known
  <2>6. QED
    BY <1>13, <2>4, <2>5, SweepQrStep
<1>14. ASSUME NEW c \in Clients, NEW n \in Nat, Scan(c, n) \/ Lapse(c, n)
       PROVE  Quiet
  <2>1. UNCHANGED <<otp, line, temp, login>> /\ waits' \subseteq waits
    BY <1>14, ScanStep, LapseStep
  <2>2. Known' = Known
    BY <1>14, ScanStep, LapseStep, KnownStays
  <2>3. QED
    BY <1>1, <2>1, <2>2 DEF Quiet, SameCode
<1>15. ASSUME Aged
       PROVE  Quiet
  <2>1. UNCHANGED <<line, temp, login, waits>>
    BY <1>15, AgedStep
  <2>2. Known' = Known
    BY <1>15, AgedStep, KnownStays, KnownIs DEF Known
  <2>3. SameCode
    BY <1>15, AgedStep, Entries DEF SameCode
  <2>4. QED
    BY <1>1, <2>1, <2>2, <2>3 DEF Quiet
<1>16. ASSUME UNCHANGED loginVars
       PROVE  Quiet
  BY <1>1, <1>16, KnownStays DEF Quiet, SameCode, loginVars
<1>17. QED
  BY <1>3, <1>4, <1>5, <1>6, <1>7, <1>8, <1>9, <1>11, <1>12, <1>13, <1>14, <1>15, <1>16, StepIs
     DEF Clients

\* A request moves only in its own steps.
LEMMA ItselfOnly ==
  ASSUME LoginsTypeOK, ClientsMatch, [LoginsNext]_loginVars, NEW t \in LoginTasks
  PROVE  \/ login'[t] = login[t]
         \/ Enter(t) \/ Drop(t) \/ Connect(t) \/ Request(t) \/ Sign(t) \/ Persist(t)
         \/ Unwait(t) \/ Finalize(t) \/ Move(t) \/ Undo(t) \/ Sweep(t) \/ SweepQr(t)
         \/ (login[t].cli \in Clients /\ (Renew(t) \/ SignQr(t)))
<1>1. ASSUME NEW u \in LoginTasks \ {t}, OtherLogins(u)
      PROVE  login'[t] = login[t]
  BY <1>1 DEF OtherLogins
<1>2. ASSUME NEW u \in LoginTasks \ {t},
             \/ Enter(u) \/ Drop(u) \/ Connect(u) \/ Request(u) \/ Sign(u) \/ Persist(u)
             \/ Unwait(u) \/ Finalize(u)
      PROVE  login'[t] = login[t]
  <2>1. OtherLogins(u)
    BY <1>2, EnterStep, DropStep, ConnectStep, RequestStep, SignStep, PersistStep, UnwaitStep,
       FinalizeStep DEF Went
  <2>2. QED
    BY <1>1, <2>1
<1>3. ASSUME NEW u \in LoginTasks \ {t}, Move(u) \/ Undo(u) \/ Sweep(u) \/ SweepQr(u)
      PROVE  login'[t] = login[t]
  <2>1. OtherLogins(u) \/ login' = login
    BY <1>3, MoveStep, UndoStep, SweepStep, SweepQrStep DEF Went
  <2>2. QED
    BY <1>1, <2>1
<1>4. ASSUME NEW u \in LoginTasks \ {t}, login[u].cli \in Clients, Renew(u) \/ SignQr(u)
      PROVE  login'[t] = login[t]
  <2>1. OtherLogins(u)
    BY <1>4, RenewStep, SignQrStep DEF Went
  <2>2. QED
    BY <1>1, <2>1
<1>5. ASSUME NEW c \in Clients, NEW n \in Nat, Scan(c, n) \/ Lapse(c, n)
      PROVE  login'[t] = login[t]
  BY <1>5, ScanStep, LapseStep
<1>6. QED
  BY <1>2, <1>3, <1>4, <1>5, StepIs, AgedStep DEF loginVars

\* Who has found a client, or goes on with it.
LEMMA ForWays ==
  ASSUME LoginsTypeOK, ClientsMatch, [LoginsNext]_loginVars, NEW t \in LoginTasks
  PROVE  /\ ForCode(t)' => \/ ForCode(t) /\ login'[t].cli = login[t].cli
                           \/ otp # NoLogin /\ login'[t].cli = otp.cli /\ Enter(t)
         /\ ForQr(t)' => \/ ForQr(t) /\ login'[t].cli = login[t].cli
                         \/ login'[t].cli \in Known
<1>1. plan' = plan
  BY Lasting
<1>2. login'[t] = login[t] => (ForCode(t)' => ForCode(t)) /\ (ForQr(t)' => ForQr(t))
  BY <1>1 DEF ForCode, ForQr, Does
<1>3. ASSUME NEW pc, Went(t, pc), pc \notin {"sign", "store", "persist", "final", "move", "undo",
                                              "unwait", "renew"}
      PROVE  ~ForCode(t)' /\ ~ForQr(t)'
  BY <1>3 DEF Went, ForCode, ForQr
<1>4. ASSUME NEW pc, Went(t, pc), ForCode(t) \/ ForQr(t)
      PROVE  /\ login'[t].cli = login[t].cli
             /\ ForCode(t)' => ForCode(t)
             /\ ForQr(t)' => ForQr(t)
  <2>1. login'[t].cli = login[t].cli /\ Does(t)' = Does(t)
    BY <1>1, <1>4 DEF Went, Does
  <2>2. QED
    BY <1>4, <2>1 DEF ForCode, ForQr
<1>5. ASSUME NEW pc, Went(t, pc), login[t].pc \in {"sign", "store", "persist"}
      PROVE  ForCode(t) \/ ForQr(t)
  <2>1. Does(t) \in {"code", "pass", "qr_pass", "qr_poll"}
    BY <1>5, KindsAtSteps
  <2>2. login[t].pc = "store" => Does(t) \in {"code", "pass"}
    BY KindsAtSteps
  <2>3. QED
    BY <1>5, <2>1, <2>2 DEF ForCode, ForQr
<1>6. login[t].pc \in {"unwait", "renew", "final", "move", "undo"} => ForQr(t)
  BY KindsAtSteps DEF ForQr
<1>7. CASE Enter(t)
  <2>1. ForCode(t)' => otp # NoLogin /\ login'[t].cli = otp.cli
    BY <1>1, <1>7, EnterStep DEF ForCode, Does
  <2>2. ForQr(t)' => login'[t].cli \in Known
    BY <1>1, <1>7, EnterStep DEF ForQr, Does
  <2>3. QED
    BY <1>7, <2>1, <2>2
<1>8. CASE Drop(t)
  <2>1. CASE Went(t, "connect") \/ Went(t, "done")
    BY <1>3, <2>1
  <2>2. CASE login[t].pc = "store" /\ Went(t, "persist")
    BY <1>4, <1>5, <2>2
  <2>3. QED
    BY <1>8, <2>1, <2>2, DropStep
<1>9. CASE Connect(t) \/ Request(t)
  BY <1>3, <1>9, ConnectStep, RequestStep
<1>10. CASE Sign(t)
  <2>1. login[t].pc = "sign" /\ (Went(t, "store") \/ Went(t, "done") \/ Went(t, "drop"))
    BY <1>10, SignStep
  <2>2. QED
    BY <1>4, <1>5, <2>1
<1>11. CASE Persist(t)
  BY <1>3, <1>11, PersistStep
<1>12. CASE Unwait(t) \/ Finalize(t)
  <2>1. /\ login[t].pc \in {"unwait", "final"}
        /\ Went(t, "renew") \/ Went(t, "move") \/ Went(t, "done")
    BY <1>12, UnwaitStep, FinalizeStep
  <2>2. QED
    BY <1>4, <1>6, <2>1
<1>13. CASE Move(t) \/ Undo(t)
  <2>1. /\ login[t].pc \in {"move", "undo"}
        /\ Went(t, "persist") \/ Went(t, "done")
    BY <1>13, MoveStep, UndoStep
  <2>2. QED
    BY <1>4, <1>6, <2>1
<1>14. CASE Sweep(t)
  BY <1>14, SweepStep DEF ForCode, ForQr
<1>15. CASE SweepQr(t)
  BY <1>2, <1>3, <1>15, SweepQrStep
<1>16. CASE login[t].cli \in Clients /\ (Renew(t) \/ SignQr(t))
  <2>1. CASE Renew(t)
    BY <1>3, <1>16, <2>1, RenewStep
  <2>2. CASE SignQr(t)
    <3>1. login[t].pc = "sign" /\ (Went(t, "final") \/ Went(t, "done"))
      BY <1>16, <2>2, SignQrStep
    <3>2. QED
      BY <1>4, <1>5, <3>1
  <2>3. QED
    BY <1>16, <2>1, <2>2
<1>17. QED
  BY <1>2, <1>7, <1>8, <1>9, <1>10, <1>11, <1>12, <1>13, <1>14, <1>15, <1>16, ItselfOnly

\* Each client is used by the requests of its kind.
LEMMA ClientsKept ==
  ASSUME LoginsTypeOK, ClientsMatch, [LoginsNext]_loginVars
  PROVE  ClientsMatch'
<1>1. plan' = plan
  BY Lasting
<1>2. \A c \in Clients : ByCode(c) \/ ByQr(c) => ~(c \in Requesting) /\ ~(ByCode(c) /\ ByQr(c))
  BY OriginsAreClients DEF Requesting
<1>3. (otp # NoLogin => ByCode(otp.cli))'
  <2>1. PICK c : c = otp'.cli
    OBVIOUS
  <2>2. ASSUME NEW t \in LoginTasks, CodeSent(t)
        PROVE  ByCode(c)'
    <3>1. c = t /\ Does(t) = "send" /\ login'[t].pc = "done"
      BY <2>1, <2>2 DEF CodeSent
    <3>2. QED
      BY <1>1, <3>1 DEF ByCode, Does
  <2>3. ASSUME SameCode \/ otp' = NoLogin, otp' # NoLogin
        PROVE  ByCode(c)'
    <3>1. otp # NoLogin /\ c = otp.cli
      BY <2>1, <2>3 DEF SameCode
    <3>2. ByCode(c)
      BY <3>1 DEF ClientsMatch
    <3>3. QED
      BY <3>2, OriginsStay
  <2>4. otp' # NoLogin => ByCode(c)'
    BY <2>2, <2>3, ClientWays
       DEF Freed, Quiet, TakenOut, Connected, QrShown, QrUndone, SameCode
  <2>5. QED
    BY <2>1, <2>4
<1>4. \A c \in Clients : ByQr(c) => c \notin Requesting /\ c # Pending
  <2>1. otp = NoLogin => Pending \notin Clients
    BY PendingIs, Entries
  <2>2. otp # NoLogin => ByCode(Pending)
    BY PendingIs DEF ClientsMatch
  <2>3. QED
    BY <1>2, <2>1, <2>2
<1>5. \A c \in Known : ByQr(c) /\ c \in line /\ c \in Clients
  BY DEF ClientsMatch, Known
<1>6. \A c \in Known' : ByQr(c)' /\ c \in line'
  <2>1. CASE \E t \in LoginTasks : QrShown(t)
    <3>1. PICK t \in LoginTasks : QrShown(t)
      BY <2>1
    <3>2. ByQr(t)' /\ t \in line'
      BY <1>1, <3>1 DEF QrShown, ByQr, Does, Requesting, ClientsMatch
    <3>3. QED
      BY <1>5, <3>1, <3>2, OriginsStay DEF QrShown
  <2>2. ASSUME Known' \subseteq Known, \A c \in Known' : c \in line'
        PROVE  \A c \in Known' : ByQr(c)' /\ c \in line'
    BY <1>5, <2>2, OriginsStay
  <2>3. CASE Freed
    <3>1. Known' = Known
      BY <2>3, KnownStays DEF Freed
    <3>2. QED
      BY <1>4, <1>5, <2>2, <2>3, <3>1 DEF Freed
  <2>4. CASE \E c \in Clients : TakenOut(c)
    BY <1>5, <2>2, <2>4 DEF TakenOut
  <2>5. CASE Quiet
    BY <1>5, <2>2, <2>5 DEF Quiet
  <2>6. ASSUME NEW t \in LoginTasks, Connected(t) \/ CodeSent(t) \/ QrUndone(t)
        PROVE  \A c \in Known' : ByQr(c)' /\ c \in line'
    <3>1. Known' = Known
      BY <2>6, KnownStays DEF Connected, CodeSent, QrUndone
    <3>2. QED
      BY <1>4, <1>5, <2>2, <2>6, <3>1 DEF Connected, CodeSent, QrUndone
  <2>7. QED
    BY <2>1, <2>3, <2>4, <2>5, <2>6, ClientWays
<1>7. \A w \in waits' : ByQr(w[1])'
  <2>1. ASSUME NEW t \in LoginTasks, QrShown(t)
        PROVE  \A w \in waits' : ByQr(w[1])'
    <3>1. ByQr(t)'
      BY <1>1, <2>1 DEF QrShown, ByQr, Does
    <3>2. \A w \in waits' : w \in waits \/ w[1] = t
      BY <2>1 DEF QrShown
    <3>3. QED
      BY <3>1, <3>2, OriginsStay DEF ClientsMatch
  <2>2. ASSUME \A w \in waits' : w \in waits \/ w[1] \in Known
        PROVE  \A w \in waits' : ByQr(w[1])'
    BY <1>5, <2>2, OriginsStay DEF ClientsMatch
  <2>3. QED
    BY <2>1, <2>2, ClientWays DEF Freed, TakenOut, Quiet, Connected, CodeSent, QrUndone
<1>8. ASSUME NEW t \in LoginTasks
      PROVE  (ForCode(t) => ByCode(login[t].cli))' /\ (ForQr(t) => ByQr(login[t].cli))'
  <2>1. PICK c : c = login'[t].cli
    OBVIOUS
  <2>2. ForCode(t)' => ByCode(c)
    BY <2>1, ForWays DEF ClientsMatch
  <2>3. ForQr(t)' => ByQr(c)
    BY <1>5, <2>1, ForWays DEF ClientsMatch
  <2>4. QED
    BY <2>1, <2>2, <2>3, OriginsStay
<1>9. Requesting' \subseteq line'
  <2>1. Requesting \subseteq line /\ Requesting \subseteq Clients
    BY DEF ClientsMatch, Requesting, Clients
  <2>2. CASE Freed
    <3>1. Pending \notin Requesting
      BY <1>2, PendingIs, Entries DEF ClientsMatch, Requesting
    <3>2. QED
      BY <2>1, <2>2, <3>1 DEF Freed
  <2>3. CASE \E c \in Clients : TakenOut(c)
    BY <1>2, <1>5, <2>1, <2>3 DEF TakenOut
  <2>4. CASE Quiet
    BY <2>1, <2>4 DEF Quiet
  <2>5. ASSUME NEW t \in LoginTasks, Connected(t) \/ CodeSent(t) \/ QrShown(t) \/ QrUndone(t)
        PROVE  Requesting' \subseteq line'
    BY <2>1, <2>5 DEF Connected, CodeSent, QrShown, QrUndone
  <2>6. QED
    BY <2>2, <2>3, <2>4, <2>5, ClientWays
<1>10. \A t \in LoginTasks : (login[t].pc = "request" => t \in line)'
  BY <1>9 DEF Requesting
<1>11. QED
  BY <1>3, <1>6, <1>7, <1>8, <1>10 DEF ClientsMatch

\* No code is pending for the phone while one is asked for.
LEMMA PhoneKept ==
  ASSUME LoginsTypeOK, ClientsMatch, OverlapsAreKnown, PhoneIsFree, [LoginsNext]_loginVars
  PROVE  PhoneIsFree'
<1>1. plan' = plan
  BY Lasting
<1>2. CASE Twice("send")
  BY <1>2, OverlapsStay DEF PhoneIsFree
<1>3. CASE otp' = NoLogin
  BY <1>3 DEF PhoneIsFree
<1>4. CASE ~Twice("send") /\ SendsOn /\ SameCode
  <2>1. ASSUME NEW t \in LoginTasks, Does(t)' = "send", login'[t].pc \in {"connect", "request"}
        PROVE  otp' = NoLogin
    BY <1>1, <1>4, <2>1 DEF PhoneIsFree, SendsOn, SameCode, Does
  <2>2. QED
    BY <2>1 DEF PhoneIsFree
<1>5. ASSUME NEW t \in LoginTasks, CodeSent(t), ~Twice("send")
      PROVE  PhoneIsFree'
  <2>1. ASSUME NEW u \in LoginTasks, Does(u)' = "send", login'[u].pc \in {"connect", "request"}
        PROVE  FALSE
    <3>1. Does(u) = "send" /\ login[u].pc \in {"connect", "request"} /\ u # t
      BY <1>1, <1>5, <2>1 DEF CodeSent, SendsOn, Does
    <3>2. t \in AtWork /\ u \in AtWork /\ Does(t) = "send"
      BY <1>5, <3>1 DEF CodeSent, Requesting, AtWork
    <3>3. Overlapped(t, u)
      BY <3>1, <3>2 DEF OverlapsAreKnown
    <3>4. QED
      BY <1>5, <3>1, <3>2, <3>3 DEF Twice
  <2>2. QED
    BY <2>1 DEF PhoneIsFree
<1>6. QED
  BY <1>2, <1>3, <1>4, <1>5, ClientWays
     DEF Freed, Quiet, TakenOut, Connected, QrShown, QrUndone, SameCode

\* Connections and files are those of logins.
LEMMA LostKept ==
  ASSUME LoginsTypeOK, ClientsMatch, PhoneIsFree, NothingIsLost, [LoginsNext]_loginVars
  PROVE  NothingIsLost'
<1>1. CASE failed'
  BY <1>1 DEF NothingIsLost
<1>2. CASE ~failed'
  <2>1. ~failed /\ (Twice("send") => Twice("send")') /\ \A u : Does(u)' = Does(u)
    BY <1>2, Lasting, OverlapsStay DEF Does
  <2>2. /\ Twice("send") \/ line \subseteq {Pending} \union Known \union Requesting
        /\ temp \subseteq Known \union {u \in Requesting : Does(u) = "qr_start"}
    BY <2>1 DEF NothingIsLost
  <2>3. SameCode => Pending' = Pending
    BY DEF SameCode, Pending
  <2>4. qr' = qr => Known' = Known
    BY KnownStays
  <2>5. CASE Freed
    BY <2>1, <2>2, <2>4, <2>5 DEF Freed, NothingIsLost
  <2>6. ASSUME NEW c \in Clients, TakenOut(c)
        PROVE  NothingIsLost'
    <3>1. Pending' = Pending
      BY <2>3, <2>6 DEF TakenOut, SameCode
    <3>2. QED
      BY <2>1, <2>2, <2>6, <3>1 DEF TakenOut, NothingIsLost
  <2>7. CASE Quiet
    BY <1>2, <2>1, <2>2, <2>3, <2>7 DEF Quiet, NothingIsLost
  <2>8. ASSUME NEW t \in LoginTasks, Connected(t)
        PROVE  NothingIsLost'
    <3>1. Pending' = Pending
      BY <2>3, <2>8 DEF Connected, SameCode
    <3>2. QED
      BY <2>1, <2>2, <2>4, <2>8, <3>1 DEF Connected, NothingIsLost
  <2>9. ASSUME NEW t \in LoginTasks, CodeSent(t)
        PROVE  NothingIsLost'
    <3>1. Twice("send") \/ otp = NoLogin
      BY <2>9 DEF CodeSent, Requesting, PhoneIsFree
    <3>2. Pending' = t /\ (otp = NoLogin => Pending = NoLogin)
      BY <2>9 DEF CodeSent, Pending
    <3>3. NoLogin \notin line
      BY LoginAssumption DEF LoginsTypeOK
    <3>4. t \notin temp \/ t \in Known
      <4>1. Does(t) = "send"
        BY <2>9 DEF CodeSent
      <4>2. QED
        BY <2>2, <2>9, <4>1 DEF CodeSent
    <3>5. QED
      BY <2>1, <2>2, <2>4, <2>9, <3>1, <3>2, <3>3, <3>4 DEF CodeSent, NothingIsLost
  <2>10. ASSUME NEW t \in LoginTasks, QrShown(t)
         PROVE  NothingIsLost'
    <3>1. Pending' = Pending
      BY <2>3, <2>10 DEF QrShown, SameCode
    <3>2. QED
      BY <2>1, <2>2, <2>10, <3>1 DEF QrShown, NothingIsLost
  <2>11. QED
    BY <1>2, <2>5, <2>6, <2>7, <2>8, <2>9, <2>10, ClientWays DEF QrUndone
<1>3. QED
  BY <1>1, <1>2

-------------------------------------------------------------------------------
(* Codes and the tasks that wait for them. *)
EntryStays(c) ==
  /\ c \in Known /\ qr'[c].code = qr[c].code /\ qr'[c].wait = qr[c].wait
  /\ qr'[c].error = qr[c].error
  /\ (qr[c].authorized => qr'[c].authorized) /\ (qr[c].twofa => qr'[c].twofa)
Renewing(t, c) == login[t].pc = "renew" /\ login[t].cli = c
RenewersStay == \A t \in LoginTasks, c \in Clients : Renewing(t, c)' <=> Renewing(t, c)
Calm ==
  /\ \A c \in Known' : EntryStays(c)
  /\ waits' \subseteq waits /\ \A w \in waits : w[1] \in Known' => w \in waits'
  /\ lapsed' = lapsed /\ RenewersStay

\* A request that is not renewing a code and does not begin to.
LEMMA RenewersAfter ==
  ASSUME NEW t \in LoginTasks, OtherLogins(t), login[t].pc # "renew", login'[t].pc # "renew"
  PROVE  RenewersStay
BY DEF OtherLogins, RenewersStay, Renewing

\* The entries that are left alone, and those of logins taken out.
LEMMA EntriesStay ==
  ASSUME LoginsTypeOK
  PROVE  /\ qr' = qr => \A c \in Known' : EntryStays(c)
         /\ \A d \in Clients : TakeOut(d) =>
              /\ \A c \in Known' : EntryStays(c)
              /\ waits' \subseteq waits /\ \A w \in waits : w[1] \in Known' => w \in waits'
<1>1. qr' = qr => \A c \in Known' : EntryStays(c)
  BY DEF Known, EntryStays
<1>2. ASSUME NEW d \in Clients, TakeOut(d)
      PROVE  /\ \A c \in Known' : EntryStays(c)
             /\ waits' \subseteq waits /\ \A w \in waits : w[1] \in Known' => w \in waits'
  <2>1. /\ AllQr /\ OtherQr(d) /\ qr'[d] = NoLogin /\ waits' = waits \ {<<d, qr[d].wait>>}
    BY <1>2, TakingOut
  <2>2. Known' = Known \ {d}
    BY <2>1, KnownStays
  <2>3. \A c \in Known' : c \in Clients \ {d} /\ c \in Known
    BY <2>2 DEF Known
  <2>4. \A c \in Known' : EntryStays(c)
    BY <2>1, <2>3 DEF EntryStays, OtherQr
  <2>5. \A w \in waits : w[1] # d => w \in waits'
    BY <2>1
  <2>6. QED
    BY <2>1, <2>2, <2>4, <2>5
<1>3. QED
  BY <1>1, <1>2

\* What a step does to the QR logins.
LEMMA QrWays ==
  ASSUME LoginsTypeOK, ClientsMatch, [LoginsNext]_loginVars
  PROVE  \/ Calm
         \/ \E t \in LoginTasks :
              /\ Request(t) /\ AllQr /\ OtherQr(t) /\ qr'[t] = QrLogin /\ QrShown(t)
              /\ lapsed' = lapsed /\ RenewersStay
         \/ \E t \in LoginTasks : Unwait(t)
         \/ \E t \in LoginTasks : login[t].cli \in Clients /\ Renew(t)
         \/ \E c \in Clients, n \in Nat : Scan(c, n) \/ Lapse(c, n)
<1>1. UNCHANGED <<qr, waits, lapsed>> /\ RenewersStay => Calm
  BY EntriesStay DEF Calm
<1>2. ASSUME NEW t \in LoginTasks, NEW pc, Went(t, pc)
      PROVE  OtherLogins(t) /\ login'[t].pc = pc
  BY <1>2 DEF Went
<1>3. login' = login => RenewersStay
  BY DEF RenewersStay, Renewing
<1>4. ASSUME NEW t \in LoginTasks, Enter(t)
      PROVE  Calm
  BY <1>1, <1>4, EnterStep, RenewersAfter
<1>5. ASSUME NEW t \in LoginTasks, Drop(t) \/ Connect(t)
      PROVE  Calm
  <2>1. OtherLogins(t) /\ login[t].pc # "renew" /\ login'[t].pc # "renew"
    <3>1. CASE Drop(t)
      <4>1. /\ login[t].pc \in {"drop", "store"}
            /\ Went(t, "connect") \/ Went(t, "persist") \/ Went(t, "done")
        BY <3>1, DropStep
      <4>2. QED
        BY <1>2, <4>1
    <3>2. CASE Connect(t)
      <4>1. login[t].pc = "connect" /\ (Went(t, "request") \/ Went(t, "done"))
        BY <3>2, ConnectStep
      <4>2. QED
        BY <1>2, <4>1
    <3>3. QED
      BY <1>5, <3>1, <3>2
  <2>2. UNCHANGED <<qr, waits, lapsed>>
    BY <1>5, DropStep, ConnectStep
  <2>3. QED
    BY <1>1, <2>1, <2>2, RenewersAfter
<1>6. ASSUME NEW t \in LoginTasks, Sign(t) \/ Persist(t) \/ Finalize(t)
      PROVE  Calm
  <2>1. OtherLogins(t) /\ login[t].pc # "renew" /\ login'[t].pc # "renew"
    BY <1>2, <1>6, SignStep, PersistStep, FinalizeStep
  <2>2. UNCHANGED <<qr, waits, lapsed>>
    BY <1>6, SignStep, PersistStep, FinalizeStep
  <2>3. QED
    BY <1>1, <2>1, <2>2, RenewersAfter
<1>7. ASSUME NEW t \in LoginTasks, Request(t)
      PROVE  \/ Calm
             \/ /\ AllQr /\ OtherQr(t) /\ qr'[t] = QrLogin /\ QrShown(t)
                /\ lapsed' = lapsed /\ RenewersStay
  <2>1. /\ login[t].pc = "request" /\ login'[t].pc = "done" /\ OtherLogins(t) /\ lapsed' = lapsed
        /\ RenewersStay
    <3>1. login[t].pc = "request" /\ Went(t, "done") /\ lapsed' = lapsed
      BY <1>7, RequestStep
    <3>2. QED
      BY <1>2, <3>1, RenewersAfter
  <2>2. CASE UNCHANGED <<qr, waits>>
    BY <1>1, <2>1, <2>2
  <2>3. CASE /\ Does(t) = "qr_start" /\ AllQr /\ OtherQr(t) /\ qr'[t] = QrLogin
             /\ waits' = waits \union {<<t, 1>>} /\ UNCHANGED <<otp, line, temp, failed>>
    <3>1. t \in Requesting /\ Requesting' = Requesting \ {t} /\ SendsOn
      BY <2>1, RequestsAfter DEF Requesting
    <3>2. Known' = Known \union {t}
      BY <2>3, KnownStays DEF Clients
    <3>3. QED
      BY <2>1, <2>3, <3>1, <3>2 DEF QrShown
  <2>4. QED
    BY <1>7, <2>2, <2>3, RequestStep
<1>8. ASSUME NEW t \in LoginTasks, Move(t) \/ Undo(t)
      PROVE  Calm
  <2>1. /\ login[t].pc \in {"move", "undo"} /\ OtherLogins(t) /\ login'[t].pc # "renew"
        /\ lapsed' = lapsed
    BY <1>2, <1>8, MoveStep, UndoStep
  <2>2. RenewersStay /\ login[t].cli \in Clients
    BY <2>1, RenewersAfter, WorksOnClient, KindsAtSteps
  <2>3. UNCHANGED <<qr, waits>> \/ TakeOut(login[t].cli)
    BY <1>8, MoveStep, UndoStep
  <2>4. QED
    BY <1>1, <2>1, <2>2, <2>3, EntriesStay DEF Calm
<1>9. ASSUME NEW t \in LoginTasks, Sweep(t)
      PROVE  Calm
  <2>1. OtherLogins(t) /\ login[t].pc # "renew" /\ login'[t].pc # "renew"
    BY <1>9, SweepStep
  <2>2. UNCHANGED <<qr, waits, lapsed>>
    BY <1>9, SweepStep
  <2>3. QED
    BY <1>1, <2>1, <2>2, RenewersAfter
<1>10. ASSUME NEW t \in LoginTasks, SweepQr(t)
       PROVE  Calm
  <2>1. lapsed' = lapsed
    BY <1>10, SweepQrStep
  <2>2. RenewersStay
    <3>1. \/ login' = login
          \/ OtherLogins(t) /\ login[t].pc = "sweepqr" /\ login'[t].pc # "renew"
      BY <1>2, <1>10, SweepQrStep
    <3>2. QED
      BY <1>3, <3>1, RenewersAfter
  <2>3. UNCHANGED <<qr, waits>> \/ \E c \in Clients : TakeOut(c)
    BY <1>10, SweepQrStep DEF Known
  <2>4. QED
    BY <1>1, <2>1, <2>2, <2>3, EntriesStay DEF Calm
<1>11. ASSUME NEW t \in LoginTasks, login[t].cli \in Clients, SignQr(t)
       PROVE  Calm
  <2>1. OtherLogins(t) /\ login[t].pc # "renew" /\ login'[t].pc # "renew"
    BY <1>2, <1>11, SignQrStep
  <2>2. UNCHANGED <<waits, lapsed>>
    BY <1>11, SignQrStep
  <2>3. \A c \in Known' : EntryStays(c)
    <3>1. CASE qr' = qr
      BY <3>1, EntriesStay
    <3>2. CASE LET c == login[t].cli IN
               /\ qr[c] # NoLogin /\ AllQr /\ OtherQr(c) /\ qr'[c] \in QrEntry
               /\ qr'[c].code = qr[c].code /\ qr'[c].wait = qr[c].wait
               /\ qr'[c].authorized /\ qr'[c].error = qr[c].error /\ qr'[c].twofa = qr[c].twofa
      <4>1. Known' = Known
        BY <1>11, <3>2, KnownStays
      <4>2. QED
        BY <1>11, <3>2, <4>1 DEF EntryStays, OtherQr, Known
    <3>3. QED
      BY <1>11, <3>1, <3>2, SignQrStep
  <2>4. QED
    BY <2>1, <2>2, <2>3, RenewersAfter DEF Calm
<1>12. ASSUME Aged
       PROVE  Calm
  <2>1. UNCHANGED <<waits, lapsed, login>>
    BY <1>12, AgedStep
  <2>2. CASE qr' = qr
    BY <1>1, <1>3, <2>1, <2>2
  <2>3. ASSUME NEW c \in Known, AllQr, OtherQr(c), qr'[c] \in QrEntry,
               qr'[c].code = qr[c].code, qr'[c].wait = qr[c].wait,
               qr'[c].error = qr[c].error, qr'[c].authorized = qr[c].authorized,
               qr'[c].twofa = qr[c].twofa
        PROVE  \A d \in Known' : EntryStays(d)
    <3>1. Known' = Known
      BY <2>3, KnownStays, KnownIs DEF Known
    <3>2. QED
      BY <2>3, <3>1 DEF EntryStays, OtherQr, Known
  <2>4. QED
    BY <1>3, <1>12, <2>1, <2>2, <2>3, AgedStep DEF Calm
<1>13. ASSUME UNCHANGED loginVars
       PROVE  Calm
  BY <1>1, <1>3, <1>13 DEF loginVars
<1>14. QED
  BY <1>4, <1>5, <1>6, <1>7, <1>8, <1>9, <1>10, <1>11, <1>12, <1>13, StepIs

\* WaitingIsWaited, for one login and for all.
Awaited(c) ==
  \/ failed \/ qr[c].authorized \/ qr[c].twofa \/ qr[c].error # "none"
  \/ \E t \in LoginTasks : Renewing(t, c)
  \/ <<c, qr[c].code>> \in waits

AllAwaited == \A c \in Known : Awaited(c)

\* It is what AllAwaited says.
LEMMA WaitedIs == WaitingIsWaited <=> AllAwaited
BY DEF WaitingIsWaited, AllAwaited, Awaited, AtWork, Renewing

\* A login that is left alone stays so.
LEMMA AwaitedStays ==
  ASSUME LoginsTypeOK, ClientsMatch, [LoginsNext]_loginVars, NEW c \in Known, Awaited(c),
         EntryStays(c), <<c, qr[c].code>> \in waits => <<c, qr[c].code>> \in waits',
         \A t \in LoginTasks : Renewing(t, c) => Renewing(t, c)'
  PROVE  Awaited(c)'
BY Lasting DEF Awaited, EntryStays

\* A QR login that reports "waiting" has a task that waits.
LEMMA WaitedKept ==
  ASSUME LoginsTypeOK, ClientsMatch, WaitingIsWaited, [LoginsNext]_loginVars
  PROVE  WaitingIsWaited'
<1>1. \A c \in Known : Awaited(c) /\ c \in Clients
  BY WaitedIs DEF Known, AllAwaited
<1>2. CASE Calm
  <2>1. ASSUME NEW c \in Known'
        PROVE  Awaited(c)'
    <3>1. EntryStays(c) /\ c \in Known /\ c \in Clients
      BY <1>1, <1>2 DEF Calm, EntryStays
    <3>2. <<c, qr[c].code>> \in waits => <<c, qr[c].code>> \in waits'
      BY <1>2 DEF Calm
    <3>3. \A t \in LoginTasks : Renewing(t, c) => Renewing(t, c)'
      BY <1>2, <3>1 DEF Calm, RenewersStay
    <3>4. QED
      BY <1>1, <3>1, <3>2, <3>3, AwaitedStays
  <2>2. AllAwaited'
    BY <2>1 DEF AllAwaited
  <2>3. QED
    BY <2>2, WaitedIs, PTL
<1>3. ASSUME NEW t \in LoginTasks, Request(t), AllQr, OtherQr(t), qr'[t] = QrLogin, QrShown(t),
             RenewersStay
      PROVE  WaitingIsWaited'
  <2>1. Known' = Known \union {t} /\ waits' = waits \union {<<t, 1>>}
    BY <1>3 DEF QrShown
  <2>2. Awaited(t)'
    BY <1>3, <2>1, Entries DEF Awaited
  <2>3. ASSUME NEW c \in Known, c # t
        PROVE  Awaited(c)'
    <3>1. EntryStays(c)
      BY <1>1, <1>3, <2>3 DEF EntryStays, OtherQr
    <3>2. \A u \in LoginTasks : Renewing(u, c) => Renewing(u, c)'
      BY <1>1, <1>3 DEF RenewersStay
    <3>3. QED
      BY <1>1, <2>1, <3>1, <3>2, AwaitedStays
  <2>4. AllAwaited'
    BY <2>1, <2>2, <2>3 DEF AllAwaited
  <2>5. QED
    BY <2>4, WaitedIs, PTL
<1>4. ASSUME NEW t \in LoginTasks, NEW c, c = login[t].cli, Unwait(t)
      PROVE  WaitingIsWaited'
  <2>1. /\ login[t].pc = "unwait" /\ Went(t, "renew") /\ qr' = qr
        /\ \/ waits' = waits
           \/ waits' = waits \ {<<c, qr[c].wait>>}
    BY <1>4, UnwaitStep
  <2>2. Renewing(t, c)' /\ \A u \in LoginTasks : \A d : Renewing(u, d) => Renewing(u, d)'
    BY <1>4, <2>1 DEF Went, OtherLogins, Renewing
  <2>3. Known' = Known /\ \A d \in Known' : EntryStays(d)
    BY <2>1, KnownStays, EntriesStay
  <2>4. ASSUME NEW d \in Known
        PROVE  Awaited(d)'
    <3>1. CASE d = c
      BY <2>2, <3>1 DEF Awaited
    <3>2. CASE d # c
      <4>1. <<d, qr[d].code>> \in waits => <<d, qr[d].code>> \in waits'
        BY <2>1, <3>2
      <4>2. QED
        BY <1>1, <2>2, <2>3, <4>1, AwaitedStays
    <3>3. QED
      BY <3>1, <3>2
  <2>5. AllAwaited'
    BY <2>3, <2>4 DEF AllAwaited
  <2>6. QED
    BY <2>5, WaitedIs, PTL
<1>5. ASSUME NEW t \in LoginTasks, NEW c \in Clients, c = login[t].cli, Renew(t)
      PROVE  WaitingIsWaited'
  <2>1. Went(t, "done")
    BY <1>5, RenewStep
  <2>2. \A u \in LoginTasks : \A d : d # c /\ Renewing(u, d) => Renewing(u, d)'
    BY <1>5, <2>1 DEF Went, OtherLogins, Renewing
  <2>3. CASE /\ qr[c] # NoLogin /\ AllQr /\ OtherQr(c) /\ qr'[c] \in QrEntry
             /\ qr'[c].code = qr[c].code + 1 /\ waits' = waits \union {<<c, qr[c].code + 1>>}
    <3>1. Known' = Known
      BY <2>3, KnownStays
    <3>2. Awaited(c)'
      BY <2>3 DEF Awaited
    <3>3. ASSUME NEW d \in Known, d # c
          PROVE  Awaited(d)'
      <4>1. EntryStays(d)
        BY <1>1, <2>3, <3>3 DEF EntryStays, OtherQr
      <4>2. QED
        BY <1>1, <2>2, <2>3, <3>3, <4>1, AwaitedStays
    <3>4. AllAwaited'
      BY <3>1, <3>2, <3>3 DEF AllAwaited
    <3>5. QED
      BY <3>4, WaitedIs, PTL
  <2>4. CASE /\ c \notin line \/ qr[c] = NoLogin
             /\ UNCHANGED <<qr, waits, failed>>
    <3>1. Known' = Known /\ \A d \in Known' : EntryStays(d)
      BY <2>4, KnownStays, EntriesStay
    <3>2. c \notin Known
      BY <2>4 DEF Known, ClientsMatch
    <3>3. ASSUME NEW d \in Known
          PROVE  Awaited(d)'
      BY <1>1, <2>2, <2>4, <3>1, <3>2, AwaitedStays
    <3>4. AllAwaited'
      BY <3>1, <3>3 DEF AllAwaited
    <3>5. QED
      BY <3>4, WaitedIs, PTL
  <2>5. CASE failed' = TRUE
    <3>1. AllAwaited'
      BY <2>5 DEF AllAwaited, Awaited
    <3>2. QED
      BY <3>1, WaitedIs, PTL
  <2>6. QED
    BY <1>5, <2>3, <2>4, <2>5, RenewStep
<1>6. ASSUME NEW c \in Clients, NEW n \in Nat, Scan(c, n) \/ Lapse(c, n)
      PROVE  WaitingIsWaited'
  <2>1. waits' = waits \ {<<c, n>>} /\ login' = login
    BY <1>6, ScanStep, LapseStep
  <2>2. \A u \in LoginTasks : \A d : Renewing(u, d) => Renewing(u, d)'
    BY <2>1 DEF Renewing
  <2>3. CASE qr[c] = NoLogin /\ qr' = qr
    <3>1. Known' = Known /\ \A d \in Known' : EntryStays(d)
      BY <2>3, KnownStays, EntriesStay
    <3>2. ASSUME NEW d \in Known
          PROVE  Awaited(d)'
      <4>1. d # c
        BY <2>3 DEF Known
      <4>2. QED
        BY <1>1, <2>1, <2>2, <3>1, <4>1, AwaitedStays
    <3>3. AllAwaited'
      BY <3>1, <3>2 DEF AllAwaited
    <3>4. QED
      BY <3>3, WaitedIs, PTL
  <2>4. CASE /\ qr[c] # NoLogin /\ AllQr /\ OtherQr(c) /\ qr'[c] \in QrEntry
             /\ qr'[c].authorized \/ qr'[c].twofa \/ qr'[c].error # "none"
    <3>1. Known' = Known
      BY <2>4, KnownStays
    <3>2. Awaited(c)'
      BY <2>4 DEF Awaited
    <3>3. ASSUME NEW d \in Known, d # c
          PROVE  Awaited(d)'
      <4>1. EntryStays(d)
        BY <1>1, <2>4, <3>3 DEF EntryStays, OtherQr
      <4>2. QED
        BY <1>1, <2>1, <2>2, <3>3, <4>1, AwaitedStays
    <3>4. AllAwaited'
      BY <3>1, <3>2, <3>3 DEF AllAwaited
    <3>5. QED
      BY <3>4, WaitedIs, PTL
  <2>5. QED
    BY <1>6, <2>3, <2>4, ScanStep, LapseStep
<1>7. QED
  BY <1>2, <1>3, <1>4, <1>5, <1>6, QrWays

\* The task that waits is the one the login knows of.
Current(w) ==
  w[1] \in Known => /\ w[2] = qr[w[1]].code /\ w[2] = qr[w[1]].wait
                    /\ \A t \in LoginTasks : ~Renewing(t, w[1])
AllCurrent == \A w \in waits : Current(w)

\* WaitsAreCurrent is what AllCurrent says.
LEMMA CurrentIs == WaitsAreCurrent <=> (Twice("qr_again") \/ AllCurrent)
BY DEF WaitsAreCurrent, AllCurrent, Current, Renewing

\* A task whose login is left alone stays so.
LEMMA CurrentStays ==
  ASSUME NEW w \in waits, Current(w), w[1] \in Known' => EntryStays(w[1]),
         \A t \in LoginTasks : Renewing(t, w[1])' => Renewing(t, w[1])
  PROVE  Current(w)'
BY DEF Current, EntryStays

\* The task that waits for a scan is the one the login knows of.
LEMMA CurrentKept ==
  ASSUME LoginsTypeOK, ClientsMatch, OverlapsAreKnown, WaitsAreCurrent, [LoginsNext]_loginVars
  PROVE  WaitsAreCurrent'
<1>1. CASE Twice("qr_again")
  <2>1. Twice("qr_again")'
    BY <1>1, OverlapsStay
  <2>2. QED
    BY <2>1, CurrentIs, PTL
<1>2. CASE ~Twice("qr_again")
  <2>1. AllCurrent
    BY <1>2, CurrentIs
  <2>2. \A w \in waits : Current(w) /\ w[1] \in Clients /\ w = <<w[1], w[2]>>
    BY <2>1 DEF AllCurrent, LoginsTypeOK
  <2>3. CASE Calm
    <3>1. ASSUME NEW w \in waits'
          PROVE  Current(w)'
      <4>1. w \in waits
        BY <2>3, <3>1 DEF Calm
      <4>2. w[1] \in Known' => EntryStays(w[1])
        BY <2>3 DEF Calm
      <4>3. \A t \in LoginTasks : Renewing(t, w[1])' => Renewing(t, w[1])
        BY <2>2, <2>3, <4>1 DEF Calm, RenewersStay
      <4>4. QED
        BY <2>2, <4>1, <4>2, <4>3, CurrentStays
    <3>2. AllCurrent'
      BY <3>1 DEF AllCurrent
    <3>3. QED
      BY <3>2, CurrentIs, PTL
  <2>4. ASSUME NEW t \in LoginTasks, Request(t), AllQr, OtherQr(t), qr'[t] = QrLogin, QrShown(t),
               RenewersStay
        PROVE  WaitsAreCurrent'
    <3>1. ~ByQr(t) /\ t \in Clients
      <4>1. login[t].pc = "request"
        BY <2>4, RequestStep
      <4>2. QED
        BY <4>1, OriginsAreClients DEF Clients
    <3>2. \A w \in waits : w[1] # t
      BY <3>1 DEF ClientsMatch
    <3>3. \A u \in LoginTasks : ~Renewing(u, t)
      <4>1. ASSUME NEW u \in LoginTasks, Renewing(u, t)
            PROVE  FALSE
        <5>1. login[u].pc = "renew" /\ login[u].cli = t
          BY <4>1 DEF Renewing
        <5>2. ForQr(u)
          BY <5>1, KindsAtSteps DEF ForQr
        <5>3. QED
          BY <3>1, <5>1, <5>2 DEF ClientsMatch
      <4>2. QED
        BY <4>1
    <3>4. ASSUME NEW w \in waits'
          PROVE  Current(w)'
      <4>1. CASE w = <<t, 1>>
        <5>1. w[1] = t /\ w[2] = 1
          BY <4>1
        <5>2. \A u \in LoginTasks : ~Renewing(u, t)'
          BY <2>4, <3>1, <3>3 DEF RenewersStay
        <5>3. QED
          BY <2>4, <5>1, <5>2, Entries DEF Current
      <4>2. CASE w \in waits
        <5>1. w[1] # t
          BY <3>2, <4>2
        <5>2. w[1] \in Known' => EntryStays(w[1])
          BY <2>2, <2>4, <4>2, <5>1 DEF QrShown, EntryStays, OtherQr
        <5>3. \A u \in LoginTasks : Renewing(u, w[1])' => Renewing(u, w[1])
          BY <2>2, <2>4, <4>2 DEF RenewersStay
        <5>4. QED
          BY <2>2, <4>2, <5>2, <5>3, CurrentStays
      <4>3. QED
        BY <2>4, <4>1, <4>2 DEF QrShown
    <3>5. AllCurrent'
      BY <3>4 DEF AllCurrent
    <3>6. QED
      BY <3>5, CurrentIs, PTL
  <2>5. ASSUME NEW t \in LoginTasks, NEW c, c = login[t].cli, Unwait(t)
        PROVE  WaitsAreCurrent'
    <3>1. /\ Went(t, "renew") /\ qr' = qr /\ waits' \subseteq waits
          /\ qr[c] # NoLogin => waits' = waits \ {<<c, qr[c].wait>>}
      BY <2>5, UnwaitStep
    <3>2. \A u \in LoginTasks : \A d : Renewing(u, d)' => Renewing(u, d) \/ d = c
      BY <2>5, <3>1 DEF Went, OtherLogins, Renewing
    <3>3. Known' = Known /\ \A d \in Known' : EntryStays(d)
      BY <3>1, KnownStays, EntriesStay
    <3>4. ASSUME NEW w \in waits'
          PROVE  Current(w)'
      <4>1. w \in waits
        BY <3>1, <3>4
      <4>2. CASE w[1] = c
        <5>1. c \notin Known
          <6>1. ASSUME c \in Known
                PROVE  FALSE
            <7>1. qr[c] # NoLogin /\ w # <<c, qr[c].wait>>
              BY <3>1, <3>4, <6>1 DEF Known
            <7>2. w[2] = qr[c].wait
              BY <2>2, <4>1, <4>2, <6>1 DEF Current
            <7>3. QED
              BY <2>2, <4>1, <4>2, <7>1, <7>2
          <6>2. QED
            BY <6>1
        <5>2. QED
          BY <3>3, <4>2, <5>1 DEF Current
      <4>3. CASE w[1] # c
        <5>1. \A u \in LoginTasks : Renewing(u, w[1])' => Renewing(u, w[1])
          BY <3>2, <4>3
        <5>2. QED
          BY <2>2, <3>3, <4>1, <5>1, CurrentStays
      <4>4. QED
        BY <4>2, <4>3
    <3>5. AllCurrent'
      BY <3>4 DEF AllCurrent
    <3>6. QED
      BY <3>5, CurrentIs, PTL
  <2>6. ASSUME NEW t \in LoginTasks, NEW c \in Clients, c = login[t].cli, Renew(t)
        PROVE  WaitsAreCurrent'
    <3>1. Went(t, "done") /\ login[t].pc = "renew" /\ Does(t) = "qr_again"
      BY <2>6, RenewStep
    <3>2. \A u \in LoginTasks : \A d : Renewing(u, d)' => Renewing(u, d) /\ u # t
      BY <2>6, <3>1 DEF Went, OtherLogins, Renewing
    <3>3. CASE UNCHANGED <<qr, waits>>
      <4>1. \A d \in Known' : EntryStays(d)
        BY <3>3, EntriesStay
      <4>2. \A w \in waits' : Current(w)'
        BY <2>2, <3>2, <3>3, <4>1, CurrentStays
      <4>3. AllCurrent'
        BY <4>2 DEF AllCurrent
      <4>4. QED
        BY <4>3, CurrentIs, PTL
    <3>4. CASE /\ qr[c] # NoLogin /\ AllQr /\ OtherQr(c) /\ qr'[c] \in QrEntry
               /\ qr'[c].code = qr[c].code + 1 /\ qr'[c].wait = qr[c].code + 1
               /\ waits' = waits \union {<<c, qr[c].code + 1>>}
      <4>1. Known' = Known /\ c \in Known /\ \A d \in Known \ {c} : d \in Clients \ {c}
        BY <3>4, KnownStays DEF Known
      <4>2. Renewing(t, c)
        BY <2>6, <3>1 DEF Renewing
      <4>3. \A w \in waits : w[1] # c
        BY <2>2, <4>1, <4>2 DEF Current
      <4>4. \A u \in LoginTasks : ~Renewing(u, c)'
        <5>1. ASSUME NEW u \in LoginTasks, Renewing(u, c), u # t
              PROVE  FALSE
          <6>1. login[u].pc = "renew" /\ Does(u) = "qr_again"
            BY <5>1, KindsAtSteps DEF Renewing
          <6>2. Overlapped(t, u)
            BY <3>1, <5>1, <6>1 DEF OverlapsAreKnown, AtWork
          <6>3. QED
            BY <1>2, <3>1, <5>1, <6>1, <6>2 DEF Twice
        <5>2. QED
          BY <3>2, <5>1
      <4>5. ASSUME NEW w \in waits'
            PROVE  Current(w)'
        <5>1. CASE w = <<c, qr[c].code + 1>>
          <6> DEFINE n == qr[c].code + 1
          <6>1. w[1] = c /\ w[2] = n /\ qr'[c].code = n /\ qr'[c].wait = n
            BY <3>4, <5>1
          <6> HIDE DEF n
          <6>2. QED
            BY <4>4, <6>1 DEF Current
        <5>2. CASE w \in waits
          <6>1. w[1] \in Known' => EntryStays(w[1])
            BY <3>4, <4>1, <4>3, <5>2 DEF EntryStays, OtherQr
          <6>2. QED
            BY <2>2, <3>2, <5>2, <6>1, CurrentStays
        <5>3. QED
          BY <3>4, <5>1, <5>2
      <4>6. AllCurrent'
        BY <4>5 DEF AllCurrent
      <4>7. QED
        BY <4>6, CurrentIs, PTL
    <3>5. QED
      BY <2>6, <3>3, <3>4, RenewStep
  <2>7. ASSUME NEW c \in Clients, NEW n \in Nat, Scan(c, n) \/ Lapse(c, n)
        PROVE  WaitsAreCurrent'
    <3>1. waits' \subseteq waits /\ login' = login
      BY <2>7, ScanStep, LapseStep
    <3>2. \A u \in LoginTasks : \A d : Renewing(u, d)' => Renewing(u, d)
      BY <3>1 DEF Renewing
    <3>3. /\ Known' = Known
          /\ \A d \in Known' : qr'[d].code = qr[d].code /\ qr'[d].wait = qr[d].wait
      <4>1. CASE qr' = qr
        BY <4>1, KnownStays
      <4>2. CASE /\ qr[c] # NoLogin /\ AllQr /\ OtherQr(c) /\ qr'[c] \in QrEntry
                 /\ qr'[c].code = qr[c].code /\ qr'[c].wait = qr[c].wait
        <5>1. Known' = Known
          BY <4>2, KnownStays
        <5>2. QED
          BY <4>2, <5>1 DEF OtherQr, Known
      <4>3. QED
        BY <2>7, <4>1, <4>2, ScanStep, LapseStep
    <3>4. \A w \in waits' : Current(w)'
      BY <2>2, <3>1, <3>2, <3>3 DEF Current
    <3>5. AllCurrent'
      BY <3>4 DEF AllCurrent
    <3>6. QED
      BY <3>5, CurrentIs, PTL
  <2>8. QED
    BY <2>3, <2>4, <2>5, <2>6, <2>7, QrWays
<1>3. QED
  BY <1>1, <1>2

\* A QR login that reports "expired" has.
LEMMA ExpiredKept ==
  ASSUME LoginsTypeOK, ClientsMatch, WaitsAreCurrent, ExpiredIsTrue, [LoginsNext]_loginVars
  PROVE  ExpiredIsTrue'
<1>1. CASE Twice("qr_again")
  BY <1>1, OverlapsStay DEF ExpiredIsTrue
<1>2. CASE ~Twice("qr_again")
  <2>1. \A c \in Known : qr[c].error = "expired" => <<c, qr[c].code>> \in lapsed
    BY <1>2 DEF ExpiredIsTrue
  <2>2. lapsed \subseteq lapsed'
    BY Lasting
  <2>3. ASSUME \A c \in Known' : qr'[c].error = "expired" => <<c, qr'[c].code>> \in lapsed'
        PROVE  ExpiredIsTrue'
    BY <2>3 DEF ExpiredIsTrue
  <2>4. ASSUME \A c \in Known' : EntryStays(c)
        PROVE  ExpiredIsTrue'
    BY <2>1, <2>2, <2>3, <2>4 DEF EntryStays
  <2>5. CASE Calm
    BY <2>4, <2>5 DEF Calm
  <2>6. ASSUME NEW c \in Clients, OtherQr(c), Known' \subseteq Known \union {c},
               qr'[c].error = "expired" /\ c \in Known' => <<c, qr'[c].code>> \in lapsed'
        PROVE  ExpiredIsTrue'
    <3>1. \A d \in Known' \ {c} : d \in Known /\ d \in Clients /\ qr'[d] = qr[d]
      BY <2>6 DEF OtherQr, Known
    <3>2. QED
      BY <2>1, <2>2, <2>3, <2>6, <3>1
  <2>7. ASSUME NEW t \in LoginTasks, OtherQr(t), qr'[t] = QrLogin, QrShown(t)
        PROVE  ExpiredIsTrue'
    <3>1. qr'[t].error = "none" /\ t \in Clients /\ Known' = Known \union {t}
      BY <2>7, Entries DEF QrShown
    <3>2. QED
      BY <2>6, <2>7, <3>1
  <2>8. ASSUME NEW t \in LoginTasks, Unwait(t)
        PROVE  ExpiredIsTrue'
    BY <2>4, <2>8, UnwaitStep, EntriesStay
  <2>9. ASSUME NEW t \in LoginTasks, login[t].cli \in Clients, Renew(t)
        PROVE  ExpiredIsTrue'
    <3>1. CASE qr' = qr
      BY <2>4, <3>1, EntriesStay
    <3>2. CASE LET c == login[t].cli IN
               qr[c] # NoLogin /\ AllQr /\ OtherQr(c) /\ qr'[c] \in QrEntry /\ qr'[c].error = "none"
      <4>1. Known' = Known
        BY <2>9, <3>2, KnownStays
      <4>2. QED
        BY <2>6, <2>9, <3>2, <4>1
    <3>3. QED
      BY <2>9, <3>1, <3>2, RenewStep
  <2>10. ASSUME NEW c \in Clients, NEW n \in Nat, Scan(c, n)
         PROVE  ExpiredIsTrue'
    <3>1. CASE qr' = qr
      BY <2>4, <3>1, EntriesStay
    <3>2. CASE /\ qr[c] # NoLogin /\ AllQr /\ OtherQr(c) /\ qr'[c] \in QrEntry
               /\ qr'[c].code = qr[c].code /\ qr'[c].error \in {qr[c].error, "failed"}
      <4>1. Known' = Known /\ c \in Known
        BY <3>2, KnownStays DEF Known
      <4>2. qr'[c].error = "expired" => <<c, qr'[c].code>> \in lapsed'
        BY <2>1, <2>2, <3>2, <4>1
      <4>3. QED
        BY <2>6, <3>2, <4>1, <4>2
    <3>3. QED
      BY <2>10, <3>1, <3>2, ScanStep
  <2>11. ASSUME NEW c \in Clients, NEW n \in Nat, Lapse(c, n)
         PROVE  ExpiredIsTrue'
    <3>1. CASE qr' = qr
      BY <2>4, <3>1, EntriesStay
    <3>2. CASE /\ qr[c] # NoLogin /\ AllQr /\ OtherQr(c) /\ qr'[c] \in QrEntry
               /\ qr'[c].code = qr[c].code
      <4>1. Known' = Known /\ c \in Known
        BY <3>2, KnownStays DEF Known
      <4>2. <<c, n>> \in waits /\ <<c, n>> \in lapsed' /\ <<c, n>>[1] = c /\ <<c, n>>[2] = n
        BY <2>11, LapseStep
      <4>3. n = qr[c].code
        BY <1>2, <4>1, <4>2 DEF WaitsAreCurrent
      <4>4. QED
        BY <2>6, <3>2, <4>1, <4>2, <4>3
    <3>3. QED
      BY <2>11, <3>1, <3>2, LapseStep
  <2>12. QED
    BY <2>5, <2>7, <2>8, <2>9, <2>10, <2>11, QrWays
<1>3. QED
  BY <1>1, <1>2

-------------------------------------------------------------------------------
(* Accounts that are stored. *)

\* A login that is over is not pending again.
LEMMA NeverAgain ==
  ASSUME LoginsTypeOK, ClientsMatch, [LoginsNext]_loginVars, NEW c
  PROVE  /\ ByCode(c) /\ Pending # c => Pending' # c
         /\ ByQr(c) /\ c \notin Known => c \notin Known'
<1>1. ByCode(c) \/ ByQr(c) => c \in Clients /\ c # NoLogin /\ c \notin Requesting
  BY OriginsAreClients, Entries DEF Requesting
<1>2. Pending' \in {Pending, NoLogin} \union Requesting
  <2>1. SameCode => Pending' = Pending
    BY DEF SameCode, Pending
  <2>2. otp' = NoLogin => Pending' = NoLogin
    BY DEF Pending
  <2>3. ASSUME NEW t \in LoginTasks, CodeSent(t)
        PROVE  Pending' \in Requesting
    BY <2>3 DEF CodeSent, Pending
  <2>4. QED
    BY <2>1, <2>2, <2>3, ClientWays
       DEF Freed, Quiet, TakenOut, Connected, QrShown, QrUndone, SameCode
<1>3. Known' \subseteq Known \union Requesting
  BY ClientWays, KnownStays DEF Freed, Quiet, TakenOut, Connected, CodeSent, QrShown, QrUndone
<1>4. QED
  BY <1>1, <1>2, <1>3

\* Who begins to store an account.
LEMMA PersistWays ==
  ASSUME LoginsTypeOK, ClientsMatch, [LoginsNext]_loginVars, NEW t \in LoginTasks,
         login'[t].pc = "persist"
  PROVE  \/ login'[t] = login[t]
         \/ /\ Does(t) \in {"code", "pass"} /\ ForCode(t) /\ login'[t].cli = login[t].cli
            /\ otp' = NoLogin /\ persisted' = persisted
         \/ /\ Does(t) \in {"qr_poll", "qr_pass"} /\ ForQr(t) /\ login'[t].cli = login[t].cli
            /\ login[t].cli \in Known /\ login[t].cli \notin Known'
            /\ persisted' = persisted /\ OtherLogins(t)
<1>1. ASSUME NEW pc, Went(t, pc)
      PROVE  pc = "persist" /\ login'[t].cli = login[t].cli /\ OtherLogins(t)
  BY <1>1 DEF Went
<1>2. ~(Enter(t) \/ Sweep(t))
  BY EnterStep, SweepStep
<1>3. ~(Connect(t) \/ Request(t) \/ Undo(t))
  BY <1>1, ConnectStep, RequestStep, UndoStep
<1>4. ~(Sign(t) \/ Persist(t) \/ Finalize(t) \/ Unwait(t))
  BY <1>1, SignStep, PersistStep, FinalizeStep, UnwaitStep
<1>5. ~(login[t].cli \in Clients /\ (Renew(t) \/ SignQr(t)))
  <2>1. login[t].cli \in Clients => ~Renew(t)
    <3>1. login[t].cli \in Clients /\ Renew(t) => Went(t, "done")
      BY RenewStep
    <3>2. QED
      BY <1>1, <3>1
  <2>2. login[t].cli \in Clients => ~SignQr(t)
    <3>1. login[t].cli \in Clients /\ SignQr(t) => Went(t, "final") \/ Went(t, "done")
      BY SignQrStep
    <3>2. QED
      BY <1>1, <3>1
  <2>3. QED
    BY <2>1, <2>2
<1>6. SweepQr(t) => login' = login
  BY <1>1, SweepQrStep
<1>7. ASSUME Drop(t)
      PROVE  /\ Does(t) \in {"code", "pass"} /\ ForCode(t) /\ login'[t].cli = login[t].cli
             /\ otp' = NoLogin /\ persisted' = persisted
  <2>1. /\ login[t].pc = "store" /\ Went(t, "persist")
        /\ otp' = NoLogin /\ persisted' = persisted
    BY <1>1, <1>7, DropStep
  <2>2. Does(t) \in {"code", "pass"}
    BY <2>1, KindsAtSteps
  <2>3. QED
    BY <1>1, <2>1, <2>2 DEF ForCode
<1>8. ASSUME Move(t)
      PROVE  /\ Does(t) \in {"qr_poll", "qr_pass"} /\ ForQr(t) /\ login'[t].cli = login[t].cli
             /\ login[t].cli \in Known /\ login[t].cli \notin Known'
             /\ persisted' = persisted /\ OtherLogins(t)
  <2>1. /\ login[t].pc = "move" /\ Does(t) \in {"qr_poll", "qr_pass"} /\ persisted' = persisted
        /\ qr[login[t].cli] # NoLogin /\ Went(t, "persist") /\ TakeOut(login[t].cli)
    BY <1>1, <1>8, MoveStep
  <2>2. login[t].cli \in Clients /\ ForQr(t)
    BY <2>1, WorksOnClient, KindsAtSteps
  <2>3. login[t].cli \in Known /\ qr'[login[t].cli] = NoLogin
    BY <2>1, <2>2, TakingOut DEF Known
  <2>4. login[t].cli \notin Known'
    BY <2>3 DEF Known
  <2>5. QED
    BY <1>1, <2>1, <2>2, <2>3, <2>4
<1>9. QED
  BY <1>2, <1>3, <1>4, <1>5, <1>6, <1>7, <1>8, ItselfOnly

\* An account is stored by one request at a time.
LEMMA PersistedWays ==
  ASSUME LoginsTypeOK, ClientsMatch, [LoginsNext]_loginVars
  PROVE  persisted' = persisted \/ \E t \in LoginTasks : Persist(t)
<1>1. ASSUME NEW t \in LoginTasks,
             Enter(t) \/ Drop(t) \/ Connect(t) \/ Request(t) \/ Sign(t)
      PROVE  persisted' = persisted
  BY <1>1, EnterStep, DropStep, ConnectStep, RequestStep, SignStep
<1>2. ASSUME NEW t \in LoginTasks,
             Unwait(t) \/ Finalize(t) \/ Move(t) \/ Undo(t) \/ Sweep(t) \/ SweepQr(t)
      PROVE  persisted' = persisted
  BY <1>2, UnwaitStep, FinalizeStep, MoveStep, UndoStep, SweepStep, SweepQrStep
<1>3. ASSUME NEW t \in LoginTasks, login[t].cli \in Clients, Renew(t) \/ SignQr(t)
      PROVE  persisted' = persisted
  BY <1>3, RenewStep, SignQrStep
<1>4. ASSUME NEW c \in Clients, NEW n \in Nat, Scan(c, n) \/ Lapse(c, n)
      PROVE  persisted' = persisted
  BY <1>4, ScanStep, LapseStep
<1>5. QED
  BY <1>1, <1>2, <1>3, <1>4, StepIs, AgedStep DEF loginVars

\* Of which kind is a request that stores an account, and whose.
LEMMA StorersAre ==
  ASSUME LoginsTypeOK, ClientsMatch, NEW t \in LoginTasks, login[t].pc = "persist"
  PROVE  \/ Does(t) \in {"code", "pass"} /\ ForCode(t) /\ ByCode(login[t].cli)
         \/ Does(t) \in {"qr_poll", "qr_pass"} /\ ForQr(t) /\ ByQr(login[t].cli)
<1>1. Does(t) \in {"code", "pass", "qr_poll", "qr_pass"}
  BY KindsAtSteps
<1>2. QED
  BY <1>1 DEF ClientsMatch, ForCode, ForQr

\* An account is stored once.
LEMMA StoredKept ==
  ASSUME LoginsTypeOK, ClientsMatch, StoredOnce, StoresMatch, [LoginsNext]_loginVars
  PROVE  StoredOnce'
<1>1. plan' = plan
  BY Lasting
<1>2. CASE persisted' = persisted
  BY <1>1, <1>2, OverlapsStay DEF StoredOnce, Does
<1>3. ASSUME NEW t \in LoginTasks, Persist(t)
      PROVE  StoredOnce'
  <2> DEFINE r == <<login[t].cli, t>>
  <2>1. login[t].pc = "persist" /\ persisted' = persisted \union {r}
    BY <1>3, PersistStep
  <2>2. r[1] = login[t].cli /\ r[2] = t
    OBVIOUS
  <2>3. \A q \in persisted : q = <<q[1], q[2]>>
    BY DEF LoginsTypeOK
  <2>4. ASSUME NEW q \in persisted, q[1] = login[t].cli, q # r
        PROVE  /\ Does(t) \in {"code", "pass"} /\ Does(q[2]) \in {"code", "pass"}
               /\ Overlapped(t, q[2]) /\ Overlapped(q[2], t)
    <3>1. CASE Does(t) \in {"qr_poll", "qr_pass"}
      BY <2>1, <2>4, <3>1 DEF StoresMatch
    <3>2. CASE Does(t) \in {"code", "pass"} /\ ForCode(t) /\ ByCode(login[t].cli)
      <4>1. q[2] # t
        BY <2>3, <2>4
      <4>2. Overlapped(t, q[2])
        BY <2>4, <3>2, <4>1 DEF StoresMatch
      <4>3. ~ByQr(login[t].cli)
        BY <3>2, OriginsAreClients
      <4>4. Does(q[2]) \in {"code", "pass"}
        BY <2>4, <4>3 DEF StoresMatch
      <4>5. {t, q[2]} = {q[2], t}
        OBVIOUS
      <4>6. QED
        BY <3>2, <4>2, <4>4, <4>5 DEF Overlapped
    <3>3. QED
      BY <2>1, <3>1, <3>2, StorersAre
  <2>5. ASSUME NEW p \in persisted', NEW q \in persisted', p[1] = q[1], p # q
        PROVE  Does(p[2]) \in {"code", "pass"} /\ Overlapped(p[2], q[2])
    <3>1. CASE p \in persisted /\ q \in persisted
      BY <2>5, <3>1 DEF StoredOnce
    <3>2. CASE p = r
      <4>1. q \in persisted /\ q[1] = login[t].cli /\ q # r
        BY <2>1, <2>2, <2>5, <3>2
      <4>2. QED
        BY <2>2, <2>4, <3>2, <4>1
    <3>3. CASE q = r
      <4>1. p \in persisted /\ p[1] = login[t].cli /\ p # r
        BY <2>1, <2>2, <2>5, <3>3
      <4>2. QED
        BY <2>2, <2>4, <3>3, <4>1
    <3>4. QED
      BY <2>1, <2>5, <3>1, <3>2, <3>3
  <2> HIDE DEF r
  <2>6. QED
    BY <1>1, <2>5, OverlapsStay DEF StoredOnce, Does
<1>4. QED
  BY <1>2, <1>3, PersistedWays

\* What is stored has been taken out or dropped.
LEMMA StoresKept ==
  ASSUME LoginsTypeOK, ClientsMatch, OverlapsAreKnown, StoresMatch, [LoginsNext]_loginVars
  PROVE  StoresMatch'
<1>1. plan' = plan
  BY Lasting
<1>2. \A c : ~(ByCode(c) /\ ByQr(c)) /\ (ByCode(c) \/ ByQr(c) => c \in Clients)
  BY OriginsAreClients
<1> DEFINE Over(c, t) ==
      \/ Does(t) \in {"code", "pass"} /\ ByCode(c) /\ Pending # c
      \/ Does(t) \in {"qr_poll", "qr_pass"} /\ ByQr(c) /\ c \notin Known
<1>3. ASSUME NEW c, NEW t, Over(c, t)
      PROVE  Over(c, t)'
  <2>1. Does(t)' = Does(t)
    BY <1>1 DEF Does
  <2>2. QED
    BY <1>3, <2>1, NeverAgain, OriginsStay
<1>4. \A p \in persisted : Over(p[1], p[2])
  BY DEF StoresMatch
<1>5. ASSUME NEW t \in LoginTasks, Persist(t)
      PROVE  /\ login[t].pc = "persist" /\ login'[t].pc = "done" /\ OtherLogins(t)
             /\ persisted' = persisted \union {<<login[t].cli, t>>}
             /\ UNCHANGED <<otp, qr>>
             /\ Over(login[t].cli, t)
  <2>1. /\ login[t].pc = "persist" /\ Went(t, "done")
        /\ persisted' = persisted \union {<<login[t].cli, t>>} /\ UNCHANGED <<otp, qr>>
    BY <1>5, PersistStep
  <2>2. Over(login[t].cli, t)
    BY <2>1, StorersAre DEF StoresMatch
  <2>3. QED
    BY <2>1, <2>2 DEF Went
<1>6. \A p \in persisted' : Over(p[1], p[2])'
  <2>1. \A p \in persisted' : Over(p[1], p[2])
    <3>1. CASE persisted' = persisted
      BY <1>4, <3>1
    <3>2. ASSUME NEW t \in LoginTasks, Persist(t)
          PROVE  \A p \in persisted' : Over(p[1], p[2])
      <4>1. \A p \in persisted' : p \in persisted \/ (p[1] = login[t].cli /\ p[2] = t)
        BY <1>5, <3>2
      <4>2. QED
        BY <1>4, <1>5, <3>2, <4>1
    <3>3. QED
      BY <3>1, <3>2, PersistedWays
  <2>2. QED
    BY <1>3, <2>1
<1> HIDE DEF Over
<1>7. ASSUME NEW t \in LoginTasks, login'[t].pc = "persist"
      PROVE  IF Does(t)' \in {"code", "pass"} THEN Pending' # login'[t].cli
             ELSE /\ login'[t].cli \notin Known' /\ \A p \in persisted' : p[1] # login'[t].cli
                  /\ \A u \in LoginTasks \ {t} :
                       login'[u].pc = "persist" => login'[u].cli # login'[t].cli
  <2>1. Does(t)' = Does(t)
    BY <1>1 DEF Does
  <2>2. ASSUME NEW u \in LoginTasks, login'[u] = login[u], login[u].pc = "persist"
        PROVE  /\ Does(u) \in {"code", "pass"} => Pending' # login[u].cli
               /\ Does(u) \notin {"code", "pass"} => login[u].cli \notin Known'
    BY <2>2, StorersAre, NeverAgain DEF StoresMatch
  <2>3. CASE /\ login'[t] = login[t] /\ Does(t) \in {"code", "pass"}
    BY <1>7, <2>1, <2>2, <2>3
  <2>4. CASE /\ Does(t) \in {"code", "pass"} /\ ForCode(t) /\ login'[t].cli = login[t].cli
             /\ otp' = NoLogin
    <3>1. login[t].cli \in Clients /\ Pending' = NoLogin
      BY <1>2, <2>4 DEF ClientsMatch, Pending
    <3>2. QED
      BY <2>1, <2>4, <3>1, Entries
  <2>5. CASE login'[t] = login[t] /\ Does(t) \notin {"code", "pass"}
    <3>1. /\ login[t].pc = "persist" /\ login[t].cli \notin Known' /\ ByQr(login[t].cli)
          /\ Does(t) \in {"qr_poll", "qr_pass"}
      BY <1>7, <2>2, <2>5, StorersAre
    <3>2. \A p \in persisted : p[1] # login[t].cli
      BY <2>5, <3>1 DEF StoresMatch
    <3>3. ASSUME NEW u \in LoginTasks \ {t}, login[u].pc = "persist"
          PROVE  login[u].cli # login[t].cli
      BY <2>5, <3>1, <3>3 DEF StoresMatch
    <3>4. \A p \in persisted' : p[1] # login[t].cli
      <4>1. ASSUME NEW u \in LoginTasks, Persist(u)
            PROVE  \A p \in persisted' : p[1] # login[t].cli
        <5>1. u # t /\ login[u].pc = "persist"
          BY <1>5, <1>7, <4>1
        <5>2. login[u].cli # login[t].cli
          BY <3>3, <5>1
        <5>3. \A p \in persisted' : p \in persisted \/ p[1] = login[u].cli
          BY <1>5, <4>1
        <5>4. QED
          BY <3>2, <5>2, <5>3
      <4>2. QED
        BY <3>2, <4>1, PersistedWays
    <3>5. ASSUME NEW u \in LoginTasks \ {t}, login'[u].pc = "persist"
          PROVE  login'[u].cli # login[t].cli
      <4>1. CASE login'[u] = login[u]
        BY <3>3, <3>5, <4>1
      <4>2. CASE ForCode(u) /\ login'[u].cli = login[u].cli
        BY <1>2, <3>1, <4>2 DEF ClientsMatch
      <4>3. CASE login'[u].cli = login[u].cli /\ login[u].cli \in Known
        BY <2>5, <3>1, <4>3 DEF StoresMatch
      <4>4. QED
        BY <3>5, <4>1, <4>2, <4>3, PersistWays
    <3>6. QED
      BY <2>1, <2>5, <3>1, <3>4, <3>5
  <2>6. CASE /\ Does(t) \in {"qr_poll", "qr_pass"} /\ ForQr(t) /\ login'[t].cli = login[t].cli
             /\ login[t].cli \in Known /\ login[t].cli \notin Known'
             /\ persisted' = persisted /\ OtherLogins(t)
    <3>1. ByQr(login[t].cli)
      BY <2>6 DEF ClientsMatch
    <3>2. \A p \in persisted' : p[1] # login[t].cli
      BY <1>2, <2>6, <3>1 DEF StoresMatch
    <3>3. ASSUME NEW u \in LoginTasks \ {t}, login'[u].pc = "persist"
          PROVE  login'[u].cli # login[t].cli
      <4>1. login'[u] = login[u]
        BY <2>6 DEF OtherLogins
      <4>2. CASE Does(u) \in {"code", "pass"} /\ ByCode(login[u].cli)
        BY <1>2, <3>1, <4>1, <4>2
      <4>3. CASE Does(u) \in {"qr_poll", "qr_pass"}
        BY <2>6, <3>3, <4>1, <4>3 DEF StoresMatch
      <4>4. QED
        BY <3>3, <4>1, <4>2, <4>3, StorersAre
    <3>4. QED
      BY <2>1, <2>6, <3>2, <3>3
  <2>7. QED
    BY <1>7, <2>3, <2>4, <2>5, <2>6, PersistWays
<1>8. ASSUME NEW t \in LoginTasks, NEW p \in persisted', ForCode(t)', p[1] = login'[t].cli, p[2] # t
      PROVE  Overlapped(t, p[2])'
  <2>1. CASE /\ ForCode(t) /\ login'[t].cli = login[t].cli
    <3>1. CASE p \in persisted
      <4>1. Overlapped(t, p[2])
        BY <1>8, <2>1, <3>1 DEF StoresMatch
      <4>2. QED
        BY <4>1, OverlapsStay
    <3>2. ASSUME NEW u \in LoginTasks, Persist(u), p[2] = u
          PROVE  Overlapped(t, p[2])'
      <4>1. t \in AtWork /\ u \in AtWork /\ t # u
        BY <1>5, <1>8, <2>1, <3>2 DEF AtWork, ForCode
      <4>2. Overlapped(t, u)
        BY <4>1 DEF OverlapsAreKnown
      <4>3. QED
        BY <3>2, <4>2, OverlapsStay
    <3>3. p \in persisted \/ \E u \in LoginTasks : Persist(u) /\ p[2] = u
      BY <1>5, PersistedWays
    <3>4. QED
      BY <3>1, <3>2, <3>3
  <2>2. CASE otp # NoLogin /\ login'[t].cli = otp.cli /\ Enter(t)
    <3>1. persisted' = persisted
      BY <2>2, EnterStep
    <3>2. ByCode(p[1]) /\ Pending = p[1]
      BY <1>8, <2>2, PendingIs DEF ClientsMatch
    <3>3. QED
      BY <1>2, <1>4, <3>1, <3>2 DEF Over
  <2>3. QED
    BY <1>8, <2>1, <2>2, ForWays
<1>9. QED
  BY <1>6, <1>7, <1>8 DEF StoresMatch, Over

-------------------------------------------------------------------------------
(* The login that a request or a sweep has found. *)

\* What a request by code, or a sweep, finds when it arrives.
LEMMA EnterFinds ==
  ASSUME LoginsTypeOK, NEW t \in LoginTasks, Enter(t)
  PROVE  /\ Does(t) \in {"code", "pass"} => login'[t].cli = Pending
         /\ login'[t].pc = "sweep" =>
              login'[t].cli = Pending /\ (login'[t].old => otp # NoLogin /\ otp.old)
<1>1. login' \in [LoginTasks -> LoginPlace] /\ login'[t].pc \in LoginStepsOf(Does(t))
  BY EnterStep
<1>2. CASE Does(t) \in {"code", "pass"}
  <2> DEFINE pc == IF otp = NoLogin THEN "done" ELSE "sign"
  <2>1. login' = [login EXCEPT ![t] = [Rests EXCEPT !.pc = pc, !.cli = Pending]]
    BY <1>2 DEF Enter, Requested
  <2>2. login'[t] = [Rests EXCEPT !.pc = pc, !.cli = Pending]
    BY <2>1 DEF LoginsTypeOK
  <2>3. login'[t].cli = Pending /\ login'[t].pc # "sweep"
    BY <2>2 DEF Rests
  <2>4. QED
    BY <2>3
<1>3. CASE Does(t) = "sweep"
  <2> DEFINE old == otp # NoLogin /\ otp.old
  <2>1. login' = [login EXCEPT ![t] = [pc |-> "sweep", cli |-> Pending, old |-> old]]
    BY <1>3 DEF Enter, Requested
  <2> HIDE DEF old
  <2>2. login'[t] = [pc |-> "sweep", cli |-> Pending, old |-> old]
    BY <2>1 DEF LoginsTypeOK
  <2>3. login'[t].cli = Pending /\ (login'[t].old => old)
    BY <2>2
  <2>4. QED
    BY <1>3, <2>3 DEF old
<1>4. CASE Does(t) \notin {"code", "pass", "sweep"}
  <2>1. "sweep" \notin LoginStepsOf(Does(t))
    BY <1>4, KindsAtSteps, StepsAre DEF LoginKinds
  <2>2. QED
    BY <1>1, <1>4, <2>1
<1>5. QED
  BY <1>2, <1>3, <1>4

\* Who has found a login holds on to it.
LEMMA FoundWays ==
  ASSUME LoginsTypeOK, ClientsMatch, [LoginsNext]_loginVars, NEW t \in LoginTasks, Found(t)'
  PROVE  \/ /\ Found(t) /\ login'[t].cli = login[t].cli
            /\ login'[t].pc = "sweep" => login'[t] = login[t]
         \/ Enter(t)
<1>1. Does(t)' = Does(t)
  BY Lasting DEF Does
<1>2. login'[t].pc \in {"sign", "store", "drop", "sweep"}
  BY DEF Found
<1>3. CASE login'[t] = login[t]
  BY <1>1, <1>3 DEF Found
<1>4. CASE Sign(t)
  <2>1. /\ login[t].pc = "sign" /\ Does(t) \in {"code", "pass"}
        /\ Went(t, "store") \/ Went(t, "done") \/ Went(t, "drop")
    BY <1>4, SignStep
  <2>2. QED
    BY <2>1 DEF Went, Found
<1>5. CASE Drop(t) \/ Connect(t) \/ Request(t) \/ Persist(t)
  BY <1>2, <1>5, DropStep, ConnectStep, RequestStep, PersistStep DEF Went
<1>6. CASE Unwait(t) \/ Finalize(t) \/ Move(t) \/ Undo(t)
  BY <1>2, <1>6, UnwaitStep, FinalizeStep, MoveStep, UndoStep DEF Went
<1>7. CASE Sweep(t) \/ SweepQr(t)
  BY <1>2, <1>3, <1>7, SweepStep, SweepQrStep DEF Went
<1>8. CASE login[t].cli \in Clients /\ (Renew(t) \/ SignQr(t))
  BY <1>2, <1>8, RenewStep, SignQrStep DEF Went
<1>9. QED
  BY <1>3, <1>4, <1>5, <1>6, <1>7, <1>8, ItselfOnly

\* What becomes of the login by code that is pending.
PendsOn ==
  otp # NoLogin /\ otp' # NoLogin /\ otp'.cli = otp.cli /\ (otp.old => otp'.old)
Dropped(t) ==
  /\ login[t].pc \in {"drop", "store"} \/ (login[t].pc = "sweep" /\ login[t].old)
  /\ otp' = NoLogin /\ login'[t].pc # login[t].pc
Began(t) ==
  /\ login[t].pc = "request" /\ Does(t) = "send" /\ login'[t].pc = "done"
  /\ otp' # NoLogin /\ otp'.cli = t

LEMMA OtpWays ==
  ASSUME LoginsTypeOK, ClientsMatch, [LoginsNext]_loginVars
  PROVE  otp' = otp \/ PendsOn \/ \E t \in LoginTasks : Dropped(t) \/ Began(t)
<1>1. \A e \in OtpEntry : e # NoLogin
  BY Entries
<1>2. ASSUME NEW t \in LoginTasks, Drop(t)
      PROVE  Dropped(t)
  BY <1>2, DropStep DEF Dropped, Went
<1>3. ASSUME NEW t \in LoginTasks, Request(t)
      PROVE  otp' = otp \/ Began(t)
  <2>1. t \in Clients /\ OtpLogin(t) \in OtpEntry /\ OtpLogin(t).cli = t
    BY Entries
  <2>2. QED
    BY <1>1, <1>3, <2>1, RequestStep DEF Began, Went
<1>4. ASSUME NEW t \in LoginTasks, Sign(t)
      PROVE  otp' = otp \/ PendsOn
  BY <1>1, <1>4, SignStep DEF PendsOn
<1>5. ASSUME NEW t \in LoginTasks, Sweep(t)
      PROVE  otp' = otp \/ Dropped(t)
  BY <1>5, SweepStep DEF Dropped
<1>6. CASE Aged
  BY <1>1, <1>6, AgedStep DEF PendsOn
<1>7. ASSUME NEW t \in LoginTasks, Enter(t) \/ Connect(t) \/ Persist(t) \/ Unwait(t) \/ Finalize(t)
      PROVE  otp' = otp
  BY <1>7, EnterStep, ConnectStep, PersistStep, UnwaitStep, FinalizeStep
<1>8. ASSUME NEW t \in LoginTasks, Move(t) \/ Undo(t) \/ SweepQr(t)
      PROVE  otp' = otp
  BY <1>8 DEF Move, Undo, SweepQr
<1>9. ASSUME NEW t \in LoginTasks, Renew(t) \/ SignQr(t)
      PROVE  otp' = otp
  BY <1>9 DEF Renew, SignQr
<1>10. ASSUME NEW c \in Clients, NEW n \in Nat, Scan(c, n) \/ Lapse(c, n)
       PROVE  otp' = otp
  BY <1>10 DEF Scan, Lapse
<1>11. QED
  BY <1>2, <1>3, <1>4, <1>5, <1>6, <1>7, <1>8, <1>9, <1>10, StepIs DEF loginVars

\* A login that takes the place of the one that was found is begun by a request
\* at work beside the one that found it.
LEMMA FoundKept ==
  ASSUME LoginsTypeOK, ClientsMatch, OverlapsAreKnown, FoundIsPending, [LoginsNext]_loginVars
  PROVE  FoundIsPending'
<1> SUFFICES ASSUME otp' # NoLogin, NEW t \in LoginTasks, Found(t)'
             PROVE  \/ {t, otp'.cli} \in beside'
                    \/ /\ login'[t].cli = otp'.cli
                       /\ login'[t].pc = "sweep" /\ login'[t].old => otp'.old
  BY DEF FoundIsPending, Overlapped
<1>1. CASE Enter(t)
  <2>1. otp' = otp
    BY <1>1, EnterStep
  <2>2. otp # NoLogin => Pending = otp.cli
    BY PendingIs
  <2>3. Does(t)' = Does(t)
    BY Lasting DEF Does
  <2>4. QED
    BY <1>1, <2>1, <2>2, <2>3, EnterFinds DEF Found
<1>2. CASE /\ Found(t) /\ login'[t].cli = login[t].cli
           /\ login'[t].pc = "sweep" => login'[t] = login[t]
  <2>1. CASE otp' = otp \/ PendsOn
    <3>1. otp # NoLogin /\ otp'.cli = otp.cli /\ (otp.old => otp'.old)
      BY <2>1 DEF PendsOn
    <3>2. \/ Overlapped(t, otp.cli)
          \/ /\ login[t].cli = otp.cli
             /\ login[t].pc = "sweep" /\ login[t].old => otp.old
      BY <1>2, <3>1 DEF FoundIsPending
    <3>3. Overlapped(t, otp.cli) => {t, otp'.cli} \in beside'
      BY <3>1, Lasting DEF Overlapped
    <3>4. QED
      BY <1>2, <3>1, <3>2, <3>3
  <2>2. ASSUME NEW u \in LoginTasks, Began(u)
        PROVE  {t, otp'.cli} \in beside'
    <3>1. t # u /\ {t, u} \subseteq AtWork
      BY <1>2, <2>2 DEF Began, Found, AtWork
    <3>2. {t, u} \in beside'
      BY <3>1, Lasting DEF OverlapsAreKnown, Overlapped
    <3>3. QED
      BY <2>2, <3>2 DEF Overlapped, Began
  <2>3. QED
    BY <2>1, <2>2, OtpWays DEF Dropped
<1>3. QED
  BY <1>1, <1>2, FoundWays

-------------------------------------------------------------------------------
\* At first one login is under way, or none.
LEMMA InitHolds == LoginsInit => LoginsInv
<1> SUFFICES ASSUME LoginsInit
             PROVE  LoginsInv
  OBVIOUS
<1>1. /\ plan \in LoginScenarios /\ plan \in LoginScenario
      /\ login = [t \in LoginTasks |-> Rests]
      /\ lapsed = {} /\ persisted = {} /\ beside = {} /\ failed = FALSE
  BY LoginAssumption DEF LoginsInit
<1>2. /\ plan.otp \in {"none", "code", "twofa"} /\ plan.qr \in {"none", "waiting", "twofa"}
      /\ plan.otp = "none" \/ plan.qr = "none"
      /\ \A t \in LoginTasks : Does(t) \in LoginKinds
  BY <1>1 DEF LoginScenario, Does
<1>3. Rests.pc = "off" /\ Rests.cli = NoLogin /\ Rests.old = FALSE
  BY DEF Rests
<1>4. \A t \in LoginTasks : login[t].pc = "off" /\ login[t] = Rests
  BY <1>1, <1>3
<1>5. Rests \in LoginPlace
  <2>1. "off" \in LoginSteps
    BY StepsAre, StepsOfKinds DEF LoginKinds
  <2>2. QED
    BY <2>1 DEF Rests, LoginPlace
<1>6. \A t \in LoginTasks : "off" \in LoginStepsOf(Does(t))
  BY <1>2, StepsAre DEF LoginKinds
<1>7. AtWork = {} /\ Requesting = {}
  BY <1>4 DEF AtWork, Requesting
<1>8. Origin \in Clients /\ Origin # NoLogin
  BY Entries DEF Clients
<1>9. /\ otp \in OtpEntry \union {NoLogin}
      /\ plan.otp = "none" => otp = NoLogin
      /\ plan.otp # "none" => otp # NoLogin /\ otp.cli = Origin
  <2>1. CASE plan.otp = "none"
    BY <2>1 DEF LoginsInit
  <2>2. CASE plan.otp # "none"
    <3> DEFINE both == plan.otp = "twofa"
               e == [OtpLogin(Origin) EXCEPT !.twofa = both]
    <3>1. otp = e
      BY <2>2 DEF LoginsInit
    <3>2. both \in BOOLEAN
      OBVIOUS
    <3> HIDE DEF both
    <3>3. e \in OtpEntry /\ e.cli = Origin
      BY <1>8, <3>2 DEF OtpLogin, OtpEntry
    <3>4. QED
      BY <2>2, <3>1, <3>3, Entries
  <2>3. QED
    BY <2>1, <2>2
<1>10. /\ qr \in [Clients -> QrEntry \union {NoLogin}]
       /\ \A c \in Clients : c # Origin \/ plan.qr = "none" => qr[c] = NoLogin
       /\ plan.qr # "none" => /\ qr[Origin] # NoLogin /\ qr[Origin].error = "none"
                              /\ qr[Origin].code = 1
       /\ plan.qr = "waiting" => qr[Origin].wait = 1
       /\ plan.qr = "twofa" => qr[Origin].twofa
  <2> DEFINE e == [QrLogin EXCEPT !.twofa = TRUE, !.wait = 0]
  <2>1. e \in QrEntry /\ e.error = "none" /\ e.code = 1 /\ e.twofa
    BY DEF QrLogin, QrEntry
  <2>2. qr = [c \in Clients |-> IF c # Origin \/ plan.qr = "none" THEN NoLogin
                                ELSE IF plan.qr = "waiting" THEN QrLogin ELSE e]
    BY DEF LoginsInit
  <2> HIDE DEF e
  <2>3. QED
    BY <1>2, <1>8, <2>1, <2>2, Entries
<1>11. /\ waits = IF plan.qr = "waiting" THEN {<<Origin, 1>>} ELSE {}
       /\ line = IF plan.otp = "none" /\ plan.qr = "none" THEN {} ELSE {Origin}
       /\ temp = IF plan.qr = "none" THEN {} ELSE {Origin}
  BY DEF LoginsInit
<1>12. LoginsTypeOK
  <2>1. login \in [LoginTasks -> LoginPlace] /\ \A t \in LoginTasks : login[t].pc \in LoginStepsOf(Does(t))
    BY <1>1, <1>4, <1>5, <1>6
  <2>2. line \subseteq Clients /\ temp \subseteq Clients /\ waits \subseteq Clients \X Nat
    BY <1>8, <1>11
  <2>3. lapsed \subseteq Clients \X Nat /\ persisted \subseteq Clients \X LoginTasks
        /\ beside \subseteq SUBSET LoginTasks
    BY <1>1
  <2>4. failed \in BOOLEAN
    BY <1>1
  <2>5. QED
    BY <1>1, <1>9, <1>10, <2>1, <2>2, <2>3, <2>4 DEF LoginsTypeOK
<1>13. Known = IF plan.qr = "none" THEN {} ELSE {Origin}
  BY <1>8, <1>10 DEF Known
<1>14. Pending = IF plan.otp = "none" THEN NoLogin ELSE Origin
  BY <1>9 DEF Pending
<1>15. ClientsMatch
  <2>1. otp # NoLogin => ByCode(otp.cli)
    BY <1>9 DEF ByCode
  <2>2. \A c \in Known : ByQr(c) /\ c \in line
    BY <1>11, <1>13 DEF ByQr
  <2>3. \A w \in waits : ByQr(w[1])
    BY <1>11 DEF ByQr
  <2>4. \A t \in LoginTasks : ~ForCode(t) /\ ~ForQr(t) /\ login[t].pc # "request"
    BY <1>4 DEF ForCode, ForQr
  <2>5. QED
    BY <2>1, <2>2, <2>3, <2>4 DEF ClientsMatch
<1>16. OverlapsAreKnown /\ PhoneIsFree
  BY <1>4, <1>7 DEF OverlapsAreKnown, PhoneIsFree
<1>17. NothingIsLost
  BY <1>2, <1>11, <1>13, <1>14 DEF NothingIsLost
<1>18. WaitingIsWaited
  <2>1. \A c \in Known : c = Origin /\ plan.qr # "none"
    BY <1>13
  <2>2. CASE plan.qr = "waiting"
    BY <1>10, <1>11, <2>1, <2>2 DEF WaitingIsWaited
  <2>3. CASE plan.qr = "twofa"
    BY <1>10, <2>1, <2>3 DEF WaitingIsWaited
  <2>4. QED
    BY <1>2, <2>1, <2>2, <2>3 DEF WaitingIsWaited
<1>19. WaitsAreCurrent
  <2>1. \A w \in waits : w[1] = Origin /\ w[2] = 1 /\ plan.qr = "waiting"
    BY <1>11
  <2>2. QED
    BY <1>4, <1>10, <2>1 DEF WaitsAreCurrent
<1>20. ExpiredIsTrue
  BY <1>10, <1>13 DEF ExpiredIsTrue
<1>21. StoredOnce /\ StoresMatch
  BY <1>1, <1>4 DEF StoredOnce, StoresMatch
<1>22. QED
  <2>1. FoundIsPending
    BY <1>4 DEF FoundIsPending, Found
  <2>2. QED
    BY <1>12, <1>15, <1>16, <1>17, <1>18, <1>19, <1>20, <1>21, <2>1 DEF LoginsInv

(* Requests, sweeps and scans that interleave: a client or a file is owned   *)
(* by a login or by the request that makes it, a QR login that says it waits *)
(* is waited for, and what is reported expired has expired; an account is    *)
(* stored by the one that took its login out, or by codes that overlapped.   *)
THEOREM LoginsHold == LoginsSpec => []LoginsInv
<1>1. LoginsInit => LoginsInv
  BY InitHolds
<1>2. LoginsInv /\ [LoginsNext]_loginVars => LoginsInv'
  <2> SUFFICES ASSUME LoginsInv, [LoginsNext]_loginVars
               PROVE  LoginsInv'
    OBVIOUS
  <2>1. /\ LoginsTypeOK /\ OverlapsAreKnown /\ ClientsMatch /\ PhoneIsFree /\ NothingIsLost
        /\ WaitingIsWaited /\ WaitsAreCurrent /\ ExpiredIsTrue /\ StoredOnce /\ StoresMatch
        /\ FoundIsPending
    BY DEF LoginsInv
  <2>2. LoginsTypeOK' /\ OverlapsAreKnown' /\ ClientsMatch' /\ PhoneIsFree' /\ NothingIsLost'
    BY <2>1, TypeKept, OverlapsKept, ClientsKept, PhoneKept, LostKept
  <2>3. WaitingIsWaited' /\ WaitsAreCurrent' /\ ExpiredIsTrue' /\ StoredOnce' /\ StoresMatch'
    BY <2>1, WaitedKept, CurrentKept, ExpiredKept, StoredKept, StoresKept
  <2>4. FoundIsPending'
    BY <2>1, FoundKept
  <2>5. QED
    BY <2>2, <2>3, <2>4 DEF LoginsInv
<1>3. QED
  BY <1>1, <1>2, PTL DEF LoginsSpec

(* A pending login by code is taken out by a request that came after it or   *)
(* ran beside the one that began it, and by a sweep only if it is old or     *)
(* began beside the sweep.                                                   *)
THEOREM LoginsStayHeld == LoginsSpec => LoginsStay
<1> DEFINE Stays ==
      otp # NoLogin /\ (otp' = NoLogin \/ otp'.cli # otp.cli) =>
        \E t \in AtWork : login'[t] # login[t] /\ Removes(t)
                          /\ (Does(t) = "sweep" => otp.old \/ Overlapped(t, otp.cli))
<1>1. ASSUME LoginsInv, [LoginsNext]_loginVars
      PROVE  Stays
  <2> SUFFICES ASSUME otp # NoLogin, otp' = NoLogin \/ otp'.cli # otp.cli
               PROVE  \E t \in AtWork : login'[t] # login[t] /\ Removes(t)
                         /\ (Does(t) = "sweep" => otp.old \/ Overlapped(t, otp.cli))
    OBVIOUS
  <2>1. LoginsTypeOK /\ ClientsMatch /\ FoundIsPending
    BY <1>1 DEF LoginsInv
  <2>2. PICK t \in LoginTasks : Dropped(t) \/ Began(t)
    BY <1>1, <2>1, OtpWays DEF PendsOn
  <2>3. t \in AtWork /\ login'[t] # login[t]
    BY <2>2 DEF Dropped, Began, AtWork
  <2>4. Found(t) => \/ Overlapped(t, otp.cli)
                    \/ /\ login[t].cli = otp.cli
                       /\ login[t].pc = "sweep" /\ login[t].old => otp.old
    BY <2>1 DEF FoundIsPending
  <2>5. CASE Began(t)
    BY <2>3, <2>5 DEF Began, Removes
  <2>6. CASE login[t].pc \in {"drop", "store"}
    <3>1. /\ Does(t) \in {"send", "code", "pass", "cancel"}
          /\ login[t].pc = "store" => Does(t) \in {"code", "pass"}
      BY <2>1, <2>6, KindsAtSteps
    <3>2. CASE Does(t) \in {"send", "cancel"}
      BY <2>3, <2>6, <3>1, <3>2 DEF Removes
    <3>3. CASE Does(t) \in {"code", "pass"}
      <4>1. Found(t)
        BY <2>6, <3>3 DEF Found
      <4>2. QED
        BY <2>3, <2>4, <2>6, <3>3, <4>1 DEF Removes
    <3>4. QED
      BY <3>1, <3>2, <3>3
  <2>7. CASE login[t].pc = "sweep" /\ login[t].old
    <3>1. Found(t)
      BY <2>7 DEF Found
    <3>2. QED
      BY <2>3, <2>4, <2>7, <3>1 DEF Removes
  <2>8. QED
    BY <2>2, <2>5, <2>6, <2>7 DEF Dropped
<1>2. QED
  BY <1>1, LoginsHold, PTL DEF LoginsSpec, LoginsStay
==============================================================================
