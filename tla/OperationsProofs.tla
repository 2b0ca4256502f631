--------------------------- MODULE OperationsProofs ---------------------------
(***************************************************************************)
(* OpsInv, and then BackupsInv, hold in every reachable state, for any      *)
(* watchdogs, accounts, days, scenarios and bounds.  For the operations:    *)
(* first what each step of a watchdog, of a backend or of the world changes *)
(* (...Step); a step is the machine's, a telling, an aging, a fault, or one *)
(* of a round (FiveWays).  Then one lemma for each part of OpsInv           *)
(* (...Kept), the alerts last: RoundTells follows a finding from the probe  *)
(* through the lines left to say into the alerts.                           *)
(***************************************************************************)
EXTENDS OperationsProperties, BackupsProperties, Functions, TLAPS, FiniteSetTheorems,
        SequenceTheorems

-------------------------------------------------------------------------------
(* What a step of a watchdog leaves alone. *)
OtherDogs(d) == \A e \in Dogs \ {d} : dog'[e] = dog[e]
Dogged == dog' \in [Dogs -> Round]
OtherTellers(w) == \A v \in Writers \ {w} : teller'[v] = teller[v]
Told == teller' \in [Writers -> Telling]

\* A watchdog whose record is replaced.
LEMMA NewDog ==
  ASSUME OpsTypeOK, NEW d \in Dogs, NEW new \in Round, dog' = [dog EXCEPT ![d] = new]
  PROVE  Dogged /\ OtherDogs(d) /\ dog'[d] = new
BY DEF OpsTypeOK, Dogged, OtherDogs

\* A watchdog that goes on to another step.
LEMMA Walks ==
  ASSUME OpsTypeOK, NEW d \in Dogs, NEW pc \in DogPcs, Walk(d, pc)
  PROVE  /\ Dogged /\ OtherDogs(d) /\ dog'[d].pc = pc /\ dog'[d].finding = dog[d].finding
         /\ dog'[d].seen = dog[d].seen /\ dog'[d].on = dog[d].on
<1> DEFINE new == [dog[d] EXCEPT !.pc = pc]
<1>1. dog[d] \in Round /\ dog' = [dog EXCEPT ![d] = new]
  BY DEF OpsTypeOK, Walk
<1>2. /\ new \in Round /\ new.pc = pc /\ new.finding = dog[d].finding
      /\ new.seen = dog[d].seen /\ new.on = dog[d].on
  BY <1>1 DEF Round
<1> HIDE DEF new
<1>3. QED
  BY <1>1, <1>2, NewDog

\* A watchdog that ends its round.
LEMMA LiesDownStep ==
  ASSUME OpsTypeOK, NEW d \in Dogs, LiesDown(d)
  PROVE  Dogged /\ OtherDogs(d) /\ dog'[d].pc = "off" /\ dog'[d].finding = "unknown"
<1>1. Asleep \in Round /\ Asleep.pc = "off" /\ Asleep.finding = "unknown"
  BY DEF Asleep, Round, DogPcs, Services, RestartIds
<1>2. QED
  BY <1>1, NewDog DEF LiesDown

\* A writer whose record is replaced.
LEMMA NewTeller ==
  ASSUME OpsTypeOK, NEW w \in Writers, NEW new \in Telling, teller' = [teller EXCEPT ![w] = new]
  PROVE  Told /\ OtherTellers(w) /\ teller'[w] = new
BY DEF OpsTypeOK, Told, OtherTellers

\* A writer that has something new to say.
LEMMA Speaks ==
  ASSUME OpsTypeOK, NEW w \in Writers, NEW say \in Seq(Keys \X BOOLEAN),
         teller' = [teller EXCEPT ![w].say = say]
  PROVE  /\ Told /\ OtherTellers(w)
         /\ teller'[w].say = say /\ teller'[w].file = teller[w].file
<1> DEFINE new == [teller[w] EXCEPT !.say = say]
<1>1. teller[w] \in Telling /\ teller' = [teller EXCEPT ![w] = new]
  BY DEF OpsTypeOK
<1>2. new \in Telling /\ new.say = say /\ new.file = teller[w].file
  BY <1>1 DEF Telling
<1> HIDE DEF new
<1>3. QED
  BY <1>1, <1>2, NewTeller

\* What there is to say, as sets.
LEMMA Sayings ==
  /\ \A a \in Keys \X BOOLEAN : <<a>> \in Seq(Keys \X BOOLEAN) /\ <<a>> # <<>>
                                /\ Said(<<a>>) = {a}
  /\ \A a, b \in Keys \X BOOLEAN : <<a, b>> \in Seq(Keys \X BOOLEAN) /\ <<a, b>> # <<>>
                                   /\ Said(<<a, b>>) = {a, b}
<1>1. ASSUME NEW a \in Keys \X BOOLEAN
      PROVE  <<a>> \in Seq(Keys \X BOOLEAN) /\ <<a>> # <<>>
             /\ Said(<<a>>) = {a}
  <2>1. Len(<<a>>) = 1 /\ <<a>>[1] = a
    OBVIOUS
  <2>2. 1..1 = {1}
    OBVIOUS
  <2>3. QED
    BY <2>1, <2>2 DEF Said
<1>2. ASSUME NEW a \in Keys \X BOOLEAN, NEW b \in Keys \X BOOLEAN
      PROVE  <<a, b>> \in Seq(Keys \X BOOLEAN) /\ <<a, b>> # <<>>
             /\ Said(<<a, b>>) = {a, b}
  <2>1. Len(<<a, b>>) = 2 /\ <<a, b>>[1] = a /\ <<a, b>>[2] = b
    OBVIOUS
  <2>2. 1..2 = {1, 2}
    OBVIOUS
  <2>3. Said(<<a, b>>) = {a, b}
    BY <2>1, <2>2 DEF Said
  <2>4. QED
    BY <2>1, <2>3
<1>3. QED
  BY <1>1, <1>2

\* The first thing to say, and the rest.
LEMMA HeadAndTail ==
  ASSUME NEW s \in Seq(Keys \X BOOLEAN), s # <<>>
  PROVE  /\ Head(s) \in Keys \X BOOLEAN /\ Tail(s) \in Seq(Keys \X BOOLEAN)
         /\ Said(s) = {Head(s)} \union Said(Tail(s))
<1>1. /\ Len(s) \in Nat /\ Len(s) > 0 /\ Head(s) = s[1] /\ Len(Tail(s)) = Len(s) - 1
      /\ Tail(s) \in Seq(Keys \X BOOLEAN)
      /\ \A i \in 1..Len(Tail(s)) : Tail(s)[i] = s[i + 1]
  BY HeadTailProperties
<1>2. \A i \in 1..Len(s) : s[i] \in Keys \X BOOLEAN
  BY ElementOfSeq
<1>3. Head(s) \in Keys \X BOOLEAN
  BY <1>1, <1>2
<1>4. \A i \in 1..Len(s) : i = 1 \/ i - 1 \in 1..Len(Tail(s))
  BY <1>1
<1>5. \A i \in 1..Len(Tail(s)) : i + 1 \in 1..Len(s)
  BY <1>1
<1>6. ASSUME NEW i \in 1..Len(s) PROVE s[i] \in {Head(s)} \union Said(Tail(s))
  <2>1. CASE i = 1
    BY <1>1, <2>1 DEF Said
  <2>2. CASE i # 1
    <3>1. i - 1 \in 1..Len(Tail(s)) /\ (i - 1) + 1 = i
      BY <1>1, <1>4, <2>2
    <3>2. Tail(s)[i - 1] = s[i]
      BY <1>1, <3>1
    <3>3. QED
      BY <3>1, <3>2 DEF Said
  <2>3. QED
    BY <2>1, <2>2
<1>7. Head(s) \in Said(s)
  BY <1>1 DEF Said
<1>8. ASSUME NEW j \in 1..Len(Tail(s)) PROVE Tail(s)[j] \in Said(s)
  BY <1>1, <1>5 DEF Said
<1>9. QED
  BY <1>3, <1>6, <1>7, <1>8, <1>1 DEF Said

-------------------------------------------------------------------------------
(* The steps of a watchdog, one by one. *)

\* A round begins: the lock file is looked at.
LEMMA SniffStep ==
  ASSUME OpsTypeOK, NEW d \in Dogs, Sniff(d)
  PROVE  /\ Dogged /\ OtherDogs(d) /\ dog[d].pc = "off"
         /\ dog'[d].pc \in {"unlink", "create"} /\ dog'[d].finding = "unknown"
         /\ UNCHANGED <<dogLock, breaker, procs, advisory, world, alerts, teller, verdict, past>>
<1> DEFINE pc == IF dogLock # NoOne /\ dogLock.old THEN "unlink" ELSE "create"
           new == [Asleep EXCEPT !.pc = pc]
<1>1. pc \in {"unlink", "create"} /\ dog' = [dog EXCEPT ![d] = new]
  BY DEF Sniff
<1> HIDE DEF pc
<1>2. new \in Round /\ new.pc = pc /\ new.finding = "unknown"
  BY <1>1 DEF Asleep, Round, DogPcs, Services, RestartIds
<1> HIDE DEF new
<1>3. QED
  BY <1>1, <1>2, NewDog DEF Sniff

\* A lock file that was seen old is removed, whichever is there by now.
LEMMA UnlinkStep ==
  ASSUME OpsTypeOK, NEW d \in Dogs, Unlink(d)
  PROVE  /\ Dogged /\ OtherDogs(d) /\ dog[d].pc = "unlink"
         /\ dog'[d].pc = "create" /\ dog'[d].finding = dog[d].finding
         /\ dogLock' = NoOne
         /\ past' = [past EXCEPT !.raced = past.raced \/ (dogLock # NoOne /\ ~dogLock.old)]
         /\ UNCHANGED <<breaker, procs, advisory, world, alerts, teller, verdict>>
BY Walks DEF Unlink, DogPcs

\* The lock file is made, or another's is there and the round is over.
LEMMA CreateStep ==
  ASSUME OpsTypeOK, NEW d \in Dogs, Create(d)
  PROVE  /\ Dogged /\ OtherDogs(d) /\ dog[d].pc = "create"
         /\ \/ /\ dogLock # NoOne /\ dogLock' = dogLock
               /\ dog'[d].pc = "off" /\ dog'[d].finding = "unknown"
            \/ /\ dogLock = NoOne /\ dogLock' = [by |-> d, old |-> FALSE]
               /\ dog'[d].pc \in {"release", "probe"} /\ dog'[d].finding = dog[d].finding
         /\ UNCHANGED <<breaker, procs, advisory, world, alerts, teller, verdict, past>>
<1>1. CASE dogLock # NoOne
  BY <1>1, LiesDownStep DEF Create
<1>2. CASE dogLock = NoOne /\ world.maintenance
  <2>1. Walk(d, "release")
    BY <1>2 DEF Create
  <2>2. QED
    BY <1>2, <2>1, Walks DEF Create, DogPcs
<1>3. CASE dogLock = NoOne /\ ~world.maintenance
  <2>1. Walk(d, "probe")
    BY <1>3 DEF Create
  <2>2. QED
    BY <1>3, <2>1, Walks DEF Create, DogPcs
<1>4. QED
  BY <1>1, <1>2, <1>3

\* What the alerts must say of a finding, in the words of the round.
LEMMA Demands ==
  /\ Demand("healthy") = {<<"backend", FALSE>>, <<"database", FALSE>>}
  /\ Demand("database") = {<<"database", TRUE>>}
  /\ Demand("down") = {<<"backend", TRUE>>}
  /\ Demand("unknown") = {}
  /\ \A k \in Keys, on \in BOOLEAN : <<k, on>> \in Keys \X BOOLEAN
  /\ {"backend", "database", "ngrok", "network", "no_backend", "no_ngrok", "health"} = Keys
<1>1. Demand("healthy") = {<<"backend", FALSE>>, <<"database", FALSE>>}
  BY DEF Demand
<1>2. Demand("database") = {<<"database", TRUE>>}
  BY DEF Demand
<1>3. Demand("down") = {<<"backend", TRUE>>}
  BY DEF Demand
<1>4. Demand("unknown") = {}
  BY DEF Demand
<1>5. QED
  BY <1>1, <1>2, <1>3, <1>4 DEF Keys

\* Two things to say.
LEMMA Pairs ==
  \A k, m \in Keys, on, off \in BOOLEAN :
    /\ << <<k, on>>, <<m, off>> >> \in Seq(Keys \X BOOLEAN)
    /\ << <<k, on>>, <<m, off>> >> # <<>>
    /\ Said(<< <<k, on>>, <<m, off>> >>) = {<<k, on>>, <<m, off>>}
<1> TAKE k, m \in Keys, on, off \in BOOLEAN
<1> DEFINE a == <<k, on>>
           b == <<m, off>>
<1>1. a \in Keys \X BOOLEAN /\ b \in Keys \X BOOLEAN
  OBVIOUS
<1> HIDE DEF a, b
<1>2. <<a, b>> \in Seq(Keys \X BOOLEAN) /\ <<a, b>> # <<>> /\ Said(<<a, b>>) = {a, b}
  BY <1>1, Sayings
<1>3. QED
  BY <1>2 DEF a, b

\* The backend is probed, and what was found is to be said.
LEMMA ProbeStep ==
  ASSUME OpsTypeOK, NEW d \in Dogs, Probe(d)
  PROVE  /\ Dogged /\ OtherDogs(d) /\ dog[d].pc = "probe"
         /\ dog'[d].pc \in {"public", "release", "permit"}
         /\ dog'[d].finding \in Findings
         /\ Told /\ OtherTellers(d) /\ teller'[d].file = teller[d].file
         /\ teller'[d].say # <<>> /\ ToSay(d)' = Demand(dog'[d].finding)
         /\ UNCHANGED <<dogLock, breaker, procs, advisory, world, alerts, verdict, past>>
<1> DEFINE f == Finding
           pc == CASE f = "healthy" -> "public" [] f = "database" -> "release"
                   [] f = "down" -> "permit"
           say == CASE f = "healthy" -> << <<"backend", FALSE>>, <<"database", FALSE>> >>
                    [] f = "database" -> << <<"database", TRUE>> >>
                    [] f = "down" -> << <<"backend", TRUE>> >>
           new == [dog[d] EXCEPT !.finding = f, !.pc = pc]
<1>1. f \in Findings
  BY DEF Finding, Findings
<1>2. dog[d] \in Round /\ d \in Writers
  BY DEF OpsTypeOK, Writers
<1>3. teller' = [teller EXCEPT ![d].say = say]
  BY DEF Probe
<1>31. dog' = [dog EXCEPT ![d].finding = f, ![d].pc = pc]
  BY DEF Probe
<1> HIDE DEF f
<1>4. pc \in {"public", "release", "permit"}
  BY <1>1 DEF Findings
<1>5. /\ say \in Seq(Keys \X BOOLEAN) /\ say # <<>>
      /\ Said(say) = Demand(f)
  <2>1. CASE f = "healthy"
    <3>1. say = << <<"backend", FALSE>>, <<"database", FALSE>> >>
      BY <2>1
    <3> HIDE DEF say
    <3>2. QED
      BY <2>1, <3>1, Pairs, Demands
  <2>2. CASE f = "database"
    <3>1. say = << <<"database", TRUE>> >>
      BY <2>2
    <3> HIDE DEF say
    <3>2. QED
      BY <2>2, <3>1, Sayings, Demands
  <2>3. CASE f = "down"
    <3>1. say = << <<"backend", TRUE>> >>
      BY <2>3
    <3> HIDE DEF say
    <3>2. QED
      BY <2>3, <3>1, Sayings, Demands
  <2>4. QED
    BY <1>1, <2>1, <2>2, <2>3 DEF Findings
<1> HIDE DEF pc, say
<1>32. dog' = [dog EXCEPT ![d] = new]
  BY <1>2, <1>31 DEF OpsTypeOK
<1>6. new \in Round /\ new.pc = pc /\ new.finding = f
  BY <1>1, <1>2, <1>4 DEF Round, DogPcs
<1> HIDE DEF new
<1>7. Dogged /\ OtherDogs(d) /\ dog'[d] = new
  BY <1>32, <1>6, NewDog
<1>8. Told /\ OtherTellers(d) /\ teller'[d].say = say /\ teller'[d].file = teller[d].file
  BY <1>2, <1>3, <1>5, Speaks
<1>9. ToSay(d)' = Demand(f)
  BY <1>5, <1>8 DEF ToSay
<1>10. QED
  BY <1>1, <1>4, <1>5, <1>6, <1>7, <1>8, <1>9 DEF Probe

\* The public address is probed; what is said is not about the backend.
LEMMA PublicStep ==
  ASSUME OpsTypeOK, NEW d \in Dogs, Public(d)
  PROVE  /\ Dogged /\ OtherDogs(d) /\ dog[d].pc = "public" /\ Free(d)
         /\ dog'[d].pc \in {"permit", "release"} /\ dog'[d].finding = dog[d].finding
         /\ Told /\ OtherTellers(d) /\ teller'[d].file = teller[d].file
         /\ teller'[d].say # <<>>
         /\ \A alert \in ToSay(d)' : alert[1] \notin {"backend", "database"}
         /\ UNCHANGED <<dogLock, breaker, procs, advisory, world, alerts, verdict, past>>
<1> DEFINE r == world.net /\ world.tunnel /\ Serving
           n == world.net
           pc == IF ~r /\ n THEN "permit" ELSE "release"
           say == IF r THEN << <<"ngrok", FALSE>>, <<"network", FALSE>> >>
                  ELSE IF ~n THEN << <<"network", TRUE>> >>
                  ELSE << <<"network", FALSE>>, <<"ngrok", TRUE>> >>
           new == [dog[d] EXCEPT !.on = "ngrok", !.pc = pc]
<1>2. dog[d] \in Round /\ d \in Writers
  BY DEF OpsTypeOK, Writers
<1>3. dog' = [dog EXCEPT ![d] = new] /\ teller' = [teller EXCEPT ![d].say = say]
  BY <1>2 DEF Public, OpsTypeOK
<1> HIDE DEF r, n
<1>4. pc \in {"permit", "release"}
  OBVIOUS
<1>5. /\ say \in Seq(Keys \X BOOLEAN) /\ say # <<>>
      /\ \A alert \in Said(say) : alert[1] \notin {"backend", "database"}
  <2>1. CASE r
    <3>1. say = << <<"ngrok", FALSE>>, <<"network", FALSE>> >>
      BY <2>1
    <3> HIDE DEF say
    <3>2. say \in Seq(Keys \X BOOLEAN) /\ say # <<>>
          /\ Said(say) = {<<"ngrok", FALSE>>, <<"network", FALSE>>}
      BY <3>1, Pairs, Demands
    <3>3. QED
      BY <3>2
  <2>2. CASE ~r /\ ~n
    <3>1. say = << <<"network", TRUE>> >>
      BY <2>2
    <3> HIDE DEF say
    <3>2. say \in Seq(Keys \X BOOLEAN) /\ say # <<>>
          /\ Said(say) = {<<"network", TRUE>>}
      BY <3>1, Sayings, Demands
    <3>3. QED
      BY <3>2
  <2>3. CASE ~r /\ n
    <3>1. say = << <<"network", FALSE>>, <<"ngrok", TRUE>> >>
      BY <2>3
    <3> HIDE DEF say
    <3>2. say \in Seq(Keys \X BOOLEAN) /\ say # <<>>
          /\ Said(say) = {<<"network", FALSE>>, <<"ngrok", TRUE>>}
      BY <3>1, Pairs, Demands
    <3>3. QED
      BY <3>2
  <2>4. QED
    BY <2>1, <2>2, <2>3
<1> HIDE DEF pc, say
<1>6. new \in Round /\ new.pc = pc /\ new.finding = dog[d].finding
  BY <1>2, <1>4 DEF Round, DogPcs, Services
<1> HIDE DEF new
<1>7. Dogged /\ OtherDogs(d) /\ dog'[d] = new
  BY <1>3, <1>6, NewDog
<1>8. Told /\ OtherTellers(d) /\ teller'[d].say = say /\ teller'[d].file = teller[d].file
  BY <1>2, <1>3, <1>5, Speaks
<1>9. QED
  BY <1>4, <1>5, <1>6, <1>7, <1>8 DEF Public, ToSay

\* The state of the breaker is read.
LEMMA PermitLoadStep ==
  ASSUME OpsTypeOK, NEW d \in Dogs, PermitLoad(d)
  PROVE  /\ Dogged /\ OtherDogs(d) /\ dog[d].pc = "permit" /\ Free(d)
         /\ dog'[d].pc = "save" /\ dog'[d].finding = dog[d].finding /\ dog'[d].seen = breaker
         /\ UNCHANGED <<dogLock, breaker, procs, advisory, world, alerts, teller, verdict, past>>
<1> DEFINE b == breaker
           new == [dog[d] EXCEPT !.seen = b, !.pc = "save"]
<1>1. dog[d] \in Round /\ b \in [Services -> SUBSET RestartIds] /\ dog \in [Dogs -> Round]
  BY DEF OpsTypeOK
<1>2. dog' = [dog EXCEPT ![d] = new]
  BY <1>1 DEF PermitLoad
<1> HIDE DEF b
<1>3. new \in Round /\ new.pc = "save" /\ new.finding = dog[d].finding /\ new.seen = b
  BY <1>1 DEF Round, DogPcs
<1> HIDE DEF new
<1>4. Dogged /\ OtherDogs(d) /\ dog'[d] = new
  BY <1>2, <1>3, NewDog
<1>5. QED
  BY <1>3, <1>4 DEF PermitLoad, b

\* The state of the breaker is written, with a restart or without.
LEMMA PermitSaveStep ==
  ASSUME OpsTypeOK, NEW d \in Dogs, PermitSave(d)
  PROVE  LET s == dog[d].on
             recent == dog[d].seen[s] \ past.aged IN
         /\ Dogged /\ OtherDogs(d) /\ dog[d].pc = "save" /\ dog'[d].finding = dog[d].finding
         /\ s \in Services
         /\ \/ /\ dog'[d].pc = "release" /\ past' = past
               /\ breaker' = [dog[d].seen EXCEPT ![s] = recent]
               /\ Told /\ OtherTellers(d) /\ teller'[d].file = teller[d].file
               /\ teller'[d].say # <<>>
               /\ \A alert \in ToSay(d)' : alert[1] \notin {"backend", "database"}
            \/ /\ dog'[d].pc = "end" /\ teller' = teller /\ ~Full(recent)
               /\ \E n \in RestartIds :
                    /\ breaker' = [dog[d].seen EXCEPT ![s] = recent \union {n}]
                    /\ past' = [past EXCEPT !.restarts[s] = @ \union {n}]
         /\ UNCHANGED <<dogLock, procs, advisory, world, alerts, verdict>>
<1> DEFINE s == dog[d].on
           recent == dog[d].seen[s] \ past.aged
<1>1. s \in Services /\ d \in Writers
  BY DEF OpsTypeOK, Round, Writers
<1>2. CASE Full(recent)
  <2>1. /\ breaker' = [dog[d].seen EXCEPT ![s] = recent] /\ past' = past
        /\ Walk(d, "release") /\ teller' = [teller EXCEPT ![d].say = << <<NoRestart(s), TRUE>> >>]
    BY <1>2 DEF PermitSave
  <2>2. NoRestart(s) \in Keys \ {"backend", "database"}
    BY DEF NoRestart, Keys
  <2> DEFINE a == <<NoRestart(s), TRUE>>
  <2>3. a \in Keys \X BOOLEAN /\ a[1] \notin {"backend", "database"}
    BY <2>2
  <2> HIDE DEF a
  <2>4. <<a>> \in Seq(Keys \X BOOLEAN) /\ <<a>> # <<>> /\ Said(<<a>>) = {a}
    BY <2>3, Sayings
  <2>5. Told /\ OtherTellers(d) /\ teller'[d].say = <<a>> /\ teller'[d].file = teller[d].file
    BY <1>1, <2>1, <2>4, Speaks DEF a
  <2>6. \A alert \in ToSay(d)' : alert[1] \notin {"backend", "database"}
    BY <2>3, <2>4, <2>5 DEF ToSay
  <2>7. QED
    BY <1>1, <2>1, <2>4, <2>5, <2>6, Walks DEF PermitSave, DogPcs
<1>3. CASE ~Full(recent)
  <2>1. PICK n \in RestartIds :
          /\ breaker' = [dog[d].seen EXCEPT ![s] = recent \union {n}]
          /\ past' = [past EXCEPT !.restarts[s] = @ \union {n}]
          /\ Walk(d, "end") /\ teller' = teller
    BY <1>3 DEF PermitSave
  <2>2. QED
    BY <1>1, <1>3, <2>1, Walks DEF PermitSave, DogPcs
<1>4. QED
  BY <1>2, <1>3

\* The task is ended: its process is killed, or its tunnel is down.
LEMMA EndTaskStep ==
  ASSUME OpsTypeOK, NEW d \in Dogs, EndTask(d)
  PROVE  /\ Dogged /\ OtherDogs(d) /\ dog[d].pc = "end"
         /\ dog'[d].pc = "run" /\ dog'[d].finding = dog[d].finding
         /\ \/ Killed("task") /\ world' = world
            \/ UNCHANGED <<procs, advisory>> /\ world' = [world EXCEPT !.tunnel = FALSE]
         /\ UNCHANGED <<dogLock, breaker, alerts, teller, verdict, past>>
BY Walks DEF EndTask, DogPcs

\* The task is run again, and that it could be restarted is to be said.
LEMMA RunTaskStep ==
  ASSUME OpsTypeOK, NEW d \in Dogs, RunTask(d)
  PROVE  /\ Dogged /\ OtherDogs(d) /\ dog[d].pc = "run"
         /\ dog'[d].pc = "wait" /\ dog'[d].finding = dog[d].finding
         /\ \/ Started /\ world' = world
            \/ procs' = procs /\ \E up \in BOOLEAN : world' = [world EXCEPT !.tunnel = up]
         /\ Told /\ OtherTellers(d) /\ teller'[d].file = teller[d].file
         /\ teller'[d].say # <<>>
         /\ \A alert \in ToSay(d)' : alert[1] \notin {"backend", "database"}
         /\ UNCHANGED <<dogLock, breaker, advisory, alerts, verdict, past>>
<1> DEFINE s == dog[d].on
           a == <<NoRestart(s), FALSE>>
<1>1. /\ Walk(d, "wait") /\ d \in Writers
      /\ teller' = [teller EXCEPT ![d].say = <<a>>]
  BY DEF RunTask, Writers
<1>2. NoRestart(s) \in Keys \ {"backend", "database"}
  BY DEF NoRestart, Keys
<1>3. a \in Keys \X BOOLEAN /\ a[1] \notin {"backend", "database"}
  BY <1>2
<1> HIDE DEF a
<1>4. <<a>> \in Seq(Keys \X BOOLEAN) /\ <<a>> # <<>> /\ Said(<<a>>) = {a}
  BY <1>3, Sayings
<1>5. Told /\ OtherTellers(d) /\ teller'[d].say = <<a>> /\ teller'[d].file = teller[d].file
  BY <1>1, <1>4, Speaks
<1>6. \A alert \in ToSay(d)' : alert[1] \notin {"backend", "database"}
  BY <1>3, <1>4, <1>5 DEF ToSay
<1>7. \/ Started /\ world' = world
      \/ procs' = procs /\ \E up \in BOOLEAN : world' = [world EXCEPT !.tunnel = up]
  BY DEF RunTask
<1>8. Dogged /\ OtherDogs(d) /\ dog'[d].pc = "wait" /\ dog'[d].finding = dog[d].finding
  BY <1>1, Walks DEF DogPcs
<1>9. QED
  BY <1>4, <1>5, <1>6, <1>7, <1>8 DEF RunTask

\* The restarted task answers, or the time is up.
LEMMA WaitStep ==
  ASSUME OpsTypeOK, NEW d \in Dogs, Wait(d)
  PROVE  /\ Dogged /\ OtherDogs(d) /\ dog[d].pc = "wait" /\ Free(d)
         /\ \/ /\ dog'[d].pc = "public" /\ dog'[d].finding = "healthy"
               /\ Told /\ OtherTellers(d) /\ teller'[d].file = teller[d].file
               /\ teller'[d].say # <<>> /\ ToSay(d)' = Demand("healthy")
            \/ /\ dog'[d].pc = "release" /\ dog'[d].finding = dog[d].finding
               /\ Told /\ OtherTellers(d) /\ teller'[d].file = teller[d].file
               /\ teller'[d].say # <<>>
               /\ \A alert \in ToSay(d)' : alert[1] \notin {"backend", "database"}
            \/ dog'[d].pc = "release" /\ dog'[d].finding = dog[d].finding /\ teller' = teller
         /\ UNCHANGED <<dogLock, breaker, procs, advisory, world, alerts, verdict, past>>
<1> DEFINE s == dog[d].on
           came == IF s = "backend" THEN Finding = "healthy"
                   ELSE Serving /\ world.net /\ world.tunnel
<1>1. dog[d] \in Round /\ d \in Writers /\ dog \in [Dogs -> Round]
  BY DEF OpsTypeOK, Writers
<1>2. CASE came /\ s = "backend"
            /\ dog' = [dog EXCEPT ![d].pc = IF s = "backend" THEN "public" ELSE "release",
                                  ![d].finding = IF s = "backend" THEN "healthy" ELSE @]
            /\ teller' = [teller EXCEPT ![d].say =
                 IF s = "backend" THEN << <<"backend", FALSE>>, <<"database", FALSE>> >>
                 ELSE << <<"ngrok", FALSE>> >>]
  <2> DEFINE new == [dog[d] EXCEPT !.pc = "public", !.finding = "healthy"]
             say == << <<"backend", FALSE>>, <<"database", FALSE>> >>
  <2>1. dog' = [dog EXCEPT ![d] = new] /\ teller' = [teller EXCEPT ![d].say = say]
    BY <1>1, <1>2
  <2>2. new \in Round /\ new.pc = "public" /\ new.finding = "healthy"
    BY <1>1 DEF Round, DogPcs, Findings
  <2> HIDE DEF new
  <2>3. Dogged /\ OtherDogs(d) /\ dog'[d] = new
    BY <2>1, <2>2, NewDog
  <2>4. say \in Seq(Keys \X BOOLEAN) /\ say # <<>> /\ Said(say) = Demand("healthy")
    BY Pairs, Demands
  <2> HIDE DEF say
  <2>5. Told /\ OtherTellers(d) /\ teller'[d].say = say /\ teller'[d].file = teller[d].file
    BY <1>1, <2>1, <2>4, Speaks
  <2>6. QED
    BY <2>2, <2>3, <2>4, <2>5 DEF ToSay, Wait
<1>3. CASE came /\ s # "backend"
            /\ dog' = [dog EXCEPT ![d].pc = IF s = "backend" THEN "public" ELSE "release",
                                  ![d].finding = IF s = "backend" THEN "healthy" ELSE @]
            /\ teller' = [teller EXCEPT ![d].say =
                 IF s = "backend" THEN << <<"backend", FALSE>>, <<"database", FALSE>> >>
                 ELSE << <<"ngrok", FALSE>> >>]
  <2> DEFINE new == [dog[d] EXCEPT !.pc = "release"]
             a == <<"ngrok", FALSE>>
  <2>1. dog' = [dog EXCEPT ![d] = new] /\ teller' = [teller EXCEPT ![d].say = <<a>>]
    BY <1>1, <1>3
  <2>2. new \in Round /\ new.pc = "release" /\ new.finding = dog[d].finding
    BY <1>1 DEF Round, DogPcs
  <2> HIDE DEF new
  <2>3. Dogged /\ OtherDogs(d) /\ dog'[d] = new
    BY <2>1, <2>2, NewDog
  <2>4. a \in Keys \X BOOLEAN /\ a[1] \notin {"backend", "database"}
    BY DEF Keys
  <2> HIDE DEF a
  <2>5. <<a>> \in Seq(Keys \X BOOLEAN) /\ <<a>> # <<>> /\ Said(<<a>>) = {a}
    BY <2>4, Sayings
  <2>6. Told /\ OtherTellers(d) /\ teller'[d].say = <<a>> /\ teller'[d].file = teller[d].file
    BY <1>1, <2>1, <2>5, Speaks
  <2>7. QED
    BY <2>2, <2>3, <2>4, <2>5, <2>6 DEF ToSay, Wait
<1>4. CASE ~came /\ Walk(d, "release") /\ teller' = teller
  BY <1>4, Walks DEF Wait, DogPcs
<1>5. QED
  BY <1>2, <1>3, <1>4 DEF Wait

\* The round ends and its finding stays; the lock file is removed.
LEMMA ReleaseStep ==
  ASSUME OpsTypeOK, NEW d \in Dogs, Release(d)
  PROVE  /\ Dogged /\ OtherDogs(d) /\ dog[d].pc = "release" /\ Free(d)
         /\ dog'[d].pc = "off" /\ dog'[d].finding = "unknown" /\ dogLock' = NoOne
         /\ verdict' = IF dog[d].finding = "unknown" THEN verdict ELSE dog[d].finding
         /\ UNCHANGED <<breaker, procs, advisory, world, alerts, teller, past>>
BY LiesDownStep DEF Release

\* A watchdog dies and leaves its file.
LEMMA CrashDogStep ==
  ASSUME OpsTypeOK, NEW d \in Dogs, CrashDog(d)
  PROVE  /\ Dogged /\ OtherDogs(d) /\ dog'[d].pc = "off" /\ dog'[d].finding = "unknown"
         /\ Told /\ OtherTellers(d) /\ teller'[d].say = <<>> /\ teller'[d].file = <<>>
         /\ verdict' = "unknown"
         /\ UNCHANGED <<dogLock, breaker, procs, advisory, world, alerts, past>>
<1>1. Silent \in Telling /\ Silent.say = <<>> /\ Silent.file = <<>>
  BY DEF Silent, Telling
<1>2. d \in Writers
  BY DEF Writers
<1>3. Told /\ OtherTellers(d) /\ teller'[d] = Silent
  BY <1>1, <1>2, NewTeller DEF CrashDog
<1>4. QED
  BY <1>1, <1>3, LiesDownStep DEF CrashDog

-------------------------------------------------------------------------------
(* The writers of the alerts. *)

\* The state is read; if it shows the alert already, there is one less to set.
LEMMA TellLoadStep ==
  ASSUME OpsTypeOK, NEW w \in Writers, TellLoad(w)
  PROVE  /\ Told /\ OtherTellers(w) /\ ~Free(w)
         /\ UNCHANGED <<dogLock, dog, breaker, procs, advisory, world, alerts, verdict, past, opsPlan>>
         /\ \/ teller'[w].file = alerts /\ teller'[w].say = teller[w].say
            \/ /\ teller'[w].file = <<>> /\ ToSay(w)' \subseteq ToSay(w)
               /\ \E a \in Keys \X BOOLEAN :
                    alerts[a[1]] = a[2] /\ ToSay(w) \subseteq ToSay(w)' \union {a}
<1> DEFINE say == teller[w].say
           a == Head(say)
<1>1. teller[w] \in Telling /\ say \in Seq(Keys \X BOOLEAN) /\ say # <<>>
      /\ teller \in [Writers -> Telling] /\ alerts \in [Keys -> BOOLEAN] /\ teller[w].file = <<>>
  BY DEF OpsTypeOK, Telling, TellLoad
<1>2. a \in Keys \X BOOLEAN /\ Tail(say) \in Seq(Keys \X BOOLEAN)
      /\ Said(say) = {a} \union Said(Tail(say))
  BY <1>1, HeadAndTail
<1>3. CASE alerts[a[1]] = a[2]
  <2>1. teller' = [teller EXCEPT ![w].say = Tail(say)]
    BY <1>1, <1>3 DEF TellLoad
  <2>2. Told /\ OtherTellers(w) /\ teller'[w].say = Tail(say) /\ teller'[w].file = teller[w].file
    BY <1>2, <2>1, Speaks
  <2>3. ToSay(w)' = Said(Tail(say)) /\ ToSay(w) = Said(say)
    BY <2>2 DEF ToSay
  <2>4. \E b \in Keys \X BOOLEAN : alerts[b[1]] = b[2] /\ ToSay(w) \subseteq ToSay(w)' \union {b}
    BY <1>2, <1>3, <2>3
  <2>5. ToSay(w)' \subseteq ToSay(w)
    BY <1>2, <2>3
  <2>6. QED
    BY <1>1, <2>2, <2>4, <2>5 DEF TellLoad, Free
<1>4. CASE alerts[a[1]] # a[2]
  <2> DEFINE f == alerts
             new == [teller[w] EXCEPT !.file = f]
  <2>1. teller' = [teller EXCEPT ![w].file = f]
    BY <1>4 DEF TellLoad
  <2>2. f \in [Keys -> BOOLEAN]
    BY <1>1
  <2> HIDE DEF f
  <2>3. teller' = [teller EXCEPT ![w] = new]
    BY <1>1, <2>1
  <2>4. new \in Telling /\ new.file = f /\ new.say = say
    BY <1>1, <2>2 DEF Telling
  <2> HIDE DEF new
  <2>5. Told /\ OtherTellers(w) /\ teller'[w] = new
    BY <2>3, <2>4, NewTeller
  <2>6. QED
    BY <1>1, <2>4, <2>5 DEF TellLoad, Free, f
<1>5. QED
  BY <1>3, <1>4

\* What was read is written whole, with the alert set; what others wrote since is lost.
LEMMA TellSaveStep ==
  ASSUME OpsTypeOK, TellersMatch, NEW w \in Writers, TellSave(w)
  PROVE  /\ Told /\ OtherTellers(w) /\ ~Free(w)
         /\ UNCHANGED <<dogLock, dog, breaker, procs, advisory, world, verdict, opsPlan>>
         /\ teller'[w].file = <<>> /\ ToSay(w)' \subseteq ToSay(w)
         /\ \E a \in ToSay(w) :
              /\ a \in Keys \X BOOLEAN /\ ToSay(w) \subseteq ToSay(w)' \union {a}
              /\ alerts' \in [Keys -> BOOLEAN] /\ alerts'[a[1]] = a[2]
              /\ past' = [past EXCEPT !.over = (past.over \ {a[1]}) \union
                            {k \in Keys \ {a[1]} : alerts[k] # teller[w].file[k]}]
              /\ \A k \in Keys \ {a[1]} : alerts'[k] = teller[w].file[k]
<1> DEFINE say == teller[w].say
           a == Head(say)
           f == teller[w].file
<1>1. teller[w] \in Telling /\ say \in Seq(Keys \X BOOLEAN) /\ say # <<>>
      /\ teller \in [Writers -> Telling] /\ f \in [Keys -> BOOLEAN]
  BY DEF OpsTypeOK, Telling, TellSave, TellersMatch, Free
<1>2. a \in Keys \X BOOLEAN /\ Tail(say) \in Seq(Keys \X BOOLEAN)
      /\ Said(say) = {a} \union Said(Tail(say))
  BY <1>1, HeadAndTail
<1>3. /\ alerts' = [f EXCEPT ![a[1]] = a[2]]
      /\ past' = [past EXCEPT !.over = (past.over \ {a[1]}) \union
                    {k \in Keys \ {a[1]} : alerts[k] # f[k]}]
      /\ teller' = [teller EXCEPT ![w].file = <<>>, ![w].say = Tail(say)]
  BY <1>1 DEF TellSave, OpsTypeOK, OpsHistory
<1>4. Told /\ OtherTellers(w) /\ teller'[w].say = Tail(say) /\ teller'[w].file = <<>>
  <2> DEFINE t == Tail(say)
             new == [teller[w] EXCEPT !.file = <<>>, !.say = t]
  <2> HIDE DEF t
  <2>1. teller' = [teller EXCEPT ![w] = new]
    BY <1>1, <1>3 DEF t
  <2>2. new \in Telling /\ new.say = t /\ new.file = <<>>
    BY <1>1, <1>2 DEF t, Telling
  <2> HIDE DEF new
  <2>3. QED
    BY <2>1, <2>2, NewTeller DEF t
<1>5. ToSay(w)' = Said(Tail(say)) /\ ToSay(w) = Said(say)
  BY <1>4 DEF ToSay
<1>6. /\ alerts' \in [Keys -> BOOLEAN] /\ alerts'[a[1]] = a[2]
      /\ \A k \in Keys \ {a[1]} : alerts'[k] = f[k]
  <2>1. a[1] \in Keys /\ a[2] \in BOOLEAN
    BY <1>2
  <2> HIDE DEF a, f
  <2>2. QED
    BY <1>1, <1>3, <2>1
<1>7. a \in ToSay(w) /\ ToSay(w) \subseteq ToSay(w)' \union {a} /\ ToSay(w)' \subseteq ToSay(w)
  BY <1>2, <1>5
<1>8. ~Free(w)
  BY <1>1 DEF Free
<1> HIDE DEF a
<1>9. QED
  BY <1>2, <1>3, <1>4, <1>6, <1>7, <1>8 DEF TellSave

\* The health page has its own alert to set.
LEMMA ReconcileStep ==
  ASSUME OpsTypeOK, NEW on \in BOOLEAN, Reconcile(on)
  PROVE  /\ Told /\ OtherTellers(Health)
         /\ teller'[Health].say # <<>> /\ ToSay(Health)' = {<<"health", on>>}
         /\ UNCHANGED <<dogLock, dog, breaker, procs, advisory, world, alerts, verdict, past, opsPlan>>
<1> DEFINE a == <<"health", on>>
<1>1. a \in Keys \X BOOLEAN /\ Health \in Writers
  BY DEF Keys, Writers
<1>2. teller' = [teller EXCEPT ![Health].say = <<a>>]
  BY DEF Reconcile
<1> HIDE DEF a
<1>3. <<a>> \in Seq(Keys \X BOOLEAN) /\ <<a>> # <<>> /\ Said(<<a>>) = {a}
  BY <1>1, Sayings
<1>4. Told /\ OtherTellers(Health) /\ teller'[Health].say = <<a>>
  BY <1>1, <1>2, <1>3, Speaks
<1>5. QED
  BY <1>3, <1>4 DEF ToSay, a, Reconcile

-------------------------------------------------------------------------------
Rounds(d) ==
  \/ Sniff(d) \/ Unlink(d) \/ Create(d) \/ Probe(d) \/ Public(d) \/ PermitLoad(d) \/ PermitSave(d)
  \/ EndTask(d) \/ RunTask(d) \/ Wait(d) \/ Release(d) \/ CrashDog(d)
Tells == (\E w \in Writers : TellLoad(w) \/ TellSave(w)) \/ \E on \in BOOLEAN : Reconcile(on)

(* What the watchdogs and the alerts do not see. *)
Aside ==
  /\ UNCHANGED <<dogLock, dog, breaker, alerts, teller, verdict>>
  /\ past'.restarts = past.restarts /\ past'.aged = past.aged
  /\ past'.raced = past.raced /\ past'.over = past.over

(* What becomes of the processes of the backend, their lock and the flag. *)
Machine ==
  \/ \E p \in Procs : Boot(p) \/ TakeAdvisory(p) \/ Drained(p) \/ Die(p)
  \/ Notice \/ StopPublic \/ StartPublic \/ StartOther \/ Respawn \/ LoseAdvisory
  \/ \E part \in {"db", "net", "tunnel"} : Fall(part) \/ Mend(part)

\* A step is of a watchdog, of a writer of the alerts, of the machine, or time's.
LEMMA FiveWays ==
  ASSUME [OpsNext]_opsVars
  PROVE  \/ \E d \in Dogs : Rounds(d) \/ AgeLock(d)
         \/ Tells \/ Machine
         \/ \E n \in RestartIds : Elapse(n)
         \/ UNCHANGED opsVars
BY DEF OpsNext, OpsProgress, OpsEvent, Rounds, Tells, Machine

\* The machine goes its own way.
LEMMA MachineAside ==
  ASSUME OpsTypeOK, Machine \/ UNCHANGED opsVars
  PROVE  Aside
<1>1. past \in OpsHistory
  BY DEF OpsTypeOK
<1>2. CASE \E p \in Procs : Boot(p) \/ TakeAdvisory(p) \/ Drained(p) \/ Die(p)
  BY <1>2 DEF Boot, TakeAdvisory, Drained, Die, Aside
<1>3. CASE Notice \/ StartPublic \/ StartOther \/ Respawn
  BY <1>3 DEF Notice, StartPublic, StartOther, Respawn, Aside
<1>4. CASE StopPublic
  <2> DEFINE x == past.late \/ procs["task"] = "start"
  <2>1. past' = [past EXCEPT !.late = x]
    BY <1>1, <1>4 DEF StopPublic, OpsHistory
  <2> HIDE DEF x
  <2>2. QED
    BY <1>1, <1>4, <2>1 DEF StopPublic, Aside, OpsHistory
<1>5. CASE LoseAdvisory
  BY <1>1, <1>5 DEF LoseAdvisory, Aside, OpsHistory
<1>6. CASE \E part \in {"db", "net", "tunnel"} : Fall(part) \/ Mend(part)
  BY <1>6 DEF Fall, Mend, Aside
<1>7. CASE UNCHANGED opsVars
  BY <1>7 DEF opsVars, Aside
<1>8. QED
  BY <1>2, <1>3, <1>4, <1>5, <1>6, <1>7 DEF Machine

\* Which past the steps of a watchdog change.
LEMMA PastStep ==
  ASSUME OpsTypeOK, NEW d \in Dogs, Rounds(d) \/ AgeLock(d)
  PROVE  /\ past' \in OpsHistory /\ past'.aged = past.aged /\ past'.lost = past.lost
         /\ past'.late = past.late /\ past'.over = past.over
         /\ (past.raced => past'.raced)
         /\ past'.raced = past.raced \/ Unlink(d) \/ AgeLock(d)
         /\ past'.restarts = past.restarts \/ PermitSave(d)
<1>1. past \in OpsHistory
  BY DEF OpsTypeOK
<1>2. CASE past' = past
  BY <1>1, <1>2
<1>3. CASE Unlink(d)
  <2> DEFINE x == past.raced \/ (dogLock # NoOne /\ ~dogLock.old)
  <2>1. past' = [past EXCEPT !.raced = x] /\ x \in BOOLEAN /\ (past.raced => x)
    BY <1>1, <1>3, UnlinkStep DEF OpsHistory
  <2> HIDE DEF x
  <2>2. QED
    BY <1>1, <1>3, <2>1 DEF OpsHistory
<1>4. CASE AgeLock(d)
  <2> DEFINE x == past.raced \/ d \in Inside
  <2>1. past' = [past EXCEPT !.raced = x] /\ x \in BOOLEAN /\ (past.raced => x)
    BY <1>1, <1>4 DEF OpsHistory, AgeLock
  <2> HIDE DEF x
  <2>2. QED
    BY <1>1, <1>4, <2>1 DEF OpsHistory
<1>5. CASE PermitSave(d)
  <2>1. dog[d].on \in Services
    BY <1>5, PermitSaveStep
  <2>2. CASE \E n \in RestartIds : past' = [past EXCEPT !.restarts[dog[d].on] = @ \union {n}]
    <3>1. PICK n \in RestartIds : past' = [past EXCEPT !.restarts[dog[d].on] = @ \union {n}]
      BY <2>2
    <3> DEFINE r == [past.restarts EXCEPT ![dog[d].on] = @ \union {n}]
    <3>2. past' = [past EXCEPT !.restarts = r] /\ r \in [Services -> SUBSET RestartIds]
      BY <1>1, <2>1, <3>1 DEF OpsHistory
    <3> HIDE DEF r
    <3>3. QED
      BY <1>1, <1>5, <3>2 DEF OpsHistory
  <2>3. QED
    BY <1>2, <1>5, <2>2, PermitSaveStep
<1>6. CASE Sniff(d) \/ Create(d) \/ Probe(d) \/ Public(d) \/ PermitLoad(d) \/ EndTask(d)
           \/ RunTask(d) \/ Wait(d) \/ Release(d) \/ CrashDog(d)
  <2>1. past' = past
    BY <1>6, SniffStep, CreateStep, ProbeStep, PublicStep, PermitLoadStep, EndTaskStep, RunTaskStep,
       WaitStep, ReleaseStep, CrashDogStep
  <2>2. QED
    BY <1>2, <2>1
<1>7. QED
  BY <1>3, <1>4, <1>5, <1>6 DEF Rounds

-------------------------------------------------------------------------------
\* The processes and their lock, whatever is done to them.
LEMMA MachineTypes ==
  ASSUME OpsTypeOK, Machine
  PROVE  /\ procs' \in [Procs -> {"none", "boot", "start", "serve", "drain"}]
         /\ advisory' \in Procs \union {NoOne, "gone"}
         /\ world' \in [db : BOOLEAN, net : BOOLEAN, tunnel : BOOLEAN, maintenance : BOOLEAN]
         /\ past' \in OpsHistory /\ opsPlan' = opsPlan
<1> DEFINE P == {"none", "boot", "start", "serve", "drain"}
           W == [db : BOOLEAN, net : BOOLEAN, tunnel : BOOLEAN, maintenance : BOOLEAN]
<1>1. /\ procs \in [Procs -> P] /\ advisory \in Procs \union {NoOne, "gone"} /\ world \in W
      /\ past \in OpsHistory
  BY DEF OpsTypeOK
<1>2. ASSUME NEW p \in Procs, Boot(p) \/ TakeAdvisory(p) \/ Drained(p) \/ Die(p)
      PROVE  /\ procs' \in [Procs -> P] /\ advisory' \in Procs \union {NoOne, "gone"}
             /\ UNCHANGED <<world, past, opsPlan>>
  <2>1. CASE Boot(p)
    BY <1>1, <2>1 DEF Boot
  <2>2. CASE TakeAdvisory(p)
    BY <1>1, <2>2 DEF TakeAdvisory
  <2>3. CASE Drained(p)
    BY <1>1, <2>3 DEF Drained
  <2>4. CASE Die(p)
    BY <1>1, <2>4 DEF Die, Killed
  <2>5. QED
    BY <1>2, <2>1, <2>2, <2>3, <2>4
<1>3. CASE Notice
  BY <1>1, <1>3 DEF Notice
<1>4. CASE StartOther \/ Respawn
  BY <1>1, <1>4 DEF StartOther, Respawn, Started, Procs
<1>5. CASE StartPublic
  BY <1>1, <1>5 DEF StartPublic, Started, Procs
<1>6. CASE StopPublic
  <2> DEFINE x == past.late \/ procs["task"] = "start"
  <2>1. past' = [past EXCEPT !.late = x] /\ x \in BOOLEAN
    BY <1>1, <1>6 DEF StopPublic, OpsHistory
  <2> HIDE DEF x
  <2>2. past' \in OpsHistory
    BY <1>1, <2>1 DEF OpsHistory
  <2>3. QED
    BY <1>1, <1>6, <2>2 DEF StopPublic, Procs
<1>7. CASE LoseAdvisory
  BY <1>1, <1>7 DEF LoseAdvisory, OpsHistory
<1>8. CASE \E part \in {"db", "net", "tunnel"} : Fall(part) \/ Mend(part)
  <2>1. PICK part \in {"db", "net", "tunnel"} :
          \E up \in BOOLEAN : world' = [world EXCEPT ![part] = up]
    BY <1>8 DEF Fall, Mend
  <2>2. world' \in W
    BY <1>1, <2>1
  <2>3. UNCHANGED <<procs, advisory, past, opsPlan>>
    BY <1>8 DEF Fall, Mend
  <2>4. QED
    BY <1>1, <2>2, <2>3
<1>9. QED
  BY <1>1, <1>2, <1>3, <1>4, <1>5, <1>6, <1>7, <1>8 DEF Machine

\* What a watchdog does to the machine is of the same kinds.
LEMMA RoundTypes ==
  ASSUME OpsTypeOK, NEW d \in Dogs, Rounds(d)
  PROVE  /\ dogLock' \in LockFile \union {NoOne} /\ Dogged /\ Told
         /\ breaker' \in [Services -> SUBSET RestartIds]
         /\ procs' \in [Procs -> {"none", "boot", "start", "serve", "drain"}]
         /\ advisory' \in Procs \union {NoOne, "gone"}
         /\ world' \in [db : BOOLEAN, net : BOOLEAN, tunnel : BOOLEAN, maintenance : BOOLEAN]
         /\ alerts' = alerts /\ verdict' \in Findings \union {"unknown"}
<1>0. /\ dogLock \in LockFile \union {NoOne} /\ teller \in [Writers -> Telling]
      /\ breaker \in [Services -> SUBSET RestartIds]
      /\ procs \in [Procs -> {"none", "boot", "start", "serve", "drain"}]
      /\ advisory \in Procs \union {NoOne, "gone"}
      /\ world \in [db : BOOLEAN, net : BOOLEAN, tunnel : BOOLEAN, maintenance : BOOLEAN]
      /\ verdict \in Findings \union {"unknown"} /\ dog[d] \in Round
  BY DEF OpsTypeOK
<1>1. CASE Sniff(d)
  BY <1>0, <1>1, SniffStep DEF Told
<1>2. CASE Unlink(d)
  BY <1>0, <1>2, UnlinkStep DEF Told
<1>3. CASE Create(d)
  <2>1. [by |-> d, old |-> FALSE] \in LockFile
    BY DEF LockFile
  <2>2. QED
    BY <1>0, <1>3, <2>1, CreateStep DEF Told
<1>4. CASE Probe(d)
  BY <1>0, <1>4, ProbeStep
<1>5. CASE Public(d)
  BY <1>0, <1>5, PublicStep
<1>6. CASE PermitLoad(d)
  BY <1>0, <1>6, PermitLoadStep DEF Told
<1>7. CASE PermitSave(d)
  <2> DEFINE s == dog[d].on
             seen == dog[d].seen
             recent == seen[s] \ past.aged
  <2>1. s \in Services /\ seen \in [Services -> SUBSET RestartIds] /\ recent \subseteq RestartIds
    BY <1>0, <1>7, PermitSaveStep DEF Round
  <2>2. \/ breaker' = [seen EXCEPT ![s] = recent] /\ Told
        \/ \E n \in RestartIds : breaker' = [seen EXCEPT ![s] = recent \union {n}] /\ teller' = teller
    BY <1>7, PermitSaveStep
  <2> HIDE DEF seen, recent, s
  <2>3. breaker' \in [Services -> SUBSET RestartIds]
    BY <2>1, <2>2
  <2>4. Told
    BY <1>0, <2>2 DEF Told
  <2>5. QED
    BY <1>0, <1>7, <2>3, <2>4, PermitSaveStep
<1>8. CASE EndTask(d)
  <2>1. procs' \in [Procs -> {"none", "boot", "start", "serve", "drain"}]
        /\ advisory' \in Procs \union {NoOne, "gone"}
    BY <1>0, <1>8, EndTaskStep DEF Killed, Procs
  <2>2. world' \in [db : BOOLEAN, net : BOOLEAN, tunnel : BOOLEAN, maintenance : BOOLEAN]
    BY <1>0, <1>8, EndTaskStep
  <2>3. QED
    BY <1>0, <1>8, <2>1, <2>2, EndTaskStep DEF Told
<1>9. CASE RunTask(d)
  <2>1. procs' \in [Procs -> {"none", "boot", "start", "serve", "drain"}]
    BY <1>0, <1>9, RunTaskStep DEF Started, Procs
  <2>2. world' \in [db : BOOLEAN, net : BOOLEAN, tunnel : BOOLEAN, maintenance : BOOLEAN]
    BY <1>0, <1>9, RunTaskStep
  <2>3. QED
    BY <1>0, <1>9, <2>1, <2>2, RunTaskStep
<1>10. CASE Wait(d)
  BY <1>0, <1>10, WaitStep DEF Told
<1>11. CASE Release(d)
  BY <1>0, <1>11, ReleaseStep DEF Told, Round
<1>12. CASE CrashDog(d)
  BY <1>0, <1>12, CrashDogStep
<1>13. QED
  BY <1>1, <1>2, <1>3, <1>4, <1>5, <1>6, <1>7, <1>8, <1>9, <1>10, <1>11, <1>12 DEF Rounds

\* The scenario never changes.
LEMMA PlanStays ==
  ASSUME [OpsNext]_opsVars
  PROVE  opsPlan' = opsPlan
<1>1. ASSUME NEW d \in Dogs, Rounds(d) \/ AgeLock(d) PROVE opsPlan' = opsPlan
  <2>1. CASE Sniff(d) \/ Unlink(d) \/ Create(d) \/ Probe(d) \/ Public(d) \/ PermitLoad(d)
    BY <2>1 DEF Sniff, Unlink, Create, Probe, Public, PermitLoad
  <2>2. CASE PermitSave(d) \/ EndTask(d) \/ RunTask(d) \/ Wait(d)
    BY <2>2 DEF PermitSave, EndTask, RunTask, Wait
  <2>3. CASE Release(d) \/ CrashDog(d) \/ AgeLock(d)
    BY <2>3 DEF Release, CrashDog, AgeLock
  <2>4. QED
    BY <1>1, <2>1, <2>2, <2>3 DEF Rounds
<1>2. CASE Tells
  BY <1>2 DEF Tells, TellLoad, TellSave, Reconcile
<1>3. CASE Machine
  <2>1. CASE \E p \in Procs : Boot(p) \/ TakeAdvisory(p) \/ Drained(p) \/ Die(p)
    BY <2>1 DEF Boot, TakeAdvisory, Drained, Die
  <2>2. CASE Notice \/ StopPublic \/ StartPublic \/ StartOther \/ Respawn \/ LoseAdvisory
    BY <2>2 DEF Notice, StopPublic, StartPublic, StartOther, Respawn, LoseAdvisory
  <2>3. CASE \E part \in {"db", "net", "tunnel"} : Fall(part) \/ Mend(part)
    BY <2>3 DEF Fall, Mend
  <2>4. QED
    BY <1>3, <2>1, <2>2, <2>3 DEF Machine
<1>4. CASE \E n \in RestartIds : Elapse(n)
  BY <1>4 DEF Elapse
<1>5. CASE UNCHANGED opsVars
  BY <1>5 DEF opsVars
<1>6. QED
  BY <1>1, <1>2, <1>3, <1>4, <1>5, FiveWays

\* A writer of the alerts changes the alerts and its own memory.
LEMMA TellTypes ==
  ASSUME OpsTypeOK, TellersMatch, Tells
  PROVE  /\ Told /\ alerts' \in [Keys -> BOOLEAN] /\ past' \in OpsHistory
         /\ past'.restarts = past.restarts /\ past'.aged = past.aged /\ past'.raced = past.raced
         /\ past'.lost = past.lost /\ past'.late = past.late
         /\ UNCHANGED <<dogLock, dog, breaker, procs, advisory, world, verdict>>
<1>0. past \in OpsHistory /\ alerts \in [Keys -> BOOLEAN]
  BY DEF OpsTypeOK
<1>1. ASSUME NEW w \in Writers, TellSave(w)
      PROVE  /\ Told /\ alerts' \in [Keys -> BOOLEAN]
             /\ UNCHANGED <<dogLock, dog, breaker, procs, advisory, world, verdict>>
             /\ \E x \in SUBSET Keys : past' = [past EXCEPT !.over = x]
  <2>1. PICK a \in ToSay(w) :
          /\ a \in Keys \X BOOLEAN /\ alerts' \in [Keys -> BOOLEAN]
          /\ past' = [past EXCEPT !.over = (past.over \ {a[1]}) \union
                        {k \in Keys \ {a[1]} : alerts[k] # teller[w].file[k]}]
    BY <1>1, TellSaveStep
  <2> DEFINE x == (past.over \ {a[1]}) \union {k \in Keys \ {a[1]} : alerts[k] # teller[w].file[k]}
  <2>2. x \in SUBSET Keys
    BY <1>0 DEF OpsHistory
  <2>3. past' = [past EXCEPT !.over = x]
    BY <2>1
  <2> HIDE DEF x
  <2>4. \E y \in SUBSET Keys : past' = [past EXCEPT !.over = y]
    BY <2>2, <2>3
  <2>5. QED
    BY <1>1, <2>1, <2>4, TellSaveStep
<1>2. CASE \E w \in Writers : TellSave(w)
  BY <1>0, <1>1, <1>2 DEF OpsHistory
<1>3. CASE \E w \in Writers : TellLoad(w)
  BY <1>0, <1>3, TellLoadStep
<1>4. CASE \E on \in BOOLEAN : Reconcile(on)
  BY <1>0, <1>4, ReconcileStep
<1>5. QED
  BY <1>2, <1>3, <1>4 DEF Tells

\* Time takes restarts out of the window.
LEMMA ElapseStep ==
  ASSUME OpsTypeOK, NEW n \in RestartIds, Elapse(n)
  PROVE  /\ past' \in OpsHistory /\ past'.aged = past.aged \union {n}
         /\ past'.restarts = past.restarts /\ past'.raced = past.raced /\ past'.over = past.over
         /\ past'.lost = past.lost /\ past'.late = past.late
         /\ UNCHANGED <<dogLock, dog, breaker, procs, advisory, world, alerts, teller, verdict>>
<1>1. past \in OpsHistory
  BY DEF OpsTypeOK
<1>2. past' = [past EXCEPT !.aged = past.aged \union {n}]
  BY <1>1 DEF Elapse, OpsHistory
<1>3. QED
  BY <1>1, <1>2 DEF Elapse, OpsHistory

\* Every step keeps the types.
LEMMA TypeKept ==
  ASSUME OpsTypeOK, TellersMatch, [OpsNext]_opsVars
  PROVE  OpsTypeOK'
<1>0. opsPlan' = opsPlan
  BY PlanStays
<1>1. ASSUME NEW d \in Dogs, Rounds(d) PROVE OpsTypeOK'
  <2>1. past' \in OpsHistory
    BY <1>1, PastStep
  <2>2. QED
    BY <1>0, <1>1, <2>1, RoundTypes DEF OpsTypeOK, Dogged, Told
<1>2. ASSUME NEW d \in Dogs, AgeLock(d) PROVE OpsTypeOK'
  <2>1. past' \in OpsHistory
    BY <1>2, PastStep
  <2>2. dogLock' \in LockFile
    BY <1>2 DEF AgeLock, OpsTypeOK, LockFile
  <2>3. QED
    BY <1>0, <1>2, <2>1, <2>2 DEF OpsTypeOK, AgeLock
<1>3. CASE Tells
  BY <1>0, <1>3, TellTypes DEF OpsTypeOK, Told
<1>4. CASE Machine
  <2>1. Aside
    BY <1>4, MachineAside
  <2>2. QED
    BY <1>0, <1>4, <2>1, MachineTypes DEF OpsTypeOK, Aside
<1>5. ASSUME NEW n \in RestartIds, Elapse(n) PROVE OpsTypeOK'
  BY <1>0, <1>5, ElapseStep DEF OpsTypeOK
<1>6. CASE UNCHANGED opsVars
  BY <1>6 DEF opsVars, OpsTypeOK
<1>7. QED
  BY <1>1, <1>2, <1>3, <1>4, <1>5, <1>6, FiveWays

-------------------------------------------------------------------------------
\* Where the steps of a round lead.
LEMMA RoundPcs ==
  ASSUME OpsTypeOK, NEW d \in Dogs, Rounds(d)
  PROVE  /\ Dogged /\ OtherDogs(d) /\ dog[d].pc \in DogPcs /\ dog'[d].pc \in DogPcs
         /\ \/ dog'[d].pc = "unlink" /\ Sniff(d)
            \/ dog'[d].pc = "create" /\ (Sniff(d) \/ Unlink(d))
            \/ dog'[d].pc = "off" /\ (Create(d) \/ Release(d) \/ CrashDog(d))
            \/ dog'[d].pc = "probe" /\ Create(d)
            \/ dog'[d].pc = "public" /\ (Probe(d) \/ Wait(d))
            \/ dog'[d].pc = "permit" /\ (Probe(d) \/ Public(d))
            \/ dog'[d].pc = "save" /\ PermitLoad(d)
            \/ dog'[d].pc = "end" /\ PermitSave(d)
            \/ dog'[d].pc = "run" /\ EndTask(d)
            \/ dog'[d].pc = "wait" /\ RunTask(d)
            \/ /\ dog'[d].pc = "release"
               /\ Create(d) \/ Probe(d) \/ Public(d) \/ PermitSave(d) \/ Wait(d)
<1>0. dog[d].pc \in DogPcs
  BY DEF OpsTypeOK, Round
<1>1. CASE Sniff(d) \/ Unlink(d) \/ Create(d)
  BY <1>0, <1>1, SniffStep, UnlinkStep, CreateStep DEF DogPcs
<1>2. CASE Probe(d) \/ Public(d)
  BY <1>0, <1>2, ProbeStep, PublicStep DEF DogPcs
<1>3. CASE PermitLoad(d) \/ PermitSave(d)
  BY <1>0, <1>3, PermitLoadStep, PermitSaveStep DEF DogPcs
<1>4. CASE EndTask(d) \/ RunTask(d)
  BY <1>0, <1>4, EndTaskStep, RunTaskStep DEF DogPcs
<1>5. CASE Wait(d)
  BY <1>0, <1>5, WaitStep DEF DogPcs
<1>6. CASE Release(d) \/ CrashDog(d)
  BY <1>0, <1>6, ReleaseStep, CrashDogStep DEF DogPcs
<1>7. QED
  BY <1>1, <1>2, <1>3, <1>4, <1>5, <1>6 DEF Rounds

\* What becomes of the lock file, by who is past it.
LEMMA LockStep ==
  ASSUME OpsTypeOK, NEW d \in Dogs, Rounds(d)
  PROVE  /\ \A e \in Dogs \ {d} : e \in Inside' <=> e \in Inside
         /\ \/ /\ dogLock' = dogLock /\ past'.raced = past.raced
               /\ d \in Inside' => d \in Inside
            \/ /\ d \notin Inside' /\ dogLock' = NoOne
               /\ past'.raced = (past.raced \/ (dogLock # NoOne /\ ~dogLock.old))
            \/ /\ d \notin Inside /\ d \in Inside' /\ dogLock = NoOne
               /\ dogLock' = [by |-> d, old |-> FALSE] /\ past'.raced = past.raced
            \/ d \in Inside /\ d \notin Inside' /\ dogLock' = NoOne /\ past'.raced = past.raced
<1>0. past \in OpsHistory /\ OtherDogs(d)
  BY RoundPcs DEF OpsTypeOK
<1>1. \A e \in Dogs \ {d} : e \in Inside' <=> e \in Inside
  BY <1>0 DEF OtherDogs, Inside
<1>2. CASE Sniff(d)
  BY <1>1, <1>2, SniffStep DEF Inside
<1>3. CASE Unlink(d)
  <2> DEFINE x == past.raced \/ (dogLock # NoOne /\ ~dogLock.old)
  <2>1. past' = [past EXCEPT !.raced = x] /\ dogLock' = NoOne /\ d \notin Inside'
    BY <1>3, UnlinkStep DEF Inside
  <2> HIDE DEF x
  <2>2. past'.raced = x
    BY <1>0, <2>1 DEF OpsHistory
  <2>3. QED
    BY <1>1, <2>1, <2>2 DEF x
<1>4. CASE Create(d)
  BY <1>1, <1>4, CreateStep DEF Inside
<1>5. CASE Probe(d) \/ Public(d) \/ PermitLoad(d) \/ EndTask(d) \/ RunTask(d) \/ Wait(d)
  BY <1>1, <1>5, ProbeStep, PublicStep, PermitLoadStep, EndTaskStep, RunTaskStep, WaitStep DEF Inside
<1>6. CASE PermitSave(d)
  <2>1. past'.raced = past.raced
    <3>1. (~Unlink(d) /\ ~AgeLock(d)) \/ past'.raced = past.raced
      BY <1>6, PermitSaveStep DEF Unlink, AgeLock
    <3>2. QED
      BY <1>6, <3>1, PastStep DEF Rounds
  <2>2. QED
    BY <1>1, <1>6, <2>1, PermitSaveStep DEF Inside
<1>7. CASE Release(d)
  BY <1>1, <1>7, ReleaseStep DEF Inside
<1>8. CASE CrashDog(d)
  BY <1>1, <1>8, CrashDogStep DEF Inside
<1>9. QED
  BY <1>2, <1>3, <1>4, <1>5, <1>6, <1>7, <1>8 DEF Rounds

\* Whoever is past the lock file is alone there.
LEMMA Alone ==
  ASSUME LockIsOwn, ~past.raced
  PROVE  \A d, e \in Inside : d = e
<1>1. \A d \in Inside : dogLock = [by |-> d, old |-> FALSE]
  BY DEF LockIsOwn
<1>2. \A d \in Inside : dogLock.by = d
  BY <1>1
<1>3. QED
  BY <1>2

\* As a number.
LEMMA AtMostOne ==
  ASSUME NEW S, \A d, e \in S : d = e
  PROVE  Cardinality(S) <= 1
<1>1. CASE S = {}
  BY <1>1, FS_EmptySet
<1>2. ASSUME NEW d \in S PROVE Cardinality(S) <= 1
  <2>1. S = {d}
    BY <1>2
  <2>2. Cardinality({d}) = 1
    BY FS_Singleton
  <2>3. Cardinality(S) = 1
    BY <2>1, <2>2
  <2>4. QED
    BY <2>3
<1>3. QED
  BY <1>1, <1>2

\* One watchdog at a time.
LEMMA OneIsInside ==
  ASSUME LockIsOwn
  PROVE  OneWatchdog
BY Alone, AtMostOne DEF OneWatchdog

\* The file that is there stays the one of whoever is past it, unless two have raced.
LEMMA LockKept ==
  ASSUME OpsTypeOK, TellersMatch, LockIsOwn, [OpsNext]_opsVars
  PROVE  LockIsOwn'
<1>1. ASSUME NEW d \in Dogs
      PROVE  LET mine == [by |-> d, old |-> FALSE] IN
             mine # NoOne /\ mine.by = d /\ ~mine.old
  <2>1. [by |-> d, old |-> FALSE] \in LockFile
    BY DEF LockFile
  <2>2. [by |-> d, old |-> FALSE] # NoOne
    BY <2>1, OpsAssumption
  <2>3. QED
    BY <2>2
<1>2. CASE Aside
  BY <1>2 DEF Aside, LockIsOwn, Inside
<1>3. CASE Tells
  BY <1>3, TellTypes DEF LockIsOwn, Inside
<1>4. ASSUME NEW n \in RestartIds, Elapse(n) PROVE LockIsOwn'
  BY <1>4, ElapseStep DEF LockIsOwn, Inside
<1>5. ASSUME NEW d \in Dogs, Rounds(d) PROVE LockIsOwn'
  <2>1. past.raced => past'.raced
    BY <1>5, PastStep
  <2>2. SUFFICES ASSUME ~past'.raced, NEW e \in Inside'
                 PROVE  dogLock' = [by |-> e, old |-> FALSE]
    BY DEF LockIsOwn
  <2>3. \A v \in Inside : dogLock = [by |-> v, old |-> FALSE]
    BY <2>1, <2>2 DEF LockIsOwn
  <2>4. e \in Dogs /\ Inside \subseteq Dogs
    BY <2>2 DEF Inside
  <2>5. CASE e = d
    BY <1>5, <2>2, <2>3, <2>4, <2>5, LockStep
  <2>6. CASE e # d
    <3>1. e \in Inside /\ dogLock = [by |-> e, old |-> FALSE]
      BY <1>5, <2>2, <2>3, <2>4, <2>6, LockStep
    <3>2. dogLock # NoOne /\ dogLock.by = e /\ ~dogLock.old
      BY <1>1, <2>4, <3>1
    <3>3. d \notin Inside
      BY <1>1, <2>3, <2>4, <2>6, <3>2
    <3>4. QED
      BY <1>5, <2>1, <2>2, <3>1, <3>2, <3>3, LockStep
  <2>7. QED
    BY <2>5, <2>6
<1>6. ASSUME NEW d \in Dogs, AgeLock(d) PROVE LockIsOwn'
  <2> DEFINE x == past.raced \/ d \in Inside
  <2>1. past' = [past EXCEPT !.raced = x] /\ dogLock.by = d /\ dog' = dog
    BY <1>6 DEF AgeLock, OpsTypeOK, OpsHistory
  <2>2. past'.raced = x
    <3> HIDE DEF x
    <3>1. QED
      BY <2>1 DEF OpsTypeOK, OpsHistory
  <2>3. SUFFICES ASSUME ~past.raced, d \notin Inside PROVE Inside' = {}
    BY <2>2 DEF LockIsOwn
  <2>4. \A v \in Inside : dogLock.by = v
    BY <1>1, <2>3 DEF LockIsOwn, Inside
  <2>5. Inside' = Inside
    BY <2>1 DEF Inside
  <2>6. QED
    BY <2>1, <2>3, <2>4, <2>5
<1>7. QED
  BY <1>2, <1>3, <1>4, <1>5, <1>6, MachineAside, FiveWays

-------------------------------------------------------------------------------
\* A restart more keeps to the limit, if the window was not full.
LEMMA OneRestart ==
  ASSUME NEW S \in SUBSET RestartIds, NEW R \in SUBSET RestartIds, NEW n \in RestartIds,
         S \subseteq R \union {n}, ~(Cardinality(R) >= RestartLimit)
  PROVE  ~(Cardinality(S) > RestartLimit)
<1>1. IsFiniteSet(RestartIds) /\ RestartLimit \in Nat
  BY OpsAssumption, FS_Interval DEF RestartIds
<1>2. IsFiniteSet(R)
  BY <1>1, FS_Subset
<1>3. /\ IsFiniteSet(R \union {n}) /\ Cardinality(R) \in Nat
      /\ Cardinality(R \union {n}) = Cardinality(R) \/ Cardinality(R \union {n}) = Cardinality(R) + 1
  BY <1>2, FS_AddElement, FS_CardinalityType
<1>4. Cardinality(S) \in Nat /\ Cardinality(S) <= Cardinality(R \union {n})
  <2>1. IsFiniteSet(S) /\ Cardinality(S) <= Cardinality(R \union {n})
    BY <1>3, FS_Subset
  <2>2. QED
    BY <2>1, FS_CardinalityType
<1>5. QED
  BY <1>1, <1>3, <1>4

\* Time can only empty the window.
LEMMA FewerRestarts ==
  ASSUME NEW R \in SUBSET RestartIds, NEW S \in SUBSET R, ~(Cardinality(R) > RestartLimit)
  PROVE  ~(Cardinality(S) > RestartLimit)
<1>1. IsFiniteSet(RestartIds) /\ RestartLimit \in Nat
  BY OpsAssumption, FS_Interval DEF RestartIds
<1>2. IsFiniteSet(R)
  BY <1>1, FS_Subset
<1>3. /\ Cardinality(R) \in Nat /\ Cardinality(S) \in Nat
      /\ Cardinality(S) <= Cardinality(R)
  BY <1>2, FS_Subset, FS_CardinalityType
<1>4. QED
  BY <1>1, <1>3

\* The breaker is written by whoever has just read it, alone; so it keeps to the limit.
LEMMA RestartsKept ==
  ASSUME OpsTypeOK, TellersMatch, LockIsOwn, RestartsAreLimited, RestartsAreKnown,
         [OpsNext]_opsVars
  PROVE  RestartsAreLimited' /\ RestartsAreKnown'
<1>0. /\ past \in OpsHistory /\ breaker \in [Services -> SUBSET RestartIds]
      /\ \A d \in Dogs : dog[d] \in Round
  BY DEF OpsTypeOK
<1>1. CASE Aside
  BY <1>1 DEF Aside, RestartsAreLimited, RestartsAreKnown
<1>2. CASE Tells
  BY <1>2, TellTypes DEF RestartsAreLimited, RestartsAreKnown
<1>3. ASSUME NEW d \in Dogs, AgeLock(d) PROVE RestartsAreLimited' /\ RestartsAreKnown'
  BY <1>3, PastStep DEF AgeLock, PermitSave, RestartsAreLimited, RestartsAreKnown
<1>4. ASSUME NEW n \in RestartIds, Elapse(n) PROVE RestartsAreLimited' /\ RestartsAreKnown'
  <2>1. /\ past'.aged = past.aged \union {n} /\ past'.restarts = past.restarts
        /\ past'.raced = past.raced /\ breaker' = breaker /\ dog' = dog
    BY <1>4, ElapseStep
  <2>2. RestartsAreKnown'
    BY <2>1 DEF RestartsAreKnown
  <2>3. ASSUME ~past.raced, NEW s \in Services
        PROVE  ~(Cardinality(past'.restarts[s] \ past'.aged) > RestartLimit)
    <3> DEFINE R == past.restarts[s] \ past.aged
               S == past'.restarts[s] \ past'.aged
    <3>1. R \in SUBSET RestartIds /\ S \in SUBSET R
      BY <1>0, <2>1 DEF OpsHistory
    <3>2. ~(Cardinality(R) > RestartLimit)
      BY <2>3 DEF RestartsAreLimited
    <3> HIDE DEF R, S
    <3>3. ~(Cardinality(S) > RestartLimit)
      BY <3>1, <3>2, FewerRestarts
    <3>4. QED
      BY <3>3 DEF S
  <2>4. QED
    BY <2>1, <2>2, <2>3 DEF RestartsAreLimited
<1>5. ASSUME NEW d \in Dogs, Rounds(d) PROVE RestartsAreLimited' /\ RestartsAreKnown'
  <2>0. (past.raced => past'.raced) /\ past'.aged = past.aged /\ OtherDogs(d)
    BY <1>5, PastStep, RoundPcs
  <2> SUFFICES ASSUME ~past.raced PROVE RestartsAreLimited' /\ RestartsAreKnown'
    BY <2>0 DEF RestartsAreLimited, RestartsAreKnown
  <2>1. /\ \A s \in Services : past.restarts[s] \ past.aged \subseteq breaker[s]
        /\ \A e \in Dogs : dog[e].pc = "save" => dog[e].seen = breaker
        /\ \A s \in Services : ~(Cardinality(past.restarts[s] \ past.aged) > RestartLimit)
    BY DEF RestartsAreKnown, RestartsAreLimited
  <2>2. CASE ~PermitSave(d)
    <3>1. breaker' = breaker /\ past'.restarts = past.restarts
      <4>1. breaker' = breaker
        BY <1>5, <2>2, SniffStep, UnlinkStep, CreateStep, ProbeStep, PublicStep, PermitLoadStep,
           EndTaskStep, RunTaskStep, WaitStep, ReleaseStep, CrashDogStep DEF Rounds
      <4>2. QED
        BY <1>5, <2>2, <4>1, PastStep
    <3>2. dog'[d].pc = "save" => dog'[d].seen = breaker
      BY <1>5, RoundPcs, PermitLoadStep
    <3>3. \A e \in Dogs : dog'[e].pc = "save" => dog'[e].seen = breaker
      BY <2>0, <2>1, <3>2 DEF OtherDogs
    <3>4. QED
      BY <2>0, <2>1, <3>1, <3>3 DEF RestartsAreLimited, RestartsAreKnown
  <2>3. CASE PermitSave(d)
    <3> DEFINE s == dog[d].on
               recent == dog[d].seen[s] \ past.aged
    <3>1. /\ dog[d].pc = "save" /\ s \in Services /\ dog'[d].pc \in {"end", "release"}
          /\ dog[d].seen = breaker
      BY <2>1, <2>3, PermitSaveStep
    <3>2. recent = breaker[s] \ past.aged
      BY <3>1
    <3>3. \A e \in Dogs : dog'[e].pc # "save"
      <4>1. ASSUME NEW e \in Dogs, dog'[e].pc = "save" PROVE FALSE
        <5>1. e # d /\ dog[e].pc = "save"
          BY <2>0, <3>1, <4>1 DEF OtherDogs
        <5>2. e \in Inside /\ d \in Inside
          BY <3>1, <5>1 DEF Inside
        <5>3. QED
          BY <5>1, <5>2, Alone
      <4>2. QED
        BY <4>1
    <3>4. CASE past' = past /\ breaker' = [dog[d].seen EXCEPT ![s] = recent]
      <4>1. \A v \in Services : past'.restarts[v] \ past'.aged \subseteq breaker'[v]
        BY <1>0, <2>1, <3>1, <3>2, <3>4
      <4>2. QED
        BY <2>1, <3>3, <3>4, <4>1 DEF RestartsAreLimited, RestartsAreKnown
    <3>5. ASSUME NEW n \in RestartIds, ~Full(recent),
                 breaker' = [dog[d].seen EXCEPT ![s] = recent \union {n}],
                 past' = [past EXCEPT !.restarts[s] = @ \union {n}]
          PROVE  RestartsAreLimited' /\ RestartsAreKnown'
      <4> DEFINE r == [past.restarts EXCEPT ![s] = @ \union {n}]
      <4>1. past' = [past EXCEPT !.restarts = r] /\ past.restarts \in [Services -> SUBSET RestartIds]
        BY <1>0, <3>1, <3>5 DEF OpsHistory
      <4>2. /\ r[s] = past.restarts[s] \union {n} /\ \A v \in Services \ {s} : r[v] = past.restarts[v]
            /\ r \in [Services -> SUBSET RestartIds]
        BY <3>1, <4>1
      <4> HIDE DEF r
      <4>3. past'.restarts = r
        BY <1>0, <4>1 DEF OpsHistory
      <4>4. /\ breaker'[s] = recent \union {n} /\ \A v \in Services \ {s} : breaker'[v] = breaker[v]
        BY <1>0, <3>1, <3>5
      <4>5. \A v \in Services : past'.restarts[v] \ past'.aged \subseteq breaker'[v]
        BY <2>0, <2>1, <3>1, <3>2, <4>2, <4>3, <4>4
      <4>6. ~(Cardinality(r[s] \ past.aged) > RestartLimit)
        <5>1. /\ r[s] \ past.aged \in SUBSET RestartIds /\ recent \in SUBSET RestartIds
              /\ r[s] \ past.aged \subseteq recent \union {n}
          BY <1>0, <2>1, <3>1, <3>2, <4>2
        <5>2. recent \ past.aged = recent
          OBVIOUS
        <5>3. ~(Cardinality(recent) >= RestartLimit)
          BY <3>5, <5>2 DEF Full
        <5> HIDE DEF recent
        <5>4. QED
          BY <5>1, <5>3, OneRestart
      <4>7. ASSUME NEW v \in Services
            PROVE  ~(Cardinality(past'.restarts[v] \ past'.aged) > RestartLimit)
        <5>1. CASE v = s
          BY <2>0, <4>3, <4>6, <5>1
        <5>2. CASE v # s
          <6>1. past'.restarts[v] \ past'.aged = past.restarts[v] \ past.aged
            BY <2>0, <4>2, <4>3, <5>2
          <6>2. QED
            BY <2>1, <6>1
        <5>3. QED
          BY <5>1, <5>2
      <4>8. QED
        BY <3>3, <4>5, <4>7 DEF RestartsAreLimited, RestartsAreKnown
    <3>6. QED
      BY <2>3, <3>4, <3>5, PermitSaveStep
  <2>4. QED
    BY <2>2, <2>3
<1>6. QED
  BY <1>1, <1>2, <1>3, <1>4, <1>5, MachineAside, FiveWays

-------------------------------------------------------------------------------
(* A step that leaves the backend alone. *)
BackendAside ==
  /\ UNCHANGED <<procs, advisory>> /\ world'.maintenance = world.maintenance
  /\ past'.lost = past.lost /\ past'.late = past.late

\* The backend is changed by the machine, or by a watchdog that restarts its task.
LEMMA BackendWays ==
  ASSUME OpsTypeOK, TellersMatch, [OpsNext]_opsVars
  PROVE  \/ BackendAside \/ Machine
         \/ /\ world'.maintenance = world.maintenance
            /\ past'.lost = past.lost /\ past'.late = past.late
            /\ Killed("task") \/ (Started /\ advisory' = advisory)
<1>0. world \in [db : BOOLEAN, net : BOOLEAN, tunnel : BOOLEAN, maintenance : BOOLEAN]
  BY DEF OpsTypeOK
<1>1. CASE Tells
  BY <1>1, TellTypes DEF BackendAside
<1>2. ASSUME NEW n \in RestartIds, Elapse(n) PROVE BackendAside
  BY <1>2, ElapseStep DEF BackendAside
<1>3. CASE UNCHANGED opsVars
  BY <1>3 DEF opsVars, BackendAside
<1>4. ASSUME NEW d \in Dogs, AgeLock(d) PROVE BackendAside
  BY <1>4, PastStep DEF AgeLock, BackendAside
<1>5. ASSUME NEW d \in Dogs, Rounds(d), ~EndTask(d), ~RunTask(d) PROVE BackendAside
  <2>1. UNCHANGED <<procs, advisory, world>>
    BY <1>5, SniffStep, UnlinkStep, CreateStep, ProbeStep, PublicStep, PermitLoadStep,
       PermitSaveStep, WaitStep, ReleaseStep, CrashDogStep DEF Rounds
  <2>2. QED
    BY <1>5, <2>1, PastStep DEF BackendAside
<1>6. ASSUME NEW d \in Dogs, EndTask(d)
      PROVE  \/ BackendAside
             \/ /\ world'.maintenance = world.maintenance
                /\ past'.lost = past.lost /\ past'.late = past.late /\ Killed("task")
  BY <1>0, <1>6, EndTaskStep DEF BackendAside
<1>7. ASSUME NEW d \in Dogs, RunTask(d)
      PROVE  \/ BackendAside
             \/ /\ world'.maintenance = world.maintenance
                /\ past'.lost = past.lost /\ past'.late = past.late
                /\ Started /\ advisory' = advisory
  <2>1. CASE procs' = procs
    BY <1>0, <1>7, <2>1, RunTaskStep DEF BackendAside
  <2>2. CASE Started
    <3>1. world'.maintenance = world.maintenance
      BY <1>0, <1>7, RunTaskStep
    <3>2. QED
      BY <1>7, <2>2, <3>1, RunTaskStep
  <2>3. QED
    BY <1>7, <2>1, <2>2, RunTaskStep
<1>8. QED
  BY <1>1, <1>2, <1>3, <1>4, <1>5, <1>6, <1>7, FiveWays

Working(p) == procs[p] \in {"serve", "drain"}

\* Only one process can have the lock.
LEMMA HasLockIsOne ==
  ASSUME BackendHasLock
  PROVE  OneBackend
<1>1. past.lost \/ \A p, q \in {v \in Procs : procs[v] \in {"serve", "drain"}} : p = q
  BY DEF BackendHasLock
<1>2. QED
  BY <1>1, AtMostOne DEF OneBackend

\* Who gets to work took the lock while it was free; who has it gives it up last.
LEMMA BackendKept ==
  ASSUME OpsTypeOK, TellersMatch, BackendHasLock, [OpsNext]_opsVars
  PROVE  BackendHasLock'
<1>0. /\ procs \in [Procs -> {"none", "boot", "start", "serve", "drain"}]
      /\ NoOne \notin Procs /\ "gone" \notin Procs /\ past \in OpsHistory
  BY OpsAssumption DEF OpsTypeOK, Procs
<1>1. past.lost \/ \A p \in Procs : Working(p) => advisory = p
  BY DEF BackendHasLock, Working
<1> SUFFICES past'.lost \/ \A p \in Procs : Working(p)' => advisory' = p
  BY DEF BackendHasLock, Working
<1>2. CASE BackendAside
  BY <1>1, <1>2 DEF BackendAside, Working
<1>3. ASSUME NEW p \in Procs, Killed(p)
      PROVE  past.lost \/ \A q \in Procs : Working(q)' => advisory' = q
  BY <1>0, <1>1, <1>3 DEF Killed, Working
<1>4. ASSUME Started, advisory' = advisory
      PROVE  past.lost \/ \A q \in Procs : Working(q)' => advisory' = q
  BY <1>0, <1>1, <1>4 DEF Started, Working, Procs
<1>5. CASE Machine
  <2>1. ASSUME NEW p \in Procs, Boot(p) PROVE past'.lost \/ \A q \in Procs : Working(q)' => advisory' = q
    BY <1>0, <1>1, <2>1 DEF Boot, Working
  <2>2. ASSUME NEW p \in Procs, TakeAdvisory(p)
        PROVE  past'.lost \/ \A q \in Procs : Working(q)' => advisory' = q
    BY <1>0, <1>1, <2>2 DEF TakeAdvisory, Working
  <2>3. ASSUME NEW p \in Procs, Drained(p)
        PROVE  past'.lost \/ \A q \in Procs : Working(q)' => advisory' = q
    BY <1>0, <1>1, <2>3 DEF Drained, Working
  <2>4. ASSUME NEW p \in Procs, Die(p)
        PROVE  past'.lost \/ \A q \in Procs : Working(q)' => advisory' = q
    BY <1>3, <2>4 DEF Die
  <2>5. CASE Notice
    BY <1>0, <1>1, <2>5 DEF Notice, Working
  <2>6. CASE StopPublic
    <3>1. past'.lost = past.lost
      <4> DEFINE x == past.late \/ procs["task"] = "start"
      <4>1. past' = [past EXCEPT !.late = x]
        BY <1>0, <2>6 DEF StopPublic, OpsHistory
      <4> HIDE DEF x
      <4>2. QED
        BY <1>0, <4>1 DEF OpsHistory
    <3>2. advisory' = advisory /\ \A q \in Procs : Working(q)' => Working(q)
      BY <1>0, <2>6 DEF StopPublic, Working, Procs
    <3>3. QED
      BY <1>1, <3>1, <3>2
  <2>7. CASE StartPublic \/ Respawn
    BY <1>4, <2>7 DEF StartPublic, Respawn
  <2>8. CASE StartOther
    BY <1>0, <1>1, <2>8 DEF StartOther, Working, Procs
  <2>9. CASE LoseAdvisory
    BY <1>0, <2>9 DEF LoseAdvisory, OpsHistory
  <2>10. CASE \E part \in {"db", "net", "tunnel"} : Fall(part) \/ Mend(part)
    BY <1>1, <2>10 DEF Fall, Mend, Working
  <2>11. QED
    BY <1>5, <2>1, <2>2, <2>3, <2>4, <2>5, <2>6, <2>7, <2>8, <2>9, <2>10 DEF Machine
<1>6. QED
  BY <1>2, <1>3, <1>4, <1>5, BackendWays DEF Procs

\* No backend gets by the maintenance flag, but for one that was just starting.
LEMMA MaintenanceKept ==
  ASSUME OpsTypeOK, TellersMatch, MaintenanceHolds, [OpsNext]_opsVars
  PROVE  MaintenanceHolds'
<1>0. /\ procs \in [Procs -> {"none", "boot", "start", "serve", "drain"}]
      /\ past \in OpsHistory
      /\ world \in [db : BOOLEAN, net : BOOLEAN, tunnel : BOOLEAN, maintenance : BOOLEAN]
      /\ "task" \in Procs /\ "other" \in Procs
  BY DEF OpsTypeOK, Procs
<1>1. world.maintenance => past.late \/ procs["task"] \notin {"start", "serve"}
  BY DEF MaintenanceHolds
<1> SUFFICES world'.maintenance => past'.late \/ procs'["task"] \notin {"start", "serve"}
  BY DEF MaintenanceHolds
<1>2. CASE BackendAside
  BY <1>1, <1>2 DEF BackendAside
<1>3. ASSUME Killed("task") \/ Started PROVE procs'["task"] \in {"start", "serve"} => procs'["task"] = procs["task"]
  BY <1>0, <1>3 DEF Killed, Started
<1>4. CASE Machine
  <2>1. ASSUME NEW p \in Procs, Boot(p) \/ TakeAdvisory(p) \/ Drained(p) \/ Die(p)
        PROVE  world'.maintenance => past'.late \/ procs'["task"] \notin {"start", "serve"}
    <3>1. CASE Boot(p)
      BY <1>0, <1>1, <3>1 DEF Boot
    <3>2. CASE TakeAdvisory(p)
      BY <1>0, <1>1, <3>2 DEF TakeAdvisory
    <3>3. CASE Drained(p)
      BY <1>0, <1>1, <3>3 DEF Drained
    <3>4. CASE Die(p)
      BY <1>0, <1>1, <3>4 DEF Die, Killed
    <3>5. QED
      BY <2>1, <3>1, <3>2, <3>3, <3>4
  <2>2. CASE Notice
    BY <1>1, <2>2 DEF Notice
  <2>3. CASE StopPublic
    <3> DEFINE x == past.late \/ procs["task"] = "start"
    <3>1. past' = [past EXCEPT !.late = x]
      BY <1>0, <2>3 DEF StopPublic, OpsHistory
    <3>2. procs'["task"] = IF procs["task"] = "serve" THEN "drain" ELSE procs["task"]
      BY <1>0, <2>3 DEF StopPublic
    <3> HIDE DEF x
    <3>3. past'.late = x
      BY <1>0, <3>1 DEF OpsHistory
    <3>4. QED
      BY <3>2, <3>3 DEF x
  <2>4. CASE StartPublic
    BY <1>0, <2>4 DEF StartPublic
  <2>5. CASE Respawn
    BY <1>0, <1>1, <1>3, <2>5 DEF Respawn
  <2>6. CASE StartOther
    BY <1>0, <1>1, <2>6 DEF StartOther
  <2>7. CASE LoseAdvisory
    BY <1>0, <1>1, <2>7 DEF LoseAdvisory, OpsHistory
  <2>8. CASE \E part \in {"db", "net", "tunnel"} : Fall(part) \/ Mend(part)
    <3>1. procs' = procs /\ past' = past /\ world'.maintenance = world.maintenance
      BY <1>0, <2>8 DEF Fall, Mend
    <3>2. QED
      BY <1>1, <3>1
  <2>9. QED
    BY <1>4, <2>1, <2>2, <2>3, <2>4, <2>5, <2>6, <2>7, <2>8 DEF Machine
<1>5. QED
  BY <1>1, <1>2, <1>3, <1>4, BackendWays

-------------------------------------------------------------------------------
(* What TellersMatch says of one watchdog. *)
DogMatches(d) ==
  /\ dog[d].pc \in {"off", "unlink", "create", "probe", "save", "end", "run"} => Free(d)
  /\ dog[d].pc \in {"off", "unlink", "create", "probe"} => dog[d].finding = "unknown"
  /\ dog[d].pc \in {"public", "permit", "save", "end", "run", "wait"} =>
       dog[d].finding # "unknown"

\* What a step of a watchdog does to what it and others have to say.
LEMMA RoundSays ==
  ASSUME OpsTypeOK, TellersMatch, NEW d \in Dogs, Rounds(d)
  PROVE  /\ OtherTellers(d) /\ DogMatches(d)'
         /\ teller'[d].file # <<>> => teller'[d].say # <<>>
<1>0. DogMatches(d) /\ d \in Writers /\ (teller[d].file # <<>> => ~Free(d))
  BY DEF TellersMatch, DogMatches, Writers
<1>1. CASE Sniff(d)
  BY <1>0, <1>1, SniffStep DEF DogMatches, OtherTellers, Free
<1>2. CASE Unlink(d)
  BY <1>0, <1>2, UnlinkStep DEF DogMatches, OtherTellers, Free
<1>3. CASE Create(d)
  BY <1>0, <1>3, CreateStep DEF DogMatches, OtherTellers, Free
<1>4. CASE Probe(d)
  BY <1>0, <1>4, ProbeStep DEF DogMatches, OtherTellers, Findings, Free
<1>5. CASE Public(d)
  BY <1>0, <1>5, PublicStep DEF DogMatches, OtherTellers, Free
<1>6. CASE PermitLoad(d)
  BY <1>0, <1>6, PermitLoadStep DEF DogMatches, OtherTellers, Free
<1>7. CASE PermitSave(d)
  BY <1>0, <1>7, PermitSaveStep DEF DogMatches, OtherTellers, Free
<1>8. CASE EndTask(d)
  BY <1>0, <1>8, EndTaskStep DEF DogMatches, OtherTellers, Free
<1>9. CASE RunTask(d)
  BY <1>0, <1>9, RunTaskStep DEF DogMatches, OtherTellers, Free
<1>10. CASE Wait(d)
  BY <1>0, <1>10, WaitStep DEF DogMatches, OtherTellers, Free
<1>11. CASE Release(d)
  BY <1>0, <1>11, ReleaseStep DEF DogMatches, OtherTellers, Free
<1>12. CASE CrashDog(d)
  BY <1>0, <1>12, CrashDogStep DEF DogMatches, OtherTellers, Free
<1>13. QED
  BY <1>1, <1>2, <1>3, <1>4, <1>5, <1>6, <1>7, <1>8, <1>9, <1>10, <1>11, <1>12 DEF Rounds

\* The health page is no watchdog.
LEMMA HealthIsApart == Health \in Writers /\ Health \notin Dogs /\ Dogs \subseteq Writers
BY OpsAssumption DEF Writers

\* Whoever speaks has been silent where it must be.
LEMMA TellersKept ==
  ASSUME OpsTypeOK, TellersMatch, [OpsNext]_opsVars
  PROVE  TellersMatch'
<1>0. /\ \A w \in Writers : teller[w].file # <<>> => teller[w].say # <<>>
      /\ \A d \in Dogs : DogMatches(d)
      /\ \A alert \in ToSay(Health) : alert[1] = "health"
  BY DEF TellersMatch, DogMatches, Free
<1>1. SUFFICES /\ \A w \in Writers : teller'[w].file # <<>> => teller'[w].say # <<>>
               /\ \A d \in Dogs : DogMatches(d)'
               /\ \A alert \in ToSay(Health)' : alert[1] = "health"
  BY DEF TellersMatch, DogMatches, Free
<1>2. CASE Aside
  BY <1>0, <1>2 DEF Aside, DogMatches, Free, ToSay
<1>3. ASSUME NEW n \in RestartIds, Elapse(n)
      PROVE  teller' = teller /\ dog' = dog
  BY <1>3, ElapseStep
<1>4. ASSUME NEW d \in Dogs, AgeLock(d)
      PROVE  teller' = teller /\ dog' = dog
  BY <1>4 DEF AgeLock
<1>5. CASE teller' = teller /\ dog' = dog
  BY <1>0, <1>5 DEF DogMatches, Free, ToSay
<1>6. ASSUME NEW d \in Dogs, Rounds(d)
      PROVE  /\ \A w \in Writers : teller'[w].file # <<>> => teller'[w].say # <<>>
             /\ \A e \in Dogs : DogMatches(e)'
             /\ \A alert \in ToSay(Health)' : alert[1] = "health"
  <2>1. OtherTellers(d) /\ OtherDogs(d) /\ DogMatches(d)'
        /\ (teller'[d].file # <<>> => teller'[d].say # <<>>)
    BY <1>6, RoundSays, RoundPcs
  <2>2. \A w \in Writers : teller'[w].file # <<>> => teller'[w].say # <<>>
    BY <1>0, <2>1 DEF OtherTellers
  <2>3. \A e \in Dogs : DogMatches(e)'
    <3>1. ASSUME NEW e \in Dogs, e # d PROVE DogMatches(e)'
      <4>1. dog'[e] = dog[e] /\ teller'[e] = teller[e] /\ DogMatches(e)
        BY <1>0, <2>1, <3>1, HealthIsApart DEF OtherDogs, OtherTellers
      <4>2. QED
        BY <4>1 DEF DogMatches, Free
    <3>2. QED
      BY <2>1, <3>1
  <2>4. teller'[Health] = teller[Health]
    BY <2>1, HealthIsApart DEF OtherTellers
  <2>5. QED
    BY <1>0, <2>2, <2>3, <2>4 DEF ToSay
<1>7. ASSUME NEW w \in Writers, OtherTellers(w), dog' = dog, ~Free(w),
             teller'[w].file # <<>> => teller'[w].say # <<>>, ToSay(w)' \subseteq ToSay(w)
      PROVE  /\ \A v \in Writers : teller'[v].file # <<>> => teller'[v].say # <<>>
             /\ \A e \in Dogs : DogMatches(e)'
             /\ \A alert \in ToSay(Health)' : alert[1] = "health"
  <2>1. \A v \in Writers : teller'[v].file # <<>> => teller'[v].say # <<>>
    BY <1>0, <1>7 DEF OtherTellers
  <2>2. ASSUME NEW e \in Dogs PROVE DogMatches(e)'
    <3>1. DogMatches(e) /\ (e = w \/ teller'[e] = teller[e])
      BY <1>0, <1>7, HealthIsApart DEF OtherTellers
    <3>2. QED
      BY <1>7, <3>1 DEF DogMatches, Free
  <2>3. ToSay(Health)' \subseteq ToSay(Health)
    <3>1. Health = w \/ teller'[Health] = teller[Health]
      BY <1>7, HealthIsApart DEF OtherTellers
    <3>2. QED
      BY <1>7, <3>1 DEF ToSay
  <2>4. QED
    BY <1>0, <2>1, <2>2, <2>3
<1>8. ASSUME NEW w \in Writers, TellLoad(w)
      PROVE  /\ \A v \in Writers : teller'[v].file # <<>> => teller'[v].say # <<>>
             /\ \A e \in Dogs : DogMatches(e)'
             /\ \A alert \in ToSay(Health)' : alert[1] = "health"
  <2>1. ToSay(w)' \subseteq ToSay(w)
    BY <1>8, TellLoadStep DEF ToSay
  <2>2. teller'[w].file # <<>> => teller'[w].say # <<>>
    BY <1>8, TellLoadStep DEF Free
  <2>3. QED
    BY <1>7, <1>8, <2>1, <2>2, TellLoadStep
<1>9. ASSUME NEW w \in Writers, TellSave(w)
      PROVE  /\ \A v \in Writers : teller'[v].file # <<>> => teller'[v].say # <<>>
             /\ \A e \in Dogs : DogMatches(e)'
             /\ \A alert \in ToSay(Health)' : alert[1] = "health"
  BY <1>7, <1>9, TellSaveStep
<1>10. ASSUME NEW on \in BOOLEAN, Reconcile(on)
      PROVE  /\ \A v \in Writers : teller'[v].file # <<>> => teller'[v].say # <<>>
             /\ \A e \in Dogs : DogMatches(e)'
             /\ \A alert \in ToSay(Health)' : alert[1] = "health"
  <2>1. /\ OtherTellers(Health) /\ dog' = dog
        /\ teller'[Health].say # <<>> /\ ToSay(Health)' = {<<"health", on>>}
    BY <1>10, ReconcileStep
  <2>2. \A e \in Dogs : teller'[e] = teller[e]
    BY <2>1, HealthIsApart DEF OtherTellers
  <2>3. \A e \in Dogs : DogMatches(e)'
    BY <1>0, <2>1, <2>2 DEF DogMatches, Free
  <2>4. \A v \in Writers : teller'[v].file # <<>> => teller'[v].say # <<>>
    BY <1>0, <2>1 DEF OtherTellers
  <2>5. QED
    BY <2>1, <2>3, <2>4
<1>11. QED
  BY <1>2, <1>3, <1>4, <1>5, <1>6, <1>8, <1>9, <1>10, MachineAside, FiveWays DEF Tells

-------------------------------------------------------------------------------
(* One demand for each alert, and of the two alerts of the backend only. *)
IsClear(finding) ==
  /\ Demand(finding) \subseteq Keys \X BOOLEAN
  /\ \A a \in Demand(finding) : a[1] \in {"backend", "database"}
  /\ \A a, b \in Demand(finding) : a[1] = b[1] => a = b

\* A finding demands one thing of an alert, of the backend's and the database's only.
LEMMA DemandIsClear ==
  ASSUME NEW finding \in Findings \union {"unknown"}
  PROVE  IsClear(finding)
<1>1. \A on \in BOOLEAN : /\ <<"backend", on>>[1] = "backend" /\ <<"database", on>>[1] = "database"
                       /\ <<"backend", on>> \in Keys \X BOOLEAN
                       /\ <<"database", on>> \in Keys \X BOOLEAN
  BY Demands DEF Keys
<1>2. CASE finding = "healthy"
  <2> DEFINE a == <<"backend", FALSE>>
             b == <<"database", FALSE>>
  <2>1. Demand(finding) = {a, b}
    BY <1>2, Demands
  <2>2. /\ a[1] = "backend" /\ b[1] = "database" /\ a \in Keys \X BOOLEAN /\ b \in Keys \X BOOLEAN
    BY <1>1
  <2> HIDE DEF a, b
  <2>3. QED
    BY <2>1, <2>2 DEF IsClear
<1>3. CASE finding = "database"
  <2> DEFINE a == <<"database", TRUE>>
  <2>1. Demand(finding) = {a}
    BY <1>3, Demands
  <2>2. a[1] = "database" /\ a \in Keys \X BOOLEAN
    BY <1>1
  <2> HIDE DEF a
  <2>3. QED
    BY <2>1, <2>2 DEF IsClear
<1>4. CASE finding = "down"
  <2> DEFINE a == <<"backend", TRUE>>
  <2>1. Demand(finding) = {a}
    BY <1>4, Demands
  <2>2. a[1] = "backend" /\ a \in Keys \X BOOLEAN
    BY <1>1
  <2> HIDE DEF a
  <2>3. QED
    BY <2>1, <2>2 DEF IsClear
<1>5. CASE finding = "unknown"
  <2>1. Demand(finding) = {}
    BY <1>5, Demands
  <2>2. QED
    BY <2>1 DEF IsClear
<1>6. QED
  BY <1>2, <1>3, <1>4, <1>5 DEF Findings

\* Nothing to say.
LEMMA FreeSaysNothing ==
  ASSUME NEW w \in Writers, Free(w)
  PROVE  ToSay(w) = {}
<1>1. Len(<<>>) = 0 /\ 1..0 = {}
  OBVIOUS
<1>2. QED
  BY <1>1 DEF Free, ToSay, Said

\* What a write of the alerts leaves shown.
LEMMA TellShows ==
  ASSUME OpsTypeOK, TellersMatch, NEW w \in Writers, TellSave(w)
  PROVE  \E a \in ToSay(w) :
           /\ Shows(a)' /\ ToSay(w) \subseteq ToSay(w)' \union {a}
           /\ \A b \in Keys \X BOOLEAN : b[1] # a[1] /\ Shows(b) => Shows(b)'
<1>1. PICK a \in ToSay(w) :
        /\ a \in Keys \X BOOLEAN /\ ToSay(w) \subseteq ToSay(w)' \union {a}
        /\ alerts'[a[1]] = a[2]
        /\ past' = [past EXCEPT !.over = (past.over \ {a[1]}) \union
                      {k \in Keys \ {a[1]} : alerts[k] # teller[w].file[k]}]
        /\ \A k \in Keys \ {a[1]} : alerts'[k] = teller[w].file[k]
  BY TellSaveStep
<1> DEFINE x == (past.over \ {a[1]}) \union {k \in Keys \ {a[1]} : alerts[k] # teller[w].file[k]}
<1>2. past'.over = x
  <2>1. past' = [past EXCEPT !.over = x]
    BY <1>1
  <2> HIDE DEF x
  <2>2. QED
    BY <2>1 DEF OpsTypeOK, OpsHistory
<1>3. ASSUME NEW b \in Keys \X BOOLEAN, b[1] # a[1], Shows(b) PROVE Shows(b)'
  <2>1. b[1] \in Keys \ {a[1]}
    BY <1>3
  <2>2. CASE alerts[b[1]] # teller[w].file[b[1]]
    BY <1>2, <2>1, <2>2 DEF Shows
  <2>3. CASE alerts[b[1]] = teller[w].file[b[1]]
    <3>1. alerts'[b[1]] = alerts[b[1]]
      BY <1>1, <2>1, <2>3
    <3>2. b[1] \in past.over => b[1] \in past'.over
      BY <1>2, <2>1
    <3>3. QED
      BY <1>3, <3>1, <3>2 DEF Shows
  <2>4. QED
    BY <2>2, <2>3
<1>4. Shows(a)'
  BY <1>1 DEF Shows
<1>5. QED
  BY <1>1, <1>3, <1>4

(* What RoundTells says of the watchdog that is at work. *)
SaysIt(d) ==
  IF dog[d].finding = "unknown" THEN Free(d) /\ \A alert \in Demand(verdict) : Shows(alert)
  ELSE /\ \A alert \in Demand(dog[d].finding) : alert \in ToSay(d) \/ Shows(alert)
       /\ \A alert \in ToSay(d) :
            alert[1] \in {"backend", "database"} => alert \in Demand(dog[d].finding)

\* The writers keep what is shown, or will be.
LEMMA TellsKept ==
  ASSUME OpsTypeOK, TellersMatch, LockIsOwn, AlertsShow, RoundTells, Tells, ~past.raced
  PROVE  /\ Inside' = {} => \A alert \in Demand(verdict') : Shows(alert)'
         /\ \A d \in Inside' : SaysIt(d)'
<1>0. /\ Inside' = Inside /\ verdict' = verdict /\ dog' = dog
      /\ verdict \in Findings \union {"unknown"}
      /\ \A d \in Dogs : dog[d].finding \in Findings \union {"unknown"} /\ dog[d].pc \in DogPcs
  BY TellTypes DEF Inside, OpsTypeOK, Round
<1>1. /\ Inside = {} => \A alert \in Demand(verdict) : Shows(alert)
      /\ \A d \in Inside : SaysIt(d)
  BY DEF AlertsShow, RoundTells, SaysIt
<1>2. ASSUME NEW w \in Writers, TellLoad(w)
      PROVE  /\ Inside' = {} => \A alert \in Demand(verdict') : Shows(alert)'
             /\ \A d \in Inside' : SaysIt(d)'
  <2>1. alerts' = alerts /\ past' = past
    BY <1>2, TellLoadStep
  <2>2. \A alert \in Demand(verdict) : Shows(alert) => Shows(alert)'
    BY <2>1 DEF Shows
  <2>3. ASSUME NEW d \in Inside PROVE SaysIt(d)'
    <3>0. d \in Dogs /\ d \in Writers
      BY HealthIsApart DEF Inside
    <3>1. CASE d # w
      <4>1. teller'[d] = teller[d]
        BY <1>2, <3>0, <3>1, TellLoadStep DEF OtherTellers
      <4>2. QED
        BY <1>0, <1>1, <2>1, <4>1 DEF SaysIt, Shows, ToSay, Free
    <3>2. CASE d = w
      <4>1. dog[d].finding # "unknown"
        BY <1>1, <1>2, <3>2, TellLoadStep DEF SaysIt
      <4>2. /\ ToSay(d)' \subseteq ToSay(d)
            /\ \A b \in ToSay(d) : b \in ToSay(d)' \/ Shows(b)'
        <5>1. CASE teller'[w].say = teller[w].say
          BY <3>2, <5>1 DEF ToSay
        <5>2. CASE /\ ToSay(w)' \subseteq ToSay(w)
                   /\ \E a \in Keys \X BOOLEAN :
                        alerts[a[1]] = a[2] /\ ToSay(w) \subseteq ToSay(w)' \union {a}
          BY <2>1, <3>2, <5>2 DEF Shows
        <5>3. QED
          BY <1>2, <5>1, <5>2, TellLoadStep
      <4>3. \A alert \in Demand(dog[d].finding) : Shows(alert) => Shows(alert)'
        BY <2>1 DEF Shows
      <4>4. QED
        BY <1>0, <1>1, <4>1, <4>2, <4>3 DEF SaysIt
    <3>3. QED
      BY <3>1, <3>2
  <2>4. QED
    BY <1>0, <1>1, <2>2, <2>3
<1>3. ASSUME NEW w \in Writers, TellSave(w)
      PROVE  /\ Inside' = {} => \A alert \in Demand(verdict') : Shows(alert)'
             /\ \A d \in Inside' : SaysIt(d)'
  <2>1. PICK a \in ToSay(w) :
          /\ Shows(a)' /\ ToSay(w) \subseteq ToSay(w)' \union {a}
          /\ \A b \in Keys \X BOOLEAN : b[1] # a[1] /\ Shows(b) => Shows(b)'
    BY <1>3, TellShows
  <2>2. OtherTellers(w) /\ ~Free(w) /\ ToSay(w)' \subseteq ToSay(w)
    BY <1>3, TellSaveStep
  <2>3. w = Health \/ w \in Inside
    <3>1. ASSUME w \in Dogs PROVE w \in Inside
      BY <1>0, <2>2, <3>1 DEF TellersMatch, Inside
    <3>2. QED
      BY <3>1 DEF Writers
  <2>4. CASE w = Health
    <3>1. a[1] = "health"
      BY <2>4 DEF TellersMatch
    <3>2. ASSUME NEW f \in Findings \union {"unknown"}, NEW b \in Demand(f), Shows(b) PROVE Shows(b)'
      <4>1. b \in Keys \X BOOLEAN /\ b[1] # "health"
        BY DemandIsClear DEF IsClear
      <4>2. QED
        BY <2>1, <3>1, <3>2, <4>1
    <3>3. ASSUME NEW d \in Inside PROVE SaysIt(d)'
      <4>1. d \in Dogs /\ d \in Writers /\ d # w
        BY <2>4, HealthIsApart DEF Inside
      <4>2. teller'[d] = teller[d] /\ ToSay(d)' = ToSay(d) /\ (Free(d) => Free(d)')
        BY <2>2, <4>1 DEF OtherTellers, ToSay, Free
      <4>3. QED
        BY <1>0, <1>1, <3>2, <4>1, <4>2 DEF SaysIt
    <3>4. QED
      BY <1>0, <1>1, <3>2, <3>3
  <2>5. CASE w \in Inside
    <3>1. \A d \in Inside : d = w
      BY <2>5, Alone
    <3>2. w \in Dogs /\ SaysIt(w) /\ dog[w].finding # "unknown"
      BY <1>1, <2>2, <2>5 DEF SaysIt, Inside
    <3> DEFINE f == dog[w].finding
    <3>3. IsClear(f)
      BY <1>0, <3>2, DemandIsClear
    <3>4. ASSUME NEW b \in Demand(f) PROVE b \in ToSay(w)' \/ Shows(b)'
      <4>1. CASE a[1] = b[1]
        <5>1. a \in Demand(f)
          BY <3>2, <3>3, <3>4, <4>1 DEF IsClear, SaysIt
        <5>2. a = b
          BY <3>3, <3>4, <4>1, <5>1 DEF IsClear
        <5>3. QED
          BY <2>1, <5>2
      <4>2. CASE a[1] # b[1]
        BY <2>1, <3>2, <3>3, <3>4, <4>2 DEF IsClear, SaysIt
      <4>3. QED
        BY <4>1, <4>2
    <3>5. SaysIt(w)'
      BY <1>0, <2>2, <3>2, <3>4 DEF SaysIt
    <3>6. QED
      BY <1>0, <2>5, <3>1, <3>5
  <2>6. QED
    BY <2>3, <2>4, <2>5
<1>4. ASSUME NEW on \in BOOLEAN, Reconcile(on)
      PROVE  /\ Inside' = {} => \A alert \in Demand(verdict') : Shows(alert)'
             /\ \A d \in Inside' : SaysIt(d)'
  <2>1. alerts' = alerts /\ past' = past /\ OtherTellers(Health)
    BY <1>4, ReconcileStep
  <2>2. \A d \in Inside : teller'[d] = teller[d]
    BY <2>1, HealthIsApart DEF OtherTellers, Inside
  <2>3. \A d \in Inside : SaysIt(d)'
    BY <1>0, <1>1, <2>1, <2>2 DEF SaysIt, Shows, ToSay, Free
  <2>4. QED
    BY <1>0, <1>1, <2>1, <2>3 DEF Shows
<1>5. QED
  BY <1>2, <1>3, <1>4 DEF Tells

\* A round sets what it has found, and says nothing else of the backend.
LEMMA RoundKept ==
  ASSUME OpsTypeOK, TellersMatch, LockIsOwn, AlertsShow, RoundTells, ~past.raced,
         NEW d \in Dogs, Rounds(d)
  PROVE  /\ Inside' = {} => \A alert \in Demand(verdict') : Shows(alert)'
         /\ \A e \in Inside' : SaysIt(e)'
<1>0. /\ OtherDogs(d) /\ OtherTellers(d) /\ d \in Writers
      /\ alerts' = alerts /\ past'.over = past.over
      /\ verdict \in Findings \union {"unknown"} /\ DogMatches(d)
  BY RoundPcs, RoundSays, RoundTypes, PastStep, HealthIsApart DEF OpsTypeOK, TellersMatch, DogMatches
<1>1. /\ Inside = {} => \A alert \in Demand(verdict) : Shows(alert)
      /\ \A e \in Inside : SaysIt(e)
  BY DEF AlertsShow, RoundTells, SaysIt
<1>2. \A b \in Keys \X BOOLEAN : Shows(b)' <=> Shows(b)
  BY <1>0 DEF Shows
<1>3. \A f \in Findings \union {"unknown"} : \A b \in Demand(f) : Shows(b)' <=> Shows(b)
  BY <1>0 DEF Shows
<1>4. \A e \in Inside' : e = d \/ e \in Inside
  BY <1>0 DEF OtherDogs, Inside
<1>5. verdict' = verdict \/ Release(d) \/ CrashDog(d)
  BY SniffStep, UnlinkStep, CreateStep, ProbeStep, PublicStep, PermitLoadStep, PermitSaveStep,
     EndTaskStep, RunTaskStep, WaitStep DEF Rounds
<1>6. ASSUME NEW e \in Inside', e # d PROVE SaysIt(e)'
  <2>1. e \in Inside /\ e \in Dogs /\ e \in Writers
    BY <1>4, <1>6, HealthIsApart DEF Inside
  <2>2. dog'[e] = dog[e] /\ teller'[e] = teller[e]
    BY <1>0, <1>6, <2>1 DEF OtherDogs, OtherTellers
  <2>3. CASE verdict' = verdict
    BY <1>0, <1>1, <2>1, <2>2, <2>3 DEF SaysIt, Shows, ToSay, Free
  <2>4. CASE Release(d)
    <3>1. d \in Inside
      BY <2>4, ReleaseStep DEF Inside
    <3>2. QED
      BY <1>6, <2>1, <3>1, Alone
  <2>5. CASE CrashDog(d)
    <3>1. verdict' = "unknown"
      BY <2>5, CrashDogStep
    <3>2. Demand(verdict') = {}
      BY <3>1, Demands
    <3>3. QED
      BY <1>0, <1>1, <2>1, <2>2, <3>2 DEF SaysIt, Shows, ToSay, Free
  <2>6. QED
    BY <1>5, <2>3, <2>4, <2>5
<1>7. Free(d) => ToSay(d) = {}
  BY <1>0, FreeSaysNothing
<1>8. ASSUME d \in Inside' PROVE SaysIt(d)'
  <2>0. dog[d].finding \in Findings \union {"unknown"}
    BY DEF OpsTypeOK, Round
  <2> DEFINE f == dog[d].finding
  <2>1. CASE Create(d)
    <3>1. /\ dogLock = NoOne /\ dog'[d].finding = "unknown" /\ teller' = teller /\ verdict' = verdict
          /\ dog[d].pc = "create"
      BY <1>0, <1>8, <2>1, CreateStep DEF Inside, DogMatches
    <3>2. Inside = {}
      <4>1. \A e \in Inside : [by |-> e, old |-> FALSE] \in LockFile
        BY DEF LockFile, Inside
      <4>2. QED
        BY <3>1, <4>1, OpsAssumption DEF LockIsOwn
    <3>3. Free(d)
      BY <1>0, <3>1 DEF DogMatches
    <3>4. QED
      BY <1>0, <1>1, <1>3, <3>1, <3>2, <3>3 DEF SaysIt, Free
  <2>2. CASE Probe(d)
    <3>1. ToSay(d)' = Demand(dog'[d].finding) /\ dog'[d].finding \in Findings
      BY <2>2, ProbeStep
    <3>2. dog'[d].finding # "unknown"
      BY <3>1 DEF Findings
    <3>3. QED
      BY <3>1, <3>2 DEF SaysIt
  <2>3. ASSUME dog'[d].finding = f, d \in Inside, Free(d), f # "unknown",
               \A alert \in ToSay(d)' : alert[1] \notin {"backend", "database"}
        PROVE  SaysIt(d)'
    <3>1. \A alert \in Demand(f) : Shows(alert)
      BY <1>1, <1>7, <2>3 DEF SaysIt
    <3>2. \A alert \in Demand(f) : Shows(alert)'
      BY <1>3, <2>0, <3>1
    <3>3. QED
      BY <2>3, <3>2 DEF SaysIt
  <2>4. ASSUME dog'[d].finding = f, d \in Inside, teller' = teller, f # "unknown"
        PROVE  SaysIt(d)'
    <3>1. SaysIt(d) /\ ToSay(d)' = ToSay(d)
      BY <1>1, <2>4 DEF ToSay
    <3>2. QED
      BY <1>3, <2>0, <2>4, <3>1 DEF SaysIt
  <2>5. CASE Public(d)
    <3>1. dog[d].pc = "public" /\ dog'[d].finding = f /\ Free(d)
          /\ \A alert \in ToSay(d)' : alert[1] \notin {"backend", "database"}
      BY <2>5, PublicStep
    <3>2. d \in Inside /\ f # "unknown"
      BY <1>0, <3>1 DEF Inside, DogMatches
    <3>3. QED
      BY <2>3, <3>1, <3>2
  <2>6. CASE PermitLoad(d) \/ EndTask(d)
    <3>1. dog[d].pc \in {"permit", "end"} /\ dog'[d].finding = f /\ teller' = teller
      BY <2>6, PermitLoadStep, EndTaskStep
    <3>2. d \in Inside /\ f # "unknown"
      BY <1>0, <3>1 DEF Inside, DogMatches
    <3>3. QED
      BY <2>4, <3>1, <3>2
  <2>7. CASE PermitSave(d)
    <3>1. /\ dog[d].pc = "save" /\ dog'[d].finding = f
          /\ \/ teller' = teller
             \/ \A alert \in ToSay(d)' : alert[1] \notin {"backend", "database"}
      BY <2>7, PermitSaveStep
    <3>2. d \in Inside /\ f # "unknown" /\ Free(d)
      BY <1>0, <3>1 DEF Inside, DogMatches
    <3>3. QED
      BY <2>3, <2>4, <3>1, <3>2
  <2>8. CASE RunTask(d)
    <3>1. /\ dog[d].pc = "run" /\ dog'[d].finding = f
          /\ \A alert \in ToSay(d)' : alert[1] \notin {"backend", "database"}
      BY <2>8, RunTaskStep
    <3>2. d \in Inside /\ f # "unknown" /\ Free(d)
      BY <1>0, <3>1 DEF Inside, DogMatches
    <3>3. QED
      BY <2>3, <3>1, <3>2
  <2>9. CASE Wait(d)
    <3>1. dog[d].pc = "wait" /\ Free(d)
      BY <2>9, WaitStep
    <3>2. d \in Inside /\ f # "unknown"
      BY <1>0, <3>1 DEF Inside, DogMatches
    <3>3. CASE dog'[d].finding = "healthy" /\ ToSay(d)' = Demand("healthy")
      BY <3>3 DEF SaysIt
    <3>4. CASE dog'[d].finding = f /\ \A alert \in ToSay(d)' : alert[1] \notin {"backend", "database"}
      BY <2>3, <3>1, <3>2, <3>4
    <3>5. CASE dog'[d].finding = f /\ teller' = teller
      BY <2>4, <3>2, <3>5
    <3>6. QED
      BY <2>9, <3>3, <3>4, <3>5, WaitStep
  <2>10. CASE Sniff(d) \/ Unlink(d) \/ Release(d) \/ CrashDog(d)
    BY <1>8, <2>10, SniffStep, UnlinkStep, ReleaseStep, CrashDogStep DEF Inside
  <2>11. QED
    BY <2>1, <2>2, <2>5, <2>6, <2>7, <2>8, <2>9, <2>10 DEF Rounds
<1>9. ASSUME Inside' = {}, NEW b \in Demand(verdict') PROVE Shows(b)'
  <2>1. CASE Release(d)
    <3>1. /\ d \in Inside /\ Free(d)
          /\ verdict' = IF dog[d].finding = "unknown" THEN verdict ELSE dog[d].finding
      BY <2>1, ReleaseStep DEF Inside
    <3>2. dog[d].finding \in Findings \union {"unknown"}
      BY DEF OpsTypeOK, Round
    <3>3. SaysIt(d) /\ ToSay(d) = {}
      BY <1>1, <1>7, <3>1
    <3>4. CASE dog[d].finding = "unknown"
      BY <1>0, <1>3, <1>9, <3>1, <3>3, <3>4 DEF SaysIt
    <3>5. CASE dog[d].finding # "unknown"
      BY <1>3, <1>9, <3>1, <3>2, <3>3, <3>5 DEF SaysIt
    <3>6. QED
      BY <3>4, <3>5
  <2>2. CASE CrashDog(d)
    <3>1. verdict' = "unknown"
      BY <2>2, CrashDogStep
    <3>2. QED
      BY <1>9, <3>1, Demands
  <2>3. CASE verdict' = verdict /\ (Sniff(d) \/ Unlink(d) \/ Create(d))
    <3>1. d \notin Inside
      BY <2>3, SniffStep, UnlinkStep, CreateStep DEF Inside
    <3>2. Inside = {}
      BY <1>0, <1>9, <3>1 DEF Inside, OtherDogs
    <3>3. QED
      BY <1>0, <1>1, <1>3, <1>9, <2>3, <3>2
  <2>4. CASE \/ Probe(d) \/ Public(d) \/ PermitLoad(d) \/ PermitSave(d)
             \/ EndTask(d) \/ RunTask(d) \/ Wait(d)
    <3>1. d \in Inside'
      BY <2>4, ProbeStep, PublicStep, PermitLoadStep, PermitSaveStep, EndTaskStep, RunTaskStep,
         WaitStep DEF Inside
    <3>2. QED
      BY <1>9, <3>1
  <2>5. QED
    BY <1>5, <2>1, <2>2, <2>3, <2>4 DEF Rounds
<1>10. QED
  BY <1>6, <1>8, <1>9

\* The alerts say what was found, or are about to, as long as two rounds do not race.
LEMMA AlertsKept ==
  ASSUME OpsTypeOK, TellersMatch, LockIsOwn, AlertsShow, RoundTells, [OpsNext]_opsVars
  PROVE  AlertsShow' /\ RoundTells'
<1>0. /\ Inside = {} => past.raced \/ \A alert \in Demand(verdict) : Shows(alert)
      /\ past.raced \/ \A d \in Inside : SaysIt(d)
  BY DEF AlertsShow, RoundTells, SaysIt
<1>1. SUFFICES \/ past'.raced
               \/ /\ Inside' = {} => \A alert \in Demand(verdict') : Shows(alert)'
                  /\ \A d \in Inside' : SaysIt(d)'
  BY DEF AlertsShow, RoundTells, SaysIt
<1>2. ASSUME UNCHANGED <<dog, alerts, teller, verdict>>, past'.over = past.over,
             past.raced => past'.raced
      PROVE  \/ past'.raced
             \/ /\ Inside' = {} => \A alert \in Demand(verdict') : Shows(alert)'
                /\ \A d \in Inside' : SaysIt(d)'
  <2>1. Inside' = Inside
    BY <1>2 DEF Inside
  <2>2. QED
    BY <1>0, <1>2, <2>1 DEF SaysIt, Shows, ToSay, Free
<1>3. CASE Aside
  BY <1>2, <1>3 DEF Aside
<1>4. ASSUME NEW n \in RestartIds, Elapse(n)
      PROVE  UNCHANGED <<dog, alerts, teller, verdict>> /\ past'.over = past.over
             /\ (past.raced => past'.raced)
  BY <1>4, ElapseStep
<1>5. ASSUME NEW d \in Dogs, AgeLock(d)
      PROVE  UNCHANGED <<dog, alerts, teller, verdict>> /\ past'.over = past.over
             /\ (past.raced => past'.raced)
  BY <1>5, PastStep DEF AgeLock
<1>6. CASE Tells
  BY <1>6, TellsKept, TellTypes
<1>7. ASSUME NEW d \in Dogs, Rounds(d)
      PROVE  \/ past'.raced
             \/ /\ Inside' = {} => \A alert \in Demand(verdict') : Shows(alert)'
                /\ \A e \in Inside' : SaysIt(e)'
  <2>1. past.raced => past'.raced
    BY <1>7, PastStep
  <2>2. QED
    BY <1>7, <2>1, RoundKept
<1>8. QED
  BY <1>2, <1>3, <1>4, <1>5, <1>6, <1>7, MachineAside, FiveWays

-------------------------------------------------------------------------------
\* The initial states.
LEMMA InitHolds ==
  ASSUME OpsInit
  PROVE  OpsInv
<1>1. Asleep \in Round /\ Asleep.pc = "off" /\ Asleep.finding = "unknown"
  BY DEF Asleep, Round, DogPcs, Services, RestartIds
<1>2. Silent \in Telling /\ Silent.say = <<>> /\ Silent.file = <<>>
  BY DEF Silent, Telling
<1>3. /\ \A d \in Dogs : dog[d] = Asleep
      /\ \A w \in Writers : teller[w] = Silent
  BY DEF OpsInit
<1>4. Inside = {}
  BY <1>1, <1>3 DEF Inside
<1>5. past \in OpsHistory /\ ~past.raced /\ ~past.lost /\ past.aged = {}
      /\ \A s \in Services : past.restarts[s] = {}
  BY DEF OpsInit, OpsHistory
<1>6. OpsTypeOK
  <2>1. dog \in [Dogs -> Round] /\ teller \in [Writers -> Telling]
    BY <1>1, <1>2 DEF OpsInit
  <2>2. /\ procs \in [Procs -> {"none", "boot", "start", "serve", "drain"}]
        /\ advisory \in Procs \union {NoOne, "gone"}
    BY DEF OpsInit, Procs
  <2>3. /\ opsPlan \in OpsScenarios /\ dogLock \in LockFile \union {NoOne}
        /\ breaker \in [Services -> SUBSET RestartIds] /\ alerts \in [Keys -> BOOLEAN]
    BY DEF OpsInit
  <2>4. world \in [db : BOOLEAN, net : BOOLEAN, tunnel : BOOLEAN, maintenance : BOOLEAN]
    BY DEF OpsInit
  <2>5. verdict \in Findings \union {"unknown"}
    BY DEF OpsInit, Findings
  <2>6. QED
    BY <1>5, <2>1, <2>2, <2>3, <2>4, <2>5 DEF OpsTypeOK
<1>7. LockIsOwn /\ OneWatchdog
  BY <1>4, OneIsInside DEF LockIsOwn
<1>8. RestartsAreLimited /\ RestartsAreKnown
  <2>1. Cardinality({}) = 0 /\ RestartLimit \in Nat
    BY FS_EmptySet, OpsAssumption
  <2>2. \A s \in Services : past.restarts[s] \ past.aged = {}
    BY <1>5
  <2>3. \A s \in Services : ~(Cardinality(past.restarts[s] \ past.aged) > RestartLimit)
    BY <2>1, <2>2
  <2>4. RestartsAreKnown
    BY <1>1, <1>3, <2>2 DEF RestartsAreKnown
  <2>5. QED
    BY <2>3, <2>4 DEF RestartsAreLimited
<1>9. BackendHasLock /\ OneBackend
  <2>1. BackendHasLock
    BY DEF OpsInit, BackendHasLock, Procs
  <2>2. QED
    BY <2>1, HasLockIsOne
<1>10. MaintenanceHolds
  BY DEF OpsInit, MaintenanceHolds
<1>11. AlertsShow /\ RoundTells
  <2> DEFINE a == <<"backend", FALSE>>
             b == <<"database", FALSE>>
  <2>1. Demand(verdict) = {a, b}
    BY Demands DEF OpsInit
  <2>2. alerts["backend"] = FALSE /\ alerts["database"] = FALSE
    BY DEF OpsInit, Keys
  <2>3. a[1] = "backend" /\ a[2] = FALSE /\ b[1] = "database" /\ b[2] = FALSE
    OBVIOUS
  <2> HIDE DEF a, b
  <2>4. \A alert \in Demand(verdict) : Shows(alert)
    BY <2>1, <2>2, <2>3 DEF Shows
  <2>5. QED
    BY <1>4, <2>4 DEF AlertsShow, RoundTells
<1>12. TellersMatch
  <2>1. \A w \in Writers : teller[w].file = <<>> /\ Free(w)
    BY <1>2, <1>3 DEF Free
  <2>2. \A d \in Dogs : dog[d].pc = "off" /\ dog[d].finding = "unknown"
    BY <1>1, <1>3
  <2>3. ToSay(Health) = {}
    BY <2>1, HealthIsApart, FreeSaysNothing
  <2>4. QED
    BY <2>1, <2>2, <2>3, HealthIsApart DEF TellersMatch
<1>13. QED
  BY <1>6, <1>7, <1>8, <1>9, <1>10, <1>11, <1>12 DEF OpsInv

(* One watchdog at a time unless two raced for an old file, restarts within  *)
(* the limit whatever crashes, one backend on the database, none in          *)
(* maintenance, and alerts that say what was found: OpsInv.                  *)
THEOREM OpsHold == OpsSpec => []OpsInv
<1>1. OpsInit => OpsInv
  BY InitHolds
<1>2. OpsInv /\ [OpsNext]_opsVars => OpsInv'
  <2> SUFFICES ASSUME OpsInv, [OpsNext]_opsVars PROVE OpsInv'
    OBVIOUS
  <2>1. /\ OpsTypeOK /\ TellersMatch /\ LockIsOwn /\ RestartsAreLimited /\ RestartsAreKnown
        /\ BackendHasLock /\ MaintenanceHolds /\ AlertsShow /\ RoundTells
    BY DEF OpsInv
  <2>2. OpsTypeOK' /\ TellersMatch' /\ LockIsOwn'
    BY <2>1, TypeKept, TellersKept, LockKept
  <2>3. OneWatchdog'
    BY <2>2, OneIsInside, PTL
  <2>4. RestartsAreLimited' /\ RestartsAreKnown'
    BY <2>1, RestartsKept
  <2>5. BackendHasLock' /\ MaintenanceHolds'
    BY <2>1, BackendKept, MaintenanceKept
  <2>6. OneBackend'
    BY <2>5, HasLockIsOne, PTL
  <2>7. AlertsShow' /\ RoundTells'
    BY <2>1, AlertsKept
  <2>8. QED
    BY <2>2, <2>3, <2>4, <2>5, <2>6, <2>7 DEF OpsInv
<1>3. QED
  BY <1>1, <1>2, PTL DEF OpsSpec

-------------------------------------------------------------------------------
(***************************************************************************)
(* The backups.  A step either is the run's, which leaves the application   *)
(* and the restore alone (RunStep), or leaves the archives alone            *)
(* (AsideStep); the archives grow by the run's archive in a folder that has *)
(* none of that name, lose one that is superfluous, or stay (ArchiveWays).  *)
(* The names in a folder being distinct, its archives are ranked by their   *)
(* day: so many of them are younger, and that is what prune counts; the     *)
(* archive that a run has made in a folder is the youngest, and is kept     *)
(* (CurrentIsKept).                                                         *)
(***************************************************************************)

(* Days, names and folders. *)

\* Days are natural numbers, and so are the names, which grow with them.
LEMMA NamesGrow ==
  ASSUME NEW f \in Folders, NEW d \in Nat, NEW e \in Nat
  PROVE  /\ NameOf(f, d) \in Nat
         /\ d <= e => NameOf(f, d) <= NameOf(f, e)
         /\ Keep(f) \in Nat /\ Keep(f) > 0
<1>1. /\ WeekLength \in Nat \ {0} /\ MonthLength \in Nat \ {0}
      /\ DailyKeep \in Nat \ {0} /\ WeeklyKeep \in Nat \ {0} /\ MonthlyKeep \in Nat \ {0}
  BY BackupAssumption
<1>2. /\ \A w \in Nat \ {0} : d \div w \in Nat
      /\ \A w \in Nat \ {0} : d <= e => d \div w <= e \div w
  OBVIOUS
<1>3. CASE f = "daily"
  BY <1>1, <1>3 DEF NameOf, Keep
<1>4. CASE f = "weekly"
  <2>1. /\ NameOf(f, d) = d \div WeekLength /\ NameOf(f, e) = e \div WeekLength
        /\ Keep(f) = WeeklyKeep
    BY <1>4 DEF NameOf, Keep
  <2>2. QED
    BY <1>1, <1>2, <2>1
<1>5. CASE f = "monthly"
  <2>1. /\ NameOf(f, d) = d \div MonthLength /\ NameOf(f, e) = e \div MonthLength
        /\ Keep(f) = MonthlyKeep
    BY <1>5 DEF NameOf, Keep
  <2>2. QED
    BY <1>1, <1>2, <2>1
<1>6. QED
  BY <1>3, <1>4, <1>5 DEF Folders

\* The days that a scenario has.
LEMMA DaysAreBounded ==
  ASSUME BackupsTypeOK
  PROVE  /\ LastDay \in Nat /\ bkPlan.days \in 0..LastDay
         /\ backup.day \in 0..LastDay
         /\ Days \subseteq Nat
<1>1. LastDay \in Nat /\ bkPlan.days \in 0..LastDay
  BY BackupAssumption DEF BackupsTypeOK
<1>2. backup.day \in Nat /\ backup.day <= bkPlan.days
  BY DEF BackupsTypeOK, Run
<1>3. QED
  BY <1>1, <1>2 DEF Days

\* No two archives of one day.
OfOwnDay(S) == S \subseteq Archive /\ \A a, b \in S : a.day = b.day => a = b
Younger(S, a) == {b \in S : b.day > a.day}

\* Archives of different days are finitely many.
LEMMA ArchivesAreFinite ==
  ASSUME NEW S, OfOwnDay(S), LastDay \in Nat
  PROVE  IsFiniteSet(S)
<1> DEFINE g == [a \in S |-> a.day]
<1>1. \A a \in S : a.day \in Days
  BY DEF OfOwnDay, Archive
<1>2. g \in Injection(S, Days)
  BY <1>1 DEF OfOwnDay, Injection, IsInjective
<1>3. IsFiniteSet(Days)
  BY FS_Interval DEF Days
<1>4. QED
  BY <1>2, <1>3, FS_Injection

\* So many archives are younger: the fewer, the younger one is.
LEMMA Ranks ==
  ASSUME NEW S, OfOwnDay(S), LastDay \in Nat
  PROVE  /\ \A a \in S : Cardinality(Younger(S, a)) \in Nat
         /\ \A a, b \in S :
              a.day < b.day => Cardinality(Younger(S, b)) < Cardinality(Younger(S, a))
<1>1. \A a \in S : a.day \in Nat
  BY DEF OfOwnDay, Archive, Days
<1>2. IsFiniteSet(S)
  BY ArchivesAreFinite
<1>3. \A a \in S : Younger(S, a) \subseteq S
  BY DEF Younger
<1>4. \A a \in S : IsFiniteSet(Younger(S, a)) /\ Cardinality(Younger(S, a)) \in Nat
  BY <1>2, <1>3, FS_Subset, FS_CardinalityType
<1>5. ASSUME NEW a \in S, NEW b \in S, a.day < b.day
      PROVE  Cardinality(Younger(S, b)) < Cardinality(Younger(S, a))
  <2>1. Younger(S, b) \subseteq Younger(S, a)
    BY <1>1, <1>5 DEF Younger
  <2>2. b \in Younger(S, a) /\ b \notin Younger(S, b)
    BY <1>1, <1>5 DEF Younger
  <2>3. /\ Cardinality(Younger(S, b)) <= Cardinality(Younger(S, a))
        /\ Cardinality(Younger(S, b)) # Cardinality(Younger(S, a))
    BY <1>4, <2>1, <2>2, FS_Subset
  <2>4. QED
    BY <1>4, <2>3
<1>6. QED
  BY <1>4, <1>5

\* Those with fewer than k younger ones are at most k.
LEMMA AtMostKept ==
  ASSUME NEW S, OfOwnDay(S), LastDay \in Nat, NEW k \in Nat
  PROVE  Cardinality({a \in S : Cardinality(Younger(S, a)) < k}) <= k
<1> DEFINE K == {a \in S : Cardinality(Younger(S, a)) < k}
           g == [a \in K |-> Cardinality(Younger(S, a))]
<1>1. \A a \in S : a.day \in Nat
  BY DEF OfOwnDay, Archive, Days
<1>2. \A a \in K : g[a] \in 0..k - 1
  BY Ranks
<1>3. ASSUME NEW a \in K, NEW b \in K, g[a] = g[b]
      PROVE  a = b
  <2>1. a \in S /\ b \in S /\ g[a] = Cardinality(Younger(S, a)) /\ g[b] = Cardinality(Younger(S, b))
    OBVIOUS
  <2>2. g[a] \in Nat /\ ~(a.day < b.day) /\ ~(b.day < a.day)
    BY <1>3, <2>1, Ranks
  <2>3. a.day = b.day
    BY <1>1, <2>1, <2>2
  <2>4. QED
    BY <2>1, <2>3 DEF OfOwnDay
<1>4. g \in Injection(K, 0..k - 1)
  BY <1>2, <1>3 DEF Injection, IsInjective
<1>5. IsFiniteSet(0..k - 1) /\ Cardinality(0..k - 1) = k
  <2>1. 0 \in Int /\ k - 1 \in Int
    OBVIOUS
  <2>2. /\ IsFiniteSet(0..k - 1)
        /\ Cardinality(0..k - 1) = IF 0 > k - 1 THEN 0 ELSE (k - 1) - 0 + 1
    BY <2>1, FS_Interval
  <2>3. QED
    BY <2>2
<1>6. Cardinality(K) <= Cardinality(0..k - 1)
  BY <1>4, <1>5, FS_Injection
<1>7. QED
  BY <1>5, <1>6

-------------------------------------------------------------------------------
(* What the steps change. *)
SameDay == backup' \in Run /\ backup'.day = backup.day
SameCopy == SameDay /\ backup'.rows = backup.rows /\ backup'.files = backup.files
                    /\ backup'.beside = backup.beside
SameDone == done'.days = done.days /\ done'.torn = done.torn
RunStep == UNCHANGED <<live, restore, aside, mixed, gone, bkPlan>>
AsideStep ==
  /\ UNCHANGED <<archives, done, bkPlan>>
  /\ SameDay /\ backup'.pc = backup.pc
  /\ backup'.rows = backup.rows /\ backup'.files = backup.files
  /\ backup.beside => backup'.beside

\* A run that goes on.
LEMMA Phases ==
  ASSUME BackupsTypeOK, NEW pc \in BackupPcs, Phase(pc)
  PROVE  SameCopy /\ backup'.pc = pc
<1> DEFINE new == [backup EXCEPT !.pc = pc]
<1>1. backup \in Run /\ backup' = new
  BY DEF BackupsTypeOK, Phase
<1>2. /\ new \in Run /\ new.pc = pc /\ new.day = backup.day /\ new.rows = backup.rows
      /\ new.files = backup.files /\ new.beside = backup.beside
  BY <1>1 DEF Run
<1> HIDE DEF new
<1>3. QED
  BY <1>1, <1>2 DEF SameCopy, SameDay

\* A run beside which the files change; only its copies are concerned.
LEMMA Upsets ==
  ASSUME BackupsTypeOK, Upset
  PROVE  /\ SameDay /\ backup'.pc = backup.pc
         /\ backup'.rows = backup.rows /\ backup'.files = backup.files
         /\ backup.beside => backup'.beside
         /\ backup.pc = "files" => backup'.beside
         /\ backup.pc # "files" => backup'.beside = backup.beside
<1> DEFINE now == backup.beside \/ backup.pc = "files"
           new == [backup EXCEPT !.beside = now]
<1>1. backup \in Run /\ backup' = new
  BY DEF BackupsTypeOK, Upset
<1>2. now \in BOOLEAN /\ backup.beside \in BOOLEAN
  BY <1>1 DEF Run
<1>3. /\ backup.beside => now
      /\ backup.pc = "files" => now
      /\ backup.pc # "files" => now = backup.beside
  BY <1>2
<1> HIDE DEF now
<1>4. /\ new \in Run /\ new.pc = backup.pc /\ new.day = backup.day /\ new.rows = backup.rows
      /\ new.files = backup.files /\ new.beside = now
  BY <1>1, <1>2 DEF Run
<1> HIDE DEF new
<1>5. QED
  BY <1>1, <1>3, <1>4 DEF SameDay

\* How a run ends.
LEMMA Ends ==
  ASSUME BackupsTypeOK, NEW how \in {"none", "ok", "failed"}, done' = [done EXCEPT !.last = how]
  PROVE  done' \in Completed /\ SameDone /\ done'.last = how
BY DEF BackupsTypeOK, Completed, SameDone

\* The steps that are not the run's.
LEMMA AsideSteps ==
  ASSUME BackupsTypeOK,
         \/ \E a \in Accounts : AddFile(a) \/ AddRow(a) \/ DeleteFile(a) \/ DeleteRow(a)
         \/ \E f \in Folders : \E a \in archives[f] : PickArchive(a)
         \/ RestoreDb \/ MoveFiles \/ CopyTree \/ FailRestore
         \/ \E w \in AlertWriters : OtherReads(w) \/ OtherWrites(w)
         \/ UNCHANGED backupVars
  PROVE  AsideStep
<1>1. backup \in Run
  BY DEF BackupsTypeOK
<1>2. backup' = backup \/ Upset => 
        /\ SameDay /\ backup'.pc = backup.pc
        /\ backup'.rows = backup.rows /\ backup'.files = backup.files
        /\ backup.beside => backup'.beside
  BY <1>1, Upsets DEF SameDay
<1>3. (backup' = backup \/ Upset) /\ UNCHANGED <<archives, done, bkPlan>>
  BY DEF AddFile, AddRow, DeleteFile, DeleteRow, PickArchive, RestoreDb, MoveFiles, CopyTree,
         FailRestore, OtherReads, OtherWrites, backupVars
<1>4. QED
  BY <1>2, <1>3 DEF AsideStep

\* The run begins with the dump.
LEMMA DumpStep ==
  ASSUME BackupsTypeOK, Dump
  PROVE  /\ RunStep /\ UNCHANGED <<archives, alertVars, done>>
         /\ backup.pc = "off" /\ backup.day < bkPlan.days
         /\ backup' \in Run /\ backup'.pc = "files" /\ backup'.day = backup.day + 1
         /\ backup'.rows = live.rows /\ backup'.files = {}
         /\ ~backup'.beside => ~mixed /\ Running /\ live.leaving = {}
<1> DEFINE met == mixed \/ ~Running \/ live.leaving # {}
           new == [pc |-> "files", day |-> backup.day + 1, rows |-> live.rows, files |-> {},
                   beside |-> met]
<1>1. /\ RunStep /\ UNCHANGED <<archives, alertVars, done>>
      /\ backup.pc = "off" /\ backup.day < bkPlan.days /\ backup' = new
  BY DEF Dump, RunStep
<1>2. met \in BOOLEAN /\ (~met => ~mixed /\ Running /\ live.leaving = {})
  BY DEF BackupsTypeOK
<1> HIDE DEF met
<1>3. backup.day + 1 \in Nat /\ live.rows \in SUBSET Accounts
  BY DEF BackupsTypeOK, Run, Application
<1>4. new \in Run
  BY <1>2, <1>3 DEF Run, BackupPcs, RunSteps
<1>5. QED
  BY <1>1, <1>2, <1>4

\* The session files are copied.
LEMMA CopyFilesStep ==
  ASSUME BackupsTypeOK, CopyFiles
  PROVE  /\ RunStep /\ UNCHANGED <<archives, alertVars, done>>
         /\ backup.pc = "files" /\ SameDay /\ backup'.pc = "pack"
         /\ backup'.rows = backup.rows /\ backup'.files = live.files
         /\ backup'.beside = backup.beside
<1> DEFINE new == [backup EXCEPT !.pc = "pack", !.files = live.files]
<1>1. /\ RunStep /\ UNCHANGED <<archives, alertVars, done>>
      /\ backup.pc = "files" /\ backup' = new
  BY DEF CopyFiles, RunStep
<1>2. backup \in Run /\ live.files \in SUBSET Accounts
  BY DEF BackupsTypeOK, Application
<1>3. /\ new \in Run /\ new.day = backup.day /\ new.pc = "pack" /\ new.rows = backup.rows
      /\ new.files = live.files /\ new.beside = backup.beside
  BY <1>2 DEF Run, BackupPcs, RunSteps
<1> HIDE DEF new
<1>4. QED
  BY <1>1, <1>3 DEF SameDay

\* The archive is written, whole or spoilt.
LEMMA PackStep ==
  ASSUME BackupsTypeOK, Pack
  PROVE  /\ RunStep /\ UNCHANGED <<alertVars, done>>
         /\ backup.pc = "pack" /\ SameCopy /\ backup'.pc = "verify"
         /\ \E whole \in BOOLEAN : archives' = Added("daily", whole)
BY Phases DEF Pack, RunStep, BackupPcs, RunSteps

\* The archive is verified; the run goes on or fails.
LEMMA VerifyStep ==
  ASSUME BackupsTypeOK, Verify
  PROVE  /\ RunStep /\ UNCHANGED <<archives, alarm, held>>
         /\ backup.pc = "verify" /\ SameCopy
         /\ \/ /\ Packed(TRUE) \in archives["daily"] /\ backup'.pc = "weekly"
               /\ UNCHANGED <<told, done>>
            \/ /\ backup'.pc = "failed" /\ ~told'
               /\ done' \in Completed /\ SameDone /\ done'.last = "failed"
<1>1. CASE Packed(TRUE) \in archives["daily"]
  <2>1. Phase("weekly") /\ UNCHANGED <<told, done>>
    BY <1>1 DEF Verify
  <2>2. QED
    BY <1>1, <2>1, Phases DEF Verify, RunStep, BackupPcs, RunSteps
<1>2. CASE Packed(TRUE) \notin archives["daily"]
  <2>1. Phase("failed") /\ told' = FALSE /\ done' = [done EXCEPT !.last = "failed"]
    BY <1>2 DEF Verify
  <2>2. SameCopy /\ backup'.pc = "failed"
    BY <2>1, Phases DEF BackupPcs, RunSteps
  <2>3. done' \in Completed /\ SameDone /\ done'.last = "failed"
    BY <2>1, Ends
  <2>4. QED
    BY <2>1, <2>2, <2>3 DEF Verify, RunStep
<1>3. QED
  BY <1>1, <1>2

\* The archive is copied for its week or its month, if there is none.
LEMMA CopyForStep ==
  ASSUME BackupsTypeOK, NEW folder \in {"weekly", "monthly"}, NEW next \in BackupPcs,
         CopyFor(folder, next)
  PROVE  /\ RunStep /\ UNCHANGED <<alertVars, done>>
         /\ backup.pc = folder /\ SameCopy /\ backup'.pc = next
         /\ \/ Has(folder) /\ archives' = archives
            \/ ~Has(folder) /\ archives' = Added(folder, TRUE)
BY Phases DEF CopyFor, RunStep

\* For its week and then for its month.
LEMMA ForSteps ==
  ASSUME BackupsTypeOK, CopyFor("weekly", "monthly") \/ CopyFor("monthly", "prune")
  PROVE  /\ RunStep /\ UNCHANGED <<alertVars, done>>
         /\ backup.pc \in {"weekly", "monthly"} /\ SameCopy /\ backup'.pc \in {"monthly", "prune"}
<1>1. CASE CopyFor("weekly", "monthly")
  <2>1. "monthly" \in BackupPcs
    BY DEF BackupPcs, RunSteps
  <2>2. QED
    BY <1>1, <2>1, CopyForStep
<1>2. CASE CopyFor("monthly", "prune")
  <2>1. "prune" \in BackupPcs
    BY DEF BackupPcs, RunSteps
  <2>2. QED
    BY <1>2, <2>1, CopyForStep
<1>3. QED
  BY <1>1, <1>2

\* A superfluous archive is removed.
LEMMA PruneStep ==
  ASSUME BackupsTypeOK, NEW f \in Folders, Prune(f)
  PROVE  /\ RunStep /\ UNCHANGED <<alertVars, done>>
         /\ backup.pc = "prune" /\ SameCopy /\ backup'.pc = "prune"
         /\ \E a \in Superfluous(f) : archives' = [archives EXCEPT ![f] = @ \ {a}]
BY DEF Prune, RunStep, SameCopy, SameDay, BackupsTypeOK

\* There is none left, and the run is complete.
LEMMA CompleteStep ==
  ASSUME BackupsTypeOK, Complete
  PROVE  /\ RunStep /\ UNCHANGED <<archives, alarm, held>> /\ ~told'
         /\ backup.pc = "prune" /\ SameCopy /\ backup'.pc = "passed"
         /\ \A f \in Folders : Superfluous(f) = {}
         /\ done'.days = done.days \union {backup.day} /\ done'.torn = done.torn
         /\ done'.last = "ok"
         /\ backup.day \in Days => done' \in Completed
<1> DEFINE days == done.days \union {backup.day}
           new == [done EXCEPT !.days = days, !.last = "ok"]
<1>1. /\ RunStep /\ UNCHANGED <<archives, alarm, held>> /\ told' = FALSE
      /\ backup.pc = "prune" /\ Phase("passed") /\ done' = new
      /\ \A f \in Folders : Superfluous(f) = {}
  BY DEF Complete, RunStep
<1>2. SameCopy /\ backup'.pc = "passed"
  BY <1>1, Phases DEF BackupPcs, RunSteps
<1>3. done \in Completed /\ (backup.day \in Days => days \in SUBSET Days)
  BY DEF BackupsTypeOK, Completed
<1> HIDE DEF days
<1>4. /\ new.days = days /\ new.torn = done.torn /\ new.last = "ok"
      /\ days \in SUBSET Days => new \in Completed
  BY <1>3 DEF Completed
<1> HIDE DEF new
<1>5. QED
  BY <1>1, <1>2, <1>3, <1>4 DEF days

\* The run stops at a step, and may leave a torn archive.
LEMMA StopsStep ==
  ASSUME BackupsTypeOK, NEW next \in {"failed", "off"}, NEW last \in {"none", "ok", "failed"},
         Stops(next, last)
  PROVE  /\ RunStep /\ UNCHANGED <<alarm, held>>
         /\ backup.pc \in RunSteps /\ SameCopy /\ backup'.pc = next
         /\ done' \in Completed /\ done'.last = last /\ done'.days = done.days
         /\ \/ archives' = archives /\ done'.torn = done.torn
            \/ \E f \in Folders :
                 /\ ~Has(f) /\ archives' = Added(f, FALSE) /\ backup.pc # "files"
                 /\ done'.torn = done.torn \union {<<f, NameOf(f, backup.day)>>}
<1> DEFINE torn == done.torn \union {<<Writes, NameOf(Writes, backup.day)>>}
           new == [done EXCEPT !.last = last, !.torn = torn]
<1>1. RunStep /\ UNCHANGED <<alarm, held>> /\ backup.pc \in RunSteps /\ Phase(next)
  BY DEF Stops, RunStep
<1>2. SameCopy /\ backup'.pc = next
  BY <1>1, Phases DEF BackupPcs, RunSteps
<1>3. CASE Writes \in Folders /\ ~Has(Writes) /\ archives' = Added(Writes, FALSE) /\ done' = new
  <2>1. done \in Completed /\ NameOf(Writes, backup.day) \in Nat
    BY <1>3, NamesGrow DEF BackupsTypeOK, Run
  <2>2. torn \in SUBSET (Folders \X Nat)
    BY <1>3, <2>1 DEF Completed
  <2>3. backup.pc # "files"
    BY <1>3 DEF Writes, Folders
  <2>4. torn = done.torn \union {<<Writes, NameOf(Writes, backup.day)>>}
    OBVIOUS
  <2> HIDE DEF torn
  <2>5. new \in Completed /\ new.last = last /\ new.days = done.days /\ new.torn = torn
    BY <2>1, <2>2 DEF Completed
  <2> HIDE DEF new
  <2>6. QED
    BY <1>1, <1>2, <1>3, <2>3, <2>4, <2>5
<1>4. CASE archives' = archives /\ done' = [done EXCEPT !.last = last]
  <2>1. done' \in Completed /\ SameDone /\ done'.last = last
    BY <1>4, Ends
  <2>2. QED
    BY <1>1, <1>2, <1>4, <2>1 DEF SameDone
<1>5. QED
  BY <1>3, <1>4 DEF Stops

\* It fails or dies there.
LEMMA StopStep ==
  ASSUME BackupsTypeOK, FailRun \/ CrashRun
  PROVE  /\ RunStep /\ UNCHANGED <<alarm, held>>
         /\ backup.pc \in RunSteps /\ SameCopy /\ backup'.pc \in {"failed", "off"}
         /\ done' \in Completed /\ done'.days = done.days
         /\ ~told' \/ (told' = told /\ done'.last = done.last)
         /\ \/ archives' = archives /\ done'.torn = done.torn
            \/ \E f \in Folders :
                 /\ ~Has(f) /\ archives' = Added(f, FALSE) /\ backup.pc # "files"
                 /\ done'.torn = done.torn \union {<<f, NameOf(f, backup.day)>>}
<1>1. done.last \in {"none", "ok", "failed"}
  BY DEF BackupsTypeOK, Completed
<1>2. CASE FailRun
  <2>1. Stops("failed", "failed") /\ ~told'
    BY <1>2 DEF FailRun
  <2>2. QED
    BY <2>1, StopsStep
<1>3. CASE CrashRun
  <2>1. Stops("off", done.last) /\ told' = told
    BY <1>3 DEF CrashRun
  <2>2. QED
    BY <1>1, <2>1, StopsStep
<1>4. QED
  BY <1>2, <1>3

\* The run tells of its outcome, or fails to.
LEMMA TellStep ==
  ASSUME BackupsTypeOK, Tell \/ TellNothing
  PROVE  /\ RunStep /\ UNCHANGED <<archives, held, done>>
         /\ backup.pc \in {"failed", "passed"} /\ SameCopy /\ backup'.pc = "off"
<1>1. RunStep /\ UNCHANGED <<archives, held, done>> /\ backup.pc \in {"failed", "passed"}
  BY DEF Tell, TellNothing, RunStep, alertVars
<1>2. Phase("off")
  BY DEF Tell, TellNothing
<1>3. QED
  BY <1>1, <1>2, Phases DEF BackupPcs, RunSteps

-------------------------------------------------------------------------------
(* The archives stay, grow by one or are pruned. *)
Stays == archives' = archives /\ SameDone
GrowsBy(f, whole) ==
  /\ ~Has(f) /\ archives' = Added(f, whole)
  /\ done'.days = done.days /\ done.torn \subseteq done'.torn
  /\ f # "daily" => whole \/ <<f, NameOf(f, backup.day)>> \in done'.torn
  /\ backup.pc \in RunSteps \ {"files"} /\ SameCopy /\ backup'.pc \notin {"files", "pack"}

\* What a step does to the archives.
LEMMA ArchiveWays ==
  ASSUME BackupsTypeOK, StepsAreDone, [BackupsNext]_backupVars
  PROVE  \/ Stays
         \/ \E f \in Folders, whole \in BOOLEAN : GrowsBy(f, whole)
         \/ \E f \in Folders : Prune(f)
         \/ Complete
<1>1. CASE Dump
  BY <1>1, DumpStep DEF Stays, SameDone
<1>2. CASE CopyFiles
  BY <1>2, CopyFilesStep DEF Stays, SameDone
<1>3. CASE Pack
  <2>1. backup.pc = "pack" /\ SameCopy /\ backup'.pc = "verify" /\ done' = done
    BY <1>3, PackStep
  <2>2. PICK whole \in BOOLEAN : archives' = Added("daily", whole)
    BY <1>3, PackStep
  <2>3. ~Has("daily")
    <3>1. \A a \in archives["daily"] : a.day < backup.day
      BY <2>1 DEF StepsAreDone, Folders
    <3>2. \A a \in archives["daily"] : a.day \in Nat
      BY DaysAreBounded DEF BackupsTypeOK, Folders, Archive
    <3>3. backup.day \in Nat
      BY DEF BackupsTypeOK, Run
    <3>4. \A a \in archives["daily"] : a.day # backup.day
      BY <3>1, <3>2, <3>3
    <3>5. QED
      BY <3>4 DEF Has, NameOf
  <2>4. GrowsBy("daily", whole)
    BY <2>1, <2>2, <2>3 DEF GrowsBy, RunSteps
  <2>5. QED
    BY <2>4 DEF Folders
<1>4. CASE Verify
  BY <1>4, VerifyStep DEF Stays, SameDone
<1>5. ASSUME NEW f \in {"weekly", "monthly"}, NEW next \in {"monthly", "prune"}, CopyFor(f, next)
      PROVE  Stays \/ GrowsBy(f, TRUE)
  <2>1. /\ UNCHANGED <<alertVars, done>> /\ backup.pc = f /\ SameCopy /\ backup'.pc = next
        /\ \/ archives' = archives
           \/ ~Has(f) /\ archives' = Added(f, TRUE)
    BY <1>5, CopyForStep DEF BackupPcs, RunSteps
  <2>2. QED
    BY <2>1 DEF Stays, GrowsBy, SameDone, RunSteps
<1>6. CASE Tell \/ TellNothing
  BY <1>6, TellStep DEF Stays, SameDone
<1>7. CASE FailRun \/ CrashRun
  <2>1. /\ backup.pc \in RunSteps /\ SameCopy /\ backup'.pc \in {"failed", "off"}
        /\ done'.days = done.days
        /\ \/ archives' = archives /\ done'.torn = done.torn
           \/ \E f \in Folders :
                /\ ~Has(f) /\ archives' = Added(f, FALSE) /\ backup.pc # "files"
                /\ done'.torn = done.torn \union {<<f, NameOf(f, backup.day)>>}
    BY <1>7, StopStep
  <2>2. CASE archives' = archives /\ done'.torn = done.torn
    BY <2>1, <2>2 DEF Stays, SameDone
  <2>3. ASSUME NEW f \in Folders, ~Has(f), archives' = Added(f, FALSE), backup.pc # "files",
               done'.torn = done.torn \union {<<f, NameOf(f, backup.day)>>}
        PROVE  GrowsBy(f, FALSE)
    BY <2>1, <2>3 DEF GrowsBy
  <2>4. QED
    BY <2>1, <2>2, <2>3
<1>8. CASE AsideStep
  BY <1>8 DEF AsideStep, Stays, SameDone
<1>9. QED
  BY <1>1, <1>2, <1>3, <1>4, <1>5, <1>6, <1>7, <1>8, AsideSteps
  DEF BackupsNext, BackupsProgress, BackupsEvent, Folders

\* A folder after it has grown: what it had, and the archive of the run.
LEMMA Grown ==
  ASSUME BackupsTypeOK, NEW f \in Folders, NEW whole \in BOOLEAN, archives' = Added(f, whole)
  PROVE  /\ archives' \in [Folders -> SUBSET (Archive \union {Packed(whole)})]
         /\ \A g \in Folders : archives[g] \subseteq archives'[g]
         /\ \A g \in Folders : \A a \in archives'[g] :
              a \in archives[g] \/ (g = f /\ a = Packed(whole))
         /\ Packed(whole) \in archives'[f]
         /\ Packed(whole).day = backup.day /\ Packed(whole).rows = backup.rows
         /\ Packed(whole).files = backup.files /\ Packed(whole).whole = whole
         /\ Packed(whole).beside = backup.beside
<1>1. /\ Packed(whole).day = backup.day /\ Packed(whole).rows = backup.rows
      /\ Packed(whole).files = backup.files /\ Packed(whole).whole = whole
      /\ Packed(whole).beside = backup.beside
  BY DEF Packed
<1> DEFINE new == Packed(whole)
<1> HIDE DEF new
<1>2. archives' = [archives EXCEPT ![f] = @ \union {new}] /\ archives \in [Folders -> SUBSET Archive]
  BY DEF Added, BackupsTypeOK, new
<1>3. /\ archives' \in [Folders -> SUBSET (Archive \union {new})]
      /\ \A g \in Folders : archives'[g] = IF g = f THEN archives[g] \union {new} ELSE archives[g]
  BY <1>2
<1>4. QED
  BY <1>1, <1>3 DEF new

\* The archive that a run packs.
LEMMA PackedIsArchive ==
  ASSUME BackupsTypeOK, StepsAreDone, backup.pc # "off", NEW whole \in BOOLEAN
  PROVE  Packed(whole) \in Archive
<1>1. backup.day \in Days /\ backup \in Run
  BY DEF BackupsTypeOK, StepsAreDone
<1>2. QED
  BY <1>1 DEF Packed, Archive, Run

\* A folder's archives are each of a day of its own, as they have names of their own.
LEMMA FoldersAreOfOwnDays ==
  ASSUME BackupsTypeOK, StepsAreDone, NEW f \in Folders
  PROVE  OfOwnDay(archives[f])
BY DEF BackupsTypeOK, StepsAreDone, OfOwnDay, Folders, Archive

\* What prune leaves in a folder.
LEMMA KeptAre ==
  ASSUME BackupsTypeOK, NEW f \in Folders
  PROVE  Kept(f) = {a \in archives[f] : Cardinality(Younger(archives[f], a)) < Keep(f)}
BY DEF Kept, Younger

\* The youngest archive of a folder is always kept.
LEMMA YoungestIsKept ==
  ASSUME BackupsTypeOK, NEW f \in Folders, NEW a \in archives[f],
         \A b \in archives[f] : ~(b.day > a.day)
  PROVE  a \in Kept(f)
<1>1. Younger(archives[f], a) = {}
  BY DEF Younger
<1>2. Cardinality(Younger(archives[f], a)) = 0 /\ Keep(f) \in Nat /\ Keep(f) > 0
  BY <1>1, FS_EmptySet, NamesGrow
<1>3. QED
  BY <1>2, KeptAre

\* Days are numbers.
LEMMA DaysAreNumbers ==
  ASSUME BackupsTypeOK
  PROVE  /\ backup.day \in Nat /\ backup.day <= bkPlan.days
         /\ bkPlan.days \in Nat /\ bkPlan.days <= LastDay /\ LastDay \in Nat
         /\ \A f \in Folders : \A a \in archives[f] : a.day \in Nat
         /\ \A d \in done.days : d \in Nat
BY DaysAreBounded DEF BackupsTypeOK, Run, Completed, Days, Archive

\* The archive of the run's day, week or month is the youngest of its folder, and kept.
LEMMA CurrentIsKept ==
  ASSUME BackupsTypeOK, StepsAreDone, NEW f \in Folders, NEW a \in archives[f],
         NameOf(f, a.day) = NameOf(f, backup.day)
  PROVE  a \in Kept(f)
<1>1. /\ backup.day \in Nat /\ \A b \in archives[f] : b.day \in Nat /\ b.day <= backup.day
  BY DaysAreNumbers DEF StepsAreDone
<1>2. ASSUME NEW b \in archives[f], b.day > a.day
      PROVE  FALSE
  <2>1. /\ NameOf(f, a.day) <= NameOf(f, b.day) /\ NameOf(f, b.day) <= NameOf(f, backup.day)
        /\ NameOf(f, a.day) \in Nat /\ NameOf(f, b.day) \in Nat
    BY <1>1, <1>2, NamesGrow
  <2>2. NameOf(f, a.day) = NameOf(f, b.day)
    BY <2>1
  <2>3. a = b
    BY <2>2 DEF StepsAreDone
  <2>4. QED
    BY <1>1, <1>2, <2>3
<1>3. QED
  BY <1>2, YoungestIsKept

\* What prune removes was superfluous.
LEMMA PruneRemoves ==
  ASSUME BackupsTypeOK, NEW g \in Folders, Prune(g), NEW f \in Folders
  PROVE  archives'[f] \subseteq archives[f] /\ Kept(f) \subseteq archives'[f]
<1>1. PICK a \in Superfluous(g) : archives' = [archives EXCEPT ![g] = @ \ {a}]
  BY PruneStep
<1>2. archives'[f] = IF f = g THEN archives[f] \ {a} ELSE archives[f]
  BY <1>1 DEF BackupsTypeOK
<1>3. Kept(f) \subseteq archives[f] /\ a \notin Kept(g)
  BY <1>1 DEF Superfluous, Kept
<1>4. QED
  BY <1>2, <1>3

\* So the archives of a run that has come to prune are not removed.
LEMMA RunIsKept ==
  ASSUME BackupsTypeOK, StepsAreDone, NEW g \in Folders, Prune(g)
  PROVE  /\ \E a \in archives'["daily"] : a.day = backup.day /\ a.whole
         /\ \A f \in {"weekly", "monthly"} : \E a \in archives'[f] :
              /\ a \in archives[f] /\ NameOf(f, a.day) = NameOf(f, backup.day)
<1>1. backup.pc = "prune"
  BY PruneStep
<1>2. PICK a \in archives["daily"] : a.day = backup.day /\ a.whole
  BY <1>1 DEF StepsAreDone
<1>3. a \in archives'["daily"]
  BY <1>2, CurrentIsKept, PruneRemoves DEF Folders
<1>4. ASSUME NEW f \in {"weekly", "monthly"}
      PROVE  \E b \in archives'[f] : b \in archives[f] /\ NameOf(f, b.day) = NameOf(f, backup.day)
  <2>1. PICK b \in archives[f] : NameOf(f, b.day) = NameOf(f, backup.day)
    BY <1>1 DEF StepsAreDone, Has
  <2>2. b \in archives'[f]
    BY <2>1, CurrentIsKept, PruneRemoves DEF Folders
  <2>3. QED
    BY <2>1, <2>2
<1>5. QED
  BY <1>2, <1>3, <1>4

-------------------------------------------------------------------------------
(* The parts of BackupsInv. *)

\* The application and the restore keep their types.
LEMMA AsideTypes ==
  ASSUME BackupsTypeOK, AsideStep \/ RunStep, [BackupsNext]_backupVars
  PROVE  /\ live' \in Application /\ aside' \subseteq Accounts /\ gone' \subseteq Accounts
         /\ mixed' \in BOOLEAN
         /\ restore' \in [pc : {"off", "db", "move", "copy"}, from : SUBSET Archive]
<1> USE DEF BackupsTypeOK
<1>1. NoRestore \in [pc : {"off", "db", "move", "copy"}, from : SUBSET Archive]
  BY DEF NoRestore
<1>2. ASSUME NEW a \in Accounts, AddFile(a) \/ AddRow(a) \/ DeleteFile(a) \/ DeleteRow(a)
      PROVE  live' \in Application /\ gone' \subseteq Accounts /\ UNCHANGED <<aside, mixed, restore>>
  <2>1. CASE AddFile(a)
    BY <2>1 DEF AddFile, Application
  <2>2. CASE AddRow(a)
    BY <2>2 DEF AddRow, Application
  <2>3. CASE DeleteFile(a)
    BY <2>3 DEF DeleteFile, Application
  <2>4. CASE DeleteRow(a)
    BY <2>4 DEF DeleteRow, Application
  <2>5. QED
    BY <1>2, <2>1, <2>2, <2>3, <2>4
<1>3. ASSUME NEW f \in Folders, NEW a \in archives[f], PickArchive(a)
      PROVE  /\ UNCHANGED <<live, aside, gone, mixed>>
             /\ restore' \in [pc : {"off", "db", "move", "copy"}, from : SUBSET Archive]
  BY <1>3 DEF PickArchive
<1>4. CASE RestoreDb
  BY <1>4 DEF RestoreDb, Application, Archive
<1>5. CASE MoveFiles
  BY <1>5 DEF MoveFiles, Application
<1>6. CASE CopyTree
  BY <1>1, <1>6 DEF CopyTree, Application, Archive
<1>7. CASE FailRestore
  BY <1>1, <1>7 DEF FailRestore, Application
<1>8. CASE RunStep
  BY <1>8 DEF RunStep
<1>9. CASE Dump \/ CopyFiles \/ Pack \/ Verify \/ CopyFor("weekly", "monthly")
           \/ CopyFor("monthly", "prune") \/ (\E f \in Folders : Prune(f)) \/ Complete
           \/ FailRun \/ CrashRun \/ Tell \/ TellNothing
  BY <1>9, DumpStep, CopyFilesStep, PackStep, VerifyStep, CopyForStep, PruneStep, CompleteStep,
     StopStep, TellStep DEF RunStep, BackupPcs, RunSteps
<1>10. CASE UNCHANGED backupVars \/ \E w \in AlertWriters : OtherReads(w) \/ OtherWrites(w)
  BY <1>10 DEF backupVars, OtherReads, OtherWrites
<1>11. QED
  BY <1>2, <1>3, <1>4, <1>5, <1>6, <1>7, <1>9, <1>10 DEF BackupsNext, BackupsProgress, BackupsEvent

\* A step is the run's, or beside it.
LEMMA TwoWays ==
  ASSUME BackupsTypeOK, [BackupsNext]_backupVars
  PROVE  AsideStep \/ RunStep
BY AsideSteps, DumpStep, CopyFilesStep, PackStep, VerifyStep, CopyForStep, PruneStep, CompleteStep,
     StopStep, TellStep DEF BackupsNext, BackupsProgress, BackupsEvent, BackupPcs, RunSteps

\* The run and its history keep their types.
LEMMA RunTypes ==
  ASSUME BackupsTypeOK, StepsAreDone, [BackupsNext]_backupVars
  PROVE  /\ backup' \in Run /\ backup'.day <= bkPlan'.days /\ bkPlan' = bkPlan
         /\ done' \in Completed
<1>1. /\ backup \in Run /\ backup.day \in Nat /\ backup.day <= bkPlan.days /\ bkPlan.days \in Nat
      /\ done \in Completed
  BY DaysAreBounded DEF BackupsTypeOK, Run
<1>2. bkPlan' = bkPlan
  BY TwoWays DEF AsideStep, RunStep
<1>3. CASE Dump
  <2>1. /\ backup.day < bkPlan.days /\ backup' \in Run /\ backup'.day = backup.day + 1
        /\ done' = done
    BY <1>3, DumpStep
  <2>2. QED
    BY <1>1, <1>2, <2>1
<1>4. CASE CopyFiles \/ Pack \/ Verify \/ CopyFor("weekly", "monthly")
           \/ CopyFor("monthly", "prune") \/ (\E f \in Folders : Prune(f))
           \/ FailRun \/ CrashRun \/ Tell \/ TellNothing
  BY <1>1, <1>2, <1>4, CopyFilesStep, PackStep, VerifyStep, CopyForStep, PruneStep, StopStep,
     TellStep
  DEF SameCopy, SameDay, BackupPcs, RunSteps
<1>5. CASE Complete
  <2>1. backup.day \in Days
    BY <1>5, CompleteStep DEF StepsAreDone
  <2>2. QED
    BY <1>1, <1>2, <1>5, <2>1, CompleteStep DEF SameCopy, SameDay
<1>6. CASE AsideStep
  BY <1>1, <1>2, <1>6 DEF AsideStep, SameDay
<1>7. QED
  BY <1>3, <1>4, <1>5, <1>6, AsideSteps DEF BackupsNext, BackupsProgress, BackupsEvent

\* The alert and its writers keep their types.
LEMMA AlertTypes ==
  ASSUME BackupsTypeOK, [BackupsNext]_backupVars
  PROVE  alarm' \in BOOLEAN /\ told' \in BOOLEAN /\ held' \in [AlertWriters -> SUBSET BOOLEAN]
<1>1. alarm \in BOOLEAN /\ told \in BOOLEAN /\ held \in [AlertWriters -> SUBSET BOOLEAN]
  BY DEF BackupsTypeOK
<1>2. ASSUME NEW w \in AlertWriters, OtherReads(w)
      PROVE  alarm' \in BOOLEAN /\ told' \in BOOLEAN /\ held' \in [AlertWriters -> SUBSET BOOLEAN]
  <2>1. UNCHANGED alarm /\ (told' = told \/ told' = FALSE)
    BY <1>2 DEF OtherReads
  <2>2. \E S \in SUBSET BOOLEAN : held' = [held EXCEPT ![w] = S]
    BY <1>1, <1>2 DEF OtherReads
  <2>3. QED
    BY <1>1, <2>1, <2>2
<1>3. ASSUME NEW w \in AlertWriters, OtherWrites(w)
      PROVE  alarm' \in BOOLEAN /\ told' \in BOOLEAN /\ held' \in [AlertWriters -> SUBSET BOOLEAN]
  <2>1. held[w] \subseteq BOOLEAN
    BY <1>1
  <2>2. QED
    BY <1>1, <1>3, <2>1 DEF OtherWrites
<1>4. CASE Tell
  BY <1>1, <1>4 DEF Tell
<1>5. CASE Verify \/ Complete \/ FailRun \/ CrashRun
  BY <1>1, <1>5 DEF Verify, Complete, FailRun, CrashRun, Stops
<1>6. CASE UNCHANGED alertVars
  BY <1>1, <1>6 DEF alertVars
<1>7. QED
  BY <1>2, <1>3, <1>4, <1>5, <1>6 DEF BackupsNext, BackupsProgress, BackupsEvent, Dump,
     CopyFiles, Pack, CopyFor, Prune, TellNothing, AddFile, AddRow, DeleteFile, DeleteRow,
     PickArchive, RestoreDb, MoveFiles, CopyTree, FailRestore, backupVars

\* The types.
LEMMA BackupsTypeKept ==
  ASSUME BackupsTypeOK, StepsAreDone, [BackupsNext]_backupVars
  PROVE  BackupsTypeOK'
<1>1. archives' \in [Folders -> SUBSET Archive]
  <2>1. CASE Stays
    BY <2>1 DEF Stays, BackupsTypeOK
  <2>2. ASSUME NEW f \in Folders, NEW whole \in BOOLEAN, GrowsBy(f, whole)
        PROVE  archives' \in [Folders -> SUBSET Archive]
    <3>1. archives' \in [Folders -> SUBSET (Archive \union {Packed(whole)})]
      BY <2>2, Grown DEF GrowsBy
    <3>2. Packed(whole) \in Archive
      BY <2>2, PackedIsArchive DEF GrowsBy, RunSteps
    <3>3. Archive \union {Packed(whole)} = Archive
      BY <3>2
    <3>4. QED
      BY <3>1, <3>3
  <2>3. ASSUME NEW f \in Folders, Prune(f)
        PROVE  archives' \in [Folders -> SUBSET Archive]
    <3>1. PICK a \in Superfluous(f) : archives' = [archives EXCEPT ![f] = @ \ {a}]
      BY <2>3, PruneStep
    <3>2. QED
      BY <3>1 DEF BackupsTypeOK
  <2>4. CASE Complete
    BY <2>4, CompleteStep DEF BackupsTypeOK
  <2>5. QED
    BY <2>1, <2>2, <2>3, <2>4, ArchiveWays
<1>2. bkPlan' \in BackupScenarios
  BY RunTypes DEF BackupsTypeOK
<1>3. QED
  BY <1>1, <1>2, RunTypes, AlertTypes, AsideTypes, TwoWays DEF BackupsTypeOK

\* The day of the run and its steps: a run begins on a new day.
SameRun ==
  /\ backup'.day = backup.day
  /\ backup'.pc \in {"files", "pack"} => backup.pc \in {"files", "pack"}
  /\ backup'.pc \in RunSteps => backup.pc \in RunSteps
  /\ backup'.pc # "off" => backup.pc # "off"
NewRun ==
  /\ backup'.day = backup.day + 1 /\ backup.day < bkPlan.days
  /\ backup.pc = "off" /\ backup'.pc = "files" /\ Stays

LEMMA Clock ==
  ASSUME BackupsTypeOK, [BackupsNext]_backupVars
  PROVE  SameRun \/ NewRun
<1>1. CASE Dump
  BY <1>1, DumpStep DEF NewRun, Stays, SameDone
<1>2. CASE CopyFiles \/ Pack
  BY <1>2, CopyFilesStep, PackStep DEF SameRun, SameCopy, SameDay, RunSteps
<1>3. CASE Verify
  BY <1>3, VerifyStep DEF SameRun, SameCopy, SameDay, RunSteps
<1>4. CASE CopyFor("weekly", "monthly") \/ CopyFor("monthly", "prune")
  BY <1>4, ForSteps DEF SameRun, SameCopy, SameDay, RunSteps
<1>5. CASE Complete \/ FailRun \/ CrashRun \/ Tell \/ TellNothing \/ \E f \in Folders : Prune(f)
  BY <1>5, PruneStep, CompleteStep, StopStep, TellStep
  DEF SameRun, SameCopy, SameDay, RunSteps
<1>6. CASE AsideStep
  BY <1>6 DEF AsideStep, SameRun, SameDay
<1>7. QED
  BY <1>1, <1>2, <1>3, <1>4, <1>5, <1>6, AsideSteps DEF BackupsNext, BackupsProgress, BackupsEvent

\* No archive is of a later day than the run, nor, until it packs, of its own.
LEMMA DaysKept ==
  ASSUME BackupsTypeOK, StepsAreDone, [BackupsNext]_backupVars, NEW f \in Folders
  PROVE  \A a \in archives'[f] :
           a.day <= backup'.day /\ (backup'.pc \in {"files", "pack"} => a.day < backup'.day)
<1>1. /\ backup.day \in Nat /\ \A a \in archives[f] : a.day \in Nat
      /\ \A a \in archives[f] :
           a.day <= backup.day /\ (backup.pc \in {"files", "pack"} => a.day < backup.day)
  BY DaysAreNumbers DEF StepsAreDone
<1>2. CASE Stays /\ SameRun
  BY <1>1, <1>2 DEF Stays, SameRun
<1>3. CASE NewRun
  BY <1>1, <1>3 DEF NewRun, Stays
<1>4. ASSUME NEW g \in Folders, NEW whole \in BOOLEAN, GrowsBy(g, whole)
      PROVE  \A a \in archives'[f] :
               a.day <= backup'.day /\ (backup'.pc \in {"files", "pack"} => a.day < backup'.day)
  <2>1. backup'.day = backup.day /\ backup'.pc \notin {"files", "pack"}
    BY <1>4 DEF GrowsBy, SameCopy, SameDay
  <2>2. \A a \in archives'[f] : a \in archives[f] \/ a.day = backup.day
    BY <1>4, Grown DEF GrowsBy
  <2>3. QED
    BY <1>1, <2>1, <2>2
<1>5. ASSUME NEW g \in Folders, Prune(g)
      PROVE  \A a \in archives'[f] :
               a.day <= backup'.day /\ (backup'.pc \in {"files", "pack"} => a.day < backup'.day)
  <2>1. backup'.day = backup.day /\ backup'.pc = "prune" /\ archives'[f] \subseteq archives[f]
    BY <1>5, PruneStep, PruneRemoves DEF SameCopy, SameDay
  <2>2. QED
    BY <1>1, <2>1
<1>6. CASE Complete
  BY <1>1, <1>6, CompleteStep DEF SameCopy, SameDay
<1>7. QED
  BY <1>2, <1>3, <1>4, <1>5, <1>6, ArchiveWays, Clock

\* No two archives of a folder have one name.
LEMMA NamesKept ==
  ASSUME BackupsTypeOK, StepsAreDone, [BackupsNext]_backupVars, NEW f \in Folders
  PROVE  \A a, b \in archives'[f] : NameOf(f, a.day) = NameOf(f, b.day) => a = b
<1>1. \A a, b \in archives[f] : NameOf(f, a.day) = NameOf(f, b.day) => a = b
  BY DEF StepsAreDone
<1>2. CASE Stays
  BY <1>1, <1>2 DEF Stays
<1>3. ASSUME NEW g \in Folders, NEW whole \in BOOLEAN, GrowsBy(g, whole)
      PROVE  \A a, b \in archives'[f] : NameOf(f, a.day) = NameOf(f, b.day) => a = b
  <2> DEFINE new == Packed(whole)
  <2>1. /\ \A a \in archives'[f] : a \in archives[f] \/ (f = g /\ a = new)
        /\ new.day = backup.day
    BY <1>3, Grown DEF GrowsBy
  <2>2. \A a \in archives[g] : NameOf(g, a.day) # NameOf(g, backup.day)
    BY <1>3 DEF GrowsBy, Has
  <2> HIDE DEF new
  <2>3. QED
    BY <1>1, <2>1, <2>2
<1>4. ASSUME NEW g \in Folders, Prune(g)
      PROVE  archives'[f] \subseteq archives[f]
  BY <1>4, PruneRemoves
<1>5. CASE Complete
  BY <1>1, <1>5, CompleteStep
<1>6. QED
  BY <1>1, <1>2, <1>3, <1>4, <1>5, ArchiveWays

\* Weekly and monthly archives are whole, but for those that a crash tore.
LEMMA TornKept ==
  ASSUME BackupsTypeOK, StepsAreDone, [BackupsNext]_backupVars, NEW f \in Folders \ {"daily"}
  PROVE  \A a \in archives'[f] : a.whole \/ <<f, NameOf(f, a.day)>> \in done'.torn
<1>1. \A a \in archives[f] : a.whole \/ <<f, NameOf(f, a.day)>> \in done.torn
  BY DEF StepsAreDone
<1>2. CASE Stays
  BY <1>1, <1>2 DEF Stays, SameDone
<1>3. ASSUME NEW g \in Folders, NEW whole \in BOOLEAN, GrowsBy(g, whole)
      PROVE  \A a \in archives'[f] : a.whole \/ <<f, NameOf(f, a.day)>> \in done'.torn
  <2> DEFINE new == Packed(whole)
  <2>1. /\ \A a \in archives'[f] : a \in archives[f] \/ (f = g /\ a = new)
        /\ new.day = backup.day /\ new.whole = whole
    BY <1>3, Grown DEF GrowsBy
  <2>2. /\ done.torn \subseteq done'.torn
        /\ g # "daily" => whole \/ <<g, NameOf(g, backup.day)>> \in done'.torn
    BY <1>3 DEF GrowsBy
  <2> HIDE DEF new
  <2>3. QED
    BY <1>1, <2>1, <2>2
<1>4. ASSUME NEW g \in Folders, Prune(g)
      PROVE  archives'[f] \subseteq archives[f] /\ done' = done
  BY <1>4, PruneRemoves, PruneStep
<1>5. CASE Complete
  BY <1>1, <1>5, CompleteStep
<1>6. QED
  BY <1>1, <1>2, <1>3, <1>4, <1>5, ArchiveWays

\* No run is complete of a later day, nor, during a run, of its own.
LEMMA DoneKept ==
  ASSUME BackupsTypeOK, StepsAreDone, [BackupsNext]_backupVars
  PROVE  /\ \A d \in done'.days : d <= backup'.day /\ (backup'.pc \in RunSteps => d < backup'.day)
         /\ backup'.pc # "off" => backup'.day \in Days
<1>1. /\ backup.day \in Nat /\ \A d \in done.days : d \in Nat
      /\ \A d \in done.days : d <= backup.day /\ (backup.pc \in RunSteps => d < backup.day)
      /\ backup.pc # "off" => backup.day \in Days
  BY DaysAreNumbers DEF StepsAreDone
<1>2. CASE NewRun
  <2>1. done'.days = done.days /\ backup'.day = backup.day + 1 /\ backup.day < bkPlan.days
    BY <1>2 DEF NewRun, Stays, SameDone
  <2>2. backup'.day \in 1..LastDay
    BY <1>1, <2>1, DaysAreNumbers
  <2>3. QED
    BY <1>1, <2>1, <2>2 DEF Days
<1>3. CASE SameRun /\ done'.days = done.days
  BY <1>1, <1>3 DEF SameRun
<1>4. CASE Complete
  <2>1. /\ backup'.day = backup.day /\ backup.pc = "prune" /\ backup'.pc = "passed"
        /\ done'.days = done.days \union {backup.day}
    BY <1>4, CompleteStep DEF SameCopy, SameDay
  <2>2. backup'.pc \notin RunSteps
    BY <2>1 DEF RunSteps
  <2>3. QED
    BY <1>1, <2>1, <2>2
<1>5. done'.days = done.days \/ Complete
  BY ArchiveWays, PruneStep DEF Stays, SameDone, GrowsBy
<1>6. QED
  BY <1>2, <1>3, <1>4, <1>5, Clock

\* A run that has come to a step has made what the steps before it make.
Verified == \E a \in archives["daily"] : a.day = backup.day /\ a.whole

LEMMA RunKept ==
  ASSUME BackupsTypeOK, StepsAreDone, [BackupsNext]_backupVars
  PROVE  /\ backup'.pc \in {"weekly", "monthly", "prune"} => Verified'
         /\ backup'.pc \in {"monthly", "prune"} => Has("weekly")'
         /\ backup'.pc = "prune" => Has("monthly")'
<1>1. /\ backup.pc \in {"weekly", "monthly", "prune"} => Verified
      /\ backup.pc \in {"monthly", "prune"} => Has("weekly")
      /\ backup.pc = "prune" => Has("monthly")
  BY DEF StepsAreDone, Verified
<1>2. ASSUME \A f \in Folders : archives[f] \subseteq archives'[f], backup'.day = backup.day
      PROVE  (Verified => Verified') /\ \A f \in Folders : Has(f) => Has(f)'
  BY <1>2 DEF Verified, Has, Folders
<1>3. CASE Stays /\ backup'.day = backup.day /\ backup'.pc = backup.pc
  BY <1>1, <1>2, <1>3 DEF Stays, Folders
<1>4. CASE backup'.pc \in {"off", "files", "pack", "verify", "failed", "passed"}
  BY <1>4
<1>5. CASE Verify /\ backup'.pc # "failed"
  <2>1. /\ Packed(TRUE) \in archives["daily"] /\ backup'.pc = "weekly" /\ archives' = archives
        /\ backup'.day = backup.day
    BY <1>5, VerifyStep DEF SameCopy, SameDay
  <2>2. Packed(TRUE).day = backup.day /\ Packed(TRUE).whole
    BY DEF Packed
  <2>3. Verified'
    BY <2>1, <2>2 DEF Verified
  <2>4. QED
    BY <2>1, <2>3
<1>6. ASSUME NEW f \in {"weekly", "monthly"}, NEW next \in {"monthly", "prune"}, CopyFor(f, next)
      PROVE  /\ backup.pc = f /\ backup'.pc = next /\ backup'.day = backup.day
             /\ (Verified => Verified') /\ (\A g \in Folders : Has(g) => Has(g)') /\ Has(f)'
  <2>1. /\ backup.pc = f /\ backup'.pc = next /\ backup'.day = backup.day
        /\ \/ Has(f) /\ archives' = archives
           \/ archives' = Added(f, TRUE)
    BY <1>6, CopyForStep DEF SameCopy, SameDay, BackupPcs, RunSteps
  <2>2. CASE Has(f) /\ archives' = archives
    BY <1>2, <2>1, <2>2 DEF Folders
  <2>3. CASE archives' = Added(f, TRUE)
    <3>1. /\ \A g \in Folders : archives[g] \subseteq archives'[g]
          /\ Packed(TRUE) \in archives'[f] /\ Packed(TRUE).day = backup.day
      BY <2>3, Grown DEF Folders
    <3>2. Has(f)'
      BY <2>1, <3>1 DEF Has
    <3>3. QED
      BY <1>2, <2>1, <3>1, <3>2
  <2>4. QED
    BY <2>1, <2>2, <2>3
<1>7. CASE CopyFor("weekly", "monthly")
  BY <1>1, <1>6, <1>7
<1>8. CASE CopyFor("monthly", "prune")
  BY <1>1, <1>6, <1>8 DEF Folders
<1>9. CASE Dump \/ CopyFiles \/ Pack \/ Complete \/ FailRun \/ CrashRun \/ Tell \/ TellNothing
  BY <1>4, <1>9, DumpStep, CopyFilesStep, PackStep, CompleteStep, StopStep, TellStep
<1>10. CASE AsideStep
  BY <1>3, <1>10 DEF AsideStep, Stays, SameDone, SameDay
<1>11. CASE \E f \in Folders : Prune(f)
  <2>1. backup'.day = backup.day
    BY <1>11, PruneStep DEF SameCopy, SameDay
  <2>2. Verified' /\ Has("weekly")' /\ Has("monthly")'
    BY <1>11, <2>1, RunIsKept DEF Verified, Has
  <2>3. QED
    BY <2>2
<1>12. QED
  BY <1>4, <1>5, <1>7, <1>8, <1>9, <1>10, <1>11, AsideSteps
  DEF BackupsNext, BackupsProgress, BackupsEvent

\* How far the run has come.
LEMMA StepsKept ==
  ASSUME BackupsTypeOK, StepsAreDone, [BackupsNext]_backupVars
  PROVE  StepsAreDone'
<1>1. \A f \in Folders : \A a \in archives'[f] :
        /\ a.day <= backup'.day
        /\ backup'.pc \in {"files", "pack"} => a.day < backup'.day
        /\ \A b \in archives'[f] : NameOf(f, a.day) = NameOf(f, b.day) => a = b
        /\ f # "daily" => a.whole \/ <<f, NameOf(f, a.day)>> \in done'.torn
  BY DaysKept, NamesKept, TornKept
<1>2. QED
  BY <1>1, DoneKept, RunKept DEF StepsAreDone, Verified

\* There is a whole archive that is as young as any completed run.
LEMMA LastKept ==
  ASSUME BackupsTypeOK, StepsAreDone, LastRunIsKept, [BackupsNext]_backupVars
  PROVE  LastRunIsKept'
<1>1. ASSUME done'.days = done.days, archives["daily"] \subseteq archives'["daily"]
      PROVE  LastRunIsKept'
  BY <1>1 DEF LastRunIsKept
<1>2. ASSUME NEW f \in Folders, NEW whole \in BOOLEAN, GrowsBy(f, whole)
      PROVE  LastRunIsKept'
  <2>1. archives["daily"] \subseteq archives'["daily"]
    BY <1>2, Grown DEF GrowsBy, Folders
  <2>2. QED
    BY <1>1, <1>2, <2>1 DEF GrowsBy
<1>3. backup.day \in Nat /\ \A d \in done.days : d \in Nat /\ d <= backup.day
  BY DaysAreNumbers DEF StepsAreDone
<1>4. ASSUME NEW f \in Folders, Prune(f)
      PROVE  LastRunIsKept'
  <2>1. done' = done /\ \E a \in archives'["daily"] : a.day = backup.day /\ a.whole
    BY <1>4, PruneStep, RunIsKept
  <2>2. QED
    BY <1>3, <2>1 DEF LastRunIsKept
<1>5. CASE Complete
  <2>1. /\ backup.pc = "prune" /\ archives' = archives
        /\ done'.days = done.days \union {backup.day}
    BY <1>5, CompleteStep
  <2>2. \E a \in archives["daily"] : a.day = backup.day /\ a.whole
    BY <2>1 DEF StepsAreDone
  <2>3. QED
    BY <1>3, <2>1, <2>2 DEF LastRunIsKept
<1>6. QED
  BY <1>1, <1>2, <1>4, <1>5, ArchiveWays DEF Stays, SameDone

\* So there is for its week and its month.
LEMMA PeriodsKept ==
  ASSUME BackupsTypeOK, StepsAreDone, PeriodsAreKept, [BackupsNext]_backupVars
  PROVE  PeriodsAreKept'
<1>1. ASSUME done'.days = done.days, done.torn \subseteq done'.torn,
             \A f \in Folders : archives[f] \subseteq archives'[f]
      PROVE  PeriodsAreKept'
  BY <1>1 DEF PeriodsAreKept, Folders
<1>2. ASSUME NEW f \in Folders, NEW whole \in BOOLEAN, GrowsBy(f, whole)
      PROVE  PeriodsAreKept'
  <2>1. \A g \in Folders : archives[g] \subseteq archives'[g]
    BY <1>2, Grown DEF GrowsBy
  <2>2. QED
    BY <1>1, <1>2, <2>1 DEF GrowsBy
<1>3. ASSUME NEW f \in {"weekly", "monthly"}, NEW d \in done.days \union {backup.day},
             NEW a \in archives[f], NameOf(f, a.day) = NameOf(f, backup.day)
      PROVE  /\ NameOf(f, a.day) >= NameOf(f, d)
             /\ a.whole \/ <<f, NameOf(f, a.day)>> \in done.torn
  <2>1. backup.day \in Nat /\ d \in Nat /\ d <= backup.day
    BY DaysAreNumbers DEF StepsAreDone
  <2>2. /\ NameOf(f, d) <= NameOf(f, backup.day)
        /\ NameOf(f, d) \in Nat /\ NameOf(f, backup.day) \in Nat
    BY <2>1, NamesGrow DEF Folders
  <2>3. a.whole \/ <<f, NameOf(f, a.day)>> \in done.torn
    BY DEF StepsAreDone, Folders
  <2>4. QED
    BY <1>3, <2>2, <2>3
<1>4. ASSUME NEW g \in Folders, Prune(g)
      PROVE  PeriodsAreKept'
  <2>1. /\ done' = done
        /\ \A f \in {"weekly", "monthly"} : \E a \in archives'[f] :
             a \in archives[f] /\ NameOf(f, a.day) = NameOf(f, backup.day)
    BY <1>4, PruneStep, RunIsKept
  <2>2. QED
    BY <1>3, <2>1 DEF PeriodsAreKept
<1>5. CASE Complete
  <2>1. /\ backup.pc = "prune" /\ archives' = archives
        /\ done'.days = done.days \union {backup.day} /\ done'.torn = done.torn
    BY <1>5, CompleteStep
  <2>2. \A f \in {"weekly", "monthly"} : \E a \in archives[f] :
          NameOf(f, a.day) = NameOf(f, backup.day)
    BY <2>1 DEF StepsAreDone, Has
  <2>3. QED
    BY <1>3, <2>1, <2>2 DEF PeriodsAreKept
<1>6. QED
  BY <1>1, <1>2, <1>4, <1>5, ArchiveWays DEF Stays, SameDone

\* The archives of a folder up to the last completed run.
UpTo(f) == {a \in archives[f] : \E d \in done.days : a.day <= d}

LEMMA FoldersKept ==
  ASSUME BackupsTypeOK, StepsAreDone, FoldersAreBounded, [BackupsNext]_backupVars
  PROVE  FoldersAreBounded'
<1>1. ASSUME NEW f \in Folders, UpTo(f)' = UpTo(f)
      PROVE  Cardinality(UpTo(f)') <= Keep(f)
  <2>1. Cardinality(UpTo(f)) <= Keep(f)
    BY DEF FoldersAreBounded, UpTo
  <2>2. QED
    BY <1>1, <2>1
<1>2. ASSUME Stays, NEW f \in Folders
      PROVE  UpTo(f)' = UpTo(f)
  BY <1>2 DEF Stays, SameDone, UpTo
<1>3. ASSUME NEW g \in Folders, NEW whole \in BOOLEAN, GrowsBy(g, whole), NEW f \in Folders
      PROVE  UpTo(f)' = UpTo(f)
  <2>1. /\ archives[f] \subseteq archives'[f]
        /\ \A a \in archives'[f] : a \in archives[f] \/ a.day = backup.day
    BY <1>3, Grown DEF GrowsBy
  <2>2. /\ backup.day \in Nat /\ \A d \in done.days : d \in Nat /\ d < backup.day
        /\ done'.days = done.days
    BY <1>3, DaysAreNumbers DEF GrowsBy, StepsAreDone
  <2>3. \A d \in done.days : ~(backup.day <= d)
    BY <2>2
  <2>4. QED
    BY <2>1, <2>2, <2>3 DEF UpTo
<1>4. ASSUME Complete, NEW f \in Folders
      PROVE  Cardinality(UpTo(f)') <= Keep(f)
  <2>1. UpTo(f)' = Kept(f)
    <3>1. archives'[f] = archives[f] /\ backup.day \in done'.days /\ Superfluous(f) = {}
      BY <1>4, CompleteStep
    <3>2. archives[f] = Kept(f)
      BY <3>1 DEF Superfluous, Kept
    <3>3. \A a \in archives[f] : a.day <= backup.day
      BY DEF StepsAreDone
    <3>4. QED
      BY <3>1, <3>2, <3>3 DEF UpTo
  <2>2. OfOwnDay(archives[f]) /\ LastDay \in Nat /\ Keep(f) \in Nat
    BY FoldersAreOfOwnDays, DaysAreNumbers, NamesGrow
  <2>3. Cardinality(Kept(f)) <= Keep(f)
    BY <2>2, AtMostKept, KeptAre
  <2>4. QED
    BY <2>1, <2>3
<1>5. ASSUME NEW g \in Folders, Prune(g), NEW f \in Folders
      PROVE  Cardinality(UpTo(f)') <= Keep(f)
  <2>1. UpTo(f)' \subseteq UpTo(f)
    BY <1>5, PruneStep, PruneRemoves DEF UpTo
  <2>2. Cardinality(UpTo(f)) <= Keep(f)
    BY DEF FoldersAreBounded, UpTo
  <2>3. IsFiniteSet(UpTo(f)) /\ Keep(f) \in Nat
    <3>1. OfOwnDay(UpTo(f)) /\ LastDay \in Nat
      BY FoldersAreOfOwnDays, DaysAreNumbers DEF OfOwnDay, UpTo
    <3>2. QED
      BY <3>1, NamesGrow, ArchivesAreFinite
  <2>4. Cardinality(UpTo(f)') <= Cardinality(UpTo(f))
    BY <2>1, <2>3, FS_Subset
  <2>5. Cardinality(UpTo(f)') \in Nat /\ Cardinality(UpTo(f)) \in Nat
    BY <2>1, <2>3, FS_Subset, FS_CardinalityType
  <2>6. QED
    BY <2>2, <2>3, <2>4, <2>5
<1>6. \A f \in Folders : Cardinality(UpTo(f)') <= Keep(f)
  BY <1>1, <1>2, <1>3, <1>4, <1>5, ArchiveWays
<1>7. QED
  BY <1>6 DEF FoldersAreBounded, UpTo

\* In an archive every account has its session file.
LEMMA MatchKept ==
  ASSUME BackupsTypeOK, StepsAreDone, ArchivesMatch, CopiesMatch, [BackupsNext]_backupVars
  PROVE  ArchivesMatch'
<1>1. CASE Stays
  BY <1>1 DEF Stays, ArchivesMatch
<1>2. ASSUME NEW g \in Folders, NEW whole \in BOOLEAN, GrowsBy(g, whole)
      PROVE  ArchivesMatch'
  <2> DEFINE new == Packed(whole)
  <2>1. /\ \A f \in Folders : \A a \in archives'[f] : a \in archives[f] \/ a = new
        /\ new.rows = backup.rows /\ new.files = backup.files /\ new.beside = backup.beside
    BY <1>2, Grown DEF GrowsBy
  <2>2. backup.beside \/ backup.rows \subseteq backup.files
    BY <1>2 DEF GrowsBy, CopiesMatch
  <2> HIDE DEF new
  <2>3. QED
    BY <2>1, <2>2 DEF ArchivesMatch
<1>3. ASSUME NEW g \in Folders, Prune(g)
      PROVE  ArchivesMatch'
  BY <1>3, PruneRemoves DEF ArchivesMatch
<1>4. CASE Complete
  BY <1>4, CompleteStep DEF ArchivesMatch
<1>5. QED
  BY <1>1, <1>2, <1>3, <1>4, ArchiveWays

\* So has what a run has read.
LEMMA CopiesKept ==
  ASSUME BackupsTypeOK, StepsAreDone, CopiesMatch, RowsHaveFiles, [BackupsNext]_backupVars
  PROVE  CopiesMatch'
<1>1. CASE Dump
  <2>1. /\ UNCHANGED <<live, restore>> /\ backup'.pc = "files" /\ backup'.rows = live.rows
        /\ ~backup'.beside => ~mixed /\ Running /\ live.leaving = {}
    BY <1>1, DumpStep DEF RunStep
  <2>2. QED
    BY <2>1 DEF CopiesMatch, RowsHaveFiles, Running
<1>2. CASE CopyFiles
  BY <1>2, CopyFilesStep DEF CopiesMatch
<1>3. ASSUME SameCopy, UNCHANGED <<live, restore>>, backup'.pc \notin {"files"},
             backup'.pc \in RunSteps => backup.pc \in RunSteps \ {"files"}
      PROVE  CopiesMatch'
  BY <1>3 DEF SameCopy, CopiesMatch
<1>4. CASE Pack \/ Verify \/ Complete \/ FailRun \/ CrashRun \/ Tell \/ TellNothing
           \/ \E f \in Folders : Prune(f)
  BY <1>3, <1>4, PackStep, VerifyStep, PruneStep, CompleteStep, StopStep, TellStep
  DEF RunStep, RunSteps
<1>5. CASE CopyFor("weekly", "monthly") \/ CopyFor("monthly", "prune")
  BY <1>3, <1>5, ForSteps DEF RunStep, RunSteps
<1>6. ASSUME AsideStep, backup.pc = "files" => backup'.beside
                          \/ (restore' = restore /\ live.files \subseteq live'.files)
      PROVE  CopiesMatch'
  BY <1>6 DEF AsideStep, CopiesMatch, Running
<1>7. ASSUME NEW a \in Accounts, AddFile(a) \/ AddRow(a)
      PROVE  restore' = restore /\ live.files \subseteq live'.files
  BY <1>7 DEF AddFile, AddRow, BackupsTypeOK, Application
<1>8. ASSUME NEW a \in Accounts, DeleteRow(a)
      PROVE  restore' = restore /\ live.files \subseteq live'.files
  BY <1>8 DEF DeleteRow, BackupsTypeOK, Application
<1>9. ASSUME NEW a \in Accounts, DeleteFile(a)
      PROVE  backup.pc = "files" => backup'.beside
  BY <1>9, Upsets DEF DeleteFile
<1>10. ASSUME NEW a, PickArchive(a)
       PROVE  backup.pc = "files" => backup'.beside
  BY <1>10, Upsets DEF PickArchive
<1>11. CASE RestoreDb \/ MoveFiles \/ CopyTree \/ FailRestore
  <2>1. ~Running /\ backup' = backup
    BY <1>11 DEF RestoreDb, MoveFiles, CopyTree, FailRestore, Running
  <2>2. backup.pc = "files" => backup'.beside
    BY <2>1 DEF CopiesMatch
  <2>3. AsideStep
    BY <1>11, AsideSteps
  <2>4. QED
    BY <1>6, <2>2, <2>3
<1>12. CASE UNCHANGED backupVars \/ \E w \in AlertWriters : OtherReads(w) \/ OtherWrites(w)
  BY <1>6, <1>12, AsideSteps DEF backupVars, OtherReads, OtherWrites
<1>13. CASE \E a \in Accounts : AddFile(a) \/ AddRow(a) \/ DeleteFile(a) \/ DeleteRow(a)
  BY <1>6, <1>7, <1>8, <1>9, <1>13, AsideSteps
<1>14. CASE \E f \in Folders : \E a \in archives[f] : PickArchive(a)
  BY <1>6, <1>10, <1>14, AsideSteps
<1>15. QED
  BY <1>1, <1>2, <1>4, <1>5, <1>11, <1>12, <1>13, <1>14
  DEF BackupsNext, BackupsProgress, BackupsEvent

\* Every account of the application has its session file.
LEMMA RowsKept ==
  ASSUME BackupsTypeOK, RowsHaveFiles, RestoreGoesOn, [BackupsNext]_backupVars
  PROVE  RowsHaveFiles'
<1>1. live \in Application
  BY DEF BackupsTypeOK
<1>2. CASE RunStep \/ UNCHANGED backupVars \/ \E w \in AlertWriters : OtherReads(w) \/ OtherWrites(w)
  BY <1>2 DEF RunStep, backupVars, OtherReads, OtherWrites, RowsHaveFiles
<1>3. ASSUME NEW a \in Accounts, AddFile(a) \/ AddRow(a) \/ DeleteFile(a) \/ DeleteRow(a)
      PROVE  RowsHaveFiles'
  <2>1. mixed' = mixed
    BY <1>3 DEF AddFile, AddRow, DeleteFile, DeleteRow
  <2>2. ASSUME live.rows \subseteq live.files \union live.leaving
        PROVE  live'.rows \subseteq live'.files \union live'.leaving
    <3>1. CASE AddFile(a)
      BY <1>1, <2>2, <3>1 DEF AddFile, Application
    <3>2. CASE AddRow(a)
      BY <1>1, <2>2, <3>2 DEF AddRow, Application
    <3>3. CASE DeleteFile(a)
      BY <1>1, <2>2, <3>3 DEF DeleteFile, Application
    <3>4. CASE DeleteRow(a)
      BY <1>1, <2>2, <3>4 DEF DeleteRow, Application
    <3>5. QED
      BY <1>3, <3>1, <3>2, <3>3, <3>4
  <2>3. QED
    BY <2>1, <2>2 DEF RowsHaveFiles
<1>4. ASSUME NEW a, PickArchive(a)
      PROVE  RowsHaveFiles'
  BY <1>4 DEF PickArchive, RowsHaveFiles
<1>5. CASE RestoreDb
  BY <1>5 DEF RestoreDb, RowsHaveFiles
<1>6. CASE MoveFiles
  BY <1>6 DEF MoveFiles, RowsHaveFiles, RestoreGoesOn
<1>7. CASE CopyTree
  <2>1. PICK a \in restore.from : live' = [live EXCEPT !.files = a.files] /\ mixed' = a.beside
    BY <1>7 DEF CopyTree
  <2>2. live.rows = a.rows /\ (a.beside \/ a.rows \subseteq a.files)
    BY <1>7 DEF CopyTree, RestoreGoesOn
  <2>3. live'.rows = live.rows /\ live'.files = a.files
    BY <1>1, <2>1 DEF Application
  <2>4. QED
    BY <2>1, <2>2, <2>3 DEF RowsHaveFiles
<1>8. CASE FailRestore
  <2>1. CASE UNCHANGED <<live, mixed>>
    BY <2>1 DEF RowsHaveFiles
  <2>2. CASE mixed' = TRUE
    BY <2>2 DEF RowsHaveFiles
  <2>3. QED
    BY <1>8, <2>1, <2>2 DEF FailRestore
<1>9. QED
  BY <1>2, <1>3, <1>4, <1>5, <1>6, <1>7, <1>8, DumpStep, CopyFilesStep, PackStep, VerifyStep,
     CopyForStep, PruneStep, CompleteStep, StopStep, TellStep
  DEF BackupsNext, BackupsProgress, BackupsEvent, BackupPcs, RunSteps

\* The session files there are: in place, moved aside, or deleted with their account.
Somewhere == live.files \union aside \union gone

\* No step loses a file.
LEMMA FilesKept ==
  ASSUME BackupsTypeOK, RestoreGoesOn, [BackupsNext]_backupVars
  PROVE  Somewhere \subseteq Somewhere'
<1>1. live \in Application
  BY DEF BackupsTypeOK
<1>2. CASE RunStep \/ UNCHANGED backupVars \/ \E w \in AlertWriters : OtherReads(w) \/ OtherWrites(w)
  BY <1>2 DEF RunStep, backupVars, OtherReads, OtherWrites, Somewhere
<1>3. ASSUME NEW a \in Accounts, AddFile(a) \/ AddRow(a) \/ DeleteRow(a)
      PROVE  Somewhere \subseteq Somewhere'
  BY <1>1, <1>3 DEF AddFile, AddRow, DeleteRow, Somewhere, Application
<1>4. ASSUME NEW a \in Accounts, DeleteFile(a)
      PROVE  Somewhere \subseteq Somewhere'
  BY <1>1, <1>4 DEF DeleteFile, Somewhere, Application
<1>5. ASSUME NEW a, PickArchive(a)
      PROVE  Somewhere \subseteq Somewhere'
  BY <1>5 DEF PickArchive, Somewhere
<1>6. CASE RestoreDb
  <2>1. live'.files = live.files /\ UNCHANGED <<aside, gone>>
    BY <1>1, <1>6 DEF RestoreDb, Application
  <2>2. QED
    BY <2>1 DEF Somewhere
<1>7. CASE MoveFiles
  BY <1>7 DEF MoveFiles, Somewhere
<1>8. CASE CopyTree
  BY <1>8 DEF CopyTree, Somewhere, RestoreGoesOn
<1>9. CASE FailRestore
  <2>1. live'.files = live.files /\ UNCHANGED <<aside, gone>>
    BY <1>1, <1>9 DEF FailRestore, Application
  <2>2. QED
    BY <2>1 DEF Somewhere
<1>10. QED
  BY <1>2, <1>3, <1>4, <1>5, <1>6, <1>7, <1>8, <1>9, DumpStep, CopyFilesStep, PackStep,
     VerifyStep, CopyForStep, PruneStep, CompleteStep,
     StopStep, TellStep
  DEF BackupsNext, BackupsProgress, BackupsEvent, BackupPcs, RunSteps

\* The files of the archives are somewhere, and so are those a run has copied.
CopiedIsThere == backup.pc \in RunSteps \ {"files"} => backup.files \subseteq Somewhere

LEMMA CopiedKept ==
  ASSUME BackupsTypeOK, CopiedIsThere, RestoreGoesOn, [BackupsNext]_backupVars
  PROVE  CopiedIsThere'
<1>1. Somewhere \subseteq Somewhere'
  BY FilesKept
<1>2. CASE Dump
  BY <1>2, DumpStep DEF CopiedIsThere
<1>3. CASE CopyFiles
  <2>1. backup'.files = live.files
    BY <1>3, CopyFilesStep
  <2>2. QED
    BY <1>1, <2>1 DEF CopiedIsThere, Somewhere
<1>4. ASSUME backup'.files = backup.files,
             backup'.pc \in RunSteps \ {"files"} => backup.pc \in RunSteps \ {"files"}
      PROVE  CopiedIsThere'
  BY <1>1, <1>4 DEF CopiedIsThere
<1>5. CASE Pack \/ Verify \/ Complete \/ FailRun \/ CrashRun \/ Tell \/ TellNothing
           \/ \E f \in Folders : Prune(f)
  BY <1>4, <1>5, PackStep, VerifyStep, PruneStep, CompleteStep, StopStep, TellStep
  DEF SameCopy, RunSteps
<1>6. CASE CopyFor("weekly", "monthly") \/ CopyFor("monthly", "prune")
  BY <1>4, <1>6, CopyForStep DEF SameCopy, BackupPcs, RunSteps
<1>7. CASE AsideStep
  BY <1>4, <1>7 DEF AsideStep
<1>8. QED
  BY <1>2, <1>3, <1>5, <1>6, <1>7, AsideSteps DEF BackupsNext, BackupsProgress, BackupsEvent

\* No restore destroys a file.
LEMMA LossKept ==
  ASSUME BackupsTypeOK, StepsAreDone, NoFileIsLost, RestoreGoesOn, [BackupsNext]_backupVars
  PROVE  NoFileIsLost'
<1>1. Somewhere \subseteq Somewhere'
  BY FilesKept
<1>2. \A f \in Folders : \A a \in archives[f] : a.whole => a.files \subseteq Somewhere
  BY DEF NoFileIsLost, Somewhere
<1>3. \A f \in Folders : \A a \in archives'[f] : a.whole => a.files \subseteq Somewhere'
  <2>1. CASE Stays
    BY <1>1, <1>2, <2>1 DEF Stays
  <2>2. ASSUME NEW g \in Folders, NEW whole \in BOOLEAN, GrowsBy(g, whole)
        PROVE  \A f \in Folders : \A a \in archives'[f] : a.whole => a.files \subseteq Somewhere'
    <3> DEFINE new == Packed(whole)
    <3>1. /\ \A f \in Folders : \A a \in archives'[f] : a \in archives[f] \/ a = new
          /\ new.files = backup.files
      BY <2>2, Grown DEF GrowsBy
    <3>2. backup.files \subseteq Somewhere
      BY <2>2 DEF GrowsBy, RestoreGoesOn, Somewhere
    <3> HIDE DEF new
    <3>3. QED
      BY <1>1, <1>2, <3>1, <3>2
  <2>3. ASSUME NEW g \in Folders, Prune(g)
        PROVE  \A f \in Folders : \A a \in archives'[f] : a.whole => a.files \subseteq Somewhere'
    BY <1>1, <1>2, <2>3, PruneRemoves
  <2>4. CASE Complete
    BY <1>1, <1>2, <2>4, CompleteStep
  <2>5. QED
    BY <2>1, <2>2, <2>3, <2>4, ArchiveWays
<1>4. QED
  BY <1>3 DEF NoFileIsLost, Somewhere

\* The restore: its archive, its rows and the files that are moved out of its way.
RestoreMatches ==
  /\ \A a \in restore.from : a.beside \/ a.rows \subseteq a.files
  /\ restore.pc \in {"move", "copy"} => mixed /\ \A a \in restore.from : live.rows = a.rows
  /\ restore.pc = "copy" => live.files = {}
  /\ \A a, b \in restore.from : a = b

LEMMA RestoreKept ==
  ASSUME BackupsTypeOK, ArchivesMatch, RestoreMatches, [BackupsNext]_backupVars
  PROVE  RestoreMatches'
<1>1. /\ live \in Application
      /\ restore \in [pc : {"off", "db", "move", "copy"}, from : SUBSET Archive]
  BY DEF BackupsTypeOK
<1>2. CASE RunStep \/ UNCHANGED backupVars \/ \E w \in AlertWriters : OtherReads(w) \/ OtherWrites(w)
  BY <1>2 DEF RunStep, backupVars, OtherReads, OtherWrites, RestoreMatches
<1>3. ASSUME NEW a \in Accounts, AddFile(a) \/ AddRow(a) \/ DeleteFile(a) \/ DeleteRow(a)
      PROVE  RestoreMatches'
  <2>1. restore.pc = "off" /\ restore' = restore
    BY <1>3 DEF AddFile, AddRow, DeleteFile, DeleteRow, Running
  <2>2. QED
    BY <2>1 DEF RestoreMatches
<1>4. ASSUME NEW f \in Folders, NEW a \in archives[f], PickArchive(a)
      PROVE  RestoreMatches'
  <2>1. restore'.pc = "db" /\ restore'.from = {a}
    BY <1>4 DEF PickArchive
  <2>2. a.beside \/ a.rows \subseteq a.files
    BY DEF ArchivesMatch
  <2>3. QED
    BY <2>1, <2>2 DEF RestoreMatches
<1>5. CASE RestoreDb
  <2>1. PICK a \in restore.from : live' = [live EXCEPT !.rows = a.rows, !.leaving = {}]
    BY <1>5 DEF RestoreDb
  <2>2. mixed' = TRUE /\ restore'.pc = "move" /\ restore'.from = restore.from
    BY <1>1, <1>5 DEF RestoreDb
  <2>3. live'.rows = a.rows
    BY <1>1, <2>1 DEF Application
  <2>4. \A b \in restore'.from : b = a
    BY <2>2 DEF RestoreMatches
  <2>5. QED
    BY <2>2, <2>3, <2>4 DEF RestoreMatches
<1>6. CASE MoveFiles
  <2>1. restore.pc = "move" /\ restore'.pc = "copy" /\ restore'.from = restore.from /\ mixed' = mixed
    BY <1>1, <1>6 DEF MoveFiles
  <2>2. live'.rows = live.rows /\ live'.files = {}
    BY <1>1, <1>6 DEF MoveFiles, Application
  <2>3. QED
    BY <2>1, <2>2 DEF RestoreMatches
<1>7. CASE CopyTree \/ FailRestore
  <2>1. restore'.pc = "off" /\ restore'.from = {}
    BY <1>7 DEF CopyTree, FailRestore, NoRestore
  <2>2. QED
    BY <2>1 DEF RestoreMatches
<1>8. QED
  BY <1>2, <1>3, <1>4, <1>5, <1>6, <1>7, DumpStep, CopyFilesStep, PackStep, VerifyStep,
     CopyForStep, PruneStep, CompleteStep, StopStep, TellStep
  DEF BackupsNext, BackupsProgress, BackupsEvent, BackupPcs, RunSteps

\* What another process read, if it is right, is right when it is written back; and what
\* the run tells is right when nobody is about to write.
LEMMA AlarmKept ==
  ASSUME BackupsTypeOK, AlarmIsTrue, EndsAreTold, [BackupsNext]_backupVars
  PROVE  AlarmIsTrue' /\ EndsAreTold'
<1>1. /\ alarm \in BOOLEAN /\ held \in [AlertWriters -> SUBSET BOOLEAN]
      /\ told => (alarm <=> done.last = "failed") /\ \A w \in AlertWriters : held[w] \subseteq {alarm}
      /\ backup.pc = "failed" => done.last = "failed"
      /\ backup.pc = "passed" => done.last = "ok"
  BY DEF BackupsTypeOK, AlarmIsTrue, EndsAreTold
<1>2. ASSUME ~told', backup'.pc = "failed" => done'.last = "failed",
             backup'.pc = "passed" => done'.last = "ok"
      PROVE  AlarmIsTrue' /\ EndsAreTold'
  BY <1>2 DEF AlarmIsTrue, EndsAreTold
<1>3. ASSUME UNCHANGED <<alarm, held, told>>, done'.last = done.last,
             backup'.pc \in {"failed", "passed"} => backup'.pc = backup.pc
      PROVE  AlarmIsTrue' /\ EndsAreTold'
  BY <1>1, <1>3 DEF AlarmIsTrue, EndsAreTold
<1>4. ASSUME NEW w \in AlertWriters, OtherReads(w)
      PROVE  AlarmIsTrue' /\ EndsAreTold'
  <2>1. UNCHANGED <<alarm, done, backup>>
    BY <1>4 DEF OtherReads
  <2>2. CASE ~told'
    BY <1>1, <1>2, <2>1, <2>2
  <2>3. CASE told' /\ held' = [held EXCEPT ![w] = {alarm}] /\ told' = told
    <3>1. \A v \in AlertWriters : held'[v] \subseteq {alarm}
      BY <1>1, <2>3
    <3>2. QED
      BY <1>1, <2>1, <2>3, <3>1 DEF AlarmIsTrue, EndsAreTold
  <2>4. QED
    BY <1>4, <2>2, <2>3 DEF OtherReads
<1>5. ASSUME NEW w \in AlertWriters, OtherWrites(w)
      PROVE  AlarmIsTrue' /\ EndsAreTold'
  <2>1. /\ UNCHANGED <<told, done, backup>> /\ alarm' \in held[w]
        /\ held' = [held EXCEPT ![w] = {}]
    BY <1>5 DEF OtherWrites
  <2>2. CASE ~told
    BY <1>1, <1>2, <2>1, <2>2
  <2>3. CASE told
    <3>1. alarm' = alarm
      BY <1>1, <2>1, <2>3
    <3>2. \A v \in AlertWriters : held'[v] \subseteq {alarm}
      BY <1>1, <2>1, <2>3
    <3>3. QED
      BY <1>1, <2>1, <2>3, <3>1, <3>2 DEF AlarmIsTrue, EndsAreTold
  <2>4. QED
    BY <2>2, <2>3
<1>6. CASE Tell
  <2>1. /\ backup.pc \in {"failed", "passed"} /\ backup'.pc = "off" /\ done' = done /\ held' = held
        /\ alarm' = (backup.pc = "failed") /\ told' = \A w \in AlertWriters : held[w] = {}
    BY <1>6, TellStep DEF Tell
  <2>2. alarm' <=> done'.last = "failed"
    BY <1>1, <2>1
  <2>3. told' => \A w \in AlertWriters : held'[w] \subseteq {alarm'}
    BY <2>1
  <2>4. QED
    BY <2>1, <2>2, <2>3 DEF AlarmIsTrue, EndsAreTold
<1>7. CASE TellNothing
  BY <1>3, <1>7, TellStep DEF TellNothing, alertVars
<1>8. CASE Dump \/ CopyFiles \/ Pack \/ CopyFor("weekly", "monthly") \/ CopyFor("monthly", "prune")
           \/ \E f \in Folders : Prune(f)
  BY <1>3, <1>8, DumpStep, CopyFilesStep, PackStep, ForSteps, PruneStep DEF alertVars
<1>9. CASE Verify
  <2>1. CASE told' = told /\ done' = done /\ backup'.pc = "weekly"
    BY <1>3, <1>9, <2>1, VerifyStep
  <2>2. CASE ~told' /\ backup'.pc = "failed" /\ done'.last = "failed"
    BY <1>2, <2>2
  <2>3. QED
    BY <1>9, <2>1, <2>2, VerifyStep
<1>10. CASE Complete
  BY <1>2, <1>10, CompleteStep
<1>11. CASE FailRun
  <2>1. Stops("failed", "failed") /\ ~told'
    BY <1>11 DEF FailRun
  <2>2. backup'.pc = "failed" /\ done'.last = "failed"
    BY <2>1, StopsStep
  <2>3. QED
    BY <1>2, <2>1, <2>2
<1>12. CASE CrashRun
  <2>1. Stops("off", done.last) /\ told' = told /\ done.last \in {"none", "ok", "failed"}
    BY <1>12 DEF CrashRun, BackupsTypeOK, Completed
  <2>2. backup'.pc = "off" /\ done'.last = done.last /\ UNCHANGED <<alarm, held>>
    BY <2>1, StopsStep
  <2>3. QED
    BY <1>3, <2>1, <2>2
<1>13. ASSUME AsideStep, UNCHANGED alertVars
       PROVE  AlarmIsTrue' /\ EndsAreTold'
  BY <1>3, <1>13 DEF AsideStep, alertVars
<1>14. CASE \/ \E a \in Accounts : AddFile(a) \/ AddRow(a) \/ DeleteFile(a) \/ DeleteRow(a)
            \/ \E f \in Folders : \E a \in archives[f] : PickArchive(a)
            \/ RestoreDb \/ MoveFiles \/ CopyTree \/ FailRestore
            \/ UNCHANGED backupVars
  <2>1. UNCHANGED alertVars
    BY <1>14 DEF AddFile, AddRow, DeleteFile, DeleteRow, PickArchive, RestoreDb, MoveFiles,
       CopyTree, FailRestore, backupVars
  <2>2. QED
    BY <1>13, <1>14, <2>1, AsideSteps
<1>15. QED
  BY <1>4, <1>5, <1>6, <1>7, <1>8, <1>9, <1>10, <1>11, <1>12, <1>14
  DEF BackupsNext, BackupsProgress, BackupsEvent

-------------------------------------------------------------------------------
\* The initial states.
LEMMA BackupsStartWell ==
  ASSUME BackupsInit
  PROVE  BackupsInv
<1>1. NoBackup \in Run /\ NoBackup.pc = "off" /\ NoBackup.day = 0
  BY DEF NoBackup, Run, BackupPcs, RunSteps
<1>2. /\ NoRestore \in [pc : {"off", "db", "move", "copy"}, from : SUBSET Archive]
      /\ NoRestore.pc = "off" /\ NoRestore.from = {}
  BY DEF NoRestore
<1>3. bkPlan \in BackupScenarios /\ bkPlan.days \in Nat
  BY BackupAssumption DEF BackupsInit
<1>4. /\ live = [rows |-> {}, files |-> {}, leaving |-> {}]
      /\ archives = [f \in Folders |-> {}]
      /\ backup = NoBackup /\ restore = NoRestore
      /\ alarm = FALSE /\ held = [w \in AlertWriters |-> {}] /\ told = TRUE
      /\ aside = {} /\ mixed = FALSE /\ gone = {}
      /\ done = [days |-> {}, torn |-> {}, last |-> "none"]
  BY DEF BackupsInit
<1>5. live \in Application /\ done \in Completed
  BY <1>4 DEF Application, Completed
<1>6. BackupsTypeOK
  <2>1. archives \in [Folders -> SUBSET Archive]
    BY <1>4
  <2>2. backup \in Run /\ backup.day <= bkPlan.days
    BY <1>1, <1>3, <1>4
  <2>3. /\ restore \in [pc : {"off", "db", "move", "copy"}, from : SUBSET Archive]
        /\ aside \subseteq Accounts /\ gone \subseteq Accounts
        /\ alarm \in BOOLEAN /\ told \in BOOLEAN /\ mixed \in BOOLEAN
        /\ held \in [AlertWriters -> SUBSET BOOLEAN]
    BY <1>2, <1>4
  <2>4. QED
    BY <1>3, <1>5, <2>1, <2>2, <2>3 DEF BackupsTypeOK
<1>7. LastRunIsKept /\ PeriodsAreKept
  BY <1>4 DEF LastRunIsKept, PeriodsAreKept
<1>8. FoldersAreBounded
  <2>1. \A f \in Folders : {a \in archives[f] : \E d \in done.days : a.day <= d} = {}
    BY <1>4
  <2>2. \A f \in Folders : 0 <= Keep(f)
    BY NamesGrow
  <2>3. QED
    BY <2>1, <2>2, FS_EmptySet DEF FoldersAreBounded
<1>9. StepsAreDone
  BY <1>1, <1>4 DEF StepsAreDone, RunSteps
<1>10. ArchivesMatch /\ NoFileIsLost
  BY <1>4 DEF ArchivesMatch, NoFileIsLost
<1>11. CopiesMatch /\ RowsHaveFiles /\ RestoreGoesOn /\ AlarmIsTrue /\ EndsAreTold
  BY <1>1, <1>2, <1>4
  DEF CopiesMatch, RowsHaveFiles, RestoreGoesOn, AlarmIsTrue, EndsAreTold, RunSteps
<1>12. QED
  BY <1>6, <1>7, <1>8, <1>9, <1>10, <1>11 DEF BackupsInv

(* Whatever fails, a restore finds what it needs: the last completed run's    *)
(* archive and those of its week and month are kept and whole, folders are    *)
(* bounded, archives match, and no session file is lost: BackupsInv.          *)
THEOREM BackupsHold == BackupsSpec => []BackupsInv
<1>1. BackupsInit => BackupsInv
  BY BackupsStartWell
<1>2. BackupsInv /\ [BackupsNext]_backupVars => BackupsInv'
  <2> SUFFICES ASSUME BackupsInv, [BackupsNext]_backupVars PROVE BackupsInv'
    OBVIOUS
  <2> USE DEF BackupsInv
  <2>1. BackupsTypeOK' /\ StepsAreDone'
    BY BackupsTypeKept, StepsKept
  <2>2. LastRunIsKept' /\ PeriodsAreKept' /\ FoldersAreBounded'
    BY LastKept, PeriodsKept, FoldersKept
  <2>3. ArchivesMatch' /\ CopiesMatch' /\ RowsHaveFiles'
    BY MatchKept, CopiesKept, RowsKept
  <2>4. NoFileIsLost' /\ AlarmIsTrue' /\ EndsAreTold'
    BY LossKept, AlarmKept
  <2>5. RestoreGoesOn'
    <3>1. CopiedIsThere /\ RestoreMatches
      BY DEF RestoreGoesOn, CopiedIsThere, RestoreMatches, Somewhere
    <3>2. CopiedIsThere' /\ RestoreMatches'
      BY <3>1, CopiedKept, RestoreKept
    <3>3. QED
      BY <3>2 DEF RestoreGoesOn, CopiedIsThere, RestoreMatches, Somewhere
  <2>6. QED
    BY <2>1, <2>2, <2>3, <2>4, <2>5
<1>3. QED
  BY <1>1, <1>2, PTL DEF BackupsSpec
==============================================================================
