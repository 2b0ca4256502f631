---------------------------- MODULE LiveEventsProofs ----------------------------
(***************************************************************************)
(* The live log, for any emitters, sizes and scenarios: nothing is missing  *)
(* between the oldest and the newest event of the panel, and a connection   *)
(* sends its events in order.                                               *)
(*                                                                         *)
(* The argument is about what may still be missing (Promised).  An event    *)
(* becomes promised when it is committed, and is then newer than all rows   *)
(* (CommitStep); every other step only takes promises away.  A stream moves  *)
(* from event to event with nothing promised between them (StreamMoves).    *)
(* There is a lemma for each action (...Keeps).                             *)
(***************************************************************************)
EXTENDS LiveEventsProperties, TLAPS, FiniteSetTheorems, WellFoundedInduction, SequenceTheorems

-------------------------------------------------------------------------------
(* The ends of a set of ids. *)

\* Ids are numbers, finitely many, and not the mark.
LEMMA IdsAreNumbers ==
  /\ Ids \subseteq Nat \ {0} /\ IsFiniteSet(Ids) /\ Ids = 1..Cardinality(Ids)
  /\ Cardinality(Ids) \in Nat
BY EventsAssumption, FS_CardinalityType DEF Ids

\* A set of ids that is not empty has a least element: else the parts below its
\* elements would go down for ever.
LEMMA LeastId ==
  ASSUME NEW S \in SUBSET Ids, S # {}
  PROVE  \E n \in S : \A m \in S : n <= m
<1> DEFINE Below(n) == {m \in S : m < n}
           Parts == {Below(n) : n \in S}
<1>1. IsFiniteSet(S)
  BY IdsAreNumbers, FS_Subset
<1>2. Parts \subseteq FiniteSubsetsOf(S)
  <2>1. \A n \in S : Below(n) \in SUBSET S
    OBVIOUS
  <2>2. \A n \in S : IsFiniteSet(Below(n))
    BY <1>1, <2>1, FS_Subset
  <2>3. QED
    BY <2>1, <2>2 DEF FiniteSubsetsOf
<1>3. Parts # {}
  OBVIOUS
<1> HIDE DEF Parts
<1>4. \E P \in Parts : \A Q \in Parts : <<Q, P>> \notin StrictSubsetOrdering(S)
  BY <1>2, <1>3, FS_StrictSubsetOrderingWellFounded, WFMin
<1>5. PICK n \in S : \A Q \in Parts : <<Q, Below(n)>> \notin StrictSubsetOrdering(S)
  BY <1>4 DEF Parts
<1>6. ASSUME NEW m \in S, m < n
      PROVE  FALSE
  <2>1. Below(m) \in Parts
    BY DEF Parts
  <2>2. m \in Below(n) /\ m \notin Below(m)
    BY <1>6, IdsAreNumbers
  <2>3. Below(m) \subseteq Below(n)
    <3>1. S \subseteq Nat
      BY IdsAreNumbers
    <3>2. \A x \in S : x < m => x < n
      BY <1>6, <3>1
    <3>3. QED
      BY <3>2
  <2>4. <<Below(m), Below(n)>> \in StrictSubsetOrdering(S)
    BY <2>2, <2>3 DEF StrictSubsetOrdering
  <2>5. QED
    BY <1>5, <2>1, <2>4
<1>7. \A m \in S : n <= m
  BY <1>6, IdsAreNumbers
<1>8. QED
  BY <1>7

\* And a greatest one.
LEMMA GreatestId ==
  ASSUME NEW S \in SUBSET Ids, S # {}
  PROVE  \E n \in S : \A m \in S : m <= n
<1> DEFINE top == Cardinality(Ids) + 1
           Turned == {i \in Ids : top - i \in S}
<1>1. \A n \in S : top - n \in Turned /\ top - (top - n) = n
  BY IdsAreNumbers
<1>2. PICK t \in Turned : \A u \in Turned : t <= u
  BY <1>1, LeastId, Turned # {}, Turned \in SUBSET Ids
<1>3. top - t \in S /\ \A m \in S : m <= top - t
  BY <1>1, <1>2, IdsAreNumbers
<1>4. QED
  BY <1>3

\* The oldest row of an answer is its least, the newest its greatest.
LEMMA OldestIs ==
  ASSUME NEW S \in SUBSET Ids
  PROVE  /\ S # {} => Oldest(S) \in S /\ \A m \in S : Oldest(S) <= m
         /\ S = {} => Oldest(S) = 0
         /\ Oldest(S) \in Ids \union {0}
BY LeastId DEF Oldest

LEMMA NewestIs ==
  ASSUME NEW S \in SUBSET Ids
  PROVE  /\ Newest(S) \in S \union {0} /\ \A m \in S : m <= Newest(S)
         /\ S = {} => Newest(S) = 0
         /\ S # {} => Newest(S) \in S
         /\ Newest(S) \in Ids \union {0}
<1>1. \E n \in S \union {0} : \A m \in S : m <= n
  <2>1. CASE S = {}
    BY <2>1
  <2>2. CASE S # {}
    BY <2>2, GreatestId
  <2>3. QED
    BY <2>1, <2>2
<1>2. Newest(S) \in S \union {0} /\ \A m \in S : m <= Newest(S)
  BY <1>1 DEF Newest
<1>3. ASSUME S # {}
      PROVE  Newest(S) \in S
  <2>1. PICK m \in S : m \in Nat /\ m # 0 /\ m <= Newest(S)
    BY <1>2, <1>3, IdsAreNumbers
  <2>2. Newest(S) # 0
    BY <2>1
  <2>3. QED
    BY <1>2, <2>2
<1>4. S = {} => Newest(S) = 0
  BY <1>2
<1>5. QED
  BY <1>2, <1>3, <1>4

-------------------------------------------------------------------------------
(* What a step changes of the events. *)

\* The rows of the table have ids, and what is promised is a row.
LEMMA SavedAreIds ==
  ASSUME LiveEventsTypeOK, IdsMatch
  PROVE  /\ Saved \subseteq Ids /\ Published \subseteq Saved
         /\ \A n \in Saved : n \in Nat /\ n # 0
         /\ Promised \subseteq Saved
<1>1. \A e \in Emitters : emit[e].pc # "off" => emit[e].id \in Ids
  BY DEF LiveEventsTypeOK, IdsMatch
<1>2. Saved \subseteq Ids /\ Published \subseteq Saved
  BY <1>1 DEF Saved, Published
<1>3. QED
  BY <1>2, IdsAreNumbers DEF Promised

\* The filters let events of emitters through.
LEMMA WantedAreEmitters ==
  ASSUME LiveEventsTypeOK
  PROVE  \A w \in evplan.wanted : w \in Emitters
BY EventsAssumption DEF LiveEventsTypeOK

\* While no event moves, the table, the queues' source and the order stay.
LEMMA EventsRest ==
  ASSUME LiveEventsTypeOK, IdsMatch, OvertakenAreMissed, UNCHANGED <<emit, missed, evplan>>
  PROVE  /\ IdsMatch' /\ OvertakenAreMissed' /\ Saved' = Saved /\ Published' = Published
         /\ wiped \subseteq wiped' => Promised' = Promised \ wiped'
<1>1. Saved' = Saved /\ Published' = Published
  BY DEF Saved, Published
<1>2. IdsMatch'
  BY DEF IdsMatch, Begun
<1>3. OvertakenAreMissed'
  BY <1>1 DEF OvertakenAreMissed
<1>4. \A n : Wanted(n)' <=> Wanted(n)
  BY DEF Wanted
<1>5. wiped \subseteq wiped' => Promised' = Promised \ wiped'
  BY <1>1, <1>4 DEF Promised
<1>6. QED
  BY <1>1, <1>2, <1>3, <1>5

\* How many have begun, one more or not.
LEMMA BegunCounts ==
  /\ IsFiniteSet(Begun) /\ Cardinality(Begun) \in Nat /\ Cardinality(Begun) <= Cardinality(Ids)
  /\ Begun # Emitters => Cardinality(Begun) < Cardinality(Ids)
<1>1. Begun \in SUBSET Ids
  BY DEF Begun, Ids
<1>2. IsFiniteSet(Begun) /\ Cardinality(Begun) <= Cardinality(Ids)
      /\ (Cardinality(Ids) = Cardinality(Begun) => Ids = Begun)
  BY <1>1, IdsAreNumbers, FS_Subset
<1>3. Cardinality(Begun) \in Nat
  BY <1>2, FS_CardinalityType
<1>4. QED
  BY <1>2, <1>3, IdsAreNumbers DEF Ids

\* An insert gets an id after all others; nothing is saved by it.
LEMMA InsertStep ==
  ASSUME LiveEventsTypeOK, IdsMatch, NEW e \in Emitters, Insert(e)
  PROVE  /\ emit'[e].id = 1 + Cardinality(Begun) /\ emit'[e].id \in Ids
         /\ emit'[e].pc = "inserted" /\ emit[e].pc = "off"
         /\ \A f \in Emitters \ {e} : emit'[f] = emit[f]
         /\ \A f \in Emitters \ {e} : emit[f].id < emit'[e].id
         /\ Saved' = Saved /\ Published' = Published /\ Promised' = Promised
         /\ IdsMatch'
<1>1. /\ emit[e].pc = "off" /\ emit'[e].pc = "inserted"
      /\ emit'[e].id = 1 + Cardinality(Begun)
      /\ \A f \in Emitters \ {e} : emit'[f] = emit[f]
      /\ UNCHANGED <<missed, wiped, evplan>>
  BY DEF LiveEventsTypeOK, Insert, Begun
<1>2. emit'[e].id \in Ids
  <2>1. Begun # Emitters
    BY <1>1 DEF Begun
  <2>2. QED
    BY <1>1, <2>1, BegunCounts, IdsAreNumbers
<1>3. \A f \in Emitters : emit[f].id \in Nat /\ emit[f].id < emit'[e].id
  BY <1>1, BegunCounts, IdsAreNumbers DEF LiveEventsTypeOK, IdsMatch
<1>4. Saved' = Saved /\ Published' = Published
  BY <1>1 DEF Saved, Published
<1>5. Begun' = Begun \union {e}
  BY <1>1 DEF Begun
<1>6. Cardinality(Begun') = Cardinality(Begun) + 1
  BY <1>1, <1>5, BegunCounts, FS_AddElement DEF Begun
<1>7. IdsMatch'
  <2> SUFFICES ASSUME NEW f \in Emitters
               PROVE  /\ (emit'[f].pc = "off") <=> (emit'[f].id = 0)
                      /\ emit'[f].id <= Cardinality(Begun')
                      /\ \A g \in Emitters \ {f} : emit'[f].id = emit'[g].id => emit'[f].id = 0
    BY DEF IdsMatch
  <2>1. CASE f = e
    BY <1>1, <1>2, <1>3, <1>6, <2>1, BegunCounts, IdsAreNumbers
  <2>2. CASE f # e
    BY <1>1, <1>3, <1>6, <2>2, BegunCounts, IdsAreNumbers DEF IdsMatch
  <2>3. QED
    BY <2>1, <2>2
<1>8. \A n \in Saved : Wanted(n)' <=> Wanted(n)
  <2>1. \A n \in Saved : n # emit'[e].id /\ n # emit[e].id
    BY <1>1, <1>3, SavedAreIds, IdsAreNumbers DEF Saved, IdsMatch
  <2>2. \A w \in evplan.wanted : w \in Emitters
    BY WantedAreEmitters
  <2>3. QED
    BY <1>1, <2>1, <2>2 DEF Wanted
<1>9. Promised' = Promised
  BY <1>1, <1>4, <1>8 DEF Promised
<1>10. QED
  BY <1>1, <1>2, <1>3, <1>4, <1>7, <1>9

\* A commit saves its row or loses it; what it overtakes is missed, so the row
\* is promised only if it is the last of all.
LEMMA CommitStep ==
  ASSUME LiveEventsTypeOK, IdsMatch, OvertakenAreMissed, NEW e \in Emitters, Commit(e)
  PROVE  /\ emit[e].pc = "inserted" /\ emit[e].id \in Ids /\ emit[e].id \notin Saved
         /\ emit'[e].pc \in {"saved", "lost"} /\ emit'[e].id = emit[e].id
         /\ \A f \in Emitters \ {e} : emit'[f] = emit[f]
         /\ Saved' = (IF emit'[e].pc = "saved" THEN Saved \union {emit[e].id} ELSE Saved)
         /\ Published' = Published /\ missed \subseteq missed'
         /\ \A f \in Emitters : emit[f].pc = "inserted" /\ emit[f].id < emit[e].id
                                => emit[f].id \in missed'
         /\ \A n \in Promised' : n \in Promised \/ (n = emit[e].id /\ \A m \in Saved : m < n)
         /\ IdsMatch' /\ OvertakenAreMissed'
<1>1. /\ emit[e].pc = "inserted" /\ emit'[e].pc \in {"saved", "lost"}
      /\ emit'[e].id = emit[e].id
      /\ \A f \in Emitters \ {e} : emit'[f] = emit[f]
      /\ missed' = missed \union Overtakes(emit[e].id, {"inserted"})
      /\ UNCHANGED <<wiped, evplan>>
  BY DEF LiveEventsTypeOK, Commit, Moves
<1>2. emit[e].id \in Ids
  BY <1>1 DEF LiveEventsTypeOK, IdsMatch
<1>3. emit[e].id \notin Saved
  BY <1>1, <1>2, IdsAreNumbers DEF Saved, IdsMatch
<1>4. Saved' = IF emit'[e].pc = "saved" THEN Saved \union {emit[e].id} ELSE Saved
  BY <1>1 DEF Saved
<1>5. Published' = Published
  BY <1>1 DEF Published
<1>6. \A f \in Emitters : emit[f].pc = "inserted" /\ emit[f].id < emit[e].id
                          => emit[f].id \in missed'
  <2> SUFFICES ASSUME NEW f \in Emitters, emit[f].pc = "inserted", emit[f].id < emit[e].id
               PROVE  emit[f].id \in missed'
    OBVIOUS
  <2>1. emit[f].id \in Ids
    BY DEF LiveEventsTypeOK, IdsMatch
  <2>2. emit[f].id \in 1 .. (emit[e].id - 1)
    BY <1>2, <2>1, IdsAreNumbers
  <2>3. QED
    BY <1>1, <2>2 DEF Overtakes
<1>7. Begun' = Begun
  BY <1>1 DEF Begun
<1>8. IdsMatch'
  BY <1>1, <1>7 DEF IdsMatch
<1>9. OvertakenAreMissed'
  <2> SUFFICES ASSUME NEW f \in Emitters
               PROVE  /\ emit'[f].pc = "inserted" =>
                           \A n \in Saved' : emit'[f].id < n => emit'[f].id \in missed'
                      /\ emit'[f].pc \in {"inserted", "saved"} =>
                           \A n \in Published' : emit'[f].id < n => emit'[f].id \in missed'
    BY DEF OvertakenAreMissed
  <2>1. CASE f = e
    BY <1>1, <1>5, <2>1 DEF OvertakenAreMissed
  <2>2. CASE f # e
    BY <1>1, <1>4, <1>5, <1>6, <2>2 DEF OvertakenAreMissed
  <2>3. QED
    BY <2>1, <2>2
<1>10. \A n : Wanted(n)' <=> Wanted(n)
  <2>1. \A w \in evplan.wanted : w \in Emitters
    BY WantedAreEmitters
  <2>2. \A w \in evplan.wanted : emit'[w].id = emit[w].id
    BY <1>1, <2>1
  <2>3. QED
    BY <1>1, <2>2 DEF Wanted
<1>11. \A n \in Promised' : n \in Promised \/ (n = emit[e].id /\ \A m \in Saved : m < n)
  <2> SUFFICES ASSUME NEW n \in Promised', n \notin Promised
               PROVE  n = emit[e].id /\ \A m \in Saved : m < n
    OBVIOUS
  <2>1. n = emit[e].id /\ n \notin missed
    BY <1>1, <1>4, <1>10 DEF Promised
  <2>2. \A m \in Saved : ~(n < m)
    BY <1>1, <2>1 DEF OvertakenAreMissed
  <2>3. QED
    BY <1>2, <1>3, <2>1, <2>2, SavedAreIds, IdsAreNumbers
<1>12. QED
  BY <1>1, <1>2, <1>3, <1>4, <1>5, <1>6, <1>8, <1>9, <1>11

\* A publication shows its event to the queues, or misses it; what it overtakes
\* is missed.
LEMMA PublishStep ==
  ASSUME LiveEventsTypeOK, IdsMatch, OvertakenAreMissed, NEW e \in Emitters, Publish(e)
  PROVE  /\ emit[e].pc = "saved" /\ emit[e].id \in Ids /\ emit'[e].id = emit[e].id
         /\ emit'[e].pc \in {"sent", "unsent"}
         /\ \A f \in Emitters \ {e} : emit'[f] = emit[f]
         /\ Saved' = Saved /\ missed \subseteq missed'
         /\ Published' = (IF emit'[e].pc = "sent" THEN Published \union {emit[e].id}
                          ELSE Published)
         /\ emit'[e].pc = "unsent" => emit[e].id \in missed' /\ stream' = stream
         /\ emit'[e].pc = "sent" =>
              stream' = IF stream.pc = "closed" THEN stream
                        ELSE [stream EXCEPT !.queue = Put(@, emit[e].id)]
         /\ Promised' \subseteq Promised
         /\ IdsMatch' /\ OvertakenAreMissed'
<1>1. /\ emit[e].pc = "saved" /\ emit'[e].pc \in {"sent", "unsent"}
      /\ emit'[e].id = emit[e].id
      /\ \A f \in Emitters \ {e} : emit'[f] = emit[f]
      /\ UNCHANGED <<wiped, evplan>>
  BY DEF LiveEventsTypeOK, Publish, Moves
<1>2. emit'[e].pc = "sent" =>
        /\ missed' = missed \union Overtakes(emit[e].id, {"inserted", "saved"})
        /\ stream' = IF stream.pc = "closed" THEN stream
                     ELSE [stream EXCEPT !.queue = Put(@, emit[e].id)]
  BY DEF LiveEventsTypeOK, Publish, Moves
<1>3. emit'[e].pc = "unsent" => missed' = missed \union {emit[e].id} /\ stream' = stream
  BY DEF LiveEventsTypeOK, Publish, Moves
<1>4. emit[e].id \in Ids
  BY <1>1 DEF LiveEventsTypeOK, IdsMatch
<1>5. Saved' = Saved
  BY <1>1 DEF Saved
<1>6. Published' = IF emit'[e].pc = "sent" THEN Published \union {emit[e].id} ELSE Published
  <2>1. emit[e].pc # "sent"
    BY <1>1
  <2>2. QED
    BY <1>1, <2>1 DEF Published
<1>7. missed \subseteq missed'
  BY <1>1, <1>2, <1>3
<1>8. ASSUME NEW f \in Emitters \ {e}, emit[f].pc \in {"inserted", "saved"},
             emit'[e].pc = "sent", emit[f].id < emit[e].id
      PROVE  emit[f].id \in missed'
  <2>1. emit[f].id \in Ids
    BY <1>8 DEF LiveEventsTypeOK, IdsMatch
  <2>2. emit[f].id \in 1 .. (emit[e].id - 1)
    BY <1>4, <1>8, <2>1, IdsAreNumbers
  <2>3. QED
    BY <1>2, <1>8, <2>2 DEF Overtakes
<1>9. Begun' = Begun
  BY <1>1 DEF Begun
<1>10. IdsMatch'
  BY <1>1, <1>9 DEF IdsMatch
<1>11. OvertakenAreMissed'
  <2> SUFFICES ASSUME NEW f \in Emitters, emit'[f].pc \in {"inserted", "saved"}
               PROVE  /\ emit'[f].pc = "inserted" =>
                           \A n \in Saved' : emit'[f].id < n => emit'[f].id \in missed'
                      /\ \A n \in Published' : emit'[f].id < n => emit'[f].id \in missed'
    BY DEF OvertakenAreMissed
  <2>1. f # e /\ emit'[f] = emit[f]
    BY <1>1
  <2>2. emit[f].pc = "inserted" => \A n \in Saved : emit[f].id < n => emit[f].id \in missed
    BY DEF OvertakenAreMissed
  <2>3. \A n \in Published : emit[f].id < n => emit[f].id \in missed
    BY <2>1 DEF OvertakenAreMissed
  <2>4. QED
    BY <1>5, <1>6, <1>7, <1>8, <2>1, <2>2, <2>3
<1>12. \A n : Wanted(n)' <=> Wanted(n)
  <2>1. \A w \in evplan.wanted : w \in Emitters
    BY WantedAreEmitters
  <2>2. \A w \in evplan.wanted : emit'[w].id = emit[w].id
    BY <1>1, <2>1
  <2>3. QED
    BY <1>1, <2>2 DEF Wanted
<1>13. Promised' \subseteq Promised
  BY <1>1, <1>5, <1>7, <1>12 DEF Promised
<1>14. QED
  BY <1>1, <1>2, <1>3, <1>4, <1>5, <1>6, <1>7, <1>10, <1>11, <1>13

-------------------------------------------------------------------------------
(* The variables keep their types. *)

\* A queue stays a queue of bounded length.
LEMMA PutIs ==
  ASSUME LiveEventsTypeOK, NEW n \in Ids
  PROVE  /\ Put(stream.queue, n) \in Seq(Ids \union {Overflow})
         /\ Len(Put(stream.queue, n)) <= QueueSize
         /\ \/ /\ Put(stream.queue, n) = Append(stream.queue, n)
               /\ Len(Put(stream.queue, n)) = Len(stream.queue) + 1
               /\ \A i \in 1 .. Len(stream.queue) : Put(stream.queue, n)[i] = stream.queue[i]
               /\ Put(stream.queue, n)[Len(stream.queue) + 1] = n
            \/ /\ Len(Put(stream.queue, n)) \in 1..2
               /\ Put(stream.queue, n)[1] = Overflow
               /\ Len(Put(stream.queue, n)) = 2 => Put(stream.queue, n)[2] = n
<1> DEFINE q == stream.queue
<1>1. q \in Seq(Ids \union {Overflow}) /\ Len(q) \in Nat /\ Len(q) <= QueueSize
  BY LenProperties DEF LiveEventsTypeOK, Streams
<1>2. QueueSize \in Nat /\ QueueSize >= 1
  BY EventsAssumption
<1>3. CASE Len(q) < QueueSize
  <2>1. Put(q, n) = Append(q, n)
    BY <1>3 DEF Put
  <2>2. /\ Append(q, n) \in Seq(Ids \union {Overflow})
        /\ Len(Append(q, n)) = Len(q) + 1
        /\ \A i \in 1 .. Len(q) : Append(q, n)[i] = q[i]
        /\ Append(q, n)[Len(q) + 1] = n
    BY <1>1, AppendProperties
  <2>3. QED
    BY <1>1, <1>2, <1>3, <2>1, <2>2
<1>4. CASE ~(Len(q) < QueueSize)
  <2>1. Put(q, n) = IF QueueSize = 1 THEN <<Overflow>> ELSE <<Overflow, n>>
    BY <1>4 DEF Put
  <2>2. CASE QueueSize = 1
    <3>1. Put(q, n) = <<Overflow>> /\ Len(<<Overflow>>) = 1 /\ <<Overflow>>[1] = Overflow
          /\ <<Overflow>> \in Seq(Ids \union {Overflow})
      BY <2>1, <2>2
    <3>2. QED
      BY <2>2, <3>1
  <2>3. CASE QueueSize # 1
    <3>1. Put(q, n) = <<Overflow, n>> /\ Len(<<Overflow, n>>) = 2
          /\ <<Overflow, n>>[1] = Overflow /\ <<Overflow, n>>[2] = n
          /\ <<Overflow, n>> \in Seq(Ids \union {Overflow})
      BY <2>1, <2>3
    <3>2. QED
      BY <1>2, <2>3, <3>1
  <2>4. QED
    BY <2>2, <2>3
<1>5. QED
  BY <1>3, <1>4

\* What a page, an answer and the queue are.
LEMMA TypesAre ==
  ASSUME LiveEventsTypeOK
  PROVE  /\ evplan.presses \in Nat /\ evplan.drops \in Nat
         /\ DOMAIN asked = 0 .. evplan.presses
         /\ \A k \in DOMAIN asked : asked[k].rows \in SUBSET Ids
         /\ stream.rows \in SUBSET Ids /\ view.shown \in SUBSET Ids
         /\ {stream.cursor, view.cursor, view.oldest} \subseteq Nat
         /\ stream.queue \in Seq(Ids \union {Overflow})
         /\ Len(stream.queue) \in Nat /\ DOMAIN stream.queue = 1 .. Len(stream.queue)
<1>1. evplan \in [before : Emitters \union {0}, wanted : SUBSET Emitters,
                 drops : Nat, presses : Nat, fail : BOOLEAN]
  BY EventsAssumption DEF LiveEventsTypeOK
<1>2. stream.queue \in Seq(Ids \union {Overflow})
  BY DEF LiveEventsTypeOK, Streams
<1>3. Len(stream.queue) \in Nat /\ DOMAIN stream.queue = 1 .. Len(stream.queue)
  BY <1>2, LenProperties
<1>4. \A k \in DOMAIN asked : asked[k].rows \in SUBSET Ids
  BY DEF LiveEventsTypeOK, Answers
<1>5. {stream.cursor, view.cursor, view.oldest} \subseteq Nat
  BY IdsAreNumbers DEF LiveEventsTypeOK, Streams, Views
<1>6. QED
  BY <1>1, <1>2, <1>3, <1>4, <1>5 DEF LiveEventsTypeOK, Streams, Views

\* No step stores what a variable cannot hold.
LEMMA TypeKept ==
  ASSUME LiveEventsTypeOK, IdsMatch, RowsAreSaved, OvertakenAreMissed, PageIsNext,
         [LiveEventsNext]_eventVars
  PROVE  LiveEventsTypeOK'
<1> USE DEF LiveEventsTypeOK, Streams, Views
<1>1. ASSUME NEW e \in Emitters, Insert(e)
      PROVE  LiveEventsTypeOK'
  BY <1>1, InsertStep DEF Insert, Pcs, Begun
<1>2. ASSUME NEW e \in Emitters, Commit(e)
      PROVE  LiveEventsTypeOK'
  <2>1. Overtakes(emit[e].id, {"inserted"}) \subseteq Ids
    BY DEF Overtakes, IdsMatch
  <2>2. QED
    BY <1>2, <2>1, CommitStep DEF Commit, Moves, Pcs
<1>3. ASSUME NEW e \in Emitters, Publish(e)
      PROVE  LiveEventsTypeOK'
  <2>1. Overtakes(emit[e].id, {"inserted", "saved"}) \subseteq Ids
    BY DEF Overtakes, IdsMatch
  <2>2. emit[e].id \in Ids
    BY <1>3, PublishStep
  <2>3. Put(stream.queue, emit[e].id) \in Seq(Ids \union {Overflow})
        /\ Len(Put(stream.queue, emit[e].id)) <= QueueSize
    BY <2>2, PutIs
  <2>4. /\ stream' \in Streams
        /\ Len(stream'.queue) <= QueueSize
    <3>1. CASE stream' = stream
      BY <3>1
    <3>2. CASE stream' = [stream EXCEPT !.queue = Put(@, emit[e].id)]
      BY <2>3, <3>2
    <3>3. QED
      BY <1>3, <3>1, <3>2 DEF Publish
  <2>5. emit' \in [Emitters -> [pc : Pcs, id : Ids \union {0}]]
    BY <1>3 DEF Publish, Moves, Pcs
  <2>6. missed' \subseteq Ids
    BY <1>3, <2>1, <2>2 DEF Publish
  <2>7. QED
    BY <1>3, <2>4, <2>5, <2>6 DEF Publish
<1>4. CASE Subscribe \/ Break
  <2>1. <<>> \in Seq(Ids \union {Overflow}) /\ Len(<<>>) = 0 /\ QueueSize \in Nat
    BY EmptySeq, EventsAssumption
  <2>2. Closed \in Streams
    BY <2>1 DEF Closed
  <2>3. Closed.queue = <<>>
    BY DEF Closed
  <2>4. CASE Subscribe
    <3>1. /\ stream' = [Closed EXCEPT !.pc = "read", !.cursor = view.cursor]
          /\ view' = [view EXCEPT !.pc = "open"]
          /\ UNCHANGED <<emit, asked, missed, wiped, left, evplan>>
      BY <2>4 DEF Subscribe
    <3>2. stream'.queue = <<>>
      BY <2>3, <3>1, <2>2
    <3>3. stream' \in Streams /\ Len(stream'.queue) <= QueueSize
      <4>1. view.cursor \in Ids \union {0}
        OBVIOUS
      <4>2. stream' \in Streams
        BY <2>2, <3>1, <4>1
      <4>3. Len(stream'.queue) <= QueueSize
        BY <2>1, <3>2
      <4>4. QED
        BY <4>2, <4>3
    <3>4. view' \in Views
      BY <3>1
    <3>5. QED
      BY <3>1, <3>3, <3>4
  <2>5. CASE Break
    <3>1. left' \in [drops : 0 .. evplan.drops, presses : 0 .. evplan.presses]
      BY <2>5, TypesAre DEF Break
    <3>2. stream' \in Streams /\ Len(stream'.queue) <= QueueSize
      BY <2>1, <2>2, <2>3, <2>5 DEF Break
    <3>3. view' \in Views
      BY <2>5 DEF Break
    <3>4. QED
      BY <2>5, <3>1, <3>2, <3>3 DEF Break
  <2>6. QED
    BY <1>4, <2>4, <2>5
<1>5. CASE ReadPage
  <2>1. RowsAfter(stream.cursor) \subseteq Ids
    BY SavedAreIds DEF RowsAfter
  <2>2. PICK rows \in SUBSET RowsAfter(stream.cursor) :
          stream' = [stream EXCEPT !.rows = rows, !.more = Cardinality(rows) = Page,
                                   !.pc = IF rows = {} THEN "live" ELSE "yield"]
    BY <1>5 DEF ReadPage
  <2>3. (Cardinality(rows) = Page) \in BOOLEAN
    OBVIOUS
  <2>4. QED
    BY <1>5, <2>1, <2>2, <2>3 DEF ReadPage
<1>6. CASE Yield
  <2> DEFINE n == Oldest(stream.rows)
  <2>1. n \in Ids
    BY <1>6, OldestIs DEF Yield, PageIsNext
  <2>2. Larger(stream.cursor, n) \in Ids \union {0} /\ Larger(view.cursor, n) \in Ids \union {0}
    BY <2>1 DEF Larger
  <2>3. QED
    BY <1>6, <2>1, <2>2 DEF Yield, Receive
<1>7. CASE Take
  <2> DEFINE n == Head(stream.queue)
             rest == [stream EXCEPT !.queue = Tail(@)]
  <2>1. n \in Ids \union {Overflow} /\ Tail(stream.queue) \in Seq(Ids \union {Overflow})
        /\ Len(Tail(stream.queue)) = Len(stream.queue) - 1 /\ Len(stream.queue) \in Nat
    BY <1>7, HeadTailProperties, LenProperties DEF Take
  <2>2. Len(Tail(stream.queue)) <= QueueSize /\ QueueSize \in Nat
    BY <2>1, EventsAssumption
  <2>3. CASE n # Overflow /\ stream' = [rest EXCEPT !.cursor = n]
    <3>1. Larger(view.cursor, n) \in Ids \union {0}
      BY <2>1, <2>3 DEF Larger
    <3>2. view' \in Views
      <4>1. n \in Ids
        BY <2>1, <2>3
      <4>2. CASE Receive(n)
        <5>1. CASE view.oldest = 0
          BY <3>1, <4>1, <4>2, <5>1 DEF Receive
        <5>2. CASE view.oldest # 0
          BY <3>1, <4>1, <4>2, <5>2 DEF Receive
        <5>3. QED
          BY <5>1, <5>2
      <4>3. CASE view' = view
        BY <4>3
      <4>4. QED
        BY <1>7, <4>2, <4>3 DEF Take
    <3>3. stream' \in Streams /\ Len(stream'.queue) <= QueueSize
      BY <2>1, <2>2, <2>3
    <3>4. QED
      BY <1>7, <3>2, <3>3 DEF Take
  <2>4. CASE view' = view /\ (stream' = rest \/ stream' = [rest EXCEPT !.pc = "read"])
    BY <1>7, <2>1, <2>2, <2>4 DEF Take
  <2>5. QED
    BY <1>7, <2>3, <2>4 DEF Take
<1>8. ASSUME NEW k \in 0 .. evplan.presses, NEW of \in {"load", "older"}, NEW before, Ask(k, of, before),
             left' = left \/ Press
      PROVE  LiveEventsTypeOK'
  <2>1. RowsBefore(before) \subseteq Ids
    BY SavedAreIds DEF RowsBefore
  <2>2. PICK rows \in SUBSET RowsBefore(before) :
          asked' = [asked EXCEPT ![k] = [of |-> of, rows |-> rows]]
    BY <1>8 DEF Ask
  <2>3. left' \in [drops : 0 .. evplan.drops, presses : 0 .. evplan.presses]
    BY <1>8, TypesAre DEF Press
  <2>4. QED
    BY <1>8, <2>1, <2>2, <2>3 DEF Ask, Answers
<1>9. CASE FirstLoad \/ Reload \/ LoadOlder
  <2>1. 0 \in 0 .. evplan.presses /\ left.presses \in 0 .. evplan.presses
    BY TypesAre
  <2>2. QED
    BY <1>8, <1>9, <2>1 DEF FirstLoad, Reload, LoadOlder
<1>10. ASSUME NEW k \in DOMAIN asked, TakeLoad(k)
       PROVE  LiveEventsTypeOK'
  <2>1. asked[k].rows \in SUBSET Ids
    BY TypesAre
  <2>2. /\ Newest(asked[k].rows) \in Ids \union {0} /\ Oldest(asked[k].rows) \in Ids \union {0}
        /\ Skipped(k) \subseteq Ids
    BY <2>1, OldestIs, NewestIs, SavedAreIds DEF Skipped
  <2>3. asked' \in [0 .. evplan.presses -> Answers]
    BY <1>10 DEF TakeLoad, Answered, NoAnswer, Answers
  <2>4. view' \in Views
    <3>1. Opened(k) \in {"load", "idle", "open"}
      BY DEF Opened
    <3>2. CASE view' = [view EXCEPT !.pc = Opened(k), !.loading = FALSE]
      BY <3>1, <3>2
    <3>3. CASE view' = [pc |-> Opened(k), shown |-> asked[k].rows,
                        cursor |-> Newest(asked[k].rows), oldest |-> Oldest(asked[k].rows),
                        loading |-> FALSE]
      BY <2>1, <2>2, <3>1, <3>3
    <3>4. QED
      BY <1>10, <3>2, <3>3 DEF TakeLoad
  <2>5. wiped' \subseteq Ids
    BY <1>10, <2>1, <2>2 DEF TakeLoad
  <2>6. QED
    BY <1>10, <2>3, <2>4, <2>5 DEF TakeLoad
<1>11. ASSUME NEW k \in DOMAIN asked, TakeOlder(k)
       PROVE  LiveEventsTypeOK'
  <2>1. asked[k].rows \in SUBSET Ids
    BY TypesAre
  <2>2. Oldest(asked[k].rows) \in Ids \union {0}
    BY <2>1, OldestIs
  <2>3. asked' \in [0 .. evplan.presses -> Answers]
    BY <1>11 DEF TakeOlder, Answered, NoAnswer, Answers
  <2>4. view' \in Views
    <3>1. CASE view' = [view EXCEPT !.loading = FALSE]
      BY <3>1
    <3>2. ASSUME NEW old \in Ids \union {0},
                 view' = [view EXCEPT !.shown = @ \union asked[k].rows, !.loading = FALSE,
                                      !.oldest = old]
          PROVE  view' \in Views
      BY <2>1, <3>2
    <3>3. QED
      BY <1>11, <2>2, <3>1, <3>2 DEF TakeOlder
  <2>5. QED
    BY <1>11, <2>3, <2>4 DEF TakeOlder
<1>12. CASE Clear
  <2>1. left' \in [drops : 0 .. evplan.drops, presses : 0 .. evplan.presses]
    BY <1>12, TypesAre, SMTT(30) DEF Clear, Press
  <2>2. view' \in Views
    BY <1>12 DEF Clear
  <2>3. QED
    BY <1>12, <2>1, <2>2 DEF Clear
<1>13. CASE UNCHANGED eventVars
  BY <1>13 DEF eventVars
<1>14. QED
  BY <1>1, <1>2, <1>3, <1>4, <1>5, <1>6, <1>7, <1>9, <1>10, <1>11, <1>12, <1>13
     DEF LiveEventsNext, LiveEventsProgress, LiveEventsEvent

-------------------------------------------------------------------------------
(* The events move. *)

\* What the rows, the streams, the panel and the answers must keep.
Joined ==
  /\ RowsAreSaved /\ QueueIsSorted /\ StreamGoesOn /\ PageIsNext /\ CursorsMeet
  /\ LoadsJoin /\ OlderJoin /\ NothingIsSkipped

LEMMA InvParts ==
  LiveEventsInv <=> LiveEventsTypeOK /\ IdsMatch /\ OvertakenAreMissed /\ OpensOnce /\ Joined
BY DEF LiveEventsInv, Joined

\* An event on its way to the table disturbs nothing.
LEMMA InsertKeeps ==
  ASSUME LiveEventsInv, NEW e \in Emitters, Insert(e)
  PROVE  IdsMatch' /\ OvertakenAreMissed' /\ Joined'
<1> USE InvParts
<1>1. /\ \A f \in Emitters \ {e} : emit'[f] = emit[f]
      /\ emit'[e].pc = "inserted" /\ emit[e].pc = "off" /\ emit'[e].id \in Ids
      /\ \A f \in Emitters \ {e} : emit[f].id < emit'[e].id
      /\ Saved' = Saved /\ Published' = Published /\ Promised' = Promised /\ IdsMatch'
  BY InsertStep
<1>2. UNCHANGED <<stream, view, asked, missed, wiped>>
  BY DEF Insert
<1>3. \A n \in Saved : n < emit'[e].id /\ n \in Nat
  <2>1. \A n \in Saved : \E f \in Emitters \ {e} : n = emit[f].id
    BY <1>1 DEF Saved
  <2>2. QED
    BY <1>1, <2>1, SavedAreIds
<1>4. OvertakenAreMissed'
  <2> SUFFICES ASSUME NEW f \in Emitters
               PROVE  /\ emit'[f].pc = "inserted" =>
                           \A n \in Saved : emit'[f].id < n => emit'[f].id \in missed
                      /\ emit'[f].pc \in {"inserted", "saved"} =>
                           \A n \in Published : emit'[f].id < n => emit'[f].id \in missed
    BY <1>1, <1>2 DEF OvertakenAreMissed
  <2>1. CASE f # e
    BY <1>1, <2>1 DEF OvertakenAreMissed
  <2>2. CASE f = e
    BY <1>1, <1>3, <2>2, SavedAreIds, IdsAreNumbers
  <2>3. QED
    BY <2>1, <2>2
<1>5. \A n \in Promised : Coming(n) => Coming(n)'
  BY <1>1, <1>2 DEF Coming
<1>6. StreamGoesOn'
  BY <1>1, <1>2, <1>5 DEF StreamGoesOn, Joined
<1>7. RowsAreSaved' /\ QueueIsSorted' /\ PageIsNext'
  BY <1>1, <1>2 DEF RowsAreSaved, QueueIsSorted, PageIsNext, Joined
<1>8. CursorsMeet' /\ LoadsJoin' /\ OlderJoin' /\ NothingIsSkipped'
  BY <1>1, <1>2 DEF CursorsMeet, Between, LoadsJoin, Passed, OlderJoin, NothingIsSkipped, Joined
<1>9. QED
  BY <1>1, <1>4, <1>6, <1>7, <1>8 DEF Joined

\* A row that is committed is newer than all that the panel, the streams and the
\* answers have come to; or it is overtaken.
LEMMA CommitKeeps ==
  ASSUME LiveEventsInv, NEW e \in Emitters, Commit(e)
  PROVE  IdsMatch' /\ OvertakenAreMissed' /\ Joined'
<1> USE InvParts
<1> DEFINE c == emit[e].id
<1>1. /\ emit[e].pc = "inserted" /\ c \in Ids /\ c \notin Saved
      /\ emit'[e].id = emit[e].id
      /\ \A f \in Emitters \ {e} : emit'[f] = emit[f]
      /\ Saved \subseteq Saved' /\ Saved' \subseteq Saved \union {c}
      /\ Published' = Published /\ missed \subseteq missed'
      /\ \A n \in Promised' : n \in Promised \/ (n = c /\ \A m \in Saved : m < n)
      /\ IdsMatch' /\ OvertakenAreMissed'
  BY CommitStep
<1>2. UNCHANGED <<stream, view, asked>>
  BY DEF Commit
<1>3. RowsAreSaved'
  BY <1>1, <1>2 DEF RowsAreSaved, Joined
<1>4. QueueIsSorted'
  BY <1>1, <1>2 DEF QueueIsSorted, Joined
<1>5. \A n \in Promised' : n \in Promised \/ Coming(n)'
  <2> SUFFICES ASSUME NEW n \in Promised', n \notin Promised
               PROVE  Coming(n)'
    OBVIOUS
  <2>1. n = c /\ n \in Saved'
    BY <1>1 DEF Promised
  <2>2. emit'[e].pc = "saved"
    BY <1>1, <2>1, CommitStep
  <2>3. QED
    BY <1>1, <2>1, <2>2 DEF Coming
<1>6. \A n \in Promised : Coming(n) => Coming(n)'
  BY <1>1, <1>2 DEF Coming
<1>7. StreamGoesOn'
  BY <1>2, <1>5, <1>6 DEF StreamGoesOn, Joined
<1>8. \A n \in Promised' : n \in Promised
        \/ /\ n \in Nat /\ n # 0 /\ ~(n <= view.cursor) /\ ~(n <= stream.cursor)
           /\ \A m \in stream.rows : ~(n < m)
           /\ \A k \in DOMAIN asked : ~(n <= Newest(asked[k].rows))
  <2> SUFFICES ASSUME NEW n \in Promised', n \notin Promised
               PROVE  /\ n \in Nat /\ n # 0 /\ ~(n <= view.cursor) /\ ~(n <= stream.cursor)
                      /\ \A m \in stream.rows : ~(n < m)
                      /\ \A k \in DOMAIN asked : ~(n <= Newest(asked[k].rows))
    OBVIOUS
  <2>1. n = c /\ n \in Nat /\ n # 0 /\ \A m \in Saved \union {0} : m \in Nat /\ m < n
    BY <1>1, SavedAreIds, IdsAreNumbers
  <2>2. /\ {view.cursor, stream.cursor} \subseteq Saved \union {0}
        /\ stream.rows \subseteq Saved
        /\ \A k \in DOMAIN asked : asked[k].rows \subseteq Saved
    BY DEF RowsAreSaved, Joined
  <2>3. \A k \in DOMAIN asked : Newest(asked[k].rows) \in Saved \union {0}
    BY <2>2, TypesAre, NewestIs
  <2>4. QED
    BY <2>1, <2>2, <2>3
<1>9. PageIsNext'
  BY <1>2, <1>8 DEF PageIsNext, Joined
<1>10. CursorsMeet'
  BY <1>2, <1>8 DEF CursorsMeet, Between, Joined
<1>11. LoadsJoin'
  BY <1>2, <1>8 DEF LoadsJoin, Passed, Joined
<1>12. OlderJoin' /\ NothingIsSkipped'
  BY <1>2, <1>8 DEF OlderJoin, NothingIsSkipped, Joined
<1>13. QED
  BY <1>1, <1>3, <1>4, <1>7, <1>9, <1>10, <1>11, <1>12 DEF Joined

\* A published event is in the queue, or the queue is marked; those it overtakes
\* are missed.
LEMMA PublishKeeps ==
  ASSUME LiveEventsInv, NEW e \in Emitters, Publish(e)
  PROVE  IdsMatch' /\ OvertakenAreMissed' /\ Joined'
<1> USE InvParts
<1> DEFINE c == emit[e].id
           q == stream.queue
<1>1. /\ emit[e].pc = "saved" /\ c \in Ids /\ emit'[e].id = emit[e].id
      /\ \A f \in Emitters \ {e} : emit'[f] = emit[f]
      /\ Saved' = Saved /\ missed \subseteq missed'
      /\ Published \subseteq Published' /\ Promised' \subseteq Promised
      /\ IdsMatch' /\ OvertakenAreMissed'
  BY PublishStep
<1>2. UNCHANGED <<view, asked>>
  BY DEF Publish
<1>3. \/ stream' = stream /\ (stream.pc = "closed" \/ c \in missed')
      \/ /\ stream.pc # "closed" /\ stream' = [stream EXCEPT !.queue = Put(q, c)]
         /\ c \in Published'
  BY PublishStep
<1>4. /\ stream'.pc = stream.pc /\ stream'.cursor = stream.cursor
      /\ stream'.rows = stream.rows /\ stream'.more = stream.more
  BY <1>3 DEF LiveEventsTypeOK, Streams
<1>5. stream' = [stream EXCEPT !.queue = Put(q, c)] => stream'.queue = Put(q, c)
  BY DEF LiveEventsTypeOK, Streams
<1>6. q \in Seq(Ids \union {Overflow}) /\ Len(q) \in Nat /\ DOMAIN q = 1 .. Len(q)
  BY TypesAre
<1>7. ASSUME stream' = stream, stream.pc = "closed" \/ c \in missed'
      PROVE  RowsAreSaved' /\ QueueIsSorted' /\ StreamGoesOn'
  <2>1. RowsAreSaved' /\ QueueIsSorted'
    BY <1>1, <1>2, <1>7 DEF RowsAreSaved, QueueIsSorted, Joined
  <2>2. stream.pc # "closed" => c \notin Promised'
    BY <1>7 DEF Promised
  <2>3. \A n \in Promised' : Coming(n) /\ stream.pc # "closed" => Coming(n)'
    BY <1>1, <1>7, <2>2 DEF Coming
  <2>4. StreamGoesOn'
    BY <1>1, <1>2, <1>7, <2>3 DEF StreamGoesOn, Joined
  <2>5. QED
    BY <2>1, <2>4
<1>8. ASSUME stream.pc # "closed", c \in Published',
             stream' = [stream EXCEPT !.queue = Put(q, c)]
      PROVE  RowsAreSaved' /\ QueueIsSorted' /\ StreamGoesOn'
  <2> DEFINE r == Put(q, c)
             Holds ==
               /\ \A i \in 1 .. Len(r) : r[i] \in Published' \union {Overflow}
               /\ \A i, j \in 1 .. Len(r) :
                    i < j => r[j] # Overflow /\ (r[j] < r[i] => r[j] \in missed')
               /\ \A n : (\E i \in 1 .. Len(q) : q[i] \in {n, Overflow}) \/ n = c
                         => \E i \in 1 .. Len(r) : r[i] \in {n, Overflow}
  <2>1. /\ r \in Seq(Ids \union {Overflow}) /\ Len(r) \in Nat /\ DOMAIN r = 1 .. Len(r)
    BY <1>1, PutIs, LenProperties
  <2>2. stream'.queue = r /\ c \in Published' /\ stream.pc # "closed"
    BY <1>5, <1>8
  <2>3. ASSUME Len(r) = Len(q) + 1, \A i \in 1 .. Len(q) : r[i] = q[i], r[Len(q) + 1] = c
        PROVE  Holds
    <3>1. \A i \in 1 .. Len(r) : i \in 1 .. Len(q) \/ i = Len(q) + 1
      BY <1>6, <2>1, <2>3
    <3>2. \A i \in 1 .. Len(r) : r[i] \in Published' \union {Overflow}
      BY <1>1, <1>6, <2>2, <2>3, <3>1 DEF RowsAreSaved, Joined
    <3>3. \A i \in 1 .. Len(q) : c < q[i] => c \in missed'
      <4> SUFFICES ASSUME NEW i \in 1 .. Len(q), c < q[i]
                   PROVE  c \in missed'
        OBVIOUS
      <4>1. q[i] \in Published \union {Overflow}
        BY <1>6 DEF RowsAreSaved, Joined
      <4>2. q[i] # Overflow
        BY <1>1, IdsAreNumbers DEF Overflow
      <4>3. QED
        BY <1>1, <4>1, <4>2 DEF OvertakenAreMissed
    <3>4. ASSUME NEW i \in 1 .. Len(r), NEW j \in 1 .. Len(r), i < j
          PROVE  r[j] # Overflow /\ (r[j] < r[i] => r[j] \in missed')
      <4>1. i \in 1 .. Len(q) /\ r[i] = q[i]
        BY <1>6, <2>1, <2>3, <3>1, <3>4
      <4>2. CASE j \in 1 .. Len(q)
        BY <1>1, <1>6, <2>3, <3>4, <4>1, <4>2 DEF QueueIsSorted, Joined
      <4>3. CASE j = Len(q) + 1
        BY <1>1, <2>3, <3>3, <4>1, <4>3, IdsAreNumbers DEF Overflow
      <4>4. QED
        BY <3>1, <4>2, <4>3
    <3>5. \A n : (\E i \in 1 .. Len(q) : q[i] \in {n, Overflow}) \/ n = c
                 => \E i \in 1 .. Len(r) : r[i] \in {n, Overflow}
      BY <1>6, <2>1, <2>3
    <3>6. QED
      BY <3>2, <3>4, <3>5
  <2>4. ASSUME Len(r) \in 1..2, r[1] = Overflow, Len(r) = 2 => r[2] = c
        PROVE  Holds
    <3>1. \A i \in 1 .. Len(r) : i = 1 \/ (i = 2 /\ Len(r) = 2)
      <4>1. CASE Len(r) = 1
        BY <4>1
      <4>2. CASE Len(r) = 2
        BY <4>2
      <4>3. QED
        BY <2>4, <4>1, <4>2
    <3>2. \A i \in 1 .. Len(r) : r[i] \in Published' \union {Overflow}
      BY <2>2, <2>4, <3>1
    <3>3. ASSUME NEW i \in 1 .. Len(r), NEW j \in 1 .. Len(r), i < j
          PROVE  r[j] # Overflow /\ (r[j] < r[i] => r[j] \in missed')
      <4>1. i = 1 /\ j = 2 /\ r[i] = Overflow /\ r[j] = c
        BY <2>4, <3>1, <3>3
      <4>2. QED
        BY <1>1, <4>1, IdsAreNumbers DEF Overflow
    <3>4. \E i \in 1 .. Len(r) : r[i] = Overflow
      BY <2>4
    <3>5. QED
      BY <3>2, <3>3, <3>4
  <2>5. Holds
    <3>1. r = Put(stream.queue, emit[e].id) /\ emit[e].id \in Ids
      BY <1>1
    <3>2. \/ /\ Len(r) = Len(q) + 1
             /\ \A i \in 1 .. Len(q) : r[i] = q[i]
             /\ r[Len(q) + 1] = c
          \/ /\ Len(r) \in 1..2 /\ r[1] = Overflow
             /\ Len(r) = 2 => r[2] = c
      BY <3>1, PutIs
    <3> HIDE DEF Holds, r
    <3>3. QED
      BY <2>3, <2>4, <3>2
  <2> HIDE DEF r
  <2>6. RowsAreSaved'
    BY <1>1, <1>2, <1>4, <2>1, <2>2, <2>5 DEF RowsAreSaved, Joined
  <2>7. QueueIsSorted'
    BY <2>1, <2>2, <2>5 DEF QueueIsSorted
  <2>8. \A n \in Promised' : Coming(n) => Coming(n)'
    <3> SUFFICES ASSUME NEW n \in Promised', Coming(n)
                 PROVE  Coming(n)'
      OBVIOUS
    <3>1. CASE \E f \in Emitters : emit[f].id = n /\ emit[f].pc = "saved"
      <4>1. PICK f \in Emitters : emit[f].id = n /\ emit[f].pc = "saved"
        BY <3>1
      <4>2. CASE f = e
        BY <2>1, <2>2, <2>5, <4>1, <4>2 DEF Coming
      <4>3. CASE f # e
        BY <1>1, <4>1, <4>3 DEF Coming
      <4>4. QED
        BY <4>2, <4>3
    <3>2. CASE \E i \in DOMAIN q : q[i] \in {n, Overflow}
      BY <1>6, <2>1, <2>2, <2>5, <3>2 DEF Coming
    <3>3. CASE stream.pc = "read" \/ (stream.pc = "yield" /\ (stream.more \/ n \in stream.rows))
      BY <1>4, <3>3 DEF Coming
    <3>4. QED
      BY <3>1, <3>2, <3>3 DEF Coming
  <2>9. StreamGoesOn'
    BY <1>1, <1>2, <1>4, <2>8 DEF StreamGoesOn, Joined
  <2>10. QED
    BY <2>6, <2>7, <2>9
<1>9. PageIsNext'
  BY <1>1, <1>4 DEF PageIsNext, Joined
<1>10. CursorsMeet' /\ LoadsJoin'
  BY <1>1, <1>2, <1>4 DEF CursorsMeet, Between, LoadsJoin, Passed, Joined
<1>11. OlderJoin' /\ NothingIsSkipped'
  BY <1>1, <1>2, <1>4 DEF OlderJoin, NothingIsSkipped, Joined
<1>12. QED
  BY <1>1, <1>3, <1>7, <1>8, <1>9, <1>10, <1>11 DEF Joined

-------------------------------------------------------------------------------
(* The stream. *)

\* A stream that opens starts where the panel is.
LEMMA SubscribeKeeps ==
  ASSUME LiveEventsInv, Subscribe
  PROVE  IdsMatch' /\ OvertakenAreMissed' /\ Joined'
<1> USE InvParts
<1>1. /\ IdsMatch' /\ OvertakenAreMissed' /\ Saved' = Saved /\ Published' = Published
      /\ Promised' = Promised
  <2>1. UNCHANGED <<emit, missed, wiped, evplan>>
    BY DEF Subscribe
  <2>2. QED
    BY <2>1, EventsRest DEF Promised
<1>2. /\ stream'.pc = "read" /\ stream'.cursor = view.cursor /\ stream'.rows = {}
      /\ stream'.queue = <<>>
  BY DEF Subscribe, Closed
<1>3. /\ view'.pc = "open" /\ view'.cursor = view.cursor /\ view'.shown = view.shown
      /\ view'.oldest = view.oldest /\ asked' = asked
  BY DEF Subscribe, LiveEventsTypeOK, Views
<1>4. DOMAIN stream'.queue = {}
  BY <1>2
<1>5. RowsAreSaved' /\ QueueIsSorted'
  BY <1>1, <1>2, <1>3, <1>4 DEF RowsAreSaved, QueueIsSorted, Joined
<1>6. StreamGoesOn' /\ PageIsNext'
  BY <1>2, <1>3 DEF StreamGoesOn, PageIsNext, Coming
<1>7. view.cursor \in Nat /\ \A n \in Promised : n \in Nat
  BY TypesAre, SavedAreIds
<1>8. CursorsMeet'
  BY <1>1, <1>2, <1>3, <1>7 DEF CursorsMeet, Between
<1>9. LoadsJoin' /\ OlderJoin' /\ NothingIsSkipped'
  BY <1>1, <1>2, <1>3 DEF LoadsJoin, Passed, OlderJoin, NothingIsSkipped, Joined
<1>10. QED
  BY <1>1, <1>5, <1>6, <1>8, <1>9 DEF Joined

\* A stream that breaks leaves the panel where it is.
LEMMA BreakKeeps ==
  ASSUME LiveEventsInv, Break
  PROVE  IdsMatch' /\ OvertakenAreMissed' /\ Joined'
<1> USE InvParts
<1>1. /\ IdsMatch' /\ OvertakenAreMissed' /\ Saved' = Saved /\ Published' = Published
      /\ Promised' = Promised
  <2>1. UNCHANGED <<emit, missed, wiped, evplan>>
    BY DEF Break
  <2>2. QED
    BY <2>1, EventsRest DEF Promised
<1>2. /\ stream'.pc = "closed" /\ stream'.cursor = 0 /\ stream'.rows = {}
      /\ stream'.queue = <<>>
  BY DEF Break, Closed
<1>3. /\ view'.pc = "idle" /\ view'.cursor = view.cursor /\ view'.shown = view.shown
      /\ view'.oldest = view.oldest /\ asked' = asked
  BY DEF Break, LiveEventsTypeOK, Views
<1>4. DOMAIN stream'.queue = {}
  BY <1>2
<1>5. RowsAreSaved' /\ QueueIsSorted'
  BY <1>1, <1>2, <1>3, <1>4 DEF RowsAreSaved, QueueIsSorted, Joined
<1>6. StreamGoesOn' /\ PageIsNext' /\ CursorsMeet'
  BY <1>2, <1>3 DEF StreamGoesOn, PageIsNext, CursorsMeet
<1>7. LoadsJoin' /\ OlderJoin' /\ NothingIsSkipped'
  BY <1>1, <1>2, <1>3 DEF LoadsJoin, Passed, OlderJoin, NothingIsSkipped, Joined
<1>8. QED
  BY <1>1, <1>5, <1>6, <1>7 DEF Joined

\* A page from one end is empty only if there is nothing, and leaves out only
\* what is beyond its other end.
LEMMA PagesAre ==
  ASSUME NEW rows, NEW set, NEW k \in Nat \ {0}, PageOf(rows, set, k)
  PROVE  /\ rows \subseteq set
         /\ rows = {} => set = {}
         /\ Cardinality(rows) # k => rows = set
<1>1. Cardinality({}) = 0
  BY FS_EmptySet
<1>2. QED
  BY <1>1 DEF PageOf

\* A page is what comes next; with a short one the stream has caught up.
LEMMA ReadKeeps ==
  ASSUME LiveEventsInv, ReadPage
  PROVE  IdsMatch' /\ OvertakenAreMissed' /\ Joined'
<1> USE InvParts
<1>1. /\ IdsMatch' /\ OvertakenAreMissed' /\ Saved' = Saved /\ Published' = Published
      /\ Promised' = Promised /\ view' = view /\ asked' = asked
  <2>1. UNCHANGED <<emit, missed, wiped, evplan, view, asked>>
    BY DEF ReadPage
  <2>2. QED
    BY <2>1, EventsRest DEF Promised
<1> DEFINE set == RowsAfter(stream.cursor)
<1>2. PICK rows \in SUBSET set :
        /\ FirstOf(rows, set, Page)
        /\ stream' = [stream EXCEPT !.rows = rows, !.more = Cardinality(rows) = Page,
                                    !.pc = IF rows = {} THEN "live" ELSE "yield"]
  BY DEF ReadPage
<1>3. /\ stream'.cursor = stream.cursor /\ stream'.queue = stream.queue /\ stream'.rows = rows
      /\ stream'.pc = (IF rows = {} THEN "live" ELSE "yield")
      /\ stream'.more <=> Cardinality(rows) = Page
      /\ stream.pc = "read"
  BY <1>2 DEF LiveEventsTypeOK, Streams, ReadPage
<1>4. /\ rows = {} => set = {}
      /\ Cardinality(rows) # Page => rows = set
      /\ \A n \in rows, m \in set \ rows : n < m
  <2>1. Page \in Nat \ {0}
    BY EventsAssumption
  <2>2. QED
    BY <1>2, <2>1, PagesAre DEF FirstOf
<1>5. \A n \in Promised : stream.cursor < n => n \in set
  BY TypesAre, SavedAreIds DEF RowsAfter, Promised
<1>6. \A n \in set : n \in Saved /\ n \in Nat /\ stream.cursor < n
  BY TypesAre, SavedAreIds DEF RowsAfter
<1>7. RowsAreSaved' /\ QueueIsSorted'
  <2>1. rows \subseteq Saved
    BY <1>6
  <2>2. UNCHANGED missed
    BY DEF ReadPage
  <2>3. RowsAreSaved'
    BY <1>1, <1>3, <2>1 DEF RowsAreSaved, Joined
  <2>4. QueueIsSorted'
    BY <1>3, <2>2 DEF QueueIsSorted, Joined
  <2>5. QED
    BY <2>3, <2>4
<1>8. StreamGoesOn'
  <2>1. ASSUME NEW n \in Promised, stream.cursor < n
        PROVE  Coming(n)'
    <3>1. n \in set /\ rows # {}
      BY <1>4, <1>5, <2>1
    <3>2. Cardinality(rows) = Page \/ n \in rows
      BY <1>4, <3>1
    <3>3. QED
      BY <1>3, <3>1, <3>2 DEF Coming
  <2>2. QED
    BY <1>1, <1>3, <2>1 DEF StreamGoesOn, Joined
<1>9. PageIsNext'
  <2>1. ASSUME NEW n \in rows, NEW m \in Promised, stream.cursor < m, m < n
        PROVE  m \in rows
    <3>1. m \in set /\ m \in Nat /\ n \in Nat
      BY <1>2, <1>5, <1>6, <2>1
    <3>2. QED
      BY <1>4, <2>1, <3>1
  <2>2. QED
    BY <1>1, <1>2, <1>3, <1>6, <2>1 DEF PageIsNext
<1>10. CursorsMeet' /\ LoadsJoin' /\ OlderJoin' /\ NothingIsSkipped'
  BY <1>1, <1>3 DEF CursorsMeet, Between, LoadsJoin, Passed, OlderJoin, NothingIsSkipped, Joined
<1>11. QED
  BY <1>1, <1>7, <1>8, <1>9, <1>10 DEF Joined

\* The stream moves on to an event, with nothing promised before it, and shows
\* it, unless that is not wanted: the panel has no gap.
LEMMA StreamMoves ==
  ASSUME LiveEventsInv, stream.pc # "closed", NEW n \in Saved, stream.cursor < n,
         \A m \in Promised : m <= stream.cursor \/ n <= m,
         stream'.pc # "closed", stream'.cursor = n, asked' = asked, Promised' = Promised,
         Receive(n) \/ (n \notin Promised /\ view' = view)
  PROVE  /\ CursorsMeet' /\ LoadsJoin' /\ OlderJoin' /\ NothingIsSkipped'
         /\ view'.shown \subseteq view.shown \union {n} /\ view'.pc = view.pc
         /\ {view'.cursor, view'.oldest} \subseteq {view.cursor, view.oldest, n}
<1> USE InvParts
<1>1. /\ n \in Nat /\ n # 0 /\ {stream.cursor, view.cursor, view.oldest} \subseteq Nat
      /\ \A m \in Promised : m \in Nat /\ m # 0
  BY TypesAre, SavedAreIds
<1>2. /\ view.shown \subseteq view'.shown /\ view'.shown \subseteq view.shown \union {n}
      /\ n \in Promised => n \in view'.shown
      /\ \/ view'.cursor = view.cursor /\ (n \in Promised => n <= view.cursor)
         \/ view'.cursor = n /\ view.cursor < n
      /\ \/ view'.oldest = view.oldest
         \/ view'.oldest = n /\ view.oldest = 0
      /\ view'.pc = view.pc
      /\ view'.cursor = view.cursor \/ view'.cursor = n
  <2>1. CASE Receive(n)
    <3>1. /\ view'.shown = view.shown \union {n} /\ view'.cursor = Larger(view.cursor, n)
          /\ view'.oldest = (IF view.oldest = 0 THEN n ELSE view.oldest) /\ view'.pc = view.pc
      BY <2>1 DEF Receive, LiveEventsTypeOK, Views
    <3>2. \/ Larger(view.cursor, n) = view.cursor /\ n <= view.cursor
          \/ Larger(view.cursor, n) = n /\ view.cursor < n
      BY <1>1 DEF Larger
    <3>3. QED
      BY <3>1, <3>2
  <2>2. CASE n \notin Promised /\ view' = view
    BY <2>2
  <2>3. QED
    BY <2>1, <2>2
<1>3. \A m \in Promised : \/ Between(m, stream.cursor, view.cursor)
                          \/ Between(m, view.cursor, stream.cursor)
                          => m \in view.shown
  BY DEF CursorsMeet, Joined
<1>4. \A m \in Promised : view.cursor < m /\ m <= n => m \in view'.shown
  <2> SUFFICES ASSUME NEW m \in Promised, view.cursor < m, m <= n
               PROVE  m \in view'.shown
    OBVIOUS
  <2>1. CASE m <= stream.cursor
    BY <1>1, <1>2, <1>3, <2>1 DEF Between
  <2>2. CASE n <= m
    <3>1. m = n
      BY <1>1, <2>2
    <3>2. QED
      BY <1>2, <3>1
  <2>3. QED
    BY <2>1, <2>2
<1>5. \A m \in Promised : n <= m /\ m <= view.cursor => m \in view.shown
  BY <1>1, <1>3 DEF Between
<1>6. CursorsMeet'
  <2> SUFFICES ASSUME NEW m \in Promised,
                      Between(m, n, view'.cursor) \/ Between(m, view'.cursor, n)
               PROVE  m \in view'.shown
    BY DEF CursorsMeet, Between
  <2>1. CASE Between(m, n, view'.cursor)
    BY <1>1, <1>2, <1>5, <2>1 DEF Between
  <2>2. CASE Between(m, view'.cursor, n)
    BY <1>1, <1>2, <1>4, <2>2 DEF Between
  <2>3. QED
    BY <2>1, <2>2
<1>7. LoadsJoin'
  <2> SUFFICES ASSUME NEW k \in DOMAIN asked, asked[k].of = "load"
               PROVE  /\ \A m \in Promised :
                           (Oldest(asked[k].rows) <= m /\ m <= Newest(asked[k].rows))
                           => m \in asked[k].rows
                      /\ \A m \in Promised :
                           (Newest(asked[k].rows) < m /\ (m <= view'.cursor \/ m <= n))
                           => m \in view'.shown
    BY DEF LoadsJoin, Passed
  <2>1. \A m \in Promised : (Newest(asked[k].rows) < m /\ m <= view.cursor) => m \in view.shown
    BY DEF LoadsJoin, Passed, Joined
  <2>2. \A m \in Promised : (Oldest(asked[k].rows) <= m /\ m <= Newest(asked[k].rows))
                            => m \in asked[k].rows
    BY DEF LoadsJoin, Joined
  <2>3. \A m \in Promised : (m <= view'.cursor \/ m <= n) => m <= view.cursor \/ (view.cursor < m /\ m <= n)
    BY <1>1, <1>2
  <2>4. QED
    BY <1>2, <1>4, <2>1, <2>2, <2>3
<1>8. OlderJoin'
  <2> SUFFICES ASSUME NEW k \in DOMAIN asked, asked[k].of = "older", asked[k].rows # {},
                      NEW m \in Promised, Oldest(asked[k].rows) <= m, m <= view'.cursor
               PROVE  m \in asked[k].rows \union view'.shown
    BY DEF OlderJoin
  <2>1. CASE m <= view.cursor
    BY <1>2, <2>1 DEF OlderJoin, Joined
  <2>2. CASE view.cursor < m
    BY <1>1, <1>2, <1>4, <2>2
  <2>3. QED
    BY <1>1, <2>1, <2>2
<1>9. NothingIsSkipped'
  <2> SUFFICES ASSUME view'.oldest # 0, NEW m \in Promised, view'.oldest <= m, m <= view'.cursor
               PROVE  m \in view'.shown
    BY DEF NothingIsSkipped
  <2>1. CASE view.cursor < m
    BY <1>1, <1>2, <1>4, <2>1
  <2>2. CASE m <= view.cursor
    <3>1. CASE view'.oldest = view.oldest
      BY <1>2, <2>2, <3>1 DEF NothingIsSkipped, Joined
    <3>2. CASE view'.oldest = n
      BY <1>1, <1>2, <1>5, <2>2, <3>2
    <3>3. QED
      BY <1>2, <3>1, <3>2
  <2>3. QED
    BY <1>1, <2>1, <2>2
<1>10. QED
  BY <1>2, <1>6, <1>7, <1>8, <1>9

\* The next event of a page goes out; what is left of the page comes after it.
LEMMA YieldKeeps ==
  ASSUME LiveEventsInv, Yield
  PROVE  /\ IdsMatch' /\ OvertakenAreMissed' /\ Joined'
         /\ stream'.cursor > stream.cursor
<1> USE InvParts
<1>1. /\ IdsMatch' /\ OvertakenAreMissed' /\ Saved' = Saved /\ Published' = Published
      /\ Promised' = Promised /\ UNCHANGED <<emit, missed, asked>>
  <2>1. UNCHANGED <<emit, missed, wiped, evplan, asked>>
    BY DEF Yield
  <2>2. QED
    BY <2>1, EventsRest DEF Promised
<1> DEFINE n == Oldest(stream.rows)
<1>2. /\ stream.pc = "yield" /\ Receive(n)
      /\ stream'.cursor = Larger(stream.cursor, n) /\ stream'.rows = stream.rows \ {n}
      /\ stream'.queue = stream.queue /\ stream'.more = stream.more
      /\ stream'.pc = (IF stream.rows # {n} THEN "yield"
                       ELSE IF stream.more THEN "read" ELSE "live")
  BY DEF Yield, LiveEventsTypeOK, Streams
<1>3. n \in stream.rows /\ \A m \in stream.rows : n <= m
  <2>1. stream.rows \in SUBSET Ids /\ stream.rows # {}
    BY <1>2, TypesAre DEF PageIsNext, Joined
  <2>2. QED
    BY <2>1, OldestIs
<1> HIDE DEF n
<1>4. /\ n \in Saved /\ n \in Nat /\ stream.cursor \in Nat /\ stream.cursor < n
      /\ \A m \in Promised : m \in Nat
      /\ \A m \in stream.rows : m \in Nat /\ m \in Saved
  BY <1>3, TypesAre, SavedAreIds DEF RowsAreSaved, PageIsNext, Joined
<1>5. stream'.cursor = n
  BY <1>2, <1>4 DEF Larger
<1>6. \A m \in Promised : m <= stream.cursor \/ n <= m
  BY <1>3, <1>4 DEF PageIsNext, Joined
<1>7. /\ CursorsMeet' /\ LoadsJoin' /\ OlderJoin' /\ NothingIsSkipped'
      /\ view'.shown \subseteq view.shown \union {n} /\ view'.pc = view.pc
      /\ {view'.cursor, view'.oldest} \subseteq {view.cursor, view.oldest, n}
  <2>1. stream.pc # "closed" /\ stream'.pc # "closed"
    BY <1>2
  <2>2. QED
    BY <1>1, <1>2, <1>4, <1>5, <1>6, <2>1, StreamMoves
<1>8. RowsAreSaved' /\ QueueIsSorted'
  BY <1>1, <1>2, <1>4, <1>5, <1>7 DEF RowsAreSaved, QueueIsSorted, Joined
<1>9. StreamGoesOn'
  <2>1. ASSUME NEW m \in Promised, n < m
        PROVE  Coming(m)'
    <3>1. stream.cursor < m /\ m # n /\ stream.pc # "closed"
      BY <1>2, <1>4, <2>1
    <3>2. Coming(m)
      BY <3>1 DEF StreamGoesOn, Joined
    <3>3. QED
      BY <1>1, <1>2, <3>1, <3>2 DEF Coming
  <2>2. QED
    BY <1>1, <1>2, <1>5, <1>7, <2>1 DEF StreamGoesOn, Joined
<1>10. PageIsNext'
  <2>1. \A m \in stream.rows \ {n} : n < m
    BY <1>3, <1>4
  <2>2. ASSUME NEW r \in stream.rows \ {n}, NEW m \in Promised, n < m, m < r
        PROVE  m \in stream.rows \ {n}
    BY <1>4, <2>2 DEF PageIsNext, Joined
  <2>3. (stream'.pc = "yield") <=> (stream.rows \ {n} # {})
    BY <1>2, <1>3
  <2>4. QED
    BY <1>1, <1>2, <1>5, <2>1, <2>2, <2>3 DEF PageIsNext
<1>11. QED
  BY <1>1, <1>4, <1>5, <1>7, <1>8, <1>9, <1>10 DEF Joined

\* What the queue gives is the mark, is old, or is next: what is promised before
\* it would be in the queue after it, and so have been overtaken.
LEMMA TakeKeeps ==
  ASSUME LiveEventsInv, Take
  PROVE  /\ IdsMatch' /\ OvertakenAreMissed' /\ Joined'
         /\ stream'.cursor = stream.cursor \/ stream'.cursor > stream.cursor
<1> USE InvParts
<1>1. /\ IdsMatch' /\ OvertakenAreMissed' /\ Saved' = Saved /\ Published' = Published
      /\ Promised' = Promised /\ UNCHANGED <<emit, missed, asked, evplan>>
  <2>1. UNCHANGED <<emit, missed, wiped, evplan, asked>>
    BY DEF Take
  <2>2. QED
    BY <2>1, EventsRest DEF Promised
<1> DEFINE q == stream.queue
           n == Head(q)
           t == Tail(q)
<1>2. /\ q \in Seq(Ids \union {Overflow}) /\ q # <<>> /\ stream.pc = "live"
      /\ DOMAIN q = 1 .. Len(q) /\ Len(q) \in Nat
  BY TypesAre DEF Take
<1>3. /\ n = q[1] /\ 1 \in DOMAIN q /\ Len(t) = Len(q) - 1 /\ DOMAIN t = 1 .. Len(t)
      /\ \A i \in DOMAIN t : i + 1 \in DOMAIN q /\ t[i] = q[i + 1]
      /\ \A i \in DOMAIN q : i = 1 \/ (i - 1 \in DOMAIN t /\ q[i] = t[i - 1])
  <2>1. /\ n \in Ids \union {Overflow} /\ n = q[1] /\ t \in Seq(Ids \union {Overflow})
        /\ Len(t) = Len(q) - 1 /\ \A i \in 1 .. Len(t) : t[i] = q[i + 1]
    BY <1>2, HeadTailProperties
  <2>2. DOMAIN t = 1 .. Len(t) /\ Len(t) \in Nat
    BY <2>1, LenProperties
  <2>3. QED
    BY <1>2, <2>1, <2>2
<1>4. /\ n \in Published \union {Overflow}
      /\ \A i \in DOMAIN t : t[i] \in Published \union {Overflow} /\ t[i] # Overflow
      /\ \A i \in DOMAIN t : t[i] < n => t[i] \in missed
      /\ \A i, j \in DOMAIN t : i < j => (t[j] < t[i] => t[j] \in missed)
  <2>1. n \in Published \union {Overflow}
    BY <1>3 DEF RowsAreSaved, Joined
  <2>2. \A i \in DOMAIN t : i + 1 \in DOMAIN q /\ 1 < i + 1
    BY <1>3
  <2>3. \A i \in DOMAIN t : t[i] \in Published \union {Overflow} /\ t[i] # Overflow
                            /\ (t[i] < n => t[i] \in missed)
    BY <1>3, <2>2 DEF RowsAreSaved, QueueIsSorted, Joined
  <2>4. \A i, j \in DOMAIN t : i < j => i + 1 < j + 1
    BY <1>3
  <2>5. \A i, j \in DOMAIN t : i < j => (t[j] < t[i] => t[j] \in missed)
    BY <1>3, <2>2, <2>4 DEF QueueIsSorted, Joined
  <2>6. QED
    BY <2>1, <2>3, <2>5
<1>5. stream.rows = {} /\ stream'.rows = {} /\ stream'.queue = t
      /\ (stream'.pc = "live" \/ stream'.pc = "read")
  <2>1. stream.rows = {}
    BY <1>2 DEF PageIsNext, Joined
  <2>2. QED
    BY <1>2, <2>1 DEF Take, LiveEventsTypeOK, Streams
<1>6. \/ n = Overflow /\ view' = view /\ stream'.pc = "read" /\ stream'.cursor = stream.cursor
      \/ n # Overflow /\ n <= stream.cursor /\ view' = view /\ stream'.cursor = stream.cursor
      \/ /\ n # Overflow /\ ~(n <= stream.cursor) /\ stream'.cursor = n
         /\ Receive(n) \/ (~Wanted(n) /\ view' = view)
  BY DEF Take, Old, LiveEventsTypeOK, Streams
<1> HIDE DEF n, q, t
<1>7. /\ n # Overflow => n \in Saved /\ n \in Nat
      /\ {stream.cursor, view.cursor} \subseteq Nat
      /\ \A m \in Promised : m \in Nat /\ m # 0 /\ m \in Saved
  BY <1>4, TypesAre, SavedAreIds
\* While it is live, the stream waits for the queue only.
<1>8. ASSUME NEW m \in Promised, stream.cursor < m, n # Overflow
      PROVE  \/ \E e \in Emitters : emit[e].id = m /\ emit[e].pc = "saved"
             \/ m = n
             \/ \E i \in DOMAIN t : t[i] = m
  <2>1. Coming(m)
    BY <1>2, <1>8 DEF StreamGoesOn, Joined
  <2>2. ASSUME NEW i \in DOMAIN q, q[i] \in {m, Overflow}
        PROVE  m = n \/ \E j \in DOMAIN t : t[j] = m
    <3>1. CASE i = 1
      BY <1>3, <1>8, <2>2, <3>1
    <3>2. CASE i # 1
      BY <1>3, <1>4, <2>2, <3>2
    <3>3. QED
      BY <3>1, <3>2
  <2>3. QED
    BY <1>2, <2>1, <2>2 DEF Coming, q
<1>9. ASSUME stream'.cursor = stream.cursor \/ n # Overflow, NEW m \in Promised,
             stream'.cursor < m, stream.cursor < m, m # n
      PROVE  Coming(m)'
  <2>1. CASE n = Overflow
    BY <1>6, <2>1 DEF Coming
  <2>2. CASE n # Overflow
    BY <1>1, <1>5, <1>8, <1>9, <2>2 DEF Coming
  <2>3. QED
    BY <2>1, <2>2
<1>10. QueueIsSorted' /\ PageIsNext'
  BY <1>1, <1>4, <1>5 DEF QueueIsSorted, PageIsNext
<1>11. CASE stream'.cursor = stream.cursor /\ view' = view /\ (n = Overflow \/ n <= stream.cursor)
  <2>1. RowsAreSaved'
    BY <1>1, <1>4, <1>5, <1>11 DEF RowsAreSaved, Joined
  <2>2. \A m \in Promised : stream.cursor < m => m # n
    BY <1>7, <1>11 DEF Overflow
  <2>3. StreamGoesOn'
    BY <1>1, <1>2, <1>5, <1>9, <1>11, <2>2 DEF StreamGoesOn, Joined
  <2>4. CursorsMeet' /\ LoadsJoin' /\ OlderJoin' /\ NothingIsSkipped'
    BY <1>1, <1>2, <1>5, <1>11
       DEF CursorsMeet, Between, LoadsJoin, Passed, OlderJoin, NothingIsSkipped, Joined
  <2>5. QED
    BY <1>1, <1>10, <1>11, <2>1, <2>3, <2>4 DEF Joined
<1>12. CASE /\ n # Overflow /\ ~(n <= stream.cursor) /\ stream'.cursor = n
            /\ Receive(n) \/ (~Wanted(n) /\ view' = view)
  <2>1. n \in Saved /\ n \in Nat /\ stream.cursor < n
    BY <1>7, <1>12
  <2>2. \A m \in Promised : m <= stream.cursor \/ n <= m
    <3> SUFFICES ASSUME NEW m \in Promised, stream.cursor < m, m < n
                 PROVE  FALSE
      BY <1>7, <2>1
    <3>1. m \notin missed
      BY DEF Promised
    <3>2. CASE \E e \in Emitters : emit[e].id = m /\ emit[e].pc = "saved"
      BY <1>4, <1>12, <3>1, <3>2 DEF OvertakenAreMissed
    <3>3. CASE \E i \in DOMAIN t : t[i] = m
      BY <1>4, <3>1, <3>3
    <3>4. CASE m = n
      BY <2>1, <3>4
    <3>5. QED
      BY <1>8, <1>12, <3>2, <3>3, <3>4
  <2>3. ~Wanted(n) => n \notin Promised
    BY DEF Promised
  <2>4. /\ CursorsMeet' /\ LoadsJoin' /\ OlderJoin' /\ NothingIsSkipped'
        /\ view'.shown \subseteq view.shown \union {n} /\ view'.pc = view.pc
        /\ {view'.cursor, view'.oldest} \subseteq {view.cursor, view.oldest, n}
    <3>1. stream.pc # "closed" /\ stream'.pc # "closed"
      BY <1>2, <1>5
    <3>2. QED
      BY <1>1, <1>12, <2>1, <2>2, <2>3, <3>1, StreamMoves
  <2>5. RowsAreSaved'
    BY <1>1, <1>4, <1>5, <1>12, <2>1, <2>4 DEF RowsAreSaved, Joined
  <2>6. StreamGoesOn'
    <3>1. \A m \in Promised : n < m => stream.cursor < m /\ m # n
      BY <1>7, <2>1
    <3>2. \A m \in Promised : n < m => Coming(m)'
      BY <1>9, <1>12, <3>1
    <3>3. QED
      BY <1>1, <1>2, <1>5, <1>12, <2>4, <3>2 DEF StreamGoesOn, Joined
  <2>7. QED
    BY <1>1, <1>10, <1>12, <2>1, <2>4, <2>5, <2>6 DEF Joined
<1>13. QED
  BY <1>6, <1>11, <1>12

-------------------------------------------------------------------------------
(* The panel. *)

\* What the panel does disturbs neither the events nor what a stream has ahead.
LEMMA PanelSteps ==
  ASSUME LiveEventsInv, UNCHANGED <<emit, stream, missed, evplan>>, wiped \subseteq wiped',
         (view'.pc = "open") <=> (view.pc = "open")
  PROVE  /\ IdsMatch' /\ OvertakenAreMissed' /\ Saved' = Saved /\ Published' = Published
         /\ Promised' = Promised \ wiped'
         /\ QueueIsSorted' /\ StreamGoesOn' /\ PageIsNext'
<1> USE InvParts
<1>1. /\ IdsMatch' /\ OvertakenAreMissed' /\ Saved' = Saved /\ Published' = Published
      /\ Promised' = Promised \ wiped'
  BY EventsRest
<1>2. QueueIsSorted' /\ PageIsNext'
  BY <1>1 DEF QueueIsSorted, PageIsNext, Joined
<1>3. \A n : Coming(n)' <=> Coming(n)
  BY DEF Coming
<1>4. StreamGoesOn'
  BY <1>1, <1>3 DEF StreamGoesOn, Joined
<1>5. QED
  BY <1>1, <1>2, <1>4

\* The last rows that match leave out only older ones.
LEMMA LastRowsAre ==
  ASSUME LiveEventsTypeOK, IdsMatch, NEW before \in Nat, NEW rows,
         LastOf(rows, RowsBefore(before), HistoryPage)
  PROVE  /\ rows \subseteq Saved /\ rows \in SUBSET Ids
         /\ \A n \in Promised : (before = 0 \/ n < before) /\ n \notin rows
                                => rows # {} /\ n < Oldest(rows)
         /\ rows # {} => Oldest(rows) \in rows /\ Oldest(rows) <= Newest(rows)
<1>1. HistoryPage \in Nat \ {0}
  BY EventsAssumption
<1>2. /\ rows \subseteq RowsBefore(before)
      /\ rows = {} => RowsBefore(before) = {}
      /\ \A n \in rows, m \in RowsBefore(before) \ rows : n > m
  BY <1>1, PagesAre DEF LastOf
<1>3. RowsBefore(before) \subseteq Saved /\ rows \subseteq Saved /\ rows \in SUBSET Ids
  <2>1. RowsBefore(before) \subseteq Saved
    BY DEF RowsBefore
  <2>2. Saved \subseteq Ids
    BY SavedAreIds
  <2>3. rows \subseteq RowsBefore(before)
    BY <1>2
  <2>4. QED
    BY <2>1, <2>2, <2>3
<1>4. rows # {} => Oldest(rows) \in rows /\ Oldest(rows) <= Newest(rows)
  BY <1>3, OldestIs, NewestIs
<1>5. ASSUME NEW n \in Promised, before = 0 \/ n < before, n \notin rows
      PROVE  rows # {} /\ n < Oldest(rows)
  <2>1. n \in RowsBefore(before)
    BY <1>5 DEF RowsBefore, Promised
  <2>2. rows # {}
    BY <1>2, <2>1, <1>5
  <2>3. Oldest(rows) > n /\ Oldest(rows) \in Nat /\ n \in Nat
    <3>1. Oldest(rows) > n
      BY <1>2, <1>4, <1>5, <2>1, <2>2
    <3>2. Oldest(rows) \in Nat /\ n \in Nat
      BY <1>3, <1>4, <2>1, <2>2, IdsAreNumbers, SavedAreIds
    <3>3. QED
      BY <3>1, <3>2
  <2>4. QED
    BY <2>2, <2>3
<1>6. QED
  BY <1>2, <1>3, <1>4, <1>5

\* An answer of the history has nothing missing in its range.
LEMMA AskKeeps ==
  ASSUME LiveEventsInv, FirstLoad \/ Reload \/ LoadOlder
  PROVE  IdsMatch' /\ OvertakenAreMissed' /\ OpensOnce' /\ Joined'
<1> USE InvParts
<1>1. PICK k \in DOMAIN asked, of \in {"load", "older"}, before \in Nat :
        /\ Ask(k, of, before)
        /\ of = "load" => before = 0
        /\ of = "older" => before = view.oldest /\ view.oldest # 0
        /\ k = 0 => view.pc = "load"
  <2>1. DOMAIN asked = 0 .. evplan.presses /\ evplan.presses \in Nat /\ view.oldest \in Nat
        /\ left.presses \in 0 .. evplan.presses
    BY TypesAre DEF LiveEventsTypeOK
  <2>2. CASE FirstLoad
    BY <2>1, <2>2 DEF FirstLoad
  <2>3. CASE Reload
    BY <2>1, <2>3 DEF Reload, Press
  <2>4. CASE LoadOlder
    BY <2>1, <2>4 DEF LoadOlder, Press
  <2>5. QED
    BY <2>2, <2>3, <2>4
<1>2. UNCHANGED <<emit, stream, missed, wiped, evplan>> /\ view' = [view EXCEPT !.loading = TRUE]
  BY <1>1 DEF Ask
<1>3. /\ view'.pc = view.pc /\ view'.cursor = view.cursor /\ view'.shown = view.shown
      /\ view'.oldest = view.oldest
  BY <1>2 DEF LiveEventsTypeOK, Views
<1>4. /\ IdsMatch' /\ OvertakenAreMissed' /\ Saved' = Saved /\ Published' = Published
      /\ Promised' = Promised /\ QueueIsSorted' /\ StreamGoesOn' /\ PageIsNext'
  BY <1>2, <1>3, PanelSteps DEF Promised
<1>5. PICK rows : /\ LastOf(rows, RowsBefore(before), HistoryPage)
                  /\ asked' = [asked EXCEPT ![k] = [of |-> of, rows |-> rows]]
  BY <1>1 DEF Ask
<1>6. /\ DOMAIN asked' = DOMAIN asked
      /\ asked'[k].of = of /\ asked'[k].rows = rows
      /\ \A j \in DOMAIN asked \ {k} : asked'[j] = asked[j]
  BY <1>5
<1>7. /\ rows \subseteq Saved /\ rows \in SUBSET Ids
      /\ \A n \in Promised : (before = 0 \/ n < before) /\ n \notin rows
                             => rows # {} /\ n < Oldest(rows)
      /\ rows # {} => Oldest(rows) \in rows /\ Oldest(rows) <= Newest(rows)
  BY <1>5, LastRowsAre
<1>8. /\ \A n \in Promised : n \in Nat
      /\ {view.cursor, view.oldest} \subseteq Nat
      /\ Oldest(rows) \in Nat /\ Newest(rows) \in Nat
      /\ \A n \in rows : n <= Newest(rows)
  <2>1. /\ Oldest(rows) \in Ids \union {0} /\ Newest(rows) \in Ids \union {0}
        /\ \A n \in rows : n <= Newest(rows)
    BY <1>7, OldestIs, NewestIs
  <2>2. \A n \in Promised : n \in Nat
    BY SavedAreIds
  <2>3. QED
    BY <2>1, <2>2, TypesAre, IdsAreNumbers
<1>9. RowsAreSaved'
  BY <1>2, <1>3, <1>4, <1>6, <1>7 DEF RowsAreSaved, Joined
<1>10. CursorsMeet' /\ NothingIsSkipped'
  BY <1>2, <1>3, <1>4 DEF CursorsMeet, Between, NothingIsSkipped, Joined
<1>11. LoadsJoin'
  <2>1. ASSUME of = "load", NEW n \in Promised
        PROVE  /\ (Oldest(rows) <= n /\ n <= Newest(rows)) => n \in rows
               /\ ~(Newest(rows) < n)
    BY <1>1, <1>7, <1>8, <2>1
  <2>2. \A n : Passed(n)' <=> Passed(n)
    BY <1>2, <1>3 DEF Passed
  <2> SUFFICES ASSUME NEW j \in DOMAIN asked, asked'[j].of = "load"
               PROVE  /\ \A n \in Promised :
                           (Oldest(asked'[j].rows) <= n /\ n <= Newest(asked'[j].rows))
                           => n \in asked'[j].rows
                      /\ \A n \in Promised :
                           (Newest(asked'[j].rows) < n /\ Passed(n)) => n \in view.shown
    BY <1>3, <1>4, <1>6, <2>2 DEF LoadsJoin
  <2>3. CASE j = k
    BY <1>6, <2>1, <2>3
  <2>4. CASE j # k
    BY <1>6, <2>4 DEF LoadsJoin, Joined
  <2>5. QED
    BY <2>3, <2>4
<1>12. OlderJoin'
  <2>1. ASSUME of = "older", rows # {}, NEW n \in Promised, Oldest(rows) <= n, n <= view.cursor
        PROVE  n \in rows \union view.shown
    <3>1. CASE n < view.oldest
      BY <1>1, <1>7, <1>8, <2>1, <3>1
    <3>2. CASE view.oldest <= n
      BY <1>1, <2>1, <3>2 DEF NothingIsSkipped, Joined
    <3>3. QED
      BY <1>8, <3>1, <3>2
  <2> SUFFICES ASSUME NEW j \in DOMAIN asked, asked'[j].of = "older", asked'[j].rows # {},
                      NEW n \in Promised, Oldest(asked'[j].rows) <= n, n <= view.cursor
               PROVE  n \in asked'[j].rows \union view.shown
    BY <1>3, <1>4, <1>6 DEF OlderJoin
  <2>2. CASE j = k
    BY <1>6, <2>1, <2>2
  <2>3. CASE j # k
    BY <1>6, <2>3 DEF OlderJoin, Joined
  <2>4. QED
    BY <2>2, <2>3
<1>13. OpensOnce'
  <2>1. 0 \in DOMAIN asked
    BY TypesAre
  <2>2. QED
    BY <1>1, <1>3, <1>6, <2>1 DEF OpensOnce
<1>14. QED
  BY <1>4, <1>9, <1>10, <1>11, <1>12, <1>13 DEF Joined

\* The answer of a load takes the place of the panel.  What it leaves out in the
\* new range, because something is still behind, it has skipped.
LEMMA TakeLoadKeeps ==
  ASSUME LiveEventsInv, NEW k \in DOMAIN asked, TakeLoad(k)
  PROVE  IdsMatch' /\ OvertakenAreMissed' /\ OpensOnce' /\ Joined'
<1> USE InvParts
<1> DEFINE rows == asked[k].rows
           old == Oldest(rows)
           new == Newest(rows)
<1>1. /\ asked[k].of = "load" /\ asked' = [asked EXCEPT ![k] = NoAnswer]
      /\ UNCHANGED <<emit, stream, missed, evplan>> /\ wiped \subseteq wiped'
      /\ view'.pc = Opened(k)
  <2>1. /\ Answered(k, "load") /\ UNCHANGED <<emit, stream, missed, evplan>>
        /\ wiped \subseteq wiped'
    BY DEF TakeLoad
  <2>2. view'.pc = Opened(k)
    <3>1. CASE view' = [view EXCEPT !.pc = Opened(k), !.loading = FALSE]
      BY <3>1 DEF LiveEventsTypeOK, Views
    <3>2. CASE view' = [pc |-> Opened(k), shown |-> rows, cursor |-> new, oldest |-> old,
                        loading |-> FALSE]
      BY <3>2
    <3>3. QED
      BY <3>1, <3>2 DEF TakeLoad
  <2>3. QED
    BY <2>1, <2>2 DEF Answered
<1>2. /\ asked[k] # NoAnswer /\ DOMAIN asked' = DOMAIN asked /\ asked'[k].of = "none"
      /\ asked'[k].rows = {} /\ \A j \in DOMAIN asked \ {k} : asked'[j] = asked[j]
  BY <1>1 DEF NoAnswer
<1>3. (view'.pc = "open") <=> (view.pc = "open")
  BY <1>1, <1>2 DEF OpensOnce, Opened
<1>4. /\ IdsMatch' /\ OvertakenAreMissed' /\ Saved' = Saved /\ Published' = Published
      /\ Promised' = Promised \ wiped' /\ QueueIsSorted' /\ StreamGoesOn' /\ PageIsNext'
  BY <1>1, <1>3, PanelSteps
<1>5. OpensOnce'
  <2>1. 0 \in DOMAIN asked
    BY TypesAre
  <2>2. CASE k = 0
    BY <1>1, <2>1, <2>2 DEF OpensOnce
  <2>3. CASE k # 0
    BY <1>1, <1>2, <2>1, <2>3 DEF OpensOnce, Opened
  <2>4. QED
    BY <2>2, <2>3
<1>6. /\ rows \subseteq Saved /\ rows \in SUBSET Ids
      /\ {old, new} \subseteq rows \union {0} /\ {old, new} \subseteq Nat
      /\ \A n \in rows : old <= n /\ n <= new
      /\ \A n \in Promised : n \in Nat /\ n # 0 /\ n \in Saved
      /\ {view.cursor, view.oldest, stream.cursor} \subseteq Nat
  <2>1. rows \in SUBSET Ids /\ rows \subseteq Saved
    BY TypesAre DEF RowsAreSaved, Joined
  <2>2. /\ {old, new} \subseteq rows \union {0}
        /\ \A n \in rows : old <= n /\ n <= new
        /\ {old, new} \subseteq Ids \union {0}
    BY <2>1, OldestIs, NewestIs
  <2>3. {old, new} \subseteq Nat
    BY <2>2, IdsAreNumbers
  <2>4. QED
    BY <2>1, <2>2, <2>3, TypesAre, SavedAreIds
<1> HIDE DEF old, new, rows
<1>7. CASE /\ view' = [view EXCEPT !.pc = Opened(k), !.loading = FALSE]
           /\ wiped' = wiped
  <2>1. /\ view'.cursor = view.cursor /\ view'.shown = view.shown /\ view'.oldest = view.oldest
    BY <1>7 DEF LiveEventsTypeOK, Views
  <2>2. Promised' = Promised
    BY <1>4, <1>7 DEF Promised
  <2>3. RowsAreSaved'
    BY <1>1, <1>2, <1>4, <2>1 DEF RowsAreSaved, Joined
  <2>4. CursorsMeet' /\ NothingIsSkipped'
    BY <1>1, <2>1, <2>2 DEF CursorsMeet, Between, NothingIsSkipped, Joined
  <2>5. LoadsJoin' /\ OlderJoin'
    BY <1>1, <1>2, <2>1, <2>2 DEF LoadsJoin, Passed, OlderJoin, Joined
  <2>6. QED
    BY <1>4, <1>5, <2>3, <2>4, <2>5 DEF Joined
<1>8. CASE /\ view' = [pc |-> Opened(k), shown |-> rows, cursor |-> new,
                       oldest |-> old, loading |-> FALSE]
           /\ wiped' = wiped \union (view.shown \ rows) \union Skipped(k)
  <2>1. view'.cursor = new /\ view'.shown = rows /\ view'.oldest = old
    BY <1>8
  <2>2. \A n \in Promised' : /\ n \in Promised /\ n \notin Skipped(k)
                             /\ n \in view.shown => n \in rows
    BY <1>4, <1>8
  \* Nothing is missing in the range of the answer, and nothing newer has passed.
  <2>3. \A n \in Promised : old <= n /\ n <= new => n \in rows
    BY <1>1 DEF LoadsJoin, Joined, old, new, rows
  <2>4. \A n \in Promised' : new < n => ~Passed(n)
    <3> SUFFICES ASSUME NEW n \in Promised', new < n, Passed(n)
                 PROVE  FALSE
      OBVIOUS
    <3>1. n \in view.shown
      BY <1>1, <2>2 DEF LoadsJoin, Joined, new, rows
    <3>2. n \in rows /\ n <= new /\ n \in Nat
      BY <1>6, <2>2, <3>1
    <3>3. QED
      BY <1>6, <3>2
  <2>5. ASSUME NEW n \in Promised', n < old,
               view.pc = "open" \/ \E j \in DOMAIN asked \ {k} : asked[j].of # "none"
        PROVE  n <= view.cursor
    <3>1. n \in Saved /\ n \in Nat /\ view.cursor \in Nat
      BY <1>6, <2>2
    <3>2. ~(view.cursor < n)
      BY <2>2, <2>5, <3>1 DEF Skipped, old, rows
    <3>3. QED
      BY <3>1, <3>2
  <2>6. RowsAreSaved'
    BY <1>1, <1>2, <1>4, <1>6, <2>1 DEF RowsAreSaved, Joined
  <2>7. NothingIsSkipped'
    BY <2>1, <2>2, <2>3 DEF NothingIsSkipped
  <2>8. CursorsMeet'
    <3> SUFFICES ASSUME stream.pc # "closed", NEW n \in Promised',
                        Between(n, stream.cursor, new) \/ Between(n, new, stream.cursor)
                 PROVE  n \in rows
      BY <1>1, <2>1 DEF CursorsMeet, Between
    <3>1. view.pc = "open" /\ n \in Promised /\ n \in Nat
      BY <1>6, <2>2 DEF StreamGoesOn, Joined
    <3>2. CASE Between(n, stream.cursor, new)
      <4>1. CASE old <= n
        BY <2>3, <3>1, <3>2, <4>1 DEF Between
      <4>2. CASE n < old
        <5>1. n <= view.cursor
          BY <2>5, <3>1, <4>2
        <5>2. n \in view.shown
          BY <3>1, <3>2, <5>1 DEF Between, CursorsMeet, Joined
        <5>3. QED
          BY <2>2, <5>2
      <4>3. QED
        BY <1>6, <3>1, <4>1, <4>2
    <3>3. CASE Between(n, new, stream.cursor)
      BY <2>4, <3>3 DEF Between, Passed
    <3>4. QED
      BY <3>2, <3>3
  \* What another answer is held against is shown, or skipped.
  <2>9. ASSUME NEW j \in DOMAIN asked \ {k}, asked[j].of # "none", NEW n \in Promised',
               n <= new \/ (stream.pc # "closed" /\ n <= stream.cursor)
        PROVE  n \in rows \/ (n <= view.cursor /\ n < old)
    <3>1. n \in Promised /\ n \in Nat
      BY <1>6, <2>2
    <3>2. n <= new
      BY <1>6, <2>4, <2>9, <3>1 DEF Passed
    <3>3. CASE old <= n
      BY <2>3, <3>1, <3>2, <3>3
    <3>4. CASE n < old
      BY <2>5, <2>9, <3>4
    <3>5. QED
      BY <1>6, <3>1, <3>3, <3>4
  <2>10. LoadsJoin'
    <3> SUFFICES ASSUME NEW j \in DOMAIN asked \ {k}, asked[j].of = "load"
                 PROVE  /\ \A n \in Promised' :
                             (Oldest(asked[j].rows) <= n /\ n <= Newest(asked[j].rows))
                             => n \in asked[j].rows
                        /\ \A n \in Promised' :
                             /\ Newest(asked[j].rows) < n
                             /\ n <= new \/ (stream.pc # "closed" /\ n <= stream.cursor)
                             => n \in rows
      BY <1>1, <1>2, <2>1 DEF LoadsJoin, Passed
    <3>1. \A n \in Promised' :
            (Oldest(asked[j].rows) <= n /\ n <= Newest(asked[j].rows)) => n \in asked[j].rows
      BY <2>2 DEF LoadsJoin, Joined
    <3>2. ASSUME NEW n \in Promised', Newest(asked[j].rows) < n,
                 n <= new \/ (stream.pc # "closed" /\ n <= stream.cursor)
          PROVE  n \in rows
      <4>1. n \in rows \/ n <= view.cursor
        BY <2>9, <3>2
      <4>2. n <= view.cursor => n \in view.shown
        BY <2>2, <3>2 DEF LoadsJoin, Passed, Joined
      <4>3. QED
        BY <2>2, <4>1, <4>2
    <3>3. QED
      BY <3>1, <3>2
  <2>11. OlderJoin'
    <3> SUFFICES ASSUME NEW j \in DOMAIN asked \ {k}, asked[j].of = "older", asked[j].rows # {},
                        NEW n \in Promised', Oldest(asked[j].rows) <= n, n <= new
                 PROVE  n \in asked[j].rows \union rows
      BY <1>1, <1>2, <2>1 DEF OlderJoin
    <3>1. n \in rows \/ n <= view.cursor
      BY <2>9
    <3>2. n <= view.cursor => n \in asked[j].rows \union view.shown
      BY <2>2 DEF OlderJoin, Joined
    <3>3. QED
      BY <2>2, <3>1, <3>2
  <2>12. QED
    BY <1>4, <1>5, <2>6, <2>7, <2>8, <2>10, <2>11 DEF Joined
<1>9. QED
  <2>1. \/ /\ view' = [view EXCEPT !.pc = Opened(k), !.loading = FALSE]
           /\ wiped' = wiped
        \/ /\ view' = [pc |-> Opened(k), shown |-> rows, cursor |-> new,
                       oldest |-> old, loading |-> FALSE]
           /\ wiped' = wiped \union (view.shown \ rows) \union Skipped(k)
    BY DEF TakeLoad, rows, old, new
  <2>2. QED
    BY <1>7, <1>8, <2>1

\* Older rows go on from what is shown.
LEMMA TakeOlderKeeps ==
  ASSUME LiveEventsInv, NEW k \in DOMAIN asked, TakeOlder(k)
  PROVE  IdsMatch' /\ OvertakenAreMissed' /\ OpensOnce' /\ Joined'
<1> USE InvParts
<1> DEFINE rows == asked[k].rows
<1>1. /\ asked[k].of = "older" /\ asked' = [asked EXCEPT ![k] = NoAnswer]
      /\ UNCHANGED <<emit, stream, missed, wiped, evplan>>
      /\ view'.pc = view.pc /\ view'.cursor = view.cursor
      /\ \/ view'.shown = view.shown \union rows
            /\ view'.oldest = (IF rows = {} THEN view.oldest ELSE Oldest(rows))
         \/ view'.shown = view.shown /\ view'.oldest = view.oldest
  BY DEF TakeOlder, Answered, LiveEventsTypeOK, Views
<1>2. /\ asked[k] # NoAnswer /\ DOMAIN asked' = DOMAIN asked /\ asked'[k].of = "none"
      /\ asked'[k].rows = {} /\ \A j \in DOMAIN asked \ {k} : asked'[j] = asked[j]
  BY <1>1 DEF NoAnswer
<1>3. /\ IdsMatch' /\ OvertakenAreMissed' /\ Saved' = Saved /\ Published' = Published
      /\ Promised' = Promised /\ QueueIsSorted' /\ StreamGoesOn' /\ PageIsNext'
  BY <1>1, PanelSteps DEF Promised
<1>4. rows \subseteq Saved /\ Oldest(rows) \in rows \union {0}
  <2>1. rows \in SUBSET Ids /\ rows \subseteq Saved
    BY TypesAre DEF RowsAreSaved, Joined
  <2>2. QED
    BY <2>1, OldestIs
<1>5. OpensOnce'
  <2>1. 0 \in DOMAIN asked
    BY TypesAre
  <2>2. QED
    BY <1>1, <2>1 DEF OpensOnce
<1>6. view.shown \subseteq view'.shown /\ view'.shown \subseteq view.shown \union rows
  BY <1>1
<1>7. RowsAreSaved'
  BY <1>1, <1>2, <1>3, <1>4, <1>6 DEF RowsAreSaved, Joined
<1>8. CursorsMeet' /\ LoadsJoin'
  BY <1>1, <1>2, <1>3, <1>6 DEF CursorsMeet, Between, LoadsJoin, Passed, Joined
<1>9. OlderJoin'
  BY <1>1, <1>2, <1>3, <1>6 DEF OlderJoin, Joined
<1>10. NothingIsSkipped'
  <2>1. CASE view'.oldest = view.oldest
    BY <1>1, <1>3, <1>6, <2>1 DEF NothingIsSkipped, Joined
  <2>2. CASE rows # {} /\ view'.oldest = Oldest(rows) /\ view'.shown = view.shown \union rows
    BY <1>1, <1>3, <2>2 DEF NothingIsSkipped, OlderJoin, Joined
  <2>3. QED
    BY <1>1, <2>1, <2>2
<1>11. QED
  BY <1>3, <1>5, <1>7, <1>8, <1>9, <1>10 DEF Joined

\* A clear takes off what is shown, and it is promised no more.
LEMMA ClearKeeps ==
  ASSUME LiveEventsInv, Clear
  PROVE  IdsMatch' /\ OvertakenAreMissed' /\ OpensOnce' /\ Joined'
<1> USE InvParts
<1>1. /\ UNCHANGED <<emit, stream, asked, missed, evplan>>
      /\ wiped' = wiped \union view.shown
      /\ view'.pc = view.pc /\ view'.cursor = view.cursor
      /\ view'.shown = {} /\ view'.oldest = 0
  <2>1. left' = [left EXCEPT !.presses = @ - 1] /\ UNCHANGED evplan
    BY DEF Clear, Press
  <2>2. QED
    BY <2>1 DEF Clear, LiveEventsTypeOK, Views
<1>2. /\ IdsMatch' /\ OvertakenAreMissed' /\ Saved' = Saved /\ Published' = Published
      /\ Promised' = Promised \ wiped' /\ QueueIsSorted' /\ StreamGoesOn' /\ PageIsNext'
  BY <1>1, PanelSteps
<1>3. \A n \in Promised' : n \in Promised /\ n \notin view.shown
  BY <1>1, <1>2
<1>4. RowsAreSaved'
  BY <1>1, <1>2 DEF RowsAreSaved, Joined
<1>5. CursorsMeet' /\ NothingIsSkipped'
  BY <1>1, <1>3 DEF CursorsMeet, Between, NothingIsSkipped, Joined
<1>6. LoadsJoin' /\ OlderJoin'
  BY <1>1, <1>3 DEF LoadsJoin, Passed, OlderJoin, Joined
<1>7. OpensOnce'
  BY <1>1 DEF OpensOnce
<1>8. QED
  BY <1>2, <1>4, <1>5, <1>6, <1>7 DEF Joined

-------------------------------------------------------------------------------
(* The theorems. *)

\* At first there is no event under way, no stream and no answer.
LEMMA EventsStart ==
  ASSUME LiveEventsInit
  PROVE  LiveEventsInv
<1>1. /\ evplan \in EventScenarios
      /\ evplan \in [before : Emitters \union {0}, wanted : SUBSET Emitters,
                     drops : Nat, presses : Nat, fail : BOOLEAN]
  BY EventsAssumption DEF LiveEventsInit
<1>2. \A e \in Emitters : e \in Nat \ {0} /\ e \in Ids
  BY IdsAreNumbers DEF Ids
<1>3. /\ stream.pc = "closed" /\ stream.cursor = 0 /\ stream.rows = {} /\ stream.queue = <<>>
      /\ stream.more = FALSE /\ DOMAIN stream.queue = {}
      /\ view.pc = "load" /\ view.shown = {} /\ view.cursor = 0 /\ view.oldest = 0
      /\ view.loading = FALSE
      /\ DOMAIN asked = 0 .. evplan.presses
      /\ \A k \in DOMAIN asked : asked[k] = NoAnswer /\ asked[k].of = "none" /\ asked[k].rows = {}
  BY DEF LiveEventsInit, Closed, NoAnswer
<1>4. \A e \in Emitters : \/ emit[e].pc = "sent" /\ emit[e].id = e /\ e <= evplan.before
                          \/ emit[e].pc = "off" /\ emit[e].id = 0 /\ ~(e <= evplan.before)
  BY DEF LiveEventsInit
<1>5. LiveEventsTypeOK
  <2>1. Closed \in Streams /\ Len(Closed.queue) <= QueueSize
    <3>1. <<>> \in Seq(Ids \union {Overflow}) /\ Len(<<>>) = 0 /\ QueueSize \in Nat
      BY EmptySeq, EventsAssumption
    <3>2. QED
      BY <3>1 DEF Closed, Streams
  <2>2. view \in Views
    BY DEF LiveEventsInit, Views
  <2>3. emit \in [Emitters -> [pc : Pcs, id : Ids \union {0}]]
    BY <1>2 DEF LiveEventsInit, Pcs
  <2>4. asked \in [0 .. evplan.presses -> Answers]
    BY DEF LiveEventsInit, Answers, NoAnswer
  <2>5. missed \union wiped \subseteq Ids
        /\ left \in [drops : 0 .. evplan.drops, presses : 0 .. evplan.presses]
    BY <1>1 DEF LiveEventsInit
  <2>6. stream = Closed
    BY DEF LiveEventsInit
  <2>7. QED
    BY <1>1, <2>1, <2>2, <2>3, <2>4, <2>5, <2>6 DEF LiveEventsTypeOK
<1>6. Begun = {e \in Emitters : e <= evplan.before}
  BY <1>4 DEF Begun
<1>7. Cardinality(Begun) = evplan.before
  <2>1. evplan.before \in Nat /\ evplan.before <= Cardinality(Ids)
    BY <1>1, IdsAreNumbers DEF Ids
  <2>2. Begun = 1 .. evplan.before
    BY <1>6, <2>1, IdsAreNumbers DEF Ids
  <2>3. QED
    BY <2>1, <2>2, FS_Interval
<1>8. IdsMatch
  <2>1. evplan.before \in Nat
    BY <1>1, IdsAreNumbers DEF Ids
  <2>2. QED
    BY <1>2, <1>4, <1>7, <2>1 DEF IdsMatch
<1>9. OvertakenAreMissed /\ OpensOnce
  BY <1>3, <1>4 DEF OvertakenAreMissed, OpensOnce
<1>10. Joined
  <2>1. RowsAreSaved /\ QueueIsSorted /\ StreamGoesOn /\ PageIsNext
    BY <1>3 DEF RowsAreSaved, QueueIsSorted, StreamGoesOn, PageIsNext
  <2>2. CursorsMeet /\ LoadsJoin /\ OlderJoin /\ NothingIsSkipped
    BY <1>3 DEF CursorsMeet, LoadsJoin, OlderJoin, NothingIsSkipped
  <2>3. QED
    BY <2>1, <2>2 DEF Joined
<1>11. QED
  BY <1>5, <1>8, <1>9, <1>10, InvParts

\* Who opened the panel is left alone by the events and the streams.
LEMMA OpensKept ==
  ASSUME LiveEventsInv,
         \/ \E e \in Emitters : Insert(e) \/ Commit(e) \/ Publish(e)
         \/ Subscribe \/ ReadPage \/ Yield \/ Take \/ Break
         \/ UNCHANGED eventVars
  PROVE  OpensOnce'
<1>1. asked' = asked
  BY DEF Insert, Commit, Publish, Subscribe, ReadPage, Yield, Take, Break, eventVars
<1>2. view'.pc = view.pc \/ view.pc # "load"
  <2>1. CASE UNCHANGED view
    BY <2>1
  <2>2. CASE Subscribe \/ Break
    BY <2>2 DEF Subscribe, Break
  <2>3. CASE Yield \/ Take
    BY <2>3 DEF Yield, Take, Receive, LiveEventsInv, LiveEventsTypeOK, Views
  <2>4. QED
    BY <2>1, <2>2, <2>3 DEF Insert, Commit, Publish, ReadPage, eventVars
<1>3. OpensOnce
  BY DEF LiveEventsInv
<1>4. QED
  BY <1>1, <1>2, <1>3 DEF OpensOnce

\* No step loses an event, breaks a join or mixes up the order.
LEMMA EventsKept ==
  ASSUME LiveEventsInv, [LiveEventsNext]_eventVars
  PROVE  LiveEventsInv'
<1>1. LiveEventsTypeOK'
  BY TypeKept DEF LiveEventsInv
<1>2. IdsMatch' /\ OvertakenAreMissed' /\ OpensOnce' /\ Joined'
  <2>1. ASSUME NEW e \in Emitters, Insert(e) \/ Commit(e) \/ Publish(e)
        PROVE  IdsMatch' /\ OvertakenAreMissed' /\ OpensOnce' /\ Joined'
    BY <2>1, InsertKeeps, CommitKeeps, PublishKeeps, OpensKept
  <2>2. CASE Subscribe \/ ReadPage \/ Yield \/ Take \/ Break
    BY <2>2, SubscribeKeeps, ReadKeeps, YieldKeeps, TakeKeeps, BreakKeeps, OpensKept
  <2>3. CASE FirstLoad \/ Reload \/ LoadOlder
    BY <2>3, AskKeeps
  <2>4. ASSUME NEW k \in DOMAIN asked, TakeLoad(k) \/ TakeOlder(k)
        PROVE  IdsMatch' /\ OvertakenAreMissed' /\ OpensOnce' /\ Joined'
    BY <2>4, TakeLoadKeeps, TakeOlderKeeps
  <2>5. CASE Clear
    BY <2>5, ClearKeeps
  <2>6. CASE UNCHANGED eventVars
    <3>1. IdsMatch' /\ OvertakenAreMissed' /\ Promised' = Promised
          /\ Saved' = Saved /\ Published' = Published
      BY <2>6, EventsRest DEF LiveEventsInv, eventVars, Promised
    <3>2. QueueIsSorted' /\ StreamGoesOn' /\ PageIsNext'
      BY <2>6, PanelSteps DEF eventVars
    <3>3. RowsAreSaved'
      BY <2>6, <3>1, InvParts DEF eventVars, RowsAreSaved, Joined
    <3>4. CursorsMeet' /\ NothingIsSkipped'
      BY <2>6, <3>1, InvParts DEF eventVars, CursorsMeet, NothingIsSkipped, Joined
    <3>5. LoadsJoin' /\ OlderJoin'
      BY <2>6, <3>1, InvParts DEF eventVars, LoadsJoin, Passed, OlderJoin, Joined
    <3>6. QED
      BY <2>6, <3>1, <3>2, <3>3, <3>4, <3>5, OpensKept DEF Joined
  <2>7. QED
    BY <2>1, <2>2, <2>3, <2>4, <2>5, <2>6
       DEF LiveEventsNext, LiveEventsProgress, LiveEventsEvent
<1>3. QED
  <2>1. LiveEventsInv' <=> LiveEventsTypeOK' /\ IdsMatch' /\ OvertakenAreMissed'
                           /\ OpensOnce' /\ Joined'
    BY DEF LiveEventsInv, Joined
  <2>2. QED
    BY <1>1, <1>2, <2>1

\* The panel misses nothing between its oldest and its newest event that was not
\* overtaken, left unpublished, taken off or skipped by a reload, and all that
\* the event stream, its queue and the answers on their way hold joins on to it.
THEOREM EventsHold == LiveEventsSpec => []LiveEventsInv
<1>1. LiveEventsInit => LiveEventsInv
  BY EventsStart
<1>2. LiveEventsInv /\ [LiveEventsNext]_eventVars => LiveEventsInv'
  BY EventsKept
<1>3. QED
  BY <1>1, <1>2, PTL DEF LiveEventsSpec

\* Over one connection events go out in the order of their ids, and none twice,
\* whether they come from a page or from the queue.
THEOREM EventsInOrder == LiveEventsSpec => SentInOrder
<1> DEFINE InOrder == \/ stream.pc = "yield" /\ stream'.rows # stream.rows
                      \/ stream.pc = "live" /\ stream'.cursor # stream.cursor
                      => stream'.pc = "closed" \/ stream'.cursor > stream.cursor
<1>1. ASSUME LiveEventsInv, [LiveEventsNext]_eventVars
      PROVE  [InOrder]_eventVars
  <2>1. CASE Yield \/ Take
    BY <1>1, <2>1, YieldKeeps, TakeKeeps DEF Take
  <2>2. CASE Break
    BY <2>2 DEF Break, Closed
  <2>3. CASE ReadPage \/ Subscribe
    <3>1. stream.pc \notin {"yield", "live"}
      BY <1>1, <2>3 DEF ReadPage, Subscribe, LiveEventsInv, StreamGoesOn
    <3>2. QED
      BY <3>1
  <2>4. ASSUME NEW e \in Emitters, Publish(e)
        PROVE  InOrder
    <3>1. stream'.rows = stream.rows /\ stream'.cursor = stream.cursor
      BY <1>1, <2>4 DEF Publish, LiveEventsInv, LiveEventsTypeOK, Streams
    <3>2. QED
      BY <3>1
  <2>5. CASE UNCHANGED stream
    BY <2>5
  <2>6. QED
    BY <1>1, <2>1, <2>2, <2>3, <2>4, <2>5
       DEF LiveEventsNext, LiveEventsProgress, LiveEventsEvent, Insert, Commit, FirstLoad, Reload,
           LoadOlder, Ask, TakeLoad, TakeOlder, Clear, eventVars
<1>2. QED
  BY <1>1, EventsHold, PTL DEF LiveEventsSpec, SentInOrder
================================================================================
