------------------------- MODULE LiveEventsProperties -------------------------
(* What the live log promises to a panel that stays open.                    *)
EXTENDS LiveEvents

Pcs == {"off", "inserted", "saved", "sent", "unsent", "lost"}
Streams == [pc : {"closed", "read", "yield", "live"}, cursor : Ids \union {0},
            rows : SUBSET Ids, more : BOOLEAN, queue : Seq(Ids \union {Overflow})]
Views == [pc : {"load", "idle", "open"}, shown : SUBSET Ids, cursor : Ids \union {0},
          oldest : Ids \union {0}, loading : BOOLEAN]
Answers == [of : {"none", "load", "older"}, rows : SUBSET Ids]
LiveEventsTypeOK ==
  /\ evplan \in EventScenarios
  /\ emit \in [Emitters -> [pc : Pcs, id : Ids \union {0}]]
  /\ stream \in Streams /\ Len(stream.queue) <= QueueSize
  /\ view \in Views
  /\ asked \in [0 .. evplan.presses -> Answers]
  /\ missed \union wiped \subseteq Ids
  /\ left \in [drops : 0 .. evplan.drops, presses : 0 .. evplan.presses]

\* Wanted events that must not be missing any more: neither overtaken on their
\* way nor taken off, or skipped, by a reload or a clear.
Promised == {n \in Saved : Wanted(n)} \ (missed \union wiped)

(* Between the oldest and the newest event of the panel no wanted event is   *)
(* missing, whatever pages, overflows of the queue, broken connections and   *)
(* histories came together; except one that was overtaken on its way by a    *)
(* later one, was never published, or was taken off or skipped by a reload   *)
(* or a clear.                                                               *)
NothingIsSkipped ==
  view.oldest # 0 =>
    \A n \in Promised : (view.oldest <= n /\ n <= view.cursor) => n \in view.shown

------------------------------------------------------------------------------
(* The inductive strengthening.                                              *)

\* Rows get their ids in the order of the inserts.
Begun == {e \in Emitters : emit[e].pc # "off"}
IdsMatch ==
  \A e \in Emitters :
    /\ (emit[e].pc = "off") <=> (emit[e].id = 0)
    /\ emit[e].id <= Cardinality(Begun)
    /\ \A f \in Emitters \ {e} : emit[e].id = emit[f].id => emit[e].id = 0

\* What the panel and the streams hold are rows of the table.
RowsAreSaved ==
  /\ view.shown \union stream.rows \subseteq Saved
  /\ {view.cursor, view.oldest, stream.cursor} \subseteq Saved \union {0}
  /\ \A k \in DOMAIN asked : asked[k].rows \subseteq Saved
  /\ \A i \in DOMAIN stream.queue : stream.queue[i] \in Published \union {Overflow}

\* An event that is overtaken, on its way to the table or to the queues.
OvertakenAreMissed ==
  \A e \in Emitters :
    /\ emit[e].pc = "inserted" => \A n \in Saved : emit[e].id < n => emit[e].id \in missed
    /\ emit[e].pc \in {"inserted", "saved"} =>
         \A n \in Published : emit[e].id < n => emit[e].id \in missed

\* A queue holds its events in order, but for overtaken ones, after the mark.
QueueIsSorted ==
  \A i, j \in DOMAIN stream.queue :
    i < j => /\ stream.queue[j] # Overflow
             /\ stream.queue[j] < stream.queue[i] => stream.queue[j] \in missed

\* An event that the stream has not come to is on its way there.
Coming(n) ==
  \/ \E e \in Emitters : emit[e].id = n /\ emit[e].pc = "saved"
  \/ \E i \in DOMAIN stream.queue : stream.queue[i] \in {n, Overflow}
  \/ stream.pc = "read"
  \/ stream.pc = "yield" /\ (stream.more \/ n \in stream.rows)
StreamGoesOn ==
  /\ (stream.pc = "closed") <=> (view.pc # "open")
  /\ stream.pc # "closed" => \A n \in Promised : stream.cursor < n => Coming(n)

\* The first load opens the panel, before there is a stream.
OpensOnce == asked[0] # NoAnswer => view.pc = "load"

\* A page is what comes next after the cursor.
PageIsNext ==
  /\ (stream.pc = "yield") <=> (stream.rows # {})
  /\ \A n \in stream.rows :
       /\ stream.cursor < n
       /\ \A m \in Promised : (stream.cursor < m /\ m < n) => m \in stream.rows

\* Nothing is missing between the cursors of the stream and of the panel,
\* whichever is behind.
Between(n, a, b) == a < n /\ n <= b
CursorsMeet ==
  stream.pc # "closed" =>
    \A n \in Promised :
      \/ Between(n, stream.cursor, view.cursor)
      \/ Between(n, view.cursor, stream.cursor)
      => n \in view.shown

\* The answer of a load leaves nothing out of its range, and what has been shown
\* of newer events stays shown or is wiped.
Passed(n) == n <= view.cursor \/ (stream.pc # "closed" /\ n <= stream.cursor)
LoadsJoin ==
  \A k \in DOMAIN asked : asked[k].of = "load" =>
    LET rows == asked[k].rows IN
    /\ \A n \in Promised : (Oldest(rows) <= n /\ n <= Newest(rows)) => n \in rows
    /\ \A n \in Promised : (Newest(rows) < n /\ Passed(n)) => n \in view.shown

\* The answer of older rows joins on to the panel.
OlderJoin ==
  \A k \in DOMAIN asked : asked[k].of = "older" /\ asked[k].rows # {} =>
    \A n \in Promised :
      (Oldest(asked[k].rows) <= n /\ n <= view.cursor) => n \in asked[k].rows \union view.shown

LiveEventsInv ==
  /\ LiveEventsTypeOK /\ IdsMatch /\ RowsAreSaved /\ OvertakenAreMissed /\ QueueIsSorted
  /\ StreamGoesOn /\ OpensOnce /\ PageIsNext /\ CursorsMeet /\ LoadsJoin /\ OlderJoin
  /\ NothingIsSkipped

(* Over one connection no event is sent twice, and none after a later one.   *)
SentInOrder ==
  [][\/ stream.pc = "yield" /\ stream'.rows # stream.rows
     \/ stream.pc = "live" /\ stream'.cursor # stream.cursor
     => stream'.pc = "closed" \/ stream'.cursor > stream.cursor]_eventVars

(* A wanted event that is published and not overtaken, but not on the panel; *)
(* it must come, unless it is older than what the panel shows, or shows      *)
(* after a clear.                                                            *)
EventIsOwed ==
  \E n \in Promised \cap Published : n \notin view.shown
    /\ n >= view.oldest /\ ~(view.oldest = 0 /\ n <= view.cursor)
================================================================================
