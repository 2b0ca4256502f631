------------------------------ MODULE LiveEvents ------------------------------
(***************************************************************************)
(* The live log: emit_event writes a row, commits it and only then publishes *)
(* it to the queues of the open streams; event_stream reads the rows after a *)
(* cursor page by page, then its queue; useRealtimeEvents loads the last     *)
(* events, opens a stream from the newest and opens it again when it breaks. *)
(***************************************************************************)
EXTENDS Naturals, Sequences, FiniteSets

CONSTANTS Emitters, EventScenarios, Page, HistoryPage, QueueSize
(* Emitters = 1..n, one event each; QUEUE_SIZE, the page of _catch_up and of *)
(* the history.  A row's id comes from a sequence, so its order is that of   *)
(* the inserts; 0 stands for no row, and in a queue for the overflow mark.   *)
ASSUME EventsAssumption ==
  /\ IsFiniteSet(Emitters) /\ Emitters = 1..Cardinality(Emitters)
  /\ {Page, HistoryPage, QueueSize} \subseteq Nat \ {0}
  /\ EventScenarios \subseteq [before : Emitters \union {0}, wanted : SUBSET Emitters,
                              drops : Nat, presses : Nat, fail : BOOLEAN]

Overflow == 0
Ids == Emitters

VARIABLES
  emit,     \* of each emitter: pc and the id of its row
  stream,   \* the open stream: pc, cursor, rows of the page left, more, queue
  view,     \* the panel: pc, shown, cursor, oldest, and whether it is loading
  asked,    \* the panel's requests of the history, by number, and their answers
  missed,   \* history: events overtaken by a later one, or never published
  wiped,    \* history: events that a reload or a clear took off, or a reload skipped
  left,     \* the bound: connections that may still break, buttons still pressed
  evplan    \* the scenario; never changes

eventVars == <<emit, stream, view, asked, missed, wiped, left, evplan>>

Closed == [pc |-> "closed", cursor |-> 0, rows |-> {}, more |-> FALSE, queue |-> <<>>]
NoAnswer == [of |-> "none", rows |-> {}]

LiveEventsInit ==
  /\ evplan \in EventScenarios
  /\ emit = [e \in Emitters |-> IF e <= evplan.before THEN [pc |-> "sent", id |-> e]
                                ELSE [pc |-> "off", id |-> 0]]
  /\ stream = Closed
  /\ view = [pc |-> "load", shown |-> {}, cursor |-> 0, oldest |-> 0, loading |-> FALSE]
  /\ asked = [k \in 0 .. evplan.presses |-> NoAnswer]
  /\ missed = {} /\ wiped = {} /\ left = [drops |-> evplan.drops, presses |-> evplan.presses]

------------------------------------------------------------------------------
(* emit_event *)

Saved == {emit[e].id : e \in {f \in Emitters : emit[f].pc \in {"saved", "sent", "unsent"}}}
Published == {emit[e].id : e \in {f \in Emitters : emit[f].pc = "sent"}}
Wanted(n) == \E e \in evplan.wanted : emit[e].id = n    \* it passes the filters
Moves(e, pc) == emit' = [emit EXCEPT ![e].pc = pc]

Insert(e) ==
  /\ emit[e].pc = "off"
  /\ emit' = [emit EXCEPT ![e] =
       [pc |-> "inserted", id |-> 1 + Cardinality({f \in Emitters : emit[f].pc # "off"})]]
  /\ UNCHANGED <<stream, view, asked, missed, wiped, left, evplan>>

Overtakes(n, pcs) ==               \* the events before it that are on the way
  {emit[f].id : f \in {g \in Emitters : emit[g].id \in 1..(n - 1) /\ emit[g].pc \in pcs}}

Commit(e) ==
  /\ emit[e].pc = "inserted"
  /\ \/ Moves(e, "saved")
     \/ evplan.fail /\ Moves(e, "lost")
  /\ missed' = missed \union Overtakes(emit[e].id, {"inserted"})
  /\ UNCHANGED <<stream, view, asked, wiped, left, evplan>>

\* Variant: a full queue loses its oldest event without a mark.
PutSilently(q, n) == Append(IF Len(q) < QueueSize THEN q ELSE Tail(q), n)

(* A full queue is emptied and marked before the event goes in, if it fits. *)
Put(q, n) ==
  IF Len(q) < QueueSize THEN Append(q, n)
  ELSE IF QueueSize = 1 THEN <<Overflow>> ELSE <<Overflow, n>>

Publish(e) ==
  /\ emit[e].pc = "saved"
  /\ \/ /\ Moves(e, "sent")
        /\ stream' = IF stream.pc = "closed" THEN stream
                     ELSE [stream EXCEPT !.queue = Put(@, emit[e].id)]
        /\ missed' = missed \union Overtakes(emit[e].id, {"inserted", "saved"})
     \/ /\ evplan.fail /\ Moves(e, "unsent")            \* the refresh has failed
        /\ missed' = missed \union {emit[e].id}
        /\ UNCHANGED stream
  /\ UNCHANGED <<view, asked, wiped, left, evplan>>

------------------------------------------------------------------------------
(* query_events *)

\* A page of at most k rows, from one end of the rows that match.
PageOf(rows, set, k) ==
  /\ rows \subseteq set
  /\ Cardinality(rows) = k \/ (Cardinality(rows) < k /\ rows = set)
FirstOf(rows, set, k) == PageOf(rows, set, k) /\ \A n \in rows, m \in set \ rows : n < m
LastOf(rows, set, k) == PageOf(rows, set, k) /\ \A n \in rows, m \in set \ rows : n > m
RowsAfter(cursor) == {n \in Saved : n > cursor /\ Wanted(n)}
RowsBefore(before) == {n \in Saved : (before = 0 \/ n < before) /\ Wanted(n)}

------------------------------------------------------------------------------
(* event_stream *)

Subscribe ==
  /\ view.pc = "idle"
  /\ stream' = [Closed EXCEPT !.pc = "read", !.cursor = view.cursor]
  /\ view' = [view EXCEPT !.pc = "open"]
  /\ UNCHANGED <<emit, asked, missed, wiped, left, evplan>>

ReadPage ==
  /\ stream.pc = "read"
  /\ \E rows \in SUBSET RowsAfter(stream.cursor) :
       /\ FirstOf(rows, RowsAfter(stream.cursor), Page)
       /\ stream' = [stream EXCEPT !.rows = rows, !.more = Cardinality(rows) = Page,
                                   !.pc = IF rows = {} THEN "live" ELSE "yield"]
  /\ UNCHANGED <<emit, view, asked, missed, wiped, left, evplan>>

Larger(a, b) == IF a > b THEN a ELSE b
Newest(set) == CHOOSE n \in set \union {0} : \A m \in set : m <= n
Oldest(set) == IF set = {} THEN 0 ELSE CHOOSE n \in set : \A m \in set : n <= m

Receive(n) ==
  view' = [view EXCEPT !.shown = @ \union {n}, !.cursor = Larger(@, n),
                       !.oldest = IF @ = 0 THEN n ELSE @]

Yield ==
  /\ stream.pc = "yield"
  /\ LET n == Oldest(stream.rows) IN
     /\ Receive(n)
     /\ stream' = [stream EXCEPT !.cursor = Larger(@, n), !.rows = @ \ {n},
          !.pc = IF stream.rows # {n} THEN @ ELSE IF stream.more THEN "read" ELSE "live"]
  /\ UNCHANGED <<emit, asked, missed, wiped, left, evplan>>

\* Variant: the queue is not compared with what the pages have sent.
OldNever(n) == FALSE

Old(n) == n <= stream.cursor

Take ==
  /\ stream.pc = "live" /\ stream.queue # <<>>
  /\ LET n == Head(stream.queue)
         rest == [stream EXCEPT !.queue = Tail(@)] IN
     \/ n = Overflow /\ stream' = [rest EXCEPT !.pc = "read"] /\ UNCHANGED view
     \/ n # Overflow /\ Old(n) /\ stream' = rest /\ UNCHANGED view
     \/ /\ n # Overflow /\ ~Old(n)
        /\ stream' = [rest EXCEPT !.cursor = n]
        /\ IF Wanted(n) THEN Receive(n) ELSE UNCHANGED view
  /\ UNCHANGED <<emit, asked, missed, wiped, left, evplan>>

Break ==                       \* the connection, or the process, goes away
  /\ left.drops > 0 /\ left' = [left EXCEPT !.drops = @ - 1]
  /\ view.pc = "open" /\ view' = [view EXCEPT !.pc = "idle"]
  /\ stream' = Closed
  /\ UNCHANGED <<emit, asked, missed, wiped, evplan>>

------------------------------------------------------------------------------
(* useRealtimeEvents *)

(* The buttons are pressed as often as the scenario says; each press numbers *)
(* a request.  A reload is not kept from coming beside another request, and  *)
(* the first answer ends "loading" for all of them.                          *)
Press == left.presses > 0 /\ left' = [left EXCEPT !.presses = @ - 1]

Ask(k, of, before) ==
  /\ \E rows \in SUBSET RowsBefore(before) :
       /\ LastOf(rows, RowsBefore(before), HistoryPage)
       /\ asked' = [asked EXCEPT ![k] = [of |-> of, rows |-> rows]]
  /\ view' = [view EXCEPT !.loading = TRUE]
  /\ UNCHANGED <<emit, stream, missed, wiped, evplan>>

FirstLoad == view.pc = "load" /\ asked[0] = NoAnswer /\ Ask(0, "load", 0) /\ UNCHANGED left
Reload == Press /\ Ask(left.presses, "load", 0)
LoadOlder ==
  view.oldest # 0 /\ ~view.loading /\ Press /\ Ask(left.presses, "older", view.oldest)

Opened(k) == IF k = 0 THEN "idle" ELSE view.pc
Answered(k, of) == asked[k].of = of /\ asked' = [asked EXCEPT ![k] = NoAnswer]
\* Events that a load leaves out while an open stream or another answer is behind.
Skipped(k) ==
  {n \in Saved : view.cursor < n /\ n < Oldest(asked[k].rows)
                 /\ (view.pc = "open" \/ \E j \in DOMAIN asked \ {k} : asked[j].of # "none")}

TakeLoad(k) ==
  /\ Answered(k, "load")
  /\ LET rows == asked[k].rows IN
     \/ /\ view' = [pc |-> Opened(k), shown |-> rows, cursor |-> Newest(rows),
                     oldest |-> Oldest(rows), loading |-> FALSE]
        /\ wiped' = wiped \union (view.shown \ rows) \union Skipped(k)
     \/ /\ evplan.fail                                  \* the request fails
        /\ view' = [view EXCEPT !.pc = Opened(k), !.loading = FALSE] /\ UNCHANGED wiped
  /\ UNCHANGED <<emit, stream, missed, left, evplan>>

TakeOlder(k) ==
  /\ Answered(k, "older")
  /\ LET rows == asked[k].rows IN
     \/ view' = [view EXCEPT !.shown = @ \union rows, !.loading = FALSE,
                             !.oldest = IF rows = {} THEN @ ELSE Oldest(rows)]
     \/ evplan.fail /\ view' = [view EXCEPT !.loading = FALSE]
  /\ UNCHANGED <<emit, stream, missed, wiped, left, evplan>>

Clear ==
  /\ view.shown # {} /\ Press
  /\ view' = [view EXCEPT !.shown = {}, !.oldest = 0]
  /\ wiped' = wiped \union view.shown
  /\ UNCHANGED <<emit, stream, asked, missed, evplan>>

------------------------------------------------------------------------------
LiveEventsProgress ==
  \/ \E e \in Emitters : Insert(e) \/ Commit(e) \/ Publish(e)
  \/ Subscribe \/ ReadPage \/ Yield \/ Take
  \/ FirstLoad
  \/ \E k \in DOMAIN asked : TakeLoad(k) \/ TakeOlder(k)

LiveEventsEvent == Break \/ Reload \/ LoadOlder \/ Clear

LiveEventsNext == LiveEventsProgress \/ LiveEventsEvent

LiveEventsSpec ==
  LiveEventsInit /\ [][LiveEventsNext]_eventVars /\ WF_eventVars(LiveEventsProgress)
==============================================================================
