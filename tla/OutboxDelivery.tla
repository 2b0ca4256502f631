---------------------------- MODULE OutboxDelivery ----------------------------
(***************************************************************************)
(* What the durable message sender promises about each item (one text to   *)
(* one recipient), whatever the runner, its database and its restarts do:  *)
(* the message reaches the recipient at most once, and the report an item  *)
(* ends with never claims more than what happened.                         *)
(***************************************************************************)
EXTENDS Naturals

CONSTANT Items

VARIABLES
  report,     \* what the item's row says of it
  inflight,   \* a send request for the item is outstanding at the server
  copies      \* how many copies the recipient has received

vars == <<report, inflight, copies>>

Reports == {"absent", "waiting", "attempting",
            "ok", "failed", "unknown", "cancelled"}

Init ==
  /\ report = [i \in Items |-> "absent"]
  /\ inflight = [i \in Items |-> FALSE]
  /\ copies = [i \in Items |-> 0]

\* A request leaves only in an attempt, for an item nothing was sent for.
Send(i) ==
  /\ report[i] = "attempting" /\ ~inflight[i] /\ copies[i] = 0
  /\ inflight' = [inflight EXCEPT ![i] = TRUE]
  /\ UNCHANGED <<report, copies>>

Arrive(i) ==
  /\ inflight[i]
  /\ inflight' = [inflight EXCEPT ![i] = FALSE]
  /\ copies' = [copies EXCEPT ![i] = @ + 1]
  /\ UNCHANGED report

\* The server drops or refuses the request.
Vanish(i) ==
  /\ inflight[i]
  /\ inflight' = [inflight EXCEPT ![i] = FALSE]
  /\ UNCHANGED <<report, copies>>

Untouched(i) == copies[i] = 0 /\ ~inflight[i]

\* The reports an item may take next.  An attempt goes back to waiting, or
\* is reported failed, only when nothing was delivered and nothing can be.
Allowed(i) ==
  CASE report[i] = "absent"     -> {"waiting"}
    [] report[i] = "waiting"    -> {"attempting", "cancelled"}
    [] report[i] = "attempting" ->
         {"unknown", "cancelled"}
         \union (IF Untouched(i) THEN {"waiting", "failed"} ELSE {})
         \union (IF copies[i] = 1 THEN {"ok"} ELSE {})
    [] OTHER                    -> {}

\* One transaction may move several items.
Report ==
  /\ report' \in [Items -> Reports]
  /\ \A i \in Items : report'[i] = report[i] \/ report'[i] \in Allowed(i)
  /\ UNCHANGED <<inflight, copies>>

Next ==
  \/ \E i \in Items : Send(i) \/ Arrive(i) \/ Vanish(i)
  \/ Report

Spec == Init /\ [][Next]_vars

===============================================================================
