------------------------------ MODULE BulkReport -----------------------------
(***************************************************************************)
(* What a bulk job promises the client that started it: a stream of rows,   *)
(* one account at a time and no account twice, and a verdict that only      *)
(* comes after every account has had its row and agrees with the rows.  A   *)
(* stream may break off, and then brings nothing more.                      *)
(***************************************************************************)
CONSTANTS Jobs, Accounts, None

VARIABLES
  asked,     \* the accounts of each job; empty before it starts
  rows,      \* the rows the stream has brought: account -> status
  verdict    \* "open", "broken", or how the job ended

report == <<asked, rows, verdict>>

Init ==
  /\ asked = [j \in Jobs |-> {}]
  /\ rows = [j \in Jobs |-> [a \in Accounts |-> None]]
  /\ verdict = [j \in Jobs |-> "open"]

Start(j) ==
  /\ asked[j] = {} /\ verdict[j] = "open"
  /\ \E S \in SUBSET Accounts : asked' = [asked EXCEPT ![j] = S]
  /\ UNCHANGED <<rows, verdict>>

Row(j, a) ==
  /\ verdict[j] = "open" /\ a \in asked[j] /\ rows[j][a] = None
  /\ \E s \in {"ok", "pending", "skipped", "failed"} :
       rows' = [rows EXCEPT ![j][a] = s]
  /\ UNCHANGED <<asked, verdict>>

Done(j) ==
  /\ verdict[j] = "open"
  /\ \A a \in asked[j] : rows[j][a] # None
  /\ \E v \in {"cancelled",
       IF \E a \in asked[j] : rows[j][a] = "failed" THEN "completed_with_errors"
       ELSE "completed"} : verdict' = [verdict EXCEPT ![j] = v]
  /\ UNCHANGED <<asked, rows>>

Break(S) ==
  /\ \A j \in S : verdict[j] = "open"
  /\ verdict' = [j \in Jobs |-> IF j \in S THEN "broken" ELSE verdict[j]]
  /\ UNCHANGED <<asked, rows>>

Next ==
  \/ \E j \in Jobs : Start(j) \/ Done(j) \/ \E a \in Accounts : Row(j, a)
  \/ \E S \in SUBSET Jobs : Break(S)

Spec == Init /\ [][Next]_report
==============================================================================
