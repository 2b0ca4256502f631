---------------------------- MODULE MCBulkStream -----------------------------
EXTENDS BulkStreamProperties, TLC

CONSTANTS j1, j2, a1, a2

Both == {a1, a2}
Want(kind, S) == [kind |-> kind, accounts |-> S]
Case(first, second, off, wait, in, may) ==
  [wants |-> j1 :> first @@ j2 :> second, online |-> Both \ off,
   flood |-> wait, members |-> in, faults |-> may]

\* One job of two accounts, with any one failure.
AloneWithFaults ==
  {Case(Want("group_join", Both), Want("none", {}), off, {}, in, FaultKinds) :
     off \in {{}, {a1}}, in \in {{}, {a1}}}

\* Every other type of job, with a failing database.
EveryKind ==
  {Case(Want(kind, Both), Want("none", {}), {},
        IF kind = "message_send" THEN {a2} ELSE {}, Both,
        IF kind = "bulk_photo" THEN {"db", "disconnect"} ELSE {"db"}) :
     kind \in Kinds \ {"group_join"}}

\* Two jobs that share an account, and no job at all.
TwoJobs ==
  {Case(Want(k1, {a1}), Want(k2, {a1}), {}, {}, {a1}, {"cancel"}) :
     k1 \in {"group_join", "message_send"}, k2 \in {"group_leave"}}
  \union {Case(Want("group_join", {}), Want("none", {}), {}, {}, {}, {})}

\* A job and its retry.
WithRetry ==
  {Case(Want(kind, {a1}), Want("retry", {}), {}, {}, {}, FaultKinds) :
     kind \in {"group_join", "message_send"}}

Requests == AloneWithFaults \union EveryKind \union TwoJobs \union WithRetry
==============================================================================
