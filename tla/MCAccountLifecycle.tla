-------------------------- MODULE MCAccountLifecycle --------------------------
EXTENDS AccountLifecycleProperties, TLC

CONSTANTS t1, t2, t3

NoProxy == [enabled |-> FALSE, spare |-> FALSE, slot |-> "primary"]
OneProxy == [enabled |-> TRUE, spare |-> FALSE, slot |-> "primary"]
TwoProxies == [enabled |-> TRUE, spare |-> TRUE, slot |-> "primary"]
SpareProxy == [enabled |-> TRUE, spare |-> TRUE, slot |-> "fallback"]

Case(k1, k2, k3, at, proxies, auto, may) ==
  [kinds |-> t1 :> k1 @@ t2 :> k2 @@ t3 :> k3, at |-> at, proxy |-> proxies,
   auto |-> auto, faults |-> may]

Work == {"reconnect", "refresh", "operation", "login", "qr", "delete", "shutdown"}

\* Any two of the things that happen to a connected account, with any failure.
Pairs == {Case(k1, k2, "none", "up", NoProxy, TRUE, FaultKinds) : k1 \in Work, k2 \in Work}

\* The status loop beside a request, with a proxy and a spare one.
Proxied ==
  {Case("refresh", k, "startup", "up", p, auto, {"network", "crash"}) :
     k \in {"switch", "save_proxy", "delete_proxy", "reconnect"},
     p \in {OneProxy, TwoProxies, SpareProxy}, auto \in BOOLEAN}

\* Three at once.
Triples ==
  {Case("refresh", k1, k2, "up", TwoProxies, TRUE, {"network"}) :
     k1 \in {"login", "delete"}, k2 \in {"reconnect", "operation", "login"}}

\* Accounts that are not there, stopped or removed.
Beginnings ==
  {Case("login", "qr", "refresh", "new", NoProxy, TRUE, FaultKinds),
   Case("startup", "reconnect", "shutdown", "stopped", TwoProxies, TRUE, FaultKinds),
   Case("startup", "sync", "login", "deleted", NoProxy, TRUE, FaultKinds)}

\* A removal, and every failure but one of the database.
Removals ==
  {Case("delete", k, "startup", "up", NoProxy, TRUE, FaultKinds \ {"db"}) :
     k \in {"reconnect", "refresh", "shutdown", "delete"}}

Requests == Pairs \union Proxied \union Triples \union Beginnings \union Removals
==============================================================================
