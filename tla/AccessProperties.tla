--------------------------- MODULE AccessProperties ---------------------------
(* What the gate, the administrators' changes and the quotas promise.        *)
EXTENDS Access

CallPcs == {"off", "auth", "read", "write", "clear", "wipe", "delete", "create", "lock", "look",
            "make", "lookup", "fetch", "store", "count", "insert", "done"}
Call == [pc : CallPcs, session : 0..MaxSessions, meta : Identity \union {Absent},
         cutoff : 0..MaxSessions, limit : 0..MaxQuota, floor : 0..MaxSessions]

AccessTypeOK ==
  /\ accessPlan \in AccessScenarios
  /\ idp \in [Users -> Identity \union {Absent, Deleted}]
  /\ sessions \in [Users -> 0..MaxSessions]
  /\ quotas \in [Users -> (0..MaxQuota) \union {Absent}]
  /\ accounts \in [Users -> SUBSET Callers]
  /\ call \in [Callers -> Call]
  /\ lock \in Callers \union {Absent}
  /\ revoked \in [Users -> 0..MaxSessions] /\ granted \in [Users -> 0..MaxQuota]
  /\ crowned \subseteq Users /\ clash \subseteq SUBSET Callers /\ failing \in BOOLEAN

(* The steps of a request are those of its kind; one that was let in may do  *)
(* what it does, and was not too old when it was let in.                     *)
StepsOf(pc) ==
  CASE pc \in {"off", "done"} -> AccessKinds
    [] pc = "auth" -> AdminKinds \union {"add"}
    [] pc \in {"read", "write"} -> Changes
    [] pc = "clear" -> AdminKinds
    [] pc = "wipe" -> {"purge"}
    [] pc = "delete" -> {"delete", "purge"}
    [] pc = "create" -> {"create"}
    [] pc \in {"lock", "look", "make"} -> {"bootstrap"}
    [] pc \in {"lookup", "fetch", "store", "count", "insert"} -> {"add"}
LetIn(t) == call[t].pc \notin {"off", "auth", "done", "lock", "look", "make"}
StepsMatch ==
  \A t \in Callers :
    /\ Kind(t) \in StepsOf(call[t].pc)
    /\ t \in InWork /\ Kind(t) # "bootstrap" => call[t].session > 0
    /\ LetIn(t) /\ Protected(t) => Whom(t) # Who(t)
    /\ call[t].pc = "write" => call[t].meta # Absent /\ idp[Whom(t)] # Absent

Met(t, u) == {t, u} \in clash
TwoMet(P(_)) == \E t, u \in Callers : Met(t, u) /\ P(t) /\ P(u)

(* Requests at work at once are known to have met.                           *)
MeetingsAreKnown == \A t, u \in InWork : t # u => Met(t, u)

(* A session that a finished change has ended is not let in again, unless    *)
(* two changes of that user overlapped and the later write put the older     *)
(* cut-off back.                                                             *)
Remade(u) == LET Alters(v) == Kind(v) \in Changes /\ Whom(v) = u IN TwoMet(Alters)
RevokedStayOut ==
  \A t \in Callers : LetIn(t) /\ call[t].session <= call[t].floor => Remade(Who(t))

(* No cut-off in force, read or about to be written is before one that a     *)
(* finished change has set.                                                  *)
CutoffsStand ==
  \A u \in Users : Remade(u) \/
    /\ revoked[u] <= sessions[u] /\ (idp[u] = Absent => revoked[u] = 0)
    /\ Exists(u) => idp[u].cutoff >= revoked[u]
    /\ \A t \in Callers :
         /\ Who(t) = u => call[t].floor <= revoked[u]
         /\ call[t].pc = "write" /\ Whom(t) = u =>
              call[t].meta.cutoff >= revoked[u] /\ call[t].cutoff \in revoked[u]..sessions[u]

(* Once there is an administrator an enabled one is left, whoever creates,   *)
(* promotes, demotes, bans or removes whom, unless two requests that oust    *)
(* overlapped, or two changes of one user did (a role that was taken away or *)
(* given may be written back as it was).                                     *)
Enabled(u) == Exists(u) /\ idp[u].role = "admin" /\ ~idp[u].banned
Governed == accessPlan.admins # {} \/ crowned # {}
Troubled == TwoMet(Ousts) \/ \E u \in Users : Remade(u)
SomeAdminIsLeft == Governed => Troubled \/ \E u \in Users : Enabled(u)

(* Whoever is about to oust another is one; and no change takes a role away  *)
(* that the user has got since its metadata was read.                        *)
OustersAreEnabled ==
  Governed /\ ~Troubled =>
    \A t \in Callers :
      /\ Ousts(t) /\ call[t].pc \in {"read", "write", "wipe", "delete"} => Enabled(Who(t))
      /\ call[t].pc = "write" /\ Exists(Whom(t)) /\ idp[Whom(t)].role = "admin" =>
           call[t].meta.role = "admin"

(* Bootstrap makes one administrator and never another, whatever has become  *)
(* of the first and of those it has made, and none where there is one.       *)
OneFirstAdmin ==
  Troubled \/ /\ accessPlan.admins # {} => crowned = {}
              /\ \A u, v \in crowned : u = v

(* Bootstraps take turns; none that goes on is overtaken, and before the     *)
(* first administrator nobody is let in to make another.                     *)
FirstAdminStays ==
  /\ \A t \in Callers :
       /\ call[t].pc \in {"look", "make"} => lock = t
       /\ call[t].pc = "make" => ~Governed \/ Troubled
  /\ ~Governed =>
       /\ \A u \in Users : Exists(u) => idp[u].role = "user"
       /\ \A t \in Callers : Kind(t) \in AdminKinds => ~LetIn(t)

(* The cached quota is the one in force, while no change of it is under way; *)
(* unless a lookup overlapped with the change, or a call has failed.         *)
Clearing(u) == \E t \in Callers : Whom(t) = u /\ call[t].pc = "clear"
Crossed(u) ==
  \E t, v \in Callers : Met(t, v) /\ Kind(t) = "add" /\ Who(t) = u
                        /\ Kind(v) \in AdminKinds /\ Whom(v) = u
CacheIsCurrent ==
  \A u \in Users : quotas[u] # Absent =>
    \/ failing \/ Crossed(u) \/ Clearing(u)
    \/ Exists(u) /\ quotas[u] = idp[u].quota

(* So is what a lookup stores and goes by; and a purge, which clears the     *)
(* cache only at its end, writes back the quota that is cached.              *)
LookupsAreCurrent ==
  /\ \A t \in Callers : call[t].pc \in {"store", "count", "insert"} =>
       failing \/ Crossed(Who(t)) \/ (Exists(Who(t)) /\ call[t].limit = idp[Who(t)].quota)
  /\ \A t \in Callers : call[t].pc = "write" /\ Kind(t) = "purge" =>
       \/ failing \/ Crossed(Whom(t)) \/ Clearing(Whom(t))
       \/ quotas[Whom(t)] = Absent \/ ~Exists(Whom(t))
       \/ call[t].meta.quota = idp[Whom(t)].quota

(* As long as two requests that add an account do not overlap, an account is *)
(* added only below the quota in force (unless the lookup of it overlapped   *)
(* with a change, or a call has failed), and a tenant never has more than    *)
(* the highest quota it has had.  No quota is above that, wherever it is.    *)
AddedTwice(u) == LET Adds(v) == Kind(v) = "add" /\ Who(v) = u IN TwoMet(Adds)
QuotaHolds ==
  \A u \in Users :
    /\ IsFiniteSet(accounts[u])
    /\ AddedTwice(u) \/
         /\ Cardinality(accounts[u]) <= granted[u]
         /\ \A t \in Callers : call[t].pc = "insert" /\ Who(t) = u =>
              /\ Cardinality(accounts[u]) < granted[u]
              /\ \/ failing \/ Crossed(u)
                 \/ Exists(u) /\ Cardinality(accounts[u]) < idp[u].quota
NoQuotaIsAbove ==
  \A u \in Users :
    /\ DefaultQuota <= granted[u]
    /\ Exists(u) => idp[u].quota <= granted[u]
    /\ quotas[u] # Absent => quotas[u] <= granted[u]
    /\ \A t \in Callers :
         /\ Who(t) = u => call[t].limit <= granted[u]
         /\ call[t].pc = "write" /\ Whom(t) = u => call[t].meta.quota <= granted[u]

(* Nothing of a purged tenant is left, unless it had a request at work.      *)
PurgedIsGone ==
  \A t \in Callers : Kind(t) = "purge" /\ call[t].pc \in {"delete", "clear"} =>
    accounts[Whom(t)] = {} \/ \E v \in Callers : Met(t, v) /\ Who(v) = Whom(t)

AccessInv ==
  /\ AccessTypeOK /\ StepsMatch /\ MeetingsAreKnown /\ RevokedStayOut /\ CutoffsStand
  /\ SomeAdminIsLeft /\ OustersAreEnabled /\ OneFirstAdmin /\ FirstAdminStays
  /\ CacheIsCurrent /\ LookupsAreCurrent /\ NoQuotaIsAbove /\ QuotaHolds /\ PurgedIsGone

(* A request that is under way; it must end, nobody keeps the bootstrap lock. *)
CallIsOpen == InWork # {}
================================================================================
