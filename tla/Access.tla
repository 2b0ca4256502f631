-------------------------------- MODULE Access --------------------------------
(***************************************************************************)
(* Who may do what: requests are let in by the identity and the session cut- *)
(* off that Supabase Auth keeps, administrators change identities by reading *)
(* the metadata of a user and writing all of it back, quotas are cached for  *)
(* thirty seconds, and a purge removes a tenant's rows and then its user.    *)
(***************************************************************************)
EXTENDS Integers, FiniteSets

CONSTANTS Callers, Users, AccessScenarios, DefaultQuota, MaxQuota, MaxSessions, Absent, Deleted

Changes == {"update", "logout", "purge"}      \* they go through update_identity_user
AdminKinds == Changes \union {"delete", "create"}
AccessKinds == AdminKinds \union {"add", "bootstrap", "rest"}

(* What an update asks for, and creation as far as the role goes; an update  *)
(* that asks for nothing writes nothing and is left out.                     *)
Bodies == [role : {"as_is", "admin", "user"}, ban : {"as_is", "disable", "enable"},
           password : BOOLEAN, quota : Int \union {Absent}]
NoBody == [role |-> "as_is", ban |-> "as_is", password |-> FALSE, quota |-> Absent]

VARIABLES
  idp,       \* Supabase: of each user its role, ban, cut-off and quota; Absent
             \* before it is created, Deleted for ever after (its id is not used again)
  sessions,  \* how many sessions each user has opened, numbered from 1
  quotas,    \* the cache: the quota of a user, or Absent
  accounts,  \* the tenant's rows: the requests that stored an account
  call,      \* where each request is: pc, session, what it has read
  lock,      \* _bootstrap_lock: the request that holds it, or Absent
  revoked,   \* history: the last session that a finished change has ended
  granted,   \* history: the highest quota that each user has ever had
  crowned,   \* history: whom bootstrap has made administrator
  clash,     \* history: the pairs of requests that overlapped
  failing,   \* history: a call to Supabase or to the database has failed
  accessPlan \* the scenario; never changes

accessVars ==
  <<idp, sessions, quotas, accounts, call, lock, revoked, granted, crowned, clash, failing,
    accessPlan>>

Identity == [role : {"admin", "user"}, banned : BOOLEAN, cutoff : Nat, quota : 0..MaxQuota]
AccessScenario == [does : [Callers -> [kind : AccessKinds, who : Users, whom : Users,
                                       body : Bodies]],
                   admins : SUBSET Users, users : SUBSET Users,
                   again : SUBSET Users, fail : BOOLEAN]

ASSUME AccessAssumption ==
  /\ AccessScenarios \subseteq AccessScenario
  /\ MaxQuota \in Nat /\ DefaultQuota \in 0..MaxQuota /\ MaxSessions \in Nat \ {0}
  /\ Absent # Deleted /\ {Absent, Deleted} \intersect Identity = {}
  /\ Absent \notin Callers /\ Absent \notin Int

Fresh(role) == [role |-> role, banned |-> FALSE, cutoff |-> 0, quota |-> DefaultQuota]
NoCall == [pc |-> "off", session |-> 0, meta |-> Absent, cutoff |-> 0, limit |-> 0, floor |-> 0]

AccessInit ==
  /\ accessPlan \in AccessScenarios
  /\ idp = [u \in Users |-> IF u \in accessPlan.admins THEN Fresh("admin")
                            ELSE IF u \in accessPlan.users THEN Fresh("user") ELSE Absent]
  /\ sessions = [u \in Users |-> IF idp[u] = Absent THEN 0 ELSE 1]
  /\ quotas = [u \in Users |-> Absent] /\ accounts = [u \in Users |-> {}]
  /\ call = [t \in Callers |-> NoCall]
  /\ lock = Absent /\ revoked = [u \in Users |-> 0] /\ clash = {} /\ failing = FALSE
  /\ granted = [u \in Users |-> DefaultQuota] /\ crowned = {}

Exists(u) == idp[u] \notin {Absent, Deleted}
Kind(t) == accessPlan.does[t].kind
Who(t) == accessPlan.does[t].who
Whom(t) == accessPlan.does[t].whom
Body(t) ==
  CASE Kind(t) = "purge" -> [NoBody EXCEPT !.ban = "disable"]
    [] Kind(t) = "logout" -> NoBody
    [] OTHER -> accessPlan.does[t].body
InWork == {t \in Callers : call[t].pc \notin {"off", "done"}}
To(t, pc) == call' = [call EXCEPT ![t].pc = pc]

------------------------------------------------------------------------------
(* require_auth and require_admin *)

Arrive(t) ==
  /\ call[t].pc = "off" /\ Kind(t) # "rest"
  /\ \/ Kind(t) = "bootstrap" /\ To(t, "lock")
     \/ /\ Kind(t) # "bootstrap"
        /\ \E s \in 1..sessions[Who(t)] :
             call' = [call EXCEPT ![t].pc = "auth", ![t].session = s,
                                  ![t].floor = revoked[Who(t)]]
  /\ clash' = clash \union {{t, u} : u \in InWork}
  /\ UNCHANGED <<idp, sessions, quotas, accounts, lock,
                 revoked, granted, crowned, failing, accessPlan>>

(* Nobody bans, demotes, logs out or removes itself.                         *)
Ousts(t) ==
  \/ Kind(t) \in {"delete", "purge"}
  \/ Kind(t) = "update" /\ (Body(t).role = "user" \/ Body(t).ban = "disable")
Protected(t) == Kind(t) = "logout" \/ Ousts(t)

\* Variant: the cut-off of the sessions is not looked at.
AcceptsEnded(t, user) ==
  /\ user \notin {Absent, Deleted} /\ ~user.banned
  /\ Kind(t) \in AdminKinds => user.role = "admin"
  /\ Protected(t) => Whom(t) # Who(t)

Accepts(t, user) ==
  /\ user \notin {Absent, Deleted} /\ ~user.banned
  /\ user.cutoff = 0 \/ call[t].session > user.cutoff
  /\ Kind(t) \in AdminKinds => user.role = "admin"
  /\ Protected(t) => Whom(t) # Who(t)

Admitted(t) ==
  CASE Kind(t) \in Changes -> "read"
    [] Kind(t) \in {"delete", "create"} -> Kind(t)
    [] Kind(t) = "add" -> "lookup"

Authenticate(t) ==
  /\ call[t].pc = "auth"
  /\ To(t, IF Accepts(t, idp[Who(t)]) THEN Admitted(t) ELSE "done")
  /\ UNCHANGED <<idp, sessions, quotas, accounts, lock,
                 revoked, granted, crowned, clash, failing, accessPlan>>

SignIn(u) ==
  /\ Exists(u) /\ ~idp[u].banned
  /\ u \in accessPlan.again /\ sessions[u] < MaxSessions  \* the bound
  /\ sessions' = [sessions EXCEPT ![u] = @ + 1]
  /\ UNCHANGED <<idp, quotas, accounts, call, lock,
                 revoked, granted, crowned, clash, failing, accessPlan>>

------------------------------------------------------------------------------
(* update_identity_user *)

ReadMeta(t) ==
  /\ call[t].pc = "read"
  /\ IF ~Exists(Whom(t)) THEN To(t, "done")
     ELSE call' = [call EXCEPT ![t].pc = "write", ![t].meta = idp[Whom(t)],
                               ![t].cutoff = sessions[Whom(t)]]
  /\ UNCHANGED <<idp, sessions, quotas, accounts, lock,
                 revoked, granted, crowned, clash, failing, accessPlan>>

Forces(t) == Kind(t) \in {"logout", "purge"} \/ Body(t).password \/ Body(t).ban = "disable"
TouchesMeta(t) == Forces(t) \/ Body(t).role # "as_is" \/ Body(t).quota # Absent
Normalized(q) == IF q < 0 THEN 0 ELSE IF q > MaxQuota THEN MaxQuota ELSE q

(* The metadata read before goes back whole, if anything in it changes; the  *)
(* ban has a field of its own.                                               *)
Written(t) ==
  LET body == Body(t)
      base == IF TouchesMeta(t) THEN call[t].meta ELSE idp[Whom(t)]
  IN [role |-> IF body.role = "as_is" THEN base.role ELSE body.role,
      quota |-> IF body.quota = Absent THEN base.quota ELSE Normalized(body.quota),
      cutoff |-> IF Forces(t) THEN call[t].cutoff ELSE base.cutoff,
      banned |-> IF body.ban = "as_is" THEN idp[Whom(t)].banned ELSE body.ban = "disable"]

WriteMeta(t) ==
  /\ call[t].pc = "write"
  /\ IF ~Exists(Whom(t)) THEN To(t, "done") /\ UNCHANGED <<idp, revoked, granted>>
     ELSE /\ idp' = [idp EXCEPT ![Whom(t)] = Written(t)]
          /\ revoked' = IF Forces(t)
                        THEN [revoked EXCEPT ![Whom(t)] = call[t].cutoff] ELSE revoked
          /\ granted' = [granted EXCEPT ![Whom(t)] =
                           IF Written(t).quota > @ THEN Written(t).quota ELSE @]
          /\ To(t, IF Kind(t) = "purge" THEN "wipe" ELSE "clear")
  /\ UNCHANGED <<sessions, quotas, accounts, lock, crowned, clash, failing, accessPlan>>

Uncache(t) ==                                             \* clear_quota_cache
  /\ call[t].pc = "clear"
  /\ quotas' = [quotas EXCEPT ![Whom(t)] = Absent]
  /\ To(t, "done")
  /\ UNCHANGED <<idp, sessions, accounts, lock,
                 revoked, granted, crowned, clash, failing, accessPlan>>

(* purge_tenant_data, between the ban and the deletion of the user. *)
Wipe(t) ==
  /\ call[t].pc = "wipe"
  /\ accounts' = [accounts EXCEPT ![Whom(t)] = {}]
  /\ To(t, "delete")
  /\ UNCHANGED <<idp, sessions, quotas, lock,
                 revoked, granted, crowned, clash, failing, accessPlan>>

DeleteUser(t) ==
  /\ call[t].pc = "delete"
  /\ IF ~Exists(Whom(t)) THEN To(t, "done") /\ UNCHANGED idp
     ELSE idp' = [idp EXCEPT ![Whom(t)] = Deleted] /\ To(t, "clear")
  /\ UNCHANGED <<sessions, quotas, accounts, lock,
                 revoked, granted, crowned, clash, failing, accessPlan>>

NewRole(t) == IF Body(t).role = "admin" THEN "admin" ELSE "user"
CreateUser(t) ==
  /\ call[t].pc = "create"
  /\ IF idp[Whom(t)] # Absent THEN To(t, "done") /\ UNCHANGED idp
     ELSE idp' = [idp EXCEPT ![Whom(t)] = Fresh(NewRole(t))] /\ To(t, "clear")
  /\ UNCHANGED <<sessions, quotas, accounts, lock,
                 revoked, granted, crowned, clash, failing, accessPlan>>

------------------------------------------------------------------------------
(* bootstrap_admin: one at a time, and only while there is no administrator. *)

TakeLock(t) ==
  /\ call[t].pc = "lock" /\ lock = Absent
  /\ lock' = t /\ To(t, "look")
  /\ UNCHANGED <<idp, sessions, quotas, accounts,
                 revoked, granted, crowned, clash, failing, accessPlan>>

Look(t) ==
  /\ call[t].pc = "look"
  /\ IF \E u \in Users : Exists(u) /\ idp[u].role = "admin"
     THEN To(t, "done") /\ lock' = Absent
     ELSE To(t, "make") /\ UNCHANGED lock
  /\ UNCHANGED <<idp, sessions, quotas, accounts,
                 revoked, granted, crowned, clash, failing, accessPlan>>

Make(t) ==
  /\ call[t].pc = "make"
  /\ IF idp[Whom(t)] # Absent THEN UNCHANGED <<idp, crowned>>
     ELSE /\ idp' = [idp EXCEPT ![Whom(t)] = Fresh("admin")]
          /\ crowned' = crowned \union {Whom(t)}
  /\ lock' = Absent /\ To(t, "done")
  /\ UNCHANGED <<sessions, quotas, accounts,
                 revoked, granted, clash, failing, accessPlan>>

------------------------------------------------------------------------------
(* assert_account_capacity, then the insert that it is for. *)

Lookup(t) ==                                             \* quotas_for_user
  /\ call[t].pc = "lookup"
  /\ call' = IF quotas[Who(t)] = Absent THEN [call EXCEPT ![t].pc = "fetch"]
             ELSE [call EXCEPT ![t].pc = "count", ![t].limit = quotas[Who(t)]]
  /\ UNCHANGED <<idp, sessions, quotas, accounts, lock,
                 revoked, granted, crowned, clash, failing, accessPlan>>

Fetch(t) ==
  /\ call[t].pc = "fetch"
  /\ LET Got(limit) == call' = [call EXCEPT ![t].pc = "store", ![t].limit = limit] IN
     \/ Exists(Who(t)) /\ Got(idp[Who(t)].quota) /\ UNCHANGED failing
     \/ /\ ~Exists(Who(t)) \/ accessPlan.fail
        /\ Got(DefaultQuota) /\ failing' = TRUE
  /\ UNCHANGED <<idp, sessions, quotas, accounts, lock,
                 revoked, granted, crowned, clash, accessPlan>>

Store(t) ==
  /\ call[t].pc = "store"
  /\ quotas' = [quotas EXCEPT ![Who(t)] = call[t].limit]
  /\ To(t, "count")
  /\ UNCHANGED <<idp, sessions, accounts, lock,
                 revoked, granted, crowned, clash, failing, accessPlan>>

Expire(u) ==
  /\ quotas[u] # Absent /\ quotas' = [quotas EXCEPT ![u] = Absent]
  /\ UNCHANGED <<idp, sessions, accounts, call, lock,
                 revoked, granted, crowned, clash, failing, accessPlan>>

Count(t) ==
  /\ call[t].pc = "count"
  /\ To(t, IF Cardinality(accounts[Who(t)]) + 1 > call[t].limit THEN "done" ELSE "insert")
  /\ UNCHANGED <<idp, sessions, quotas, accounts, lock,
                 revoked, granted, crowned, clash, failing, accessPlan>>

AddAccount(t) ==
  /\ call[t].pc = "insert"
  /\ accounts' = [accounts EXCEPT ![Who(t)] = @ \union {t}]
  /\ To(t, "done")
  /\ UNCHANGED <<idp, sessions, quotas, lock,
                 revoked, granted, crowned, clash, failing, accessPlan>>

------------------------------------------------------------------------------
(* A call to Supabase or to the database raises, before it has changed       *)
(* anything or (what had to be cleared is not) after: the request ends.      *)
Remote == {"auth", "read", "write", "clear", "wipe", "delete", "create", "look", "make", "count",
           "insert"}
GiveUp(t) ==
  /\ accessPlan.fail /\ call[t].pc \in Remote
  /\ To(t, "done") /\ failing' = TRUE
  /\ lock' = IF call[t].pc \in {"look", "make"} THEN Absent ELSE lock
  /\ UNCHANGED <<idp, sessions, quotas, accounts,
                 revoked, granted, crowned, clash, accessPlan>>

AccessProgress ==
  \E t \in Callers :
    \/ Authenticate(t) \/ ReadMeta(t) \/ WriteMeta(t) \/ Uncache(t) \/ Wipe(t) \/ DeleteUser(t)
    \/ CreateUser(t) \/ TakeLock(t) \/ Look(t) \/ Make(t)
    \/ Lookup(t) \/ Fetch(t) \/ Store(t) \/ Count(t) \/ AddAccount(t)

AccessEvent ==
  (\E t \in Callers : Arrive(t) \/ GiveUp(t)) \/ (\E u \in Users : SignIn(u) \/ Expire(u))

AccessNext == AccessProgress \/ AccessEvent

AccessSpec == AccessInit /\ [][AccessNext]_accessVars /\ WF_accessVars(AccessProgress)
==============================================================================
