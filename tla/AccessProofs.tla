----------------------------- MODULE AccessProofs -----------------------------
(***************************************************************************)
(* AccessInv holds in every reachable state, for any users, requests and    *)
(* scenarios.  First what each step of a request changes (...Step), then    *)
(* what all of them leave alone (WorksStep); a step of the specification is *)
(* of a request that comes, of one that goes on or gives up, or of none     *)
(* (FourWays).  Then one lemma for each part of AccessInv (...Kept).        *)
(***************************************************************************)
EXTENDS AccessProperties, TLAPS, FiniteSetTheorems

\* What a step of t leaves alone: the other requests, and what t has read.
Others(t) == \A v \in Callers \ {t} : call'[v] = call[v]
Keeps(t) ==
  /\ call'[t].session = call[t].session /\ call'[t].meta = call[t].meta
  /\ call'[t].cutoff = call[t].cutoff /\ call'[t].limit = call[t].limit
  /\ call'[t].floor = call[t].floor
Calling == call' \in [Callers -> Call]

\* What a request asks for, of whom, is fixed.
LEMMA Names ==
  ASSUME AccessTypeOK, NEW t \in Callers
  PROVE  /\ Kind(t) \in AccessKinds /\ Who(t) \in Users /\ Whom(t) \in Users
         /\ Body(t) \in Bodies
         /\ Kind(t) = "purge" => Body(t).ban = "disable" /\ Body(t).quota = Absent
         /\ Kind(t) \in {"purge", "logout"} => Body(t).role = "as_is"
         /\ Kind(t) = "logout" => Body(t).ban = "as_is"
<1>1. accessPlan \in AccessScenario
  BY AccessAssumption DEF AccessTypeOK
<1>2. accessPlan.does[t] \in [kind : AccessKinds, who : Users, whom : Users,
                                body : Bodies]
  BY <1>1 DEF AccessScenario
<1>3. NoBody \in Bodies /\ NoBody.ban = "as_is" /\ NoBody.role = "as_is" /\ [NoBody EXCEPT !.ban = "disable"] \in Bodies
      /\ [NoBody EXCEPT !.ban = "disable"].ban = "disable"
      /\ [NoBody EXCEPT !.ban = "disable"].role = "as_is"
      /\ [NoBody EXCEPT !.ban = "disable"].quota = Absent
  BY DEF NoBody, Bodies
<1>4. /\ Kind(t) = "purge" => Body(t) = [NoBody EXCEPT !.ban = "disable"]
      /\ Kind(t) = "logout" => Body(t) = NoBody
      /\ Kind(t) \notin {"purge", "logout"} => Body(t) = accessPlan.does[t].body
  BY DEF Body
<1>5. QED
  BY <1>2, <1>3, <1>4 DEF Kind, Who, Whom

\* A request that goes to a step, and keeps what it has read.
LEMMA Moves ==
  ASSUME AccessTypeOK, NEW t \in Callers, NEW pc \in CallPcs, To(t, pc)
  PROVE  Calling /\ Others(t) /\ Keeps(t) /\ call'[t].pc = pc
BY DEF AccessTypeOK, Call, To, Calling, Others, Keeps

\* The steps of a request, one by one: where it goes and what it changes.
LEMMA ArriveStep ==
  ASSUME AccessTypeOK, NEW t \in Callers, Arrive(t)
  PROVE  /\ Calling /\ Others(t) /\ call[t].pc = "off" /\ Kind(t) # "rest"
         /\ \/ Kind(t) = "bootstrap" /\ call'[t].pc = "lock" /\ Keeps(t)
            \/ /\ Kind(t) # "bootstrap" /\ call'[t].pc = "auth" /\ call'[t].session > 0
               /\ call'[t].floor = revoked[Who(t)] /\ call'[t].limit = call[t].limit
         /\ clash' = clash \union {{t, u} : u \in InWork}
         /\ UNCHANGED <<idp, sessions, quotas, accounts, lock,
                        revoked, granted, crowned, failing, accessPlan>>
<1>1. Who(t) \in Users
  BY Names
<1>2. CASE Kind(t) = "bootstrap"
  <2>1. To(t, "lock")
    BY <1>2 DEF Arrive
  <2>2. QED
    BY <1>2, <2>1, Moves DEF Arrive, CallPcs
<1>3. CASE Kind(t) # "bootstrap"
  <2>1. PICK s \in 1..sessions[Who(t)] :
          call' = [call EXCEPT ![t].pc = "auth", ![t].session = s, ![t].floor = revoked[Who(t)]]
    BY <1>3 DEF Arrive
  <2>2. s \in 0..MaxSessions /\ s > 0 /\ revoked[Who(t)] \in 0..MaxSessions
    <3>1. sessions[Who(t)] \in 0..MaxSessions /\ MaxSessions \in Nat
      BY <1>1, AccessAssumption DEF AccessTypeOK
    <3>2. QED
      BY <1>1, <3>1 DEF AccessTypeOK
  <2>3. Calling /\ Others(t) /\ call'[t].pc = "auth" /\ call'[t].session = s
        /\ call'[t].floor = revoked[Who(t)] /\ call'[t].limit = call[t].limit
    <3> DEFINE f == revoked[Who(t)]
               new == [call[t] EXCEPT !.pc = "auth", !.session = s, !.floor = f]
    <3>1. f \in 0..MaxSessions /\ call[t] \in Call /\ call \in [Callers -> Call]
      BY <2>2 DEF AccessTypeOK
    <3>2. call' = [call EXCEPT ![t] = new]
      BY <2>1, <3>1
    <3> HIDE DEF f
    <3>3. new \in Call /\ new.pc = "auth" /\ new.session = s /\ new.floor = f
          /\ new.limit = call[t].limit
      BY <2>2, <3>1 DEF Call, CallPcs
    <3> HIDE DEF new
    <3>4. call' \in [Callers -> Call] /\ call'[t] = new /\ \A v \in Callers \ {t} : call'[v] = call[v]
      BY <3>1, <3>2, <3>3
    <3>5. QED
      BY <3>3, <3>4 DEF Calling, Others, f
  <2>4. QED
    BY <1>3, <2>2, <2>3 DEF Arrive
<1>4. QED
  BY <1>2, <1>3

\* A request whose record is replaced.
LEMMA Updated ==
  ASSUME AccessTypeOK, NEW t \in Callers, NEW new \in Call, call' = [call EXCEPT ![t] = new]
  PROVE  Calling /\ Others(t) /\ call'[t] = new
BY DEF AccessTypeOK, Calling, Others

\* Users that exist have an identity.
LEMMA Identities ==
  ASSUME AccessTypeOK
  PROVE  /\ \A u \in Users : Exists(u) <=> idp[u] \in Identity
         /\ \A role \in {"admin", "user"} : Fresh(role) \in Identity
         /\ Absent \notin Identity /\ Deleted \notin Identity /\ Absent # Deleted
<1>1. Absent \notin Identity /\ Deleted \notin Identity /\ Absent # Deleted
      /\ DefaultQuota \in 0..MaxQuota
  BY AccessAssumption
<1>2. \A u \in Users : Exists(u) <=> idp[u] \in Identity
  BY <1>1 DEF AccessTypeOK, Exists
<1>3. \A role \in {"admin", "user"} : Fresh(role) \in Identity
  BY <1>1 DEF Fresh, Identity
<1>4. QED
  BY <1>1, <1>2, <1>3

\* Who passes the gate goes to the first step of its kind.
LEMMA AuthenticateStep ==
  ASSUME AccessTypeOK, StepsMatch, NEW t \in Callers, Authenticate(t)
  PROVE  /\ Calling /\ Others(t) /\ Keeps(t) /\ call[t].pc = "auth"
         /\ call'[t].pc \in {"read", "delete", "create", "lookup", "done"}
         /\ call'[t].pc # "done" =>
              /\ Accepts(t, idp[Who(t)])
              /\ Kind(t) \in StepsOf(call'[t].pc)
         /\ UNCHANGED <<idp, sessions, quotas, accounts, lock,
                        revoked, granted, crowned, clash, failing, accessPlan>>
<1>1. Kind(t) \in AdminKinds \union {"add"}
  BY DEF StepsMatch, StepsOf, Authenticate
<1>2. /\ Admitted(t) \in {"read", "delete", "create", "lookup"}
      /\ Kind(t) \in StepsOf(Admitted(t))
  <2>1. CASE Kind(t) \in Changes
    BY <2>1 DEF Admitted, StepsOf, Changes
  <2>2. CASE Kind(t) \in {"delete", "create"}
    BY <2>2 DEF Admitted, StepsOf, Changes
  <2>3. CASE Kind(t) = "add"
    BY <2>3 DEF Admitted, StepsOf, Changes
  <2>4. QED
    BY <1>1, <2>1, <2>2, <2>3 DEF AdminKinds
<1>3. CASE Accepts(t, idp[Who(t)])
  <2>1. To(t, Admitted(t)) /\ Admitted(t) \in CallPcs
    BY <1>2, <1>3 DEF Authenticate, CallPcs
  <2>2. QED
    BY <1>2, <1>3, <2>1, Moves DEF Authenticate
<1>4. CASE ~Accepts(t, idp[Who(t)])
  <2>1. To(t, "done")
    BY <1>4 DEF Authenticate
  <2>2. QED
    BY <2>1, Moves DEF Authenticate, CallPcs
<1>5. QED
  BY <1>3, <1>4

\* A change reads the metadata and the last session there is.
LEMMA ReadMetaStep ==
  ASSUME AccessTypeOK, StepsMatch, NEW t \in Callers, ReadMeta(t)
  PROVE  /\ Calling /\ Others(t) /\ call[t].pc = "read"
         /\ call'[t].session = call[t].session /\ call'[t].floor = call[t].floor
         /\ call'[t].limit = call[t].limit
         /\ \/ call'[t].pc = "done"
            \/ /\ call'[t].pc = "write" /\ Exists(Whom(t)) /\ call'[t].meta = idp[Whom(t)]
               /\ call'[t].cutoff = sessions[Whom(t)]
         /\ UNCHANGED <<idp, sessions, quotas, accounts, lock,
                        revoked, granted, crowned, clash, failing, accessPlan>>
<1>1. CASE ~Exists(Whom(t))
  <2>1. To(t, "done")
    BY <1>1 DEF ReadMeta
  <2>2. QED
    BY <2>1, Moves DEF ReadMeta, CallPcs, Keeps
<1>2. CASE Exists(Whom(t))
  <2> DEFINE m == idp[Whom(t)]
             c == sessions[Whom(t)]
             new == [call[t] EXCEPT !.pc = "write", !.meta = m, !.cutoff = c]
  <2>1. m \in Identity /\ c \in 0..MaxSessions /\ call[t] \in Call /\ call \in [Callers -> Call]
    BY <1>2, Names, Identities DEF AccessTypeOK
  <2>2. call' = [call EXCEPT ![t] = new]
    BY <1>2, <2>1 DEF ReadMeta
  <2> HIDE DEF m, c
  <2>3. /\ new \in Call /\ new.pc = "write" /\ new.meta = m /\ new.cutoff = c
        /\ new.session = call[t].session /\ new.floor = call[t].floor
        /\ new.limit = call[t].limit
    BY <2>1 DEF Call, CallPcs
  <2> HIDE DEF new
  <2>4. Calling /\ Others(t) /\ call'[t] = new
    BY <2>2, <2>3, Updated
  <2>5. QED
    BY <1>2, <2>3, <2>4 DEF ReadMeta, m, c
<1>3. QED
  BY <1>1, <1>2

\* What a change writes.
LEMMA WrittenIs ==
  ASSUME AccessTypeOK, StepsMatch, NEW t \in Callers, call[t].pc = "write", Exists(Whom(t))
  PROVE  LET old == idp[Whom(t)] IN
         /\ Kind(t) \in Changes
         /\ call[t].meta \in Identity /\ old \in Identity /\ Written(t) \in Identity
         /\ Written(t).cutoff \in {old.cutoff, call[t].cutoff, call[t].meta.cutoff}
         /\ Forces(t) => Written(t).cutoff = call[t].cutoff
         /\ Kind(t) = "purge" => Written(t).quota = call[t].meta.quota
         /\ ~Ousts(t) /\ old.role = "admin" /\ call[t].meta.role = "admin" =>
              Written(t).role = "admin"
         /\ ~Ousts(t) /\ ~old.banned => ~Written(t).banned
<1> DEFINE old == idp[Whom(t)]
           m == call[t].meta
           body == Body(t)
           base == IF TouchesMeta(t) THEN m ELSE old
<1>1. Kind(t) \in Changes
  BY DEF StepsMatch, StepsOf
<1>2. old \in Identity /\ m \in Identity /\ base \in Identity /\ call[t].cutoff \in Nat
      /\ body \in Bodies
  BY Names, Identities, AccessAssumption DEF AccessTypeOK, Call, StepsMatch
<1> DEFINE r == IF body.role = "as_is" THEN base.role ELSE body.role
           q == IF body.quota = Absent THEN base.quota ELSE Normalized(body.quota)
           c == IF Forces(t) THEN call[t].cutoff ELSE base.cutoff
           b == IF body.ban = "as_is" THEN old.banned ELSE body.ban = "disable"
<1>3. Written(t) = [role |-> r, quota |-> q, cutoff |-> c, banned |-> b]
  BY DEF Written
<1>4. q \in 0..MaxQuota
  <2>1. body.quota # Absent => body.quota \in Int
    BY <1>2 DEF Bodies
  <2>2. body.quota # Absent => Normalized(body.quota) \in 0..MaxQuota
    BY <2>1, AccessAssumption DEF Normalized
  <2>3. QED
    BY <1>2, <2>2 DEF Identity
<1>5. r \in {"admin", "user"} /\ c \in Nat /\ b \in BOOLEAN
  BY <1>2 DEF Identity, Bodies
<1>6. c \in {old.cutoff, call[t].cutoff, m.cutoff} /\ (Forces(t) => c = call[t].cutoff)
  OBVIOUS
<1>7. Kind(t) = "purge" => q = m.quota
  BY Names DEF TouchesMeta, Forces
<1>8. /\ ~Ousts(t) /\ old.role = "admin" /\ m.role = "admin" => r = "admin"
      /\ ~Ousts(t) /\ ~old.banned => ~b
  <2>1. ~Ousts(t) => body.role \in {"as_is", "admin"} /\ body.ban \in {"as_is", "enable"}
    BY <1>1, <1>2, Names DEF Ousts, Changes, Bodies
  <2>2. QED
    BY <2>1
<1> HIDE DEF r, q, c, b
<1>9. /\ Written(t) \in Identity
      /\ Written(t).role = r /\ Written(t).quota = q /\ Written(t).cutoff = c
      /\ Written(t).banned = b
  BY <1>3, <1>4, <1>5 DEF Identity
<1>10. QED
  BY <1>1, <1>2, <1>6, <1>7, <1>8, <1>9

\* A change writes, or ends if its user is gone.
LEMMA WriteMetaStep ==
  ASSUME AccessTypeOK, StepsMatch, NEW t \in Callers, WriteMeta(t)
  PROVE  /\ Calling /\ Others(t) /\ Keeps(t) /\ call[t].pc = "write"
         /\ \/ call'[t].pc = "done" /\ ~Exists(Whom(t)) /\ UNCHANGED <<idp, revoked, granted>>
            \/ /\ Exists(Whom(t)) /\ idp' = [idp EXCEPT ![Whom(t)] = Written(t)]
               /\ revoked' = IF Forces(t)
                             THEN [revoked EXCEPT ![Whom(t)] = call[t].cutoff] ELSE revoked
               /\ granted' = [granted EXCEPT ![Whom(t)] =
                    IF Written(t).quota > granted[Whom(t)] THEN Written(t).quota
                    ELSE granted[Whom(t)]]
               /\ call'[t].pc = IF Kind(t) = "purge" THEN "wipe" ELSE "clear"
         /\ UNCHANGED <<sessions, quotas, accounts, lock, crowned, clash, failing, accessPlan>>
<1>1. CASE ~Exists(Whom(t))
  <2>1. To(t, "done")
    BY <1>1 DEF WriteMeta
  <2>2. QED
    BY <1>1, <2>1, Moves DEF WriteMeta, CallPcs
<1>2. CASE Exists(Whom(t))
  <2>1. To(t, IF Kind(t) = "purge" THEN "wipe" ELSE "clear")
    BY <1>2 DEF WriteMeta
  <2>2. QED
    BY <1>2, <2>1, Moves DEF WriteMeta, CallPcs
<1>3. QED
  BY <1>1, <1>2

\* The cached quota is cleared.
LEMMA UncacheStep ==
  ASSUME AccessTypeOK, NEW t \in Callers, Uncache(t)
  PROVE  /\ Calling /\ Others(t) /\ Keeps(t) /\ call[t].pc = "clear" /\ call'[t].pc = "done"
         /\ quotas' = [quotas EXCEPT ![Whom(t)] = Absent]
         /\ UNCHANGED <<idp, sessions, accounts, lock,
                        revoked, granted, crowned, clash, failing, accessPlan>>
BY Moves DEF Uncache, CallPcs

\* A purge removes the rows of its tenant.
LEMMA WipeStep ==
  ASSUME AccessTypeOK, NEW t \in Callers, Wipe(t)
  PROVE  /\ Calling /\ Others(t) /\ Keeps(t) /\ call[t].pc = "wipe" /\ call'[t].pc = "delete"
         /\ accounts' = [accounts EXCEPT ![Whom(t)] = {}]
         /\ UNCHANGED <<idp, sessions, quotas, lock,
                        revoked, granted, crowned, clash, failing, accessPlan>>
BY Moves DEF Wipe, CallPcs

\* A user is deleted, if there is one.
LEMMA DeleteUserStep ==
  ASSUME AccessTypeOK, NEW t \in Callers, DeleteUser(t)
  PROVE  /\ Calling /\ Others(t) /\ Keeps(t) /\ call[t].pc = "delete"
         /\ \/ call'[t].pc = "done" /\ ~Exists(Whom(t)) /\ idp' = idp
            \/ /\ call'[t].pc = "clear" /\ Exists(Whom(t))
               /\ idp' = [idp EXCEPT ![Whom(t)] = Deleted]
         /\ UNCHANGED <<sessions, quotas, accounts, lock,
                        revoked, granted, crowned, clash, failing, accessPlan>>
<1>1. CASE ~Exists(Whom(t))
  BY <1>1, Moves DEF DeleteUser, CallPcs
<1>2. CASE Exists(Whom(t))
  BY <1>2, Moves DEF DeleteUser, CallPcs
<1>3. QED
  BY <1>1, <1>2

\* A user is created, if its id is new.
LEMMA CreateUserStep ==
  ASSUME AccessTypeOK, NEW t \in Callers, CreateUser(t)
  PROVE  /\ Calling /\ Others(t) /\ Keeps(t) /\ call[t].pc = "create"
         /\ \/ call'[t].pc = "done" /\ idp' = idp
            \/ /\ call'[t].pc = "clear" /\ idp[Whom(t)] = Absent
               /\ idp' = [idp EXCEPT ![Whom(t)] = Fresh(NewRole(t))]
         /\ UNCHANGED <<sessions, quotas, accounts, lock,
                        revoked, granted, crowned, clash, failing, accessPlan>>
<1>1. CASE idp[Whom(t)] # Absent
  BY <1>1, Moves DEF CreateUser, CallPcs
<1>2. CASE idp[Whom(t)] = Absent
  BY <1>2, Moves DEF CreateUser, CallPcs
<1>3. QED
  BY <1>1, <1>2

\* A bootstrap takes the lock.
LEMMA TakeLockStep ==
  ASSUME AccessTypeOK, NEW t \in Callers, TakeLock(t)
  PROVE  /\ Calling /\ Others(t) /\ Keeps(t) /\ call[t].pc = "lock" /\ call'[t].pc = "look"
         /\ lock = Absent /\ lock' = t
         /\ UNCHANGED <<idp, sessions, quotas, accounts,
                        revoked, granted, crowned, clash, failing, accessPlan>>
BY Moves DEF TakeLock, CallPcs

Admins == {u \in Users : Exists(u) /\ idp[u].role = "admin"}

\* A bootstrap goes on only if there is no administrator.
LEMMA LookStep ==
  ASSUME AccessTypeOK, NEW t \in Callers, Look(t)
  PROVE  /\ Calling /\ Others(t) /\ Keeps(t) /\ call[t].pc = "look"
         /\ \/ call'[t].pc = "done" /\ lock' = Absent
            \/ call'[t].pc = "make" /\ lock' = lock /\ Admins = {}
         /\ UNCHANGED <<idp, sessions, quotas, accounts,
                        revoked, granted, crowned, clash, failing, accessPlan>>
<1>1. CASE Admins # {}
  <2>1. To(t, "done") /\ lock' = Absent
    BY <1>1 DEF Look, Admins
  <2>2. QED
    BY <2>1, Moves DEF Look, CallPcs
<1>2. CASE Admins = {}
  <2>1. To(t, "make") /\ lock' = lock
    BY <1>2 DEF Look, Admins
  <2>2. QED
    BY <1>2, <2>1, Moves DEF Look, CallPcs
<1>3. QED
  BY <1>1, <1>2

\* A bootstrap makes its user the administrator, if its id is new.
LEMMA MakeStep ==
  ASSUME AccessTypeOK, NEW t \in Callers, Make(t)
  PROVE  /\ Calling /\ Others(t) /\ Keeps(t) /\ call[t].pc = "make" /\ call'[t].pc = "done"
         /\ lock' = Absent
         /\ \/ idp[Whom(t)] # Absent /\ idp' = idp /\ crowned' = crowned
            \/ /\ idp[Whom(t)] = Absent /\ idp' = [idp EXCEPT ![Whom(t)] = Fresh("admin")]
               /\ crowned' = crowned \union {Whom(t)}
         /\ UNCHANGED <<sessions, quotas, accounts, revoked, granted, clash, failing, accessPlan>>
BY Moves DEF Make, CallPcs

\* A call fails and the request ends, without the lock.
LEMMA GiveUpStep ==
  ASSUME AccessTypeOK, NEW t \in Callers, GiveUp(t)
  PROVE  /\ Calling /\ Others(t) /\ Keeps(t) /\ call[t].pc \in Remote /\ call'[t].pc = "done"
         /\ failing' = TRUE
         /\ \/ lock' = lock /\ call[t].pc \notin {"look", "make"}
            \/ lock' = Absent /\ call[t].pc \in {"look", "make"}
         /\ UNCHANGED <<idp, sessions, quotas, accounts, revoked, granted, crowned, clash, accessPlan>>
BY Moves DEF GiveUp, CallPcs

\* A request that learns a limit.
LEMMA Learns ==
  ASSUME AccessTypeOK, NEW t \in Callers, NEW pc \in CallPcs, NEW limit \in 0..MaxQuota,
         call' = [call EXCEPT ![t].pc = pc, ![t].limit = limit]
  PROVE  /\ Calling /\ Others(t) /\ call'[t].pc = pc /\ call'[t].limit = limit
         /\ call'[t].session = call[t].session /\ call'[t].floor = call[t].floor
<1> DEFINE new == [call[t] EXCEPT !.pc = pc, !.limit = limit]
<1>1. call[t] \in Call /\ call \in [Callers -> Call]
  BY DEF AccessTypeOK
<1>2. call' = [call EXCEPT ![t] = new]
  BY <1>1
<1>3. /\ new \in Call /\ new.pc = pc /\ new.limit = limit
      /\ new.session = call[t].session /\ new.floor = call[t].floor
  BY <1>1 DEF Call
<1> HIDE DEF new
<1>4. QED
  BY <1>2, <1>3, Updated

\* A quota is looked up in the cache.
LEMMA LookupStep ==
  ASSUME AccessTypeOK, NEW t \in Callers, Lookup(t)
  PROVE  /\ Calling /\ Others(t) /\ call[t].pc = "lookup"
         /\ \/ call'[t].pc = "fetch" /\ call'[t].limit = call[t].limit
            \/ /\ call'[t].pc = "count" /\ quotas[Who(t)] # Absent
               /\ call'[t].limit = quotas[Who(t)]
         /\ call'[t].session = call[t].session /\ call'[t].floor = call[t].floor
         /\ UNCHANGED <<idp, sessions, quotas, accounts, lock,
                        revoked, granted, crowned, clash, failing, accessPlan>>
<1>1. CASE quotas[Who(t)] = Absent
  <2>1. To(t, "fetch")
    BY <1>1 DEF Lookup, To
  <2>2. QED
    BY <2>1, Moves DEF Lookup, CallPcs, Keeps
<1>2. CASE quotas[Who(t)] # Absent
  <2>1. quotas[Who(t)] \in 0..MaxQuota
    BY <1>2, Names DEF AccessTypeOK
  <2>2. call' = [call EXCEPT ![t].pc = "count", ![t].limit = quotas[Who(t)]]
    BY <1>2 DEF Lookup
  <2> DEFINE q == quotas[Who(t)]
  <2> HIDE DEF q
  <2>3. call' = [call EXCEPT ![t].pc = "count", ![t].limit = q] /\ q \in 0..MaxQuota
    BY <2>1, <2>2 DEF q
  <2>4. /\ Calling /\ Others(t) /\ call'[t].pc = "count" /\ call'[t].limit = q
        /\ call'[t].session = call[t].session /\ call'[t].floor = call[t].floor
    BY <2>3, Learns DEF CallPcs
  <2>5. QED
    BY <1>2, <2>4 DEF q, Lookup
<1>3. QED
  BY <1>1, <1>2

\* A quota is fetched, or the default one is used.
LEMMA FetchStep ==
  ASSUME AccessTypeOK, NEW t \in Callers, Fetch(t)
  PROVE  /\ Calling /\ Others(t) /\ call[t].pc = "fetch" /\ call'[t].pc = "store"
         /\ call'[t].session = call[t].session /\ call'[t].floor = call[t].floor
         /\ \/ Exists(Who(t)) /\ call'[t].limit = idp[Who(t)].quota /\ failing' = failing
            \/ call'[t].limit = DefaultQuota /\ failing' = TRUE
         /\ UNCHANGED <<idp, sessions, quotas, accounts, lock,
                        revoked, granted, crowned, clash, accessPlan>>
<1>1. CASE Exists(Who(t)) /\ failing' = failing
            /\ call' = [call EXCEPT ![t].pc = "store", ![t].limit = idp[Who(t)].quota]
  <2> DEFINE q == idp[Who(t)].quota
  <2>1. q \in 0..MaxQuota
    BY <1>1, Names, Identities DEF Identity
  <2> HIDE DEF q
  <2>2. call' = [call EXCEPT ![t].pc = "store", ![t].limit = q]
    BY <1>1 DEF q
  <2>3. Calling /\ Others(t) /\ call'[t].pc = "store" /\ call'[t].limit = q
        /\ call'[t].session = call[t].session /\ call'[t].floor = call[t].floor
    BY <2>1, <2>2, Learns DEF CallPcs
  <2>4. QED
    BY <1>1, <2>3 DEF q, Fetch
<1>2. CASE failing' = TRUE /\ call' = [call EXCEPT ![t].pc = "store", ![t].limit = DefaultQuota]
  <2>1. DefaultQuota \in 0..MaxQuota
    BY AccessAssumption
  <2>2. QED
    BY <1>2, <2>1, Learns DEF CallPcs, Fetch
<1>3. QED
  BY <1>1, <1>2 DEF Fetch

\* The quota that was fetched is cached.
LEMMA StoreStep ==
  ASSUME AccessTypeOK, NEW t \in Callers, Store(t)
  PROVE  /\ Calling /\ Others(t) /\ Keeps(t) /\ call[t].pc = "store" /\ call'[t].pc = "count"
         /\ quotas' = [quotas EXCEPT ![Who(t)] = call[t].limit]
         /\ UNCHANGED <<idp, sessions, accounts, lock,
                        revoked, granted, crowned, clash, failing, accessPlan>>
BY Moves DEF Store, CallPcs

\* The accounts are counted; one more must be within the limit.
LEMMA CountStep ==
  ASSUME AccessTypeOK, NEW t \in Callers, Count(t)
  PROVE  /\ Calling /\ Others(t) /\ Keeps(t) /\ call[t].pc = "count"
         /\ \/ call'[t].pc = "done"
            \/ /\ call'[t].pc = "insert"
               /\ ~(Cardinality(accounts[Who(t)]) + 1 > call[t].limit)
         /\ UNCHANGED <<idp, sessions, quotas, accounts, lock,
                        revoked, granted, crowned, clash, failing, accessPlan>>
<1>1. CASE Cardinality(accounts[Who(t)]) + 1 > call[t].limit
  <2>1. To(t, "done")
    BY <1>1 DEF Count
  <2>2. QED
    BY <2>1, Moves DEF Count, CallPcs
<1>2. CASE ~(Cardinality(accounts[Who(t)]) + 1 > call[t].limit)
  <2>1. To(t, "insert")
    BY <1>2 DEF Count
  <2>2. QED
    BY <1>2, <2>1, Moves DEF Count, CallPcs
<1>3. QED
  BY <1>1, <1>2

\* The account is stored.
LEMMA AddAccountStep ==
  ASSUME AccessTypeOK, NEW t \in Callers, AddAccount(t)
  PROVE  /\ Calling /\ Others(t) /\ Keeps(t) /\ call[t].pc = "insert" /\ call'[t].pc = "done"
         /\ accounts' = [accounts EXCEPT ![Who(t)] = accounts[Who(t)] \union {t}]
         /\ UNCHANGED <<idp, sessions, quotas, lock,
                        revoked, granted, crowned, clash, failing, accessPlan>>
<1>1. accounts' = [accounts EXCEPT ![Who(t)] = accounts[Who(t)] \union {t}]
  BY DEF AddAccount
<1>2. QED
  BY <1>1, Moves DEF AddAccount, CallPcs

-------------------------------------------------------------------------------
Works(t) ==
  \/ Authenticate(t) \/ ReadMeta(t) \/ WriteMeta(t) \/ Uncache(t) \/ Wipe(t) \/ DeleteUser(t)
  \/ CreateUser(t) \/ TakeLock(t) \/ Look(t) \/ Make(t)
  \/ Lookup(t) \/ Fetch(t) \/ Store(t) \/ Count(t) \/ AddAccount(t)

\* What no request at work reads or writes.
Aside ==
  /\ UNCHANGED <<idp, accounts, call, lock,
                 revoked, granted, crowned, clash, failing, accessPlan>>
  /\ sessions' \in [Users -> 0..MaxSessions] /\ quotas' \in [Users -> (0..MaxQuota) \union {Absent}]
  /\ \A u \in Users : sessions[u] <= sessions'[u] /\ quotas'[u] \in {quotas[u], Absent}

\* A step is of a request that comes, of one that goes on or gives up, or of none.
LEMMA FourWays ==
  ASSUME AccessTypeOK, [AccessNext]_accessVars
  PROVE  \/ Aside \/ (\E t \in Callers : Arrive(t)) \/ (\E t \in Callers : GiveUp(t))
         \/ (\E t \in Callers : Works(t))
<1>1. ASSUME NEW u \in Users, SignIn(u) PROVE Aside
  <2>1. sessions \in [Users -> 0..MaxSessions] /\ MaxSessions \in Nat /\ sessions[u] < MaxSessions
    BY <1>1, AccessAssumption DEF AccessTypeOK, SignIn
  <2>2. sessions[u] + 1 \in 0..MaxSessions /\ sessions' = [sessions EXCEPT ![u] = sessions[u] + 1]
    BY <1>1, <2>1 DEF SignIn
  <2>3. sessions' \in [Users -> 0..MaxSessions] /\ \A v \in Users : sessions[v] <= sessions'[v]
    BY <2>1, <2>2
  <2>4. QED
    BY <1>1, <2>3 DEF SignIn, Aside, AccessTypeOK
<1>2. ASSUME NEW u \in Users, Expire(u) PROVE Aside
  BY <1>2 DEF Expire, Aside, AccessTypeOK
<1>3. ASSUME UNCHANGED accessVars PROVE Aside
  BY <1>3 DEF accessVars, Aside, AccessTypeOK
<1>4. QED
  BY <1>1, <1>2, <1>3 DEF AccessNext, AccessProgress, AccessEvent, Works

\* Where a request is tells which step it takes.
LEMMA StepAt ==
  ASSUME NEW t \in Callers, Works(t)
  PROVE  \/ call[t].pc = "auth" /\ Authenticate(t)
         \/ call[t].pc = "read" /\ ReadMeta(t)
         \/ call[t].pc = "write" /\ WriteMeta(t)
         \/ call[t].pc = "clear" /\ Uncache(t)
         \/ call[t].pc = "wipe" /\ Wipe(t)
         \/ call[t].pc = "delete" /\ DeleteUser(t)
         \/ call[t].pc = "create" /\ CreateUser(t)
         \/ call[t].pc = "lock" /\ TakeLock(t)
         \/ call[t].pc = "look" /\ Look(t)
         \/ call[t].pc = "make" /\ Make(t)
         \/ call[t].pc = "lookup" /\ Lookup(t)
         \/ call[t].pc = "fetch" /\ Fetch(t)
         \/ call[t].pc = "store" /\ Store(t)
         \/ call[t].pc = "count" /\ Count(t)
         \/ call[t].pc = "insert" /\ AddAccount(t)
BY DEF Works, Authenticate, ReadMeta, WriteMeta, Uncache, Wipe, DeleteUser, CreateUser, TakeLock,
   Look, Make, Lookup, Fetch, Store, Count, AddAccount

\* Which requests are at which step.
LEMMA StepKinds ==
  /\ StepsOf("off") = AccessKinds /\ StepsOf("done") = AccessKinds
  /\ StepsOf("auth") = AdminKinds \union {"add"}
  /\ StepsOf("read") = Changes /\ StepsOf("write") = Changes /\ StepsOf("clear") = AdminKinds
  /\ StepsOf("wipe") = {"purge"} /\ StepsOf("delete") = {"delete", "purge"}
  /\ StepsOf("create") = {"create"}
  /\ \A pc \in {"lock", "look", "make"} : StepsOf(pc) = {"bootstrap"}
  /\ \A pc \in {"lookup", "fetch", "store", "count", "insert"} : StepsOf(pc) = {"add"}
BY DEF StepsOf

\* Where every step of a request at work leads, and what none of them changes.
LEMMA WorksStep ==
  ASSUME AccessTypeOK, StepsMatch, NEW t \in Callers, Works(t)
  PROVE  /\ Calling /\ Others(t) /\ call[t].pc \notin {"off", "done"}
         /\ call'[t].session = call[t].session /\ call'[t].floor = call[t].floor
         /\ UNCHANGED <<sessions, clash, accessPlan>>
         /\ call'[t].pc \in CallPcs \ {"off", "auth", "lock"}
         /\ call'[t].pc = "read" => call[t].pc = "auth"
         /\ call'[t].pc = "write" => call[t].pc = "read"
         /\ call'[t].pc = "wipe" => call[t].pc = "write" /\ Kind(t) = "purge"
         /\ call'[t].pc = "delete" => call[t].pc \in {"auth", "wipe"}
         /\ call'[t].pc = "create" => call[t].pc = "auth"
         /\ call'[t].pc = "clear" => call[t].pc \in {"write", "delete", "create"}
         /\ call'[t].pc = "make" => call[t].pc = "look"
         /\ call'[t].pc = "look" => call[t].pc = "lock"
         /\ call'[t].pc = "lookup" => call[t].pc = "auth"
         /\ call'[t].pc = "fetch" => call[t].pc = "lookup"
         /\ call'[t].pc = "store" => call[t].pc = "fetch"
         /\ call'[t].pc = "count" => call[t].pc \in {"lookup", "store"}
         /\ call'[t].pc = "insert" => call[t].pc = "count"
         /\ call[t].pc = "auth" /\ call'[t].pc # "done" =>
              Accepts(t, idp[Who(t)]) /\ Kind(t) \in StepsOf(call'[t].pc)
         /\ idp' = idp \/ call[t].pc \in {"write", "delete", "create", "make"}
         /\ revoked' = revoked \/ call[t].pc = "write"
         /\ granted' = granted \/ call[t].pc = "write"
         /\ crowned' = crowned \/ call[t].pc = "make"
         /\ lock' = lock \/ call[t].pc \in {"lock", "look", "make"}
         /\ failing' = failing \/ failing' = TRUE
         /\ quotas' = quotas \/ call[t].pc \in {"clear", "store"}
         /\ accounts' = accounts \/ call[t].pc \in {"wipe", "insert"}
<1>1. CASE Authenticate(t)
  BY <1>1, AuthenticateStep DEF CallPcs, Keeps
<1>2. CASE ReadMeta(t)
  BY <1>2, ReadMetaStep DEF CallPcs, Keeps
<1>3. CASE WriteMeta(t)
  BY <1>3, WriteMetaStep DEF CallPcs, Keeps
<1>4. CASE Uncache(t)
  BY <1>4, UncacheStep DEF CallPcs, Keeps
<1>5. CASE Wipe(t)
  BY <1>5, WipeStep DEF CallPcs, Keeps
<1>6. CASE DeleteUser(t)
  BY <1>6, DeleteUserStep DEF CallPcs, Keeps
<1>7. CASE CreateUser(t)
  BY <1>7, CreateUserStep DEF CallPcs, Keeps
<1>8. CASE TakeLock(t)
  BY <1>8, TakeLockStep DEF CallPcs, Keeps
<1>9. CASE Look(t)
  BY <1>9, LookStep DEF CallPcs, Keeps
<1>10. CASE Make(t)
  BY <1>10, MakeStep DEF CallPcs, Keeps
<1>11. CASE Lookup(t)
  BY <1>11, LookupStep DEF CallPcs, Keeps
<1>12. CASE Fetch(t)
  BY <1>12, FetchStep DEF CallPcs, Keeps
<1>13. CASE Store(t)
  BY <1>13, StoreStep DEF CallPcs, Keeps
<1>14. CASE Count(t)
  BY <1>14, CountStep DEF CallPcs, Keeps
<1>15. CASE AddAccount(t)
  BY <1>15, AddAccountStep DEF CallPcs, Keeps
<1>16. QED
  BY <1>1, <1>2, <1>3, <1>4, <1>5, <1>6, <1>7, <1>8, <1>9, <1>10, <1>11, <1>12,
     <1>13, <1>14, <1>15 DEF Works

\* A request stays at the steps of its kind.
LEMMA KindStep ==
  ASSUME AccessTypeOK, StepsMatch, NEW t \in Callers, Works(t)
  PROVE  Kind(t) \in StepsOf(call'[t].pc)
<1> DEFINE pc == call[t].pc
           next == call'[t].pc
<1>1. Kind(t) \in StepsOf(pc) /\ pc \in CallPcs /\ Kind(t) \in AccessKinds
  BY Names DEF StepsMatch, AccessTypeOK, Call
<1>2. next \in CallPcs \ {"off", "auth", "lock"}
  BY WorksStep
<1>3. CASE pc = "auth"
  <2>1. CASE next = "done"
    BY <1>1, <2>1, StepKinds
  <2>2. CASE next # "done"
    BY <1>3, <2>2, WorksStep
  <2>3. QED
    BY <2>1, <2>2
<1>4. CASE pc # "auth" /\ next \in {"read", "write", "wipe", "delete", "create", "done"}
  BY <1>1, <1>4, WorksStep, StepKinds
<1>5. CASE pc # "auth" /\ next = "clear"
  <2>1. Kind(t) \in Changes \union {"delete", "purge"} \union {"create"}
    BY <1>1, <1>5, WorksStep, StepKinds
  <2>2. QED
    BY <1>5, <2>1, StepKinds DEF AdminKinds, Changes
<1>6. CASE pc # "auth" /\ next \in {"look", "make"}
  BY <1>1, <1>6, WorksStep, StepKinds
<1>7. CASE pc # "auth" /\ next \in {"lookup", "fetch", "store", "count", "insert"}
  BY <1>1, <1>7, WorksStep, StepKinds
<1>8. QED
  BY <1>2, <1>3, <1>4, <1>5, <1>6, <1>7 DEF CallPcs

\* An identity once created is there, changed or deleted, for ever.
LEMMA IdentityStep ==
  ASSUME AccessTypeOK, StepsMatch, NEW t \in Callers, Works(t)
  PROVE  /\ idp' \in [Users -> Identity \union {Absent, Deleted}]
         /\ \A u \in Users : idp[u] # Absent => idp'[u] # Absent
         /\ \A u \in Users : Exists(u)' => Exists(u) \/ idp[u] = Absent
         /\ \A u \in Users \ {Whom(t)} : idp'[u] = idp[u]
<1>0. Whom(t) \in Users /\ Fresh("user") \in Identity /\ Fresh("admin") \in Identity
      /\ Absent \notin Identity /\ Deleted \notin Identity /\ Absent # Deleted
      /\ idp \in [Users -> Identity \union {Absent, Deleted}]
  BY Names, Identities DEF AccessTypeOK
<1>1. CASE idp' = idp
  BY <1>0, <1>1 DEF Exists
<1>2. ASSUME NEW v \in Identity \union {Deleted}, idp' = [idp EXCEPT ![Whom(t)] = v],
             Exists(Whom(t)) \/ idp[Whom(t)] = Absent
      PROVE  /\ idp' \in [Users -> Identity \union {Absent, Deleted}]
             /\ \A u \in Users : idp[u] # Absent => idp'[u] # Absent
             /\ \A u \in Users : Exists(u)' => Exists(u) \/ idp[u] = Absent
             /\ \A u \in Users \ {Whom(t)} : idp'[u] = idp[u]
  BY <1>0, <1>2 DEF Exists
<1>3. CASE call[t].pc = "write" /\ WriteMeta(t)
  BY <1>0, <1>1, <1>2, <1>3, WriteMetaStep, WrittenIs
<1>4. CASE call[t].pc = "delete" /\ DeleteUser(t)
  BY <1>0, <1>1, <1>2, <1>4, DeleteUserStep
<1>5. CASE call[t].pc = "create" /\ CreateUser(t)
  <2>1. Fresh(NewRole(t)) \in Identity
    BY <1>0 DEF NewRole
  <2>2. QED
    BY <1>0, <1>1, <1>2, <1>5, <2>1, CreateUserStep
<1>6. CASE call[t].pc = "make" /\ Make(t)
  BY <1>0, <1>1, <1>2, <1>6, MakeStep
<1>7. QED
  BY <1>1, <1>3, <1>4, <1>5, <1>6, WorksStep, StepAt

-------------------------------------------------------------------------------
\* What stays for ever: what requests ask for, and which of them have met.
LEMMA Fixed ==
  ASSUME AccessTypeOK, StepsMatch, [AccessNext]_accessVars
  PROVE  /\ accessPlan' = accessPlan /\ clash \subseteq clash'
         /\ \A t \in Callers : Kind(t)' = Kind(t) /\ Who(t)' = Who(t) /\ Whom(t)' = Whom(t)
         /\ \A t, v \in Callers : Met(t, v) => Met(t, v)'
         /\ \A u \in Users : Remade(u) => Remade(u)'
         /\ \A u \in Users : AddedTwice(u) => AddedTwice(u)'
         /\ \A u \in Users : Crossed(u) => Crossed(u)'
         /\ Troubled => Troubled'
         /\ \A t \in Callers : Ousts(t)' = Ousts(t) /\ Protected(t)' = Protected(t)
<1>1. accessPlan' = accessPlan /\ clash \subseteq clash'
  <2>1. ASSUME NEW t \in Callers, Works(t) PROVE accessPlan' = accessPlan /\ clash' = clash
    BY <2>1, WorksStep
  <2>2. ASSUME NEW t \in Callers, Arrive(t) PROVE accessPlan' = accessPlan /\ clash \subseteq clash'
    BY <2>2, ArriveStep
  <2>3. ASSUME NEW t \in Callers, GiveUp(t) PROVE accessPlan' = accessPlan /\ clash' = clash
    BY <2>3, GiveUpStep
  <2>4. QED
    BY <2>1, <2>2, <2>3, FourWays DEF Aside
<1>2. \A t \in Callers : Kind(t)' = Kind(t) /\ Who(t)' = Who(t) /\ Whom(t)' = Whom(t)
  BY <1>1 DEF Kind, Who, Whom
<1>a. \A t \in Callers : Ousts(t)' = Ousts(t) /\ Protected(t)' = Protected(t)
  BY <1>1 DEF Ousts, Protected, Body, Kind
<1>3. \A t, v \in Callers : Met(t, v) => Met(t, v)'
  BY <1>1 DEF Met
<1>4. \A u \in Users : Remade(u) => Remade(u)'
  BY <1>2, <1>3 DEF Remade, TwoMet
<1>5. \A u \in Users : AddedTwice(u) => AddedTwice(u)'
  BY <1>2, <1>3 DEF AddedTwice, TwoMet
<1>6. \A u \in Users : Crossed(u) => Crossed(u)'
  BY <1>2, <1>3 DEF Crossed
<1>7. Troubled => Troubled'
  BY <1>2, <1>a, <1>3, <1>4 DEF TwoMet, Troubled
<1>8. QED
  BY <1>1, <1>2, <1>a, <1>3, <1>4, <1>5, <1>6, <1>7

\* Every step keeps the types.
LEMMA TypeKept ==
  ASSUME AccessTypeOK, StepsMatch, [AccessNext]_accessVars
  PROVE  AccessTypeOK'
<1>1. CASE Aside
  BY <1>1 DEF Aside, AccessTypeOK
<1>2. ASSUME NEW t \in Callers, Arrive(t) PROVE AccessTypeOK'
  <2>1. clash' \subseteq SUBSET Callers
    BY <1>2, ArriveStep DEF AccessTypeOK, InWork
  <2>2. QED
    BY <1>2, <2>1, ArriveStep DEF AccessTypeOK, Calling
<1>3. ASSUME NEW t \in Callers, Works(t) PROVE AccessTypeOK'
  <2>1. /\ accessPlan' \in AccessScenarios /\ sessions' \in [Users -> 0..MaxSessions]
        /\ call' \in [Callers -> Call] /\ clash' \subseteq SUBSET Callers
        /\ idp' \in [Users -> Identity \union {Absent, Deleted}]
    BY <1>3, WorksStep, IdentityStep DEF AccessTypeOK, Calling
  <2>2. Who(t) \in Users /\ Whom(t) \in Users /\ call[t] \in Call
    BY Names DEF AccessTypeOK
  <2>3. quotas' \in [Users -> (0..MaxQuota) \union {Absent}]
    <3>1. CASE call[t].pc = "clear" /\ Uncache(t)
      BY <2>2, <3>1, UncacheStep DEF AccessTypeOK
    <3>2. CASE call[t].pc = "store" /\ Store(t)
      BY <2>2, <3>2, StoreStep DEF AccessTypeOK, Call
    <3>3. QED
      BY <1>3, <3>1, <3>2, WorksStep, StepAt DEF AccessTypeOK
  <2>4. accounts' \in [Users -> SUBSET Callers]
    <3>1. CASE call[t].pc = "wipe" /\ Wipe(t)
      BY <2>2, <3>1, WipeStep DEF AccessTypeOK
    <3>2. CASE call[t].pc = "insert" /\ AddAccount(t)
      BY <2>2, <3>2, AddAccountStep DEF AccessTypeOK
    <3>3. QED
      BY <1>3, <3>1, <3>2, WorksStep, StepAt DEF AccessTypeOK
  <2>5. lock' \in Callers \union {Absent}
    <3>1. CASE call[t].pc = "lock" /\ TakeLock(t)
      BY <3>1, TakeLockStep
    <3>2. CASE call[t].pc = "look" /\ Look(t)
      BY <3>2, LookStep DEF AccessTypeOK
    <3>3. CASE call[t].pc = "make" /\ Make(t)
      BY <3>3, MakeStep
    <3>4. QED
      BY <1>3, <3>1, <3>2, <3>3, WorksStep, StepAt DEF AccessTypeOK
  <2>6. revoked' \in [Users -> 0..MaxSessions]
    <3>1. CASE call[t].pc = "write" /\ WriteMeta(t)
      BY <2>2, <3>1, WriteMetaStep DEF AccessTypeOK, Call
    <3>2. QED
      BY <1>3, <3>1, WorksStep, StepAt DEF AccessTypeOK
  <2>7. failing' \in BOOLEAN
    BY <1>3, WorksStep DEF AccessTypeOK
  <2>8. granted' \in [Users -> 0..MaxQuota]
    <3>1. CASE call[t].pc = "write" /\ WriteMeta(t)
      <4>1. Exists(Whom(t)) => Written(t).quota \in 0..MaxQuota
        BY <3>1, WrittenIs DEF Identity
      <4>2. QED
        BY <2>2, <3>1, <4>1, WriteMetaStep DEF AccessTypeOK
    <3>2. QED
      BY <1>3, <3>1, WorksStep, StepAt DEF AccessTypeOK
  <2>9. crowned' \subseteq Users
    <3>1. CASE call[t].pc = "make" /\ Make(t)
      BY <2>2, <3>1, MakeStep DEF AccessTypeOK
    <3>2. QED
      BY <1>3, <3>1, WorksStep, StepAt DEF AccessTypeOK
  <2>10. QED
    BY <2>1, <2>3, <2>4, <2>5, <2>6, <2>7, <2>8, <2>9 DEF AccessTypeOK
<1>4. ASSUME NEW t \in Callers, GiveUp(t) PROVE AccessTypeOK'
  BY <1>4, GiveUpStep DEF AccessTypeOK, Calling
<1>5. QED
  BY <1>1, <1>2, <1>3, <1>4, FourWays

\* Every request stays at the steps of its kind, let in as it was.
LEMMA StepsKept ==
  ASSUME AccessTypeOK, StepsMatch, [AccessNext]_accessVars
  PROVE  StepsMatch'
<1>0. /\ \A t \in Callers : Kind(t)' = Kind(t) /\ Who(t)' = Who(t) /\ Whom(t)' = Whom(t)
      /\ \A t \in Callers : Protected(t)' = Protected(t)
      /\ \A t \in Callers : Kind(t) \in AccessKinds /\ Whom(t) \in Users
  BY Fixed, Names
<1>1. CASE Aside
  BY <1>0, <1>1 DEF Aside, StepsMatch, LetIn, InWork
<1>2. ASSUME NEW t \in Callers, Works(t) PROVE StepsMatch'
  <2>1. Others(t) /\ Kind(t) \in StepsOf(call'[t].pc)
        /\ \A u \in Users : idp[u] # Absent => idp'[u] # Absent
    BY <1>2, WorksStep, KindStep, IdentityStep
  <2>2. ASSUME NEW v \in Callers, v # t
        PROVE  /\ Kind(v)' \in StepsOf(call'[v].pc)
               /\ v \in InWork' /\ Kind(v)' # "bootstrap" => call'[v].session > 0
               /\ LetIn(v)' /\ Protected(v)' => Whom(v)' # Who(v)'
               /\ call'[v].pc = "write" => call'[v].meta # Absent /\ idp'[Whom(v)'] # Absent
    BY <1>0, <2>1, <2>2 DEF StepsMatch, Others, InWork, LetIn
  <2>3. t \in InWork' /\ Kind(t) # "bootstrap" => call'[t].session > 0
    BY <1>2, WorksStep DEF StepsMatch, InWork
  <2>4. LetIn(t)' /\ Protected(t) => Whom(t) # Who(t)
    <3>1. CASE call[t].pc = "auth"
      BY <1>2, <3>1, WorksStep DEF LetIn, Accepts
    <3>2. CASE call[t].pc # "auth"
      <4>1. LetIn(t)' => LetIn(t)
        BY <1>2, <3>2, WorksStep DEF LetIn, CallPcs
      <4>2. QED
        BY <4>1 DEF StepsMatch
    <3>3. QED
      BY <3>1, <3>2
  <2>5. call'[t].pc = "write" => call'[t].meta # Absent /\ idp'[Whom(t)] # Absent
    <3>1. SUFFICES ASSUME call'[t].pc = "write"
                   PROVE  call'[t].meta # Absent /\ idp'[Whom(t)] # Absent
      OBVIOUS
    <3>2. ReadMeta(t)
      BY <1>2, <3>1, WorksStep, StepAt
    <3>3. Exists(Whom(t)) /\ call'[t].meta = idp[Whom(t)] /\ idp' = idp
      BY <3>1, <3>2, ReadMetaStep
    <3>4. QED
      BY <3>3 DEF Exists
  <2>6. QED
    BY <1>0, <2>1, <2>2, <2>3, <2>4, <2>5 DEF StepsMatch
<1>3. ASSUME NEW t \in Callers, Arrive(t) PROVE StepsMatch'
  <2>1. /\ Others(t) /\ idp' = idp /\ Kind(t) # "rest" /\ call'[t].pc \in {"auth", "lock"}
        /\ call'[t].pc = "lock" => Kind(t) = "bootstrap"
        /\ call'[t].pc = "auth" => Kind(t) # "bootstrap" /\ call'[t].session > 0
    BY <1>3, ArriveStep
  <2>2. Kind(t) \in StepsOf(call'[t].pc)
    BY <1>0, <2>1, StepKinds DEF AccessKinds
  <2>3. ASSUME NEW v \in Callers, v # t
        PROVE  /\ Kind(v)' \in StepsOf(call'[v].pc)
               /\ v \in InWork' /\ Kind(v)' # "bootstrap" => call'[v].session > 0
               /\ LetIn(v)' /\ Protected(v)' => Whom(v)' # Who(v)'
               /\ call'[v].pc = "write" => call'[v].meta # Absent /\ idp'[Whom(v)'] # Absent
    BY <1>0, <2>1, <2>3 DEF StepsMatch, Others, InWork, LetIn
  <2>4. /\ t \in InWork' /\ Kind(t) # "bootstrap" => call'[t].session > 0
        /\ ~LetIn(t)' /\ call'[t].pc # "write"
    BY <2>1 DEF InWork, LetIn
  <2>5. QED
    BY <1>0, <2>2, <2>3, <2>4 DEF StepsMatch
<1>4. ASSUME NEW t \in Callers, GiveUp(t) PROVE StepsMatch'
  <2>1. Others(t) /\ call'[t].pc = "done" /\ idp' = idp
    BY <1>4, GiveUpStep
  <2>2. QED
    BY <1>0, <1>4, <2>1, StepKinds DEF StepsMatch, Others, InWork, LetIn
<1>5. QED
  BY <1>1, <1>2, <1>3, <1>4, FourWays

\* Requests at work at once are known to have met.
LEMMA MeetingsKept ==
  ASSUME AccessTypeOK, StepsMatch, MeetingsAreKnown, [AccessNext]_accessVars
  PROVE  MeetingsAreKnown'
<1>1. CASE Aside
  BY <1>1 DEF Aside, MeetingsAreKnown, InWork, Met
<1>2. ASSUME NEW t \in Callers, Works(t) PROVE MeetingsAreKnown'
  <2>1. InWork' \subseteq InWork
    BY <1>2, WorksStep DEF InWork, Others
  <2>2. QED
    BY <1>2, <2>1, WorksStep DEF MeetingsAreKnown, Met
<1>3. ASSUME NEW t \in Callers, Arrive(t) PROVE MeetingsAreKnown'
  <2>1. \A v \in InWork' : v # t => v \in InWork
    BY <1>3, ArriveStep DEF InWork, Others
  <2>2. clash' = clash \union {{t, u} : u \in InWork}
    BY <1>3, ArriveStep
  <2>3. ASSUME NEW v \in InWork', NEW w \in InWork', v # w
        PROVE  {v, w} \in clash'
    <3>1. CASE v # t /\ w # t
      BY <2>1, <2>2, <2>3, <3>1 DEF MeetingsAreKnown, Met
    <3>2. CASE v = t
      BY <2>1, <2>2, <2>3, <3>2
    <3>3. CASE w = t
      <4>1. {v, w} = {t, v}
        BY <3>3
      <4>2. QED
        BY <2>1, <2>2, <2>3, <3>3, <4>1
    <3>4. QED
      BY <3>1, <3>2, <3>3
  <2>4. QED
    BY <2>3 DEF MeetingsAreKnown, Met
<1>4. ASSUME NEW t \in Callers, GiveUp(t) PROVE MeetingsAreKnown'
  <2>1. InWork' \subseteq InWork /\ clash' = clash
    BY <1>4, GiveUpStep DEF InWork, Others
  <2>2. QED
    BY <2>1 DEF MeetingsAreKnown, Met
<1>5. QED
  BY <1>1, <1>2, <1>3, <1>4, FourWays

-------------------------------------------------------------------------------
\* Two changes of one user at work at once have met.
LEMMA ChangesMeet ==
  ASSUME MeetingsAreKnown, NEW t \in Callers, NEW v \in Callers, t # v,
         t \in InWork, v \in InWork, Kind(t) \in Changes, Kind(v) \in Changes, Whom(t) = Whom(v)
  PROVE  Remade(Whom(t))
BY DEF MeetingsAreKnown, Remade, TwoMet

\* Whoever is at a step of a change makes a change, and is at work.
LEMMA ChangeAt ==
  ASSUME AccessTypeOK, StepsMatch, NEW t \in Callers, call[t].pc \in {"read", "write"}
  PROVE  t \in InWork /\ Kind(t) \in Changes
BY StepKinds DEF StepsMatch, InWork

\* A session that was not to be let in is refused at the gate, by the cut-off in force.
LEMMA RevokedKept ==
  ASSUME AccessTypeOK, StepsMatch, RevokedStayOut, CutoffsStand, [AccessNext]_accessVars
  PROVE  RevokedStayOut'
<1>0. /\ \A t \in Callers : Who(t)' = Who(t) /\ Who(t) \in Users
      /\ \A u \in Users : Remade(u) => Remade(u)'
  BY Fixed, Names
<1>1. SUFFICES ASSUME NEW v \in Callers, LetIn(v)', call'[v].session <= call'[v].floor
               PROVE  Remade(Who(v))'
  BY <1>0 DEF RevokedStayOut
<1>2. SUFFICES Remade(Who(v))
  <2>1. PICK u \in Users : u = Who(v) /\ u = Who(v)'
    BY <1>0
  <2>2. QED
    BY <1>0, <2>1
<1>3. CASE LetIn(v) /\ call[v].session = call'[v].session /\ call[v].floor = call'[v].floor
  BY <1>1, <1>3 DEF RevokedStayOut
<1>4. CASE Aside
  BY <1>1, <1>3, <1>4 DEF Aside, LetIn
<1>5. ASSUME NEW t \in Callers, Arrive(t) PROVE Remade(Who(v))
  <2>1. t # v
    BY <1>1, <1>5, ArriveStep DEF LetIn
  <2>2. QED
    BY <1>1, <1>3, <1>5, <2>1, ArriveStep DEF Others, LetIn
<1>6. ASSUME NEW t \in Callers, Works(t) PROVE Remade(Who(v))
  <2>1. CASE v # t
    BY <1>1, <1>3, <1>6, <2>1, WorksStep DEF Others, LetIn
  <2>2. CASE v = t /\ call[v].pc # "auth"
    BY <1>1, <1>3, <1>6, <2>2, WorksStep DEF LetIn, CallPcs
  <2>3. CASE v = t /\ call[v].pc = "auth" /\ ~Remade(Who(v))
    <3> DEFINE u == Who(v)
    <3>1. Accepts(v, idp[u])
      BY <1>1, <1>6, <2>3, WorksStep DEF LetIn
    <3>2. Exists(u) /\ (idp[u].cutoff = 0 \/ call[v].session > idp[u].cutoff)
      BY <3>1 DEF Accepts, Exists
    <3>3. idp[u].cutoff >= revoked[u] /\ call[v].floor <= revoked[u]
      BY <1>0, <2>3, <3>2 DEF CutoffsStand
    <3>4. call[v].session > 0
      <4>1. Kind(v) # "bootstrap"
        BY <2>3, StepKinds DEF StepsMatch, AdminKinds, Changes
      <4>2. QED
        BY <2>3, <4>1 DEF StepsMatch, InWork
    <3>5. call[v].session <= call[v].floor
      BY <1>1, <1>6, <2>3, WorksStep
    <3>6. /\ call[v].session \in 0..MaxSessions /\ call[v].floor \in 0..MaxSessions /\ revoked[u] \in 0..MaxSessions
          /\ idp[u].cutoff \in Nat
      BY <1>0, <3>2, Identities DEF AccessTypeOK, Call, Identity
    <3>7. QED
      BY <3>2, <3>3, <3>4, <3>5, <3>6
  <2>4. QED
    BY <2>1, <2>2, <2>3
<1>7. ASSUME NEW t \in Callers, GiveUp(t) PROVE Remade(Who(v))
  <2>1. t # v
    BY <1>1, <1>7, GiveUpStep DEF LetIn
  <2>2. QED
    BY <1>1, <1>3, <1>7, <2>1, GiveUpStep DEF Others, LetIn
<1>8. QED
  BY <1>4, <1>5, <1>6, <1>7, FourWays

\* What CutoffsStand says of one user and one request.
CutoffOf(u) ==
  /\ revoked[u] <= sessions[u] /\ (idp[u] = Absent => revoked[u] = 0)
  /\ Exists(u) => idp[u].cutoff >= revoked[u]
CutoffIn(u, t) ==
  /\ Who(t) = u => call[t].floor <= revoked[u]
  /\ call[t].pc = "write" /\ Whom(t) = u =>
       call[t].meta.cutoff >= revoked[u] /\ call[t].cutoff \in revoked[u]..sessions[u]

\* Changes of one user that do not overlap never put a cut-off back.
LEMMA CutoffsKept ==
  ASSUME AccessTypeOK, StepsMatch, MeetingsAreKnown, CutoffsStand, [AccessNext]_accessVars
  PROVE  CutoffsStand'
<1>0. /\ \A t \in Callers : Who(t)' = Who(t) /\ Whom(t)' = Whom(t)
      /\ \A t \in Callers : Who(t) \in Users /\ Whom(t) \in Users
      /\ \A u \in Users : Remade(u) => Remade(u)'
  BY Fixed, Names
<1> SUFFICES ASSUME NEW u \in Users, ~Remade(u)
             PROVE  CutoffOf(u)' /\ \A t \in Callers : CutoffIn(u, t)'
  BY <1>0 DEF CutoffsStand, CutoffOf, CutoffIn
<1>1. CutoffOf(u) /\ \A t \in Callers : CutoffIn(u, t)
  BY DEF CutoffsStand, CutoffOf, CutoffIn
<1>2. revoked[u] \in 0..MaxSessions /\ sessions[u] \in 0..MaxSessions
  BY DEF AccessTypeOK
<1>3. CASE Aside
  <2>1. sessions'[u] \in 0..MaxSessions /\ sessions[u] <= sessions'[u]
    BY <1>3 DEF Aside
  <2>2. QED
    BY <1>0, <1>1, <1>2, <1>3, <2>1 DEF Aside, CutoffOf, CutoffIn, Exists
<1>4. ASSUME NEW t \in Callers, Arrive(t)
      PROVE  CutoffOf(u)' /\ \A v \in Callers : CutoffIn(u, v)'
  <2>1. CutoffOf(u)'
    BY <1>1, <1>4, ArriveStep DEF CutoffOf, Exists
  <2>2. ASSUME NEW v \in Callers, v # t PROVE CutoffIn(u, v)'
    BY <1>0, <1>1, <1>4, <2>2, ArriveStep DEF CutoffIn, Others
  <2>3. CutoffIn(u, t)'
    <3>1. call'[t].pc # "write" /\ revoked' = revoked
          /\ (call'[t].floor = call[t].floor \/ call'[t].floor = revoked[Who(t)])
      BY <1>4, ArriveStep DEF Keeps
    <3>2. QED
      BY <1>0, <1>1, <1>2, <3>1 DEF CutoffIn
  <2>4. QED
    BY <2>1, <2>2, <2>3
<1>5. ASSUME NEW t \in Callers, Works(t)
      PROVE  CutoffOf(u)' /\ \A v \in Callers : CutoffIn(u, v)'
  <2>0. Others(t) /\ call'[t].floor = call[t].floor /\ sessions' = sessions
    BY <1>5, WorksStep
  <2>1. CASE revoked'[u] = revoked[u] /\ (Exists(u)' => Exists(u) /\ idp'[u].cutoff = idp[u].cutoff)
             /\ (call'[t].pc = "write" => ReadMeta(t))
    <3>1. CutoffOf(u)'
      <4>1. idp[u] # Absent => idp'[u] # Absent
        BY <1>5, IdentityStep
      <4>2. QED
        BY <1>1, <2>0, <2>1, <4>1 DEF CutoffOf
    <3>2. ASSUME NEW v \in Callers, v # t PROVE CutoffIn(u, v)'
      BY <1>0, <1>1, <2>0, <2>1, <3>2 DEF CutoffIn, Others
    <3>3. CutoffIn(u, t)'
      <4>1. ASSUME call'[t].pc = "write", Whom(t) = u
            PROVE  call'[t].meta.cutoff >= revoked[u] /\ call'[t].cutoff \in revoked[u]..sessions[u]
        <5>1. Exists(u) /\ call'[t].meta = idp[u] /\ call'[t].cutoff = sessions[u]
          BY <2>1, <4>1, ReadMetaStep
        <5>2. QED
          BY <1>1, <1>2, <5>1 DEF CutoffOf
      <4>2. QED
        BY <1>0, <1>1, <2>0, <2>1, <4>1 DEF CutoffIn
    <3>4. QED
      BY <3>1, <3>2, <3>3
  <2>2. CASE call[t].pc = "write" /\ WriteMeta(t)
    <3>0. call'[t].pc # "write" /\ idp \in [Users -> Identity \union {Absent, Deleted}]
          /\ revoked \in [Users -> 0..MaxSessions]
      BY <2>2, WriteMetaStep DEF AccessTypeOK
    <3>1. CASE ~Exists(Whom(t)) \/ Whom(t) # u
      <4>1. idp'[u] = idp[u] /\ revoked'[u] = revoked[u]
        BY <1>0, <2>2, <3>0, <3>1, WriteMetaStep
      <4>2. QED
        BY <2>1, <3>0, <4>1 DEF Exists
    <3>2. CASE Exists(Whom(t)) /\ Whom(t) = u
      <4> DEFINE c == call[t].cutoff
                 m == call[t].meta.cutoff
      <4>1. /\ idp'[u] = Written(t) /\ Written(t) \in Identity
            /\ revoked'[u] = IF Forces(t) THEN c ELSE revoked[u]
        BY <1>0, <2>2, <3>0, <3>2, WriteMetaStep, WrittenIs
      <4>2. m >= revoked[u] /\ c \in revoked[u]..sessions[u] /\ m \in Nat /\ c \in 0..MaxSessions
        BY <1>0, <1>1, <2>2, <3>2, WrittenIs DEF CutoffIn, AccessTypeOK, Call, Identity
      <4>3. Written(t).cutoff \in {idp[u].cutoff, c, m}
            /\ (Forces(t) => Written(t).cutoff = c)
        BY <2>2, <3>2, WrittenIs
      <4>4. /\ Written(t).cutoff >= revoked'[u] /\ revoked'[u] \in revoked[u]..sessions[u]
        BY <1>1, <1>2, <3>2, <4>1, <4>2, <4>3 DEF CutoffOf
      <4>5. CutoffOf(u)'
        <5>1. idp'[u] # Absent
          BY <4>1, Identities
        <5>2. idp'[u].cutoff >= revoked'[u]
          BY <4>1, <4>4
        <5>3. revoked'[u] <= sessions'[u]
          BY <1>2, <2>0, <4>4
        <5>4. QED
          BY <5>1, <5>2, <5>3 DEF CutoffOf
      <4>6. ASSUME NEW v \in Callers PROVE CutoffIn(u, v)'
        <5>1. Who(v)' = u => call'[v].floor <= revoked'[u]
          <6>1. call'[v].floor = call[v].floor /\ call[v].floor \in 0..MaxSessions
            BY <2>0 DEF Others, AccessTypeOK, Call
          <6>2. Who(v) = u => call[v].floor <= revoked[u]
            BY <1>1 DEF CutoffIn
          <6>3. QED
            BY <1>0, <1>2, <4>4, <6>1, <6>2
        <5>2. ~(call'[v].pc = "write" /\ Whom(v)' = u)
          <6>1. SUFFICES ASSUME call'[v].pc = "write", Whom(v) = u PROVE FALSE
            BY <1>0
          <6>2. v # t /\ call[v].pc = "write"
            BY <2>0, <3>0, <6>1 DEF Others
          <6>3. QED
            BY <2>2, <3>2, <6>1, <6>2, ChangeAt, ChangesMeet
        <5>3. QED
          BY <5>1, <5>2 DEF CutoffIn
      <4>7. QED
        BY <4>5, <4>6
    <3>3. QED
      BY <3>1, <3>2
  <2>3. CASE call[t].pc # "write"
    <3>1. revoked' = revoked /\ (call'[t].pc = "write" => ReadMeta(t))
      BY <1>5, <2>3, WorksStep, StepAt
    <3>2. CASE Exists(u) \/ idp' = idp
      <4>1. Exists(u)' => Exists(u) /\ idp'[u] = idp[u]
        <5>1. CASE idp' = idp
          BY <5>1 DEF Exists
        <5>2. CASE Exists(u) /\ call[t].pc = "delete" /\ DeleteUser(t)
          BY <1>0, <5>2, DeleteUserStep DEF Exists, AccessTypeOK
        <5>3. CASE Exists(u) /\ call[t].pc = "create" /\ CreateUser(t)
          BY <1>0, <5>3, CreateUserStep DEF Exists, AccessTypeOK
        <5>4. CASE Exists(u) /\ call[t].pc = "make" /\ Make(t)
          BY <1>0, <5>4, MakeStep DEF Exists, AccessTypeOK
        <5>5. QED
          BY <1>5, <2>3, <3>2, <5>1, <5>2, <5>3, <5>4, WorksStep, StepAt
      <4>2. QED
        BY <2>1, <3>1, <4>1
    <3>3. CASE ~Exists(u) /\ Exists(u)'
      <4>1. idp[u] = Absent /\ revoked[u] = 0
        BY <1>1, <1>5, <3>3, IdentityStep DEF CutoffOf
      <4>2. idp'[u].cutoff \in Nat
        BY <1>5, <3>3, IdentityStep, Identities DEF Exists, Identity
      <4>3. CutoffOf(u)'
        BY <1>1, <2>0, <3>1, <3>3, <4>1, <4>2 DEF CutoffOf, Exists
      <4>4. call'[t].pc # "write"
        BY <3>1, <3>3, ReadMetaStep DEF Exists
      <4>5. QED
        BY <1>0, <1>1, <2>0, <3>1, <4>3, <4>4 DEF CutoffIn, Others
    <3>4. CASE ~Exists(u) /\ ~Exists(u)'
      BY <2>1, <3>1, <3>4
    <3>5. QED
      BY <3>2, <3>3, <3>4
  <2>4. QED
    BY <1>5, <2>2, <2>3, StepAt
<1>6. ASSUME NEW t \in Callers, GiveUp(t)
      PROVE  CutoffOf(u)' /\ \A v \in Callers : CutoffIn(u, v)'
  <2>1. /\ Others(t) /\ Keeps(t) /\ call'[t].pc = "done"
        /\ idp' = idp /\ revoked' = revoked /\ sessions' = sessions
    BY <1>6, GiveUpStep
  <2>2. QED
    BY <1>0, <1>1, <2>1 DEF CutoffOf, CutoffIn, Exists, Others, Keeps
<1>7. QED
  BY <1>3, <1>4, <1>5, <1>6, FourWays

-------------------------------------------------------------------------------
\* What OustersAreEnabled says of one request.
OusterKnows(t) ==
  /\ Ousts(t) /\ call[t].pc \in {"read", "write", "wipe", "delete"} => Enabled(Who(t))
  /\ call[t].pc = "write" /\ Exists(Whom(t)) /\ idp[Whom(t)].role = "admin" =>
       call[t].meta.role = "admin"

\* An administrator is ousted by those requests only that are there for it.
LEMMA EnabledStays ==
  ASSUME AccessTypeOK, StepsMatch, NEW t \in Callers, Works(t), OusterKnows(t),
         NEW w \in Users, Enabled(w), ~(Ousts(t) /\ w = Whom(t))
  PROVE  Enabled(w)'
<1>0. Whom(t) \in Users
  BY Names
<1>1. CASE idp'[w] = idp[w]
  BY <1>1 DEF Enabled, Exists
<1>2. SUFFICES ASSUME idp'[w] # idp[w] PROVE Enabled(w)'
  BY <1>1
<1>3. w = Whom(t) /\ ~Ousts(t) /\ idp[w] \in Identity /\ idp[w].role = "admin" /\ ~idp[w].banned
  BY <1>2, IdentityStep, Identities DEF Enabled
<1>4. CASE call[t].pc = "write" /\ WriteMeta(t)
  <2>1. idp'[w] = Written(t)
    BY <1>0, <1>2, <1>3, <1>4, WriteMetaStep DEF AccessTypeOK
  <2>2. call[t].meta.role = "admin" /\ Exists(w)
    BY <1>3, <1>4 DEF OusterKnows, Enabled
  <2>3. /\ Written(t).role = "admin" /\ ~Written(t).banned
        /\ Written(t) \in Identity
    BY <1>3, <1>4, <2>2, WrittenIs
  <2>4. QED
    BY <2>1, <2>3, Identities DEF Enabled, Exists
<1>5. CASE call[t].pc = "delete"
  BY <1>3, <1>5, StepKinds DEF StepsMatch, Ousts
<1>6. CASE call[t].pc = "create" /\ CreateUser(t)
  BY <1>2, <1>3, <1>6, CreateUserStep, Identities
<1>7. CASE call[t].pc = "make" /\ Make(t)
  BY <1>2, <1>3, <1>7, MakeStep, Identities
<1>8. QED
  BY <1>2, <1>4, <1>5, <1>6, <1>7, WorksStep, StepAt

\* Two requests that oust, at work at once, have met.
LEMMA OustersMeet ==
  ASSUME MeetingsAreKnown, NEW t \in Callers, NEW v \in Callers, t # v,
         t \in InWork, v \in InWork, Ousts(t), Ousts(v)
  PROVE  TwoMet(Ousts)
BY DEF MeetingsAreKnown, TwoMet

\* Whom bootstrap makes administrator is one, enabled; there was none before.
LEMMA GovernedStep ==
  ASSUME AccessTypeOK, StepsMatch, [AccessNext]_accessVars
  PROVE  /\ Governed => Governed'
         /\ \/ Governed' = Governed /\ crowned' = crowned
            \/ \E t \in Callers :
                 /\ Make(t) /\ call[t].pc = "make" /\ Works(t) /\ idp[Whom(t)] = Absent
                 /\ crowned' = crowned \union {Whom(t)} /\ Enabled(Whom(t))'
<1>1. accessPlan' = accessPlan
  BY Fixed
<1>2. CASE crowned' = crowned
  BY <1>1, <1>2 DEF Governed
<1>3. ASSUME NEW t \in Callers, Works(t), crowned' # crowned
      PROVE  /\ Make(t) /\ call[t].pc = "make" /\ idp[Whom(t)] = Absent
             /\ crowned' = crowned \union {Whom(t)} /\ Enabled(Whom(t))'
  <2>1. Make(t) /\ call[t].pc = "make"
    BY <1>3, WorksStep, StepAt
  <2>2. /\ idp[Whom(t)] = Absent /\ idp' = [idp EXCEPT ![Whom(t)] = Fresh("admin")]
        /\ crowned' = crowned \union {Whom(t)}
    BY <1>3, <2>1, MakeStep
  <2>3. PICK w \in Users : w = Whom(t)
    BY Names
  <2>4. idp'[w] = Fresh("admin") /\ Whom(t)' = w
    BY <1>1, <2>2, <2>3 DEF AccessTypeOK, Whom
  <2>5. Fresh("admin").role = "admin" /\ ~Fresh("admin").banned /\ Fresh("admin") \in Identity
    BY Identities DEF Fresh
  <2>6. Enabled(w)'
    BY <2>4, <2>5, Identities DEF Enabled, Exists
  <2>7. QED
    BY <2>1, <2>2, <2>3, <2>4, <2>6
<1>4. CASE Aside
  BY <1>2, <1>4 DEF Aside
<1>5. ASSUME NEW t \in Callers, Arrive(t) PROVE crowned' = crowned
  BY <1>5, ArriveStep
<1>6. ASSUME NEW t \in Callers, GiveUp(t) PROVE crowned' = crowned
  BY <1>6, GiveUpStep
<1>7. ASSUME NEW t \in Callers, Works(t), crowned' # crowned PROVE Governed => Governed'
  BY <1>1, <1>3, <1>7 DEF Governed
<1>8. QED
  BY <1>2, <1>3, <1>4, <1>5, <1>6, <1>7, FourWays

\* Before the first administrator nobody is let in to change or create users.
NobodyRules ==
  /\ \A u \in Users : Exists(u) => idp[u].role = "user"
  /\ \A t \in Callers : Kind(t) \in AdminKinds => ~LetIn(t)

\* Who ousts is an enabled administrator and cannot oust itself; so one is left.
LEMMA AdminsKept ==
  ASSUME AccessTypeOK, StepsMatch, MeetingsAreKnown, SomeAdminIsLeft, OustersAreEnabled,
         FirstAdminStays, [AccessNext]_accessVars
  PROVE  SomeAdminIsLeft' /\ OustersAreEnabled'
<1>0. /\ accessPlan' = accessPlan
      /\ \A t \in Callers : Kind(t)' = Kind(t) /\ Who(t)' = Who(t) /\ Whom(t)' = Whom(t)
      /\ \A t \in Callers : Who(t) \in Users /\ Whom(t) \in Users
      /\ \A t \in Callers : Ousts(t)' = Ousts(t)
      /\ Troubled => Troubled'
  BY Fixed, Names
<1> SUFFICES ASSUME Governed', ~Troubled
             PROVE  (\E u \in Users : Enabled(u)') /\ \A t \in Callers : OusterKnows(t)'
  BY <1>0 DEF SomeAdminIsLeft, OustersAreEnabled, OusterKnows
<1>a. CASE ~Governed
  <2>1. PICK t \in Callers : /\ Make(t) /\ call[t].pc = "make" /\ Enabled(Whom(t))'
    BY <1>a, GovernedStep
  <2>2. Others(t) /\ call'[t].pc = "done" /\ \A v \in Callers : Kind(v) \in AdminKinds => ~LetIn(v)
    BY <1>a, <2>1, MakeStep DEF FirstAdminStays
  <2>3. \E u \in Users : Enabled(u)'
    <3>1. PICK w \in Users : w = Whom(t) /\ w = Whom(t)'
      BY <1>0
    <3>2. QED
      BY <2>1, <3>1
  <2>4. ASSUME NEW v \in Callers PROVE OusterKnows(v)'
    <3>1. call'[v].pc \notin {"read", "write", "wipe", "delete"}
      <4>1. CASE v = t
        BY <2>2, <4>1
      <4>2. CASE v # t
        <5>1. call'[v] = call[v]
          BY <2>2, <4>2 DEF Others
        <5>2. call[v].pc \in {"read", "write", "wipe", "delete"} =>
                Kind(v) \in AdminKinds /\ LetIn(v)
          BY StepKinds DEF StepsMatch, AdminKinds, Changes, LetIn
        <5>3. QED
          BY <2>2, <5>1, <5>2
      <4>3. QED
        BY <4>1, <4>2
    <3>2. QED
      BY <3>1 DEF OusterKnows
  <2>5. QED
    BY <2>3, <2>4
<1>b. SUFFICES ASSUME Governed
               PROVE  (\E u \in Users : Enabled(u)') /\ \A t \in Callers : OusterKnows(t)'
  BY <1>a
<1>1. (\E u \in Users : Enabled(u)) /\ \A t \in Callers : OusterKnows(t)
  BY <1>b DEF SomeAdminIsLeft, OustersAreEnabled, OusterKnows
<1>2. CASE Aside
  BY <1>0, <1>1, <1>2 DEF Aside, Enabled, Exists, OusterKnows
<1>3. ASSUME NEW t \in Callers, Arrive(t)
      PROVE  (\E u \in Users : Enabled(u)') /\ \A v \in Callers : OusterKnows(v)'
  <2>1. idp' = idp /\ Others(t) /\ call'[t].pc \in {"auth", "lock"}
    BY <1>3, ArriveStep
  <2>2. QED
    BY <1>0, <1>1, <2>1 DEF Others, Enabled, Exists, OusterKnows
<1>4. ASSUME NEW t \in Callers, GiveUp(t)
      PROVE  (\E u \in Users : Enabled(u)') /\ \A v \in Callers : OusterKnows(v)'
  <2>1. idp' = idp /\ Others(t) /\ call'[t].pc = "done"
    BY <1>4, GiveUpStep
  <2>2. QED
    BY <1>0, <1>1, <2>1 DEF Others, Enabled, Exists, OusterKnows
<1>5. ASSUME NEW t \in Callers, Works(t)
      PROVE  (\E u \in Users : Enabled(u)') /\ \A v \in Callers : OusterKnows(v)'
  <2>0. Others(t) /\ t \in InWork
    BY <1>5, WorksStep DEF InWork
  <2>1. ASSUME NEW w \in Users, Enabled(w), ~(Ousts(t) /\ w = Whom(t)) PROVE Enabled(w)'
    BY <1>1, <1>5, <2>1, EnabledStays
  <2>2. Ousts(t) /\ LetIn(t) => Who(t) # Whom(t)
    BY DEF StepsMatch, Protected
  <2>3. \E u \in Users : Enabled(u)'
    <3>1. CASE Ousts(t) /\ call[t].pc \in {"write", "delete"}
      BY <1>0, <1>1, <2>1, <2>2, <3>1 DEF OusterKnows, LetIn
    <3>2. CASE idp' = idp
      BY <1>1, <3>2 DEF Enabled, Exists
    <3>3. CASE ~Ousts(t)
      BY <1>1, <2>1, <3>3
    <3>4. CASE Ousts(t) /\ call[t].pc \in {"create", "make"}
      BY <3>4, StepKinds DEF StepsMatch, Ousts
    <3>5. QED
      BY <1>5, <3>1, <3>2, <3>3, <3>4, WorksStep
  <2>4. ASSUME NEW v \in Callers, Ousts(v), call'[v].pc \in {"read", "write", "wipe", "delete"}
        PROVE  Enabled(Who(v))'
    <3> DEFINE w == Who(v)
    <3>0. w \in Users /\ w = Who(v)'
      BY <1>0
    <3>1. CASE v # t
      <4>1. call[v].pc \in {"read", "write", "wipe", "delete"} /\ v \in InWork
        BY <2>0, <2>4, <3>1 DEF Others, InWork
      <4>2. ~Ousts(t)
        BY <2>0, <2>4, <3>1, <4>1, OustersMeet DEF Troubled
      <4>3. Enabled(w)
        BY <1>1, <2>4, <4>1 DEF OusterKnows
      <4>4. PICK x \in Users : x = w
        BY <3>0
      <4>5. Enabled(x)'
        BY <2>1, <4>2, <4>3, <4>4
      <4>6. QED
        BY <3>0, <4>4, <4>5
    <3>2. CASE v = t
      <4>1. Enabled(w) /\ w # Whom(t)
        <5>1. CASE call[t].pc = "auth"
          <6>1. Accepts(t, idp[w])
            BY <1>5, <2>4, <3>2, <5>1, WorksStep
          <6>2. Kind(t) \in AdminKinds /\ Protected(t)
            BY <2>4, <3>2 DEF Ousts, Protected, AdminKinds, Changes
          <6>3. QED
            BY <3>2, <6>1, <6>2 DEF Accepts, Enabled, Exists
        <5>2. CASE call[t].pc # "auth"
          <6>1. call[t].pc \in {"read", "write", "wipe", "delete"}
            BY <1>5, <2>4, <3>2, <5>2, WorksStep
          <6>2. QED
            BY <1>1, <2>2, <2>4, <3>2, <6>1 DEF OusterKnows, LetIn
        <5>3. QED
          BY <5>1, <5>2
      <4>2. PICK x \in Users : x = w
        BY <3>0
      <4>3. Enabled(x)'
        BY <2>1, <4>1, <4>2
      <4>4. QED
        BY <3>0, <4>2, <4>3
    <3>3. QED
      BY <3>1, <3>2
  <2>5. ASSUME NEW v \in Callers, call'[v].pc = "write", Exists(Whom(v))',
               idp'[Whom(v)].role = "admin"
        PROVE  call'[v].meta.role = "admin"
    <3> DEFINE w == Whom(v)
    <3>0. w \in Users /\ w = Whom(v)' /\ idp'[w] \notin {Absent, Deleted}
      BY <1>0, <2>5 DEF Exists
    <3>1. CASE v = t
      BY <1>5, <2>5, <3>1, WorksStep, StepAt, ReadMetaStep
    <3>2. CASE v # t
      <4>1. call[v].pc = "write" /\ call'[v].meta = call[v].meta
        BY <2>0, <2>5, <3>2 DEF Others
      <4>2. v \in InWork /\ Kind(v) \in Changes /\ idp[w] # Absent
        BY <4>1, ChangeAt DEF StepsMatch
      <4>3. CASE idp'[w] = idp[w]
        BY <1>1, <2>5, <3>0, <4>1, <4>3 DEF OusterKnows, Exists
      <4>4. CASE idp'[w] # idp[w]
        <5>1. w = Whom(t)
          BY <1>5, <3>0, <4>4, IdentityStep
        <5>2. CASE call[t].pc = "write"
          BY <2>0, <3>0, <3>2, <4>2, <5>1, <5>2, ChangeAt, ChangesMeet DEF Troubled
        <5>3. CASE call[t].pc = "delete" /\ DeleteUser(t)
          BY <3>0, <4>4, <5>1, <5>3, DeleteUserStep DEF AccessTypeOK
        <5>4. CASE call[t].pc = "create" /\ CreateUser(t)
          BY <4>2, <4>4, <5>1, <5>4, CreateUserStep
        <5>5. CASE call[t].pc = "make" /\ Make(t)
          BY <4>2, <4>4, <5>1, <5>5, MakeStep
        <5>6. QED
          BY <1>5, <4>4, <5>2, <5>3, <5>4, <5>5, WorksStep, StepAt
      <4>5. QED
        BY <4>3, <4>4
    <3>3. QED
      BY <3>1, <3>2
  <2>6. ASSUME NEW v \in Callers PROVE OusterKnows(v)'
    BY <1>0, <2>4, <2>5 DEF OusterKnows
  <2>7. QED
    BY <2>3, <2>6
<1>6. QED
  BY <1>2, <1>3, <1>4, <1>5, FourWays

-------------------------------------------------------------------------------
\* The bootstrap lock is that of the request that looks or makes.
LockKept == \A t \in Callers : call[t].pc \in {"look", "make"} => lock = t

\* The bootstrap lock is held by the one request that looks and makes.
LEMMA BootstrapLock ==
  ASSUME AccessTypeOK, StepsMatch, LockKept, [AccessNext]_accessVars
  PROVE  LockKept'
<1>0. Absent \notin Callers
  BY AccessAssumption
<1>1. CASE Aside
  BY <1>1 DEF Aside, LockKept
<1>2. ASSUME NEW t \in Callers, Arrive(t) PROVE LockKept'
  BY <1>2, ArriveStep DEF LockKept, Others
<1>3. ASSUME NEW t \in Callers, GiveUp(t) PROVE LockKept'
  BY <1>0, <1>3, GiveUpStep DEF LockKept, Others
<1>4. ASSUME NEW t \in Callers, Works(t) PROVE LockKept'
  <2>0. Others(t)
    BY <1>4, WorksStep
  <2>1. CASE call[t].pc = "lock" /\ TakeLock(t)
    BY <1>0, <2>0, <2>1, TakeLockStep DEF LockKept, Others
  <2>2. CASE call[t].pc = "look" /\ Look(t)
    BY <1>0, <2>0, <2>2, LookStep DEF LockKept, Others
  <2>3. CASE call[t].pc = "make" /\ Make(t)
    BY <1>0, <2>0, <2>3, MakeStep DEF LockKept, Others
  <2>4. CASE call[t].pc \notin {"lock", "look", "make"}
    BY <1>4, <2>0, <2>4, WorksStep DEF LockKept, Others
  <2>5. QED
    BY <1>4, <2>1, <2>2, <2>3, <2>4, StepAt
<1>5. QED
  BY <1>1, <1>2, <1>3, <1>4, FourWays

\* Where nobody rules, a step makes the first administrator or leaves it so.
LEMMA NobodyRulesKept ==
  ASSUME AccessTypeOK, StepsMatch, NobodyRules, ~Governed', [AccessNext]_accessVars
  PROVE  NobodyRules'
<1>0. /\ \A t \in Callers : Kind(t)' = Kind(t)
      /\ \A t \in Callers : Who(t) \in Users /\ Whom(t) \in Users
      /\ crowned' = {}
  BY Fixed, Names DEF Governed
<1>1. CASE Aside
  BY <1>0, <1>1 DEF Aside, NobodyRules, Exists, LetIn
<1>2. ASSUME NEW t \in Callers, Arrive(t) PROVE NobodyRules'
  BY <1>0, <1>2, ArriveStep DEF NobodyRules, Exists, LetIn, Others
<1>3. ASSUME NEW t \in Callers, GiveUp(t) PROVE NobodyRules'
  BY <1>0, <1>3, GiveUpStep DEF NobodyRules, Exists, LetIn, Others
<1>4. ASSUME NEW t \in Callers, Works(t) PROVE NobodyRules'
  <2>0. Others(t) /\ (Kind(t) \in AdminKinds => ~LetIn(t))
    BY <1>4, WorksStep DEF NobodyRules
  <2>1. idp' = idp
    <3>1. call[t].pc \notin {"write", "delete", "create"}
      BY <2>0, StepKinds DEF StepsMatch, LetIn, AdminKinds, Changes
    <3>2. CASE call[t].pc = "make" /\ Make(t)
      BY <1>0, <3>2, MakeStep
    <3>3. QED
      BY <1>4, <3>1, <3>2, WorksStep, StepAt
  <2>2. Kind(t) \in AdminKinds => ~LetIn(t)'
    <3>1. SUFFICES ASSUME Kind(t) \in AdminKinds, LetIn(t)' PROVE FALSE
      OBVIOUS
    <3>2. call[t].pc = "auth"
      <4>1. Kind(t) \in StepsOf(call[t].pc)
        BY DEF StepsMatch
      <4>2. "bootstrap" \notin AdminKinds
        BY DEF AdminKinds, Changes
      <4>3. call[t].pc \notin {"lock", "look", "make"}
        BY <3>1, <4>1, <4>2, StepKinds
      <4>4. call[t].pc \in {"off", "auth", "done", "lock", "look", "make"}
        BY <2>0, <3>1 DEF LetIn
      <4>5. QED
        BY <1>4, <4>3, <4>4, WorksStep
    <3>3. Accepts(t, idp[Who(t)])
      BY <1>4, <3>1, <3>2, WorksStep DEF LetIn
    <3>4. QED
      BY <1>0, <3>1, <3>3 DEF Accepts, NobodyRules, Exists
  <2>3. QED
    BY <1>0, <2>0, <2>1, <2>2 DEF NobodyRules, Exists, LetIn, Others
<1>5. QED
  BY <1>1, <1>2, <1>3, <1>4, FourWays

\* What a bootstrap that goes on knows: there is no administrator.
Unruled(t) == call[t].pc = "make" => ~Governed \/ Troubled

\* The first administrator is made under the lock, and nobody is let in before.
LEMMA FirstAdminKept ==
  ASSUME AccessTypeOK, StepsMatch, SomeAdminIsLeft, FirstAdminStays, OneFirstAdmin,
         [AccessNext]_accessVars
  PROVE  FirstAdminStays' /\ OneFirstAdmin'
<1>0. LockKept /\ LockKept' /\ (Troubled => Troubled') /\ (Governed => Governed')
      /\ accessPlan' = accessPlan
  BY Fixed, BootstrapLock, GovernedStep DEF FirstAdminStays, LockKept
<1>1. \A t \in Callers : Unruled(t)
  BY DEF FirstAdminStays, Unruled
<1>2. ASSUME NEW v \in Callers PROVE Unruled(v)'
  <2>1. SUFFICES ASSUME call'[v].pc = "make", ~Troubled PROVE ~Governed'
    BY <1>0 DEF Unruled
  <2>2. CASE call[v].pc = "make"
    <3>1. ~Governed
      BY <1>1, <2>1, <2>2 DEF Unruled
    <3>2. ~\E t \in Callers : Make(t) /\ call[t].pc = "make" /\ Works(t)
      <4>1. SUFFICES ASSUME NEW t \in Callers, Make(t), call[t].pc = "make" PROVE FALSE
        OBVIOUS
      <4>2. t = v
        BY <1>0, <2>2, <4>1 DEF LockKept
      <4>3. QED
        BY <2>1, <4>1, <4>2, MakeStep
    <3>3. QED
      BY <3>1, <3>2, GovernedStep
  <2>3. CASE call[v].pc # "make"
    <3>1. Works(v) /\ Look(v)
      <4>1. ~Aside
        BY <2>1, <2>3 DEF Aside
      <4>2. ASSUME NEW t \in Callers, Arrive(t) PROVE FALSE
        BY <2>1, <2>3, <4>2, ArriveStep DEF Others
      <4>3. ASSUME NEW t \in Callers, GiveUp(t) PROVE FALSE
        BY <2>1, <2>3, <4>3, GiveUpStep DEF Others
      <4>4. ASSUME NEW t \in Callers, Works(t) PROVE t = v
        BY <2>1, <2>3, <4>4, WorksStep DEF Others
      <4>5. Works(v)
        BY <4>1, <4>2, <4>3, <4>4, FourWays
      <4>6. QED
        BY <2>1, <4>5, WorksStep, StepAt
    <3>2. Admins = {} /\ crowned' = crowned
      BY <2>1, <3>1, LookStep
    <3>3. ~Governed
      BY <2>1, <3>2 DEF SomeAdminIsLeft, Admins, Enabled
    <3>4. QED
      BY <1>0, <3>2, <3>3 DEF Governed
  <2>4. QED
    BY <2>2, <2>3
<1>3. FirstAdminStays'
  <2>1. ~Governed' => NobodyRules'
    <3>1. ~Governed => NobodyRules
      BY DEF FirstAdminStays, NobodyRules
    <3>2. QED
      BY <1>0, <3>1, NobodyRulesKept
  <2>2. QED
    BY <1>0, <1>2, <2>1 DEF FirstAdminStays, NobodyRules, Unruled, LockKept
<1>4. OneFirstAdmin'
  <2>1. CASE Troubled
    BY <1>0, <2>1 DEF OneFirstAdmin
  <2>2. CASE crowned' = crowned
    BY <1>0, <2>2 DEF OneFirstAdmin
  <2>3. ASSUME ~Troubled, NEW t \in Callers, call[t].pc = "make", crowned' = crowned \union {Whom(t)}
        PROVE  OneFirstAdmin'
    <3>1. ~Governed
      BY <1>1, <2>3 DEF Unruled
    <3>2. QED
      BY <1>0, <2>3, <3>1 DEF OneFirstAdmin, Governed
  <2>4. QED
    BY <2>1, <2>2, <2>3, GovernedStep
<1>5. QED
  BY <1>3, <1>4

-------------------------------------------------------------------------------
(* The parts of CacheIsCurrent and LookupsAreCurrent. *)
Cached(u) ==
  quotas[u] # Absent =>
    \/ failing \/ Crossed(u) \/ Clearing(u)
    \/ Exists(u) /\ quotas[u] = idp[u].quota
Looking(t) ==
  call[t].pc \in {"store", "count", "insert"} =>
    failing \/ Crossed(Who(t)) \/ (Exists(Who(t)) /\ call[t].limit = idp[Who(t)].quota)
Purging(t) ==
  call[t].pc = "write" /\ Kind(t) = "purge" =>
    \/ failing \/ Crossed(Whom(t)) \/ Clearing(Whom(t))
    \/ quotas[Whom(t)] = Absent \/ ~Exists(Whom(t))
    \/ call[t].meta.quota = idp[Whom(t)].quota

\* A quota in force stays, unless the cache is cleared next or a purge writes what it has read.
LEMMA QuotaStep ==
  ASSUME AccessTypeOK, StepsMatch, NEW t \in Callers, Works(t), NEW u \in Users, Exists(u)
  PROVE  \/ Exists(u)' /\ idp'[u].quota = idp[u].quota
         \/ /\ u = Whom(t) /\ call[t].pc \in {"write", "delete"} /\ Kind(t) \in AdminKinds
            /\ \/ call'[t].pc = "clear"
               \/ /\ call[t].pc = "write" /\ Kind(t) = "purge" /\ quotas' = quotas
                  /\ Exists(u)' /\ idp'[u].quota = call[t].meta.quota
<1>0. Whom(t) \in Users /\ idp \in [Users -> Identity \union {Absent, Deleted}]
  BY Names DEF AccessTypeOK
<1>1. CASE u # Whom(t) \/ idp' = idp
  <2>1. idp'[u] = idp[u]
    BY <1>1, IdentityStep
  <2>2. QED
    BY <2>1 DEF Exists
<1>2. CASE u = Whom(t) /\ call[t].pc = "write" /\ WriteMeta(t)
  <2>1. /\ Kind(t) \in Changes /\ idp' = [idp EXCEPT ![u] = Written(t)]
        /\ Written(t) \in Identity /\ quotas' = quotas
        /\ Kind(t) # "purge" => call'[t].pc = "clear"
        /\ Kind(t) = "purge" => Written(t).quota = call[t].meta.quota
    BY <1>2, WriteMetaStep, WrittenIs
  <2>2. idp'[u] = Written(t)
    BY <1>0, <2>1
  <2>3. Exists(u)'
    BY <2>1, <2>2, Identities DEF Exists
  <2>4. QED
    BY <1>2, <2>1, <2>2, <2>3 DEF AdminKinds
<1>3. CASE u = Whom(t) /\ call[t].pc = "delete" /\ DeleteUser(t)
  <2>1. call'[t].pc = "clear"
    BY <1>3, DeleteUserStep
  <2>2. Kind(t) \in {"delete", "purge"}
    BY <1>3, StepKinds DEF StepsMatch
  <2>3. QED
    BY <1>3, <2>1, <2>2 DEF AdminKinds, Changes
<1>4. CASE call[t].pc = "create" /\ CreateUser(t)
  <2>1. u = Whom(t) => idp' = idp
    BY <1>4, CreateUserStep DEF Exists
  <2>2. QED
    BY <1>1, <2>1
<1>5. CASE call[t].pc = "make" /\ Make(t)
  <2>1. u = Whom(t) => idp' = idp
    BY <1>5, MakeStep DEF Exists
  <2>2. QED
    BY <1>1, <2>1
<1>6. QED
  BY <1>1, <1>2, <1>3, <1>4, <1>5, WorksStep, StepAt

\* Who is about to clear the cache still is, unless it just did.
LEMMA ClearingStep ==
  ASSUME AccessTypeOK, StepsMatch, NEW t \in Callers, Works(t), NEW u \in Users, Clearing(u)
  PROVE  Clearing(u)' \/ quotas'[u] = Absent
<1>1. PICK v \in Callers : Whom(v) = u /\ call[v].pc = "clear"
  BY DEF Clearing
<1>2. accessPlan' = accessPlan /\ Others(t)
  BY WorksStep
<1>3. CASE v = t
  <2>1. Uncache(t)
    BY <1>1, <1>3, StepAt
  <2>2. QED
    BY <1>1, <1>3, <2>1, UncacheStep DEF AccessTypeOK
<1>4. CASE v # t
  BY <1>1, <1>2, <1>4 DEF Others, Clearing, Whom
<1>5. QED
  BY <1>3, <1>4

\* What is cached, looked up or read by a purge stays what it should be.
LEMMA CacheKept ==
  ASSUME AccessTypeOK, StepsMatch, MeetingsAreKnown, CacheIsCurrent, LookupsAreCurrent,
         [AccessNext]_accessVars
  PROVE  CacheIsCurrent' /\ LookupsAreCurrent'
<1>0. /\ \A t \in Callers : Kind(t)' = Kind(t) /\ Who(t)' = Who(t) /\ Whom(t)' = Whom(t)
      /\ \A t \in Callers : Who(t) \in Users /\ Whom(t) \in Users
      /\ \A u \in Users : Crossed(u) => Crossed(u)'
      /\ \A t, v \in Callers : Met(t, v) => Met(t, v)'
  BY Fixed, Names
<1>1. (\A u \in Users : Cached(u)) /\ \A t \in Callers : Looking(t) /\ Purging(t)
  BY DEF CacheIsCurrent, LookupsAreCurrent, Cached, Looking, Purging
<1> SUFFICES (\A u \in Users : Cached(u)') /\ \A t \in Callers : Looking(t)' /\ Purging(t)'
  BY DEF CacheIsCurrent, LookupsAreCurrent, Cached, Looking, Purging
<1>2. CASE Aside
  <2>1. /\ idp' = idp /\ call' = call /\ failing' = failing
        /\ \A u \in Users : quotas'[u] \in {quotas[u], Absent}
    BY <1>2 DEF Aside
  <2>2. \A u \in Users : Clearing(u) => Clearing(u)'
    BY <1>0, <2>1 DEF Clearing
  <2>3. QED
    BY <1>0, <1>1, <2>1, <2>2 DEF Cached, Looking, Purging, Exists
<1>3. ASSUME NEW t \in Callers, Arrive(t)
      PROVE  (\A u \in Users : Cached(u)') /\ \A v \in Callers : Looking(v)' /\ Purging(v)'
  <2>1. /\ Others(t) /\ call[t].pc = "off" /\ call'[t].pc \in {"auth", "lock"}
        /\ idp' = idp /\ quotas' = quotas /\ failing' = failing
    BY <1>3, ArriveStep
  <2>2. \A u \in Users : Clearing(u) => Clearing(u)'
    BY <1>0, <2>1 DEF Clearing, Others
  <2>3. \A u \in Users : Cached(u)'
    BY <1>0, <1>1, <2>1, <2>2 DEF Cached, Exists
  <2>4. \A v \in Callers : Looking(v)' /\ Purging(v)'
    BY <1>0, <1>1, <2>1, <2>2 DEF Looking, Purging, Exists, Others
  <2>5. QED
    BY <2>3, <2>4
<1>4. ASSUME NEW t \in Callers, Works(t)
      PROVE  (\A u \in Users : Cached(u)') /\ \A v \in Callers : Looking(v)' /\ Purging(v)'
  <2>0. Others(t) /\ (failing => failing')
    BY <1>4, WorksStep
  <2>1. \A u \in Users : Clearing(u) => Clearing(u)' \/ quotas'[u] = Absent
    BY <1>4, ClearingStep
  <2>2. \A v \in Callers, u \in Users :
          /\ Kind(v) = "add" /\ v \in InWork /\ t \in InWork /\ u = Who(v)
          /\ Kind(t) \in AdminKinds /\ Whom(t) = u
          => Crossed(u)'
    <3>1. "add" \notin AdminKinds
      BY DEF AdminKinds, Changes
    <3>2. QED
      BY <1>0, <3>1 DEF MeetingsAreKnown, Crossed
  <2>3. \A v \in Callers, u \in Users :
          /\ Kind(t) = "add" /\ v \in InWork /\ t \in InWork /\ u = Who(t)
          /\ Kind(v) \in AdminKinds /\ Whom(v) = u
          => Crossed(u)'
    <3>1. "add" \notin AdminKinds
      BY DEF AdminKinds, Changes
    <3>2. QED
      BY <1>0, <3>1 DEF MeetingsAreKnown, Crossed
  <2>4. t \in InWork /\ quotas \in [Users -> (0..MaxQuota) \union {Absent}]
    BY <1>4, WorksStep DEF InWork, AccessTypeOK
  <2>5. \A u \in Users : Clearing(u) /\ call[t].pc # "clear" => Clearing(u)'
    BY <1>0, <2>0 DEF Clearing, Others
  <2>6. \A u \in Users :
          \/ quotas'[u] \in {quotas[u], Absent}
          \/ /\ Store(t) /\ u = Who(t) /\ call[t].pc = "store" /\ Kind(t) = "add"
             /\ quotas'[u] = call[t].limit /\ idp' = idp
    <3>1. CASE call[t].pc = "clear" /\ Uncache(t)
      BY <2>4, <3>1, UncacheStep
    <3>2. CASE call[t].pc = "store" /\ Store(t)
      <4>1. Kind(t) = "add"
        BY <3>2, StepKinds DEF StepsMatch
      <4>2. QED
        BY <2>4, <3>2, <4>1, StoreStep
    <3>3. QED
      BY <1>4, <3>1, <3>2, WorksStep, StepAt
  <2>7. ASSUME NEW u \in Users PROVE Cached(u)'
    <3>1. SUFFICES ASSUME quotas'[u] # Absent, ~failing', ~Crossed(u)', ~Clearing(u)'
                   PROVE  Exists(u)' /\ quotas'[u] = idp'[u].quota
      BY DEF Cached
    <3>2. ~failing /\ ~Crossed(u) /\ ~Clearing(u)
      BY <1>0, <2>0, <2>1, <3>1
    <3>3. CASE quotas'[u] = quotas[u]
      <4>1. Exists(u) /\ quotas[u] = idp[u].quota
        BY <1>1, <3>1, <3>2, <3>3 DEF Cached
      <4>2. CASE Exists(u)' /\ idp'[u].quota = idp[u].quota
        BY <3>3, <4>1, <4>2
      <4>3. CASE u = Whom(t) /\ call'[t].pc = "clear"
        BY <1>0, <3>1, <4>3 DEF Clearing
      <4>4. CASE /\ u = Whom(t) /\ call[t].pc = "write" /\ Kind(t) = "purge"
                 /\ Exists(u)' /\ idp'[u].quota = call[t].meta.quota
        BY <1>1, <3>1, <3>2, <3>3, <4>1, <4>4 DEF Purging
      <4>5. QED
        BY <1>4, <4>1, <4>2, <4>3, <4>4, QuotaStep
    <3>4. CASE quotas'[u] # quotas[u]
      <4>1. u = Who(t) /\ call[t].pc = "store" /\ quotas'[u] = call[t].limit /\ idp' = idp
        BY <2>6, <3>1, <3>4
      <4>2. QED
        BY <1>1, <3>2, <4>1 DEF Looking, Exists
    <3>5. QED
      BY <3>3, <3>4
  <2>8. ASSUME NEW v \in Callers PROVE Looking(v)'
    <3>0. PICK u \in Users : u = Who(v)
      BY <1>0
    <3>1. SUFFICES ASSUME call'[v].pc \in {"store", "count", "insert"}, ~failing', ~Crossed(u)'
                   PROVE  Exists(u)' /\ call'[v].limit = idp'[u].quota
      <4>1. Who(v)' = u
        BY <1>0, <3>0
      <4>2. QED
        BY <4>1 DEF Looking
    <3>a. ~failing /\ ~Crossed(u)
      BY <1>0, <2>0, <3>1
    <3>2. CASE v = t /\ call[t].pc = "fetch"
      <4>1. Fetch(t)
        BY <1>4, <3>2, StepAt
      <4>2. QED
        BY <3>0, <3>1, <3>2, <4>1, FetchStep DEF Exists
    <3>3. CASE v = t /\ call[t].pc = "lookup"
      <4>1. Lookup(t)
        BY <1>4, <3>3, StepAt
      <4>2. quotas[u] # Absent /\ call'[v].limit = quotas[u] /\ idp' = idp
        BY <3>0, <3>1, <3>3, <4>1, LookupStep
      <4>3. ~Clearing(u)
        <5>1. ASSUME NEW w \in Callers, call[w].pc = "clear" PROVE w \in InWork /\ Kind(w) \in AdminKinds
          BY <5>1, StepKinds DEF InWork, StepsMatch
        <5>2. Kind(t) = "add"
          BY <3>3, StepKinds DEF StepsMatch
        <5>3. QED
          BY <2>3, <2>4, <3>0, <3>1, <3>3, <5>1, <5>2 DEF Clearing
      <4>4. QED
        BY <1>1, <3>a, <4>2, <4>3 DEF Cached, Exists
    <3>4. CASE v = t /\ call[t].pc \in {"store", "count"}
      <4>1. Store(t) \/ Count(t)
        BY <1>4, <3>4, StepAt
      <4>2. idp' = idp /\ call'[v].limit = call[v].limit
        BY <3>4, <4>1, StoreStep, CountStep DEF Keeps
      <4>3. QED
        BY <1>0, <1>1, <3>0, <3>a, <3>4, <4>2 DEF Looking, Exists
    <3>5. CASE v # t
      <4>1. call'[v] = call[v] /\ call[v].pc \in {"store", "count", "insert"}
        BY <2>0, <3>1, <3>5 DEF Others
      <4>2. Exists(u) /\ call[v].limit = idp[u].quota
        BY <1>0, <1>1, <3>0, <3>a, <4>1 DEF Looking
      <4>3. Kind(v) = "add" /\ v \in InWork
        BY <4>1, StepKinds DEF StepsMatch, InWork
      <4>4. CASE Exists(u)' /\ idp'[u].quota = idp[u].quota
        BY <4>1, <4>2, <4>4
      <4>5. CASE u = Whom(t) /\ Kind(t) \in AdminKinds
        BY <2>2, <2>4, <3>0, <3>1, <4>3, <4>5
      <4>6. QED
        BY <1>4, <4>2, <4>4, <4>5, QuotaStep
    <3>6. QED
      BY <1>4, <3>1, <3>2, <3>3, <3>4, <3>5, WorksStep
  <2>9. ASSUME NEW v \in Callers PROVE Purging(v)'
    <3>0. PICK u \in Users : u = Whom(v)
      BY <1>0
    <3>1. SUFFICES ASSUME call'[v].pc = "write", Kind(v) = "purge", ~failing', ~Crossed(u)',
                          ~Clearing(u)', quotas'[u] # Absent, Exists(u)'
                   PROVE  call'[v].meta.quota = idp'[u].quota
      <4>1. Kind(v)' = Kind(v) /\ Whom(v)' = u
        BY <1>0, <3>0
      <4>2. QED
        BY <4>1 DEF Purging
    <3>2. ~failing /\ ~Crossed(u) /\ ~Clearing(u)
      BY <1>0, <2>0, <2>1, <3>1
    <3>3. CASE v = t
      <4>1. ReadMeta(t)
        BY <3>0, <1>4, <3>1, <3>3, WorksStep, StepAt
      <4>2. QED
        BY <3>0, <3>1, <3>3, <4>1, ReadMetaStep
    <3>4. CASE v # t
      <4>1. call'[v] = call[v] /\ call[v].pc = "write" /\ v \in InWork
        BY <3>0, <2>0, <3>1, <3>4 DEF Others, InWork
      <4>2. quotas'[u] = quotas[u]
        <5>1. Kind(v) \in AdminKinds
          BY <3>0, <3>1 DEF AdminKinds, Changes
        <5>2. QED
          BY <3>0, <2>3, <2>4, <2>6, <3>1, <3>2, <4>1, <5>1
      <4>3. Exists(u)
        <5>1. idp[u] # Absent
          BY <3>0, <4>1 DEF StepsMatch
        <5>2. QED
          BY <3>0, <1>4, <3>1, <3>2, <5>1, IdentityStep
      <4>4. call[v].meta.quota = idp[u].quota
        BY <3>0, <1>1, <3>1, <3>2, <4>1, <4>2, <4>3 DEF Purging
      <4>5. CASE idp'[u].quota = idp[u].quota
        BY <4>1, <4>4, <4>5
      <4>6. CASE u = Whom(t) /\ call'[t].pc = "clear"
        BY <3>0, <1>0, <3>1, <4>6 DEF Clearing
      <4>7. CASE /\ u = Whom(t) /\ call[t].pc = "write" /\ Kind(t) = "purge"
                 /\ idp'[u].quota = call[t].meta.quota
        <5>1. call[t].meta.quota = idp[u].quota
          BY <3>0, <1>1, <3>1, <3>2, <4>2, <4>3, <4>7 DEF Purging
        <5>2. QED
          BY <4>1, <4>4, <4>7, <5>1
      <4>8. QED
        BY <1>4, <4>3, <4>5, <4>6, <4>7, QuotaStep
    <3>5. QED
      BY <3>3, <3>4
  <2>10. QED
    BY <2>7, <2>8, <2>9
<1>5. ASSUME NEW t \in Callers, GiveUp(t)
      PROVE  (\A u \in Users : Cached(u)') /\ \A v \in Callers : Looking(v)' /\ Purging(v)'
  BY <1>5, GiveUpStep DEF Cached, Looking, Purging
<1>6. QED
  BY <1>2, <1>3, <1>4, <1>5, FourWays

-------------------------------------------------------------------------------
(* What NoQuotaIsAbove says of one user. *)
Above(u) ==
  /\ DefaultQuota <= granted[u]
  /\ Exists(u) => idp[u].quota <= granted[u]
  /\ quotas[u] # Absent => quotas[u] <= granted[u]
  /\ \A v \in Callers :
       /\ Who(v) = u => call[v].limit <= granted[u]
       /\ call[v].pc = "write" /\ Whom(v) = u => call[v].meta.quota <= granted[u]

\* What a step makes of identities and of the quota cache.
LEMMA QuotasStep ==
  ASSUME AccessTypeOK, StepsMatch, NEW t \in Callers, Works(t), NEW u \in Users
  PROVE  /\ \/ granted'[u] = granted[u]
            \/ granted[u] <= granted'[u]
         /\ \/ idp'[u] = idp[u] \/ idp'[u] = Deleted \/ idp'[u].quota = DefaultQuota
            \/ idp'[u].quota <= granted'[u]
         /\ quotas'[u] \in {quotas[u], Absent} \/ (u = Who(t) /\ quotas'[u] = call[t].limit)
<1>0. /\ Who(t) \in Users /\ Whom(t) \in Users
      /\ idp \in [Users -> Identity \union {Absent, Deleted}]
      /\ granted \in [Users -> 0..MaxQuota] /\ MaxQuota \in Nat
      /\ quotas \in [Users -> (0..MaxQuota) \union {Absent}]
  BY Names, AccessAssumption DEF AccessTypeOK
<1>1. CASE call[t].pc = "write" /\ WriteMeta(t)
  <2>1. CASE idp' = idp /\ granted' = granted
    BY <1>1, <2>1, WriteMetaStep
  <2>2. CASE Exists(Whom(t))
    <3> DEFINE q == Written(t).quota
               g == granted[Whom(t)]
    <3>1. q \in 0..MaxQuota /\ g \in 0..MaxQuota
      BY <1>0, <1>1, <2>2, WrittenIs DEF Identity
    <3>2. /\ idp' = [idp EXCEPT ![Whom(t)] = Written(t)] /\ quotas' = quotas
          /\ granted' = [granted EXCEPT ![Whom(t)] = IF q > g THEN q ELSE g]
      BY <1>1, <2>2, WriteMetaStep
    <3>3. u = Whom(t) => /\ granted'[u] = (IF q > g THEN q ELSE g) /\ granted[u] = g
                         /\ idp'[u].quota = q
      BY <1>0, <3>2
    <3>4. u # Whom(t) => granted'[u] = granted[u] /\ idp'[u] = idp[u]
      BY <1>0, <3>2
    <3> HIDE DEF q, g
    <3>5. QED
      BY <3>1, <3>2, <3>3, <3>4
  <2>3. QED
    BY <1>1, <2>1, <2>2, WriteMetaStep
<1>2. CASE call[t].pc = "delete" /\ DeleteUser(t)
  BY <1>0, <1>2, DeleteUserStep
<1>3. CASE call[t].pc = "create" /\ CreateUser(t)
  <2>1. Fresh(NewRole(t)).quota = DefaultQuota
    BY DEF Fresh
  <2>2. QED
    BY <1>0, <1>3, <2>1, CreateUserStep
<1>4. CASE call[t].pc = "make" /\ Make(t)
  <2>1. Fresh("admin").quota = DefaultQuota
    BY DEF Fresh
  <2>2. QED
    BY <1>0, <1>4, <2>1, MakeStep
<1>5. CASE call[t].pc = "clear" /\ Uncache(t)
  BY <1>0, <1>5, UncacheStep
<1>6. CASE call[t].pc = "store" /\ Store(t)
  BY <1>0, <1>6, StoreStep
<1>7. QED
  BY <1>1, <1>2, <1>3, <1>4, <1>5, <1>6, WorksStep, StepAt

\* What a step makes of what requests have read.
LEMMA LimitStep ==
  ASSUME AccessTypeOK, StepsMatch, NEW t \in Callers, Works(t)
  PROVE  /\ \/ call'[t].limit \in {call[t].limit, DefaultQuota}
            \/ Exists(Who(t)) /\ call'[t].limit = idp[Who(t)].quota
            \/ quotas[Who(t)] # Absent /\ call'[t].limit = quotas[Who(t)]
         /\ call'[t].pc = "write" => Exists(Whom(t)) /\ call'[t].meta = idp[Whom(t)]
<1>1. call'[t].pc = "write" => ReadMeta(t)
  BY WorksStep, StepAt
<1>2. call'[t].pc = "write" => Exists(Whom(t)) /\ call'[t].meta = idp[Whom(t)]
  BY <1>1, ReadMetaStep
<1>3. CASE Authenticate(t) \/ WriteMeta(t) \/ Uncache(t) \/ Wipe(t) \/ DeleteUser(t)
  BY <1>2, <1>3, AuthenticateStep, WriteMetaStep, UncacheStep, WipeStep, DeleteUserStep DEF Keeps
<1>4. CASE CreateUser(t) \/ TakeLock(t) \/ Look(t) \/ Make(t)
  BY <1>2, <1>4, CreateUserStep, TakeLockStep, LookStep, MakeStep DEF Keeps
<1>5. CASE Store(t) \/ Count(t) \/ AddAccount(t)
  BY <1>2, <1>5, StoreStep, CountStep, AddAccountStep DEF Keeps
<1>6. CASE ReadMeta(t)
  BY <1>2, <1>6, ReadMetaStep
<1>7. CASE Lookup(t) \/ Fetch(t)
  BY <1>2, <1>7, LookupStep, FetchStep
<1>8. QED
  BY <1>3, <1>4, <1>5, <1>6, <1>7 DEF Works

\* No quota is above the highest that was granted, wherever it is.
LEMMA GrantedKept ==
  ASSUME AccessTypeOK, StepsMatch, NoQuotaIsAbove, [AccessNext]_accessVars
  PROVE  NoQuotaIsAbove'
<1>0. /\ \A t \in Callers : Kind(t)' = Kind(t) /\ Who(t)' = Who(t) /\ Whom(t)' = Whom(t)
      /\ \A t \in Callers : Who(t) \in Users /\ Whom(t) \in Users
      /\ \A u \in Users : granted[u] \in Int /\ granted'[u] \in Int
      /\ \A u \in Users : Exists(u) => idp[u] \in Identity
      /\ DefaultQuota \in Int /\ MaxQuota \in Nat
  BY Fixed, Names, TypeKept, Identities, AccessAssumption DEF AccessTypeOK
<1>1. \A u \in Users : Above(u)
  BY DEF NoQuotaIsAbove, Above
<1> SUFFICES ASSUME NEW u \in Users PROVE Above(u)'
  BY DEF NoQuotaIsAbove, Above
<1>2. CASE Aside
  BY <1>0, <1>1, <1>2 DEF Aside, Above, Exists
<1>3. ASSUME NEW t \in Callers, Arrive(t) PROVE Above(u)'
  <2>1. /\ UNCHANGED <<idp, quotas, granted>> /\ Others(t) /\ call'[t].limit = call[t].limit
        /\ call'[t].pc # "write"
    BY <1>3, ArriveStep DEF Keeps
  <2>2. QED
    BY <1>0, <1>1, <2>1 DEF Above, Exists, Others
<1>4. ASSUME NEW t \in Callers, GiveUp(t) PROVE Above(u)'
  <2>1. /\ UNCHANGED <<idp, quotas, granted>> /\ Others(t) /\ call'[t].limit = call[t].limit
        /\ call'[t].pc # "write"
    BY <1>4, GiveUpStep DEF Keeps
  <2>2. QED
    BY <1>0, <1>1, <2>1 DEF Above, Exists, Others
<1>5. ASSUME NEW t \in Callers, Works(t) PROVE Above(u)'
  <2>0. Others(t) /\ DefaultQuota <= granted[u] /\ granted[u] <= granted'[u]
        /\ DefaultQuota <= granted'[u]
    <3>1. Others(t)
      BY <1>5, WorksStep
    <3>2. DefaultQuota <= granted[u]
      BY <1>1 DEF Above
    <3>3. granted[u] <= granted'[u]
      BY <1>0, <1>5, QuotasStep
    <3>4. QED
      BY <1>0, <3>1, <3>2, <3>3
  <2>a. /\ \A v \in Callers : call[v].limit \in Int
        /\ \A v \in Callers : call[v].pc = "write" => call[v].meta.quota \in Int
        /\ Exists(u) => idp[u].quota \in Int
        /\ quotas[u] # Absent => quotas[u] \in Int
    BY <1>0 DEF AccessTypeOK, Call, Identity, StepsMatch
  <2>1. Exists(u)' => idp'[u].quota <= granted'[u]
    BY <1>0, <1>1, <1>5, <2>0, <2>a, QuotasStep DEF Above, Exists
  <2>2. quotas'[u] # Absent => quotas'[u] <= granted'[u]
    BY <1>0, <1>1, <1>5, <2>0, <2>a, QuotasStep DEF Above
  <2>3. ASSUME NEW v \in Callers, Who(v) = u PROVE call'[v].limit <= granted'[u]
    <3>1. CASE v = t
      BY <1>0, <1>1, <1>5, <2>0, <2>a, <2>3, <3>1, LimitStep DEF Above
    <3>2. CASE v # t
      BY <1>0, <1>1, <2>0, <2>a, <2>3, <3>2 DEF Above, Others
    <3>3. QED
      BY <3>1, <3>2
  <2>4. ASSUME NEW v \in Callers, call'[v].pc = "write", Whom(v) = u
        PROVE  call'[v].meta.quota <= granted'[u]
    <3>1. CASE v = t
      BY <1>0, <1>1, <1>5, <2>0, <2>a, <2>4, <3>1, LimitStep DEF Above
    <3>2. CASE v # t
      BY <1>0, <1>1, <2>0, <2>a, <2>4, <3>2 DEF Above, Others
    <3>3. QED
      BY <3>1, <3>2
  <2>5. QED
    BY <1>0, <2>0, <2>1, <2>2, <2>3, <2>4 DEF Above
<1>6. QED
  BY <1>2, <1>3, <1>4, <1>5, FourWays

(* What QuotaHolds says of one user. *)
Below(u) ==
  \/ failing \/ Crossed(u)
  \/ Exists(u) /\ Cardinality(accounts[u]) < idp[u].quota
Within(u) ==
  /\ IsFiniteSet(accounts[u])
  /\ AddedTwice(u) \/
       /\ Cardinality(accounts[u]) <= granted[u]
       /\ \A t \in Callers : call[t].pc = "insert" /\ Who(t) = u =>
            Cardinality(accounts[u]) < granted[u] /\ Below(u)

\* How many accounts there are, when one is added.
LEMMA OneMore ==
  ASSUME NEW S, IsFiniteSet(S), NEW t
  PROVE  /\ IsFiniteSet(S \union {t}) /\ Cardinality(S) \in Nat
         /\ Cardinality(S \union {t}) \in Nat /\ Cardinality(S \union {t}) <= Cardinality(S) + 1
<1>1. /\ IsFiniteSet(S \union {t}) /\ Cardinality(S) \in Nat
      /\ Cardinality(S \union {t}) = Cardinality(S) \/ Cardinality(S \union {t}) = Cardinality(S) + 1
  BY FS_AddElement, FS_CardinalityType
<1>2. QED
  BY <1>1

\* A tenant's accounts stay within its quota.
LEMMA QuotaKept ==
  ASSUME AccessTypeOK, StepsMatch, MeetingsAreKnown, LookupsAreCurrent, NoQuotaIsAbove, QuotaHolds,
         [AccessNext]_accessVars
  PROVE  QuotaHolds'
<1>0. /\ \A t \in Callers : Kind(t)' = Kind(t) /\ Who(t)' = Who(t) /\ Whom(t)' = Whom(t)
      /\ \A t \in Callers : Who(t) \in Users /\ Whom(t) \in Users
      /\ \A u \in Users : AddedTwice(u) => AddedTwice(u)'
      /\ \A u \in Users : Crossed(u) => Crossed(u)'
      /\ \A t, v \in Callers : Met(t, v) => Met(t, v)'
      /\ MaxQuota \in Nat
  BY Fixed, Names, AccessAssumption
<1>1. \A u \in Users : Within(u)
  BY DEF QuotaHolds, Within, Below
<1> SUFFICES ASSUME NEW u \in Users PROVE Within(u)'
  BY DEF QuotaHolds, Within, Below
<1>a. /\ Within(u) /\ granted[u] \in Nat /\ granted'[u] \in Nat
      /\ IsFiniteSet(accounts[u]) /\ Cardinality(accounts[u]) \in Nat
  <2>1. granted[u] \in Nat /\ granted'[u] \in Nat
    BY <1>0, TypeKept DEF AccessTypeOK
  <2>2. QED
    BY <1>1, <2>1, FS_CardinalityType DEF Within
<1>2. CASE Aside
  BY <1>0, <1>a, <1>2 DEF Aside, Within, Below, Exists
<1>3. ASSUME NEW t \in Callers, Arrive(t) PROVE Within(u)'
  <2>1. Others(t) /\ call'[t].pc # "insert" /\ UNCHANGED <<accounts, idp, granted, failing>>
    BY <1>3, ArriveStep
  <2>2. QED
    BY <1>0, <1>a, <2>1 DEF Within, Below, Exists, Others
<1>4. ASSUME NEW t \in Callers, GiveUp(t) PROVE Within(u)'
  <2>1. Others(t) /\ call'[t].pc # "insert" /\ UNCHANGED <<accounts, idp, granted>> /\ failing'
    BY <1>4, GiveUpStep
  <2>2. QED
    BY <1>0, <1>a, <2>1 DEF Within, Below, Exists, Others
<1>5. ASSUME NEW t \in Callers, Works(t) PROVE Within(u)'
  <2>0. Others(t) /\ t \in InWork /\ accounts \in [Users -> SUBSET Callers] /\ (failing => failing')
    BY <1>5, WorksStep DEF InWork, AccessTypeOK
  <2>a. granted[u] <= granted'[u]
    BY <1>a, <1>5, QuotasStep
  <2>1. CASE call[t].pc = "wipe" /\ Wipe(t)
    <3>1. /\ call'[t].pc = "delete" /\ UNCHANGED <<idp, granted, failing>>
          /\ accounts'[u] = accounts[u] \/ accounts'[u] = {}
      BY <1>0, <2>0, <2>1, WipeStep
    <3>2. CASE accounts'[u] = accounts[u]
      BY <1>0, <1>a, <2>0, <3>1, <3>2 DEF Within, Below, Exists, Others
    <3>3. CASE accounts'[u] = {}
      <4>1. IsFiniteSet(accounts'[u]) /\ Cardinality(accounts'[u]) = 0
        BY <3>3, FS_EmptySet
      <4>2. Below(u) => Below(u)'
        <5>1. Exists(u) => idp[u].quota \in Int
          BY Identities DEF Identity
        <5>2. QED
          BY <1>0, <1>a, <3>1, <4>1, <5>1 DEF Below, Exists
      <4>3. \A v \in Callers : call'[v].pc = "insert" => call[v].pc = "insert"
        BY <2>0, <3>1 DEF Others
      <4>4. QED
        BY <1>0, <1>a, <3>1, <4>1, <4>2, <4>3 DEF Within
    <3>4. QED
      BY <3>1, <3>2, <3>3
  <2>2. CASE call[t].pc = "insert" /\ AddAccount(t)
    <3>1. /\ call'[t].pc = "done" /\ UNCHANGED <<idp, granted, failing>>
          /\ accounts' = [accounts EXCEPT ![Who(t)] = accounts[Who(t)] \union {t}]
      BY <2>2, AddAccountStep
    <3>2. CASE u # Who(t)
      <4>1. accounts'[u] = accounts[u]
        BY <1>0, <2>0, <3>1, <3>2
      <4>2. QED
        BY <1>0, <1>a, <2>0, <3>1, <4>1 DEF Within, Below, Exists, Others
    <3>3. CASE u = Who(t)
      <4>1. accounts'[u] = accounts[u] \union {t}
        BY <1>0, <2>0, <3>1, <3>3
      <4>3. /\ IsFiniteSet(accounts'[u]) /\ Cardinality(accounts'[u]) \in Nat
            /\ Cardinality(accounts'[u]) <= Cardinality(accounts[u]) + 1
        BY <1>a, <4>1, OneMore
      <4>4. CASE AddedTwice(u)
        BY <1>0, <4>3, <4>4 DEF Within
      <4>5. CASE ~AddedTwice(u)
        <5>1. Cardinality(accounts[u]) < granted[u]
          BY <1>a, <2>2, <3>3, <4>5 DEF Within
        <5>2. Cardinality(accounts'[u]) <= granted'[u]
          BY <1>a, <3>1, <4>3, <5>1
        <5>3. ASSUME NEW v \in Callers, call'[v].pc = "insert", Who(v) = u PROVE AddedTwice(u)'
          <6>1. v # t /\ call[v].pc = "insert"
            BY <2>0, <3>1, <5>3 DEF Others
          <6>2. Met(v, t)' /\ Kind(v) = "add" /\ Kind(t) = "add"
            BY <1>0, <2>0, <2>2, <6>1, StepKinds DEF MeetingsAreKnown, InWork, StepsMatch
          <6>3. QED
            BY <1>0, <3>3, <5>3, <6>2 DEF AddedTwice, TwoMet
        <5>4. QED
          BY <1>0, <4>3, <5>2, <5>3 DEF Within
      <4>6. QED
        BY <4>4, <4>5
    <3>4. QED
      BY <3>2, <3>3
  <2>3. CASE call[t].pc = "count" /\ Count(t)
    <3>1. /\ UNCHANGED <<accounts, idp, granted, failing>>
          /\ call'[t].pc = "insert" => ~(Cardinality(accounts[Who(t)]) + 1 > call[t].limit)
      BY <2>3, CountStep
    <3>2. call[t].limit \in Nat
      BY <1>0 DEF AccessTypeOK, Call
    <3>3. Who(t) = u /\ call'[t].pc = "insert" => Cardinality(accounts[u]) < call[t].limit
      BY <1>a, <3>1, <3>2
    <3>4. Who(t) = u => call[t].limit <= granted[u]
      BY DEF NoQuotaIsAbove
    <3>5. Who(t) = u /\ call'[t].pc = "insert" => Cardinality(accounts[u]) < granted[u] /\ Below(u)
      BY <1>a, <2>3, <3>2, <3>3, <3>4 DEF LookupsAreCurrent, Below
    <3>6. Below(u) => Below(u)'
      BY <1>0, <3>1 DEF Below, Exists
    <3>7. \A v \in Callers \ {t} : call'[v] = call[v]
      BY <2>0 DEF Others
    <3>8. QED
      BY <1>0, <1>a, <3>1, <3>5, <3>6, <3>7 DEF Within
  <2>4. CASE accounts' = accounts /\ call'[t].pc # "insert"
    <3>1. ASSUME NEW v \in Callers, call'[v].pc = "insert", Who(v) = u, Below(u) PROVE Below(u)'
      <4>1. v # t /\ call[v].pc = "insert" /\ v \in InWork /\ Kind(v) = "add"
        BY <2>0, <2>4, <3>1, StepKinds DEF Others, InWork, StepsMatch
      <4>2. CASE ~Exists(u) \/ (Exists(u)' /\ idp'[u].quota = idp[u].quota)
        BY <1>0, <2>0, <2>4, <3>1, <4>2 DEF Below
      <4>3. CASE u = Whom(t) /\ Kind(t) \in AdminKinds
        <5>1. Met(v, t)
          BY <2>0, <4>1 DEF MeetingsAreKnown
        <5>2. Crossed(u)'
          BY <1>0, <3>1, <4>1, <4>3, <5>1 DEF Crossed
        <5>3. QED
          BY <5>2 DEF Below
      <4>4. QED
        BY <1>5, <4>2, <4>3, QuotaStep
    <3>2. \A v \in Callers : call'[v].pc = "insert" => call[v].pc = "insert"
      BY <2>0, <2>4 DEF Others
    <3>3. QED
      BY <1>0, <1>a, <2>a, <2>4, <3>1, <3>2 DEF Within
  <2>5. QED
    BY <1>5, <2>1, <2>2, <2>3, <2>4, WorksStep, StepAt
<1>6. QED
  BY <1>2, <1>3, <1>4, <1>5, FourWays

\* A purge goes by its own way: the ban, the rows, then the user.
LEMMA PurgeWay ==
  ASSUME AccessTypeOK, StepsMatch, NEW t \in Callers, Works(t), Kind(t) = "purge",
         call'[t].pc \in {"delete", "clear"}
  PROVE  \/ call[t].pc = "delete" /\ accounts' = accounts
         \/ accounts'[Whom(t)] = {}
<1>1. call[t].pc \in {"auth", "wipe", "write", "delete", "create"}
  BY WorksStep
<1>2. CASE call[t].pc = "auth" /\ Authenticate(t)
  <2>1. To(t, "read") \/ To(t, "done")
    BY <1>2 DEF Authenticate, Admitted, Changes
  <2>2. call'[t].pc \in {"read", "done"}
    BY <2>1, Moves DEF CallPcs
  <2>3. QED
    BY <2>2
<1>3. CASE call[t].pc = "wipe" /\ Wipe(t)
  BY <1>3, Names, WipeStep DEF AccessTypeOK
<1>4. CASE call[t].pc = "write" /\ WriteMeta(t)
  BY <1>4, WriteMetaStep
<1>5. CASE call[t].pc = "delete"
  BY <1>5, WorksStep
<1>6. CASE call[t].pc = "create"
  BY <1>6, StepKinds DEF StepsMatch
<1>7. QED
  BY <1>1, <1>2, <1>3, <1>4, <1>5, <1>6, StepAt

\* Nothing comes back to a tenant that is purged, but from requests the purge has met.
LEMMA PurgedKept ==
  ASSUME AccessTypeOK, StepsMatch, MeetingsAreKnown, PurgedIsGone, [AccessNext]_accessVars
  PROVE  PurgedIsGone'
<1>0. /\ \A t \in Callers : Kind(t)' = Kind(t) /\ Who(t)' = Who(t) /\ Whom(t)' = Whom(t)
      /\ \A t \in Callers : Who(t) \in Users /\ Whom(t) \in Users
      /\ \A t, v \in Callers : Met(t, v) => Met(t, v)'
  BY Fixed, Names
<1> SUFFICES ASSUME NEW w \in Callers, Kind(w) = "purge", call'[w].pc \in {"delete", "clear"}
             PROVE  accounts'[Whom(w)] = {} \/ \E v \in Callers : Met(w, v)' /\ Who(v) = Whom(w)
  BY <1>0 DEF PurgedIsGone
<1>1. call[w].pc \in {"delete", "clear"} =>
        accounts[Whom(w)] = {} \/ \E v \in Callers : Met(w, v)' /\ Who(v) = Whom(w)
  BY <1>0 DEF PurgedIsGone
<1>2. CASE Aside
  BY <1>1, <1>2 DEF Aside
<1>3. ASSUME NEW t \in Callers, Arrive(t)
      PROVE  accounts' = accounts /\ call[w].pc \in {"delete", "clear"}
  BY <1>3, ArriveStep DEF Others
<1>4. ASSUME NEW t \in Callers, Works(t)
      PROVE  accounts'[Whom(w)] = {} \/ \E v \in Callers : Met(w, v)' /\ Who(v) = Whom(w)
  <2>0. Others(t) /\ t \in InWork /\ accounts \in [Users -> SUBSET Callers]
    BY <1>4, WorksStep DEF InWork, AccessTypeOK
  <2>1. CASE w = t
    BY <1>1, <1>4, <2>1, PurgeWay
  <2>2. CASE w # t
    <3>1. call[w].pc \in {"delete", "clear"} /\ w \in InWork
      BY <2>0, <2>2 DEF Others, InWork
    <3>2. CASE call[t].pc = "wipe" /\ Wipe(t)
      BY <1>0, <1>1, <2>0, <3>1, <3>2, WipeStep
    <3>3. CASE call[t].pc = "insert" /\ AddAccount(t)
      <4>1. Met(w, t)'
        BY <1>0, <2>0, <2>2, <3>1 DEF MeetingsAreKnown
      <4>2. Who(t) # Whom(w) => accounts'[Whom(w)] = accounts[Whom(w)]
        BY <1>0, <2>0, <3>3, AddAccountStep
      <4>3. QED
        BY <1>1, <3>1, <4>1, <4>2
    <3>4. QED
      BY <1>1, <1>4, <3>1, <3>2, <3>3, WorksStep, StepAt
  <2>3. QED
    BY <2>1, <2>2
<1>5. ASSUME NEW t \in Callers, GiveUp(t)
      PROVE  accounts' = accounts /\ call[w].pc \in {"delete", "clear"}
  BY <1>5, GiveUpStep DEF Others
<1>6. QED
  BY <1>1, <1>2, <1>3, <1>4, <1>5, FourWays

-------------------------------------------------------------------------------
\* The initial states.
LEMMA InitHolds ==
  ASSUME AccessInit
  PROVE  AccessInv
<1>1. /\ accessPlan \in AccessScenario /\ accessPlan \in AccessScenarios
      /\ DefaultQuota \in 0..MaxQuota /\ MaxQuota \in Nat /\ Absent # Deleted
      /\ MaxSessions \in Nat \ {0} /\ Absent \notin Identity /\ Deleted \notin Identity
  BY AccessAssumption DEF AccessInit
<1>2. \A role \in {"admin", "user"} : Fresh(role) \in Identity /\ Fresh(role).role = role
                                      /\ ~Fresh(role).banned /\ Fresh(role).cutoff = 0
                                      /\ Fresh(role).quota = DefaultQuota
  BY <1>1 DEF Fresh, Identity
<1>3. /\ idp \in [Users -> Identity \union {Absent, Deleted}]
      /\ \A u \in Users : Exists(u) => idp[u] = Fresh("admin") \/ idp[u] = Fresh("user")
      /\ \A u \in Users : u \in accessPlan.admins => idp[u] = Fresh("admin")
      /\ \A u \in Users : u \notin accessPlan.admins => idp[u] \in {Fresh("user"), Absent}
  BY <1>1, <1>2 DEF AccessInit, Exists
<1>4. \A t \in Callers : call[t] = NoCall
  BY DEF AccessInit
<1>5. NoCall \in Call /\ NoCall.pc = "off" /\ NoCall.floor = 0 /\ NoCall.limit = 0
  BY <1>1 DEF NoCall, Call, CallPcs
<1>6. AccessTypeOK
  <2>1. call \in [Callers -> Call]
    BY <1>5 DEF AccessInit
  <2>2. /\ sessions \in [Users -> 0..MaxSessions] /\ revoked \in [Users -> 0..MaxSessions]
        /\ granted \in [Users -> 0..MaxQuota]
    BY <1>1 DEF AccessInit
  <2>3. quotas \in [Users -> (0..MaxQuota) \union {Absent}] /\ accounts \in [Users -> SUBSET Callers]
    BY DEF AccessInit
  <2>4. QED
    BY <1>1, <1>3, <2>1, <2>2, <2>3 DEF AccessTypeOK, AccessInit
<1>7. \A t \in Callers : call[t].pc = "off" /\ call[t].floor = 0 /\ call[t].limit = 0
  BY <1>4, <1>5
<1>8. StepsMatch
  <2>1. \A t \in Callers : Kind(t) \in AccessKinds
    BY <1>6, Names
  <2>2. QED
    BY <1>7, <2>1, StepKinds DEF StepsMatch, InWork, LetIn
<1>9. MeetingsAreKnown /\ RevokedStayOut
  BY <1>7 DEF MeetingsAreKnown, InWork, RevokedStayOut, LetIn
<1>10. CutoffsStand
  <2>1. \A u \in Users : revoked[u] = 0 /\ sessions[u] \in 0..MaxSessions
    BY <1>6 DEF AccessInit, AccessTypeOK
  <2>2. \A u \in Users : Exists(u) => idp[u].cutoff = 0
    BY <1>2, <1>3
  <2>3. \A u \in Users : revoked[u] <= sessions[u]
    BY <2>1
  <2>4. \A u \in Users : Exists(u) => idp[u].cutoff >= revoked[u]
    BY <2>1, <2>2
  <2>5. \A t \in Callers, u \in Users : call[t].pc # "write" /\ call[t].floor <= revoked[u]
    BY <1>7, <2>1
  <2>6. QED
    BY <2>1, <2>3, <2>4, <2>5 DEF CutoffsStand
<1>11. SomeAdminIsLeft /\ OustersAreEnabled
  <2>1. \A u \in accessPlan.admins : u \in Users
    BY <1>1 DEF AccessScenario
  <2>2. \A u \in accessPlan.admins : idp[u] \in Identity /\ idp[u].role = "admin" /\ ~idp[u].banned
    BY <1>2, <1>3, <2>1
  <2>3. \A u \in accessPlan.admins : Enabled(u)
    BY <1>1, <2>2 DEF Enabled, Exists
  <2>4. Governed => accessPlan.admins # {}
    BY DEF Governed, AccessInit
  <2>5. SomeAdminIsLeft
    BY <2>1, <2>3, <2>4 DEF SomeAdminIsLeft
  <2>6. OustersAreEnabled
    BY <1>7 DEF OustersAreEnabled
  <2>7. QED
    BY <2>5, <2>6
<1>12. FirstAdminStays /\ OneFirstAdmin
  <2>1. accessPlan.admins = {} => \A u \in Users : Exists(u) => idp[u].role = "user"
    BY <1>2, <1>3 DEF Exists
  <2>2. FirstAdminStays
    BY <1>7, <2>1 DEF FirstAdminStays, LetIn, Governed
  <2>3. OneFirstAdmin
    BY DEF OneFirstAdmin, AccessInit
  <2>4. QED
    BY <2>2, <2>3
<1>13. CacheIsCurrent /\ LookupsAreCurrent
  BY <1>7 DEF AccessInit, CacheIsCurrent, LookupsAreCurrent
<1>14. NoQuotaIsAbove /\ QuotaHolds /\ PurgedIsGone
  <2>1. \A u \in Users : accounts[u] = {} /\ granted[u] = DefaultQuota /\ quotas[u] = Absent
    BY DEF AccessInit
  <2>2. IsFiniteSet({}) /\ Cardinality({}) = 0
    BY FS_EmptySet
  <2>3. \A u \in Users : IsFiniteSet(accounts[u]) /\ Cardinality(accounts[u]) = 0
    BY <2>1, <2>2
  <2>4. \A u \in Users : Cardinality(accounts[u]) <= granted[u]
    BY <1>1, <2>1, <2>3
  <2>5. \A u \in Users : Exists(u) => idp[u].quota = DefaultQuota
    BY <1>2, <1>3
  <2>6. NoQuotaIsAbove
    BY <1>1, <1>7, <2>1, <2>5 DEF NoQuotaIsAbove
  <2>7. QED
    BY <1>7, <2>3, <2>4, <2>6 DEF QuotaHolds, PurgedIsGone
<1>15. QED
  BY <1>6, <1>8, <1>9, <1>10, <1>11, <1>12, <1>13, <1>14 DEF AccessInv

(* Nobody gets in with a session that a finished change has ended, an        *)
(* administrator is always left, whoever makes whom one, bootstrap makes at  *)
(* most one, the cached quota is the one in force, accounts are added within *)
(* it and a purge leaves nothing, whatever the users, the requests, the      *)
(* quotas and their order: AccessInv.                                        *)
THEOREM AccessHolds == AccessSpec => []AccessInv
<1>1. AccessInit => AccessInv
  BY InitHolds
<1>2. AccessInv /\ [AccessNext]_accessVars => AccessInv'
  <2> SUFFICES ASSUME AccessInv, [AccessNext]_accessVars PROVE AccessInv'
    OBVIOUS
  <2>1. /\ AccessTypeOK /\ StepsMatch /\ MeetingsAreKnown /\ RevokedStayOut /\ CutoffsStand
        /\ SomeAdminIsLeft /\ OustersAreEnabled /\ OneFirstAdmin /\ FirstAdminStays
        /\ CacheIsCurrent /\ LookupsAreCurrent /\ NoQuotaIsAbove /\ QuotaHolds /\ PurgedIsGone
    BY DEF AccessInv
  <2>2. AccessTypeOK' /\ StepsMatch' /\ MeetingsAreKnown'
    BY <2>1, TypeKept, StepsKept, MeetingsKept
  <2>3. RevokedStayOut' /\ CutoffsStand'
    BY <2>1, RevokedKept, CutoffsKept
  <2>4. SomeAdminIsLeft' /\ OustersAreEnabled'
    BY <2>1, AdminsKept
  <2>5. FirstAdminStays' /\ OneFirstAdmin'
    BY <2>1, FirstAdminKept
  <2>6. NoQuotaIsAbove'
    BY <2>1, GrantedKept
  <2>7. CacheIsCurrent' /\ LookupsAreCurrent'
    BY <2>1, CacheKept
  <2>8. QuotaHolds' /\ PurgedIsGone'
    BY <2>1, QuotaKept, PurgedKept
  <2>9. QED
    BY <2>2, <2>3, <2>4, <2>5, <2>6, <2>7, <2>8 DEF AccessInv
<1>3. QED
  BY <1>1, <1>2, PTL DEF AccessSpec
==============================================================================
