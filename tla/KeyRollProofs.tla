---------------------------- MODULE KeyRollProofs ----------------------------
(***************************************************************************)
(* Theorems about KeyRoll: the other steps that keep the invariant (new    *)
(* entitlements, the key roll, certificates, the cleaning of repositories) *)
(* and what follows from it.                                               *)
(***************************************************************************)
EXTENDS KeyRollInvariant, FiniteSetTheorems

-----------------------------------------------------------------------------
(* New entitlements *)

\* The keys get requests, and are the same for the rest.
LEMMA EntitlementRequestsKeys ==
    ASSUME IInv, NEW e \in Nat
    PROVE  LET ks == EntitlementRequests(keys, e)
           IN  /\ ks \in [Role -> Key \cup {None}]
               /\ \A r \in Role : ks[r] = None <=> keys[r] = None
               /\ \A r \in Role : keys[r] # None =>
                    ks[r].id = keys[r].id /\ ks[r].cert = keys[r].cert /\ ks[r].oldRepo = keys[r].oldRepo
               /\ parent.offered = 1 /\ e = 1 => \A r \in {"new", "current", "old"} : ks[r] = keys[r]
               /\ keys["pending"] # None => ks["pending"].req = repo
  <1> DEFINE ks == EntitlementRequests(keys, e)
             RepoFor(key) == IF key.oldRepo = None THEN repo ELSE key.oldRepo
             Wants(r) == keys[r] # None /\ (r = "pending" \/ keys[r].cert.entitlements # e)
  <1>1. \A r \in Role : keys[r] # None => keys[r] \in Key /\ keys[r].oldRepo = None
    BY DEF IInv, TypeOK, KeyInv, KeyShape
  <1>2. \A r \in Role : keys[r] # None => RepoFor(keys[r]) = repo
    BY <1>1
  <1>3. repo \in Repo \cup {None}
    BY DEF IInv, TypeOK
  <1>4. DOMAIN ks = Role
    BY DEF EntitlementRequests
  <1>5. keys["old"] # None => keys["current"] # None
    BY DEF IInv, KeyInv, KeyShape
  <1>6. Role = {"pending", "new", "current", "old"}
    BY RoleSets, Zenon
  <1>7. ks["old"] = keys["old"]
    BY <1>6 DEF EntitlementRequests
  <1>8. ks["new"] = IF Wants("new") THEN WithRequest(keys["new"], RepoFor(keys["new"])) ELSE keys["new"]
    BY <1>6 DEF EntitlementRequests
  <1>9. ks["pending"] = IF Wants("pending") THEN WithRequest(keys["pending"], RepoFor(keys["pending"]))
                        ELSE keys["pending"]
    BY <1>6 DEF EntitlementRequests
  <1>10. ks["current"] = IF Wants("old") THEN WithRequest(keys["current"], RepoFor(keys["old"]))
                         ELSE IF Wants("current") THEN WithRequest(keys["current"], RepoFor(keys["current"]))
                         ELSE keys["current"]
    BY <1>6 DEF EntitlementRequests
  <1> HIDE DEF ks
  <1>11. ASSUME NEW r \in Role
         PROVE  ks[r] = keys[r] \/ (keys[r] # None /\ ks[r] = WithRequest(keys[r], repo))
    BY <1>2, <1>5, <1>6, <1>7, <1>8, <1>9, <1>10, Zenon
  <1>12. \A r \in Role : keys[r] # None =>
           /\ WithRequest(keys[r], repo) \in Key /\ WithRequest(keys[r], repo) # None
           /\ WithRequest(keys[r], repo).id = keys[r].id /\ WithRequest(keys[r], repo).cert = keys[r].cert
           /\ WithRequest(keys[r], repo).oldRepo = keys[r].oldRepo
    BY <1>1, <1>3, KeysAreKeys DEF WithRequest
  <1>13. \A r \in Role : ks[r] \in Key \cup {None}
    BY <1>1, <1>11, <1>12
  <1>14. ks \in [Role -> Key \cup {None}]
    <2>1. ks = [r \in Role |-> ks[r]]
      BY DEF ks, EntitlementRequests
    <2> QED BY <1>13, <2>1
  <1>15. parent.offered = 1 /\ e = 1 => \A r \in {"new", "current", "old"} : ks[r] = keys[r]
    <2>1. SUFFICES ASSUME parent.offered = 1, e = 1 PROVE ~Wants("new") /\ ~Wants("current") /\ ~Wants("old")
      BY <1>7, <1>8, <1>10
    <2> QED BY <2>1 DEF IInv, KeyInv, QuietKeys
  <1>16. keys["pending"] # None => ks["pending"].req = repo
    BY <1>2, <1>6, <1>9 DEF WithRequest
  <1>17. \A r \in Role : ks[r] = None <=> keys[r] = None
    BY <1>11, <1>12
  <1>18. \A r \in Role : keys[r] # None =>
           ks[r].id = keys[r].id /\ ks[r].cert = keys[r].cert /\ ks[r].oldRepo = keys[r].oldRepo
    BY <1>11, <1>12
  <1> QED BY <1>14, <1>15, <1>16, <1>17, <1>18 DEF ks

\* The entitlements give rise to a new class, to requests for the keys, or to
\* the removal of the class.
LEMMA UpdateEntitlementsStep == IInv /\ UpdateEntitlements => IInv'
  <1> SUFFICES ASSUME IInv, UpdateEntitlements PROVE IInv'
    OBVIOUS
  <1>1. /\ worker.pc = "update" /\ worker.entitlements \in Nat /\ worker.ids \subseteq Nat
        /\ \A id \in worker.ids : id <= created
        /\ repo \in Repo /\ (parent.offered = 1 => worker.entitlements = 1)
    BY Zenon DEF UpdateEntitlements, IInv, TypeOK, WorkerInv, WorkerTypes, QuietWorker
  <1>2. UNCHANGED <<repo, removals, objRepo, published, parent, now>>
    BY ZenonT(60) DEF UpdateEntitlements
  <1>3. CASE Command(NoClass, NoKeys, NoSets, Idle, Idle, Certified(keys)) /\ UNCHANGED created
    <2>1. Accepted(NoClass, NoKeys, NoSets, Idle, Certified(keys)) => KeyInv' /\ TaskInv' /\ WorkerInv' /\ PublishInv'
      <3>1. \A id \in tasks \cup Certified(keys) : id <= created
        BY CertifiedBound DEF IInv, TaskInv
      <3> QED BY <1>2, <1>3, <3>1, Dropped DEF Accepted
    <2> QED BY <1>2, <1>3, <2>1, CommandStep, EmptyTypes, CertifiedBound, IdleWorker, Zenon
  <1>4. CASE worker' = Idle /\ UNCHANGED <<class, keys, link, sets, deprecated, tasks, created, crashes>>
    <2>1. TypeOK' /\ \A id \in parent'.keys : id <= created
      BY <1>2, <1>4 DEF IInv, TypeOK, ParentInv
    <2> QED BY <1>2, <1>4, <2>1, IdleWorker, Framed, ZenonT(60)
  <1>5. CASE /\ Roles(keys) = {} /\ created' = created + 1
             /\ class' = [name |-> created + 1, lastKeyChange |-> now]
             /\ keys' = [NoKeys EXCEPT !["pending"] = PendingKey(created + 1, repo)]
             /\ worker' = Idle
             /\ UNCHANGED <<link, sets, deprecated, tasks, crashes>>
    <2>1. keys["pending"] = None /\ keys["new"] = None /\ keys["old"] = None /\ keys["current"] = None
      BY <1>5, KeyStates
    <2>2. keys = NoKeys
      <3>1. keys = [r \in Role |-> keys[r]]
        BY DEF IInv, TypeOK
      <3>2. \A r \in Role : keys[r] = None
        BY <2>1 DEF Role
      <3> QED BY <3>1, <3>2 DEF NoKeys
    <2>3. keys' = RollInitiated(keys, repo') /\ repo' \in Repo
      BY <1>1, <1>2, <1>5, <2>2 DEF RollInitiated
    <2>4. /\ keys' \in [Role -> Key \cup {None}]
          /\ KeyInv' /\ TaskInv' /\ ParentInv' /\ WorkerInv'
          /\ keys'["pending"] # None /\ \A r \in {"new", "current", "old"} : keys'[r] = keys[r]
      BY <1>2, <1>5, <2>1, <2>3, KeyAdded, Zenon
    <2>5. class' \in [name : Nat, lastKeyChange : Nat] /\ created' \in Nat
      BY <1>5 DEF IInv, TypeOK
    <2>6. TypeOK'
      BY <1>2, <1>5, <2>4, <2>5, Zenon DEF IInv, TypeOK
    <2>7. PublishInv'
      <3>1. SUFFICES ASSUME crashes = 0 PROVE FollowInv' /\ CertifiedWherePublished'
        BY <1>5 DEF PublishInv
      <3>2. FollowInv /\ CertifiedWherePublished
        BY <3>1 DEF IInv, PublishInv
      <3>3. FollowInv'
        BY <1>2, <1>5, <2>4, <3>2, ZenonT(60) DEF FollowInv, ObjectsFollowKeys, SetFor
      <3> QED BY <1>2, <1>5, <3>2, <3>3, ZenonT(60) DEF CertifiedWherePublished, SetRoles
    <2> QED BY <2>4, <2>6, <2>7 DEF IInv
  <1>6. CASE /\ keys' = EntitlementRequests(keys, worker.entitlements)
             /\ tasks' = tasks \cup {id \in worker.ids : ~KnowsKey(keys, id)}
             /\ worker' = Idle
             /\ UNCHANGED <<class, link, sets, deprecated, created, crashes>>
    <2>1. /\ keys' \in [Role -> Key \cup {None}]
          /\ \A r \in Role : keys'[r] = None <=> keys[r] = None
          /\ \A r \in Role : keys[r] # None =>
               keys'[r].id = keys[r].id /\ keys'[r].cert = keys[r].cert /\ keys'[r].oldRepo = keys[r].oldRepo
          /\ parent.offered = 1 => \A r \in {"new", "current", "old"} : keys'[r] = keys[r]
          /\ keys["pending"] # None => keys'["pending"].req = repo
      BY <1>1, <1>6, EntitlementRequestsKeys, Zenon
    <2>2. Role = {"pending", "new", "current", "old"}
      BY RoleSets, Zenon
    <2>3. \A id : InUse(id)' <=> InUse(id)
      BY <2>1, <2>2 DEF InUse
    <2>4. TypeOK'
      BY <1>1, <1>2, <1>6, <2>1, Zenon DEF IInv, TypeOK
    <2>5. KeyShape'
      BY <2>1, <2>2, Zenon DEF IInv, KeyInv, KeyShape
    <2>6. (parent.offered = 1 => QuietKeys)'
      BY <1>2, <2>1, <2>2, ZenonT(60) DEF IInv, KeyInv, QuietKeys
    <2>7. KeyInv'
      <3>1. \A r \in Role : keys'[r] # None => keys'[r].id <= created'
        BY <1>6, <2>1, ZenonT(60) DEF IInv, KeyInv
      <3>2. \A r, s \in Role : keys'[r] # None /\ keys'[s] # None /\ keys'[r].id = keys'[s].id => r = s
        BY <2>1 DEF IInv, KeyInv
      <3>3. (repo = None => \A r \in Role : keys[r] = None)'
        BY <1>2, <2>1 DEF IInv, KeyInv
      <3> QED BY <2>5, <2>6, <3>1, <3>2, <3>3, Zenon DEF KeyInv
    <2>8. TaskInv'
      <3>1. \A id : ~KnowsKey(keys, id) => ~InUse(id)
        BY DEF KnowsKey, Ids, Roles, Role, InUse
      <3> QED BY <1>1, <1>6, <2>3, <3>1, Zenon DEF IInv, TaskInv
    <2>9. ParentInv'
      BY <1>2, <1>6 DEF IInv, ParentInv
    <2>10. PublishInv'
      <3>1. SUFFICES ASSUME crashes = 0 PROVE FollowInv' /\ CertifiedWherePublished'
        BY <1>6 DEF PublishInv
      <3>2. FollowInv /\ CertifiedWherePublished
        BY <3>1 DEF IInv, PublishInv
      <3>3. FollowInv'
        BY <1>2, <1>6, <2>1, <2>2, <3>2, ZenonT(60) DEF FollowInv, ObjectsFollowKeys, SetFor
      <3> QED BY <1>2, <1>6, <3>2, <3>3 DEF CertifiedWherePublished, SetRoles
    <2> QED BY <1>6, <2>4, <2>7, <2>8, <2>9, <2>10, IdleWorker DEF IInv
  <1> QED BY <1>3, <1>4, <1>5, <1>6, Zenon DEF UpdateEntitlements

-----------------------------------------------------------------------------
(* The key roll *)

\* The operator activates the new key.
LEMMA KeyRollActivateStep == ASSUME IInv, NEW staging, KeyRollActivate(staging) PROVE IInv'
  <1> DEFINE ks == Activated(keys)
             ss == KeyrollActivate(sets)
  <1>1. /\ keys["pending"] = None /\ keys["new"] # None /\ keys["current"] # None /\ keys["old"] = None
        /\ Command(class, ks, ss, worker, worker, {})
        /\ UNCHANGED <<repo, removals, objRepo, published, parent, created, now>>
    BY KeyStates DEF KeyRollActivate
  <1>2. /\ class \in [name : Nat, lastKeyChange : Nat] /\ keys \in [Role -> Key \cup {None}]
        /\ sets \in [SetRole -> Set \cup {None}] /\ created \in Nat
    BY DEF IInv, TypeOK
  <1>3. /\ ks \in [Role -> Key \cup {None}]
        /\ ks["pending"] = None /\ ks["new"] = None /\ ks["current"] = keys["new"] /\ ks["old"] = keys["current"]
    BY <1>2 DEF Activated, NoKeys, Role
  <1>4. ss \in [SetRole -> Set \cup {None}] \cup {Refused}
    BY <1>2 DEF KeyrollActivate, NoSets, SetRole
  <1>5. ss # Refused =>
          /\ ss["staging"] = None /\ ss["current"] = sets["staging"] /\ ss["old"] = sets["current"]
          /\ sets["staging"] # None /\ sets["current"] # None
    BY SetStates DEF KeyrollActivate, NoSets, SetRole
  <1>6. Role = {"pending", "new", "current", "old"} /\ SetRole = {"staging", "current", "old"}
    BY RoleSets, Zenon
  <1>7. worker' = worker /\ keys' = keys => WorkerInv'
    BY <1>1, WorkerSame
  <1>8. ASSUME Accepted(class, ks, ss, worker, {}) PROVE KeyInv' /\ TaskInv' /\ WorkerInv' /\ PublishInv'
    <2>1. keys' = ks /\ sets' = ss /\ ss # Refused /\ worker' = worker /\ tasks' = tasks /\ crashes' = crashes
      BY <1>8 DEF Accepted
    <2> HIDE DEF ks, ss
    <2>2. KeyInv'
      <3>1. KeyShape'
        BY <1>1, <1>3, <1>6, <2>1, Zenon DEF IInv, KeyInv, KeyShape
      <3>2. (parent.offered = 1 => QuietKeys)'
        BY <1>1, <1>3, <2>1, Zenon DEF IInv, KeyInv, QuietKeys
      <3>3. \A r \in Role : keys'[r] # None => keys'[r].id <= created'
        BY <1>1, <1>3, <1>6, <2>1, ZenonT(60) DEF IInv, KeyInv
      <3>4. \A r, s \in Role : keys'[r] # None /\ keys'[s] # None /\ keys'[r].id = keys'[s].id => r = s
        <4>1. keys["new"].id # keys["current"].id
          BY <1>1, <1>6, Zenon DEF IInv, KeyInv
        <4>2. \A r \in Role : keys'[r] # None => r \in {"current", "old"}
          BY <1>3, <1>6, <2>1
        <4>3. keys'["current"].id # keys'["old"].id
          BY <1>3, <2>1, <4>1
        <4> QED BY <4>2, <4>3, Zenon
      <3>5. repo' # None
        BY <1>1, <1>6, ZenonT(60) DEF IInv, KeyInv
      <3> QED BY <3>1, <3>2, <3>3, <3>4, <3>5 DEF KeyInv
    <2>3. \A id : InUse(id)' => InUse(id)
      BY <1>1, <1>3, <2>1 DEF InUse
    <2>4. \A id, r : Fits(id, r) => Fits(id, r)'
      BY <1>1, <1>3, <2>1 DEF Fits
    <2>5. TaskInv'
      BY <1>1, <2>1, <2>3 DEF IInv, TaskInv
    <2>6. WorkerInv'
      BY <1>1, <1>2, <2>1, <2>3, <2>4, WorkerKept
    <2>7. ASSUME crashes = 0 PROVE FollowInv' /\ CertifiedWherePublished'
      <3>1. FollowInv /\ CertifiedWherePublished
        BY <2>7 DEF IInv, PublishInv
      <3>2. FollowInv'
        BY <1>1, <1>3, <1>5, <2>1, <3>1, Zenon DEF FollowInv, ObjectsFollowKeys, SetFor
      <3>3. CertifiedWherePublished'
        BY <1>1, <1>5, <1>6, <2>1, <3>1, ZenonT(60) DEF CertifiedWherePublished, SetRoles
      <3> QED BY <3>2, <3>3
    <2> QED BY <2>1, <2>2, <2>5, <2>6, <2>7 DEF PublishInv
  <1> HIDE DEF ks, ss
  <1>9. CASE Accepted(class, ks, ss, worker, {})
    BY <1>1, <1>2, <1>3, <1>4, <1>8, <1>9, CommandStep
  <1>10. CASE ~Accepted(class, ks, ss, worker, {})
    <2>1. worker' = worker => WorkerInv'
      <3>1. worker' = worker => keys' = keys
        BY <1>1, <1>10 DEF Command, Accepted
      <3> QED BY <1>7, <3>1
    <2> QED BY <1>1, <1>2, <1>3, <1>4, <1>10, <2>1, CommandStep
  <1> QED BY <1>9, <1>10

\* The old key is dropped: it is revoked.
LEMMA FinishRollStep == IInv /\ FinishRoll => IInv'
  <1> SUFFICES ASSUME IInv, FinishRoll PROVE IInv'
    OBVIOUS
  <1> DEFINE ks == [keys EXCEPT !["old"] = None]
             ss == KeyrollFinish(sets)
             w  == [pc |-> "collect"]
  <1>0. UNCHANGED <<repo, removals, objRepo, published, parent, created, now>>
    BY DEF FinishRoll
  <1>1. CASE worker' = Idle /\ UNCHANGED <<class, keys, link, sets, deprecated, tasks, crashes>>
    <2>1. TypeOK' /\ \A id \in parent'.keys : id <= created
      BY <1>0, <1>1 DEF IInv, TypeOK, ParentInv
    <2> QED BY <1>0, <1>1, <2>1, IdleWorker, Framed, ZenonT(60)
  <1>2. CASE RollOld(keys) /\ Command(class, ks, ss, w, Idle, {})
    <2>1. keys["pending"] = None /\ keys["new"] = None /\ keys["current"] # None /\ keys["old"] # None
      BY <1>2, KeyStates
    <2>2. /\ class \in [name : Nat, lastKeyChange : Nat] /\ keys \in [Role -> Key \cup {None}]
          /\ sets \in [SetRole -> Set \cup {None}] /\ created \in Nat
      BY DEF IInv, TypeOK
    <2>3. Role = {"pending", "new", "current", "old"} /\ SetRole = {"staging", "current", "old"}
      BY RoleSets, Zenon
    <2>4. /\ ks \in [Role -> Key \cup {None}]
          /\ ks["pending"] = None /\ ks["new"] = None /\ ks["current"] = keys["current"] /\ ks["old"] = None
      BY <2>1, <2>2, <2>3
    <2>5. ss \in [SetRole -> Set \cup {None}] \cup {Refused}
      BY <2>2 DEF KeyrollFinish, SetRole
    <2>6. ss # Refused => ss["staging"] = sets["staging"] /\ ss["current"] = sets["current"] /\ ss["old"] = None
      BY <2>2, <2>3 DEF KeyrollFinish
    <2>7. ASSUME Accepted(class, ks, ss, w, {}) PROVE KeyInv' /\ TaskInv' /\ WorkerInv' /\ PublishInv'
      <3>1. keys' = ks /\ sets' = ss /\ ss # Refused /\ worker' = w /\ tasks' = tasks /\ crashes' = crashes
        BY <2>7 DEF Accepted
      <3>2. WorkerInv'
        BY <3>1 DEF WorkerInv, WorkerTypes, QuietWorker
      <3> HIDE DEF ks, ss
      <3>3. KeyInv'
        <4>1. KeyShape'
          BY <2>1, <2>3, <2>4, <3>1, ZenonT(60) DEF IInv, KeyInv, KeyShape
        <4>2. (parent.offered = 1 => QuietKeys)'
          BY <1>0, <2>4, <3>1 DEF IInv, KeyInv, QuietKeys
        <4>3. \A r \in Role : keys'[r] # None => keys'[r].id <= created'
          BY <1>0, <2>3, <2>4, <3>1, ZenonT(60) DEF IInv, KeyInv
        <4>4. \A r, s \in Role : keys'[r] # None /\ keys'[s] # None /\ keys'[r].id = keys'[s].id => r = s
          BY <2>3, <2>4, <3>1, Zenon
        <4>5. repo' # None
          BY <1>0, <2>1, <2>3 DEF IInv, KeyInv
        <4> QED BY <4>1, <4>2, <4>3, <4>4, <4>5, Zenon DEF KeyInv
      <3>4. TaskInv'
        BY <1>0, <2>1, <2>4, <3>1, Zenon DEF IInv, TaskInv, InUse
      <3>5. ASSUME crashes = 0 PROVE FollowInv' /\ CertifiedWherePublished'
        <4>1. FollowInv /\ CertifiedWherePublished
          BY <3>5 DEF IInv, PublishInv
        <4>2. FollowInv'
          BY <1>0, <2>1, <2>4, <2>6, <3>1, <4>1, ZenonT(60) DEF FollowInv, ObjectsFollowKeys, SetFor
        <4>3. CertifiedWherePublished'
          BY <1>0, <2>3, <2>6, <3>1, <4>1 DEF CertifiedWherePublished, SetRoles
        <4> QED BY <4>2, <4>3
      <3> QED BY <3>1, <3>2, <3>3, <3>4, <3>5, Zenon DEF PublishInv
    <2> HIDE DEF ks, ss, w
    <2> QED BY <1>0, <1>2, <2>2, <2>4, <2>5, <2>7, CommandStep, IdleWorker
  <1> HIDE DEF ks, ss, w
  <1> QED BY <1>1, <1>2, ZenonT(60) DEF FinishRoll, ks, ss, w

-----------------------------------------------------------------------------
(* Certificates *)

\* The worker goes on with the requests that remain.
LEMMA NextRequest ==
    ASSUME IInv, worker.pc = "receive", worker' = Issue(worker.class, worker.requests),
           UNCHANGED <<parent, created>>
    PROVE  WorkerInv'
  <1> DEFINE rs == worker.requests
  <1>1. CASE rs = << >>
    BY <1>1, IdleWorker, Zenon DEF Issue
  <1>2. CASE rs # << >>
    <2>1. rs \in Seq(Request) /\ \A i \in DOMAIN rs : rs[i].id <= created
      BY DEF IInv, WorkerInv, WorkerTypes
    <2>2. parent.offered # 1
      BY <1>2 DEF IInv, WorkerInv, QuietWorker
    <2>3. worker'.pc = "issue" /\ worker'.requests = rs
      BY <1>2 DEF Issue
    <2> HIDE DEF rs
    <2>4. WorkerTypes'
      BY <1>2, <2>1, <2>3 DEF WorkerTypes
    <2> QED BY <2>1, <2>2, <2>3, <2>4, ZenonT(60) DEF WorkerInv
  <1> QED BY <1>1, <1>2

\* The key that is certified becomes the current one, or the new one: it has
\* the role r from here on.
LEMMA KeyCertified ==
    ASSUME IInv, worker.pc = "receive", keys["pending"] # None, keys["pending"].id = worker.id,
           keys["new"] = None, keys["old"] = None,
           NEW r \in {"current", "new"}, r = "current" <=> keys["current"] = None,
           keys'["pending"] = None, keys'["old"] = None, keys'[r] = CertifiedKey(worker.id, worker.cert),
           \A s \in {"new", "current"} \ {r} : keys'[s] = keys[s],
           UNCHANGED <<repo, parent, created, tasks>>
    PROVE  KeyInv' /\ TaskInv'
  <1> DEFINE key == CertifiedKey(worker.id, worker.cert)
  <1>1. Role = {"pending", "new", "current", "old"}
    BY RoleSets, Zenon
  <1>2. worker.id \in Nat /\ worker.cert \in Cert /\ worker.id <= created
    BY ZenonT(60) DEF IInv, WorkerInv, WorkerTypes
  <1>3. key # None /\ key.id = worker.id /\ key.cert = worker.cert /\ key.req = None /\ key.oldRepo = None
    BY <1>2, KeysAreKeys DEF CertifiedKey
  <1>4. key.cert # None
    BY <1>2, <1>3, KeyRollAssumption, Zenon
  <1>5. parent.offered = 1 => key.cert.entitlements = 1
    BY <1>3, ZenonT(60) DEF IInv, WorkerInv, QuietWorker
  <1> HIDE DEF key
  <1>6. KeyShape'
    <2>1. /\ keys'["new"] # None => keys'["current"] # None /\ keys'["pending"] = None /\ keys'["old"] = None
          /\ keys'["old"] # None => keys'["current"] # None /\ keys'["pending"] = None
      BY <1>3 DEF key
    <2>2. \A s \in {"new", "current"} \ {r} : keys'[s] # None => keys'[s].cert # None /\ keys'[s].oldRepo = None
      BY <1>1 DEF IInv, KeyInv, KeyShape
    <2> QED BY <1>1, <1>3, <1>4, <2>1, <2>2, ZenonT(60) DEF KeyShape, key
  <1>7. (parent.offered = 1 => QuietKeys)'
    BY <1>3, <1>5, ZenonT(60) DEF IInv, KeyInv, QuietKeys, key
  <1>8. \A s \in Role : keys'[s] # None => keys'[s].id <= created'
    BY <1>1, <1>2, <1>3, ZenonT(60) DEF IInv, KeyInv, key
  <1>9. \A s, u \in Role : keys'[s] # None /\ keys'[u] # None /\ keys'[s].id = keys'[u].id => s = u
    BY <1>1, <1>3 DEF IInv, KeyInv, key
  <1>10. repo' # None
    BY <1>1 DEF IInv, KeyInv
  <1>11. KeyInv'
    BY <1>6, <1>7, <1>8, <1>9, <1>10, Zenon DEF KeyInv
  <1>12. \A id : InUse(id)' => InUse(id)
    BY <1>3, ZenonT(60) DEF InUse, key
  <1>13. TaskInv'
    BY <1>12, Zenon DEF IInv, TaskInv
  <1> QED BY <1>11, <1>13

\* The objects, when the certificate of a key that is in use is replaced.
LEMMA UpdateReceivedCertSets ==
    ASSUME sets \in [SetRole -> Set \cup {None}], NEW id \in Nat, NEW cert \in Cert
    PROVE  LET ss == UpdateReceivedCert(sets, id, cert)
           IN  /\ ss \in [SetRole -> Set \cup {None}] \cup {Refused}
               /\ ss # Refused => \A r \in SetRole :
                    /\ ss[r] = None <=> sets[r] = None
                    /\ sets[r] # None =>
                         /\ ss[r].id = sets[r].id /\ ss[r].oldRepo = sets[r].oldRepo
                         /\ ss[r].cert = IF sets[r].id = id THEN cert ELSE sets[r].cert
  <1> DEFINE ss == UpdateReceivedCert(sets, id, cert)
             New(r) == [id |-> id, cert |-> cert, oldRepo |-> sets[r].oldRepo]
  <1>1. CASE ss = Refused
    BY <1>1
  <1>2. CASE ss # Refused
    <2>1. ss = [r \in SetRole |-> IF r \in SetRoles(sets) /\ sets[r].id = id THEN New(r) ELSE sets[r]]
      BY <1>2 DEF UpdateReceivedCert
    <2>2. ASSUME NEW r \in SetRole, sets[r] # None PROVE New(r) \in Set /\ New(r) # None
      <3>1. sets[r] \in Set
        BY <2>2
      <3>2. New(r) \in Set
        BY <3>1 DEF Set
      <3> QED BY <3>2, KeyRollAssumption
    <2>3. \A r \in SetRole : New(r).id = id /\ New(r).cert = cert /\ New(r).oldRepo = sets[r].oldRepo
      OBVIOUS
    <2>4. \A r \in SetRole : r \in SetRoles(sets) <=> sets[r] # None
      BY DEF SetRoles
    <2> HIDE DEF ss, New
    <2>5. ss \in [SetRole -> Set \cup {None}]
      BY <2>1, <2>2, <2>4
    <2>6. \A r \in SetRole : ss[r] = IF sets[r] # None /\ sets[r].id = id THEN New(r) ELSE sets[r]
      BY <2>1, <2>4
    <2>7. \A r \in SetRole :
             /\ ss[r] = None <=> sets[r] = None
             /\ sets[r] # None =>
                  /\ ss[r].id = sets[r].id /\ ss[r].oldRepo = sets[r].oldRepo
                  /\ ss[r].cert = IF sets[r].id = id THEN cert ELSE sets[r].cert
      BY <2>2, <2>3, <2>6
    <2> QED BY <2>5, <2>7 DEF ss
  <1> QED BY <1>1, <1>2, Zenon

\* The certificate is for the pending key of a new class.
LEMMA ReceiveFirst ==
    ASSUME IInv, worker.pc = "receive", Pending(keys), keys["pending"].id = worker.id,
           UNCHANGED <<repo, objRepo, parent, created>>, NEW w, w = Issue(worker.class, worker.requests),
           NEW key, key = CertifiedKey(worker.id, worker.cert),
           Accepted(class, [NoKeys EXCEPT !["current"] = key], AddClass(sets, key), w, {})
    PROVE  KeyInv' /\ TaskInv' /\ WorkerInv' /\ PublishInv'
  <1>1. keys["pending"] # None /\ keys["new"] = None /\ keys["current"] = None /\ keys["old"] = None
    BY KeyStates, Zenon
  <1>2. /\ keys' = [NoKeys EXCEPT !["current"] = key] /\ sets' = AddClass(sets, key) /\ sets' # Refused
        /\ worker' = w /\ tasks' = tasks /\ crashes' = crashes
    BY ZenonT(60) DEF Accepted
  <1>3. keys'["pending"] = None /\ keys'["new"] = None /\ keys'["current"] = key /\ keys'["old"] = None
    BY <1>2, ZenonT(60) DEF NoKeys, Role
  <1>4. KeyInv' /\ TaskInv'
    BY <1>1, <1>2, <1>3, KeyCertified, Zenon
  <1>5. WorkerInv'
    BY <1>2, NextRequest, ZenonT(60)
  <1>6. ASSUME crashes = 0 PROVE FollowInv' /\ CertifiedWherePublished'
    <2>1. FollowInv
      BY <1>6, ZenonT(60) DEF IInv, PublishInv
    <2>2. worker.id \in Nat /\ worker.cert \in Cert
      BY ZenonT(60) DEF IInv, WorkerInv, WorkerTypes
    <2>3. key # None /\ key.id = worker.id /\ key.cert = worker.cert
      BY <2>2, KeysAreKeys DEF CertifiedKey
    <2>4. /\ ObjectSet(key) # None /\ ObjectSet(key).id = worker.id /\ ObjectSet(key).cert = worker.cert
          /\ ObjectSet(key).oldRepo = None
      BY <2>2, <2>3, SetsAreSets DEF ObjectSet
    <2>5. sets["staging"] = None /\ sets["current"] = None /\ sets["old"] = None
      BY <1>1, <2>1, ZenonT(60) DEF FollowInv, ObjectsFollowKeys, SetFor
    <2>6. sets'["staging"] = None /\ sets'["current"] = ObjectSet(key) /\ sets'["old"] = None
      <3>1. sets \in [SetRole -> Set \cup {None}]
        BY Zenon DEF IInv, TypeOK
      <3> QED BY <1>2, <2>5, <3>1, ZenonT(60) DEF AddClass, SetRole
    <2>7. FollowInv'
      BY <1>3, <2>1, <2>3, <2>4, <2>6, ZenonT(60) DEF FollowInv, ObjectsFollowKeys, SetFor
    <2>8. CertifiedWherePublished'
      <3>1. SUFFICES ASSUME parent.offered = 1 PROVE worker.cert.repo = objRepo
        BY <2>4, <2>6, Zenon DEF CertifiedWherePublished, SetRoles, SetRole
      <3>2. Fits(worker.id, worker.cert.repo)
        BY <3>1, Zenon DEF IInv, WorkerInv, QuietWorker
      <3> QED BY <1>1, <2>1, <3>2, Zenon DEF Fits, FollowInv, ObjectsFollowKeys
    <2> QED BY <2>7, <2>8, ZenonT(60)
  <1> QED BY <1>2, <1>4, <1>5, <1>6, Zenon DEF PublishInv

\* The certificate is for the pending key of a key roll.
LEMMA ReceiveStaged ==
    ASSUME IInv, worker.pc = "receive", RollPending(keys), keys["pending"].id = worker.id,
           UNCHANGED <<repo, objRepo, parent, created>>, NEW w, w = Issue(worker.class, worker.requests),
           NEW key, key = CertifiedKey(worker.id, worker.cert),
           Accepted(class, [keys EXCEPT !["pending"] = None, !["new"] = key], KeyrollStage(sets, key), w, {})
    PROVE  KeyInv' /\ TaskInv' /\ WorkerInv' /\ PublishInv'
  <1>1. keys["pending"] # None /\ keys["new"] = None /\ keys["current"] # None /\ keys["old"] = None
    BY KeyStates
  <1>2. /\ keys' = [keys EXCEPT !["pending"] = None, !["new"] = key]
        /\ sets' = KeyrollStage(sets, key) /\ sets' # Refused
        /\ worker' = w /\ tasks' = tasks /\ crashes' = crashes
    BY Zenon DEF Accepted
  <1>3. keys \in [Role -> Key \cup {None}] /\ sets \in [SetRole -> Set \cup {None}]
    BY Zenon DEF IInv, TypeOK
  <1>4. keys'["pending"] = None /\ keys'["new"] = key /\ keys'["current"] = keys["current"] /\ keys'["old"] = None
    BY <1>1, <1>2, <1>3, Zenon DEF Role
  <1>5. KeyInv' /\ TaskInv'
    BY <1>1, <1>2, <1>4, KeyCertified, Zenon
  <1>6. WorkerInv'
    BY <1>2, NextRequest, Zenon
  <1>7. ASSUME crashes = 0 PROVE FollowInv' /\ CertifiedWherePublished'
    <2>1. FollowInv /\ CertifiedWherePublished
      BY <1>7 DEF IInv, PublishInv
    <2>2. worker.id \in Nat /\ worker.cert \in Cert
      BY ZenonT(60) DEF IInv, WorkerInv, WorkerTypes
    <2>3. key # None /\ key.id = worker.id /\ key.cert = worker.cert
      BY <2>2, KeysAreKeys DEF CertifiedKey
    <2>4. /\ ObjectSet(key) # None /\ ObjectSet(key).id = worker.id /\ ObjectSet(key).cert = worker.cert
          /\ ObjectSet(key).oldRepo = None
      BY <2>2, <2>3, SetsAreSets, Zenon DEF ObjectSet
    <2>5. sets["old"] = None
      BY <1>1, <2>1 DEF FollowInv, ObjectsFollowKeys, SetFor
    <2>6. sets'["staging"] = ObjectSet(key) /\ sets'["current"] = sets["current"] /\ sets'["old"] = None
      BY <1>2, <1>3, <2>5, Zenon DEF KeyrollStage, SetRole
    <2>7. FollowInv'
      BY <1>4, <2>1, <2>3, <2>4, <2>6, ZenonT(60) DEF FollowInv, ObjectsFollowKeys, SetFor
    <2>8. CertifiedWherePublished'
      <3>1. SUFFICES ASSUME parent.offered = 1
                     PROVE  /\ worker.cert.repo = objRepo
                            /\ sets["current"] # None =>
                                 sets["current"].cert.repo =
                                   IF sets["current"].oldRepo = None THEN objRepo ELSE sets["current"].oldRepo
        BY <2>4, <2>6, Zenon DEF CertifiedWherePublished, SetRoles, SetRole
      <3>2. Fits(worker.id, worker.cert.repo)
        BY <3>1, ZenonT(60) DEF IInv, WorkerInv, QuietWorker
      <3>3. worker.cert.repo = objRepo
        BY <1>1, <2>1, <3>2 DEF Fits, FollowInv, ObjectsFollowKeys
      <3> QED BY <2>1, <3>1, <3>3, Zenon DEF CertifiedWherePublished, SetRoles, SetRole
    <2> QED BY <2>7, <2>8, ZenonT(60)
  <1> QED BY <1>2, <1>5, <1>6, <1>7, ZenonT(60) DEF PublishInv

\* The certificate replaces that of a key that is in use.  This does not happen
\* unless the entitlements have changed.
LEMMA ReceiveUpdate ==
    ASSUME IInv, worker.pc = "receive", NEW r \in {"new", "current"}, keys[r] # None, keys[r].id = worker.id,
           UNCHANGED <<repo, objRepo, parent, created>>, NEW w, w = Issue(worker.class, worker.requests),
           Accepted(class, [keys EXCEPT ![r] = WithCert(keys[r], worker.cert)],
                    UpdateReceivedCert(sets, worker.id, worker.cert), w, {})
    PROVE  KeyInv' /\ TaskInv' /\ WorkerInv' /\ PublishInv'
  <1> DEFINE key == WithCert(keys[r], worker.cert)
             ss  == UpdateReceivedCert(sets, worker.id, worker.cert)
  <1>1. /\ keys' = [keys EXCEPT ![r] = key] /\ sets' = ss /\ ss # Refused
        /\ worker' = w /\ tasks' = tasks /\ crashes' = crashes
    BY ZenonT(60) DEF Accepted
  <1>2. keys \in [Role -> Key \cup {None}] /\ sets \in [SetRole -> Set \cup {None}]
    BY Zenon DEF IInv, TypeOK
  <1>3. worker.id \in Nat /\ worker.cert \in Cert
    BY ZenonT(60) DEF IInv, WorkerInv, WorkerTypes
  <1>4. Role = {"pending", "new", "current", "old"} /\ r \in Role
    BY RoleSets, Zenon
  <1>5. key # None /\ key.id = worker.id /\ key.cert = worker.cert /\ key.oldRepo = keys[r].oldRepo
    BY <1>2, <1>3, <1>4, KeysAreKeys DEF WithCert
  <1>6. keys'[r] = key /\ \A s \in Role \ {r} : keys'[s] = keys[s]
    BY <1>1, <1>2, <1>4, ZenonT(60)
  <1>7. worker.cert # None
    BY <1>3, KeyRollAssumption, ZenonT(60)
  <1>8. parent.offered # 1
    <2>1. ~Fits(worker.id, worker.cert.repo)
      BY Zenon DEF Fits
    <2> QED BY <2>1, Zenon DEF IInv, WorkerInv, QuietWorker
  <1>9. \A s \in Role : /\ keys'[s] = None <=> keys[s] = None
                        /\ keys[s] # None => keys'[s].id = keys[s].id /\ keys'[s].oldRepo = keys[s].oldRepo
                        /\ keys[s] # None => keys'[s].cert = IF s = r THEN worker.cert ELSE keys[s].cert
    BY <1>5, <1>6, Zenon
  <1> HIDE DEF key, ss
  <1>10. KeyInv'
    <2>1. KeyShape'
      BY <1>4, <1>7, <1>9 DEF IInv, KeyInv, KeyShape
    <2>2. \A s \in Role : keys'[s] # None => keys'[s].id <= created'
      BY <1>9, Zenon DEF IInv, KeyInv
    <2>3. \A s, u \in Role : keys'[s] # None /\ keys'[u] # None /\ keys'[s].id = keys'[u].id => s = u
      BY <1>9, ZenonT(60) DEF IInv, KeyInv
    <2>4. repo' # None
      BY <1>4, Zenon DEF IInv, KeyInv
    <2> QED BY <1>8, <2>1, <2>2, <2>3, <2>4, ZenonT(60) DEF KeyInv
  <1>11. TaskInv'
    <2>1. \A id : InUse(id)' => InUse(id)
      BY <1>4, <1>9, ZenonT(60) DEF InUse
    <2> QED BY <1>1, <2>1, Zenon DEF IInv, TaskInv
  <1>12. WorkerInv'
    BY <1>1, NextRequest, Zenon
  <1>13. ASSUME crashes = 0 PROVE FollowInv'
    <2>1. FollowInv
      BY <1>13, ZenonT(60) DEF IInv, PublishInv
    <2>2. \A u \in SetRole :
            /\ sets'[u] = None <=> sets[u] = None
            /\ sets[u] # None =>
                 /\ sets'[u].id = sets[u].id /\ sets'[u].oldRepo = sets[u].oldRepo
                 /\ sets'[u].cert = IF sets[u].id = worker.id THEN worker.cert ELSE sets[u].cert
      <3>1. ss # Refused => \A u \in SetRole :
              /\ ss[u] = None <=> sets[u] = None
              /\ sets[u] # None =>
                   /\ ss[u].id = sets[u].id /\ ss[u].oldRepo = sets[u].oldRepo
                   /\ ss[u].cert = IF sets[u].id = worker.id THEN worker.cert ELSE sets[u].cert
        BY <1>2, <1>3, UpdateReceivedCertSets, Zenon DEF ss
      <3> QED BY <1>1, <3>1, Zenon
    <2>3. SetRole = {"staging", "current", "old"}
      BY RoleSets, Zenon
    <2>4. \A s \in Role : keys[s] # None => (keys[s].id = worker.id <=> s = r)
      BY <1>4, Zenon DEF IInv, KeyInv
    <2>5. ObjectsFollowKeys'
      <3>1. ASSUME NEW s \in {"new", "current", "old"}
            PROVE  LET set == sets'[SetFor(s)]
                   IN  IF keys'[s] = None THEN set = None
                       ELSE set # None /\ set.id = keys'[s].id /\ set.cert = keys'[s].cert
        <4>1. s \in Role /\ SetFor(s) \in SetRole
          BY <1>4, <2>3, Zenon DEF SetFor
        <4>2. IF keys[s] = None THEN sets[SetFor(s)] = None
              ELSE sets[SetFor(s)] # None /\ sets[SetFor(s)].id = keys[s].id /\ sets[SetFor(s)].cert = keys[s].cert
          BY <2>1, Zenon DEF FollowInv, ObjectsFollowKeys
        <4> QED BY <1>9, <2>2, <2>4, <4>1, <4>2, ZenonT(60)
      <3>2. objRepo' = repo'
        BY <2>1, Zenon DEF FollowInv, ObjectsFollowKeys
      <3> QED BY <3>1, <3>2, Zenon DEF ObjectsFollowKeys, SetFor
    <2>6. sets'["staging"] # None => sets'["staging"].oldRepo = None
      BY <2>1, <2>2, <2>3, Zenon DEF FollowInv
    <2>7. keys'["pending"] = None /\ keys'["new"] = None /\ sets'["current"] # None => sets'["current"].oldRepo = None
      BY <1>4, <1>9, <2>1, <2>2, <2>3, Zenon DEF FollowInv
    <2> QED BY <2>5, <2>6, <2>7, Zenon DEF FollowInv
  <1>14. CertifiedWherePublished'
    BY <1>8, Zenon DEF CertifiedWherePublished
  <1> QED BY <1>1, <1>10, <1>11, <1>12, <1>13, <1>14, ZenonT(60) DEF PublishInv

\* The CA receives a certificate.
LEMMA ReceiveCertStep == IInv /\ ReceiveCert => IInv'
  <1> SUFFICES ASSUME IInv, ReceiveCert PROVE IInv'
    OBVIOUS
  <1> DEFINE key  == CertifiedKey(worker.id, worker.cert)
             next == Issue(worker.class, worker.requests)
             drop == [pc |-> "drop", class |-> worker.class]
             roles == IF worker.class = class.name THEN AcceptedRoles(keys, worker.id) ELSE {}
             first == [NoKeys EXCEPT !["current"] = key]
             staged == [keys EXCEPT !["pending"] = None, !["new"] = key]
  <1>1. worker.pc = "receive" /\ UNCHANGED <<repo, removals, objRepo, published, parent, created, now>>
    BY ZenonT(60) DEF ReceiveCert
  <1>2. /\ class \in [name : Nat, lastKeyChange : Nat] /\ keys \in [Role -> Key \cup {None}]
        /\ sets \in [SetRole -> Set \cup {None}] /\ worker.id \in Nat /\ worker.cert \in Cert
    BY <1>1, ZenonT(60) DEF IInv, TypeOK, WorkerInv, WorkerTypes
  <1>3. key \in Key /\ ObjectSet(key) \in Set
    BY <1>2, KeysAreKeys, SetsAreSets
  <1>4. \A r \in roles : r \in {"pending", "new", "current"} /\ keys[r] # None /\ keys[r].id = worker.id
    BY DEF AcceptedRoles, Roles, Role
  <1>5. worker' = drop => WorkerInv'
    BY DroppingWorker
  <1>6. CASE "pending" \in roles /\ Pending(keys) /\ Command(class, first, AddClass(sets, key), next, drop, {})
    <2>1. first \in [Role -> Key \cup {None}]
      BY <1>3 DEF NoKeys, Role
    <2>2. AddClass(sets, key) \in [SetRole -> Set \cup {None}] \cup {Refused}
      BY <1>2, <1>3, Zenon DEF AddClass
    <2>3. Accepted(class, first, AddClass(sets, key), next, {}) => KeyInv' /\ TaskInv' /\ WorkerInv' /\ PublishInv'
      BY <1>1, <1>4, <1>6, ReceiveFirst, ZenonT(60)
    <2> HIDE DEF first, next, drop, key
    <2> QED BY <1>1, <1>2, <1>5, <1>6, <2>1, <2>2, <2>3, CommandStep
  <1>7. CASE /\ "pending" \in roles /\ RollPending(keys)
             /\ Command(class, staged, KeyrollStage(sets, key), next, drop, {})
    <2>1. staged \in [Role -> Key \cup {None}]
      BY <1>2, <1>3 DEF Role
    <2>2. KeyrollStage(sets, key) \in [SetRole -> Set \cup {None}] \cup {Refused}
      BY <1>2, <1>3, ZenonT(60) DEF KeyrollStage
    <2>3. Accepted(class, staged, KeyrollStage(sets, key), next, {}) => KeyInv' /\ TaskInv' /\ WorkerInv' /\ PublishInv'
      BY <1>1, <1>4, <1>7, ReceiveStaged, Zenon
    <2> HIDE DEF staged, next, drop, key
    <2> QED BY <1>1, <1>2, <1>5, <1>7, <2>1, <2>2, <2>3, CommandStep
  <1>8. ASSUME NEW r \in roles \ {"pending"},
               Command(class, [keys EXCEPT ![r] = WithCert(keys[r], worker.cert)],
                       UpdateReceivedCert(sets, worker.id, worker.cert), next, drop, {})
        PROVE  IInv'
    <2> DEFINE ks == [keys EXCEPT ![r] = WithCert(keys[r], worker.cert)]
               ss == UpdateReceivedCert(sets, worker.id, worker.cert)
    <2>1. r \in {"new", "current"} /\ keys[r] # None /\ keys[r].id = worker.id
      BY <1>4
    <2>2. ks \in [Role -> Key \cup {None}]
      <3>1. keys[r] \in Key
        BY <1>2, <2>1, Zenon DEF Role
      <3>2. WithCert(keys[r], worker.cert) \in Key
        BY <1>2, <3>1, KeysAreKeys
      <3> QED BY <1>2, <3>2, Zenon
    <2>3. ss \in [SetRole -> Set \cup {None}] \cup {Refused}
      BY <1>2, UpdateReceivedCertSets, Zenon
    <2>4. Accepted(class, ks, ss, next, {}) => KeyInv' /\ TaskInv' /\ WorkerInv' /\ PublishInv'
      BY <1>1, <2>1, ReceiveUpdate, Zenon
    <2>5. Command(class, ks, ss, next, drop, {})
      BY <1>8, ZenonT(60)
    <2> HIDE DEF ks, ss, next, drop
    <2> QED BY <1>1, <1>2, <1>5, <2>2, <2>3, <2>4, <2>5, CommandStep
  <1>9. CASE worker' = drop /\ UNCHANGED <<class, keys, link, sets, deprecated, tasks, crashes>>
    <2>1. TypeOK' /\ \A id \in parent'.keys : id <= created
      BY <1>1, <1>9, Zenon DEF IInv, TypeOK, ParentInv
    <2> QED BY <1>1, <1>5, <1>9, <2>1, Framed, ZenonT(60)
  <1> HIDE DEF key, next, drop, roles, first, staged
  <1> QED BY <1>6, <1>7, <1>8, <1>9, Zenon DEF ReceiveCert, key, next, drop, roles, first, staged

-----------------------------------------------------------------------------
(* Cleaning *)

\* Forgetting a repository keeps the type of the list, and the other repositories.
LEMMA ForgetType ==
    ASSUME deprecated \in Seq(Deprecated), NEW r
    PROVE  /\ Forget(r) \in Seq(Deprecated)
           /\ \A i \in DOMAIN deprecated :
                deprecated[i].repo # r => \E n \in DOMAIN Forget(r) : Forget(r)[n] = deprecated[i]
  <1> DEFINE kept == {i \in DOMAIN deprecated : deprecated[i].repo # r}
             Upto(i) == {k \in kept : k <= i}
             Place(i) == Cardinality(Upto(i))
             size == Cardinality(kept)
             f == [i \in kept |-> Place(i)]
  <1>1. kept \subseteq 1 .. Len(deprecated) /\ kept \subseteq Nat /\ IsFiniteSet(kept) /\ size \in Nat
    <2>1. kept \subseteq 1 .. Len(deprecated) /\ Len(deprecated) \in Nat
      OBVIOUS
    <2>2. IsFiniteSet(1 .. Len(deprecated))
      BY <2>1, FS_Interval
    <2>3. IsFiniteSet(kept)
      BY <2>1, <2>2, FS_Subset
    <2> QED BY <2>1, <2>3, FS_CardinalityType
  <1> HIDE DEF kept
  <1>2. ASSUME NEW i \in kept PROVE /\ IsFiniteSet(Upto(i)) /\ Upto(i) \in SUBSET kept
                                    /\ Place(i) \in Nat /\ Place(i) \in 1 .. size
    <2>1. Upto(i) \in SUBSET kept /\ i \in Upto(i)
      BY <1>1, <1>2
    <2>2. IsFiniteSet(Upto(i)) /\ Place(i) <= size
      BY <1>1, <2>1, FS_Subset
    <2>3. Place(i) \in Nat /\ Place(i) # 0
      BY <2>1, <2>2, FS_CardinalityType, FS_EmptySet, Zenon
    <2> HIDE DEF Upto
    <2> QED BY <1>1, <2>1, <2>2, <2>3
  <1>3. ASSUME NEW i \in kept, NEW j \in kept, i < j PROVE Place(i) # Place(j)
    <2>0. i \in Nat /\ j \in Nat /\ \A k \in kept : k \in Nat
      BY <1>1
    <2>1. Upto(i) \in SUBSET Upto(j)
      <3>1. ASSUME NEW k \in kept, k <= i PROVE k <= j
        BY <1>3, <2>0, <3>1
      <3> QED BY <3>1
    <2>2. j \in Upto(j) /\ j \notin Upto(i)
      BY <1>3, <2>0
    <2>3. Place(j) = Place(i) => Upto(j) = Upto(i)
      BY <1>2, <2>1, FS_Subset
    <2> QED BY <2>2, <2>3
  <1>4. \A i, j \in kept : Place(i) = Place(j) => i = j
    BY <1>1, <1>3
  <1> HIDE DEF Place
  <1>5. f \in Injection(kept, 1 .. size)
    <2>1. f \in [kept -> 1 .. size]
      BY <1>2, Zenon DEF Place
    <2> QED BY <1>4, <2>1 DEF Injection, IsInjective
  <1>6. f \in Surjection(kept, 1 .. size)
    <2>1. IsFiniteSet(1 .. size) /\ Cardinality(1 .. size) = size
      BY <1>1, FS_Interval
    <2> QED BY <1>5, <2>1, FS_Injection
  <1>7. \A n \in 1 .. size : \E i \in kept : Place(i) = n
    BY <1>6, Zenon DEF Surjection
  <1> DEFINE At(n) == CHOOSE i \in kept : Place(i) = n
  <1>8. \A n \in 1 .. size : At(n) \in kept
    BY <1>7
  <1>9. \A i \in kept : At(Place(i)) = i
    BY <1>4
  <1>10. Forget(r) = [n \in 1 .. size |-> deprecated[At(n)]]
    BY DEF Forget, kept, Place, Upto
  <1>11. \A n \in 1 .. size : deprecated[At(n)] \in Deprecated
    <2>1. \A i \in kept : i \in DOMAIN deprecated
      BY DEF kept
    <2>2. \A i \in kept : deprecated[i] \in Deprecated
      BY <2>1
    <2> HIDE DEF At
    <2> QED BY <1>8, <2>2
  <1> HIDE DEF At, size
  <1>12. Forget(r) \in Seq(Deprecated)
    BY <1>1, <1>10, <1>11
  <1>13. ASSUME NEW i \in DOMAIN deprecated, deprecated[i].repo # r
         PROVE  \E n \in DOMAIN Forget(r) : Forget(r)[n] = deprecated[i]
    <2>1. i \in kept
      BY <1>13 DEF kept
    <2>2. Place(i) \in 1 .. size /\ At(Place(i)) = i
      BY <1>2, <1>9, <2>1, Zenon DEF Place
    <2>3. Place(i) \in DOMAIN Forget(r) /\ Forget(r)[Place(i)] = deprecated[i]
      BY <1>10, <2>2, Zenon
    <2> QED BY <2>3
  <1> QED BY <1>12, <1>13

\* The worker cleans a repository.
LEMMA CleanStep == IInv /\ Clean => IInv'
  <1> SUFFICES ASSUME IInv, Clean PROVE IInv'
    OBVIOUS
  <1>1. worker.todo \in Seq(Deprecated) /\ deprecated \in Seq(Deprecated)
    BY DEF IInv, WorkerInv, WorkerTypes, TypeOK, Deprecated, Clean
  <1>2. worker.todo # << >> => Tail(worker.todo) \in Seq(Deprecated) /\ Head(worker.todo) \in Deprecated
    BY <1>1
  <1>3. published' \in [Repo -> SUBSET Nat]
    <2>1. published \in [Repo -> SUBSET Nat]
      BY Zenon DEF IInv, TypeOK
    <2> QED BY <2>1 DEF Clean
  <1>4. deprecated' \in Seq(Deprecated)
    <2>1. worker.todo # << >> => Head(worker.todo).repo \in Repo
      BY <1>2 DEF Deprecated
    <2> QED BY <1>1, <2>1, CountAttemptType, ForgetType DEF Clean
  <1>5. TypeOK' /\ \A id \in parent'.keys : id <= created
    BY <1>3, <1>4, ZenonT(60) DEF IInv, TypeOK, Clean, ParentInv, Deprecated, caVars, linkVars
  <1>6. WorkerInv'
    <2>1. CASE worker' = Idle
      BY <2>1, IdleWorker, Zenon
    <2>2. CASE worker.todo # << >> /\ worker' = [pc |-> "clean", todo |-> Tail(worker.todo)]
      BY <1>2, <2>2 DEF WorkerInv, WorkerTypes, QuietWorker
    <2> QED BY <2>1, <2>2 DEF Clean
  <1> QED BY <1>5, <1>6, Framed, Zenon DEF Clean, caVars

-----------------------------------------------------------------------------
(* The theorems *)

\* The invariant holds at the start.
LEMMA InitInv == Init => IInv
  <1> SUFFICES ASSUME Init PROVE IInv
    OBVIOUS
  <1>1. Role = {"pending", "new", "current", "old"} /\ SetRole = {"staging", "current", "old"}
    BY RoleSets, Zenon
  <1>2. (\A r \in Role : keys[r] = None) /\ (\A r \in SetRole : sets[r] = None)
    BY DEF Init, NoKeys, NoSets
  <1>3. TypeOK
    BY EmptyTypes, KeyRollAssumption DEF Init, TypeOK
  <1>4. KeyInv
    BY <1>1, <1>2 DEF KeyInv, KeyShape, QuietKeys
  <1>7. TaskInv /\ ParentInv
    BY DEF Init, TaskInv, ParentInv
  <1>5. WorkerInv
    BY Zenon DEF Init, Idle, WorkerInv, WorkerTypes, QuietWorker
  <1>6. PublishInv
    BY <1>1, <1>2, Zenon DEF Init, PublishInv, FollowInv, ObjectsFollowKeys, SetFor, CertifiedWherePublished, SetRoles
  <1> QED BY <1>3, <1>4, <1>5, <1>6, <1>7, Zenon DEF IInv

\* Every step keeps the invariant.
LEMMA NextInv == IInv /\ [Next]_vars => IInv'
  <1> SUFFICES ASSUME IInv, [Next]_vars PROVE IInv'
    OBVIOUS
  <1>1. CASE Operator
    BY <1>1, KeyRollInitStep, KeyRollActivateStep, MigrateToStep, ParentRevokeStep, RemoveParentStep, AddParentStep, Zenon
       DEF Operator
  <1>2. CASE Exchange
    BY <1>2, SyncParentStep, SendRevokeStep, FinishRollStep, CollectRequestsStep, SendIssueStep, ReceiveCertStep,
       DropClassStep, GetEntitlementsStep, UpdateEntitlementsStep, RevokeTaskStep, SyncRepoStep, PublishStep, CleanStep, Zenon
       DEF Exchange
  <1>3. CASE ParentChanges
    BY <1>3, ParentChangesStep, Zenon
  <1>4. CASE Tick
    BY <1>4, TickStep
  <1>5. CASE UNCHANGED vars
    BY <1>5, StutterStep
  <1> QED BY <1>1, <1>2, <1>3, <1>4, <1>5, Zenon DEF Next

\* The invariant holds in every state that the code reaches, after crashes too.
THEOREM InductiveInvariant == Spec => []IInv
  BY InitInv, NextInv, PTL DEF Spec

\* Every variable keeps its type, the list of deprecated repositories and what
\* is published included.
THEOREM TypeCorrect == Spec => []TypeOK
  BY InductiveInvariant, PTL DEF IInv

\* No key that is in use, or that is to be used, is on its way to be revoked:
\* not by the end of a key roll (get_revoke_requests), not for a class that was
\* dropped, and not because the parent names a key that the CA does not expect
\* (make_entitlement_events).  This holds after crashes too.
THEOREM UsedKeysNotRevokedCorrect == Spec => []UsedKeysNotRevoked
  <1>1. IInv => UsedKeysNotRevoked
    <2> SUFFICES ASSUME IInv, NEW id \in Ids(keys, {"pending", "new", "current"})
                 PROVE  id \notin tasks /\ (worker.pc = "revoke" => id # worker.id)
      BY DEF UsedKeysNotRevoked
    <2>1. InUse(id)
      BY Zenon DEF Ids, Roles, InUse
    <2> QED BY <2>1, Zenon DEF IInv, TaskInv, WorkerInv
  <1> QED BY <1>1, InductiveInvariant, PTL

\* As long as there was no crash, the objects that CaObjects has are those of the
\* keys of the CA: every event that the CA applies to its keys is applied by the
\* listener (pre_save_events) to the object set of the same key.
THEOREM ObjectsFollowKeysCorrect == Spec => [](crashes = 0 => ObjectsFollowKeys)
  <1>1. IInv => (crashes = 0 => ObjectsFollowKeys)
    BY DEF IInv, PublishInv, FollowInv
  <1> QED BY <1>1, InductiveInvariant, PTL

\* As long as there was no crash and the entitlements are the first ones, a key
\* is certified for the repository that its objects are published in, in the
\* course of any number of migrations too.
THEOREM CertifiedWherePublishedCorrect == Spec => [](crashes = 0 => CertifiedWherePublished)
  <1>1. IInv => (crashes = 0 => CertifiedWherePublished)
    BY DEF IInv, PublishInv
  <1> QED BY <1>1, InductiveInvariant, PTL

-----------------------------------------------------------------------------
(* Repositories are not lost sight of *)

\* At most one old repository is in use.
LEMMA OneOldRepo == KeyShape /\ FollowInv => \A a, b \in OldRepos(sets) : a = b
  <1> SUFFICES ASSUME KeyShape, FollowInv, NEW r \in SetRoles(sets), NEW s \in SetRoles(sets),
                      sets[r].oldRepo # None, sets[s].oldRepo # None
               PROVE  r = s
    BY DEF OldRepos
  <1>1. r \in {"current", "old"} /\ s \in {"current", "old"} /\ sets[r] # None /\ sets[s] # None
    BY DEF SetRoles, SetRole, FollowInv
  <1>2. sets["old"] # None => keys["old"] # None
    BY DEF FollowInv, ObjectsFollowKeys, SetFor
  <1> QED BY <1>1, <1>2 DEF FollowInv, KeyShape

\* No object set gets lost but that its old repository is deprecated.
LEMMA TrackedKept ==
    ASSUME TypeOK, KeyShape, FollowInv, objRepo' = objRepo,
           UNCHANGED <<sets, deprecated>> \/ deprecated' = Deprecate(sets')
    PROVE  Tracked \subseteq Tracked'
  <1>1. CASE UNCHANGED <<sets, deprecated>>
    BY <1>1 DEF Tracked, OldRepos, SetRoles
  <1>2. CASE deprecated' = Deprecate(sets')
    <2> DEFINE unused == OldRepos(sets) \ OldRepos(sets')
    <2>0. OldRepos(sets') = OldRepos(sets)'
      BY DEF OldRepos, SetRoles
    <2>1. deprecated \in Seq(Deprecated)
      BY DEF TypeOK, Deprecated
    <2>2. CASE unused = {}
      <3>1. deprecated' = deprecated
        BY <1>2, <2>2 DEF Deprecate
      <3>2. OldRepos(sets) \subseteq OldRepos(sets)'
        BY <2>0, <2>2, Zenon
      <3> QED BY <3>1, <3>2 DEF Tracked
    <2>3. CASE unused # {}
      <3> DEFINE u == CHOOSE r \in unused : TRUE
                 d == [repo |-> u, attempts |-> 0]
      <3>1. u \in unused
        BY <2>3
      <3>2. \A r \in unused : r = u
        BY <3>1, OneOldRepo
      <3>3. deprecated' = Append(deprecated, d)
        BY <1>2, <2>3 DEF Deprecate
      <3>4. d.repo = u
        OBVIOUS
      <3> HIDE DEF unused, u, d
      <3>5. /\ \A i \in DOMAIN deprecated : i \in DOMAIN deprecated' /\ deprecated'[i] = deprecated[i]
            /\ \E i \in DOMAIN deprecated' : deprecated'[i] = d
        <4>1. /\ DOMAIN deprecated = 1 .. Len(deprecated) /\ Len(deprecated) \in Nat
              /\ DOMAIN deprecated' = 1 .. Len(deprecated) + 1
              /\ deprecated'[Len(deprecated) + 1] = d
              /\ \A i \in 1 .. Len(deprecated) : deprecated'[i] = deprecated[i]
          BY <2>1, <3>3
        <4> QED BY <4>1
      <3>6. \A r \in OldRepos(sets) : r \in OldRepos(sets)' \/ r = u
        BY <2>0, <3>2 DEF unused
      <3>7. \A i \in DOMAIN deprecated : deprecated[i].repo \in {deprecated'[j].repo : j \in DOMAIN deprecated'}
        BY <3>5
      <3>8. u \in {deprecated'[j].repo : j \in DOMAIN deprecated'}
        BY <3>4, <3>5
      <3> QED BY <3>6, <3>7, <3>8, Zenon DEF Tracked
    <2> QED BY <2>2, <2>3
  <1> QED BY <1>1, <1>2

\* The listener of a command that is accepted or refused keeps track.
LEMMA CommandTracks ==
    ASSUME NEW c, NEW ks, NEW ss, NEW w, NEW e, NEW t, Command(c, ks, ss, w, e, t)
    PROVE  UNCHANGED <<sets, deprecated>> \/ deprecated' = Deprecate(sets')
  BY DEF Command

\* A migration remembers the old repository by the keys that use it.
LEMMA MigrateToTracks ==
    ASSUME IInv, FollowInv, ~Crash, NEW newRepo \in Repo, MigrateTo(newRepo)
    PROVE  Tracked \subseteq Tracked' \/ (Roles(keys) = {} /\ repo' # repo)
  <1>1. /\ sets' = UpdateRepo(sets) /\ objRepo' = newRepo /\ deprecated' = deprecated /\ repo' = newRepo
        /\ newRepo # repo /\ (repo # None => Roles(keys) = {} \/ Active(keys))
    BY DEF MigrateTo
  <1>2. CASE repo = None \/ Roles(keys) = {}
    BY <1>1, <1>2 DEF IInv, KeyInv, Roles
  <1>3. CASE repo # None /\ Active(keys)
    <2>1. keys["pending"] = None /\ keys["new"] = None /\ keys["old"] = None /\ keys["current"] # None
      BY <1>3, KeyStates, Zenon
    <2>2. /\ sets["staging"] = None /\ sets["old"] = None /\ sets["current"] # None
          /\ sets["current"].oldRepo = None /\ objRepo = repo
      BY <2>1 DEF FollowInv, ObjectsFollowKeys, SetFor
    <2>3. sets'["current"] # None /\ sets'["current"].oldRepo = objRepo
      BY <1>1, <1>3, <2>2, UpdateRepoSets, Zenon DEF SetRole, IInv
    <2>4. OldRepos(sets) = {}
      BY <2>2, Zenon DEF OldRepos, SetRoles, SetRole
    <2>5. objRepo \in OldRepos(sets)'
      BY <1>3, <2>2, <2>3 DEF OldRepos, SetRoles, SetRole
    <2> QED BY <1>1, <2>4, <2>5, Zenon DEF Tracked
  <1> QED BY <1>1, <1>2, <1>3, Zenon

\* Cleaning drops only the repository that was cleaned, or that is given up.
LEMMA CleanTracks ==
    ASSUME IInv, Clean, NEW r \in Tracked, published[r] # {}, r \notin Tracked'
    PROVE  published'[r] = {} \/ GivesUp(r)
  <1> DEFINE d == Head(worker.todo)
  <1>1. /\ objRepo' = objRepo /\ sets' = sets /\ worker.pc = "clean"
        /\ deprecated \in Seq(Deprecated) /\ worker.todo \in Seq(Deprecated)
    BY Zenon DEF Clean, IInv, TypeOK, Deprecated, WorkerInv, WorkerTypes
  <1>2. OldRepos(sets)' = OldRepos(sets)
    BY <1>1 DEF OldRepos, SetRoles
  <1>3. r # None /\ \E i \in DOMAIN deprecated : deprecated[i].repo = r
    BY <1>1, <1>2, Zenon DEF Tracked
  <1>4. PICK i \in DOMAIN deprecated : deprecated[i].repo = r
    BY <1>3
  <1>5. \A j \in DOMAIN deprecated' : deprecated'[j].repo # r
    BY <1>3 DEF Tracked
  <1>6. ~UNCHANGED deprecated
    BY <1>4, <1>5
  <1>7. worker.todo # << >> /\ d \in Deprecated /\ d.repo \in Repo
    <2>1. worker.todo # << >>
      BY <1>6 DEF Clean
    <2>2. d \in Deprecated
      BY <1>1, <2>1
    <2> QED BY <2>1, <2>2, Zenon DEF Deprecated
  <1>8. deprecated' # CountAttempt(d.repo)
    BY <1>1, <1>4, <1>5, <1>7, CountAttemptType, Zenon
  <1>9. deprecated' = Forget(d.repo) => d.repo = r
    BY <1>1, <1>4, <1>5, ForgetType
  <1>10. CASE published' = [published EXCEPT ![d.repo] = {}] /\ deprecated' = Forget(d.repo)
    <2>1. published \in [Repo -> SUBSET Nat]
      BY DEF IInv, TypeOK
    <2> QED BY <1>7, <1>9, <1>10, <2>1, Zenon
  <1>11. CASE d.attempts >= CleanAttempts /\ deprecated' = Forget(d.repo)
    BY <1>1, <1>7, <1>9, <1>11 DEF GivesUp
  <1> QED BY <1>6, <1>8, <1>10, <1>11, Zenon DEF Clean

\* Where no crash is considered, every repository with objects of the CA is
\* synchronised, cleaned, or given up: neither a roll that is finished, nor a
\* class that is dropped, nor a migration (update_repo, keyroll_finish,
\* deprecate_repo_if_no_longer_used) forgets one.
THEOREM ContentIsTrackedCorrect == MaxCrashes = 0 => (Spec => ContentIsTracked)
  <1> SUFFICES ASSUME MaxCrashes = 0 PROVE Spec => ContentIsTracked
    OBVIOUS
  <1>1. IInv /\ [Next]_vars => [StaysTracked]_vars
    <2> SUFFICES ASSUME IInv, Next, NEW r \in Tracked, published[r] # {}, r \notin Tracked'
                 PROVE  published'[r] = {} \/ GivesUp(r) \/ (Roles(keys) = {} /\ repo' # repo)
      BY DEF StaysTracked
    <2>1. crashes = 0 /\ ~Crash
      BY DEF IInv, TypeOK, Crash
    <2>2. TypeOK /\ KeyShape /\ FollowInv
      BY <2>1 DEF IInv, KeyInv, PublishInv
    <2>3. ASSUME objRepo' = objRepo, UNCHANGED <<sets, deprecated>> \/ deprecated' = Deprecate(sets') PROVE FALSE
      BY <2>2, <2>3, TrackedKept
    <2>4. CASE Operator
      <3>1. CASE \E staging \in Period : KeyRollActivate(staging)
        BY <2>3, <3>1, CommandTracks, Zenon DEF KeyRollActivate
      <3>2. CASE \E u \in Repo : MigrateTo(u)
        BY <2>1, <2>2, <3>2, MigrateToTracks, Zenon
      <3>3. CASE RemoveParent
        BY <2>3, <3>3, Zenon DEF RemoveParent
      <3>4. CASE (\E age \in Period : KeyRollInit(age)) \/ ParentRevoke \/ AddParent
        BY <2>3, <3>4, Zenon DEF KeyRollInit, ParentRevoke, AddParent, objVars
      <3> QED BY <2>4, <3>1, <3>2, <3>3, <3>4, Zenon DEF Operator
    <2>5. CASE Exchange
      <3>1. CASE FinishRoll
        BY <2>3, <3>1, CommandTracks, Zenon DEF FinishRoll
      <3>2. CASE ReceiveCert
        BY <2>3, <3>2, CommandTracks, Zenon DEF ReceiveCert
      <3>3. CASE DropClass
        BY <2>3, <3>3, CommandTracks, Zenon DEF DropClass
      <3>4. CASE UpdateEntitlements
        BY <2>3, <3>4, CommandTracks, ZenonT(60) DEF UpdateEntitlements
      <3>5. CASE Clean
        BY <3>5, CleanTracks
      <3>6. CASE SyncParent \/ SendRevoke \/ CollectRequests \/ SendIssue \/ GetEntitlements \/ RevokeTask
        BY <2>3, <3>6, Zenon DEF SyncParent, SendRevoke, CollectRequests, SendIssue, GetEntitlements, RevokeTask, objVars
      <3>7. CASE SyncRepo \/ Publish
        BY <2>3, <3>7, ZenonT(60) DEF SyncRepo, Publish, objVars
      <3> QED BY <2>5, <3>1, <3>2, <3>3, <3>4, <3>5, <3>6, <3>7, ZenonT(60) DEF Exchange
    <2>6. CASE ParentChanges \/ Tick
      BY <2>3, <2>6 DEF ParentChanges, Tick, objVars
    <2> QED BY <2>4, <2>5, <2>6, Zenon DEF Next
  <1> QED BY <1>1, InductiveInvariant, PTL DEF Spec, ContentIsTracked

=============================================================================
