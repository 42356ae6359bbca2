-------------------------- MODULE KeyRollInvariant --------------------------
(***************************************************************************)
(* An inductive invariant of KeyRoll, for any set of repositories and any  *)
(* bounds on the keys, the crashes, the removals and the time, and the     *)
(* first part of the steps that keep it; KeyRollProofs has the others.     *)
(***************************************************************************)
EXTENDS KeyRoll, TLAPS

-----------------------------------------------------------------------------
(* The inductive invariant *)

Request    == [id : Nat, repo : Repo]
Deprecated == [repo : Repo, attempts : Nat]

\* A class is in one of the states of KeyState; a key has a certificate unless
\* it is pending.
KeyShape ==
    /\ keys["new"] # None => keys["current"] # None /\ keys["pending"] = None /\ keys["old"] = None
    /\ keys["old"] # None => keys["current"] # None /\ keys["pending"] = None
    /\ \A r \in Role : keys[r] # None => (keys[r].cert = None <=> r = "pending") /\ keys[r].oldRepo = None

\* As long as the entitlements have not changed, only pending keys want a
\* certificate, with the URIs of the repository of the CA.
QuietKeys ==
    /\ \A r \in {"new", "current", "old"} : keys[r] # None => keys[r].req = None /\ keys[r].cert.entitlements = 1
    /\ keys["pending"] # None => keys["pending"].req \in {None, repo}

\* No key has an identifier that is yet to be given out, and no two keys have
\* the same one.  There are no keys before there is a repository.
KeyInv ==
    /\ KeyShape
    /\ \A r \in Role : keys[r] # None => keys[r].id <= created
    /\ \A r, s \in Role : keys[r] # None /\ keys[s] # None /\ keys[r].id = keys[s].id => r = s
    /\ repo = None => \A r \in Role : keys[r] = None
    /\ parent.offered = 1 => QuietKeys

\* The CA has this key in use, or is to use it.
InUse(id) == \E r \in {"pending", "new", "current"} : keys[r] # None /\ keys[r].id = id

TaskInv == \A id \in tasks : id <= created /\ ~InUse(id)

ParentInv ==
    /\ \A id \in parent.keys : id <= created
    /\ parent.offered # 0 /\ (parent.offered = 1 => parent.entitlements = 1)

\* What the worker holds, by the step that it is at.
WorkerTypes ==
    /\ worker.pc \in {"idle", "revoke", "finish", "collect", "issue", "receive", "drop", "list",
                      "update", "publish", "clean"}
    /\ worker.pc \in {"revoke", "receive"} => worker.id \in Nat
    /\ worker.pc \in {"issue", "receive"} => worker.requests \in Seq(Request)
    /\ worker.pc = "issue" => worker.requests # << >>
    /\ worker.pc = "receive" => worker.cert \in Cert
    /\ worker.pc = "update" => worker.entitlements \in Nat /\ worker.ids \subseteq Nat
    /\ worker.pc = "publish" => worker.todo \subseteq [repo : Repo, ids : SUBSET Nat]
    /\ worker.pc = "clean" => worker.todo \in Seq(Deprecated)

\* A certificate that was requested for the key id with the URIs of r goes to
\* the pending key, which is to use that repository, if it goes to any.
Fits(id, r) ==
    /\ \A s \in {"new", "current", "old"} : keys[s] # None => keys[s].id # id
    /\ keys["pending"] # None /\ keys["pending"].id = id => r = repo

QuietWorker ==
    /\ worker.pc = "update" => worker.entitlements = 1
    /\ worker.pc = "issue" => /\ Len(worker.requests) = 1
                              /\ Fits(worker.requests[1].id, worker.requests[1].repo)
    /\ worker.pc = "receive" => /\ worker.requests = << >> /\ worker.cert.entitlements = 1
                                /\ Fits(worker.id, worker.cert.repo)

WorkerInv ==
    /\ WorkerTypes
    /\ worker.pc \in {"revoke", "receive"} => worker.id <= created
    /\ worker.pc = "revoke" => ~InUse(worker.id)
    /\ worker.pc \in {"issue", "receive"} => \A i \in DOMAIN worker.requests : worker.requests[i].id <= created
    /\ worker.pc = "update" => \A id \in worker.ids : id <= created
    /\ worker.pc \in {"list", "update"} => repo # None
    /\ parent.offered = 1 => QuietWorker

\* The objects follow the keys.  A set has an old repository only in the course
\* of a migration, and it is the set of the key that is being replaced.
FollowInv ==
    /\ ObjectsFollowKeys
    /\ sets["staging"] # None => sets["staging"].oldRepo = None
    /\ keys["pending"] = None /\ keys["new"] = None /\ sets["current"] # None => sets["current"].oldRepo = None

PublishInv == crashes = 0 => FollowInv /\ CertifiedWherePublished

IInv == TypeOK /\ KeyInv /\ TaskInv /\ ParentInv /\ WorkerInv /\ PublishInv

-----------------------------------------------------------------------------
(* The states of a class, and of the sets of objects *)

\* The roles that the code gives to keys, and those it gives to sets of objects.
LEMMA RoleSets == Role = {"pending", "new", "current", "old"} /\ SetRole = {"staging", "current", "old"}
  BY DEF Role, SetRole

\* The bounds are numbers, and a crash is counted within its bound.
LEMMA Bounds == MaxCrashes \in Nat /\ MaxRemovals \in Nat /\ MaxTime \in Nat
  BY KeyRollAssumption

LEMMA CrashCounted ==
    ASSUME crashes \in 0 .. MaxCrashes, link \in {"known", "removing", "none"}, Crash
    PROVE  crashes' \in 0 .. MaxCrashes /\ link' \in {"known", "removing", "none"}
  BY Bounds DEF Crash

\* The state of the keys, told by the keys that are there.
LEMMA KeyStates ==
    ASSUME NEW ks
    PROVE  /\ Roles(ks) = {} <=> ks["pending"] = None /\ ks["new"] = None /\ ks["current"] = None /\ ks["old"] = None
           /\ Pending(ks) <=> ks["pending"] # None /\ ks["new"] = None /\ ks["current"] = None /\ ks["old"] = None
           /\ Active(ks) <=> ks["pending"] = None /\ ks["new"] = None /\ ks["current"] # None /\ ks["old"] = None
           /\ RollPending(ks) <=> ks["pending"] # None /\ ks["new"] = None /\ ks["current"] # None /\ ks["old"] = None
           /\ RollNew(ks) <=> ks["pending"] = None /\ ks["new"] # None /\ ks["current"] # None /\ ks["old"] = None
           /\ RollOld(ks) <=> ks["pending"] = None /\ ks["new"] = None /\ ks["current"] # None /\ ks["old"] # None
  BY DEF Roles, Role, Pending, Active, RollPending, RollNew, RollOld

\* The state of the objects of a class, told by the sets that are there.
LEMMA SetStates ==
    ASSUME NEW ss
    PROVE  /\ SetRoles(ss) = {} <=> ss["staging"] = None /\ ss["current"] = None /\ ss["old"] = None
           /\ SetRoles(ss) = {"current"} <=> ss["staging"] = None /\ ss["current"] # None /\ ss["old"] = None
           /\ SetRoles(ss) = {"staging", "current"} <=> ss["staging"] # None /\ ss["current"] # None /\ ss["old"] = None
           /\ SetRoles(ss) = {"current", "old"} <=> ss["staging"] = None /\ ss["current"] # None /\ ss["old"] # None
  BY DEF SetRoles, SetRole

\* No new key is taken for None.
LEMMA KeysAreKeys ==
    /\ \A id \in Nat, req \in Repo \cup {None} : PendingKey(id, req) \in Key /\ PendingKey(id, req) # None
    /\ \A id \in Nat, cert \in Cert : CertifiedKey(id, cert) \in Key /\ CertifiedKey(id, cert) # None
    /\ \A key \in Key, req \in Repo \cup {None} : WithRequest(key, req) \in Key /\ WithRequest(key, req) # None
    /\ \A key \in Key, cert \in Cert : WithCert(key, cert) \in Key /\ WithCert(key, cert) # None
  BY KeyRollAssumption DEF PendingKey, CertifiedKey, WithRequest, WithCert, Key

\* The same for the sets of objects.
LEMMA SetsAreSets ==
    \A id \in Nat, cert \in Cert :
      ObjectSet(CertifiedKey(id, cert)) \in Set /\ ObjectSet(CertifiedKey(id, cert)) # None
  BY KeyRollAssumption DEF ObjectSet, CertifiedKey, Set

\* Deprecating a repository keeps the type of the list.
LEMMA DeprecateType ==
    ASSUME TypeOK, NEW ss \in [SetRole -> Set \cup {None}]
    PROVE  Deprecate(ss) \in Seq(Deprecated)
  <1> DEFINE unused == OldRepos(sets) \ OldRepos(ss)
  <1>1. unused \subseteq Repo
    <2>1. SUFFICES ASSUME NEW r \in SetRoles(sets), sets[r].oldRepo # None PROVE sets[r].oldRepo \in Repo
      BY DEF OldRepos
    <2>2. sets[r] \in Set
      BY <2>1 DEF SetRoles, TypeOK
    <2> QED BY <2>1, <2>2 DEF Set
  <1>2. deprecated \in Seq(Deprecated)
    BY DEF TypeOK, Deprecated
  <1>3. CASE unused = {}
    BY <1>2, <1>3 DEF Deprecate
  <1>4. CASE unused # {}
    <2> DEFINE r == CHOOSE u \in unused : TRUE
    <2>1. r \in Repo
      BY <1>1, <1>4
    <2>2. [repo |-> r, attempts |-> 0] \in Deprecated
      BY <2>1 DEF Deprecated
    <2> HIDE DEF r
    <2>3. Append(deprecated, [repo |-> r, attempts |-> 0]) \in Seq(Deprecated)
      BY <1>2, <2>2
    <2> QED BY <1>4, <2>3 DEF Deprecate, r
  <1> QED BY <1>3, <1>4

-----------------------------------------------------------------------------
(* What does not disturb the invariant *)

\* An idle worker holds nothing.
LEMMA IdleWorker == worker' = Idle => WorkerInv'
  BY DEF Idle, WorkerInv, WorkerTypes, QuietWorker

\* A worker that is to drop a class holds the name of the class.
LEMMA DroppingWorker == ASSUME NEW c, worker' = [pc |-> "drop", class |-> c] PROVE WorkerInv'
  <1>1. worker'.pc = "drop"
    OBVIOUS
  <1> QED BY <1>1 DEF WorkerInv, WorkerTypes, QuietWorker

\* Steps that leave the keys and the objects alone, and give the worker
\* something to hold.
LEMMA Framed ==
    ASSUME IInv, TypeOK', WorkerInv',
           repo' = repo, keys' = keys, objRepo' = objRepo, sets' = sets, created' = created,
           crashes' = crashes, tasks' \subseteq tasks,
           parent'.entitlements = parent.entitlements, parent'.offered = parent.offered,
           \A id \in parent'.keys : id <= created
    PROVE  IInv'
  <1>1. KeyInv'
    BY DEF IInv, KeyInv, KeyShape, QuietKeys
  <1>2. TaskInv'
    BY DEF IInv, TaskInv, InUse
  <1>3. ParentInv'
    BY DEF IInv, ParentInv
  <1>4. PublishInv'
    BY DEF IInv, PublishInv, FollowInv, ObjectsFollowKeys, SetFor, CertifiedWherePublished, SetRoles
  <1> QED BY <1>1, <1>2, <1>3, <1>4 DEF IInv

\* What a request of a sequence of requests has.
LEMMA RequestTypes ==
    ASSUME NEW rs \in Seq(Request), NEW i \in DOMAIN rs
    PROVE  rs[i].id \in Nat /\ rs[i].repo \in Repo
  <1>1. rs[i] \in Request
    OBVIOUS
  <1> QED BY <1>1 DEF Request

\* What the worker holds stays right while keys of the CA are added or dropped.
LEMMA WorkerKept ==
    ASSUME IInv, worker' = worker, created' \in Nat, created <= created',
           repo # None => repo' # None, parent'.offered = parent.offered,
           \A id \in Nat : id <= created /\ InUse(id)' => InUse(id),
           parent.offered = 1 => \A id \in Nat, r \in Repo : id <= created /\ Fits(id, r) => Fits(id, r)'
    PROVE  WorkerInv'
  <1>0. WorkerInv /\ created \in Nat
    BY DEF IInv, TypeOK
  <1>1. WorkerTypes'
    BY <1>0 DEF WorkerInv, WorkerTypes
  <1>2. (worker.pc \in {"revoke", "receive"} => worker.id <= created)'
    BY <1>0 DEF WorkerInv, WorkerTypes
  <1>3. (worker.pc = "revoke" => ~InUse(worker.id))'
    <2>1. worker.pc = "revoke" => worker.id \in Nat /\ worker.id <= created /\ ~InUse(worker.id)
      BY <1>0 DEF WorkerInv, WorkerTypes
    <2>2. ASSUME worker.pc = "revoke" PROVE ~InUse(worker.id)'
      BY <2>1, <2>2
    <2> QED BY <2>2
  <1>4. (worker.pc \in {"issue", "receive"} => \A i \in DOMAIN worker.requests : worker.requests[i].id <= created)'
    <2>1. SUFFICES ASSUME worker.pc \in {"issue", "receive"}, NEW i \in DOMAIN worker.requests
                   PROVE  worker.requests[i].id <= created'
      OBVIOUS
    <2>2. worker.requests[i].id <= created
      BY <1>0, <2>1 DEF WorkerInv
    <2>3. worker.requests \in Seq(Request)
      BY <1>0, <2>1 DEF WorkerInv, WorkerTypes
    <2>4. worker.requests[i].id \in Nat
      BY <2>3, RequestTypes
    <2> QED BY <1>0, <2>2, <2>4
  <1>5. (worker.pc = "update" => \A id \in worker.ids : id <= created)'
    BY <1>0 DEF WorkerInv, WorkerTypes
  <1>6. (worker.pc \in {"list", "update"} => repo # None)'
    BY <1>0 DEF WorkerInv
  <1>7. (parent.offered = 1 => QuietWorker)'
    <2>1. SUFFICES ASSUME parent.offered = 1 PROVE QuietWorker'
      OBVIOUS
    <2>2. QuietWorker
      BY <1>0, <2>1 DEF WorkerInv
    <2>3. ASSUME worker.pc = "issue" PROVE Fits(worker.requests[1].id, worker.requests[1].repo)'
      <3>1. worker.requests \in Seq(Request) /\ Len(worker.requests) = 1 /\ 1 \in DOMAIN worker.requests
        BY <1>0, <2>2, <2>3 DEF WorkerInv, WorkerTypes, QuietWorker
      <3>2. worker.requests[1].id \in Nat /\ worker.requests[1].repo \in Repo /\ worker.requests[1].id <= created
        BY <1>0, <2>3, <3>1, RequestTypes DEF WorkerInv
      <3>3. Fits(worker.requests[1].id, worker.requests[1].repo)
        BY <2>2, <2>3 DEF QuietWorker
      <3> DEFINE i == worker.requests[1].id
                 u == worker.requests[1].repo
      <3>4. Fits(i, u)'
        BY <2>1, <3>2, <3>3
      <3> QED BY <3>4
    <2>4. ASSUME worker.pc = "receive" PROVE Fits(worker.id, worker.cert.repo)'
      <3>1. worker.id \in Nat /\ worker.cert.repo \in Repo /\ worker.id <= created
        BY <1>0, <2>4 DEF WorkerInv, WorkerTypes, Cert
      <3>2. Fits(worker.id, worker.cert.repo)
        BY <2>2, <2>4 DEF QuietWorker
      <3> QED BY <2>1, <3>1, <3>2
    <2> QED BY <2>2, <2>3, <2>4 DEF QuietWorker
  <1> QED BY <1>1, <1>2, <1>3, <1>4, <1>5, <1>6, <1>7 DEF WorkerInv

\* A crash leaves the CA as it was; of the objects only the types are known.
LEMMA CrashStep ==
    ASSUME IInv, TypeOK', Crash, UNCHANGED <<repo, keys, parent, created>>
    PROVE  IInv'
  <1>1. KeyInv'
    BY DEF IInv, KeyInv, KeyShape, QuietKeys
  <1>2. TaskInv' /\ ParentInv'
    BY DEF IInv, TaskInv, ParentInv, Crash
  <1>3. WorkerInv'
    BY IdleWorker DEF Crash
  <1>4. PublishInv'
    BY DEF IInv, TypeOK, PublishInv, Crash
  <1> QED BY <1>1, <1>2, <1>3, <1>4 DEF IInv

\* The worker does nothing, and nor does anything that it relies on.
LEMMA WorkerSame ==
    ASSUME IInv, worker' = worker, repo' = repo, keys' = keys, created' = created, parent'.offered = parent.offered
    PROVE  WorkerInv'
  BY DEF IInv, WorkerInv, WorkerTypes, InUse, QuietWorker, Fits

-----------------------------------------------------------------------------
(* The exchanges with the parent that leave the CA as it is *)

\* What the parent knows: its keys have been created.
LEMMA ParentType ==
    IInv => /\ parent \in [entitlements : Nat, keys : SUBSET Nat, offered : Nat]
            /\ \A id \in parent.keys : id <= created
            /\ parent.keys \in SUBSET Nat /\ parent.entitlements \in Nat /\ parent.offered \in Nat
  <1>1. IInv => /\ parent \in [entitlements : Nat, keys : SUBSET Nat, offered : Nat]
                /\ \A id \in parent.keys : id <= created
    BY Zenon DEF IInv, TypeOK, ParentInv
  <1> QED BY <1>1

\* The keys that the parent still has after some were revoked are known.
LEMMA FewerKeys ==
    ASSUME IInv, NEW ks \in SUBSET parent.keys, parent' = WithKeys(ks)
    PROVE  /\ parent' \in [entitlements : Nat, keys : SUBSET Nat, offered : Nat]
           /\ parent'.entitlements = parent.entitlements /\ parent'.offered = parent.offered
           /\ \A id \in parent'.keys : id <= created
  BY ParentType DEF WithKeys

\* The parent is asked to revoke the keys before it is removed.
LEMMA ParentRevokeStep == IInv /\ ParentRevoke => IInv'
  <1> SUFFICES ASSUME IInv, ParentRevoke PROVE IInv'
    OBVIOUS
  <1>1. /\ parent' \in [entitlements : Nat, keys : SUBSET Nat, offered : Nat]
        /\ parent'.entitlements = parent.entitlements /\ parent'.offered = parent.offered
        /\ \A id \in parent'.keys : id <= created
    <2>1. CASE UNCHANGED parent
      BY <2>1 DEF IInv, TypeOK, ParentInv
    <2>2. CASE parent' = WithKeys(parent.keys \ Certified(keys))
      BY <2>2, FewerKeys, parent.keys \ Certified(keys) \in SUBSET parent.keys, Zenon
    <2> QED BY <2>1, <2>2 DEF ParentRevoke
  <1>2. TypeOK'
    <2>1. removals \in 0 .. MaxRemovals
      BY DEF IInv, TypeOK
    <2>2. removals' \in 0 .. MaxRemovals /\ link' \in {"known", "removing", "none"}
      BY <2>1, Bounds DEF ParentRevoke
    <2> QED BY <1>1, <2>2, Zenon DEF IInv, TypeOK, ParentRevoke, caVars, objVars
  <1>3. WorkerInv'
    BY <1>1, WorkerSame DEF ParentRevoke, caVars
  <1> QED BY <1>1, <1>2, <1>3, Framed DEF ParentRevoke, caVars, objVars

\* The parent is added again.
LEMMA AddParentStep == IInv /\ AddParent => IInv'
  <1> SUFFICES ASSUME IInv, AddParent PROVE IInv'
    OBVIOUS
  <1>1. TypeOK' /\ \A id \in parent'.keys : id <= created
    BY DEF IInv, TypeOK, AddParent, ParentInv, caVars, objVars
  <1>2. WorkerInv'
    BY WorkerSame DEF AddParent, caVars
  <1> QED BY <1>1, <1>2, Framed DEF AddParent, caVars, objVars

\* Time passes.
LEMMA TickStep == IInv /\ Tick => IInv'
  <1> SUFFICES ASSUME IInv, Tick PROVE IInv'
    OBVIOUS
  <1>1. TypeOK' /\ \A id \in parent'.keys : id <= created
    <2>1. now \in 0 .. MaxTime
      BY DEF IInv, TypeOK
    <2>2. now' \in 0 .. MaxTime
      BY <2>1, Bounds DEF Tick
    <2> QED BY <2>2, Zenon DEF IInv, TypeOK, Tick, ParentInv, caVars, linkVars, objVars
  <1>2. WorkerInv'
    BY WorkerSame DEF Tick, caVars
  <1> QED BY <1>1, <1>2, Framed DEF Tick, caVars, objVars

\* Nothing changes.
LEMMA StutterStep == IInv /\ UNCHANGED vars => IInv'
  <1> SUFFICES ASSUME IInv, UNCHANGED vars PROVE IInv'
    OBVIOUS
  <1>1. TypeOK' /\ \A id \in parent'.keys : id <= created
    BY DEF IInv, TypeOK, ParentInv, vars, caVars, linkVars, objVars
  <1>2. WorkerInv'
    BY WorkerSame DEF vars, caVars
  <1> QED BY <1>1, <1>2, Framed DEF vars, caVars, objVars

\* The parent comes to offer something else, or nothing: the entitlements have
\* changed.
LEMMA ParentChangesStep == IInv /\ ParentChanges => IInv'
  <1> SUFFICES ASSUME IInv, ParentChanges PROVE IInv'
    OBVIOUS
  <1>1. /\ parent' \in [entitlements : Nat, keys : SUBSET Nat, offered : Nat]
        /\ parent'.keys \subseteq parent.keys
    BY ParentType DEF ParentChanges
  <1>2. parent'.offered # 1
    <2>1. parent.offered \in Nat /\ parent'.offered = parent.offered + 1
      BY ParentType DEF ParentChanges
    <2>2. parent.offered # 0
      BY DEF IInv, ParentInv
    <2> QED BY <2>1, <2>2
  <1>3. TypeOK'
    BY <1>1, Zenon DEF IInv, TypeOK, ParentChanges, caVars, linkVars, objVars
  <1>4. KeyInv'
    BY <1>2 DEF IInv, KeyInv, KeyShape, ParentChanges, caVars
  <1>5. TaskInv' /\ ParentInv'
    <2>1. parent'.offered # 0
      BY DEF IInv, TypeOK, ParentChanges
    <2>2. TaskInv'
      BY DEF IInv, TaskInv, InUse, ParentChanges, caVars
    <2>3. ParentInv'
      BY <1>1, <1>2, <2>1 DEF IInv, ParentInv, ParentChanges
    <2> QED BY <2>2, <2>3, Zenon
  <1>6. WorkerInv'
    BY <1>2 DEF IInv, WorkerInv, WorkerTypes, InUse, ParentChanges, caVars
  <1>7. PublishInv'
    BY <1>2 DEF IInv, PublishInv, FollowInv, ObjectsFollowKeys, SetFor, CertifiedWherePublished, ParentChanges,
                caVars, objVars
  <1> QED BY <1>3, <1>4, <1>5, <1>6, <1>7 DEF IInv

\* The worker starts to exchange messages with the parent.
LEMMA SyncParentStep == IInv /\ SyncParent => IInv'
  <1> SUFFICES ASSUME IInv, SyncParent PROVE IInv'
    OBVIOUS
  <1>1. TypeOK' /\ \A id \in parent'.keys : id <= created
    BY Zenon DEF IInv, TypeOK, SyncParent, ParentInv, caVars, linkVars, objVars
  <1>2. WorkerInv'
    <2>1. CASE RollOld(keys) /\ worker' = [pc |-> "revoke", class |-> class.name, id |-> keys["old"].id]
      <3>1. keys["old"] # None /\ keys["old"] \in Key
        BY <2>1, KeyStates DEF IInv, TypeOK, Role
      <3>2. keys["old"].id \in Nat /\ keys["old"].id <= created
        BY <3>1 DEF IInv, KeyInv, Key, Role
      <3>3. ~InUse(keys["old"].id)
        BY <3>1 DEF IInv, KeyInv, InUse, Role
      <3> QED BY <2>1, <3>2, <3>3 DEF WorkerInv, WorkerTypes, QuietWorker, InUse, SyncParent, caVars
    <2>2. CASE worker' = [pc |-> "collect"]
      BY <2>2 DEF WorkerInv, WorkerTypes, QuietWorker
    <2>3. CASE worker' = [pc |-> "list"] /\ repo # None
      BY <2>3 DEF WorkerInv, WorkerTypes, QuietWorker, SyncParent, caVars
    <2> QED BY <2>1, <2>2, <2>3, Zenon DEF SyncParent
  <1> QED BY <1>1, <1>2, Framed DEF SyncParent, caVars, objVars

\* The parent is asked to revoke the old key.
LEMMA SendRevokeStep == IInv /\ SendRevoke => IInv'
  <1> SUFFICES ASSUME IInv, SendRevoke PROVE IInv'
    OBVIOUS
  <1>1. /\ parent' \in [entitlements : Nat, keys : SUBSET Nat, offered : Nat]
        /\ parent'.entitlements = parent.entitlements /\ parent'.offered = parent.offered
        /\ \A id \in parent'.keys : id <= created
    <2>1. CASE UNCHANGED parent
      BY <2>1 DEF IInv, TypeOK, ParentInv
    <2>2. CASE parent' = WithKeys(parent.keys \ {worker.id})
      BY <2>2, FewerKeys, parent.keys \ {worker.id} \in SUBSET parent.keys
    <2> QED BY <2>1, <2>2 DEF SendRevoke
  <1>2. TypeOK'
    BY <1>1 DEF IInv, TypeOK, SendRevoke, caVars, linkVars, objVars
  <1>3. WorkerInv'
    <2>1. CASE worker' = Idle
      BY <2>1, IdleWorker
    <2>2. CASE worker' = [pc |-> "finish", class |-> worker.class]
      BY <2>2 DEF WorkerInv, WorkerTypes, QuietWorker
    <2> QED BY <2>1, <2>2 DEF SendRevoke
  <1> QED BY <1>1, <1>2, <1>3, Framed DEF SendRevoke, caVars, objVars

\* The requests that the keys have.
LEMMA CertRequestsType ==
    ASSUME IInv
    PROVE  /\ CertRequests(keys) \in Seq(Request)
           /\ \A i \in DOMAIN CertRequests(keys) : CertRequests(keys)[i].id <= created
           /\ parent.offered = 1 /\ CertRequests(keys) # << >> =>
                /\ Len(CertRequests(keys)) = 1
                /\ Fits(CertRequests(keys)[1].id, CertRequests(keys)[1].repo)
  <1> DEFINE Of(r) == IF keys[r] = None THEN << >>
                      ELSE IF keys[r].req = None THEN << >>
                      ELSE << [id |-> keys[r].id, repo |-> keys[r].req] >>
             Known == {q \in Request : q.id <= created}
  <1>1. CertRequests(keys) = Of("pending") \o Of("new") \o Of("current") \o Of("old")
    BY DEF CertRequests
  <1>2. ASSUME NEW r \in Role PROVE Of(r) \in Seq(Known)
    <2>1. CASE keys[r] = None \/ keys[r].req = None
      BY <2>1
    <2>2. CASE keys[r] # None /\ keys[r].req # None
      <3>1. keys[r] \in Key
        BY <2>2 DEF IInv, TypeOK
      <3>2. keys[r].id <= created
        BY <2>2 DEF IInv, KeyInv
      <3>3. [id |-> keys[r].id, repo |-> keys[r].req] \in Known
        BY <2>2, <3>1, <3>2 DEF Key, Request
      <3> QED BY <2>2, <3>3
    <2> QED BY <2>1, <2>2
  <1>3. {"pending", "new", "current", "old"} \subseteq Role
    BY DEF Role
  <1>4. Of("pending") \in Seq(Known) /\ Of("new") \in Seq(Known) /\ Of("current") \in Seq(Known) /\ Of("old") \in Seq(Known)
    BY <1>2, <1>3, Zenon
  <1> DEFINE p == Of("pending")
             n == Of("new")
             c == Of("current")
             o == Of("old")
  <1>5. parent.offered = 1 =>
           /\ n = << >> /\ c = << >> /\ o = << >>
           /\ p # << >> => Len(p) = 1 /\ Fits(p[1].id, p[1].repo)
    <2>1. SUFFICES ASSUME parent.offered = 1
                   PROVE  /\ n = << >> /\ c = << >> /\ o = << >>
                          /\ p # << >> => Len(p) = 1 /\ Fits(p[1].id, p[1].repo)
      OBVIOUS
    <2>2. QuietKeys
      BY <2>1 DEF IInv, KeyInv
    <2>3. n = << >> /\ c = << >> /\ o = << >>
      BY <2>2 DEF QuietKeys
    <2>4. ASSUME p # << >> PROVE Len(p) = 1 /\ Fits(p[1].id, p[1].repo)
      <3>1. keys["pending"] # None /\ keys["pending"].req # None
        BY <2>4
      <3>2. p = << [id |-> keys["pending"].id, repo |-> keys["pending"].req] >>
        BY <3>1
      <3>3. p[1].id = keys["pending"].id /\ p[1].repo = repo
        BY <2>2, <3>1, <3>2 DEF QuietKeys
      <3>4. Fits(keys["pending"].id, repo)
        BY <3>1 DEF Fits, IInv, KeyInv, Role
      <3> QED BY <3>2, <3>3, <3>4
    <2> QED BY <2>3, <2>4
  <1>6. p \in Seq(Known) /\ n \in Seq(Known) /\ c \in Seq(Known) /\ o \in Seq(Known)
    BY <1>4, Zenon
  <1>7. CertRequests(keys) = p \o n \o c \o o
    BY <1>1
  <1> HIDE DEF p, n, c, o, Of
  <1>8. CertRequests(keys) \in Seq(Known)
    BY <1>6, <1>7
  <1>9. parent.offered = 1 => CertRequests(keys) = p
    BY <1>5, <1>6, <1>7
  <1>10. CertRequests(keys) \in Seq(Request)
    BY <1>8
  <1>11. \A i \in DOMAIN CertRequests(keys) : CertRequests(keys)[i].id <= created
    BY <1>8
  <1> QED BY <1>5, <1>9, <1>10, <1>11

\* The worker takes the requests that the keys have.
LEMMA CollectRequestsStep == IInv /\ CollectRequests => IInv'
  <1> SUFFICES ASSUME IInv, CollectRequests PROVE IInv'
    OBVIOUS
  <1>1. TypeOK' /\ \A id \in parent'.keys : id <= created
    BY DEF IInv, TypeOK, CollectRequests, ParentInv, caVars, linkVars, objVars
  <1>2. WorkerInv'
    <2> DEFINE rs == CertRequests(keys)
    <2>1. CASE rs = << >>
      BY <2>1, IdleWorker DEF CollectRequests, Issue
    <2>2. CASE rs # << >>
      <3>1. worker' = [pc |-> "issue", class |-> class.name, requests |-> rs]
        BY <2>2 DEF CollectRequests, Issue
      <3>2. /\ rs \in Seq(Request) /\ \A i \in DOMAIN rs : rs[i].id <= created
            /\ parent.offered = 1 => Len(rs) = 1 /\ Fits(rs[1].id, rs[1].repo)
        BY <2>2, CertRequestsType
      <3>3. created' = created /\ parent' = parent /\ keys' = keys /\ repo' = repo
        BY DEF CollectRequests, caVars
      <3> HIDE DEF rs
      <3>4. WorkerTypes'
        BY <2>2, <3>1, <3>2 DEF WorkerTypes
      <3>5. (parent.offered = 1 => QuietWorker)'
        BY <3>1, <3>2, <3>3 DEF QuietWorker, Fits
      <3> QED BY <3>1, <3>2, <3>3, <3>4, <3>5 DEF WorkerInv
    <2> QED BY <2>1, <2>2
  <1> QED BY <1>1, <1>2, Framed DEF CollectRequests, caVars, objVars

\* What follows in a sequence of requests.
LEMMA RequestsTail ==
    ASSUME NEW rs \in Seq(Request), rs # << >>
    PROVE  /\ Head(rs) = rs[1] /\ 1 \in DOMAIN rs /\ Tail(rs) \in Seq(Request)
           /\ \A i \in DOMAIN Tail(rs) : i + 1 \in DOMAIN rs /\ Tail(rs)[i] = rs[i + 1]
           /\ Len(rs) = 1 => Tail(rs) = << >>
  <1>1. Len(rs) \in Nat \ {0}
    OBVIOUS
  <1>2. Tail(rs) \in Seq(Request) /\ Len(Tail(rs)) = Len(rs) - 1
    BY <1>1
  <1> QED BY <1>1, <1>2

\* The parent is sent a request for a certificate.
LEMMA SendIssueStep == IInv /\ SendIssue => IInv'
  <1> SUFFICES ASSUME IInv, SendIssue PROVE IInv'
    OBVIOUS
  <1> DEFINE rs == worker.requests
             q  == Head(worker.requests)
             cert == [entitlements |-> parent.entitlements, repo |-> q.repo]
  <1>1. /\ rs \in Seq(Request) /\ rs # << >> /\ worker.pc = "issue"
        /\ \A i \in DOMAIN rs : rs[i].id <= created
    BY DEF IInv, WorkerInv, WorkerTypes, SendIssue
  <1>2. q.id \in Nat /\ q.repo \in Repo /\ q.id <= created
    BY <1>1, RequestsTail, RequestTypes, Zenon
  <1>3. created' = created /\ keys' = keys /\ repo' = repo
    BY DEF SendIssue, caVars
  <1>4. CASE worker' = Idle /\ UNCHANGED parent
    <2>1. TypeOK' /\ \A id \in parent'.keys : id <= created
      BY <1>4, Zenon DEF IInv, TypeOK, SendIssue, ParentInv, caVars, linkVars, objVars
    <2> QED BY <1>4, <2>1, IdleWorker, Framed, Zenon DEF SendIssue, caVars, objVars
  <1>5. CASE worker' = [pc |-> "drop", class |-> worker.class] /\ UNCHANGED parent
    <2>1. TypeOK' /\ \A id \in parent'.keys : id <= created
      BY <1>5 DEF IInv, TypeOK, SendIssue, ParentInv, caVars, linkVars, objVars
    <2>2. WorkerInv'
      BY <1>5 DEF WorkerInv, WorkerTypes, QuietWorker
    <2> QED BY <1>5, <2>1, <2>2, Framed, Zenon DEF SendIssue, caVars, objVars
  <1>6. CASE /\ parent' = WithKeys(parent.keys \cup {q.id})
             /\ worker' \in {Idle, [pc |-> "receive", class |-> worker.class, id |-> q.id,
                                    cert |-> cert, requests |-> Tail(rs)]}
    <2>1. /\ parent' \in [entitlements : Nat, keys : SUBSET Nat, offered : Nat]
          /\ parent'.entitlements = parent.entitlements /\ parent'.offered = parent.offered
          /\ \A id \in parent'.keys : id <= created
      BY <1>2, <1>6, ParentType DEF WithKeys
    <2>2. TypeOK'
      BY <2>1, Zenon DEF IInv, TypeOK, SendIssue, caVars, linkVars, objVars
    <2>3. ASSUME worker' = [pc |-> "receive", class |-> worker.class, id |-> q.id,
                            cert |-> cert, requests |-> Tail(rs)]
          PROVE  WorkerInv'
      <3>1. cert \in Cert
        BY <1>2 DEF Cert, IInv, TypeOK
      <3>2. /\ Tail(rs) \in Seq(Request)
            /\ \A i \in DOMAIN Tail(rs) : Tail(rs)[i].id <= created
        BY <1>1, RequestsTail, Zenon
      <3>3. parent.offered = 1 => Tail(rs) = << >> /\ cert.entitlements = 1 /\ Fits(q.id, cert.repo)
        <4>1. SUFFICES ASSUME parent.offered = 1
                       PROVE  Tail(rs) = << >> /\ cert.entitlements = 1 /\ Fits(q.id, cert.repo)
          OBVIOUS
        <4>2. Len(rs) = 1 /\ Fits(rs[1].id, rs[1].repo)
          BY <1>1, <4>1 DEF IInv, WorkerInv, QuietWorker
        <4>3. Tail(rs) = << >> /\ q = rs[1]
          BY <1>1, <4>2, RequestsTail
        <4>4. cert.entitlements = 1 /\ cert.repo = q.repo
          BY <4>1 DEF IInv, ParentInv
        <4> QED BY <4>2, <4>3, <4>4, Zenon
      <3>4. /\ worker'.pc = "receive" /\ worker'.id = q.id /\ worker'.cert = cert
            /\ worker'.requests = Tail(rs)
        BY <2>3
      <3> HIDE DEF q, cert, rs
      <3>5. WorkerTypes'
        BY <1>2, <3>1, <3>2, <3>4 DEF WorkerTypes
      <3>6. (parent.offered = 1 => QuietWorker)'
        BY <1>3, <2>1, <3>3, <3>4 DEF QuietWorker, Fits
      <3> QED BY <1>2, <1>3, <3>2, <3>4, <3>5, <3>6 DEF WorkerInv
    <2>4. WorkerInv'
      BY <1>6, <2>3, IdleWorker
    <2> QED BY <2>1, <2>2, <2>4, Framed, Zenon DEF SendIssue, caVars, objVars
  <1> QED BY <1>4, <1>5, <1>6, Zenon DEF SendIssue

\* The worker is told the entitlements.
LEMMA GetEntitlementsStep == IInv /\ GetEntitlements => IInv'
  <1> SUFFICES ASSUME IInv, GetEntitlements PROVE IInv'
    OBVIOUS
  <1>1. TypeOK' /\ \A id \in parent'.keys : id <= created
    BY Zenon DEF IInv, TypeOK, GetEntitlements, ParentInv, caVars, linkVars, objVars
  <1>2. WorkerInv'
    <2>1. CASE worker' = Idle
      BY <2>1, IdleWorker
    <2>2. CASE worker' = [pc |-> "update", entitlements |-> parent.entitlements, ids |-> parent.keys]
      BY <2>2 DEF IInv, TypeOK, ParentInv, WorkerInv, WorkerTypes, QuietWorker, GetEntitlements, caVars
    <2> QED BY <2>1, <2>2, Zenon DEF GetEntitlements
  <1> QED BY <1>1, <1>2, Framed DEF GetEntitlements, caVars, objVars

\* The parent is asked to revoke a key that is not in use.
LEMMA RevokeTaskStep == IInv /\ RevokeTask => IInv'
  <1> SUFFICES ASSUME IInv, RevokeTask PROVE IInv'
    OBVIOUS
  <1>0. PICK id \in tasks : /\ tasks' = tasks \ {id}
                            /\ parent' = WithKeys(parent.keys \ {id}) \/ UNCHANGED parent
    BY DEF RevokeTask
  <1>1. /\ parent' \in [entitlements : Nat, keys : SUBSET Nat, offered : Nat]
        /\ parent'.entitlements = parent.entitlements /\ parent'.offered = parent.offered
        /\ \A i \in parent'.keys : i <= created
    <2>1. CASE UNCHANGED parent
      BY <2>1 DEF IInv, TypeOK, ParentInv
    <2>2. CASE parent' = WithKeys(parent.keys \ {id})
      BY <2>2, FewerKeys, parent.keys \ {id} \in SUBSET parent.keys, Zenon
    <2> QED BY <1>0, <2>1, <2>2
  <1>2. TypeOK'
    BY <1>0, <1>1, Zenon DEF IInv, TypeOK, RevokeTask, caVars, linkVars, objVars
  <1>3. WorkerInv'
    BY <1>1, WorkerSame DEF RevokeTask, caVars
  <1> QED BY <1>0, <1>1, <1>2, <1>3, Framed DEF RevokeTask, caVars, objVars

-----------------------------------------------------------------------------
(* The repositories *)

\* The objects that are to be published, by repository.
LEMMA ElementsType == TypeOK => Elements \subseteq [repo : Repo, ids : SUBSET Nat]
  <1> SUFFICES ASSUME TypeOK, objRepo # None PROVE Elements \subseteq [repo : Repo, ids : SUBSET Nat]
    BY DEF Elements
  <1> DEFINE RepoOf(s) == IF s.oldRepo = None THEN objRepo ELSE s.oldRepo
             used == {objRepo} \cup {RepoOf(sets[r]) : r \in SetRoles(sets)}
             IdsAt(u) == {sets[r].id : r \in {s \in SetRoles(sets) : RepoOf(sets[s]) = u}}
  <1>1. \A r \in SetRoles(sets) : sets[r] \in Set
    BY DEF TypeOK, SetRoles
  <1>2. objRepo \in Repo
    BY DEF TypeOK
  <1>3. \A r \in SetRoles(sets) : RepoOf(sets[r]) \in Repo /\ sets[r].id \in Nat
    BY <1>1, <1>2 DEF Set
  <1>4. used \subseteq Repo
    BY <1>2, <1>3
  <1>5. \A u \in used : IdsAt(u) \in SUBSET Nat
    BY <1>3
  <1>6. Elements = {[repo |-> u, ids |-> IdsAt(u)] : u \in used}
    BY DEF Elements
  <1> HIDE DEF used, IdsAt
  <1> QED BY <1>4, <1>5, <1>6

\* The worker takes the objects that are to be published.
LEMMA SyncRepoStep == IInv /\ SyncRepo => IInv'
  <1> SUFFICES ASSUME IInv, SyncRepo PROVE IInv'
    OBVIOUS
  <1>1. TypeOK' /\ \A id \in parent'.keys : id <= created
    BY Zenon DEF IInv, TypeOK, SyncRepo, ParentInv, caVars, linkVars, objVars
  <1>2. worker' = [pc |-> "publish", todo |-> Elements] /\ Elements \subseteq [repo : Repo, ids : SUBSET Nat]
    BY ElementsType DEF SyncRepo, IInv
  <1>3. WorkerInv'
    BY <1>2 DEF WorkerInv, WorkerTypes, QuietWorker
  <1> QED BY <1>1, <1>3, Framed DEF SyncRepo, caVars, objVars

\* The worker publishes the objects of one repository.
LEMMA PublishStep == IInv /\ Publish => IInv'
  <1> SUFFICES ASSUME IInv, Publish PROVE IInv'
    OBVIOUS
  <1>1. worker.todo \subseteq [repo : Repo, ids : SUBSET Nat] /\ deprecated \in Seq(Deprecated)
    BY DEF IInv, WorkerInv, WorkerTypes, TypeOK, Deprecated, Publish
  <1>2. published' \in [Repo -> SUBSET Nat]
    <2>1. published \in [Repo -> SUBSET Nat]
      BY DEF IInv, TypeOK
    <2>2. ASSUME NEW el \in worker.todo, published' = [published EXCEPT ![el.repo] = el.ids]
          PROVE  published' \in [Repo -> SUBSET Nat]
      <3>1. el.ids \in SUBSET Nat
        BY <1>1, <2>2, Zenon
      <3> QED BY <2>1, <2>2, <3>1, Zenon
    <2> QED BY <2>1, <2>2 DEF Publish
  <1>3. TypeOK' /\ \A id \in parent'.keys : id <= created
    BY <1>2, Zenon DEF IInv, TypeOK, Publish, ParentInv, caVars, linkVars, objVars
  <1>4. WorkerInv'
    <2>1. CASE worker' = Idle
      BY <2>1, IdleWorker
    <2>2. ASSUME NEW el, worker' = [pc |-> "publish", todo |-> worker.todo \ {el}]
          PROVE  WorkerInv'
      BY <1>1, <2>2, Zenon DEF WorkerInv, WorkerTypes, QuietWorker
    <2>3. CASE worker' = [pc |-> "clean", todo |-> deprecated]
      BY <1>1, <2>3 DEF WorkerInv, WorkerTypes, QuietWorker
    <2> QED BY <2>1, <2>2, <2>3, Zenon DEF Publish
  <1> QED BY <1>3, <1>4, Framed, Zenon DEF Publish, caVars, objVars

\* Counting a failure keeps the type of the list, and its repositories.
LEMMA CountAttemptType ==
    ASSUME deprecated \in Seq(Deprecated), NEW r \in Repo
    PROVE  /\ CountAttempt(r) \in Seq(Deprecated)
           /\ DOMAIN CountAttempt(r) = DOMAIN deprecated
           /\ \A i \in DOMAIN deprecated : CountAttempt(r)[i].repo = deprecated[i].repo
  <1>1. \A i \in DOMAIN deprecated : deprecated[i] \in Deprecated
    OBVIOUS
  <1>2. \A i \in DOMAIN deprecated :
          LET d == IF deprecated[i].repo = r THEN [repo |-> r, attempts |-> deprecated[i].attempts + 1]
                   ELSE deprecated[i]
          IN  d \in Deprecated /\ d.repo = deprecated[i].repo
    BY <1>1 DEF Deprecated
  <1>3. DOMAIN deprecated = 1 .. Len(deprecated) /\ Len(deprecated) \in Nat
    OBVIOUS
  <1>4. /\ DOMAIN CountAttempt(r) = DOMAIN deprecated
        /\ \A i \in DOMAIN deprecated :
             CountAttempt(r)[i] = IF deprecated[i].repo = r
                                  THEN [repo |-> r, attempts |-> deprecated[i].attempts + 1] ELSE deprecated[i]
    BY DEF CountAttempt
  <1>5. CountAttempt(r) \in [1 .. Len(deprecated) -> Deprecated]
    BY <1>2, <1>3 DEF CountAttempt
  <1>6. CountAttempt(r) \in Seq(Deprecated)
    BY <1>3, <1>5
  <1> QED BY <1>2, <1>4, <1>6

-----------------------------------------------------------------------------
(* Commands *)

\* The CA accepted the command, and so did its listener.
Accepted(c, ks, ss, w, t) ==
    /\ ss # Refused
    /\ class' = c /\ keys' = ks /\ sets' = ss /\ deprecated' = Deprecate(ss)
    /\ worker' = w /\ tasks' = tasks \cup t
    /\ UNCHANGED <<link, crashes>>

\* Of a command only the case that it is accepted needs to be considered: one
\* that is refused changes only the task of the worker, and after a crash the
\* objects may be ahead.
LEMMA CommandStep ==
    ASSUME IInv,
           NEW c \in [name : Nat, lastKeyChange : Nat], NEW ks \in [Role -> Key \cup {None}],
           NEW ss \in [SetRole -> Set \cup {None}] \cup {Refused}, NEW w, NEW e, NEW t \in SUBSET Nat,
           Command(c, ks, ss, w, e, t),
           UNCHANGED <<repo, removals, objRepo, published, parent, created, now>>,
           worker' = e => WorkerInv',
           Accepted(c, ks, ss, w, t) => KeyInv' /\ TaskInv' /\ WorkerInv' /\ PublishInv'
    PROVE  IInv'
  <1>0. \A id \in parent'.keys : id <= created
    BY Zenon DEF IInv, ParentInv
  <1>1. CASE worker' = e /\ UNCHANGED <<class, keys, link, sets, deprecated, tasks, crashes>>
    <2>1. TypeOK'
      BY <1>1, Zenon DEF IInv, TypeOK
    <2> QED BY <1>0, <1>1, <2>1, Framed, Zenon
  <1>2. CASE Accepted(c, ks, ss, w, t)
    <2>1. Deprecate(ss) \in Seq(Deprecated)
      BY <1>2, DeprecateType DEF Accepted, IInv
    <2>2. TypeOK'
      BY <1>2, <2>1, Zenon DEF Accepted, IInv, TypeOK, Deprecated
    <2>3. ParentInv'
      BY Zenon DEF IInv, ParentInv
    <2> QED BY <1>2, <2>2, <2>3 DEF IInv
  <1>3. CASE ss # Refused /\ sets' = ss /\ deprecated' = Deprecate(ss) /\ Crash /\ UNCHANGED <<class, keys>>
    <2>1. Deprecate(ss) \in Seq(Deprecated)
      BY <1>3, DeprecateType DEF IInv
    <2>2. crashes' \in 0 .. MaxCrashes /\ link' \in {"known", "removing", "none"}
      BY <1>3, CrashCounted DEF IInv, TypeOK
    <2>3. TypeOK'
      BY <1>3, <2>1, <2>2, Zenon DEF IInv, TypeOK, Crash, Deprecated
    <2> QED BY <1>3, <2>3, CrashStep
  <1> QED BY <1>1, <1>2, <1>3 DEF Command, Accepted

\* The class is dropped, with its objects.
LEMMA Dropped ==
    ASSUME IInv, keys' = NoKeys, sets' = NoSets,
           UNCHANGED <<repo, objRepo, parent, created, crashes>>,
           \A id \in tasks' : id <= created, worker' = Idle \/ worker' = worker
    PROVE  KeyInv' /\ TaskInv' /\ WorkerInv' /\ PublishInv'
  <1>1. \A r \in Role : keys'[r] = None
    BY DEF NoKeys
  <1>2. {"pending", "new", "current", "old"} \subseteq Role /\ {"staging", "current", "old"} = SetRole
    BY DEF Role, SetRole
  <1>3. KeyInv'
    BY <1>1, <1>2 DEF KeyInv, KeyShape, QuietKeys
  <1>4. TaskInv'
    BY <1>1, <1>2 DEF TaskInv, InUse
  <1>5. WorkerInv'
    <2>1. CASE worker' = Idle
      BY <2>1, IdleWorker
    <2>2. CASE worker' = worker
      <3>1. \A id : ~InUse(id)'
        BY <1>1, <1>2 DEF InUse
      <3>2. \A id, r : Fits(id, r)'
        BY <1>1, <1>2 DEF Fits
      <3>3. created \in Nat
        BY DEF IInv, TypeOK
      <3> QED BY <2>2, <3>1, <3>2, <3>3, WorkerKept
    <2> QED BY <2>1, <2>2
  <1>6. PublishInv'
    <2>1. \A r \in SetRole : sets'[r] = None
      BY DEF NoSets
    <2>2. CertifiedWherePublished'
      BY <2>1, Zenon DEF CertifiedWherePublished, SetRoles
    <2>3. crashes = 0 => FollowInv'
      BY <1>1, <1>2, <2>1 DEF IInv, PublishInv, FollowInv, ObjectsFollowKeys, SetFor
    <2> QED BY <2>2, <2>3 DEF PublishInv
  <1> QED BY <1>3, <1>4, <1>5, <1>6

\* The types of what a dropped class leaves.
LEMMA EmptyTypes ==
    /\ NoClass \in [name : Nat, lastKeyChange : Nat]
    /\ NoKeys \in [Role -> Key \cup {None}] /\ NoSets \in [SetRole -> Set \cup {None}]
  BY DEF NoClass, NoKeys, NoSets

\* The keys that the parent is to revoke, for a class that is dropped.
LEMMA CertifiedBound == IInv => Certified(keys) \in SUBSET Nat /\ \A id \in Certified(keys) : id <= created
  <1> SUFFICES ASSUME IInv, NEW r \in Roles(keys) PROVE keys[r].id \in Nat /\ keys[r].id <= created
    BY DEF Certified, Ids
  <1>1. r \in Role /\ keys[r] # None
    BY DEF Roles
  <1>2. keys[r] \in Key
    BY <1>1, Zenon DEF IInv, TypeOK
  <1> QED BY <1>1, <1>2 DEF Key, IInv, KeyInv

\* The worker drops the class.
LEMMA DropClassStep == IInv /\ DropClass => IInv'
  <1> SUFFICES ASSUME IInv, DropClass PROVE IInv'
    OBVIOUS
  <1>1. CASE Command(NoClass, NoKeys, NoSets, Idle, Idle, Certified(keys))
    <2>1. Accepted(NoClass, NoKeys, NoSets, Idle, Certified(keys)) => KeyInv' /\ TaskInv' /\ WorkerInv' /\ PublishInv'
      <3>1. \A id \in tasks \cup Certified(keys) : id <= created
        BY CertifiedBound, Zenon DEF IInv, TaskInv
      <3> QED BY <3>1, Dropped, Zenon DEF Accepted, DropClass
    <2> QED BY <1>1, <2>1, CommandStep, EmptyTypes, CertifiedBound, IdleWorker, Zenon DEF DropClass
  <1>2. CASE worker' = Idle /\ UNCHANGED <<class, keys, link, sets, deprecated, tasks, crashes>>
    <2>1. TypeOK' /\ \A id \in parent'.keys : id <= created
      BY <1>2 DEF IInv, TypeOK, ParentInv, DropClass
    <2> QED BY <1>2, <2>1, IdleWorker, Framed, Zenon DEF DropClass
  <1> QED BY <1>1, <1>2 DEF DropClass

\* The operator removes the parent, and the class with it.
LEMMA RemoveParentStep == IInv /\ RemoveParent => IInv'
  <1> SUFFICES ASSUME IInv, RemoveParent PROVE IInv'
    OBVIOUS
  <1>1. Deprecate(NoSets) \in Seq(Deprecated)
    BY DeprecateType, EmptyTypes DEF IInv
  <1>2. CASE class' = NoClass /\ keys' = NoKeys /\ link' = "none" /\ UNCHANGED <<worker, tasks, crashes>>
    <2>1. TypeOK'
      BY <1>1, <1>2, EmptyTypes, Zenon DEF IInv, TypeOK, RemoveParent, Deprecated
    <2>2. \A id \in tasks' : id <= created
      BY <1>2 DEF IInv, TaskInv
    <2>3. KeyInv' /\ TaskInv' /\ WorkerInv' /\ PublishInv'
      BY <1>2, <2>2, Dropped DEF RemoveParent
    <2>4. ParentInv'
      BY DEF IInv, ParentInv, RemoveParent
    <2> QED BY <2>1, <2>3, <2>4 DEF IInv
  <1>3. CASE Crash /\ UNCHANGED <<class, keys>>
    <2>1. crashes' \in 0 .. MaxCrashes /\ link' \in {"known", "removing", "none"}
      BY <1>3, CrashCounted DEF IInv, TypeOK
    <2>2. TypeOK'
      BY <1>1, <1>3, <2>1, EmptyTypes, Zenon DEF IInv, TypeOK, RemoveParent, Crash, Deprecated
    <2> QED BY <1>3, <2>2, CrashStep DEF RemoveParent
  <1> QED BY <1>2, <1>3 DEF RemoveParent

-----------------------------------------------------------------------------
(* New keys *)

\* A key is created for a class that has no other one, or only a current one.
LEMMA KeyAdded ==
    ASSUME IInv, keys["pending"] = None, keys["new"] = None, keys["old"] = None,
           created' = created + 1, repo' \in Repo, keys' = RollInitiated(keys, repo'),
           UNCHANGED <<parent, tasks>>, worker' = Idle \/ worker' = worker
    PROVE  /\ keys' \in [Role -> Key \cup {None}]
           /\ KeyInv' /\ TaskInv' /\ ParentInv' /\ WorkerInv'
           /\ keys'["pending"] # None /\ \A r \in {"new", "current", "old"} : keys'[r] = keys[r]
  <1> DEFINE key == PendingKey(created + 1, repo')
  <1>1. created \in Nat /\ created' \in Nat /\ keys \in [Role -> Key \cup {None}] /\ None \notin Repo
    <2>1. None \notin Repo
      BY KeyRollAssumption
    <2> QED BY <2>1 DEF IInv, TypeOK
  <1>2. key \in Key /\ key # None
    BY <1>1, KeysAreKeys
  <1>3. /\ keys' \in [Role -> Key \cup {None}]
        /\ keys'["pending"] = key /\ \A r \in {"new", "current", "old"} : keys'[r] = keys[r]
    BY <1>1, <1>2 DEF RollInitiated, Role
  <1>4. key.id = created + 1 /\ key.cert = None /\ key.req = repo' /\ key.oldRepo = None
    BY DEF PendingKey
  <1>5. \A r \in Role : keys[r] # None => keys[r].id \in Nat /\ keys[r].id <= created
    BY <1>1, Zenon DEF IInv, KeyInv, Key
  <1> HIDE DEF key
  <1>6. KeyShape'
    BY <1>2, <1>3, <1>4, Zenon DEF IInv, KeyInv, KeyShape, Role
  <1>7. KeyInv'
    <2>1. \A r \in Role : keys'[r] # None => keys'[r].id <= created'
      BY <1>1, <1>2, <1>3, <1>4, <1>5 DEF Role
    <2>2. \A r, s \in Role : keys'[r] # None /\ keys'[s] # None /\ keys'[r].id = keys'[s].id => r = s
      <3>1. SUFFICES ASSUME NEW r \in Role, NEW s \in Role, keys'[r] # None, keys'[s] # None, keys'[r].id = keys'[s].id
                     PROVE  r = s
        OBVIOUS
      <3>2. \A u \in {"new", "current", "old"} : keys'[u] # None => keys'[u].id # created + 1
        BY <1>1, <1>3, <1>5 DEF Role
      <3>3. CASE r = "pending" \/ s = "pending"
        BY <1>3, <1>4, <3>1, <3>2, <3>3 DEF Role
      <3>4. CASE r # "pending" /\ s # "pending"
        BY <1>3, <3>1, <3>4, Zenon DEF IInv, KeyInv, Role
      <3> QED BY <3>3, <3>4, Zenon
    <2>3. (parent.offered = 1 => QuietKeys)'
      BY <1>3, <1>4 DEF IInv, KeyInv, QuietKeys
    <2>4. repo' # None
      BY <1>1
    <2> QED BY <1>6, <2>1, <2>2, <2>3, <2>4, Zenon DEF KeyInv
  <1>8. ASSUME NEW id \in Nat, id <= created, InUse(id)' PROVE InUse(id)
    <2>1. id # created + 1
      BY <1>1, <1>8
    <2> QED BY <1>3, <1>4, <1>8, <2>1 DEF InUse
  <1>9. TaskInv'
    <2>1. \A id \in tasks : id \in Nat /\ id <= created /\ ~InUse(id)
      BY DEF IInv, TypeOK, TaskInv
    <2> QED BY <1>1, <1>8, <2>1 DEF TaskInv
  <1>10. ParentInv'
    <2>1. \A id \in parent.keys : id \in Nat /\ id <= created
      BY DEF IInv, TypeOK, ParentInv
    <2> QED BY <1>1, <2>1 DEF IInv, ParentInv
  <1>11. WorkerInv'
    <2>1. CASE worker' = Idle
      BY <2>1, IdleWorker
    <2>2. CASE worker' = worker
      <3>1. ASSUME NEW id \in Nat, NEW r \in Repo, id <= created, Fits(id, r) PROVE Fits(id, r)'
        <4>1. id # created + 1
          BY <1>1, <3>1
        <4> QED BY <1>3, <1>4, <3>1, <4>1 DEF Fits
      <3>2. repo' # None /\ created <= created'
        BY <1>1
      <3> QED BY <1>1, <1>8, <2>2, <3>1, <3>2, WorkerKept, Zenon
    <2> QED BY <2>1, <2>2
  <1> QED BY <1>2, <1>3, <1>7, <1>9, <1>10, <1>11

\* The operator starts a key roll.
LEMMA KeyRollInitStep == ASSUME IInv, NEW age, KeyRollInit(age) PROVE IInv'
  <1>1. keys["pending"] = None /\ keys["new"] = None /\ keys["old"] = None /\ keys["current"] # None
    BY KeyStates, Zenon DEF KeyRollInit
  <1>2. repo \in Repo /\ repo' = repo
    BY <1>1, Zenon DEF IInv, TypeOK, KeyInv, Role, KeyRollInit
  <1>3. /\ keys' \in [Role -> Key \cup {None}]
        /\ KeyInv' /\ TaskInv' /\ ParentInv' /\ WorkerInv'
        /\ keys'["pending"] # None /\ \A r \in {"new", "current", "old"} : keys'[r] = keys[r]
    BY <1>1, <1>2, KeyAdded, Zenon DEF KeyRollInit
  <1>4. TypeOK'
    BY <1>3 DEF IInv, TypeOK, KeyRollInit, linkVars, objVars
  <1>5. PublishInv'
    <2>1. SUFFICES ASSUME crashes = 0 PROVE FollowInv' /\ CertifiedWherePublished'
      BY DEF PublishInv, KeyRollInit
    <2>2. FollowInv /\ CertifiedWherePublished
      BY <2>1 DEF IInv, PublishInv
    <2>3. FollowInv'
      BY <1>3, <2>2, ZenonT(60) DEF FollowInv, ObjectsFollowKeys, SetFor, KeyRollInit, objVars
    <2> QED BY <2>2, <2>3 DEF CertifiedWherePublished, SetRoles, KeyRollInit, objVars
  <1> QED BY <1>3, <1>4, <1>5, Zenon DEF IInv

\* The sets of objects, after the repository was changed.
LEMMA UpdateRepoSets ==
    ASSUME TypeOK
    PROVE  /\ UpdateRepo(sets) \in [SetRole -> Set \cup {None}]
           /\ \A r \in SetRole :
                /\ UpdateRepo(sets)[r] = None <=> sets[r] = None
                /\ sets[r] # None => /\ UpdateRepo(sets)[r].id = sets[r].id
                                     /\ UpdateRepo(sets)[r].cert = sets[r].cert
                                     /\ UpdateRepo(sets)[r].oldRepo =
                                          IF objRepo = None THEN sets[r].oldRepo ELSE objRepo
  <1>1. CASE objRepo = None
    BY <1>1, Zenon DEF UpdateRepo, TypeOK
  <1>2. CASE objRepo # None
    <2> DEFINE New(r) == [id |-> sets[r].id, cert |-> sets[r].cert, oldRepo |-> objRepo]
    <2>1. ASSUME NEW r \in SetRole, sets[r] # None PROVE New(r) \in Set /\ New(r) # None
      <3>1. sets[r] \in Set
        BY <2>1, Zenon DEF TypeOK
      <3>2. New(r) \in Set
        BY <3>1, Zenon DEF Set, TypeOK
      <3> QED BY <3>2, KeyRollAssumption, Zenon
    <2>2. UpdateRepo(sets) = [r \in SetRole |-> IF sets[r] = None THEN None ELSE New(r)]
      BY <1>2 DEF UpdateRepo
    <2>3. \A r \in SetRole : New(r).id = sets[r].id /\ New(r).cert = sets[r].cert /\ New(r).oldRepo = objRepo
      OBVIOUS
    <2> HIDE DEF New
    <2> QED BY <1>2, <2>1, <2>2, <2>3
  <1> QED BY <1>1, <1>2, Zenon

\* The operator sets the repository, or migrates to another one.
LEMMA MigrateToStep == ASSUME IInv, NEW newRepo \in Repo, MigrateTo(newRepo) PROVE IInv'
  <1> DEFINE rolls == repo # None /\ Active(keys)
             started == IF rolls THEN RollInitiated(keys, newRepo) ELSE keys
  <1>1. /\ sets' = UpdateRepo(sets) /\ objRepo' = newRepo
        /\ UNCHANGED <<class, removals, deprecated, published, parent, now>>
        /\ newRepo # repo /\ (repo # None => Roles(keys) = {} \/ Active(keys))
    BY DEF MigrateTo
  <1>2. TypeOK
    BY DEF IInv
  <1>3. CASE Crash /\ UNCHANGED <<keys, repo, created>>
    <2>1. crashes' \in 0 .. MaxCrashes /\ link' \in {"known", "removing", "none"}
      BY <1>3, CrashCounted DEF IInv, TypeOK
    <2>2. TypeOK'
      BY <1>1, <1>2, <1>3, <2>1, UpdateRepoSets, Zenon DEF TypeOK, Crash
    <2> QED BY <1>1, <1>3, <2>2, CrashStep
  <1>4. CASE /\ keys' = OldRepoSet(started) /\ repo' = newRepo
             /\ created' = IF rolls THEN created + 1 ELSE created
             /\ UNCHANGED <<link, worker, tasks, crashes>>
    <2>1. CASE rolls
      <3>1. keys["pending"] = None /\ keys["new"] = None /\ keys["old"] = None /\ keys["current"] # None
        BY <2>1, KeyStates, Zenon
      <3>2. started = RollInitiated(keys, newRepo) /\ started["pending"] # None
        <4>1. PendingKey(created + 1, newRepo) # None
          BY <1>2, KeysAreKeys DEF TypeOK
        <4> QED BY <1>2, <2>1, <4>1, Zenon DEF RollInitiated, TypeOK, Role
      <3>3. keys' = RollInitiated(keys, repo') /\ repo' \in Repo /\ created' = created + 1
        BY <1>4, <2>1, <3>2, KeyStates, Zenon DEF OldRepoSet
      <3>4. /\ keys' \in [Role -> Key \cup {None}]
            /\ KeyInv' /\ TaskInv' /\ ParentInv' /\ WorkerInv'
            /\ keys'["pending"] # None /\ \A r \in {"new", "current", "old"} : keys'[r] = keys[r]
        BY <1>1, <1>4, <3>1, <3>3, KeyAdded
      <3>5. created' \in Nat /\ repo' \in Repo
        BY <1>2, <3>3 DEF TypeOK
      <3>6. TypeOK'
        BY <1>1, <1>2, <1>4, <3>4, <3>5, UpdateRepoSets, Zenon DEF TypeOK
      <3>7. ASSUME crashes = 0 PROVE FollowInv' /\ CertifiedWherePublished'
        <4>1. FollowInv /\ CertifiedWherePublished
          BY <3>7 DEF IInv, PublishInv
        <4>2. /\ sets["staging"] = None /\ sets["old"] = None /\ sets["current"] # None
              /\ sets["current"].oldRepo = None /\ objRepo = repo
          BY <3>1, <4>1, ZenonT(60) DEF FollowInv, ObjectsFollowKeys, SetFor
        <4>3. /\ sets'["staging"] = None /\ sets'["old"] = None /\ sets'["current"] # None
              /\ sets'["current"].id = sets["current"].id /\ sets'["current"].cert = sets["current"].cert
              /\ sets'["current"].oldRepo = repo
          BY <1>1, <1>2, <2>1, <4>2, UpdateRepoSets, Zenon DEF SetRole
        <4>4. FollowInv'
          BY <1>1, <1>4, <3>1, <3>4, <4>1, <4>2, <4>3, ZenonT(60) DEF FollowInv, ObjectsFollowKeys, SetFor
        <4>5. CertifiedWherePublished'
          <5>1. SUFFICES ASSUME parent.offered = 1
                         PROVE  sets'["current"].cert.repo = sets'["current"].oldRepo /\ sets'["current"].oldRepo # None
            BY <1>1, <4>3, Zenon DEF CertifiedWherePublished, SetRoles, SetRole
          <5>2. sets["current"].cert.repo = repo
            BY <4>1, <4>2, <5>1 DEF CertifiedWherePublished, SetRoles, SetRole
          <5> QED BY <2>1, <4>3, <5>2, Zenon
        <4> QED BY <4>4, <4>5
      <3> QED BY <1>4, <3>4, <3>6, <3>7, Zenon DEF IInv, PublishInv
    <2>2. CASE ~rolls
      <3>1. \A r \in Role : keys[r] = None
        <4>1. CASE repo = None
          BY <4>1, Zenon DEF IInv, KeyInv
        <4>2. CASE repo # None
          BY <1>1, <2>2, <4>2, KeyStates DEF Role
        <4> QED BY <4>1, <4>2
      <3>2. ~Active(keys)
        BY <3>1, KeyStates DEF Role
      <3>3. keys' = keys /\ created' = created
        BY <1>4, <2>2, <3>2 DEF OldRepoSet
      <3>4. TypeOK'
        BY <1>1, <1>2, <1>4, <3>3, UpdateRepoSets, Zenon DEF TypeOK
      <3>5. {"pending", "new", "current", "old"} \subseteq Role
        BY DEF Role
      <3>6. repo' # None
        BY <1>4, KeyRollAssumption, ZenonT(60)
      <3>7. KeyInv'
        BY <3>1, <3>3, <3>5 DEF KeyInv, KeyShape, QuietKeys
      <3>8. TaskInv' /\ ParentInv'
        BY <1>1, <1>4, <3>3, ZenonT(60) DEF IInv, TaskInv, ParentInv, InUse
      <3>9. WorkerInv'
        <4>1. \A id : ~InUse(id)'
          BY <3>1, <3>3, <3>5 DEF InUse
        <4>2. \A id, r : Fits(id, r)'
          BY <3>1, <3>3, <3>5 DEF Fits
        <4>3. created \in Nat /\ created <= created'
          BY <1>2, <3>3 DEF TypeOK
        <4> QED BY <1>1, <1>4, <3>3, <3>6, <4>1, <4>2, <4>3, WorkerKept
      <3>10. ASSUME crashes = 0 PROVE FollowInv' /\ CertifiedWherePublished'
        <4>1. FollowInv
          BY <3>10, Zenon DEF IInv, PublishInv
        <4>2. \A r \in SetRole : sets[r] = None
          BY <3>1, <4>1 DEF FollowInv, ObjectsFollowKeys, SetFor, Role, SetRole
        <4>3. \A r \in SetRole : sets'[r] = None
          BY <1>1, <1>2, <4>2, UpdateRepoSets, Zenon
        <4>4. CertifiedWherePublished'
          BY <4>3 DEF CertifiedWherePublished, SetRoles
        <4>5. FollowInv'
          BY <1>1, <1>4, <3>1, <3>3, <4>3, ZenonT(60) DEF FollowInv, ObjectsFollowKeys, SetFor, Role, SetRole
        <4> QED BY <4>4, <4>5
      <3> QED BY <1>4, <3>4, <3>7, <3>8, <3>9, <3>10 DEF IInv, PublishInv
    <2> QED BY <2>1, <2>2, Zenon
  <1> HIDE DEF rolls, started
  <1> QED BY <1>3, <1>4 DEF MigrateTo, rolls, started
=============================================================================
