------------------------------ MODULE KeyRoll ------------------------------
(***************************************************************************)
(* The keys of a resource class and the objects that are published for     *)
(* them: KeyState (src/daemon/ca/keys.rs), ResourceClass (rc.rs) and       *)
(* CertAuth (certauth.rs) on the one side, CaObjects (publishing.rs) on    *)
(* the other, and the exchanges with the parent and with the repositories  *)
(* (manager.rs).                                                           *)
(*                                                                         *)
(* One CA has one parent, and at most one resource class at a time.  A     *)
(* certificate is reduced to the entitlements it was issued for, by a      *)
(* number, and the repository that its URIs are in.  What is published for *)
(* a key, its manifest and all that is listed on it, is the key.           *)
(*                                                                         *)
(* A command makes events.  Before these are saved CaObjects, a pre-save   *)
(* listener, applies them to objects of its own, and saves those; it may   *)
(* refuse.  A crash in between leaves the objects ahead of the CA.         *)
(***************************************************************************)
EXTENDS Naturals, FiniteSets, Sequences

CONSTANTS
    Repo,             \* repositories
    MaxKeys,          \* bound on the keys that are created, but for those of a
                      \* class that is added after the parent was removed
    MaxEntitlements,  \* bound on the entitlements that the parent comes to offer
    MaxCrashes,       \* bound on the crashes
    MaxRemovals,      \* bound on the times that the parent is removed
    MaxTime,          \* bound on the clock
    Period,           \* the staging periods, and the maximum ages of a key
    CleanAttempts,    \* failures to clean a repository before it is dropped: 5
    None, Refused

Role    == {"pending", "new", "current", "old"}
SetRole == {"staging", "current", "old"}

Cert == [entitlements : Nat, repo : Repo]
Key  == [id : Nat, cert : Cert \cup {None}, req : Repo \cup {None}, oldRepo : Repo \cup {None}]
Set  == [id : Nat, cert : Cert, oldRepo : Repo \cup {None}]

ASSUME KeyRollAssumption ==
    /\ {MaxKeys, MaxEntitlements, MaxCrashes, MaxRemovals, MaxTime, CleanAttempts} \subseteq Nat
    /\ Period \subseteq Nat
    /\ None \notin Repo \cup Cert \cup Key \cup Set
    /\ Refused \notin [SetRole -> Set \cup {None}]

VARIABLES
    repo,       \* CertAuth: the repository
    class,      \* CertAuth: the resource class, without its keys
    keys,       \* CertAuth: the keys of the resource class, by role
    objRepo,    \* CaObjects: the repository
    sets,       \* CaObjects: the objects of the class, by the role of their key
    deprecated, \* CaObjects: the repositories to clean, with the failed attempts
    published,  \* at each repository: the keys that objects are published for
    parent,     \* the entitlements at the parent, and the keys it has certified
    worker,     \* the worker of the scheduler: the task that is being done
    tasks,      \* the keys that the parent is still to be asked to revoke
    link,       \* whether the CA knows the parent, or is about to remove it
    removals,   \* the times that it was removed
    created,    \* the number of keys created
    now,        \* the time
    crashes

caVars   == <<repo, class, keys>>
linkVars == <<link, removals>>
objVars  == <<objRepo, sets, deprecated>>
vars     == <<caVars, linkVars, objVars, published, parent, worker, tasks, created, now, crashes>>

Idle    == [pc |-> "idle"]
NoClass == [name |-> 0, lastKeyChange |-> 0]
NoKeys  == [r \in Role |-> None]
NoSets  == [r \in SetRole |-> None]

-----------------------------------------------------------------------------
(* The keys of the CA *)

PendingKey(id, req) == [id |-> id, cert |-> None, req |-> req, oldRepo |-> None]
CertifiedKey(id, cert) == [id |-> id, cert |-> cert, req |-> None, oldRepo |-> None]

Roles(ks) == {r \in Role : ks[r] # None}
Ids(ks, roles) == {ks[r].id : r \in roles \cap Roles(ks)}

\* The state of a class is told by the keys that it has.
Pending(ks)     == Roles(ks) = {"pending"}
Active(ks)      == Roles(ks) = {"current"}
RollPending(ks) == Roles(ks) = {"pending", "current"}
RollNew(ks)     == Roles(ks) = {"new", "current"}
RollOld(ks)     == Roles(ks) = {"current", "old"}

WithRequest(key, req) == [id |-> key.id, cert |-> key.cert, req |-> req, oldRepo |-> key.oldRepo]
WithCert(key, cert) == [id |-> key.id, cert |-> cert, req |-> None, oldRepo |-> key.oldRepo]
WithOldRepo(key, old) == [id |-> key.id, cert |-> key.cert, req |-> key.req, oldRepo |-> old]

\* cert_requests, in the order in which they are sent.
CertRequests(ks) ==
    LET Of(r) == IF ks[r] = None THEN << >>
                 ELSE IF ks[r].req = None THEN << >>
                 ELSE << [id |-> ks[r].id, repo |-> ks[r].req] >>
    IN  Of("pending") \o Of("new") \o Of("current") \o Of("old")

HasPendingRequests(ks) == CertRequests(ks) # << >> \/ RollOld(ks)

\* revoke: the keys that the parent knows.
Certified(ks) == Ids(ks, {"new", "current", "old"})

\* Mutant: only the current key is known.
KnowsKeyCurrent(ks, id) == id \in Ids(ks, {"current"})

KnowsKey(ks, id) == id \in Ids(ks, Role)

Activated(ks) == [NoKeys EXCEPT !["current"] = ks["new"], !["old"] = ks["current"]]

-----------------------------------------------------------------------------
(* CaObjects.  An operation on the sets gives Refused for an error.        *)

ObjectSet(key) == [id |-> key.id, cert |-> key.cert, oldRepo |-> None]

SetRoles(ss) == {r \in SetRole : ss[r] # None}
OldRepos(ss) == {ss[r].oldRepo : r \in SetRoles(ss)} \ {None}

AddClass(ss, key) ==
    IF SetRoles(ss) = {} THEN [ss EXCEPT !["current"] = ObjectSet(key)] ELSE Refused

KeyrollStage(ss, key) ==
    IF SetRoles(ss) = {"current"} THEN [ss EXCEPT !["staging"] = ObjectSet(key)] ELSE Refused

\* Mutant: the old set is dropped on activation.
KeyrollActivateOnly(ss) ==
    IF SetRoles(ss) = {"staging", "current"}
    THEN [NoSets EXCEPT !["current"] = ss["staging"]]
    ELSE Refused

KeyrollActivate(ss) ==
    IF SetRoles(ss) = {"staging", "current"}
    THEN [NoSets EXCEPT !["current"] = ss["staging"], !["old"] = ss["current"]]
    ELSE Refused

KeyrollFinish(ss) ==
    IF SetRoles(ss) = {"current", "old"} THEN [ss EXCEPT !["old"] = None] ELSE Refused

UpdateReceivedCert(ss, id, cert) ==
    IF \E r \in SetRoles(ss) : ss[r].id = id
    THEN [r \in SetRole |-> IF r \in SetRoles(ss) /\ ss[r].id = id
                            THEN [id |-> id, cert |-> cert, oldRepo |-> ss[r].oldRepo] ELSE ss[r]]
    ELSE Refused

\* Mutant: the old repository is not remembered.
UpdateRepoForget(ss) == ss

UpdateRepo(ss) ==
    IF objRepo = None THEN ss
    ELSE [r \in SetRole |-> IF ss[r] = None THEN None
                            ELSE [id |-> ss[r].id, cert |-> ss[r].cert, oldRepo |-> objRepo]]

\* Mutant: no repository is deprecated.
DeprecateNone(ss) == deprecated

\* deprecate_repo_if_no_longer_used: the old repository of the sets that are
\* dropped, unless it is that of a set that remains.  There is one at most.
Deprecate(ss) ==
    LET unused == OldRepos(sets) \ OldRepos(ss)
    IN  IF unused = {} THEN deprecated
        ELSE Append(deprecated, [repo |-> CHOOSE r \in unused : TRUE, attempts |-> 0])

\* repo_elements_map
Elements ==
    LET RepoOf(s) == IF s.oldRepo = None THEN objRepo ELSE s.oldRepo
        used == {objRepo} \cup {RepoOf(sets[r]) : r \in SetRoles(sets)}
    IN  IF objRepo = None THEN {}
        ELSE {[repo |-> u, ids |-> {sets[r].id : r \in {s \in SetRoles(sets) : RepoOf(sets[s]) = u}}]
                : u \in used}

-----------------------------------------------------------------------------
(* Sending a command to the CA *)

Crash ==
    /\ crashes < MaxCrashes
    /\ crashes' = crashes + 1
    /\ worker' = Idle
    /\ tasks' = {}
    /\ link' = IF link = "removing" THEN "known" ELSE link

\* The events change the class to c, its keys to ks and the sets of objects to
\* ss.  The worker goes on with w, or with e when the listener refuses; t are
\* the keys of which the queue is told that they are to be revoked.
Command(c, ks, ss, w, e, t) ==
    \/ /\ ss = Refused
       /\ worker' = e
       /\ UNCHANGED <<class, keys, link, sets, deprecated, tasks, crashes>>
    \/ /\ ss # Refused
       /\ class' = c /\ keys' = ks /\ sets' = ss /\ deprecated' = Deprecate(ss)
       /\ worker' = w /\ tasks' = tasks \cup t
       /\ UNCHANGED <<link, crashes>>
    \/ /\ ss # Refused
       /\ sets' = ss /\ deprecated' = Deprecate(ss)
       /\ Crash
       /\ UNCHANGED <<class, keys>>

\* The roll is possible in the active state, when the key has the given age.
RollInitiated(ks, newRepo) ==
    [ks EXCEPT !["pending"] = PendingKey(created + 1, newRepo)]

\* The operator starts a key roll.
KeyRollInit(age) ==
    /\ Active(keys) /\ created < MaxKeys
    /\ ~(age > 0 /\ class.lastKeyChange + age > now)
    /\ keys' = RollInitiated(keys, repo)
    /\ created' = created + 1
    /\ UNCHANGED <<repo, class, linkVars, objVars, published, parent, worker, tasks, now, crashes>>

\* The operator activates the new key after the staging period.
KeyRollActivate(staging) ==
    /\ RollNew(keys)
    /\ ~(staging > 0 /\ class.lastKeyChange + staging > now)
    /\ Command(class, Activated(keys), KeyrollActivate(sets), worker, worker, {})
    /\ UNCHANGED <<repo, removals, objRepo, published, parent, created, now>>

\* RepoUpdated: set_old_repo_if_in_active_state
OldRepoSet(ks) ==
    IF Active(ks) /\ repo # None
    THEN [ks EXCEPT !["current"] = WithOldRepo(ks["current"], repo)]
    ELSE ks

\* The operator sets the repository, or migrates to another one: a key roll,
\* with the new repository for the new key.  The events are those of the roll
\* first, and then RepoUpdated.
MigrateTo(newRepo) ==
    /\ newRepo # repo
    /\ repo # None => Roles(keys) = {} \/ (Active(keys) /\ created < MaxKeys)
    /\ LET rolls == repo # None /\ Active(keys)
           ks == OldRepoSet(IF rolls THEN RollInitiated(keys, newRepo) ELSE keys)
       IN  \/ /\ keys' = ks /\ repo' = newRepo
              /\ created' = IF rolls THEN created + 1 ELSE created
              /\ UNCHANGED <<link, worker, tasks, crashes>>
           \/ Crash /\ UNCHANGED <<keys, repo, created>>
    /\ sets' = UpdateRepo(sets) /\ objRepo' = newRepo
    /\ UNCHANGED <<class, removals, deprecated, published, parent, now>>

\* The parent has certified these keys.
WithKeys(ks) == [entitlements |-> parent.entitlements, keys |-> ks, offered |-> parent.offered]

\* The operator removes the parent: the revocation of the keys is requested,
\* as a best effort, and then the command is sent.
ParentRevoke ==
    /\ link = "known" /\ removals < MaxRemovals
    /\ link' = "removing"
    /\ removals' = removals + 1
    /\ \/ parent' = WithKeys(parent.keys \ Certified(keys))
       \/ UNCHANGED parent
    /\ UNCHANGED <<caVars, objVars, published, worker, tasks, created, now, crashes>>

RemoveParent ==
    /\ link = "removing"
    /\ sets' = NoSets /\ deprecated' = Deprecate(NoSets)
    /\ \/ /\ class' = NoClass /\ keys' = NoKeys /\ link' = "none"
          /\ UNCHANGED <<worker, tasks, crashes>>
       \/ Crash /\ UNCHANGED <<class, keys>>
    /\ UNCHANGED <<repo, removals, objRepo, published, parent, created, now>>

\* The parent is added again.
AddParent ==
    /\ link = "none"
    /\ link' = "known"
    /\ UNCHANGED <<caVars, removals, objVars, published, parent, worker, tasks, created, now, crashes>>

-----------------------------------------------------------------------------
(* ca_sync_parent: a task of the worker.  A request may not arrive, and an *)
(* answer may get lost.                                                    *)

\* Pending requests are sent first, revocations before the others.
SyncParent ==
    /\ worker = Idle /\ link # "none"
    /\ \/ /\ RollOld(keys)
          /\ worker' = [pc |-> "revoke", class |-> class.name, id |-> keys["old"].id]
       \/ /\ HasPendingRequests(keys) /\ ~RollOld(keys)
          /\ worker' = [pc |-> "collect"]
       \/ /\ ~HasPendingRequests(keys) /\ repo # None
          /\ Roles(keys) # {} \/ created < MaxKeys
          /\ worker' = [pc |-> "list"]
    /\ UNCHANGED <<caVars, linkVars, objVars, published, parent, tasks, created, now, crashes>>

\* Mutant: that the parent does not know the key is a failure.
SendRevokeKnown ==
    /\ worker.pc = "revoke"
    /\ \/ worker' = Idle /\ UNCHANGED parent
       \/ /\ worker.id \in parent.keys
          /\ parent' = WithKeys(parent.keys \ {worker.id})
          /\ worker' \in {Idle, [pc |-> "finish", class |-> worker.class]}
    /\ UNCHANGED <<caVars, linkVars, objVars, published, tasks, created, now, crashes>>

\* That the parent does not know the key is as good as its revocation.
SendRevoke ==
    /\ worker.pc = "revoke"
    /\ \/ worker' = Idle /\ UNCHANGED parent
       \/ /\ parent' = WithKeys(parent.keys \ {worker.id})
          /\ worker' \in {Idle, [pc |-> "finish", class |-> worker.class]}
    /\ UNCHANGED <<caVars, linkVars, objVars, published, tasks, created, now, crashes>>

FinishRoll ==
    /\ worker.pc = "finish"
    /\ \/ /\ worker.class = class.name /\ RollOld(keys)
          /\ Command(class, [keys EXCEPT !["old"] = None], KeyrollFinish(sets),
                     [pc |-> "collect"], Idle, {})
       \/ /\ ~(worker.class = class.name /\ RollOld(keys))
          /\ worker' = Idle
          /\ UNCHANGED <<class, keys, link, sets, deprecated, tasks, crashes>>
    /\ UNCHANGED <<repo, removals, objRepo, published, parent, created, now>>

Issue(name, requests) ==
    IF requests = << >> THEN Idle
    ELSE [pc |-> "issue", class |-> name, requests |-> requests]

CollectRequests ==
    /\ worker.pc = "collect"
    /\ worker' = Issue(class.name, CertRequests(keys))
    /\ UNCHANGED <<caVars, linkVars, objVars, published, parent, tasks, created, now, crashes>>

\* The parent issues a certificate for its present entitlements, or says that
\* there are none (1201, 1202).
SendIssue ==
    /\ worker.pc = "issue"
    /\ LET request == Head(worker.requests)
           cert == [entitlements |-> parent.entitlements, repo |-> request.repo]
       IN  \/ worker' = Idle /\ UNCHANGED parent
           \/ /\ parent.entitlements = 0
              /\ worker' = [pc |-> "drop", class |-> worker.class]
              /\ UNCHANGED parent
           \/ /\ parent.entitlements # 0
              /\ parent' = WithKeys(parent.keys \cup {request.id})
              /\ worker' \in {Idle, [pc |-> "receive", class |-> worker.class, id |-> request.id,
                                     cert |-> cert, requests |-> Tail(worker.requests)]}
    /\ UNCHANGED <<caVars, linkVars, objVars, published, tasks, created, now, crashes>>

\* update_received_cert: the role of the key that the certificate is accepted for.
AcceptedRoles(ks, id) ==
    {r \in Roles(ks) \ {"old"} : ks[r].id = id}

ReceiveCert ==
    /\ worker.pc = "receive"
    /\ LET key  == CertifiedKey(worker.id, worker.cert)
           next == Issue(worker.class, worker.requests)
           drop == [pc |-> "drop", class |-> worker.class]
           roles == IF worker.class = class.name THEN AcceptedRoles(keys, worker.id) ELSE {}
       IN  \/ /\ "pending" \in roles /\ Pending(keys)
              /\ Command(class, [NoKeys EXCEPT !["current"] = key], AddClass(sets, key), next, drop, {})
           \/ /\ "pending" \in roles /\ RollPending(keys)
              /\ Command(class, [keys EXCEPT !["pending"] = None, !["new"] = key],
                         KeyrollStage(sets, key), next, drop, {})
           \/ \E r \in roles \ {"pending"} :
                Command(class, [keys EXCEPT ![r] = WithCert(keys[r], worker.cert)],
                        UpdateReceivedCert(sets, worker.id, worker.cert), next, drop, {})
           \/ /\ roles = {}
              /\ worker' = drop
              /\ UNCHANGED <<class, keys, link, sets, deprecated, tasks, crashes>>
    /\ UNCHANGED <<repo, removals, objRepo, published, parent, created, now>>

\* Mutant: the class is kept.
DropClassIgnored ==
    /\ worker.pc = "drop"
    /\ worker' = Idle
    /\ UNCHANGED <<caVars, linkVars, objVars, published, parent, tasks, created, now, crashes>>

\* drop_resource_class
DropClass ==
    /\ worker.pc = "drop"
    /\ \/ /\ worker.class = class.name
          /\ Command(NoClass, NoKeys, NoSets, Idle, Idle, Certified(keys))
       \/ /\ worker.class # class.name
          /\ worker' = Idle
          /\ UNCHANGED <<class, keys, link, sets, deprecated, tasks, crashes>>
    /\ UNCHANGED <<repo, removals, objRepo, published, parent, created, now>>

GetEntitlements ==
    /\ worker.pc = "list"
    /\ worker' \in {Idle, [pc |-> "update", entitlements |-> parent.entitlements, ids |-> parent.keys]}
    /\ UNCHANGED <<caVars, linkVars, objVars, published, parent, tasks, created, now, crashes>>

\* make_entitlement_events: the requests for the keys that want an update, and
\* for a pending key in any case.  For an old key that wants one the request is
\* made for the current key.
EntitlementRequests(ks, entitlements) ==
    LET RepoFor(key) == IF key.oldRepo = None THEN repo ELSE key.oldRepo
        Wants(r) == /\ ks[r] # None
                    /\ r = "pending" \/ ks[r].cert.entitlements # entitlements
    IN  [r \in Role |->
            CASE r = "current" /\ Wants("old")  -> WithRequest(ks[r], RepoFor(ks["old"]))
              [] r # "old" /\ Wants(r) /\ ~(r = "current" /\ Wants("old"))
                                                -> WithRequest(ks[r], RepoFor(ks[r]))
              [] OTHER                          -> ks[r]]

UpdateEntitlements ==
    /\ worker.pc = "update"
    /\ \/ /\ worker.entitlements = 0 /\ Roles(keys) # {}
          /\ Command(NoClass, NoKeys, NoSets, Idle, Idle, Certified(keys))
          /\ UNCHANGED created
       \/ /\ worker.entitlements = 0 /\ Roles(keys) = {}
          /\ worker' = Idle
          /\ UNCHANGED <<class, keys, link, sets, deprecated, tasks, created, crashes>>
       \/ /\ worker.entitlements # 0 /\ Roles(keys) = {}
          /\ created' = created + 1
          /\ class' = [name |-> created + 1, lastKeyChange |-> now]
          /\ keys' = [NoKeys EXCEPT !["pending"] = PendingKey(created + 1, repo)]
          /\ worker' = Idle
          /\ UNCHANGED <<link, sets, deprecated, tasks, crashes>>
       \/ /\ worker.entitlements # 0 /\ Roles(keys) # {}
          /\ keys' = EntitlementRequests(keys, worker.entitlements)
          /\ tasks' = tasks \cup {id \in worker.ids : ~KnowsKey(keys, id)}
          /\ worker' = Idle
          /\ UNCHANGED <<class, link, sets, deprecated, created, crashes>>
    /\ UNCHANGED <<repo, removals, objRepo, published, parent, now>>

\* The tasks ResourceClassRemoved and UnexpectedKey: one attempt is made.
RevokeTask ==
    /\ worker = Idle
    /\ \E id \in tasks :
         /\ tasks' = tasks \ {id}
         /\ \/ parent' = WithKeys(parent.keys \ {id})
            \/ UNCHANGED parent
    /\ UNCHANGED <<caVars, linkVars, objVars, published, worker, created, now, crashes>>

-----------------------------------------------------------------------------
(* cas_repo_sync_single: a task of the worker *)

SyncRepo ==
    /\ worker = Idle
    /\ worker' = [pc |-> "publish", todo |-> Elements]
    /\ UNCHANGED <<caVars, linkVars, objVars, published, parent, tasks, created, now, crashes>>

Publish ==
    /\ worker.pc = "publish"
    /\ \/ \E el \in worker.todo :
            \/ /\ published' = [published EXCEPT ![el.repo] = el.ids]
               /\ worker' = [pc |-> "publish", todo |-> worker.todo \ {el}]
            \/ worker' = Idle /\ UNCHANGED published
       \/ /\ worker.todo = {}
          /\ worker' = [pc |-> "clean", todo |-> deprecated]
          /\ UNCHANGED published
    /\ UNCHANGED <<caVars, linkVars, objVars, parent, tasks, created, now, crashes>>

\* retain: the entries for other repositories remain, in their order.
Forget(r) ==
    LET kept == {i \in DOMAIN deprecated : deprecated[i].repo # r}
        Place(i) == Cardinality({k \in kept : k <= i})
    IN  [n \in 1 .. Cardinality(kept) |-> deprecated[CHOOSE i \in kept : Place(i) = n]]

CountAttempt(r) ==
    [i \in DOMAIN deprecated |->
        IF deprecated[i].repo = r
        THEN [repo |-> r, attempts |-> deprecated[i].attempts + 1] ELSE deprecated[i]]

Clean ==
    /\ worker.pc = "clean"
    /\ \/ /\ worker.todo # << >>
          /\ LET d == Head(worker.todo)
             IN  \/ /\ published' = [published EXCEPT ![d.repo] = {}]
                    /\ deprecated' = Forget(d.repo)
                    /\ worker' = [pc |-> "clean", todo |-> Tail(worker.todo)]
                 \/ /\ d.attempts < CleanAttempts
                    /\ deprecated' = CountAttempt(d.repo)
                    /\ worker' = Idle
                    /\ UNCHANGED published
                 \/ /\ d.attempts >= CleanAttempts
                    /\ deprecated' = Forget(d.repo)
                    /\ worker' = [pc |-> "clean", todo |-> Tail(worker.todo)]
                    /\ UNCHANGED published
       \/ /\ worker.todo = << >>
          /\ worker' = Idle
          /\ UNCHANGED <<published, deprecated>>
    /\ UNCHANGED <<caVars, linkVars, objRepo, sets, parent, tasks, created, now, crashes>>

-----------------------------------------------------------------------------
(* The parent, and time *)

ParentChanges ==
    /\ parent.offered < MaxEntitlements
    /\ \/ parent' = [entitlements |-> parent.offered + 1, keys |-> parent.keys, offered |-> parent.offered + 1]
       \/ /\ parent.entitlements # 0
          /\ parent' = [entitlements |-> 0, keys |-> {}, offered |-> parent.offered + 1]
    /\ UNCHANGED <<caVars, linkVars, objVars, published, worker, tasks, created, now, crashes>>

Tick ==
    /\ now < MaxTime
    /\ now' = now + 1
    /\ UNCHANGED <<caVars, linkVars, objVars, published, parent, worker, tasks, created, crashes>>

Init ==
    /\ repo = None /\ class = NoClass /\ keys = NoKeys
    /\ objRepo = None /\ sets = NoSets /\ deprecated = << >>
    /\ published = [r \in Repo |-> {}]
    /\ parent = [entitlements |-> 1, keys |-> {}, offered |-> 1]
    /\ worker = Idle /\ tasks = {}
    /\ link = "known" /\ removals = 0
    /\ created = 0 /\ now = 0 /\ crashes = 0

Operator ==
    \/ \E age \in Period : KeyRollInit(age)
    \/ \E staging \in Period : KeyRollActivate(staging)
    \/ \E r \in Repo : MigrateTo(r)
    \/ ParentRevoke \/ RemoveParent \/ AddParent

Exchange ==
    \/ SyncParent \/ SendRevoke \/ FinishRoll \/ CollectRequests \/ SendIssue \/ ReceiveCert
    \/ DropClass \/ GetEntitlements \/ UpdateEntitlements \/ RevokeTask
    \/ SyncRepo \/ Publish \/ Clean

Next == Operator \/ Exchange \/ ParentChanges \/ Tick

Spec == Init /\ [][Next]_vars

\* The worker goes on with its task.  The task for the parent is always in the
\* queue again, so it has its turn; and the parent answers when it is asked
\* again and again.
Fairness ==
    /\ WF_vars(SendRevoke \/ SendIssue \/ GetEntitlements)
    /\ WF_vars(FinishRoll \/ CollectRequests \/ ReceiveCert \/ DropClass \/ UpdateEntitlements)
    /\ WF_vars(Publish \/ Clean)
    /\ SF_vars(SyncParent)
    /\ SF_vars(SendRevoke /\ worker'.pc = "finish")
    /\ SF_vars(SendIssue /\ worker'.pc \in {"receive", "drop"})

FairSpec == Spec /\ Fairness

-----------------------------------------------------------------------------
(* Properties *)

\* Every variable has its type.
TypeOK ==
    /\ repo \in Repo \cup {None} /\ objRepo \in Repo \cup {None}
    /\ class \in [name : Nat, lastKeyChange : Nat]
    /\ keys \in [Role -> Key \cup {None}]
    /\ sets \in [SetRole -> Set \cup {None}]
    /\ deprecated \in Seq([repo : Repo, attempts : Nat])
    /\ published \in [Repo -> SUBSET Nat]
    /\ parent \in [entitlements : Nat, keys : SUBSET Nat, offered : Nat]
    /\ tasks \subseteq Nat
    /\ link \in {"known", "removing", "none"} /\ removals \in 0 .. MaxRemovals
    /\ created \in Nat /\ now \in 0 .. MaxTime /\ crashes \in 0 .. MaxCrashes

\* The set of objects that goes with the role of a key.
SetFor(r) == IF r = "new" THEN "staging" ELSE r

\* CaObjects, which follows the CA only through the events, has a set of
\* objects for each key of the CA that has a certificate, in the same role and
\* for the same certificate, and no others; both use the same repository.
ObjectsFollowKeys ==
    /\ objRepo = repo
    /\ \A r \in {"new", "current", "old"} :
         LET set == sets[SetFor(r)]
         IN  IF keys[r] = None THEN set = None
             ELSE set # None /\ set.id = keys[r].id /\ set.cert = keys[r].cert

\* The certificate of a key has the URIs of the repository that the objects of
\* that key are published in.  "We implement repository migration as a key roll
\* where the new key uses the new (then default) repository.  Existing keys will
\* keep track of the old repository" (publishing.rs).  This is so as long as the
\* entitlements have not changed: a certificate that the current key needs during
\* a migration is requested for the new repository.
CertifiedWherePublished ==
    parent.offered = 1 => \A r \in SetRoles(sets) :
      sets[r].cert.repo = IF sets[r].oldRepo = None THEN objRepo ELSE sets[r].oldRepo

\* No key that the CA has in use, or is to use, is ever to be revoked.
UsedKeysNotRevoked ==
    LET toRevoke == tasks \cup (IF worker.pc = "revoke" THEN {worker.id} ELSE {})
    IN  toRevoke \cap Ids(keys, {"pending", "new", "current"}) = {}

\* The repositories that the CA still synchronises, or cleans.
Tracked == ({objRepo} \cup OldRepos(sets) \cup {deprecated[i].repo : i \in DOMAIN deprecated}) \ {None}

\* The worker gives up on a repository.  The failures are those of one of the
\* entries that were there when the task began.
GivesUp(r) ==
    /\ worker.pc = "clean" /\ worker.todo # << >>
    /\ Head(worker.todo).repo = r /\ Head(worker.todo).attempts >= CleanAttempts

StaysTracked ==
    \A r \in Tracked :
      published[r] # {} /\ r \notin Tracked' =>
         \/ published'[r] = {}
         \/ GivesUp(r)
         \/ Roles(keys) = {} /\ repo' # repo

\* A repository with objects of the CA does not get lost sight of before they
\* are withdrawn, unless the CA gives up on it after CleanAttempts failures.
\* The one exception is a CA that changes its repository while it has no class:
\* without keys there is nothing to remember the repository by.
ContentIsTracked == [][StaysTracked]_vars

\* A pending key gets its certificate, or else its class is dropped, unless the
\* parent is removed.  (A class that is added for entitlements that the parent
\* gave before it was removed has no one to ask for a certificate.)
PendingIsCertified ==
    "pending" \in Roles(keys) ~> "pending" \notin Roles(keys) \/ link = "none"

\* A key roll that was activated is finished, although requests and answers
\* get lost: the old key is revoked.  (A crash can prevent it: if CaObjects
\* has finished the roll and the CA has not, it refuses to finish it again.)
RollsFinish == RollOld(keys) ~> ~RollOld(keys) \/ crashes > 0

=============================================================================
