----------------------------- MODULE ChildCerts -----------------------------
(***************************************************************************)
(* A CA as a parent: the certificates that it issues to its children       *)
(* (CertAuth in src/daemon/ca/certauth.rs, ChildDetails and                *)
(* ChildCertificates in child.rs, ResourceClass in rc.rs), what of them is *)
(* published, and what is on the CRL (KeyObjectSet in publishing.rs), and  *)
(* how the requests of the children come in (CaManager in manager.rs).     *)
(*                                                                         *)
(* The CA has at most one resource class at a time.  A certificate has a   *)
(* serial number, resources, and the key of the CA that signed it.  It is  *)
(* stored, and published, under the key of the child that it is for.  The  *)
(* serial number is the key of the child and the number of the             *)
(* certificates for that key.                                              *)
(*                                                                         *)
(* A command and its events are atomic here: see AggregateStore, and       *)
(* KeyRoll for what CaObjects makes of them.  A request of a child can     *)
(* take two commands.  No two children have a key in common.               *)
(***************************************************************************)
EXTENDS Naturals

CONSTANTS
    Child,        \* handles of children
    Key,          \* keys of children
    KeysOf,       \* [Child -> SUBSET Key]
    Resource,     \* the resources that there are
    MaxCerts,     \* bound on the certificates for a key
    MaxKeys,      \* bound on the keys of the CA
    MaxClasses,   \* bound on the resource classes, one after the other
    Revoked,      \* UsedKeyState::Revoked
    None

Serial == [key : Key, n : Nat]
Cert == [serial : Serial, resources : SUBSET Resource, signer : Nat]
CAKey == [id : Nat, resources : SUBSET Resource]
Class == Nat \cup {None}
Request == [wake : BOOLEAN, op : {"list", "issue", "revoke"}, key : Key, class : Class \cup {Revoked}]

ASSUME ChildCertsAssumption ==
    /\ KeysOf \in [Child -> SUBSET Key]
    /\ \A c, d \in Child : c # d => KeysOf[c] \cap KeysOf[d] = {}
    /\ MaxCerts \in Nat /\ MaxKeys \in Nat /\ MaxClasses \in Nat
    /\ None \notin Cert \cup CAKey \cup Request \cup Nat \cup {"active", "suspended"}
    /\ Revoked \notin Class

VARIABLES
    class,      \* the resource class, by number, or None
    current,    \* its current key, with the resources of its certificate
    new,        \* its new key during a key roll, likewise, or None
    keys,       \* the number of keys that the CA has had
    classes,    \* the number of classes that the CA has had
    state,      \* the state of each child
    entitled,   \* the resources of each child
    used,       \* used_keys: for each key, the class where it is current
    issued,     \* ChildCertificates: the issued certificates, by key
    suspended,  \* and the suspended ones
    objects,    \* the published certificates and the CRL of the current key
    count,      \* the number of certificates that were made for each key
    request,    \* the request of each child that is being handled
    halted,     \* has a panic left the locks of the store poisoned?
    strayed,    \* history: keys with a suspended certificate left behind
    woken       \* history: serial numbers of unsuspended certificates

caVars == <<class, classes, keys, current, new>>
childVars == <<state, entitled, used>>
certVars == <<issued, suspended, objects>>
vars == <<caVars, childVars, certVars, count, request, halted, strayed, woken>>

NoCerts == [k \in Key |-> None]
KeysIn(certs) == {k \in Key : certs[k] # None}
Put(certs, more) == [k \in Key |-> IF more[k] = None THEN certs[k] ELSE more[k]]
Drop(certs, ks) == [k \in Key |-> IF k \in ks THEN None ELSE certs[k]]
Only(certs, ks) == [k \in Key |-> IF k \in ks THEN certs[k] ELSE None]

-----------------------------------------------------------------------------
(* KeyObjectSet.  A revocation has the time at which it was made: now, for *)
(* the command that is being processed, or in the past.                    *)

NoObjects == [published |-> NoCerts, revoked |-> {}]

Revocation(cert) == [serial |-> cert.serial, date |-> "now"]
Revocations(certs, ks) == {Revocation(certs[k]) : k \in ks \cap KeysIn(certs)}
Passed(revocations) == {[serial |-> r.serial, date |-> "past"] : r \in revocations}

Withdraw(objs, ks) ==
    [published |-> Drop(objs.published, ks),
     revoked   |-> objs.revoked \cup Revocations(objs.published, ks)]

\* Mutants of Publish: what is replaced is not revoked, or the new one is.
PublishSilently(objs, certs) ==
    [published |-> Put(objs.published, certs), revoked |-> objs.revoked]
PublishThenRevoke(objs, certs) ==
    [published |-> Put(objs.published, certs),
     revoked   |-> objs.revoked \cup Revocations(Put(objs.published, certs), KeysIn(certs))]

\* What is replaced is revoked.
Publish(objs, certs) ==
    [published |-> Put(objs.published, certs),
     revoked   |-> objs.revoked \cup Revocations(objs.published, KeysIn(certs))]

\* Revocations::remove looks for an equal revocation, made now.
Unrevoke(objs, certs) ==
    [published |-> objs.published,
     revoked   |-> objs.revoked \ Revocations(certs, Key)]

\* Mutant of UpdateCerts: suspended certificates stay published.
UpdateCertsNotSuspended(objs, up) ==
    LET replaced == Publish(Withdraw(objs, up.remove), up.issue)
        all      == Publish(Unrevoke(replaced, up.unsuspend), up.unsuspend)
    IN  [published |-> all.published, revoked |-> Passed(all.revoked)]

\* KeyObjectSet::update_certs, in its order.
UpdateCerts(objs, up) ==
    LET removed     == Withdraw(objs, up.remove)
        replaced    == Publish(removed, up.issue)
        unsuspended == Publish(Unrevoke(replaced, up.unsuspend), up.unsuspend)
        all         == Withdraw(unsuspended, KeysIn(up.suspend))
    IN  [published |-> all.published, revoked |-> Passed(all.revoked)]

-----------------------------------------------------------------------------
(* Events *)

\* ChildCertificateUpdates
Updates(issue, remove, suspend, unsuspend) ==
    [issue |-> issue, remove |-> remove, suspend |-> suspend, unsuspend |-> unsuspend]
Removing(ks) == Updates(NoCerts, ks, NoCerts, NoCerts)

\* ChildCertificatesUpdated applies what is issued, unsuspended, removed and
\* suspended, in that order.
IssuedAfter(up) ==
    Drop(Put(Put(issued, up.issue), up.unsuspend), up.remove \cup KeysIn(up.suspend))
SuspendedAfter(up) ==
    Put(Drop(suspended, KeysIn(up.unsuspend) \cup up.remove), up.suspend)

Update(up, objs) ==
    /\ issued' = IssuedAfter(up)
    /\ suspended' = SuspendedAfter(up)
    /\ objects' = UpdateCerts(objs, up)
    /\ woken' = woken \cup {up.unsuspend[k].serial : k \in KeysIn(up.unsuspend)}

\* Mutant of Revoke: the child is not told.
RevokeNothing(keyState, ks) == keyState

\* A key whose certificate is removed is revoked.
Revoke(keyState, ks) ==
    [k \in Key |-> IF k \in ks /\ keyState[k] # None THEN Revoked ELSE keyState[k]]

\* New certificates for keys, with the given resources, signed by a key.
Made(ks, resources, signer) ==
    [k \in Key |-> IF k \notin ks THEN None
                   ELSE [serial    |-> [key |-> k, n |-> count[k] + 1],
                         resources |-> resources[k], signer |-> signer]]

\* Numbers the certificates for keys.
Count(ks) ==
    /\ \A k \in ks : count[k] < MaxCerts
    /\ count' = [k \in Key |-> IF k \in ks THEN count[k] + 1 ELSE count[k]]

Known(c) == state[c] # None

\* ChildDetails::issued
Held(c) == {k \in KeysOf[c] : class # None /\ used[k] = class}

-----------------------------------------------------------------------------
(* Managing children *)

AllResources == IF class = None THEN {} ELSE current.resources

ChildAdd(c, resources) ==
    /\ ~halted /\ ~Known(c)
    /\ resources # {} /\ resources \subseteq AllResources
    /\ state' = [state EXCEPT ![c] = "active"]
    /\ entitled' = [entitled EXCEPT ![c] = resources]
    /\ UNCHANGED <<caVars, used, certVars, count, request, halted, strayed, woken>>

\* "This does not yet revoke / reissue / republish anything."
ChildUpdateResources(c, resources) ==
    /\ ~halted /\ Known(c)
    /\ resources \subseteq AllResources /\ resources # entitled[c]
    /\ entitled' = [entitled EXCEPT ![c] = resources]
    /\ UNCHANGED <<caVars, state, used, certVars, count, request, halted, strayed, woken>>

\* Suspended certificates of the child are left where they are.
ChildRemove(c) ==
    /\ ~halted /\ Known(c)
    /\ Update(Removing(Held(c) \cap KeysIn(issued)), objects)
    /\ state' = [state EXCEPT ![c] = None]
    /\ entitled' = [entitled EXCEPT ![c] = {}]
    /\ used' = [k \in Key |-> IF k \in KeysOf[c] THEN None ELSE used[k]]
    /\ strayed' = strayed \cup (Held(c) \cap KeysIn(suspended))
    /\ UNCHANGED <<caVars, count, request, halted>>

\* By the scheduler, for a child that was inactive, or by the operator.
ChildSuspendInactive(c) ==
    /\ ~halted /\ Known(c)
    /\ state[c] = "active" /\ Held(c) # {}
    /\ Update(Updates(NoCerts, {}, Only(issued, Held(c)), NoCerts), objects)
    /\ state' = [state EXCEPT ![c] = "suspended"]
    /\ UNCHANGED <<caVars, entitled, used, count, request, halted, strayed>>

\* Some of the suspended certificates are about to expire.  These, and those
\* that exceed the entitlements, are removed.
ChildUnsuspend(c) ==
    \E expiring \in SUBSET (Held(c) \cap KeysIn(suspended)) :
        LET waiting == Held(c) \cap KeysIn(suspended)
            fit     == {k \in waiting \ expiring : suspended[k].resources \subseteq entitled[c]}
        IN  /\ Update(Updates(NoCerts, waiting \ fit, NoCerts, Only(suspended, fit)), objects)
            /\ used' = Revoke(used, waiting \ fit)
            /\ state' = [state EXCEPT ![c] = "active"]
            /\ UNCHANGED entitled

\* By the operator.
ChildUnsuspendNow(c) ==
    /\ ~halted /\ state[c] = "suspended"
    /\ ChildUnsuspend(c)
    /\ UNCHANGED <<caVars, count, request, halted, strayed>>

-----------------------------------------------------------------------------
(* rfc6492_process_request: the CA is looked up, the child is unsuspended  *)
(* if it was suspended then, and the request is processed.                 *)

\* A child asks for a certificate in the class that it was told of, and
\* revokes a key in the class where it has used it.
RequestStart(c, op, k) ==
    /\ ~halted /\ Known(c) /\ request[c] = None
    /\ request' = [request EXCEPT ![c] =
            [wake |-> state[c] = "suspended", op |-> op, key |-> k,
             class |-> IF op = "revoke" THEN used[k] ELSE class]]
    /\ UNCHANGED <<caVars, childVars, certVars, count, halted, strayed, woken>>

Handling(c) == ~halted /\ request[c] # None
Processing(c, op) == Handling(c) /\ ~request[c].wake /\ request[c].op = op

Answered(c) == request' = [request EXCEPT ![c] = None]

RequestUnsuspend(c) ==
    /\ Handling(c) /\ request[c].wake
    /\ IF Known(c)
       THEN request' = [request EXCEPT ![c] = [wake |-> FALSE, op |-> request[c].op,
                                               key |-> request[c].key, class |-> request[c].class]]
       ELSE Answered(c)
    /\ \/ state[c] = "suspended" /\ ChildUnsuspend(c)
       \/ state[c] # "suspended" /\ UNCHANGED <<childVars, certVars, woken>>
    /\ UNCHANGED <<caVars, count, halted, strayed>>

\* list changes nothing.
RequestList(c) ==
    /\ Processing(c, "list")
    /\ Answered(c)
    /\ UNCHANGED <<caVars, childVars, certVars, count, halted, strayed, woken>>

\* child_certify: the child or the class can be gone by now.
ChildCertify(c) ==
    /\ Processing(c, "issue")
    /\ Answered(c)
    /\ LET k == request[c].key
           possible == Known(c) /\ class # None /\ request[c].class = class
       IN  \/ /\ possible
              /\ Count({k})
              /\ Update(Updates(Made({k}, [x \in Key |-> entitled[c] \cap current.resources],
                                     current.id),
                                {}, NoCerts, NoCerts), objects)
              /\ used' = [used EXCEPT ![k] = class]
              /\ strayed' = IF state[c] = "suspended" THEN strayed \cup {k} ELSE strayed
              /\ UNCHANGED <<state, entitled>>
           \/ ~possible /\ UNCHANGED <<childVars, certVars, count, strayed, woken>>
    /\ UNCHANGED <<caVars, halted>>

\* child_revoke_key: the event is applied to the class, which must be there.
ChildRevokeKey(c) ==
    /\ Processing(c, "revoke")
    /\ Answered(c)
    /\ LET k == request[c].key
           current_use == Known(c) /\ used[k] \notin {None, Revoked}
           there == class # None /\ request[c].class = class
       IN  \/ /\ current_use /\ there
              /\ Update(Removing({k}), objects)
              /\ used' = Revoke(used, {k})
              /\ strayed' = strayed \ {k}
              /\ UNCHANGED <<state, entitled, halted>>
           \/ /\ current_use /\ ~there
              /\ halted' = TRUE
              /\ UNCHANGED <<childVars, certVars, strayed, woken>>
           \/ /\ ~current_use
              /\ UNCHANGED <<childVars, certVars, halted, strayed, woken>>
    /\ UNCHANGED <<caVars, count>>

\* Krill is restarted.  Requests that were being handled are lost.
Restart ==
    /\ halted' = FALSE
    /\ request' = [c \in Child |-> None]
    /\ UNCHANGED <<caVars, childVars, certVars, count, strayed, woken>>

-----------------------------------------------------------------------------
(* The CA's own keys and certificates *)

\* The first certificate for a new class.
AddClass(resources) ==
    /\ ~halted /\ class = None /\ classes < MaxClasses /\ keys < MaxKeys
    /\ class' = classes + 1 /\ classes' = classes + 1 /\ keys' = keys + 1
    /\ current' = [id |-> keys + 1, resources |-> resources]
    /\ UNCHANGED <<new, childVars, certVars, count, request, halted, strayed, woken>>

RemoveClass ==
    /\ ~halted /\ class # None
    /\ class' = None /\ current' = None /\ new' = None
    /\ issued' = NoCerts /\ suspended' = NoCerts /\ objects' = NoObjects
    /\ strayed' = {} /\ woken' = {}
    /\ UNCHANGED <<classes, keys, childVars, count, request, halted>>

\* The certificates that exceed some resources, and what of them is left.
Over(certs, resources) ==
    {k \in KeysIn(certs) : ~(certs[k].resources \subseteq resources)}
Reduced(certs, resources) ==
    [k \in Key |-> IF certs[k] = None THEN {} ELSE certs[k].resources \cap resources]

\* Mutant of ReceiveCert: suspended certificates are left as they are.
ReceiveCertIssuedOnly(resources) ==
    /\ ~halted /\ class # None /\ resources # current.resources
    /\ LET left   == Reduced(issued, resources)
           shrink == {k \in Over(issued, resources) : left[k] # {}}
           remove == Over(issued, resources) \ shrink
       IN  /\ Count(shrink)
           /\ Update(Updates(Made(shrink, left, current.id), remove, NoCerts, NoCerts), objects)
           /\ used' = Revoke(used, remove)
    /\ current' = [id |-> current.id, resources |-> resources]
    /\ UNCHANGED <<class, classes, keys, new, state, entitled, request, halted, strayed>>

\* update_rcvd_cert_current: certificates that exceed the new resources are
\* shrunk, or removed if nothing is left.
ReceiveCert(resources) ==
    /\ ~halted /\ class # None /\ resources # current.resources
    /\ LET left    == Reduced(issued, resources)
           kept    == Reduced(suspended, resources)
           shrink  == {k \in Over(issued, resources) : left[k] # {}}
           hold    == {k \in Over(suspended, resources) : kept[k] # {}}
           remove  == (Over(issued, resources) \ shrink) \cup (Over(suspended, resources) \ hold)
       IN  /\ Count(shrink \cup hold)
           /\ Update(Updates(Made(shrink, left, current.id), remove,
                             Made(hold, kept, current.id), NoCerts), objects)
           /\ used' = Revoke(used, remove)
    /\ current' = [id |-> current.id, resources |-> resources]
    /\ UNCHANGED <<class, classes, keys, new, state, entitled, request, halted, strayed>>

\* The first certificate for a new key, or a later one.
ReceiveNewCert(resources) ==
    /\ ~halted /\ class # None
    /\ \/ /\ new = None /\ keys < MaxKeys
          /\ keys' = keys + 1 /\ new' = [id |-> keys + 1, resources |-> resources]
       \/ /\ new # None /\ UNCHANGED keys
          /\ new' = [id |-> new.id, resources |-> resources]
    /\ UNCHANGED <<class, classes, current, childVars, certVars, count, request, halted, strayed, woken>>

\* keyroll_activate: all certificates are made anew by the new key, which is
\* refused if one of them has resources that the new key does not have.
KeyRollActivate ==
    /\ ~halted /\ new # None
    /\ Over(issued, new.resources) \cup Over(suspended, new.resources) = {}
    /\ Count(KeysIn(issued) \cup KeysIn(suspended))
    /\ Update(Updates(Made(KeysIn(issued), Reduced(issued, new.resources), new.id), {},
                      Made(KeysIn(suspended), Reduced(suspended, new.resources), new.id),
                      NoCerts),
              NoObjects)
    /\ current' = new /\ new' = None
    /\ UNCHANGED <<class, classes, keys, childVars, request, halted, strayed>>

-----------------------------------------------------------------------------
Init ==
    /\ class = None /\ current = None /\ new = None /\ keys = 0 /\ classes = 0
    /\ state = [c \in Child |-> None]
    /\ entitled = [c \in Child |-> {}]
    /\ used = [k \in Key |-> None]
    /\ issued = NoCerts /\ suspended = NoCerts /\ objects = NoObjects
    /\ count = [k \in Key |-> 0]
    /\ request = [c \in Child |-> None]
    /\ halted = FALSE
    /\ strayed = {} /\ woken = {}

ChildOp(c) ==
    \/ \E resources \in SUBSET Resource :
          ChildAdd(c, resources) \/ ChildUpdateResources(c, resources)
    \/ ChildRemove(c) \/ ChildSuspendInactive(c) \/ ChildUnsuspendNow(c)
    \/ \E op \in {"list", "issue", "revoke"}, k \in KeysOf[c] : RequestStart(c, op, k)
    \/ RequestUnsuspend(c) \/ RequestList(c) \/ ChildCertify(c) \/ ChildRevokeKey(c)

Next ==
    \/ \E c \in Child : ChildOp(c)
    \/ \E resources \in SUBSET Resource \ {{}} :
          AddClass(resources) \/ ReceiveCert(resources) \/ ReceiveNewCert(resources)
    \/ RemoveClass \/ KeyRollActivate \/ Restart

Spec == Init /\ [][Next]_vars

-----------------------------------------------------------------------------
(* Properties *)

\* Every variable has its type, and there is a current key iff there is a class.
TypeOK ==
    /\ class \in Class /\ classes \in Nat /\ keys \in Nat
    /\ current \in CAKey \cup {None} /\ new \in CAKey \cup {None}
    /\ current = None <=> class = None
    /\ state \in [Child -> {"active", "suspended", None}]
    /\ entitled \in [Child -> SUBSET Resource]
    /\ used \in [Key -> Class \cup {Revoked}]
    /\ issued \in [Key -> Cert \cup {None}] /\ suspended \in [Key -> Cert \cup {None}]
    /\ objects \in [published : [Key -> Cert \cup {None}],
                    revoked   : SUBSET [serial : Serial, date : {"past"}]]
    /\ count \in [Key -> Nat]
    /\ request \in [Child -> Request \cup {None}]
    /\ halted \in BOOLEAN
    /\ strayed \subseteq Key /\ woken \subseteq Serial

\* What is published for a key is what is issued for it.  (Away from keys for
\* which a suspended certificate was left behind: when the child was removed,
\* or when it was suspended between the start of its request and the new
\* certificate.  Then the removal of the old one can come before the new one
\* in CaObjects, and after it in the CA.)
PublishedIsIssued ==
    \A k \in Key \ strayed : objects.published[k] = issued[k]

\* No certificate, issued or suspended, claims more than the current key has,
\* and all of them are signed by that key.
NoneOverclaims ==
    \A certs \in {issued, suspended} : \A k \in KeysIn(certs) :
        /\ certs[k].resources \subseteq current.resources
        /\ certs[k].signer = current.id

\* No published certificate is on the CRL, unless it was suspended once.
PublishedNotRevoked ==
    \A k \in KeysIn(objects.published) : \A r \in objects.revoked :
        r.serial = objects.published[k].serial => r.serial \in woken

\* A key has an issued certificate iff it is in use by an active child, and a
\* suspended one iff it is in use by a suspended child.
CertsFollowChild ==
    \A c \in Child : \A k \in KeysOf[c] \ strayed :
        /\ issued[k] # None <=> state[c] = "active" /\ k \in Held(c)
        /\ suspended[k] # None <=> state[c] = "suspended" /\ k \in Held(c)

\* As long as the key of the CA is used, a certificate that is no longer
\* published is on the CRL, and stays there.
WithdrawnIsRevoked ==
    [][current # None /\ current' # None /\ current'.id = current.id =>
          /\ objects.revoked \subseteq objects'.revoked
          /\ \A k \in KeysIn(objects.published) :
                objects'.published[k] # objects.published[k] =>
                    [serial |-> objects.published[k].serial, date |-> "past"] \in objects'.revoked]_vars

\* "Applies the event to this. This MUST not result in any errors"
\* (Aggregate::apply, src/commons/eventsourcing/agg.rs).
EventsApply == ~halted
=============================================================================
