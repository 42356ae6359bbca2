-------------------------- MODULE PublicationServer --------------------------
(***************************************************************************)
(* The publication server: RepositoryManager in src/pubd/manager.rs over   *)
(* RepositoryAccess (which publishers there are) and RepositoryContent     *)
(* (what each has published, and the RRDP state derived from it) in        *)
(* src/pubd/repository.rs.                                                 *)
(*                                                                         *)
(* An object is a pair [uri, hash].  CurrentObjects, of a publisher and of *)
(* the RRDP snapshot alike, is a map keyed by hash: a set of objects in    *)
(* which no two have the same hash.  An element of a delta replaces the    *)
(* hash `old' by the hash `new' at a URI: a publish has no old hash, a     *)
(* withdraw no new one, an update has both.  A delta has at most one       *)
(* element per URI, as have the staged elements, which are keyed by URI.   *)
(*                                                                         *)
(* Requests are handled by Handlers that interleave.  Every command on     *)
(* RepositoryAccess and on RepositoryContent is atomic (see WalStore), but *)
(* a request takes several: `publish' checks the publisher, then verifies  *)
(* the delta on the content it finds, then sends the command that applies  *)
(* it; creating and removing a publisher takes one command on each store.  *)
(***************************************************************************)
EXTENDS Integers, Sequences, FiniteSets, RrdpRetention

CONSTANTS
    Publisher,      \* publisher handles
    Uri,            \* URIs of objects
    Content,        \* hashes of contents
    Jail,           \* [Publisher -> SUBSET Uri], base_uri of each publisher
    ContentOf,      \* [Uri -> SUBSET Content], what may be published there
    Handler,        \* request handlers
    KrillCa,        \* the publishers that are Krill CAs; others send any delta
    MaxSerial,      \* bound on the RRDP serial
    NoHash          \* neither a hash nor a URI

ASSUME PublicationServerAssumption ==
    /\ Jail \in [Publisher -> SUBSET Uri]
    /\ \A p, q \in Publisher : p # q => Jail[p] \cap Jail[q] = {}
    /\ ContentOf \in [Uri -> SUBSET Content]
    /\ \A u, v \in Uri : u # v => ContentOf[u] \cap ContentOf[v] = {}
    /\ KrillCa \subseteq Publisher
    /\ MaxSerial \in Nat \ {0}
    /\ NoHash \notin Content

VARIABLES
    access,      \* the publishers of RepositoryAccess
    publishers,  \* the publishers of RepositoryContent, with their objects
    snapshot,    \* the objects of the RRDP snapshot
    staged,      \* staged_elements, by URI
    deltas,      \* the retained deltas, newest first
    serial,      \* the serial in the current session
    handler,     \* the request each handler is working on
    past,        \* history: the snapshots that the retained deltas lead from and to
    doubtful     \* history: URIs at which the bookkeeping went astray

rrdp == <<snapshot, staged, deltas, serial, past>>
vars == <<access, publishers, rrdp, handler, doubtful>>

Object == [uri : Uri, hash : Content]
Element == [old : Content \cup {NoHash}, new : Content \cup {NoHash}]

IsPublish(e) == e.old = NoHash
IsWithdraw(e) == e.new = NoHash
IsUpdate(e) == ~IsPublish(e) /\ ~IsWithdraw(e)

Idle == [op |-> "idle"]

-----------------------------------------------------------------------------
(* Deltas *)

\* CurrentObjects::verify_delta.  A publish is refused if its content is
\* present, whatever the URI.
VerifyElement(objects, u, e) ==
    IF IsPublish(e) THEN \A o \in objects : o.hash # e.new
                    ELSE [uri |-> u, hash |-> e.old] \in objects

VerifyDelta(objects, jail, delta) ==
    \A u \in DOMAIN delta : u \in jail /\ VerifyElement(objects, u, delta[u])

\* CurrentObjects::apply_delta, on a map keyed by hash.
ApplyDelta(objects, delta) ==
    LET removed  == {delta[u].old : u \in DOMAIN delta}
        arriving == {u \in DOMAIN delta : ~IsWithdraw(delta[u])}
        added    == {[uri |-> u, hash |-> delta[u].new] : u \in arriving}
    IN  {o \in objects : o.hash \notin removed
                         /\ \A a \in added : a.hash # o.hash} \cup added

\* An update or publish that follows a staged update or withdraw keeps its
\* own hash in place of the one that is staged.
RestageForgetsHash(s, e) ==
    IF IsUpdate(e) /\ IsPublish(s) THEN [old |-> NoHash, new |-> e.new] ELSE e

\* RrdpServer::apply_rrdp_staged for one element e that follows a staged
\* element s at the same URI.
Restage(s, e) ==
    IF \/ IsPublish(e) /\ IsWithdraw(s)
       \/ IsUpdate(e) /\ ~IsWithdraw(s)
    THEN [old |-> s.old, new |-> e.new]
    ELSE e

\* RrdpServer::apply_rrdp_staged for a delta.
Stage(delta) ==
    [u \in DOMAIN staged \cup DOMAIN delta |->
        IF u \notin DOMAIN delta THEN staged[u]
        ELSE IF u \in DOMAIN staged THEN Restage(staged[u], delta[u])
        ELSE delta[u]]

\* Deltas for the publisher's own URIs and contents.
OwnDeltas(p) ==
    LET hashes == {NoHash} \cup UNION {ContentOf[u] : u \in Jail[p]}
    IN  UNION {[us -> [old : hashes, new : hashes]] : us \in SUBSET Jail[p]}

\* The deltas that a Krill CA with the list reply `objects' can send, for
\* whatever it wants to be published (CaManager::ca_repo_sync).  The list is
\* collected in a map keyed by URI.
SyncDeltas(p, objects) ==
    LET listed == {u \in Jail[p] : \E o \in objects : o.uri = u}
        Replaces(u, e) ==
            IF u \in listed
            THEN [uri |-> u, hash |-> e.old] \in objects /\ e.new # e.old
            ELSE IsPublish(e) /\ ~IsWithdraw(e)
    IN  {d \in OwnDeltas(p) :
            \A u \in DOMAIN d :
                Replaces(u, d[u]) /\ d[u].new \in ContentOf[u] \cup {NoHash}}

\* Any delta for the publisher's own URIs.
AnyDeltas(p) ==
    {d \in OwnDeltas(p) :
        \A u \in DOMAIN d : /\ {d[u].old, d[u].new} \subseteq ContentOf[u] \cup {NoHash}
                            /\ d[u].old # d[u].new}

DeltasOf(p) == {d \in IF p \in KrillCa THEN SyncDeltas(p, publishers[p])
                                       ELSE AnyDeltas(p) : DOMAIN d # {}}

\* The URIs of a delta at which it does not fit the objects it is applied to:
\* a publish where there is an object, or an update or withdraw of an object
\* that is not there; and at which a withdraw undoes a staged change.
Misfits(objects, delta) ==
    {u \in DOMAIN delta :
        \/ IF IsPublish(delta[u]) THEN \E o \in objects : o.uri = u
           ELSE [uri |-> u, hash |-> delta[u].old] \notin objects
        \/ u \in DOMAIN staged /\ IsWithdraw(delta[u])}

-----------------------------------------------------------------------------
(* Publishing: RepositoryManager::rfc8181_message and publish *)

\* The handler looks up the publisher in RepositoryAccess.
PublishStart(r, p) ==
    /\ handler[r] = Idle
    /\ p \in access
    /\ handler' = [handler EXCEPT ![r] = [op |-> "publish", publisher |-> p]]
    /\ UNCHANGED <<access, publishers, rrdp, doubtful>>

\* RepositoryContentProxy::publish gets the content and verifies the delta on
\* it; nothing is locked.  A delta that is refused, or a publisher that is
\* not known to RepositoryContent, ends the request.
PublishVerify(r) ==
    /\ handler[r].op = "publish"
    /\ LET p == handler[r].publisher
       IN  IF p \in DOMAIN publishers
           THEN \E d \in DeltasOf(p) :
                   handler' = [handler EXCEPT ![r] =
                       IF VerifyDelta(publishers[p], Jail[p], d)
                       THEN [op |-> "commit", publisher |-> p, delta |-> d]
                       ELSE Idle]
           ELSE handler' = [handler EXCEPT ![r] = Idle]
    /\ UNCHANGED <<access, publishers, rrdp, doubtful>>

\* RepositoryContent::publish, the command on the content as it is by then.
PublishCommit(r) ==
    /\ handler[r].op = "commit"
    /\ LET p == handler[r].publisher
           d == handler[r].delta
       IN  IF p \in DOMAIN publishers
           THEN /\ publishers' = [publishers EXCEPT ![p] = ApplyDelta(@, d)]
                /\ staged' = Stage(d)
                /\ doubtful' = doubtful \cup Misfits(publishers[p], d)
           ELSE UNCHANGED <<publishers, staged, doubtful>>
    /\ handler' = [handler EXCEPT ![r] = Idle]
    /\ UNCHANGED <<access, snapshot, deltas, serial, past>>

-----------------------------------------------------------------------------
(* Managing publishers *)

\* create_publisher: RepositoryAccess first, which refuses a duplicate.
CreateAccess(r, p) ==
    /\ handler[r] = Idle
    /\ p \notin access
    /\ access' = access \cup {p}
    /\ handler' = [handler EXCEPT ![r] = [op |-> "create", publisher |-> p]]
    /\ UNCHANGED <<publishers, rrdp, doubtful>>

\* RepositoryContent::add_publisher: inserts an empty set of objects,
\* whatever was there.
CreateContent(r) ==
    /\ handler[r].op = "create"
    /\ LET p == handler[r].publisher
       IN  /\ publishers' = [q \in DOMAIN publishers \cup {p} |->
                                IF q = p THEN {} ELSE publishers[q]]
           /\ doubtful' = doubtful \cup
                  {u \in Uri : /\ p \in DOMAIN publishers
                               /\ \E o \in publishers[p] : o.uri = u}
    /\ handler' = [handler EXCEPT ![r] = Idle]
    /\ UNCHANGED <<access, rrdp>>

\* remove_publisher: RepositoryContent first.  All objects of the publisher
\* are withdrawn.  Of two objects at one URI the last one in the order of the
\* hash map stays staged.
RemoveContent(r, p) ==
    /\ handler[r] = Idle
    /\ IF p \in DOMAIN publishers
       THEN \E d \in [{o.uri : o \in publishers[p]} -> [old : Content, new : {NoHash}]] :
               /\ \A u \in DOMAIN d : [uri |-> u, hash |-> d[u].old] \in publishers[p]
               /\ staged' = Stage(d)
               /\ doubtful' = doubtful \cup Misfits(publishers[p], d)
               /\ publishers' = [q \in DOMAIN publishers \ {p} |-> publishers[q]]
       ELSE UNCHANGED <<publishers, staged, doubtful>>
    /\ handler' = [handler EXCEPT ![r] = [op |-> "remove", publisher |-> p]]
    /\ UNCHANGED <<access, snapshot, deltas, serial, past>>

\* RepositoryAccess::remove_publisher, which refuses an unknown publisher.
RemoveAccess(r) ==
    /\ handler[r].op = "remove"
    /\ access' = access \ {handler[r].publisher}
    /\ handler' = [handler EXCEPT ![r] = Idle]
    /\ UNCHANGED <<publishers, rrdp, doubtful>>

-----------------------------------------------------------------------------
(* The RRDP state *)

\* The deltas after a new delta with the staged elements.
\* RrdpServer::find_deltas_truncate_age (the ages of the deltas are any that
\* grow with their position: the first `young' are young, the ones after
\* `notOld' are old), push_front, deltas_truncate_size.  Objects have
\* size one, and the size of a delta is that of its publishes and updates.
KeptDeltas(new, newSnapshot, young, notOld) ==
    LET keep == KeepByAge(Len(deltas), 1 .. young, notOld + 1 .. Len(deltas))
        ds   == <<new>> \o SubSeq(deltas, 1, keep)
        Size(d) == Cardinality({u \in DOMAIN d.elements : ~IsWithdraw(d.elements[u])})
        sizes == [i \in 1 .. Len(ds) |-> Size(ds[i])]
    IN  SubSeq(ds, 1, KeepBySize(sizes, Cardinality(newSnapshot)))

\* The staged elements become the new delta, but stay staged.
UpdateRrdpKeepsStaged ==
    /\ staged # << >>
    /\ serial < MaxSerial
    /\ serial' = serial + 1
    /\ snapshot' = ApplyDelta(snapshot, staged)
    /\ \E young \in 0 .. Len(deltas) : \E notOld \in young .. Len(deltas) :
          deltas' = KeptDeltas([serial |-> serial', elements |-> staged],
                               snapshot', young, notOld)
    /\ past' = [s \in serial' - Len(deltas') .. serial' |->
                    IF s = serial' THEN snapshot' ELSE past[s]]
    /\ UNCHANGED <<access, publishers, staged, handler, doubtful>>

\* RepositoryManager::update_rrdp_if_needed, when rrdp_delta_interval_min has
\* passed: the command CreateRrdpDelta, RrdpServer::apply_rrdp_updated.
UpdateRrdp ==
    /\ staged # << >>
    /\ serial < MaxSerial
    /\ serial' = serial + 1
    /\ snapshot' = ApplyDelta(snapshot, staged)
    /\ \E young \in 0 .. Len(deltas) : \E notOld \in young .. Len(deltas) :
          deltas' = KeptDeltas([serial |-> serial', elements |-> staged],
                               snapshot', young, notOld)
    /\ staged' = << >>
    /\ past' = [s \in serial' - Len(deltas') .. serial' |->
                    IF s = serial' THEN snapshot' ELSE past[s]]
    /\ UNCHANGED <<access, publishers, handler, doubtful>>

\* A session reset that leaves the deltas of the old session in place.
SessionResetKeepsDeltas ==
    /\ serial' = 1
    /\ past' = [s \in {1} |-> snapshot]
    /\ UNCHANGED <<access, publishers, snapshot, staged, deltas, handler, doubtful>>

\* RrdpServer::reset_session and apply_session_reset.  The staged elements
\* stay.  Of the session id, which is random, only the files make use (see
\* RrdpFiles).
SessionReset ==
    /\ serial' = 1
    /\ deltas' = << >>
    /\ past' = [s \in {1} |-> snapshot]
    /\ UNCHANGED <<access, publishers, snapshot, staged, handler, doubtful>>

\* Krill stops and starts again: what the handlers were working on is lost.
Restart ==
    /\ handler' = [r \in Handler |-> Idle]
    /\ UNCHANGED <<access, publishers, rrdp, doubtful>>

\* RepositoryContent::init and RrdpServer::create.
Init ==
    /\ access = {} /\ publishers = << >>
    /\ snapshot = {} /\ staged = << >> /\ deltas = << >>
    /\ serial = 1 /\ past = [s \in {1} |-> {}]
    /\ handler = [r \in Handler |-> Idle]
    /\ doubtful = {}

Request(r, p) == PublishStart(r, p) \/ CreateAccess(r, p) \/ RemoveContent(r, p)
Continue(r) == PublishVerify(r) \/ PublishCommit(r) \/ CreateContent(r) \/ RemoveAccess(r)

Next ==
    \/ \E r \in Handler : Continue(r) \/ \E p \in Publisher : Request(r, p)
    \/ UpdateRrdp \/ SessionReset \/ Restart

Spec == Init /\ [][Next]_vars

-----------------------------------------------------------------------------
(* Properties *)

At(objects, u) == {o \in objects : o.uri = u}

Delta == UNION {[us -> Element] : us \in SUBSET Uri}

HandlerState ==
    [op : {"idle"}]
    \cup [op : {"publish", "create", "remove"}, publisher : Publisher]
    \cup [op : {"commit"}, publisher : Publisher, delta : Delta]

\* Every variable has its type; the publishers' objects are keyed by hash.
TypeOK ==
    /\ access \subseteq Publisher
    /\ DOMAIN publishers \subseteq Publisher
    /\ \A p \in DOMAIN publishers : publishers[p] \subseteq [uri : Jail[p], hash : Content]
    /\ snapshot \subseteq Object
    /\ staged \in Delta
    /\ serial \in 1 .. MaxSerial
    /\ deltas \in Seq([serial : 1 .. MaxSerial, elements : Delta])
    /\ handler \in [Handler -> HandlerState]
    /\ past \in [serial - Len(deltas) .. serial -> SUBSET Object]
    /\ doubtful \subseteq Uri

\* What the RRDP server will serve once the staged elements are in a delta
\* is what the publishers have published: at every URI, the snapshot with the
\* staged elements applied holds the objects that the publishers have there.
\* It relies on apply_rrdp_staged folding a publish or an update into what is
\* staged already; the URIs at which it does not are exempt.
RrdpFollowsPublishers ==
    \A u \in Uri \ doubtful :
        At(ApplyDelta(snapshot, staged), u)
            = UNION {At(publishers[p], u) : p \in DOMAIN publishers}

\* The same without exemption: "deltas are verified when they are submitted"
\* (SnapshotData::with_delta), so that applying the staged elements cannot
\* go wrong.
RrdpAlwaysFollowsPublishers ==
    \A u \in Uri :
        At(ApplyDelta(snapshot, staged), u)
            = UNION {At(publishers[p], u) : p \in DOMAIN publishers}

\* The retained deltas are the last ones of this session without a gap, and
\* each turns the snapshot of the serial before it into that of its own: a
\* relying party that has an earlier serial and applies the deltas from there
\* gets the current snapshot.
DeltasLeadToSnapshot ==
    /\ past[serial] = snapshot
    /\ \A i \in 1 .. Len(deltas) :
          /\ deltas[i].serial = serial - i + 1
          /\ past[serial - i + 1] = ApplyDelta(past[serial - i], deltas[i].elements)

\* A relying party accepts every retained delta (RFC 8182, 3.4.2): a publish
\* is of a URI that it does not have, an update or withdraw is of an object
\* that it has.  apply_rrdp_updated takes the delta from the staged elements.
Acceptable(objects, u, e) ==
    IF IsPublish(e) THEN At(objects, u) = {}
                    ELSE At(objects, u) = {[uri |-> u, hash |-> e.old]}

DeltasAcceptable ==
    \A i \in 1 .. Len(deltas) : \A u \in DOMAIN deltas[i].elements \ doubtful :
        Acceptable(past[deltas[i].serial - 1], u, deltas[i].elements[u])
=============================================================================
