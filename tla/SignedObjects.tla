--------------------------- MODULE SignedObjects ---------------------------
(***************************************************************************)
(* What a CA signs for its operator: ROAs (Roas in src/daemon/ca/routes.rs)*)
(* for the route authorizations, ASPA objects (AspaObjects in aspa.rs) and *)
(* BGPSec router certificates (BgpSecCertificates in bgpsec.rs), how these *)
(* follow the definitions (CertAuth in certauth.rs) and the certificate of *)
(* the current key (ResourceClass in rc.rs), and what of them CaObjects    *)
(* publishes (publishing.rs).                                              *)
(*                                                                         *)
(* There is at most one resource class.  Of a key roll only that matters   *)
(* here which touches these objects: the certificate of the new key, and   *)
(* its activation; KeyRoll has the rest, and what a crash does to it.  An  *)
(* object is what it says, the key that signed it, and whether it is due   *)
(* to be renewed.  It is known by its name, in the CA and where it is      *)
(* published.  Serial numbers and the CRL are as in ChildCerts.            *)
(*                                                                         *)
(* The three families of objects have nothing to do with each other, so    *)
(* in a behaviour the operator has definitions of one family.              *)
(***************************************************************************)
EXTENDS Naturals, FiniteSets

CONSTANTS
    Asn, Prefix,    \* the resources
    Provider,       \* providers in ASPA definitions
    Router,         \* router keys in BGPSec definitions
    RouterAsn,      \* [Router -> Asn], the AS that each is used for
    Aggregate,      \* roa_aggregate_threshold
    Deaggregate,    \* roa_deaggregate_threshold
    MaxKeys,        \* bound on the keys of the CA
    MaxCrashes,     \* bound on the crashes
    MaxClasses,     \* bound on the times that the class is there
    Keep, Drop,     \* what an update does to an object that it does not issue
    None

Route   == [asn : Asn, prefix : Prefix]
Payload == SUBSET (Route \cup Provider \cup Router)
Object  == [payload : Payload, signer : 1 .. MaxKeys, due : BOOLEAN]
CAKey   == [id : 1 .. MaxKeys, resources : SUBSET (Prefix \cup Asn)]
Family  == {"roa", "aspa", "bgpsec"}

ASSUME SignedObjectsAssumption ==
    /\ \A rs \in SUBSET Route : Cardinality(rs) \in Nat   \* routes can be counted
    /\ RouterAsn \in [Router -> Asn]
    /\ Aggregate \in Nat /\ Deaggregate \in Nat
    /\ MaxKeys \in Nat /\ MaxCrashes \in Nat /\ MaxClasses \in Nat
    /\ Keep # Drop
    /\ \A p \in Payload : p \notin {Keep, Drop, None}
    /\ \A o \in Object : o # None
    /\ \A k \in CAKey : k # None

VARIABLES
    routes,     \* CertAuth: the route authorizations
    aspas,      \* CertAuth: the providers of each customer AS, or None
    routers,    \* CertAuth: the BGPSec definitions
    current,    \* the current key, with the resources of its certificate
    new,        \* the new key during a key roll, likewise, or None
    keys,       \* the number of keys that the CA has had
    classes,    \* the number of times that it has had the class
    issued,     \* ResourceClass: the objects, by name
    published,  \* CaObjects: the objects of the current key, by name
    focus,      \* the family of objects that the operator has definitions for
    crashes,
    ahead,      \* history: names with a change that was lost with a crash
    stale       \* history: families that do not follow the definitions

defVars == <<routes, aspas, routers>>
keyVars == <<current, new, keys, classes>>
objVars == <<issued, published, ahead>>
vars == <<defVars, keyVars, objVars, focus, crashes, stale>>

-----------------------------------------------------------------------------
(* Objects and their names *)

SimpleName(r)    == <<"simple", r>>
AggregateName(a) == <<"aggregate", a>>
AspaName(a)      == <<"aspa", a>>
RouterName(b)    == <<"bgpsec", b>>

SimpleNames    == {SimpleName(r) : r \in Route}
AggregateNames == {AggregateName(a) : a \in Asn}
AspaNames      == {AspaName(a) : a \in Asn}
RouterNames    == {RouterName(b) : b \in Router}
RoaNames       == SimpleNames \cup AggregateNames
Name           == RoaNames \cup AspaNames \cup RouterNames

NamesOf(family) ==
    IF family = "roa" THEN RoaNames ELSE IF family = "aspa" THEN AspaNames ELSE RouterNames

NoObjects == [n \in Name |-> None]

Says(n) == IF issued[n] = None THEN None ELSE issued[n].payload
Removed(n) == IF issued[n] = None THEN Keep ELSE Drop

-----------------------------------------------------------------------------
(* An update tells for each name whether its object is kept, dropped, or   *)
(* issued with a payload.                                                  *)

NoUpdate == [n \in Name |-> Keep]
Touched(up) == {n \in Name : up[n] # Keep}

\* Objects after an update, in the CA and in CaObjects alike.
Apply(objects, up, key) ==
    [n \in Name |-> IF up[n] = Keep THEN objects[n]
                    ELSE IF up[n] = Drop THEN None
                    ELSE [payload |-> up[n], signer |-> key.id, due |-> FALSE]]

\* Routes::filter
Relevant(rs, key) == {r \in rs : r.prefix \in key.resources}

\* is_currently_aggregating.  There are no aggregates with a group.
Aggregating == \E a \in Asn : issued[AggregateName(a)] # None

RoaMode(counted) ==
    IF Aggregating
    THEN IF counted # {} /\ Cardinality(counted) < Deaggregate THEN "stop" ELSE "aggregate"
    ELSE IF counted # {} /\ Cardinality(counted) > Aggregate THEN "start" ELSE "simple"

\* update_simple, update_stop_aggregating, update_start_aggregating and
\* update_aggregate: a simple ROA is issued for each route, or an aggregate for
\* each AS; when this changes all the others are removed.
SimpleChange(mode, relevant, n) ==
    IF mode = "start" \/ (mode # "aggregate" /\ n[2] \notin relevant) THEN Removed(n)
    ELSE IF mode # "aggregate" /\ issued[n] = None THEN {n[2]}
    ELSE Keep

AggregateChange(mode, relevant, n) ==
    LET desired == {r \in relevant : r.asn = n[2]}
    IN  IF mode = "stop" \/ (mode # "simple" /\ desired = {}) THEN Removed(n)
        ELSE IF mode # "simple" /\ Says(n) # desired THEN desired
        ELSE Keep

RoaUpdateIn(mode, relevant) ==
    [n \in RoaNames |-> IF n \in SimpleNames THEN SimpleChange(mode, relevant, n)
                                             ELSE AggregateChange(mode, relevant, n)]

\* Mutants of RoaUpdate: simple ROAs stay when aggregation starts; the ROAs are
\* counted, and not the routes.
RoaUpdateKeepsSimple(rs, key) ==
    LET mode == RoaMode(Relevant(rs, key))
    IN  RoaUpdateIn(IF mode = "start" THEN "aggregate" ELSE mode, Relevant(rs, key))
RoaUpdateCountsRoas(rs, key) ==
    RoaUpdateIn(RoaMode({n \in RoaNames : issued[n] # None}), Relevant(rs, key))

\* Roas::update
RoaUpdate(rs, key) ==
    LET relevant == Relevant(rs, key)
    IN  RoaUpdateIn(RoaMode(relevant), relevant)

\* Mutant of AspaUpdate: an object that is there is not compared.
AspaUpdateMissingOnly(as, key) ==
    [n \in AspaNames |->
        IF as[n[2]] = None \/ n[2] \notin key.resources THEN Removed(n)
        ELSE IF issued[n] = None THEN as[n[2]] ELSE Keep]

\* AspaObjects::update
AspaUpdate(as, key) ==
    [n \in AspaNames |->
        IF as[n[2]] = None \/ n[2] \notin key.resources THEN Removed(n)
        ELSE IF Says(n) # as[n[2]] THEN as[n[2]] ELSE Keep]

\* BgpSecCertificates::update
RouterUpdate(bs, key) ==
    [n \in RouterNames |->
        IF n[2] \notin bs \/ RouterAsn[n[2]] \notin key.resources THEN Removed(n)
        ELSE IF issued[n] = None THEN {n[2]} ELSE Keep]

\* An update of one family, or of all three.
Only(family, up) == [n \in Name |-> IF n \in NamesOf(family) THEN up[n] ELSE Keep]
UpdateAll(key) ==
    LET roas  == RoaUpdate(routes, key)
        asps  == AspaUpdate(aspas, key)
        certs == RouterUpdate(routers, key)
    IN  [n \in Name |-> IF n \in RoaNames THEN roas[n]
                        ELSE IF n \in AspaNames THEN asps[n] ELSE certs[n]]

\* Roas::renew, AspaObjects::renew, BgpSecCertificates::renew: objects are
\* issued again with what they say, whatever the resources of the key are.
Renewed(names) == [n \in Name |-> IF n \in names THEN issued[n].payload ELSE Keep]

Issued(family) == {n \in NamesOf(family) : issued[n] # None}
Due(family)    == {n \in Issued(family) : issued[n].due}

-----------------------------------------------------------------------------
(* Commands.  CaObjects saves its objects before the CA saves its events.  *)

Saved(up, key) ==
    /\ issued' = Apply(issued, up, key)
    /\ published' = Apply(published, up, key)
    /\ ahead' = ahead \ Touched(up)
    /\ UNCHANGED crashes

Crashed(up, key) ==
    /\ crashes < MaxCrashes /\ crashes' = crashes + 1
    /\ published' = Apply(published, up, key)
    /\ ahead' = ahead \cup Touched(up)
    /\ UNCHANGED issued

\* The update of a family, if there is a current key.
Change(family, up) == IF current = None THEN NoUpdate ELSE Only(family, up)

AllResources == IF current = None THEN {} ELSE current.resources

\* route_authorizations_update and update_authorizations.  Anything else than
\* this is refused as a whole.
RoutesUpdate(added, removed) ==
    /\ removed \subseteq routes
    /\ added \cap (routes \ removed) = {}
    /\ \A r \in added : r.prefix \in AllResources
    /\ LET desired == (routes \ removed) \cup added
           up == Change("roa", RoaUpdate(desired, current))
       IN  \/ /\ Saved(up, current)
              /\ routes' = desired
              /\ stale' = stale \ {"roa"}
           \/ Crashed(up, current) /\ UNCHANGED <<routes, stale>>
    /\ UNCHANGED <<aspas, routers, keyVars, focus>>

\* aspas_definitions_update: `add' has the providers of the customers that are
\* added or replaced.  If a customer is removed and added in one update the
\* objects follow the definition that is added, but the events are made with
\* the one that was there: if the two are equal the definition is gone
\* afterwards.  (If they are not, the events cannot be applied, and nothing is
\* changed.)
AspaDefinitionsUpdate(add, remove) ==
    /\ \A a \in remove : aspas[a] # None /\ add[a] \in {None, aspas[a]}
    /\ \A a \in Asn : add[a] # None => a \in AllResources
    /\ LET desired == [a \in Asn |-> IF add[a] # None THEN add[a]
                                     ELSE IF a \in remove THEN None ELSE aspas[a]]
           up == Change("aspa", AspaUpdate(desired, current))
       IN  \/ /\ Saved(up, current)
              /\ aspas' = [a \in Asn |-> IF a \in remove THEN None ELSE desired[a]]
              /\ stale' = (stale \ {"aspa"}) \cup
                          (IF \E a \in remove : add[a] # None THEN {"aspa"} ELSE {})
           \/ Crashed(up, current) /\ UNCHANGED <<aspas, stale>>
    /\ UNCHANGED <<routes, routers, keyVars, focus>>

\* aspas_update and verify_update: providers of a customer that is known.
AspasUpdate(a, added, removed) ==
    /\ added # {} \/ removed # {}
    /\ a \in AllResources /\ aspas[a] # None
    /\ removed \subseteq aspas[a] /\ added \cap aspas[a] = {}
    /\ LET desired == [aspas EXCEPT ![a] = (@ \ removed) \cup added]
           up == Change("aspa", AspaUpdate(desired, current))
       IN  \/ /\ Saved(up, current)
              /\ aspas' = desired
              /\ stale' = stale \ {"aspa"}
           \/ Crashed(up, current) /\ UNCHANGED <<aspas, stale>>
    /\ UNCHANGED <<routes, routers, keyVars, focus>>

\* bgpsec_definitions_update.  A definition that is there is replaced.
BgpsecUpdate(added, removed) ==
    /\ removed \subseteq routers
    /\ \A b \in added : RouterAsn[b] \in AllResources
    /\ LET desired == (routers \ removed) \cup added
           up == Change("bgpsec", RouterUpdate(desired, current))
       IN  \/ /\ Saved(up, current)
              /\ routers' = desired
              /\ stale' = stale \ {"bgpsec"}
           \/ Crashed(up, current) /\ UNCHANGED <<routers, stale>>
    /\ UNCHANGED <<routes, aspas, keyVars, focus>>

\* The periodic renewal of what is due, one command for each family.
Renew(family) ==
    /\ current # None
    /\ LET up == Renewed(Due(family))
       IN  Saved(up, current) \/ Crashed(up, current)
    /\ UNCHANGED <<defVars, keyVars, focus, stale>>

\* The operator has all ROAs issued again.
ForceRenew ==
    /\ current # None
    /\ LET up == Renewed(Issued("roa"))
       IN  Saved(up, current) \/ Crashed(up, current)
    /\ UNCHANGED <<defVars, keyVars, focus, stale>>

-----------------------------------------------------------------------------
(* The certificates of the CA *)

\* The first certificate, in a class that has no objects yet.
FirstCert(resources) ==
    /\ current = None /\ keys < MaxKeys /\ classes < MaxClasses
    /\ keys' = keys + 1 /\ classes' = classes + 1
    /\ current' = [id |-> keys + 1, resources |-> resources]
    /\ Saved(UpdateAll(current'), current')
    /\ UNCHANGED <<defVars, new, focus, stale>>

\* update_rcvd_cert_current: the objects are updated if the resources differ.
ReceiveCert(resources) ==
    /\ current # None
    /\ LET key == [id |-> current.id, resources |-> resources]
           changed == resources # current.resources
           up == IF changed THEN UpdateAll(key) ELSE NoUpdate
       IN  \/ /\ Saved(up, key)
              /\ current' = key
              /\ stale' = IF changed THEN {} ELSE stale
           \/ Crashed(up, key) /\ UNCHANGED <<current, stale>>
    /\ UNCHANGED <<defVars, new, keys, classes, focus>>

\* A certificate for the new key: the first one, or a later one.
ReceiveNewCert(resources) ==
    /\ current # None
    /\ \/ /\ new = None /\ keys < MaxKeys
          /\ keys' = keys + 1 /\ new' = [id |-> keys + 1, resources |-> resources]
       \/ /\ new # None
          /\ new' = [id |-> new.id, resources |-> resources] /\ UNCHANGED keys
    /\ UNCHANGED <<defVars, current, classes, objVars, focus, crashes, stale>>

\* Mutant of KeyRollActivate: the aggregates are left to the old key.
KeyRollActivateSimple ==
    /\ new # None
    /\ LET up == Renewed({n \in Name \ AggregateNames : issued[n] # None})
       IN  /\ issued' = Apply(issued, up, new)
           /\ published' = Apply(NoObjects, up, new)
    /\ ahead' = {}
    /\ stale' = IF new.resources = current.resources THEN stale ELSE Family
    /\ current' = new /\ new' = None
    /\ UNCHANGED <<defVars, keys, classes, focus, crashes>>

\* keyroll_activate: all objects are issued again by the new key, and are what
\* is in its set.  They are not updated.
KeyRollActivate ==
    /\ new # None
    /\ LET up == Renewed({n \in Name : issued[n] # None})
       IN  /\ issued' = Apply(issued, up, new)
           /\ published' = Apply(NoObjects, up, new)
    /\ ahead' = {}
    /\ stale' = IF new.resources = current.resources THEN stale ELSE Family
    /\ current' = new /\ new' = None
    /\ UNCHANGED <<defVars, keys, classes, focus, crashes>>

\* ResourceClassRemoved.  The definitions stay.
RemoveClass ==
    /\ current # None
    /\ current' = None /\ new' = None
    /\ issued' = NoObjects /\ published' = NoObjects /\ ahead' = {} /\ stale' = {}
    /\ UNCHANGED <<defVars, keys, classes, focus, crashes>>

\* Time passes, and all objects that there are become due.
Age ==
    /\ LET Aged(objects) == [n \in Name |-> IF objects[n] = None THEN None
                                            ELSE [objects[n] EXCEPT !.due = TRUE]]
       IN  issued' = Aged(issued) /\ published' = Aged(published)
    /\ UNCHANGED <<defVars, keyVars, ahead, focus, crashes, stale>>

-----------------------------------------------------------------------------
Init ==
    /\ routes = {} /\ aspas = [a \in Asn |-> None] /\ routers = {}
    /\ current = None /\ new = None /\ keys = 0 /\ classes = 0
    /\ issued = NoObjects /\ published = NoObjects
    /\ focus \in Family
    /\ crashes = 0 /\ ahead = {} /\ stale = {}

\* The resources of a certificate, as far as they matter.
Grants == IF focus = "roa" THEN SUBSET Prefix ELSE SUBSET Asn

Define ==
    \/ /\ focus = "roa"
       /\ \E added \in SUBSET (Route \ routes), removed \in SUBSET routes : RoutesUpdate(added, removed)
    \/ /\ focus = "aspa"
       /\ \E add \in [Asn -> (SUBSET Provider) \cup {None}], remove \in SUBSET Asn :
            AspaDefinitionsUpdate(add, remove)
    \/ /\ focus = "aspa"
       /\ \E a \in Asn, added, removed \in SUBSET Provider : AspasUpdate(a, added, removed)
    \/ /\ focus = "bgpsec"
       /\ \E added, removed \in SUBSET Router : BgpsecUpdate(added, removed)

Next ==
    \/ Define \/ Renew(focus) \/ ForceRenew \/ Age
    \/ \E resources \in Grants :
          FirstCert(resources) \/ ReceiveCert(resources) \/ ReceiveNewCert(resources)
    \/ KeyRollActivate \/ RemoveClass

Spec == Init /\ [][Next]_vars

-----------------------------------------------------------------------------
(* Properties *)

\* Every variable has its type.
TypeOK ==
    /\ routes \subseteq Route /\ routers \subseteq Router
    /\ aspas \in [Asn -> (SUBSET Provider) \cup {None}]
    /\ current \in CAKey \cup {None} /\ new \in CAKey \cup {None}
    /\ keys \in 0 .. MaxKeys /\ classes \in 0 .. MaxClasses
    /\ issued \in [Name -> Object \cup {None}]
    /\ published \in [Name -> Object \cup {None}]
    /\ focus \in Family /\ crashes \in 0 .. MaxCrashes
    /\ ahead \subseteq Name /\ stale \subseteq Family

\* The ROAs for a route.
Covering(r) == {n \in RoaNames : issued[n] # None /\ r \in issued[n].payload}

\* Every route authorization whose prefix the current key has is in exactly one
\* ROA, and no ROA has anything else, however often Roas::update has gone from
\* simple to aggregate ROAs and back.  (Unless a new key with other resources
\* was activated: keyroll_activate issues the same ROAs again.)
RoasFollowRoutes ==
    "roa" \notin stale =>
        \A r \in Route :
            IF r \in routes /\ r.prefix \in AllResources
            THEN \E n \in RoaNames : Covering(r) = {n}
            ELSE Covering(r) = {}

\* There is an ASPA object for every customer with a definition, and a router
\* certificate for every BGPSec definition, if the current key has the AS, with
\* what the definition says, and there are no others.  (With the same exception,
\* and that of an ASPA definition that was removed and added in one update.)
ObjectsFollowDefinitions ==
    /\ "aspa" \notin stale => \A a \in Asn :
          Says(AspaName(a)) = IF a \in AllResources THEN aspas[a] ELSE None
    /\ "bgpsec" \notin stale => \A b \in Router :
          (issued[RouterName(b)] # None) = (b \in routers /\ RouterAsn[b] \in AllResources)

\* The objects of CaObjects are those of the CA, and all are signed by the
\* current key, unless a crash has come between the two; then until the object
\* is issued or removed again, or a new key is activated.
PublishedIsSigned ==
    \A n \in Name \ ahead :
        /\ published[n] = issued[n]
        /\ issued[n] # None => current # None /\ issued[n].signer = current.id

\* An update changes nothing unless something has changed: with the same
\* definitions and resources Roas::update does not go back and forth between
\* simple and aggregate ROAs.  (The configuration does not make sure that the
\* second threshold is not beyond the first one, as it is by default.)
UpdateIsStable ==
    Deaggregate <= Aggregate + 1 /\ stale = {} /\ current # None =>
        UpdateAll(current) = NoUpdate
=============================================================================
