------------------------ MODULE SignedObjectsProofs -------------------------
(***************************************************************************)
(* Theorems about the objects that a CA signs, for any resources, any      *)
(* definitions, any thresholds and any number of keys and crashes: lemmas  *)
(* about Roas::update, AspaObjects::update, BgpSecCertificates::update and *)
(* their renewals, the inductive invariant of SignedObjects, and what      *)
(* follows from it.                                                        *)
(***************************************************************************)
EXTENDS SignedObjects, TLAPS

Objects == [Name -> Object \cup {None}]
Updates == [Name -> Payload \cup {Keep, Drop}]

-----------------------------------------------------------------------------
(* Names *)

\* The names of the four kinds of objects are different, and each name gives
\* back what it was made from.
LEMMA Names ==
    /\ \A n \in SimpleNames : n[2] \in Route /\ n = SimpleName(n[2])
    /\ \A n \in AggregateNames : n[2] \in Asn /\ n = AggregateName(n[2])
    /\ \A n \in AspaNames : n[2] \in Asn /\ n = AspaName(n[2])
    /\ \A n \in RouterNames : n[2] \in Router /\ n = RouterName(n[2])
    /\ \A r \in Route : SimpleName(r) \in SimpleNames /\ SimpleName(r)[2] = r
    /\ \A a \in Asn : AggregateName(a) \in AggregateNames /\ AggregateName(a)[2] = a
    /\ \A a \in Asn : AspaName(a) \in AspaNames /\ AspaName(a)[2] = a
    /\ \A b \in Router : RouterName(b) \in RouterNames /\ RouterName(b)[2] = b
    /\ SimpleNames \cap AggregateNames = {}
    /\ RoaNames \cap AspaNames = {} /\ RoaNames \cap RouterNames = {}
    /\ AspaNames \cap RouterNames = {}
    /\ SimpleNames \subseteq RoaNames /\ AggregateNames \subseteq RoaNames
    /\ RoaNames \subseteq Name /\ AspaNames \subseteq Name /\ RouterNames \subseteq Name
    /\ RoaNames \subseteq SimpleNames \cup AggregateNames
    /\ Name \subseteq RoaNames \cup AspaNames \cup RouterNames
<1>1. /\ \A n \in SimpleNames : n[2] \in Route /\ n = SimpleName(n[2]) /\ n[1] = "simple"
      /\ \A n \in AggregateNames : n[2] \in Asn /\ n = AggregateName(n[2]) /\ n[1] = "aggregate"
      /\ \A n \in AspaNames : n[2] \in Asn /\ n = AspaName(n[2]) /\ n[1] = "aspa"
      /\ \A n \in RouterNames : n[2] \in Router /\ n = RouterName(n[2]) /\ n[1] = "bgpsec"
  BY DEF SimpleNames, AggregateNames, AspaNames, RouterNames,
         SimpleName, AggregateName, AspaName, RouterName
<1>2. /\ \A r \in Route : SimpleName(r) \in SimpleNames /\ SimpleName(r)[2] = r
      /\ \A a \in Asn : AggregateName(a) \in AggregateNames /\ AggregateName(a)[2] = a
      /\ \A a \in Asn : AspaName(a) \in AspaNames /\ AspaName(a)[2] = a
      /\ \A b \in Router : RouterName(b) \in RouterNames /\ RouterName(b)[2] = b
  BY DEF SimpleNames, AggregateNames, AspaNames, RouterNames,
         SimpleName, AggregateName, AspaName, RouterName
<1>3. /\ SimpleNames \cap AggregateNames = {} /\ SimpleNames \cap AspaNames = {}
      /\ SimpleNames \cap RouterNames = {} /\ AggregateNames \cap AspaNames = {}
      /\ AggregateNames \cap RouterNames = {} /\ AspaNames \cap RouterNames = {}
  BY <1>1
<1> QED
  BY <1>1, <1>2, <1>3 DEF RoaNames, Name

-----------------------------------------------------------------------------
(* Types *)

\* An object that is made is an object.
LEMMA Made ==
    ASSUME NEW p \in Payload, NEW id \in 1 .. MaxKeys, NEW o,
           o = [payload |-> p, signer |-> id, due |-> FALSE]
    PROVE  o \in Object /\ o # None /\ o.payload = p /\ o.signer = id
<1>1. o \in Object
  BY DEF Object
<1>2. o # None
  BY <1>1, SignedObjectsAssumption, Zenon
<1> QED
  BY <1>1, <1>2 DEF Object

\* Applying an update to objects gives objects.
LEMMA ApplyType ==
    ASSUME NEW objects \in Objects, NEW up \in Updates, NEW key, key.id \in 1 .. MaxKeys
    PROVE  Apply(objects, up, key) \in Objects
<1>1. SUFFICES ASSUME NEW n \in Name
               PROVE  Apply(objects, up, key)[n] \in Object \cup {None}
  BY DEF Apply, Objects
<1>2. up[n] \in Payload \cup {Keep, Drop} /\ objects[n] \in Object \cup {None}
  BY DEF Updates, Objects
<1>3. [payload |-> up[n], signer |-> key.id, due |-> FALSE] \in Object \/ up[n] \in {Keep, Drop}
  BY <1>2 DEF Object
<1> QED
  BY <1>2, <1>3 DEF Apply

\* Removing an object that is issued is an update.
LEMMA RemovedType == \A n : Removed(n) \in {Keep, Drop}
  BY DEF Removed

\* Roas::update, AspaObjects::update and BgpSecCertificates::update make
\* updates, and so do all three together.
LEMMA UpdateTypes ==
    ASSUME NEW rs \in SUBSET Route, NEW as \in [Asn -> (SUBSET Provider) \cup {None}],
           NEW bs \in SUBSET Router, NEW key
    PROVE  /\ RoaUpdate(rs, key) \in [RoaNames -> Payload \cup {Keep, Drop}]
           /\ AspaUpdate(as, key) \in [AspaNames -> Payload \cup {Keep, Drop}]
           /\ RouterUpdate(bs, key) \in [RouterNames -> Payload \cup {Keep, Drop}]
<1>1. ASSUME NEW n \in RoaNames, NEW mode, NEW relevant \in SUBSET Route
      PROVE  RoaUpdateIn(mode, relevant)[n] \in Payload \cup {Keep, Drop}
  <2>1. CASE n \in SimpleNames
    <3>1. n[2] \in Route
      BY <2>1, Names
    <3>2. {n[2]} \in Payload
      BY <3>1 DEF Payload
    <3> QED
      BY <2>1, <3>2, RemovedType DEF RoaUpdateIn, SimpleChange
  <2>2. CASE n \notin SimpleNames
    <3> DEFINE desired == {r \in relevant : r.asn = n[2]}
    <3>1. desired \in Payload
      BY DEF Payload
    <3> QED
      BY <2>2, <3>1, RemovedType DEF RoaUpdateIn, AggregateChange
  <2> QED
    BY <2>1, <2>2
<1>2. RoaUpdate(rs, key) \in [RoaNames -> Payload \cup {Keep, Drop}]
  <2>1. Relevant(rs, key) \in SUBSET Route
    BY DEF Relevant
  <2> QED
    BY <1>1, <2>1 DEF RoaUpdate, RoaUpdateIn
<1>3. AspaUpdate(as, key) \in [AspaNames -> Payload \cup {Keep, Drop}]
  <2>1. \A n \in AspaNames : as[n[2]] = None \/ as[n[2]] \in Payload
    BY Names, Zenon DEF Payload
  <2> QED
    BY <2>1, RemovedType, Zenon DEF AspaUpdate
<1>4. RouterUpdate(bs, key) \in [RouterNames -> Payload \cup {Keep, Drop}]
  <2>1. \A n \in RouterNames : {n[2]} \in Payload
    BY Names DEF Payload
  <2> QED
    BY <2>1, RemovedType DEF RouterUpdate
<1> QED
  BY <1>2, <1>3, <1>4, Zenon

-----------------------------------------------------------------------------
(* ROAs *)

\* The ROAs are those for some routes: all of them simple, or all aggregates.
SimpleRoas(objects, held) ==
    /\ \A a \in Asn : objects[AggregateName(a)] = None
    /\ \A r \in Route : IF r \in held
                        THEN objects[SimpleName(r)] # None /\ objects[SimpleName(r)].payload = {r}
                        ELSE objects[SimpleName(r)] = None
RoutesOf(held, a) == {r \in held : r.asn = a}
AggregateRoas(objects, held) ==
    /\ \A r \in Route : objects[SimpleName(r)] = None
    /\ \A a \in Asn : IF RoutesOf(held, a) # {}
                      THEN /\ objects[AggregateName(a)] # None
                           /\ objects[AggregateName(a)].payload = RoutesOf(held, a)
                      ELSE objects[AggregateName(a)] = None

\* The number of routes is one for which Roas::update stays with simple ROAs,
\* or with aggregates, when the second threshold is not beyond the first one.
FewEnough(held) ==
    Deaggregate <= Aggregate + 1 => ~(held # {} /\ Cardinality(held) > Aggregate)
ManyEnough(held) ==
    Deaggregate <= Aggregate + 1 => ~(held # {} /\ Cardinality(held) < Deaggregate)

RoasFor(objects, held) ==
    \/ SimpleRoas(objects, held) /\ FewEnough(held)
    \/ AggregateRoas(objects, held) /\ ManyEnough(held)

\* Roas::update gives the ROAs for the relevant routes, from the ROAs for any
\* routes, whether it goes on with simple or with aggregate ROAs, or changes
\* from one to the other.
LEMMA RoaUpdateGives ==
    ASSUME issued \in Objects, NEW held \in SUBSET Route, RoasFor(issued, held),
           NEW rs \in SUBSET Route, NEW key, key.id \in 1 .. MaxKeys,
           NEW up \in Updates, \A n \in RoaNames : up[n] = RoaUpdate(rs, key)[n]
    PROVE  RoasFor(Apply(issued, up, key), Relevant(rs, key))
<1> DEFINE rel  == Relevant(rs, key)
           mode == RoaMode(rel)
           after == Apply(issued, up, key)
<1>0. rel \in SUBSET Route /\ after \in Objects
  BY ApplyType DEF Relevant
<1>1. ASSUME NEW n \in Name
      PROVE  after[n] = IF up[n] = Keep THEN issued[n] ELSE IF up[n] = Drop THEN None
                        ELSE [payload |-> up[n], signer |-> key.id, due |-> FALSE]
  BY DEF Apply
<1>2. \A r \in Route : up[SimpleName(r)] = SimpleChange(mode, rel, SimpleName(r))
  BY Names DEF RoaUpdate, RoaUpdateIn
<1>3. \A a \in Asn : up[AggregateName(a)] = AggregateChange(mode, rel, AggregateName(a))
  BY Names DEF RoaUpdate, RoaUpdateIn
<1>4. /\ mode \in {"simple", "start", "stop", "aggregate"}
      /\ mode \in {"stop", "aggregate"} <=> Aggregating
  BY DEF RoaMode
<1>10. (mode \in {"simple", "stop"} => FewEnough(rel)) /\ (mode \in {"start", "aggregate"} => ManyEnough(rel))
  <2>1. Cardinality(rel) \in Nat /\ Aggregate \in Nat /\ Deaggregate \in Nat
    BY <1>0, SignedObjectsAssumption, Zenon
  <2> HIDE DEF rel
  <2> QED
    BY <2>1 DEF RoaMode, FewEnough, ManyEnough
<1> HIDE DEF rel, mode, after
<1>5. ASSUME NEW n \in Name, up[n] = Removed(n)
      PROVE  after[n] = None
  BY <1>1, <1>5, SignedObjectsAssumption, Zenon DEF Removed
<1>6. ASSUME NEW n \in Name, up[n] = Keep
      PROVE  after[n] = issued[n]
  BY <1>1, <1>6, Zenon
<1>7. ASSUME NEW n \in Name, up[n] \in Payload
      PROVE  after[n] # None /\ after[n].payload = up[n]
  <2>1. up[n] # Keep /\ up[n] # Drop
    BY <1>7, SignedObjectsAssumption
  <2>2. after[n] = [payload |-> up[n], signer |-> key.id, due |-> FALSE]
    BY <1>1, <2>1
  <2> QED
    BY <1>7, <2>2, Made
<1>8. CASE mode \in {"simple", "stop"}
  <2>1. ASSUME NEW a \in Asn
        PROVE  after[AggregateName(a)] = None
    <3>1. AggregateName(a) \in Name
      BY Names
    <3>2. CASE mode = "stop"
      BY <3>1, <3>2, <1>3, <1>5 DEF AggregateChange
    <3>3. CASE mode = "simple"
      <4>1. issued[AggregateName(a)] = None
        BY <3>3, <1>4 DEF Aggregating
      <4>2. up[AggregateName(a)] = Keep
        BY <3>3, <1>3 DEF AggregateChange
      <4> QED
        BY <3>1, <4>1, <4>2, <1>6
    <3> QED
      BY <1>8, <3>2, <3>3
  <2>2. ASSUME NEW r \in Route, r \in rel
        PROVE  after[SimpleName(r)] # None /\ after[SimpleName(r)].payload = {r}
    <3>1. SimpleName(r) \in Name /\ SimpleName(r)[2] = r
      BY Names
    <3>2. CASE issued[SimpleName(r)] = None
      <4>1. up[SimpleName(r)] = {r} /\ {r} \in Payload
        BY <1>8, <2>2, <3>1, <3>2, <1>2, Zenon DEF SimpleChange, Payload
      <4> QED
        BY <3>1, <4>1, <1>7, Zenon
    <3>3. CASE issued[SimpleName(r)] # None
      <4>1. up[SimpleName(r)] = Keep
        BY <1>8, <2>2, <3>1, <3>3, <1>2, Zenon DEF SimpleChange
      <4>2. issued[SimpleName(r)].payload = {r}
        BY <3>3 DEF RoasFor, SimpleRoas, AggregateRoas
      <4> QED
        BY <3>1, <3>3, <4>1, <4>2, <1>6
    <3> QED
      BY <3>2, <3>3
  <2>3. ASSUME NEW r \in Route, r \notin rel
        PROVE  after[SimpleName(r)] = None
    <3>1. SimpleName(r) \in Name /\ SimpleName(r)[2] = r
      BY Names
    <3>2. up[SimpleName(r)] = Removed(SimpleName(r))
      BY <1>8, <2>3, <3>1, <1>2, Zenon DEF SimpleChange
    <3> QED
      BY <3>1, <3>2, <1>5
  <2>4. SimpleRoas(after, rel)
    BY <2>1, <2>2, <2>3 DEF SimpleRoas
  <2> QED
    BY <1>8, <1>10, <2>4, Zenon DEF RoasFor, rel, after
<1>9. CASE mode \in {"start", "aggregate"}
  <2>1. ASSUME NEW r \in Route
        PROVE  after[SimpleName(r)] = None
    <3>1. SimpleName(r) \in Name
      BY Names
    <3>2. CASE mode = "start"
      BY <3>1, <3>2, <1>2, <1>5 DEF SimpleChange
    <3>3. CASE mode = "aggregate"
      <4>1. PICK a \in Asn : issued[AggregateName(a)] # None
        BY <3>3, <1>4 DEF Aggregating
      <4>2. issued[SimpleName(r)] = None
        BY <4>1 DEF RoasFor, SimpleRoas, AggregateRoas
      <4>3. up[SimpleName(r)] = Keep
        BY <3>3, <1>2 DEF SimpleChange
      <4> QED
        BY <3>1, <4>2, <4>3, <1>6
    <3> QED
      BY <1>9, <3>2, <3>3
  <2>2. ASSUME NEW a \in Asn
        PROVE  IF RoutesOf(rel, a) # {}
               THEN /\ after[AggregateName(a)] # None
                    /\ after[AggregateName(a)].payload = RoutesOf(rel, a)
               ELSE after[AggregateName(a)] = None
    <3> DEFINE n == AggregateName(a)
    <3>1. n \in Name /\ n[2] = a
      BY Names
    <3>2. up[n] = IF RoutesOf(rel, a) = {} THEN Removed(n)
                  ELSE IF Says(n) # RoutesOf(rel, a) THEN RoutesOf(rel, a) ELSE Keep
      <4>1. up[n] = AggregateChange(mode, rel, n)
        BY <1>3
      <4>2. mode # "stop" /\ mode # "simple"
        BY <1>9
      <4>3. RoutesOf(rel, a) = {r \in rel : r.asn = n[2]}
        BY <3>1 DEF RoutesOf
      <4> HIDE DEF n
      <4>4. AggregateChange(mode, rel, n)
              = IF RoutesOf(rel, a) = {} THEN Removed(n)
                ELSE IF Says(n) # RoutesOf(rel, a) THEN RoutesOf(rel, a) ELSE Keep
        BY <4>2, <4>3 DEF AggregateChange
      <4> QED
        BY <4>1, <4>4
    <3>3. RoutesOf(rel, a) \in Payload
      BY <1>0 DEF RoutesOf, Payload, rel
    <3> HIDE DEF n
    <3>4. CASE RoutesOf(rel, a) = {}
      BY <3>1, <3>2, <3>4, <1>5 DEF n
    <3>5. CASE RoutesOf(rel, a) # {} /\ Says(n) # RoutesOf(rel, a)
      BY <3>1, <3>2, <3>3, <3>5, <1>7 DEF n
    <3>6. CASE RoutesOf(rel, a) # {} /\ Says(n) = RoutesOf(rel, a)
      <4>1. issued[n] # None /\ issued[n].payload = RoutesOf(rel, a)
        BY <3>3, <3>6, SignedObjectsAssumption DEF Says
      <4>2. after[n] = issued[n]
        BY <3>1, <3>2, <3>6, <1>6
      <4> QED
        BY <3>6, <4>1, <4>2 DEF n
    <3> QED
      BY <3>4, <3>5, <3>6
  <2>3. AggregateRoas(after, rel)
    BY <2>1, <2>2 DEF AggregateRoas
  <2> QED
    BY <1>9, <1>10, <2>3, Zenon DEF RoasFor, rel, after
<1> QED
  BY <1>4, <1>8, <1>9

-----------------------------------------------------------------------------
(* ASPA objects and router certificates *)

\* The ASPA objects, and the router certificates, are those for definitions.
AspasFor(objects, as, resources) ==
    \A a \in Asn : (IF objects[AspaName(a)] = None THEN None ELSE objects[AspaName(a)].payload)
                     = (IF a \in resources THEN as[a] ELSE None)
RoutersFor(objects, bs, resources) ==
    \A b \in Router : (objects[RouterName(b)] # None) = (b \in bs /\ RouterAsn[b] \in resources)

\* AspaObjects::update gives the ASPA objects for the definitions, whatever
\* objects there were.
LEMMA AspaUpdateGives ==
    ASSUME issued \in Objects, NEW as \in [Asn -> (SUBSET Provider) \cup {None}],
           NEW key, key.id \in 1 .. MaxKeys,
           NEW up \in Updates, \A n \in AspaNames : up[n] = AspaUpdate(as, key)[n]
    PROVE  AspasFor(Apply(issued, up, key), as, key.resources)
<1> DEFINE after == Apply(issued, up, key)
<1>1. SUFFICES ASSUME NEW a \in Asn
               PROVE  (IF after[AspaName(a)] = None THEN None ELSE after[AspaName(a)].payload)
                        = (IF a \in key.resources THEN as[a] ELSE None)
  BY Zenon DEF AspasFor
<1> DEFINE n == AspaName(a)
<1>2. n \in AspaNames /\ n \in Name /\ n[2] = a
  BY Names
<1>3. up[n] = IF as[a] = None \/ a \notin key.resources THEN Removed(n)
              ELSE IF Says(n) # as[a] THEN as[a] ELSE Keep
  BY <1>2, Zenon DEF AspaUpdate
<1>4. after[n] = IF up[n] = Keep THEN issued[n] ELSE IF up[n] = Drop THEN None
                 ELSE [payload |-> up[n], signer |-> key.id, due |-> FALSE]
  BY <1>2 DEF Apply
<1> HIDE DEF n, after
<1>5. CASE as[a] = None \/ a \notin key.resources
  <2>1. after[n] = None
    BY <1>3, <1>4, <1>5, SignedObjectsAssumption, Zenon DEF Removed
  <2> QED
    BY <1>5, <2>1, Zenon DEF n
<1>6. CASE as[a] # None /\ a \in key.resources
  <2>1. PICK p \in Payload : p = as[a]
    BY <1>6, Zenon DEF Payload
  <2>2. CASE Says(n) # as[a]
    <3>1. after[n] = [payload |-> p, signer |-> key.id, due |-> FALSE]
      BY <1>3, <1>4, <1>6, <2>1, <2>2, SignedObjectsAssumption, Zenon
    <3>2. after[n] # None /\ after[n].payload = p
      BY <3>1, Made
    <3> QED
      BY <1>6, <2>1, <3>2 DEF n
  <2>3. CASE Says(n) = as[a]
    <3>1. after[n] = issued[n]
      BY <1>3, <1>4, <1>6, <2>3, Zenon
    <3> QED
      BY <1>6, <2>3, <3>1, Zenon DEF n, Says
  <2> QED
    BY <2>2, <2>3, Zenon
<1> QED
  BY <1>5, <1>6, Zenon

\* BgpSecCertificates::update gives the certificates for the definitions.
LEMMA RouterUpdateGives ==
    ASSUME issued \in Objects, NEW bs \in SUBSET Router, NEW key, key.id \in 1 .. MaxKeys,
           NEW up \in Updates, \A n \in RouterNames : up[n] = RouterUpdate(bs, key)[n]
    PROVE  RoutersFor(Apply(issued, up, key), bs, key.resources)
<1> DEFINE after == Apply(issued, up, key)
<1>1. SUFFICES ASSUME NEW b \in Router
               PROVE  (after[RouterName(b)] # None) = (b \in bs /\ RouterAsn[b] \in key.resources)
  BY DEF RoutersFor
<1> DEFINE n == RouterName(b)
<1>2. n \in RouterNames /\ n \in Name /\ n[2] = b
  BY Names
<1>3. up[n] = IF b \notin bs \/ RouterAsn[b] \notin key.resources THEN Removed(n)
              ELSE IF issued[n] = None THEN {b} ELSE Keep
  BY <1>2 DEF RouterUpdate
<1>4. after[n] = IF up[n] = Keep THEN issued[n] ELSE IF up[n] = Drop THEN None
                 ELSE [payload |-> up[n], signer |-> key.id, due |-> FALSE]
  BY <1>2 DEF Apply
<1> HIDE DEF n, after
<1>5. CASE b \notin bs \/ RouterAsn[b] \notin key.resources
  <2>1. after[n] = None
    BY <1>3, <1>4, <1>5, SignedObjectsAssumption DEF Removed
  <2> QED
    BY <1>5, <2>1 DEF n
<1>6. CASE b \in bs /\ RouterAsn[b] \in key.resources
  <2>1. {b} \in Payload
    BY DEF Payload
  <2>2. CASE issued[n] = None
    <3>1. after[n] = [payload |-> {b}, signer |-> key.id, due |-> FALSE]
      BY <1>3, <1>4, <1>6, <2>1, <2>2, SignedObjectsAssumption, Zenon
    <3>2. after[n] # None
      BY <2>1, <3>1, Made
    <3> QED
      BY <1>6, <3>2 DEF n
  <2>3. CASE issued[n] # None
    <3>1. after[n] = issued[n]
      BY <1>3, <1>4, <1>6, <2>3
    <3> QED
      BY <1>6, <2>3, <3>1 DEF n
  <2> QED
    BY <2>2, <2>3
<1> QED
  BY <1>5, <1>6

-----------------------------------------------------------------------------
(* Updates that do not change what the objects say *)

SayTheSame(before, after, names) ==
    \A n \in names : /\ (after[n] = None) = (before[n] = None)
                     /\ before[n] # None => after[n].payload = before[n].payload

\* If the objects of a family say the same they are for the same definitions.
LEMMA SameFor ==
    ASSUME NEW before, NEW after
    PROVE  /\ SayTheSame(before, after, RoaNames) =>
                \A held \in SUBSET Route : RoasFor(before, held) => RoasFor(after, held)
           /\ SayTheSame(before, after, AspaNames) =>
                \A as, rs : AspasFor(before, as, rs) => AspasFor(after, as, rs)
           /\ SayTheSame(before, after, RouterNames) =>
                \A bs, rs : RoutersFor(before, bs, rs) => RoutersFor(after, bs, rs)
<1>1. ASSUME SayTheSame(before, after, RoaNames), NEW held \in SUBSET Route, RoasFor(before, held)
      PROVE  RoasFor(after, held)
  <2>1. SimpleRoas(before, held) => SimpleRoas(after, held)
    BY <1>1, Names DEF SayTheSame, SimpleRoas
  <2>2. AggregateRoas(before, held) => AggregateRoas(after, held)
    BY <1>1, Names DEF SayTheSame, AggregateRoas
  <2> QED
    BY <1>1, <2>1, <2>2, Zenon DEF RoasFor
<1>2. ASSUME SayTheSame(before, after, AspaNames), NEW as, NEW rs, AspasFor(before, as, rs)
      PROVE  AspasFor(after, as, rs)
  <2>1. \A a \in Asn : /\ (after[AspaName(a)] = None) = (before[AspaName(a)] = None)
                       /\ before[AspaName(a)] # None =>
                            after[AspaName(a)].payload = before[AspaName(a)].payload
    BY <1>2, Names DEF SayTheSame
  <2> QED
    BY <1>2, <2>1, Zenon DEF AspasFor
<1>3. ASSUME SayTheSame(before, after, RouterNames), NEW bs, NEW rs, RoutersFor(before, bs, rs)
      PROVE  RoutersFor(after, bs, rs)
  <2>1. \A b \in Router : (after[RouterName(b)] = None) = (before[RouterName(b)] = None)
    BY <1>3, Names DEF SayTheSame
  <2> QED
    BY <1>3, <2>1 DEF RoutersFor
<1> QED
  BY <1>1, <1>2, <1>3

\* Objects that an update keeps say the same.
LEMMA KeptSame ==
    ASSUME NEW objects, NEW up, NEW key, NEW names \in SUBSET Name,
           \A n \in names : up[n] = Keep
    PROVE  SayTheSame(objects, Apply(objects, up, key), names)
  BY Zenon DEF SayTheSame, Apply

\* Renewed objects say the same: the update of renew is an update, and it
\* keeps the payload of each object (Roas::renew, AspaObjects::renew,
\* BgpSecCertificates::renew).
LEMMA RenewedSame ==
    ASSUME issued \in Objects, NEW names \in SUBSET Name, \A n \in names : issued[n] # None,
           NEW key, key.id \in 1 .. MaxKeys
    PROVE  /\ Renewed(names) \in Updates
           /\ SayTheSame(issued, Apply(issued, Renewed(names), key), Name)
<1>1. \A n \in names : issued[n] \in Object /\ issued[n].payload \in Payload
  BY DEF Objects, Object
<1>2. Renewed(names) \in Updates
  BY <1>1 DEF Renewed, Updates
<1>3. ASSUME NEW n \in Name
      PROVE  LET after == Apply(issued, Renewed(names), key)[n]
             IN  /\ (after = None) = (issued[n] = None)
                 /\ issued[n] # None => after.payload = issued[n].payload
  <2>1. CASE n \in names
    <3>1. PICK p \in Payload : p = issued[n].payload
      BY <1>1, <2>1
    <3>2. p # Keep /\ p # Drop
      BY SignedObjectsAssumption
    <3>3. Apply(issued, Renewed(names), key)[n]
            = [payload |-> p, signer |-> key.id, due |-> FALSE]
      BY <2>1, <3>1, <3>2 DEF Apply, Renewed
    <3>4. /\ Apply(issued, Renewed(names), key)[n] # None
          /\ Apply(issued, Renewed(names), key)[n].payload = p
      BY <3>3, Made
    <3> QED
      BY <2>1, <3>1, <3>4
  <2>2. CASE n \notin names
    <3>1. Apply(issued, Renewed(names), key)[n] = issued[n]
      BY <2>2 DEF Apply, Renewed
    <3> QED
      BY <3>1
  <2> QED
    BY <2>1, <2>2
<1> QED
  BY <1>2, <1>3 DEF SayTheSame

-----------------------------------------------------------------------------
(* The inductive invariant *)

SignedBy(objects, key) ==
    \A n \in Name : objects[n] # None => key # None /\ objects[n].signer = key.id

KeyInv ==
    /\ new # None => current # None
    /\ current = None => issued = NoObjects

PublishedInv == \A n \in Name \ ahead : published[n] = issued[n]

\* While the ROAs do not follow the routes they are still the ROAs for some
\* routes: this is what the next update starts from.
Held == {r \in routes : r.prefix \in AllResources}
RoaInv ==
    \E held \in SUBSET Route : RoasFor(issued, held) /\ ("roa" \notin stale => held = Held)

AspaInv   == "aspa" \notin stale => AspasFor(issued, aspas, AllResources)
RouterInv == "bgpsec" \notin stale => RoutersFor(issued, routers, AllResources)

IInv ==
    /\ TypeOK /\ KeyInv
    /\ PublishedInv /\ SignedBy(issued, current)
    /\ RoaInv /\ AspaInv /\ RouterInv

\* A command without an update changes no objects.
LEMMA SavedNothing ==
    ASSUME issued \in Objects, published \in Objects, NEW key, Saved(NoUpdate, key)
    PROVE  issued' = issued /\ published' = published /\ ahead' = ahead /\ crashes' = crashes
<1>1. \A objects \in Objects : Apply(objects, NoUpdate, key) = objects
  BY DEF Apply, NoUpdate, Objects
<1>2. Touched(NoUpdate) = {}
  BY DEF Touched, NoUpdate
<1> QED
  BY <1>1, <1>2 DEF Saved

\* A command that is saved keeps what is published equal to what is issued,
\* and heals the names that it touches; all is signed by the key.
LEMMA SavedObjects ==
    ASSUME issued \in Objects, published \in Objects, ahead \subseteq Name, PublishedInv,
           NEW up \in Updates, NEW key \in CAKey, SignedBy(issued, key), Saved(up, key)
    PROVE  /\ issued' \in Objects /\ published' \in Objects /\ ahead' \subseteq Name
           /\ crashes' = crashes
           /\ PublishedInv'
           /\ SignedBy(issued', key)
<1>1. key.id \in 1 .. MaxKeys /\ key # None
  BY SignedObjectsAssumption DEF CAKey
<1>2. issued' \in Objects /\ published' \in Objects /\ ahead' \subseteq Name /\ crashes' = crashes
  BY <1>1, ApplyType DEF Saved
<1>3. PublishedInv'
  <2>1. SUFFICES ASSUME NEW n \in Name, n \notin ahead'
                 PROVE  published'[n] = issued'[n]
    BY DEF PublishedInv
  <2>2. n \notin ahead \/ up[n] # Keep
    BY <2>1 DEF Saved, Touched
  <2>3. CASE up[n] = Keep
    BY <2>2, <2>3, Zenon DEF Saved, Apply, PublishedInv
  <2>4. CASE up[n] # Keep
    BY <2>4 DEF Saved, Apply
  <2> QED
    BY <2>3, <2>4
<1>4. SignedBy(issued', key)
  <2>1. SUFFICES ASSUME NEW n \in Name, issued'[n] # None
                 PROVE  issued'[n].signer = key.id
    BY <1>1 DEF SignedBy
  <2>2. CASE up[n] = Keep
    BY <2>1, <2>2 DEF Saved, Apply, SignedBy
  <2>3. CASE up[n] # Keep
    <3>1. issued'[n] = [payload |-> up[n], signer |-> key.id, due |-> FALSE]
      BY <2>1, <2>3 DEF Saved, Apply
    <3> QED
      BY <3>1
  <2> QED
    BY <2>2, <2>3
<1> QED
  BY <1>2, <1>3, <1>4

\* A command that crashes leaves the names that it touches ahead.
LEMMA CrashedObjects ==
    ASSUME TypeOK, PublishedInv, NEW up \in Updates, NEW key,
           up = NoUpdate \/ key \in CAKey, Crashed(up, key)
    PROVE  /\ issued' = issued /\ published' \in Objects /\ ahead' \subseteq Name
           /\ crashes' \in 0 .. MaxCrashes
           /\ PublishedInv'
<1>1. published' \in Objects
  <2>1. CASE up = NoUpdate
    BY <2>1 DEF Crashed, TypeOK, Objects, Apply, NoUpdate
  <2>2. CASE key \in CAKey
    BY <2>2, ApplyType DEF Crashed, TypeOK, Objects, CAKey
  <2> QED
    BY <2>1, <2>2
<1>2. crashes' \in 0 .. MaxCrashes
  BY SignedObjectsAssumption DEF Crashed, TypeOK
<1>3. ahead' \subseteq Name /\ issued' = issued
  BY DEF Crashed, TypeOK, Touched
<1>4. ASSUME NEW n \in Name, n \notin ahead'
      PROVE  published'[n] = issued'[n]
  BY <1>4 DEF Crashed, Touched, Apply, PublishedInv
<1> QED
  BY <1>1, <1>2, <1>3, <1>4 DEF PublishedInv

\* If there is no key there are no objects, and these follow the definitions.
LEMMA NothingFollows ==
    ASSUME NEW objects, objects = NoObjects
    PROVE  /\ RoasFor(objects, {})
           /\ \A as : AspasFor(objects, as, {})
           /\ \A bs : RoutersFor(objects, bs, {})
<1>1. \A n \in Name : objects[n] = None
  BY DEF NoObjects
<1>2. /\ \A r \in Route : objects[SimpleName(r)] = None
      /\ \A a \in Asn : objects[AggregateName(a)] = None /\ objects[AspaName(a)] = None
      /\ \A b \in Router : objects[RouterName(b)] = None
  BY <1>1, Names, Zenon
<1>3. RoasFor(objects, {})
  BY <1>2 DEF RoasFor, SimpleRoas, FewEnough
<1> QED
  BY <1>2, <1>3 DEF AspasFor, RoutersFor

\* Before there is a key, and after the class is gone, there is nothing to follow.
LEMMA NothingInv ==
    current = None /\ issued = NoObjects =>
        RoaInv /\ AspaInv /\ RouterInv /\ SignedBy(issued, current)
<1> SUFFICES ASSUME current = None, issued = NoObjects
             PROVE  RoaInv /\ AspaInv /\ RouterInv /\ SignedBy(issued, current)
  OBVIOUS
<1>1. AllResources = {} /\ Held = {}
  BY DEF AllResources, Held
<1>2. RoaInv
  BY <1>1, NothingFollows DEF RoaInv
<1>3. AspaInv /\ RouterInv
  BY <1>1, NothingFollows DEF AspaInv, RouterInv
<1>4. SignedBy(issued, current)
  BY DEF SignedBy, NoObjects
<1> QED
  BY <1>2, <1>3, <1>4

\* What follows the definitions goes on to do so if the objects say the same.
LEMMA SameInv ==
    ASSUME IInv, SayTheSame(issued, issued', Name),
           UNCHANGED <<defVars, stale>>, AllResources' = AllResources
    PROVE  RoaInv' /\ AspaInv' /\ RouterInv'
<1>1. /\ SayTheSame(issued, issued', RoaNames)
      /\ SayTheSame(issued, issued', AspaNames)
      /\ SayTheSame(issued, issued', RouterNames)
  BY DEF SayTheSame, Name
<1>2. Held' = Held
  BY DEF Held, defVars
<1>3. RoaInv'
  <2>1. PICK held \in SUBSET Route : RoasFor(issued, held) /\ ("roa" \notin stale => held = Held)
    BY DEF IInv, RoaInv
  <2>2. RoasFor(issued', held)
    BY <1>1, <2>1, SameFor
  <2> QED
    BY <1>2, <2>1, <2>2 DEF RoaInv
<1>4. AspaInv'
  <2>1. CASE "aspa" \in stale
    BY <2>1 DEF AspaInv
  <2>2. CASE "aspa" \notin stale
    <3>1. AspasFor(issued', aspas, AllResources)
      BY <1>1, <2>2, SameFor DEF IInv, AspaInv
    <3> QED
      BY <3>1 DEF AspaInv, defVars
  <2> QED
    BY <2>1, <2>2
<1>5. RouterInv'
  <2>1. CASE "bgpsec" \in stale
    BY <2>1 DEF RouterInv
  <2>2. CASE "bgpsec" \notin stale
    <3>1. RoutersFor(issued', routers, AllResources)
      BY <1>1, <2>2, SameFor DEF IInv, RouterInv
    <3> QED
      BY <3>1 DEF RouterInv, defVars
  <2> QED
    BY <2>1, <2>2
<1> QED
  BY <1>3, <1>4, <1>5

\* A crash.
LEMMA CrashStep ==
    ASSUME IInv, NEW up \in Updates, NEW key, up = NoUpdate \/ key \in CAKey, Crashed(up, key),
           UNCHANGED <<defVars, keyVars, focus, stale>>
    PROVE  IInv'
<1>1. /\ issued' = issued /\ published' \in Objects /\ ahead' \subseteq Name
      /\ crashes' \in 0 .. MaxCrashes /\ PublishedInv'
  BY CrashedObjects, Zenon DEF IInv
<1>2. TypeOK' /\ KeyInv' /\ SignedBy(issued, current)'
  BY <1>1, Zenon DEF IInv, TypeOK, KeyInv, SignedBy, defVars, keyVars, Objects
<1>3. SayTheSame(issued, issued', Name) /\ AllResources' = AllResources
  BY <1>1 DEF SayTheSame, AllResources, keyVars
<1> QED
  BY <1>1, <1>2, <1>3, SameInv DEF IInv

\* A renewal, of any objects.
LEMMA RenewalStep ==
    ASSUME IInv, current # None, NEW names \in SUBSET Name, \A n \in names : issued[n] # None,
           Saved(Renewed(names), current) \/ Crashed(Renewed(names), current),
           UNCHANGED <<defVars, keyVars, focus, stale>>
    PROVE  IInv'
<1>1. issued \in Objects /\ current \in CAKey /\ current.id \in 1 .. MaxKeys
  BY Zenon DEF IInv, TypeOK, Objects, CAKey
<1>2. /\ Renewed(names) \in Updates
      /\ SayTheSame(issued, Apply(issued, Renewed(names), current), Name)
  BY <1>1, RenewedSame, Zenon
<1>3. CASE Crashed(Renewed(names), current)
  BY <1>1, <1>2, <1>3, CrashStep
<1>4. CASE Saved(Renewed(names), current)
  <2>1. SignedBy(issued, current) /\ published \in Objects /\ ahead \subseteq Name /\ PublishedInv
    BY Zenon DEF IInv, TypeOK, Objects
  <2>2. /\ issued' \in Objects /\ published' \in Objects /\ ahead' \subseteq Name
        /\ crashes' = crashes /\ PublishedInv' /\ SignedBy(issued', current)
    BY <1>1, <1>2, <1>4, <2>1, SavedObjects, Zenon
  <2>3. SayTheSame(issued, issued', Name) /\ AllResources' = AllResources
    BY <1>2, <1>4, Zenon DEF Saved, AllResources, keyVars
  <2>4. TypeOK' /\ KeyInv' /\ SignedBy(issued, current)'
    BY <2>2, Zenon DEF IInv, TypeOK, KeyInv, SignedBy, defVars, keyVars, Objects
  <2> QED
    BY <2>2, <2>3, <2>4, SameInv DEF IInv
<1> QED
  BY <1>3, <1>4

\* The update of one family is an update, and leaves the others as they are.
LEMMA OnlyIs ==
    ASSUME NEW family \in Family, NEW u \in [NamesOf(family) -> Payload \cup {Keep, Drop}]
    PROVE  /\ Only(family, u) \in Updates
           /\ \A n \in NamesOf(family) : Only(family, u)[n] = u[n]
           /\ \A n \in Name \ NamesOf(family) : Only(family, u)[n] = Keep
<1>1. NamesOf(family) \subseteq Name
  BY DEF NamesOf, Name
<1> QED
  BY <1>1 DEF Only, Updates

\* A command that changes the objects of one family and is saved.
LEMMA FamilySaved ==
    ASSUME IInv, current # None, NEW family \in Family,
           NEW u \in [NamesOf(family) -> Payload \cup {Keep, Drop}],
           Saved(Only(family, u), current), UNCHANGED keyVars
    PROVE  /\ issued' \in Objects /\ published' \in Objects /\ ahead' \subseteq Name
           /\ crashes' = crashes
           /\ PublishedInv' /\ KeyInv' /\ SignedBy(issued, current)'
           /\ SayTheSame(issued, issued', Name \ NamesOf(family))
<1>1. /\ issued \in Objects /\ published \in Objects /\ ahead \subseteq Name
      /\ current \in CAKey /\ SignedBy(issued, current) /\ PublishedInv
  BY DEF IInv, TypeOK, Objects
<1>2. Only(family, u) \in Updates /\ \A n \in Name \ NamesOf(family) : Only(family, u)[n] = Keep
  BY OnlyIs
<1>3. /\ issued' \in Objects /\ published' \in Objects /\ ahead' \subseteq Name
      /\ crashes' = crashes /\ PublishedInv' /\ SignedBy(issued', current)
  BY <1>1, <1>2, SavedObjects, Zenon
<1>4. KeyInv' /\ SignedBy(issued, current)'
  BY <1>3 DEF IInv, KeyInv, SignedBy, keyVars
<1>5. Name \ NamesOf(family) \in SUBSET Name
  OBVIOUS
<1>6. SayTheSame(issued, issued', Name \ NamesOf(family))
  BY <1>2, <1>5, KeptSame DEF Saved
<1> QED
  BY <1>3, <1>4, <1>6

\* The families that a command does not change.
LEMMA OthersFollow ==
    ASSUME IInv, NEW names \in SUBSET Name, SayTheSame(issued, issued', names),
           AllResources' = AllResources
    PROVE  /\ RoaNames \subseteq names /\ routes' = routes /\ ("roa" \in stale' <=> "roa" \in stale)
                => RoaInv'
           /\ AspaNames \subseteq names /\ aspas' = aspas /\ ("aspa" \in stale' <=> "aspa" \in stale)
                => AspaInv'
           /\ RouterNames \subseteq names /\ routers' = routers
                /\ ("bgpsec" \in stale' <=> "bgpsec" \in stale)
                => RouterInv'
<1>1. ASSUME RoaNames \subseteq names, routes' = routes, "roa" \in stale' <=> "roa" \in stale
      PROVE  RoaInv'
  <2>1. PICK held \in SUBSET Route : RoasFor(issued, held) /\ ("roa" \notin stale => held = Held)
    BY DEF IInv, RoaInv
  <2>2. SayTheSame(issued, issued', RoaNames)
    BY <1>1 DEF SayTheSame
  <2>3. RoasFor(issued', held)
    BY <2>1, <2>2, SameFor
  <2>4. Held' = Held
    BY <1>1 DEF Held
  <2> QED
    BY <1>1, <2>1, <2>3, <2>4 DEF RoaInv
<1>2. ASSUME AspaNames \subseteq names, aspas' = aspas, "aspa" \in stale' <=> "aspa" \in stale,
             "aspa" \notin stale
      PROVE  AspaInv'
  <2>1. SayTheSame(issued, issued', AspaNames)
    BY <1>2 DEF SayTheSame
  <2>2. AspasFor(issued', aspas, AllResources)
    BY <1>2, <2>1, SameFor DEF IInv, AspaInv
  <2> QED
    BY <1>2, <2>2 DEF AspaInv
<1>3. ASSUME RouterNames \subseteq names, routers' = routers,
             "bgpsec" \in stale' <=> "bgpsec" \in stale, "bgpsec" \notin stale
      PROVE  RouterInv'
  <2>1. SayTheSame(issued, issued', RouterNames)
    BY <1>3 DEF SayTheSame
  <2>2. RoutersFor(issued', routers, AllResources)
    BY <1>3, <2>1, SameFor DEF IInv, RouterInv
  <2> QED
    BY <1>3, <2>2 DEF RouterInv
<1>4. /\ "aspa" \in stale' => AspaInv'
      /\ "bgpsec" \in stale' => RouterInv'
  BY DEF AspaInv, RouterInv
<1> QED
  BY <1>1, <1>2, <1>3, <1>4

\* Without a current key a command changes definitions only.
LEMMA NoKeySaved ==
    ASSUME IInv, current = None, Saved(NoUpdate, current), UNCHANGED keyVars
    PROVE  /\ issued' \in Objects /\ published' \in Objects /\ ahead' \subseteq Name
           /\ crashes' = crashes
           /\ PublishedInv' /\ KeyInv' /\ SignedBy(issued, current)'
           /\ RoaInv' /\ AspaInv' /\ RouterInv'
<1>1. issued \in Objects /\ published \in Objects /\ issued = NoObjects
  BY DEF IInv, TypeOK, Objects, KeyInv
<1>2. issued' = issued /\ published' = published /\ ahead' = ahead /\ crashes' = crashes
  BY <1>1, SavedNothing
<1>3. PublishedInv' /\ KeyInv' /\ ahead' \subseteq Name
  BY <1>2 DEF IInv, TypeOK, PublishedInv, KeyInv, keyVars
<1>4. (current = None /\ issued = NoObjects)'
  BY <1>1, <1>2 DEF keyVars
<1>5. (RoaInv /\ AspaInv /\ RouterInv /\ SignedBy(issued, current))'
  BY <1>4, NothingInv, PTL
<1> QED
  BY <1>1, <1>2, <1>3, <1>5

-----------------------------------------------------------------------------
(* The commands that change definitions *)

\* The update that such a command crashes with, or is saved with, is an update.
LEMMA ChangeIs ==
    ASSUME TypeOK, NEW family \in Family,
           NEW u \in [NamesOf(family) -> Payload \cup {Keep, Drop}]
    PROVE  /\ Change(family, u) \in Updates
           /\ Change(family, u) = NoUpdate \/ current \in CAKey
           /\ current = None => Change(family, u) = NoUpdate
           /\ current # None => Change(family, u) = Only(family, u)
<1>1. NoUpdate \in Updates
  BY DEF NoUpdate, Updates
<1>2. Only(family, u) \in Updates
  BY OnlyIs
<1> QED
  BY <1>1, <1>2 DEF Change, TypeOK

\* route_authorizations_update keeps the invariant: the ROAs are those for the
\* routes that are wanted, or the command is lost with a crash.
LEMMA RoutesUpdateStep ==
    ASSUME IInv, NEW added \in SUBSET Route, NEW removed \in SUBSET Route,
           RoutesUpdate(added, removed)
    PROVE  IInv'
<1> DEFINE desired == (routes \ removed) \cup added
           u  == RoaUpdate(desired, current)
           up == Change("roa", u)
<1>1. desired \in SUBSET Route
  BY DEF IInv, TypeOK
<1>2. u \in [NamesOf("roa") -> Payload \cup {Keep, Drop}] /\ "roa" \in Family
  <2>1. aspas \in [Asn -> (SUBSET Provider) \cup {None}] /\ routers \in SUBSET Router
    BY DEF IInv, TypeOK
  <2>2. u \in [RoaNames -> Payload \cup {Keep, Drop}]
    BY <1>1, <2>1, UpdateTypes, Zenon
  <2> QED
    BY <2>2 DEF NamesOf, Family
<1>3. /\ \/ Saved(up, current) /\ routes' = desired /\ stale' = stale \ {"roa"}
         \/ Crashed(up, current) /\ UNCHANGED <<routes, stale>>
      /\ UNCHANGED <<aspas, routers, keyVars, focus>>
  BY DEF RoutesUpdate
<1> HIDE DEF desired, u, up
<1>4. /\ up \in Updates /\ (up = NoUpdate \/ current \in CAKey)
      /\ current = None => up = NoUpdate
      /\ current # None => up = Only("roa", u)
  BY <1>2, ChangeIs DEF IInv, up
<1>5. CASE Crashed(up, current) /\ UNCHANGED <<routes, stale>>
  <2>1. UNCHANGED <<defVars, keyVars, focus, stale>>
    BY <1>3, <1>5 DEF defVars
  <2> QED
    BY <1>4, <1>5, <2>1, CrashStep
<1>6. CASE Saved(up, current) /\ routes' = desired /\ stale' = stale \ {"roa"}
  <2>1. UNCHANGED keyVars /\ AllResources' = AllResources
    BY <1>3, Zenon DEF keyVars, AllResources
  <2>2. ASSUME issued' \in Objects, published' \in Objects, ahead' \subseteq Name,
               crashes' = crashes
        PROVE  TypeOK'
    BY <1>1, <1>3, <1>6, <2>2, Zenon DEF IInv, TypeOK, keyVars, Objects
  <2>3. CASE current = None
    BY <1>4, <1>6, <2>1, <2>2, <2>3, NoKeySaved DEF IInv
  <2>4. CASE current # None
    <3>1. /\ issued' \in Objects /\ published' \in Objects /\ ahead' \subseteq Name
          /\ crashes' = crashes
          /\ PublishedInv' /\ KeyInv' /\ SignedBy(issued, current)'
          /\ SayTheSame(issued, issued', Name \ NamesOf("roa"))
      BY <1>2, <1>4, <1>6, <2>1, <2>4, FamilySaved
    <3>2. AspaInv' /\ RouterInv'
      <4>1. /\ Name \ NamesOf("roa") \in SUBSET Name
            /\ AspaNames \subseteq Name \ NamesOf("roa")
            /\ RouterNames \subseteq Name \ NamesOf("roa")
        BY Names DEF NamesOf, Name
      <4>2. /\ aspas' = aspas /\ routers' = routers
            /\ "aspa" \in stale' <=> "aspa" \in stale
            /\ "bgpsec" \in stale' <=> "bgpsec" \in stale
        BY <1>3, <1>6
      <4> QED
        BY <2>1, <3>1, <4>1, <4>2, OthersFollow, Zenon
    <3>3. RoaInv'
      <4>1. PICK held \in SUBSET Route : RoasFor(issued, held)
        BY Zenon DEF IInv, RoaInv
      <4>2. issued \in Objects /\ current.id \in 1 .. MaxKeys
        BY <2>4, Zenon DEF IInv, TypeOK, Objects, CAKey
      <4>3. \A n \in RoaNames : up[n] = RoaUpdate(desired, current)[n]
        <5>1. NamesOf("roa") = RoaNames
          BY DEF NamesOf
        <5>2. \A n \in NamesOf("roa") : Only("roa", u)[n] = u[n]
          BY <1>2, OnlyIs
        <5>3. up = Only("roa", u)
          BY <1>4, <2>4, Zenon
        <5> QED
          BY <5>1, <5>2, <5>3 DEF u
      <4>4. RoasFor(Apply(issued, up, current), Relevant(desired, current))
        BY <1>1, <1>4, <4>1, <4>2, <4>3, RoaUpdateGives, Zenon
      <4>5. Held' = Relevant(desired, current)
        BY <1>6, <2>1, <2>4, Zenon DEF Held, Relevant, AllResources
      <4>6. Held' \in SUBSET Route /\ RoasFor(issued', Held')
        BY <1>1, <1>6, <4>4, <4>5 DEF Saved, Relevant
      <4> QED
        BY <4>6 DEF RoaInv
    <3> QED
      BY <2>2, <3>1, <3>2, <3>3, Zenon DEF IInv
  <2> QED
    BY <2>3, <2>4
<1> QED
  BY <1>3, <1>5, <1>6

\* Both commands that change ASPA definitions: the objects are updated for the
\* definitions `desired', and those are what there is afterwards unless the
\* family is stale.
LEMMA AspaStep ==
    ASSUME IInv, NEW desired \in [Asn -> (SUBSET Provider) \cup {None}],
           NEW up, up = Change("aspa", AspaUpdate(desired, current)),
           \/ /\ Saved(up, current)
              /\ aspas' \in [Asn -> (SUBSET Provider) \cup {None}]
              /\ stale' \in {stale \ {"aspa"}, stale \cup {"aspa"}}
              /\ "aspa" \notin stale' => aspas' = desired
           \/ Crashed(up, current) /\ UNCHANGED <<aspas, stale>>,
           UNCHANGED <<routes, routers, keyVars, focus>>
    PROVE  IInv'
<1> DEFINE u == AspaUpdate(desired, current)
<1>2. u \in [NamesOf("aspa") -> Payload \cup {Keep, Drop}] /\ "aspa" \in Family
  <2>1. routes \in SUBSET Route /\ routers \in SUBSET Router
    BY DEF IInv, TypeOK
  <2>2. u \in [AspaNames -> Payload \cup {Keep, Drop}]
    BY <2>1, UpdateTypes
  <2> QED
    BY <2>2, Zenon DEF NamesOf, Family
<1> HIDE DEF u
<1>4. /\ up \in Updates /\ (up = NoUpdate \/ current \in CAKey)
      /\ current = None => up = NoUpdate
      /\ current # None => up = Only("aspa", u)
  BY <1>2, ChangeIs DEF IInv, u
<1>5. CASE Crashed(up, current) /\ UNCHANGED <<aspas, stale>>
  <2>1. UNCHANGED <<defVars, keyVars, focus, stale>>
    BY <1>5 DEF defVars
  <2> QED
    BY <1>4, <1>5, <2>1, CrashStep
<1>6. CASE /\ Saved(up, current)
           /\ aspas' \in [Asn -> (SUBSET Provider) \cup {None}]
           /\ stale' \in {stale \ {"aspa"}, stale \cup {"aspa"}}
           /\ "aspa" \notin stale' => aspas' = desired
  <2>1. UNCHANGED keyVars /\ AllResources' = AllResources
    BY Zenon DEF keyVars, AllResources
  <2>2. ASSUME issued' \in Objects, published' \in Objects, ahead' \subseteq Name,
               crashes' = crashes
        PROVE  TypeOK'
    BY <1>6, <2>2, Zenon DEF IInv, TypeOK, keyVars, Objects, Family
  <2>3. CASE current = None
    BY <1>4, <1>6, <2>1, <2>2, <2>3, NoKeySaved, Zenon DEF IInv
  <2>4. CASE current # None
    <3>1. /\ issued' \in Objects /\ published' \in Objects /\ ahead' \subseteq Name
          /\ crashes' = crashes
          /\ PublishedInv' /\ KeyInv' /\ SignedBy(issued, current)'
          /\ SayTheSame(issued, issued', Name \ NamesOf("aspa"))
      BY <1>2, <1>4, <1>6, <2>1, <2>4, FamilySaved, Zenon
    <3>2. RoaInv' /\ RouterInv'
      <4>1. /\ Name \ NamesOf("aspa") \in SUBSET Name
            /\ RoaNames \subseteq Name \ NamesOf("aspa")
            /\ RouterNames \subseteq Name \ NamesOf("aspa")
        BY Names DEF NamesOf, Name
      <4>2. /\ "roa" \in stale' <=> "roa" \in stale
            /\ "bgpsec" \in stale' <=> "bgpsec" \in stale
        BY <1>6
      <4> QED
        BY <2>1, <3>1, <4>1, <4>2, OthersFollow, Zenon
    <3>3. AspaInv'
      <4>1. issued \in Objects /\ current.id \in 1 .. MaxKeys
        BY <2>4, Zenon DEF IInv, TypeOK, Objects, CAKey
      <4>2. \A n \in AspaNames : up[n] = AspaUpdate(desired, current)[n]
        <5>1. NamesOf("aspa") = AspaNames
          BY DEF NamesOf
        <5>2. \A n \in NamesOf("aspa") : Only("aspa", u)[n] = u[n]
          BY <1>2, OnlyIs
        <5>3. up = Only("aspa", u)
          BY <1>4, <2>4, Zenon
        <5> QED
          BY <5>1, <5>2, <5>3, Zenon DEF u
      <4>3. AspasFor(issued', desired, current.resources)
        BY <1>4, <1>6, <4>1, <4>2, AspaUpdateGives, Zenon DEF Saved
      <4>4. current.resources = AllResources'
        BY <2>1, <2>4, Zenon DEF AllResources
      <4> QED
        BY <1>6, <4>3, <4>4, Zenon DEF AspaInv
    <3> QED
      BY <2>2, <3>1, <3>2, <3>3, Zenon DEF IInv
  <2> QED
    BY <2>3, <2>4, Zenon
<1> QED
  BY <1>5, <1>6

\* aspas_definitions_update keeps the invariant.  If a customer is removed and
\* added the family is stale.
LEMMA AspaDefinitionsUpdateStep ==
    ASSUME IInv, NEW add \in [Asn -> (SUBSET Provider) \cup {None}], NEW remove \in SUBSET Asn,
           AspaDefinitionsUpdate(add, remove)
    PROVE  IInv'
<1> DEFINE desired == [a \in Asn |-> IF add[a] # None THEN add[a]
                                     ELSE IF a \in remove THEN None ELSE aspas[a]]
           up == Change("aspa", AspaUpdate(desired, current))
           after == [a \in Asn |-> IF a \in remove THEN None ELSE desired[a]]
           both == \E a \in remove : add[a] # None
<1>1. desired \in [Asn -> (SUBSET Provider) \cup {None}]
  BY DEF IInv, TypeOK
<1>2. after \in [Asn -> (SUBSET Provider) \cup {None}]
  BY <1>1
<1>3. ~both => after = desired
  BY Zenon
<1>4. /\ \/ /\ Saved(up, current)
            /\ aspas' = after
            /\ stale' = (stale \ {"aspa"}) \cup (IF both THEN {"aspa"} ELSE {})
         \/ Crashed(up, current) /\ UNCHANGED <<aspas, stale>>
      /\ UNCHANGED <<routes, routers, keyVars, focus>>
  BY Zenon DEF AspaDefinitionsUpdate
<1> HIDE DEF desired, up, after, both
<1>5. \/ /\ Saved(up, current)
         /\ aspas' \in [Asn -> (SUBSET Provider) \cup {None}]
         /\ stale' \in {stale \ {"aspa"}, stale \cup {"aspa"}}
         /\ "aspa" \notin stale' => aspas' = desired
      \/ Crashed(up, current) /\ UNCHANGED <<aspas, stale>>
  <2>1. CASE Crashed(up, current) /\ UNCHANGED <<aspas, stale>>
    BY <2>1
  <2>2. CASE Saved(up, current) /\ aspas' = after
             /\ stale' = (stale \ {"aspa"}) \cup (IF both THEN {"aspa"} ELSE {})
    <3>1. CASE both
      <4>1. stale' = stale \cup {"aspa"}
        BY <2>2, <3>1, Zenon
      <4> QED
        BY <1>2, <2>2, <4>1
    <3>2. CASE ~both
      <4>1. stale' = stale \ {"aspa"}
        BY <2>2, <3>2
      <4> QED
        BY <1>2, <1>3, <2>2, <3>2, <4>1
    <3> QED
      BY <3>1, <3>2, Zenon
  <2> QED
    BY <1>4, <2>1, <2>2
<1>6. up = Change("aspa", AspaUpdate(desired, current))
  BY Zenon DEF up
<1> QED
  BY <1>1, <1>4, <1>5, <1>6, AspaStep

\* aspas_update keeps the invariant.
LEMMA AspasUpdateStep ==
    ASSUME IInv, NEW a \in Asn, NEW added \in SUBSET Provider, NEW removed \in SUBSET Provider,
           AspasUpdate(a, added, removed)
    PROVE  IInv'
<1> DEFINE desired == [aspas EXCEPT ![a] = (@ \ removed) \cup added]
           up == Change("aspa", AspaUpdate(desired, current))
<1>1. desired \in [Asn -> (SUBSET Provider) \cup {None}]
  <2>1. aspas \in [Asn -> (SUBSET Provider) \cup {None}] /\ aspas[a] \in SUBSET Provider
    BY Zenon DEF IInv, TypeOK, AspasUpdate
  <2> QED
    BY <2>1, Zenon
<1>2. /\ \/ Saved(up, current) /\ aspas' = desired /\ stale' = stale \ {"aspa"}
         \/ Crashed(up, current) /\ UNCHANGED <<aspas, stale>>
      /\ UNCHANGED <<routes, routers, keyVars, focus>>
  BY DEF AspasUpdate
<1>3. up = Change("aspa", AspaUpdate(desired, current))
  OBVIOUS
<1> HIDE DEF desired, up
<1>4. \/ /\ Saved(up, current)
         /\ aspas' \in [Asn -> (SUBSET Provider) \cup {None}]
         /\ stale' \in {stale \ {"aspa"}, stale \cup {"aspa"}}
         /\ "aspa" \notin stale' => aspas' = desired
      \/ Crashed(up, current) /\ UNCHANGED <<aspas, stale>>
  BY <1>1, <1>2
<1> QED
  BY <1>1, <1>2, <1>3, <1>4, AspaStep

\* bgpsec_definitions_update keeps the invariant.
LEMMA BgpsecUpdateStep ==
    ASSUME IInv, NEW added \in SUBSET Router, NEW removed \in SUBSET Router,
           BgpsecUpdate(added, removed)
    PROVE  IInv'
<1> DEFINE desired == (routers \ removed) \cup added
           u  == RouterUpdate(desired, current)
           up == Change("bgpsec", u)
<1>1. desired \in SUBSET Router
  BY DEF IInv, TypeOK
<1>2. u \in [NamesOf("bgpsec") -> Payload \cup {Keep, Drop}] /\ "bgpsec" \in Family
  <2>1. aspas \in [Asn -> (SUBSET Provider) \cup {None}] /\ routes \in SUBSET Route
    BY Zenon DEF IInv, TypeOK
  <2>2. u \in [RouterNames -> Payload \cup {Keep, Drop}]
    BY <1>1, <2>1, UpdateTypes, Zenon
  <2> QED
    BY <2>2, Zenon DEF NamesOf, Family
<1>3. /\ \/ Saved(up, current) /\ routers' = desired /\ stale' = stale \ {"bgpsec"}
         \/ Crashed(up, current) /\ UNCHANGED <<routers, stale>>
      /\ UNCHANGED <<routes, aspas, keyVars, focus>>
  BY Zenon DEF BgpsecUpdate
<1> HIDE DEF desired, u, up
<1>4. /\ up \in Updates /\ (up = NoUpdate \/ current \in CAKey)
      /\ current = None => up = NoUpdate
      /\ current # None => up = Only("bgpsec", u)
  BY <1>2, ChangeIs DEF IInv, up
<1>5. CASE Crashed(up, current) /\ UNCHANGED <<routers, stale>>
  <2>1. UNCHANGED <<defVars, keyVars, focus, stale>>
    BY <1>3, <1>5 DEF defVars
  <2> QED
    BY <1>4, <1>5, <2>1, CrashStep
<1>6. CASE Saved(up, current) /\ routers' = desired /\ stale' = stale \ {"bgpsec"}
  <2>1. UNCHANGED keyVars /\ AllResources' = AllResources
    BY <1>3, Zenon DEF keyVars, AllResources
  <2>2. ASSUME issued' \in Objects, published' \in Objects, ahead' \subseteq Name,
               crashes' = crashes
        PROVE  TypeOK'
    BY <1>1, <1>3, <1>6, <2>2, Zenon DEF IInv, TypeOK, keyVars, Objects
  <2>3. CASE current = None
    BY <1>4, <1>6, <2>1, <2>2, <2>3, NoKeySaved DEF IInv
  <2>4. CASE current # None
    <3>1. /\ issued' \in Objects /\ published' \in Objects /\ ahead' \subseteq Name
          /\ crashes' = crashes
          /\ PublishedInv' /\ KeyInv' /\ SignedBy(issued, current)'
          /\ SayTheSame(issued, issued', Name \ NamesOf("bgpsec"))
      BY <1>2, <1>4, <1>6, <2>1, <2>4, FamilySaved, Zenon
    <3>2. RoaInv' /\ AspaInv'
      <4>1. /\ Name \ NamesOf("bgpsec") \in SUBSET Name
            /\ RoaNames \subseteq Name \ NamesOf("bgpsec")
            /\ AspaNames \subseteq Name \ NamesOf("bgpsec")
        BY Names DEF NamesOf, Name
      <4>2. /\ aspas' = aspas /\ routes' = routes
            /\ "aspa" \in stale' <=> "aspa" \in stale
            /\ "roa" \in stale' <=> "roa" \in stale
        BY <1>3, <1>6
      <4> QED
        BY <2>1, <3>1, <4>1, <4>2, OthersFollow, Zenon
    <3>3. RouterInv'
      <4>1. issued \in Objects /\ current.id \in 1 .. MaxKeys
        BY <2>4, Zenon DEF IInv, TypeOK, Objects, CAKey
      <4>2. \A n \in RouterNames : up[n] = RouterUpdate(desired, current)[n]
        <5>1. NamesOf("bgpsec") = RouterNames
          BY DEF NamesOf
        <5>2. \A n \in NamesOf("bgpsec") : Only("bgpsec", u)[n] = u[n]
          BY <1>2, OnlyIs
        <5>3. up = Only("bgpsec", u)
          BY <1>4, <2>4, Zenon
        <5> QED
          BY <5>1, <5>2, <5>3 DEF u
      <4>3. RoutersFor(issued', desired, current.resources)
        BY <1>1, <1>4, <1>6, <4>1, <4>2, RouterUpdateGives, Zenon DEF Saved
      <4>4. current.resources = AllResources'
        BY <2>1, <2>4, Zenon DEF AllResources
      <4> QED
        BY <1>6, <4>3, <4>4, Zenon DEF RouterInv
    <3> QED
      BY <2>2, <3>1, <3>2, <3>3, Zenon DEF IInv
  <2> QED
    BY <2>3, <2>4, Zenon
<1> QED
  BY <1>3, <1>5, <1>6

-----------------------------------------------------------------------------
(* The certificates of the CA *)

\* The update for a key is an update of each of the three families.
LEMMA UpdateAllIs ==
    ASSUME TypeOK, NEW key
    PROVE  /\ UpdateAll(key) \in Updates
           /\ \A n \in RoaNames : UpdateAll(key)[n] = RoaUpdate(routes, key)[n]
           /\ \A n \in AspaNames : UpdateAll(key)[n] = AspaUpdate(aspas, key)[n]
           /\ \A n \in RouterNames : UpdateAll(key)[n] = RouterUpdate(routers, key)[n]
<1>1. /\ routes \in SUBSET Route /\ routers \in SUBSET Router
      /\ aspas \in [Asn -> (SUBSET Provider) \cup {None}]
  BY DEF TypeOK
<1>2. /\ RoaUpdate(routes, key) \in [RoaNames -> Payload \cup {Keep, Drop}]
      /\ AspaUpdate(aspas, key) \in [AspaNames -> Payload \cup {Keep, Drop}]
      /\ RouterUpdate(routers, key) \in [RouterNames -> Payload \cup {Keep, Drop}]
  BY <1>1, UpdateTypes, Zenon
<1>3. \A n \in Name : UpdateAll(key)[n] = IF n \in RoaNames THEN RoaUpdate(routes, key)[n]
                                          ELSE IF n \in AspaNames THEN AspaUpdate(aspas, key)[n]
                                          ELSE RouterUpdate(routers, key)[n]
  BY Zenon DEF UpdateAll
<1>4. /\ RoaNames \cap AspaNames = {} /\ RoaNames \cap RouterNames = {}
      /\ AspaNames \cap RouterNames = {}
      /\ Name = RoaNames \cup AspaNames \cup RouterNames
  BY Names, Zenon DEF Name
<1>5. UpdateAll(key) = [n \in Name |-> UpdateAll(key)[n]]
  BY Zenon DEF UpdateAll
<1>6. \A n \in Name : UpdateAll(key)[n] \in Payload \cup {Keep, Drop}
  BY <1>2, <1>3, <1>4
<1>7. UpdateAll(key) \in Updates
  BY <1>5, <1>6 DEF Updates
<1> QED
  BY <1>3, <1>4, <1>7, Zenon

\* All three families are updated for the resources of the key that is current
\* from now on.
LEMMA AllSaved ==
    ASSUME IInv, NEW key \in CAKey, SignedBy(issued, key), Saved(UpdateAll(key), key),
           current' = key, UNCHANGED <<defVars, new, focus>>,
           keys' \in 0 .. MaxKeys, classes' \in 0 .. MaxClasses, stale' \subseteq Family
    PROVE  IInv'
<1>1. /\ issued \in Objects /\ published \in Objects /\ ahead \subseteq Name /\ PublishedInv
      /\ TypeOK
  BY Zenon DEF IInv, TypeOK, Objects
<1>2. key # None /\ key.id \in 1 .. MaxKeys
  BY SignedObjectsAssumption, Zenon DEF CAKey
<1>3. /\ UpdateAll(key) \in Updates
      /\ \A n \in RoaNames : UpdateAll(key)[n] = RoaUpdate(routes, key)[n]
      /\ \A n \in AspaNames : UpdateAll(key)[n] = AspaUpdate(aspas, key)[n]
      /\ \A n \in RouterNames : UpdateAll(key)[n] = RouterUpdate(routers, key)[n]
  BY <1>1, UpdateAllIs, Zenon
<1>4. /\ issued' \in Objects /\ published' \in Objects /\ ahead' \subseteq Name
      /\ crashes' = crashes /\ PublishedInv' /\ SignedBy(issued', key)
  BY <1>1, <1>3, SavedObjects, Zenon
<1>5. TypeOK' /\ KeyInv' /\ SignedBy(issued, current)'
  BY <1>2, <1>4, Zenon DEF IInv, TypeOK, KeyInv, SignedBy, defVars, Objects
<1>6. AllResources' = key.resources
  BY <1>2, Zenon DEF AllResources
<1>7. routes \in SUBSET Route /\ routers \in SUBSET Router
      /\ aspas \in [Asn -> (SUBSET Provider) \cup {None}]
  BY <1>1 DEF TypeOK
<1>8. RoaInv'
  <2>1. PICK held \in SUBSET Route : RoasFor(issued, held)
    BY Zenon DEF IInv, RoaInv
  <2>2. RoasFor(issued', Relevant(routes, key))
    BY <1>1, <1>2, <1>3, <1>7, <2>1, RoaUpdateGives, Zenon DEF Saved
  <2>3. Held' = Relevant(routes, key) /\ Relevant(routes, key) \in SUBSET Route
    BY <1>6, <1>7 DEF Held, Relevant, defVars
  <2> QED
    BY <2>2, <2>3 DEF RoaInv
<1>9. AspaInv'
  <2>1. AspasFor(issued', aspas, key.resources)
    BY <1>1, <1>2, <1>3, <1>7, AspaUpdateGives, Zenon DEF Saved
  <2> QED
    BY <1>6, <2>1, Zenon DEF AspaInv, defVars
<1>10. RouterInv'
  <2>1. RoutersFor(issued', routers, key.resources)
    BY <1>1, <1>2, <1>3, <1>7, RouterUpdateGives, Zenon DEF Saved
  <2> QED
    BY <1>6, <2>1, Zenon DEF RouterInv, defVars
<1> QED
  BY <1>4, <1>5, <1>8, <1>9, <1>10, Zenon DEF IInv

\* The first certificate keeps the invariant: all that is signed is signed by it.
LEMMA FirstCertStep ==
    ASSUME IInv, NEW resources \in SUBSET (Prefix \cup Asn), FirstCert(resources)
    PROVE  IInv'
<1>1. /\ keys \in 0 .. MaxKeys /\ classes \in 0 .. MaxClasses /\ stale \subseteq Family
      /\ keys < MaxKeys /\ classes < MaxClasses /\ MaxKeys \in Nat /\ MaxClasses \in Nat
  BY SignedObjectsAssumption, Zenon DEF IInv, TypeOK, FirstCert
<1>2. /\ current' \in CAKey /\ keys' \in 0 .. MaxKeys /\ classes' \in 0 .. MaxClasses
      /\ stale' \subseteq Family
  BY <1>1 DEF FirstCert, CAKey
<1>3. issued = NoObjects
  BY DEF IInv, KeyInv, FirstCert
<1>4. SignedBy(issued, current')
  BY <1>3 DEF SignedBy, NoObjects
<1>5. Saved(UpdateAll(current'), current') /\ UNCHANGED <<defVars, new, focus>>
  BY DEF FirstCert
<1>6. PICK key \in CAKey : key = current'
  BY <1>2
<1>7. SignedBy(issued, key) /\ Saved(UpdateAll(key), key)
  BY <1>4, <1>5, <1>6
<1> QED
  BY <1>2, <1>5, <1>6, <1>7, AllSaved, Zenon

\* update_rcvd_cert_current keeps the invariant, also with other resources.
LEMMA ReceiveCertStep ==
    ASSUME IInv, NEW resources \in SUBSET (Prefix \cup Asn), ReceiveCert(resources)
    PROVE  IInv'
<1> DEFINE key == [id |-> current.id, resources |-> resources]
           changed == resources # current.resources
           up == IF changed THEN UpdateAll(key) ELSE NoUpdate
<1>1. /\ current \in CAKey /\ current # None
      /\ issued \in Objects /\ published \in Objects /\ TypeOK
  BY Zenon DEF IInv, TypeOK, ReceiveCert, Objects
<1>2. key \in CAKey /\ key.id = current.id
  BY <1>1, Zenon DEF CAKey
<1>3. /\ \/ Saved(up, key) /\ current' = key /\ stale' = IF changed THEN {} ELSE stale
         \/ Crashed(up, key) /\ UNCHANGED <<current, stale>>
      /\ UNCHANGED <<defVars, new, keys, classes, focus>>
  BY DEF ReceiveCert
<1>4. ~changed => key = current
  BY <1>1, Zenon DEF CAKey
<1>5. (changed => up = UpdateAll(key)) /\ (~changed => up = NoUpdate)
  BY Zenon
<1> HIDE DEF key, changed, up
<1>6. up \in Updates
  <2>1. NoUpdate \in Updates
    BY Zenon DEF NoUpdate, Updates
  <2> QED
    BY <1>1, <1>5, <2>1, UpdateAllIs, Zenon
<1>7. CASE Crashed(up, key) /\ UNCHANGED <<current, stale>>
  <2>1. UNCHANGED <<defVars, keyVars, focus, stale>>
    BY <1>3, <1>7 DEF keyVars
  <2> QED
    BY <1>2, <1>6, <1>7, <2>1, CrashStep
<1>8. CASE Saved(up, key) /\ current' = key /\ stale' = IF changed THEN {} ELSE stale
  <2>1. CASE changed
    <3>1. SignedBy(issued, key)
      BY <1>2, SignedObjectsAssumption, Zenon DEF IInv, SignedBy
    <3>2. keys' \in 0 .. MaxKeys /\ classes' \in 0 .. MaxClasses /\ stale' \subseteq Family
      BY <1>3, <1>8 DEF IInv, TypeOK
    <3>3. Saved(UpdateAll(key), key) /\ UNCHANGED <<defVars, new, focus>>
      BY <1>3, <1>5, <1>8, <2>1
    <3> QED
      BY <1>2, <1>8, <3>1, <3>2, <3>3, AllSaved, Zenon
  <2>2. CASE ~changed
    <3>1. Saved(NoUpdate, key) /\ current' = current /\ stale' = stale
      BY <1>4, <1>5, <1>8, <2>2
    <3>2. issued' = issued /\ published' = published /\ ahead' = ahead /\ crashes' = crashes
      BY <1>1, <3>1, SavedNothing, Zenon
    <3>3. TypeOK' /\ KeyInv' /\ PublishedInv' /\ SignedBy(issued, current)'
      BY <1>3, <3>1, <3>2, Zenon DEF IInv, TypeOK, KeyInv, PublishedInv, SignedBy, defVars
    <3>4. SayTheSame(issued, issued', Name) /\ AllResources' = AllResources
      BY <3>1, <3>2, Zenon DEF SayTheSame, AllResources
    <3>5. RoaInv' /\ AspaInv' /\ RouterInv'
      BY <1>3, <3>1, <3>4, SameInv, Zenon
    <3> QED
      BY <3>3, <3>5 DEF IInv
  <2> QED
    BY <2>1, <2>2, Zenon
<1> QED
  BY <1>3, <1>7, <1>8, Zenon

\* A certificate for the new key changes no objects.
LEMMA ReceiveNewCertStep ==
    ASSUME IInv, NEW resources \in SUBSET (Prefix \cup Asn), ReceiveNewCert(resources)
    PROVE  IInv'
<1>1. UNCHANGED <<defVars, current, classes, objVars, focus, crashes, stale>> /\ current # None
  BY Zenon DEF ReceiveNewCert
<1>2. keys' \in 0 .. MaxKeys /\ new' \in CAKey
  <2>1. keys \in 0 .. MaxKeys /\ new \in CAKey \cup {None} /\ MaxKeys \in Nat
    BY SignedObjectsAssumption DEF IInv, TypeOK
  <2>2. CASE new = None /\ keys < MaxKeys /\ keys' = keys + 1
             /\ new' = [id |-> keys + 1, resources |-> resources]
    <3>1. keys + 1 \in 1 .. MaxKeys /\ keys' \in 0 .. MaxKeys
      BY <2>1, <2>2
    <3> QED
      BY <2>2, <3>1 DEF CAKey
  <2>3. CASE new # None /\ new' = [id |-> new.id, resources |-> resources] /\ UNCHANGED keys
    BY <2>1, <2>3, Zenon DEF CAKey
  <2> QED
    BY <2>2, <2>3, Zenon DEF ReceiveNewCert
<1>3. TypeOK' /\ KeyInv' /\ PublishedInv' /\ SignedBy(issued, current)'
  BY <1>1, <1>2, Zenon DEF IInv, TypeOK, KeyInv, PublishedInv, SignedBy, defVars, objVars
<1>4. SayTheSame(issued, issued', Name) /\ AllResources' = AllResources
  BY <1>1, Zenon DEF SayTheSame, AllResources, objVars
<1>5. RoaInv' /\ AspaInv' /\ RouterInv'
  BY <1>1, <1>4, SameInv
<1> QED
  BY <1>3, <1>5 DEF IInv

\* All objects are issued again by the new key: they say the same, and are what
\* is published.
LEMMA KeyRollActivateStep ==
    ASSUME IInv, KeyRollActivate
    PROVE  IInv'
<1> DEFINE names == {n \in Name : issued[n] # None}
           up == Renewed(names)
<1>1. /\ new # None /\ new \in CAKey /\ new.id \in 1 .. MaxKeys
      /\ issued \in Objects /\ current # None /\ new # None
  BY Zenon DEF KeyRollActivate, IInv, TypeOK, KeyInv, CAKey, Objects
<1>2. up \in Updates /\ SayTheSame(issued, Apply(issued, up, new), Name)
  <2>1. names \in SUBSET Name /\ \A n \in names : issued[n] # None
    BY Zenon
  <2> QED
    BY <1>1, <2>1, RenewedSame, Zenon
<1>3. /\ issued' = Apply(issued, up, new) /\ published' = Apply(NoObjects, up, new)
      /\ ahead' = {} /\ current' = new /\ new' = None
      /\ stale' = IF new.resources = current.resources THEN stale ELSE Family
      /\ UNCHANGED <<defVars, keys, classes, focus, crashes>>
  BY Zenon DEF KeyRollActivate
<1>4. ASSUME NEW n \in Name
      PROVE  IF issued[n] = None
             THEN issued'[n] = None /\ published'[n] = None
             ELSE issued'[n].signer = new.id /\ published'[n] = issued'[n]
  <2>1. CASE issued[n] = None
    <3>1. up[n] = Keep
      BY <2>1, Zenon DEF Renewed
    <3> QED
      BY <1>3, <2>1, <3>1, Zenon DEF Apply, NoObjects
  <2>2. CASE issued[n] # None
    <3>1. PICK p \in Payload : p = issued[n].payload
      BY <1>1, <2>2, Zenon DEF Objects, Object
    <3>2. up[n] = p /\ p # Keep /\ p # Drop
      BY <2>2, <3>1, SignedObjectsAssumption DEF Renewed
    <3>3. /\ issued'[n] = [payload |-> p, signer |-> new.id, due |-> FALSE]
          /\ published'[n] = [payload |-> p, signer |-> new.id, due |-> FALSE]
      BY <1>3, <3>2, Zenon DEF Apply
    <3>4. issued'[n].signer = new.id
      BY <1>1, <3>3, Made
    <3> QED
      BY <2>2, <3>3, <3>4
  <2> QED
    BY <2>1, <2>2, Zenon
<1> HIDE DEF names, up
<1>5. issued' \in Objects /\ published' \in Objects
  <2>1. NoObjects \in Objects
    BY Zenon DEF NoObjects, Objects
  <2> QED
    BY <1>1, <1>2, <1>3, <2>1, ApplyType
<1>6. TypeOK' /\ KeyInv'
  BY <1>1, <1>3, <1>5, Zenon DEF IInv, TypeOK, KeyInv, defVars, Objects
<1>7. PublishedInv' /\ SignedBy(issued, current)'
  BY <1>1, <1>3, <1>4, Zenon DEF PublishedInv, SignedBy
<1>8. SayTheSame(issued, issued', Name)
  BY <1>2, <1>3
<1>9. RoaInv' /\ AspaInv' /\ RouterInv'
  <2>1. CASE new.resources = current.resources
    <3>1. AllResources' = AllResources /\ UNCHANGED <<defVars, stale>>
      BY <1>1, <1>3, <2>1 DEF AllResources
    <3> QED
      BY <1>8, <3>1, SameInv, Zenon
  <2>2. CASE new.resources # current.resources
    <3>1. stale' = Family
      BY <1>3, <2>2
    <3>2. PICK held \in SUBSET Route : RoasFor(issued, held)
      BY Zenon DEF IInv, RoaInv
    <3>3. SayTheSame(issued, issued', RoaNames)
      BY <1>8 DEF SayTheSame, Name
    <3>4. RoasFor(issued', held)
      BY <3>2, <3>3, SameFor
    <3> QED
      BY <3>1, <3>4, Zenon DEF RoaInv, AspaInv, RouterInv, Family
  <2> QED
    BY <2>1, <2>2
<1> QED
  BY <1>6, <1>7, <1>9, Zenon DEF IInv

\* ResourceClassRemoved takes away all objects, and with them all doubt.
LEMMA RemoveClassStep ==
    ASSUME IInv, RemoveClass
    PROVE  IInv'
<1>1. /\ current' = None /\ new' = None /\ ahead' = {} /\ stale' = {}
      /\ issued' = NoObjects /\ published' = NoObjects
      /\ UNCHANGED <<defVars, keys, classes, focus, crashes>>
  BY Zenon DEF RemoveClass
<1>2. TypeOK' /\ KeyInv' /\ PublishedInv'
  BY <1>1 DEF IInv, TypeOK, KeyInv, PublishedInv, defVars, NoObjects
<1>3. (current = None /\ issued = NoObjects)'
  BY <1>1
<1>4. (RoaInv /\ AspaInv /\ RouterInv /\ SignedBy(issued, current))'
  BY <1>3, NothingInv, PTL
<1> QED
  BY <1>2, <1>4 DEF IInv

\* Objects that become due say the same as before.
LEMMA AgeStep ==
    ASSUME IInv, Age
    PROVE  IInv'
<1>1. UNCHANGED <<defVars, keyVars, ahead, focus, crashes, stale>>
  BY DEF Age
<1>2. issued \in Objects /\ published \in Objects
  BY DEF IInv, TypeOK, Objects
<1>3. /\ issued' = [n \in Name |-> IF issued[n] = None THEN None
                                   ELSE [issued[n] EXCEPT !.due = TRUE]]
      /\ published' = [n \in Name |-> IF published[n] = None THEN None
                                      ELSE [published[n] EXCEPT !.due = TRUE]]
  BY DEF Age
<1>4. ASSUME NEW o \in Object
      PROVE  LET aged == [o EXCEPT !.due = TRUE]
             IN  /\ aged \in Object /\ aged # None
                 /\ aged.payload = o.payload /\ aged.signer = o.signer
  <2>1. [o EXCEPT !.due = TRUE] \in Object
    BY Zenon DEF Object
  <2>2. [o EXCEPT !.due = TRUE] # None
    BY <2>1, SignedObjectsAssumption, Zenon
  <2> QED
    BY <2>1, <2>2 DEF Object
<1>5. issued' \in Objects /\ published' \in Objects
  BY <1>2, <1>3, <1>4 DEF Objects
<1>6. ASSUME NEW n \in Name
      PROVE  /\ (issued'[n] = None) = (issued[n] = None)
             /\ issued[n] # None => /\ issued'[n].payload = issued[n].payload
                                    /\ issued'[n].signer = issued[n].signer
  BY <1>2, <1>3, <1>4, Zenon DEF Objects
<1>7. TypeOK' /\ KeyInv'
  <2>1. issued = NoObjects => issued' = NoObjects
    BY <1>3 DEF NoObjects
  <2> QED
    BY <1>1, <1>5, <2>1 DEF IInv, TypeOK, KeyInv, defVars, keyVars, Objects
<1>8. PublishedInv'
  BY <1>1, <1>3, Zenon DEF IInv, PublishedInv
<1>9. SignedBy(issued, current)'
  BY <1>1, <1>6, Zenon DEF IInv, SignedBy, keyVars
<1>10. SayTheSame(issued, issued', Name) /\ AllResources' = AllResources
  BY <1>1, <1>6 DEF SayTheSame, AllResources, keyVars
<1>11. RoaInv' /\ AspaInv' /\ RouterInv'
  BY <1>1, <1>10, SameInv
<1> QED
  BY <1>7, <1>8, <1>9, <1>11 DEF IInv

-----------------------------------------------------------------------------
(* The theorems *)

\* A CA starts without a key, definitions and objects.
LEMMA InitInv == Init => IInv
<1> SUFFICES ASSUME Init PROVE IInv
  OBVIOUS
<1>1. TypeOK /\ KeyInv /\ PublishedInv
  <2>1. 0 \in 0 .. MaxKeys /\ 0 \in 0 .. MaxClasses /\ 0 \in 0 .. MaxCrashes
    BY SignedObjectsAssumption
  <2>2. NoObjects \in [Name -> Object \cup {None}]
    BY DEF NoObjects
  <2>3. TypeOK
    BY <2>1, <2>2 DEF Init, TypeOK
  <2> QED
    BY <2>3 DEF Init, KeyInv, PublishedInv
<1>2. current = None /\ issued = NoObjects
  BY DEF Init
<1> QED
  BY <1>1, <1>2, NothingInv DEF IInv

\* Every step keeps the invariant.
LEMMA NextInv == IInv /\ [Next]_vars => IInv'
<1> SUFFICES ASSUME IInv, [Next]_vars PROVE IInv'
  OBVIOUS
<1>0. Grants \subseteq SUBSET (Prefix \cup Asn)
  BY DEF Grants
<1>1. CASE Define
  <2>0. routes \subseteq Route
    BY DEF IInv, TypeOK
  <2>1. CASE \E added \in SUBSET (Route \ routes), removed \in SUBSET routes :
                RoutesUpdate(added, removed)
    BY <2>0, <2>1, RoutesUpdateStep
  <2>2. CASE \E add \in [Asn -> (SUBSET Provider) \cup {None}], remove \in SUBSET Asn :
                AspaDefinitionsUpdate(add, remove)
    BY <2>2, AspaDefinitionsUpdateStep
  <2>3. CASE \E a \in Asn, added, removed \in SUBSET Provider : AspasUpdate(a, added, removed)
    BY <2>3, AspasUpdateStep
  <2>4. CASE \E added, removed \in SUBSET Router : BgpsecUpdate(added, removed)
    BY <2>4, BgpsecUpdateStep, Zenon
  <2> QED
    BY <1>1, <2>1, <2>2, <2>3, <2>4, Zenon DEF Define
<1>2. CASE Renew(focus)
  <2>1. Due(focus) \in SUBSET Name /\ \A n \in Due(focus) : issued[n] # None
    BY DEF Due, Issued, NamesOf, Name
  <2>2. /\ current # None /\ UNCHANGED <<defVars, keyVars, focus, stale>>
        /\ Saved(Renewed(Due(focus)), current) \/ Crashed(Renewed(Due(focus)), current)
    BY <1>2, Zenon DEF Renew
  <2> QED
    BY <2>1, <2>2, RenewalStep
<1>3. CASE ForceRenew
  <2>1. Issued("roa") \in SUBSET Name /\ \A n \in Issued("roa") : issued[n] # None
    BY DEF Issued, NamesOf, Name
  <2>2. /\ current # None /\ UNCHANGED <<defVars, keyVars, focus, stale>>
        /\ Saved(Renewed(Issued("roa")), current) \/ Crashed(Renewed(Issued("roa")), current)
    BY <1>3 DEF ForceRenew
  <2> QED
    BY <2>1, <2>2, RenewalStep
<1>4. CASE Age
  BY <1>4, AgeStep
<1>5. ASSUME NEW resources \in Grants, FirstCert(resources) PROVE IInv'
  BY <1>0, <1>5, FirstCertStep
<1>6. ASSUME NEW resources \in Grants, ReceiveCert(resources) PROVE IInv'
  BY <1>0, <1>6, ReceiveCertStep
<1>7. ASSUME NEW resources \in Grants, ReceiveNewCert(resources) PROVE IInv'
  BY <1>0, <1>7, ReceiveNewCertStep
<1>8. CASE KeyRollActivate
  BY <1>8, KeyRollActivateStep
<1>9. CASE RemoveClass
  BY <1>9, RemoveClassStep
<1>10. CASE UNCHANGED vars
  <2>1. UNCHANGED <<defVars, keyVars, objVars, focus, crashes, stale>>
    BY <1>10, Zenon DEF vars
  <2>2. TypeOK' /\ KeyInv' /\ PublishedInv' /\ SignedBy(issued, current)'
    BY <2>1, Zenon DEF IInv, TypeOK, KeyInv, PublishedInv, SignedBy, defVars, keyVars, objVars
  <2>3. SayTheSame(issued, issued', Name) /\ AllResources' = AllResources
    BY <2>1 DEF SayTheSame, AllResources, objVars, keyVars
  <2>4. RoaInv' /\ AspaInv' /\ RouterInv'
    BY <2>1, <2>3, SameInv
  <2> QED
    BY <2>2, <2>4 DEF IInv
<1> QED
  BY <1>1, <1>2, <1>3, <1>4, <1>5, <1>6, <1>7, <1>8, <1>9, <1>10, Zenon DEF Next

\* The ROAs for some routes cover each of these once, and nothing else.
LEMMA CoveringIs ==
    ASSUME NEW held \in SUBSET Route, RoasFor(issued, held), NEW r \in Route
    PROVE  IF r \in held THEN \E n \in RoaNames : Covering(r) = {n} ELSE Covering(r) = {}
<1>1. \A n \in RoaNames : n \in SimpleNames \/ n \in AggregateNames
  BY DEF RoaNames
<1>2. CASE SimpleRoas(issued, held)
  <2>1. ASSUME NEW n \in RoaNames
        PROVE  n \in Covering(r) <=> r \in held /\ n = SimpleName(r)
    <3>1. CASE n \in SimpleNames
      <4>1. PICK q \in Route : n = SimpleName(q) /\ n[2] = q
        BY <3>1, Names
      <4>2. n \in Covering(r) <=> q \in held /\ r = q
        BY <1>2, <4>1, Zenon DEF Covering, SimpleRoas
      <4>3. n = SimpleName(r) <=> r = q
        BY <4>1, Names, Zenon
      <4> QED
        BY <4>2, <4>3, Zenon
    <3>2. CASE n \in AggregateNames
      <4>1. PICK a \in Asn : n = AggregateName(a)
        BY <3>2, Names, Zenon
      <4>2. issued[n] = None
        BY <1>2, <4>1 DEF SimpleRoas
      <4>3. n # SimpleName(r)
        <5>1. SimpleName(r) \in SimpleNames /\ SimpleNames \cap AggregateNames = {}
          BY Names, Zenon
        <5> QED
          BY <3>2, <5>1, Zenon
      <4> QED
        BY <4>2, <4>3, Zenon DEF Covering
    <3> QED
      BY <1>1, <3>1, <3>2
  <2>2. SimpleName(r) \in RoaNames /\ Covering(r) \subseteq RoaNames
    BY Names, Zenon DEF Covering
  <2> QED
    BY <2>1, <2>2
<1>3. CASE AggregateRoas(issued, held)
  <2>0. r.asn \in Asn
    BY DEF Route
  <2>1. ASSUME NEW n \in RoaNames
        PROVE  n \in Covering(r) <=> r \in held /\ n = AggregateName(r.asn)
    <3>1. CASE n \in AggregateNames
      <4>1. PICK a \in Asn : n = AggregateName(a) /\ n[2] = a
        BY <3>1, Names, Zenon
      <4>2. n \in Covering(r) <=> r \in RoutesOf(held, a)
        BY <1>3, <4>1, Zenon DEF Covering, AggregateRoas
      <4>3. n = AggregateName(r.asn) <=> r.asn = a
        BY <2>0, <4>1, Names, Zenon
      <4> QED
        BY <4>2, <4>3, Zenon DEF RoutesOf
    <3>2. CASE n \in SimpleNames
      <4>1. PICK q \in Route : n = SimpleName(q)
        BY <3>2, Names, Zenon
      <4>2. issued[n] = None
        BY <1>3, <4>1 DEF AggregateRoas
      <4>3. n # AggregateName(r.asn)
        <5>1. AggregateName(r.asn) \in AggregateNames /\ SimpleNames \cap AggregateNames = {}
          BY <2>0, Names, Zenon
        <5> QED
          BY <3>2, <5>1, Zenon
      <4> QED
        BY <4>2, <4>3, Zenon DEF Covering
    <3> QED
      BY <1>1, <3>1, <3>2
  <2>2. AggregateName(r.asn) \in RoaNames /\ Covering(r) \subseteq RoaNames
    BY <2>0, Names, Zenon DEF Covering
  <2> QED
    BY <2>1, <2>2
<1> QED
  BY <1>2, <1>3 DEF RoasFor

\* The inductive invariant holds of every behaviour.
LEMMA Invariance == Spec => []IInv
  BY InitInv, NextInv, PTL DEF Spec

\* Every variable keeps its type.
THEOREM TypeCorrect == Spec => []TypeOK
<1>1. IInv => TypeOK
  BY Zenon DEF IInv
<1> QED
  BY <1>1, Invariance, PTL

\* What CaObjects publishes is what the CA has issued, signed by its current
\* key, but for what a crash has come between: through updates of all kinds,
\* renewals, certificates with other resources, and key rolls.
THEOREM PublishedCorrect == Spec => []PublishedIsSigned
<1>1. IInv => PublishedIsSigned
  BY Zenon DEF IInv, PublishedInv, SignedBy, PublishedIsSigned
<1> QED
  BY <1>1, Invariance, PTL

\* Every route authorization that the CA has the prefix for is in exactly one
\* ROA, and nothing else is, for any thresholds of Roas::update.
THEOREM RoasCorrect == Spec => []RoasFollowRoutes
<1>1. IInv => RoasFollowRoutes
  <2>1. SUFFICES ASSUME IInv, "roa" \notin stale, NEW r \in Route
                 PROVE  IF r \in routes /\ r.prefix \in AllResources
                        THEN \E n \in RoaNames : Covering(r) = {n} ELSE Covering(r) = {}
    BY DEF RoasFollowRoutes
  <2>2. PICK held \in SUBSET Route : RoasFor(issued, held) /\ held = Held
    BY <2>1 DEF IInv, RoaInv
  <2>3. IF r \in held THEN \E n \in RoaNames : Covering(r) = {n} ELSE Covering(r) = {}
    BY <2>2, CoveringIs
  <2>4. r \in held <=> r \in routes /\ r.prefix \in AllResources
    BY <2>2, Zenon DEF Held
  <2> QED
    BY <2>3, <2>4
<1> QED
  BY <1>1, Invariance, PTL

\* The ASPA objects and the router certificates are those that the definitions
\* and the resources of the current key ask for.
THEOREM DefinitionsCorrect == Spec => []ObjectsFollowDefinitions
<1>1. IInv => ObjectsFollowDefinitions
  <2>1. SUFFICES ASSUME IInv PROVE ObjectsFollowDefinitions
    BY Zenon
  <2>2. "aspa" \notin stale => \A a \in Asn :
          Says(AspaName(a)) = IF a \in AllResources THEN aspas[a] ELSE None
    BY <2>1 DEF IInv, AspaInv, AspasFor, Says
  <2>3. "bgpsec" \notin stale => \A b \in Router :
          (issued[RouterName(b)] # None) = (b \in routers /\ RouterAsn[b] \in AllResources)
    BY <2>1 DEF IInv, RouterInv, RoutersFor
  <2> QED
    BY <2>2, <2>3 DEF ObjectsFollowDefinitions
<1> QED
  BY <1>1, Invariance, PTL

-----------------------------------------------------------------------------
(* Updates that find nothing to do *)

\* An update keeps what it would remove if it is not there.
LEMMA RemovedNothing == \A n : issued[n] = None => Removed(n) = Keep
  BY Zenon DEF Removed

\* Roas::update changes none of the ROAs for the routes that are relevant: it
\* stays with simple ROAs, or with aggregates, whichever there are.
LEMMA RoaUpdateSettled ==
    ASSUME NEW rs \in SUBSET Route, NEW key, RoasFor(issued, Relevant(rs, key)),
           Deaggregate <= Aggregate + 1, NEW n \in RoaNames
    PROVE  RoaUpdate(rs, key)[n] = Keep
<1> DEFINE rel  == Relevant(rs, key)
           mode == RoaMode(rel)
<1>1. rel \in SUBSET Route
  BY Zenon DEF Relevant
<1>2. RoaUpdate(rs, key)[n] = IF n \in SimpleNames THEN SimpleChange(mode, rel, n)
                                                   ELSE AggregateChange(mode, rel, n)
  BY Zenon DEF RoaUpdate, RoaUpdateIn
<1>3. \/ n \in SimpleNames /\ n[2] \in Route /\ n = SimpleName(n[2])
      \/ n \notin SimpleNames /\ n[2] \in Asn /\ n = AggregateName(n[2])
  BY Names, Zenon
<1>4. mode = IF Aggregating
             THEN IF rel # {} /\ Cardinality(rel) < Deaggregate
                  THEN "stop" ELSE "aggregate"
             ELSE IF rel # {} /\ Cardinality(rel) > Aggregate
                  THEN "start" ELSE "simple"
  BY Zenon DEF RoaMode
<1>5. RoasFor(issued, rel)
  OBVIOUS
<1> HIDE DEF rel, mode
<1>6. CASE SimpleRoas(issued, rel) /\ FewEnough(rel)
  <2>1. ~Aggregating
    BY <1>6, Zenon DEF Aggregating, SimpleRoas
  <2>2. mode = "simple"
    BY <1>4, <1>6, <2>1, Zenon DEF FewEnough
  <2>3. CASE n \in SimpleNames
    <3>1. n[2] \in rel => issued[n] # None
      BY <1>3, <1>6, <2>3, Zenon DEF SimpleRoas
    <3>2. n[2] \notin rel => issued[n] = None
      BY <1>3, <1>6, <2>3, Zenon DEF SimpleRoas
    <3>3. SimpleChange(mode, rel, n) = Keep
      BY <2>2, <3>1, <3>2, RemovedNothing DEF SimpleChange
    <3> QED
      BY <1>2, <2>3, <3>3, Zenon
  <2>4. CASE n \notin SimpleNames
    <3>1. AggregateChange(mode, rel, n) = Keep
      BY <2>2 DEF AggregateChange
    <3> QED
      BY <1>2, <2>4, <3>1, Zenon
  <2> QED
    BY <2>3, <2>4, Zenon
<1>7. CASE AggregateRoas(issued, rel) /\ ManyEnough(rel)
  <2>1. \A r \in Route : issued[SimpleName(r)] = None
    BY <1>7, Zenon DEF AggregateRoas
  <2>2. \A a \in Asn : IF RoutesOf(rel, a) # {}
                        THEN /\ issued[AggregateName(a)] # None
                             /\ issued[AggregateName(a)].payload = RoutesOf(rel, a)
                        ELSE issued[AggregateName(a)] = None
    BY <1>7, Zenon DEF AggregateRoas
  <2>3. CASE Aggregating
    <3>1. mode = "aggregate"
      BY <1>4, <1>7, <2>3, Zenon DEF ManyEnough
    <3>2. CASE n \in SimpleNames
      <4>1. SimpleChange(mode, rel, n) = Keep
        BY <1>3, <2>1, <3>1, <3>2, RemovedNothing DEF SimpleChange
      <4> QED
        BY <1>2, <3>2, <4>1, Zenon
    <3>3. CASE n \notin SimpleNames
      <4>1. RoutesOf(rel, n[2]) = {r \in rel : r.asn = n[2]}
        BY Zenon DEF RoutesOf
      <4>2. IF RoutesOf(rel, n[2]) # {} THEN Says(n) = RoutesOf(rel, n[2]) ELSE issued[n] = None
        BY <1>3, <2>2, <3>3, Zenon DEF Says
      <4>3. AggregateChange(mode, rel, n) = Keep
        BY <3>1, <4>1, <4>2, RemovedNothing DEF AggregateChange
      <4> QED
        BY <1>2, <3>3, <4>3, Zenon
    <3> QED
      BY <3>2, <3>3, Zenon
  <2>4. CASE ~Aggregating
    <3>1. \A a \in Asn : RoutesOf(rel, a) = {}
      BY <2>2, <2>4, Zenon DEF Aggregating
    <3>2. rel = {}
      BY <1>1, <3>1 DEF RoutesOf, Route
    <3>3. mode = "simple"
      BY <1>4, <2>4, <3>2, Zenon
    <3>4. CASE n \in SimpleNames
      <4>1. SimpleChange(mode, rel, n) = Keep
        BY <1>3, <2>1, <3>2, <3>3, <3>4, RemovedNothing DEF SimpleChange
      <4> QED
        BY <1>2, <3>4, <4>1, Zenon
    <3>5. CASE n \notin SimpleNames
      <4>1. AggregateChange(mode, rel, n) = Keep
        BY <3>3 DEF AggregateChange
      <4> QED
        BY <1>2, <3>5, <4>1, Zenon
    <3> QED
      BY <3>4, <3>5, Zenon
  <2> QED
    BY <2>3, <2>4, Zenon
<1> QED
  BY <1>5, <1>6, <1>7, Zenon DEF RoasFor

\* AspaObjects::update changes none of the objects for the definitions.
LEMMA AspaUpdateSettled ==
    ASSUME issued \in Objects, NEW as \in [Asn -> (SUBSET Provider) \cup {None}],
           NEW key, AspasFor(issued, as, key.resources), NEW n \in AspaNames
    PROVE  AspaUpdate(as, key)[n] = Keep
<1>1. n[2] \in Asn /\ n = AspaName(n[2]) /\ n \in Name
  BY Names, Zenon
<1>2. Says(n) = IF n[2] \in key.resources THEN as[n[2]] ELSE None
  BY <1>1, Zenon DEF AspasFor, Says
<1>3. ASSUME issued[n] # None
      PROVE  Says(n) # None
  <2>1. issued[n].payload \in Payload
    BY <1>1, <1>3 DEF Objects, Object
  <2> QED
    BY <1>3, <2>1, SignedObjectsAssumption, Zenon DEF Says
<1>4. CASE as[n[2]] = None \/ n[2] \notin key.resources
  <2>1. issued[n] = None
    BY <1>2, <1>3, <1>4, Zenon
  <2> QED
    BY <1>4, <2>1, RemovedNothing, Zenon DEF AspaUpdate
<1>5. CASE ~(as[n[2]] = None \/ n[2] \notin key.resources)
  BY <1>2, <1>5, Zenon DEF AspaUpdate
<1> QED
  BY <1>4, <1>5, Zenon

\* BgpSecCertificates::update changes none of the certificates for the
\* definitions.
LEMMA RouterUpdateSettled ==
    ASSUME NEW bs, NEW key, RoutersFor(issued, bs, key.resources), NEW n \in RouterNames
    PROVE  RouterUpdate(bs, key)[n] = Keep
<1>1. n[2] \in Router /\ n = RouterName(n[2])
  BY Names, Zenon
<1>2. (issued[n] # None) = (n[2] \in bs /\ RouterAsn[n[2]] \in key.resources)
  BY <1>1 DEF RoutersFor
<1> QED
  BY <1>2, RemovedNothing, Zenon DEF RouterUpdate

\* With the same definitions and resources the updates of all objects change
\* nothing, for any routes and definitions, and any thresholds of which the
\* second is not beyond the first.
THEOREM UpdatesSettle == Spec => []UpdateIsStable
<1>1. IInv => UpdateIsStable
  <2> SUFFICES ASSUME IInv, Deaggregate <= Aggregate + 1, stale = {}, current # None
               PROVE  UpdateAll(current) = NoUpdate
    BY Zenon DEF UpdateIsStable
  <2>1. /\ issued \in Objects /\ routes \in SUBSET Route
        /\ aspas \in [Asn -> (SUBSET Provider) \cup {None}]
    BY Zenon DEF IInv, TypeOK, Objects
  <2>2. AllResources = current.resources
    BY Zenon DEF AllResources
  <2>3. Held = Relevant(routes, current)
    BY <2>2, Zenon DEF Held, Relevant
  <2>4. RoasFor(issued, Relevant(routes, current))
    BY <2>3, Zenon DEF IInv, RoaInv
  <2>5. AspasFor(issued, aspas, current.resources) /\ RoutersFor(issued, routers, current.resources)
    BY <2>2, Zenon DEF IInv, AspaInv, RouterInv
  <2>6. ASSUME NEW n \in Name
        PROVE  UpdateAll(current)[n] = Keep
    <3>1. UpdateAll(current)[n] = IF n \in RoaNames THEN RoaUpdate(routes, current)[n]
                                  ELSE IF n \in AspaNames THEN AspaUpdate(aspas, current)[n]
                                  ELSE RouterUpdate(routers, current)[n]
      BY Zenon DEF UpdateAll
    <3>2. n \in RoaNames => RoaUpdate(routes, current)[n] = Keep
      BY <2>1, <2>4, RoaUpdateSettled, Zenon
    <3>3. n \in AspaNames => AspaUpdate(aspas, current)[n] = Keep
      BY <2>1, <2>5, AspaUpdateSettled, Zenon
    <3>4. n \in RouterNames => RouterUpdate(routers, current)[n] = Keep
      BY <2>5, RouterUpdateSettled, Zenon
    <3> QED
      BY <3>1, <3>2, <3>3, <3>4, Zenon DEF Name
  <2>7. UpdateAll(current) = [n \in Name |-> UpdateAll(current)[n]]
    BY Zenon DEF UpdateAll
  <2> QED
    BY <2>6, <2>7, Zenon DEF NoUpdate
<1> QED
  BY <1>1, Invariance, PTL
=============================================================================
