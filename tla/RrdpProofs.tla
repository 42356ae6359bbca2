----------------------------- MODULE RrdpProofs -----------------------------
(***************************************************************************)
(* Proofs about what the publication server serves over RRDP               *)
(* (PublicationServer) and the deltas that it keeps as time passes         *)
(* (RrdpDeltas).                                                           *)
(*                                                                         *)
(* Retention, for any configuration: the loop that counts the deltas to    *)
(* keep stops at the first one that it may drop; the ages grow from the    *)
(* newest delta to the oldest, so that none after it is protected.         *)
(*                                                                         *)
(* RRDP, for any publishers, URIs, contents and requests: where no delta   *)
(* was applied that did not fit, the staged elements fit the snapshot, a   *)
(* publisher has one object at a URI at most, and the snapshot with the    *)
(* staged elements holds it.  The delta of an update is what was staged,   *)
(* and retention only drops deltas from the end.                           *)
(***************************************************************************)
EXTENDS PublicationServer, RrdpDeltas, WellFoundedInduction, TLAPS

-----------------------------------------------------------------------------
(* How many deltas are kept *)

\* A set of natural numbers that is not empty has a least element, which is
\* its Min.
LEMMA MinFacts ==
    ASSUME NEW S, S \subseteq Nat, S # {}
    PROVE  Min(S) \in S /\ \A y \in S : Min(S) <= y
<1>1. \E x \in S : \A y \in S : ~(<<y, x>> \in OpToRel(<, Nat))
  BY NatLessThanWellFounded, WFMin, Zenon
<1>2. PICK x \in S : \A y \in S : ~(<<y, x>> \in OpToRel(<, Nat))
  BY <1>1, Zenon
<1>3. ASSUME NEW y \in S PROVE x =< y
  <2>1. x \in Nat /\ y \in Nat /\ ~(<<y, x>> \in {ss \in Nat \X Nat : ss[1] < ss[2]})
    BY <1>2, Zenon DEF OpToRel
  <2>2. ~(y < x)
    BY <2>1
  <2> QED
    BY <2>1, <2>2
<1> QED
  BY <1>3, Zenon DEF Min

\* The loops of find_deltas_truncate_age and deltas_truncate_size end at the
\* first position at which they break, or after the last one.
LEMMA LoopFacts ==
    ASSUME NEW n \in Nat, NEW stops \in SUBSET (0 .. n - 1)
    PROVE  /\ LoopUntil(n, stops) \in 0 .. n
           /\ LoopUntil(n, stops) < n => LoopUntil(n, stops) \in stops
           /\ \A k \in stops : LoopUntil(n, stops) <= k
<1> DEFINE S == stops \cup {n}
<1>1. S \subseteq Nat /\ S # {}
  OBVIOUS
<1>2. Min(S) \in S /\ \A y \in S : Min(S) <= y
  BY <1>1, MinFacts, Zenon
<1>3. LoopUntil(n, stops) \in stops \cup {n} /\ \A y \in stops \cup {n} : LoopUntil(n, stops) <= y
  BY <1>2, Zenon DEF LoopUntil
<1> DEFINE m == LoopUntil(n, stops)
<1>4. (m \in stops \/ m = n) /\ m <= n /\ \A k \in stops : m <= k
  BY <1>3, Zenon
<1>5. \A k \in stops : k \in 0 .. n
  OBVIOUS
<1> HIDE DEF m
<1>6. m \in 0 .. n /\ (m < n => m \in stops)
  <2>1. CASE m \in stops
    BY <1>5, <2>1, Zenon
  <2>2. CASE m = n
    BY <2>2
  <2> QED
    BY <1>4, <2>1, <2>2, Zenon
<1> QED
  BY <1>4, <1>6, Zenon DEF m

\* find_deltas_truncate_age would break at this position.
StopsAt(k, young, aged) ==
    /\ k >= MinNr /\ k + 1 \notin young
    /\ k = MaxNr - 1 \/ k + 1 \in aged

\* find_deltas_truncate_age keeps every delta before the first one that it
\* need not keep, and no other.
LEMMA KeepByAgeFacts ==
    ASSUME NEW n \in Nat, NEW young, NEW aged
    PROVE  /\ KeepByAge(n, young, aged) \in 0 .. n
           /\ KeepByAge(n, young, aged) < n => StopsAt(KeepByAge(n, young, aged), young, aged)
           /\ \A k \in 0 .. KeepByAge(n, young, aged) - 1 : ~StopsAt(k, young, aged)
<1> DEFINE stops == {k \in 0 .. n - 1 : StopsAt(k, young, aged)}
<1>1. KeepByAge(n, young, aged) = LoopUntil(n, stops)
  BY DEF KeepByAge, StopsAt
<1>2. stops \in SUBSET (0 .. n - 1)
  OBVIOUS
<1> HIDE DEF stops
<1>3. /\ LoopUntil(n, stops) \in 0 .. n
      /\ LoopUntil(n, stops) < n => LoopUntil(n, stops) \in stops
      /\ \A k \in stops : LoopUntil(n, stops) <= k
  BY <1>2, LoopFacts, Zenon
<1>4. \A k \in 0 .. LoopUntil(n, stops) - 1 : k \in 0 .. n - 1 /\ k \notin stops
  BY <1>3
<1> QED
  BY <1>1, <1>3, <1>4, Zenon DEF stops

\* deltas_truncate_size keeps no more deltas than there are.
LEMMA KeepBySizeFacts ==
    ASSUME NEW sizes, Len(sizes) \in Nat, NEW size
    PROVE  KeepBySize(sizes, size) \in 0 .. Len(sizes)
<1> DEFINE stops == {k \in 0 .. Len(sizes) - 1 : MapThenSumSet(LAMBDA i : sizes[i], 1 .. k + 1) > size}
<1>1. KeepBySize(sizes, size) = LoopUntil(Len(sizes), stops)
  BY DEF KeepBySize
<1>2. stops \in SUBSET (0 .. Len(sizes) - 1)
  BY Zenon
<1> HIDE DEF stops
<1>3. LoopUntil(Len(sizes), stops) \in 0 .. Len(sizes)
  BY <1>2, LoopFacts, Zenon
<1> QED
  BY <1>1, <1>3, Zenon

\* apply_rrdp_updated puts the new delta in front and drops deltas from the
\* end only.
LEMMA KeptFacts ==
    ASSUME NEW D, deltas \in Seq(D), NEW new \in D, NEW snap, NEW young \in Nat, NEW notOld \in Nat,
           NEW kept, kept = KeptDeltas(new, snap, young, notOld)
    PROVE  /\ kept \in Seq(D)
           /\ Len(kept) \in 0 .. Len(deltas) + 1
           /\ \A i \in 1 .. Len(kept) : kept[i] = IF i = 1 THEN new ELSE deltas[i - 1]
<1> DEFINE keep == KeepByAge(Len(deltas), 1 .. young, notOld + 1 .. Len(deltas))
           ds == <<new>> \o SubSeq(deltas, 1, keep)
           Size(d) == Cardinality({u \in DOMAIN d.elements : ~IsWithdraw(d.elements[u])})
           sizes == [i \in 1 .. Len(ds) |-> Size(ds[i])]
           nr == KeepBySize(sizes, Cardinality(snap))
<1>1. kept = SubSeq(ds, 1, nr)
  BY DEF KeptDeltas
<1>2. keep \in 0 .. Len(deltas)
  <2>1. Len(deltas) \in Nat
    OBVIOUS
  <2> QED
    BY <2>1, KeepByAgeFacts, Zenon
<1> HIDE DEF keep
<1>3. /\ ds \in Seq(D) /\ Len(ds) = keep + 1
      /\ \A i \in 1 .. Len(ds) : ds[i] = IF i = 1 THEN new ELSE deltas[i - 1]
  BY <1>2
<1> HIDE DEF ds
<1>4. Len(sizes) = Len(ds) /\ Len(ds) \in Nat
  BY <1>3
<1> HIDE DEF sizes
<1>5. nr \in 0 .. Len(ds)
  BY <1>4, KeepBySizeFacts, Zenon
<1> HIDE DEF nr
<1>6. /\ SubSeq(ds, 1, nr) \in Seq(D) /\ Len(SubSeq(ds, 1, nr)) = nr
      /\ \A i \in 1 .. nr : SubSeq(ds, 1, nr)[i] = ds[i]
  BY <1>3, <1>5
<1>7. nr \in 0 .. Len(deltas) + 1 /\ \A i \in 1 .. nr : i \in 1 .. Len(ds)
  BY <1>2, <1>3, <1>5
<1> QED
  BY <1>1, <1>3, <1>6, <1>7, Zenon

-----------------------------------------------------------------------------
(* Retention *)

\* The ages are those of a list that only grows at the front.
LEMMA DeltasTypeInit == DeltasInit => DeltasTypeOK
<1> SUFFICES ASSUME DeltasInit PROVE DeltasTypeOK
  OBVIOUS
<1>1. ages = << >> /\ burst \in BOOLEAN
  BY Zenon DEF DeltasInit
<1>2. << >> \in Seq(0 .. MaxAge) /\ DOMAIN << >> = {}
  OBVIOUS
<1> QED
  BY <1>1, <1>2, Zenon DEF DeltasTypeOK

\* What DeltasTypeOK says of the ages, by position.
LEMMA AgesFacts ==
    ASSUME DeltasTypeOK
    PROVE  /\ ages \in Seq(0 .. MaxAge) /\ Len(ages) \in Nat /\ DOMAIN ages = 1 .. Len(ages)
           /\ \A i \in 1 .. Len(ages) : ages[i] \in 0 .. MaxAge
           /\ \A i, j \in 1 .. Len(ages) : i < j => ages[i] <= ages[j]
<1>1. ages \in Seq(0 .. MaxAge) /\ \A i, j \in DOMAIN ages : i < j => ages[i] <= ages[j]
  BY Zenon DEF DeltasTypeOK
<1>2. ASSUME NEW D, ages \in Seq(D)
      PROVE  Len(ages) \in Nat /\ DOMAIN ages = 1 .. Len(ages) /\ \A i \in 1 .. Len(ages) : ages[i] \in D
  BY <1>2
<1> QED
  BY <1>1, <1>2, Zenon

\* RrdpServer::update_rrdp, position by position: the new delta, then those of
\* before that are kept.
LEMMA AddDeltaFacts ==
    ASSUME DeltasTypeOK, AddDelta
    PROVE  LET keep == KeepByAge(Len(ages), Young, Old)
           IN  /\ keep \in 0 .. Len(ages)
               /\ ages' \in Seq(0 .. MaxAge) /\ Len(ages') = keep + 1
               /\ ages'[1] = 0
               /\ \A i \in 1 .. keep : ages'[i + 1] = ages[i]
<1> DEFINE keep == KeepByAge(Len(ages), Young, Old)
<1>1. ages \in Seq(0 .. MaxAge) /\ Len(ages) \in Nat
  BY DEF DeltasTypeOK
<1>2. keep \in 0 .. Len(ages)
  BY <1>1, KeepByAgeFacts, Zenon
<1>3. ages' = <<0>> \o SubSeq(ages, 1, keep)
  BY Zenon DEF AddDelta
<1>4. MaxAge \in Nat
  BY RrdpDeltasAssumption, Zenon
<1> HIDE DEF keep
<1>5. /\ ages' \in Seq(0 .. MaxAge) /\ Len(ages') = keep + 1
      /\ ages'[1] = 0
      /\ \A i \in 1 .. keep : ages'[i + 1] = ages[i]
  BY <1>1, <1>2, <1>3, <1>4
<1> QED
  BY <1>2, <1>5, Zenon DEF keep

\* A new delta is younger than all others, and all of them age alike.
LEMMA DeltasTypeStep == DeltasTypeOK /\ [DeltasNext]_deltasVars => DeltasTypeOK'
<1> SUFFICES ASSUME DeltasTypeOK, [DeltasNext]_deltasVars PROVE DeltasTypeOK'
  OBVIOUS
<1>1. CASE AddDelta
  <2> DEFINE keep == KeepByAge(Len(ages), Young, Old)
  <2>1. /\ keep \in 0 .. Len(ages)
        /\ ages' \in Seq(0 .. MaxAge) /\ Len(ages') = keep + 1
        /\ ages'[1] = 0
        /\ \A i \in 1 .. keep : ages'[i + 1] = ages[i]
    BY <1>1, AddDeltaFacts, Zenon
  <2> HIDE DEF keep
  <2>2. /\ ages \in Seq(0 .. MaxAge) /\ \A i \in 1 .. Len(ages) : ages[i] \in 0 .. MaxAge
        /\ \A i, j \in 1 .. Len(ages) : i < j => ages[i] <= ages[j]
    BY AgesFacts, Zenon
  <2>3. ASSUME NEW i \in DOMAIN ages', NEW j \in DOMAIN ages', i < j PROVE ages'[i] <= ages'[j]
    <3>1. i \in 1 .. keep + 1 /\ j - 1 \in 1 .. keep /\ j = (j - 1) + 1
      BY <2>1, <2>3
    <3>2. ages'[j] = ages[j - 1] /\ ages[j - 1] \in 0 .. MaxAge
      BY <2>1, <2>2, <3>1
    <3>3. CASE i = 1
      BY <2>1, <3>2, <3>3
    <3>4. CASE i # 1
      <4>1. i - 1 \in 1 .. keep /\ i = (i - 1) + 1 /\ i - 1 < j - 1 /\ i - 1 \in 1 .. Len(ages) /\ j - 1 \in 1 .. Len(ages)
        BY <2>1, <2>3, <3>1, <3>4
      <4> QED
        BY <2>1, <2>2, <3>2, <4>1
    <3> QED
      BY <3>3, <3>4
  <2>4. burst' \in BOOLEAN
    BY <1>1 DEF AddDelta, DeltasTypeOK
  <2> QED
    BY <2>1, <2>3, <2>4, Zenon DEF DeltasTypeOK
<1>2. CASE Tick
  <2> DEFINE Older(i) == IF ages[i] < MaxAge THEN ages[i] + 1 ELSE MaxAge
  <2>1. /\ Len(ages) \in Nat /\ DOMAIN ages = 1 .. Len(ages)
        /\ \A i \in 1 .. Len(ages) : ages[i] \in 0 .. MaxAge
        /\ \A i, j \in 1 .. Len(ages) : i < j => ages[i] <= ages[j]
    BY AgesFacts, Zenon
  <2>2. ages' = [i \in 1 .. Len(ages) |-> Older(i)] /\ burst' = burst
    BY <1>2, <2>1, Zenon DEF Tick
  <2>3. MaxAge \in Nat
    BY RrdpDeltasAssumption, Zenon
  <2>4. /\ \A i \in 1 .. Len(ages) : Older(i) \in 0 .. MaxAge
        /\ \A i, j \in 1 .. Len(ages) : i < j => Older(i) <= Older(j)
    BY <2>1, <2>3
  <2> HIDE DEF Older
  <2>5. ages' \in Seq(0 .. MaxAge) /\ DOMAIN ages' = 1 .. Len(ages) /\ \A i \in 1 .. Len(ages) : ages'[i] = Older(i)
    BY <2>1, <2>2, <2>4
  <2> QED
    BY <2>2, <2>4, <2>5, Zenon DEF DeltasTypeOK
<1>3. CASE UNCHANGED deltasVars
  BY <1>3 DEF deltasVars, DeltasTypeOK
<1> QED
  BY <1>1, <1>2, <1>3 DEF DeltasNext

\* The ages of the deltas grow from the newest to the oldest, for any
\* configuration of RrdpUpdatesConfig.
THEOREM AgesSorted == DeltasSpec => []DeltasTypeOK
<1> QED
  BY DeltasTypeInit, DeltasTypeStep, PTL DEF DeltasSpec

\* find_deltas_truncate_age never drops one of the rrdp_delta_files_min_nr
\* newest deltas, nor one younger than rrdp_delta_files_min_seconds.
THEOREM ProtectedDeltasKept == DeltasSpec => ProtectedKept
<1>1. ASSUME DeltasTypeOK, AddDelta, NEW i \in DOMAIN ages, Protected(i)
      PROVE  i + 1 \in DOMAIN ages'
  <2> DEFINE keep == KeepByAge(Len(ages), Young, Old)
  <2>1. /\ keep \in 0 .. Len(ages) /\ ages' \in Seq(0 .. MaxAge) /\ Len(ages') = keep + 1
    BY <1>1, AddDeltaFacts, Zenon
  <2>2. /\ Len(ages) \in Nat /\ DOMAIN ages = 1 .. Len(ages)
        /\ \A j \in 1 .. Len(ages) : ages[j] \in 0 .. MaxAge
        /\ \A j, k \in 1 .. Len(ages) : j < k => ages[j] <= ages[k]
    BY <1>1, AgesFacts, Zenon
  <2>3. keep < Len(ages) => StopsAt(keep, Young, Old)
    BY <2>2, KeepByAgeFacts, Zenon
  <2>4. keep < Len(ages) => keep >= MinNr /\ keep + 1 \notin Young
    BY <2>3, Zenon DEF StopsAt
  <2> HIDE DEF keep
  <2>5. SUFFICES ASSUME ~(i <= keep) PROVE FALSE
    BY <2>1, <2>2
  <2>6. i \in Young
    BY <2>1, <2>2, <2>4, <2>5, <1>1, RrdpRetentionAssumption DEF Protected
  <2>7. keep + 1 \in DOMAIN ages /\ ~(ages[keep + 1] < MinSecs)
    BY <2>1, <2>2, <2>4, <2>5 DEF Young
  <2>8. ages[keep + 1] <= ages[i]
    BY <2>1, <2>2, <2>5, <2>7, RrdpDeltasAssumption
  <2>9. ages[i] < MinSecs /\ ages[i] \in 0 .. MaxAge /\ ages[keep + 1] \in 0 .. MaxAge
    BY <2>2, <2>6, <2>7 DEF Young
  <2> QED
    BY <2>7, <2>8, <2>9, RrdpDeltasAssumption
<1>2. DeltasTypeOK /\ [DeltasNext]_deltasVars
        => [AddDelta => \A i \in DOMAIN ages : Protected(i) => i + 1 \in DOMAIN ages']_deltasVars
  BY <1>1, Zenon
<1> QED
  BY <1>2, AgesSorted, PTL DEF DeltasSpec, ProtectedKept

\* When a delta is added, every other delta that stays beyond the
\* rrdp_delta_files_min_nr newest is not older than
\* rrdp_delta_files_max_seconds, or still protected by its age.
THEOREM OldDeltasDropped == DeltasSpec => OldDropped
<1>1. ASSUME DeltasTypeOK, AddDelta, NEW i \in DOMAIN ages' \ {1}, i - 1 > MinNr
      PROVE  ages'[i] <= MaxSecs \/ ages'[i] < MinSecs
  <2> DEFINE keep == KeepByAge(Len(ages), Young, Old)
  <2>1. /\ keep \in 0 .. Len(ages) /\ ages' \in Seq(0 .. MaxAge) /\ Len(ages') = keep + 1
        /\ \A j \in 1 .. keep : ages'[j + 1] = ages[j]
    BY <1>1, AddDeltaFacts, Zenon
  <2>2. Len(ages) \in Nat /\ DOMAIN ages = 1 .. Len(ages) /\ \A j \in 1 .. Len(ages) : ages[j] \in 0 .. MaxAge
    BY <1>1, AgesFacts, Zenon
  <2>3. \A k \in 0 .. keep - 1 : ~StopsAt(k, Young, Old)
    BY <2>2, KeepByAgeFacts, Zenon
  <2> HIDE DEF keep
  <2>4. i - 1 \in 1 .. keep /\ i - 2 \in 0 .. keep - 1 /\ (i - 2) + 1 = i - 1 /\ i - 2 >= MinNr /\ i = (i - 1) + 1
    BY <2>1, <1>1, RrdpRetentionAssumption
  <2>5. i - 1 \in Young \/ i - 1 \notin Old
    BY <2>3, <2>4 DEF StopsAt
  <2>6. i - 1 \in DOMAIN ages /\ ages[i - 1] \in 0 .. MaxAge /\ ages'[i] = ages[i - 1]
    BY <2>1, <2>2, <2>4
  <2> QED
    BY <2>5, <2>6, RrdpDeltasAssumption DEF Young, Old
<1>2. DeltasTypeOK /\ [DeltasNext]_deltasVars
        => [AddDelta => \A i \in DOMAIN ages' \ {1} :
                          i - 1 > MinNr => ages'[i] <= MaxSecs \/ ages'[i] < MinSecs]_deltasVars
  BY <1>1, Zenon
<1> QED
  BY <1>2, AgesSorted, PTL DEF DeltasSpec, OldDropped

\* There are never more than rrdp_delta_files_max_nr deltas, as long as the
\* minimum is smaller and there never were as many young ones at an update.
THEOREM MaximumCorrect == DeltasSpec => []MaximumUnlessBurst
<1>1. DeltasInit => MaximumUnlessBurst
  BY RrdpRetentionAssumption DEF DeltasInit, MaximumUnlessBurst
<1>2. ASSUME DeltasTypeOK, MaximumUnlessBurst, [DeltasNext]_deltasVars
      PROVE  MaximumUnlessBurst'
  <2>1. CASE AddDelta
    <3> DEFINE keep == KeepByAge(Len(ages), Young, Old)
    <3>1. /\ keep \in 0 .. Len(ages) /\ ages' \in Seq(0 .. MaxAge) /\ Len(ages') = keep + 1
      BY <2>1, <1>2, AddDeltaFacts, Zenon
    <3>2. ages \in Seq(0 .. MaxAge) /\ Len(ages) \in Nat
      BY <1>2 DEF DeltasTypeOK
    <3>3. \A k \in 0 .. keep - 1 : ~StopsAt(k, Young, Old)
      BY <3>2, KeepByAgeFacts, Zenon
    <3> HIDE DEF keep
    <3>4. burst' = (burst \/ MaxNr \in Young)
      BY <2>1, Zenon DEF AddDelta
    <3>5. SUFFICES ASSUME MinNr < MaxNr, ~burst, MaxNr \notin Young, keep >= MaxNr PROVE FALSE
      <4>1. ~(keep >= MaxNr) => Len(ages') <= MaxNr
        BY <3>1, <3>2, RrdpRetentionAssumption
      <4> QED
        BY <3>4, <4>1, Zenon DEF MaximumUnlessBurst
    <3>6. MaxNr - 1 \in 0 .. keep - 1 /\ MaxNr - 1 >= MinNr /\ (MaxNr - 1) + 1 = MaxNr
      BY <3>1, <3>2, <3>5, RrdpRetentionAssumption
    <3> QED
      BY <3>3, <3>5, <3>6 DEF StopsAt
  <2>2. CASE Tick
    BY <2>2, <1>2 DEF Tick, DeltasTypeOK, MaximumUnlessBurst
  <2>3. CASE UNCHANGED deltasVars
    BY <2>3, <1>2 DEF deltasVars, MaximumUnlessBurst
  <2> QED
    BY <1>2, <2>1, <2>2, <2>3 DEF DeltasNext
<1> QED
  BY <1>1, <1>2, AgesSorted, PTL DEF DeltasSpec
-----------------------------------------------------------------------------
(* Applying deltas *)

\* The contents of the objects, and of the elements of a delta, are ones that
\* may be published at their URI.
Own(objects) == \A o \in objects : o.hash \in ContentOf[o.uri]
OwnElements(d) == \A u \in DOMAIN d : {d[u].old, d[u].new} \subseteq ContentOf[u] \cup {NoHash}

\* What there is at a URI after an element.
Left(u, e) == IF IsWithdraw(e) THEN {} ELSE {[uri |-> u, hash |-> e.new]}

\* What a set of publishers has at a URI.
PublishedBy(pubs, u) == UNION {At(pubs[p], u) : p \in DOMAIN pubs}

\* A delta has an element for each of its URIs.
LEMMA DeltaFacts ==
    ASSUME NEW d \in Delta
    PROVE  DOMAIN d \in SUBSET Uri /\ \A u \in DOMAIN d : d[u] \in Element
  BY DEF Delta

\* What has an element for each of its URIs is a delta.
LEMMA IsDelta ==
    ASSUME NEW us \in SUBSET Uri, NEW d \in [us -> Element]
    PROVE  d \in Delta
  BY DEF Delta

\* Nothing staged is the delta without elements.
LEMMA NoElements == << >> \in Delta /\ DOMAIN << >> = {}
<1>1. << >> \in [{} -> Element] /\ DOMAIN << >> = {}
  OBVIOUS
<1> QED
  BY <1>1, IsDelta, Zenon

\* What CurrentObjects::apply_delta leaves: an object that the delta neither
\* takes away nor replaces, or one that it adds.
LEMMA InApplied ==
    ASSUME NEW objects, NEW d, NEW o
    PROVE  o \in ApplyDelta(objects, d) <=>
              \/ o \in objects /\ \A u \in DOMAIN d : /\ o.hash # d[u].old
                                                      /\ ~IsWithdraw(d[u]) => o.hash # d[u].new
              \/ \E u \in DOMAIN d : ~IsWithdraw(d[u]) /\ o = [uri |-> u, hash |-> d[u].new]
<1> DEFINE removed  == {d[u].old : u \in DOMAIN d}
           arriving == {u \in DOMAIN d : ~IsWithdraw(d[u])}
           added    == {[uri |-> u, hash |-> d[u].new] : u \in arriving}
<1>1. o \in ApplyDelta(objects, d) <=>
         \/ o \in objects /\ o.hash \notin removed /\ \A a \in added : a.hash # o.hash
         \/ o \in added
  BY Zenon DEF ApplyDelta
<1>2. o.hash \notin removed <=> \A u \in DOMAIN d : o.hash # d[u].old
  BY Zenon
<1>3. (\A a \in added : a.hash # o.hash) <=> \A u \in DOMAIN d : ~IsWithdraw(d[u]) => o.hash # d[u].new
  <2>1. \A u : [uri |-> u, hash |-> d[u].new].hash = d[u].new
    OBVIOUS
  <2> QED
    BY <2>1, Zenon
<1>4. o \in added <=> \E u \in DOMAIN d : ~IsWithdraw(d[u]) /\ o = [uri |-> u, hash |-> d[u].new]
  BY Zenon
<1> QED
  BY <1>1, <1>2, <1>3, <1>4, Zenon

\* CurrentObjects::apply_delta yields objects.
LEMMA ApplyType ==
    ASSUME NEW objects \in SUBSET Object, NEW d \in Delta
    PROVE  ApplyDelta(objects, d) \in SUBSET Object
<1>1. ASSUME NEW o \in ApplyDelta(objects, d) PROVE o \in Object
  <2>1. CASE o \in objects
    BY <2>1
  <2>2. ASSUME NEW u \in DOMAIN d, ~IsWithdraw(d[u]), o = [uri |-> u, hash |-> d[u].new] PROVE o \in Object
    BY <2>2, DeltaFacts DEF Object, Element, IsWithdraw
  <2> QED
    BY <1>1, <2>1, <2>2, InApplied
<1> QED
  BY <1>1

\* It keeps a publisher to its own URIs.
LEMMA ApplyOwn ==
    ASSUME NEW objects, Own(objects), NEW d, OwnElements(d)
    PROVE  Own(ApplyDelta(objects, d))
<1>1. ASSUME NEW o \in ApplyDelta(objects, d) PROVE o.hash \in ContentOf[o.uri]
  <2>1. CASE o \in objects
    BY <2>1 DEF Own
  <2>2. ASSUME NEW u \in DOMAIN d, ~IsWithdraw(d[u]), o = [uri |-> u, hash |-> d[u].new]
        PROVE  o.hash \in ContentOf[o.uri]
    BY <2>2 DEF OwnElements, IsWithdraw
  <2> QED
    BY <1>1, <2>1, <2>2, InApplied, Zenon
<1> QED
  BY <1>1 DEF Own

\* At a URI of the delta, when its element fits the objects, its content takes
\* the place of what was there.
LEMMA ApplyHere ==
    ASSUME NEW objects, NEW d, NEW u \in DOMAIN d, Acceptable(objects, u, d[u])
    PROVE  At(ApplyDelta(objects, d), u) = Left(u, d[u])
<1>1. ASSUME NEW o \in ApplyDelta(objects, d), o.uri = u PROVE o \in Left(u, d[u])
  <2>1. CASE o \in objects /\ o.hash # d[u].old
    <3>1. o \in At(objects, u)
      BY <1>1, <2>1 DEF At
    <3> QED
      BY <2>1, <3>1 DEF Acceptable
  <2>2. ASSUME NEW v \in DOMAIN d, ~IsWithdraw(d[v]), o = [uri |-> v, hash |-> d[v].new]
        PROVE  o \in Left(u, d[u])
    BY <1>1, <2>2 DEF Left
  <2> QED
    <3>1. \/ o \in objects /\ o.hash # d[u].old
          \/ \E v \in DOMAIN d : ~IsWithdraw(d[v]) /\ o = [uri |-> v, hash |-> d[v].new]
      BY <1>1, InApplied
    <3> QED
      BY <2>1, <2>2, <3>1, Zenon
<1>2. ASSUME NEW o \in Left(u, d[u]) PROVE o \in ApplyDelta(objects, d) /\ o.uri = u
  <2>1. ~IsWithdraw(d[u]) /\ o = [uri |-> u, hash |-> d[u].new]
    BY <1>2 DEF Left
  <2>2. o.uri = u
    BY <2>1
  <2> QED
    BY <2>1, <2>2, InApplied, Zenon
<1> QED
  BY <1>1, <1>2, Zenon DEF At

\* At any other URI nothing changes, as the contents there are others.
LEMMA ApplyElsewhere ==
    ASSUME NEW objects, Own(objects), NEW d, OwnElements(d), DOMAIN d \subseteq Uri,
           NEW u \in Uri, u \notin DOMAIN d
    PROVE  At(ApplyDelta(objects, d), u) = At(objects, u)
<1>1. ASSUME NEW o \in ApplyDelta(objects, d), o.uri = u PROVE o \in objects
  <2>1. ASSUME NEW v \in DOMAIN d, o = [uri |-> v, hash |-> d[v].new] PROVE FALSE
    BY <1>1, <2>1
  <2> QED
    BY <1>1, <2>1, InApplied, Zenon
<1>2. ASSUME NEW o \in objects, o.uri = u PROVE o \in ApplyDelta(objects, d)
  <2>1. ASSUME NEW v \in DOMAIN d PROVE o.hash # d[v].old /\ (~IsWithdraw(d[v]) => o.hash # d[v].new)
    <3>1. o.hash \in ContentOf[u] /\ {d[v].old, d[v].new} \subseteq ContentOf[v] \cup {NoHash}
      BY <1>2 DEF Own, OwnElements
    <3>2. v \in Uri /\ v # u
      OBVIOUS
    <3>3. ContentOf[u] \cap ContentOf[v] = {} /\ NoHash \notin ContentOf[u]
      BY <3>2, PublicationServerAssumption
    <3> QED
      BY <3>1, <3>3
  <2> QED
    BY <1>2, <2>1, InApplied, Zenon
<1> QED
  BY <1>1, <1>2, Zenon DEF At

\* Each URI belongs to one publisher at most.
LEMMA PublishedByOne ==
    ASSUME NEW pubs, DOMAIN pubs \subseteq Publisher,
           \A q \in DOMAIN pubs : pubs[q] \subseteq [uri : Jail[q], hash : Content],
           NEW p \in Publisher, NEW u \in Jail[p]
    PROVE  PublishedBy(pubs, u) = IF p \in DOMAIN pubs THEN At(pubs[p], u) ELSE {}
<1>1. ASSUME NEW q \in DOMAIN pubs, q # p PROVE At(pubs[q], u) = {}
  <2>1. u \notin Jail[q]
    BY <1>1, PublicationServerAssumption
  <2> QED
    BY <2>1 DEF At
<1>2. \A o : o \in PublishedBy(pubs, u) <=> \E q \in DOMAIN pubs : o \in At(pubs[q], u)
  BY Zenon DEF PublishedBy
<1> QED
  BY <1>1, <1>2, Zenon

-----------------------------------------------------------------------------
(* The invariant of the publication server *)

PublishersOK ==
    /\ DOMAIN publishers \subseteq Publisher
    /\ \A p \in DOMAIN publishers :
          /\ publishers[p] \subseteq [uri : Jail[p], hash : Content]
          /\ Own(publishers[p])
          /\ \A o1, o2 \in publishers[p] : o1.uri = o2.uri /\ o1.uri \notin doubtful => o1 = o2

\* The staged elements fit the snapshot that they will be applied to.
StagedOK ==
    /\ doubtful \subseteq Uri
    /\ snapshot \subseteq Object /\ Own(snapshot)
    /\ staged \in Delta /\ OwnElements(staged)
    /\ \A u \in DOMAIN staged : u \notin doubtful => Acceptable(snapshot, u, staged[u])

DeltasOK ==
    /\ serial \in 1 .. MaxSerial
    /\ deltas \in Seq([serial : 1 .. MaxSerial, elements : Delta])
    /\ past \in [serial - Len(deltas) .. serial -> SUBSET Object]
    /\ DeltasLeadToSnapshot
    /\ DeltasAcceptable

\* A delta that is about to be applied is for the publisher's own URIs, and
\* has contents that may be published there.
RequestsOK ==
    /\ access \subseteq Publisher
    /\ handler \in [Handler -> HandlerState]
    /\ \A r \in Handler : handler[r].op = "commit" =>
          /\ DOMAIN handler[r].delta \subseteq Jail[handler[r].publisher]
          /\ OwnElements(handler[r].delta)

PublicationInv == PublishersOK /\ StagedOK /\ DeltasOK /\ RequestsOK /\ RrdpFollowsPublishers
-----------------------------------------------------------------------------
(* Steps that leave a part as it is *)

\* URIs may become doubtful at any time.
LEMMA PublishersFrame ==
    ASSUME PublishersOK, publishers' = publishers, doubtful \subseteq doubtful'
    PROVE  PublishersOK'
  BY DEF PublishersOK

\* What is staged fits as before when nothing but the requests changes.
LEMMA StagedFrame ==
    ASSUME StagedOK, staged' = staged, snapshot' = snapshot, doubtful \subseteq doubtful', doubtful' \subseteq Uri
    PROVE  StagedOK'
  BY Zenon DEF StagedOK

\* So do the retained deltas.
LEMMA DeltasFrame ==
    ASSUME DeltasOK, UNCHANGED <<snapshot, deltas, serial, past>>, doubtful \subseteq doubtful'
    PROVE  DeltasOK'
<1>1. DeltasLeadToSnapshot'
  BY DEF DeltasOK, DeltasLeadToSnapshot
<1>2. DeltasAcceptable'
  BY Zenon DEF DeltasOK, DeltasAcceptable
<1> QED
  BY <1>1, <1>2, Zenon DEF DeltasOK

\* So does what RRDP serves.
LEMMA FollowsFrame ==
    ASSUME RrdpFollowsPublishers, UNCHANGED <<publishers, snapshot, staged>>, doubtful \subseteq doubtful'
    PROVE  RrdpFollowsPublishers'
  BY Zenon DEF RrdpFollowsPublishers

\* A request that ends, or goes to a step that has no delta.
LEMMA RequestStep ==
    ASSUME RequestsOK, NEW r \in Handler, NEW h, h \in HandlerState, h.op # "commit",
           handler' = [handler EXCEPT ![r] = h], access' \subseteq Publisher
    PROVE  RequestsOK'
<1>1. handler' \in [Handler -> HandlerState]
  BY Zenon DEF RequestsOK
<1>2. ASSUME NEW q \in Handler, handler'[q].op = "commit" PROVE q # r /\ handler'[q] = handler[q]
  BY <1>2 DEF RequestsOK
<1> QED
  BY <1>1, <1>2, Zenon DEF RequestsOK

\* What a handler holds, by the step that its request is at.
LEMMA HandlerStates ==
    /\ Idle \in HandlerState /\ Idle.op = "idle"
    /\ \A p \in Publisher : \A op \in {"publish", "create", "remove"} :
          [op |-> op, publisher |-> p] \in HandlerState
    /\ \A p \in Publisher : \A d \in Delta :
          [op |-> "commit", publisher |-> p, delta |-> d] \in HandlerState
    /\ \A h \in HandlerState :
          /\ h.op \in {"publish", "create", "remove"} => h.publisher \in Publisher
          /\ h.op = "commit" => h.publisher \in Publisher /\ h.delta \in Delta
  BY DEF HandlerState, Idle

-----------------------------------------------------------------------------
(* Staging a delta *)

\* A delta that is not a misfit at a URI fits what its publisher has there.
LEMMA NotMisfit ==
    ASSUME PublishersOK, NEW p \in DOMAIN publishers, NEW d, NEW u \in DOMAIN d,
           u \notin doubtful, u \notin Misfits(publishers[p], d)
    PROVE  /\ Acceptable(publishers[p], u, d[u])
           /\ u \in DOMAIN staged => ~IsWithdraw(d[u])
<1>1. /\ IF IsPublish(d[u]) THEN ~\E o \in publishers[p] : o.uri = u
         ELSE [uri |-> u, hash |-> d[u].old] \in publishers[p]
      /\ u \in DOMAIN staged => ~IsWithdraw(d[u])
  BY Zenon DEF Misfits
<1>2. CASE IsPublish(d[u])
  BY <1>1, <1>2, Zenon DEF Acceptable, At
<1>3. CASE ~IsPublish(d[u])
  <2> DEFINE mine == [uri |-> u, hash |-> d[u].old]
  <2>1. mine \in publishers[p] /\ mine.uri = u
    BY <1>1, <1>3
  <2> HIDE DEF mine
  <2>2. \A o \in publishers[p] : o.uri = u => o = mine
    BY <2>1, Zenon DEF PublishersOK
  <2>3. At(publishers[p], u) = {mine}
    BY <2>1, <2>2, Zenon DEF At
  <2> QED
    BY <1>1, <1>3, <2>3, Zenon DEF Acceptable, mine
<1> QED
  BY <1>2, <1>3, Zenon

\* What RRDP will serve at a URI that is not doubtful.
LEMMA Served ==
    ASSUME PublishersOK, StagedOK, RrdpFollowsPublishers, NEW p \in DOMAIN publishers,
           NEW u \in Jail[p], u \notin doubtful
    PROVE  /\ u \in Uri
           /\ At(publishers[p], u) = IF u \in DOMAIN staged THEN Left(u, staged[u]) ELSE At(snapshot, u)
<1>1. u \in Uri /\ p \in Publisher
  BY PublicationServerAssumption DEF PublishersOK
<1>2. PublishedBy(publishers, u) = At(publishers[p], u)
  BY <1>1, PublishedByOne, Zenon DEF PublishersOK
<1>3. At(ApplyDelta(snapshot, staged), u) = At(publishers[p], u)
  BY <1>1, <1>2, Zenon DEF RrdpFollowsPublishers, PublishedBy
<1>4. CASE u \in DOMAIN staged
  <2>1. Acceptable(snapshot, u, staged[u])
    BY <1>4, Zenon DEF StagedOK
  <2> QED
    BY <1>1, <1>3, <1>4, <2>1, ApplyHere, Zenon
<1>5. CASE u \notin DOMAIN staged
  <2>1. Own(snapshot) /\ OwnElements(staged) /\ DOMAIN staged \subseteq Uri
    BY DeltaFacts, Zenon DEF StagedOK
  <2> QED
    BY <1>1, <1>3, <1>5, <2>1, ApplyElsewhere, Zenon
<1> QED
  BY <1>4, <1>5, Zenon

\* What the elements of a delta become when they are staged.
LEMMA StageFacts ==
    ASSUME staged \in Delta, OwnElements(staged), NEW d \in Delta, OwnElements(d)
    PROVE  /\ Stage(d) \in Delta /\ OwnElements(Stage(d))
           /\ DOMAIN Stage(d) = DOMAIN staged \cup DOMAIN d
           /\ \A u \in DOMAIN staged : u \notin DOMAIN d => Stage(d)[u] = staged[u]
           /\ \A u \in DOMAIN d : u \notin DOMAIN staged => Stage(d)[u] = d[u]
           /\ \A u \in DOMAIN d : u \in DOMAIN staged => Stage(d)[u] = Restage(staged[u], d[u])
<1> DEFINE us == DOMAIN staged \cup DOMAIN d
<1>1. us \in SUBSET Uri
  BY DeltaFacts
<1>2. /\ DOMAIN Stage(d) = us
      /\ \A u \in us : Stage(d)[u] = IF u \notin DOMAIN d THEN staged[u]
                                     ELSE IF u \in DOMAIN staged THEN Restage(staged[u], d[u]) ELSE d[u]
      /\ Stage(d) = [u \in us |-> Stage(d)[u]]
  BY DEF Stage
<1>3. ASSUME NEW s \in Element, NEW e \in Element
      PROVE  /\ Restage(s, e) \in Element
             /\ Restage(s, e).old \in {s.old, e.old} /\ Restage(s, e).new = e.new
  BY DEF Restage, Element
<1>4. ASSUME NEW u \in us PROVE Stage(d)[u] \in Element /\ {Stage(d)[u].old, Stage(d)[u].new} \subseteq ContentOf[u] \cup {NoHash}
  <2>1. u \in DOMAIN staged => staged[u] \in Element /\ {staged[u].old, staged[u].new} \subseteq ContentOf[u] \cup {NoHash}
    BY DeltaFacts, Zenon DEF OwnElements
  <2>2. u \in DOMAIN d => d[u] \in Element /\ {d[u].old, d[u].new} \subseteq ContentOf[u] \cup {NoHash}
    BY DeltaFacts, Zenon DEF OwnElements
  <2>3. CASE u \notin DOMAIN d
    BY <1>2, <2>1, <2>3, Zenon
  <2>4. CASE u \in DOMAIN d /\ u \notin DOMAIN staged
    BY <1>2, <2>2, <2>4, Zenon
  <2>5. CASE u \in DOMAIN d /\ u \in DOMAIN staged
    <3>1. /\ Restage(staged[u], d[u]) \in Element
          /\ Restage(staged[u], d[u]).old \in {staged[u].old, d[u].old}
          /\ Restage(staged[u], d[u]).new = d[u].new
      BY <1>3, <2>1, <2>2, <2>5, Zenon
    <3>2. Stage(d)[u] = Restage(staged[u], d[u])
      BY <1>2, <2>5, Zenon
    <3> QED
      BY <2>1, <2>2, <2>5, <3>1, <3>2, Zenon
  <2> QED
    BY <2>3, <2>4, <2>5, Zenon
<1>5. Stage(d) \in [us -> Element]
  BY <1>2, <1>4
<1> HIDE DEF us
<1>6. Stage(d) \in Delta
  BY <1>1, <1>5, IsDelta, Zenon
<1>7. OwnElements(Stage(d))
  BY <1>2, <1>4, Zenon DEF OwnElements
<1> QED
  BY <1>2, <1>6, <1>7, Zenon DEF us

\* apply_rrdp_staged: away from the URIs that become doubtful the staged
\* elements still fit the snapshot, and at the URIs of the delta RRDP will
\* serve what the delta leaves there.
LEMMA Staging ==
    ASSUME PublishersOK, StagedOK, RrdpFollowsPublishers, NEW p \in DOMAIN publishers,
           NEW d \in Delta, DOMAIN d \subseteq Jail[p], OwnElements(d),
           staged' = Stage(d), doubtful' = doubtful \cup Misfits(publishers[p], d), snapshot' = snapshot
    PROVE  /\ StagedOK'
           /\ \A u \in Uri \ doubtful' :
                 At(ApplyDelta(snapshot, Stage(d)), u)
                    = IF u \in DOMAIN d THEN Left(u, d[u]) ELSE At(ApplyDelta(snapshot, staged), u)
<1>1. /\ snapshot \subseteq Object /\ Own(snapshot) /\ staged \in Delta /\ OwnElements(staged)
      /\ doubtful \subseteq Uri /\ DOMAIN staged \subseteq Uri /\ DOMAIN d \subseteq Uri
      /\ \A u \in DOMAIN staged : u \notin doubtful => Acceptable(snapshot, u, staged[u])
  BY DeltaFacts, Zenon DEF StagedOK
<1> DEFINE st == Stage(d)
<1>2. /\ st \in Delta /\ OwnElements(st)
      /\ DOMAIN st = DOMAIN staged \cup DOMAIN d
      /\ \A u \in DOMAIN staged : u \notin DOMAIN d => st[u] = staged[u]
      /\ \A u \in DOMAIN d : u \notin DOMAIN staged => st[u] = d[u]
      /\ \A u \in DOMAIN d : u \in DOMAIN staged => st[u] = Restage(staged[u], d[u])
  BY <1>1, StageFacts, Zenon
<1> HIDE DEF st
<1>3. doubtful' \subseteq Uri
  BY <1>1 DEF Misfits
<1>4. ASSUME NEW u \in DOMAIN d, u \notin doubtful'
      PROVE  Acceptable(snapshot, u, st[u]) /\ Left(u, st[u]) = Left(u, d[u])
  <2>1. u \in Jail[p] /\ u \notin doubtful /\ u \notin Misfits(publishers[p], d)
    BY <1>4
  <2>2. Acceptable(publishers[p], u, d[u]) /\ (u \in DOMAIN staged => ~IsWithdraw(d[u]))
    BY <2>1, NotMisfit, Zenon
  <2>3. At(publishers[p], u) = IF u \in DOMAIN staged THEN Left(u, staged[u]) ELSE At(snapshot, u)
    BY <2>1, Served, Zenon
  <2>4. CASE u \notin DOMAIN staged
    BY <1>2, <2>2, <2>3, <2>4, Zenon DEF Acceptable
  <2>5. CASE u \in DOMAIN staged
    <3>1. At(publishers[p], u) = Left(u, staged[u]) /\ ~IsWithdraw(d[u]) /\ st[u] = Restage(staged[u], d[u])
      BY <1>2, <2>2, <2>3, <2>5, Zenon
    <3>2. IsPublish(d[u]) => IsWithdraw(staged[u])
      BY <2>2, <3>1, Zenon DEF Acceptable, Left
    <3>3. ~IsPublish(d[u]) => ~IsWithdraw(staged[u])
      BY <2>2, <3>1, Zenon DEF Acceptable, Left
    <3>4. st[u] = [old |-> staged[u].old, new |-> d[u].new]
      BY <3>1, <3>2, <3>3, Zenon DEF Restage, IsUpdate
    <3>5. st[u].old = staged[u].old /\ st[u].new = d[u].new
      BY <3>4
    <3>6. Acceptable(snapshot, u, staged[u])
      BY <1>1, <2>1, <2>5, Zenon
    <3> QED
      BY <3>5, <3>6, Zenon DEF Acceptable, Left, IsPublish, IsWithdraw
  <2> QED
    BY <2>4, <2>5, Zenon
<1>5. ASSUME NEW u \in DOMAIN st, u \notin doubtful' PROVE Acceptable(snapshot, u, st[u])
  <2>1. CASE u \in DOMAIN d
    BY <1>4, <1>5, <2>1, Zenon
  <2>2. CASE u \notin DOMAIN d
    BY <1>1, <1>2, <1>5, <2>2, Zenon
  <2> QED
    BY <2>1, <2>2, Zenon
<1>6. StagedOK'
  BY <1>1, <1>2, <1>3, <1>5, Zenon DEF StagedOK, st
<1>7. ASSUME NEW u \in Uri \ doubtful'
      PROVE  At(ApplyDelta(snapshot, st), u)
                = IF u \in DOMAIN d THEN Left(u, d[u]) ELSE At(ApplyDelta(snapshot, staged), u)
  <2>0. u \notin doubtful' /\ u \notin doubtful
    BY <1>7
  <2>1. CASE u \in DOMAIN d
    <3>1. u \in DOMAIN st /\ Acceptable(snapshot, u, st[u]) /\ Left(u, st[u]) = Left(u, d[u])
      BY <1>2, <1>4, <2>0, <2>1, Zenon
    <3>2. At(ApplyDelta(snapshot, st), u) = Left(u, st[u])
      BY <3>1, ApplyHere, Zenon
    <3> QED
      BY <2>1, <3>1, <3>2, Zenon
  <2>2. CASE u \notin DOMAIN d /\ u \in DOMAIN staged
    <3>1. Acceptable(snapshot, u, staged[u]) /\ st[u] = staged[u] /\ u \in DOMAIN st
      BY <1>1, <1>2, <2>0, <2>2, Zenon
    <3>2. At(ApplyDelta(snapshot, st), u) = Left(u, st[u]) /\ At(ApplyDelta(snapshot, staged), u) = Left(u, staged[u])
      BY <2>2, <3>1, ApplyHere, Zenon
    <3> QED
      BY <2>2, <3>1, <3>2, Zenon
  <2>3. CASE u \notin DOMAIN d /\ u \notin DOMAIN staged
    <3>1. u \notin DOMAIN st /\ DOMAIN st \subseteq Uri
      BY <1>1, <1>2, <2>3
    <3>2. At(ApplyDelta(snapshot, st), u) = At(snapshot, u)
      BY <1>1, <1>2, <3>1, ApplyElsewhere, Zenon
    <3>3. At(ApplyDelta(snapshot, staged), u) = At(snapshot, u)
      BY <1>1, <2>3, ApplyElsewhere, Zenon
    <3> QED
      BY <2>3, <3>2, <3>3, Zenon
  <2> QED
    BY <2>1, <2>2, <2>3, Zenon
<1> QED
  BY <1>6, <1>7, Zenon DEF st
-----------------------------------------------------------------------------
(* The requests *)

\* A request that has looked up its publisher holds no delta yet.
LEMMA PublishStartStep ==
    ASSUME PublicationInv, NEW r \in Handler, NEW p \in Publisher, PublishStart(r, p)
    PROVE  PublicationInv'
<1> DEFINE h == [op |-> "publish", publisher |-> p]
<1>1. h \in HandlerState /\ h.op # "commit" /\ handler' = [handler EXCEPT ![r] = h]
  <2>1. h \in HandlerState
    BY HandlerStates, Zenon
  <2> QED
    BY <2>1 DEF PublishStart
<1> HIDE DEF h
<1>2. UNCHANGED <<access, publishers, snapshot, staged, deltas, serial, past, doubtful>>
  BY DEF PublishStart, rrdp
<1>3. access' \subseteq Publisher
  BY <1>2 DEF PublicationInv, RequestsOK
<1>4. RequestsOK'
  BY <1>1, <1>3, RequestStep, Zenon DEF PublicationInv
<1> QED
  BY <1>2, <1>4, PublishersFrame, StagedFrame, DeltasFrame, FollowsFrame, Zenon DEF PublicationInv, StagedOK

\* The delta that a publisher can send is for its own URIs and contents.
LEMMA DeltasAreOwn ==
    ASSUME PublishersOK, NEW p \in DOMAIN publishers, NEW d \in DeltasOf(p)
    PROVE  d \in Delta /\ DOMAIN d \subseteq Jail[p] /\ OwnElements(d)
<1> DEFINE hashes == {NoHash} \cup UNION {ContentOf[u] : u \in Jail[p]}
<1>0. p \in Publisher
  BY DEF PublishersOK
<1>1. Jail[p] \subseteq Uri
  BY <1>0, PublicationServerAssumption
<1>2. \A u \in Jail[p] : ContentOf[u] \subseteq Content
  BY PublicationServerAssumption, <1>1
<1>3. d \in OwnDeltas(p)
  BY DEF DeltasOf, SyncDeltas, AnyDeltas
<1>4. PICK us \in SUBSET Jail[p] : d \in [us -> [old : hashes, new : hashes]]
  BY <1>3 DEF OwnDeltas
<1>5. d \in [us -> Element] /\ DOMAIN d = us
  <2>1. hashes \subseteq Content \cup {NoHash}
    <3>1. \A h \in hashes : h = NoHash \/ \E u \in Jail[p] : h \in ContentOf[u]
      OBVIOUS
    <3> QED
      BY <1>2, <3>1, Zenon
  <2> HIDE DEF hashes
  <2> QED
    BY <1>1, <1>4, <2>1 DEF Element
<1>6. d \in Delta
  BY <1>1, <1>4, <1>5, IsDelta
<1>7. ASSUME NEW u \in DOMAIN d PROVE {d[u].old, d[u].new} \subseteq ContentOf[u] \cup {NoHash}
  <2>1. CASE d \in AnyDeltas(p)
    BY <2>1, Zenon DEF AnyDeltas
  <2>2. CASE d \in SyncDeltas(p, publishers[p])
    <3>1. d[u].new \in ContentOf[u] \cup {NoHash}
      BY <2>2, Zenon DEF SyncDeltas
    <3>2. [uri |-> u, hash |-> d[u].old] \in publishers[p] \/ d[u].old = NoHash
      BY <2>2, Zenon DEF SyncDeltas, IsPublish
    <3>3. [uri |-> u, hash |-> d[u].old] \in publishers[p] => d[u].old \in ContentOf[u]
      BY DEF PublishersOK, Own
    <3> QED
      BY <3>1, <3>2, <3>3
  <2> QED
    BY <2>1, <2>2, Zenon DEF DeltasOf
<1> QED
  BY <1>4, <1>5, <1>6, <1>7, Zenon DEF OwnElements

\* A delta that is verified is for the URIs and contents of its publisher.
LEMMA PublishVerifyStep ==
    ASSUME PublicationInv, NEW r \in Handler, PublishVerify(r)
    PROVE  PublicationInv'
<1> DEFINE p == handler[r].publisher
<1>1. handler \in [Handler -> HandlerState] /\ handler[r] \in HandlerState /\ access \subseteq Publisher
  BY DEF PublicationInv, RequestsOK
<1>2. UNCHANGED <<access, publishers, snapshot, staged, deltas, serial, past, doubtful>>
  BY DEF PublishVerify, rrdp
<1>3. p \in Publisher
  BY <1>1, HandlerStates, Zenon DEF PublishVerify
<1> HIDE DEF p
<1>4. ASSUME handler' = [handler EXCEPT ![r] = Idle] PROVE RequestsOK'
  BY <1>1, <1>2, <1>4, RequestStep, HandlerStates, Zenon DEF PublicationInv
<1>5. ASSUME NEW d \in DeltasOf(p), p \in DOMAIN publishers,
             handler' = [handler EXCEPT ![r] = [op |-> "commit", publisher |-> p, delta |-> d]]
      PROVE  RequestsOK'
  <2>1. d \in Delta /\ DOMAIN d \subseteq Jail[p] /\ OwnElements(d)
    BY <1>5, DeltasAreOwn, Zenon DEF PublicationInv
  <2> DEFINE h == [op |-> "commit", publisher |-> p, delta |-> d]
  <2>2. h \in HandlerState
    BY <1>3, <2>1, HandlerStates, Zenon
  <2>3. h.publisher = p /\ h.delta = d
    OBVIOUS
  <2>4. handler' = [handler EXCEPT ![r] = h]
    BY <1>5
  <2> HIDE DEF h
  <2>5. handler' \in [Handler -> HandlerState]
    BY <1>1, <2>2, <2>4, Zenon
  <2>6. ASSUME NEW q \in Handler PROVE handler'[q] = IF q = r THEN h ELSE handler[q]
    BY <1>1, <2>4, Zenon
  <2>7. ASSUME NEW q \in Handler, handler'[q].op = "commit"
        PROVE  DOMAIN handler'[q].delta \subseteq Jail[handler'[q].publisher] /\ OwnElements(handler'[q].delta)
    <3>1. CASE q = r
      BY <2>1, <2>3, <2>6, <3>1, Zenon
    <3>2. CASE q # r
      BY <2>6, <2>7, <3>2, Zenon DEF PublicationInv, RequestsOK
    <3> QED
      BY <3>1, <3>2, Zenon
  <2> QED
    BY <1>1, <1>2, <2>5, <2>7, Zenon DEF RequestsOK
<1>6. RequestsOK'
  BY <1>4, <1>5, Zenon DEF PublishVerify, p
<1> QED
  BY <1>2, <1>6, PublishersFrame, StagedFrame, DeltasFrame, FollowsFrame, Zenon DEF PublicationInv, StagedOK

\* RepositoryContent::publish: the publisher's objects, and the staged
\* elements, take the delta, and stay in step where it fits.
LEMMA PublishCommitStep ==
    ASSUME PublicationInv, NEW r \in Handler, PublishCommit(r)
    PROVE  PublicationInv'
<1> DEFINE p == handler[r].publisher
           d == handler[r].delta
<1>0. PublishersOK /\ StagedOK /\ DeltasOK /\ RequestsOK /\ RrdpFollowsPublishers
  BY Zenon DEF PublicationInv
<1>1. /\ handler[r] \in HandlerState /\ access \subseteq Publisher /\ handler[r].op = "commit"
      /\ DOMAIN d \subseteq Jail[p] /\ OwnElements(d)
  BY <1>0, Zenon DEF RequestsOK, PublishCommit
<1>2. p \in Publisher /\ d \in Delta
  BY <1>1, HandlerStates, Zenon
<1>3. UNCHANGED <<access, snapshot, deltas, serial, past>> /\ handler' = [handler EXCEPT ![r] = Idle]
  BY DEF PublishCommit
<1>4. RequestsOK'
  BY <1>0, <1>1, <1>3, RequestStep, HandlerStates, Zenon
<1>5. CASE p \notin DOMAIN publishers
  <2>1. UNCHANGED <<publishers, staged, doubtful>>
    BY <1>5 DEF PublishCommit
  <2> QED
    BY <1>0, <1>3, <1>4, <2>1, PublishersFrame, StagedFrame, DeltasFrame, FollowsFrame, Zenon
    DEF PublicationInv, StagedOK
<1>6. CASE p \in DOMAIN publishers
  <2>1. /\ publishers' = [publishers EXCEPT ![p] = ApplyDelta(publishers[p], d)]
        /\ staged' = Stage(d)
        /\ doubtful' = doubtful \cup Misfits(publishers[p], d)
    BY <1>6 DEF PublishCommit
  <2> HIDE DEF p, d
  <2>2. /\ StagedOK'
        /\ \A u \in Uri \ doubtful' :
              At(ApplyDelta(snapshot, Stage(d)), u)
                 = IF u \in DOMAIN d THEN Left(u, d[u]) ELSE At(ApplyDelta(snapshot, staged), u)
    BY <1>0, <1>1, <1>2, <1>3, <1>6, <2>1, Staging, Zenon DEF p, d
  <2>3. DeltasOK'
    BY <1>0, <1>3, <2>1, DeltasFrame, Zenon
  <2>4. /\ DOMAIN publishers' = DOMAIN publishers /\ publishers'[p] = ApplyDelta(publishers[p], d)
        /\ \A q \in DOMAIN publishers : q # p => publishers'[q] = publishers[q]
    BY <1>6, <2>1, Zenon
  <2>5. /\ DOMAIN publishers \subseteq Publisher /\ Own(publishers[p])
        /\ publishers[p] \subseteq [uri : Jail[p], hash : Content]
        /\ \A o1, o2 \in publishers[p] : o1.uri = o2.uri /\ o1.uri \notin doubtful => o1 = o2
        /\ \A q \in DOMAIN publishers : publishers[q] \subseteq [uri : Jail[q], hash : Content]
    BY <1>0, <1>6, Zenon DEF PublishersOK
  <2>6. ApplyDelta(publishers[p], d) \subseteq [uri : Jail[p], hash : Content]
    <3>1. ASSUME NEW o \in ApplyDelta(publishers[p], d) PROVE o \in [uri : Jail[p], hash : Content]
      <4>1. CASE o \in publishers[p]
        BY <2>5, <4>1
      <4>2. ASSUME NEW u \in DOMAIN d, ~IsWithdraw(d[u]), o = [uri |-> u, hash |-> d[u].new]
            PROVE  o \in [uri : Jail[p], hash : Content]
        <5>1. u \in Jail[p] /\ d[u] \in Element
          BY <1>1, <1>2, DeltaFacts, Zenon DEF p, d
        <5> QED
          BY <4>2, <5>1 DEF Element, IsWithdraw
      <4> QED
        BY <3>1, <4>1, <4>2, InApplied, Zenon
    <3> QED
      BY <3>1, Zenon
  <2>7. DOMAIN d \subseteq Uri /\ Own(ApplyDelta(publishers[p], d))
    BY <1>1, <1>2, <2>5, ApplyOwn, DeltaFacts, Zenon DEF p, d
  <2>8. ASSUME NEW u \in DOMAIN d, u \notin doubtful'
        PROVE  At(ApplyDelta(publishers[p], d), u) = Left(u, d[u])
    <3>1. u \notin doubtful /\ u \notin Misfits(publishers[p], d)
      BY <2>1, <2>8
    <3> QED
      BY <1>0, <1>6, <3>1, NotMisfit, ApplyHere, Zenon
  <2>9. ASSUME NEW u \in Uri, u \notin DOMAIN d
        PROVE  At(ApplyDelta(publishers[p], d), u) = At(publishers[p], u)
    BY <1>1, <2>5, <2>7, <2>9, ApplyElsewhere, Zenon DEF d
  <2>10. ASSUME NEW o1 \in ApplyDelta(publishers[p], d), NEW o2 \in ApplyDelta(publishers[p], d),
                o1.uri = o2.uri, o1.uri \notin doubtful'
         PROVE  o1 = o2
    <3> DEFINE u == o1.uri
    <3>1. u \in Uri
      <4>1. u \in Jail[p]
        BY <2>6
      <4> QED
        BY <4>1, <1>2, PublicationServerAssumption DEF p
    <3>2. o1 \in At(ApplyDelta(publishers[p], d), u) /\ o2 \in At(ApplyDelta(publishers[p], d), u)
      BY <2>10, Zenon DEF At
    <3>3. CASE u \in DOMAIN d
      <4>1. o1 \in Left(u, d[u]) /\ o2 \in Left(u, d[u])
        BY <2>8, <2>10, <3>2, <3>3, Zenon
      <4> QED
        BY <4>1, Zenon DEF Left
    <3>4. CASE u \notin DOMAIN d
      <4>1. o1 \in At(publishers[p], u) /\ o2 \in At(publishers[p], u)
        BY <2>9, <3>1, <3>2, <3>4, Zenon
      <4>2. u \notin doubtful
        BY <2>1, <2>10
      <4> QED
        BY <2>5, <4>1, <4>2, Zenon DEF At
    <3> QED
      BY <3>3, <3>4, Zenon
  <2>11. PublishersOK'
    <3>1. ASSUME NEW q \in DOMAIN publishers'
          PROVE  /\ publishers'[q] \subseteq [uri : Jail[q], hash : Content] /\ Own(publishers'[q])
                 /\ \A o1, o2 \in publishers'[q] : o1.uri = o2.uri /\ o1.uri \notin doubtful' => o1 = o2
      <4>1. CASE q = p
        <5>1. publishers'[q] = ApplyDelta(publishers[p], d)
          BY <2>4, <4>1, Zenon
        <5>2. \A o1, o2 \in ApplyDelta(publishers[p], d) : o1.uri = o2.uri /\ o1.uri \notin doubtful' => o1 = o2
          BY <2>10, Zenon
        <5> QED
          BY <2>6, <2>7, <4>1, <5>1, <5>2
      <4>2. CASE q # p
        <5>1. publishers'[q] = publishers[q] /\ q \in DOMAIN publishers
          BY <2>4, <4>2, Zenon
        <5>2. \A u : u \notin doubtful' => u \notin doubtful
          BY <2>1
        <5> QED
          BY <1>0, <5>1, <5>2, Zenon DEF PublishersOK
      <4> QED
        BY <4>1, <4>2, Zenon
    <3> QED
      BY <2>4, <2>5, <3>1, Zenon DEF PublishersOK
  <2>12. RrdpFollowsPublishers'
    <3>1. ASSUME NEW u \in Uri \ doubtful'
          PROVE  At(ApplyDelta(snapshot, Stage(d)), u) = PublishedBy(publishers', u)
      <4>0. u \notin doubtful' /\ u \in Uri \ doubtful
        BY <2>1, <3>1
      <4>1. CASE u \in DOMAIN d
        <5>1. u \in Jail[p]
          BY <1>1, <4>1, Zenon DEF p, d
        <5>2. \A q \in DOMAIN publishers' : publishers'[q] \subseteq [uri : Jail[q], hash : Content]
          BY <2>11, Zenon DEF PublishersOK
        <5>3. PublishedBy(publishers', u) = At(publishers'[p], u)
          BY <1>2, <1>6, <2>4, <2>5, <5>1, <5>2, PublishedByOne, Zenon DEF p
        <5> QED
          BY <2>2, <2>4, <2>8, <4>0, <4>1, <5>3, Zenon
      <4>2. CASE u \notin DOMAIN d
        <5>1. \A q \in DOMAIN publishers : At(publishers'[q], u) = At(publishers[q], u)
          BY <2>4, <2>9, <4>0, <4>2, Zenon
        <5>2. PublishedBy(publishers', u) = PublishedBy(publishers, u)
          BY <2>4, <5>1, Zenon DEF PublishedBy
        <5>3. At(ApplyDelta(snapshot, staged), u) = PublishedBy(publishers, u)
          BY <1>0, <4>0, Zenon DEF RrdpFollowsPublishers, PublishedBy
        <5> QED
          BY <2>2, <4>0, <4>2, <5>2, <5>3, Zenon
      <4> QED
        BY <4>1, <4>2, Zenon
    <3> QED
      BY <1>3, <2>1, <3>1, Zenon DEF RrdpFollowsPublishers, PublishedBy
  <2> QED
    BY <1>4, <2>2, <2>3, <2>11, <2>12, Zenon DEF PublicationInv
<1> QED
  BY <1>5, <1>6, Zenon

\* RepositoryAccess::add_publisher leaves the content alone.
LEMMA CreateAccessStep ==
    ASSUME PublicationInv, NEW r \in Handler, NEW p \in Publisher, CreateAccess(r, p)
    PROVE  PublicationInv'
<1> DEFINE h == [op |-> "create", publisher |-> p]
<1>1. h \in HandlerState /\ h.op # "commit" /\ handler' = [handler EXCEPT ![r] = h]
  <2>1. h \in HandlerState
    BY HandlerStates, Zenon
  <2> QED
    BY <2>1 DEF CreateAccess
<1> HIDE DEF h
<1>2. UNCHANGED <<publishers, snapshot, staged, deltas, serial, past, doubtful>>
  BY DEF CreateAccess, rrdp
<1>3. access' \subseteq Publisher
  BY DEF CreateAccess, PublicationInv, RequestsOK
<1>4. RequestsOK'
  BY <1>1, <1>3, RequestStep, Zenon DEF PublicationInv
<1> QED
  BY <1>2, <1>4, PublishersFrame, StagedFrame, DeltasFrame, FollowsFrame, Zenon DEF PublicationInv, StagedOK

\* RepositoryContent::add_publisher: what the publisher had before is gone,
\* and its URIs are doubtful.
LEMMA CreateContentStep ==
    ASSUME PublicationInv, NEW r \in Handler, CreateContent(r)
    PROVE  PublicationInv'
<1> DEFINE p == handler[r].publisher
<1>0. PublishersOK /\ StagedOK /\ DeltasOK /\ RequestsOK /\ RrdpFollowsPublishers
  BY Zenon DEF PublicationInv
<1>1. handler[r] \in HandlerState /\ access \subseteq Publisher /\ handler[r].op = "create"
  BY <1>0, Zenon DEF RequestsOK, CreateContent
<1>2. p \in Publisher
  BY <1>1, HandlerStates, Zenon
<1>3. UNCHANGED <<access, snapshot, staged, deltas, serial, past>> /\ handler' = [handler EXCEPT ![r] = Idle]
  BY DEF CreateContent, rrdp
<1>4. RequestsOK'
  BY <1>0, <1>1, <1>3, RequestStep, HandlerStates, Zenon
<1>5. /\ publishers' = [q \in DOMAIN publishers \cup {p} |-> IF q = p THEN {} ELSE publishers[q]]
      /\ doubtful' = doubtful \cup {u \in Uri : p \in DOMAIN publishers /\ \E o \in publishers[p] : o.uri = u}
  BY DEF CreateContent
<1> HIDE DEF p
<1>6. /\ DOMAIN publishers' = DOMAIN publishers \cup {p} /\ publishers'[p] = {}
      /\ \A q \in DOMAIN publishers : q # p => publishers'[q] = publishers[q]
  BY <1>5
<1>7. doubtful \subseteq doubtful' /\ doubtful' \subseteq Uri
  BY <1>0, <1>5 DEF StagedOK
<1>8. PublishersOK'
  <2>1. ASSUME NEW q \in DOMAIN publishers'
        PROVE  /\ publishers'[q] \subseteq [uri : Jail[q], hash : Content] /\ Own(publishers'[q])
               /\ \A o1, o2 \in publishers'[q] : o1.uri = o2.uri /\ o1.uri \notin doubtful' => o1 = o2
    <3>1. CASE q = p
      BY <1>6, <3>1 DEF Own
    <3>2. CASE q # p
      <4>1. q \in DOMAIN publishers /\ publishers'[q] = publishers[q]
        BY <1>6, <3>2
      <4> QED
        BY <1>0, <1>7, <4>1, Zenon DEF PublishersOK
    <3> QED
      BY <3>1, <3>2, Zenon
  <2>2. DOMAIN publishers' \subseteq Publisher
    BY <1>0, <1>2, <1>6 DEF PublishersOK
  <2> QED
    BY <2>1, <2>2, Zenon DEF PublishersOK
<1>9. RrdpFollowsPublishers'
  <2>1. ASSUME NEW u \in Uri \ doubtful' PROVE PublishedBy(publishers', u) = PublishedBy(publishers, u)
    <3>1. p \in DOMAIN publishers => At(publishers[p], u) = {}
      BY <1>5, <2>1, Zenon DEF At
    <3>2. At(publishers'[p], u) = {}
      BY <1>6, Zenon DEF At
    <3> QED
      BY <1>6, <3>1, <3>2, Zenon DEF PublishedBy
  <2> QED
    BY <1>0, <1>3, <1>7, <2>1, Zenon DEF RrdpFollowsPublishers, PublishedBy
<1> QED
  BY <1>0, <1>3, <1>4, <1>7, <1>8, <1>9, StagedFrame, DeltasFrame, Zenon DEF PublicationInv

\* RepositoryContent::remove_publisher: all objects of the publisher are
\* withdrawn.
LEMMA RemoveContentStep ==
    ASSUME PublicationInv, NEW r \in Handler, NEW p \in Publisher, RemoveContent(r, p)
    PROVE  PublicationInv'
<1>0. PublishersOK /\ StagedOK /\ DeltasOK /\ RequestsOK /\ RrdpFollowsPublishers
  BY Zenon DEF PublicationInv
<1> DEFINE h == [op |-> "remove", publisher |-> p]
<1>1. h \in HandlerState /\ h.op # "commit" /\ handler' = [handler EXCEPT ![r] = h]
  <2>1. h \in HandlerState
    BY HandlerStates, Zenon
  <2> QED
    BY <2>1 DEF RemoveContent
<1> HIDE DEF h
<1>2. UNCHANGED <<access, snapshot, deltas, serial, past>>
  BY DEF RemoveContent
<1>3. RequestsOK'
  <2>1. access' \subseteq Publisher
    BY <1>0, <1>2 DEF RequestsOK
  <2> QED
    BY <1>0, <1>1, <2>1, RequestStep, Zenon
<1>4. CASE p \notin DOMAIN publishers
  <2>1. UNCHANGED <<publishers, staged, doubtful>>
    BY <1>4 DEF RemoveContent
  <2> QED
    BY <1>0, <1>2, <1>3, <2>1, PublishersFrame, StagedFrame, DeltasFrame, FollowsFrame, Zenon
    DEF PublicationInv, StagedOK
<1>5. CASE p \in DOMAIN publishers
  <2> DEFINE us == {o.uri : o \in publishers[p]}
  <2>1. PICK d \in [us -> [old : Content, new : {NoHash}]] :
           /\ \A u \in DOMAIN d : [uri |-> u, hash |-> d[u].old] \in publishers[p]
           /\ staged' = Stage(d)
           /\ doubtful' = doubtful \cup Misfits(publishers[p], d)
           /\ publishers' = [q \in DOMAIN publishers \ {p} |-> publishers[q]]
    BY <1>5, Zenon DEF RemoveContent
  <2>2. us \subseteq Jail[p] /\ us \subseteq Uri
    BY <1>0, <1>5, PublicationServerAssumption DEF PublishersOK
  <2>3. /\ DOMAIN d = us /\ d \in [us -> Element]
        /\ \A u \in us : d[u].old \in Content /\ d[u].new = NoHash
    BY <2>1 DEF Element
  <2>4. d \in Delta
    BY <2>2, <2>3, IsDelta
  <2>5. OwnElements(d)
    <3>1. ASSUME NEW u \in DOMAIN d PROVE d[u].old \in ContentOf[u] /\ d[u].new = NoHash
      <4>1. [uri |-> u, hash |-> d[u].old] \in publishers[p] /\ d[u].new = NoHash
        BY <2>1, <2>3, Zenon
      <4> QED
        BY <1>0, <1>5, <4>1 DEF PublishersOK, Own
    <3> QED
      BY <3>1 DEF OwnElements
  <2>6. /\ StagedOK'
        /\ \A u \in Uri \ doubtful' :
              At(ApplyDelta(snapshot, Stage(d)), u)
                 = IF u \in DOMAIN d THEN Left(u, d[u]) ELSE At(ApplyDelta(snapshot, staged), u)
    BY <1>0, <1>2, <1>5, <2>1, <2>2, <2>3, <2>4, <2>5, Staging, Zenon
  <2>7. doubtful \subseteq doubtful'
    BY <2>1
  <2>8. DeltasOK'
    BY <1>0, <1>2, <2>7, DeltasFrame, Zenon
  <2>9. DOMAIN publishers' = DOMAIN publishers \ {p} /\ \A q \in DOMAIN publishers' : publishers'[q] = publishers[q]
    BY <2>1, Zenon
  <2>10. PublishersOK'
    BY <1>0, <2>7, <2>9 DEF PublishersOK
  <2>11. ASSUME NEW u \in Uri \ doubtful'
         PROVE  At(ApplyDelta(snapshot, Stage(d)), u) = PublishedBy(publishers', u)
    <3>1. CASE u \in us
      <4>1. PublishedBy(publishers', u) = {}
        BY <2>2, <2>9, <2>10, <3>1, PublishedByOne, Zenon DEF PublishersOK
      <4>2. Left(u, d[u]) = {}
        BY <2>3, <3>1, Zenon DEF Left, IsWithdraw
      <4> QED
        BY <2>3, <2>6, <2>11, <3>1, <4>1, <4>2, Zenon
    <3>2. CASE u \notin us
      <4>1. At(publishers[p], u) = {}
        BY <3>2, Zenon DEF At
      <4>2. PublishedBy(publishers', u) = PublishedBy(publishers, u)
        <5>1. \A o : o \in PublishedBy(publishers', u) <=> \E q \in DOMAIN publishers \ {p} : o \in At(publishers[q], u)
          BY <2>9, Zenon DEF PublishedBy
        <5>2. \A o : o \in PublishedBy(publishers, u) <=> \E q \in DOMAIN publishers : o \in At(publishers[q], u)
          BY Zenon DEF PublishedBy
        <5> QED
          BY <4>1, <5>1, <5>2
      <4>3. u \in Uri \ doubtful
        BY <2>7, <2>11
      <4> QED
        BY <1>0, <2>3, <2>6, <2>11, <3>2, <4>2, <4>3, Zenon DEF RrdpFollowsPublishers, PublishedBy
    <3> QED
      BY <3>1, <3>2, Zenon
  <2>12. RrdpFollowsPublishers'
    BY <1>2, <2>1, <2>11, Zenon DEF RrdpFollowsPublishers, PublishedBy
  <2> QED
    BY <1>3, <2>6, <2>8, <2>10, <2>12, Zenon DEF PublicationInv
<1> QED
  BY <1>4, <1>5, Zenon

\* RepositoryAccess::remove_publisher leaves the content alone.
LEMMA RemoveAccessStep ==
    ASSUME PublicationInv, NEW r \in Handler, RemoveAccess(r)
    PROVE  PublicationInv'
<1>1. handler' = [handler EXCEPT ![r] = Idle] /\ UNCHANGED <<publishers, snapshot, staged, deltas, serial, past, doubtful>>
  BY DEF RemoveAccess, rrdp
<1>2. access' \subseteq Publisher
  BY DEF RemoveAccess, PublicationInv, RequestsOK
<1>3. RequestsOK'
  BY <1>1, <1>2, RequestStep, HandlerStates, Zenon DEF PublicationInv
<1> QED
  BY <1>1, <1>3, PublishersFrame, StagedFrame, DeltasFrame, FollowsFrame, Zenon DEF PublicationInv, StagedOK

\* A restart loses requests, and nothing that is stored.
LEMMA RestartStep ==
    ASSUME PublicationInv, Restart
    PROVE  PublicationInv'
<1>1. UNCHANGED <<access, publishers, snapshot, staged, deltas, serial, past, doubtful>>
  BY DEF Restart, rrdp
<1>2. RequestsOK'
  <2>1. handler' \in [Handler -> HandlerState] /\ \A r \in Handler : handler'[r] = Idle /\ Idle.op # "commit"
    BY HandlerStates DEF Restart
  <2> QED
    BY <1>1, <2>1, Zenon DEF RequestsOK, PublicationInv
<1> QED
  BY <1>1, <1>2, PublishersFrame, StagedFrame, DeltasFrame, FollowsFrame, Zenon DEF PublicationInv, StagedOK
-----------------------------------------------------------------------------
(* RRDP updates and session resets *)

\* With nothing staged RRDP serves the snapshot.
LEMMA ApplyNothing ==
    ASSUME NEW objects
    PROVE  ApplyDelta(objects, << >>) = objects
<1>1. ASSUME NEW o PROVE o \in ApplyDelta(objects, << >>) <=> o \in objects
  BY InApplied, NoElements, Zenon
<1> QED
  BY <1>1

\* After an update nothing is staged.
LEMMA StagedEmpty ==
    ASSUME NEW objects \in SUBSET Object, Own(objects), doubtful' \subseteq Uri,
           snapshot' = objects, staged' = << >>
    PROVE  StagedOK'
  BY NoElements, Zenon DEF StagedOK, OwnElements

\* apply_rrdp_updated: the new delta leads from the last snapshot to the new
\* one, and the deltas that stay lead to the last one as before.
LEMMA UpdateDeltas ==
    ASSUME PublicationInv, UpdateRrdp
    PROVE  DeltasOK'
<1> DEFINE D == [serial : 1 .. MaxSerial, elements : Delta]
           new == [serial |-> serial + 1, elements |-> staged]
<1>1. /\ serial \in 1 .. MaxSerial /\ serial < MaxSerial /\ MaxSerial \in Nat
      /\ deltas \in Seq(D) /\ Len(deltas) \in Nat
      /\ past \in [serial - Len(deltas) .. serial -> SUBSET Object]
      /\ staged \in Delta /\ snapshot \subseteq Object
  BY PublicationServerAssumption DEF PublicationInv, DeltasOK, StagedOK, UpdateRrdp
<1>2. /\ serial' = serial + 1 /\ snapshot' = ApplyDelta(snapshot, staged) /\ doubtful' = doubtful
      /\ past' = [s \in serial' - Len(deltas') .. serial' |-> IF s = serial' THEN snapshot' ELSE past[s]]
  BY DEF UpdateRrdp
<1>3. PICK young \in 0 .. Len(deltas) : \E notOld \in young .. Len(deltas) :
         deltas' = KeptDeltas([serial |-> serial', elements |-> staged], snapshot', young, notOld)
  BY Zenon DEF UpdateRrdp
<1>4. PICK notOld \in young .. Len(deltas) :
         deltas' = KeptDeltas([serial |-> serial', elements |-> staged], snapshot', young, notOld)
  BY <1>3, Zenon
<1>5. new \in D /\ new = [serial |-> serial', elements |-> staged] /\ young \in Nat /\ notOld \in Nat
  BY <1>1, <1>2
<1>6. new.serial = serial + 1 /\ new.elements = staged
  OBVIOUS
<1> HIDE DEF D, new
<1>7. /\ deltas' \in Seq(D)
      /\ Len(deltas') \in 0 .. Len(deltas) + 1
      /\ \A i \in 1 .. Len(deltas') : deltas'[i] = IF i = 1 THEN new ELSE deltas[i - 1]
  <2>1. deltas' = KeptDeltas(new, snapshot', young, notOld)
    BY <1>4, <1>5, Zenon
  <2>2. new \in D /\ deltas \in Seq(D) /\ young \in Nat /\ notOld \in Nat
    BY <1>1, <1>5, Zenon
  <2> QED
    BY <2>1, <2>2, KeptFacts
<1>8. serial' \in 1 .. MaxSerial
  BY <1>1, <1>2
<1>9. snapshot' \subseteq Object
  BY <1>1, <1>2, ApplyType, Zenon
<1>10. \A s \in serial' - Len(deltas') .. serial : s \in serial - Len(deltas) .. serial /\ s # serial'
  BY <1>1, <1>2, <1>7
<1>11. past' \in [serial' - Len(deltas') .. serial' -> SUBSET Object]
  <2>1. ASSUME NEW s \in serial' - Len(deltas') .. serial'
        PROVE  (IF s = serial' THEN snapshot' ELSE past[s]) \in SUBSET Object
    <3>1. s = serial' \/ s \in serial' - Len(deltas') .. serial
      BY <1>1, <1>2, <1>7
    <3> QED
      BY <1>1, <1>9, <1>10, <3>1, Zenon
  <2> QED
    BY <1>2, <2>1, Zenon
<1>12. /\ past'[serial'] = snapshot'
       /\ \A s \in serial' - Len(deltas') .. serial : past'[s] = past[s]
  <2>1. serial' \in serial' - Len(deltas') .. serial'
    BY <1>1, <1>2, <1>7
  <2>2. \A s \in serial' - Len(deltas') .. serial : s \in serial' - Len(deltas') .. serial'
    BY <1>1, <1>2, <1>7
  <2> QED
    BY <1>2, <1>10, <2>1, <2>2, Zenon
<1>13. /\ past[serial] = snapshot
       /\ \A i \in 1 .. Len(deltas) : /\ deltas[i].serial = serial - i + 1
                                      /\ past[serial - i + 1] = ApplyDelta(past[serial - i], deltas[i].elements)
       /\ \A i \in 1 .. Len(deltas) : \A u \in DOMAIN deltas[i].elements \ doubtful :
              Acceptable(past[deltas[i].serial - 1], u, deltas[i].elements[u])
  BY Zenon DEF PublicationInv, DeltasOK, DeltasLeadToSnapshot, DeltasAcceptable
\* The deltas that stay, one position further on.
<1>14. ASSUME NEW i \in 1 .. Len(deltas'), i # 1
       PROVE  /\ deltas'[i] = deltas[i - 1] /\ i - 1 \in 1 .. Len(deltas)
              /\ deltas'[i].serial = serial' - i + 1
              /\ serial' - i + 1 = serial - (i - 1) + 1 /\ serial' - i = serial - (i - 1)
              /\ serial' - i + 1 \in serial' - Len(deltas') .. serial
              /\ serial' - i \in serial' - Len(deltas') .. serial
  <2>1. /\ i - 1 \in 1 .. Len(deltas)
        /\ serial' - i + 1 = serial - (i - 1) + 1 /\ serial' - i = serial - (i - 1)
        /\ serial' - i + 1 \in serial' - Len(deltas') .. serial
        /\ serial' - i \in serial' - Len(deltas') .. serial
    BY <1>1, <1>2, <1>7, <1>14
  <2> QED
    BY <1>7, <1>13, <1>14, <2>1, Zenon
<1>15. ASSUME 1 \in 1 .. Len(deltas')
       PROVE  /\ deltas'[1] = new /\ serial' - 1 + 1 = serial' /\ serial' - 1 = serial
              /\ serial \in serial' - Len(deltas') .. serial
  BY <1>1, <1>2, <1>7, <1>15
<1>16. DeltasLeadToSnapshot'
  <2>1. ASSUME NEW i \in 1 .. Len(deltas')
        PROVE  /\ deltas'[i].serial = serial' - i + 1
               /\ past'[serial' - i + 1] = ApplyDelta(past'[serial' - i], deltas'[i].elements)
    <3>1. CASE i = 1
      BY <1>2, <1>6, <1>12, <1>13, <1>15, <3>1, Zenon
    <3>2. CASE i # 1
      <4>1. past'[serial' - i + 1] = past[serial - (i - 1) + 1] /\ past'[serial' - i] = past[serial - (i - 1)]
        BY <1>12, <1>14, <3>2, Zenon
      <4> QED
        BY <1>13, <1>14, <3>2, <4>1, Zenon
    <3> QED
      BY <3>1, <3>2, Zenon
  <2> QED
    BY <1>12, <2>1, Zenon DEF DeltasLeadToSnapshot
<1>17. DeltasAcceptable'
  <2>1. ASSUME NEW i \in 1 .. Len(deltas'), NEW u \in DOMAIN deltas'[i].elements \ doubtful
        PROVE  Acceptable(past'[deltas'[i].serial - 1], u, deltas'[i].elements[u])
    <3>1. CASE i = 1
      <4>1. deltas'[i] = new /\ deltas'[i].serial - 1 = serial
        BY <1>1, <1>6, <1>15, <3>1
      <4>2. past'[serial] = snapshot
        BY <1>12, <1>13, <1>15, <3>1, Zenon
      <4> QED
        BY <1>6, <2>1, <4>1, <4>2, Zenon DEF PublicationInv, StagedOK
    <3>2. CASE i # 1
      <4>1. deltas'[i].serial - 1 = serial' - i /\ deltas[i - 1].serial - 1 = serial' - i
        <5>1. deltas'[i].serial = serial' - i + 1 /\ deltas[i - 1].serial = serial' - i + 1
          BY <1>14, <3>2, Zenon
        <5>2. i \in Int /\ serial' \in Int
          BY <1>1, <1>2, <1>7
        <5> QED
          BY <5>1, <5>2
      <4>2. past'[serial' - i] = past[serial' - i]
        BY <1>12, <1>14, <3>2, Zenon
      <4> QED
        <5>1. i - 1 \in 1 .. Len(deltas) /\ deltas'[i] = deltas[i - 1]
          BY <1>14, <3>2, Zenon
        <5>2. Acceptable(past[deltas[i - 1].serial - 1], u, deltas[i - 1].elements[u])
          BY <1>13, <2>1, <5>1, Zenon
        <5> QED
          BY <4>1, <4>2, <5>1, <5>2, Zenon
    <3> QED
      BY <3>1, <3>2, Zenon
  <2> QED
    BY <1>2, <2>1, Zenon DEF DeltasAcceptable
<1> QED
  BY <1>7, <1>8, <1>11, <1>16, <1>17, Zenon DEF DeltasOK, D

\* RepositoryManager::update_rrdp_if_needed: the snapshot becomes what it was
\* to be.
LEMMA UpdateRrdpStep ==
    ASSUME PublicationInv, UpdateRrdp
    PROVE  PublicationInv'
<1>1. /\ UNCHANGED <<access, publishers, handler, doubtful>>
      /\ snapshot' = ApplyDelta(snapshot, staged) /\ staged' = << >>
  BY DEF UpdateRrdp
<1>2. PublishersOK' /\ RequestsOK'
  BY <1>1, PublishersFrame, Zenon DEF PublicationInv, RequestsOK
<1>3. ApplyDelta(snapshot, staged) \in SUBSET Object /\ Own(ApplyDelta(snapshot, staged)) /\ doubtful' \subseteq Uri
  BY <1>1, ApplyType, ApplyOwn, Zenon DEF PublicationInv, StagedOK
<1>4. StagedOK'
  BY <1>1, <1>3, StagedEmpty, Zenon
<1>5. RrdpFollowsPublishers'
  <2>1. ApplyDelta(snapshot', staged') = ApplyDelta(snapshot, staged)
    BY <1>1, ApplyNothing, Zenon
  <2>2. publishers' = publishers /\ doubtful' = doubtful /\ RrdpFollowsPublishers
    BY <1>1, Zenon DEF PublicationInv
  <2> QED
    BY <2>1, <2>2 DEF RrdpFollowsPublishers
<1> QED
  BY <1>2, <1>4, <1>5, UpdateDeltas, Zenon DEF PublicationInv

\* A session reset starts with the current snapshot and no deltas.
LEMMA SessionResetStep ==
    ASSUME PublicationInv, SessionReset
    PROVE  PublicationInv'
<1>1. UNCHANGED <<access, publishers, snapshot, staged, handler, doubtful>>
  BY DEF SessionReset
<1>2. DeltasOK'
  <2>1. /\ serial' = 1 /\ deltas' = << >> /\ Len(deltas') = 0 /\ past' = [s \in {1} |-> snapshot] /\ snapshot' = snapshot
        /\ snapshot \in SUBSET Object /\ 1 \in 1 .. MaxSerial
    BY PublicationServerAssumption DEF SessionReset, PublicationInv, StagedOK
  <2>2. past' \in [serial' - Len(deltas') .. serial' -> SUBSET Object] /\ past'[serial'] = snapshot'
    BY <2>1
  <2>3. deltas' \in Seq([serial : 1 .. MaxSerial, elements : Delta]) /\ 1 .. Len(deltas') = {}
    BY <2>1
  <2>4. DeltasLeadToSnapshot' /\ DeltasAcceptable'
    BY <2>2, <2>3, Zenon DEF DeltasLeadToSnapshot, DeltasAcceptable
  <2> QED
    BY <2>1, <2>2, <2>3, <2>4, Zenon DEF DeltasOK
<1>3. PublishersOK' /\ RequestsOK' /\ StagedOK' /\ RrdpFollowsPublishers'
  BY <1>1, PublishersFrame, StagedFrame, FollowsFrame, Zenon DEF PublicationInv, RequestsOK, StagedOK
<1> QED
  BY <1>2, <1>3, Zenon DEF PublicationInv

\* The invariant holds of a new repository.
LEMMA PublicationInit == Init => PublicationInv
<1> SUFFICES ASSUME Init PROVE PublicationInv
  OBVIOUS
<1>1. PublishersOK
  BY DEF Init, PublishersOK
<1>2. StagedOK
  BY NoElements DEF Init, StagedOK, Own, OwnElements
<1>3. DeltasOK
  BY PublicationServerAssumption DEF Init, DeltasOK, DeltasLeadToSnapshot, DeltasAcceptable
<1>4. RequestsOK
  BY HandlerStates DEF Init, RequestsOK
<1>5. RrdpFollowsPublishers
  <2>1. snapshot = {} /\ staged = << >> /\ DOMAIN publishers = {}
    BY DEF Init
  <2>2. ApplyDelta(snapshot, staged) = {}
    BY <2>1, ApplyNothing
  <2> QED
    BY <2>1, <2>2 DEF RrdpFollowsPublishers, At
<1> QED
  BY <1>1, <1>2, <1>3, <1>4, <1>5, Zenon DEF PublicationInv

\* Every step of the publication server keeps the invariant.
LEMMA PublicationNext == PublicationInv /\ [Next]_vars => PublicationInv'
<1> SUFFICES ASSUME PublicationInv, [Next]_vars PROVE PublicationInv'
  OBVIOUS
<1>1. ASSUME NEW r \in Handler, Continue(r) PROVE PublicationInv'
  BY <1>1, PublishVerifyStep, PublishCommitStep, CreateContentStep, RemoveAccessStep, Zenon DEF Continue
<1>2. ASSUME NEW r \in Handler, NEW p \in Publisher, Request(r, p) PROVE PublicationInv'
  BY <1>2, PublishStartStep, CreateAccessStep, RemoveContentStep, Zenon DEF Request
<1>3. CASE UNCHANGED vars
  <2>1. UNCHANGED <<access, publishers, snapshot, staged, deltas, serial, past, handler, doubtful>>
    BY <1>3 DEF vars, rrdp
  <2> QED
    BY <2>1, PublishersFrame, StagedFrame, DeltasFrame, FollowsFrame, Zenon DEF PublicationInv, RequestsOK, StagedOK
<1> QED
  BY <1>1, <1>2, <1>3, UpdateRrdpStep, SessionResetStep, RestartStep, Zenon DEF Next

\* The inductive invariant of the publication server, for any publishers, URIs
\* and contents: what is staged fits the snapshot, the deltas follow each
\* other, a delta that was verified is its publisher's own, and RRDP follows
\* the publishers.
THEOREM PublicationInvariant == Spec => []PublicationInv
<1> QED
  BY PublicationInit, PublicationNext, PTL DEF Spec

\* All variables keep their types, for any publishers, URIs and contents.
THEOREM PublicationTypes == Spec => []TypeOK
<1>1. PublicationInv => TypeOK
  BY Zenon DEF PublicationInv, PublishersOK, StagedOK, DeltasOK, RequestsOK, TypeOK
<1> QED
  BY <1>1, PublicationInvariant, PTL

\* For any publishers, requests and interleaving of them: at every URI at
\* which no delta was applied that did not fit, RRDP serves what the
\* publishers have published once the staged elements are in a delta.
THEOREM RrdpCorrect == Spec => []RrdpFollowsPublishers
<1>1. PublicationInv => RrdpFollowsPublishers
  BY Zenon DEF PublicationInv
<1> QED
  BY <1>1, PublicationInvariant, PTL

\* For any publishers and any retention of deltas, the retained deltas lead,
\* one by one, from the snapshot of an earlier serial to the current one.
THEOREM DeltasCorrect == Spec => []DeltasLeadToSnapshot
<1>1. PublicationInv => DeltasLeadToSnapshot
  BY Zenon DEF PublicationInv, DeltasOK
<1> QED
  BY <1>1, PublicationInvariant, PTL

\* Every retained delta fits the snapshot before it, at every URI at which
\* no delta was applied that did not fit.
THEOREM DeltasAccepted == Spec => []DeltasAcceptable
<1>1. PublicationInv => DeltasAcceptable
  BY Zenon DEF PublicationInv, DeltasOK
<1> QED
  BY <1>1, PublicationInvariant, PTL
=============================================================================
