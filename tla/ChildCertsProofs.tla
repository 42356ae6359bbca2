-------------------------- MODULE ChildCertsProofs --------------------------
(***************************************************************************)
(* The invariants of ChildCerts and its action property hold for any       *)
(* children, keys and resources, and whatever the bounds on certificates,  *)
(* keys and classes are.                                                   *)
(***************************************************************************)
EXTENDS ChildCerts, TLAPS

-----------------------------------------------------------------------------
(* The inductive invariant *)

\* TypeOK in parts: the certificates, the requests, and all else.
Certs == [Key -> Cert \cup {None}]
ObjectSet == [published : Certs, revoked : SUBSET [serial : Serial, date : {"past"}]]
CertTypes == issued \in Certs /\ suspended \in Certs /\ objects \in ObjectSet /\ woken \subseteq Serial
OtherTypes ==
    /\ class \in Class /\ classes \in Nat /\ keys \in Nat
    /\ current \in CAKey \cup {None} /\ new \in CAKey \cup {None}
    /\ current = None <=> class = None
    /\ state \in [Child -> {"active", "suspended", None}]
    /\ entitled \in [Child -> SUBSET Resource]
    /\ used \in [Key -> Class \cup {Revoked}]
    /\ count \in [Key -> Nat]
    /\ strayed \subseteq Key

\* A request is about a key of its child.
RequestInv ==
    /\ request \in [Child -> Request \cup {None}] /\ halted \in BOOLEAN
    /\ \A c \in Child : request[c] # None => request[c].key \in KeysOf[c]

\* A child that is not known has no key in use, and no key is in use in a
\* class that is yet to come.
ChildInv ==
    /\ class # None => class <= classes
    /\ \A k \in Key : used[k] \in Nat => used[k] <= classes
    /\ \A c \in Child : ~Known(c) => \A k \in KeysOf[c] : used[k] = None

\* The new key is another one than the current one, and belongs to the class.
KeyInv ==
    /\ current # None => current.id <= keys
    /\ new # None => class # None /\ new.id # current.id /\ new.id <= keys

\* The objects of a key: the serial number of a certificate names the key that it is published for,
\* and was given out before, like the ones on the CRL.
Numbered(objs) ==
    /\ \A k \in KeysIn(objs.published) :
          objs.published[k].serial.key = k /\ objs.published[k].serial.n <= count[k]
    /\ \A r \in objs.revoked : r.serial.n <= count[r.serial.key]

\* PublishedNotRevoked, of any set of objects.
NotRevoked(objs) ==
    \A k \in KeysIn(objs.published) : \A r \in objs.revoked :
        r.serial = objs.published[k].serial => r.serial \in woken

\* Likewise for the certificates in the CA, of which there are none without a class.
CertsNumbered ==
    \A certs \in {issued, suspended} : \A k \in KeysIn(certs) :
        certs[k].serial.key = k /\ certs[k].serial.n <= count[k]
SerialInv == CertsNumbered /\ Numbered(objects) /\ NotRevoked(objects)

\* Without a class there are no certificates.
NoneWithoutClass == class = None => issued = NoCerts /\ suspended = NoCerts

\* A key that has not strayed has one certificate at most.
OneCert == \A k \in Key \ strayed : issued[k] = None \/ suspended[k] = None

StateInv ==
    /\ CertTypes /\ OtherTypes /\ ChildInv /\ KeyInv /\ SerialInv
    /\ NoneWithoutClass /\ NoneOverclaims /\ OneCert /\ CertsFollowChild /\ PublishedIsIssued

IInv == RequestInv /\ StateInv

-----------------------------------------------------------------------------
(* What an update does to one key *)

\* KeyObjectSet::update_certs, for one key: what is done last to it counts.
LEMMA PublishedAfter ==
    ASSUME NEW objs, NEW up, NEW k \in Key
    PROVE  UpdateCerts(objs, up).published[k] =
               IF up.suspend[k] # None THEN None
               ELSE IF up.unsuspend[k] # None THEN up.unsuspend[k]
               ELSE IF up.issue[k] # None THEN up.issue[k]
               ELSE IF k \in up.remove THEN None ELSE objs.published[k]
  BY Zenon DEF UpdateCerts, Withdraw, Publish, Unrevoke, Put, Drop, KeysIn

\* ChildCertificatesUpdated, for one key.
LEMMA IssuedAfterAt ==
    ASSUME NEW up, NEW k \in Key
    PROVE  /\ IssuedAfter(up)[k] =
                  IF k \in up.remove \/ up.suspend[k] # None THEN None
                  ELSE IF up.unsuspend[k] # None THEN up.unsuspend[k]
                  ELSE IF up.issue[k] # None THEN up.issue[k] ELSE issued[k]
           /\ SuspendedAfter(up)[k] =
                  IF up.suspend[k] # None THEN up.suspend[k]
                  ELSE IF up.unsuspend[k] # None \/ k \in up.remove THEN None
                  ELSE suspended[k]
  BY DEF IssuedAfter, SuspendedAfter, Put, Drop, KeysIn

\* The revocations that are made when some certificates are withdrawn.
LEMMA RevocationsFacts ==
    ASSUME NEW certs, NEW ks, NEW r
    PROVE  r \in Revocations(certs, ks) <=>
               \E k \in Key : /\ k \in ks /\ certs[k] # None
                              /\ r = [serial |-> certs[k].serial, date |-> "now"]
  BY DEF Revocations, Revocation, KeysIn

\* The CRL after update_certs, step by step.
LEMMA RevokedSteps ==
    ASSUME NEW objs, NEW up
    PROVE  UpdateCerts(objs, up).revoked =
               LET removed     == Withdraw(objs, up.remove)
                   replaced    == Publish(removed, up.issue)
                   unsuspended == Put(replaced.published, up.unsuspend)
               IN  Passed(((((objs.revoked \cup Revocations(objs.published, up.remove))
                              \cup Revocations(removed.published, KeysIn(up.issue)))
                              \ Revocations(up.unsuspend, Key))
                              \cup Revocations(replaced.published, KeysIn(up.unsuspend)))
                              \cup Revocations(unsuspended, KeysIn(up.suspend)))
  BY Zenon DEF UpdateCerts, Withdraw, Publish, Unrevoke

\* A key that an update is about.
Touched(up, k) ==
    k \in up.remove \/ up.issue[k] # None \/ up.unsuspend[k] # None \/ up.suspend[k] # None

\* Why a serial number is on the CRL after an update: it was there, or its certificate was published
\* and is touched, or the update itself publishes the certificate and withdraws it again.
RevokedBy(objs, up, serial) ==
    \/ \E q \in objs.revoked : serial = q.serial
    \/ \E k \in Key : Touched(up, k) /\ objs.published[k] # None /\ serial = objs.published[k].serial
    \/ \E k \in Key : /\ up.issue[k] # None
                      /\ up.unsuspend[k] # None \/ up.suspend[k] # None
                      /\ serial = up.issue[k].serial
    \/ \E k \in Key : up.unsuspend[k] # None /\ up.suspend[k] # None /\ serial = up.unsuspend[k].serial

\* The CRL has nothing else.
LEMMA RevokedAtMost ==
    ASSUME NEW objs, NEW up, NEW r \in UpdateCerts(objs, up).revoked
    PROVE  /\ r = [serial |-> r.serial, date |-> "past"]
           /\ RevokedBy(objs, up, r.serial)
  <1> DEFINE removed == Withdraw(objs, up.remove).published
             replaced == Publish(Withdraw(objs, up.remove), up.issue).published
             unsuspended == Put(replaced, up.unsuspend)
             all == ((((objs.revoked \cup Revocations(objs.published, up.remove))
                         \cup Revocations(removed, KeysIn(up.issue)))
                         \ Revocations(up.unsuspend, Key))
                         \cup Revocations(replaced, KeysIn(up.unsuspend)))
                         \cup Revocations(unsuspended, KeysIn(up.suspend))
  <1>11. UpdateCerts(objs, up).revoked = Passed(all)
    BY RevokedSteps
  <1>1. PICK q \in all : r = [serial |-> q.serial, date |-> "past"]
    BY <1>11, Zenon DEF Passed
  <1>2. \A k \in Key : removed[k] = IF k \in up.remove THEN None ELSE objs.published[k]
    BY DEF Withdraw, Drop
  <1>3. \A k \in Key : replaced[k] = IF up.issue[k] # None THEN up.issue[k] ELSE removed[k]
    BY DEF Publish, Put
  <1>4. \A k \in Key : unsuspended[k] = IF up.unsuspend[k] # None THEN up.unsuspend[k] ELSE replaced[k]
    BY DEF Put
  <1>5. r = [serial |-> r.serial, date |-> "past"] /\ r.serial = q.serial
    BY <1>1
  <1>6. CASE q \in objs.revoked
    BY <1>5, <1>6 DEF RevokedBy
  <1>7. CASE q \in Revocations(objs.published, up.remove)
    BY <1>5, <1>7, RevocationsFacts DEF RevokedBy, Touched
  <1>8. CASE q \in Revocations(removed, KeysIn(up.issue))
    <2>1. PICK k \in Key : k \in KeysIn(up.issue) /\ removed[k] # None /\ q.serial = removed[k].serial
      BY <1>8, RevocationsFacts
    <2>2. up.issue[k] # None /\ removed[k] = objs.published[k]
      BY <1>2, <2>1 DEF KeysIn
    <2> QED
      BY <1>5, <2>1, <2>2 DEF RevokedBy, Touched
  <1>9. CASE q \in Revocations(replaced, KeysIn(up.unsuspend))
    <2>1. PICK k \in Key : k \in KeysIn(up.unsuspend) /\ replaced[k] # None /\ q.serial = replaced[k].serial
      BY <1>9, RevocationsFacts
    <2>2. up.unsuspend[k] # None
      BY <2>1, Zenon DEF KeysIn
    <2>3. CASE up.issue[k] # None
      BY <1>3, <1>5, <2>1, <2>2, <2>3, Zenon DEF RevokedBy
    <2>4. CASE up.issue[k] = None
      BY <1>2, <1>3, <1>5, <2>1, <2>2, <2>4 DEF RevokedBy, Touched
    <2> QED
      BY <2>3, <2>4
  <1>10. CASE q \in Revocations(unsuspended, KeysIn(up.suspend))
    <2>1. PICK k \in Key : k \in KeysIn(up.suspend) /\ unsuspended[k] # None /\ q.serial = unsuspended[k].serial
      BY <1>10, RevocationsFacts
    <2>2. up.suspend[k] # None
      BY <2>1, Zenon DEF KeysIn
    <2>3. CASE up.unsuspend[k] # None
      BY <1>4, <1>5, <2>1, <2>2, <2>3, Zenon DEF RevokedBy
    <2>4. CASE up.unsuspend[k] = None /\ up.issue[k] # None
      <3>1. unsuspended[k] = up.issue[k]
        BY <1>3, <1>4, <2>4, Zenon
      <3> QED
        BY <1>5, <2>1, <2>2, <2>4, <3>1, Zenon DEF RevokedBy
    <2>5. CASE up.unsuspend[k] = None /\ up.issue[k] = None
      <3>1. unsuspended[k] = removed[k]
        BY <1>3, <1>4, <2>5, Zenon
      <3>2. removed[k] = objs.published[k]
        BY <1>2, <2>1, <3>1, Zenon
      <3> QED
        BY <1>5, <2>1, <2>2, <3>1, <3>2, Zenon DEF RevokedBy, Touched
    <2> QED
      BY <2>3, <2>4, <2>5
  <1> QED
    BY <1>1, <1>6, <1>7, <1>8, <1>9, <1>10, Zenon

\* The CRL keeps what it had, and has what was published and is touched.  Revocations::remove takes
\* a revocation out only if it was made by the same update, for a certificate that it unsuspends.
LEMMA RevokedAtLeast ==
    ASSUME NEW objs, NEW up,
           \A k \in Key : up.unsuspend[k] # None =>
               k \notin up.remove /\ up.issue[k] = None /\ up.unsuspend[k].serial.key = k,
           \A k \in Key : objs.published[k] # None => objs.published[k].serial.key = k
    PROVE  /\ \A q \in objs.revoked :
                  q = [serial |-> q.serial, date |-> "past"] => q \in UpdateCerts(objs, up).revoked
           /\ \A k \in Key : Touched(up, k) /\ objs.published[k] # None =>
                  [serial |-> objs.published[k].serial, date |-> "past"] \in UpdateCerts(objs, up).revoked
  <1> DEFINE removed == Withdraw(objs, up.remove).published
             replaced == Publish(Withdraw(objs, up.remove), up.issue).published
             unsuspended == Put(replaced, up.unsuspend)
             first == (objs.revoked \cup Revocations(objs.published, up.remove))
                          \cup Revocations(removed, KeysIn(up.issue))
             all == ((first \ Revocations(up.unsuspend, Key))
                         \cup Revocations(replaced, KeysIn(up.unsuspend)))
                         \cup Revocations(unsuspended, KeysIn(up.suspend))
  <1>1. \A q \in all : [serial |-> q.serial, date |-> "past"] \in UpdateCerts(objs, up).revoked
    BY RevokedSteps DEF Passed
  <1>2. \A k \in Key : removed[k] = IF k \in up.remove THEN None ELSE objs.published[k]
    BY DEF Withdraw, Drop
  <1>3. \A k \in Key : replaced[k] = IF up.issue[k] # None THEN up.issue[k] ELSE removed[k]
    BY DEF Publish, Put
  <1>4. \A k \in Key : unsuspended[k] = IF up.unsuspend[k] # None THEN up.unsuspend[k] ELSE replaced[k]
    BY DEF Put
  <1>5. ASSUME NEW q \in objs.revoked, q = [serial |-> q.serial, date |-> "past"]
        PROVE  q \in UpdateCerts(objs, up).revoked
    <2>1. q.date = "past"
      BY <1>5
    <2>2. q \notin Revocations(up.unsuspend, Key)
      BY <2>1, RevocationsFacts
    <2>3. q \in all
      BY <2>2
    <2> QED
      BY <1>1, <1>5, <2>3
  <1>6. ASSUME NEW k \in Key, Touched(up, k), objs.published[k] # None
        PROVE  [serial |-> objs.published[k].serial, date |-> "past"] \in UpdateCerts(objs, up).revoked
    <2> DEFINE q == [serial |-> objs.published[k].serial, date |-> "now"]
    <2>1. q.serial = objs.published[k].serial /\ q.serial.key = k
      BY <1>6
    <2>2. q \in all
      <3>1. CASE up.unsuspend[k] = None /\ (k \in up.remove \/ up.issue[k] # None)
        <4>1. q \in Revocations(objs.published, up.remove) \/ q \in Revocations(removed, KeysIn(up.issue))
          BY <1>2, <1>6, <3>1, RevocationsFacts DEF KeysIn
        <4>2. q \notin Revocations(up.unsuspend, Key)
          <5> SUFFICES ASSUME NEW j \in Key, up.unsuspend[j] # None,
                              q = [serial |-> up.unsuspend[j].serial, date |-> "now"]
                       PROVE  FALSE
            BY RevocationsFacts
          <5>1. q.serial.key = j
            OBVIOUS
          <5> QED
            BY <2>1, <3>1, <5>1
        <4> QED
          BY <4>1, <4>2
      <3>2. CASE up.unsuspend[k] # None
        <4>1. replaced[k] = objs.published[k]
          BY <1>2, <1>3, <3>2
        <4>2. q \in Revocations(replaced, KeysIn(up.unsuspend))
          BY <1>6, <3>2, <4>1, RevocationsFacts DEF KeysIn
        <4> QED
          BY <4>2
      <3>3. CASE up.unsuspend[k] = None /\ k \notin up.remove /\ up.issue[k] = None
        <4>1. unsuspended[k] = objs.published[k] /\ k \in KeysIn(up.suspend)
          BY <1>2, <1>3, <1>4, <1>6, <3>3 DEF Touched, KeysIn
        <4>2. q \in Revocations(unsuspended, KeysIn(up.suspend))
          BY <1>6, <4>1, RevocationsFacts
        <4> QED
          BY <4>2
      <3> QED
        BY <3>1, <3>2, <3>3
    <2> QED
      BY <1>1, <2>1, <2>2
  <1> QED
    BY <1>5, <1>6

-----------------------------------------------------------------------------
(* Updates with certificates that have their own serial numbers *)

\* What is issued has the next number.  What is suspended or unsuspended has a number already,
\* or gets one.
Sound(up) ==
    /\ up.issue \in Certs /\ up.suspend \in Certs /\ up.unsuspend \in Certs
    /\ count' \in [Key -> Nat] /\ \A k \in Key : count[k] <= count'[k]
    /\ \A k \in KeysIn(up.issue) :
          up.issue[k].serial.key = k /\ up.issue[k].serial.n = count[k] + 1 /\ count'[k] = count[k] + 1
    /\ \A k \in KeysIn(up.suspend) :
          up.suspend[k].serial.key = k /\ up.suspend[k].serial.n <= count'[k]
    /\ \A k \in KeysIn(up.unsuspend) :
          up.unsuspend[k].serial.key = k /\ up.unsuspend[k].serial.n <= count'[k]

\* Certificates are records with their fields, and there is no certificate that is None.
LEMMA CertFacts ==
    ASSUME NEW certs \in Certs, NEW k \in Key, certs[k] # None
    PROVE  /\ certs[k] \in Cert /\ certs[k].serial \in Serial
           /\ certs[k].serial.key \in Key /\ certs[k].serial.n \in Nat
  BY DEF Certs, Cert, Serial

\* The types after an update.
LEMMA UpdateTypes ==
    ASSUME NEW objs \in ObjectSet, NEW up, Sound(up), Update(up, objs),
           issued \in Certs, suspended \in Certs, woken \subseteq Serial
    PROVE  issued' \in Certs /\ suspended' \in Certs /\ objects' \in ObjectSet /\ woken' \subseteq Serial
  <1>1. issued' \in Certs /\ suspended' \in Certs
    BY DEF Update, IssuedAfter, SuspendedAfter, Put, Drop, Sound, Certs
  <1>2. woken' \subseteq Serial
    BY CertFacts DEF Update, Sound, KeysIn
  <1>3. objects' = [published |-> objects'.published, revoked |-> objects'.revoked]
    BY DEF Update, UpdateCerts
  <1>4. objects'.published \in Certs
    <2>1. objects'.published = [k \in Key |-> objects'.published[k]]
      BY DEF Update, UpdateCerts, Withdraw, Drop
    <2>2. objs.published \in Certs /\ up.issue \in Certs /\ up.unsuspend \in Certs
      BY DEF Sound, ObjectSet
    <2>3. ASSUME NEW k \in Key
          PROVE  objects'.published[k] \in {objs.published[k], up.issue[k], up.unsuspend[k], None}
      BY PublishedAfter DEF Update
    <2> QED
      BY <2>1, <2>2, <2>3 DEF Certs
  <1>5. objects'.revoked \subseteq [serial : Serial, date : {"past"}]
    <2> SUFFICES ASSUME NEW r \in objects'.revoked PROVE r \in [serial : Serial, date : {"past"}]
      OBVIOUS
    <2>1. r \in UpdateCerts(objs, up).revoked
      BY DEF Update
    <2>2. \A q \in objs.revoked : q.serial \in Serial
      BY DEF ObjectSet
    <2>3. objs.published \in Certs /\ up.issue \in Certs /\ up.unsuspend \in Certs
      BY DEF Sound, ObjectSet
    <2>4. RevokedBy(objs, up, r.serial)
      BY <2>1, RevokedAtMost
    <2>5. r.serial \in Serial
      BY <2>2, <2>3, <2>4, CertFacts DEF RevokedBy
    <2> QED
      BY <2>1, <2>5, RevokedAtMost
  <1> QED
    BY <1>1, <1>2, <1>3, <1>4, <1>5 DEF ObjectSet

\* Serial numbers after an update.
LEMMA UpdateNumbered ==
    ASSUME NEW objs \in ObjectSet, NEW up, Sound(up), Update(up, objs), Numbered(objs), CertsNumbered,
           count \in [Key -> Nat], issued \in Certs, suspended \in Certs
    PROVE  Numbered(objects)' /\ CertsNumbered'
  <1>1. objs.published \in Certs /\ up.issue \in Certs /\ up.unsuspend \in Certs /\ up.suspend \in Certs
    BY DEF Sound, ObjectSet
  <1>2. \A k \in Key : count[k] \in Nat /\ count'[k] \in Nat /\ count[k] <= count'[k]
    BY DEF Sound
  <1>3. ASSUME NEW k \in Key, up.issue[k] # None
        PROVE  up.issue[k].serial.key = k /\ up.issue[k].serial.n <= count'[k]
    BY <1>2, <1>3 DEF Sound, KeysIn
  <1>4. ASSUME NEW k \in Key, up.suspend[k] # None
        PROVE  up.suspend[k].serial.key = k /\ up.suspend[k].serial.n <= count'[k]
    BY <1>4 DEF Sound, KeysIn
  <1>5. ASSUME NEW k \in Key, up.unsuspend[k] # None
        PROVE  up.unsuspend[k].serial.key = k /\ up.unsuspend[k].serial.n <= count'[k]
    BY <1>5 DEF Sound, KeysIn
  <1>6. ASSUME NEW k \in Key, objs.published[k] # None
        PROVE  objs.published[k].serial.key = k /\ objs.published[k].serial.n <= count'[k]
    BY <1>1, <1>2, <1>6, CertFacts DEF Numbered, KeysIn
  <1>7. ASSUME NEW k \in Key, issued[k] # None
        PROVE  issued[k].serial.key = k /\ issued[k].serial.n <= count'[k]
    BY <1>2, <1>7, CertFacts DEF CertsNumbered, KeysIn
  <1>8. ASSUME NEW k \in Key, suspended[k] # None
        PROVE  suspended[k].serial.key = k /\ suspended[k].serial.n <= count'[k]
    BY <1>2, <1>8, CertFacts DEF CertsNumbered, KeysIn
  <1>9. ASSUME NEW k \in Key, objects'.published[k] # None
        PROVE  objects'.published[k].serial.key = k /\ objects'.published[k].serial.n <= count'[k]
    BY <1>3, <1>5, <1>6, <1>9, PublishedAfter DEF Update
  <1>10. ASSUME NEW r \in objects'.revoked
         PROVE  r.serial.n <= count'[r.serial.key]
    <2>1. r \in UpdateCerts(objs, up).revoked
      BY DEF Update
    <2>2. \A q \in objs.revoked : q.serial.n <= count'[q.serial.key]
      <3> SUFFICES ASSUME NEW q \in objs.revoked PROVE q.serial.n <= count'[q.serial.key]
        OBVIOUS
      <3>1. q.serial.key \in Key /\ q.serial.n \in Nat
        BY DEF ObjectSet, Serial
      <3> QED
        BY <1>2, <3>1 DEF Numbered
    <2>3. RevokedBy(objs, up, r.serial)
      BY <2>1, RevokedAtMost
    <2> QED
      BY <1>3, <1>5, <1>6, <2>2, <2>3 DEF RevokedBy
  <1>11. ASSUME NEW k \in Key, issued'[k] # None
         PROVE  issued'[k].serial.key = k /\ issued'[k].serial.n <= count'[k]
    BY <1>3, <1>5, <1>7, <1>11, IssuedAfterAt DEF Update
  <1>12. ASSUME NEW k \in Key, suspended'[k] # None
         PROVE  suspended'[k].serial.key = k /\ suspended'[k].serial.n <= count'[k]
    BY <1>4, <1>8, <1>12, IssuedAfterAt DEF Update
  <1> QED
    BY <1>9, <1>10, <1>11, <1>12 DEF Numbered, CertsNumbered, KeysIn

\* What is published after an update is not on the CRL, unless it was suspended: what is issued has
\* a number that is on no CRL, and what is revoked for one key has a number of that key.
LEMMA UpdateNotRevoked ==
    ASSUME NEW objs \in ObjectSet, NEW up, Sound(up), Update(up, objs), Numbered(objs), NotRevoked(objs),
           count \in [Key -> Nat]
    PROVE  NotRevoked(objects)'
  <1> SUFFICES ASSUME NEW k \in Key, objects'.published[k] # None, NEW r \in objects'.revoked,
                      r.serial = objects'.published[k].serial
               PROVE  r.serial \in woken'
    BY DEF NotRevoked, KeysIn
  <1>1. objs.published \in Certs /\ up.issue \in Certs /\ up.unsuspend \in Certs /\ up.suspend \in Certs
    BY DEF Sound, ObjectSet
  <1>2. count[k] \in Nat /\ r \in UpdateCerts(objs, up).revoked
    BY DEF Update
  <1>3. \A j \in Key : up.issue[j] # None => up.issue[j].serial.key = j /\ up.issue[j].serial.n = count[j] + 1
    BY DEF Sound, KeysIn
  <1>4. \A j \in Key : up.unsuspend[j] # None => up.unsuspend[j].serial.key = j
    BY DEF Sound, KeysIn
  <1>5. \A j \in Key : objs.published[j] # None =>
            objs.published[j].serial.key = j /\ objs.published[j].serial.n <= count[j]
    BY DEF Numbered, KeysIn
  <1>6. \A q \in objs.revoked : q.serial.n <= count[q.serial.key]
    BY DEF Numbered
  <1>7. up.suspend[k] = None
    BY PublishedAfter DEF Update
  <1>12. RevokedBy(objs, up, r.serial)
    BY <1>2, RevokedAtMost, Zenon
  <1>8. CASE up.unsuspend[k] # None
    BY <1>7, <1>8, PublishedAfter DEF Update, KeysIn
  <1>9. CASE up.unsuspend[k] = None /\ up.issue[k] # None
    <2>1. r.serial = up.issue[k].serial
      BY <1>7, <1>9, PublishedAfter DEF Update
    <2>2. r.serial.key = k /\ r.serial.n = count[k] + 1
      BY <1>3, <1>9, <2>1
    <2>3. \A q \in objs.revoked : r.serial # q.serial
      BY <1>2, <1>6, <2>2
    <2>4. \A j \in Key : objs.published[j] # None => r.serial # objs.published[j].serial
      BY <1>2, <1>5, <2>2
    <2>5. \A j \in Key : up.issue[j] # None /\ (up.unsuspend[j] # None \/ up.suspend[j] # None) =>
              r.serial # up.issue[j].serial
      BY <1>3, <1>7, <1>9, <2>2
    <2>6. \A j \in Key : up.unsuspend[j] # None => r.serial # up.unsuspend[j].serial
      BY <1>4, <1>9, <2>2
    <2> QED
      BY <1>12, <2>3, <2>4, <2>5, <2>6 DEF RevokedBy
  <1>10. CASE up.unsuspend[k] = None /\ up.issue[k] = None
    <2>1. objs.published[k] # None /\ r.serial = objs.published[k].serial /\ ~Touched(up, k)
      BY <1>7, <1>10, PublishedAfter DEF Update, Touched
    <2>2. r.serial.key = k
      BY <1>5, <2>1
    <2>3. (\E q \in objs.revoked : r.serial = q.serial) => r.serial \in woken
      BY <2>1, Zenon DEF NotRevoked, KeysIn
    <2>4. \A j \in Key : Touched(up, j) /\ objs.published[j] # None => r.serial # objs.published[j].serial
      BY <1>5, <2>1, <2>2
    <2>5. \A j \in Key : up.issue[j] # None => r.serial # up.issue[j].serial
      BY <1>3, <1>10, <2>2
    <2>6. \A j \in Key : up.unsuspend[j] # None => r.serial # up.unsuspend[j].serial
      BY <1>4, <1>10, <2>2
    <2>7. r.serial \in woken
      BY <1>12, <2>3, <2>4, <2>5, <2>6 DEF RevokedBy
    <2> QED
      BY <2>7 DEF Update
  <1> QED
    BY <1>8, <1>9, <1>10

-----------------------------------------------------------------------------
(* Updates of the objects that there are *)

\* What WithdrawnIsRevoked asks of a step.
RevokedStep ==
    /\ objects.revoked \subseteq objects'.revoked
    /\ \A k \in KeysIn(objects.published) :
          objects'.published[k] # objects.published[k] =>
              [serial |-> objects.published[k].serial, date |-> "past"] \in objects'.revoked

RevokedUnlessRolled ==
    current # None /\ current' # None /\ current'.id = current.id => RevokedStep

\* What an update leaves for a key, all together.
LEMMA UpdateAt ==
    ASSUME NEW up, NEW objs, Update(up, objs), NEW k \in Key
    PROVE  /\ issued'[k] = IF k \in up.remove \/ up.suspend[k] # None THEN None
                           ELSE IF up.unsuspend[k] # None THEN up.unsuspend[k]
                           ELSE IF up.issue[k] # None THEN up.issue[k] ELSE issued[k]
           /\ suspended'[k] = IF up.suspend[k] # None THEN up.suspend[k]
                              ELSE IF up.unsuspend[k] # None \/ k \in up.remove THEN None
                              ELSE suspended[k]
           /\ objects'.published[k] = IF up.suspend[k] # None THEN None
                                      ELSE IF up.unsuspend[k] # None THEN up.unsuspend[k]
                                      ELSE IF up.issue[k] # None THEN up.issue[k]
                                      ELSE IF k \in up.remove THEN None ELSE objs.published[k]
  BY PublishedAfter, IssuedAfterAt DEF Update

\* An update of the published objects, which unsuspends no certificate that it removes or replaces.
LEMMA UpdateKeeps ==
    ASSUME CertTypes, count \in [Key -> Nat], SerialInv, NEW up, Sound(up), Update(up, objects),
           \A k \in Key : up.unsuspend[k] # None => k \notin up.remove /\ up.issue[k] = None
    PROVE  CertTypes' /\ SerialInv' /\ RevokedStep
  <1>1. CertTypes'
    BY UpdateTypes DEF CertTypes
  <1>2. SerialInv'
    BY UpdateNumbered, UpdateNotRevoked DEF CertTypes, SerialInv
  <1>3. \A k \in Key : up.unsuspend[k] # None =>
            k \notin up.remove /\ up.issue[k] = None /\ up.unsuspend[k].serial.key = k
    BY DEF Sound, KeysIn
  <1>4. \A k \in Key : objects.published[k] # None => objects.published[k].serial.key = k
    BY DEF SerialInv, Numbered, KeysIn
  <1>5. objects' = UpdateCerts(objects, up)
    BY DEF Update
  <1>6. objects.revoked \subseteq objects'.revoked
    <2> SUFFICES ASSUME NEW q \in objects.revoked PROVE q \in objects'.revoked
      OBVIOUS
    <2>1. q = [serial |-> q.serial, date |-> "past"]
      BY DEF CertTypes, ObjectSet
    <2> QED
      BY <1>3, <1>4, <1>5, <2>1, RevokedAtLeast
  <1>7. ASSUME NEW k \in Key, objects.published[k] # None, objects'.published[k] # objects.published[k]
        PROVE  [serial |-> objects.published[k].serial, date |-> "past"] \in objects'.revoked
    <2>1. Touched(up, k)
      BY <1>7, UpdateAt DEF Touched
    <2> QED
      BY <1>3, <1>4, <1>5, <1>7, <2>1, RevokedAtLeast
  <1> QED
    BY <1>1, <1>2, <1>6, <1>7 DEF RevokedStep, KeysIn

\* Nothing is issued, suspended or unsuspended by a removal.
LEMMA RemovingKeeps ==
    ASSUME CertTypes, count \in [Key -> Nat], SerialInv, NEW ks, Update(Removing(ks), objects), count' = count
    PROVE  /\ CertTypes' /\ SerialInv' /\ RevokedStep
           /\ \A k \in Key :
                 /\ issued'[k] = IF k \in ks THEN None ELSE issued[k]
                 /\ suspended'[k] = IF k \in ks THEN None ELSE suspended[k]
                 /\ objects'.published[k] = IF k \in ks THEN None ELSE objects.published[k]
  <1> DEFINE up == Removing(ks)
  <1>1. \A k \in Key : up.issue[k] = None /\ up.suspend[k] = None /\ up.unsuspend[k] = None
    BY DEF Removing, Updates, NoCerts
  <1>2. up.remove = ks
    BY DEF Removing, Updates
  <1>3. up.issue \in Certs /\ up.suspend \in Certs /\ up.unsuspend \in Certs
    BY DEF Removing, Updates, NoCerts, Certs
  <1>4. Sound(up)
    BY <1>1, <1>3 DEF Sound, KeysIn
  <1>5. Update(up, objects)
    OBVIOUS
  <1> HIDE DEF up
  <1>6. CertTypes' /\ SerialInv' /\ RevokedStep
    BY <1>1, <1>4, <1>5, UpdateKeeps
  <1>7. ASSUME NEW k \in Key
        PROVE  /\ issued'[k] = IF k \in ks THEN None ELSE issued[k]
               /\ suspended'[k] = IF k \in ks THEN None ELSE suspended[k]
               /\ objects'.published[k] = IF k \in ks THEN None ELSE objects.published[k]
    BY <1>1, <1>2, <1>5, UpdateAt
  <1> QED
    BY <1>6, <1>7

\* Only suspensions: of certificates that are issued.
LEMMA SuspendingKeeps ==
    ASSUME CertTypes, count \in [Key -> Nat], SerialInv, NEW ks, count' = count,
           Update(Updates(NoCerts, {}, Only(issued, ks), NoCerts), objects)
    PROVE  /\ CertTypes' /\ SerialInv' /\ RevokedStep
           /\ \A k \in Key :
                 LET moved == k \in ks /\ issued[k] # None
                 IN  /\ issued'[k] = IF moved THEN None ELSE issued[k]
                     /\ suspended'[k] = IF moved THEN issued[k] ELSE suspended[k]
                     /\ objects'.published[k] = IF moved THEN None ELSE objects.published[k]
  <1> DEFINE up == Updates(NoCerts, {}, Only(issued, ks), NoCerts)
  <1>1. \A k \in Key : up.issue[k] = None /\ up.unsuspend[k] = None
    BY DEF Updates, NoCerts
  <1>2. \A k \in Key : k \notin up.remove /\ up.suspend[k] = IF k \in ks THEN issued[k] ELSE None
    BY DEF Updates, Only
  <1>3. up.issue \in Certs /\ up.suspend \in Certs /\ up.unsuspend \in Certs
    BY DEF Updates, NoCerts, Certs, Only, CertTypes
  <1>5. Update(up, objects)
    OBVIOUS
  <1>8. \A k \in Key : issued[k] # None => issued[k].serial.key = k /\ issued[k].serial.n <= count[k]
    BY DEF SerialInv, CertsNumbered, KeysIn
  <1>9. \A k \in Key : count[k] <= count'[k]
    OBVIOUS
  <1> HIDE DEF up
  <1>4. Sound(up)
    BY <1>1, <1>2, <1>3, <1>8, <1>9, Zenon DEF Sound, KeysIn
  <1>6. CertTypes' /\ SerialInv' /\ RevokedStep
    BY <1>1, <1>4, <1>5, UpdateKeeps, Zenon
  <1>7. ASSUME NEW k \in Key
        PROVE  LET moved == k \in ks /\ issued[k] # None
               IN  /\ issued'[k] = IF moved THEN None ELSE issued[k]
                   /\ suspended'[k] = IF moved THEN issued[k] ELSE suspended[k]
                   /\ objects'.published[k] = IF moved THEN None ELSE objects.published[k]
    BY <1>1, <1>2, <1>5, UpdateAt
  <1> QED
    BY <1>6, <1>7

\* Of the keys with a suspended certificate, some are unsuspended and some removed.
LEMMA UnsuspendingKeeps ==
    ASSUME CertTypes, count \in [Key -> Nat], SerialInv, NEW fit, NEW ks, fit \cap ks = {}, count' = count,
           \A k \in fit : suspended[k] # None,
           Update(Updates(NoCerts, ks, NoCerts, Only(suspended, fit)), objects)
    PROVE  /\ CertTypes' /\ SerialInv' /\ RevokedStep
           /\ \A k \in Key :
                 /\ issued'[k] = IF k \in ks THEN None ELSE IF k \in fit THEN suspended[k] ELSE issued[k]
                 /\ suspended'[k] = IF k \in ks \/ k \in fit THEN None ELSE suspended[k]
                 /\ objects'.published[k] = IF k \in ks THEN None
                                            ELSE IF k \in fit THEN suspended[k] ELSE objects.published[k]
  <1> DEFINE up == Updates(NoCerts, ks, NoCerts, Only(suspended, fit))
  <1>1. \A k \in Key : up.issue[k] = None /\ up.suspend[k] = None
    BY DEF Updates, NoCerts
  <1>2. up.remove = ks /\ \A k \in Key : up.unsuspend[k] = IF k \in fit THEN suspended[k] ELSE None
    BY DEF Updates, Only
  <1>3. up.issue \in Certs /\ up.suspend \in Certs /\ up.unsuspend \in Certs
    BY DEF Updates, NoCerts, Certs, Only, CertTypes
  <1>5. Update(up, objects)
    OBVIOUS
  <1>8. \A k \in Key : suspended[k] # None => suspended[k].serial.key = k /\ suspended[k].serial.n <= count[k]
    BY DEF SerialInv, CertsNumbered, KeysIn
  <1>9. \A k \in Key : count[k] <= count'[k]
    OBVIOUS
  <1> HIDE DEF up
  <1>4. Sound(up)
    BY <1>1, <1>2, <1>3, <1>8, <1>9 DEF Sound, KeysIn
  <1>6. CertTypes' /\ SerialInv' /\ RevokedStep
    BY <1>1, <1>2, <1>4, <1>5, UpdateKeeps
  <1>7. ASSUME NEW k \in Key
        PROVE  /\ issued'[k] = IF k \in ks THEN None ELSE IF k \in fit THEN suspended[k] ELSE issued[k]
               /\ suspended'[k] = IF k \in ks \/ k \in fit THEN None ELSE suspended[k]
               /\ objects'.published[k] = IF k \in ks THEN None
                                          ELSE IF k \in fit THEN suspended[k] ELSE objects.published[k]
    BY <1>1, <1>2, <1>5, UpdateAt
  <1> QED
    BY <1>6, <1>7

-----------------------------------------------------------------------------
(* New certificates *)

\* New certificates for some keys, and for no others.
IsMade(certs, ks, res, signer) ==
    /\ certs \in Certs
    /\ \A k \in Key \ ks : certs[k] = None
    /\ \A k \in Key \cap ks :
          /\ certs[k] \in Cert /\ certs[k] # None
          /\ certs[k].serial.key = k /\ certs[k].serial.n = count[k] + 1
          /\ certs[k].resources = res[k] /\ certs[k].signer = signer

LEMMA MadeFacts ==
    ASSUME count \in [Key -> Nat], NEW ks, NEW res, \A k \in Key \cap ks : res[k] \subseteq Resource,
           NEW signer \in Nat
    PROVE  IsMade(Made(ks, res, signer), ks, res, signer)
  <1> DEFINE made(k) == [serial |-> [key |-> k, n |-> count[k] + 1], resources |-> res[k], signer |-> signer]
  <1>1. ASSUME NEW k \in Key, k \in ks
        PROVE  /\ made(k) \in Cert /\ made(k).serial.key = k /\ made(k).serial.n = count[k] + 1
               /\ made(k).resources = res[k] /\ made(k).signer = signer
    <2>1. count[k] + 1 \in Nat
      OBVIOUS
    <2>2. [key |-> k, n |-> count[k] + 1] \in Serial
      BY <2>1 DEF Serial
    <2> QED
      BY <1>1, <2>2 DEF Cert
  <1>2. Made(ks, res, signer) = [k \in Key |-> IF k \notin ks THEN None ELSE made(k)]
    BY DEF Made
  <1> HIDE DEF made
  <1>3. None \notin Cert
    BY ChildCertsAssumption
  <1> QED
    BY <1>1, <1>2, <1>3 DEF Certs, IsMade

\* Certificates are made anew for some keys, issued or suspended, and others removed.
Reissuing(shrink, left, ks, hold, kept, signer) ==
    Updates(Made(shrink, left, signer), ks, Made(hold, kept, signer), NoCerts)

LEMMA ReissuingSound ==
    ASSUME count \in [Key -> Nat],
           NEW shrink, NEW left, \A k \in Key \cap shrink : left[k] \subseteq Resource,
           NEW hold, NEW kept, \A k \in Key \cap hold : kept[k] \subseteq Resource,
           NEW ks, NEW signer \in Nat, Count(shrink \cup hold)
    PROVE  Sound(Reissuing(shrink, left, ks, hold, kept, signer)) /\ count' \in [Key -> Nat]
  <1> DEFINE issue == Made(shrink, left, signer)
             suspend == Made(hold, kept, signer)
             up == Reissuing(shrink, left, ks, hold, kept, signer)
  <1>1. up.issue = issue /\ up.suspend = suspend /\ up.unsuspend = NoCerts
    BY DEF Updates, Reissuing
  <1>2. IsMade(issue, shrink, left, signer) /\ IsMade(suspend, hold, kept, signer)
    BY MadeFacts
  <1>3. \A k \in Key : (issue[k] # None <=> k \in shrink) /\ (suspend[k] # None <=> k \in hold)
    BY <1>2 DEF IsMade
  <1>4. \A k \in Key : /\ count'[k] \in Nat /\ count[k] <= count'[k]
                       /\ (k \in shrink \/ k \in hold) => count'[k] = count[k] + 1
    BY DEF Count
  <1>5. count' \in [Key -> Nat]
    BY <1>4 DEF Count
  <1>6. NoCerts \in Certs /\ \A k \in Key : NoCerts[k] = None
    BY DEF NoCerts, Certs
  <1> HIDE DEF issue, suspend, up
  <1>7. \A k \in KeysIn(suspend) : suspend[k].serial.key = k /\ suspend[k].serial.n <= count'[k]
    BY <1>2, <1>3, <1>4 DEF KeysIn, IsMade
  <1>8. \A k \in KeysIn(issue) :
            issue[k].serial.key = k /\ issue[k].serial.n = count[k] + 1 /\ count'[k] = count[k] + 1
    BY <1>2, <1>3, <1>4, Zenon DEF KeysIn, IsMade
  <1>9. Sound(up)
    BY <1>1, <1>2, <1>4, <1>5, <1>6, <1>7, <1>8 DEF Sound, KeysIn, IsMade
  <1> QED
    BY <1>5, <1>9 DEF up

\* What they leave for a key: issue and suspend are the new certificates.
Reissued(shrink, issue, ks, hold, suspend, objs, k) ==
    /\ issued'[k] = IF k \in ks \/ k \in hold THEN None ELSE IF k \in shrink THEN issue[k] ELSE issued[k]
    /\ suspended'[k] = IF k \in hold THEN suspend[k] ELSE IF k \in ks THEN None ELSE suspended[k]
    /\ objects'.published[k] = IF k \in hold THEN None ELSE IF k \in shrink THEN issue[k]
                               ELSE IF k \in ks THEN None ELSE objs.published[k]

LEMMA ReissuingAt ==
    ASSUME count \in [Key -> Nat],
           NEW shrink, NEW left, \A k \in Key \cap shrink : left[k] \subseteq Resource,
           NEW hold, NEW kept, \A k \in Key \cap hold : kept[k] \subseteq Resource,
           NEW ks, NEW signer \in Nat,
           NEW objs, Update(Reissuing(shrink, left, ks, hold, kept, signer), objs), NEW k \in Key
    PROVE  Reissued(shrink, Made(shrink, left, signer), ks, hold, Made(hold, kept, signer), objs, k)
  <1> DEFINE issue == Made(shrink, left, signer)
             suspend == Made(hold, kept, signer)
             up == Reissuing(shrink, left, ks, hold, kept, signer)
  <1>1. up.issue = issue /\ up.suspend = suspend /\ up.unsuspend[k] = None /\ up.remove = ks
    BY Zenon DEF Updates, Reissuing, NoCerts
  <1>2. IsMade(issue, shrink, left, signer) /\ IsMade(suspend, hold, kept, signer)
    BY MadeFacts, Zenon
  <1>3. (issue[k] # None <=> k \in shrink) /\ (suspend[k] # None <=> k \in hold)
    BY <1>2, Zenon DEF IsMade
  <1>4. Update(up, objs)
    BY Zenon
  <1> HIDE DEF issue, suspend, up
  <1>5. Reissued(shrink, issue, ks, hold, suspend, objs, k)
    BY <1>1, <1>3, <1>4, UpdateAt DEF Reissued
  <1> QED
    BY <1>5, Zenon DEF issue, suspend

\* With the objects of the current key.
LEMMA ReissuingKeeps ==
    ASSUME CertTypes, count \in [Key -> Nat], SerialInv,
           NEW shrink, NEW left, \A k \in Key \cap shrink : left[k] \subseteq Resource,
           NEW hold, NEW kept, \A k \in Key \cap hold : kept[k] \subseteq Resource,
           NEW ks, NEW signer \in Nat, Count(shrink \cup hold),
           Update(Reissuing(shrink, left, ks, hold, kept, signer), objects)
    PROVE  CertTypes' /\ SerialInv' /\ RevokedStep
  <1> DEFINE up == Reissuing(shrink, left, ks, hold, kept, signer)
  <1>1. Sound(up)
    BY ReissuingSound
  <1>2. \A k \in Key : up.unsuspend[k] = None
    BY DEF Reissuing, Updates, NoCerts
  <1>3. Update(up, objects)
    OBVIOUS
  <1> HIDE DEF up
  <1> QED
    BY <1>1, <1>2, <1>3, UpdateKeeps

\* With no objects yet, for the new key of a key roll.
LEMMA RenewingKeeps ==
    ASSUME CertTypes, count \in [Key -> Nat], SerialInv,
           NEW shrink, NEW left, \A k \in Key \cap shrink : left[k] \subseteq Resource,
           NEW hold, NEW kept, \A k \in Key \cap hold : kept[k] \subseteq Resource,
           NEW ks, NEW signer \in Nat, Count(shrink \cup hold),
           Update(Reissuing(shrink, left, ks, hold, kept, signer), NoObjects)
    PROVE  CertTypes' /\ SerialInv'
  <1> DEFINE up == Reissuing(shrink, left, ks, hold, kept, signer)
  <1>1. Sound(up)
    BY ReissuingSound
  <1>2. NoObjects \in ObjectSet
    BY DEF NoObjects, NoCerts, ObjectSet, Certs
  <1>3. Numbered(NoObjects) /\ NotRevoked(NoObjects)
    BY Zenon DEF NoObjects, NoCerts, Numbered, NotRevoked, KeysIn
  <1>6. Update(up, NoObjects)
    OBVIOUS
  <1> HIDE DEF up
  <1>4. CertTypes'
    BY <1>1, <1>2, <1>6, UpdateTypes, Zenon DEF CertTypes
  <1>5. SerialInv'
    BY <1>1, <1>2, <1>3, <1>6, UpdateNumbered, UpdateNotRevoked DEF CertTypes, SerialInv
  <1> QED
    BY <1>4, <1>5

-----------------------------------------------------------------------------
(* The steps *)

\* Markers are unlike what they stand beside.
LEMMA Markers ==
    /\ None \notin Cert /\ None \notin CAKey /\ None \notin Request /\ None \notin Nat
    /\ None # "active" /\ None # "suspended"
    /\ Revoked \notin Nat /\ Revoked # None
  BY ChildCertsAssumption DEF Class

\* No two children share a key, and their keys are keys.
LEMMA KeysApart ==
    ASSUME NEW c \in Child, NEW d \in Child, NEW k \in KeysOf[c]
    PROVE  k \in Key /\ (k \in KeysOf[d] => d = c)
  BY ChildCertsAssumption

\* Steps that are not about certificates, children, or the keys of the CA.
LEMMA StateUnchanged ==
    ASSUME StateInv, UNCHANGED <<caVars, childVars, certVars, count, strayed, woken>>
    PROVE  StateInv' /\ RevokedStep
  <1>1. /\ class' = class /\ classes' = classes /\ keys' = keys /\ current' = current /\ new' = new
        /\ state' = state /\ entitled' = entitled /\ used' = used /\ count' = count
        /\ issued' = issued /\ suspended' = suspended /\ objects' = objects
        /\ strayed' = strayed /\ woken' = woken
    BY DEF caVars, childVars, certVars
  <1>2. CertTypes' /\ OtherTypes' /\ ChildInv' /\ KeyInv'
    BY <1>1 DEF StateInv, CertTypes, OtherTypes, ChildInv, KeyInv, Known
  <1>3. SerialInv'
    BY <1>1 DEF StateInv, SerialInv, CertsNumbered, Numbered, NotRevoked, KeysIn
  <1>4. NoneWithoutClass' /\ NoneOverclaims' /\ OneCert' /\ PublishedIsIssued'
    BY <1>1, Zenon DEF StateInv, NoneWithoutClass, NoneOverclaims, OneCert, PublishedIsIssued, KeysIn
  <1>5. CertsFollowChild'
    BY <1>1 DEF StateInv, CertsFollowChild, Held
  <1>6. RevokedStep
    BY <1>1 DEF RevokedStep
  <1> QED
    BY <1>2, <1>3, <1>4, <1>5, <1>6 DEF StateInv

\* child_remove: the certificates that are issued to the child go, and keys of suspended ones stray.
LEMMA ChildRemoveStep ==
    ASSUME StateInv, NEW c \in Child, ChildRemove(c)
    PROVE  StateInv' /\ RevokedStep
  <1> DEFINE ks == Held(c) \cap KeysIn(issued)
  <1>1. /\ CertTypes /\ SerialInv /\ count \in [Key -> Nat]
        /\ Update(Removing(ks), objects) /\ count' = count
    BY Zenon DEF StateInv, OtherTypes, ChildRemove
  <1> HIDE DEF ks
  <1>2. CertTypes' /\ SerialInv' /\ RevokedStep
    BY <1>1, RemovingKeeps, Zenon
  <1>3. \A k \in Key : /\ issued'[k] = IF k \in ks THEN None ELSE issued[k]
                       /\ suspended'[k] = IF k \in ks THEN None ELSE suspended[k]
                       /\ objects'.published[k] = IF k \in ks THEN None ELSE objects.published[k]
    BY <1>1, RemovingKeeps
  <1>4. issued' \in Certs /\ suspended' \in Certs
    BY <1>2 DEF CertTypes
  <1>5. /\ state' = [state EXCEPT ![c] = None] /\ entitled' = [entitled EXCEPT ![c] = {}]
        /\ used' = [k \in Key |-> IF k \in KeysOf[c] THEN None ELSE used[k]]
        /\ strayed' = strayed \cup (Held(c) \cap KeysIn(suspended))
        /\ class' = class /\ classes' = classes /\ keys' = keys /\ current' = current /\ new' = new
        /\ count' = count
    BY DEF ChildRemove, caVars
  <1>6. OtherTypes'
    BY <1>5 DEF StateInv, OtherTypes, KeysIn, Class
  <1>7. ChildInv'
    <2>1. \A k \in Key : used'[k] = None \/ used'[k] = used[k]
      BY <1>5
    <2>2. (class # None => class <= classes)' /\ \A k \in Key : used'[k] \in Nat => used'[k] <= classes'
      BY <1>5, <2>1, Markers, Zenon DEF StateInv, ChildInv
    <2>3. \A d \in Child : ~Known(d)' => \A k \in KeysOf[d] : used'[k] = None
      BY <1>5, KeysApart, Zenon DEF StateInv, OtherTypes, ChildInv, Known
    <2> QED
      BY <2>2, <2>3 DEF ChildInv
  <1>8. KeyInv'
    BY <1>5, Zenon DEF StateInv, KeyInv
  <1>9. NoneWithoutClass'
    BY <1>3, <1>4, <1>5, Zenon DEF StateInv, NoneWithoutClass, NoCerts, Certs
  <1>10. NoneOverclaims'
    BY <1>3, <1>5 DEF StateInv, NoneOverclaims, KeysIn
  <1>11. OneCert'
    BY <1>3, <1>5 DEF StateInv, OneCert
  <1>12. CertsFollowChild'
    <2> SUFFICES ASSUME NEW d \in Child, NEW k \in KeysOf[d], k \notin strayed'
                 PROVE  /\ issued'[k] # None <=> state'[d] = "active" /\ k \in Held(d)'
                        /\ suspended'[k] # None <=> state'[d] = "suspended" /\ k \in Held(d)'
      BY DEF CertsFollowChild
    <2>1. k \in Key /\ k \notin strayed
      BY <1>5, KeysApart
    <2>2. /\ issued[k] # None <=> state[d] = "active" /\ k \in Held(d)
          /\ suspended[k] # None <=> state[d] = "suspended" /\ k \in Held(d)
      BY <2>1 DEF StateInv, CertsFollowChild
    <2>3. CASE d = c
      <3>1. issued'[k] = None /\ suspended'[k] = None
        BY <1>3, <1>5, <2>1, <2>2, <2>3, Zenon DEF ks, KeysIn
      <3>2. state'[d] = None
        BY <1>5, <2>3 DEF StateInv, OtherTypes
      <3> QED
        BY <3>1, <3>2, Markers, Zenon
    <2>4. CASE d # c
      <3>1. k \notin ks /\ state'[d] = state[d] /\ used'[k] = used[k]
        BY <1>5, <2>1, <2>4, KeysApart DEF ks, Held, StateInv, OtherTypes
      <3>2. k \in Held(d)' <=> k \in Held(d)
        BY <1>5, <3>1 DEF Held
      <3> QED
        BY <1>3, <2>1, <2>2, <3>1, <3>2, Zenon
    <2> QED
      BY <2>3, <2>4
  <1>13. PublishedIsIssued'
    BY <1>3, <1>5, Zenon DEF StateInv, PublishedIsIssued
  <1> QED
    BY <1>2, <1>6, <1>7, <1>8, <1>9, <1>10, <1>11, <1>12, <1>13 DEF StateInv

\* suspend_inactive_children, or the operator: what is issued to the child becomes suspended.
LEMMA ChildSuspendStep ==
    ASSUME StateInv, NEW c \in Child, ChildSuspendInactive(c)
    PROVE  StateInv' /\ RevokedStep
  <1> DEFINE ks == Held(c)
  <1>1. /\ CertTypes /\ SerialInv /\ count \in [Key -> Nat] /\ count' = count
        /\ Update(Updates(NoCerts, {}, Only(issued, ks), NoCerts), objects)
    BY DEF StateInv, OtherTypes, ChildSuspendInactive
  <1> HIDE DEF ks
  <1>2. CertTypes' /\ SerialInv' /\ RevokedStep
    BY <1>1, SuspendingKeeps, Zenon
  <1>3. \A k \in Key :
            LET moved == k \in ks /\ issued[k] # None
            IN  /\ issued'[k] = IF moved THEN None ELSE issued[k]
                /\ suspended'[k] = IF moved THEN issued[k] ELSE suspended[k]
                /\ objects'.published[k] = IF moved THEN None ELSE objects.published[k]
    BY <1>1, SuspendingKeeps, Zenon
  <1>4. issued' \in Certs /\ suspended' \in Certs
    BY <1>2 DEF CertTypes
  <1>5. /\ state[c] = "active" /\ state' = [state EXCEPT ![c] = "suspended"]
        /\ entitled' = entitled /\ used' = used /\ strayed' = strayed /\ count' = count
        /\ class' = class /\ classes' = classes /\ keys' = keys /\ current' = current /\ new' = new
    BY DEF ChildSuspendInactive, caVars
  <1>6. OtherTypes'
    BY <1>5 DEF StateInv, OtherTypes
  <1>7. ChildInv'
    BY <1>5, Markers DEF StateInv, OtherTypes, ChildInv, Known
  <1>8. KeyInv'
    BY <1>5 DEF StateInv, KeyInv
  <1>9. NoneWithoutClass'
    BY <1>3, <1>4, <1>5 DEF StateInv, NoneWithoutClass, NoCerts, Certs
  <1>10. NoneOverclaims'
    BY <1>3, <1>5 DEF StateInv, NoneOverclaims, KeysIn
  <1>11. OneCert'
    BY <1>3, <1>5 DEF StateInv, OneCert
  <1>12. CertsFollowChild'
    <2> SUFFICES ASSUME NEW d \in Child, NEW k \in KeysOf[d], k \notin strayed'
                 PROVE  /\ issued'[k] # None <=> state'[d] = "active" /\ k \in Held(d)'
                        /\ suspended'[k] # None <=> state'[d] = "suspended" /\ k \in Held(d)'
      BY DEF CertsFollowChild
    <2>1. k \in Key /\ k \notin strayed
      BY <1>5, KeysApart
    <2>2. /\ issued[k] # None <=> state[d] = "active" /\ k \in Held(d)
          /\ suspended[k] # None <=> state[d] = "suspended" /\ k \in Held(d)
      BY <2>1 DEF StateInv, CertsFollowChild
    <2>3. k \in Held(d)' <=> k \in Held(d)
      BY <1>5, Zenon DEF Held
    <2>4. CASE d = c
      <3>1. state'[d] = "suspended"
        BY <1>5, <2>4 DEF StateInv, OtherTypes
      <3> QED
        BY <1>3, <1>5, <2>1, <2>2, <2>3, <2>4, <3>1 DEF ks
    <2>5. CASE d # c
      <3>1. k \notin ks /\ state'[d] = state[d]
        BY <1>5, <2>5, KeysApart, Zenon DEF ks, Held, StateInv, OtherTypes
      <3> QED
        BY <1>3, <2>1, <2>2, <2>3, <3>1
    <2> QED
      BY <2>4, <2>5
  <1>13. PublishedIsIssued'
    BY <1>3, <1>5 DEF StateInv, PublishedIsIssued
  <1> QED
    BY <1>2, <1>6, <1>7, <1>8, <1>9, <1>10, <1>11, <1>12, <1>13 DEF StateInv

\* The other way: what is suspended is issued again, or removed if it does not fit any more.
LEMMA ChildUnsuspendStep ==
    ASSUME StateInv, NEW c \in Child, state[c] = "suspended", ChildUnsuspend(c),
           UNCHANGED <<caVars, count, strayed>>
    PROVE  StateInv' /\ RevokedStep
  <1>1. PICK expiring \in SUBSET (Held(c) \cap KeysIn(suspended)) :
            LET waiting == Held(c) \cap KeysIn(suspended)
                fit     == {k \in waiting \ expiring : suspended[k].resources \subseteq entitled[c]}
            IN  /\ Update(Updates(NoCerts, waiting \ fit, NoCerts, Only(suspended, fit)), objects)
                /\ used' = Revoke(used, waiting \ fit)
                /\ state' = [state EXCEPT ![c] = "active"]
                /\ UNCHANGED entitled
    BY Zenon DEF ChildUnsuspend
  <1> DEFINE waiting == Held(c) \cap KeysIn(suspended)
             fit == {k \in waiting \ expiring : suspended[k].resources \subseteq entitled[c]}
             ks == waiting \ fit
  <1>2. /\ Update(Updates(NoCerts, ks, NoCerts, Only(suspended, fit)), objects)
        /\ used' = Revoke(used, ks) /\ state' = [state EXCEPT ![c] = "active"] /\ entitled' = entitled
        /\ strayed' = strayed /\ count' = count
        /\ class' = class /\ classes' = classes /\ keys' = keys /\ current' = current /\ new' = new
    BY <1>1, Zenon DEF caVars
  <1>3. /\ fit \cap ks = {} /\ \A k \in fit : suspended[k] # None
        /\ \A k \in Key : k \in fit \/ k \in ks <=> k \in Held(c) /\ suspended[k] # None
        /\ \A k \in fit \cup ks : k \in Key /\ k \in Held(c)
    BY Zenon DEF KeysIn
  <1> HIDE DEF fit, ks, waiting
  <1>4. CertTypes /\ SerialInv /\ count \in [Key -> Nat]
    BY DEF StateInv, OtherTypes
  <1>5. CertTypes' /\ SerialInv' /\ RevokedStep
    BY <1>2, <1>3, <1>4, UnsuspendingKeeps, Zenon
  <1>6. \A k \in Key :
            /\ issued'[k] = IF k \in ks THEN None ELSE IF k \in fit THEN suspended[k] ELSE issued[k]
            /\ suspended'[k] = IF k \in ks \/ k \in fit THEN None ELSE suspended[k]
            /\ objects'.published[k] = IF k \in ks THEN None
                                       ELSE IF k \in fit THEN suspended[k] ELSE objects.published[k]
    BY <1>2, <1>3, <1>4, UnsuspendingKeeps, Zenon
  <1>7. issued' \in Certs /\ suspended' \in Certs
    BY <1>5 DEF CertTypes
  <1>8. \A k \in Key : used'[k] = IF k \in ks /\ used[k] # None THEN Revoked ELSE used[k]
    BY <1>2 DEF Revoke
  <1>9. OtherTypes'
    BY <1>2, <1>8 DEF StateInv, OtherTypes, Revoke
  <1>10. ChildInv'
    <2>1. (class # None => class <= classes)' /\ \A k \in Key : used'[k] \in Nat => used'[k] <= classes'
      BY <1>2, <1>8, Markers, Zenon DEF StateInv, ChildInv
    <2>2. \A d \in Child : ~Known(d)' => \A k \in KeysOf[d] : used'[k] = None
      BY <1>2, <1>8, KeysApart, Markers, Zenon DEF StateInv, OtherTypes, ChildInv, Known
    <2> QED
      BY <2>1, <2>2, Zenon DEF ChildInv
  <1>11. KeyInv'
    BY <1>2 DEF StateInv, KeyInv
  <1>12. NoneWithoutClass'
    BY <1>2, <1>6, <1>7, Zenon DEF StateInv, NoneWithoutClass, NoCerts, Certs
  <1>13. NoneOverclaims'
    BY <1>2, <1>6, ZenonT(60) DEF StateInv, NoneOverclaims, KeysIn
  <1>14. OneCert'
    BY <1>2, <1>6, Zenon DEF StateInv, OneCert
  <1>15. CertsFollowChild'
    <2> SUFFICES ASSUME NEW d \in Child, NEW k \in KeysOf[d], k \notin strayed'
                 PROVE  /\ issued'[k] # None <=> state'[d] = "active" /\ k \in Held(d)'
                        /\ suspended'[k] # None <=> state'[d] = "suspended" /\ k \in Held(d)'
      BY DEF CertsFollowChild
    <2>1. k \in Key /\ k \notin strayed
      BY <1>2, KeysApart, Zenon
    <2>2. /\ issued[k] # None <=> state[d] = "active" /\ k \in Held(d)
          /\ suspended[k] # None <=> state[d] = "suspended" /\ k \in Held(d)
      BY <2>1 DEF StateInv, CertsFollowChild
    <2>3. CASE d = c
      <3>1. state'[d] = "active" /\ issued[k] = None
        BY <1>2, <2>2, <2>3, Zenon DEF StateInv, OtherTypes
      <3>2. CASE k \in ks
        <4>1. issued'[k] = None /\ suspended'[k] = None
          BY <1>6, <2>1, <3>2
        <4>2. used[k] # None
          BY <1>3, <3>2, Markers DEF Held
        <4>3. used'[k] = Revoked
          BY <1>8, <2>1, <3>2, <4>2
        <4>4. k \notin Held(d)'
          BY <1>2, <4>3, Markers, Zenon DEF Held, StateInv, OtherTypes, Class
        <4> QED
          BY <3>1, <4>1, <4>4, ZenonT(60)
      <3>3. CASE k \notin ks
        <4>1. k \in Held(d)' <=> k \in Held(d)
          BY <1>2, <1>8, <2>1, <3>3, Zenon DEF Held
        <4>2. k \in fit <=> k \in Held(d)
          BY <1>3, <2>1, <2>2, <2>3, <3>3, ZenonT(60)
        <4> QED
          BY <1>3, <1>6, <2>1, <2>2, <2>3, <3>1, <3>3, <4>1, <4>2, Zenon
      <3> QED
        BY <3>2, <3>3
    <2>4. CASE d # c
      <3>1. k \notin ks /\ k \notin fit /\ state'[d] = state[d]
        BY <1>2, <1>3, <2>4, KeysApart, Zenon DEF Held, StateInv, OtherTypes
      <3>2. k \in Held(d)' <=> k \in Held(d)
        BY <1>2, <1>8, <2>1, <3>1, Zenon DEF Held
      <3> QED
        BY <1>6, <2>1, <2>2, <3>1, <3>2
    <2> QED
      BY <2>3, <2>4
  <1>16. PublishedIsIssued'
    BY <1>2, <1>6, Zenon DEF StateInv, PublishedIsIssued
  <1> QED
    BY <1>5, <1>9, <1>10, <1>11, <1>12, <1>13, <1>14, <1>15, <1>16 DEF StateInv

\* child_certify: the request is answered with a new certificate, which replaces the old one.
LEMMA ChildCertifyStep ==
    ASSUME StateInv, RequestInv, NEW c \in Child, ChildCertify(c)
    PROVE  StateInv' /\ RevokedStep
  <1> DEFINE x == request[c].key
             res == [k \in Key |-> entitled[c] \cap current.resources]
             possible == Known(c) /\ class # None /\ request[c].class = class
  <1>1. x \in KeysOf[c] /\ x \in Key
    BY KeysApart DEF RequestInv, ChildCertify, Processing, Handling
  <1>2. class' = class /\ classes' = classes /\ keys' = keys /\ current' = current /\ new' = new
    BY Zenon DEF ChildCertify, caVars
  <1>3. CASE ~possible /\ UNCHANGED <<childVars, certVars, count, strayed, woken>>
    BY <1>2, <1>3, StateUnchanged DEF caVars
  <1>4. CASE /\ possible /\ Count({x})
             /\ Update(Updates(Made({x}, res, current.id), {}, NoCerts, NoCerts), objects)
             /\ used' = [used EXCEPT ![x] = class]
             /\ strayed' = IF state[c] = "suspended" THEN strayed \cup {x} ELSE strayed
             /\ UNCHANGED <<state, entitled>>
    <2> HIDE DEF x
    <2>1. Known(c) /\ class # None /\ current \in CAKey /\ current.id \in Nat /\ current.resources \subseteq Resource
      BY <1>4, Zenon DEF StateInv, OtherTypes, CAKey
    <2>2. \A k \in Key : res[k] \subseteq Resource
      BY <2>1, Zenon
    <2>3. Made({}, res, current.id) = NoCerts
      BY DEF Made, NoCerts
    <2>4. Update(Reissuing({x}, res, {}, {}, res, current.id), objects) /\ Count({x} \cup {})
      BY <1>4, <2>3, Zenon DEF Reissuing
    <2>5. CertTypes /\ SerialInv /\ count \in [Key -> Nat]
      BY Zenon DEF StateInv, OtherTypes
    <2> HIDE DEF res
    <2>6. CertTypes' /\ SerialInv' /\ RevokedStep
      BY <2>1, <2>2, <2>4, <2>5, ReissuingKeeps
    <2>7. \A k \in Key :
              /\ issued'[k] = IF k \in {x} THEN Made({x}, res, current.id)[k] ELSE issued[k]
              /\ suspended'[k] = suspended[k]
              /\ objects'.published[k] = IF k \in {x} THEN Made({x}, res, current.id)[k] ELSE objects.published[k]
      <3> SUFFICES ASSUME NEW k \in Key
                   PROVE  /\ issued'[k] = IF k \in {x} THEN Made({x}, res, current.id)[k] ELSE issued[k]
                          /\ suspended'[k] = suspended[k]
                          /\ objects'.published[k] =
                                IF k \in {x} THEN Made({x}, res, current.id)[k] ELSE objects.published[k]
        OBVIOUS
      <3>1. Reissued({x}, Made({x}, res, current.id), {}, {}, Made({}, res, current.id), objects, k)
        BY <2>1, <2>2, <2>4, <2>5, ReissuingAt, Zenon
      <3> QED
        BY <3>1, Zenon DEF Reissued
    <2>8. IsMade(Made({x}, res, current.id), {x}, res, current.id)
      BY <2>1, <2>2, <2>5, MadeFacts, Zenon
    <2>9. /\ issued'[x] # None /\ issued'[x] = objects'.published[x]
          /\ issued'[x].resources = res[x] /\ issued'[x].signer = current.id
      BY <1>1, <2>7, <2>8, Zenon DEF IsMade
    <2>10. \A k \in Key \ {x} : issued'[k] = issued[k] /\ objects'.published[k] = objects.published[k]
      BY <2>7
    <2>11. \A k \in Key : suspended'[k] = suspended[k]
      BY <2>7, Zenon
    <2>12. used' = [used EXCEPT ![x] = class] /\ state' = state /\ entitled' = entitled
      BY <1>4
    <2>13. /\ (state[c] = "suspended" => strayed' = strayed \cup {x})
           /\ (state[c] # "suspended" => strayed' = strayed)
      BY <1>4, ZenonT(60)
    <2>14. count' \in [Key -> Nat]
      BY <1>4, <2>5 DEF Count
    <2>15. OtherTypes'
      BY <1>1, <1>2, <2>12, <2>13, <2>14, ZenonT(60) DEF StateInv, OtherTypes
    <2>16. ChildInv'
      BY <1>1, <1>2, <2>1, <2>12, KeysApart DEF StateInv, OtherTypes, ChildInv, Known
    <2>17. KeyInv'
      BY <1>2, Zenon DEF StateInv, KeyInv
    <2>18. NoneWithoutClass'
      BY <1>2, <2>1, Zenon DEF NoneWithoutClass
    <2>19. NoneOverclaims'
      <3>1. res[x] \subseteq current.resources
        BY <1>1, Zenon DEF res
      <3> QED
        BY <1>1, <1>2, <2>9, <2>10, <2>11, <3>1 DEF StateInv, NoneOverclaims, KeysIn
    <2>20. x \notin strayed' => state[c] = "active" /\ x \notin strayed
      BY <2>1, <2>13 DEF StateInv, OtherTypes, Known
    <2>21. x \notin strayed' => suspended[x] = None
      BY <1>1, <2>20 DEF StateInv, CertsFollowChild
    <2>22. OneCert'
      BY <1>1, <2>10, <2>11, <2>13, <2>21, Zenon DEF StateInv, OneCert
    <2>23. CertsFollowChild'
      <3> SUFFICES ASSUME NEW d \in Child, NEW k \in KeysOf[d], k \notin strayed'
                   PROVE  /\ issued'[k] # None <=> state'[d] = "active" /\ k \in Held(d)'
                          /\ suspended'[k] # None <=> state'[d] = "suspended" /\ k \in Held(d)'
        BY DEF CertsFollowChild
      <3>1. k \in Key /\ k \notin strayed
        BY <2>13, KeysApart, Zenon
      <3>2. /\ issued[k] # None <=> state[d] = "active" /\ k \in Held(d)
            /\ suspended[k] # None <=> state[d] = "suspended" /\ k \in Held(d)
        BY <3>1, Zenon DEF StateInv, CertsFollowChild
      <3>3. CASE k = x
        <4>1. d = c
          BY <1>1, <3>3, KeysApart, Zenon
        <4>2. k \in Held(d)'
          BY <1>2, <2>1, <2>12, <3>1, <3>3, Zenon DEF Held, StateInv, OtherTypes
        <4> QED
          BY <2>9, <2>11, <2>12, <2>20, <2>21, <3>1, <3>3, <4>1, <4>2
      <3>4. CASE k # x
        <4>1. k \in Held(d)' <=> k \in Held(d)
          BY <1>2, <2>12, <3>1, <3>4 DEF Held, StateInv, OtherTypes
        <4> QED
          BY <2>10, <2>11, <2>12, <3>1, <3>2, <3>4, <4>1, Zenon
      <3> QED
        BY <3>3, <3>4
    <2>24. PublishedIsIssued'
      BY <1>1, <2>9, <2>10, <2>13, Zenon DEF StateInv, PublishedIsIssued
    <2> QED
      BY <2>6, <2>15, <2>16, <2>17, <2>18, <2>19, <2>22, <2>23, <2>24 DEF StateInv
  <1> QED
    BY <1>3, <1>4, Zenon DEF ChildCertify

\* child_revoke_key: all certificates for the key go.
LEMMA ChildRevokeKeyStep ==
    ASSUME StateInv, RequestInv, NEW c \in Child, ChildRevokeKey(c)
    PROVE  StateInv' /\ RevokedStep
  <1> DEFINE x == request[c].key
  <1>1. x \in KeysOf[c] /\ x \in Key
    BY KeysApart DEF RequestInv, ChildRevokeKey, Processing, Handling
  <1>2. /\ class' = class /\ classes' = classes /\ keys' = keys /\ current' = current /\ new' = new
        /\ count' = count
    BY Zenon DEF ChildRevokeKey, caVars
  <1>3. CASE UNCHANGED <<childVars, certVars, strayed, woken>>
    BY <1>2, <1>3, StateUnchanged DEF caVars
  <1>4. CASE /\ Known(c) /\ used[x] \notin {None, Revoked}
             /\ Update(Removing({x}), objects) /\ used' = Revoke(used, {x})
             /\ strayed' = strayed \ {x} /\ UNCHANGED <<state, entitled>>
    <2> HIDE DEF x
    <2>1. CertTypes /\ SerialInv /\ count \in [Key -> Nat]
      BY DEF StateInv, OtherTypes
    <2>2. CertTypes' /\ SerialInv' /\ RevokedStep
      BY <1>2, <1>4, <2>1, RemovingKeeps, Zenon
    <2>3. \A k \in Key :
              /\ issued'[k] = IF k \in {x} THEN None ELSE issued[k]
              /\ suspended'[k] = IF k \in {x} THEN None ELSE suspended[k]
              /\ objects'.published[k] = IF k \in {x} THEN None ELSE objects.published[k]
      BY <1>2, <1>4, <2>1, RemovingKeeps, Zenon
    <2>4. issued' \in Certs /\ suspended' \in Certs
      BY <2>2 DEF CertTypes
    <2>5. used'[x] = Revoked /\ \A k \in Key \ {x} : used'[k] = used[k]
      BY <1>1, <1>4, Zenon DEF Revoke
    <2>6. OtherTypes'
      BY <1>2, <1>4 DEF StateInv, OtherTypes, Revoke
    <2>7. ChildInv'
      <3>1. (class # None => class <= classes)' /\ \A k \in Key : used'[k] \in Nat => used'[k] <= classes'
        BY <1>2, <2>5, Markers, ZenonT(60) DEF StateInv, ChildInv
      <3>2. \A d \in Child : ~Known(d)' => \A k \in KeysOf[d] : used'[k] = None
        <4>1. \A d \in Child : Known(d)' <=> Known(d)
          BY <1>4, Zenon DEF Known, Revoke
        <4>2. \A d \in Child : ~Known(d) => \A k \in KeysOf[d] : k \in Key /\ used[k] = None
          BY KeysApart, Zenon DEF StateInv, ChildInv
        <4>3. \A d \in Child : ~Known(d) => x \notin KeysOf[d]
          BY <1>4, <4>2
        <4> QED
          BY <2>5, <4>1, <4>2, <4>3, Zenon
      <3> QED
        BY <3>1, <3>2, ZenonT(60) DEF ChildInv
    <2>8. KeyInv'
      BY <1>2 DEF StateInv, KeyInv
    <2>9. NoneWithoutClass'
      BY <1>2, <2>3, <2>4, ZenonT(60) DEF StateInv, NoneWithoutClass, NoCerts, Certs
    <2>10. NoneOverclaims'
      BY <1>2, <2>3 DEF StateInv, NoneOverclaims, KeysIn
    <2>11. OneCert'
      BY <1>4, <2>3 DEF StateInv, OneCert
    <2>12. CertsFollowChild'
      <3> SUFFICES ASSUME NEW d \in Child, NEW k \in KeysOf[d], k \notin strayed'
                   PROVE  /\ issued'[k] # None <=> state'[d] = "active" /\ k \in Held(d)'
                          /\ suspended'[k] # None <=> state'[d] = "suspended" /\ k \in Held(d)'
        BY DEF CertsFollowChild
      <3>1. k \in Key
        BY KeysApart
      <3>2. CASE k = x
        <4>1. k \notin Held(d)'
          BY <1>2, <2>5, <3>2, Markers, Zenon DEF Held, StateInv, OtherTypes, Class
        <4> QED
          BY <2>3, <3>1, <3>2, <4>1, Zenon
      <3>3. CASE k # x
        <4>1. k \notin strayed
          BY <1>4, <3>3, Zenon
        <4>2. /\ issued[k] # None <=> state[d] = "active" /\ k \in Held(d)
              /\ suspended[k] # None <=> state[d] = "suspended" /\ k \in Held(d)
          BY <4>1, Zenon DEF StateInv, CertsFollowChild
        <4>3. k \in Held(d)' <=> k \in Held(d)
          BY <1>2, <2>5, <3>1, <3>3, Zenon DEF Held
        <4> QED
          BY <1>4, <2>3, <3>1, <3>3, <4>2, <4>3, Zenon
      <3> QED
        BY <3>2, <3>3
    <2>13. PublishedIsIssued'
      BY <1>4, <2>3, Zenon DEF StateInv, PublishedIsIssued
    <2> QED
      BY <2>2, <2>6, <2>7, <2>8, <2>9, <2>10, <2>11, <2>12, <2>13 DEF StateInv
  <1> QED
    BY <1>3, <1>4, Zenon DEF ChildRevokeKey

\* The resources that are left of certificates are resources.
LEMMA ReducedFacts ==
    ASSUME NEW certs \in Certs, NEW resources, NEW k \in Key
    PROVE  /\ Reduced(certs, resources)[k] \subseteq Resource
           /\ Reduced(certs, resources)[k] \subseteq resources
           /\ k \in Over(certs, resources) <=> certs[k] # None /\ ~(certs[k].resources \subseteq resources)
  <1>1. Reduced(certs, resources)[k] = IF certs[k] = None THEN {} ELSE certs[k].resources \cap resources
    BY DEF Reduced
  <1>2. certs[k] # None => certs[k].resources \subseteq Resource
    BY DEF Certs, Cert
  <1>3. k \in Over(certs, resources) <=> certs[k] # None /\ ~(certs[k].resources \subseteq resources)
    BY DEF Over, KeysIn
  <1> QED
    BY <1>1, <1>2, <1>3

\* update_rcvd_cert_current: what exceeds the new resources is shrunk, or removed.
LEMMA ReceiveCertStep ==
    ASSUME StateInv, NEW resources \in SUBSET Resource, ReceiveCert(resources)
    PROVE  StateInv' /\ RevokedStep
  <1> DEFINE left == Reduced(issued, resources)
             kept == Reduced(suspended, resources)
             shrink == {k \in Over(issued, resources) : left[k] # {}}
             hold == {k \in Over(suspended, resources) : kept[k] # {}}
             ks == (Over(issued, resources) \ shrink) \cup (Over(suspended, resources) \ hold)
             id == current.id
             issue == Made(shrink, left, id)
             suspend == Made(hold, kept, id)
  <1>1. CertTypes /\ SerialInv /\ count \in [Key -> Nat] /\ issued \in Certs /\ suspended \in Certs
    BY DEF StateInv, OtherTypes, CertTypes
  <1>2. /\ class # None /\ current \in CAKey /\ id \in Nat
        /\ Count(shrink \cup hold) /\ Update(Reissuing(shrink, left, ks, hold, kept, id), objects)
        /\ used' = Revoke(used, ks) /\ current' = [id |-> id, resources |-> resources]
        /\ class' = class /\ classes' = classes /\ keys' = keys /\ new' = new
        /\ state' = state /\ entitled' = entitled /\ strayed' = strayed
    BY Zenon DEF ReceiveCert, Reissuing, StateInv, OtherTypes, CAKey
  <1>3. \A k \in Key : /\ left[k] \subseteq Resource /\ left[k] \subseteq resources
                       /\ kept[k] \subseteq Resource /\ kept[k] \subseteq resources
    BY <1>1, ReducedFacts, Zenon
  <1>4. ASSUME NEW k \in Key
        PROVE  /\ k \in shrink => issued[k] # None
               /\ k \in hold => suspended[k] # None
               /\ k \in ks => issued[k] # None \/ suspended[k] # None
               /\ k \in ks /\ k \in shrink => suspended[k] # None
               /\ k \in ks /\ k \in hold => issued[k] # None
               /\ issued[k] # None /\ k \notin ks /\ k \notin shrink => issued[k].resources \subseteq resources
               /\ suspended[k] # None /\ k \notin ks /\ k \notin hold =>
                      suspended[k].resources \subseteq resources
    <2> HIDE DEF left, kept
    <2>1. /\ k \in Over(issued, resources) <=> issued[k] # None /\ ~(issued[k].resources \subseteq resources)
          /\ k \in Over(suspended, resources) <=>
                suspended[k] # None /\ ~(suspended[k].resources \subseteq resources)
      BY <1>1, ReducedFacts
    <2> QED
      BY <2>1, ZenonT(60)
  <1> HIDE DEF left, kept, shrink, hold, ks, id
  <1>5. CertTypes' /\ SerialInv' /\ RevokedStep
    BY <1>1, <1>2, <1>3, ReissuingKeeps, Zenon
  <1>6. IsMade(issue, shrink, left, id) /\ IsMade(suspend, hold, kept, id)
    BY <1>1, <1>2, <1>3, MadeFacts, Zenon
  <1>m. \A k \in Key : /\ k \in shrink => issue[k].resources = left[k] /\ issue[k].signer = id
                       /\ k \in hold => suspend[k].resources = kept[k] /\ suspend[k].signer = id
    BY <1>6, Zenon DEF IsMade
  <1>7. ASSUME NEW k \in Key
        PROVE  Reissued(shrink, issue, ks, hold, suspend, objects, k)
    BY <1>1, <1>2, <1>3, ReissuingAt, Zenon
  <1> HIDE DEF issue, suspend
  <1>8. \A k \in Key : (k \in shrink => issue[k] # None) /\ (k \in hold => suspend[k] # None)
    BY <1>6, Zenon DEF IsMade
  <1>9. \A k \in Key : used'[k] = IF k \in ks /\ used[k] # None THEN Revoked ELSE used[k]
    BY <1>2 DEF Revoke
  <1>10. OtherTypes'
    <2>1. count' \in [Key -> Nat]
      BY <1>1, <1>2 DEF Count
    <2>3. current' \in CAKey
      BY <1>2 DEF CAKey
    <2>2. current' \in CAKey /\ current' # None
      BY <2>3, Markers
    <2> QED
      BY <1>2, <2>1, <2>2, Zenon DEF StateInv, OtherTypes, Revoke
  <1>11. ChildInv'
    <2>1. (class # None => class <= classes)' /\ \A k \in Key : used'[k] \in Nat => used'[k] <= classes'
      BY <1>2, <1>9, Markers, Zenon DEF StateInv, ChildInv
    <2>2. \A d \in Child : ~Known(d)' => \A k \in KeysOf[d] : used'[k] = None
      BY <1>2, <1>9, KeysApart, Zenon DEF StateInv, ChildInv, Known
    <2> QED
      BY <2>1, <2>2 DEF ChildInv
  <1>12. KeyInv'
    BY <1>2, Zenon DEF StateInv, KeyInv, id, OtherTypes
  <1>13. NoneWithoutClass'
    BY <1>2 DEF NoneWithoutClass
  <1>14. NoneOverclaims'
    <2>1. current'.id = id /\ current'.resources = resources
      BY <1>2
    <2>2. ASSUME NEW k \in Key, issued'[k] # None
          PROVE  issued'[k].resources \subseteq resources /\ issued'[k].signer = id
      <3>1. k \notin ks /\ k \notin hold
        BY <1>7, <2>2, Zenon DEF Reissued
      <3>2. CASE k \in shrink
        <4>1. issued'[k] = issue[k]
          BY <1>7, <3>1, <3>2, Zenon DEF Reissued
        <4> QED
          BY <1>3, <1>m, <3>2, <4>1, Zenon
      <3>3. CASE k \notin shrink
        <4>1. issued'[k] = issued[k]
          BY <1>7, <3>1, <3>3, Zenon DEF Reissued
        <4> QED
          BY <1>4, <2>2, <3>1, <3>3, <4>1 DEF StateInv, NoneOverclaims, KeysIn, id
      <3> QED
        BY <3>2, <3>3
    <2>3. ASSUME NEW k \in Key, suspended'[k] # None
          PROVE  suspended'[k].resources \subseteq resources /\ suspended'[k].signer = id
      <3>1. CASE k \in hold
        <4>1. suspended'[k] = suspend[k]
          BY <1>7, <3>1, Zenon DEF Reissued
        <4> QED
          BY <1>3, <1>m, <3>1, <4>1, Zenon
      <3>2. CASE k \notin hold
        <4>1. suspended'[k] = suspended[k] /\ k \notin ks
          BY <1>7, <2>3, <3>2 DEF Reissued
        <4> QED
          BY <1>4, <2>3, <3>2, <4>1 DEF StateInv, NoneOverclaims, KeysIn, id
      <3> QED
        BY <3>1, <3>2
    <2> QED
      BY <2>1, <2>2, <2>3 DEF NoneOverclaims, KeysIn
  <1>15. ASSUME NEW k \in Key \ strayed
         PROVE  /\ issued[k] = None \/ suspended[k] = None
                /\ ~(k \in ks /\ k \in shrink) /\ ~(k \in ks /\ k \in hold)
    BY <1>4 DEF StateInv, OneCert
  <1>16. OneCert'
    BY <1>2, <1>4, <1>7, <1>15, Zenon DEF OneCert, Reissued
  <1>17. CertsFollowChild'
    <2> SUFFICES ASSUME NEW d \in Child, NEW k \in KeysOf[d], k \notin strayed'
                 PROVE  /\ issued'[k] # None <=> state'[d] = "active" /\ k \in Held(d)'
                        /\ suspended'[k] # None <=> state'[d] = "suspended" /\ k \in Held(d)'
      BY DEF CertsFollowChild
    <2>1. k \in Key \ strayed
      BY <1>2, KeysApart, Zenon
    <2>2. /\ issued[k] # None <=> state[d] = "active" /\ k \in Held(d)
          /\ suspended[k] # None <=> state[d] = "suspended" /\ k \in Held(d)
      BY <2>1, Zenon DEF StateInv, CertsFollowChild
    <2>3. CASE k \in ks
      <3>1. issued'[k] = None /\ suspended'[k] = None
        BY <1>7, <1>15, <2>1, <2>3, Zenon DEF Reissued
      <3>2. used[k] # None
        BY <1>4, <2>1, <2>2, <2>3 DEF Held
      <3>3. used'[k] = Revoked
        BY <1>9, <2>1, <2>3, <3>2
      <3>4. k \notin Held(d)'
        BY <1>2, <3>3, Markers, Zenon DEF Held, StateInv, OtherTypes, Class
      <3> QED
        BY <3>1, <3>4
    <2>4. CASE k \notin ks
      <3>1. k \in Held(d)' <=> k \in Held(d)
        BY <1>2, <1>9, <2>1, <2>4, Zenon DEF Held
      <3>2. (issued'[k] # None <=> issued[k] # None) /\ (suspended'[k] # None <=> suspended[k] # None)
        BY <1>4, <1>7, <1>8, <1>15, <2>1, <2>4, Zenon DEF Reissued
      <3> QED
        BY <1>2, <2>2, <3>1, <3>2, Zenon
    <2> QED
      BY <2>3, <2>4, Zenon
  <1>18. PublishedIsIssued'
    BY <1>2, <1>7, <1>15, Zenon DEF StateInv, PublishedIsIssued, Reissued
  <1> QED
    BY <1>5, <1>10, <1>11, <1>12, <1>13, <1>14, <1>16, <1>17, <1>18 DEF StateInv

\* keyroll_activate: everything is made anew by the new key.
LEMMA KeyRollActivateStep ==
    ASSUME StateInv, KeyRollActivate
    PROVE  StateInv' /\ current'.id # current.id
  <1> DEFINE left == Reduced(issued, new.resources)
             kept == Reduced(suspended, new.resources)
             shrink == KeysIn(issued)
             hold == KeysIn(suspended)
             id == new.id
             issue == Made(shrink, left, id)
             suspend == Made(hold, kept, id)
  <1>1. CertTypes /\ SerialInv /\ count \in [Key -> Nat] /\ issued \in Certs /\ suspended \in Certs
    BY DEF StateInv, OtherTypes, CertTypes
  <1>2. /\ new # None /\ new \in CAKey /\ id \in Nat
        /\ Count(shrink \cup hold) /\ Update(Reissuing(shrink, left, {}, hold, kept, id), NoObjects)
        /\ current' = new /\ new' = None
        /\ class' = class /\ classes' = classes /\ keys' = keys
        /\ state' = state /\ entitled' = entitled /\ used' = used /\ strayed' = strayed
    BY Zenon DEF KeyRollActivate, Reissuing, StateInv, OtherTypes, CAKey, childVars
  <1>3. \A k \in Key : /\ left[k] \subseteq Resource /\ left[k] \subseteq new.resources
                       /\ kept[k] \subseteq Resource /\ kept[k] \subseteq new.resources
    BY <1>1, ReducedFacts
  <1>4. \A k \in Key : (k \in shrink <=> issued[k] # None) /\ (k \in hold <=> suspended[k] # None)
    BY DEF KeysIn
  <1> HIDE DEF left, kept, shrink, hold, id
  <1>5. CertTypes' /\ SerialInv'
    BY <1>1, <1>2, <1>3, RenewingKeeps, Zenon
  <1>6. IsMade(issue, shrink, left, id) /\ IsMade(suspend, hold, kept, id)
    BY <1>1, <1>2, <1>3, MadeFacts, Zenon
  <1>m. \A k \in Key : /\ k \in shrink => issue[k].resources = left[k] /\ issue[k].signer = id
                       /\ k \in hold => suspend[k].resources = kept[k] /\ suspend[k].signer = id
    BY <1>6, Zenon DEF IsMade
  <1>7. ASSUME NEW k \in Key
        PROVE  Reissued(shrink, issue, {}, hold, suspend, NoObjects, k)
    BY <1>1, <1>2, <1>3, ReissuingAt, Zenon
  <1> HIDE DEF issue, suspend
  <1>8. ASSUME NEW k \in Key
        PROVE  /\ issued'[k] = IF suspended[k] # None THEN None ELSE issue[k]
               /\ suspended'[k] = suspend[k]
               /\ objects'.published[k] = issued'[k]
               /\ issue[k] # None <=> issued[k] # None
               /\ suspend[k] # None <=> suspended[k] # None
    <2>1. (issue[k] # None <=> issued[k] # None) /\ (suspend[k] # None <=> suspended[k] # None)
      BY <1>4, <1>6, Zenon DEF IsMade
    <2>2. NoObjects.published[k] = None
      BY DEF NoObjects, NoCerts
    <2> QED
      BY <1>4, <1>7, <2>1, <2>2, Zenon DEF Reissued
  <1>9. class # None /\ new.id # current.id
    BY <1>2, Zenon DEF StateInv, KeyInv
  <1>10. OtherTypes'
    <2>1. count' \in [Key -> Nat]
      BY <1>1, <1>2 DEF Count
    <2> QED
      BY <1>2, <1>9, <2>1 DEF StateInv, OtherTypes
  <1>11. ChildInv'
    BY <1>2, Zenon DEF StateInv, ChildInv, Known
  <1>12. KeyInv'
    BY <1>2, Zenon DEF StateInv, KeyInv
  <1>13. NoneWithoutClass'
    BY <1>2, <1>9 DEF NoneWithoutClass
  <1>14. NoneOverclaims'
    <2>1. ASSUME NEW k \in Key, issued'[k] # None
          PROVE  issued'[k].resources \subseteq new.resources /\ issued'[k].signer = new.id
      <3>1. k \in shrink /\ issued'[k] = issue[k]
        BY <1>4, <1>8, <2>1, Zenon
      <3> QED
        BY <1>3, <1>m, <3>1, Zenon DEF id
    <2>2. ASSUME NEW k \in Key, suspended'[k] # None
          PROVE  suspended'[k].resources \subseteq new.resources /\ suspended'[k].signer = new.id
      <3>1. k \in hold /\ suspended'[k] = suspend[k]
        BY <1>4, <1>8, <2>2, Zenon
      <3> QED
        BY <1>3, <1>m, <3>1, Zenon DEF id
    <2> QED
      BY <1>2, <2>1, <2>2, ZenonT(60) DEF NoneOverclaims, KeysIn
  <1>15. OneCert'
    BY <1>2, <1>8, Zenon DEF OneCert
  <1>16. CertsFollowChild'
    <2> SUFFICES ASSUME NEW d \in Child, NEW k \in KeysOf[d], k \notin strayed'
                 PROVE  /\ issued'[k] # None <=> state'[d] = "active" /\ k \in Held(d)'
                        /\ suspended'[k] # None <=> state'[d] = "suspended" /\ k \in Held(d)'
      BY Zenon DEF CertsFollowChild
    <2>1. k \in Key \ strayed
      BY <1>2, KeysApart, Zenon
    <2>2. /\ issued[k] # None <=> state[d] = "active" /\ k \in Held(d)
          /\ suspended[k] # None <=> state[d] = "suspended" /\ k \in Held(d)
          /\ issued[k] = None \/ suspended[k] = None
      BY <2>1, Zenon DEF StateInv, CertsFollowChild, OneCert
    <2>3. k \in Held(d)' <=> k \in Held(d)
      BY <1>2 DEF Held
    <2> QED
      BY <1>2, <1>8, <2>1, <2>2, <2>3, Zenon
  <1>17. PublishedIsIssued'
    BY <1>8 DEF PublishedIsIssued
  <1> QED
    BY <1>2, <1>5, <1>9, <1>10, <1>11, <1>12, <1>13, <1>14, <1>15, <1>16, <1>17, Zenon DEF StateInv

\* The first certificate for a new class, and the removal of a class.
LEMMA AddClassStep ==
    ASSUME StateInv, NEW resources \in SUBSET Resource, AddClass(resources)
    PROVE  StateInv' /\ current = None
  <1>1. /\ class = None /\ class' = classes + 1 /\ classes' = classes + 1 /\ keys' = keys + 1 /\ new' = new
        /\ current' = [id |-> keys + 1, resources |-> resources]
        /\ state' = state /\ entitled' = entitled /\ used' = used /\ count' = count
        /\ issued' = issued /\ suspended' = suspended /\ objects' = objects
        /\ strayed' = strayed /\ woken' = woken
    BY DEF AddClass, childVars, certVars
  <1>2. classes \in Nat /\ keys \in Nat /\ current = None /\ new = None
    BY <1>1, Zenon DEF StateInv, OtherTypes, KeyInv
  <1>3. \A k \in Key : issued[k] = None /\ suspended[k] = None
    BY <1>1 DEF StateInv, NoneWithoutClass, NoCerts
  <1>4. CertTypes'
    BY <1>1 DEF StateInv, CertTypes
  <1>5. OtherTypes'
    <2>1. current' \in CAKey /\ class' \in Nat /\ keys' \in Nat
      BY <1>1, <1>2 DEF CAKey
    <2>2. current' # None /\ class' # None
      BY <2>1, Markers, Zenon
    <2> QED
      BY <1>1, <2>1, <2>2, Zenon DEF StateInv, OtherTypes, Class
  <1>6. ChildInv'
    <2>1. \A k \in Key : used[k] \in Nat => used[k] <= classes + 1
      BY <1>2 DEF StateInv, ChildInv
    <2> QED
      BY <1>1, <1>2, <2>1 DEF StateInv, ChildInv, Known
  <1>7. KeyInv'
    BY <1>1, <1>2 DEF KeyInv
  <1>8. SerialInv'
    BY <1>1, ZenonT(60) DEF StateInv, SerialInv, CertsNumbered, Numbered, NotRevoked, KeysIn
  <1>9. NoneWithoutClass' /\ NoneOverclaims'
    BY <1>1, <1>3, Zenon DEF StateInv, NoneWithoutClass, NoneOverclaims, KeysIn
  <1>10. OneCert' /\ PublishedIsIssued'
    BY <1>1 DEF StateInv, OneCert, PublishedIsIssued
  <1>11. CertsFollowChild'
    <2>1. ASSUME NEW d \in Child, NEW k \in KeysOf[d] PROVE k \in Key /\ k \notin Held(d)'
      <3>1. k \in Key /\ (used[k] \in Nat => used[k] <= classes)
        BY KeysApart DEF StateInv, ChildInv
      <3> QED
        BY <1>1, <1>2, <3>1 DEF Held
    <2> QED
      BY <1>1, <1>3, <2>1, Zenon DEF CertsFollowChild
  <1> QED
    BY <1>2, <1>4, <1>5, <1>6, <1>7, <1>8, <1>9, <1>10, <1>11, Zenon DEF StateInv

LEMMA RemoveClassStep ==
    ASSUME StateInv, RemoveClass
    PROVE  StateInv' /\ current' = None
  <1>1. /\ class' = None /\ current' = None /\ new' = None /\ classes' = classes /\ keys' = keys
        /\ state' = state /\ entitled' = entitled /\ used' = used /\ count' = count
        /\ issued' = NoCerts /\ suspended' = NoCerts /\ objects' = NoObjects
        /\ strayed' = {} /\ woken' = {}
    BY DEF RemoveClass, childVars
  <1>2. \A k \in Key : NoCerts[k] = None /\ NoObjects.published[k] = None
    BY DEF NoCerts, NoObjects
  <1>3. CertTypes'
    BY <1>1, ZenonT(60) DEF CertTypes, NoCerts, NoObjects, Certs, ObjectSet
  <1>4. OtherTypes' /\ ChildInv' /\ KeyInv'
    BY <1>1 DEF StateInv, OtherTypes, ChildInv, KeyInv, Known, Class
  <1>5. NoObjects.revoked = {}
    BY DEF NoObjects
  <1>6. SerialInv'
    BY <1>1, <1>2, <1>5, Zenon DEF SerialInv, CertsNumbered, Numbered, NotRevoked, KeysIn
  <1>7. NoneWithoutClass' /\ NoneOverclaims' /\ OneCert' /\ PublishedIsIssued'
    BY <1>1, <1>2 DEF NoneWithoutClass, NoneOverclaims, OneCert, PublishedIsIssued, KeysIn
  <1>8. CertsFollowChild'
    BY <1>1, <1>2, KeysApart DEF CertsFollowChild, Held
  <1> QED
    BY <1>1, <1>3, <1>4, <1>6, <1>7, <1>8 DEF StateInv

\* A certificate for the new key of a key roll.
LEMMA ReceiveNewCertStep ==
    ASSUME StateInv, NEW resources \in SUBSET Resource, ReceiveNewCert(resources)
    PROVE  StateInv' /\ RevokedStep
  <1>1. /\ class # None /\ class' = class /\ classes' = classes /\ current' = current
        /\ state' = state /\ entitled' = entitled /\ used' = used /\ count' = count
        /\ issued' = issued /\ suspended' = suspended /\ objects' = objects
        /\ strayed' = strayed /\ woken' = woken
    BY Zenon DEF ReceiveNewCert, childVars, certVars
  <1>2. current \in CAKey /\ current # None /\ current.id \in Nat /\ current.id <= keys /\ keys \in Nat
    BY <1>1 DEF StateInv, OtherTypes, KeyInv, CAKey
  <1>3. /\ keys' \in Nat /\ keys <= keys' /\ new' \in CAKey
        /\ new'.id # current.id /\ new'.id <= keys'
    <2>1. CASE new = None
      BY <1>2, <2>1 DEF ReceiveNewCert, CAKey
    <2>2. CASE new # None
      <3>1. new \in CAKey /\ new.id \in Nat /\ new.id # current.id /\ new.id <= keys
        BY <2>2 DEF StateInv, OtherTypes, KeyInv, CAKey
      <3> QED
        <4>1. keys' = keys /\ new' = [id |-> new.id, resources |-> resources]
          BY <2>2, Zenon DEF ReceiveNewCert
        <4> QED
          BY <1>2, <3>1, <4>1 DEF CAKey
    <2> QED
      BY <2>1, <2>2
  <1>4. CertTypes' /\ OtherTypes' /\ ChildInv'
    BY <1>1, <1>3, Zenon DEF StateInv, CertTypes, OtherTypes, ChildInv, Known
  <1>5. KeyInv'
    BY <1>1, <1>2, <1>3 DEF KeyInv
  <1>6. SerialInv'
    BY <1>1, ZenonT(60) DEF StateInv, SerialInv, CertsNumbered, Numbered, NotRevoked, KeysIn
  <1>7. NoneWithoutClass' /\ NoneOverclaims' /\ OneCert' /\ PublishedIsIssued'
    BY <1>1, Zenon DEF StateInv, NoneWithoutClass, NoneOverclaims, OneCert, PublishedIsIssued, KeysIn
  <1>8. CertsFollowChild'
    BY <1>1, Zenon DEF StateInv, CertsFollowChild, Held
  <1>9. RevokedStep
    BY <1>1 DEF RevokedStep
  <1> QED
    BY <1>4, <1>5, <1>6, <1>7, <1>8, <1>9 DEF StateInv

\* A child is added, or its resources are changed: no certificate changes.
LEMMA ChildAddStep ==
    ASSUME StateInv, NEW c \in Child, NEW resources \in SUBSET Resource,
           ChildAdd(c, resources) \/ ChildUpdateResources(c, resources)
    PROVE  StateInv' /\ RevokedStep
  <1>1. /\ class' = class /\ classes' = classes /\ keys' = keys /\ current' = current /\ new' = new
        /\ used' = used /\ count' = count
        /\ issued' = issued /\ suspended' = suspended /\ objects' = objects
        /\ strayed' = strayed /\ woken' = woken
    BY DEF ChildAdd, ChildUpdateResources, caVars, certVars
  <1>2. /\ entitled' = [entitled EXCEPT ![c] = resources]
        /\ \/ ~Known(c) /\ state' = [state EXCEPT ![c] = "active"]
           \/ state' = state
    BY DEF ChildAdd, ChildUpdateResources
  <1>3. CertTypes' /\ OtherTypes' /\ KeyInv'
    BY <1>1, <1>2, Zenon DEF StateInv, CertTypes, OtherTypes, KeyInv
  <1>4. \A d \in Child : state'[d] # state[d] => ~Known(d) /\ state'[d] = "active"
    BY <1>2 DEF StateInv, OtherTypes
  <1>5. ChildInv'
    BY <1>1, <1>4, Markers, ZenonT(60) DEF StateInv, ChildInv, Known
  <1>6. SerialInv'
    BY <1>1, ZenonT(60) DEF StateInv, SerialInv, CertsNumbered, Numbered, NotRevoked, KeysIn
  <1>7. NoneWithoutClass' /\ NoneOverclaims' /\ OneCert' /\ PublishedIsIssued'
    BY <1>1, Zenon DEF StateInv, NoneWithoutClass, NoneOverclaims, OneCert, PublishedIsIssued, KeysIn
  <1>8. CertsFollowChild'
    <2>1. \A d \in Child : ~Known(d) => Held(d) = {}
      BY Zenon DEF StateInv, ChildInv, Held
    <2>2. \A d \in Child : Held(d)' = Held(d)
      BY <1>1, Zenon DEF Held
    <2> QED
      <3>1. ASSUME NEW d \in Child, NEW k \in KeysOf[d] \ strayed
            PROVE  /\ issued[k] # None <=> state'[d] = "active" /\ k \in Held(d)
                   /\ suspended[k] # None <=> state'[d] = "suspended" /\ k \in Held(d)
        <4>1. /\ issued[k] # None <=> state[d] = "active" /\ k \in Held(d)
              /\ suspended[k] # None <=> state[d] = "suspended" /\ k \in Held(d)
          BY <3>1, Zenon DEF StateInv, CertsFollowChild
        <4>2. CASE state'[d] = state[d]
          BY <4>1, <4>2, Zenon
        <4>3. CASE state'[d] # state[d]
          BY <1>4, <2>1, <4>1, <4>3, Markers, Zenon DEF Known
        <4> QED
          BY <4>2, <4>3, Zenon
      <3> QED
        BY <1>1, <2>2, <3>1, Zenon DEF CertsFollowChild
  <1>9. RevokedStep
    BY <1>1, Zenon DEF RevokedStep
  <1> QED
    BY <1>3, <1>5, <1>6, <1>7, <1>8, <1>9, Zenon DEF StateInv

-----------------------------------------------------------------------------
(* All steps *)

\* A request is made for a key of the child, and loses only its flag before it is answered.
LEMMA RequestStep ==
    ASSUME RequestInv, StateInv, [Next]_vars
    PROVE  RequestInv'
  <1> DEFINE Fine == request' \in [Child -> Request \cup {None}] /\
                     \A d \in Child : request'[d] # None => request'[d].key \in KeysOf[d]
  <1>1. request' = request => Fine
    BY DEF RequestInv
  <1>2. ASSUME NEW c \in Child, Answered(c) PROVE Fine
    BY <1>2 DEF Answered, RequestInv
  <1>3. ASSUME NEW c \in Child, NEW op \in {"list", "issue", "revoke"}, NEW k \in KeysOf[c],
               RequestStart(c, op, k)
        PROVE  Fine
    <2> DEFINE r == [wake |-> state[c] = "suspended", op |-> op, key |-> k,
                     class |-> IF op = "revoke" THEN used[k] ELSE class]
    <2>1. request' = [request EXCEPT ![c] = r]
      BY <1>3, Zenon DEF RequestStart
    <2>2. k \in Key /\ used[k] \in Class \cup {Revoked} /\ class \in Class
      BY KeysApart, Zenon DEF StateInv, OtherTypes
    <2>3. (state[c] = "suspended") \in BOOLEAN
      BY Zenon
    <2>4. r \in Request /\ r.key = k
      BY <2>2, <2>3, Zenon DEF Request
    <2> HIDE DEF r
    <2> QED
      BY <2>1, <2>4 DEF RequestInv
  <1>4. ASSUME NEW c \in Child, RequestUnsuspend(c) PROVE Fine
    <2> DEFINE r == [wake |-> FALSE, op |-> request[c].op, key |-> request[c].key, class |-> request[c].class]
    <2>1. request[c] \in Request /\ request[c].key \in KeysOf[c]
      BY <1>4 DEF RequestUnsuspend, Handling, RequestInv
    <2>2. r \in Request /\ r.key \in KeysOf[c]
      BY <2>1, Zenon DEF Request
    <2>3. request' = [request EXCEPT ![c] = r] \/ Answered(c)
      BY <1>4, Zenon DEF RequestUnsuspend
    <2> HIDE DEF r
    <2>4. CASE request' = [request EXCEPT ![c] = r]
      BY <2>2, <2>4 DEF RequestInv
    <2> QED
      BY <1>2, <2>3, <2>4
  <1>5. ASSUME NEW c \in Child, ChildOp(c) PROVE Fine /\ halted' \in BOOLEAN
    <2> HIDE DEF Fine
    <2>1. ASSUME NEW resources \in SUBSET Resource,
                 ChildAdd(c, resources) \/ ChildUpdateResources(c, resources)
          PROVE  Fine /\ halted' = halted
      BY <1>1, <2>1, Zenon DEF ChildAdd, ChildUpdateResources
    <2>2. ASSUME ChildRemove(c) \/ ChildSuspendInactive(c) \/ ChildUnsuspendNow(c)
          PROVE  Fine /\ halted' = halted
      BY <1>1, <2>2 DEF ChildRemove, ChildSuspendInactive, ChildUnsuspendNow
    <2>3. ASSUME NEW op \in {"list", "issue", "revoke"}, NEW k \in KeysOf[c], RequestStart(c, op, k)
          PROVE  Fine /\ halted' = halted
      BY <1>3, <2>3, Zenon DEF RequestStart
    <2>4. ASSUME RequestUnsuspend(c) \/ RequestList(c) \/ ChildCertify(c)
          PROVE  Fine /\ halted' = halted
      BY <1>2, <1>4, <2>4, Zenon DEF RequestUnsuspend, RequestList, ChildCertify
    <2>5. ASSUME ChildRevokeKey(c)
          PROVE  Fine /\ (halted' = halted \/ halted' = TRUE)
      BY <1>2, <2>5, Zenon DEF ChildRevokeKey
    <2>6. halted \in BOOLEAN
      BY DEF RequestInv
    <2> QED
      BY <1>5, <2>1, <2>2, <2>3, <2>4, <2>5, <2>6, Zenon DEF ChildOp
  <1>6. ASSUME NEW resources, AddClass(resources) \/ ReceiveCert(resources) \/ ReceiveNewCert(resources)
        PROVE  Fine /\ halted' \in BOOLEAN
    BY <1>1, <1>6, Zenon DEF AddClass, ReceiveCert, ReceiveNewCert, RequestInv
  <1>7. ASSUME RemoveClass \/ KeyRollActivate PROVE Fine /\ halted' \in BOOLEAN
    BY <1>1, <1>7, Zenon DEF RemoveClass, KeyRollActivate, RequestInv
  <1>8. ASSUME Restart PROVE Fine /\ halted' \in BOOLEAN
    BY <1>8, Zenon DEF Restart
  <1>9. ASSUME UNCHANGED vars PROVE Fine /\ halted' \in BOOLEAN
    BY <1>1, <1>9, Zenon DEF vars, RequestInv
  <1>10. Fine /\ halted' \in BOOLEAN
    <2> HIDE DEF Fine
    <2> QED
      BY <1>5, <1>6, <1>7, <1>8, <1>9, Zenon DEF Next
  <1> QED
    BY <1>10, Zenon DEF RequestInv

\* One case per action.
LEMMA StateStep ==
    ASSUME RequestInv, StateInv, [Next]_vars
    PROVE  StateInv' /\ RevokedUnlessRolled
  <1>1. ASSUME NEW c \in Child, ChildOp(c) PROVE StateInv' /\ RevokedStep
    <2>1. ASSUME NEW resources \in SUBSET Resource,
                 ChildAdd(c, resources) \/ ChildUpdateResources(c, resources)
          PROVE  StateInv' /\ RevokedStep
      BY <2>1, ChildAddStep
    <2>2. CASE ChildRemove(c)
      BY <2>2, ChildRemoveStep
    <2>3. CASE ChildSuspendInactive(c)
      BY <2>3, ChildSuspendStep
    <2>4. CASE ChildUnsuspendNow(c)
      BY <2>4, ChildUnsuspendStep, Zenon DEF ChildUnsuspendNow
    <2>5. ASSUME NEW op, NEW k, RequestStart(c, op, k) PROVE StateInv' /\ RevokedStep
      BY <2>5, StateUnchanged DEF RequestStart
    <2>6. CASE RequestUnsuspend(c)
      <3>1. UNCHANGED <<caVars, count, strayed>>
        BY <2>6 DEF RequestUnsuspend
      <3>2. CASE state[c] = "suspended" /\ ChildUnsuspend(c)
        BY <3>1, <3>2, ChildUnsuspendStep
      <3>3. CASE UNCHANGED <<childVars, certVars, woken>>
        BY <3>1, <3>3, StateUnchanged
      <3> QED
        BY <2>6, <3>2, <3>3, Zenon DEF RequestUnsuspend
    <2>7. CASE RequestList(c)
      BY <2>7, StateUnchanged DEF RequestList
    <2>8. CASE ChildCertify(c)
      BY <2>8, ChildCertifyStep
    <2>9. CASE ChildRevokeKey(c)
      BY <2>9, ChildRevokeKeyStep
    <2> QED
      BY <1>1, <2>1, <2>2, <2>3, <2>4, <2>5, <2>6, <2>7, <2>8, <2>9, Zenon DEF ChildOp
  <1>2. ASSUME NEW resources \in SUBSET Resource \ {{}},
               AddClass(resources) \/ ReceiveCert(resources) \/ ReceiveNewCert(resources)
        PROVE  StateInv' /\ RevokedUnlessRolled
    BY <1>2, AddClassStep, ReceiveCertStep, ReceiveNewCertStep DEF RevokedUnlessRolled
  <1>3. CASE RemoveClass
    BY <1>3, RemoveClassStep DEF RevokedUnlessRolled
  <1>4. CASE KeyRollActivate
    BY <1>4, KeyRollActivateStep DEF RevokedUnlessRolled
  <1>5. CASE Restart
    BY <1>5, StateUnchanged DEF Restart, RevokedUnlessRolled
  <1>6. CASE UNCHANGED vars
    BY <1>6, StateUnchanged DEF vars, RevokedUnlessRolled
  <1> QED
    BY <1>1, <1>2, <1>3, <1>4, <1>5, <1>6 DEF Next, RevokedUnlessRolled

\* A CA starts without classes, children and certificates.
LEMMA InitIInv ==
    Init => IInv
  <1> SUFFICES ASSUME Init PROVE IInv
    OBVIOUS
  <1>1. \A k \in Key : NoCerts[k] = None /\ NoObjects.published[k] = None
    BY DEF NoCerts, NoObjects
  <1>2. CertTypes
    BY Zenon DEF Init, CertTypes, NoCerts, NoObjects, Certs, ObjectSet
  <1>3. OtherTypes /\ ChildInv /\ KeyInv /\ RequestInv
    BY KeysApart, Markers, Zenon DEF Init, OtherTypes, ChildInv, KeyInv, RequestInv, Known, Class
  <1>4. NoObjects.revoked = {}
    BY DEF NoObjects
  <1>5. SerialInv
    BY <1>1, <1>4, Zenon DEF Init, SerialInv, CertsNumbered, Numbered, NotRevoked, KeysIn
  <1>6. NoneWithoutClass /\ NoneOverclaims /\ OneCert /\ PublishedIsIssued
    BY <1>1 DEF Init, NoneWithoutClass, NoneOverclaims, OneCert, PublishedIsIssued, KeysIn
  <1>7. CertsFollowChild
    BY <1>1, KeysApart, Zenon DEF Init, CertsFollowChild, Held
  <1> QED
    BY <1>2, <1>3, <1>5, <1>6, <1>7 DEF IInv, StateInv

\* The invariant is kept by every command of the operator, of the children and of the parents, by
\* the scheduler, and by restarts.
THEOREM InductiveInvariant ==
    Spec => []IInv
  <1>1. IInv /\ [Next]_vars => IInv'
    BY RequestStep, StateStep DEF IInv
  <1> QED
    BY <1>1, InitIInv, PTL DEF Spec

\* Every variable of the CA keeps its type.
THEOREM TypeCorrect ==
    Spec => []TypeOK
  <1>1. IInv => TypeOK
    BY DEF IInv, StateInv, RequestInv, CertTypes, OtherTypes, Certs, ObjectSet, TypeOK
  <1> QED
    BY <1>1, InductiveInvariant, PTL

\* CaObjects publishes for a child what the CA has issued to it, for any number of children and
\* keys (KeyObjectSet::update_certs against ChildCertificatesUpdated).
THEOREM PublishedIsIssuedCorrect ==
    Spec => []PublishedIsIssued
  <1>1. IInv => PublishedIsIssued
    BY DEF IInv, StateInv
  <1> QED
    BY <1>1, InductiveInvariant, PTL

\* No certificate of a child ever claims more than the CA has (update_rcvd_cert_current,
\* keyroll_activate, child_certify, child_unsuspend).
THEOREM NoneOverclaimsCorrect ==
    Spec => []NoneOverclaims
  <1>1. IInv => NoneOverclaims
    BY DEF IInv, StateInv
  <1> QED
    BY <1>1, InductiveInvariant, PTL

\* No published certificate is on the CRL, but for those that were suspended (update_certs).
THEOREM PublishedNotRevokedCorrect ==
    Spec => []PublishedNotRevoked
  <1>1. IInv => PublishedNotRevoked
    BY DEF IInv, StateInv, SerialInv, NotRevoked, PublishedNotRevoked
  <1> QED
    BY <1>1, InductiveInvariant, PTL

\* Keys have the certificates that the state of their child asks for (child_remove,
\* child_suspend_inactive, child_unsuspend, child_certify, child_revoke_key).
THEOREM CertsFollowChildCorrect ==
    Spec => []CertsFollowChild
  <1>1. IInv => CertsFollowChild
    BY DEF IInv, StateInv
  <1> QED
    BY <1>1, InductiveInvariant, PTL

\* What is withdrawn, or replaced, is on the CRL of the key from then on (update_certs).
THEOREM WithdrawnIsRevokedCorrect ==
    Spec => WithdrawnIsRevoked
  <1>1. IInv /\ [Next]_vars => RevokedUnlessRolled
    BY StateStep DEF IInv
  <1>2. RevokedUnlessRolled =>
            (current # None /\ current' # None /\ current'.id = current.id =>
                /\ objects.revoked \subseteq objects'.revoked
                /\ \A k \in KeysIn(objects.published) :
                      objects'.published[k] # objects.published[k] =>
                          [serial |-> objects.published[k].serial, date |-> "past"] \in objects'.revoked)
    BY Zenon DEF RevokedUnlessRolled, RevokedStep
  <1> QED
    BY <1>1, <1>2, InductiveInvariant, PTL DEF Spec, WithdrawnIsRevoked
=============================================================================
