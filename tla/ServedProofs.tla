---------------------------- MODULE ServedProofs ----------------------------
(***************************************************************************)
(* Proofs about what Krill serves as files and as pages: the files of the  *)
(* repository (RrdpFiles) and the user interface (Lagosta).                *)
(*                                                                         *)
(* Files, for any number of sessions and serials: as long as no two writes *)
(* were under way at the same time, the one write there is works for the   *)
(* content that is stored, and what its next steps rely on is on disk; and *)
(* the notification file lists all deltas that the content still keeps, up *)
(* to its own serial, so that a write can add the newer ones to them.      *)
(*                                                                         *)
(* Pages, for any CAs and tokens, and any number of requests in flight:    *)
(* LogoutSticks and HeaderIsStored, which are inductive as they stand, and *)
(* ShownIsSelected, from what is known of the requests for details that a  *)
(* page of a CA awaits (Awaited).                                          *)
(***************************************************************************)
EXTENDS RrdpFiles, Lagosta, TLAPS

-----------------------------------------------------------------------------
(* The files *)

\* The part of the types that the argument uses.
FilesTyped ==
    /\ content \in Contents /\ content.low <= content.serial + 1
    /\ notif \in Notification
    /\ write \in [Writer -> WriteState]
    /\ failed \in BOOLEAN /\ crossed \in BOOLEAN

SnapshotFile(sess, nr) == [session |-> sess, serial |-> nr, kind |-> "snapshot"]
DeltaFile(sess, nr) == [session |-> sess, serial |-> nr, kind |-> "delta"]

\* The notification file for the content.
Matching == [session |-> content.session, serial |-> content.serial, deltas |-> Deltas(content)]

\* All files that the notification file names are there.
Named ==
    notif # NoNotification =>
        /\ SnapshotFile(notif.session, notif.serial) \in files
        /\ \A s \in notif.deltas : DeltaFile(notif.session, s) \in files

\* The notification file is that of the content, or an earlier one: then it
\* lists the deltas up to its serial that the content still keeps.
Follows ==
    /\ notif.session <= content.session
    /\ notif.session = content.session =>
        /\ notif.serial <= content.serial
        /\ \A s \in notif.deltas : s <= notif.serial
        /\ \A s \in content.low .. notif.serial : s \in notif.deltas
        /\ notif.serial = content.serial => notif = Matching

\* What a write has done of its work.
Done(w) ==
    write[w] # NoWrite =>
        /\ write[w].c = content
        /\ write[w].at \in {"snapshot", "notification"} =>
            /\ write[w].deltas = Deltas(content)
            /\ \A s \in Deltas(content) : DeltaFile(content.session, s) \in files
        /\ write[w].at = "notification" => SnapshotFile(content.session, content.serial) \in files
        /\ write[w].at \in {"cleanup", "rsync", "to_old", "to_current", "remove"} => notif = Matching
        /\ write[w].at \in {"to_old", "to_current"} => VersionOf(content) \in tmp
        /\ write[w].at = "remove" => VersionOf(content) \in current

\* One write at a time.
Alone == \A v, w \in Writer : write[v] # NoWrite /\ write[w] # NoWrite => v = w

\* When no write is under way, and none has failed since, all is done.
Settled ==
    (\A w \in Writer : write[w] = NoWrite) /\ ~failed => notif = Matching /\ VersionOf(content) \in current

FilesInv ==
    /\ FilesTyped
    /\ ~crossed => Named /\ Follows /\ Alone /\ Settled /\ \A w \in Writer : Done(w)

-----------------------------------------------------------------------------
(* The steps of a write *)

\* A write is idle or at one of its steps.
LEMMA AtStep ==
    ASSUME FilesTyped, NEW w \in Writer
    PROVE  /\ write[w] \in WriteState
           /\ write[w] = NoWrite <=> write[w].at \notin Step
           /\ write[w] # NoWrite => write[w] \in [at : Step, c : Contents, deltas : SUBSET (1 .. MaxFileSerial)]
BY DEF FilesTyped, WriteState, Step, NoWrite

\* Going to the next step leaves all else of the write, and the other write.
LEMMA GotoStep ==
    ASSUME FilesTyped, NEW w \in Writer, write[w] # NoWrite, NEW step \in Step, Goto(w, step)
    PROVE  /\ write' \in [Writer -> WriteState]
           /\ write'[w] = [at |-> step, c |-> write[w].c, deltas |-> write[w].deltas]
           /\ write'[w] # NoWrite
           /\ \A v \in Writer \ {w} : write'[v] = write[v]
<1>1. write[w] \in [at : Step, c : Contents, deltas : SUBSET (1 .. MaxFileSerial)]
  BY AtStep
<1>2. write' = [write EXCEPT ![w] = [at |-> step, c |-> write[w].c, deltas |-> write[w].deltas]]
  BY DEF Goto, FilesTyped
<1>3. [at |-> step, c |-> write[w].c, deltas |-> write[w].deltas] \in WriteState
  BY <1>1 DEF WriteState
<1> QED BY <1>2, <1>3 DEF FilesTyped, Step, NoWrite

\* A write that has ended leaves the other write as it is.
LEMMA EndStep ==
    ASSUME FilesTyped, NEW w \in Writer, End(w)
    PROVE  /\ write' \in [Writer -> WriteState]
           /\ write'[w] = NoWrite
           /\ \A v \in Writer \ {w} : write'[v] = write[v]
BY DEF FilesTyped, End, WriteState

\* While a write is under way, the other one is idle.
LEMMA OthersIdle ==
    ASSUME FilesInv, ~crossed, NEW w \in Writer, write[w] # NoWrite
    PROVE  \A v \in Writer \ {w} : write[v] = NoWrite
BY DEF FilesInv, Alone

\* What FilesInv says of a write that is under way and met no other.
LEMMA WriteFacts ==
    ASSUME FilesInv, ~crossed, NEW w \in Writer, write[w] # NoWrite
    PROVE  /\ FilesTyped /\ Named /\ Follows
           /\ write[w].c = content
           /\ \A v \in Writer \ {w} : write[v] = NoWrite
BY OthersIdle DEF FilesInv, Done

\* The invariant holds after a step of a write w when it holds of what this
\* step has done.
LEMMA WriteKeeps ==
    ASSUME FilesInv, ~crossed, crossed' = crossed, content' = content,
           NEW w \in Writer, write[w] # NoWrite,
           FilesTyped', write'[w] # NoWrite, \A v \in Writer \ {w} : write'[v] = write[v],
           Named', Follows', Done(w)'
    PROVE  FilesInv'
<1>1. \A v \in Writer \ {w} : write'[v] = NoWrite
  BY OthersIdle
<1>2. \A v \in Writer : Done(v)'
  BY <1>1 DEF Done
<1>3. Alone' /\ Settled'
  BY <1>1 DEF Alone, Settled
<1> QED BY <1>2, <1>3 DEF FilesInv

\* An ended write that has not done all of its work is recorded as failed.
LEMMA EndKeeps ==
    ASSUME FilesInv, ~crossed, crossed' = crossed, content' = content, notif' = notif,
           files' = files, FilesTyped', \A v \in Writer : write'[v] = NoWrite,
           ~failed' => notif = Matching /\ VersionOf(content) \in current'
    PROVE  FilesInv'
<1>1. Named' /\ Follows'
  BY DEF FilesInv, Named, Follows, Matching
<1>2. Alone' /\ \A v \in Writer : Done(v)'
  BY DEF Alone, Done
<1>3. Settled'
  BY DEF Settled, Matching
<1> QED BY <1>1, <1>2, <1>3 DEF FilesInv

\* The deltas that a write for the content takes over from the notification
\* file, and those it writes.
Listed == IF notif.session = content.session /\ Deltas(content) # {}
          THEN {s \in notif.deltas : s >= content.low} ELSE {}
New == {s \in Deltas(content) : \A l \in Listed : s > l}

\* Together they are the deltas of the content.
LEMMA DeltasComplete ==
    ASSUME FilesTyped, Follows
    PROVE  Listed \cup New = Deltas(content)
<1>0. /\ content.low \in Nat /\ content.serial \in Nat
      /\ notif.serial \in Nat /\ notif.deltas \subseteq Nat
  BY RrdpFilesAssumption DEF FilesTyped, Contents, Notification
<1>1. CASE notif.session = content.session /\ Deltas(content) # {}
  <2>1. Listed = content.low .. notif.serial
    BY <1>0, <1>1 DEF Follows, Listed
  <2>2. Listed \subseteq Deltas(content)
    BY <1>0, <1>1, <2>1 DEF Follows, Deltas
  <2>3. ASSUME NEW s \in Deltas(content), s \notin Listed PROVE s \in New
    BY <1>0, <2>1, <2>3 DEF Deltas, New
  <2> QED BY <2>2, <2>3 DEF New
<1>2. CASE ~(notif.session = content.session /\ Deltas(content) # {})
  BY <1>2 DEF Listed, New
<1> QED BY <1>1, <1>2

-----------------------------------------------------------------------------
(* Every step keeps the invariant *)

\* A content that is stored, and the write it begins, have their types.
LEMMA StoreTyped ==
    ASSUME FilesTyped, NEW w \in Writer, NEW c \in Contents, c.low <= c.serial + 1, Store(w, c)
    PROVE  FilesTyped'
<1>1. Begin(c) \in WriteState
  BY DEF Begin, WriteState, Step
<1>2. write' \in [Writer -> WriteState]
  BY <1>1 DEF Store, FilesTyped
<1>3. crossed' \in BOOLEAN
  BY DEF Store
<1> QED BY <1>2, <1>3 DEF Store, FilesTyped

\* The content of an RRDP update: one more serial, and the oldest deltas
\* dropped.
LEMMA UpdateContent ==
    ASSUME FilesTyped, content.serial < MaxFileSerial, NEW low \in content.low .. content.serial + 2,
           NEW c, c = [session |-> content.session, serial |-> content.serial + 1, low |-> low]
    PROVE  c \in Contents /\ c.low <= c.serial + 1
<1>1. content.low \in 1 .. MaxFileSerial + 1 /\ content.serial \in 1 .. MaxFileSerial /\ content.session \in 1 .. MaxSession
  BY DEF FilesTyped, Contents
<1>2. low \in 1 .. MaxFileSerial + 1 /\ content.serial + 1 \in 1 .. MaxFileSerial /\ low <= content.serial + 2
  BY <1>1, RrdpFilesAssumption
<1>3. c \in Contents
  BY <1>1, <1>2 DEF Contents
<1>4. content.serial \in Nat /\ low \in Nat
  BY <1>1, <1>2, RrdpFilesAssumption
<1> QED BY <1>2, <1>3, <1>4

\* The content of a session reset: a session that no file is of.
LEMMA ResetContent ==
    ASSUME FilesTyped, content.session < MaxSession
    PROVE  [session |-> content.session + 1, serial |-> 1, low |-> 2] \in Contents
<1>1. content.session \in 1 .. MaxSession
  BY DEF FilesTyped, Contents
<1> QED BY <1>1, RrdpFilesAssumption DEF Contents

\* Storing a content begins a write that has done nothing yet; the
\* notification file is that of an earlier content.
LEMMA StoreKeeps ==
    ASSUME FilesInv, NEW w \in Writer, NEW c \in Contents, c.low <= c.serial + 1, Store(w, c),
           \/ c.session = content.session + 1
           \/ c.session = content.session /\ c.serial = content.serial + 1 /\ c.low >= content.low
    PROVE  FilesInv'
<1>1. FilesTyped'
  BY StoreTyped DEF FilesInv
<1>2. CASE crossed'
  BY <1>1, <1>2 DEF FilesInv
<1>3. CASE ~crossed'
  <2>1. ~crossed /\ \A v \in Writer : write[v] = NoWrite
    BY <1>3, Zenon DEF Store
  <2>2. FilesTyped /\ Named /\ Follows
    BY <2>1 DEF FilesInv
  <2>3. /\ write'[w] = Begin(c) /\ \A v \in Writer \ {w} : write'[v] = NoWrite
        /\ content' = c /\ notif' = notif /\ files' = files
    BY <2>1, <2>2 DEF Store, FilesTyped
  <2>4. Named'
    BY <2>2, <2>3 DEF Named
  <2>5. /\ content.session \in Nat /\ content.serial \in Nat /\ content.low \in Nat
        /\ notif.session \in Nat /\ notif.serial \in Nat /\ c.session \in Nat /\ c.serial \in Nat /\ c.low \in Nat
    BY <2>2, RrdpFilesAssumption DEF FilesTyped, Contents, Notification
  <2>6. Follows'
    BY <2>2, <2>3, <2>5 DEF Follows
  <2>7. write'[w] # NoWrite /\ write'[w].c = c /\ write'[w].at = "rrdp"
    BY <2>3 DEF Begin, NoWrite
  <2>8. \A v \in Writer : Done(v)'
    BY <2>3, <2>7 DEF Done
  <2>9. Alone' /\ Settled'
    BY <2>3, <2>7 DEF Alone, Settled
  <2> QED BY <1>1, <2>4, <2>6, <2>8, <2>9 DEF FilesInv
<1> QED BY <1>2, <1>3

\* Each step of a write, and its end, keeps the types.
LEMMA WriteTyped ==
    ASSUME FilesTyped, NEW w \in Writer, Write(w) \/ Fail(w)
    PROVE  FilesTyped'
<1>0. /\ write[w].at \in Step => write[w] # NoWrite
      /\ write[w] # NoWrite => write[w].c \in Contents /\ write[w].deltas \in SUBSET (1 .. MaxFileSerial)
  BY AtStep
<1>1. CASE WriteDeltas(w)
  <2> DEFINE c == write[w].c
             listed == IF notif.session = c.session /\ Deltas(c) # {} THEN {s \in notif.deltas : s >= c.low} ELSE {}
             new == {s \in Deltas(c) : \A l \in listed : s > l}
  <2>1. write[w] # NoWrite /\ c \in Contents
    BY <1>0, <1>1 DEF WriteDeltas, Doing, Step
  <2>2. Deltas(c) \subseteq 1 .. MaxFileSerial
    BY <2>1, RrdpFilesAssumption DEF Deltas, Contents
  <2>3. listed \cup new \in SUBSET (1 .. MaxFileSerial)
    BY <2>2 DEF FilesTyped, Notification
  <2>4. Goto(w, "rsync") \/ write' = [write EXCEPT ![w] = [at |-> "snapshot", c |-> c, deltas |-> listed \cup new]]
    BY <1>1 DEF WriteDeltas
  <2>5. [at |-> "snapshot", c |-> c, deltas |-> listed \cup new] \in WriteState
    BY <2>1, <2>3 DEF WriteState, Step
  <2> HIDE DEF listed, new
  <2>6. write' \in [Writer -> WriteState]
    <3>1. CASE Goto(w, "rsync")
      BY <2>1, <3>1, GotoStep, Zenon DEF Step
    <3> QED BY <2>4, <2>5, <3>1, Zenon DEF FilesTyped
  <2> QED BY <1>1, <2>6 DEF WriteDeltas, FilesTyped
<1>2. CASE WriteSnapshot(w)
  BY <1>2, <1>0, GotoStep, Zenon DEF WriteSnapshot, Doing, Step, FilesTyped
<1>3. CASE WriteNotification(w)
  <2>1. write[w] # NoWrite /\ Goto(w, "cleanup")
    BY <1>0, <1>3 DEF WriteNotification, Doing, Step
  <2>2. write' \in [Writer -> WriteState]
    BY <2>1, GotoStep, Zenon DEF Step
  <2>3. notif' \in Notification
    BY <1>0, <1>3, <2>1, RrdpFilesAssumption DEF WriteNotification, Notification, Contents
  <2> QED BY <1>3, <2>2, <2>3 DEF WriteNotification, FilesTyped
<1>4. CASE Cleanup(w)
  BY <1>4, <1>0, GotoStep, Zenon DEF Cleanup, Doing, Step, FilesTyped
<1>5. CASE RsyncFiles(w)
  BY <1>5, <1>0, GotoStep, Zenon DEF RsyncFiles, Doing, Step, FilesTyped
<1>6. CASE RsyncToOld(w)
  BY <1>6, <1>0, GotoStep, EndStep, Zenon DEF RsyncToOld, Doing, Step, FilesTyped
<1>7. CASE RsyncToCurrent(w)
  BY <1>7, <1>0, GotoStep, Zenon DEF RsyncToCurrent, Doing, Step, FilesTyped
<1>8. CASE RsyncRemove(w)
  BY <1>8, EndStep, Zenon DEF RsyncRemove, FilesTyped
<1>9. CASE Fail(w)
  BY <1>9, EndStep DEF Fail, FilesTyped
<1> QED BY <1>1, <1>2, <1>3, <1>4, <1>5, <1>6, <1>7, <1>8, <1>9 DEF Write

\* write_delta_files leaves all delta files of the content on disk, those it
\* does not write included.
LEMMA DeltasKeep ==
    ASSUME FilesInv, ~crossed, NEW w \in Writer, WriteDeltas(w), FilesTyped'
    PROVE  FilesInv'
<1>1. write[w] # NoWrite
  BY DEF WriteDeltas, Doing, NoWrite
<1>2. /\ FilesTyped /\ Named /\ Follows
      /\ write[w].c = content
      /\ \A v \in Writer \ {w} : write[v] = NoWrite
  BY <1>1, WriteFacts
<1>3. content' = content /\ notif' = notif /\ crossed' = crossed
  BY DEF WriteDeltas
<1>4. Follows'
  BY <1>2, <1>3 DEF Follows, Matching
<1>5. CASE notif.session = content.session /\ notif.serial = content.serial
  <2>1. Goto(w, "rsync") /\ files' = files
    BY <1>2, <1>5 DEF WriteDeltas
  <2>2. /\ write'[w] = [at |-> "rsync", c |-> content, deltas |-> write[w].deltas]
        /\ write'[w] # NoWrite /\ \A v \in Writer \ {w} : write'[v] = write[v]
    BY <1>1, <1>2, <2>1, GotoStep, Zenon DEF Step
  <2>3. Named'
    BY <1>2, <1>3, <2>1 DEF Named
  <2>4. notif = Matching
    BY <1>2, <1>5 DEF Follows
  <2>5. Done(w)'
    BY <1>3, <2>2, <2>4 DEF Done, Matching
  <2> QED BY <1>1, <1>3, <1>4, <2>2, <2>3, <2>5, WriteKeeps
<1>6. CASE ~(notif.session = content.session /\ notif.serial = content.serial)
  <2>1. /\ files' = files \cup [session : {content.session}, serial : New, kind : {"delta"}]
        /\ write' = [write EXCEPT ![w] = [at |-> "snapshot", c |-> content, deltas |-> Listed \cup New]]
    BY <1>2, <1>6 DEF WriteDeltas, Listed, New
  <2>2. Listed \cup New = Deltas(content)
    BY <1>2, DeltasComplete
  <2>3. ASSUME NEW s \in Listed PROVE DeltaFile(content.session, s) \in files
    <3>1. notif.session = content.session /\ s \in notif.deltas
      BY DEF Listed
    <3>2. content.session # 0
      BY <1>2, RrdpFilesAssumption DEF FilesTyped, Contents
    <3>3. notif # NoNotification
      BY <3>1, <3>2 DEF NoNotification
    <3> QED BY <1>2, <3>1, <3>3 DEF Named
  <2>4. \A s \in Deltas(content) : DeltaFile(content.session, s) \in files'
    BY <2>1, <2>2, <2>3 DEF DeltaFile
  <2>5. /\ write'[w] = [at |-> "snapshot", c |-> content, deltas |-> Deltas(content)]
        /\ \A v \in Writer \ {w} : write'[v] = write[v]
    BY <1>2, <2>1, <2>2 DEF FilesTyped
  <2>6. write'[w] # NoWrite
    BY <2>5 DEF NoWrite
  <2>7. Named'
    BY <1>2, <1>3, <2>1 DEF Named
  <2>8. Done(w)'
    BY <1>3, <2>4, <2>5 DEF Done
  <2> QED BY <1>1, <1>3, <1>4, <2>5, <2>6, <2>7, <2>8, WriteKeeps
<1> QED BY <1>5, <1>6

\* The snapshot is on disk before the notification file that names it.
LEMMA SnapshotKeeps ==
    ASSUME FilesInv, ~crossed, NEW w \in Writer, WriteSnapshot(w), FilesTyped'
    PROVE  FilesInv'
<1>1. write[w] # NoWrite /\ Done(w)
  BY DEF WriteSnapshot, Doing, NoWrite, FilesInv
<1>2. FilesTyped /\ Named /\ Follows /\ write[w].c = content
  BY <1>1, WriteFacts
<1>3. content' = content /\ notif' = notif /\ crossed' = crossed /\ Goto(w, "notification")
  BY DEF WriteSnapshot
<1>4. files' = files \cup [session : {content.session}, serial : {content.serial}, kind : {"snapshot"}]
  BY <1>2 DEF WriteSnapshot
<1>5. /\ write'[w] = [at |-> "notification", c |-> content, deltas |-> write[w].deltas]
      /\ write'[w] # NoWrite /\ \A v \in Writer \ {w} : write'[v] = write[v]
  BY <1>1, <1>2, <1>3, GotoStep, Zenon DEF Step
<1>6. Named' /\ Follows'
  BY <1>2, <1>3, <1>4 DEF Named, Follows, Matching
<1>7. SnapshotFile(content.session, content.serial) \in files'
  BY <1>4 DEF SnapshotFile
<1>8. write[w].deltas = Deltas(content) /\ \A s \in Deltas(content) : DeltaFile(content.session, s) \in files
  BY <1>1 DEF Done, WriteSnapshot, Doing
<1>9. Done(w)'
  BY <1>3, <1>4, <1>5, <1>7, <1>8 DEF Done
<1> QED BY <1>1, <1>3, <1>5, <1>6, <1>9, WriteKeeps

\* The rename makes a notification file visible all files of which are there.
LEMMA NotificationKeeps ==
    ASSUME FilesInv, ~crossed, NEW w \in Writer, WriteNotification(w), FilesTyped'
    PROVE  FilesInv'
<1>1. write[w] # NoWrite /\ Done(w)
  BY DEF WriteNotification, Doing, NoWrite, FilesInv
<1>2. FilesTyped /\ Named /\ Follows /\ write[w].c = content
  BY <1>1, WriteFacts
<1>3. content' = content /\ files' = files /\ crossed' = crossed /\ Goto(w, "cleanup")
  BY DEF WriteNotification
<1>4. /\ write[w].deltas = Deltas(content) /\ \A s \in Deltas(content) : DeltaFile(content.session, s) \in files
      /\ SnapshotFile(content.session, content.serial) \in files
  BY <1>1 DEF Done, WriteNotification, Doing
<1>5. notif' = Matching
  BY <1>2, <1>4 DEF WriteNotification, Matching
<1>6. /\ write'[w] = [at |-> "cleanup", c |-> content, deltas |-> write[w].deltas]
      /\ write'[w] # NoWrite /\ \A v \in Writer \ {w} : write'[v] = write[v]
  BY <1>1, <1>2, <1>3, GotoStep, Zenon DEF Step
<1>7. notif'.session = content.session /\ notif'.serial = content.serial /\ notif'.deltas = Deltas(content)
  BY <1>5 DEF Matching
<1>8. Named'
  BY <1>3, <1>4, <1>7 DEF Named
<1>9. content.session \in Nat /\ content.serial \in Nat /\ content.low \in Nat
  BY <1>2, RrdpFilesAssumption DEF FilesTyped, Contents
<1>10. Follows'
  BY <1>3, <1>5, <1>7, <1>9 DEF Follows, Matching, Deltas
<1>11. write'[w].at = "cleanup" /\ write'[w].c = content'
  BY <1>3, <1>6
<1>12. notif' = Matching'
  BY <1>3, <1>5 DEF Matching
<1>13. Done(w)'
  BY <1>11, <1>12 DEF Done
<1> QED BY <1>1, <1>3, <1>6, <1>8, <1>10, <1>13, WriteKeeps

\* cleanup_old_rrdp_files removes no file that the notification file names.
LEMMA CleanupKeeps ==
    ASSUME FilesInv, ~crossed, NEW w \in Writer, Cleanup(w), FilesTyped'
    PROVE  FilesInv'
<1>1. write[w] # NoWrite /\ Done(w)
  BY DEF Cleanup, Doing, NoWrite, FilesInv
<1>2. FilesTyped /\ Named /\ Follows /\ write[w].c = content
  BY <1>1, WriteFacts
<1>3. content' = content /\ notif' = notif /\ crossed' = crossed /\ Goto(w, "rsync")
  BY DEF Cleanup
<1>4. files' = {f \in files : /\ f.session = content.session
                              /\ f.serial = content.serial \/ (f.serial \in Deltas(content) /\ f.kind = "delta")}
  BY <1>2 DEF Cleanup
<1>5. notif = Matching
  BY <1>1 DEF Done, Cleanup, Doing
<1>6. /\ write'[w] = [at |-> "rsync", c |-> content, deltas |-> write[w].deltas]
      /\ write'[w] # NoWrite /\ \A v \in Writer \ {w} : write'[v] = write[v]
  BY <1>1, <1>2, <1>3, GotoStep, Zenon DEF Step
<1>7. notif.session = content.session /\ notif.serial = content.serial /\ notif.deltas = Deltas(content)
  BY <1>5 DEF Matching
<1>8. Named'
  BY <1>2, <1>3, <1>4, <1>7 DEF Named, SnapshotFile, DeltaFile
<1>9. Follows'
  BY <1>2, <1>3, Zenon DEF Follows, Matching
<1>10. Done(w)'
  BY <1>3, <1>5, <1>6 DEF Done, Matching
<1> QED BY <1>1, <1>3, <1>6, <1>8, <1>9, <1>10, WriteKeeps

\* The steps for rsync leave the files of RRDP alone; with the rename of
\* tmp-<serial> to "current" the content is in place.
LEMMA RsyncKeeps ==
    ASSUME FilesInv, ~crossed, NEW w \in Writer, FilesTyped',
           RsyncFiles(w) \/ RsyncToOld(w) \/ RsyncToCurrent(w) \/ RsyncRemove(w)
    PROVE  FilesInv'
<1>0. write[w].at \in {"rsync", "to_old", "to_current", "remove"}
  BY DEF RsyncFiles, RsyncToOld, RsyncToCurrent, RsyncRemove, Doing
<1>a. write[w] # NoWrite
  BY <1>0 DEF NoWrite
<1>1. write[w] # NoWrite /\ Done(w)
  BY <1>a DEF FilesInv
<1>2. /\ FilesTyped /\ Named /\ Follows /\ write[w].c = content
      /\ \A v \in Writer \ {w} : write[v] = NoWrite
  BY <1>1, WriteFacts
<1>3. content' = content /\ notif' = notif /\ files' = files /\ crossed' = crossed
  BY DEF RsyncFiles, RsyncToOld, RsyncToCurrent, RsyncRemove
<1>4. notif = Matching
  BY <1>0, <1>1 DEF Done
<1>5. Named' /\ Follows'
  BY <1>2, <1>3, Zenon DEF Named, Follows, Matching
<1>6. ASSUME NEW step \in {"to_old", "to_current", "remove"}, Goto(w, step),
             step \in {"to_old", "to_current"} => VersionOf(content) \in tmp',
             step = "remove" => VersionOf(content) \in current'
      PROVE  FilesInv'
  <2>1. /\ write'[w] = [at |-> step, c |-> content, deltas |-> write[w].deltas]
        /\ write'[w] # NoWrite /\ \A v \in Writer \ {w} : write'[v] = write[v]
    BY <1>1, <1>2, <1>6, GotoStep, Zenon DEF Step
  <2>2. write'[w].at = step /\ write'[w].c = content
    BY <2>1
  <2>3. (notif = Matching)' /\ VersionOf(content)' = VersionOf(content)
    BY <1>3, <1>4, Zenon DEF Matching
  <2>4. Done(w)'
    BY <1>3, <1>6, <2>2, <2>3 DEF Done
  <2> QED BY <1>1, <1>3, <1>5, <2>1, <2>4, WriteKeeps
<1>7. ASSUME End(w), failed' \/ VersionOf(content) \in current' PROVE FilesInv'
  <2>1. \A v \in Writer : write'[v] = NoWrite
    BY <1>2, <1>7, EndStep
  <2> QED BY <1>3, <1>4, <1>7, <2>1, EndKeeps
<1>8. CASE RsyncFiles(w)
  BY <1>2, <1>6, <1>8 DEF RsyncFiles
<1>9. CASE RsyncToOld(w)
  <2>1. VersionOf(content) \in tmp' /\ ((End(w) /\ failed') \/ Goto(w, "to_current"))
    BY <1>1, <1>9 DEF Done, RsyncToOld, Doing
  <2> QED BY <1>6, <1>7, <2>1, Zenon
<1>10. CASE RsyncToCurrent(w)
  <2>1. VersionOf(content) \in tmp /\ VersionOf(content).serial = content.serial
    BY <1>1, <1>10, Zenon DEF Done, RsyncToCurrent, Doing, VersionOf
  <2>2. VersionOf(content) \in current' /\ Goto(w, "remove")
    BY <1>2, <1>10, <2>1 DEF RsyncToCurrent
  <2> QED BY <1>6, <2>2, Zenon
<1>11. CASE RsyncRemove(w)
  <2>1. VersionOf(content) \in current' /\ End(w)
    BY <1>1, <1>11 DEF Done, RsyncRemove, Doing
  <2> QED BY <1>7, <2>1
<1> QED BY <1>8, <1>9, <1>10, <1>11, Zenon

\* Every step of the server, a failed write and a stop included.
LEMMA FilesStep == FilesInv /\ [FilesNext]_filesVars => FilesInv'
<1> SUFFICES ASSUME FilesInv, [FilesNext]_filesVars PROVE FilesInv'
  OBVIOUS
<1>0. FilesTyped
  BY DEF FilesInv
<1>1. CASE Update
  <2>1. content.serial < MaxFileSerial
    BY <1>1 DEF Update
  <2>2. PICK low \in content.low .. content.serial + 2 :
            Store("update", [session |-> content.session, serial |-> content.serial + 1, low |-> low])
    BY <1>1 DEF Update
  <2> DEFINE c == [session |-> content.session, serial |-> content.serial + 1, low |-> low]
  <2>3. c \in Contents /\ c.low <= c.serial + 1
    BY <1>0, <2>1, UpdateContent
  <2>4. c.session = content.session /\ c.serial = content.serial + 1 /\ c.low >= content.low
    BY <1>0, RrdpFilesAssumption DEF FilesTyped, Contents
  <2>5. Store("update", c) /\ "update" \in Writer
    BY <2>2 DEF Writer
  <2> HIDE DEF c
  <2> QED BY <2>3, <2>4, <2>5, StoreKeeps
<1>2. CASE Reset
  <2> DEFINE c == [session |-> content.session + 1, serial |-> 1, low |-> 2]
  <2>1. Store("reset", c) /\ content.session < MaxSession /\ "reset" \in Writer
    BY <1>2 DEF Reset, Writer
  <2>2. c \in Contents
    BY <1>0, <2>1, ResetContent
  <2>3. c.session = content.session + 1 /\ c.low <= c.serial + 1
    OBVIOUS
  <2> HIDE DEF c
  <2> QED BY <2>1, <2>2, <2>3, StoreKeeps
<1>3. CASE Crash
  <2>1. FilesTyped' /\ \A v \in Writer : write'[v] = NoWrite
    BY <1>0, <1>3 DEF Crash, FilesTyped, WriteState
  <2>2. /\ crossed' = crossed /\ content' = content /\ notif' = notif /\ files' = files /\ failed'
    BY <1>3 DEF Crash
  <2>3. CASE ~crossed
    BY <2>1, <2>2, <2>3, EndKeeps
  <2> QED BY <2>1, <2>2, <2>3 DEF FilesInv
<1>4. ASSUME NEW w \in Writer, Write(w) \/ Fail(w) PROVE FilesInv'
  <2>1. FilesTyped'
    BY <1>0, <1>4, WriteTyped, Zenon
  <2>2. crossed' = crossed
    BY <1>4 DEF Write, Fail, WriteDeltas, WriteSnapshot, WriteNotification, Cleanup,
                RsyncFiles, RsyncToOld, RsyncToCurrent, RsyncRemove
  <2>3. CASE crossed
    BY <2>1, <2>2, <2>3 DEF FilesInv
  <2>4. CASE ~crossed
    <3>1. CASE Fail(w)
      <4>1. write[w] # NoWrite /\ End(w) /\ failed' /\ content' = content /\ notif' = notif /\ files' = files
        BY <3>1 DEF Fail
      <4>2. \A v \in Writer : write'[v] = NoWrite
        BY <1>0, <2>4, <4>1, EndStep, OthersIdle
      <4> QED BY <2>1, <2>2, <2>4, <4>1, <4>2, EndKeeps
    <3> QED BY <1>4, <2>1, <2>4, <3>1, DeltasKeep, SnapshotKeeps, NotificationKeeps,
               CleanupKeeps, RsyncKeeps, Zenon DEF Write
  <2> QED BY <2>3, <2>4
<1>5. CASE UNCHANGED filesVars
  <2>1. FilesTyped' = FilesTyped /\ Named' = Named /\ Follows' = Follows /\ Alone' = Alone /\ Settled' = Settled
    BY <1>5, Zenon DEF filesVars, FilesTyped, Named, Follows, Alone, Settled, Matching
  <2>2. \A w \in Writer : Done(w) => Done(w)'
    BY <1>5 DEF filesVars, Done, Matching
  <2> QED BY <1>5, <2>1, <2>2, Zenon DEF FilesInv, filesVars
<1> QED BY <1>1, <1>2, <1>3, <1>4, <1>5 DEF FilesNext

\* RepositoryManager::init leaves the first write to be done.
LEMMA FilesInitially == FilesInit => FilesInv
<1> SUFFICES ASSUME FilesInit PROVE FilesInv
  OBVIOUS
<1>1. content = [session |-> 1, serial |-> 1, low |-> 2] /\ content \in Contents
  BY RrdpFilesAssumption DEF FilesInit, Contents
<1>2. notif \in Notification /\ notif.session = 0
  BY RrdpFilesAssumption DEF FilesInit, NoNotification, Notification
<1>3. write = [w \in Writer |-> IF w = "update" THEN Begin(content) ELSE NoWrite]
  BY DEF FilesInit
<1>4. Begin(content) \in WriteState /\ Begin(content) # NoWrite
      /\ Begin(content).at = "rrdp" /\ Begin(content).c = content
  BY <1>1 DEF Begin, WriteState, Step, NoWrite
<1>5. FilesTyped
  <2>1. failed \in BOOLEAN /\ crossed \in BOOLEAN
    BY Zenon DEF FilesInit
  <2>2. write \in [Writer -> WriteState]
    BY <1>3, <1>4 DEF WriteState
  <2>3. content.low <= content.serial + 1
    BY <1>1
  <2> QED BY <1>1, <1>2, <2>1, <2>2, <2>3 DEF FilesTyped
<1>6. Named /\ Follows
  BY <1>1, <1>2 DEF FilesInit, Named, Follows
<1>7. Alone /\ Settled
  BY <1>3, <1>4 DEF Alone, Settled, Writer
<1>8. \A w \in Writer : Done(w)
  BY <1>3, <1>4 DEF Done
<1> QED BY <1>5, <1>6, <1>7, <1>8 DEF FilesInv

\* The invariant holds throughout.
LEMMA FilesInvariant == FilesSpec => []FilesInv
BY FilesInitially, FilesStep, PTL DEF FilesSpec

-----------------------------------------------------------------------------
(* The properties *)

\* Whatever fails, and wherever the server stops, a relying party that has
\* the notification file finds every file it names.
THEOREM NotificationCorrect == FilesSpec => []NotificationComplete
<1>1. FilesInv => NotificationComplete
  <2> SUFFICES ASSUME FilesInv, ~crossed, notif # NoNotification
               PROVE  /\ [session |-> notif.session, serial |-> notif.serial, kind |-> "snapshot"] \in files
                      /\ [session : {notif.session}, serial : notif.deltas, kind : {"delta"}] \subseteq files
    BY DEF NotificationComplete
  <2>1. /\ SnapshotFile(notif.session, notif.serial) \in files
        /\ \A s \in notif.deltas : DeltaFile(notif.session, s) \in files
    BY DEF FilesInv, Named
  <2>2. ASSUME NEW f \in [session : {notif.session}, serial : notif.deltas, kind : {"delta"}]
        PROVE  f \in files
    <3>1. f = DeltaFile(notif.session, f.serial) /\ f.serial \in notif.deltas
      BY DEF DeltaFile
    <3> QED BY <2>1, <3>1
  <2> QED BY <2>1, <2>2 DEF SnapshotFile
<1> QED BY <1>1, FilesInvariant, PTL

\* A completed write leaves the files as if none before it had failed.
THEOREM WritesCorrect == FilesSpec => []WritesMakeUp
<1>1. FilesInv => WritesMakeUp
  BY DEF FilesInv, Settled, Matching, WritesMakeUp
<1> QED BY <1>1, FilesInvariant, PTL

-----------------------------------------------------------------------------
(* The user interface *)

SessionInv == LogoutSticks /\ HeaderIsStored

\* Going to a page leaves the session as the handler set it, except for the top bar.
LEMMA SessionStep ==
    SessionInv /\ [Next]_vars => SessionInv'
  <1> SUFFICES ASSUME SessionInv, [Next]_vars PROVE SessionInv'
    OBVIOUS
  <1> USE DEF SessionInv, LogoutSticks, HeaderIsStored
  <1>1. ASSUME NEW path \in Links, Navigate(path) PROVE SessionInv'
    BY <1>1 DEF Navigate
  <1>2. ASSUME Login PROVE SessionInv'
    BY <1>2 DEF Login
  <1>3. ASSUME Logout PROVE SessionInv'
    BY <1>3 DEF Logout
  <1>4. ASSUME Reload PROVE SessionInv'
    BY <1>4 DEF Reload, Load
  <1>5. ASSUME NEW t \in Token, RecordLogin(t) PROVE SessionInv'
    BY <1>5 DEF RecordLogin
  <1>6. ASSUME NEW c \in calls, NEW ok \in BOOLEAN, NEW new \in Token \cup {None}, Authorized(c, ok, new)
        PROVE  SessionInv'
    BY <1>6 DEF Authorized, Intercept
  <1>7. ASSUME NEW c \in calls, NEW ok \in BOOLEAN, NEW new \in Token \cup {None}, ShowCA(c, ok, new)
        PROVE  SessionInv'
    BY <1>7 DEF ShowCA, Intercept
  <1>8. ASSUME NEW c \in calls, NEW ok \in BOOLEAN, NEW cas \in SUBSET Handle, NEW new \in Token \cup {None},
               ListedCAs(c, ok, cas, new)
        PROVE  SessionInv'
    BY <1>8 DEF ListedCAs, Intercept
  <1>9. ASSUME NEW c \in calls, NEW ok \in BOOLEAN, NEW url \in Urls, LoginUrl(c, ok, url) PROVE SessionInv'
    BY <1>9 DEF LoginUrl
  <1>10. ASSUME NEW c \in calls, NEW ok \in BOOLEAN, NEW t \in Token, LoggedIn(c, ok, t) PROVE SessionInv'
    BY <1>10 DEF LoggedIn
  <1>11. ASSUME NEW c \in calls, NEW ok \in BOOLEAN, NEW url \in Urls, NEW new \in Token \cup {None},
                LoggedOut(c, ok, url, new)
         PROVE  SessionInv'
    BY <1>11 DEF LoggedOut
  <1>12. ASSUME UNCHANGED vars PROVE SessionInv'
    BY <1>12 DEF vars, session
  <1> QED
    BY <1>1, <1>2, <1>3, <1>4, <1>5, <1>6, <1>7, <1>8, <1>9, <1>10, <1>11, <1>12 DEF Next, Answers

\* The two facts about the session hold in every reachable state.
LEMMA SessionInvariance ==
    Spec => []SessionInv
  <1>1. Init => SessionInv
    BY DEF Init, SessionInv, LogoutSticks, HeaderIsStored
  <1> QED
    BY <1>1, SessionStep, PTL DEF Spec

\* After a logout only a login stores a token again, whichever answers come late (the interceptor of apiClient).
THEOREM LogoutCorrect ==
    Spec => []LogoutSticks
  <1>1. SessionInv => LogoutSticks
    BY DEF SessionInv
  <1> QED
    BY <1>1, SessionInvariance, PTL

\* The token apiClient sends is the stored one whenever one is stored.
THEOREM HeaderCorrect ==
    Spec => []HeaderIsStored
  <1>1. SessionInv => HeaderIsStored
    BY DEF SessionInv
  <1> QED
    BY <1>1, SessionInvariance, PTL

-----------------------------------------------------------------------------
(* Details. The requests whose fields change while they are in flight have *)
(* the fields of Call.                                                     *)

Shaped(c) ==
    /\ c.kind = "authorized" =>
           \E to, front, pending :
               c = [kind |-> "authorized", to |-> to, front |-> front, pending |-> pending]
    /\ c.kind = "login" => \E back, here : c = [kind |-> "login", back |-> back, here |-> here]
    /\ c.kind = "ca" => \E handle, here : c = [kind |-> "ca", handle |-> handle, here |-> here]

\* Details are awaited, or shown, only on the page of a CA, and for this CA, unless requests race.
Awaited ==
    /\ \A c \in calls :
           /\ Shaped(c)
           /\ c.kind = "ca" /\ c.here => page.path \in Handle /\ (racing \/ c.handle = page.path)
    /\ shown # None => page.path \in Handle /\ (racing \/ shown = page.path)

\* A navigation that takes the place of another leaves every request its shape, and getCA requests as they are.
LEMMA SupersededCalls ==
    ASSUME NEW cs, \A c \in cs : Shaped(c), NEW d \in Superseded(cs)
    PROVE  Shaped(d) /\ (d.kind = "ca" => d \in cs)
  <1>1. PICK c \in cs : d = IF c.kind = "authorized" THEN [c EXCEPT !.pending = FALSE] ELSE c
    BY DEF Superseded
  <1>2. CASE c.kind = "authorized"
    <2>1. PICK to, front, pending :
              c = [kind |-> "authorized", to |-> to, front |-> front, pending |-> pending]
      BY <1>2 DEF Shaped
    <2>2. d = [kind |-> "authorized", to |-> to, front |-> front, pending |-> FALSE]
      BY <1>1, <1>2, <2>1, Zenon
    <2> QED
      BY <2>2, Zenon DEF Shaped
  <1> QED
    BY <1>1, <1>2

\* So does a page that is left, but that its own requests no longer reach it.
LEMMA DestroyedCalls ==
    ASSUME NEW cs, \A c \in cs : Shaped(c), NEW kind \in {"login", "ca"}, NEW d \in Destroyed(kind, cs)
    PROVE  Shaped(d) /\ (d.kind = "ca" => d \in cs \/ ~d.here) /\ (d.kind = "ca" /\ kind = "ca" => ~d.here)
  <1>1. PICK c \in cs : d = IF c.kind = kind THEN [c EXCEPT !.here = FALSE] ELSE c
    BY DEF Destroyed
  <1>2. CASE c.kind = kind /\ kind = "login"
    <2>1. PICK back, here : c = [kind |-> "login", back |-> back, here |-> here]
      BY <1>2 DEF Shaped
    <2>2. d = [kind |-> "login", back |-> back, here |-> FALSE]
      BY <1>1, <1>2, <2>1, Zenon
    <2> QED
      BY <2>2, Zenon DEF Shaped
  <1>3. CASE c.kind = kind /\ kind = "ca"
    <2>1. PICK handle, here : c = [kind |-> "ca", handle |-> handle, here |-> here]
      BY <1>3 DEF Shaped
    <2>2. d = [kind |-> "ca", handle |-> handle, here |-> FALSE]
      BY <1>1, <1>3, <2>1, Zenon
    <2> QED
      BY <2>2, Zenon DEF Shaped
  <1>4. CASE c.kind # kind
    BY <1>1, <1>4
  <1> QED
    BY <1>2, <1>3, <1>4

\* On leaving the pages of CAs nothing is awaited any more.
LEMMA LeftCalls ==
    ASSUME NEW to, NEW cs, \A c \in cs : Shaped(c), NEW d \in Left(to, cs)
    PROVE  Shaped(d) /\ (d.kind = "ca" /\ to.path \notin Handle => ~d.here)
  <1> DEFINE login == IF to.path = "login" THEN cs ELSE Destroyed("login", cs)
             ca == IF to.path \in Handle THEN login ELSE Destroyed("ca", login)
  <1>1. \A c \in login : Shaped(c)
    BY DestroyedCalls
  <1> HIDE DEF login
  <1>2. \A c \in ca : Shaped(c) /\ (c.kind = "ca" /\ to.path \notin Handle => ~c.here)
    BY <1>1, DestroyedCalls
  <1>3. d \in Superseded(ca)
    BY DEF Left, login
  <1> HIDE DEF ca
  <1> QED
    BY <1>2, <1>3, SupersededCalls

\* Showing a page, with getContent for that of a CA, keeps what is awaited and shown in step.
LEMMA ArriveAwaited ==
    ASSUME NEW to, NEW cs, \A c \in cs : Shaped(c), Arrive(to, cs)
    PROVE  Awaited'
  <1>1. page' = to
    BY DEF Arrive
  <1>2. CASE to.path \in Handle
    <2> DEFINE new == [kind |-> "ca", handle |-> to.path, here |-> TRUE]
    <2>1. /\ shown' = None
          /\ racing' = \E c \in Left(to, cs) : c.kind = "ca" /\ c.here
          /\ calls' = Left(to, cs) \cup {new}
      BY <1>2 DEF Arrive, GetContent
    <2>2. Shaped(new)
      BY Zenon DEF Shaped
    <2>3. new.kind = "ca" /\ new.handle = page'.path
      BY <1>1
    <2> HIDE DEF new
    <2>4. ASSUME NEW c \in calls'
          PROVE  Shaped(c) /\ (c.kind = "ca" /\ c.here => racing' \/ c.handle = page'.path)
      <3>1. CASE c \in Left(to, cs)
        BY <2>1, <3>1, LeftCalls
      <3>2. CASE c = new
        BY <2>2, <2>3, <3>2
      <3> QED
        BY <2>1, <3>1, <3>2
    <2>5. page'.path \in Handle
      BY <1>1, <1>2, Zenon
    <2> QED
      BY <2>1, <2>4, <2>5, Zenon DEF Awaited
  <1>3. CASE to.path \notin Handle
    <2> DEFINE more == IF to.path = "interstitial" THEN {[kind |-> "cas"]} ELSE {}
    <2>1. calls' = Left(to, cs) \cup more /\ shown' = None
      BY <1>3 DEF Arrive
    <2>2. \A c \in more : c.kind = "cas"
      OBVIOUS
    <2> HIDE DEF more
    <2>3. ASSUME NEW c \in calls'
          PROVE  Shaped(c) /\ ~(c.kind = "ca" /\ c.here)
      <3>1. CASE c \in Left(to, cs)
        BY <1>3, <3>1, LeftCalls, Zenon
      <3>2. CASE c \in more
        BY <2>2, <3>2 DEF Shaped
      <3> QED
        BY <2>1, <3>1, <3>2, Zenon
    <2> QED
      BY <2>1, <2>3, Zenon DEF Awaited
  <1> QED
    BY <1>2, <1>3

\* Requests come and go while the page stays: nothing but the page itself requests details.
LEMMA StayAwaited ==
    ASSUME Awaited, UNCHANGED <<page, shown, racing>>,
           \A d \in calls' : Shaped(d) /\ (d.kind = "ca" => d \in calls)
    PROVE  Awaited'
  BY DEF Awaited

\* beforeEach adds a request for authorization, and no getCA request.
LEMMA GuardedCalls ==
    ASSUME NEW to, NEW cs, \A c \in cs : Shaped(c), Guarded(to, cs)
    PROVE  \A d \in calls' : Shaped(d) /\ (d.kind = "ca" => d \in cs)
  <1> DEFINE new == [kind |-> "authorized", to |-> to, front |-> stored' # None, pending |-> TRUE]
  <1>1. Shaped(new) /\ new.kind # "ca"
    BY Zenon DEF Shaped
  <1>2. calls' = Superseded(cs) \/ calls' = Superseded(cs) \cup {new}
    BY DEF Guarded, BeforeEach
  <1> HIDE DEF new
  <1> QED
    BY <1>1, <1>2, SupersededCalls

\* So router.push keeps Awaited, whether it shows a page or waits for the guard.
LEMMA PushAwaited ==
    ASSUME Awaited, NEW to, NEW cs, cs \subseteq calls, Push(to, cs)
    PROVE  Awaited'
  <1>1. \A c \in cs : Shaped(c)
    BY DEF Awaited
  <1>2. CASE Arrive(to, cs)
    BY <1>1, <1>2, ArriveAwaited
  <1>3. CASE Guarded(to, cs) /\ UNCHANGED <<user, view>>
    <2>1. UNCHANGED <<page, shown, racing>>
      BY <1>3 DEF view
    <2>2. \A d \in calls' : Shaped(d) /\ (d.kind = "ca" => d \in calls)
      BY <1>1, <1>3, GuardedCalls
    <2> QED
      BY <2>1, <2>2, StayAwaited
  <1> QED
    BY <1>2, <1>3 DEF Push

\* Leaving the application leaves nothing to await.
LEMMA LeaveAwaited ==
    ASSUME Leave PROVE Awaited'
  BY DEF Leave, Awaited

\* One request is added that no page of a CA has made.
LEMMA MoreAwaited ==
    ASSUME Awaited, NEW cs, cs \subseteq calls, NEW new, Shaped(new), new.kind # "ca",
           calls' = cs \cup {new}, UNCHANGED view
    PROVE  Awaited'
  <1>1. UNCHANGED <<page, shown, racing>>
    BY DEF view
  <1>2. \A d \in calls' : Shaped(d) /\ (d.kind = "ca" => d \in calls)
    BY DEF Awaited
  <1> QED
    BY <1>1, <1>2, StayAwaited

\* Or one is answered, and that is all.
LEMMA FewerAwaited ==
    ASSUME Awaited, calls' \subseteq calls, UNCHANGED view
    PROVE  Awaited'
  <1>1. UNCHANGED <<page, shown, racing>>
    BY DEF view
  <1>2. \A d \in calls' : Shaped(d) /\ (d.kind = "ca" => d \in calls)
    BY DEF Awaited
  <1> QED
    BY <1>1, <1>2, StayAwaited

\* What the user does keeps Awaited.
LEMMA UserAwaited ==
    ASSUME Awaited, \/ \E path \in Links : Navigate(path)
                    \/ Login \/ Logout \/ Reload \/ \E t \in Token : RecordLogin(t)
    PROVE  Awaited'
  <1>1. ASSUME NEW path \in Links, Navigate(path) PROVE Awaited'
    BY <1>1, PushAwaited DEF Navigate
  <1>2. ASSUME Login PROVE Awaited'
    <2> DEFINE new == [kind |-> "login", back |-> form.back, here |-> TRUE]
    <2>1. Shaped(new) /\ new.kind # "ca"
      BY Zenon DEF Shaped
    <2>2. calls' = calls \cup {new} /\ UNCHANGED view
      BY <1>2 DEF Login
    <2> HIDE DEF new
    <2> QED
      BY <2>1, <2>2, MoreAwaited
  <1>3. ASSUME Logout PROVE Awaited'
    <2> DEFINE new == [kind |-> "logout"]
    <2>1. Shaped(new) /\ new.kind # "ca"
      BY DEF Shaped
    <2>2. calls' = calls \cup {new} /\ UNCHANGED view
      BY <1>3, Zenon DEF Logout
    <2> HIDE DEF new
    <2> QED
      BY <2>1, <2>2, MoreAwaited, Zenon
  <1>4. ASSUME NEW to, NEW front,
               calls' \subseteq {[kind |-> "authorized", to |-> to, front |-> front, pending |-> TRUE]},
               shown' = None
        PROVE  Awaited'
    <2> DEFINE new == [kind |-> "authorized", to |-> to, front |-> front, pending |-> TRUE]
    <2>1. Shaped(new) /\ new.kind # "ca"
      BY Zenon DEF Shaped
    <2>2. calls' \subseteq {new}
      BY <1>4, Zenon
    <2> HIDE DEF new
    <2> QED
      BY <1>4, <2>1, <2>2 DEF Awaited
  <1>5. ASSUME Reload PROVE Awaited'
    <2>1. PICK to : Load(to)
      BY <1>5, Zenon DEF Reload
    <2> QED
      BY <2>1, <1>4 DEF Load
  <1>6. ASSUME NEW t \in Token, RecordLogin(t) PROVE Awaited'
    <2>1. calls' = {[kind |-> "authorized", to |-> At("interstitial"), front |-> TRUE, pending |-> TRUE]}
      BY <1>6 DEF RecordLogin
    <2> QED
      BY <1>6, <2>1, <1>4, Zenon DEF RecordLogin
  <1> QED
    BY <1>1, <1>2, <1>3, <1>5, <1>6

\* So does the handler of each answer.
LEMMA AnswersAwaited ==
    ASSUME Awaited, NEW c \in calls, Answers(c)
    PROVE  Awaited'
  <1>0. calls \ {c} \subseteq calls /\ \A d \in calls \ {c} : Shaped(d)
    BY DEF Awaited
  <1>1. ASSUME NEW ok \in BOOLEAN, NEW new \in Token \cup {None}, Authorized(c, ok, new) PROVE Awaited'
    <2>1. CASE Arrive(c.to, calls \ {c})
      BY <1>0, <2>1, ArriveAwaited
    <2>2. CASE calls' = calls \ {c} /\ UNCHANGED <<user, view>>
      BY <2>2, FewerAwaited
    <2>3. CASE calls' = (calls \ {c}) \cup {[kind |-> "login_url", back |-> c.to.path]} /\ UNCHANGED <<user, view>>
      <3> DEFINE url == [kind |-> "login_url", back |-> c.to.path]
      <3>1. Shaped(url) /\ url.kind # "ca"
        BY DEF Shaped
      <3>2. calls' = (calls \ {c}) \cup {url} /\ UNCHANGED view
        BY <2>3
      <3> HIDE DEF url
      <3> QED
        BY <1>0, <3>1, <3>2, MoreAwaited, Zenon
    <2> QED
      BY <1>1, <2>1, <2>2, <2>3 DEF Authorized
  <1>2. ASSUME NEW ok \in BOOLEAN, NEW new \in Token \cup {None}, ShowCA(c, ok, new) PROVE Awaited'
    <2>1. CASE ok
      <3>1. /\ shown' = IF c.here THEN c.handle ELSE shown
            /\ calls' = calls \ {c}
            /\ UNCHANGED <<page, racing>>
            /\ c.kind = "ca"
        BY <1>2, <2>1 DEF ShowCA
      <3>2. shown' # None => page.path \in Handle /\ (racing \/ shown' = page.path)
        BY <3>1 DEF Awaited
      <3> QED
        BY <3>1, <3>2 DEF Awaited
    <2>2. CASE ~ok
      <3>1. UNCHANGED <<page, shown, racing>> /\ Guarded(At("interstitial"), calls \ {c})
        BY <1>2, <2>2 DEF ShowCA
      <3>2. \A d \in calls' : Shaped(d) /\ (d.kind = "ca" => d \in calls)
        BY <1>0, <3>1, GuardedCalls
      <3> QED
        BY <3>1, <3>2, StayAwaited
    <2> QED
      BY <2>1, <2>2
  <1>3. ASSUME NEW ok \in BOOLEAN, NEW cas \in SUBSET Handle, NEW new \in Token \cup {None},
               ListedCAs(c, ok, cas, new)
        PROVE  Awaited'
    <2>1. PICK to : Push(At(to), calls \ {c})
      BY <1>3 DEF ListedCAs
    <2> QED
      BY <2>1, <1>0, PushAwaited
  <1>4. ASSUME NEW ok \in BOOLEAN, NEW url \in Urls, LoginUrl(c, ok, url) PROVE Awaited'
    BY <1>0, <1>4, PushAwaited, LeaveAwaited DEF LoginUrl
  <1>5. ASSUME NEW ok \in BOOLEAN, NEW t \in Token, LoggedIn(c, ok, t) PROVE Awaited'
    <2>1. CASE Guarded(At(c.back), calls \ {c}) /\ UNCHANGED view
      <3>1. UNCHANGED <<page, shown, racing>>
        BY <2>1 DEF view
      <3>2. \A d \in calls' : Shaped(d) /\ (d.kind = "ca" => d \in calls)
        BY <1>0, <2>1, GuardedCalls
      <3> QED
        BY <3>1, <3>2, StayAwaited
    <2>2. CASE calls' = calls \ {c} /\ UNCHANGED view
      BY <2>2, FewerAwaited
    <2> QED
      BY <1>5, <2>1, <2>2 DEF LoggedIn
  <1>6. ASSUME NEW ok \in BOOLEAN, NEW url \in Urls, NEW new \in Token \cup {None}, LoggedOut(c, ok, url, new)
        PROVE  Awaited'
    BY <1>0, <1>6, PushAwaited, LeaveAwaited, Zenon DEF LoggedOut
  <1> QED
    BY <1>1, <1>2, <1>3, <1>4, <1>5, <1>6 DEF Answers

\* Awaited holds in every reachable state.
LEMMA AwaitedInvariance ==
    Spec => []Awaited
  <1>1. Init => Awaited
    <2> DEFINE new == [kind |-> "authorized", to |-> At("interstitial"), front |-> FALSE, pending |-> TRUE]
    <2>1. Shaped(new) /\ new.kind # "ca"
      BY Zenon DEF Shaped
    <2>2. Init => calls = {new} /\ shown = None
      BY DEF Init
    <2> HIDE DEF new
    <2> QED
      BY <2>1, <2>2 DEF Awaited
  <1>2. Awaited /\ [Next]_vars => Awaited'
    <2> SUFFICES ASSUME Awaited, [Next]_vars PROVE Awaited'
      OBVIOUS
    <2>1. CASE UNCHANGED vars
      BY <2>1, FewerAwaited DEF vars
    <2>2. CASE Next
      BY <2>2, UserAwaited, AnswersAwaited DEF Next
    <2> QED
      BY <2>1, <2>2
  <1> QED
    BY <1>1, <1>2, PTL DEF Spec

\* The details on the page of a CA are this CA's unless requests for details raced (getContent of CADetails.vue).
THEOREM DetailsCorrect ==
    Spec => []ShownIsSelected
  <1>1. Awaited => ShownIsSelected
    BY DEF Awaited, ShownIsSelected
  <1> QED
    BY <1>1, AwaitedInvariance, PTL
=============================================================================
