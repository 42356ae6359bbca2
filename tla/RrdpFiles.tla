------------------------------ MODULE RrdpFiles ------------------------------
(***************************************************************************)
(* The files that the publication server serves: RepositoryContent::       *)
(* write_repository of src/pubd/repository.rs, which RepositoryManager     *)
(* calls with the content that an RRDP update (the scheduler's task) or a  *)
(* session reset (a request) has made.  The two may write at the same      *)
(* time, a write may fail at each of its steps, and the server may stop;   *)
(* the content, which is stored before, stays.                             *)
(***************************************************************************)
EXTENDS Naturals

CONSTANTS
    MaxSession,   \* bound: sessions
    MaxFileSerial \* bound: serials of a session

ASSUME RrdpFilesAssumption == MaxSession \in Nat \ {0} /\ MaxFileSerial \in Nat \ {0}

Writer == {"update", "reset"}

\* Of a content: its deltas are those with serials low .. serial.
Contents == [session : 1 .. MaxSession, serial : 1 .. MaxFileSerial, low : 1 .. MaxFileSerial + 1]
File == [session : 1 .. MaxSession, serial : 1 .. MaxFileSerial, kind : {"delta", "snapshot"}]
Notification == [session : 0 .. MaxSession, serial : 0 .. MaxFileSerial, deltas : SUBSET (1 .. MaxFileSerial)]
NoNotification == [session |-> 0, serial |-> 0, deltas |-> {}]
Version == [session : 1 .. MaxSession, serial : 1 .. MaxFileSerial]

VARIABLES
    content,   \* the RRDP state that is stored
    notif,     \* notification.xml
    files,     \* the delta and snapshot files
    current,   \* the versions with files in the rsync directory "current"
    old,       \* the versions with files in the rsync directory "old"
    tmp,       \* the versions with files in a directory "tmp-<serial>"
    write,     \* of each write: its next step, its content, and the deltas of the notification file it prepares
    failed,    \* history: a write failed, and none was completed since
    crossed    \* history: two writes were under way at the same time

filesVars == <<content, notif, files, current, old, tmp, write, failed, crossed>>

VersionOf(c) == [session |-> c.session, serial |-> c.serial]
Deltas(c) == c.low .. c.serial

Begin(c) == [at |-> "rrdp", c |-> c, deltas |-> {}]
NoWrite == [at |-> "idle"]

\* RepositoryManager::init has stored the first content and is about to write it.
FilesInit ==
    /\ content = [session |-> 1, serial |-> 1, low |-> 2]
    /\ notif = NoNotification
    /\ files = {} /\ current = {} /\ old = {} /\ tmp = {}
    /\ write = [w \in Writer |-> IF w = "update" THEN Begin(content) ELSE NoWrite]
    /\ failed = FALSE /\ crossed = FALSE

\* A content is stored, and its write begins.
Store(w, c) ==
    /\ write[w] = NoWrite
    /\ content' = c
    /\ write' = [write EXCEPT ![w] = Begin(c)]
    /\ crossed' = (crossed \/ \E v \in Writer : write[v] # NoWrite)
    /\ UNCHANGED <<notif, files, current, old, tmp, failed>>

\* update_rrdp: a new delta; any number of the oldest deltas are dropped (see RrdpDeltas), by size even the new one.
Update ==
    /\ content.serial < MaxFileSerial
    /\ \E low \in content.low .. content.serial + 2 :
           Store("update", [session |-> content.session, serial |-> content.serial + 1, low |-> low])

\* session_reset.
Reset ==
    /\ content.session < MaxSession
    /\ Store("reset", [session |-> content.session + 1, serial |-> 1, low |-> 2])

Doing(w, step) == write[w].at = step
Goto(w, step) == write' = [write EXCEPT ![w] = [at |-> step, c |-> @.c, deltas |-> @.deltas]]
End(w) == write' = [write EXCEPT ![w] = NoWrite]

\* Mutant of WriteDeltas: the deltas that are no longer kept stay in the notification file.
WriteDeltasKeepsAll(w) ==
    LET c == write[w].c
        listed == IF notif.session = c.session THEN notif.deltas ELSE {}
        new == {s \in Deltas(c) : \A l \in listed : s > l}
    IN  /\ Doing(w, "rrdp")
        /\ IF notif.session = c.session /\ notif.serial = c.serial
           THEN Goto(w, "rsync") /\ UNCHANGED files
           ELSE /\ files' = files \cup [session : {c.session}, serial : new, kind : {"delta"}]
                /\ write' = [write EXCEPT ![w] = [at |-> "snapshot", c |-> c, deltas |-> listed \cup new]]
        /\ UNCHANGED <<content, notif, current, old, tmp, failed, crossed>>

\* Mutant of WriteDeltas: a notification file with the same serial is taken for the content's, whichever session it has.
WriteDeltasSerialOnly(w) ==
    LET c == write[w].c
        listed == IF notif.session = c.session /\ Deltas(c) # {} THEN {s \in notif.deltas : s >= c.low} ELSE {}
        new == {s \in Deltas(c) : \A l \in listed : s > l}
    IN  /\ Doing(w, "rrdp")
        /\ IF notif.serial = c.serial
           THEN Goto(w, "rsync") /\ UNCHANGED files
           ELSE /\ files' = files \cup [session : {c.session}, serial : new, kind : {"delta"}]
                /\ write' = [write EXCEPT ![w] = [at |-> "snapshot", c |-> c, deltas |-> listed \cup new]]
        /\ UNCHANGED <<content, notif, current, old, tmp, failed, crossed>>

\* write and write_delta_files: the deltas of the notification file that there is, as far as they are kept, are taken
\* to have files; the newer ones are written. Nothing is written when the notification file is the content's.
WriteDeltas(w) ==
    LET c == write[w].c
        listed == IF notif.session = c.session /\ Deltas(c) # {} THEN {s \in notif.deltas : s >= c.low} ELSE {}
        new == {s \in Deltas(c) : \A l \in listed : s > l}
    IN  /\ Doing(w, "rrdp")
        /\ IF notif.session = c.session /\ notif.serial = c.serial
           THEN Goto(w, "rsync") /\ UNCHANGED files
           ELSE /\ files' = files \cup [session : {c.session}, serial : new, kind : {"delta"}]
                /\ write' = [write EXCEPT ![w] = [at |-> "snapshot", c |-> c, deltas |-> listed \cup new]]
        /\ UNCHANGED <<content, notif, current, old, tmp, failed, crossed>>

WriteSnapshot(w) ==
    /\ Doing(w, "snapshot")
    /\ files' = files \cup [session : {write[w].c.session}, serial : {write[w].c.serial}, kind : {"snapshot"}]
    /\ Goto(w, "notification")
    /\ UNCHANGED <<content, notif, current, old, tmp, failed, crossed>>

\* The new notification file takes the place of the old one by a rename.
WriteNotification(w) ==
    /\ Doing(w, "notification")
    /\ notif' = [session |-> write[w].c.session, serial |-> write[w].c.serial, deltas |-> write[w].deltas]
    /\ Goto(w, "cleanup")
    /\ UNCHANGED <<content, files, current, old, tmp, failed, crossed>>

\* cleanup_old_rrdp_files: other sessions, serials without a delta, and the snapshots of older serials.
Cleanup(w) ==
    LET c == write[w].c
    IN  /\ Doing(w, "cleanup")
        /\ files' = {f \in files : /\ f.session = c.session
                                   /\ f.serial = c.serial \/ (f.serial \in Deltas(c) /\ f.kind = "delta")}
        /\ Goto(w, "rsync")
        /\ UNCHANGED <<content, notif, current, old, tmp, failed, crossed>>

\* RsyncdStore::write, one writer at a time (lock): all files into tmp-<serial>, beside what a failed write left there.
RsyncFiles(w) ==
    /\ Doing(w, "rsync")
    /\ \A v \in Writer : write[v].at \notin {"to_old", "to_current", "remove"}
    /\ tmp' = tmp \cup {VersionOf(write[w].c)}
    /\ Goto(w, "to_old")
    /\ UNCHANGED <<content, notif, files, current, old, failed, crossed>>

\* The rename of "current" to "old" fails when there is an "old" that is not empty.
RsyncToOld(w) ==
    /\ Doing(w, "to_old")
    /\ IF current # {} /\ old # {}
       THEN End(w) /\ failed' = TRUE /\ UNCHANGED <<current, old>>
       ELSE /\ Goto(w, "to_current")
            /\ IF current = {} THEN UNCHANGED <<current, old>> ELSE old' = current /\ current' = {}
            /\ UNCHANGED failed
    /\ UNCHANGED <<content, notif, files, tmp, crossed>>

RsyncToCurrent(w) ==
    LET dir == {v \in tmp : v.serial = write[w].c.serial}
    IN  /\ Doing(w, "to_current")
        /\ current' = dir
        /\ tmp' = tmp \ dir
        /\ Goto(w, "remove")
        /\ UNCHANGED <<content, notif, files, old, failed, crossed>>

RsyncRemove(w) ==
    /\ Doing(w, "remove")
    /\ old' = {}
    /\ failed' = FALSE
    /\ End(w)
    /\ UNCHANGED <<content, notif, files, current, tmp, crossed>>

\* An error ends the write. The retry of the task finds that nothing is staged: it does not write.
Fail(w) ==
    /\ write[w] # NoWrite
    /\ End(w) /\ failed' = TRUE
    /\ UNCHANGED <<content, notif, files, current, old, tmp, crossed>>

\* The server stops and starts: it writes no files at the start.
Crash ==
    /\ \E w \in Writer : write[w] # NoWrite
    /\ write' = [w \in Writer |-> NoWrite] /\ failed' = TRUE
    /\ UNCHANGED <<content, notif, files, current, old, tmp, crossed>>

Write(w) ==
    \/ WriteDeltas(w) \/ WriteSnapshot(w) \/ WriteNotification(w) \/ Cleanup(w)
    \/ RsyncFiles(w) \/ RsyncToOld(w) \/ RsyncToCurrent(w) \/ RsyncRemove(w)

FilesNext ==
    \/ Update \/ Reset \/ Crash
    \/ \E w \in Writer : Write(w) \/ Fail(w)

FilesSpec == FilesInit /\ [][FilesNext]_filesVars

-----------------------------------------------------------------------------
Step == {"rrdp", "snapshot", "notification", "cleanup", "rsync", "to_old", "to_current", "remove"}
WriteState == {NoWrite} \cup [at : Step, c : Contents, deltas : SUBSET (1 .. MaxFileSerial)]

\* Every variable has its type.
FilesTypeOK ==
    /\ content \in Contents
    /\ notif \in Notification
    /\ write \in [Writer -> WriteState]
    /\ files \subseteq File
    /\ current \subseteq Version /\ old \subseteq Version /\ tmp \subseteq Version
    /\ failed \in BOOLEAN /\ crossed \in BOOLEAN

\* Every file that the notification file names is there, wherever earlier writes have failed or the server has stopped:
\* "We will assume that files for deltas still exist on disk" (write_delta_files). Two writes at the same time are an
\* exception: one may remove what the other has written and is about to name.
NotificationComplete ==
    ~crossed /\ notif # NoNotification =>
        /\ [session |-> notif.session, serial |-> notif.serial, kind |-> "snapshot"] \in files
        /\ [session : {notif.session}, serial : notif.deltas, kind : {"delta"}] \subseteq files

\* A write that is completed makes up for all that failed before it: the notification file has the serial and the deltas
\* of the content, and the rsync directory its files.
WritesMakeUp ==
    (\A w \in Writer : write[w] = NoWrite) /\ ~failed /\ ~crossed =>
        /\ notif = [session |-> content.session, serial |-> content.serial, deltas |-> Deltas(content)]
        /\ VersionOf(content) \in current
=============================================================================
