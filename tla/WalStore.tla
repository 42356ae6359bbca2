------------------------------ MODULE WalStore -------------------------------
(***************************************************************************)
(* The write-ahead log store of src/commons/eventsourcing/wal.rs, for one  *)
(* handle, on the disk key-value store of kv.rs.                           *)
(*                                                                         *)
(* An instance is abstracted to the sequence of change sets applied to it, *)
(* so its revision is its length.  On disk there is snapshot.json and one  *)
(* wal-<revision>.json file per change set that is not yet pruned.  The    *)
(* writers (send_command, add, remove) hold the handle's write lock for    *)
(* their whole duration, so at most one is in progress: `writer'.  The     *)
(* background update_snapshot holds the lock only while it gets the latest *)
(* instance, and runs its file operations beside the writers.              *)
(*                                                                         *)
(* store_new creates the file and then writes it: a crash, or a full disk, *)
(* in between leaves a Torn file that cannot be parsed.  store writes a    *)
(* temporary file and renames it, so it is atomic.                         *)
(***************************************************************************)
EXTENDS Naturals, Sequences

CONSTANTS Change,        \* the change sets commands result in
          MaxRevision,   \* bound on the revision of an instance
          MaxRemovals,   \* bound on the calls of remove
          Absent,        \* no snapshot.json
          Removed,       \* the log of an instance that was removed
          Torn           \* a file whose content was not (completely) written

ASSUME WalStoreAssumption ==
    /\ MaxRevision \in Nat
    /\ MaxRemovals \in Nat
    /\ Absent \notin Seq(Change)
    /\ Removed \notin Seq(Change)
    /\ Torn \notin Seq(Change) \cup Change
    /\ Absent # Torn

VARIABLES
    snapshot,  \* content of snapshot.json
    wal,       \* revision |-> content of wal-<revision>.json
    up,        \* "up": serving, "down": stopped, "failed": start-up failed
    cache,     \* the cached instance, Absent when there is none
    writer,    \* the operation that holds the write lock
    updater,   \* the background update_snapshot
    epoch,     \* number of instances added so far
    removals,  \* number of calls of remove so far
    acked,     \* the instance most recently returned by send_command or add
    leftover   \* whether files of a removed instance may be on disk

disk == <<snapshot, wal>>
history == <<epoch, removals, acked, leftover>>
vars == <<snapshot, wal, up, cache, writer, updater, history>>

Instance == Seq(Change)
Idle == [pc |-> "idle"]

-----------------------------------------------------------------------------
(* Reading the store.  get_latest caches what it had to replay; with every  *)
(* writer keeping the cache current (CacheCurrent below) there is nothing   *)
(* to replay while the server is up, so a reader changes no state and has   *)
(* no action of its own.                                                    *)

\* The revisions for which a well-formed change set is on disk.
Readable(w) == {r \in DOMAIN w : w[r] # Torn}

\* The revision at which replaying the change sets on top of inst stops (a
\* set of one element, since there are finitely many files).
ReplayEnds(inst, w) ==
    {n \in {Len(inst)} \cup {r + 1 : r \in Readable(w)} :
        /\ n >= Len(inst)
        /\ n \notin Readable(w)
        /\ \A r \in Len(inst) .. (n - 1) : r \in Readable(w)}

ReplayEnd(inst, w) == CHOOSE n \in ReplayEnds(inst, w) : TRUE

\* inst with every change set applied that follows it on disk.
Replay(inst, w) ==
    [i \in 1 .. ReplayEnd(inst, w) |->
        IF i <= Len(inst) THEN inst[i] ELSE w[i - 1]]

\* The instance get_latest starts from: the cached one, else the snapshot.
Base == IF cache # Absent THEN cache ELSE snapshot

\* get_latest_no_lock succeeds: there is an instance to start from, and no
\* file that has to be replayed is torn.
CanGetLatest ==
    /\ Base \notin {Absent, Torn}
    /\ \E n \in ReplayEnds(Base, wal) : n \notin DOMAIN wal

Latest == Replay(Base, wal)

-----------------------------------------------------------------------------
(* Writers *)

\* add takes the write lock, and store_new creates snapshot.json: it fails if
\* the file exists.
AddCreate ==
    /\ up = "up"
    /\ writer = Idle
    /\ snapshot = Absent
    /\ snapshot' = Torn
    /\ epoch' = epoch + 1
    /\ writer' = [pc |-> "add"]
    /\ UNCHANGED <<wal, up, cache, updater, removals, acked, leftover>>

\* The rest of add: the file is written, and the instance cached.
AddFinish ==
    /\ writer.pc = "add"
    /\ snapshot' = <<>>
    /\ cache' = <<>>
    /\ acked' = <<>>
    /\ writer' = Idle
    /\ UNCHANGED <<wal, up, updater, epoch, removals, leftover>>

\* Mutant of SendCreate: the caller is answered before the change is stored.
AckBeforeStore(c) ==
    /\ up = "up"
    /\ writer = Idle
    /\ CanGetLatest
    /\ Len(Latest) < MaxRevision
    /\ cache' = IF Latest # Base THEN Latest ELSE cache
    /\ wal' = [r \in DOMAIN wal \cup {Len(Latest)} |->
                  IF r \in DOMAIN wal THEN wal[r] ELSE Torn]
    /\ writer' = [pc |-> "write", inst |-> Latest, change |-> c]
    /\ acked' = Append(Latest, c)
    /\ UNCHANGED <<snapshot, up, updater, epoch, removals, leftover>>

\* send_command up to and including the creation of the wal file: the latest
\* instance is read (and cached when files had to be replayed), the command
\* is processed, and store_new creates the file for the current revision.
SendCreate(c) ==
    /\ up = "up"
    /\ writer = Idle
    /\ CanGetLatest
    /\ Len(Latest) < MaxRevision
    /\ cache' = IF Latest # Base THEN Latest ELSE cache
    /\ wal' = [r \in DOMAIN wal \cup {Len(Latest)} |->
                  IF r \in DOMAIN wal THEN wal[r] ELSE Torn]
    /\ writer' = [pc |-> "write", inst |-> Latest, change |-> c]
    /\ UNCHANGED <<snapshot, up, updater, history>>

\* store_new writes the content of the wal file.
SendWrite ==
    /\ writer.pc = "write"
    /\ wal' = [r \in DOMAIN wal |->
                  IF r = Len(writer.inst) THEN writer.change ELSE wal[r]]
    /\ writer' = [pc |-> "apply", inst |-> writer.inst,
                  change |-> writer.change]
    /\ UNCHANGED <<snapshot, up, cache, updater, history>>

\* store_new fails after it created the file: send_command returns the error.
SendFail ==
    /\ writer.pc = "write"
    /\ writer' = Idle
    /\ UNCHANGED <<disk, up, cache, updater, history>>

\* Mutant of SendApply: the cache is not updated.
ApplyWithoutCaching ==
    /\ writer.pc = "apply"
    /\ acked' = Append(writer.inst, writer.change)
    /\ writer' = Idle
    /\ UNCHANGED <<disk, up, cache, updater, epoch, removals, leftover>>

\* The change set is applied, the cache updated, and the instance returned.
SendApply ==
    /\ writer.pc = "apply"
    /\ cache' = Append(writer.inst, writer.change)
    /\ acked' = Append(writer.inst, writer.change)
    /\ writer' = Idle
    /\ UNCHANGED <<disk, up, updater, epoch, removals, leftover>>

\* remove: has() succeeds, the lock is taken and the cache entry dropped.
RemoveStart ==
    /\ up = "up"
    /\ writer = Idle
    /\ snapshot # Absent
    /\ removals < MaxRemovals
    /\ removals' = removals + 1
    /\ cache' = Absent
    /\ acked' = Absent
    /\ writer' = [pc |-> "remove"]
    /\ UNCHANGED <<disk, up, updater, epoch, leftover>>

\* drop_scope removes the files of the directory, one at a time.
RemoveFile ==
    /\ writer.pc = "remove"
    /\ \/ /\ snapshot # Absent
          /\ snapshot' = Absent
          /\ UNCHANGED wal
       \/ \E r \in DOMAIN wal :
          /\ wal' = [q \in DOMAIN wal \ {r} |-> wal[q]]
          /\ UNCHANGED snapshot
    /\ UNCHANGED <<up, cache, writer, updater, history>>

RemoveFinish ==
    /\ writer.pc = "remove"
    /\ snapshot = Absent
    /\ DOMAIN wal = {}
    /\ writer' = Idle
    /\ UNCHANGED <<disk, up, cache, updater, history>>

-----------------------------------------------------------------------------
(* update_snapshot, run by the scheduler beside the writers *)

UpdateGet ==
    /\ up = "up"
    /\ writer = Idle
    /\ updater = Idle
    /\ CanGetLatest
    /\ cache' = IF Latest # Base THEN Latest ELSE cache
    /\ updater' = [pc |-> "store", inst |-> Latest, epoch |-> epoch]
    /\ UNCHANGED <<disk, up, writer, history>>

\* Mutant of UpdateStore: the instance it stored is put in the cache.
StoreAndCache ==
    /\ updater.pc = "store"
    /\ snapshot' = updater.inst
    /\ cache' = updater.inst
    /\ leftover' = (leftover \/ updater.epoch # epoch \/ acked = Absent)
    /\ updater' = [pc |-> "list", inst |-> updater.inst,
                   epoch |-> updater.epoch]
    /\ UNCHANGED <<wal, up, writer, epoch, removals, acked>>

\* The snapshot is replaced.  Nothing stops this from happening after the
\* instance was removed.
UpdateStore ==
    /\ updater.pc = "store"
    /\ snapshot' = updater.inst
    /\ leftover' = (leftover \/ updater.epoch # epoch \/ acked = Absent)
    /\ updater' = [pc |-> "list", inst |-> updater.inst,
                   epoch |-> updater.epoch]
    /\ UNCHANGED <<wal, up, cache, writer, epoch, removals, acked>>

\* Mutant of UpdateList: the file for the snapshot's own revision goes too.
ListOneTooMany ==
    /\ updater.pc = "list"
    /\ updater' = [pc |-> "prune", epoch |-> updater.epoch,
                   keys |-> {r \in DOMAIN wal : r <= Len(updater.inst)}]
    /\ UNCHANGED <<disk, up, cache, writer, history>>

\* The wal files are listed, and those that predate the snapshot picked.
UpdateList ==
    /\ updater.pc = "list"
    /\ updater' = [pc |-> "prune", epoch |-> updater.epoch,
                   keys |-> {r \in DOMAIN wal : r < Len(updater.inst)}]
    /\ UNCHANGED <<disk, up, cache, writer, history>>

\* One of them is dropped.
UpdatePrune ==
    /\ updater.pc = "prune"
    /\ \E r \in updater.keys :
        /\ wal' = [q \in DOMAIN wal \ {r} |-> wal[q]]
        /\ updater' = [pc |-> "prune", epoch |-> updater.epoch,
                       keys |-> updater.keys \ {r}]
    /\ leftover' = (leftover \/ updater.epoch # epoch)
    /\ UNCHANGED <<snapshot, up, cache, writer, epoch, removals, acked>>

UpdateFinish ==
    /\ updater.pc = "prune"
    /\ updater.keys = {}
    /\ updater' = Idle
    /\ UNCHANGED <<disk, up, cache, writer, history>>

-----------------------------------------------------------------------------
(* Crash and restart *)

Crash ==
    /\ up = "up"
    /\ up' = "down"
    /\ cache' = Absent
    /\ writer' = Idle
    /\ updater' = Idle
    /\ leftover' = (leftover \/ writer.pc = "remove")
    /\ UNCHANGED <<disk, epoch, removals, acked>>

\* warm caches the instance of every directory found.  It fails, and with it
\* the start of the server, when that instance cannot be read.
Warm ==
    /\ up = "down"
    /\ IF snapshot = Absent /\ DOMAIN wal = {}
       THEN up' = "up" /\ UNCHANGED cache
       ELSE IF CanGetLatest
            THEN up' = "up" /\ cache' = Latest
            ELSE up' = "failed" /\ UNCHANGED cache
    /\ UNCHANGED <<disk, writer, updater, history>>

-----------------------------------------------------------------------------
Init ==
    /\ snapshot = Absent
    /\ wal = [r \in {} |-> Torn]
    /\ up = "down"
    /\ cache = Absent
    /\ writer = Idle
    /\ updater = Idle
    /\ epoch = 0
    /\ removals = 0
    /\ acked = Absent
    /\ leftover = FALSE

Next ==
    \/ AddCreate
    \/ AddFinish
    \/ \E c \in Change : SendCreate(c)
    \/ SendWrite
    \/ SendFail
    \/ SendApply
    \/ RemoveStart
    \/ RemoveFile
    \/ RemoveFinish
    \/ UpdateGet
    \/ UpdateStore
    \/ UpdateList
    \/ UpdatePrune
    \/ UpdateFinish
    \/ Crash
    \/ Warm

Spec == Init /\ [][Next]_vars

-----------------------------------------------------------------------------
(* Properties *)

IsPrefixOf(s, t) == Len(s) <= Len(t) /\ \A i \in 1 .. Len(s) : s[i] = t[i]

File == Instance \cup {Absent, Torn}

WriterState ==
    {Idle} \cup [pc : {"add", "remove"}]
           \cup [pc : {"write", "apply"}, inst : Instance, change : Change]

UpdaterState ==
    {Idle} \cup [pc : {"store", "list"}, inst : Instance, epoch : Nat]
           \cup [pc : {"prune"}, keys : SUBSET Nat, epoch : Nat]

\* The variables hold what the code's types and files can hold.
TypeOK ==
    /\ snapshot \in File
    /\ DOMAIN wal \subseteq Nat
    /\ \A r \in DOMAIN wal : wal[r] \in Change \cup {Torn}
    /\ up \in {"up", "down", "failed"}
    /\ cache \in Instance \cup {Absent}
    /\ writer \in WriterState
    /\ updater \in UpdaterState
    /\ epoch \in Nat
    /\ removals \in Nat
    /\ acked \in Instance \cup {Absent}
    /\ leftover \in BOOLEAN

\* Everything a caller of send_command was told is stored can be rebuilt from
\* the snapshot and the wal files: at every instant, whatever update_snapshot
\* is doing beside the writers, and wherever a crash hits.
AckedDurable ==
    (~leftover /\ acked # Absent) =>
        /\ snapshot \in Instance
        /\ IsPrefixOf(acked, Replay(snapshot, wal))

\* The cached instance is the latest one whenever the write lock is free, so
\* get_latest has nothing to replay ("this is expected to be the case if our
\* cached instances are kept up-to-date", get_latest_no_lock).
CacheCurrent ==
    (~leftover /\ up = "up" /\ writer = Idle /\ snapshot \in Instance) =>
        /\ cache # Absent
        /\ Replay(cache, wal) = cache

\* While the server is up a reader never sees an instance go back to an
\* earlier revision, or to another history.
CacheMonotonic ==
    [][(cache # Absent /\ cache' # Absent) => IsPrefixOf(cache, cache')]_vars

\* The instance a restart would load, until remove is first called.
DiskLog ==
    IF removals > 0 THEN Removed
    ELSE IF snapshot \in {Absent, Torn} THEN Absent
    ELSE Replay(snapshot, wal)

Log == INSTANCE AppendLog WITH NoEntity <- Absent, log <- DiskLog

\* What is on disk is, at every instant, an append-only log: files may be
\* created, replaced and dropped, and the server may crash, but the instance
\* a restart would load changes only by one change set at its end, until
\* remove is first called.
DiskIsAppendOnlyLog == Log!Spec
=============================================================================
