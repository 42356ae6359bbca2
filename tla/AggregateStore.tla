--------------------------- MODULE AggregateStore ---------------------------
(***************************************************************************)
(* The event-sourced store of CAs and of the repository access:            *)
(* AggregateStore in src/commons/eventsourcing/store.rs, for one handle,   *)
(* over the files of src/commons/eventsourcing/kv.rs.                      *)
(*                                                                         *)
(* An aggregate is the sequence of the events that were applied to it.     *)
(* An event is named after the command that it came from; command 0 stands *)
(* for the init event.  The version of an aggregate is the number of its   *)
(* events, and the event with version v (file delta-v) is the one that is  *)
(* applied to version v.                                                   *)
(*                                                                         *)
(* `store_new' creates a file and then writes it: a crash in between       *)
(* leaves a file that cannot be parsed.  `store' and moving a file are     *)
(* atomic.  A command, and starting up, are done by one process at a time: *)
(* a command holds the write lock of its handle.                           *)
(***************************************************************************)
EXTENDS Integers, Sequences, SequencesExt, FiniteSets, FiniteSetsExt

CONSTANTS
    MaxCommands,    \* bound on the commands that are sent
    MaxEvents,      \* bound on the events of a command
    MaxCrashes,     \* bound on the crashes
    Absent, Torn    \* no file, and a file that cannot be parsed

ASSUME AggregateStoreAssumption ==
    /\ MaxCommands \in Nat /\ MaxEvents \in Nat /\ MaxCrashes \in Nat
    /\ Torn \notin 0 .. MaxCommands

VARIABLES
    commands,   \* the command files
    events,     \* the event files, by version
    snapshot, backup,  \* snapshot.json and snapshot-bk.json
    info,       \* info.json
    cache,      \* the aggregate in memory
    proc,       \* what the process is doing
    alwaysRecover,  \* the setting always_recover_data
    crashes,
    sent,       \* the number of events of each command that was sent
    acked,      \* history: the aggregate when a command last succeeded
    strayed     \* history: what has happened that exempts from a property

files == <<commands, events, snapshot, backup, info>>
history == <<crashes, sent, acked, strayed, alwaysRecover>>
vars == <<files, cache, proc, history>>

MaxVersion == 1 + MaxCommands * MaxEvents
None == MaxVersion      \* no limit on the events to replay

Down == [pc |-> "down"]
Up == [pc |-> "up"]
Exists == commands # {} \/ DOMAIN events # {} \/ snapshot # Absent
              \/ backup # Absent \/ info # Absent

-----------------------------------------------------------------------------
(* Reading *)

Without(f, v) == [w \in DOMAIN f \ {v} |-> f[w]]
Readable(v) == v \in DOMAIN events /\ events[v] # Torn

\* update_aggregate: apply the events that follow, up to the limit.
ReplayStop(agg, limit) ==
    Min({v \in Len(agg) .. MaxVersion : ~Readable(v) \/ v > limit})

Replayed(agg, limit) ==
    agg \o [i \in 1 .. ReplayStop(agg, limit) - Len(agg) |-> events[Len(agg) + i - 1]]

\* The version of the event that replaying fails on, if any: get_event moves
\* a file that it cannot parse away.
Failing(agg, limit) ==
    {v \in DOMAIN events : v = ReplayStop(agg, limit) /\ v <= limit}

\* get_aggregate without the backup and the init event to fall back on.
BaseSnapshotOnly(limit) ==
    IF snapshot # Absent /\ limit >= Len(snapshot) - 1 THEN snapshot ELSE Absent

\* get_aggregate: the snapshot, or else the backup, or else the init event.
Fits(agg, limit) == agg # Absent /\ limit >= Len(agg) - 1
Base(limit) ==
    IF Fits(snapshot, limit) THEN snapshot
    ELSE IF Fits(backup, limit) THEN backup
    ELSE IF Readable(0) THEN <<events[0]>>
    ELSE Absent

\* There is no snapshot to begin with, and an event of a command that has
\* succeeded is not among the files.
LostTrack(limit) ==
    IF Base(limit) \notin {snapshot, backup} /\ \E v \in 0 .. Len(acked) - 1 : ~Readable(v)
    THEN {"gap"} ELSE {}

-----------------------------------------------------------------------------
(* Writing the snapshot: store_snapshot.  The snapshot is first written to *)
(* a file of its own.                                                      *)

Storing(agg, then) == [pc |-> "drop", agg |-> agg, then |-> then]

SnapshotDropBackup ==
    /\ proc.pc = "drop"
    /\ backup' = Absent
    /\ proc' = [proc EXCEPT !.pc = "backup"]
    /\ UNCHANGED <<commands, events, snapshot, info, cache, history>>

SnapshotToBackup ==
    /\ proc.pc = "backup"
    /\ backup' = IF snapshot = Absent THEN backup ELSE snapshot
    /\ snapshot' = Absent
    /\ proc' = [proc EXCEPT !.pc = "move"]
    /\ UNCHANGED <<commands, events, info, cache, history>>

SnapshotMove ==
    /\ proc.pc = "move"
    /\ snapshot' = proc.agg
    /\ proc' = proc.then
    /\ UNCHANGED <<commands, events, backup, info, cache, history>>

-----------------------------------------------------------------------------
(* Adding the aggregate: add *)

AddCreate ==
    /\ proc = Up
    /\ ~Exists
    /\ events' = [v \in {0} |-> Torn]
    /\ proc' = [pc |-> "add"]
    /\ UNCHANGED <<commands, snapshot, backup, info, cache, history>>

NewInfo == [event |-> 0, command |-> 0, snapshot |-> 0]

AddWrite ==
    /\ proc.pc = "add"
    /\ events' = [v \in {0} |-> 0]
    /\ proc' = Storing(<<0>>, [pc |-> "save", ack |-> TRUE, agg |-> <<0>>, info |-> NewInfo])
    /\ UNCHANGED <<commands, snapshot, backup, info, cache, history>>

-----------------------------------------------------------------------------
(* Sending a command: command *)

\* get_info and get_latest_no_lock: the cached aggregate with the events that
\* have appeared since.  A command that gives no events changes nothing; one
\* that gives an error (n = 0) is saved.  The command file is created.  (An
\* event file that cannot be parsed does not outlive a start, so that there
\* is none to fail on.)
CommandCreate(n) ==
    /\ proc = Up /\ cache # Absent /\ info # Absent
    /\ Len(sent) < MaxCommands
    /\ Failing(cache, None) = {}
    /\ LET agg == Replayed(cache, None)
           id  == Len(sent) + 1
           cmd == [seq |-> info.command + 1, id |-> id, first |-> Len(agg), n |-> n, torn |-> TRUE]
       IN  /\ sent' = Append(sent, n)
           /\ commands' = commands \cup {cmd}
           /\ proc' = [pc |-> "command", agg |-> agg, cmd |-> cmd]
    /\ UNCHANGED <<events, snapshot, backup, info, cache, crashes, acked, strayed, alwaysRecover>>

\* The command file is written.  After an error the info is saved.
CommandWrite ==
    /\ proc.pc = "command"
    /\ LET cmd     == proc.cmd
           written == [cmd EXCEPT !.torn = FALSE]
       IN  /\ commands' = (commands \ {cmd}) \cup {written}
           /\ proc' = IF cmd.n = 0
                      THEN [pc |-> "save", ack |-> FALSE, agg |-> cache,
                            info |-> [info EXCEPT !.command = cmd.seq]]
                      ELSE [pc |-> "listen", agg |-> proc.agg, cmd |-> written]
    /\ UNCHANGED <<events, snapshot, backup, info, cache, history>>

\* The pre-save listeners get the events.
ListenersAgree ==
    /\ proc.pc = "listen"
    /\ proc' = [proc EXCEPT !.pc = "events"]
    /\ UNCHANGED <<files, cache, history>>

\* A pre-save listener returns an error: the command file stays behind.
ListenerFails ==
    /\ proc.pc = "listen"
    /\ proc' = Up
    /\ UNCHANGED <<files, cache, history>>

Stored(cmd, agg) == Len(agg) - cmd.first

\* store_event for the next event: creates the file, unless there is one.
EventCreate ==
    /\ proc.pc = "events"
    /\ Stored(proc.cmd, proc.agg) < proc.cmd.n
    /\ LET v == Len(proc.agg)
       IN  IF v \in DOMAIN events
           THEN proc' = Up /\ UNCHANGED events
           ELSE /\ events' = [w \in DOMAIN events \cup {v} |-> IF w = v THEN Torn ELSE events[w]]
                /\ proc' = [proc EXCEPT !.pc = "event"]
    /\ UNCHANGED <<commands, snapshot, backup, info, cache, history>>

EventWrite ==
    /\ proc.pc = "event"
    /\ events' = [events EXCEPT ![Len(proc.agg)] = proc.cmd.id]
    /\ proc' = [proc EXCEPT !.pc = "events", !.agg = Append(@, proc.cmd.id)]
    /\ UNCHANGED <<commands, snapshot, backup, info, cache, history>>

\* All events are stored: the snapshot is next, then the info.
CommandSnapshot ==
    /\ proc.pc = "events"
    /\ Stored(proc.cmd, proc.agg) = proc.cmd.n
    /\ proc' = Storing(proc.agg,
                       [pc |-> "save", ack |-> TRUE, agg |-> proc.agg,
                        info |-> [event |-> Len(proc.agg) - 1, command |-> proc.cmd.seq,
                                  snapshot |-> Len(proc.agg)]])
    /\ UNCHANGED <<files, cache, history>>

\* The cache is updated, the info saved, and the command has succeeded.  Also
\* the end of `add', of a command that gave an error, and of `recover'.
SaveInfo ==
    /\ proc.pc = "save"
    /\ cache' = proc.agg
    /\ info' = proc.info
    /\ acked' = IF proc.ack THEN proc.agg ELSE acked
    /\ proc' = Up
    /\ UNCHANGED <<commands, events, snapshot, backup, crashes, sent, strayed, alwaysRecover>>

-----------------------------------------------------------------------------
(* Starting up: CaManager::build, RepositoryAccessProxy::disk *)

\* Krill is started again when it has stopped.  It warms the cache or
\* recovers, as configured.
Start ==
    /\ proc = Down
    /\ proc' = [pc |-> IF ~Exists THEN "up" ELSE IF alwaysRecover THEN "recover" ELSE "warm"]
    /\ UNCHANGED <<files, cache, history>>

\* The files that archive_surplus_events and warm_aggregate move away.
SurplusEvents == IF info.event + 1 \in DOMAIN events
                 THEN {v \in DOMAIN events : v > info.event} ELSE {}
SurplusCommands == {c \in commands : c.seq > info.command}

\* warm_aggregate up to the first file that is moved as surplus.
WarmLoad ==
    /\ proc.pc = "warm"
    /\ LET base   == Base(None)
           failed == IF base = Absent THEN {} ELSE Failing(base, None)
           loaded == base # Absent /\ failed = {}
           next   == IF loaded /\ info # Absent
                     THEN {v \in DOMAIN events : v = info.event + 1 /\ events[v] = Torn}
                     ELSE {}
       IN  /\ events' = [v \in DOMAIN events \ (failed \cup next) |-> events[v]]
           /\ cache' = IF loaded THEN Replayed(base, None) ELSE cache
           /\ proc' = IF ~loaded \/ info = Absent \/ next # {} THEN [pc |-> "recover"]
                      ELSE [pc |-> "archive", events |-> SurplusEvents,
                            commands |-> SurplusCommands,
                            then |-> IF info.snapshot = Len(cache') THEN Up
                                     ELSE Storing(cache', Up)]
           /\ strayed' = strayed \cup LostTrack(None)
    /\ UNCHANGED <<commands, snapshot, backup, info, crashes, sent, acked, alwaysRecover>>

\* Only the first surplus event is moved away.
ArchiveFirstEvent ==
    /\ proc.pc = "archive"
    /\ proc.commands = {} \/ proc.then.pc # "load"
    /\ proc.events # {}
    /\ events' = Without(events, Min(proc.events))
    /\ proc' = [proc EXCEPT !.events = {}]
    /\ UNCHANGED <<commands, snapshot, backup, info, cache, history>>

\* archive_surplus_events: the files in the order of the directory.
ArchiveEvent ==
    /\ proc.pc = "archive"
    /\ proc.commands = {} \/ proc.then.pc # "load"
    /\ \E v \in proc.events :
          /\ events' = Without(events, v)
          /\ proc' = [proc EXCEPT !.events = @ \ {v}]
    /\ UNCHANGED <<commands, snapshot, backup, info, cache, history>>

\* archive_surplus_command, after the events when warming, before them when
\* recovering.
ArchiveCommand ==
    /\ proc.pc = "archive"
    /\ proc.events = {} \/ proc.then.pc = "load"
    /\ \E c \in proc.commands :
          /\ \A d \in proc.commands : c.seq <= d.seq
          /\ commands' = commands \ {c}
          /\ proc' = [proc EXCEPT !.commands = @ \ {c}]
    /\ UNCHANGED <<events, snapshot, backup, info, cache, history>>

ArchiveDone ==
    /\ proc.pc = "archive"
    /\ proc.events = {} /\ proc.commands = {}
    /\ proc' = proc.then
    /\ UNCHANGED <<files, cache, history>>

-----------------------------------------------------------------------------
(* recover *)

\* The last event of a command is not looked at.
EventsButLast(c) == c.first .. c.first + c.n - 2

EventsOf(c) == c.first .. c.first + c.n - 1

\* The orders in which the commands may be gone through: by sequence number.
CommandOrders ==
    {q \in SetToSeqs(commands) : \A i, j \in DOMAIN q : i < j => q[i].seq <= q[j].seq}

\* The commands are checked in order.  The first bad one, and all after it,
\* are archived.  An event that cannot be parsed is moved away; so is such a
\* command, and then it is not there to be archived, and recovery fails.
RecoverScan ==
    /\ proc.pc = "recover"
    /\ \E q \in CommandOrders :
         LET Bad(i)  == q[i].torn \/ \E v \in EventsOf(q[i]) : ~Readable(v)
             bad     == Min({i \in DOMAIN q : Bad(i)} \cup {Len(q) + 1})
             checked == IF bad <= Len(q) /\ ~q[bad].torn THEN bad ELSE bad - 1
             seen    == UNION {EventsOf(q[i]) : i \in 1 .. checked}
             lastGood(i) == Max({v \in EventsOf(q[i]) : Readable(v)})
             withGood == {i \in 1 .. checked : \E v \in EventsOf(q[i]) : Readable(v)}
             goodEvent == IF withGood = {} THEN 0 ELSE lastGood(Max(withGood))
             kept    == {v \in DOMAIN events : v \notin seen \/ Readable(v)}
         IN  /\ events' = [v \in kept |-> events[v]]
             /\ IF bad <= Len(q) /\ q[bad].torn
                THEN /\ commands' = commands \ {q[bad]}
                     /\ proc' = Down
                ELSE /\ proc' = [pc |-> "archive",
                                 events |-> {v \in kept : v > goodEvent},
                                 commands |-> {q[i] : i \in bad .. Len(q)},
                                 then |-> [pc |-> "load", event |-> goodEvent,
                                           command |-> IF checked = 0 THEN 0 ELSE q[checked].seq]]
                     /\ UNCHANGED commands
    /\ strayed' = IF \E c, d \in commands : c # d /\ c.seq = d.seq
                  THEN strayed \cup {"misled"} ELSE strayed
    /\ UNCHANGED <<snapshot, backup, info, cache, crashes, sent, acked, alwaysRecover>>

\* The last good event is not passed on to get_aggregate.
RecoverLoadUnlimited ==
    /\ proc.pc = "load"
    /\ LET agg == Replayed(Base(None), None)
       IN  proc' = IF Base(None) = Absent THEN Down
                   ELSE Storing(agg, [pc |-> "save", ack |-> FALSE, agg |-> agg,
                                      info |-> [event |-> proc.event, command |-> proc.command,
                                                snapshot |-> Len(agg)]])
    /\ UNCHANGED <<files, cache, history>>

\* get_aggregate up to the last good event, then store_snapshot, cache_update
\* and save_info.
RecoverLoad ==
    /\ proc.pc = "load"
    /\ LET limit  == proc.event
           base   == Base(limit)
           failed == IF base = Absent THEN {} ELSE Failing(base, limit)
           agg    == Replayed(base, limit)
       IN  /\ snapshot' = IF Fits(snapshot, limit) THEN snapshot ELSE Absent
           /\ backup' = IF Fits(snapshot, limit) \/ Fits(backup, limit) THEN backup ELSE Absent
           /\ events' = [v \in DOMAIN events \ failed |-> events[v]]
           /\ proc' = IF base = Absent \/ failed # {} THEN Down
                      ELSE Storing(agg, [pc |-> "save", ack |-> FALSE, agg |-> agg,
                                         info |-> [event |-> limit, command |-> proc.command,
                                                   snapshot |-> Len(agg)]])
           /\ strayed' = strayed \cup LostTrack(limit)
    /\ UNCHANGED <<commands, info, cache, crashes, sent, acked, alwaysRecover>>

-----------------------------------------------------------------------------
Crash ==
    /\ proc # Down
    /\ crashes < MaxCrashes
    /\ crashes' = crashes + 1
    /\ proc' = Down
    /\ cache' = Absent
    /\ UNCHANGED <<files, sent, acked, strayed, alwaysRecover>>

\* Before or after the aggregate was added.
Init ==
    /\ commands = {} /\ backup = Absent
    /\ \/ events = << >> /\ snapshot = Absent /\ info = Absent /\ acked = << >>
       \/ events = [v \in {0} |-> 0] /\ snapshot = <<0>> /\ info = NewInfo /\ acked = <<0>>
    /\ cache = snapshot
    /\ proc = Up
    /\ alwaysRecover \in BOOLEAN
    /\ crashes = 0
    /\ sent = << >>
    /\ strayed = {}

\* The steps of the process once it has something to do.
Proceed ==
    \/ AddWrite \/ CommandWrite \/ ListenersAgree \/ ListenerFails
    \/ EventCreate \/ EventWrite \/ CommandSnapshot
    \/ SnapshotDropBackup \/ SnapshotToBackup \/ SnapshotMove \/ SaveInfo
    \/ WarmLoad \/ ArchiveEvent \/ ArchiveCommand \/ ArchiveDone
    \/ RecoverScan \/ RecoverLoad

Next ==
    \/ AddCreate
    \/ \E n \in 0 .. MaxEvents : CommandCreate(n)
    \/ Proceed
    \/ Start
    \/ Crash

Spec == Init /\ [][Next]_vars

\* A running process goes on, and an operator starts one that has stopped.
FairSpec == Spec /\ WF_vars(Proceed) /\ WF_vars(Start)

-----------------------------------------------------------------------------
(* Properties *)

Version == 0 .. MaxVersion
IsAggregate(a) == a \in Seq(0 .. MaxCommands) /\ Len(a) \in 1 .. MaxVersion

\* Every variable has its type.
TypeOK ==
    /\ \A c \in commands : /\ c.seq \in 1 .. MaxCommands /\ c.id \in DOMAIN sent
                           /\ c.n = sent[c.id] /\ c.torn \in BOOLEAN
    /\ DOMAIN events \subseteq Version
    /\ \A v \in DOMAIN events : events[v] \in {Torn} \cup 0 .. MaxCommands
    /\ \A a \in {snapshot, backup, cache} : a # Absent => IsAggregate(a)
    /\ info # Absent => info.event \in Version /\ info.command \in 0 .. MaxCommands
    /\ sent \in Seq(0 .. MaxEvents)
    /\ alwaysRecover \in BOOLEAN /\ strayed \subseteq {"misled", "gap"}

\* A command that has succeeded is not lost: whenever Krill is up again after
\* any number of crashes, the aggregate still begins with what it was when
\* the last command succeeded, all of it.  Two cases are exempt.  Recovery is
\* misled by the command file of a command that a listener refused, whose
\* sequence number is used again.  And a start that finds no snapshot gets no
\* further than the first event file that an earlier start has archived.
AckedDurable ==
    /\ proc = Up /\ cache # Absent
    /\ strayed = {}
    => IsPrefix(acked, cache)

\* The event files lead to the aggregate: an aggregate whose snapshots are
\* lost is rebuilt from the init event as it was.  It takes recovery at every
\* start: warming takes in the events beyond those of info.json, and archives
\* them nevertheless.
EventsLeadToState ==
    proc = Up /\ cache # Absent /\ alwaysRecover
        => Readable(0) /\ Replayed(<<events[0]>>, None) = cache

\* No event files beyond the aggregate: the next command finds the aggregate
\* in the state that the last one left it in, and can store its events.
NothingBeyondState ==
    proc = Up /\ cache # Absent /\ alwaysRecover
        => \A v \in DOMAIN events : v < Len(cache)

\* Krill comes up again after a crash, if it is restarted often enough, unless
\* the crash was while the init event was written.
ComesUp ==
    LET tornInit == 0 \in DOMAIN events /\ events[0] = Torn
    IN  []<>(proc = Up \/ tornInit)
=============================================================================
