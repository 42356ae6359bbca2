--------------------------- MODULE WalStoreProofs ----------------------------
(***************************************************************************)
(* Proofs about the write-ahead store, for every set of change sets and    *)
(* every bound.  The argument: while no files of a removed instance are    *)
(* left on disk, there is one history t such that the snapshot is a prefix *)
(* of t, the wal files are the change sets of t they are named after (all  *)
(* those that follow the snapshot are there, and only the one after the    *)
(* end of t may be torn), and the instance update_snapshot works with lies *)
(* between the snapshot and t.  The store implements AppendLog, because no *)
(* step but the writing of a change set makes that history longer, and     *)
(* because before remove is called update_snapshot never works for an      *)
(* instance other than the one on disk.                                    *)
(***************************************************************************)
EXTENDS WalStore, TLAPS

\* The disk holds the history t.
Holds(t) ==
    /\ snapshot \in Instance
    /\ IsPrefixOf(snapshot, t)
    /\ \A r \in Nat : (Len(snapshot) <= r /\ r < Len(t)) => r \in DOMAIN wal
    /\ \A r \in DOMAIN wal : r < Len(t) => wal[r] = t[r + 1]
    /\ \A r \in DOMAIN wal : r <= Len(t)
    /\ Len(t) \in DOMAIN wal => wal[Len(t)] = Torn

\* What the threads know of the history t.
Knows(t) ==
    /\ IsPrefixOf(acked, t)
    /\ writer.pc \in {"idle", "write", "apply"}
    /\ (up = "up" /\ writer.pc \in {"idle", "write"}) => cache = t
    /\ writer.pc = "write" => writer.inst = t /\ Len(t) \in DOMAIN wal
    /\ writer.pc = "apply" => t = Append(writer.inst, writer.change)
    /\ (updater.pc # "idle" /\ updater.epoch = epoch) =>
        /\ updater.pc = "store" => /\ IsPrefixOf(updater.inst, t)
                                   /\ Len(snapshot) <= Len(updater.inst)
        /\ updater.pc = "list" => updater.inst = snapshot
        /\ updater.pc = "prune" => \A r \in updater.keys : r < Len(snapshot)

\* There is no instance: none was added, or the latest one was removed.
NoInstance ==
    /\ acked = Absent
    /\ cache = Absent
    /\ writer.pc # "remove" => DOMAIN wal = {} /\ snapshot \in {Absent, Torn}
    /\ writer.pc \in {"idle", "add", "remove"}

\* The threads of a stopped server are gone, and update_snapshot never works
\* for an instance that is still to be added.
Threads ==
    /\ up # "up" => writer = Idle /\ updater = Idle /\ cache = Absent
    /\ updater.pc # "idle" => updater.epoch <= epoch
    /\ (updater.pc # "idle" /\ writer.pc = "add") => updater.epoch < epoch

IInv ==
    /\ TypeOK
    /\ Threads
    /\ ~leftover =>
        NoInstance \/ (acked # Absent /\ \E t \in Instance : Holds(t) /\ Knows(t))

-----------------------------------------------------------------------------
(* Replaying the wal files of a history on top of a prefix of it *)

\* Replay, from any prefix s of t on, gives back t when the readable files
\* hold the change sets of t from s on and the file after them is missing or
\* torn (the loop of get_latest_no_lock).
LEMMA ReplayGivesHistory ==
    ASSUME NEW s \in Instance, NEW t \in Instance, NEW w,
           DOMAIN w \subseteq Nat,
           IsPrefixOf(s, t),
           \A r \in Nat : (Len(s) <= r /\ r < Len(t)) => r \in Readable(w),
           \A r \in DOMAIN w : r < Len(t) => w[r] = t[r + 1],
           Len(t) \notin Readable(w)
    PROVE  /\ ReplayEnds(s, w) = {Len(t)}
           /\ Replay(s, w) = t
<1>0. /\ Len(s) \in Nat /\ Len(t) \in Nat /\ Len(s) <= Len(t)
      /\ Readable(w) \subseteq Nat
  BY DEF IsPrefixOf, Readable, Instance
<1>1. Len(t) \in {Len(s)} \cup {r + 1 : r \in Readable(w)}
  <2>1. CASE Len(t) = Len(s)
    BY <2>1
  <2>2. CASE Len(t) > Len(s)
    <3>1. Len(t) - 1 \in Readable(w)
      BY <1>0, <2>2
    <3>2. Len(t) = (Len(t) - 1) + 1
      BY <1>0
    <3> QED BY <3>1, <3>2
  <2> QED BY <1>0, <2>1, <2>2
<1>2. Len(t) \in ReplayEnds(s, w)
  BY <1>0, <1>1 DEF ReplayEnds
<1>3. ASSUME NEW n \in ReplayEnds(s, w) PROVE n = Len(t)
  <2>1. /\ n \in Nat
        /\ n >= Len(s)
        /\ n \notin Readable(w)
        /\ \A r \in Len(s) .. (n - 1) : r \in Readable(w)
    BY <1>0 DEF ReplayEnds
  <2>2. ~(n < Len(t))
    BY <1>0, <2>1
  <2>3. ~(n > Len(t))
    BY <1>0, <2>1
  <2> QED BY <1>0, <2>1, <2>2, <2>3
<1>5. ReplayEnd(s, w) = Len(t)
  BY <1>2, <1>3 DEF ReplayEnd
<1>6. ASSUME NEW i \in 1 .. Len(t)
      PROVE  (IF i <= Len(s) THEN s[i] ELSE w[i - 1]) = t[i]
  <2>1. CASE i <= Len(s)
    BY <1>0, <2>1 DEF IsPrefixOf
  <2>2. CASE i > Len(s)
    <3>1. i - 1 \in Readable(w) /\ i - 1 < Len(t) /\ (i - 1) + 1 = i
      BY <1>0, <2>2
    <3> QED BY <1>0, <2>2, <3>1 DEF Readable
  <2> QED BY <1>0, <2>1, <2>2
<1>7. t = [i \in 1 .. Len(t) |-> t[i]]
  BY DEF Instance
<1> QED BY <1>0, <1>2, <1>3, <1>5, <1>6, <1>7 DEF Replay

\* What get_latest returns is an instance.
LEMMA ReplayTyped ==
    ASSUME NEW s \in Instance, NEW w,
           DOMAIN w \subseteq Nat,
           \A r \in DOMAIN w : w[r] \in Change \cup {Torn},
           ReplayEnds(s, w) # {}
    PROVE  Replay(s, w) \in Instance
<1>1. PICK n \in ReplayEnds(s, w) : ReplayEnd(s, w) = n
  BY DEF ReplayEnd
<1>2. /\ n \in Nat
      /\ n >= Len(s)
      /\ \A r \in Len(s) .. (n - 1) : r \in Readable(w)
  BY DEF ReplayEnds, Readable, Instance
<1>3. ASSUME NEW i \in 1 .. n
      PROVE  (IF i <= Len(s) THEN s[i] ELSE w[i - 1]) \in Change
  <2>1. CASE i <= Len(s)
    BY <1>2, <2>1 DEF Instance
  <2>2. CASE i > Len(s)
    <3>1. i - 1 \in Readable(w)
      BY <1>2, <2>2 DEF Instance
    <3> QED BY <2>2, <3>1 DEF Readable, Instance
  <2> QED BY <1>2, <2>1, <2>2 DEF Instance
<1> QED BY <1>1, <1>2, <1>3 DEF Replay, Instance

\* What a thread gets from get_latest, cached or replayed, is an instance.
LEMMA LatestTyped == TypeOK /\ CanGetLatest => Latest \in Instance
<1> SUFFICES ASSUME TypeOK, CanGetLatest PROVE Latest \in Instance
  OBVIOUS
<1>1. Base \in Instance /\ ReplayEnds(Base, wal) # {}
  BY Zenon DEF TypeOK, CanGetLatest, Base, File
<1> QED BY <1>1, ReplayTyped DEF TypeOK, Latest

-----------------------------------------------------------------------------
(* Type correctness *)

\* Every operation of the store, and a crash, keeps the variables' types.
LEMMA TypeStep == TypeOK /\ [Next]_vars => TypeOK'
<1> SUFFICES ASSUME TypeOK, [Next]_vars PROVE TypeOK'
  OBVIOUS
<1> USE DEF TypeOK, File, WriterState, UpdaterState, Instance, Idle
<1>2. CASE AddCreate
  BY <1>2, WalStoreAssumption DEF AddCreate, disk, history
<1>3. CASE AddFinish
  BY <1>3, WalStoreAssumption DEF AddFinish, disk, history
<1>4. ASSUME NEW c \in Change, SendCreate(c) PROVE TypeOK'
  BY <1>4, LatestTyped, WalStoreAssumption DEF SendCreate, disk, history
<1>5. CASE SendWrite
  BY <1>5, WalStoreAssumption DEF SendWrite, disk, history
<1>6. CASE SendFail
  BY <1>6, WalStoreAssumption DEF SendFail, disk, history
<1>7. CASE SendApply
  BY <1>7, WalStoreAssumption DEF SendApply, disk, history
<1>8. CASE RemoveStart
  BY <1>8, WalStoreAssumption DEF RemoveStart, disk, history
<1>9. CASE RemoveFile
  BY <1>9, WalStoreAssumption, Zenon DEF RemoveFile, disk, history
<1>10. CASE RemoveFinish
  BY <1>10, WalStoreAssumption DEF RemoveFinish, disk, history
<1>11. CASE UpdateGet
  BY <1>11, LatestTyped, WalStoreAssumption DEF UpdateGet, disk, history
<1>12. CASE UpdateStore
  BY <1>12, WalStoreAssumption DEF UpdateStore, disk, history
<1>13. CASE UpdateList
  BY <1>13, WalStoreAssumption DEF UpdateList, disk, history
<1>14. CASE UpdatePrune
  BY <1>14, WalStoreAssumption DEF UpdatePrune, disk, history
<1>15. CASE UpdateFinish
  BY <1>15, WalStoreAssumption DEF UpdateFinish, disk, history
<1>16. CASE Crash
  BY <1>16, WalStoreAssumption DEF Crash, disk, history
<1>17. CASE Warm
  BY <1>17, LatestTyped, WalStoreAssumption DEF Warm, disk, history
<1>18. CASE UNCHANGED vars
  BY <1>18 DEF vars, history
<1> QED BY <1>2, <1>3, <1>4, <1>5, <1>6, <1>7, <1>8, <1>9,
           <1>10, <1>11, <1>12, <1>13, <1>14, <1>15, <1>16, <1>17, <1>18 DEF Next

\* The empty store is well typed.
LEMMA InitTyped == Init => TypeOK
<1> SUFFICES ASSUME Init PROVE TypeOK
  OBVIOUS
<1>1. DOMAIN wal \subseteq Nat /\ \A r \in DOMAIN wal : wal[r] \in Change \cup {Torn}
  BY DEF Init
<1>2. writer \in WriterState /\ updater \in UpdaterState
  BY DEF Init, WriterState, UpdaterState
<1> QED BY <1>1, <1>2, Zenon DEF Init, TypeOK, File

\* The store keeps to its types: what is replayed from disk is always an
\* instance.
THEOREM TypeCorrect == Spec => []TypeOK
BY InitTyped, TypeStep, PTL DEF Spec

-----------------------------------------------------------------------------
(* The inductive invariant *)

\* Replaying the disk on top of the snapshot, or of any longer prefix of the
\* history it holds, gives the history.
LEMMA HeldHistory ==
    ASSUME TypeOK, NEW t \in Instance, Holds(t),
           NEW s \in Instance, IsPrefixOf(s, t), Len(snapshot) <= Len(s)
    PROVE  ReplayEnds(s, wal) = {Len(t)} /\ Replay(s, wal) = t
<1>1. \A r \in Nat : (Len(s) <= r /\ r < Len(t)) => r \in DOMAIN wal
  BY DEF Holds, Instance
<1>2. \A r \in DOMAIN wal : r < Len(t) => wal[r] \in Change
  BY DEF Holds, TypeOK, Instance
<1>3. /\ \A r \in Nat : (Len(s) <= r /\ r < Len(t)) => r \in Readable(wal)
      /\ Len(t) \notin Readable(wal)
  BY <1>1, <1>2, WalStoreAssumption DEF Readable, Holds
<1> QED BY <1>3, ReplayGivesHistory DEF TypeOK, Holds

\* get_latest returns the history the disk holds, and then no file for its
\* revision exists.
LEMMA LatestIsHistory ==
    ASSUME TypeOK, CanGetLatest, NEW t \in Instance, Holds(t),
           cache \in {t, Absent}
    PROVE  Latest = t /\ Len(t) \notin DOMAIN wal
<1>1. Base \in Instance /\ IsPrefixOf(Base, t) /\ Len(snapshot) <= Len(Base)
  BY WalStoreAssumption DEF Base, Holds, IsPrefixOf, Instance
<1>2. ReplayEnds(Base, wal) = {Len(t)} /\ Replay(Base, wal) = t
  BY <1>1, HeldHistory
<1> QED BY <1>2 DEF Latest, CanGetLatest

\* What each thread holds between its file operations stays what the step
\* before it left: no other thread changes it.
LEMMA ThreadsStep == TypeOK /\ Threads /\ [Next]_vars => Threads'
<1> SUFFICES ASSUME TypeOK, Threads, [Next]_vars PROVE Threads'
  OBVIOUS
<1> USE DEF Threads, TypeOK, UpdaterState, WriterState, Idle, disk, history
<1>1. CASE AddCreate
  BY <1>1 DEF AddCreate
<1>2. CASE AddFinish
  BY <1>2 DEF AddFinish
<1>3. ASSUME NEW c \in Change, SendCreate(c) PROVE Threads'
  BY <1>3 DEF SendCreate
<1>4. CASE SendWrite
  BY <1>4 DEF SendWrite
<1>5. CASE SendFail
  BY <1>5 DEF SendFail
<1>6. CASE SendApply
  BY <1>6 DEF SendApply
<1>7. CASE RemoveStart
  BY <1>7 DEF RemoveStart
<1>8. CASE RemoveFile
  BY <1>8 DEF RemoveFile
<1>9. CASE RemoveFinish
  BY <1>9 DEF RemoveFinish
<1>10. CASE UpdateGet
  BY <1>10 DEF UpdateGet
<1>11. CASE UpdateStore
  BY <1>11 DEF UpdateStore
<1>12. CASE UpdateList
  BY <1>12 DEF UpdateList
<1>13. CASE UpdatePrune
  BY <1>13 DEF UpdatePrune
<1>14. CASE UpdateFinish
  BY <1>14 DEF UpdateFinish
<1>15. CASE Crash
  BY <1>15 DEF Crash
<1>16. CASE Warm
  BY <1>16 DEF Warm
<1>17. CASE UNCHANGED vars
  BY <1>17 DEF vars
<1> QED BY <1>1, <1>2, <1>3, <1>4, <1>5, <1>6, <1>7, <1>8, <1>9,
           <1>10, <1>11, <1>12, <1>13, <1>14, <1>15, <1>16, <1>17 DEF Next

\* As long as there is no instance only add changes anything: it starts the
\* empty history.
LEMMA NoInstanceStep ==
    ASSUME TypeOK, TypeOK', Threads, NoInstance, ~leftover', [Next]_vars
    PROVE  NoInstance' \/ (acked' # Absent /\ Holds(<<>>)' /\ Knows(<<>>)')
<1> DEFINE Goal == NoInstance' \/ (acked' # Absent /\ Holds(<<>>)' /\ Knows(<<>>)')
<1> USE WalStoreAssumption DEF NoInstance, disk, history, CanGetLatest, Base, Threads, TypeOK, WriterState, UpdaterState, Idle
<1>1. CASE AddCreate
  BY <1>1 DEF AddCreate
<1>2. CASE AddFinish
  <2>1. DOMAIN wal' = {} /\ <<>> \in Instance /\ Len(<<>>) = 0
    BY <1>2 DEF AddFinish, Instance
  <2>2. Holds(<<>>)'
    BY <1>2, <2>1 DEF AddFinish, Holds, IsPrefixOf
  <2>3. Knows(<<>>)'
    BY <1>2, <2>1 DEF AddFinish, Knows, IsPrefixOf, Threads, Instance
  <2> QED BY <1>2, <2>1, <2>2, <2>3 DEF AddFinish, Instance
<1>3. ASSUME NEW c \in Change, SendCreate(c) PROVE Goal
  BY <1>3 DEF SendCreate
<1>4. CASE SendWrite
  BY <1>4 DEF SendWrite
<1>5. CASE SendFail
  BY <1>5 DEF SendFail
<1>6. CASE SendApply
  BY <1>6 DEF SendApply
<1>7. CASE RemoveStart
  BY <1>7 DEF RemoveStart
<1>8. CASE RemoveFile
  BY <1>8 DEF RemoveFile
<1>9. CASE RemoveFinish
  BY <1>9 DEF RemoveFinish
<1>10. CASE UpdateGet
  BY <1>10 DEF UpdateGet
<1>11. CASE UpdateStore
  BY <1>11, Zenon DEF UpdateStore
<1>12. CASE UpdateList
  BY <1>12 DEF UpdateList
<1>13. CASE UpdatePrune
  BY <1>13 DEF UpdatePrune
<1>14. CASE UpdateFinish
  BY <1>14 DEF UpdateFinish
<1>15. CASE Crash
  BY <1>15, Zenon DEF Crash
<1>16. CASE Warm
  BY <1>16 DEF Warm
<1>17. CASE UNCHANGED vars
  BY <1>17 DEF vars
<1> QED BY <1>1, <1>2, <1>3, <1>4, <1>5, <1>6, <1>7, <1>8, <1>9,
           <1>10, <1>11, <1>12, <1>13, <1>14, <1>15, <1>16, <1>17 DEF Next

\* An instance is a prefix of itself.
LEMMA PrefixOfItself ==
    ASSUME NEW t \in Instance
    PROVE  IsPrefixOf(t, t) /\ Len(t) \in Nat
BY DEF IsPrefixOf, Instance

\* Applying one more change set keeps the change sets that there are.
LEMMA AppendKeeps ==
    ASSUME NEW t \in Instance, NEW c \in Change
    PROVE  /\ Append(t, c) \in Instance
           /\ Len(Append(t, c)) = Len(t) + 1
           /\ Append(t, c)[Len(t) + 1] = c
           /\ \A i \in 1 .. Len(t) : Append(t, c)[i] = t[i]
BY DEF Instance

\* A prefix of an instance is a prefix of what the instance becomes.
LEMMA PrefixOfLonger ==
    ASSUME NEW s \in Instance, NEW t \in Instance, NEW u \in Instance,
           IsPrefixOf(s, t), Len(u) = Len(t) + 1,
           \A i \in 1 .. Len(t) : u[i] = t[i]
    PROVE  IsPrefixOf(s, u)
<1>1. Len(s) \in Nat /\ Len(t) \in Nat
  BY DEF Instance
<1> QED BY <1>1 DEF IsPrefixOf

\* u is the history t, or t with one more change set.
Longer(u, t) == u = t \/ \E c \in Change : u = Append(t, c)

\* From an instance with history t on, every step keeps a history: t itself,
\* or t with the change set that was just written, unless the instance is
\* being removed.
LEMMA HistoryStep ==
    ASSUME TypeOK, TypeOK', Threads, ~leftover', [Next]_vars, acked # Absent,
           NEW t \in Instance, Holds(t), Knows(t)
    PROVE  \/ NoInstance'
           \/ acked' # Absent /\ \E u \in Instance : Longer(u, t) /\ Holds(u)' /\ Knows(u)'
<1> DEFINE Goal == \/ NoInstance'
                   \/ acked' # Absent /\ \E u \in Instance : Longer(u, t) /\ Holds(u)' /\ Knows(u)'
<1>t. Longer(t, t)
  BY DEF Longer
<1>0. /\ Len(t) \in Nat /\ acked \in Instance
      /\ snapshot \in Instance /\ Len(snapshot) \in Nat /\ Len(snapshot) <= Len(t)
      /\ snapshot # Absent /\ snapshot # Torn
  <2>1. acked \in Instance
    BY DEF TypeOK
  <2>2. snapshot \in Instance /\ Len(snapshot) <= Len(t)
    BY DEF Holds, IsPrefixOf
  <2>3. snapshot # Absent /\ snapshot # Torn
    BY <2>2, WalStoreAssumption DEF Instance
  <2> QED BY <2>1, <2>2, <2>3, PrefixOfItself
<1>w. /\ writer.pc \in {"write", "apply"} => writer.inst \in Instance /\ writer.change \in Change
      /\ writer.pc \notin {"add", "remove"}
  BY DEF TypeOK, WriterState, Knows, Idle
<1>u. /\ updater.pc = "store" => updater.inst \in Instance
      /\ updater.pc = "list" => updater.inst \in Instance
      /\ updater.pc = "prune" => updater.keys \subseteq Nat
      /\ DOMAIN wal \subseteq Nat
  BY DEF TypeOK, UpdaterState, Idle
<1> USE DEF disk, history, Idle
<1>1. CASE AddCreate
  BY <1>1, <1>0, <1>w DEF AddCreate
<1>2. CASE AddFinish
  BY <1>2, <1>0, <1>w DEF AddFinish
<1>3. ASSUME NEW c \in Change, SendCreate(c) PROVE Goal
  <2>0. CanGetLatest /\ cache \in {t, Absent}
    BY <1>3 DEF SendCreate, Knows
  <2>1. Latest = t /\ Len(t) \notin DOMAIN wal
    BY <2>0, LatestIsHistory
  <2>2. Holds(t)'
    BY <1>3, <1>0, <2>1 DEF SendCreate, Holds
  <2>3. Knows(t)'
    BY <1>3, <1>0, <2>1 DEF SendCreate, Knows
  <2> QED BY <1>t, <1>3, <2>2, <2>3 DEF SendCreate
<1>4. CASE SendWrite
  <2>1. /\ writer.inst = t /\ writer.change \in Change
        /\ Len(t) \in DOMAIN wal
    BY <1>4, <1>w DEF SendWrite, Knows
  <2>0. PICK u \in Instance : u = Append(t, writer.change)
    BY <2>1, AppendKeeps, Zenon
  <2>2. /\ Len(u) = Len(t) + 1 /\ u[Len(t) + 1] = writer.change
        /\ \A i \in 1 .. Len(t) : u[i] = t[i]
    BY <2>0, <2>1, AppendKeeps
  <2>3. ASSUME NEW s \in Instance, IsPrefixOf(s, t) PROVE IsPrefixOf(s, u)
    BY <2>2, <2>3, PrefixOfLonger
  <2>4. Holds(u)'
    <3>1. /\ DOMAIN wal' = DOMAIN wal
          /\ \A r \in DOMAIN wal : wal'[r] = IF r = Len(t) THEN writer.change ELSE wal[r]
          /\ snapshot' = snapshot
      BY <1>4, <2>1 DEF SendWrite
    <3>2. snapshot' \in Instance /\ IsPrefixOf(snapshot', u)
      BY <1>0, <2>3, <3>1 DEF Holds
    <3>3. \A r \in Nat : (Len(snapshot') <= r /\ r < Len(u)) => r \in DOMAIN wal'
      BY <1>0, <2>1, <2>2, <3>1 DEF Holds
    <3>4. \A r \in DOMAIN wal' : r < Len(u) => wal'[r] = u[r + 1]
      <4> SUFFICES ASSUME NEW r \in DOMAIN wal PROVE wal'[r] = u[r + 1]
        BY <3>1
      <4>1. r \in Nat /\ r <= Len(t) /\ (r < Len(t) => wal[r] = t[r + 1])
        BY <1>u DEF Holds
      <4>2. CASE r = Len(t)
        BY <2>2, <3>1, <4>2
      <4>3. CASE r < Len(t)
        BY <1>0, <2>2, <3>1, <4>1, <4>3
      <4> QED BY <1>0, <4>1, <4>2, <4>3
    <3>5. /\ \A r \in DOMAIN wal' : r <= Len(u)
          /\ Len(u) \notin DOMAIN wal'
      BY <1>0, <1>u, <2>2, <3>1 DEF Holds
    <3> QED BY <2>2, <3>2, <3>3, <3>4, <3>5 DEF Holds
  <2>5. Knows(u)'
    <3>1. IsPrefixOf(acked', u)
      BY <1>4, <1>0, <2>3 DEF SendWrite, Knows
    <3>2. /\ writer'.pc = "apply" /\ u = Append(writer'.inst, writer'.change)
          /\ updater' = updater /\ epoch' = epoch /\ snapshot' = snapshot
      BY <1>4, <2>0, <2>1 DEF SendWrite
    <3>3. ASSUME updater.pc = "store", updater.epoch = epoch
          PROVE  IsPrefixOf(updater.inst, u)
      BY <1>u, <2>3, <3>3 DEF Knows
    <3> QED BY <3>1, <3>2, <3>3 DEF Knows
  <2>6. acked' # Absent
    BY <1>4 DEF SendWrite
  <2>7. Longer(u, t)
    BY <2>0, <2>1 DEF Longer
  <2> QED BY <2>4, <2>5, <2>6, <2>7
<1>5. CASE SendFail
  <2>1. Holds(t)' /\ acked' # Absent
    BY <1>5 DEF SendFail, Holds
  <2>2. Knows(t)'
    BY <1>5 DEF SendFail, Knows
  <2> QED BY <1>t, <2>1, <2>2
<1>6. CASE SendApply
  <2>1. cache' = t /\ acked' = t
    BY <1>6 DEF SendApply, Knows
  <2>2. Holds(t)'
    BY <1>6 DEF SendApply, Holds
  <2>3. Knows(t)'
    BY <1>6, <2>1, PrefixOfItself DEF SendApply, Knows
  <2>4. acked' # Absent
    BY <2>1, WalStoreAssumption DEF Instance
  <2> QED BY <1>t, <2>2, <2>3, <2>4
<1>7. CASE RemoveStart
  BY <1>7 DEF RemoveStart, NoInstance, Knows
<1>8. CASE RemoveFile
  BY <1>8, <1>0, <1>w DEF RemoveFile
<1>9. CASE RemoveFinish
  BY <1>9, <1>0, <1>w DEF RemoveFinish
<1>10. CASE UpdateGet
  <2>1. Latest = t
    <3>1. CanGetLatest /\ cache \in {t, Absent}
      BY <1>10 DEF UpdateGet, Knows
    <3> QED BY <3>1, LatestIsHistory
  <2>2. Holds(t)'
    BY <1>10 DEF UpdateGet, Holds
  <2>3. Knows(t)'
    BY <1>10, <1>0, <2>1, PrefixOfItself DEF UpdateGet, Knows
  <2> QED BY <1>t, <1>10, <2>2, <2>3 DEF UpdateGet
<1>11. CASE UpdateStore
  <2>1. /\ updater.epoch = epoch /\ updater.inst \in Instance
        /\ IsPrefixOf(updater.inst, t) /\ Len(snapshot) <= Len(updater.inst)
    BY <1>11, <1>u, Zenon DEF UpdateStore, Knows
  <2>2. Holds(t)'
    <3>1. Len(updater.inst) \in Nat
      BY <2>1 DEF Instance
    <3>2. \A r \in Nat : (Len(updater.inst) <= r /\ r < Len(t)) => r \in DOMAIN wal
      BY <1>0, <2>1, <3>1 DEF Holds
    <3> QED BY <1>11, <2>1, <3>2 DEF UpdateStore, Holds
  <2>3. Knows(t)'
    BY <1>11, <1>0, <2>1 DEF UpdateStore, Knows
  <2> QED BY <1>t, <1>11, <2>2, <2>3 DEF UpdateStore
<1>12. CASE UpdateList
  <2>1. Holds(t)' /\ acked' # Absent
    BY <1>12 DEF UpdateList, Holds
  <2>2. updater.epoch = epoch => updater.inst = snapshot
    BY <1>12 DEF UpdateList, Knows
  <2>3. Knows(t)'
    BY <1>12, <2>2 DEF UpdateList, Knows
  <2> QED BY <1>t, <2>1, <2>3
<1>13. CASE UpdatePrune
  <2>1. /\ updater.epoch = epoch
        /\ \A r \in updater.keys : r < Len(snapshot)
    BY <1>13, Zenon DEF UpdatePrune, Knows
  <2>2. PICK r \in updater.keys :
            /\ wal' = [q \in DOMAIN wal \ {r} |-> wal[q]]
            /\ updater' = [pc |-> "prune", epoch |-> updater.epoch,
                           keys |-> updater.keys \ {r}]
    BY <1>13, Zenon DEF UpdatePrune
  <2>3. r < Len(snapshot) /\ snapshot' = snapshot /\ Len(snapshot) \in Nat
        /\ Len(snapshot) <= Len(t)
    BY <1>13, <1>0, <2>1, <2>2 DEF UpdatePrune
  <2>4. Holds(t)'
    <3>1. /\ DOMAIN wal' = DOMAIN wal \ {r}
          /\ \A q \in DOMAIN wal' : wal'[q] = wal[q]
          /\ r \in Nat
      BY <1>13, <1>u, <2>2 DEF UpdatePrune
    <3>2. \A q \in Nat : (Len(snapshot) <= q /\ q < Len(t)) => q \in DOMAIN wal'
      BY <2>3, <3>1 DEF Holds
    <3> QED BY <1>0, <2>3, <3>1, <3>2 DEF Holds
  <2>5. Knows(t)'
    <3>1. updater'.pc = "prune" /\ \A q \in updater'.keys : q < Len(snapshot')
      BY <2>1, <2>2, <2>3
    <3>2. r # Len(t) /\ DOMAIN wal' = DOMAIN wal \ {r}
      BY <1>0, <1>u, <1>13, <2>2, <2>3 DEF UpdatePrune
    <3>3. writer.pc = "write" => Len(t) \in DOMAIN wal'
      BY <3>2 DEF Knows
    <3> QED BY <1>13, <3>1, <3>3 DEF UpdatePrune, Knows
  <2> QED BY <1>t, <1>13, <2>4, <2>5 DEF UpdatePrune
<1>14. CASE UpdateFinish
  <2>1. Holds(t)' /\ acked' # Absent
    BY <1>14 DEF UpdateFinish, Holds
  <2>2. Knows(t)'
    BY <1>14 DEF UpdateFinish, Knows
  <2> QED BY <1>t, <2>1, <2>2
<1>15. CASE Crash
  <2>1. Holds(t)' /\ acked' # Absent
    BY <1>15 DEF Crash, Holds
  <2>2. Knows(t)'
    BY <1>15 DEF Crash, Knows
  <2> QED BY <1>t, <2>1, <2>2
<1>16. CASE Warm
  <2>1. CanGetLatest => Latest = t
    <3>1. cache \in {t, Absent}
      BY <1>16, Zenon DEF Warm, Threads
    <3> QED BY <3>1, LatestIsHistory
  <2>2. Holds(t)'
    BY <1>16 DEF Warm, Holds
  <2>3. Knows(t)'
    BY <1>16, <1>0, <2>1, Zenon DEF Warm, Knows, Threads
  <2> QED BY <1>t, <1>16, <2>2, <2>3 DEF Warm
<1>17. CASE UNCHANGED vars
  <2>1. Holds(t)' /\ acked' # Absent
    BY <1>17 DEF vars, Holds
  <2>2. Knows(t)'
    BY <1>17 DEF vars, Knows
  <2> QED BY <1>t, <2>1, <2>2
<1> QED BY <1>1, <1>2, <1>3, <1>4, <1>5, <1>6, <1>7, <1>8, <1>9,
           <1>10, <1>11, <1>12, <1>13, <1>14, <1>15, <1>16, <1>17 DEF Next

\* Once update_snapshot has brought a removed instance back, that is recorded
\* for good.
LEMMA LeftoverStays == TypeOK /\ [Next]_vars /\ leftover => leftover'
<1> SUFFICES ASSUME TypeOK, [Next]_vars, leftover PROVE leftover'
  OBVIOUS
<1> USE DEF disk, history
<1>1. CASE AddCreate
  BY <1>1 DEF AddCreate
<1>2. CASE AddFinish
  BY <1>2 DEF AddFinish
<1>3. ASSUME NEW c \in Change, SendCreate(c) PROVE leftover'
  BY <1>3 DEF SendCreate
<1>4. CASE SendWrite
  BY <1>4 DEF SendWrite
<1>5. CASE SendFail
  BY <1>5 DEF SendFail
<1>6. CASE SendApply
  BY <1>6 DEF SendApply
<1>7. CASE RemoveStart
  BY <1>7 DEF RemoveStart
<1>8. CASE RemoveFile
  BY <1>8 DEF RemoveFile
<1>9. CASE RemoveFinish
  BY <1>9 DEF RemoveFinish
<1>10. CASE UpdateGet
  BY <1>10 DEF UpdateGet
<1>11. CASE UpdateStore
  BY <1>11, Zenon DEF UpdateStore
<1>12. CASE UpdateList
  BY <1>12 DEF UpdateList
<1>13. CASE UpdatePrune
  BY <1>13, Zenon DEF UpdatePrune
<1>14. CASE UpdateFinish
  BY <1>14 DEF UpdateFinish
<1>15. CASE Crash
  BY <1>15, Zenon DEF Crash
<1>16. CASE Warm
  BY <1>16 DEF Warm
<1>17. CASE UNCHANGED vars
  BY <1>17 DEF vars
<1> QED BY <1>1, <1>2, <1>3, <1>4, <1>5, <1>6, <1>7, <1>8, <1>9,
           <1>10, <1>11, <1>12, <1>13, <1>14, <1>15, <1>16, <1>17 DEF Next

\* In every reachable state the files, the cache and the threads of
\* send_command, update_snapshot and remove hold parts of one history.
THEOREM InductiveInvariant == Spec => []IInv
<1>1. Init => IInv
  <2> SUFFICES ASSUME Init PROVE IInv
    OBVIOUS
  <2>1. TypeOK
    BY InitTyped
  <2>2. Threads /\ NoInstance
    BY DEF Init, Threads, NoInstance, Idle
  <2> QED BY <2>1, <2>2 DEF IInv
<1>2. IInv /\ [Next]_vars => IInv'
  <2> SUFFICES ASSUME IInv, [Next]_vars PROVE IInv'
    OBVIOUS
  <2>1. TypeOK'
    BY TypeStep DEF IInv
  <2>2. Threads'
    BY ThreadsStep DEF IInv
  <2>3. ASSUME ~leftover'
        PROVE  NoInstance' \/ (acked' # Absent /\ \E u \in Instance : Holds(u)' /\ Knows(u)')
    <3>1. ~leftover
      BY <2>3, LeftoverStays DEF IInv
    <3>2. CASE NoInstance
      <4>1. <<>> \in Instance
        BY DEF Instance
      <4>2. NoInstance' \/ (acked' # Absent /\ Holds(<<>>)' /\ Knows(<<>>)')
        BY <2>1, <2>3, <3>2, NoInstanceStep DEF IInv
      <4> QED BY <4>1, <4>2
    <3>3. ASSUME acked # Absent, NEW t \in Instance, Holds(t), Knows(t)
          PROVE  NoInstance' \/ (acked' # Absent /\ \E u \in Instance : Holds(u)' /\ Knows(u)')
      BY <2>1, <2>3, <3>3, HistoryStep DEF IInv
    <3> QED BY <3>1, <3>2, <3>3 DEF IInv
  <2> QED BY <2>1, <2>2, <2>3 DEF IInv
<1> QED BY <1>1, <1>2, PTL DEF Spec

-----------------------------------------------------------------------------
(* The properties *)

\* Whatever send_command acknowledged can be rebuilt from disk at any instant,
\* with any number of change sets, commands, snapshot updates and crashes.
THEOREM Durability == Spec => []AckedDurable
<1>1. IInv => AckedDurable
  <2> SUFFICES ASSUME IInv, ~leftover, acked # Absent
               PROVE  /\ snapshot \in Instance
                      /\ IsPrefixOf(acked, Replay(snapshot, wal))
    BY DEF AckedDurable
  <2>1. PICK t \in Instance : Holds(t) /\ Knows(t)
    BY DEF IInv, NoInstance
  <2>2. Replay(snapshot, wal) = t
    <3>1. TypeOK /\ snapshot \in Instance /\ IsPrefixOf(snapshot, t)
      BY <2>1 DEF IInv, Holds
    <3>2. Len(snapshot) <= Len(snapshot)
      BY <3>1, PrefixOfItself
    <3> QED BY <2>1, <3>1, <3>2, HeldHistory
  <2> QED BY <2>1, <2>2 DEF Holds, Knows
<1> QED BY <1>1, InductiveInvariant, PTL

\* The cache is never behind the disk while the write lock is free: a command
\* is always processed against the latest instance.
THEOREM CacheIsCurrent == Spec => []CacheCurrent
<1>1. IInv => CacheCurrent
  <2> SUFFICES ASSUME IInv, ~leftover, up = "up", writer = Idle,
                      snapshot \in Instance
               PROVE  cache # Absent /\ Replay(cache, wal) = cache
    BY DEF CacheCurrent
  <2>1. ~NoInstance
    BY WalStoreAssumption DEF NoInstance, Idle, Instance
  <2>2. PICK t \in Instance : Holds(t) /\ Knows(t)
    BY <2>1 DEF IInv
  <2>3. cache = t
    BY <2>2 DEF Knows, Idle
  <2>4. Replay(t, wal) = t
    <3>1. TypeOK /\ Len(snapshot) <= Len(t)
      BY <2>2 DEF IInv, Holds, IsPrefixOf
    <3>2. IsPrefixOf(t, t)
      BY PrefixOfItself
    <3> QED BY <2>2, <3>1, <3>2, HeldHistory
  <2> QED BY <2>3, <2>4, WalStoreAssumption DEF Instance
<1> QED BY <1>1, InductiveInvariant, PTL

-----------------------------------------------------------------------------
(* The refinement of AppendLog *)

\* Before remove is called, no files are left over and update_snapshot works
\* for the instance there is.
NoneRemoved ==
    removals = 0 =>
        /\ ~leftover
        /\ writer.pc # "remove"
        /\ updater.pc # "idle" => acked # Absent /\ updater.epoch = epoch

\* Calls of remove are counted, and only remove takes back what was
\* acknowledged.
LEMMA RemovalsGrow ==
    ASSUME TypeOK, [Next]_vars, removals' = 0
    PROVE  removals = 0 /\ (acked # Absent => acked' # Absent)
<1> USE WalStoreAssumption DEF TypeOK, disk, history, Instance
<1> DEFINE Goal == removals = 0 /\ (acked # Absent => acked' # Absent)
<1>1. CASE AddCreate
  BY <1>1 DEF AddCreate
<1>2. CASE AddFinish
  <2>1. <<>> \in Seq(Change)
    OBVIOUS
  <2> QED BY <1>2, <2>1, Zenon DEF AddFinish
<1>3. ASSUME NEW c \in Change, SendCreate(c) PROVE Goal
  BY <1>3 DEF SendCreate
<1>4. CASE SendWrite
  BY <1>4 DEF SendWrite
<1>5. CASE SendFail
  BY <1>5 DEF SendFail
<1>6. CASE SendApply
  <2>1. Append(writer.inst, writer.change) \in Instance
    BY <1>6 DEF SendApply, WriterState, Idle
  <2> QED BY <1>6, <2>1, Zenon DEF SendApply
<1>7. CASE RemoveStart
  BY <1>7 DEF RemoveStart
<1>8. CASE RemoveFile
  BY <1>8 DEF RemoveFile
<1>9. CASE RemoveFinish
  BY <1>9 DEF RemoveFinish
<1>10. CASE UpdateGet
  BY <1>10 DEF UpdateGet
<1>11. CASE UpdateStore
  BY <1>11 DEF UpdateStore
<1>12. CASE UpdateList
  BY <1>12 DEF UpdateList
<1>13. CASE UpdatePrune
  BY <1>13 DEF UpdatePrune
<1>14. CASE UpdateFinish
  BY <1>14 DEF UpdateFinish
<1>15. CASE Crash
  BY <1>15 DEF Crash
<1>16. CASE Warm
  BY <1>16 DEF Warm
<1>17. CASE UNCHANGED vars
  BY <1>17 DEF vars
<1> QED BY <1>1, <1>2, <1>3, <1>4, <1>5, <1>6, <1>7, <1>8, <1>9,
           <1>10, <1>11, <1>12, <1>13, <1>14, <1>15, <1>16, <1>17 DEF Next

\* An instance that was acknowledged is on disk, so add fails; and get_latest
\* finds only an instance that was acknowledged.
LEMMA AcknowledgedIsOnDisk ==
    ASSUME IInv, ~leftover
    PROVE  /\ acked # Absent => snapshot # Absent
           /\ (writer = Idle /\ CanGetLatest) => acked # Absent
<1>1. CASE NoInstance
  BY <1>1 DEF NoInstance, CanGetLatest, Base, Idle
<1>2. CASE acked # Absent /\ \E t \in Instance : Holds(t) /\ Knows(t)
  BY <1>2, WalStoreAssumption DEF Holds, Instance
<1> QED BY <1>1, <1>2 DEF IInv

\* Until remove is called no step leaves files of another instance behind.
LEMMA NoneRemovedStep == IInv /\ NoneRemoved /\ [Next]_vars => NoneRemoved'
<1> SUFFICES ASSUME IInv, NoneRemoved, [Next]_vars, removals' = 0
             PROVE  /\ ~leftover'
                    /\ writer'.pc # "remove"
                    /\ updater'.pc # "idle" => acked' # Absent /\ updater'.epoch = epoch'
  BY DEF NoneRemoved
<1> DEFINE Goal == /\ ~leftover'
                   /\ writer'.pc # "remove"
                   /\ updater'.pc # "idle" => acked' # Absent /\ updater'.epoch = epoch'
<1>a. TypeOK /\ removals = 0 /\ (acked # Absent => acked' # Absent)
  BY RemovalsGrow DEF IInv
<1>b. /\ ~leftover
      /\ writer.pc # "remove"
      /\ updater.pc # "idle" => acked # Absent /\ updater.epoch = epoch
  BY <1>a DEF NoneRemoved
<1>c. /\ acked # Absent => snapshot # Absent
      /\ (writer = Idle /\ CanGetLatest) => acked # Absent
  BY <1>b, AcknowledgedIsOnDisk
<1> USE <1>a, <1>b DEF disk, history, Idle
<1>1. CASE AddCreate
  BY <1>1, <1>c DEF AddCreate
<1>2. CASE AddFinish
  BY <1>2 DEF AddFinish
<1>3. ASSUME NEW c \in Change, SendCreate(c) PROVE Goal
  BY <1>3 DEF SendCreate
<1>4. CASE SendWrite
  BY <1>4 DEF SendWrite
<1>5. CASE SendFail
  BY <1>5 DEF SendFail
<1>6. CASE SendApply
  BY <1>6 DEF SendApply
<1>7. CASE RemoveStart
  BY <1>7 DEF RemoveStart, TypeOK
<1>8. CASE RemoveFile
  BY <1>8 DEF RemoveFile
<1>9. CASE RemoveFinish
  BY <1>9 DEF RemoveFinish
<1>10. CASE UpdateGet
  BY <1>10, <1>c DEF UpdateGet
<1>11. CASE UpdateStore
  BY <1>11, Zenon DEF UpdateStore
<1>12. CASE UpdateList
  BY <1>12 DEF UpdateList
<1>13. CASE UpdatePrune
  <2>1. updater.pc # "idle" /\ writer' = writer /\ acked' = acked /\ epoch' = epoch
    BY <1>13 DEF UpdatePrune
  <2>2. updater'.epoch = updater.epoch
    BY <1>13 DEF UpdatePrune
  <2>3. leftover' = FALSE
    BY <1>13, <2>1, Zenon DEF UpdatePrune
  <2> QED BY <2>1, <2>2, <2>3
<1>14. CASE UpdateFinish
  BY <1>14 DEF UpdateFinish
<1>15. CASE Crash
  BY <1>15, Zenon DEF Crash
<1>16. CASE Warm
  BY <1>16 DEF Warm
<1>17. CASE UNCHANGED vars
  BY <1>17 DEF vars
<1> QED BY <1>1, <1>2, <1>3, <1>4, <1>5, <1>6, <1>7, <1>8, <1>9,
           <1>10, <1>11, <1>12, <1>13, <1>14, <1>15, <1>16, <1>17 DEF Next

\* Before remove is called the store works for the one instance there is.
LEMMA NoneRemovedAlways == Spec => [](IInv /\ NoneRemoved)
<1>1. Init => NoneRemoved
  BY DEF Init, NoneRemoved, Idle
<1> QED BY <1>1, InductiveInvariant, NoneRemovedStep, PTL DEF Spec

-----------------------------------------------------------------------------
(* The store implements AppendLog *)

\* The log that a restart would load is the history that the disk holds.
LogIsHistory ==
    /\ removals > 0 => DiskLog = Removed
    /\ (removals = 0 /\ NoInstance) => DiskLog = Absent
    /\ \A t \in Instance : (removals = 0 /\ Holds(t)) => DiskLog = t

\* The loop of get_latest_no_lock, run at a restart, finds this history.
LEMMA RestartFindsHistory == IInv /\ NoneRemoved => LogIsHistory
<1> SUFFICES ASSUME IInv, NoneRemoved PROVE LogIsHistory
  OBVIOUS
<1>1. removals > 0 => DiskLog = Removed
  BY DEF DiskLog
<1>2. ASSUME removals = 0, NoInstance PROVE DiskLog = Absent
  BY <1>2 DEF DiskLog, NoneRemoved, NoInstance
<1>3. ASSUME NEW t \in Instance, removals = 0, Holds(t) PROVE DiskLog = t
  <2>1. TypeOK /\ snapshot \in Instance /\ IsPrefixOf(snapshot, t)
    BY <1>3 DEF IInv, Holds
  <2>2. Len(snapshot) <= Len(snapshot)
    BY <2>1, PrefixOfItself
  <2>3. Replay(snapshot, wal) = t
    BY <1>3, <2>1, <2>2, HeldHistory
  <2> QED BY <1>3, <2>1, <2>3, WalStoreAssumption DEF DiskLog, Instance
<1> QED BY <1>1, <1>2, <1>3 DEF LogIsHistory

\* Every step of the store is a step of the log, or changes nothing of it.
LEMMA StepIsLogStep ==
    ASSUME IInv, IInv', NoneRemoved, NoneRemoved', LogIsHistory, LogIsHistory',
           [Next]_vars
    PROVE  [Log!Next]_DiskLog
<1>0. removals' \in Nat
  BY DEF IInv, TypeOK
<1>1. CASE removals' > 0
  BY <1>1 DEF LogIsHistory, Log!Next, Log!Remove
<1>2. CASE removals' = 0
  <2>1. removals = 0 /\ (acked # Absent => acked' # Absent)
    BY <1>2, RemovalsGrow DEF IInv
  <2>2. ~leftover /\ ~leftover'
    BY <1>2, <2>1 DEF NoneRemoved
  <2>3. TypeOK /\ TypeOK' /\ Threads
    BY DEF IInv
  <2>4. NoInstance' => DiskLog' = Absent
    BY <1>2 DEF LogIsHistory
  <2>5. \A u \in Instance : Holds(u)' => DiskLog' = u
    BY <1>2 DEF LogIsHistory
  <2>6. CASE NoInstance
    <3>1. DiskLog = Absent
      BY <2>1, <2>6 DEF LogIsHistory
    <3>2. NoInstance' \/ Holds(<<>>)'
      BY <2>2, <2>3, <2>6, NoInstanceStep
    <3>3. <<>> \in Instance
      BY DEF Instance
    <3> QED BY <2>4, <2>5, <3>1, <3>2, <3>3 DEF Log!Next, Log!Create
  <2>7. ASSUME acked # Absent, NEW t \in Instance, Holds(t), Knows(t)
        PROVE  [Log!Next]_DiskLog
    <3>1. DiskLog = t /\ t \notin {Absent, Removed}
      BY <2>1, <2>7, WalStoreAssumption DEF LogIsHistory, Instance
    <3>2. ~NoInstance'
      BY <2>1, <2>7 DEF NoInstance
    <3>3. PICK u \in Instance : Longer(u, t) /\ Holds(u)'
      BY <2>2, <2>3, <2>7, <3>2, HistoryStep
    <3>4. DiskLog' = u
      BY <2>5, <3>3
    <3> QED BY <3>1, <3>3, <3>4 DEF Longer, Log!Next, Log!AppendChange
  <2> QED BY <2>2, <2>6, <2>7 DEF IInv
<1> QED BY <1>0, <1>1, <1>2

\* The files of the store, whatever is done with them by writers,
\* update_snapshot and crashes, are an append-only log until remove is
\* called: the store implements AppendLog.
THEOREM Implementation == Spec => DiskIsAppendOnlyLog
<1>1. Init => Log!Init
  BY DEF Init, Log!Init, DiskLog
<1>2. IInv /\ NoneRemoved /\ LogIsHistory /\ IInv' /\ NoneRemoved' /\ LogIsHistory' /\ [Next]_vars
          => [Log!Next]_DiskLog
  BY StepIsLogStep
<1> QED BY <1>1, <1>2, NoneRemovedAlways, RestartFindsHistory, PTL
    DEF Spec, DiskIsAppendOnlyLog, Log!Spec
-----------------------------------------------------------------------------
(* What readers find in the cache only grows, removed instances included *)

\* add and remove work with an empty cache, and send_command with the cached
\* instance, if there is one.
CacheOfWriter ==
    /\ (snapshot = Absent \/ writer.pc \in {"add", "remove"}) => cache = Absent
    /\ writer.pc \in {"write", "apply"} =>
        snapshot # Absent /\ cache \in {Absent, writer.inst}

\* get_latest only adds to the instance it starts from.
LEMMA ReplayExtends ==
    ASSUME NEW s \in Instance, NEW w, DOMAIN w \subseteq Nat,
           ReplayEnds(s, w) # {}
    PROVE  IsPrefixOf(s, Replay(s, w))
<1>1. PICK n \in ReplayEnds(s, w) : ReplayEnd(s, w) = n
  BY DEF ReplayEnd
<1>2. n \in Nat /\ n >= Len(s) /\ Len(s) \in Nat
  BY DEF ReplayEnds, Readable, Instance
<1>3. Replay(s, w) = [i \in 1 .. n |-> IF i <= Len(s) THEN s[i] ELSE w[i - 1]]
  BY <1>1 DEF Replay
<1>4. Len(Replay(s, w)) = n
  BY <1>2, <1>3
<1>5. \A i \in 1 .. Len(s) : Replay(s, w)[i] = s[i]
  BY <1>2, <1>3
<1> QED BY <1>2, <1>4, <1>5 DEF IsPrefixOf

\* What get_latest puts in the cache extends what is there.
LEMMA LatestExtends ==
    ASSUME TypeOK, CanGetLatest, cache # Absent
    PROVE  Base = cache /\ IsPrefixOf(cache, Latest)
<1>1. cache \in Instance /\ Base = cache /\ ReplayEnds(cache, wal) # {}
  BY DEF TypeOK, CanGetLatest, Base
<1>2. IsPrefixOf(cache, Replay(cache, wal))
  BY <1>1, ReplayExtends, Zenon DEF TypeOK
<1> QED BY <1>1, <1>2 DEF Latest

\* The writers keep to this, beside update_snapshot and across restarts.
LEMMA CacheOfWriterStep ==
    TypeOK /\ Threads /\ CacheOfWriter /\ [Next]_vars => CacheOfWriter'
<1> SUFFICES ASSUME TypeOK, Threads, CacheOfWriter, [Next]_vars PROVE CacheOfWriter'
  OBVIOUS
<1>a. CanGetLatest => snapshot # Absent /\ (cache # Absent => Base = cache)
  BY DEF CanGetLatest, Base, CacheOfWriter
<1>b. Absent # Torn /\ Absent \notin Instance
  BY WalStoreAssumption DEF Instance
<1> USE <1>a, <1>b DEF CacheOfWriter, disk, history, Idle
<1>1. CASE AddCreate
  BY <1>1 DEF AddCreate
<1>2. CASE AddFinish
  <2>1. <<>> \in Instance
    BY DEF Instance
  <2> QED BY <1>2, <2>1 DEF AddFinish
<1>3. ASSUME NEW c \in Change, SendCreate(c) PROVE CacheOfWriter'
  BY <1>3 DEF SendCreate
<1>4. CASE SendWrite
  BY <1>4 DEF SendWrite
<1>5. CASE SendFail
  BY <1>5 DEF SendFail
<1>6. CASE SendApply
  BY <1>6 DEF SendApply
<1>7. CASE RemoveStart
  BY <1>7 DEF RemoveStart
<1>8. CASE RemoveFile
  BY <1>8 DEF RemoveFile
<1>9. CASE RemoveFinish
  BY <1>9 DEF RemoveFinish
<1>10. CASE UpdateGet
  BY <1>10 DEF UpdateGet
<1>11. CASE UpdateStore
  <2>1. updater.inst \in Instance
    BY <1>11 DEF UpdateStore, TypeOK, UpdaterState
  <2> QED BY <1>11, <2>1 DEF UpdateStore
<1>12. CASE UpdateList
  BY <1>12 DEF UpdateList
<1>13. CASE UpdatePrune
  BY <1>13 DEF UpdatePrune
<1>14. CASE UpdateFinish
  BY <1>14 DEF UpdateFinish
<1>15. CASE Crash
  BY <1>15 DEF Crash
<1>16. CASE Warm
  BY <1>16 DEF Warm, Threads
<1>17. CASE UNCHANGED vars
  BY <1>17 DEF vars
<1> QED BY <1>1, <1>2, <1>3, <1>4, <1>5, <1>6, <1>7, <1>8, <1>9,
           <1>10, <1>11, <1>12, <1>13, <1>14, <1>15, <1>16, <1>17 DEF Next

\* A step that leaves an instance in the cache leaves the one that was there,
\* or a longer one.
LEMMA CacheStep ==
    ASSUME TypeOK, Threads, CacheOfWriter, [Next]_vars,
           cache # Absent, cache' # Absent
    PROVE  IsPrefixOf(cache, cache')
<1>a. IsPrefixOf(cache, cache) /\ cache \in Instance
  BY PrefixOfItself DEF TypeOK
<1>b. CanGetLatest => Base = cache /\ IsPrefixOf(cache, Latest)
  BY LatestExtends
<1> USE <1>a DEF disk, history
<1>1. CASE AddCreate
  BY <1>1 DEF AddCreate
<1>2. CASE AddFinish
  BY <1>2 DEF AddFinish, CacheOfWriter
<1>3. ASSUME NEW c \in Change, SendCreate(c) PROVE IsPrefixOf(cache, cache')
  BY <1>3, <1>b DEF SendCreate
<1>4. CASE SendWrite
  BY <1>4 DEF SendWrite
<1>5. CASE SendFail
  BY <1>5 DEF SendFail
<1>6. CASE SendApply
  <2>1. cache = writer.inst /\ writer.change \in Change
    BY <1>6 DEF SendApply, CacheOfWriter, TypeOK, WriterState, Idle
  <2>2. cache' = Append(cache, writer.change)
    BY <1>6, <2>1 DEF SendApply
  <2>3. /\ Append(cache, writer.change) \in Instance
        /\ Len(Append(cache, writer.change)) = Len(cache) + 1
        /\ \A i \in 1 .. Len(cache) : Append(cache, writer.change)[i] = cache[i]
    BY <2>1, AppendKeeps
  <2>4. IsPrefixOf(cache, Append(cache, writer.change))
    BY <2>3, PrefixOfLonger, Zenon
  <2> QED BY <2>2, <2>4
<1>7. CASE RemoveStart
  BY <1>7 DEF RemoveStart
<1>8. CASE RemoveFile
  BY <1>8 DEF RemoveFile
<1>9. CASE RemoveFinish
  BY <1>9 DEF RemoveFinish
<1>10. CASE UpdateGet
  BY <1>10, <1>b DEF UpdateGet
<1>11. CASE UpdateStore
  BY <1>11 DEF UpdateStore
<1>12. CASE UpdateList
  BY <1>12 DEF UpdateList
<1>13. CASE UpdatePrune
  BY <1>13 DEF UpdatePrune
<1>14. CASE UpdateFinish
  BY <1>14 DEF UpdateFinish
<1>15. CASE Crash
  BY <1>15 DEF Crash
<1>16. CASE Warm
  BY <1>16 DEF Warm, Threads
<1>17. CASE UNCHANGED vars
  BY <1>17 DEF vars
<1> QED BY <1>1, <1>2, <1>3, <1>4, <1>5, <1>6, <1>7, <1>8, <1>9,
           <1>10, <1>11, <1>12, <1>13, <1>14, <1>15, <1>16, <1>17 DEF Next

\* A reader never sees an instance go back to an earlier revision or another
\* history, not even after remove, add or an update_snapshot that was late.
THEOREM CacheGrows == Spec => CacheMonotonic
<1>1. Init => CacheOfWriter
  BY DEF Init, CacheOfWriter, Idle
<1>2. TypeOK /\ Threads /\ CacheOfWriter /\ [Next]_vars
          => [(cache # Absent /\ cache' # Absent) => IsPrefixOf(cache, cache')]_vars
  BY CacheStep
<1>3. IInv => TypeOK /\ Threads
  BY DEF IInv
<1> QED BY <1>1, <1>2, <1>3, InductiveInvariant, CacheOfWriterStep, PTL
    DEF Spec, CacheMonotonic
=============================================================================
