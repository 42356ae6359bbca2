------------------------------ MODULE AppendLog ------------------------------
(***************************************************************************)
(* What a write-ahead store promises its callers for one handle: an entity *)
(* that is created once, and from then on only ever grows by one change    *)
(* set at a time, until its removal is asked for; of what follows on that  *)
(* nothing is said, nor about files, snapshots, caches, locks or crashes.  *)
(***************************************************************************)
EXTENDS Naturals, Sequences

CONSTANTS Change,   \* the change sets commands result in
          NoEntity, \* the value of the log while the handle is unknown
          Removed   \* the value of the log from its removal on

VARIABLE log

Init == log = NoEntity

Create ==
    /\ log = NoEntity
    /\ log' = <<>>

AppendChange(c) ==
    /\ log \notin {NoEntity, Removed}
    /\ log' = Append(log, c)

Remove == log' = Removed

Next ==
    \/ Create
    \/ \E c \in Change : AppendChange(c)
    \/ Remove

Spec == Init /\ [][Next]_log
=============================================================================
