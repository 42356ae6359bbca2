---------------------------- MODULE RrdpRetention ----------------------------
(***************************************************************************)
(* How many RRDP deltas the publication server keeps: the two truncation   *)
(* functions of RrdpServer in src/pubd/repository.rs.  Deltas are counted  *)
(* from the newest one (position 1).                                       *)
(***************************************************************************)
EXTENDS Naturals, Sequences, FiniteSetsExt

CONSTANTS
    MinNr, MaxNr   \* rrdp_delta_files_min_nr, rrdp_delta_files_max_nr

ASSUME RrdpRetentionAssumption == MinNr \in Nat /\ MaxNr \in Nat

\* How far a loop over n elements gets that breaks at the positions `stops' of
\* 0 .. n - 1.
LoopUntil(n, stops) == Min(stops \cup {n})

\* deltas_truncate_size: stop at the delta that makes the total larger than
\* the snapshot.
KeepBySize(sizes, snapshotSize) ==
    LET Total(n) == MapThenSumSet(LAMBDA i : sizes[i], 1 .. n)
    IN  LoopUntil(Len(sizes), {k \in 0 .. Len(sizes) - 1 : Total(k + 1) > snapshotSize})

\* Mutant of KeepByAge: the minimum number of deltas is not looked at.
KeepByAgeIgnoresMinimum(n, young, old) ==
    LoopUntil(n, {keep \in 0 .. n - 1 : /\ keep + 1 \notin young
                                        /\ keep = MaxNr - 1 \/ keep + 1 \in old})

\* Mutant of KeepByAge: the maximum number is kept beside the new delta.
KeepByAgeOneTooMany(n, young, old) ==
    LoopUntil(n, {keep \in 0 .. n - 1 : /\ keep >= MinNr /\ keep + 1 \notin young
                                        /\ keep = MaxNr \/ keep + 1 \in old})

\* Mutant of KeepByAge: the maximum age of the deltas is not looked at.
KeepByAgeKeepsOld(n, young, old) ==
    LoopUntil(n, {keep \in 0 .. n - 1 : /\ keep >= MinNr /\ keep + 1 \notin young
                                        /\ keep = MaxNr - 1})

\* find_deltas_truncate_age for n deltas, of which those at the positions
\* `young' are younger than rrdp_delta_files_min_seconds and those at the
\* positions `old' are older than rrdp_delta_files_max_seconds.  The delta
\* that will be added is not counted in n.
KeepByAge(n, young, old) ==
    LoopUntil(n, {keep \in 0 .. n - 1 : /\ keep >= MinNr /\ keep + 1 \notin young
                                        /\ keep = MaxNr - 1 \/ keep + 1 \in old})
=============================================================================
