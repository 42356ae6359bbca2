----------------------------- MODULE RrdpDeltas -----------------------------
(***************************************************************************)
(* The list of RRDP deltas of RrdpServer (src/pubd/repository.rs) as time  *)
(* passes: only their ages, newest first.  Truncation by size is left to   *)
(* PublicationServer: here the snapshot is larger than all deltas.         *)
(***************************************************************************)
EXTENDS RrdpRetention

CONSTANTS
    MinSecs, MaxSecs,  \* rrdp_delta_files_min_seconds, .._max_seconds
    MaxAge,            \* bound: older than this is the same as this old
    MaxDeltas          \* bound on the number of deltas

ASSUME RrdpDeltasAssumption ==
    /\ MinSecs \in Nat /\ MaxSecs \in Nat
    /\ MaxAge \in Nat /\ MaxSecs < MaxAge
    /\ MaxDeltas \in Nat

VARIABLES
    ages,    \* the ages of the deltas, newest first
    burst    \* history: did rrdp_delta_files_max_nr or more young deltas,
             \* beside the new one, ever exist at an update?

deltasVars == <<ages, burst>>

\* DeltaData::younger_than_seconds and older_than_seconds: the deltas for which
\* they hold.
Young == {i \in DOMAIN ages : ages[i] < MinSecs}
Old == {i \in DOMAIN ages : ages[i] > MaxSecs}

Protected(i) == i <= MinNr \/ i \in Young

\* RrdpServer::update_rrdp and apply_rrdp_updated.  As the ages grow from the
\* newest delta to the oldest, there are rrdp_delta_files_max_nr young deltas
\* when the one in that position is young.
AddDelta ==
    /\ Len(ages) < MaxDeltas
    /\ ages' = <<0>> \o SubSeq(ages, 1, KeepByAge(Len(ages), Young, Old))
    /\ burst' = (burst \/ MaxNr \in Young)

\* Time passes.
Tick ==
    /\ ages # << >>
    /\ ages' = [i \in DOMAIN ages |-> IF ages[i] < MaxAge THEN ages[i] + 1 ELSE MaxAge]
    /\ UNCHANGED burst

DeltasInit == ages = << >> /\ burst = FALSE

DeltasNext == AddDelta \/ Tick

DeltasSpec == DeltasInit /\ [][DeltasNext]_deltasVars

-----------------------------------------------------------------------------
\* The ages grow from the newest delta to the oldest: what lets the loop of
\* find_deltas_truncate_age stop at the first delta that it need not keep.
DeltasTypeOK ==
    /\ ages \in Seq(0 .. MaxAge)
    /\ \A i, j \in DOMAIN ages : i < j => ages[i] <= ages[j]
    /\ burst \in BOOLEAN

\* "always keep 'rrdp_delta_files_min_nr' files, always keep
\* 'rrdp_delta_files_min_seconds' files": no step drops one of these.
ProtectedKept ==
    [][AddDelta => \A i \in DOMAIN ages : Protected(i) => i + 1 \in DOMAIN ages']_deltasVars

\* "never keep older than 'rrdp_delta_files_max_seconds'" beyond the minimum
\* number: when a delta is added, every other delta that stays and is not
\* one of the newest rrdp_delta_files_min_nr is not older than that, or
\* younger than rrdp_delta_files_min_seconds.
OldDropped ==
    [][AddDelta => \A i \in DOMAIN ages' \ {1} :
                      i - 1 > MinNr => ages'[i] <= MaxSecs \/ ages'[i] < MinSecs]_deltasVars

\* "beyond this: never keep more than 'rrdp_delta_files_max_nr'".  There are at
\* most that many deltas, as long as the minimum number is smaller and there
\* never were as many young deltas: once those have taken `keep' past the
\* maximum the loop does not stop at it, not even when they are no longer young.
MaximumUnlessBurst ==
    MinNr < MaxNr /\ ~burst => Len(ages) <= MaxNr
=============================================================================
