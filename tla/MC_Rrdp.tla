------------------------------- MODULE MC_Rrdp -------------------------------
(***************************************************************************)
(* Two questions about RRDP that do not meet: which deltas are kept as     *)
(* time passes (RrdpDeltas), and what is on disk when writes fail, cross   *)
(* or stop (RrdpFiles). A behaviour is about one of them.                  *)
(***************************************************************************)
EXTENDS RrdpDeltas, RrdpFiles

VARIABLE part

MCInit == DeltasInit /\ FilesInit /\ part \in {"deltas", "files"}

MCNext ==
    /\ UNCHANGED part
    /\ \/ part = "deltas" /\ UNCHANGED filesVars /\ DeltasNext
       \/ part = "files" /\ UNCHANGED deltasVars /\ FilesNext

MCSpec == MCInit /\ [][MCNext]_<<deltasVars, filesVars, part>>
=============================================================================
