------------------------- MODULE MC_AggregateStore -------------------------
(* Commands with up to two events, and a few crashes. *)
EXTENDS AggregateStore
=============================================================================
