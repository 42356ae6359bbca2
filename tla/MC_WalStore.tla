---------------------------- MODULE MC_WalStore ------------------------------
(* Two change sets.                                                           *)
EXTENDS WalStore

CONSTANTS c1, c2
=============================================================================
