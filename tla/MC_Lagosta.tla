----------------------------- MODULE MC_Lagosta -----------------------------
(* Two CAs, one token, and up to two requests in flight. *)
EXTENDS Lagosta
=============================================================================
