-------------------------- MODULE MC_SignedObjects --------------------------
(* Two ASes, two prefixes, a router for each AS, one provider.             *)
EXTENDS SignedObjects, TLC

CONSTANTS a1, b1

MCRouterAsn == [b \in Router |-> IF b = b1 THEN a1 ELSE CHOOSE a \in Asn : a # a1]
MCSymmetry == Permutations(Prefix)
=============================================================================
