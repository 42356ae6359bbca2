--------------------------- MODULE MC_ChildCerts ---------------------------
(* One child with one key; the resources are alike.                        *)
EXTENDS ChildCerts, TLC

MCKeysOf == [c \in Child |-> Key]
MCSymmetry == Permutations(Resource)
=============================================================================
