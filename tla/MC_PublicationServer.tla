------------------------ MODULE MC_PublicationServer ------------------------
(***************************************************************************)
(* Two instances of PublicationServer.  In "apart" two Krill CAs publish,  *)
(* p1 at u1 with the contents h1 and h2, the other at u2 with k2, and all  *)
(* requests are handled by r1.  In "overlap" a publisher p3 that is not a  *)
(* Krill CA publishes at u3 with the contents g1 and g2, and its requests  *)
(* overlap.                                                                *)
(***************************************************************************)
EXTENDS PublicationServer, TLC

CONSTANTS p1, p3, u1, u3, h1, h2, g1, g2, r1

VARIABLE instance

MCJail == [p \in Publisher |-> IF p = p1 THEN {u1} ELSE IF p = p3 THEN {u3} ELSE Uri \ {u1, u3}]
MCContentOf == [u \in Uri |-> IF u = u1 THEN {h1, h2} ELSE IF u = u3 THEN {g1, g2}
                              ELSE Content \ {h1, h2, g1, g2}]
MCSymmetry == {f \in Permutations({h1, h2, g1, g2}) :
                    {<<f[h1], f[g1]>>, <<f[h2], f[g2]>>} = {<<h1, g1>>, <<h2, g2>>}}

MCInit == Init /\ instance \in {"apart", "overlap"}
MCNext ==
    /\ UNCHANGED instance
    /\ \/ \E r \in IF instance = "apart" THEN {r1} ELSE Handler :
             \/ Continue(r)
             \/ \E p \in IF instance = "apart" THEN KrillCa ELSE Publisher \ KrillCa : Request(r, p)
       \/ UpdateRrdp \/ SessionReset \/ Restart
MCSpec == MCInit /\ [][MCNext]_<<vars, instance>>
=============================================================================
