------------------------------ MODULE MCScores ------------------------------
(* Model checking of Scores: one problem pays for one hint of either price, *)
(* or for two cheap ones.                                                   *)
EXTENDS Scores, TLC

CONSTANTS u1, u2, p1, p2, g1

MCScore == (p1 :> 2) @@ (p2 :> 3)
MCGroup == [u \in Users |-> g1]
MCCosts(p) == IF p = p1 THEN {0, 2} ELSE {-1}
Symmetric == Permutations(Slots)
=============================================================================
