------------------------- MODULE MCPositionManager -------------------------
(***************************************************************************)
(* TLC instance of PositionManager: two users, each the operator of the    *)
(* other, two tokens, two ranges, and ether.                               *)
(***************************************************************************)
EXTENDS PositionManager, TLC

MCOperators == {p \in Users \X Users : p[1] # p[2]}
Symmetry    == Permutations(Users) \cup Permutations(Ranges)
=============================================================================
