---------------------------- MODULE MCPositions ----------------------------
(***************************************************************************)
(* A small instance of Positions for TLC.  With a fill of 4 and a hard     *)
(* stop of 2, +1.5R is at 7 and +2R at 8, the target lies beyond at 9, as  *)
(* it does for breakouts: quotes below, at and above each level occur.     *)
(***************************************************************************)
EXTENDS Positions, TLC

Ladder == {[fill |-> 4, hard |-> 2, soft |-> 3, target |-> 9]}

Symmetry == Permutations(Monitors) \cup Permutations(Closers) \cup Permutations(Trades)

=============================================================================
