----------------------------- MODULE MCSwarmGoal -----------------------------
(***************************************************************************)
(* Small instances of SwarmGoal.                                           *)
(***************************************************************************)
EXTENDS SwarmGoal, TLC

CONSTANTS p1, p2

\* Processes are interchangeable.
Symmetry == Permutations({p1, p2})
=============================================================================
