------------------------- MODULE MCConfigTransaction -------------------------
(***************************************************************************)
(* Small instances of ConfigTransaction.                                   *)
(***************************************************************************)
EXTENDS ConfigTransaction, TLC

CONSTANTS p1, p2, g1, g2

\* Processes and generations are interchangeable.
Symmetry == Permutations({p1, p2}) \union Permutations({g1, g2})
=============================================================================
