--------------------------- MODULE MCBudgetLedger ---------------------------
(* Instances of BudgetLedger for TLC.                                      *)
EXTENDS BudgetLedger, TLC

CONSTANTS c1, c2, r1, r2

\* Two small reservations fit, or a large one; the next needs something back.
SmallLimits   == [tokens |-> 2]
SmallRequests == {[tokens |-> 1], [tokens |-> 2]}
SmallUsages   == {[tokens |-> 1]}

Symmetry == Permutations({c1, c2}) \union Permutations({r1, r2})
=============================================================================
