-------------------------- MODULE MCRunCoordinator --------------------------
(* Plans for TLC.                                                          *)
EXTENDS RunCoordinator

\* Two agents of one wave.
PairPlan  == <<"a", "b">>
PairKind  == [n \in {"a", "b"} |-> "agent"]
PairNeeds == [n \in {"a", "b"} |-> {}]

\* A checkpoint, a gate, an agent, one after the other.
ChainPlan  == <<"l", "g", "a">>
ChainKind  == [l |-> "local", g |-> "gate", a |-> "agent"]
ChainNeeds == [l |-> {}, g |-> {"l"}, a |-> {"g"}]

\* One batch.
BatchPlan  == <<"b">>
BatchKind  == [b |-> "batch"]
BatchNeeds == [b |-> {}]

\* One end for each way the coordinator goes on.
FewEnds == {[outcome |-> "completed", auth |-> TRUE],
            [outcome |-> "failed", auth |-> TRUE],
            [outcome |-> "completed", auth |-> FALSE]}
\* ... and an end that overran the node's budget.
OverrunEnds == FewEnds \union {[outcome |-> "budget-exhausted", auth |-> TRUE]}
=============================================================================
