--------------------------- MODULE MCEventJournal ---------------------------
(* Instances of EventJournal for TLC.                                      *)
EXTENDS EventJournal, TLC

CONSTANTS p1, p2, t1, t2, t3

\* p1 has two calls in flight at once, as parallel nodes and the lease
\* heartbeat do; p2 is the process that takes over.
TwoProcs == (t1 :> p1) @@ (t2 :> p1) @@ (t3 :> p2)

OwnWriter == [p \in Procs |-> IF p = p1 THEN "a" ELSE "b"]

Symmetry == Permutations({t1, t2})

Event(id, digest, type, node, attempt) ==
    [eventId |-> id, digest |-> digest, type |-> type, node |-> node,
     attempt |-> attempt]

TwoEvents ==
    {Event("queued:n", 1, "NodeQueued", "n", None),
     Event("settled:n", 1, "NodeSettled", "n", None)}
=============================================================================
