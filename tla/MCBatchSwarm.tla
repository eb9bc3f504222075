---------------------------- MODULE MCBatchSwarm ----------------------------
(* Instances of the batch swarm for TLC.                                   *)
EXTENDS BatchSwarm

End(s, a, r) == [status |-> s, auth |-> a, retry |-> r]

\* Success, a proved failure at a rate limit, which is retried, and a failure
\* that may be retried but proves nothing.
SomeEnds == {End("succeeded", TRUE, "none"), End("failed", TRUE, "limit"),
             End("failed", FALSE, "retry")}
=============================================================================
