---------------------------- MODULE MCHostInput ----------------------------
(* Instances of the host's input controller for TLC.                       *)
EXTENDS HostInput

CONSTANTS a, b

\* A supplement next to a queued input, and a prompt next to a queued input.
Pairs ==
    {[i \in Inputs |-> IF i = a THEN "queue" ELSE other] : other \in {"steer", "prompt"}}
=============================================================================
