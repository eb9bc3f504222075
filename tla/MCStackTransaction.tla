------------------------- MODULE MCStackTransaction -------------------------
(* Instances of the stack transaction for TLC.                             *)
EXTENDS StackTransaction

CONSTANTS s1, s2

\* The user's npm root is absent, or has exactly the packages of the release.
Settled == {None, "exact"}
\* ... or it has only some of them.
Partial == {"partial"}
=============================================================================
