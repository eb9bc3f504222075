----------------------------- MODULE EventRules -----------------------------
(***************************************************************************)
(* What a journal makes of an incoming event, by the events it holds:      *)
(* classifyIncoming of packages/subagents/state/event-journal.mjs.  A      *)
(* journal is a sequence of records whose field event is the producer's    *)
(* event: its id, the digest of its payload, its type, node and attempt.   *)
(***************************************************************************)
EXTENDS Naturals, Sequences

None == "none"       \* a null nodeId or attemptId

RootTerminal == {"RunCompleted", "RunFailed", "RunCancelled",
                 "RunInterrupted", "RunOrphaned"}
ChildTypes   == {"ChildStarted", "ChildOutputProjected", "ChildTerminal"}
NodeTypes    == ChildTypes \union
                {"NodeQueued", "NodeAdmitted", "NodeArtifactPublished",
                 "NodeSettled", "GateEvaluated"}

Logged(log) == {log[i].event : i \in 1..Len(log)}

\* Once f is in the journal, e comes too late.
Closes(f, e) ==
    \/ f.type \in RootTerminal
    \/ /\ f.type = "ChildTerminal" /\ e.type \in ChildTypes
       /\ e.attempt # None /\ f.attempt = e.attempt
    \/ /\ f.type = "NodeSettled" /\ e.type \in NodeTypes
       /\ e.node # None /\ f.node = e.node

\* DUPLICATE_EVENT or EVENT_ID_CONFLICT, then LATE_EVENT, then NEW_EVENT.
KnownId(log, e) == \E f \in Logged(log) : f.eventId = e.eventId
Late(log, e)    == \E f \in Logged(log) : Closes(f, e)

\* Mutant: late events are not classified.
NewEventIgnoringTerminals(log, e) == ~KnownId(log, e)

NewEvent(log, e) == ~KnownId(log, e) /\ ~Late(log, e)
=============================================================================
