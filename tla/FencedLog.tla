------------------------------ MODULE FencedLog -----------------------------
(***************************************************************************)
(* What the event journal promises: one log, extended one record at a time *)
(* by the writer of the current epoch.  Opening an epoch ends the one      *)
(* before it for good.                                                     *)
(***************************************************************************)
EXTENDS EventRules

CONSTANT Inputs

VARIABLES log, epoch, open

logVars == <<log, epoch, open>>

LogInit == log = <<>> /\ epoch = 0 /\ open = FALSE

OpenEpoch ==
    /\ epoch' = epoch + 1
    /\ open' = TRUE
    /\ UNCHANGED log

CloseEpoch ==
    /\ open
    /\ open' = FALSE
    /\ UNCHANGED <<log, epoch>>

Commit ==
    /\ open
    /\ \E e \in Inputs :
          /\ NewEvent(log, e)
          /\ log' = Append(log, [seq |-> Len(log) + 1, token |-> epoch,
                                 event |-> e])
    /\ UNCHANGED <<epoch, open>>

LogNext == OpenEpoch \/ CloseEpoch \/ Commit
LogSpec == LogInit /\ [][LogNext]_logVars
=============================================================================
