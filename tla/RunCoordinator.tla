--------------------------- MODULE RunCoordinator ---------------------------
(***************************************************************************)
(* One workflow run under packages/subagents/workflow/run-coordinator.     *)
(*                                                                         *)
(* Durable state is the projection of the run's journal, kept event by     *)
(* event: appends are atomic and ordered (EventJournal).  Everything else  *)
(* is memory of the process that executes the run, and is lost with it.    *)
(* Each append is a step of its own, so a crash can fall between any two.  *)
(*                                                                         *)
(* The budget is the assignments resource, the one that a restart could    *)
(* spend twice.  A batch is one work item with its own attempts: its       *)
(* assignments are the starts of the item.                                 *)
(***************************************************************************)
EXTENDS Integers, Sequences, FiniteSets, FiniteSetsExt

CONSTANTS
    Plan,           \* plan.nodes, in plan order
    Kind,           \* of a node; local: checkpoint or loop-controller
    Needs,          \* node.needs
    Retryable,      \* nodes whose idempotency is not "none"
    ContentAddressed, \* nodes whose idempotency is "content-addressed"
    Mutating,       \* nodeMutates
    MaxAttempts,    \* node.budget.maxAttempts
    ItemAttempts,   \* retryPolicy.maxAttempts of a batch
    Limit,          \* assignments the run may spend
    Ends,           \* how a child can end, as its executor reports it
    MaxCrashes      \* bound: processes that die executing the run

Nodes == {Plan[i] : i \in DOMAIN Plan}
None  == "none"

ASSUME PlanAssumption ==
    /\ Plan \in Seq(Nodes) /\ Plan # <<>>
    /\ \A i, j \in DOMAIN Plan : Plan[i] = Plan[j] => i = j
    /\ Kind \in [Nodes -> {"agent", "batch", "gate", "approval", "local"}]
    /\ Needs \in [Nodes -> SUBSET Nodes]
    /\ ContentAddressed \subseteq Retryable /\ Retryable \subseteq Nodes
    /\ Mutating \subseteq Nodes
ASSUME NumbersAssumption ==
    /\ MaxAttempts \in Nat \ {0} /\ ItemAttempts \in Nat \ {0}
    /\ Limit \in Nat /\ MaxCrashes \in Nat
\* validateWorkflowPlan: a batch has one root attempt, and one attempt of every
\* node is within the run's limit.
ASSUME BudgetAssumption ==
    /\ \A n \in Nodes : Kind[n] = "batch" => MaxAttempts = 1
    /\ Cardinality({n \in Nodes : Kind[n] = "agent"})
       + ItemAttempts * Cardinality({n \in Nodes : Kind[n] = "batch"}) <= Limit
ASSUME EndsAssumption ==
    Ends \subseteq [outcome : {"completed", "failed", "cancelled", "timed-out",
                               "budget-exhausted"}, auth : BOOLEAN]

VARIABLES
    \* durable: the projection of the journal, and cancel-request.json
    status,     \* of the run
    node,       \* status and outcome of each node
    atts,       \* the admitted attempts of each node
    resv,       \* the budget reservations of each node
    item,       \* the work item of a batch
    known,      \* fixed event ids that have been used
    cancelFile,
    \* memory of the execution
    phase,      \* where execute() is
    todo, left, \* nodes to recover; attempts of the first of them in plan order
    pc,         \* where #runNode of each node is
    tries,      \* attempts used, from physicalAttempts
    reuse,      \* reusableReservations (0: none)
    end,        \* the terminal of the current attempt
    result,     \* what #runNode returned, or the verdict for the root
    cancel, pause,
    crashes

durable == <<status, node, atts, resv, item, known>>
memory  == <<phase, todo, left, pc, tries, reuse, end, result>>
signals == <<cancelFile, cancel, pause, crashes>>
vars    == <<durable, memory, signals>>

TerminalRun == {"completed", "failed", "cancelled", "interrupted", "orphaned",
                "timed-out", "budget-exhausted", "unavailable"}
RunStatus   == TerminalRun \union {None, "planned", "awaiting-approval",
                "admitted", "running", "paused", "stopping"}
NodeStatus  == TerminalRun \union {"planned", "queued", "running"}
Phases      == {"down", "opened", "refund", "recover", "approve", "begin",
                "loop", "wave", "thrown", "stopping", "ending"}
NodeSteps   == {"idle", "queue", "head", "reserve", "admit", "start", "run",
                "item", "ran", "terminal", "artifact", "charge", "settle", "done"}

Attempts     == [status : NodeStatus \union {"admitted"}, child : BOOLEAN,
                 resv : Nat, auth : BOOLEAN, risky : BOOLEAN]
Reservations == [state : {"reserved", "consumed", "refunded"}, worst : Nat, used : Nat]
Items        == [used : 0..ItemAttempts, auth : BOOLEAN,
                 status : {"queued", "running", "succeeded", "failed"}]
NoEnd        == [outcome |-> None, auth |-> FALSE]

TypeOK ==
    /\ status \in RunStatus
    /\ node \in [Nodes -> [status : NodeStatus, outcome : TerminalRun \union {None}]]
    /\ atts \in [Nodes -> Seq(Attempts)] /\ resv \in [Nodes -> Seq(Reservations)]
    /\ item \in [Nodes -> Items]
    /\ known \subseteq ({"paused", "approved", "stopping", "requeued", "artifact"}
                      \X (Nodes \union {None}))
    /\ phase \in Phases /\ todo \subseteq Nodes /\ left \subseteq Nat
    /\ pc \in [Nodes -> NodeSteps] /\ tries \in [Nodes -> 0..MaxAttempts]
    /\ reuse \in [Nodes -> Nat] /\ \A n \in Nodes : reuse[n] = 0 \/ reuse[n] \in DOMAIN resv[n]
    /\ end \in [Nodes -> [outcome : TerminalRun \union {None}, auth : BOOLEAN]]
    /\ result \in [Nodes -> TerminalRun \union {None, "awaiting-approval"}]
    /\ {cancelFile, cancel, pause} \subseteq BOOLEAN /\ crashes \in 0..MaxCrashes

All(value) == [n \in Nodes |-> value]

Init ==
    /\ status = None /\ known = {} /\ cancelFile = FALSE
    /\ node = All([status |-> "planned", outcome |-> None])
    /\ atts = All(<<>>) /\ resv = All(<<>>)
    /\ item = All([used |-> 0, auth |-> FALSE, status |-> "queued"])
    /\ phase = "down" /\ todo = {} /\ left = {}
    /\ pc = All("idle") /\ tries = All(0) /\ reuse = All(0)
    /\ end = All(NoEnd) /\ result = All(None)
    /\ cancel = FALSE /\ pause = FALSE /\ crashes = 0

-----------------------------------------------------------------------------
(* What the code reads off the projection.                                 *)

IsChild(n)   == Kind[n] \in {"agent", "batch"}      \* has ChildStarted
Started(n)   == {i \in DOMAIN atts[n] : atts[n][i].child}
Done(n)      == node[n].outcome = "completed"
Ready        == {n \in Nodes : /\ node[n].outcome = None
                               /\ node[n].status # "running"
                               /\ \A m \in Needs[n] : Done(m)}
Owned(n, k)  == k \in DOMAIN resv[n] /\ resv[n][k].state = "reserved"
Admitted(n, k) == \E i \in DOMAIN atts[n] : atts[n][i].resv = k
\* outstandingReservations: entries that recovery has kept for a batch are gone
Outstanding(n, k) == Owned(n, k) /\ reuse[n] # k
NeedsApproval == \E n \in Nodes : n \in Mutating \/ Kind[n] = "approval"

Spent(r) == IF r.state = "reserved" THEN r.worst
            ELSE IF r.state = "consumed" THEN r.used ELSE 0
Funded(n) == SumFunction([k \in DOMAIN resv[n] |-> Spent(resv[n][k])])
Committed == SumFunction([n \in Nodes |-> Funded(n)])

\* prepareBatch reserves the attempts that are left, and runBatch reports the
\* assignments of all its executions.
PreparedBatch(n) == IF item[n].status = "succeeded" THEN 0 ELSE ItemAttempts - item[n].used
BatchUsage(n)    == item[n].used

\* reservationVector.
WorstCase(n) == IF Kind[n] = "agent" THEN 1
                ELSE IF Kind[n] = "batch" THEN PreparedBatch(n) ELSE 0

\* usageVector.  One assignment is assumed when nothing is reported.
Usage(n) == IF Kind[n] = "batch" /\ end[n].outcome \notin {"unavailable", "orphaned"}
            THEN BatchUsage(n)
            ELSE IF IsChild(n) THEN 1 ELSE 0

-----------------------------------------------------------------------------
(* Writing.                                                                *)

Latest(n) == Len(atts[n])
SetNode(n, s, o) == node' = [node EXCEPT ![n] = [status |-> s, outcome |-> o]]
Charge(n, k, u)  == resv' = [resv EXCEPT ![n][k] = [@ EXCEPT !.state = "consumed", !.used = u]]
ChargeAll(n, k)  == Charge(n, k, resv[n][k].worst)
Refund(n, k)     == resv' = [resv EXCEPT ![n][k].state = "refunded"]

\* execute() returns or throws: its memory goes, and the lease is released.
Leave ==
    /\ phase' = "down" /\ todo' = {} /\ left' = {}
    /\ pc' = All("idle") /\ tries' = All(0) /\ reuse' = All(0)
    /\ end' = All(NoEnd) /\ result' = All(None)
    /\ cancel' = FALSE /\ pause' = FALSE

Goto(p) ==
    /\ phase' = p
    /\ UNCHANGED <<todo, left, pc, tries, reuse, end, result>>

\* #pollCancel, and the check that follows it.
PollThen(p) ==
    /\ cancel' = (cancel \/ cancelFile)
    /\ Goto(IF cancel' THEN "stopping" ELSE p)
    /\ UNCHANGED <<cancelFile, pause, crashes>>

\* The root is about to be settled with v.
EndRoot(v) ==
    /\ phase' = "ending" /\ result' = All(v)
    /\ UNCHANGED <<todo, left, pc, tries, reuse, end>>

-----------------------------------------------------------------------------
(* execute() up to its loop.                                               *)

\* The children that the journal knows of; those of a batch are not counted.
PhysicalAttempts(n) == IF Kind[n] = "agent" THEN Cardinality(Started(n)) ELSE 0

Execute ==
    /\ phase = "down" /\ status \notin TerminalRun
    /\ status' = IF status = None THEN "planned" ELSE status
    /\ phase' = "opened"
    /\ tries' = [n \in Nodes |-> PhysicalAttempts(n)]
    /\ UNCHANGED <<node, atts, resv, item, known, todo, left, pc, reuse, end,
                   result, signals>>

Open ==
    /\ phase = "opened"
    /\ PollThen("refund")
    /\ UNCHANGED durable

\* A reservation that was never admitted is refunded.
RefundUnadmitted ==
    /\ phase = "refund"
    /\ \E n \in Nodes : \E k \in DOMAIN resv[n] :
          Owned(n, k) /\ ~Admitted(n, k) /\ Refund(n, k)
    /\ UNCHANGED <<status, node, atts, item, known, memory, signals>>

Unfinished(n) ==
    {i \in DOMAIN atts[n] : \/ atts[n][i].status \in {"admitted", "running"}
                            \/ Owned(n, atts[n][i].resv)}

\* n is the first of the nodes ns in plan order.
Place(n) == CHOOSE i \in DOMAIN Plan : Plan[i] = n
Leads(n, ns) == n \in ns /\ \A m \in ns : Place(n) <= Place(m)

Load(ns) ==     \* turns to the first of the nodes ns
    /\ todo' = ns
    /\ \/ ns = {} /\ left' = {}
       \/ \E n \in ns : Leads(n, ns) /\ left' = Unfinished(n)

RefundsDone ==
    /\ phase = "refund"
    /\ \A n \in Nodes : \A k \in DOMAIN resv[n] : Owned(n, k) => Admitted(n, k)
    /\ phase' = "recover"
    /\ Load({n \in Nodes : node[n].status = "running" /\ node[n].outcome = None})
    /\ UNCHANGED <<durable, pc, tries, reuse, end, result, signals>>

(***************************************************************************)
(* Recovery of one attempt of the node at the head of todo.  ChildTerminal *)
(* for an attempt that already has one is a late event and changes         *)
(* nothing.                                                                *)
(***************************************************************************)
Recovering(n, i) ==
    /\ phase = "recover" /\ Leads(n, todo)
    /\ i \in left /\ \A j \in left : i <= j

ResumableBatch(n, i) ==
    Kind[n] = "batch" /\ atts[n][i].child /\ ~atts[n][i].risky

Interrupted(n, i) ==
    atts' = IF atts[n][i].status \in {"admitted", "running"}
            THEN [atts EXCEPT ![n][i].status = "interrupted"] ELSE atts

\* A batch none of whose items can still be running keeps its reservation.
KeepBatch(n, i) ==
    /\ Recovering(n, i) /\ ResumableBatch(n, i)
    /\ Interrupted(n, i)
    /\ reuse' = [reuse EXCEPT ![n] =
                    IF Outstanding(n, atts[n][i].resv) THEN atts[n][i].resv ELSE @]
    /\ left' = left \ {i}
    /\ UNCHANGED <<status, node, resv, item, known, phase, todo, pc, tries, end,
                   result, signals>>

InterruptChild(n, i) ==
    /\ Recovering(n, i) /\ ~ResumableBatch(n, i)
    /\ atts[n][i].child /\ atts[n][i].status = "running"
    /\ Interrupted(n, i)
    /\ UNCHANGED <<status, node, resv, item, known, memory, signals>>

\* Mutant: an attempt without a terminal counts as never begun.
NoTerminalNeverBegan(n, i) == ~atts[n][i].auth

\* Execution provably never began.
NeverBegan(n, i) == ~atts[n][i].child

SettleAttempt(n, i) ==
    /\ Recovering(n, i) /\ ~ResumableBatch(n, i)
    /\ ~(atts[n][i].child /\ atts[n][i].status = "running")
    /\ LET k == atts[n][i].resv
       IN  IF ~Outstanding(n, k) THEN UNCHANGED resv
           ELSE IF NeverBegan(n, i) THEN Refund(n, k) ELSE ChargeAll(n, k)
    /\ tries' = IF atts[n][i].child /\ Kind[n] = "batch"
                THEN [tries EXCEPT ![n] = MaxAttempts] ELSE tries
    /\ left' = left \ {i}
    /\ UNCHANGED <<status, node, atts, item, known, phase, todo, pc, reuse, end,
                   result, signals>>

Recovered(n) == phase = "recover" /\ Leads(n, todo) /\ left = {}

\* Mutant: unfinished side effects are replayed.
ReplayableIfRetryable(n) ==
    /\ n \in Retryable
    /\ reuse[n] # 0 \/ tries[n] < MaxAttempts

Replayable(n) ==
    /\ n \in ContentAddressed /\ n \notin Mutating
    /\ reuse[n] # 0 \/ tries[n] < MaxAttempts

RefuseReplay(n) ==
    /\ Recovered(n) /\ ~Replayable(n)
    /\ SetNode(n, "interrupted", "interrupted")
    /\ EndRoot("interrupted")
    /\ UNCHANGED <<status, atts, resv, item, known, signals>>

\* NodeQueued with recovery: true, under an id that is fixed for the node.
Requeue(n) ==
    /\ Recovered(n) /\ Replayable(n)
    /\ IF <<"requeued", n>> \in known THEN UNCHANGED <<node, known>>
       ELSE /\ SetNode(n, "queued", None)
            /\ known' = known \union {<<"requeued", n>>}
    /\ Load(todo \ {n})
    /\ UNCHANGED <<status, atts, resv, item, phase, pc, tries, reuse, end,
                   result, signals>>

RecoveryDone ==
    /\ phase = "recover" /\ todo = {}
    /\ PollThen("approve")
    /\ UNCHANGED durable

\* RunApproved is appended unless the same receipt is already recorded.
Approve ==
    /\ phase = "approve"
    /\ \/ /\ NeedsApproval
          /\ status' = "admitted" /\ known' = known \union {<<"approved", None>>}
       \/ /\ NeedsApproval => <<"approved", None>> \in known
          /\ UNCHANGED <<status, known>>
    /\ PollThen("begin")
    /\ UNCHANGED <<node, atts, resv, item>>

RequestApproval ==
    /\ status' = "awaiting-approval"
    /\ Leave
    /\ UNCHANGED <<node, atts, resv, item, known, cancelFile, crashes>>

DenyApproval == phase = "approve" /\ NeedsApproval /\ RequestApproval

\* RunStarted or RunResumed.
Begin ==
    /\ phase = "begin"
    /\ status' = "running"
    /\ Goto("loop")
    /\ UNCHANGED <<node, atts, resv, item, known, signals>>

-----------------------------------------------------------------------------
(* The loop.                                                               *)

LoopCancelled ==
    /\ phase = "loop" /\ (cancel \/ cancelFile)
    /\ PollThen("loop")
    /\ UNCHANGED durable

LoopGoesOn == phase = "loop" /\ ~cancel /\ ~cancelFile

\* RunPaused has a fixed id too.
Pause ==
    /\ LoopGoesOn /\ pause
    /\ status' = IF <<"paused", None>> \in known THEN status ELSE "paused"
    /\ known' = known \union {<<"paused", None>>}
    /\ Leave
    /\ UNCHANGED <<node, atts, resv, item, cancelFile, crashes>>

\* Mutant: the scheduler does not look at dependencies.
LaunchEverything ==
    /\ LoopGoesOn /\ ~pause /\ ~(\A n \in Nodes : Done(n))
    /\ LET ready == {n \in Nodes : node[n].outcome = None /\ node[n].status # "running"} IN
          /\ ready # {}
          /\ pc' = [n \in Nodes |-> IF n \in ready THEN "queue" ELSE "idle"]
    /\ phase' = "wave"
    /\ end' = All(NoEnd) /\ result' = All(None)
    /\ UNCHANGED <<durable, todo, left, tries, reuse, signals>>

LaunchWave ==
    /\ LoopGoesOn /\ ~pause /\ Ready # {}
    /\ phase' = "wave"
    /\ pc' = [n \in Nodes |-> IF n \in Ready THEN "queue" ELSE "idle"]
    /\ end' = All(NoEnd) /\ result' = All(None)
    /\ UNCHANGED <<durable, todo, left, tries, reuse, signals>>

NothingReady ==
    /\ LoopGoesOn /\ ~pause /\ Ready = {}
    /\ EndRoot(IF \A n \in Nodes : Done(n) THEN "completed" ELSE "failed")
    /\ UNCHANGED <<durable, signals>>

\* Mutant: the loop tries again when an approval is missing.
WaveIgnoresDenial ==
    /\ phase = "wave" /\ \A n \in Nodes : pc[n] \in {"idle", "done"}
    /\ LET failed == {i \in DOMAIN Plan : /\ pc[Plan[i]] = "done"
                                          /\ result[Plan[i]] \notin
                                               {"completed", "awaiting-approval"}} IN
       \/ failed = {} /\ Goto("loop")
       \/ \E i \in failed : (\A j \in failed : i <= j) /\ EndRoot(result[Plan[i]])
    /\ UNCHANGED <<durable, signals>>

\* Promise.all: an approval that is missing, then the first failure in plan order.
WaveDone ==
    /\ phase = "wave" /\ \A n \in Nodes : pc[n] \in {"idle", "done"}
    /\ LET failed == {i \in DOMAIN Plan : pc[Plan[i]] = "done"
                                          /\ result[Plan[i]] # "completed"} IN
       IF \E n \in Nodes : result[n] = "awaiting-approval" THEN RequestApproval
       ELSE /\ \/ failed = {} /\ Goto("loop")
               \/ \E i \in failed : (\A j \in failed : i <= j) /\ EndRoot(result[Plan[i]])
            /\ UNCHANGED <<durable, signals>>

\* #settleCancellation: RunStopping, then the root.
AppendStopping ==
    /\ phase = "stopping"
    /\ status' = IF <<"stopping", None>> \in known THEN status ELSE "stopping"
    /\ known' = known \union {<<"stopping", None>>}
    /\ EndRoot("orphaned")
    /\ UNCHANGED <<node, atts, resv, item, signals>>

\* EndRoot has put the verdict in every result.
SettleRoot ==
    /\ phase = "ending"
    /\ status' = result[Head(Plan)]
    /\ Leave
    /\ UNCHANGED <<node, atts, resv, item, known, cancelFile, crashes>>

-----------------------------------------------------------------------------
(* #runNode.  After one node has thrown, the others go on until execute()  *)
(* has released the lease.                                                 *)

At(n, step)  == phase \in {"wave", "thrown"} /\ pc[n] = step
Step(n, step) == pc' = [pc EXCEPT ![n] = step]
Return(n, o) == Step(n, "done") /\ result' = [result EXCEPT ![n] = o]

QueueNode(n) ==
    /\ At(n, "queue")
    /\ IF node[n].status = "planned" THEN SetNode(n, "queued", None) ELSE UNCHANGED node
    /\ Step(n, "head")
    /\ UNCHANGED <<status, atts, resv, item, known, phase, todo, left, tries, reuse,
                   end, result, signals>>

\* The head of the retry loop: attempts used up, cancelled, or paused.
Stops(n) == tries[n] >= MaxAttempts \/ cancel \/ pause

StopNode(n) ==
    /\ At(n, "head") /\ Stops(n)
    /\ Return(n, IF tries[n] >= MaxAttempts
                 THEN IF end[n].outcome = None THEN "failed" ELSE end[n].outcome
                 ELSE IF cancel THEN "cancelled" ELSE "interrupted")
    /\ UNCHANGED <<durable, phase, todo, left, tries, reuse, end, signals>>

DenyNode(n) ==
    /\ At(n, "head") /\ ~Stops(n) /\ n \in Mutating
    /\ Return(n, "awaiting-approval")
    /\ UNCHANGED <<durable, phase, todo, left, tries, reuse, end, signals>>

\* The node is settled without a child: no path enforcement, no budget, ...
SettleWithout(n, o) ==
    /\ Step(n, "settle")
    /\ end' = [end EXCEPT ![n] = [outcome |-> o, auth |-> TRUE]]

NoPathEnforcement(n) ==
    /\ At(n, "head") /\ ~Stops(n) /\ n \in Mutating
    /\ SettleWithout(n, "unavailable")
    /\ UNCHANGED <<durable, phase, todo, left, tries, reuse, result, signals>>

BeginAttempt(n) ==
    /\ At(n, "head") /\ ~Stops(n)
    /\ tries' = [tries EXCEPT ![n] = @ + 1]
    /\ Step(n, "reserve")
    /\ UNCHANGED <<durable, phase, todo, left, reuse, end, result, signals>>

\* prepareBatch throws; a reservation kept for the batch is charged in full.
PrepareFails(n) ==
    /\ At(n, "reserve") /\ Kind[n] = "batch"
    /\ IF reuse[n] # 0 THEN ChargeAll(n, reuse[n]) ELSE UNCHANGED resv
    /\ reuse' = [reuse EXCEPT ![n] = 0]
    /\ SettleWithout(n, "unavailable")
    /\ UNCHANGED <<status, node, atts, item, known, phase, todo, left, tries, result,
                   signals>>

Reserve(n) ==
    /\ At(n, "reserve")
    /\ IF reuse[n] # 0 THEN UNCHANGED resv
       ELSE /\ Committed + WorstCase(n) <= Limit
            /\ resv' = [resv EXCEPT ![n] = Append(@,
                   [state |-> "reserved", worst |-> WorstCase(n), used |-> 0])]
    /\ Step(n, "admit")
    /\ UNCHANGED <<status, node, atts, item, known, phase, todo, left, tries, reuse,
                   end, result, signals>>

BudgetExhausted(n) ==
    /\ At(n, "reserve") /\ reuse[n] = 0 /\ Committed + WorstCase(n) > Limit
    /\ SettleWithout(n, "budget-exhausted")
    /\ UNCHANGED <<durable, phase, todo, left, tries, reuse, result, signals>>

CurrentResv(n) == IF reuse[n] # 0 THEN reuse[n] ELSE Len(resv[n])

Admit(n) ==
    /\ At(n, "admit")
    /\ SetNode(n, "running", node[n].outcome)
    /\ atts' = [atts EXCEPT ![n] = Append(@,
           [status |-> "admitted", child |-> FALSE, resv |-> CurrentResv(n),
            auth |-> FALSE, risky |-> FALSE])]
    /\ Step(n, IF IsChild(n) THEN "start" ELSE "run")
    /\ UNCHANGED <<status, resv, item, known, phase, todo, left, tries, reuse, end,
                   result, signals>>

\* ChildStarted is durable before the executor is asked to start anything.
StartChild(n) ==
    /\ At(n, "start")
    /\ atts' = [atts EXCEPT ![n][Latest(n)] = [@ EXCEPT !.child = TRUE, !.status = "running"]]
    /\ Step(n, "run")
    /\ UNCHANGED <<status, node, resv, item, known, phase, todo, left, tries, reuse,
                   end, result, signals>>

\* The executor has no such primitive, so it never had.
NoExecutor(n) ==
    /\ end[n] = NoEnd
    /\ \/ At(n, "start") /\ Started(n) = {}
       \/ At(n, "run") /\ Kind[n] = "local"
    /\ end' = [end EXCEPT ![n] = [outcome |-> "unavailable", auth |-> FALSE]]
    /\ Step(n, IF IsChild(n) THEN "terminal" ELSE "artifact")
    /\ UNCHANGED <<durable, phase, todo, left, tries, reuse, result, signals>>

\* A verdict of the coordinator's own services has authority; it can overrun the
\* output limit.  A wait that throws or times out has none.
LocalEnds == [outcome : {"completed", "failed", "budget-exhausted"}, auth : {TRUE}]
             \union {[outcome |-> "failed", auth |-> FALSE]}

\* The child ends, or its deadline or an abort ends the wait for it.
ChildEnds(n) ==
    /\ At(n, "run") /\ Kind[n] \in {"agent", "approval", "local"}
    /\ \E e \in (IF IsChild(n) THEN Ends ELSE LocalEnds) : end' = [end EXCEPT ![n] = e]
    /\ Step(n, IF IsChild(n) THEN "terminal" ELSE "artifact")
    /\ UNCHANGED <<durable, phase, todo, left, tries, reuse, result, signals>>

\* GateEvaluated: a failed gate is failed at once, though not settled.
EvaluateGate(n) ==
    /\ At(n, "run") /\ Kind[n] = "gate"
    /\ \E o \in {"completed", "failed"} :
          /\ SetNode(n, IF o = "completed" THEN "running" ELSE "failed", node[n].outcome)
          /\ \E e \in {o, "budget-exhausted"} :
                end' = [end EXCEPT ![n] = [outcome |-> e, auth |-> TRUE]]
    /\ Step(n, "artifact")
    /\ UNCHANGED <<status, atts, resv, item, known, phase, todo, left, tries, reuse,
                   result, signals>>

\* The wait for the gate ends without an answer.
GateFails(n) ==
    /\ At(n, "run") /\ Kind[n] = "gate"
    /\ end' = [end EXCEPT ![n] = [outcome |-> "failed", auth |-> FALSE]]
    /\ Step(n, "artifact")
    /\ UNCHANGED <<durable, phase, todo, left, tries, reuse, result, signals>>

(***************************************************************************)
(* runBatch: the item is started while it has attempts left, unless it has *)
(* succeeded, and again after a failure that is proved and retryable.      *)
(***************************************************************************)
\* Mutant: one attempt of the item too many.
ItemLeftOnceMore(n) == item[n].status # "succeeded" /\ item[n].used <= ItemAttempts

ItemLeft(n) == item[n].status # "succeeded" /\ item[n].used < ItemAttempts

StartItem(n) ==
    /\ At(n, "run") \/ (At(n, "ran") /\ item[n].auth)
    /\ Kind[n] = "batch" /\ ItemLeft(n)
    /\ item' = [item EXCEPT ![n] = [used |-> @.used + 1, auth |-> FALSE, status |-> "running"]]
    /\ atts' = [atts EXCEPT ![n][Latest(n)].risky = TRUE]
    /\ Step(n, "item")
    /\ UNCHANGED <<status, node, resv, known, phase, todo, left, tries, reuse, end,
                   result, signals>>

EndItem(n) ==
    /\ At(n, "item")
    /\ \E s \in {"succeeded", "failed"}, a \in BOOLEAN :
          /\ item' = [item EXCEPT ![n].status = s, ![n].auth = a]
          /\ atts' = [atts EXCEPT ![n][Latest(n)].risky = ~a]
    /\ Step(n, "ran")
    /\ UNCHANGED <<status, node, resv, known, phase, todo, left, tries, reuse, end,
                   result, signals>>

(***************************************************************************)
(* aggregateOutcome: the failure policy decides what a failed item means,  *)
(* unless the batch was aborted, met its deadline, overran its budget, or  *)
(* threw before it started the item (here an orphaned end).                *)
(***************************************************************************)
BatchEnds(n) ==
    {[outcome |-> o, auth |-> item[n].auth] : o \in
        {"cancelled", "budget-exhausted"} \union
        (IF item[n].status = "succeeded" THEN {"completed"}
         ELSE IF pc[n] = "run" /\ ItemLeft(n) THEN {} ELSE {"completed", "failed"})}
    \union {[outcome |-> "timed-out", auth |-> FALSE]}
    \union (IF item[n].used = 0 THEN {[outcome |-> "orphaned", auth |-> FALSE]} ELSE {})

EndBatch(n) ==
    /\ At(n, "run") \/ At(n, "ran")
    /\ Kind[n] = "batch"
    /\ \E e \in BatchEnds(n) : end' = [end EXCEPT ![n] = e]
    /\ Step(n, "terminal")
    /\ UNCHANGED <<durable, phase, todo, left, tries, reuse, result, signals>>

RecordTerminal(n) ==
    /\ At(n, "terminal")
    /\ atts' = [atts EXCEPT ![n][Latest(n)] = [@ EXCEPT !.status = end[n].outcome,
                                                       !.auth = end[n].auth]]
    /\ Step(n, "artifact")
    /\ UNCHANGED <<status, node, resv, item, known, phase, todo, left, tries, reuse,
                   end, result, signals>>

\* Mutant: an end is believed without authority.
BelievedOutcome(e) == e.outcome

\* Without authority an end settles as orphaned.
SettledOutcome(e) ==
    IF e.auth \/ e.outcome \in {"orphaned", "interrupted", "unavailable"}
    THEN e.outcome ELSE "orphaned"

\* NodeArtifactPublished has one id per node and names the attempt: a second
\* attempt that completes is EVENT_ID_CONFLICT.
PublishArtifact(n) ==
    /\ At(n, "artifact")
    /\ ~(SettledOutcome(end[n]) = "completed" /\ <<"artifact", n>> \in known)
    /\ known' = IF SettledOutcome(end[n]) = "completed"
                THEN known \union {<<"artifact", n>>} ELSE known
    /\ Step(n, "charge")
    /\ UNCHANGED <<status, node, atts, resv, item, phase, todo, left, tries, reuse,
                   end, result, signals>>

Overrun(n)   == end[n].outcome = "budget-exhausted"
Charged(n)   == IF Overrun(n) THEN resv[n][CurrentResv(n)].worst ELSE Usage(n)
RetriesNode(n) ==
    /\ SettledOutcome(end[n]) = "failed" /\ tries[n] < MaxAttempts /\ n \in Retryable

ChargeNode(n) ==
    /\ At(n, "charge") /\ Charged(n) <= resv[n][CurrentResv(n)].worst
    /\ Charge(n, CurrentResv(n), Charged(n))
    /\ reuse' = [reuse EXCEPT ![n] = 0]
    /\ Step(n, IF RetriesNode(n) THEN "head" ELSE "settle")
    /\ UNCHANGED <<status, node, atts, item, known, phase, todo, left, tries, end,
                   result, signals>>

\* EVENT_ID_CONFLICT, or ACTUAL_EXCEEDS_RESERVATION.
Throw(n) ==
    /\ \/ /\ At(n, "artifact")
          /\ SettledOutcome(end[n]) = "completed" /\ <<"artifact", n>> \in known
       \/ At(n, "charge") /\ Charged(n) > resv[n][CurrentResv(n)].worst
    /\ phase' = "thrown"
    /\ Step(n, "idle")
    /\ UNCHANGED <<durable, todo, left, tries, reuse, end, result, signals>>

Release ==
    /\ phase = "thrown"
    /\ Leave
    /\ UNCHANGED <<durable, cancelFile, crashes>>

SettleNode(n) ==
    /\ At(n, "settle")
    /\ SetNode(n, SettledOutcome(end[n]), SettledOutcome(end[n]))
    /\ Return(n, SettledOutcome(end[n]))
    /\ UNCHANGED <<status, atts, resv, item, known, phase, todo, left, tries, reuse,
                   end, signals>>

-----------------------------------------------------------------------------
(* Callers, and the end of the process.                                    *)

\* cancel() of the coordinator that executes the run, or its abort signal
RequestCancel ==
    /\ phase # "down" /\ ~cancel
    /\ cancel' = TRUE
    /\ cancelFile' \in {TRUE, cancelFile}
    /\ UNCHANGED <<durable, memory, pause, crashes>>

\* cancel() anywhere else leaves a request that the heartbeat finds.
RequestDurableCancel ==
    /\ status \notin TerminalRun \union {None} /\ ~cancelFile
    /\ cancelFile' = TRUE
    /\ UNCHANGED <<durable, memory, cancel, pause, crashes>>

PollCancel ==
    /\ phase # "down" /\ cancelFile /\ ~cancel
    /\ cancel' = TRUE
    /\ UNCHANGED <<durable, memory, cancelFile, pause, crashes>>

RequestPause ==
    /\ phase # "down" /\ ~pause
    /\ pause' = TRUE
    /\ UNCHANGED <<durable, memory, cancelFile, cancel, crashes>>

\* The process dies or loses its lease, after which every append is refused.
Crash ==
    /\ phase # "down" /\ crashes < MaxCrashes
    /\ crashes' = crashes + 1
    /\ Leave
    /\ UNCHANGED <<durable, cancelFile>>

Recover ==
    \/ RefundUnadmitted \/ RefundsDone \/ RecoveryDone
    \/ \E n \in Nodes :
          \/ RefuseReplay(n) \/ Requeue(n)
          \/ \E i \in left : KeepBatch(n, i) \/ InterruptChild(n, i) \/ SettleAttempt(n, i)

Control ==
    \/ Open \/ Recover \/ Approve \/ DenyApproval \/ Begin
    \/ LoopCancelled \/ Pause \/ LaunchWave \/ NothingReady \/ WaveDone
    \/ AppendStopping \/ SettleRoot \/ Release

RunNode(n) ==
    \/ QueueNode(n) \/ StopNode(n) \/ DenyNode(n) \/ NoPathEnforcement(n)
    \/ BeginAttempt(n) \/ PrepareFails(n) \/ Reserve(n) \/ BudgetExhausted(n)
    \/ Admit(n) \/ StartChild(n) \/ NoExecutor(n) \/ ChildEnds(n)
    \/ EvaluateGate(n) \/ GateFails(n) \/ StartItem(n) \/ EndItem(n) \/ EndBatch(n)
    \/ RecordTerminal(n) \/ PublishArtifact(n) \/ ChargeNode(n) \/ Throw(n)
    \/ SettleNode(n)

Next ==
    \/ Execute \/ Control \/ \E n \in Nodes : RunNode(n)
    \/ RequestCancel \/ RequestDurableCancel \/ PollCancel \/ RequestPause
    \/ Crash

Spec == Init /\ [][Next]_vars

(***************************************************************************)
(* The event loop runs what is ready, and a child ends or meets its        *)
(* deadline.  Nothing obliges anybody to call execute() again.             *)
(***************************************************************************)
FairSpec == Spec /\ WF_vars(Control) /\ \A n \in Nodes : WF_vars(RunNode(n))
-----------------------------------------------------------------------------
Starts(n) == IF Kind[n] = "agent" THEN Cardinality(Started(n))
             ELSE IF Kind[n] = "batch" THEN item[n].used ELSE 0

\* However often the run is resumed, an agent node starts at most maxAttempts
\* children, as physicalAttempts is rebuilt from the ChildStarted events, and all
\* that the run starts was paid for: crashes and retries together never start
\* more assignments than the run's limit, because a child that may have run is
\* never refunded.
AssignmentsFunded ==
    /\ \A n \in Nodes : Kind[n] = "agent" => Cardinality(Started(n)) <= MaxAttempts
    /\ SumFunction([n \in Nodes |-> Starts(n)]) <= Limit

\* Node by node, what was started has been charged or is still reserved, at every
\* moment: also while recovery hands the reservation of a batch to its next
\* attempt, and when the second process loses it again.
StartsArePaid ==
    \A n \in Nodes : Starts(n) <= Funded(n)

\* Work that mutates, or is not content-addressed, is not started again unless
\* every earlier child of the node is proved to have ended.
NoBlindReplay ==
    \A n \in Nodes : IsChild(n) /\ (n \in Mutating \/ n \notin ContentAddressed) =>
        \A i, j \in DOMAIN atts[n] :
            i < j /\ atts[n][i].child => atts[n][i].auth

\* A node is admitted only after all it needs has completed, also by a process
\* that knows of them only from the journal.
DependenciesFirst ==
    \A n \in Nodes : atts[n] # <<>> => \A m \in Needs[n] : Done(m)

\* A run completes only with a proved completion of every node that has children.
CompletedIsProved ==
    status = "completed" =>
        \A n \in Nodes : /\ Done(n)
                         /\ IsChild(n) => \E i \in DOMAIN atts[n] :
                               atts[n][i].status = "completed" /\ atts[n][i].auth

\* execute() returns while its process lives: recovery, retries and the waves
\* come to an end whatever the children do.
ExecuteReturns == phase # "down" ~> phase = "down"

-----------------------------------------------------------------------------
(***************************************************************************)
(* The inductive invariant, node by node: what #runNode knows at each of   *)
(* its steps, what a node's status says of its attempts, and how the       *)
(* attempts of a node are paid for.                                        *)
(***************************************************************************)
Last(n)       == atts[n][Latest(n)]
Protected(n)  == IsChild(n) /\ (n \in Mutating \/ n \notin ContentAddressed)
Proved(n)     == \A i \in DOMAIN atts[n] : atts[n][i].child => atts[n][i].auth
Completed(n)  == \E i \in DOMAIN atts[n] : atts[n][i].status = "completed" /\ atts[n][i].auth

\* A child was started on the reservation: it is never refunded.
Touched(n, k) == \E i \in DOMAIN atts[n] : atts[n][i].child /\ atts[n][i].resv = k
\* What the first k reservations of a node have taken, of those that a child has used.
Paid(n, k)    == SumFunction([j \in DOMAIN resv[n] |->
                                 IF j <= k /\ Touched(n, j) THEN Spent(resv[n][j]) ELSE 0])

\* Recovery is at node n, and has yet to look at some of its attempts.
Turn(n)    == phase = "recover" /\ Leads(n, todo)
Pending(n) == IF Turn(n) THEN left ELSE {}

HasAttempt     == {"start", "run", "item", "ran", "terminal", "artifact", "charge"}
HasReservation == HasAttempt \union {"admit"}

AtStep(n) ==
    /\ phase \notin {"wave", "thrown"} => pc[n] \in {"idle", "done"}
    /\ pc[n] # "idle" => \A m \in Needs[n] : Done(m)
    /\ pc[n] \notin {"idle", "done"} => node[n].outcome = None
    /\ pc[n] \in {"item", "ran"} => Kind[n] = "batch"
    /\ pc[n] \in {"start", "terminal"} => IsChild(n)
    /\ pc[n] \in HasReservation => Owned(n, CurrentResv(n))
    /\ pc[n] \in HasAttempt => atts[n] # <<>> /\ Last(n).resv = CurrentResv(n)
    /\ pc[n] = "start" => ~Last(n).child
    /\ pc[n] \in {"run", "item", "ran"} /\ IsChild(n) => Last(n).child
    /\ pc[n] \in {"terminal", "artifact", "charge", "settle"} => end[n].outcome # None
    /\ pc[n] \in {"artifact", "charge"} /\ IsChild(n) =>
          Last(n).status = end[n].outcome /\ Last(n).auth = end[n].auth
    /\ pc[n] = "settle" /\ IsChild(n) /\ SettledOutcome(end[n]) = "completed" => Completed(n)

AtStatus(n) ==
    /\ atts[n] # <<>> => \A m \in Needs[n] : Done(m)
    /\ IsChild(n) /\ node[n].outcome = None => node[n].status \in {"planned", "queued", "running"}
    /\ IsChild(n) /\ Done(n) => Completed(n)
    /\ phase = "recover" /\ n \in todo => node[n].outcome = None

\* No protected node is started while an earlier child of it may have been.
Replays(n) ==
    Protected(n) =>
        /\ node[n].status \in {"planned", "queued"} => atts[n] = <<>>
        /\ \A i, j \in DOMAIN atts[n] : i < j /\ atts[n][i].child => atts[n][i].auth
        /\ pc[n] \in {"queue", "head", "reserve", "admit"} => Proved(n)

\* The children of an agent are counted.
Counted(n) ==
    Kind[n] = "agent" =>
        /\ Cardinality(Started(n)) <= MaxAttempts
        /\ phase # "down" => Cardinality(Started(n)) <= tries[n]
        /\ pc[n] \in {"reserve", "admit", "start"} => Cardinality(Started(n)) < tries[n]

\* Attempts and their reservations: only that of a batch is used again, the
\* first attempt with it having started a child, and later reservations come with
\* later attempts.
Referred(n) ==
    /\ \A i \in DOMAIN atts[n] : atts[n][i].resv \in DOMAIN resv[n]
    /\ \A i, j \in DOMAIN atts[n] : i < j =>
          /\ atts[n][i].resv = atts[n][j].resv =>
                /\ Kind[n] = "batch"
                /\ \E c \in DOMAIN atts[n] :
                      c <= i /\ atts[n][c].child /\ atts[n][c].resv = atts[n][i].resv
          /\ atts[n][i].child /\ Owned(n, atts[n][i].resv) => atts[n][i].resv <= atts[n][j].resv
    /\ pc[n] \in {"admit", "start"} /\ reuse[n] = 0 =>
          \A i \in DOMAIN atts[n] : (pc[n] = "start" => i # Latest(n)) => atts[n][i].resv # CurrentResv(n)

\* The reservation that recovery has kept for a batch is the last one that a
\* child has used and that is not settled.
Kept(n) ==
    /\ reuse[n] # 0 => /\ Kind[n] = "batch" /\ Owned(n, reuse[n])
                       /\ \E c \in DOMAIN atts[n] \ Pending(n) :
                             atts[n][c].child /\ atts[n][c].resv = reuse[n]
    /\ reuse[n] # 0 \/ Turn(n) =>
          \A i \in DOMAIN atts[n] \ Pending(n) :
             atts[n][i].child /\ Owned(n, atts[n][i].resv) => atts[n][i].resv <= reuse[n]
    /\ Turn(n) => /\ left \subseteq DOMAIN atts[n]
                  /\ \A i \in DOMAIN atts[n] \ left, j \in left :
                        i < j \/ ~Owned(n, atts[n][i].resv)
    /\ phase \in {"down", "opened", "refund"} \/ (phase = "recover" /\ n \in todo /\ ~Turn(n)) =>
          reuse[n] = 0

\* What a node has started is paid for by reservations that are not refunded.
Paying(n) ==
    /\ \A k \in DOMAIN resv[n] : Touched(n, k) => resv[n][k].state # "refunded"
    /\ Starts(n) <= Paid(n, Len(resv[n]))
    /\ Kind[n] = "agent" => \A k \in DOMAIN resv[n] :
          resv[n][k].worst = 1 /\ (resv[n][k].state = "consumed" => resv[n][k].used = 1)
    /\ Kind[n] = "batch" =>
          /\ \A k \in DOMAIN resv[n] : Touched(n, k) /\ Owned(n, k) =>
                item[n].status = "succeeded" \/ ItemAttempts <= Paid(n, k)
          /\ pc[n] \in {"admit", "start"} /\ ~Touched(n, CurrentResv(n)) =>
                resv[n][CurrentResv(n)].worst = PreparedBatch(n)
          /\ pc[n] = "item" => item[n].status = "running"
          /\ pc[n] \in {"terminal", "artifact", "charge"}
                /\ end[n].outcome \in {"unavailable", "orphaned"} => item[n].used = 0

\* The root: it completes when all nodes have.
Root ==
    /\ Committed <= Limit
    /\ phase # "down" => status \notin TerminalRun
    /\ (phase = "ending" /\ result[Head(Plan)] = "completed") \/ status = "completed" =>
          \A n \in Nodes : Done(n)

RunInv ==
    /\ TypeOK /\ Root
    /\ \A n \in Nodes : /\ AtStep(n) /\ AtStatus(n) /\ Replays(n) /\ Counted(n)
                        /\ Referred(n) /\ Kept(n) /\ Paying(n)
=============================================================================
