------------------------------ MODULE HostInput ------------------------------
(***************************************************************************)
(* The host's input controller, its input store and its tasks, for one     *)
(* session: inputs are saved before they are delivered, a worker process   *)
(* takes them into the session's history, and the host learns of that only *)
(* from answers and events that may be lost, and from the history file.    *)
(*                                                                         *)
(* The controller runs its commands and its background work one at a time  *)
(* (#serial).  Every command of the store is inside such an operation, so  *)
(* revisions never conflict between operations and are left out: a command *)
(* with a stale revision is one that is refused.  An operation is split    *)
(* where it waits for a worker or for HostTasks.start, and where a crash   *)
(* between two of its writes would leave something new behind.             *)
(*                                                                         *)
(* Drafts, bindings, grants, accounts and the output of workers are left   *)
(* out; a binding that has changed or a model that is not available is a   *)
(* start that fails.  Tasks are those that resume the session; they run in *)
(* mode readonly.                                                          *)
(***************************************************************************)
EXTENDS Integers, Sequences, FiniteSets

CONSTANTS
    Inputs,      \* the inputs of the session
    NoInput,     \* no input
    Deliveries,  \* how they may be meant to be delivered: steer, queue or prompt
    MaxTasks,    \* bound: tasks of the session
    MaxPlain,    \* bound: tasks that a client starts without an input
    MaxFaults    \* bound: crashes and stops of the host, and background
                 \*   operations and admissions of tasks that fail

ASSUME HostAssumption ==
    /\ NoInput \notin Inputs
    /\ Deliveries \subseteq [Inputs -> {"steer", "queue", "prompt"}]
    /\ MaxTasks \in Nat \ {0} /\ MaxPlain \in Nat /\ MaxFaults \in Nat

Tasks == 1..MaxTasks

VARIABLES
    item,     \* durable: state, task and delivery of every input
    order,    \* durable: the inputs in the order in which they were enqueued
    disk,     \* durable: tasks.json, status and worker of every task
    lease,    \* durable: the task whose host holds the lock of the session, or 0
    file,     \* durable: the inputs in the history file of the session
    task,     \* memory: status, worker and input of a task, and where run() is
    lane,     \* memory: the lane of the session
    op,       \* memory: the operation inside #serial
    jobs,     \* memory: background operations that wait for #serial
    closing,  \* memory: the host is stopping
    failed,   \* memory: a background operation has failed
    up,       \* the host is running
    proc,     \* the worker process of a task
    wire,     \* the delivery of an input: on its way, or answered
    faults    \* the faults so far

durable == <<item, order, disk, lease, file>>
memory == <<task, lane, op, jobs, closing, failed>>
world == <<up, proc, wire, faults>>
vars == <<durable, memory, world>>

InputStates == {"none", "queued", "paused", "dispatching", "accepted", "consumed",
                "unknown", "removed"}
Finals == {"succeeded", "failed", "cancelled", "interrupted"}
terminal(status) == status \in Finals

NoTask == [status |-> "none", worker |-> FALSE, input |-> NoInput, pc |-> "none", bad |-> FALSE]
NoLane == [on |-> FALSE, task |-> 0, paused |-> FALSE]
Idle == [kind |-> "idle", input |-> NoInput, task |-> 0]
Op(kind, i, t) == [kind |-> kind, input |-> i, task |-> t]
NoProc == [phase |-> "none", seen |-> {}, took |-> {}]

Alive(t) == proc[t].phase \in {"idle", "streaming", "ended"}
\* What is left of a dead worker, and of what was on its way to it.
Died(t) == [proc[t] EXCEPT !.phase = "dead", !.took = {}]
Lost(t) == [i \in Inputs |-> IF item[i].task = t /\ wire[i] = "late" THEN "none" ELSE wire[i]]
Undecided == {"dispatching", "accepted", "unknown"}
In(S) == {i \in Inputs : item[i].state \in S}
Serial == up /\ op.kind = "idle"
Job(kind, t, i) == [kind |-> kind, task |-> t, input |-> i]

\* What tasks.json holds of the tasks in memory.
Saved(ts) == [t \in Tasks |-> [status |-> ts[t].status, worker |-> ts[t].worker,
                               input |-> ts[t].input]]

Init ==
    /\ \E d \in Deliveries :
          item = [i \in Inputs |-> [state |-> "none", task |-> 0, delivery |-> d[i]]]
    /\ order = <<>>
    /\ task = [t \in Tasks |-> NoTask]
    /\ disk = Saved(task)
    /\ lease = 0 /\ file = {}
    /\ lane = NoLane /\ op = Idle /\ jobs = <<>>
    /\ closing = FALSE /\ failed = FALSE /\ up = TRUE
    /\ proc = [t \in Tasks |-> NoProc]
    /\ wire = [i \in Inputs |-> "none"]
    /\ faults = 0

-----------------------------------------------------------------------------
(* The store and the controller's helpers.                                 *)

\* The transitions that the store allows.
Moves == [queued |-> {"dispatching", "paused", "removed"}, paused |-> {"queued", "removed"},
          dispatching |-> {"accepted", "consumed", "unknown"},
          accepted |-> {"consumed", "unknown"}, unknown |-> {"consumed"},
          consumed |-> {}, removed |-> {}, none |-> {}]

\* A set of inputs moved to a state.
Moved(it, S, state) ==
    [i \in Inputs |-> IF i \in S /\ state \in Moves[it[i].state]
                      THEN [it[i] EXCEPT !.state = state] ELSE it[i]]

\* #reconcile: only the history file proves that an input was consumed.
Reconciled(it, S) ==
    Moved(it, {i \in S : it[i].state \in Undecided /\ i \in file}, "consumed")

\* #pause: what waits is paused.
Paused(it) == Moved(it, {i \in Inputs : it[i].state = "queued"}, "paused")
PauseLane == [lane EXCEPT !.paused = lane.on]

InUse ==
    \E t \in Tasks : task[t].status # "none" /\ (~terminal(task[t].status) \/ task[t].worker)

\* #active: the task runs and its worker can take inputs.
Active(t) == task[t].status = "running" /\ task[t].worker

\* The request id of a start is derived from the input, and known for ever.
Requested(i) == \E t \in Tasks : task[t].input = i

\* The places in the order of the inputs that wait for #pump: it starts the first.
Waiting(it) ==
    {k \in DOMAIN order : it[order[k]].state = "queued" /\ it[order[k]].delivery = "queue"}

\* #pump up to its call of tasks.start.
Pump(l, it) ==
    IF failed \/ closing \/ l.paused
    THEN item' = it /\ lane' = l /\ op' = Idle
    ELSE IF \E i \in Inputs : it[i].state \in Undecided \union {"paused"}
    THEN item' = Paused(it) /\ lane' = [l EXCEPT !.paused = TRUE] /\ op' = Idle
    ELSE IF Waiting(it) = {}
    THEN item' = it /\ lane' = NoLane /\ op' = Idle
    ELSE /\ item' = it /\ lane' = l
         /\ \E k \in Waiting(it) : (\A j \in Waiting(it) : k <= j) /\ op' = Op("pump", order[k], 0)

-----------------------------------------------------------------------------
(* Commands.                                                               *)

\* A command is refused while the host stops or has failed.
Accepts == Serial /\ ~closing /\ ~failed

\* Mutant: a repeated admission is taken for a new one.
UnknownToQueueIfPaused(i) == item[i].state \in {"none", "paused"}

\* #prior: the queue does not have the input yet.
UnknownToQueue(i) == item[i].state = "none"

\* enqueueInput and deliverSupplement up to the save of the queued input.
Admit(i, t) ==
    /\ Accepts /\ UnknownToQueue(i) /\ Active(t)
    /\ lane.on => lane.task = t /\ ~lane.paused
    /\ lane' = IF lane.on THEN lane ELSE [on |-> TRUE, task |-> t, paused |-> FALSE]
    /\ order' = Append(order, i)
    /\ item' = [item EXCEPT ![i] = [@ EXCEPT !.state = "queued"]]
    /\ UNCHANGED <<disk, lease, file, task, jobs, closing, failed, world>>

EnqueueInput(i, t) == item[i].delivery = "queue" /\ Admit(i, t) /\ UNCHANGED op

DeliverSupplement(i, t) ==
    item[i].delivery = "steer" /\ Admit(i, t) /\ op' = Op("mark", i, t)

\* An input that is about to be delivered by a task.
Dispatched(i, t) == [item EXCEPT ![i] = [@ EXCEPT !.state = "dispatching", !.task = t]]

\* The intent is saved before the worker is called.
MarkDispatching ==
    /\ up /\ op.kind = "mark"
    /\ item' = Dispatched(op.input, op.task)
    /\ op' = [op EXCEPT !.kind = "deliver"]
    /\ UNCHANGED <<order, disk, lease, file, task, lane, jobs, closing, failed, world>>

\* #deliver: the task is checked once more, then the input is sent.
Send ==
    /\ up /\ op.kind = "deliver"
    /\ IF ~closing /\ Active(op.task)
       THEN /\ wire' = [wire EXCEPT ![op.input] = "sent"]
            /\ op' = [op EXCEPT !.kind = "await"]
       ELSE op' = [op EXCEPT !.kind = "lookup"] /\ UNCHANGED wire
    /\ UNCHANGED <<durable, task, lane, jobs, closing, failed, up, proc, faults>>

\* The answer to a supplement.
Acknowledged ==
    /\ up /\ op.kind = "await" /\ wire[op.input] \in {"accepted", "consumed"}
    /\ item' = Reconciled(Moved(item, {op.input}, "accepted"), {op.input})
    /\ wire' = [wire EXCEPT ![op.input] = "none"]
    /\ op' = Idle
    /\ UNCHANGED <<order, disk, lease, file, task, lane, jobs, closing, failed,
                   up, proc, faults>>

\* The wait for an answer ends without one: it is refused, lost, or late.
GiveUp(i) == [wire EXCEPT ![i] = IF @ = "sent" THEN "late" ELSE "none"]

Unacknowledged ==
    /\ up /\ op.kind = "await"
    /\ wire' = GiveUp(op.input)
    /\ op' = [op EXCEPT !.kind = "lookup"]
    /\ UNCHANGED <<durable, task, lane, jobs, closing, failed, up, proc, faults>>

\* What an unconfirmed input becomes when the lookup has not proved it consumed.
Unconfirmed(i) == Moved(item, {i}, "unknown")

\* The lookup either finds the input consumed, and the file proves it, or the
\* input is unknown and the lane is paused.
Lookup ==
    /\ up /\ op.kind = "lookup"
    /\ \/ /\ Alive(op.task) /\ op.input \in proc[op.task].took /\ op.input \in file
          /\ item' = Reconciled(item, {op.input}) /\ UNCHANGED lane
       \/ item' = Paused(Unconfirmed(op.input)) /\ lane' = PauseLane
    /\ op' = Idle
    /\ UNCHANGED <<order, disk, lease, file, task, jobs, closing, failed, world>>

RemoveQueuedInput(i) ==
    /\ Accepts /\ item[i].state \in {"queued", "paused"}
    /\ item' = Moved(item, {i}, "removed")
    /\ UNCHANGED <<order, disk, lease, file, memory, world>>

\* The one command, besides queries, that a failed controller still takes.
ReconcileInput(i) ==
    /\ Serial /\ ~closing /\ item[i].state \in Undecided /\ i \in file
    /\ item' = Reconciled(item, {i})
    /\ UNCHANGED <<order, disk, lease, file, memory, world>>

ResumeQueue ==
    /\ Accepts /\ ~InUse
    /\ In(Undecided) = {}
    /\ \A i \in In({"queued", "paused"}) : item[i].delivery # "steer"
    /\ LET some == {i \in In({"paused"}) : item[i].delivery = "queue"}
       IN  Pump([on |-> TRUE, task |-> 0, paused |-> FALSE], Moved(item, some, "queued"))
    /\ UNCHANGED <<order, disk, lease, file, task, jobs, closing, failed, world>>

\* submitPrompt up to its call of tasks.start.
SubmitPrompt(i) ==
    /\ Accepts /\ item[i].delivery = "prompt" /\ ~Requested(i)
    /\ \A j \in Inputs : item[j].state \in {"none", "consumed", "removed"}
    /\ op' = Op("submit", i, 0)
    /\ UNCHANGED <<durable, task, lane, jobs, closing, failed, world>>

-----------------------------------------------------------------------------
(* HostTasks.start: a start is checked first, and its task is created after *)
(* several awaits.                                                          *)

Free == {t \in Tasks : task[t].pc = "none"}
NextFree(t) == t \in Free /\ \A u \in Free : t <= u

Goes(t, pc) == task' = [task EXCEPT ![t] = [@ EXCEPT !.pc = pc]]

Starting == up /\ op.kind \in {"pump", "submit"}

\* A start whose request is known answers with the task that it once created.
StartKnown ==
    /\ Starting /\ op.task = 0 /\ Requested(op.input)
    /\ op' = Idle
    /\ UNCHANGED <<durable, task, lane, jobs, closing, failed, world>>

CheckStart ==
    /\ Starting /\ op.task = 0 /\ ~Requested(op.input)
    /\ ~closing /\ ~InUse
    /\ \E t \in Tasks : NextFree(t) /\ op' = [op EXCEPT !.task = t] /\ Goes(t, "checked")
    /\ UNCHANGED <<durable, lane, jobs, closing, failed, world>>

\* The session is in use, the host stops, or the account or the model is not
\* available.
StartFails ==
    /\ Starting /\ (op.task = 0 => ~Requested(op.input))
    /\ task' = IF op.task = 0 THEN task ELSE [task EXCEPT ![op.task] = NoTask]
    /\ op' = Idle
    /\ IF op.kind = "pump" THEN item' = Paused(item) /\ lane' = PauseLane
                           ELSE UNCHANGED <<item, lane>>
    /\ UNCHANGED <<order, disk, lease, file, jobs, closing, failed, world>>

Created(t, i, pc) ==
    [task EXCEPT ![t] = [NoTask EXCEPT !.status = "starting", !.input = i, !.pc = pc]]

\* The task is created and saved.  A queued input is dispatched before it runs.
Create ==
    /\ Starting /\ op.task # 0 /\ ~closing
    /\ task' = Created(op.task, op.input, IF op.kind = "pump" THEN "admit" ELSE "lease")
    /\ disk' = Saved(task')
    /\ op' = IF op.kind = "pump" THEN [op EXCEPT !.kind = "admit"] ELSE Idle
    /\ UNCHANGED <<item, order, lease, file, lane, jobs, closing, failed, world>>

BeforeRun ==
    /\ up /\ op.kind = "admit"
    /\ item' = Dispatched(op.input, op.task)
    /\ lane' = [lane EXCEPT !.task = op.task]
    /\ Goes(op.task, "lease")
    /\ op' = Idle
    /\ UNCHANGED <<order, disk, lease, file, jobs, closing, failed, world>>

\* The save of the intent fails: the task ends before it has run.
AdmissionFails ==
    /\ up /\ op.kind = "admit" /\ faults < MaxFaults
    /\ faults' = faults + 1
    /\ task' = [task EXCEPT ![op.task] = [@ EXCEPT !.status = "failed", !.pc = "done"]]
    /\ disk' = Saved(task')
    /\ jobs' = Append(jobs, Job("finished", op.task, NoInput))
    /\ item' = Paused(item)
    /\ lane' = [lane EXCEPT !.task = op.task, !.paused = TRUE]
    /\ op' = Idle
    /\ UNCHANGED <<order, lease, file, closing, failed, up, proc, wire>>

\* A client's startTask, which does not go through the controller.
StartTask ==
    /\ up /\ ~closing /\ ~InUse
    /\ Cardinality({t \in Tasks \ Free : task[t].input = NoInput /\ t # op.task}) < MaxPlain
    /\ \E t \in Tasks : NextFree(t) /\ Goes(t, "checked")
    /\ UNCHANGED <<durable, lane, op, jobs, closing, failed, world>>

CreateTask(t) ==
    /\ up /\ task[t].pc = "checked" /\ op.task # t
    /\ \/ /\ ~closing
          /\ task' = Created(t, NoInput, "lease") /\ disk' = Saved(task')
       \/ task' = [task EXCEPT ![t] = NoTask] /\ UNCHANGED disk
    /\ UNCHANGED <<item, order, lease, file, lane, op, jobs, closing, failed, world>>

-----------------------------------------------------------------------------
(* HostTasks.run.                                                          *)

At(t, pc) == up /\ task[t].pc = pc
Throws(t) == task' = [task EXCEPT ![t] = [@ EXCEPT !.pc = "stop", !.bad = TRUE]]
Stopping(t) == task[t].status = "cancelling" \/ closing

Turns(t, phase) == proc' = [proc EXCEPT ![t] = [@ EXCEPT !.phase = phase]]

\* acquireOwnership of the session, whose lock directory exists or not.
MayOwn(t) == lease = 0

\* The session is taken and the worker is spawned, which does nothing before
\* it is told to begin.
TakeLease(t) ==
    /\ At(t, "lease")
    /\ IF ~closing /\ MayOwn(t)
       THEN lease' = t /\ Goes(t, "identity") /\ Turns(t, "spawned")
       ELSE UNCHANGED <<lease, proc>> /\ Throws(t)
    /\ UNCHANGED <<item, order, disk, file, lane, op, jobs, closing, failed,
                   up, wire, faults>>

\* onIdentity saves who the worker is.
KnownWorker(t) ==
    /\ task' = [task EXCEPT ![t] = [@ EXCEPT !.worker = TRUE, !.pc = "ready"]]
    /\ disk' = Saved(task')

Identify(t) ==
    /\ At(t, "identity")
    /\ KnownWorker(t)
    /\ Turns(t, "idle")
    /\ UNCHANGED <<item, order, lease, file, lane, op, jobs, closing, failed,
                   up, wire, faults>>

\* The worker is ready.  A submitted prompt is first bound to the session.
Ready(t) ==
    /\ At(t, "ready")
    /\ IF Stopping(t)
       THEN Goes(t, "stop") /\ UNCHANGED jobs
       ELSE IF task[t].input # NoInput /\ item[task[t].input].delivery = "prompt"
       THEN Goes(t, "bind") /\ jobs' = Append(jobs, Job("bind", t, task[t].input))
       ELSE Goes(t, "bound") /\ UNCHANGED jobs
    /\ UNCHANGED <<durable, lane, op, closing, failed, world>>

Runs(t, pc) == task' = [task EXCEPT ![t] = [@ EXCEPT !.status = "running", !.pc = pc]]

\* The task runs: its input is sent to the worker, or a client's plain prompt.
Bound(t) ==
    /\ At(t, "bound")
    /\ IF Stopping(t)
       THEN Goes(t, "stop") /\ UNCHANGED <<wire, proc>>
       ELSE IF task[t].input # NoInput
       THEN /\ Runs(t, "ack")
            /\ wire' = [wire EXCEPT ![task[t].input] = "sent"] /\ UNCHANGED proc
       ELSE /\ Runs(t, "settle")
            /\ IF proc[t].phase = "idle" THEN Turns(t, "streaming") ELSE UNCHANGED proc
            /\ UNCHANGED wire
    /\ UNCHANGED <<durable, lane, op, jobs, closing, failed, up, faults>>

Ack(t) ==
    /\ At(t, "ack") /\ wire[task[t].input] \in {"accepted", "consumed"}
    /\ wire' = [wire EXCEPT ![task[t].input] = "none"]
    /\ jobs' = Append(jobs, Job("accepted", t, task[t].input))
    /\ Goes(t, "settle")
    /\ UNCHANGED <<durable, lane, op, closing, failed, up, proc, faults>>

NoAck(t) ==
    /\ At(t, "ack")
    /\ wire' = GiveUp(task[t].input)
    /\ Throws(t)
    /\ UNCHANGED <<durable, lane, op, jobs, closing, failed, up, proc, faults>>

\* The agent has settled.
Settled(t) ==
    /\ At(t, "settle") /\ proc[t].phase = "ended"
    /\ Goes(t, "stop")
    /\ UNCHANGED <<durable, lane, op, jobs, closing, failed, world>>

\* The worker fails or exits, a command to it fails, or the time is up.
RunFails(t) ==
    /\ up /\ task[t].pc \in {"identity", "ready", "settle"}
    /\ Throws(t)
    /\ UNCHANGED <<durable, lane, op, jobs, closing, failed, world>>

\* Mutant: the session is given back although the worker may still run.
KeptUnconfirmedNot(t) == 0

\* What the lock of the session is when the end of the worker is not confirmed.
KeptUnconfirmed(t) == lease

\* The finally of run(): the worker is stopped, and only then is the session
\* given back and the end of the task published.
Stop(t) ==
    /\ At(t, "stop")
    /\ \E sure \in IF Alive(t) THEN BOOLEAN ELSE {TRUE} :
          /\ proc' = IF sure /\ proc[t].phase # "none"
                     THEN [proc EXCEPT ![t] = Died(t)] ELSE proc
          /\ wire' = IF sure THEN Lost(t) ELSE wire
          /\ lease' = IF lease # t THEN lease ELSE IF sure THEN 0 ELSE KeptUnconfirmed(t)
          /\ task' = [task EXCEPT ![t] = [task[t] EXCEPT !.pc = "done", !.worker = @ /\ ~sure,
                        !.bad = FALSE,
                        !.status = IF ~sure THEN "failed"
                                   ELSE IF @ = "cancelling" THEN "cancelled"
                                   ELSE IF task[t].bad THEN "failed" ELSE "succeeded"]]
    /\ disk' = Saved(task')
    /\ jobs' = Append(jobs, Job("finished", t, NoInput))
    /\ UNCHANGED <<item, order, file, lane, op, closing, failed, up, faults>>

\* HostTasks.cancel.
Cancel(t) ==
    /\ up /\ task[t].status \in {"starting", "running"}
    /\ task' = [task EXCEPT ![t] = [@ EXCEPT !.status = "cancelling"]]
    /\ disk' = Saved(task')
    /\ jobs' = Append(jobs, Job("pause", t, NoInput))
    /\ UNCHANGED <<item, order, lease, file, lane, op, closing, failed, world>>

\* The host is asked to stop: nothing is admitted any more, tasks are cancelled.
CloseHost ==
    /\ up /\ ~closing /\ faults < MaxFaults
    /\ closing' = TRUE /\ faults' = faults + 1
    /\ task' = [t \in Tasks |-> IF task[t].status \in {"starting", "running"}
                                THEN [task[t] EXCEPT !.status = "cancelling"] ELSE task[t]]
    /\ disk' = Saved(task')
    /\ UNCHANGED <<item, order, lease, file, lane, op, jobs, failed, up, proc, wire>>

-----------------------------------------------------------------------------
(* Background operations of the controller.                                *)

\* Mutant: the inputs of a task that has ended are left as they are.
EndedUnlooked(t) == item

\* What #finished makes of the inputs of a task: consumed if the file proves
\* it, unknown otherwise.
Ended(t) ==
    LET own == {i \in In(Undecided) : item[i].task = t}
    IN  Moved(Reconciled(item, own), own, "unknown")

\* #finished.
Finished(t) ==
    LET it == Ended(t)
        uncertain == \E i \in Inputs : it[i].task = t /\ it[i].state = "unknown"
        rest == Moved(it, {i \in Inputs : it[i].state = "queued" /\ item[i].delivery = "steer"}, "paused")
    IN  IF ~lane.on \/ lane.task # t
        THEN item' = it /\ UNCHANGED <<lane, op>>
        ELSE IF closing \/ uncertain \/ task[t].status # "succeeded" \/ task[t].worker
        THEN item' = Paused(rest) /\ lane' = PauseLane /\ UNCHANGED op
        ELSE Pump(lane, rest)

\* #pauseTask.
PauseTask(t) ==
    /\ IF lane.on /\ lane.task = t THEN item' = Paused(item) /\ lane' = PauseLane
                                   ELSE UNCHANGED <<item, lane>>
    /\ UNCHANGED op

\* beforePrompt: the submitted input is saved as dispatching, for this task.
BindPrompt(t, i) ==
    /\ IF Stopping(t)
       THEN Throws(t) /\ UNCHANGED <<item, order>>
       ELSE /\ item' = Dispatched(i, t)
            /\ order' = Append(order, i)
            /\ Goes(t, "bound")
    /\ UNCHANGED <<lane, op>>

RunJob ==
    /\ Serial /\ jobs # <<>>
    /\ jobs' = Tail(jobs)
    /\ LET j == Head(jobs) IN
       \/ j.kind = "finished" /\ Finished(j.task) /\ UNCHANGED <<order, task>>
       \/ j.kind = "pause" /\ PauseTask(j.task) /\ UNCHANGED <<order, task>>
       \/ j.kind = "input" /\ item' = Reconciled(item, {j.input}) /\ UNCHANGED <<order, task, lane, op>>
       \/ j.kind = "accepted" /\ item' = Moved(item, {j.input}, "accepted")
                              /\ UNCHANGED <<order, task, lane, op>>
       \/ j.kind = "bind" /\ BindPrompt(j.task, j.input)
    /\ UNCHANGED <<disk, lease, file, closing, failed, world>>

\* A background operation fails: the controller takes no more commands.
JobFails ==
    /\ Serial /\ jobs # <<>> /\ faults < MaxFaults
    /\ faults' = faults + 1
    /\ jobs' = Tail(jobs)
    /\ IF Head(jobs).kind = "bind"
       THEN Throws(Head(jobs).task) /\ UNCHANGED <<failed, lane>>
       ELSE failed' = TRUE /\ lane' = PauseLane /\ UNCHANGED task
    /\ UNCHANGED <<durable, op, closing, up, proc, wire>>

-----------------------------------------------------------------------------
(* The worker.                                                             *)

\* The bridge's answer to a delivery.
Deliver(t, i) ==
    LET fits == IF item[i].delivery = "steer" THEN proc[t].phase = "streaming" ELSE proc[t].phase = "idle"
        answer == IF i \in proc[t].took \union file THEN "consumed"
                  ELSE IF i \in proc[t].seen \/ fits THEN "accepted" ELSE "refused"
    IN  /\ Alive(t) /\ item[i].task = t /\ wire[i] \in {"sent", "late"}
        /\ wire' = [wire EXCEPT ![i] = IF @ = "sent" THEN answer ELSE "none"]
        /\ proc' = IF answer # "accepted" THEN proc
                   ELSE [proc EXCEPT ![t] = [proc[t] EXCEPT !.seen = @ \union {i},
                           !.phase = IF item[i].delivery = "steer" THEN @ ELSE "streaming"]]
        /\ UNCHANGED <<durable, memory, up, faults>>

\* An accepted input enters the branch in memory; the host is told.
Take(t, i) ==
    /\ proc[t].phase = "streaming" /\ i \in proc[t].seen \ proc[t].took
    /\ proc' = [proc EXCEPT ![t] = [proc[t] EXCEPT !.took = @ \union {i}]]
    /\ jobs' = IF up /\ task[t].worker THEN Append(jobs, Job("input", t, i)) ELSE jobs
    /\ UNCHANGED <<durable, task, lane, op, closing, failed, up, wire, faults>>

\* The branch is written to the history file.
Flush(t, i) ==
    /\ Alive(t) /\ i \in proc[t].took \ file
    /\ file' = file \union {i}
    /\ UNCHANGED <<item, order, disk, lease, memory, world>>

EndTurn(t) ==
    /\ proc[t].phase = "streaming"
    /\ Turns(t, "ended")
    /\ UNCHANGED <<durable, memory, up, wire, faults>>

WorkerDies(t) ==
    /\ Alive(t)
    /\ proc' = [proc EXCEPT ![t] = Died(t)]
    /\ wire' = Lost(t)
    /\ UNCHANGED <<durable, memory, up, faults>>

-----------------------------------------------------------------------------
(* Crash and restart of the host.                                          *)

\* A worker that has begun lives on; what was sent may still arrive.
Crash ==
    /\ up /\ faults < MaxFaults
    /\ faults' = faults + 1
    /\ up' = FALSE
    /\ task' = [t \in Tasks |-> NoTask] /\ lane' = NoLane /\ op' = Idle /\ jobs' = <<>>
    /\ closing' = FALSE /\ failed' = FALSE
    /\ proc' = [t \in Tasks |-> IF proc[t].phase = "spawned"
                                THEN [proc[t] EXCEPT !.phase = "dead"] ELSE proc[t]]
    /\ wire' = [i \in Inputs |-> IF wire[i] = "sent" THEN "late"
                                 ELSE IF wire[i] = "late" THEN "late" ELSE "none"]
    /\ UNCHANGED durable

\* Mutant: deliveries under way are taken up again.
RestartedAgain(state) ==
    IF state \in {"queued", "dispatching"} THEN "paused"
    ELSE IF state = "accepted" THEN "unknown" ELSE state

\* What the store's load makes of an input.
Restarted(state) ==
    IF state = "queued" THEN "paused"
    ELSE IF state \in {"dispatching", "accepted"} THEN "unknown" ELSE state

\* recoverWorkers ends the workers it knows and releases the dead host's
\* sessions, then the store and the tasks are loaded.
Restart ==
    LET open == {t \in Tasks : disk[t].status # "none" /\ ~(terminal(disk[t].status) /\ ~disk[t].worker)}
    IN  /\ ~up
        /\ up' = TRUE
        /\ proc' = [t \in Tasks |-> IF disk[t].worker /\ Alive(t)
                                    THEN Died(t) ELSE proc[t]]
        /\ lease' = IF lease \in open THEN 0 ELSE lease
        /\ item' = [i \in Inputs |-> [item[i] EXCEPT !.state = Restarted(item[i].state)]]
        /\ task' = [t \in Tasks |->
                      IF disk[t].status = "none" THEN NoTask
                      ELSE [NoTask EXCEPT !.input = disk[t].input, !.pc = "done",
                              !.status = IF terminal(disk[t].status) THEN disk[t].status
                                         ELSE "interrupted"]]
        /\ disk' = Saved(task')
        /\ wire' = [i \in Inputs |-> "none"]
        /\ UNCHANGED <<order, file, lane, op, jobs, closing, failed, faults>>

-----------------------------------------------------------------------------
Controller ==
    \/ MarkDispatching \/ Send \/ Acknowledged \/ Unacknowledged \/ Lookup
    \/ StartKnown \/ CheckStart \/ StartFails \/ Create \/ BeforeRun

Run(t) ==
    \/ TakeLease(t) \/ Identify(t) \/ Ready(t) \/ Bound(t)
    \/ Ack(t) \/ NoAck(t) \/ Settled(t) \/ RunFails(t) \/ Stop(t)

Next ==
    \/ \E i \in Inputs :
          \/ RemoveQueuedInput(i) \/ ReconcileInput(i) \/ SubmitPrompt(i)
          \/ \E t \in Tasks : \/ EnqueueInput(i, t) \/ DeliverSupplement(i, t)
                              \/ Deliver(t, i) \/ Take(t, i) \/ Flush(t, i)
    \/ ResumeQueue \/ StartTask \/ CloseHost
    \/ Controller \/ AdmissionFails \/ RunJob \/ JobFails
    \/ \E t \in Tasks : Run(t) \/ CreateTask(t) \/ Cancel(t) \/ EndTurn(t) \/ WorkerDies(t)
    \/ Crash \/ Restart

Spec == Init /\ [][Next]_vars

-----------------------------------------------------------------------------
(* Properties.                                                             *)

Statuses == Finals \union {"none", "starting", "running", "cancelling"}
Places == {"none", "checked", "admit", "lease", "identity", "ready", "bind", "bound", "ack",
           "settle", "stop", "done"}
Phases == {"none", "spawned", "idle", "streaming", "ended", "dead"}
OpKinds == {"idle", "mark", "deliver", "await", "lookup", "pump", "submit", "admit"}
JobKinds == {"finished", "pause", "input", "accepted", "bind"}
AnyInput == Inputs \union {NoInput}

Items == [state : InputStates, task : 0..MaxTasks, delivery : {"steer", "queue", "prompt"}]
Entries == [status : Statuses, worker : BOOLEAN, input : AnyInput]
TaskRecords ==
    [status : Statuses, worker : BOOLEAN, input : AnyInput, pc : Places, bad : BOOLEAN]
Workers == {w \in [phase : Phases, seen : SUBSET Inputs, took : SUBSET Inputs] : w.took \subseteq w.seen}
Lanes == [on : BOOLEAN, task : 0..MaxTasks, paused : BOOLEAN]
Ops == [kind : OpKinds, input : AnyInput, task : 0..MaxTasks]
Jobs == [kind : JobKinds, task : Tasks, input : AnyInput]
Wires == {"none", "sent", "late", "accepted", "refused", "consumed"}

\* Every input is admitted to the order once.
OrderOK ==
    /\ order \in Seq(Inputs)
    /\ \A j, k \in DOMAIN order : order[j] = order[k] => j = k

TypeOK ==
    /\ item \in [Inputs -> Items] /\ OrderOK
    /\ disk \in [Tasks -> Entries]
    /\ lease \in 0..MaxTasks /\ file \subseteq Inputs
    /\ task \in [Tasks -> TaskRecords] /\ proc \in [Tasks -> Workers]
    /\ lane \in Lanes /\ op \in Ops /\ jobs \in Seq(Jobs)
    /\ closing \in BOOLEAN /\ failed \in BOOLEAN /\ up \in BOOLEAN
    /\ wire \in [Inputs -> Wires] /\ faults \in 0..MaxFaults

\* What the host still offers for delivery, or shows as removed, no worker has
\* taken, whatever answers are lost and whenever the host crashes: an input
\* that is resumed or sent again is delivered for the first time.
OfferedIsUntaken ==
    \A i \in In({"none", "queued", "paused", "removed"}), t \in Tasks : i \notin proc[t].seen

\* The session is locked for a task as long as its worker may run, so that two
\* workers never have the session open, also when a client's task races with
\* the queue and when a crashed host has left a worker; and a host that is up
\* keeps no lock for a task that has ended and whose worker is gone.
LockFollowsWorker ==
    /\ \A t \in Tasks : Alive(t) => lease = t
    /\ up /\ lease # 0 => task[lease].pc # "none" /\ (task[lease].pc = "done" => task[lease].worker)

\* When the host has come to rest, every delivery is decided: proved by the
\* history, or declared unknown for the user to look at.
Rests == Serial /\ jobs = <<>> /\ ~failed /\ \A t \in Tasks : task[t].pc \in {"none", "done"}
DeliveriesDecided == Rests => In({"dispatching", "accepted"}) = {}

-----------------------------------------------------------------------------
(* The inductive invariant behind them.                                    *)

\* What tasks.json says of a task is what memory says, up to the difference
\* between starting, running and cancelling.
SavedIsTrue(t) ==
    /\ disk[t].worker = task[t].worker /\ disk[t].input = task[t].input
    /\ disk[t].status = "none" <=> task[t].status = "none"
    /\ terminal(disk[t].status) <=> terminal(task[t].status)

\* A task of a host that is up: the lock, the worker and the status go with the
\* place of run().
RunsWithLock(t) ==
    /\ task[t].pc \in {"none", "checked"} <=> task[t].status = "none"
    /\ task[t].pc \in {"none", "checked"} => task[t].input = NoInput
    /\ task[t].pc = "done" <=> terminal(task[t].status)
    /\ task[t].pc \in {"none", "checked", "admit", "lease"} =>
          proc[t].phase = "none" /\ lease # t /\ ~task[t].worker
    /\ task[t].pc \in {"identity", "ready", "bind", "bound", "ack", "settle"} => lease = t
    /\ task[t].pc = "stop" => lease = t \/ proc[t].phase = "none"
    /\ task[t].pc = "done" /\ lease = t => task[t].worker
    /\ Alive(t) => lease = t /\ task[t].worker
    /\ SavedIsTrue(t)

\* A task of a host that has crashed: tasks.json knows every worker that lives
\* on, and every session that is locked is one that a restart releases.
LeftBehind(t) ==
    /\ task[t] = NoTask
    /\ disk[t].status = "none" => proc[t].phase = "none" /\ disk[t].input = NoInput
    /\ proc[t].phase # "spawned"
    /\ Alive(t) => lease = t /\ disk[t].worker
    /\ lease = t => disk[t].status # "none" /\ (terminal(disk[t].status) => disk[t].worker)

LockInv == \A t \in Tasks : IF up THEN RunsWithLock(t) ELSE LeftBehind(t)
DownInv == ~up => lane = NoLane /\ op = Idle /\ jobs = <<>> /\ ~closing /\ ~failed

\* The worker may have been given the input.
Touched(i) == item[i].state \in {"dispatching", "accepted", "consumed", "unknown"}
Prompt(i) == item[i].delivery = "prompt"

\* The end of the task is still to come, or still to be told to the controller.
Ahead(t) ==
    \/ task[t].pc \notin {"none", "checked", "done"}
    \/ \E k \in DOMAIN jobs : jobs[k].kind = "finished" /\ jobs[k].task = t

\* The operation inside #serial is the only one that knows its input or task.
OpInv ==
    /\ op.kind # "idle" => op.input \in Inputs
    /\ op.kind = "pump" => item[op.input].delivery = "queue"
    /\ op.kind = "submit" => Prompt(op.input)
    /\ op.kind \in {"pump", "submit"} /\ op.task # 0 =>
          task[op.task].pc = "checked" /\ ~Requested(op.input)
    /\ op.kind = "admit" => /\ op.task # 0 /\ task[op.task].pc = "admit"
                            /\ task[op.task].input = op.input /\ ~Prompt(op.input)
    /\ op.kind = "mark" => op.task # 0 /\ Ahead(op.task) /\ ~Prompt(op.input)
    /\ op.kind \in {"deliver", "await", "lookup"} => op.task # 0 /\ Touched(op.input)

\* A task waits for the one job that binds its prompt.
JobsInv ==
    /\ \A k \in DOMAIN jobs : jobs[k].kind = "bind" =>
          /\ task[jobs[k].task].pc = "bind" /\ jobs[k].input = task[jobs[k].task].input
          /\ jobs[k].input \in Inputs /\ Prompt(jobs[k].input)
    /\ \A j, k \in DOMAIN jobs :
          jobs[j].kind = "bind" /\ jobs[k].kind = "bind" /\ jobs[j].task = jobs[k].task => j = k

\* What is on its way to a worker, or has reached one, is saved as dispatched,
\* before the worker is told to begin and before a task sends it.
SentInv ==
    /\ \A i \in Inputs : wire[i] \in {"sent", "late"} => Touched(i)
    /\ \A t \in Tasks : \A i \in proc[t].seen : Touched(i)
    /\ \A t \in Tasks : task[t].input \in Inputs =>
          /\ task[t].pc = "bound" => Touched(task[t].input)
          /\ task[t].pc \in {"lease", "identity", "ready"} /\ ~Prompt(task[t].input)
                => Touched(task[t].input)

\* An input has one task, and a prompt is not in the queue before it is bound.
InputInv ==
    /\ \A t, u \in Tasks : disk[t].input = disk[u].input /\ disk[t].input # NoInput => t = u
    /\ \A k \in DOMAIN order : item[order[k]].state # "none"
    /\ \A i \in Inputs : Prompt(i) /\ item[i].state # "none" => \E t \in Tasks : disk[t].input = i
    /\ \A t \in Tasks : task[t].pc \in {"lease", "identity", "ready", "bind"} =>
          \A i \in Inputs : task[t].input = i /\ Prompt(i) => item[i].state = "none"

\* A delivery that is not decided has a task whose end will decide it.
AheadInv ==
    up /\ ~failed => \A i \in In({"dispatching", "accepted"}) : item[i].task # 0 /\ Ahead(item[i].task)

HostInv ==
    /\ TypeOK /\ LockInv /\ DownInv /\ OpInv /\ JobsInv /\ SentInv /\ InputInv /\ AheadInv
=============================================================================
