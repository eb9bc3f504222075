----------------------------- MODULE BatchSwarm -----------------------------
(***************************************************************************)
(* runBatch of the batch swarm: the items of one batch are run by a pool   *)
(* whose capacity ramps up, with retries per item, a failure policy, a     *)
(* deadline and cancellation, and every change of an item is appended to   *)
(* the run's journal before the next step of that item.                    *)
(*                                                                         *)
(* JavaScript runs from one await to the next without interruption, so an  *)
(* action is such a stretch.  What a stretch does to the closure of        *)
(* runBatch is a composition of the closure's own functions (pump,         *)
(* closeQueued, maybeComplete, failRun ...), each an operator from one     *)
(* value of the record m to the next.  The coordinator appends one event   *)
(* after the other (writeTail), so pending emits form a queue; m.queue     *)
(* holds them with the continuation that awaits each.                      *)
(*                                                                         *)
(* Items are indexes in input order.  Prompts, assignments, digests and    *)
(* bounded output projections are left out, and a batch without items,     *)
(* which settles at once, is not an instance.                              *)
(***************************************************************************)
EXTENDS Integers, FiniteSets, Sequences, FiniteSetsExt

CONSTANTS
    N,             \* the number of items
    MaxAttempts,   \* retryPolicy.maxAttempts
    Initial, Ceiling,  \* concurrency.initial and concurrency.max
    Adaptive,      \* concurrency.adaptiveRateLimit
    Policies,      \* the failure policies under which the batch may run
    Threshold,     \* failurePolicy.threshold of quorum and minimum-success
    ItemEnds,      \* how executeItem may end
    MaxCrashes, MaxFaults   \* bounds: crashes, and appends that fail

PolicyKinds == {"fail-fast", "continue", "quorum", "all-required"}

\* A terminal as normalizeItemTerminal and itemStatus see it.
TerminalEnd == [status : {"succeeded", "failed", "cancelled", "budget-exhausted"},
                auth : BOOLEAN, retry : {"none", "retry", "limit"}]

ASSUME BatchAssumption ==
    /\ N \in Nat \ {0}
    /\ MaxAttempts \in Nat \ {0}
    /\ Initial \in Nat \ {0} /\ Ceiling \in Nat /\ Initial <= Ceiling
    /\ Adaptive \in BOOLEAN
    /\ Policies \subseteq PolicyKinds
    /\ Threshold \in 1..N
    /\ ItemEnds \subseteq TerminalEnd
    /\ MaxCrashes \in Nat /\ MaxFaults \in Nat

VARIABLES
    policy,     \* failurePolicy.kind
    m,          \* the closure of runBatch, lost in a crash
    verdict,    \* what runBatch returns, once it has computed it
    projected,  \* durable: the journal as projectBatchSwarmEvents reads it
    terminals,  \* durable: the item terminals of this execution
    started,    \* durable: the attempts with a BatchItemStarted, and in which execution
    ended,      \* durable: those of them with an authoritative end that is no success
    exec,       \* executions of the batch so far
    faults      \* appends that have failed so far

batchVars == <<policy, m, verdict, projected, terminals, started, ended, exec, faults>>

Items == 1..N
ItemTerminal == {"succeeded", "failed", "cancelled", "skipped", "budget-exhausted"}
Statuses == ItemTerminal \union {"queued", "running"}
Steps == {"idle", "queued", "start", "exec", "end", "rate", "requeue", "sleep",
          "cancel", "close", "gone"}
Phases == {"starting", "running", "settling", "returned", "threw", "down"}
EventKinds == {"BatchStarted", "Queued", "Started", "Terminal", "Capacity", "Requeued",
               "Cancelled", "Closed", "BatchSettled"}

\* One item as newItemSlot makes it and the projection keeps it.
Slot == [status : Statuses, attempts : 0..MaxAttempts, auth : BOOLEAN]
newItemSlot == [status |-> "queued", attempts |-> 0, auth |-> FALSE]

\* A pending emit: the event, and in by the slot that awaits it (0 for pump).
Events == [kind : EventKinds, item : 0..N, attempt : 0..MaxAttempts, status : Statuses,
           auth : BOOLEAN, by : 0..N, retry : {"none", "retry", "limit"}]
Event(kind, i, s, by) ==
    [kind |-> kind, item |-> i, attempt |-> s.attempts, status |-> s.status,
     auth |-> s.auth, by |-> by, retry |-> "none"]

\* The variables of runBatch and of its slots.
Closure ==
    [phase : Phases, slot : [Items -> Slot], pc : [Items -> Steps],
     active : Int, completed : Nat, capacity : 1..Ceiling, next : 1..(N + 1),
     closed : BOOLEAN, abort : {"no", "cancel", "deadline", "fatal"}, fatal : BOOLEAN,
     ramp : BOOLEAN, executed : Nat, prior : Nat, queue : Seq(Events)]

Least(a, b) == IF a <= b THEN a ELSE b

Emit(c, e) == [c EXCEPT !.queue = Append(@, e)]
Aborted(c) == c.abort # "no"
Waiting(c) == {i \in Items : c.slot[i].status = "queued"}
Seated(c)  == {i \in Items : c.pc[i] \notin {"idle", "close", "gone"}}   \* inside runSlot

-----------------------------------------------------------------------------
(* The functions of the closure.                                           *)

aggregateOutcome(c) ==
    LET Of(S) == Cardinality({i \in Items : c.slot[i].status \in S})
        meets == \/ policy = "continue"
                 \/ policy = "quorum" /\ Of({"succeeded"}) >= Threshold
                 \/ /\ policy \in {"fail-fast", "all-required"}
                    /\ Of({"failed", "budget-exhausted"}) = 0 /\ Of({"succeeded"}) = N
    IN  IF Aborted(c) \/ Of({"cancelled"}) > 0 THEN "cancelled"
        ELSE IF meets THEN "completed" ELSE "failed"

\* Mutant: a batch within its deadline is authoritative, whatever its items are.
ReportTrusting(c) ==
    [outcome |-> aggregateOutcome(c), auth |-> c.abort # "deadline",
     assignments |-> c.prior + c.executed]

\* What runBatch reports when the pool has drained.  A batch whose deadline
\* has passed is timed out whatever its items did.
Report(c) ==
    [outcome |-> IF c.abort = "deadline" THEN "timed-out" ELSE aggregateOutcome(c),
     auth |-> /\ c.abort # "deadline"
              /\ \A i \in Items : c.slot[i].status = "skipped" \/ c.slot[i].auth,
     assignments |-> c.prior + c.executed]

maybeComplete(c) ==
    IF c.phase # "running" \/ c.active # 0 THEN c
    ELSE IF c.fatal THEN [c EXCEPT !.phase = "threw"]
    ELSE IF c.completed < N THEN c
    ELSE Emit([c EXCEPT !.phase = "settling"], Event("BatchSettled", 0, newItemSlot, 0))

markQueuedWithoutEvents(c) ==
    [c EXCEPT !.slot = [i \in Items |-> IF i \in Waiting(c)
                            THEN [c.slot[i] EXCEPT !.status = "cancelled", !.auth = FALSE]
                            ELSE c.slot[i]],
              !.completed = @ + Cardinality(Waiting(c))]

\* The first failure closes the batch and aborts what is running.
failRun(c) ==
    LET f == IF c.fatal THEN c
             ELSE markQueuedWithoutEvents([c EXCEPT !.fatal = TRUE, !.closed = TRUE,
                      !.abort = IF Aborted(c) THEN @ ELSE "fatal"])
    IN  IF f.active = 0 THEN maybeComplete(f) ELSE f

\* closeQueued marks one waiting slot behind the index after, and emits its
\* terminal; the loop goes on when that append has been made.
CloseNext(c, after, status, by) ==
    LET rest == {i \in Waiting(c) : i > after} IN
    IF rest = {} THEN c
    ELSE LET i == Min(rest)
             d == [c EXCEPT !.slot[i].status = status, !.completed = @ + 1]
         IN  Emit(d, [Event("Closed", i, d.slot[i], by) EXCEPT !.auth = TRUE])

\* The name closeQueued is called with.
ClosedAs(c) == IF Aborted(c) THEN "cancelled" ELSE "skipped"

scheduleRamp(c) ==
    [c EXCEPT !.ramp = @ \/ (~c.closed /\ c.capacity < Ceiling /\ c.next <= N)]

\* The place of i among the numbers S, and the number at place k.
Rank(S, i) == Cardinality({j \in S : j <= i})
Nth(S, k)  == CHOOSE i \in S : Rank(S, i) = k

Admission(c, i) == Event("Queued", i, c.slot[i], i)

\* The loop of pump with room for so many slots: they are taken in order, and
\* one that has succeeded in an earlier execution needs no room.
AdmitUpTo(c, room) ==
    LET todo == {i \in c.next..N : c.slot[i].status # "succeeded"}
        take == {i \in todo : Rank(todo, i) <= room}
        stop == IF Cardinality(todo) < room THEN N + 1 ELSE 1 + Max(take)
    IN  IF c.closed \/ room <= 0 \/ c.next > N THEN c
        ELSE [c EXCEPT !.next = stop,
                       !.completed = @ + Cardinality((c.next..(stop - 1)) \ take),
                       !.active = @ + Cardinality(take),
                       !.pc = [i \in Items |-> IF i \in take THEN "queued" ELSE @[i]],
                       !.queue = @ \o [k \in 1..Cardinality(take) |-> Admission(c, Nth(take, k))]]

\* Mutant: a slot is reserved only when its queued event has been appended.
AdmitLate(c) == AdmitUpTo(c, N)

Admit(c) == AdmitUpTo(c, c.capacity - c.active)

pump(c) ==
    LET a == Admit([c EXCEPT !.closed = @ \/ Aborted(c)])
        b == IF a.closed /\ ~a.fatal THEN CloseNext(a, 0, ClosedAs(a), 0) ELSE a
    IN  maybeComplete(scheduleRamp(b))

\* What follows a closeQueued that has found no more waiting slots.
AfterClosing(c, by) ==
    IF by = 0 THEN maybeComplete(c)
    ELSE maybeComplete(pump([c EXCEPT !.pc[by] = "gone"]))

closeQueued(c, after, status, by) ==
    LET d == CloseNext(c, after, status, by) IN
    IF d = c THEN AfterClosing(c, by) ELSE d

\* The abort listener that runBatch registers after BatchStarted.
abortAdmission(c) == closeQueued([c EXCEPT !.closed = TRUE], 0, "cancelled", 0)

-----------------------------------------------------------------------------
(* runSlot, from await to await.                                           *)

\* Mutant: the end of an item is not counted.
LeaveUncounted(c, i) == [c EXCEPT !.active = @ - 1]

\* The finally of runSlot.
Leave(c, i) == [c EXCEPT !.active = @ - 1, !.completed = @ + 1]

\* The end of runSlot: fail-fast, finally, closing of the queue, pump.
EndSlot(c, i) ==
    LET f == [c EXCEPT !.closed = @ \/ (policy = "fail-fast" /\ c.slot[i].status # "succeeded"),
                       !.pc[i] = "close"]
        d == Leave(f, i)
    IN  IF d.closed THEN closeQueued(d, 0, ClosedAs(d), i) ELSE AfterClosing(d, i)

\* An aborted slot without a terminal gets one that proves nothing.
AfterLoop(c, i) ==
    IF Aborted(c) /\ ~c.fatal /\ c.slot[i].status \notin ItemTerminal
    THEN LET d == [c EXCEPT !.slot[i].status = "cancelled", !.pc[i] = "cancel"]
         IN  Emit(d, [Event("Cancelled", i, d.slot[i], i) EXCEPT !.auth = FALSE])
    ELSE EndSlot(c, i)

\* Mutant: one attempt too many.
MayAttemptOnceMore(c, i) == ~Aborted(c) /\ c.slot[i].attempts <= MaxAttempts

MayAttempt(c, i) == ~Aborted(c) /\ c.slot[i].attempts < MaxAttempts

\* The head of the loop: the next attempt is counted and announced.
RunSlot(c, i) ==
    IF MayAttempt(c, i)
    THEN LET d == [c EXCEPT !.slot[i].attempts = @ + 1, !.slot[i].status = "running",
                            !.executed = @ + 1, !.pc[i] = "start"]
         IN  Emit(d, Event("Started", i, d.slot[i], i))
    ELSE AfterLoop(c, i)

Requeue(c, i) ==
    LET d == [c EXCEPT !.slot[i].status = "queued", !.pc[i] = "requeue"]
    IN  Emit(d, Event("Requeued", i, d.slot[i], i))

\* applyRateLimit halves the capacity and restarts the ramp.
applyRateLimit(c, i) ==
    LET half == IF c.capacity = 1 THEN 1 ELSE c.capacity \div 2
        d == [c EXCEPT !.capacity = half, !.ramp = FALSE]
    IN  IF ~Adaptive THEN Requeue(c, i)
        ELSE IF half # c.capacity
             THEN Emit([d EXCEPT !.pc[i] = "rate"], Event("Capacity", i, d.slot[i], i))
             ELSE Requeue(scheduleRamp(d), i)

\* Mutant: a retryable end is retried even when nothing proves that it ended.
RetryUnproved(c, e) ==
    e.status = "failed" /\ e.retry # "none" /\ c.slot[e.item].attempts < MaxAttempts

\* Whether the item is attempted again.
Retries(c, e) ==
    e.status = "failed" /\ e.auth /\ e.retry # "none" /\ c.slot[e.item].attempts < MaxAttempts

AfterTerminal(c, e) ==
    IF ~Retries(c, e) THEN AfterLoop(c, e.item)
    ELSE IF e.retry = "limit" THEN applyRateLimit(c, e.item) ELSE Requeue(c, e.item)

\* The append that the slot awaits is refused: runSlot throws.
SlotThrows(c, i) == failRun(Leave([c EXCEPT !.pc[i] = "gone"], i))

\* The queued event of an admitted slot is refused.
AdmissionThrows(c, i) ==
    maybeComplete(failRun([Leave(c, i) EXCEPT !.pc[i] = "gone",
                              !.slot[i] = [@ EXCEPT !.status = "failed", !.auth = FALSE]]))

-----------------------------------------------------------------------------
(* The journal.                                                            *)

TerminalKinds == {"Terminal", "Cancelled", "Closed"}

\* The event id of a terminal names item and attempt of this execution: the
\* journal refuses a second terminal under that id with other content.
Conflict(e) ==
    /\ e.kind \in TerminalKinds
    /\ \E t \in terminals : /\ t.item = e.item /\ t.attempt = e.attempt
                            /\ <<t.kind, t.status>> # <<e.kind, e.status>>

AtLeast(a, b) == IF a <= b THEN b ELSE a

\* projectBatchSwarmEvents, one event at a time.
Project(p, e) ==
    LET status == IF e.kind \in {"Queued", "Requeued"} THEN "queued"
                  ELSE IF e.kind = "Started" THEN "running" ELSE e.status
    IN  IF e.item = 0 \/ e.kind = "Capacity" THEN p
        ELSE [p EXCEPT ![e.item] =
                [status |-> status, attempts |-> AtLeast(p[e.item].attempts, e.attempt),
                 auth |-> IF e.kind \in TerminalKinds THEN e.auth ELSE p[e.item].auth]]

Append_(e) ==
    /\ projected' = Project(projected, e)
    /\ terminals' = IF e.kind \in TerminalKinds
                    THEN terminals \union {[item |-> e.item, attempt |-> e.attempt,
                                            kind |-> e.kind, status |-> e.status, auth |-> e.auth]}
                    ELSE terminals
    /\ started' = IF e.kind = "Started"
                  THEN started \union {[item |-> e.item, attempt |-> e.attempt, exec |-> exec]}
                  ELSE started
    /\ ended' = IF e.kind \in TerminalKinds /\ e.auth /\ e.status # "succeeded"
                THEN ended \union {r \in started : /\ r.item = e.item /\ r.attempt = e.attempt
                                                   /\ r.exec = exec}
                ELSE ended

\* What follows the append of e.
Continue(c, e) ==
    IF e.kind = "BatchStarted"      THEN pump([c EXCEPT !.phase = "running", !.closed = Aborted(c)])
    ELSE IF e.kind = "Queued"       THEN RunSlot(c, e.item)
    ELSE IF e.kind = "Started"      THEN [c EXCEPT !.pc[e.item] = "exec"]
    ELSE IF e.kind = "Terminal"     THEN AfterTerminal(c, e)
    ELSE IF e.kind = "Capacity"     THEN Requeue(scheduleRamp(c), e.item)
    ELSE IF e.kind = "Requeued"     THEN [c EXCEPT !.pc[e.item] = "sleep"]
    ELSE IF e.kind = "Cancelled"    THEN EndSlot(c, e.item)
    ELSE IF e.kind = "Closed"       THEN closeQueued(c, e.item, e.status, e.by)
    ELSE [c EXCEPT !.phase = "returned"]

\* What follows the refusal of e.
Refused(c, e) ==
    IF e.kind \in {"BatchStarted", "BatchSettled"} THEN [c EXCEPT !.phase = "threw"]
    ELSE IF e.kind = "Queued" THEN AdmissionThrows(c, e.item)
    ELSE IF e.kind = "Closed" THEN failRun(IF e.by = 0 THEN c ELSE [c EXCEPT !.pc[e.by] = "gone"])
    ELSE SlotThrows(c, e.item)

NoVerdict == [outcome |-> "none", auth |-> FALSE, assignments |-> 0]

\* The new closure; its report is computed in the stretch that drains the pool.
Becomes(c) ==
    \E d \in {c} :
       /\ m' = d
       /\ verdict' = IF m.phase # "settling" /\ d.phase = "settling" THEN Report(d) ELSE verdict

Popped == [m EXCEPT !.queue = Tail(@)]

-----------------------------------------------------------------------------
(* Actions.                                                                *)

Up == m.phase # "down"

\* The event at the head of the queue is appended.
Record ==
    /\ Up /\ m.queue # <<>> /\ ~Conflict(Head(m.queue))
    /\ Append_(Head(m.queue))
    /\ Becomes(Continue(Popped, Head(m.queue)))
    /\ UNCHANGED <<policy, exec, faults>>

\* The journal refuses the event at the head: its id is taken, or the append fails.
Refuse ==
    /\ Up /\ m.queue # <<>>
    /\ \/ Conflict(Head(m.queue)) /\ UNCHANGED faults
       \/ faults < MaxFaults /\ faults' = faults + 1
    /\ Becomes(Refused(Popped, Head(m.queue)))
    /\ UNCHANGED <<policy, projected, terminals, started, ended, exec>>

\* executeItem ends.  An abort wins over an end that has not been seen yet,
\* and proves nothing.
EndItem(i, end) ==
    LET d == [m EXCEPT !.slot[i] = [@ EXCEPT !.status = end.status, !.auth = end.auth],
                       !.pc[i] = "end"]
    IN  Becomes(Emit(d, [Event("Terminal", i, d.slot[i], i) EXCEPT !.retry = end.retry]))

FinishItem(i) ==
    /\ Up /\ m.pc[i] = "exec" /\ ~Aborted(m)
    /\ \E end \in ItemEnds : EndItem(i, end)
    /\ UNCHANGED <<policy, projected, terminals, started, ended, exec, faults>>

Interrupt(i) ==
    /\ Up /\ m.pc[i] = "exec" /\ Aborted(m)
    /\ EndItem(i, [status |-> "cancelled", auth |-> FALSE, retry |-> "none"])
    /\ UNCHANGED <<policy, projected, terminals, started, ended, exec, faults>>

\* The delay before a retry is over.
Wake(i) ==
    /\ Up /\ m.pc[i] = "sleep"
    /\ Becomes(RunSlot(m, i))
    /\ UNCHANGED <<policy, projected, terminals, started, ended, exec, faults>>

RampFires ==
    /\ m.phase = "running" /\ m.ramp
    /\ LET c == [m EXCEPT !.ramp = FALSE,
                          !.capacity = IF m.closed THEN @ ELSE Least(Ceiling, Least(@ + 1, N))]
       IN  Becomes(scheduleRamp(pump(c)))
    /\ UNCHANGED <<policy, projected, terminals, started, ended, exec, faults>>

\* The caller's signal, or the deadline timer.  The listener is registered
\* once BatchStarted is durable, and runs at the first abort only.
Abort(reason) ==
    /\ m.phase \in {"starting", "running"}
    /\ m.abort \in (IF reason = "deadline" THEN {"no", "cancel"} ELSE {"no"})
    /\ LET c == [m EXCEPT !.abort = reason] IN
       Becomes(IF m.phase = "starting" \/ Aborted(m) THEN c ELSE abortAdmission(c))
    /\ UNCHANGED <<policy, projected, terminals, started, ended, exec, faults>>

Cancel == Abort("cancel")
Deadline == Abort("deadline")

\* runBatch up to its first await, over the slots of prepareBatch.
Begin(slots, starts) ==
    [phase |-> "starting", slot |-> slots, pc |-> [i \in Items |-> "idle"],
     active |-> 0, completed |-> 0, capacity |-> Least(Initial, N), next |-> 1,
     closed |-> FALSE, abort |-> "no", fatal |-> FALSE, ramp |-> FALSE,
     executed |-> 0, prior |-> starts,
     queue |-> <<Event("BatchStarted", 0, newItemSlot, 0)>>]

\* The process dies at any await, also after the return of runBatch and before
\* the coordinator has recorded it.
Crash ==
    /\ Up /\ exec <= MaxCrashes
    /\ m' = [Begin(projected, 0) EXCEPT !.phase = "down"]
    /\ verdict' = NoVerdict
    /\ UNCHANGED <<policy, projected, terminals, started, ended, exec, faults>>

\* The coordinator runs the batch again only if every item that the crashed
\* execution has started has an authoritative terminal.
SafeToResume ==
    \A s \in started : s.exec = exec =>
        \E t \in terminals : t.item = s.item /\ t.attempt = s.attempt /\ t.auth

\* summarizePriorUsage: an assignment for every durable start.
PriorUsage == Cardinality(started)

Resume ==
    /\ ~Up /\ exec <= MaxCrashes /\ SafeToResume
    /\ m' = Begin(projected, PriorUsage)
    /\ terminals' = {}
    /\ exec' = exec + 1
    /\ UNCHANGED <<policy, verdict, projected, started, ended, faults>>

BatchInit ==
    /\ policy \in Policies
    /\ projected = [i \in Items |-> newItemSlot]
    /\ m = Begin(projected, 0)
    /\ verdict = NoVerdict
    /\ terminals = {} /\ started = {} /\ ended = {}
    /\ exec = 1 /\ faults = 0

BatchNext ==
    \/ Record \/ Refuse \/ RampFires \/ Cancel \/ Deadline \/ Crash \/ Resume
    \/ \E i \in Items : FinishItem(i) \/ Interrupt(i) \/ Wake(i)

BatchSpec == BatchInit /\ [][BatchNext]_batchVars

\* The event loop does not rest while an append, an abort or a timer is due.
\* An item may never end by itself, and nobody need resume a batch.
EventLoop ==
    \/ \E i \in Items : Interrupt(i) \/ Wake(i)
    \/ Deadline \/ Record \/ Refuse

BatchFairSpec == BatchSpec /\ WF_batchVars(EventLoop)

-----------------------------------------------------------------------------
(* Properties.                                                             *)

BatchTypeOK ==
    /\ policy \in PolicyKinds
    /\ m \in Closure /\ m.active \in 0..N
    /\ projected \in [Items -> Slot]
    /\ started \subseteq [item : Items, attempt : 1..MaxAttempts, exec : 1..(MaxCrashes + 1)]
    /\ exec \in 1..(MaxCrashes + 1) /\ faults \in 0..MaxFaults

Executing == {i \in Items : m.pc[i] = "exec"}

\* The pool holds: never more items execute than concurrency.max, and the
\* count that admission relies on is the number of slots inside runSlot,
\* through retries, aborts and refused appends.
PoolHolds ==
    Up => /\ Cardinality(Executing) <= Ceiling
          /\ m.active = Cardinality(Seated(m))

\* An item is started again, in the same execution or after crashes, only with
\* an attempt of its own and only when every earlier attempt is known to have
\* ended without success: the journal never counts an attempt twice, and what
\* may have had an effect or has succeeded is not done again.
NoUnprovedReplay ==
    [][\A s \in started' \ started, r \in started :
          r.item = s.item => r.attempt < s.attempt /\ r \in ended]_batchVars

\* A batch that reports completed with authority has, in the journal, what its
\* policy asks for: for every item a last terminal that is authoritative, and
\* as many successes as the policy counts.  The assignments that it reports for
\* charging are the starts that the journal knows of, over all its executions.
Proved(P) ==
    LET good == {i \in Items : P[i].status = "succeeded" /\ P[i].auth}
    IN  /\ \A i \in Items : P[i].auth
        /\ policy \in {"fail-fast", "all-required"} => good = Items
        /\ policy = "quorum" => Cardinality(good) >= Threshold

VerdictIsProved ==
    /\ m.phase = "returned" /\ verdict.outcome = "completed" /\ verdict.auth => Proved(projected)
    /\ m.phase \in {"settling", "returned"} => verdict.assignments = Cardinality(started)

Working == m.phase \in {"starting", "running", "settling"}

\* A batch that has not been resumed returns or throws, even if no item ever
\* ends by itself: the deadline ends the wait for items, and closing the queue
\* accounts for every slot that was not admitted.
FirstExecutionReturns == (Working /\ exec = 1) ~> ~Working
-----------------------------------------------------------------------------
(***************************************************************************)
(* The pool, as an invariant of the closure: the count is right, no slot   *)
(* from next on has been taken, and a pending append is awaited by the one *)
(* slot that is at the step of it.                                         *)
(***************************************************************************)
Waits == [Queued |-> "queued", Started |-> "start", Terminal |-> "end", Capacity |-> "rate",
          Requeued |-> "requeue", Cancelled |-> "cancel", Closed |-> "close"]

Owner(e) == IF e.kind \in {"BatchStarted", "BatchSettled"} THEN 0
            ELSE IF e.kind = "Closed" THEN e.by ELSE e.item

Awaited(c, e) ==
    /\ e.kind \notin {"BatchStarted", "BatchSettled"} => e.item # 0
    /\ Owner(e) # 0 => c.pc[Owner(e)] = Waits[e.kind]
    /\ e.kind = "Started" => e.attempt # 0

Pool(c) ==
    /\ c \in Closure
    /\ c.active = Cardinality(Seated(c)) /\ c.active <= Ceiling
    /\ \A i \in Items : i >= c.next => c.pc[i] = "idle"
    /\ \A k \in DOMAIN c.queue : Awaited(c, c.queue[k])
    /\ \A k, l \in DOMAIN c.queue :
          k # l /\ Owner(c.queue[k]) # 0 => Owner(c.queue[k]) # Owner(c.queue[l])

PoolInv == BatchTypeOK /\ Pool(m) /\ IsFiniteSet(started)
-----------------------------------------------------------------------------
(***************************************************************************)
(* The closure and the journal.  P, T, S, D and x are the projection, the  *)
(* terminals, the starts, those that have ended and the execution: within  *)
(* a step of the proof the journal is already that of the next state.      *)
(***************************************************************************)
\* What the journal says by itself: the projection counts every start, and an
\* attempt of an earlier execution has ended or its item has succeeded.
History(P, T, S, D, x) ==
    /\ D \subseteq S
    /\ \A r \in S : r.exec <= x /\ r.attempt <= P[r.item].attempts
    /\ \A r \in S : r.exec < x => r \in D \/ P[r.item].status = "succeeded"
    /\ \A t \in T :
          /\ t.item \in Items /\ t.attempt \in 0..P[t.item].attempts
          /\ t.status = "succeeded" => P[t.item].status = "succeeded"
          /\ t.auth /\ t.status # "succeeded" =>
                \A r \in S : r.item = t.item /\ r.attempt = t.attempt /\ r.exec = x => r \in D
    /\ \A i \in Items : P[i].status = "skipped" => P[i].auth

\* The slot s of item i, at a step of runSlot, and its projection p.
Course(c, P, i) ==
    LET s == c.slot[i]  p == P[i]  at == c.pc[i]
    IN  /\ p.attempts <= s.attempts /\ (at = "start" => p.attempts < s.attempts)
        /\ p.status = "succeeded" => s.status = "succeeded"
        /\ s.status = "succeeded" => at \in {"idle", "end", "close", "gone"}
        /\ s.status = "queued" => at \notin {"start", "exec", "end", "rate", "cancel"}
        /\ s.status \in {"running", "skipped"} => at # "end"
        /\ at = "cancel" => Aborted(c)

\* What is known of the attempts of item i, where its slot is.
Attempts(c, S, D, x, i) ==
    \A r \in S : r.item = i =>
        /\ c.pc[i] \in {"idle", "queued"} => r.exec < x
        /\ c.pc[i] \in {"start", "rate", "requeue", "sleep"} => r \in D
        /\ c.pc[i] \in {"exec", "end"} =>
              IF r.attempt = c.slot[i].attempts THEN r.exec = x ELSE r \in D

\* A pending event says what its slot says; a Closed comes before a Started.
Says(c, e) ==
    LET s == c.slot[e.item]
    IN  /\ e.kind \in {"BatchStarted", "BatchSettled"} <=> e.item = 0
        /\ e.kind = "BatchStarted" => c.phase = "starting"
        /\ e.kind = "BatchSettled" => c.phase = "settling"
        /\ e.item # 0 => e.attempt <= s.attempts
        /\ e.kind \in {"Started", "Terminal"} => e.attempt = s.attempts
        /\ e.kind = "Terminal" => e.status = s.status /\ e.auth = s.auth
        /\ e.kind = "Cancelled" => e.status = "cancelled"
        /\ e.kind = "Closed" =>
              /\ c.closed /\ e.auth /\ e.status \in {"skipped", "cancelled"}
              /\ s.status # "succeeded" /\ c.pc[e.item] \notin {"exec", "end"}
              /\ c.pc[e.item] = "start" => e.attempt < s.attempts

Pending(c) ==
    /\ \A k \in DOMAIN c.queue : Says(c, c.queue[k])
    /\ \A k, l \in DOMAIN c.queue : k < l =>
          /\ c.queue[k].kind = "Started" /\ c.queue[l].kind = "Closed"
                => c.queue[k].item # c.queue[l].item
          /\ c.queue[k].kind = "BatchSettled" => c.queue[l].kind # "BatchSettled"

\* Why admission is closed, and that the batch ends when its pool has drained.
Counts(c) ==
    /\ c.closed => \/ Aborted(c)
                   \/ /\ policy = "fail-fast"
                      /\ \E i \in Items : /\ c.pc[i] \in {"close", "gone"}
                                          /\ c.slot[i].status # "succeeded"
    /\ c.fatal => Aborted(c) /\ c.closed
    /\ c.phase # "running" => c.active = 0

\* Until an abort, what a slot claims is in the journal or on its way.
Trusted(c, P) ==
    ~Aborted(c) => \A i \in Items : c.pc[i] # "end" =>
        /\ c.slot[i].auth => P[i].auth
        /\ c.slot[i].status = "succeeded" => P[i].status = "succeeded"
        /\ c.slot[i].status = "skipped" => P[i].auth \/ c.closed

Charged(c, S) ==
    ~c.fatal => c.prior + c.executed
                    = Cardinality(S) + Cardinality({i \in Items : c.pc[i] = "start"})

Linked(c, P, S, D, x) ==
    /\ \A i \in Items : Course(c, P, i) /\ Attempts(c, S, D, x, i)
    /\ Pending(c) /\ Counts(c)

Starts(c) ==
    c.phase = "starting" => ~c.closed /\ Len(c.queue) = 1 /\ c.queue[1].kind = "BatchStarted"

Decided(c, v, P, S) ==
    c.phase \in {"settling", "returned"} =>
        /\ v.assignments = Cardinality(S)
        /\ v.outcome = "completed" /\ v.auth =>
              Proved(P) /\ \A k \in DOMAIN c.queue : c.queue[k].item = 0

BatchInv ==
    /\ PoolInv
    /\ History(projected, terminals, started, ended, exec)
    /\ Up => /\ Linked(m, projected, started, ended, exec)
             /\ Trusted(m, projected) /\ Charged(m, started) /\ Starts(m)
             /\ Decided(m, verdict, projected, started)
=============================================================================
