--------------------------- MODULE HostInputProofs ---------------------------
(***************************************************************************)
(* Proofs about HostInput, for every set of inputs and every number of     *)
(* tasks, client's tasks and faults.                                       *)
(***************************************************************************)
EXTENDS HostInput, SequenceTheorems, TLAPS

USE HostAssumption DEF Tasks, AnyInput

-----------------------------------------------------------------------------
(* What the store's transitions do to an input.                            *)

\* An input after transitions of which none begins a delivery.
Later(a, b) ==
    /\ b \in Items /\ b.task = a.task /\ b.delivery = a.delivery
    /\ b.state = "none" <=> a.state = "none"
    /\ a.state \in {"dispatching", "accepted", "consumed", "unknown"} =>
          b.state \in {"dispatching", "accepted", "consumed", "unknown"}
    /\ b.state \in {"dispatching", "accepted"} => a.state \in {"dispatching", "accepted"}

AllLater(f, g) == g \in [Inputs -> Items] /\ \A i \in Inputs : Later(f[i], g[i])

\* The transitions that the store allows keep what was delivered delivered.
LEMMA MovesAreLater ==
    ASSUME NEW s \in InputStates, NEW state \in Moves[s], state # "dispatching"
    PROVE  /\ state \in InputStates /\ state # "none" /\ s # "none"
           /\ s \in {"dispatching", "accepted", "consumed", "unknown"} =>
                 state \in {"accepted", "consumed", "unknown"}
           /\ state = "accepted" => s = "dispatching"
<1>1. /\ Moves["queued"] = {"dispatching", "paused", "removed"}
      /\ Moves["paused"] = {"queued", "removed"}
      /\ Moves["dispatching"] = {"accepted", "consumed", "unknown"}
      /\ Moves["accepted"] = {"consumed", "unknown"} /\ Moves["unknown"] = {"consumed"}
      /\ Moves["consumed"] = {} /\ Moves["removed"] = {} /\ Moves["none"] = {}
    BY DEF Moves
<1> HIDE DEF Moves
<1> QED BY <1>1 DEF InputStates

LEMMA LaterSelf == ASSUME NEW f \in [Inputs -> Items] PROVE AllLater(f, f)
BY DEF AllLater, Later

LEMMA LaterThen == \A f, g, h : AllLater(f, g) /\ AllLater(g, h) => AllLater(f, h)
BY DEF AllLater, Later

\* A set of inputs that moves to a state other than dispatching.
LEMMA MovedLater ==
    ASSUME NEW f \in [Inputs -> Items], NEW S, NEW state, state # "dispatching"
    PROVE  AllLater(f, Moved(f, S, state))
<1> DEFINE g == Moved(f, S, state)
<1>1. ASSUME NEW i \in Inputs PROVE g[i] \in Items /\ Later(f[i], g[i])
    <2>1. CASE i \in S /\ state \in Moves[f[i].state]
        <3>1. f[i].state \in InputStates /\ f[i] \in Items
            BY DEF Items
        <3>2. g[i] = [f[i] EXCEPT !.state = state]
            BY <2>1 DEF Moved
        <3>3. /\ state \in InputStates /\ state # "none" /\ f[i].state # "none"
              /\ f[i].state \in {"dispatching", "accepted", "consumed", "unknown"} =>
                    state \in {"accepted", "consumed", "unknown"}
              /\ state = "accepted" => f[i].state = "dispatching"
            BY <2>1, <3>1, MovesAreLater
        <3>4. /\ g[i] \in Items /\ g[i].state = state
              /\ g[i].task = f[i].task /\ g[i].delivery = f[i].delivery
            BY <3>1, <3>2, <3>3 DEF Items
        <3> HIDE DEF g
        <3> QED BY <3>3, <3>4 DEF Later
    <2>2. CASE ~(i \in S /\ state \in Moves[f[i].state])
        BY <2>2 DEF Moved, Later
    <2> QED BY <2>1, <2>2
<1>2. DOMAIN g = Inputs /\ g = [i \in Inputs |-> g[i]]
    BY DEF Moved
<1> HIDE DEF g
<1>3. g \in [Inputs -> Items]
    BY <1>1, <1>2
<1> QED BY <1>1, <1>3 DEF AllLater, g

LEMMA ReconciledLater ==
    ASSUME NEW f \in [Inputs -> Items], NEW S PROVE AllLater(f, Reconciled(f, S))
BY MovedLater DEF Reconciled

LEMMA PausedLater ==
    ASSUME NEW f \in [Inputs -> Items] PROVE AllLater(f, Paused(f))
BY MovedLater DEF Paused

LEMMA LaterType == \A f, g : AllLater(f, g) => g \in [Inputs -> Items]
BY DEF AllLater

\* The end of a task decides every delivery by it.
LEMMA EndedDecides ==
    ASSUME item \in [Inputs -> Items], NEW t
    PROVE  /\ AllLater(item, Ended(t))
           /\ \A i \in Inputs : item[i].task = t =>
                 Ended(t)[i].state \notin {"dispatching", "accepted"}
<1> DEFINE own == {i \in In(Undecided) : item[i].task = t}
           f == Reconciled(item, own)
<1>1. AllLater(item, f)
    BY ReconciledLater
<1>2. f \in [Inputs -> Items]
    BY <1>1 DEF AllLater
<1>3. AllLater(f, Moved(f, own, "unknown"))
    <2> HIDE DEF f, own
    <2> QED BY <1>2, MovedLater
<1>4. Ended(t) = Moved(f, own, "unknown")
    BY DEF Ended
<1>5. AllLater(item, Ended(t))
    <2> HIDE DEF f, own
    <2> QED BY <1>1, <1>3, <1>4, LaterThen
<1>6. ASSUME NEW i \in Inputs, item[i].task = t
      PROVE  Ended(t)[i].state \notin {"dispatching", "accepted"}
    <2>1. CASE item[i].state \notin {"dispatching", "accepted"}
        BY <2>1, <1>5 DEF AllLater, Later
    <2>2. CASE item[i].state \in {"dispatching", "accepted"}
        <3>1. i \in own
            BY <1>6, <2>2 DEF In, Undecided
        <3>2. f[i].state \notin {"dispatching", "accepted"} => Ended(t)[i].state \notin {"dispatching", "accepted"}
            <4> HIDE DEF f, own
            <4> QED BY <1>3, <1>4 DEF AllLater, Later
        <3>3. CASE f[i].state \in {"dispatching", "accepted"}
            <4>1. "unknown" \in Moves[f[i].state]
                BY <3>3 DEF Moves
            <4> HIDE DEF f, own
            <4>2. Ended(t)[i] = [f[i] EXCEPT !.state = "unknown"]
                BY <3>1, <4>1, <1>4 DEF Moved
            <4>3. f[i] \in Items
                BY <1>2
            <4> QED BY <4>2, <4>3 DEF Items
        <3> QED BY <3>2, <3>3
    <2> QED BY <2>1, <2>2
<1> QED BY <1>5, <1>6

-----------------------------------------------------------------------------
(* What the parts of the invariant depend on.                              *)

\* Workers that go on or die change nothing about the lock.
LEMMA LockFrame ==
    ASSUME HostInv, UNCHANGED <<task, disk, lease, up>>,
           \A t \in Tasks : \/ proc'[t].phase = proc[t].phase
                            \/ Alive(t) /\ proc'[t].phase \in {"idle", "streaming", "ended", "dead"}
    PROVE  LockInv'
<1> SUFFICES ASSUME NEW t \in Tasks PROVE (IF up THEN RunsWithLock(t) ELSE LeftBehind(t))'
    BY DEF LockInv
<1>1. IF up THEN RunsWithLock(t) ELSE LeftBehind(t)
    BY DEF HostInv, LockInv
<1>2. /\ Alive(t)' => Alive(t)
      /\ proc[t].phase = "none" <=> proc'[t].phase = "none"
      /\ proc'[t].phase = "spawned" => proc[t].phase = "spawned"
    BY DEF Alive
<1>3. CASE up
    BY <1>1, <1>2, <1>3 DEF RunsWithLock, SavedIsTrue
<1>4. CASE ~up
    BY <1>1, <1>2, <1>4 DEF LeftBehind
<1> QED BY <1>3, <1>4

\* Transitions that begin no delivery leave what was sent accounted for.
LEMMA SentLater ==
    ASSUME HostInv, AllLater(item, item'), UNCHANGED task,
           \A t \in Tasks : proc'[t].seen = proc[t].seen,
           \A i \in Inputs : wire'[i] \in {"sent", "late"} => wire[i] \in {"sent", "late"} \/ Touched(i)
    PROVE  SentInv'
<1>1. \A i \in Inputs : (Touched(i) => Touched(i)') /\ (Prompt(i)' <=> Prompt(i))
    BY DEF AllLater, Later, Touched, Prompt
<1>2. SentInv /\ \A t \in Tasks : proc[t].seen \subseteq Inputs
    BY DEF HostInv, TypeOK, Workers
<1> QED BY <1>1, <1>2 DEF SentInv

LEMMA InputLater ==
    ASSUME HostInv, AllLater(item, item'), UNCHANGED <<task, disk, order>>
    PROVE  InputInv'
<1>1. \A i \in Inputs : /\ item'[i].state = "none" <=> item[i].state = "none"
                        /\ Prompt(i)' <=> Prompt(i)
    BY DEF AllLater, Later, Prompt
<1>2. \A k \in DOMAIN order : order[k] \in Inputs
    BY DEF HostInv, TypeOK, OrderOK
<1> QED BY <1>1, <1>2 DEF HostInv, InputInv

LEMMA AheadLater ==
    ASSUME HostInv, AllLater(item, item'), UNCHANGED <<task, jobs>>, up' => up, failed' = failed
    PROVE  AheadInv'
<1>1. \A i \in Inputs : /\ item'[i].task = item[i].task
                        /\ item'[i].state \in {"dispatching", "accepted"} =>
                              item[i].state \in {"dispatching", "accepted"}
    BY DEF AllLater, Later
<1>2. \A t : Ahead(t)' <=> Ahead(t)
    BY DEF Ahead
<1> HIDE DEF Ahead
<1> QED BY <1>1, <1>2 DEF HostInv, AheadInv, In

LEMMA JobsFrame ==
    ASSUME HostInv, UNCHANGED <<task, jobs>>, \A i \in Inputs : item'[i].delivery = item[i].delivery
    PROVE  JobsInv'
BY DEF HostInv, JobsInv, Prompt

\* An operation that stays as it is, while inputs move on.
LEMMA OpLater ==
    ASSUME HostInv, AllLater(item, item'), UNCHANGED <<task, jobs, op>>
    PROVE  OpInv'
<1>1. \A i \in Inputs : (Touched(i) => Touched(i)') /\ item'[i].delivery = item[i].delivery
    BY DEF AllLater, Later, Touched
<1>2. \A t : Ahead(t)' <=> Ahead(t)
    BY DEF Ahead
<1> HIDE DEF Ahead
<1> QED BY <1>1, <1>2 DEF HostInv, OpInv, Requested, Prompt

\* The controller in its own operation: nothing else moves but inputs and what
\* is on its way.
LEMMA ControllerStep ==
    ASSUME HostInv, up, UNCHANGED <<order, disk, lease, file, task, jobs, closing, failed, up, proc, faults>>,
           AllLater(item, item'), lane' \in Lanes, op' \in Ops, OpInv',
           wire' \in [Inputs -> Wires],
           \A i \in Inputs : wire'[i] \in {"sent", "late"} => wire[i] \in {"sent", "late"} \/ Touched(i)
    PROVE  HostInv'
<1>1. TypeOK'
    BY DEF HostInv, TypeOK, OrderOK, AllLater
<1>2. LockInv' /\ SentInv' /\ InputInv' /\ AheadInv' /\ JobsInv'
    <2>1. \A i \in Inputs : item'[i].delivery = item[i].delivery
        BY DEF AllLater, Later
    <2> QED BY <2>1, LockFrame, SentLater, InputLater, AheadLater, JobsFrame
<1>3. DownInv'
    BY DEF DownInv
<1> QED BY <1>1, <1>2, <1>3 DEF HostInv

LEMMA OpIdle == ASSUME op' = Idle PROVE op' \in Ops /\ OpInv'
BY DEF Idle, Ops, OpKinds, OpInv

LEMMA LaneTypes ==
    ASSUME HostInv
    PROVE  /\ NoLane \in Lanes /\ PauseLane \in Lanes
           /\ \A t \in 0..MaxTasks, q \in BOOLEAN :
                 [on |-> TRUE, task |-> t, paused |-> q] \in Lanes /\ [lane EXCEPT !.task = t] \in Lanes
                 /\ [lane EXCEPT !.task = t, !.paused = q] \in Lanes
           /\ \A l \in Lanes : [l EXCEPT !.paused = TRUE] \in Lanes
<1>1. lane \in Lanes
    BY DEF HostInv, TypeOK
<1>2. NoLane \in Lanes
    BY DEF NoLane, Lanes
<1>3. PauseLane \in Lanes
    BY <1>1 DEF PauseLane, Lanes
<1>4. ASSUME NEW t \in 0..MaxTasks, NEW q \in BOOLEAN
      PROVE  /\ [on |-> TRUE, task |-> t, paused |-> q] \in Lanes /\ [lane EXCEPT !.task = t] \in Lanes
             /\ [lane EXCEPT !.task = t, !.paused = q] \in Lanes
    BY <1>1 DEF Lanes
<1>5. \A l \in Lanes : [l EXCEPT !.paused = TRUE] \in Lanes
    BY DEF Lanes
<1> QED BY <1>2, <1>3, <1>4, <1>5

\* #pump begins no delivery itself: it pauses, ends the lane, or asks for a start.
LEMMA PumpFacts ==
    ASSUME HostInv, NEW l \in Lanes, NEW it, AllLater(item, it), Pump(l, it)
    PROVE  /\ AllLater(item, item') /\ AllLater(it, item') /\ lane' \in Lanes /\ op' \in Ops
           /\ \/ op' = Idle
              \/ /\ op'.kind = "pump" /\ op'.input \in Inputs /\ op'.task = 0
                 /\ item'[op'.input].delivery = "queue"
<1>1. it \in [Inputs -> Items] /\ item \in [Inputs -> Items] /\ Idle \in Ops
    BY DEF AllLater, HostInv, TypeOK, Idle, Ops, OpKinds
<1>2. CASE failed \/ closing \/ l.paused
    BY <1>1, <1>2, LaterSelf DEF Pump
<1>3. CASE ~(failed \/ closing \/ l.paused) /\ \E i \in Inputs : it[i].state \in Undecided \union {"paused"}
    <2>1. item' = Paused(it) /\ lane' = [l EXCEPT !.paused = TRUE] /\ op' = Idle
        BY <1>3 DEF Pump
    <2>2. AllLater(it, item')
        BY <2>1, <1>1, PausedLater
    <2> QED BY <1>1, <2>1, <2>2, LaterThen, LaneTypes
<1>4. CASE /\ ~(failed \/ closing \/ l.paused) /\ ~\E i \in Inputs : it[i].state \in Undecided \union {"paused"}
           /\ Waiting(it) = {}
    BY <1>1, <1>4, LaterSelf, LaneTypes DEF Pump
<1>5. CASE /\ ~(failed \/ closing \/ l.paused) /\ ~\E i \in Inputs : it[i].state \in Undecided \union {"paused"}
           /\ Waiting(it) # {}
    <2>1. item' = it /\ lane' = l
        BY <1>5 DEF Pump
    <2>2. PICK k \in Waiting(it) : op' = Op("pump", order[k], 0)
        BY <1>5 DEF Pump
    <2>3. order[k] \in Inputs /\ it[order[k]].delivery = "queue"
        BY <2>2 DEF Waiting, HostInv, TypeOK, OrderOK
    <2>4. op' \in Ops /\ op'.kind = "pump" /\ op'.input = order[k] /\ op'.task = 0
        BY <2>2, <2>3 DEF Op, Ops, OpKinds
    <2> QED BY <1>1, <2>1, <2>3, <2>4, LaterSelf
<1> QED BY <1>2, <1>3, <1>4, <1>5

LEMMA OpPump ==
    ASSUME op' \in Ops, op'.kind = "pump", op'.input \in Inputs, op'.task = 0,
           item'[op'.input].delivery = "queue"
    PROVE  OpInv'
BY DEF OpInv

-----------------------------------------------------------------------------
(* Commands and the controller's own steps.                                *)

LEMMA LastOrBefore == \A n \in Nat : \A k \in 1..(n + 1) : k \in 1..n \/ k = n + 1
OBVIOUS

\* An input that is new to the queue is new to its order.
LEMMA OrderAppended ==
    ASSUME HostInv, NEW i \in Inputs, item[i].state = "none", order' = Append(order, i),
           item'[i].state # "none",
           \A j \in Inputs : item[j].state # "none" => item'[j].state # "none"
    PROVE  OrderOK' /\ \A k \in DOMAIN order' : item'[order'[k]].state # "none"
<1>1. order \in Seq(Inputs) /\ \A k \in DOMAIN order : item[order[k]].state # "none"
    BY DEF HostInv, TypeOK, OrderOK, InputInv
<1>2. /\ order' \in Seq(Inputs) /\ order'[Len(order) + 1] = i
      /\ DOMAIN order = 1..Len(order) /\ DOMAIN order' = 1..(Len(order) + 1) /\ Len(order) \in Nat
      /\ \A k \in 1..Len(order) : order'[k] = order[k]
    BY <1>1
<1>3. \A k \in 1..Len(order) : order[k] # i /\ order[k] \in Inputs /\ item'[order[k]].state # "none"
    BY <1>1, <1>2
<1>4. \A j, k \in 1..Len(order) : order[j] = order[k] => j = k
    BY <1>2 DEF HostInv, TypeOK, OrderOK
<1>5. ASSUME NEW j \in 1..(Len(order) + 1), NEW k \in 1..(Len(order) + 1), order'[j] = order'[k]
      PROVE  j = k
    BY <1>2, <1>3, <1>4, <1>5
<1>6. ASSUME NEW k \in 1..(Len(order) + 1) PROVE item'[order'[k]].state # "none"
    BY <1>2, <1>3, LastOrBefore
<1> QED BY <1>2, <1>5, <1>6 DEF OrderOK

\* The queue takes an input it does not know: nothing is delivered by that.
LEMMA AdmitStep ==
    ASSUME HostInv, NEW i \in Inputs, NEW t \in Tasks, Admit(i, t), item[i].delivery # "prompt",
           op' \in Ops, op' = op \/ op' = Op("mark", i, t)
    PROVE  HostInv'
<1> DEFINE r == [item[i] EXCEPT !.state = "queued"]
<1>1. /\ item \in [Inputs -> Items] /\ item' = [item EXCEPT ![i] = r] /\ item[i].state = "none"
      /\ up /\ op.kind = "idle" /\ order' = Append(order, i) /\ order \in Seq(Inputs)
      /\ UNCHANGED <<disk, lease, file, task, jobs, closing, failed, up, proc, wire, faults>>
    BY DEF Admit, HostInv, TypeOK, OrderOK, UnknownToQueue, Accepts, Serial, world
<1>2. r \in Items /\ r.state = "queued" /\ r.delivery = item[i].delivery
    BY <1>1 DEF Items, InputStates
<1> HIDE DEF r
<1>3. /\ item' \in [Inputs -> Items] /\ item'[i] = r
      /\ \A j \in Inputs : j # i => item'[j] = item[j]
    BY <1>1, <1>2
<1>4. OrderOK' /\ \A k \in DOMAIN order' : item'[order'[k]].state # "none"
    BY <1>1, <1>2, <1>3, OrderAppended
<1>7. lane' \in Lanes
    <2>1. lane \in Lanes /\ t \in 0..MaxTasks
        BY DEF HostInv, TypeOK
    <2> QED BY <2>1, LaneTypes DEF Admit
<1>8. TypeOK'
    BY <1>1, <1>3, <1>4, <1>7 DEF HostInv, TypeOK
<1>9. LockInv' /\ JobsInv' /\ DownInv'
    BY <1>1, <1>2, <1>3, LockFrame, JobsFrame DEF HostInv, DownInv
<1>10. \A j \in Inputs : (Touched(j)' <=> Touched(j)) /\ (Prompt(j)' <=> Prompt(j))
    BY <1>1, <1>2, <1>3 DEF Touched, Prompt
<1>11. SentInv'
    <2>1. SentInv /\ \A u \in Tasks : proc[u].seen \subseteq Inputs
        BY DEF HostInv, TypeOK, Workers
    <2> QED BY <1>1, <1>10, <2>1 DEF SentInv
<1>12. InputInv'
    <2>1. ~Prompt(i)
        BY DEF Prompt
    <2>2. InputInv
        BY DEF HostInv
    <2>3. \A j \in Inputs : Prompt(j) => item'[j].state = item[j].state
        BY <1>3, <2>1
    <2>4. \A j \in Inputs : Prompt(j)' /\ item'[j].state # "none" => \E u \in Tasks : disk'[u].input = j
        BY <1>1, <1>10, <2>2, <2>3 DEF InputInv
    <2>5. ASSUME NEW u \in Tasks, task'[u].pc \in {"lease", "identity", "ready", "bind"},
                 NEW j \in Inputs, task'[u].input = j, Prompt(j)'
          PROVE  item'[j].state = "none"
        <3>1. Prompt(j) /\ task[u].pc \in {"lease", "identity", "ready", "bind"} /\ task[u].input = j
            BY <1>1, <1>10, <2>5
        <3> QED BY <2>2, <2>3, <3>1 DEF InputInv
    <2>6. \A u, v \in Tasks : disk'[u].input = disk'[v].input /\ disk'[u].input # NoInput => u = v
        BY <1>1, <2>2 DEF InputInv
    <2> QED BY <1>4, <2>4, <2>5, <2>6 DEF InputInv
<1>13. \A u : Ahead(u)' <=> Ahead(u)
    BY <1>1 DEF Ahead
<1>14. AheadInv'
    <2> HIDE DEF Ahead
    <2> QED BY <1>1, <1>2, <1>3, <1>13 DEF HostInv, AheadInv, In
<1>15. OpInv'
    <2>1. CASE op' = op
        BY <1>1, <2>1 DEF OpInv
    <2>2. CASE op' = Op("mark", i, t)
        <3>1. Ahead(t)
            BY <1>1 DEF Admit, Active, HostInv, LockInv, RunsWithLock, Ahead, terminal, Finals
        <3>2. ~Prompt(i)'
            BY <1>2, <1>3 DEF Prompt
        <3> HIDE DEF Ahead
        <3> QED BY <2>2, <3>1, <3>2, <1>13 DEF OpInv, Op
    <2> QED BY <2>1, <2>2
<1> QED BY <1>8, <1>9, <1>11, <1>12, <1>14, <1>15 DEF HostInv

\* An input that the queue or a task has taken in is saved as being delivered
\* by a task whose end is ahead.
LEMMA DispatchedFacts ==
    ASSUME HostInv, NEW i \in Inputs, NEW t \in Tasks, item' = Dispatched(i, t)
    PROVE  /\ item' \in [Inputs -> Items]
           /\ item'[i].state = "dispatching" /\ item'[i].task = t
           /\ \A j \in Inputs : /\ j # i => item'[j] = item[j]
                                /\ item'[j].delivery = item[j].delivery
                                /\ Touched(j) => Touched(j)'
                                /\ item[j].state # "none" => item'[j].state # "none"
<1> DEFINE r == [item[i] EXCEPT !.state = "dispatching", !.task = t]
<1>1. item \in [Inputs -> Items] /\ item' = [item EXCEPT ![i] = r] /\ t \in 0..MaxTasks
    BY DEF HostInv, TypeOK, Dispatched
<1>2. r \in Items /\ r.state = "dispatching" /\ r.delivery = item[i].delivery /\ r.task = t
    <2>1. item[i] \in Items
        BY <1>1
    <2> QED BY <1>1, <2>1 DEF Items, InputStates
<1> HIDE DEF r
<1>3. /\ item' \in [Inputs -> Items] /\ item'[i] = r
      /\ \A j \in Inputs : j # i => item'[j] = item[j]
    BY <1>1, <1>2
<1> QED BY <1>2, <1>3 DEF Touched

LEMMA MarkStep == ASSUME HostInv, MarkDispatching PROVE HostInv'
<1> DEFINE i == op.input
           t == op.task
<1>1. i \in Inputs /\ t \in Tasks /\ Ahead(t) /\ ~Prompt(i) /\ op \in Ops
    BY DEF HostInv, TypeOK, Ops, OpInv, MarkDispatching
<1>2. /\ item' = Dispatched(i, t) /\ up /\ op' = [op EXCEPT !.kind = "deliver"]
      /\ UNCHANGED <<order, disk, lease, file, task, lane, jobs, closing, failed, up, proc, wire, faults>>
    BY DEF MarkDispatching, world
<1>3. op' \in Ops /\ op'.kind = "deliver" /\ op'.input = i /\ op'.task = t
    BY <1>1, <1>2 DEF Ops, OpKinds
<1> HIDE DEF i, t
<1>4. /\ item' \in [Inputs -> Items]
      /\ item'[i].state = "dispatching" /\ item'[i].task = t
      /\ \A j \in Inputs : /\ j # i => item'[j] = item[j]
                           /\ item'[j].delivery = item[j].delivery
                           /\ Touched(j) => Touched(j)'
                           /\ item[j].state # "none" => item'[j].state # "none"
    BY <1>1, <1>2, DispatchedFacts
<1>5. TypeOK'
    BY <1>2, <1>3, <1>4 DEF HostInv, TypeOK, OrderOK
<1>6. LockInv' /\ JobsInv' /\ DownInv'
    BY <1>2, <1>4, LockFrame, JobsFrame DEF HostInv, DownInv
<1>7. OpInv'
    BY <1>1, <1>3, <1>4 DEF OpInv, Touched
<1>8. SentInv'
    <2>1. SentInv /\ \A u \in Tasks : proc[u].seen \subseteq Inputs
        BY DEF HostInv, TypeOK, Workers
    <2> QED BY <1>2, <1>4, <2>1 DEF SentInv, Prompt
<1>9. InputInv'
    <2>1. \A k \in DOMAIN order : order[k] \in Inputs
        BY DEF HostInv, TypeOK, OrderOK
    <2> QED BY <1>1, <1>2, <1>4, <2>1 DEF HostInv, InputInv, Prompt
<1>10. \A u : Ahead(u)' <=> Ahead(u)
    BY <1>2 DEF Ahead
<1>11. AheadInv'
    <2> HIDE DEF Ahead
    <2> QED BY <1>1, <1>2, <1>4, <1>10 DEF HostInv, AheadInv, In
<1> QED BY <1>5, <1>6, <1>7, <1>8, <1>9, <1>11 DEF HostInv

\* The other commands and steps of the controller up to a start.
LEMMA ControllerSteps ==
    ASSUME HostInv,
           \/ Send \/ Acknowledged \/ Unacknowledged \/ Lookup \/ StartKnown \/ ResumeQueue
           \/ \E i \in Inputs : RemoveQueuedInput(i) \/ ReconcileInput(i) \/ SubmitPrompt(i)
    PROVE  HostInv'
<1>0. /\ item \in [Inputs -> Items] /\ lane \in Lanes /\ op \in Ops /\ wire \in [Inputs -> Wires]
      /\ OpInv
    BY DEF HostInv, TypeOK
<1> USE DEF world, durable, memory
<1>1. CASE Send
    <2>1. op.input \in Inputs /\ op.task # 0 /\ Touched(op.input)
        BY <1>1 DEF HostInv, OpInv, Send
    <2>2. op' \in Ops /\ op'.kind \in {"await", "lookup"} /\ op'.input = op.input /\ op'.task = op.task
        BY <1>0, <1>1 DEF Send, Ops, OpKinds
    <2>3. wire' \in [Inputs -> Wires] /\ \A j \in Inputs : wire'[j] = wire[j] \/ j = op.input
        BY <1>0, <1>1, <2>1 DEF Send, Wires
    <2>4. AllLater(item, item') /\ UNCHANGED item
        BY <1>0, <1>1, LaterSelf DEF Send
    <2>5. OpInv'
        BY <2>1, <2>2, <2>4 DEF OpInv, Touched
    <2> QED BY <1>0, <1>1, <2>1, <2>2, <2>3, <2>4, <2>5, ControllerStep DEF Send
<1>2. CASE Acknowledged
    <2>1. AllLater(item, Moved(item, {op.input}, "accepted"))
        BY <1>0, MovedLater
    <2>2. AllLater(item, item')
        BY <1>2, <2>1, ReconciledLater, LaterThen, LaterType DEF Acknowledged
    <2>3. /\ wire' \in [Inputs -> Wires]
          /\ \A j \in Inputs : wire'[j] \in {"sent", "late"} => wire[j] \in {"sent", "late"}
        BY <1>0, <1>2 DEF Acknowledged, Wires
    <2> QED BY <1>0, <1>2, <2>2, <2>3, OpIdle, ControllerStep DEF Acknowledged
<1>3. CASE Unacknowledged
    <2>1. op.input \in Inputs /\ op.task # 0 /\ Touched(op.input)
        BY <1>3 DEF HostInv, OpInv, Unacknowledged
    <2>2. op' \in Ops /\ op'.kind = "lookup" /\ op'.input = op.input /\ op'.task = op.task
        BY <1>0, <1>3 DEF Unacknowledged, Ops, OpKinds
    <2>3. wire' \in [Inputs -> Wires] /\ \A j \in Inputs : wire'[j] = wire[j] \/ j = op.input
        BY <1>0, <1>3, <2>1 DEF Unacknowledged, GiveUp, Wires
    <2>4. AllLater(item, item') /\ UNCHANGED item
        BY <1>0, <1>3, LaterSelf DEF Unacknowledged
    <2>5. OpInv'
        BY <2>1, <2>2, <2>4 DEF OpInv, Touched
    <2> QED BY <1>0, <1>3, <2>1, <2>2, <2>3, <2>4, <2>5, ControllerStep DEF Unacknowledged
<1>4. CASE Lookup
    <2>1. AllLater(item, Unconfirmed(op.input))
        BY <1>0, MovedLater DEF Unconfirmed
    <2>2. AllLater(item, Paused(Unconfirmed(op.input)))
        BY <2>1, PausedLater, LaterThen, LaterType
    <2>3. AllLater(item, item') /\ lane' \in Lanes
        <3>1. AllLater(item, Reconciled(item, {op.input}))
            BY <1>0, ReconciledLater
        <3>2. AllLater(item, item')
            BY <1>4, <2>2, <3>1 DEF Lookup
        <3>3. lane \in Lanes /\ PauseLane \in Lanes
            BY LaneTypes DEF HostInv, TypeOK
        <3>4. lane' = lane \/ lane' = PauseLane
            BY <1>4 DEF Lookup
        <3> QED BY <3>2, <3>3, <3>4
    <2> QED BY <1>0, <1>4, <2>3, OpIdle, ControllerStep DEF Lookup
<1>5. CASE StartKnown
    BY <1>0, <1>5, OpIdle, LaterSelf, ControllerStep DEF StartKnown, Starting
<1>6. CASE ResumeQueue
    <2> DEFINE some == {i \in In({"paused"}) : item[i].delivery = "queue"}
               it == Moved(item, some, "queued")
               l == [on |-> TRUE, task |-> 0, paused |-> FALSE]
    <2>1. AllLater(item, it)
        BY <1>0, MovedLater
    <2>2. l \in Lanes
        BY DEF Lanes
    <2>3. Pump(l, it)
        BY <1>6 DEF ResumeQueue
    <2> HIDE DEF it, l
    <2>4. /\ AllLater(item, item') /\ lane' \in Lanes /\ op' \in Ops
          /\ \/ op' = Idle
             \/ /\ op'.kind = "pump" /\ op'.input \in Inputs /\ op'.task = 0
                /\ item'[op'.input].delivery = "queue"
        BY <2>1, <2>2, <2>3, PumpFacts
    <2>5. OpInv'
        BY <2>4, OpIdle, OpPump
    <2> QED BY <1>0, <1>6, <2>4, <2>5, ControllerStep DEF ResumeQueue, Accepts, Serial
<1>7. ASSUME NEW i \in Inputs, RemoveQueuedInput(i) PROVE HostInv'
    <2>1. AllLater(item, item')
        BY <1>0, <1>7, MovedLater DEF RemoveQueuedInput
    <2> QED BY <1>0, <1>7, <2>1, OpLater, ControllerStep DEF RemoveQueuedInput, Accepts, Serial
<1>8. ASSUME NEW i \in Inputs, ReconcileInput(i) PROVE HostInv'
    <2>1. AllLater(item, item')
        BY <1>0, <1>8, ReconciledLater DEF ReconcileInput
    <2> QED BY <1>0, <1>8, <2>1, OpLater, ControllerStep DEF ReconcileInput, Serial
<1>9. ASSUME NEW i \in Inputs, SubmitPrompt(i) PROVE HostInv'
    <2>1. op' \in Ops /\ op'.kind = "submit" /\ op'.input = i /\ op'.task = 0
        BY <1>9 DEF SubmitPrompt, Op, Ops, OpKinds
    <2>2. OpInv'
        BY <1>9, <2>1 DEF OpInv, SubmitPrompt, Prompt
    <2>3. AllLater(item, item')
        BY <1>0, <1>9, LaterSelf DEF SubmitPrompt
    <2> QED BY <1>0, <1>9, <2>1, <2>2, <2>3, ControllerStep DEF SubmitPrompt, Accepts, Serial
<1> QED BY <1>1, <1>2, <1>3, <1>4, <1>5, <1>6, <1>7, <1>8, <1>9

-----------------------------------------------------------------------------
(* The worker.                                                             *)

LEMMA Appended ==
    ASSUME jobs \in Seq(Jobs), NEW j \in Jobs, jobs' = Append(jobs, j)
    PROVE  /\ jobs' \in Seq(Jobs) /\ Len(jobs) \in Nat
           /\ DOMAIN jobs = 1..Len(jobs) /\ DOMAIN jobs' = 1..(Len(jobs) + 1)
           /\ jobs'[Len(jobs) + 1] = j /\ \A k \in 1..Len(jobs) : jobs'[k] = jobs[k]
           /\ \A k \in DOMAIN jobs' :
                 (k \in DOMAIN jobs /\ jobs'[k] = jobs[k]) \/ (k = Len(jobs) + 1 /\ jobs'[k] = j)
<1>1. /\ jobs' \in Seq(Jobs) /\ Len(jobs) \in Nat
      /\ DOMAIN jobs = 1..Len(jobs) /\ DOMAIN jobs' = 1..(Len(jobs) + 1)
      /\ jobs'[Len(jobs) + 1] = j /\ \A k \in 1..Len(jobs) : jobs'[k] = jobs[k]
    OBVIOUS
<1>2. \A k \in 1..(Len(jobs) + 1) : k \in 1..Len(jobs) \/ k = Len(jobs) + 1
    BY <1>1, LastOrBefore
<1>3. ASSUME NEW k \in DOMAIN jobs'
      PROVE  (k \in DOMAIN jobs /\ jobs'[k] = jobs[k]) \/ (k = Len(jobs) + 1 /\ jobs'[k] = j)
    <2>1. CASE k \in 1..Len(jobs)
        BY <1>1, <2>1
    <2>2. CASE k = Len(jobs) + 1
        BY <1>1, <2>2
    <2> QED BY <1>1, <1>2, <1>3, <2>1, <2>2
<1> QED BY <1>1, <1>3

LEMMA JobTypes == ASSUME HostInv, NEW k \in DOMAIN jobs PROVE jobs[k] \in Jobs /\ jobs[k].task \in Tasks
<1>1. jobs \in Seq(Jobs)
    BY DEF HostInv, TypeOK
<1>2. jobs[k] \in Jobs
    BY <1>1
<1> QED BY <1>2 DEF Jobs

\* A job more takes nothing away from what is ahead of a task.
LEMMA AheadAppended ==
    ASSUME jobs \in Seq(Jobs), NEW j \in Jobs, jobs' = Append(jobs, j), UNCHANGED task
    PROVE  \A t : Ahead(t) => Ahead(t)'
<1>1. /\ DOMAIN jobs = 1..Len(jobs) /\ DOMAIN jobs' = 1..(Len(jobs) + 1) /\ Len(jobs) \in Nat
      /\ \A k \in 1..Len(jobs) : jobs'[k] = jobs[k]
    BY Appended
<1> QED BY <1>1 DEF Ahead

\* What the worker does by itself.  The host may be down meanwhile.
LEMMA WorkerStep ==
    ASSUME HostInv,
           UNCHANGED <<item, order, disk, lease, task, lane, op, closing, failed, up, faults>>,
           file' \subseteq Inputs, wire' \in [Inputs -> Wires], proc' \in [Tasks -> Workers],
           \A t \in Tasks : \/ proc'[t].phase = proc[t].phase
                            \/ Alive(t) /\ proc'[t].phase \in {"idle", "streaming", "ended", "dead"},
           \A t \in Tasks : \A i \in proc'[t].seen : i \in proc[t].seen \/ wire[i] \in {"sent", "late"},
           \A i \in Inputs : wire'[i] \in {"sent", "late"} => wire[i] \in {"sent", "late"},
           \/ jobs' = jobs
           \/ up /\ \E j \in Jobs : j.kind = "input" /\ jobs' = Append(jobs, j)
    PROVE  HostInv'
<1>1. jobs \in Seq(Jobs)
    BY DEF HostInv, TypeOK
<1>2. LockInv'
    BY LockFrame
<1>3. SentInv'
    <2>1. /\ SentInv /\ \A t \in Tasks : proc[t].seen \subseteq Inputs /\ proc'[t].seen \subseteq Inputs
        BY DEF HostInv, TypeOK, Workers
    <2> QED BY <2>1 DEF SentInv, Touched, Prompt
<1>4. InputInv'
    BY DEF HostInv, InputInv, Prompt
<1>5. \A t : Ahead(t) => Ahead(t)'
    BY <1>1, AheadAppended DEF Ahead
<1>6. OpInv' /\ AheadInv'
    <2> HIDE DEF Ahead
    <2> QED BY <1>5 DEF HostInv, OpInv, AheadInv, Touched, Prompt, Requested, In
<1>7. JobsInv' /\ jobs' \in Seq(Jobs)
    <2>1. CASE jobs' = jobs
        BY <2>1, <1>1, JobsFrame
    <2>2. ASSUME NEW j \in Jobs, j.kind = "input", jobs' = Append(jobs, j) PROVE JobsInv' /\ jobs' \in Seq(Jobs)
        <3>1. /\ jobs' \in Seq(Jobs) /\ DOMAIN jobs = 1..Len(jobs) /\ DOMAIN jobs' = 1..(Len(jobs) + 1)
              /\ Len(jobs) \in Nat
              /\ jobs'[Len(jobs) + 1] = j /\ \A k \in 1..Len(jobs) : jobs'[k] = jobs[k]
            BY <1>1, <2>2, Appended
        <3>2. JobsInv
            BY DEF HostInv
        <3>3. \A k \in DOMAIN jobs' : jobs'[k].kind = "bind" => k \in DOMAIN jobs /\ jobs'[k] = jobs[k]
            <4>1. \A k \in DOMAIN jobs' : k \in DOMAIN jobs \/ k = Len(jobs) + 1
                BY <3>1
            <4>2. jobs'[Len(jobs) + 1].kind # "bind"
                BY <2>2, <3>1
            <4> QED BY <3>1, <4>1, <4>2
        <3> QED BY <3>1, <3>2, <3>3 DEF JobsInv, Prompt
    <2> QED BY <2>1, <2>2
<1>8. DownInv' /\ TypeOK'
    BY <1>7 DEF HostInv, DownInv, TypeOK, OrderOK
<1> QED BY <1>2, <1>3, <1>4, <1>6, <1>7, <1>8 DEF HostInv

LEMMA DiedFacts ==
    ASSUME HostInv, NEW t \in Tasks
    PROVE  /\ Died(t) \in Workers /\ Died(t).phase = "dead" /\ Died(t).seen = proc[t].seen
           /\ Lost(t) \in [Inputs -> Wires]
           /\ \A i \in Inputs : Lost(t)[i] \in {"sent", "late"} => wire[i] \in {"sent", "late"}
<1>1. proc[t] \in Workers /\ wire \in [Inputs -> Wires]
    BY DEF HostInv, TypeOK
<1> QED BY <1>1 DEF Died, Workers, Phases, Lost, Wires

\* A worker record with another phase, or with one input more.
LEMMA TurnsFacts ==
    ASSUME HostInv, NEW t \in Tasks, NEW phase \in Phases, Turns(t, phase)
    PROVE  /\ proc' \in [Tasks -> Workers] /\ proc'[t].phase = phase
           /\ proc'[t].seen = proc[t].seen /\ \A u \in Tasks : u # t => proc'[u] = proc[u]
<1>1. proc \in [Tasks -> Workers] /\ proc[t] \in Workers
    BY DEF HostInv, TypeOK
<1>2. [proc[t] EXCEPT !.phase = phase] \in Workers
    BY <1>1 DEF Workers
<1> QED BY <1>1, <1>2 DEF Turns, Workers

LEMMA WorkerSteps ==
    ASSUME HostInv, NEW t \in Tasks,
           EndTurn(t) \/ WorkerDies(t) \/ \E i \in Inputs : Deliver(t, i) \/ Take(t, i) \/ Flush(t, i)
    PROVE  HostInv'
<1>0. /\ proc \in [Tasks -> Workers] /\ proc[t] \in Workers /\ wire \in [Inputs -> Wires]
      /\ file \subseteq Inputs
    BY DEF HostInv, TypeOK
<1> USE DEF durable, memory, world
<1>1. CASE EndTurn(t)
    <2>1. /\ proc' \in [Tasks -> Workers] /\ proc'[t].phase = "ended"
          /\ proc'[t].seen = proc[t].seen /\ \A u \in Tasks : u # t => proc'[u] = proc[u]
        BY <1>1, TurnsFacts DEF EndTurn, Phases
    <2> QED BY <1>0, <1>1, <2>1, WorkerStep DEF EndTurn, Alive
<1>2. CASE WorkerDies(t)
    <2>1. /\ Died(t) \in Workers /\ Died(t).phase = "dead" /\ Died(t).seen = proc[t].seen
          /\ Lost(t) \in [Inputs -> Wires]
          /\ \A i \in Inputs : Lost(t)[i] \in {"sent", "late"} => wire[i] \in {"sent", "late"}
        BY DiedFacts
    <2>2. proc' \in [Tasks -> Workers] /\ proc'[t] = Died(t) /\ \A u \in Tasks : u # t => proc'[u] = proc[u]
        BY <1>0, <1>2, <2>1 DEF WorkerDies
    <2> QED BY <1>0, <1>2, <2>1, <2>2, WorkerStep DEF WorkerDies
<1>3. ASSUME NEW i \in Inputs, Deliver(t, i) PROVE HostInv'
    <2> DEFINE w == [proc[t] EXCEPT !.seen = @ \union {i},
                           !.phase = IF item[i].delivery = "steer" THEN @ ELSE "streaming"]
    <2>1. proc' = proc \/ proc' = [proc EXCEPT ![t] = w]
        BY <1>3 DEF Deliver
    <2>2. /\ w \in Workers /\ w.seen = proc[t].seen \union {i}
          /\ w.phase = proc[t].phase \/ w.phase = "streaming"
        BY <1>0 DEF Workers, Phases
    <2>3. wire' \in [Inputs -> Wires] /\ \A j \in Inputs : wire'[j] = wire[j] \/ wire'[j] \notin {"sent", "late"}
        BY <1>0, <1>3 DEF Deliver, Wires
    <2>4. /\ Alive(t) /\ wire[i] \in {"sent", "late"}
          /\ UNCHANGED <<item, order, disk, lease, file, task, lane, op, jobs, closing, failed, up, faults>>
        BY <1>3 DEF Deliver
    <2> HIDE DEF w
    <2>5. /\ proc' \in [Tasks -> Workers] /\ (proc'[t] = proc[t] \/ proc'[t] = w)
          /\ \A u \in Tasks : u # t => proc'[u] = proc[u]
        BY <1>0, <2>1, <2>2
    <2> QED BY <1>0, <2>2, <2>3, <2>4, <2>5, WorkerStep
<1>4. ASSUME NEW i \in Inputs, Take(t, i) PROVE HostInv'
    <2> DEFINE w == [proc[t] EXCEPT !.took = @ \union {i}]
    <2>1. w \in Workers /\ w.seen = proc[t].seen /\ w.phase = proc[t].phase
        BY <1>0, <1>4 DEF Workers, Take
    <2>2. proc' = [proc EXCEPT ![t] = w]
        BY <1>4 DEF Take
    <2>3. Job("input", t, i) \in Jobs /\ Job("input", t, i).kind = "input"
        BY DEF Job, Jobs, JobKinds
    <2> HIDE DEF w
    <2>4. proc' \in [Tasks -> Workers] /\ proc'[t] = w /\ \A u \in Tasks : u # t => proc'[u] = proc[u]
        BY <1>0, <2>1, <2>2
    <2> QED BY <1>0, <1>4, <2>1, <2>3, <2>4, WorkerStep DEF Take
<1>5. ASSUME NEW i \in Inputs, Flush(t, i) PROVE HostInv'
    BY <1>0, <1>5, WorkerStep DEF Flush
<1> QED BY <1>1, <1>2, <1>3, <1>4, <1>5

-----------------------------------------------------------------------------
(* HostTasks.run.                                                          *)

\* One task moves.
LEMMA OneTask ==
    ASSUME HostInv, NEW t \in Tasks, NEW r \in TaskRecords, task' = [task EXCEPT ![t] = r]
    PROVE  /\ task' \in [Tasks -> TaskRecords] /\ task'[t] = r
           /\ \A u \in Tasks : u # t => task'[u] = task[u]
BY DEF HostInv, TypeOK

\* The records of a task that moves on, throws, runs.
LEMMA TaskUpdates ==
    ASSUME NEW q \in TaskRecords, NEW pc \in Places, NEW status \in Statuses, NEW b \in BOOLEAN
    PROVE  /\ [q EXCEPT !.pc = pc] \in TaskRecords /\ [q EXCEPT !.pc = pc, !.bad = TRUE] \in TaskRecords
           /\ [q EXCEPT !.status = status, !.pc = pc] \in TaskRecords
           /\ [q EXCEPT !.status = status] \in TaskRecords
           /\ [q EXCEPT !.worker = TRUE, !.pc = pc] \in TaskRecords
           /\ [q EXCEPT !.pc = pc, !.worker = b, !.bad = FALSE, !.status = status] \in TaskRecords
<1> USE DEF TaskRecords
<1>1. [q EXCEPT !.pc = pc] \in TaskRecords
    OBVIOUS
<1>2. [q EXCEPT !.pc = pc, !.bad = TRUE] \in TaskRecords
    OBVIOUS
<1>3. [q EXCEPT !.status = status, !.pc = pc] \in TaskRecords
    OBVIOUS
<1>4. [q EXCEPT !.status = status] \in TaskRecords
    OBVIOUS
<1>5. [q EXCEPT !.worker = TRUE, !.pc = pc] \in TaskRecords
    OBVIOUS
<1>6. [q EXCEPT !.pc = pc, !.worker = b, !.bad = FALSE, !.status = status] \in TaskRecords
    OBVIOUS
<1> QED BY <1>1, <1>2, <1>3, <1>4, <1>5, <1>6

\* What a save makes of the tasks.
LEMMA SavedFacts ==
    ASSUME task' \in [Tasks -> TaskRecords], disk' = Saved(task')
    PROVE  /\ disk' \in [Tasks -> Entries]
           /\ \A u \in Tasks : SavedIsTrue(u)' /\ disk'[u].input = task'[u].input
<1>1. ASSUME NEW u \in Tasks
      PROVE  /\ disk'[u] = [status |-> task'[u].status, worker |-> task'[u].worker, input |-> task'[u].input]
             /\ task'[u].status \in Statuses /\ task'[u].worker \in BOOLEAN
             /\ task'[u].input \in Inputs \union {NoInput}
    BY DEF Saved, TaskRecords
<1>2. ASSUME NEW u \in Tasks
      PROVE  [status |-> task'[u].status, worker |-> task'[u].worker, input |-> task'[u].input] \in Entries
    BY <1>1 DEF Entries
<1>3. disk' \in [Tasks -> Entries]
    BY <1>2 DEF Saved
<1> QED BY <1>1, <1>3 DEF SavedIsTrue

\* The lock after a step of one task of a host that is up.
LEMMA LockOne ==
    ASSUME HostInv, up, up', NEW t \in Tasks,
           \A u \in Tasks : u # t => /\ task'[u] = task[u] /\ proc'[u].phase = proc[u].phase
                                     /\ lease' = u <=> lease = u,
           disk' = disk \/ disk' = Saved(task'), task' \in [Tasks -> TaskRecords],
           RunsWithLock(t)'
    PROVE  LockInv'
<1>1. ASSUME NEW u \in Tasks, u # t PROVE RunsWithLock(u)'
    <2>1. RunsWithLock(u)
        BY DEF HostInv, LockInv
    <2>2. SavedIsTrue(u)'
        BY <1>1, <2>1, SavedFacts DEF RunsWithLock, SavedIsTrue
    <2>3. task'[u] = task[u] /\ proc'[u].phase = proc[u].phase /\ (lease' = u <=> lease = u)
        BY <1>1
    <2> QED BY <2>1, <2>2, <2>3 DEF RunsWithLock, Alive
<1> QED BY <1>1 DEF LockInv

\* Where run() may go, and what it tells the controller by that.
TellsEnd(t) == \E j \in Jobs : jobs' = Append(jobs, j) /\ j.kind = "finished" /\ j.task = t

Onward(t, r) ==
    \/ r.pc = task[t].pc
    \/ /\ task[t].pc \notin {"none", "checked", "admit", "bind"}
       /\ r.pc \notin {"none", "checked", "admit", "lease"}
       /\ r.pc = "bound" /\ r.input \in Inputs => Touched(r.input)
       /\ r.pc \in {"identity", "ready", "bind"} => task[t].pc \in {"lease", "identity", "ready"}
       /\ r.pc = "done" => TellsEnd(t)

Tells(t, r) ==
    \/ jobs' = jobs
    \/ \E j \in Jobs : /\ jobs' = Append(jobs, j)
                       /\ j.kind = "bind" => /\ j.task = t /\ j.input = r.input
                                             /\ j.input \in Inputs /\ Prompt(j.input)
                                             /\ r.pc = "bind" /\ task[t].pc # "bind"

\* A step of run(): the rest of the invariant follows from where it goes.
LEMMA RunStep ==
    ASSUME HostInv, up, NEW t \in Tasks, NEW r \in TaskRecords,
           task' = [task EXCEPT ![t] = r], r.input = task[t].input,
           UNCHANGED <<item, order, file, lane, op, closing, failed, up, faults>>,
           lease' \in 0..MaxTasks, wire' \in [Inputs -> Wires], proc' \in [Tasks -> Workers],
           disk' = disk \/ disk' = Saved(task'), LockInv',
           \A u \in Tasks : proc'[u].seen = proc[u].seen,
           \A i \in Inputs : wire'[i] \in {"sent", "late"} => wire[i] \in {"sent", "late"} \/ Touched(i),
           Onward(t, r), Tells(t, r)
    PROVE  HostInv'
<1>1. /\ task' \in [Tasks -> TaskRecords] /\ task'[t] = r
      /\ \A u \in Tasks : u # t => task'[u] = task[u]
    BY OneTask
<1>2. /\ \A u \in Tasks : disk[u].input = task[u].input
      /\ disk \in [Tasks -> Entries] /\ jobs \in Seq(Jobs) /\ op \in Ops
    BY DEF HostInv, TypeOK, LockInv, RunsWithLock, SavedIsTrue
<1>3. disk' \in [Tasks -> Entries] /\ \A u \in Tasks : disk'[u].input = disk[u].input /\ task'[u].input = task[u].input
    BY <1>1, <1>2, SavedFacts
<1>4. jobs' \in Seq(Jobs) /\ \A u \in Tasks : Ahead(u) => Ahead(u)'
    <2>0. ASSUME NEW u \in Tasks, task[u].pc \notin {"none", "checked", "done"}, task'[u].pc # "done"
          PROVE  task'[u].pc \notin {"none", "checked", "done"}
        BY <1>1, <2>0 DEF Onward
    <2>1. CASE jobs' = jobs
        <3>1. \A j : Append(jobs, j) # jobs
            BY <1>2
        <3>2. \A u \in Tasks : task'[u].pc = "done" => task[u].pc = "done"
            BY <1>1, <2>1, <3>1 DEF Onward, TellsEnd
        <3> QED BY <1>2, <2>0, <2>1, <3>2 DEF Ahead
    <2>2. ASSUME NEW j \in Jobs, jobs' = Append(jobs, j) PROVE jobs' \in Seq(Jobs) /\ \A u \in Tasks : Ahead(u) => Ahead(u)'
        <3>1. /\ jobs' \in Seq(Jobs) /\ Len(jobs) \in Nat
              /\ DOMAIN jobs = 1..Len(jobs) /\ DOMAIN jobs' = 1..(Len(jobs) + 1)
              /\ \A k \in 1..Len(jobs) : jobs'[k] = jobs[k]
            BY <1>2, <2>2, Appended
        <3>2. ASSUME NEW u \in Tasks, task'[u].pc = "done", task[u].pc # "done"
              PROVE  jobs'[Len(jobs) + 1].kind = "finished" /\ jobs'[Len(jobs) + 1].task = u
            BY <1>1, <1>2, <3>2, Appended DEF Onward, TellsEnd
        <3>3. ASSUME NEW u \in Tasks, Ahead(u) PROVE Ahead(u)'
            <4>1. CASE task'[u].pc = "done" /\ task[u].pc # "done"
                <5>1. Len(jobs) + 1 \in DOMAIN jobs'
                    BY <3>1
                <5>2. jobs'[Len(jobs) + 1].kind = "finished" /\ jobs'[Len(jobs) + 1].task = u
                    BY <4>1, <3>2
                <5> QED BY <5>1, <5>2 DEF Ahead
            <4>2. CASE ~(task'[u].pc = "done" /\ task[u].pc # "done")
                BY <4>2, <3>1, <3>3, <2>0 DEF Ahead
            <4> QED BY <4>1, <4>2
        <3> QED BY <3>1, <3>3
    <2> QED BY <2>1, <2>2 DEF Tells
<1>5. TypeOK'
    BY <1>1, <1>3, <1>4 DEF HostInv, TypeOK, OrderOK
<1>6. OpInv'
    <2>1. OpInv /\ op.task \in 0..MaxTasks
        BY <1>2 DEF HostInv, Ops
    <2>2. op.task # 0 /\ task[op.task].pc \in {"checked", "admit"} => task'[op.task].pc = task[op.task].pc
        BY <1>1, <2>1 DEF Onward
    <2> HIDE DEF Ahead
    <2> QED BY <1>3, <1>4, <2>1, <2>2 DEF OpInv, Touched, Prompt, Requested
<1>7. JobsInv'
    <2>1. /\ \A u \in Tasks : task[u].pc = "bind" => task'[u].pc = "bind"
          /\ \A k \in DOMAIN jobs : jobs[k] \in Jobs /\ jobs[k].task \in Tasks
        BY <1>1, JobTypes DEF Onward
    <2>2. CASE jobs' = jobs
        BY <1>3, <2>1, <2>2 DEF HostInv, JobsInv, Prompt
    <2>3. ASSUME NEW j \in Jobs, jobs' = Append(jobs, j),
                 j.kind = "bind" => /\ j.task = t /\ j.input = r.input
                                    /\ j.input \in Inputs /\ Prompt(j.input)
                                    /\ r.pc = "bind" /\ task[t].pc # "bind"
          PROVE  JobsInv'
        <3>1. /\ jobs' \in Seq(Jobs) /\ Len(jobs) \in Nat
              /\ DOMAIN jobs = 1..Len(jobs) /\ DOMAIN jobs' = 1..(Len(jobs) + 1)
              /\ jobs'[Len(jobs) + 1] = j /\ \A k \in 1..Len(jobs) : jobs'[k] = jobs[k]
            BY <1>2, <2>3, Appended
        <3>2. \A k \in DOMAIN jobs' : (k \in DOMAIN jobs /\ jobs'[k] = jobs[k]) \/ (k = Len(jobs) + 1 /\ jobs'[k] = j)
            BY <1>2, <2>3, Appended
        <3>3. ASSUME NEW k \in DOMAIN jobs', jobs'[k].kind = "bind"
              PROVE  /\ task'[jobs'[k].task].pc = "bind" /\ jobs'[k].input = task'[jobs'[k].task].input
                     /\ jobs'[k].input \in Inputs /\ Prompt(jobs'[k].input)
            BY <1>1, <1>3, <2>1, <2>3, <3>2, <3>3 DEF HostInv, JobsInv
        <3>4. ASSUME NEW m \in DOMAIN jobs', NEW k \in DOMAIN jobs',
                     jobs'[m].kind = "bind", jobs'[k].kind = "bind", jobs'[m].task = jobs'[k].task
              PROVE  m = k
            <4>1. \A n \in DOMAIN jobs : jobs[n].kind = "bind" => task[jobs[n].task].pc = "bind"
                BY DEF HostInv, JobsInv
            <4>2. CASE m \in DOMAIN jobs /\ jobs'[m] = jobs[m] /\ k \in DOMAIN jobs /\ jobs'[k] = jobs[k]
                BY <3>4, <4>2 DEF HostInv, JobsInv
            <4>3. CASE m = Len(jobs) + 1 /\ jobs'[m] = j /\ k \in DOMAIN jobs /\ jobs'[k] = jobs[k]
                BY <2>3, <3>4, <4>1, <4>3
            <4>4. CASE k = Len(jobs) + 1 /\ jobs'[k] = j /\ m \in DOMAIN jobs /\ jobs'[m] = jobs[m]
                BY <2>3, <3>4, <4>1, <4>4
            <4> QED BY <3>2, <4>2, <4>3, <4>4
        <3> QED BY <3>3, <3>4 DEF JobsInv, Prompt
    <2> QED BY <2>2, <2>3 DEF Tells
<1>8. SentInv'
    <2>1. SentInv
        BY DEF HostInv
    <2>2. \A i \in Inputs : (Touched(i)' <=> Touched(i)) /\ (Prompt(i)' <=> Prompt(i))
        BY DEF Touched, Prompt
    <2>3. \A u \in Tasks : proc[u].seen \subseteq Inputs
        BY DEF HostInv, TypeOK, Workers
    <2>4. ASSUME NEW u \in Tasks, task'[u].input \in Inputs
          PROVE  /\ task'[u].pc = "bound" => Touched(task'[u].input)
                 /\ task'[u].pc \in {"lease", "identity", "ready"} /\ ~Prompt(task'[u].input)
                       => Touched(task'[u].input)
        BY <1>1, <2>1, <2>4 DEF SentInv, Onward
    <2> QED BY <1>3, <2>1, <2>2, <2>3, <2>4 DEF SentInv
<1>9. InputInv'
    <2>1. \A u \in Tasks : task'[u].pc \in {"lease", "identity", "ready", "bind"} =>
                              task[u].pc \in {"lease", "identity", "ready", "bind"}
        <3>1. r.pc \in {"lease", "identity", "ready", "bind"} =>
                 task[t].pc \in {"lease", "identity", "ready", "bind"}
            BY DEF Onward
        <3> QED BY <1>1, <3>1
    <2>2. InputInv
        BY DEF HostInv
    <2>3. \A u, v \in Tasks : disk'[u].input = disk'[v].input /\ disk'[u].input # NoInput => u = v
        BY <1>3, <2>2 DEF InputInv
    <2>4. \A i \in Inputs : Prompt(i)' /\ item'[i].state # "none" => \E u \in Tasks : disk'[u].input = i
        BY <1>3, <2>2 DEF InputInv, Prompt
    <2>5. ASSUME NEW u \in Tasks, task'[u].pc \in {"lease", "identity", "ready", "bind"},
                 NEW i \in Inputs, task'[u].input = i, Prompt(i)'
          PROVE  item'[i].state = "none"
        <3>1. task[u].pc \in {"lease", "identity", "ready", "bind"} /\ task[u].input = i
            BY <1>3, <2>1, <2>5
        <3>2. item' = item /\ Prompt(i)
            BY <2>5 DEF Prompt
        <3> QED BY <2>2, <3>1, <3>2 DEF InputInv
    <2> QED BY <2>2, <2>3, <2>4, <2>5 DEF InputInv
<1>10. AheadInv'
    <2>1. \A i \in Inputs : item[i].task \in 0..MaxTasks
        BY DEF HostInv, TypeOK, Items
    <2> HIDE DEF Ahead
    <2> QED BY <1>4, <2>1 DEF HostInv, AheadInv, In
<1>11. DownInv'
    BY DEF DownInv
<1> QED BY <1>5, <1>6, <1>7, <1>8, <1>9, <1>10, <1>11 DEF HostInv

\* The steps of run() that move its own place only.
LEMMA RunSteps ==
    ASSUME HostInv, NEW t \in Tasks,
           TakeLease(t) \/ Identify(t) \/ Ready(t) \/ Bound(t) \/ Ack(t) \/ NoAck(t)
              \/ Settled(t) \/ RunFails(t) \/ Stop(t) \/ Cancel(t)
    PROVE  HostInv'
<1> DEFINE q == task[t]
<1>0. /\ q \in TaskRecords /\ RunsWithLock(t) /\ up /\ up' /\ task[t].pc \in Places /\ task[t].bad \in BOOLEAN
      /\ wire \in [Inputs -> Wires] /\ proc \in [Tasks -> Workers] /\ lease \in 0..MaxTasks
      /\ jobs \in Seq(Jobs) /\ t \in 0..MaxTasks /\ t # 0 /\ q.input \in Inputs \union {NoInput}
    <2>0. up
        BY DEF TakeLease, Identify, Ready, Bound, Ack, NoAck, Settled, RunFails, Stop, Cancel, At
    <2>1. up' = up
        <3>1. CASE TakeLease(t) \/ Identify(t) \/ Ready(t)
            BY <3>1 DEF TakeLease, Identify, Ready, world
        <3>2. CASE Bound(t) \/ Ack(t) \/ NoAck(t)
            BY <3>2 DEF Bound, Ack, NoAck
        <3>3. CASE Settled(t) \/ RunFails(t) \/ Cancel(t)
            BY <3>3 DEF Settled, RunFails, Cancel, world
        <3>4. CASE Stop(t)
            BY <3>4 DEF Stop
        <3> QED BY <3>1, <3>2, <3>3, <3>4
    <2>2. q \in TaskRecords
        BY DEF HostInv, TypeOK
    <2>3. q.pc \in Places /\ q.bad \in BOOLEAN /\ q.input \in Inputs \union {NoInput}
        BY <2>2 DEF TaskRecords
    <2> QED BY <2>0, <2>1, <2>2, <2>3 DEF HostInv, TypeOK, LockInv
<1>a. \A r \in TaskRecords : task' = [task EXCEPT ![t] = r] =>
         /\ task' \in [Tasks -> TaskRecords] /\ task'[t] = r
         /\ \A u \in Tasks : u # t => task'[u] = task[u]
    BY OneTask
<1>b. /\ [q EXCEPT !.pc = "stop", !.bad = TRUE] \in TaskRecords
      /\ \A pc \in Places : [q EXCEPT !.pc = pc] \in TaskRecords
    <2>1. q \in TaskRecords /\ "stop" \in Places /\ "none" \in Statuses
        BY <1>0 DEF Places, Statuses
    <2> HIDE DEF q
    <2>2. [q EXCEPT !.pc = "stop", !.bad = TRUE] \in TaskRecords
        BY <2>1, TaskUpdates
    <2>3. \A pc \in Places : [q EXCEPT !.pc = pc] \in TaskRecords
        BY <2>1, TaskUpdates
    <2> QED BY <2>2, <2>3
<1>1. CASE TakeLease(t)
    <2>1. CASE ~closing /\ MayOwn(t)
        <3> DEFINE r == [q EXCEPT !.pc = "identity"]
        <3>1. r \in TaskRecords /\ task' = [task EXCEPT ![t] = r]
            BY <1>1, <1>b, <2>1 DEF TakeLease, Goes, Places
        <3>2. r.pc = "identity" /\ r.status = q.status /\ r.worker = q.worker /\ r.input = q.input
            BY <1>0 DEF TaskRecords
        <3> HIDE DEF r
        <3>3. /\ proc' \in [Tasks -> Workers] /\ proc'[t].phase = "spawned"
              /\ proc'[t].seen = proc[t].seen /\ \A u \in Tasks : u # t => proc'[u] = proc[u]
            BY <1>1, <2>1, TurnsFacts DEF TakeLease, Phases
        <3>4. /\ lease = 0 /\ lease' = t /\ q.pc = "lease" /\ jobs' = jobs /\ disk' = disk
              /\ UNCHANGED <<item, order, file, lane, op, closing, failed, up, wire, faults>>
            BY <1>1, <2>1 DEF TakeLease, MayOwn, At
        <3>5. /\ task' \in [Tasks -> TaskRecords] /\ task'[t] = r
              /\ \A u \in Tasks : u # t => task'[u] = task[u]
            BY <3>1, <1>a
        <3>6. RunsWithLock(t)'
            BY <1>0, <3>2, <3>3, <3>4, <3>5 DEF RunsWithLock, SavedIsTrue, Alive
        <3>9. up /\ up' /\ \A u \in Tasks : u # t => proc'[u].phase = proc[u].phase /\ (lease' = u <=> lease = u)
            BY <1>0, <3>3, <3>4
        <3>7. LockInv'
            BY <3>4, <3>5, <3>6, <3>9, LockOne
        <3>8. Onward(t, r) /\ Tells(t, r)
            BY <3>2, <3>4 DEF Onward, Tells
        <3> QED BY <1>0, <3>1, <3>2, <3>3, <3>4, <3>7, <3>8, RunStep
    <2>2. CASE ~(~closing /\ MayOwn(t))
        <3> DEFINE r == [q EXCEPT !.pc = "stop", !.bad = TRUE]
        <3>1. r \in TaskRecords /\ task' = [task EXCEPT ![t] = r]
            BY <1>1, <1>b, <2>2 DEF TakeLease, Throws
        <3>2. r.pc = "stop" /\ r.status = q.status /\ r.worker = q.worker /\ r.input = q.input
            BY <1>0 DEF TaskRecords
        <3> HIDE DEF r
        <3>4. /\ q.pc = "lease" /\ jobs' = jobs /\ disk' = disk
              /\ UNCHANGED <<item, order, file, lease, lane, op, closing, failed, up, proc, wire, faults>>
            BY <1>1, <2>2 DEF TakeLease, At
        <3>5. /\ task' \in [Tasks -> TaskRecords] /\ task'[t] = r
              /\ \A u \in Tasks : u # t => task'[u] = task[u]
            BY <3>1, <1>a
        <3>6. RunsWithLock(t)'
            BY <1>0, <3>2, <3>4, <3>5 DEF RunsWithLock, SavedIsTrue, Alive
        <3>7. LockInv'
            BY <1>0, <3>4, <3>5, <3>6, LockOne
        <3>8. Onward(t, r) /\ Tells(t, r)
            BY <3>2, <3>4 DEF Onward, Tells
        <3> QED BY <1>0, <3>1, <3>2, <3>4, <3>7, <3>8, RunStep
    <2> QED BY <2>1, <2>2
<1>2. CASE Identify(t)
    <2> DEFINE r == [q EXCEPT !.worker = TRUE, !.pc = "ready"]
    <2>1. r \in TaskRecords /\ task' = [task EXCEPT ![t] = r] /\ disk' = Saved(task')
        BY <1>0, <1>2, TaskUpdates DEF Identify, KnownWorker, Places, Statuses
    <2>2. r.pc = "ready" /\ r.status = q.status /\ r.worker = TRUE /\ r.input = q.input
        BY <1>0 DEF TaskRecords
    <2> HIDE DEF r
    <2>3. /\ proc' \in [Tasks -> Workers] /\ proc'[t].phase = "idle"
          /\ proc'[t].seen = proc[t].seen /\ \A u \in Tasks : u # t => proc'[u] = proc[u]
        BY <1>2, TurnsFacts DEF Identify, Phases
    <2>4. /\ q.pc = "identity" /\ jobs' = jobs
          /\ UNCHANGED <<item, order, file, lease, lane, op, closing, failed, up, wire, faults>>
        BY <1>2 DEF Identify, At
    <2>5. /\ task' \in [Tasks -> TaskRecords] /\ task'[t] = r
          /\ \A u \in Tasks : u # t => task'[u] = task[u]
        BY <2>1, <1>a
    <2>6. SavedIsTrue(t)'
        BY <2>1, <2>5, SavedFacts
    <2>7. RunsWithLock(t)'
        BY <1>0, <2>2, <2>3, <2>4, <2>5, <2>6 DEF RunsWithLock, Alive
    <2>8. LockInv'
        BY <1>0, <2>1, <2>3, <2>4, <2>5, <2>7, LockOne
    <2>9. Onward(t, r) /\ Tells(t, r)
        BY <2>2, <2>4 DEF Onward, Tells
    <2> QED BY <1>0, <2>1, <2>2, <2>3, <2>4, <2>8, <2>9, RunStep
\* Steps that leave the worker, the lock and the files alone.
<1>c. ASSUME NEW r \in TaskRecords, task' = [task EXCEPT ![t] = r],
             r.input = q.input, r.worker = q.worker,
             r.status = q.status \/ (r.status = "running" /\ ~terminal(q.status) /\ q.status # "none"),
             UNCHANGED <<item, order, disk, file, lease, lane, op, closing, failed, up, faults>>,
             wire' \in [Inputs -> Wires],
             \A i \in Inputs : wire'[i] \in {"sent", "late"} => wire[i] \in {"sent", "late"} \/ Touched(i),
             proc' = proc \/ (proc[t].phase = "idle" /\ Turns(t, "streaming")),
             q.pc \notin {"none", "checked", "admit", "lease", "stop", "done", "bind"},
             r.pc \in {"bind", "bound", "ack", "settle", "stop"},
             Onward(t, r), Tells(t, r)
      PROVE  HostInv'
    <2>1. /\ task' \in [Tasks -> TaskRecords] /\ task'[t] = r
          /\ \A u \in Tasks : u # t => task'[u] = task[u]
        BY <1>a, <1>c
    <2>2. /\ proc' \in [Tasks -> Workers] /\ proc'[t].seen = proc[t].seen
          /\ proc'[t].phase = proc[t].phase \/ (Alive(t) /\ proc'[t].phase = "streaming")
          /\ \A u \in Tasks : u # t => proc'[u] = proc[u]
        BY <1>0, <1>c, TurnsFacts DEF Phases, Alive
    <2>3. SavedIsTrue(t)'
        BY <1>0, <1>c, <2>1 DEF RunsWithLock, SavedIsTrue, terminal, Finals
    <2>4. RunsWithLock(t)'
        <3>1. lease = t /\ ~terminal(q.status) /\ q.status # "none" /\ (Alive(t) => q.worker)
            BY <1>0, <1>c DEF RunsWithLock, Places
        <3>2. Alive(t)' => Alive(t)
            BY <2>2 DEF Alive
        <3>3. ~terminal(r.status) /\ r.status # "none"
            BY <1>c, <3>1 DEF terminal, Finals
        <3> QED BY <1>c, <2>1, <2>3, <3>1, <3>2, <3>3 DEF RunsWithLock
    <2>5. \A u \in Tasks : proc'[u].seen = proc[u].seen /\ (u # t => proc'[u].phase = proc[u].phase)
        BY <2>2
    <2>6. LockInv'
        BY <1>0, <1>c, <2>1, <2>2, <2>4, LockOne
    <2> QED BY <1>0, <1>c, <2>2, <2>5, <2>6, RunStep
<1> USE DEF durable, world
<1>3. CASE Ready(t)
    <2>1. CASE Stopping(t)
        <3> DEFINE r == [q EXCEPT !.pc = "stop"]
        <3>1. r \in TaskRecords /\ task' = [task EXCEPT ![t] = r] /\ jobs' = jobs /\ q.pc = "ready"
            BY <1>3, <1>b, <2>1 DEF Ready, Goes, Places, At
        <3>2. r.pc = "stop" /\ r.status = q.status /\ r.worker = q.worker /\ r.input = q.input
            BY <1>0 DEF TaskRecords
        <3> HIDE DEF r
        <3>3. Onward(t, r) /\ Tells(t, r)
            BY <3>1, <3>2 DEF Onward, Tells
        <3> QED BY <1>0, <1>3, <1>c, <3>1, <3>2, <3>3 DEF Ready
    <2>2. CASE ~Stopping(t) /\ q.input # NoInput /\ item[q.input].delivery = "prompt"
        <3> DEFINE r == [q EXCEPT !.pc = "bind"]
                   j == Job("bind", t, q.input)
        <3>1. /\ r \in TaskRecords /\ task' = [task EXCEPT ![t] = r] /\ q.pc = "ready"
              /\ jobs' = Append(jobs, j)
            BY <1>3, <1>b, <2>2 DEF Ready, Goes, Places, At
        <3>2. /\ r.pc = "bind" /\ r.status = q.status /\ r.worker = q.worker /\ r.input = q.input
              /\ j \in Jobs /\ j.kind = "bind" /\ j.task = t /\ j.input = q.input
              /\ q.input \in Inputs /\ Prompt(q.input)
            BY <1>0, <2>2 DEF TaskRecords, Job, Jobs, JobKinds, Prompt
        <3> HIDE DEF r, j
        <3>3. Onward(t, r) /\ Tells(t, r)
            BY <3>1, <3>2 DEF Onward, Tells
        <3> QED BY <1>0, <1>3, <1>c, <3>1, <3>2, <3>3 DEF Ready
    <2>3. CASE ~Stopping(t) /\ ~(q.input # NoInput /\ item[q.input].delivery = "prompt")
        <3> DEFINE r == [q EXCEPT !.pc = "bound"]
        <3>1. r \in TaskRecords /\ task' = [task EXCEPT ![t] = r] /\ jobs' = jobs /\ q.pc = "ready"
            BY <1>3, <1>b, <2>3 DEF Ready, Goes, Places, At
        <3>2. r.pc = "bound" /\ r.status = q.status /\ r.worker = q.worker /\ r.input = q.input
            BY <1>0 DEF TaskRecords
        <3>3. q.input \in Inputs => Touched(q.input)
            BY <2>3, <3>1 DEF HostInv, SentInv, Prompt
        <3> HIDE DEF r
        <3>4. Onward(t, r) /\ Tells(t, r)
            BY <3>1, <3>2, <3>3 DEF Onward, Tells
        <3> QED BY <1>0, <1>3, <1>c, <3>1, <3>2, <3>4 DEF Ready
    <2> QED BY <2>1, <2>2, <2>3
<1>4. CASE Bound(t)
    <2>0. q.pc = "bound" /\ q.status \notin {"none"} /\ ~terminal(q.status) /\ jobs' = jobs
        BY <1>0, <1>4 DEF Bound, At, RunsWithLock
    <2>1. CASE Stopping(t)
        <3> DEFINE r == [q EXCEPT !.pc = "stop"]
        <3>1. r \in TaskRecords /\ task' = [task EXCEPT ![t] = r]
            BY <1>4, <1>b, <2>1 DEF Bound, Goes, Places
        <3>2. r.pc = "stop" /\ r.status = q.status /\ r.worker = q.worker /\ r.input = q.input
            BY <1>0 DEF TaskRecords
        <3> HIDE DEF r
        <3>3. Onward(t, r) /\ Tells(t, r)
            BY <2>0, <3>1, <3>2 DEF Onward, Tells
        <3> QED BY <1>0, <1>4, <1>c, <2>0, <2>1, <3>1, <3>2, <3>3 DEF Bound
    <2>2. CASE ~Stopping(t) /\ q.input # NoInput
        <3> DEFINE r == [q EXCEPT !.status = "running", !.pc = "ack"]
        <3>1. r \in TaskRecords /\ task' = [task EXCEPT ![t] = r]
            BY <1>0, <1>4, <2>2, TaskUpdates DEF Bound, Runs, Places, Statuses
        <3>2. r.pc = "ack" /\ r.status = "running" /\ r.worker = q.worker /\ r.input = q.input
            BY <1>0 DEF TaskRecords
        <3> HIDE DEF r
        <3>3. Onward(t, r) /\ Tells(t, r)
            BY <2>0, <3>1, <3>2 DEF Onward, Tells
        <3>4. q.input \in Inputs /\ Touched(q.input)
            BY <1>0, <2>0, <2>2 DEF HostInv, SentInv
        <3>5. wire' \in [Inputs -> Wires] /\ \A i \in Inputs : wire'[i] = wire[i] \/ i = q.input
            BY <1>0, <1>4, <2>2, <3>4 DEF Bound, Wires
        <3> QED BY <1>0, <1>4, <1>c, <2>0, <2>2, <3>1, <3>2, <3>3, <3>4, <3>5 DEF Bound
    <2>3. CASE ~Stopping(t) /\ q.input = NoInput
        <3> DEFINE r == [q EXCEPT !.status = "running", !.pc = "settle"]
        <3>1. r \in TaskRecords /\ task' = [task EXCEPT ![t] = r]
            BY <1>0, <1>4, <2>3, TaskUpdates DEF Bound, Runs, Places, Statuses
        <3>2. r.pc = "settle" /\ r.status = "running" /\ r.worker = q.worker /\ r.input = q.input
            BY <1>0 DEF TaskRecords
        <3> HIDE DEF r
        <3>3. Onward(t, r) /\ Tells(t, r)
            BY <2>0, <3>1, <3>2 DEF Onward, Tells
        <3> QED BY <1>0, <1>4, <1>c, <2>0, <2>3, <3>1, <3>2, <3>3 DEF Bound
    <2> QED BY <2>1, <2>2, <2>3
<1>5. CASE Ack(t)
    <2> DEFINE r == [q EXCEPT !.pc = "settle"]
               j == Job("accepted", t, q.input)
    <2>1. /\ r \in TaskRecords /\ task' = [task EXCEPT ![t] = r] /\ q.pc = "ack"
          /\ jobs' = Append(jobs, j)
        BY <1>5, <1>b DEF Ack, Goes, Places, At
    <2>2. /\ r.pc = "settle" /\ r.status = q.status /\ r.worker = q.worker /\ r.input = q.input
          /\ j \in Jobs /\ j.kind = "accepted"
        BY <1>0 DEF TaskRecords, Job, Jobs, JobKinds
    <2> HIDE DEF r, j
    <2>3. Onward(t, r) /\ Tells(t, r)
        BY <2>1, <2>2 DEF Onward, Tells
    <2>4. wire' \in [Inputs -> Wires] /\ \A i \in Inputs : wire'[i] = wire[i] \/ wire'[i] = "none"
        BY <1>0, <1>5 DEF Ack, Wires
    <2> QED BY <1>0, <1>5, <1>c, <2>1, <2>2, <2>3, <2>4 DEF Ack
<1>d. ASSUME Throws(t), q.pc \in {"identity", "ready", "ack", "settle"},
             UNCHANGED <<item, order, disk, file, lease, lane, op, jobs, closing, failed, up, proc, faults>>,
             wire' \in [Inputs -> Wires],
             \A i \in Inputs : wire'[i] \in {"sent", "late"} => wire[i] \in {"sent", "late"} \/ Touched(i)
      PROVE  HostInv'
    <2> DEFINE r == [q EXCEPT !.pc = "stop", !.bad = TRUE]
    <2>1. r \in TaskRecords /\ task' = [task EXCEPT ![t] = r]
        BY <1>d, <1>b DEF Throws
    <2>2. r.pc = "stop" /\ r.status = q.status /\ r.worker = q.worker /\ r.input = q.input
        BY <1>0 DEF TaskRecords
    <2> HIDE DEF r
    <2>3. Onward(t, r) /\ Tells(t, r)
        BY <1>d, <2>1, <2>2 DEF Onward, Tells
    <2> QED BY <1>0, <1>d, <1>c, <2>1, <2>2, <2>3
<1>6. CASE NoAck(t)
    <2>1. wire' \in [Inputs -> Wires] /\ \A i \in Inputs : wire'[i] \in {"sent", "late"} => wire[i] \in {"sent", "late"}
        BY <1>0, <1>6 DEF NoAck, GiveUp, Wires
    <2> QED BY <1>6, <1>d, <2>1 DEF NoAck, At
<1>7. CASE RunFails(t)
    BY <1>0, <1>7, <1>d DEF RunFails
<1>8. CASE Settled(t)
    <2> DEFINE r == [q EXCEPT !.pc = "stop"]
    <2>1. r \in TaskRecords /\ task' = [task EXCEPT ![t] = r] /\ jobs' = jobs /\ q.pc = "settle"
        BY <1>8, <1>b DEF Settled, Goes, Places, At
    <2>2. r.pc = "stop" /\ r.status = q.status /\ r.worker = q.worker /\ r.input = q.input
        BY <1>0 DEF TaskRecords
    <2> HIDE DEF r
    <2>3. Onward(t, r) /\ Tells(t, r)
        BY <2>1, <2>2 DEF Onward, Tells
    <2> QED BY <1>0, <1>8, <1>c, <2>1, <2>2, <2>3 DEF Settled
<1>9. CASE Cancel(t)
    <2> DEFINE r == [q EXCEPT !.status = "cancelling"]
               j == Job("pause", t, NoInput)
    <2>1. /\ r \in TaskRecords /\ task' = [task EXCEPT ![t] = r] /\ q.status \in {"starting", "running"}
          /\ jobs' = Append(jobs, j) /\ disk' = Saved(task')
          /\ UNCHANGED <<item, order, file, lease, lane, op, closing, failed, up, proc, wire, faults>>
        BY <1>0, <1>9, TaskUpdates DEF Cancel, Statuses, Places
    <2>2. /\ r.pc = q.pc /\ r.status = "cancelling" /\ r.worker = q.worker /\ r.input = q.input
          /\ j \in Jobs /\ j.kind = "pause"
        BY <1>0 DEF TaskRecords, Job, Jobs, JobKinds
    <2> HIDE DEF r, j
    <2>3. Onward(t, r) /\ Tells(t, r)
        BY <2>1, <2>2 DEF Onward, Tells
    <2>4. /\ task' \in [Tasks -> TaskRecords] /\ task'[t] = r
          /\ \A u \in Tasks : u # t => task'[u] = task[u]
        BY <2>1, <1>a
    <2>5. SavedIsTrue(t)'
        BY <2>1, <2>4, SavedFacts
    <2>6. RunsWithLock(t)'
        BY <1>0, <2>1, <2>2, <2>4, <2>5 DEF RunsWithLock, Alive, terminal, Finals
    <2>7. LockInv'
        BY <1>0, <2>1, <2>4, <2>6, LockOne
    <2> QED BY <1>0, <2>1, <2>2, <2>3, <2>7, RunStep
<1>10. CASE Stop(t)
    <2> DEFINE j == Job("finished", t, NoInput)
    <2>0. PICK sure \in IF Alive(t) THEN BOOLEAN ELSE {TRUE} :
             /\ proc' = IF sure /\ proc[t].phase # "none" THEN [proc EXCEPT ![t] = Died(t)] ELSE proc
             /\ wire' = IF sure THEN Lost(t) ELSE wire
             /\ lease' = IF lease # t THEN lease ELSE IF sure THEN 0 ELSE KeptUnconfirmed(t)
             /\ task' = [task EXCEPT ![t] = [task[t] EXCEPT !.pc = "done", !.worker = @ /\ ~sure,
                        !.bad = FALSE,
                        !.status = IF ~sure THEN "failed"
                                   ELSE IF @ = "cancelling" THEN "cancelled"
                                   ELSE IF task[t].bad THEN "failed" ELSE "succeeded"]]
        BY <1>10 DEF Stop
    <2> DEFINE st == IF ~sure THEN "failed"
                     ELSE IF q.status = "cancelling" THEN "cancelled"
                     ELSE IF q.bad THEN "failed" ELSE "succeeded"
               w == q.worker /\ ~sure
               r == [q EXCEPT !.pc = "done", !.worker = w, !.bad = FALSE, !.status = st]
    <2>1. st \in Statuses /\ terminal(st) /\ w \in BOOLEAN
        BY DEF Statuses, Finals, terminal
    <2>2. task' = [task EXCEPT ![t] = r]
        BY <2>0
    <2>3. r \in TaskRecords /\ r.pc = "done" /\ r.status = st /\ r.worker = w /\ r.input = q.input
        <3> HIDE DEF st, w, q
        <3>1. r \in TaskRecords
            BY <1>0, <2>1, TaskUpdates DEF Places
        <3>2. q \in TaskRecords
            BY <1>0
        <3>3. r.pc = "done" /\ r.status = st /\ r.input = q.input
            BY <3>2 DEF TaskRecords
        <3>4. r.worker = w
            BY <3>2 DEF TaskRecords
        <3> QED BY <3>1, <3>3, <3>4
    <2>4. /\ q.pc = "stop" /\ jobs' = Append(jobs, j) /\ disk' = Saved(task')
          /\ UNCHANGED <<item, order, file, lane, op, closing, failed, up, faults>>
        BY <1>10 DEF Stop, At
    <2>5. j \in Jobs /\ j.kind = "finished" /\ j.task = t
        BY DEF Job, Jobs, JobKinds
    <2> HIDE DEF st, r, j
    <2>6. Onward(t, r) /\ Tells(t, r)
        BY <2>3, <2>4, <2>5 DEF Onward, Tells, TellsEnd
    <2>7. /\ Died(t) \in Workers /\ Died(t).phase = "dead" /\ Died(t).seen = proc[t].seen
          /\ Lost(t) \in [Inputs -> Wires]
          /\ \A i \in Inputs : Lost(t)[i] \in {"sent", "late"} => wire[i] \in {"sent", "late"}
        BY DiedFacts
    <2>8. /\ proc' \in [Tasks -> Workers] /\ \A u \in Tasks : proc'[u].seen = proc[u].seen
          /\ \A u \in Tasks : u # t => proc'[u] = proc[u]
          /\ IF sure /\ proc[t].phase # "none" THEN proc'[t].phase = "dead" ELSE proc'[t] = proc[t]
        BY <1>0, <2>0, <2>7
    <2>9. /\ wire' \in [Inputs -> Wires]
          /\ \A i \in Inputs : wire'[i] \in {"sent", "late"} => wire[i] \in {"sent", "late"}
        BY <1>0, <2>0, <2>7
    <2>10. /\ lease' \in 0..MaxTasks /\ \A u \in Tasks : u # t => (lease' = u <=> lease = u)
           /\ lease' = t => lease = t /\ ~sure
           /\ ~sure => lease' = lease
        BY <1>0, <2>0 DEF KeptUnconfirmed
    <2>11. sure \/ Alive(t)
        BY <2>0
    <2>12. /\ task' \in [Tasks -> TaskRecords] /\ task'[t] = r
           /\ \A u \in Tasks : u # t => task'[u] = task[u]
        BY <2>2, <2>3, <1>a
    <2>13. SavedIsTrue(t)'
        BY <2>4, <2>12, SavedFacts
    <2>14. RunsWithLock(t)'
        <3>1. Alive(t)' => ~sure /\ Alive(t)
            BY <2>8 DEF Alive
        <3>2. Alive(t) => lease = t /\ q.worker
            BY <1>0 DEF RunsWithLock
        <3>3. st # "none"
            BY DEF st
        <3> QED BY <2>1, <2>3, <2>10, <2>11, <2>12, <2>13, <3>1, <3>2, <3>3 DEF RunsWithLock
    <2>15. LockInv'
        BY <1>0, <2>4, <2>8, <2>10, <2>12, <2>14, LockOne
    <2> QED BY <1>0, <2>2, <2>3, <2>4, <2>6, <2>8, <2>9, <2>10, <2>15, RunStep
<1> QED BY <1>1, <1>2, <1>3, <1>4, <1>5, <1>6, <1>7, <1>8, <1>9, <1>10

-----------------------------------------------------------------------------
(* HostTasks.start.                                                        *)

LEMMA NoTaskFacts ==
    /\ NoTask \in TaskRecords
    /\ NoTask.status = "none" /\ NoTask.worker = FALSE /\ NoTask.input = NoInput /\ NoTask.pc = "none"
BY DEF NoTask, TaskRecords, Statuses, Places

\* A task before it runs: no worker, no lock, nothing sent, and an input of its
\* own at most.
LEMMA StartStep ==
    ASSUME HostInv, up, NEW t \in Tasks, NEW r \in TaskRecords, task' = [task EXCEPT ![t] = r],
           UNCHANGED <<order, lease, file, jobs, closing, failed, up, proc, wire, faults>>,
           AllLater(item, item'), lane' \in Lanes, op' \in Ops, OpInv',
           disk' = Saved(task') \/ (disk' = disk /\ r.pc \in {"none", "checked"}),
           task[t].pc \in {"none", "checked"}, r.pc \in {"none", "checked", "admit", "lease"},
           r.worker = FALSE, r.pc \in {"none", "checked"} <=> r.status = "none", ~terminal(r.status),
           \/ r.input = NoInput
           \/ /\ r.input \in Inputs /\ ~Requested(r.input) /\ r.pc \in {"admit", "lease"}
              /\ r.pc = "lease" => Prompt(r.input)
    PROVE  HostInv'
<1>1. /\ task' \in [Tasks -> TaskRecords] /\ task'[t] = r
      /\ \A u \in Tasks : u # t => task'[u] = task[u]
    BY OneTask
<1>2. /\ disk \in [Tasks -> Entries] /\ jobs \in Seq(Jobs) /\ RunsWithLock(t)
      /\ \A u \in Tasks : disk[u].input = task[u].input
      /\ item \in [Inputs -> Items] /\ item' \in [Inputs -> Items]
    BY DEF HostInv, TypeOK, LockInv, RunsWithLock, SavedIsTrue, AllLater
<1>3. /\ task[t].input = NoInput /\ task[t].status = "none" /\ task[t].worker = FALSE
      /\ lease # t /\ proc[t].phase = "none"
    <2>1. task[t].worker \in BOOLEAN
        BY DEF HostInv, TypeOK, TaskRecords
    <2> QED BY <1>2, <2>1 DEF RunsWithLock
<1>4. disk' \in [Tasks -> Entries] /\ SavedIsTrue(t)'
    <2>1. CASE disk' = Saved(task')
        BY <1>1, <2>1, SavedFacts
    <2>2. CASE disk' = disk /\ r.pc \in {"none", "checked"}
        <3>1. r.input = NoInput /\ r.status = "none"
            BY <2>2
        <3> QED BY <1>1, <1>2, <1>3, <2>2, <3>1 DEF RunsWithLock, SavedIsTrue
    <2> QED BY <2>1, <2>2
<1>5. RunsWithLock(t)'
    <2>1. ~Alive(t)'
        BY <1>3 DEF Alive
    <2> QED BY <1>1, <1>3, <1>4, <2>1 DEF RunsWithLock
<1>6. LockInv'
    BY <1>1, <1>5, LockOne
<1>7. \A u \in Tasks : disk'[u].input = task'[u].input
    BY <1>6 DEF LockInv, RunsWithLock, SavedIsTrue
<1>8. TypeOK' /\ DownInv'
    BY <1>1, <1>2, <1>4 DEF HostInv, TypeOK, OrderOK, DownInv
<1>9. JobsInv'
    <2>1. \A k \in DOMAIN jobs : jobs[k].kind = "bind" => jobs[k].task # t
        BY DEF HostInv, JobsInv
    <2>2. \A k \in DOMAIN jobs : jobs[k].task \in Tasks
        BY JobTypes
    <2>3. \A i \in Inputs : Prompt(i)' <=> Prompt(i)
        BY DEF AllLater, Later, Prompt
    <2> QED BY <1>1, <2>1, <2>2, <2>3 DEF HostInv, JobsInv
<1>10. \A i \in Inputs : /\ Touched(i) => Touched(i)'
                         /\ Prompt(i)' <=> Prompt(i)
                         /\ item'[i].state = "none" <=> item[i].state = "none"
                         /\ item'[i].task = item[i].task
                         /\ item'[i].state \in {"dispatching", "accepted"} =>
                               item[i].state \in {"dispatching", "accepted"}
    BY DEF AllLater, Later, Touched, Prompt
<1>11. SentInv'
    <2>1. SentInv /\ \A u \in Tasks : proc[u].seen \subseteq Inputs
        BY DEF HostInv, TypeOK, Workers
    <2>2. ASSUME NEW u \in Tasks, NEW i \in Inputs, task'[u].input = i
          PROVE  /\ task'[u].pc = "bound" => Touched(i)'
                 /\ task'[u].pc \in {"lease", "identity", "ready"} /\ ~Prompt(i)' => Touched(i)'
        <3>1. CASE u = t
            <4>1. r.input = i /\ i # NoInput
                BY <1>1, <2>2, <3>1
            <4>2. r.pc # "bound" /\ (r.pc = "lease" => Prompt(i)) /\ r.pc \notin {"identity", "ready"}
                BY <4>1
            <4> QED BY <1>1, <1>10, <3>1, <4>2
        <3>2. CASE u # t
            BY <1>1, <1>10, <2>1, <2>2, <3>2 DEF SentInv
        <3> QED BY <3>1, <3>2
    <2> QED BY <1>10, <2>1, <2>2 DEF SentInv
<1>12. InputInv'
    <2>1. InputInv /\ \A k \in DOMAIN order : order[k] \in Inputs
        BY DEF HostInv, TypeOK, OrderOK
    <2>2. ASSUME NEW u \in Tasks, NEW v \in Tasks, disk'[u].input = disk'[v].input, disk'[u].input # NoInput
          PROVE  u = v
        BY <1>1, <1>2, <1>7, <2>1, <2>2 DEF InputInv, Requested
    <2>3. ASSUME NEW i \in Inputs, Prompt(i)', item'[i].state # "none" PROVE \E u \in Tasks : disk'[u].input = i
        <3>1. PICK u \in Tasks : disk[u].input = i
            BY <1>10, <2>1, <2>3 DEF InputInv
        <3> QED BY <1>1, <1>2, <1>3, <1>7, <3>1
    <2>4. ASSUME NEW u \in Tasks, task'[u].pc \in {"lease", "identity", "ready", "bind"},
                 NEW i \in Inputs, task'[u].input = i, Prompt(i)'
          PROVE  item'[i].state = "none"
        <3>1. CASE u = t
            <4>1. ~Requested(i) /\ Prompt(i)
                <5>1. r.input = i /\ i # NoInput
                    BY <1>1, <2>4, <3>1
                <5> QED BY <1>10, <2>4, <5>1
            <4>2. ~\E v \in Tasks : disk[v].input = i
                BY <1>2, <4>1 DEF Requested
            <4>3. item[i].state = "none"
                BY <2>1, <4>1, <4>2 DEF InputInv
            <4> QED BY <1>10, <4>3
        <3>2. CASE u # t
            BY <1>1, <1>10, <2>1, <2>4, <3>2 DEF InputInv
        <3> QED BY <3>1, <3>2
    <2>5. \A k \in DOMAIN order' : item'[order'[k]].state # "none"
        BY <1>10, <2>1 DEF InputInv
    <2> QED BY <2>2, <2>3, <2>4, <2>5 DEF InputInv
<1>13. \A u \in Tasks : Ahead(u) => Ahead(u)'
    BY <1>1 DEF Ahead
<1>14. AheadInv'
    <2>1. \A i \in Inputs : item[i].task \in 0..MaxTasks
        BY <1>2 DEF Items
    <2> HIDE DEF Ahead
    <2> QED BY <1>10, <1>13, <2>1 DEF HostInv, AheadInv, In
<1> QED BY <1>6, <1>8, <1>9, <1>11, <1>12, <1>14 DEF HostInv

LEMMA CreatedFacts ==
    ASSUME NEW i \in Inputs \union {NoInput}, NEW pc \in {"admit", "lease"},
           NEW r, r = [NoTask EXCEPT !.status = "starting", !.input = i, !.pc = pc]
    PROVE  /\ r \in TaskRecords /\ r.status = "starting" /\ r.worker = FALSE
           /\ r.input = i /\ r.pc = pc /\ ~terminal(r.status)
BY DEF NoTask, TaskRecords, Statuses, Places, terminal, Finals

LEMMA CheckedFacts ==
    ASSUME HostInv, up, NEW t \in Tasks, task[t].pc = "none", NEW r, r = [task[t] EXCEPT !.pc = "checked"]
    PROVE  /\ r \in TaskRecords /\ r.pc = "checked" /\ r.worker = FALSE /\ r.input = NoInput
           /\ r.status = "none" /\ ~terminal(r.status)
<1>1. task[t] \in TaskRecords /\ RunsWithLock(t)
    BY DEF HostInv, TypeOK, LockInv
<1>2. task[t].worker = FALSE /\ task[t].input = NoInput /\ task[t].status = "none"
    BY <1>1 DEF RunsWithLock, TaskRecords
<1> QED BY <1>1, <1>2 DEF TaskRecords, Places, terminal, Finals

LEMMA StartSteps ==
    ASSUME HostInv, CheckStart \/ StartFails \/ Create \/ StartTask \/ \E t \in Tasks : CreateTask(t)
    PROVE  HostInv'
<1>0. /\ item \in [Inputs -> Items] /\ lane \in Lanes /\ op \in Ops /\ OpInv
      /\ AllLater(item, item) /\ op.task \in 0..MaxTasks /\ op.kind \in OpKinds /\ op.input \in Inputs \union {NoInput}
      /\ wire \in [Inputs -> Wires]
    BY LaterSelf DEF HostInv, TypeOK, Ops
<1> USE DEF durable, world
<1>1. CASE CheckStart
    <2>1. PICK t \in Tasks : NextFree(t) /\ op' = [op EXCEPT !.task = t] /\ Goes(t, "checked")
        BY <1>1 DEF CheckStart
    <2>2. /\ up /\ op.kind \in {"pump", "submit"} /\ op.task = 0 /\ ~Requested(op.input) /\ task[t].pc = "none"
          /\ UNCHANGED <<item, order, disk, lease, file, lane, jobs, closing, failed, up, proc, wire, faults>>
        BY <1>1, <2>1 DEF CheckStart, Starting, NextFree, Free
    <2> DEFINE r == [task[t] EXCEPT !.pc = "checked"]
    <2>3. /\ r \in TaskRecords /\ r.pc = "checked" /\ r.worker = FALSE /\ r.input = NoInput
          /\ r.status = "none" /\ ~terminal(r.status)
        BY <2>2, CheckedFacts
    <2>4. task' = [task EXCEPT ![t] = r]
        BY <2>1 DEF Goes
    <2> HIDE DEF r
    <2>5. /\ task' \in [Tasks -> TaskRecords] /\ task'[t] = r
          /\ \A u \in Tasks : u # t => task'[u] = task[u]
        BY <2>3, <2>4, OneTask
    <2>6. op' \in Ops /\ op'.kind = op.kind /\ op'.input = op.input /\ op'.task = t /\ t \in 0..MaxTasks
        BY <1>0, <2>1 DEF Ops
    <2>7. ~Requested(op.input)'
        <3>1. op.input \in Inputs
            BY <1>0, <2>2 DEF OpInv
        <3> QED BY <2>2, <2>3, <2>5, <2>6, <3>1 DEF Requested
    <2>8. OpInv'
        BY <1>0, <2>2, <2>3, <2>5, <2>6, <2>7 DEF OpInv, Prompt
    <2> QED BY <1>0, <2>2, <2>3, <2>4, <2>6, <2>8, StartStep
<1>2. CASE StartFails
    <2>1. AllLater(item, item') /\ lane' \in Lanes
        BY <1>0, <1>2, PausedLater, LaneTypes DEF StartFails
    <2>2. CASE op.task = 0
        BY <1>0, <1>2, <2>1, <2>2, OpIdle, ControllerStep DEF StartFails, Starting
    <2>3. CASE op.task # 0
        <3>1. op.task \in Tasks /\ task[op.task].pc = "checked" /\ task' = [task EXCEPT ![op.task] = NoTask]
            BY <1>0, <1>2, <2>3 DEF StartFails, Starting, OpInv
        <3> QED BY <1>0, <1>2, <2>1, <3>1, OpIdle, NoTaskFacts, StartStep DEF StartFails, Starting, terminal, Finals
    <2> QED BY <2>2, <2>3
<1>3. CASE Create
    <2> DEFINE t == op.task
               i == op.input
               pc == IF op.kind = "pump" THEN "admit" ELSE "lease"
               r == [NoTask EXCEPT !.status = "starting", !.input = i, !.pc = pc]
    <2>1. /\ t \in Tasks /\ task[t].pc = "checked" /\ i \in Inputs /\ ~Requested(i) /\ up
          /\ op.kind \in {"pump", "submit"}
          /\ op.kind = "pump" => item[i].delivery = "queue"
          /\ op.kind = "submit" => Prompt(i)
        BY <1>0, <1>3 DEF Create, Starting, OpInv
    <2>2. /\ r \in TaskRecords /\ r.status = "starting" /\ r.worker = FALSE
          /\ r.input = i /\ r.pc = pc /\ ~terminal(r.status) /\ pc \in {"admit", "lease"}
        <3>1. pc \in {"admit", "lease"} /\ i \in Inputs \union {NoInput}
            BY <2>1
        <3> HIDE DEF pc, i
        <3> QED BY <3>1 DEF NoTask, TaskRecords, Statuses, Places, terminal, Finals
    <2>3. /\ task' = [task EXCEPT ![t] = r] /\ disk' = Saved(task')
          /\ op' = IF op.kind = "pump" THEN [op EXCEPT !.kind = "admit"] ELSE Idle
          /\ UNCHANGED <<item, order, lease, file, lane, jobs, closing, failed, up, proc, wire, faults>>
        BY <1>3 DEF Create, Created
    <2> HIDE DEF r
    <2>4. /\ task' \in [Tasks -> TaskRecords] /\ task'[t] = r
          /\ \A u \in Tasks : u # t => task'[u] = task[u]
        BY <2>1, <2>2, <2>3, OneTask
    <2>5. op' \in Ops /\ OpInv'
        <3>1. CASE op.kind = "pump"
            <4>1. op' \in Ops /\ op'.kind = "admit" /\ op'.input = i /\ op'.task = t
                BY <1>0, <2>3, <3>1 DEF Ops, OpKinds
            <4>2. ~Prompt(i)' /\ task'[t].pc = "admit" /\ task'[t].input = i
                BY <2>1, <2>2, <2>3, <2>4, <3>1 DEF Prompt
            <4> QED BY <2>1, <4>1, <4>2 DEF OpInv
        <3>2. CASE op.kind # "pump"
            BY <2>3, <3>2, OpIdle
        <3> QED BY <3>1, <3>2
    <2>6. pc = "lease" => Prompt(i)
        BY <2>1
    <2> HIDE DEF t, i, pc
    <2> QED BY <1>0, <2>1, <2>2, <2>3, <2>5, <2>6, StartStep
<1>4. CASE StartTask
    <2>1. PICK t \in Tasks : NextFree(t) /\ Goes(t, "checked")
        BY <1>4 DEF StartTask
    <2>2. /\ up /\ task[t].pc = "none"
          /\ UNCHANGED <<item, order, disk, lease, file, lane, op, jobs, closing, failed, up, proc, wire, faults>>
        BY <1>4, <2>1 DEF StartTask, NextFree, Free
    <2> DEFINE r == [task[t] EXCEPT !.pc = "checked"]
    <2>3. /\ r \in TaskRecords /\ r.pc = "checked" /\ r.worker = FALSE /\ r.input = NoInput
          /\ r.status = "none" /\ ~terminal(r.status)
        BY <2>2, CheckedFacts
    <2>4. task' = [task EXCEPT ![t] = r]
        BY <2>1 DEF Goes
    <2> HIDE DEF r
    <2>5. /\ task' \in [Tasks -> TaskRecords] /\ task'[t] = r
          /\ \A u \in Tasks : u # t => task'[u] = task[u]
        BY <2>3, <2>4, OneTask
    <2>6. OpInv'
        <3>1. /\ op.task # 0 /\ task[op.task].pc \in {"checked", "admit"} => op.task # t
              /\ \A i \in Inputs : Requested(i)' => Requested(i)
              /\ \A u \in Tasks : Ahead(u) => Ahead(u)'
            BY <2>2, <2>3, <2>5 DEF Requested, Ahead
        <3> HIDE DEF Ahead
        <3> QED BY <1>0, <2>2, <2>5, <3>1 DEF OpInv, Prompt, Touched
    <2> QED BY <1>0, <2>2, <2>3, <2>4, <2>6, StartStep
<1>5. ASSUME NEW t \in Tasks, CreateTask(t) PROVE HostInv'
    <2>1. /\ up /\ task[t].pc = "checked" /\ op.task # t
          /\ UNCHANGED <<item, order, lease, file, lane, op, jobs, closing, failed, up, proc, wire, faults>>
        BY <1>5 DEF CreateTask
    <2>2. ASSUME NEW r \in TaskRecords, task' = [task EXCEPT ![t] = r], r.input = NoInput,
                 disk' = Saved(task') \/ (disk' = disk /\ r.pc \in {"none", "checked"}),
                 r.pc \in {"none", "lease"}, r.worker = FALSE,
                 r.pc \in {"none", "checked"} <=> r.status = "none", ~terminal(r.status)
          PROVE  HostInv'
        <3>1. /\ task' \in [Tasks -> TaskRecords] /\ task'[t] = r
              /\ \A u \in Tasks : u # t => task'[u] = task[u]
            BY <2>2, OneTask
        <3>2. /\ \A i \in Inputs : Requested(i)' => Requested(i)
              /\ \A u \in Tasks : Ahead(u) => Ahead(u)'
            BY <2>1, <2>2, <3>1 DEF Requested, Ahead
        <3>3. OpInv'
            <4> HIDE DEF Ahead
            <4> QED BY <1>0, <2>1, <3>1, <3>2 DEF OpInv, Prompt, Touched
        <3> QED BY <1>0, <2>1, <2>2, <3>3, StartStep
    <2>3. CASE task' = Created(t, NoInput, "lease") /\ disk' = Saved(task')
        <3> DEFINE r == [NoTask EXCEPT !.status = "starting", !.input = NoInput, !.pc = "lease"]
        <3>1. /\ r \in TaskRecords /\ r.status = "starting" /\ r.worker = FALSE
              /\ r.input = NoInput /\ r.pc = "lease" /\ ~terminal(r.status)
            BY CreatedFacts
        <3>2. task' = [task EXCEPT ![t] = r]
            BY <2>3 DEF Created
        <3> HIDE DEF r
        <3> QED BY <2>2, <2>3, <3>1, <3>2
    <2>4. CASE task' = [task EXCEPT ![t] = NoTask] /\ UNCHANGED disk
        BY <2>2, <2>4, NoTaskFacts DEF terminal, Finals
    <2> QED BY <1>5, <2>3, <2>4 DEF CreateTask
<1> QED BY <1>1, <1>2, <1>3, <1>4, <1>5

\* The queued input is dispatched, for a task that is about to run.
LEMMA BeforeRunStep == ASSUME HostInv, BeforeRun PROVE HostInv'
<1>0. PICK t \in Tasks, i \in Inputs : op.task = t /\ op.input = i
    BY DEF HostInv, TypeOK, Ops, OpInv, BeforeRun
<1> DEFINE r == [task[t] EXCEPT !.pc = "lease"]
<1>1. /\ task[t].pc = "admit" /\ task[t].input = i /\ ~Prompt(i) /\ up
      /\ task[t] \in TaskRecords /\ RunsWithLock(t)
    BY <1>0 DEF HostInv, TypeOK, OpInv, BeforeRun, LockInv
<1>2. /\ r \in TaskRecords /\ r.pc = "lease" /\ r.status = task[t].status
      /\ r.worker = task[t].worker /\ r.input = i
    BY <1>1 DEF TaskRecords, Places
<1>3. /\ task' = [task EXCEPT ![t] = r] /\ item' = Dispatched(i, t) /\ op' = Idle
      /\ lane' = [lane EXCEPT !.task = t] /\ t \in 0..MaxTasks
      /\ UNCHANGED <<order, disk, lease, file, jobs, closing, failed, up, proc, wire, faults>>
    BY <1>0, <1>1 DEF BeforeRun, Goes, world
<1> HIDE DEF r
<1>4. /\ task' \in [Tasks -> TaskRecords] /\ task'[t] = r
      /\ \A u \in Tasks : u # t => task'[u] = task[u]
    BY <1>1, <1>2, <1>3, OneTask
<1>5. /\ item' \in [Inputs -> Items]
      /\ item'[i].state = "dispatching" /\ item'[i].task = t
      /\ \A j \in Inputs : /\ j # i => item'[j] = item[j]
                           /\ item'[j].delivery = item[j].delivery
                           /\ Touched(j) => Touched(j)'
                           /\ item[j].state # "none" => item'[j].state # "none"
    BY <1>1, <1>3, DispatchedFacts
<1>6. RunsWithLock(t)'
    BY <1>1, <1>2, <1>3, <1>4 DEF RunsWithLock, SavedIsTrue, Alive
<1>7. LockInv'
    BY <1>1, <1>3, <1>4, <1>6, LockOne
<1>8. lane' \in Lanes
    BY <1>3, LaneTypes
<1>9. TypeOK' /\ OpInv' /\ DownInv'
    BY <1>1, <1>3, <1>4, <1>5, <1>8, OpIdle DEF HostInv, TypeOK, OrderOK, DownInv
<1>10. JobsInv'
    <2>1. \A k \in DOMAIN jobs : jobs[k].kind = "bind" => jobs[k].task # t
        BY <1>1 DEF HostInv, JobsInv
    <2>2. \A k \in DOMAIN jobs : jobs[k].task \in Tasks
        BY JobTypes
    <2> QED BY <1>3, <1>4, <1>5, <2>1, <2>2 DEF HostInv, JobsInv, Prompt
<1>11. SentInv'
    <2>1. SentInv /\ \A u \in Tasks : proc[u].seen \subseteq Inputs
        BY DEF HostInv, TypeOK, Workers
    <2>2. ASSUME NEW u \in Tasks, NEW j \in Inputs, task'[u].input = j
          PROVE  /\ task'[u].pc = "bound" => Touched(j)'
                 /\ task'[u].pc \in {"lease", "identity", "ready"} /\ ~Prompt(j)' => Touched(j)'
        <3>1. CASE u = t
            BY <1>2, <1>4, <1>5, <2>2, <3>1 DEF Touched
        <3>2. CASE u # t
            BY <1>4, <1>5, <2>1, <2>2, <3>2 DEF SentInv, Prompt
        <3> QED BY <3>1, <3>2
    <2> QED BY <1>3, <1>5, <2>1, <2>2 DEF SentInv
<1>12. InputInv'
    <2>1. InputInv /\ \A k \in DOMAIN order : order[k] \in Inputs
        BY DEF HostInv, TypeOK, OrderOK
    <2>2. ASSUME NEW u \in Tasks, task'[u].pc \in {"lease", "identity", "ready", "bind"},
                 NEW j \in Inputs, task'[u].input = j, Prompt(j)'
          PROVE  item'[j].state = "none"
        <3>1. j # i /\ item'[j] = item[j] /\ Prompt(j)
            BY <1>1, <1>5, <2>2 DEF Prompt
        <3>2. u # t
            BY <1>2, <1>4, <2>2, <3>1
        <3> QED BY <1>4, <2>1, <2>2, <3>1, <3>2 DEF InputInv
    <2>3. \A k \in DOMAIN order' : item'[order'[k]].state # "none"
        BY <1>3, <1>5, <2>1 DEF InputInv
    <2>4. ASSUME NEW j \in Inputs, Prompt(j)', item'[j].state # "none" PROVE \E u \in Tasks : disk'[u].input = j
        <3>1. item'[j] = item[j] /\ Prompt(j)
            BY <1>1, <1>5, <2>4 DEF Prompt
        <3> QED BY <1>3, <2>1, <2>4, <3>1 DEF InputInv
    <2> QED BY <1>3, <2>1, <2>2, <2>3, <2>4 DEF InputInv
<1>13. (\A u \in Tasks : Ahead(u) => Ahead(u)') /\ Ahead(t)'
    BY <1>1, <1>2, <1>3, <1>4 DEF Ahead
<1>14. AheadInv'
    <2>1. \A j \in Inputs : item[j].task \in 0..MaxTasks
        BY DEF HostInv, TypeOK, Items
    <2> HIDE DEF Ahead
    <2> QED BY <1>1, <1>3, <1>5, <1>13, <2>1 DEF HostInv, AheadInv, In
<1> QED BY <1>7, <1>9, <1>10, <1>11, <1>12, <1>14 DEF HostInv

\* A task that has ended before it ran tells its end like any other.
LEMMA AdmissionFailsStep == ASSUME HostInv, AdmissionFails PROVE HostInv'
<1>0. PICK t \in Tasks : op.task = t
    BY DEF HostInv, TypeOK, Ops, OpInv, AdmissionFails
<1> DEFINE r == [task[t] EXCEPT !.status = "failed", !.pc = "done"]
           j == Job("finished", t, NoInput)
<1>1. task[t].pc = "admit" /\ up /\ task[t] \in TaskRecords /\ RunsWithLock(t)
    BY <1>0 DEF HostInv, TypeOK, OpInv, AdmissionFails, LockInv
<1>2. /\ r \in TaskRecords /\ r.pc = "done" /\ r.status = "failed"
      /\ r.worker = task[t].worker /\ r.input = task[t].input
    BY <1>1 DEF TaskRecords, Places, Statuses, Finals
<1>3. /\ task' = [task EXCEPT ![t] = r] /\ item' = Paused(item) /\ op' = Idle /\ disk' = Saved(task')
      /\ lane' = [lane EXCEPT !.task = t, !.paused = TRUE] /\ t \in 0..MaxTasks
      /\ jobs' = Append(jobs, j) /\ faults' \in 0..MaxFaults
      /\ UNCHANGED <<order, lease, file, closing, failed, up, proc, wire>>
    BY <1>0, <1>1 DEF AdmissionFails, HostInv, TypeOK
<1>4. j \in Jobs /\ j.kind = "finished" /\ j.task = t /\ jobs \in Seq(Jobs)
    BY <1>1 DEF Job, Jobs, JobKinds, HostInv, TypeOK
<1> HIDE DEF r, j
<1>5. /\ task' \in [Tasks -> TaskRecords] /\ task'[t] = r
      /\ \A u \in Tasks : u # t => task'[u] = task[u]
    BY <1>1, <1>2, <1>3, OneTask
<1>6. AllLater(item, item')
    BY <1>3, PausedLater DEF HostInv, TypeOK
<1>7. SavedIsTrue(t)' /\ disk' \in [Tasks -> Entries] /\ \A u \in Tasks : disk'[u].input = task'[u].input
    BY <1>1, <1>3, <1>5, SavedFacts
<1>8. RunsWithLock(t)'
    BY <1>1, <1>2, <1>3, <1>5, <1>7 DEF RunsWithLock, Alive, terminal, Finals
<1>9. LockInv'
    BY <1>1, <1>3, <1>5, <1>8, LockOne
<1>10. /\ jobs' \in Seq(Jobs) /\ Len(jobs) \in Nat
       /\ DOMAIN jobs = 1..Len(jobs) /\ DOMAIN jobs' = 1..(Len(jobs) + 1)
       /\ jobs'[Len(jobs) + 1] = j /\ \A k \in 1..Len(jobs) : jobs'[k] = jobs[k]
       /\ \A k \in DOMAIN jobs' :
             (k \in DOMAIN jobs /\ jobs'[k] = jobs[k]) \/ (k = Len(jobs) + 1 /\ jobs'[k] = j)
    BY <1>3, <1>4, Appended
<1>11. TypeOK' /\ OpInv' /\ DownInv'
    <2>1. lane' \in Lanes
        BY <1>3, LaneTypes
    <2> QED BY <1>1, <1>3, <1>5, <1>6, <1>7, <1>10, <2>1, OpIdle DEF HostInv, TypeOK, OrderOK, DownInv, AllLater
<1>12. JobsInv'
    <2>1. \A k \in DOMAIN jobs : jobs[k].kind = "bind" => jobs[k].task # t
        BY <1>1 DEF HostInv, JobsInv
    <2>2. \A k \in DOMAIN jobs : jobs[k].task \in Tasks
        BY JobTypes
    <2>3. \A k \in DOMAIN jobs' : jobs'[k].kind = "bind" =>
             k \in DOMAIN jobs /\ jobs'[k] = jobs[k] /\ task'[jobs'[k].task] = task[jobs[k].task]
        BY <1>4, <1>5, <1>10, <2>1, <2>2
    <2>4. \A i \in Inputs : Prompt(i)' <=> Prompt(i)
        BY <1>6 DEF AllLater, Later, Prompt
    <2> QED BY <2>3, <2>4 DEF HostInv, JobsInv
<1>13. \A i \in Inputs : /\ Touched(i) => Touched(i)'
                         /\ Prompt(i)' <=> Prompt(i)
                         /\ item'[i].state = "none" <=> item[i].state = "none"
                         /\ item'[i].task = item[i].task
                         /\ item'[i].state \in {"dispatching", "accepted"} =>
                               item[i].state \in {"dispatching", "accepted"}
    BY <1>6 DEF AllLater, Later, Touched, Prompt
<1>14. SentInv'
    <2>1. SentInv /\ \A u \in Tasks : proc[u].seen \subseteq Inputs
        BY DEF HostInv, TypeOK, Workers
    <2>2. ASSUME NEW u \in Tasks, NEW i \in Inputs, task'[u].input = i
          PROVE  /\ task'[u].pc = "bound" => Touched(i)'
                 /\ task'[u].pc \in {"lease", "identity", "ready"} /\ ~Prompt(i)' => Touched(i)'
        BY <1>2, <1>5, <1>13, <2>1, <2>2 DEF SentInv
    <2> QED BY <1>3, <1>13, <2>1, <2>2 DEF SentInv
<1>15. \A u \in Tasks : disk'[u].input = disk[u].input
    <2>1. \A u \in Tasks : disk[u].input = task[u].input
        BY <1>1 DEF HostInv, LockInv, RunsWithLock, SavedIsTrue
    <2> QED BY <1>2, <1>5, <1>7, <2>1
<1>16. InputInv'
    <2>1. InputInv /\ \A k \in DOMAIN order : order[k] \in Inputs
        BY DEF HostInv, TypeOK, OrderOK
    <2>2. ASSUME NEW u \in Tasks, task'[u].pc \in {"lease", "identity", "ready", "bind"},
                 NEW i \in Inputs, task'[u].input = i, Prompt(i)'
          PROVE  item'[i].state = "none"
        <3>1. u # t
            BY <1>2, <1>5, <2>2
        <3> QED BY <1>5, <1>13, <2>1, <2>2, <3>1 DEF InputInv
    <2>3. \A k \in DOMAIN order' : item'[order'[k]].state # "none"
        BY <1>3, <1>13, <2>1 DEF InputInv
    <2>4. \A i \in Inputs : Prompt(i)' /\ item'[i].state # "none" => \E u \in Tasks : disk'[u].input = i
        BY <1>13, <1>15, <2>1 DEF InputInv
    <2>5. \A u, v \in Tasks : disk'[u].input = disk'[v].input /\ disk'[u].input # NoInput => u = v
        BY <1>15, <2>1 DEF InputInv
    <2> QED BY <2>2, <2>3, <2>4, <2>5 DEF InputInv
<1>17. \A u \in Tasks : Ahead(u) => Ahead(u)'
    <2>1. ASSUME NEW u \in Tasks, Ahead(u) PROVE Ahead(u)'
        <3>1. CASE u = t
            BY <1>4, <1>10, <3>1 DEF Ahead
        <3>2. CASE u # t
            BY <1>5, <1>10, <2>1, <3>2 DEF Ahead
        <3> QED BY <3>1, <3>2
    <2> QED BY <2>1
<1>18. AheadInv'
    <2>1. \A i \in Inputs : item[i].task \in 0..MaxTasks
        BY DEF HostInv, TypeOK, Items
    <2> HIDE DEF Ahead
    <2> QED BY <1>1, <1>3, <1>13, <1>17, <2>1 DEF HostInv, AheadInv, In
<1> QED BY <1>9, <1>11, <1>12, <1>14, <1>16, <1>18 DEF HostInv

-----------------------------------------------------------------------------
(* Background operations of the controller.                                *)

LEMMA PoppedSeq ==
    ASSUME NEW S, NEW s \in Seq(S), s # <<>>
    PROVE  /\ Tail(s) \in Seq(S) /\ Len(s) \in Nat \ {0} /\ Head(s) = s[1] /\ Head(s) \in S
           /\ DOMAIN s = 1..Len(s) /\ DOMAIN Tail(s) = 1..(Len(s) - 1)
           /\ \A k \in 1..(Len(s) - 1) : Tail(s)[k] = s[k + 1]
OBVIOUS

\* The first job has left: the others are one place nearer.
LEMMA Popped ==
    ASSUME HostInv, jobs # <<>>, jobs' = Tail(jobs)
    PROVE  /\ jobs' \in Seq(Jobs) /\ Head(jobs) \in Jobs /\ Head(jobs).task \in Tasks
           /\ 1 \in DOMAIN jobs /\ jobs[1] = Head(jobs)
           /\ \A k \in DOMAIN jobs' : k + 1 \in DOMAIN jobs /\ jobs'[k] = jobs[k + 1] /\ k + 1 # 1 /\ k \in Int
           /\ \A m \in DOMAIN jobs : m = 1 \/ (m - 1 \in DOMAIN jobs' /\ jobs'[m - 1] = jobs[m])
<1>1. jobs \in Seq(Jobs)
    BY DEF HostInv, TypeOK
<1>2. /\ jobs' \in Seq(Jobs) /\ Len(jobs) \in Nat \ {0} /\ Head(jobs) = jobs[1] /\ Head(jobs) \in Jobs
      /\ DOMAIN jobs = 1..Len(jobs) /\ DOMAIN jobs' = 1..(Len(jobs) - 1)
      /\ \A k \in 1..(Len(jobs) - 1) : jobs'[k] = jobs[k + 1]
    BY <1>1, PoppedSeq
<1>3. Head(jobs).task \in Tasks
    BY <1>2 DEF Jobs
<1>4. ASSUME NEW m \in DOMAIN jobs, m # 1 PROVE m - 1 \in DOMAIN jobs' /\ jobs'[m - 1] = jobs[m]
    <2>1. m - 1 \in 1..(Len(jobs) - 1) /\ (m - 1) + 1 = m
        BY <1>2, <1>4
    <2> QED BY <1>2, <2>1
<1>5. ASSUME NEW k \in DOMAIN jobs'
      PROVE  k + 1 \in DOMAIN jobs /\ jobs'[k] = jobs[k + 1] /\ k + 1 # 1 /\ k \in Int
    BY <1>2, <1>5
<1>6. 1 \in DOMAIN jobs
    BY <1>2
<1> QED BY <1>2, <1>3, <1>4, <1>5, <1>6

\* What is ahead of a task is still ahead, unless the job was the end of it.
LEMMA AheadPopped ==
    ASSUME HostInv, jobs # <<>>, jobs' = Tail(jobs), NEW u \in Tasks, Ahead(u),
           ~(Head(jobs).kind = "finished" /\ Head(jobs).task = u),
           task[u].pc \notin {"none", "checked", "done"} => task'[u].pc \notin {"none", "checked", "done"}
    PROVE  Ahead(u)'
<1>1. CASE task[u].pc \notin {"none", "checked", "done"}
    BY <1>1 DEF Ahead
<1>2. CASE \E m \in DOMAIN jobs : jobs[m].kind = "finished" /\ jobs[m].task = u
    <2>1. PICK m \in DOMAIN jobs : jobs[m].kind = "finished" /\ jobs[m].task = u
        BY <1>2
    <2>2. m - 1 \in DOMAIN jobs' /\ jobs'[m - 1] = jobs[m]
        BY <2>1, Popped
    <2> QED BY <2>1, <2>2 DEF Ahead
<1> QED BY <1>1, <1>2 DEF Ahead

\* Jobs that bind are as they were, but for the one that has left.
LEMMA JobsPopped ==
    ASSUME HostInv, jobs # <<>>, jobs' = Tail(jobs),
           \A u \in Tasks : task[u].pc = "bind" /\ ~(Head(jobs).kind = "bind" /\ Head(jobs).task = u) =>
                               task'[u].pc = "bind",
           \A u \in Tasks : task'[u].input = task[u].input,
           \A i \in Inputs : item'[i].delivery = item[i].delivery
    PROVE  JobsInv'
<1> DEFINE n(k) == k + 1
<1>1. JobsInv
    BY DEF HostInv
<1>2. /\ 1 \in DOMAIN jobs /\ jobs[1] = Head(jobs)
      /\ \A k \in DOMAIN jobs' : n(k) \in DOMAIN jobs /\ jobs'[k] = jobs[n(k)] /\ n(k) # 1
      /\ \A k, m \in DOMAIN jobs' : n(k) = n(m) => k = m
    BY Popped
<1> HIDE DEF n
<1>3. ASSUME NEW k \in DOMAIN jobs', jobs'[k].kind = "bind"
      PROVE  /\ task'[jobs'[k].task].pc = "bind" /\ jobs'[k].input = task'[jobs'[k].task].input
             /\ jobs'[k].input \in Inputs /\ item'[jobs'[k].input].delivery = "prompt"
    <2>1. jobs[n(k)].task \in Tasks
        BY <1>2, JobTypes
    <2>2. task[jobs[n(k)].task].pc = "bind" /\ jobs[n(k)].input = task[jobs[n(k)].task].input
          /\ jobs[n(k)].input \in Inputs /\ item[jobs[n(k)].input].delivery = "prompt"
        BY <1>1, <1>2, <1>3 DEF JobsInv, Prompt
    <2>3. ~(Head(jobs).kind = "bind" /\ Head(jobs).task = jobs[n(k)].task)
        BY <1>1, <1>2, <1>3 DEF JobsInv
    <2> QED BY <1>2, <2>1, <2>2, <2>3
<1>4. ASSUME NEW k \in DOMAIN jobs', NEW m \in DOMAIN jobs',
             jobs'[k].kind = "bind", jobs'[m].kind = "bind", jobs'[k].task = jobs'[m].task
      PROVE  k = m
    BY <1>1, <1>2, <1>4 DEF JobsInv
<1> QED BY <1>3, <1>4 DEF JobsInv, Prompt

\* A job that moves inputs on, or fails and closes the controller.
LEMMA JobStep ==
    ASSUME HostInv, up, jobs # <<>>, jobs' = Tail(jobs),
           UNCHANGED <<order, disk, lease, file, task, closing, up, proc, wire>>, faults' \in 0..MaxFaults,
           AllLater(item, item'), lane' \in Lanes, op' \in Ops, OpInv',
           \/ failed' = TRUE
           \/ /\ failed' = failed
              /\ \A i \in Inputs : Head(jobs).kind = "finished" /\ item[i].task = Head(jobs).task =>
                                      item'[i].state \notin {"dispatching", "accepted"}
    PROVE  HostInv'
<1>1. jobs' \in Seq(Jobs)
    BY Popped
<1>2. TypeOK' /\ DownInv'
    BY <1>1 DEF HostInv, TypeOK, OrderOK, AllLater, DownInv
<1>3. LockInv' /\ SentInv' /\ InputInv'
    BY LockFrame, SentLater, InputLater
<1>4. JobsInv'
    BY JobsPopped DEF AllLater, Later
<1>5. AheadInv'
    <2>1. CASE failed' = TRUE
        BY <2>1 DEF AheadInv
    <2>2. CASE /\ failed' = failed
               /\ \A i \in Inputs : Head(jobs).kind = "finished" /\ item[i].task = Head(jobs).task =>
                                       item'[i].state \notin {"dispatching", "accepted"}
        <3> SUFFICES ASSUME ~failed, NEW i \in Inputs, item'[i].state \in {"dispatching", "accepted"}
                     PROVE  item'[i].task # 0 /\ Ahead(item[i].task)' /\ item'[i].task = item[i].task
            BY <2>2 DEF AheadInv, In, Ahead
        <3>1. item[i].state \in {"dispatching", "accepted"} /\ item'[i].task = item[i].task
            BY DEF AllLater, Later
        <3>2. PICK u \in Tasks : item[i].task = u /\ Ahead(u)
            <4>1. item[i].task \in 0..MaxTasks
                BY DEF HostInv, TypeOK, Items
            <4> HIDE DEF Ahead
            <4> QED BY <3>1, <4>1 DEF HostInv, AheadInv, In
        <3>3. Ahead(u)'
            BY <2>2, <3>2, AheadPopped
        <3> QED BY <3>1, <3>2, <3>3 DEF Ahead
    <2> QED BY <2>1, <2>2
<1> QED BY <1>2, <1>3, <1>4, <1>5 DEF HostInv

\* #finished decides the deliveries of its task, pauses, or asks for the next start.
LEMMA FinishedFacts ==
    ASSUME HostInv, op.kind = "idle", NEW t \in Tasks, Finished(t)
    PROVE  /\ AllLater(item, item') /\ lane' \in Lanes /\ op' \in Ops /\ OpInv'
           /\ \A i \in Inputs : item[i].task = t => item'[i].state \notin {"dispatching", "accepted"}
<1> DEFINE it == Ended(t)
           rest == Moved(it, {i \in Inputs : it[i].state = "queued" /\ item[i].delivery = "steer"}, "paused")
<1>0. item \in [Inputs -> Items] /\ op \in Ops /\ lane \in Lanes
    BY DEF HostInv, TypeOK
<1>1. /\ AllLater(item, it)
      /\ \A i \in Inputs : item[i].task = t => it[i].state \notin {"dispatching", "accepted"}
    BY <1>0, EndedDecides
<1>2. AllLater(it, rest)
    <2>1. it \in [Inputs -> Items]
        BY <1>1 DEF AllLater
    <2> HIDE DEF it
    <2> QED BY <2>1, MovedLater
<1>3. it \in [Inputs -> Items] /\ rest \in [Inputs -> Items]
    BY <1>1, <1>2 DEF AllLater
<1>4. CASE ~lane.on \/ lane.task # t
    <2>1. item' = it /\ UNCHANGED <<lane, op>>
        BY <1>4 DEF Finished
    <2> HIDE DEF it
    <2> QED BY <1>0, <1>1, <2>1 DEF OpInv
<1>5. CASE /\ ~(~lane.on \/ lane.task # t)
           /\ closing \/ (\E i \in Inputs : it[i].task = t /\ it[i].state = "unknown")
                 \/ task[t].status # "succeeded" \/ task[t].worker
    <2>1. item' = Paused(rest) /\ lane' = PauseLane /\ UNCHANGED op
        BY <1>5 DEF Finished
    <2> HIDE DEF it, rest
    <2>2. AllLater(rest, item') /\ lane' \in Lanes
        BY <1>3, <2>1, PausedLater, LaneTypes
    <2>3. AllLater(it, item') /\ AllLater(item, item')
        BY <1>1, <1>2, <2>2, LaterThen
    <2> QED BY <1>0, <1>1, <2>1, <2>2, <2>3 DEF OpInv, AllLater, Later
<1>6. CASE /\ ~(~lane.on \/ lane.task # t)
           /\ ~(closing \/ (\E i \in Inputs : it[i].task = t /\ it[i].state = "unknown")
                 \/ task[t].status # "succeeded" \/ task[t].worker)
    <2>1. Pump(lane, rest)
        BY <1>6 DEF Finished
    <2> HIDE DEF it, rest
    <2>2. AllLater(item, rest)
        BY <1>1, <1>2, LaterThen
    <2>3. /\ AllLater(item, item') /\ AllLater(rest, item') /\ lane' \in Lanes /\ op' \in Ops
          /\ \/ op' = Idle
             \/ /\ op'.kind = "pump" /\ op'.input \in Inputs /\ op'.task = 0
                /\ item'[op'.input].delivery = "queue"
        BY <1>0, <2>1, <2>2, PumpFacts
    <2>4. OpInv'
        BY <2>3, OpIdle, OpPump
    <2>5. AllLater(it, item')
        BY <1>2, <2>3, LaterThen
    <2> QED BY <1>1, <2>3, <2>4, <2>5 DEF AllLater, Later
<1> QED BY <1>4, <1>5, <1>6

\* A task whose prompt is not bound goes to its end.
LEMMA BindThrows ==
    ASSUME HostInv, up, jobs # <<>>, jobs' = Tail(jobs), Head(jobs).kind = "bind", op.kind = "idle",
           Throws(Head(jobs).task), faults' \in 0..MaxFaults,
           UNCHANGED <<item, order, disk, lease, file, lane, op, closing, failed, up, proc, wire>>
    PROVE  HostInv'
<1>1. PICK t \in Tasks : Head(jobs).task = t
    BY Popped
<1> DEFINE r == [task[t] EXCEPT !.pc = "stop", !.bad = TRUE]
<1>2. task[t] \in TaskRecords /\ RunsWithLock(t) /\ task[t].pc = "bind"
    <2>1. 1 \in DOMAIN jobs /\ jobs[1] = Head(jobs)
        BY Popped
    <2> QED BY <1>1, <2>1 DEF HostInv, TypeOK, LockInv, JobsInv
<1>3. /\ r \in TaskRecords /\ r.pc = "stop" /\ r.status = task[t].status
      /\ r.worker = task[t].worker /\ r.input = task[t].input
    BY <1>2 DEF TaskRecords, Places
<1>4. task' = [task EXCEPT ![t] = r]
    BY <1>1 DEF Throws
<1> HIDE DEF r
<1>5. /\ task' \in [Tasks -> TaskRecords] /\ task'[t] = r
      /\ \A u \in Tasks : u # t => task'[u] = task[u]
    BY <1>3, <1>4, OneTask
<1>6. RunsWithLock(t)'
    BY <1>2, <1>3, <1>5 DEF RunsWithLock, SavedIsTrue, Alive
<1>7. LockInv'
    BY <1>5, <1>6, LockOne
<1>8. JobsInv' /\ jobs' \in Seq(Jobs)
    BY <1>1, <1>3, <1>5, JobsPopped, Popped
<1>9. OpInv' /\ DownInv' /\ TypeOK'
    BY <1>5, <1>8 DEF OpInv, DownInv, HostInv, TypeOK, OrderOK
<1>10. SentInv'
    <2>1. SentInv
        BY DEF HostInv
    <2>2. ASSUME NEW u \in Tasks, NEW i \in Inputs, task'[u].input = i
          PROVE  /\ task'[u].pc = "bound" => Touched(i)
                 /\ task'[u].pc \in {"lease", "identity", "ready"} /\ ~Prompt(i) => Touched(i)
        BY <1>3, <1>5, <2>1, <2>2 DEF SentInv
    <2> QED BY <2>1, <2>2 DEF SentInv, Touched, Prompt
<1>11. InputInv'
    <2>1. InputInv
        BY DEF HostInv
    <2>2. ASSUME NEW u \in Tasks, task'[u].pc \in {"lease", "identity", "ready", "bind"},
                 NEW i \in Inputs, task'[u].input = i, Prompt(i)
          PROVE  item[i].state = "none"
        <3>1. u # t
            BY <1>3, <1>5, <2>2
        <3> QED BY <1>5, <2>1, <2>2, <3>1 DEF InputInv
    <2> QED BY <2>1, <2>2 DEF InputInv, Prompt
<1>12. \A u \in Tasks : Ahead(u) => Ahead(u)'
    BY <1>2, <1>3, <1>5, AheadPopped
<1>13. AheadInv'
    <2>1. \A i \in Inputs : item[i].task \in 0..MaxTasks
        BY DEF HostInv, TypeOK, Items
    <2> HIDE DEF Ahead
    <2> QED BY <1>12, <2>1 DEF HostInv, AheadInv, In
<1> QED BY <1>7, <1>8, <1>9, <1>10, <1>11, <1>13 DEF HostInv

\* A prompt is dispatched for the task that waits for it.
LEMMA BindDispatches ==
    ASSUME HostInv, up, NEW t \in Tasks, NEW i \in Inputs, NEW r \in TaskRecords,
           task[t].pc = "bind", task[t].input = i, r.pc = "bound", r.input = i,
           task' = [task EXCEPT ![t] = r], item' = Dispatched(i, t), UNCHANGED <<disk, proc, wire>>,
           \A k \in DOMAIN order' : item'[order'[k]].state # "none"
    PROVE  SentInv' /\ InputInv'
<1>1. /\ task' \in [Tasks -> TaskRecords] /\ task'[t] = r
      /\ \A u \in Tasks : u # t => task'[u] = task[u]
    BY OneTask
<1>2. /\ item' \in [Inputs -> Items]
      /\ item'[i].state = "dispatching" /\ item'[i].task = t
      /\ \A j \in Inputs : /\ j # i => item'[j] = item[j]
                           /\ item'[j].delivery = item[j].delivery
                           /\ Touched(j) => Touched(j)'
                           /\ item[j].state # "none" => item'[j].state # "none"
    BY DispatchedFacts
<1>3. \A j \in Inputs : Prompt(j)' <=> Prompt(j)
    BY <1>2 DEF Prompt
<1>4. SentInv'
    <2>1. SentInv /\ \A u \in Tasks : proc[u].seen \subseteq Inputs
        BY DEF HostInv, TypeOK, Workers
    <2>2. ASSUME NEW u \in Tasks, NEW j \in Inputs, task'[u].input = j
          PROVE  /\ task'[u].pc = "bound" => Touched(j)'
                 /\ task'[u].pc \in {"lease", "identity", "ready"} /\ ~Prompt(j)' => Touched(j)'
        <3>1. CASE u = t
            BY <1>1, <1>2, <2>2, <3>1 DEF Touched
        <3>2. CASE u # t
            <4>1. task[u].input = j /\ task'[u].pc = task[u].pc
                BY <1>1, <2>2, <3>2
            <4>2. /\ task[u].pc = "bound" => Touched(j)
                  /\ task[u].pc \in {"lease", "identity", "ready"} /\ ~Prompt(j) => Touched(j)
                BY <2>1, <4>1 DEF SentInv
            <4> QED BY <1>2, <1>3, <4>1, <4>2
        <3> QED BY <3>1, <3>2
    <2> QED BY <1>2, <2>1, <2>2 DEF SentInv
<1>5. InputInv'
    <2>1. InputInv /\ \A u \in Tasks : disk[u].input = task[u].input
        BY DEF HostInv, LockInv, RunsWithLock, SavedIsTrue
    <2>2. ASSUME NEW u \in Tasks, task'[u].pc \in {"lease", "identity", "ready", "bind"},
                 NEW j \in Inputs, task'[u].input = j, Prompt(j)'
          PROVE  item'[j].state = "none"
        <3>1. u # t /\ task[u] = task'[u]
            BY <1>1, <2>2
        <3>2. disk[u].input = j /\ disk[t].input = i
            BY <2>1, <2>2, <3>1
        <3>3. j # i
            BY <2>1, <3>1, <3>2 DEF InputInv
        <3>4. item[j].state = "none"
            BY <1>3, <2>1, <2>2, <3>1 DEF InputInv
        <3> QED BY <1>2, <3>3, <3>4
    <2>3. ASSUME NEW j \in Inputs, Prompt(j)', item'[j].state # "none" PROVE \E u \in Tasks : disk'[u].input = j
        <3>1. CASE j = i
            BY <2>1, <3>1
        <3>2. CASE j # i
            BY <1>2, <1>3, <2>1, <2>3, <3>2 DEF InputInv
        <3> QED BY <3>1, <3>2
    <2>4. \A u, v \in Tasks : disk'[u].input = disk'[v].input /\ disk'[u].input # NoInput => u = v
        BY <2>1 DEF InputInv
    <2> QED BY <2>2, <2>3, <2>4 DEF InputInv
<1> QED BY <1>4, <1>5

\* A submitted prompt enters the order, for the first time, when it is bound.
LEMMA BindBinds ==
    ASSUME HostInv, up, jobs # <<>>, jobs' = Tail(jobs), Head(jobs).kind = "bind", op.kind = "idle",
           item' = Dispatched(Head(jobs).input, Head(jobs).task), order' = Append(order, Head(jobs).input),
           Goes(Head(jobs).task, "bound"),
           UNCHANGED <<disk, lease, file, lane, op, closing, failed, up, proc, wire, faults>>
    PROVE  HostInv'
<1>0. 1 \in DOMAIN jobs /\ jobs[1] = Head(jobs)
    BY Popped
<1>1. PICK t \in Tasks, i \in Inputs : Head(jobs).task = t /\ Head(jobs).input = i
    BY <1>0, Popped DEF HostInv, JobsInv
<1> DEFINE r == [task[t] EXCEPT !.pc = "bound"]
<1>2. task[t] \in TaskRecords /\ RunsWithLock(t) /\ task[t].pc = "bind" /\ task[t].input = i
    BY <1>0, <1>1 DEF HostInv, TypeOK, LockInv, JobsInv
<1>3. /\ r \in TaskRecords /\ r.pc = "bound" /\ r.status = task[t].status
      /\ r.worker = task[t].worker /\ r.input = task[t].input
    BY <1>2 DEF TaskRecords, Places
<1>4. task' = [task EXCEPT ![t] = r] /\ item' = Dispatched(i, t) /\ order' = Append(order, i)
    BY <1>1 DEF Goes
<1> HIDE DEF r
<1>5. /\ task' \in [Tasks -> TaskRecords] /\ task'[t] = r
      /\ \A u \in Tasks : u # t => task'[u] = task[u]
    BY <1>3, <1>4, OneTask
<1>6. /\ item' \in [Inputs -> Items]
      /\ item'[i].state = "dispatching" /\ item'[i].task = t
      /\ \A j \in Inputs : /\ j # i => item'[j] = item[j]
                           /\ item'[j].delivery = item[j].delivery
                           /\ Touched(j) => Touched(j)'
                           /\ item[j].state # "none" => item'[j].state # "none"
    BY <1>4, DispatchedFacts
<1>7. RunsWithLock(t)'
    BY <1>2, <1>3, <1>5 DEF RunsWithLock, SavedIsTrue, Alive
<1>8. LockInv'
    BY <1>5, <1>7, LockOne
<1>9. JobsInv' /\ jobs' \in Seq(Jobs)
    BY <1>1, <1>3, <1>5, <1>6, JobsPopped, Popped
<1>10. OrderOK' /\ \A k \in DOMAIN order' : item'[order'[k]].state # "none"
    <2>1. Prompt(i)
        BY <1>0, <1>1 DEF HostInv, JobsInv
    <2>2. item[i].state = "none"
        BY <1>2, <2>1 DEF HostInv, InputInv
    <2>3. item'[i].state # "none"
        BY <1>6
    <2> QED BY <1>4, <1>6, <2>2, <2>3, OrderAppended
<1>11. OpInv' /\ DownInv' /\ TypeOK'
    BY <1>5, <1>6, <1>9, <1>10 DEF OpInv, DownInv, HostInv, TypeOK
<1>12. SentInv' /\ InputInv'
    BY <1>2, <1>3, <1>4, <1>10, BindDispatches
<1>14. (\A u \in Tasks : Ahead(u) => Ahead(u)') /\ Ahead(t)'
    <2>1. \A u \in Tasks : Ahead(u) => Ahead(u)'
        BY <1>2, <1>3, <1>5, AheadPopped
    <2> QED BY <1>2, <2>1 DEF Ahead
<1>15. AheadInv'
    <2>1. \A j \in Inputs : item[j].task \in 0..MaxTasks
        BY DEF HostInv, TypeOK, Items
    <2> HIDE DEF Ahead
    <2>2. ASSUME up', ~failed', NEW j \in Inputs, item'[j].state \in {"dispatching", "accepted"}
          PROVE  \E u \in Tasks : item'[j].task = u /\ Ahead(u)'
        <3>1. CASE j = i
            BY <1>6, <1>14, <3>1
        <3>2. CASE j # i
            <4>1. up /\ ~failed /\ item'[j] = item[j]
                BY <1>6, <2>2, <3>2
            <4>2. item[j].task # 0 /\ Ahead(item[j].task)
                BY <2>2, <4>1 DEF HostInv, AheadInv, In
            <4>3. PICK u \in Tasks : item[j].task = u
                BY <2>1, <4>2
            <4> QED BY <1>14, <4>1, <4>2, <4>3
        <3> QED BY <3>1, <3>2
    <2> QED BY <2>2 DEF AheadInv, In
<1> QED BY <1>8, <1>9, <1>11, <1>12, <1>15 DEF HostInv

LEMMA RunJobStep == ASSUME HostInv, RunJob PROVE HostInv'
<1> DEFINE j == Head(jobs)
<1>0. /\ up /\ op.kind = "idle" /\ jobs # <<>> /\ jobs' = Tail(jobs)
      /\ item \in [Inputs -> Items] /\ lane \in Lanes /\ op \in Ops /\ faults \in 0..MaxFaults
      /\ UNCHANGED <<disk, lease, file, closing, failed, up, proc, wire, faults>>
      /\ j.task \in Tasks
    BY Popped DEF RunJob, Serial, HostInv, TypeOK, world
<1>a. ASSUME UNCHANGED op PROVE OpInv' /\ op' \in Ops
    BY <1>0, <1>a DEF OpInv
<1>1. CASE j.kind = "finished" /\ Finished(j.task) /\ UNCHANGED <<order, task>>
    <2>1. /\ AllLater(item, item') /\ lane' \in Lanes /\ op' \in Ops /\ OpInv'
          /\ \A i \in Inputs : item[i].task = j.task => item'[i].state \notin {"dispatching", "accepted"}
        BY <1>0, <1>1, FinishedFacts
    <2> QED BY <1>0, <1>1, <2>1, JobStep
<1>2. CASE j.kind = "pause" /\ PauseTask(j.task) /\ UNCHANGED <<order, task>>
    <2>1. AllLater(item, item') /\ lane' \in Lanes /\ UNCHANGED op
        BY <1>0, <1>2, PausedLater, LaterSelf, LaneTypes DEF PauseTask
    <2> QED BY <1>0, <1>2, <1>a, <2>1, JobStep
<1>3. CASE j.kind = "input" /\ item' = Reconciled(item, {j.input}) /\ UNCHANGED <<order, task, lane, op>>
    <2>1. AllLater(item, item')
        BY <1>0, <1>3, ReconciledLater
    <2> QED BY <1>0, <1>3, <1>a, <2>1, JobStep
<1>4. CASE j.kind = "accepted" /\ item' = Moved(item, {j.input}, "accepted") /\ UNCHANGED <<order, task, lane, op>>
    <2>1. AllLater(item, item')
        BY <1>0, <1>4, MovedLater
    <2> QED BY <1>0, <1>4, <1>a, <2>1, JobStep
<1>5. CASE j.kind = "bind" /\ BindPrompt(j.task, j.input)
    <2>1. CASE Stopping(j.task)
        BY <1>0, <1>5, <2>1, BindThrows DEF BindPrompt
    <2>2. CASE ~Stopping(j.task)
        BY <1>0, <1>5, <2>2, BindBinds DEF BindPrompt
    <2> QED BY <2>1, <2>2
<1> QED BY <1>1, <1>2, <1>3, <1>4, <1>5 DEF RunJob

LEMMA JobFailsStep == ASSUME HostInv, JobFails PROVE HostInv'
<1>0. /\ up /\ op.kind = "idle" /\ jobs # <<>> /\ jobs' = Tail(jobs) /\ faults' \in 0..MaxFaults
      /\ item \in [Inputs -> Items] /\ lane \in Lanes /\ op \in Ops
      /\ UNCHANGED <<item, order, disk, lease, file, op, closing, up, proc, wire>>
    BY DEF JobFails, Serial, HostInv, TypeOK, durable
<1>1. CASE Head(jobs).kind = "bind"
    BY <1>0, <1>1, BindThrows DEF JobFails
<1>2. CASE Head(jobs).kind # "bind"
    <2>1. failed' = TRUE /\ lane' \in Lanes /\ UNCHANGED task
        BY <1>2, LaneTypes DEF JobFails
    <2>2. OpInv' /\ AllLater(item, item')
        BY <1>0, LaterSelf DEF OpInv
    <2> QED BY <1>0, <2>1, <2>2, JobStep
<1> QED BY <1>1, <1>2

-----------------------------------------------------------------------------
(* The host stops, crashes and starts again.                               *)

\* Every task that runs is cancelled at once; nothing else about it changes.
LEMMA CloseStep == ASSUME HostInv, CloseHost PROVE HostInv'
<1>0. /\ up /\ task \in [Tasks -> TaskRecords] /\ disk' = Saved(task') /\ closing' = TRUE
      /\ faults' \in 0..MaxFaults
      /\ UNCHANGED <<item, order, lease, file, lane, op, jobs, failed, up, proc, wire>>
    BY DEF CloseHost, HostInv, TypeOK
<1>1. ASSUME NEW t \in Tasks
      PROVE  /\ task'[t] \in TaskRecords /\ task'[t].pc = task[t].pc /\ task'[t].input = task[t].input
             /\ task'[t].worker = task[t].worker
             /\ task'[t].status = task[t].status
                   \/ (task[t].status \in {"starting", "running"} /\ task'[t].status = "cancelling")
    <2> DEFINE r == [task[t] EXCEPT !.status = "cancelling"]
    <2>1. /\ r \in TaskRecords /\ r.pc = task[t].pc /\ r.input = task[t].input
          /\ r.worker = task[t].worker /\ r.status = "cancelling"
        BY <1>0 DEF TaskRecords, Statuses
    <2>2. task'[t] = IF task[t].status \in {"starting", "running"} THEN r ELSE task[t]
        BY DEF CloseHost
    <2>3. task[t] \in TaskRecords
        BY <1>0
    <2> HIDE DEF r
    <2> QED BY <2>1, <2>2, <2>3
<1>2. task' \in [Tasks -> TaskRecords]
    <2>1. task' = [t \in Tasks |-> task'[t]]
        BY DEF CloseHost
    <2> QED BY <1>1, <2>1
<1>3. disk' \in [Tasks -> Entries] /\ \A u \in Tasks : SavedIsTrue(u)' /\ disk'[u].input = task'[u].input
    BY <1>0, <1>2, SavedFacts
<1>4. ASSUME NEW u \in Tasks PROVE RunsWithLock(u)'
    <2>1. RunsWithLock(u)
        BY <1>0 DEF HostInv, LockInv
    <2> QED BY <1>0, <1>1, <1>3, <2>1 DEF RunsWithLock, Alive, terminal, Finals
<1>5. LockInv' /\ TypeOK' /\ DownInv'
    BY <1>0, <1>2, <1>3, <1>4 DEF LockInv, HostInv, TypeOK, OrderOK, DownInv
<1>6. \A u : u \in Tasks => (Ahead(u)' <=> Ahead(u))
    BY <1>0, <1>1 DEF Ahead
<1>7. JobsInv'
    <2>1. \A k \in DOMAIN jobs : jobs[k].task \in Tasks
        BY JobTypes
    <2> QED BY <1>0, <1>1, <2>1 DEF HostInv, JobsInv, Prompt
<1>8. OpInv'
    <2>1. OpInv /\ op.task \in 0..MaxTasks
        BY DEF HostInv, TypeOK, Ops
    <2>2. \A i \in Inputs : Requested(i)' <=> Requested(i)
        BY <1>1 DEF Requested
    <2> HIDE DEF Ahead
    <2> QED BY <1>0, <1>1, <1>6, <2>1, <2>2 DEF OpInv, Touched, Prompt
<1>9. SentInv'
    BY <1>0, <1>1 DEF HostInv, SentInv, Touched, Prompt
<1>10. InputInv'
    <2>1. \A u \in Tasks : disk'[u].input = disk[u].input
        BY <1>0, <1>1, <1>3 DEF HostInv, LockInv, RunsWithLock, SavedIsTrue
    <2> QED BY <1>0, <1>1, <2>1 DEF HostInv, InputInv, Prompt
<1>11. AheadInv'
    <2>1. \A i \in Inputs : item[i].task \in 0..MaxTasks
        BY DEF HostInv, TypeOK, Items
    <2> HIDE DEF Ahead
    <2> QED BY <1>0, <1>6, <2>1 DEF HostInv, AheadInv, In
<1> QED BY <1>5, <1>7, <1>8, <1>9, <1>10, <1>11 DEF HostInv

LEMMA CrashStep == ASSUME HostInv, Crash PROVE HostInv'
<1>0. /\ up /\ up' = FALSE /\ task' = [t \in Tasks |-> NoTask] /\ lane' = NoLane /\ op' = Idle /\ jobs' = <<>>
      /\ closing' = FALSE /\ failed' = FALSE /\ faults' \in 0..MaxFaults
      /\ UNCHANGED <<item, order, disk, lease, file>>
      /\ wire \in [Inputs -> Wires] /\ proc \in [Tasks -> Workers]
    BY DEF Crash, durable, HostInv, TypeOK
<1>1. \A t \in Tasks : task'[t] = NoTask
    BY <1>0
<1>2. /\ wire' \in [Inputs -> Wires]
      /\ \A i \in Inputs : wire'[i] \in {"sent", "late"} => wire[i] \in {"sent", "late"}
    BY <1>0 DEF Crash, Wires
<1>3. ASSUME NEW t \in Tasks
      PROVE  /\ proc'[t] \in Workers /\ proc'[t].seen = proc[t].seen /\ proc'[t].phase # "spawned"
             /\ proc'[t].phase = proc[t].phase \/ (proc[t].phase = "spawned" /\ proc'[t].phase = "dead")
    <2> DEFINE w == [proc[t] EXCEPT !.phase = "dead"]
    <2>1. w \in Workers /\ w.seen = proc[t].seen /\ w.phase = "dead"
        BY <1>0 DEF Workers, Phases
    <2>2. proc'[t] = IF proc[t].phase = "spawned" THEN w ELSE proc[t]
        BY DEF Crash
    <2>3. proc[t] \in Workers
        BY <1>0
    <2> HIDE DEF w
    <2> QED BY <2>1, <2>2, <2>3
<1>4. proc' \in [Tasks -> Workers]
    <2>1. proc' = [t \in Tasks |-> proc'[t]]
        BY DEF Crash
    <2> QED BY <1>3, <2>1
<1>5. NoLane \in Lanes /\ Idle \in Ops /\ <<>> \in Seq(Jobs) /\ task' \in [Tasks -> TaskRecords]
    <2>1. NoLane \in Lanes
        BY HostAssumption DEF NoLane, Lanes
    <2>2. Idle \in Ops
        BY HostAssumption DEF Idle, Ops, OpKinds, AnyInput
    <2>3. task' \in [Tasks -> TaskRecords]
        BY <1>0, NoTaskFacts
    <2> QED BY <2>1, <2>2, <2>3
<1>6. TypeOK' /\ DownInv' /\ OpInv'
    BY <1>0, <1>2, <1>4, <1>5, OpIdle DEF HostInv, TypeOK, OrderOK, DownInv
<1>7. ASSUME NEW t \in Tasks PROVE LeftBehind(t)'
    <2>1. RunsWithLock(t) /\ task[t].pc \in Places
        BY <1>0 DEF HostInv, LockInv, TypeOK, TaskRecords
    <2>2. Alive(t)' => Alive(t)
        BY <1>3 DEF Alive
    <2>3. disk[t].status = "none" => proc[t].phase = "none" /\ disk[t].input = NoInput
        BY <2>1 DEF RunsWithLock, SavedIsTrue
    <2>4. lease = t => disk[t].status # "none" /\ (terminal(disk[t].status) => disk[t].worker)
        BY <2>1 DEF RunsWithLock, SavedIsTrue
    <2> QED BY <1>0, <1>1, <1>3, <2>1, <2>2, <2>3, <2>4 DEF LeftBehind, RunsWithLock, SavedIsTrue
<1>8. LockInv' /\ AheadInv'
    BY <1>0, <1>7 DEF LockInv, AheadInv
<1>9. JobsInv'
    BY <1>0 DEF JobsInv
<1>10. SentInv'
    BY <1>0, <1>1, <1>2, <1>3, NoTaskFacts DEF HostInv, SentInv, Touched
<1>11. InputInv'
    BY <1>0, <1>1, NoTaskFacts DEF HostInv, InputInv, Prompt
<1> QED BY <1>6, <1>8, <1>9, <1>10, <1>11 DEF HostInv

\* A restart ends every worker that tasks.json knows, which is every one there is.
LEMMA RestartStep == ASSUME HostInv, Restart PROVE HostInv'
<1> DEFINE open == {t \in Tasks : disk[t].status # "none" /\ ~(terminal(disk[t].status) /\ ~disk[t].worker)}
<1>0. /\ ~up /\ up' = TRUE /\ disk' = Saved(task') /\ lease' = IF lease \in open THEN 0 ELSE lease
      /\ UNCHANGED <<order, file, lane, op, jobs, closing, failed, faults>>
      /\ op = Idle /\ jobs = <<>> /\ disk \in [Tasks -> Entries] /\ proc \in [Tasks -> Workers]
      /\ item \in [Inputs -> Items] /\ lease \in 0..MaxTasks
      /\ wire' = [i \in Inputs |-> "none"]
    BY DEF Restart, HostInv, TypeOK, DownInv
<1>1. ASSUME NEW t \in Tasks PROVE LeftBehind(t)
    BY <1>0 DEF HostInv, LockInv
<1>2. lease' = 0
    <2>1. CASE lease = 0
        BY <1>0, <2>1
    <2>2. CASE lease # 0
        BY <1>0, <1>1, <2>2 DEF LeftBehind
    <2> QED BY <2>1, <2>2
<1>3. ASSUME NEW t \in Tasks
      PROVE  /\ proc'[t] \in Workers /\ proc'[t].seen = proc[t].seen /\ ~Alive(t)'
             /\ proc[t].phase = "none" => proc'[t].phase = "none"
    <2>1. proc'[t] = IF disk[t].worker /\ Alive(t) THEN Died(t) ELSE proc[t]
        BY DEF Restart
    <2>2. Died(t) \in Workers /\ Died(t).phase = "dead" /\ Died(t).seen = proc[t].seen
        BY DiedFacts
    <2>3. proc[t] \in Workers /\ (Alive(t) => disk[t].worker)
        BY <1>0, <1>1 DEF LeftBehind
    <2>4. CASE disk[t].worker /\ Alive(t)
        BY <2>1, <2>2, <2>4 DEF Alive
    <2>5. CASE ~(disk[t].worker /\ Alive(t))
        BY <2>1, <2>3, <2>5 DEF Alive
    <2> QED BY <2>4, <2>5
<1>4. proc' \in [Tasks -> Workers]
    <2>1. proc' = [t \in Tasks |-> proc'[t]]
        BY DEF Restart
    <2> QED BY <1>3, <2>1
<1>5. ASSUME NEW t \in Tasks
      PROVE  /\ task'[t] \in TaskRecords /\ task'[t].worker = FALSE /\ task'[t].input = disk[t].input
             /\ disk[t].status = "none" => task'[t].pc = "none" /\ task'[t].status = "none"
             /\ disk[t].status # "none" => task'[t].pc = "done" /\ terminal(task'[t].status)
    <2> DEFINE st == IF terminal(disk[t].status) THEN disk[t].status ELSE "interrupted"
               r == [NoTask EXCEPT !.input = disk[t].input, !.pc = "done", !.status = st]
    <2>1. disk[t].input \in Inputs \union {NoInput} /\ terminal(st) /\ st \in Statuses
        BY <1>0 DEF Entries, terminal, Finals, Statuses
    <2>2. task'[t] = IF disk[t].status = "none" THEN NoTask ELSE r
        BY DEF Restart
    <2> HIDE DEF st
    <2>3. /\ r \in TaskRecords /\ r.worker = FALSE /\ r.input = disk[t].input /\ r.pc = "done"
          /\ r.status = st
        BY <2>1 DEF NoTask, TaskRecords, Places, Statuses
    <2> HIDE DEF r
    <2>4. disk[t].status = "none" => disk[t].input = NoInput
        BY <1>1 DEF LeftBehind
    <2> QED BY <2>1, <2>2, <2>3, <2>4, NoTaskFacts
<1>6. task' \in [Tasks -> TaskRecords]
    <2>1. task' = [t \in Tasks |-> task'[t]]
        BY DEF Restart
    <2> QED BY <1>5, <2>1
<1>7. disk' \in [Tasks -> Entries] /\ \A u \in Tasks : SavedIsTrue(u)' /\ disk'[u].input = task'[u].input
    BY <1>0, <1>6, SavedFacts
<1>8. ASSUME NEW i \in Inputs
      PROVE  /\ item'[i] \in Items /\ item'[i].delivery = item[i].delivery
             /\ item'[i].state = "none" <=> item[i].state = "none"
             /\ Touched(i) => Touched(i)'
             /\ item'[i].state \notin {"dispatching", "accepted"}
    <2> DEFINE r == [item[i] EXCEPT !.state = Restarted(item[i].state)]
    <2>1. item'[i] = r
        BY DEF Restart
    <2>2. item[i] \in Items /\ item[i].state \in InputStates
        BY <1>0 DEF Items
    <2>3. /\ Restarted(item[i].state) \in InputStates
          /\ Restarted(item[i].state) = "none" <=> item[i].state = "none"
          /\ Touched(i) => Restarted(item[i].state) \in {"consumed", "unknown"}
          /\ Restarted(item[i].state) \notin {"dispatching", "accepted"}
        BY <2>2 DEF Restarted, InputStates, Touched
    <2>4. r \in Items /\ r.delivery = item[i].delivery /\ r.state = Restarted(item[i].state)
        BY <2>2, <2>3 DEF Items
    <2> HIDE DEF r
    <2> QED BY <2>1, <2>3, <2>4 DEF Touched
<1>9. item' \in [Inputs -> Items]
    <2>1. item' = [i \in Inputs |-> item'[i]]
        BY DEF Restart
    <2> QED BY <1>8, <2>1
<1>10. wire' \in [Inputs -> Wires] /\ \A i \in Inputs : wire'[i] = "none"
    BY <1>0 DEF Wires
<1>11. TypeOK' /\ DownInv' /\ OpInv'
    BY <1>0, <1>2, <1>4, <1>6, <1>7, <1>9, <1>10, OpIdle DEF HostInv, TypeOK, OrderOK, DownInv
<1>12. ASSUME NEW t \in Tasks PROVE RunsWithLock(t)'
    <2>1. disk[t].status = "none" => proc'[t].phase = "none" /\ disk[t].input = NoInput
        BY <1>1, <1>3 DEF LeftBehind
    <2>2. task'[t].worker = FALSE /\ ~Alive(t)' /\ SavedIsTrue(t)' /\ lease' # t
        <3>1. task'[t].worker = FALSE
            BY <1>5
        <3>2. ~Alive(t)'
            BY <1>3
        <3>3. SavedIsTrue(t)'
            BY <1>7
        <3>4. lease' # t
            BY <1>2
        <3> QED BY <3>1, <3>2, <3>3, <3>4
    <2>3. CASE disk[t].status = "none"
        <3>1. task'[t].pc = "none" /\ task'[t].status = "none" /\ task'[t].input = NoInput
            BY <1>5, <2>1, <2>3
        <3>2. ~terminal("none")
            BY DEF terminal, Finals
        <3> QED BY <2>1, <2>2, <2>3, <3>1, <3>2 DEF RunsWithLock
    <2>4. CASE disk[t].status # "none"
        <3>1. task'[t].pc = "done" /\ terminal(task'[t].status) /\ proc'[t].phase # "stop"
            BY <1>3, <1>5, <2>4 DEF Workers, Phases
        <3>2. task'[t].status # "none"
            BY <3>1 DEF terminal, Finals
        <3> QED BY <2>2, <3>1, <3>2 DEF RunsWithLock
    <2> QED BY <2>3, <2>4
<1>13. LockInv' /\ JobsInv'
    BY <1>0, <1>12 DEF LockInv, JobsInv
<1>14. AheadInv'
    BY <1>8 DEF AheadInv, In
<1>15. SentInv'
    <2>1. SentInv /\ \A u \in Tasks : proc[u].seen \subseteq Inputs
        BY DEF HostInv, TypeOK, Workers
    <2>2. \A u \in Tasks : task'[u].pc \in {"none", "done"}
        BY <1>5
    <2> QED BY <1>3, <1>8, <1>10, <2>1, <2>2 DEF SentInv
<1>16. InputInv'
    <2>1. InputInv /\ \A k \in DOMAIN order : order[k] \in Inputs
        BY DEF HostInv, TypeOK, OrderOK
    <2>2. \A u \in Tasks : task'[u].pc \in {"none", "done"} /\ disk'[u].input = disk[u].input
        BY <1>5, <1>7
    <2>3. \A t, u \in Tasks : disk'[t].input = disk'[u].input /\ disk'[t].input # NoInput => t = u
        BY <2>1, <2>2 DEF InputInv
    <2>4. \A k \in DOMAIN order' : item'[order'[k]].state # "none"
        BY <1>0, <1>8, <2>1 DEF InputInv
    <2>5. \A i \in Inputs : Prompt(i)' /\ item'[i].state # "none" => \E t \in Tasks : disk'[t].input = i
        BY <1>8, <2>1, <2>2 DEF InputInv, Prompt
    <2>6. \A t \in Tasks : task'[t].pc \notin {"lease", "identity", "ready", "bind"}
        BY <2>2
    <2> QED BY <2>3, <2>4, <2>5, <2>6 DEF InputInv
<1> QED BY <1>11, <1>13, <1>14, <1>15, <1>16 DEF HostInv

-----------------------------------------------------------------------------
(* The theorems.                                                           *)

LEMMA HostInit == Init => HostInv
<1> SUFFICES ASSUME Init PROVE HostInv
    OBVIOUS
<1>1. PICK d \in Deliveries : item = [i \in Inputs |-> [state |-> "none", task |-> 0, delivery |-> d[i]]]
    BY DEF Init
<1>2. \A i \in Inputs : item[i] \in Items /\ item[i].state = "none"
    BY <1>1 DEF Items, InputStates
<1>3. item \in [Inputs -> Items]
    BY <1>1, <1>2
<1>4. /\ order = <<>> /\ task = [t \in Tasks |-> NoTask] /\ disk = Saved(task) /\ lease = 0 /\ file = {}
      /\ lane = NoLane /\ op = Idle /\ jobs = <<>> /\ closing = FALSE /\ failed = FALSE /\ up = TRUE
      /\ proc = [t \in Tasks |-> NoProc] /\ wire = [i \in Inputs |-> "none"] /\ faults = 0
    BY DEF Init
<1>5. NoProc \in Workers /\ NoProc.phase = "none" /\ NoProc.seen = {} /\ NoLane \in Lanes /\ Idle \in Ops
    BY DEF NoProc, Workers, Phases, NoLane, Lanes, Idle, Ops, OpKinds
<1>6. /\ \A t \in Tasks : task[t] = NoTask /\ proc[t] = NoProc
      /\ task \in [Tasks -> TaskRecords] /\ proc \in [Tasks -> Workers]
    BY <1>4, <1>5, NoTaskFacts
<1>7. ASSUME NEW t \in Tasks
      PROVE  disk[t] \in Entries /\ disk[t].status = "none" /\ disk[t].worker = FALSE /\ disk[t].input = NoInput
    <2>1. disk[t] = [status |-> "none", worker |-> FALSE, input |-> NoInput]
        BY <1>4, <1>6, NoTaskFacts DEF Saved
    <2> QED BY <2>1 DEF Entries, Statuses
<1>8. disk \in [Tasks -> Entries]
    <2>1. disk = [t \in Tasks |-> disk[t]]
        BY <1>4 DEF Saved
    <2> QED BY <1>7, <2>1
<1>9. TypeOK
    <2>1. OrderOK
        BY <1>4 DEF OrderOK
    <2>2. wire \in [Inputs -> Wires]
        BY <1>4 DEF Wires
    <2>3. jobs \in Seq(Jobs) /\ lease \in 0..MaxTasks /\ faults \in 0..MaxFaults /\ file \subseteq Inputs
        BY <1>4, HostAssumption
    <2> QED BY <1>3, <1>4, <1>5, <1>6, <1>8, <2>1, <2>2, <2>3 DEF TypeOK
<1>10. ASSUME NEW t \in Tasks PROVE RunsWithLock(t)
    <2>1. /\ task[t].pc = "none" /\ task[t].status = "none" /\ task[t].input = NoInput
          /\ task[t].worker = FALSE /\ lease # t /\ proc[t].phase = "none" /\ ~terminal("none")
        BY <1>4, <1>5, <1>6, NoTaskFacts DEF NoTask, terminal, Finals
    <2>2. SavedIsTrue(t)
        BY <1>7, <2>1 DEF SavedIsTrue
    <2>3. ~Alive(t)
        BY <2>1 DEF Alive
    <2> QED BY <2>1, <2>2, <2>3 DEF RunsWithLock
<1>11. LockInv /\ DownInv
    BY <1>4, <1>10 DEF LockInv, DownInv
<1>12. OpInv /\ JobsInv
    BY <1>4 DEF OpInv, Idle, JobsInv
<1>13. SentInv
    BY <1>4, <1>5, <1>6, NoTaskFacts DEF SentInv
<1>14. InputInv
    <2>1. DOMAIN order = {}
        BY <1>4
    <2>2. \A t \in Tasks : task[t].pc = "none" /\ disk[t].input = NoInput
        <3>1. \A t \in Tasks : task[t].pc = "none"
            BY <1>6, NoTaskFacts
        <3>2. \A t \in Tasks : disk[t].input = NoInput
            BY <1>7
        <3> QED BY <3>1, <3>2
    <2> QED BY <1>2, <2>1, <2>2 DEF InputInv
<1>15. AheadInv
    BY <1>2 DEF AheadInv, In
<1> QED BY <1>9, <1>11, <1>12, <1>13, <1>14, <1>15 DEF HostInv

\* Every step of the controller, of a task, of a worker, and every crash and
\* restart keeps the invariant.
LEMMA HostStep == HostInv /\ [Next]_vars => HostInv'
<1> SUFFICES ASSUME HostInv, [Next]_vars PROVE HostInv'
    OBVIOUS
<1>1. ASSUME NEW i \in Inputs, NEW t \in Tasks, EnqueueInput(i, t) \/ DeliverSupplement(i, t) PROVE HostInv'
    <2>1. op \in Ops /\ Op("mark", i, t) \in Ops
        BY DEF HostInv, TypeOK, Op, Ops, OpKinds
    <2> QED BY <1>1, <2>1, AdmitStep DEF EnqueueInput, DeliverSupplement
<1>2. ASSUME NEW i \in Inputs, RemoveQueuedInput(i) \/ ReconcileInput(i) \/ SubmitPrompt(i) PROVE HostInv'
    BY <1>2, ControllerSteps
<1>3. ASSUME NEW t \in Tasks, NEW i \in Inputs, Deliver(t, i) \/ Take(t, i) \/ Flush(t, i) PROVE HostInv'
    BY <1>3, WorkerSteps
<1>4. CASE Controller \/ ResumeQueue \/ StartTask
    BY <1>4, MarkStep, ControllerSteps, StartSteps, BeforeRunStep DEF Controller
<1>5. CASE AdmissionFails \/ RunJob \/ JobFails \/ CloseHost \/ Crash \/ Restart
    BY <1>5, AdmissionFailsStep, RunJobStep, JobFailsStep, CloseStep, CrashStep, RestartStep
<1>6. ASSUME NEW t \in Tasks, Run(t) \/ Cancel(t) PROVE HostInv'
    BY <1>6, RunSteps DEF Run
<1>7. ASSUME NEW t \in Tasks, CreateTask(t) PROVE HostInv'
    BY <1>7, StartSteps
<1>8. ASSUME NEW t \in Tasks, EndTurn(t) \/ WorkerDies(t) PROVE HostInv'
    BY <1>8, WorkerSteps
<1>9. CASE UNCHANGED vars
    <2>1. HostInv' <=> HostInv
        BY <1>9 DEF vars, durable, memory, world, HostInv, TypeOK, OrderOK, LockInv, RunsWithLock, SavedIsTrue,
           LeftBehind, Alive, DownInv, OpInv, JobsInv, SentInv, InputInv, AheadInv, Ahead, Touched, Prompt,
           Requested, In
    <2> QED BY <2>1
<1> QED BY <1>1, <1>2, <1>3, <1>4, <1>5, <1>6, <1>7, <1>8, <1>9 DEF Next

LEMMA HostInvariant == Spec => []HostInv
BY HostInit, HostStep, PTL DEF Spec

\* The host's records have their types, and every input is in the order of the
\* queue at most once, also a prompt that is submitted again after a restart.
THEOREM HostTyping == Spec => []TypeOK
BY HostInvariant, PTL DEF HostInv

\* Two workers never have the session open: the lock stays with the task whose
\* worker may run, through cancels, failed stops, crashes and restarts.
THEOREM SessionLockHolds == Spec => []LockFollowsWorker
<1>1. HostInv => LockFollowsWorker
    <2> SUFFICES ASSUME HostInv PROVE LockFollowsWorker
        OBVIOUS
    <2>1. \A t \in Tasks : Alive(t) => lease = t
        BY DEF HostInv, LockInv, RunsWithLock, LeftBehind
    <2>2. ASSUME up, lease # 0
          PROVE  task[lease].pc # "none" /\ (task[lease].pc = "done" => task[lease].worker)
        <3>1. PICK t \in Tasks : lease = t
            BY <2>2 DEF HostInv, TypeOK
        <3>2. RunsWithLock(t)
            BY <2>2 DEF HostInv, LockInv
        <3> QED BY <3>1, <3>2 DEF RunsWithLock
    <2> QED BY <2>1, <2>2 DEF LockFollowsWorker
<1> QED BY <1>1, HostInvariant, PTL

\* No input that is offered for delivery has reached a worker before.
THEOREM NothingIsOfferedTwice == Spec => []OfferedIsUntaken
<1>1. HostInv => OfferedIsUntaken
    BY DEF HostInv, SentInv, OfferedIsUntaken, In, Touched
<1> QED BY <1>1, HostInvariant, PTL

\* A host at rest has decided every delivery.
THEOREM RestDecides == Spec => []DeliveriesDecided
<1>1. HostInv => DeliveriesDecided
    <2> SUFFICES ASSUME HostInv, Rests, NEW i \in In({"dispatching", "accepted"}) PROVE FALSE
        BY DEF DeliveriesDecided
    <2>1. up /\ ~failed /\ jobs = <<>> /\ i \in Inputs
        BY DEF Rests, Serial, In
    <2>2. PICK t \in Tasks : Ahead(t)
        <3>1. item[i].task \in 0..MaxTasks
            BY <2>1 DEF HostInv, TypeOK, Items
        <3> HIDE DEF Ahead
        <3> QED BY <2>1, <3>1 DEF HostInv, AheadInv
    <2> QED BY <2>1, <2>2 DEF Rests, Ahead
<1> QED BY <1>1, HostInvariant, PTL
=============================================================================
