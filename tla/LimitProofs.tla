---------------------------- MODULE LimitProofs ----------------------------
(***************************************************************************)
(* Proofs about the two components that give something out.  BatchSwarm,   *)
(* for every number of items, attempts, crashes and every ramp: the slots  *)
(* of the pool stay within it, a batch is reported as completed only when  *)
(* its policy is met, and no attempt that may have had an effect is made   *)
(* again.  BudgetLedger, for every number of callers, reservations,        *)
(* resources and retries: nothing is spent beyond its ceiling.  The two    *)
(* share no state; a step of one is proved without the other.              *)
(***************************************************************************)
EXTENDS BatchSwarm, BudgetLedger, FiniteSums, SequenceTheorems

-----------------------------------------------------------------------------
(* BatchSwarm: places in the order of the input.                           *)

\* A greater number of a set comes later.
LEMMA RankGrows ==
    ASSUME NEW S, IsFiniteSet(S), S \subseteq Int, NEW i \in S, NEW j \in S, i < j
    PROVE  Rank(S, i) < Rank(S, j)
<1> DEFINE A == {x \in S : x <= i}
           B == {x \in S : x <= j}
<1>1. A \subseteq B /\ j \in B /\ j \notin A /\ B \subseteq S
    <2>1. i \in Int /\ j \in Int /\ \A x \in S : x \in Int
        OBVIOUS
    <2>2. \A x \in S : x <= i => x <= j
        BY <2>1
    <2>3. ~(j <= i) /\ j <= j
        BY <2>1
    <2> QED BY <2>2, <2>3
<1> HIDE DEF A, B
<1>2. IsFiniteSet(B)
    BY <1>1, FS_Subset
<1>3. IsFiniteSet(A) /\ Cardinality(A) <= Cardinality(B) /\ Cardinality(A) # Cardinality(B)
    BY <1>1, <1>2, FS_Subset
<1>4. Cardinality(A) \in Nat /\ Cardinality(B) \in Nat
    BY <1>2, <1>3, FS_CardinalityType
<1> QED BY <1>3, <1>4 DEF Rank, A, B

\* The places of a set are counted from one.
LEMMA RankType ==
    ASSUME NEW S, IsFiniteSet(S), S \subseteq Int, NEW i \in S
    PROVE  Rank(S, i) \in 1..Cardinality(S)
<1> DEFINE A == {x \in S : x <= i}
<1>1. A \subseteq S /\ i \in A
    OBVIOUS
<1> HIDE DEF A
<1>2. IsFiniteSet(A) /\ Cardinality(A) <= Cardinality(S)
    BY <1>1, FS_Subset
<1>3. Cardinality(A) \in Nat /\ Cardinality(S) \in Nat /\ Cardinality(A) # 0
    BY <1>1, <1>2, FS_CardinalityType, FS_EmptySet
<1> QED BY <1>2, <1>3 DEF Rank, A

\* As many numbers are taken as there is room for.
LEMMA RankCounts ==
    ASSUME NEW S, IsFiniteSet(S), S \subseteq Int, NEW room \in Nat
    PROVE  /\ IsFiniteSet({i \in S : Rank(S, i) <= room})
           /\ Cardinality({i \in S : Rank(S, i) <= room}) <= room
<1> DEFINE T == {i \in S : Rank(S, i) <= room}
           f == [i \in T |-> Rank(S, i)]
<1>1. T \subseteq S
    OBVIOUS
<1>2. \A i \in T : Rank(S, i) \in 1..room
    <2>1. ASSUME NEW i \in T PROVE Rank(S, i) \in 1..room
        <3>1. Rank(S, i) \in 1..Cardinality(S) /\ Rank(S, i) <= room
            BY <1>1, RankType
        <3>2. Cardinality(S) \in Nat
            BY FS_CardinalityType
        <3> QED BY <3>1, <3>2
    <2> QED BY <2>1
<1>3. \A i, j \in T : i < j => Rank(S, i) < Rank(S, j)
    BY <1>1, RankGrows
<1> HIDE DEF T
<1>4. f \in Injection(T, 1..room)
    <2>1. f \in [T -> 1..room]
        BY <1>2
    <2>2. ASSUME NEW i \in T, NEW j \in T, f[i] = f[j] PROVE i = j
        <3>1. i \in Int /\ j \in Int
            BY <1>1
        <3>2. ~(i < j) /\ ~(j < i)
            BY <1>2, <1>3, <2>2
        <3> QED BY <3>1, <3>2
    <2> QED BY <2>1, <2>2 DEF Injection, IsInjective
<1>5. IsFiniteSet(1..room) /\ Cardinality(1..room) = room
    BY FS_Interval
<1>6. IsFiniteSet(T) /\ Cardinality(T) <= room
    BY <1>4, <1>5, FS_Injection
<1> QED BY <1>6 DEF T

\* Every place of a finite set is that of one number.
LEMMA NthIs ==
    ASSUME NEW S, IsFiniteSet(S), S \subseteq Int, NEW k \in 1..Cardinality(S)
    PROVE  Nth(S, k) \in S /\ Rank(S, Nth(S, k)) = k
<1> DEFINE n == Cardinality(S)
           f == [i \in S |-> Rank(S, i)]
<1>1. n \in Nat /\ IsFiniteSet(1..n) /\ Cardinality(1..n) = n
    BY FS_CardinalityType, FS_Interval
<1>2. f \in Injection(S, 1..n)
    <2>1. f \in [S -> 1..n]
        BY RankType
    <2>2. ASSUME NEW i \in S, NEW j \in S, f[i] = f[j] PROVE i = j
        <3>1. Rank(S, i) \in 1..n /\ Rank(S, j) \in 1..n
            BY RankType
        <3>2. i \in Int /\ j \in Int /\ Rank(S, i) \in Int /\ Rank(S, j) \in Int
            BY <1>1, <3>1
        <3>3. i < j => Rank(S, i) < Rank(S, j)
            BY RankGrows
        <3>4. j < i => Rank(S, j) < Rank(S, i)
            BY RankGrows
        <3>5. ~(i < j) /\ ~(j < i)
            BY <2>2, <3>2, <3>3, <3>4
        <3> QED BY <3>2, <3>5
    <2> QED BY <2>1, <2>2 DEF Injection, IsInjective
<1>3. f \in Surjection(S, 1..n)
    BY <1>1, <1>2, FS_Injection
<1>4. \E i \in S : Rank(S, i) = k
    BY <1>3 DEF Surjection
<1> QED BY <1>4 DEF Nth

-----------------------------------------------------------------------------
(* The closure.                                                            *)

\* The bounds of a batch.
LEMMA Bounds ==
    /\ N \in Nat /\ N >= 1 /\ MaxAttempts \in Nat /\ MaxAttempts >= 1
    /\ Initial \in Nat /\ Initial >= 1 /\ Ceiling \in Nat /\ Initial <= Ceiling /\ Ceiling >= 1
    /\ MaxCrashes \in Nat /\ MaxFaults \in Nat
BY BatchAssumption

\* No append that the slot of item i awaits is pending.
Free(c, i) == \A k \in DOMAIN c.queue : Owner(c.queue[k]) # i

\* d differs from c in nothing that the pool reads.
SameSeats(c, d) ==
    d \in Closure /\ d.pc = c.pc /\ d.active = c.active /\ d.next = c.next /\ d.queue = c.queue

Inside == Steps \ {"idle", "close", "gone"}

\* Slots and counters other than those of the pool may change.
LEMMA SeatsKeep ==
    ASSUME NEW c, Pool(c), NEW d, SameSeats(c, d)
    PROVE  Pool(d) /\ \A i \in Items : Free(c, i) => Free(d, i)
BY DEF Pool, SameSeats, Seated, Awaited, Free

\* An item is a number, and the closure has a slot for each.
LEMMA SlotFacts ==
    ASSUME NEW c \in Closure, NEW i \in Items
    PROVE  /\ i \in Nat /\ i # 0 /\ i <= N /\ i \in 0..N
           /\ c.slot[i] \in Slot /\ c.pc[i] \in Steps
           /\ c.slot[i].attempts \in Nat /\ c.slot[i].attempts <= MaxAttempts
BY Bounds DEF Items, Closure, Slot

\* The slots that are inside runSlot are finitely many.
LEMMA SeatedFinite ==
    ASSUME NEW c
    PROVE  IsFiniteSet(Items) /\ IsFiniteSet(Seated(c)) /\ Cardinality(Seated(c)) \in Nat
                              /\ Cardinality(Seated(c)) <= N
<1>1. IsFiniteSet(Items) /\ Cardinality(Items) = N
    BY Bounds, FS_Interval DEF Items
<1>2. Seated(c) \subseteq Items
    BY DEF Seated
<1>3. IsFiniteSet(Seated(c)) /\ Cardinality(Seated(c)) <= N
    BY <1>1, <1>2, FS_Subset
<1> QED BY <1>1, <1>3, FS_CardinalityType

\* A slot that awaits no append at its step has none pending.
LEMMA NonePending ==
    ASSUME NEW c, Pool(c), NEW i \in Items, c.pc[i] \in {"idle", "exec", "sleep", "gone"}
    PROVE  Free(c, i)
<1> SUFFICES ASSUME NEW k \in DOMAIN c.queue, Owner(c.queue[k]) = i PROVE FALSE
    BY DEF Free
<1>1. Awaited(c, c.queue[k]) /\ c.queue[k] \in Events
    BY DEF Pool, Closure
<1>2. i # 0
    BY <1>1, SlotFacts DEF Pool
<1>3. c.pc[i] = Waits[c.queue[k].kind] /\ c.queue[k].kind \notin {"BatchStarted", "BatchSettled"}
    BY <1>1, <1>2 DEF Awaited, Owner
<1>4. Waits[c.queue[k].kind] \notin {"idle", "exec", "sleep", "gone"}
    BY <1>1, <1>3 DEF Waits, Events, EventKinds
<1> QED BY <1>3, <1>4

\* An append is emitted that its slot awaits.
LEMMA EmitKeeps ==
    ASSUME NEW c, Pool(c), NEW e \in Events,
           e.kind \notin {"BatchStarted", "BatchSettled"} => e.item # 0,
           e.kind = "Started" => e.attempt # 0,
           Owner(e) # 0 => c.pc[Owner(e)] = Waits[e.kind] /\ Free(c, Owner(e))
    PROVE  Pool(Emit(c, e))
<1> PICK q \in Seq(Events) : q = c.queue
    BY DEF Pool, Closure
<1> DEFINE d == Emit(c, e)
<1>1. /\ d \in Closure /\ d.pc = c.pc /\ d.active = c.active /\ d.next = c.next
      /\ d.queue = Append(q, e)
    <2>1. Append(q, e) \in Seq(Events) /\ c \in Closure
        BY DEF Pool
    <2> PICK w \in Seq(Events) : w = Append(q, e)
        BY <2>1
    <2>2. d = [c EXCEPT !.queue = w]
        BY DEF Emit
    <2>3. d \in Closure
        BY <2>1, <2>2 DEF Closure
    <2>4. d.pc = c.pc /\ d.active = c.active /\ d.next = c.next /\ d.queue = w
        BY <2>1, <2>2 DEF Closure
    <2> QED BY <2>3, <2>4
<1>2. /\ Len(q) \in Nat /\ DOMAIN q = 1..Len(q) /\ DOMAIN d.queue = 1..(Len(q) + 1)
      /\ d.queue[Len(q) + 1] = e /\ \A k \in DOMAIN q : d.queue[k] = q[k]
    BY <1>1
<1> HIDE DEF d
<1>3. DOMAIN d.queue = DOMAIN q \union {Len(q) + 1} /\ Len(q) + 1 \notin DOMAIN q
    BY <1>2
<1>4. \A k \in DOMAIN d.queue : Awaited(d, d.queue[k])
    <2>1. \A k \in DOMAIN q : Awaited(d, q[k])
        BY <1>1 DEF Pool, Awaited
    <2>2. Awaited(d, e)
        BY <1>1 DEF Awaited
    <2> QED BY <1>2, <1>3, <2>1, <2>2
<1>5. \A k, l \in DOMAIN d.queue :
          k # l /\ Owner(d.queue[k]) # 0 => Owner(d.queue[k]) # Owner(d.queue[l])
    <2>1. \A k, l \in DOMAIN q : k # l /\ Owner(q[k]) # 0 => Owner(q[k]) # Owner(q[l])
        BY DEF Pool
    <2>2. \A k \in DOMAIN q : Owner(e) # 0 => Owner(q[k]) # Owner(e)
        BY DEF Free
    <2> QED BY <1>2, <1>3, <2>1, <2>2
<1>6. d.active = Cardinality(Seated(d)) /\ d.active <= Ceiling
    BY <1>1 DEF Pool, Seated
<1>7. \A i \in Items : i >= d.next => d.pc[i] = "idle"
    BY <1>1 DEF Pool
<1> QED BY <1>1, <1>4, <1>5, <1>6, <1>7 DEF Pool, d

\* A slot steps on inside runSlot, or has left it already.
LEMMA StepKeeps ==
    ASSUME NEW c, Pool(c), NEW i \in Items, Free(c, i), c.pc[i] # "idle",
           NEW s \in Steps \ {"idle"}, (s \in Inside) <=> (c.pc[i] \in Inside),
           NEW d \in Closure, d.pc = [c.pc EXCEPT ![i] = s],
           d.active = c.active, d.next = c.next, d.queue = c.queue
    PROVE  /\ Pool(d) /\ d.pc[i] = s /\ Free(d, i)
<1>1. c.pc \in [Items -> Steps] /\ d.pc[i] = s /\ \A j \in Items \ {i} : d.pc[j] = c.pc[j]
    BY DEF Pool, Closure
<1>2. Seated(d) = Seated(c)
    <2>1. \A j \in Items : d.pc[j] \notin {"idle", "close", "gone"}
                              <=> c.pc[j] \notin {"idle", "close", "gone"}
        BY <1>1 DEF Inside
    <2> QED BY <2>1 DEF Seated
<1>3. \A k \in DOMAIN d.queue : Awaited(d, d.queue[k])
    <2> SUFFICES ASSUME NEW k \in DOMAIN c.queue PROVE Awaited(d, c.queue[k])
        OBVIOUS
    <2>1. Awaited(c, c.queue[k]) /\ Owner(c.queue[k]) # i /\ c.queue[k] \in Events
        BY DEF Pool, Closure, Free
    <2>2. Owner(c.queue[k]) # 0 => Owner(c.queue[k]) \in Items
        BY <2>1, Bounds DEF Events, Owner, Items
    <2>3. Owner(c.queue[k]) # 0 => d.pc[Owner(c.queue[k])] = c.pc[Owner(c.queue[k])]
        BY <1>1, <2>1, <2>2
    <2> QED BY <2>1, <2>3 DEF Awaited
<1>4. \A j \in Items : j >= d.next => d.pc[j] = "idle"
    BY <1>1 DEF Pool
<1>5. Free(d, i)
    BY DEF Free
<1>6. d.active = Cardinality(Seated(d)) /\ d.active <= Ceiling
    BY <1>2 DEF Pool
<1> QED BY <1>1, <1>3, <1>4, <1>5, <1>6 DEF Pool

\* A slot leaves runSlot, and is no longer counted.
Left(c, d, i, s) ==
    /\ d \in Closure /\ d.pc = [c.pc EXCEPT ![i] = s] /\ d.active = c.active - 1
    /\ d.next = c.next /\ d.queue = c.queue

\* A slot that has left runSlot has none of the pool's appends pending.
LEMMA LeaveKeeps ==
    ASSUME NEW c, Pool(c), NEW i \in Items, Free(c, i), c.pc[i] \in Inside,
           NEW s \in {"close", "gone"}, NEW d, Left(c, d, i, s)
    PROVE  /\ Pool(d) /\ d.pc[i] = s /\ Free(d, i)
<1>0. /\ d \in Closure /\ d.pc = [c.pc EXCEPT ![i] = s] /\ d.active = c.active - 1
      /\ d.next = c.next /\ d.queue = c.queue
    BY DEF Left
<1>1. c.pc \in [Items -> Steps] /\ d.pc[i] = s /\ \A j \in Items \ {i} : d.pc[j] = c.pc[j]
    BY <1>0 DEF Pool, Closure
<1>2. Cardinality(Seated(d)) = Cardinality(Seated(c)) - 1
    <2>1. i \in Seated(c)
        BY DEF Seated, Inside
    <2>2. Seated(d) = Seated(c) \ {i}
        <3>1. \A j \in Items \ {i} : d.pc[j] \notin {"idle", "close", "gone"}
                                        <=> c.pc[j] \notin {"idle", "close", "gone"}
            BY <1>1
        <3>2. d.pc[i] \in {"idle", "close", "gone"}
            BY <1>1
        <3> QED BY <3>1, <3>2 DEF Seated
    <2>3. IsFiniteSet(Seated(c))
        BY SeatedFinite
    <2> QED BY <2>1, <2>2, <2>3, FS_RemoveElement
<1>3. \A k \in DOMAIN d.queue : Awaited(d, d.queue[k])
    <2> SUFFICES ASSUME NEW k \in DOMAIN c.queue PROVE Awaited(d, c.queue[k])
        BY <1>0
    <2>1. Awaited(c, c.queue[k]) /\ Owner(c.queue[k]) # i /\ c.queue[k] \in Events
        BY DEF Pool, Closure, Free
    <2>2. Owner(c.queue[k]) # 0 => Owner(c.queue[k]) \in Items
        BY <2>1, Bounds DEF Events, Owner, Items
    <2>3. Owner(c.queue[k]) # 0 => d.pc[Owner(c.queue[k])] = c.pc[Owner(c.queue[k])]
        BY <1>1, <2>1, <2>2
    <2> QED BY <2>1, <2>3 DEF Awaited
<1>4. \A j \in Items : j >= d.next => d.pc[j] = "idle"
    BY <1>0, <1>1 DEF Pool, Inside
<1>5. Free(d, i)
    BY <1>0 DEF Free
<1>6. d.active = Cardinality(Seated(d)) /\ d.active <= Ceiling
    <2>1. c.active \in Int /\ c.active = Cardinality(Seated(c)) /\ c.active <= Ceiling
        BY DEF Pool, Closure
    <2> QED BY <1>0, <1>2, <2>1, Bounds
<1> QED BY <1>0, <1>1, <1>3, <1>4, <1>5, <1>6 DEF Pool

\* The fields of an event.
LEMMA EventIs ==
    ASSUME NEW kind \in EventKinds, NEW i \in 0..N, NEW s \in Slot, NEW by \in 0..N
    PROVE  /\ Event(kind, i, s, by) \in Events
           /\ Event(kind, i, s, by).kind = kind /\ Event(kind, i, s, by).item = i
           /\ Event(kind, i, s, by).attempt = s.attempts /\ Event(kind, i, s, by).by = by
BY DEF Event, Events, Slot

\* Slots and counters other than those of the pool may change.
LEMMA FieldsKeep ==
    ASSUME NEW c, Pool(c),
           NEW phase \in Phases, NEW slot \in [Items -> Slot], NEW completed \in Nat,
           NEW capacity \in 1..Ceiling, NEW closed \in BOOLEAN,
           NEW abort \in {"no", "cancel", "deadline", "fatal"}, NEW fatal \in BOOLEAN,
           NEW ramp \in BOOLEAN, NEW executed \in Nat,
           NEW d, d = [c EXCEPT !.phase = phase, !.slot = slot, !.completed = completed,
                  !.capacity = capacity, !.closed = closed, !.abort = abort,
                  !.fatal = fatal, !.ramp = ramp, !.executed = executed]
    PROVE  SameSeats(c, d)
BY DEF Pool, Closure, SameSeats

\* The pool settles, or the failure is thrown.
LEMMA MaybeCompleteKeeps ==
    ASSUME NEW c, Pool(c)
    PROVE  Pool(maybeComplete(c))
<1>1. ASSUME NEW s \in Phases PROVE Pool([c EXCEPT !.phase = s])
    <2>1. SameSeats(c, [c EXCEPT !.phase = s])
        BY DEF Pool, Closure, SameSeats
    <2> QED BY <2>1, SeatsKeep
<1>2. Pool(Emit([c EXCEPT !.phase = "settling"], Event("BatchSettled", 0, newItemSlot, 0)))
    <2> PICK d : d = [c EXCEPT !.phase = "settling"]
        OBVIOUS
    <2> PICK e : e = Event("BatchSettled", 0, newItemSlot, 0)
        OBVIOUS
    <2>1. Pool(d)
        BY <1>1 DEF Phases
    <2>2. e \in Events /\ e.kind = "BatchSettled" /\ Owner(e) = 0
        <3>1. newItemSlot \in Slot /\ "BatchSettled" \in EventKinds /\ 0 \in 0..N
            BY Bounds DEF newItemSlot, Slot, Statuses, EventKinds
        <3> PICK s \in Slot : s = newItemSlot
            BY <3>1
        <3>2. e \in Events /\ e.kind = "BatchSettled"
            BY <3>1, EventIs
        <3> QED BY <3>2 DEF Owner
    <2>3. Pool(Emit(d, e))
        BY <2>1, <2>2, EmitKeeps
    <2> QED BY <2>3
<1>3. Pool([c EXCEPT !.phase = "threw"])
    BY <1>1 DEF Phases
<1> QED BY <1>2, <1>3 DEF maybeComplete

\* Of some items one comes first.
LEMMA FirstItem ==
    ASSUME NEW S, S \subseteq Items, S # {}
    PROVE  Min(S) \in S /\ \A j \in S : Min(S) <= j
<1> DEFINE T == {N - j : j \in S}
<1>1. IsFiniteSet(S)
    BY SeatedFinite, FS_Subset
<1>2. \A j \in S : j \in Nat /\ j <= N
    BY Bounds DEF Items
<1>3. T \subseteq Nat /\ T # {}
    BY <1>2, Bounds
<1>4. IsFiniteSet(T)
    <2> DEFINE f == [j \in S |-> N - j]
    <2>1. f \in Surjection(S, T)
        BY DEF Surjection
    <2> QED BY <1>1, <2>1, FS_Surjection
<1> HIDE DEF T
<1>5. PICK t \in T : \A u \in T : t >= u
    BY <1>3, <1>4, MaxOfNat
<1>6. PICK x \in S : t = N - x
    BY DEF T
<1>7. \A j \in S : x <= j
    <2> SUFFICES ASSUME NEW j \in S PROVE x <= j
        OBVIOUS
    <2>1. N - j \in T
        BY DEF T
    <2>2. N - x >= N - j
        BY <1>5, <1>6, <2>1
    <2> QED BY <1>2, <2>2, Bounds
<1> QED BY <1>7 DEF Min

\* The waiting slots are finitely many.
LEMMA WaitingFinite ==
    ASSUME NEW c
    PROVE  Cardinality(Waiting(c)) \in Nat
<1>1. IsFiniteSet(Items)
    BY SeatedFinite
<1>2. Waiting(c) \subseteq Items
    BY DEF Waiting
<1> QED BY <1>1, <1>2, FS_Subset, FS_CardinalityType

\* The waiting slots are cancelled without an event.
LEMMA MarkKeeps ==
    ASSUME NEW c, Pool(c)
    PROVE  Pool(markQueuedWithoutEvents(c))
<1> DEFINE slot == [i \in Items |-> IF i \in Waiting(c)
                            THEN [c.slot[i] EXCEPT !.status = "cancelled", !.auth = FALSE]
                            ELSE c.slot[i]]
<1>1. slot \in [Items -> Slot]
    <2> SUFFICES ASSUME NEW i \in Items
                 PROVE  /\ [c.slot[i] EXCEPT !.status = "cancelled", !.auth = FALSE] \in Slot
                        /\ c.slot[i] \in Slot
        OBVIOUS
    <2> PICK s \in Slot : s = c.slot[i]
        BY DEF Pool, Closure
    <2> QED BY DEF Slot, Statuses, ItemTerminal
<1>2. c.completed + Cardinality(Waiting(c)) \in Nat
    BY WaitingFinite DEF Pool, Closure
<1> PICK w \in [Items -> Slot] : w = slot
    BY <1>1
<1> PICK n \in Nat : n = c.completed + Cardinality(Waiting(c))
    BY <1>2
<1>3. markQueuedWithoutEvents(c) = [c EXCEPT !.slot = w, !.completed = n]
    BY DEF markQueuedWithoutEvents
<1> HIDE DEF slot
<1> PICK d : d = [c EXCEPT !.slot = w, !.completed = n]
    OBVIOUS
<1>4. SameSeats(c, d)
    BY DEF Pool, Closure, SameSeats
<1> QED BY <1>3, <1>4, SeatsKeep

\* The first failure closes the batch.
LEMMA FailRunKeeps ==
    ASSUME NEW c, Pool(c)
    PROVE  Pool(failRun(c))
<1> PICK abort \in {"no", "cancel", "deadline", "fatal"} :
            abort = IF Aborted(c) THEN c.abort ELSE "fatal"
    BY DEF Pool, Closure
<1> PICK d : d = [c EXCEPT !.fatal = TRUE, !.closed = TRUE, !.abort = abort]
    OBVIOUS
<1>1. SameSeats(c, d)
    BY DEF Pool, Closure, SameSeats
<1>2. Pool(d)
    BY <1>1, SeatsKeep
<1> PICK f : f = IF c.fatal THEN c ELSE markQueuedWithoutEvents(d)
    OBVIOUS
<1>3. Pool(f)
    BY <1>2, MarkKeeps
<1>4. failRun(c) = IF f.active = 0 THEN maybeComplete(f) ELSE f
    BY DEF failRun
<1> QED BY <1>3, <1>4, MaybeCompleteKeeps

\* The one that emits closed events: the pump, or a slot that has left.
Closer(c, by) == by \in 0..N /\ (by # 0 => c.pc[by] = "close" /\ Free(c, by))

\* The next waiting slot is closed, if there is one.
LEMMA CloseNextKeeps ==
    ASSUME NEW c, Pool(c), NEW after, NEW status \in Statuses, NEW by, Closer(c, by)
    PROVE  Pool(CloseNext(c, after, status, by))
<1> DEFINE rest == {i \in Waiting(c) : i > after}
           i == Min(rest)
<1> SUFFICES ASSUME rest # {} PROVE Pool(CloseNext(c, after, status, by))
    BY DEF CloseNext
<1>1. i \in Items
    <2>1. rest \subseteq Items /\ Items \subseteq Nat
        BY Bounds DEF Waiting, Items
    <2> HIDE DEF rest
    <2>2. Min(rest) \in rest
        BY <2>1, FirstItem
    <2> QED BY <2>1, <2>2
<1>2. CloseNext(c, after, status, by) =
        LET d == [c EXCEPT !.slot[i].status = status, !.completed = @ + 1]
        IN  Emit(d, [Event("Closed", i, d.slot[i], by) EXCEPT !.auth = TRUE])
    BY DEF CloseNext
<1> HIDE DEF i, rest
<1> PICK s \in Slot : s = [c.slot[i] EXCEPT !.status = status]
    <2> PICK t \in Slot : t = c.slot[i]
        BY <1>1 DEF Pool, Closure
    <2> QED BY DEF Slot
<1> PICK w \in [Items -> Slot] : w = [c.slot EXCEPT ![i] = s]
    BY <1>1 DEF Pool, Closure
<1> PICK n \in Nat : n = c.completed + 1
    BY DEF Pool, Closure
<1> PICK d : d = [c EXCEPT !.slot = w, !.completed = n]
    OBVIOUS
<1>3. d = [c EXCEPT !.slot[i].status = status, !.completed = @ + 1]
    BY <1>1 DEF Pool, Closure
<1>4. SameSeats(c, d)
    BY DEF Pool, Closure, SameSeats
<1>5. Pool(d) /\ \A j \in Items : Free(c, j) => Free(d, j)
    BY <1>4, SeatsKeep
<1>6. d.slot[i] = s
    BY <1>1 DEF Pool, Closure
<1> PICK e : e = [Event("Closed", i, s, by) EXCEPT !.auth = TRUE]
    OBVIOUS
<1>7. e \in Events /\ e.kind = "Closed" /\ e.item = i /\ e.by = by
    <2>1. "Closed" \in EventKinds /\ i \in 0..N /\ by \in 0..N
        BY <1>1, Bounds DEF EventKinds, Items, Closer
    <2> PICK f : f = Event("Closed", i, s, by)
        OBVIOUS
    <2>2. f \in Events /\ f.kind = "Closed" /\ f.item = i /\ f.by = by
        BY <2>1, EventIs
    <2>3. e = [f EXCEPT !.auth = TRUE]
        OBVIOUS
    <2> QED BY <2>2, <2>3 DEF Events
<1>8. i # 0
    BY <1>1, Bounds DEF Items
<1>9. Owner(e) # 0 => d.pc[Owner(e)] = Waits[e.kind] /\ Free(d, Owner(e))
    <2>1. Owner(e) = by
        BY <1>7 DEF Owner
    <2>2. by # 0 => by \in Items
        BY Bounds DEF Closer, Items
    <2> QED BY <1>4, <1>5, <1>7, <2>1, <2>2 DEF Closer, SameSeats, Waits
<1>10. Pool(Emit(d, e))
    BY <1>5, <1>7, <1>8, <1>9, EmitKeeps
<1>11. CloseNext(c, after, status, by) = Emit(d, e)
    BY <1>2, <1>3, <1>6
<1> QED BY <1>10, <1>11

\* The ramp timer is set.
LEMMA RampKeeps ==
    ASSUME NEW c, Pool(c)
    PROVE  SameSeats(c, scheduleRamp(c)) /\ Pool(scheduleRamp(c))
<1> PICK r \in BOOLEAN : r = (c.ramp \/ (~c.closed /\ c.capacity < Ceiling /\ c.next <= N))
    OBVIOUS
<1> PICK d : d = [c EXCEPT !.ramp = r]
    OBVIOUS
<1>1. d = scheduleRamp(c)
    BY DEF scheduleRamp, Pool, Closure
<1>2. SameSeats(c, d)
    BY DEF Pool, Closure, SameSeats
<1> QED BY <1>1, <1>2, SeatsKeep

\* The queued events of the slots that are taken, in order.
LEMMA AdmissionIs ==
    ASSUME NEW c \in Closure, NEW i \in Items
    PROVE  /\ Admission(c, i) \in Events
           /\ Admission(c, i).kind = "Queued" /\ Admission(c, i).item = i
           /\ Admission(c, i).attempt = c.slot[i].attempts
<1>1. "Queued" \in EventKinds /\ i \in 0..N /\ c.slot[i] \in Slot
    BY SlotFacts DEF EventKinds
<1> PICK s \in Slot : s = c.slot[i]
    BY <1>1
<1>2. Event("Queued", i, s, i) \in Events /\ Event("Queued", i, s, i).kind = "Queued"
         /\ Event("Queued", i, s, i).item = i /\ Event("Queued", i, s, i).attempt = s.attempts
    BY <1>1, EventIs
<1> QED BY <1>2 DEF Admission

\* Only a slot or the pump awaits an append.
LEMMA OwnerIs ==
    ASSUME NEW e \in Events, Owner(e) # 0
    PROVE  Owner(e) \in Items
BY Bounds DEF Events, Owner, Items

\* The queued events of the slots that are taken are one for each, in order.
LEMMA AdmissionsAre ==
    ASSUME NEW c \in Closure, NEW S, S \subseteq Items, NEW n \in Nat, n = Cardinality(S),
           NEW more, more = [k \in 1..n |-> Admission(c, Nth(S, k))]
    PROVE  /\ more \in Seq(Events) /\ Len(more) = n
           /\ \A k \in 1..n : more[k].kind = "Queued" /\ more[k].item \in S
           /\ \A k \in 1..n : more[k].attempt = c.slot[more[k].item].attempts
           /\ \A k, l \in 1..n : k # l => more[k].item # more[l].item
<1>1. IsFiniteSet(S) /\ S \subseteq Int
    <2>1. IsFiniteSet(Items) /\ Items \subseteq Int
        BY SeatedFinite, Bounds DEF Items
    <2>2. IsFiniteSet(S)
        BY <2>1, FS_Subset
    <2> QED BY <2>1, <2>2
<1>2. \A k \in 1..n : Nth(S, k) \in S /\ Rank(S, Nth(S, k)) = k
    BY <1>1, NthIs
<1>3. \A k \in 1..n : Admission(c, Nth(S, k)) \in Events /\ Admission(c, Nth(S, k)).kind = "Queued"
                         /\ Admission(c, Nth(S, k)).item = Nth(S, k)
                         /\ Admission(c, Nth(S, k)).attempt = c.slot[Nth(S, k)].attempts
    <2> SUFFICES ASSUME NEW k \in 1..n
                 PROVE  /\ Admission(c, Nth(S, k)) \in Events
                        /\ Admission(c, Nth(S, k)).kind = "Queued"
                        /\ Admission(c, Nth(S, k)).item = Nth(S, k)
                        /\ Admission(c, Nth(S, k)).attempt = c.slot[Nth(S, k)].attempts
        OBVIOUS
    <2>1. PICK i \in Items : i = Nth(S, k)
        BY <1>2
    <2>2. /\ Admission(c, i) \in Events
          /\ Admission(c, i).kind = "Queued" /\ Admission(c, i).item = i
          /\ Admission(c, i).attempt = c.slot[i].attempts
        BY AdmissionIs
    <2> QED BY <2>1, <2>2
<1>4. more \in Seq(Events) /\ Len(more) = n
    BY <1>3
<1>5. \A k \in 1..n : /\ more[k].kind = "Queued" /\ more[k].item = Nth(S, k)
                     /\ more[k].attempt = c.slot[Nth(S, k)].attempts
    BY <1>3
<1>6. \A k, l \in 1..n : k # l => Nth(S, k) # Nth(S, l)
    <2> SUFFICES ASSUME NEW k \in 1..n, NEW l \in 1..n, Nth(S, k) = Nth(S, l) PROVE k = l
        OBVIOUS
    <2>1. Rank(S, Nth(S, k)) = k /\ Rank(S, Nth(S, l)) = l
        BY <1>2
    <2> QED BY <2>1
<1> QED BY <1>2, <1>4, <1>5, <1>6

\* The slots that are taken, and the index at which the loop stops.
InOrder(todo, room, take, stop) ==
    /\ take = {i \in todo : Rank(todo, i) <= room}
    /\ stop = IF Cardinality(todo) < room THEN N + 1 ELSE 1 + Max(take)

Takes(next, room, take, stop) ==
    /\ take \subseteq Items /\ Cardinality(take) \in Nat /\ Cardinality(take) <= room
    /\ \A i \in take : i >= next
    /\ stop \in 1..(N + 1)
    /\ \A i \in Items : i >= stop => i \notin take /\ i >= next
    /\ Cardinality((next..(stop - 1)) \ take) \in Nat

\* The loop of pump takes no more slots than it has room for, and stops behind them.
LEMMA TakesInOrder ==
    ASSUME NEW next \in 1..N, NEW room \in Nat, room > 0, NEW todo, todo \subseteq next..N,
           NEW take, NEW stop, InOrder(todo, room, take, stop)
    PROVE  Takes(next, room, take, stop)
<1>0. /\ take = {i \in todo : Rank(todo, i) <= room}
      /\ stop = IF Cardinality(todo) < room THEN N + 1 ELSE 1 + Max(take)
    BY DEF InOrder
<1>1. /\ todo \subseteq Items /\ todo \subseteq Int /\ take \subseteq todo /\ take \subseteq Items
      /\ (\A i \in todo : i >= next) /\ next \in Nat
    <2>1. \A i \in next..N : i \in Items /\ i \in Int /\ i >= next
        BY Bounds DEF Items
    <2>2. \A i \in todo : i \in next..N
        OBVIOUS
    <2>3. \A i \in take : i \in todo
        BY <1>0
    <2>4. next \in Nat
        BY Bounds
    <2> QED BY <2>1, <2>2, <2>3, <2>4
<1>2. IsFiniteSet(todo) /\ IsFiniteSet(take) /\ IsFiniteSet(Items)
    <2>1. IsFiniteSet(Items)
        BY SeatedFinite
    <2> QED BY <1>1, <2>1, FS_Subset
<1>3. Cardinality(todo) \in Nat /\ Cardinality(take) \in Nat
    BY <1>2, FS_CardinalityType
<1>4. Cardinality(take) <= room
    <2>1. take = {i \in todo : Rank(todo, i) <= room}
        BY <1>0
    <2> QED BY <1>1, <1>2, <2>1, RankCounts
<1>5. ASSUME ~(Cardinality(todo) < room)
      PROVE  Max(take) \in take /\ (\A i \in take : Max(take) >= i) /\ Max(take) \in next..N
    <2>1. 1 \in 1..Cardinality(todo)
        BY <1>3, <1>5
    <2>2. Nth(todo, 1) \in todo /\ Rank(todo, Nth(todo, 1)) = 1
        BY <1>1, <1>2, <2>1, NthIs
    <2>3. 1 <= room
        OBVIOUS
    <2>4. take # {}
        BY <1>0, <2>2, <2>3
    <2>5. take \subseteq Nat
        <3>1. Items \subseteq Nat
            BY Bounds DEF Items
        <3> QED BY <1>1, <3>1
    <2>6. Max(take) \in take /\ \A i \in take : Max(take) >= i
        BY <1>2, <2>4, <2>5, MaxOfNat
    <2> QED BY <1>1, <2>6
<1>6. stop \in 1..(N + 1) /\ \A i \in Items : i >= stop => i \notin take /\ i >= next
    <2>1. CASE Cardinality(todo) < room
        BY <1>0, <2>1, Bounds DEF Items
    <2>2. CASE ~(Cardinality(todo) < room)
        <3>1. PICK x \in next..N : x = Max(take)
            BY <1>5, <2>2
        <3>2. stop = 1 + x /\ \A i \in take : x >= i
            BY <1>0, <1>5, <2>2, <3>1
        <3>3. stop \in 1..(N + 1)
            BY <3>2, Bounds
        <3>4. ASSUME NEW i \in Items, i >= stop PROVE i \notin take /\ i >= next
            <4>1. i \in Nat /\ x \in Nat
                BY Bounds DEF Items
            <4> QED BY <1>1, <3>2, <3>4, <4>1
        <3> QED BY <3>3, <3>4
    <2> QED BY <2>1, <2>2
<1>7. Cardinality((next..(stop - 1)) \ take) \in Nat
    <2>1. PICK s \in 1..(N + 1) : s = stop
        BY <1>6
    <2>2. (next..(s - 1)) \ take \subseteq Items
        BY <1>1, Bounds DEF Items
    <2>3. IsFiniteSet((next..(s - 1)) \ take)
        BY <1>2, <2>2, FS_Subset
    <2> QED BY <2>1, <2>3, FS_CardinalityType
<1> QED BY <1>1, <1>3, <1>4, <1>6, <1>7 DEF Takes

\* Slots that have not been taken are seated, and their queued events emitted.
LEMMA SeatingKeeps ==
    ASSUME NEW c, Pool(c), NEW take, take \subseteq Items, \A i \in take : i >= c.next,
           NEW n \in Nat, n = Cardinality(take), c.active + n <= Ceiling,
           NEW more \in Seq(Events), Len(more) = n,
           \A k \in 1..n : more[k].kind = "Queued" /\ more[k].item \in take,
           \A k, l \in 1..n : k # l => more[k].item # more[l].item,
           NEW d \in Closure, \A i \in take : d.pc[i] = "queued",
           \A i \in Items \ take : d.pc[i] = c.pc[i],
           d.active = c.active + n, d.queue = c.queue \o more,
           \A i \in Items : i >= d.next => i \notin take /\ i >= c.next
    PROVE  Pool(d)
<1>1. \A i \in take : c.pc[i] = "idle" /\ Free(c, i)
    <2>1. \A i \in take : i \in Items /\ c.pc[i] = "idle"
        BY DEF Pool
    <2> QED BY <2>1, NonePending
<1>2. d.active = Cardinality(Seated(d)) /\ d.active <= Ceiling
    <2>1. Seated(d) = Seated(c) \union take /\ Seated(c) \cap take = {}
        <3>1. \A i \in Items : d.pc[i] \notin {"idle", "close", "gone"}
                  <=> i \in take \/ c.pc[i] \notin {"idle", "close", "gone"}
            OBVIOUS
        <3> QED BY <1>1, <3>1 DEF Seated
    <2>2. IsFiniteSet(Seated(c)) /\ Cardinality(Seated(c)) \in Nat /\ IsFiniteSet(take)
        BY SeatedFinite, FS_Subset
    <2>3. Cardinality(Seated(c) \cap take) = 0
        BY <2>1, FS_EmptySet
    <2>4. Cardinality(Seated(c) \union take) = Cardinality(Seated(c)) + Cardinality(take)
                                                  - Cardinality(Seated(c) \cap take)
        BY <2>2, FS_Union
    <2>5. PICK a \in Nat : a = Cardinality(Seated(c))
        BY <2>2
    <2>6. Cardinality(Seated(d)) = a + n
        BY <2>1, <2>3, <2>4, <2>5
    <2>7. c.active = a
        BY <2>5 DEF Pool
    <2> QED BY <2>6, <2>7
<1>3. \A i \in Items : i >= d.next => d.pc[i] = "idle"
    BY DEF Pool
<1>4. PICK q \in Seq(Events) : q = c.queue
    BY DEF Pool, Closure
<1>5. PICK w \in Seq(Events) : w = d.queue
    BY DEF Closure
<1>6. /\ Len(q) \in Nat /\ Len(w) = Len(q) + n
      /\ DOMAIN q = 1..Len(q) /\ DOMAIN w = 1..Len(w)
      /\ \A k \in 1..Len(q) : w[k] = q[k]
      /\ \A k \in 1..n : w[Len(q) + k] = more[k]
    <2>1. w = q \o more
        BY <1>4, <1>5
    <2> QED BY <2>1
<1>7. ASSUME NEW k \in DOMAIN w
      PROVE  \/ k \in DOMAIN q /\ w[k] = q[k]
             \/ \E j \in 1..n : k = Len(q) + j /\ w[k] = more[j]
    <2>1. CASE k <= Len(q)
        BY <1>6, <2>1
    <2>2. CASE ~(k <= Len(q))
        <3>1. PICK j \in 1..n : k = Len(q) + j
            <4>1. k - Len(q) \in 1..n /\ k = Len(q) + (k - Len(q))
                BY <1>6, <2>2
            <4> QED BY <4>1
        <3> QED BY <1>6, <3>1
    <2> QED BY <2>1, <2>2
<1>8. \A j \in 1..n : Owner(more[j]) = more[j].item /\ Owner(more[j]) \in take /\ Owner(more[j]) # 0
    <2>1. \A i \in take : i # 0
        BY Bounds DEF Items
    <2> QED BY <2>1 DEF Owner
<1>9. \A k \in DOMAIN q : Owner(q[k]) \notin take /\ (Owner(q[k]) # 0 => Owner(q[k]) \in Items)
    <2> SUFFICES ASSUME NEW k \in DOMAIN q
                 PROVE  Owner(q[k]) \notin take /\ (Owner(q[k]) # 0 => Owner(q[k]) \in Items)
        OBVIOUS
    <2>1. Owner(q[k]) \notin take
        BY <1>1, <1>4 DEF Free
    <2>2. q[k] \in Events
        OBVIOUS
    <2>3. Owner(q[k]) # 0 => Owner(q[k]) \in Items
        BY <2>2, OwnerIs
    <2> QED BY <2>1, <2>3
<1>10. \A k \in DOMAIN w : Awaited(d, w[k])
    <2>1. ASSUME NEW k \in DOMAIN q PROVE Awaited(d, q[k])
        <3>1. Awaited(c, q[k])
            BY <1>4 DEF Pool
        <3>2. Owner(q[k]) # 0 => d.pc[Owner(q[k])] = c.pc[Owner(q[k])]
            BY <1>9
        <3> QED BY <3>1, <3>2 DEF Awaited
    <2>2. ASSUME NEW j \in 1..n PROVE Awaited(d, more[j])
        <3>1. more[j].kind = "Queued" /\ Owner(more[j]) \in take /\ more[j].item # 0
            BY <1>8
        <3>2. d.pc[Owner(more[j])] = "queued"
            BY <3>1
        <3> QED BY <3>1, <3>2 DEF Awaited, Waits
    <2> QED BY <1>7, <2>1, <2>2
<1>11. \A k, l \in DOMAIN w : k # l /\ Owner(w[k]) # 0 => Owner(w[k]) # Owner(w[l])
    <2> SUFFICES ASSUME NEW k \in DOMAIN w, NEW l \in DOMAIN w, k # l, Owner(w[k]) # 0
                 PROVE  Owner(w[k]) # Owner(w[l])
        OBVIOUS
    <2>1. CASE k \in DOMAIN q /\ w[k] = q[k] /\ l \in DOMAIN q /\ w[l] = q[l]
        BY <1>4, <2>1 DEF Pool
    <2>2. ASSUME NEW j \in 1..n, w[k] = more[j], l \in DOMAIN q, w[l] = q[l]
          PROVE  Owner(w[k]) # Owner(w[l])
        BY <1>8, <1>9, <2>2
    <2>3. ASSUME NEW j \in 1..n, w[l] = more[j], k \in DOMAIN q, w[k] = q[k]
          PROVE  Owner(w[k]) # Owner(w[l])
        BY <1>8, <1>9, <2>3
    <2>4. ASSUME NEW j \in 1..n, l = Len(q) + j, w[l] = more[j],
                 NEW o \in 1..n, k = Len(q) + o, w[k] = more[o]
          PROVE  Owner(w[k]) # Owner(w[l])
        <3>1. o # j
            BY <2>4
        <3>2. more[o].item # more[j].item
            BY <3>1
        <3> QED BY <1>8, <2>4, <3>2
    <2> QED BY <1>7, <2>1, <2>2, <2>3, <2>4
<1>12. Pool(d)
    <2>1. \A k \in DOMAIN d.queue : Awaited(d, d.queue[k])
        BY <1>5, <1>10
    <2>2. \A k, l \in DOMAIN d.queue :
              k # l /\ Owner(d.queue[k]) # 0 => Owner(d.queue[k]) # Owner(d.queue[l])
        BY <1>5, <1>11
    <2> QED BY <1>2, <1>3, <2>1, <2>2 DEF Pool
<1> QED BY <1>12

\* d has seated the slots take, and more are their queued events.
Seats(c, d, take, n, more) ==
    /\ take \subseteq Items /\ n \in Nat /\ n = Cardinality(take) /\ c.active + n <= Ceiling
    /\ \A i \in take : i >= c.next /\ c.slot[i].status # "succeeded"
    /\ more \in Seq(Events) /\ Len(more) = n
    /\ \A k \in 1..n : more[k].kind = "Queued" /\ more[k].item \in take
    /\ \A k \in 1..n : more[k].attempt = c.slot[more[k].item].attempts
    /\ \A k, l \in 1..n : k # l => more[k].item # more[l].item
    /\ d \in Closure
    /\ \A i \in take : d.pc[i] = "queued"
    /\ \A i \in Items \ take : d.pc[i] = c.pc[i]
    /\ d.active = c.active + n /\ d.queue = c.queue \o more
    /\ \A i \in Items : i >= d.next => i \notin take /\ i >= c.next

\* What admission leaves as it is.
SameRest(c, d) ==
    /\ d.slot = c.slot /\ d.phase = c.phase /\ d.closed = c.closed /\ d.abort = c.abort
    /\ d.fatal = c.fatal /\ d.executed = c.executed /\ d.prior = c.prior

\* Slots are taken in order, as many as there is room for, unless the batch is closed.
LEMMA AdmitIs ==
    ASSUME NEW c, Pool(c)
    PROVE  \/ Admit(c) = c
           \/ ~c.closed /\ SameRest(c, Admit(c)) /\ \E take, n, more : Seats(c, Admit(c), take, n, more)
<1>1. /\ c \in Closure /\ c.capacity \in Nat /\ c.capacity <= Ceiling /\ c.active \in Int
      /\ c.next \in 1..(N + 1) /\ c.pc \in [Items -> Steps] /\ c.completed \in Nat
      /\ c.queue \in Seq(Events)
    BY Bounds DEF Pool, Closure
<1>2. PICK room \in Int : room = c.capacity - c.active
    BY <1>1
<1>3. PICK todo : todo = {i \in c.next..N : c.slot[i].status # "succeeded"}
    OBVIOUS
<1>4. PICK take : take = {i \in todo : Rank(todo, i) <= room}
    OBVIOUS
<1>5. PICK stop : stop = IF Cardinality(todo) < room THEN N + 1 ELSE 1 + Max(take)
    OBVIOUS
<1>6. PICK n : n = Cardinality(take)
    OBVIOUS
<1>7. PICK more : more = [k \in 1..n |-> Admission(c, Nth(take, k))]
    OBVIOUS
<1>8. PICK moved : moved = c.completed + Cardinality((c.next..(stop - 1)) \ take)
    OBVIOUS
<1>9. PICK steps : steps = [i \in Items |-> IF i \in take THEN "queued" ELSE c.pc[i]]
    OBVIOUS
<1>10. PICK taken : taken = c.active + n
    OBVIOUS
<1>11. PICK w : w = c.queue \o more
    OBVIOUS
<1>12. PICK d : d = [c EXCEPT !.next = stop, !.completed = moved, !.active = taken,
                              !.pc = steps, !.queue = w]
    OBVIOUS
<1>13. Admit(c) = IF c.closed \/ room <= 0 \/ c.next > N THEN c ELSE d
    BY <1>2, <1>3, <1>4, <1>5, <1>6, <1>7, <1>8, <1>9, <1>10, <1>11, <1>12 DEF Admit, AdmitUpTo
<1>14. ASSUME room > 0, ~(c.next > N)
       PROVE  SameRest(c, d) /\ Seats(c, d, take, n, more)
    <2>1. PICK next \in 1..N : next = c.next
        BY <1>1, <1>14, Bounds
    <2>2. /\ take \subseteq Items /\ Cardinality(take) \in Nat /\ Cardinality(take) <= room
          /\ \A i \in take : i >= c.next
          /\ stop \in 1..(N + 1) /\ \A i \in Items : i >= stop => i \notin take /\ i >= c.next
          /\ Cardinality((c.next..(stop - 1)) \ take) \in Nat
        <3>1. room \in Nat /\ room > 0 /\ todo \subseteq next..N /\ next \in 1..N
            BY <1>3, <1>14, <2>1
        <3>2. InOrder(todo, room, take, stop)
            BY <1>4, <1>5 DEF InOrder
        <3>3. Takes(next, room, take, stop)
            BY ONLY <3>1, <3>2, TakesInOrder
        <3> QED BY <2>1, <3>3 DEF Takes
    <2>3. n \in Nat /\ n <= room /\ moved \in Nat /\ taken \in Int
        BY <1>1, <1>6, <1>8, <1>10, <2>2
    <2>4. c.active + n <= Ceiling
        BY <1>1, <1>2, <2>3, Bounds
    <2>5. /\ more \in Seq(Events) /\ Len(more) = n
          /\ \A k \in 1..n : more[k].kind = "Queued" /\ more[k].item \in take
          /\ \A k \in 1..n : more[k].attempt = c.slot[more[k].item].attempts
          /\ \A k, l \in 1..n : k # l => more[k].item # more[l].item
        <3>1. c \in Closure /\ take \subseteq Items /\ n \in Nat
            BY <1>1, <2>2, <2>3
        <3> QED BY <1>6, <1>7, <3>1, AdmissionsAre
    <2>6. /\ steps \in [Items -> Steps] /\ (\A i \in take : steps[i] = "queued")
          /\ \A i \in Items \ take : steps[i] = c.pc[i]
        BY <1>1, <1>9, <2>2 DEF Steps
    <2>7. w \in Seq(Events)
        BY <1>1, <1>11, <2>5
    <2>8. d \in Closure /\ d.pc = steps /\ d.active = taken /\ d.next = stop /\ d.queue = w
             /\ SameRest(c, d)
        BY <1>1, <1>12, <2>2, <2>3, <2>6, <2>7 DEF Closure, SameRest
    <2>9. /\ \A i \in take : d.pc[i] = "queued"
          /\ \A i \in Items \ take : d.pc[i] = c.pc[i]
          /\ d.active = c.active + n /\ d.queue = c.queue \o more
          /\ \A i \in Items : i >= d.next => i \notin take /\ i >= c.next
        BY <1>10, <1>11, <2>2, <2>6, <2>8
    <2>10. \A i \in take : c.slot[i].status # "succeeded"
        BY <1>3, <1>4
    <2> QED BY <1>6, <2>2, <2>3, <2>4, <2>5, <2>8, <2>9, <2>10 DEF Seats
<1> QED BY <1>13, <1>14

\* The slots that are taken are seated.
LEMMA AdmitKeeps ==
    ASSUME NEW c, Pool(c)
    PROVE  Pool(Admit(c))
<1>1. PICK d : d = Admit(c)
    OBVIOUS
<1>2. ASSUME NEW take, NEW n, NEW more, Seats(c, d, take, n, more) PROVE Pool(d)
    BY <1>2, SeatingKeeps DEF Seats
<1> QED BY <1>1, <1>2, AdmitIs

\* The pump: admission, the closing of what waits, the ramp, completion.
LEMMA PumpKeeps ==
    ASSUME NEW c, Pool(c)
    PROVE  Pool(pump(c))
<1>1. PICK closed \in BOOLEAN : closed = (c.closed \/ Aborted(c))
    OBVIOUS
<1>2. PICK d : d = [c EXCEPT !.closed = closed]
    OBVIOUS
<1>3. d = [c EXCEPT !.closed = @ \/ Aborted(c)]
    BY <1>1, <1>2 DEF Pool, Closure
<1>4. SameSeats(c, d)
    BY <1>2 DEF Pool, Closure, SameSeats
<1>5. PICK a : a = Admit(d)
    OBVIOUS
<1>6. Pool(d) /\ Pool(a)
    BY <1>4, <1>5, SeatsKeep, AdmitKeeps
<1>7. PICK s \in Statuses : s = ClosedAs(a)
    BY DEF ClosedAs, Statuses, ItemTerminal
<1>8. PICK b : b = IF a.closed /\ ~a.fatal THEN CloseNext(a, 0, s, 0) ELSE a
    OBVIOUS
<1>9. Pool(b)
    <2>1. Closer(a, 0)
        BY Bounds DEF Closer
    <2>2. Pool(CloseNext(a, 0, s, 0))
        BY <1>6, <2>1, CloseNextKeeps
    <2> QED BY <1>6, <1>8, <2>2
<1>10. pump(c) = maybeComplete(scheduleRamp(b))
    BY <1>3, <1>5, <1>7, <1>8 DEF pump
<1>11. PICK e : e = scheduleRamp(b)
    OBVIOUS
<1>12. Pool(e)
    BY <1>9, <1>11, RampKeeps
<1> QED BY <1>10, <1>11, <1>12, MaybeCompleteKeeps

\* The queue has been closed: the slot that has closed it is gone.
LEMMA AfterClosingKeeps ==
    ASSUME NEW c, Pool(c), NEW by, Closer(c, by)
    PROVE  Pool(AfterClosing(c, by))
<1>1. CASE by = 0
    BY <1>1, MaybeCompleteKeeps DEF AfterClosing
<1>2. CASE by # 0
    <2>1. by \in Items /\ c.pc[by] = "close" /\ Free(c, by)
        BY <1>2, Bounds DEF Closer, Items
    <2>2. PICK d : d = [c EXCEPT !.pc[by] = "gone"]
        OBVIOUS
    <2>3. PICK p \in [Items -> Steps] : p = [c.pc EXCEPT ![by] = "gone"]
        BY <2>1 DEF Pool, Closure, Steps
    <2>4. d = [c EXCEPT !.pc = p]
        BY <2>2, <2>3 DEF Pool, Closure
    <2>5. /\ d \in Closure /\ d.pc = [c.pc EXCEPT ![by] = "gone"]
          /\ d.active = c.active /\ d.next = c.next /\ d.queue = c.queue
        BY <2>3, <2>4 DEF Pool, Closure
    <2>6. /\ c.pc[by] # "idle" /\ "gone" \in Steps \ {"idle"}
          /\ ("gone" \in Inside <=> c.pc[by] \in Inside)
        BY <2>1 DEF Steps, Inside
    <2>7. Pool(d)
        BY <2>1, <2>5, <2>6, StepKeeps
    <2>8. PICK e : e = pump(d)
        OBVIOUS
    <2>9. Pool(e)
        BY <2>7, <2>8, PumpKeeps
    <2>10. AfterClosing(c, by) = maybeComplete(e)
        BY <1>2, <2>2, <2>8 DEF AfterClosing
    <2> QED BY <2>9, <2>10, MaybeCompleteKeeps
<1> QED BY <1>1, <1>2

\* One more waiting slot is closed, or the closing is over.
LEMMA CloseQueuedKeeps ==
    ASSUME NEW c, Pool(c), NEW after, NEW status \in Statuses, NEW by, Closer(c, by)
    PROVE  Pool(closeQueued(c, after, status, by))
<1>1. PICK d : d = CloseNext(c, after, status, by)
    OBVIOUS
<1>2. Pool(d)
    BY <1>1, CloseNextKeeps
<1>3. Pool(AfterClosing(c, by))
    BY AfterClosingKeeps
<1>4. closeQueued(c, after, status, by) = IF d = c THEN AfterClosing(c, by) ELSE d
    BY <1>1 DEF closeQueued
<1> QED BY <1>2, <1>3, <1>4

\* The first abort closes the queue.
LEMMA AbortKeeps ==
    ASSUME NEW c, Pool(c)
    PROVE  Pool(abortAdmission(c))
<1>1. PICK d : d = [c EXCEPT !.closed = TRUE]
    OBVIOUS
<1>2. SameSeats(c, d)
    BY <1>1 DEF Pool, Closure, SameSeats
<1>3. Pool(d)
    BY <1>2, SeatsKeep
<1>4. "cancelled" \in Statuses /\ Closer(d, 0)
    BY Bounds DEF Statuses, ItemTerminal, Closer
<1>5. PICK s \in Statuses : s = "cancelled"
    BY <1>4
<1>6. abortAdmission(c) = closeQueued(d, 0, s, 0)
    BY <1>1, <1>5 DEF abortAdmission
<1> QED BY <1>3, <1>4, <1>6, CloseQueuedKeeps

-----------------------------------------------------------------------------
(* One slot.                                                               *)

\* The slot of item i is inside runSlot, and awaits no append.
Runs(c, i) == Pool(c) /\ i \in Items /\ c.pc[i] \in Inside /\ Free(c, i)

\* A slot that runs takes a step inside runSlot, and may change itself and
\* the counters.
Stays(c, d, i, s) ==
    /\ d \in Closure /\ d.pc = [c.pc EXCEPT ![i] = s]
    /\ d.active = c.active /\ d.next = c.next /\ d.queue = c.queue

\* A slot that takes a step inside runSlot still runs.
LEMMA RunsOn ==
    ASSUME NEW c, NEW i, Runs(c, i), NEW s \in Inside, NEW d, Stays(c, d, i, s)
    PROVE  Runs(d, i) /\ d.pc[i] = s
<1>1. /\ Pool(c) /\ i \in Items /\ c.pc[i] \in Inside /\ Free(c, i)
      /\ c.pc[i] # "idle" /\ s \in Steps \ {"idle"} /\ (s \in Inside <=> c.pc[i] \in Inside)
    BY DEF Runs, Inside
<1>2. /\ d \in Closure /\ d.pc = [c.pc EXCEPT ![i] = s]
      /\ d.active = c.active /\ d.next = c.next /\ d.queue = c.queue
    BY DEF Stays
<1>3. Pool(d) /\ d.pc[i] = s /\ Free(d, i)
    BY <1>1, <1>2, StepKeeps
<1> QED BY <1>1, <1>3 DEF Runs

\* A slot that runs emits what it then awaits.
LEMMA SlotEmits ==
    ASSUME NEW c, NEW i, Runs(c, i), NEW e \in Events, e.item = i,
           e.kind \in {"Queued", "Started", "Terminal", "Capacity", "Requeued", "Cancelled"},
           e.kind = "Started" => e.attempt # 0,
           c.pc[i] = Waits[e.kind]
    PROVE  Pool(Emit(c, e))
<1>1. Owner(e) = i /\ e.kind \notin {"BatchStarted", "BatchSettled"} /\ i # 0
    BY Bounds DEF Owner, Runs, Items
<1>2. Owner(e) # 0 => c.pc[Owner(e)] = Waits[e.kind] /\ Free(c, Owner(e))
    BY <1>1 DEF Runs
<1>3. Pool(c) /\ (e.kind \notin {"BatchStarted", "BatchSettled"} => e.item # 0)
    BY <1>1 DEF Runs
<1> QED BY <1>2, <1>3, EmitKeeps

\* A slot leaves runSlot.
LEMMA SlotLeaves ==
    ASSUME NEW c, NEW i, Runs(c, i), NEW s \in {"close", "gone"}, NEW d, Left(c, d, i, s)
    PROVE  Pool(d) /\ d.pc[i] = s /\ Free(d, i)
<1>1. Pool(c) /\ i \in Items /\ c.pc[i] \in Inside /\ Free(c, i)
    BY DEF Runs
<1> QED BY <1>1, LeaveKeeps

\* The end of runSlot.
LEMMA EndSlotKeeps ==
    ASSUME NEW c, NEW i, Runs(c, i)
    PROVE  Pool(EndSlot(c, i))
<1>1. c \in Closure /\ i \in Items
    BY DEF Runs, Pool
<1>2. PICK closed \in BOOLEAN :
          closed = (c.closed \/ (policy = "fail-fast" /\ c.slot[i].status # "succeeded"))
    OBVIOUS
<1>3. PICK p \in [Items -> Steps] : p = [c.pc EXCEPT ![i] = "close"]
    BY <1>1 DEF Closure, Steps
<1>4. PICK a \in Int : a = c.active - 1
    BY <1>1 DEF Closure
<1>5. PICK n \in Nat : n = c.completed + 1
    BY <1>1 DEF Closure
<1>6. PICK d : d = [c EXCEPT !.closed = closed, !.pc = p, !.active = a, !.completed = n]
    OBVIOUS
<1>7. d = Leave([c EXCEPT !.closed = @ \/ (policy = "fail-fast" /\ c.slot[i].status # "succeeded"),
                          !.pc[i] = "close"], i)
    BY <1>1, <1>2, <1>3, <1>4, <1>5, <1>6 DEF Leave, Closure
<1>8. Left(c, d, i, "close")
    BY <1>1, <1>3, <1>4, <1>6 DEF Left, Closure
<1>9. Pool(d) /\ d.pc[i] = "close" /\ Free(d, i)
    <2>1. PICK s \in {"close", "gone"} : s = "close"
        OBVIOUS
    <2>2. Left(c, d, i, s)
        BY <1>8, <2>1
    <2>3. Pool(d) /\ d.pc[i] = s /\ Free(d, i)
        BY <2>2, SlotLeaves
    <2> QED BY <2>1, <2>3
<1>10. Closer(d, i)
    BY <1>1, <1>9, Bounds DEF Closer, Items
<1>11. PICK s \in Statuses : s = ClosedAs(d)
    BY DEF ClosedAs, Statuses, ItemTerminal
<1>12. Pool(closeQueued(d, 0, s, i)) /\ Pool(AfterClosing(d, i))
    BY <1>9, <1>10, CloseQueuedKeeps, AfterClosingKeeps
<1>13. EndSlot(c, i) = IF d.closed THEN closeQueued(d, 0, s, i) ELSE AfterClosing(d, i)
    BY <1>7, <1>11 DEF EndSlot
<1> QED BY <1>12, <1>13

\* A slot that runs changes its status and the count of attempts.
Turns(c, d, i, t, n, s) ==
    d = [c EXCEPT !.slot = [c.slot EXCEPT ![i] = t], !.executed = n, !.pc[i] = s]

\* Taking an attempt, field by field, gives its slot the value t.
LEMMA CountsAttempt ==
    ASSUME NEW c \in Closure, NEW i \in Items, NEW t, NEW n, NEW d, Turns(c, d, i, t, n, "start"),
           t = [c.slot[i] EXCEPT !.attempts = @ + 1, !.status = "running"], n = c.executed + 1
    PROVE  d = [c EXCEPT !.slot[i].attempts = @ + 1, !.slot[i].status = "running",
                         !.executed = @ + 1, !.pc[i] = "start"]
<1>1. PICK f : f = c.slot
    OBVIOUS
<1>2. f \in [Items -> Slot]
    BY <1>1 DEF Closure
<1>3. PICK w : w = [[f EXCEPT ![i].attempts = @ + 1] EXCEPT ![i].status = "running"]
    OBVIOUS
<1>4. w = [f EXCEPT ![i] = t]
    BY <1>1, <1>2, <1>3 DEF Slot
<1>5. [c EXCEPT !.slot[i].attempts = @ + 1, !.slot[i].status = "running",
                !.executed = @ + 1, !.pc[i] = "start"]
      = [c EXCEPT !.slot = w, !.executed = n, !.pc[i] = "start"]
    BY <1>1, <1>3 DEF Closure
<1> QED BY <1>1, <1>4, <1>5 DEF Turns

\* A slot whose status and count have changed still runs.
LEMMA SlotTurns ==
    ASSUME NEW c, NEW i, Runs(c, i), NEW t \in Slot, NEW n \in Nat, NEW s \in Inside,
           NEW d, Turns(c, d, i, t, n, s)
    PROVE  Runs(d, i) /\ d.pc[i] = s /\ d.slot[i] = t
<1>1. c \in Closure /\ i \in Items
    BY DEF Runs, Pool
<1>2. PICK w \in [Items -> Slot] : w = [c.slot EXCEPT ![i] = t]
    BY <1>1 DEF Closure
<1>3. PICK p \in [Items -> Steps] : p = [c.pc EXCEPT ![i] = s]
    BY <1>1 DEF Closure, Inside
<1>4. d = [c EXCEPT !.slot = w, !.executed = n, !.pc = p]
    BY <1>1, <1>2, <1>3 DEF Turns, Closure
<1>5. /\ d \in Closure /\ d.pc = [c.pc EXCEPT ![i] = s] /\ d.slot = w
      /\ d.active = c.active /\ d.next = c.next /\ d.queue = c.queue
    BY <1>1, <1>3, <1>4 DEF Closure
<1>6. Runs(d, i) /\ d.pc[i] = s
    <2>1. Stays(c, d, i, s)
        BY <1>5 DEF Stays
    <2>2. Runs(c, i) /\ s \in Inside
        OBVIOUS
    <2> QED BY ONLY <2>1, <2>2, RunsOn
<1>7. d.slot[i] = t
    BY <1>1, <1>2, <1>5 DEF Closure
<1> QED BY <1>6, <1>7

\* The kinds of append that a slot awaits inside runSlot.
SlotKinds == {"Queued", "Started", "Terminal", "Capacity", "Requeued", "Cancelled"}

\* The event that slot i emits in the state t.
Tells(e, kind, i, t) ==
    e \in Events /\ e.kind = kind /\ e.item = i /\ e.attempt = t.attempts

\* The event of a slot names its item and its attempt.
LEMMA EventTells ==
    ASSUME NEW kind \in SlotKinds, NEW i \in Items, NEW t \in Slot
    PROVE  Tells(Event(kind, i, t, i), kind, i, t)
<1>1. i \in 0..N /\ kind \in EventKinds
    BY Bounds DEF Items, SlotKinds, EventKinds
<1> QED BY <1>1, EventIs DEF Tells

\* So does one that proves nothing.
LEMMA UnprovedTells ==
    ASSUME NEW e, NEW kind, NEW i, NEW t, Tells(e, kind, i, t)
    PROVE  Tells([e EXCEPT !.auth = FALSE], kind, i, t)
BY DEF Tells, Events

\* So does one that says how to retry.
LEMMA RetryTells ==
    ASSUME NEW e, NEW kind, NEW i, NEW t, Tells(e, kind, i, t),
           NEW r \in {"none", "retry", "limit"}
    PROVE  Tells([e EXCEPT !.retry = r], kind, i, t)
BY DEF Tells, Events

\* The event that a slot emits at the step that awaits it.
LEMMA Announces ==
    ASSUME NEW c, NEW i, Runs(c, i), NEW kind \in SlotKinds, c.pc[i] = Waits[kind],
           NEW t \in Slot, kind = "Started" => t.attempts # 0, NEW e, Tells(e, kind, i, t)
    PROVE  Pool(Emit(c, e))
<1>1. e \in Events /\ e.item = i /\ e.kind = kind /\ e.attempt = t.attempts
    BY DEF Tells
<1>2. e.kind \in {"Queued", "Started", "Terminal", "Capacity", "Requeued", "Cancelled"}
    BY <1>1 DEF SlotKinds
<1>3. c.pc[i] = Waits[e.kind] /\ (e.kind = "Started" => e.attempt # 0)
    BY <1>1
<1>4. Runs(c, i)
    OBVIOUS
<1> QED BY ONLY <1>1, <1>2, <1>3, <1>4, SlotEmits

\* A slot and its status.
LEMMA SlotIs ==
    ASSUME NEW c, NEW i, Runs(c, i)
    PROVE  /\ c \in Closure /\ i \in Items /\ c.slot[i] \in Slot
           /\ c.slot \in [Items -> Slot] /\ c.executed \in Nat /\ c.capacity \in 1..Ceiling
BY DEF Runs, Pool, Closure

\* An aborted slot without a terminal is cancelled.
LEMMA AfterLoopKeeps ==
    ASSUME NEW c, NEW i, Runs(c, i)
    PROVE  Pool(AfterLoop(c, i))
<1>1. PICK t \in Slot : t = [c.slot[i] EXCEPT !.status = "cancelled"]
    <2>1. PICK u \in Slot : u = c.slot[i]
        BY SlotIs
    <2> QED BY <2>1 DEF Slot, Statuses, ItemTerminal
<1>2. PICK n \in Nat : n = c.executed
    BY SlotIs
<1>3. PICK s \in Inside : s = "cancel"
    BY DEF Inside, Steps
<1>4. PICK d : Turns(c, d, i, t, n, s)
    BY DEF Turns
<1>5. Runs(d, i) /\ d.pc[i] = s /\ d.slot[i] = t
    <2>1. Runs(c, i)
        OBVIOUS
    <2> QED BY ONLY <1>1, <1>2, <1>3, <1>4, <2>1, SlotTurns
<1>6. d = [c EXCEPT !.slot[i].status = "cancelled", !.pc[i] = "cancel"]
    BY <1>1, <1>2, <1>3, <1>4, SlotIs DEF Turns, Closure
<1>7. PICK e : e = [Event("Cancelled", i, t, i) EXCEPT !.auth = FALSE]
    OBVIOUS
<1>8. Pool(Emit(d, e))
    <2>1. PICK kind \in SlotKinds : kind = "Cancelled"
        BY DEF SlotKinds
    <2>2. d.pc[i] = Waits[kind] /\ (kind = "Started" => t.attempts # 0)
        BY <1>3, <1>5, <2>1 DEF Waits
    <2>3. Tells(e, kind, i, t)
        BY <1>1, <1>7, <2>1, SlotIs, EventTells, UnprovedTells
    <2>4. Runs(d, i) /\ t \in Slot
        BY <1>5
    <2> QED BY ONLY <2>1, <2>2, <2>3, <2>4, Announces
<1>9. AfterLoop(c, i) = IF Aborted(c) /\ ~c.fatal /\ c.slot[i].status \notin ItemTerminal
                        THEN Emit(d, e) ELSE EndSlot(c, i)
    <2>1. e = [Event("Cancelled", i, d.slot[i], i) EXCEPT !.auth = FALSE]
        BY <1>5, <1>7
    <2>2. AfterLoop(c, i) =
             IF Aborted(c) /\ ~c.fatal /\ c.slot[i].status \notin ItemTerminal
             THEN LET v == [c EXCEPT !.slot[i].status = "cancelled", !.pc[i] = "cancel"]
                  IN  Emit(v, [Event("Cancelled", i, v.slot[i], i) EXCEPT !.auth = FALSE])
             ELSE EndSlot(c, i)
        BY DEF AfterLoop
    <2> QED BY <1>6, <2>1, <2>2, Zenon
<1>10. Pool(EndSlot(c, i))
    BY EndSlotKeeps
<1> QED BY <1>8, <1>9, <1>10

\* The next attempt is counted and announced.
LEMMA RunSlotKeeps ==
    ASSUME NEW c, NEW i, Runs(c, i)
    PROVE  Pool(RunSlot(c, i))
<1>1. SUFFICES ASSUME MayAttempt(c, i) PROVE Pool(RunSlot(c, i))
    BY AfterLoopKeeps DEF RunSlot
<1>2. PICK t \in Slot : t = [c.slot[i] EXCEPT !.attempts = @ + 1, !.status = "running"]
                        /\ t.attempts # 0
    <2>1. PICK u \in Slot : u = c.slot[i]
        BY SlotIs
    <2>2. u.attempts + 1 \in 0..MaxAttempts /\ u.attempts + 1 # 0
        BY <1>1, <2>1, Bounds DEF MayAttempt, Slot
    <2>3. PICK v \in Slot : v = [u EXCEPT !.attempts = @ + 1, !.status = "running"]
        BY <2>2 DEF Slot, Statuses
    <2>4. v.attempts # 0
        BY <2>2, <2>3 DEF Slot
    <2> QED BY <2>1, <2>3, <2>4
<1>3. PICK n \in Nat : n = c.executed + 1
    BY SlotIs
<1>4. PICK s \in Inside : s = "start"
    BY DEF Inside, Steps
<1>5. PICK d : Turns(c, d, i, t, n, s)
    BY DEF Turns
<1>6. Runs(d, i) /\ d.pc[i] = s /\ d.slot[i] = t
    <2>1. Runs(c, i)
        OBVIOUS
    <2> QED BY ONLY <1>2, <1>3, <1>4, <1>5, <2>1, SlotTurns
<1>7. d = [c EXCEPT !.slot[i].attempts = @ + 1, !.slot[i].status = "running",
                    !.executed = @ + 1, !.pc[i] = "start"]
    <2>1. c \in Closure /\ i \in Items
        BY SlotIs
    <2>2. Turns(c, d, i, t, n, "start")
        BY <1>4, <1>5
    <2> QED BY ONLY <1>2, <1>3, <2>1, <2>2, CountsAttempt
<1>8. PICK e : e = Event("Started", i, t, i)
    OBVIOUS
<1>9. Pool(Emit(d, e))
    <2>1. PICK kind \in SlotKinds : kind = "Started"
        BY DEF SlotKinds
    <2>2. d.pc[i] = Waits[kind] /\ (kind = "Started" => t.attempts # 0)
        BY <1>2, <1>4, <1>6, <2>1 DEF Waits
    <2>3. Tells(e, kind, i, t)
        BY <1>2, <1>8, <2>1, SlotIs, EventTells
    <2>4. Runs(d, i) /\ t \in Slot
        BY <1>6
    <2> QED BY ONLY <2>1, <2>2, <2>3, <2>4, Announces
<1>10. RunSlot(c, i) = Emit(d, e)
    BY <1>1, <1>6, <1>7, <1>8 DEF RunSlot
<1> QED BY <1>9, <1>10

\* The item waits for its next attempt.
LEMMA RequeueKeeps ==
    ASSUME NEW c, NEW i, Runs(c, i)
    PROVE  Pool(Requeue(c, i))
<1>1. PICK t \in Slot : t = [c.slot[i] EXCEPT !.status = "queued"]
    <2>1. PICK u \in Slot : u = c.slot[i]
        BY SlotIs
    <2> QED BY <2>1 DEF Slot, Statuses
<1>2. PICK n \in Nat : n = c.executed
    BY SlotIs
<1>3. PICK s \in Inside : s = "requeue"
    BY DEF Inside, Steps
<1>4. PICK d : Turns(c, d, i, t, n, s)
    BY DEF Turns
<1>5. Runs(d, i) /\ d.pc[i] = s /\ d.slot[i] = t
    <2>1. Runs(c, i)
        OBVIOUS
    <2> QED BY ONLY <1>1, <1>2, <1>3, <1>4, <2>1, SlotTurns
<1>6. d = [c EXCEPT !.slot[i].status = "queued", !.pc[i] = "requeue"]
    BY <1>1, <1>2, <1>3, <1>4, SlotIs DEF Turns, Closure
<1>7. PICK e : e = Event("Requeued", i, t, i)
    OBVIOUS
<1>8. Pool(Emit(d, e))
    <2>1. PICK kind \in SlotKinds : kind = "Requeued"
        BY DEF SlotKinds
    <2>2. d.pc[i] = Waits[kind] /\ (kind = "Started" => t.attempts # 0)
        BY <1>3, <1>5, <2>1 DEF Waits
    <2>3. Tells(e, kind, i, t)
        BY <1>1, <1>7, <2>1, SlotIs, EventTells
    <2>4. Runs(d, i) /\ t \in Slot
        BY <1>5
    <2> QED BY ONLY <2>1, <2>2, <2>3, <2>4, Announces
<1>9. Requeue(c, i) = Emit(d, e)
    BY <1>5, <1>6, <1>7 DEF Requeue
<1> QED BY <1>8, <1>9

\* The ramp may be set while a slot runs.
LEMMA RampRuns ==
    ASSUME NEW c, NEW i, Runs(c, i)
    PROVE  Runs(scheduleRamp(c), i)
<1>1. Pool(c) /\ i \in Items
    BY DEF Runs
<1>2. SameSeats(c, scheduleRamp(c)) /\ Pool(scheduleRamp(c))
    BY <1>1, RampKeeps
<1> QED BY <1>2 DEF Runs, SameSeats, Free

\* A slot that runs steps to where it awaits what it emits next.
Goes(c, d, i, s) == d = [c EXCEPT !.pc[i] = s]

\* A slot that steps to where it awaits its next append still runs.
LEMMA SlotSteps ==
    ASSUME NEW c, NEW i, Runs(c, i), NEW s \in Inside, NEW d, Goes(c, d, i, s)
    PROVE  Runs(d, i) /\ d.pc[i] = s
<1>1. c \in Closure /\ i \in Items
    BY SlotIs
<1>2. PICK p \in [Items -> Steps] : p = [c.pc EXCEPT ![i] = s]
    BY <1>1 DEF Closure, Inside
<1>3. d = [c EXCEPT !.pc = p]
    BY <1>1, <1>2 DEF Goes, Closure
<1>4. Stays(c, d, i, s)
    BY <1>1, <1>2, <1>3 DEF Stays, Closure
<1>5. Runs(c, i) /\ s \in Inside
    OBVIOUS
<1> QED BY ONLY <1>4, <1>5, RunsOn

\* The capacity is halved, and the item waits for its next attempt.
LEMMA RateLimitKeeps ==
    ASSUME NEW c, NEW i, Runs(c, i)
    PROVE  Pool(applyRateLimit(c, i))
<1>1. PICK half \in 1..Ceiling : half = IF c.capacity = 1 THEN 1 ELSE c.capacity \div 2
    <2>1. PICK k \in 1..Ceiling : k = c.capacity
        BY SlotIs
    <2>2. k = 1 \/ k \div 2 \in 1..Ceiling
        BY Bounds
    <2>3. 1 \in 1..Ceiling
        BY Bounds
    <2> QED BY <2>1, <2>2, <2>3
<1>2. PICK d : d = [c EXCEPT !.capacity = half, !.ramp = FALSE]
    OBVIOUS
<1>3. Runs(d, i) /\ d.slot = c.slot
    <2>1. Pool(c) /\ i \in Items
        BY DEF Runs
    <2>2. SameSeats(c, d) /\ d.slot = c.slot
        BY <1>2, <2>1 DEF Pool, Closure, SameSeats
    <2>3. Pool(d)
        BY <2>1, <2>2, SeatsKeep
    <2> QED BY <2>1, <2>2, <2>3 DEF Runs, SameSeats, Free
<1>4. PICK t \in Slot : t = d.slot[i]
    BY <1>3, SlotIs
<1>5. PICK s \in Inside : s = "rate"
    BY DEF Inside, Steps
<1>6. PICK v : v = [d EXCEPT !.pc[i] = s]
    OBVIOUS
<1>7. Runs(v, i) /\ v.pc[i] = s
    <2>1. Goes(d, v, i, s)
        BY <1>6 DEF Goes
    <2> QED BY ONLY <1>3, <1>5, <2>1, SlotSteps
<1>8. PICK e : e = Event("Capacity", i, t, i)
    OBVIOUS
<1>9. Pool(Emit(v, e))
    <2>1. PICK kind \in SlotKinds : kind = "Capacity"
        BY DEF SlotKinds
    <2>2. v.pc[i] = Waits[kind] /\ (kind = "Started" => t.attempts # 0)
        BY <1>5, <1>7, <2>1 DEF Waits
    <2>3. Tells(e, kind, i, t)
        BY <1>8, <2>1, SlotIs, EventTells
    <2>4. Runs(v, i) /\ t \in Slot
        BY <1>7
    <2> QED BY ONLY <2>1, <2>2, <2>3, <2>4, Announces
<1>10. Pool(Requeue(c, i))
    BY RequeueKeeps
<1>11. Pool(Requeue(scheduleRamp(d), i))
    <2>1. PICK f : f = scheduleRamp(d)
        OBVIOUS
    <2>2. Runs(f, i)
        BY <1>3, <2>1, RampRuns
    <2>3. Pool(Requeue(f, i))
        BY <2>2, RequeueKeeps
    <2> QED BY <2>1, <2>3
<1>12. applyRateLimit(c, i) = IF ~Adaptive THEN Requeue(c, i)
                              ELSE IF half # c.capacity THEN Emit(v, e)
                              ELSE Requeue(scheduleRamp(d), i)
    <2>1. v = [d EXCEPT !.pc[i] = "rate"] /\ e = Event("Capacity", i, d.slot[i], i)
        BY <1>4, <1>5, <1>6, <1>8
    <2> QED BY <1>1, <1>2, <2>1 DEF applyRateLimit
<1> QED BY <1>9, <1>10, <1>11, <1>12

\* What follows the terminal of an attempt.
LEMMA AfterTerminalKeeps ==
    ASSUME NEW c, NEW e, Runs(c, e.item)
    PROVE  Pool(AfterTerminal(c, e))
<1>1. Pool(AfterLoop(c, e.item)) /\ Pool(applyRateLimit(c, e.item)) /\ Pool(Requeue(c, e.item))
    BY AfterLoopKeeps, RateLimitKeeps, RequeueKeeps
<1> QED BY <1>1 DEF AfterTerminal

\* The append that a slot awaits is refused.
LEMMA SlotThrowsKeeps ==
    ASSUME NEW c, NEW i, Runs(c, i)
    PROVE  Pool(SlotThrows(c, i))
<1>1. c \in Closure /\ i \in Items
    BY SlotIs
<1>2. PICK p \in [Items -> Steps] : p = [c.pc EXCEPT ![i] = "gone"]
    BY <1>1 DEF Closure, Steps
<1>3. PICK a \in Int : a = c.active - 1
    BY <1>1 DEF Closure
<1>4. PICK n \in Nat : n = c.completed + 1
    BY <1>1 DEF Closure
<1>5. PICK d : d = [c EXCEPT !.pc = p, !.active = a, !.completed = n]
    OBVIOUS
<1>6. d = Leave([c EXCEPT !.pc[i] = "gone"], i)
    BY <1>1, <1>2, <1>3, <1>4, <1>5 DEF Leave, Closure
<1>7. PICK s \in {"close", "gone"} : s = "gone"
    OBVIOUS
<1>8. Left(c, d, i, s)
    BY <1>1, <1>2, <1>3, <1>5, <1>7 DEF Left, Closure
<1>9. Pool(d)
    <2>1. Runs(c, i) /\ s \in {"close", "gone"}
        OBVIOUS
    <2> QED BY ONLY <1>8, <2>1, SlotLeaves
<1>10. SlotThrows(c, i) = failRun(d)
    BY <1>6 DEF SlotThrows
<1> QED BY <1>9, <1>10, FailRunKeeps

\* The queued event of an admitted slot is refused.
LEMMA AdmissionThrowsKeeps ==
    ASSUME NEW c, NEW i, Runs(c, i)
    PROVE  Pool(AdmissionThrows(c, i))
<1>1. c \in Closure /\ i \in Items
    BY SlotIs
<1>2. PICK p \in [Items -> Steps] : p = [c.pc EXCEPT ![i] = "gone"]
    BY <1>1 DEF Closure, Steps
<1>3. PICK a \in Int : a = c.active - 1
    BY <1>1 DEF Closure
<1>4. PICK n \in Nat : n = c.completed + 1
    BY <1>1 DEF Closure
<1>5. PICK t \in Slot : t = [c.slot[i] EXCEPT !.status = "failed", !.auth = FALSE]
    <2>1. PICK u \in Slot : u = c.slot[i]
        BY SlotIs
    <2> QED BY <2>1 DEF Slot, Statuses, ItemTerminal
<1>6. PICK w \in [Items -> Slot] : w = [c.slot EXCEPT ![i] = t]
    BY <1>1 DEF Closure
<1>7. PICK d : d = [c EXCEPT !.active = a, !.completed = n, !.pc = p, !.slot = w]
    OBVIOUS
<1>8. d = [Leave(c, i) EXCEPT !.pc[i] = "gone",
                    !.slot[i] = [@ EXCEPT !.status = "failed", !.auth = FALSE]]
    <2>1. PICK v : v = Leave(c, i)
        OBVIOUS
    <2>2. v = [c EXCEPT !.active = a, !.completed = n]
        BY <1>1, <1>3, <1>4, <2>1 DEF Leave, Closure
    <2>3. v \in Closure /\ v.pc = c.pc /\ v.slot = c.slot
        BY <1>1, <2>2 DEF Closure
    <2>4. d = [v EXCEPT !.pc = p, !.slot = w]
        BY <1>1, <1>7, <2>2 DEF Closure
    <2>5. t = [v.slot[i] EXCEPT !.status = "failed", !.auth = FALSE]
        BY <1>5, <2>3
    <2>6. [v EXCEPT !.pc[i] = "gone", !.slot[i] = [@ EXCEPT !.status = "failed", !.auth = FALSE]]
             = [v EXCEPT !.pc = p, !.slot = w]
        BY <1>1, <1>2, <1>6, <2>3, <2>5 DEF Closure, Slot
    <2> QED BY <2>1, <2>4, <2>6
<1>9. PICK s \in {"close", "gone"} : s = "gone"
    OBVIOUS
<1>10. Left(c, d, i, s)
    BY <1>1, <1>2, <1>3, <1>7, <1>9 DEF Left, Closure
<1>11. Pool(d)
    <2>1. Runs(c, i) /\ s \in {"close", "gone"}
        OBVIOUS
    <2> QED BY ONLY <1>10, <2>1, SlotLeaves
<1>12. PICK f : f = failRun(d)
    OBVIOUS
<1>13. Pool(f)
    BY <1>11, <1>12, FailRunKeeps
<1>14. AdmissionThrows(c, i) = maybeComplete(f)
    BY <1>8, <1>12 DEF AdmissionThrows
<1> QED BY <1>13, <1>14, MaybeCompleteKeeps

\* What is known of the event at the head of the queue, when it is taken off.
Due(c, e) ==
    /\ Pool(c) /\ e \in Events
    /\ e.kind \in SlotKinds => Runs(c, e.item)
    /\ e.kind = "Closed" => Closer(c, e.by)
    /\ e.kind = "Started" => e.attempt # 0

\* The step at which a slot awaits an append is inside runSlot.
LEMMA WaitsInside == \A kind \in SlotKinds : Waits[kind] \in Inside
BY DEF SlotKinds, Waits, Inside, Steps

\* The event at the head is awaited by a slot at the step of it, or by the pump.
LEMMA HeadIsDue ==
    ASSUME NEW c, Pool(c), c.queue # <<>>, NEW d, d = [c EXCEPT !.queue = Tail(@)],
           NEW e, e = Head(c.queue)
    PROVE  Due(d, e)
<1>1. PICK q \in Seq(Events) : q = c.queue
    BY DEF Pool, Closure
<1>2. q # <<>> /\ e = Head(q)
    BY <1>1
<1>3. PICK r \in Seq(Events) : r = Tail(q)
    <2>1. Tail(q) \in Seq(Events)
        BY ONLY <1>2
    <2> QED BY ONLY <2>1
<1>4. /\ Len(q) \in Nat /\ Len(r) = Len(q) - 1 /\ DOMAIN q = 1..Len(q) /\ DOMAIN r = 1..Len(r)
      /\ e = q[1] /\ 1 \in DOMAIN q /\ \A k \in DOMAIN r : k + 1 \in DOMAIN q /\ r[k] = q[k + 1]
    BY <1>2, <1>3
<1>5. d = [c EXCEPT !.queue = r]
    BY <1>1, <1>3 DEF Pool, Closure
<1>6. /\ d \in Closure /\ d.pc = c.pc /\ d.active = c.active /\ d.next = c.next
      /\ d.queue = r
    <2>1. c \in Closure
        BY DEF Pool
    <2> QED BY ONLY <1>5, <2>1 DEF Closure
<1>7. \A k \in DOMAIN q : Awaited(c, q[k])
    BY <1>1 DEF Pool
<1>8. \A k, l \in DOMAIN q : k # l /\ Owner(q[k]) # 0 => Owner(q[k]) # Owner(q[l])
    BY <1>1 DEF Pool
<1>9. Pool(d)
    <2>1. \A k \in DOMAIN d.queue : Awaited(d, d.queue[k])
        <3>1. ASSUME NEW k \in DOMAIN r PROVE Awaited(d, r[k])
            <4>1. Awaited(c, r[k])
                BY <1>4, <1>7
            <4> QED BY <1>6, <4>1 DEF Awaited
        <3> QED BY <1>6, <3>1
    <2>2. \A k, l \in DOMAIN d.queue :
              k # l /\ Owner(d.queue[k]) # 0 => Owner(d.queue[k]) # Owner(d.queue[l])
        <3>1. ASSUME NEW k \in DOMAIN r, NEW l \in DOMAIN r, k # l, Owner(r[k]) # 0
              PROVE  Owner(r[k]) # Owner(r[l])
            <4>1. k + 1 \in DOMAIN q /\ l + 1 \in DOMAIN q /\ k + 1 # l + 1
                BY <1>4, <3>1
            <4>2. r[k] = q[k + 1] /\ r[l] = q[l + 1]
                BY <1>4
            <4> QED BY <1>8, <3>1, <4>1, <4>2
        <3>2. \A k, l \in DOMAIN r : k # l /\ Owner(r[k]) # 0 => Owner(r[k]) # Owner(r[l])
            BY <3>1
        <3>3. d.queue = r
            BY <1>6
        <3> QED BY ONLY <3>2, <3>3
    <2>3. d.active = Cardinality(Seated(d)) /\ d.active <= Ceiling
        BY <1>6 DEF Pool, Seated
    <2>4. \A i \in Items : i >= d.next => d.pc[i] = "idle"
        BY <1>6 DEF Pool
    <2> QED BY <1>6, <2>1, <2>2, <2>3, <2>4 DEF Pool
<1>10. e \in Events /\ Awaited(d, e)
    BY <1>4, <1>6, <1>7 DEF Awaited
<1>11. Owner(e) # 0 => Owner(e) \in Items /\ Free(d, Owner(e))
    <2> SUFFICES ASSUME Owner(e) # 0 PROVE Owner(e) \in Items /\ Free(d, Owner(e))
        OBVIOUS
    <2>1. Owner(e) \in Items
        BY <1>10, OwnerIs
    <2>2. ASSUME NEW k \in DOMAIN r PROVE Owner(r[k]) # Owner(e)
        <3>1. k + 1 \in DOMAIN q /\ k + 1 # 1 /\ r[k] = q[k + 1]
            BY <1>4
        <3> QED BY <1>4, <1>8, <3>1
    <2> QED BY <1>6, <2>1, <2>2 DEF Free
<1>12. ASSUME e.kind \in SlotKinds PROVE Runs(d, e.item)
    <2>1. Owner(e) = e.item /\ e.item # 0
        BY <1>10, <1>12 DEF Owner, SlotKinds, Awaited
    <2>2. d.pc[e.item] = Waits[e.kind]
        BY <1>10, <2>1 DEF Awaited
    <2> QED BY <1>9, <1>11, <1>12, <2>1, <2>2, WaitsInside DEF Runs
<1>13. ASSUME e.kind = "Closed" PROVE Closer(d, e.by)
    <2>1. Owner(e) = e.by
        BY <1>13 DEF Owner
    <2>2. e.by # 0 => d.pc[e.by] = "close"
        BY <1>10, <1>13, <2>1 DEF Awaited, Waits
    <2>3. e.by \in 0..N
        BY <1>10 DEF Events
    <2> QED BY <1>11, <2>1, <2>2, <2>3 DEF Closer
<1> QED BY <1>9, <1>10, <1>12, <1>13 DEF Due, Awaited

\* What follows an append.
LEMMA ContinueKeeps ==
    ASSUME NEW c, NEW e, Due(c, e)
    PROVE  Pool(Continue(c, e))
<1>1. Pool(c) /\ e \in Events /\ e.kind \in EventKinds
    BY DEF Due, Events
<1>2. e.kind \in SlotKinds => Runs(c, e.item)
    BY DEF Due
<1>3. CASE e.kind = "BatchStarted"
    <2>1. PICK b \in BOOLEAN : b = Aborted(c)
        BY DEF Aborted
    <2>2. PICK d : d = [c EXCEPT !.phase = "running", !.closed = b]
        OBVIOUS
    <2>3. SameSeats(c, d)
        BY <1>1, <2>2 DEF Pool, Closure, SameSeats, Phases
    <2>4. Pool(d)
        BY <1>1, <2>3, SeatsKeep
    <2>5. Continue(c, e) = pump(d)
        BY <1>3, <2>1, <2>2 DEF Continue
    <2> QED BY <2>4, <2>5, PumpKeeps
<1>4. CASE e.kind = "Queued"
    <2>1. Runs(c, e.item)
        BY <1>2, <1>4 DEF SlotKinds
    <2>2. Pool(RunSlot(c, e.item))
        BY <2>1, RunSlotKeeps
    <2> QED BY <1>4, <2>2 DEF Continue
<1>5. ASSUME NEW s \in Inside, e.kind \in SlotKinds PROVE Pool([c EXCEPT !.pc[e.item] = s])
    <2>1. PICK i : i = e.item
        OBVIOUS
    <2>2. PICK d : d = [c EXCEPT !.pc[i] = s]
        OBVIOUS
    <2>3. Runs(c, i) /\ Goes(c, d, i, s) /\ s \in Inside
        BY <1>2, <1>5, <2>1, <2>2 DEF Goes
    <2>4. Runs(d, i)
        BY ONLY <2>3, SlotSteps
    <2> QED BY <2>1, <2>2, <2>4 DEF Runs
<1>6. CASE e.kind = "Started"
    <2>1. Pool([c EXCEPT !.pc[e.item] = "exec"])
        BY <1>5, <1>6 DEF SlotKinds, Inside, Steps
    <2> QED BY <1>6, <2>1 DEF Continue
<1>7. CASE e.kind = "Terminal"
    <2>1. Runs(c, e.item)
        BY <1>2, <1>7 DEF SlotKinds
    <2>2. Pool(AfterTerminal(c, e))
        BY <2>1, AfterTerminalKeeps
    <2> QED BY <1>7, <2>2 DEF Continue
<1>8. CASE e.kind = "Capacity"
    <2>1. Runs(c, e.item)
        BY <1>2, <1>8 DEF SlotKinds
    <2>2. PICK d : d = scheduleRamp(c)
        OBVIOUS
    <2>3. Runs(d, e.item)
        BY <2>1, <2>2, RampRuns
    <2>4. Pool(Requeue(d, e.item))
        BY <2>3, RequeueKeeps
    <2> QED BY <1>8, <2>2, <2>4 DEF Continue
<1>9. CASE e.kind = "Requeued"
    <2>1. Pool([c EXCEPT !.pc[e.item] = "sleep"])
        BY <1>5, <1>9 DEF SlotKinds, Inside, Steps
    <2> QED BY <1>9, <2>1 DEF Continue
<1>10. CASE e.kind = "Cancelled"
    <2>1. Runs(c, e.item)
        BY <1>2, <1>10 DEF SlotKinds
    <2>2. Pool(EndSlot(c, e.item))
        BY <2>1, EndSlotKeeps
    <2> QED BY <1>10, <2>2 DEF Continue
<1>11. CASE e.kind = "Closed"
    <2>1. Closer(c, e.by) /\ e.status \in Statuses
        BY <1>11 DEF Due, Events
    <2>2. PICK s \in Statuses : s = e.status
        BY <2>1
    <2>3. Pool(closeQueued(c, e.item, s, e.by))
        BY <1>1, <2>1, CloseQueuedKeeps
    <2> QED BY <1>11, <2>2, <2>3 DEF Continue
<1>12. CASE e.kind = "BatchSettled"
    <2>1. SameSeats(c, [c EXCEPT !.phase = "returned"])
        BY <1>1 DEF Pool, Closure, SameSeats, Phases
    <2>2. Pool([c EXCEPT !.phase = "returned"])
        BY <1>1, <2>1, SeatsKeep
    <2> QED BY <1>12, <2>2 DEF Continue
<1> QED BY <1>1, <1>3, <1>4, <1>6, <1>7, <1>8, <1>9, <1>10, <1>11, <1>12 DEF EventKinds

\* What follows a refused append.
LEMMA RefusedKeeps ==
    ASSUME NEW c, NEW e, Due(c, e)
    PROVE  Pool(Refused(c, e))
<1>1. Pool(c) /\ e \in Events /\ e.kind \in EventKinds
    BY DEF Due, Events
<1>2. e.kind \in SlotKinds => Runs(c, e.item)
    BY DEF Due
<1>3. CASE e.kind \in {"BatchStarted", "BatchSettled"}
    <2>1. SameSeats(c, [c EXCEPT !.phase = "threw"])
        BY <1>1 DEF Pool, Closure, SameSeats, Phases
    <2>2. Pool([c EXCEPT !.phase = "threw"])
        BY <1>1, <2>1, SeatsKeep
    <2> QED BY <1>3, <2>2 DEF Refused
<1>4. CASE e.kind = "Queued"
    <2>1. Runs(c, e.item)
        BY <1>2, <1>4 DEF SlotKinds
    <2>2. Pool(AdmissionThrows(c, e.item))
        BY <2>1, AdmissionThrowsKeeps
    <2> QED BY <1>4, <2>2 DEF Refused
<1>5. CASE e.kind = "Closed"
    <2>1. PICK by : by = e.by
        OBVIOUS
    <2>2. Closer(c, by)
        BY <1>5, <2>1 DEF Due
    <2>3. PICK d : d = [c EXCEPT !.pc[by] = "gone"]
        OBVIOUS
    <2>4. ASSUME by # 0 PROVE Pool(d)
        <3>1. by \in Items /\ c.pc[by] = "close" /\ Free(c, by)
            BY <2>2, <2>4, Bounds DEF Closer, Items
        <3>2. PICK p \in [Items -> Steps] : p = [c.pc EXCEPT ![by] = "gone"]
            BY <1>1, <3>1 DEF Pool, Closure, Steps
        <3>3. d = [c EXCEPT !.pc = p]
            BY <1>1, <2>3, <3>2 DEF Pool, Closure
        <3>4. /\ d \in Closure /\ d.pc = [c.pc EXCEPT ![by] = "gone"]
              /\ d.active = c.active /\ d.next = c.next /\ d.queue = c.queue
            BY <1>1, <3>2, <3>3 DEF Pool, Closure
        <3>5. /\ c.pc[by] # "idle" /\ "gone" \in Steps \ {"idle"}
              /\ ("gone" \in Inside <=> c.pc[by] \in Inside)
            BY <3>1 DEF Steps, Inside
        <3> QED BY <1>1, <3>1, <3>4, <3>5, StepKeeps
    <2>5. PICK f : f = IF by = 0 THEN c ELSE d
        OBVIOUS
    <2>6. Pool(f)
        BY <1>1, <2>4, <2>5
    <2>7. Refused(c, e) = failRun(f)
        BY <1>5, <2>1, <2>3, <2>5 DEF Refused
    <2> QED BY <2>6, <2>7, FailRunKeeps
<1>6. CASE e.kind \in SlotKinds \ {"Queued"}
    <2>1. Pool(SlotThrows(c, e.item))
        BY <1>2, <1>6, SlotThrowsKeeps
    <2> QED BY <1>6, <2>1 DEF Refused, SlotKinds
<1> QED BY <1>1, <1>3, <1>4, <1>5, <1>6 DEF EventKinds, SlotKinds

\* runBatch begins with an empty pool.
LEMMA BeginKeeps ==
    ASSUME NEW slots \in [Items -> Slot], NEW starts \in Nat
    PROVE  Pool(Begin(slots, starts))
<1>1. PICK d : d = Begin(slots, starts)
    OBVIOUS
<1>2. PICK s \in Slot : s = newItemSlot
    <2>1. newItemSlot \in Slot
        BY Bounds DEF newItemSlot, Slot, Statuses
    <2> QED BY <2>1
<1>3. PICK e : e = Event("BatchStarted", 0, s, 0)
    OBVIOUS
<1>4. e \in Events /\ e.kind = "BatchStarted"
    BY <1>3, EventIs, Bounds DEF EventKinds
<1>5. PICK cap \in 1..Ceiling : cap = Least(Initial, N)
    BY Bounds DEF Least
<1>6. PICK q \in Seq(Events) : q = <<e>>
    <2>1. <<e>> \in Seq(Events)
        BY <1>4
    <2> QED BY <2>1
<1>7. d = [phase |-> "starting", slot |-> slots, pc |-> [i \in Items |-> "idle"],
           active |-> 0, completed |-> 0, capacity |-> cap, next |-> 1,
           closed |-> FALSE, abort |-> "no", fatal |-> FALSE, ramp |-> FALSE,
           executed |-> 0, prior |-> starts, queue |-> q]
    BY <1>1, <1>2, <1>3, <1>5, <1>6 DEF Begin
<1>8. d \in Closure
    BY <1>7, Bounds DEF Closure, Phases, Steps
<1>9. d.active = 0 /\ d.queue = q /\ \A i \in Items : d.pc[i] = "idle"
    BY <1>7
<1>10. Seated(d) = {} /\ Cardinality({}) = 0
    BY <1>9, FS_EmptySet DEF Seated
<1>11. DOMAIN q = {1} /\ q[1] = e
    BY <1>6
<1>12. Owner(e) = 0 /\ Awaited(d, e)
    BY <1>4 DEF Owner, Awaited
<1>13. Pool(d)
    BY <1>8, <1>9, <1>10, <1>11, <1>12, Bounds DEF Pool
<1> QED BY <1>1, <1>13

\* The count of a pool is within its items.
LEMMA PoolIs ==
    ASSUME NEW c, Pool(c)
    PROVE  c \in Closure /\ c.active \in 0..N
<1>1. PICK a \in Nat : a = Cardinality(Seated(c)) /\ a <= N
    BY SeatedFinite
<1>2. c \in Closure /\ c.active = a
    BY <1>1 DEF Pool
<1> QED BY <1>1, <1>2, Bounds

\* The empty pool of the first execution.
LEMMA PoolInit == BatchInit => PoolInv
<1> SUFFICES ASSUME BatchInit PROVE PoolInv
    OBVIOUS
<1>1. newItemSlot \in Slot
    BY Bounds DEF newItemSlot, Slot, Statuses
<1>2. projected \in [Items -> Slot] /\ projected = [i \in Items |-> newItemSlot]
    BY <1>1 DEF BatchInit
<1>3. Pool(Begin(projected, 0))
    BY <1>2, BeginKeeps
<1>4. Pool(m)
    BY <1>3 DEF BatchInit
<1>5. policy \in PolicyKinds /\ started = {} /\ exec = 1 /\ faults = 0
    BY BatchAssumption DEF BatchInit
<1>6. IsFiniteSet(started)
    BY <1>5, FS_EmptySet
<1> QED BY <1>2, <1>4, <1>5, <1>6, PoolIs, Bounds DEF PoolInv, BatchTypeOK

\* A step that leaves the journal alone keeps the invariant with the pool.
LEMMA KeepsInv ==
    ASSUME PoolInv, Pool(m'), UNCHANGED <<policy, projected, started, exec, faults>>
    PROVE  PoolInv'
<1>1. m' \in Closure /\ m'.active \in 0..N
    BY PoolIs
<1> QED BY <1>1 DEF PoolInv, BatchTypeOK, Pool, Closure, Seated, Awaited

\* The bookkeeping of the journal stays in its bounds when e is appended.
LEMMA AppendTypes ==
    ASSUME PoolInv, NEW c, NEW e, Due(c, e), Append_(e)
    PROVE  /\ projected' \in [Items -> Slot] /\ IsFiniteSet(started')
           /\ started' \subseteq [item : Items, attempt : 1..MaxAttempts, exec : 1..(MaxCrashes + 1)]
<1>1. /\ projected \in [Items -> Slot] /\ IsFiniteSet(started) /\ exec \in 1..(MaxCrashes + 1)
      /\ started \subseteq [item : Items, attempt : 1..MaxAttempts, exec : 1..(MaxCrashes + 1)]
    BY DEF PoolInv, BatchTypeOK
<1>2. /\ e.item \in 0..N /\ e.attempt \in 0..MaxAttempts /\ e.status \in Statuses /\ e.auth \in BOOLEAN
    BY DEF Due, Events
<1>3. projected' \in [Items -> Slot]
    <2>1. CASE e.item = 0 \/ e.kind = "Capacity"
        BY <1>1, <2>1 DEF Append_, Project
    <2>2. CASE ~(e.item = 0 \/ e.kind = "Capacity")
        <3>1. PICK i \in Items : i = e.item
            BY <1>2, <2>2, Bounds DEF Items
        <3>2. PICK p \in Slot : p = projected[i]
            BY <1>1
        <3>3. PICK status \in Statuses :
                  status = IF e.kind \in {"Queued", "Requeued"} THEN "queued"
                           ELSE IF e.kind = "Started" THEN "running" ELSE e.status
            BY <1>2 DEF Statuses
        <3>4. PICK n \in 0..MaxAttempts : n = AtLeast(p.attempts, e.attempt)
            <4>1. p.attempts \in 0..MaxAttempts
                BY DEF Slot
            <4> QED BY <1>2, <4>1 DEF AtLeast
        <3>5. PICK auth \in BOOLEAN : auth = IF e.kind \in TerminalKinds THEN e.auth ELSE p.auth
            BY <1>2 DEF Slot
        <3>6. PICK s \in Slot : s = [status |-> status, attempts |-> n, auth |-> auth]
            <4>1. [status |-> status, attempts |-> n, auth |-> auth] \in Slot
                BY DEF Slot
            <4> QED BY <4>1
        <3>7. projected' = [projected EXCEPT ![i] = s]
            BY <2>2, <3>1, <3>2, <3>3, <3>4, <3>5, <3>6 DEF Append_, Project
        <3> QED BY <1>1, <3>7
    <2> QED BY <2>1, <2>2
<1>4. CASE e.kind # "Started"
    BY <1>1, <1>3, <1>4 DEF Append_
<1>5. CASE e.kind = "Started"
    <2>1. Runs(c, e.item) /\ e.attempt # 0
        BY <1>5 DEF Due, SlotKinds
    <2>2. e.item \in Items /\ e.attempt \in 1..MaxAttempts
        BY <1>2, <2>1, Bounds DEF Runs
    <2>3. PICK s \in [item : Items, attempt : 1..MaxAttempts, exec : 1..(MaxCrashes + 1)] :
              s = [item |-> e.item, attempt |-> e.attempt, exec |-> exec]
        BY <1>1, <2>2
    <2>4. started' = started \union {s}
        BY <1>5, <2>3 DEF Append_
    <2>5. IsFiniteSet(started')
        BY <1>1, <2>4, FS_AddElement
    <2> QED BY <1>1, <1>3, <2>4, <2>5
<1> QED BY <1>4, <1>5

\* The head of the queue is appended.
LEMMA RecordInv == PoolInv /\ Record => PoolInv'
<1> SUFFICES ASSUME PoolInv, Record PROVE PoolInv'
    OBVIOUS
<1>1. PICK c : c = Popped
    OBVIOUS
<1>2. PICK e : e = Head(m.queue)
    OBVIOUS
<1>3. Due(c, e)
    <2>1. Pool(m) /\ m.queue # <<>> /\ c = [m EXCEPT !.queue = Tail(@)]
        BY <1>1 DEF PoolInv, Record, Popped
    <2> QED BY <1>2, <2>1, HeadIsDue
<1>4. Append_(e) /\ m' = Continue(c, e) /\ UNCHANGED <<policy, exec, faults>>
    BY <1>1, <1>2 DEF Record, Becomes
<1>5. PICK d : d = Continue(c, e)
    OBVIOUS
<1>6. Pool(d) /\ m' = d
    BY <1>3, <1>4, <1>5, ContinueKeeps
<1>7. Pool(m')
    BY <1>6
<1>8. /\ projected' \in [Items -> Slot] /\ IsFiniteSet(started')
      /\ started' \subseteq [item : Items, attempt : 1..MaxAttempts, exec : 1..(MaxCrashes + 1)]
    BY <1>3, <1>4, AppendTypes
<1>9. m' \in Closure /\ m'.active \in 0..N
    BY <1>7, PoolIs
<1>10. BatchTypeOK'
    BY <1>4, <1>8, <1>9 DEF PoolInv, BatchTypeOK
<1> QED BY <1>7, <1>8, <1>10 DEF PoolInv, Pool, Seated, Awaited

\* The journal refuses the head of the queue.
LEMMA RefuseInv == PoolInv /\ Refuse => PoolInv'
<1> SUFFICES ASSUME PoolInv, Refuse PROVE PoolInv'
    OBVIOUS
<1>1. PICK c : c = Popped
    OBVIOUS
<1>2. PICK e : e = Head(m.queue)
    OBVIOUS
<1>3. Due(c, e)
    <2>1. Pool(m) /\ m.queue # <<>> /\ c = [m EXCEPT !.queue = Tail(@)]
        BY <1>1 DEF PoolInv, Refuse, Popped
    <2> QED BY <1>2, <2>1, HeadIsDue
<1>4. m' = Refused(c, e) /\ UNCHANGED <<policy, projected, started, exec>>
    BY <1>1, <1>2 DEF Refuse, Becomes
<1>5. faults' \in 0..MaxFaults
    BY Bounds DEF Refuse, PoolInv, BatchTypeOK
<1>6. PICK d : d = Refused(c, e)
    OBVIOUS
<1>7. Pool(d) /\ m' = d
    BY <1>3, <1>4, <1>6, RefusedKeeps
<1>8. Pool(m')
    BY <1>7
<1>9. m' \in Closure /\ m'.active \in 0..N
    BY <1>8, PoolIs
<1>10. BatchTypeOK'
    BY <1>4, <1>5, <1>9 DEF PoolInv, BatchTypeOK
<1> QED BY <1>4, <1>8, <1>10 DEF PoolInv, Pool, Seated, Awaited

\* executeItem of a running item ends.
LEMMA EndKeeps ==
    ASSUME NEW c, Pool(c), NEW i \in Items, c.pc[i] = "exec", NEW end \in TerminalEnd
    PROVE  LET d == [c EXCEPT !.slot[i] = [@ EXCEPT !.status = end.status, !.auth = end.auth],
                              !.pc[i] = "end"]
           IN  Pool(Emit(d, [Event("Terminal", i, d.slot[i], i) EXCEPT !.retry = end.retry]))
<1>1. Runs(c, i)
    <2>1. Free(c, i)
        BY NonePending
    <2> QED BY <2>1 DEF Runs, Inside, Steps
<1>2. /\ end.status \in Statuses /\ end.auth \in BOOLEAN /\ end.retry \in {"none", "retry", "limit"}
    BY DEF TerminalEnd, Statuses, ItemTerminal
<1>3. PICK t \in Slot : t = [c.slot[i] EXCEPT !.status = end.status, !.auth = end.auth]
    <2>1. PICK u \in Slot : u = c.slot[i]
        BY <1>1, SlotIs
    <2>2. [u EXCEPT !.status = end.status, !.auth = end.auth] \in Slot
        BY <1>2 DEF Slot
    <2> QED BY <2>1, <2>2
<1>4. PICK n \in Nat : n = c.executed
    BY <1>1, SlotIs
<1>5. PICK s \in Inside : s = "end"
    BY DEF Inside, Steps
<1>6. PICK d : Turns(c, d, i, t, n, s)
    BY DEF Turns
<1>7. Runs(d, i) /\ d.pc[i] = s /\ d.slot[i] = t
    BY ONLY <1>1, <1>3, <1>4, <1>5, <1>6, SlotTurns
<1>8. d = [c EXCEPT !.slot[i] = [@ EXCEPT !.status = end.status, !.auth = end.auth],
                    !.pc[i] = "end"]
    BY <1>1, <1>3, <1>4, <1>5, <1>6, SlotIs DEF Turns, Closure
<1>9. PICK e : e = [Event("Terminal", i, t, i) EXCEPT !.retry = end.retry]
    OBVIOUS
<1>10. Pool(Emit(d, e))
    <2>1. PICK kind \in SlotKinds : kind = "Terminal"
        BY DEF SlotKinds
    <2>2. d.pc[i] = Waits[kind] /\ (kind = "Started" => t.attempts # 0)
        BY <1>5, <1>7, <2>1 DEF Waits
    <2>3. Tells(e, kind, i, t)
        BY <1>2, <1>9, <2>1, EventTells, RetryTells
    <2>4. Runs(d, i) /\ t \in Slot
        BY <1>7
    <2> QED BY ONLY <2>1, <2>2, <2>3, <2>4, Announces
<1>11. e = [Event("Terminal", i, d.slot[i], i) EXCEPT !.retry = end.retry]
    BY <1>7, <1>9
<1> QED BY <1>8, <1>10, <1>11, Zenon

\* An item ends, by itself or by an abort.
LEMMA EndInv ==
    ASSUME PoolInv, NEW i \in Items, m.pc[i] = "exec", NEW end \in TerminalEnd, EndItem(i, end),
           UNCHANGED <<policy, projected, terminals, started, ended, exec, faults>>
    PROVE  PoolInv'
<1>1. Pool(m)
    BY DEF PoolInv
<1>2. PICK d : d = [m EXCEPT !.slot[i] = [@ EXCEPT !.status = end.status, !.auth = end.auth],
                             !.pc[i] = "end"]
    OBVIOUS
<1>3. PICK f : f = Emit(d, [Event("Terminal", i, d.slot[i], i) EXCEPT !.retry = end.retry])
    OBVIOUS
<1>4. Pool(f)
    BY <1>1, <1>2, <1>3, EndKeeps, Zenon
<1>5. m' = f
    BY <1>2, <1>3 DEF EndItem, Becomes
<1>6. Pool(m')
    BY <1>4, <1>5
<1> QED BY <1>6, KeepsInv

\* executeItem of a running item ends.
LEMMA FinishInv == \A i \in Items : PoolInv /\ FinishItem(i) => PoolInv'
<1> SUFFICES ASSUME NEW i \in Items, PoolInv, FinishItem(i) PROVE PoolInv'
    OBVIOUS
<1>1. PICK end \in ItemEnds : EndItem(i, end)
    BY DEF FinishItem
<1>2. end \in TerminalEnd
    BY BatchAssumption
<1>3. m.pc[i] = "exec" /\ UNCHANGED <<policy, projected, terminals, started, ended, exec, faults>>
    BY DEF FinishItem
<1> QED BY <1>1, <1>2, <1>3, EndInv

\* executeItem is interrupted by an abort.
LEMMA InterruptInv == \A i \in Items : PoolInv /\ Interrupt(i) => PoolInv'
<1> SUFFICES ASSUME NEW i \in Items, PoolInv, Interrupt(i) PROVE PoolInv'
    OBVIOUS
<1>1. [status |-> "cancelled", auth |-> FALSE, retry |-> "none"] \in TerminalEnd
    BY DEF TerminalEnd
<1>2. PICK end \in TerminalEnd : end = [status |-> "cancelled", auth |-> FALSE, retry |-> "none"]
    BY <1>1
<1>3. EndItem(i, end)
    BY <1>2 DEF Interrupt
<1>4. m.pc[i] = "exec" /\ UNCHANGED <<policy, projected, terminals, started, ended, exec, faults>>
    BY DEF Interrupt
<1> QED BY <1>3, <1>4, EndInv

\* The delay before a retry is over.
LEMMA WakeInv == \A i \in Items : PoolInv /\ Wake(i) => PoolInv'
<1> SUFFICES ASSUME NEW i \in Items, PoolInv, Wake(i) PROVE PoolInv'
    OBVIOUS
<1>1. Pool(m) /\ m.pc[i] = "sleep"
    BY DEF PoolInv, Wake
<1>2. Runs(m, i)
    <2>1. Free(m, i)
        BY <1>1, NonePending
    <2> QED BY <1>1, <2>1 DEF Runs, Inside, Steps
<1>3. PICK d : d = RunSlot(m, i)
    OBVIOUS
<1>4. Pool(d)
    BY <1>2, <1>3, RunSlotKeeps
<1>5. m' = d /\ UNCHANGED <<policy, projected, started, exec, faults>>
    BY <1>3 DEF Wake, Becomes
<1>6. Pool(m')
    BY <1>4, <1>5
<1> QED BY <1>5, <1>6, KeepsInv

\* The ramp raises the capacity, up to the limit.
LEMMA RampInv == PoolInv /\ RampFires => PoolInv'
<1> SUFFICES ASSUME PoolInv, RampFires PROVE PoolInv'
    OBVIOUS
<1>1. Pool(m)
    BY DEF PoolInv
<1>2. PICK cap \in 1..Ceiling :
          cap = IF m.closed THEN m.capacity ELSE Least(Ceiling, Least(m.capacity + 1, N))
    <2>1. PICK k \in 1..Ceiling : k = m.capacity
        BY <1>1 DEF Pool, Closure
    <2>2. Least(Ceiling, Least(k + 1, N)) \in 1..Ceiling
        BY Bounds DEF Least
    <2> QED BY <2>1, <2>2
<1>3. PICK c : c = [m EXCEPT !.ramp = FALSE, !.capacity = cap]
    OBVIOUS
<1>4. c = [m EXCEPT !.ramp = FALSE,
                    !.capacity = IF m.closed THEN @ ELSE Least(Ceiling, Least(@ + 1, N))]
    BY <1>1, <1>2, <1>3 DEF Pool, Closure
<1>5. SameSeats(m, c)
    BY <1>1, <1>3 DEF Pool, Closure, SameSeats
<1>6. PICK d : d = pump(c)
    OBVIOUS
<1>7. PICK f : f = scheduleRamp(d)
    OBVIOUS
<1>8. Pool(f)
    <2>1. Pool(c)
        BY <1>1, <1>5, SeatsKeep
    <2>2. Pool(d)
        BY <1>6, <2>1, PumpKeeps
    <2> QED BY <1>7, <2>2, RampKeeps
<1>9. m' = f /\ UNCHANGED <<policy, projected, started, exec, faults>>
    BY <1>4, <1>6, <1>7 DEF RampFires, Becomes
<1>10. Pool(m')
    BY <1>8, <1>9
<1> QED BY <1>9, <1>10, KeepsInv

\* The signal of the caller, or the deadline.
LEMMA AbortInv == \A reason \in {"cancel", "deadline"} : PoolInv /\ Abort(reason) => PoolInv'
<1> SUFFICES ASSUME NEW reason \in {"cancel", "deadline"}, PoolInv, Abort(reason) PROVE PoolInv'
    OBVIOUS
<1>1. Pool(m)
    BY DEF PoolInv
<1>2. PICK c : c = [m EXCEPT !.abort = reason]
    OBVIOUS
<1>3. SameSeats(m, c)
    BY <1>1, <1>2 DEF Pool, Closure, SameSeats
<1>4. Pool(c) /\ Pool(abortAdmission(c))
    BY <1>1, <1>3, SeatsKeep, AbortKeeps
<1>5. PICK d : d = IF m.phase = "starting" \/ Aborted(m) THEN c ELSE abortAdmission(c)
    OBVIOUS
<1>6. m' = d /\ UNCHANGED <<policy, projected, started, exec, faults>>
    BY <1>2, <1>5 DEF Abort, Becomes
<1>7. Pool(m')
    BY <1>4, <1>5, <1>6
<1> QED BY <1>6, <1>7, KeepsInv

\* The process dies, and the slots that the journal knows are prepared.
LEMMA CrashInv == PoolInv /\ Crash => PoolInv'
<1> SUFFICES ASSUME PoolInv, Crash PROVE PoolInv'
    OBVIOUS
<1>1. PICK c : c = Begin(projected, 0)
    OBVIOUS
<1>2. Pool(c)
    <2>1. projected \in [Items -> Slot]
        BY DEF PoolInv, BatchTypeOK
    <2> QED BY <1>1, <2>1, BeginKeeps
<1>3. PICK d : d = [c EXCEPT !.phase = "down"]
    OBVIOUS
<1>4. SameSeats(c, d)
    BY <1>2, <1>3 DEF Pool, Closure, SameSeats, Phases
<1>5. m' = d /\ UNCHANGED <<policy, projected, started, exec, faults>>
    BY <1>1, <1>3 DEF Crash
<1>6. Pool(m')
    BY <1>2, <1>4, <1>5, SeatsKeep
<1> QED BY <1>5, <1>6, KeepsInv

\* The batch is run again.
LEMMA ResumeInv == PoolInv /\ Resume => PoolInv'
<1> SUFFICES ASSUME PoolInv, Resume PROVE PoolInv'
    OBVIOUS
<1>1. PriorUsage \in Nat
    BY FS_CardinalityType DEF PoolInv, PriorUsage
<1>2. PICK c : c = Begin(projected, PriorUsage)
    OBVIOUS
<1>3. Pool(c)
    <2>1. projected \in [Items -> Slot]
        BY DEF PoolInv, BatchTypeOK
    <2> QED BY <1>1, <1>2, <2>1, BeginKeeps
<1>4. m' = c /\ UNCHANGED <<policy, projected, started, faults>>
    BY <1>2 DEF Resume
<1>5. exec' \in 1..(MaxCrashes + 1)
    BY Bounds DEF Resume, PoolInv, BatchTypeOK
<1>6. Pool(m')
    BY <1>3, <1>4
<1>7. m' \in Closure /\ m'.active \in 0..N
    BY <1>6, PoolIs
<1>8. BatchTypeOK'
    BY <1>4, <1>5, <1>7 DEF PoolInv, BatchTypeOK
<1> QED BY <1>4, <1>6, <1>8 DEF PoolInv, Pool, Seated, Awaited

\* Every step of the batch keeps the invariant.
LEMMA PoolNext == PoolInv /\ [BatchNext]_batchVars => PoolInv'
<1> SUFFICES ASSUME PoolInv, [BatchNext]_batchVars PROVE PoolInv'
    OBVIOUS
<1>1. CASE Record
    BY <1>1, RecordInv
<1>2. CASE Refuse
    BY <1>2, RefuseInv
<1>3. CASE RampFires
    BY <1>3, RampInv
<1>4. CASE Cancel \/ Deadline
    BY <1>4, AbortInv DEF Cancel, Deadline
<1>5. CASE Crash
    BY <1>5, CrashInv
<1>6. CASE Resume
    BY <1>6, ResumeInv
<1>7. CASE \E i \in Items : FinishItem(i) \/ Interrupt(i) \/ Wake(i)
    BY <1>7, FinishInv, InterruptInv, WakeInv
<1>8. CASE UNCHANGED batchVars
    <2>1. Pool(m) /\ m' = m /\ UNCHANGED <<policy, projected, started, exec, faults>>
        BY <1>8 DEF batchVars, PoolInv
    <2>2. Pool(m')
        BY <2>1
    <2> QED BY <2>1, <2>2, KeepsInv
<1> QED BY <1>1, <1>2, <1>3, <1>4, <1>5, <1>6, <1>7, <1>8 DEF BatchNext

\* The invariant of the pool.
THEOREM PoolSafe == BatchSpec => []PoolInv
<1>1. BatchInit => PoolInv
    BY PoolInit
<1>2. PoolInv /\ [BatchNext]_batchVars => PoolInv'
    BY PoolNext
<1> QED BY <1>1, <1>2, PTL DEF BatchSpec

\* The types.
THEOREM BatchTyped == BatchSpec => []BatchTypeOK
<1>1. PoolInv => BatchTypeOK
    BY DEF PoolInv
<1> QED BY <1>1, PoolSafe, PTL

\* The pool.
THEOREM PoolWithin == BatchSpec => []PoolHolds
<1>1. PoolInv => PoolHolds
    <2> SUFFICES ASSUME PoolInv PROVE PoolHolds
        OBVIOUS
    <2>1. Executing \subseteq Seated(m)
        BY DEF Executing, Seated
    <2>2. PICK s \in Nat : s = Cardinality(Seated(m)) /\ IsFiniteSet(Seated(m))
        BY SeatedFinite
    <2>3. PICK x \in Nat : x = Cardinality(Executing) /\ x <= s
        BY <2>1, <2>2, FS_Subset, FS_CardinalityType
    <2>4. m.active = s /\ s <= Ceiling
        BY <2>2 DEF PoolInv, Pool
    <2> QED BY <2>2, <2>3, <2>4, Bounds DEF PoolHolds
<1> QED BY <1>1, PoolSafe, PTL

-----------------------------------------------------------------------------
(* BatchSwarm: the closure and the journal.                                *)

\* The functions of the closure that take no step of runSlot are calm: they
\* admit slots, close waiting ones and end the batch, and nothing else.
CalmSlot(c, d, i) ==
    /\ d.slot[i].attempts = c.slot[i].attempts
    /\ \/ d.slot[i] = c.slot[i]
       \/ /\ c.slot[i].status = "queued" /\ d.slot[i].status \in {"cancelled", "skipped"}
          /\ (d.slot[i].auth => c.slot[i].auth) /\ d.closed
    /\ \/ d.pc[i] = c.pc[i]
       \/ c.pc[i] = "idle" /\ d.pc[i] = "queued" /\ c.slot[i].status # "succeeded"
       \/ c.pc[i] = "close" /\ d.pc[i] = "gone"

\* An event that they emit.
Fresh(c, d, e) ==
    \/ e.kind = "Queued" /\ e.item \in Items /\ e.attempt = c.slot[e.item].attempts
    \/ /\ e.kind = "Closed" /\ e.item \in Items /\ e.attempt = c.slot[e.item].attempts
       /\ c.slot[e.item].status = "queued" /\ d.slot[e.item].status # "queued"
       /\ e.auth /\ e.status \in {"cancelled", "skipped"} /\ d.closed
    \/ e.kind = "BatchSettled" /\ e.item = 0 /\ c.phase = "running" /\ d.phase = "settling"

CalmQueue(c, d) ==
    /\ DOMAIN c.queue \subseteq DOMAIN d.queue
    /\ \A k \in DOMAIN c.queue : d.queue[k] = c.queue[k]
    /\ \A k \in DOMAIN d.queue \ DOMAIN c.queue : Fresh(c, d, d.queue[k])
    /\ \A k \in DOMAIN c.queue, l \in DOMAIN d.queue \ DOMAIN c.queue : k < l
    /\ \A k, l \in DOMAIN d.queue \ DOMAIN c.queue :
          d.queue[k].kind = "BatchSettled" /\ d.queue[l].kind = "BatchSettled" => k = l

CalmFlags(c, d) ==
    /\ c.closed => d.closed
    /\ Aborted(c) => Aborted(d)
    /\ c.fatal => d.fatal
    /\ d.closed => c.closed \/ Aborted(d)
    /\ d.fatal => c.fatal \/ (Aborted(d) /\ d.closed)
    /\ d.phase = c.phase \/ (c.phase = "running" /\ d.phase \in {"threw", "settling"})

CalmCounts(c, d) ==
    /\ d.executed = c.executed /\ d.prior = c.prior
    /\ (c.phase # "running" => c.active = 0) => (d.phase # "running" => d.active = 0)

Calm(c, d) ==
    /\ \A i \in Items : CalmSlot(c, d, i)
    /\ CalmQueue(c, d) /\ CalmFlags(c, d) /\ CalmCounts(c, d)

\* A batch settles only when its pool has drained.
Settles(c, d) ==
    d.phase = "settling" /\ c.phase # "settling" => d.active = 0 /\ ~d.fatal

\* Doing nothing is calm.
LEMMA CalmRefl ==
    ASSUME NEW c
    PROVE  Calm(c, c) /\ Settles(c, c)
BY DEF Calm, CalmSlot, CalmQueue, CalmFlags, CalmCounts, Settles

\* Two slots in a row.
LEMMA CalmSlots ==
    ASSUME NEW b, NEW c, NEW d, NEW i \in Items, CalmSlot(b, c, i), CalmSlot(c, d, i),
           c.closed => d.closed
    PROVE  CalmSlot(b, d, i)
BY DEF CalmSlot

\* What is fresh stays fresh.
LEMMA FreshStays ==
    ASSUME NEW b, NEW c, NEW d, NEW e, \A i \in Items : CalmSlot(b, c, i) /\ CalmSlot(c, d, i),
           CalmFlags(b, c), CalmFlags(c, d)
    PROVE  /\ Fresh(b, c, e) => Fresh(b, d, e)
           /\ Fresh(c, d, e) => Fresh(b, d, e)
<1>1. CASE e.kind = "Queued"
    BY <1>1 DEF Fresh, CalmSlot
<1>2. CASE e.kind = "Closed"
    <2>1. ASSUME e.item \in Items
          PROVE  /\ c.slot[e.item].attempts = b.slot[e.item].attempts
                 /\ c.slot[e.item].status = "queued" => b.slot[e.item].status = "queued"
                 /\ c.slot[e.item].status # "queued" => d.slot[e.item].status # "queued"
        <3>1. PICK i \in Items : i = e.item
            BY <2>1
        <3>2. CalmSlot(b, c, i) /\ CalmSlot(c, d, i)
            OBVIOUS
        <3> QED BY <3>1, <3>2 DEF CalmSlot
    <2> QED BY <1>2, <2>1 DEF Fresh, CalmFlags
<1>3. CASE e.kind \notin {"Queued", "Closed"}
    BY <1>3 DEF Fresh, CalmFlags
<1> QED BY <1>1, <1>2, <1>3

\* One calm step after the other is calm.
LEMMA CalmTrans ==
    ASSUME NEW b, NEW c, NEW d, Calm(b, c), Calm(c, d)
    PROVE  Calm(b, d)
<1>1. \A i \in Items : CalmSlot(b, c, i) /\ CalmSlot(c, d, i)
    BY DEF Calm
<1>2. CalmFlags(b, c) /\ CalmFlags(c, d) /\ CalmCounts(b, c) /\ CalmCounts(c, d)
    BY DEF Calm
<1>3. c.closed => d.closed
    BY <1>2 DEF CalmFlags
<1>4. \A i \in Items : CalmSlot(b, d, i)
    BY <1>1, <1>3, CalmSlots
<1>5. CalmQueue(b, d)
    <2>1. CalmQueue(b, c) /\ CalmQueue(c, d)
        BY DEF Calm
    <2>2. \A e : (Fresh(b, c, e) => Fresh(b, d, e)) /\ (Fresh(c, d, e) => Fresh(b, d, e))
        BY <1>1, <1>2, FreshStays
    <2>3. /\ DOMAIN b.queue \subseteq DOMAIN d.queue
          /\ \A k \in DOMAIN b.queue : d.queue[k] = b.queue[k]
          /\ \A k \in DOMAIN d.queue \ DOMAIN b.queue : Fresh(b, d, d.queue[k])
        BY <2>1, <2>2 DEF CalmQueue
    <2>4. \A k \in DOMAIN b.queue, l \in DOMAIN d.queue \ DOMAIN b.queue : k < l
        BY <2>1 DEF CalmQueue
    <2>5. ASSUME NEW k \in DOMAIN d.queue \ DOMAIN b.queue, NEW l \in DOMAIN d.queue \ DOMAIN b.queue,
                 d.queue[k].kind = "BatchSettled", d.queue[l].kind = "BatchSettled"
          PROVE  k = l
        <3>1. ASSUME NEW e, Fresh(b, c, e), NEW f, Fresh(c, d, f)
              PROVE  ~(e.kind = "BatchSettled" /\ f.kind = "BatchSettled")
            BY <3>1 DEF Fresh
        <3>2. CASE k \in DOMAIN c.queue /\ l \in DOMAIN c.queue
            BY <2>1, <2>5, <3>2 DEF CalmQueue
        <3>3. CASE k \notin DOMAIN c.queue /\ l \notin DOMAIN c.queue
            BY <2>1, <2>5, <3>3 DEF CalmQueue
        <3>4. CASE k \in DOMAIN c.queue /\ l \notin DOMAIN c.queue
            BY <2>1, <2>5, <3>1, <3>4 DEF CalmQueue
        <3>5. CASE k \notin DOMAIN c.queue /\ l \in DOMAIN c.queue
            BY <2>1, <2>5, <3>1, <3>5 DEF CalmQueue
        <3> QED BY <3>2, <3>3, <3>4, <3>5
    <2> QED BY <2>3, <2>4, <2>5 DEF CalmQueue
<1>6. CalmFlags(b, d)
    BY <1>2 DEF CalmFlags, Aborted
<1>7. CalmCounts(b, d)
    BY <1>2 DEF CalmCounts, CalmFlags
<1> QED BY <1>4, <1>5, <1>6, <1>7 DEF Calm

\* Settling after a step that keeps the phase is settling.
LEMMA SettlesTrans ==
    ASSUME NEW b, NEW c, NEW d, Settles(c, d), c.phase = b.phase
    PROVE  Settles(b, d)
BY DEF Settles

\* The next step is calm if it changes flags only.
LEMMA CalmFields ==
    ASSUME NEW c, NEW d, d.slot = c.slot, d.pc = c.pc, d.queue = c.queue, d.next = c.next,
           d.active = c.active, d.completed = c.completed, d.executed = c.executed,
           d.prior = c.prior, CalmFlags(c, d),
           d.phase = c.phase \/ d.active = 0
    PROVE  Calm(c, d)
<1>1. \A i \in Items : CalmSlot(c, d, i)
    BY DEF CalmSlot
<1>2. CalmQueue(c, d)
    BY DEF CalmQueue
<1>3. CalmCounts(c, d)
    BY DEF CalmCounts
<1> QED BY <1>1, <1>2, <1>3 DEF Calm

\* Emitting what is fresh is calm.
LEMMA CalmEmit ==
    ASSUME NEW c, NEW d, Calm(c, d), NEW q \in Seq(Events), d.queue = q, NEW e \in Events,
           Fresh(c, d, e), e.kind = "BatchSettled" => d.queue = c.queue, NEW f, f = Emit(d, e), d \in Closure,
           NEW r \in Seq(Events), c.queue = r
    PROVE  Calm(c, f) /\ f.phase = d.phase /\ f.active = d.active /\ f.fatal = d.fatal
<1>1. PICK w \in Seq(Events) : w = Append(q, e)
    <2>1. Append(q, e) \in Seq(Events)
        OBVIOUS
    <2> QED BY <2>1
<1>2. f = [d EXCEPT !.queue = w]
    BY <1>1 DEF Emit
<1>3. /\ f.slot = d.slot /\ f.pc = d.pc /\ f.next = d.next /\ f.active = d.active
      /\ f.completed = d.completed /\ f.executed = d.executed /\ f.prior = d.prior
      /\ f.closed = d.closed /\ f.abort = d.abort /\ f.fatal = d.fatal /\ f.phase = d.phase
      /\ f.queue = w
    BY <1>2 DEF Closure
<1>4. \A i \in Items : CalmSlot(c, f, i)
    BY <1>3 DEF Calm, CalmSlot
<1>5. /\ Len(q) \in Nat /\ DOMAIN q = 1..Len(q) /\ DOMAIN w = 1..(Len(q) + 1)
      /\ w[Len(q) + 1] = e /\ \A k \in DOMAIN q : w[k] = q[k]
    BY <1>1
<1>6. \A g : Fresh(c, d, g) => Fresh(c, f, g)
    BY <1>3 DEF Fresh
<1>7. CalmQueue(c, f)
    <2>1. CalmQueue(c, d) /\ d.queue = q /\ f.queue = w /\ c.queue = r
        BY <1>3 DEF Calm
    <2>2. DOMAIN w = DOMAIN q \union {Len(q) + 1} /\ Len(q) + 1 \notin DOMAIN q
        BY <1>5
    <2>3. DOMAIN r \subseteq DOMAIN w /\ \A k \in DOMAIN r : w[k] = r[k]
        BY <1>5, <2>1, <2>2 DEF CalmQueue
    <2>4. \A k \in DOMAIN w \ DOMAIN r : Fresh(c, f, w[k])
        BY <1>5, <1>6, <2>1, <2>2 DEF CalmQueue
    <2>5. \A k \in DOMAIN r, l \in DOMAIN w \ DOMAIN r : k < l
        <3>1. \A k \in DOMAIN r : k \in Nat /\ k \in DOMAIN q /\ k <= Len(q)
            BY <1>5, <2>1 DEF CalmQueue
        <3> QED BY <1>5, <2>1, <2>2, <3>1 DEF CalmQueue
    <2>6. \A k, l \in DOMAIN w \ DOMAIN r :
              w[k].kind = "BatchSettled" /\ w[l].kind = "BatchSettled" => k = l
        <3>1. \A k, l \in DOMAIN q \ DOMAIN r :
                  w[k].kind = "BatchSettled" /\ w[l].kind = "BatchSettled" => k = l
            BY <1>5, <2>1 DEF CalmQueue
        <3>2. w[Len(q) + 1].kind = "BatchSettled" => DOMAIN q \ DOMAIN r = {}
            BY <1>5, <2>1
        <3> QED BY <2>2, <3>1, <3>2
    <2> QED BY <2>1, <2>3, <2>4, <2>5, <2>6 DEF CalmQueue
<1>8. CalmFlags(c, f) /\ CalmCounts(c, f)
    BY <1>3 DEF Calm, CalmFlags, CalmCounts, Aborted
<1> QED BY <1>3, <1>4, <1>7, <1>8 DEF Calm

\* The batch settles, or throws its failure.
LEMMA MaybeCompleteCalm ==
    ASSUME NEW c, Pool(c)
    PROVE  Calm(c, maybeComplete(c)) /\ Settles(c, maybeComplete(c))
<1>1. PICK q \in Seq(Events) : q = c.queue
    BY DEF Pool, Closure
<1>2. ASSUME NEW s \in {"threw", "settling"}, c.phase = "running", c.active = 0,
             NEW d, d = [c EXCEPT !.phase = s]
      PROVE  /\ d \in Closure /\ Calm(c, d) /\ d.queue = q /\ d.phase = s
             /\ d.active = 0 /\ d.fatal = c.fatal
    <2>1. /\ d \in Closure /\ d.slot = c.slot /\ d.pc = c.pc /\ d.queue = c.queue /\ d.next = c.next
          /\ d.active = c.active /\ d.completed = c.completed /\ d.executed = c.executed
          /\ d.prior = c.prior /\ d.phase = s /\ d.closed = c.closed /\ d.abort = c.abort
          /\ d.fatal = c.fatal
        BY <1>2 DEF Pool, Closure, Phases
    <2>2. CalmFlags(c, d)
        BY <1>2, <2>1 DEF CalmFlags, Aborted
    <2>3. d.phase = c.phase \/ d.active = 0
        BY <1>2, <2>1
    <2> QED BY <1>1, <1>2, <2>1, <2>2, <2>3, CalmFields
<1>3. CASE c.phase # "running" \/ c.active # 0
    BY <1>3, CalmRefl DEF maybeComplete
<1>4. CASE ~(c.phase # "running" \/ c.active # 0) /\ c.fatal
    <2>1. PICK d : d = [c EXCEPT !.phase = "threw"]
        OBVIOUS
    <2>2. Calm(c, d) /\ d.phase = "threw"
        BY <1>2, <1>4, <2>1
    <2>3. maybeComplete(c) = d
        BY <1>4, <2>1 DEF maybeComplete
    <2> QED BY <2>2, <2>3 DEF Settles
<1>5. CASE ~(c.phase # "running" \/ c.active # 0) /\ ~c.fatal /\ c.completed < N
    BY <1>5, CalmRefl DEF maybeComplete
<1>6. CASE ~(c.phase # "running" \/ c.active # 0) /\ ~c.fatal /\ ~(c.completed < N)
    <2>1. PICK d : d = [c EXCEPT !.phase = "settling"]
        OBVIOUS
    <2>2. d \in Closure /\ Calm(c, d) /\ d.queue = q /\ d.phase = "settling" /\ d.active = 0
             /\ d.fatal = c.fatal
        BY <1>2, <1>6, <2>1
    <2>3. PICK s \in Slot : s = newItemSlot
        <3>1. newItemSlot \in Slot
            BY Bounds DEF newItemSlot, Slot, Statuses
        <3> QED BY <3>1
    <2>4. PICK e : e = Event("BatchSettled", 0, s, 0)
        OBVIOUS
    <2>5. e \in Events /\ e.kind = "BatchSettled" /\ e.item = 0
        BY <2>4, EventIs, Bounds DEF EventKinds
    <2>6. PICK f : f = Emit(d, e)
        OBVIOUS
    <2>7. Calm(c, f) /\ f.phase = d.phase /\ f.active = d.active /\ f.fatal = d.fatal
        <3>1. Fresh(c, d, e)
            BY <1>6, <2>2, <2>5 DEF Fresh
        <3> QED BY <1>1, <2>2, <2>5, <2>6, <3>1, CalmEmit
    <2>8. maybeComplete(c) = f
        BY <1>6, <2>1, <2>3, <2>4, <2>6 DEF maybeComplete
    <2>10. f.active = 0 /\ ~f.fatal
        BY <1>6, <2>2, <2>7
    <2> QED BY <2>7, <2>8, <2>10 DEF Settles
<1> QED BY <1>3, <1>4, <1>5, <1>6

\* A batch that has ended does not end again.
LEMMA CompletesOnce ==
    ASSUME NEW c, c.phase # "running"
    PROVE  maybeComplete(c) = c
BY DEF maybeComplete

\* The ramp timer is set.
LEMMA RampCalm ==
    ASSUME NEW c, Pool(c)
    PROVE  Calm(c, scheduleRamp(c)) /\ scheduleRamp(c).phase = c.phase
<1>1. PICK r \in BOOLEAN : r = (c.ramp \/ (~c.closed /\ c.capacity < Ceiling /\ c.next <= N))
    OBVIOUS
<1>2. PICK d : d = [c EXCEPT !.ramp = r]
    OBVIOUS
<1>3. d = scheduleRamp(c)
    BY <1>1, <1>2 DEF scheduleRamp, Pool, Closure
<1>4. /\ d.slot = c.slot /\ d.pc = c.pc /\ d.queue = c.queue /\ d.next = c.next
      /\ d.active = c.active /\ d.completed = c.completed /\ d.executed = c.executed
      /\ d.prior = c.prior /\ d.phase = c.phase /\ d.closed = c.closed /\ d.abort = c.abort
      /\ d.fatal = c.fatal
    BY <1>2 DEF Pool, Closure
<1>5. CalmFlags(c, d)
    BY <1>4 DEF CalmFlags, Aborted
<1> QED BY <1>3, <1>4, <1>5, CalmFields

\* The waiting slots are cancelled in the failure of the batch.
LEMMA MarkCalm ==
    ASSUME NEW c, Pool(c), c.closed, c.fatal, Aborted(c)
    PROVE  /\ Calm(c, markQueuedWithoutEvents(c))
           /\ markQueuedWithoutEvents(c).phase = c.phase
           /\ markQueuedWithoutEvents(c).fatal /\ Aborted(markQueuedWithoutEvents(c))
<1>1. PICK w : w = [i \in Items |-> IF i \in Waiting(c)
                            THEN [c.slot[i] EXCEPT !.status = "cancelled", !.auth = FALSE]
                            ELSE c.slot[i]]
    OBVIOUS
<1>2. PICK n : n = c.completed + Cardinality(Waiting(c))
    OBVIOUS
<1>3. PICK d : d = [c EXCEPT !.slot = w, !.completed = n]
    OBVIOUS
<1>4. markQueuedWithoutEvents(c) = d
    BY <1>1, <1>2, <1>3 DEF markQueuedWithoutEvents, Pool, Closure
<1>5. /\ d.slot = w /\ d.pc = c.pc /\ d.queue = c.queue /\ d.next = c.next
      /\ d.active = c.active /\ d.executed = c.executed
      /\ d.prior = c.prior /\ d.phase = c.phase /\ d.closed = c.closed /\ d.abort = c.abort
      /\ d.fatal = c.fatal
    BY <1>3 DEF Pool, Closure
<1>6. ASSUME NEW i \in Items PROVE CalmSlot(c, d, i)
    <2>1. PICK s \in Slot : s = c.slot[i]
        BY DEF Pool, Closure
    <2>2. CASE s.status = "queued"
        <3>1. w[i] = [s EXCEPT !.status = "cancelled", !.auth = FALSE]
            BY <1>1, <2>1, <2>2 DEF Waiting
        <3>2. w[i].attempts = s.attempts /\ w[i].status = "cancelled" /\ w[i].auth = FALSE
            BY <3>1 DEF Slot
        <3> QED BY <1>5, <2>1, <2>2, <3>2 DEF CalmSlot
    <2>3. CASE s.status # "queued"
        <3>1. w[i] = s
            BY <1>1, <2>1, <2>3 DEF Waiting
        <3> QED BY <1>5, <2>1, <3>1 DEF CalmSlot
    <2> QED BY <2>2, <2>3
<1>7. CalmQueue(c, d)
    BY <1>5 DEF CalmQueue
<1>8. CalmFlags(c, d) /\ CalmCounts(c, d)
    BY <1>5 DEF CalmFlags, CalmCounts, Aborted
<1>9. Calm(c, d)
    BY <1>6, <1>7, <1>8 DEF Calm
<1> QED BY <1>4, <1>5, <1>9 DEF Aborted

\* The first failure closes the batch and aborts what runs.
LEMMA FailRunCalm ==
    ASSUME NEW c, Pool(c), c.fatal => c.closed /\ Aborted(c)
    PROVE  /\ Calm(c, failRun(c)) /\ Settles(c, failRun(c))
           /\ failRun(c).fatal /\ Aborted(failRun(c))
<1>1. PICK abort \in {"no", "cancel", "deadline", "fatal"} :
            abort = IF Aborted(c) THEN c.abort ELSE "fatal"
    BY DEF Pool, Closure
<1>2. PICK d : d = [c EXCEPT !.fatal = TRUE, !.closed = TRUE, !.abort = abort]
    OBVIOUS
<1>3. /\ d.slot = c.slot /\ d.pc = c.pc /\ d.queue = c.queue /\ d.next = c.next
      /\ d.active = c.active /\ d.completed = c.completed /\ d.executed = c.executed
      /\ d.prior = c.prior /\ d.phase = c.phase /\ d.closed = TRUE /\ d.abort = abort
      /\ d.fatal = TRUE
    BY <1>2 DEF Pool, Closure
<1>4. Aborted(d)
    BY <1>1, <1>3 DEF Aborted
<1>5. CalmFlags(c, d)
    BY <1>3, <1>4 DEF CalmFlags
<1>6. Calm(c, d)
    BY <1>3, <1>5, CalmFields
<1>7. Pool(d)
    <2>1. SameSeats(c, d)
        BY <1>1, <1>2 DEF Pool, Closure, SameSeats
    <2> QED BY <2>1, SeatsKeep
<1>8. PICK f : f = IF c.fatal THEN c ELSE markQueuedWithoutEvents(d)
    OBVIOUS
<1>9. Pool(f) /\ Calm(c, f) /\ f.phase = c.phase /\ f.fatal /\ Aborted(f)
    <2>1. CASE c.fatal
        BY <1>8, <2>1, CalmRefl
    <2>2. CASE ~c.fatal
        <3>1. /\ Calm(d, f) /\ f.phase = d.phase /\ f.fatal /\ Aborted(f)
            BY <1>3, <1>4, <1>7, <1>8, <2>2, MarkCalm
        <3> QED BY <1>3, <1>6, <1>7, <1>8, <2>2, <3>1, CalmTrans, MarkKeeps
    <2> QED BY <2>1, <2>2
<1>10. PICK g : g = maybeComplete(f)
    OBVIOUS
<1>11. Calm(f, g) /\ Settles(f, g)
    BY <1>9, <1>10, MaybeCompleteCalm
<1>12. g.fatal /\ Aborted(g)
    BY <1>9, <1>11 DEF Calm, CalmFlags
<1>13. Calm(c, g) /\ Settles(c, g)
    BY <1>9, <1>11, CalmTrans, SettlesTrans
<1>14. failRun(c) = IF f.active = 0 THEN g ELSE f
    BY <1>2, <1>1, <1>8, <1>10 DEF failRun
<1>15. Settles(c, f)
    BY <1>9 DEF Settles
<1> QED BY <1>9, <1>12, <1>13, <1>14, <1>15

\* The next waiting slot is closed.
LEMMA CloseNextCalm ==
    ASSUME NEW c, Pool(c), c.closed, NEW after, NEW status \in {"cancelled", "skipped"},
           NEW by, Closer(c, by)
    PROVE  /\ Calm(c, CloseNext(c, after, status, by))
           /\ CloseNext(c, after, status, by).phase = c.phase
<1>1. PICK rest : rest = {i \in Waiting(c) : i > after}
    OBVIOUS
<1>2. CASE rest = {}
    BY <1>1, <1>2, CalmRefl DEF CloseNext
<1>3. CASE rest # {}
    <2>1. PICK i \in Items : i = Min(rest) /\ c.slot[i].status = "queued"
        <3>1. rest \subseteq Items
            BY <1>1 DEF Waiting
        <3>2. Min(rest) \in rest
            BY <1>3, <3>1, FirstItem
        <3> QED BY <1>1, <3>2 DEF Waiting
    <2>2. PICK u \in Slot : u = c.slot[i]
        BY <2>1 DEF Pool, Closure
    <2>3. PICK s \in Slot : s = [u EXCEPT !.status = status]
        BY DEF Slot, Statuses, ItemTerminal
    <2>4. s.attempts = u.attempts /\ s.auth = u.auth /\ s.status = status
        BY <2>3 DEF Slot
    <2>5. PICK w \in [Items -> Slot] : w = [c.slot EXCEPT ![i] = s]
        BY <2>1, <2>3 DEF Pool, Closure
    <2>6. PICK n \in Nat : n = c.completed + 1
        BY DEF Pool, Closure
    <2>7. PICK d : d = [c EXCEPT !.slot = w, !.completed = n]
        OBVIOUS
    <2>8. d = [c EXCEPT !.slot[i].status = status, !.completed = @ + 1]
        BY <2>1, <2>2, <2>3, <2>5, <2>6, <2>7 DEF Pool, Closure
    <2>9. /\ d \in Closure /\ d.slot = w /\ d.pc = c.pc /\ d.queue = c.queue /\ d.next = c.next
          /\ d.active = c.active /\ d.executed = c.executed
          /\ d.prior = c.prior /\ d.phase = c.phase /\ d.closed = c.closed /\ d.abort = c.abort
          /\ d.fatal = c.fatal
        BY <2>7 DEF Pool, Closure
    <2>10. ASSUME NEW j \in Items PROVE CalmSlot(c, d, j)
        <3>1. CASE j = i
            <4>1. d.slot[j] = s /\ c.slot[j] = u
                BY <2>1, <2>2, <2>5, <2>9, <3>1 DEF Pool, Closure
            <4> QED BY <2>1, <2>2, <2>4, <2>9, <3>1, <4>1 DEF CalmSlot
        <3>2. CASE j # i
            <4>1. d.slot[j] = c.slot[j]
                BY <2>1, <2>5, <2>9, <3>2 DEF Pool, Closure
            <4> QED BY <2>9, <4>1 DEF CalmSlot
        <3> QED BY <3>1, <3>2
    <2>11. CalmQueue(c, d) /\ CalmFlags(c, d) /\ CalmCounts(c, d)
        BY <2>9 DEF CalmQueue, CalmFlags, CalmCounts, Aborted
    <2>12. Calm(c, d)
        BY <2>10, <2>11 DEF Calm
    <2>13. PICK q \in Seq(Events) : q = c.queue
        BY DEF Pool, Closure
    <2>14. PICK e : e = [Event("Closed", i, s, by) EXCEPT !.auth = TRUE]
        OBVIOUS
    <2>15. e \in Events /\ e.kind = "Closed" /\ e.item = i /\ e.attempt = s.attempts
              /\ e.auth = TRUE /\ e.status = s.status
        <3>1. "Closed" \in EventKinds /\ i \in 0..N /\ by \in 0..N
            BY Bounds DEF EventKinds, Items, Closer
        <3>2. PICK f : f = Event("Closed", i, s, by)
            OBVIOUS
        <3>3. f \in Events /\ f.kind = "Closed" /\ f.item = i /\ f.attempt = s.attempts
            BY <3>1, <3>2, EventIs
        <3>4. f.status = s.status
            BY <3>2 DEF Event
        <3>5. e = [f EXCEPT !.auth = TRUE]
            BY <2>14, <3>2
        <3> QED BY <3>3, <3>4, <3>5 DEF Events
    <2>16. Fresh(c, d, e)
        <3>1. d.slot[i] = s
            BY <2>1, <2>5, <2>9
        <3> QED BY <2>1, <2>2, <2>4, <2>9, <2>15, <3>1 DEF Fresh
    <2>17. PICK f : f = Emit(d, e)
        OBVIOUS
    <2>18. Calm(c, f) /\ f.phase = d.phase
        BY <2>9, <2>12, <2>13, <2>15, <2>16, <2>17, CalmEmit
    <2>19. CloseNext(c, after, status, by) = f
        <3>1. CloseNext(c, after, status, by) =
                LET v == [c EXCEPT !.slot[i].status = status, !.completed = @ + 1]
                IN  Emit(v, [Event("Closed", i, v.slot[i], by) EXCEPT !.auth = TRUE])
            BY <1>1, <1>3, <2>1 DEF CloseNext
        <3>2. d.slot[i] = s
            BY <2>1, <2>5, <2>9
        <3> QED BY <2>8, <2>14, <2>17, <3>1, <3>2
    <2> QED BY <2>9, <2>18, <2>19
<1> QED BY <1>2, <1>3

\* Slots are admitted.
LEMMA AdmitCalm ==
    ASSUME NEW c, Pool(c), c.phase = "running" \/ c.closed
    PROVE  Calm(c, Admit(c)) /\ Admit(c).phase = c.phase
<1>1. PICK d : d = Admit(c)
    OBVIOUS
<1>2. CASE d = c
    BY <1>1, <1>2, CalmRefl
<1>3. ASSUME ~c.closed, SameRest(c, d), NEW take, NEW n, NEW more, Seats(c, d, take, n, more)
      PROVE  Calm(c, d) /\ d.phase = c.phase
    <2>1. /\ d.slot = c.slot /\ d.phase = c.phase /\ d.closed = c.closed /\ d.abort = c.abort
          /\ d.fatal = c.fatal /\ d.executed = c.executed /\ d.prior = c.prior
        BY <1>3 DEF SameRest
    <2>2. /\ take \subseteq Items /\ n \in Nat
          /\ \A i \in take : i >= c.next /\ c.slot[i].status # "succeeded"
          /\ \A i \in take : d.pc[i] = "queued"
          /\ \A i \in Items \ take : d.pc[i] = c.pc[i]
        BY <1>3 DEF Seats
    <2>3. \A i \in Items : CalmSlot(c, d, i)
        <3>1. \A i \in take : c.pc[i] = "idle"
            BY <2>2 DEF Pool
        <3> QED BY <2>1, <2>2, <3>1 DEF CalmSlot
    <2>4. CalmQueue(c, d)
        <3>1. PICK q \in Seq(Events) : q = c.queue
            BY DEF Pool, Closure
        <3>2. PICK u \in Seq(Events) : u = more /\ Len(u) = n
            BY <1>3 DEF Seats
        <3>3. PICK w \in Seq(Events) : w = q \o u
            <4>1. q \o u \in Seq(Events)
                BY <3>1, <3>2
            <4> QED BY <4>1
        <3>4. d.queue = w /\ c.queue = q
            BY <1>3, <3>1, <3>2, <3>3 DEF Seats
        <3>5. /\ Len(q) \in Nat /\ DOMAIN q = 1..Len(q) /\ DOMAIN w = 1..(Len(q) + n)
              /\ \A k \in 1..Len(q) : w[k] = q[k]
              /\ \A k \in 1..n : w[Len(q) + k] = u[k]
            BY <2>2, <3>2, <3>3
        <3>6. \A k \in 1..n : Fresh(c, d, u[k])
            <4>1. \A k \in 1..n : /\ u[k].kind = "Queued" /\ u[k].item \in Items
                                  /\ u[k].attempt = c.slot[u[k].item].attempts
                BY <1>3, <2>2, <3>2 DEF Seats
            <4> QED BY <4>1 DEF Fresh
        <3>7. ASSUME NEW k \in DOMAIN w \ DOMAIN q
              PROVE  k > Len(q) /\ Fresh(c, d, w[k]) /\ w[k].kind = "Queued"
            <4>1. k > Len(q) /\ k - Len(q) \in 1..n /\ k = Len(q) + (k - Len(q))
                BY <2>2, <3>5
            <4>2. PICK j \in 1..n : j = k - Len(q)
                BY <4>1
            <4>3. w[k] = u[j]
                BY <3>5, <4>1, <4>2
            <4>4. u[j].kind = "Queued"
                BY <1>3, <3>2 DEF Seats
            <4> QED BY <3>6, <4>1, <4>3, <4>4
        <3>8. DOMAIN q \subseteq DOMAIN w /\ \A k \in DOMAIN q : w[k] = q[k] /\ k <= Len(q)
            BY <2>2, <3>5
        <3>9. \A k \in DOMAIN q, l \in DOMAIN w \ DOMAIN q : k < l
            BY <3>5, <3>7, <3>8
        <3> QED BY <3>4, <3>7, <3>8, <3>9 DEF CalmQueue
    <2>5. CalmFlags(c, d)
        BY <2>1 DEF CalmFlags, Aborted
    <2>6. CalmCounts(c, d)
        BY <1>3, <2>1 DEF CalmCounts
    <2> QED BY <2>1, <2>3, <2>4, <2>5, <2>6 DEF Calm
<1>4. d = c \/ (~c.closed /\ SameRest(c, d) /\ \E take, n, more : Seats(c, d, take, n, more))
    BY <1>1, AdmitIs
<1> QED BY <1>1, <1>2, <1>3, <1>4

\* d is c, with admission open or closed.
Shuts(c, d, b) == b \in BOOLEAN /\ (c.closed => b) /\ (b => c.closed \/ Aborted(c))
                  /\ d = [c EXCEPT !.closed = b]

\* Closing admission for an abort is calm.
LEMMA CloseCalm ==
    ASSUME NEW c, Pool(c), NEW b, NEW d, Shuts(c, d, b)
    PROVE  /\ Pool(d) /\ Calm(c, d) /\ d.phase = c.phase /\ d.closed = b /\ d.fatal = c.fatal
           /\ d.abort = c.abort /\ d.pc = c.pc /\ d.slot = c.slot
           /\ \A i \in Items : Free(c, i) => Free(d, i)
<1>1. /\ d.slot = c.slot /\ d.pc = c.pc /\ d.queue = c.queue /\ d.next = c.next
      /\ d.active = c.active /\ d.completed = c.completed /\ d.executed = c.executed
      /\ d.prior = c.prior /\ d.phase = c.phase /\ d.closed = b /\ d.abort = c.abort
      /\ d.fatal = c.fatal
    BY DEF Pool, Closure, Shuts
<1>2. SameSeats(c, d)
    BY DEF Pool, Closure, SameSeats, Shuts
<1>3. CalmFlags(c, d)
    BY <1>1 DEF CalmFlags, Aborted, Shuts
<1>4. Calm(c, d)
    BY <1>1, <1>3, CalmFields
<1> QED BY <1>1, <1>2, <1>4, SeatsKeep

\* The pump is calm, and settles the batch only when its pool has drained.
LEMMA PumpCalm ==
    ASSUME NEW c, Pool(c), c.phase = "running" \/ c.closed
    PROVE  Calm(c, pump(c)) /\ Settles(c, pump(c))
<1>1. PICK closed \in BOOLEAN : closed = (c.closed \/ Aborted(c))
    BY DEF Pool, Closure, Aborted
<1>2. PICK d : d = [c EXCEPT !.closed = closed]
    OBVIOUS
<1>3. d = [c EXCEPT !.closed = @ \/ Aborted(c)]
    BY <1>1, <1>2 DEF Pool, Closure
<1>4. Pool(d) /\ Calm(c, d) /\ d.phase = c.phase /\ d.closed = closed
    <2>1. Shuts(c, d, closed)
        BY <1>1, <1>2 DEF Shuts
    <2> QED BY <2>1, CloseCalm
<1>5. PICK a : a = Admit(d)
    OBVIOUS
<1>6. Pool(a) /\ Calm(d, a) /\ a.phase = d.phase
    BY <1>1, <1>4, <1>5, AdmitKeeps, AdmitCalm
<1>7. PICK s \in {"cancelled", "skipped"} : s = ClosedAs(a)
    BY DEF ClosedAs
<1>8. PICK b : b = IF a.closed /\ ~a.fatal THEN CloseNext(a, 0, s, 0) ELSE a
    OBVIOUS
<1>9. Pool(b) /\ Calm(a, b) /\ b.phase = a.phase
    <2>1. Closer(a, 0)
        BY Bounds DEF Closer
    <2>2. CASE a.closed
        <3>1. s \in Statuses
            BY DEF Statuses, ItemTerminal
        <3>2. Pool(CloseNext(a, 0, s, 0))
            BY <1>6, <2>1, <3>1, CloseNextKeeps
        <3>3. Calm(a, CloseNext(a, 0, s, 0)) /\ CloseNext(a, 0, s, 0).phase = a.phase
            BY <1>6, <2>1, <2>2, CloseNextCalm
        <3> QED BY <1>6, <1>8, <3>2, <3>3, CalmRefl
    <2>3. CASE ~a.closed
        BY <1>6, <1>8, <2>3, CalmRefl
    <2> QED BY <2>2, <2>3
<1>10. PICK e : e = scheduleRamp(b)
    OBVIOUS
<1>11. Pool(e) /\ Calm(b, e) /\ e.phase = b.phase
    BY <1>9, <1>10, RampKeeps, RampCalm
<1>12. Calm(e, maybeComplete(e)) /\ Settles(e, maybeComplete(e))
    BY <1>11, MaybeCompleteCalm
<1>13. pump(c) = maybeComplete(e)
    BY <1>3, <1>5, <1>7, <1>8, <1>10 DEF pump
<1>14. Calm(c, e) /\ e.phase = c.phase
    BY <1>4, <1>6, <1>9, <1>11, CalmTrans
<1> QED BY <1>12, <1>13, <1>14, CalmTrans, SettlesTrans

\* The slot that has closed the queue is gone.
LEMMA GoneCalm ==
    ASSUME NEW c, Pool(c), NEW by \in Items, c.pc[by] = "close", Free(c, by),
           NEW d, Goes(c, d, by, "gone")
    PROVE  Pool(d) /\ Calm(c, d) /\ d.phase = c.phase /\ d.closed = c.closed
<1>1. PICK p \in [Items -> Steps] : p = [c.pc EXCEPT ![by] = "gone"]
    BY DEF Pool, Closure, Steps
<1>2. d = [c EXCEPT !.pc = p]
    BY <1>1 DEF Goes, Pool, Closure
<1>3. /\ d.slot = c.slot /\ d.pc = p /\ d.queue = c.queue /\ d.next = c.next
      /\ d.active = c.active /\ d.completed = c.completed /\ d.executed = c.executed
      /\ d.prior = c.prior /\ d.phase = c.phase /\ d.closed = c.closed /\ d.abort = c.abort
      /\ d.fatal = c.fatal /\ d \in Closure
    BY <1>1, <1>2 DEF Pool, Closure
<1>4. Pool(d)
    <2>1. c.pc[by] # "idle" /\ ("gone" \in Inside <=> c.pc[by] \in Inside)
        BY DEF Inside
    <2>2. PICK s \in Steps \ {"idle"} : s = "gone"
        BY DEF Steps
    <2>3. d.pc = [c.pc EXCEPT ![by] = s]
        BY <1>1, <1>3, <2>2
    <2> QED BY <1>3, <2>1, <2>2, <2>3, StepKeeps
<1>5. \A i \in Items : CalmSlot(c, d, i)
    <2>1. \A i \in Items : p[i] = IF i = by THEN "gone" ELSE c.pc[i]
        BY <1>1 DEF Pool, Closure
    <2> QED BY <1>3, <2>1 DEF CalmSlot
<1>6. CalmQueue(c, d) /\ CalmFlags(c, d) /\ CalmCounts(c, d)
    BY <1>3 DEF CalmQueue, CalmFlags, CalmCounts, Aborted
<1> QED BY <1>3, <1>4, <1>5, <1>6 DEF Calm

\* The closing of the queue is over.
LEMMA AfterClosingCalm ==
    ASSUME NEW c, Pool(c), NEW by, Closer(c, by), c.phase = "running" \/ c.closed
    PROVE  Calm(c, AfterClosing(c, by)) /\ Settles(c, AfterClosing(c, by))
<1>1. CASE by = 0
    BY <1>1, MaybeCompleteCalm DEF AfterClosing
<1>2. CASE by # 0
    <2>1. by \in Items /\ c.pc[by] = "close" /\ Free(c, by)
        BY <1>2, Bounds DEF Closer, Items
    <2>2. PICK d : d = [c EXCEPT !.pc[by] = "gone"]
        OBVIOUS
    <2>3. Pool(d) /\ Calm(c, d) /\ d.phase = c.phase /\ d.closed = c.closed
        <3>1. Goes(c, d, by, "gone")
            BY <2>2 DEF Goes
        <3> QED BY <2>1, <3>1, GoneCalm
    <2>4. PICK e : e = pump(d)
        OBVIOUS
    <2>5. Pool(e) /\ Calm(d, e) /\ Settles(d, e)
        BY <2>3, <2>4, PumpKeeps, PumpCalm
    <2>6. Calm(c, e) /\ Settles(c, e)
        BY <2>3, <2>5, CalmTrans, SettlesTrans
    <2>7. PICK f : f = maybeComplete(e)
        OBVIOUS
    <2>8. Calm(e, f) /\ Settles(e, f) /\ (e.phase # "running" => f = e)
        BY <2>5, <2>7, MaybeCompleteCalm, CompletesOnce
    <2>9. Calm(c, f)
        BY <2>6, <2>8, CalmTrans
    <2>10. Settles(c, f)
        <3>1. e.phase = "running" => c.phase = e.phase
            BY <2>6 DEF Calm, CalmFlags
        <3> QED BY <2>6, <2>8, <3>1, SettlesTrans
    <2>11. AfterClosing(c, by) = f
        BY <1>2, <2>2, <2>4, <2>7 DEF AfterClosing
    <2> QED BY <2>9, <2>10, <2>11
<1> QED BY <1>1, <1>2

\* One more waiting slot is closed, or the closing is over.
LEMMA CloseQueuedCalm ==
    ASSUME NEW c, Pool(c), c.closed, NEW after, NEW status \in {"cancelled", "skipped"},
           NEW by, Closer(c, by)
    PROVE  /\ Calm(c, closeQueued(c, after, status, by))
           /\ Settles(c, closeQueued(c, after, status, by))
<1>1. PICK d : d = CloseNext(c, after, status, by)
    OBVIOUS
<1>2. Calm(c, d) /\ d.phase = c.phase
    BY <1>1, CloseNextCalm
<1>3. Settles(c, d)
    BY <1>2 DEF Settles
<1>4. Calm(c, AfterClosing(c, by)) /\ Settles(c, AfterClosing(c, by))
    BY AfterClosingCalm
<1>5. closeQueued(c, after, status, by) = IF d = c THEN AfterClosing(c, by) ELSE d
    BY <1>1 DEF closeQueued
<1> QED BY <1>2, <1>3, <1>4, <1>5

\* The first abort closes the queue.
LEMMA AbortCalm ==
    ASSUME NEW c, Pool(c), Aborted(c)
    PROVE  Calm(c, abortAdmission(c)) /\ Settles(c, abortAdmission(c))
<1>1. PICK d : d = [c EXCEPT !.closed = TRUE]
    OBVIOUS
<1>2. Pool(d) /\ Calm(c, d) /\ d.phase = c.phase /\ d.closed
    <2>1. PICK b \in BOOLEAN : b = TRUE
        OBVIOUS
    <2>2. Shuts(c, d, b)
        BY <1>1, <2>1 DEF Shuts
    <2>3. Pool(d) /\ Calm(c, d) /\ d.phase = c.phase /\ d.closed = b
        BY <2>2, CloseCalm
    <2> QED BY <2>1, <2>3
<1>3. PICK s \in {"cancelled", "skipped"} : s = "cancelled"
    OBVIOUS
<1>4. PICK e : e = closeQueued(d, 0, s, 0)
    OBVIOUS
<1>5. Calm(d, e) /\ Settles(d, e)
    <2>1. Closer(d, 0)
        BY Bounds DEF Closer
    <2> QED BY <1>2, <1>4, <2>1, CloseQueuedCalm
<1>6. abortAdmission(c) = e
    BY <1>1, <1>3, <1>4 DEF abortAdmission
<1> QED BY <1>2, <1>5, <1>6, CalmTrans, SettlesTrans

\* The journal of a batch: its projection, its starts and those that have ended.
Journal(P, S, D) ==
    /\ P \in [Items -> Slot] /\ IsFiniteSet(S) /\ D \subseteq S
    /\ S \subseteq [item : Items, attempt : 1..MaxAttempts, exec : 1..(MaxCrashes + 1)]

\* The slots after a calm step.
LEMMA CalmCourse ==
    ASSUME NEW c, NEW d, Calm(c, d), NEW P, NEW S, NEW D, NEW x, NEW i \in Items,
           Course(c, P, i), Attempts(c, S, D, x, i)
    PROVE  Course(d, P, i) /\ Attempts(d, S, D, x, i)
<1>1. CalmSlot(c, d, i) /\ (Aborted(c) => Aborted(d))
    BY DEF Calm, CalmFlags
<1>2. d.slot[i].attempts = c.slot[i].attempts
    BY <1>1 DEF CalmSlot
<1>3. Course(d, P, i)
    <2>1. CASE d.slot[i] = c.slot[i]
        BY <1>1, <2>1 DEF CalmSlot, Course
    <2>2. CASE d.slot[i] # c.slot[i]
        BY <1>1, <1>2, <2>2 DEF CalmSlot, Course
    <2> QED BY <2>1, <2>2
<1>4. Attempts(d, S, D, x, i)
    BY <1>1, <1>2 DEF CalmSlot, Attempts
<1> QED BY <1>3, <1>4

\* A pending append and its slot after a calm step.
LEMMA CalmSays ==
    ASSUME NEW c, Pool(c), NEW d, d \in Closure, Calm(c, d), NEW P,
           \A i \in Items : Course(c, P, i), NEW e \in Events
    PROVE  /\ Awaited(c, e) /\ Says(c, e) => Says(d, e)
           /\ Fresh(c, d, e) => Says(d, e)
<1>1. CalmFlags(c, d) /\ (e.item # 0 => e.item \in Items)
    BY Bounds DEF Calm, Events, Items
<1>2. CASE e.item = 0
    <2>1. 0 \notin Items
        BY DEF Items
    <2> QED BY <1>1, <1>2, <2>1 DEF Says, Fresh, CalmFlags
<1>3. CASE e.item # 0
    <2>1. PICK i \in Items : i = e.item
        BY <1>1, <1>3
    <2>2. CalmSlot(c, d, i) /\ Course(c, P, i)
        BY DEF Calm
    <2>3. d.slot[i].attempts = c.slot[i].attempts /\ d.slot[i].attempts \in Nat
        BY <2>2, SlotFacts DEF CalmSlot
    <2>4. ASSUME Awaited(c, e), Says(c, e) PROVE Says(d, e)
        <3>1. e.kind \notin {"BatchStarted", "BatchSettled"}
            BY <1>3, <2>4 DEF Says
        <3>2. e.kind = "Terminal" => c.pc[i] = "end"
            BY <2>1, <2>4, <1>3 DEF Awaited, Owner, Waits
        <3>3. e.kind = "Terminal" => d.slot[i] = c.slot[i]
            BY <2>2, <3>2 DEF CalmSlot, Course
        <3>4. e.kind = "Closed" => /\ d.closed /\ d.slot[i].status # "succeeded"
                                   /\ d.pc[i] \notin {"exec", "end"}
                                   /\ (d.pc[i] = "start" => c.pc[i] = "start")
            BY <1>1, <2>1, <2>2, <2>4 DEF Says, CalmSlot, CalmFlags
        <3> QED BY <1>3, <2>1, <2>3, <2>4, <3>1, <3>3, <3>4 DEF Says
    <2>5. ASSUME Fresh(c, d, e) PROVE Says(d, e)
        <3>1. CASE e.kind = "Queued"
            BY <1>3, <2>1, <2>3, <2>5, <3>1 DEF Fresh, Says
        <3>2. CASE e.kind = "Closed"
            <4>1. /\ c.slot[i].status = "queued" /\ d.slot[i].status # "queued"
                  /\ e.auth /\ e.status \in {"cancelled", "skipped"} /\ d.closed
                  /\ e.attempt = c.slot[i].attempts
                BY <2>1, <2>5, <3>2 DEF Fresh
            <4>2. d.slot[i].status # "succeeded" /\ d.pc[i] \notin {"start", "exec", "end"}
                BY <2>2, <4>1 DEF CalmSlot, Course
            <4> QED BY <1>3, <2>1, <2>3, <3>2, <4>1, <4>2 DEF Says
        <3> QED BY <1>3, <2>5, <3>1, <3>2 DEF Fresh
    <2> QED BY <2>4, <2>5
<1> QED BY <1>2, <1>3

\* The pending appends after a calm step.
LEMMA CalmPending ==
    ASSUME NEW c, Pool(c), NEW d, d \in Closure, Calm(c, d), NEW P,
           \A i \in Items : Course(c, P, i), Pending(c)
    PROVE  Pending(d)
<1>1. CalmQueue(c, d) /\ CalmFlags(c, d)
    BY DEF Calm
<1>2. PICK q \in Seq(Events) : q = c.queue
    BY DEF Pool, Closure
<1>3. PICK w \in Seq(Events) : w = d.queue
    BY DEF Closure
<1>4. /\ DOMAIN q \subseteq DOMAIN w /\ \A k \in DOMAIN q : w[k] = q[k]
      /\ \A k \in DOMAIN w \ DOMAIN q : Fresh(c, d, w[k])
      /\ \A k \in DOMAIN q, l \in DOMAIN w \ DOMAIN q : k < l
      /\ \A k, l \in DOMAIN w \ DOMAIN q :
            w[k].kind = "BatchSettled" /\ w[l].kind = "BatchSettled" => k = l
    BY <1>1, <1>2, <1>3 DEF CalmQueue
<1>5. \A k \in DOMAIN w : w[k] \in Events /\ k \in Nat
    BY <1>3
<1>6. \A k \in DOMAIN q : Awaited(c, q[k]) /\ Says(c, q[k]) /\ q[k] \in Events
    BY <1>2 DEF Pool, Pending
<1>7. \A k \in DOMAIN w : Says(d, w[k])
    BY <1>4, <1>5, <1>6, CalmSays
<1>8. ASSUME NEW k \in DOMAIN w, NEW l \in DOMAIN w, k < l
      PROVE  /\ w[k].kind = "Started" /\ w[l].kind = "Closed" => w[k].item # w[l].item
             /\ w[k].kind = "BatchSettled" => w[l].kind # "BatchSettled"
    <2>1. CASE k \in DOMAIN q /\ l \in DOMAIN q
        BY <1>2, <1>4, <1>8, <2>1 DEF Pending
    <2>2. CASE k \in DOMAIN q /\ l \notin DOMAIN q
        <3>1. Awaited(c, w[k]) /\ Says(c, w[k]) /\ Fresh(c, d, w[l])
            BY <1>4, <1>6, <2>2
        <3>2. ~(w[k].kind = "BatchSettled" /\ w[l].kind = "BatchSettled")
            BY <3>1 DEF Says, Fresh
        <3>3. ASSUME w[k].kind = "Started", w[l].kind = "Closed", w[k].item = w[l].item
              PROVE  FALSE
            <4>1. w[l].item \in Items /\ c.slot[w[l].item].status = "queued"
                BY <3>1, <3>3 DEF Fresh
            <4>2. PICK i \in Items : i = w[l].item /\ i # 0
                BY <4>1 DEF Items
            <4>3. c.pc[i] = "start"
                BY <3>1, <3>3, <4>2 DEF Awaited, Owner, Waits
            <4> QED BY <4>1, <4>2, <4>3 DEF Course
        <3> QED BY <3>2, <3>3
    <2>3. CASE k \notin DOMAIN q /\ l \in DOMAIN q
        <3>1. l < k
            BY <1>4, <2>3
        <3> QED BY <1>5, <1>8, <3>1
    <2>4. CASE k \notin DOMAIN q /\ l \notin DOMAIN q
        <3>1. w[k].kind # "Started"
            BY <1>4, <2>4 DEF Fresh
        <3> QED BY <1>4, <1>5, <1>8, <2>4, <3>1
    <2> QED BY <2>1, <2>2, <2>3, <2>4
<1> QED BY <1>3, <1>7, <1>8 DEF Pending

\* A calm step keeps the closure and the journal linked.
LEMMA CalmLinks ==
    ASSUME NEW c, Pool(c), NEW d, Pool(d), Calm(c, d), NEW P, NEW S, NEW D, NEW x,
           Linked(c, P, S, D, x)
    PROVE  Linked(d, P, S, D, x)
<1>1. \A i \in Items : Course(d, P, i) /\ Attempts(d, S, D, x, i)
    BY CalmCourse DEF Linked
<1>2. Pending(d)
    BY CalmPending DEF Linked, Pool
<1>3. Counts(d)
    <2>1. CalmFlags(c, d) /\ CalmCounts(c, d) /\ Counts(c)
        BY DEF Calm, Linked
    <2>2. \A i \in Items : /\ c.pc[i] \in {"close", "gone"} => d.pc[i] \in {"close", "gone"}
                           /\ c.slot[i].status # "succeeded" => d.slot[i].status # "succeeded"
        BY DEF Calm, CalmSlot
    <2>3. d.closed => \/ Aborted(d)
                      \/ /\ policy = "fail-fast"
                         /\ \E i \in Items : /\ d.pc[i] \in {"close", "gone"}
                                             /\ d.slot[i].status # "succeeded"
        BY <2>1, <2>2 DEF CalmFlags, Counts
    <2>4. d.fatal => Aborted(d) /\ d.closed
        BY <2>1 DEF CalmFlags, Counts
    <2>5. d.phase # "running" => d.active = 0
        BY <2>1 DEF CalmCounts, Counts
    <2> QED BY <2>3, <2>4, <2>5 DEF Counts
<1> QED BY <1>1, <1>2, <1>3 DEF Linked

\* Nor does it claim more.
LEMMA CalmClaims ==
    ASSUME NEW c, NEW d, Calm(c, d), NEW P, NEW S
    PROVE  /\ Trusted(c, P) => Trusted(d, P)
           /\ Charged(c, S) => Charged(d, S)
<1>1. CalmFlags(c, d) /\ CalmCounts(c, d)
    BY DEF Calm
<1>2. ASSUME Trusted(c, P) PROVE Trusted(d, P)
    <2>1. ASSUME ~Aborted(d), NEW i \in Items, d.pc[i] # "end"
          PROVE  /\ d.slot[i].auth => P[i].auth
                 /\ d.slot[i].status = "succeeded" => P[i].status = "succeeded"
                 /\ d.slot[i].status = "skipped" => P[i].auth \/ d.closed
        <3>1. CalmSlot(c, d, i)
            BY DEF Calm
        <3>2. ~Aborted(c) /\ (c.closed => d.closed) /\ c.pc[i] # "end"
            BY <1>1, <2>1, <3>1 DEF CalmFlags, CalmSlot
        <3>3. /\ c.slot[i].auth => P[i].auth
              /\ c.slot[i].status = "succeeded" => P[i].status = "succeeded"
              /\ c.slot[i].status = "skipped" => P[i].auth \/ c.closed
            BY <1>2, <3>2 DEF Trusted
        <3> QED BY <3>1, <3>2, <3>3 DEF CalmSlot
    <2> QED BY <2>1 DEF Trusted
<1>3. ASSUME Charged(c, S) PROVE Charged(d, S)
    <2>1. {i \in Items : d.pc[i] = "start"} = {i \in Items : c.pc[i] = "start"}
        <3>1. \A i \in Items : d.pc[i] = "start" <=> c.pc[i] = "start"
            BY DEF Calm, CalmSlot
        <3> QED BY <3>1
    <2> QED BY <1>1, <1>3, <2>1 DEF Charged, CalmFlags, CalmCounts
<1> QED BY <1>2, <1>3

\* The closure fits the journal.
Good(c, P, S, D, x) ==
    Pool(c) /\ Linked(c, P, S, D, x) /\ Trusted(c, P) /\ Charged(c, S)

\* A calm step keeps it so.
LEMMA CalmGood ==
    ASSUME NEW c, NEW P, NEW S, NEW D, NEW x, Good(c, P, S, D, x),
           NEW d, Pool(d), Calm(c, d)
    PROVE  Good(d, P, S, D, x)
BY CalmLinks, CalmClaims DEF Good

\* d differs from c in the slot i, and perhaps in counters and timers.
Moves(c, d, i) ==
    /\ \A j \in Items \ {i} : d.slot[j] = c.slot[j] /\ d.pc[j] = c.pc[j]
    /\ d.queue = c.queue /\ d.phase = c.phase /\ d.abort = c.abort /\ d.fatal = c.fatal
    /\ (c.closed => d.closed)

\* What a terminal of slot i that closeQueued has emitted needs to stay true.
Clears(c, d, i) ==
    \/ \A k \in DOMAIN c.queue : c.queue[k].kind = "Closed" => c.queue[k].item # i
    \/ c.slot[i].status # "succeeded" /\ c.pc[i] \notin {"exec", "end"} =>
          /\ d.slot[i].status # "succeeded" /\ d.pc[i] \notin {"exec", "end"}
          /\ d.slot[i].attempts >= c.slot[i].attempts
          /\ d.pc[i] = "start" => d.slot[i].attempts > c.slot[i].attempts

\* The pending appends are those of the other slots, and of closeQueued.
LEMMA MovesPending ==
    ASSUME NEW c, Pool(c), NEW d, d \in Closure, NEW i \in Items, Free(c, i), Moves(c, d, i),
           Clears(c, d, i), Pending(c)
    PROVE  Pending(d)
<1>1. PICK q \in Seq(Events) : q = c.queue /\ q = d.queue
    BY DEF Pool, Closure, Moves
<1>2. ASSUME NEW k \in DOMAIN q PROVE Says(d, q[k])
    <2>1. PICK e \in Events : e = q[k]
        OBVIOUS
    <2>2. Says(c, e) /\ Owner(e) # i
        BY <1>1, <2>1 DEF Pending, Free
    <2>3. d.phase = c.phase /\ (c.closed => d.closed)
        BY DEF Moves
    <2>4. CASE e.item = 0
        <3>1. e.kind \in {"BatchStarted", "BatchSettled"}
            BY <2>2, <2>4 DEF Says
        <3> QED BY <2>1, <2>2, <2>3, <2>4, <3>1 DEF Says
    <2>5. CASE e.item # 0 /\ e.item # i
        <3>1. PICK j \in Items : j = e.item /\ j # i
            BY <2>5, Bounds DEF Events, Items
        <3>2. d.slot[j] = c.slot[j] /\ d.pc[j] = c.pc[j]
            BY <3>1 DEF Moves
        <3> QED BY <2>1, <2>2, <2>3, <3>1, <3>2 DEF Says
    <2>6. CASE e.item # 0 /\ e.item = i
        <3>1. e.kind = "Closed"
            BY <2>2, <2>6 DEF Owner, Says
        <3>2. /\ c.slot[i].status # "succeeded" /\ c.pc[i] \notin {"exec", "end"}
              /\ e.attempt <= c.slot[i].attempts
              /\ c.closed /\ e.auth /\ e.status \in {"skipped", "cancelled"}
            BY <2>2, <2>6, <3>1 DEF Says
        <3>3. /\ d.slot[i].status # "succeeded" /\ d.pc[i] \notin {"exec", "end"}
              /\ d.slot[i].attempts >= c.slot[i].attempts
              /\ d.pc[i] = "start" => d.slot[i].attempts > c.slot[i].attempts
            BY <1>1, <2>1, <2>6, <3>1, <3>2 DEF Clears
        <3>4. e.attempt \in Int /\ c.slot[i].attempts \in Int /\ d.slot[i].attempts \in Int
            BY SlotFacts DEF Events, Pool
        <3> QED BY <2>1, <2>3, <2>6, <3>1, <3>2, <3>3, <3>4 DEF Says
    <2> QED BY <2>4, <2>5, <2>6
<1>3. \A k, l \in DOMAIN q : k < l =>
          /\ q[k].kind = "Started" /\ q[l].kind = "Closed" => q[k].item # q[l].item
          /\ q[k].kind = "BatchSettled" => q[l].kind # "BatchSettled"
    BY <1>1 DEF Pending
<1> QED BY <1>1, <1>2, <1>3 DEF Pending

\* One slot moves.
LEMMA MovesLink ==
    ASSUME NEW c, Pool(c), NEW d, Pool(d), NEW i \in Items, Free(c, i), Moves(c, d, i),
           NEW P, NEW S, NEW D, NEW x,
           \A j \in Items \ {i} : Course(c, P, j) /\ Attempts(c, S, D, x, j),
           Pending(c), Course(d, P, i), Attempts(d, S, D, x, i), Clears(c, d, i), Counts(d)
    PROVE  Linked(d, P, S, D, x)
<1>1. \A j \in Items \ {i} : Course(d, P, j) /\ Attempts(d, S, D, x, j)
    <2>1. ASSUME NEW j \in Items \ {i} PROVE Course(d, P, j) /\ Attempts(d, S, D, x, j)
        <3>1. d.slot[j] = c.slot[j] /\ d.pc[j] = c.pc[j] /\ d.abort = c.abort
            BY DEF Moves
        <3> QED BY <3>1 DEF Course, Attempts, Aborted
    <2> QED BY <2>1
<1>2. Pending(d)
    BY MovesPending DEF Pool
<1> QED BY <1>1, <1>2 DEF Linked

\* An append is pending.
LEMMA EmitLink ==
    ASSUME NEW c, NEW P, NEW S, NEW D, NEW x, Linked(c, P, S, D, x), c \in Closure,
           NEW e \in Events, Says(c, e), e.kind \notin {"Closed", "BatchSettled"},
           NEW f, f = Emit(c, e)
    PROVE  /\ Linked(f, P, S, D, x) /\ f.phase = c.phase
           /\ Trusted(c, P) => Trusted(f, P)
           /\ Charged(c, S) => Charged(f, S)
<1>1. PICK q \in Seq(Events) : q = c.queue
    BY DEF Closure
<1>2. PICK w \in Seq(Events) : w = Append(q, e)
    <2>1. Append(q, e) \in Seq(Events)
        OBVIOUS
    <2> QED BY <2>1
<1>3. f = [c EXCEPT !.queue = w]
    BY <1>1, <1>2 DEF Emit
<1>4. /\ f.slot = c.slot /\ f.pc = c.pc /\ f.next = c.next /\ f.active = c.active
      /\ f.executed = c.executed /\ f.prior = c.prior
      /\ f.closed = c.closed /\ f.abort = c.abort /\ f.fatal = c.fatal /\ f.phase = c.phase
      /\ f.queue = w
    BY <1>3 DEF Closure
<1>5. /\ Len(q) \in Nat /\ DOMAIN q = 1..Len(q) /\ DOMAIN w = 1..(Len(q) + 1)
      /\ w[Len(q) + 1] = e /\ \A k \in DOMAIN q : w[k] = q[k]
    BY <1>2
<1>6. DOMAIN w = DOMAIN q \union {Len(q) + 1}
    BY <1>5
<1>7. \A g : Says(c, g) => Says(f, g)
    BY <1>4 DEF Says
<1>8. Pending(f)
    <2>1. \A k \in DOMAIN w : Says(f, w[k])
        BY <1>1, <1>5, <1>6, <1>7 DEF Linked, Pending
    <2>2. ASSUME NEW k \in DOMAIN w, NEW l \in DOMAIN w, k < l
          PROVE  /\ w[k].kind = "Started" /\ w[l].kind = "Closed" => w[k].item # w[l].item
                 /\ w[k].kind = "BatchSettled" => w[l].kind # "BatchSettled"
        <3>1. CASE l = Len(q) + 1
            BY <1>5, <3>1
        <3>2. CASE l # Len(q) + 1
            <4>1. k \in DOMAIN q /\ l \in DOMAIN q
                BY <1>5, <2>2, <3>2
            <4> QED BY <1>1, <1>5, <2>2, <4>1 DEF Linked, Pending
        <3> QED BY <3>1, <3>2
    <2> QED BY <1>4, <2>1, <2>2 DEF Pending
<1>9. /\ \A i \in Items : Course(f, P, i) /\ Attempts(f, S, D, x, i)
      /\ Counts(f)
    BY <1>4 DEF Linked, Course, Attempts, Counts, Aborted
<1>10. /\ Trusted(c, P) => Trusted(f, P)
       /\ Charged(c, S) => Charged(f, S)
    BY <1>4 DEF Trusted, Charged, Aborted
<1> QED BY <1>4, <1>8, <1>9, <1>10 DEF Linked

\* What slot i claims in d, the journal knows.
LEMMA MovesTrust ==
    ASSUME NEW c, NEW d, NEW i \in Items, Moves(c, d, i), NEW P, Trusted(c, P),
           ~Aborted(c) /\ d.pc[i] # "end" =>
               /\ d.slot[i].auth => P[i].auth
               /\ d.slot[i].status = "succeeded" => P[i].status = "succeeded"
               /\ d.slot[i].status = "skipped" => P[i].auth \/ d.closed
    PROVE  Trusted(d, P)
BY DEF Moves, Trusted, Aborted

\* An attempt is counted when it is announced, and charged when it has started.
LEMMA MovesCharge ==
    ASSUME NEW c, c \in Closure, NEW d, NEW i \in Items, Moves(c, d, i), NEW S, NEW T,
           d.prior = c.prior, IsFiniteSet(S), Charged(c, S),
           \/ d.executed = c.executed /\ T = S /\ (c.pc[i] = "start" <=> d.pc[i] = "start")
           \/ d.executed = c.executed + 1 /\ T = S /\ c.pc[i] # "start" /\ d.pc[i] = "start"
           \/ /\ d.executed = c.executed /\ Cardinality(T) = Cardinality(S) + 1
              /\ c.pc[i] = "start" /\ d.pc[i] # "start"
    PROVE  Charged(d, T)
<1>1. PICK A : A = {j \in Items : c.pc[j] = "start"}
    OBVIOUS
<1>2. PICK B : B = {j \in Items : d.pc[j] = "start"}
    OBVIOUS
<1>3. \A j \in Items \ {i} : d.pc[j] = c.pc[j]
    BY DEF Moves
<1>4. IsFiniteSet(A) /\ IsFiniteSet(B) /\ Cardinality(A) \in Nat /\ Cardinality(B) \in Nat
      /\ Cardinality(S) \in Nat
    <2>1. IsFiniteSet(Items) /\ A \subseteq Items /\ B \subseteq Items
        BY <1>1, <1>2, SeatedFinite
    <2> QED BY <2>1, FS_Subset, FS_CardinalityType
<1>5. c.executed \in Nat /\ c.prior \in Nat
    BY DEF Closure
<1>6. ~d.fatal => c.prior + c.executed = Cardinality(S) + Cardinality(A)
    BY <1>1 DEF Charged, Moves
<1>7. CASE c.pc[i] = "start" <=> d.pc[i] = "start"
    <2>1. A = B
        BY <1>1, <1>2, <1>3, <1>7
    <2> QED BY <1>2, <1>5, <1>6, <1>7, <2>1 DEF Charged
<1>8. CASE c.pc[i] # "start" /\ d.pc[i] = "start"
    <2>1. B = A \union {i} /\ i \notin A
        BY <1>1, <1>2, <1>3, <1>8
    <2>2. Cardinality(B) = Cardinality(A) + 1
        BY <1>4, <2>1, FS_AddElement
    <2>3. d.executed = c.executed + 1 /\ T = S
        BY <1>8
    <2> QED BY <1>2, <1>4, <1>5, <1>6, <2>2, <2>3 DEF Charged
<1>9. CASE c.pc[i] = "start" /\ d.pc[i] # "start"
    <2>1. B = A \ {i} /\ i \in A
        BY <1>1, <1>2, <1>3, <1>9
    <2>2. Cardinality(B) = Cardinality(A) - 1
        BY <1>4, <2>1, FS_RemoveElement
    <2>3. d.executed = c.executed /\ Cardinality(T) = Cardinality(S) + 1
        BY <1>9
    <2> QED BY <1>2, <1>4, <1>5, <1>6, <2>2, <2>3 DEF Charged
<1> QED BY <1>7, <1>8, <1>9

\* How a batch goes on: it may end while it runs, and settles when its pool has drained.
Onward(c, d) ==
    /\ Settles(c, d)
    /\ d.phase = c.phase \/ (c.phase = "running" /\ d.phase \in {"threw", "settling"})

\* A calm step after one that keeps the phase goes on.
LEMMA CalmOnward ==
    ASSUME NEW b, NEW c, NEW d, Calm(c, d), Settles(c, d), c.phase = b.phase
    PROVE  Onward(b, d)
BY DEF Calm, CalmFlags, Settles, Onward

\* While a slot is inside runSlot the batch runs.
LEMMA RunsRunning ==
    ASSUME NEW c, NEW i, Runs(c, i), Counts(c)
    PROVE  c.phase = "running" /\ c.active # 0
<1>1. i \in Seated(c) /\ IsFiniteSet(Seated(c))
    BY SeatedFinite DEF Runs, Seated, Inside
<1>2. Cardinality(Seated(c)) # 0
    BY <1>1, FS_EmptySet
<1> QED BY <1>2 DEF Runs, Pool, Counts

\* The journal knows the terminal that slot i has announced.
Told(c, P, i) ==
    c.pc[i] = "end" => P[i].auth = c.slot[i].auth /\ P[i].status = c.slot[i].status

\* A slot that has ended leaves runSlot.
LEMMA EndSlotGood ==
    ASSUME NEW c, NEW P, NEW S, NEW D, NEW x, Good(c, P, S, D, x), IsFiniteSet(S),
           NEW i, Runs(c, i), c.pc[i] # "start", Told(c, P, i)
    PROVE  Good(EndSlot(c, i), P, S, D, x) /\ Onward(c, EndSlot(c, i))
<1>1. c \in Closure /\ i \in Items /\ Pool(c) /\ Free(c, i) /\ c.pc[i] \in Inside
      /\ Linked(c, P, S, D, x) /\ Trusted(c, P) /\ Charged(c, S)
    BY DEF Runs, Pool, Good
<1>2. PICK closed \in BOOLEAN :
          closed = (c.closed \/ (policy = "fail-fast" /\ c.slot[i].status # "succeeded"))
    BY <1>1 DEF Closure
<1>3. PICK p \in [Items -> Steps] : p = [c.pc EXCEPT ![i] = "close"]
    BY <1>1 DEF Closure, Steps
<1>4. PICK a \in Int : a = c.active - 1
    BY <1>1 DEF Closure
<1>5. PICK n \in Nat : n = c.completed + 1
    BY <1>1 DEF Closure
<1>6. PICK d : d = [c EXCEPT !.closed = closed, !.pc = p, !.active = a, !.completed = n]
    OBVIOUS
<1>7. d = Leave([c EXCEPT !.closed = @ \/ (policy = "fail-fast" /\ c.slot[i].status # "succeeded"),
                          !.pc[i] = "close"], i)
    BY <1>1, <1>2, <1>3, <1>4, <1>5, <1>6 DEF Leave, Closure
<1>8. /\ d \in Closure /\ d.slot = c.slot /\ d.pc = p /\ d.queue = c.queue /\ d.next = c.next
      /\ d.active = a /\ d.executed = c.executed /\ d.prior = c.prior /\ d.phase = c.phase
      /\ d.closed = closed /\ d.abort = c.abort /\ d.fatal = c.fatal
    BY <1>1, <1>6 DEF Closure
<1>9. Pool(d) /\ d.pc[i] = "close" /\ Free(d, i)
    <2>1. PICK s \in {"close", "gone"} : s = "close"
        OBVIOUS
    <2>2. Left(c, d, i, s)
        BY <1>3, <1>4, <1>8, <2>1 DEF Left
    <2>3. Pool(d) /\ d.pc[i] = s /\ Free(d, i)
        BY <2>2, SlotLeaves
    <2> QED BY <2>1, <2>3
<1>10. Moves(c, d, i)
    <2>1. \A j \in Items \ {i} : p[j] = c.pc[j]
        BY <1>1, <1>3 DEF Closure
    <2> QED BY <1>2, <1>8, <2>1 DEF Moves
<1>11. c.phase = "running" /\ Counts(c)
    BY <1>1, RunsRunning DEF Linked
<1>12. Linked(d, P, S, D, x)
    <2>1. Course(c, P, i)
        BY <1>1 DEF Linked
    <2>2. Course(d, P, i) /\ Attempts(d, S, D, x, i)
        BY <1>8, <1>9, <2>1 DEF Course, Attempts
    <2>3. Clears(c, d, i)
        <3>1. c.slot[i].attempts \in Nat
            BY <1>1, SlotFacts
        <3> QED BY <1>8, <1>9, <3>1 DEF Clears
    <2>4. Counts(d)
        <3>1. \A j \in Items : c.pc[j] \in {"close", "gone"} => d.pc[j] = c.pc[j]
            BY <1>1, <1>10 DEF Moves, Inside
        <3>2. d.closed => \/ Aborted(d)
                          \/ /\ policy = "fail-fast"
                             /\ \E j \in Items : /\ d.pc[j] \in {"close", "gone"}
                                                 /\ d.slot[j].status # "succeeded"
            <4>1. CASE c.closed
                BY <1>8, <1>11, <3>1, <4>1 DEF Counts, Aborted
            <4>2. CASE ~c.closed
                BY <1>1, <1>2, <1>8, <1>9, <4>2
            <4> QED BY <4>1, <4>2
        <3>3. d.fatal => Aborted(d) /\ d.closed
            BY <1>2, <1>8, <1>11 DEF Counts, Aborted
        <3> QED BY <1>8, <1>11, <3>2, <3>3 DEF Counts
    <2>5. /\ \A j \in Items \ {i} : Course(c, P, j) /\ Attempts(c, S, D, x, j)
          /\ Pending(c)
        BY <1>1 DEF Linked
    <2> QED BY <1>1, <1>9, <1>10, <2>2, <2>3, <2>4, <2>5, MovesLink
<1>13. Trusted(d, P)
    <2>1. ~Aborted(c) => /\ c.slot[i].auth => P[i].auth
                         /\ c.slot[i].status = "succeeded" => P[i].status = "succeeded"
                         /\ c.slot[i].status = "skipped" => P[i].auth \/ d.closed
        <3>1. CASE c.pc[i] = "end"
            <4>1. c.slot[i].status # "skipped"
                BY <1>1, <3>1 DEF Linked, Course
            <4> QED BY <3>1, <4>1 DEF Told
        <3>2. CASE c.pc[i] # "end"
            BY <1>1, <1>10, <3>2 DEF Trusted, Moves
        <3> QED BY <3>1, <3>2
    <2> QED BY <1>1, <1>8, <1>10, <2>1, MovesTrust
<1>14. Charged(d, S)
    <2>1. d.prior = c.prior /\ d.executed = c.executed
          /\ (c.pc[i] = "start" <=> d.pc[i] = "start")
        BY <1>8, <1>9
    <2> QED BY <1>1, <1>10, <2>1, MovesCharge
<1>15. Good(d, P, S, D, x)
    BY <1>9, <1>12, <1>13, <1>14 DEF Good
<1>16. PICK s \in {"cancelled", "skipped"} : s = ClosedAs(d)
    BY DEF ClosedAs
<1>a. PICK f : f = IF d.closed THEN closeQueued(d, 0, s, i) ELSE AfterClosing(d, i)
    OBVIOUS
<1>18. Closer(d, i)
    BY <1>1, <1>9, Bounds DEF Closer, Items
<1>19. Pool(f) /\ Calm(d, f) /\ Settles(d, f)
    <2>1. s \in Statuses
        BY DEF Statuses, ItemTerminal
    <2>2. Pool(closeQueued(d, 0, s, i)) /\ Pool(AfterClosing(d, i))
        BY <1>9, <1>18, <2>1, CloseQueuedKeeps, AfterClosingKeeps
    <2>3. Calm(d, AfterClosing(d, i)) /\ Settles(d, AfterClosing(d, i))
        BY <1>8, <1>9, <1>11, <1>18, AfterClosingCalm
    <2>4. d.closed => Calm(d, closeQueued(d, 0, s, i)) /\ Settles(d, closeQueued(d, 0, s, i))
        BY <1>9, <1>18, CloseQueuedCalm
    <2> QED BY <1>a, <2>2, <2>3, <2>4
<1>20. EndSlot(c, i) = f
    BY <1>7, <1>16, <1>a DEF EndSlot
<1>21. Good(f, P, S, D, x) /\ Onward(c, f)
    BY <1>8, <1>15, <1>19, CalmGood, CalmOnward
<1> QED BY <1>20, <1>21

\* What else a slot that turns leaves as it is.
LEMMA TurnsMoves ==
    ASSUME NEW c, NEW i, Runs(c, i), NEW t \in Slot, NEW n \in Nat, NEW s \in Inside,
           NEW d, Turns(c, d, i, t, n, s)
    PROVE  /\ Moves(c, d, i) /\ d.executed = n /\ d.prior = c.prior /\ d.closed = c.closed
           /\ d.active = c.active /\ d.abort = c.abort /\ d.fatal = c.fatal /\ d.phase = c.phase
<1>1. c \in Closure /\ i \in Items
    BY SlotIs
<1>2. PICK w \in [Items -> Slot] : w = [c.slot EXCEPT ![i] = t]
    BY <1>1 DEF Closure
<1>3. PICK p \in [Items -> Steps] : p = [c.pc EXCEPT ![i] = s]
    BY <1>1 DEF Closure, Inside
<1>4. d = [c EXCEPT !.slot = w, !.executed = n, !.pc = p]
    BY <1>1, <1>2, <1>3 DEF Turns, Closure
<1>5. /\ d.slot = w /\ d.pc = p /\ d.executed = n /\ d.prior = c.prior /\ d.closed = c.closed
      /\ d.active = c.active /\ d.abort = c.abort /\ d.fatal = c.fatal /\ d.phase = c.phase
      /\ d.queue = c.queue
    BY <1>1, <1>4 DEF Closure
<1>6. \A j \in Items \ {i} : w[j] = c.slot[j] /\ p[j] = c.pc[j]
    BY <1>1, <1>2, <1>3 DEF Closure
<1> QED BY <1>5, <1>6 DEF Moves

\* While it runs, slots count as before, and nobody closes admission.
LEMMA MovesCounts ==
    ASSUME NEW c, Counts(c), NEW i \in Items, c.pc[i] \in Inside, NEW d, Moves(c, d, i),
           d.closed = c.closed, d.active = c.active
    PROVE  Counts(d)
<1>1. \A j \in Items : c.pc[j] \in {"close", "gone"} => d.pc[j] = c.pc[j] /\ d.slot[j] = c.slot[j]
    BY DEF Moves, Inside
<1>2. d.phase = c.phase /\ d.abort = c.abort /\ d.fatal = c.fatal
    BY DEF Moves
<1>3. d.closed => \/ Aborted(d)
                  \/ /\ policy = "fail-fast"
                     /\ \E j \in Items : /\ d.pc[j] \in {"close", "gone"}
                                         /\ d.slot[j].status # "succeeded"
    BY <1>1, <1>2 DEF Counts, Aborted
<1> QED BY <1>2, <1>3 DEF Counts, Aborted

\* A slot announces what it says.
LEMMA AnnouncesGood ==
    ASSUME NEW c, NEW P, NEW S, NEW D, NEW x, Good(c, P, S, D, x), NEW i, Runs(c, i),
           NEW kind \in SlotKinds, c.pc[i] = Waits[kind], NEW t \in Slot, t = c.slot[i],
           kind = "Started" => t.attempts # 0, NEW e, Tells(e, kind, i, t),
           kind = "Terminal" => e.status = t.status /\ e.auth = t.auth,
           kind = "Cancelled" => e.status = "cancelled"
    PROVE  Good(Emit(c, e), P, S, D, x) /\ Emit(c, e).phase = c.phase
<1>1. PICK f : f = Emit(c, e)
    OBVIOUS
<1>2. Pool(f)
    BY <1>1, Announces
<1>3. c \in Closure /\ i \in Items
    BY SlotIs
<1>4. Says(c, e)
    <2>1. e.kind = kind /\ e.item = i /\ e.attempt = t.attempts /\ i # 0 /\ t.attempts \in Nat
        BY <1>3, SlotFacts DEF Tells
    <2>2. kind \notin {"BatchStarted", "BatchSettled", "Closed"}
        BY DEF SlotKinds
    <2> QED BY <2>1, <2>2 DEF Says
<1>5. e \in Events /\ e.kind \notin {"Closed", "BatchSettled"}
    BY DEF Tells, SlotKinds
<1>6. /\ Linked(f, P, S, D, x) /\ f.phase = c.phase
      /\ Trusted(c, P) => Trusted(f, P)
      /\ Charged(c, S) => Charged(f, S)
    <2>1. Linked(c, P, S, D, x)
        BY DEF Good
    <2> QED BY <1>1, <1>3, <1>4, <1>5, <2>1, EmitLink
<1> QED BY <1>1, <1>2, <1>6 DEF Good

\* A step that keeps the phase goes on.
LEMMA OnwardSame ==
    ASSUME NEW c, NEW d, d.phase = c.phase
    PROVE  Onward(c, d)
BY DEF Onward, Settles

\* An aborted slot without a terminal is cancelled, and another leaves.
LEMMA AfterLoopGood ==
    ASSUME NEW c, NEW P, NEW S, NEW D, NEW x, Good(c, P, S, D, x), IsFiniteSet(S),
           NEW i, Runs(c, i), c.pc[i] # "start", Told(c, P, i)
    PROVE  Good(AfterLoop(c, i), P, S, D, x) /\ Onward(c, AfterLoop(c, i))
<1>0. c \in Closure /\ i \in Items /\ Pool(c) /\ Free(c, i) /\ c.pc[i] \in Inside
      /\ Linked(c, P, S, D, x) /\ Trusted(c, P) /\ Charged(c, S)
    BY DEF Runs, Pool, Good
<1>1. PICK t \in Slot : /\ t = [c.slot[i] EXCEPT !.status = "cancelled"]
                        /\ t.status = "cancelled" /\ t.attempts = c.slot[i].attempts
    <2>1. PICK u \in Slot : u = c.slot[i]
        BY SlotIs
    <2>2. PICK t \in Slot : t = [u EXCEPT !.status = "cancelled"]
        BY <2>1 DEF Slot, Statuses, ItemTerminal
    <2>3. t.status = "cancelled" /\ t.attempts = u.attempts
        BY <2>2 DEF Slot
    <2> QED BY <2>1, <2>2, <2>3
<1>2. PICK n \in Nat : n = c.executed
    BY SlotIs
<1>3. PICK s \in Inside : s = "cancel"
    BY DEF Inside, Steps
<1>4. PICK d : Turns(c, d, i, t, n, s)
    BY DEF Turns
<1>5. Runs(d, i) /\ d.pc[i] = s /\ d.slot[i] = t
    <2>1. Runs(c, i)
        OBVIOUS
    <2> QED BY ONLY <1>1, <1>2, <1>3, <1>4, <2>1, SlotTurns
<1>6. d = [c EXCEPT !.slot[i].status = "cancelled", !.pc[i] = "cancel"]
    BY <1>1, <1>2, <1>3, <1>4, SlotIs DEF Turns, Closure
<1>7. PICK e : e = [Event("Cancelled", i, t, i) EXCEPT !.auth = FALSE]
    OBVIOUS
<1>8. ASSUME Aborted(c), c.slot[i].status \notin ItemTerminal
      PROVE  Good(Emit(d, e), P, S, D, x) /\ Onward(c, Emit(d, e))
    <2>1. /\ Moves(c, d, i) /\ d.executed = n /\ d.prior = c.prior /\ d.closed = c.closed
          /\ d.active = c.active /\ d.abort = c.abort /\ d.fatal = c.fatal /\ d.phase = c.phase
        BY <1>1, <1>2, <1>3, <1>4, TurnsMoves
    <2>2. Linked(d, P, S, D, x)
        <3>1. Course(c, P, i) /\ Counts(c)
            BY <1>0 DEF Linked
        <3>2. Course(d, P, i) /\ Attempts(d, S, D, x, i)
            BY <1>1, <1>3, <1>5, <1>8, <2>1, <3>1 DEF Course, Attempts, Aborted, ItemTerminal
        <3>3. Clears(c, d, i)
            <4>1. c.slot[i].attempts \in Nat
                BY <1>0, SlotFacts
            <4> QED BY <1>1, <1>3, <1>5, <4>1 DEF Clears
        <3>4. Counts(d)
            BY <1>0, <2>1, <3>1, MovesCounts
        <3>5. /\ \A j \in Items \ {i} : Course(c, P, j) /\ Attempts(c, S, D, x, j)
              /\ Pending(c) /\ Pool(d)
            BY <1>0, <1>5 DEF Linked, Runs
        <3> QED BY <1>0, <2>1, <3>2, <3>3, <3>4, <3>5, MovesLink
    <2>3. Trusted(d, P)
        BY <1>8, <2>1 DEF Trusted, Aborted
    <2>4. Charged(d, S)
        <3>1. d.executed = c.executed /\ (c.pc[i] = "start" <=> d.pc[i] = "start")
            BY <1>2, <1>3, <1>5, <2>1
        <3> QED BY <1>0, <2>1, <3>1, MovesCharge
    <2>5. Good(d, P, S, D, x)
        BY <1>5, <2>2, <2>3, <2>4 DEF Good, Runs
    <2>6. PICK kind \in SlotKinds : kind = "Cancelled"
        BY DEF SlotKinds
    <2>7. d.pc[i] = Waits[kind] /\ kind # "Started" /\ kind # "Terminal"
        BY <1>3, <1>5, <2>6 DEF Waits
    <2>8. Tells(e, kind, i, t) /\ e.status = "cancelled"
        <3>1. PICK f : f = Event("Cancelled", i, t, i)
            OBVIOUS
        <3>2. Tells(f, kind, i, t)
            BY <1>0, <1>1, <2>6, <3>1, EventTells
        <3>3. f.status = "cancelled"
            BY <1>1, <3>1 DEF Event
        <3>4. e = [f EXCEPT !.auth = FALSE]
            BY <1>7, <3>1
        <3> QED BY <3>2, <3>3, <3>4, UnprovedTells DEF Tells, Events
    <2>9. Good(Emit(d, e), P, S, D, x) /\ Emit(d, e).phase = d.phase
        BY <1>1, <1>5, <2>5, <2>6, <2>7, <2>8, AnnouncesGood
    <2> QED BY <2>1, <2>9, OnwardSame
<1>9. AfterLoop(c, i) = IF Aborted(c) /\ ~c.fatal /\ c.slot[i].status \notin ItemTerminal
                        THEN Emit(d, e) ELSE EndSlot(c, i)
    <2>1. e = [Event("Cancelled", i, d.slot[i], i) EXCEPT !.auth = FALSE]
        BY <1>5, <1>7
    <2>2. AfterLoop(c, i) =
             IF Aborted(c) /\ ~c.fatal /\ c.slot[i].status \notin ItemTerminal
             THEN LET v == [c EXCEPT !.slot[i].status = "cancelled", !.pc[i] = "cancel"]
                  IN  Emit(v, [Event("Cancelled", i, v.slot[i], i) EXCEPT !.auth = FALSE])
             ELSE EndSlot(c, i)
        BY DEF AfterLoop
    <2> QED BY <1>6, <2>1, <2>2, Zenon
<1>10. Good(EndSlot(c, i), P, S, D, x) /\ Onward(c, EndSlot(c, i))
    BY EndSlotGood
<1> QED BY <1>8, <1>9, <1>10

\* Every attempt of item i has ended without success.
Ended(P, S, D, i) == P[i].status # "succeeded" /\ \A r \in S : r.item = i => r \in D

\* The next attempt of an item is counted and announced; all earlier ones have ended.
LEMMA RunSlotGood ==
    ASSUME NEW c, NEW P, NEW S, NEW D, NEW x, Good(c, P, S, D, x), Journal(P, S, D),
           NEW T, History(P, T, S, D, x),
           NEW i, Runs(c, i), c.pc[i] \in {"queued", "sleep"}
    PROVE  Good(RunSlot(c, i), P, S, D, x) /\ Onward(c, RunSlot(c, i))
<1>0. c \in Closure /\ i \in Items /\ Pool(c) /\ Free(c, i) /\ c.pc[i] \in Inside
      /\ Linked(c, P, S, D, x) /\ Trusted(c, P) /\ Charged(c, S) /\ IsFiniteSet(S)
    BY DEF Runs, Pool, Good, Journal
<1>1. CASE ~MayAttempt(c, i)
    <2>1. Told(c, P, i) /\ c.pc[i] # "start"
        BY DEF Told
    <2> QED BY <1>0, <1>1, <2>1, AfterLoopGood DEF RunSlot
<1>2. CASE MayAttempt(c, i)
    <2>1. PICK u \in Slot : u = c.slot[i]
        BY SlotIs
    <2>2. PICK t \in Slot : t = [u EXCEPT !.attempts = @ + 1, !.status = "running"]
        <3>1. u.attempts + 1 \in 0..MaxAttempts
            BY <1>2, <2>1, Bounds DEF MayAttempt, Slot
        <3> QED BY <3>1 DEF Slot, Statuses
    <2>3. t.attempts = u.attempts + 1 /\ t.status = "running" /\ t.auth = u.auth
          /\ u.attempts \in Nat /\ t.attempts # 0
        BY <2>2, Bounds DEF Slot
    <2>4. PICK n \in Nat : n = c.executed + 1
        BY SlotIs
    <2>5. PICK s \in Inside : s = "start"
        BY DEF Inside, Steps
    <2>6. PICK d : Turns(c, d, i, t, n, s)
        BY DEF Turns
    <2>7. Runs(d, i) /\ d.pc[i] = s /\ d.slot[i] = t
        <3>1. Runs(c, i)
            OBVIOUS
        <3> QED BY ONLY <2>2, <2>4, <2>5, <2>6, <3>1, SlotTurns
    <2>8. d = [c EXCEPT !.slot[i].attempts = @ + 1, !.slot[i].status = "running",
                        !.executed = @ + 1, !.pc[i] = "start"]
        <3>1. t = [c.slot[i] EXCEPT !.attempts = @ + 1, !.status = "running"]
            BY <2>1, <2>2
        <3>2. Turns(c, d, i, t, n, "start") /\ n = c.executed + 1
            BY <2>4, <2>5, <2>6
        <3> QED BY ONLY <1>0, <3>1, <3>2, CountsAttempt
    <2>9. /\ Moves(c, d, i) /\ d.executed = n /\ d.prior = c.prior /\ d.closed = c.closed
          /\ d.active = c.active /\ d.abort = c.abort /\ d.fatal = c.fatal /\ d.phase = c.phase
        BY <2>2, <2>4, <2>5, <2>6, TurnsMoves
    <2>10. Course(c, P, i) /\ Attempts(c, S, D, x, i) /\ Counts(c)
        BY <1>0 DEF Linked
    <2>11. u.status # "succeeded" /\ P[i].status # "succeeded"
        BY <2>1, <2>10 DEF Course
    <2>12. Linked(d, P, S, D, x)
        <3>1. Course(d, P, i)
            <4>1. P[i].attempts \in Nat /\ P[i].attempts <= u.attempts
                BY <1>0, <2>1, <2>10 DEF Journal, Slot, Course
            <4> QED BY <2>3, <2>5, <2>7, <2>11, <4>1 DEF Course
        <3>2. Attempts(d, S, D, x, i)
            <4>1. ASSUME NEW r \in S, r.item = i PROVE r \in D
                <5>1. CASE c.pc[i] = "sleep"
                    BY <2>10, <4>1, <5>1 DEF Attempts
                <5>2. CASE c.pc[i] = "queued"
                    <6>1. r.exec < x
                        BY <2>10, <4>1, <5>2 DEF Attempts
                    <6> QED BY <2>11, <4>1, <6>1 DEF History
                <5> QED BY <5>1, <5>2
            <4> QED BY <2>5, <2>7, <4>1 DEF Attempts
        <3>3. Clears(c, d, i)
            BY <2>1, <2>3, <2>5, <2>7 DEF Clears
        <3>4. Counts(d)
            BY <1>0, <2>9, <2>10, MovesCounts
        <3>5. /\ \A j \in Items \ {i} : Course(c, P, j) /\ Attempts(c, S, D, x, j)
              /\ Pending(c) /\ Pool(d)
            BY <1>0, <2>7 DEF Linked, Runs
        <3> QED BY <1>0, <2>9, <3>1, <3>2, <3>3, <3>4, <3>5, MovesLink
    <2>13. Trusted(d, P)
        <3>1. ~Aborted(c) => (c.slot[i].auth => P[i].auth)
            BY <1>0 DEF Trusted
        <3> QED BY <1>0, <2>1, <2>3, <2>7, <2>9, <3>1, MovesTrust
    <2>14. Charged(d, S)
        <3>1. d.executed = c.executed + 1 /\ c.pc[i] # "start" /\ d.pc[i] = "start"
            BY <2>4, <2>5, <2>7, <2>9
        <3> QED BY <1>0, <2>9, <3>1, MovesCharge
    <2>15. Good(d, P, S, D, x)
        BY <2>7, <2>12, <2>13, <2>14 DEF Good, Runs
    <2>16. PICK e : e = Event("Started", i, t, i)
        OBVIOUS
    <2>17. Good(Emit(d, e), P, S, D, x) /\ Emit(d, e).phase = d.phase
        <3>1. PICK kind \in SlotKinds : kind = "Started"
            BY DEF SlotKinds
        <3>2. d.pc[i] = Waits[kind] /\ kind # "Terminal" /\ kind # "Cancelled"
            BY <2>5, <2>7, <3>1 DEF Waits
        <3>3. Tells(e, kind, i, t)
            BY <1>0, <2>16, <3>1, EventTells
        <3> QED BY <2>3, <2>7, <2>15, <3>1, <3>2, <3>3, AnnouncesGood
    <2>18. RunSlot(c, i) = Emit(d, e)
        BY <1>2, <2>7, <2>8, <2>16 DEF RunSlot
    <2> QED BY <2>9, <2>17, <2>18, OnwardSame
<1> QED BY <1>1, <1>2

\* The item waits for its next attempt; those that it has made have ended.
LEMMA RequeueGood ==
    ASSUME NEW c, NEW P, NEW S, NEW D, NEW x, Good(c, P, S, D, x), IsFiniteSet(S),
           NEW i, Runs(c, i), c.pc[i] \in {"end", "rate"}, Told(c, P, i), Ended(P, S, D, i)
    PROVE  Good(Requeue(c, i), P, S, D, x) /\ Requeue(c, i).phase = c.phase
<1>0. c \in Closure /\ i \in Items /\ Pool(c) /\ Free(c, i) /\ c.pc[i] \in Inside
      /\ Linked(c, P, S, D, x) /\ Trusted(c, P) /\ Charged(c, S)
    BY DEF Runs, Pool, Good
<1>1. PICK u \in Slot : u = c.slot[i]
    BY SlotIs
<1>2. PICK t \in Slot : t = [u EXCEPT !.status = "queued"]
    BY DEF Slot, Statuses
<1>3. t.attempts = u.attempts /\ t.status = "queued" /\ t.auth = u.auth /\ u.attempts \in Nat
    BY <1>2 DEF Slot
<1>4. PICK n \in Nat : n = c.executed
    BY SlotIs
<1>5. PICK s \in Inside : s = "requeue"
    BY DEF Inside, Steps
<1>6. PICK d : Turns(c, d, i, t, n, s)
    BY DEF Turns
<1>7. Runs(d, i) /\ d.pc[i] = s /\ d.slot[i] = t
    <2>1. Runs(c, i)
        OBVIOUS
    <2> QED BY ONLY <1>2, <1>4, <1>5, <1>6, <2>1, SlotTurns
<1>8. d = [c EXCEPT !.slot[i].status = "queued", !.pc[i] = "requeue"]
    BY <1>1, <1>2, <1>4, <1>5, <1>6, SlotIs DEF Turns, Closure
<1>9. /\ Moves(c, d, i) /\ d.executed = n /\ d.prior = c.prior /\ d.closed = c.closed
      /\ d.active = c.active /\ d.abort = c.abort /\ d.fatal = c.fatal /\ d.phase = c.phase
    BY <1>2, <1>4, <1>5, <1>6, TurnsMoves
<1>10. Course(c, P, i) /\ Counts(c)
    BY <1>0 DEF Linked
<1>11. Linked(d, P, S, D, x)
    <2>1. Course(d, P, i)
        BY <1>1, <1>3, <1>5, <1>7, <1>10 DEF Course, Ended
    <2>2. Attempts(d, S, D, x, i)
        BY <1>5, <1>7 DEF Attempts, Ended
    <2>3. Clears(c, d, i)
        BY <1>1, <1>3, <1>5, <1>7 DEF Clears
    <2>4. Counts(d)
        BY <1>0, <1>9, <1>10, MovesCounts
    <2>5. /\ \A j \in Items \ {i} : Course(c, P, j) /\ Attempts(c, S, D, x, j)
          /\ Pending(c) /\ Pool(d)
        BY <1>0, <1>7 DEF Linked, Runs
    <2> QED BY <1>0, <1>9, <2>1, <2>2, <2>3, <2>4, <2>5, MovesLink
<1>12. Trusted(d, P)
    <2>1. ~Aborted(c) => (c.slot[i].auth => P[i].auth)
        BY <1>0 DEF Trusted, Told
    <2> QED BY <1>0, <1>1, <1>3, <1>7, <1>9, <2>1, MovesTrust
<1>13. Charged(d, S)
    <2>1. d.executed = c.executed /\ (c.pc[i] = "start" <=> d.pc[i] = "start")
        BY <1>4, <1>5, <1>7, <1>9
    <2> QED BY <1>0, <1>9, <2>1, MovesCharge
<1>14. Good(d, P, S, D, x)
    BY <1>7, <1>11, <1>12, <1>13 DEF Good, Runs
<1>15. PICK e : e = Event("Requeued", i, t, i)
    OBVIOUS
<1>16. Good(Emit(d, e), P, S, D, x) /\ Emit(d, e).phase = d.phase
    <2>1. PICK kind \in SlotKinds : kind = "Requeued"
        BY DEF SlotKinds
    <2>2. d.pc[i] = Waits[kind] /\ kind \notin {"Started", "Terminal", "Cancelled"}
        BY <1>5, <1>7, <2>1 DEF Waits
    <2>3. Tells(e, kind, i, t)
        BY <1>0, <1>15, <2>1, EventTells
    <2> QED BY <1>7, <1>14, <2>1, <2>2, <2>3, AnnouncesGood
<1>a. Requeue(c, i) = Emit(d, e)
    BY <1>7, <1>8, <1>15 DEF Requeue
<1> QED BY <1>9, <1>16, <1>a

\* The capacity and the ramp timer are set.
Timers(c, d, k, r) == d = [c EXCEPT !.capacity = k, !.ramp = r]

\* Neither says anything of the journal.
LEMMA TimersGood ==
    ASSUME NEW c, NEW P, NEW S, NEW D, NEW x, Good(c, P, S, D, x),
           NEW k \in 1..Ceiling, NEW r \in BOOLEAN, NEW d, Timers(c, d, k, r)
    PROVE  /\ Good(d, P, S, D, x) /\ d.slot = c.slot /\ d.pc = c.pc /\ d.phase = c.phase
           /\ d.closed = c.closed /\ d.abort = c.abort /\ Calm(c, d)
           /\ \A i : Runs(c, i) => Runs(d, i)
<1>1. Pool(c)
    BY DEF Good
<1>2. /\ d.slot = c.slot /\ d.pc = c.pc /\ d.queue = c.queue /\ d.next = c.next
      /\ d.active = c.active /\ d.completed = c.completed /\ d.executed = c.executed
      /\ d.prior = c.prior /\ d.phase = c.phase /\ d.closed = c.closed /\ d.abort = c.abort
      /\ d.fatal = c.fatal
    BY <1>1 DEF Pool, Closure, Timers
<1>3. SameSeats(c, d)
    BY <1>1 DEF Pool, Closure, SameSeats, Timers
<1>4. Pool(d) /\ \A i \in Items : Free(c, i) => Free(d, i)
    BY <1>1, <1>3, SeatsKeep
<1>5. CalmFlags(c, d)
    BY <1>2 DEF CalmFlags, Aborted
<1>6. Calm(c, d)
    BY <1>2, <1>5, CalmFields
<1>7. Good(d, P, S, D, x)
    BY <1>4, <1>6, CalmGood
<1> QED BY <1>2, <1>4, <1>6, <1>7 DEF Runs

\* The ramp timer is set while a slot runs.
LEMMA RampGood ==
    ASSUME NEW c, NEW P, NEW S, NEW D, NEW x, Good(c, P, S, D, x)
    PROVE  /\ Good(scheduleRamp(c), P, S, D, x)
           /\ scheduleRamp(c).slot = c.slot /\ scheduleRamp(c).pc = c.pc
           /\ scheduleRamp(c).phase = c.phase
           /\ \A i : Runs(c, i) => Runs(scheduleRamp(c), i)
<1>1. PICK r \in BOOLEAN : r = (c.ramp \/ (~c.closed /\ c.capacity < Ceiling /\ c.next <= N))
    BY DEF Good, Pool, Closure
<1>2. PICK k \in 1..Ceiling : k = c.capacity
    BY DEF Good, Pool, Closure
<1>3. PICK d : d = [c EXCEPT !.capacity = k, !.ramp = r]
    OBVIOUS
<1>4. d = scheduleRamp(c)
    BY <1>1, <1>2, <1>3 DEF scheduleRamp, Good, Pool, Closure
<1>5. /\ Good(d, P, S, D, x) /\ d.slot = c.slot /\ d.pc = c.pc /\ d.phase = c.phase
      /\ \A i : Runs(c, i) => Runs(d, i)
    <2>1. Timers(c, d, k, r)
        BY <1>3 DEF Timers
    <2> QED BY <2>1, TimersGood
<1> QED BY <1>4, <1>5

\* The capacity is halved before the item waits for its next attempt.
LEMMA RateLimitGood ==
    ASSUME NEW c, NEW P, NEW S, NEW D, NEW x, Good(c, P, S, D, x), IsFiniteSet(S),
           NEW i, Runs(c, i), c.pc[i] = "end", c.slot[i].status = "failed",
           Told(c, P, i), Ended(P, S, D, i)
    PROVE  Good(applyRateLimit(c, i), P, S, D, x) /\ applyRateLimit(c, i).phase = c.phase
<1>1. PICK half \in 1..Ceiling : half = IF c.capacity = 1 THEN 1 ELSE c.capacity \div 2
    <2>1. PICK k \in 1..Ceiling : k = c.capacity
        BY SlotIs
    <2>2. k = 1 \/ k \div 2 \in 1..Ceiling
        BY Bounds
    <2>3. 1 \in 1..Ceiling
        BY Bounds
    <2> QED BY <2>1, <2>2, <2>3
<1>2. PICK d : d = [c EXCEPT !.capacity = half, !.ramp = FALSE]
    OBVIOUS
<1>3. /\ Good(d, P, S, D, x) /\ d.slot = c.slot /\ d.pc = c.pc /\ d.phase = c.phase
      /\ Runs(d, i)
    <2>1. PICK r \in BOOLEAN : r = FALSE
        OBVIOUS
    <2>2. Timers(c, d, half, r)
        BY <1>2, <2>1 DEF Timers
    <2> QED BY <1>1, <2>1, <2>2, TimersGood
<1>4. PICK f : f = scheduleRamp(d)
    OBVIOUS
<1>5. /\ Good(f, P, S, D, x) /\ f.slot = c.slot /\ f.pc = c.pc /\ f.phase = c.phase
      /\ Runs(f, i)
    BY <1>3, <1>4, RampGood
<1>6. Good(Requeue(c, i), P, S, D, x) /\ Requeue(c, i).phase = c.phase
    BY RequeueGood
<1>7. Good(Requeue(f, i), P, S, D, x) /\ Requeue(f, i).phase = c.phase
    <2>1. Told(f, P, i) /\ f.pc[i] \in {"end", "rate"}
        BY <1>5 DEF Told
    <2> QED BY <1>5, <2>1, RequeueGood
<1>8. PICK t \in Slot : t = d.slot[i]
    BY <1>3, SlotIs
<1>9. PICK n \in Nat : n = d.executed
    BY <1>3, SlotIs
<1>10. PICK s \in Inside : s = "rate"
    BY DEF Inside, Steps
<1>11. PICK v : Turns(d, v, i, t, n, s)
    BY DEF Turns
<1>12. Runs(v, i) /\ v.pc[i] = s /\ v.slot[i] = t
    BY ONLY <1>3, <1>8, <1>9, <1>10, <1>11, SlotTurns
<1>13. /\ Moves(d, v, i) /\ v.executed = n /\ v.prior = d.prior /\ v.closed = d.closed
       /\ v.active = d.active /\ v.abort = d.abort /\ v.fatal = d.fatal /\ v.phase = d.phase
    BY ONLY <1>3, <1>8, <1>9, <1>10, <1>11, TurnsMoves
<1>14. v = [d EXCEPT !.pc[i] = "rate"]
    <2>1. Runs(d, i)
        BY <1>3
    <2>2. v = [d EXCEPT !.slot = [d.slot EXCEPT ![i] = t], !.executed = n, !.pc[i] = s]
        BY <1>11 DEF Turns
    <2> QED BY ONLY <2>1, <2>2, <1>8, <1>9, <1>10, SlotIs DEF Closure
<1>15. i \in Items /\ Pool(d) /\ Free(d, i) /\ d.pc[i] \in Inside
      /\ Linked(d, P, S, D, x) /\ Trusted(d, P) /\ Charged(d, S) /\ d \in Closure
    BY <1>3 DEF Runs, Good, Pool
<1>16. Course(d, P, i) /\ Counts(d)
    BY <1>15 DEF Linked
<1>a. Linked(v, P, S, D, x)
    <2>1. Course(v, P, i)
        BY <1>3, <1>8, <1>10, <1>12, <1>16 DEF Course
    <2>2. Attempts(v, S, D, x, i)
        BY <1>10, <1>12 DEF Attempts, Ended
    <2>3. Clears(d, v, i)
        BY <1>3, <1>10, <1>12 DEF Clears
    <2>4. Counts(v)
        BY <1>13, <1>15, <1>16, MovesCounts
    <2>5. /\ \A j \in Items \ {i} : Course(d, P, j) /\ Attempts(d, S, D, x, j)
          /\ Pending(d) /\ Pool(v)
        BY <1>12, <1>15 DEF Linked, Runs
    <2> QED BY <1>13, <1>15, <2>1, <2>2, <2>3, <2>4, <2>5, MovesLink
<1>18. Trusted(v, P)
    <2>1. d.slot[i].auth => P[i].auth
        BY <1>3 DEF Told
    <2>2. v.slot[i].status = "failed" /\ v.slot[i].auth = d.slot[i].auth
        BY <1>3, <1>8, <1>12
    <2> QED BY <1>13, <1>15, <2>1, <2>2, MovesTrust
<1>19. Charged(v, S)
    <2>1. v.executed = d.executed /\ (d.pc[i] = "start" <=> v.pc[i] = "start")
        BY <1>3, <1>9, <1>10, <1>12, <1>13
    <2> QED BY <1>13, <1>15, <2>1, MovesCharge
<1>20. Good(v, P, S, D, x)
    BY <1>12, <1>a, <1>18, <1>19 DEF Good, Runs
<1>21. PICK e : e = Event("Capacity", i, t, i)
    OBVIOUS
<1>22. Good(Emit(v, e), P, S, D, x) /\ Emit(v, e).phase = v.phase
    <2>1. PICK kind \in SlotKinds : kind = "Capacity"
        BY DEF SlotKinds
    <2>2. v.pc[i] = Waits[kind] /\ kind \notin {"Started", "Terminal", "Cancelled"}
        BY <1>10, <1>12, <2>1 DEF Waits
    <2>3. Tells(e, kind, i, t)
        BY <1>15, <1>21, <2>1, EventTells
    <2> QED BY <1>12, <1>20, <2>1, <2>2, <2>3, AnnouncesGood
<1>23. applyRateLimit(c, i) = IF ~Adaptive THEN Requeue(c, i)
                              ELSE IF half # c.capacity THEN Emit(v, e)
                              ELSE Requeue(f, i)
    <2>1. e = Event("Capacity", i, d.slot[i], i)
        BY <1>8, <1>21
    <2> QED BY <1>1, <1>2, <1>4, <1>14, <2>1 DEF applyRateLimit
<1>24. v.phase = c.phase
    BY <1>3, <1>13
<1> QED BY <1>6, <1>7, <1>22, <1>23, <1>24

\* What follows the terminal of an attempt: it is made again only if it has ended.
LEMMA AfterTerminalGood ==
    ASSUME NEW c, NEW P, NEW S, NEW D, NEW x, Good(c, P, S, D, x), IsFiniteSet(S),
           NEW e, NEW i, i = e.item, Runs(c, i), c.pc[i] = "end", c.slot[i].status = e.status,
           Told(c, P, i), e.auth /\ e.status # "succeeded" => Ended(P, S, D, i)
    PROVE  Good(AfterTerminal(c, e), P, S, D, x) /\ Onward(c, AfterTerminal(c, e))
<1>1. CASE ~Retries(c, e)
    <2>1. Good(AfterLoop(c, i), P, S, D, x) /\ Onward(c, AfterLoop(c, i))
        BY AfterLoopGood
    <2> QED BY <1>1, <2>1 DEF AfterTerminal
<1>2. CASE Retries(c, e)
    <2>1. c.slot[i].status = "failed" /\ Ended(P, S, D, i)
        BY <1>2 DEF Retries
    <2>2. Good(Requeue(c, i), P, S, D, x) /\ Requeue(c, i).phase = c.phase
        BY <2>1, RequeueGood
    <2>3. Good(applyRateLimit(c, i), P, S, D, x) /\ applyRateLimit(c, i).phase = c.phase
        BY <2>1, RateLimitGood
    <2> QED BY <1>2, <2>2, <2>3, OnwardSame DEF AfterTerminal
<1> QED BY <1>1, <1>2

\* A failure makes no claim: the batch throws when its slots have left.
LEMMA FailGood ==
    ASSUME NEW c, NEW P, NEW S, NEW D, NEW x, Pool(c), Linked(c, P, S, D, x)
    PROVE  Good(failRun(c), P, S, D, x) /\ Onward(c, failRun(c)) /\ failRun(c).fatal
<1>1. PICK f : f = failRun(c)
    OBVIOUS
<1>2. Calm(c, f) /\ Settles(c, f) /\ f.fatal /\ Aborted(f)
    <2>1. c.fatal => c.closed /\ Aborted(c)
        BY DEF Linked, Counts
    <2> QED BY <1>1, <2>1, FailRunCalm
<1>3. Pool(f) /\ Linked(f, P, S, D, x)
    BY <1>1, <1>2, FailRunKeeps, CalmLinks
<1>4. Trusted(f, P) /\ Charged(f, S)
    BY <1>2 DEF Trusted, Charged
<1> QED BY <1>1, <1>2, <1>3, <1>4, CalmOnward DEF Good

\* d is c when slot i has left without its terminal, perhaps in failure.
Drops(c, d, i) ==
    /\ Left(c, d, i, "gone") /\ Moves(c, d, i) /\ d.closed = c.closed
    /\ d.slot[i].attempts = c.slot[i].attempts
    /\ d.slot[i] = c.slot[i] \/ d.slot[i].status = "failed"

\* A slot whose append is refused leaves without a terminal.
LEMMA DropsLink ==
    ASSUME NEW c, NEW P, NEW S, NEW D, NEW x, Linked(c, P, S, D, x),
           NEW i, Runs(c, i), NEW d, Drops(c, d, i),
           d.slot[i] # c.slot[i] => c.pc[i] = "queued"
    PROVE  Pool(d) /\ Linked(d, P, S, D, x)
<1>1. c \in Closure /\ i \in Items /\ Pool(c) /\ Free(c, i) /\ c.pc[i] \in Inside
    BY DEF Runs, Pool
<1>2. Left(c, d, i, "gone") /\ Moves(c, d, i) /\ d.closed = c.closed
    BY DEF Drops
<1>3. Pool(d) /\ d.pc[i] = "gone"
    <2>1. PICK s \in {"close", "gone"} : s = "gone"
        OBVIOUS
    <2>2. Left(c, d, i, s)
        BY <1>2, <2>1
    <2> QED BY <2>1, <2>2, SlotLeaves
<1>4. Course(c, P, i) /\ Counts(c) /\ c.phase = "running"
    BY RunsRunning DEF Linked, Runs
<1>5. Course(d, P, i) /\ Attempts(d, S, D, x, i)
    <2>1. Attempts(d, S, D, x, i)
        BY <1>3 DEF Attempts
    <2>2. CASE d.slot[i] = c.slot[i]
        BY <1>3, <1>4, <2>1, <2>2 DEF Course
    <2>3. CASE d.slot[i] # c.slot[i]
        BY <1>3, <1>4, <2>1, <2>3 DEF Course, Drops
    <2> QED BY <2>2, <2>3
<1>6. Clears(c, d, i)
    <2>1. c.slot[i].attempts \in Nat
        BY <1>1, SlotFacts
    <2> QED BY <1>3, <2>1 DEF Clears, Drops
<1>7. Counts(d)
    <2>1. \A j \in Items : c.pc[j] \in {"close", "gone"} => d.pc[j] = c.pc[j] /\ d.slot[j] = c.slot[j]
        BY <1>1, <1>2 DEF Moves, Inside
    <2>2. d.phase = "running" /\ d.abort = c.abort /\ d.fatal = c.fatal
        BY <1>2, <1>4 DEF Moves
    <2> QED BY <1>2, <1>4, <2>1, <2>2 DEF Counts, Aborted
<1>8. /\ \A j \in Items \ {i} : Course(c, P, j) /\ Attempts(c, S, D, x, j)
      /\ Pending(c)
    BY DEF Linked
<1> QED BY <1>1, <1>2, <1>3, <1>5, <1>6, <1>7, <1>8, MovesLink

\* The append that a slot awaits is refused.
LEMMA SlotThrowsGood ==
    ASSUME NEW c, NEW P, NEW S, NEW D, NEW x, Linked(c, P, S, D, x), NEW i, Runs(c, i)
    PROVE  Good(SlotThrows(c, i), P, S, D, x) /\ Onward(c, SlotThrows(c, i))
<1>1. c \in Closure /\ i \in Items
    BY SlotIs
<1>2. PICK p \in [Items -> Steps] : p = [c.pc EXCEPT ![i] = "gone"]
    BY <1>1 DEF Closure, Steps
<1>3. PICK a \in Int : a = c.active - 1
    BY <1>1 DEF Closure
<1>4. PICK n \in Nat : n = c.completed + 1
    BY <1>1 DEF Closure
<1>5. PICK d : d = [c EXCEPT !.pc = p, !.active = a, !.completed = n]
    OBVIOUS
<1>6. d = Leave([c EXCEPT !.pc[i] = "gone"], i)
    BY <1>1, <1>2, <1>3, <1>4, <1>5 DEF Leave, Closure
<1>7. /\ d \in Closure /\ d.slot = c.slot /\ d.pc = p /\ d.queue = c.queue /\ d.next = c.next
      /\ d.active = a /\ d.phase = c.phase
      /\ d.closed = c.closed /\ d.abort = c.abort /\ d.fatal = c.fatal
    BY <1>1, <1>5 DEF Closure
<1>8. Drops(c, d, i)
    <2>1. Left(c, d, i, "gone")
        BY <1>2, <1>3, <1>7 DEF Left
    <2>2. \A j \in Items \ {i} : p[j] = c.pc[j]
        BY <1>1, <1>2 DEF Closure
    <2>3. Moves(c, d, i)
        BY <1>7, <2>2 DEF Moves
    <2> QED BY <1>7, <2>1, <2>3 DEF Drops
<1>9. Pool(d) /\ Linked(d, P, S, D, x)
    BY <1>7, <1>8, DropsLink
<1>10. Good(failRun(d), P, S, D, x) /\ Onward(d, failRun(d))
    BY <1>9, FailGood
<1>11. SlotThrows(c, i) = failRun(d)
    BY <1>6 DEF SlotThrows
<1> QED BY <1>7, <1>10, <1>11 DEF Onward, Settles

\* The queued event of an admitted slot is refused.
LEMMA AdmissionThrowsGood ==
    ASSUME NEW c, NEW P, NEW S, NEW D, NEW x, Linked(c, P, S, D, x), NEW i, Runs(c, i),
           c.pc[i] = "queued"
    PROVE  Good(AdmissionThrows(c, i), P, S, D, x) /\ Onward(c, AdmissionThrows(c, i))
<1>1. c \in Closure /\ i \in Items /\ Pool(c)
    BY SlotIs DEF Runs
<1>2. PICK p \in [Items -> Steps] : p = [c.pc EXCEPT ![i] = "gone"]
    BY <1>1 DEF Closure, Steps
<1>3. PICK a \in Int : a = c.active - 1
    BY <1>1 DEF Closure
<1>4. PICK n \in Nat : n = c.completed + 1
    BY <1>1 DEF Closure
<1>5. PICK u \in Slot : u = c.slot[i]
    BY SlotIs
<1>6. PICK t \in Slot : t = [u EXCEPT !.status = "failed", !.auth = FALSE]
    BY <1>5 DEF Slot, Statuses, ItemTerminal
<1>7. t.attempts = u.attempts /\ t.status = "failed"
    BY <1>5, <1>6 DEF Slot
<1>8. PICK w \in [Items -> Slot] : w = [c.slot EXCEPT ![i] = t]
    BY <1>1, <1>6 DEF Closure
<1>9. PICK d : d = [c EXCEPT !.active = a, !.completed = n, !.pc = p, !.slot = w]
    OBVIOUS
<1>10. d = [Leave(c, i) EXCEPT !.pc[i] = "gone",
                    !.slot[i] = [@ EXCEPT !.status = "failed", !.auth = FALSE]]
    <2>1. PICK v : v = Leave(c, i)
        OBVIOUS
    <2>2. v = [c EXCEPT !.active = a, !.completed = n]
        BY <1>1, <1>3, <1>4, <2>1 DEF Leave, Closure
    <2>3. v \in Closure /\ v.pc = c.pc /\ v.slot = c.slot
        BY <1>1, <1>3, <1>4, <2>2 DEF Closure
    <2>4. d = [v EXCEPT !.pc = p, !.slot = w]
        BY <1>1, <1>9, <2>2 DEF Closure
    <2>5. t = [v.slot[i] EXCEPT !.status = "failed", !.auth = FALSE]
        BY <1>5, <1>6, <2>3
    <2>6. [v EXCEPT !.pc[i] = "gone", !.slot[i] = [@ EXCEPT !.status = "failed", !.auth = FALSE]]
             = [v EXCEPT !.pc = p, !.slot = w]
        BY <1>1, <1>2, <1>8, <2>3, <2>5 DEF Closure, Slot
    <2> QED BY <2>1, <2>4, <2>6
<1>11. /\ d \in Closure /\ d.slot = w /\ d.pc = p /\ d.queue = c.queue /\ d.next = c.next
       /\ d.active = a /\ d.phase = c.phase
       /\ d.closed = c.closed /\ d.abort = c.abort /\ d.fatal = c.fatal
    BY <1>1, <1>2, <1>3, <1>4, <1>8, <1>9 DEF Closure
<1>12. Drops(c, d, i)
    <2>1. Left(c, d, i, "gone")
        BY <1>2, <1>3, <1>11 DEF Left
    <2>2. \A j \in Items \ {i} : p[j] = c.pc[j] /\ w[j] = c.slot[j]
        BY <1>1, <1>2, <1>8 DEF Closure
    <2>3. Moves(c, d, i)
        BY <1>11, <2>2 DEF Moves
    <2>4. d.slot[i] = t
        BY <1>1, <1>8, <1>11 DEF Closure
    <2> QED BY <1>5, <1>7, <1>11, <2>1, <2>3, <2>4 DEF Drops
<1>13. Pool(d) /\ Linked(d, P, S, D, x)
    BY <1>12, DropsLink
<1>14. PICK f : f = failRun(d)
    OBVIOUS
<1>15. Good(f, P, S, D, x) /\ Onward(d, f) /\ f.fatal
    BY <1>13, <1>14, FailGood
<1>16. PICK g : g = maybeComplete(f)
    OBVIOUS
<1>a. Pool(g) /\ Calm(f, g) /\ Settles(f, g)
    BY <1>15, <1>16, MaybeCompleteKeeps, MaybeCompleteCalm DEF Good
<1>18. Good(g, P, S, D, x)
    BY <1>15, <1>a, CalmGood
<1>19. Onward(c, g)
    <2>1. g.fatal
        BY <1>15, <1>a DEF Calm, CalmFlags
    <2>2. g.phase = f.phase \/ (f.phase = "running" /\ g.phase \in {"threw", "settling"})
        BY <1>a DEF Calm, CalmFlags
    <2> QED BY <1>11, <1>15, <1>a, <2>1, <2>2 DEF Onward, Settles
<1>20. AdmissionThrows(c, i) = g
    BY <1>10, <1>14, <1>16 DEF AdmissionThrows
<1> QED BY <1>18, <1>19, <1>20

\* What is known of the event at the head of the queue, when it is taken off.
Heads(c, e) ==
    /\ Says(c, e) /\ Awaited(c, e)
    /\ \A k \in DOMAIN c.queue :
          /\ e.kind = "Started" /\ c.queue[k].kind = "Closed" => c.queue[k].item # e.item
          /\ e.kind = "BatchSettled" => c.queue[k].kind # "BatchSettled"

\* d is c without e, the head of its queue.
Pops(c, d, e) == c.queue # <<>> /\ d = [c EXCEPT !.queue = Tail(@)] /\ e = Head(c.queue)

\* The head of the queue is taken off.
LEMMA PopGood ==
    ASSUME NEW c, NEW P, NEW S, NEW D, NEW x, Good(c, P, S, D, x), NEW d, NEW e, Pops(c, d, e)
    PROVE  /\ Good(d, P, S, D, x) /\ Heads(d, e) /\ Due(d, e)
           /\ d.phase = c.phase /\ d.closed = c.closed /\ d.active = c.active /\ d.fatal = c.fatal
           /\ Starts(c) /\ c.phase = "starting" => d.queue = <<>> /\ e.kind = "BatchStarted"
           /\ \A k \in DOMAIN d.queue : \E l \in DOMAIN c.queue : d.queue[k] = c.queue[l]
           /\ \E l \in DOMAIN c.queue : e = c.queue[l]
<1>0. Pool(c) /\ Linked(c, P, S, D, x) /\ Trusted(c, P) /\ Charged(c, S)
    BY DEF Good
<1>a. c.queue # <<>> /\ d = [c EXCEPT !.queue = Tail(@)] /\ e = Head(c.queue)
    BY DEF Pops
<1>1. PICK q \in Seq(Events) : q = c.queue
    BY <1>0 DEF Pool, Closure
<1>2. q # <<>> /\ e = Head(q)
    BY <1>1, <1>a
<1>3. PICK r \in Seq(Events) : r = Tail(q)
    <2>1. Tail(q) \in Seq(Events)
        BY ONLY <1>2
    <2> QED BY ONLY <2>1
<1>4. /\ Len(q) \in Nat /\ Len(r) = Len(q) - 1 /\ DOMAIN q = 1..Len(q) /\ DOMAIN r = 1..Len(r)
      /\ e = q[1] /\ 1 \in DOMAIN q /\ \A k \in DOMAIN r : k + 1 \in DOMAIN q /\ r[k] = q[k + 1]
    BY <1>2, <1>3
<1>5. d = [c EXCEPT !.queue = r]
    BY <1>0, <1>1, <1>3, <1>a DEF Pool, Closure
<1>6. /\ d.slot = c.slot /\ d.pc = c.pc /\ d.phase = c.phase /\ d.closed = c.closed
      /\ d.abort = c.abort /\ d.fatal = c.fatal /\ d.active = c.active
      /\ d.executed = c.executed /\ d.prior = c.prior /\ d.queue = r
    BY <1>0, <1>5 DEF Pool, Closure
<1>7. Due(d, e)
    BY <1>0, <1>a, HeadIsDue
<1>8. \A g : Says(c, g) <=> Says(d, g)
    BY <1>6 DEF Says
<1>9. \A k \in DOMAIN q : Says(d, q[k]) /\ Awaited(d, q[k])
    <2>1. \A k \in DOMAIN q : Says(c, q[k])
        BY <1>0, <1>1 DEF Linked, Pending
    <2>2. \A k \in DOMAIN q : Awaited(c, q[k])
        BY <1>0, <1>1 DEF Pool
    <2>3. \A g : Awaited(c, g) => Awaited(d, g)
        BY <1>6 DEF Awaited
    <2> QED BY <1>8, <2>1, <2>2, <2>3
<1>10. \A k, l \in DOMAIN q : k < l =>
          /\ q[k].kind = "Started" /\ q[l].kind = "Closed" => q[k].item # q[l].item
          /\ q[k].kind = "BatchSettled" => q[l].kind # "BatchSettled"
    BY <1>0, <1>1 DEF Linked, Pending
<1>11. Heads(d, e)
    <2>1. ASSUME NEW k \in DOMAIN r
          PROVE  /\ e.kind = "Started" /\ r[k].kind = "Closed" => r[k].item # e.item
                 /\ e.kind = "BatchSettled" => r[k].kind # "BatchSettled"
        <3>1. 1 < k + 1 /\ k + 1 \in DOMAIN q /\ r[k] = q[k + 1] /\ 1 \in DOMAIN q /\ e = q[1]
            BY ONLY <1>4, <2>1
        <3> QED BY ONLY <1>10, <3>1
    <2>2. Says(d, e) /\ Awaited(d, e) /\ d.queue = r
        BY <1>4, <1>6, <1>9
    <2> QED BY ONLY <2>1, <2>2 DEF Heads
<1>12. Pending(d)
    <2>1. d.queue = r /\ \A k \in DOMAIN r : Says(d, r[k])
        BY <1>4, <1>6, <1>9
    <2>2. ASSUME NEW k \in DOMAIN r, NEW l \in DOMAIN r, k < l
          PROVE  /\ r[k].kind = "Started" /\ r[l].kind = "Closed" => r[k].item # r[l].item
                 /\ r[k].kind = "BatchSettled" => r[l].kind # "BatchSettled"
        <3>1. k + 1 < l + 1 /\ k + 1 \in DOMAIN q /\ l + 1 \in DOMAIN q
            BY <1>4, <2>2
        <3> QED BY <1>4, <1>10, <3>1
    <2> QED BY ONLY <2>1, <2>2 DEF Pending
<1>13. Linked(d, P, S, D, x) /\ Trusted(d, P) /\ Charged(d, S)
    <2>1. \A i \in Items : Course(d, P, i) /\ Attempts(d, S, D, x, i)
        BY <1>0, <1>6 DEF Linked, Course, Attempts, Aborted
    <2>2. Counts(d)
        BY <1>0, <1>6 DEF Linked, Counts, Aborted
    <2>3. Trusted(d, P) /\ Charged(d, S)
        BY <1>0, <1>6 DEF Trusted, Charged, Aborted
    <2> QED BY <1>12, <2>1, <2>2, <2>3 DEF Linked
<1>14. Good(d, P, S, D, x)
    BY <1>7, <1>13 DEF Good, Due
<1>15. Starts(c) /\ c.phase = "starting" => d.queue = <<>> /\ e.kind = "BatchStarted"
    <2>1. Starts(c) /\ c.phase = "starting" => Len(q) = 1 /\ q[1].kind = "BatchStarted"
        BY <1>1 DEF Starts
    <2>2. Len(r) = 0 => r = <<>>
        BY <1>3
    <2> QED BY <1>4, <1>6, <2>1, <2>2
<1>16. /\ \A k \in DOMAIN r : \E l \in DOMAIN q : r[k] = q[l]
       /\ \E l \in DOMAIN q : e = q[l]
    BY <1>4
<1> QED BY <1>1, <1>6, <1>7, <1>11, <1>14, <1>15, <1>16

\* An attempt ends: what the slot says of it is not yet in the journal.
LEMMA EndGood ==
    ASSUME NEW c, NEW P, NEW S, NEW D, NEW x, Good(c, P, S, D, x), IsFiniteSet(S),
           NEW i \in Items, c.pc[i] = "exec", NEW end \in TerminalEnd
    PROVE  LET d == [c EXCEPT !.slot[i] = [@ EXCEPT !.status = end.status, !.auth = end.auth],
                              !.pc[i] = "end"]
               f == Emit(d, [Event("Terminal", i, d.slot[i], i) EXCEPT !.retry = end.retry])
           IN  Good(f, P, S, D, x) /\ f.phase = c.phase
<1>0. c \in Closure /\ Pool(c)
      /\ Linked(c, P, S, D, x) /\ Trusted(c, P) /\ Charged(c, S)
    BY DEF Pool, Good
<1>1. Runs(c, i) /\ Free(c, i) /\ c.pc[i] \in Inside
    <2>1. Free(c, i)
        BY <1>0, NonePending
    <2> QED BY <1>0, <2>1 DEF Runs, Inside, Steps
<1>2. /\ end.status \in Statuses /\ end.auth \in BOOLEAN /\ end.retry \in {"none", "retry", "limit"}
      /\ end.status \notin {"queued", "running", "skipped"}
    BY DEF TerminalEnd, Statuses, ItemTerminal
<1>3. PICK u \in Slot : u = c.slot[i]
    BY <1>1, SlotIs
<1>4. PICK t \in Slot : t = [u EXCEPT !.status = end.status, !.auth = end.auth]
    <2>1. [u EXCEPT !.status = end.status, !.auth = end.auth] \in Slot
        BY <1>2 DEF Slot
    <2> QED BY <2>1
<1>5. t.attempts = u.attempts /\ t.status = end.status /\ u.attempts \in Nat
    BY <1>4 DEF Slot
<1>6. PICK n \in Nat : n = c.executed
    BY <1>1, SlotIs
<1>7. PICK s \in Inside : s = "end"
    BY DEF Inside, Steps
<1>8. PICK d : Turns(c, d, i, t, n, s)
    BY DEF Turns
<1>9. Runs(d, i) /\ d.pc[i] = s /\ d.slot[i] = t
    BY ONLY <1>1, <1>4, <1>6, <1>7, <1>8, SlotTurns
<1>10. /\ Moves(c, d, i) /\ d.executed = n /\ d.prior = c.prior /\ d.closed = c.closed
       /\ d.active = c.active /\ d.abort = c.abort /\ d.fatal = c.fatal /\ d.phase = c.phase
    BY ONLY <1>1, <1>4, <1>6, <1>7, <1>8, TurnsMoves
<1>11. d = [c EXCEPT !.slot[i] = [@ EXCEPT !.status = end.status, !.auth = end.auth],
                     !.pc[i] = "end"]
    <2>1. t = [c.slot[i] EXCEPT !.status = end.status, !.auth = end.auth]
        BY <1>3, <1>4
    <2> QED BY <1>1, <1>6, <1>7, <1>8, <2>1, SlotIs DEF Turns, Closure
<1>12. Course(c, P, i) /\ Counts(c) /\ Attempts(c, S, D, x, i)
    BY <1>0 DEF Linked
<1>13. Linked(d, P, S, D, x)
    <2>1. Course(d, P, i)
        <3>1. c.slot[i].status # "succeeded"
            BY <1>12 DEF Course
        <3>2. P[i].status # "succeeded" /\ P[i].attempts <= u.attempts
            BY <1>3, <1>12, <3>1 DEF Course
        <3> QED BY <1>2, <1>5, <1>7, <1>9, <3>2 DEF Course
    <2>2. Attempts(d, S, D, x, i)
        BY <1>3, <1>5, <1>7, <1>9, <1>12 DEF Attempts
    <2>3. Clears(c, d, i)
        BY DEF Clears
    <2>4. Counts(d)
        BY <1>1, <1>10, <1>12, MovesCounts
    <2>5. /\ \A j \in Items \ {i} : Course(c, P, j) /\ Attempts(c, S, D, x, j)
          /\ Pending(c) /\ Pool(d)
        BY <1>0, <1>9 DEF Linked, Runs
    <2> QED BY <1>0, <1>1, <1>10, <2>1, <2>2, <2>3, <2>4, <2>5, MovesLink
<1>14. Trusted(d, P)
    BY <1>0, <1>7, <1>9, <1>10, MovesTrust
<1>15. Charged(d, S)
    <2>1. d.executed = c.executed /\ (c.pc[i] = "start" <=> d.pc[i] = "start")
        BY <1>6, <1>7, <1>9, <1>10
    <2> QED BY <1>0, <1>10, <2>1, MovesCharge
<1>16. Good(d, P, S, D, x)
    BY <1>9, <1>13, <1>14, <1>15 DEF Good, Runs
<1>a. PICK e : e = [Event("Terminal", i, t, i) EXCEPT !.retry = end.retry]
    OBVIOUS
<1>18. Good(Emit(d, e), P, S, D, x) /\ Emit(d, e).phase = d.phase
    <2>1. PICK kind \in SlotKinds : kind = "Terminal"
        BY DEF SlotKinds
    <2>2. d.pc[i] = Waits[kind] /\ kind # "Started" /\ kind # "Cancelled"
        BY <1>7, <1>9, <2>1 DEF Waits
    <2>3. Tells(e, kind, i, t) /\ e.status = t.status /\ e.auth = t.auth
        <3>1. PICK g : g = Event("Terminal", i, t, i)
            OBVIOUS
        <3>2. Tells(g, kind, i, t)
            BY <2>1, <3>1, EventTells
        <3>3. g.status = t.status /\ g.auth = t.auth
            BY <3>1 DEF Event
        <3>4. e = [g EXCEPT !.retry = end.retry]
            BY <1>a, <3>1
        <3> QED BY <1>2, <3>2, <3>3, <3>4, RetryTells DEF Tells, Events
    <2> QED BY <1>9, <1>16, <2>1, <2>2, <2>3, AnnouncesGood
<1>19. e = [Event("Terminal", i, d.slot[i], i) EXCEPT !.retry = end.retry]
    BY <1>9, <1>a
<1>20. Good(Emit(d, e), P, S, D, x) /\ Emit(d, e).phase = c.phase
    BY <1>10, <1>18
<1> QED BY <1>11, <1>19, <1>20, Zenon
-----------------------------------------------------------------------------
(* BatchSwarm: what a step leaves in the journal.                           *)

\* The journal P, T, S, D of execution x becomes P2, T2, S2, D2 when e is appended.
Records(P, T, S, D, x, e, P2, T2, S2, D2) ==
    /\ P2 = Project(P, e)
    /\ T2 = IF e.kind \in TerminalKinds
            THEN T \union {[item |-> e.item, attempt |-> e.attempt, kind |-> e.kind,
                            status |-> e.status, auth |-> e.auth]}
            ELSE T
    /\ S2 = IF e.kind = "Started"
            THEN S \union {[item |-> e.item, attempt |-> e.attempt, exec |-> x]} ELSE S
    /\ D2 = IF e.kind \in TerminalKinds /\ e.auth /\ e.status # "succeeded"
            THEN D \union {r \in S : r.item = e.item /\ r.attempt = e.attempt /\ r.exec = x}
            ELSE D

\* What the projection Q says of item i once e is projected onto P.
Projects(P, Q, e, i) ==
    /\ Q[i].attempts \in Nat /\ P[i].attempts \in Nat /\ P[i].attempts <= Q[i].attempts
    /\ i # e.item \/ e.kind = "Capacity" => Q[i] = P[i]
    /\ i = e.item /\ e.kind # "Capacity" =>
          /\ e.attempt <= Q[i].attempts
          /\ Q[i].attempts = P[i].attempts \/ Q[i].attempts = e.attempt
          /\ Q[i].status = IF e.kind \in {"Queued", "Requeued"} THEN "queued"
                           ELSE IF e.kind = "Started" THEN "running" ELSE e.status
          /\ Q[i].auth = IF e.kind \in TerminalKinds THEN e.auth ELSE P[i].auth

\* The projection of one event.
LEMMA ProjectIs ==
    ASSUME NEW P \in [Items -> Slot], NEW e \in Events, NEW Q, Q = Project(P, e)
    PROVE  Q \in [Items -> Slot] /\ \A i \in Items : Projects(P, Q, e, i)
<1>1. /\ e.item \in 0..N /\ e.attempt \in 0..MaxAttempts /\ e.status \in Statuses /\ e.auth \in BOOLEAN
    BY DEF Events
<1>2. \A i \in Items : i # 0 /\ P[i] \in Slot /\ P[i].attempts \in 0..MaxAttempts
    BY DEF Slot, Items
<1>3. CASE e.item = 0 \/ e.kind = "Capacity"
    <2>1. Q = P
        BY <1>3 DEF Project
    <2> QED BY <1>2, <1>3, <2>1, Bounds DEF Projects
<1>4. CASE ~(e.item = 0 \/ e.kind = "Capacity")
    <2>1. PICK j \in Items : j = e.item
        BY <1>1, <1>4, Bounds DEF Items
    <2>2. PICK status \in Statuses :
              status = IF e.kind \in {"Queued", "Requeued"} THEN "queued"
                       ELSE IF e.kind = "Started" THEN "running" ELSE e.status
        BY <1>1 DEF Statuses
    <2>3. PICK n \in 0..MaxAttempts : n = AtLeast(P[j].attempts, e.attempt)
        BY <1>1, <1>2 DEF AtLeast
    <2>4. PICK auth \in BOOLEAN : auth = IF e.kind \in TerminalKinds THEN e.auth ELSE P[j].auth
        BY <1>1, <1>2 DEF Slot
    <2>5. PICK s \in Slot : s = [status |-> status, attempts |-> n, auth |-> auth]
        <3>1. [status |-> status, attempts |-> n, auth |-> auth] \in Slot
            BY DEF Slot
        <3> QED BY <3>1
    <2>6. Q = [P EXCEPT ![j] = s]
        BY <1>4, <2>1, <2>2, <2>3, <2>4, <2>5 DEF Project
    <2>7. Q \in [Items -> Slot] /\ Q[j] = s /\ \A i \in Items \ {j} : Q[i] = P[i]
        BY <2>6
    <2>8. s.status = status /\ s.attempts = n /\ s.auth = auth
        BY <2>5
    <2>9. n \in Nat /\ P[j].attempts <= n /\ e.attempt <= n /\ (n = P[j].attempts \/ n = e.attempt)
        BY <1>1, <1>2, <2>3, Bounds DEF AtLeast
    <2>10. \A i \in Items \ {j} : Projects(P, Q, e, i)
        BY <1>2, <2>1, <2>7, Bounds DEF Projects
    <2>11. Projects(P, Q, e, j)
        BY <1>2, <1>4, <2>1, <2>2, <2>4, <2>7, <2>8, <2>9, Bounds DEF Projects
    <2> QED BY <2>7, <2>10, <2>11
<1> QED BY <1>3, <1>4

\* The step at which the slot of e awaits it.
At(c, e) ==
    /\ e.kind = "Queued" => c.pc[e.item] = "queued"
    /\ e.kind = "Started" => c.pc[e.item] = "start"
    /\ e.kind = "Terminal" => c.pc[e.item] = "end"
    /\ e.kind = "Capacity" => c.pc[e.item] = "rate"
    /\ e.kind = "Requeued" => c.pc[e.item] = "requeue"
    /\ e.kind = "Cancelled" => c.pc[e.item] = "cancel"

\* An event about an item that has succeeded, or a terminal that says so, is its own.
LEMMA HeadSlot ==
    ASSUME NEW c, NEW P, NEW S, NEW D, NEW x, Linked(c, P, S, D, x),
           NEW e, Due(c, e), Heads(c, e), e.item # 0
    PROVE  /\ e.item \in Items /\ At(c, e)
           /\ e.kind \notin {"BatchStarted", "BatchSettled"}
           /\ P[e.item].status = "succeeded" /\ e.kind # "Capacity"
                => e.kind = "Terminal" /\ e.status = "succeeded"
           /\ e.kind \in TerminalKinds /\ e.status = "succeeded"
                => e.kind = "Terminal" /\ c.slot[e.item].status = "succeeded"
           /\ e.kind \in TerminalKinds /\ e.status = "skipped" => e.auth
<1>1. Says(c, e) /\ Awaited(c, e)
    BY DEF Heads
<1>2. e.item \in Items /\ e.kind \in EventKinds
    BY Bounds DEF Due, Events, Items
<1>3. e.kind \notin {"BatchStarted", "BatchSettled"}
    BY <1>1 DEF Says
<1>4. At(c, e)
    BY <1>1, <1>2, <1>3 DEF At, Awaited, Owner, Waits
<1>5. Course(c, P, e.item)
    BY <1>2 DEF Linked
<1>6. P[e.item].status = "succeeded" => c.slot[e.item].status = "succeeded"
    BY <1>5 DEF Course
<1>7. c.slot[e.item].status = "succeeded" => c.pc[e.item] \in {"idle", "end", "close", "gone"}
    BY <1>5 DEF Course
<1>8. e.kind = "Closed" => /\ c.slot[e.item].status # "succeeded" /\ e.auth
                           /\ e.status \in {"skipped", "cancelled"}
    BY <1>1 DEF Says
<1>9. e.kind = "Terminal" => e.status = c.slot[e.item].status /\ c.slot[e.item].status # "skipped"
    <2>1. e.kind = "Terminal" => e.status = c.slot[e.item].status
        BY <1>1 DEF Says
    <2>2. c.pc[e.item] = "end" => c.slot[e.item].status # "skipped"
        BY <1>5 DEF Course
    <2> QED BY <1>4, <2>1, <2>2 DEF At
<1>10. e.kind = "Cancelled" => e.status = "cancelled"
    BY <1>1 DEF Says
<1> QED BY <1>2, <1>3, <1>4, <1>6, <1>7, <1>8, <1>9, <1>10 DEF At, EventKinds, TerminalKinds

\* What the journal says by itself, when e is appended.
LEMMA RecordHistory ==
    ASSUME NEW c, NEW P, NEW T, NEW S, NEW D, NEW x \in Nat, Linked(c, P, S, D, x),
           Journal(P, S, D), History(P, T, S, D, x), NEW e, Due(c, e), Heads(c, e),
           NEW P2, NEW T2, NEW S2, NEW D2, Records(P, T, S, D, x, e, P2, T2, S2, D2)
    PROVE  History(P2, T2, S2, D2, x)
<1>1. P \in [Items -> Slot] /\ e \in Events /\ P2 = Project(P, e)
    BY DEF Journal, Due, Records
<1>2. \A i \in Items : Projects(P, P2, e, i)
    BY <1>1, ProjectIs
<1>3. /\ e.item # 0 => e.item \in Items /\ At(c, e)
      /\ e.item # 0 /\ P[e.item].status = "succeeded" /\ e.kind # "Capacity"
                => e.kind = "Terminal" /\ e.status = "succeeded"
      /\ e.item # 0 /\ e.kind \in TerminalKinds /\ e.status = "skipped" => e.auth
    BY HeadSlot
<1>4. /\ e.kind \in TerminalKinds \union {"Started"} => e.item \in Items
      /\ e.attempt \in Nat
    <2>1. e.attempt \in Nat
        BY <1>1, Bounds DEF Events
    <2>2. e.kind \in TerminalKinds \union {"Started"} => e.item # 0
        BY DEF Heads, Says, TerminalKinds
    <2> QED BY <1>3, <2>1, <2>2
<1>5. ASSUME NEW i \in Items
      PROVE  /\ P[i].attempts \in Nat /\ P2[i].attempts \in Nat /\ P[i].attempts <= P2[i].attempts
             /\ P[i].status = "succeeded" => P2[i].status = "succeeded"
             /\ P[i].status = "skipped" => P[i].auth
    <2>1. Projects(P, P2, e, i)
        BY <1>2
    <2>2. i # 0
        BY DEF Items
    <2>3. P[i].status = "succeeded" => P2[i].status = "succeeded"
        BY <1>3, <2>1, <2>2 DEF Projects
    <2> QED BY <2>1, <2>3 DEF Projects, History
<1>6. /\ \A r \in S : /\ r.exec <= x /\ r.attempt <= P[r.item].attempts
                      /\ r.item \in Items /\ r.attempt \in Nat /\ r.exec \in Nat
      /\ \A r \in S : r.exec < x => r \in D \/ P[r.item].status = "succeeded"
      /\ D \subseteq S
    <2>1. \A r \in S : r.item \in Items /\ r.attempt \in Nat /\ r.exec \in Nat
        BY Bounds DEF Journal
    <2> QED BY <2>1 DEF History
<1>7. D \subseteq D2 /\ S \subseteq S2 /\ D2 \subseteq S2
    BY <1>6 DEF Records, TerminalKinds
<1>8. ASSUME NEW r \in S2 PROVE /\ r.exec <= x /\ r.attempt <= P2[r.item].attempts
                                /\ r.exec < x => r \in D2 \/ P2[r.item].status = "succeeded"
    <2>1. CASE r \in S
        <3>1. r.item \in Items /\ r.attempt \in Nat /\ r.attempt <= P[r.item].attempts
            BY <1>6, <2>1
        <3>2. r.attempt <= P2[r.item].attempts
            BY <1>5, <3>1
        <3> QED BY <1>5, <1>6, <1>7, <2>1, <3>2
    <2>2. CASE r \notin S
        <3>1. e.kind = "Started" /\ r = [item |-> e.item, attempt |-> e.attempt, exec |-> x]
            BY <2>2 DEF Records
        <3>2. r.item = e.item /\ r.attempt = e.attempt /\ r.exec = x
            BY <3>1
        <3>3. Projects(P, P2, e, e.item) /\ e.kind # "Capacity"
            BY <1>2, <1>4, <3>1
        <3> QED BY <3>2, <3>3 DEF Projects
    <2> QED BY <2>1, <2>2
<1>9. ASSUME NEW t \in T2
      PROVE  /\ t.item \in Items /\ t.attempt \in 0..P2[t.item].attempts
             /\ t.status = "succeeded" => P2[t.item].status = "succeeded"
             /\ t.auth /\ t.status # "succeeded" =>
                  \A r \in S2 : r.item = t.item /\ r.attempt = t.attempt /\ r.exec = x => r \in D2
    <2>1. CASE t \in T
        <3>1. /\ t.item \in Items /\ t.attempt \in 0..P[t.item].attempts
              /\ t.status = "succeeded" => P[t.item].status = "succeeded"
              /\ t.auth /\ t.status # "succeeded" =>
                  \A r \in S : r.item = t.item /\ r.attempt = t.attempt /\ r.exec = x => r \in D
            BY <2>1 DEF History
        <3>2. t.status = "succeeded" => P2[t.item].status = "succeeded"
            BY <1>5, <3>1
        <3>3. ASSUME NEW r \in S2 \ S, r.item = t.item, r.attempt = t.attempt PROVE FALSE
            <4>1. e.kind = "Started" /\ r = [item |-> e.item, attempt |-> e.attempt, exec |-> x]
                BY <3>3 DEF Records
            <4>2. r.item = e.item /\ r.attempt = e.attempt
                BY <4>1
            <4>3. c.pc[e.item] = "start" /\ e.item \in Items /\ e.attempt = c.slot[e.item].attempts
                BY <1>3, <1>4, <4>1 DEF At, Heads, Says, Items
            <4>4. P[e.item].attempts < e.attempt
                BY <4>3 DEF Linked, Course
            <4> QED BY <1>4, <1>5, <3>1, <3>3, <4>2, <4>3, <4>4
        <3>4. t.attempt \in 0..P2[t.item].attempts
            BY <1>5, <3>1
        <3> QED BY <1>7, <3>1, <3>2, <3>3, <3>4
    <2>2. CASE t \notin T
        <3>1. /\ e.kind \in TerminalKinds
              /\ t = [item |-> e.item, attempt |-> e.attempt, kind |-> e.kind,
                      status |-> e.status, auth |-> e.auth]
            BY <2>2 DEF Records
        <3>2. t.item = e.item /\ t.attempt = e.attempt /\ t.status = e.status /\ t.auth = e.auth
            BY <3>1
        <3>3. Projects(P, P2, e, e.item) /\ e.kind \notin {"Capacity", "Queued", "Requeued", "Started"}
            BY <1>2, <1>4, <3>1 DEF TerminalKinds
        <3>4. t.item \in Items /\ t.attempt \in 0..P2[t.item].attempts /\ P2[t.item].status = e.status
            BY <1>4, <1>5, <3>1, <3>2, <3>3 DEF Projects
        <3>5. S2 = S
            BY <3>3 DEF Records
        <3>6. e.auth /\ e.status # "succeeded" =>
                 \A r \in S : r.item = e.item /\ r.attempt = e.attempt /\ r.exec = x => r \in D2
            BY <3>1 DEF Records
        <3> QED BY <3>2, <3>4, <3>5, <3>6
    <2> QED BY <2>1, <2>2
<1>10. ASSUME NEW i \in Items, P2[i].status = "skipped" PROVE P2[i].auth
    <2>1. Projects(P, P2, e, i) /\ i # 0
        BY <1>2 DEF Items
    <2>2. CASE i # e.item \/ e.kind = "Capacity"
        BY <1>5, <1>10, <2>1, <2>2 DEF Projects
    <2>3. CASE i = e.item /\ e.kind # "Capacity"
        <3>1. e.status = "skipped" /\ e.kind \notin {"Queued", "Requeued", "Started"}
            BY <1>10, <2>1, <2>3 DEF Projects
        <3>2. e.kind \in TerminalKinds
            <4>1. e.kind \in EventKinds /\ e.kind \notin {"BatchStarted", "BatchSettled"}
                BY <1>1, <2>1, <2>3, HeadSlot DEF Events
            <4> QED BY <2>3, <3>1, <4>1 DEF EventKinds, TerminalKinds
        <3> QED BY <1>3, <2>1, <2>3, <3>1, <3>2 DEF Projects
    <2> QED BY <2>2, <2>3
<1> QED BY ONLY <1>7, <1>8, <1>9, <1>10 DEF History

\* The journal stays one.
LEMMA RecordJournal ==
    ASSUME NEW c, NEW P, NEW T, NEW S, NEW D, NEW x \in 1..(MaxCrashes + 1), Journal(P, S, D),
           NEW e, Due(c, e), Heads(c, e),
           NEW P2, NEW T2, NEW S2, NEW D2, Records(P, T, S, D, x, e, P2, T2, S2, D2)
    PROVE  Journal(P2, S2, D2)
<1>1. P \in [Items -> Slot] /\ e \in Events /\ P2 = Project(P, e)
    BY DEF Journal, Due, Records
<1>2. P2 \in [Items -> Slot]
    BY <1>1, ProjectIs
<1>3. D2 \subseteq S2
    BY DEF Records, Journal, TerminalKinds
<1>4. CASE e.kind # "Started"
    BY <1>2, <1>3, <1>4 DEF Records, Journal
<1>5. CASE e.kind = "Started"
    <2>1. e.item \in Items /\ e.attempt \in 1..MaxAttempts
        BY <1>1, <1>5, Bounds DEF Due, SlotKinds, Runs, Events
    <2>2. PICK s \in [item : Items, attempt : 1..MaxAttempts, exec : 1..(MaxCrashes + 1)] :
              s = [item |-> e.item, attempt |-> e.attempt, exec |-> x]
        BY <2>1
    <2>3. S2 = S \union {s}
        BY <1>5, <2>2 DEF Records
    <2>4. IsFiniteSet(S2)
        BY <2>3, FS_AddElement DEF Journal
    <2> QED BY <1>2, <1>3, <2>3, <2>4 DEF Journal
<1> QED BY <1>4, <1>5

\* An append that is no start is what the closure has said.
LEMMA RecordGood ==
    ASSUME NEW c, NEW P, NEW T, NEW S, NEW D, NEW x, Good(c, P, S, D, x),
           Journal(P, S, D), NEW e, Due(c, e), Heads(c, e), e.kind # "Started",
           NEW P2, NEW T2, NEW S2, NEW D2, Records(P, T, S, D, x, e, P2, T2, S2, D2)
    PROVE  /\ S2 = S /\ D \subseteq D2 /\ Good(c, P2, S, D2, x)
           /\ e.kind = "Terminal" =>
                 /\ Told(c, P2, e.item) /\ c.slot[e.item].status = e.status
                 /\ e.auth /\ e.status # "succeeded" => Ended(P2, S, D2, e.item)
<1>0. /\ Pool(c) /\ Linked(c, P, S, D, x) /\ Trusted(c, P) /\ Charged(c, S) /\ c \in Closure
      /\ P \in [Items -> Slot] /\ e \in Events /\ P2 = Project(P, e)
    BY DEF Good, Journal, Due, Records, Pool
<1>1. \A i \in Items : Projects(P, P2, e, i) /\ i # 0
    BY <1>0, ProjectIs DEF Items
<1>2. S2 = S /\ D \subseteq D2
    BY DEF Records, TerminalKinds
<1>3. /\ e.item # 0 => /\ e.item \in Items /\ At(c, e)
                       /\ e.kind \notin {"BatchStarted", "BatchSettled"}
      /\ e.item # 0 /\ e.kind \in TerminalKinds /\ e.status = "succeeded"
            => e.kind = "Terminal" /\ c.slot[e.item].status = "succeeded"
    BY <1>0, HeadSlot
<1>4. Says(c, e) /\ e.kind \in EventKinds
    BY DEF Heads, Due, Events
<1>5. ASSUME NEW i \in Items PROVE Course(c, P2, i)
    <2>1. Course(c, P, i) /\ Projects(P, P2, e, i)
        BY <1>0, <1>1 DEF Linked
    <2>2. CASE i # e.item \/ e.kind = "Capacity"
        <3>1. P2[i] = P[i]
            BY <2>1, <2>2 DEF Projects
        <3> QED BY <2>1, <3>1 DEF Course
    <2>3. CASE i = e.item /\ e.kind # "Capacity"
        <3>1. At(c, e) /\ e.item # 0 /\ e.kind \notin {"BatchStarted", "BatchSettled", "Capacity", "Started"}
            BY <1>1, <1>3, <2>3
        <3>2. /\ P2[i].attempts = P[i].attempts \/ P2[i].attempts = e.attempt
              /\ P2[i].status = IF e.kind \in {"Queued", "Requeued"} THEN "queued" ELSE e.status
            BY <2>1, <2>3, <3>1 DEF Projects
        <3>3. /\ P[i].attempts <= c.slot[i].attempts
              /\ c.pc[i] = "start" => P[i].attempts < c.slot[i].attempts
            BY <2>1 DEF Course
        <3>4. e.attempt <= c.slot[i].attempts
            BY <1>4, <2>3, <3>1 DEF Says
        <3>5. c.pc[i] = "start" => e.attempt < c.slot[i].attempts
            <4>1. c.pc[i] = "start" => e.kind = "Closed"
                BY <1>4, <2>3, <3>1 DEF At, EventKinds
            <4> QED BY <1>4, <2>3, <4>1 DEF Says
        <3>6. P2[i].status = "succeeded" => c.slot[i].status = "succeeded"
            <4>1. P2[i].status = "succeeded" => e.kind \in TerminalKinds /\ e.status = "succeeded"
                BY <1>4, <3>1, <3>2 DEF EventKinds, TerminalKinds
            <4> QED BY <1>3, <2>3, <3>1, <4>1
        <3> QED BY <2>1, <3>2, <3>3, <3>4, <3>5, <3>6 DEF Course
    <2> QED BY <2>2, <2>3
<1>6. ASSUME NEW i \in Items PROVE Attempts(c, S, D2, x, i)
    <2>1. Attempts(c, S, D, x, i)
        BY <1>0 DEF Linked
    <2> QED BY <1>2, <2>1 DEF Attempts
<1>7. Linked(c, P2, S, D2, x)
    BY <1>0, <1>5, <1>6 DEF Linked
<1>8. Trusted(c, P2)
    <2>1. SUFFICES ASSUME ~Aborted(c), NEW i \in Items, c.pc[i] # "end"
                   PROVE  /\ c.slot[i].auth => P2[i].auth
                          /\ c.slot[i].status = "succeeded" => P2[i].status = "succeeded"
                          /\ c.slot[i].status = "skipped" => P2[i].auth \/ c.closed
        BY DEF Trusted
    <2>2. /\ c.slot[i].auth => P[i].auth
          /\ c.slot[i].status = "succeeded" => P[i].status = "succeeded"
          /\ c.slot[i].status = "skipped" => P[i].auth \/ c.closed
        BY <1>0, <2>1 DEF Trusted
    <2>3. Projects(P, P2, e, i) /\ Course(c, P, i)
        BY <1>0, <1>1 DEF Linked
    <2>4. CASE i # e.item \/ e.kind = "Capacity"
        <3>1. P2[i] = P[i]
            BY <2>3, <2>4 DEF Projects
        <3> QED BY <2>2, <3>1
    <2>5. CASE i = e.item /\ e.kind # "Capacity"
        <3>1. At(c, e) /\ e.item # 0 /\ e.kind \notin {"BatchStarted", "BatchSettled", "Capacity", "Started"}
            BY <1>1, <1>3, <2>5
        <3>2. e.kind # "Terminal"
            BY <2>1, <2>5, <3>1 DEF At
        <3>3. e.kind # "Cancelled"
            <4>1. c.pc[i] # "cancel"
                BY <2>1, <2>3 DEF Course
            <4> QED BY <2>5, <3>1, <4>1 DEF At
        <3>4. CASE e.kind = "Closed"
            <4>1. e.auth /\ c.slot[i].status # "succeeded"
                BY <1>4, <2>5, <3>4 DEF Says
            <4>2. P2[i].auth = e.auth
                BY <2>3, <2>5, <3>4 DEF Projects, TerminalKinds
            <4> QED BY <4>1, <4>2
        <3>5. CASE e.kind \in {"Queued", "Requeued"}
            <4>1. P2[i].auth = P[i].auth
                BY <2>3, <2>5, <3>5 DEF Projects, TerminalKinds
            <4>2. c.slot[i].status # "succeeded"
                BY <2>3, <2>5, <3>1, <3>5 DEF At, Course
            <4> QED BY <2>2, <4>1, <4>2
        <3> QED BY <1>4, <3>1, <3>2, <3>3, <3>4, <3>5 DEF EventKinds
    <2> QED BY <2>4, <2>5
<1>9. Good(c, P2, S, D2, x)
    BY <1>0, <1>7, <1>8 DEF Good
<1>10. ASSUME e.kind = "Terminal"
       PROVE  /\ Told(c, P2, e.item) /\ c.slot[e.item].status = e.status
              /\ e.auth /\ e.status # "succeeded" => Ended(P2, S, D2, e.item)
    <2>1. e.item \in Items /\ c.pc[e.item] = "end" /\ e.item # 0
        BY <1>1, <1>3, <1>4, <1>10 DEF At, Says
    <2>2. /\ e.status = c.slot[e.item].status /\ e.auth = c.slot[e.item].auth
          /\ e.attempt = c.slot[e.item].attempts
        BY <1>4, <1>10 DEF Says
    <2>3. P2[e.item].status = e.status /\ P2[e.item].auth = e.auth
        BY <1>1, <1>10, <2>1 DEF Projects, TerminalKinds
    <2>4. ASSUME e.auth, e.status # "succeeded", NEW r \in S, r.item = e.item PROVE r \in D2
        <3>1. IF r.attempt = e.attempt THEN r.exec = x ELSE r \in D
            BY <1>0, <2>1, <2>2, <2>4 DEF Linked, Attempts
        <3> QED BY <1>2, <1>10, <2>4, <3>1 DEF Records, TerminalKinds
    <2> QED BY <2>2, <2>3, <2>4 DEF Told, Ended
<1> QED BY <1>2, <1>9, <1>10

\* What becomes of a slot when it steps.
LEMMA GoesMoves ==
    ASSUME NEW c, NEW i, Runs(c, i), NEW s \in Inside, NEW d, Goes(c, d, i, s)
    PROVE  /\ Runs(d, i) /\ d.pc[i] = s /\ d.slot = c.slot /\ Moves(c, d, i)
           /\ d.executed = c.executed /\ d.prior = c.prior /\ d.closed = c.closed
           /\ d.active = c.active /\ d.abort = c.abort /\ d.fatal = c.fatal /\ d.phase = c.phase
<1>1. c \in Closure /\ i \in Items
    BY SlotIs
<1>2. PICK p \in [Items -> Steps] : p = [c.pc EXCEPT ![i] = s]
    BY <1>1 DEF Closure, Inside
<1>3. d = [c EXCEPT !.pc = p]
    BY <1>1, <1>2 DEF Goes, Closure
<1>4. /\ d.slot = c.slot /\ d.pc = p /\ d.queue = c.queue /\ d.executed = c.executed
      /\ d.prior = c.prior /\ d.closed = c.closed /\ d.active = c.active /\ d.abort = c.abort
      /\ d.fatal = c.fatal /\ d.phase = c.phase
    BY <1>1, <1>3 DEF Closure
<1>5. \A j \in Items \ {i} : p[j] = c.pc[j]
    BY <1>1, <1>2 DEF Closure
<1>6. Moves(c, d, i)
    BY <1>4, <1>5 DEF Moves
<1>7. Runs(d, i) /\ d.pc[i] = s
    BY SlotSteps
<1> QED BY <1>4, <1>6, <1>7

\* An attempt is started when all earlier ones have ended without success.
LEMMA StartIsNew ==
    ASSUME NEW c, NEW P, NEW T, NEW S, NEW D, NEW x, Linked(c, P, S, D, x), Journal(P, S, D),
           History(P, T, S, D, x), NEW e, Due(c, e), Heads(c, e), e.kind = "Started"
    PROVE  /\ Runs(c, e.item) /\ c.pc[e.item] = "start" /\ e.attempt = c.slot[e.item].attempts
           /\ e.attempt \in Nat /\ P[e.item].attempts \in Nat
           /\ P[e.item].attempts < e.attempt
           /\ \A r \in S : r.item = e.item => r.attempt < e.attempt /\ r \in D
<1>1. Runs(c, e.item) /\ e.item \in Items /\ e.item # 0
    BY DEF Due, SlotKinds, Runs, Items
<1>2. c.pc[e.item] = "start" /\ e.attempt = c.slot[e.item].attempts
    BY <1>1, HeadSlot DEF At, Heads, Says
<1>3. P[e.item].attempts < e.attempt /\ \A r \in S : r.item = e.item => r \in D
    BY <1>1, <1>2 DEF Linked, Course, Attempts
<1>4. P[e.item].attempts \in Nat /\ e.attempt \in Nat
    BY <1>1, Bounds DEF Journal, Slot, Due, Events
<1>5. \A r \in S : r.item = e.item => r.attempt \in Nat /\ r.attempt <= P[e.item].attempts
    BY Bounds DEF Journal, History
<1> QED BY <1>1, <1>2, <1>3, <1>4, <1>5

\* The attempt executes.
LEMMA StartGood ==
    ASSUME NEW c, NEW P, NEW T, NEW S, NEW D, NEW x, Good(c, P, S, D, x), Journal(P, S, D),
           History(P, T, S, D, x), NEW e, Due(c, e), Heads(c, e), e.kind = "Started",
           NEW P2, NEW T2, NEW S2, NEW D2, Records(P, T, S, D, x, e, P2, T2, S2, D2),
           NEW d, Goes(c, d, e.item, "exec")
    PROVE  Good(d, P2, S2, D2, x) /\ d.phase = c.phase
<1>0. /\ Pool(c) /\ Linked(c, P, S, D, x) /\ Trusted(c, P) /\ Charged(c, S) /\ c \in Closure
      /\ P \in [Items -> Slot] /\ e \in Events /\ P2 = Project(P, e) /\ IsFiniteSet(S)
    BY DEF Good, Journal, Due, Records, Pool
<1>1. PICK i \in Items : i = e.item
    BY <1>0, StartIsNew DEF Runs
<1>2. /\ Runs(c, i) /\ c.pc[i] = "start" /\ e.attempt = c.slot[i].attempts
      /\ e.attempt \in Nat /\ P[i].attempts \in Nat /\ P[i].attempts < e.attempt
      /\ \A r \in S : r.item = i => r.attempt < e.attempt /\ r \in D
    BY <1>0, <1>1, StartIsNew
<1>3. /\ Runs(d, i) /\ d.pc[i] = "exec" /\ d.slot = c.slot /\ Moves(c, d, i)
      /\ d.executed = c.executed /\ d.prior = c.prior /\ d.closed = c.closed
      /\ d.active = c.active /\ d.abort = c.abort /\ d.fatal = c.fatal /\ d.phase = c.phase
    <2>1. "exec" \in Inside
        BY DEF Inside, Steps
    <2> QED BY <1>1, <1>2, <2>1, GoesMoves
<1>4. PICK n : n = [item |-> i, attempt |-> e.attempt, exec |-> x]
    OBVIOUS
<1>5. n.item = i /\ n.attempt = e.attempt /\ n.exec = x
    BY <1>4
<1>6. S2 = S \union {n} /\ D2 = D /\ n \notin S
    <2>1. S2 = S \union {n} /\ D2 = D
        BY <1>1, <1>4 DEF Records, TerminalKinds
    <2> QED BY <1>2, <1>5, <2>1
<1>7. \A j \in Items : Projects(P, P2, e, j)
    BY <1>0, ProjectIs
<1>8. /\ \A j \in Items \ {i} : P2[j] = P[j]
      /\ P2[i].status = "running" /\ P2[i].auth = P[i].auth
      /\ P2[i].attempts = P[i].attempts \/ P2[i].attempts = e.attempt
    BY <1>1, <1>7 DEF Projects, TerminalKinds
<1>9. ASSUME NEW j \in Items \ {i} PROVE Course(c, P2, j) /\ Attempts(c, S2, D2, x, j)
    <2>1. Course(c, P, j) /\ Attempts(c, S, D, x, j)
        BY <1>0 DEF Linked
    <2>2. Course(c, P2, j)
        BY <1>8, <2>1 DEF Course
    <2>3. \A r \in S2 : r.item = j => r \in S
        BY <1>5, <1>6
    <2> QED BY <1>6, <2>1, <2>2, <2>3 DEF Attempts
<1>10. Course(c, P, i) /\ Counts(c) /\ Pending(c)
    BY <1>0 DEF Linked
<1>11. Course(d, P2, i)
    <2>1. P2[i].attempts <= c.slot[i].attempts
        BY <1>2, <1>8
    <2>2. c.slot[i].status \notin {"succeeded", "queued"}
        BY <1>2, <1>10 DEF Course
    <2> QED BY <1>3, <1>8, <2>1, <2>2 DEF Course
<1>12. Attempts(d, S2, D2, x, i)
    <2>1. SUFFICES ASSUME NEW r \in S2, r.item = i
                   PROVE  IF r.attempt = e.attempt THEN r.exec = x ELSE r \in D
        BY <1>2, <1>3, <1>6 DEF Attempts
    <2>2. CASE r \in S
        <3>1. r.attempt < e.attempt /\ r \in D
            BY <1>2, <2>1, <2>2
        <3>2. r.attempt # e.attempt
            <4>1. r.attempt \in Nat
                BY <2>2, Bounds DEF Journal
            <4> QED BY <1>2, <3>1, <4>1
        <3> QED BY <3>1, <3>2
    <2>3. CASE r = n
        BY <1>5, <2>3
    <2> QED BY <1>6, <2>2, <2>3
<1>13. Linked(d, P2, S2, D2, x)
    <2>1. Clears(c, d, i)
        BY <1>1 DEF Clears, Heads
    <2>2. Counts(d)
        <3>1. c.pc[i] \in Inside
            BY <1>2 DEF Inside, Steps
        <3> QED BY <1>3, <1>10, <3>1, MovesCounts
    <2>3. Free(c, i) /\ Pool(d)
        BY <1>2, <1>3 DEF Runs
    <2> QED BY <1>0, <1>3, <1>9, <1>10, <1>11, <1>12, <2>1, <2>2, <2>3, MovesLink
<1>14. Trusted(d, P2)
    <2>1. Trusted(c, P2)
        <3>1. c.slot[i].status # "succeeded"
            BY <1>2, <1>10 DEF Course
        <3> QED BY <1>0, <1>8, <3>1 DEF Trusted
    <2>2. ~Aborted(c) => /\ d.slot[i].auth => P2[i].auth
                         /\ d.slot[i].status = "succeeded" => P2[i].status = "succeeded"
                         /\ d.slot[i].status = "skipped" => P2[i].auth \/ d.closed
        BY <1>2, <1>3, <2>1 DEF Trusted
    <2> QED BY <1>3, <2>1, <2>2, MovesTrust
<1>15. Charged(d, S2)
    <2>1. Cardinality(S2) = Cardinality(S) + 1
        BY <1>0, <1>6, FS_AddElement
    <2> QED BY <1>0, <1>2, <1>3, <2>1, MovesCharge
<1> QED BY <1>3, <1>13, <1>14, <1>15 DEF Good, Runs

\* The delay before the next attempt begins.
LEMMA SleepGood ==
    ASSUME NEW c, NEW P, NEW S, NEW D, NEW x, Good(c, P, S, D, x), IsFiniteSet(S),
           NEW i, Runs(c, i), c.pc[i] = "requeue", NEW d, Goes(c, d, i, "sleep")
    PROVE  Good(d, P, S, D, x) /\ d.phase = c.phase
<1>0. /\ Pool(c) /\ Linked(c, P, S, D, x) /\ Trusted(c, P) /\ Charged(c, S) /\ c \in Closure
      /\ i \in Items
    BY DEF Good, Pool, Runs
<1>1. /\ Runs(d, i) /\ d.pc[i] = "sleep" /\ d.slot = c.slot /\ Moves(c, d, i)
      /\ d.executed = c.executed /\ d.prior = c.prior /\ d.closed = c.closed
      /\ d.active = c.active /\ d.abort = c.abort /\ d.fatal = c.fatal /\ d.phase = c.phase
    <2>1. "sleep" \in Inside
        BY DEF Inside, Steps
    <2> QED BY <2>1, GoesMoves
<1>2. Course(c, P, i) /\ Attempts(c, S, D, x, i) /\ Counts(c) /\ Pending(c)
    BY <1>0 DEF Linked
<1>3. Linked(d, P, S, D, x)
    <2>1. Course(d, P, i)
        <3>1. c.slot[i].status # "succeeded"
            BY <1>2 DEF Course
        <3> QED BY <1>1, <1>2, <3>1 DEF Course
    <2>2. Attempts(d, S, D, x, i)
        BY <1>1, <1>2 DEF Attempts
    <2>3. Clears(c, d, i)
        <3>1. c.slot[i].attempts \in Nat
            BY <1>0, SlotFacts
        <3> QED BY <1>1, <3>1 DEF Clears
    <2>4. Counts(d)
        <3>1. c.pc[i] \in Inside
            BY DEF Inside, Steps
        <3> QED BY <1>0, <1>1, <1>2, <3>1, MovesCounts
    <2>5. /\ \A j \in Items \ {i} : Course(c, P, j) /\ Attempts(c, S, D, x, j)
          /\ Free(c, i) /\ Pool(d)
        BY <1>0, <1>1 DEF Runs, Linked
    <2> QED BY <1>0, <1>1, <1>2, <2>1, <2>2, <2>3, <2>4, <2>5, MovesLink
<1>4. Trusted(d, P)
    <2>1. ~Aborted(c) => /\ d.slot[i].auth => P[i].auth
                         /\ d.slot[i].status = "succeeded" => P[i].status = "succeeded"
                         /\ d.slot[i].status = "skipped" => P[i].auth \/ d.closed
        BY <1>0, <1>1 DEF Trusted
    <2> QED BY <1>0, <1>1, <2>1, MovesTrust
<1>5. Charged(d, S)
    <2>1. c.pc[i] = "start" <=> d.pc[i] = "start"
        BY <1>1
    <2> QED BY <1>0, <1>1, <2>1, MovesCharge
<1> QED BY <1>1, <1>3, <1>4, <1>5 DEF Good, Runs

\* A batch without an active slot, and without a pending event of its own, may
\* begin to run or end.
LEMMA PhaseGood ==
    ASSUME NEW c, NEW P, NEW S, NEW D, NEW x, Good(c, P, S, D, x), c.phase # "running",
           \A k \in DOMAIN c.queue : c.queue[k].kind \notin {"BatchStarted", "BatchSettled"},
           NEW s \in Phases, NEW d, d = [c EXCEPT !.phase = s]
    PROVE  /\ Good(d, P, S, D, x) /\ d.phase = s /\ d.queue = c.queue /\ d.closed = c.closed
           /\ d.active = c.active /\ d.abort = c.abort
<1>0. Pool(c) /\ Linked(c, P, S, D, x) /\ Trusted(c, P) /\ Charged(c, S) /\ c \in Closure
    BY DEF Good, Pool
<1>1. /\ d.slot = c.slot /\ d.pc = c.pc /\ d.queue = c.queue /\ d.active = c.active
      /\ d.executed = c.executed /\ d.prior = c.prior /\ d.closed = c.closed /\ d.abort = c.abort
      /\ d.fatal = c.fatal /\ d.phase = s
    BY <1>0 DEF Closure
<1>2. Pool(d)
    <2>1. SameSeats(c, d)
        BY <1>0 DEF Closure, SameSeats
    <2> QED BY <1>0, <2>1, SeatsKeep
<1>3. \A i \in Items : Course(d, P, i) /\ Attempts(d, S, D, x, i)
    BY <1>0, <1>1 DEF Linked, Course, Attempts, Aborted
<1>4. Counts(d)
    BY <1>0, <1>1 DEF Linked, Counts, Aborted
<1>5. Pending(d)
    <2>1. \A k \in DOMAIN c.queue : Says(c, c.queue[k]) => Says(d, c.queue[k])
        BY <1>1 DEF Says
    <2> QED BY <1>0, <1>1, <2>1 DEF Linked, Pending
<1>6. Trusted(d, P) /\ Charged(d, S)
    BY <1>0, <1>1 DEF Trusted, Charged, Aborted
<1> QED BY <1>1, <1>2, <1>3, <1>4, <1>5, <1>6 DEF Good, Linked

\* The pump of a batch that begins to run.
LEMMA OpenGood ==
    ASSUME NEW c, NEW P, NEW S, NEW D, NEW x, Good(c, P, S, D, x), c.phase = "starting",
           c.queue = <<>>, ~c.closed,
           NEW d, d = pump([c EXCEPT !.phase = "running", !.closed = Aborted(c)])
    PROVE  /\ Good(d, P, S, D, x) /\ Settles(c, d) /\ d.phase \in {"running", "threw", "settling"}
<1>1. PICK a : a = [c EXCEPT !.phase = "running"]
    OBVIOUS
<1>2. Good(a, P, S, D, x) /\ a.phase = "running" /\ a.closed = c.closed /\ a.abort = c.abort
    <2>1. "running" \in Phases /\ c.phase # "running"
        BY DEF Phases
    <2>2. \A k \in DOMAIN c.queue : c.queue[k].kind \notin {"BatchStarted", "BatchSettled"}
        OBVIOUS
    <2> QED BY <1>1, <2>1, <2>2, PhaseGood
<1>3. PICK r \in BOOLEAN : r = Aborted(c)
    BY DEF Aborted
<1>4. PICK b : b = [a EXCEPT !.closed = r]
    OBVIOUS
<1>5. Pool(a)
    BY <1>2 DEF Good
<1>6. Pool(b) /\ Calm(a, b) /\ b.phase = "running"
    <2>1. Shuts(a, b, r)
        BY <1>2, <1>3, <1>4 DEF Shuts, Aborted
    <2> QED BY <1>2, <1>5, <2>1, CloseCalm
<1>7. b = [c EXCEPT !.phase = "running", !.closed = r]
    BY <1>1, <1>4 DEF Good, Pool, Closure
<1>8. d = pump(b)
    BY <1>3, <1>7
<1>9. Good(b, P, S, D, x)
    BY <1>2, <1>6, CalmGood
<1>10. Pool(d) /\ Calm(b, d) /\ Settles(b, d)
    BY <1>6, <1>8, PumpKeeps, PumpCalm
<1>11. Good(d, P, S, D, x)
    BY <1>9, <1>10, CalmGood
<1>12. d.phase \in {"running", "threw", "settling"}
    BY <1>6, <1>10 DEF Calm, CalmFlags
<1>13. Settles(c, d)
    BY <1>6, <1>10 DEF Settles
<1> QED BY <1>11, <1>12, <1>13

\* Where a batch may be after c, when e has been appended.
Follows(c, d, e) ==
    /\ Settles(c, d)
    /\ \/ d.phase = c.phase
       \/ c.phase = "running" /\ d.phase \in {"threw", "settling"}
       \/ e.kind = "BatchStarted" /\ d.phase \in {"running", "threw", "settling"}
       \/ /\ e.kind = "BatchSettled" /\ c.phase = "settling" /\ d.phase = "returned"
          /\ d.queue = c.queue

\* What follows an append fits the journal with it.
LEMMA ContinueGood ==
    ASSUME NEW c, NEW P, NEW T, NEW S, NEW D, NEW x \in 1..(MaxCrashes + 1), Good(c, P, S, D, x),
           Journal(P, S, D), History(P, T, S, D, x), NEW e, Due(c, e), Heads(c, e),
           e.kind = "BatchStarted" => c.queue = <<>> /\ ~c.closed,
           NEW P2, NEW T2, NEW S2, NEW D2, Records(P, T, S, D, x, e, P2, T2, S2, D2)
    PROVE  Good(Continue(c, e), P2, S2, D2, x) /\ Follows(c, Continue(c, e), e)
<1>0. /\ Pool(c) /\ Linked(c, P, S, D, x) /\ Says(c, e) /\ e.kind \in EventKinds /\ x \in Nat
    BY Bounds DEF Good, Heads, Due, Events
<1>1. PICK i : i = e.item
    OBVIOUS
<1>2. e.kind \in SlotKinds => Runs(c, i) /\ i \in Items /\ i # 0 /\ At(c, e)
    <2>1. e.kind \in SlotKinds => Runs(c, i) /\ i \in Items /\ i # 0
        BY <1>1 DEF Due, Runs, Items
    <2> QED BY <1>0, <1>1, <2>1, HeadSlot
<1>3. PICK f : f = Continue(c, e)
    OBVIOUS
<1>4. Journal(P2, S2, D2) /\ History(P2, T2, S2, D2, x)
    BY <1>0, RecordJournal, RecordHistory
<1>5. CASE e.kind = "Started"
    <2>1. PICK d : d = [c EXCEPT !.pc[e.item] = "exec"]
        OBVIOUS
    <2>2. Goes(c, d, e.item, "exec") /\ f = d
        BY <1>3, <1>5, <2>1 DEF Goes, Continue
    <2>3. Good(d, P2, S2, D2, x) /\ d.phase = c.phase
        BY <1>5, <2>2, StartGood
    <2> QED BY <1>3, <2>2, <2>3 DEF Follows, Settles
<1>6. CASE e.kind # "Started"
    <2>1. /\ S2 = S /\ D \subseteq D2 /\ Good(c, P2, S2, D2, x) /\ IsFiniteSet(S2)
          /\ e.kind = "Terminal" =>
                 /\ Told(c, P2, i) /\ c.slot[i].status = e.status
                 /\ e.auth /\ e.status # "succeeded" => Ended(P2, S2, D2, i)
        <3>1. /\ S2 = S /\ D \subseteq D2 /\ Good(c, P2, S, D2, x)
              /\ e.kind = "Terminal" =>
                    /\ Told(c, P2, e.item) /\ c.slot[e.item].status = e.status
                    /\ e.auth /\ e.status # "succeeded" => Ended(P2, S, D2, e.item)
            BY <1>6, RecordGood
        <3>2. IsFiniteSet(S2)
            BY <1>4 DEF Journal
        <3> QED BY ONLY <1>1, <3>1, <3>2
    <2>2. Linked(c, P2, S2, D2, x)
        BY <2>1 DEF Good
    <2>3. ASSUME NEW d, Good(d, P2, S2, D2, x), Onward(c, d), f = d
          PROVE  Good(f, P2, S2, D2, x) /\ Follows(c, f, e)
        BY <2>3 DEF Onward, Follows
    <2>4. CASE e.kind = "BatchStarted"
        <3>1. c.phase = "starting"
            BY <1>0, <2>4 DEF Says
        <3>2. f = pump([c EXCEPT !.phase = "running", !.closed = Aborted(c)])
            BY <1>3, <2>4 DEF Continue
        <3>3. Good(f, P2, S2, D2, x) /\ Settles(c, f) /\ f.phase \in {"running", "threw", "settling"}
            BY <2>1, <2>4, <3>1, <3>2, OpenGood
        <3> QED BY <1>3, <2>4, <3>3 DEF Follows
    <2>5. CASE e.kind = "Queued"
        <3>1. f = RunSlot(c, i)
            BY <1>1, <1>3, <2>5 DEF Continue
        <3>2. Runs(c, i) /\ c.pc[i] \in {"queued", "sleep"}
            BY <1>1, <1>2, <2>5 DEF SlotKinds, At
        <3>3. Good(RunSlot(c, i), P2, S2, D2, x) /\ Onward(c, RunSlot(c, i))
            BY <1>4, <2>1, <3>2, RunSlotGood
        <3> QED BY <1>3, <2>3, <3>1, <3>3
    <2>6. CASE e.kind = "Terminal"
        <3>1. f = AfterTerminal(c, e)
            BY <1>3, <2>6 DEF Continue
        <3>2. Runs(c, i) /\ c.pc[i] = "end"
            BY <1>1, <1>2, <2>6 DEF SlotKinds, At
        <3>3. Good(AfterTerminal(c, e), P2, S2, D2, x) /\ Onward(c, AfterTerminal(c, e))
            BY <1>1, <2>1, <2>6, <3>2, AfterTerminalGood
        <3> QED BY <1>3, <2>3, <3>1, <3>3
    <2>7. CASE e.kind = "Capacity"
        <3>1. PICK d : d = scheduleRamp(c)
            OBVIOUS
        <3>2. f = Requeue(d, i)
            BY <1>1, <1>3, <2>7, <3>1 DEF Continue
        <3>3. Runs(c, i) /\ c.pc[i] = "rate" /\ i \in Items
            BY <1>1, <1>2, <2>7 DEF SlotKinds, At
        <3>4. Good(d, P2, S2, D2, x) /\ d.pc = c.pc /\ d.phase = c.phase /\ Runs(d, i)
            BY <2>1, <3>1, <3>3, RampGood
        <3>5. Ended(P2, S2, D2, i)
            <4>1. Course(c, P2, i) /\ Attempts(c, S2, D2, x, i)
                BY <2>2, <3>3 DEF Linked
            <4>2. P2[i].status # "succeeded"
                BY <3>3, <4>1 DEF Course
            <4> QED BY <3>3, <4>1, <4>2 DEF Attempts, Ended
        <3>6. Told(d, P2, i)
            BY <3>3, <3>4 DEF Told
        <3>7. Good(Requeue(d, i), P2, S2, D2, x) /\ Requeue(d, i).phase = d.phase
            BY <2>1, <3>3, <3>4, <3>5, <3>6, RequeueGood
        <3>8. f.phase = c.phase
            BY <3>2, <3>4, <3>7
        <3> QED BY <1>3, <3>2, <3>7, <3>8 DEF Follows, Settles
    <2>8. CASE e.kind = "Requeued"
        <3>1. PICK d : d = [c EXCEPT !.pc[i] = "sleep"]
            OBVIOUS
        <3>2. Goes(c, d, i, "sleep") /\ f = d
            BY <1>1, <1>3, <2>8, <3>1 DEF Goes, Continue
        <3>3. Runs(c, i) /\ c.pc[i] = "requeue"
            BY <1>1, <1>2, <2>8 DEF SlotKinds, At
        <3>4. Good(d, P2, S2, D2, x) /\ d.phase = c.phase
            BY <2>1, <3>2, <3>3, SleepGood
        <3> QED BY <1>3, <3>2, <3>4 DEF Follows, Settles
    <2>9. CASE e.kind = "Cancelled"
        <3>1. f = EndSlot(c, i)
            BY <1>1, <1>3, <2>9 DEF Continue
        <3>2. Runs(c, i) /\ c.pc[i] = "cancel"
            BY <1>1, <1>2, <2>9 DEF SlotKinds, At
        <3>3. Told(c, P2, i) /\ c.pc[i] # "start"
            BY <3>2 DEF Told
        <3>4. Good(EndSlot(c, i), P2, S2, D2, x) /\ Onward(c, EndSlot(c, i))
            BY <2>1, <3>2, <3>3, EndSlotGood
        <3> QED BY <1>3, <2>3, <3>1, <3>4
    <2>10. CASE e.kind = "Closed"
        <3>1. PICK by : by = e.by
            OBVIOUS
        <3>2. PICK s \in {"cancelled", "skipped"} : s = e.status
            BY <1>0, <2>10 DEF Says
        <3>3. c.closed /\ Closer(c, by)
            <4>1. e.item # 0
                BY <1>0, <2>10 DEF Says
            <4> QED BY <1>0, <2>10, <3>1, <4>1 DEF Due, Says
        <3>4. PICK d : d = closeQueued(c, i, s, by)
            OBVIOUS
        <3>5. Pool(d)
            <4>1. s \in Statuses
                BY DEF Statuses, ItemTerminal
            <4> QED BY <1>0, <3>3, <3>4, <4>1, CloseQueuedKeeps
        <3>6. Calm(c, d) /\ Settles(c, d)
            BY <1>0, <3>3, <3>4, CloseQueuedCalm
        <3>7. Good(d, P2, S2, D2, x) /\ Onward(c, d)
            BY <2>1, <3>5, <3>6, CalmGood, CalmOnward
        <3>8. f = d
            BY <1>1, <1>3, <2>10, <3>1, <3>2, <3>4 DEF Continue
        <3> QED BY <1>3, <2>3, <3>7, <3>8
    <2>11. CASE e.kind = "BatchSettled"
        <3>1. c.phase = "settling" /\ e.item = 0
            BY <1>0, <2>11 DEF Says
        <3>2. f = [c EXCEPT !.phase = "returned"]
            BY <1>3, <2>11 DEF Continue
        <3>3. \A k \in DOMAIN c.queue : c.queue[k].kind \notin {"BatchStarted", "BatchSettled"}
            <4>1. \A k \in DOMAIN c.queue : c.queue[k].kind # "BatchSettled"
                BY <2>11 DEF Heads
            <4>2. \A k \in DOMAIN c.queue : c.queue[k].kind # "BatchStarted"
                BY <1>0, <3>1 DEF Linked, Pending, Says
            <4> QED BY <4>1, <4>2
        <3>4. "returned" \in Phases /\ c.phase # "running"
            BY <3>1 DEF Phases
        <3>5. Good(f, P2, S2, D2, x) /\ f.phase = "returned" /\ f.queue = c.queue
            BY <2>1, <3>2, <3>3, <3>4, PhaseGood
        <3>6. Settles(c, f)
            BY <3>5 DEF Settles
        <3> QED BY <1>3, <2>11, <3>1, <3>5, <3>6 DEF Follows
    <2> QED BY <1>0, <1>6, <2>4, <2>5, <2>6, <2>7, <2>8, <2>9, <2>10, <2>11 DEF EventKinds
<1> QED BY <1>5, <1>6

\* What follows a refusal fits the journal as it is.
LEMMA RefusedGood ==
    ASSUME NEW c, NEW P, NEW S, NEW D, NEW x, Good(c, P, S, D, x), NEW e, Due(c, e), Heads(c, e),
           e.kind = "BatchStarted" => c.queue = <<>>
    PROVE  /\ Good(Refused(c, e), P, S, D, x) /\ Settles(c, Refused(c, e))
           /\ Refused(c, e).phase = c.phase \/ Refused(c, e).phase \in {"threw", "settling"}
           /\ c.phase # "running" /\ Refused(c, e).phase # c.phase => Refused(c, e).phase = "threw"
<1>0. Pool(c) /\ Linked(c, P, S, D, x) /\ Says(c, e) /\ e.kind \in EventKinds
    BY DEF Good, Heads, Due, Events
<1>1. PICK i : i = e.item
    OBVIOUS
<1>2. PICK f : f = Refused(c, e)
    OBVIOUS
<1>3. ASSUME NEW d, Good(d, P, S, D, x), Onward(c, d), f = d
      PROVE  /\ Good(f, P, S, D, x) /\ Settles(c, f)
             /\ f.phase = c.phase \/ f.phase \in {"threw", "settling"}
             /\ c.phase # "running" /\ f.phase # c.phase => f.phase = "threw"
    BY <1>3 DEF Onward
<1>4. CASE e.kind \in {"BatchStarted", "BatchSettled"}
    <2>1. f = [c EXCEPT !.phase = "threw"]
        BY <1>2, <1>4 DEF Refused
    <2>2. c.phase \in {"starting", "settling"} /\ "threw" \in Phases
        BY <1>0, <1>4 DEF Says, Phases
    <2>3. \A k \in DOMAIN c.queue : c.queue[k].kind \notin {"BatchStarted", "BatchSettled"}
        <3>1. CASE e.kind = "BatchStarted"
            <4>1. c.queue = <<>>
                BY <3>1
            <4> QED BY <4>1
        <3>2. CASE e.kind = "BatchSettled"
            <4>1. \A k \in DOMAIN c.queue : c.queue[k].kind # "BatchSettled"
                BY <3>2 DEF Heads
            <4>2. c.phase = "settling"
                BY <1>0, <3>2 DEF Says
            <4>3. \A k \in DOMAIN c.queue : c.queue[k].kind # "BatchStarted"
                BY <1>0, <4>2 DEF Linked, Pending, Says
            <4> QED BY <4>1, <4>3
        <3> QED BY <1>4, <3>1, <3>2
    <2>4. Good(f, P, S, D, x) /\ f.phase = "threw"
        BY <2>1, <2>2, <2>3, PhaseGood
    <2> QED BY <1>2, <2>4 DEF Settles
<1>5. CASE e.kind = "Queued"
    <2>1. Runs(c, i) /\ c.pc[i] = "queued"
        <3>1. Runs(c, i) /\ i # 0
            BY <1>1, <1>5 DEF Due, SlotKinds, Runs, Items
        <3> QED BY <1>0, <1>1, <1>5, <3>1, HeadSlot DEF At
    <2>2. Good(AdmissionThrows(c, i), P, S, D, x) /\ Onward(c, AdmissionThrows(c, i))
        BY <1>0, <2>1, AdmissionThrowsGood
    <2>3. f = AdmissionThrows(c, i)
        BY <1>1, <1>2, <1>5 DEF Refused
    <2> QED BY <1>2, <1>3, <2>2, <2>3
<1>6. CASE e.kind = "Closed"
    <2>1. PICK by : by = e.by
        OBVIOUS
    <2>2. Closer(c, by)
        BY <1>6, <2>1 DEF Due
    <2>3. PICK d : d = IF by = 0 THEN c ELSE [c EXCEPT !.pc[by] = "gone"]
        OBVIOUS
    <2>4. Good(d, P, S, D, x) /\ d.phase = c.phase
        <3>1. CASE by = 0
            BY <2>3, <3>1
        <3>2. CASE by # 0
            <4>1. by \in Items /\ c.pc[by] = "close" /\ Free(c, by)
                BY <2>2, <3>2, Bounds DEF Closer, Items
            <4>2. Goes(c, d, by, "gone")
                BY <2>3, <3>2 DEF Goes
            <4>3. Pool(d) /\ Calm(c, d) /\ d.phase = c.phase
                BY <1>0, <4>1, <4>2, GoneCalm
            <4> QED BY <4>3, CalmGood
        <3> QED BY <3>1, <3>2
    <2>5. Good(failRun(d), P, S, D, x) /\ Onward(d, failRun(d))
        BY <2>4, FailGood DEF Good
    <2>6. Onward(c, failRun(d))
        BY <2>4, <2>5 DEF Onward, Settles
    <2>7. f = failRun(d)
        BY <1>2, <1>6, <2>1, <2>3 DEF Refused
    <2> QED BY <1>2, <1>3, <2>5, <2>6, <2>7
<1>7. CASE e.kind \in SlotKinds \ {"Queued"}
    <2>1. Runs(c, i)
        BY <1>1, <1>7 DEF Due
    <2>2. Good(SlotThrows(c, i), P, S, D, x) /\ Onward(c, SlotThrows(c, i))
        BY <1>0, <2>1, SlotThrowsGood
    <2>3. f = SlotThrows(c, i)
        BY <1>1, <1>2, <1>7 DEF Refused, SlotKinds
    <2> QED BY <1>2, <1>3, <2>2, <2>3
<1> QED BY <1>0, <1>4, <1>5, <1>6, <1>7 DEF EventKinds, SlotKinds

\* A batch whose pool has drained reports what the journal proves.
LEMMA ReportProved ==
    ASSUME NEW c, NEW P \in [Items -> Slot], NEW S, NEW D, NEW x, Good(c, P, S, D, x),
           c.active = 0, ~c.fatal, IsFiniteSet(S), policy \in PolicyKinds
    PROVE  /\ Report(c).assignments = Cardinality(S)
           /\ Report(c).outcome = "completed" /\ Report(c).auth =>
                 Proved(P) /\ \A k \in DOMAIN c.queue : c.queue[k].item = 0
<1>0. Pool(c) /\ Linked(c, P, S, D, x) /\ Trusted(c, P) /\ Charged(c, S) /\ c \in Closure
    BY DEF Good, Pool
<1>1. Seated(c) = {}
    <2>1. IsFiniteSet(Seated(c)) /\ Cardinality(Seated(c)) = 0
        BY <1>0, SeatedFinite DEF Pool
    <2> QED BY <2>1, FS_EmptySet
<1>2. \A i \in Items : c.pc[i] \in {"idle", "close", "gone"}
    BY <1>1 DEF Seated
<1>3. Report(c).assignments = Cardinality(S)
    <2>1. {i \in Items : c.pc[i] = "start"} = {}
        BY <1>2
    <2>2. c.prior + c.executed = Cardinality(S) + Cardinality({i \in Items : c.pc[i] = "start"})
        BY <1>0 DEF Charged
    <2>3. Cardinality({}) = 0 /\ Cardinality(S) \in Nat
        BY FS_EmptySet, FS_CardinalityType
    <2>4. c.prior + c.executed = Cardinality(S)
        BY <2>1, <2>2, <2>3
    <2> QED BY <2>4 DEF Report
<1>4. ASSUME Report(c).outcome = "completed", Report(c).auth
      PROVE  Proved(P) /\ \A k \in DOMAIN c.queue : c.queue[k].item = 0
    <2>1. /\ aggregateOutcome(c) = "completed"
          /\ \A i \in Items : c.slot[i].status = "skipped" \/ c.slot[i].auth
        BY <1>4 DEF Report
    <2>2. PICK W : W = {i \in Items : c.slot[i].status \in {"succeeded"}}
        OBVIOUS
    <2>3. /\ ~Aborted(c)
          /\ policy = "quorum" => Cardinality(W) >= Threshold
          /\ policy \notin {"continue", "quorum"} => Cardinality(W) = N
        <3>1. PICK gone \in BOOLEAN :
                  gone = (Aborted(c) \/ Cardinality({i \in Items : c.slot[i].status \in {"cancelled"}}) > 0)
            OBVIOUS
        <3>2. PICK none \in BOOLEAN :
                  none = (Cardinality({i \in Items : c.slot[i].status \in {"failed", "budget-exhausted"}}) = 0)
            OBVIOUS
        <3>3. aggregateOutcome(c) =
                  IF gone THEN "cancelled"
                  ELSE IF \/ policy = "continue"
                          \/ policy = "quorum" /\ Cardinality(W) >= Threshold
                          \/ policy \in {"fail-fast", "all-required"} /\ none /\ Cardinality(W) = N
                       THEN "completed" ELSE "failed"
            BY <2>2, <3>1, <3>2 DEF aggregateOutcome
        <3>4. ~gone
            BY ONLY <2>1, <3>3
        <3>5. policy = "quorum" => Cardinality(W) >= Threshold
            BY ONLY <2>1, <3>3
        <3>6. policy \notin {"continue", "quorum"} => Cardinality(W) = N
            BY <2>1, <3>3 DEF PolicyKinds
        <3> QED BY <3>1, <3>4, <3>5, <3>6
    <2>4. IsFiniteSet(Items) /\ Cardinality(Items) = N
        BY Bounds, FS_Interval DEF Items
    <2>5. policy \notin {"continue", "quorum"} => W = Items
        <3>1. W \subseteq Items
            BY <2>2
        <3> QED BY <2>3, <2>4, <3>1, FS_Subset
    <2>6. ~c.closed
        <3>1. SUFFICES ASSUME c.closed PROVE FALSE
            OBVIOUS
        <3>2. policy = "fail-fast" /\ \E i \in Items : c.slot[i].status # "succeeded"
            BY <1>0, <2>3, <3>1 DEF Linked, Counts
        <3> QED BY <2>2, <2>5, <3>2
    <2>7. \A i \in Items : /\ P[i].auth
                           /\ c.slot[i].status = "succeeded" => P[i].status = "succeeded"
        <3>1. \A i \in Items : c.pc[i] # "end"
            BY <1>2
        <3> QED BY <1>0, <2>1, <2>3, <2>6, <3>1 DEF Trusted
    <2>8. PICK good : good = {i \in Items : P[i].status = "succeeded" /\ P[i].auth}
        OBVIOUS
    <2>9. W \subseteq good /\ good \subseteq Items
        BY <2>2, <2>7, <2>8
    <2>10. policy \in {"fail-fast", "all-required"} => good = Items
        BY <2>5, <2>9
    <2>11. policy = "quorum" => Cardinality(good) >= Threshold
        <3>1. IsFiniteSet(good) /\ IsFiniteSet(W)
            BY <2>4, <2>9, FS_Subset
        <3>2. Cardinality(W) <= Cardinality(good)
            BY <2>9, <3>1, FS_Subset
        <3>3. Cardinality(W) \in Nat /\ Cardinality(good) \in Nat /\ Threshold \in Nat
            BY <3>1, FS_CardinalityType, BatchAssumption
        <3> QED BY <2>3, <3>2, <3>3
    <2>12. Proved(P)
        BY <2>7, <2>8, <2>10, <2>11 DEF Proved
    <2>13. ASSUME NEW k \in DOMAIN c.queue PROVE c.queue[k].item = 0
        <3>1. PICK e \in Events : e = c.queue[k]
            BY <1>0, <2>13 DEF Closure
        <3>2. Awaited(c, e) /\ Says(c, e)
            BY <1>0, <2>13, <3>1 DEF Pool, Linked, Pending
        <3>3. SUFFICES ASSUME e.item # 0 PROVE FALSE
            BY <3>1
        <3>4. e.kind \notin {"BatchStarted", "BatchSettled"} /\ e.kind \in EventKinds
            BY <3>2, <3>3 DEF Says, Events
        <3>5. e.kind # "Closed"
            BY <2>6, <3>2, <3>3 DEF Says
        <3>6. c.pc[e.item] = Waits[e.kind] /\ e.kind \in SlotKinds
            BY <3>2, <3>3, <3>4, <3>5 DEF Awaited, Owner, EventKinds, SlotKinds
        <3>7. e.item \in Items
            BY <3>3, Bounds DEF Events, Items
        <3> QED BY <1>2, <3>6, <3>7, WaitsInside DEF Inside
    <2> QED BY <2>12, <2>13
<1> QED BY <1>3, <1>4

\* The invariant after a step, from what the step has made of the closure and the journal.
LEMMA InvNext ==
    ASSUME NEW d, NEW P, NEW T, NEW S, NEW D, NEW x, NEW v, BatchTypeOK', policy' = policy,
           m' = d, projected' = P, terminals' = T, started' = S, ended' = D, exec' = x,
           verdict' = v, IsFiniteSet(S), Pool(d), History(P, T, S, D, x),
           d.phase # "down" => /\ Good(d, P, S, D, x) /\ Starts(d) /\ Decided(d, v, P, S)
    PROVE  BatchInv'
<1>1. PoolInv'
    BY DEF PoolInv, Pool, Seated, Awaited
<1>2. History(projected, terminals, started, ended, exec)'
    BY DEF History
<1>3. Up' => d.phase # "down"
    BY DEF Up
<1>4. ASSUME d.phase # "down"
      PROVE  /\ Linked(m, projected, started, ended, exec)'
             /\ Trusted(m, projected)' /\ Charged(m, started)' /\ Starts(m)'
             /\ Decided(m, verdict, projected, started)'
    <2>1. /\ \A i \in Items : Course(d, P, i) /\ Attempts(d, S, D, x, i)
          /\ Pending(d) /\ Counts(d) /\ Trusted(d, P) /\ Charged(d, S) /\ Starts(d)
          /\ Decided(d, v, P, S)
        BY <1>4 DEF Good, Linked
    <2>2. (\A i \in Items : Course(m, projected, i))'
        BY <2>1 DEF Course, Aborted
    <2>3. (\A i \in Items : Attempts(m, started, ended, exec, i))'
        BY <2>1 DEF Attempts
    <2>4. Pending(m)'
        BY <2>1 DEF Pending, Says
    <2>5. Counts(m)'
        BY <2>1 DEF Counts, Aborted
    <2>6. Trusted(m, projected)' /\ Charged(m, started)' /\ Starts(m)'
        BY <2>1 DEF Trusted, Charged, Starts, Aborted
    <2>7. Decided(m, verdict, projected, started)'
        BY <2>1 DEF Decided, Proved
    <2> QED BY <2>2, <2>3, <2>4, <2>5, <2>6, <2>7 DEF Linked
<1> QED BY <1>1, <1>2, <1>3, <1>4 DEF BatchInv

\* A step that leaves the journal alone.
LEMMA StepInv ==
    ASSUME BatchInv, Up, NEW d, Becomes(d), PoolInv',
           UNCHANGED <<policy, projected, terminals, started, ended, exec>>,
           Good(d, projected, started, ended, exec), Settles(m, d), d.phase = "starting" => Starts(d),
           d.phase = "returned" => m.phase = "returned",
           m.phase \in {"settling", "returned"} /\ d.phase = m.phase =>
               ((\A k \in DOMAIN m.queue : m.queue[k].item = 0)
                    => \A k \in DOMAIN d.queue : d.queue[k].item = 0)
    PROVE  BatchInv'
<1>1. PICK P, T, S, D, x, v :
          /\ P = projected /\ T = terminals /\ S = started /\ D = ended /\ x = exec
          /\ v = IF m.phase # "settling" /\ d.phase = "settling" THEN Report(d) ELSE verdict
    OBVIOUS
<1>2. /\ m' = d /\ verdict' = v /\ projected' = P /\ terminals' = T /\ started' = S
      /\ ended' = D /\ exec' = x /\ policy' = policy
    BY <1>1 DEF Becomes
<1>3. /\ BatchTypeOK' /\ policy \in PolicyKinds /\ IsFiniteSet(S)
      /\ P \in [Items -> Slot]
    BY <1>1 DEF PoolInv, BatchInv, BatchTypeOK
<1>4. History(P, T, S, D, x) /\ Decided(m, verdict, P, S)
    BY <1>1 DEF BatchInv
<1>5. Good(d, P, S, D, x)
    BY <1>1
<1>6. ASSUME d.phase \in {"settling", "returned"}
      PROVE  /\ v.assignments = Cardinality(S)
             /\ v.outcome = "completed" /\ v.auth =>
                   Proved(P) /\ \A k \in DOMAIN d.queue : d.queue[k].item = 0
    <2>1. CASE m.phase # "settling" /\ d.phase = "settling"
        <3>1. v = Report(d) /\ d.active = 0 /\ ~d.fatal
            BY <1>1, <2>1 DEF Settles
        <3> QED BY <1>3, <1>5, <3>1, ReportProved
    <2>2. CASE ~(m.phase # "settling" /\ d.phase = "settling")
        <3>1. v = verdict /\ m.phase = d.phase
            BY <1>1, <1>6, <2>2
        <3>2. /\ v.assignments = Cardinality(S)
              /\ v.outcome = "completed" /\ v.auth =>
                   Proved(P) /\ \A k \in DOMAIN m.queue : m.queue[k].item = 0
            BY <1>4, <1>6, <3>1 DEF Decided
        <3>3. (\A k \in DOMAIN m.queue : m.queue[k].item = 0)
                    => \A k \in DOMAIN d.queue : d.queue[k].item = 0
            BY <1>6, <3>1
        <3> QED BY <3>2, <3>3
    <2> QED BY <2>1, <2>2
<1>7. Decided(d, v, P, S)
    BY <1>6 DEF Decided
<1>8. Starts(d)
    BY DEF Starts
<1>9. Pool(d)
    BY <1>5 DEF Good
<1> QED BY <1>2, <1>3, <1>4, <1>5, <1>7, <1>8, <1>9, InvNext

\* What the invariant says of a closure that is up.
LEMMA UpIs ==
    ASSUME BatchInv, Up
    PROVE  /\ Good(m, projected, started, ended, exec) /\ Starts(m) /\ IsFiniteSet(started)
           /\ Journal(projected, started, ended)
           /\ History(projected, terminals, started, ended, exec)
           /\ Pool(m) /\ Counts(m) /\ PoolInv
<1>1. /\ PoolInv /\ History(projected, terminals, started, ended, exec) /\ Starts(m)
      /\ Linked(m, projected, started, ended, exec) /\ Trusted(m, projected) /\ Charged(m, started)
    BY DEF BatchInv
<1>2. Pool(m) /\ BatchTypeOK /\ IsFiniteSet(started)
    BY <1>1 DEF PoolInv
<1>3. Journal(projected, started, ended)
    BY <1>1, <1>2 DEF BatchTypeOK, History, Journal
<1>4. Counts(m)
    BY <1>1 DEF Linked
<1> QED BY <1>1, <1>2, <1>3, <1>4 DEF Good

\* A step of a slot that runs.
LEMMA SlotStepInv ==
    ASSUME BatchInv, Up, NEW i, Runs(m, i), NEW d, Becomes(d), PoolInv',
           UNCHANGED <<policy, projected, terminals, started, ended, exec>>,
           Good(d, projected, started, ended, exec), Onward(m, d)
    PROVE  BatchInv'
<1>1. m.phase = "running"
    BY UpIs, RunsRunning
<1>2. Settles(m, d) /\ d.phase \in {"running", "threw", "settling"}
    BY <1>1 DEF Onward
<1> QED BY <1>1, <1>2, StepInv

\* An item ends, by itself or by an abort.
LEMMA EndSafe ==
    ASSUME BatchInv, Up, NEW i \in Items, m.pc[i] = "exec", NEW end \in TerminalEnd, EndItem(i, end),
           UNCHANGED <<policy, projected, terminals, started, ended, exec, faults>>
    PROVE  BatchInv'
<1>1. Good(m, projected, started, ended, exec) /\ Pool(m) /\ IsFiniteSet(started) /\ PoolInv
    BY UpIs
<1>2. PICK d : d = [m EXCEPT !.slot[i] = [@ EXCEPT !.status = end.status, !.auth = end.auth],
                             !.pc[i] = "end"]
    OBVIOUS
<1>3. PICK f : f = Emit(d, [Event("Terminal", i, d.slot[i], i) EXCEPT !.retry = end.retry])
    OBVIOUS
<1>4. Good(f, projected, started, ended, exec) /\ f.phase = m.phase
    <2>1. /\ Good(m, projected, started, ended, exec) /\ IsFiniteSet(started)
          /\ i \in Items /\ m.pc[i] = "exec" /\ end \in TerminalEnd
        BY <1>1
    <2>2. LET a == [m EXCEPT !.slot[i] = [@ EXCEPT !.status = end.status, !.auth = end.auth],
                             !.pc[i] = "end"]
              b == Emit(a, [Event("Terminal", i, a.slot[i], i) EXCEPT !.retry = end.retry])
          IN  Good(b, projected, started, ended, exec) /\ b.phase = m.phase
        BY ONLY <2>1, EndGood, Zenon
    <2> QED BY <1>2, <1>3, <2>2, Zenon
<1>5. Becomes(f)
    BY <1>2, <1>3, Zenon DEF EndItem
<1>6. Runs(m, i)
    <2>1. Free(m, i)
        BY <1>1, NonePending
    <2> QED BY <1>1, <2>1 DEF Runs, Inside, Steps
<1>7. PoolInv'
    BY <1>1, EndInv
<1>8. Onward(m, f)
    BY <1>4, OnwardSame
<1> QED BY <1>4, <1>5, <1>6, <1>7, <1>8, SlotStepInv

\* executeItem of a running item ends.
LEMMA FinishSafe == \A i \in Items : BatchInv /\ FinishItem(i) => BatchInv'
<1> SUFFICES ASSUME NEW i \in Items, BatchInv, FinishItem(i) PROVE BatchInv'
    OBVIOUS
<1>1. PICK end \in ItemEnds : EndItem(i, end)
    BY DEF FinishItem
<1>2. end \in TerminalEnd
    BY BatchAssumption
<1>3. /\ Up /\ m.pc[i] = "exec"
      /\ UNCHANGED <<policy, projected, terminals, started, ended, exec, faults>>
    BY DEF FinishItem
<1> QED BY <1>1, <1>2, <1>3, EndSafe

\* executeItem is interrupted by an abort.
LEMMA InterruptSafe == \A i \in Items : BatchInv /\ Interrupt(i) => BatchInv'
<1> SUFFICES ASSUME NEW i \in Items, BatchInv, Interrupt(i) PROVE BatchInv'
    OBVIOUS
<1>1. [status |-> "cancelled", auth |-> FALSE, retry |-> "none"] \in TerminalEnd
    BY DEF TerminalEnd
<1>2. PICK end \in TerminalEnd : end = [status |-> "cancelled", auth |-> FALSE, retry |-> "none"]
    BY <1>1
<1>3. EndItem(i, end)
    BY <1>2 DEF Interrupt
<1>4. /\ Up /\ m.pc[i] = "exec"
      /\ UNCHANGED <<policy, projected, terminals, started, ended, exec, faults>>
    BY DEF Interrupt
<1> QED BY <1>3, <1>4, EndSafe

\* The delay before a retry is over.
LEMMA WakeSafe == \A i \in Items : BatchInv /\ Wake(i) => BatchInv'
<1> SUFFICES ASSUME NEW i \in Items, BatchInv, Wake(i) PROVE BatchInv'
    OBVIOUS
<1>1. /\ Up /\ m.pc[i] = "sleep" /\ Becomes(RunSlot(m, i))
      /\ UNCHANGED <<policy, projected, terminals, started, ended, exec>>
    BY DEF Wake
<1>2. /\ Good(m, projected, started, ended, exec) /\ Pool(m) /\ PoolInv
      /\ Journal(projected, started, ended) /\ History(projected, terminals, started, ended, exec)
    BY <1>1, UpIs
<1>3. Runs(m, i)
    <2>1. Free(m, i)
        BY <1>1, <1>2, NonePending
    <2> QED BY <1>1, <1>2, <2>1 DEF Runs, Inside, Steps
<1>4. Good(RunSlot(m, i), projected, started, ended, exec) /\ Onward(m, RunSlot(m, i))
    BY <1>1, <1>2, <1>3, RunSlotGood
<1>5. PoolInv'
    BY <1>2, WakeInv
<1> QED BY <1>1, <1>3, <1>4, <1>5, SlotStepInv

\* The ramp raises the capacity, and the pump admits more.
LEMMA RampSafe == BatchInv /\ RampFires => BatchInv'
<1> SUFFICES ASSUME BatchInv, RampFires PROVE BatchInv'
    OBVIOUS
<1>1. m.phase = "running" /\ Up /\ UNCHANGED <<policy, projected, terminals, started, ended, exec>>
    BY DEF RampFires, Up
<1>2. Good(m, projected, started, ended, exec) /\ Pool(m) /\ PoolInv
    BY <1>1, UpIs
<1>3. PICK cap \in 1..Ceiling :
          cap = IF m.closed THEN m.capacity ELSE Least(Ceiling, Least(m.capacity + 1, N))
    <2>1. PICK k \in 1..Ceiling : k = m.capacity
        BY <1>2 DEF Pool, Closure
    <2>2. Least(Ceiling, Least(k + 1, N)) \in 1..Ceiling
        BY Bounds DEF Least
    <2> QED BY <2>1, <2>2
<1>4. PICK c : c = [m EXCEPT !.capacity = cap, !.ramp = FALSE]
    OBVIOUS
<1>5. c = [m EXCEPT !.ramp = FALSE,
                    !.capacity = IF m.closed THEN @ ELSE Least(Ceiling, Least(@ + 1, N))]
    BY <1>2, <1>3, <1>4 DEF Pool, Closure
<1>6. Good(c, projected, started, ended, exec) /\ c.phase = "running" /\ Pool(c)
    <2>1. PICK r \in BOOLEAN : r = FALSE
        OBVIOUS
    <2>2. Timers(m, c, cap, r)
        BY <1>4, <2>1 DEF Timers
    <2>3. Good(c, projected, started, ended, exec) /\ c.phase = m.phase
        BY <1>2, <1>3, <2>2, TimersGood
    <2> QED BY <1>1, <2>3 DEF Good
<1>7. PICK d : d = pump(c)
    OBVIOUS
<1>8. Pool(d) /\ Calm(c, d) /\ Settles(c, d) /\ Good(d, projected, started, ended, exec)
    BY <1>6, <1>7, PumpKeeps, PumpCalm, CalmGood
<1>9. PICK f : f = scheduleRamp(d)
    OBVIOUS
<1>10. Good(f, projected, started, ended, exec)
    BY <1>8, <1>9, RampGood
<1>11. f.phase = d.phase /\ f.active = d.active /\ f.fatal = d.fatal
    BY <1>8, <1>9 DEF scheduleRamp, Pool, Closure
<1>12. d.phase \in {"running", "threw", "settling"}
    BY <1>6, <1>8 DEF Calm, CalmFlags
<1>13. Settles(m, f)
    BY <1>1, <1>6, <1>8, <1>11 DEF Settles
<1>14. Becomes(f)
    BY <1>5, <1>7, <1>9 DEF RampFires
<1>15. PoolInv'
    BY <1>2, RampInv
<1> QED BY <1>1, <1>10, <1>11, <1>12, <1>13, <1>14, <1>15, StepInv

\* The signal of the caller, or the deadline.
LEMMA AbortSafe == \A reason \in {"cancel", "deadline"} : BatchInv /\ Abort(reason) => BatchInv'
<1> SUFFICES ASSUME NEW reason \in {"cancel", "deadline"}, BatchInv, Abort(reason) PROVE BatchInv'
    OBVIOUS
<1>1. /\ m.phase \in {"starting", "running"} /\ Up
      /\ UNCHANGED <<policy, projected, terminals, started, ended, exec>>
    BY DEF Abort, Up
<1>2. Good(m, projected, started, ended, exec) /\ Pool(m) /\ PoolInv /\ Starts(m)
    BY <1>1, UpIs
<1>3. PICK c : c = [m EXCEPT !.abort = reason]
    OBVIOUS
<1>4. /\ c.slot = m.slot /\ c.pc = m.pc /\ c.queue = m.queue /\ c.next = m.next
      /\ c.active = m.active /\ c.completed = m.completed /\ c.executed = m.executed
      /\ c.prior = m.prior /\ c.phase = m.phase /\ c.closed = m.closed /\ c.abort = reason
      /\ c.fatal = m.fatal
    BY <1>2, <1>3 DEF Pool, Closure
<1>5. Aborted(c)
    BY <1>4 DEF Aborted
<1>6. Calm(m, c)
    <2>1. CalmFlags(m, c)
        BY <1>4, <1>5 DEF CalmFlags
    <2> QED BY <1>4, <2>1, CalmFields
<1>7. Pool(c)
    <2>1. SameSeats(m, c)
        BY <1>2, <1>3 DEF Pool, Closure, SameSeats
    <2> QED BY <1>2, <2>1, SeatsKeep
<1>8. Good(c, projected, started, ended, exec)
    BY <1>2, <1>6, <1>7, CalmGood
<1>9. PICK d : d = IF m.phase = "starting" \/ Aborted(m) THEN c ELSE abortAdmission(c)
    OBVIOUS
<1>10. Becomes(d)
    BY <1>3, <1>9 DEF Abort
<1>11. PoolInv'
    BY <1>2, AbortInv
<1>12. CASE m.phase = "starting" \/ Aborted(m)
    <2>1. d = c
        BY <1>9, <1>12
    <2>2. d.phase = "starting" => Starts(d)
        BY <1>2, <1>4, <2>1 DEF Starts
    <2>3. Settles(m, d)
        BY <1>1, <1>4, <2>1 DEF Settles
    <2> QED BY <1>1, <1>4, <1>8, <1>10, <1>11, <2>1, <2>2, <2>3, StepInv
<1>13. CASE ~(m.phase = "starting" \/ Aborted(m))
    <2>1. d = abortAdmission(c) /\ m.phase = "running"
        BY <1>1, <1>9, <1>13
    <2>2. Pool(d) /\ Calm(c, d) /\ Settles(c, d)
        BY <1>5, <1>7, <2>1, AbortKeeps, AbortCalm
    <2>3. Good(d, projected, started, ended, exec)
        BY <1>8, <2>2, CalmGood
    <2>4. Settles(m, d) /\ d.phase \in {"running", "threw", "settling"}
        BY <1>4, <2>1, <2>2 DEF Settles, Calm, CalmFlags
    <2> QED BY <1>1, <1>10, <1>11, <2>1, <2>3, <2>4, StepInv
<1> QED BY <1>12, <1>13

\* The journal refuses the head of the queue.
LEMMA RefuseSafe == BatchInv /\ Refuse => BatchInv'
<1> SUFFICES ASSUME BatchInv, Refuse PROVE BatchInv'
    OBVIOUS
<1>1. Up /\ m.queue # <<>> /\ UNCHANGED <<policy, projected, terminals, started, ended, exec>>
    BY DEF Refuse
<1>2. Good(m, projected, started, ended, exec) /\ PoolInv /\ Starts(m)
    BY <1>1, UpIs
<1>3. PICK c : c = [m EXCEPT !.queue = Tail(@)]
    OBVIOUS
<1>4. PICK e : e = Head(m.queue)
    OBVIOUS
<1>5. /\ Good(c, projected, started, ended, exec) /\ Heads(c, e) /\ Due(c, e)
      /\ c.phase = m.phase /\ c.closed = m.closed
      /\ c.phase = "starting" => c.queue = <<>> /\ e.kind = "BatchStarted"
      /\ \A k \in DOMAIN c.queue : \E l \in DOMAIN m.queue : c.queue[k] = m.queue[l]
      /\ \E l \in DOMAIN m.queue : e = m.queue[l]
    <2>1. /\ Good(c, projected, started, ended, exec) /\ Heads(c, e) /\ Due(c, e)
          /\ c.phase = m.phase /\ c.closed = m.closed
          /\ Starts(m) /\ m.phase = "starting" => c.queue = <<>> /\ e.kind = "BatchStarted"
          /\ \A k \in DOMAIN c.queue : \E l \in DOMAIN m.queue : c.queue[k] = m.queue[l]
          /\ \E l \in DOMAIN m.queue : e = m.queue[l]
        <3>1. Pops(m, c, e)
            BY <1>1, <1>3, <1>4 DEF Pops
        <3> QED BY ONLY <1>2, <3>1, PopGood
    <2> QED BY ONLY <1>2, <2>1
<1>6. Says(c, e)
    BY <1>5 DEF Heads
<1>7. PICK f : f = Refused(c, e)
    OBVIOUS
<1>8. /\ Good(f, projected, started, ended, exec) /\ Settles(c, f)
      /\ f.phase = c.phase \/ f.phase \in {"threw", "settling"}
    <2>1. e.kind = "BatchStarted" => c.queue = <<>>
        BY <1>5, <1>6 DEF Says
    <2> QED BY <1>5, <1>7, <2>1, RefusedGood
<1>9. e.kind \in {"BatchStarted", "BatchSettled"} => f.phase = "threw"
    <2>1. c \in Closure
        BY <1>5 DEF Good, Pool
    <2> QED BY <1>7, <2>1 DEF Refused, Closure
<1>10. Becomes(f)
    BY <1>3, <1>4, <1>7 DEF Refuse, Popped
<1>11. PoolInv'
    BY <1>2, RefuseInv
<1>12. f.phase # "starting"
    BY <1>5, <1>8, <1>9
<1>13. (\A k \in DOMAIN m.queue : m.queue[k].item = 0) => f.phase = "threw"
    <2>1. (\A k \in DOMAIN m.queue : m.queue[k].item = 0) => e.item = 0
        BY <1>5
    <2> QED BY <1>6, <1>9, <2>1 DEF Says
<1>14. Settles(m, f)
    BY <1>5, <1>8 DEF Settles
<1>15. f.phase = "returned" => m.phase = "returned"
    BY <1>5, <1>8
<1>16. m.phase \in {"settling", "returned"} /\ f.phase = m.phase =>
          ((\A k \in DOMAIN m.queue : m.queue[k].item = 0)
              => \A k \in DOMAIN f.queue : f.queue[k].item = 0)
    BY <1>13
<1> QED BY <1>1, <1>8, <1>10, <1>11, <1>12, <1>14, <1>15, <1>16, StepInv

\* The head of the queue is appended.
LEMMA RecordSafe == BatchInv /\ Record => BatchInv'
<1> SUFFICES ASSUME BatchInv, Record PROVE BatchInv'
    OBVIOUS
<1>1. Up /\ m.queue # <<>> /\ UNCHANGED <<policy, exec>>
    BY DEF Record
<1>2. PICK P, T, S, D, x : P = projected /\ T = terminals /\ S = started /\ D = ended /\ x = exec
    OBVIOUS
<1>3. PICK P2, T2, S2, D2 :
          P2 = projected' /\ T2 = terminals' /\ S2 = started' /\ D2 = ended'
    OBVIOUS
<1>4. /\ Good(m, P, S, D, x) /\ PoolInv /\ Starts(m) /\ Journal(P, S, D) /\ History(P, T, S, D, x)
    BY <1>1, <1>2, UpIs
<1>5. x \in 1..(MaxCrashes + 1) /\ policy \in PolicyKinds
    BY <1>2, <1>4 DEF PoolInv, BatchTypeOK
<1>6. PICK c : c = [m EXCEPT !.queue = Tail(@)]
    OBVIOUS
<1>7. PICK e : e = Head(m.queue)
    OBVIOUS
<1>8. /\ Good(c, P, S, D, x) /\ Heads(c, e) /\ Due(c, e)
      /\ c.phase = m.phase /\ c.closed = m.closed
      /\ c.phase = "starting" => c.queue = <<>> /\ e.kind = "BatchStarted"
      /\ \A k \in DOMAIN c.queue : \E l \in DOMAIN m.queue : c.queue[k] = m.queue[l]
      /\ \E l \in DOMAIN m.queue : e = m.queue[l]
    <2>1. /\ Good(c, P, S, D, x) /\ Heads(c, e) /\ Due(c, e)
          /\ c.phase = m.phase /\ c.closed = m.closed
          /\ Starts(m) /\ m.phase = "starting" => c.queue = <<>> /\ e.kind = "BatchStarted"
          /\ \A k \in DOMAIN c.queue : \E l \in DOMAIN m.queue : c.queue[k] = m.queue[l]
          /\ \E l \in DOMAIN m.queue : e = m.queue[l]
        <3>1. Pops(m, c, e)
            BY <1>1, <1>6, <1>7 DEF Pops
        <3> QED BY ONLY <1>4, <3>1, PopGood
    <2> QED BY ONLY <1>4, <2>1
<1>9. Says(c, e) /\ c \in Closure /\ Linked(c, P, S, D, x) /\ Counts(c)
    BY <1>8 DEF Heads, Good, Pool, Linked
<1>10. e.kind = "BatchStarted" => c.phase = "starting" /\ c.queue = <<>> /\ ~c.closed
    BY <1>4, <1>8, <1>9 DEF Says, Starts
<1>11. Records(P, T, S, D, x, e, P2, T2, S2, D2)
    BY <1>2, <1>3, <1>7 DEF Record, Append_, Records
<1>12. PICK f : f = Continue(c, e)
    OBVIOUS
<1>13. Good(f, P2, S2, D2, x) /\ Follows(c, f, e)
    BY <1>4, <1>5, <1>8, <1>10, <1>11, <1>12, ContinueGood
<1>14. Journal(P2, S2, D2) /\ History(P2, T2, S2, D2, x)
    BY <1>4, <1>5, <1>8, <1>9, <1>11, RecordJournal, RecordHistory
<1>15. PICK v : v = IF m.phase # "settling" /\ f.phase = "settling" THEN Report(f) ELSE verdict
    OBVIOUS
<1>16. m' = f /\ verdict' = v
    BY <1>6, <1>7, <1>12, <1>15 DEF Record, Becomes, Popped
<1>17. f.phase # "starting"
    <2>1. CASE c.phase = "starting"
        <3>1. f = pump([c EXCEPT !.phase = "running", !.closed = Aborted(c)])
            BY <1>8, <1>12, <2>1 DEF Continue
        <3>2. c.queue = <<>> /\ ~c.closed
            BY <1>8, <1>10, <2>1
        <3> QED BY <1>8, <2>1, <3>1, <3>2, OpenGood
    <2>2. CASE c.phase # "starting"
        BY <1>13, <2>2 DEF Follows
    <2> QED BY <2>1, <2>2
<1>18. ASSUME f.phase \in {"settling", "returned"}
       PROVE  /\ v.assignments = Cardinality(S2)
              /\ v.outcome = "completed" /\ v.auth =>
                    Proved(P2) /\ \A k \in DOMAIN f.queue : f.queue[k].item = 0
    <2>1. CASE m.phase # "settling" /\ f.phase = "settling"
        <3>1. v = Report(f) /\ f.active = 0 /\ ~f.fatal
            BY <1>8, <1>13, <1>15, <2>1 DEF Follows, Settles
        <3>2. P2 \in [Items -> Slot] /\ IsFiniteSet(S2)
            BY <1>14 DEF Journal
        <3> QED BY <1>5, <1>13, <3>1, <3>2, ReportProved
    <2>2. CASE ~(m.phase # "settling" /\ f.phase = "settling")
        <3>1. v = verdict /\ m.phase \in {"settling", "returned"}
            BY <1>8, <1>13, <1>15, <1>18, <2>2 DEF Follows
        <3>2. /\ v.assignments = Cardinality(S)
              /\ v.outcome = "completed" /\ v.auth =>
                   Proved(P) /\ \A k \in DOMAIN m.queue : m.queue[k].item = 0
            <4>1. Decided(m, verdict, P, S)
                BY <1>1, <1>2 DEF BatchInv
            <4> QED BY <3>1, <4>1 DEF Decided
        <3>3. S2 = S
            <4>1. e.kind # "Started"
                BY <1>8, <1>9, <3>1, RunsRunning DEF Due, SlotKinds
            <4> QED BY <1>11, <4>1 DEF Records
        <3>4. ASSUME v.outcome = "completed", v.auth
              PROVE  Proved(P2) /\ \A k \in DOMAIN f.queue : f.queue[k].item = 0
            <4>1. e.item = 0 /\ \A k \in DOMAIN c.queue : c.queue[k].item = 0
                BY <1>8, <3>2, <3>4
            <4>2. e.kind = "BatchSettled"
                BY <1>8, <1>9, <3>1, <4>1 DEF Says
            <4>3. f = [c EXCEPT !.phase = "returned"]
                BY <1>12, <4>2 DEF Continue
            <4>4. f.queue = c.queue
                BY <1>9, <4>3 DEF Closure
            <4>5. P2 = P
                BY <1>11, <4>1 DEF Records, Project
            <4> QED BY <3>2, <3>4, <4>1, <4>4, <4>5
        <3> QED BY <3>2, <3>3, <3>4
    <2> QED BY <2>1, <2>2
<1>19. Decided(f, v, P2, S2)
    BY <1>18 DEF Decided
<1>20. BatchTypeOK' /\ Pool(f) /\ IsFiniteSet(S2)
    BY <1>4, <1>13, <1>14, RecordInv DEF PoolInv, Good, Journal
<1> QED BY <1>1, <1>2, <1>3, <1>13, <1>14, <1>16, <1>17, <1>19, <1>20, InvNext DEF Starts

\* An execution begins with what the journal knows.
LEMMA BeginGood ==
    ASSUME NEW P \in [Items -> Slot], NEW T, NEW S, NEW D, NEW x, IsFiniteSet(S),
           History(P, T, S, D, x), \A r \in S : r.exec < x, NEW n \in Nat, n = Cardinality(S)
    PROVE  Good(Begin(P, n), P, S, D, x) /\ Starts(Begin(P, n)) /\ Begin(P, n).phase = "starting"
<1>1. PICK c : c = Begin(P, n)
    OBVIOUS
<1>2. Pool(c)
    BY <1>1, BeginKeeps
<1>3. PICK e : e = Event("BatchStarted", 0, newItemSlot, 0)
    OBVIOUS
<1>4. e.kind = "BatchStarted" /\ e.item = 0
    BY <1>3 DEF Event
<1>5. /\ c.phase = "starting" /\ c.slot = P /\ c.pc = [i \in Items |-> "idle"] /\ c.active = 0
      /\ c.closed = FALSE /\ c.abort = "no" /\ c.fatal = FALSE /\ c.executed = 0 /\ c.prior = n
      /\ c.queue = <<e>>
    BY <1>1, <1>3 DEF Begin
<1>6. \A i \in Items : c.pc[i] = "idle"
    BY <1>5
<1>7. ASSUME NEW i \in Items PROVE Course(c, P, i) /\ Attempts(c, S, D, x, i)
    <2>1. P[i].attempts \in Nat
        BY Bounds DEF Slot
    <2>2. Course(c, P, i)
        BY <1>5, <1>6, <2>1 DEF Course
    <2>3. Attempts(c, S, D, x, i)
        BY <1>6 DEF Attempts
    <2> QED BY <2>2, <2>3
<1>8. Pending(c)
    <2>1. DOMAIN <<e>> = {1} /\ <<e>>[1] = e
        OBVIOUS
    <2>2. Says(c, e)
        BY <1>4, <1>5 DEF Says
    <2>3. \A k, l \in {1} : ~(k < l)
        OBVIOUS
    <2> QED BY <1>5, <2>1, <2>2, <2>3 DEF Pending
<1>9. Counts(c)
    BY <1>5 DEF Counts
<1>10. Trusted(c, P)
    BY <1>5 DEF Trusted, History
<1>11. Charged(c, S)
    <2>1. {i \in Items : c.pc[i] = "start"} = {}
        BY <1>6
    <2>2. Cardinality({i \in Items : c.pc[i] = "start"}) = 0
        BY <2>1, FS_EmptySet
    <2> QED BY <1>5, <2>2 DEF Charged
<1>12. Starts(c)
    <2>1. Len(<<e>>) = 1 /\ <<e>>[1] = e
        OBVIOUS
    <2> QED BY <1>4, <1>5, <2>1 DEF Starts
<1> QED BY <1>1, <1>2, <1>5, <1>7, <1>8, <1>9, <1>10, <1>11, <1>12 DEF Good, Linked

\* The first execution.
LEMMA BatchBegins == BatchInit => BatchInv
<1> SUFFICES ASSUME BatchInit PROVE BatchInv
    OBVIOUS
<1>1. PoolInv
    BY PoolInit
<1>2. PICK P, T, S, D, x :
          P = projected /\ T = terminals /\ S = started /\ D = ended /\ x = exec
    OBVIOUS
<1>3. /\ T = {} /\ S = {} /\ D = {} /\ x = 1 /\ m = Begin(P, 0)
      /\ P = [i \in Items |-> newItemSlot] /\ P \in [Items -> Slot]
    BY <1>1, <1>2 DEF BatchInit, PoolInv, BatchTypeOK
<1>4. \A i \in Items : P[i].status = "queued"
    BY <1>3 DEF newItemSlot
<1>5. History(P, T, S, D, x)
    BY <1>3, <1>4 DEF History
<1>6. IsFiniteSet(S) /\ Cardinality(S) = 0
    BY <1>3, FS_EmptySet
<1>7. Good(m, P, S, D, x) /\ Starts(m) /\ m.phase = "starting"
    BY <1>3, <1>5, <1>6, BeginGood
<1> QED BY <1>1, <1>2, <1>5, <1>7 DEF BatchInv, Good, Decided

\* The process dies, and what is left is the journal.
LEMMA CrashSafe == BatchInv /\ Crash => BatchInv'
<1> SUFFICES ASSUME BatchInv, Crash PROVE BatchInv'
    OBVIOUS
<1>1. PoolInv'
    BY CrashInv DEF BatchInv
<1>2. PICK d, P, T, S, D, x, v :
          /\ d = m' /\ P = projected /\ T = terminals /\ S = started /\ D = ended /\ x = exec
          /\ v = verdict'
    OBVIOUS
<1>3. /\ projected' = P /\ terminals' = T /\ started' = S /\ ended' = D /\ exec' = x
      /\ policy' = policy
    BY <1>2 DEF Crash
<1>4. d.phase = "down"
    BY <1>2 DEF Crash, Begin
<1>5. BatchTypeOK' /\ IsFiniteSet(S) /\ Pool(d)
    BY <1>1, <1>2, <1>3 DEF PoolInv, Pool, Seated, Awaited
<1>6. History(P, T, S, D, x)
    BY <1>2 DEF BatchInv
<1> QED BY <1>2, <1>3, <1>4, <1>5, <1>6, InvNext

\* The batch is run again when all that was started has ended.
LEMMA ResumeSafe == BatchInv /\ Resume => BatchInv'
<1> SUFFICES ASSUME BatchInv, Resume PROVE BatchInv'
    OBVIOUS
<1>1. PoolInv /\ PoolInv'
    BY ResumeInv DEF BatchInv
<1>2. PICK P, T, S, D, x, v :
          /\ P = projected /\ T = terminals /\ S = started /\ D = ended /\ x = exec
          /\ v = verdict
    OBVIOUS
<1>3. /\ P \in [Items -> Slot] /\ x \in Nat
      /\ IsFiniteSet(S) /\ S \subseteq [item : Items, attempt : 1..MaxAttempts, exec : 1..(MaxCrashes + 1)]
      /\ History(P, T, S, D, x)
    BY <1>1, <1>2, Bounds DEF PoolInv, BatchTypeOK, BatchInv
<1>4. PICK n \in Nat : n = Cardinality(S)
    BY <1>3, FS_CardinalityType
<1>5. PICK d : d = Begin(P, n)
    OBVIOUS
<1>6. /\ m' = d /\ projected' = P /\ terminals' = {} /\ started' = S /\ ended' = D
      /\ exec' = x + 1 /\ policy' = policy /\ verdict' = v
    BY <1>2, <1>4, <1>5 DEF Resume, PriorUsage
<1>7. \A r \in S : r.exec \in Nat /\ r.exec <= x
    BY <1>3, Bounds DEF History
<1>8. ASSUME NEW r \in S, r.exec = x PROVE r \in D \/ P[r.item].status = "succeeded"
    <2>1. PICK t \in T : t.item = r.item /\ t.attempt = r.attempt /\ t.auth
        BY <1>2, <1>8 DEF Resume, SafeToResume
    <2> QED BY <1>3, <1>8, <2>1 DEF History
<1>9. History(P, {}, S, D, x + 1)
    <2>1. \A r \in S : r.exec <= x + 1 /\ (r.exec < x + 1 => r.exec < x \/ r.exec = x)
        BY <1>3, <1>7
    <2> QED BY <1>3, <1>8, <2>1 DEF History
<1>10. Good(d, P, S, D, x + 1) /\ Starts(d) /\ d.phase = "starting"
    <2>1. \A r \in S : r.exec < x + 1
        BY <1>3, <1>7
    <2> QED BY <1>3, <1>4, <1>5, <1>9, <2>1, BeginGood
<1>11. Decided(d, v, P, S)
    BY <1>10 DEF Decided
<1>12. BatchTypeOK' /\ Pool(d)
    BY <1>1, <1>10 DEF PoolInv, Good
<1> QED BY <1>3, <1>6, <1>9, <1>10, <1>11, <1>12, InvNext

\* Every step of the batch keeps the closure and the journal together.
LEMMA BatchStep == BatchInv /\ [BatchNext]_batchVars => BatchInv'
<1> SUFFICES ASSUME BatchInv, [BatchNext]_batchVars PROVE BatchInv'
    OBVIOUS
<1>1. CASE Record
    BY <1>1, RecordSafe
<1>2. CASE Refuse
    BY <1>2, RefuseSafe
<1>3. CASE RampFires
    BY <1>3, RampSafe
<1>4. CASE Cancel \/ Deadline
    BY <1>4, AbortSafe DEF Cancel, Deadline
<1>5. CASE Crash
    BY <1>5, CrashSafe
<1>6. CASE Resume
    BY <1>6, ResumeSafe
<1>7. CASE \E i \in Items : FinishItem(i) \/ Interrupt(i) \/ Wake(i)
    BY <1>7, FinishSafe, InterruptSafe, WakeSafe
<1>8. CASE UNCHANGED batchVars
    <2>1. PICK d, P, T, S, D, x, v :
              /\ d = m /\ P = projected /\ T = terminals /\ S = started /\ D = ended /\ x = exec
              /\ v = verdict
        OBVIOUS
    <2>2. /\ m' = d /\ projected' = P /\ terminals' = T /\ started' = S /\ ended' = D
          /\ exec' = x /\ policy' = policy /\ verdict' = v
        BY <1>8, <2>1 DEF batchVars
    <2>3. BatchTypeOK' /\ IsFiniteSet(S) /\ Pool(d) /\ History(P, T, S, D, x)
        <3>1. PoolInv /\ PoolInv' /\ History(P, T, S, D, x)
            BY <1>8, <2>1, PoolNext DEF BatchInv
        <3> QED BY <2>1, <3>1 DEF PoolInv
    <2>4. d.phase # "down" => Good(d, P, S, D, x) /\ Starts(d) /\ Decided(d, v, P, S)
        BY <2>1, <2>3 DEF BatchInv, Up, Good
    <2> QED BY <2>2, <2>3, <2>4, InvNext
<1> QED BY <1>1, <1>2, <1>3, <1>4, <1>5, <1>6, <1>7, <1>8 DEF BatchNext

\* The closure and the journal agree: what a slot says of an item, what its
\* pending events say and what the journal has of it.
THEOREM BatchSafe == BatchSpec => []BatchInv
<1>1. BatchInit => BatchInv
    BY BatchBegins
<1>2. BatchInv /\ [BatchNext]_batchVars => BatchInv'
    BY BatchStep
<1> QED BY <1>1, <1>2, PTL DEF BatchSpec

\* A verdict of runBatch is what the journal proves.
THEOREM VerdictProved == BatchSpec => []VerdictIsProved
<1>1. BatchInv => VerdictIsProved
    <2>1. ASSUME BatchInv, m.phase \in {"settling", "returned"}
          PROVE  Decided(m, verdict, projected, started)
        BY <2>1 DEF BatchInv, Up
    <2> QED BY <2>1 DEF Decided, VerdictIsProved
<1> QED BY <1>1, BatchSafe, PTL

\* Nothing is started again that has succeeded or is not known to have ended.
THEOREM NoReplay == BatchSpec => NoUnprovedReplay
<1>1. BatchInv /\ [BatchNext]_batchVars =>
          [\A s \in started' \ started, r \in started :
              r.item = s.item => r.attempt < s.attempt /\ r \in ended]_batchVars
    <2>1. SUFFICES ASSUME BatchInv, BatchNext, NEW s \in started' \ started, NEW r \in started,
                          r.item = s.item
                   PROVE  r.attempt < s.attempt /\ r \in ended
        BY Zenon
    <2>2. Record
        <3>1. ~UNCHANGED started
            BY <2>1
        <3> QED BY <2>1, <3>1 DEF BatchNext, Refuse, RampFires, Cancel, Deadline, Abort, Crash, Resume,
                                 FinishItem, Interrupt, Wake
    <2>3. PICK e : e = Head(m.queue)
        OBVIOUS
    <2>4. PICK c : c = [m EXCEPT !.queue = Tail(@)]
        OBVIOUS
    <2>5. Up /\ Pops(m, c, e)
        BY <2>2, <2>3, <2>4 DEF Record, Pops
    <2>6. e.kind = "Started" /\ s = [item |-> e.item, attempt |-> e.attempt, exec |-> exec]
        BY <2>1, <2>2, <2>3 DEF Record, Append_
    <2>7. /\ Good(m, projected, started, ended, exec) /\ Journal(projected, started, ended)
          /\ History(projected, terminals, started, ended, exec)
        BY <2>1, <2>5, UpIs
    <2>8. Good(c, projected, started, ended, exec) /\ Heads(c, e) /\ Due(c, e)
        BY <2>5, <2>7, PopGood
    <2>9. Linked(c, projected, started, ended, exec)
        BY <2>8 DEF Good
    <2>10. r.item = e.item => r.attempt < e.attempt /\ r \in ended
        BY <2>6, <2>7, <2>8, <2>9, StartIsNew
    <2> QED BY <2>1, <2>6, <2>10
<1> QED BY <1>1, BatchSafe, PTL DEF NoUnprovedReplay, BatchSpec
-----------------------------------------------------------------------------
(* BudgetLedger.                                                            *)

USE LimitsAssumption, VectorsAssumption, RetriesAssumption, ReservationsAssumption

-----------------------------------------------------------------------------
(* What a call appends, and what the journal can hold.                     *)

\* A call names a reservation and a vector of naturals.
LEMMA CallType ==
    ASSUME NEW q \in Calls
    PROVE  /\ q.op \in {"reserve", "settle"}
           /\ q.resv \in Reservations
           /\ q.amount \in Vectors
BY DEF Calls, Vectors, Zero

\* A caller without a call is given a settlement of nothing.
LEMMA NoCallType == NoCall \in Calls
BY DEF NoCall, Calls

\* The event of a call, by its operation.
LEMMA EventType ==
    ASSUME NEW q \in Calls
    PROVE  /\ EventOf(q).resv = q.resv
           /\ EventOf(q).amount = q.amount
           /\ q.op = "reserve" => EventOf(q).type = "BudgetReserved"
           /\ q.op = "settle" => EventOf(q).type \in Terminals
BY DEF Calls, EventOf, Terminals

\* A ledger entry names a reservation and an amount.
LEMMA EntryType ==
    ASSUME NEW e \in Entries
    PROVE  e.event.type \in {"BudgetReserved"} \union Terminals =>
               e.event.resv \in Reservations /\ e.event.amount \in Vectors
<1>1. CASE \E q \in Calls : e = [event |-> EventOf(q)]
    BY <1>1, EventType, CallType
<1>2. CASE e \in {[event |-> Foreign("other", "NodeQueued")], [event |-> Foreign("end", "RunCompleted")]}
    BY <1>2 DEF Foreign, Terminals
<1> QED BY <1>1, <1>2 DEF Entries

-----------------------------------------------------------------------------
(* What an append does to the rebuilt state.                               *)

\* The events of a reservation in a longer journal.
LEMMA GrowEvents ==
    ASSUME NEW l \in Seq(Entries), NEW e \in Entries, NEW r
    PROVE  /\ IF e.event.type = "BudgetReserved" /\ e.event.resv = r
              THEN ReserveEvents(Append(l, e), r) = ReserveEvents(l, r) \union {Len(l) + 1}
              ELSE ReserveEvents(Append(l, e), r) = ReserveEvents(l, r)
           /\ IF e.event.type \in Terminals /\ e.event.resv = r
              THEN SettleEvents(Append(l, e), r) = SettleEvents(l, r) \union {Len(l) + 1}
              ELSE SettleEvents(Append(l, e), r) = SettleEvents(l, r)
           /\ \A i \in 1..Len(l) : Append(l, e)[i] = l[i]
           /\ Append(l, e)[Len(l) + 1] = e
           /\ Len(l) + 1 \notin ReserveEvents(l, r) \union SettleEvents(l, r)
           /\ ReserveEvents(l, r) \union SettleEvents(l, r) \subseteq 1..Len(l)
BY DEF ReserveEvents, SettleEvents

\* An event that is not of reservation r leaves what is known of r.
LEMMA KeepsWorst ==
    ASSUME NEW l \in Seq(Entries), NEW e \in Entries, NEW r,
           ~(e.event.type = "BudgetReserved" /\ e.event.resv = r), ReserveEvents(l, r) # {}
    PROVE  WorstCase(Append(l, e), r) = WorstCase(l, r)
<1>1. ReserveEvents(Append(l, e), r) = ReserveEvents(l, r)
    BY GrowEvents
<1> DEFINE i == CHOOSE i \in ReserveEvents(l, r) : TRUE
<1>2. i \in ReserveEvents(l, r)
    OBVIOUS
<1>3. Append(l, e)[i] = l[i]
    BY <1>2, GrowEvents
<1> QED BY <1>1, <1>3 DEF WorstCase

LEMMA KeepsConsumed ==
    ASSUME NEW l \in Seq(Entries), NEW e \in Entries, NEW r,
           ~(e.event.type \in Terminals /\ e.event.resv = r), SettleEvents(l, r) # {}
    PROVE  Consumed(Append(l, e), r) = Consumed(l, r)
<1>1. SettleEvents(Append(l, e), r) = SettleEvents(l, r)
    BY GrowEvents
<1> DEFINE i == CHOOSE i \in SettleEvents(l, r) : TRUE
<1>2. i \in SettleEvents(l, r)
    OBVIOUS
<1>3. Append(l, e)[i] = l[i]
    BY <1>2, GrowEvents
<1> QED BY <1>1, <1>3 DEF Consumed

\* What a reservation claims is a vector of naturals.
LEMMA ClaimType ==
    ASSUME NEW l \in Seq(Entries), NEW r \in Reserved(l)
    PROVE  Claim(l, r) \in Vectors /\ WorstCase(l, r) \in Vectors
<1>1. \A i \in ReserveEvents(l, r) \union SettleEvents(l, r) :
          l[i] \in Entries /\ l[i].event.type \in {"BudgetReserved"} \union Terminals
    BY DEF ReserveEvents, SettleEvents
<1>2. \A i \in ReserveEvents(l, r) \union SettleEvents(l, r) : l[i].event.amount \in Vectors
    BY <1>1, EntryType
<1>3. WorstCase(l, r) \in Vectors
    BY <1>2 DEF WorstCase, Reserved
<1>4. r \in Settled(l) => Consumed(l, r) \in Vectors
    BY <1>2 DEF Consumed, Settled
<1> QED BY <1>3, <1>4 DEF Claim

\* The terms of the sum of commitments are naturals.
LEMMA ClaimsType ==
    ASSUME NEW l \in Seq(Entries), NEW x \in Resources
    PROVE  [r \in Reserved(l) |-> Claim(l, r)[x]] \in [Reserved(l) -> Nat]
BY ClaimType DEF Vectors

\* What is committed is a natural.
LEMMA CommittedType ==
    ASSUME NEW l \in Seq(Entries), IsFiniteSet(Reserved(l)), NEW x \in Resources
    PROVE  Committed(l, x) \in Nat
BY ClaimsType, SumType DEF Committed

\* An event that is not the ledger's changes no commitment.
LEMMA ForeignCommits ==
    ASSUME NEW l \in Seq(Entries), NEW e \in Entries,
           e.event.type \notin {"BudgetReserved"} \union Terminals
    PROVE  /\ Reserved(Append(l, e)) = Reserved(l)
           /\ Settled(Append(l, e)) = Settled(l)
           /\ \A r : ReserveEvents(Append(l, e), r) = ReserveEvents(l, r)
           /\ \A r : SettleEvents(Append(l, e), r) = SettleEvents(l, r)
           /\ \A x \in Resources : Committed(Append(l, e), x) = Committed(l, x)
<1>1. /\ \A r : ReserveEvents(Append(l, e), r) = ReserveEvents(l, r)
      /\ \A r : SettleEvents(Append(l, e), r) = SettleEvents(l, r)
    BY GrowEvents
<1>2. Reserved(Append(l, e)) = Reserved(l) /\ Settled(Append(l, e)) = Settled(l)
    BY <1>1 DEF Reserved, Settled
<1>3. \A r \in Reserved(l) : Claim(Append(l, e), r) = Claim(l, r)
    BY <1>2, KeepsWorst, KeepsConsumed DEF Claim, Reserved, Settled
<1> QED BY <1>1, <1>2, <1>3 DEF Committed

\* A new reservation adds its worst case.
LEMMA ReserveCommits ==
    ASSUME NEW l \in Seq(Entries), NEW e \in Entries, NEW r \in Reservations,
           e.event.type = "BudgetReserved", e.event.resv = r, IsFiniteSet(Reserved(l)),
           r \notin Reserved(l), r \notin Settled(l)
    PROVE  /\ Reserved(Append(l, e)) = Reserved(l) \union {r}
           /\ \A x \in Resources :
                  Committed(Append(l, e), x) = Committed(l, x) + e.event.amount[x]
<1> DEFINE n == Append(l, e)
<1>0. n \in Seq(Entries)
    OBVIOUS
<1>1. \A s \in Reservations :
          /\ s # r => ReserveEvents(n, s) = ReserveEvents(l, s)
          /\ SettleEvents(n, s) = SettleEvents(l, s)
    BY GrowEvents DEF Terminals
<1>2. ReserveEvents(n, r) = {Len(l) + 1}
    BY GrowEvents DEF Reserved
<1>3. Reserved(n) = Reserved(l) \union {r} /\ Settled(n) = Settled(l)
    BY <1>1, <1>2 DEF Reserved, Settled
<1>4. \A s \in Reserved(l) : Claim(n, s) = Claim(l, s)
    BY <1>3, KeepsWorst, KeepsConsumed DEF Claim, Reserved, Settled, Terminals
<1>5. Claim(n, r) = e.event.amount
    BY <1>2, <1>3, GrowEvents DEF Claim, WorstCase
<1>6. ASSUME NEW x \in Resources
      PROVE  Committed(n, x) = Committed(l, x) + e.event.amount[x]
    <2> DEFINE F == [s \in Reserved(l) |-> Claim(l, s)[x]]
               G == [s \in Reserved(l) \union {r} |-> Claim(n, s)[x]]
    <2>1. F \in [Reserved(l) -> Nat]
        BY ClaimsType
    <2>2. G \in [Reserved(l) \union {r} -> Nat]
        BY <1>0, <1>3, ClaimsType
    <2>3. \A s \in Reserved(l) : G[s] = F[s]
        BY <1>4
    <2>4. G[r] = e.event.amount[x]
        BY <1>5
    <2>5. Committed(n, x) = SumFunction(G) /\ Committed(l, x) = SumFunction(F)
        BY <1>3 DEF Committed
    <2>6. SumFunction(G) = SumFunction(F) + G[r]
        <3>1. /\ r \in DOMAIN G /\ DOMAIN F = DOMAIN G \ {r} /\ IsFiniteSet(DOMAIN F)
              /\ \A s \in DOMAIN G : G[s] \in Nat
              /\ \A s \in DOMAIN F : G[s] = F[s]
            BY <2>2, <2>3
        <3> HIDE DEF F, G, n
        <3> QED BY <3>1, SumAdd
    <2> QED BY <2>4, <2>5, <2>6
<1> QED BY <1>3, <1>6

\* A settlement within the worst case commits no more than before.
LEMMA SettleCommits ==
    ASSUME NEW l \in Seq(Entries), NEW e \in Entries, NEW r \in Reservations,
           e.event.type \in Terminals, e.event.resv = r, IsFiniteSet(Reserved(l)),
           r \in Reserved(l) \ Settled(l), Within(e.event.amount, WorstCase(l, r))
    PROVE  /\ Reserved(Append(l, e)) = Reserved(l)
           /\ \A x \in Resources : Committed(Append(l, e), x) <= Committed(l, x)
<1> DEFINE n == Append(l, e)
<1>0. n \in Seq(Entries)
    OBVIOUS
<1>1. \A s \in Reservations :
          /\ s # r => SettleEvents(n, s) = SettleEvents(l, s)
          /\ ReserveEvents(n, s) = ReserveEvents(l, s)
    BY GrowEvents DEF Terminals
<1>2. SettleEvents(n, r) = {Len(l) + 1}
    BY GrowEvents DEF Settled
<1>3. Reserved(n) = Reserved(l) /\ Settled(n) = Settled(l) \union {r}
    BY <1>1, <1>2 DEF Reserved, Settled
<1>4. \A s \in Reserved(l) : s # r => Claim(n, s) = Claim(l, s)
    BY <1>3, KeepsWorst, KeepsConsumed DEF Claim, Reserved, Settled, Terminals
<1>5. Claim(n, r) = e.event.amount /\ Claim(l, r) = WorstCase(l, r)
    BY <1>2, <1>3, GrowEvents DEF Claim, Consumed
<1>6. ASSUME NEW x \in Resources PROVE Committed(n, x) <= Committed(l, x)
    <2> DEFINE F == [s \in Reserved(l) |-> Claim(l, s)[x]]
               G == [s \in Reserved(l) |-> Claim(n, s)[x]]
    <2>1. F \in [Reserved(l) -> Nat]
        BY ClaimsType
    <2>2. G \in [Reserved(l) -> Nat]
        BY <1>0, <1>3, ClaimsType
    <2>3. ASSUME NEW s \in Reserved(l) PROVE G[s] <= F[s]
        <3>1. CASE s = r
            BY <1>5, <3>1 DEF Within
        <3>2. CASE s # r
            <4>1. G[s] = F[s] /\ F[s] \in Nat
                BY <1>4, <2>1, <3>2
            <4> HIDE DEF F, G
            <4> QED BY <4>1
        <3> QED BY <3>1, <3>2
    <2>4. Committed(n, x) = SumFunction(G) /\ Committed(l, x) = SumFunction(F)
        BY <1>3 DEF Committed
    <2>5. SumFunction(G) <= SumFunction(F)
        <3> HIDE DEF F, G
        <3> QED BY <2>1, <2>2, <2>3, SumMonotone
    <2> QED BY <2>4, <2>5
<1> QED BY <1>3, <1>6

-----------------------------------------------------------------------------
(* The inductive invariant.                                                *)

LEMMA LedgerInit == Init => LedgerInv
<1> SUFFICES ASSUME Init PROVE LedgerInv
    OBVIOUS
<1>1. TypeOK
    BY NoCallType DEF Init, TypeOK
<1>2. \A r : ReserveEvents(log, r) = {} /\ SettleEvents(log, r) = {}
    BY DEF Init, ReserveEvents, SettleEvents
<1>3. Reserved(log) = {}
    BY <1>2 DEF Reserved
<1>4. Balanced
    BY <1>2 DEF Balanced
<1>5. ASSUME NEW x \in Resources PROVE Committed(log, x) <= Limits[x]
    <2>1. Committed(log, x) = 0
        BY <1>3, SumEmpty DEF Committed
    <2> QED BY <2>1 DEF Vectors
<1> QED BY <1>1, <1>3, <1>4, <1>5, FS_EmptySet DEF LedgerInv, Judged, Init, NeverOverspent

\* A step that leaves the journal keeps what is said of the journal alone.
LEMMA SameLog ==
    ASSUME LedgerInv, UNCHANGED log
    PROVE  IsFiniteSet(Reserved(log))' /\ Balanced' /\ NeverOverspent'
BY DEF LedgerInv, Balanced, NeverOverspent

\* A caller that returns has no judgement left.
LEMMA FinishKeeps ==
    ASSUME LedgerInv, NEW c \in Callers, Finish(c), UNCHANGED log
    PROVE  TypeOK' /\ Judged'
<1>1. TypeOK'
    BY NoCallType DEF LedgerInv, TypeOK, Finish
<1>2. Judged'
    BY DEF LedgerInv, TypeOK, Judged, Finish, May
<1> QED BY <1>1, <1>2

\* An entry that the judgement of its caller allows keeps the journal sound.
LEMMA AppendKeeps ==
    ASSUME LedgerInv, NEW q \in Calls,
           IF q.op = "reserve" THEN MayReserve(log, q.resv, q.amount)
                               ELSE MaySettle(log, q.resv, q.amount),
           log' = Append(log, [event |-> EventOf(q)])
    PROVE  log' \in Seq(Entries) /\ IsFiniteSet(Reserved(log))' /\ Balanced' /\ NeverOverspent'
<1> DEFINE e == [event |-> EventOf(q)]
           r == q.resv
<1>1. log \in Seq(Entries) /\ e \in Entries /\ IsFiniteSet(Reserved(log))
    BY DEF LedgerInv, TypeOK, Entries
<1>2. log' \in Seq(Entries)
    BY <1>1
<1>3. r \in Reservations /\ e.event.resv = r /\ e.event.amount = q.amount /\ q.amount \in Vectors
    BY CallType, EventType
<1>4. CASE q.op = "reserve"
    <2>1. e.event.type = "BudgetReserved" /\ r \notin Reserved(log) /\ Fits(log, q.amount)
        BY <1>4, EventType DEF MayReserve
    <2>2. r \notin Settled(log)
        BY <2>1 DEF LedgerInv, Balanced, Reserved, Settled
    <2>3. /\ Reserved(log') = Reserved(log) \union {r}
          /\ \A x \in Resources : Committed(log', x) = Committed(log, x) + q.amount[x]
        BY <1>1, <1>3, <2>1, <2>2, ReserveCommits
    <2>4. IsFiniteSet(Reserved(log'))
        <3>1. IsFiniteSet(Reserved(log) \union {r})
            BY <1>1, FS_AddElement
        <3> QED BY <2>3, <3>1
    <2>5. NeverOverspent'
        BY <2>1, <2>3 DEF NeverOverspent, Fits
    <2>6. /\ \A s \in Reservations : s # r => ReserveEvents(log', s) = ReserveEvents(log, s)
          /\ \A s \in Reservations : SettleEvents(log', s) = SettleEvents(log, s)
          /\ ReserveEvents(log', r) = {Len(log) + 1} /\ SettleEvents(log, r) = {}
        BY <1>1, <1>3, <2>1, <2>2, GrowEvents DEF Reserved, Settled, Terminals
    <2>7. \A s \in Reservations : \A i \in ReserveEvents(log, s) \union SettleEvents(log, s) :
              log'[i] = log[i]
        BY <1>1, GrowEvents
    <2>8. Balanced'
        <3> SUFFICES ASSUME NEW s \in Reservations
                     PROVE  /\ \A k, j \in ReserveEvents(log', s) : k = j
                            /\ \A k, j \in SettleEvents(log', s) : k = j
                            /\ \A j \in SettleEvents(log', s) : \E k \in ReserveEvents(log', s) :
                                   k < j /\ Within(log'[j].event.amount, log'[k].event.amount)
            BY DEF Balanced
        <3>0. /\ \A k, j \in ReserveEvents(log, s) : k = j
              /\ \A k, j \in SettleEvents(log, s) : k = j
              /\ \A j \in SettleEvents(log, s) : \E k \in ReserveEvents(log, s) :
                     k < j /\ Within(log[j].event.amount, log[k].event.amount)
            BY DEF LedgerInv, Balanced
        <3> HIDE DEF e, r
        <3>1. CASE s = r
            BY <2>6, <3>1
        <3>2. CASE s # r
            BY <2>6, <2>7, <3>0, <3>2, ZenonT(60)
        <3> QED BY <3>1, <3>2
    <2> QED BY <1>2, <2>4, <2>5, <2>8
<1>5. CASE q.op = "settle"
    <2>1. /\ e.event.type \in Terminals /\ r \in Reserved(log) \ Settled(log)
          /\ Within(q.amount, WorstCase(log, r))
        BY <1>5, EventType DEF MaySettle
    <2>2. /\ Reserved(log') = Reserved(log)
          /\ \A x \in Resources : Committed(log', x) <= Committed(log, x)
        BY <1>1, <1>3, <2>1, SettleCommits
    <2>3. \A x \in Resources : Committed(log', x) \in Nat /\ Committed(log, x) \in Nat
        BY <1>1, <1>2, <2>2, CommittedType
    <2>4. NeverOverspent'
        BY <2>2, <2>3 DEF NeverOverspent, LedgerInv, Vectors
    <2>5. /\ \A s \in Reservations : s # r => SettleEvents(log', s) = SettleEvents(log, s)
          /\ \A s \in Reservations : ReserveEvents(log', s) = ReserveEvents(log, s)
          /\ SettleEvents(log', r) = {Len(log) + 1}
        BY <1>1, <1>3, <2>1, GrowEvents DEF Settled, Terminals
    <2>6. /\ \A s \in Reservations : \A i \in ReserveEvents(log, s) \union SettleEvents(log, s) :
                 log'[i] = log[i] /\ i < Len(log) + 1
          /\ log'[Len(log) + 1] = e
        BY <1>1, GrowEvents
    <2>7. PICK i \in ReserveEvents(log, r) : WorstCase(log, r) = log[i].event.amount
        BY <2>1 DEF Reserved, WorstCase
    <2>8. i < Len(log) + 1 /\ Within(log'[Len(log) + 1].event.amount, log'[i].event.amount)
        BY <1>3, <2>1, <2>6, <2>7
    <2>9. Balanced'
        <3> SUFFICES ASSUME NEW s \in Reservations
                     PROVE  /\ \A k, j \in ReserveEvents(log', s) : k = j
                            /\ \A k, j \in SettleEvents(log', s) : k = j
                            /\ \A j \in SettleEvents(log', s) : \E k \in ReserveEvents(log', s) :
                                   k < j /\ Within(log'[j].event.amount, log'[k].event.amount)
            BY DEF Balanced
        <3>0. /\ \A k, j \in ReserveEvents(log, s) : k = j
              /\ \A k, j \in SettleEvents(log, s) : k = j
              /\ \A j \in SettleEvents(log, s) : \E k \in ReserveEvents(log, s) :
                     k < j /\ Within(log[j].event.amount, log[k].event.amount)
            BY DEF LedgerInv, Balanced
        <3> HIDE DEF e, r
        <3>1. CASE s = r
            BY <2>5, <2>7, <2>8, <3>0, <3>1, ZenonT(60)
        <3>2. CASE s # r
            BY <2>5, <2>6, <3>0, <3>2, ZenonT(60)
        <3> QED BY <3>1, <3>2
    <2> QED BY <1>1, <1>2, <2>2, <2>4, <2>9
<1> QED BY <1>4, <1>5, CallType

\* Whoever judged a shorter journal is no longer at its head.
LEMMA LongerLog ==
    ASSUME LedgerInv, NEW e, log' = Append(log, e),
           \A d \in Callers : pc'[d] = "append" => pc[d] = "append" /\ base'[d] = base[d]
    PROVE  Judged'
<1>1. Len(log) \in Nat /\ Len(log') = Len(log) + 1 /\ \A d \in Callers : base[d] \in Nat
    BY DEF LedgerInv, TypeOK
<1>2. ASSUME NEW d \in Callers, pc'[d] = "append"
      PROVE  base'[d] <= Len(log') /\ base'[d] # Len(log')
    BY <1>1, <1>2 DEF LedgerInv, Judged
<1> QED BY <1>2 DEF Judged

LEMMA LedgerStep == LedgerInv /\ [Next]_vars => LedgerInv'
<1> SUFFICES ASSUME LedgerInv, [Next]_vars PROVE LedgerInv'
    OBVIOUS
<1>1. ASSUME NEW c \in Callers, Reserve(c) \/ Settle(c) PROVE LedgerInv'
    <2>1. PICK q \in Calls : /\ call' = [call EXCEPT ![c] = q]
                             /\ pc' = [pc EXCEPT ![c] = "read"]
                             /\ UNCHANGED <<log, base, retries>>
        BY <1>1 DEF Reserve, Settle, Call, Calls
    <2>2. TypeOK'
        BY <2>1 DEF LedgerInv, TypeOK
    <2>3. Judged'
        BY <2>1 DEF LedgerInv, TypeOK, Judged, May
    <2> QED BY <2>1, <2>2, <2>3, SameLog DEF LedgerInv
<1>2. ASSUME NEW c \in Callers, Read(c) PROVE LedgerInv'
    <2>1. TypeOK'
        BY <1>2 DEF Read, LedgerInv, TypeOK
    <2>2. Judged'
        BY <1>2 DEF Read, LedgerInv, TypeOK, Judged, May
    <2> QED BY <1>2, <2>1, <2>2, SameLog DEF LedgerInv, Read
<1>3. ASSUME NEW c \in Callers, Answer(c) PROVE LedgerInv'
    BY <1>3, FinishKeeps, SameLog DEF Answer, LedgerInv
<1>4. ASSUME NEW c \in Callers, AnswerOld(c) PROVE LedgerInv'
    BY <1>4, FinishKeeps, SameLog DEF AnswerOld, LedgerInv
<1>5. ASSUME NEW c \in Callers, AppendEvent(c) PROVE LedgerInv'
    <2>1. call[c] \in Calls /\ log' = Append(log, [event |-> EventOf(call[c])])
        BY <1>5 DEF AppendEvent, LedgerInv, TypeOK
    <2>2. May(c)
        BY <1>5 DEF AppendEvent, AtHead, LedgerInv, Judged
    <2>3. /\ log' \in Seq(Entries)
          /\ IsFiniteSet(Reserved(log))' /\ Balanced' /\ NeverOverspent'
        BY <2>1, <2>2, AppendKeeps DEF May
    <2>4. TypeOK'
        BY <1>5, <2>3, NoCallType DEF AppendEvent, Finish, LedgerInv, TypeOK
    <2>5. Judged'
        BY <1>5, <2>1, LongerLog DEF AppendEvent, Finish, LedgerInv, TypeOK
    <2> QED BY <2>3, <2>4, <2>5 DEF LedgerInv
<1>6. ASSUME NEW c \in Callers, Retry(c) PROVE LedgerInv'
    <2>1. CASE Finish(c)
        BY <1>6, <2>1, FinishKeeps, SameLog DEF Retry, LedgerInv
    <2>2. CASE retries[c] + 1 < MaxCasRetries
        <3>0. retries[c] + 1 \in 0..(MaxCasRetries - 1)
            BY <2>2 DEF LedgerInv, TypeOK
        <3>1. TypeOK'
            BY <1>6, <2>2, <3>0 DEF Retry, LedgerInv, TypeOK
        <3>2. Judged'
            BY <1>6, <2>2 DEF Retry, LedgerInv, TypeOK, Judged, May
        <3> QED BY <1>6, <3>1, <3>2, SameLog DEF LedgerInv, Retry
    <2> QED BY <1>6, <2>1, <2>2 DEF Retry
<1>7. CASE OtherEvent
    <2>1. PICK e \in Entries : /\ e.event.type \notin {"BudgetReserved"} \union Terminals
                               /\ log' = Append(log, e)
                               /\ UNCHANGED <<pc, call, base, retries>>
        BY <1>7 DEF OtherEvent, Foreign, Entries, Terminals
    <2>2. log \in Seq(Entries) /\ IsFiniteSet(Reserved(log))
        BY DEF LedgerInv, TypeOK
    <2>3. TypeOK'
        BY <2>1 DEF LedgerInv, TypeOK
    <2>4. Judged'
        BY <2>1, LongerLog
    <2>5. /\ Reserved(log') = Reserved(log)
          /\ \A r : ReserveEvents(log', r) = ReserveEvents(log, r)
          /\ \A r : SettleEvents(log', r) = SettleEvents(log, r)
          /\ \A x \in Resources : Committed(log', x) = Committed(log, x)
        BY <2>1, <2>2, ForeignCommits
    <2>6. NeverOverspent'
        BY <2>5 DEF LedgerInv, NeverOverspent
    <2>7. \A r \in Reservations : \A i \in ReserveEvents(log, r) \union SettleEvents(log, r) :
              log'[i] = log[i]
        BY <2>1, <2>2, GrowEvents
    <2>8. Balanced'
        BY <2>5, <2>7 DEF LedgerInv, Balanced
    <2> QED BY <2>2, <2>3, <2>4, <2>5, <2>6, <2>8 DEF LedgerInv
<1>8. CASE UNCHANGED vars
    BY <1>8, SameLog DEF vars, LedgerInv, TypeOK, Judged, May
<1> QED BY <1>1, <1>2, <1>3, <1>4, <1>5, <1>6, <1>7, <1>8 DEF Next, Step

-----------------------------------------------------------------------------
\* The state of the ledger's calls and the run's journal keep their types; a
\* call never makes more than maxCasRetries attempts.
THEOREM LedgerTyping == Spec => []TypeOK
BY LedgerInit, LedgerStep, PTL DEF Spec, LedgerInv

\* However calls interleave, retry and fail, what is reserved or consumed of a
\* resource never exceeds the run's hard limit (assertCapacity is enough
\* although it judges a journal that others may append to).
THEOREM BudgetHolds == Spec => []NeverOverspent
BY LedgerInit, LedgerStep, PTL DEF Spec, LedgerInv

\* rebuildBudgetStateFromEvents accepts every journal the ledger writes: one
\* reservation per id, one settlement per reservation, after it and within it.
THEOREM LedgerBalances == Spec => []Balanced
BY LedgerInit, LedgerStep, PTL DEF Spec, LedgerInv
=============================================================================
