---------------------------- MODULE BudgetLedger ----------------------------
(***************************************************************************)
(* The reservation ledger of packages/subagents/policy/budget-ledger.mjs.  *)
(* It keeps nothing of its own: every call rebuilds reservations and       *)
(* charges from the run's journal, decides, and appends by compare-and-    *)
(* swap on the head it has read.  The journal is the log that EventJournal *)
(* is proved to implement, so a read and an append are one step each.      *)
(*                                                                         *)
(* Amounts are integers: the tolerance of closeNumber is the rounding of   *)
(* floating-point cost and is exact for whole amounts.                     *)
(***************************************************************************)
EXTENDS EventRules, FiniteSets, FiniteSetsExt

CONSTANTS
    Callers,        \* calls of the ledger that can be in flight at once
    Reservations,   \* reservation ids
    Requests,       \* worst-case vectors that callers ask for
    Usages,         \* vectors that callers settle with
    Limits,         \* the hard limits of the run: a function on resources
    MaxCasRetries   \* options.maxCasRetries

Resources == DOMAIN Limits
Vectors   == [Resources -> Nat]

ASSUME LimitsAssumption   == Limits \in Vectors
ASSUME VectorsAssumption  == Requests \subseteq Vectors /\ Usages \subseteq Vectors
ASSUME RetriesAssumption  == MaxCasRetries \in Nat \ {0}
ASSUME ReservationsAssumption == Reservations # {}

VARIABLES
    log,        \* the run's journal
    pc,         \* where a caller is: idle, read (before durableState), append
    call,       \* what it asked for
    base,       \* the head it has read
    retries     \* appends it has tried

vars == <<log, pc, call, base, retries>>

Zero == [x \in Resources |-> 0]

\* An event of the run that is not the ledger's.
Foreign(id, type) ==
    [eventId |-> <<id, "run">>, digest |-> Zero, type |-> type, node |-> None,
     attempt |-> None]

\* refund is a settlement that consumed nothing.
Calls == [op : {"reserve"}, resv : Reservations, amount : Requests]
         \union [op : {"settle"}, resv : Reservations, amount : Usages \union {Zero}]
NoCall == [op |-> "settle", resv |-> CHOOSE r \in Reservations : TRUE, amount |-> Zero]

EventOf(q) ==
    [eventId |-> <<IF q.op = "reserve" THEN "reserved" ELSE "settled", q.resv>>,
     digest |-> q.amount,
     type |-> IF q.op = "reserve" THEN "BudgetReserved"
              ELSE IF q.amount = Zero THEN "BudgetRefunded" ELSE "BudgetConsumed",
     node |-> None, attempt |-> None, resv |-> q.resv, amount |-> q.amount]

\* What the journal of the run can hold.
Entries ==
    {[event |-> EventOf(q)] : q \in Calls}
    \union {[event |-> Foreign("other", "NodeQueued")], [event |-> Foreign("end", "RunCompleted")]}

TypeOK ==
    /\ log \in Seq(Entries)
    /\ pc \in [Callers -> {"idle", "read", "append"}]
    /\ call \in [Callers -> Calls]
    /\ base \in [Callers -> Nat]
    /\ retries \in [Callers -> 0..(MaxCasRetries - 1)]

Init ==
    /\ log = <<>>
    /\ pc = [c \in Callers |-> "idle"]
    /\ call = [c \in Callers |-> NoCall]
    /\ base = [c \in Callers |-> 0]
    /\ retries = [c \in Callers |-> 0]

-----------------------------------------------------------------------------
(* rebuildBudgetStateFromEvents.                                           *)

Terminals == {"BudgetConsumed", "BudgetRefunded"}

ReserveEvents(l, r) ==
    {i \in 1..Len(l) : l[i].event.type = "BudgetReserved" /\ l[i].event.resv = r}
SettleEvents(l, r) ==
    {i \in 1..Len(l) : l[i].event.type \in Terminals /\ l[i].event.resv = r}

Reserved(l) == {r \in Reservations : ReserveEvents(l, r) # {}}
Settled(l)  == {r \in Reservations : SettleEvents(l, r) # {}}

WorstCase(l, r) == l[CHOOSE i \in ReserveEvents(l, r) : TRUE].event.amount
Consumed(l, r)  == l[CHOOSE i \in SettleEvents(l, r) : TRUE].event.amount

\* What is spent or promised of a resource.
Claim(l, r) == IF r \in Settled(l) THEN Consumed(l, r) ELSE WorstCase(l, r)
Committed(l, x) == SumFunction([r \in Reserved(l) |-> Claim(l, r)[x]])

\* assertCapacity.
Fits(l, v) == \A x \in Resources : Committed(l, x) + v[x] <= Limits[x]

Within(u, v) == \A x \in Resources : u[x] <= v[x]

-----------------------------------------------------------------------------
Call(c, o, r, v) ==
    /\ pc[c] = "idle"
    /\ call' = [call EXCEPT ![c] = [op |-> o, resv |-> r, amount |-> v]]
    /\ pc' = [pc EXCEPT ![c] = "read"]
    /\ UNCHANGED <<log, base, retries>>

Reserve(c) ==
    \E r \in Reservations, v \in Requests : v # Zero /\ Call(c, "reserve", r, v)
Settle(c) ==
    \E r \in Reservations, v \in Usages \union {Zero} : Call(c, "settle", r, v)

\* The call returns or throws, and its local state goes with it.
Finish(c) ==
    /\ pc' = [pc EXCEPT ![c] = "idle"]
    /\ call' = [call EXCEPT ![c] = NoCall]
    /\ base' = [base EXCEPT ![c] = 0]
    /\ retries' = [retries EXCEPT ![c] = 0]

(***************************************************************************)
(* What a call finds in the journal it has read: a reason to append, or an *)
(* answer (the reservation exists, conflicts, does not fit, is settled).   *)
(***************************************************************************)
MayReserve(l, r, v) == r \notin Reserved(l) /\ Fits(l, v)

\* Mutant: a settlement is not compared with its reservation.
MaySettleAnything(l, r, v) == r \notin Settled(l)

MaySettle(l, r, v) ==
    r \in Reserved(l) \ Settled(l) /\ Within(v, WorstCase(l, r))

May(c) ==
    IF call[c].op = "reserve"
    THEN MayReserve(log, call[c].resv, call[c].amount)
    ELSE MaySettle(log, call[c].resv, call[c].amount)

Read(c) ==
    /\ pc[c] = "read" /\ May(c)
    /\ base' = [base EXCEPT ![c] = Len(log)]
    /\ pc' = [pc EXCEPT ![c] = "append"]
    /\ UNCHANGED <<log, call, retries>>

Answer(c) ==
    /\ pc[c] = "read" /\ ~May(c)
    /\ Finish(c)
    /\ UNCHANGED log

(***************************************************************************)
(* appendEvent as the ledger uses it: a known id or a finished run answers *)
(* first (ALREADY_RESERVED, ALREADY_SETTLED, EVENT_ID_CONFLICT or          *)
(* BUDGET_EVENT_LATE), then the head that was read is compared.            *)
(***************************************************************************)
AnswerOld(c) ==
    /\ pc[c] = "append" /\ ~NewEvent(log, EventOf(call[c]))
    /\ Finish(c)
    /\ UNCHANGED log

\* Mutant: the append does not compare the head.
AlwaysAtHead(c) == TRUE

AtHead(c) == base[c] = Len(log)

AppendEvent(c) ==
    /\ pc[c] = "append" /\ NewEvent(log, EventOf(call[c])) /\ AtHead(c)
    /\ log' = Append(log, [event |-> EventOf(call[c])])
    /\ Finish(c)

\* Mutant: one attempt too many.
RetryOnceMore(c) ==
    /\ pc[c] = "append" /\ NewEvent(log, EventOf(call[c])) /\ ~AtHead(c)
    /\ IF retries[c] < MaxCasRetries
       THEN /\ pc' = [pc EXCEPT ![c] = "read"]
            /\ retries' = [retries EXCEPT ![c] = @ + 1]
            /\ UNCHANGED <<call, base>>
       ELSE Finish(c)
    /\ UNCHANGED log

\* JOURNAL_CAS_MISMATCH: read again, a bounded number of times.
Retry(c) ==
    /\ pc[c] = "append" /\ NewEvent(log, EventOf(call[c])) /\ ~AtHead(c)
    /\ IF retries[c] + 1 < MaxCasRetries
       THEN /\ pc' = [pc EXCEPT ![c] = "read"]
            /\ retries' = [retries EXCEPT ![c] = @ + 1]
            /\ UNCHANGED <<call, base>>
       ELSE Finish(c)
    /\ UNCHANGED log

\* The rest of the run appends too, and ends it.
OtherEvent ==
    /\ \E e \in {Foreign("other", "NodeQueued"), Foreign("end", "RunCompleted")} :
          NewEvent(log, e) /\ log' = Append(log, [event |-> e])
    /\ UNCHANGED <<pc, call, base, retries>>

Step(c) == Read(c) \/ Answer(c) \/ AnswerOld(c) \/ AppendEvent(c) \/ Retry(c)

Next ==
    \/ \E c \in Callers : Reserve(c) \/ Settle(c) \/ Step(c)
    \/ OtherEvent

Spec == Init /\ [][Next]_vars
-----------------------------------------------------------------------------
\* Reserved and consumed capacity together never exceed a hard limit, however
\* reservations and settlements interleave (BUDGET_JOURNAL_OVERSPENT is never
\* met).
NeverOverspent == \A x \in Resources : Committed(log, x) <= Limits[x]

\* rebuildBudgetStateFromEvents accepts the journal: a reservation is recorded
\* once, settled at most once, after it was made and within its worst case.
Balanced ==
    \A r \in Reservations :
        /\ \A i, j \in ReserveEvents(log, r) : i = j
        /\ \A i, j \in SettleEvents(log, r) : i = j
        /\ \A j \in SettleEvents(log, r) : \E i \in ReserveEvents(log, r) :
               i < j /\ Within(log[j].event.amount, log[i].event.amount)

-----------------------------------------------------------------------------
(***************************************************************************)
(* The inductive invariant: a call that is about to append has judged a    *)
(* prefix of the journal, and its judgement holds as long as that prefix   *)
(* is the journal.                                                         *)
(***************************************************************************)
Judged ==
    \A c \in Callers : pc[c] = "append" =>
        base[c] <= Len(log) /\ (base[c] = Len(log) => May(c))

LedgerInv == TypeOK /\ Judged /\ IsFiniteSet(Reserved(log)) /\ Balanced /\ NeverOverspent
=============================================================================
