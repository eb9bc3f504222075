------------------------------ MODULE SwarmGoal ------------------------------
(***************************************************************************)
(* The controller of a dynamic goal: planning of revisions, the authority  *)
(* over them, the parent's budget, execution of a revision as a child run, *)
(* and the decision that ends the goal, with several processes that resume *)
(* the same run.                                                           *)
(*                                                                         *)
(* The journal is the run's event journal as the controller sees it (its   *)
(* own events and those of the budget ledger); the event id is the kind    *)
(* and the revision.  A proposal is its decision, its coverage, whether it *)
(* reuses exactly the settled nodes and whether it needs more authority    *)
(* than was granted.  A child run answers every later call with the result *)
(* it has settled with.                                                    *)
(***************************************************************************)
EXTENDS Naturals, Sequences, FiniteSetsExt

CONSTANTS
    Procs,         \* processes that run the goal
    NoProc,        \* nobody holds the writer lease
    MaxRevisions,  \* authority.maxPlanRevisions
    Window,        \* convergence.noProgressWindow
    Target,        \* convergence.coverageTarget
    AllowReuse,    \* allowVerifiedReuseCompletion
    Coverages,     \* coverages that a planner may claim
    Expanding,     \* whether a proposal may need more authority than granted
    Usages,        \* usages that an executor may report
    Worst,         \* the reservation of a revision
    Capacity,      \* the parent's budget envelope
    MaxFaults      \* bound: crashes and leases lost by a live process

ASSUME GoalAssumption ==
    /\ NoProc \notin Procs /\ AllowReuse \in BOOLEAN
    /\ MaxRevisions \in Nat \ {0} /\ Window \in 1..MaxRevisions
    /\ Target \in Nat \ {0} /\ Coverages \subseteq Nat /\ Expanding \subseteq BOOLEAN
    /\ Worst \in Nat \ {0} /\ Usages \subseteq 0..Worst /\ Capacity \in Nat /\ MaxFaults \in Nat

VARIABLES
    journal,  \* the durable events, in order
    child,    \* the result a child run has settled with
    lease,    \* who holds the writer lease of the run
    pc, mem,  \* the next step of a process, and its memory
    faults    \* the faults so far

vars == <<journal, child, lease, pc, mem, faults>>

Revisions == 0..(MaxRevisions - 1)

\* Reuse is told apart only where it can take the place of an execution.
Proposals ==
    {x \in [decision : {"replan", "complete", "blocked"}, coverage : Coverages,
            reuse : BOOLEAN, expands : Expanding] : x.reuse => x.decision = "complete"}

\* Nothing of a revision whose verifier did not pass is used again.
Results ==
    {x \in [verdict : {"pass", "fail"}, reusable : BOOLEAN, usage : Usages] :
        x.reusable => x.verdict = "pass"}
NoResult == [verdict |-> "none", reusable |-> FALSE, usage |-> 0]

Failures == {"failed", "verification-failed", "no-progress", "limit"}
Terminals == Failures \union {"blocked", "completed"}

\* revision, noProgress, priorCoverage, the status the revision was found in,
\* the grant widened by an approval, and the execution's result.
Fresh == [rev |-> 0, noProgress |-> 0, prior |-> 0, status |-> "proposed",
          widened |-> FALSE, result |-> NoResult]

Init ==
    /\ journal = <<>>
    /\ child = [r \in Revisions |-> NoResult]
    /\ lease = NoProc
    /\ pc = [p \in Procs |-> "idle"] /\ mem = [p \in Procs |-> Fresh]
    /\ faults = 0

-----------------------------------------------------------------------------
(* goalProjection.                                                         *)

Places(K, r) == {i \in DOMAIN journal : journal[i].kind \in K /\ journal[i].rev = r}
Has(k, r) == Places({k}, r) # {}
DataOf(K, r) == journal[Max(Places(K, r))].data
Ended == \E i \in DOMAIN journal : journal[i].kind \in Terminals
Proposed == {r \in Revisions : Has("proposed", r)}
Proposal(r) == DataOf({"proposed"}, r)

StatusOf == [proposed |-> "proposed", started |-> "running", awaitingAuthority |-> "awaiting-approval",
             awaitingApproval |-> "awaiting-approval", settled |-> "settled", reused |-> "settled"]

\* Mutant: a revision that has started is running, settled or not.
StatusStarted(r) ==
    IF Has("started", r) THEN "running" ELSE StatusOf[journal[Max(Places(DOMAIN StatusOf, r))].kind]

\* The status of a proposed revision: that of its last event.
Status(r) == StatusOf[journal[Max(Places(DOMAIN StatusOf, r))].kind]
Settled == {r \in Proposed : Status(r) = "settled"}
Execution(r) == DataOf({"settled", "reused"}, r)
WasSettled(r) == Places({"settled", "reused"}, r) # {}

\* rebuiltSettledNodes: some settled revision has left nodes to reuse.
SettledNodes == \E r \in Proposed : WasSettled(r) /\ Execution(r).reusable

\* The coverage before revision r, and how many revisions in a row, up to and
\* with the last one of S, did not raise it.
PriorCoverage(S) == Max({Proposal(r).coverage : r \in S} \union {0})
Raises(r, S) == Proposal(r).coverage > PriorCoverage({q \in S : q < r})
NoProgress(S) == Cardinality({r \in S : \A q \in S : q >= r => ~Raises(q, S)})

-----------------------------------------------------------------------------
At(p, l) == pc[p] = l
Goes(p, l, m) == /\ pc' = [pc EXCEPT ![p] = l] /\ mem' = [mem EXCEPT ![p] = m]
                 /\ UNCHANGED lease

\* The finally clause of run: the lease is given back.
Quit(p) ==
    /\ pc' = [pc EXCEPT ![p] = "idle"] /\ mem' = [mem EXCEPT ![p] = Fresh]
    /\ lease' = IF lease = p THEN NoProc ELSE lease

Event(kind, r, data) == [kind |-> kind, rev |-> r, data |-> data]

\* What an append under p's lease does: the event is there already, is accepted,
\* or is refused (another event has its id, the run has ended, the lease is lost).
Duplicate(p, e) == lease = p /\ \E i \in Places({e.kind}, e.rev) : journal[i] = e
Accepted(p, e) == lease = p /\ ~Ended /\ ~Has(e.kind, e.rev)
Written(p, e) == IF Accepted(p, e) THEN Append(journal, e) ELSE journal

\* Append and go on, or throw.
Put(p, e, l, m) ==
    /\ journal' = Written(p, e)
    /\ IF Duplicate(p, e) \/ Accepted(p, e) THEN Goes(p, l, m) ELSE Quit(p)

\* Append and return.
PutLast(p, e) == journal' = Written(p, e) /\ Quit(p)

-----------------------------------------------------------------------------
(* run.                                                                    *)

\* Mutant: what earlier revisions achieved is not counted after a restart.
RecalledNothing == [Fresh EXCEPT !.rev = IF Proposed = {} THEN 0 ELSE Max(Proposed)]

\* The memory of a run that starts, rebuilt from the journal.
Recalled ==
    [Fresh EXCEPT !.rev = IF Proposed = {} THEN 0 ELSE Max(Proposed),
                  !.noProgress = NoProgress(Settled),
                  !.prior = PriorCoverage(Settled)]

\* acquireWriter, the read of the journal and the admission of a new goal.
Start(p) ==
    /\ At(p, "idle") /\ lease = NoProc
    /\ IF Ended
       THEN UNCHANGED <<journal, lease, pc, mem>>
       ELSE /\ lease' = p
            /\ journal' = IF journal = <<>> THEN <<Event("admitted", 0, 0)>> ELSE journal
            /\ pc' = [pc EXCEPT ![p] = "loop"]
            /\ mem' = [mem EXCEPT ![p] = Recalled]
    /\ UNCHANGED <<child, faults>>

\* resolveProposal: what a planner's answer must satisfy.
Resolvable(r, x) ==
    /\ x.decision = "complete" => x.coverage >= Target
    /\ x.reuse => r > 0 /\ SettledNodes

\* assess: the revision needs more than the grant.
NeedsApproval(m, x) == x.expands /\ ~m.widened
AfterPlan(m, x) == IF NeedsApproval(m, x) THEN "authority" ELSE "decide"

\* Mutant: one revision more than the grant allows.
AtLimitLate(r) == r > MaxRevisions

AtLimit(r) == r >= MaxRevisions

\* The head of the loop over revisions: the limit, a revision that is in the
\* journal, or a new proposal; a planner that throws ends the run.
Loop(p) ==
    /\ At(p, "loop")
    /\ \E r \in {mem[p].rev} :
         \/ AtLimit(r) /\ PutLast(p, Event("limit", Max(Proposed), 0))
         \/ /\ ~AtLimit(r) /\ r \in Proposed
            /\ \E m \in {[mem[p] EXCEPT !.status = Status(r)]} : Goes(p, AfterPlan(m, Proposal(r)), m)
            /\ UNCHANGED journal
         \/ /\ ~AtLimit(r) /\ r \notin Proposed
            /\ \E x \in Proposals : /\ Resolvable(r, x)
                                    /\ Put(p, Event("proposed", r, x), AfterPlan(mem[p], x),
                                           [mem[p] EXCEPT !.status = "proposed"])
         \/ ~AtLimit(r) /\ r \notin Proposed /\ Quit(p) /\ UNCHANGED journal
    /\ UNCHANGED <<child, faults>>

\* approveRevisionExpansion: an approval widens the grant, in memory; without
\* one the run waits for authority.
Authority(p) ==
    /\ At(p, "authority")
    /\ \/ Goes(p, "decide", [mem[p] EXCEPT !.widened = TRUE]) /\ UNCHANGED journal
       \/ PutLast(p, Event("awaitingAuthority", mem[p].rev, 0))
    /\ UNCHANGED <<child, faults>>

\* The revisions whose fresh verifier has passed.
Verified == {r \in Settled : Execution(r).verdict = "pass"}

\* A complete proposal that reuses exactly what is settled and verified.
ExactVerifiedReuse(r) ==
    /\ AllowReuse /\ r > 0
    /\ Proposal(r).decision = "complete" /\ Proposal(r).reuse
    /\ Verified # {} /\ SettledNodes

\* The revision is settled from the last verified one, without execution.
Reuse(p) ==
    /\ At(p, "decide")
    /\ \E r \in {mem[p].rev} :
         /\ ExactVerifiedReuse(r)
         /\ Put(p, Event("reused", r, [verdict |-> "pass", reusable |-> TRUE, from |-> Max(Verified)]),
                "conclude", [mem[p] EXCEPT !.noProgress = 0])
    /\ UNCHANGED <<child, faults>>

SkipSettled(p) ==
    /\ At(p, "decide") /\ ~ExactVerifiedReuse(mem[p].rev)
    /\ mem[p].status = "settled"
    /\ Goes(p, "conclude", mem[p])
    /\ UNCHANGED <<journal, child, faults>>

\* What the ledger holds: settled usage, and open reservations.
Charged(r) == IF Has("charged", r) THEN DataOf({"charged"}, r) ELSE IF Has("reserved", r) THEN Worst ELSE 0
Spent == SumFunction([r \in Revisions |-> Charged(r)])
Fits(r) == Has("reserved", r) \/ Spent + Worst <= Capacity

\* budgetLedger.reserve; it throws when the envelope has no room, and knows a
\* reservation that was made before.
Reserve(p) ==
    /\ At(p, "decide") /\ ~ExactVerifiedReuse(mem[p].rev)
    /\ mem[p].status # "settled"
    /\ \E r \in {mem[p].rev} :
         IF Fits(r)
         THEN Put(p, Event("reserved", r, Worst),
                  IF mem[p].status = "running" THEN "execute" ELSE "start", mem[p])
         ELSE Quit(p) /\ UNCHANGED journal
    /\ UNCHANGED <<child, faults>>

StartRevision(p) ==
    /\ At(p, "start")
    /\ Put(p, Event("started", mem[p].rev, 0), "execute", mem[p])
    /\ UNCHANGED <<child, faults>>

\* executeRevision returns a result that validateExecution accepts.
Returns(p) ==
    /\ At(p, "execute")
    /\ \E r \in {mem[p].rev}, x \in Results :
         /\ child[r] # NoResult => x = child[r]
         /\ child' = [child EXCEPT ![r] = x]
         /\ Goes(p, "settle", [mem[p] EXCEPT !.result = x])
    /\ UNCHANGED <<journal, faults>>

\* The child run waits for an approval of its own.
Awaits(p) ==
    /\ At(p, "execute") /\ child[mem[p].rev] = NoResult
    /\ PutLast(p, Event("awaitingApproval", mem[p].rev, 0))
    /\ UNCHANGED <<child, faults>>

\* executeRevision throws, the heartbeat of the lease fails first, or the
\* result is refused or beyond its reservation.
Throws(p) ==
    /\ At(p, "execute")
    /\ Goes(p, "charge", mem[p])
    /\ UNCHANGED <<journal, child, faults>>

\* Mutant: a failed revision gives nothing back and is charged nothing.
ChargeNothing(p) ==
    /\ At(p, "charge")
    /\ Goes(p, "fail", mem[p])
    /\ UNCHANGED <<journal, child, faults>>

\* The worst case is charged before the goal fails.
Charge(p) ==
    /\ At(p, "charge")
    /\ Put(p, Event("charged", mem[p].rev, Worst), "fail", mem[p])
    /\ UNCHANGED <<child, faults>>

Fail(p) ==
    /\ At(p, "fail")
    /\ PutLast(p, Event("failed", mem[p].rev, 0))
    /\ UNCHANGED <<child, faults>>

SettleBudget(p) ==
    /\ At(p, "settle")
    /\ Put(p, Event("charged", mem[p].rev, mem[p].result.usage), "record", mem[p])
    /\ UNCHANGED <<child, faults>>

\* GoalRevisionSettled, and the progress that it made.
Record(p) ==
    /\ At(p, "record")
    /\ \E r \in {mem[p].rev}, x \in {mem[p].result}, c \in {Proposal(mem[p].rev).coverage} :
         Put(p, Event("settled", r, [verdict |-> x.verdict, reusable |-> x.reusable, from |-> r]),
             "conclude",
             [mem[p] EXCEPT !.status = "settled", !.result = NoResult,
                            !.noProgress = IF c > mem[p].prior THEN 0 ELSE mem[p].noProgress + 1,
                            !.prior = Max({c, mem[p].prior})])
    /\ UNCHANGED <<child, faults>>

\* terminalizeSettledRevision: how a settled revision ends the goal, if it does.
Decision(x, verdict, noProgress) ==
    IF verdict # "pass" THEN "verification-failed"
    ELSE IF noProgress >= Window THEN "no-progress"
    ELSE IF x.decision = "blocked" THEN "blocked"
    ELSE IF x.decision = "complete" THEN "completed" ELSE "replan"

Conclude(p) ==
    /\ At(p, "conclude")
    /\ \E r \in {mem[p].rev} :
         \E d \in {Decision(Proposal(r), Execution(r).verdict, mem[p].noProgress)} :
            IF d = "replan"
            THEN Goes(p, "loop", [mem[p] EXCEPT !.rev = r + 1]) /\ UNCHANGED journal
            ELSE PutLast(p, Event(d, r, 0))
    /\ UNCHANGED <<child, faults>>

-----------------------------------------------------------------------------
(* Crashes and the lease.                                                  *)

Crash(p) ==
    /\ faults < MaxFaults /\ ~At(p, "idle")
    /\ faults' = faults + 1
    /\ pc' = [pc EXCEPT ![p] = "idle"] /\ mem' = [mem EXCEPT ![p] = Fresh]
    /\ UNCHANGED <<journal, child, lease>>

\* The lease of a dead process runs out.
ExpireDead ==
    /\ lease # NoProc /\ At(lease, "idle")
    /\ lease' = NoProc
    /\ UNCHANGED <<journal, child, pc, mem, faults>>

\* A live process has not renewed its lease in time.
ExpireLive ==
    /\ faults < MaxFaults /\ lease # NoProc /\ ~At(lease, "idle")
    /\ lease' = NoProc /\ faults' = faults + 1
    /\ UNCHANGED <<journal, child, pc, mem>>

Step(p) ==
    \/ Loop(p) \/ Authority(p) \/ Reuse(p) \/ SkipSettled(p) \/ Reserve(p)
    \/ StartRevision(p) \/ Returns(p) \/ Awaits(p) \/ Throws(p)
    \/ Charge(p) \/ Fail(p) \/ SettleBudget(p) \/ Record(p) \/ Conclude(p)

Next == (\E p \in Procs : Start(p) \/ Step(p) \/ Crash(p)) \/ ExpireDead \/ ExpireLive

Spec == Init /\ [][Next]_vars

-----------------------------------------------------------------------------
(* Properties.                                                             *)

Kinds == Terminals \union {"admitted", "proposed", "awaitingAuthority", "awaitingApproval",
                             "reserved", "started", "charged", "settled", "reused"}
Labels == {"idle", "loop", "authority", "decide", "start", "execute", "charge", "fail", "settle",
           "record", "conclude"}
Statuses == {"proposed", "running", "awaiting-approval", "settled"}
Memories == [rev : 0..MaxRevisions, noProgress : 0..MaxRevisions, prior : Coverages \union {0},
             status : Statuses, widened : BOOLEAN, result : Results \union {NoResult}]
Outcomes == {x \in [verdict : {"pass", "fail"}, reusable : BOOLEAN, from : Revisions] :
                x.reusable => x.verdict = "pass"}

\* Types; what a settled revision charged stays within its reservation.
TypeOK ==
    /\ \A i \in DOMAIN journal :
          /\ journal[i].kind \in Kinds /\ journal[i].rev \in Revisions
          /\ journal[i].kind = "proposed" => journal[i].data \in Proposals
          /\ journal[i].kind \in {"settled", "reused"} => journal[i].data \in Outcomes
          /\ journal[i].kind = "charged" =>
                journal[i].data \in 0..Worst /\ Has("reserved", journal[i].rev)
    /\ child \in [Revisions -> Results \union {NoResult}]
    /\ lease \in Procs \union {NoProc}
    /\ pc \in [Procs -> Labels] /\ mem \in [Procs -> Memories]
    /\ faults \in 0..MaxFaults

\* The goal that has ended: the event that ended it.
Terminal == journal[Max({i \in DOMAIN journal : journal[i].kind \in Terminals})]

\* Settled revisions that a resumed run has put back to await authority.
Demoted == {r \in Proposed : WasSettled(r) /\ Status(r) # "settled"}

\* The end of a goal does not depend on crashes and resumes: it is what the
\* durable proposals, verdicts and coverages decide, and a goal completes only
\* on a fresh verifier's pass over a proposal that covers the target.
EndIsDecided ==
    Ended /\ Terminal.kind \notin {"failed", "limit"} /\ Demoted = {} =>
        LET r == Terminal.rev
            n == IF Has("reused", r) THEN 0 ELSE NoProgress({q \in Proposed : WasSettled(q)})
        IN  /\ Terminal.kind = Decision(Proposal(r), Execution(r).verdict, n)
            /\ Terminal.kind = "completed" =>
                  Proposal(r).coverage >= Target /\ Execution(r).verdict = "pass"

\* What is charged and what is reserved fit the envelope together, and a goal
\* that has ended holds no open reservation: every revision that was reserved is
\* charged first, whoever executed it and however it ended.
EnvelopeCloses ==
    /\ Spent <= Capacity
    /\ Ended => \A r \in Revisions : Has("reserved", r) => Has("charged", r)

\* The process that holds the lease executes no revision that is settled, unless
\* the revision had to be approved again.
SettledNotRerun ==
    \A p \in Procs : lease = p /\ At(p, "execute") /\ WasSettled(mem[p].rev) =>
        Proposal(mem[p].rev).expands

-----------------------------------------------------------------------------
(* The inductive invariant behind them.                                    *)

\* The journal is a sequence that only grows, with one event of an id.
IsLog == Len(journal) \in Nat /\ journal = [i \in 1..Len(journal) |-> journal[i]]
OneOfEach ==
    \A i, j \in DOMAIN journal :
        journal[i].kind = journal[j].kind /\ journal[i].rev = journal[j].rev => i = j

\* Revisions are proposed one after the other, when the one before is settled.
OneByOne ==
    \A r \in Proposed : \A q \in Revisions : q < r => q \in Proposed /\ WasSettled(q)
IsCurrent(r) == r \in Proposed /\ \A q \in Proposed : q <= r

\* What the events of a revision say of each other.
History(r) ==
    /\ (\E k \in {"awaitingAuthority", "awaitingApproval", "reserved", "started", "charged",
                   "settled", "reused"} : Has(k, r)) => r \in Proposed
    /\ Has("settled", r) => Has("charged", r) /\ Has("started", r) /\ child[r] # NoResult
    /\ Has("awaitingAuthority", r) => Proposal(r).expands
    /\ r \in Proposed /\ Proposal(r).decision = "complete" => Proposal(r).coverage >= Target
    /\ WasSettled(r) /\ ~Has("awaitingAuthority", r) => Status(r) = "settled"

\* A revision that was settled by reuse could be so again at any time, and one
\* with an open reservation was not settled and is not settled by reuse.
VerifiedBefore(r) == \E q \in Verified : q < r
ReuseOK(r) ==
    /\ Has("reused", r) =>
          /\ AllowReuse /\ r > 0 /\ Proposal(r).decision = "complete" /\ Proposal(r).reuse
          /\ SettledNodes /\ (Has("settled", r) \/ VerifiedBefore(r))
          /\ Execution(r).verdict = "pass"
    /\ Has("reserved", r) /\ ~Has("charged", r) => ~WasSettled(r) /\ ~ExactVerifiedReuse(r)

LogInv ==
    /\ IsLog /\ OneOfEach /\ OneByOne /\ \A r \in Revisions : History(r) /\ ReuseOK(r)

\* What a process knows for good, also when it has lost the lease.
Knows(p) ==
    /\ pc[p] \notin {"idle", "loop"} => mem[p].rev \in Proposed
    /\ pc[p] = "authority" => Proposal(mem[p].rev).expands
    /\ pc[p] \in {"settle", "record"} => mem[p].result \in Results /\ child[mem[p].rev] = mem[p].result

\* What it knows as long as it has the lease: it works on the current revision,
\* which it executes only if nothing is settled or all has to be approved again.
AtRevision(p) ==
    /\ ~Ended
    /\ pc[p] # "loop" => IsCurrent(mem[p].rev)
    /\ pc[p] = "loop" =>
          \/ mem[p].rev = 0 /\ Proposed = {}
          \/ IsCurrent(mem[p].rev)
          \/ mem[p].rev > 0 /\ IsCurrent(mem[p].rev - 1) /\ WasSettled(mem[p].rev - 1)
    /\ pc[p] \in {"authority", "decide"} => mem[p].status = Status(mem[p].rev)
    /\ pc[p] \in {"start", "execute", "charge", "fail", "settle", "record"} =>
          /\ Has("reserved", mem[p].rev) /\ mem[p].status # "settled"
          /\ WasSettled(mem[p].rev) =>
                /\ Has("settled", mem[p].rev) /\ Proposal(mem[p].rev).expands
                /\ Status(mem[p].rev) # "settled"
    /\ pc[p] \in {"execute", "charge", "fail", "settle", "record"} => Has("started", mem[p].rev)
    /\ pc[p] \in {"fail", "record"} => Has("charged", mem[p].rev)
    /\ pc[p] = "conclude" => WasSettled(mem[p].rev)

\* Its count of revisions without progress is that of the journal, if none of
\* them was put back, and never more than there are revisions.
Counted(p) ==
    /\ pc[p] = "loop" => mem[p].noProgress <= mem[p].rev \/ (mem[p].rev \in Settled /\ mem[p].noProgress <= mem[p].rev + 1)
    /\ pc[p] \notin {"loop", "conclude"} /\ mem[p].status # "settled" => mem[p].noProgress <= mem[p].rev
    /\ mem[p].noProgress <= mem[p].rev + 1
    /\ pc[p] # "conclude" /\ Demoted = {} =>
          mem[p].noProgress = NoProgress(Settled) /\ mem[p].prior = PriorCoverage(Settled)
    /\ pc[p] = "conclude" /\ Has("reused", mem[p].rev) /\ Demoted = {} => mem[p].noProgress = 0
    /\ pc[p] = "conclude" /\ ~Has("reused", mem[p].rev) /\ Demoted = {} =>
          mem[p].noProgress = NoProgress(Settled) /\ mem[p].prior = PriorCoverage(Settled)

HolderInv == \A p \in Procs : lease = p /\ pc[p] # "idle" => AtRevision(p) /\ Counted(p)

GoalInv ==
    /\ TypeOK /\ LogInv /\ (\A p \in Procs : Knows(p)) /\ HolderInv /\ EnvelopeCloses /\ EndIsDecided
=============================================================================
