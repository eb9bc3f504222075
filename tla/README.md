# Verification of only-my-pi

TLA+ models of the parts of only-my-pi whose correctness depends on the order
in which things happen: several processes and asynchronous calls that share
files, crashes between two writes, retries of what may already have been done.
The models are translated from the source, TLC checks them on small instances,
and TLAPS proves the safety properties of most of them for every value of the
constants.

## 1. The system and its parts

only-my-pi is a control plane around the Pi coding agent. Its own logic lives
in `packages/`, with the command line in `bin/` and `packages/cli`, the Pi
extensions in `extensions/`, and the installer scripts in `scripts/`.

| part | state it keeps | operations | interacts with |
|---|---|---|---|
| event journal, `subagents/state/event-journal.mjs` | lock file, lease file, `events.jsonl`, `snapshot.json` of one run | acquire / renew / release the writer lease, recover, append, publish and load a snapshot | everything in `subagents` that is durable |
| budget ledger, `subagents/policy/budget-ledger.mjs` | none of its own: reservations and charges rebuilt from the journal | reserve, settle, refund | journal (compare-and-swap), run coordinator, batch swarm |
| run coordinator, `subagents/workflow/run-coordinator` | the projection of a run: nodes, attempts, children, root status; the running handles; the lease it holds | execute (with recovery), pause, cancel, resume, inspect | journal, ledger, plan store, artifact store, executor adapters |
| plan store, `subagents/state/plan-store.mjs` | plans, their runs, cancel requests | create, bind, requestCancel, acknowledge | run coordinator polls it |
| artifact store, `subagents/state/artifact-store.mjs` | content-addressed files | put, get, verify | run coordinator |
| goal revision authority, `subagents/policy/goal-revision-authority.mjs` | the granted capabilities, in memory | assess, approve | swarm goal |
| approval receipts, writer hand-off | consumed receipts, a hand-off record | issue, verify, consume | run coordinator |
| plan compiler, workflow migration | none (pure) | compile, migrate | plan store |
| batch swarm, `subagents/batch-swarm` | work items, their attempts, the lanes in use | run, resume, cancel | ledger, journal |
| swarm goal, `subagents/swarm-goal` | proposals, revisions, verdicts and charges of a goal, all in the goal's journal | execute (with resume) | journal, ledger, revision authority, child runs |
| ultra run | none | compile a goal and hand it over | swarm goal |
| session composer, adapters, live probe, release tooling | in-memory registries | wiring, sub-process calls | all of the above |
| host, `packages/host` | `tasks.json`, the input store of a session, lanes, terminals, approvals | enqueue, deliver, resume, remove, reconcile an input; start, cancel, stop a task | Pi worker processes, session history |
| process runtime and ownership | process identities on disk | spawn, prove ownership, terminate | host, executor adapters |
| config runtime, `packages/config-runtime` | `settings.json`, transaction journals, a lock with its reclaim directory, snapshots, the last-known-good record | lock, reclaim, compare and save, advance, recover | bootstrap, release stack |
| bootstrap, `packages/bootstrap` | generations and their staging directories | bootstrap, update, uninstall, rollback, with recovery of what is open | config runtime |
| release stack, `packages/release-stack` | stack directories, four links, `stack-state.json`, journals and rollback manifests, the npm root | install, update, rollback, remove | bootstrap as its harness |
| upstream migration | journal of a cross-root transaction | plan, apply, roll back | config runtime |
| workspace checkpoint | checkpoints of a working tree | create, restore, prune | direct agent |
| direct agent, `packages/direct-agent` | orchestration of one direct conversation | start, steer, stop | host |
| control service, ACP, MCP, model calls, accounts, run management, mode registry | request-scoped state, catalogues | request / response | host |
| legacy swarm and workflow core, prototypes, web user interface, themes, prompts, scripts | - | - | - |

What is hard, and where:

* *Several calls inside one process.* Parallel nodes, the lease heartbeat and
  the cancel poll all append to one journal; every `await` is a point where
  another call runs. The journal orders them with a lock **file**, which is
  created, written, judged stale and unlinked in separate steps.
* *Several processes.* A run can be resumed by another process after a crash.
  The lease with its fencing token must keep the old writer out.
* *Crashes.* A writer can die between any two file operations, in the middle
  of a line of the journal, between the event that reserves budget and the one
  that starts the child, or between the child's end and the event that says so.
* *Replays.* Recovery repeats steps under deterministic event ids, so that the
  journal's duplicate rule decides what a repeated step means.
* *Late and competing events.* A child's end, a deadline, a cancel request, a
  pause and an overrun of the budget can all decide the same node or run.

What makes each modelled part correct:

* *event journal*: one call at a time inside the lock; every record written by
  the holder of the newest lease; a file that recovery accepts whatever
  crashed; an event logged once, and nothing logged behind a terminal;
* *budget ledger*: reserved and consumed capacity within the limits; every
  reservation made once, settled once, within its worst case;
* *run coordinator*: attempts and assignments bounded over any number of
  restarts, nothing replayed that may have had an effect, dependencies first,
  a completed run proved complete, `execute()` always returns;
* *batch swarm*: the pool's count is right through retries and aborts, nothing
  unproved is replayed, a verdict is backed by the journal, a batch returns;
* *swarm goal*: the end is the one the durable record decides, whoever resumes;
  settled revisions are not executed again; the budget closes;
* *host*: an input is taken by at most one worker, the session is locked as
  long as a worker may run, every delivery is decided in the end;
* *configuration runtime and bootstrap*: one mutator at a time, settings that
  refer to a whole generation, rollback that leaves nothing, no edit lost;
* *release stack*: an installation that is coherent when nothing is pending, and
  a rollback that restores what was there, however often it is interrupted.

The hazards behind these, each at its line, are in `PROJECT.json`.

## 2. Modules

| module | models |
|---|---|
| `EventRules` | what the journal makes of an incoming event (`classifyIncoming`) |
| `FencedLog` | the promise of the journal: one log, one writer per epoch |
| `EventJournal` | lock file, lease, journal and snapshot under several processes, several calls per process, expiry and crashes |
| `EventJournalProofs` | theorems about `EventJournal` |
| `BudgetLedger` | the reservation ledger over that log |
| `RunCoordinator` | one workflow run: `execute()` with recovery, `#runNode`, a batch's item, pause, cancel, crash |
| `BatchSwarm` | `runBatch` with several items: pool, ramp, retries, policies, closing, crash and resume |
| `SwarmGoal` | the controller of a dynamic goal over its journal |
| `HostInput` | input controller, input store, tasks and workers of one session |
| `ConfigTransaction` | configuration lock, transaction engine, generations, settings, recovery |
| `StackTransaction` | stack transactions, their rollback and their recovery |
| `FiniteSums` | lemmas about sums, maxima and finite sets that the proofs share |
| `LimitProofs` | theorems about `BudgetLedger` and `BatchSwarm`, the two that admit up to a limit |
| `RunCoordinatorProofs`, `ConfigTransactionProofs`, `HostInputProofs`, `SwarmGoalProofs`, `StackTransactionProofs` | theorems about these components |
| `MC...` | one instance module for TLC per component |

The modules stack as the code does. `EventJournal` is shown to implement
`FencedLog`; `BudgetLedger` and `RunCoordinator` build on that and take an
append and a read of the journal as one step each, and so do `BatchSwarm` and
`SwarmGoal`. `BudgetLedger` and `EventJournal` share `EventRules`.
`RunCoordinator` has a batch of one item from the outside, `BatchSwarm` one of
several items from the inside. `ConfigTransaction` is what `StackTransaction`
calls the harness: the second takes a publication or a rollback of the first as
one step that may fail.

### EventJournal

State: the four files (`lock`, `lease`, `events` with a torn `tail`,
`snapshot`), and for each call (`Threads`) where it is (`pc`), what it asked for
and what it has read; for each process whether it lives and which token it
holds. One action per file operation, because another call can run at each
`await`: `CreateLock` and `PublishLock` (an exclusive create, then its content),
`JudgeLock` and `UnlinkLock`, `Enter...` (the read under the lock), `Write...`,
`Unlock`. `Expire` lets time pass, `Crash` kills a process between any two of
them and may leave part of a line.

`Spec` lets a process ask for the lease only when no other call is in flight and
no living process holds one (`Quiet`), which is how one coordinator per run uses
it. `ContendedSpec` drops that. The safety properties are about `Spec`;
`journal_contended` shows what is lost without the assumption.

### BudgetLedger

State: the log, and for each call in flight its request, the head it has read
and its retries. `Read`/`Answer` is the rebuild of the reservations and the
decision, `AppendEvent` the compare-and-swap, `AnswerOld` the duplicate and late
answers, `Retry` the CAS mismatch. Amounts are whole numbers.

Left out: `METERING_UNAVAILABLE`, which depends on static configuration only,
and `expectedVersion`, which no caller passes.

### RunCoordinator

Durable state is the projection of the run's events: `status`, `node`, the
attempts `atts` with `NodeAdmitted`, `ChildStarted` and `ChildTerminal`, the
reservations `resv`, the work item of a batch, and `known`, the fixed event ids
that have been used (a second append under such an id is a duplicate and changes
nothing, or a conflict and throws). Everything else is memory: where `execute()`
is (`phase`), where each `#runNode` is (`pc`), attempts counted, reservations
kept for reuse. `Crash` clears the memory; a lost lease is the same, as every
later append is refused.

Each append is a step, in the order of the code: reserve, `NodeAdmitted`,
`ChildStarted`, the child, `ChildTerminal`, `NodeArtifactPublished`, the charge,
`NodeSettled`. Recovery is `RefundUnadmitted`, then for every running node and
each of its unfinished attempts `KeepBatch`, or `InterruptChild` and
`SettleAttempt`, then `Requeue` or `RefuseReplay`.

Abstractions: the budget is the assignments resource, the one a restart could
spend twice (the ledger itself is in `BudgetLedger`); a batch is one item with
its own attempts; approvals, gates and executors answer anything they can
answer; an absent primitive of the executor is absent from the start. What the
plan compiler guarantees (a batch has one root attempt, one attempt of every
node fits the limit) is assumed.

### BatchSwarm

State: `m`, the closure of `runBatch` (slots, counters, capacity, the abort
controller, where each slot's loop is, the queue of appends that wait for
`writeTail`), and what is durable: the projection of the items and the attempts
with a `BatchItemStarted`, those of them in `ended` with an authoritative end
that is no success. JavaScript is not interrupted between two awaits, so
an action is one such stretch, composed of the closure's own functions, which
keep their names (`pump`, `closeQueued`, `maybeComplete`, `failRun`). Items end
in any way (`EndItem`) or never; `Interrupt` is the abort of a wait, `Wake` the
end of a retry's delay, `RampFires` the timer. `Refuse` is an append that fails,
`Crash` loses `m`, and `Resume` starts again from the projection when the
coordinator's check (`SafeToResume`) allows it. The specification is `BatchSpec`
(`BatchInit`, `BatchNext`), so that one module can prove about it and about the
ledger; the parts of its inductive invariant stand at the end of the module.

### SwarmGoal

State: the journal as a sequence of events whose id is kind and revision, the
results of child runs, the lease, and the memory of each process. One action
per stretch between two appends, in the order of the code: `Start` rebuilds what
is known, `Loop` plans or takes the stored proposal, `Authority`, `Reuse`,
`Reserve`, `StartRevision`, `Returns` or `Throws`, `SettleBudget`, `Record`,
`Conclude`. `Put` is the append: a duplicate is ignored, the same id with other
content is a conflict and ends the command, a lost lease refuses. `ExpireLive`
takes the lease from a process that goes on. What is spent is a sum over the
revisions, of the charge or else the reservation of each.

### HostInput

State: what is durable (`item`, `order`, `disk` for `tasks.json`, `lease` for
the ownership record, `file` for the history), the host's memory (`task`,
`lane`, the operation inside `#serial` and the jobs that wait for it) and the
world (worker processes, the answers on the wire). Commands of a client,
background jobs, each `run()` of a task and the workers interleave. An answer may
be late, so that the host gives up first; a worker may die before or after it has
written the history; the host may crash anywhere and restart, where
`recoverWorkers` and the store's `#initialize` decide what is interrupted,
unknown or paused.

### ConfigTransaction

State: the files (settings, last-known-good record, journals, snapshots,
generations, staging directories, lock and reclaim directory) and for each
command where it is. One action per rename, removal or journal write that
another process or a crash can see. A command locks (with the reclaim of a stale
lock in its five steps), recovers what is open, reconciles the record, and runs
its body; `Fails` is a step that throws, which leads into the command's own
recovery; `Crash` leaves everything as it is. `Edit` is the user. The edit that
falls between the last comparison and the rename is excluded by
`EditInWindow = FALSE`: no file system call could prevent it.

### StackTransaction

State: journals with their rollback manifests, `stack-state.json`, the links,
stack directories, staged ones, settings, the harness's record, the npm root and
the one that was moved aside. One command runs at a time. The steps are those of
`apply` and of `recoverTransaction`, with a link replaced in two (unlink, link);
a crash may fall between any two of them, also inside a recovery, after which
the next command recovers again from the first step.

## 3. Runs

| run | instance | shows |
|---|---|---|
| `journal` | 2 processes, 3 calls, 2 events, 2 tokens, 2 records, fair | `MutualExclusion`, `JournalRecoverable`, `SnapshotMatchesAnchor`, `TerminalsAreFinal`, refinement of `FencedLog`, `DeadWritersLockRecovered` |
| `ledger` | 2 calls, 2 reservations, limit 2 | `NeverOverspent`, `Balanced` |
| `coordinator_agents` | 2 agents of one wave, one of them mutating, 2 attempts, 1 crash | `AssignmentsFunded`, `NoBlindReplay`, `CompletedIsProved` |
| `coordinator_batch` | a batch whose item has 2 attempts, 2 crashes | `StartsArePaid` |
| `coordinator_live` | checkpoint, gate, mutating agent in a chain, 1 crash, fair | `DependenciesFirst`, `ExecuteReturns` |
| `batch` | 3 items, pool of 2, 2 attempts, 2 policies, 1 crash, 1 refused append, fair | `PoolHolds`, `VerdictIsProved`, `NoUnprovedReplay`, `FirstExecutionReturns` |
| `host` | 2 inputs in two combinations of delivery, 2 tasks, 1 task of a client, 1 fault | `OfferedIsUntaken`, `LockFollowsWorker`, `DeliveriesDecided` |
| `config` | 2 commands at once, 2 generations, 3 transactions, 1 edit, 2 faults | `OneMutator`, `SettingsResolve`, `GoodAtRest`, `RolledBackIsUndone`, `EditsSurvive` |
| `goal` | 2 processes, 2 revisions, budget for 1, 1 fault | `EndIsDecided`, `EnvelopeCloses`, `SettledNotRerun` |
| `stack` | 2 stacks, one private, 3 transactions, 1 edit, 2 faults | `InstalledIsCoherent`, `RolledBackIsBaseline`, `LateEditsSurvive` |

One run of every component also checks its type invariant (`TypeOK`, `BatchTypeOK`), which says
more than types where the code has a convention worth it: that a staging
directory belongs to an open transaction, that a charge has a reservation, that
a counter never passes its limit.

Bounds. Two processes and two calls of one of them are what it takes for a call
to meet a call of its own process, of its predecessor and of its successor; two
tokens give a hand-over; two records make a journal with a first and a next. Two
reservations under a limit of two let each request fit alone, together, or only
after the other has given something back. Two nodes in a wave let one end while
the other is anywhere; one crash puts a second process over every partial state
of a first, and two crashes put a third over every partial *recovery*. Three
items in a pool of two leave one waiting while two run, so that closing, ramp
and retry meet an item that was not admitted. Two inputs are one that is
delivered and one that waits; two tasks are the worker that has gone and the one
that comes after it. Three transactions are an installation, one on top of it,
and what the next command starts after it has recovered both; two faults are a
crash and a crash or failure of its recovery. Two revisions with a window of one
reach convergence, the limit, and a reuse of the first by the second. All caps
are constants (`MaxToken`, `MaxSeq`, `MaxCrashes`, `MaxFaults`, `MaxTx`,
`MaxEdits`, `MaxTasks`, `MaxPlain`) used in guards. Symmetry is used for
processes and generations in `config` and for processes in `goal`, which check
no liveness.

Deadlock is checked in `goal` only: elsewhere a journal whose tokens are used
up, a run that has ended or an instance whose transactions are spent may stop.

Fairness. In `journal` every call of a living process goes on, a living process
asks again for a lease that is free, as `resume` does, and a lease expires in
the end, as time passes. In `coordinator_live` the event loop runs `execute()`
and each `#runNode` (weak fairness of `Control` and of `RunNode(n)`). That a
child ends is part of it: an agent, a gate or a checkpoint is raced with its
deadline (`#nodeDeadline`). A batch is not, and is assumed to return. In `batch`
the event loop delivers what is settled: the append at the head of the queue
(`Record` or `Refuse`), aborted waits, timers and the deadline (weak fairness of
`EventLoop`); no item is obliged to end, and nobody to cancel. Nobody is obliged
to call `execute()`, `pause()` or `cancel()`.

Conditions in the properties. `GoodAtRest` excepts a reconciliation that the
code itself reports as degraded. `EndIsDecided` and `SettledNotRerun` except a
settled revision that a resumed run has put back to await approval, because the
grant that was widened for it is lost with the process (`Demoted`,
`swarm-goal/index.mjs:683`). `InstalledIsCoherent` is about configurations in
which no transaction was given up for manual reconciliation, and so is the part
of `RolledBackIsBaseline` about the harness's last good generation: a transaction
that is given up can have put the generation of the settings back itself, and an
older one that is rolled back later then finds nothing for the harness to do,
while the record of the last good generation stays as it was. The rest of that
property needs no such condition.
`FirstExecutionReturns` is about executions that were not resumed: a resumed
one can hang (section 4).

Every property has a mutant in `PROJECT.json`: a plausible slip in one
definition under which TLC finds the property violated.

## 4. Where the code and its documents disagree

Each is a run that TLC must find violated; the quotations are in `PROJECT.json`.

* `journal_contended`: a lock judged stale is unlinked by path, and can be a
  live one by then. Two calls append under one sequence number.
* `stack_partial`: recovery of a stack transaction removes the npm root because
  the manifest says that it *would be* switched. If the transaction failed before
  it moved the user's root aside, or a first recovery has already put it back,
  packages that were there before the installation are lost.

Others were met while modelling. The models have the behaviour, no run is spent
on them, and the hazards in `PROJECT.json` give the lines and the sentences:

* the writer id of the coordinator is a constant, so a second process is given
  the same unexpired lease with the same token (`event-journal.mjs:650`);
* recovery requeues a node under a fixed event id; after a second crash the
  event is a duplicate, and the run fails with no ready node
  (`run-coordinator/index.mjs:1546`);
* the first unsuccessful node in plan order names the verdict, so a run with an
  orphaned child can be recorded as cancelled (`:1605`);
* a crash behind a failed `GateEvaluated` leaves a reservation that nothing
  settles (`:506`);
* a crash between the charge and the settlement of a batch makes recovery
  forget its open items; the batch that is run again reports the usage of both
  executions, the charge exceeds the new reservation and `execute()` rejects
  (`:1457`);
* a resumed batch whose admission is closed before an item that was neither
  queued nor succeeded has been admitted never completes
  (`batch-swarm/index.mjs:890`);
* a crash between the save of a task and the transition of its input leaves the
  input queued, and `resumeQueue` returns the old task (`host/tasks.mjs:73`);
* a crash inside the removal of a generation leaves a directory without
  manifest, on which every later recovery throws (`npm-stager.mjs:736`);
* a crash between the settlement of a reused revision and the end of its goal
  makes every resume end in `EVENT_ID_CONFLICT` (`swarm-goal/index.mjs:722`);
* a stack transaction whose harness has published cannot be recovered when the
  stack's directory is not in its place (`stack-transaction.mjs:95`).

## 5. Proofs

The theorems hold for every value of the constants that the named assumptions
of a module allow. Each safety property is proved the same way: an inductive
invariant `I` with `Init => I`, `I /\ [Next]_vars => I'` and `I => P`, where the
second has one lemma for each action or group of actions, and TLC has checked
`I` on an instance first. An action property follows from `I` before the step.

### Event journal (`EventJournalProofs`)

| theorem | statement |
|---|---|
| `Typing` | `Spec => []TypeOK` |
| `Invariance` | `Spec => []JournalInv` |
| `Exclusive` | `Spec => []MutualExclusion` |
| `AlwaysRecoverable` | `Spec => []JournalRecoverable` |
| `Fencing` | `Spec => []Fenced` |
| `SnapshotsMatch` | `Spec => []SnapshotMatchesAnchor` |
| `EventRulesKept` | `Spec => [](UniqueEventIds /\ TerminalsAreFinal)` |
| `HandOvers` | `Spec => NewOwnerNewToken` |
| `Refinement` | `Spec => ImplementsFencedLog` |

None of these is inductive alone. `MutualExclusion` needs to know that a call
inside the lock is the owner that the lock file names (`OwnsLock`), that calls
in flight together belong to one owner and none of them acquires (`Company`,
`HolderCalls`), that no dead call's lock is in the way of an owner (`LiveLock`),
and that only an acquiring call unlinks (`OnlyAcquireUnlinks`). The properties of the files need to know
that what a call has read under the lock (lease, head, classification of its
event) still holds when it writes (`FreshReads`), and that no record carries a
token that was not issued (`TokensIssued`). `JournalInv` is the conjunction of
these with the type invariant and the properties. The refinement maps the
abstract log to `events` and the epoch to the lease's token.

`Fenced`, `UniqueEventIds` and `NewOwnerNewToken` are not checked by a run of
their own: the theorems hold for every instance, and the first two follow from
the refinement that `journal` checks.

### Budget ledger (`LimitProofs`)

| theorem | statement |
|---|---|
| `LedgerTyping` | `Spec => []TypeOK` |
| `BudgetHolds` | `Spec => []NeverOverspent` |
| `LedgerBalances` | `Spec => []Balanced` |

`LedgerInv` adds to the properties what makes the optimistic append right
(`Judged`): a call that is about to append has judged the log as it was when it
read the head, and if that is still the head, what it has decided is right for the log of now. Callers,
resources and retries are any number, and so are reservations: only those in the
log are summed, and they are finitely many.

### Batch swarm (`LimitProofs`)

| theorem | statement |
|---|---|
| `PoolSafe` | `BatchSpec => []PoolInv` |
| `BatchTyped` | `BatchSpec => []BatchTypeOK` |
| `PoolWithin` | `BatchSpec => []PoolHolds` |
| `BatchSafe` | `BatchSpec => []BatchInv` |
| `VerdictProved` | `BatchSpec => []VerdictIsProved` |
| `NoReplay` | `BatchSpec => NoUnprovedReplay` |

They hold for every number of items and attempts, every initial and maximal
capacity, every policy, and any number of crashes and refused appends. One action
composes many functions of the closure, so the proof follows the code: `Pool` is
an invariant of the record `m`, and each function (`pump`, `closeQueued`,
`failRun`, `maybeComplete`, the stretches of `runSlot`) has a lemma that says what
it does to `Pool`; an action cites those of the functions that it calls. The
count that admission relies on is the number of slots inside `runSlot` (`Seated`).
That alone is not inductive. A continuation counts its slot out when an append
has been made or refused, so the invariant needs that a pending append is awaited
by the one slot that is at the step of it (`Awaited`, and no two with the same
`Owner`); otherwise a slot could be counted out twice. `pump` counts the slots
that it takes, so none from `next` on may be inside already. A rate limit halves
the capacity below what is running: `active` may pass the capacity of the moment,
never `Ceiling`.

The verdict and the replay need more, since they relate the closure to a journal
that lags behind it by the appends that wait for `writeTail`. `BatchInv` adds to
`PoolInv`:

* `History`, of the journal alone: every start is counted in the projection, and
  the attempts of an earlier execution have ended or their item has succeeded.
  This is what a crash leaves and what `SafeToResume` lets `Resume` start from;
* `Course` and `Attempts`, of a slot: what its step says of the projection and of
  each earlier attempt of its item. An attempt that is being announced, or waits
  for its retry, has only ended ones before it;
* `Pending`, of the queue: what each waiting event says of its slot (`Says`), and
  that no start is followed by the closing of its own item;
* `Counts`, of the flags: admission is closed by an abort or by a failed item of a
  fail-fast batch, and the batch ends only with an empty pool;
* `Trusted`: until an abort, what a slot claims is in the journal or on its way;
* `Charged` and `Decided`: each start is counted once, and the verdict, once
  made, is that of the journal.

The lemmas follow the code as those of `Pool` do: each function of the closure
keeps `Good`, what holds of `m` beside a journal that does not change, and an
append is one lemma for each kind of event (`Records`). The proof corrected the
model twice. `NoUnprovedReplay` looked at the last end in the projection, which a
cancellation without authority overwrites when the batch is aborted between two
attempts: with three attempts and two crashes a retry that the code rightly makes
was counted as a replay. The property now asks of each earlier attempt, and not of
the last end, whether it has ended (`ended`). And `aggregateOutcome` was
a CASE with overlapping arms, whose value TLA+ does not fix; its arms are now
decided in the order of the code.

### Run coordinator (`RunCoordinatorProofs`)

| theorem | statement |
|---|---|
| `RunSafe` | `Spec => []RunInv` |
| `RunTyped` | `Spec => []TypeOK` |
| `NeedsFirst` | `Spec => []DependenciesFirst` |
| `NothingReplayed` | `Spec => []NoBlindReplay` |
| `CompletedProved` | `Spec => []CompletedIsProved` |
| `StartsPaid` | `Spec => []StartsArePaid` |
| `RunFunded` | `Spec => []AssignmentsFunded` |

They hold for every plan whose nodes are finitely many and distinct, every
dependency relation and kind of node, every limit that the plan compiler admits
and any number of crashes. `RunInv` is one statement per node and a small one
about the root. `AtStep` is what `#runNode` knows at each of its steps: from
which step on there is a reservation that nobody has settled, an attempt, a
started child, an end. `AtStatus` is what the status of a node in the journal
says of its attempts. `Replays` is `NoBlindReplay` with what the steps before the
next start need to know, and `Counted` relates the `ChildStarted` events to the
attempts that the executing process counts, which it has from those events.
Recovery takes the attempts of a node one after the other, so `Referred` and
`Kept` say which reservation belongs to which attempt and that the one kept for a
batch is the last that is not settled, among the attempts recovery has looked at.

`StartsArePaid` is the hardest of the six. It compares the starts of a node with
its funds, and neither says which reservation paid for which start: a recovery may
charge a reservation for all it was worth, keep it for the next attempt of the
batch, or find that its child never began. `Paying` therefore sums only
reservations on which a child was started (`Touched`), none of which is ever
refunded, and says of one that is still open that with those before it there is
enough for all attempts of the item. `AssignmentsFunded` follows by comparing the
sums over the nodes, as the ledger lets no reservation pass that exceeds the limit
(`Root`).

### Configuration transaction (`ConfigTransactionProofs`)

| theorem | statement |
|---|---|
| `ConfigTyping` | `Spec => []TypeOK` |
| `ConfigLockExcludes` | `Spec => []OneMutator` |
| `SettingsAlwaysResolve` | `Spec => []SettingsResolve` |
| `RecordIsGoodAtRest` | `Spec => []GoodAtRest` |
| `RollbackUndoes` | `Spec => RolledBackIsUndone` |
| `UserEditsSurvive` | `~EditInWindow => (Spec => EditsSurvive)` |

`LockInv` alone is inductive over the types: a process inside the lock is the one
that the lock names, the reclaim directory has one process in it, and that
process has looked at the lock that it moves. `OnDisk` says what the files mean
to each other whoever reads them (an open transaction has its staging and its
snapshot, the settings name a whole generation), and `Annotation(p)` what the
process inside knows at each step. Another process changes nothing that
`Annotation` reads, because of `OneMutator`; the user's `Edit` does, and the
annotations allow for it.

### Host (`HostInputProofs`)

| theorem | statement |
|---|---|
| `HostTyping` | `Spec => []TypeOK` |
| `SessionLockHolds` | `Spec => []LockFollowsWorker` |
| `NothingIsOfferedTwice` | `Spec => []OfferedIsUntaken` |
| `RestDecides` | `Spec => []DeliveriesDecided` |

`HostInv` has one part for each place that can know of an input: the host's lock
and its workers (`LockInv`), a host that is down (`DownInv`), the operation inside
`#serial` (`OpInv`), the jobs that wait for it (`JobsInv`), what is under way to a
worker (`SentInv`), an input and its task (`InputInv`). `AheadInv` is what
`DeliveriesDecided` rests on: a delivery that is not decided has a task whose end
is still to come or still to be told to the controller, so that at rest there is
none. A job that is queued may run much later; its part of the invariant is about
the task it names, not about the moment.

### Swarm goal (`SwarmGoalProofs`)

| theorem | statement |
|---|---|
| `GoalHolds` | `Spec => []GoalInv` |
| `GoalTyping` | `Spec => []TypeOK` |
| `EnvelopeHolds` | `Spec => []EnvelopeCloses` |
| `EndFollowsJournal` | `Spec => []EndIsDecided` |
| `SettledStaySettled` | `Spec => []SettledNotRerun` |

`LogInv` is about the journal alone: an event of a kind once per revision,
revisions one after the other, and the course that the events of one revision
can take. `Knows(p)` is what a process knows for good, also when it has lost the
lease, as events are never taken back. `HolderInv` is what it knows while it has
the lease: the revision at hand is the current one, and its count of revisions
without progress is the one that the journal gives. `EndIsDecided` needs the
last: the event that ends a goal is computed from memory, and the property from
the journal.

### Stack transaction (`StackTransactionProofs`)

| theorem | statement |
|---|---|
| `StackInvariant` | `Spec => []StackInv` |
| `StackTyping` | `Spec => []TypeOK` |
| `StackCoherent` | `Spec => []InstalledIsCoherent` |
| `StackLateEdits` | `Spec => LateEditsSurvive` |
| `StackRolledBack` | `"partial" \notin Trees => (Spec => RolledBackIsBaseline)` |

What a recovery goes back to is data of an earlier moment, so the proof is about
what keeps it true until then. Transactions are committed in their order, at most
one is incomplete, and all committed ones are older (`InOrder`); the recorded list,
the list that a manifest restores and the list that a rollback works through have
no gap (`Listed`). From that follows `Baseline`: no manifest that is still to be
used leads to the stack of its own or of a later transaction, so that whatever is
removed before its turn comes, its links lead to whole stacks. `Annotation` is
what a command knows at each step (`AtApply`, `AtMark`, `AtRecovery`): which links
are written and which are still in the list (`Filling`, `Filled`), what is staged,
and in a recovery that everything the earlier steps have restored is still
restored, which a repeated recovery needs again from the first step. `CoherentLinks` and
`CoherentGens` are `InstalledIsCoherent` of now and of every manifest, with the
chain of harness generations; they hold until a transaction is given up. The
hypothesis of `StackRolledBack` is the counterexample of `stack_partial` (section
4): an npm root that is there in part.

### Sums (`FiniteSums`)

The ledger and the goal add amounts over sets. `SumAdd` (the sum over a set is one
value and the sum over the rest), `SumMonotone` and `SumChange` are proved for
every finite set. The induction theorems of the library take an operator as a
parameter, which the provers cannot instantiate, so these proofs take a
*minimal counterexample*: a least cardinality at which the claim fails, which
exists because the naturals are well ordered, and a set with one element less.

### Only model-checked

* The liveness properties `DeadWritersLockRecovered`, `ExecuteReturns` and
  `FirstExecutionReturns`: fairness and `ENABLED` are beyond the prover.
* `RolledBackIsBaseline` is claimed neither by a run nor by a theorem for npm roots
  that are there in part: TLC finds it violated as `PreexistingRetained` is.
* `journal_contended` and `stack_partial`, which are counterexamples.

The candidates for the inductive invariants were checked with TLC on the
instances of the runs and smaller ones. That of `SwarmGoal` was explored to a
depth of 38 on two instances, that of `StackTransaction` completely on three, and
`BatchInv` completely on three: that of `batch`, and two with two items, two
crashes and two or three attempts, which cover all four policies.

## 6. Plan

What is left to prove is that `RunCoordinator` keeps the promise of a run that its
documents make as one specification, a status that is decided once and a log of
settled nodes, by a refinement from `RunInv`. Every other safety property of the
passing runs is a theorem.

## 7. Not modelled

The models cover the parts whose state is shared by several actors or survives a
crash. In lines that is a small part of the repository. The rest was left out for
one of these reasons, given for each component in `PROJECT.json`:

* *pure validation and canonicalisation* (plan compiler, workflow migration,
  registries, schemas, policies, codecs): no state; the guarantees that a model
  needs are assumptions on its constants;
* *request and response* (control service, MCP, ACP, model calls, accounts, the
  host's routes, drafts and terminals): one handler, one atomic file;
* *input and output* (npm, git, archives, downloads, sub-processes): modelled by
  what their callers can observe;
* *user interface* (extensions, command line, prototypes, web pages, themes);
* *one-shot tooling* (release evidence, packaging, conformance and compatibility
  probes, doctor and installer scripts);
* *superseded code* (legacy swarm and workflow core);
* *the same idea twice*: upstream migration is a transaction on the pattern of
  the stack transaction; workspace checkpoint and direct agent keep state of
  their own that a later module could treat.
