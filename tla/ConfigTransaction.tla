-------------------------- MODULE ConfigTransaction --------------------------
(***************************************************************************)
(* The bootstrap transaction engine over the configuration runtime: the    *)
(* configuration lock with its reclaim, the transaction journal, snapshots,*)
(* generations, settings.json and the last-known-good record, at the grain *)
(* of what is published by one rename or removed by one fs.rm.             *)
(*                                                                         *)
(* Settings are the user's part (how often the user has changed it) and    *)
(* the generation that the managed part refers to; a digest is the value   *)
(* itself, and an absent file is a value like any other.  A generation is  *)
(* whole, or partly removed: its manifest is gone and its directory not.   *)
(* Phases of the journal between which nothing else is written are one     *)
(* step.  A process slot stands for one command after the other; a lock of *)
(* a dead process is old enough to be stale.                               *)
(***************************************************************************)
EXTENDS Naturals, FiniteSets

CONSTANTS
    Procs,         \* commands that run at the same time
    Gens,          \* generations
    NoGen,         \* no generation
    NoProc,        \* no process
    Dead,          \* a process that has died
    EditInWindow,  \* the user may write between the check and the rename of a
                   \*   settings publication
    MaxTx,         \* bound: transactions
    MaxEdits,      \* bound: changes of the settings by the user
    MaxFaults      \* bound: crashes and failing steps

ASSUME ConfigAssumption ==
    /\ NoGen \notin Gens /\ NoProc \notin Procs /\ Dead \notin Procs /\ NoProc # Dead
    /\ EditInWindow \in BOOLEAN
    /\ MaxTx \in Nat /\ MaxEdits \in Nat /\ MaxFaults \in Nat

VARIABLES
    settings,  \* settings.json
    lkg,       \* last-known-good.json: the settings and the generation it names
    journal,   \* the journal of every transaction
    snap,      \* the settings of its snapshot before-<id>
    gens,      \* generations/<digest>: none, whole or partial
    staging,   \* the transactions whose staging directory exists
    lock,      \* the owner of configuration.lock
    emptied,   \* the lock's directory exists without its owner.json
    reclaim,   \* the process that made configuration.lock.reclaim
    pc, at,    \* the next step of a process and what it works on
    degraded,  \* the last reconciliation of the record was given up
    faults     \* the faults so far

disk == <<settings, lkg, journal, snap, gens, staging>>
locks == <<lock, emptied, reclaim>>
vars == <<disk, locks, pc, at, degraded, faults>>

Txs == 1..MaxTx
AnyGen == Gens \union {NoGen}
Settings == [user : 0..MaxEdits, gen : AnyGen]
NoSettings == [user |-> 0, gen |-> NoGen]
With(s, g) == [s EXCEPT !.gen = g]
Records == [on : BOOLEAN, settings : Settings, gen : AnyGen]
NoLkg == [on |-> FALSE, settings |-> NoSettings, gen |-> NoGen]

Phases == {"none", "PREPARED", "BACKUP_DURABLE", "GRAPH_STAGING", "GRAPH_VERIFIED",
           "GRAPH_PROMOTED", "SETTINGS_PUBLISHED", "SMOKE_PASSED", "COMMITTED"}
TERMINAL == {"COMMITTED", "ROLLED_BACK", "FAILED"}
Journals == [status : {"none", "ACTIVE", "RECOVERING"} \union TERMINAL, phase : Phases,
             gen : AnyGen, created : BOOLEAN, intended : Settings]
NoJournal == [status |-> "none", phase |-> "none", gen |-> NoGen, created |-> FALSE,
              intended |-> NoSettings]

\* The journal has the promotion evidence, and the settings publication.
Promoted(t) == journal[t].phase \in {"GRAPH_PROMOTED", "SETTINGS_PUBLISHED", "SMOKE_PASSED", "COMMITTED"}
Published(t) == journal[t].phase \in {"SETTINGS_PUBLISHED", "SMOKE_PASSED", "COMMITTED"}
Incomplete == {t \in Txs : journal[t].status \in {"ACTIVE", "RECOVERING"}}
NewTx == {t \in Txs : journal[t].phase = "none"}
First(t, S) == t \in S /\ \A u \in S : t <= u

\* What a command works on: its plan (its kind, its generation and the settings
\* it was made for), whether it reconciles the last-known-good record first,
\* the settings it has read, its transaction or the one it recovers, whether
\* the recovery is of its own transaction and must reconcile, and what the
\* recovery does with the settings.
Nothing == [kind |-> "none", gen |-> NoGen, source |-> NoSettings, first |-> FALSE,
            cur |-> NoSettings, tx |-> 0, own |-> FALSE, strict |-> FALSE, todo |-> "none"]

Works == [kind : {"none", "graph", "settings"}, gen : AnyGen, source : Settings, first : BOOLEAN,
          cur : Settings, tx : 0..MaxTx, own : BOOLEAN, strict : BOOLEAN,
          todo : {"none", "NOT_APPLICABLE", "RESTORE_SNAPSHOT", "UNCHANGED", "PRESERVE_CONCURRENT"}]

Init ==
    /\ settings = NoSettings /\ lkg = NoLkg
    /\ journal = [t \in Txs |-> NoJournal]
    /\ snap = [t \in Txs |-> NoSettings]
    /\ gens = [g \in Gens |-> "none"] /\ staging = {}
    /\ lock = NoProc /\ emptied = FALSE /\ reclaim = NoProc
    /\ pc = [p \in Procs |-> "idle"] /\ at = [p \in Procs |-> Nothing]
    /\ degraded = FALSE /\ faults = 0

Whole(g) == g # NoGen /\ gens[g] = "whole"
Goes(p, l) == pc' = [pc EXCEPT ![p] = l]
At(p, l) == pc[p] = l

-----------------------------------------------------------------------------
(* Plans are made outside the lock; a plan without changes only takes it. *)

Start(p, kind, g, first) ==
    /\ At(p, "idle")
    /\ Cardinality(NewTx) > Cardinality({q \in Procs : ~At(q, "idle")})
    /\ at' = [at EXCEPT ![p] = [Nothing EXCEPT !.kind = kind, !.gen = g,
                                               !.source = settings, !.first = first]]
    /\ Goes(p, "lock")
    /\ UNCHANGED <<disk, locks, degraded, faults>>

\* planBootstrap and planUpdate.
PlanGraph(p, g) ==
    Start(p, IF settings.gen = g /\ Whole(g) THEN "none" ELSE "graph", g, TRUE)

PlanUninstall(p) ==
    Start(p, IF settings.gen = NoGen THEN "none" ELSE "settings", NoGen, FALSE)

\* planRollback to the snapshot of a committed transaction, and what
\* applyRollbackPlan verifies before the lock.
PlanRollback(p, t) ==
    /\ journal[t].status = "COMMITTED"
    /\ snap[t].gen = NoGen \/ Whole(snap[t].gen)
    /\ Start(p, IF snap[t].gen = settings.gen THEN "none" ELSE "settings", snap[t].gen, FALSE)

-----------------------------------------------------------------------------
(* The configuration lock.                                                 *)

\* createOwnedLock, or the lock is held: by a live process, or without an
\* owner.json, which counts as a live owner.
Acquire(p) ==
    /\ At(p, "lock")
    /\ \/ lock = NoProc /\ ~emptied /\ lock' = p /\ Goes(p, "recover") /\ UNCHANGED at
       \/ lock = Dead /\ Goes(p, "reclaim") /\ UNCHANGED <<lock, at>>
       \/ /\ lock \in Procs \/ emptied
          /\ Goes(p, "idle") /\ at' = [at EXCEPT ![p] = Nothing] /\ UNCHANGED lock
    /\ UNCHANGED <<disk, emptied, reclaim, degraded, faults>>

MakeReclaim(p) ==
    /\ At(p, "reclaim")
    /\ IF reclaim = NoProc
       THEN reclaim' = p /\ Goes(p, "inspect") /\ UNCHANGED at
       ELSE Goes(p, "idle") /\ at' = [at EXCEPT ![p] = Nothing] /\ UNCHANGED reclaim
    /\ UNCHANGED <<disk, lock, emptied, degraded, faults>>

\* Mutant: the lock is not looked at again.
StillStaleAssumed == TRUE

\* The lock, as it is now, is stale.
StillStale == lock = Dead

InspectAgain(p) ==
    /\ At(p, "inspect")
    /\ Goes(p, IF StillStale THEN "archive" ELSE "giveup")
    /\ UNCHANGED <<disk, locks, at, degraded, faults>>

\* The stale lock is renamed away.
Archive(p) ==
    /\ At(p, "archive")
    /\ lock' = NoProc /\ emptied' = FALSE
    /\ Goes(p, "claim")
    /\ UNCHANGED <<disk, reclaim, at, degraded, faults>>

Claim(p) ==
    /\ At(p, "claim")
    /\ IF lock = NoProc /\ ~emptied THEN lock' = p /\ Goes(p, "reclaimed")
                                    ELSE UNCHANGED lock /\ Goes(p, "giveup")
    /\ UNCHANGED <<disk, emptied, reclaim, at, degraded, faults>>

DropReclaim(p) ==
    /\ pc[p] \in {"reclaimed", "giveup"}
    /\ reclaim' = NoProc
    /\ Goes(p, IF At(p, "reclaimed") THEN "recover" ELSE "idle")
    /\ at' = IF At(p, "giveup") THEN [at EXCEPT ![p] = Nothing] ELSE at
    /\ UNCHANGED <<disk, lock, emptied, degraded, faults>>

\* release: the owner.json goes before the directory.
Release(p) ==
    /\ At(p, "release")
    /\ lock' = NoProc /\ emptied' = TRUE /\ Goes(p, "released")
    /\ UNCHANGED <<disk, reclaim, at, degraded, faults>>

Released(p) ==
    /\ At(p, "released")
    /\ emptied' = FALSE /\ Goes(p, "idle") /\ at' = [at EXCEPT ![p] = Nothing]
    /\ UNCHANGED <<disk, lock, reclaim, degraded, faults>>
-----------------------------------------------------------------------------
(* Recovery, under the lock: of the transactions that others left, and of  *)
(* the command's own one when it fails.                                    *)

\* recoverPending, one journal after the other.
RecoverPending(p) ==
    /\ At(p, "recover")
    /\ IF Incomplete = {}
       THEN /\ Goes(p, IF at[p].first THEN "reconcile" ELSE "body")
            /\ UNCHANGED at
       ELSE \E t \in Txs :
               /\ First(t, Incomplete)
               /\ at' = [at EXCEPT ![p] = [@ EXCEPT !.tx = t, !.own = FALSE,
                                                    !.strict = at[p].first]]
               /\ Goes(p, "r_begin")
    /\ UNCHANGED <<disk, locks, degraded, faults>>

\* Mutant: the settings are looked at only when their publication is recorded.
DispositionByPhase(t) ==
    IF ~Published(t) THEN "NOT_APPLICABLE"
    ELSE IF settings = journal[t].intended THEN "RESTORE_SNAPSHOT"
    ELSE IF settings = snap[t] THEN "UNCHANGED" ELSE "REFUSED"

\* verifyTransactionRecoveryEvidence: what becomes of the settings.
Disposition(t) ==
    IF ~Promoted(t) THEN "NOT_APPLICABLE"
    ELSE IF settings = journal[t].intended THEN "RESTORE_SNAPSHOT"
    ELSE IF settings = snap[t] THEN "UNCHANGED"
    ELSE IF Published(t) THEN "REFUSED" ELSE "PRESERVE_CONCURRENT"

\* recoverJournal up to beginTransactionRecovery; evidence that does not fit
\* leaves the transaction as it is and fails the command.
BeginRecovery(p) ==
    /\ At(p, "r_begin")
    /\ LET t == at[p].tx
           d == Disposition(t)
       IN  IF d = "REFUSED"
           THEN Goes(p, "release") /\ UNCHANGED <<journal, at>>
           ELSE /\ journal' = [journal EXCEPT ![t] = [@ EXCEPT !.status = "RECOVERING"]]
                /\ at' = [at EXCEPT ![p] = [@ EXCEPT !.cur = settings, !.todo = d]]
                /\ Goes(p, IF d = "RESTORE_SNAPSHOT" THEN "r_check" ELSE "r_staging")
    /\ UNCHANGED <<settings, lkg, snap, gens, staging, locks, degraded, faults>>

\* Mutant: the settings are not compared before the rename.
SameSettingsAssumed(p) == TRUE

\* assertExpectedCurrent: the settings are the ones that were read.
SameSettings(p) == settings = at[p].cur

\* compareAndSaveSettings of the restored settings: the check, and the rename.
CheckRestore(p) ==
    /\ At(p, "r_check")
    /\ Goes(p, IF SameSettings(p) THEN "r_rename" ELSE "release")
    /\ UNCHANGED <<disk, locks, at, degraded, faults>>

RenameRestore(p) ==
    /\ At(p, "r_rename")
    /\ LET restored == With(at[p].cur, snap[at[p].tx].gen)
       IN  /\ settings' = restored
           /\ at' = [at EXCEPT ![p] = [@ EXCEPT !.cur = restored]]
    /\ Goes(p, "r_staging")
    /\ UNCHANGED <<lkg, journal, snap, gens, staging, locks, degraded, faults>>

\* Mutant: a generation is removed although the settings refer to it.
UnreferencedAnyway(p) == journal[at[p].tx].created

\* The transaction has made the generation, and the settings do not use it.
Unreferenced(p) ==
    LET t == at[p].tx
    IN  journal[t].created /\ at[p].cur.gen # journal[t].gen

\* Mutant: only a promotion is cleaned up.
WithoutStagingIfPromoted(t) == IF Promoted(t) THEN staging \ {t} ELSE staging

\* removeStagingGeneration: the transaction's own directory, if it is there.
WithoutStaging(t) == staging \ {t}

RemoveStaging(p) ==
    /\ At(p, "r_staging")
    /\ staging' = WithoutStaging(at[p].tx)
    /\ Goes(p, IF Unreferenced(p) THEN "r_gen" ELSE "r_lkg")
    /\ UNCHANGED <<settings, lkg, journal, snap, gens, locks, at, degraded, faults>>

\* removeUnreferencedGeneration reads the manifest first, and fails without it.
RemoveGeneration(p) ==
    /\ At(p, "r_gen")
    /\ LET g == journal[at[p].tx].gen
       IN  \/ gens[g] = "whole" /\ gens' = [gens EXCEPT ![g] = "partial"] /\ Goes(p, "r_gone")
           \/ gens[g] = "partial" /\ Goes(p, "release") /\ UNCHANGED gens
           \/ gens[g] = "none" /\ Goes(p, "r_lkg") /\ UNCHANGED gens
    /\ UNCHANGED <<settings, lkg, journal, snap, staging, locks, at, degraded, faults>>

GenerationGone(p) ==
    /\ At(p, "r_gone")
    /\ gens' = [gens EXCEPT ![journal[at[p].tx].gen] = "none"]
    /\ Goes(p, "r_lkg")
    /\ UNCHANGED <<settings, lkg, journal, snap, staging, locks, at, degraded, faults>>

\* Mutant: a record that is there is not compared with the settings.
ReconciledUncompared ==
    IF settings.gen = NoGen THEN {NoLkg}
    ELSE IF lkg.on THEN {lkg}
    ELSE IF Whole(settings.gen)
         THEN {[on |-> TRUE, settings |-> settings, gen |-> settings.gen]}
         ELSE {}

\* What reconcileLastKnownGood makes of the record: cleared, kept because it
\* still names the settings and a generation that is whole, or rebuilt; none
\* when it fails.
Reconciled ==
    IF settings.gen = NoGen THEN {NoLkg}
    ELSE IF lkg.on /\ lkg.settings = settings /\ Whole(lkg.gen) THEN {lkg}
    ELSE IF Whole(settings.gen)
         THEN {[on |-> TRUE, settings |-> settings, gen |-> settings.gen]}
         ELSE {}

\* A failure of the reconciliation is reported and not thrown.
Tolerant(p) == ~at[p].strict \/ at[p].todo = "PRESERVE_CONCURRENT"

ReconcileRecovered(p) ==
    /\ At(p, "r_lkg")
    /\ lkg' \in (IF Reconciled = {} THEN {lkg} ELSE Reconciled)
    /\ degraded' = (Reconciled = {} /\ (Tolerant(p) \/ degraded))
    /\ Goes(p, IF Reconciled = {} /\ ~Tolerant(p) THEN "release" ELSE "r_settle")
    /\ UNCHANGED <<settings, journal, snap, gens, staging, locks, at, faults>>

\* settleTransactionRecovery.
Settle(p) ==
    /\ At(p, "r_settle")
    /\ journal' = [journal EXCEPT ![at[p].tx] = [@ EXCEPT !.status =
                     IF at[p].todo = "PRESERVE_CONCURRENT" THEN "FAILED" ELSE "ROLLED_BACK"]]
    /\ Goes(p, IF at[p].own THEN "release" ELSE "recover")
    /\ UNCHANGED <<settings, lkg, snap, gens, staging, locks, at, degraded, faults>>

\* The reconciliation before the command itself.
ReconcileFirst(p) ==
    /\ At(p, "reconcile")
    /\ lkg' \in (IF Reconciled = {} THEN {lkg} ELSE Reconciled)
    /\ degraded' = (degraded /\ Reconciled = {})
    /\ Goes(p, IF Reconciled = {} THEN "release" ELSE "body")
    /\ UNCHANGED <<settings, journal, snap, gens, staging, locks, at, faults>>

-----------------------------------------------------------------------------
(* The command itself.                                                     *)

\* The command's own recovery; strict, when a failed reconciliation fails it.
OwnRecovery(p, strict) ==
    /\ at' = [at EXCEPT ![p] = [@ EXCEPT !.own = TRUE, !.strict = strict]]
    /\ Goes(p, "r_begin")

Phase(p, phase) == journal' = [journal EXCEPT ![at[p].tx] = [@ EXCEPT !.phase = phase]]

\* A plan without changes, a stale plan and a generation that is not whole end
\* the command; else createTransaction makes its journal.
Begin(p) ==
    /\ At(p, "body")
    /\ IF \/ at[p].kind = "none"
          \/ settings # at[p].source
          \/ at[p].kind = "settings" /\ at[p].gen # NoGen /\ ~Whole(at[p].gen)
       THEN Goes(p, "release") /\ UNCHANGED <<journal, at>>
       ELSE \E t \in Txs :
               /\ First(t, NewTx)
               /\ journal' = [journal EXCEPT ![t] = [NoJournal EXCEPT
                                 !.status = "ACTIVE", !.phase = "PREPARED", !.gen = at[p].gen]]
               /\ at' = [at EXCEPT ![p] = [@ EXCEPT !.cur = settings, !.tx = t]]
               /\ Goes(p, "backup")
    /\ UNCHANGED <<settings, lkg, snap, gens, staging, locks, degraded, faults>>

\* The snapshot has the settings of this moment, the plan those of Begin.
Backup(p) ==
    /\ At(p, "backup")
    /\ snap' = [snap EXCEPT ![at[p].tx] = settings]
    /\ Phase(p, "BACKUP_DURABLE")
    /\ Goes(p, "stage")
    /\ UNCHANGED <<settings, lkg, gens, staging, locks, at, degraded, faults>>

\* The promotion evidence: who made the generation, and the intended settings.
Evidence(p, created) ==
    journal' = [journal EXCEPT ![at[p].tx] = [@ EXCEPT
        !.phase = "GRAPH_PROMOTED", !.created = created, !.intended = With(at[p].cur, at[p].gen)]]

\* stageAndPromoteGeneration up to the promotion: a generation that exists is
\* verified and used again.  A settings-only plan stages nothing.
Stage(p) ==
    /\ At(p, "stage")
    /\ \/ /\ at[p].kind = "settings" \/ Whole(at[p].gen)
          /\ Evidence(p, FALSE) /\ Goes(p, "p_check") /\ UNCHANGED <<staging, at>>
       \/ /\ at[p].kind = "graph" /\ gens[at[p].gen] = "none"
          /\ staging' = staging \union {at[p].tx}
          /\ Phase(p, "GRAPH_STAGING") /\ Goes(p, "promote") /\ UNCHANGED at
       \/ /\ at[p].kind = "graph" /\ gens[at[p].gen] = "partial"
          /\ Phase(p, "GRAPH_STAGING") /\ OwnRecovery(p, TRUE) /\ UNCHANGED staging
    /\ UNCHANGED <<settings, lkg, snap, gens, locks, degraded, faults>>

\* atomicPromoteGeneration; the journal learns of it in a later step.
Promote(p) ==
    /\ At(p, "promote")
    /\ gens' = [gens EXCEPT ![at[p].gen] = "whole"]
    /\ staging' = staging \ {at[p].tx}
    /\ Phase(p, "GRAPH_VERIFIED") /\ Goes(p, "promoted")
    /\ UNCHANGED <<settings, lkg, snap, locks, at, degraded, faults>>

RecordPromotion(p) ==
    /\ At(p, "promoted")
    /\ Evidence(p, TRUE) /\ Goes(p, "p_check")
    /\ UNCHANGED <<settings, lkg, snap, gens, staging, locks, at, degraded, faults>>

\* finishVisibleMutation: the check, and the rename of the settings.
CheckPublish(p) ==
    /\ At(p, "p_check")
    /\ IF SameSettings(p) THEN Goes(p, "p_rename") /\ UNCHANGED at
                          ELSE OwnRecovery(p, FALSE)
    /\ UNCHANGED <<disk, locks, degraded, faults>>

RenamePublish(p) ==
    /\ At(p, "p_rename")
    /\ settings' = With(at[p].cur, at[p].gen)
    /\ Goes(p, "published")
    /\ UNCHANGED <<lkg, journal, snap, gens, staging, locks, at, degraded, faults>>

RecordPublication(p) ==
    /\ At(p, "published")
    /\ Phase(p, "SETTINGS_PUBLISHED") /\ Goes(p, "smoke")
    /\ UNCHANGED <<settings, lkg, snap, gens, staging, locks, at, degraded, faults>>

\* The static doctor and the smoke run pass.
Smoke(p) ==
    /\ At(p, "smoke")
    /\ Phase(p, "SMOKE_PASSED") /\ Goes(p, "lkg")
    /\ UNCHANGED <<settings, lkg, snap, gens, staging, locks, at, degraded, faults>>

\* The settings are still the intended ones.
NotDrifted(p) == settings = journal[at[p].tx].intended

\* repairLastKnownGood, or the record is cleared when nothing is installed.
RecordGood(p) ==
    /\ At(p, "lkg")
    /\ IF at[p].gen = NoGen \/ (Whole(at[p].gen) /\ NotDrifted(p))
       THEN /\ lkg' = IF at[p].gen = NoGen THEN NoLkg
                      ELSE [on |-> TRUE, settings |-> settings, gen |-> at[p].gen]
            /\ degraded' = FALSE
            /\ Goes(p, "commit") /\ UNCHANGED at
       ELSE OwnRecovery(p, at[p].kind = "graph") /\ UNCHANGED <<lkg, degraded>>
    /\ UNCHANGED <<settings, journal, snap, gens, staging, locks, faults>>

Commit(p) ==
    /\ At(p, "commit")
    /\ journal' = [journal EXCEPT ![at[p].tx] = [@ EXCEPT !.phase = "COMMITTED",
                                                          !.status = "COMMITTED"]]
    /\ Goes(p, "release")
    /\ UNCHANGED <<settings, lkg, snap, gens, staging, locks, at, degraded, faults>>

-----------------------------------------------------------------------------
(* The user, failing steps and crashes.                                    *)

Edit ==
    /\ settings.user < MaxEdits
    /\ EditInWindow \/ \A p \in Procs : pc[p] \notin {"p_rename", "r_rename"}
    /\ settings' = [settings EXCEPT !.user = @ + 1]
    /\ UNCHANGED <<lkg, journal, snap, gens, staging, locks, pc, at, degraded, faults>>

BodySteps == {"backup", "stage", "promote", "promoted", "p_check", "p_rename",
              "published", "smoke", "lkg", "commit"}
RecoverySteps == {"r_begin", "r_check", "r_rename", "r_staging", "r_gen", "r_gone", "r_lkg", "r_settle"}

\* A step throws: the command recovers its own transaction, and gives the lock
\* back when recovery or reconciliation is what failed.
Fails(p) ==
    /\ faults < MaxFaults /\ faults' = faults + 1
    /\ \/ /\ pc[p] \in BodySteps
          /\ OwnRecovery(p, at[p].kind = "graph") /\ UNCHANGED degraded
       \/ /\ At(p, "r_lkg") /\ Tolerant(p)
          /\ degraded' = TRUE /\ Goes(p, "r_settle") /\ UNCHANGED at
       \/ /\ pc[p] \in (RecoverySteps \union {"recover", "reconcile", "body"})
          /\ ~(At(p, "r_lkg") /\ Tolerant(p))
          /\ Goes(p, "release") /\ UNCHANGED <<at, degraded>>
    /\ UNCHANGED <<disk, locks>>

\* The process dies; its lock is a dead process's lock.
Crash(p) ==
    /\ faults < MaxFaults /\ faults' = faults + 1
    /\ pc[p] \notin {"idle", "lock"}
    /\ lock' = IF lock = p THEN Dead ELSE lock
    /\ reclaim' = IF reclaim = p THEN Dead ELSE reclaim
    /\ Goes(p, "idle") /\ at' = [at EXCEPT ![p] = Nothing]
    /\ UNCHANGED <<disk, emptied, degraded>>

-----------------------------------------------------------------------------
Locking(p) ==
    \/ Acquire(p) \/ MakeReclaim(p) \/ InspectAgain(p) \/ Archive(p) \/ Claim(p)
    \/ DropReclaim(p) \/ Release(p) \/ Released(p)

Recovery(p) ==
    \/ RecoverPending(p) \/ BeginRecovery(p) \/ CheckRestore(p) \/ RenameRestore(p)
    \/ RemoveStaging(p) \/ RemoveGeneration(p) \/ GenerationGone(p)
    \/ ReconcileRecovered(p) \/ Settle(p) \/ ReconcileFirst(p)

Command(p) ==
    \/ Begin(p) \/ Backup(p) \/ Stage(p) \/ Promote(p) \/ RecordPromotion(p)
    \/ CheckPublish(p) \/ RenamePublish(p) \/ RecordPublication(p) \/ Smoke(p)
    \/ RecordGood(p) \/ Commit(p)

Plan(p) ==
    \/ \E g \in Gens : PlanGraph(p, g)
    \/ PlanUninstall(p)
    \/ \E t \in Txs : PlanRollback(p, t)

Next ==
    \/ \E p \in Procs : Plan(p) \/ Locking(p) \/ Recovery(p) \/ Command(p) \/ Fails(p) \/ Crash(p)
    \/ Edit

Spec == Init /\ [][Next]_vars

-----------------------------------------------------------------------------
(* Properties.                                                             *)

Locked == BodySteps \union RecoverySteps \union {"recover", "reconcile", "body", "release", "reclaimed"}

Places == Locked \union {"idle", "lock", "reclaim", "inspect", "archive", "claim", "giveup", "released"}

\* Types, and the directories of a transaction belong to one that has begun.
TypeOK ==
    /\ settings \in Settings
    /\ lkg \in Records
    /\ journal \in [Txs -> Journals]
    /\ snap \in [Txs -> Settings]
    /\ gens \in [Gens -> {"none", "whole", "partial"}]
    /\ staging \subseteq Incomplete
    /\ lock \in Procs \union {NoProc, Dead} /\ reclaim \in Procs \union {NoProc, Dead}
    /\ emptied \in BOOLEAN /\ degraded \in BOOLEAN /\ faults \in 0..MaxFaults
    /\ pc \in [Procs -> Places]
    /\ at \in [Procs -> Works]

\* At most one process is between the acquisition of the configuration lock and
\* its release, through reclaims of a dead owner's lock by several processes,
\* and it is the lock's owner, so that release never fails on its token.
OneMutator == \A p \in Procs : pc[p] \in Locked => lock = p

\* The settings never refer to a generation that is missing or half removed,
\* whatever crashed or failed and whoever recovered it.
SettingsResolve == settings.gen # NoGen => Whole(settings.gen)

\* When no transaction is open, the last-known-good record names the generation
\* that the settings use, and there is none when nothing is installed; only a
\* reconciliation that was reported as degraded leaves it behind.
GoodAtRest ==
    Incomplete = {} /\ ~degraded =>
        /\ lkg.on <=> settings.gen # NoGen
        /\ lkg.on => lkg.gen = settings.gen /\ Whole(lkg.gen)

\* A transaction that ends as rolled back has left nothing: the settings refer
\* to the generation they referred to before, and what it staged or promoted
\* is gone unless they use it.
RolledBackIsUndone ==
    [][\A t \in Txs : journal[t].status # "ROLLED_BACK" /\ journal'[t].status = "ROLLED_BACK" =>
          /\ journal[t].phase # "PREPARED" => settings.gen = snap[t].gen
          /\ t \notin staging
          /\ journal[t].created /\ settings.gen # journal[t].gen => gens[journal[t].gen] = "none"]_vars

\* What the user writes into settings.json is never lost to a publication or to
\* a restore, as long as it is not written between the check and the rename.
EditsSurvive == [][settings'.user >= settings.user]_vars

-----------------------------------------------------------------------------
(***************************************************************************)
(* The inductive invariant.  LockInv says who may be inside the lock and   *)
(* its reclaim, OnDisk what the files say of each other at any time, and   *)
(* Annotation what the process inside the lock knows at each of its steps. *)
(***************************************************************************)
Reclaiming == {"inspect", "archive", "claim", "giveup", "reclaimed"}

LockInv ==
    /\ OneMutator
    /\ \A p \in Procs : pc[p] \in Reclaiming => reclaim = p
    /\ \A p \in Procs : pc[p] = "archive" => lock = Dead

Resolves(g) == g # NoGen => Whole(g)

Good ==
    /\ lkg.on <=> settings.gen # NoGen
    /\ lkg.on => lkg.gen = settings.gen /\ Whole(lkg.gen)

\* What a transaction that is open has on disk: the generation it started from
\* is there until it ends, and is not the one that it has made.
OpenTx(t) ==
    /\ journal[t].phase # "PREPARED" => Resolves(snap[t].gen)
    /\ journal[t].created =>
         Promoted(t) /\ journal[t].gen \in Gens /\ journal[t].gen # snap[t].gen
    /\ journal[t].phase \in {"BACKUP_DURABLE", "GRAPH_STAGING", "GRAPH_VERIFIED"} =>
         settings.gen = snap[t].gen

BegunTogether == \A t \in Txs : journal[t].phase = "none" <=> journal[t].status = "none"

GoodNamesItself == lkg.on => lkg.gen = lkg.settings.gen

OnDisk ==
    /\ \A t, u \in Incomplete : t = u
    /\ \A t \in Incomplete : OpenTx(t)
    /\ BegunTogether
    /\ GoodNamesItself
    /\ SettingsResolve
    /\ GoodAtRest

PublishedSteps == {"published", "smoke", "lkg", "commit"}
EvidencedSteps == {"p_check", "p_rename"} \union PublishedSteps
UnpublishedSteps == BodySteps \ PublishedSteps
CleaningSteps == {"r_staging", "r_gen", "r_gone", "r_lkg", "r_settle"}

AtBody(p) ==
    LET t == at[p].tx
        g == at[p].gen
    IN  /\ pc[p] \in BodySteps => journal[t].gen = g /\ at[p].kind # "none"
        /\ pc[p] \in UnpublishedSteps => settings.gen = at[p].cur.gen
        /\ pc[p] \in PublishedSteps => settings.gen = g
        /\ pc[p] = "backup" => journal[t].phase = "PREPARED"
        /\ pc[p] \in {"stage", "promote", "promoted"} =>
             journal[t].phase \in {"BACKUP_DURABLE", "GRAPH_STAGING", "GRAPH_VERIFIED"}
        /\ pc[p] \in {"backup", "stage", "promote", "promoted"} => ~journal[t].created
        /\ pc[p] \in {"backup", "stage"} /\ at[p].kind = "settings" => Resolves(g)
        /\ pc[p] \in {"promote", "promoted"} => g \in Gens /\ g # snap[t].gen
        /\ pc[p] = "promoted" => Whole(g)
        /\ pc[p] \in EvidencedSteps => Promoted(t) /\ Resolves(g)
        /\ pc[p] \in BodySteps \ {"promote"} => t \notin staging
        /\ pc[p] = "commit" => Good

AtRecovery(p) ==
    LET t == at[p].tx
    IN  /\ pc[p] \in RecoverySteps \ {"r_begin"} => settings.gen = at[p].cur.gen
        /\ pc[p] \in {"r_check", "r_rename"} => Promoted(t)
        /\ pc[p] \in CleaningSteps /\ at[p].todo # "PRESERVE_CONCURRENT" =>
             journal[t].phase = "PREPARED" \/ settings.gen = snap[t].gen
        /\ pc[p] \in CleaningSteps \ {"r_staging"} => t \notin staging
        /\ pc[p] \in {"r_gen", "r_gone"} => journal[t].created /\ at[p].cur.gen # journal[t].gen
        /\ pc[p] \in {"r_lkg", "r_settle"} /\ journal[t].created /\ settings.gen # journal[t].gen =>
             gens[journal[t].gen] = "none"
        /\ pc[p] = "r_settle" /\ ~degraded => Good

Annotation(p) ==
    /\ at[p].kind = "graph" => at[p].gen \in Gens
    /\ pc[p] \in BodySteps \union RecoverySteps => at[p].tx \in Incomplete
    /\ pc[p] \in {"reconcile", "body"} => Incomplete = {}
    /\ pc[p] \in {"p_rename", "r_rename"} /\ ~EditInWindow => settings = at[p].cur
    /\ AtBody(p)
    /\ AtRecovery(p)

ConfigInv == TypeOK /\ LockInv /\ OnDisk /\ \A p \in Procs : Annotation(p)
=============================================================================
