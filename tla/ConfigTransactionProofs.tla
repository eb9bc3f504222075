----------------------- MODULE ConfigTransactionProofs -----------------------
(***************************************************************************)
(* Proofs about ConfigTransaction, for every number of processes,          *)
(* generations, transactions, edits and faults.                            *)
(***************************************************************************)
EXTENDS ConfigTransaction, TLAPS

USE ConfigAssumption DEF Goes, At

-----------------------------------------------------------------------------
(* Who is inside the lock.                                                 *)

Inner == BodySteps \union RecoverySteps \union {"recover", "reconcile", "body", "release"}

\* Recovery, the command itself and a failing step leave the lock and its
\* reclaim alone and stay inside.
LEMMA InsideStays ==
    ASSUME TypeOK, NEW p \in Procs, Recovery(p) \/ Command(p) \/ Fails(p)
    PROVE  /\ UNCHANGED locks
           /\ pc[p] \in Inner \ {"release"}
           /\ \E l \in Inner : pc' = [pc EXCEPT ![p] = l]
<1> USE DEF Inner, BodySteps, RecoverySteps
<1>1. CASE Recovery(p)
    BY <1>1 DEF Recovery, RecoverPending, BeginRecovery, CheckRestore, RenameRestore, RemoveStaging,
       RemoveGeneration, GenerationGone, ReconcileRecovered, Settle, ReconcileFirst
<1>2. CASE Command(p)
    BY <1>2 DEF Command, Begin, Backup, Stage, Promote, RecordPromotion, CheckPublish, RenamePublish,
       RecordPublication, Smoke, RecordGood, Commit, OwnRecovery
<1>3. CASE Fails(p)
    BY <1>3 DEF Fails, OwnRecovery
<1> QED BY <1>1, <1>2, <1>3

LEMMA LockInit == Init => LockInv
BY DEF Init, LockInv, OneMutator, Reclaiming, Locked, BodySteps, RecoverySteps

LEMMA LockStepInv == TypeOK /\ LockInv /\ [Next]_vars => LockInv'
<1> SUFFICES ASSUME TypeOK, LockInv, [Next]_vars PROVE LockInv'
    OBVIOUS
<1>0. pc \in [Procs -> Places]
    BY DEF TypeOK
<1> USE DEF Places, LockInv, OneMutator, Reclaiming, Locked, BodySteps, RecoverySteps, locks
<1>1. ASSUME NEW p \in Procs, Plan(p) PROVE LockInv'
    BY <1>0, <1>1, ZenonT(60) DEF Plan, PlanGraph, PlanUninstall, PlanRollback, Start
<1>2. ASSUME NEW p \in Procs, Acquire(p) PROVE LockInv'
    BY <1>0, <1>2 DEF Acquire
<1>3. ASSUME NEW p \in Procs, MakeReclaim(p) PROVE LockInv'
    BY <1>0, <1>3 DEF MakeReclaim
<1>4. ASSUME NEW p \in Procs, InspectAgain(p) PROVE LockInv'
    BY <1>0, <1>4 DEF InspectAgain, StillStale
<1>5. ASSUME NEW p \in Procs, Archive(p) PROVE LockInv'
    BY <1>0, <1>5 DEF Archive
<1>6. ASSUME NEW p \in Procs, Claim(p) PROVE LockInv'
    BY <1>0, <1>6 DEF Claim
<1>7. ASSUME NEW p \in Procs, DropReclaim(p) PROVE LockInv'
    BY <1>0, <1>7 DEF DropReclaim
<1>8. ASSUME NEW p \in Procs, Release(p) PROVE LockInv'
    BY <1>0, <1>8 DEF Release
<1>9. ASSUME NEW p \in Procs, Released(p) PROVE LockInv'
    BY <1>0, <1>9 DEF Released
<1>10. ASSUME NEW p \in Procs, Recovery(p) \/ Command(p) \/ Fails(p) PROVE LockInv'
    BY <1>0, <1>10, InsideStays DEF Inner
<1>11. ASSUME NEW p \in Procs, Crash(p) PROVE LockInv'
    BY <1>0, <1>11 DEF Crash
<1>12. CASE Edit
    BY <1>12 DEF Edit
<1>13. CASE UNCHANGED vars
    BY <1>13 DEF vars
<1> QED BY <1>1, <1>2, <1>3, <1>4, <1>5, <1>6, <1>7, <1>8, <1>9, <1>10, <1>11, <1>12, <1>13
        DEF Next, Locking

\* A process that moves inside the lock is alone there.
LEMMA Alone ==
    ASSUME TypeOK, LockInv, NEW p \in Procs, pc[p] \in Locked
    PROVE  \A q \in Procs : q # p => pc[q] \notin Locked
BY DEF LockInv, OneMutator

-----------------------------------------------------------------------------
(* Types.                                                                  *)

\* What the files and a command start with.
LEMMA StartTypes ==
    NoSettings \in Settings /\ Nothing \in Works /\ NoLkg \in Records /\ NoJournal \in Journals
<1>1. NoSettings \in Settings
    BY DEF NoSettings, Settings, AnyGen
<1>2. NoGen \in AnyGen /\ 0 \in 0..MaxTx
    BY DEF AnyGen
<1>3. Nothing \in Works
    BY <1>1, <1>2 DEF Nothing, Works
<1>4. NoLkg \in Records
    BY <1>1, <1>2 DEF NoLkg, Records
<1>5. NoJournal \in Journals
    BY <1>1, <1>2 DEF NoJournal, Journals, Phases
<1> QED BY <1>1, <1>3, <1>4, <1>5

\* Settings with another generation are settings.
LEMMA WithType ==
    ASSUME NEW s \in Settings, NEW g \in AnyGen
    PROVE  With(s, g) \in Settings /\ With(s, g).gen = g /\ With(s, g).user = s.user
BY DEF With, Settings

\* A journal that is written again keeps its type.
LEMMA JournalTypes ==
    ASSUME NEW j \in Journals
    PROVE  /\ j.gen \in AnyGen /\ j.intended \in Settings
           /\ \A f \in Phases : [j EXCEPT !.phase = f] \in Journals
           /\ \A s \in {"ACTIVE", "RECOVERING"} \union TERMINAL : [j EXCEPT !.status = s] \in Journals
           /\ [j EXCEPT !.phase = "COMMITTED", !.status = "COMMITTED"] \in Journals
           /\ \A b \in BOOLEAN, i \in Settings :
                  [j EXCEPT !.phase = "GRAPH_PROMOTED", !.created = b, !.intended = i] \in Journals
BY DEF Journals, Phases, TERMINAL

\* So does the journal that createTransaction makes.
LEMMA NewJournalType ==
    ASSUME NEW g \in AnyGen
    PROVE  [NoJournal EXCEPT !.status = "ACTIVE", !.phase = "PREPARED", !.gen = g] \in Journals
BY StartTypes DEF Journals, Phases

\* What a command works on keeps its type.
LEMMA WorkTypes ==
    ASSUME NEW w \in Works
    PROVE  /\ w.gen \in AnyGen /\ w.cur \in Settings /\ w.strict \in BOOLEAN /\ w.first \in BOOLEAN
           /\ \A k \in {"none", "graph", "settings"}, g \in AnyGen, s \in Settings, f \in BOOLEAN :
                  [Nothing EXCEPT !.kind = k, !.gen = g, !.source = s, !.first = f] \in Works
           /\ \A t \in Txs, b \in BOOLEAN : [w EXCEPT !.tx = t, !.own = FALSE, !.strict = b] \in Works
           /\ \A s \in Settings, t \in Txs : [w EXCEPT !.cur = s, !.tx = t] \in Works
           /\ \A s \in Settings : [w EXCEPT !.cur = s] \in Works
           /\ \A s \in Settings,
                 d \in {"NOT_APPLICABLE", "RESTORE_SNAPSHOT", "UNCHANGED", "PRESERVE_CONCURRENT"} :
                  [w EXCEPT !.cur = s, !.todo = d] \in Works
           /\ \A b \in BOOLEAN : [w EXCEPT !.own = TRUE, !.strict = b] \in Works
<1> USE DEF Works
<1>0. \A t \in Txs : t \in 0..MaxTx
    BY DEF Txs
<1>1. w.gen \in AnyGen /\ w.cur \in Settings /\ w.strict \in BOOLEAN /\ w.first \in BOOLEAN
    OBVIOUS
<1>2. \A k \in {"none", "graph", "settings"}, g \in AnyGen, s \in Settings, f \in BOOLEAN :
          [Nothing EXCEPT !.kind = k, !.gen = g, !.source = s, !.first = f] \in Works
    BY StartTypes
<1>3. \A t \in Txs, b \in BOOLEAN : [w EXCEPT !.tx = t, !.own = FALSE, !.strict = b] \in Works
    BY <1>0
<1>4. \A s \in Settings, t \in Txs : [w EXCEPT !.cur = s, !.tx = t] \in Works
    BY <1>0
<1>5. \A s \in Settings : [w EXCEPT !.cur = s] \in Works
    OBVIOUS
<1>6. \A s \in Settings,
         d \in {"NOT_APPLICABLE", "RESTORE_SNAPSHOT", "UNCHANGED", "PRESERVE_CONCURRENT"} :
          [w EXCEPT !.cur = s, !.todo = d] \in Works
    OBVIOUS
<1>7. \A b \in BOOLEAN : [w EXCEPT !.own = TRUE, !.strict = b] \in Works
    OBVIOUS
<1> QED BY <1>1, <1>2, <1>3, <1>4, <1>5, <1>6, <1>7

LEMMA ConfigTypeInit == Init => TypeOK
<1> SUFFICES ASSUME Init PROVE TypeOK
    OBVIOUS
<1>1. pc \in [Procs -> Places] /\ at \in [Procs -> Works]
    BY StartTypes DEF Init, Places
<1>2. journal \in [Txs -> Journals] /\ snap \in [Txs -> Settings] /\ settings \in Settings /\ lkg \in Records
    BY StartTypes DEF Init
<1>3. gens \in [Gens -> {"none", "whole", "partial"}] /\ staging \subseteq Incomplete /\ faults \in 0..MaxFaults
    BY DEF Init
<1>4. emptied \in BOOLEAN /\ degraded \in BOOLEAN
    BY DEF Init
<1>5. lock \in Procs \union {NoProc, Dead} /\ reclaim \in Procs \union {NoProc, Dead}
    BY DEF Init
<1> QED BY <1>1, <1>2, <1>3, <1>4, <1>5 DEF TypeOK

\* Where a process can go.
LEMMA PlacesAre ==
    /\ Locked \subseteq Places /\ BodySteps \subseteq Locked /\ RecoverySteps \subseteq Locked
    /\ {"recover", "reconcile", "body", "release", "reclaimed"} \subseteq Locked
    /\ {"idle", "lock", "reclaim", "inspect", "archive", "claim", "giveup", "released"} \subseteq Places
BY DEF Places, Locked

\* Every plan starts a command; a graph plan has a generation.
LEMMA PlanStarts ==
    ASSUME TypeOK, NEW p \in Procs, Plan(p)
    PROVE  \E k \in {"none", "graph", "settings"}, g \in AnyGen, f \in BOOLEAN :
               Start(p, k, g, f) /\ (k = "graph" => g \in Gens)
<1>1. CASE \E g \in Gens : PlanGraph(p, g)
    BY <1>1 DEF PlanGraph, AnyGen
<1>2. CASE PlanUninstall(p)
    BY <1>2 DEF PlanUninstall, AnyGen
<1>3. ASSUME NEW t \in Txs, PlanRollback(p, t)
      PROVE  \E k \in {"none", "settings"}, g \in AnyGen, f \in BOOLEAN : Start(p, k, g, f)
    <2>1. snap[t].gen \in AnyGen
        BY DEF TypeOK, Settings
    <2> QED BY <1>3, <2>1 DEF PlanRollback
<1> QED BY <1>1, <1>2, <1>3 DEF Plan

\* The records that are written have their types.
LEMMA TypeStep ==
    ASSUME ConfigInv, [Next]_vars, staging' \subseteq Incomplete'
    PROVE  TypeOK'
<1> USE StartTypes, PlacesAre
<1>0. TypeOK /\ \A p \in Procs : Annotation(p)
    BY DEF ConfigInv
<1>a. \A p \in Procs : at[p] \in Works /\ at[p].gen \in AnyGen /\ at[p].cur \in Settings
    BY <1>0, WorkTypes DEF TypeOK
<1>b. \A p \in Procs : pc[p] \in BodySteps \union RecoverySteps => at[p].tx \in Txs /\ journal[at[p].tx] \in Journals
    BY <1>0 DEF TypeOK, Annotation, Incomplete
<1> USE DEF TypeOK, disk, locks
<1>1. ASSUME NEW p \in Procs, Plan(p) PROVE TypeOK'
    <2>1. PICK k \in {"none", "graph", "settings"}, g \in AnyGen, f \in BOOLEAN : Start(p, k, g, f)
        BY <1>0, <1>1, PlanStarts
    <2>2. at[p] \in Works /\ settings \in Settings
        BY <1>0
    <2>3. [Nothing EXCEPT !.kind = k, !.gen = g, !.source = settings, !.first = f] \in Works
        BY <2>2, WorkTypes
    <2> QED BY <1>0, <2>1, <2>3 DEF Start
<1>2. ASSUME NEW p \in Procs, Locking(p) PROVE TypeOK'
    <2>1. CASE Acquire(p)
        BY <1>0, <2>1 DEF Acquire
    <2>2. CASE MakeReclaim(p)
        BY <1>0, <2>2 DEF MakeReclaim
    <2>3. CASE InspectAgain(p)
        BY <1>0, <2>3 DEF InspectAgain
    <2>4. CASE Archive(p)
        BY <1>0, <2>4 DEF Archive
    <2>5. CASE Claim(p)
        BY <1>0, <2>5 DEF Claim
    <2>6. CASE DropReclaim(p)
        BY <1>0, <2>6 DEF DropReclaim
    <2>7. CASE Release(p)
        BY <1>0, <2>7 DEF Release
    <2>8. CASE Released(p)
        BY <1>0, <2>8 DEF Released
    <2> QED BY <1>2, <2>1, <2>2, <2>3, <2>4, <2>5, <2>6, <2>7, <2>8 DEF Locking
<1>3. ASSUME NEW p \in Procs, Crash(p) PROVE TypeOK'
    BY <1>0, <1>3 DEF Crash
<1>4. CASE Edit
    <2>1. settings' \in Settings
        BY <1>0, <1>4 DEF Edit, Settings
    <2> QED BY <1>0, <1>4, <2>1 DEF Edit
<1>5. CASE UNCHANGED vars
    BY <1>0, <1>5 DEF vars
<1>6. ASSUME NEW p \in Procs, RecoverPending(p) PROVE TypeOK'
    <2>1. \A t \in Txs : [at[p] EXCEPT !.tx = t, !.own = FALSE, !.strict = at[p].first] \in Works
        BY <1>a, WorkTypes
    <2>2. at' \in [Procs -> Works]
        <3>1. \/ at' = at
              \/ \E t \in Txs : at' = [at EXCEPT ![p] = [@ EXCEPT !.tx = t, !.own = FALSE,
                                                                  !.strict = at[p].first]]
            BY <1>6 DEF RecoverPending
        <3>2. at \in [Procs -> Works]
            BY <1>0
        <3> QED BY <2>1, <3>1, <3>2
    <2>3. pc' \in [Procs -> Places]
        BY <1>0, <1>6 DEF RecoverPending, RecoverySteps
    <2> QED BY <1>0, <1>6, <2>2, <2>3 DEF RecoverPending
<1>7. ASSUME NEW p \in Procs, BeginRecovery(p) PROVE TypeOK'
    <2>1. CASE Disposition(at[p].tx) = "REFUSED"
        BY <1>0, <1>7, <2>1 DEF BeginRecovery
    <2>2. CASE Disposition(at[p].tx) # "REFUSED"
        <3>1. Disposition(at[p].tx) \in {"NOT_APPLICABLE", "RESTORE_SNAPSHOT", "UNCHANGED", "PRESERVE_CONCURRENT"}
            BY <2>2 DEF Disposition
        <3>2. [at[p] EXCEPT !.cur = settings, !.todo = Disposition(at[p].tx)] \in Works
            BY <1>0, <1>a, <3>1, WorkTypes
        <3>3. [journal[at[p].tx] EXCEPT !.status = "RECOVERING"] \in Journals
            BY <1>7, <1>b, JournalTypes DEF BeginRecovery, RecoverySteps
        <3>4. /\ journal' = [journal EXCEPT ![at[p].tx] = [@ EXCEPT !.status = "RECOVERING"]]
              /\ at' = [at EXCEPT ![p] = [@ EXCEPT !.cur = settings, !.todo = Disposition(at[p].tx)]]
              /\ \E l \in {"r_check", "r_staging"} : pc' = [pc EXCEPT ![p] = l]
            BY <1>7, <2>2 DEF BeginRecovery
        <3>5. pc' \in [Procs -> Places]
            BY <1>0, <3>4 DEF RecoverySteps
        <3>6. journal' \in [Txs -> Journals] /\ at' \in [Procs -> Works]
            BY <1>0, <3>2, <3>3, <3>4
        <3> QED BY <1>0, <1>7, <3>5, <3>6 DEF BeginRecovery
    <2> QED BY <2>1, <2>2
<1>8. ASSUME NEW p \in Procs, CheckRestore(p) PROVE TypeOK'
    BY <1>0, <1>8 DEF CheckRestore, RecoverySteps
<1>9. ASSUME NEW p \in Procs, RenameRestore(p) PROVE TypeOK'
    <2>1. at[p].tx \in Txs
        BY <1>9, <1>b DEF RenameRestore, RecoverySteps
    <2>2. snap[at[p].tx].gen \in AnyGen
        BY <1>0, <2>1 DEF Settings
    <2>3. With(at[p].cur, snap[at[p].tx].gen) \in Settings
        BY <1>a, <2>2, WithType
    <2>4. [at[p] EXCEPT !.cur = With(at[p].cur, snap[at[p].tx].gen)] \in Works
        BY <1>a, <2>3, WorkTypes
    <2> QED BY <1>0, <1>9, <2>3, <2>4 DEF RenameRestore, RecoverySteps
<1>10. ASSUME NEW p \in Procs, RemoveStaging(p) PROVE TypeOK'
    BY <1>0, <1>10 DEF RemoveStaging, RecoverySteps
<1>11. ASSUME NEW p \in Procs, RemoveGeneration(p) PROVE TypeOK'
    BY <1>0, <1>11 DEF RemoveGeneration, RecoverySteps
<1>12. ASSUME NEW p \in Procs, GenerationGone(p) PROVE TypeOK'
    BY <1>0, <1>12 DEF GenerationGone, RecoverySteps
<1>c. \A g \in AnyGen : [on |-> TRUE, settings |-> settings, gen |-> g] \in Records
    BY <1>0 DEF Records
<1>13. Reconciled \subseteq Records
    <2>1. settings.gen \in AnyGen /\ lkg \in Records
        BY <1>0 DEF Settings
    <2> QED BY <1>c, <2>1 DEF Reconciled
<1>14. ASSUME NEW p \in Procs, ReconcileRecovered(p) PROVE TypeOK'
    <2>1. degraded' \in BOOLEAN /\ lkg' \in Records
        BY <1>0, <1>13, <1>14 DEF ReconcileRecovered
    <2> QED BY <1>0, <1>14, <2>1 DEF ReconcileRecovered, RecoverySteps
<1>15. ASSUME NEW p \in Procs, ReconcileFirst(p) PROVE TypeOK'
    <2>1. degraded' \in BOOLEAN /\ lkg' \in Records
        BY <1>0, <1>13, <1>15 DEF ReconcileFirst
    <2> QED BY <1>0, <1>15, <2>1 DEF ReconcileFirst
<1>16. ASSUME NEW p \in Procs, Settle(p) PROVE TypeOK'
    <2>1. \A s \in TERMINAL : [journal[at[p].tx] EXCEPT !.status = s] \in Journals
        BY <1>16, <1>b, JournalTypes DEF Settle, RecoverySteps
    <2>2. journal' \in [Txs -> Journals]
        BY <1>0, <1>16, <2>1 DEF Settle, TERMINAL
    <2> QED BY <1>0, <1>16, <2>2 DEF Settle
<1>17. ASSUME NEW p \in Procs, Begin(p) PROVE TypeOK'
    <2>1. CASE UNCHANGED <<journal, at>> /\ Goes(p, "release")
        BY <1>0, <1>17, <2>1 DEF Begin
    <2>2. ASSUME NEW t \in Txs,
                 journal' = [journal EXCEPT ![t] = [NoJournal EXCEPT
                                 !.status = "ACTIVE", !.phase = "PREPARED", !.gen = at[p].gen]],
                 at' = [at EXCEPT ![p] = [@ EXCEPT !.cur = settings, !.tx = t]], Goes(p, "backup")
          PROVE  TypeOK'
        <3>1. journal' \in [Txs -> Journals]
            BY <1>0, <1>a, <2>2, NewJournalType
        <3>2. at' \in [Procs -> Works]
            BY <1>0, <1>a, <2>2, WorkTypes
        <3> QED BY <1>0, <1>17, <2>2, <3>1, <3>2 DEF Begin, BodySteps
    <2> QED BY <1>17, <2>1, <2>2 DEF Begin
<1>18. ASSUME NEW p \in Procs, pc[p] \in BodySteps, NEW f \in Phases, Phase(p, f)
       PROVE  journal' \in [Txs -> Journals]
    BY <1>0, <1>18, <1>b, JournalTypes DEF Phase
<1>19. ASSUME NEW p \in Procs, pc[p] \in BodySteps, NEW b \in BOOLEAN, Evidence(p, b)
       PROVE  journal' \in [Txs -> Journals]
    <2>1. With(at[p].cur, at[p].gen) \in Settings
        BY <1>a, WithType
    <2>2. [journal[at[p].tx] EXCEPT !.phase = "GRAPH_PROMOTED", !.created = b,
                                    !.intended = With(at[p].cur, at[p].gen)] \in Journals
        BY <1>19, <1>b, <2>1, JournalTypes
    <2> QED BY <1>0, <1>19, <2>2 DEF Evidence
<1>20. ASSUME NEW p \in Procs, NEW b \in BOOLEAN, OwnRecovery(p, b)
       PROVE  at' \in [Procs -> Works] /\ pc' \in [Procs -> Places]
    BY <1>0, <1>20, <1>a, WorkTypes DEF OwnRecovery, RecoverySteps
<1>21. ASSUME NEW p \in Procs, Backup(p) PROVE TypeOK'
    <2>1. journal' \in [Txs -> Journals]
        BY <1>18, <1>21 DEF Backup, BodySteps, Phases
    <2> QED BY <1>0, <1>21, <2>1 DEF Backup, BodySteps
<1>22. ASSUME NEW p \in Procs, Stage(p) PROVE TypeOK'
    <2>1. journal' \in [Txs -> Journals]
        BY <1>18, <1>19, <1>22 DEF Stage, BodySteps, Phases
    <2>2. at' \in [Procs -> Works] /\ pc' \in [Procs -> Places]
        BY <1>0, <1>20, <1>22 DEF Stage, BodySteps
    <2> QED BY <1>0, <1>22, <2>1, <2>2 DEF Stage
<1>23. ASSUME NEW p \in Procs, Promote(p) PROVE TypeOK'
    <2>1. journal' \in [Txs -> Journals]
        BY <1>18, <1>23 DEF Promote, BodySteps, Phases
    <2> QED BY <1>0, <1>23, <2>1 DEF Promote, BodySteps
<1>24. ASSUME NEW p \in Procs, RecordPromotion(p) PROVE TypeOK'
    <2>1. journal' \in [Txs -> Journals]
        BY <1>19, <1>24 DEF RecordPromotion, BodySteps
    <2> QED BY <1>0, <1>24, <2>1 DEF RecordPromotion, BodySteps
<1>25. ASSUME NEW p \in Procs, CheckPublish(p) PROVE TypeOK'
    <2>1. at' \in [Procs -> Works] /\ pc' \in [Procs -> Places]
        BY <1>0, <1>20, <1>25 DEF CheckPublish, BodySteps
    <2> QED BY <1>0, <1>25, <2>1 DEF CheckPublish
<1>26. ASSUME NEW p \in Procs, RenamePublish(p) PROVE TypeOK'
    <2>1. With(at[p].cur, at[p].gen) \in Settings
        BY <1>a, WithType
    <2> QED BY <1>0, <1>26, <2>1 DEF RenamePublish, BodySteps
<1>27. ASSUME NEW p \in Procs, RecordPublication(p) \/ Smoke(p) PROVE TypeOK'
    <2>1. journal' \in [Txs -> Journals]
        BY <1>18, <1>27 DEF RecordPublication, Smoke, BodySteps, Phases
    <2> QED BY <1>0, <1>27, <2>1 DEF RecordPublication, Smoke, BodySteps
<1>28. ASSUME NEW p \in Procs, RecordGood(p) PROVE TypeOK'
    <2>1. at' \in [Procs -> Works] /\ pc' \in [Procs -> Places]
        BY <1>0, <1>20, <1>28 DEF RecordGood, BodySteps
    <2>2. lkg' \in Records
        BY <1>0, <1>28, <1>a, <1>c DEF RecordGood
    <2>3. degraded' \in BOOLEAN
        BY <1>0, <1>28 DEF RecordGood
    <2> QED BY <1>0, <1>28, <2>1, <2>2, <2>3 DEF RecordGood
<1>29. ASSUME NEW p \in Procs, Commit(p) PROVE TypeOK'
    <2>1. journal' \in [Txs -> Journals]
        BY <1>0, <1>29, <1>b, JournalTypes DEF Commit, BodySteps
    <2> QED BY <1>0, <1>29, <2>1 DEF Commit
<1>30. ASSUME NEW p \in Procs, Fails(p) PROVE TypeOK'
    <2>1. at' \in [Procs -> Works] /\ pc' \in [Procs -> Places]
        BY <1>0, <1>20, <1>30 DEF Fails, RecoverySteps
    <2>2. degraded' \in BOOLEAN
        BY <1>0, <1>30 DEF Fails
    <2>3. faults' \in 0..MaxFaults
        BY <1>0, <1>30 DEF Fails
    <2> QED BY <1>0, <1>30, <2>1, <2>2, <2>3 DEF Fails
<1> QED BY <1>1, <1>2, <1>3, <1>4, <1>5, <1>6, <1>7, <1>8, <1>9, <1>10, <1>11, <1>12, <1>14, <1>15,
           <1>16, <1>17, <1>21, <1>22, <1>23, <1>24, <1>25, <1>26, <1>27, <1>28, <1>29, <1>30
        DEF Next, Recovery, Command

-----------------------------------------------------------------------------
(* What the files say of each other, and what the process inside knows.    *)

Annotated == BodySteps \union RecoverySteps \union {"reconcile", "body"}

LEMMA ConfigInit == Init => ConfigInv
<1> SUFFICES ASSUME Init PROVE ConfigInv
    OBVIOUS
<1>1. Incomplete = {}
    BY DEF Init, Incomplete, NoJournal
<1>2. OnDisk
    BY <1>1 DEF Init, OnDisk, BegunTogether, GoodNamesItself, SettingsResolve, GoodAtRest,
       NoJournal, NoLkg, NoSettings
<1>3. \A p \in Procs : Annotation(p)
    BY DEF Init, Annotation, AtBody, AtRecovery, Nothing, BodySteps, RecoverySteps,
       UnpublishedSteps, PublishedSteps, EvidencedSteps, CleaningSteps
<1> QED BY <1>2, <1>3, ConfigTypeInit, LockInit DEF ConfigInv

\* A process that is at none of the annotated steps has nothing to know.
LEMMA Away ==
    ASSUME NEW p, pc'[p] \notin Annotated, at'[p].kind = "graph" => at'[p].gen \in Gens
    PROVE  Annotation(p)'
BY DEF Annotated, Annotation, AtBody, AtRecovery, BodySteps, RecoverySteps,
       UnpublishedSteps, PublishedSteps, EvidencedSteps, CleaningSteps

\* What the process inside knows stays true when nothing of it changes.
LEMMA Kept ==
    ASSUME NEW p \in Procs, Annotation(p), UNCHANGED <<disk, degraded>>,
           pc'[p] = pc[p], at'[p] = at[p]
    PROVE  Annotation(p)'
BY DEF disk, Annotation, AtBody, AtRecovery, Incomplete, Promoted, Resolves, Whole, Good

\* Steps outside the lock leave the files alone.
LEMMA DiskKept ==
    ASSUME ConfigInv, UNCHANGED <<disk, degraded>>
    PROVE  OnDisk' /\ staging' \subseteq Incomplete'
BY DEF ConfigInv, TypeOK, disk, OnDisk, OpenTx, Incomplete, Promoted, Resolves, Whole, BegunTogether,
       GoodNamesItself, SettingsResolve, GoodAtRest

LEMMA OutsideStep ==
    ASSUME ConfigInv, NEW p \in Procs, Plan(p) \/ Locking(p) \/ Crash(p)
    PROVE  OnDisk' /\ staging' \subseteq Incomplete' /\ \A q \in Procs : Annotation(q)'
<1>0. pc \in [Procs -> Places] /\ at \in [Procs -> Works] /\ \A q \in Procs : Annotation(q)
    BY DEF ConfigInv, TypeOK
<1>1. UNCHANGED <<disk, degraded>>
    BY DEF Plan, PlanGraph, PlanUninstall, PlanRollback, Start, Locking, Acquire, MakeReclaim,
       InspectAgain, Archive, Claim, DropReclaim, Release, Released, Crash, locks
<1>2. \A q \in Procs : q # p => pc'[q] = pc[q] /\ at'[q] = at[q]
    BY <1>0 DEF Plan, PlanGraph, PlanUninstall, PlanRollback, Start, Locking, Acquire, MakeReclaim,
       InspectAgain, Archive, Claim, DropReclaim, Release, Released, Crash
<1>3. pc'[p] \notin Annotated
    BY <1>0, ZenonT(60) DEF Plan, PlanGraph, PlanUninstall, PlanRollback, Start, Locking, Acquire, MakeReclaim,
       InspectAgain, Archive, Claim, DropReclaim, Release, Released, Crash, Annotated, BodySteps,
       RecoverySteps
<1>4. at'[p].kind = "graph" => at'[p].gen \in Gens
    <2>1. at[p].kind = "graph" => at[p].gen \in Gens
        BY <1>0 DEF Annotation
    <2>2. at'[p] \in {at[p], Nothing} => (at'[p].kind = "graph" => at'[p].gen \in Gens)
        BY <2>1 DEF Nothing
    <2>3. CASE Locking(p) \/ Crash(p)
        <3>1. at'[p] \in {at[p], Nothing}
            BY <1>0, <2>3 DEF Locking, Acquire, MakeReclaim, InspectAgain, Archive, Claim, DropReclaim,
               Release, Released, Crash
        <3> QED BY <2>2, <3>1
    <2>4. CASE Plan(p)
        <3>1. PICK k \in {"none", "graph", "settings"}, g \in AnyGen, f \in BOOLEAN :
                  Start(p, k, g, f) /\ (k = "graph" => g \in Gens)
            BY <2>4, PlanStarts DEF ConfigInv
        <3>2. at'[p] = [Nothing EXCEPT !.kind = k, !.gen = g, !.source = settings, !.first = f]
            BY <1>0, <3>1 DEF Start
        <3>3. at'[p].kind = k /\ at'[p].gen = g
            BY <3>2 DEF Nothing
        <3> QED BY <3>1, <3>3
    <2> QED BY <2>3, <2>4
<1>5. Annotation(p)'
    BY <1>3, <1>4, Away
<1>6. \A q \in Procs : q # p => Annotation(q)'
    BY <1>0, <1>1, <1>2, Kept
<1> QED BY <1>1, <1>5, <1>6, DiskKept

LEMMA EditStep ==
    ASSUME ConfigInv, Edit
    PROVE  OnDisk' /\ staging' \subseteq Incomplete' /\ \A q \in Procs : Annotation(q)'
<1>0. settings' = [settings EXCEPT !.user = @ + 1] /\ settings \in Settings
    BY DEF Edit, ConfigInv, TypeOK
<1>1. settings'.gen = settings.gen
    BY <1>0 DEF Settings
<1>2. UNCHANGED <<lkg, journal, snap, gens, staging, pc, at, degraded>>
    BY DEF Edit
<1>3. OnDisk' /\ staging' \subseteq Incomplete'
    BY <1>1, <1>2 DEF ConfigInv, TypeOK, OnDisk, OpenTx, Incomplete, Promoted, Resolves, Whole,
       BegunTogether, GoodNamesItself, SettingsResolve, GoodAtRest
<1>4. ASSUME NEW q \in Procs PROVE Annotation(q)'
    <2>1. Annotation(q)
        BY DEF ConfigInv
    <2>2. pc[q] \in {"p_rename", "r_rename"} => EditInWindow
        BY DEF Edit
    <2>3. AtBody(q)' /\ AtRecovery(q)'
        BY <1>1, <1>2, <2>1 DEF Annotation, AtBody, AtRecovery, Promoted, Resolves, Whole, Good
    <2> QED BY <1>2, <2>1, <2>2, <2>3 DEF Annotation, Incomplete
<1> QED BY <1>3, <1>4

\* The process at a step of a transaction works on the only open one.
LEMMA Working ==
    ASSUME ConfigInv, NEW p \in Procs, pc[p] \in BodySteps \union RecoverySteps
    PROVE  /\ at[p].tx \in Txs /\ Incomplete = {at[p].tx} /\ staging \subseteq {at[p].tx}
           /\ journal \in [Txs -> Journals] /\ journal[at[p].tx] \in Journals
           /\ journal[at[p].tx].status \in {"ACTIVE", "RECOVERING"}
           /\ journal[at[p].tx].phase # "none"
           /\ OpenTx(at[p].tx)
<1>1. at[p].tx \in Incomplete /\ TypeOK /\ OnDisk
    BY DEF ConfigInv, Annotation
<1>2. Incomplete = {at[p].tx}
    BY <1>1 DEF OnDisk
<1>3. at[p].tx \in Txs /\ journal[at[p].tx].status \in {"ACTIVE", "RECOVERING"}
    BY <1>1 DEF Incomplete
<1> QED BY <1>1, <1>2, <1>3 DEF TypeOK, OnDisk, BegunTogether

\* The files of an open transaction are sound when these are.
LEMMA StillOpen ==
    ASSUME NEW t \in Txs, Incomplete' = {t}, BegunTogether', OpenTx(t)', GoodNamesItself',
           SettingsResolve'
    PROVE  OnDisk'
BY DEF OnDisk, GoodAtRest

\* The journal of the open transaction is written again and leaves it open.
LEMMA Rewritten ==
    ASSUME NEW t \in Txs, NEW j, Incomplete = {t}, BegunTogether, journal \in [Txs -> Journals],
           journal' = [journal EXCEPT ![t] = j],
           j.status \in {"ACTIVE", "RECOVERING"}, j.phase # "none"
    PROVE  Incomplete' = {t} /\ BegunTogether' /\ journal'[t] = j
BY DEF Incomplete, BegunTogether

\* The processes outside the lock know nothing, whatever the one inside does.
LEMMA OthersAway ==
    ASSUME ConfigInv, NEW p \in Procs, pc[p] \in Locked, NEW l, pc' = [pc EXCEPT ![p] = l],
           \A q \in Procs : q # p => at'[q] = at[q], Annotation(p)'
    PROVE  \A q \in Procs : Annotation(q)'
<1>1. ASSUME NEW q \in Procs, q # p PROVE Annotation(q)'
    <2>1. pc'[q] = pc[q] /\ at'[q] = at[q]
        BY <1>1 DEF ConfigInv, TypeOK
    <2>2. pc[q] \notin Locked
        BY <1>1, Alone DEF ConfigInv
    <2>3. pc'[q] \notin Annotated
        BY <2>1, <2>2 DEF Annotated, Locked
    <2>4. at[q].kind = "graph" => at[q].gen \in Gens
        BY <1>1 DEF ConfigInv, Annotation
    <2> QED BY <2>1, <2>3, <2>4, Away
<1> QED BY <1>1

-----------------------------------------------------------------------------
(* Recovery, step by step.                                                 *)

USE DEF BodySteps, RecoverySteps, UnpublishedSteps, PublishedSteps, EvidencedSteps, CleaningSteps

\* What the step of the process inside must leave.
Leaves(p) == OnDisk' /\ staging' \subseteq Incomplete' /\ Annotation(p)'

LEMMA RecoverPendingKeeps ==
    ASSUME ConfigInv, NEW p \in Procs, RecoverPending(p)
    PROVE  Leaves(p)
<1>1. UNCHANGED <<disk, degraded>>
    BY DEF RecoverPending
<1>2. OnDisk' /\ staging' \subseteq Incomplete'
    BY <1>1, DiskKept
<1>3. CASE Incomplete = {}
    BY <1>1, <1>2, <1>3 DEF Leaves, RecoverPending, ConfigInv, TypeOK, Annotation, AtBody, AtRecovery, Incomplete, disk
<1>4. CASE Incomplete # {}
    <2>1. PICK t \in Incomplete : at' = [at EXCEPT ![p] = [@ EXCEPT !.tx = t, !.own = FALSE,
                                                    !.strict = at[p].first]]
        BY <1>4 DEF RecoverPending, First
    <2>2. /\ at'[p].tx = t /\ at'[p].kind = at[p].kind /\ at'[p].gen = at[p].gen
        BY <2>1 DEF ConfigInv, TypeOK, Works
    <2>3. pc'[p] = "r_begin" /\ t \in Incomplete'
        BY <1>1, <1>4 DEF RecoverPending, ConfigInv, TypeOK, Incomplete, disk
    <2> QED BY <1>2, <2>2, <2>3 DEF Leaves, ConfigInv, Annotation, AtBody, AtRecovery
<1> QED BY <1>2, <1>3, <1>4 DEF Leaves

\* A command that gives up has only the lock to give back.
LEMMA GivesUp ==
    ASSUME ConfigInv, NEW p \in Procs, UNCHANGED <<disk, degraded, at>>,
           pc' = [pc EXCEPT ![p] = "release"]
    PROVE  Leaves(p)
<1>1. pc'[p] \notin Annotated /\ at'[p] = at[p]
    BY DEF ConfigInv, TypeOK, Annotated
<1>2. Annotation(p)'
    BY <1>1, Away DEF ConfigInv, Annotation
<1> QED BY <1>2, DiskKept DEF Leaves

LEMMA BeginRecoveryKeeps ==
    ASSUME ConfigInv, NEW p \in Procs, BeginRecovery(p)
    PROVE  Leaves(p)
<1> DEFINE t == at[p].tx
           d == Disposition(t)
<1>0. TypeOK /\ OnDisk /\ Annotation(p) /\ pc[p] = "r_begin"
    BY DEF ConfigInv, BeginRecovery
<1>1. CASE d = "REFUSED"
    BY <1>1, GivesUp DEF BeginRecovery, disk
<1>2. CASE d # "REFUSED"
    <2>1. /\ journal' = [journal EXCEPT ![t] = [@ EXCEPT !.status = "RECOVERING"]]
          /\ at' = [at EXCEPT ![p] = [@ EXCEPT !.cur = settings, !.todo = d]]
          /\ pc' = [pc EXCEPT ![p] = IF d = "RESTORE_SNAPSHOT" THEN "r_check" ELSE "r_staging"]
          /\ UNCHANGED <<settings, lkg, snap, gens, staging, degraded>>
        BY <1>2 DEF BeginRecovery
    <2>2. /\ t \in Txs /\ Incomplete = {t} /\ staging \subseteq {t} /\ OpenTx(t)
          /\ journal \in [Txs -> Journals] /\ journal[t].phase # "none"
        BY <1>0, Working
    <2>3. /\ journal'[t].status = "RECOVERING" /\ journal'[t].phase = journal[t].phase
          /\ journal'[t].gen = journal[t].gen /\ journal'[t].created = journal[t].created
        BY <2>1, <2>2 DEF Journals
    <2>4. Incomplete' = {t} /\ BegunTogether'
        BY <1>0, <2>1, <2>2, <2>3 DEF Incomplete, BegunTogether, OnDisk
    <2>5. OpenTx(t)' /\ GoodNamesItself' /\ SettingsResolve'
        BY <1>0, <2>1, <2>2, <2>3, SMTT(30) DEF OpenTx, Promoted, Resolves, Whole, OnDisk, GoodNamesItself, SettingsResolve
    <2>6. OnDisk' /\ staging' \subseteq Incomplete'
        BY <2>1, <2>2, <2>4, <2>5, StillOpen
    <2>7. /\ at'[p].cur = settings /\ at'[p].todo = d /\ at'[p].tx = t
          /\ at'[p].kind = at[p].kind /\ at'[p].gen = at[p].gen
        BY <1>0, <2>1 DEF TypeOK, Works
    <2>8. pc'[p] = IF d = "RESTORE_SNAPSHOT" THEN "r_check" ELSE "r_staging"
        BY <1>0, <2>1 DEF TypeOK
    <2>9. d = "RESTORE_SNAPSHOT" => Promoted(at[p].tx)'
        BY <2>3, <2>7 DEF Disposition, Promoted
    <2>10. d # "PRESERVE_CONCURRENT" /\ d # "RESTORE_SNAPSHOT" =>
               journal'[t].phase = "PREPARED" \/ settings'.gen = snap'[t].gen
        <3>1. journal[t].phase \in Phases
            BY <2>2 DEF Journals
        <3>2. CASE ~Promoted(t) /\ journal[t].phase # "COMMITTED"
            BY <2>1, <2>2, <2>3, <3>1, <3>2 DEF Promoted, Phases, OpenTx
        <3>3. CASE Promoted(t)
            BY <1>2, <2>1, <3>3 DEF Disposition
        <3> QED BY <3>2, <3>3 DEF Promoted
    <2>11. Annotation(p)'
        <3> HIDE DEF t, d
        <3>1. AtBody(p)'
            BY <2>8 DEF AtBody
        <3>2. AtRecovery(p)'
            BY <2>1, <2>7, <2>8, <2>9, <2>10 DEF AtRecovery
        <3> QED BY <1>0, <2>4, <2>7, <2>8, <3>1, <3>2 DEF Annotation
    <2> QED BY <2>6, <2>11 DEF Leaves
<1> QED BY <1>1, <1>2

LEMMA CheckRestoreKeeps ==
    ASSUME ConfigInv, NEW p \in Procs, CheckRestore(p)
    PROVE  Leaves(p)
<1>0. TypeOK /\ Annotation(p) /\ pc[p] = "r_check" /\ UNCHANGED <<disk, degraded, at>>
    BY DEF ConfigInv, CheckRestore
<1>1. CASE ~SameSettings(p)
    BY <1>0, <1>1, GivesUp DEF CheckRestore
<1>2. CASE SameSettings(p)
    <2>1. pc'[p] = "r_rename"
        BY <1>0, <1>2 DEF CheckRestore, TypeOK
    <2>2. Annotation(p)'
        BY <1>0, <1>2, <2>1 DEF Annotation, AtBody, AtRecovery, SameSettings, disk, Incomplete, Promoted
    <2> QED BY <1>0, <2>2, DiskKept DEF Leaves
<1> QED BY <1>1, <1>2

LEMMA RenameRestoreKeeps ==
    ASSUME ConfigInv, NEW p \in Procs, RenameRestore(p)
    PROVE  Leaves(p)
<1> DEFINE t == at[p].tx
<1>0. TypeOK /\ OnDisk /\ Annotation(p) /\ pc[p] = "r_rename"
    BY DEF ConfigInv, RenameRestore
<1>1. /\ settings' = With(at[p].cur, snap[t].gen)
      /\ at' = [at EXCEPT ![p] = [@ EXCEPT !.cur = settings']]
      /\ pc' = [pc EXCEPT ![p] = "r_staging"]
      /\ UNCHANGED <<lkg, journal, snap, gens, staging, degraded>>
    BY DEF RenameRestore
<1>2. t \in Txs /\ Incomplete = {t} /\ staging \subseteq {t} /\ OpenTx(t) /\ Promoted(t)
    BY <1>0, Working DEF Annotation, AtRecovery
<1>3. settings'.gen = snap[t].gen
    <2>1. at[p].cur \in Settings /\ snap[t].gen \in AnyGen
        BY <1>0, <1>2 DEF TypeOK, Works, Settings
    <2> QED BY <1>1, <2>1, WithType
<1>4. Incomplete' = {t} /\ BegunTogether'
    BY <1>0, <1>1, <1>2 DEF Incomplete, OnDisk, BegunTogether
<1>5. OpenTx(t)' /\ GoodNamesItself' /\ SettingsResolve'
    <2>1. Resolves(snap[t].gen) /\ journal[t].phase # "PREPARED"
        BY <1>2 DEF OpenTx, Promoted
    <2>2. SettingsResolve'
        BY <1>1, <1>3, <2>1 DEF SettingsResolve, Resolves, Whole
    <2>3. GoodNamesItself'
        BY <1>0, <1>1 DEF OnDisk, GoodNamesItself
    <2>4. Resolves(snap[t].gen)' /\ Promoted(t)'
        BY <1>1, <1>2, <2>1 DEF Resolves, Whole, Promoted
    <2>5. OpenTx(t)'
        BY <1>1, <1>2, <1>3, <2>4 DEF OpenTx, Promoted
    <2> QED BY <2>2, <2>3, <2>5
<1>6. OnDisk' /\ staging' \subseteq Incomplete'
    BY <1>1, <1>2, <1>4, <1>5, StillOpen
<1>7. /\ at'[p].cur = settings' /\ at'[p].tx = t /\ at'[p].kind = at[p].kind /\ at'[p].gen = at[p].gen
      /\ pc'[p] = "r_staging"
    BY <1>0, <1>1 DEF TypeOK, Works
<1>8. Annotation(p)'
    <2> HIDE DEF t
    <2> QED BY <1>0, <1>1, <1>3, <1>4, <1>7 DEF Annotation, AtBody, AtRecovery
<1> QED BY <1>6, <1>8 DEF Leaves

LEMMA RemoveStagingKeeps ==
    ASSUME ConfigInv, NEW p \in Procs, RemoveStaging(p)
    PROVE  Leaves(p)
<1> DEFINE t == at[p].tx
<1>0. TypeOK /\ OnDisk /\ Annotation(p) /\ pc[p] = "r_staging"
    BY DEF ConfigInv, RemoveStaging
<1>1. /\ staging' = staging \ {t} /\ UNCHANGED <<settings, lkg, journal, snap, gens, at, degraded>>
      /\ pc' = [pc EXCEPT ![p] = IF Unreferenced(p) THEN "r_gen" ELSE "r_lkg"]
    BY DEF RemoveStaging, WithoutStaging
<1>2. OnDisk' /\ staging' \subseteq Incomplete'
    BY <1>0, <1>1 DEF TypeOK, OnDisk, OpenTx, Incomplete, Promoted, Resolves, Whole, BegunTogether,
       GoodNamesItself, SettingsResolve, GoodAtRest
<1>3. pc'[p] = IF Unreferenced(p) THEN "r_gen" ELSE "r_lkg"
    BY <1>0, <1>1 DEF TypeOK
<1>4. Annotation(p)'
    BY <1>0, <1>1, <1>3 DEF Annotation, AtBody, AtRecovery, Unreferenced, Incomplete
<1> QED BY <1>2, <1>4 DEF Leaves

\* Another generation's directory is written, not one that the settings use.
LEMMA RemoveGenerationKeeps ==
    ASSUME ConfigInv, NEW p \in Procs, RemoveGeneration(p) \/ GenerationGone(p)
    PROVE  Leaves(p)
<1> DEFINE t == at[p].tx
           g == journal[t].gen
<1>0. TypeOK /\ OnDisk /\ Annotation(p) /\ pc[p] \in {"r_gen", "r_gone"}
    BY DEF ConfigInv, RemoveGeneration, GenerationGone
<1>1. UNCHANGED <<settings, lkg, journal, snap, staging, at, degraded>>
    BY DEF RemoveGeneration, GenerationGone
<1>2. t \in Txs /\ Incomplete = {t} /\ OpenTx(t) /\ journal[t].phase # "none"
    BY <1>0, Working
<1>3. journal[t].created /\ g \in Gens /\ g # snap[t].gen /\ g # settings.gen /\ settings.gen = at[p].cur.gen
    BY <1>0, <1>2 DEF Annotation, AtRecovery, OpenTx
<1>4. \A h \in Gens : h # g => gens'[h] = gens[h]
    BY <1>0, <1>1 DEF RemoveGeneration, GenerationGone, TypeOK
<1>5. settings.gen \in AnyGen /\ snap[t].gen \in AnyGen
    BY <1>0, <1>2 DEF TypeOK, Settings
<1>6. Incomplete' = {t} /\ BegunTogether' /\ GoodNamesItself'
    BY <1>0, <1>1, <1>2 DEF Incomplete, OnDisk, BegunTogether, GoodNamesItself
<1>7. OpenTx(t)' /\ SettingsResolve'
    BY <1>0, <1>1, <1>2, <1>3, <1>4, <1>5 DEF OpenTx, Promoted, Resolves, Whole, OnDisk, SettingsResolve, AnyGen
<1>8. OnDisk' /\ staging' \subseteq Incomplete'
    BY <1>0, <1>1, <1>2, <1>6, <1>7, StillOpen DEF TypeOK
<1>9. CASE pc'[p] = "release"
    <2>1. Annotation(p)'
        BY <1>0, <1>1, <1>9, Away DEF Annotated, Annotation
    <2> QED BY <1>8, <2>1 DEF Leaves
<1>10. CASE pc'[p] = "r_gone"
    <2>1. Annotation(p)'
        BY <1>0, <1>1, <1>2, <1>6, <1>10 DEF Annotation, AtBody, AtRecovery
    <2> QED BY <1>8, <2>1 DEF Leaves
<1>11. CASE pc'[p] = "r_lkg" /\ gens'[g] = "none"
    <2>1. Annotation(p)'
        BY <1>0, <1>1, <1>2, <1>6, <1>11 DEF Annotation, AtBody, AtRecovery
    <2> QED BY <1>8, <2>1 DEF Leaves
<1>12. pc'[p] \in {"release", "r_gone"} \/ (pc'[p] = "r_lkg" /\ gens'[g] = "none")
    BY <1>0, <1>3 DEF RemoveGeneration, GenerationGone, TypeOK
<1> QED BY <1>9, <1>10, <1>11, <1>12

\* A record that reconcileLastKnownGood makes or keeps names the settings'
\* generation.
LEMMA ReconciledIsGood ==
    ASSUME TypeOK, OnDisk, lkg' \in Reconciled, UNCHANGED <<settings, gens>>
    PROVE  Good' /\ GoodNamesItself'
BY DEF TypeOK, Records, Reconciled, OnDisk, Good, GoodNamesItself, Whole, NoLkg

LEMMA ReconcileRecoveredKeeps ==
    ASSUME ConfigInv, NEW p \in Procs, ReconcileRecovered(p)
    PROVE  Leaves(p)
<1> DEFINE t == at[p].tx
<1>0. TypeOK /\ OnDisk /\ Annotation(p) /\ pc[p] = "r_lkg"
    BY DEF ConfigInv, ReconcileRecovered
<1>1. UNCHANGED <<settings, journal, snap, gens, staging, at>>
    BY DEF ReconcileRecovered
<1>2. t \in Txs /\ Incomplete = {t} /\ OpenTx(t)
    BY <1>0, Working
<1>3. GoodNamesItself' /\ (Reconciled # {} => Good')
    <2>1. CASE Reconciled = {}
        BY <1>0, <2>1 DEF ReconcileRecovered, OnDisk, GoodNamesItself
    <2>2. CASE Reconciled # {}
        <3>1. lkg' \in Reconciled
            BY <2>2 DEF ReconcileRecovered
        <3> QED BY <1>0, <1>1, <3>1, ReconciledIsGood
    <2> QED BY <2>1, <2>2
<1>4. Incomplete' = {t} /\ BegunTogether' /\ OpenTx(t)' /\ SettingsResolve'
    BY <1>0, <1>1, <1>2 DEF Incomplete, OnDisk, BegunTogether, OpenTx, Promoted, Resolves, Whole, SettingsResolve
<1>5. OnDisk' /\ staging' \subseteq Incomplete'
    BY <1>0, <1>1, <1>2, <1>3, <1>4, StillOpen DEF TypeOK
<1>6. pc'[p] = IF Reconciled = {} /\ ~Tolerant(p) THEN "release" ELSE "r_settle"
    BY <1>0 DEF ReconcileRecovered, TypeOK
<1>7. CASE Reconciled = {} /\ ~Tolerant(p)
    <2>1. Annotation(p)'
        BY <1>0, <1>1, <1>6, <1>7, Away DEF Annotated, Annotation
    <2> QED BY <1>5, <2>1 DEF Leaves
<1>8. CASE ~(Reconciled = {} /\ ~Tolerant(p))
    <2>1. degraded' \/ Good'
        BY <1>3, <1>8 DEF ReconcileRecovered
    <2>2. AtRecovery(p)'
        BY <1>0, <1>1, <1>2, <1>6, <1>8, <2>1 DEF Annotation, AtRecovery
    <2>3. Annotation(p)'
        BY <1>0, <1>1, <1>2, <1>4, <1>6, <1>8, <2>2 DEF Annotation, AtBody
    <2> QED BY <1>5, <2>3 DEF Leaves
<1> QED BY <1>7, <1>8

\* The journal of the open transaction ends: nothing is open any more.
LEMMA Closes ==
    ASSUME NEW t \in Txs, NEW j, Incomplete = {t}, BegunTogether, journal \in [Txs -> Journals],
           journal' = [journal EXCEPT ![t] = j], j.status \in TERMINAL, j.phase # "none"
    PROVE  Incomplete' = {} /\ BegunTogether'
BY DEF Incomplete, BegunTogether, TERMINAL

LEMMA SettleKeeps ==
    ASSUME ConfigInv, NEW p \in Procs, Settle(p)
    PROVE  Leaves(p)
<1> DEFINE t == at[p].tx
           s == IF at[p].todo = "PRESERVE_CONCURRENT" THEN "FAILED" ELSE "ROLLED_BACK"
           j == [journal[t] EXCEPT !.status = s]
<1>0. TypeOK /\ OnDisk /\ Annotation(p) /\ pc[p] = "r_settle"
    BY DEF ConfigInv, Settle
<1>1. UNCHANGED <<settings, lkg, snap, gens, staging, at, degraded>> /\ journal' = [journal EXCEPT ![t] = j]
    BY DEF Settle
<1>2. /\ t \in Txs /\ Incomplete = {t} /\ staging \subseteq {t} /\ journal[t] \in Journals
      /\ journal[t].phase # "none" /\ journal \in [Txs -> Journals]
    BY <1>0, Working
<1>3. j.status \in TERMINAL /\ j.phase # "none"
    BY <1>2 DEF Journals, TERMINAL
<1>4. Incomplete' = {} /\ BegunTogether'
    <2> HIDE DEF j, t
    <2> QED BY <1>0, <1>1, <1>2, <1>3, Closes DEF OnDisk
<1>5. t \notin staging /\ (degraded \/ Good)
    BY <1>0 DEF Annotation, AtRecovery
<1>6. OnDisk'
    BY <1>0, <1>1, <1>4, <1>5 DEF OnDisk, GoodNamesItself, SettingsResolve, GoodAtRest, Good, Whole
<1>7. staging' \subseteq Incomplete'
    BY <1>1, <1>2, <1>4, <1>5
<1>8. pc'[p] \notin Annotated /\ at'[p] = at[p]
    BY <1>0, <1>1 DEF Settle, TypeOK, Annotated
<1>9. Annotation(p)'
    BY <1>0, <1>8, Away DEF Annotation
<1> QED BY <1>6, <1>7, <1>9 DEF Leaves

LEMMA ReconcileFirstKeeps ==
    ASSUME ConfigInv, NEW p \in Procs, ReconcileFirst(p)
    PROVE  Leaves(p)
<1>0. TypeOK /\ OnDisk /\ Annotation(p) /\ pc[p] = "reconcile" /\ Incomplete = {}
    BY DEF ConfigInv, ReconcileFirst, Annotation
<1>1. UNCHANGED <<settings, journal, snap, gens, staging, at>>
    BY DEF ReconcileFirst
<1>2. Incomplete' = {} /\ staging' \subseteq Incomplete'
    BY <1>0, <1>1 DEF Incomplete, TypeOK
<1>3. GoodNamesItself' /\ GoodAtRest'
    <2>1. CASE Reconciled = {}
        BY <1>0, <1>1, <1>2, <2>1 DEF ReconcileFirst, OnDisk, GoodNamesItself, GoodAtRest, Whole
    <2>2. CASE Reconciled # {}
        <3>1. lkg' \in Reconciled
            BY <2>2 DEF ReconcileFirst
        <3> QED BY <1>0, <1>1, <3>1, ReconciledIsGood DEF Good, GoodAtRest
    <2> QED BY <2>1, <2>2
<1>4. OnDisk'
    BY <1>0, <1>1, <1>2, <1>3 DEF OnDisk, BegunTogether, SettingsResolve, Whole
<1>5. pc'[p] \in {"release", "body"}
    BY <1>0 DEF ReconcileFirst, TypeOK
<1>6. Annotation(p)'
    BY <1>0, <1>1, <1>2, <1>5 DEF Annotation, AtBody, AtRecovery
<1> QED BY <1>2, <1>4, <1>6 DEF Leaves

-----------------------------------------------------------------------------
(* The command, step by step.                                              *)

\* A command that recovers its own transaction leaves the files as they are.
LEMMA OwnRecoveryKeeps ==
    ASSUME ConfigInv, NEW p \in Procs, pc[p] \in BodySteps, NEW b, OwnRecovery(p, b),
           UNCHANGED <<disk, degraded>>
    PROVE  Leaves(p)
<1>0. TypeOK /\ Annotation(p)
    BY DEF ConfigInv
<1>1. /\ at'[p].tx = at[p].tx /\ at'[p].kind = at[p].kind /\ at'[p].gen = at[p].gen
      /\ pc'[p] = "r_begin"
    BY <1>0 DEF OwnRecovery, TypeOK, Works
<1>2. at[p].tx \in Incomplete'
    BY <1>0 DEF Annotation, Incomplete, disk
<1>3. Annotation(p)'
    BY <1>0, <1>1, <1>2 DEF Annotation, AtBody, AtRecovery
<1> QED BY <1>3, DiskKept DEF Leaves

LEMMA BeginKeeps ==
    ASSUME ConfigInv, NEW p \in Procs, Begin(p)
    PROVE  Leaves(p)
<1>0. TypeOK /\ OnDisk /\ Annotation(p) /\ pc[p] = "body" /\ Incomplete = {}
    BY DEF ConfigInv, Begin, Annotation
<1>1. CASE Goes(p, "release") /\ UNCHANGED <<journal, at>>
    BY <1>1, GivesUp DEF Begin, disk
<1>2. ASSUME NEW t \in NewTx,
             journal' = [journal EXCEPT ![t] = [NoJournal EXCEPT
                            !.status = "ACTIVE", !.phase = "PREPARED", !.gen = at[p].gen]],
             at' = [at EXCEPT ![p] = [@ EXCEPT !.cur = settings, !.tx = t]], Goes(p, "backup"),
             at[p].kind # "none", ~(at[p].kind = "settings" /\ at[p].gen # NoGen /\ ~Whole(at[p].gen)),
             UNCHANGED <<settings, lkg, snap, gens, staging, degraded>>
      PROVE  Leaves(p)
    <2>1. t \in Txs /\ staging = {} /\ journal \in [Txs -> Journals]
        BY <1>0 DEF NewTx, TypeOK
    <2>2. /\ journal'[t].status = "ACTIVE" /\ journal'[t].phase = "PREPARED"
          /\ journal'[t].gen = at[p].gen /\ ~journal'[t].created
          /\ \A u \in Txs : u # t => journal'[u] = journal[u]
        BY <1>2, <2>1 DEF NoJournal
    <2>3. Incomplete' = {t} /\ BegunTogether'
        BY <1>0, <2>1, <2>2 DEF Incomplete, BegunTogether, OnDisk
    <2>4. OpenTx(t)' /\ GoodNamesItself' /\ SettingsResolve'
        BY <1>0, <1>2, <2>2 DEF OpenTx, OnDisk, GoodNamesItself, SettingsResolve, Whole
    <2>5. OnDisk' /\ staging' \subseteq Incomplete'
        BY <1>2, <2>1, <2>3, <2>4, StillOpen
    <2>6. /\ at'[p].cur = settings /\ at'[p].tx = t /\ at'[p].kind = at[p].kind /\ at'[p].gen = at[p].gen
          /\ pc'[p] = "backup"
        BY <1>0, <1>2 DEF TypeOK, Works
    <2>7. AtBody(p)'
        BY <1>2, <2>1, <2>2, <2>6 DEF AtBody, Resolves, Whole
    <2>8. Annotation(p)'
        BY <1>0, <2>3, <2>6, <2>7 DEF Annotation, AtRecovery
    <2> QED BY <2>5, <2>8 DEF Leaves
<1> QED BY <1>1, <1>2 DEF Begin, First

LEMMA BackupKeeps ==
    ASSUME ConfigInv, NEW p \in Procs, Backup(p)
    PROVE  Leaves(p)
<1> DEFINE t == at[p].tx
<1>0. TypeOK /\ OnDisk /\ Annotation(p) /\ pc[p] = "backup"
    BY DEF ConfigInv, Backup
<1>1. /\ journal' = [journal EXCEPT ![t] = [@ EXCEPT !.phase = "BACKUP_DURABLE"]]
      /\ snap' = [snap EXCEPT ![t] = settings] /\ pc' = [pc EXCEPT ![p] = "stage"]
      /\ UNCHANGED <<settings, lkg, gens, staging, at, degraded>>
    BY DEF Backup, Phase
<1>2. /\ t \in Txs /\ Incomplete = {t} /\ staging \subseteq {t} /\ journal \in [Txs -> Journals]
      /\ journal[t].status \in {"ACTIVE", "RECOVERING"}
    BY <1>0, Working
<1>3. /\ journal'[t].status = journal[t].status /\ journal'[t].phase = "BACKUP_DURABLE"
      /\ journal'[t].gen = at[p].gen /\ ~journal'[t].created /\ snap'[t] = settings /\ pc'[p] = "stage"
      /\ \A u \in Txs : u # t => journal'[u] = journal[u]
    BY <1>0, <1>1, <1>2 DEF Journals, TypeOK, Annotation, AtBody
<1>4. Incomplete' = {t} /\ BegunTogether'
    BY <1>0, <1>2, <1>3 DEF Incomplete, BegunTogether, OnDisk
<1>5. OpenTx(t)' /\ GoodNamesItself' /\ SettingsResolve'
    BY <1>0, <1>1, <1>3 DEF OpenTx, OnDisk, GoodNamesItself, SettingsResolve, Resolves, Whole
<1>6. OnDisk' /\ staging' \subseteq Incomplete'
    BY <1>1, <1>2, <1>4, <1>5, StillOpen
<1>7. AtBody(p)'
    BY <1>0, <1>1, <1>2, <1>3 DEF Annotation, AtBody, Resolves, Whole
<1>8. Annotation(p)'
    BY <1>0, <1>1, <1>3, <1>4, <1>7 DEF Annotation, AtRecovery
<1> QED BY <1>6, <1>8 DEF Leaves

\* The promotion evidence of a generation that is there.
LEMMA EvidenceKeeps ==
    ASSUME ConfigInv, NEW p \in Procs, pc[p] \in {"stage", "promoted"}, NEW b \in BOOLEAN, Evidence(p, b),
           Goes(p, "p_check"), UNCHANGED <<settings, lkg, snap, gens, staging, at, degraded>>,
           Resolves(at[p].gen), b => at[p].gen \in Gens /\ at[p].gen # snap[at[p].tx].gen
    PROVE  Leaves(p)
<1> DEFINE t == at[p].tx
<1>0. TypeOK /\ OnDisk /\ Annotation(p)
    BY DEF ConfigInv
<1>1. /\ t \in Txs /\ Incomplete = {t} /\ staging \subseteq {t} /\ journal \in [Txs -> Journals]
      /\ journal[t].status \in {"ACTIVE", "RECOVERING"} /\ OpenTx(t) /\ t \notin staging
      /\ journal[t].phase \in {"BACKUP_DURABLE", "GRAPH_STAGING", "GRAPH_VERIFIED"}
    BY <1>0, Working DEF Annotation, AtBody
<1>2. /\ journal'[t].status = journal[t].status /\ journal'[t].phase = "GRAPH_PROMOTED"
      /\ journal'[t].gen = at[p].gen /\ journal'[t].created = b
      /\ \A u \in Txs : u # t => journal'[u] = journal[u]
    BY <1>0, <1>1 DEF Journals, Annotation, AtBody, Evidence
<1>3. Incomplete' = {t} /\ BegunTogether'
    BY <1>0, <1>1, <1>2 DEF Incomplete, BegunTogether, OnDisk
<1>4. OpenTx(t)' /\ GoodNamesItself' /\ SettingsResolve'
    BY <1>0, <1>1, <1>2 DEF OpenTx, OnDisk, GoodNamesItself, SettingsResolve, Resolves, Whole, Promoted
<1>5. OnDisk' /\ staging' \subseteq Incomplete'
    BY <1>1, <1>3, <1>4, StillOpen
<1>6. pc'[p] = "p_check"
    BY <1>0 DEF TypeOK
<1>7. AtBody(p)'
    BY <1>0, <1>1, <1>2, <1>6 DEF Annotation, AtBody, Resolves, Whole, Promoted
<1>8. Annotation(p)'
    BY <1>0, <1>3, <1>6, <1>7 DEF Annotation, AtRecovery
<1> QED BY <1>5, <1>8 DEF Leaves

\* A new phase of the journal that changes nothing else of it.
LEMMA PhaseKeeps ==
    ASSUME ConfigInv, NEW p \in Procs, pc[p] \in BodySteps, NEW f \in Phases \ {"none"}, Phase(p, f)
    PROVE  /\ at[p].tx \in Txs /\ Incomplete' = {at[p].tx} /\ BegunTogether'
           /\ journal'[at[p].tx].phase = f /\ journal'[at[p].tx].gen = journal[at[p].tx].gen
           /\ journal'[at[p].tx].created = journal[at[p].tx].created
<1> DEFINE t == at[p].tx
<1>1. /\ t \in Txs /\ Incomplete = {t} /\ journal \in [Txs -> Journals]
      /\ journal[t].status \in {"ACTIVE", "RECOVERING"}
    BY Working
<1>2. /\ journal'[t].status = journal[t].status /\ journal'[t].phase = f
      /\ journal'[t].gen = journal[t].gen /\ journal'[t].created = journal[t].created
      /\ \A u \in Txs : u # t => journal'[u] = journal[u]
    BY <1>1 DEF Journals, Phase
<1>3. Incomplete' = {t} /\ BegunTogether'
    BY <1>1, <1>2 DEF Incomplete, BegunTogether, OnDisk, ConfigInv
<1> QED BY <1>1, <1>2, <1>3

LEMMA StageKeeps ==
    ASSUME ConfigInv, NEW p \in Procs, Stage(p)
    PROVE  Leaves(p)
<1> DEFINE t == at[p].tx
<1>0. TypeOK /\ OnDisk /\ Annotation(p) /\ pc[p] = "stage"
    BY DEF ConfigInv, Stage
<1>1. t \in Txs /\ Incomplete = {t} /\ staging \subseteq {t} /\ OpenTx(t)
    BY <1>0, Working
<1>2. CASE (at[p].kind = "settings" \/ Whole(at[p].gen)) /\ Evidence(p, FALSE)
           /\ Goes(p, "p_check") /\ UNCHANGED <<staging, at>>
    <2>1. Resolves(at[p].gen)
        BY <1>0, <1>2 DEF Annotation, AtBody, Resolves
    <2> QED BY <1>0, <1>2, <2>1, EvidenceKeeps DEF Stage
<1>3. CASE at[p].kind = "graph" /\ gens[at[p].gen] \in {"none", "partial"} /\ Phase(p, "GRAPH_STAGING")
    <2>1. /\ Incomplete' = {t} /\ BegunTogether' /\ journal'[t].phase = "GRAPH_STAGING"
          /\ journal'[t].gen = journal[t].gen /\ journal'[t].created = journal[t].created
        BY <1>0, <1>3, PhaseKeeps DEF Phases
    <2>2. UNCHANGED <<settings, lkg, snap, gens, degraded>>
        BY DEF Stage
    <2>3. at'[p].tx = t /\ at'[p].kind = at[p].kind /\ at'[p].gen = at[p].gen /\ at'[p].cur = at[p].cur
        <3>1. at' = at \/ at' = [at EXCEPT ![p] = [@ EXCEPT !.own = TRUE, !.strict = TRUE]]
            BY DEF Stage, OwnRecovery
        <3>2. at \in [Procs -> Works] /\ at[p] \in Works
            BY <1>0 DEF TypeOK
        <3>3. CASE at' = [at EXCEPT ![p] = [@ EXCEPT !.own = TRUE, !.strict = TRUE]]
            <4>1. at'[p] = [at[p] EXCEPT !.own = TRUE, !.strict = TRUE]
                BY <3>2, <3>3
            <4> QED BY <3>2, <4>1 DEF Works
        <3> QED BY <3>1, <3>3
    <2>4. OpenTx(at[p].tx)' /\ GoodNamesItself' /\ SettingsResolve'
        BY <1>0, <1>1, <2>1, <2>2, <2>3 DEF OpenTx, OnDisk, GoodNamesItself, SettingsResolve, Resolves,
           Whole, Promoted, Annotation, AtBody
    <2>5. OnDisk'
        BY <1>1, <2>1, <2>3, <2>4, StillOpen
    <2>6. staging' \subseteq Incomplete'
        BY <1>1, <2>1 DEF Stage
    <2>7. at[p].gen \in Gens /\ at[p].gen # snap[t].gen
        BY <1>0, <1>1, <1>3 DEF Annotation, AtBody, OpenTx, Resolves, Whole
    <2>8. pc'[p] \in {"promote", "r_begin"}
        BY <1>0, <1>3 DEF Stage, OwnRecovery, TypeOK, Whole
    <2>9. CASE pc'[p] = "promote"
        <3>1. AtBody(p)'
            BY <1>0, <2>1, <2>2, <2>3, <2>7, <2>9 DEF Annotation, AtBody
        <3>2. Annotation(p)'
            BY <1>0, <2>1, <2>3, <2>9, <3>1 DEF Annotation, AtRecovery
        <3> QED BY <2>5, <2>6, <3>2 DEF Leaves
    <2>10. CASE pc'[p] = "r_begin"
        <3>1. Annotation(p)'
            BY <1>0, <2>1, <2>3, <2>10 DEF Annotation, AtBody, AtRecovery
        <3> QED BY <2>5, <2>6, <3>1 DEF Leaves
    <2> QED BY <2>8, <2>9, <2>10
<1> QED BY <1>2, <1>3 DEF Stage

LEMMA PromoteKeeps ==
    ASSUME ConfigInv, NEW p \in Procs, Promote(p)
    PROVE  Leaves(p)
<1> DEFINE t == at[p].tx
<1>0. TypeOK /\ OnDisk /\ Annotation(p) /\ pc[p] = "promote"
    BY DEF ConfigInv, Promote
<1>1. t \in Txs /\ Incomplete = {t} /\ staging \subseteq {t} /\ OpenTx(t)
    BY <1>0, Working
<1>2. /\ gens' = [gens EXCEPT ![at[p].gen] = "whole"] /\ staging' = staging \ {t}
      /\ pc' = [pc EXCEPT ![p] = "promoted"] /\ Phase(p, "GRAPH_VERIFIED")
      /\ UNCHANGED <<settings, lkg, snap, at, degraded>>
    BY DEF Promote
<1>3. /\ Incomplete' = {t} /\ BegunTogether' /\ journal'[t].phase = "GRAPH_VERIFIED"
      /\ journal'[t].gen = journal[t].gen /\ journal'[t].created = journal[t].created
    BY <1>0, <1>2, PhaseKeeps DEF Phases
<1>4. at[p].gen \in Gens /\ at[p].gen # snap[t].gen /\ pc'[p] = "promoted" /\ gens'[at[p].gen] = "whole"
    BY <1>0, <1>2 DEF Annotation, AtBody, TypeOK
<1>5. \A g : Whole(g) /\ g \in Gens => g # NoGen /\ gens'[g] = "whole"
    BY <1>0, <1>2 DEF TypeOK, Whole
<1>6. settings.gen \in AnyGen /\ snap[t].gen \in AnyGen
    BY <1>0, <1>1 DEF TypeOK, Settings
<1>7. OpenTx(t)' /\ GoodNamesItself' /\ SettingsResolve'
    BY <1>0, <1>1, <1>2, <1>3, <1>5, <1>6 DEF OpenTx, OnDisk, GoodNamesItself, SettingsResolve, Resolves,
       Whole, Promoted, Annotation, AtBody, AnyGen
<1>8. OnDisk' /\ staging' \subseteq Incomplete'
    BY <1>1, <1>2, <1>3, <1>7, StillOpen
<1>9. AtBody(p)'
    BY <1>0, <1>2, <1>3, <1>4 DEF Annotation, AtBody, Whole
<1>10. Annotation(p)'
    BY <1>0, <1>2, <1>3, <1>4, <1>9 DEF Annotation, AtRecovery
<1> QED BY <1>8, <1>10 DEF Leaves

LEMMA RecordPromotionKeeps ==
    ASSUME ConfigInv, NEW p \in Procs, RecordPromotion(p)
    PROVE  Leaves(p)
<1>1. Annotation(p) /\ pc[p] = "promoted"
    BY DEF ConfigInv, RecordPromotion
<1>2. Resolves(at[p].gen) /\ at[p].gen \in Gens /\ at[p].gen # snap[at[p].tx].gen
    BY <1>1 DEF Annotation, AtBody, Resolves
<1>3. /\ Evidence(p, TRUE) /\ Goes(p, "p_check")
      /\ UNCHANGED <<settings, lkg, snap, gens, staging, at, degraded>>
    BY DEF RecordPromotion
<1> QED BY <1>1, <1>2, <1>3, EvidenceKeeps

LEMMA CheckPublishKeeps ==
    ASSUME ConfigInv, NEW p \in Procs, CheckPublish(p)
    PROVE  Leaves(p)
<1>0. TypeOK /\ Annotation(p) /\ pc[p] = "p_check" /\ UNCHANGED <<disk, degraded>>
    BY DEF ConfigInv, CheckPublish
<1>1. CASE ~SameSettings(p)
    BY <1>0, <1>1, OwnRecoveryKeeps DEF CheckPublish
<1>2. CASE SameSettings(p)
    <2>1. pc'[p] = "p_rename" /\ at' = at
        BY <1>0, <1>2 DEF CheckPublish, TypeOK
    <2>2. AtBody(p)'
        BY <1>0, <2>1 DEF Annotation, AtBody, disk, Promoted, Resolves, Whole
    <2>3. Annotation(p)'
        BY <1>0, <1>2, <2>1, <2>2 DEF Annotation, AtRecovery, SameSettings, disk, Incomplete
    <2> QED BY <1>0, <2>3, DiskKept DEF Leaves
<1> QED BY <1>1, <1>2

LEMMA RenamePublishKeeps ==
    ASSUME ConfigInv, NEW p \in Procs, RenamePublish(p)
    PROVE  Leaves(p)
<1> DEFINE t == at[p].tx
<1>0. TypeOK /\ OnDisk /\ Annotation(p) /\ pc[p] = "p_rename"
    BY DEF ConfigInv, RenamePublish
<1>1. /\ settings' = With(at[p].cur, at[p].gen) /\ pc' = [pc EXCEPT ![p] = "published"]
      /\ UNCHANGED <<lkg, journal, snap, gens, staging, at, degraded>>
    BY DEF RenamePublish
<1>2. t \in Txs /\ Incomplete = {t} /\ staging \subseteq {t} /\ OpenTx(t) /\ Promoted(t) /\ Resolves(at[p].gen)
    BY <1>0, Working DEF Annotation, AtBody
<1>3. settings'.gen = at[p].gen /\ pc'[p] = "published"
    BY <1>0, <1>1, WithType DEF TypeOK, Works
<1>4. Incomplete' = {t} /\ BegunTogether' /\ GoodNamesItself'
    BY <1>0, <1>1, <1>2 DEF Incomplete, OnDisk, BegunTogether, GoodNamesItself
<1>5. OpenTx(t)' /\ SettingsResolve'
    BY <1>0, <1>1, <1>2, <1>3 DEF OpenTx, Promoted, Resolves, Whole, OnDisk, SettingsResolve
<1>6. OnDisk' /\ staging' \subseteq Incomplete'
    BY <1>1, <1>2, <1>4, <1>5, StillOpen
<1>7. AtBody(p)'
    BY <1>0, <1>1, <1>3 DEF Annotation, AtBody, Promoted, Resolves, Whole
<1>8. Annotation(p)'
    BY <1>0, <1>1, <1>2, <1>3, <1>4, <1>7 DEF Annotation, AtRecovery
<1> QED BY <1>6, <1>8 DEF Leaves

LEMMA RecordPublicationKeeps ==
    ASSUME ConfigInv, NEW p \in Procs, RecordPublication(p) \/ Smoke(p)
    PROVE  Leaves(p)
<1> DEFINE t == at[p].tx
<1>0. TypeOK /\ OnDisk /\ Annotation(p) /\ pc[p] \in {"published", "smoke"}
    BY DEF ConfigInv, RecordPublication, Smoke
<1>1. t \in Txs /\ Incomplete = {t} /\ staging \subseteq {t} /\ OpenTx(t) /\ Promoted(t)
    BY <1>0, Working DEF Annotation, AtBody
<1>2. PICK f \in {"SETTINGS_PUBLISHED", "SMOKE_PASSED"} : Phase(p, f)
    BY DEF RecordPublication, Smoke
<1>3. pc'[p] \in {"smoke", "lkg"} /\ UNCHANGED <<settings, lkg, snap, gens, staging, at, degraded>>
    BY <1>0 DEF RecordPublication, Smoke, TypeOK
<1>4. /\ Incomplete' = {t} /\ BegunTogether' /\ journal'[t].phase = f
      /\ journal'[t].gen = journal[t].gen /\ journal'[t].created = journal[t].created
    BY <1>0, <1>2, PhaseKeeps DEF Phases
<1>5. OpenTx(t)' /\ GoodNamesItself' /\ SettingsResolve'
    BY <1>0, <1>1, <1>3, <1>4 DEF OpenTx, OnDisk, GoodNamesItself, SettingsResolve, Resolves, Whole, Promoted
<1>6. OnDisk' /\ staging' \subseteq Incomplete'
    BY <1>1, <1>3, <1>4, <1>5, StillOpen
<1>7. AtBody(p)'
    BY <1>0, <1>3, <1>4 DEF Annotation, AtBody, Promoted, Resolves, Whole
<1>8. Annotation(p)'
    BY <1>0, <1>3, <1>4, <1>7 DEF Annotation, AtRecovery
<1> QED BY <1>6, <1>8 DEF Leaves

LEMMA RecordGoodKeeps ==
    ASSUME ConfigInv, NEW p \in Procs, RecordGood(p)
    PROVE  Leaves(p)
<1> DEFINE t == at[p].tx
<1>0. TypeOK /\ OnDisk /\ Annotation(p) /\ pc[p] = "lkg"
    BY DEF ConfigInv, RecordGood
<1>1. t \in Txs /\ Incomplete = {t} /\ staging \subseteq {t} /\ OpenTx(t) /\ settings.gen = at[p].gen
    BY <1>0, Working DEF Annotation, AtBody
<1>2. UNCHANGED <<settings, journal, snap, gens, staging>>
    BY DEF RecordGood
<1>3. CASE ~(at[p].gen = NoGen \/ (Whole(at[p].gen) /\ NotDrifted(p)))
    BY <1>0, <1>2, <1>3, OwnRecoveryKeeps DEF RecordGood, disk
<1>4. CASE at[p].gen = NoGen \/ (Whole(at[p].gen) /\ NotDrifted(p))
    <2>1. /\ lkg' = IF at[p].gen = NoGen THEN NoLkg
                    ELSE [on |-> TRUE, settings |-> settings, gen |-> at[p].gen]
          /\ pc'[p] = "commit" /\ UNCHANGED at
        BY <1>0, <1>4 DEF RecordGood, TypeOK
    <2>2. Good' /\ GoodNamesItself'
        BY <1>1, <1>2, <1>4, <2>1 DEF Good, GoodNamesItself, NoLkg, Whole
    <2>3. Incomplete' = {t} /\ BegunTogether' /\ OpenTx(t)' /\ SettingsResolve'
        BY <1>0, <1>1, <1>2, <2>1 DEF Incomplete, OnDisk, BegunTogether, OpenTx, Promoted, Resolves, Whole,
           SettingsResolve
    <2>4. OnDisk' /\ staging' \subseteq Incomplete'
        BY <1>1, <1>2, <2>1, <2>2, <2>3, StillOpen
    <2>5. AtBody(p)'
        BY <1>0, <1>2, <2>1, <2>2 DEF Annotation, AtBody, Promoted, Resolves, Whole
    <2>6. Annotation(p)'
        BY <1>0, <1>1, <1>2, <2>1, <2>3, <2>5 DEF Annotation, AtRecovery
    <2> QED BY <2>4, <2>6 DEF Leaves
<1> QED BY <1>3, <1>4

LEMMA CommitKeeps ==
    ASSUME ConfigInv, NEW p \in Procs, Commit(p)
    PROVE  Leaves(p)
<1> DEFINE t == at[p].tx
           j == [journal[t] EXCEPT !.phase = "COMMITTED", !.status = "COMMITTED"]
<1>0. TypeOK /\ OnDisk /\ Annotation(p) /\ pc[p] = "commit"
    BY DEF ConfigInv, Commit
<1>1. UNCHANGED <<settings, lkg, snap, gens, staging, at, degraded>> /\ journal' = [journal EXCEPT ![t] = j]
    BY DEF Commit
<1>2. /\ t \in Txs /\ Incomplete = {t} /\ staging \subseteq {t} /\ journal[t] \in Journals
      /\ journal \in [Txs -> Journals]
    BY <1>0, Working
<1>3. j.status \in TERMINAL /\ j.phase # "none"
    BY <1>2 DEF Journals, TERMINAL
<1>4. Incomplete' = {} /\ BegunTogether'
    <2> HIDE DEF j, t
    <2> QED BY <1>0, <1>1, <1>2, <1>3, Closes DEF OnDisk
<1>5. t \notin staging /\ Good
    BY <1>0 DEF Annotation, AtBody
<1>6. OnDisk'
    BY <1>0, <1>1, <1>4, <1>5 DEF OnDisk, GoodNamesItself, SettingsResolve, GoodAtRest, Good, Whole
<1>7. staging' \subseteq Incomplete'
    BY <1>1, <1>2, <1>4, <1>5
<1>8. pc'[p] \notin Annotated /\ at'[p] = at[p]
    BY <1>0, <1>1 DEF Commit, TypeOK, Annotated
<1>9. Annotation(p)'
    BY <1>0, <1>8, Away DEF Annotation
<1> QED BY <1>6, <1>7, <1>9 DEF Leaves

LEMMA FailsKeeps ==
    ASSUME ConfigInv, NEW p \in Procs, Fails(p)
    PROVE  Leaves(p)
<1>0. TypeOK /\ OnDisk /\ Annotation(p) /\ UNCHANGED disk
    BY DEF ConfigInv, Fails
<1>1. CASE pc[p] \in BodySteps /\ OwnRecovery(p, at[p].kind = "graph") /\ UNCHANGED degraded
    BY <1>0, <1>1, OwnRecoveryKeeps
<1>2. CASE Goes(p, "release") /\ UNCHANGED <<at, degraded>>
    BY <1>0, <1>2, GivesUp
<1>3. CASE pc[p] = "r_lkg" /\ degraded' = TRUE /\ Goes(p, "r_settle") /\ UNCHANGED at
    <2>1. pc'[p] = "r_settle" /\ Incomplete # {} /\ Incomplete' = Incomplete
        BY <1>0, <1>3 DEF TypeOK, Annotation, Incomplete, disk
    <2>2. OnDisk' /\ staging' \subseteq Incomplete'
        BY <1>0, <1>3, <2>1 DEF TypeOK, disk, OnDisk, OpenTx, Promoted, Resolves, Whole, BegunTogether,
           GoodNamesItself, SettingsResolve, GoodAtRest
    <2>3. Annotation(p)'
        BY <1>0, <1>3, <2>1 DEF Annotation, AtBody, AtRecovery, disk
    <2> QED BY <2>2, <2>3 DEF Leaves
<1> QED BY <1>1, <1>2, <1>3 DEF Fails

-----------------------------------------------------------------------------
(* The theorems.                                                           *)

LEMMA InsideKeeps ==
    ASSUME ConfigInv, NEW p \in Procs, Recovery(p) \/ Command(p) \/ Fails(p)
    PROVE  OnDisk' /\ staging' \subseteq Incomplete' /\ \A q \in Procs : Annotation(q)'
<1>1. Leaves(p)
    BY RecoverPendingKeeps, BeginRecoveryKeeps, CheckRestoreKeeps, RenameRestoreKeeps, RemoveStagingKeeps,
       RemoveGenerationKeeps, ReconcileRecoveredKeeps, SettleKeeps, ReconcileFirstKeeps, BeginKeeps,
       BackupKeeps, StageKeeps, PromoteKeeps, RecordPromotionKeeps, CheckPublishKeeps, RenamePublishKeeps,
       RecordPublicationKeeps, RecordGoodKeeps, CommitKeeps, FailsKeeps
       DEF Recovery, Command
<1>2. pc[p] \in Locked /\ \E l \in Inner : pc' = [pc EXCEPT ![p] = l]
    BY InsideStays DEF ConfigInv, Inner, Locked
<1>3. \A q \in Procs : q # p => at'[q] = at[q]
    <2>1. at \in [Procs -> Works]
        BY DEF ConfigInv, TypeOK
    <2>2. CASE Recovery(p)
        BY <2>1, <2>2 DEF Recovery, RecoverPending, BeginRecovery, CheckRestore, RenameRestore, RemoveStaging,
           RemoveGeneration, GenerationGone, ReconcileRecovered, Settle, ReconcileFirst
    <2>3. CASE Command(p)
        BY <2>1, <2>3 DEF Command, Begin, Backup, Stage, Promote, RecordPromotion, CheckPublish, RenamePublish,
           RecordPublication, Smoke, RecordGood, Commit, OwnRecovery
    <2>4. CASE Fails(p)
        BY <2>1, <2>4 DEF Fails, OwnRecovery
    <2> QED BY <2>2, <2>3, <2>4
<1> QED BY <1>1, <1>2, <1>3, OthersAway DEF Leaves

LEMMA ConfigStep == ConfigInv /\ [Next]_vars => ConfigInv'
<1> SUFFICES ASSUME ConfigInv, [Next]_vars PROVE ConfigInv'
    OBVIOUS
<1>1. OnDisk' /\ staging' \subseteq Incomplete' /\ \A q \in Procs : Annotation(q)'
    <2>1. CASE UNCHANGED vars
        BY <2>1, DiskKept, Kept DEF vars, ConfigInv
    <2> QED BY <2>1, OutsideStep, EditStep, InsideKeeps DEF Next
<1>2. TypeOK' /\ LockInv'
    BY <1>1, TypeStep, LockStepInv DEF ConfigInv
<1> QED BY <1>1, <1>2 DEF ConfigInv

\* The files, the lock and the commands of the configuration runtime keep their
\* types, and a staging directory belongs to an open transaction.
THEOREM ConfigTyping == Spec => []TypeOK
BY ConfigInit, ConfigStep, PTL DEF Spec, ConfigInv

\* The configuration lock excludes: however many processes reclaim the lock of
\* a dead owner, at most one is inside, and it owns the lock.
THEOREM ConfigLockExcludes == Spec => []OneMutator
BY ConfigInit, ConfigStep, PTL DEF Spec, ConfigInv, LockInv

\* Whatever crashes, fails or is recovered, the settings refer to a generation
\* that is whole.
THEOREM SettingsAlwaysResolve == Spec => []SettingsResolve
BY ConfigInit, ConfigStep, PTL DEF Spec, ConfigInv, OnDisk

\* When no transaction is open, the last-known-good record is that of the
\* settings, unless its reconciliation was reported as degraded.
THEOREM RecordIsGoodAtRest == Spec => []GoodAtRest
BY ConfigInit, ConfigStep, PTL DEF Spec, ConfigInv, OnDisk

-----------------------------------------------------------------------------
(* What a step may never do.                                               *)

LEMMA UndoneStep == ConfigInv /\ [Next]_vars =>
    \A t \in Txs : journal[t].status # "ROLLED_BACK" /\ journal'[t].status = "ROLLED_BACK" =>
        /\ journal[t].phase # "PREPARED" => settings.gen = snap[t].gen
        /\ t \notin staging
        /\ journal[t].created /\ settings.gen # journal[t].gen => gens[journal[t].gen] = "none"
<1> SUFFICES ASSUME ConfigInv, [Next]_vars, NEW t \in Txs, journal[t].status # "ROLLED_BACK",
                    journal'[t].status = "ROLLED_BACK"
             PROVE  /\ journal[t].phase # "PREPARED" => settings.gen = snap[t].gen
                    /\ t \notin staging
                    /\ journal[t].created /\ settings.gen # journal[t].gen => gens[journal[t].gen] = "none"
    OBVIOUS
<1>0. journal \in [Txs -> Journals]
    BY DEF ConfigInv, TypeOK
<1>1. ASSUME NEW p \in Procs, Settle(p), at[p].todo # "PRESERVE_CONCURRENT", t = at[p].tx
      PROVE  /\ journal[t].phase # "PREPARED" => settings.gen = snap[t].gen
             /\ t \notin staging
             /\ journal[t].created /\ settings.gen # journal[t].gen => gens[journal[t].gen] = "none"
    BY <1>1 DEF ConfigInv, Annotation, AtRecovery, Settle
<1>2. \E p \in Procs : Settle(p)
    <2>1. ASSUME NEW p \in Procs, Recovery(p), ~Settle(p) PROVE FALSE
        BY <1>0, <2>1, ZenonT(60) DEF Recovery, RecoverPending, BeginRecovery, CheckRestore, RenameRestore, RemoveStaging,
           RemoveGeneration, GenerationGone, ReconcileRecovered, ReconcileFirst, disk, Journals
    <2>2. ASSUME NEW p \in Procs, Command(p) PROVE FALSE
        <3>1. CASE Begin(p) \/ Commit(p)
            BY <1>0, <3>1 DEF Begin, Commit, Journals, NoJournal
        <3>2. ASSUME NEW f, Phase(p, f) PROVE FALSE
            BY <1>0, <3>2 DEF Phase, Journals
        <3>3. ASSUME NEW b, Evidence(p, b) PROVE FALSE
            BY <1>0, <3>3 DEF Evidence, Journals
        <3>4. CASE UNCHANGED journal
            BY <3>4
        <3> QED BY <2>2, <3>1, <3>2, <3>3, <3>4 DEF Command, Backup, Stage, Promote, RecordPromotion,
            CheckPublish, RenamePublish, RecordPublication, Smoke, RecordGood, disk
    <2>3. ASSUME NEW p \in Procs, Plan(p) \/ Locking(p) \/ Crash(p) \/ Fails(p) PROVE FALSE
        BY <2>3 DEF Plan, PlanGraph, PlanUninstall, PlanRollback, Start, Locking, Acquire, MakeReclaim,
           InspectAgain, Archive, Claim, DropReclaim, Release, Released, Crash, Fails, disk
    <2>4. CASE Edit \/ UNCHANGED vars
        BY <2>4 DEF Edit, vars, disk
    <2> QED BY <2>1, <2>2, <2>3, <2>4 DEF Next
<1>3. PICK p \in Procs : Settle(p)
    BY <1>2
<1>4. at[p].todo # "PRESERVE_CONCURRENT" /\ t = at[p].tx
    BY <1>0, <1>3 DEF Settle, Journals
<1> QED BY <1>1, <1>3, <1>4

\* A transaction that ends as rolled back has left nothing of its own, whoever
\* recovers it and however often that is interrupted.
THEOREM RollbackUndoes == Spec => RolledBackIsUndone
BY ConfigInit, ConfigStep, UndoneStep, PTL DEF Spec, RolledBackIsUndone

LEMMA EditsStep == ConfigInv /\ ~EditInWindow /\ [Next]_vars => settings'.user >= settings.user
<1> SUFFICES ASSUME ConfigInv, ~EditInWindow, [Next]_vars PROVE settings'.user >= settings.user
    OBVIOUS
<1>0. settings \in Settings /\ settings.user \in Nat
    BY DEF ConfigInv, TypeOK, Settings
<1>1. ASSUME NEW p \in Procs, RenameRestore(p) PROVE settings'.user = settings.user
    <2>1. settings = at[p].cur /\ at[p].tx \in Txs /\ TypeOK
        BY <1>1, Working DEF ConfigInv, Annotation, RenameRestore
    <2>2. snap[at[p].tx].gen \in AnyGen
        BY <2>1 DEF TypeOK, Settings
    <2> QED BY <1>0, <1>1, <2>1, <2>2, WithType DEF RenameRestore
<1>2. ASSUME NEW p \in Procs, RenamePublish(p) PROVE settings'.user = settings.user
    <2>1. settings = at[p].cur /\ at[p].gen \in AnyGen
        BY <1>2, WorkTypes DEF ConfigInv, Annotation, RenamePublish, TypeOK
    <2> QED BY <1>0, <1>2, <2>1, WithType DEF RenamePublish
<1>3. CASE Edit
    BY <1>0, <1>3 DEF Edit, Settings
<1>4. CASE UNCHANGED settings
    BY <1>0, <1>4
<1>5. ASSUME NEW p \in Procs, Recovery(p), ~RenameRestore(p) PROVE UNCHANGED settings
    BY <1>5 DEF Recovery, RecoverPending, BeginRecovery, CheckRestore, RemoveStaging,
       RemoveGeneration, GenerationGone, ReconcileRecovered, Settle, ReconcileFirst, disk
<1>6. ASSUME NEW p \in Procs, Command(p), ~RenamePublish(p) PROVE UNCHANGED settings
    BY <1>6 DEF Command, Begin, Backup, Stage, Promote, RecordPromotion, CheckPublish,
       RecordPublication, Smoke, RecordGood, Commit, disk
<1>7. ASSUME NEW p \in Procs, Plan(p) \/ Locking(p) \/ Crash(p) \/ Fails(p) PROVE UNCHANGED settings
    BY <1>7 DEF Plan, PlanGraph, PlanUninstall, PlanRollback, Start, Locking, Acquire, MakeReclaim,
       InspectAgain, Archive, Claim, DropReclaim, Release, Released, Crash, Fails, disk
<1>8. CASE UNCHANGED vars
    BY <1>4, <1>8 DEF vars, disk
<1>9. ASSUME settings'.user = settings.user PROVE settings'.user >= settings.user
    BY <1>0, <1>9
<1> QED BY <1>1, <1>2, <1>3, <1>4, <1>5, <1>6, <1>7, <1>8, <1>9 DEF Next

\* What the user writes is never lost, as long as it is not written between the
\* check of the settings and their rename.
THEOREM UserEditsSurvive == ~EditInWindow => (Spec => EditsSurvive)
<1> SUFFICES ASSUME ~EditInWindow PROVE Spec => EditsSurvive
    OBVIOUS
<1>1. ConfigInv /\ [Next]_vars => settings'.user >= settings.user
    BY EditsStep
<1> QED BY <1>1, ConfigInit, ConfigStep, PTL DEF Spec, EditsSurvive
=============================================================================
