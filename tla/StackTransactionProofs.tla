----------------------- MODULE StackTransactionProofs -----------------------
(***************************************************************************)
(* Proofs about StackTransaction, for every set of stacks and every number *)
(* of transactions, edits and faults.                                      *)
(***************************************************************************)
EXTENDS StackTransaction, FiniteSums, SequenceTheorems

USE StackAssumption DEF Goes, Done

-----------------------------------------------------------------------------
(* Transactions and their order.                                           *)

\* The first transaction of a set.
LEMMA FirstIs ==
    ASSUME NEW S, S \subseteq Txs, S # {}
    PROVE  First(S) \in S /\ \A u \in S : First(S) <= u
<1> DEFINE T == {n \in 0..MaxTx : MaxTx + 1 - n \in S}
<1>1. T \subseteq Nat /\ IsFiniteSet(T)
    <2>1. T \subseteq 0..MaxTx /\ IsFiniteSet(0..MaxTx)
        BY FS_Interval
    <2> QED BY <2>1, FS_Subset
<1>2. \A u \in S : u \in 1..MaxTx /\ MaxTx + 1 - u \in T
    <2>1. \A u \in S : u \in Nat /\ u >= 1 /\ u <= MaxTx
        BY DEF Txs
    <2>2. \A u \in S : MaxTx + 1 - u \in 0..MaxTx /\ MaxTx + 1 - (MaxTx + 1 - u) = u
        BY <2>1
    <2> QED BY <2>1, <2>2
<1>3. T # {}
    BY <1>2
<1> HIDE DEF T
<1>4. Max(T) \in T /\ \A n \in T : Max(T) >= n
    BY <1>1, <1>3, MaxOfNat
<1>5. PICK m : m = Max(T)
    OBVIOUS
<1>6. PICK t : t = MaxTx + 1 - m
    OBVIOUS
<1>7. m \in 0..MaxTx /\ t \in S
    BY <1>4, <1>5, <1>6 DEF T
<1>8. \A u \in S : t <= u
    <2> TAKE u \in S
    <2>1. MaxTx + 1 - u <= m /\ u \in 1..MaxTx
        BY <1>2, <1>4, <1>5
    <2> QED BY <2>1, <1>6, <1>7
<1> QED BY <1>7, <1>8 DEF First

\* Sets of transactions are sets of numbers of transactions.
LEMMA IncompleteTxs == Incomplete \subseteq Txs /\ NewTx \subseteq Txs
BY DEF Incomplete, NewTx

\* What a command works on, part by part.
LEMMA WorkParts ==
    ASSUME at \in Works
    PROVE  /\ at.stack \in AnyStack /\ at.todo \in Seq(Txs) /\ at.tx \in 0..MaxTx
           /\ at.by \in {"none", "apply", "pending", "rollback"}
           /\ at.switch \in BOOLEAN /\ at.new \in BOOLEAN /\ at.cut \in BOOLEAN
           /\ at.links \in Seq([name : Links, to : AnyStack \union {Via}])
           /\ at.then \in {"idle", "verify", "state", "settings"}
           /\ at.written \in Settings \union {Nothing.written}
BY DEF Works

\* What an idle command works on has the type.
LEMMA NothingWorks == Nothing \in Works
<1>1. <<>> \in Seq(Txs) /\ <<>> \in Seq([name : Links, to : AnyStack \union {Via}])
    BY EmptySeq
<1>2. 0 \in 0..MaxTx
    OBVIOUS
<1> QED BY <1>1, <1>2 DEF Nothing, Works, AnyStack

\* What a command starts with, between two transactions and in a recovery.
LEMMA StartWorks ==
    /\ \A s \in AnyStack : [Nothing EXCEPT !.stack = s] \in Works
    /\ \A q \in Seq(Txs) : [Nothing EXCEPT !.todo = q] \in Works
    /\ \A s \in AnyStack, q \in Seq(Txs) : [Nothing EXCEPT !.stack = s, !.todo = q] \in Works
    /\ \A t \in 0..MaxTx, b \in {"apply", "pending", "rollback"} :
          [Nothing EXCEPT !.tx = t, !.by = b] \in Works
<1>1. ASSUME NEW s \in AnyStack PROVE [Nothing EXCEPT !.stack = s] \in Works
    BY <1>1, NothingWorks DEF Works
<1>2. ASSUME NEW q \in Seq(Txs) PROVE [Nothing EXCEPT !.todo = q] \in Works
    BY <1>2, NothingWorks DEF Works
<1>3. ASSUME NEW s \in AnyStack, NEW q \in Seq(Txs)
      PROVE  [Nothing EXCEPT !.stack = s, !.todo = q] \in Works
    BY <1>3, NothingWorks DEF Works
<1>4. ASSUME NEW t \in 0..MaxTx, NEW b \in {"apply", "pending", "rollback"}
      PROVE  [Nothing EXCEPT !.tx = t, !.by = b] \in Works
    BY <1>4, NothingWorks DEF Works
<1> QED BY <1>1, <1>2, <1>3, <1>4

-----------------------------------------------------------------------------
(* Types.                                                                  *)

\* Links lead to stacks, and those of a manifest never through another link.
LEMMA LeadsType ==
    ASSUME Typed, NEW l \in Links
    PROVE  Leads(l) \in AnyStack /\ (l \in {"current", "lkg"} => Leads(l) = link[l])
BY DEF Typed, Leads, Links, AnyStack

\* A manifest that is there is a whole one.
LEMMA ManifestParts ==
    ASSUME Typed, NEW t \in Txs, manifest[t].on
    PROVE  manifest[t] \in Manifests
BY DEF Typed, NoManifest

\* A manifest, part by part.
LEMMA ManifestFields ==
    ASSUME NEW m \in Manifests
    PROVE  /\ m.on /\ m.settings \in Settings /\ m.state \in States /\ m.link \in [Links -> AnyStack]
           /\ m.npm \in Roots /\ m.good \in AnyStack /\ m.switch \in BOOLEAN
           /\ m.untouched \in BOOLEAN /\ m.target \in BOOLEAN /\ m.published \in Settings
           /\ m.harness \in BOOLEAN
BY DEF Manifests

\* A status that is written in a journal, and what stays of it.
LEMMA MarkedType ==
    ASSUME Typed, NEW t \in Txs, NEW s \in {"ACTIVE", "RECOVERING", "COMMITTED", "ROLLED_BACK", "MANUAL"}
    PROVE  /\ Marked(t, s) \in [Txs -> Journals]
           /\ \A u \in Txs : Marked(t, s)[u].stack = journal[u].stack
           /\ \A u \in Txs : Marked(t, s)[u].status = IF u = t THEN s ELSE journal[u].status
<1>1. journal \in [Txs -> Journals]
    BY DEF Typed
<1>2. [journal[t] EXCEPT !.status = s] \in Journals /\ [journal[t] EXCEPT !.status = s].status = s
      /\ [journal[t] EXCEPT !.status = s].stack = journal[t].stack
    BY <1>1 DEF Journals
<1>3. Marked(t, s) = [journal EXCEPT ![t] = [journal[t] EXCEPT !.status = s]]
    BY <1>1 DEF Marked
<1> QED BY <1>1, <1>2, <1>3

\* The part of Typed that a command's own steps are about.
Filed ==
    /\ journal \in [Txs -> Journals] /\ manifest \in [Txs -> Manifests \union {NoManifest}]
    /\ state \in States /\ link \in [Links -> AnyStack \union {Via}]
    /\ link["current"] # Via /\ link["lkg"] # Via
    /\ dir \in [Stacks -> {"none", "partial", "whole"}] /\ stage \in [Txs -> {"none", "partial", "whole"}]
    /\ settings \in Settings /\ good \in AnyStack /\ npm \in Roots
    /\ fresh \subseteq Txs /\ kept \in [Txs -> Trees \union {None}]

\* The types are those of the files and those of the command.
LEMMA TypedParts == Typed <=> Filed /\ pc \in Labels /\ at \in Works /\ faults \in 0..MaxFaults
BY DEF Typed, Filed

\* The same of the next state.
LEMMA TypedNext ==
    Typed' <=> Filed' /\ pc' \in Labels /\ at' \in Works /\ faults' \in 0..MaxFaults
BY DEF Typed, Filed

\* A step that writes no file keeps the types of the files.
LEMMA SameFiles == ASSUME Typed, UNCHANGED disk PROVE Filed'
BY DEF Typed, Filed, disk

\* The steps that change no file.
LEMMA QuietTypes ==
    ASSUME Typed, Annotation,
           \/ \E s \in Stacks : Install(s)
           \/ \E n \in 1..Len(state.txs) : Lifecycle(n)
           \/ RecoverPending \/ NextRollback \/ Verify \/ Fails \/ RestoreLinks \/ Crash
    PROVE  Typed'
<1> USE DEF Labels, Applying, RecoverySteps
<1>0. at \in Works /\ UNCHANGED disk /\ faults \in 0..MaxFaults /\ pc \in Labels
    BY DEF Typed, Install, Lifecycle, RecoverPending, NextRollback, Verify, Fails, RestoreLinks, Crash
<1>1. Filed'
    BY <1>0, SameFiles
<1>2. CASE \E s \in Stacks : Install(s)
    <2>1. PICK s \in Stacks : Install(s)
        BY <1>2
    <2>2. s \in AnyStack /\ at' = [Nothing EXCEPT !.stack = s]
        BY <2>1 DEF Install, AnyStack
    <2>3. at' \in Works
        BY <2>2, StartWorks
    <2> QED BY <1>0, <1>1, <2>1, <2>3, TypedNext DEF Install
<1>3. CASE \E n \in 1..Len(state.txs) : Lifecycle(n)
    <2>1. PICK n \in 1..Len(state.txs) : Lifecycle(n)
        BY <1>3
    <2>2. state.txs \in Seq(Txs)
        BY DEF Typed, States
    <2>3. Undoes(n) \in Seq(Txs)
        <3>1. Len(state.txs) \in Nat /\ \A i \in 1..Len(state.txs) : state.txs[i] \in Txs
            BY <2>2, ElementOfSeq, LenProperties
        <3>2. n \in Nat /\ \A i \in 1..n : Len(state.txs) + 1 - i \in 1..Len(state.txs)
            BY <3>1
        <3>3. Undoes(n) \in [1..n -> Txs]
            BY <3>1, <3>2 DEF Undoes
        <3> QED BY <3>2, <3>3
    <2>4. PICK q \in Seq(Txs) : q = Undoes(n)
        BY <2>3
    <2>5. at' \in Works
        <3>1. at' = [Nothing EXCEPT !.todo = q]
            BY <2>1, <2>4 DEF Lifecycle
        <3> QED BY <3>1, StartWorks
    <2> QED BY <1>0, <1>1, <2>1, <2>5, TypedNext DEF Lifecycle
<1>4. CASE RecoverPending
    <2>1. Incomplete # {} => First(Incomplete) \in 0..MaxTx
        <3>1. Incomplete # {} => First(Incomplete) \in Txs
            BY FirstIs, IncompleteTxs
        <3> QED BY <3>1 DEF Txs
    <2>2. at' \in Works
        <3>1. CASE Incomplete # {} /\ at' = [at EXCEPT !.tx = First(Incomplete), !.by = "pending"]
            BY <1>0, <2>1, <3>1 DEF Works
        <3>2. ASSUME NEW b \in BOOLEAN, at' = [at EXCEPT !.switch = b] PROVE at' \in Works
            BY <1>0, <3>2 DEF Works
        <3> QED BY <1>0, <1>4, <3>1, <3>2, NothingWorks DEF RecoverPending
    <2>3. pc' \in Labels
        BY <1>4 DEF RecoverPending
    <2> QED BY <1>0, <1>1, <1>4, <2>2, <2>3, TypedNext DEF RecoverPending
<1>5. CASE NextRollback
    <2>1. at.todo # <<>> => Head(at.todo) \in 0..MaxTx /\ Tail(at.todo) \in Seq(Txs)
        <3>1. at.todo # <<>> => Head(at.todo) \in Txs /\ Tail(at.todo) \in Seq(Txs)
            BY <1>0, WorkParts, HeadTailProperties
        <3> QED BY <3>1 DEF Txs
    <2>2. at' \in Works
        <3>1. CASE at.todo # <<>> /\ at' = [at EXCEPT !.tx = Head(at.todo), !.todo = Tail(at.todo), !.by = "rollback"]
            BY <1>0, <2>1, <3>1 DEF Works
        <3> QED BY <1>0, <1>5, <3>1, NothingWorks DEF NextRollback
    <2> QED BY <1>0, <1>1, <1>5, <2>2, TypedNext DEF NextRollback
<1>6. CASE Fails
    <2>1. PICK t \in 0..MaxTx : t = at.tx
        BY <1>0, WorkParts
    <2>2. at' \in Works
        <3>1. at' = [Nothing EXCEPT !.tx = t, !.by = "apply"]
            BY <1>6, <2>1 DEF Fails
        <3> QED BY <3>1, StartWorks
    <2> QED BY <1>0, <1>1, <1>6, <2>2, TypedNext DEF Fails
<1>7. CASE Crash
    <2>1. faults' \in 0..MaxFaults
        <3>1. faults < MaxFaults /\ faults' = faults + 1
            BY <1>7 DEF Crash
        <3>2. MaxFaults \in Nat /\ faults \in 0..MaxFaults
            BY <1>0
        <3> QED BY <3>1, <3>2
    <2> QED BY <1>0, <1>1, <1>7, <2>1, NothingWorks, TypedNext DEF Crash
<1>8. CASE Verify
    <2>1. manifest[at.tx].link["current"] \in AnyStack
        BY <1>8, ManifestParts, ManifestFields DEF Verify, Annotation, InApply, AtApply, Applying, Links
    <2>2. <<Write("lkg", manifest[at.tx].link["current"])>> \in Seq([name : Links, to : AnyStack \union {Via}])
        BY <2>1 DEF Write, Links
    <2>3. at' \in Works
        BY <1>0, <1>8, <2>2 DEF Verify, Works
    <2> QED BY <1>0, <1>1, <1>8, <2>3, TypedNext DEF Verify
<1>9. CASE RestoreLinks
    <2> DEFINE L == [i \in DOMAIN RestoredLinks |-> Write(RestoredLinks[i], manifest[at.tx].link[RestoredLinks[i]])]
    <2>1. manifest[at.tx].link \in [Links -> AnyStack]
        BY <1>9, ManifestParts, ManifestFields DEF RestoreLinks, Annotation, Recovering, AtRecovery
    <2>2. L \in Seq([name : Links, to : AnyStack \union {Via}])
        <3>1. DOMAIN RestoredLinks = 1..4 /\ \A i \in 1..4 : RestoredLinks[i] \in Links
            BY DEF RestoredLinks, Links
        <3> QED BY <2>1, <3>1, IsASeq DEF Write
    <2> HIDE DEF L
    <2>3. at' = [at EXCEPT !.then = "settings", !.links = L]
        BY <1>9 DEF RestoreLinks, After, L
    <2>4. at' \in Works
        BY <1>0, <2>2, <2>3 DEF Works
    <2> QED BY <1>0, <1>1, <1>9, <2>4, TypedNext DEF RestoreLinks
<1> QED BY <1>2, <1>3, <1>4, <1>5, <1>6, <1>7, <1>8, <1>9

\* Where a command works on a transaction, and on one with a manifest.
LEMMA AtTx ==
    ASSUME Typed, Annotation
    PROVE  /\ InApply => at.tx \in Txs /\ at.stack \in Stacks /\ at.stack \in AnyStack
           /\ InApply /\ pc # "backup" => manifest[at.tx] \in Manifests
           /\ Recovering => at.tx \in Txs /\ manifest[at.tx] \in Manifests
           /\ pc = "mark" => at.tx \in Txs
<1>1. InApply => at.tx \in Txs /\ at.stack \in Stacks /\ at.stack \in AnyStack
    BY DEF Annotation, AtApply, AnyStack
<1>2. InApply /\ pc # "backup" => manifest[at.tx] \in Manifests
    <2>1. InApply /\ pc # "backup" => manifest[at.tx].on
        BY DEF Annotation, AtApply
    <2> QED BY <1>1, <2>1, ManifestParts
<1>3. Recovering => at.tx \in Txs /\ manifest[at.tx] \in Manifests
    <2>1. Recovering => at.tx \in Txs /\ manifest[at.tx].on
        BY DEF Annotation, AtRecovery
    <2> QED BY <2>1, ManifestParts
<1>4. pc = "mark" => at.tx \in Txs
    BY DEF Annotation, AtMark
<1> QED BY <1>1, <1>2, <1>3, <1>4

\* The types, part by part.
LEMMA FiledParts ==
    ASSUME Typed
    PROVE  /\ journal \in [Txs -> Journals] /\ manifest \in [Txs -> Manifests \union {NoManifest}]
           /\ state \in States /\ link \in [Links -> AnyStack \union {Via}]
           /\ link["current"] # Via /\ link["lkg"] # Via
           /\ dir \in [Stacks -> {"none", "partial", "whole"}]
           /\ stage \in [Txs -> {"none", "partial", "whole"}]
           /\ settings \in Settings /\ good \in AnyStack /\ npm \in Roots
           /\ fresh \subseteq Txs /\ kept \in [Txs -> Trees \union {None}]
           /\ pc \in Labels /\ at \in Works /\ faults \in 0..MaxFaults
BY DEF Typed

\* Every step of apply is one of a transaction in its first run.
LEMMA StepLabels ==
    ASSUME pc \in Applying
    PROVE  InApply
BY DEF InApply

\* The settings and what publication makes of them.
LEMMA SettingsTypes ==
    ASSUME settings \in Settings
    PROVE  /\ settings.packages \in AnyStack \union {"other"} /\ settings.gen \in AnyStack
           /\ settings.user \in 0..MaxEdits
           /\ \A s \in AnyStack : [settings EXCEPT !.packages = s] \in Settings
           /\ \A s \in AnyStack : [settings EXCEPT !.gen = s] \in Settings
BY DEF Settings

\* The steps of apply that change files.
LEMMA ApplyTypes ==
    ASSUME Typed, Annotation,
           Begin \/ Backup \/ Stage \/ Switch \/ Publish \/ PublishGeneration \/ RecordPublished
           \/ Activate \/ RecordState \/ Commit
    PROVE  Typed'
<1> USE DEF Labels, Applying, RecoverySteps
<1>0. at \in Works /\ faults \in 0..MaxFaults
    BY FiledParts
<1>1. CASE Begin
    <2>1. First(NewTx) \in Txs
        BY <1>1, FirstIs, IncompleteTxs DEF Begin
    <2>2. PICK t \in Txs : t = First(NewTx)
        BY <2>1
    <2>3. at.stack \in AnyStack
        BY <1>0, WorkParts
    <2>4. [status |-> "ACTIVE", stack |-> at.stack] \in Journals
        BY <2>3 DEF Journals
    <2>5. journal' = [journal EXCEPT ![t] = [status |-> "ACTIVE", stack |-> at.stack]] /\ at' = [at EXCEPT !.tx = t]
        BY <1>1, <2>2 DEF Begin
    <2>6. Filed'
        <3>1. journal' \in [Txs -> Journals]
            BY <2>4, <2>5, FiledParts
        <3> QED BY <1>1, <3>1, FiledParts DEF Begin, Filed
    <2>7. t \in 0..MaxTx
        BY DEF Txs
    <2>8. at' \in Works
        BY <1>0, <2>5, <2>7 DEF Works
    <2> QED BY <1>0, <1>1, <2>6, <2>8, TypedNext DEF Begin
<1>2. CASE Backup
    <2>1. PICK b \in BOOLEAN, u \in BOOLEAN : b = at.switch /\ u = (at.stack \in Private)
        <3>1. at.switch \in BOOLEAN
            BY <1>0, WorkParts
        <3>2. (at.stack \in Private) \in BOOLEAN
            OBVIOUS
        <3> QED BY <3>1, <3>2, Zenon
    <2>2. PICK L : L = [l \in Links |-> Leads(l)]
        OBVIOUS
    <2>3. L \in [Links -> AnyStack]
        BY <2>2, LeadsType
    <2>4. PICK m : m = [on |-> TRUE, settings |-> settings, state |-> state, link |-> L,
           npm |-> npm, good |-> good, switch |-> b, untouched |-> u,
           target |-> FALSE, published |-> settings, harness |-> FALSE]
        OBVIOUS
    <2>5. m \in Manifests
        BY <2>1, <2>3, <2>4, FiledParts DEF Manifests
    <2>6. manifest' = [manifest EXCEPT ![at.tx] = m]
        BY <1>2, <2>1, <2>2, <2>4 DEF Backup
    <2>7. Filed'
        <3>1. manifest' \in [Txs -> Manifests \union {NoManifest}]
            BY <2>5, <2>6, FiledParts
        <3> QED BY <1>2, <3>1, FiledParts DEF Backup, Filed
    <2> QED BY <1>0, <1>2, <2>7, TypedNext DEF Backup
<1>3. CASE Stage
    <2>1. at.tx \in Txs
        BY <1>3, AtTx, StepLabels DEF Stage
    <2>2. Filed'
        BY <1>3, <2>1, FiledParts DEF Stage, Filed
    <2>3. pc' \in Labels
        BY <1>3 DEF Stage
    <2> QED BY <1>0, <1>3, <2>2, <2>3, TypedNext DEF Stage
<1>4. CASE Switch
    <2>1. at.tx \in Txs /\ AtApply
        BY <1>4, AtTx, StepLabels DEF Switch, Annotation
    <2>2. npm' \in Roots /\ fresh' \subseteq Txs
        BY <1>4, FiledParts DEF Switch, Roots
    <2>3. kept' \in [Txs -> Trees \union {None}]
        <3>1. CASE at.switch /\ npm # None
            <4>1. npm \in Trees
                BY <1>4, <2>1, <3>1, FiledParts DEF Switch, AtApply, Roots, Supplied
            <4> QED BY <1>4, <2>1, <3>1, <4>1, FiledParts DEF Switch
        <3> QED BY <1>4, <3>1, FiledParts DEF Switch
    <2>4. Filed'
        BY <1>4, <2>2, <2>3, FiledParts DEF Switch, Filed
    <2> QED BY <1>0, <1>4, <2>4, TypedNext DEF Switch
<1>5. CASE Publish
    <2>1. at.stack \in AnyStack
        BY <1>5, AtTx, StepLabels DEF Publish
    <2>2. settings' \in Settings
        BY <1>5, <2>1, FiledParts, SettingsTypes DEF Publish
    <2>3. Filed'
        BY <1>5, <2>2, FiledParts DEF Publish, Filed
    <2> QED BY <1>0, <1>5, <2>3, TypedNext DEF Publish
<1>6. CASE PublishGeneration
    <2>1. at.stack \in AnyStack
        BY <1>6, AtTx, StepLabels DEF PublishGeneration
    <2>2. PICK c \in Changes : \E s \in {[settings EXCEPT !.gen = IF c THEN at.stack ELSE settings.gen]} :
             /\ settings' = s /\ good' = IF c THEN at.stack ELSE good
             /\ pc' = "record" /\ at' = [at EXCEPT !.new = c, !.written = s]
        BY <1>6 DEF PublishGeneration
    <2>3. PICK g \in AnyStack : g = IF c THEN at.stack ELSE settings.gen
        BY <2>1, FiledParts, SettingsTypes
    <2>4. PICK s \in Settings : s = [settings EXCEPT !.gen = g]
        BY FiledParts, SettingsTypes
    <2>5. settings' = s /\ at' = [at EXCEPT !.new = c, !.written = s]
        BY <2>2, <2>3, <2>4
    <2>6. good' \in AnyStack
        BY <2>1, <2>2, FiledParts
    <2>7. Filed'
        BY <1>6, <2>5, <2>6, FiledParts DEF PublishGeneration, Filed
    <2>8. c \in BOOLEAN
        OBVIOUS
    <2>9. at' \in Works
        BY <1>0, <2>5, <2>8 DEF Works
    <2> QED BY <1>0, <1>6, <2>2, <2>7, <2>9, TypedNext DEF PublishGeneration
<1>7. CASE RecordPublished
    <2>1. at.tx \in Txs /\ manifest[at.tx] \in Manifests /\ at.written \in Settings /\ at.new \in BOOLEAN
        BY <1>0, <1>7, AtTx, StepLabels, WorkParts DEF RecordPublished, Annotation, AtApply
    <2>2. PICK m, s, b : m = manifest[at.tx] /\ s = at.written /\ b = at.new
        OBVIOUS
    <2>3. PICK n : n = [m EXCEPT !.target = TRUE, !.published = s, !.harness = b]
        OBVIOUS
    <2>4. n \in Manifests
        BY <2>1, <2>2, <2>3 DEF Manifests
    <2>5. manifest' = [manifest EXCEPT ![at.tx] = n]
        BY <1>7, <2>2, <2>3 DEF RecordPublished
    <2>6. Filed'
        <3>1. manifest' \in [Txs -> Manifests \union {NoManifest}]
            BY <2>4, <2>5, FiledParts
        <3> QED BY <1>7, <3>1, FiledParts DEF RecordPublished, Filed
    <2>7. PICK w : w = Nothing.written
        OBVIOUS
    <2>8. at' = [at EXCEPT !.new = FALSE, !.written = w]
        BY <1>7, <2>7 DEF RecordPublished
    <2>9. at' \in Works
        BY <1>0, <2>7, <2>8 DEF Works
    <2> QED BY <1>0, <1>7, <2>6, <2>9, TypedNext DEF RecordPublished
<1>8. CASE Activate
    <2>1. at.tx \in Txs /\ at.stack \in Stacks /\ at.stack \in AnyStack
        BY <1>8, AtTx, StepLabels DEF Activate
    <2>2. Filed'
        BY <1>8, <2>1, FiledParts DEF Activate, Filed
    <2>3. PICK q : q = <<Write("current", at.stack), Write("omp", Via), Write("pi", Via)>>
        OBVIOUS
    <2>4. q \in Seq([name : Links, to : AnyStack \union {Via}])
        BY <2>1, <2>3 DEF Write, Links
    <2>5. at' = [at EXCEPT !.then = "verify", !.links = q]
        BY <1>8, <2>3 DEF Activate
    <2>6. at' \in Works
        BY <1>0, <2>4, <2>5 DEF Works
    <2> QED BY <1>0, <1>8, <2>2, <2>6, TypedNext DEF Activate
<1>9. CASE RecordState
    <2>1. at.tx \in Txs /\ at.stack \in AnyStack /\ manifest[at.tx].state \in States
        BY <1>9, AtTx, StepLabels, ManifestFields DEF RecordState
    <2>2. PICK o : o = manifest[at.tx].state
        OBVIOUS
    <2>3. PICK q : q = Append(o.txs, at.tx)
        OBVIOUS
    <2>4. o.active \in AnyStack /\ q \in Seq(Txs)
        BY <2>1, <2>2, <2>3, AppendProperties DEF States
    <2>5. state' = [active |-> at.stack, lkg |-> o.active, txs |-> q]
        BY <1>9, <2>2, <2>3 DEF RecordState
    <2>6. state' \in States
        BY <2>1, <2>4, <2>5 DEF States
    <2>7. Filed'
        BY <1>9, <2>6, FiledParts DEF RecordState, Filed
    <2> QED BY <1>0, <1>9, <2>7, TypedNext DEF RecordState
<1>10. CASE Commit
    <2>1. journal' \in [Txs -> Journals]
        BY <1>10, AtTx, StepLabels, MarkedType DEF Commit
    <2>2. Filed'
        BY <1>10, <2>1, FiledParts DEF Commit, Filed
    <2> QED BY <1>0, <1>10, <2>2, NothingWorks, TypedNext DEF Commit
<1> QED BY <1>1, <1>2, <1>3, <1>4, <1>5, <1>6, <1>7, <1>8, <1>9, <1>10

\* How a recovery ends, whoever has begun it.
LEMMA AfterRecoveryIs ==
    ASSUME at \in Works, AfterRecovery
    PROVE  /\ pc' \in {"idle", "recover", "next"} /\ at' \in Works
           /\ pc' = "recover" => at'.stack = at.stack /\ at'.todo = at.todo
           /\ pc' = "next" => at.by = "rollback" /\ at'.todo = at.todo
           /\ at'.todo = at.todo \/ at'.todo = <<>>
           /\ at'.by = "none" /\ ~at'.cut
           /\ pc' = "recover" => at.by = "pending"
<1>1. PICK s \in AnyStack, q \in Seq(Txs) : s = at.stack /\ q = at.todo
    BY WorkParts
<1>2. PICK w1 : w1 = [Nothing EXCEPT !.stack = s, !.todo = q]
    OBVIOUS
<1>3. PICK w2 : w2 = [Nothing EXCEPT !.todo = q]
    OBVIOUS
<1>4. /\ w1 \in Works /\ w2 \in Works
      /\ w1.stack = s /\ w1.todo = q /\ w1.by = "none" /\ ~w1.cut
      /\ w2.todo = q /\ w2.by = "none" /\ ~w2.cut
      /\ Nothing.todo = <<>> /\ Nothing.by = "none" /\ ~Nothing.cut
    <2>1. w1 \in Works /\ w2 \in Works
        BY <1>2, <1>3, StartWorks
    <2> QED BY <2>1, <1>2, <1>3 DEF Nothing
<1>5. \/ at.by = "apply" /\ pc' = "idle" /\ at' = Nothing
      \/ at.by = "pending" /\ pc' = "recover" /\ at' = w1
      \/ at.by = "rollback" /\ pc' = "next" /\ at' = w2
    BY <1>1, <1>2, <1>3 DEF AfterRecovery
<1> QED BY <1>1, <1>4, <1>5, NothingWorks

\* A recovery that throws keeps the type of the journals.
LEMMA ThrowTypes ==
    ASSUME Typed, at.tx \in Txs, Throw
    PROVE  /\ journal' \in [Txs -> Journals] /\ pc' = "idle" /\ at' = Nothing
BY MarkedType, FiledParts DEF Throw

\* restoreLink: links stay typed, and current and lkg never go through a link.
LEMMA WriteLinkTypes ==
    ASSUME Typed, Annotation, WriteLink
    PROVE  Typed'
<1> USE DEF Labels, Applying, RecoverySteps
<1>0. at \in Works /\ faults \in 0..MaxFaults /\ pc = "link"
    BY FiledParts DEF WriteLink
<1>1. \A i \in DOMAIN at.links : /\ at.links[i].name \in Links /\ at.links[i].to \in AnyStack \union {Via}
                                 /\ at.links[i].name \in {"current", "lkg"} => at.links[i].to # Via
    <2>1. at.links \in Seq([name : Links, to : AnyStack \union {Via}])
        BY <1>0, WorkParts
    <2>2. \A i \in DOMAIN at.links : at.links[i].name \in Links /\ at.links[i].to \in AnyStack \union {Via}
        <3>1. PICK q \in Seq([name : Links, to : AnyStack \union {Via}]) : q = at.links
            BY <2>1
        <3>2. DOMAIN q = 1..Len(q) /\ \A i \in 1..Len(q) : q[i] \in [name : Links, to : AnyStack \union {Via}]
            BY ElementOfSeq, LenProperties
        <3>3. \A i \in 1..Len(q) : q[i].name \in Links /\ q[i].to \in AnyStack \union {Via}
            BY <3>2
        <3> QED BY <3>1, <3>2, <3>3
    <2>3. CASE at.by = "none"
        <3>1. AtApply /\ at.stack \in Stacks /\ manifest[at.tx].link \in [Links -> AnyStack]
            BY <1>0, <2>3, AtTx, ManifestFields DEF Annotation, InApply
        <3>2. \/ Filling(Leading) \/ Filling(LastGood)
            BY <1>0, <3>1 DEF AtApply
        <3>3. /\ DOMAIN Leading = Links \ {"lkg"} /\ Leading["current"] = at.stack
              /\ DOMAIN LastGood = {"lkg"} /\ LastGood["lkg"] = manifest[at.tx].link["current"]
              /\ LastGood["lkg"] \in AnyStack
            BY <3>1 DEF Leading, LastGood, Links
        <3>4. at.stack # Via /\ Via \notin AnyStack
            BY <3>1 DEF AnyStack
        <3> QED BY <2>2, <3>2, <3>3, <3>4 DEF Filling
    <2>4. CASE at.by # "none"
        <3>1. AtRecovery /\ manifest[at.tx].link \in [Links -> AnyStack]
            BY <1>0, <2>4, AtTx, ManifestFields DEF Annotation, Recovering
        <3>2. Filling(manifest[at.tx].link)
            BY <1>0, <3>1 DEF AtRecovery
        <3>3. Via \notin AnyStack
            BY DEF AnyStack
        <3> QED BY <2>2, <3>1, <3>2, <3>3 DEF Filling
    <2> QED BY <2>3, <2>4
<1>2. CASE at.links = <<>>
    <2>1. Filed' /\ pc' = at.then /\ at' = at
        BY <1>2, FiledParts DEF WriteLink, Filed
    <2> QED BY <1>0, <2>1, TypedNext, WorkParts DEF WriteLink
<1>3. CASE at.links # <<>>
    <2>1. PICK w : w = Head(at.links)
        OBVIOUS
    <2>2. /\ w.name \in Links /\ w.to \in AnyStack \union {Via} /\ (w.name \in {"current", "lkg"} => w.to # Via)
          /\ Tail(at.links) \in Seq([name : Links, to : AnyStack \union {Via}])
        <3>1. 1 \in DOMAIN at.links /\ w = at.links[1]
            BY <1>0, <1>3, <2>1, WorkParts
        <3>2. Tail(at.links) \in Seq([name : Links, to : AnyStack \union {Via}])
            BY <1>0, <1>3, WorkParts, HeadTailProperties
        <3> QED BY <3>1, <3>2, <1>1
    <2>3. PICK q \in Seq([name : Links, to : AnyStack \union {Via}]) : q = Tail(at.links)
        BY <2>2
    <2>4. /\ pc' = "link"
          /\ \/ link' = [link EXCEPT ![w.name] = None] /\ at' = [at EXCEPT !.cut = TRUE]
             \/ link' = [link EXCEPT ![w.name] = w.to] /\ at' = [at EXCEPT !.cut = FALSE, !.links = q]
        BY <1>3, <2>1, <2>3 DEF WriteLink
    <2>5. /\ link' \in [Links -> AnyStack \union {Via}]
          /\ link'["current"] # Via /\ link'["lkg"] # Via
        <3>1. link \in [Links -> AnyStack \union {Via}] /\ link["current"] # Via /\ link["lkg"] # Via
            BY FiledParts
        <3>2. "current" \in Links /\ "lkg" \in Links /\ None \in AnyStack /\ None # Via
            BY DEF Links, AnyStack
        <3> QED BY <2>2, <2>4, <3>1, <3>2
    <2>6. at' \in Works
        <3>1. at \in Works
            BY FiledParts
        <3>2. [at EXCEPT !.cut = TRUE] \in Works /\ [at EXCEPT !.cut = FALSE, !.links = q] \in Works
            BY <2>3, <3>1 DEF Works
        <3> QED BY <2>4, <3>2
    <2>7. Filed'
        BY <2>5, FiledParts DEF WriteLink, Filed
    <2> QED BY <1>0, <2>4, <2>6, <2>7, TypedNext DEF WriteLink
<1> QED BY <1>2, <1>3

\* The steps of a recovery, and the user.
LEMMA RecoveryTypes ==
    ASSUME Typed, Annotation,
           Mark \/ Read \/ HarnessRollback \/ HarnessFails \/ RestoreSettings \/ RestoreState
           \/ RestoreTree \/ Unstage \/ Drop \/ Settle \/ Edit
    PROVE  Typed'
<1> USE DEF Labels, Applying, RecoverySteps
<1>0. at \in Works /\ faults \in 0..MaxFaults
    BY FiledParts
<1>1. CASE Mark
    <2>1. at.tx \in Txs
        BY <1>1, AtTx DEF Mark
    <2>2. journal' \in [Txs -> Journals]
        BY <1>1, <2>1, MarkedType DEF Mark
    <2>3. Filed'
        BY <1>1, <2>2, FiledParts DEF Mark, Filed
    <2>4. pc' \in Labels /\ at' \in Works
        BY <1>0, <1>1, AfterRecoveryIs DEF Mark
    <2> QED BY <1>0, <1>1, <2>3, <2>4, TypedNext DEF Mark
<1>2. CASE Read
    <2>1. at.tx \in Txs /\ manifest[at.tx] \in Manifests
        BY <1>2, AtTx DEF Read, Recovering
    <2>2. CASE journal' \in [Txs -> Journals] /\ pc' = "idle" /\ at' = Nothing
        <3>1. Filed'
            BY <1>2, <2>2, FiledParts DEF Read, Filed
        <3> QED BY <1>0, <1>2, <2>2, <3>1, NothingWorks, TypedNext DEF Read
    <2>3. CASE pc' = "harness" /\ at' = [at EXCEPT !.written = Restored(manifest[at.tx])] /\ UNCHANGED journal
        <3>1. PICK m : m = manifest[at.tx]
            OBVIOUS
        <3>2. PICK v \in Settings : v = Restored(m)
            <4>1. m.settings \in Settings /\ settings.user \in 0..MaxEdits
                BY <2>1, <3>1, ManifestFields, FiledParts, SettingsTypes
            <4>2. PICK u \in 0..MaxEdits : u = settings.user
                BY <4>1
            <4>3. [m.settings EXCEPT !.user = u] \in Settings
                BY <4>1 DEF Settings
            <4> QED BY <4>1, <4>2, <4>3 DEF Restored
        <3>3. at' = [at EXCEPT !.written = v]
            BY <2>3, <3>1, <3>2
        <3>4. at' \in Works
            BY <1>0, <3>3 DEF Works
        <3>5. Filed'
            BY <1>2, <2>3, FiledParts DEF Read, Filed
        <3> QED BY <1>0, <1>2, <2>3, <3>4, <3>5, TypedNext DEF Read
    <2> QED BY <1>2, <2>1, <2>2, <2>3, ThrowTypes, MarkedType DEF Read, After
<1>3. CASE HarnessRollback
    <2>1. manifest[at.tx] \in Manifests
        BY <1>3, AtTx DEF HarnessRollback, Recovering
    <2>2. manifest[at.tx].settings.gen \in AnyStack /\ manifest[at.tx].good \in AnyStack
        BY <2>1, ManifestFields DEF Settings
    <2>3. settings' \in Settings /\ good' \in AnyStack
        BY <1>3, <2>2, FiledParts, SettingsTypes DEF HarnessRollback
    <2>4. Filed'
        BY <1>3, <2>3, FiledParts DEF HarnessRollback, Filed
    <2> QED BY <1>0, <1>3, <2>4, TypedNext DEF HarnessRollback, After
<1>4. CASE HarnessFails
    <2>1. at.tx \in Txs
        BY <1>4, AtTx DEF HarnessFails, Recovering
    <2>2. journal' \in [Txs -> Journals] /\ pc' = "idle" /\ at' = Nothing
        BY <1>4, <2>1, ThrowTypes DEF HarnessFails
    <2>3. Filed'
        BY <1>4, <2>2, FiledParts DEF HarnessFails, Filed
    <2>4. faults' \in 0..MaxFaults
        <3>1. faults < MaxFaults /\ faults' = faults + 1
            BY <1>4 DEF HarnessFails
        <3>2. MaxFaults \in Nat /\ faults \in 0..MaxFaults
            BY <1>0
        <3> QED BY <3>1, <3>2
    <2> QED BY <2>2, <2>3, <2>4, NothingWorks, TypedNext
<1>5. CASE RestoreSettings
    <2>1. at.written \in Settings
        BY <1>5 DEF RestoreSettings, Annotation, Recovering, AtRecovery
    <2>2. settings' \in Settings
        BY <1>5, <2>1, FiledParts DEF RestoreSettings
    <2>3. Filed'
        BY <1>5, <2>2, FiledParts DEF RestoreSettings, Filed
    <2>4. PICK w : w = Nothing.written
        OBVIOUS
    <2>5. at' = [at EXCEPT !.written = w]
        BY <1>5, <2>4 DEF RestoreSettings
    <2>6. at' \in Works
        BY <1>0, <2>4, <2>5 DEF Works
    <2> QED BY <1>0, <1>5, <2>3, <2>6, TypedNext DEF RestoreSettings, After
<1>6. CASE RestoreState
    <2>1. manifest[at.tx].state \in States
        BY <1>6, AtTx, ManifestFields DEF RestoreState, Recovering
    <2>2. Filed'
        BY <1>6, <2>1, FiledParts DEF RestoreState, Filed
    <2> QED BY <1>0, <1>6, <2>2, TypedNext DEF RestoreState, After
<1>7. CASE RestoreTree
    <2>1. at.tx \in Txs
        BY <1>7, AtTx DEF RestoreTree, Recovering
    <2>2. npm' \in Roots /\ kept' \in [Txs -> Trees \union {None}]
        BY <1>7, <2>1, FiledParts DEF RestoreTree, Roots
    <2>3. Filed'
        BY <1>7, <2>2, FiledParts DEF RestoreTree, Filed
    <2>4. at' \in Works
        <3>1. at' = at \/ at' = [at EXCEPT !.cut = TRUE] \/ at' = [at EXCEPT !.cut = FALSE]
            BY <1>7 DEF RestoreTree
        <3>2. at \in Works
            BY FiledParts
        <3>3. [at EXCEPT !.cut = TRUE] \in Works /\ [at EXCEPT !.cut = FALSE] \in Works
            BY <3>2 DEF Works
        <3> QED BY <3>1, <3>2, <3>3
    <2>5. pc' \in Labels
        BY <1>7 DEF RestoreTree, After
    <2> QED BY <1>0, <1>7, <2>3, <2>4, <2>5, TypedNext DEF RestoreTree
<1>8. CASE Unstage
    <2>1. at.tx \in Txs
        BY <1>8, AtTx DEF Unstage, Recovering
    <2>2. Filed'
        BY <1>8, <2>1, FiledParts DEF Unstage, StagedRemoved, Filed
    <2> QED BY <1>0, <1>8, <2>2, TypedNext DEF Unstage
<1>9. CASE Drop
    <2>1. dir' \in [Stacks -> {"none", "partial", "whole"}]
        <3>1. PICK s : s = journal[at.tx].stack
            OBVIOUS
        <3>2. \/ dir' = dir
              \/ dir' = [dir EXCEPT ![s] = IF dir[s] = "whole" THEN "partial" ELSE "none"]
            BY <1>9, <3>1, FiledParts DEF Drop
        <3> QED BY <3>2, FiledParts
    <2>2. Filed'
        BY <1>9, <2>1, FiledParts DEF Drop, Filed
    <2>3. pc' \in Labels /\ at' = at
        BY <1>9 DEF Drop
    <2> QED BY <1>0, <1>9, <2>2, <2>3, TypedNext DEF Drop
<1>10. CASE Settle
    <2>1. at.tx \in Txs
        BY <1>10, AtTx DEF Settle, Recovering
    <2>2. journal' \in [Txs -> Journals]
        BY <1>10, <2>1, MarkedType DEF Settle
    <2>3. manifest' \in [Txs -> Manifests \union {NoManifest}]
        BY <1>10, <2>1, FiledParts DEF Settle
    <2>4. Filed'
        BY <1>10, <2>2, <2>3, FiledParts DEF Settle, Filed
    <2>5. pc' \in Labels /\ at' \in Works
        BY <1>0, <1>10, AfterRecoveryIs DEF Settle
    <2> QED BY <1>0, <1>10, <2>4, <2>5, TypedNext DEF Settle
<1>11. CASE Edit
    <2>1. PICK p \in AnyStack \union {"other"} : settings' = [settings EXCEPT !.user = settings.user + 1, !.packages = p]
        <3>1. PICK p \in {settings.packages, "other"} : settings' = [settings EXCEPT !.user = settings.user + 1, !.packages = p]
            BY <1>11, FiledParts DEF Edit, Settings
        <3> QED BY <3>1, FiledParts, SettingsTypes
    <2>2. PICK u \in 0..MaxEdits : u = settings.user + 1
        <3>1. settings.user \in 0..MaxEdits /\ settings.user < MaxEdits /\ MaxEdits \in Nat
            BY <1>11, FiledParts, SettingsTypes DEF Edit
        <3> QED BY <3>1
    <2>3. settings' \in Settings
        <3>1. settings' = [settings EXCEPT !.user = u, !.packages = p]
            BY <2>1, <2>2
        <3> QED BY <3>1, FiledParts DEF Settings
    <2>4. Filed'
        BY <1>11, <2>3, FiledParts DEF Edit, Filed
    <2> QED BY <1>0, <1>11, <2>4, FiledParts, TypedNext DEF Edit
<1> QED BY <1>1, <1>2, <1>3, <1>4, <1>5, <1>6, <1>7, <1>8, <1>9, <1>10, <1>11

\* Every step keeps the types.
LEMMA TypeStep ==
    ASSUME StackInv, Next
    PROVE  Typed'
BY QuietTypes, ApplyTypes, WriteLinkTypes, RecoveryTypes DEF StackInv, Next, Apply, Recover

-----------------------------------------------------------------------------
(* The order of transactions.                                              *)

\* A change of a status changes no other transaction, and the sets follow.
LEMMA MarkedSets ==
    ASSUME Typed, NEW t \in Txs, NEW s \in {"ACTIVE", "RECOVERING", "COMMITTED", "ROLLED_BACK", "MANUAL"},
           journal' = Marked(t, s)
    PROVE  /\ \A u \in Txs : /\ journal'[u].stack = journal[u].stack
                             /\ journal'[u].status = IF u = t THEN s ELSE journal[u].status
           /\ \A u \in Txs : u \in Incomplete' <=> IF u = t THEN s \in {"ACTIVE", "RECOVERING"} ELSE u \in Incomplete
           /\ \A u \in Txs : u \in Committed' <=> IF u = t THEN s = "COMMITTED" ELSE u \in Committed
           /\ Incomplete' \subseteq Txs /\ Committed' \subseteq Txs
<1>1. \A u \in Txs : /\ journal'[u].stack = journal[u].stack
                     /\ journal'[u].status = IF u = t THEN s ELSE journal[u].status
    BY MarkedType
<1> QED BY <1>1 DEF Incomplete, Committed

\* A transaction that is begun is newer than all others.
LEMMA BeginIs ==
    ASSUME Typed, InOrder, Annotation, Begin
    PROVE  \E t \in Txs :
              /\ t = First(NewTx) /\ at'.tx = t /\ journal[t].status = "none" /\ ~manifest[t].on
              /\ Incomplete = {} /\ Incomplete' = {t} /\ Committed' = Committed
              /\ journal'[t] = [status |-> "ACTIVE", stack |-> at.stack]
              /\ \A u \in Txs \ {t} : journal'[u] = journal[u]
              /\ \A u \in Txs : journal[u].status # "none" <=> u < t
<1>1. PICK t \in Txs : t = First(NewTx)
    BY FirstIs, IncompleteTxs DEF Begin
<1>2. journal[t].status = "none" /\ ~manifest[t].on
    BY <1>1, FirstIs, IncompleteTxs DEF Begin, NewTx, InOrder
<1>3. Incomplete = {}
    BY DEF Begin, Annotation
<1>4. journal \in [Txs -> Journals]
    BY DEF Typed
<1>5. journal' = [journal EXCEPT ![t] = [status |-> "ACTIVE", stack |-> at.stack]]
    BY <1>1 DEF Begin
<1>6. /\ journal'[t] = [status |-> "ACTIVE", stack |-> at.stack]
      /\ \A u \in Txs \ {t} : journal'[u] = journal[u]
    BY <1>4, <1>5
<1>7. Incomplete' = {t} /\ Committed' = Committed
    BY <1>2, <1>3, <1>6 DEF Incomplete, Committed
<1>8. \A u \in Txs : journal[u].status # "none" <=> u < t
    <2>1. \A u \in Txs : u < t => journal[u].status # "none"
        <3>1. \A u \in NewTx : t <= u
            BY <1>1, FirstIs, IncompleteTxs DEF Begin
        <3> QED BY <3>1 DEF NewTx, Txs
    <2>2. \A u \in Txs : t < u => journal[u].status = "none"
        BY <1>2 DEF InOrder
    <2> QED BY <1>2, <2>1, <2>2 DEF Txs
<1>9. at'.tx = t
    BY <1>1, FiledParts DEF Begin, Works
<1> QED BY <1>1, <1>2, <1>3, <1>6, <1>7, <1>8, <1>9

\* What a transaction that is worked on is.
LEMMA WorkedOn ==
    ASSUME Typed, InOrder, Annotation
    PROVE  /\ InApply => /\ Incomplete = {at.tx} /\ at.tx \in Txs /\ journal[at.tx].status = "ACTIVE"
                         /\ at.by = "none" /\ journal[at.tx].stack = at.stack /\ at.stack \in Stacks
                         /\ \A u \in Txs : at.tx < u => journal[u].status = "none" /\ ~manifest[u].on
                         /\ manifest[at.tx].on <=> pc # "backup"
           /\ Recovering => /\ Incomplete = {at.tx} /\ at.tx \in Txs /\ journal[at.tx].status = "RECOVERING"
                            /\ at.by # "none" /\ manifest[at.tx].on
           /\ \A u \in Incomplete : \A v \in Held : v <= u
           /\ \A u \in Held : u \in Txs /\ (u \in Committed \/ u \in Incomplete)
<1>1. InApply => /\ Incomplete = {at.tx} /\ at.tx \in Txs /\ journal[at.tx].status = "ACTIVE" /\ at.by = "none"
                 /\ journal[at.tx].stack = at.stack /\ at.stack \in Stacks /\ (manifest[at.tx].on <=> pc # "backup")
    BY DEF Annotation, AtApply
<1>2. InApply => \A u \in Txs : at.tx < u => journal[u].status = "none" /\ ~manifest[u].on
    BY <1>1 DEF InOrder
<1>3. Recovering => /\ Incomplete = {at.tx} /\ at.tx \in Txs /\ journal[at.tx].status = "RECOVERING"
                    /\ at.by # "none" /\ manifest[at.tx].on
    BY DEF Annotation, AtRecovery
<1>4. \A u \in Held : u \in Txs /\ (u \in Committed \/ u \in Incomplete)
    <2>1. \A u \in Txs : journal[u].status \in {"none", "ACTIVE", "RECOVERING", "COMMITTED", "ROLLED_BACK", "MANUAL"}
        BY DEF Typed, Journals
    <2> QED BY <2>1 DEF Held, InOrder, Committed, Incomplete
<1>5. \A u \in Incomplete : \A v \in Held : v <= u
    <2> TAKE u \in Incomplete
    <2> TAKE v \in Held
    <2>1. u \in Nat /\ v \in Nat
        BY <1>4, IncompleteTxs DEF Txs
    <2>2. v \in Committed => v < u
        BY DEF InOrder
    <2>3. v \in Incomplete => v = u
        BY DEF InOrder
    <2> QED BY <1>4, <2>1, <2>2, <2>3
<1> QED BY <1>1, <1>2, <1>3, <1>4, <1>5

\* The first write of a recovery: a transaction without a manifest is over at
\* once, any other is recovering, and it is the newest of those committed.
LEMMA MarkedOn ==
    ASSUME Typed, InOrder, Annotation, Mark
    PROVE  /\ at.tx \in Txs /\ manifest' = manifest
           /\ manifest[at.tx].on => journal' = Marked(at.tx, "RECOVERING") /\ Incomplete' = {at.tx}
           /\ ~manifest[at.tx].on => /\ journal' = Marked(at.tx, "ROLLED_BACK") /\ Incomplete = {at.tx}
                                     /\ Incomplete' = {} /\ Committed' = Committed /\ at.by # "rollback"
           /\ Committed' = Committed \ {at.tx}
           /\ \A u \in Committed : u <= at.tx
           /\ at.by = "rollback" => at.tx \in Committed /\ Incomplete = {}
           /\ at.by # "rollback" => at.tx \in Incomplete /\ Incomplete = {at.tx} /\ at.tx \notin Committed
<1>1. /\ at.tx \in Txs /\ manifest' = manifest
      /\ manifest[at.tx].on => journal' = Marked(at.tx, "RECOVERING")
      /\ ~manifest[at.tx].on => journal' = Marked(at.tx, "ROLLED_BACK")
    BY DEF Mark, Annotation, AtMark
<1>2. /\ at.by = "rollback" => at.tx \in Committed /\ Incomplete = {} /\ \A u \in Committed : u <= at.tx
      /\ at.by # "rollback" => Incomplete = {at.tx}
    BY DEF Mark, Annotation, AtMark
<1>3. at.by # "rollback" => at.tx \notin Committed /\ \A u \in Committed : u <= at.tx
    <2>1. at.by # "rollback" => at.tx \in Incomplete
        BY <1>2
    <2>2. \A u \in Committed : u \in Nat
        BY DEF Committed, Txs
    <2>3. at.tx \in Nat
        BY <1>1 DEF Txs
    <2> QED BY <2>1, <2>2, <2>3 DEF InOrder, Incomplete, Committed
<1>4. at.by = "rollback" => manifest[at.tx].on
    BY <1>1, <1>2 DEF InOrder, Committed
<1>5. CASE manifest[at.tx].on
    <2>1. \A u \in Txs : /\ u \in Incomplete' <=> u = at.tx \/ u \in Incomplete
                         /\ u \in Committed' <=> u # at.tx /\ u \in Committed
        BY <1>1, <1>5, MarkedSets
    <2>2. Incomplete' \subseteq Txs /\ Committed' \subseteq Txs /\ Committed \subseteq Txs
        BY <1>1, <1>5, MarkedSets DEF Committed
    <2>3. Incomplete' = {at.tx}
        BY <1>1, <1>2, <2>1, <2>2
    <2>4. Committed' = Committed \ {at.tx}
        BY <2>1, <2>2
    <2> QED BY <1>1, <1>2, <1>3, <1>5, <2>3, <2>4
<1>6. CASE ~manifest[at.tx].on
    <2>1. \A u \in Txs : /\ u \in Incomplete' <=> u # at.tx /\ u \in Incomplete
                         /\ u \in Committed' <=> u # at.tx /\ u \in Committed
        BY <1>1, <1>6, MarkedSets
    <2>2. Incomplete' \subseteq Txs /\ Committed' \subseteq Txs /\ Committed \subseteq Txs
        BY <1>1, <1>6, MarkedSets DEF Committed
    <2>3. at.by # "rollback"
        BY <1>4, <1>6
    <2>4. Incomplete' = {}
        BY <1>2, <2>1, <2>2, <2>3
    <2>5. Committed' = Committed /\ Committed' = Committed \ {at.tx}
        BY <1>3, <2>1, <2>2, <2>3
    <2> QED BY <1>1, <1>2, <1>3, <1>4, <1>6, <2>3, <2>4, <2>5
<1> QED BY <1>5, <1>6

\* The three ends of a transaction.
LEMMA CommitIs ==
    ASSUME Typed, InOrder, Annotation, Commit
    PROVE  /\ at.tx \in Txs /\ Incomplete' = {} /\ Committed' = Committed \union {at.tx}
           /\ manifest[at.tx].on /\ manifest' = manifest
           /\ journal' = Marked(at.tx, "COMMITTED")
<1>1. InApply /\ pc # "backup"
    BY StepLabels DEF Commit, Applying
<1>2. at.tx \in Txs /\ manifest[at.tx].on /\ Incomplete = {at.tx}
    BY <1>1, WorkedOn
<1>3. journal' = Marked(at.tx, "COMMITTED") /\ manifest' = manifest
    BY DEF Commit
<1>4. \A u \in Txs : /\ u \in Incomplete' <=> u # at.tx /\ u \in Incomplete
                     /\ u \in Committed' <=> u = at.tx \/ u \in Committed
    BY <1>2, <1>3, MarkedSets
<1>5. Incomplete' \subseteq Txs /\ Committed' \subseteq Txs /\ Committed \subseteq Txs
    BY <1>2, <1>3, MarkedSets DEF Committed
<1>6. Incomplete' = {}
    BY <1>2, <1>4, <1>5
<1>7. Committed' = Committed \union {at.tx}
    BY <1>2, <1>4, <1>5
<1> QED BY <1>2, <1>3, <1>6, <1>7

\* A recovery that ends, in one way or the other, leaves nothing incomplete.
LEMMA EndIs ==
    ASSUME Typed, InOrder, Annotation, Recovering, NEW s \in {"ROLLED_BACK", "MANUAL"},
           journal' = Marked(at.tx, s)
    PROVE  /\ at.tx \in Txs /\ Incomplete' = {} /\ Committed' = Committed
           /\ at.tx \notin Committed /\ at.tx \in Incomplete /\ manifest[at.tx].on
<1>1. at.tx \in Txs /\ Incomplete = {at.tx} /\ at.tx \notin Committed /\ manifest[at.tx].on
    BY WorkedOn DEF Committed
<1>2. \A u \in Txs : /\ u \in Incomplete' <=> u # at.tx /\ u \in Incomplete
                     /\ u \in Committed' <=> u # at.tx /\ u \in Committed
    BY <1>1, MarkedSets
<1>3. Incomplete' \subseteq Txs /\ Committed' \subseteq Txs /\ Committed \subseteq Txs
    BY <1>1, MarkedSets DEF Committed
<1>4. Incomplete' = {}
    BY <1>1, <1>2, <1>3
<1>5. Committed' = Committed
    BY <1>1, <1>2, <1>3
<1> QED BY <1>1, <1>4, <1>5

\* The steps that change a manifest.
LEMMA BackupIs ==
    ASSUME Typed, InOrder, Annotation, Backup
    PROVE  /\ at.tx \in Txs /\ at.stack \in Stacks /\ dir[at.stack] = "none" /\ at' = at /\ pc' = "stage"
           /\ Incomplete = {at.tx} /\ journal[at.tx].stack = at.stack /\ ~manifest[at.tx].on
           /\ journal' = journal /\ Incomplete' = Incomplete /\ Committed' = Committed
           /\ at.tx \notin Held /\ Held' = Held \union {at.tx}
           /\ \A u \in Txs \ {at.tx} : manifest'[u] = manifest[u]
           /\ manifest'[at.tx].on /\ manifest'[at.tx].settings = settings /\ manifest'[at.tx].state = state
           /\ manifest'[at.tx].link = [l \in Links |-> Leads(l)]
           /\ manifest'[at.tx].npm = npm /\ manifest'[at.tx].good = good
           /\ manifest'[at.tx].switch = at.switch
           /\ manifest'[at.tx].untouched = (at.stack \in Private)
           /\ ~manifest'[at.tx].target /\ ~manifest'[at.tx].harness
<1>1. InApply /\ pc = "backup"
    BY StepLabels DEF Backup, Applying
<1>2. /\ at.tx \in Txs /\ at.stack \in Stacks /\ Incomplete = {at.tx} /\ journal[at.tx].stack = at.stack
      /\ ~manifest[at.tx].on /\ journal[at.tx].status = "ACTIVE"
    BY <1>1, WorkedOn
<1>3. PICK m : m = [on |-> TRUE, settings |-> settings, state |-> state, link |-> [l \in Links |-> Leads(l)],
           npm |-> npm, good |-> good, switch |-> at.switch, untouched |-> at.stack \in Private,
           target |-> FALSE, published |-> settings, harness |-> FALSE]
    OBVIOUS
<1>4. manifest' = [manifest EXCEPT ![at.tx] = m] /\ journal' = journal
    BY <1>3 DEF Backup
<1>5. manifest'[at.tx] = m /\ \A u \in Txs \ {at.tx} : manifest'[u] = manifest[u]
    BY <1>2, <1>4, FiledParts
<1>6. at.tx \notin Held /\ Held' = Held \union {at.tx}
    <2>1. m.on
        BY <1>3
    <2> QED BY <2>1, <1>2, <1>4, <1>5 DEF Held
<1>7. Incomplete' = Incomplete /\ Committed' = Committed
    BY <1>4 DEF Incomplete, Committed
<1>8. dir[at.stack] = "none" /\ at' = at /\ pc' = "stage"
    BY DEF Backup
<1> QED BY <1>2, <1>3, <1>4, <1>5, <1>6, <1>7, <1>8

\* recordPublishedSettings changes three fields of one manifest.
LEMMA RecordIs ==
    ASSUME Typed, InOrder, Annotation, RecordPublished
    PROVE  /\ at.tx \in Txs /\ journal' = journal /\ Incomplete' = Incomplete /\ Committed' = Committed
           /\ Held' = Held /\ at.tx \in Held /\ Incomplete = {at.tx} /\ journal[at.tx].stack = at.stack
           /\ at.stack \in Stacks
           /\ \A u \in Txs \ {at.tx} : manifest'[u] = manifest[u]
           /\ manifest[at.tx].on /\ manifest'[at.tx].on /\ manifest'[at.tx].settings = manifest[at.tx].settings
           /\ manifest'[at.tx].state = manifest[at.tx].state /\ manifest'[at.tx].link = manifest[at.tx].link
           /\ manifest'[at.tx].npm = manifest[at.tx].npm /\ manifest'[at.tx].good = manifest[at.tx].good
           /\ manifest'[at.tx].switch = manifest[at.tx].switch
           /\ manifest'[at.tx].untouched = manifest[at.tx].untouched
           /\ manifest'[at.tx].target /\ manifest'[at.tx].published = at.written
           /\ manifest'[at.tx].harness = at.new
<1>1. InApply /\ pc = "record"
    BY StepLabels DEF RecordPublished, Applying
<1>2. /\ at.tx \in Txs /\ at.stack \in Stacks /\ Incomplete = {at.tx} /\ journal[at.tx].stack = at.stack
      /\ manifest[at.tx].on /\ journal[at.tx].status = "ACTIVE"
    BY <1>1, WorkedOn
<1>3. PICK o \in Manifests : o = manifest[at.tx]
    BY <1>2, ManifestParts
<1>4. PICK m : m = [o EXCEPT !.target = TRUE, !.published = at.written, !.harness = at.new]
    OBVIOUS
<1>5. manifest' = [manifest EXCEPT ![at.tx] = m] /\ journal' = journal
    BY <1>1, <1>2, <1>3, <1>4, FiledParts DEF RecordPublished
<1>6. manifest'[at.tx] = m /\ \A u \in Txs \ {at.tx} : manifest'[u] = manifest[u]
    BY <1>2, <1>5, FiledParts
<1>7. /\ m.on = o.on /\ m.settings = o.settings /\ m.state = o.state /\ m.link = o.link /\ m.npm = o.npm
      /\ m.good = o.good /\ m.switch = o.switch /\ m.untouched = o.untouched
      /\ m.target /\ m.published = at.written /\ m.harness = at.new
    BY <1>4 DEF Manifests
<1>8. Held' = Held /\ at.tx \in Held
    BY <1>2, <1>3, <1>5, <1>6, <1>7 DEF Held
<1>9. Incomplete' = Incomplete /\ Committed' = Committed
    BY <1>5 DEF Incomplete, Committed
<1> QED BY <1>2, <1>3, <1>5, <1>6, <1>7, <1>8, <1>9

\* The last write of a recovery forgets one manifest.
LEMMA SettleIs ==
    ASSUME Typed, InOrder, Annotation, Settle
    PROVE  /\ at.tx \in Txs /\ Recovering /\ pc = "settle" /\ journal' = Marked(at.tx, "ROLLED_BACK")
           /\ Incomplete' = {} /\ Committed' = Committed /\ at.tx \notin Committed /\ at.tx \in Held
           /\ ~manifest'[at.tx].on /\ \A u \in Txs \ {at.tx} : manifest'[u] = manifest[u]
           /\ Held' = Held \ {at.tx}
           /\ manifest[at.tx].on
<1>1. Recovering /\ pc = "settle" /\ journal' = Marked(at.tx, "ROLLED_BACK")
      /\ manifest' = [manifest EXCEPT ![at.tx] = NoManifest]
    BY DEF Settle, Recovering
<1>2. at.tx \in Txs /\ Incomplete' = {} /\ Committed' = Committed /\ at.tx \notin Committed
    BY <1>1, EndIs
<1>3. ~manifest'[at.tx].on /\ \A u \in Txs \ {at.tx} : manifest'[u] = manifest[u]
    BY <1>1, <1>2, FiledParts DEF NoManifest
<1>4. at.tx \in Held /\ manifest[at.tx].on
    BY <1>1, WorkedOn DEF Held
<1>5. Held' = Held \ {at.tx}
    BY <1>1, <1>2, <1>3, MarkedSets DEF Held
<1> QED BY <1>1, <1>2, <1>3, <1>4, <1>5

\* The steps that change a journal or a manifest.
LEMMA JournalSteps ==
    ASSUME Typed, InOrder, Annotation, Next
    PROVE  \/ journal' = journal /\ manifest' = manifest
           \/ Begin \/ Backup \/ RecordPublished \/ Mark \/ Commit \/ Settle
           \/ /\ Recovering /\ journal' = Marked(at.tx, "MANUAL") /\ manifest' = manifest
              /\ UNCHANGED <<state, link, dir, stage, settings, good, npm, fresh, kept>>
              /\ pc' = "idle" /\ at' = Nothing
BY DEF Next, Apply, Recover, Install, Lifecycle, RecoverPending, NextRollback, Stage, Switch, Publish,
       PublishGeneration, Activate, WriteLink, Verify, RecordState, Fails, Read, HarnessRollback,
       HarnessFails, RestoreLinks, RestoreSettings, RestoreState, RestoreTree, Unstage, Drop, Edit,
       Crash, Throw, Recovering, disk

\* Transactions stay in their order, and at most one is incomplete.
LEMMA InOrderStep ==
    ASSUME Typed, InOrder, Annotation, Next
    PROVE  InOrder'
<1>1. CASE journal' = journal /\ manifest' = manifest
    BY <1>1 DEF InOrder, Incomplete, Committed
<1>2. CASE Begin
    <2>1. PICK t \in Txs :
              /\ ~manifest[t].on /\ Incomplete = {}
              /\ Incomplete' = {t} /\ Committed' = Committed
              /\ journal'[t].status = "ACTIVE"
              /\ \A u \in Txs \ {t} : journal'[u] = journal[u]
              /\ \A u \in Txs : journal[u].status # "none" <=> u < t
        BY <1>2, BeginIs
    <2>2. manifest' = manifest
        BY <1>2 DEF Begin
    <2>3. \A u, v \in Txs : u < v /\ journal'[u].status \in {"none", "ACTIVE"} => journal'[v].status = "none"
        <3>1. \A u \in Txs : journal[u].status # "ACTIVE"
            BY <2>1 DEF Incomplete
        <3>2. \A u, v \in Txs : u < v /\ journal'[u].status \in {"none", "ACTIVE"} => v # t /\ journal[v].status = "none"
            BY <2>1, <3>1 DEF Txs
        <3> QED BY <2>1, <3>2
    <2>4. \A u \in Committed' : u < t
        BY <2>1 DEF Committed
    <2> QED BY <2>1, <2>2, <2>3, <2>4 DEF InOrder
<1>3. CASE Backup
    <2>1. journal[at.tx].status = "ACTIVE"
        BY <1>3, StepLabels, WorkedOn DEF Backup, Applying
    <2> QED BY <1>3, <2>1, BackupIs DEF InOrder
<1>4. CASE RecordPublished
    BY <1>4, RecordIs DEF InOrder
<1>5. CASE Mark
    <2>1. /\ at.tx \in Txs /\ manifest' = manifest
          /\ \A u \in Committed : u <= at.tx
          /\ Committed' = Committed \ {at.tx}
          /\ Incomplete' \subseteq {at.tx}
        BY <1>5, MarkedOn
    <2>2. journal[at.tx].status \in {"ACTIVE", "RECOVERING", "COMMITTED"}
        BY <1>5, MarkedOn DEF Incomplete, Committed
    <2>3. /\ \A u \in Txs : /\ journal'[u].stack = journal[u].stack
                            /\ u # at.tx => journal'[u].status = journal[u].status
          /\ manifest[at.tx].on => journal'[at.tx].status = "RECOVERING"
          /\ ~manifest[at.tx].on => journal'[at.tx].status = "ROLLED_BACK"
        BY <1>5, <2>1, MarkedOn, MarkedSets
    <2>4. \A u, v \in Txs : u < v /\ journal'[u].status \in {"none", "ACTIVE"} => journal'[v].status = "none"
        BY <2>2, <2>3 DEF InOrder
    <2>5. \A u \in Txs : /\ manifest'[u].on => journal'[u].status \notin {"none", "ROLLED_BACK"}
                         /\ ~manifest'[u].on => journal'[u].status \in {"none", "ROLLED_BACK", "ACTIVE"}
                         /\ manifest'[u].on => journal'[u].stack \in Stacks
        BY <2>1, <2>3 DEF InOrder
    <2>6. \A u \in Committed' : u < at.tx
        BY <2>1 DEF Committed, Txs
    <2> QED BY <2>1, <2>4, <2>5, <2>6 DEF InOrder
<1>6. CASE Commit
    <2>1. /\ at.tx \in Txs /\ manifest' = manifest /\ manifest[at.tx].on /\ Incomplete' = {}
          /\ \A u \in Txs : /\ journal'[u].stack = journal[u].stack
                            /\ journal'[u].status = IF u = at.tx THEN "COMMITTED" ELSE journal[u].status
        BY <1>6, CommitIs, MarkedSets
    <2>2. journal[at.tx].status = "ACTIVE"
        BY <1>6, StepLabels, WorkedOn DEF Commit, Applying
    <2> QED BY <2>1, <2>2 DEF InOrder
<1>7. CASE Settle
    <2>1. /\ at.tx \in Txs /\ Incomplete' = {}
          /\ ~manifest'[at.tx].on /\ \A u \in Txs \ {at.tx} : manifest'[u] = manifest[u]
          /\ \A u \in Txs : /\ journal'[u].stack = journal[u].stack
                            /\ journal'[u].status = IF u = at.tx THEN "ROLLED_BACK" ELSE journal[u].status
        BY <1>7, SettleIs, MarkedSets
    <2>2. journal[at.tx].status = "RECOVERING"
        BY <1>7, WorkedOn, SettleIs
    <2> QED BY <2>1, <2>2 DEF InOrder
<1>8. CASE Recovering /\ journal' = Marked(at.tx, "MANUAL") /\ manifest' = manifest
    <2>1. /\ at.tx \in Txs /\ Incomplete' = {} /\ manifest[at.tx].on
          /\ \A u \in Txs : /\ journal'[u].stack = journal[u].stack
                            /\ journal'[u].status = IF u = at.tx THEN "MANUAL" ELSE journal[u].status
        BY <1>8, EndIs, MarkedSets
    <2>2. journal[at.tx].status = "RECOVERING"
        BY <1>8, WorkedOn
    <2> QED BY <1>8, <2>1, <2>2 DEF InOrder
<1> QED BY <1>1, <1>2, <1>3, <1>4, <1>5, <1>6, <1>7, <1>8, JournalSteps

-----------------------------------------------------------------------------
(* The lists of transactions.                                              *)

\* A list keeps what it has when nothing is committed.
LEMMA ListsKept ==
    ASSUME NEW txs, NEW n, Committed' \subseteq Committed, Lists(txs, n)
    PROVE  Lists(txs, n)'
BY DEF Lists

\* What is appended is in the sequence.
LEMMA AppendEnds ==
    ASSUME NEW S, NEW t \in S, NEW txs \in Seq(S)
    PROVE  \E i \in DOMAIN Append(txs, t) : Append(txs, t)[i] = t
BY AppendProperties, LenProperties

\* A transaction at the end of a list that has all committed ones before it.
LEMMA ListsAppended ==
    ASSUME NEW t \in Txs, NEW txs \in Seq(Txs), Lists(txs, t)
    PROVE  /\ \A i, j \in DOMAIN Append(txs, t) : i < j => Append(txs, t)[i] < Append(txs, t)[j]
           /\ \A i \in DOMAIN Append(txs, t) : Append(txs, t)[i] \in Txs /\ Append(txs, t)[i] <= t
           /\ \A u \in Committed \union {t} : u <= t => \E i \in DOMAIN Append(txs, t) : Append(txs, t)[i] = u
<1>1. PICK q : q = Append(txs, t)
    OBVIOUS
<1>2. PICK n \in Nat : n = Len(txs) /\ DOMAIN txs = 1..n /\ \A i \in 1..n : txs[i] \in Txs
    BY LenProperties, ElementOfSeq
<1>3. /\ DOMAIN q = 1..(n + 1) /\ q[n + 1] = t /\ \A i \in 1..n : q[i] = txs[i]
    BY <1>1, <1>2, AppendProperties
<1>4. \A i \in 1..n : q[i] < t
    BY <1>2, <1>3 DEF Lists
<1>5. \A i, j \in 1..(n + 1) : i < j => q[i] < q[j]
    <2> TAKE i, j \in 1..(n + 1)
    <2> HAVE i < j
    <2>1. i \in 1..n
        BY <1>2
    <2>2. CASE j \in 1..n
        BY <1>2, <1>3, <2>1, <2>2 DEF Lists
    <2>3. CASE j = n + 1
        BY <1>3, <1>4, <2>1, <2>3
    <2> QED BY <1>2, <2>2, <2>3
<1>6. \A i \in 1..(n + 1) : q[i] \in Txs /\ q[i] <= t
    <2> TAKE i \in 1..(n + 1)
    <2>1. t \in Nat /\ (i \in 1..n \/ i = n + 1)
        BY <1>2 DEF Txs
    <2>2. CASE i \in 1..n
        <3>1. q[i] \in Txs /\ q[i] < t
            BY <1>2, <1>3, <1>4, <2>2
        <3> QED BY <3>1 DEF Txs
    <2> QED BY <1>3, <2>1, <2>2
<1>7. \A u \in Committed \union {t} : u <= t => \E i \in 1..(n + 1) : q[i] = u
    <2> TAKE u \in Committed \union {t}
    <2> HAVE u <= t
    <2>1. CASE u = t
        BY <1>2, <1>3, <2>1
    <2>2. CASE u # t
        <3>1. u \in Committed /\ u < t
            BY <2>2 DEF Committed, Txs
        <3>2. PICK i \in 1..n : txs[i] = u
            BY <1>2, <3>1 DEF Lists
        <3> QED BY <1>2, <1>3, <3>2
    <2> QED BY <2>1, <2>2
<1> QED BY <1>1, <1>3, <1>5, <1>6, <1>7

\* No transaction becomes unused again, and only Commit commits one.
LEMMA StatusSteps ==
    ASSUME Typed, InOrder, Annotation, Next
    PROVE  /\ \A t \in Txs : journal[t].status # "none" => journal'[t].status # "none"
           /\ Commit \/ Committed' \subseteq Committed
           /\ NoneGivenUp' => NoneGivenUp
<1>1. CASE journal' = journal /\ manifest' = manifest
    BY <1>1 DEF Committed, NoneGivenUp
<1>2. CASE Begin
    <2>1. PICK t \in Txs :
              /\ journal[t].status = "none" /\ Committed' = Committed
              /\ \A u \in Txs \ {t} : journal'[u] = journal[u]
        BY <1>2, BeginIs
    <2> QED BY <2>1 DEF NoneGivenUp
<1>3. CASE Backup \/ RecordPublished
    <2>1. journal' = journal /\ Committed' = Committed
        BY <1>3, BackupIs, RecordIs
    <2> QED BY <2>1 DEF NoneGivenUp
<1>4. CASE Mark
    <2>1. /\ at.tx \in Txs /\ Committed' \subseteq Committed
          /\ journal' = Marked(at.tx, "RECOVERING") \/ journal' = Marked(at.tx, "ROLLED_BACK")
          /\ journal[at.tx].status # "MANUAL"
        BY <1>4, MarkedOn DEF Committed, Incomplete
    <2>2. \A u \in Txs : journal'[u].status = journal[u].status \/ (u = at.tx /\ journal'[u].status # "none")
        BY <2>1, MarkedSets
    <2> QED BY <2>1, <2>2 DEF NoneGivenUp
<1>5. CASE Commit
    <2>1. journal[at.tx].status # "MANUAL" /\ at.tx \in Txs
        BY <1>5, StepLabels, WorkedOn DEF Commit, Applying
    <2>2. \A u \in Txs : journal'[u].status = IF u = at.tx THEN "COMMITTED" ELSE journal[u].status
        BY <1>5, CommitIs, MarkedSets
    <2> QED BY <1>5, <2>1, <2>2 DEF NoneGivenUp
<1>6. CASE Settle
    <2>1. at.tx \in Txs /\ Committed' = Committed /\ journal[at.tx].status # "MANUAL"
        BY <1>6, SettleIs, WorkedOn
    <2>2. \A u \in Txs : journal'[u].status = IF u = at.tx THEN "ROLLED_BACK" ELSE journal[u].status
        BY <1>6, SettleIs, MarkedSets
    <2> QED BY <2>1, <2>2 DEF NoneGivenUp
<1>7. CASE Recovering /\ journal' = Marked(at.tx, "MANUAL") /\ manifest' = manifest
    <2>1. at.tx \in Txs /\ Committed' = Committed
        BY <1>7, EndIs
    <2>2. \A u \in Txs : journal'[u].status = IF u = at.tx THEN "MANUAL" ELSE journal[u].status
        BY <1>7, <2>1, MarkedSets
    <2> QED BY <2>1, <2>2 DEF NoneGivenUp
<1> QED BY <1>1, <1>2, <1>3, <1>4, <1>5, <1>6, <1>7, JournalSteps

\* The recorded transactions.
RecordedLists ==
    /\ Lists(state.txs, MaxTx + 1)
    /\ \A i \in DOMAIN state.txs : journal[state.txs[i]].status # "none"

\* Recorded transactions are transactions.
LEMMA StateTxs ==
    ASSUME Typed
    PROVE  /\ state.txs \in Seq(Txs) /\ \A i \in DOMAIN state.txs : state.txs[i] \in Txs
           /\ \A t \in Txs : manifest[t].on =>
                 /\ manifest[t].state.txs \in Seq(Txs)
                 /\ \A i \in DOMAIN manifest[t].state.txs : manifest[t].state.txs[i] \in Txs
<1>1. ASSUME NEW q \in Seq(Txs) PROVE \A i \in DOMAIN q : q[i] \in Txs
    BY LenProperties, ElementOfSeq
<1>2. state.txs \in Seq(Txs)
    BY FiledParts DEF States
<1>3. \A t \in Txs : manifest[t].on => manifest[t].state.txs \in Seq(Txs)
    BY ManifestParts, ManifestFields DEF States
<1> QED BY <1>1, <1>2, <1>3

\* The recorded transactions stay all the committed ones, in their order.
LEMMA RecordedStep ==
    ASSUME Typed, InOrder, Annotation, Listed, Next
    PROVE  RecordedLists'
<1>1. CASE RecordState
    <2>1. at.tx \in Txs /\ Incomplete = {at.tx} /\ manifest[at.tx].on /\ journal[at.tx].status = "ACTIVE"
        BY <1>1, StepLabels, WorkedOn DEF RecordState, Applying
    <2>2. PICK q \in Seq(Txs) : q = manifest[at.tx].state.txs
        BY <2>1, StateTxs
    <2>3. PICK r : r = Append(q, at.tx)
        OBVIOUS
    <2>4. state'.txs = r /\ journal' = journal
        BY <1>1, <2>2, <2>3 DEF RecordState
    <2>5. Lists(q, at.tx)
        BY <2>1, <2>2 DEF Listed
    <2>6. /\ \A i, j \in DOMAIN r : i < j => r[i] < r[j]
          /\ \A i \in DOMAIN r : r[i] \in Txs /\ r[i] <= at.tx
          /\ \A u \in Committed \union {at.tx} : u <= at.tx => \E i \in DOMAIN r : r[i] = u
        BY <2>1, <2>3, <2>5, ListsAppended
    <2>7. \A u \in Committed : u <= at.tx
        BY <2>1 DEF InOrder, Committed, Txs
    <2>8. \A i \in DOMAIN r : r[i] < MaxTx + 1 /\ journal[r[i]].status # "none"
        <3> TAKE i \in DOMAIN r
        <3>1. r[i] \in Txs /\ (r[i] < at.tx \/ r[i] = at.tx)
            BY <2>1, <2>6 DEF Txs
        <3>2. journal[r[i]].status # "none"
            BY <2>1, <3>1 DEF InOrder
        <3> QED BY <3>1, <3>2 DEF Txs
    <2>9. Committed' = Committed
        BY <2>4 DEF Committed
    <2> QED BY <2>4, <2>6, <2>7, <2>8, <2>9 DEF RecordedLists, Lists
<1>2. CASE RestoreState
    <2>1. at.tx \in Txs /\ Incomplete = {at.tx} /\ manifest[at.tx].on /\ journal[at.tx].status = "RECOVERING"
        BY <1>2, WorkedOn DEF RestoreState, Recovering
    <2>2. PICK q \in Seq(Txs) : q = manifest[at.tx].state.txs /\ \A i \in DOMAIN q : q[i] \in Txs
        BY <2>1, StateTxs
    <2>3. state'.txs = q /\ journal' = journal
        BY <1>2, <2>2 DEF RestoreState
    <2>4. Lists(q, at.tx)
        BY <2>1, <2>2 DEF Listed
    <2>5. \A u \in Committed : u < at.tx
        BY <2>1 DEF InOrder
    <2>6. \A i \in DOMAIN q : q[i] < MaxTx + 1 /\ journal[q[i]].status # "none"
        <3> TAKE i \in DOMAIN q
        <3>1. q[i] \in Txs /\ q[i] < at.tx
            BY <2>2, <2>4 DEF Lists
        <3>2. journal[q[i]].status # "none"
            BY <2>1, <3>1 DEF InOrder
        <3> QED BY <3>1, <3>2 DEF Txs
    <2>7. Committed' = Committed
        BY <2>3 DEF Committed
    <2> QED BY <2>3, <2>4, <2>5, <2>6, <2>7 DEF RecordedLists, Lists
<1>3. CASE state' = state
    <2>1. \A i \in DOMAIN state.txs : journal'[state.txs[i]].status # "none"
        BY StatusSteps, StateTxs DEF Listed
    <2>2. PICK q : q = state.txs
        OBVIOUS
    <2>3. Lists(q, MaxTx + 1)
        BY <2>2 DEF Listed
    <2>4. CASE Committed' \subseteq Committed
        <3>1. Lists(q, MaxTx + 1)'
            BY <2>3, <2>4, ListsKept
        <3> QED BY <1>3, <2>1, <2>2, <3>1 DEF RecordedLists
    <2>5. CASE Commit
        <3>1. Committed' = Committed \union {at.tx} /\ at.tx \in Txs /\ manifest[at.tx].on
            BY <2>5, CommitIs
        <3>2. PICK p \in Seq(Txs) : p = manifest[at.tx].state.txs
            BY <3>1, StateTxs
        <3>3. q = Append(p, at.tx)
            BY <2>2, <2>5, <3>2, StepLabels DEF Commit, Applying, Annotation, AtApply
        <3>4. \E i \in DOMAIN q : q[i] = at.tx
            BY <3>1, <3>3, AppendEnds
        <3>5. Lists(q, MaxTx + 1)'
            BY <2>3, <3>1, <3>4 DEF Lists
        <3> QED BY <1>3, <2>1, <2>2, <3>5 DEF RecordedLists
    <2> QED BY <2>4, <2>5, StatusSteps
<1> QED BY <1>1, <1>2, <1>3 DEF Next, Apply, Recover, Install, Lifecycle, RecoverPending, NextRollback,
       Begin, Backup, Stage, Switch, Publish, PublishGeneration, RecordPublished, Activate, WriteLink, Verify,
       Commit, Fails, Mark, Read, HarnessRollback, HarnessFails, RestoreLinks, RestoreSettings,
       RestoreTree, Unstage, Drop, Settle, Edit, Crash, disk
\* The transactions that a manifest restores.
ManifestLists == \A t \in Txs : manifest[t].on => Lists(manifest[t].state.txs, t)

\* So do those that a manifest restores.
LEMMA ManifestListsStep ==
    ASSUME Typed, InOrder, Annotation, Listed, Next
    PROVE  ManifestLists'
<1> DEFINE Kept(t) == manifest'[t].on => manifest[t].on /\ manifest'[t].state = manifest[t].state
<1>1. ASSUME Committed' \subseteq Committed, NEW t \in Txs, Kept(t)
      PROVE  (manifest[t].on => Lists(manifest[t].state.txs, t))'
    <2> SUFFICES ASSUME manifest'[t].on PROVE Lists(manifest[t].state.txs, t)'
        OBVIOUS
    <2>1. PICK q : q = manifest[t].state.txs
        OBVIOUS
    <2>2. Lists(q, t)
        BY <1>1, <2>1 DEF Listed
    <2>3. Lists(q, t)'
        BY <1>1, <2>2, ListsKept
    <2>4. manifest'[t].state.txs = q
        BY <1>1, <2>1
    <2> QED BY <2>3, <2>4 DEF Lists
<1>2. CASE journal' = journal /\ manifest' = manifest
    BY <1>1, <1>2 DEF Committed, ManifestLists
<1>3. CASE Begin
    <2>1. Committed' = Committed /\ manifest' = manifest
        BY <1>3, BeginIs DEF Begin
    <2> QED BY <1>1, <2>1 DEF ManifestLists
<1>4. CASE Backup
    <2>1. /\ at.tx \in Txs /\ Committed' = Committed /\ manifest'[at.tx].state = state
          /\ \A u \in Txs \ {at.tx} : manifest'[u] = manifest[u]
        BY <1>4, BackupIs
    <2>2. \A i \in DOMAIN state.txs : state.txs[i] < at.tx
        BY <1>4, StepLabels DEF Backup, Applying, Annotation, AtApply
    <2>3. \A u \in Committed : u < MaxTx + 1
        BY DEF Committed, Txs
    <2>4. ASSUME NEW t \in Txs, t = at.tx PROVE Lists(manifest[t].state.txs, t)'
        BY <2>1, <2>2, <2>3, <2>4 DEF Listed, Lists
    <2> QED BY <1>1, <2>1, <2>4 DEF ManifestLists
<1>5. CASE RecordPublished
    BY <1>1, <1>5, RecordIs DEF ManifestLists
<1>6. CASE Mark
    BY <1>1, <1>6, MarkedOn DEF ManifestLists
<1>7. CASE Commit
    <2>1. /\ at.tx \in Txs /\ Committed' = Committed \union {at.tx} /\ manifest' = manifest
          /\ \A u \in Txs : at.tx < u => ~manifest[u].on
        BY <1>7, CommitIs, StepLabels, WorkedOn DEF Commit, Applying
    <2>2. ASSUME NEW t \in Txs, manifest[t].on PROVE Lists(manifest[t].state.txs, t)'
        <3>1. PICK q : q = manifest[t].state.txs
            OBVIOUS
        <3>2. Lists(q, t)
            BY <2>2, <3>1 DEF Listed
        <3>3. \A u \in Committed' : u < t => u \in Committed
            BY <2>1, <2>2 DEF Txs
        <3>4. Lists(q, t)'
            BY <3>2, <3>3 DEF Lists
        <3> QED BY <2>1, <3>1, <3>4 DEF Lists
    <2> QED BY <2>1, <2>2 DEF ManifestLists
<1>8. CASE Settle
    BY <1>1, <1>8, SettleIs DEF ManifestLists
<1>9. CASE Recovering /\ journal' = Marked(at.tx, "MANUAL") /\ manifest' = manifest
    BY <1>1, <1>9, EndIs DEF ManifestLists
<1> QED BY <1>2, <1>3, <1>4, <1>5, <1>6, <1>7, <1>8, <1>9, JournalSteps

\* The transactions still to be rolled back, newest first.
TodoLists ==
    \A i \in DOMAIN at.todo : \A u \in Committed : u > at.todo[i] =>
          \/ \E j \in DOMAIN at.todo : j < i /\ at.todo[j] = u
          \/ pc = "mark" /\ at.by = "rollback" /\ u = at.tx

\* What a step does to the transactions still to be rolled back.
LEMMA TodoSteps ==
    ASSUME Typed, InOrder, Annotation, Next
    PROVE  \/ at'.todo = <<>>
           \/ at'.todo = at.todo /\ (pc = "mark" => at.tx \notin Committed' \/ at.by # "rollback")
                                 /\ Committed' \subseteq Committed
           \/ at' = at /\ pc' = pc /\ Committed' = Committed
           \/ \E n \in 1..Len(state.txs) : Lifecycle(n)
           \/ NextRollback
<1>1. at \in Works
    BY FiledParts
<1>2. Nothing.todo = <<>>
    BY DEF Nothing
<1>3. CASE Commit
    BY <1>2, <1>3 DEF Commit
<1>4. CASE Mark
    <2>1. at'.todo = at.todo \/ at'.todo = <<>>
        BY <1>1, <1>4, AfterRecoveryIs DEF Mark
    <2> QED BY <1>4, <2>1, MarkedOn
<1>5. CASE Settle
    <2>1. at'.todo = at.todo \/ at'.todo = <<>>
        BY <1>1, <1>5, AfterRecoveryIs DEF Settle
    <2> QED BY <1>5, <2>1, SettleIs DEF Settle
<1>6. CASE Committed' \subseteq Committed /\ ~Mark /\ ~Settle
    <2>1. Edit => at' = at /\ pc' = pc /\ Committed' = Committed
        BY DEF Edit, Committed
    <2>2. at'.todo = <<>> \/ at'.todo = at.todo \/ (\E n \in 1..Len(state.txs) : Lifecycle(n)) \/ NextRollback
        <3>1. CASE \E s \in Stacks : Install(s)
            BY <3>1, <1>2, NothingWorks DEF Install, Works
        <3>2. CASE RecoverPending
            BY <1>1, <1>2, <3>2 DEF RecoverPending, Works
        <3>3. CASE Fails
            BY <3>3, <1>2, NothingWorks DEF Fails, Works
        <3>4. CASE Begin \/ Backup \/ Stage \/ Switch \/ Publish \/ PublishGeneration
            BY <1>1, <3>4 DEF Begin, Backup, Stage, Switch, Publish, PublishGeneration, Works
        <3>5. CASE RecordPublished \/ Activate \/ WriteLink \/ Verify \/ RecordState
            BY <1>1, <3>5 DEF RecordPublished, Activate, WriteLink, Verify, RecordState, Works
        <3>6. CASE Apply /\ ~Fails /\ ~Commit
            BY <3>4, <3>5, <3>6 DEF Apply
        <3>7. CASE Recover
            BY <1>1, <1>2, <1>6, <3>7 DEF Recover, Read, HarnessRollback, HarnessFails, RestoreLinks,
                  RestoreSettings, RestoreState, RestoreTree, Unstage, Drop, Throw, Works
        <3>8. CASE Edit \/ Crash
            BY <1>2, <3>8 DEF Edit, Crash
        <3> QED BY <1>2, <1>3, <3>1, <3>2, <3>3, <3>6, <3>7, <3>8 DEF Next
    <2>3. pc = "mark" => Edit \/ Crash
        BY <1>6 DEF Next, Apply, Recover, Install, Lifecycle, RecoverPending, NextRollback,
           Begin, Backup, Stage, Switch, Publish, PublishGeneration, RecordPublished, Activate, WriteLink, Verify,
           RecordState, Commit, Fails, Read, HarnessRollback, HarnessFails, RestoreLinks, RestoreSettings,
           RestoreState, RestoreTree, Unstage, Drop, Applying
    <2> QED BY <1>2, <1>6, <2>1, <2>2, <2>3 DEF Crash
<1> QED BY <1>3, <1>4, <1>5, <1>6, StatusSteps

\* No committed transaction is newer than one that is still to be rolled back,
\* unless its turn comes earlier.
LEMMA TodoStep ==
    ASSUME Typed, InOrder, Annotation, Listed, Next
    PROVE  TodoLists'
<1>1. CASE at'.todo = <<>>
    BY <1>1 DEF TodoLists
<1>2. CASE /\ at'.todo = at.todo /\ Committed' \subseteq Committed
           /\ pc = "mark" => at.tx \notin Committed' \/ at.by # "rollback"
    BY <1>2 DEF TodoLists, Listed
<1>3. CASE at' = at /\ pc' = pc /\ Committed' = Committed
    BY <1>3 DEF TodoLists, Listed
<1>4. CASE \E n \in 1..Len(state.txs) : Lifecycle(n)
    <2>1. PICK n \in 1..Len(state.txs) : Lifecycle(n)
        BY <1>4
    <2>2. PICK q \in Seq(Txs) : q = state.txs
        BY StateTxs
    <2>3. PICK l \in Nat : l = Len(q) /\ DOMAIN q = 1..l /\ \A i \in 1..l : q[i] \in Txs
        BY LenProperties, ElementOfSeq
    <2>4. PICK d : d = Undoes(n)
        OBVIOUS
    <2>5. /\ DOMAIN d = 1..n /\ \A i \in 1..n : d[i] = q[l + 1 - i]
          /\ n \in 1..l
        BY <2>1, <2>2, <2>3, <2>4 DEF Undoes
    <2>6. /\ \A i, j \in 1..l : i < j => q[i] < q[j]
          /\ \A u \in Committed : \E k \in 1..l : q[k] = u
        <3>1. \A u \in Committed : u < MaxTx + 1
            BY DEF Committed, Txs
        <3>2. Lists(q, MaxTx + 1)
            BY <2>2 DEF Listed
        <3> QED BY <2>3, <3>1, <3>2 DEF Lists
    <2>7. \A i \in 1..n : \A u \in Committed : u > d[i] => \E j \in 1..n : j < i /\ d[j] = u
        <3> TAKE i \in 1..n
        <3> TAKE u \in Committed
        <3> HAVE u > d[i]
        <3>1. PICK k \in 1..l : q[k] = u
            BY <2>6
        <3>2. l + 1 - i \in 1..l /\ d[i] = q[l + 1 - i] /\ q[l + 1 - i] \in Nat /\ q[k] \in Nat
            <4>1. l + 1 - i \in 1..l /\ d[i] = q[l + 1 - i]
                BY <2>3, <2>5
            <4>2. q[l + 1 - i] \in Txs /\ q[k] \in Txs
                BY <2>3, <3>1, <4>1
            <4> QED BY <4>1, <4>2 DEF Txs
        <3>3. k > l + 1 - i
            <4>1. ~(k < l + 1 - i) /\ k # l + 1 - i
                BY <2>6, <3>1, <3>2
            <4> QED BY <2>3, <3>2, <4>1
        <3>4. l + 1 - k \in 1..n /\ l + 1 - k < i /\ l + 1 - (l + 1 - k) = k
            BY <2>3, <2>5, <3>3
        <3>5. d[l + 1 - k] = u
            BY <2>5, <3>1, <3>4
        <3> QED BY <3>4, <3>5
    <2>8. at'.todo = d /\ Committed' = Committed
        BY <2>1, <2>4, NothingWorks DEF Lifecycle, Committed, Works, disk
    <2> QED BY <2>5, <2>7, <2>8 DEF TodoLists
<1>5. CASE NextRollback
    <2>1. Committed' = Committed /\ pc = "next"
        BY <1>5 DEF NextRollback, Committed, disk
    <2>2. CASE at' = Nothing
        BY <2>2 DEF TodoLists, Nothing
    <2>3. CASE at.todo # <<>> /\ pc' = "mark"
               /\ at' = [at EXCEPT !.tx = Head(at.todo), !.todo = Tail(at.todo), !.by = "rollback"]
        <3>1. PICK q \in Seq(Txs) : q = at.todo
            BY FiledParts, WorkParts
        <3>2. PICK l \in Nat : l = Len(q) /\ DOMAIN q = 1..l /\ l > 0
            BY <2>3, <3>1, LenProperties, EmptySeq
        <3>3. PICK r : r = Tail(q)
            OBVIOUS
        <3>4. DOMAIN r = 1..(l - 1) /\ \A i \in 1..(l - 1) : r[i] = q[i + 1]
            BY <2>3, <3>1, <3>2, <3>3, HeadTailProperties, LenProperties
        <3>5. at'.todo = r /\ at'.tx = q[1] /\ at'.by = "rollback"
            BY <2>3, <3>1, <3>2, <3>3, FiledParts DEF Works
        <3>6. \A i \in 1..l : \A u \in Committed : u > q[i] => \E j \in 1..l : j < i /\ q[j] = u
            BY <2>1, <3>1, <3>2 DEF Listed
        <3>7. \A i \in 1..(l - 1) : \A u \in Committed : u > r[i] =>
                 (\E j \in 1..(l - 1) : j < i /\ r[j] = u) \/ u = q[1]
            <4> TAKE i \in 1..(l - 1)
            <4> TAKE u \in Committed
            <4> HAVE u > r[i]
            <4>1. PICK j \in 1..l : j < i + 1 /\ q[j] = u
                BY <3>2, <3>4, <3>6
            <4>2. CASE j = 1
                BY <4>1, <4>2
            <4>3. CASE j # 1
                <5>1. j - 1 \in 1..(l - 1) /\ j - 1 < i /\ (j - 1) + 1 = j
                    BY <3>2, <4>1, <4>3
                <5>2. r[j - 1] = u
                    BY <3>4, <4>1, <5>1
                <5> QED BY <5>1, <5>2
            <4> QED BY <4>2, <4>3
        <3> QED BY <2>1, <2>3, <3>4, <3>5, <3>7 DEF TodoLists
    <2> QED BY <1>5, <2>2, <2>3 DEF NextRollback
<1> QED BY <1>1, <1>2, <1>3, <1>4, <1>5, TodoSteps

\* Every step keeps the lists in order.
LEMMA ListedStep ==
    ASSUME Typed, InOrder, Annotation, Listed, Next
    PROVE  Listed'
<1>1. Listed' <=> RecordedLists' /\ ManifestLists' /\ TodoLists'
    BY DEF Listed, RecordedLists, ManifestLists, TodoLists
<1> QED BY <1>1, RecordedStep, ManifestListsStep, TodoStep

-----------------------------------------------------------------------------
(* What manifests refer to.                                                *)

\* Only Backup makes a manifest; nothing that it restores is changed.
LEMMA HeldKept ==
    ASSUME Typed, InOrder, Annotation, Next, ~Backup
    PROVE  /\ Held' \subseteq Held
           /\ \A t \in Txs : manifest'[t].on =>
                 /\ manifest[t].on /\ journal'[t].stack = journal[t].stack
                 /\ manifest'[t].link = manifest[t].link /\ manifest'[t].state = manifest[t].state
                 /\ manifest'[t].npm = manifest[t].npm /\ manifest'[t].good = manifest[t].good
                 /\ manifest'[t].settings = manifest[t].settings
                 /\ manifest'[t].switch = manifest[t].switch
                 /\ manifest'[t].untouched = manifest[t].untouched
           /\ \A t \in Held' : t \in Txs /\ manifest'[t].on
<1>1. CASE journal' = journal /\ manifest' = manifest
    BY <1>1 DEF Held
<1>2. CASE Begin
    <2>1. PICK t \in Txs : /\ ~manifest[t].on
                           /\ \A u \in Txs \ {t} : journal'[u] = journal[u]
        BY <1>2, BeginIs
    <2>2. manifest' = manifest
        BY <1>2 DEF Begin
    <2> QED BY <2>1, <2>2 DEF Held
<1>3. CASE RecordPublished
    BY <1>3, RecordIs DEF Held
<1>4. CASE Mark
    <2>1. /\ at.tx \in Txs /\ manifest' = manifest /\ journal[at.tx].status # "MANUAL"
          /\ journal' = Marked(at.tx, "RECOVERING") \/ journal' = Marked(at.tx, "ROLLED_BACK")
        BY <1>4, MarkedOn DEF Committed, Incomplete
    <2>2. \A u \in Txs : journal'[u].stack = journal[u].stack
                         /\ (u # at.tx => journal'[u].status = journal[u].status)
        BY <2>1, MarkedSets
    <2> QED BY <2>1, <2>2 DEF Held
<1>5. CASE Commit
    <2>1. /\ at.tx \in Txs /\ manifest' = manifest /\ journal' = Marked(at.tx, "COMMITTED")
          /\ journal[at.tx].status # "MANUAL"
        BY <1>5, CommitIs, StepLabels, WorkedOn DEF Commit, Applying
    <2>2. \A u \in Txs : journal'[u].stack = journal[u].stack
                         /\ (u # at.tx => journal'[u].status = journal[u].status)
        BY <2>1, MarkedSets
    <2> QED BY <2>1, <2>2 DEF Held
<1>6. CASE Settle
    <2>1. /\ at.tx \in Txs /\ journal' = Marked(at.tx, "ROLLED_BACK") /\ Held' = Held \ {at.tx}
          /\ ~manifest'[at.tx].on /\ \A u \in Txs \ {at.tx} : manifest'[u] = manifest[u]
        BY <1>6, SettleIs
    <2>2. \A u \in Txs : journal'[u].stack = journal[u].stack
        BY <2>1, MarkedSets
    <2>3. \A u \in Held' : u \in Txs /\ manifest'[u].on
        BY DEF Held
    <2> QED BY <2>1, <2>2, <2>3
<1>7. CASE Recovering /\ journal' = Marked(at.tx, "MANUAL") /\ manifest' = manifest
    <2>1. at.tx \in Txs
        BY <1>7, EndIs
    <2>2. \A u \in Txs : journal'[u].stack = journal[u].stack
                         /\ journal'[u].status = IF u = at.tx THEN "MANUAL" ELSE journal[u].status
        BY <1>7, <2>1, MarkedSets
    <2> QED BY <1>7, <2>2 DEF Held
<1> QED BY <1>1, <1>2, <1>3, <1>4, <1>5, <1>6, <1>7, JournalSteps

\* Only a recovery removes a stack, and only that of its transaction.
LEMMA DirSteps ==
    ASSUME Typed, Annotation, Next, NEW s \in Stacks, dir[s] = "whole"
    PROVE  dir'[s] = "whole" \/ (Drop /\ s = journal[at.tx].stack /\ Leads("current") # s)
<1>1. CASE Activate
    <2>1. at.stack \in Stacks /\ dir' = [dir EXCEPT ![at.stack] = "whole"]
        BY <1>1, AtTx, StepLabels DEF Activate, Applying
    <2> QED BY <2>1, FiledParts
<1>2. CASE Drop
    <2>1. PICK x : x = journal[at.tx].stack
        OBVIOUS
    <2>2. \/ dir' = dir
          \/ Leads("current") # x /\ dir' = [dir EXCEPT ![x] = IF dir[x] = "whole" THEN "partial" ELSE "none"]
        BY <1>2, <2>1, FiledParts DEF Drop
    <2> QED BY <1>2, <2>1, <2>2, FiledParts
<1>3. CASE dir' = dir
    BY <1>3
<1> QED BY <1>1, <1>2, <1>3 DEF Next, Apply, Recover, Install, Lifecycle, RecoverPending, NextRollback,
       Begin, Backup, Stage, Switch, Publish, PublishGeneration, RecordPublished, WriteLink, Verify,
       RecordState, Commit, Fails, Mark, Read, HarnessRollback, HarnessFails, RestoreLinks, RestoreSettings,
       RestoreState, RestoreTree, Unstage, Settle, Edit, Crash, disk

\* The npm root is changed for a transaction that switches it.
LEMMA NpmSteps ==
    ASSUME Typed, InOrder, Annotation, Next
    PROVE  \/ npm' = npm
           \/ (Switch \/ RestoreTree) /\ at.tx \in Held /\ manifest[at.tx].switch /\ Incomplete = {at.tx}
<1>1. CASE Switch
    <2>1. InApply /\ pc = "switch"
        BY <1>1, StepLabels DEF Switch, Applying
    <2>2. /\ at.tx \in Txs /\ manifest[at.tx].on /\ Incomplete = {at.tx} /\ journal[at.tx].status = "ACTIVE"
          /\ manifest[at.tx].switch = at.switch
        BY <2>1, WorkedOn DEF Annotation, AtApply
    <2> QED BY <1>1, <2>2 DEF Switch, Held
<1>2. CASE RestoreTree
    <2>1. /\ at.tx \in Txs /\ manifest[at.tx].on /\ Incomplete = {at.tx} /\ journal[at.tx].status = "RECOVERING"
        BY <1>2, WorkedOn DEF RestoreTree, Recovering
    <2> QED BY <1>2, <2>1 DEF RestoreTree, Held
<1>3. CASE npm' = npm
    BY <1>3
<1> QED BY <1>1, <1>2, <1>3 DEF Next, Apply, Recover, Install, Lifecycle, RecoverPending, NextRollback,
       Begin, Backup, Stage, Publish, PublishGeneration, RecordPublished, Activate, WriteLink, Verify,
       RecordState, Commit, Fails, Mark, Read, HarnessRollback, HarnessFails, RestoreLinks, RestoreSettings,
       RestoreState, Unstage, Drop, Settle, Edit, Crash, disk

\* A manifest changes only when it is written, completed or forgotten.
LEMMA ManifestSame ==
    ASSUME Typed, InOrder, Annotation, Next, ~Backup, ~RecordPublished, NEW t \in Txs, manifest'[t].on
    PROVE  manifest'[t] = manifest[t] /\ manifest[t].on /\ journal'[t].stack = journal[t].stack
<1>1. manifest[t].on /\ journal'[t].stack = journal[t].stack
    BY HeldKept
<1>2. CASE Settle
    BY <1>1, <1>2, SettleIs
<1>3. CASE Mark
    BY <1>1, <1>3, MarkedOn
<1>4. CASE Commit
    BY <1>1, <1>4, CommitIs
<1>5. CASE Begin
    BY <1>1, <1>5 DEF Begin
<1> QED BY <1>1, <1>2, <1>3, <1>4, <1>5, JournalSteps

\* Baseline, part by part.
ManifestsSay == \A t \in Txs : manifest[t].on => Manifest(t)
LinksThere == \A l \in Links : link[l] \in Stacks => dir[link[l]] = "whole"
LinksKept == \A t \in Held, l \in Links : manifest[t].link[l] # None => dir[manifest[t].link[l]] = "whole"
LinksOlder == \A t, u \in Held, l \in Links : t <= u => manifest[t].link[l] # journal[u].stack
RootsSupplied ==
    /\ \A t \in Held : manifest[t].npm \in Supplied => npm \in Supplied
    /\ \A t, u \in Held : t <= u /\ manifest[t].npm \in Supplied => manifest[u].npm \in Supplied

\* Baseline, part by part.
LEMMA BaselineParts ==
    Baseline <=> ManifestsSay /\ LinksThere /\ LinksKept /\ LinksOlder /\ RootsSupplied
BY DEF Baseline, ManifestsSay, LinksThere, LinksKept, LinksOlder, RootsSupplied

\* The same of the next state.
LEMMA BaselineNext ==
    Baseline' <=> ManifestsSay' /\ LinksThere' /\ LinksKept' /\ LinksOlder' /\ RootsSupplied'
BY DEF Baseline, ManifestsSay, LinksThere, LinksKept, LinksOlder, RootsSupplied

\* What a manifest says of itself stays true.
LEMMA ManifestsSayStep ==
    ASSUME Typed, InOrder, Annotation, Baseline, Next
    PROVE  ManifestsSay'
<1>1. CASE Backup
    <2>1. ASSUME NEW t \in Txs, manifest'[t].on PROVE Manifest(t)'
        <3>1. CASE t = at.tx
            <4>1. at.switch <=> at.stack \notin Private /\ npm \notin Supplied
                BY <1>1, StepLabels DEF Backup, Applying, Annotation, AtApply
            <4> QED BY <1>1, <3>1, <4>1, BackupIs DEF Manifest
        <3>2. CASE t # at.tx
            <4>1. manifest'[t] = manifest[t] /\ journal' = journal
                BY <1>1, <3>2, BackupIs
            <4> QED BY <2>1, <4>1 DEF Baseline, Manifest
        <3> QED BY <3>1, <3>2
    <2> QED BY <2>1 DEF ManifestsSay
<1>2. CASE RecordPublished
    <2>1. ASSUME NEW t \in Txs, manifest'[t].on PROVE Manifest(t)'
        <3>1. CASE t = at.tx
            <4>1. Manifest(t) /\ at.stack \notin Private
                  /\ at.written.gen = (IF at.new THEN at.stack ELSE manifest[at.tx].settings.gen)
                BY <1>2, <3>1, StepLabels, RecordIs DEF RecordPublished, Applying, Annotation, AtApply, Baseline
            <4> QED BY <1>2, <3>1, <4>1, RecordIs DEF Manifest
        <3>2. CASE t # at.tx
            <4>1. manifest'[t] = manifest[t] /\ journal' = journal
                BY <1>2, <3>2, RecordIs
            <4> QED BY <2>1, <4>1 DEF Baseline, Manifest
        <3> QED BY <3>1, <3>2
    <2> QED BY <2>1 DEF ManifestsSay
<1>3. CASE ~Backup /\ ~RecordPublished
    BY <1>3, ManifestSame DEF ManifestsSay, Baseline, Manifest
<1> QED BY <1>1, <1>2, <1>3

\* A link is written only to what is there.
LEMMA WrittenLinks ==
    ASSUME Typed, InOrder, Annotation, Baseline, pc = "link"
    PROVE  /\ \A i \in DOMAIN at.links : at.links[i].to \in Stacks => dir[at.links[i].to] = "whole"
           /\ \A i \in DOMAIN at.links : at.links[i].name \in Links
<1>1. CASE at.by = "none"
    <2>1. AtApply /\ InApply
        BY <1>1 DEF Annotation, InApply
    <2>2. at.stack \in Stacks /\ at.tx \in Held /\ dir[at.stack] = "whole" /\ manifest[at.tx] \in Manifests
        BY <2>1, WorkedOn, ManifestParts DEF Held, AtApply
    <2>3. CASE at.then = "verify"
        <3>1. Filling(Leading)
            BY <2>1, <2>3 DEF AtApply
        <3>2. \A l \in DOMAIN Leading : l \in Links /\ (Leading[l] \in Stacks => dir[Leading[l]] = "whole")
            BY <2>2 DEF Leading
        <3> QED BY <3>1, <3>2 DEF Filling
    <2>4. CASE at.then = "state"
        <3>1. Filling(LastGood)
            BY <2>1, <2>4 DEF AtApply
        <3>2. "current" \in Links /\ "lkg" \in Links
            BY DEF Links
        <3>3. \A l \in DOMAIN LastGood : l \in Links /\ (LastGood[l] \in Stacks => dir[LastGood[l]] = "whole")
            BY <2>2, <3>2 DEF LastGood, Baseline
        <3> QED BY <3>1, <3>3 DEF Filling
    <2> QED BY <2>1, <2>3, <2>4 DEF AtApply
<1>2. CASE at.by # "none"
    <2>1. AtRecovery /\ Recovering
        BY <1>2 DEF Annotation, Recovering
    <2>2. at.tx \in Held /\ manifest[at.tx].link \in [Links -> AnyStack] /\ Filling(manifest[at.tx].link)
        BY <2>1, WorkedOn, ManifestParts, ManifestFields DEF Held, AtRecovery
    <2>3. \A l \in Links : manifest[at.tx].link[l] \in Stacks => dir[manifest[at.tx].link[l]] = "whole"
        BY <2>2 DEF Baseline
    <2> QED BY <2>2, <2>3 DEF Filling
<1> QED BY <1>1, <1>2

\* What a recovery has restored does not lead to the stack that it removes.
LEMMA DropSpares ==
    ASSUME Typed, InOrder, Annotation, Baseline, Drop
    PROVE  /\ \A l \in Links : link[l] = manifest[at.tx].link[l] /\ link[l] # journal[at.tx].stack
           /\ at.tx \in Held /\ \A t \in Held : t <= at.tx
<1>1. Recovering /\ pc = "drop"
    BY DEF Drop, Recovering
<1>2. at.tx \in Held /\ manifest[at.tx].link \in [Links -> AnyStack] /\ Filled(manifest[at.tx].link)
      /\ at.tx \in Incomplete /\ at.tx \in Nat
    BY <1>1, WorkedOn, ManifestParts, ManifestFields DEF Held, Annotation, AtRecovery, Txs
<1>3. \A t \in Held : t <= at.tx
    BY <1>2, WorkedOn
<1> QED BY <1>2, <1>3 DEF Filled, Baseline

\* No step leaves a link that leads to a stack that is not there: a link is
\* written to a whole stack, and Drop spares what links lead to.
LEMMA LinksThereStep ==
    ASSUME Typed, InOrder, Annotation, Baseline, Next
    PROVE  LinksThere'
<1>1. CASE WriteLink
    <2>1. CASE at.links = <<>>
        BY <1>1, <2>1 DEF WriteLink, LinksThere, Baseline
    <2>2. CASE at.links # <<>>
        <3>1. PICK w : w = Head(at.links)
            OBVIOUS
        <3>2. 1 \in DOMAIN at.links /\ w = at.links[1]
            BY <2>2, <3>1, FiledParts, WorkParts
        <3>3. w.name \in Links /\ (w.to \in Stacks => dir[w.to] = "whole")
            BY <1>1, <3>2, WrittenLinks DEF WriteLink
        <3>4. /\ dir' = dir
              /\ link' = [link EXCEPT ![w.name] = None] \/ link' = [link EXCEPT ![w.name] = w.to]
            BY <1>1, <2>2, <3>1 DEF WriteLink
        <3> QED BY <3>3, <3>4, FiledParts DEF LinksThere, Baseline
    <2> QED BY <2>1, <2>2
<1>2. CASE link' = link
    <2>1. \A l \in Links : link[l] \in Stacks => dir[link[l]] = "whole"
        BY DEF Baseline
    <2> QED BY <1>2, <2>1, DirSteps, DropSpares DEF LinksThere
<1> QED BY <1>1, <1>2 DEF Next, Apply, Recover, Install, Lifecycle, RecoverPending, NextRollback,
       Begin, Backup, Stage, Switch, Publish, PublishGeneration, RecordPublished, Activate, Verify,
       RecordState, Commit, Fails, Mark, Read, HarnessRollback, HarnessFails, RestoreLinks, RestoreSettings,
       RestoreState, RestoreTree, Unstage, Drop, Settle, Edit, Crash, disk

\* The links of a manifest lead to stacks or nowhere.
LEMMA ManifestLinks ==
    ASSUME Typed, NEW t \in Held, NEW l \in Links
    PROVE  manifest[t].link[l] \in AnyStack
           /\ (manifest[t].link[l] # None <=> manifest[t].link[l] \in Stacks)
<1>1. manifest[t].link[l] \in AnyStack
    BY ManifestParts, ManifestFields DEF Held
<1> QED BY <1>1 DEF AnyStack

\* What the links lead to when a manifest is made is there, and older.
LEMMA BackedUpLinks ==
    ASSUME Typed, InOrder, Annotation, Baseline, Backup, NEW l \in Links
    PROVE  /\ manifest'[at.tx].link[l] = Leads(l)
           /\ Leads(l) # None => dir[Leads(l)] = "whole"
           /\ Leads(l) # at.stack
<1>1. Leads(l) \in AnyStack /\ manifest'[at.tx].link[l] = Leads(l) /\ dir[at.stack] = "none"
    BY LeadsType, BackupIs
<1>2. Leads(l) \in Stacks => dir[Leads(l)] = "whole"
    BY DEF Baseline, Leads, Links
<1>3. at.stack \in Stacks
    BY BackupIs
<1> QED BY <1>1, <1>2, <1>3 DEF AnyStack

\* The stacks that a manifest's links lead to are not removed.
LEMMA LinksKeptStep ==
    ASSUME Typed, InOrder, Annotation, Baseline, Next
    PROVE  LinksKept'
<1>1. CASE Backup
    <2>1. ASSUME NEW t \in Held', NEW l \in Links, manifest'[t].link[l] # None
          PROVE  dir[manifest'[t].link[l]] = "whole"
        <3>1. CASE t = at.tx
            BY <1>1, <2>1, <3>1, BackedUpLinks
        <3>2. CASE t # at.tx
            BY <1>1, <2>1, <3>2, BackupIs DEF Baseline, Held
        <3> QED BY <3>1, <3>2
    <2>2. dir' = dir
        BY <1>1 DEF Backup
    <2> QED BY <2>1, <2>2 DEF LinksKept
<1>2. CASE ~Backup
    <2>1. ASSUME NEW t \in Held', NEW l \in Links, manifest'[t].link[l] # None
          PROVE  dir'[manifest'[t].link[l]] = "whole"
        <3>1. t \in Held /\ manifest'[t].link = manifest[t].link
            BY <1>2, HeldKept
        <3>2. PICK s \in Stacks : s = manifest[t].link[l]
            BY <2>1, <3>1, ManifestLinks
        <3>3. dir[s] = "whole"
            BY <2>1, <3>1, <3>2 DEF Baseline
        <3>4. Drop => s # journal[at.tx].stack
            BY <3>1, <3>2, DropSpares DEF Baseline
        <3> QED BY <3>1, <3>2, <3>3, <3>4, DirSteps
    <2> QED BY <2>1 DEF LinksKept
<1> QED BY <1>1, <1>2

\* A manifest leads to no stack of a later transaction, nor to its own.
LEMMA LinksOlderStep ==
    ASSUME Typed, InOrder, Annotation, Baseline, Next
    PROVE  LinksOlder'
<1>1. CASE Backup
    <2>1. \A t \in Held : t <= at.tx /\ t # at.tx /\ t \in Nat /\ at.tx \in Nat
        BY <1>1, BackupIs, WorkedOn DEF Txs
    <2>2. ASSUME NEW t \in Held', NEW u \in Held', NEW l \in Links, t <= u
          PROVE  manifest'[t].link[l] # journal'[u].stack
        <3>1. CASE u = at.tx
            <4>1. journal'[u].stack = at.stack /\ dir[at.stack] = "none"
                BY <1>1, <3>1, BackupIs
            <4>2. CASE t = at.tx
                BY <1>1, <4>1, <4>2, BackedUpLinks
            <4>3. CASE t # at.tx
                <5>1. t \in Held /\ manifest'[t].link = manifest[t].link
                    BY <1>1, <4>3, BackupIs DEF Held
                <5>2. manifest[t].link[l] \in Stacks => dir[manifest[t].link[l]] = "whole"
                    BY <5>1, ManifestLinks DEF Baseline
                <5> QED BY <1>1, <4>1, <5>1, <5>2, BackupIs
            <4> QED BY <4>2, <4>3
        <3>2. CASE u # at.tx
            <4>1. u \in Held /\ journal' = journal
                BY <1>1, <3>2, BackupIs
            <4>2. t # at.tx
                BY <2>1, <2>2, <4>1
            <4>3. t \in Held /\ manifest'[t].link = manifest[t].link
                BY <1>1, <4>2, BackupIs DEF Held
            <4> QED BY <2>2, <4>1, <4>3 DEF Baseline
        <3> QED BY <3>1, <3>2
    <2> QED BY <2>2 DEF LinksOlder
<1>2. CASE ~Backup
    <2>1. Held' \subseteq Held /\ \A t \in Held' : /\ manifest'[t].link = manifest[t].link
                                                   /\ journal'[t].stack = journal[t].stack
        BY <1>2, HeldKept
    <2> QED BY <2>1 DEF LinksOlder, Baseline
<1> QED BY <1>1, <1>2

\* An npm root that needed no switch is not taken away.
LEMMA RootsSuppliedStep ==
    ASSUME Typed, InOrder, Annotation, Baseline, Next
    PROVE  RootsSupplied'
<1>1. CASE Backup
    <2>1. /\ at.tx \in Nat /\ npm' = npm /\ manifest'[at.tx].npm = npm /\ Held' = Held \union {at.tx}
          /\ at.tx \notin Held /\ at.tx \in Incomplete
        <3>1. npm' = npm
            BY <1>1 DEF Backup
        <3> QED BY <1>1, <3>1, BackupIs DEF Txs
    <2>3. \A t \in Held : t \in Nat /\ t <= at.tx /\ t # at.tx /\ manifest'[t].npm = manifest[t].npm
        <3>1. \A t \in Held : t <= at.tx /\ t # at.tx
            BY <2>1, WorkedOn
        <3>2. \A t \in Held : manifest'[t] = manifest[t]
            BY <1>1, <3>1, BackupIs DEF Held
        <3> QED BY <3>1, <3>2 DEF Held, Txs
    <2>2. \A u \in Held : ~(at.tx <= u)
        BY <2>1, <2>3
    <2> QED BY <2>1, <2>2, <2>3 DEF RootsSupplied, Baseline
<1>2. CASE ~Backup
    <2>1. Held' \subseteq Held /\ \A t \in Held' : manifest'[t].npm = manifest[t].npm
        BY <1>2, HeldKept
    <2>2. ASSUME NEW t \in Held, manifest[t].npm \in Supplied PROVE npm' \in Supplied
        <3>1. npm \in Supplied
            BY <2>2 DEF Baseline
        <3>2. CASE at.tx \in Held /\ manifest[at.tx].switch /\ Incomplete = {at.tx}
            <4>1. t <= at.tx
                BY <3>2, WorkedOn
            <4>2. manifest[at.tx].npm \in Supplied
                BY <2>2, <3>2, <4>1 DEF Baseline
            <4> QED BY <3>2, <4>2 DEF Baseline, Manifest, Held
        <3> QED BY <3>1, <3>2, NpmSteps
    <2> QED BY <2>1, <2>2 DEF RootsSupplied, Baseline
<1> QED BY <1>1, <1>2

\* Every step keeps what a later recovery goes back to.
LEMMA BaselineStep ==
    ASSUME Typed, InOrder, Annotation, Baseline, Next
    PROVE  Baseline'
BY BaselineNext, ManifestsSayStep, LinksThereStep, LinksKeptStep, LinksOlderStep, RootsSuppliedStep

-----------------------------------------------------------------------------
(* What is staged or moved aside.                                          *)

\* Every step keeps track of what is staged and of what is moved aside.
LEMMA AsideStep ==
    ASSUME Typed, InOrder, Annotation, Baseline, Aside, Next
    PROVE  Aside'
<1> DEFINE Clean(t) == stage[t] = "none" /\ t \notin fresh
<1> DEFINE Quiet == stage' = stage /\ fresh' = fresh /\ kept' = kept
<1>1. ASSUME Quiet, \A t \in Txs : ~manifest'[t].on \/ t \in Committed' => Clean(t),
             \A t \in Txs : kept[t] # None => manifest'[t].on /\ manifest'[t].switch
      PROVE  Aside'
    BY <1>1 DEF Aside
<1>2. CASE Begin
    <2>1. PICK t \in Txs : /\ ~manifest[t].on /\ Committed' = Committed
        BY <1>2, BeginIs
    <2> QED BY <1>2, <2>1 DEF Begin, Aside
<1>3. CASE Backup
    <2>1. /\ at.tx \in Txs /\ Committed' = Committed /\ manifest'[at.tx].on /\ ~manifest[at.tx].on
          /\ \A u \in Txs \ {at.tx} : manifest'[u] = manifest[u]
          /\ at.tx \notin Committed
        BY <1>3, BackupIs DEF Committed, Incomplete
    <2>2. Quiet
        BY <1>3 DEF Backup
    <2>3. kept[at.tx] = None
        BY <2>1 DEF Aside
    <2> QED BY <2>1, <2>2, <2>3 DEF Aside
<1>4. CASE RecordPublished
    <2>1. Quiet
        BY <1>4 DEF RecordPublished
    <2> QED BY <1>4, <2>1, RecordIs DEF Aside
<1>5. CASE Mark
    <2>1. Quiet
        BY <1>5 DEF Mark
    <2> QED BY <1>5, <2>1, MarkedOn DEF Aside
<1>6. CASE Commit
    <2>1. Quiet
        BY <1>6 DEF Commit
    <2>2. Clean(at.tx)
        BY <1>6, StepLabels DEF Commit, Applying, Annotation, AtApply
    <2> QED BY <1>6, <2>1, <2>2, CommitIs DEF Aside
<1>7. CASE Settle
    <2>1. Quiet
        BY <1>7 DEF Settle
    <2>2. Clean(at.tx) /\ kept[at.tx] = None
        BY <1>7, SettleIs DEF Annotation, AtRecovery
    <2> QED BY <1>7, <2>1, <2>2, SettleIs DEF Aside
<1>8. CASE Recovering /\ journal' = Marked(at.tx, "MANUAL") /\ manifest' = manifest
           /\ UNCHANGED <<stage, fresh, kept>>
    <2>1. Quiet /\ Committed' = Committed
        BY <1>8, EndIs
    <2> QED BY <1>8, <2>1 DEF Aside
<1>9. CASE Stage
    <2>1. /\ at.tx \in Txs /\ manifest[at.tx].on /\ at.tx \notin Committed
        BY <1>9, StepLabels, WorkedOn DEF Stage, Applying, Committed
    <2>2. /\ \A t \in Txs \ {at.tx} : stage'[t] = stage[t] /\ (t \in fresh' => t \in fresh)
          /\ kept' = kept /\ Committed' = Committed /\ manifest' = manifest
        BY <1>9, <2>1, FiledParts DEF Stage, Committed
    <2> QED BY <2>1, <2>2 DEF Aside
<1>10. CASE Switch
    <2>1. InApply /\ pc = "switch"
        BY <1>10, StepLabels DEF Switch, Applying
    <2>2. /\ at.tx \in Txs /\ manifest[at.tx].on /\ manifest[at.tx].switch = at.switch
          /\ at.switch => npm = None \/ npm \notin Supplied
        BY <2>1, WorkedOn DEF Annotation, AtApply
    <2>3. /\ stage' = stage /\ fresh' \subseteq fresh /\ Committed' = Committed /\ manifest' = manifest
          /\ \A t \in Txs \ {at.tx} : kept'[t] = kept[t]
          /\ kept'[at.tx] = kept[at.tx] \/ (at.switch /\ npm # None /\ kept'[at.tx] = npm)
        BY <1>10, <2>2, FiledParts DEF Switch, Committed
    <2>4. npm # None /\ npm \notin Supplied => npm = "partial" /\ "partial" \in Trees
        BY FiledParts DEF Roots, Supplied
    <2> QED BY <2>2, <2>3, <2>4 DEF Aside
<1>11. CASE Activate
    <2>1. at.tx \in Txs
        BY <1>11, StepLabels, WorkedOn DEF Activate, Applying
    <2> QED BY <1>11, <2>1, FiledParts DEF Activate, Aside, Committed
<1>12. CASE RestoreTree
    <2>1. at.tx \in Txs
        BY <1>12, WorkedOn DEF RestoreTree, Recovering
    <2> QED BY <1>12, <2>1, FiledParts DEF RestoreTree, Aside, Committed
<1>13. CASE Unstage
    <2>1. at.tx \in Txs
        BY <1>13, WorkedOn DEF Unstage, Recovering
    <2> QED BY <1>13, <2>1, FiledParts DEF Unstage, StagedRemoved, Aside, Committed
<1>14. CASE journal' = journal /\ manifest' = manifest /\ Quiet
    BY <1>14 DEF Aside, Committed
<1>15. CASE journal' = journal /\ manifest' = manifest
    <2>1. Quiet \/ Stage \/ Switch \/ Activate \/ RestoreTree \/ Unstage
        BY DEF Next, Apply, Recover, Install, Lifecycle, RecoverPending, NextRollback,
           Begin, Backup, Publish, PublishGeneration, RecordPublished, WriteLink, Verify,
           RecordState, Commit, Fails, Mark, Read, HarnessRollback, HarnessFails, RestoreLinks, RestoreSettings,
           RestoreState, Drop, Settle, Edit, Crash, disk
    <2> QED BY <1>9, <1>10, <1>11, <1>12, <1>13, <1>14, <1>15, <2>1
<1> QED BY <1>2, <1>3, <1>4, <1>5, <1>6, <1>7, <1>8, <1>15, JournalSteps

-----------------------------------------------------------------------------
(* What the links, the state and the settings say of each other, as long   *)
(* as no transaction is given up.                                          *)

\* A transaction that is left for manual reconciliation was given up.
LEMMA ManualGivenUp ==
    ASSUME Typed, InOrder, Annotation, Recovering, journal' = Marked(at.tx, "MANUAL")
    PROVE  ~NoneGivenUp'
<1>1. at.tx \in Txs
    BY WorkedOn
<1>2. journal'[at.tx].status = "MANUAL"
    BY <1>1, MarkedSets
<1> QED BY <1>1, <1>2 DEF NoneGivenUp

\* While nothing with a manifest is incomplete, no step but these changes what
\* is recorded.
LEMMA RestingSteps ==
    ASSUME Typed, InOrder, Annotation, Next, Resting', NoneGivenUp', ~Commit, ~Settle
    PROVE  /\ Resting /\ UNCHANGED <<state, link, npm, dir, good, manifest>> /\ settings'.gen = settings.gen
           /\ Committed' = Committed /\ \A t \in Committed : journal'[t].stack = journal[t].stack
<1>1. ~(InApply /\ pc # "backup" /\ Resting) /\ ~(Recovering /\ Resting)
    BY WorkedOn DEF Resting
<1>2. CASE journal' = journal /\ manifest' = manifest
    <2>1. Resting /\ Committed' = Committed
        BY <1>2 DEF Resting, Incomplete, Committed
    <2>2. settings' = settings \/ settings'.gen = settings.gen
          \/ (InApply /\ pc # "backup") \/ Recovering
        BY FiledParts DEF Next, Apply, Recover, Install, Lifecycle, RecoverPending, NextRollback,
           Begin, Backup, Stage, Switch, Publish, PublishGeneration, RecordPublished, Activate, WriteLink, Verify,
           RecordState, Commit, Fails, Mark, Read, HarnessRollback, HarnessFails, RestoreLinks, RestoreSettings,
           RestoreState, RestoreTree, Unstage, Drop, Settle, Edit, Crash, disk, InApply, Applying, Recovering,
           Settings
    <2>3. UNCHANGED <<state, link, npm, dir, good>> \/ (InApply /\ pc # "backup") \/ Recovering
        BY DEF Next, Apply, Recover, Install, Lifecycle, RecoverPending, NextRollback,
           Begin, Backup, Stage, Switch, Publish, PublishGeneration, RecordPublished, Activate, WriteLink, Verify,
           RecordState, Commit, Fails, Mark, Read, HarnessRollback, HarnessFails, RestoreLinks, RestoreSettings,
           RestoreState, RestoreTree, Unstage, Drop, Settle, Edit, Crash, disk, InApply, Applying, Recovering
    <2> QED BY <1>1, <1>2, <2>1, <2>2, <2>3
<1>3. CASE Begin
    <2>1. PICK t \in Txs :
              /\ Incomplete = {} /\ Committed' = Committed /\ journal[t].status = "none"
              /\ \A u \in Txs \ {t} : journal'[u] = journal[u]
        BY <1>3, BeginIs
    <2>2. UNCHANGED <<state, link, npm, dir, good, manifest, settings>>
        BY <1>3 DEF Begin
    <2> QED BY <2>1, <2>2 DEF Resting, Committed
<1>4. CASE Backup
    BY <1>4, BackupIs DEF Resting
<1>5. CASE RecordPublished
    <2>1. at.tx \in Incomplete' /\ manifest'[at.tx].on
        BY <1>5, RecordIs
    <2> QED BY <2>1 DEF Resting
<1>6. CASE Mark
    <2>1. ~manifest[at.tx].on
        BY <1>6, MarkedOn DEF Resting
    <2>2. /\ Incomplete = {at.tx} /\ Committed' = Committed
          /\ \A u \in Txs : journal'[u].stack = journal[u].stack
        BY <1>6, <2>1, MarkedOn, MarkedSets
    <2>3. UNCHANGED <<state, link, npm, dir, good, manifest, settings>>
        BY <1>6 DEF Mark
    <2> QED BY <2>1, <2>2, <2>3 DEF Resting, Committed
<1>7. CASE Recovering /\ journal' = Marked(at.tx, "MANUAL")
    BY <1>7, ManualGivenUp
<1> QED BY <1>2, <1>3, <1>4, <1>5, <1>6, <1>7, JournalSteps

HeldCoherent ==
    \A t \in Held :
          LET m == manifest[t]
          IN  /\ \A l \in Links \ {"lkg"} : m.link[l] = m.state.active
              /\ m.link["lkg"] = m.state.lkg
              /\ m.state.active \in Stacks \ Private => m.npm \in Supplied
              /\ \A i \in DOMAIN m.state.txs : m.state.txs[i] \in Committed
NowCoherent ==
    Resting =>
          /\ \A l \in Links \ {"lkg"} : Leads(l) = state.active
          /\ link["lkg"] = state.lkg
          /\ state.active \in Stacks \ Private => npm \in Supplied
          /\ \A i \in DOMAIN state.txs : state.txs[i] \in Committed

\* CoherentLinks, part by part.
LEMMA CoherentLinksParts ==
    /\ CoherentLinks <=> HeldCoherent /\ NowCoherent
    /\ CoherentLinks' <=> HeldCoherent' /\ NowCoherent'
BY DEF CoherentLinks, HeldCoherent, NowCoherent

\* What a manifest restores stays coherent.
LEMMA HeldCoherentStep ==
    ASSUME Typed, InOrder, Listed, Annotation, HeldCoherent, NowCoherent, Next
    PROVE  HeldCoherent'
<1>1. CASE Backup
    <2>1. /\ at.tx \in Txs /\ Committed' = Committed /\ Held' = Held \union {at.tx}
          /\ \A u \in Txs \ {at.tx} : manifest'[u] = manifest[u]
          /\ Incomplete = {at.tx} /\ ~manifest[at.tx].on /\ at.tx \notin Held
          /\ manifest'[at.tx].state = state /\ manifest'[at.tx].npm = npm
          /\ \A l \in Links : manifest'[at.tx].link[l] = Leads(l)
        BY <1>1, BackupIs
    <2>2. Resting
        BY <2>1 DEF Resting
    <2>3. Leads("lkg") = link["lkg"] /\ "lkg" \in Links
        BY LeadsType DEF Links
    <2>4. \A t \in Held : t \in Txs /\ manifest'[t] = manifest[t]
        BY <2>1 DEF Held
    <2> QED BY <2>1, <2>2, <2>3, <2>4 DEF HeldCoherent, NowCoherent
<1>2. CASE ~Backup
    <2>1. /\ Held' \subseteq Held
          /\ \A t \in Held' : /\ manifest'[t].link = manifest[t].link /\ manifest'[t].state = manifest[t].state
                              /\ manifest'[t].npm = manifest[t].npm
        BY <1>2, HeldKept
    <2>2. ASSUME NEW t \in Held', NEW i \in DOMAIN manifest[t].state.txs
          PROVE  manifest[t].state.txs[i] \in Committed'
        <3>1. t \in Held /\ manifest[t].on /\ t \in Txs
            BY <2>1 DEF Held
        <3>2. manifest[t].state.txs[i] \in Committed
            BY <3>1 DEF HeldCoherent
        <3>3. CASE Mark
            <4>1. manifest[t].state.txs[i] \in Txs /\ manifest[t].state.txs[i] < t
                BY <3>1, StateTxs DEF Listed, Lists
            <4>2. t <= at.tx /\ at.tx \in Txs
                <5>1. t \in Committed => t <= at.tx
                    BY <3>3, MarkedOn
                <5>2. t \in Incomplete => t = at.tx
                    BY <3>3, MarkedOn
                <5>3. t \in Nat /\ at.tx \in Txs
                    BY <3>1, <3>3, MarkedOn DEF Txs
                <5> QED BY <3>1, <5>1, <5>2, <5>3, WorkedOn
            <4>3. manifest[t].state.txs[i] # at.tx
                BY <3>1, <4>1, <4>2 DEF Txs
            <4> QED BY <3>2, <3>3, <4>3, MarkedOn
        <3>4. CASE ~Mark
            <4>1. Committed \subseteq Committed'
                <5>1. CASE journal' = journal
                    BY <5>1 DEF Committed
                <5>2. CASE Begin \/ RecordPublished \/ Commit \/ Settle
                    BY <5>2, BeginIs, RecordIs, CommitIs, SettleIs
                <5>3. CASE Recovering /\ journal' = Marked(at.tx, "MANUAL")
                    BY <5>3, EndIs
                <5> QED BY <1>2, <3>4, <5>1, <5>2, <5>3, JournalSteps
            <4> QED BY <3>2, <4>1
        <3> QED BY <3>3, <3>4
    <2> QED BY <2>1, <2>2 DEF HeldCoherent
<1> QED BY <1>1, <1>2

\* The present is coherent whenever no transaction is open.
LEMMA NowCoherentStep ==
    ASSUME Typed, InOrder, Listed, Baseline, Annotation, HeldCoherent, NowCoherent, NoneGivenUp', Next
    PROVE  NowCoherent'
<1>1. CASE Commit
    <2>1. InApply /\ AtApply /\ pc = "commit"
        BY <1>1, StepLabels DEF Commit, Applying, Annotation
    <2>2. /\ at.tx \in Held /\ at.stack \in Stacks /\ manifest[at.tx].on
          /\ Committed' = Committed \union {at.tx} /\ at.tx \in Txs
        BY <1>1, <2>1, WorkedOn, CommitIs DEF Held
    <2>3. /\ Filled(Leading) /\ Filled(LastGood)
          /\ at.stack \in Private \/ npm \in Supplied
          /\ state.active = at.stack /\ state.lkg = manifest[at.tx].state.active
          /\ state.txs = Append(manifest[at.tx].state.txs, at.tx)
        BY <2>1 DEF AtApply
    <2>4. UNCHANGED <<state, link, npm>>
        BY <1>1 DEF Commit
    <2>5. /\ DOMAIN Leading = {"omp", "pi", "current"} /\ DOMAIN LastGood = {"lkg"}
          /\ Leading["omp"] = Via /\ Leading["pi"] = Via /\ Leading["current"] = at.stack
          /\ LastGood["lkg"] = manifest[at.tx].link["current"]
        BY DEF Leading, LastGood, Links
    <2>6. link["omp"] = Via /\ link["pi"] = Via /\ link["current"] = at.stack
          /\ link["lkg"] = manifest[at.tx].link["current"]
        BY <2>3, <2>5 DEF Filled
    <2>7. \A l \in Links \ {"lkg"} : Leads(l) = state.active
        BY <2>2, <2>3, <2>6 DEF Leads, Links
    <2>8. link["lkg"] = state.lkg
        BY <2>2, <2>3, <2>6 DEF HeldCoherent, Links
    <2>9. \A i \in DOMAIN state.txs : state.txs[i] \in Committed'
        <3>1. PICK q \in Seq(Txs) : q = manifest[at.tx].state.txs
            BY <2>2, StateTxs
        <3>2. \A i \in DOMAIN q : q[i] \in Committed
            BY <2>2, <3>1 DEF HeldCoherent
        <3>3. \A i \in DOMAIN Append(q, at.tx) : Append(q, at.tx)[i] \in Committed \union {at.tx}
            <4>1. PICK n \in Nat : n = Len(q) /\ DOMAIN q = 1..n
                BY LenProperties
            <4>2. /\ DOMAIN Append(q, at.tx) = 1..(n + 1) /\ Append(q, at.tx)[n + 1] = at.tx
                  /\ \A i \in 1..n : Append(q, at.tx)[i] = q[i]
                BY <2>2, <4>1, AppendProperties
            <4> QED BY <3>2, <4>1, <4>2
        <3> QED BY <2>2, <2>3, <3>1, <3>3
    <2> QED BY <2>3, <2>4, <2>7, <2>8, <2>9 DEF NowCoherent, Leads
<1>2. CASE Settle
    <2>1. /\ AtRecovery /\ pc = "settle" /\ at.tx \in Held /\ Committed' = Committed
          /\ at.tx \in Txs /\ manifest[at.tx].on
        BY <1>2, SettleIs DEF Annotation
    <2>2. Filled(manifest[at.tx].link) /\ state = manifest[at.tx].state
        BY <2>1 DEF AtRecovery
    <2>3. UNCHANGED <<state, link, npm>>
        BY <1>2 DEF Settle
    <2>4. \A l \in Links : link[l] = manifest[at.tx].link[l] /\ link[l] \in AnyStack
        <3>1. manifest[at.tx].link \in [Links -> AnyStack]
            BY <2>1, ManifestParts, ManifestFields
        <3> QED BY <2>2, <3>1 DEF Filled
    <2>5. \A l \in Links : Leads(l) = link[l]
        BY <2>4 DEF Leads, AnyStack
    <2>6. "lkg" \in Links
        BY DEF Links
    <2> QED BY <2>1, <2>2, <2>3, <2>4, <2>5, <2>6 DEF NowCoherent, HeldCoherent, Baseline, Leads
<1>3. CASE ~Commit /\ ~Settle
    BY <1>3, RestingSteps DEF NowCoherent, Leads
<1> QED BY <1>1, <1>2, <1>3

\* Links and recorded state agree until a transaction is given up.
LEMMA CoherentLinksStep ==
    ASSUME Typed, InOrder, Listed, Baseline, Annotation, CoherentLinks, NoneGivenUp', Next
    PROVE  CoherentLinks'
BY CoherentLinksParts, HeldCoherentStep, NowCoherentStep
\* CoherentGens, part by part.
GensKept == \A t \in Held : manifest[t].settings.gen # None => dir[manifest[t].settings.gen] = "whole"
GensOlder == \A t, u \in Held : t <= u => manifest[t].settings.gen # journal[u].stack
GensChain ==
    \A t \in Committed, u \in Held :
          t < u /\ (\A v \in Committed : v <= t \/ v >= u) => manifest[u].settings.gen = Gen(t)
GensNow ==
    Resting =>
          /\ settings.gen # None => dir[settings.gen] = "whole"
          /\ \A t \in Committed : (\A v \in Committed : v <= t) => settings.gen = Gen(t)
GensOpen ==
    \A t \in Incomplete : manifest[t].on =>
          /\ manifest[t].untouched => settings.gen = manifest[t].settings.gen
          /\ manifest[t].harness /\ settings.gen = manifest[t].settings.gen => good = manifest[t].good

\* CoherentGens, part by part.
LEMMA CoherentGensParts ==
    /\ CoherentGens <=> GensKept /\ GensOlder /\ GensChain /\ GensNow /\ GensOpen
    /\ CoherentGens' <=> GensKept' /\ GensOlder' /\ GensChain' /\ GensNow' /\ GensOpen'
BY DEF CoherentGens, GensKept, GensOlder, GensChain, GensNow, GensOpen

\* The generation of a manifest's settings is one of a stack, or none.
LEMMA ManifestGens ==
    ASSUME Typed, NEW t \in Held
    PROVE  /\ manifest[t].settings.gen \in AnyStack
           /\ manifest[t].settings.gen # None <=> manifest[t].settings.gen \in Stacks
<1>1. manifest[t].settings.gen \in AnyStack
    BY ManifestParts, ManifestFields DEF Held, Settings
<1> QED BY <1>1 DEF AnyStack

\* Before a backup nothing with a manifest is incomplete.
LEMMA BackupRests ==
    ASSUME Typed, InOrder, Annotation, Backup
    PROVE  /\ Resting /\ settings.gen \in AnyStack
           /\ \A t \in Held : t \in Txs /\ t < at.tx /\ t \in Committed /\ manifest'[t] = manifest[t]
           /\ \A t \in Committed : t < at.tx
<1>1. Resting
    BY BackupIs DEF Resting
<1>2. \A t \in Committed : t < at.tx
    BY BackupIs DEF InOrder
<1>3. \A t \in Held : t \in Txs /\ t \in Committed
    <2>1. \A t \in Incomplete : t \notin Held
        BY <1>1 DEF Resting, Held
    <2> QED BY <2>1, WorkedOn
<1>4. \A t \in Held : manifest'[t] = manifest[t]
    BY <1>2, <1>3, BackupIs
<1>5. settings.gen \in AnyStack
    BY FiledParts, SettingsTypes
<1> QED BY <1>1, <1>2, <1>3, <1>4, <1>5

\* The stack of the generation that a manifest restores is not removed.
LEMMA GensKeptStep ==
    ASSUME Typed, InOrder, Annotation, Baseline, GensKept, GensOlder, GensNow, Next
    PROVE  GensKept'
<1>1. CASE Backup
    <2>1. dir' = dir
        BY <1>1 DEF Backup
    <2>2. manifest'[at.tx].settings = settings /\ Held' = Held \union {at.tx}
        BY <1>1, BackupIs
    <2>3. \A t \in Held : manifest'[t] = manifest[t]
        BY <1>1, BackupRests
    <2>4. settings.gen # None => dir[settings.gen] = "whole"
        BY <1>1, BackupRests DEF GensNow
    <2> QED BY <2>1, <2>2, <2>3, <2>4 DEF GensKept
<1>2. CASE ~Backup
    <2>1. ASSUME NEW t \in Held', manifest'[t].settings.gen # None
          PROVE  dir'[manifest'[t].settings.gen] = "whole"
        <3>1. t \in Held /\ manifest'[t].settings = manifest[t].settings
            BY <1>2, HeldKept
        <3>2. PICK s \in Stacks : s = manifest[t].settings.gen
            BY <2>1, <3>1, ManifestGens
        <3>3. dir[s] = "whole"
            BY <2>1, <3>1, <3>2 DEF GensKept
        <3>4. Drop => s # journal[at.tx].stack
            BY <3>1, <3>2, DropSpares DEF GensOlder
        <3> QED BY <3>1, <3>2, <3>3, <3>4, DirSteps
    <2> QED BY <2>1 DEF GensKept
<1> QED BY <1>1, <1>2

\* A manifest restores no generation of a later transaction.
LEMMA GensOlderStep ==
    ASSUME Typed, InOrder, Annotation, GensKept, GensOlder, GensNow, Next
    PROVE  GensOlder'
<1>1. CASE Backup
    <2>1. /\ journal' = journal /\ Held' = Held \union {at.tx} /\ manifest'[at.tx].settings = settings
          /\ journal[at.tx].stack = at.stack /\ dir[at.stack] = "none" /\ at.stack \in Stacks /\ at.tx \in Nat
        BY <1>1, BackupIs DEF Txs
    <2>2. \A t \in Held : manifest'[t] = manifest[t] /\ t < at.tx /\ t \in Nat
        BY <1>1, BackupRests DEF Txs
    <2>3. None \notin Stacks
        OBVIOUS
    <2>4. settings.gen # at.stack
        BY <1>1, <2>1, <2>3, BackupRests DEF GensNow
    <2>5. \A t \in Held : manifest[t].settings.gen # at.stack
        BY <2>1, <2>3 DEF GensKept
    <2>6. ASSUME NEW t \in Held', NEW u \in Held', t <= u
          PROVE  manifest'[t].settings.gen # journal'[u].stack
        <3>1. CASE u = at.tx
            BY <2>1, <2>2, <2>4, <2>5, <3>1
        <3>2. CASE u # at.tx
            <4>1. u \in Held /\ t # at.tx /\ t \in Held
                BY <2>1, <2>2, <2>6, <3>2
            <4> QED BY <2>1, <2>2, <2>6, <4>1 DEF GensOlder
        <3> QED BY <3>1, <3>2
    <2> QED BY <2>6 DEF GensOlder
<1>2. CASE ~Backup
    <2>1. Held' \subseteq Held /\ \A t \in Held' : /\ manifest'[t].settings = manifest[t].settings
                                                   /\ journal'[t].stack = journal[t].stack
        BY <1>2, HeldKept
    <2> QED BY <2>1 DEF GensOlder
<1> QED BY <1>1, <1>2

\* Only Commit and the start of a rollback change what is committed.
LEMMA CommittedSame ==
    ASSUME Typed, InOrder, Annotation, Next, ~Commit, ~Mark
    PROVE  Committed' = Committed
<1>1. CASE journal' = journal
    BY <1>1 DEF Committed
<1>2. CASE Begin \/ Backup \/ RecordPublished \/ Settle
    BY <1>2, BeginIs, BackupIs, RecordIs, SettleIs
<1>3. CASE Recovering /\ journal' = Marked(at.tx, "MANUAL")
    BY <1>3, EndIs
<1> QED BY <1>1, <1>2, <1>3, JournalSteps

\* A committed transaction keeps its manifest, and with it its generation.
LEMMA GenKept ==
    ASSUME Typed, InOrder, Annotation, Next, NEW t \in Committed
    PROVE  /\ manifest'[t] = manifest[t] /\ manifest[t].on /\ t \in Held
           /\ Gen(t)' = Gen(t)
<1>1. manifest[t].on /\ t \in Txs /\ t \in Held
    BY DEF Committed, InOrder, Held
<1>2. manifest'[t] = manifest[t] /\ journal'[t].stack = journal[t].stack
    <2>1. CASE Backup
        BY <1>1, <2>1, BackupRests, BackupIs
    <2>2. CASE RecordPublished
        <3>1. t # at.tx
            BY <2>2, RecordIs DEF Committed, Incomplete
        <3> QED BY <1>1, <2>2, <3>1, RecordIs
    <2>3. CASE ~Backup /\ ~RecordPublished
        <3>1. manifest'[t].on
            <4>1. CASE Settle
                BY <1>1, <4>1, SettleIs
            <4>2. CASE Begin
                BY <1>1, <4>2 DEF Begin
            <4> QED BY <1>1, <2>3, <4>1, <4>2, MarkedOn, CommitIs, JournalSteps
        <3> QED BY <1>1, <2>3, <3>1, ManifestSame
    <2> QED BY <2>1, <2>2, <2>3
<1> QED BY <1>1, <1>2 DEF Gen

\* A manifest restores the generation of the transaction committed before.
LEMMA GensChainStep ==
    ASSUME Typed, InOrder, Annotation, GensChain, GensNow, Next
    PROVE  GensChain'
<1>1. CASE Backup
    <2>1. /\ at.tx \in Nat /\ Committed' = Committed /\ Held' = Held \union {at.tx}
          /\ manifest'[at.tx].settings = settings
        BY <1>1, BackupIs DEF Txs
    <2>2. Resting /\ \A t \in Held : manifest'[t] = manifest[t]
        BY <1>1, BackupRests
    <2>3. ASSUME NEW t \in Committed, NEW u \in Held', t < u, \A v \in Committed : v <= t \/ v >= u
          PROVE  manifest'[u].settings.gen = Gen(t)
        <3>1. CASE u = at.tx
            <4>1. \A v \in Committed : v \in Nat /\ v < at.tx
                BY <1>1, BackupRests DEF Committed, Txs
            <4>2. \A v \in Committed : v <= t
                BY <2>1, <2>3, <3>1, <4>1
            <4> QED BY <2>1, <2>2, <3>1, <4>2 DEF GensNow
        <3>2. CASE u # at.tx
            BY <2>1, <2>2, <2>3, <3>2 DEF GensChain
        <3> QED BY <3>1, <3>2
    <2> QED BY <2>1, <2>3, GenKept DEF GensChain
<1>2. CASE Commit
    <2>1. /\ Committed' = Committed \union {at.tx} /\ manifest' = manifest
          /\ \A u \in Txs : at.tx < u => ~manifest[u].on
        BY <1>2, CommitIs, StepLabels, WorkedOn DEF Commit, Applying
    <2>2. Held' \subseteq Held /\ \A u \in Held' : u \in Txs /\ manifest[u].on
        BY <1>2, HeldKept DEF Held, Commit, Backup
    <2>3. ASSUME NEW t \in Committed', NEW u \in Held', t < u, \A v \in Committed' : v <= t \/ v >= u
          PROVE  manifest[u].settings.gen = Gen(t)'
        <3>1. t # at.tx
            BY <2>1, <2>2, <2>3
        <3>2. manifest[u].settings.gen = Gen(t)
            BY <2>1, <2>2, <2>3, <3>1 DEF GensChain
        <3> QED BY <2>1, <3>1, <3>2, GenKept
    <2> QED BY <2>1, <2>3 DEF GensChain
<1>3. CASE Mark
    <2>1. /\ Committed' = Committed \ {at.tx} /\ manifest' = manifest /\ at.tx \in Txs
          /\ at.by # "rollback" => Committed' = Committed
          /\ at.by = "rollback" => at.tx \in Committed /\ Incomplete = {} /\ \A v \in Committed : v <= at.tx
        BY <1>3, MarkedOn
    <2>2. Held' \subseteq Held /\ \A u \in Held : u \in Nat
        BY <1>3, HeldKept DEF Held, Txs, Mark, Backup
    <2>3. ASSUME NEW t \in Committed', NEW u \in Held', t < u, \A v \in Committed' : v <= t \/ v >= u
          PROVE  manifest[u].settings.gen = Gen(t)
        <3>1. at.by = "rollback" => u <= at.tx
            BY <2>1, <2>2, <2>3, WorkedOn
        <3>2. \A v \in Committed : v <= t \/ v >= u
            BY <2>1, <2>2, <2>3, <3>1 DEF Txs
        <3> QED BY <2>1, <2>2, <2>3, <3>2 DEF GensChain
    <2> QED BY <2>1, <2>3, GenKept DEF GensChain
<1>4. CASE ~Backup /\ ~Commit /\ ~Mark
    <2>1. Committed' = Committed
        BY <1>4, CommittedSame
    <2>2. Held' \subseteq Held /\ \A t \in Held' : manifest'[t].settings = manifest[t].settings
        BY <1>4, HeldKept
    <2> QED BY <2>1, <2>2, GenKept DEF GensChain
<1> QED BY <1>1, <1>2, <1>3, <1>4

\* The settings refer to the generation of the last committed transaction.
LEMMA GensNowStep ==
    ASSUME Typed, InOrder, Annotation, GensKept, GensOlder, GensChain, GensNow, GensOpen, NoneGivenUp', Next
    PROVE  GensNow'
<1>1. CASE Commit
    <2>1. InApply /\ AtApply /\ pc = "commit"
        BY <1>1, StepLabels DEF Commit, Applying, Annotation
    <2>2. /\ at.tx \in Held /\ at.tx \in Txs /\ Committed' = Committed \union {at.tx}
          /\ journal[at.tx].stack = at.stack /\ dir[at.stack] = "whole" /\ settings.gen = Gen(at.tx)
          /\ at.tx \in Incomplete /\ at.tx \in Nat
        BY <1>1, <2>1, WorkedOn, CommitIs DEF Held, AtApply, Txs
    <2>3. UNCHANGED <<dir, settings, manifest>> /\ journal'[at.tx].stack = journal[at.tx].stack
        BY <1>1, <2>2, CommitIs, MarkedSets DEF Commit
    <2>4. \A t \in Txs : t = at.tx => Gen(t)' = Gen(t)
        BY <2>3 DEF Gen
    <2>5. settings.gen # None => dir[settings.gen] = "whole"
        BY <2>2 DEF Gen, GensKept
    <2>6. ASSUME NEW t \in Committed', \A v \in Committed' : v <= t PROVE t = at.tx
        <3>1. t \in Committed => t < at.tx /\ t \in Nat
            BY <2>2 DEF InOrder, Committed, Txs
        <3> QED BY <2>2, <2>6, <3>1
    <2> QED BY <2>2, <2>3, <2>4, <2>5, <2>6 DEF GensNow
<1>2. CASE Settle
    <2>1. /\ AtRecovery /\ pc = "settle" /\ at.tx \in Held /\ Committed' = Committed
          /\ at.tx \in Incomplete /\ manifest[at.tx].on /\ at.tx \in Nat
        BY <1>2, SettleIs, WorkedOn DEF Annotation, Txs
    <2>2. settings.gen = manifest[at.tx].settings.gen
        BY <2>1 DEF AtRecovery, GensOpen
    <2>3. UNCHANGED <<dir, settings>>
        BY <1>2 DEF Settle
    <2>4. ASSUME NEW t \in Committed, \A v \in Committed : v <= t PROVE settings.gen = Gen(t)
        <3>1. t < at.tx
            BY <2>1 DEF InOrder
        <3> QED BY <2>1, <2>2, <2>4, <3>1 DEF GensChain
    <2> QED BY <2>1, <2>2, <2>3, <2>4, GenKept DEF GensNow, GensKept
<1>3. CASE ~Commit /\ ~Settle
    <2>1. Resting' => /\ Resting /\ dir' = dir /\ settings'.gen = settings.gen /\ Committed' = Committed
        BY <1>3, RestingSteps
    <2> QED BY <2>1, GenKept DEF GensNow
<1> QED BY <1>1, <1>2, <1>3

\* The steps that change the generation or the harness's record.
LEMMA GenerationSteps ==
    ASSUME Typed, InOrder, Baseline, Annotation, GensOpen, Next,
           PublishGeneration \/ HarnessRollback \/ RestoreSettings
    PROVE  /\ at.tx \in Txs /\ Incomplete = {at.tx} /\ manifest[at.tx].on
           /\ LET m == manifest[at.tx]
              IN  /\ m.untouched => settings'.gen = m.settings.gen
                  /\ m.harness /\ settings'.gen = m.settings.gen => good' = m.good
<1>1. CASE PublishGeneration
    <2>1. InApply /\ AtApply /\ pc = "generation"
        BY <1>1, StepLabels DEF PublishGeneration, Applying, Annotation
    <2>2. /\ at.tx \in Txs /\ Incomplete = {at.tx} /\ manifest[at.tx].on /\ journal[at.tx].stack = at.stack
        BY <2>1, WorkedOn
    <2>3. at.stack \notin Private /\ ~manifest[at.tx].target
        BY <2>1 DEF AtApply
    <2>4. ~manifest[at.tx].untouched /\ ~manifest[at.tx].harness
        BY <2>2, <2>3 DEF Baseline, Manifest
    <2> QED BY <2>2, <2>4
<1>2. CASE HarnessRollback
    <2>1. Recovering
        BY <1>2 DEF HarnessRollback, Recovering
    <2>2. at.tx \in Txs /\ Incomplete = {at.tx} /\ manifest[at.tx].on
        BY <2>1, WorkedOn
    <2>3. LET m == manifest[at.tx]
          IN  /\ m.untouched => settings.gen = m.settings.gen
              /\ m.harness /\ settings.gen = m.settings.gen => good = m.good
        BY <2>2 DEF GensOpen
    <2>4. \/ settings' = settings /\ good' = good
          \/ settings'.gen = manifest[at.tx].settings.gen /\ good' = manifest[at.tx].good
        BY <1>2, FiledParts DEF HarnessRollback, Settings
    <2> QED BY <2>2, <2>3, <2>4
<1>3. CASE RestoreSettings
    <2>1. Recovering /\ AtRecovery /\ pc = "settings"
        BY <1>3 DEF RestoreSettings, Recovering, Annotation
    <2>2. at.tx \in Txs /\ Incomplete = {at.tx} /\ manifest[at.tx].on
        BY <2>1, WorkedOn
    <2>3. LET m == manifest[at.tx]
          IN  /\ m.untouched => settings.gen = m.settings.gen
              /\ m.harness /\ settings.gen = m.settings.gen => good = m.good
        BY <2>2 DEF GensOpen
    <2>4. manifest[at.tx].harness => settings.gen = manifest[at.tx].settings.gen
        BY <2>1 DEF AtRecovery
    <2>5. good' = good /\ settings' = (IF manifest[at.tx].untouched THEN settings ELSE at.written)
        BY <1>3 DEF RestoreSettings
    <2> QED BY <2>2, <2>3, <2>4, <2>5
<1> QED BY <1>1, <1>2, <1>3

\* The harness rolls settings and last good generation back together.
LEMMA GensOpenStep ==
    ASSUME Typed, InOrder, Baseline, Annotation, GensOlder, GensNow, GensOpen, Next
    PROVE  GensOpen'
<1> DEFINE Open(t) == /\ manifest[t].untouched => settings.gen = manifest[t].settings.gen
                      /\ manifest[t].harness /\ settings.gen = manifest[t].settings.gen => good = manifest[t].good
<1>1. CASE Begin
    <2>1. PICK t \in Txs : Incomplete' = {t} /\ ~manifest[t].on /\ manifest' = manifest
        BY <1>1, BeginIs DEF Begin
    <2> QED BY <2>1 DEF GensOpen
<1>2. CASE Backup
    <2>1. UNCHANGED <<settings, good>>
        BY <1>2 DEF Backup
    <2> QED BY <1>2, <2>1, BackupIs DEF GensOpen
<1>3. CASE RecordPublished
    <2>1. UNCHANGED <<settings, good>> /\ InApply /\ AtApply /\ pc = "record"
        BY <1>3, StepLabels DEF RecordPublished, Applying, Annotation
    <2>2. /\ at.tx \in Held /\ Incomplete = {at.tx} /\ journal[at.tx].stack = at.stack /\ at.tx \in Nat
          /\ manifest[at.tx].on
        BY <1>3, RecordIs DEF Txs
    <2>3. manifest[at.tx].settings.gen # at.stack
        BY <2>2 DEF GensOlder
    <2>4. at.new => settings.gen = at.stack
        BY <2>1 DEF AtApply
    <2>5. Open(at.tx)
        BY <2>2 DEF GensOpen
    <2>6. LET m == manifest'[at.tx]
          IN  /\ m.untouched => settings.gen = m.settings.gen
              /\ m.harness /\ settings.gen = m.settings.gen => good = m.good
        BY <1>3, <2>3, <2>4, <2>5, RecordIs
    <2>7. Incomplete' = {at.tx}
        BY <1>3, <2>2, RecordIs
    <2> QED BY <2>1, <2>6, <2>7 DEF GensOpen
<1>4. CASE Mark
    <2>1. UNCHANGED <<settings, good, manifest>>
        BY <1>4 DEF Mark
    <2>2. CASE at.by = "rollback"
        <3>1. /\ at.tx \in Committed /\ Incomplete = {} /\ \A u \in Committed : u <= at.tx
              /\ at.tx \in Txs /\ Incomplete' \subseteq {at.tx}
            BY <1>4, <2>2, MarkedOn
        <3>2. settings.gen = Gen(at.tx)
            BY <3>1 DEF GensNow, Resting
        <3>3. at.tx \in Held /\ manifest[at.tx].on /\ at.tx \in Nat
            BY <3>1 DEF InOrder, Held, Committed, Txs
        <3>4. manifest[at.tx].settings.gen # journal[at.tx].stack
            BY <3>3 DEF GensOlder
        <3>5. manifest[at.tx].untouched => ~manifest[at.tx].harness
            BY <3>1, <3>3 DEF Baseline, Manifest
        <3>6. Open(at.tx)
            BY <3>2, <3>4, <3>5 DEF Gen
        <3> QED BY <2>1, <3>1, <3>6 DEF GensOpen
    <2>3. CASE at.by # "rollback"
        <3>1. Incomplete' \subseteq Incomplete
            BY <1>4, <2>3, MarkedOn
        <3> QED BY <2>1, <3>1 DEF GensOpen
    <2> QED BY <2>2, <2>3
<1>5. CASE Commit
    BY <1>5, CommitIs DEF GensOpen
<1>6. CASE Settle
    BY <1>6, SettleIs DEF GensOpen
<1>7. CASE Recovering /\ journal' = Marked(at.tx, "MANUAL")
    BY <1>7, EndIs DEF GensOpen
<1>8. CASE journal' = journal /\ manifest' = manifest
    <2>1. Incomplete' = Incomplete
        BY <1>8 DEF Incomplete
    <2>2. CASE PublishGeneration \/ HarnessRollback \/ RestoreSettings
        BY <1>8, <2>1, <2>2, GenerationSteps DEF GensOpen
    <2>3. CASE settings'.gen = settings.gen /\ good' = good
        BY <1>8, <2>1, <2>3 DEF GensOpen
    <2>4. CASE Publish \/ Edit
        <3>1. settings'.gen = settings.gen /\ good' = good
            BY <2>4, FiledParts DEF Publish, Edit, Settings
        <3> QED BY <2>3, <3>1
    <2>5. \/ UNCHANGED <<settings, good>> \/ Publish \/ Edit
          \/ PublishGeneration \/ HarnessRollback \/ RestoreSettings
        BY DEF Next, Apply, Recover, Install, Lifecycle, RecoverPending, NextRollback,
           Begin, Backup, Stage, Switch, RecordPublished, Activate, WriteLink, Verify,
           RecordState, Commit, Fails, Mark, Read, HarnessFails, RestoreLinks,
           RestoreState, RestoreTree, Unstage, Drop, Settle, Crash, disk
    <2> QED BY <2>2, <2>3, <2>4, <2>5
<1> QED BY <1>1, <1>2, <1>3, <1>4, <1>5, <1>6, <1>7, <1>8, JournalSteps

\* Generations stay a chain until a transaction is given up.
LEMMA CoherentGensStep ==
    ASSUME Typed, InOrder, Baseline, Annotation, CoherentGens, NoneGivenUp', Next
    PROVE  CoherentGens'
<1>1. GensKept /\ GensOlder /\ GensChain /\ GensNow /\ GensOpen
    BY CoherentGensParts
<1>2. GensKept' /\ GensOlder' /\ GensChain' /\ GensNow' /\ GensOpen'
    BY <1>1, GensKeptStep, GensOlderStep, GensChainStep, GensNowStep, GensOpenStep
<1> QED BY <1>2, CoherentGensParts

-----------------------------------------------------------------------------
(* What the command knows at each of its steps.                            *)

\* Where nothing is worked on.
LEMMA RestAnnotation ==
    ASSUME pc' \in {"idle", "recover", "next"}, ~at'.cut, at'.by = "none",
           pc' = "next" => Incomplete' = {}
    PROVE  Annotation'
BY DEF Annotation, InApply, Applying, Recovering

\* An idle command has nothing to do.
LEMMA NothingIs ==
    /\ Nothing.by = "none" /\ ~Nothing.cut /\ Nothing.todo = <<>> /\ Nothing.stack = None
BY DEF Nothing

\* What is to be shown of a step that ends at mark.
LEMMA MarkAnnotation ==
    ASSUME pc' = "mark", ~at'.cut, AtMark'
    PROVE  Annotation'
BY DEF Annotation, InApply, Applying, Recovering

\* What is to be shown of a step that ends in apply.
LEMMA ApplyAnnotation ==
    ASSUME pc' \in Applying, ~at'.cut, AtApply'
    PROVE  Annotation'
BY DEF Annotation, InApply, Applying, Recovering

\* What is to be shown of a step that ends at a link.
LEMMA LinkAnnotation ==
    ASSUME pc' = "link", at'.cut => at'.links # <<>>,
           at'.by = "none" => AtApply', at'.by # "none" => AtRecovery'
    PROVE  Annotation'
BY DEF Annotation, InApply, Applying, Recovering

\* What is to be shown of a step that ends in a recovery.
LEMMA RecoveryAnnotation ==
    ASSUME pc' \in RecoverySteps, at'.cut => pc' = "tree", AtRecovery'
    PROVE  Annotation'
BY DEF Annotation, InApply, Applying, Recovering, RecoverySteps

\* The start of a command, its failure and a crash.
LEMMA CommandAnnotation ==
    ASSUME Typed, InOrder, Listed, Annotation,
           \/ \E s \in Stacks : Install(s)
           \/ \E n \in 1..Len(state.txs) : Lifecycle(n)
           \/ RecoverPending \/ NextRollback \/ Fails \/ Crash
    PROVE  Annotation'
<1>0. at \in Works /\ Incomplete' = Incomplete /\ Committed' = Committed
    BY FiledParts DEF Install, Lifecycle, RecoverPending, NextRollback, Fails, Crash, disk, Incomplete, Committed
<1>1. CASE \E s \in Stacks : Install(s)
    <2>1. pc' = "recover" /\ ~at'.cut /\ at'.by = "none"
        BY <1>1, NothingWorks, NothingIs DEF Install, Works
    <2> QED BY <2>1, RestAnnotation
<1>2. CASE \E n \in 1..Len(state.txs) : Lifecycle(n)
    <2>1. pc' = "recover" /\ ~at'.cut /\ at'.by = "none"
        BY <1>2, NothingWorks, NothingIs DEF Lifecycle, Works
    <2> QED BY <2>1, RestAnnotation
<1>3. CASE RecoverPending
    <2>1. at.by = "none" /\ ~at.cut /\ pc = "recover"
        BY <1>3 DEF RecoverPending, Annotation
    <2>2. CASE Incomplete # {} /\ pc' = "mark" /\ at' = [at EXCEPT !.tx = First(Incomplete), !.by = "pending"]
        <3>1. PICK t \in Incomplete : t = First(Incomplete)
            BY <2>2, FirstIs, IncompleteTxs
        <3>2. Incomplete = {t} /\ t \in Txs
            BY IncompleteTxs DEF InOrder
        <3>3. at' = [at EXCEPT !.tx = t, !.by = "pending"]
            BY <2>2, <3>1
        <3>4. at'.tx = t /\ at'.by = "pending" /\ ~at'.cut
            BY <1>0, <2>1, <3>3 DEF Works
        <3>5. AtMark'
            BY <1>0, <3>2, <3>4 DEF AtMark
        <3> QED BY <2>2, <3>4, <3>5, MarkAnnotation
    <2>3. CASE Incomplete = {} /\ at.stack # None /\ pc' = "begin"
               /\ at' = [at EXCEPT !.switch = at.stack \notin Private /\ npm \notin {"exact", "release"}]
        <3>1. /\ at'.stack = at.stack /\ at.stack \in Stacks /\ ~at'.cut /\ at'.by = "none"
              /\ at'.switch <=> at.stack \notin Private /\ npm \notin {"exact", "release"}
            <4>1. at.stack \in Stacks
                BY <1>0, <2>3, WorkParts DEF AnyStack
            <4> QED BY <1>0, <2>1, <2>3, <4>1 DEF Works
        <3>2. npm' = npm
            BY <1>3 DEF RecoverPending, disk
        <3> QED BY <1>0, <2>3, <3>1, <3>2 DEF Annotation, InApply, Applying, Recovering, Supplied
    <2>4. CASE Incomplete = {} /\ pc' = "next" /\ at' = at
        BY <1>0, <2>1, <2>4, RestAnnotation
    <2>5. CASE pc' = "idle" /\ at' = Nothing
        BY <2>5, NothingIs, RestAnnotation
    <2> QED BY <1>3, <2>2, <2>3, <2>4, <2>5 DEF RecoverPending
<1>4. CASE NextRollback
    <2>1. Incomplete = {} /\ ~at.cut /\ pc = "next"
        BY <1>4 DEF NextRollback, Annotation
    <2>2. CASE pc' = "idle" /\ at' = Nothing
        BY <2>2, NothingIs, RestAnnotation
    <2>3. CASE /\ at.todo # <<>> /\ journal[Head(at.todo)].status = "COMMITTED" /\ pc' = "mark"
               /\ at' = [at EXCEPT !.tx = Head(at.todo), !.todo = Tail(at.todo), !.by = "rollback"]
        <3>1. PICK t \in Txs : t = Head(at.todo) /\ t = at.todo[1] /\ 1 \in DOMAIN at.todo
            <4>1. PICK q \in Seq(Txs) : q = at.todo
                BY <1>0, WorkParts
            <4> QED BY <2>3, <4>1
        <3>2. t \in Committed
            BY <2>3, <3>1 DEF Committed
        <3>3. \A u \in Committed : u <= t
            <4>1. \A u \in Committed : ~(u > t)
                <5>1. \A j \in DOMAIN at.todo : ~(j < 1)
                    <6>1. PICK q \in Seq(Txs) : q = at.todo
                        BY <1>0, WorkParts
                    <6>2. DOMAIN q = 1..Len(q) /\ Len(q) \in Nat
                        BY LenProperties
                    <6> QED BY <6>1, <6>2
                <5> QED BY <2>1, <3>1, <5>1 DEF Listed
            <4> QED BY <4>1 DEF Committed, Txs
        <3>4. at'.tx = t /\ at'.by = "rollback" /\ ~at'.cut
            BY <1>0, <2>1, <2>3, <3>1 DEF Works
        <3>5. AtMark'
            BY <1>0, <2>1, <3>2, <3>3, <3>4 DEF AtMark
        <3> QED BY <2>3, <3>4, <3>5, MarkAnnotation
    <2> QED BY <1>4, <2>2, <2>3 DEF NextRollback
<1>5. CASE Fails
    <2>1. InApply
        BY <1>5 DEF Fails, InApply
    <2>2. PICK t \in Txs : t = at.tx /\ Incomplete = {t}
        BY <2>1, WorkedOn
    <2>3. at' = [Nothing EXCEPT !.tx = t, !.by = "apply"] /\ pc' = "mark"
        BY <1>5, <2>2 DEF Fails
    <2>4. at'.tx = t /\ at'.by = "apply" /\ ~at'.cut
        BY <2>3, NothingWorks, NothingIs DEF Works
    <2>5. AtMark'
        BY <1>0, <2>2, <2>4 DEF AtMark
    <2> QED BY <2>3, <2>4, <2>5, MarkAnnotation
<1>6. CASE Crash
    BY <1>6, NothingIs, RestAnnotation DEF Crash
<1> QED BY <1>1, <1>2, <1>3, <1>4, <1>5, <1>6

\* The steps of apply up to the switch of the npm root.
LEMMA BeginAnnotation ==
    ASSUME Typed, InOrder, Listed, Annotation, Begin
    PROVE  Annotation'
<1>1. PICK t \in Txs :
          /\ t = First(NewTx) /\ at'.tx = t /\ ~manifest[t].on
          /\ Incomplete' = {t}
          /\ journal'[t] = [status |-> "ACTIVE", stack |-> at.stack]
          /\ \A u \in Txs : journal[u].status # "none" <=> u < t
    BY BeginIs
<1>2. /\ at.by = "none" /\ ~at.cut /\ at.stack \in Stacks
      /\ at.switch <=> at.stack \notin Private /\ npm \notin Supplied
    BY DEF Begin, Annotation
<1>3. /\ at'.stack = at.stack /\ at'.by = "none" /\ ~at'.cut /\ at'.switch = at.switch /\ pc' = "backup"
    BY <1>2, FiledParts DEF Begin, Works
<1>4. UNCHANGED <<manifest, state, npm, fresh>>
    BY DEF Begin
<1>5. \A i \in DOMAIN state.txs : state.txs[i] < t
    BY <1>1, StateTxs DEF Listed
<1>6. AtApply'
    BY <1>1, <1>2, <1>3, <1>4, <1>5 DEF AtApply
<1> QED BY <1>3, <1>6, ApplyAnnotation DEF Applying

\* The manifest has what is there, and the stack is not there yet.
LEMMA BackupAnnotation ==
    ASSUME Typed, InOrder, Aside, Annotation, Backup
    PROVE  Annotation'
<1>1. AtApply /\ pc = "backup" /\ ~at.cut
    BY StepLabels DEF Backup, Applying, Annotation
<1>2. /\ at.tx \in Txs /\ Incomplete' = {at.tx} /\ at' = at /\ pc' = "stage" /\ journal' = journal
      /\ manifest'[at.tx].on /\ manifest'[at.tx].settings = settings /\ manifest'[at.tx].switch = at.switch
      /\ ~manifest'[at.tx].target /\ ~manifest'[at.tx].harness /\ ~manifest[at.tx].on
    BY BackupIs
<1>3. UNCHANGED <<settings, npm, fresh>>
    BY DEF Backup
<1>4. at.tx \notin fresh
    BY <1>2 DEF Aside
<1>5. settings'.gen = Gen(at.tx)'
    BY <1>2, <1>3 DEF Gen
<1>6. AtApply'
    BY <1>1, <1>2, <1>3, <1>4, <1>5 DEF AtApply
<1> QED BY <1>1, <1>2, <1>6, ApplyAnnotation DEF Applying

\* Staging touches nothing but what is staged.
LEMMA StageAnnotation ==
    ASSUME Typed, InOrder, Aside, Annotation, Stage
    PROVE  Annotation'
<1>1. AtApply /\ pc = "stage" /\ ~at.cut
    BY StepLabels DEF Stage, Applying, Annotation
<1>2. UNCHANGED <<journal, manifest, settings, npm, state>> /\ at' = at
    BY DEF Stage
<1>3. Incomplete' = Incomplete /\ Gen(at.tx)' = Gen(at.tx)
    BY <1>2 DEF Incomplete, Gen
<1>4. \/ pc' = "stage" /\ fresh' = fresh
      \/ pc' = "switch" /\ (at.switch \/ fresh' = fresh)
    BY DEF Stage
<1>5. AtApply'
    BY <1>1, <1>2, <1>3, <1>4 DEF AtApply
<1> QED BY <1>1, <1>2, <1>4, <1>5, ApplyAnnotation DEF Applying

\* The npm root is there with all the packages when the switch is over.
LEMMA SwitchAnnotation ==
    ASSUME Typed, InOrder, Aside, Annotation, Switch
    PROVE  Annotation'
<1>1. AtApply /\ pc = "switch" /\ ~at.cut
    BY StepLabels DEF Switch, Applying, Annotation
<1>2. UNCHANGED <<journal, manifest, settings, state>> /\ at' = at
    BY DEF Switch
<1>3. Incomplete' = Incomplete /\ Gen(at.tx)' = Gen(at.tx)
    BY <1>2 DEF Incomplete, Gen
<1>4. \/ pc' = "publish" /\ ~at.switch /\ UNCHANGED <<npm, fresh>>
      \/ pc' = "switch" /\ at.switch /\ npm' = None
      \/ pc' = "publish" /\ at.switch /\ npm' = "release" /\ fresh' = fresh \ {at.tx}
    BY DEF Switch
<1>5. AtApply'
    BY <1>1, <1>2, <1>3, <1>4 DEF AtApply, Supplied
<1> QED BY <1>1, <1>2, <1>4, <1>5, ApplyAnnotation DEF Applying

\* The packages are selected, and the generation is still that of before.
LEMMA PublishAnnotation ==
    ASSUME Typed, InOrder, Aside, Annotation, Publish
    PROVE  Annotation'
<1>1. AtApply /\ pc = "publish" /\ ~at.cut
    BY StepLabels DEF Publish, Applying, Annotation
<1>2. UNCHANGED <<journal, manifest, npm, fresh, state>> /\ at' = at /\ settings'.gen = settings.gen
    BY FiledParts DEF Publish, Settings
<1>3. Incomplete' = Incomplete /\ Gen(at.tx)' = Gen(at.tx)
    BY <1>2 DEF Incomplete, Gen
<1>4. pc' = "activate" \/ (pc' = "generation" /\ at.stack \notin Private)
    BY DEF Publish
<1>5. AtApply'
    BY <1>1, <1>2, <1>3, <1>4 DEF AtApply
<1> QED BY <1>1, <1>2, <1>4, <1>5, ApplyAnnotation DEF Applying

\* The generation is published, and the manifest does not know of it yet.
LEMMA GenerationAnnotation ==
    ASSUME Typed, InOrder, Baseline, Annotation, PublishGeneration
    PROVE  Annotation'
<1>1. AtApply /\ pc = "generation" /\ ~at.cut /\ InApply
    BY StepLabels DEF PublishGeneration, Applying, Annotation
<1>2. UNCHANGED <<journal, manifest, npm, fresh, state>> /\ pc' = "record"
    BY DEF PublishGeneration
<1>3. Incomplete' = Incomplete
    BY <1>2 DEF Incomplete
<1>4. PICK c \in BOOLEAN, s \in Settings :
          /\ s = [settings EXCEPT !.gen = IF c THEN at.stack ELSE settings.gen]
          /\ settings' = s /\ at' = [at EXCEPT !.new = c, !.written = s]
    <2>1. PICK c \in BOOLEAN : \E s \in {[settings EXCEPT !.gen = IF c THEN at.stack ELSE settings.gen]} :
              settings' = s /\ at' = [at EXCEPT !.new = c, !.written = s]
        BY FiledParts DEF PublishGeneration, Settings
    <2>2. PICK s : /\ s = [settings EXCEPT !.gen = IF c THEN at.stack ELSE settings.gen]
                   /\ settings' = s /\ at' = [at EXCEPT !.new = c, !.written = s]
        BY <2>1
    <2>3. s \in Settings
        BY <1>1, <2>2, AtTx, FiledParts, SettingsTypes
    <2> QED BY <2>2, <2>3
<1>5. /\ at'.tx = at.tx /\ at'.by = at.by /\ at'.stack = at.stack /\ at'.switch = at.switch /\ at'.cut = at.cut
      /\ at'.new = c /\ at'.written = s
    BY <1>4, FiledParts DEF Works
<1>6. settings.gen = manifest[at.tx].settings.gen
    <2>1. manifest[at.tx].on /\ ~manifest[at.tx].target /\ settings.gen = Gen(at.tx) /\ at.tx \in Txs
        BY <1>1 DEF AtApply
    <2>2. ~manifest[at.tx].harness
        BY <2>1 DEF Baseline, Manifest
    <2> QED BY <2>1, <2>2 DEF Gen
<1>7. s.gen = IF c THEN at.stack ELSE manifest[at.tx].settings.gen
    BY <1>4, <1>6, FiledParts DEF Settings
<1>8. /\ at'.written \in Settings /\ settings'.gen = at'.written.gen
      /\ at'.written.gen = IF at'.new THEN at'.stack ELSE manifest'[at'.tx].settings.gen
    BY <1>2, <1>4, <1>5, <1>7
<1>9. AtApply'
    BY <1>1, <1>2, <1>3, <1>5, <1>8 DEF AtApply
<1> QED BY <1>1, <1>2, <1>5, <1>9, ApplyAnnotation DEF Applying

\* From here on the manifest knows what was published.
LEMMA RecordAnnotation ==
    ASSUME Typed, InOrder, Baseline, Annotation, RecordPublished
    PROVE  Annotation'
<1>1. AtApply /\ pc = "record" /\ ~at.cut /\ InApply
    BY StepLabels DEF RecordPublished, Applying, Annotation
<1>2. UNCHANGED <<journal, npm, fresh, state, settings>> /\ pc' = "activate"
    BY DEF RecordPublished
<1>3. /\ at.tx \in Txs /\ Incomplete' = {at.tx} /\ manifest'[at.tx].on
      /\ manifest'[at.tx].switch = manifest[at.tx].switch
      /\ manifest'[at.tx].settings = manifest[at.tx].settings /\ manifest'[at.tx].harness = at.new
      /\ journal[at.tx].stack = at.stack
    BY RecordIs
<1>4. PICK w : w = Nothing.written
    OBVIOUS
<1>5. at' = [at EXCEPT !.new = FALSE, !.written = w]
    BY <1>4 DEF RecordPublished
<1>6. /\ at'.tx = at.tx /\ at'.by = at.by /\ at'.stack = at.stack /\ at'.switch = at.switch /\ at'.cut = at.cut
    BY <1>5, FiledParts DEF Works
<1>7. settings.gen = IF at.new THEN at.stack ELSE manifest[at.tx].settings.gen
    BY <1>1 DEF AtApply
<1>8. settings'.gen = Gen(at.tx)'
    BY <1>2, <1>3, <1>6, <1>7 DEF Gen
<1>9. AtApply'
    BY <1>1, <1>2, <1>3, <1>6, <1>8 DEF AtApply
<1> QED BY <1>1, <1>2, <1>6, <1>9, ApplyAnnotation DEF Applying

\* The lists of links that are to be written.
LEMMA LinkLists ==
    /\ DOMAIN Leading = {"omp", "pi", "current"} /\ DOMAIN LastGood = {"lkg"}
    /\ Leading["omp"] = Via /\ Leading["pi"] = Via /\ Leading["current"] = at.stack
    /\ LastGood["lkg"] = manifest[at.tx].link["current"]
BY DEF Leading, LastGood, Links

\* The links to be written depend on the command and the manifest alone.
LEMMA SameLists ==
    ASSUME at'.stack = at.stack, at'.tx = at.tx, manifest' = manifest
    PROVE  Leading' = Leading /\ LastGood' = LastGood
BY DEF Leading, LastGood

\* A step of the list: what it names is kept in the list or is written.
LEMMA FillingStep ==
    ASSUME Typed, WriteLink, at.links # <<>>, NEW to, DOMAIN to \subseteq Links, Filling(to)
    PROVE  Filling(to)'
<1>1. PICK q \in Seq([name : Links, to : AnyStack \union {Via}]) : q = at.links
    BY FiledParts, WorkParts
<1>2. PICK n \in Nat : n = Len(q) /\ DOMAIN q = 1..n /\ n > 0
    BY <1>1, LenProperties, EmptySeq
<1>3. PICK w : w = Head(q) /\ w = q[1]
    BY <1>1
<1>4. PICK r : r = Tail(q)
    OBVIOUS
<1>5. DOMAIN r = 1..(n - 1) /\ \A i \in 1..(n - 1) : r[i] = q[i + 1]
    BY <1>1, <1>2, <1>4, HeadTailProperties, LenProperties
<1>6. /\ \A i \in 1..n : q[i].name \in DOMAIN to /\ q[i].to = to[q[i].name]
      /\ \A l \in DOMAIN to : link[l] = to[l] \/ \E i \in 1..n : q[i].name = l
    BY <1>1, <1>2 DEF Filling
<1>7. w.name \in DOMAIN to /\ w.name \in Links /\ w.to = to[w.name]
    BY <1>2, <1>3, <1>6
<1>8. \/ link' = [link EXCEPT ![w.name] = None] /\ at' = [at EXCEPT !.cut = TRUE]
      \/ link' = [link EXCEPT ![w.name] = w.to] /\ at' = [at EXCEPT !.cut = FALSE, !.links = r]
    BY <1>1, <1>3, <1>4 DEF WriteLink
<1>9. CASE link' = [link EXCEPT ![w.name] = None] /\ at' = [at EXCEPT !.cut = TRUE]
    <2>1. at'.links = q
        BY <1>1, <1>9, FiledParts DEF Works
    <2>2. \A l \in DOMAIN to : l # w.name => link'[l] = link[l]
        BY <1>9, FiledParts
    <2>3. \E i \in 1..n : q[i].name = w.name
        BY <1>2, <1>3
    <2> QED BY <1>2, <1>6, <2>1, <2>2, <2>3 DEF Filling
<1>10. CASE link' = [link EXCEPT ![w.name] = w.to] /\ at' = [at EXCEPT !.cut = FALSE, !.links = r]
    <2>1. at'.links = r
        BY <1>10, FiledParts DEF Works
    <2>2. /\ \A l \in DOMAIN to : l # w.name => link'[l] = link[l]
          /\ link'[w.name] = w.to
        BY <1>7, <1>10, FiledParts
    <2>3. \A i \in 1..(n - 1) : i + 1 \in 1..n
        BY <1>2
    <2>4. \A i \in 1..(n - 1) : r[i].name \in DOMAIN to /\ r[i].to = to[r[i].name]
        BY <1>5, <1>6, <2>3
    <2>5. ASSUME NEW l \in DOMAIN to, link'[l] # to[l] PROVE \E i \in 1..(n - 1) : r[i].name = l
        <3>1. l # w.name /\ link[l] # to[l]
            BY <1>7, <2>2, <2>5
        <3>2. PICK i \in 1..n : q[i].name = l
            BY <1>6, <2>5, <3>1
        <3>3. i - 1 \in 1..(n - 1) /\ (i - 1) + 1 = i
            BY <1>2, <1>3, <3>1, <3>2
        <3> QED BY <1>5, <3>2, <3>3
    <2> QED BY <1>5, <2>1, <2>4, <2>5 DEF Filling
<1> QED BY <1>8, <1>9, <1>10

\* Links that are not in the list stay, and an empty list has nothing left to write.
LEMMA FilledStep ==
    ASSUME Typed, WriteLink, at.links # <<>>, NEW to, DOMAIN to \subseteq Links, Filled(to),
           \A i \in DOMAIN at.links : at.links[i].name \notin DOMAIN to
    PROVE  Filled(to)'
<1>1. PICK w : w = Head(at.links)
    OBVIOUS
<1>2. 1 \in DOMAIN at.links /\ w = at.links[1]
    BY <1>1, FiledParts, WorkParts
<1>3. w.name \notin DOMAIN to
    BY <1>2
<1>4. link' = [link EXCEPT ![w.name] = None] \/ link' = [link EXCEPT ![w.name] = w.to]
    BY <1>1 DEF WriteLink
<1> QED BY <1>3, <1>4, FiledParts DEF Filled

\* When no link is left to be written, all lead where they shall.
LEMMA FillingEnds ==
    ASSUME at.links = <<>>, NEW to, Filling(to)
    PROVE  Filled(to)
BY DEF Filled, Filling

\* The stack is in its place before a link leads to it.
LEMMA ActivateAnnotation ==
    ASSUME Typed, InOrder, Baseline, Annotation, Activate
    PROVE  Annotation'
<1>1. AtApply /\ pc = "activate" /\ ~at.cut /\ InApply
    BY StepLabels DEF Activate, Applying, Annotation
<1>2. UNCHANGED <<journal, manifest, npm, fresh, state, settings>> /\ pc' = "link"
    BY DEF Activate
<1>3. at.tx \in Txs /\ at.stack \in Stacks
    BY <1>1, WorkedOn
<1>4. dir'[at.stack] = "whole" /\ stage'[at.tx] = "none"
    BY <1>3, FiledParts DEF Activate
<1>5. PICK q : q = <<Write("current", at.stack), Write("omp", Via), Write("pi", Via)>>
    OBVIOUS
<1>6. at' = [at EXCEPT !.then = "verify", !.links = q]
    BY <1>5 DEF Activate
<1>7. /\ at'.tx = at.tx /\ at'.by = at.by /\ at'.stack = at.stack /\ at'.switch = at.switch /\ at'.cut = at.cut
      /\ at'.then = "verify" /\ at'.links = q
    BY <1>6, FiledParts DEF Works
<1>8. PICK to : to = Leading
    OBVIOUS
<1>9. Leading' = to
    BY <1>7, <1>8 DEF Leading
<1>10. Filling(to)'
    <2>1. DOMAIN q = 1..3 /\ q[1] = Write("current", at.stack) /\ q[2] = Write("omp", Via) /\ q[3] = Write("pi", Via)
        BY <1>5
    <2>2. DOMAIN to = {"omp", "pi", "current"} /\ to["omp"] = Via /\ to["pi"] = Via /\ to["current"] = at.stack
        BY <1>8, LinkLists
    <2>3. \A i \in 1..3 : q[i].name \in DOMAIN to /\ q[i].to = to[q[i].name]
        <3>1. \A i \in 1..3 : i = 1 \/ i = 2 \/ i = 3
            OBVIOUS
        <3> QED BY <2>1, <2>2, <3>1 DEF Write
    <2>4. \A l \in DOMAIN to : \E i \in 1..3 : q[i].name = l
        BY <2>1, <2>2 DEF Write
    <2> QED BY <1>7, <2>1, <2>3, <2>4 DEF Filling
<1>11. Incomplete' = Incomplete /\ Gen(at.tx)' = Gen(at.tx)
    BY <1>2, <1>7 DEF Incomplete, Gen
<1>12. AtApply'
    BY <1>1, <1>2, <1>4, <1>7, <1>9, <1>10, <1>11 DEF AtApply
<1> QED BY <1>1, <1>2, <1>7, <1>12, LinkAnnotation DEF AtApply

\* The link to the last known good stack comes last.
LEMMA VerifyAnnotation ==
    ASSUME Typed, InOrder, Baseline, Annotation, Verify
    PROVE  Annotation'
<1>1. AtApply /\ pc = "verify" /\ ~at.cut /\ InApply
    BY StepLabels DEF Verify, Applying, Annotation
<1>2. UNCHANGED <<journal, manifest, npm, fresh, state, settings, link, dir, stage>> /\ pc' = "link"
    BY DEF Verify, disk
<1>3. PICK c : c = manifest[at.tx].link["current"]
    OBVIOUS
<1>4. PICK q : q = <<Write("lkg", c)>>
    OBVIOUS
<1>5. at' = [at EXCEPT !.then = "state", !.links = q]
    BY <1>3, <1>4 DEF Verify
<1>6. /\ at'.tx = at.tx /\ at'.by = at.by /\ at'.stack = at.stack /\ at'.switch = at.switch /\ at'.cut = at.cut
      /\ at'.then = "state" /\ at'.links = q
    BY <1>5, FiledParts DEF Works
<1>7. Leading' = Leading /\ LastGood' = LastGood
    BY <1>2, <1>6, SameLists
<1>8. PICK to : to = LastGood
    OBVIOUS
<1>9. Filling(to)'
    <2>1. DOMAIN to = {"lkg"} /\ to["lkg"] = c
        BY <1>3, <1>8, LinkLists
    <2>2. DOMAIN q = 1..1 /\ q[1] = Write("lkg", c)
        BY <1>4
    <2> QED BY <1>6, <2>1, <2>2 DEF Filling, Write
<1>10. PICK from : from = Leading
    OBVIOUS
<1>11. Filled(from)'
    BY <1>1, <1>2, <1>10 DEF AtApply, Filled
<1>12. Incomplete' = Incomplete /\ Gen(at.tx)' = Gen(at.tx)
    BY <1>2, <1>6 DEF Incomplete, Gen
<1>13. AtApply'
    BY <1>1, <1>2, <1>6, <1>7, <1>8, <1>9, <1>10, <1>11, <1>12 DEF AtApply
<1> QED BY <1>1, <1>2, <1>6, <1>13, LinkAnnotation DEF AtApply

\* The recorded state is what the links lead to.
LEMMA RecordStateAnnotation ==
    ASSUME Typed, InOrder, Baseline, Annotation, RecordState
    PROVE  Annotation'
<1>1. AtApply /\ pc = "state" /\ ~at.cut /\ InApply
    BY StepLabels DEF RecordState, Applying, Annotation
<1>2. UNCHANGED <<journal, manifest, npm, fresh, settings, link, dir, stage>> /\ pc' = "commit" /\ at' = at
    BY DEF RecordState
<1>3. /\ state'.active = at.stack /\ state'.lkg = manifest[at.tx].state.active
      /\ state'.txs = Append(manifest[at.tx].state.txs, at.tx)
    BY DEF RecordState
<1>4. Incomplete' = Incomplete /\ Gen(at.tx)' = Gen(at.tx)
    BY <1>2 DEF Incomplete, Gen
<1>5. Filled(Leading)' /\ Filled(LastGood)'
    BY <1>1, <1>2, SameLists DEF AtApply, Filled
<1>6. AtApply'
    BY <1>1, <1>2, <1>3, <1>4, <1>5 DEF AtApply
<1> QED BY <1>1, <1>2, <1>6, ApplyAnnotation DEF Applying

\* What writing a link does to the command.
LEMMA WriteLinkAt ==
    ASSUME Typed, WriteLink
    PROVE  /\ at'.tx = at.tx /\ at'.by = at.by /\ at'.stack = at.stack /\ at'.switch = at.switch
           /\ at'.then = at.then /\ at'.written = at.written
           /\ at.links = <<>> => pc' = at.then /\ at' = at /\ link' = link
           /\ at.links # <<>> => pc' = "link" /\ (at'.cut => at'.links # <<>>)
<1>1. CASE at.links = <<>>
    BY <1>1 DEF WriteLink
<1>2. CASE at.links # <<>>
    <2>1. PICK q : q = Tail(at.links)
        OBVIOUS
    <2>2. pc' = "link" /\ (at' = [at EXCEPT !.cut = TRUE] \/ at' = [at EXCEPT !.cut = FALSE, !.links = q])
        BY <1>2, <2>1 DEF WriteLink
    <2> QED BY <1>2, <2>2, FiledParts DEF Works
<1> QED BY <1>1, <1>2

\* A link of apply: it leads to the stack that was just put there.
LEMMA WriteLinkApplies ==
    ASSUME Typed, InOrder, Baseline, Annotation, WriteLink, at.by = "none"
    PROVE  Annotation'
<1>1. AtApply /\ pc = "link" /\ InApply /\ (at.cut => at.links # <<>>)
    BY DEF WriteLink, InApply, Annotation
<1>2. UNCHANGED <<journal, manifest, npm, fresh, state, settings, dir, stage>>
    BY DEF WriteLink
<1>3. /\ at'.tx = at.tx /\ at'.by = at.by /\ at'.stack = at.stack /\ at'.switch = at.switch
      /\ at'.then = at.then
      /\ at.links = <<>> => pc' = at.then /\ at' = at /\ link' = link
      /\ at.links # <<>> => pc' = "link" /\ (at'.cut => at'.links # <<>>)
    BY WriteLinkAt
<1>4. Incomplete' = Incomplete /\ Gen(at.tx)' = Gen(at.tx)
    BY <1>2, <1>3 DEF Incomplete, Gen
<1>5. PICK first, last : first = Leading /\ last = LastGood /\ first = Leading' /\ last = LastGood'
    BY <1>2, <1>3, SameLists
<1>6. DOMAIN first = {"omp", "pi", "current"} /\ DOMAIN last = {"lkg"}
      /\ DOMAIN first \subseteq Links /\ DOMAIN last \subseteq Links
    BY <1>5, LinkLists DEF Links
<1>7. CASE at.links = <<>>
    <2>1. at.then = "verify" => Filled(first)
        BY <1>1, <1>5, <1>7, FillingEnds DEF AtApply
    <2>2. at.then = "state" => Filled(first) /\ Filled(last)
        BY <1>1, <1>5, <1>7, FillingEnds DEF AtApply
    <2>3. Filled(first)' <=> Filled(first)
        BY <1>3, <1>7 DEF Filled
    <2>4. Filled(last)' <=> Filled(last)
        BY <1>3, <1>7 DEF Filled
    <2>5. pc' \in {"verify", "state"} /\ ~at'.cut /\ pc' = at.then
        BY <1>1, <1>3, <1>7 DEF AtApply
    <2>6. AtApply'
        BY <1>1, <1>2, <1>3, <1>4, <1>5, <2>1, <2>2, <2>3, <2>4, <2>5 DEF AtApply
    <2> QED BY <2>5, <2>6, ApplyAnnotation DEF Applying
<1>8. CASE at.links # <<>>
    <2>1. at.then = "verify" => Filling(first)'
        BY <1>1, <1>5, <1>6, <1>8, FillingStep DEF AtApply
    <2>2. at.then = "state" => Filling(last)'
        BY <1>1, <1>5, <1>6, <1>8, FillingStep DEF AtApply
    <2>3. at.then = "state" => Filled(first)'
        <3>1. SUFFICES ASSUME at.then = "state" PROVE Filled(first)'
            OBVIOUS
        <3>2. Filled(first) /\ Filling(last)
            BY <1>1, <1>5, <3>1 DEF AtApply
        <3>3. \A i \in DOMAIN at.links : at.links[i].name \notin DOMAIN first
            BY <1>6, <3>2 DEF Filling
        <3> QED BY <1>6, <1>8, <3>2, <3>3, FilledStep
    <2>4. pc' = "link" /\ (at'.cut => at'.links # <<>>)
        BY <1>3, <1>8
    <2>5. AtApply'
        BY <1>1, <1>2, <1>3, <1>4, <1>5, <2>1, <2>2, <2>3, <2>4 DEF AtApply
    <2> QED BY <1>1, <1>3, <2>4, <2>5, LinkAnnotation DEF AtApply
<1> QED BY <1>7, <1>8

\* A link of a recovery: it leads where the manifest says.
LEMMA WriteLinkRecovers ==
    ASSUME Typed, InOrder, Baseline, Annotation, WriteLink, at.by # "none"
    PROVE  Annotation'
<1>1. AtRecovery /\ pc = "link" /\ Recovering /\ (at.cut => at.links # <<>>)
    BY DEF WriteLink, Recovering, Annotation
<1>2. UNCHANGED <<journal, manifest, npm, fresh, state, settings, dir, stage, kept>>
    BY DEF WriteLink
<1>3. /\ at'.tx = at.tx /\ at'.by = at.by /\ at'.then = at.then /\ at'.written = at.written
      /\ at.links = <<>> => pc' = at.then /\ at' = at /\ link' = link
      /\ at.links # <<>> => pc' = "link" /\ (at'.cut => at'.links # <<>>)
    BY WriteLinkAt
<1>4. Incomplete' = Incomplete
    BY <1>2 DEF Incomplete
<1>5. PICK to : to = manifest[at.tx].link /\ DOMAIN to \subseteq Links /\ to = manifest'[at'.tx].link
    <2>1. manifest[at.tx].link \in [Links -> AnyStack]
        BY <1>1, AtTx, ManifestFields
    <2> QED BY <1>2, <1>3, <2>1
<1>6. at.then = "settings" /\ Filling(to)
    BY <1>1, <1>5 DEF AtRecovery
<1>7. CASE at.links = <<>>
    <2>1. Filled(to)'
        BY <1>3, <1>6, <1>7, FillingEnds DEF Filled
    <2>2. pc' = "settings" /\ ~at'.cut
        BY <1>1, <1>3, <1>6, <1>7
    <2>3. AtRecovery'
        BY <1>1, <1>2, <1>3, <1>4, <1>5, <2>1, <2>2 DEF AtRecovery
    <2> QED BY <2>2, <2>3, RecoveryAnnotation DEF RecoverySteps
<1>8. CASE at.links # <<>>
    <2>1. Filling(to)'
        BY <1>5, <1>6, <1>8, FillingStep
    <2>2. pc' = "link" /\ (at'.cut => at'.links # <<>>)
        BY <1>3, <1>8
    <2>3. AtRecovery'
        BY <1>1, <1>2, <1>3, <1>4, <1>5, <1>6, <2>1, <2>2 DEF AtRecovery
    <2> QED BY <1>3, <2>2, <2>3, LinkAnnotation
<1> QED BY <1>7, <1>8

\* What a recovery knows at its start.
LEMMA MarkedAnnotation ==
    ASSUME Typed, InOrder, Annotation, Mark
    PROVE  Annotation'
<1>1. pc = "mark" /\ ~at.cut /\ at.by # "none" /\ at.tx \in Txs
    BY DEF Mark, Annotation, AtMark
<1>2. CASE manifest[at.tx].on
    <2>1. /\ journal' = Marked(at.tx, "RECOVERING") /\ Incomplete' = {at.tx} /\ manifest' = manifest
          /\ pc' = "read" /\ at' = at
        BY <1>2, MarkedOn DEF Mark
    <2>2. journal'[at.tx].status = "RECOVERING"
        BY <1>1, <2>1, MarkedSets
    <2>3. AtRecovery'
        BY <1>1, <1>2, <2>1, <2>2 DEF AtRecovery
    <2> QED BY <1>1, <2>1, <2>3, RecoveryAnnotation DEF RecoverySteps
<1>3. CASE ~manifest[at.tx].on
    <2>1. AfterRecovery /\ Incomplete' = {}
        BY <1>3, MarkedOn DEF Mark
    <2> QED BY <2>1, AfterRecoveryIs, FiledParts, RestAnnotation
<1> QED BY <1>2, <1>3

\* The settings to be restored are those of the manifest, with what the user
\* has changed since.
LEMMA ReadAnnotation ==
    ASSUME Typed, InOrder, Annotation, Read
    PROVE  Annotation'
<1>1. pc = "read" /\ ~at.cut /\ AtRecovery /\ Recovering
    BY DEF Read, Annotation, Recovering
<1>2. CASE pc' = "idle" /\ at' = Nothing
    BY <1>2, NothingIs, RestAnnotation
<1>3. CASE pc' = "harness" /\ at' = [at EXCEPT !.written = Restored(manifest[at.tx])] /\ UNCHANGED journal
    <2>1. PICK m \in Manifests : m = manifest[at.tx]
        BY <1>1, AtTx
    <2>2. m.settings \in Settings /\ settings \in Settings /\ m.published \in Settings
        BY ManifestFields, FiledParts
    <2>3. PICK v : v = Restored(m)
        OBVIOUS
    <2>4. /\ v \in Settings /\ v.packages = m.settings.packages /\ v.gen = m.settings.gen
          /\ m.target => v.user = settings.user \/ settings.user = m.published.user
        <3>1. CASE m.target /\ settings # m.published
            <4>1. v = [m.settings EXCEPT !.user = settings.user]
                BY <2>3, <3>1 DEF Restored
            <4>2. PICK u \in 0..MaxEdits : u = settings.user
                BY <2>2, SettingsTypes
            <4> QED BY <2>2, <4>1, <4>2 DEF Settings
        <3>2. CASE ~(m.target /\ settings # m.published)
            <4>1. v = m.settings
                BY <2>3, <3>2 DEF Restored
            <4> QED BY <2>2, <3>2, <4>1
        <3> QED BY <3>1, <3>2
    <2>5. /\ at'.tx = at.tx /\ at'.by = at.by /\ at'.cut = at.cut /\ at'.written = v
        BY <1>3, <2>1, <2>3, FiledParts DEF Works
    <2>6. UNCHANGED <<manifest, settings>> /\ Incomplete' = Incomplete
        BY <1>3 DEF Read, Incomplete
    <2>7. AtRecovery'
        BY <1>1, <1>3, <2>1, <2>4, <2>5, <2>6 DEF AtRecovery
    <2> QED BY <1>1, <1>3, <2>5, <2>7, RecoveryAnnotation DEF RecoverySteps
<1> QED BY <1>2, <1>3 DEF Read, Throw, After

\* The generation is that of before once the harness has rolled back.
LEMMA HarnessAnnotation ==
    ASSUME Typed, InOrder, Annotation, HarnessRollback
    PROVE  Annotation'
<1>1. pc = "harness" /\ ~at.cut /\ AtRecovery /\ Recovering
    BY DEF HarnessRollback, Annotation, Recovering
<1>2. UNCHANGED <<journal, manifest>> /\ at' = at /\ pc' = "links"
    BY DEF HarnessRollback, After
<1>3. Incomplete' = Incomplete
    BY <1>2 DEF Incomplete
<1>4. /\ settings'.user = settings.user
      /\ manifest[at.tx].harness => settings'.gen = manifest[at.tx].settings.gen
    BY FiledParts DEF HarnessRollback, Settings
<1>5. AtRecovery'
    BY <1>1, <1>2, <1>3, <1>4 DEF AtRecovery
<1> QED BY <1>1, <1>2, <1>5, RecoveryAnnotation DEF RecoverySteps

\* The links to be restored are all four.
LEMMA RestoreLinksAnnotation ==
    ASSUME Typed, InOrder, Annotation, RestoreLinks
    PROVE  Annotation'
<1>1. pc = "links" /\ ~at.cut /\ AtRecovery /\ Recovering
    BY DEF RestoreLinks, Annotation, Recovering
<1>2. UNCHANGED <<journal, manifest, settings>> /\ pc' = "link"
    BY DEF RestoreLinks, disk
<1>3. Incomplete' = Incomplete
    BY <1>2 DEF Incomplete
<1>4. PICK to : to = manifest[at.tx].link /\ to \in [Links -> AnyStack]
    BY <1>1, AtTx, ManifestFields
<1>5. PICK q : q = [i \in DOMAIN RestoredLinks |-> Write(RestoredLinks[i], to[RestoredLinks[i]])]
    OBVIOUS
<1>6. at' = [at EXCEPT !.then = "settings", !.links = q]
    BY <1>4, <1>5 DEF RestoreLinks, After
<1>7. /\ at'.tx = at.tx /\ at'.by = at.by /\ at'.cut = at.cut /\ at'.written = at.written
      /\ at'.then = "settings" /\ at'.links = q
    BY <1>6, FiledParts DEF Works
<1>8. /\ DOMAIN RestoredLinks = 1..4 /\ DOMAIN q = 1..4
      /\ RestoredLinks[1] = "omp" /\ RestoredLinks[2] = "pi" /\ RestoredLinks[3] = "current"
      /\ RestoredLinks[4] = "lkg"
    BY <1>5 DEF RestoredLinks
<1>9. \A i \in 1..4 : RestoredLinks[i] \in Links
    BY DEF RestoredLinks, Links
<1>10. \A i \in 1..4 : q[i].name = RestoredLinks[i] /\ q[i].to = to[RestoredLinks[i]]
    BY <1>5, <1>8 DEF Write
<1>11. \A l \in Links : \E i \in 1..4 : RestoredLinks[i] = l
    BY <1>8 DEF Links
<1>12. DOMAIN to = Links
    BY <1>4
<1>13. Filling(to)'
    BY <1>7, <1>8, <1>9, <1>10, <1>11, <1>12 DEF Filling
<1>14. AtRecovery'
    BY <1>1, <1>2, <1>3, <1>4, <1>7, <1>13 DEF AtRecovery
<1> QED BY <1>1, <1>2, <1>7, <1>14, LinkAnnotation DEF AtRecovery

\* The settings are back.
LEMMA RestoreSettingsAnnotation ==
    ASSUME Typed, InOrder, Annotation, RestoreSettings
    PROVE  Annotation'
<1>1. pc = "settings" /\ ~at.cut /\ AtRecovery /\ Recovering
    BY DEF RestoreSettings, Annotation, Recovering
<1>2. UNCHANGED <<journal, manifest, link>> /\ pc' = "stack state"
    BY DEF RestoreSettings, After
<1>3. Incomplete' = Incomplete
    BY <1>2 DEF Incomplete
<1>4. PICK w : w = Nothing.written
    OBVIOUS
<1>5. at' = [at EXCEPT !.written = w]
    BY <1>4 DEF RestoreSettings
<1>6. at'.tx = at.tx /\ at'.by = at.by /\ at'.cut = at.cut
    BY <1>5, FiledParts DEF Works
<1>7. settings' = (IF manifest[at.tx].untouched THEN settings ELSE at.written)
    BY DEF RestoreSettings
<1>8. PICK to : to = manifest[at.tx].link
    OBVIOUS
<1>9. Filled(to)'
    BY <1>1, <1>2, <1>8 DEF AtRecovery, Filled
<1>10. AtRecovery'
    BY <1>1, <1>2, <1>3, <1>6, <1>7, <1>8, <1>9 DEF AtRecovery
<1> QED BY <1>1, <1>2, <1>6, <1>10, RecoveryAnnotation DEF RecoverySteps

\* The recorded state is back.
LEMMA RestoreStateAnnotation ==
    ASSUME Typed, InOrder, Annotation, RestoreState
    PROVE  Annotation'
<1>1. pc = "stack state" /\ ~at.cut /\ AtRecovery /\ Recovering
    BY DEF RestoreState, Annotation, Recovering
<1>2. UNCHANGED <<journal, manifest, link, settings>> /\ pc' = "tree" /\ at' = at
    BY DEF RestoreState, After
<1>3. Incomplete' = Incomplete /\ state' = manifest[at.tx].state
    BY <1>2 DEF Incomplete, RestoreState
<1>4. PICK to : to = manifest[at.tx].link
    OBVIOUS
<1>5. Filled(to)'
    BY <1>1, <1>2, <1>4 DEF AtRecovery, Filled
<1>6. AtRecovery'
    BY <1>1, <1>2, <1>3, <1>4, <1>5 DEF AtRecovery
<1> QED BY <1>1, <1>2, <1>6, RecoveryAnnotation DEF RecoverySteps

\* The npm root is back, or it was not switched.
LEMMA RestoreTreeAnnotation ==
    ASSUME Typed, InOrder, Baseline, Aside, Annotation, RestoreTree
    PROVE  Annotation'
<1>1. pc = "tree" /\ AtRecovery /\ Recovering
    BY DEF RestoreTree, Annotation, Recovering
<1>2. UNCHANGED <<journal, manifest, link, settings, state>>
    BY DEF RestoreTree
<1>3. Incomplete' = Incomplete
    BY <1>2 DEF Incomplete
<1>4. \/ ~manifest[at.tx].switch /\ pc' = "unstage" /\ at' = at /\ UNCHANGED <<npm, kept>>
      \/ manifest[at.tx].switch /\ ~at.cut /\ npm' = None /\ pc' = "tree" /\ at' = [at EXCEPT !.cut = TRUE]
      \/ /\ manifest[at.tx].switch /\ at.cut /\ npm' = (IF kept[at.tx] # None THEN kept[at.tx] ELSE npm)
         /\ kept' = [kept EXCEPT ![at.tx] = None] /\ pc' = "unstage" /\ at' = [at EXCEPT !.cut = FALSE]
    BY DEF RestoreTree, After
<1>5. at'.tx = at.tx /\ at'.by = at.by /\ (pc' = "tree" => at'.cut) /\ (at.cut => manifest[at.tx].switch)
      /\ (at'.cut => pc' = "tree")
    BY <1>1, <1>4, FiledParts DEF Works, AtRecovery
<1>6. at.tx \in Txs /\ manifest[at.tx].on /\ manifest[at.tx] \in Manifests
    BY <1>1, AtTx, WorkedOn
<1>7. PICK to : to = manifest[at.tx].link
    OBVIOUS
<1>8. Filled(to)'
    BY <1>1, <1>2, <1>7 DEF AtRecovery, Filled
<1>9. pc' = "unstage" => kept'[at.tx] = None
    BY <1>4, <1>6, FiledParts DEF Aside
<1>10. "partial" \notin Trees /\ pc' = "unstage" /\ manifest[at.tx].switch => npm' = manifest[at.tx].npm
    <2>1. SUFFICES ASSUME "partial" \notin Trees, pc' = "unstage", manifest[at.tx].switch
                   PROVE  npm' = manifest[at.tx].npm
        OBVIOUS
    <2>2. manifest[at.tx].npm = None
        <3>1. manifest[at.tx].npm \in Roots /\ manifest[at.tx].npm \notin Supplied
            BY <1>6, <2>1, ManifestFields DEF Baseline, Manifest
        <3> QED BY <2>1, <3>1 DEF Roots, Supplied
    <2>3. kept[at.tx] = None /\ npm = None
        BY <1>1, <1>4, <1>6, <2>1 DEF Aside, AtRecovery
    <2> QED BY <1>4, <2>1, <2>2, <2>3
<1>11. AtRecovery'
    BY <1>1, <1>2, <1>3, <1>4, <1>5, <1>7, <1>8, <1>9, <1>10 DEF AtRecovery
<1> QED BY <1>4, <1>5, <1>11, RecoveryAnnotation DEF RecoverySteps

\* What was staged is gone.
LEMMA UnstageAnnotation ==
    ASSUME Typed, InOrder, Annotation, Unstage
    PROVE  Annotation'
<1>1. pc = "unstage" /\ ~at.cut /\ AtRecovery /\ Recovering
    BY DEF Unstage, Annotation, Recovering
<1>2. UNCHANGED <<journal, manifest, link, settings, state, npm, kept>> /\ pc' = "drop" /\ at' = at
    BY DEF Unstage
<1>3. Incomplete' = Incomplete
    BY <1>2 DEF Incomplete
<1>4. stage'[at.tx] = "none" /\ at.tx \notin fresh'
    BY <1>1, AtTx, FiledParts DEF Unstage, StagedRemoved
<1>5. PICK to : to = manifest[at.tx].link
    OBVIOUS
<1>6. Filled(to)'
    BY <1>1, <1>2, <1>5 DEF AtRecovery, Filled
<1>7. AtRecovery'
    BY <1>1, <1>2, <1>3, <1>4, <1>5, <1>6 DEF AtRecovery
<1> QED BY <1>1, <1>2, <1>7, RecoveryAnnotation DEF RecoverySteps

\* The stack is gone: no link leads to it any more.
LEMMA DropAnnotation ==
    ASSUME Typed, InOrder, Baseline, Annotation, Drop
    PROVE  Annotation'
<1>1. pc = "drop" /\ ~at.cut /\ AtRecovery /\ Recovering
    BY DEF Drop, Annotation, Recovering
<1>2. UNCHANGED <<journal, manifest, link, settings, state, npm, kept, stage, fresh>> /\ at' = at
    BY DEF Drop
<1>3. Incomplete' = Incomplete
    BY <1>2 DEF Incomplete
<1>4. PICK to : to = manifest[at.tx].link
    OBVIOUS
<1>5. Filled(to)'
    BY <1>1, <1>2, <1>4 DEF AtRecovery, Filled
<1>6. Leads("current") # journal[at.tx].stack
    <2>1. "current" \in Links
        BY DEF Links
    <2> QED BY <2>1, LeadsType, DropSpares
<1>7. pc' = "drop" \/ (pc' = "settle" /\ dir'[journal[at.tx].stack] = "none")
    BY <1>6 DEF Drop
<1>8. AtRecovery'
    BY <1>1, <1>2, <1>3, <1>4, <1>5, <1>7 DEF AtRecovery
<1> QED BY <1>1, <1>2, <1>7, <1>8, RecoveryAnnotation DEF RecoverySteps

\* An edit of the user comes at none of the steps that would miss it.
LEMMA EditAnnotation ==
    ASSUME Typed, InOrder, Annotation, Edit
    PROVE  Annotation'
<1>1. UNCHANGED <<journal, manifest, state, link, dir, stage, npm, fresh, kept, pc, at>> /\ ~Recovering
    BY DEF Edit
<1>2. settings'.gen = settings.gen
    BY FiledParts DEF Edit, Settings
<1>3. Incomplete' = Incomplete /\ Committed' = Committed /\ Gen(at.tx)' = Gen(at.tx)
      /\ (InApply' <=> InApply) /\ ~Recovering'
    BY <1>1 DEF Incomplete, Committed, Gen, InApply, Recovering
<1>4. AtMark => AtMark'
    BY <1>1, <1>3 DEF AtMark
<1>5. AtApply => AtApply'
    <2>1. Leading' = Leading /\ LastGood' = LastGood
        BY <1>1, SameLists
    <2>2. PICK first, last : first = Leading /\ last = LastGood
        OBVIOUS
    <2>3. /\ Filled(first)' <=> Filled(first)
          /\ Filled(last)' <=> Filled(last)
          /\ Filling(first)' <=> Filling(first)
          /\ Filling(last)' <=> Filling(last)
        BY <1>1 DEF Filled, Filling
    <2> QED BY <1>1, <1>2, <1>3, <2>1, <2>2, <2>3 DEF AtApply
<1> QED BY <1>1, <1>3, <1>4, <1>5 DEF Annotation

\* Every step leads to a step at which the command knows what it needs.
LEMMA AnnotationStep ==
    ASSUME Typed, InOrder, Listed, Baseline, Aside, Annotation, Next
    PROVE  Annotation'
<1>1. CASE Commit \/ HarnessFails
    BY <1>1, NothingIs, RestAnnotation DEF Commit, HarnessFails, Throw
<1>2. CASE Settle
    <2>1. AfterRecovery /\ Incomplete' = {}
        BY <1>2, SettleIs DEF Settle
    <2> QED BY <2>1, AfterRecoveryIs, FiledParts, RestAnnotation
<1>3. CASE WriteLink
    BY <1>3, WriteLinkApplies, WriteLinkRecovers
<1> QED BY <1>1, <1>2, <1>3, CommandAnnotation, BeginAnnotation, BackupAnnotation, StageAnnotation,
       SwitchAnnotation, PublishAnnotation, GenerationAnnotation, RecordAnnotation, ActivateAnnotation,
       VerifyAnnotation, RecordStateAnnotation, MarkedAnnotation, ReadAnnotation, HarnessAnnotation,
       RestoreLinksAnnotation, RestoreSettingsAnnotation, RestoreStateAnnotation, RestoreTreeAnnotation,
       UnstageAnnotation, DropAnnotation, EditAnnotation DEF Next, Apply, Recover

-----------------------------------------------------------------------------
(* The invariant.                                                          *)

\* Nothing is installed, and the invariant holds.
LEMMA InitInv == Init => StackInv
<1> SUFFICES ASSUME Init PROVE StackInv
    OBVIOUS
<1>1. Typed
    <2>1. Filed
        <3>1. NoJournal \in Journals /\ NoState \in States
            BY EmptySeq DEF Init, NoJournal, NoState, Journals, States, AnyStack
        <3>2. settings \in Settings /\ npm \in Roots /\ good \in AnyStack
            BY DEF Init, Settings, AnyStack, Roots
        <3>3. link \in [Links -> AnyStack \union {Via}] /\ link["current"] # Via /\ link["lkg"] # Via
            BY DEF Init, Links, AnyStack
        <3> QED BY <3>1, <3>2, <3>3 DEF Init, Filed
    <2> QED BY <2>1, NothingWorks, TypedParts DEF Init, Labels, Applying, RecoverySteps
<1>2. /\ \A t \in Txs : journal[t].status = "none" /\ ~manifest[t].on
      /\ Incomplete = {} /\ Committed = {} /\ Held = {}
    BY DEF Init, NoJournal, NoManifest, Incomplete, Committed, Held
<1>3. InOrder
    BY <1>2 DEF InOrder
<1>4. Listed
    <2>1. state.txs = <<>> /\ at.todo = <<>>
        BY DEF Init, NoState, Nothing
    <2> QED BY <1>2, <2>1 DEF Listed, Lists
<1>5. Baseline
    BY <1>2 DEF Init, Baseline
<1>6. Aside
    BY <1>2 DEF Init, Aside
<1>7. Annotation
    BY NothingIs DEF Init, Annotation, InApply, Applying, Recovering
<1>8. CoherentLinks /\ CoherentGens
    BY <1>2 DEF Init, CoherentLinks, CoherentGens, Leads, NoState, Resting, Links
<1> QED BY <1>1, <1>3, <1>4, <1>5, <1>6, <1>7, <1>8 DEF StackInv

\* Every step keeps the invariant.
LEMMA StepInv == StackInv /\ [Next]_vars => StackInv'
<1>1. ASSUME StackInv, Next PROVE StackInv'
    <2>1. Typed /\ InOrder /\ Listed /\ Baseline /\ Aside /\ Annotation
        BY <1>1 DEF StackInv
    <2>2. Typed' /\ InOrder' /\ Listed' /\ Baseline' /\ Aside' /\ Annotation'
        BY <1>1, <2>1, TypeStep, InOrderStep, ListedStep, BaselineStep, AsideStep, AnnotationStep
    <2>3. NoneGivenUp' => CoherentLinks' /\ CoherentGens'
        BY <1>1, <2>1, StatusSteps, CoherentLinksStep, CoherentGensStep DEF StackInv
    <2> QED BY <2>2, <2>3 DEF StackInv
<1>2. ASSUME StackInv, UNCHANGED vars PROVE StackInv'
    <2>1. UNCHANGED <<journal, manifest, state, link, dir, stage, settings, good, npm, fresh, kept, pc, at, faults>>
        BY <1>2 DEF vars, disk
    <2>2. Incomplete' = Incomplete /\ Committed' = Committed /\ Held' = Held
          /\ (Resting' <=> Resting) /\ (NoneGivenUp' <=> NoneGivenUp)
        BY <2>1 DEF Incomplete, Committed, Held, Resting, NoneGivenUp
    <2>3. Typed' /\ InOrder' /\ Aside'
        BY <1>2, <2>1, <2>2 DEF StackInv, Typed, InOrder, Aside
    <2>4. Listed'
        BY <1>2, <2>1, <2>2 DEF StackInv, Listed, Lists
    <2>5. Baseline'
        BY <1>2, <2>1, <2>2 DEF StackInv, Baseline, Manifest
    <2>6. Annotation'
        <3>1. (InApply' <=> InApply) /\ (Recovering' <=> Recovering)
            BY <2>1 DEF InApply, Recovering
        <3>2. AtMark => AtMark'
            BY <2>1, <2>2 DEF AtMark
        <3>3. PICK first, last, old : first = Leading /\ last = LastGood /\ old = manifest[at.tx].link
            OBVIOUS
        <3>4. /\ Filled(first)' <=> Filled(first)
              /\ Filled(last)' <=> Filled(last)
              /\ Filled(old)' <=> Filled(old)
              /\ Filling(first)' <=> Filling(first)
              /\ Filling(last)' <=> Filling(last)
              /\ Filling(old)' <=> Filling(old)
            BY <2>1 DEF Filled, Filling
        <3>5. Leading' = first /\ LastGood' = last /\ manifest'[at'.tx].link = old /\ Gen(at.tx)' = Gen(at.tx)
            BY <2>1, <3>3, SameLists DEF Gen
        <3>6. AtApply => AtApply'
            BY <2>1, <2>2, <3>3, <3>4, <3>5 DEF AtApply
        <3>7. AtRecovery => AtRecovery'
            <4>1. SUFFICES ASSUME AtRecovery PROVE AtRecovery'
                OBVIOUS
            <4>2. /\ pc = "link" => at.then = "settings" /\ Filling(old)'
                  /\ pc \notin {"read", "harness", "links", "link"} => Filled(old)'
                BY <3>3, <3>4, <4>1 DEF AtRecovery
            <4>3. /\ at'.by # "none" /\ at'.tx \in Txs /\ Incomplete' = {at'.tx}
                  /\ journal'[at'.tx].status = "RECOVERING" /\ manifest'[at'.tx].on
                  /\ pc' \notin {"read", "harness"} /\ manifest'[at'.tx].harness =>
                        settings'.gen = manifest'[at'.tx].settings.gen
                BY <2>1, <2>2, <4>1 DEF AtRecovery
            <4>4. pc' \in {"harness", "links", "link", "settings"} =>
                     LET m == manifest'[at'.tx]
                     IN  /\ at'.written \in Settings
                         /\ at'.written.packages = m.settings.packages /\ at'.written.gen = m.settings.gen
                         /\ m.target => at'.written.user = settings'.user \/ settings'.user = m.published.user
                BY <2>1, <2>2, <4>1 DEF AtRecovery
            <4>5. pc' \in {"stack state", "tree", "unstage", "drop", "settle"} =>
                     LET m == manifest'[at'.tx]
                     IN  \/ m.untouched
                         \/ settings'.packages = m.settings.packages /\ settings'.gen = m.settings.gen
                BY <2>1, <2>2, <4>1 DEF AtRecovery
            <4>6. /\ pc' \in {"tree", "unstage", "drop", "settle"} => state' = manifest'[at'.tx].state
                  /\ pc' = "tree" /\ at'.cut => manifest'[at'.tx].switch /\ npm' = None
                BY <2>1, <2>2, <4>1 DEF AtRecovery
            <4>7. pc' \in {"unstage", "drop", "settle"} => kept'[at'.tx] = None
                BY <2>1, <2>2, <4>1 DEF AtRecovery
            <4>8. pc' \in {"unstage", "drop", "settle"} /\ "partial" \notin Trees =>
                     ~manifest'[at'.tx].switch \/ npm' = manifest'[at'.tx].npm
                BY <2>1, <2>2, <4>1 DEF AtRecovery
            <4>9. /\ pc' \in {"drop", "settle"} => stage'[at'.tx] = "none" /\ at'.tx \notin fresh'
                  /\ pc' = "settle" => dir'[journal'[at'.tx].stack] = "none"
                BY <2>1, <2>2, <4>1 DEF AtRecovery
            <4>10. pc' = pc /\ at'.then = at.then /\ manifest'[at'.tx].link = old
                BY <2>1, <3>3
            <4>11. /\ pc' = "link" => at'.then = "settings" /\ Filling(manifest[at.tx].link)'
                   /\ pc' \notin {"read", "harness", "links", "link"} => Filled(manifest[at.tx].link)'
                BY <4>2, <4>10
            <4> QED BY <4>3, <4>4, <4>5, <4>6, <4>7, <4>8, <4>9, <4>11 DEF AtRecovery
        <3> QED BY <1>2, <2>1, <2>2, <3>1, <3>2, <3>6, <3>7 DEF StackInv, Annotation
    <2>7. (CoherentLinks' <=> CoherentLinks) /\ (CoherentGens' <=> CoherentGens)
        BY <2>1, <2>2 DEF CoherentLinks, CoherentGens, Gen, Leads
    <2> QED BY <1>2, <2>2, <2>3, <2>4, <2>5, <2>6, <2>7 DEF StackInv
<1> QED BY <1>1, <1>2

\* The inductive invariant of install, update, rollback and removal, with
\* crashes at every step and failures of every step of apply: transactions are undone
\* in the reverse order, and what a manifest refers to is there as long as it is.
THEOREM StackInvariant == Spec => []StackInv
BY InitInv, StepInv, PTL DEF Spec

-----------------------------------------------------------------------------
(* What the invariant says.                                                *)

\* Types, and nothing is left staged or moved aside for a transaction that is
\* rolled back: the last steps of recoverTransaction, whatever crash came between.
THEOREM StackTyping == Spec => []TypeOK
<1>1. StackInv => TypeOK
    <2> SUFFICES ASSUME StackInv PROVE TypeOK
        OBVIOUS
    <2>1. Typed /\ InOrder /\ Aside
        BY DEF StackInv
    <2>2. journal \in [Txs -> [status : {"none", "ACTIVE", "RECOVERING", "COMMITTED", "ROLLED_BACK",
                                         "MANUAL"}, stack : AnyStack]]
        BY <2>1 DEF Typed, Journals
    <2>3. /\ state.active \in AnyStack /\ state.lkg \in AnyStack /\ state.txs \in Seq(Txs)
          /\ link \in [Links -> AnyStack \union {Via}] /\ good \in AnyStack /\ faults \in 0..MaxFaults
        BY <2>1 DEF Typed, States
    <2>4. \A i \in DOMAIN state.txs : state.txs[i] \in Txs
        BY <2>3, ElementOfSeq
    <2>5. /\ dir \in [Stacks -> {"none", "partial", "whole"}]
          /\ settings \in [packages : AnyStack \union {"other"}, gen : AnyStack, user : 0..MaxEdits]
          /\ npm \in Trees \union {None, "release"}
        BY <2>1 DEF Typed, Settings, Roots
    <2>6. ASSUME NEW t \in Txs, journal[t].status \in {"none", "COMMITTED", "ROLLED_BACK"}
          PROVE  /\ stage[t] = "none" /\ t \notin fresh
                 /\ journal[t].status # "COMMITTED" => kept[t] = None
        <3>1. journal[t].status = "COMMITTED" => t \in Committed
            BY DEF Committed
        <3>2. journal[t].status # "COMMITTED" => ~manifest[t].on
            BY <2>1, <2>6 DEF InOrder
        <3> QED BY <2>1, <3>1, <3>2 DEF Aside
    <2> QED BY <2>2, <2>3, <2>4, <2>5, <2>6 DEF TypeOK
<1> QED BY <1>1, StackInvariant, PTL

\* The installed stack is coherent whenever nothing is pending and nothing was
\* given up: what apply, rollback and removal leave behind, or a recovery after a
\* crash at any step of them.
THEOREM StackCoherent == Spec => []InstalledIsCoherent
<1>1. StackInv => InstalledIsCoherent
    <2> SUFFICES ASSUME StackInv, pc = "idle", Incomplete = {}, NoneGivenUp
                 PROVE  /\ \A l \in Links \ {"lkg"} : Leads(l) = state.active
                        /\ link["lkg"] = state.lkg
                        /\ state.active # None => Verified
                        /\ state.lkg # None => IsThere(state.lkg)
                        /\ \A i \in DOMAIN state.txs : journal[state.txs[i]].status = "COMMITTED"
        BY DEF InstalledIsCoherent
    <2>1. Typed /\ Baseline /\ NowCoherent
        BY CoherentLinksParts DEF StackInv
    <2>2. Resting
        BY DEF Resting
    <2>3. /\ \A l \in Links \ {"lkg"} : Leads(l) = state.active
          /\ link["lkg"] = state.lkg
          /\ state.active \in Stacks \ Private => npm \in Supplied
          /\ \A i \in DOMAIN state.txs : state.txs[i] \in Committed
        BY <2>1, <2>2 DEF NowCoherent
    <2>4. link["current"] = state.active /\ Leads("omp") = state.active /\ Leads("pi") = state.active
        BY <2>1, <2>3, LeadsType DEF Links
    <2>5. \A l \in Links : link[l] \in Stacks => dir[link[l]] = "whole"
        BY <2>1 DEF Baseline
    <2>6. state.active \in AnyStack /\ state.lkg \in AnyStack
        BY <2>1 DEF Typed, States
    <2>7. state.active # None => IsThere(state.active)
        BY <2>4, <2>5, <2>6 DEF IsThere, AnyStack, Links
    <2>8. state.lkg # None => IsThere(state.lkg)
        BY <2>3, <2>5, <2>6 DEF IsThere, AnyStack, Links
    <2>9. state.active # None => state.active \in Private \/ npm \in {"exact", "release"}
        BY <2>3, <2>6 DEF Supplied, AnyStack
    <2> QED BY <2>3, <2>4, <2>7, <2>8, <2>9 DEF Verified, Committed
<1> QED BY <1>1, StackInvariant, PTL

\* The settings, who has changed them and when: only an edit of the user and the
\* restoration change how often the user has.
LEMMA UserSteps ==
    ASSUME Typed, [Next]_vars, settings'.user < settings.user
    PROVE  RestoreSettings
<1>1. settings \in Settings
    BY DEF Typed
<1>2. settings.user \in Nat
    BY <1>1 DEF Settings
<1>3. ~(settings' = settings \/ settings'.user = settings.user \/ settings'.user = settings.user + 1)
    BY <1>2
<1>4. Publish => settings'.user = settings.user
    BY <1>1 DEF Publish, Settings
<1>5. PublishGeneration => settings'.user = settings.user
    BY <1>1 DEF PublishGeneration, Settings
<1>6. HarnessRollback => settings'.user = settings.user
    BY <1>1 DEF HarnessRollback, Settings
<1>7. Edit => settings'.user = settings.user + 1
    BY <1>1 DEF Edit, Settings
<1>8. ~Apply
    BY <1>3, <1>4, <1>5 DEF Apply, Begin, Backup, Stage, Switch, RecordPublished, Activate, WriteLink,
        Verify, RecordState, Commit, Fails, disk
<1>9. ~(Crash \/ RecoverPending \/ NextRollback \/ (\E s \in Stacks : Install(s))
        \/ (\E n \in 1..Len(state.txs) : Lifecycle(n)) \/ UNCHANGED vars)
    BY <1>3 DEF Crash, RecoverPending, NextRollback, Install, Lifecycle, disk, vars
<1>10. Recover
    BY <1>3, <1>7, <1>8, <1>9 DEF Next
<1> QED
    BY <1>3, <1>6, <1>10 DEF Recover, Mark, Read, HarnessFails, RestoreLinks, RestoreState,
        RestoreTree, Unstage, Drop, Settle, disk

\* What the user has changed since the publication survives a recovery that knows
\* what was published: restoreAuthorizedSettings keeps all but the targeted parts,
\* and nobody else writes the settings between its read and its write.
THEOREM StackLateEdits == Spec => LateEditsSurvive
<1>1. ASSUME StackInv, [Next]_vars, settings'.user < settings.user
      PROVE  LET m == manifest[at.tx]
             IN  ~m.target \/ settings.user = m.published.user
    <2>1. Typed /\ Annotation
        BY <1>1 DEF StackInv
    <2>2. pc = "settings" /\ settings' = IF manifest[at.tx].untouched THEN settings ELSE at.written
        BY <1>1, <2>1, UserSteps DEF RestoreSettings
    <2>3. settings.user \in Nat
        BY <2>1 DEF Typed, Settings
    <2>4. settings' = at.written
        BY <1>1, <2>2, <2>3
    <2>5. AtRecovery
        BY <2>1, <2>2 DEF Annotation, Recovering
    <2>6. manifest[at.tx].target =>
             at.written.user = settings.user \/ settings.user = manifest[at.tx].published.user
        BY <2>2, <2>5 DEF AtRecovery
    <2> QED BY <1>1, <2>3, <2>4, <2>6
<1>2. StackInv /\ [Next]_vars =>
         [settings'.user < settings.user =>
              LET m == manifest[at.tx]
              IN  ~m.target \/ settings.user = m.published.user]_vars
    BY <1>1
<1> QED BY <1>2, StackInvariant, PTL DEF Spec, LateEditsSurvive

\* Who ends a recovery: Settle alone, for the transaction at hand.
LEMMA RolledBackBy ==
    ASSUME Typed, InOrder, Annotation, [Next]_vars, NEW t \in Txs,
           journal[t].status = "RECOVERING", journal'[t].status = "ROLLED_BACK"
    PROVE  Settle /\ t = at.tx
<1>1. journal' # journal
    OBVIOUS
<1>2. Next
    BY <1>1 DEF vars, disk
<1>3. ~Begin
    <2> SUFFICES ASSUME Begin PROVE FALSE
        OBVIOUS
    <2>1. PICK u \in Txs : /\ journal[u].status = "none"
                           /\ \A v \in Txs \ {u} : journal'[v] = journal[v]
        BY BeginIs
    <2> QED BY <2>1
<1>4. ~Backup /\ ~RecordPublished
    BY <1>1 DEF Backup, RecordPublished
<1>5. ~Mark
    <2> SUFFICES ASSUME Mark PROVE FALSE
        OBVIOUS
    <2>1. at.tx \in Txs /\ journal' = IF manifest[at.tx].on THEN Marked(at.tx, "RECOVERING")
                                                            ELSE Marked(at.tx, "ROLLED_BACK")
        BY MarkedOn
    <2>2. t = at.tx /\ ~manifest[t].on
        BY <2>1, MarkedType
    <2> QED BY <2>2 DEF InOrder
<1>6. ~Commit
    <2> SUFFICES ASSUME Commit PROVE FALSE
        OBVIOUS
    <2>1. at.tx \in Txs /\ journal' = Marked(at.tx, "COMMITTED")
        BY WorkedOn DEF Commit, InApply, Applying
    <2>2. \A u \in Txs : Marked(at.tx, "COMMITTED")[u].status =
                             IF u = at.tx THEN "COMMITTED" ELSE journal[u].status
        BY <2>1, MarkedType
    <2>3. journal'[t].status \in {"COMMITTED", "RECOVERING"}
        BY <2>1, <2>2
    <2> QED BY <2>3
<1>7. ~(Recovering /\ journal' = Marked(at.tx, "MANUAL"))
    BY WorkedOn, MarkedType
<1>8. Settle
    BY <1>1, <1>2, <1>3, <1>4, <1>5, <1>6, <1>7, JournalSteps
<1>9. at.tx \in Txs /\ journal' = Marked(at.tx, "ROLLED_BACK")
    BY <1>8, SettleIs
<1> QED BY <1>8, <1>9, MarkedType

\* A transaction that ends as rolled back has undone itself, by itself, after a
\* crash or on request, and however often its recovery was cut short: the order of
\* the steps of recoverTransaction, each of which may come again.  Of a preexisting
\* npm root with some of the packages nothing is promised.
THEOREM StackRolledBack == "partial" \notin Trees => (Spec => RolledBackIsBaseline)
<1> SUFFICES ASSUME "partial" \notin Trees PROVE Spec => RolledBackIsBaseline
    OBVIOUS
<1>1. ASSUME StackInv, [Next]_vars, NEW t \in Txs,
             journal[t].status = "RECOVERING", journal'[t].status = "ROLLED_BACK"
      PROVE  /\ \A l \in Links : Leads(l) = manifest[t].link[l]
             /\ state = manifest[t].state
             /\ npm = manifest[t].npm \/ ~manifest[t].switch
             /\ manifest[t].untouched \/ settings.packages = manifest[t].settings.packages
             /\ manifest[t].harness => settings.gen = manifest[t].settings.gen
             /\ manifest[t].harness /\ NoneGivenUp => good = manifest[t].good
             /\ dir[journal[t].stack] = "none"
    <2>1. Typed /\ InOrder /\ Annotation
        BY <1>1 DEF StackInv
    <2>2. Settle /\ t = at.tx
        BY <1>1, <2>1, RolledBackBy
    <2>3. pc = "settle" /\ Recovering /\ manifest[t].on
        BY <2>1, <2>2, SettleIs
    <2>4. AtRecovery
        BY <2>1, <2>3 DEF Annotation
    <2>5. /\ Filled(manifest[t].link) /\ state = manifest[t].state
          /\ npm = manifest[t].npm \/ ~manifest[t].switch
          /\ dir[journal[t].stack] = "none"
        BY <2>2, <2>3, <2>4 DEF AtRecovery
    <2>6. /\ manifest[t].untouched \/ settings.packages = manifest[t].settings.packages
          /\ manifest[t].harness => settings.gen = manifest[t].settings.gen
        BY <2>2, <2>3, <2>4 DEF AtRecovery
    <2>7. manifest[t].link \in [Links -> AnyStack]
        BY <2>1, <2>3, ManifestParts, ManifestFields
    <2>8. \A l \in Links : link[l] = manifest[t].link[l] /\ link[l] # Via
        BY <2>5, <2>7 DEF Filled, AnyStack
    <2>9. \A l \in Links : Leads(l) = manifest[t].link[l]
        BY <2>8 DEF Leads
    <2>10. ASSUME manifest[t].harness, NoneGivenUp PROVE good = manifest[t].good
        <3>1. CoherentGens
            BY <1>1, <2>10 DEF StackInv
        <3>2. t \in Incomplete
            BY <1>1 DEF Incomplete
        <3> QED BY <2>3, <2>6, <2>10, <3>1, <3>2 DEF CoherentGens
    <2> QED BY <2>5, <2>6, <2>9, <2>10
<1>2. StackInv /\ [Next]_vars =>
         [\A t \in Txs : journal[t].status = "RECOVERING" /\ journal'[t].status = "ROLLED_BACK" =>
             /\ \A l \in Links : Leads(l) = manifest[t].link[l]
             /\ state = manifest[t].state
             /\ npm = manifest[t].npm \/ ~manifest[t].switch
             /\ manifest[t].untouched \/ settings.packages = manifest[t].settings.packages
             /\ manifest[t].harness => settings.gen = manifest[t].settings.gen
             /\ manifest[t].harness /\ NoneGivenUp => good = manifest[t].good
             /\ dir[journal[t].stack] = "none"]_vars
    BY <1>1
<1> QED BY <1>2, StackInvariant, PTL DEF Spec, RolledBackIsBaseline
=============================================================================
