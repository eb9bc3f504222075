-------------------------- MODULE StackTransaction --------------------------
(***************************************************************************)
(* Installation, update, rollback and removal of a runtime stack: the      *)
(* stack transaction engine and the plans of the stack service, at the     *)
(* grain of what one rename, link or removal leaves behind.                *)
(*                                                                         *)
(* The phase of a transaction's journal is written before the work of the  *)
(* phase and is looked at only when the rollback manifest is missing,      *)
(* which can be in the first phases alone: it is left out, and a           *)
(* transaction is its status, its stack and its manifest.  Two commands at *)
(* once, which nothing excludes, are not modelled.  Settings are the       *)
(* packages that they select, the harness generation they refer to and how *)
(* often the user has changed the rest; a digest is the value itself.  A   *)
(* stack names its harness generation.  Shell profiles, receipts and the   *)
(* stop of running Pi processes are steps that may fail.                   *)
(***************************************************************************)
EXTENDS Naturals, Sequences, FiniteSets

CONSTANTS
    Stacks,     \* stacks
    Private,    \* those that bring their own packages
    None,       \* no stack, an absent file or link
    Via,        \* a link that goes through current-stack
    Trees,      \* what the user's npm root may be: None, "partial" or "exact"
    Changes,    \* whether the harness makes a transaction of its own: BOOLEANs
    MaxTx,      \* bound: transactions
    MaxEdits,   \* bound: changes of the settings by the user
    MaxFaults   \* bound: crashes and harness rollbacks that fail

ASSUME StackAssumption ==
    /\ None \notin Stacks /\ Via \notin Stacks /\ None # Via
    /\ Private \subseteq Stacks /\ Trees \subseteq {None, "partial", "exact"}
    /\ Changes \subseteq BOOLEAN /\ MaxTx \in Nat /\ MaxEdits \in Nat /\ MaxFaults \in Nat

VARIABLES
    journal,   \* status and stack of every transaction
    manifest,  \* the rollback manifest of a transaction, or NoManifest
    state,     \* stack-state.json: active stack, last known good, transactions
    link,      \* the links omp, pi, current-stack and lkg-stack
    dir,       \* the directories of stacks: none, partial or whole
    stage,     \* the staged stack of a transaction: none, partial or whole
    settings,  \* settings.json
    good,      \* the generation that the harness's last-known-good record names
    npm,       \* the npm root
    fresh,     \* the transactions whose staged npm root exists
    kept,      \* the npm root that a transaction has moved aside, or None
    pc, at,    \* the next step of the command, and what it works on
    faults     \* the faults so far

disk == <<journal, manifest, state, link, dir, stage, settings, good, npm, fresh, kept>>
vars == <<disk, pc, at, faults>>

Txs == 1..MaxTx
AnyStack == Stacks \union {None}
Links == {"omp", "pi", "current", "lkg"}
NoJournal == [status |-> "none", stack |-> None]
NoManifest == [on |-> FALSE]
NoState == [active |-> None, lkg |-> None, txs |-> <<>>]

\* What a command works on: the stack to install, the transactions still to be
\* rolled back, the transaction at hand and who recovers it, whether the npm
\* root must be switched, whether the harness has made a transaction, the links
\* still to be written, whether the first is removed, and what comes after, and
\* the settings that it has published or, in a recovery, will write.
Nothing == [stack |-> None, todo |-> <<>>, tx |-> 0, by |-> "none", switch |-> FALSE, new |-> FALSE,
            links |-> <<>>, cut |-> FALSE, then |-> "idle", written |-> [user |-> 0]]

Init ==
    /\ journal = [t \in Txs |-> NoJournal] /\ manifest = [t \in Txs |-> NoManifest]
    /\ state = NoState /\ link = [l \in Links |-> None]
    /\ dir = [s \in Stacks |-> "none"] /\ stage = [t \in Txs |-> "none"]
    /\ settings = [packages |-> None, gen |-> None, user |-> 0] /\ good = None
    /\ npm \in Trees /\ fresh = {} /\ kept = [t \in Txs |-> None]
    /\ pc = "idle" /\ at = Nothing /\ faults = 0

Incomplete == {t \in Txs : journal[t].status \in {"ACTIVE", "RECOVERING"}}
NewTx == {t \in Txs : journal[t].status = "none"}
First(S) == CHOOSE t \in S : \A u \in S : t <= u
Marked(t, status) == [journal EXCEPT ![t].status = status]

\* The stack that a link leads to.
Leads(l) == IF link[l] = Via THEN link["current"] ELSE link[l]
IsThere(s) == s # None /\ dir[s] = "whole"

\* Steps, and what a step leaves alone.
Goes(l, a) == pc' = l /\ at' = a
Done == Goes("idle", Nothing)

-----------------------------------------------------------------------------
(* Commands.                                                               *)

\* verifyInstalled: the recorded stack is there, and the links lead to it.
Verified ==
    /\ IsThere(state.active) /\ link["current"] = state.active
    /\ Leads("omp") = state.active /\ Leads("pi") = state.active
    /\ state.active \in Private \/ npm \in {"exact", "release"}

\* planInstall: what is there of the governed packages decides about the switch.
Install(s) ==
    /\ pc = "idle" /\ NewTx # {}
    /\ Goes("recover", [Nothing EXCEPT !.stack = s])
    /\ UNCHANGED <<disk, faults>>

\* planLifecycle for remove, which takes back every transaction, and for
\* rollback, which takes back the last ones up to one that had a stack before.
Undoes(n) == [i \in 1..n |-> state.txs[Len(state.txs) + 1 - i]]
Lifecycle(n) ==
    /\ pc = "idle" /\ Verified
    /\ \A i \in 1..n : journal[Undoes(n)[i]].status = "COMMITTED"
    /\ n = Len(state.txs) \/ manifest[Undoes(n)[n]].state.active # None
    /\ Goes("recover", [Nothing EXCEPT !.todo = Undoes(n)])
    /\ UNCHANGED <<disk, faults>>

\* recoverPending, and then the command itself; running Pi processes may stop it.
RecoverPending ==
    /\ pc = "recover"
    /\ \/ Incomplete # {} /\ Goes("mark", [at EXCEPT !.tx = First(Incomplete), !.by = "pending"])
       \/ Incomplete = {} /\ at.stack # None
          /\ Goes("begin", [at EXCEPT !.switch = at.stack \notin Private /\ npm \notin {"exact", "release"}])
       \/ Incomplete = {} /\ at.todo # <<>> /\ Goes("next", at)
       \/ Incomplete = {} /\ Done
    /\ UNCHANGED <<disk, faults>>

\* rollbackCommitted: the reviewed transactions, one after the other.
NextRollback ==
    /\ pc = "next"
    /\ IF at.todo = <<>> \/ journal[Head(at.todo)].status # "COMMITTED" THEN Done
       ELSE Goes("mark", [at EXCEPT !.tx = Head(at.todo), !.todo = Tail(at.todo), !.by = "rollback"])
    /\ UNCHANGED <<disk, faults>>

-----------------------------------------------------------------------------
(* apply.                                                                  *)

Begin ==
    /\ pc = "begin" /\ NewTx # {}
    /\ journal' = [journal EXCEPT ![First(NewTx)] = [status |-> "ACTIVE", stack |-> at.stack]]
    /\ Goes("backup", [at EXCEPT !.tx = First(NewTx)])
    /\ UNCHANGED <<manifest, state, link, dir, stage, settings, good, npm, fresh, kept, faults>>

\* backup: links are kept as what they lead to.  It fails when the stack is there.
Backup ==
    /\ pc = "backup" /\ dir[at.stack] = "none"
    /\ manifest' = [manifest EXCEPT ![at.tx] =
          [on |-> TRUE, settings |-> settings, state |-> state, link |-> [l \in Links |-> Leads(l)],
           npm |-> npm, good |-> good, switch |-> at.switch, untouched |-> at.stack \in Private,
           target |-> FALSE, published |-> settings, harness |-> FALSE]]
    /\ Goes("stage", at)
    /\ UNCHANGED <<journal, state, link, dir, stage, settings, good, npm, fresh, kept, faults>>

\* The stack, and the npm root if it is switched, are staged in several copies.
Stage ==
    /\ pc = "stage"
    /\ stage' = [stage EXCEPT ![at.tx] = IF @ = "none" THEN "partial" ELSE "whole"]
    /\ fresh' = IF at.switch /\ stage[at.tx] = "partial" THEN fresh \union {at.tx} ELSE fresh
    /\ Goes(IF stage[at.tx] = "none" THEN "stage" ELSE "switch", at)
    /\ UNCHANGED <<journal, manifest, state, link, dir, settings, good, npm, kept, faults>>

\* switchExternal: the npm root is moved aside, then the staged one put there.
Switch ==
    /\ pc = "switch"
    /\ IF ~at.switch THEN Goes("publish", at) /\ UNCHANGED <<npm, fresh, kept>>
       ELSE IF npm # None
       THEN /\ kept' = [kept EXCEPT ![at.tx] = npm] /\ npm' = None
            /\ Goes("switch", at) /\ UNCHANGED fresh
       ELSE npm' = "release" /\ fresh' = fresh \ {at.tx} /\ Goes("publish", at) /\ UNCHANGED kept
    /\ UNCHANGED <<journal, manifest, state, link, dir, stage, settings, good, faults>>

\* publishSettings: nothing may have changed since the backup.  The packages are
\* written first.
Publish ==
    /\ pc = "publish" /\ settings = manifest[at.tx].settings
    /\ IF at.stack \in Private THEN Goes("activate", at) /\ UNCHANGED settings
       ELSE settings' = [settings EXCEPT !.packages = at.stack] /\ Goes("generation", at)
    /\ UNCHANGED <<journal, manifest, state, link, dir, stage, good, npm, fresh, kept, faults>>

\* ... then the harness publishes the stack's generation in a transaction of its
\* own, unless it is there already ...
PublishGeneration ==
    /\ pc = "generation"
    /\ \E c \in Changes :
          \E s \in {[settings EXCEPT !.gen = IF c THEN at.stack ELSE @]} :
             /\ settings' = s
             /\ good' = IF c THEN at.stack ELSE good
             /\ Goes("record", [at EXCEPT !.new = c, !.written = s])
    /\ UNCHANGED <<journal, manifest, state, link, dir, stage, npm, fresh, kept, faults>>

\* ... and then the manifest learns what was published.
RecordPublished ==
    /\ pc = "record"
    /\ manifest' = [manifest EXCEPT ![at.tx] = [@ EXCEPT !.target = TRUE, !.published = at.written,
                                                         !.harness = at.new]]
    /\ Goes("activate", [at EXCEPT !.new = FALSE, !.written = Nothing.written])
    /\ UNCHANGED <<journal, state, link, dir, stage, settings, good, npm, fresh, kept, faults>>

\* restoreLink removes the link and then makes the new one.
WriteLink ==
    /\ pc = "link"
    /\ IF at.links = <<>> THEN Goes(at.then, at) /\ UNCHANGED link
       ELSE \E w \in {Head(at.links)} :
              IF ~at.cut
              THEN link' = [link EXCEPT ![w.name] = None] /\ Goes("link", [at EXCEPT !.cut = TRUE])
              ELSE /\ link' = [link EXCEPT ![w.name] = w.to]
                   /\ Goes("link", [at EXCEPT !.cut = FALSE, !.links = Tail(@)])
    /\ UNCHANGED <<journal, manifest, state, dir, stage, settings, good, npm, fresh, kept, faults>>

Write(name, to) == [name |-> name, to |-> to]

\* activateStack and activateShims.
Activate ==
    /\ pc = "activate"
    /\ dir' = [dir EXCEPT ![at.stack] = "whole"] /\ stage' = [stage EXCEPT ![at.tx] = "none"]
    /\ Goes("link", [at EXCEPT !.then = "verify",
                       !.links = <<Write("current", at.stack), Write("omp", Via), Write("pi", Via)>>])
    /\ UNCHANGED <<journal, manifest, state, link, settings, good, npm, fresh, kept, faults>>

\* The shell profile, the doctor, the smoke test, and the first half of
\* recordState: the stack before is the last known good one.
Verify ==
    /\ pc = "verify"
    /\ Goes("link", [at EXCEPT !.then = "state",
                       !.links = <<Write("lkg", manifest[at.tx].link["current"])>>])
    /\ UNCHANGED <<disk, faults>>

RecordState ==
    /\ pc = "state"
    /\ LET prior == manifest[at.tx].state
       IN  state' = [active |-> at.stack, lkg |-> prior.active, txs |-> Append(prior.txs, at.tx)]
    /\ Goes("commit", at)
    /\ UNCHANGED <<journal, manifest, link, dir, stage, settings, good, npm, fresh, kept, faults>>

Commit ==
    /\ pc = "commit"
    /\ journal' = Marked(at.tx, "COMMITTED")
    /\ Done
    /\ UNCHANGED <<manifest, state, link, dir, stage, settings, good, npm, fresh, kept, faults>>

Applying == {"backup", "stage", "switch", "publish", "generation", "record", "activate", "verify",
             "state", "commit"}

\* Any step of apply may fail, and the transaction is recovered at once.
Fails ==
    /\ pc \in Applying \/ (pc = "link" /\ at.by = "none")
    /\ Goes("mark", [Nothing EXCEPT !.tx = at.tx, !.by = "apply"])
    /\ UNCHANGED <<disk, faults>>

-----------------------------------------------------------------------------
(* recoverTransaction.                                                     *)

\* How a recovery ends: for apply and for a rollback, and for recoverPending,
\* which goes on with the next one.
AfterRecovery ==
    \/ at.by = "apply" /\ Done
    \/ at.by = "pending" /\ Goes("recover", [Nothing EXCEPT !.stack = at.stack, !.todo = at.todo])
    \/ at.by = "rollback" /\ Goes("next", [Nothing EXCEPT !.todo = at.todo])

\* A recovery that throws: apply asks for manual reconciliation, the others
\* leave the transaction as it is.
Throw ==
    /\ journal' = IF at.by = "apply" THEN Marked(at.tx, "MANUAL") ELSE journal
    /\ Done

Mark ==
    /\ pc = "mark"
    /\ IF manifest[at.tx].on
       THEN journal' = Marked(at.tx, "RECOVERING") /\ Goes("read", at)
       ELSE journal' = Marked(at.tx, "ROLLED_BACK") /\ AfterRecovery
    /\ UNCHANGED <<manifest, state, link, dir, stage, settings, good, npm, fresh, kept, faults>>

\* Mutant: what the user has changed since is overwritten.
RestoredWholly(m) == m.settings

\* restoreAuthorizedSettings: the targeted parts go back, the user's stay.
Restored(m) ==
    IF m.target /\ settings # m.published
    THEN [m.settings EXCEPT !.user = settings.user] ELSE m.settings

\* A targeted part is neither what was published nor what was there before.
TargetChanged(m) ==
    /\ m.target
    /\ \/ settings.packages \notin {m.published.packages, m.settings.packages}
       \/ settings.gen \notin {m.published.gen, m.settings.gen}

\* rollbackPiCommand and rollbackHarnessRoot.
HarnessAvailable(t) ==
    LET s == journal[t].stack
    IN  /\ IsThere(Leads("pi")) \/ stage[t] = "whole" \/ IsThere(s)
        /\ IsThere(s)

\* Mutant: the settings are restored before the harness has rolled back.
SettingsFirst(l) ==
    IF l = "read" THEN "settings" ELSE IF l = "settings" THEN "harness"
    ELSE IF l = "harness" THEN "links" ELSE IF l = "links" THEN "stack state"
    ELSE IF l = "stack state" THEN "tree" ELSE "unstage"

\* The order of the steps of a recovery.
After(l) ==
    IF l = "read" THEN "harness" ELSE IF l = "harness" THEN "links"
    ELSE IF l = "links" THEN "settings" ELSE IF l = "settings" THEN "stack state"
    ELSE IF l = "stack state" THEN "tree" ELSE "unstage"

\* The settings are read, and everything that can refuse the recovery is checked.
Read ==
    /\ pc = "read"
    /\ LET m == manifest[at.tx]
       IN  IF TargetChanged(m)
           THEN /\ journal' = Marked(at.tx, "MANUAL")
                /\ Done
           ELSE IF m.harness /\ ~HarnessAvailable(at.tx) THEN Throw
           ELSE Goes(After("read"), [at EXCEPT !.written = Restored(m)]) /\ UNCHANGED journal
    /\ UNCHANGED <<manifest, state, link, dir, stage, settings, good, npm, fresh, kept, faults>>

\* The harness rolls its own transaction back; a rollback of settings that do
\* not refer to its generation any more changes nothing.
HarnessRollback ==
    /\ pc = "harness"
    /\ LET m == manifest[at.tx]
           back == m.harness /\ settings.gen # m.settings.gen
       IN  /\ settings' = IF back THEN [settings EXCEPT !.gen = m.settings.gen] ELSE settings
           /\ good' = IF back THEN m.good ELSE good
    /\ Goes(After("harness"), at)
    /\ UNCHANGED <<journal, manifest, state, link, dir, stage, npm, fresh, kept, faults>>

HarnessFails ==
    /\ pc = "harness" /\ manifest[at.tx].harness /\ faults < MaxFaults
    /\ faults' = faults + 1
    /\ Throw
    /\ UNCHANGED <<manifest, state, link, dir, stage, settings, good, npm, fresh, kept>>

\* Mutant: the link to the last known good stack is left as it is.
RestoredShims == <<"omp", "pi", "current">>

RestoredLinks == <<"omp", "pi", "current", "lkg">>

RestoreLinks ==
    /\ pc = "links"
    /\ Goes("link", [at EXCEPT !.then = After("links"),
              !.links = [i \in DOMAIN RestoredLinks |->
                           Write(RestoredLinks[i], manifest[at.tx].link[RestoredLinks[i]])]])
    /\ UNCHANGED <<disk, faults>>

RestoreSettings ==
    /\ pc = "settings"
    /\ settings' = IF manifest[at.tx].untouched THEN settings ELSE at.written
    /\ Goes(After("settings"), [at EXCEPT !.written = Nothing.written])
    /\ UNCHANGED <<journal, manifest, state, link, dir, stage, good, npm, fresh, kept, faults>>

RestoreState ==
    /\ pc = "stack state"
    /\ state' = manifest[at.tx].state
    /\ Goes(After("stack state"), at)
    /\ UNCHANGED <<journal, manifest, link, dir, stage, settings, good, npm, fresh, kept, faults>>

\* The npm root is removed, and then what was moved aside is put back.
RestoreTree ==
    /\ pc = "tree"
    /\ IF ~manifest[at.tx].switch THEN Goes(After("tree"), at) /\ UNCHANGED <<npm, kept>>
       ELSE IF ~at.cut THEN npm' = None /\ Goes("tree", [at EXCEPT !.cut = TRUE]) /\ UNCHANGED kept
       ELSE /\ npm' = IF kept[at.tx] # None THEN kept[at.tx] ELSE npm
            /\ kept' = [kept EXCEPT ![at.tx] = None]
            /\ Goes(After("tree"), [at EXCEPT !.cut = FALSE])
    /\ UNCHANGED <<journal, manifest, state, link, dir, stage, settings, good, fresh, faults>>

\* Mutant: staged directories are left behind.
StagedStays(t) == stage

StagedRemoved(t) == [stage EXCEPT ![t] = "none"]

Unstage ==
    /\ pc = "unstage"
    /\ stage' = StagedRemoved(at.tx) /\ fresh' = fresh \ {at.tx}
    /\ Goes("drop", at)
    /\ UNCHANGED <<journal, manifest, state, link, dir, settings, good, npm, kept, faults>>

\* The stack's directory is removed, in several steps, unless it is current.
Drop ==
    /\ pc = "drop"
    /\ LET s == journal[at.tx].stack
       IN  IF Leads("current") = s \/ dir[s] = "none"
           THEN Goes("settle", at) /\ UNCHANGED dir
           ELSE /\ dir' = [dir EXCEPT ![s] = IF @ = "whole" THEN "partial" ELSE "none"]
                /\ Goes("drop", at)
    /\ UNCHANGED <<journal, manifest, state, link, stage, settings, good, npm, fresh, kept, faults>>

\* The manifest is not read again: it is forgotten here.
Settle ==
    /\ pc = "settle"
    /\ journal' = Marked(at.tx, "ROLLED_BACK")
    /\ manifest' = [manifest EXCEPT ![at.tx] = NoManifest]
    /\ AfterRecovery
    /\ UNCHANGED <<state, link, dir, stage, settings, good, npm, fresh, kept, faults>>

Recovering == pc \in {"read", "harness", "links", "settings", "stack state", "tree", "unstage",
                      "drop", "settle"} \/ (pc = "link" /\ at.by # "none")

-----------------------------------------------------------------------------
\* The user changes other settings, or a targeted package, though not while a
\* recovery is between its read of the settings and its write.
Edit ==
    /\ settings.user < MaxEdits /\ ~Recovering
    /\ \E p \in {settings.packages, "other"} :
          settings' = [settings EXCEPT !.user = @ + 1, !.packages = p]
    /\ UNCHANGED <<journal, manifest, state, link, dir, stage, good, npm, fresh, kept, pc, at, faults>>

Crash ==
    /\ pc # "idle" /\ faults < MaxFaults
    /\ faults' = faults + 1
    /\ Done
    /\ UNCHANGED disk

Apply ==
    \/ Begin \/ Backup \/ Stage \/ Switch \/ Publish \/ PublishGeneration \/ RecordPublished
    \/ Activate \/ WriteLink \/ Verify \/ RecordState \/ Commit \/ Fails

Recover ==
    \/ Mark \/ Read \/ HarnessRollback \/ HarnessFails \/ RestoreLinks \/ RestoreSettings
    \/ RestoreState \/ RestoreTree \/ Unstage \/ Drop \/ Settle

Next ==
    \/ \E s \in Stacks : Install(s)
    \/ \E n \in 1..Len(state.txs) : Lifecycle(n)
    \/ RecoverPending \/ NextRollback \/ Apply \/ Recover \/ Edit \/ Crash

Spec == Init /\ [][Next]_vars

-----------------------------------------------------------------------------
(* Properties.                                                             *)

\* Types, and what is staged or moved aside belongs to a transaction that is
\* not rolled back.
TypeOK ==
    /\ journal \in [Txs -> [status : {"none", "ACTIVE", "RECOVERING", "COMMITTED", "ROLLED_BACK",
                                      "MANUAL"}, stack : AnyStack]]
    /\ state.active \in AnyStack /\ state.lkg \in AnyStack
    /\ \A i \in DOMAIN state.txs : state.txs[i] \in Txs
    /\ link \in [Links -> AnyStack \union {Via}]
    /\ dir \in [Stacks -> {"none", "partial", "whole"}]
    /\ settings \in [packages : AnyStack \union {"other"}, gen : AnyStack, user : 0..MaxEdits]
    /\ good \in AnyStack /\ npm \in Trees \union {None, "release"}
    /\ faults \in 0..MaxFaults
    /\ \A t \in Txs : journal[t].status \in {"none", "COMMITTED", "ROLLED_BACK"} =>
          /\ stage[t] = "none" /\ t \notin fresh
          /\ journal[t].status # "COMMITTED" => kept[t] = None

\* No transaction was left for manual reconciliation.
NoneGivenUp == \A t \in Txs : journal[t].status # "MANUAL"

\* A transaction that ends as rolled back, by itself, after a crash or on
\* request, and however often its recovery was cut short, has undone itself:
\* links lead where they led, the recorded state, the targeted settings and the
\* npm root are those of before, its stack is gone, and so is the harness's
\* generation if the manifest knows of it.  The harness's record of the last good
\* generation is that of before unless a transaction was given up: one that was
\* given up can have put the settings' generation back by itself, and then the
\* harness has nothing to roll back.
RolledBackIsBaseline ==
    [][\A t \in Txs : journal[t].status = "RECOVERING" /\ journal'[t].status = "ROLLED_BACK" =>
             /\ \A l \in Links : Leads(l) = manifest[t].link[l]
             /\ state = manifest[t].state
             /\ npm = manifest[t].npm \/ ~manifest[t].switch
             /\ manifest[t].untouched \/ settings.packages = manifest[t].settings.packages
             /\ manifest[t].harness => settings.gen = manifest[t].settings.gen
             /\ manifest[t].harness /\ NoneGivenUp => good = manifest[t].good
             /\ dir[journal[t].stack] = "none"]_vars

\* What the user has changed since the settings were published is not lost by a
\* recovery that knows what was published.
LateEditsSurvive ==
    [][settings'.user < settings.user =>
          LET m == manifest[at.tx]
          IN  ~m.target \/ settings.user = m.published.user]_vars

\* When nothing is pending and nothing was given up, the recorded state is what
\* the links lead to, the active and the last known good stack are there, and
\* the recorded transactions can be rolled back.
InstalledIsCoherent ==
    pc = "idle" /\ Incomplete = {} /\ NoneGivenUp =>
        /\ \A l \in Links \ {"lkg"} : Leads(l) = state.active
        /\ link["lkg"] = state.lkg
        /\ state.active # None => Verified
        /\ state.lkg # None => IsThere(state.lkg)
        /\ \A i \in DOMAIN state.txs : journal[state.txs[i]].status = "COMMITTED"

\* A preexisting npm root with some of the packages is not lost: it is in its
\* place or moved aside for a transaction.
PreexistingRetained ==
    None \in Trees \/ npm \in Trees \/ \E t \in Txs : kept[t] \in Trees

-----------------------------------------------------------------------------
(***************************************************************************)
(* The inductive invariant.  Transactions are committed in their order and *)
(* undone in the reverse order, so that what a manifest refers to is there *)
(* as long as the manifest is: that is Baseline.  Annotation is what the   *)
(* command knows at each of its steps.  Coherent holds until a transaction *)
(* is given up.                                                            *)
(***************************************************************************)
Supplied == {"exact", "release"}     \* an npm root that needs no switch
Roots == Trees \union {None, "release"}
Settings == [packages : AnyStack \union {"other"}, gen : AnyStack, user : 0..MaxEdits]
States == [active : AnyStack, lkg : AnyStack, txs : Seq(Txs)]
Manifests == [on : {TRUE}, settings : Settings, state : States, link : [Links -> AnyStack],
              npm : Roots, good : AnyStack, switch : BOOLEAN, untouched : BOOLEAN,
              target : BOOLEAN, published : Settings, harness : BOOLEAN]
Journals == [status : {"none", "ACTIVE", "RECOVERING", "COMMITTED", "ROLLED_BACK", "MANUAL"},
             stack : AnyStack]
RecoverySteps == {"read", "harness", "links", "settings", "stack state", "tree", "unstage", "drop",
                  "settle"}
Labels == Applying \union RecoverySteps \union {"idle", "recover", "next", "begin", "link", "mark"}
Works == [stack : AnyStack, todo : Seq(Txs), tx : 0..MaxTx,
          by : {"none", "apply", "pending", "rollback"}, switch : BOOLEAN, new : BOOLEAN,
          links : Seq([name : Links, to : AnyStack \union {Via}]), cut : BOOLEAN,
          then : {"idle", "verify", "state", "settings"},
          written : Settings \union {Nothing.written}]

Typed ==
    /\ journal \in [Txs -> Journals] /\ manifest \in [Txs -> Manifests \union {NoManifest}]
    /\ state \in States /\ link \in [Links -> AnyStack \union {Via}]
    /\ link["current"] # Via /\ link["lkg"] # Via
    /\ dir \in [Stacks -> {"none", "partial", "whole"}] /\ stage \in [Txs -> {"none", "partial", "whole"}]
    /\ settings \in Settings /\ good \in AnyStack /\ npm \in Roots
    /\ fresh \subseteq Txs /\ kept \in [Txs -> Trees \union {None}]
    /\ pc \in Labels /\ at \in Works /\ faults \in 0..MaxFaults

Committed == {t \in Txs : journal[t].status = "COMMITTED"}
InApply == pc \in Applying \/ (pc = "link" /\ at.by = "none")

\* Numbers are used in their order, and none while a transaction is active; at
\* most one transaction is incomplete, and all that is committed is older.
InOrder ==
    /\ \A t, u \in Txs : t < u /\ journal[t].status \in {"none", "ACTIVE"} => journal[u].status = "none"
    /\ \A t \in Txs : /\ manifest[t].on => journal[t].status \notin {"none", "ROLLED_BACK"}
                      /\ ~manifest[t].on => journal[t].status \in {"none", "ROLLED_BACK", "ACTIVE"}
                      /\ manifest[t].on => journal[t].stack \in Stacks
    /\ \A t, u \in Incomplete : t = u
    /\ \A t \in Incomplete, u \in Committed : u < t

\* A list of transactions in their order that has all committed ones before t.
Lists(txs, t) ==
    /\ \A i, j \in DOMAIN txs : i < j => txs[i] < txs[j]
    /\ \A i \in DOMAIN txs : txs[i] < t
    /\ \A u \in Committed : u < t => \E i \in DOMAIN txs : txs[i] = u

\* The recorded transactions, and those still to be rolled back: newest first.
Listed ==
    /\ Lists(state.txs, MaxTx + 1)
    /\ \A i \in DOMAIN state.txs : journal[state.txs[i]].status # "none"
    /\ \A t \in Txs : manifest[t].on => Lists(manifest[t].state.txs, t)
    /\ \A i \in DOMAIN at.todo : \A u \in Committed : u > at.todo[i] =>
          \/ \E j \in DOMAIN at.todo : j < i /\ at.todo[j] = u
          \/ pc = "mark" /\ at.by = "rollback" /\ u = at.tx

\* The transactions whose manifest is still to be used.
Held == {t \in Txs : manifest[t].on /\ journal[t].status # "MANUAL"}

\* What a manifest says of itself.
Manifest(t) ==
    LET m == manifest[t]
    IN  /\ m.untouched <=> journal[t].stack \in Private
        /\ m.switch <=> ~m.untouched /\ m.npm \notin Supplied
        /\ m.harness => m.target
        /\ m.target => ~m.untouched
        /\ m.target => m.published.gen = IF m.harness THEN journal[t].stack ELSE m.settings.gen

\* A link leads to a whole stack, and so will a link that is restored: no
\* transaction that is undone earlier removes that stack.
Baseline ==
    /\ \A t \in Txs : manifest[t].on => Manifest(t)
    /\ \A l \in Links : link[l] \in Stacks => dir[link[l]] = "whole"
    /\ \A t \in Held, l \in Links : manifest[t].link[l] # None => dir[manifest[t].link[l]] = "whole"
    /\ \A t, u \in Held, l \in Links : t <= u => manifest[t].link[l] # journal[u].stack
    /\ \A t \in Held : manifest[t].npm \in Supplied => npm \in Supplied
    /\ \A t, u \in Held : t <= u /\ manifest[t].npm \in Supplied => manifest[u].npm \in Supplied

\* What is staged or moved aside belongs to a transaction.
Aside ==
    /\ \A t \in Txs : ~manifest[t].on \/ t \in Committed => stage[t] = "none" /\ t \notin fresh
    /\ \A t \in Txs : kept[t] # None => manifest[t].on /\ manifest[t].switch
    /\ "partial" \notin Trees => \A t \in Txs : kept[t] = None

\* Links that lead where they shall, and those that do or are still in the list.
Filled(to) == \A l \in DOMAIN to : link[l] = to[l]
Filling(to) ==
    /\ \A i \in DOMAIN at.links : at.links[i].name \in DOMAIN to /\ at.links[i].to = to[at.links[i].name]
    /\ \A l \in DOMAIN to : link[l] = to[l] \/ \E i \in DOMAIN at.links : at.links[i].name = l
Leading == [l \in Links \ {"lkg"} |-> IF l = "current" THEN at.stack ELSE Via]
LastGood == [l \in {"lkg"} |-> manifest[at.tx].link["current"]]

\* The generation that the settings refer to once t is committed.
Gen(t) == IF manifest[t].harness THEN journal[t].stack ELSE manifest[t].settings.gen

AtApply ==
    LET m == manifest[at.tx]
        published == ~(pc \in {"backup", "stage", "switch"})
    IN  /\ at.by = "none" /\ at.tx \in Txs /\ Incomplete = {at.tx} /\ at.stack \in Stacks
        /\ journal[at.tx] = [status |-> "ACTIVE", stack |-> at.stack]
        /\ m.on <=> pc # "backup"
        /\ pc = "backup" => \A i \in DOMAIN state.txs : state.txs[i] < at.tx
        /\ m.on => m.switch = at.switch
        /\ pc \in {"backup", "stage"} => (at.switch <=> at.stack \notin Private /\ npm \notin Supplied)
        /\ at.switch => at.stack \notin Private
        /\ pc = "switch" => IF at.switch THEN npm = None \/ npm \notin Supplied
                                        ELSE at.tx \notin fresh
        /\ published \/ ~at.switch => at.stack \in Private \/ npm \in Supplied
        /\ published \/ pc = "stage" => at.tx \notin fresh
        /\ pc \in {"stage", "switch", "publish", "generation", "record"} => ~m.target
        /\ pc \notin {"backup", "record"} => settings.gen = Gen(at.tx)
        /\ pc \in {"generation", "record"} => at.stack \notin Private
        /\ pc = "record" => at.written \in Settings /\ settings.gen = at.written.gen
                            /\ at.written.gen = IF at.new THEN at.stack ELSE m.settings.gen
        /\ pc \in {"link", "verify", "state", "commit"} => stage[at.tx] = "none" /\ dir[at.stack] = "whole"
        /\ pc = "link" => at.then \in {"verify", "state"}
        /\ pc = "link" /\ at.then = "verify" => Filling(Leading)
        /\ pc = "link" /\ at.then = "state" => Filled(Leading) /\ Filling(LastGood)
        /\ pc = "verify" => Filled(Leading)
        /\ pc \in {"state", "commit"} => Filled(Leading) /\ Filled(LastGood)
        /\ pc = "commit" => /\ state.active = at.stack /\ state.lkg = m.state.active
                            /\ state.txs = Append(m.state.txs, at.tx)

AtMark ==
    /\ at.tx \in Txs /\ at.by # "none"
    /\ IF at.by = "rollback"
       THEN Incomplete = {} /\ at.tx \in Committed /\ \A u \in Committed : u <= at.tx
       ELSE Incomplete = {at.tx}

AtRecovery ==
    LET m == manifest[at.tx]
    IN  /\ at.by # "none" /\ at.tx \in Txs /\ Incomplete = {at.tx}
        /\ journal[at.tx].status = "RECOVERING" /\ m.on
        /\ pc \notin {"read", "harness"} /\ m.harness => settings.gen = m.settings.gen
        /\ pc \in {"harness", "links", "link", "settings"} =>
              /\ at.written \in Settings
              /\ at.written.packages = m.settings.packages /\ at.written.gen = m.settings.gen
              /\ m.target => at.written.user = settings.user \/ settings.user = m.published.user
        /\ pc = "link" => at.then = "settings" /\ Filling(m.link)
        /\ pc \notin {"read", "harness", "links", "link"} => Filled(m.link)
        /\ pc \in {"stack state", "tree", "unstage", "drop", "settle"} =>
              \/ m.untouched
              \/ settings.packages = m.settings.packages /\ settings.gen = m.settings.gen
        /\ pc \in {"tree", "unstage", "drop", "settle"} => state = m.state
        /\ pc = "tree" /\ at.cut => m.switch /\ npm = None
        /\ pc \in {"unstage", "drop", "settle"} =>
              /\ kept[at.tx] = None
              /\ "partial" \notin Trees => ~m.switch \/ npm = m.npm
        /\ pc \in {"drop", "settle"} => stage[at.tx] = "none" /\ at.tx \notin fresh
        /\ pc = "settle" => dir[journal[at.tx].stack] = "none"

Annotation ==
    /\ at.cut => pc = "tree" \/ (pc = "link" /\ at.links # <<>>)
    /\ pc \in {"recover", "begin"} => at.by = "none"
    /\ pc \in {"begin", "next"} => Incomplete = {}
    /\ pc = "begin" => at.stack \in Stacks
                       /\ (at.switch <=> at.stack \notin Private /\ npm \notin Supplied)
    /\ InApply => AtApply
    /\ pc = "mark" => AtMark
    /\ Recovering => AtRecovery

\* Nothing that has a manifest is incomplete.
Resting == \A t \in Incomplete : ~manifest[t].on

\* What InstalledIsCoherent says, of the present and of what each manifest
\* restores.
CoherentLinks ==
    /\ \A t \in Held :
          LET m == manifest[t]
          IN  /\ \A l \in Links \ {"lkg"} : m.link[l] = m.state.active
              /\ m.link["lkg"] = m.state.lkg
              /\ m.state.active \in Stacks \ Private => m.npm \in Supplied
              /\ \A i \in DOMAIN m.state.txs : m.state.txs[i] \in Committed
    /\ Resting =>
          /\ \A l \in Links \ {"lkg"} : Leads(l) = state.active
          /\ link["lkg"] = state.lkg
          /\ state.active \in Stacks \ Private => npm \in Supplied
          /\ \A i \in DOMAIN state.txs : state.txs[i] \in Committed

\* The generation of the settings: that of the last committed transaction, whose
\* stack is there; what the harness has rolled back is rolled back wholly.
CoherentGens ==
    /\ \A t \in Held : manifest[t].settings.gen # None => dir[manifest[t].settings.gen] = "whole"
    /\ \A t, u \in Held : t <= u => manifest[t].settings.gen # journal[u].stack
    /\ \A t \in Committed, u \in Held :
          t < u /\ (\A v \in Committed : v <= t \/ v >= u) => manifest[u].settings.gen = Gen(t)
    /\ Resting =>
          /\ settings.gen # None => dir[settings.gen] = "whole"
          /\ \A t \in Committed : (\A v \in Committed : v <= t) => settings.gen = Gen(t)
    /\ \A t \in Incomplete : manifest[t].on =>
          /\ manifest[t].untouched => settings.gen = manifest[t].settings.gen
          /\ manifest[t].harness /\ settings.gen = manifest[t].settings.gen => good = manifest[t].good

StackInv ==
    /\ Typed /\ InOrder /\ Listed /\ Baseline /\ Aside /\ Annotation
    /\ NoneGivenUp => CoherentLinks /\ CoherentGens
=============================================================================
