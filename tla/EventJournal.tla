---------------------------- MODULE EventJournal ----------------------------
(***************************************************************************)
(* The run-scoped event journal of packages/subagents/state: a lock file   *)
(* that serialises operations, a lease file whose fencing token names the  *)
(* current writer, the append-only file of events and its snapshot.        *)
(*                                                                         *)
(* A thread is one asynchronous call chain of an operating-system process; *)
(* every await of the code that another thread can run across is a step.   *)
(* All of a process's threads die with it.                                 *)
(***************************************************************************)
EXTENDS EventRules, Integers, FiniteSets

CONSTANTS
    Procs,      \* processes that may write this run
    Threads,    \* asynchronous calls the processes can have in flight
    ProcOf,     \* the process a thread runs in
    Writers,    \* writer ids
    WriterOf,   \* the writerId a process passes to acquireWriterLease
    Inputs,     \* the events producers submit (see InputsAssumption)
    MaxToken,   \* bound: fencing tokens issued
    MaxSeq,     \* bound: journal length
    NoLock, NoInput

Ops == {"none", "acquire", "renew", "release", "recover", "append", "snapshot"}

ASSUME ThreadsAssumption == ProcOf \in [Threads -> Procs]
ASSUME WritersAssumption == Writers # {} /\ WriterOf \in [Procs -> Writers]
ASSUME BoundsAssumption  == MaxToken \in Nat /\ MaxSeq \in Nat
ASSUME InputsAssumption  ==
    \A e \in Inputs : DOMAIN e = {"eventId", "digest", "type", "node", "attempt"}

(***************************************************************************)
(* Blank is the token of a lock file that open("wx") has made visible and  *)
(* whose metadata has not been written yet.                                *)
(***************************************************************************)
Blank == -1

VARIABLES
    lock,       \* .state-operation.lock
    lease,      \* writer-lease.json; expired is the clock against expiresAt
    events,     \* events.jsonl, the complete records
    tail,       \* how the file ends
    snapshot,   \* snapshot.json: its anchor (lastAppliedSeq) and its state, known
                \* by the head from which the caller reduced it
    live,       \* the processes that run
    held,       \* the fencing token of the lease object a process owns, or 0
    pc,         \* where a thread's call is
    op,         \* the operation of the call
    ident,      \* the fencing token the call presents (0 while acquiring)
    input,      \* the event of an append
    base,       \* the lease the call has read, before it writes it back
    readSeq,    \* lastSeq as recoverUnsafe returned it to the call
    expected    \* expectedSeq, the caller's compare-and-swap base

files   == <<lock, lease, events, tail, snapshot>>
procs   == <<live, held>>
locals  == <<op, ident, input, base, readSeq>>   \* of a call, beside pc
calls   == <<pc, locals, expected>>
vars    == <<files, procs, calls>>

Statuses == {"absent", "active", "released"}
Leases   == [status : Statuses, writer : Writers, token : Nat,
             expired : BOOLEAN]
Locks    == [owner : Threads, token : Nat \union {Blank}]
Records  == [seq : Nat, token : Nat, event : Inputs]
Steps    == {"idle", "lock", "unlink", "publish", "enter",
             "read", "write", "unlock"}
Tails    == {"clean", "partial", "unterminated", "corrupt"}

TypeOK ==
    /\ lock \in Locks \union {NoLock}
    /\ lease \in Leases
    /\ events \in Seq(Records)
    /\ tail \in Tails
    /\ snapshot \in [anchor : Nat, state : Nat]
    /\ live \in [Procs -> BOOLEAN]
    /\ held \in [Procs -> Nat]
    /\ pc \in [Threads -> Steps]
    /\ op \in [Threads -> Ops]
    /\ ident \in [Threads -> Nat]
    /\ input \in [Threads -> Inputs \union {NoInput}]
    /\ \A t \in Threads : op[t] = "append" => input[t] \in Inputs
    /\ base \in [Threads -> Leases]
    /\ readSeq \in [Threads -> Nat]
    /\ expected \in [Threads -> Nat]

ASSUME NoLockAssumption == NoLock \notin Locks

NoLease == [status |-> "absent", writer |-> CHOOSE w \in Writers : TRUE,
            token |-> 0, expired |-> FALSE]

Init ==
    /\ lock = NoLock
    /\ lease = NoLease
    /\ events = <<>>
    /\ tail = "clean"
    /\ snapshot = [anchor |-> 0, state |-> 0]
    /\ live = [p \in Procs |-> TRUE]
    /\ held = [p \in Procs |-> 0]
    /\ pc = [t \in Threads |-> "idle"]
    /\ op = [t \in Threads |-> "none"]
    /\ ident = [t \in Threads |-> 0]
    /\ input = [t \in Threads |-> NoInput]
    /\ base = [t \in Threads |-> NoLease]
    /\ readSeq = [t \in Threads |-> 0]
    /\ expected = [t \in Threads |-> 0]

Runs(t)   == live[ProcOf[t]]
Active(t) == Runs(t) /\ pc[t] # "idle"
Goto(t, step) == pc' = [pc EXCEPT ![t] = step]

(***************************************************************************)
(* proveWriterDead of the node executor is outside this package: an honest *)
(* proof, which holds when no running process can still present the token. *)
(***************************************************************************)
ProveWriterDead(token) ==
    /\ \A p \in Procs : live[p] => held[p] # token
    /\ \A t \in Threads : Active(t) => ident[t] # token

-----------------------------------------------------------------------------
(***************************************************************************)
(* recoverUnsafe accepts a journal when every record follows the one       *)
(* before it.  The hash chain is ideal: in a chained log the sequence      *)
(* number of the head determines its digest.                               *)
(***************************************************************************)
Contiguous(log) == \A i \in 1..Len(log) : log[i].seq = i
Recoverable == Contiguous(events) /\ tail # "corrupt"

-----------------------------------------------------------------------------
(* Calls.                                                                  *)

BeginCall(t, o, token, e) ==
    /\ Runs(t) /\ pc[t] = "idle"
    /\ Goto(t, "lock")
    /\ op' = [op EXCEPT ![t] = o]
    /\ ident' = [ident EXCEPT ![t] = token]
    /\ input' = [input EXCEPT ![t] = e]
    /\ UNCHANGED <<files, procs, base, readSeq, expected>>

\* The call returns or throws, and its local state goes with it.
Return(t) ==
    /\ Goto(t, "idle")
    /\ op' = [op EXCEPT ![t] = "none"]
    /\ ident' = [ident EXCEPT ![t] = 0]
    /\ input' = [input EXCEPT ![t] = NoInput]
    /\ base' = [base EXCEPT ![t] = NoLease]
    /\ readSeq' = [readSeq EXCEPT ![t] = 0]

CallAcquire(t) ==
    /\ held[ProcOf[t]] = 0 /\ lease.token < MaxToken
    /\ BeginCall(t, "acquire", 0, NoInput)

CallWithLease(t) ==
    /\ held[ProcOf[t]] # 0
    /\ \E o \in {"renew", "release", "recover", "snapshot"} :
           BeginCall(t, o, held[ProcOf[t]], NoInput)

CallAppend(t) ==
    /\ held[ProcOf[t]] # 0 /\ Len(events) < MaxSeq
    /\ \E e \in Inputs : BeginCall(t, "append", held[ProcOf[t]], e)

(***************************************************************************)
(* When Spec lets an acquisition start: nobody owns the run, and no call   *)
(* of an earlier owner is in flight any more.  ContendedSpec drops this.   *)
(***************************************************************************)
Quiet(t) ==
    /\ \A p \in Procs : live[p] => held[p] = 0
    /\ \A u \in Threads \ {t} : ~Active(u)

-----------------------------------------------------------------------------
(* createLock and withLock.                                                *)

CreateLock(t) ==
    /\ Runs(t) /\ pc[t] = "lock" /\ lock = NoLock
    /\ lock' = [owner |-> t, token |-> Blank]
    /\ Goto(t, "publish")
    /\ UNCHANGED <<lease, events, tail, snapshot, procs, locals, expected>>

\* The metadata goes to the file the call opened, which may have lost its name.
PublishLock(t) ==
    /\ Runs(t) /\ pc[t] = "publish"
    /\ lock' = IF lock # NoLock /\ lock.owner = t
               THEN [owner |-> t, token |-> ident[t]] ELSE lock
    /\ Goto(t, "enter")
    /\ UNCHANGED <<lease, events, tail, snapshot, procs, locals, expected>>

(***************************************************************************)
(* The two staleLockRecovery callbacks: an acquisition removes the lock of *)
(* the expired lease once its writer is proved dead; a lease holder        *)
(* removes the lock of any smaller token.  A blank lock is contended.      *)
(***************************************************************************)
\* Mutant: a lock of the holder's own token counts as older.
StaleLockOffByOne(t) ==
    /\ lock.token # Blank
    /\ IF op[t] = "acquire"
       THEN /\ lease.status = "active" /\ lease.expired
            /\ lock.token = lease.token
            /\ ProveWriterDead(lease.token)
       ELSE lock.token <= ident[t]

\* Mutant: the lock of a dead writer is never recovered.
StaleLockNever(t) == FALSE

StaleLock(t) ==
    /\ lock.token # Blank
    /\ IF op[t] = "acquire"
       THEN /\ lease.status = "active" /\ lease.expired
            /\ lock.token = lease.token
            /\ ProveWriterDead(lease.token)
       ELSE lock.token < ident[t]

JudgeLock(t) ==
    /\ Runs(t) /\ pc[t] = "lock" /\ lock # NoLock /\ StaleLock(t)
    /\ Goto(t, "unlink")
    /\ UNCHANGED <<files, procs, locals, expected>>

\* It unlinks the path, which may name another lock by now.
UnlinkLock(t) ==
    /\ Runs(t) /\ pc[t] = "unlink"
    /\ lock' = NoLock
    /\ Goto(t, "lock")
    /\ UNCHANGED <<lease, events, tail, snapshot, procs, locals, expected>>

\* The bounded retries end with STATE_LOCK_BUSY.
LockBusy(t) ==
    /\ Runs(t) /\ pc[t] = "lock" /\ lock # NoLock /\ ~StaleLock(t)
    /\ Return(t)
    /\ UNCHANGED <<files, procs, expected>>

(***************************************************************************)
(* The finally of withLock: it unlinks the path, whoever made the lock.    *)
(* The caller of an acquisition then owns the lease it was given, and the  *)
(* caller of a release has given its own up.                               *)
(***************************************************************************)
Unlock(t) ==
    /\ Runs(t) /\ pc[t] = "unlock"
    /\ lock' = NoLock
    /\ held' = [held EXCEPT ![ProcOf[t]] =
                    CASE op[t] = "acquire" -> ident[t]
                      [] op[t] = "release" -> 0
                      [] OTHER -> @]
    /\ Return(t)
    /\ UNCHANGED <<lease, events, tail, snapshot, live, expected>>

-----------------------------------------------------------------------------
(* acquireWriterLease inside the lock.                                     *)

EnterAcquire(t) ==
    LET holds   == lease.status = "active" /\ ~lease.expired
        mine    == holds /\ lease.writer = WriterOf[ProcOf[t]]
        blocked == \/ holds /\ ~mine
                   \/ /\ lease.status = "active" /\ lease.expired
                      /\ ~ProveWriterDead(lease.token)
    IN  /\ Runs(t) /\ pc[t] = "enter" /\ op[t] = "acquire"
        /\ ident' = [ident EXCEPT ![t] = IF mine THEN lease.token ELSE 0]
        /\ base' = [base EXCEPT ![t] = lease]
        /\ Goto(t, IF mine \/ blocked THEN "unlock" ELSE "write")
        /\ UNCHANGED <<files, procs, op, input, readSeq, expected>>

\* Mutant: the token counts down.
FallingToken(old) == old.token - 1

NextToken(old) == old.token + 1

WriteAcquire(t) ==
    /\ Runs(t) /\ pc[t] = "write" /\ op[t] = "acquire"
    /\ base[t].token < MaxToken
    /\ lease' = [status |-> "active", writer |-> WriterOf[ProcOf[t]],
                 token |-> NextToken(base[t]), expired |-> FALSE]
    /\ ident' = [ident EXCEPT ![t] = NextToken(base[t])]
    /\ Goto(t, "unlock")
    /\ UNCHANGED <<lock, events, tail, snapshot, procs, op, input, base,
                   readSeq, expected>>

(* Every other operation first checks the lease: assertCurrentLeaseUnsafe. *)

\* Mutant: a released lease still counts.
CurrentLeaseAfterRelease(t) ==
    /\ ~lease.expired
    /\ lease.writer = WriterOf[ProcOf[t]]
    /\ lease.token = ident[t]

CurrentLease(t) ==
    /\ lease.status = "active" /\ ~lease.expired
    /\ lease.writer = WriterOf[ProcOf[t]]
    /\ lease.token = ident[t]

EnterWithLease(t) ==
    /\ Runs(t) /\ pc[t] = "enter" /\ op[t] # "acquire"
    /\ base' = [base EXCEPT ![t] = lease]
    /\ \/ ~CurrentLease(t) /\ Goto(t, "unlock")
       \/ /\ CurrentLease(t) /\ op[t] \in {"renew", "release"}
          /\ Goto(t, "write")
       \/ /\ CurrentLease(t) /\ op[t] \notin {"renew", "release"}
          /\ Goto(t, "read")
    /\ UNCHANGED <<files, procs, op, ident, input, readSeq, expected>>

WriteRenew(t) ==
    /\ Runs(t) /\ pc[t] = "write" /\ op[t] = "renew"
    /\ lease' = [base[t] EXCEPT !.expired = FALSE]
    /\ Goto(t, "unlock")
    /\ UNCHANGED <<lock, events, tail, snapshot, procs, locals, expected>>

WriteRelease(t) ==
    /\ Runs(t) /\ pc[t] = "write" /\ op[t] = "release"
    /\ lease' = [base[t] EXCEPT !.status = "released"]
    /\ Goto(t, "unlock")
    /\ UNCHANGED <<lock, events, tail, snapshot, procs, locals, expected>>

-----------------------------------------------------------------------------
(***************************************************************************)
(* recoverUnsafe with repair: an incomplete last record is truncated, a    *)
(* complete one gets its terminator, and a broken chain fails the call.    *)
(***************************************************************************)
\* Mutant: the damaged tail stays in the file.
KeepTail == UNCHANGED tail

RepairTail == tail' = IF Recoverable THEN "clean" ELSE tail

\* Mutant: neither append nor publishSnapshot compares the expected head.
WritesUnchecked(t) ==
    /\ Recoverable
    /\ CASE op[t] = "append"   -> NewEvent(events, input[t])
         [] op[t] = "snapshot" -> TRUE
         [] OTHER -> FALSE

\* What the call does after recovery: write, or return without writing.
Writes(t) ==
    /\ Recoverable
    /\ CASE op[t] = "append"   -> /\ NewEvent(events, input[t])
                                  /\ expected[t] = Len(events)
         [] op[t] = "snapshot" -> expected[t] = Len(events)
         [] OTHER -> FALSE

ReadJournal(t) ==
    /\ Runs(t) /\ pc[t] = "read"
    /\ RepairTail
    /\ readSeq' = [readSeq EXCEPT ![t] = Len(events)]
    /\ expected' = [expected EXCEPT ![t] =
                        IF op[t] = "recover" /\ Recoverable
                        THEN Len(events) ELSE @]
    /\ Goto(t, IF Writes(t) THEN "write" ELSE "unlock")
    /\ UNCHANGED <<lock, lease, events, snapshot, procs, op, ident, input,
                   base>>

NextRecord(t) == [seq |-> readSeq[t] + 1, token |-> ident[t], event |-> input[t]]

WriteAppend(t) ==
    /\ Runs(t) /\ pc[t] = "write" /\ op[t] = "append"
    /\ readSeq[t] < MaxSeq
    /\ events' = Append(events, NextRecord(t))
    /\ tail' = IF tail = "clean" THEN "clean" ELSE "corrupt"
    /\ Goto(t, "unlock")
    /\ UNCHANGED <<lock, lease, snapshot, procs, locals, expected>>

WriteSnapshot(t) ==
    /\ Runs(t) /\ pc[t] = "write" /\ op[t] = "snapshot"
    /\ snapshot' = [anchor |-> readSeq[t], state |-> expected[t]]
    /\ Goto(t, "unlock")
    /\ UNCHANGED <<lock, lease, events, tail, procs, locals, expected>>

-----------------------------------------------------------------------------
(* The environment.                                                        *)

Expire ==
    /\ lease.status = "active" /\ ~lease.expired
    /\ lease' = [lease EXCEPT !.expired = TRUE]
    /\ UNCHANGED <<lock, events, tail, snapshot, procs, calls>>

(***************************************************************************)
(* A process dies between any two steps.  If it dies while it appends, the *)
(* line may be missing, cut short, or whole but unterminated.  Files and   *)
(* the lock stay; everything in memory is lost.                            *)
(***************************************************************************)
Forget(p, f, value) == [t \in Threads |-> IF ProcOf[t] = p THEN value ELSE f[t]]

Crash(p) ==
    /\ live[p]
    /\ live' = [live EXCEPT ![p] = FALSE]
    /\ \/ UNCHANGED <<events, tail>>
       \/ \E t \in Threads :
             /\ ProcOf[t] = p /\ pc[t] = "write" /\ op[t] = "append"
             /\ tail = "clean" /\ readSeq[t] < MaxSeq
             /\ \/ tail' = "partial" /\ UNCHANGED events
                \/ /\ tail' = "unterminated"
                   /\ events' = Append(events, NextRecord(t))
    /\ held' = [held EXCEPT ![p] = 0]
    /\ pc' = Forget(p, pc, "idle")
    /\ op' = Forget(p, op, "none")
    /\ ident' = Forget(p, ident, 0)
    /\ input' = Forget(p, input, NoInput)
    /\ base' = Forget(p, base, NoLease)
    /\ readSeq' = Forget(p, readSeq, 0)
    /\ expected' = Forget(p, expected, 0)
    /\ UNCHANGED <<lock, lease, snapshot>>

LockStep(t) ==
    \/ CreateLock(t) \/ PublishLock(t) \/ JudgeLock(t) \/ UnlinkLock(t)
    \/ LockBusy(t) \/ Unlock(t)

InsideStep(t) ==
    \/ EnterAcquire(t) \/ WriteAcquire(t)
    \/ EnterWithLease(t) \/ WriteRenew(t) \/ WriteRelease(t)
    \/ ReadJournal(t) \/ WriteAppend(t) \/ WriteSnapshot(t)

System ==
    \/ \E t \in Threads :
           CallWithLease(t) \/ CallAppend(t) \/ LockStep(t) \/ InsideStep(t)
    \/ Expire
    \/ \E p \in Procs : Crash(p)

Next == System \/ \E t \in Threads : Quiet(t) /\ CallAcquire(t)
Spec == Init /\ [][Next]_vars

(***************************************************************************)
(* A second coordinator, or a second execute() of the same one, asks for   *)
(* the lease whenever it likes.                                            *)
(***************************************************************************)
ContendedNext == System \/ \E t \in Threads : CallAcquire(t)
ContendedSpec == Init /\ [][ContendedNext]_vars

-----------------------------------------------------------------------------
InsideLock(t) ==
    Runs(t) /\ pc[t] \in {"publish", "enter", "read", "write", "unlock"}

\* withLock serialises: never two running calls inside it.
MutualExclusion ==
    \A t, u \in Threads : InsideLock(t) /\ InsideLock(u) => t = u

\* recoverUnsafe accepts the journal: the chain is contiguous from 1 and no
\* record was written behind a damaged tail.
JournalRecoverable == Recoverable

\* Event ids are unique, so recoverUnsafe never meets
\* DUPLICATE_EVENT_ID_IN_JOURNAL.
UniqueEventIds ==
    \A i, j \in 1..Len(events) :
        events[i].event.eventId = events[j].event.eventId => i = j

\* A fenced writer never appends behind a newer one.
Fenced ==
    \A i, j \in 1..Len(events) : i <= j => events[i].token <= events[j].token

\* Nothing follows a root terminal, and nothing of an attempt or of a node
\* follows what settled it.
TerminalsAreFinal ==
    \A i, j \in 1..Len(events) :
        i < j => ~Closes(events[i].event, events[j].event)

\* A published snapshot holds the reduction of exactly the events up to its
\* anchor, and the anchor is in the journal.
SnapshotMatchesAnchor ==
    snapshot.state = snapshot.anchor /\ snapshot.anchor <= Len(events)

\* A lease that changes hands, or comes back after its release, has a new
\* token; the token of a renewed or released lease stays.
HandOver ==
    IF lease'.status = "active"
       /\ (lease.status # "active" \/ lease'.writer # lease.writer)
    THEN lease'.token > lease.token
    ELSE lease'.token >= lease.token

NewOwnerNewToken == [][HandOver]_lease

(***************************************************************************)
(* The journal implements the fenced log: acquiring opens an epoch,        *)
(* releasing closes it, and a record is committed when its line is whole.  *)
(***************************************************************************)
Log == INSTANCE FencedLog WITH log   <- events,
                               epoch <- lease.token,
                               open  <- lease.status = "active"

\* Every step of the lock, lease and journal files is a step of one log
\* extended by one writer at a time, or leaves it alone.
ImplementsFencedLog == Log!LogSpec

(***************************************************************************)
(* Why Spec keeps its promises: what is true between any two of its steps. *)
(***************************************************************************)
\* A call inside the lock owns the lock file, under its own token.
OwnsLock ==
    \A t \in Threads : InsideLock(t) =>
        /\ lock # NoLock /\ lock.owner = t
        /\ op[t] # "acquire" => lock.token = Blank \/ lock.token = ident[t]

\* Calls in flight together are calls of one owner, and none acquires.
Company ==
    \A t, u \in Threads : t # u /\ Active(t) /\ Active(u) =>
        /\ ProcOf[t] = ProcOf[u] /\ ident[t] = ident[u]
        /\ op[t] # "acquire"

\* While a running process holds a lease every call in flight uses it.
HolderCalls ==
    \A p \in Procs : live[p] /\ held[p] # 0 =>
        /\ \A q \in Procs : live[q] /\ held[q] # 0 => p = q
        /\ \A t \in Threads : Active(t) =>
               ProcOf[t] = p /\ ident[t] = held[p] /\ op[t] # "acquire"

\* No lock of a dead call is in the way of an owner.
LiveLock ==
    (\/ \E p \in Procs : live[p] /\ held[p] # 0
     \/ \E t \in Threads : Active(t) /\ op[t] # "acquire")
    => lock = NoLock \/ InsideLock(lock.owner)

\* Only an acquisition removes a lock as stale.
OnlyAcquireUnlinks ==
    \A t \in Threads : Runs(t) /\ pc[t] = "unlink" => op[t] = "acquire"

\* What a call has read of the files is still what they hold.
Fresh(t) ==
    /\ Runs(t) /\ pc[t] \in {"read", "write"} => base[t].token = lease.token
    /\ Runs(t) /\ pc[t] \in {"read", "write"} /\ op[t] # "acquire" =>
          /\ lease.status = "active" /\ lease.token = ident[t]
          /\ base[t].status = "active" /\ base[t].writer = lease.writer
    /\ Runs(t) /\ pc[t] = "write" /\ op[t] = "append" =>
          /\ readSeq[t] = Len(events) /\ tail = "clean"
          /\ NewEvent(events, input[t])
    /\ Runs(t) /\ pc[t] = "write" /\ op[t] = "snapshot" =>
          readSeq[t] = Len(events) /\ expected[t] = Len(events)

FreshReads == \A t \in Threads : Fresh(t)

TokensIssued == \A i \in 1..Len(events) : events[i].token <= lease.token

\* The inductive invariant of Spec.
LockInv ==
    OwnsLock /\ Company /\ HolderCalls /\ LiveLock /\ OnlyAcquireUnlinks

JournalInv ==
    /\ TypeOK /\ LockInv /\ FreshReads
    /\ JournalRecoverable /\ TokensIssued /\ Fenced
    /\ UniqueEventIds /\ TerminalsAreFinal /\ SnapshotMatchesAnchor

(***************************************************************************)
(* Liveness.  A call that has begun goes on while its process runs, time   *)
(* passes, and a process that lives keeps asking for a free lease.         *)
(***************************************************************************)
Fairness ==
    /\ \A t \in Threads : /\ WF_vars(LockStep(t) \/ InsideStep(t))
                          /\ WF_vars(Quiet(t) /\ CallAcquire(t))
    /\ WF_vars(Expire)

FairSpec == Spec /\ Fairness

DeadWritersLock ==
    /\ lock # NoLock /\ ~Runs(lock.owner)
    /\ lease.status = "active" /\ lock.token = lease.token

\* The lock that a dead writer left under its own token does not block the
\* run: while some process lives and tokens are left, it is recovered.
DeadWritersLockRecovered ==
    DeadWritersLock ~> \/ lock = NoLock \/ Runs(lock.owner)
                       \/ \A p \in Procs : ~live[p]
                       \/ lease.token = MaxToken
=============================================================================
