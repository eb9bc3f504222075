------------------------- MODULE EventJournalProofs -------------------------
(* Proofs about EventJournal, for every number of processes and calls.     *)
EXTENDS EventJournal, TLAPS

USE DEF Runs, Goto

LEMMA NoLeaseType == NoLease \in Leases
BY WritersAssumption DEF NoLease, Leases, Statuses

LEMMA TypeInit == Init => TypeOK
BY NoLeaseType DEF Init, TypeOK, Steps, Ops, Tails

LEMMA TypeStep == TypeOK /\ [Next]_vars => TypeOK'
<1> SUFFICES ASSUME TypeOK, [Next]_vars PROVE TypeOK'
    OBVIOUS
<1> USE NoLeaseType, ThreadsAssumption, WritersAssumption
<1> USE DEF TypeOK, Steps, Ops, Tails
<1>1. ASSUME NEW t \in Threads, CallAcquire(t) PROVE TypeOK'
    BY <1>1 DEF CallAcquire, BeginCall, files, procs
<1>2. ASSUME NEW t \in Threads, CallWithLease(t) PROVE TypeOK'
    BY <1>2 DEF CallWithLease, BeginCall, files, procs
<1>3. ASSUME NEW t \in Threads, CallAppend(t) PROVE TypeOK'
    BY <1>3 DEF CallAppend, BeginCall, files, procs
<1>4. ASSUME NEW t \in Threads, CreateLock(t) PROVE TypeOK'
    BY <1>4 DEF CreateLock, procs, locals, Locks
<1>5. ASSUME NEW t \in Threads, PublishLock(t) PROVE TypeOK'
    BY <1>5 DEF PublishLock, procs, locals, Locks
<1>6. ASSUME NEW t \in Threads, JudgeLock(t) PROVE TypeOK'
    BY <1>6 DEF JudgeLock, files, procs, locals
<1>7. ASSUME NEW t \in Threads, UnlinkLock(t) PROVE TypeOK'
    BY <1>7 DEF UnlinkLock, procs, locals
<1>8. ASSUME NEW t \in Threads, LockBusy(t) PROVE TypeOK'
    BY <1>8 DEF LockBusy, Return, files, procs
<1>9. ASSUME NEW t \in Threads, Unlock(t) PROVE TypeOK'
    BY <1>9 DEF Unlock, Return
<1>10. ASSUME NEW t \in Threads, EnterAcquire(t) PROVE TypeOK'
    BY <1>10 DEF EnterAcquire, files, procs, Leases
<1>11. ASSUME NEW t \in Threads, WriteAcquire(t) PROVE TypeOK'
    BY <1>11, SMTT(30) DEF WriteAcquire, NextToken, procs, Leases, Statuses
<1>12. ASSUME NEW t \in Threads, EnterWithLease(t) PROVE TypeOK'
    BY <1>12 DEF EnterWithLease, files, procs
<1>13. ASSUME NEW t \in Threads, WriteRenew(t) PROVE TypeOK'
    BY <1>13 DEF WriteRenew, procs, locals, Leases
<1>14. ASSUME NEW t \in Threads, WriteRelease(t) PROVE TypeOK'
    BY <1>14 DEF WriteRelease, procs, locals, Leases, Statuses
<1>15. ASSUME NEW t \in Threads, ReadJournal(t) PROVE TypeOK'
    BY <1>15 DEF ReadJournal, RepairTail, procs
<1>16. ASSUME NEW t \in Threads, NextRecord(t) \in Records,
              events' = Append(events, NextRecord(t))
       PROVE events' \in Seq(Records)
    BY <1>16
<1>17. ASSUME NEW t \in Threads, op[t] = "append" PROVE NextRecord(t) \in Records
    BY <1>17 DEF NextRecord, Records
<1>18. ASSUME NEW t \in Threads, WriteAppend(t) PROVE TypeOK'
    <2>1. events' \in Seq(Records)
        BY <1>16, <1>17, <1>18 DEF WriteAppend
    <2> QED BY <2>1, <1>18 DEF WriteAppend, procs, locals
<1>19. ASSUME NEW t \in Threads, WriteSnapshot(t) PROVE TypeOK'
    BY <1>19 DEF WriteSnapshot, procs, locals
<1>20. CASE Expire
    BY <1>20 DEF Expire, procs, calls, locals, Leases
<1>21. ASSUME NEW p \in Procs, Crash(p) PROVE TypeOK'
    <2>1. events' \in Seq(Records) /\ tail' \in Tails
        BY <1>16, <1>17, <1>21 DEF Crash
    <2> QED BY <2>1, <1>21 DEF Crash, Forget
<1>22. CASE UNCHANGED vars
    BY <1>22 DEF vars, files, procs, calls, locals
<1> QED
    BY <1>1, <1>2, <1>3, <1>4, <1>5, <1>6, <1>7, <1>8, <1>9, <1>10, <1>11,
       <1>12, <1>13, <1>14, <1>15, <1>18, <1>19, <1>20, <1>21, <1>22
       DEF Next, System, LockStep, InsideStep

\* Every file and every call of the journal keeps its type.
THEOREM Typing == Spec => []TypeOK
BY TypeInit, TypeStep, PTL DEF Spec

LEMMA LockStepInv == JournalInv /\ [Next]_vars => LockInv'
<1> SUFFICES ASSUME JournalInv, [Next]_vars PROVE LockInv'
    OBVIOUS
<1> USE ThreadsAssumption, NoLockAssumption
<1> USE DEF LockInv, OwnsLock, Company, HolderCalls, LiveLock, OnlyAcquireUnlinks, InsideLock, Active
<1>0. TypeOK /\ LockInv
    BY DEF JournalInv
<1> USE DEF TypeOK, Locks
<1>1. ASSUME NEW t \in Threads, Quiet(t), CallAcquire(t) PROVE LockInv'
    BY <1>0, <1>1 DEF Quiet, CallAcquire, BeginCall, files, procs
<1>2. ASSUME NEW t \in Threads, CallWithLease(t) PROVE LockInv'
    BY <1>0, <1>2, SMTT(30) DEF CallWithLease, BeginCall, files, procs
<1>3. ASSUME NEW t \in Threads, CallAppend(t) PROVE LockInv'
    BY <1>0, <1>3, SMTT(30) DEF CallAppend, BeginCall, files, procs
<1>4. ASSUME NEW t \in Threads, CreateLock(t) PROVE LockInv'
    BY <1>0, <1>4 DEF CreateLock, procs, locals
<1>5. ASSUME NEW t \in Threads, PublishLock(t) PROVE LockInv'
    BY <1>0, <1>5, SMTT(30) DEF PublishLock, procs, locals
<1>6. ASSUME NEW t \in Threads, JudgeLock(t) PROVE LockInv'
    <2>1. CASE op[t] = "acquire"
        <3>1. /\ pc' = [pc EXCEPT ![t] = "unlink"] /\ pc[t] = "lock" /\ Runs(t)
              /\ UNCHANGED <<lock, live, held, op, ident>>
            BY <1>6 DEF JudgeLock, files, procs, locals
        <3>2. OnlyAcquireUnlinks'
            BY <3>1, <2>1, <1>0
        <3>3. \A u \in Threads : /\ InsideLock(u)' <=> InsideLock(u)
                                /\ Active(u)' <=> Active(u)
            BY <3>1, <1>0
        <3>4. OwnsLock'
            BY <3>1, <3>3, <1>0
        <3>5. Company'
            BY <3>1, <3>3, <1>0
        <3>6. HolderCalls'
            BY <3>1, <3>3, <1>0
        <3>7. LiveLock'
            BY <3>1, <3>3, <1>0
        <3> QED BY <3>2, <3>4, <3>5, <3>6, <3>7
    <2>2. CASE op[t] # "acquire"
        <3>1. /\ Active(t) /\ lock # NoLock
              /\ InsideLock(lock.owner) /\ lock.owner # t /\ lock.owner \in Threads
            BY <2>2, <1>0, <1>6 DEF JudgeLock
        <3>2. /\ op[lock.owner] # "acquire" /\ ident[lock.owner] = ident[t]
              /\ lock.token = Blank \/ lock.token = ident[t]
            BY <3>1, <1>0
        <3>3. ~StaleLock(t)
            BY <2>2, <3>2, <1>0 DEF StaleLock, Blank
        <3> QED BY <3>3, <1>6 DEF JudgeLock
    <2> QED BY <2>1, <2>2
<1>7. ASSUME NEW t \in Threads, UnlinkLock(t) PROVE LockInv'
    <2>1. op[t] = "acquire" /\ Active(t)
        BY <1>0, <1>7 DEF UnlinkLock
    <2>2. \A u \in Threads : u # t => ~Active(u)
        BY <2>1, <1>0
    <2>3. \A u \in Threads : ~InsideLock(u) /\ (Active(u)' => u = t)
        BY <2>1, <2>2, <1>0, <1>7 DEF UnlinkLock, procs
    <2>4. \A u \in Threads : ~InsideLock(u)'
        BY <2>3, <1>7 DEF UnlinkLock, procs
    <2> QED BY <2>1, <2>2, <2>3, <2>4, <1>0, <1>7 DEF UnlinkLock, procs, locals
<1>8. ASSUME NEW t \in Threads, LockBusy(t) PROVE LockInv'
    BY <1>0, <1>8 DEF LockBusy, Return, files, procs
<1>9. ASSUME NEW t \in Threads, Unlock(t) PROVE LockInv'
    BY <1>0, <1>9 DEF Unlock, Return
<1>10. ASSUME NEW t \in Threads, EnterAcquire(t) PROVE LockInv'
    BY <1>0, <1>10, SMTT(30) DEF EnterAcquire, files, procs
<1>11. ASSUME NEW t \in Threads, WriteAcquire(t) PROVE LockInv'
    BY <1>0, <1>11, SMTT(30) DEF WriteAcquire, NextToken, procs
<1>12. ASSUME NEW t \in Threads, EnterWithLease(t) PROVE LockInv'
    <2>1. /\ Runs(t) /\ pc[t] = "enter" /\ UNCHANGED <<lock, live, held, op, ident>>
        BY <1>12 DEF EnterWithLease, files, procs
    <2>2. CASE pc' = [pc EXCEPT ![t] = "unlock"]
        BY <2>1, <2>2, <1>0, SMTT(30)
    <2>3. CASE pc' = [pc EXCEPT ![t] = "write"]
        BY <2>1, <2>3, <1>0, SMTT(30)
    <2>4. CASE pc' = [pc EXCEPT ![t] = "read"]
        BY <2>1, <2>4, <1>0, SMTT(30)
    <2> QED BY <2>2, <2>3, <2>4, <1>12 DEF EnterWithLease
<1>13. ASSUME NEW t \in Threads, WriteRenew(t) PROVE LockInv'
    BY <1>0, <1>13, SMTT(30) DEF WriteRenew, procs, locals
<1>14. ASSUME NEW t \in Threads, WriteRelease(t) PROVE LockInv'
    BY <1>0, <1>14, SMTT(30) DEF WriteRelease, procs, locals
<1>15. ASSUME NEW t \in Threads, ReadJournal(t) PROVE LockInv'
    BY <1>0, <1>15 DEF ReadJournal, RepairTail, Writes, procs
<1>16. ASSUME NEW t \in Threads, WriteAppend(t) PROVE LockInv'
    <2>1. /\ pc' = [pc EXCEPT ![t] = "unlock"] /\ pc[t] = "write" /\ Runs(t)
          /\ UNCHANGED <<lock, live, held, op, ident>>
        BY <1>16 DEF WriteAppend, procs, locals
    <2> QED BY <2>1, <1>0, SMTT(30)
<1>17. ASSUME NEW t \in Threads, WriteSnapshot(t) PROVE LockInv'
    BY <1>0, <1>17, SMTT(30) DEF WriteSnapshot, procs, locals
<1>18. CASE Expire
    BY <1>0, <1>18 DEF Expire, procs, calls, locals
<1>19. ASSUME NEW p \in Procs, Crash(p) PROVE LockInv'
    <2>1. /\ live' = [live EXCEPT ![p] = FALSE]
          /\ held' = [held EXCEPT ![p] = 0]
          /\ pc' = Forget(p, pc, "idle") /\ op' = Forget(p, op, "none")
          /\ ident' = Forget(p, ident, 0) /\ UNCHANGED lock
        BY <1>19 DEF Crash
    <2>2. \A u \in Threads :
             /\ Runs(u)' <=> Runs(u) /\ ProcOf[u] # p
             /\ ProcOf[u] # p => /\ pc'[u] = pc[u] /\ op'[u] = op[u]
                                /\ ident'[u] = ident[u]
        BY <2>1, <1>0 DEF Forget
    <2>3. \A q \in Procs : /\ live'[q] <=> live[q] /\ q # p
                           /\ q # p => held'[q] = held[q]
        BY <2>1, <1>0
    <2>4. OwnsLock'
        BY <2>1, <2>2, <1>0
    <2>8. Company'
        <3>1. \A u \in Threads : Active(u)' => Active(u) /\ ProcOf[u] # p
            BY <2>2
        <3>2. Company
            BY <1>0
        <3> QED BY <2>2, <3>1, <3>2
    <2>6. HolderCalls'
        BY <2>2, <2>3, <1>0, SMTT(30)
    <2>7. OnlyAcquireUnlinks'
        BY <2>2, <1>0
    <2>5. LiveLock'
        <3>1. ASSUME NEW q \in Procs, live'[q], held'[q] # 0
              PROVE (lock = NoLock \/ InsideLock(lock.owner))'
            BY <3>1, <2>1, <2>2, <2>3, <1>0
        <3>2. ASSUME NEW u \in Threads, Active(u)', op'[u] # "acquire"
              PROVE (lock = NoLock \/ InsideLock(lock.owner))'
            <4>1. Active(u) /\ op[u] # "acquire" /\ ProcOf[u] # p
                BY <3>2, <2>2
            <4>2. CASE lock # NoLock
                <5>1. lock.owner \in Threads /\ InsideLock(lock.owner)
                    BY <4>1, <4>2, <1>0
                <5>2. ProcOf[lock.owner] # p
                    BY <4>1, <5>1, <1>0
                <5> QED BY <5>1, <5>2, <2>1, <2>2
            <4> QED BY <4>2, <2>1
        <3> QED BY <3>1, <3>2
    <2> QED BY <2>4, <2>5, <2>6, <2>7, <2>8
<1>20. CASE UNCHANGED vars
    BY <1>0, <1>20 DEF vars, files, procs, calls, locals
<1> QED
    BY <1>1, <1>2, <1>3, <1>4, <1>5, <1>6, <1>7, <1>8, <1>9, <1>10, <1>11, <1>12, <1>13, <1>14, <1>15, <1>16, <1>17, <1>18, <1>19, <1>20
       DEF Next, System, LockStep, InsideStep

-----------------------------------------------------------------------------
(* The journal.  A step that leaves the files alone keeps what is said of  *)
(* them.                                                                   *)

FileInv ==
    /\ JournalRecoverable /\ TokensIssued /\ Fenced
    /\ UniqueEventIds /\ TerminalsAreFinal /\ SnapshotMatchesAnchor

LEMMA FilesUnchanged ==
    ASSUME JournalInv, UNCHANGED <<lease, events, tail, snapshot>>
    PROVE  FileInv'
BY DEF JournalInv, FileInv, JournalRecoverable, Recoverable, Contiguous,
       TokensIssued, Fenced, UniqueEventIds, TerminalsAreFinal,
       SnapshotMatchesAnchor

\* A new event under the current token, numbered after the head, keeps the
\* chain, the order of tokens and the rules about ids and terminals.
LEMMA AppendKeepsChain ==
    ASSUME JournalInv, NEW r \in Records,
           r.seq = Len(events) + 1, r.token = lease.token,
           NewEvent(events, r.event),
           events' = Append(events, r), UNCHANGED <<lease, snapshot>>,
           tail' # "corrupt"
    PROVE  FileInv'
<1> USE DEF TypeOK
<1>1. TypeOK /\ FileInv
    BY DEF JournalInv, FileInv
<1>2. /\ Len(events') = Len(events) + 1
      /\ \A i \in 1..Len(events) : events'[i] = events[i]
      /\ events'[Len(events) + 1] = r
    BY <1>1
<1>3. \A i \in 1..Len(events) : events[i] \in Records
    BY <1>1
<1>4. JournalRecoverable'
    BY <1>1, <1>2 DEF FileInv, JournalRecoverable, Recoverable, Contiguous
<1>5. TokensIssued'
    BY <1>1, <1>2, <1>3 DEF FileInv, TokensIssued, Records, Leases
<1>6. Fenced'
    <2> SUFFICES ASSUME NEW i \in 1..Len(events'), NEW j \in 1..Len(events'), i <= j
                 PROVE  events'[i].token <= events'[j].token
        BY DEF Fenced
    <2>1. CASE j \in 1..Len(events)
        <3>1. i \in 1..Len(events)
            BY <2>1, <1>1
        <3> QED BY <3>1, <2>1, <1>1, <1>2 DEF FileInv, Fenced
    <2>2. CASE j = Len(events) + 1 /\ i \in 1..Len(events)
        BY <2>2, <1>1, <1>2 DEF FileInv, TokensIssued
    <2>3. CASE j = Len(events) + 1 /\ i = j
        <3>1. r.token \in Nat
            BY DEF Records
        <3> QED BY <3>1, <2>3, <1>2
    <2>4. Len(events) \in Nat
        BY <1>1
    <2> QED BY <2>1, <2>2, <2>3, <2>4, <1>2
<1>7. SnapshotMatchesAnchor'
    BY <1>1, <1>2 DEF FileInv, SnapshotMatchesAnchor
<1>8. ASSUME NEW i \in 1..Len(events)
      PROVE  events[i].event.eventId # r.event.eventId /\ ~Closes(events[i].event, r.event)
    BY <1>1 DEF NewEvent, KnownId, Late, Logged
<1>9. Len(events) \in Nat /\ 1..Len(events') = 1..Len(events) \union {Len(events) + 1}
    BY <1>1, <1>2
<1>10. UniqueEventIds'
    BY <1>1, <1>2, <1>8, <1>9 DEF FileInv, UniqueEventIds
<1>11. TerminalsAreFinal'
    <2> SUFFICES ASSUME NEW i \in 1..Len(events'), NEW j \in 1..Len(events'), i < j
                 PROVE  ~Closes(events'[i].event, events'[j].event)
        BY DEF TerminalsAreFinal
    <2>1. CASE j \in 1..Len(events)
        <3>1. i \in 1..Len(events)
            BY <2>1, <1>9
        <3> QED BY <3>1, <2>1, <1>1, <1>2 DEF FileInv, TerminalsAreFinal
    <2>2. CASE j = Len(events) + 1
        <3>1. i \in 1..Len(events)
            BY <2>2, <1>9
        <3> QED BY <3>1, <2>2, <1>2, <1>8
    <2> QED BY <2>1, <2>2, <1>9
<1> QED BY <1>4, <1>5, <1>6, <1>7, <1>10, <1>11 DEF FileInv

LEMMA FileStepInv == JournalInv /\ [Next]_vars => FileInv'
<1> SUFFICES ASSUME JournalInv, [Next]_vars PROVE FileInv'
    OBVIOUS
<1>0. TypeOK /\ LockInv /\ FreshReads /\ FileInv
    BY DEF JournalInv, FileInv
<1>1. ASSUME NEW t \in Threads,
             \/ CallAcquire(t) \/ CallWithLease(t) \/ CallAppend(t)
             \/ LockStep(t) \/ EnterAcquire(t) \/ EnterWithLease(t)
      PROVE FileInv'
    <2>1. UNCHANGED <<lease, events, tail, snapshot>>
        BY <1>1 DEF CallAcquire, CallWithLease, CallAppend, BeginCall, LockStep,
            CreateLock, PublishLock, JudgeLock, UnlinkLock, LockBusy, Unlock,
            EnterAcquire, EnterWithLease, files
    <2> QED BY <2>1, FilesUnchanged
<1>2. ASSUME NEW t \in Threads, WriteAcquire(t) PROVE FileInv'
    <2>1. /\ lease'.token = lease.token + 1 /\ lease.token \in Nat
          /\ UNCHANGED <<events, tail, snapshot>>
        BY <1>0, <1>2 DEF WriteAcquire, NextToken, FreshReads, Fresh, TypeOK, Leases
    <2>2. TokensIssued'
        <3> SUFFICES ASSUME NEW i \in 1..Len(events)
                     PROVE  events[i].token <= lease'.token
            BY <2>1 DEF TokensIssued
        <3>1. events[i] \in Records
            BY <1>0 DEF TypeOK
        <3>2. events[i].token \in Nat /\ events[i].token <= lease.token
            BY <3>1, <1>0 DEF FileInv, TokensIssued, Records
        <3> QED BY <3>2, <2>1
    <2> QED BY <2>1, <2>2, <1>0 DEF FileInv, JournalRecoverable, Recoverable,
                Contiguous, Fenced, UniqueEventIds, TerminalsAreFinal,
                SnapshotMatchesAnchor
<1>3. ASSUME NEW t \in Threads, WriteRenew(t) \/ WriteRelease(t) PROVE FileInv'
    <2>1. lease'.token = lease.token /\ UNCHANGED <<events, tail, snapshot>>
        BY <1>0, <1>3 DEF WriteRenew, WriteRelease, FreshReads, Fresh, TypeOK, Leases
    <2> QED BY <2>1, <1>0 DEF FileInv, JournalRecoverable, Recoverable,
                Contiguous, Fenced, TokensIssued, UniqueEventIds,
                TerminalsAreFinal, SnapshotMatchesAnchor
<1>4. ASSUME NEW t \in Threads, ReadJournal(t) PROVE FileInv'
    BY <1>0, <1>4 DEF ReadJournal, RepairTail, FileInv, JournalRecoverable,
       Recoverable, Contiguous, Fenced, TokensIssued, UniqueEventIds,
                TerminalsAreFinal, SnapshotMatchesAnchor
<1>5. ASSUME NEW t \in Threads, Runs(t), pc[t] = "write", op[t] = "append"
      PROVE  /\ NextRecord(t) \in Records /\ NextRecord(t).seq = Len(events) + 1
             /\ NextRecord(t).token = lease.token /\ tail = "clean"
             /\ NewEvent(events, NextRecord(t).event)
    BY <1>0, <1>5 DEF NextRecord, FreshReads, Fresh, TypeOK, Records
<1>6. ASSUME NEW t \in Threads, WriteAppend(t) PROVE FileInv'
    <2>1. /\ Runs(t) /\ pc[t] = "write" /\ op[t] = "append"
          /\ events' = Append(events, NextRecord(t)) /\ UNCHANGED <<lease, snapshot>>
          /\ tail' = IF tail = "clean" THEN "clean" ELSE "corrupt"
        BY <1>6 DEF WriteAppend
    <2> QED BY <2>1, <1>5, AppendKeepsChain
<1>7. ASSUME NEW t \in Threads, WriteSnapshot(t) PROVE FileInv'
    <2>1. /\ snapshot'.anchor = Len(events) /\ snapshot'.state = Len(events)
          /\ UNCHANGED <<lease, events, tail>> /\ Len(events) \in Nat
        BY <1>0, <1>7 DEF WriteSnapshot, FreshReads, Fresh, TypeOK
    <2> QED BY <2>1, <1>0 DEF FileInv, JournalRecoverable, Recoverable,
                Contiguous, Fenced, TokensIssued, UniqueEventIds,
                TerminalsAreFinal, SnapshotMatchesAnchor
<1>8. CASE Expire
    <2>1. lease'.token = lease.token /\ UNCHANGED <<events, tail, snapshot>>
        BY <1>0, <1>8 DEF Expire, TypeOK, Leases
    <2> QED BY <2>1, <1>0 DEF FileInv, JournalRecoverable, Recoverable,
                Contiguous, Fenced, TokensIssued, UniqueEventIds,
                TerminalsAreFinal, SnapshotMatchesAnchor
<1>9. ASSUME NEW p \in Procs, Crash(p) PROVE FileInv'
    <2>1. UNCHANGED <<lease, snapshot>>
        BY <1>9 DEF Crash
    <2>2. CASE UNCHANGED <<events, tail>>
        BY <2>1, <2>2, FilesUnchanged
    <2>3. ASSUME tail' = "partial", UNCHANGED events PROVE FileInv'
        BY <2>1, <2>3, <1>0 DEF FileInv, JournalRecoverable, Recoverable,
           Contiguous, Fenced, TokensIssued, UniqueEventIds,
                TerminalsAreFinal, SnapshotMatchesAnchor
    <2>4. ASSUME NEW t \in Threads, ProcOf[t] = p, pc[t] = "write",
                 op[t] = "append", tail' = "unterminated",
                 events' = Append(events, NextRecord(t))
          PROVE FileInv'
        <3>1. Runs(t)
            BY <2>4, <1>9 DEF Crash
        <3> QED BY <3>1, <2>1, <2>4, <1>5, AppendKeepsChain
    <2> QED BY <2>2, <2>3, <2>4, <1>9 DEF Crash
<1>10. CASE UNCHANGED vars
    BY <1>10, FilesUnchanged DEF vars, files
<1> QED
    BY <1>1, <1>2, <1>3, <1>4, <1>6, <1>7, <1>8, <1>9, <1>10
       DEF Next, System, InsideStep

-----------------------------------------------------------------------------
(* What a call has read stays true: nobody else is inside the lock.        *)

LEMMA Exclusion == ASSUME OwnsLock PROVE MutualExclusion
BY DEF OwnsLock, MutualExclusion

\* A call that the step leaves alone, in files that the step leaves alone.
LEMMA FreshFrame ==
    ASSUME NEW u \in Threads, Fresh(u), Runs(u)' => Runs(u),
           Runs(u)' => /\ pc'[u] = pc[u] /\ op'[u] = op[u] /\ ident'[u] = ident[u]
                       /\ input'[u] = input[u] /\ base'[u] = base[u]
                       /\ readSeq'[u] = readSeq[u] /\ expected'[u] = expected[u],
           lease'.token = lease.token, lease'.status = lease.status,
           lease'.writer = lease.writer, UNCHANGED events,
           tail = "clean" => tail' = "clean"
    PROVE  Fresh(u)'
BY DEF Fresh

\* A call outside the lock has read nothing yet.
LEMMA FreshOutside ==
    ASSUME NEW u \in Threads, ~InsideLock(u)' PROVE Fresh(u)'
BY DEF Fresh, InsideLock

LEMMA FreshStepInv == JournalInv /\ [Next]_vars => FreshReads'
<1> SUFFICES ASSUME JournalInv, [Next]_vars, NEW u \in Threads PROVE Fresh(u)'
    BY DEF FreshReads
<1>0. TypeOK /\ OwnsLock /\ Fresh(u) /\ MutualExclusion
    BY Exclusion DEF JournalInv, LockInv, FreshReads
<1> USE ThreadsAssumption
\* Steps that neither read nor write the files, and expiry.
<1>1. ASSUME NEW t \in Threads,
             \/ CallAcquire(t) \/ CallWithLease(t) \/ CallAppend(t) \/ LockStep(t)
      PROVE Fresh(u)'
    <2>1. /\ UNCHANGED <<lease, events, tail, live>>
          /\ t # u => UNCHANGED <<pc[u], op[u], ident[u], input[u], base[u],
                                  readSeq[u], expected[u]>>
          /\ pc'[t] \notin {"read", "write"}
        BY <1>0, <1>1 DEF CallAcquire, CallWithLease, CallAppend, BeginCall,
            LockStep, CreateLock, PublishLock, JudgeLock, UnlinkLock, LockBusy,
            Unlock, Return, files, procs, locals, TypeOK
    <2>2. CASE t = u
        BY <2>1, <2>2 DEF Fresh
    <2>3. CASE t # u
        BY <2>1, <2>3, <1>0, FreshFrame
    <2> QED BY <2>2, <2>3
<1>2. CASE Expire
    <2>1. /\ lease'.token = lease.token /\ lease'.status = lease.status
          /\ lease'.writer = lease.writer
          /\ UNCHANGED <<events, tail, live, calls>>
        BY <1>0, <1>2 DEF Expire, procs, TypeOK, Leases
    <2> QED BY <2>1, <1>0, FreshFrame DEF calls, locals
\* Steps inside the lock: every other call is outside.
<1>3. ASSUME NEW t \in Threads, InsideStep(t) PROVE Fresh(u)'
    <2>1. /\ InsideLock(t) /\ UNCHANGED live
          /\ t # u => pc'[u] = pc[u]
        BY <1>0, <1>3 DEF InsideStep, EnterAcquire, WriteAcquire, EnterWithLease,
            WriteRenew, WriteRelease, ReadJournal, WriteAppend, WriteSnapshot,
            InsideLock, procs, files, TypeOK
    <2>2. CASE t # u
        <3>1. ~InsideLock(u)
            BY <2>1, <2>2, <1>0 DEF MutualExclusion
        <3>2. ~InsideLock(u)'
            BY <3>1, <2>1, <2>2 DEF InsideLock
        <3> QED BY <3>2, FreshOutside
    <2>3. CASE t = u
        <3>1. CASE \/ WriteAcquire(t) \/ WriteRenew(t) \/ WriteRelease(t)
                   \/ WriteAppend(t) \/ WriteSnapshot(t)
            <4>1. pc'[t] = "unlock"
                BY <3>1, <1>0 DEF WriteAcquire, WriteRenew, WriteRelease,
                   WriteAppend, WriteSnapshot, TypeOK
            <4> QED BY <4>1, <2>3 DEF Fresh
        <3>2. CASE EnterAcquire(t)
            <4>1. /\ pc'[t] \in {"unlock", "write"} /\ op'[t] = "acquire"
                  /\ base'[t] = lease /\ lease' = lease
                BY <3>2, <1>0 DEF EnterAcquire, files, TypeOK
            <4> QED BY <4>1, <2>3 DEF Fresh
        <3>3. CASE EnterWithLease(t)
            <4>1. /\ op'[t] = op[t] /\ op[t] # "acquire" /\ ident'[t] = ident[t]
                  /\ base'[t] = lease /\ lease' = lease
                BY <3>3, <1>0 DEF EnterWithLease, files, TypeOK
            <4>2. \/ pc'[t] = "unlock"
                  \/ CurrentLease(t) /\ pc'[t] = "read"
                  \/ /\ CurrentLease(t) /\ pc'[t] = "write"
                     /\ op[t] \in {"renew", "release"}
                BY <3>3, <1>0 DEF EnterWithLease, TypeOK
            <4>3. CASE pc'[t] = "unlock"
                BY <4>3, <2>3 DEF Fresh
            <4>4. CASE CurrentLease(t) /\ pc'[t] = "read"
                BY <4>1, <4>4, <2>3 DEF Fresh, CurrentLease
            <4>5. CASE /\ CurrentLease(t) /\ pc'[t] = "write"
                       /\ op[t] \in {"renew", "release"}
                BY <4>1, <4>5, <2>3 DEF Fresh, CurrentLease
            <4> QED BY <4>2, <4>3, <4>4, <4>5
        <3>4. CASE ReadJournal(t)
            <4>1. /\ pc[t] = "read" /\ Runs(t)
                  /\ pc'[t] = IF Writes(t) THEN "write" ELSE "unlock"
                  /\ readSeq'[t] = Len(events) /\ RepairTail
                  /\ op[t] # "recover" => expected'[t] = expected[t]
                  /\ UNCHANGED <<lease, events, op, ident, input, base, live>>
                BY <3>4, <1>0 DEF ReadJournal, procs, TypeOK
            <4>2. CASE ~Writes(t)
                BY <4>1, <4>2, <2>3 DEF Fresh
            <4>3. CASE Writes(t)
                <5>1. op[t] \in {"append", "snapshot"} /\ tail' = "clean"
                    BY <4>1, <4>3 DEF Writes, RepairTail
                <5>2. op[t] = "append" => NewEvent(events, input[t])
                    BY <4>3 DEF Writes
                <5>3. op[t] = "snapshot" => expected[t] = Len(events)
                    BY <4>3 DEF Writes
                <5>4. /\ lease.status = "active" /\ lease.token = ident[t]
                      /\ base[t].status = "active"
                      /\ base[t].writer = lease.writer
                    BY <4>1, <5>1, <2>3, <1>0 DEF Fresh
                <5>5. base[t].token = lease.token
                    BY <4>1, <5>1, <2>3, <1>0 DEF Fresh
                <5> QED BY <4>1, <4>3, <5>1, <5>2, <5>3, <5>4, <5>5, <2>3
                        DEF Fresh
            <4> QED BY <4>2, <4>3
        <3> QED BY <3>1, <3>2, <3>3, <3>4, <1>3 DEF InsideStep
    <2> QED BY <2>2, <2>3
<1>4. ASSUME NEW p \in Procs, Crash(p) PROVE Fresh(u)'
    <2>1. /\ live' = [live EXCEPT ![p] = FALSE] /\ UNCHANGED lease
          /\ ProcOf[u] # p =>
                UNCHANGED <<pc[u], op[u], ident[u], input[u], base[u],
                            readSeq[u], expected[u]>>
        BY <1>0, <1>4 DEF Crash, Forget
    <2>2. CASE ProcOf[u] = p
        <3>1. ~Runs(u)'
            BY <2>1, <2>2, <1>0 DEF TypeOK
        <3> QED BY <3>1 DEF Fresh
    <2>3. CASE ProcOf[u] # p
        <3>1. Runs(u)' = Runs(u)
            BY <2>1, <2>3, <1>0 DEF TypeOK
        <3>2. CASE UNCHANGED <<events, tail>>
            BY <3>1, <3>2, <2>1, <2>3, <1>0, FreshFrame
        <3>3. ASSUME NEW t \in Threads, ProcOf[t] = p, pc[t] = "write"
              PROVE Fresh(u)'
            <4>1. InsideLock(t) /\ t # u
                BY <3>3, <2>3, <1>4 DEF Crash, InsideLock
            <4>2. ~InsideLock(u)
                BY <4>1, <1>0 DEF MutualExclusion
            <4>3. ~InsideLock(u)'
                BY <4>2, <3>1, <2>1, <2>3 DEF InsideLock
            <4> QED BY <4>3, FreshOutside
        <3> QED BY <3>2, <3>3, <1>4 DEF Crash
    <2> QED BY <2>2, <2>3
<1>5. CASE UNCHANGED vars
    BY <1>0, <1>5, FreshFrame DEF vars, files, procs, calls, locals
<1> QED
    BY <1>1, <1>2, <1>3, <1>4, <1>5 DEF Next, System

-----------------------------------------------------------------------------
LEMMA InvInit == Init => JournalInv
<1> SUFFICES ASSUME Init PROVE JournalInv
    OBVIOUS
<1>1. TypeOK
    BY TypeInit
<1>2. LockInv
    BY ThreadsAssumption DEF Init, LockInv, OwnsLock, Company, HolderCalls,
       LiveLock, OnlyAcquireUnlinks, InsideLock, Active
<1>3. FreshReads
    BY DEF Init, FreshReads, Fresh
<1>4. FileInv
    BY DEF Init, FileInv, JournalRecoverable, Recoverable, Contiguous,
       TokensIssued, Fenced, UniqueEventIds, TerminalsAreFinal,
       SnapshotMatchesAnchor
<1> QED BY <1>1, <1>2, <1>3, <1>4 DEF JournalInv, FileInv

LEMMA InvStep == JournalInv /\ [Next]_vars => JournalInv'
<1> SUFFICES ASSUME JournalInv, [Next]_vars PROVE JournalInv'
    OBVIOUS
<1>1. TypeOK'
    BY TypeStep DEF JournalInv
<1> QED BY <1>1, LockStepInv, FileStepInv, FreshStepInv DEF JournalInv, FileInv

\* The inductive invariant holds in every state the journal reaches.
THEOREM Invariance == Spec => []JournalInv
BY InvInit, InvStep, PTL DEF Spec

\* withLock serialises the calls of one owner at a time: two calls are never
\* inside the lock together, whatever crashes and takeovers came before.
THEOREM Exclusive == Spec => []MutualExclusion
<1>1. JournalInv => MutualExclusion
    BY Exclusion DEF JournalInv, LockInv
<1> QED BY <1>1, Invariance, PTL

\* The file of events stays a contiguous chain that recoverUnsafe accepts,
\* although writers die in the middle of a line.
THEOREM AlwaysRecoverable == Spec => []JournalRecoverable
<1>1. JournalInv => JournalRecoverable
    BY DEF JournalInv
<1> QED BY <1>1, Invariance, PTL

\* The fencing tokens in the journal never fall.
THEOREM Fencing == Spec => []Fenced
<1>1. JournalInv => Fenced
    BY DEF JournalInv
<1> QED BY <1>1, Invariance, PTL

\* A snapshot holds the reduction of the events up to its anchor.
THEOREM SnapshotsMatch == Spec => []SnapshotMatchesAnchor
<1>1. JournalInv => SnapshotMatchesAnchor
    BY DEF JournalInv
<1> QED BY <1>1, Invariance, PTL

\* Event ids are unique and terminals final: what classifyIncoming decided
\* before the write still holds when the line is written.
THEOREM EventRulesKept == Spec => [](UniqueEventIds /\ TerminalsAreFinal)
<1>1. JournalInv => UniqueEventIds /\ TerminalsAreFinal
    BY DEF JournalInv
<1> QED BY <1>1, Invariance, PTL

LEMMA HandOverStep == JournalInv /\ [Next]_vars => [HandOver]_lease
<1> SUFFICES ASSUME JournalInv, [Next]_vars, lease' # lease PROVE HandOver
    OBVIOUS
<1>0. TypeOK /\ FreshReads
    BY DEF JournalInv
<1>1. ASSUME NEW t \in Threads, WriteAcquire(t) PROVE HandOver
    <2>1. lease'.token = lease.token + 1 /\ lease.token \in Nat
        BY <1>0, <1>1 DEF WriteAcquire, NextToken, FreshReads, Fresh, TypeOK, Leases
    <2> QED BY <2>1 DEF HandOver
<1>2. ASSUME NEW t \in Threads, WriteRenew(t) \/ WriteRelease(t) PROVE HandOver
    <2>1. /\ lease'.token = lease.token /\ lease'.writer = lease.writer
          /\ lease.status = "active" /\ lease.token \in Nat
        BY <1>0, <1>2 DEF WriteRenew, WriteRelease, FreshReads, Fresh, TypeOK, Leases
    <2> QED BY <2>1 DEF HandOver
<1>3. CASE Expire
    <2>1. /\ lease'.token = lease.token /\ lease'.writer = lease.writer
          /\ lease.status = "active" /\ lease.token \in Nat
        BY <1>0, <1>3 DEF Expire, TypeOK, Leases
    <2> QED BY <2>1 DEF HandOver
<1>4. ASSUME \/ \E t \in Threads :
                  \/ CallAcquire(t) \/ CallWithLease(t) \/ CallAppend(t) \/ LockStep(t)
                  \/ EnterAcquire(t) \/ EnterWithLease(t) \/ ReadJournal(t)
                  \/ WriteAppend(t) \/ WriteSnapshot(t)
             \/ \E p \in Procs : Crash(p)
             \/ UNCHANGED vars
      PROVE lease' = lease
    BY <1>4 DEF CallAcquire, CallWithLease, CallAppend, BeginCall, LockStep,
        CreateLock, PublishLock, JudgeLock, UnlinkLock, LockBusy, Unlock,
        EnterAcquire, EnterWithLease, ReadJournal, WriteAppend, WriteSnapshot,
        Crash, files, vars
<1> QED BY <1>1, <1>2, <1>3, <1>4 DEF Next, System, InsideStep

\* The lease never changes hands, and never comes back after its release,
\* under a token that was already issued.
THEOREM HandOvers == Spec => NewOwnerNewToken
BY Invariance, HandOverStep, PTL DEF Spec, NewOwnerNewToken

-----------------------------------------------------------------------------
(* The journal implements the fenced log.                                  *)

LEMMA SameRules == \A l, e : Log!NewEvent(l, e) <=> NewEvent(l, e)
BY DEF Log!NewEvent, Log!KnownId, Log!Late, Log!Logged, Log!Closes,
       Log!RootTerminal, Log!NodeTypes, Log!ChildTypes, Log!None,
       NewEvent, KnownId, Late, Logged, Closes, RootTerminal, NodeTypes,
       ChildTypes, None

LEMMA LogInitial == Init => Log!LogInit
BY DEF Init, NoLease, Log!LogInit

LEMMA LogStep == JournalInv /\ [Next]_vars => [Log!LogNext]_(Log!logVars)
<1> SUFFICES ASSUME JournalInv, [Next]_vars
             PROVE  Log!LogNext \/ UNCHANGED Log!logVars
    OBVIOUS
<1> USE DEF Log!LogNext, Log!logVars
<1>0. TypeOK /\ FreshReads
    BY DEF JournalInv
<1>1. CASE UNCHANGED <<events, lease>>
    BY <1>1
\* A whole line, terminated or not, is a commit.
<1>2. ASSUME NEW t \in Threads, Runs(t), pc[t] = "write", op[t] = "append",
             events' = Append(events, NextRecord(t)), UNCHANGED lease
      PROVE Log!Commit
    <2>1. /\ readSeq[t] = Len(events) /\ NewEvent(events, input[t])
          /\ lease.status = "active" /\ lease.token = ident[t]
        BY <1>0, <1>2 DEF FreshReads, Fresh
    <2>2. input[t] \in Inputs
        BY <1>0, <1>2 DEF TypeOK
    <2>3. events' = Append(events, [seq |-> Len(events) + 1,
                                    token |-> lease.token, event |-> input[t]])
        BY <2>1, <1>2 DEF NextRecord
    <2> QED BY <2>1, <2>2, <2>3, <1>2, SameRules DEF Log!Commit
<1>3. ASSUME NEW t \in Threads, WriteAppend(t) PROVE Log!LogNext
    BY <1>2, <1>3 DEF WriteAppend
<1>4. ASSUME NEW p \in Procs, Crash(p) PROVE Log!LogNext \/ UNCHANGED Log!logVars
    <2>1. CASE UNCHANGED events
        BY <2>1, <1>4, <1>1 DEF Crash
    <2>2. ASSUME NEW t \in Threads, ProcOf[t] = p, pc[t] = "write",
                 op[t] = "append", events' = Append(events, NextRecord(t))
          PROVE Log!LogNext
        BY <2>2, <1>4, <1>2 DEF Crash
    <2> QED BY <2>1, <2>2, <1>4 DEF Crash
<1>5. ASSUME NEW t \in Threads, WriteAcquire(t) PROVE Log!LogNext
    BY <1>0, <1>5 DEF WriteAcquire, NextToken, FreshReads, Fresh, Log!OpenEpoch
<1>6. ASSUME NEW t \in Threads, WriteRelease(t) PROVE Log!LogNext
    BY <1>0, <1>6 DEF WriteRelease, FreshReads, Fresh, TypeOK, Leases,
                      Log!CloseEpoch
<1>7. ASSUME NEW t \in Threads, WriteRenew(t) PROVE UNCHANGED Log!logVars
    BY <1>0, <1>7 DEF WriteRenew, FreshReads, Fresh, TypeOK, Leases
<1>8. CASE Expire
    BY <1>0, <1>8 DEF Expire, TypeOK, Leases
<1>9. ASSUME NEW t \in Threads,
             \/ CallAcquire(t) \/ CallWithLease(t) \/ CallAppend(t) \/ LockStep(t)
             \/ EnterAcquire(t) \/ EnterWithLease(t) \/ ReadJournal(t)
             \/ WriteSnapshot(t)
      PROVE UNCHANGED <<events, lease>>
    BY <1>9 DEF CallAcquire, CallWithLease, CallAppend, BeginCall, LockStep,
        CreateLock, PublishLock, JudgeLock, UnlinkLock, LockBusy, Unlock,
        EnterAcquire, EnterWithLease, ReadJournal, WriteSnapshot, files
<1>10. CASE UNCHANGED vars
    BY <1>10, <1>1 DEF vars, files
<1> QED
    BY <1>1, <1>3, <1>4, <1>5, <1>6, <1>7, <1>8, <1>9, <1>10
       DEF Next, System, InsideStep

\* Lock, lease and journal files together implement one log that is extended
\* by the writer of the current epoch only.
THEOREM Refinement == Spec => ImplementsFencedLog
BY LogInitial, LogStep, Invariance, PTL DEF Spec, ImplementsFencedLog, Log!LogSpec
=============================================================================
