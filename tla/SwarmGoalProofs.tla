--------------------------- MODULE SwarmGoalProofs ---------------------------
(***************************************************************************)
(* Proofs about SwarmGoal: the inductive invariant GoalInv, and from it    *)
(* the type invariant, the budget envelope, the decision that ends a goal  *)
(* and the revisions that are not run again.                               *)
(***************************************************************************)
EXTENDS SwarmGoal, FiniteSums, SequenceTheorems

-----------------------------------------------------------------------------
(* The journal.                                                            *)

\* The last event of a revision of the given kinds.
Last(K, r) == journal[Max(Places(K, r))]

\* The places of events are places of the journal.
LEMMA PlacesType ==
    ASSUME IsLog
    PROVE  /\ DOMAIN journal = 1..Len(journal)
           /\ \A K, r : /\ Places(K, r) \subseteq 1..Len(journal) /\ Places(K, r) \subseteq Nat
                        /\ IsFiniteSet(Places(K, r))
<1>1. Len(journal) \in Nat /\ DOMAIN journal = 1..Len(journal)
    BY DEF IsLog
<1>2. IsFiniteSet(1..Len(journal))
    BY <1>1, FS_Interval
<1>3. ASSUME NEW K, NEW r
      PROVE  /\ Places(K, r) \subseteq 1..Len(journal) /\ Places(K, r) \subseteq Nat
             /\ IsFiniteSet(Places(K, r))
    <2>1. Places(K, r) \subseteq 1..Len(journal)
        BY <1>1 DEF Places
    <2> QED BY <1>1, <1>2, <2>1, FS_Subset
<1> QED BY <1>1, <1>3

\* The last event is one of them.
LEMMA LastIs ==
    ASSUME IsLog, NEW K, NEW r, Places(K, r) # {}
    PROVE  /\ Max(Places(K, r)) \in DOMAIN journal /\ Max(Places(K, r)) \in Places(K, r)
           /\ Last(K, r).kind \in K /\ Last(K, r).rev = r
<1>1. Max(Places(K, r)) \in Places(K, r)
    BY PlacesType, MaxOfNat
<1> QED BY <1>1 DEF Places, Last

\* An event is appended behind the others.
LEMMA AppendedLog ==
    ASSUME IsLog, NEW e, journal' = Append(journal, e)
    PROVE  /\ IsLog' /\ Len(journal') = Len(journal) + 1 /\ DOMAIN journal' = 1..(Len(journal) + 1)
           /\ journal'[Len(journal) + 1] = e /\ \A i \in 1..Len(journal) : journal'[i] = journal[i]
<1> DEFINE S == {journal[i] : i \in 1..Len(journal)} \union {e}
<1>1. Len(journal) \in Nat /\ journal = [i \in 1..Len(journal) |-> journal[i]]
    BY DEF IsLog
<1>2. journal \in Seq(S) /\ e \in S
    <2>1. journal \in [1..Len(journal) -> S]
        BY <1>1
    <2> QED BY <1>1, <2>1, SeqDef
<1> HIDE DEF S
<1>3. /\ journal' \in Seq(S) /\ Len(journal') = Len(journal) + 1
      /\ journal'[Len(journal) + 1] = e /\ \A i \in 1..Len(journal) : journal'[i] = journal[i]
    BY <1>2, AppendProperties
<1>4. DOMAIN journal' = 1..(Len(journal) + 1) /\ journal' = [i \in 1..Len(journal') |-> journal'[i]]
    BY <1>3, LenProperties
<1> QED BY <1>1, <1>3, <1>4 DEF IsLog

\* What an appended event adds to the places.
LEMMA PlacesAppended ==
    ASSUME IsLog, NEW e, journal' = Append(journal, e), NEW K, NEW r
    PROVE  Places(K, r)' = IF e.kind \in K /\ e.rev = r THEN Places(K, r) \union {Len(journal) + 1}
                           ELSE Places(K, r)
<1>1. Len(journal) \in Nat /\ DOMAIN journal = 1..Len(journal)
    BY PlacesType DEF IsLog
<1>2. /\ DOMAIN journal' = 1..(Len(journal) + 1)
      /\ journal'[Len(journal) + 1] = e /\ \A i \in 1..Len(journal) : journal'[i] = journal[i]
    BY AppendedLog
<1>3. 1..(Len(journal) + 1) = 1..Len(journal) \union {Len(journal) + 1}
    BY <1>1
<1>4. ASSUME NEW i 
      PROVE  i \in Places(K, r)' <=>
                (i \in Places(K, r) \/ (i = Len(journal) + 1 /\ e.kind \in K /\ e.rev = r))
    <2>1. i \in Places(K, r)' <=> i \in DOMAIN journal' /\ journal'[i].kind \in K /\ journal'[i].rev = r
        BY DEF Places
    <2>2. i \in Places(K, r) <=> i \in 1..Len(journal) /\ journal[i].kind \in K /\ journal[i].rev = r
        BY <1>1 DEF Places
    <2>3. CASE i \in 1..Len(journal)
        <3>1. i # Len(journal) + 1
            BY <1>1, <2>3
        <3>2. i \in DOMAIN journal' /\ journal'[i] = journal[i]
            BY <1>2, <1>3, <2>3
        <3> QED BY <2>1, <2>2, <2>3, <3>1, <3>2
    <2>4. CASE i \notin 1..Len(journal)
        <3>1. i \in DOMAIN journal' <=> i = Len(journal) + 1
            BY <1>2, <1>3, <2>4
        <3> QED BY <1>2, <2>1, <2>2, <2>4, <3>1
    <2> QED BY <2>3, <2>4
<1> QED BY <1>4

\* The last event of a revision after an append.
LEMMA LastAppended ==
    ASSUME IsLog, NEW e, journal' = Append(journal, e), NEW K, NEW r
    PROVE  /\ e.kind \in K /\ e.rev = r => Last(K, r)' = e
           /\ ~(e.kind \in K /\ e.rev = r) /\ Places(K, r) # {} => Last(K, r)' = Last(K, r)
<1>1. /\ IsLog' /\ journal'[Len(journal) + 1] = e
      /\ \A i \in 1..Len(journal) : journal'[i] = journal[i]
    BY AppendedLog
<1>2. CASE e.kind \in K /\ e.rev = r
    <2>1. Places(K, r)' = Places(K, r) \union {Len(journal) + 1}
        BY <1>2, PlacesAppended
    <2>2. Len(journal) \in Nat /\ Places(K, r) \subseteq 1..Len(journal) /\ IsFiniteSet(Places(K, r))
        BY PlacesType DEF IsLog
    <2> DEFINE P == Places(K, r) \union {Len(journal) + 1}
    <2>3. P \subseteq Nat /\ IsFiniteSet(P) /\ Len(journal) + 1 \in P /\ \A y \in P : Len(journal) + 1 >= y
        <3>1. IsFiniteSet(P)
            BY <2>2, FS_AddElement
        <3> QED BY <2>2, <3>1
    <2> HIDE DEF P
    <2>4. Max(P) = Len(journal) + 1
        BY <2>3, MaxIs
    <2>5. Last(K, r)' = journal'[Max(P)]
        BY <2>1 DEF Last, P
    <2> QED BY <1>1, <1>2, <2>4, <2>5
<1>3. CASE ~(e.kind \in K /\ e.rev = r) /\ Places(K, r) # {}
    <2>1. Places(K, r)' = Places(K, r)
        BY <1>3, PlacesAppended
    <2>2. Max(Places(K, r)) \in 1..Len(journal)
        BY <1>3, LastIs, PlacesType
    <2> QED BY <1>1, <1>3, <2>1, <2>2 DEF Last
<1> QED BY <1>2, <1>3

\* The kinds of events that give a revision its status.
StatusKinds == {"proposed", "started", "awaitingAuthority", "awaitingApproval", "settled", "reused"}
LEMMA StatusDomain ==
    /\ DOMAIN StatusOf = StatusKinds
    /\ StatusOf["proposed"] = "proposed" /\ StatusOf["started"] = "running"
    /\ StatusOf["awaitingAuthority"] = "awaiting-approval"
    /\ StatusOf["awaitingApproval"] = "awaiting-approval"
    /\ StatusOf["settled"] = "settled" /\ StatusOf["reused"] = "settled"
BY DEF StatusOf, StatusKinds

\* What the events say, by their last places.
LEMMA ByLast ==
    /\ \A K, r : DataOf(K, r) = Last(K, r).data
    /\ \A r : Proposal(r) = Last({"proposed"}, r).data
    /\ \A r : Execution(r) = Last({"settled", "reused"}, r).data
    /\ \A r : Status(r) = StatusOf[Last(StatusKinds, r).kind]
BY StatusDomain DEF DataOf, Last, Proposal, Execution, Status

\* The journal with one event more, as its readers see it.
Extends(e) ==
    /\ IsLog'
    /\ \A k, r : Has(k, r)' <=> (Has(k, r) \/ (e.kind = k /\ e.rev = r))
    /\ \A r : WasSettled(r)' <=> (WasSettled(r) \/ (e.kind \in {"settled", "reused"} /\ e.rev = r))
    /\ Ended' <=> (Ended \/ e.kind \in Terminals)
    /\ \A r : e.kind = "proposed" /\ e.rev = r => Proposal(r)' = e.data
    /\ \A r : Has("proposed", r) /\ ~(e.kind = "proposed" /\ e.rev = r) => Proposal(r)' = Proposal(r)
    /\ \A r : e.kind = "charged" /\ e.rev = r => DataOf({"charged"}, r)' = e.data
    /\ \A r : Has("charged", r) /\ ~(e.kind = "charged" /\ e.rev = r)
                 => DataOf({"charged"}, r)' = DataOf({"charged"}, r)
    /\ \A r : e.kind \in {"settled", "reused"} /\ e.rev = r => Execution(r)' = e.data
    /\ \A r : WasSettled(r) /\ ~(e.kind \in {"settled", "reused"} /\ e.rev = r)
                 => Execution(r)' = Execution(r)
    /\ \A r : e.kind \in StatusKinds /\ e.rev = r => Status(r)' = StatusOf[e.kind]
    /\ \A r : Has("proposed", r) /\ ~(e.kind \in StatusKinds /\ e.rev = r) => Status(r)' = Status(r)

LEMMA Grown ==
    ASSUME IsLog, NEW e, journal' = Append(journal, e)
    PROVE  Extends(e)
<1>1. /\ IsLog' /\ DOMAIN journal' = 1..(Len(journal) + 1) /\ DOMAIN journal = 1..Len(journal)
      /\ Len(journal) \in Nat
      /\ journal'[Len(journal) + 1] = e /\ \A i \in 1..Len(journal) : journal'[i] = journal[i]
    BY AppendedLog, PlacesType DEF IsLog
<1>2. \A K, r : Places(K, r)' # {} <=> (Places(K, r) # {} \/ (e.kind \in K /\ e.rev = r))
    BY PlacesAppended
<1>3. \A K, r : /\ e.kind \in K /\ e.rev = r => Last(K, r)' = e
                /\ ~(e.kind \in K /\ e.rev = r) /\ Places(K, r) # {} => Last(K, r)' = Last(K, r)
    BY LastAppended
<1>4. \A k, r : Has(k, r)' <=> (Has(k, r) \/ (e.kind = k /\ e.rev = r))
    <2>1. ASSUME NEW k, NEW r PROVE Has(k, r)' <=> (Has(k, r) \/ (e.kind = k /\ e.rev = r))
        <3>1. Places({k}, r)' # {} <=> (Places({k}, r) # {} \/ (e.kind \in {k} /\ e.rev = r))
            BY <1>2
        <3> QED BY <3>1 DEF Has
    <2> QED BY <2>1
<1>5. \A r : WasSettled(r)' <=> (WasSettled(r) \/ (e.kind \in {"settled", "reused"} /\ e.rev = r))
    BY <1>2 DEF WasSettled
<1>6. Ended' <=> (Ended \/ e.kind \in Terminals)
    <2>1. CASE Ended
        <3>1. PICK i \in 1..Len(journal) : journal[i].kind \in Terminals
            BY <1>1, <2>1 DEF Ended
        <3>2. i \in DOMAIN journal' /\ journal'[i] = journal[i]
            BY <1>1
        <3> QED BY <2>1, <3>1, <3>2 DEF Ended
    <2>2. CASE e.kind \in Terminals
        <3>1. Len(journal) + 1 \in DOMAIN journal'
            BY <1>1
        <3> QED BY <1>1, <2>2, <3>1 DEF Ended
    <2>3. CASE ~Ended /\ e.kind \notin Terminals
        <3>1. ASSUME NEW i \in 1..(Len(journal) + 1) PROVE journal'[i].kind \notin Terminals
            BY <1>1, <2>3 DEF Ended
        <3> QED BY <1>1, <2>3, <3>1 DEF Ended
    <2> QED BY <2>1, <2>2, <2>3
<1>7. \A r : Has("proposed", r) => Places({"proposed"}, r) # {} /\ Places(StatusKinds, r) # {}
    BY DEF Has, Places, StatusKinds
<1>8. \A r : Has("charged", r) => Places({"charged"}, r) # {}
    BY DEF Has
<1>9. \A r : WasSettled(r) => Places({"settled", "reused"}, r) # {}
    BY DEF WasSettled
<1>10. ASSUME NEW r
       PROVE  /\ Proposal(r)' = Last({"proposed"}, r)'.data /\ Execution(r)' = Last({"settled", "reused"}, r)'.data
              /\ DataOf({"charged"}, r)' = Last({"charged"}, r)'.data
              /\ Status(r)' = StatusOf[Last(StatusKinds, r)'.kind]
    BY StatusDomain DEF DataOf, Last, Proposal, Execution, Status
<1>11. ASSUME NEW r
       PROVE  /\ e.kind = "proposed" /\ e.rev = r => Proposal(r)' = e.data
              /\ Has("proposed", r) /\ ~(e.kind = "proposed" /\ e.rev = r) => Proposal(r)' = Proposal(r)
    BY <1>3, <1>7, <1>10, ByLast
<1>12. ASSUME NEW r
       PROVE  /\ e.kind = "charged" /\ e.rev = r => DataOf({"charged"}, r)' = e.data
              /\ Has("charged", r) /\ ~(e.kind = "charged" /\ e.rev = r)
                    => DataOf({"charged"}, r)' = DataOf({"charged"}, r)
    BY <1>3, <1>8, <1>10, ByLast
<1>13. ASSUME NEW r
       PROVE  /\ e.kind \in {"settled", "reused"} /\ e.rev = r => Execution(r)' = e.data
              /\ WasSettled(r) /\ ~(e.kind \in {"settled", "reused"} /\ e.rev = r)
                    => Execution(r)' = Execution(r)
    BY <1>3, <1>9, <1>10, ByLast
<1>14. ASSUME NEW r
       PROVE  /\ e.kind \in StatusKinds /\ e.rev = r => Status(r)' = StatusOf[e.kind]
              /\ Has("proposed", r) /\ ~(e.kind \in StatusKinds /\ e.rev = r) => Status(r)' = Status(r)
    BY <1>3, <1>7, <1>10, ByLast
<1> QED BY <1>1, <1>4, <1>5, <1>6, <1>11, <1>12, <1>13, <1>14 DEF Extends

-----------------------------------------------------------------------------
(* What the readers derive from the events.                                *)

\* The data of events have their types.
LEMMA DataTypes ==
    ASSUME TypeOK, IsLog
    PROVE  /\ Proposed \subseteq Revisions
           /\ \A r \in Proposed : Proposal(r) \in Proposals /\ Status(r) \in Statuses
           /\ \A r : WasSettled(r) => Execution(r) \in Outcomes
           /\ \A r : Has("charged", r) => DataOf({"charged"}, r) \in 0..Worst /\ Has("reserved", r)
           /\ \A r \in Proposed : Status(r) = "settled" => WasSettled(r)
           /\ \A r \in Proposed : Status(r) = "running" => Has("started", r)
           /\ \A r \in Proposed : Status(r) = "awaiting-approval"
                                    => Has("awaitingAuthority", r) \/ Has("awaitingApproval", r)
<1>1. Proposed \subseteq Revisions
    BY DEF Proposed
<1>2. ASSUME NEW K, NEW r, Places(K, r) # {}
      PROVE  /\ Last(K, r).kind \in K /\ Last(K, r).rev = r
             /\ Last(K, r).kind = "proposed" => Last(K, r).data \in Proposals
             /\ Last(K, r).kind \in {"settled", "reused"} => Last(K, r).data \in Outcomes
             /\ Last(K, r).kind = "charged" => Last(K, r).data \in 0..Worst /\ Has("reserved", r)
             /\ Places({Last(K, r).kind}, r) # {}
    <2> DEFINE m == Max(Places(K, r))
    <2>1. m \in DOMAIN journal /\ Last(K, r) = journal[m] /\ journal[m].kind \in K /\ journal[m].rev = r
        BY <1>2, LastIs DEF Last
    <2> HIDE DEF m
    <2>2. m \in Places({journal[m].kind}, r)
        BY <2>1 DEF Places
    <2> QED BY <2>1, <2>2 DEF TypeOK
<1>3. ASSUME NEW r \in Proposed
      PROVE  /\ Proposal(r) \in Proposals /\ Status(r) \in Statuses
             /\ Status(r) = "settled" => WasSettled(r)
             /\ Status(r) = "running" => Has("started", r)
             /\ Status(r) = "awaiting-approval" => Has("awaitingAuthority", r) \/ Has("awaitingApproval", r)
    <2>1. Places({"proposed"}, r) # {} /\ Places(StatusKinds, r) # {}
        BY DEF Proposed, Has, Places, StatusKinds
    <2>2. Proposal(r) \in Proposals
        BY <1>2, <2>1, ByLast
    <2> DEFINE k == Last(StatusKinds, r).kind
    <2>3. k \in StatusKinds /\ Status(r) = StatusOf[k] /\ Places({k}, r) # {}
        BY <1>2, <2>1, ByLast
    <2> HIDE DEF k
    <2>4. Places({"settled"}, r) # {} \/ Places({"reused"}, r) # {} => WasSettled(r)
        BY DEF WasSettled, Places
    <2>5. /\ k = "proposed" => Status(r) = "proposed"
          /\ k = "started" => Status(r) = "running"
          /\ k \in {"awaitingAuthority", "awaitingApproval"} => Status(r) = "awaiting-approval"
          /\ k \in {"settled", "reused"} => Status(r) = "settled"
        BY <2>3, StatusDomain
    <2> QED BY <2>2, <2>3, <2>4, <2>5 DEF Has, StatusKinds, Statuses
<1>4. ASSUME NEW r, WasSettled(r) PROVE Execution(r) \in Outcomes
    BY <1>2, <1>4, ByLast DEF WasSettled
<1>5. ASSUME NEW r, Has("charged", r) PROVE DataOf({"charged"}, r) \in 0..Worst /\ Has("reserved", r)
    <2>1. Places({"charged"}, r) # {}
        BY <1>5 DEF Has
    <2>2. Last({"charged"}, r).kind = "charged"
        BY <2>1, LastIs
    <2> QED BY <1>2, <2>1, <2>2, ByLast
<1> QED BY <1>1, <1>3, <1>4, <1>5

\* Counts over revisions whose proposals are the same.
LEMMA SameCounts ==
    ASSUME NEW S, \A r \in S : Proposal(r)' = Proposal(r)
    PROVE  PriorCoverage(S)' = PriorCoverage(S) /\ NoProgress(S)' = NoProgress(S)
<1>1. ASSUME NEW T, T \subseteq S PROVE PriorCoverage(T)' = PriorCoverage(T)
    <2>1. {Proposal(r).coverage : r \in T}' = {Proposal(r).coverage : r \in T}
        BY <1>1
    <2> QED BY <2>1 DEF PriorCoverage
<1>2. ASSUME NEW r \in S PROVE Raises(r, S)' <=> Raises(r, S)
    <2>1. PriorCoverage({q \in S : q < r})' = PriorCoverage({q \in S : q < r})
        BY <1>1
    <2> QED BY <2>1 DEF Raises
<1>3. {r \in S : \A q \in S : q >= r => ~Raises(q, S)}' = {r \in S : \A q \in S : q >= r => ~Raises(q, S)}
    BY <1>2
<1> QED BY <1>1, <1>3 DEF NoProgress

\* Two states in which the revisions look the same.
SameView ==
    /\ Proposed' = Proposed
    /\ \A r \in Proposed :
          /\ Proposal(r)' = Proposal(r) /\ Status(r)' = Status(r) /\ (WasSettled(r)' <=> WasSettled(r))
          /\ WasSettled(r) => Execution(r)' = Execution(r)

LEMMA SameDerived ==
    ASSUME TypeOK, IsLog, SameView
    PROVE  /\ Settled' = Settled /\ Verified' = Verified /\ (SettledNodes' <=> SettledNodes)
           /\ Demoted' = Demoted
           /\ \A r \in Proposed : /\ ExactVerifiedReuse(r)' <=> ExactVerifiedReuse(r)
                                  /\ VerifiedBefore(r)' <=> VerifiedBefore(r)
           /\ \A r : IsCurrent(r)' <=> IsCurrent(r)
           /\ NoProgress(Settled)' = NoProgress(Settled) /\ PriorCoverage(Settled)' = PriorCoverage(Settled)
<1>1. Settled' = Settled /\ Demoted' = Demoted
    BY DEF SameView, Settled, Demoted
<1>2. \A r \in Settled : r \in Proposed /\ WasSettled(r)
    BY DataTypes DEF Settled
<1>3. Verified' = Verified
    BY <1>1, <1>2 DEF SameView, Verified
<1>4. SettledNodes' <=> SettledNodes
    BY DEF SameView, SettledNodes
<1>5. \A r \in Proposed : (ExactVerifiedReuse(r)' <=> ExactVerifiedReuse(r)) /\ (VerifiedBefore(r)' <=> VerifiedBefore(r))
    BY <1>3, <1>4 DEF SameView, ExactVerifiedReuse, VerifiedBefore
<1>6. \A r : IsCurrent(r)' <=> IsCurrent(r)
    BY DEF SameView, IsCurrent
<1>7. PICK S : S = Settled
    OBVIOUS
<1>8. PriorCoverage(S)' = PriorCoverage(S) /\ NoProgress(S)' = NoProgress(S)
    BY <1>2, <1>7, SameCounts DEF SameView
<1>9. PriorCoverage(Settled)' = PriorCoverage(S)' /\ NoProgress(Settled)' = NoProgress(S)'
    BY <1>1, <1>7 DEF PriorCoverage, NoProgress, Raises
<1> QED BY <1>1, <1>3, <1>4, <1>5, <1>6, <1>7, <1>8, <1>9

\* An event that is not of a revision's course leaves the view as it is.
LEMMA QuietView ==
    ASSUME NEW e, Extends(e), e.kind \notin StatusKinds
    PROVE  SameView
<1>1. Proposed' = Proposed
    BY DEF Proposed, Extends, StatusKinds
<1> QED BY <1>1 DEF SameView, Extends, StatusKinds, Proposed

\* No event, no change.
LEMMA NoEvent ==
    ASSUME journal' = journal
    PROVE  /\ SameView /\ (Ended' <=> Ended) /\ \A k, r : Has(k, r)' <=> Has(k, r)
           /\ \A r : WasSettled(r)' <=> WasSettled(r)
           /\ \A K, r : DataOf(K, r)' = DataOf(K, r)
           /\ \A r : Proposal(r)' = Proposal(r) /\ Execution(r)' = Execution(r) /\ Status(r)' = Status(r)
<1>1. \A K, r : Places(K, r)' = Places(K, r)
    BY DEF Places
<1>2. \A K, r : DataOf(K, r)' = DataOf(K, r)
    BY <1>1 DEF DataOf
<1>3. \A r : Proposal(r)' = Proposal(r) /\ Execution(r)' = Execution(r) /\ (WasSettled(r)' <=> WasSettled(r))
    BY <1>1, <1>2 DEF Proposal, Execution, WasSettled
<1>4. \A r : Status(r)' = Status(r)
    BY <1>1 DEF Status
<1>5. \A k, r : Has(k, r)' <=> Has(k, r)
    BY <1>1 DEF Has
<1>6. Proposed' = Proposed
    BY <1>5 DEF Proposed
<1> QED BY <1>2, <1>3, <1>4, <1>5, <1>6 DEF SameView, Ended

-----------------------------------------------------------------------------
(* The journal's part of the invariant, event by event.                    *)

\* The kinds of events of a revision that is proposed.
CourseKinds == {"awaitingAuthority", "awaitingApproval", "reserved", "started", "charged", "settled", "reused"}

\* The ids stay unique.
LEMMA OneMore ==
    ASSUME IsLog, OneOfEach, NEW e, journal' = Append(journal, e), ~Has(e.kind, e.rev)
    PROVE  OneOfEach'
<1>1. /\ Len(journal) \in Nat /\ DOMAIN journal = 1..Len(journal) /\ DOMAIN journal' = 1..(Len(journal) + 1)
      /\ journal'[Len(journal) + 1] = e /\ \A i \in 1..Len(journal) : journal'[i] = journal[i]
    BY AppendedLog, PlacesType DEF IsLog
<1>2. \A i \in 1..Len(journal) : ~(journal[i].kind = e.kind /\ journal[i].rev = e.rev)
    BY <1>1 DEF Has, Places
<1>3. \A i \in 1..(Len(journal) + 1) : i \in 1..Len(journal) \/ i = Len(journal) + 1
    BY <1>1
<1>4. ASSUME NEW i \in 1..(Len(journal) + 1), NEW j \in 1..(Len(journal) + 1),
             journal'[i].kind = journal'[j].kind, journal'[i].rev = journal'[j].rev
      PROVE  i = j
    <2>1. CASE i \in 1..Len(journal) /\ j \in 1..Len(journal)
        BY <1>1, <1>4, <2>1 DEF OneOfEach
    <2>2. CASE i \in 1..Len(journal) /\ j = Len(journal) + 1
        BY <1>1, <1>2, <1>4, <2>2
    <2>3. CASE i = Len(journal) + 1 /\ j \in 1..Len(journal)
        BY <1>1, <1>2, <1>4, <2>3
    <2> QED BY <1>3, <2>1, <2>2, <2>3
<1> QED BY <1>1, <1>4 DEF OneOfEach

\* An event of the current revision leaves the others as they are.
LEMMA OthersKeep ==
    ASSUME TypeOK, LogInv, NEW e, Extends(e), e.kind \in CourseKinds, NEW r \in Proposed, e.rev = r,
           IsCurrent(r), child' = child,
           e.kind = "settled" => ~WasSettled(r), e.kind = "reused" => e.data.reusable
    PROVE  /\ Proposed' = Proposed /\ OneByOne'
           /\ SettledNodes => SettledNodes'
           /\ VerifiedBefore(r)' <=> VerifiedBefore(r)
           /\ \A q \in Revisions : q # r => History(q)' /\ ReuseOK(q)'
<1>0. /\ IsLog /\ OneByOne /\ \A q \in Revisions : History(q) /\ ReuseOK(q)
      /\ Proposed \subseteq Revisions /\ Revisions \subseteq Nat
    BY DataTypes DEF LogInv, Revisions
<1>1. Proposed' = Proposed
    BY DEF Proposed, Extends, CourseKinds
<1>2. ASSUME NEW q, q # r
      PROVE  /\ \A k : Has(k, q)' <=> Has(k, q)
             /\ WasSettled(q)' <=> WasSettled(q)
             /\ WasSettled(q) => Execution(q)' = Execution(q)
             /\ Has("proposed", q) => Proposal(q)' = Proposal(q) /\ Status(q)' = Status(q)
    BY <1>2 DEF Extends
<1>3. Has("proposed", r) /\ Proposal(r)' = Proposal(r)
    BY DEF Extends, CourseKinds, Proposed
<1>4. OneByOne'
    <2>1. ASSUME NEW t \in Proposed, NEW q \in Revisions, q < t PROVE q \in Proposed /\ WasSettled(q)'
        BY <1>0, <2>1 DEF OneByOne, Extends
    <2> QED BY <1>1, <2>1 DEF OneByOne
<1>5. SettledNodes => SettledNodes'
    <2>1. ASSUME NEW q \in Proposed, WasSettled(q), Execution(q).reusable
          PROVE  WasSettled(q)' /\ Execution(q)'.reusable
        <3>1. CASE q # r
            BY <1>2, <2>1, <3>1
        <3>2. CASE q = r /\ e.kind = "reused"
            BY <3>2 DEF Extends
        <3>3. CASE q = r /\ e.kind # "reused"
            BY <2>1, <3>3 DEF Extends
        <3> QED BY <3>1, <3>2, <3>3
    <2> QED BY <1>1, <2>1 DEF SettledNodes
<1>6. ASSUME NEW q \in Proposed, q # r PROVE q \in Verified' <=> q \in Verified
    <2>1. (Status(q)' = Status(q)) /\ (Status(q) = "settled" => Execution(q)' = Execution(q))
        BY <1>0, <1>2, <1>6, DataTypes DEF Proposed
    <2> QED BY <1>1, <2>1 DEF Verified, Settled
<1>7. ASSUME NEW q \in Proposed PROVE VerifiedBefore(q)' <=> VerifiedBefore(q)
    <2>1. q <= r /\ q \in Nat /\ r \in Nat
        BY <1>0 DEF IsCurrent
    <2>2. Verified \subseteq Proposed /\ Verified' \subseteq Proposed
        BY <1>1 DEF Verified, Settled
    <2>3. ASSUME NEW t \in Proposed, t < q PROVE t \in Verified' <=> t \in Verified
        <3>1. t # r
            BY <1>0, <2>1, <2>3
        <3> QED BY <1>6, <3>1
    <2> QED BY <2>2, <2>3 DEF VerifiedBefore
<1>8. ASSUME NEW q \in Revisions, q # r, q \notin Proposed PROVE History(q)' /\ ReuseOK(q)'
    <2>1. /\ \A k \in CourseKinds : ~Has(k, q)'
          /\ ~WasSettled(q)'
        <3>1. \A k \in CourseKinds : ~Has(k, q)
            BY <1>0, <1>8 DEF History, CourseKinds
        <3>2. WasSettled(q) => Has("settled", q) \/ Has("reused", q)
            BY DEF WasSettled, Has, Places
        <3> QED BY <1>2, <1>8, <3>1, <3>2 DEF CourseKinds
    <2>2. q \notin Proposed'
        BY <1>1, <1>8
    <2> QED BY <2>1, <2>2 DEF History, ReuseOK, CourseKinds
<1>9. ASSUME NEW q \in Revisions, q # r, q \in Proposed PROVE History(q)' /\ ReuseOK(q)'
    <2>1. WasSettled(q) /\ Has("proposed", q)
        <3>1. q < r /\ Has("proposed", q)
            BY <1>0, <1>9 DEF IsCurrent, Proposed
        <3> QED BY <1>0, <3>1 DEF OneByOne
    <2>2. History(q) /\ ReuseOK(q)
        BY <1>0
    <2>3. History(q)'
        BY <1>1, <1>2, <1>9, <2>1, <2>2 DEF History
    <2>4. Has("reserved", q) => Has("charged", q)
        BY <2>1, <2>2 DEF ReuseOK
    <2> QED BY <1>2, <1>5, <1>7, <1>9, <2>1, <2>2, <2>3, <2>4 DEF ReuseOK
<1> QED BY <1>1, <1>4, <1>5, <1>7, <1>8, <1>9

\* Events of a revision, by what they need.
Fitting(e, r) ==
    /\ e.kind = "awaitingAuthority" => Proposal(r).expands
    /\ e.kind \in {"awaitingApproval", "started"} => ~WasSettled(r)
    /\ e.kind = "reserved" => ~ExactVerifiedReuse(r)
    /\ e.kind = "charged" => Has("reserved", r)
    /\ e.kind = "settled" => ~WasSettled(r) /\ Has("charged", r) /\ Has("started", r) /\ child[r] # NoResult
    /\ e.kind = "reused" => ExactVerifiedReuse(r) /\ e.data.reusable /\ e.data.verdict = "pass"

\* An event of the current revision keeps the journal's part of the invariant.
LEMMA CourseStep ==
    ASSUME TypeOK, LogInv, NEW e, journal' = Append(journal, e), ~Has(e.kind, e.rev),
           e.kind \in CourseKinds, NEW r \in Proposed, e.rev = r, IsCurrent(r), child' = child, Fitting(e, r)
    PROVE  LogInv'
<1>0. IsLog /\ OneOfEach /\ OneByOne /\ History(r) /\ ReuseOK(r) /\ r \in Revisions
    BY DEF LogInv, Proposed
<1>1. Extends(e)
    BY <1>0, Grown
<1>2. /\ Proposed' = Proposed /\ OneByOne' /\ (SettledNodes => SettledNodes')
      /\ VerifiedBefore(r)' <=> VerifiedBefore(r)
      /\ \A q \in Revisions : q # r => History(q)' /\ ReuseOK(q)'
    <2>1. (e.kind = "settled" => ~WasSettled(r)) /\ (e.kind = "reused" => e.data.reusable)
        BY DEF Fitting
    <2> QED BY <1>1, <2>1, OthersKeep
<1>3. IsLog' /\ OneOfEach'
    BY <1>0, AppendedLog, OneMore
<1>4. /\ \A k : Has(k, r)' <=> (Has(k, r) \/ e.kind = k)
      /\ WasSettled(r)' <=> (WasSettled(r) \/ e.kind \in {"settled", "reused"})
      /\ Proposal(r)' = Proposal(r) /\ Has("proposed", r)
      /\ e.kind \in {"settled", "reused"} => Execution(r)' = e.data
      /\ WasSettled(r) /\ e.kind \notin {"settled", "reused"} => Execution(r)' = Execution(r)
      /\ e.kind \in StatusKinds => Status(r)' = StatusOf[e.kind]
      /\ e.kind \notin StatusKinds => Status(r)' = Status(r)
    BY <1>1 DEF Extends, CourseKinds, Proposed
<1>5. WasSettled(r) <=> Has("settled", r) \/ Has("reused", r)
    BY DEF WasSettled, Has, Places
<1>6. History(r)'
    <2>1. Has("settled", r)' => Has("charged", r)' /\ Has("started", r)' /\ child'[r] # NoResult
        BY <1>0, <1>4 DEF History, Fitting
    <2>2. Has("awaitingAuthority", r)' => Proposal(r)'.expands
        BY <1>0, <1>4 DEF History, Fitting
    <2>3. Proposal(r)'.decision = "complete" => Proposal(r)'.coverage >= Target
        BY <1>0, <1>4 DEF History
    <2>4. WasSettled(r)' /\ ~Has("awaitingAuthority", r)' => Status(r)' = "settled"
        <3>1. CASE e.kind \in {"settled", "reused"}
            BY <1>4, <3>1, StatusDomain DEF StatusKinds
        <3>2. CASE e.kind \in {"reserved", "charged"}
            BY <1>0, <1>4, <3>2 DEF History, StatusKinds
        <3>3. CASE e.kind \in {"awaitingApproval", "started", "awaitingAuthority"}
            BY <1>4, <3>3 DEF Fitting
        <3> QED BY <3>1, <3>2, <3>3 DEF CourseKinds
    <2> QED BY <1>2, <2>1, <2>2, <2>3, <2>4 DEF History
<1>7. ASSUME Has("reused", r)'
      PROVE  /\ AllowReuse /\ r > 0 /\ Proposal(r)'.decision = "complete" /\ Proposal(r)'.reuse
             /\ SettledNodes' /\ (Has("settled", r)' \/ VerifiedBefore(r)')
             /\ Execution(r)'.verdict = "pass"
    <2>1. CASE e.kind = "reused"
        <3>1. ExactVerifiedReuse(r) /\ e.data.reusable /\ e.data.verdict = "pass"
            BY <2>1 DEF Fitting
        <3>2. SettledNodes'
            BY <1>2, <1>4, <2>1, <3>1 DEF SettledNodes
        <3>3. PICK q \in Verified : TRUE
            BY <3>1 DEF ExactVerifiedReuse
        <3>4. q \in Proposed /\ q <= r /\ Status(q) = "settled" /\ q \in Nat /\ r \in Nat
            BY <1>0, <3>3 DEF Verified, Settled, IsCurrent, Proposed, Revisions
        <3>5. Has("settled", r) \/ VerifiedBefore(r)
            <4>1. CASE q = r
                <5>1. WasSettled(r)
                    BY <1>0, <3>4, <4>1, DataTypes
                <5>2. ~Has("reused", r)
                    BY <2>1
                <5> QED BY <1>5, <5>1, <5>2
            <4>2. CASE q # r
                BY <3>3, <3>4, <4>2 DEF VerifiedBefore
            <4> QED BY <4>1, <4>2
        <3> QED BY <1>2, <1>4, <2>1, <3>1, <3>2, <3>5 DEF ExactVerifiedReuse
    <2>2. CASE e.kind # "reused"
        <3>1. Has("reused", r) /\ WasSettled(r)
            BY <1>4, <1>5, <1>7, <2>2
        <3>2. e.kind # "settled"
            BY <3>1 DEF Fitting
        <3> QED BY <1>0, <1>2, <1>4, <2>2, <3>1, <3>2 DEF ReuseOK
    <2> QED BY <2>1, <2>2
<1>8. ASSUME Has("reserved", r)', ~Has("charged", r)' PROVE ~WasSettled(r)' /\ ~ExactVerifiedReuse(r)'
    <2>1. ~WasSettled(r) /\ ~ExactVerifiedReuse(r) /\ e.kind # "charged" /\ ~Has("charged", r)
        <3>1. ~Has("charged", r) /\ e.kind # "charged"
            BY <1>4, <1>8
        <3>2. CASE Has("reserved", r)
            BY <1>0, <3>1, <3>2 DEF ReuseOK
        <3>3. CASE ~Has("reserved", r)
            <4>1. ~ExactVerifiedReuse(r)
                BY <1>4, <1>8, <3>3 DEF Fitting
            <4>2. SUFFICES ASSUME WasSettled(r) PROVE FALSE
                BY <3>1, <4>1
            <4>3. ~Has("settled", r)
                BY <1>0, <3>1 DEF History
            <4>4. Has("reused", r)
                BY <1>5, <4>2, <4>3
            <4>5. PICK q \in Verified : q < r
                BY <1>0, <4>3, <4>4 DEF ReuseOK, VerifiedBefore
            <4> QED BY <1>0, <4>1, <4>4, <4>5 DEF ReuseOK, ExactVerifiedReuse
        <3> QED BY <3>1, <3>2, <3>3
    <2>2. e.kind \notin {"settled", "reused"}
        BY <2>1 DEF Fitting
    <2>3. ~WasSettled(r)'
        BY <1>4, <2>1, <2>2
    <2>4. \A q \in Proposed : q # r => /\ Status(q)' = Status(q) /\ (WasSettled(q)' <=> WasSettled(q))
                                       /\ WasSettled(q) => Execution(q)' = Execution(q)
        BY <1>1 DEF Extends, Proposed
    <2>5. SettledNodes' => SettledNodes
        BY <1>2, <2>3, <2>4 DEF SettledNodes
    <2>6. Status(r)' # "settled" /\ Status(r) # "settled"
        <3>1. Status(r) # "settled"
            BY <1>0, <2>1, DataTypes
        <3> QED BY <1>4, <2>1, <2>2, <3>1, StatusDomain DEF StatusKinds, CourseKinds
    <2>7. Verified' = Verified
        <3>1. Settled' = Settled
            BY <1>2, <2>4, <2>6 DEF Settled
        <3>2. \A q \in Settled : q # r /\ q \in Proposed /\ WasSettled(q)
            BY <1>0, <2>6, DataTypes DEF Settled
        <3> QED BY <2>4, <3>1, <3>2 DEF Verified
    <2> QED BY <1>4, <2>1, <2>3, <2>5, <2>7 DEF ExactVerifiedReuse
<1>9. ReuseOK(r)'
    BY <1>7, <1>8 DEF ReuseOK
<1> QED BY <1>2, <1>3, <1>6, <1>9 DEF LogInv

\* A new proposal.
LEMMA ProposedStep ==
    ASSUME TypeOK, LogInv, NEW e, journal' = Append(journal, e), e.kind = "proposed",
           NEW r \in Revisions, e.rev = r, r \notin Proposed, child' = child,
           \A q \in Proposed : q < r, \A q \in Revisions : q < r => q \in Proposed /\ WasSettled(q),
           e.data.decision = "complete" => e.data.coverage >= Target
    PROVE  /\ LogInv' /\ IsCurrent(r)' /\ Proposed' = Proposed \union {r}
           /\ Status(r)' = "proposed" /\ Settled' = Settled /\ Demoted' = Demoted
           /\ ~WasSettled(r)' /\ Proposal(r)' = e.data
<1>0. /\ IsLog /\ OneOfEach /\ OneByOne /\ \A q \in Revisions : History(q) /\ ReuseOK(q)
      /\ Revisions \subseteq Nat /\ Proposed \subseteq Revisions
    BY DataTypes DEF LogInv, Revisions
<1>1. Extends(e)
    BY <1>0, Grown
<1>2. IsLog' /\ OneOfEach'
    <2>1. ~Has(e.kind, e.rev)
        BY DEF Proposed
    <2> QED BY <1>0, <2>1, AppendedLog, OneMore
<1>3. Proposed' = Proposed \union {r}
    BY <1>1 DEF Extends, Proposed
<1>4. /\ \A k, q : k # "proposed" => (Has(k, q)' <=> Has(k, q))
      /\ \A q : WasSettled(q)' <=> WasSettled(q)
      /\ \A q : WasSettled(q) => Execution(q)' = Execution(q)
      /\ \A q \in Proposed : Proposal(q)' = Proposal(q) /\ Status(q)' = Status(q)
    BY <1>1 DEF Extends, Proposed
<1>5. /\ \A k \in CourseKinds : ~Has(k, r)
      /\ ~WasSettled(r)
    <2>1. \A k \in CourseKinds : ~Has(k, r)
        BY <1>0 DEF History, CourseKinds
    <2>2. WasSettled(r) => Has("settled", r) \/ Has("reused", r)
        BY DEF WasSettled, Has, Places
    <2> QED BY <2>1, <2>2 DEF CourseKinds
<1>6. Status(r)' = "proposed" /\ Proposal(r)' = e.data
    BY <1>1, StatusDomain DEF Extends, StatusKinds
<1>7. Settled' = Settled /\ Demoted' = Demoted
    BY <1>3, <1>4, <1>5, <1>6 DEF Settled, Demoted
<1>8. Verified' = Verified /\ (SettledNodes' <=> SettledNodes)
    <2>1. \A q \in Settled : WasSettled(q)
        BY <1>0, DataTypes DEF Settled
    <2> QED BY <1>3, <1>4, <1>5, <1>7, <2>1 DEF Verified, SettledNodes
<1>9. OneByOne'
    BY <1>0, <1>3, <1>4 DEF OneByOne
<1>10. IsCurrent(r)'
    BY <1>0, <1>3 DEF IsCurrent
<1>11. History(r)' /\ ReuseOK(r)'
    <2>1. \A k \in CourseKinds : ~Has(k, r)'
        BY <1>4, <1>5 DEF CourseKinds
    <2> QED BY <1>3, <1>4, <1>5, <1>6, <2>1 DEF History, ReuseOK, CourseKinds
<1>12. ASSUME NEW q \in Revisions, q # r PROVE History(q)' /\ ReuseOK(q)'
    <2>1. CASE q \in Proposed
        <3>1. WasSettled(q) /\ History(q) /\ ReuseOK(q)
            BY <1>0, <2>1
        <3>2. Has("reserved", q) => Has("charged", q)
            BY <3>1 DEF ReuseOK
        <3>3. VerifiedBefore(q)' <=> VerifiedBefore(q)
            BY <1>8 DEF VerifiedBefore
        <3>4. History(q)'
            BY <1>3, <1>4, <2>1, <3>1 DEF History
        <3>5. ReuseOK(q)'
            BY <1>4, <1>8, <2>1, <3>1, <3>2, <3>3 DEF ReuseOK
        <3> QED BY <3>4, <3>5
    <2>2. CASE q \notin Proposed
        <3>1. \A k \in CourseKinds : ~Has(k, q)'
            BY <1>0, <1>4, <2>2 DEF History, CourseKinds
        <3>2. ~WasSettled(q)'
            <4>1. WasSettled(q) => Has("settled", q) \/ Has("reused", q)
                BY DEF WasSettled, Has, Places
            <4> QED BY <1>4, <3>1, <4>1 DEF CourseKinds
        <3> QED BY <1>3, <1>12, <2>2, <3>1, <3>2 DEF History, ReuseOK, CourseKinds
    <2> QED BY <2>1, <2>2
<1> QED BY <1>2, <1>3, <1>4, <1>5, <1>6, <1>7, <1>9, <1>10, <1>11, <1>12 DEF LogInv

\* Events of the goal as a whole, and no event at all.
LEMMA SameLog ==
    ASSUME TypeOK, LogInv, SameView, IsLog', OneOfEach',
           \A k \in CourseKinds : \A r \in Revisions : Has(k, r)' <=> Has(k, r),
           \A r \in Revisions : WasSettled(r)' <=> WasSettled(r),
           \A r \in Revisions : child[r] # NoResult => child'[r] # NoResult
    PROVE  LogInv'
<1>0. /\ IsLog /\ OneOfEach /\ OneByOne /\ Proposed \subseteq Revisions
    BY DataTypes DEF LogInv
<1>1. /\ SettledNodes' <=> SettledNodes
      /\ \A r \in Proposed : /\ ExactVerifiedReuse(r)' <=> ExactVerifiedReuse(r)
                             /\ VerifiedBefore(r)' <=> VerifiedBefore(r)
    BY <1>0, SameDerived
<1>2. OneByOne'
    BY <1>0 DEF OneByOne, SameView
<1>3. ASSUME NEW r \in Revisions PROVE History(r)' /\ ReuseOK(r)'
    <2>1. History(r) /\ ReuseOK(r) /\ (r \in Proposed' <=> r \in Proposed)
        BY DEF LogInv, SameView
    <2>2. CASE r \in Proposed
        <3>1. /\ Proposal(r)' = Proposal(r) /\ Status(r)' = Status(r) /\ (WasSettled(r)' <=> WasSettled(r))
              /\ WasSettled(r) => Execution(r)' = Execution(r)
            BY <2>2 DEF SameView
        <3>2. Has("reused", r) => WasSettled(r)
            BY DEF Has, WasSettled, Places
        <3>3. History(r)'
            BY <2>1, <2>2, <3>1 DEF History, CourseKinds
        <3>4. ReuseOK(r)'
            BY <1>1, <2>1, <2>2, <3>1, <3>2 DEF ReuseOK, CourseKinds
        <3> QED BY <3>3, <3>4
    <2>3. CASE r \notin Proposed
        <3>1. \A k \in CourseKinds : ~Has(k, r)'
            BY <2>1, <2>3 DEF History, CourseKinds
        <3>2. ~WasSettled(r)'
            <4>1. WasSettled(r) => Has("settled", r) \/ Has("reused", r)
                BY DEF WasSettled, Has, Places
            <4> QED BY <3>1, <4>1 DEF CourseKinds
        <3> QED BY <2>1, <2>3, <3>1, <3>2 DEF History, ReuseOK, CourseKinds
    <2> QED BY <2>2, <2>3
<1> QED BY <1>2, <1>3 DEF LogInv

-----------------------------------------------------------------------------
(* The other parts of the invariant, step by step.                         *)

\* An event, and the journal, as the type invariant wants them.
Typed(e) ==
    /\ e.kind \in Kinds /\ e.rev \in Revisions
    /\ e.kind = "proposed" => e.data \in Proposals
    /\ e.kind \in {"settled", "reused"} => e.data \in Outcomes
    /\ e.kind = "charged" => e.data \in 0..Worst /\ Has("reserved", e.rev)
JournalTyped == \A i \in DOMAIN journal : Typed(journal[i])

LEMMA TypeParts ==
    TypeOK <=> /\ JournalTyped /\ child \in [Revisions -> Results \union {NoResult}]
               /\ lease \in Procs \union {NoProc}
               /\ pc \in [Procs -> Labels] /\ mem \in [Procs -> Memories]
               /\ faults \in 0..MaxFaults
BY DEF TypeOK, JournalTyped, Typed

LEMMA TypedAppend ==
    ASSUME JournalTyped, IsLog, NEW e, journal' = Append(journal, e), Typed(e)
    PROVE  JournalTyped'
<1>1. /\ Len(journal) \in Nat /\ DOMAIN journal = 1..Len(journal) /\ DOMAIN journal' = 1..(Len(journal) + 1)
      /\ journal'[Len(journal) + 1] = e /\ \A i \in 1..Len(journal) : journal'[i] = journal[i]
    BY AppendedLog, PlacesType DEF IsLog
<1>2. \A r : Has("reserved", r) => Has("reserved", r)'
    BY Grown DEF Extends
<1>3. ASSUME NEW i \in 1..(Len(journal) + 1) PROVE Typed(journal[i])'
    <2>1. PICK x : x = journal'[i] /\ Typed(x)
        <3>1. CASE i \in 1..Len(journal)
            BY <1>1, <3>1 DEF JournalTyped
        <3>2. CASE i = Len(journal) + 1
            BY <1>1, <3>2
        <3> QED BY <1>1, <3>1, <3>2
    <2> QED BY <1>2, <2>1 DEF Typed
<1> QED BY <1>1, <1>3 DEF JournalTyped

\* What the journal has to satisfy, whatever the processes do.
JournalPart == JournalTyped /\ LogInv /\ EnvelopeCloses /\ EndIsDecided

LEMMA GoalParts ==
    GoalInv <=> /\ JournalPart /\ child \in [Revisions -> Results \union {NoResult}]
                /\ lease \in Procs \union {NoProc}
                /\ pc \in [Procs -> Labels] /\ mem \in [Procs -> Memories]
                /\ faults \in 0..MaxFaults
                /\ (\A p \in Procs : Knows(p)) /\ HolderInv
BY TypeParts DEF GoalInv, JournalPart

LEMMA GoalPartsNext ==
    ASSUME JournalPart', child' \in [Revisions -> Results \union {NoResult}],
           lease' \in Procs \union {NoProc}, pc' \in [Procs -> Labels], mem' \in [Procs -> Memories],
           faults' \in 0..MaxFaults, \A p \in Procs : Knows(p)', HolderInv'
    PROVE  GoalInv'
BY DEF GoalInv, JournalPart, TypeOK, JournalTyped, Typed

\* What the journal has said stays said, and a child run keeps its result.
ChildKept ==
    /\ child' \in [Revisions -> Results \union {NoResult}]
    /\ \A r \in Revisions : child[r] # NoResult => child'[r] = child[r]
Keeps ==
    /\ Proposed \subseteq Proposed'
    /\ \A r \in Proposed : Proposal(r)' = Proposal(r)

\* Steps that write nothing.
LEMMA QuietJournal ==
    ASSUME GoalInv, journal' = journal, ChildKept
    PROVE  JournalPart' /\ Keeps
<1>0. TypeOK /\ LogInv /\ IsLog /\ OneOfEach /\ JournalTyped /\ EnvelopeCloses /\ EndIsDecided
    BY TypeParts DEF GoalInv, LogInv
<1>1. /\ SameView /\ (Ended' <=> Ended) /\ \A k, r : Has(k, r)' <=> Has(k, r)
      /\ \A r : WasSettled(r)' <=> WasSettled(r)
      /\ \A K, r : DataOf(K, r)' = DataOf(K, r)
      /\ \A r : Proposal(r)' = Proposal(r) /\ Execution(r)' = Execution(r) /\ Status(r)' = Status(r)
    BY NoEvent
<1>2. Keeps
    BY <1>1 DEF Keeps, SameView
<1>3. JournalTyped'
    BY <1>0, <1>1 DEF JournalTyped, Typed
<1>4. LogInv'
    <2>1. IsLog' /\ OneOfEach'
        BY <1>0 DEF IsLog, OneOfEach
    <2>2. \A r \in Revisions : child[r] # NoResult => child'[r] # NoResult
        BY DEF ChildKept
    <2> QED BY <1>0, <1>1, <2>1, <2>2, SameLog
<1>5. EnvelopeCloses'
    <2>1. [r \in Revisions |-> Charged(r)]' = [r \in Revisions |-> Charged(r)]
        BY <1>1 DEF Charged
    <2>2. Spent' = Spent
        BY <2>1 DEF Spent
    <2> QED BY <1>0, <1>1, <2>2 DEF EnvelopeCloses
<1>6. EndIsDecided'
    <2>1. Terminal' = Terminal
        BY DEF Terminal
    <2>2. Demoted' = Demoted /\ Proposed' = Proposed
        BY <1>0, <1>1, SameDerived DEF SameView
    <2>3. PICK S : S = {q \in Proposed : WasSettled(q)}
        OBVIOUS
    <2>4. {q \in Proposed : WasSettled(q)}' = S
        BY <1>1, <2>2, <2>3
    <2>5. NoProgress(S)' = NoProgress(S)
        BY <1>1, SameCounts
    <2>6. NoProgress({q \in Proposed : WasSettled(q)})' = NoProgress(S)'
        BY <2>4 DEF NoProgress, Raises, PriorCoverage
    <2>7. PICK t : t = Terminal
        OBVIOUS
    <2> QED BY <1>0, <1>1, <2>1, <2>2, <2>3, <2>5, <2>6, <2>7 DEF EndIsDecided
<1> QED BY <1>2, <1>3, <1>4, <1>5, <1>6 DEF JournalPart

\* What a process knows for good it still knows.
LEMMA KnowsKept ==
    ASSUME TypeOK, Keeps, ChildKept, NEW q \in Procs, Knows(q), pc'[q] = pc[q], mem'[q] = mem[q]
    PROVE  Knows(q)'
<1>0. PICK r : r = mem[q].rev /\ r = mem'[q].rev
    OBVIOUS
<1>1. Proposed \subseteq Revisions /\ NoResult \notin Results
    BY DEF Proposed, NoResult, Results
<1>2. pc[q] \notin {"idle", "loop"} => mem[q].rev \in Proposed'
    BY DEF Knows, Keeps
<1>3. pc[q] = "authority" => Proposal(r)'.expands
    BY <1>0 DEF Knows, Keeps
<1>4. pc[q] \in {"settle", "record"} => mem[q].result \in Results /\ child'[mem[q].rev] = mem[q].result
    <2> SUFFICES ASSUME pc[q] \in {"settle", "record"}
                 PROVE  mem[q].result \in Results /\ child'[mem[q].rev] = mem[q].result
        OBVIOUS
    <2>1. /\ mem[q].rev \in Revisions /\ mem[q].result \in Results /\ child[mem[q].rev] = mem[q].result
        BY <1>1 DEF Knows
    <2>2. child[mem[q].rev] # NoResult
        BY <1>1, <2>1
    <2> QED BY <2>1, <2>2 DEF ChildKept
<1> QED BY <1>0, <1>2, <1>3, <1>4 DEF Knows

\* What the holder of the lease knows stays true when nothing is written.
LEMMA HolderKept ==
    ASSUME TypeOK, IsLog, journal' = journal, NEW q \in Procs, pc'[q] = pc[q], mem'[q] = mem[q],
           AtRevision(q), Counted(q)
    PROVE  AtRevision(q)' /\ Counted(q)'
<1>1. /\ SameView /\ (Ended' <=> Ended) /\ \A k, r : Has(k, r)' <=> Has(k, r)
      /\ \A r : WasSettled(r)' <=> WasSettled(r)
      /\ \A r : Proposal(r)' = Proposal(r) /\ Status(r)' = Status(r)
    BY NoEvent
<1>2. /\ Settled' = Settled /\ Demoted' = Demoted /\ Proposed' = Proposed
      /\ \A r : IsCurrent(r)' <=> IsCurrent(r)
      /\ NoProgress(Settled)' = NoProgress(Settled) /\ PriorCoverage(Settled)' = PriorCoverage(Settled)
    BY <1>1, SameDerived DEF SameView
<1>3. PICK m : m = mem[q] /\ m = mem'[q]
    OBVIOUS
<1>4. AtRevision(q)'
    BY <1>1, <1>2, <1>3 DEF AtRevision
<1>5. Counted(q)'
    BY <1>1, <1>2, <1>3 DEF Counted
<1> QED BY <1>4, <1>5

\* A process goes on.
LEMMA GoesStep ==
    ASSUME GoalInv, JournalPart', Keeps, ChildKept, faults' \in 0..MaxFaults,
           NEW p \in Procs, NEW l \in Labels, NEW m \in Memories, Goes(p, l, m),
           Knows(p)', lease = p => AtRevision(p)' /\ Counted(p)',
           lease # p => journal' = journal
    PROVE  GoalInv'
<1>0. /\ TypeOK /\ IsLog /\ HolderInv /\ lease \in Procs \union {NoProc}
      /\ pc \in [Procs -> Labels] /\ mem \in [Procs -> Memories]
    BY DEF GoalInv, LogInv, TypeOK
<1>1. /\ pc' \in [Procs -> Labels] /\ mem' \in [Procs -> Memories] /\ lease' = lease
      /\ \A q \in Procs : q # p => pc'[q] = pc[q] /\ mem'[q] = mem[q]
    BY <1>0 DEF Goes
<1>2. ASSUME NEW q \in Procs PROVE Knows(q)'
    <2>1. Knows(q)
        BY DEF GoalInv
    <2> QED BY <1>0, <1>1, <2>1, KnowsKept
<1>3. HolderInv'
    <2> SUFFICES ASSUME NEW q \in Procs, lease' = q, pc'[q] # "idle" PROVE AtRevision(q)' /\ Counted(q)'
        BY DEF HolderInv
    <2>1. CASE q = p
        BY <1>1, <2>1
    <2>2. CASE q # p
        <3>1. journal' = journal /\ pc'[q] = pc[q] /\ mem'[q] = mem[q]
            BY <1>1, <2>2
        <3>2. AtRevision(q) /\ Counted(q)
            BY <1>0, <1>1, <3>1 DEF HolderInv
        <3> QED BY <1>0, <3>1, <3>2, HolderKept
    <2> QED BY <2>1, <2>2
<1>4. child' \in [Revisions -> Results \union {NoResult}] /\ lease' \in Procs \union {NoProc}
    BY <1>0, <1>1 DEF ChildKept
<1>5. \A q \in Procs : Knows(q)'
    BY <1>2
<1> QED BY <1>1, <1>3, <1>4, <1>5, GoalPartsNext

\* The memory of a process that does nothing.
LEMMA FreshType == Fresh \in Memories
<1>1. 0 \in 0..MaxRevisions
    BY GoalAssumption
<1> QED BY <1>1 DEF Fresh, Memories, Statuses

\* A process stops, by itself or not.
LEMMA StopStep ==
    ASSUME GoalInv, JournalPart', Keeps, ChildKept, faults' \in 0..MaxFaults,
           NEW p \in Procs, pc' = [pc EXCEPT ![p] = "idle"], mem' = [mem EXCEPT ![p] = Fresh],
           lease' \in {lease, NoProc}, lease' # p => lease' = NoProc \/ journal' = journal
    PROVE  GoalInv'
<1>0. /\ TypeOK /\ IsLog /\ HolderInv /\ lease \in Procs \union {NoProc}
      /\ pc \in [Procs -> Labels] /\ mem \in [Procs -> Memories]
    BY DEF GoalInv, LogInv, TypeOK
<1>1. /\ pc' \in [Procs -> Labels] /\ mem' \in [Procs -> Memories] /\ pc'[p] = "idle"
      /\ \A q \in Procs : q # p => pc'[q] = pc[q] /\ mem'[q] = mem[q]
    <2>1. "idle" \in Labels
        BY DEF Labels
    <2> QED BY <1>0, <2>1, FreshType
<1>2. ASSUME NEW q \in Procs PROVE Knows(q)'
    <2>1. Knows(q)
        BY DEF GoalInv
    <2>2. CASE q # p
        BY <1>0, <1>1, <2>1, <2>2, KnowsKept
    <2>3. CASE q = p
        BY <1>1, <2>3 DEF Knows
    <2> QED BY <2>2, <2>3
<1>3. HolderInv'
    <2> SUFFICES ASSUME NEW q \in Procs, lease' = q, pc'[q] # "idle" PROVE AtRevision(q)' /\ Counted(q)'
        BY DEF HolderInv
    <2>1. q # p /\ lease' # NoProc /\ lease' = lease
        BY <1>1, GoalAssumption
    <2>2. journal' = journal /\ pc'[q] = pc[q] /\ mem'[q] = mem[q]
        BY <1>1, <2>1
    <2>3. AtRevision(q) /\ Counted(q)
        BY <1>0, <2>1, <2>2 DEF HolderInv
    <2> QED BY <1>0, <2>2, <2>3, HolderKept
<1>4. child' \in [Revisions -> Results \union {NoResult}] /\ lease' \in Procs \union {NoProc}
    BY <1>0 DEF ChildKept
<1>5. \A q \in Procs : Knows(q)'
    BY <1>2
<1> QED BY <1>1, <1>3, <1>4, <1>5, GoalPartsNext

LEMMA QuitStep ==
    ASSUME GoalInv, JournalPart', Keeps, ChildKept, faults' \in 0..MaxFaults,
           NEW p \in Procs, Quit(p), lease # p => journal' = journal
    PROVE  GoalInv'
BY StopStep DEF Quit

\* Append and go on, or throw.
LEMMA PutStep ==
    ASSUME GoalInv, NEW p \in Procs, NEW e, NEW l, NEW m, Put(p, e, l, m), child' = child, faults' = faults,
           Accepted(p, e) => JournalPart' /\ Keeps,
           Accepted(p, e) \/ Duplicate(p, e) =>
              l \in Labels /\ m \in Memories /\ Knows(p)' /\ AtRevision(p)' /\ Counted(p)'
    PROVE  GoalInv'
<1>1. ChildKept /\ faults' \in 0..MaxFaults
    BY DEF GoalInv, TypeOK, ChildKept
<1>2. (lease # p => ~Accepted(p, e)) /\ (~Accepted(p, e) => journal' = journal)
    BY DEF Accepted, Put, Written
<1>3. JournalPart' /\ Keeps
    BY <1>1, <1>2, QuietJournal
<1>4. CASE Accepted(p, e) \/ Duplicate(p, e)
    <2>1. Goes(p, l, m) /\ l \in Labels /\ m \in Memories
        BY <1>4 DEF Put
    <2> QED BY <1>1, <1>2, <1>3, <1>4, <2>1, GoesStep
<1>5. CASE ~(Accepted(p, e) \/ Duplicate(p, e))
    <2>1. Quit(p)
        BY <1>5 DEF Put
    <2> QED BY <1>1, <1>2, <1>3, <2>1, QuitStep
<1> QED BY <1>4, <1>5

\* Append and return.
LEMMA PutLastStep ==
    ASSUME GoalInv, NEW p \in Procs, NEW e, PutLast(p, e), child' = child, faults' = faults,
           Accepted(p, e) => JournalPart' /\ Keeps
    PROVE  GoalInv'
<1>1. ChildKept /\ faults' \in 0..MaxFaults
    BY DEF GoalInv, TypeOK, ChildKept
<1>2. (lease # p => ~Accepted(p, e)) /\ (~Accepted(p, e) => journal' = journal) /\ Quit(p)
    BY DEF Accepted, PutLast, Written
<1>3. JournalPart' /\ Keeps
    BY <1>1, <1>2, QuietJournal
<1> QED BY <1>1, <1>2, <1>3, QuitStep

\* Go on without an event.
LEMMA QuietStep ==
    ASSUME GoalInv, NEW p \in Procs, NEW l \in Labels, NEW m \in Memories, Goes(p, l, m), journal' = journal,
           ChildKept, faults' = faults, Knows(p)', lease = p => AtRevision(p)' /\ Counted(p)'
    PROVE  GoalInv'
<1>1. faults' \in 0..MaxFaults
    BY DEF GoalInv, TypeOK
<1>2. JournalPart' /\ Keeps
    BY QuietJournal
<1> QED BY <1>1, <1>2, GoesStep

-----------------------------------------------------------------------------
(* The budget envelope.                                                    *)

\* What the revisions cost, as a function.
Costs == [r \in Revisions |-> Charged(r)]

LEMMA CostsType ==
    ASSUME TypeOK, IsLog
    PROVE  Costs \in [Revisions -> Nat] /\ Spent = SumFunction(Costs) /\ Spent \in Nat /\ IsFiniteSet(Revisions)
<1>1. IsFiniteSet(Revisions)
    BY GoalAssumption, FS_Interval DEF Revisions
<1>2. Costs \in [Revisions -> Nat]
    <2>1. \A r \in Revisions : Charged(r) \in Nat
        BY DataTypes, GoalAssumption DEF Charged
    <2> QED BY <2>1 DEF Costs
<1>3. Spent = SumFunction(Costs)
    BY DEF Spent, Costs
<1> QED BY <1>1, <1>2, <1>3, SumType

\* The costs after an event.
LEMMA CostsGrown ==
    ASSUME TypeOK, IsLog, NEW e, Extends(e), Typed(e), ~Has(e.kind, e.rev)
    PROVE  /\ Costs' \in [Revisions -> Nat] /\ Spent' = SumFunction(Costs')
           /\ \A r \in Revisions : e.rev # r \/ e.kind \notin {"reserved", "charged"} => Costs'[r] = Costs[r]
           /\ e.kind = "reserved" => Costs[e.rev] = 0 /\ Costs'[e.rev] = Worst
           /\ e.kind = "charged" => Costs[e.rev] = Worst /\ Costs'[e.rev] = e.data
<1>1. \A r \in Revisions : Costs[r] = Charged(r) /\ Costs'[r] = Charged(r)'
    BY DEF Costs
<1>2. ASSUME NEW r \in Revisions, e.rev # r \/ e.kind \notin {"reserved", "charged"}
      PROVE  Charged(r)' = Charged(r)
    <2>1. (Has("charged", r)' <=> Has("charged", r)) /\ (Has("reserved", r)' <=> Has("reserved", r))
        BY <1>2 DEF Extends
    <2>2. Has("charged", r) => DataOf({"charged"}, r)' = DataOf({"charged"}, r)
        BY <1>2 DEF Extends
    <2> QED BY <2>1, <2>2 DEF Charged
<1>3. e.rev \in Revisions
    BY DEF Typed
<1>4. ASSUME e.kind = "reserved" PROVE Charged(e.rev) = 0 /\ Charged(e.rev)' = Worst
    <2>0. PICK r : r = e.rev
        OBVIOUS
    <2>1. ~Has("reserved", r) /\ ~Has("charged", r)
        BY <1>4, <2>0, DataTypes
    <2>2. Has("reserved", r)' /\ ~Has("charged", r)'
        BY <1>4, <2>0, <2>1 DEF Extends
    <2> QED BY <2>0, <2>1, <2>2 DEF Charged
<1>5. ASSUME e.kind = "charged" PROVE Charged(e.rev) = Worst /\ Charged(e.rev)' = e.data
    <2>0. PICK r : r = e.rev
        OBVIOUS
    <2>1. Has("reserved", r) /\ ~Has("charged", r)
        BY <1>5, <2>0 DEF Typed
    <2>2. Has("charged", r)' /\ DataOf({"charged"}, r)' = e.data
        BY <1>5, <2>0, <2>1 DEF Extends
    <2> QED BY <2>0, <2>1, <2>2 DEF Charged
<1>6. PICK F : F = Costs'
    OBVIOUS
<1>7. /\ F \in [Revisions -> Nat]
      /\ \A r \in Revisions : e.rev # r \/ e.kind \notin {"reserved", "charged"} => F[r] = Costs[r]
      /\ e.kind = "reserved" => Costs[e.rev] = 0 /\ F[e.rev] = Worst
      /\ e.kind = "charged" => Costs[e.rev] = Worst /\ F[e.rev] = e.data
    <2>1. \A r \in Revisions : e.rev # r \/ e.kind \notin {"reserved", "charged"} => F[r] = Costs[r]
        BY <1>1, <1>2, <1>6
    <2>2. e.kind = "reserved" => Costs[e.rev] = 0 /\ F[e.rev] = Worst
        BY <1>1, <1>3, <1>4, <1>6
    <2>3. e.kind = "charged" => Costs[e.rev] = Worst /\ F[e.rev] = e.data
        BY <1>1, <1>3, <1>5, <1>6
    <2>4. DOMAIN F = Revisions /\ F = [r \in Revisions |-> F[r]]
        BY <1>6 DEF Costs
    <2>5. ASSUME NEW r \in Revisions PROVE F[r] \in Nat
        <3>1. Costs[r] \in Nat
            BY CostsType
        <3>2. e.kind = "charged" => e.data \in Nat
            BY GoalAssumption DEF Typed
        <3> QED BY <2>1, <2>2, <2>3, <3>1, <3>2, GoalAssumption
    <2> QED BY <2>1, <2>2, <2>3, <2>4, <2>5
<1>8. Spent' = SumFunction(F)
    BY <1>6 DEF Spent, Costs
<1> QED BY <1>6, <1>7, <1>8

\* A reservation is made only when it fits, a charge is never more than its
\* reservation, and nothing else costs.
LEMMA SpentGrown ==
    ASSUME TypeOK, IsLog, NEW e, Extends(e), Typed(e), ~Has(e.kind, e.rev), Spent <= Capacity,
           e.kind = "reserved" => Spent + Worst <= Capacity
    PROVE  Spent' <= Capacity
<1>1. PICK F : F = Costs'
    OBVIOUS
<1>2. /\ F \in [Revisions -> Nat] /\ Spent' = SumFunction(F)
      /\ \A r \in Revisions : e.rev # r \/ e.kind \notin {"reserved", "charged"} => F[r] = Costs[r]
      /\ e.kind = "reserved" => Costs[e.rev] = 0 /\ F[e.rev] = Worst
      /\ e.kind = "charged" => Costs[e.rev] = Worst /\ F[e.rev] = e.data
    BY <1>1, CostsGrown
<1>3. Costs \in [Revisions -> Nat] /\ Spent = SumFunction(Costs) /\ Spent \in Nat /\ IsFiniteSet(Revisions)
    BY CostsType
<1>4. SumFunction(F) \in Nat
    BY <1>2, <1>3, SumType
<1>5. CASE e.kind = "reserved"
    <2>1. e.rev \in Revisions /\ \A y \in Revisions : y # e.rev => F[y] = Costs[y]
        BY <1>2 DEF Typed
    <2>2. SumFunction(F) + Costs[e.rev] = SumFunction(Costs) + F[e.rev]
        BY <1>2, <1>3, <2>1, SumChange
    <2> QED BY <1>2, <1>3, <1>4, <1>5, <2>2, GoalAssumption
<1>6. CASE e.kind = "charged"
    <2>1. \A y \in Revisions : F[y] <= Costs[y]
        <3>1. e.data <= Worst /\ Worst \in Nat
            BY <1>6, GoalAssumption DEF Typed
        <3>2. \A y \in Revisions : Costs[y] \in Nat
            BY <1>3
        <3> QED BY <1>2, <1>6, <3>1, <3>2
    <2>2. SumFunction(F) <= SumFunction(Costs)
        BY <1>2, <1>3, <2>1, SumMonotone
    <2> QED BY <1>2, <1>3, <1>4, <2>2, GoalAssumption
<1>7. CASE e.kind \notin {"reserved", "charged"}
    <2>1. F = Costs
        BY <1>2, <1>3, <1>7
    <2> QED BY <1>2, <1>3, <2>1
<1> QED BY <1>5, <1>6, <1>7

\* An event that does not end the goal.
LEMMA NotedJournal ==
    ASSUME GoalInv, NEW e, journal' = Append(journal, e), ~Ended, ~Has(e.kind, e.rev), Typed(e),
           e.kind \notin Terminals, LogInv', e.kind = "reserved" => Spent + Worst <= Capacity
    PROVE  JournalPart' /\ Keeps
<1>0. TypeOK /\ IsLog /\ JournalTyped /\ EnvelopeCloses
    BY TypeParts DEF GoalInv, LogInv
<1>1. Extends(e)
    BY <1>0, Grown
<1>2. JournalTyped'
    BY <1>0, TypedAppend
<1>3. ~Ended'
    BY <1>1 DEF Extends
<1>4. EnvelopeCloses'
    <2>1. Spent <= Capacity
        BY <1>0 DEF EnvelopeCloses
    <2>2. Spent' <= Capacity
        BY <1>0, <1>1, <2>1, SpentGrown
    <2> QED BY <1>3, <2>2 DEF EnvelopeCloses
<1>5. EndIsDecided'
    BY <1>3 DEF EndIsDecided
<1>6. Keeps
    <2>1. Proposed \subseteq Proposed'
        BY <1>1 DEF Extends, Proposed
    <2>2. \A r \in Proposed : Proposal(r)' = Proposal(r)
        BY <1>1 DEF Extends, Proposed
    <2> QED BY <2>1, <2>2 DEF Keeps
<1> QED BY <1>2, <1>4, <1>5, <1>6 DEF JournalPart

\* The event that ends the goal is the terminal one.
LEMMA TerminalIs ==
    ASSUME IsLog, NEW e, journal' = Append(journal, e), ~Ended, e.kind \in Terminals
    PROVE  Terminal' = e
<1>1. /\ Len(journal) \in Nat /\ DOMAIN journal = 1..Len(journal) /\ DOMAIN journal' = 1..(Len(journal) + 1)
      /\ journal'[Len(journal) + 1] = e /\ \A i \in 1..Len(journal) : journal'[i] = journal[i]
    BY AppendedLog, PlacesType DEF IsLog
<1>2. PICK S : S = {i \in DOMAIN journal' : journal'[i].kind \in Terminals}
    OBVIOUS
<1>3. S = {Len(journal) + 1}
    BY <1>1, <1>2 DEF Ended
<1>4. Max(S) = Len(journal) + 1
    <2>1. IsFiniteSet(S) /\ S \subseteq Nat /\ Len(journal) + 1 \in S /\ \A y \in S : Len(journal) + 1 >= y
        <3>1. IsFiniteSet({Len(journal) + 1})
            BY FS_Singleton
        <3>2. Len(journal) + 1 \in Nat
            BY <1>1
        <3> QED BY <1>3, <3>1, <3>2
    <2> QED BY <2>1, MaxIs
<1>5. Terminal' = journal'[Max(S)]
    BY <1>2 DEF Terminal
<1> QED BY <1>1, <1>4, <1>5

\* The event that ends the goal.
LEMMA EndedJournal ==
    ASSUME GoalInv, NEW e, journal' = Append(journal, e), ~Ended, ~Has(e.kind, e.rev), Typed(e),
           e.kind \in Terminals, child' = child,
           \A r \in Revisions : Has("reserved", r) => Has("charged", r),
           e.kind \notin {"failed", "limit"} => e.rev \in Proposed /\ WasSettled(e.rev),
           e.kind \notin {"failed", "limit"} /\ Demoted = {} =>
              /\ e.kind = Decision(Proposal(e.rev), Execution(e.rev).verdict,
                                   IF Has("reused", e.rev) THEN 0 ELSE NoProgress(Settled))
              /\ e.kind = "completed" => Proposal(e.rev).coverage >= Target /\ Execution(e.rev).verdict = "pass"
    PROVE  JournalPart' /\ Keeps
<1>0. TypeOK /\ LogInv /\ IsLog /\ OneOfEach /\ JournalTyped /\ EnvelopeCloses
    BY TypeParts DEF GoalInv, LogInv
<1>1. Extends(e) /\ IsLog' /\ OneOfEach'
    BY <1>0, Grown, AppendedLog, OneMore
<1>2. JournalTyped'
    BY <1>0, TypedAppend
<1>3. /\ e.kind \notin StatusKinds /\ e.kind \notin CourseKinds
      /\ e.kind \notin {"reserved", "charged", "settled", "reused"}
    BY DEF Terminals, Failures, StatusKinds, CourseKinds
<1>4. SameView
    BY <1>1, <1>3, QuietView
<1>5. LogInv'
    <2>1. \A k \in CourseKinds : \A r \in Revisions : Has(k, r)' <=> Has(k, r)
        BY <1>1, <1>3 DEF Extends
    <2>2. \A r \in Revisions : WasSettled(r)' <=> WasSettled(r)
        BY <1>1, <1>3 DEF Extends
    <2> QED BY <1>0, <1>1, <1>4, <2>1, <2>2, SameLog
<1>6. EnvelopeCloses'
    <2>1. Spent' <= Capacity
        BY <1>0, <1>1, <1>3, SpentGrown DEF EnvelopeCloses
    <2>2. \A r \in Revisions : Has("reserved", r)' => Has("charged", r)'
        BY <1>1, <1>3 DEF Extends
    <2> QED BY <2>1, <2>2 DEF EnvelopeCloses
<1>7. EndIsDecided'
    <2>1. PICK r : r = e.rev
        OBVIOUS
    <2>2. Terminal' = e
        BY <1>0, TerminalIs
    <2>3. Demoted' = Demoted /\ Settled' = Settled /\ Proposed' = Proposed
        BY <1>0, <1>4, SameDerived DEF SameView
    <2>4. CASE e.kind \in {"failed", "limit"} \/ Demoted # {}
        BY <2>2, <2>3, <2>4 DEF EndIsDecided
    <2>5. CASE e.kind \notin {"failed", "limit"} /\ Demoted = {}
        <3>1. r \in Proposed /\ WasSettled(r)
            BY <2>1, <2>5
        <3>2. /\ e.kind = Decision(Proposal(r), Execution(r).verdict,
                                   IF Has("reused", r) THEN 0 ELSE NoProgress(Settled))
              /\ e.kind = "completed" => Proposal(r).coverage >= Target /\ Execution(r).verdict = "pass"
            BY <2>1, <2>5
        <3>3. Proposal(r)' = Proposal(r) /\ Execution(r)' = Execution(r) /\ (Has("reused", r)' <=> Has("reused", r))
            BY <1>1, <1>3, <1>4, <3>1 DEF SameView, Extends
        <3>4. {q \in Proposed : WasSettled(q)} = Settled
            BY <1>0, <2>5, DataTypes DEF Demoted, Settled
        <3>5. {q \in Proposed : WasSettled(q)}' = Settled
            BY <1>4, <2>3, <3>4 DEF SameView
        <3>6. PICK S : S = Settled
            OBVIOUS
        <3>7. NoProgress(S)' = NoProgress(S)
            <4>1. \A q \in S : Proposal(q)' = Proposal(q)
                BY <1>4, <3>6 DEF Settled, SameView
            <4> QED BY <4>1, SameCounts
        <3>8. NoProgress({q \in Proposed : WasSettled(q)})' = NoProgress(S)'
            BY <3>5, <3>6 DEF NoProgress, Raises, PriorCoverage
        <3>9. PICK n : n = IF Has("reused", r) THEN 0 ELSE NoProgress(S)
            OBVIOUS
        <3>10. (IF Has("reused", r) THEN 0 ELSE NoProgress({q \in Proposed : WasSettled(q)}))' = n
            BY <3>3, <3>7, <3>8, <3>9
        <3>11. e.kind = Decision(Proposal(r), Execution(r).verdict, n)
            BY <3>2, <3>6, <3>9
        <3> QED BY <2>1, <2>2, <3>2, <3>3, <3>10, <3>11 DEF EndIsDecided
    <2> QED BY <2>4, <2>5
<1>8. Keeps
    BY <1>4 DEF Keeps, SameView
<1> QED BY <1>2, <1>5, <1>6, <1>7, <1>8 DEF JournalPart

-----------------------------------------------------------------------------
(* The count of revisions without progress.                                *)

\* The coverage reached so far.
LEMMA CoverageIs ==
    ASSUME TypeOK, IsLog, NEW S, S \subseteq Proposed
    PROVE  /\ IsFiniteSet(S) /\ S \subseteq Nat
           /\ PriorCoverage(S) \in Coverages \union {0} /\ PriorCoverage(S) \in Nat
           /\ \A r \in S : Proposal(r).coverage \in Nat /\ PriorCoverage(S) >= Proposal(r).coverage
           /\ \A x \in Nat : (\A r \in S : x >= Proposal(r).coverage) => x >= PriorCoverage(S)
<1>1. S \subseteq Revisions /\ Revisions \subseteq Nat /\ IsFiniteSet(Revisions)
    BY DataTypes, GoalAssumption, FS_Interval DEF Revisions
<1>2. IsFiniteSet(S)
    BY <1>1, FS_Subset
<1>3. \A r \in S : Proposal(r).coverage \in Coverages
    BY DataTypes DEF Proposals
<1> DEFINE C == {Proposal(r).coverage : r \in S} \union {0}
<1>4. IsFiniteSet({Proposal(r).coverage : r \in S})
    <2> DEFINE D == {Proposal(r).coverage : r \in S}
               f == [r \in S |-> Proposal(r).coverage]
    <2>1. f \in [S -> D] /\ \A y \in D : \E r \in S : f[r] = y
        OBVIOUS
    <2> HIDE DEF D, f
    <2>2. f \in Surjection(S, D)
        BY <2>1 DEF Surjection
    <2>3. IsFiniteSet(D)
        BY <1>2, <2>2, FS_Surjection
    <2> QED BY <2>3 DEF D
<1>5. IsFiniteSet(C)
    BY <1>4, FS_AddElement
<1>6. C \subseteq Coverages \union {0} /\ C \subseteq Nat /\ C # {}
    <2>1. C \subseteq Coverages \union {0} /\ 0 \in C
        BY <1>3
    <2>2. Coverages \union {0} \subseteq Nat
        BY GoalAssumption
    <2> HIDE DEF C
    <2> QED BY <2>1, <2>2
<1>7. \A r \in S : Proposal(r).coverage \in C
    OBVIOUS
<1>8. \A x \in Nat : (\A r \in S : x >= Proposal(r).coverage) => \A y \in C : x >= y
    OBVIOUS
<1>9. PriorCoverage(S) = Max(C)
    BY DEF PriorCoverage
<1> HIDE DEF C
<1>10. Max(C) \in C /\ \A y \in C : Max(C) >= y
    BY <1>5, <1>6, MaxOfNat
<1>11. \A r \in S : Proposal(r).coverage \in Nat
    BY <1>6, <1>7
<1> QED BY <1>1, <1>2, <1>6, <1>7, <1>8, <1>9, <1>10, <1>11

\* The revisions that NoProgress counts.
Idle(S) == {r \in S : \A q \in S : q >= r => ~Raises(q, S)}

\* There are no more of them than there are revisions.
LEMMA NoProgressBound ==
    ASSUME NEW n \in Nat, NEW S, S \subseteq 0..(n - 1)
    PROVE  NoProgress(S) \in Nat /\ NoProgress(S) <= n
<1>1. IsFiniteSet(0..(n - 1)) /\ Cardinality(0..(n - 1)) = n
    BY FS_Interval
<1>2. NoProgress(S) = Cardinality(Idle(S)) /\ Idle(S) \subseteq 0..(n - 1)
    BY DEF NoProgress, Idle
<1>3. IsFiniteSet(Idle(S)) /\ Cardinality(Idle(S)) <= Cardinality(0..(n - 1))
    BY <1>1, <1>2, FS_Subset
<1> QED BY <1>1, <1>2, <1>3, FS_CardinalityType

\* One revision more, behind the others: the count starts again when it raises
\* the coverage, and goes up by one otherwise.
LEMMA CountOne ==
    ASSUME TypeOK, IsLog, NEW S, NEW r \in Proposed, S \subseteq Proposed, \A q \in S : q < r
    PROVE  /\ NoProgress(S \union {r}) = IF Proposal(r).coverage > PriorCoverage(S) THEN 0
                                         ELSE NoProgress(S) + 1
           /\ PriorCoverage(S \union {r}) = Max({Proposal(r).coverage, PriorCoverage(S)})
<1> DEFINE T == S \union {r}
           c == Proposal(r).coverage
<1>1. /\ IsFiniteSet(S) /\ S \subseteq Nat /\ PriorCoverage(S) \in Nat
      /\ \A q \in S : Proposal(q).coverage \in Nat /\ PriorCoverage(S) >= Proposal(q).coverage
      /\ \A x \in Nat : (\A q \in S : x >= Proposal(q).coverage) => x >= PriorCoverage(S)
    BY CoverageIs
<1>2. T \subseteq Proposed
    OBVIOUS
<1>3. /\ IsFiniteSet(T) /\ T \subseteq Nat /\ PriorCoverage(T) \in Nat
      /\ \A q \in T : Proposal(q).coverage \in Nat /\ PriorCoverage(T) >= Proposal(q).coverage
      /\ \A x \in Nat : (\A q \in T : x >= Proposal(q).coverage) => x >= PriorCoverage(T)
    <2> HIDE DEF T
    <2> QED BY <1>2, CoverageIs
<1>4. r \in Nat /\ c \in Nat /\ r \notin S
    BY <1>1, <1>3
<1>5. PriorCoverage(T) = Max({c, PriorCoverage(S)})
    <2> DEFINE P == {c, PriorCoverage(S)}
    <2>1. IsFiniteSet(P)
        <3>1. IsFiniteSet({c}) /\ P = {c} \union {PriorCoverage(S)}
            BY FS_Singleton
        <3> QED BY <3>1, FS_AddElement
    <2>2. P \subseteq Nat /\ P # {}
        BY <1>1, <1>4
    <2>3. c \in P /\ PriorCoverage(S) \in P
        OBVIOUS
    <2>4. \A y \in P : y = c \/ y = PriorCoverage(S)
        OBVIOUS
    <2>5. c <= PriorCoverage(T) /\ PriorCoverage(S) <= PriorCoverage(T)
        <3>1. \A q \in S : PriorCoverage(T) >= Proposal(q).coverage
            BY <1>3
        <3>2. PriorCoverage(T) >= PriorCoverage(S)
            <4> HIDE DEF T
            <4> QED BY <1>1, <1>3, <3>1
        <3> QED BY <1>1, <1>3, <1>4, <3>2
    <2> HIDE DEF P
    <2>6. Max(P) \in P /\ \A y \in P : Max(P) >= y
        BY <2>1, <2>2, MaxOfNat
    <2>7. Max(P) \in Nat /\ Max(P) >= c /\ Max(P) >= PriorCoverage(S)
        BY <2>2, <2>3, <2>6
    <2>8. \A q \in T : Max(P) >= Proposal(q).coverage
        BY <1>1, <2>7
    <2>9. Max(P) >= PriorCoverage(T)
        <3> HIDE DEF T
        <3> QED BY <1>3, <2>7, <2>8
    <2>10. Max(P) <= PriorCoverage(T)
        BY <2>4, <2>5, <2>6
    <2>11. PriorCoverage(T) = Max(P)
        <3> HIDE DEF T
        <3> QED BY <1>3, <2>7, <2>9, <2>10
    <2> QED BY <2>11 DEF P
<1>6. Raises(r, T) <=> c > PriorCoverage(S)
    <2>1. \A q : q \in T /\ q < r <=> q \in S
        <3>1. ~(r < r)
            BY <1>4
        <3> QED BY <3>1
    <2>2. {q \in T : q < r} = S
        BY <2>1
    <2> QED BY <2>2 DEF Raises
<1>7. ASSUME NEW q \in S PROVE Raises(q, T) <=> Raises(q, S)
    <2>1. {x \in T : x < q} = {x \in S : x < q}
        BY <1>1, <1>4
    <2> QED BY <2>1 DEF Raises
<1>8. CASE c > PriorCoverage(S)
    <2>1. Idle(T) = {}
        <3>1. ASSUME NEW x \in T PROVE r \in T /\ r >= x
            BY <1>1, <1>4
        <3> QED BY <1>6, <1>8, <3>1 DEF Idle
    <2>2. NoProgress(T) = 0
        BY <2>1, FS_EmptySet DEF NoProgress, Idle
    <2> QED BY <1>5, <1>8, <2>2
<1>9. CASE ~(c > PriorCoverage(S))
    <2>1. Idle(T) = Idle(S) \union {r}
        <3>1. ASSUME NEW x \in S PROVE x \in Idle(T) <=> x \in Idle(S)
            <4>1. r \in Nat /\ x \in Nat
                BY <1>1, <1>4
            <4> QED BY <1>6, <1>7, <1>9, <4>1 DEF Idle
        <3>2. r \in Idle(T)
            <4>1. \A q \in T : q >= r => q = r
                BY <1>1, <1>4
            <4> QED BY <1>6, <1>9, <4>1 DEF Idle
        <3>3. Idle(T) \subseteq T /\ Idle(S) \subseteq S
            BY DEF Idle
        <3> QED BY <3>1, <3>2, <3>3
    <2>2. IsFiniteSet(Idle(S)) /\ r \notin Idle(S)
        <3>1. Idle(S) \subseteq S
            BY DEF Idle
        <3> QED BY <1>1, <1>4, <3>1, FS_Subset
    <2>3. Cardinality(Idle(S) \union {r}) = Cardinality(Idle(S)) + 1
        BY <2>2, FS_AddElement
    <2>4. NoProgress(T) = NoProgress(S) + 1
        BY <2>1, <2>3 DEF NoProgress, Idle
    <2> QED BY <1>5, <1>9, <2>4
<1> QED BY <1>8, <1>9

-----------------------------------------------------------------------------
(* The steps of a process.                                                 *)

\* What holds of a process before its step.
LEMMA Before ==
    ASSUME GoalInv, NEW p \in Procs
    PROVE  /\ TypeOK /\ LogInv /\ IsLog /\ Knows(p)
           /\ mem[p] \in Memories /\ pc \in [Procs -> Labels] /\ mem \in [Procs -> Memories]
           /\ mem[p].rev \in 0..MaxRevisions /\ mem[p].noProgress \in 0..MaxRevisions /\ mem[p].status \in Statuses
           /\ mem[p].prior \in Coverages \union {0}
           /\ mem[p].noProgress \in Nat /\ mem[p].prior \in Nat /\ mem[p].rev \in Nat /\ MaxRevisions \in Nat
           /\ Proposed \subseteq Revisions /\ Revisions \subseteq Nat
           /\ \A r \in Revisions : r < MaxRevisions
           /\ pc[p] # "idle" /\ lease = p => AtRevision(p) /\ Counted(p)
<1>1. TypeOK /\ LogInv /\ IsLog /\ Knows(p) /\ (pc[p] # "idle" /\ lease = p => AtRevision(p) /\ Counted(p))
    BY DEF GoalInv, LogInv, HolderInv
<1>2. pc \in [Procs -> Labels] /\ mem \in [Procs -> Memories] /\ mem[p] \in Memories
    BY <1>1 DEF TypeOK
<1>3. /\ mem[p].rev \in 0..MaxRevisions /\ mem[p].noProgress \in 0..MaxRevisions /\ mem[p].status \in Statuses
      /\ mem[p].prior \in Coverages \union {0}
    BY <1>2 DEF Memories
<1>4. MaxRevisions \in Nat /\ Coverages \subseteq Nat
    BY GoalAssumption
<1>5. Proposed \subseteq Revisions /\ Revisions \subseteq Nat /\ \A r \in Revisions : r < MaxRevisions
    BY <1>4 DEF Proposed, Revisions
<1>6. mem[p].noProgress \in Nat /\ mem[p].prior \in Nat /\ mem[p].rev \in Nat
    <2>1. \A x \in 0..MaxRevisions : x \in Nat
        OBVIOUS
    <2>2. \A x \in Coverages \union {0} : x \in Nat
        BY <1>4
    <2> QED BY <1>3, <2>1, <2>2
<1> QED BY <1>1, <1>2, <1>3, <1>4, <1>5, <1>6

\* Where a process is after its step.
LEMMA Moved ==
    ASSUME GoalInv, NEW p \in Procs, NEW l, NEW m, Goes(p, l, m)
    PROVE  pc'[p] = l /\ mem'[p] = m
BY Before DEF Goes

\* An event of the current revision, appended by the holder of the lease.
LEMMA CourseNoted ==
    ASSUME GoalInv, NEW e, journal' = Append(journal, e), ~Ended, ~Has(e.kind, e.rev), Typed(e), child' = child,
           e.kind \in CourseKinds, IsCurrent(e.rev), Fitting(e, e.rev),
           e.kind = "reserved" => Spent + Worst <= Capacity
    PROVE  /\ JournalPart' /\ Keeps /\ Extends(e) /\ ~Ended' /\ Proposed' = Proposed
           /\ \A q : IsCurrent(q)' <=> IsCurrent(q)
<1>0. TypeOK /\ LogInv /\ IsLog /\ e.rev \in Proposed /\ e.kind \notin Terminals
    BY DEF GoalInv, LogInv, IsCurrent, CourseKinds, Terminals, Failures
<1>1. LogInv'
    <2>1. PICK r \in Proposed : r = e.rev
        BY <1>0
    <2> QED BY <1>0, <2>1, CourseStep
<1>2. Extends(e)
    BY <1>0, Grown
<1>3. JournalPart' /\ Keeps
    BY <1>0, <1>1, NotedJournal
<1>4. Proposed' = Proposed /\ ~Ended'
    BY <1>0, <1>2 DEF Proposed, Extends, CourseKinds
<1>5. \A q : IsCurrent(q)' <=> IsCurrent(q)
    BY <1>4 DEF IsCurrent
<1> QED BY <1>2, <1>3, <1>4, <1>5

\* The counts are what they were.
SameTally ==
    /\ Settled' = Settled /\ Demoted' = Demoted
    /\ NoProgress(Settled)' = NoProgress(Settled) /\ PriorCoverage(Settled)' = PriorCoverage(Settled)

\* A revision that is not settled has no part in them.
LEMMA TallyKept ==
    ASSUME TypeOK, IsLog, NEW e, Extends(e), Proposed' = Proposed, ~WasSettled(e.rev),
           e.kind \notin {"settled", "reused", "proposed"}
    PROVE  SameTally
<1>0. \A r : Has("proposed", r) /\ ~(e.kind \in StatusKinds /\ e.rev = r) => Status(r)' = Status(r)
    BY DEF Extends
<1>1. \A r \in Proposed : /\ Proposal(r)' = Proposal(r) /\ (WasSettled(r)' <=> WasSettled(r))
                          /\ r # e.rev => Status(r)' = Status(r)
    BY DEF Extends, Proposed
<1>2. \A r \in Proposed : Status(r) = "settled" => WasSettled(r)
    BY DataTypes
<1>3. e.kind \in StatusKinds => StatusOf[e.kind] # "settled"
    BY StatusDomain DEF StatusKinds
<1>4. \A r \in Proposed : Status(r)' = "settled" <=> Status(r) = "settled"
    <2>1. ASSUME NEW r \in Proposed, r = e.rev PROVE Status(r)' = "settled" <=> Status(r) = "settled"
        <3>1. Status(r) # "settled"
            BY <1>2, <2>1
        <3>2. Status(r)' = Status(r) \/ (Status(r)' = StatusOf[e.kind] /\ e.kind \in StatusKinds)
            <4>1. Has("proposed", r)
                BY DEF Proposed
            <4>2. CASE e.kind \in StatusKinds
                BY <2>1, <4>2 DEF Extends
            <4>3. CASE e.kind \notin StatusKinds
                BY <1>0, <4>1, <4>3
            <4> QED BY <4>2, <4>3
        <3> QED BY <1>3, <3>1, <3>2
    <2> QED BY <1>1, <2>1
<1>5. Settled' = Settled /\ Demoted' = Demoted
    BY <1>1, <1>4 DEF Settled, Demoted
<1>6. PICK S : S = Settled
    OBVIOUS
<1>7. PriorCoverage(S)' = PriorCoverage(S) /\ NoProgress(S)' = NoProgress(S)
    <2>1. \A r \in S : Proposal(r)' = Proposal(r)
        BY <1>1, <1>6 DEF Settled
    <2> QED BY <2>1, SameCounts
<1>8. PriorCoverage(Settled)' = PriorCoverage(S)' /\ NoProgress(Settled)' = NoProgress(S)'
    BY <1>5, <1>6 DEF PriorCoverage, NoProgress, Raises
<1> QED BY <1>5, <1>6, <1>7, <1>8 DEF SameTally

\* The steps that carry a revision out.
Working == {"start", "execute", "charge", "fail", "settle", "record"}
LEMMA WorksOn ==
    ASSUME NEW p \in Procs, NEW r, r = mem[p].rev, mem'[p].rev = r, mem'[p].status = mem[p].status,
           mem'[p].noProgress = mem[p].noProgress, mem'[p].prior = mem[p].prior,
           pc[p] \in Working \union {"decide"}, pc'[p] \in Working, Counted(p), SameTally,
           ~Ended', IsCurrent(r)', Has("reserved", r)', mem[p].status # "settled",
           WasSettled(r)' => Has("settled", r)' /\ Proposal(r)'.expands /\ Status(r)' # "settled",
           pc'[p] # "start" => Has("started", r)',
           pc'[p] \in {"fail", "record"} => Has("charged", r)'
    PROVE  AtRevision(p)' /\ Counted(p)'
<1>1. AtRevision(p)'
    BY DEF AtRevision, Working
<1>2. Counted(p)'
    BY DEF Counted, Working, SameTally
<1> QED BY <1>1, <1>2

\* A step of them that writes nothing.
LEMMA WorksQuietly ==
    ASSUME GoalInv, NEW p \in Procs, lease = p, journal' = journal, pc[p] \in Working, pc'[p] \in Working,
           mem'[p].rev = mem[p].rev, mem'[p].status = mem[p].status,
           mem'[p].noProgress = mem[p].noProgress, mem'[p].prior = mem[p].prior,
           pc'[p] # "start" => Has("started", mem[p].rev),
           pc'[p] \in {"fail", "record"} => Has("charged", mem[p].rev)
    PROVE  AtRevision(p)' /\ Counted(p)'
<1>0. TypeOK /\ IsLog /\ AtRevision(p) /\ Counted(p)
    BY Before DEF Working
<1>1. PICK r : r = mem[p].rev
    OBVIOUS
<1>2. /\ SameView /\ (Ended' <=> Ended) /\ \A k : Has(k, r)' <=> Has(k, r)
      /\ (WasSettled(r)' <=> WasSettled(r)) /\ Proposal(r)' = Proposal(r) /\ Status(r)' = Status(r)
    BY NoEvent
<1>3. SameTally /\ (IsCurrent(r)' <=> IsCurrent(r))
    BY <1>0, <1>2, SameDerived DEF SameTally
<1>4. /\ ~Ended /\ IsCurrent(r) /\ Has("reserved", r) /\ mem[p].status # "settled"
      /\ WasSettled(r) => Has("settled", r) /\ Proposal(r).expands /\ Status(r) # "settled"
    BY <1>0, <1>1 DEF AtRevision, Working
<1> QED BY <1>0, <1>1, <1>2, <1>3, <1>4, WorksOn

\* An append under a lease, accepted or a duplicate.
LEMMA Puts ==
    ASSUME NEW p, NEW e, journal' = Written(p, e)
    PROVE  /\ Accepted(p, e) => lease = p /\ ~Ended /\ ~Has(e.kind, e.rev) /\ journal' = Append(journal, e)
           /\ Duplicate(p, e) => lease = p /\ Has(e.kind, e.rev) /\ ~Accepted(p, e)
           /\ ~Accepted(p, e) => journal' = journal
<1>1. Duplicate(p, e) => lease = p /\ Has(e.kind, e.rev) /\ ~Accepted(p, e)
    BY DEF Duplicate, Has, Accepted
<1> QED BY <1>1 DEF Accepted, Written

\* What a process that works on a revision knows for good.
LEMMA WorkerKnows ==
    ASSUME Keeps, NEW p \in Procs, mem[p].rev \in Proposed, mem'[p].rev = mem[p].rev, pc'[p] # "authority",
           pc'[p] \in {"settle", "record"} =>
              mem'[p].result \in Results /\ child'[mem[p].rev] = mem'[p].result
    PROVE  Knows(p)'
BY DEF Knows, Keeps

\* What the holder of the lease knows of the revision it carries out.
LEMMA AtWork ==
    ASSUME GoalInv, NEW p \in Procs, pc[p] \in Working
    PROVE  /\ mem[p].rev \in Proposed /\ mem[p].rev \in Revisions
           /\ lease = p => /\ ~Ended /\ IsCurrent(mem[p].rev) /\ Has("reserved", mem[p].rev)
                           /\ mem[p].status # "settled"
                           /\ WasSettled(mem[p].rev) =>
                                 /\ Has("settled", mem[p].rev) /\ Proposal(mem[p].rev).expands
                                 /\ Status(mem[p].rev) # "settled"
                           /\ pc[p] # "start" => Has("started", mem[p].rev)
                           /\ pc[p] \in {"fail", "record"} => Has("charged", mem[p].rev)
                           /\ AtRevision(p) /\ Counted(p)
<1>1. Knows(p) /\ Proposed \subseteq Revisions /\ (lease = p => AtRevision(p) /\ Counted(p))
    BY Before DEF Working
<1>2. mem[p].rev \in Proposed
    BY <1>1 DEF Knows, Working
<1>3. lease = p => /\ ~Ended /\ IsCurrent(mem[p].rev) /\ Has("reserved", mem[p].rev)
                   /\ mem[p].status # "settled"
                   /\ WasSettled(mem[p].rev) =>
                         /\ Has("settled", mem[p].rev) /\ Proposal(mem[p].rev).expands
                         /\ Status(mem[p].rev) # "settled"
                   /\ pc[p] # "start" => Has("started", mem[p].rev)
                   /\ pc[p] \in {"fail", "record"} => Has("charged", mem[p].rev)
    BY <1>1 DEF AtRevision, Working
<1> QED BY <1>1, <1>2, <1>3

LEMMA ThrowsStep ==
    ASSUME GoalInv, NEW p \in Procs, Throws(p)
    PROVE  GoalInv'
<1>1. /\ pc[p] = "execute" /\ pc[p] \in Working /\ Goes(p, "charge", mem[p]) /\ journal' = journal
      /\ child' = child /\ faults' = faults
    BY DEF Throws, At, Working
<1>2. pc'[p] = "charge" /\ mem'[p] = mem[p] /\ ChildKept /\ mem[p] \in Memories /\ "charge" \in Labels
    BY <1>1, Moved, Before DEF ChildKept, TypeOK, Labels
<1>3. lease = p => AtRevision(p)' /\ Counted(p)'
    BY <1>1, <1>2, AtWork, WorksQuietly DEF Working
<1>4. Knows(p)'
    <2>1. Keeps
        BY <1>1, <1>2, QuietJournal
    <2> QED BY <1>1, <1>2, <2>1, AtWork, WorkerKnows
<1> QED BY <1>1, <1>2, <1>3, <1>4, QuietStep

\* A memory with another result.
LEMMA ResultKept ==
    ASSUME NEW m \in Memories, NEW x \in Results
    PROVE  /\ [m EXCEPT !.result = x] \in Memories /\ [m EXCEPT !.result = x].rev = m.rev
           /\ [m EXCEPT !.result = x].status = m.status /\ [m EXCEPT !.result = x].result = x
           /\ [m EXCEPT !.result = x].noProgress = m.noProgress /\ [m EXCEPT !.result = x].prior = m.prior
BY DEF Memories

LEMMA ReturnsStep ==
    ASSUME GoalInv, NEW p \in Procs, Returns(p)
    PROVE  GoalInv'
<1>1. /\ pc[p] = "execute" /\ pc[p] \in Working /\ journal' = journal /\ faults' = faults
      /\ mem[p] \in Memories /\ child \in [Revisions -> Results \union {NoResult}]
    BY Before DEF Returns, At, Working, TypeOK
<1>2. PICK x \in Results : /\ child[mem[p].rev] # NoResult => x = child[mem[p].rev]
                           /\ child' = [child EXCEPT ![mem[p].rev] = x]
                           /\ Goes(p, "settle", [mem[p] EXCEPT !.result = x])
    BY DEF Returns
<1> DEFINE m == [mem[p] EXCEPT !.result = x]
<1>3. /\ m \in Memories /\ m.rev = mem[p].rev /\ m.status = mem[p].status /\ m.result = x
      /\ m.noProgress = mem[p].noProgress /\ m.prior = mem[p].prior
    BY <1>1, ResultKept
<1>4. Goes(p, "settle", m)
    BY <1>2
<1> HIDE DEF m
<1>5. pc'[p] = "settle" /\ mem'[p] = m /\ "settle" \in Labels
    BY <1>4, Moved DEF Labels
<1>6. mem[p].rev \in Proposed /\ mem[p].rev \in Revisions
    BY <1>1, AtWork
<1>7. ChildKept
    BY <1>1, <1>2, <1>6 DEF ChildKept
<1>8. lease = p => AtRevision(p)' /\ Counted(p)'
    BY <1>1, <1>3, <1>5, AtWork, WorksQuietly DEF Working
<1>9. Knows(p)'
    <2>1. Keeps
        BY <1>1, <1>7, QuietJournal
    <2>2. child'[mem[p].rev] = x
        BY <1>1, <1>2, <1>6
    <2> QED BY <1>1, <1>3, <1>5, <1>6, <2>1, <2>2, WorkerKnows
<1> QED BY <1>1, <1>3, <1>4, <1>5, <1>7, <1>8, <1>9, QuietStep

\* A charge, in the way of a revision that fails or of one that settles.
LEMMA ChargedStep ==
    ASSUME GoalInv, NEW p \in Procs, NEW u \in 0..Worst, NEW l \in {"fail", "record"},
           pc[p] \in {"charge", "settle"}, l = "record" => pc[p] = "settle",
           Put(p, Event("charged", mem[p].rev, u), l, mem[p]), child' = child, faults' = faults
    PROVE  GoalInv'
<1>1. PICK r : r = mem[p].rev
    OBVIOUS
<1>2. PICK e : e = Event("charged", r, u)
    OBVIOUS
<1>3. e.kind = "charged" /\ e.rev = r /\ e.data = u
    BY <1>2 DEF Event
<1>4. Put(p, e, l, mem[p]) /\ journal' = Written(p, e)
    BY <1>1, <1>2 DEF Put
<1>5. /\ pc[p] \in Working /\ mem[p] \in Memories /\ TypeOK /\ IsLog /\ l \in Labels /\ l \in Working /\ r \in Revisions
      /\ r \in Proposed /\ Knows(p)
    BY <1>1, Before, AtWork DEF Labels, Working
<1>6. ASSUME Accepted(p, e)
      PROVE  /\ JournalPart' /\ Keeps /\ SameTally /\ ~Ended' /\ IsCurrent(r)' /\ Has("reserved", r)'
             /\ WasSettled(r)' => Has("settled", r)' /\ Proposal(r)'.expands /\ Status(r)' # "settled"
             /\ Has("started", r)' /\ Has("charged", r)'
    <2>1. lease = p /\ ~Ended /\ ~Has(e.kind, e.rev) /\ journal' = Append(journal, e)
        BY <1>4, <1>6, Puts
    <2>2. /\ IsCurrent(r) /\ Has("reserved", r) /\ Has("started", r)
          /\ WasSettled(r) => Has("settled", r) /\ Proposal(r).expands /\ Status(r) # "settled"
        BY <1>1, <1>5, <2>1, AtWork
    <2>3. Typed(e) /\ Fitting(e, e.rev) /\ e.kind \in CourseKinds /\ e.kind # "reserved"
        BY <1>3, <1>5, <2>2 DEF Typed, Fitting, Kinds, CourseKinds
    <2>4. /\ JournalPart' /\ Keeps /\ Extends(e) /\ ~Ended' /\ IsCurrent(r)'
        BY <1>3, <2>1, <2>2, <2>3, CourseNoted
    <2>5. SameView
        BY <1>3, <2>4, QuietView DEF StatusKinds
    <2>6. SameTally
        BY <1>5, <2>5, SameDerived DEF SameTally
    <2>7. Has("reserved", r)' /\ Has("started", r)' /\ Has("charged", r)' /\ (Has("settled", r) => Has("settled", r)')
        BY <1>3, <2>2, <2>4 DEF Extends
    <2>8. WasSettled(r)' => Has("settled", r)' /\ Proposal(r)'.expands /\ Status(r)' # "settled"
        BY <1>5, <2>2, <2>5, <2>7 DEF SameView
    <2> QED BY <2>4, <2>6, <2>7, <2>8
<1>7. ASSUME Accepted(p, e) \/ Duplicate(p, e)
      PROVE  l \in Labels /\ mem[p] \in Memories /\ Knows(p)' /\ AtRevision(p)' /\ Counted(p)'
    <2>1. Goes(p, l, mem[p]) /\ lease = p
        BY <1>4, <1>7, Puts DEF Put
    <2>2. pc'[p] = l /\ mem'[p] = mem[p]
        BY <2>1, Moved
    <2>3. Keeps
        <3>1. CASE Accepted(p, e)
            BY <1>6, <3>1
        <3>2. CASE ~Accepted(p, e)
            <4>1. journal' = journal /\ ChildKept
                BY <1>4, <1>5, <3>2, Puts DEF ChildKept, TypeOK
            <4> QED BY <4>1, QuietJournal
        <3> QED BY <3>1, <3>2
    <2>4. Knows(p)'
        <3>1. l = "record" => mem[p].result \in Results /\ child[mem[p].rev] = mem[p].result
            BY <1>5 DEF Knows
        <3> QED BY <1>1, <1>5, <2>2, <2>3, <3>1, WorkerKnows
    <2>5. AtRevision(p)' /\ Counted(p)'
        <3>1. CASE Accepted(p, e)
            <4>1. mem[p].status # "settled" /\ Counted(p)
                BY <1>5, <2>1, AtWork
            <4> QED BY <1>1, <1>5, <1>6, <2>2, <3>1, <4>1, WorksOn
        <3>2. CASE ~Accepted(p, e)
            <4>1. journal' = journal /\ Has("charged", r) /\ Has("started", r)
                <5>1. Duplicate(p, e) /\ journal' = journal
                    BY <1>4, <1>7, <3>2, Puts
                <5> QED BY <1>1, <1>3, <1>4, <1>5, <2>1, <5>1, Puts, AtWork
            <4> QED BY <1>1, <1>5, <2>1, <2>2, <4>1, WorksQuietly
        <3> QED BY <3>1, <3>2
    <2> QED BY <1>5, <2>4, <2>5
<1> QED BY <1>4, <1>6, <1>7, PutStep

LEMMA ChargeStep ==
    ASSUME GoalInv, NEW p \in Procs, Charge(p)
    PROVE  GoalInv'
<1>1. Worst \in 0..Worst
    BY GoalAssumption
<1> QED BY <1>1, ChargedStep DEF Charge, At

LEMMA SettleBudgetStep ==
    ASSUME GoalInv, NEW p \in Procs, SettleBudget(p)
    PROVE  GoalInv'
<1>1. mem[p].result \in Results
    BY Before DEF SettleBudget, At, Knows
<1>2. mem[p].result.usage \in 0..Worst
    BY <1>1, GoalAssumption DEF Results
<1> QED BY <1>2, ChargedStep DEF SettleBudget, At

LEMMA StartRevisionStep ==
    ASSUME GoalInv, NEW p \in Procs, StartRevision(p)
    PROVE  GoalInv'
<1>1. PICK r : r = mem[p].rev
    OBVIOUS
<1>2. PICK e : e = Event("started", r, 0)
    OBVIOUS
<1>3. e.kind = "started" /\ e.rev = r
    BY <1>2 DEF Event
<1>4. /\ Put(p, e, "execute", mem[p]) /\ journal' = Written(p, e) /\ child' = child /\ faults' = faults
      /\ pc[p] = "start" /\ pc[p] \in Working
    BY <1>1, <1>2 DEF Put, StartRevision, At, Working
<1>5. /\ mem[p] \in Memories /\ TypeOK /\ IsLog /\ LogInv /\ "execute" \in Labels /\ r \in Revisions
      /\ r \in Proposed
    BY <1>1, <1>4, Before, AtWork DEF Labels
<1>6. ASSUME Accepted(p, e)
      PROVE  /\ JournalPart' /\ Keeps /\ SameTally /\ ~Ended' /\ IsCurrent(r)' /\ Has("reserved", r)'
             /\ ~WasSettled(r)' /\ Has("started", r)'
    <2>1. lease = p /\ ~Ended /\ ~Has(e.kind, e.rev) /\ journal' = Append(journal, e)
        BY <1>4, <1>6, Puts
    <2>2. IsCurrent(r) /\ Has("reserved", r) /\ (WasSettled(r) => Has("settled", r))
        BY <1>1, <1>4, <2>1, AtWork
    <2>3. ~WasSettled(r)
        <3>1. Has("settled", r) => Has("started", r)
            BY <1>5 DEF LogInv, History
        <3> QED BY <1>3, <2>1, <2>2, <3>1
    <2>4. Typed(e) /\ Fitting(e, e.rev) /\ e.kind \in CourseKinds /\ e.kind # "reserved"
        BY <1>3, <1>5, <2>3 DEF Typed, Fitting, Kinds, CourseKinds
    <2>5. JournalPart' /\ Keeps /\ Extends(e) /\ ~Ended' /\ IsCurrent(r)' /\ Proposed' = Proposed
        BY <1>3, <1>4, <2>1, <2>2, <2>4, CourseNoted
    <2>6. SameTally
        BY <1>3, <1>5, <2>3, <2>5, TallyKept
    <2>7. Has("reserved", r)' /\ Has("started", r)' /\ ~WasSettled(r)'
        BY <1>3, <2>2, <2>3, <2>5 DEF Extends
    <2> QED BY <2>5, <2>6, <2>7
<1>7. ASSUME Accepted(p, e) \/ Duplicate(p, e)
      PROVE  "execute" \in Labels /\ mem[p] \in Memories /\ Knows(p)' /\ AtRevision(p)' /\ Counted(p)'
    <2>1. Goes(p, "execute", mem[p]) /\ lease = p
        BY <1>4, <1>7, Puts DEF Put
    <2>2. pc'[p] = "execute" /\ pc'[p] \in Working /\ mem'[p] = mem[p]
        BY <2>1, Moved DEF Working
    <2>3. Keeps
        <3>1. CASE Accepted(p, e)
            BY <1>6, <3>1
        <3>2. CASE ~Accepted(p, e)
            <4>1. journal' = journal /\ ChildKept
                BY <1>4, <1>5, <3>2, Puts DEF ChildKept, TypeOK
            <4> QED BY <4>1, QuietJournal
        <3> QED BY <3>1, <3>2
    <2>4. Knows(p)'
        BY <1>1, <1>5, <2>2, <2>3, WorkerKnows
    <2>5. AtRevision(p)' /\ Counted(p)'
        <3>1. CASE Accepted(p, e)
            <4>1. mem[p].status # "settled" /\ Counted(p)
                BY <1>4, <2>1, AtWork
            <4> QED BY <1>1, <1>4, <1>6, <2>2, <3>1, <4>1, WorksOn
        <3>2. CASE ~Accepted(p, e)
            <4>1. journal' = journal /\ Has("started", r)
                BY <1>3, <1>4, <1>7, <3>2, Puts
            <4> QED BY <1>1, <1>4, <2>1, <2>2, <4>1, WorksQuietly
        <3> QED BY <3>1, <3>2
    <2> QED BY <1>5, <2>4, <2>5
<1> QED BY <1>4, <1>6, <1>7, PutStep

\* What the holder of the lease knows where it decides.
LEMMA AtDecision ==
    ASSUME GoalInv, NEW p \in Procs, pc[p] \in {"authority", "decide"}
    PROVE  /\ mem[p].rev \in Proposed /\ mem[p].rev \in Revisions
           /\ lease = p => /\ ~Ended /\ IsCurrent(mem[p].rev) /\ mem[p].status = Status(mem[p].rev)
                           /\ AtRevision(p) /\ Counted(p)
<1>1. Knows(p) /\ Proposed \subseteq Revisions /\ (lease = p => AtRevision(p) /\ Counted(p))
    BY Before
<1> QED BY <1>1 DEF Knows, AtRevision

\* A revision that is to be executed was not settled, or has to be approved again.
LEMMA ToExecute ==
    ASSUME GoalInv, NEW r \in Proposed, Status(r) # "settled", ~ExactVerifiedReuse(r), WasSettled(r)
    PROVE  Has("settled", r) /\ Proposal(r).expands
<1>1. LogInv /\ r \in Revisions
    BY DEF GoalInv, Proposed
<1>2. History(r) /\ ReuseOK(r)
    BY <1>1 DEF LogInv
<1>3. Proposal(r).expands
    BY <1>2 DEF History
<1>4. Has("settled", r) \/ Has("reused", r)
    BY DEF WasSettled, Has, Places
<1>5. CASE Has("reused", r) /\ ~Has("settled", r)
    <2>1. Verified # {}
        BY <1>2, <1>5 DEF ReuseOK, VerifiedBefore
    <2> QED BY <1>2, <1>5, <2>1 DEF ReuseOK, ExactVerifiedReuse
<1> QED BY <1>3, <1>4, <1>5

LEMMA ReserveStep ==
    ASSUME GoalInv, NEW p \in Procs, Reserve(p)
    PROVE  GoalInv'
<1>1. PICK r : r = mem[p].rev
    OBVIOUS
<1>2. PICK e : e = Event("reserved", r, Worst)
    OBVIOUS
<1>3. e.kind = "reserved" /\ e.rev = r
    BY <1>2 DEF Event
<1>4. PICK l : l = IF mem[p].status = "running" THEN "execute" ELSE "start"
    OBVIOUS
<1>5. /\ pc[p] = "decide" /\ ~ExactVerifiedReuse(r) /\ mem[p].status # "settled"
      /\ child' = child /\ faults' = faults
    BY <1>1 DEF Reserve, At
<1>6. /\ mem[p] \in Memories /\ TypeOK /\ IsLog /\ LogInv /\ l \in Labels /\ l \in Working /\ r \in Revisions
      /\ r \in Proposed /\ ChildKept /\ EnvelopeCloses
    BY <1>1, <1>4, <1>5, Before, AtDecision DEF Labels, Working, ChildKept, TypeOK, GoalInv
<1>7. CASE ~Fits(r)
    <2>1. Quit(p) /\ journal' = journal
        BY <1>1, <1>7 DEF Reserve
    <2>2. JournalPart' /\ Keeps
        BY <1>6, <2>1, QuietJournal
    <2>3. faults' \in 0..MaxFaults
        BY <1>5, <1>6 DEF TypeOK
    <2> QED BY <1>6, <2>1, <2>2, <2>3, QuitStep
<1>8. CASE Fits(r)
    <2>1. Put(p, e, l, mem[p]) /\ journal' = Written(p, e)
        BY <1>1, <1>2, <1>4, <1>8 DEF Reserve, Put
    <2>2. ASSUME Accepted(p, e) \/ Duplicate(p, e)
          PROVE  /\ Accepted(p, e) => JournalPart'
                 /\ Keeps /\ SameTally /\ ~Ended' /\ IsCurrent(r)' /\ Has("reserved", r)'
                 /\ WasSettled(r)' => Has("settled", r)' /\ Proposal(r)'.expands /\ Status(r)' # "settled"
                 /\ Has("started", r) => Has("started", r)'
        <3>1. lease = p /\ IsCurrent(r) /\ mem[p].status = Status(r) /\ ~Ended
            BY <1>1, <1>5, <2>1, <2>2, Puts, AtDecision
        <3>2. WasSettled(r) => Has("settled", r) /\ Proposal(r).expands /\ Status(r) # "settled"
            BY <1>5, <1>6, <3>1, ToExecute
        <3>3. CASE Accepted(p, e)
            <4>1. ~Has(e.kind, e.rev) /\ journal' = Append(journal, e)
                BY <2>1, <3>3, Puts
            <4>2. Typed(e) /\ Fitting(e, e.rev) /\ e.kind \in CourseKinds
                BY <1>3, <1>5, <1>6 DEF Typed, Fitting, Kinds, CourseKinds
            <4>3. Spent + Worst <= Capacity
                BY <1>3, <1>8, <4>1 DEF Fits
            <4>4. JournalPart' /\ Keeps /\ Extends(e) /\ ~Ended' /\ IsCurrent(r)'
                BY <1>3, <1>5, <1>6, <3>1, <4>1, <4>2, <4>3, CourseNoted
            <4>5. SameView
                BY <1>3, <4>4, QuietView DEF StatusKinds
            <4>6. SameTally
                BY <1>6, <4>5, SameDerived DEF SameTally
            <4>7. /\ Has("reserved", r)' /\ (Has("settled", r) => Has("settled", r)')
                  /\ Has("started", r) => Has("started", r)'
                BY <1>3, <4>4 DEF Extends
            <4>8. WasSettled(r)' => Has("settled", r)' /\ Proposal(r)'.expands /\ Status(r)' # "settled"
                BY <1>6, <3>2, <4>5, <4>7 DEF SameView
            <4> QED BY <4>4, <4>6, <4>7, <4>8
        <3>4. CASE ~Accepted(p, e)
            <4>1. journal' = journal /\ Has("reserved", r)
                BY <1>3, <2>1, <2>2, <3>4, Puts
            <4>2. /\ SameView /\ (Ended' <=> Ended) /\ \A k : Has(k, r)' <=> Has(k, r)
                  /\ (WasSettled(r)' <=> WasSettled(r)) /\ Proposal(r)' = Proposal(r) /\ Status(r)' = Status(r)
                BY <4>1, NoEvent
            <4>3. SameTally /\ (IsCurrent(r)' <=> IsCurrent(r))
                BY <1>6, <4>2, SameDerived DEF SameTally
            <4>4. Keeps
                BY <1>6, <4>1, QuietJournal
            <4> QED BY <3>1, <3>2, <3>4, <4>1, <4>2, <4>3, <4>4
        <3> QED BY <3>3, <3>4
    <2>3. ASSUME Accepted(p, e) \/ Duplicate(p, e)
          PROVE  l \in Labels /\ mem[p] \in Memories /\ Knows(p)' /\ AtRevision(p)' /\ Counted(p)'
        <3>1. Goes(p, l, mem[p]) /\ lease = p
            BY <2>1, <2>3, Puts DEF Put
        <3>2. pc'[p] = l /\ mem'[p] = mem[p] /\ pc'[p] \in Working
            BY <1>6, <3>1, Moved
        <3>3. l \in {"start", "execute"} /\ (l = "execute" => Has("started", r))
            <4>1. l = "execute" => mem[p].status = "running"
                BY <1>4
            <4>2. Status(r) = "running" => Has("started", r)
                BY <1>6, DataTypes
            <4>3. mem[p].status = Status(r)
                BY <1>1, <1>5, <3>1, AtDecision
            <4> QED BY <1>4, <4>1, <4>2, <4>3
        <3>4. Knows(p)'
            BY <1>1, <1>6, <2>2, <2>3, <3>2, <3>3, WorkerKnows
        <3>5. AtRevision(p)' /\ Counted(p)'
            <4>1. Counted(p)
                BY <1>5, <3>1, AtDecision
            <4>2. pc'[p] \notin {"fail", "record"} /\ (pc'[p] # "start" => Has("started", r)')
                BY <2>2, <2>3, <3>2, <3>3
            <4> QED BY <1>1, <1>5, <2>2, <2>3, <3>2, <4>1, <4>2, WorksOn
        <3> QED BY <1>6, <3>4, <3>5
    <2> QED BY <1>5, <2>1, <2>2, <2>3, PutStep
<1> QED BY <1>7, <1>8

\* A goal that ends on its current revision leaves no open reservation.
LEMMA AllCharged ==
    ASSUME GoalInv, NEW r, IsCurrent(r), Has("reserved", r) => Has("charged", r) \/ WasSettled(r)
    PROVE  \A q \in Revisions : Has("reserved", q) => Has("charged", q)
<1>1. LogInv /\ Proposed \subseteq Revisions /\ Revisions \subseteq Nat
    BY GoalAssumption DEF GoalInv, Proposed, Revisions
<1>2. ASSUME NEW q \in Revisions, Has("reserved", q) PROVE Has("charged", q)
    <2>1. History(q) /\ ReuseOK(q) /\ OneByOne
        BY <1>1 DEF LogInv
    <2>2. q \in Proposed
        BY <1>2, <2>1 DEF History
    <2>3. Has("charged", q) \/ WasSettled(q)
        <3>1. CASE q = r
            BY <1>2, <3>1
        <3>2. CASE q # r
            <4>1. r \in Proposed /\ q < r
                BY <1>1, <2>2, <3>2 DEF IsCurrent
            <4> QED BY <2>1, <4>1 DEF OneByOne
        <3> QED BY <3>1, <3>2
    <2> QED BY <1>2, <2>1, <2>3 DEF ReuseOK
<1> QED BY <1>2

LEMMA FailStep ==
    ASSUME GoalInv, NEW p \in Procs, Fail(p)
    PROVE  GoalInv'
<1>1. PICK r : r = mem[p].rev
    OBVIOUS
<1>2. PICK e : e = Event("failed", r, 0)
    OBVIOUS
<1>3. e.kind = "failed" /\ e.rev = r
    BY <1>2 DEF Event
<1>4. /\ PutLast(p, e) /\ journal' = Written(p, e) /\ child' = child /\ faults' = faults
      /\ pc[p] = "fail" /\ pc[p] \in Working
    BY <1>1, <1>2 DEF PutLast, Fail, At, Working
<1>5. ASSUME Accepted(p, e) PROVE JournalPart' /\ Keeps
    <2>1. lease = p /\ ~Ended /\ ~Has(e.kind, e.rev) /\ journal' = Append(journal, e)
        BY <1>4, <1>5, Puts
    <2>2. IsCurrent(r) /\ Has("charged", r) /\ r \in Revisions
        BY <1>1, <1>4, <2>1, AtWork
    <2>3. \A q \in Revisions : Has("reserved", q) => Has("charged", q)
        BY <2>2, AllCharged
    <2>4. Typed(e) /\ e.kind \in Terminals
        BY <1>3, <2>2 DEF Typed, Kinds, Terminals, Failures
    <2> QED BY <1>3, <1>4, <2>1, <2>3, <2>4, EndedJournal
<1> QED BY <1>4, <1>5, PutLastStep

LEMMA AwaitsStep ==
    ASSUME GoalInv, NEW p \in Procs, Awaits(p)
    PROVE  GoalInv'
<1>1. PICK r : r = mem[p].rev
    OBVIOUS
<1>2. PICK e : e = Event("awaitingApproval", r, 0)
    OBVIOUS
<1>3. e.kind = "awaitingApproval" /\ e.rev = r
    BY <1>2 DEF Event
<1>4. /\ PutLast(p, e) /\ journal' = Written(p, e) /\ child' = child /\ faults' = faults
      /\ pc[p] = "execute" /\ pc[p] \in Working /\ child[r] = NoResult
    BY <1>1, <1>2 DEF PutLast, Awaits, At, Working
<1>5. ASSUME Accepted(p, e) PROVE JournalPart' /\ Keeps
    <2>1. lease = p /\ ~Ended /\ ~Has(e.kind, e.rev) /\ journal' = Append(journal, e)
        BY <1>4, <1>5, Puts
    <2>2. IsCurrent(r) /\ r \in Revisions /\ (WasSettled(r) => Has("settled", r))
        BY <1>1, <1>4, <2>1, AtWork
    <2>3. ~WasSettled(r)
        <3>1. Has("settled", r) => child[r] # NoResult
            BY <2>2 DEF GoalInv, LogInv, History
        <3> QED BY <1>4, <2>2, <3>1
    <2>4. Typed(e) /\ Fitting(e, e.rev) /\ e.kind \in CourseKinds /\ e.kind # "reserved"
        BY <1>3, <2>2, <2>3 DEF Typed, Fitting, Kinds, CourseKinds
    <2> QED BY <1>3, <1>4, <2>1, <2>2, <2>4, CourseNoted
<1> QED BY <1>4, <1>5, PutLastStep

\* What the holder knows stays true of a revision when nothing is written.
LEMMA QuietFacts ==
    ASSUME GoalInv, journal' = journal
    PROVE  /\ SameTally /\ (Ended' <=> Ended) /\ Proposed' = Proposed
           /\ \A r : /\ IsCurrent(r)' <=> IsCurrent(r)
                     /\ WasSettled(r)' <=> WasSettled(r)
                     /\ Proposal(r)' = Proposal(r) /\ Status(r)' = Status(r)
           /\ \A k, r : Has(k, r)' <=> Has(k, r)
<1>0. TypeOK /\ IsLog
    BY DEF GoalInv, LogInv
<1>1. /\ SameView /\ (Ended' <=> Ended)
      /\ \A r : (WasSettled(r)' <=> WasSettled(r)) /\ Proposal(r)' = Proposal(r) /\ Status(r)' = Status(r)
      /\ \A k, r : Has(k, r)' <=> Has(k, r)
    BY NoEvent
<1>2. SameTally /\ Proposed' = Proposed /\ \A r : IsCurrent(r)' <=> IsCurrent(r)
    BY <1>0, <1>1, SameDerived DEF SameTally, SameView
<1> QED BY <1>1, <1>2

\* A memory with a wider grant.
LEMMA WidenedKept ==
    ASSUME NEW m \in Memories
    PROVE  /\ [m EXCEPT !.widened = TRUE] \in Memories /\ [m EXCEPT !.widened = TRUE].rev = m.rev
           /\ [m EXCEPT !.widened = TRUE].status = m.status
           /\ [m EXCEPT !.widened = TRUE].noProgress = m.noProgress /\ [m EXCEPT !.widened = TRUE].prior = m.prior
BY DEF Memories

LEMMA AuthorityStep ==
    ASSUME GoalInv, NEW p \in Procs, Authority(p)
    PROVE  GoalInv'
<1>1. PICK r : r = mem[p].rev
    OBVIOUS
<1>2. PICK e : e = Event("awaitingAuthority", r, 0)
    OBVIOUS
<1>3. e.kind = "awaitingAuthority" /\ e.rev = r
    BY <1>2 DEF Event
<1>4. /\ pc[p] = "authority" /\ child' = child /\ faults' = faults /\ mem[p] \in Memories
      /\ r \in Proposed /\ r \in Revisions /\ ChildKept
    BY <1>1, AtDecision, Before DEF Authority, At, ChildKept, TypeOK
<1>5. CASE PutLast(p, e)
    <2>1. journal' = Written(p, e)
        BY <1>5 DEF PutLast
    <2>2. ASSUME Accepted(p, e) PROVE JournalPart' /\ Keeps
        <3>1. lease = p /\ ~Ended /\ ~Has(e.kind, e.rev) /\ journal' = Append(journal, e)
            BY <2>1, <2>2, Puts
        <3>2. IsCurrent(r) /\ Proposal(r).expands
            BY <1>1, <1>4, <3>1, AtDecision, Before DEF Knows
        <3>3. Typed(e) /\ Fitting(e, e.rev) /\ e.kind \in CourseKinds /\ e.kind # "reserved"
            BY <1>3, <1>4, <3>2 DEF Typed, Fitting, Kinds, CourseKinds
        <3> QED BY <1>3, <1>4, <3>1, <3>2, <3>3, CourseNoted
    <2> QED BY <1>4, <1>5, <2>2, PutLastStep
<1>6. CASE Goes(p, "decide", [mem[p] EXCEPT !.widened = TRUE]) /\ journal' = journal
    <2>1. PICK m : m = [mem[p] EXCEPT !.widened = TRUE]
        OBVIOUS
    <2>2. /\ m \in Memories /\ m.rev = mem[p].rev /\ m.status = mem[p].status
          /\ m.noProgress = mem[p].noProgress /\ m.prior = mem[p].prior
        BY <1>4, <2>1, WidenedKept
    <2>3. Goes(p, "decide", m) /\ "decide" \in Labels
        BY <1>6, <2>1 DEF Labels
    <2>4. pc'[p] = "decide" /\ mem'[p] = m
        BY <2>3, Moved
    <2>5. Knows(p)'
        <3>1. Keeps
            BY <1>4, <1>6, QuietJournal
        <3> QED BY <1>1, <1>4, <2>2, <2>4, <3>1, WorkerKnows
    <2>6. ASSUME lease = p PROVE AtRevision(p)' /\ Counted(p)'
        <3>1. ~Ended /\ IsCurrent(r) /\ mem[p].status = Status(r) /\ Counted(p)
            BY <1>1, <1>4, <2>6, AtDecision
        <3>2. /\ SameTally /\ ~Ended' /\ IsCurrent(r)' /\ Status(r)' = Status(r)
            BY <1>6, <3>1, QuietFacts
        <3>3. AtRevision(p)'
            BY <1>1, <2>2, <2>4, <3>1, <3>2 DEF AtRevision
        <3>4. Counted(p)'
            BY <1>1, <1>4, <2>2, <2>4, <3>1, <3>2 DEF Counted, SameTally
        <3> QED BY <3>3, <3>4
    <2> QED BY <1>4, <1>6, <2>2, <2>3, <2>5, <2>6, QuietStep
<1> QED BY <1>1, <1>2, <1>5, <1>6 DEF Authority

LEMMA SkipSettledStep ==
    ASSUME GoalInv, NEW p \in Procs, SkipSettled(p)
    PROVE  GoalInv'
<1>1. PICK r : r = mem[p].rev
    OBVIOUS
<1>2. /\ pc[p] = "decide" /\ child' = child /\ faults' = faults /\ mem[p] \in Memories /\ journal' = journal
      /\ r \in Proposed /\ r \in Revisions /\ ChildKept /\ TypeOK /\ LogInv /\ IsLog /\ "conclude" \in Labels
      /\ mem[p].status = "settled" /\ ~ExactVerifiedReuse(r) /\ Goes(p, "conclude", mem[p])
    BY <1>1, AtDecision, Before DEF SkipSettled, At, ChildKept, TypeOK, Labels
<1>3. pc'[p] = "conclude" /\ mem'[p] = mem[p]
    BY <1>2, Moved
<1>4. Knows(p)'
    <2>1. Keeps
        BY <1>2, QuietJournal
    <2> QED BY <1>1, <1>2, <1>3, <2>1, WorkerKnows
<1>5. ASSUME lease = p PROVE AtRevision(p)' /\ Counted(p)'
    <2>1. ~Ended /\ IsCurrent(r) /\ Status(r) = "settled" /\ Counted(p)
        BY <1>1, <1>2, <1>5, AtDecision
    <2>2. WasSettled(r) /\ r \in Settled
        BY <1>2, <2>1, DataTypes DEF Settled
    <2>3. ~Has("reused", r)
        <3> SUFFICES ASSUME Has("reused", r) PROVE FALSE
            OBVIOUS
        <3>1. ReuseOK(r)
            BY <1>2 DEF LogInv
        <3>2. Verified # {}
            <4>1. CASE Has("settled", r)
                BY <2>2, <3>1 DEF ReuseOK, Verified
            <4>2. CASE ~Has("settled", r)
                BY <3>1, <4>2 DEF ReuseOK, VerifiedBefore
            <4> QED BY <4>1, <4>2
        <3> QED BY <1>2, <3>1, <3>2 DEF ReuseOK, ExactVerifiedReuse
    <2>4. /\ SameTally /\ ~Ended' /\ IsCurrent(r)' /\ WasSettled(r)' /\ ~Has("reused", r)'
        BY <1>2, <2>1, <2>2, <2>3, QuietFacts
    <2>5. AtRevision(p)'
        BY <1>1, <1>3, <2>4 DEF AtRevision
    <2>6. Counted(p)'
        BY <1>1, <1>2, <1>3, <2>1, <2>4 DEF Counted, SameTally
    <2> QED BY <2>5, <2>6
<1> QED BY <1>2, <1>4, <1>5, QuietStep

\* A memory that has counted.
LEMMA CountKept ==
    ASSUME NEW m \in Memories, NEW n \in 0..MaxRevisions
    PROVE  /\ [m EXCEPT !.noProgress = n] \in Memories /\ [m EXCEPT !.noProgress = n].rev = m.rev
           /\ [m EXCEPT !.noProgress = n].noProgress = n
BY DEF Memories

LEMMA ReuseStep ==
    ASSUME GoalInv, NEW p \in Procs, Reuse(p)
    PROVE  GoalInv'
<1>1. PICK r : r = mem[p].rev
    OBVIOUS
<1>2. PICK e : e = Event("reused", r, [verdict |-> "pass", reusable |-> TRUE, from |-> Max(Verified)])
    OBVIOUS
<1>3. e.kind = "reused" /\ e.rev = r /\ e.data = [verdict |-> "pass", reusable |-> TRUE, from |-> Max(Verified)]
    BY <1>2 DEF Event
<1>4. PICK m : m = [mem[p] EXCEPT !.noProgress = 0]
    OBVIOUS
<1>5. /\ Put(p, e, "conclude", m) /\ journal' = Written(p, e) /\ child' = child /\ faults' = faults
      /\ pc[p] = "decide" /\ ExactVerifiedReuse(r)
    BY <1>1, <1>2, <1>4 DEF Put, Reuse, At
<1>6. /\ mem[p] \in Memories /\ TypeOK /\ IsLog /\ "conclude" \in Labels /\ r \in Proposed /\ r \in Revisions
      /\ 0 \in 0..MaxRevisions /\ r \in Nat /\ ChildKept
    BY <1>1, <1>5, Before, AtDecision DEF Labels, ChildKept, TypeOK
<1>7. m \in Memories /\ m.rev = r /\ m.noProgress = 0
    BY <1>1, <1>4, <1>6, CountKept
<1>8. e.data \in Outcomes
    <2>1. Verified \subseteq Revisions /\ Verified # {}
        BY <1>5, DataTypes DEF Verified, Settled, Proposed, ExactVerifiedReuse
    <2>2. IsFiniteSet(Revisions) /\ Revisions \subseteq Nat
        BY GoalAssumption, FS_Interval DEF Revisions
    <2>3. IsFiniteSet(Verified) /\ Verified \subseteq Nat
        BY <2>1, <2>2, FS_Subset
    <2>4. Max(Verified) \in Verified
        BY <2>1, <2>3, MaxOfNat
    <2>5. Max(Verified) \in Revisions
        BY <2>1, <2>4
    <2> QED BY <1>3, <2>5 DEF Outcomes
<1>9. ASSUME Accepted(p, e)
      PROVE  JournalPart' /\ Keeps /\ ~Ended' /\ IsCurrent(r)' /\ WasSettled(r)' /\ Has("reused", r)'
    <2>1. lease = p /\ ~Ended /\ ~Has(e.kind, e.rev) /\ journal' = Append(journal, e)
        BY <1>5, <1>9, Puts
    <2>2. IsCurrent(r)
        BY <1>1, <1>5, <2>1, AtDecision
    <2>3. Typed(e) /\ Fitting(e, e.rev) /\ e.kind \in CourseKinds /\ e.kind # "reserved"
        BY <1>3, <1>5, <1>6, <1>8 DEF Typed, Fitting, Kinds, CourseKinds
    <2>4. JournalPart' /\ Keeps /\ Extends(e) /\ ~Ended' /\ IsCurrent(r)'
        BY <1>3, <1>5, <2>1, <2>2, <2>3, CourseNoted
    <2>5. WasSettled(r)' /\ Has("reused", r)'
        BY <1>3, <2>4 DEF Extends
    <2> QED BY <2>4, <2>5
<1>10. ASSUME Duplicate(p, e)
       PROVE  Keeps /\ ~Ended' /\ IsCurrent(r)' /\ WasSettled(r)' /\ Has("reused", r)'
    <2>1. lease = p /\ Has("reused", r) /\ journal' = journal
        BY <1>3, <1>5, <1>10, Puts
    <2>2. ~Ended /\ IsCurrent(r)
        BY <1>1, <1>5, <2>1, AtDecision
    <2>3. WasSettled(r)
        BY <2>1 DEF WasSettled, Has, Places
    <2>4. Keeps
        BY <1>6, <2>1, QuietJournal
    <2> QED BY <2>1, <2>2, <2>3, <2>4, QuietFacts
<1>11. ASSUME Accepted(p, e) \/ Duplicate(p, e)
       PROVE  "conclude" \in Labels /\ m \in Memories /\ Knows(p)' /\ AtRevision(p)' /\ Counted(p)'
    <2>1. Goes(p, "conclude", m)
        BY <1>5, <1>11 DEF Put
    <2>2. pc'[p] = "conclude" /\ mem'[p] = m
        BY <2>1, Moved
    <2>3. Keeps /\ ~Ended' /\ IsCurrent(r)' /\ WasSettled(r)' /\ Has("reused", r)'
        BY <1>9, <1>10, <1>11
    <2>4. Knows(p)'
        BY <1>1, <1>6, <1>7, <2>2, <2>3, WorkerKnows
    <2>5. AtRevision(p)'
        BY <1>7, <2>2, <2>3 DEF AtRevision
    <2>6. Counted(p)'
        BY <1>6, <1>7, <2>2, <2>3 DEF Counted
    <2> QED BY <1>6, <1>7, <2>4, <2>5, <2>6
<1> QED BY <1>5, <1>9, <1>11, PutStep

LEMMA RecordStep ==
    ASSUME GoalInv, NEW p \in Procs, Record(p)
    PROVE  GoalInv'
<1>1. PICK r : r = mem[p].rev
    OBVIOUS
<1>2. PICK x : x = mem[p].result
    OBVIOUS
<1>3. PICK c : c = Proposal(r).coverage
    OBVIOUS
<1>4. PICK e : e = Event("settled", r, [verdict |-> x.verdict, reusable |-> x.reusable, from |-> r])
    OBVIOUS
<1>5. e.kind = "settled" /\ e.rev = r /\ e.data = [verdict |-> x.verdict, reusable |-> x.reusable, from |-> r]
    BY <1>4 DEF Event
<1>6. PICK n : n = IF c > mem[p].prior THEN 0 ELSE mem[p].noProgress + 1
    OBVIOUS
<1>7. PICK d : d = Max({c, mem[p].prior})
    OBVIOUS
<1>8. PICK m : m = [mem[p] EXCEPT !.status = "settled", !.result = NoResult, !.noProgress = n, !.prior = d]
    OBVIOUS
<1>9. /\ Put(p, e, "conclude", m) /\ journal' = Written(p, e) /\ child' = child /\ faults' = faults
      /\ pc[p] = "record" /\ pc[p] \in Working
    BY <1>1, <1>2, <1>3, <1>4, <1>6, <1>7, <1>8 DEF Put, Record, At, Working
<1>10. /\ mem[p] \in Memories /\ TypeOK /\ IsLog /\ LogInv /\ "conclude" \in Labels /\ r \in Proposed
       /\ r \in Revisions /\ r \in Nat /\ ChildKept /\ Knows(p) /\ MaxRevisions \in Nat /\ r < MaxRevisions
       /\ mem[p].noProgress \in Nat /\ mem[p].prior \in Nat /\ mem[p].prior \in Coverages \union {0}
    BY <1>1, <1>9, Before, AtWork DEF Labels, ChildKept, TypeOK
<1>11. x \in Results /\ child[r] = x /\ child[r] # NoResult
    <2>1. NoResult \notin Results
        BY DEF NoResult, Results
    <2> QED BY <1>1, <1>2, <1>9, <1>10, <2>1 DEF Knows
<1>12. e.data \in Outcomes
    BY <1>5, <1>10, <1>11 DEF Outcomes, Results
<1>13. c \in Coverages /\ c \in Nat
    BY <1>3, <1>10, DataTypes, GoalAssumption DEF Proposals
<1>14. d \in Coverages \union {0}
    <2>1. PICK P : P = {c, mem[p].prior}
        OBVIOUS
    <2>2. IsFiniteSet(P)
        <3>1. IsFiniteSet({c}) /\ P = {c} \union {mem[p].prior}
            BY <2>1, FS_Singleton
        <3> QED BY <3>1, FS_AddElement
    <2>3. P \subseteq Nat /\ P # {} /\ P \subseteq Coverages \union {0}
        BY <1>10, <1>13, <2>1
    <2>4. Max(P) \in P
        BY <2>2, <2>3, MaxOfNat
    <2> QED BY <1>7, <2>1, <2>3, <2>4
<1>15. ASSUME lease = p
       PROVE  /\ ~Ended /\ IsCurrent(r) /\ Has("started", r) /\ Has("charged", r) /\ Counted(p)
              /\ (WasSettled(r) => Has("settled", r) /\ Status(r) # "settled")
              /\ mem[p].noProgress <= r
              /\ n \in 0..MaxRevisions /\ n <= r + 1
    <2>1. /\ ~Ended /\ IsCurrent(r) /\ Has("started", r) /\ Has("charged", r) /\ Counted(p)
          /\ (WasSettled(r) => Has("settled", r) /\ Status(r) # "settled") /\ mem[p].status # "settled"
        BY <1>1, <1>9, <1>15, AtWork
    <2>2. mem[p].noProgress <= r
        BY <1>1, <1>9, <2>1 DEF Counted
    <2> QED BY <1>6, <1>10, <2>1, <2>2
<1>16. ASSUME lease = p PROVE m \in Memories /\ m.rev = r /\ m.noProgress = n /\ m.prior = d
    <2>1. n \in 0..MaxRevisions /\ d \in Coverages \union {0} /\ mem[p] \in Memories
        BY <1>10, <1>14, <1>15, <1>16
    <2>2. PICK u : u = mem[p]
        OBVIOUS
    <2>3. m = [u EXCEPT !.status = "settled", !.result = NoResult, !.noProgress = n, !.prior = d]
        BY <1>8, <2>2
    <2>4. m \in Memories /\ m.rev = u.rev /\ m.noProgress = n /\ m.prior = d
        BY <2>1, <2>2, <2>3 DEF Memories, Statuses
    <2> QED BY <1>1, <2>2, <2>4
<1>17. ASSUME Accepted(p, e)
       PROVE  /\ JournalPart' /\ Keeps /\ ~Ended' /\ IsCurrent(r)' /\ WasSettled(r)' /\ ~Has("reused", r)'
              /\ Demoted' = {} => n = NoProgress(Settled)' /\ d = PriorCoverage(Settled)'
    <2>1. lease = p /\ ~Ended /\ ~Has(e.kind, e.rev) /\ journal' = Append(journal, e)
        BY <1>9, <1>17, Puts
    <2>2. ~WasSettled(r)
        BY <1>5, <1>15, <2>1
    <2>3. Typed(e) /\ Fitting(e, e.rev) /\ e.kind \in CourseKinds /\ e.kind # "reserved"
        BY <1>5, <1>10, <1>11, <1>12, <1>15, <2>1, <2>2 DEF Typed, Fitting, Kinds, CourseKinds
    <2>4. JournalPart' /\ Keeps /\ Extends(e) /\ ~Ended' /\ IsCurrent(r)' /\ Proposed' = Proposed
        BY <1>5, <1>9, <1>15, <2>1, <2>3, CourseNoted
    <2>5. WasSettled(r)' /\ ~Has("reused", r)'
        <3>1. ~Has("reused", r)
            BY <2>2 DEF WasSettled, Has, Places
        <3> QED BY <1>5, <2>4, <3>1 DEF Extends
    <2>6. Status(r)' = "settled"
        BY <1>5, <2>4, StatusDomain DEF Extends, StatusKinds
    <2>7. /\ \A q \in Proposed : q # r => Status(q)' = Status(q) /\ (WasSettled(q)' <=> WasSettled(q))
          /\ \A q \in Proposed : Proposal(q)' = Proposal(q)
        BY <1>5, <2>4 DEF Extends, Proposed, Keeps
    <2>8. Settled' = Settled \union {r} /\ Demoted' = Demoted
        <3>1. Settled' = Settled \union {r}
            BY <1>10, <2>4, <2>6, <2>7 DEF Settled
        <3>2. Demoted' = Demoted
            BY <2>2, <2>4, <2>6, <2>7 DEF Demoted
        <3> QED BY <3>1, <3>2
    <2>9. PICK S : S = Settled
        OBVIOUS
    <2>10. S \subseteq Proposed /\ \A q \in S : q < r
        <3>1. \A q \in S : q \in Proposed /\ q # r /\ q \in Nat
            BY <1>10, <2>2, <2>9, DataTypes DEF Settled, Proposed, Revisions
        <3> QED BY <1>10, <1>15, <2>1, <3>1 DEF IsCurrent
    <2>11. /\ NoProgress(S \union {r}) = IF c > PriorCoverage(S) THEN 0 ELSE NoProgress(S) + 1
           /\ PriorCoverage(S \union {r}) = Max({c, PriorCoverage(S)})
        BY <1>3, <1>10, <2>10, CountOne
    <2>12. PICK T : T = S \union {r}
        OBVIOUS
    <2>13. NoProgress(T)' = NoProgress(T) /\ PriorCoverage(T)' = PriorCoverage(T)
        <3>1. \A q \in T : Proposal(q)' = Proposal(q)
            BY <1>10, <2>7, <2>10, <2>12
        <3> QED BY <3>1, SameCounts
    <2>14. NoProgress(Settled)' = NoProgress(T)' /\ PriorCoverage(Settled)' = PriorCoverage(T)'
        BY <2>8, <2>9, <2>12 DEF NoProgress, Raises, PriorCoverage
    <2>15. Demoted = {} => mem[p].noProgress = NoProgress(S) /\ mem[p].prior = PriorCoverage(S)
        BY <1>9, <1>15, <2>1, <2>9 DEF Counted
    <2>16. Demoted' = {} => n = NoProgress(Settled)' /\ d = PriorCoverage(Settled)'
        <3> SUFFICES ASSUME Demoted' = {} PROVE n = NoProgress(Settled)' /\ d = PriorCoverage(Settled)'
            OBVIOUS
        <3>1. mem[p].noProgress = NoProgress(S) /\ mem[p].prior = PriorCoverage(S)
            BY <2>8, <2>15
        <3>2. n = NoProgress(T) /\ d = PriorCoverage(T)
            BY <1>6, <1>7, <2>11, <2>12, <3>1
        <3> QED BY <2>13, <2>14, <3>2
    <2> QED BY <2>4, <2>5, <2>16
<1>18. ASSUME Duplicate(p, e)
       PROVE  Keeps /\ ~Ended' /\ IsCurrent(r)' /\ WasSettled(r)' /\ Demoted' # {}
    <2>1. lease = p /\ Has("settled", r) /\ journal' = journal
        BY <1>5, <1>9, <1>18, Puts
    <2>2. WasSettled(r)
        BY <2>1 DEF WasSettled, Has, Places
    <2>3. r \in Demoted
        BY <1>10, <1>15, <2>1, <2>2 DEF Demoted
    <2>4. Keeps
        BY <1>10, <2>1, QuietJournal
    <2> QED BY <1>15, <2>1, <2>2, <2>3, <2>4, QuietFacts DEF SameTally
<1>19. ASSUME Accepted(p, e) \/ Duplicate(p, e)
       PROVE  "conclude" \in Labels /\ m \in Memories /\ Knows(p)' /\ AtRevision(p)' /\ Counted(p)'
    <2>1. Goes(p, "conclude", m) /\ lease = p
        BY <1>9, <1>19, Puts DEF Put
    <2>2. pc'[p] = "conclude" /\ mem'[p] = m
        BY <2>1, Moved
    <2>3. Keeps /\ ~Ended' /\ IsCurrent(r)' /\ WasSettled(r)'
        BY <1>17, <1>18, <1>19
    <2>4. Knows(p)'
        BY <1>1, <1>10, <1>16, <2>1, <2>2, <2>3, WorkerKnows
    <2>5. AtRevision(p)'
        BY <1>16, <2>1, <2>2, <2>3 DEF AtRevision
    <2>6. Demoted' = {} => ~Has("reused", r)' /\ n = NoProgress(Settled)' /\ d = PriorCoverage(Settled)'
        BY <1>17, <1>18, <1>19
    <2>7. Counted(p)'
        BY <1>15, <1>16, <2>1, <2>2, <2>6 DEF Counted
    <2> QED BY <1>10, <1>16, <2>1, <2>4, <2>5, <2>7
<1> QED BY <1>9, <1>17, <1>19, PutStep

\* A memory for the next revision.
LEMMA NextKept ==
    ASSUME NEW m \in Memories, NEW n \in 0..MaxRevisions
    PROVE  /\ [m EXCEPT !.rev = n] \in Memories /\ [m EXCEPT !.rev = n].rev = n
           /\ [m EXCEPT !.rev = n].noProgress = m.noProgress /\ [m EXCEPT !.rev = n].prior = m.prior
BY DEF Memories

LEMMA ConcludeStep ==
    ASSUME GoalInv, NEW p \in Procs, Conclude(p)
    PROVE  GoalInv'
<1>1. PICK r : r = mem[p].rev
    OBVIOUS
<1>2. PICK d : d = Decision(Proposal(r), Execution(r).verdict, mem[p].noProgress)
    OBVIOUS
<1>3. /\ pc[p] = "conclude" /\ child' = child /\ faults' = faults /\ mem[p] \in Memories
      /\ r \in Proposed /\ r \in Revisions /\ r \in Nat /\ r < MaxRevisions /\ MaxRevisions \in Nat
      /\ TypeOK /\ LogInv /\ IsLog /\ ChildKept
      /\ lease = p => AtRevision(p) /\ Counted(p)
    BY <1>1, Before DEF Conclude, At, Knows, ChildKept, TypeOK
<1>4. d \in {"replan", "verification-failed", "no-progress", "blocked", "completed"}
    BY <1>2 DEF Decision
<1>5. lease = p => /\ ~Ended /\ IsCurrent(r) /\ WasSettled(r)
                   /\ Demoted = {} =>
                         mem[p].noProgress = IF Has("reused", r) THEN 0 ELSE NoProgress(Settled)
    BY <1>1, <1>3 DEF AtRevision, Counted
<1>6. CASE d # "replan"
    <2>1. PICK e : e = Event(d, r, 0)
        OBVIOUS
    <2>2. e.kind = d /\ e.rev = r
        BY <2>1 DEF Event
    <2>3. PutLast(p, e) /\ journal' = Written(p, e)
        BY <1>1, <1>2, <1>6, <2>1 DEF Conclude, PutLast
    <2>4. ASSUME Accepted(p, e) PROVE JournalPart' /\ Keeps
        <3>1. lease = p /\ ~Ended /\ ~Has(e.kind, e.rev) /\ journal' = Append(journal, e)
            BY <2>3, <2>4, Puts
        <3>2. \A q \in Revisions : Has("reserved", q) => Has("charged", q)
            BY <1>5, <3>1, AllCharged
        <3>3. Typed(e) /\ e.kind \in Terminals
            BY <1>3, <1>4, <1>6, <2>2 DEF Typed, Kinds, Terminals, Failures
        <3>4. Demoted = {} => e.kind = Decision(Proposal(r), Execution(r).verdict,
                                                IF Has("reused", r) THEN 0 ELSE NoProgress(Settled))
            BY <1>2, <1>5, <2>2, <3>1
        <3>5. d = "completed" => Proposal(r).decision = "complete" /\ Execution(r).verdict = "pass"
            BY <1>2 DEF Decision
        <3>6. Proposal(r).decision = "complete" => Proposal(r).coverage >= Target
            BY <1>3 DEF LogInv, History
        <3> QED BY <1>3, <1>5, <2>2, <3>1, <3>2, <3>3, <3>4, <3>5, <3>6, EndedJournal
    <2> QED BY <1>3, <2>3, <2>4, PutLastStep
<1>7. CASE d = "replan"
    <2>1. PICK m : m = [mem[p] EXCEPT !.rev = r + 1]
        OBVIOUS
    <2>2. r + 1 \in 0..MaxRevisions
        BY <1>3
    <2>3. m \in Memories /\ m.rev = r + 1 /\ m.noProgress = mem[p].noProgress /\ m.prior = mem[p].prior
        BY <1>3, <2>1, <2>2, NextKept
    <2>4. Goes(p, "loop", m) /\ journal' = journal /\ "loop" \in Labels
        BY <1>1, <1>2, <1>7, <2>1 DEF Conclude, Labels
    <2>5. pc'[p] = "loop" /\ mem'[p] = m
        BY <2>4, Moved
    <2>6. Knows(p)'
        BY <2>5 DEF Knows
    <2>7. ASSUME lease = p PROVE AtRevision(p)' /\ Counted(p)'
        <3>1. ~Ended' /\ IsCurrent(r)' /\ WasSettled(r)' /\ SameTally
            BY <1>5, <2>4, <2>7, QuietFacts
        <3>2. m.rev > 0 /\ m.rev - 1 = r
            BY <1>3, <2>3
        <3>3. AtRevision(p)'
            BY <2>5, <3>1, <3>2 DEF AtRevision
        <3>4. Demoted = {} => ~Has("reused", r)
            <4> SUFFICES ASSUME Demoted = {}, Has("reused", r) PROVE FALSE
                OBVIOUS
            <4>1. mem[p].noProgress = 0
                BY <1>5, <2>7
            <4>2. Proposal(r).decision = "complete" /\ Execution(r).verdict = "pass"
                BY <1>3 DEF LogInv, ReuseOK
            <4>3. ~(0 >= Window)
                BY GoalAssumption
            <4> QED BY <1>2, <1>7, <4>1, <4>2, <4>3 DEF Decision
        <3>5. Demoted = {} => mem[p].noProgress = NoProgress(Settled) /\ mem[p].prior = PriorCoverage(Settled)
            BY <1>1, <1>3, <2>7, <3>4 DEF Counted
        <3>6. mem[p].noProgress <= r + 1 /\ mem[p].noProgress \in Nat
            BY <1>1, <1>3, <2>7, Before DEF Counted
        <3>7. Demoted' = {} => m.noProgress = NoProgress(Settled)' /\ m.prior = PriorCoverage(Settled)'
            BY <2>3, <3>1, <3>5 DEF SameTally
        <3>8. m.noProgress <= m.rev /\ m.noProgress <= m.rev + 1
            BY <1>3, <2>3, <3>6
        <3>9. Counted(p)'
            BY <2>5, <3>7, <3>8 DEF Counted
        <3> QED BY <3>3, <3>9
    <2> QED BY <1>3, <2>3, <2>4, <2>6, <2>7, QuietStep
<1> QED BY <1>6, <1>7

\* A memory of a status.
LEMMA StatusKept ==
    ASSUME NEW m \in Memories, NEW s \in Statuses
    PROVE  /\ [m EXCEPT !.status = s] \in Memories /\ [m EXCEPT !.status = s].rev = m.rev
           /\ [m EXCEPT !.status = s].noProgress = m.noProgress /\ [m EXCEPT !.status = s].prior = m.prior
           /\ [m EXCEPT !.status = s].status = s
BY DEF Memories

\* Where the plan of a revision leads to.
LEMMA AfterPlanIs ==
    \A m, x : /\ AfterPlan(m, x) \in {"authority", "decide"} /\ AfterPlan(m, x) \in Labels
              /\ x.expands \in BOOLEAN /\ AfterPlan(m, x) = "authority" => x.expands
BY DEF AfterPlan, NeedsApproval, Labels

\* A new run knows its revision, or there is none yet.
LEMMA AtLoop ==
    ASSUME GoalInv, NEW p \in Procs, pc[p] = "loop", lease = p
    PROVE  /\ ~Ended /\ AtRevision(p) /\ Counted(p)
           /\ \/ mem[p].rev = 0 /\ Proposed = {}
              \/ IsCurrent(mem[p].rev)
              \/ mem[p].rev > 0 /\ IsCurrent(mem[p].rev - 1) /\ WasSettled(mem[p].rev - 1)
BY Before DEF AtRevision

\* The limit of revisions.
LEMMA LimitStep ==
    ASSUME GoalInv, NEW p \in Procs, pc[p] = "loop", AtLimit(mem[p].rev),
           PutLast(p, Event("limit", Max(Proposed), 0)), child' = child, faults' = faults
    PROVE  GoalInv'
<1>1. PICK r : r = mem[p].rev
    OBVIOUS
<1>2. PICK e : e = Event("limit", Max(Proposed), 0)
    OBVIOUS
<1>3. e.kind = "limit" /\ e.rev = Max(Proposed)
    BY <1>2 DEF Event
<1>4. /\ PutLast(p, e) /\ journal' = Written(p, e)
      /\ r \in 0..MaxRevisions /\ MaxRevisions \in Nat /\ MaxRevisions > 0 /\ r = MaxRevisions
      /\ Proposed \subseteq Revisions /\ Revisions \subseteq Nat /\ \A q \in Revisions : q < MaxRevisions
    <2>1. r \in 0..MaxRevisions /\ r >= MaxRevisions
        BY <1>1, Before DEF AtLimit
    <2>2. MaxRevisions \in Nat /\ MaxRevisions > 0
        BY GoalAssumption
    <2> QED BY <1>2, <2>1, <2>2, Before DEF PutLast
<1>5. ASSUME Accepted(p, e) PROVE JournalPart' /\ Keeps
    <2>1. lease = p /\ ~Ended /\ ~Has(e.kind, e.rev) /\ journal' = Append(journal, e)
        BY <1>4, <1>5, Puts
    <2>2. IsCurrent(r - 1) /\ WasSettled(r - 1)
        <3>1. ~IsCurrent(r)
            BY <1>4 DEF IsCurrent
        <3>2. r # 0
            BY <1>4
        <3>3. (r = 0 /\ Proposed = {}) \/ IsCurrent(r) \/ (r > 0 /\ IsCurrent(r - 1) /\ WasSettled(r - 1))
            BY <1>1, <2>1, AtLoop
        <3> QED BY <3>1, <3>2, <3>3
    <2>3. \A q \in Revisions : Has("reserved", q) => Has("charged", q)
        BY <2>2, AllCharged
    <2>4. e.rev \in Revisions
        <3>1. Proposed # {}
            BY <2>2 DEF IsCurrent
        <3>2. IsFiniteSet(Proposed)
            <4>1. IsFiniteSet(Revisions)
                BY GoalAssumption, FS_Interval DEF Revisions
            <4> QED BY <1>4, <4>1, FS_Subset
        <3>3. Max(Proposed) \in Proposed
            BY <1>4, <3>1, <3>2, MaxOfNat
        <3> QED BY <1>3, <1>4, <3>3
    <2>5. Typed(e) /\ e.kind \in Terminals
        BY <1>3, <2>4 DEF Typed, Kinds, Terminals, Failures
    <2> QED BY <1>3, <2>1, <2>3, <2>5, EndedJournal
<1> QED BY <1>4, <1>5, PutLastStep

\* A revision that the journal has.
LEMMA FoundStep ==
    ASSUME GoalInv, NEW p \in Procs, pc[p] = "loop", mem[p].rev \in Proposed,
           NEW m, m = [mem[p] EXCEPT !.status = Status(mem[p].rev)],
           Goes(p, AfterPlan(m, Proposal(mem[p].rev)), m),
           journal' = journal, child' = child, faults' = faults
    PROVE  GoalInv'
<1>1. PICK r : r = mem[p].rev
    OBVIOUS
<1>2. PICK l : l = AfterPlan(m, Proposal(r))
    OBVIOUS
<1>3. /\ mem[p] \in Memories /\ r \in Proposed /\ r \in Revisions /\ r \in Nat /\ ChildKept /\ TypeOK /\ IsLog
      /\ Status(r) \in Statuses /\ Proposal(r).expands \in BOOLEAN
    <2>1. /\ mem[p] \in Memories /\ r \in Proposed /\ r \in Revisions /\ r \in Nat /\ ChildKept /\ TypeOK /\ IsLog
        BY <1>1, Before DEF ChildKept, TypeOK
    <2>2. Status(r) \in Statuses /\ Proposal(r) \in Proposals
        BY <2>1, DataTypes
    <2>3. Proposal(r).expands \in BOOLEAN
        BY <2>2, GoalAssumption DEF Proposals
    <2> QED BY <2>1, <2>2, <2>3
<1>4. /\ m \in Memories /\ m.rev = r /\ m.noProgress = mem[p].noProgress /\ m.prior = mem[p].prior
      /\ m.status = Status(r)
    BY <1>1, <1>3, StatusKept
<1>5. l \in {"authority", "decide"} /\ l \in Labels /\ (l = "authority" => Proposal(r).expands)
    BY <1>2, <1>3, AfterPlanIs
<1>6. Goes(p, l, m)
    BY <1>1, <1>2
<1>7. pc'[p] = l /\ mem'[p] = m
    BY <1>6, Moved
<1>8. Knows(p)'
    <2>1. r \in Proposed' /\ Proposal(r)' = Proposal(r)
        BY <1>3, QuietFacts
    <2> QED BY <1>4, <1>5, <1>7, <2>1 DEF Knows
<1>9. ASSUME lease = p PROVE AtRevision(p)' /\ Counted(p)'
    <2>1. IsCurrent(r)
        <3>1. r - 1 < r
            BY <1>3
        <3>2. ~(IsCurrent(r - 1))
            BY <1>3, <3>1 DEF IsCurrent
        <3> QED BY <1>1, <1>3, <1>9, <3>2, AtLoop
    <2>2. ~Ended /\ Counted(p)
        BY <1>9, AtLoop
    <2>3. ~Ended' /\ IsCurrent(r)' /\ Status(r)' = Status(r) /\ SameTally
        BY <2>1, <2>2, QuietFacts
    <2>4. AtRevision(p)'
        BY <1>4, <1>5, <1>7, <2>3 DEF AtRevision
    <2>5. mem[p].noProgress <= r + 1 /\ (Status(r) # "settled" => mem[p].noProgress <= r)
        BY <1>1, <2>2 DEF Counted, Settled
    <2>6. Demoted = {} => mem[p].noProgress = NoProgress(Settled) /\ mem[p].prior = PriorCoverage(Settled)
        BY <2>2 DEF Counted
    <2>7. Counted(p)'
        BY <1>4, <1>5, <1>7, <2>3, <2>5, <2>6 DEF Counted, SameTally
    <2> QED BY <2>4, <2>7
<1> QED BY <1>3, <1>4, <1>5, <1>6, <1>8, <1>9, QuietStep

\* A new proposal.
LEMMA ProposeStep ==
    ASSUME GoalInv, NEW p \in Procs, pc[p] = "loop", ~AtLimit(mem[p].rev), mem[p].rev \notin Proposed,
           NEW x \in Proposals, Resolvable(mem[p].rev, x), NEW m, m = [mem[p] EXCEPT !.status = "proposed"],
           Put(p, Event("proposed", mem[p].rev, x), AfterPlan(mem[p], x), m),
           child' = child, faults' = faults
    PROVE  GoalInv'
<1>1. PICK r : r = mem[p].rev
    OBVIOUS
<1>2. PICK l : l = AfterPlan(mem[p], x)
    OBVIOUS
<1>3. PICK e : e = Event("proposed", r, x)
    OBVIOUS
<1>4. e.kind = "proposed" /\ e.rev = r /\ e.data = x
    BY <1>3 DEF Event
<1>5. Put(p, e, l, m) /\ journal' = Written(p, e)
    BY <1>1, <1>2, <1>3 DEF Put
<1>6. /\ mem[p] \in Memories /\ r \notin Proposed /\ r \in Revisions /\ r \in Nat /\ TypeOK /\ IsLog /\ LogInv
      /\ Revisions \subseteq Nat /\ Proposed \subseteq Revisions
    <2>1. r \in 0..MaxRevisions /\ ~(r >= MaxRevisions) /\ MaxRevisions \in Nat
        BY <1>1, Before DEF AtLimit
    <2>2. r \in Revisions
        BY <2>1 DEF Revisions
    <2> QED BY <1>1, <2>2, Before
<1>7. /\ m \in Memories /\ m.rev = r /\ m.noProgress = mem[p].noProgress /\ m.prior = mem[p].prior
      /\ m.status = "proposed"
    <2>1. "proposed" \in Statuses
        BY DEF Statuses
    <2> QED BY <1>1, <1>6, <2>1, StatusKept
<1>8. l \in {"authority", "decide"} /\ l \in Labels /\ (l = "authority" => x.expands)
    <2>1. x.expands \in BOOLEAN
        BY GoalAssumption DEF Proposals
    <2> QED BY <1>2, <2>1, AfterPlanIs
<1>9. ASSUME Accepted(p, e)
      PROVE  /\ JournalPart' /\ Keeps /\ ~Ended' /\ IsCurrent(r)' /\ Proposal(r)' = x /\ Status(r)' = "proposed"
             /\ SameTally /\ r \in Proposed' /\ r \notin Settled
    <2>1. lease = p /\ ~Ended /\ ~Has(e.kind, e.rev) /\ journal' = Append(journal, e)
        BY <1>5, <1>9, Puts
    <2>2. (\A q \in Proposed : q < r) /\ (\A q \in Revisions : q < r => q \in Proposed /\ WasSettled(q))
        <3>1. CASE r = 0 /\ Proposed = {}
            BY <1>6, <3>1
        <3>2. CASE r > 0 /\ IsCurrent(r - 1) /\ WasSettled(r - 1)
            <4>1. \A q \in Proposed : q < r
                BY <1>6, <3>2 DEF IsCurrent
            <4>2. ASSUME NEW q \in Revisions, q < r PROVE q \in Proposed /\ WasSettled(q)
                <5>1. CASE q = r - 1
                    BY <3>2, <5>1 DEF IsCurrent
                <5>2. CASE q # r - 1
                    <6>1. q < r - 1 /\ r - 1 \in Proposed
                        BY <1>6, <3>2, <4>2, <5>2 DEF IsCurrent
                    <6> QED BY <1>6, <6>1 DEF LogInv, OneByOne
                <5> QED BY <5>1, <5>2
            <4> QED BY <4>1, <4>2
        <3>3. ~IsCurrent(r)
            BY <1>6 DEF IsCurrent
        <3> QED BY <1>1, <2>1, <3>1, <3>2, <3>3, AtLoop
    <2>3. e.data.decision = "complete" => e.data.coverage >= Target
        BY <1>4 DEF Resolvable
    <2>4. Typed(e) /\ e.kind \notin Terminals /\ e.kind # "reserved"
        BY <1>4, <1>6 DEF Typed, Kinds, Terminals, Failures
    <2>5. /\ LogInv' /\ IsCurrent(r)' /\ Proposed' = Proposed \union {r}
          /\ Status(r)' = "proposed" /\ Settled' = Settled /\ Demoted' = Demoted /\ Proposal(r)' = e.data
        BY <1>4, <1>6, <2>1, <2>2, <2>3, ProposedStep
    <2>6. JournalPart' /\ Keeps
        BY <2>1, <2>4, <2>5, NotedJournal
    <2>7. ~Ended'
        BY <1>6, <2>1, <2>4, Grown DEF Extends
    <2>8. PICK S : S = Settled
        OBVIOUS
    <2>9. PriorCoverage(S)' = PriorCoverage(S) /\ NoProgress(S)' = NoProgress(S)
        <3>1. \A q \in S : Proposal(q)' = Proposal(q)
            BY <2>6, <2>8 DEF Keeps, Settled
        <3> QED BY <3>1, SameCounts
    <2>10. PriorCoverage(Settled)' = PriorCoverage(S)' /\ NoProgress(Settled)' = NoProgress(S)'
        BY <2>5, <2>8 DEF PriorCoverage, NoProgress, Raises
    <2>11. SameTally
        BY <2>5, <2>8, <2>9, <2>10 DEF SameTally
    <2>12. r \in Proposed' /\ r \notin Settled
        BY <1>6, <2>5 DEF Settled
    <2> QED BY <1>4, <2>5, <2>6, <2>7, <2>11, <2>12
<1>10. ~Duplicate(p, e)
    <2>1. Duplicate(p, e) => Has("proposed", r)
        BY <1>4, <1>5, Puts
    <2> QED BY <1>6, <2>1 DEF Proposed
<1>11. ASSUME Accepted(p, e)
       PROVE  l \in Labels /\ m \in Memories /\ Knows(p)' /\ AtRevision(p)' /\ Counted(p)'
    <2>1. Goes(p, l, m) /\ lease = p
        BY <1>5, <1>11, Puts DEF Put
    <2>2. pc'[p] = l /\ mem'[p] = m
        BY <2>1, Moved
    <2>3. Knows(p)'
        BY <1>7, <1>8, <1>9, <1>11, <2>2 DEF Knows
    <2>4. AtRevision(p)'
        BY <1>7, <1>8, <1>9, <1>11, <2>2 DEF AtRevision
    <2>5. Counted(p) /\ r \notin Settled
        BY <1>9, <1>11, <2>1, AtLoop
    <2>6. mem[p].noProgress <= r /\ mem[p].noProgress <= r + 1
        BY <1>1, <2>5 DEF Counted
    <2>7. Demoted = {} => mem[p].noProgress = NoProgress(Settled) /\ mem[p].prior = PriorCoverage(Settled)
        BY <2>5 DEF Counted
    <2>8. Counted(p)'
        BY <1>7, <1>8, <1>9, <1>11, <2>2, <2>6, <2>7 DEF Counted, SameTally
    <2> QED BY <1>7, <1>8, <2>3, <2>4, <2>8
<1> QED BY <1>5, <1>9, <1>10, <1>11, PutStep

LEMMA LoopStep ==
    ASSUME GoalInv, NEW p \in Procs, Loop(p)
    PROVE  GoalInv'
<1>1. PICK r : r = mem[p].rev
    OBVIOUS
<1>2. pc[p] = "loop" /\ child' = child /\ faults' = faults
    BY DEF Loop, At
<1>3. CASE AtLimit(r) /\ PutLast(p, Event("limit", Max(Proposed), 0))
    BY <1>1, <1>2, <1>3, LimitStep
<1>4. CASE /\ r \in Proposed
           /\ \E m \in {[mem[p] EXCEPT !.status = Status(r)]} : Goes(p, AfterPlan(m, Proposal(r)), m)
           /\ UNCHANGED journal
    <2>1. PICK m : m = [mem[p] EXCEPT !.status = Status(r)] /\ Goes(p, AfterPlan(m, Proposal(r)), m)
        BY <1>4
    <2> QED BY <1>1, <1>2, <1>4, <2>1, FoundStep
<1>5. CASE /\ ~AtLimit(r) /\ r \notin Proposed
           /\ \E x \in Proposals : /\ Resolvable(r, x)
                                   /\ Put(p, Event("proposed", r, x), AfterPlan(mem[p], x),
                                          [mem[p] EXCEPT !.status = "proposed"])
    <2>1. PICK x \in Proposals : /\ Resolvable(r, x)
                                 /\ Put(p, Event("proposed", r, x), AfterPlan(mem[p], x),
                                        [mem[p] EXCEPT !.status = "proposed"])
        BY <1>5
    <2> QED BY <1>1, <1>2, <1>5, <2>1, ProposeStep
<1>6. CASE Quit(p) /\ UNCHANGED journal
    <2>1. ChildKept /\ faults' \in 0..MaxFaults
        BY <1>2 DEF GoalInv, TypeOK, ChildKept
    <2>2. JournalPart' /\ Keeps
        BY <1>6, <2>1, QuietJournal
    <2> QED BY <1>6, <2>1, <2>2, QuitStep
<1> QED BY <1>1, <1>3, <1>4, <1>5, <1>6 DEF Loop

\* A run that starts recalls from the journal what it had counted.
LEMMA RecalledIs ==
    ASSUME GoalInv, ~Ended
    PROVE  /\ Recalled \in Memories
           /\ Recalled.noProgress = NoProgress(Settled) /\ Recalled.prior = PriorCoverage(Settled)
           /\ (Recalled.rev = 0 /\ Proposed = {}) \/ IsCurrent(Recalled.rev)
           /\ Recalled.noProgress <= Recalled.rev + 1
           /\ Recalled.rev \notin Settled => Recalled.noProgress <= Recalled.rev
<1>0. /\ TypeOK /\ IsLog /\ Proposed \subseteq Revisions /\ Revisions \subseteq Nat /\ IsFiniteSet(Proposed)
      /\ MaxRevisions \in Nat /\ \A q \in Revisions : q < MaxRevisions
    <2>1. TypeOK /\ IsLog /\ Proposed \subseteq Revisions /\ MaxRevisions \in Nat
        BY GoalAssumption DEF GoalInv, LogInv, Proposed
    <2>2. IsFiniteSet(Revisions) /\ Revisions \subseteq Nat /\ \A q \in Revisions : q < MaxRevisions
        BY <2>1, FS_Interval DEF Revisions
    <2> QED BY <2>1, <2>2, FS_Subset
<1>1. PICK t : t = IF Proposed = {} THEN 0 ELSE Max(Proposed)
    OBVIOUS
<1>2. PICK n : n = NoProgress(Settled)
    OBVIOUS
<1>3. PICK c : c = PriorCoverage(Settled)
    OBVIOUS
<1>4. Recalled = [Fresh EXCEPT !.rev = t, !.noProgress = n, !.prior = c]
    BY <1>1, <1>2, <1>3 DEF Recalled
<1>5. /\ Recalled = [rev |-> t, noProgress |-> n, prior |-> c, status |-> "proposed",
                     widened |-> FALSE, result |-> NoResult]
    BY <1>4 DEF Fresh
<1>6. /\ (t = 0 /\ Proposed = {}) \/ (IsCurrent(t) /\ Proposed # {})
      /\ t \in Nat /\ t < MaxRevisions
    <2>1. CASE Proposed = {}
        BY <1>1, <2>1, GoalAssumption
    <2>2. CASE Proposed # {}
        <3>1. Max(Proposed) \in Proposed /\ \A y \in Proposed : Max(Proposed) >= y
            BY <1>0, <2>2, MaxOfNat
        <3>2. t = Max(Proposed)
            BY <1>1, <2>2
        <3> QED BY <1>0, <2>2, <3>1, <3>2 DEF IsCurrent
    <2> QED BY <2>1, <2>2
<1>7. \A q \in Settled : q \in Nat /\ q <= t
    <2>1. \A q \in Settled : q \in Proposed
        BY DEF Settled
    <2> QED BY <1>0, <1>6, <2>1 DEF IsCurrent
<1>8. n \in Nat /\ n <= t + 1
    <2>1. t + 1 \in Nat /\ Settled \subseteq 0..((t + 1) - 1)
        BY <1>6, <1>7
    <2> QED BY <1>2, <2>1, NoProgressBound
<1>9. t \notin Settled => n <= t
    <2> SUFFICES ASSUME t \notin Settled PROVE n <= t
        OBVIOUS
    <2>1. ASSUME NEW q \in Settled PROVE q \in 0..(t - 1)
        <3>1. q \in Nat /\ q <= t /\ q # t
            BY <1>7
        <3> QED BY <1>6, <3>1
    <2>2. Settled \subseteq 0..(t - 1)
        BY <2>1
    <2> QED BY <1>2, <1>6, <2>2, NoProgressBound
<1>10. c \in Coverages \union {0}
    <2>1. Settled \subseteq Proposed
        BY DEF Settled
    <2> QED BY <1>0, <1>3, <2>1, CoverageIs
<1>11. Recalled \in Memories
    <2>1. t \in 0..MaxRevisions /\ n \in 0..MaxRevisions
        BY <1>0, <1>6, <1>8
    <2> QED BY <1>5, <1>10, <2>1 DEF Memories, Statuses
<1>12. Recalled.rev = t /\ Recalled.noProgress = n /\ Recalled.prior = c
    BY <1>5
<1> QED BY <1>2, <1>3, <1>6, <1>8, <1>9, <1>11, <1>12

LEMMA StartStep ==
    ASSUME GoalInv, NEW p \in Procs, Start(p)
    PROVE  GoalInv' \/ UNCHANGED vars
<1>1. CASE Ended
    BY <1>1 DEF Start, vars
<1>2. CASE ~Ended
    <2>0. /\ TypeOK /\ IsLog /\ LogInv /\ OneOfEach /\ ChildKept /\ "loop" \in Labels /\ faults' \in 0..MaxFaults
          /\ pc \in [Procs -> Labels] /\ mem \in [Procs -> Memories]
          /\ pc[p] = "idle" /\ lease = NoProc /\ lease' = p
        BY <1>2 DEF GoalInv, LogInv, TypeOK, ChildKept, Labels, Start, At
    <2>1. PICK m : m = Recalled
        OBVIOUS
    <2>2. /\ pc' \in [Procs -> Labels] /\ mem' \in [Procs -> Memories] /\ pc'[p] = "loop" /\ mem'[p] = m
          /\ \A q \in Procs : q # p => pc'[q] = pc[q] /\ mem'[q] = mem[q]
        <3>1. pc' = [pc EXCEPT ![p] = "loop"] /\ mem' = [mem EXCEPT ![p] = m]
            BY <1>2, <2>1 DEF Start
        <3>2. m \in Memories
            BY <1>2, <2>1, RecalledIs
        <3> QED BY <2>0, <3>1, <3>2
    <2>3. /\ JournalPart' /\ Keeps /\ SameTally /\ ~Ended' /\ Proposed' = Proposed
          /\ \A q : IsCurrent(q)' <=> IsCurrent(q)
        <3>1. CASE journal # <<>>
            <4>1. journal' = journal
                BY <1>2, <3>1 DEF Start
            <4> QED BY <1>2, <2>0, <4>1, QuietJournal, QuietFacts
        <3>2. CASE journal = <<>>
            <4>1. PICK e : e = Event("admitted", 0, 0)
                OBVIOUS
            <4>2. e.kind = "admitted" /\ e.rev = 0
                BY <4>1 DEF Event
            <4>3. journal' = Append(journal, e)
                BY <1>2, <3>2, <4>1 DEF Start
            <4>4. DOMAIN journal = {}
                BY <3>2
            <4>5. ~Has(e.kind, e.rev)
                BY <4>4 DEF Has, Places
            <4>6. Extends(e) /\ IsLog' /\ OneOfEach'
                BY <2>0, <4>3, <4>5, Grown, AppendedLog, OneMore
            <4>7. SameView
                BY <4>2, <4>6, QuietView DEF StatusKinds
            <4>8. LogInv'
                <5>1. \A k \in CourseKinds : \A r \in Revisions : Has(k, r)' <=> Has(k, r)
                    BY <4>2, <4>6 DEF Extends, CourseKinds
                <5>2. \A r \in Revisions : WasSettled(r)' <=> WasSettled(r)
                    BY <4>2, <4>6 DEF Extends
                <5>3. \A r \in Revisions : child[r] # NoResult => child'[r] # NoResult
                    BY <2>0 DEF ChildKept
                <5> QED BY <2>0, <4>6, <4>7, <5>1, <5>2, <5>3, SameLog
            <4>9. Typed(e) /\ e.kind \notin Terminals /\ e.kind # "reserved"
                <5>1. 0 \in Revisions
                    BY GoalAssumption DEF Revisions
                <5> QED BY <4>2, <5>1 DEF Typed, Kinds, Terminals, Failures
            <4>10. JournalPart' /\ Keeps
                BY <1>2, <4>3, <4>5, <4>8, <4>9, NotedJournal
            <4>11. ~Ended' /\ Proposed' = Proposed
                BY <1>2, <4>6, <4>7, <4>9 DEF Extends, SameView
            <4>12. SameTally /\ \A q : IsCurrent(q)' <=> IsCurrent(q)
                BY <2>0, <4>7, SameDerived DEF SameTally
            <4> QED BY <4>10, <4>11, <4>12
        <3> QED BY <3>1, <3>2
    <2>4. ASSUME NEW q \in Procs PROVE Knows(q)'
        <3>1. CASE q = p
            BY <2>2, <3>1 DEF Knows
        <3>2. CASE q # p
            <4>1. Knows(q)
                BY DEF GoalInv
            <4> QED BY <2>0, <2>2, <2>3, <3>2, <4>1, KnowsKept
        <3> QED BY <3>1, <3>2
    <2>5. /\ m.noProgress = NoProgress(Settled) /\ m.prior = PriorCoverage(Settled)
          /\ (m.rev = 0 /\ Proposed = {}) \/ IsCurrent(m.rev)
          /\ m.noProgress <= m.rev + 1
          /\ m.rev \notin Settled => m.noProgress <= m.rev
        BY <1>2, <2>1, RecalledIs
    <2>6. AtRevision(p)'
        BY <2>2, <2>3, <2>5 DEF AtRevision
    <2>7. Counted(p)'
        BY <2>2, <2>3, <2>5 DEF Counted, SameTally
    <2>8. HolderInv'
        BY <2>0, <2>6, <2>7 DEF HolderInv
    <2>9. child' \in [Revisions -> Results \union {NoResult}] /\ lease' \in Procs \union {NoProc}
        BY <2>0 DEF ChildKept
    <2>10. \A q \in Procs : Knows(q)'
        BY <2>4
    <2> QED BY <2>0, <2>2, <2>3, <2>8, <2>9, <2>10, GoalPartsNext
<1> QED BY <1>1, <1>2

LEMMA CrashStep ==
    ASSUME GoalInv, NEW p \in Procs, Crash(p)
    PROVE  GoalInv'
<1>1. /\ journal' = journal /\ ChildKept /\ pc' = [pc EXCEPT ![p] = "idle"] /\ mem' = [mem EXCEPT ![p] = Fresh]
      /\ lease' = lease /\ faults' \in 0..MaxFaults
    BY GoalAssumption DEF Crash, GoalInv, TypeOK, ChildKept
<1>2. JournalPart' /\ Keeps
    BY <1>1, QuietJournal
<1> QED BY <1>1, <1>2, StopStep

\* The lease runs out, or nothing happens.
LEMMA ExpiredStep ==
    ASSUME GoalInv, journal' = journal, child' = child, pc' = pc, mem' = mem,
           lease' = lease \/ lease' = NoProc, faults' \in 0..MaxFaults
    PROVE  GoalInv'
<1>1. /\ TypeOK /\ IsLog /\ HolderInv /\ ChildKept /\ lease' \in Procs \union {NoProc}
      /\ pc' \in [Procs -> Labels] /\ mem' \in [Procs -> Memories]
      /\ child' \in [Revisions -> Results \union {NoResult}]
    BY DEF GoalInv, LogInv, TypeOK, ChildKept
<1>2. JournalPart' /\ Keeps
    BY <1>1, QuietJournal
<1>3. ASSUME NEW q \in Procs PROVE Knows(q)'
    <2>1. Knows(q)
        BY DEF GoalInv
    <2> QED BY <1>1, <1>2, <2>1, KnowsKept
<1>4. HolderInv'
    <2> SUFFICES ASSUME NEW q \in Procs, lease' = q, pc'[q] # "idle" PROVE AtRevision(q)' /\ Counted(q)'
        BY DEF HolderInv
    <2>1. lease = q
        BY GoalAssumption
    <2>2. AtRevision(q) /\ Counted(q)
        BY <1>1, <2>1 DEF HolderInv
    <2> QED BY <1>1, <2>2, HolderKept
<1>5. \A q \in Procs : Knows(q)'
    BY <1>3
<1> QED BY <1>1, <1>2, <1>4, <1>5, GoalPartsNext

-----------------------------------------------------------------------------
(* The theorems.                                                           *)

\* The inductive invariant holds at the start.
LEMMA GoalStarts == Init => GoalInv
<1> SUFFICES ASSUME Init PROVE GoalInv
    OBVIOUS
<1>1. journal = <<>> /\ Len(journal) = 0 /\ DOMAIN journal = {}
    BY DEF Init
<1>2. /\ \A K, r : Places(K, r) = {}
      /\ \A k, r : ~Has(k, r)
      /\ \A r : ~WasSettled(r)
      /\ Proposed = {} /\ ~Ended
    BY <1>1 DEF Places, Has, WasSettled, Proposed, Ended
<1>3. JournalTyped
    BY <1>1 DEF JournalTyped
<1>4. LogInv
    <2>1. IsLog
        <3>1. journal \in Seq({}) /\ Len(journal) \in Nat
            BY <1>1
        <3> QED BY <3>1, LenProperties DEF IsLog
    <2>2. OneOfEach /\ OneByOne
        BY <1>1, <1>2 DEF OneOfEach, OneByOne
    <2>3. \A r \in Revisions : History(r) /\ ReuseOK(r)
        BY <1>2 DEF History, ReuseOK
    <2> QED BY <2>1, <2>2, <2>3 DEF LogInv
<1>5. EnvelopeCloses
    <2>1. \A r : Charged(r) = 0
        BY <1>2 DEF Charged
    <2>2. Costs \in [Revisions -> {0}]
        BY <2>1 DEF Costs
    <2>3. IsFiniteSet(Revisions)
        BY GoalAssumption, FS_Interval DEF Revisions
    <2>4. Spent = 0
        <3>1. SumFunction(Costs) = 0
            BY <2>2, <2>3, SumZero
        <3> QED BY <3>1 DEF Spent, Costs
    <2> QED BY <1>2, <2>4, GoalAssumption DEF EnvelopeCloses
<1>6. EndIsDecided
    BY <1>2 DEF EndIsDecided
<1>7. /\ child \in [Revisions -> Results \union {NoResult}] /\ lease \in Procs \union {NoProc}
      /\ pc \in [Procs -> Labels] /\ mem \in [Procs -> Memories] /\ faults \in 0..MaxFaults
    <2>1. 0 \in 0..MaxFaults
        BY GoalAssumption
    <2> QED BY <2>1, FreshType DEF Init, Labels
<1>8. (\A p \in Procs : Knows(p)) /\ HolderInv
    <2>1. \A p \in Procs : pc[p] = "idle"
        BY DEF Init
    <2> QED BY <2>1 DEF Knows, HolderInv
<1> QED BY <1>3, <1>4, <1>5, <1>6, <1>7, <1>8, GoalParts DEF JournalPart

\* Every step keeps it.
LEMMA GoalSteps == GoalInv /\ [Next]_vars => GoalInv'
<1> SUFFICES ASSUME GoalInv, [Next]_vars PROVE GoalInv'
    OBVIOUS
<1>0. faults \in 0..MaxFaults /\ MaxFaults \in Nat
    BY GoalAssumption DEF GoalInv, TypeOK
<1>1. CASE UNCHANGED vars
    BY <1>0, <1>1, ExpiredStep DEF vars
<1>2. ASSUME NEW p \in Procs, Start(p) PROVE GoalInv'
    BY <1>1, <1>2, StartStep
<1>3. ASSUME NEW p \in Procs, Step(p) PROVE GoalInv'
    BY <1>3, LoopStep, AuthorityStep, ReuseStep, SkipSettledStep, ReserveStep, StartRevisionStep,
       ReturnsStep, AwaitsStep, ThrowsStep, ChargeStep, FailStep, SettleBudgetStep, RecordStep,
       ConcludeStep DEF Step
<1>4. ASSUME NEW p \in Procs, Crash(p) PROVE GoalInv'
    BY <1>4, CrashStep
<1>5. CASE ExpireDead
    BY <1>0, <1>5, ExpiredStep DEF ExpireDead
<1>6. CASE ExpireLive
    <2>1. faults' \in 0..MaxFaults
        BY <1>0, <1>6 DEF ExpireLive
    <2> QED BY <1>6, <2>1, ExpiredStep DEF ExpireLive
<1> QED BY <1>1, <1>2, <1>3, <1>4, <1>5, <1>6 DEF Next

\* Whatever the processes do, crash or lose, the inductive invariant holds.
THEOREM GoalHolds == Spec => []GoalInv
BY GoalStarts, GoalSteps, PTL DEF Spec

\* The state and the journal have their types: no process works beyond the
\* last plan revision that the authority allows, and what is charged for a
\* revision was reserved and stays within its reservation.
THEOREM GoalTyping == Spec => []TypeOK
<1>1. GoalInv => TypeOK
    BY DEF GoalInv
<1> QED BY <1>1, GoalHolds, PTL

\* Whatever is resumed, by whom and how often, charges and open reservations
\* together fit the parent's envelope, and a goal that has ended has charged
\* every reservation.
THEOREM EnvelopeHolds == Spec => []EnvelopeCloses
<1>1. GoalInv => EnvelopeCloses
    BY DEF GoalInv
<1> QED BY <1>1, GoalHolds, PTL

\* The decision that ends a goal is the one its durable proposals, verdicts and
\* coverages call for, however many processes and resumes it took.
THEOREM EndFollowsJournal == Spec => []EndIsDecided
<1>1. GoalInv => EndIsDecided
    BY DEF GoalInv
<1> QED BY <1>1, GoalHolds, PTL

\* The holder of the lease executes a settled revision again only when it had
\* to be approved again.
THEOREM SettledStaySettled == Spec => []SettledNotRerun
<1>1. GoalInv => SettledNotRerun
    <2> SUFFICES ASSUME GoalInv, NEW p \in Procs, lease = p, pc[p] = "execute", WasSettled(mem[p].rev)
                 PROVE  Proposal(mem[p].rev).expands
        BY DEF SettledNotRerun, At
    <2> QED BY AtWork DEF Working
<1> QED BY <1>1, GoalHolds, PTL
=============================================================================
