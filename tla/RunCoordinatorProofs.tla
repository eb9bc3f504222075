------------------------ MODULE RunCoordinatorProofs ------------------------
(***************************************************************************)
(* Proofs about RunCoordinator, for every plan, every budget and every     *)
(* number of crashes.                                                      *)
(***************************************************************************)
EXTENDS RunCoordinator, FiniteSums, SequenceTheorems

USE NumbersAssumption

-----------------------------------------------------------------------------
(* The plan.                                                               *)

\* A plan has finitely many nodes.
LEMMA NodesFinite == IsFiniteSet(Nodes)
<1>1. Plan \in Seq(Nodes) /\ DOMAIN Plan = 1..Len(Plan) /\ Len(Plan) \in Nat
    BY PlanAssumption
<1>2. IsFiniteSet(DOMAIN Plan)
    BY <1>1, FS_Interval
<1>3. Plan \in Surjection(DOMAIN Plan, Nodes)
    BY <1>1 DEF Surjection, Nodes
<1> QED BY <1>2, <1>3, FS_Surjection

\* The first node of a plan is one of its nodes.
LEMMA HeadIn == Head(Plan) \in Nodes
BY PlanAssumption DEF Nodes

\* A set of nodes has one first node.
LEMMA OneLeads ==
    ASSUME NEW ns, ns \subseteq Nodes, NEW n, NEW m, Leads(n, ns), Leads(m, ns)
    PROVE  n = m
<1>1. n \in Nodes /\ m \in Nodes /\ Place(n) <= Place(m) /\ Place(m) <= Place(n)
    BY DEF Leads
<1>2. \A x \in Nodes : Place(x) \in DOMAIN Plan /\ Plan[Place(x)] = x
    BY DEF Place, Nodes
<1>3. DOMAIN Plan \subseteq Nat
    BY PlanAssumption DEF Nodes
<1>4. Place(n) = Place(m)
    BY <1>1, <1>2, <1>3
<1> QED BY <1>1, <1>2, <1>4

-----------------------------------------------------------------------------
(* Sequences.                                                              *)

\* One element of a sequence changes.
LEMMA SeqUpdate ==
    ASSUME NEW S, NEW s \in Seq(S), NEW i \in DOMAIN s, NEW x \in S
    PROVE  /\ [s EXCEPT ![i] = x] \in Seq(S) /\ DOMAIN [s EXCEPT ![i] = x] = DOMAIN s
           /\ Len([s EXCEPT ![i] = x]) = Len(s) /\ [s EXCEPT ![i] = x][i] = x
           /\ \A j \in DOMAIN s : j # i => [s EXCEPT ![i] = x][j] = s[j]
OBVIOUS

\* The domain of a sequence, and of one that is longer by one element.
LEMMA SeqFacts ==
    ASSUME NEW S, NEW s \in Seq(S)
    PROVE  /\ Len(s) \in Nat /\ DOMAIN s = 1..Len(s) /\ IsFiniteSet(DOMAIN s)
           /\ (s # <<>> <=> Len(s) \in DOMAIN s) /\ \A i \in DOMAIN s : s[i] \in S
<1>1. Len(s) \in Nat /\ DOMAIN s = 1..Len(s)
    OBVIOUS
<1> QED BY <1>1, FS_Interval

\* An element is appended to a sequence.
LEMMA AppendFacts ==
    ASSUME NEW S, NEW s \in Seq(S), NEW x \in S
    PROVE  /\ Append(s, x) \in Seq(S) /\ Len(Append(s, x)) = Len(s) + 1
           /\ DOMAIN Append(s, x) = DOMAIN s \union {Len(s) + 1}
           /\ Len(s) + 1 \notin DOMAIN s
           /\ Append(s, x)[Len(s) + 1] = x
           /\ \A i \in DOMAIN s : Append(s, x)[i] = s[i]
OBVIOUS

-----------------------------------------------------------------------------
(* What a node's reservations r have taken, and what of it pays for its    *)
(* attempts a.                                                             *)

\* SumChange, as a fact about two sums.
LEMMA SumOneChanges ==
    \A F, G : \A x \in DOMAIN F :
        /\ IsFiniteSet(DOMAIN F) /\ DOMAIN G = DOMAIN F
        /\ \A y \in DOMAIN F : F[y] \in Nat /\ G[y] \in Nat
        /\ \A y \in DOMAIN F : y # x => G[y] = F[y]
        /\ F = [y \in DOMAIN F |-> F[y]] /\ G = [y \in DOMAIN F |-> G[y]]
        => SumFunction(G) + F[x] = SumFunction(F) + G[x]
<1>1. ASSUME NEW F, NEW G, NEW S, NEW x \in S, IsFiniteSet(S),
             \A y \in S : F[y] \in Nat /\ G[y] \in Nat,
             F = [y \in S |-> F[y]], G = [y \in S |-> G[y]],
             \A y \in S : y # x => G[y] = F[y]
      PROVE  SumFunction(G) + F[x] = SumFunction(F) + G[x]
    <2>1. F \in [S -> Nat] /\ G \in [S -> Nat]
        BY <1>1
    <2> QED BY <1>1, <2>1, SumChange
<1> QED BY <1>1

TouchedIn(a, k) == \E i \in DOMAIN a : a[i].child /\ a[i].resv = k
Share(a, r, k)  == [j \in DOMAIN r |-> IF j <= k /\ TouchedIn(a, j) THEN Spent(r[j]) ELSE 0]
PaidIn(a, r, k) == SumFunction(Share(a, r, k))
Takes(r)        == [k \in DOMAIN r |-> Spent(r[k])]
FundedIn(r)     == SumFunction(Takes(r))
CommittedIn(R)  == SumFunction([n \in Nodes |-> FundedIn(R[n])])

\* What was paid and what was funded depend only on the rows of the node.
LEMMA PaidIs == \A n : /\ \A k : Touched(n, k) = TouchedIn(atts[n], k)
                       /\ \A k : Paid(n, k) = PaidIn(atts[n], resv[n], k)
                       /\ Funded(n) = FundedIn(resv[n])
BY DEF Touched, TouchedIn, Paid, PaidIn, Share, Funded, FundedIn, Takes

\* The same of the next state.
LEMMA PaidIsNext == \A n : /\ \A k : Touched(n, k)' = TouchedIn(atts'[n], k)
                           /\ \A k : Paid(n, k)' = PaidIn(atts'[n], resv'[n], k)
                           /\ Funded(n)' = FundedIn(resv'[n])
BY DEF Touched, TouchedIn, Paid, PaidIn, Share, Funded, FundedIn, Takes

\* What the run has committed depends only on the reservations.
LEMMA CommittedIs == Committed = CommittedIn(resv)
BY PaidIs DEF Committed, CommittedIn

\* What a reservation takes of the budget, by its state.
LEMMA SpentType ==
    ASSUME NEW x \in Reservations
    PROVE  /\ Spent(x) \in Nat
           /\ x.state = "reserved" => Spent(x) = x.worst
           /\ x.state = "consumed" => Spent(x) = x.used
           /\ x.state = "refunded" => Spent(x) = 0
BY DEF Spent, Reservations

\* The terms of the two sums are natural numbers.
LEMMA SharesType ==
    ASSUME NEW a, NEW r \in Seq(Reservations), NEW k
    PROVE  Share(a, r, k) \in [DOMAIN r -> Nat] /\ Takes(r) \in [DOMAIN r -> Nat]
<1>1. \A j \in DOMAIN r : Spent(r[j]) \in Nat
    BY SeqFacts, SpentType
<1> QED BY <1>1 DEF Share, Takes

\* The two sums are natural numbers.
LEMMA PaidType ==
    ASSUME NEW a, NEW r \in Seq(Reservations), NEW k
    PROVE  PaidIn(a, r, k) \in Nat /\ FundedIn(r) \in Nat
BY SharesType, SeqFacts, SumType DEF PaidIn, FundedIn

\* What was paid is more when more was touched and more was spent.
LEMMA PaidGrows ==
    ASSUME NEW a, NEW r \in Seq(Reservations), NEW k \in Int,
           NEW b, NEW s \in Seq(Reservations), NEW l \in Int, k <= l, DOMAIN s = DOMAIN r,
           \A j \in DOMAIN r : j <= k /\ TouchedIn(a, j) =>
              TouchedIn(b, j) /\ Spent(r[j]) <= Spent(s[j])
    PROVE  PaidIn(a, r, k) <= PaidIn(b, s, l)
<1>1. IsFiniteSet(DOMAIN r) /\ DOMAIN r \subseteq Int
    BY SeqFacts
<1>2. Share(a, r, k) \in [DOMAIN r -> Nat] /\ Share(b, s, l) \in [DOMAIN r -> Nat]
    BY SharesType
<1>3. \A j \in DOMAIN r : Spent(s[j]) \in Nat
    BY SeqFacts, SpentType
<1>4. \A j \in DOMAIN r : Share(a, r, k)[j] <= Share(b, s, l)[j]
    BY <1>1, <1>3 DEF Share
<1> QED BY <1>1, <1>2, <1>4, SumMonotone DEF PaidIn

\* It is at most what the reservations have taken.
LEMMA PaidWithin ==
    ASSUME NEW a, NEW r \in Seq(Reservations), NEW k
    PROVE  PaidIn(a, r, k) <= FundedIn(r)
<1>1. IsFiniteSet(DOMAIN r)
    BY SeqFacts
<1>2. Share(a, r, k) \in [DOMAIN r -> Nat] /\ Takes(r) \in [DOMAIN r -> Nat]
    BY SharesType
<1>3. \A j \in DOMAIN r : Spent(r[j]) \in Nat
    BY SeqFacts, SpentType
<1>4. \A j \in DOMAIN r : Share(a, r, k)[j] <= Takes(r)[j]
    BY <1>3 DEF Share, Takes
<1> QED BY <1>1, <1>2, <1>4, SumMonotone DEF PaidIn, FundedIn

\* A reservation that no child has used pays for nothing.
LEMMA PaidAppend ==
    ASSUME NEW a, NEW r \in Seq(Reservations), NEW k \in Int, NEW x \in Reservations,
           ~TouchedIn(a, Len(r) + 1)
    PROVE  PaidIn(a, Append(r, x), k) = PaidIn(a, r, k)
<1> DEFINE s == Append(r, x)
<1>1. /\ s \in Seq(Reservations) /\ IsFiniteSet(DOMAIN r)
      /\ DOMAIN s = DOMAIN r \union {Len(r) + 1} /\ Len(r) + 1 \notin DOMAIN r
      /\ \A i \in DOMAIN r : s[i] = r[i]
    BY AppendFacts, SeqFacts
<1> HIDE DEF s
<1>2. Share(a, r, k) \in [DOMAIN r -> Nat] /\ Share(a, s, k) \in [DOMAIN s -> Nat]
    BY <1>1, SharesType
<1> DEFINE F == Share(a, r, k)
           G == Share(a, s, k)
<1>3. /\ DOMAIN F = DOMAIN G \ {Len(r) + 1} /\ Len(r) + 1 \in DOMAIN G
      /\ IsFiniteSet(DOMAIN F)
    BY <1>1 DEF Share
<1>4. G[Len(r) + 1] = 0 /\ \A y \in DOMAIN F : G[y] = F[y]
    BY <1>1 DEF Share
<1>5. (\A y \in DOMAIN G : G[y] \in Nat) /\ SumFunction(F) \in Nat
    <2>1. F \in [DOMAIN r -> Nat] /\ G \in [DOMAIN s -> Nat]
        BY <1>2
    <2> HIDE DEF F, G
    <2> QED BY <2>1, <1>1, SumType
<1> HIDE DEF F, G
<1>6. SumFunction(G) = SumFunction(F) + G[Len(r) + 1]
    BY <1>3, <1>4, <1>5, SumAdd
<1> QED BY <1>4, <1>5, <1>6 DEF PaidIn, F, G, s

\* A child uses one reservation more.
LEMMA PaidMore ==
    ASSUME NEW a, NEW b, NEW r \in Seq(Reservations), NEW k \in Int, NEW m \in DOMAIN r,
           m <= k, ~TouchedIn(a, m), \A j : TouchedIn(b, j) <=> TouchedIn(a, j) \/ j = m
    PROVE  PaidIn(b, r, k) = PaidIn(a, r, k) + Spent(r[m])
<1>1. IsFiniteSet(DOMAIN r) /\ \A j \in DOMAIN r : Spent(r[j]) \in Nat
    BY SeqFacts, SpentType
<1>2. Share(a, r, k) \in [DOMAIN r -> Nat] /\ Share(b, r, k) \in [DOMAIN r -> Nat]
    BY SharesType
<1>3. /\ Share(a, r, k)[m] = 0 /\ Share(b, r, k)[m] = Spent(r[m])
      /\ \A j \in DOMAIN r : j # m => Share(b, r, k)[j] = Share(a, r, k)[j]
    BY DEF Share
<1> DEFINE F == Share(a, r, k)
           G == Share(b, r, k)
<1>4. /\ DOMAIN F = DOMAIN r /\ DOMAIN G = DOMAIN r
      /\ F = [y \in DOMAIN r |-> F[y]] /\ G = [y \in DOMAIN r |-> G[y]]
      /\ \A y \in DOMAIN r : F[y] \in Nat /\ G[y] \in Nat
    BY <1>2
<1>5. F[m] = 0 /\ G[m] = Spent(r[m]) /\ \A j \in DOMAIN r : j # m => G[j] = F[j]
    BY <1>3
<1> HIDE DEF F, G
<1>6. SumFunction(G) + F[m] = SumFunction(F) + G[m]
    BY <1>1, <1>4, <1>5, SumOneChanges, ZenonT(40)
<1>7. SumFunction(F) \in Nat /\ SumFunction(G) \in Nat
    BY PaidType DEF PaidIn, F, G
<1> QED BY <1>1, <1>5, <1>6, <1>7 DEF PaidIn, F, G

\* What was paid includes every reservation that a child has used.
LEMMA PaidHas ==
    ASSUME NEW a, NEW r \in Seq(Reservations), NEW m \in DOMAIN r, TouchedIn(a, m)
    PROVE  Spent(r[m]) <= PaidIn(a, r, Len(r))
<1> DEFINE k == Len(r)
<1>1. IsFiniteSet(DOMAIN r) /\ (\A j \in DOMAIN r : Spent(r[j]) \in Nat) /\ m <= k /\ k \in Int
    BY SeqFacts, SpentType
<1> DEFINE F == [j \in DOMAIN r |-> IF j = m THEN 0 ELSE Share(a, r, k)[j]]
<1>2. Share(a, r, k) \in [DOMAIN r -> Nat]
    BY SharesType
<1>3. F \in [DOMAIN r -> Nat] /\ F[m] = 0 /\ \A j \in DOMAIN r : j # m => Share(a, r, k)[j] = F[j]
    BY <1>2
<1>4. Share(a, r, k)[m] = Spent(r[m])
    BY <1>1 DEF Share
<1> HIDE DEF F
<1>5. SumFunction(Share(a, r, k)) + F[m] = SumFunction(F) + Share(a, r, k)[m]
    BY <1>1, <1>2, <1>3, SumOneChanges
<1>6. SumFunction(F) \in Nat /\ SumFunction(Share(a, r, k)) \in Nat
    BY <1>1, <1>2, <1>3, SumType
<1> QED BY <1>1, <1>3, <1>4, <1>5, <1>6 DEF PaidIn

\* A node's reservations take no more after one was settled for no more.
LEMMA FundedSettles ==
    ASSUME NEW r \in Seq(Reservations), NEW s \in Seq(Reservations), DOMAIN s = DOMAIN r,
           \A j \in DOMAIN r : Spent(s[j]) <= Spent(r[j])
    PROVE  FundedIn(s) <= FundedIn(r)
<1>1. IsFiniteSet(DOMAIN r)
    BY SeqFacts
<1>2. Takes(r) \in [DOMAIN r -> Nat] /\ Takes(s) \in [DOMAIN r -> Nat]
    BY SharesType
<1>3. \A j \in DOMAIN r : Takes(s)[j] <= Takes(r)[j]
    BY DEF Takes
<1> QED BY <1>1, <1>2, <1>3, SumMonotone DEF FundedIn

\* A new reservation is added to what they have taken.
LEMMA FundedAppend ==
    ASSUME NEW r \in Seq(Reservations), NEW x \in Reservations
    PROVE  FundedIn(Append(r, x)) = FundedIn(r) + Spent(x)
<1> DEFINE s == Append(r, x)
<1>1. /\ s \in Seq(Reservations) /\ IsFiniteSet(DOMAIN r)
      /\ DOMAIN s = DOMAIN r \union {Len(r) + 1} /\ Len(r) + 1 \notin DOMAIN r
      /\ s[Len(r) + 1] = x /\ \A i \in DOMAIN r : s[i] = r[i]
    BY AppendFacts, SeqFacts
<1> HIDE DEF s
<1>2. Takes(s) \in [DOMAIN s -> Nat] /\ DOMAIN Takes(r) = DOMAIN r /\ DOMAIN Takes(s) = DOMAIN s
    BY <1>1, SharesType DEF Takes
<1>3. Takes(s)[Len(r) + 1] = Spent(x) /\ \A y \in DOMAIN r : Takes(s)[y] = Takes(r)[y]
    BY <1>1 DEF Takes
<1>4. \A y \in DOMAIN s : Takes(s)[y] \in Nat
    BY <1>2
<1>5. DOMAIN r = DOMAIN s \ {Len(r) + 1} /\ Len(r) + 1 \in DOMAIN s
    BY <1>1
<1> DEFINE F == Takes(r)
           G == Takes(s)
<1>6. /\ IsFiniteSet(DOMAIN F) /\ DOMAIN F = DOMAIN G \ {Len(r) + 1} /\ Len(r) + 1 \in DOMAIN G
      /\ (\A y \in DOMAIN G : G[y] \in Nat) /\ \A y \in DOMAIN F : G[y] = F[y]
    BY <1>1, <1>2, <1>3, <1>4, <1>5
<1> HIDE DEF F, G
<1>7. SumFunction(G) = SumFunction(F) + G[Len(r) + 1]
    BY <1>6, SumAdd
<1> QED BY <1>3, <1>7 DEF FundedIn, F, G, s

\* The reservations of one node change.
LEMMA CommittedChange ==
    ASSUME NEW R \in [Nodes -> Seq(Reservations)], NEW S \in [Nodes -> Seq(Reservations)],
           NEW n \in Nodes, \A m \in Nodes : m # n => S[m] = R[m]
    PROVE  /\ CommittedIn(S) + FundedIn(R[n]) = CommittedIn(R) + FundedIn(S[n])
           /\ CommittedIn(R) \in Nat /\ CommittedIn(S) \in Nat
           /\ FundedIn(R[n]) \in Nat /\ FundedIn(S[n]) \in Nat
<1> DEFINE F == [m \in Nodes |-> FundedIn(R[m])]
           G == [m \in Nodes |-> FundedIn(S[m])]
<1>1. \A m \in Nodes : R[m] \in Seq(Reservations) /\ S[m] \in Seq(Reservations)
    OBVIOUS
<1>2. \A m \in Nodes : FundedIn(R[m]) \in Nat /\ FundedIn(S[m]) \in Nat
    BY <1>1, PaidType
<1>3. F \in [Nodes -> Nat] /\ G \in [Nodes -> Nat] /\ \A m \in Nodes : m # n => G[m] = F[m]
    BY <1>2
<1>4. F[n] = FundedIn(R[n]) /\ G[n] = FundedIn(S[n])
    OBVIOUS
<1>7. /\ DOMAIN F = Nodes /\ DOMAIN G = Nodes
      /\ F = [m \in Nodes |-> F[m]] /\ G = [m \in Nodes |-> G[m]]
      /\ \A m \in Nodes : F[m] \in Nat /\ G[m] \in Nat
    BY <1>3
<1> HIDE DEF F, G
<1>5. SumFunction(G) + F[n] = SumFunction(F) + G[n]
    BY <1>3, <1>7, NodesFinite, SumOneChanges, ZenonT(40)
<1>6. SumFunction(G) \in Nat /\ SumFunction(F) \in Nat
    BY <1>3, NodesFinite, SumType
<1> QED BY <1>2, <1>4, <1>5, <1>6 DEF CommittedIn, F, G

HIDE NumbersAssumption

\* The types of the rows of one node.
LEMMA Entries ==
    ASSUME TypeOK, NEW n \in Nodes
    PROVE  /\ atts[n] \in Seq(Attempts) /\ resv[n] \in Seq(Reservations) /\ item[n] \in Items
           /\ node[n] \in [status : NodeStatus, outcome : TerminalRun \union {None}]
           /\ Latest(n) \in Nat /\ DOMAIN atts[n] = 1..Latest(n)
           /\ atts[n] # <<>> => Latest(n) \in DOMAIN atts[n] /\ Last(n) \in Attempts
           /\ \A i \in DOMAIN atts[n] : atts[n][i] \in Attempts
           /\ \A k \in DOMAIN resv[n] : resv[n][k] \in Reservations
           /\ DOMAIN resv[n] = 1..Len(resv[n]) /\ Len(resv[n]) \in Nat
BY SeqFacts DEF TypeOK, Latest, Last

\* What a node's attempts are changed to.
LEMMA AttemptsChange ==
    ASSUME TypeOK, NEW n \in Nodes, NEW i \in DOMAIN atts[n], NEW x \in Attempts
    PROVE  [atts EXCEPT ![n][i] = x] \in [Nodes -> Seq(Attempts)]
<1>1. atts \in [Nodes -> Seq(Attempts)] /\ [atts[n] EXCEPT ![i] = x] \in Seq(Attempts)
    BY Entries, SeqUpdate DEF TypeOK
<1> QED BY <1>1

\* One reservation of a node changes.
LEMMA ReservationsChange ==
    ASSUME TypeOK, NEW n \in Nodes, NEW k \in DOMAIN resv[n], NEW x \in Reservations
    PROVE  [resv EXCEPT ![n][k] = x] \in [Nodes -> Seq(Reservations)]
<1>1. resv \in [Nodes -> Seq(Reservations)] /\ [resv[n] EXCEPT ![k] = x] \in Seq(Reservations)
    BY Entries, SeqUpdate DEF TypeOK
<1> QED BY <1>1

\* A reservation that is settled.
LEMMA Settles ==
    ASSUME TypeOK, NEW n \in Nodes, NEW k \in DOMAIN resv[n], NEW u \in Nat,
           Charge(n, k, u) \/ Refund(n, k)
    PROVE  /\ resv' \in [Nodes -> Seq(Reservations)]
           /\ \A m \in Nodes : m # n => resv'[m] = resv[m]
           /\ DOMAIN resv'[n] = DOMAIN resv[n] /\ Len(resv'[n]) = Len(resv[n])
           /\ \A j \in DOMAIN resv[n] : j # k => resv'[n][j] = resv[n][j]
           /\ resv'[n][k].worst = resv[n][k].worst /\ resv'[n][k].state # "reserved"
           /\ Charge(n, k, u) => resv'[n][k].state = "consumed" /\ resv'[n][k].used = u
           /\ Refund(n, k) => resv'[n][k].state = "refunded"
<1>1. PICK x : x = IF Charge(n, k, u) THEN [resv[n][k] EXCEPT !.state = "consumed", !.used = u]
                   ELSE [resv[n][k] EXCEPT !.state = "refunded"]
    OBVIOUS
<1>2. resv[n][k] \in Reservations /\ resv[n] \in Seq(Reservations)
    BY Entries
<1>3. x \in Reservations
    BY <1>1, <1>2 DEF Reservations
<1>4. resv' = [resv EXCEPT ![n][k] = x]
    BY <1>1 DEF Charge, Refund
<1>5. [resv EXCEPT ![n][k] = x] \in [Nodes -> Seq(Reservations)]
    BY <1>3, ReservationsChange
<1>6. resv \in [Nodes -> Seq(Reservations)]
    BY DEF TypeOK
<1>7. resv'[n] = [resv[n] EXCEPT ![k] = x] /\ \A m \in Nodes : m # n => resv'[m] = resv[m]
    BY <1>4, <1>6
<1>8. /\ DOMAIN resv'[n] = DOMAIN resv[n] /\ Len(resv'[n]) = Len(resv[n])
      /\ resv'[n][k] = x /\ \A j \in DOMAIN resv[n] : j # k => resv'[n][j] = resv[n][j]
    BY <1>2, <1>3, <1>7, SeqUpdate
<1>9. x.worst = resv[n][k].worst /\ x.state # "reserved"
    BY <1>1, <1>2 DEF Reservations
<1>10. Charge(n, k, u) => x.state = "consumed" /\ x.used = u
    BY <1>1, <1>2 DEF Reservations
<1>11. Refund(n, k) => resv'[n][k].state = "refunded"
    <2>1. SUFFICES ASSUME Refund(n, k) PROVE resv'[n][k].state = "refunded"
        OBVIOUS
    <2>2. resv'[n] = [resv[n] EXCEPT ![k].state = "refunded"]
        BY <1>6, <2>1 DEF Refund
    <2>3. resv'[n][k] = [resv[n][k] EXCEPT !.state = "refunded"]
        BY <1>2, <2>2
    <2> QED BY <1>2, <2>3 DEF Reservations
<1> QED BY <1>4, <1>5, <1>7, <1>8, <1>9, <1>10, <1>11

\* One attempt changes.
LEMMA Marks ==
    ASSUME TypeOK, NEW n \in Nodes, NEW i \in DOMAIN atts[n], NEW x \in Attempts,
           atts' = [atts EXCEPT ![n][i] = x]
    PROVE  /\ atts' \in [Nodes -> Seq(Attempts)]
           /\ \A m \in Nodes : m # n => atts'[m] = atts[m]
           /\ DOMAIN atts'[n] = DOMAIN atts[n] /\ Len(atts'[n]) = Len(atts[n])
           /\ atts'[n][i] = x /\ \A j \in DOMAIN atts[n] : j # i => atts'[n][j] = atts[n][j]
<1>1. atts \in [Nodes -> Seq(Attempts)] /\ atts[n] \in Seq(Attempts)
    BY DEF TypeOK
<1>2. atts'[n] = [atts[n] EXCEPT ![i] = x] /\ \A m \in Nodes : m # n => atts'[m] = atts[m]
    BY <1>1
<1> QED BY <1>1, <1>2, AttemptsChange, SeqUpdate

\* Interrupting an attempt keeps its child, its reservation and its proof, and ends it.
LEMMA InterruptedMarks ==
    ASSUME TypeOK, NEW n \in Nodes, NEW i \in DOMAIN atts[n], Interrupted(n, i)
    PROVE  \E x \in Attempts :
              /\ atts' = [atts EXCEPT ![n][i] = x]
              /\ x.child = atts[n][i].child /\ x.resv = atts[n][i].resv /\ x.auth = atts[n][i].auth
              /\ atts[n][i].status \notin {"admitted", "running"} => x.status = atts[n][i].status
              /\ x.status \notin {"admitted", "running"}
<1> DEFINE x == IF atts[n][i].status \in {"admitted", "running"}
                THEN [atts[n][i] EXCEPT !.status = "interrupted"] ELSE atts[n][i]
<1>1. atts[n][i] \in Attempts /\ atts \in [Nodes -> Seq(Attempts)] /\ atts[n] \in Seq(Attempts)
    BY Entries DEF TypeOK
<1>2. x \in Attempts
    BY <1>1 DEF Attempts, NodeStatus, TerminalRun
<1>3. atts' = [atts EXCEPT ![n][i] = x]
    <2>1. CASE atts[n][i].status \in {"admitted", "running"}
        BY <2>1 DEF Interrupted
    <2>2. CASE atts[n][i].status \notin {"admitted", "running"}
        <3>1. atts' = atts /\ x = atts[n][i]
            BY <2>2 DEF Interrupted
        <3>2. [atts[n] EXCEPT ![i] = atts[n][i]] = atts[n]
            BY <1>1
        <3>3. [atts EXCEPT ![n] = atts[n]] = atts
            BY <1>1
        <3>4. [atts EXCEPT ![n][i] = x] = [atts EXCEPT ![n] = [atts[n] EXCEPT ![i] = x]]
            OBVIOUS
        <3> HIDE DEF x
        <3> QED BY <3>1, <3>2, <3>3, <3>4
    <2> QED BY <2>1, <2>2
<1>4. /\ x.child = atts[n][i].child /\ x.resv = atts[n][i].resv /\ x.auth = atts[n][i].auth
      /\ atts[n][i].status \notin {"admitted", "running"} => x.status = atts[n][i].status
      /\ x.status \notin {"admitted", "running"}
    BY <1>1 DEF Attempts
<1> QED BY <1>2, <1>3, <1>4

\* ChildStarted marks the last attempt as one with a child.
LEMMA StartsMarks ==
    ASSUME TypeOK, NEW n \in Nodes, Latest(n) \in DOMAIN atts[n], StartChild(n)
    PROVE  \E x \in Attempts :
              /\ atts' = [atts EXCEPT ![n][Latest(n)] = x]
              /\ x.child = TRUE /\ x.resv = Last(n).resv /\ x.auth = Last(n).auth
<1> DEFINE x == [Last(n) EXCEPT !.child = TRUE, !.status = "running"]
<1>1. Last(n) \in Attempts
    BY Entries DEF Last
<1>2. x \in Attempts /\ x.child = TRUE /\ x.resv = Last(n).resv /\ x.auth = Last(n).auth
    BY <1>1 DEF Attempts, NodeStatus
<1>3. atts' = [atts EXCEPT ![n][Latest(n)] = x]
    BY DEF StartChild, Last
<1> QED BY <1>2, <1>3

\* The terminal event writes the outcome and its proof to the last attempt.
LEMMA TerminalMarks ==
    ASSUME TypeOK, NEW n \in Nodes, Latest(n) \in DOMAIN atts[n], RecordTerminal(n),
           end[n].outcome # None
    PROVE  \E x \in Attempts :
              /\ atts' = [atts EXCEPT ![n][Latest(n)] = x]
              /\ x.child = Last(n).child /\ x.resv = Last(n).resv
              /\ x.status = end[n].outcome /\ x.auth = end[n].auth
<1> DEFINE x == [Last(n) EXCEPT !.status = end[n].outcome, !.auth = end[n].auth]
<1>1. Last(n) \in Attempts /\ end[n] \in [outcome : TerminalRun \union {None}, auth : BOOLEAN]
    BY Entries DEF Last, TypeOK
<1>2. /\ x \in Attempts /\ x.child = Last(n).child /\ x.resv = Last(n).resv
      /\ x.status = end[n].outcome /\ x.auth = end[n].auth
    BY <1>1 DEF Attempts, NodeStatus
<1>3. atts' = [atts EXCEPT ![n][Latest(n)] = x]
    BY DEF RecordTerminal, Last
<1> QED BY <1>2, <1>3

\* The events of an item leave the child, the reservation and the outcome of an attempt alone.
LEMMA ItemMarks ==
    ASSUME TypeOK, NEW n \in Nodes, Latest(n) \in DOMAIN atts[n], StartItem(n) \/ EndItem(n)
    PROVE  \E x \in Attempts :
              /\ atts' = [atts EXCEPT ![n][Latest(n)] = x]
              /\ x.child = Last(n).child /\ x.resv = Last(n).resv
              /\ x.status = Last(n).status /\ x.auth = Last(n).auth
<1>1. Last(n) \in Attempts
    BY Entries DEF Last
<1>2. PICK b \in BOOLEAN : atts' = [atts EXCEPT ![n][Latest(n)].risky = b]
    BY DEF StartItem, EndItem
<1> DEFINE x == [Last(n) EXCEPT !.risky = b]
<1>3. /\ x \in Attempts /\ x.child = Last(n).child /\ x.resv = Last(n).resv
      /\ x.status = Last(n).status /\ x.auth = Last(n).auth
    BY <1>1 DEF Attempts
<1>4. atts' = [atts EXCEPT ![n][Latest(n)] = x]
    BY <1>2 DEF Last
<1> QED BY <1>3, <1>4

\* A node is admitted.
LEMMA Admits ==
    ASSUME TypeOK, NEW n \in Nodes, CurrentResv(n) \in Nat, Admit(n)
    PROVE  /\ atts' \in [Nodes -> Seq(Attempts)]
           /\ \A m \in Nodes : m # n => atts'[m] = atts[m]
           /\ Latest(n)' = Latest(n) + 1 /\ DOMAIN atts'[n] = DOMAIN atts[n] \union {Latest(n) + 1}
           /\ Latest(n) + 1 \notin DOMAIN atts[n]
           /\ Last(n)' = [status |-> "admitted", child |-> FALSE, resv |-> CurrentResv(n),
                          auth |-> FALSE, risky |-> FALSE]
           /\ atts'[n][Latest(n) + 1] = Last(n)'
           /\ \A i \in DOMAIN atts[n] : atts'[n][i] = atts[n][i]
<1> DEFINE x == [status |-> "admitted", child |-> FALSE, resv |-> CurrentResv(n),
                 auth |-> FALSE, risky |-> FALSE]
<1>1. atts \in [Nodes -> Seq(Attempts)] /\ atts[n] \in Seq(Attempts)
    BY DEF TypeOK
<1>2. x \in Attempts
    BY DEF Attempts
<1>3. atts' = [atts EXCEPT ![n] = Append(@, x)]
    BY DEF Admit
<1> HIDE DEF x
<1>4. atts'[n] = Append(atts[n], x) /\ \A m \in Nodes : m # n => atts'[m] = atts[m]
    BY <1>1, <1>3
<1>5. /\ atts'[n] \in Seq(Attempts) /\ Len(atts'[n]) = Len(atts[n]) + 1
      /\ DOMAIN atts'[n] = DOMAIN atts[n] \union {Len(atts[n]) + 1}
      /\ Len(atts[n]) + 1 \notin DOMAIN atts[n] /\ atts'[n][Len(atts[n]) + 1] = x
      /\ \A i \in DOMAIN atts[n] : atts'[n][i] = atts[n][i]
    BY <1>1, <1>2, <1>4, AppendFacts
<1>6. atts' \in [Nodes -> Seq(Attempts)]
    BY <1>1, <1>3, <1>4, <1>5
<1> QED BY <1>4, <1>5, <1>6 DEF Latest, Last, x

\* A batch is prepared for at most the attempts that are left.
LEMMA WorstType ==
    ASSUME NEW n, item[n] \in Items
    PROVE  /\ item[n].used \in Nat /\ item[n].used <= ItemAttempts
           /\ PreparedBatch(n) \in Nat /\ WorstCase(n) \in Nat
<1>1. item[n].used \in 0..ItemAttempts /\ ItemAttempts \in Nat
    BY NumbersAssumption DEF Items
<1> PICK u : u = item[n].used
    OBVIOUS
<1>4. u \in 0..ItemAttempts
    BY <1>1
<1>2. ItemAttempts - u \in Nat /\ u \in Nat /\ u <= ItemAttempts
    BY <1>1, <1>4
<1>3. PreparedBatch(n) \in Nat
    BY <1>2 DEF PreparedBatch
<1> QED BY <1>1, <1>2, <1>3 DEF WorstCase

\* A reservation is made.
LEMMA Reserves ==
    ASSUME TypeOK, NEW n \in Nodes, reuse[n] = 0, Reserve(n)
    PROVE  \E x \in Reservations :
              /\ x.state = "reserved" /\ x.worst = WorstCase(n)
              /\ resv'[n] = Append(resv[n], x) /\ \A m \in Nodes : m # n => resv'[m] = resv[m]
              /\ resv' \in [Nodes -> Seq(Reservations)]
              /\ resv'[n] \in Seq(Reservations) /\ Len(resv'[n]) = Len(resv[n]) + 1
              /\ DOMAIN resv'[n] = DOMAIN resv[n] \union {Len(resv[n]) + 1}
              /\ Len(resv[n]) + 1 \notin DOMAIN resv[n] /\ resv'[n][Len(resv[n]) + 1] = x
              /\ \A i \in DOMAIN resv[n] : resv'[n][i] = resv[n][i]
<1> DEFINE x == [state |-> "reserved", worst |-> WorstCase(n), used |-> 0]
<1>1. resv \in [Nodes -> Seq(Reservations)] /\ resv[n] \in Seq(Reservations) /\ item[n] \in Items
    BY DEF TypeOK
<1>2. WorstCase(n) \in Nat
    BY <1>1, WorstType
<1>3. x \in Reservations /\ x.state = "reserved" /\ x.worst = WorstCase(n)
    BY <1>2 DEF Reservations
<1>4. resv' = [resv EXCEPT ![n] = Append(@, x)]
    BY DEF Reserve
<1> HIDE DEF x
<1>5. resv'[n] = Append(resv[n], x) /\ \A m \in Nodes : m # n => resv'[m] = resv[m]
    BY <1>1, <1>4
<1>6. /\ resv'[n] \in Seq(Reservations) /\ Len(resv'[n]) = Len(resv[n]) + 1
      /\ DOMAIN resv'[n] = DOMAIN resv[n] \union {Len(resv[n]) + 1}
      /\ Len(resv[n]) + 1 \notin DOMAIN resv[n] /\ resv'[n][Len(resv[n]) + 1] = x
      /\ \A i \in DOMAIN resv[n] : resv'[n][i] = resv[n][i]
    BY <1>1, <1>3, <1>5, AppendFacts
<1>7. resv' \in [Nodes -> Seq(Reservations)]
    BY <1>1, <1>4, <1>5, <1>6
<1> QED BY <1>3, <1>5, <1>6, <1>7

-----------------------------------------------------------------------------
(* Types.                                                                  *)

TDurable ==
    /\ status \in RunStatus
    /\ node \in [Nodes -> [status : NodeStatus, outcome : TerminalRun \union {None}]]
    /\ atts \in [Nodes -> Seq(Attempts)] /\ resv \in [Nodes -> Seq(Reservations)]
    /\ item \in [Nodes -> Items]
    /\ known \subseteq ({"paused", "approved", "stopping", "requeued", "artifact"}
                      \X (Nodes \union {None}))
TMemory ==
    /\ phase \in Phases /\ todo \subseteq Nodes /\ left \subseteq Nat
    /\ pc \in [Nodes -> NodeSteps] /\ tries \in [Nodes -> 0..MaxAttempts]
    /\ end \in [Nodes -> [outcome : TerminalRun \union {None}, auth : BOOLEAN]]
    /\ result \in [Nodes -> TerminalRun \union {None, "awaiting-approval"}]
TReuse ==
    reuse \in [Nodes -> Nat] /\ \A n \in Nodes : reuse[n] = 0 \/ reuse[n] \in DOMAIN resv[n]
TSignals == {cancelFile, cancel, pause} \subseteq BOOLEAN /\ crashes \in 0..MaxCrashes

\* The type invariant is what is durable, what is in memory, the kept
\* reservations and the signals.
LEMMA TypeParts == /\ TypeOK <=> TDurable /\ TMemory /\ TReuse /\ TSignals
                   /\ TypeOK' <=> TDurable' /\ TMemory' /\ TReuse' /\ TSignals'
BY DEF TypeOK, TDurable, TMemory, TReuse, TSignals

\* A process that stops executing the run.
LEMMA LeaveTypes == Leave => TMemory' /\ TReuse' /\ cancel' = FALSE /\ pause' = FALSE
<1> SUFFICES ASSUME Leave PROVE TMemory' /\ TReuse' /\ cancel' = FALSE /\ pause' = FALSE
    OBVIOUS
<1>1. /\ phase' \in Phases /\ todo' \subseteq Nodes /\ left' \subseteq Nat
      /\ pc' \in [Nodes -> NodeSteps]
    BY DEF Leave, Phases, NodeSteps, All
<1>2. tries' \in [Nodes -> 0..MaxAttempts]
    <2>1. 0 \in 0..MaxAttempts
        BY NumbersAssumption
    <2> QED BY <2>1 DEF Leave, All
<1>3. end' \in [Nodes -> [outcome : TerminalRun \union {None}, auth : BOOLEAN]]
    BY DEF Leave, All, NoEnd
<1>4. result' \in [Nodes -> TerminalRun \union {None, "awaiting-approval"}]
    BY DEF Leave, All
<1>5. TReuse'
    BY DEF Leave, All, TReuse
<1>6. TMemory'
    BY <1>1, <1>2, <1>3, <1>4 DEF TMemory
<1> QED BY <1>5, <1>6 DEF Leave

\* What happens to the projection when a node's status changes.
LEMMA SetsNode ==
    ASSUME TypeOK, NEW n \in Nodes, NEW s \in NodeStatus, NEW o \in TerminalRun \union {None},
           SetNode(n, s, o)
    PROVE  /\ node' \in [Nodes -> [status : NodeStatus, outcome : TerminalRun \union {None}]]
           /\ node'[n].status = s /\ node'[n].outcome = o
           /\ \A m \in Nodes : m # n => node'[m] = node[m]
BY DEF TypeOK, SetNode

\* A node that goes to a step is there, and no other node moves.
LEMMA StepsNode ==
    ASSUME TypeOK, NEW n \in Nodes, NEW s, Step(n, s)
    PROVE  pc'[n] = s /\ \A m \in Nodes : m # n => pc'[m] = pc[m]
BY DEF TypeOK, Step

\* A node goes to a step.
LEMMA StepTypes ==
    ASSUME TypeOK, NEW n \in Nodes, NEW s \in NodeSteps, Step(n, s)
    PROVE  pc' \in [Nodes -> NodeSteps]
BY DEF TypeOK, Step

\* The root goes to a phase.
LEMMA GotoTypes ==
    ASSUME TypeOK, NEW p \in Phases, Goto(p), UNCHANGED resv
    PROVE  TMemory' /\ TReuse'
<1>1. TMemory /\ TReuse
    BY TypeParts
<1> QED BY <1>1 DEF Goto, TMemory, TReuse

\* The root polls the durable cancellation and goes to a phase.
LEMMA PollTypes ==
    ASSUME TypeOK, NEW p \in Phases, PollThen(p), UNCHANGED resv
    PROVE  TMemory' /\ TReuse' /\ TSignals'
<1>1. TMemory /\ TReuse /\ TSignals
    BY TypeParts
<1>2. TSignals'
    <2>1. cancel \in BOOLEAN /\ cancelFile \in BOOLEAN /\ cancel' = (cancel \/ cancelFile)
        BY <1>1 DEF TSignals, PollThen
    <2>2. cancel' \in BOOLEAN
        BY <2>1
    <2> QED BY <1>1, <2>2 DEF TSignals, PollThen
<1>3. PICK q \in Phases : Goto(q)
    BY DEF PollThen, Phases
<1> QED BY <1>2, <1>3, GotoTypes

\* The root polls and writes nothing.
LEMMA PollKeepsTypes ==
    ASSUME TypeOK, NEW p \in Phases, PollThen(p), UNCHANGED durable
    PROVE  TypeOK'
<1>1. TDurable'
    BY TypeParts DEF TDurable, durable
<1> QED BY <1>1, PollTypes, TypeParts DEF durable

\* The root is about to end with a verdict.
LEMMA EndRootTypes ==
    ASSUME TypeOK, NEW v \in TerminalRun \union {None, "awaiting-approval"}, EndRoot(v), UNCHANGED resv
    PROVE  TMemory' /\ TReuse'
<1>1. TMemory /\ TReuse
    BY TypeParts
<1>2. result' \in [Nodes -> TerminalRun \union {None, "awaiting-approval"}] /\ phase' \in Phases
    BY DEF EndRoot, All, Phases
<1> QED BY <1>1, <1>2 DEF EndRoot, TMemory, TReuse

\* The children that were started are finitely many.
LEMMA StartedFinite ==
    ASSUME TypeOK, NEW n \in Nodes
    PROVE  /\ IsFiniteSet(Started(n)) /\ Cardinality(Started(n)) \in Nat
           /\ PhysicalAttempts(n) \in Nat
<1>1. IsFiniteSet(DOMAIN atts[n]) /\ Started(n) \subseteq DOMAIN atts[n]
    BY SeqFacts DEF TypeOK, Started
<1>2. IsFiniteSet(Started(n)) /\ Cardinality(Started(n)) \in Nat
    BY <1>1, FS_Subset, FS_CardinalityType
<1> QED BY <1>2 DEF PhysicalAttempts

\* What control does before and after the nodes are run.
LEMMA ControlTypes ==
    ASSUME RunInv, \/ Execute \/ Open \/ RecoveryDone \/ Approve \/ DenyApproval \/ Begin
                   \/ LoopCancelled \/ Pause \/ LaunchWave \/ NothingReady \/ WaveDone
                   \/ AppendStopping \/ SettleRoot \/ Release
                   \/ RequestCancel \/ RequestDurableCancel \/ PollCancel \/ RequestPause \/ Crash
    PROVE  TypeOK'
<1>0. TypeOK /\ TDurable /\ TMemory /\ TReuse /\ TSignals
    BY TypeParts DEF RunInv
<1>1. CASE Execute
    <2>1. tries' \in [Nodes -> 0..MaxAttempts]
        <3>1. ASSUME NEW n \in Nodes PROVE PhysicalAttempts(n) \in 0..MaxAttempts
            <4>1. Counted(n) /\ PhysicalAttempts(n) \in Nat
                BY <1>0, StartedFinite DEF RunInv
            <4>2. PhysicalAttempts(n) <= MaxAttempts
                BY <4>1, NumbersAssumption DEF Counted, PhysicalAttempts
            <4> QED BY <4>1, <4>2, NumbersAssumption
        <3> QED BY <1>1, <3>1 DEF Execute
    <2>2. TMemory'
        BY <1>0, <1>1, <2>1 DEF Execute, TMemory, Phases
    <2>3. TDurable' /\ TReuse' /\ TSignals'
        BY <1>0, <1>1 DEF Execute, TDurable, TReuse, TSignals, signals, RunStatus
    <2> QED BY <2>2, <2>3, TypeParts
<1>2. CASE Open
    BY <1>0, <1>2, PollKeepsTypes DEF Open, Phases
<1>3. CASE RecoveryDone
    BY <1>0, <1>3, PollKeepsTypes DEF RecoveryDone, Phases
<1>5. CASE Begin
    <2>1. TMemory' /\ TReuse'
        BY <1>0, <1>5, GotoTypes DEF Begin, Phases
    <2>2. TDurable' /\ TSignals'
        BY <1>0, <1>5 DEF Begin, TDurable, TSignals, signals, RunStatus
    <2> QED BY <2>1, <2>2, TypeParts
<1>6. CASE LoopCancelled
    BY <1>0, <1>6, PollKeepsTypes DEF LoopCancelled, Phases
<1>7. ASSUME RequestApproval PROVE TypeOK'
    <2>1. TMemory' /\ TReuse' /\ TSignals'
        BY <1>0, <1>7, LeaveTypes DEF RequestApproval, TSignals
    <2>2. TDurable'
        BY <1>0, <1>7 DEF RequestApproval, TDurable, RunStatus
    <2> QED BY <2>1, <2>2, TypeParts
<1>8. CASE Approve
    <2>1. TMemory' /\ TReuse' /\ TSignals'
        BY <1>0, <1>8, PollTypes DEF Approve, Phases
    <2>2. TDurable'
        BY <1>0, <1>8 DEF Approve, TDurable, RunStatus
    <2> QED BY <2>1, <2>2, TypeParts
<1>9. CASE DenyApproval
    BY <1>7, <1>9 DEF DenyApproval
<1>10. CASE Pause
    <2>1. TMemory' /\ TReuse' /\ TSignals'
        BY <1>0, <1>10, LeaveTypes DEF Pause, TSignals
    <2>2. TDurable'
        BY <1>0, <1>10 DEF Pause, TDurable, RunStatus
    <2> QED BY <2>1, <2>2, TypeParts
<1>11. CASE LaunchWave
    <2>1. pc' \in [Nodes -> NodeSteps]
        BY <1>11 DEF LaunchWave, NodeSteps
    <2>2. end' \in [Nodes -> [outcome : TerminalRun \union {None}, auth : BOOLEAN]]
        BY <1>11 DEF LaunchWave, All, NoEnd
    <2>3. result' \in [Nodes -> TerminalRun \union {None, "awaiting-approval"}] /\ phase' \in Phases
        BY <1>11 DEF LaunchWave, All, Phases
    <2>4. TMemory'
        BY <1>0, <1>11, <2>1, <2>2, <2>3 DEF LaunchWave, TMemory
    <2>5. TDurable' /\ TReuse' /\ TSignals'
        BY <1>0, <1>11 DEF LaunchWave, TDurable, TReuse, TSignals, durable, signals
    <2> QED BY <2>4, <2>5, TypeParts
<1>12. CASE NothingReady
    <2>1. PICK v \in {"completed", "failed"} : EndRoot(v)
        BY <1>12 DEF NothingReady
    <2>2. TMemory' /\ TReuse'
        BY <1>0, <1>12, <2>1, EndRootTypes DEF NothingReady, durable, TerminalRun
    <2>3. TDurable' /\ TSignals'
        BY <1>0, <1>12 DEF NothingReady, TDurable, TSignals, durable, signals
    <2> QED BY <2>2, <2>3, TypeParts
<1>13. CASE WaveDone
    <2>1. CASE RequestApproval
        BY <1>7, <2>1
    <2>2. CASE ~RequestApproval
        <3>1. /\ UNCHANGED <<durable, signals>>
              /\ Goto("loop") \/ \E i \in DOMAIN Plan : EndRoot(result[Plan[i]])
            BY <1>13, <2>2 DEF WaveDone
        <3>2. TDurable' /\ TSignals'
            BY <1>0, <3>1 DEF TDurable, TSignals, durable, signals
        <3>3. CASE Goto("loop")
            <4>1. TMemory' /\ TReuse'
                BY <1>0, <3>1, <3>3, GotoTypes DEF durable, Phases
            <4> QED BY <3>2, <4>1, TypeParts
        <3>4. ASSUME NEW i \in DOMAIN Plan, EndRoot(result[Plan[i]]) PROVE TypeOK'
            <4>1. result[Plan[i]] \in TerminalRun \union {None, "awaiting-approval"}
                BY <1>0 DEF TMemory, Nodes
            <4>2. TMemory' /\ TReuse'
                BY <1>0, <3>1, <3>4, <4>1, EndRootTypes DEF durable
            <4> QED BY <3>2, <4>2, TypeParts
        <3> QED BY <3>1, <3>3, <3>4
    <2> QED BY <2>1, <2>2
<1>14. CASE AppendStopping
    <2>1. TMemory' /\ TReuse'
        BY <1>0, <1>14, EndRootTypes DEF AppendStopping, TerminalRun
    <2>2. TDurable' /\ TSignals'
        BY <1>0, <1>14 DEF AppendStopping, TDurable, TSignals, signals, RunStatus
    <2> QED BY <2>1, <2>2, TypeParts
<1>15. CASE SettleRoot
    <2>1. TMemory' /\ TReuse' /\ TSignals'
        BY <1>0, <1>15, LeaveTypes DEF SettleRoot, TSignals
    <2>2. status' \in RunStatus
        BY <1>0, <1>15, HeadIn DEF SettleRoot, TMemory, RunStatus
    <2>3. TDurable'
        BY <1>0, <1>15, <2>2 DEF SettleRoot, TDurable
    <2> QED BY <2>1, <2>3, TypeParts
<1>16. CASE Release
    <2>1. TMemory' /\ TReuse' /\ TSignals'
        BY <1>0, <1>16, LeaveTypes DEF Release, TSignals
    <2>2. TDurable'
        BY <1>0, <1>16 DEF Release, TDurable, durable
    <2> QED BY <2>1, <2>2, TypeParts
<1>17. CASE Crash
    <2>1. TMemory' /\ TReuse' /\ cancel' = FALSE /\ pause' = FALSE
        BY <1>17, LeaveTypes DEF Crash
    <2>2. crashes' \in 0..MaxCrashes
        BY <1>0, <1>17, NumbersAssumption DEF Crash, TSignals
    <2>3. TDurable' /\ TSignals'
        BY <1>0, <1>17, <2>1, <2>2 DEF Crash, TDurable, TSignals, durable
    <2> QED BY <2>1, <2>3, TypeParts
<1>18. CASE RequestCancel \/ RequestDurableCancel \/ PollCancel \/ RequestPause
    <2>1. UNCHANGED <<durable, memory, crashes>> /\ {cancelFile', cancel', pause'} \subseteq BOOLEAN
        BY <1>0, <1>18
        DEF RequestCancel, RequestDurableCancel, PollCancel, RequestPause, TSignals
    <2>2. TDurable' /\ TMemory' /\ TReuse' /\ TSignals'
        BY <1>0, <2>1 DEF TDurable, TMemory, TReuse, TSignals, durable, memory
    <2> QED BY <2>2, TypeParts
<1> QED BY <1>1, <1>2, <1>3, <1>5, <1>6, <1>8, <1>9, <1>10, <1>11, <1>12, <1>13, <1>14, <1>15,
           <1>16, <1>17, <1>18

\* What control knows of the node whose turn it is.
LEMMA RecoveryTypes ==
    ASSUME RunInv, \/ RefundUnadmitted \/ RefundsDone
                   \/ \E n \in Nodes : \/ RefuseReplay(n) \/ Requeue(n)
                                       \/ \E i \in left : KeepBatch(n, i) \/ InterruptChild(n, i)
                                                         \/ SettleAttempt(n, i)
    PROVE  TypeOK'
<1>0. TypeOK /\ TDurable /\ TMemory /\ TReuse /\ TSignals
    BY TypeParts DEF RunInv
<1>1. ASSUME NEW n \in Nodes, NEW k \in DOMAIN resv[n], NEW u \in Nat,
             Charge(n, k, u) \/ Refund(n, k), UNCHANGED <<status, node, atts, item, known, reuse>>
      PROVE  TDurable' /\ TReuse'
    <2>1. resv' \in [Nodes -> Seq(Reservations)] /\ \A m \in Nodes : DOMAIN resv'[m] = DOMAIN resv[m]
        BY <1>0, <1>1, Settles
    <2> QED BY <1>0, <1>1, <2>1 DEF TDurable, TReuse
<1>2. CASE RefundUnadmitted
    <2>1. PICK n \in Nodes : \E k \in DOMAIN resv[n] : Refund(n, k)
        BY <1>2 DEF RefundUnadmitted
    <2>2. PICK k \in DOMAIN resv[n] : Refund(n, k)
        BY <2>1
    <2>3. TDurable' /\ TReuse'
        BY <1>1, <1>2, <2>2 DEF RefundUnadmitted, memory
    <2>4. TMemory' /\ TSignals'
        BY <1>0, <1>2 DEF RefundUnadmitted, TMemory, TSignals, memory, signals
    <2> QED BY <2>3, <2>4, TypeParts
<1>3. ASSUME NEW ns, ns \subseteq Nodes, Load(ns) PROVE todo' \subseteq Nodes /\ left' \subseteq Nat
    <2>1. ASSUME NEW n \in ns PROVE Unfinished(n) \subseteq Nat
        BY <1>0, <1>3, Entries DEF Unfinished
    <2> QED BY <1>3, <2>1 DEF Load
<1>4. CASE RefundsDone
    <2>1. todo' \subseteq Nodes /\ left' \subseteq Nat
        BY <1>3, <1>4 DEF RefundsDone
    <2>2. TMemory' /\ TDurable' /\ TReuse' /\ TSignals'
        BY <1>0, <1>4, <2>1
        DEF RefundsDone, TMemory, TDurable, TReuse, TSignals, durable, signals, Phases
    <2> QED BY <2>2, TypeParts
<1>5. ASSUME NEW n \in Nodes, RefuseReplay(n) PROVE TypeOK'
    <2>1. node' \in [Nodes -> [status : NodeStatus, outcome : TerminalRun \union {None}]]
        BY <1>0, <1>5, SetsNode DEF RefuseReplay, NodeStatus, TerminalRun
    <2>2. TMemory' /\ TReuse'
        BY <1>0, <1>5, EndRootTypes DEF RefuseReplay, TerminalRun
    <2>3. TDurable' /\ TSignals'
        BY <1>0, <1>5, <2>1 DEF RefuseReplay, TDurable, TSignals, signals
    <2> QED BY <2>2, <2>3, TypeParts
<1>6. ASSUME NEW n \in Nodes, Requeue(n) PROVE TypeOK'
    <2>1. node' \in [Nodes -> [status : NodeStatus, outcome : TerminalRun \union {None}]]
        <3>1. CASE SetNode(n, "queued", None)
            BY <1>0, <3>1, SetsNode DEF NodeStatus
        <3>2. CASE UNCHANGED node
            BY <1>0, <3>2 DEF TDurable
        <3> QED BY <1>6, <3>1, <3>2 DEF Requeue
    <2>2. todo' \subseteq Nodes /\ left' \subseteq Nat
        BY <1>0, <1>3, <1>6 DEF Requeue, TMemory
    <2>3. TMemory' /\ TReuse' /\ TSignals'
        BY <1>0, <1>6, <2>2 DEF Requeue, TMemory, TReuse, TSignals, signals
    <2>4. known' \subseteq ({"paused", "approved", "stopping", "requeued", "artifact"}
                            \X (Nodes \union {None}))
        BY <1>0, <1>6 DEF Requeue, TDurable
    <2>5. TDurable'
        BY <1>0, <1>6, <2>1, <2>4 DEF Requeue, TDurable
    <2> QED BY <2>3, <2>5, TypeParts
<1>7. ASSUME NEW n \in Nodes, NEW i \in left, Recovering(n, i)
      PROVE  i \in DOMAIN atts[n] /\ atts[n][i].resv \in DOMAIN resv[n]
    <2>1. Turn(n)
        BY <1>7 DEF Recovering, Turn
    <2>2. i \in DOMAIN atts[n]
        BY <2>1 DEF RunInv, Kept
    <2> QED BY <2>2 DEF RunInv, Referred
<1>8. ASSUME NEW n \in Nodes, NEW i \in left, Recovering(n, i), Interrupted(n, i)
      PROVE  atts' \in [Nodes -> Seq(Attempts)]
    <2>1. i \in DOMAIN atts[n]
        BY <1>7, <1>8
    <2> QED BY <1>0, <1>8, <2>1, InterruptedMarks, Marks
<1>9. ASSUME NEW n \in Nodes, NEW i \in left, KeepBatch(n, i) PROVE TypeOK'
    <2>1. i \in DOMAIN atts[n] /\ atts[n][i].resv \in DOMAIN resv[n] /\ atts' \in [Nodes -> Seq(Attempts)]
        BY <1>7, <1>8, <1>9 DEF KeepBatch
    <2>2. atts[n][i].resv \in Nat
        BY <1>0, <2>1, Entries
    <2>3. TReuse'
        BY <1>0, <1>9, <2>1, <2>2 DEF KeepBatch, TReuse
    <2>4. TDurable' /\ TMemory' /\ TSignals'
        BY <1>0, <1>9, <2>1 DEF KeepBatch, TDurable, TMemory, TSignals, signals
    <2> QED BY <2>3, <2>4, TypeParts
<1>10. ASSUME NEW n \in Nodes, NEW i \in left, InterruptChild(n, i) PROVE TypeOK'
    <2>1. atts' \in [Nodes -> Seq(Attempts)]
        BY <1>8, <1>10 DEF InterruptChild
    <2>2. TDurable' /\ TMemory' /\ TReuse' /\ TSignals'
        BY <1>0, <1>10, <2>1
        DEF InterruptChild, TDurable, TMemory, TReuse, TSignals, memory, signals
    <2> QED BY <2>2, TypeParts
<1>11. ASSUME NEW n \in Nodes, NEW i \in left, SettleAttempt(n, i) PROVE TypeOK'
    <2> DEFINE k == atts[n][i].resv
    <2>1. k \in DOMAIN resv[n]
        BY <1>7, <1>11 DEF SettleAttempt
    <2>2. resv[n][k].worst \in Nat
        BY <1>0, <2>1, Entries DEF Reservations
    <2>3. UNCHANGED resv \/ Refund(n, k) \/ Charge(n, k, resv[n][k].worst)
        BY <1>11 DEF SettleAttempt, ChargeAll
    <2>4. UNCHANGED <<status, node, atts, item, known, reuse>>
        BY <1>11 DEF SettleAttempt
    <2>5. TDurable' /\ TReuse'
        <3>1. CASE UNCHANGED resv
            BY <1>0, <2>4, <3>1 DEF TDurable, TReuse
        <3>2. CASE Refund(n, k) \/ Charge(n, k, resv[n][k].worst)
            BY <1>1, <2>1, <2>2, <2>4, <3>2
        <3> QED BY <2>3, <3>1, <3>2
    <2>6. tries' \in [Nodes -> 0..MaxAttempts]
        <3>1. MaxAttempts \in 0..MaxAttempts
            BY NumbersAssumption
        <3> QED BY <1>0, <1>11, <3>1 DEF SettleAttempt, TMemory
    <2>7. TMemory' /\ TSignals'
        BY <1>0, <1>11, <2>6 DEF SettleAttempt, TMemory, TSignals, signals
    <2> QED BY <2>5, <2>7, TypeParts
<1> QED BY <1>2, <1>4, <1>5, <1>6, <1>9, <1>10, <1>11

\* Every step of #runNode is a step of one node.
LEMMA RunSteps ==
    ASSUME NEW n, RunNode(n)
    PROVE  /\ phase \in {"wave", "thrown"} /\ phase' \in {phase, "thrown"}
           /\ \E s \in NodeSteps : Step(n, s)
           /\ UNCHANGED <<status, todo, left, signals>>
<1>1. CASE QueueNode(n) \/ StopNode(n) \/ DenyNode(n) \/ NoPathEnforcement(n) \/ BeginAttempt(n)
    BY <1>1 DEF QueueNode, StopNode, DenyNode, NoPathEnforcement, BeginAttempt, SettleWithout,
                Return, At, NodeSteps, durable
<1>2. CASE PrepareFails(n) \/ Reserve(n) \/ BudgetExhausted(n) \/ Admit(n) \/ StartChild(n)
    BY <1>2 DEF PrepareFails, Reserve, BudgetExhausted, Admit, StartChild, SettleWithout, At,
                NodeSteps, durable
<1>3. CASE NoExecutor(n) \/ ChildEnds(n) \/ EvaluateGate(n) \/ GateFails(n)
    BY <1>3 DEF NoExecutor, ChildEnds, EvaluateGate, GateFails, At, NodeSteps, durable
<1>4. CASE StartItem(n) \/ EndItem(n) \/ EndBatch(n) \/ RecordTerminal(n)
    BY <1>4 DEF StartItem, EndItem, EndBatch, RecordTerminal, At, NodeSteps, durable
<1>5. CASE PublishArtifact(n) \/ ChargeNode(n) \/ Throw(n) \/ SettleNode(n)
    BY <1>5 DEF PublishArtifact, ChargeNode, Throw, SettleNode, Return, At, NodeSteps, durable
<1> QED BY <1>1, <1>2, <1>3, <1>4, <1>5 DEF RunNode

\* What a step of #runNode finds in the journal.
LEMMA Current ==
    ASSUME RunInv, NEW n \in Nodes
    PROVE  /\ pc[n] \in HasReservation =>
                 /\ CurrentResv(n) \in DOMAIN resv[n] /\ CurrentResv(n) \in Nat
                 /\ resv[n][CurrentResv(n)] \in Reservations
                 /\ resv[n][CurrentResv(n)].state = "reserved"
           /\ pc[n] \in HasAttempt => Latest(n) \in DOMAIN atts[n] /\ Last(n).resv = CurrentResv(n)
<1>1. TypeOK /\ AtStep(n)
    BY DEF RunInv
<1>2. pc[n] \in HasReservation =>
         /\ CurrentResv(n) \in DOMAIN resv[n] /\ resv[n][CurrentResv(n)].state = "reserved"
    BY <1>1 DEF AtStep, Owned
<1>3. \A k \in DOMAIN resv[n] : k \in Nat /\ resv[n][k] \in Reservations
    BY <1>1, Entries
<1>4. pc[n] \in HasAttempt => Latest(n) \in DOMAIN atts[n] /\ Last(n).resv = CurrentResv(n)
    BY <1>1, Entries DEF AtStep
<1> QED BY <1>2, <1>3, <1>4

\* The outcome a node is settled with.
LEMMA SettledType ==
    \A e : e.outcome \in TerminalRun => SettledOutcome(e) \in TerminalRun
BY DEF SettledOutcome, TerminalRun

\* One node's end is set.
LEMMA EndsNode ==
    ASSUME TypeOK, NEW n \in Nodes,
           NEW e \in [outcome : TerminalRun \union {None}, auth : BOOLEAN],
           end' = [end EXCEPT ![n] = e]
    PROVE  /\ end' \in [Nodes -> [outcome : TerminalRun \union {None}, auth : BOOLEAN]]
           /\ end'[n] = e /\ \A m \in Nodes : m # n => end'[m] = end[m]
BY DEF TypeOK

\* How an attempt can end.
AnyEnd == [outcome : TerminalRun, auth : BOOLEAN]

\* An end that #runNode sets is one a node can have.
LEMMA EndTypes ==
    ASSUME RunInv, NEW n \in Nodes, RunNode(n), end' # end
    PROVE  \E e \in AnyEnd : end' = [end EXCEPT ![n] = e]
<1>0. TypeOK
    BY DEF RunInv
<1>1. \A o \in TerminalRun, a \in BOOLEAN : [outcome |-> o, auth |-> a] \in AnyEnd
    BY DEF AnyEnd
<1>2. {"completed", "failed", "cancelled", "timed-out", "budget-exhausted", "unavailable", "orphaned"}
      \subseteq TerminalRun
    BY DEF TerminalRun
<1>3. CASE NoPathEnforcement(n) \/ PrepareFails(n) \/ BudgetExhausted(n)
    BY <1>1, <1>2, <1>3 DEF NoPathEnforcement, PrepareFails, BudgetExhausted, SettleWithout
<1>4. CASE NoExecutor(n) \/ GateFails(n)
    BY <1>1, <1>2, <1>4 DEF NoExecutor, GateFails
<1>5. CASE ChildEnds(n)
    <2>1. PICK e \in Ends \union LocalEnds : end' = [end EXCEPT ![n] = e]
        BY <1>5 DEF ChildEnds
    <2>2. Ends \subseteq AnyEnd
        BY EndsAssumption DEF AnyEnd, TerminalRun
    <2>3. LocalEnds \subseteq AnyEnd
        <3>1. [outcome |-> "failed", auth |-> FALSE] \in AnyEnd
            BY <1>1, <1>2
        <3>2. [outcome : {"completed", "failed", "budget-exhausted"}, auth : {TRUE}] \subseteq AnyEnd
            BY <1>2 DEF AnyEnd
        <3> QED BY <3>1, <3>2 DEF LocalEnds
    <2> QED BY <2>1, <2>2, <2>3
<1>6. CASE EvaluateGate(n)
    <2>1. PICK x \in {"completed", "failed", "budget-exhausted"} :
              end' = [end EXCEPT ![n] = [outcome |-> x, auth |-> TRUE]]
        BY <1>6 DEF EvaluateGate
    <2> QED BY <1>1, <1>2, <2>1
<1>7. CASE EndBatch(n)
    <2>1. PICK e \in BatchEnds(n) : end' = [end EXCEPT ![n] = e]
        BY <1>7 DEF EndBatch
    <2>2. item[n].auth \in BOOLEAN
        BY <1>0, Entries DEF Items
    <2>3. e \in AnyEnd
        BY <1>1, <1>2, <2>1, <2>2 DEF BatchEnds
    <2> QED BY <2>1, <2>3
<1>8. CASE \/ QueueNode(n) \/ StopNode(n) \/ DenyNode(n) \/ BeginAttempt(n) \/ Reserve(n) \/ Admit(n)
           \/ StartChild(n) \/ StartItem(n) \/ EndItem(n) \/ RecordTerminal(n) \/ PublishArtifact(n)
           \/ ChargeNode(n) \/ Throw(n) \/ SettleNode(n)
    BY <1>8 DEF QueueNode, StopNode, DenyNode, BeginAttempt, Reserve, Admit, StartChild, StartItem,
                EndItem, RecordTerminal, PublishArtifact, ChargeNode, Throw, SettleNode
<1> QED BY <1>3, <1>4, <1>5, <1>6, <1>7, <1>8 DEF RunNode

\* Each step of #runNode keeps the types.
LEMMA RunTypes ==
    ASSUME RunInv, NEW n \in Nodes, RunNode(n)
    PROVE  TypeOK'
<1>0. TypeOK /\ TDurable /\ TMemory /\ TReuse /\ TSignals
    BY TypeParts DEF RunInv
<1>1. end' \in [Nodes -> [outcome : TerminalRun \union {None}, auth : BOOLEAN]]
    <2>1. ASSUME NEW e \in AnyEnd PROVE e \in [outcome : TerminalRun \union {None}, auth : BOOLEAN]
        BY DEF AnyEnd
    <2> QED BY <1>0, <2>1, EndTypes, EndsNode DEF TMemory
<1>2. pc' \in [Nodes -> NodeSteps] /\ phase' \in Phases /\ todo' \subseteq Nodes /\ left' \subseteq Nat
    BY <1>0, RunSteps, StepTypes DEF TMemory, Phases
<1>3. TSignals' /\ status' \in RunStatus
    BY <1>0, RunSteps DEF TSignals, TDurable, signals
<1>4. ASSUME pc[n] \in {"artifact", "charge", "settle"} \/ end[n].outcome # None
      PROVE  SettledOutcome(end[n]) \in TerminalRun
    BY <1>0, <1>4, SettledType DEF RunInv, AtStep, TMemory
<1>5. result' \in [Nodes -> TerminalRun \union {None, "awaiting-approval"}]
    <2>1. CASE StopNode(n)
        <3>1. PICK o \in TerminalRun \union {None, "awaiting-approval"} : result' = [result EXCEPT ![n] = o]
            BY <1>0, <2>1 DEF StopNode, Return, TMemory, TerminalRun
        <3> QED BY <1>0, <3>1 DEF TMemory
    <2>2. CASE DenyNode(n)
        BY <1>0, <2>2 DEF DenyNode, Return, TMemory
    <2>3. CASE SettleNode(n)
        BY <1>0, <1>4, <2>3 DEF SettleNode, Return, At, TMemory
    <2>4. CASE UNCHANGED result
        BY <1>0, <2>4 DEF TMemory
    <2>5. \/ StopNode(n) \/ DenyNode(n) \/ SettleNode(n) \/ UNCHANGED result
        BY DEF RunNode, QueueNode, NoPathEnforcement, BeginAttempt, PrepareFails, Reserve,
               BudgetExhausted, Admit, StartChild, NoExecutor, ChildEnds, EvaluateGate, GateFails,
               StartItem, EndItem, EndBatch, RecordTerminal, PublishArtifact, ChargeNode, Throw
    <2> QED BY <2>1, <2>2, <2>3, <2>4, <2>5
<1>6. tries' \in [Nodes -> 0..MaxAttempts]
    <2>1. CASE BeginAttempt(n)
        <3>1. tries[n] \in 0..MaxAttempts /\ ~(tries[n] >= MaxAttempts)
            BY <1>0, <2>1 DEF BeginAttempt, Stops, TMemory
        <3>2. tries[n] + 1 \in 0..MaxAttempts
            BY <3>1, NumbersAssumption
        <3> QED BY <1>0, <2>1, <3>2 DEF BeginAttempt, TMemory
    <2>2. CASE UNCHANGED tries
        BY <1>0, <2>2 DEF TMemory
    <2>3. BeginAttempt(n) \/ UNCHANGED tries
        BY DEF RunNode, QueueNode, StopNode, DenyNode, NoPathEnforcement, PrepareFails, Reserve,
               BudgetExhausted, Admit, StartChild, NoExecutor, ChildEnds, EvaluateGate, GateFails,
               StartItem, EndItem, EndBatch, RecordTerminal, PublishArtifact, ChargeNode, Throw,
               SettleNode
    <2> QED BY <2>1, <2>2, <2>3
<1>7. node' \in [Nodes -> [status : NodeStatus, outcome : TerminalRun \union {None}]]
    <2>1. node[n].outcome \in TerminalRun \union {None}
        BY <1>0 DEF TDurable
    <2>2. CASE QueueNode(n)
        BY <1>0, <2>2, SetsNode DEF QueueNode, NodeStatus, TDurable
    <2>3. CASE Admit(n)
        BY <1>0, <2>1, <2>3, SetsNode DEF Admit, NodeStatus
    <2>4. CASE EvaluateGate(n)
        <3>1. PICK s \in {"running", "failed"} : SetNode(n, s, node[n].outcome)
            BY <2>4 DEF EvaluateGate
        <3>2. s \in NodeStatus
            BY DEF NodeStatus, TerminalRun
        <3> QED BY <1>0, <2>1, <3>1, <3>2, SetsNode
    <2>5. CASE SettleNode(n)
        <3>1. SettledOutcome(end[n]) \in TerminalRun
            BY <1>4, <2>5 DEF SettleNode, At
        <3>2. SetNode(n, SettledOutcome(end[n]), SettledOutcome(end[n]))
            BY <2>5 DEF SettleNode
        <3>3. SettledOutcome(end[n]) \in NodeStatus
            BY <3>1 DEF NodeStatus
        <3> QED BY <1>0, <3>1, <3>2, <3>3, SetsNode
    <2>6. CASE UNCHANGED node
        BY <1>0, <2>6 DEF TDurable
    <2>7. \/ QueueNode(n) \/ Admit(n) \/ EvaluateGate(n) \/ SettleNode(n) \/ UNCHANGED node
        BY DEF RunNode, StopNode, DenyNode, NoPathEnforcement, BeginAttempt, PrepareFails, Reserve,
               BudgetExhausted, StartChild, NoExecutor, ChildEnds, GateFails,
               StartItem, EndItem, EndBatch, RecordTerminal, PublishArtifact, ChargeNode, Throw, durable
    <2> QED BY <2>2, <2>3, <2>4, <2>5, <2>6, <2>7
<1>8. item' \in [Nodes -> Items]
    <2>0. item[n] \in Items /\ item[n].used \in 0..ItemAttempts
        BY <1>0 DEF TDurable, Items
    <2>1. CASE StartItem(n)
        <3>1. item[n].used + 1 \in 0..ItemAttempts
            <4>1. item[n].used \in 0..ItemAttempts /\ item[n].used < ItemAttempts
                BY <2>0, <2>1 DEF StartItem, ItemLeft
            <4> QED BY <4>1, NumbersAssumption
        <3>2. [used |-> item[n].used + 1, auth |-> FALSE, status |-> "running"] \in Items
            BY <3>1 DEF Items
        <3>3. item' = [item EXCEPT ![n] = [used |-> item[n].used + 1, auth |-> FALSE, status |-> "running"]]
            BY <2>1 DEF StartItem
        <3> QED BY <1>0, <3>2, <3>3 DEF TDurable
    <2>2. CASE EndItem(n)
        <3>1. PICK s \in {"succeeded", "failed"}, a \in BOOLEAN :
                  item' = [item EXCEPT ![n].status = s, ![n].auth = a]
            BY <2>2 DEF EndItem
        <3>2. [item[n] EXCEPT !.status = s, !.auth = a] \in Items
            BY <2>0 DEF Items
        <3>3. item' = [item EXCEPT ![n] = [item[n] EXCEPT !.status = s, !.auth = a]]
            BY <1>0, <3>1 DEF TDurable
        <3> QED BY <1>0, <3>2, <3>3 DEF TDurable
    <2>3. CASE UNCHANGED item
        BY <1>0, <2>3 DEF TDurable
    <2>4. StartItem(n) \/ EndItem(n) \/ UNCHANGED item
        BY DEF RunNode, QueueNode, StopNode, DenyNode, NoPathEnforcement, BeginAttempt, PrepareFails,
               Reserve, BudgetExhausted, Admit, StartChild, NoExecutor, ChildEnds, EvaluateGate,
               GateFails, EndBatch, RecordTerminal, PublishArtifact, ChargeNode, Throw,
               SettleNode, durable
    <2> QED BY <2>1, <2>2, <2>3, <2>4
<1>9. known' \subseteq ({"paused", "approved", "stopping", "requeued", "artifact"}
                       \X (Nodes \union {None}))
    <2>1. CASE PublishArtifact(n)
        BY <1>0, <2>1 DEF PublishArtifact, TDurable
    <2>2. PublishArtifact(n) \/ UNCHANGED known
        BY DEF RunNode, QueueNode, StopNode, DenyNode, NoPathEnforcement, BeginAttempt, PrepareFails,
               Reserve, BudgetExhausted, Admit, StartChild, NoExecutor, ChildEnds, EvaluateGate,
               GateFails, StartItem, EndItem, EndBatch, RecordTerminal, ChargeNode, Throw,
               SettleNode, durable
    <2> QED BY <1>0, <2>1, <2>2 DEF TDurable
<1>10. atts' \in [Nodes -> Seq(Attempts)]
    <2>1. CASE Admit(n)
        <3>1. CurrentResv(n) \in Nat
            BY <2>1, Current DEF Admit, At, HasReservation
        <3> QED BY <1>0, <2>1, <3>1, Admits
    <2>2. CASE StartChild(n) \/ StartItem(n) \/ EndItem(n) \/ RecordTerminal(n)
        <3>1. Latest(n) \in DOMAIN atts[n]
            BY <2>2, Current DEF StartChild, StartItem, EndItem, RecordTerminal, At, HasAttempt
        <3>2. RecordTerminal(n) => end[n].outcome # None
            BY DEF RunInv, AtStep, RecordTerminal, At
        <3>3. PICK x \in Attempts : atts' = [atts EXCEPT ![n][Latest(n)] = x]
            BY <1>0, <2>2, <3>1, <3>2, StartsMarks, ItemMarks, TerminalMarks
        <3> QED BY <1>0, <3>1, <3>3, Marks
    <2>3. CASE UNCHANGED atts
        BY <1>0, <2>3 DEF TDurable
    <2>4. \/ Admit(n) \/ StartChild(n) \/ StartItem(n) \/ EndItem(n) \/ RecordTerminal(n)
          \/ UNCHANGED atts
        BY DEF RunNode, QueueNode, StopNode, DenyNode, NoPathEnforcement, BeginAttempt, PrepareFails,
               Reserve, BudgetExhausted, NoExecutor, ChildEnds, EvaluateGate,
               GateFails, EndBatch, PublishArtifact, ChargeNode, Throw, SettleNode, durable
    <2> QED BY <2>1, <2>2, <2>3, <2>4
<1>11. resv' \in [Nodes -> Seq(Reservations)] /\ TReuse'
    <2>1. CASE PrepareFails(n)
        <3>1. reuse' \in [Nodes -> Nat] /\ reuse'[n] = 0 /\ \A m \in Nodes : m # n => reuse'[m] = reuse[m]
            BY <1>0, <2>1 DEF PrepareFails, TReuse
        <3>2. CASE reuse[n] = 0
            BY <1>0, <2>1, <3>1, <3>2 DEF PrepareFails, TReuse, TDurable
        <3>3. CASE reuse[n] # 0
            <4>1. reuse[n] \in DOMAIN resv[n]
                BY <1>0, <3>3 DEF TReuse
            <4>2. resv[n][reuse[n]].worst \in Nat
                BY <1>0, <4>1, Entries DEF Reservations
            <4>3. Charge(n, reuse[n], resv[n][reuse[n]].worst)
                BY <2>1, <3>3 DEF PrepareFails, ChargeAll
            <4>4. resv' \in [Nodes -> Seq(Reservations)] /\ \A m \in Nodes : m # n => resv'[m] = resv[m]
                BY <1>0, <4>1, <4>2, <4>3, Settles
            <4> QED BY <1>0, <3>1, <4>4 DEF TReuse
        <3> QED BY <3>2, <3>3
    <2>2. CASE Reserve(n)
        <3>1. UNCHANGED reuse
            BY <2>2 DEF Reserve
        <3>2. CASE reuse[n] # 0
            BY <1>0, <2>2, <3>1, <3>2 DEF Reserve, TReuse, TDurable
        <3>3. CASE reuse[n] = 0
            <4>1. /\ resv' \in [Nodes -> Seq(Reservations)]
                  /\ \A m \in Nodes : m # n => resv'[m] = resv[m]
                BY <1>0, <2>2, <3>3, Reserves
            <4> QED BY <1>0, <3>1, <3>3, <4>1 DEF TReuse
        <3> QED BY <3>2, <3>3
    <2>3. CASE ChargeNode(n)
        <3>1. reuse' \in [Nodes -> Nat] /\ reuse'[n] = 0 /\ \A m \in Nodes : m # n => reuse'[m] = reuse[m]
            BY <1>0, <2>3 DEF ChargeNode, TReuse
        <3>2. CurrentResv(n) \in DOMAIN resv[n] /\ resv[n][CurrentResv(n)] \in Reservations
            BY <2>3, Current DEF ChargeNode, At, HasReservation, HasAttempt
        <3>3. item[n].used \in Nat
            BY <1>0, WorstType DEF TDurable
        <3>4. Charged(n) \in Nat
            BY <3>2, <3>3 DEF Charged, Usage, BatchUsage, Reservations
        <3>5. Charge(n, CurrentResv(n), Charged(n))
            BY <2>3 DEF ChargeNode
        <3>6. resv' \in [Nodes -> Seq(Reservations)] /\ \A m \in Nodes : m # n => resv'[m] = resv[m]
            BY <1>0, <3>2, <3>4, <3>5, Settles
        <3> QED BY <1>0, <3>1, <3>6 DEF TReuse
    <2>4. CASE UNCHANGED <<resv, reuse>>
        BY <1>0, <2>4 DEF TReuse, TDurable
    <2>5. PrepareFails(n) \/ Reserve(n) \/ ChargeNode(n) \/ UNCHANGED <<resv, reuse>>
        BY DEF RunNode, QueueNode, StopNode, DenyNode, NoPathEnforcement, BeginAttempt,
               BudgetExhausted, Admit, StartChild, NoExecutor, ChildEnds, EvaluateGate,
               GateFails, StartItem, EndItem, EndBatch, RecordTerminal, PublishArtifact, Throw,
               SettleNode, durable
    <2> QED BY <2>1, <2>2, <2>3, <2>4, <2>5
<1>12. TDurable' /\ TMemory'
    BY <1>1, <1>2, <1>3, <1>5, <1>6, <1>7, <1>8, <1>9, <1>10, <1>11 DEF TDurable, TMemory
<1> QED BY <1>3, <1>11, <1>12, TypeParts

\* Each step keeps the types.
LEMMA TypeStep == ASSUME RunInv, [Next]_vars PROVE TypeOK'
<1>1. CASE UNCHANGED vars
    BY <1>1 DEF RunInv, TypeOK, vars, durable, memory, signals
<1>2. CASE Next
    BY <1>2, ControlTypes, RecoveryTypes, RunTypes DEF Next, Control, Recover
<1> QED BY <1>1, <1>2

-----------------------------------------------------------------------------
(* What stays as it is.                                                    *)

\* Nothing of node m changes.
Untouched(m) ==
    /\ node'[m] = node[m] /\ atts'[m] = atts[m] /\ resv'[m] = resv[m] /\ item'[m] = item[m]
    /\ pc'[m] = pc[m] /\ tries'[m] = tries[m] /\ reuse'[m] = reuse[m] /\ end'[m] = end[m]

\* A step of #runNode concerns one node.
LEMMA RunUntouched ==
    ASSUME TypeOK, NEW n \in Nodes, RunNode(n), NEW m \in Nodes, m # n
    PROVE  Untouched(m)
<1>0. TDurable /\ TMemory /\ TReuse
    BY TypeParts
<1>1. node'[m] = node[m] /\ item'[m] = item[m]
    BY <1>0 DEF TDurable, SetNode, durable, RunNode, QueueNode, StopNode, DenyNode,
       NoPathEnforcement, BeginAttempt, PrepareFails, Reserve, BudgetExhausted, Admit, StartChild,
       NoExecutor, ChildEnds, EvaluateGate, GateFails, StartItem, EndItem, EndBatch, RecordTerminal,
       PublishArtifact, ChargeNode, Throw, SettleNode
<1>2. atts'[m] = atts[m]
    BY <1>0 DEF TDurable, durable, RunNode, QueueNode, StopNode, DenyNode,
       NoPathEnforcement, BeginAttempt, PrepareFails, Reserve, BudgetExhausted, Admit, StartChild,
       NoExecutor, ChildEnds, EvaluateGate, GateFails, StartItem, EndItem, EndBatch, RecordTerminal,
       PublishArtifact, ChargeNode, Throw, SettleNode
<1>3. resv'[m] = resv[m]
    BY <1>0 DEF TDurable, durable, RunNode, QueueNode, StopNode, DenyNode, Charge, ChargeAll,
       NoPathEnforcement, BeginAttempt, PrepareFails, Reserve, BudgetExhausted, Admit, StartChild,
       NoExecutor, ChildEnds, EvaluateGate, GateFails, StartItem, EndItem, EndBatch, RecordTerminal,
       PublishArtifact, ChargeNode, Throw, SettleNode
<1>4. pc'[m] = pc[m]
    BY RunSteps, StepsNode
<1>5. tries'[m] = tries[m] /\ reuse'[m] = reuse[m]
    BY <1>0 DEF TMemory, TReuse, RunNode, QueueNode, StopNode, DenyNode,
       NoPathEnforcement, BeginAttempt, PrepareFails, Reserve, BudgetExhausted, Admit, StartChild,
       NoExecutor, ChildEnds, EvaluateGate, GateFails, StartItem, EndItem, EndBatch, RecordTerminal,
       PublishArtifact, ChargeNode, Throw, SettleNode
<1>6. end'[m] = end[m]
    BY <1>0 DEF TMemory, SettleWithout, RunNode, QueueNode, StopNode, DenyNode,
       NoPathEnforcement, BeginAttempt, PrepareFails, Reserve, BudgetExhausted, Admit, StartChild,
       NoExecutor, ChildEnds, EvaluateGate, GateFails, StartItem, EndItem, EndBatch, RecordTerminal,
       PublishArtifact, ChargeNode, Throw, SettleNode
<1> QED BY <1>1, <1>2, <1>3, <1>4, <1>5, <1>6 DEF Untouched

\* Where execute() is, as far as node m is concerned: no recovery begins.
Onward(m) ==
    \/ phase' = phase /\ UNCHANGED <<todo, left>>
    \/ phase = "opened" /\ phase' = "refund"
    \/ phase = "recover" /\ phase' = "recover" /\ ~Turn(m) /\ ~Turn(m)' /\ todo' = todo
    \/ /\ phase # "down" /\ phase' \notin {"down", "opened", "refund", "recover"}
       /\ Turn(m) => left = {}
       /\ phase' \in {"wave", "thrown"} \/ phase \notin {"wave", "thrown"} \/ pc[m] \in {"idle", "done"}

\* What is said of a node.
NodeInv(n) == /\ AtStep(n) /\ AtStatus(n) /\ Replays(n) /\ Counted(n)
              /\ Referred(n) /\ Kept(n) /\ Paying(n)

\* What the invariant reads of a node is the same when its rows are.
LEMMA UntouchedIs ==
    ASSUME NEW m, Untouched(m)
    PROVE  /\ Last(m)' = Last(m) /\ Latest(m)' = Latest(m) /\ Started(m)' = Started(m) /\ CurrentResv(m)' = CurrentResv(m)
           /\ Proved(m)' = Proved(m) /\ Completed(m)' = Completed(m) /\ Done(m)' = Done(m)
           /\ Starts(m)' = Starts(m) /\ PreparedBatch(m)' = PreparedBatch(m)
           /\ \A k : Owned(m, k)' = Owned(m, k) /\ Touched(m, k)' = Touched(m, k)
           /\ \A k : Paid(m, k)' = Paid(m, k)
<1>1. Started(m)' = Started(m)
    BY DEF Untouched, Started
<1>2. \A k : Touched(m, k)' = Touched(m, k)
    BY DEF Untouched, Touched
<1>3. \A k : Owned(m, k)' = Owned(m, k)
    BY DEF Untouched, Owned
<1>4. \A k : Paid(m, k)' = Paid(m, k)
    BY PaidIs DEF Untouched, PaidIn, Share, TouchedIn, Paid, Touched
<1>5. Latest(m)' = Latest(m)  /\ Last(m)' = Last(m) /\ CurrentResv(m)' = CurrentResv(m)
    BY DEF Untouched, Latest, Last, CurrentResv
<1>6. Starts(m)' = Starts(m)
    BY <1>1 DEF Untouched, Starts
<1>7. PreparedBatch(m)' = PreparedBatch(m)
    BY DEF Untouched, PreparedBatch
<1>8. Proved(m)' = Proved(m) 
    BY DEF Untouched, Proved
<1>9. Completed(m)' = Completed(m) /\ Done(m)' = Done(m)
    BY DEF Untouched, Completed, Done
<1> QED BY <1>1, <1>2, <1>3, <1>4, <1>5, <1>6, <1>7, <1>8, <1>9

\* A node whose rows and step stay, while others may complete, keeps its invariant.
LEMMA UntouchedKeeps ==
    ASSUME RunInv, NEW m \in Nodes, Untouched(m), Onward(m),
           \A d \in Nodes : Done(d) => Done(d)'
    PROVE  NodeInv(m)'
<1>0. NodeInv(m) /\ Needs[m] \subseteq Nodes
    BY PlanAssumption DEF RunInv, NodeInv
<1>1. AtStep(m)'
    BY <1>0, UntouchedIs DEF NodeInv, AtStep, Untouched, Onward
<1>2. AtStatus(m)'
    BY <1>0, UntouchedIs DEF NodeInv, AtStatus, Untouched, Onward
<1>3. Replays(m)'
    BY <1>0, UntouchedIs DEF NodeInv, Replays, Untouched, Protected
<1>4. Counted(m)'
    BY <1>0, UntouchedIs DEF NodeInv, Counted, Untouched, Onward
<1>5. Referred(m)'
    BY <1>0, UntouchedIs DEF NodeInv, Referred, Untouched
<1>6. Kept(m)'
    BY <1>0, UntouchedIs DEF NodeInv, Kept, Untouched, Onward, Turn, Pending
<1>7. Paying(m)'
    BY <1>0, UntouchedIs DEF NodeInv, Paying, Untouched
<1> QED BY <1>1, <1>2, <1>3, <1>4, <1>5, <1>6, <1>7 DEF NodeInv

\* What a node's status is changed to by control and by #runNode.
LEMMA NodeChanges ==
    ASSUME [Next]_vars
    PROVE  \/ UNCHANGED node
           \/ \E n \in Nodes : \/ RefuseReplay(n) \/ (Requeue(n) /\ SetNode(n, "queued", None))
                               \/ (QueueNode(n) /\ SetNode(n, "queued", None))
                               \/ Admit(n) \/ EvaluateGate(n) \/ SettleNode(n)
<1>1. CASE UNCHANGED vars
    BY <1>1 DEF vars, durable
<1>2. CASE \/ Execute \/ Open \/ RefundUnadmitted \/ RefundsDone \/ RecoveryDone \/ Approve \/ DenyApproval
           \/ Begin \/ LoopCancelled \/ Pause \/ LaunchWave \/ NothingReady \/ WaveDone \/ AppendStopping
           \/ SettleRoot \/ Release \/ RequestCancel \/ RequestDurableCancel \/ PollCancel
           \/ RequestPause \/ Crash
    BY <1>2 DEF durable, Execute, Open, RefundUnadmitted, RefundsDone, RecoveryDone, Approve, DenyApproval,
       RequestApproval, Begin, LoopCancelled, Pause, LaunchWave, NothingReady, WaveDone, AppendStopping,
       SettleRoot, Release, RequestCancel, RequestDurableCancel, PollCancel, RequestPause, Crash
<1>3. ASSUME NEW n \in Nodes, \E i \in left : KeepBatch(n, i) \/ InterruptChild(n, i) \/ SettleAttempt(n, i)
      PROVE  UNCHANGED node
    BY <1>3 DEF KeepBatch, InterruptChild, SettleAttempt
<1>4. ASSUME NEW n \in Nodes, Requeue(n) PROVE UNCHANGED node \/ SetNode(n, "queued", None)
    BY <1>4 DEF Requeue
<1>5. ASSUME NEW n \in Nodes, RunNode(n)
      PROVE  \/ UNCHANGED node \/ (QueueNode(n) /\ SetNode(n, "queued", None))
             \/ Admit(n) \/ EvaluateGate(n) \/ SettleNode(n)
    BY <1>5 DEF durable, RunNode, QueueNode, StopNode, DenyNode,
       NoPathEnforcement, BeginAttempt, PrepareFails, Reserve, BudgetExhausted, StartChild,
       NoExecutor, ChildEnds, GateFails, StartItem, EndItem, EndBatch, RecordTerminal,
       PublishArtifact, ChargeNode, Throw
<1> QED BY <1>1, <1>2, <1>3, <1>4, <1>5 DEF Next, Control, Recover

\* What has completed stays completed.
LEMMA DoneStays ==
    ASSUME RunInv, [Next]_vars
    PROVE  \A d \in Nodes : Done(d) => Done(d)'
<1>0. TypeOK
    BY DEF RunInv
<1>1. SUFFICES ASSUME NEW d \in Nodes, Done(d) PROVE Done(d)'
    OBVIOUS
<1>2. CASE UNCHANGED node
    BY <1>1, <1>2 DEF Done
<1>3. ASSUME NEW n \in Nodes, NEW s \in NodeStatus, NEW o \in TerminalRun \union {None},
             SetNode(n, s, o), ~Done(n) \/ o = node[n].outcome
      PROVE  Done(d)'
    BY <1>0, <1>1, <1>3, SetsNode DEF Done
<1>4. ASSUME NEW n \in Nodes, RefuseReplay(n) \/ Requeue(n) PROVE ~Done(n)
    <2>1. phase = "recover" /\ n \in todo
        BY <1>4 DEF RefuseReplay, Requeue, Recovered, Leads
    <2> QED BY <2>1 DEF RunInv, AtStatus, Done, None
<1>5. ASSUME NEW n \in Nodes, QueueNode(n) \/ SettleNode(n) PROVE ~Done(n)
    <2>1. pc[n] \notin {"idle", "done"}
        BY <1>5 DEF QueueNode, SettleNode, At
    <2> QED BY <2>1 DEF RunInv, AtStep, Done, None
<1>6. {"queued", "interrupted", "running", "failed"} \subseteq NodeStatus /\ "interrupted" \in TerminalRun
    BY DEF NodeStatus, TerminalRun
<1>7. ASSUME NEW n \in Nodes, RefuseReplay(n) PROVE Done(d)'
    BY <1>3, <1>4, <1>6, <1>7 DEF RefuseReplay
<1>8. ASSUME NEW n \in Nodes, Requeue(n) \/ QueueNode(n), SetNode(n, "queued", None) PROVE Done(d)'
    BY <1>3, <1>4, <1>5, <1>6, <1>8
<1>9. ASSUME NEW n \in Nodes, Admit(n) \/ EvaluateGate(n) PROVE Done(d)'
    <2>1. PICK s \in {"running", "failed"} : SetNode(n, s, node[n].outcome)
        BY <1>9 DEF Admit, EvaluateGate
    <2>2. node[n].outcome \in TerminalRun \union {None}
        BY <1>0 DEF TypeOK
    <2> QED BY <1>3, <1>6, <2>1, <2>2
<1>10. ASSUME NEW n \in Nodes, SettleNode(n) PROVE Done(d)'
    <2>1. SettledOutcome(end[n]) \in TerminalRun
        BY <1>0, <1>10, SettledType DEF RunInv, AtStep, TypeOK, SettleNode, At
    <2>2. SettledOutcome(end[n]) \in NodeStatus
        BY <2>1 DEF NodeStatus
    <2> QED BY <1>3, <1>5, <1>10, <2>1, <2>2 DEF SettleNode
<1> QED BY <1>2, <1>7, <1>8, <1>9, <1>10, NodeChanges

\* execute() ends: what is said of a node is what the journal says.
LEMMA LeaveKeeps ==
    ASSUME RunInv, Leave, UNCHANGED <<node, atts, resv, item>>, NEW m \in Nodes
    PROVE  NodeInv(m)'
<1>0. NodeInv(m) /\ TypeOK /\ Needs[m] \subseteq Nodes
    BY PlanAssumption DEF RunInv, NodeInv
<1>1. phase' = "down" /\ pc'[m] = "idle" /\ reuse'[m] = 0
    BY DEF Leave, All
<1>2. /\ Started(m)' = Started(m) /\ Completed(m)' = Completed(m) /\ Starts(m)' = Starts(m)
      /\ (\A d \in Nodes : Done(d)' = Done(d)) /\ \A k : Owned(m, k)' = Owned(m, k)
    BY DEF Started, Completed, Starts, Done, Owned
<1>3. (\A k : Touched(m, k)' = Touched(m, k)) /\ \A k : Paid(m, k)' = Paid(m, k)
    BY DEF Touched, Paid
<1>4. AtStep(m)' /\ AtStatus(m)'
    BY <1>0, <1>1, <1>2 DEF NodeInv, AtStep, AtStatus, HasReservation, HasAttempt
<1>5. Replays(m)' /\ Counted(m)'
    BY <1>0, <1>1, <1>2 DEF NodeInv, Replays, Protected, Counted
<1>6. Referred(m)'
    BY <1>0, <1>1, <1>2 DEF NodeInv, Referred
<1>7. Kept(m)'
    BY <1>0, <1>1, <1>2 DEF NodeInv, Kept, Turn
<1>8. Paying(m)'
    BY <1>0, <1>1, <1>2, <1>3 DEF NodeInv, Paying
<1> QED BY <1>4, <1>5, <1>6, <1>7, <1>8 DEF NodeInv

-----------------------------------------------------------------------------
(* Control.                                                                *)

\* Steps that leave every node as it is.
LEMMA MovesKeep ==
    ASSUME RunInv, NEW m \in Nodes,
           \/ Open \/ RecoveryDone \/ Approve \/ Begin \/ LoopCancelled \/ NothingReady \/ AppendStopping
           \/ WaveDone /\ ~RequestApproval
           \/ RequestCancel \/ RequestDurableCancel \/ PollCancel \/ RequestPause
    PROVE  NodeInv(m)'
<1>0. phase \in Phases
    BY DEF RunInv, TypeOK
<1>1. UNCHANGED <<node, atts, resv, item, todo, left, pc, tries, reuse, end>>
    BY DEF Open, RecoveryDone, Approve, Begin, LoopCancelled, NothingReady, AppendStopping, WaveDone,
       RequestCancel, RequestDurableCancel, PollCancel, RequestPause, PollThen, Goto, EndRoot,
       durable, memory
<1>2. Untouched(m) /\ \A d \in Nodes : Done(d) => Done(d)'
    BY <1>1 DEF Untouched, Done
<1>3. Onward(m)
    <2>1. CASE Open
        BY <2>1 DEF Open, PollThen, Goto, Onward, Turn
    <2>2. CASE RecoveryDone
        BY <2>2 DEF RecoveryDone, PollThen, Goto, Onward, Turn, Leads
    <2>3. CASE Approve \/ Begin \/ LoopCancelled
        BY <2>3 DEF Approve, Begin, LoopCancelled, PollThen, Goto, Onward, Turn
    <2>4. CASE NothingReady \/ AppendStopping
        BY <2>4 DEF NothingReady, LoopGoesOn, AppendStopping, EndRoot, Onward, Turn
    <2>5. CASE WaveDone /\ ~RequestApproval
        BY <2>5 DEF WaveDone, Goto, EndRoot, Onward, Turn
    <2>6. CASE RequestCancel \/ RequestDurableCancel \/ PollCancel \/ RequestPause
        BY <2>6 DEF RequestCancel, RequestDurableCancel, PollCancel, RequestPause, memory, Onward
    <2> QED BY <2>1, <2>2, <2>3, <2>4, <2>5, <2>6
<1> QED BY <1>2, <1>3, UntouchedKeeps

\* Steps with which execute() ends.
LEMMA ExitsKeep ==
    ASSUME RunInv, NEW m \in Nodes,
           \/ DenyApproval \/ RequestApproval \/ Pause \/ SettleRoot \/ Release \/ Crash
    PROVE  NodeInv(m)'
<1>1. Leave /\ UNCHANGED <<node, atts, resv, item>>
    BY DEF DenyApproval, RequestApproval, Pause, SettleRoot, Release, Crash, durable
<1> QED BY <1>1, LeaveKeeps

\* A process takes the run over.
LEMMA ExecuteKeeps ==
    ASSUME RunInv, NEW m \in Nodes, Execute
    PROVE  NodeInv(m)'
<1>0. NodeInv(m) /\ TypeOK /\ Needs[m] \subseteq Nodes
    BY PlanAssumption DEF RunInv, NodeInv
<1>1. /\ phase = "down" /\ phase' = "opened" /\ tries'[m] = PhysicalAttempts(m)
      /\ UNCHANGED <<node, atts, resv, item, todo, left, pc, reuse, end>>
    BY DEF Execute
<1>2. /\ Started(m)' = Started(m) /\ Completed(m)' = Completed(m) /\ Starts(m)' = Starts(m)
      /\ (\A d \in Nodes : Done(d)' = Done(d)) /\ \A k : Owned(m, k)' = Owned(m, k)
      /\ CurrentResv(m)' = CurrentResv(m) /\ Last(m)' = Last(m)
      /\ PreparedBatch(m)' = PreparedBatch(m) /\ Latest(m)' = Latest(m) /\ Proved(m)' = Proved(m)
    BY <1>1 DEF Started, Completed, Starts, Done, Owned, CurrentResv, Last, Latest, PreparedBatch, Proved
<1>3. (\A k : Touched(m, k)' = Touched(m, k)) /\ \A k : Paid(m, k)' = Paid(m, k)
    BY <1>1 DEF Touched, Paid
<1>4. AtStep(m)' /\ AtStatus(m)'
    BY <1>0, <1>1, <1>2 DEF NodeInv, AtStep, AtStatus
<1>5. Replays(m)'
    BY <1>0, <1>1, <1>2 DEF NodeInv, Replays, Protected
<1>6. Counted(m)'
    <2>1. pc[m] \in {"idle", "done"}
        BY <1>0, <1>1 DEF NodeInv, AtStep
    <2>2. Kind[m] = "agent" => Cardinality(Started(m)) \in Nat /\ tries'[m] = Cardinality(Started(m))
        BY <1>0, <1>1, StartedFinite DEF PhysicalAttempts
    <2> QED BY <1>0, <1>1, <1>2, <2>1, <2>2 DEF NodeInv, Counted
<1>7. Referred(m)' /\ Kept(m)'
    BY <1>0, <1>1, <1>2 DEF NodeInv, Referred, Kept, Turn
<1>8. Paying(m)'
    BY <1>0, <1>1, <1>2, <1>3 DEF NodeInv, Paying
<1> QED BY <1>4, <1>5, <1>6, <1>7, <1>8 DEF NodeInv

\* A wave of nodes that are ready.
LEMMA LaunchKeeps ==
    ASSUME RunInv, NEW m \in Nodes, LaunchWave
    PROVE  NodeInv(m)'
<1>0. NodeInv(m) /\ TypeOK /\ Needs[m] \subseteq Nodes
    BY PlanAssumption DEF RunInv, NodeInv
<1>1. /\ phase = "loop" /\ phase' = "wave" /\ pc'[m] = (IF m \in Ready THEN "queue" ELSE "idle")
      /\ UNCHANGED <<node, atts, resv, item, todo, left, tries, reuse>>
    BY DEF LaunchWave, LoopGoesOn, durable
<1>2. /\ Started(m)' = Started(m) /\ Completed(m)' = Completed(m) /\ Starts(m)' = Starts(m)
      /\ (\A d \in Nodes : Done(d)' = Done(d)) /\ \A k : Owned(m, k)' = Owned(m, k)
      /\ Proved(m)' = Proved(m)
    BY <1>1 DEF Started, Completed, Starts, Done, Owned, Proved
<1>3. (\A k : Touched(m, k)' = Touched(m, k)) /\ \A k : Paid(m, k)' = Paid(m, k)
    BY <1>1 DEF Touched, Paid
<1>4. AtStep(m)' /\ AtStatus(m)'
    BY <1>0, <1>1, <1>2 DEF NodeInv, AtStep, AtStatus, HasReservation, HasAttempt, Ready
<1>5. Replays(m)'
    <2>1. Protected(m) /\ m \in Ready => atts[m] = <<>>
        BY <1>0 DEF NodeInv, AtStatus, Replays, Protected, Ready
    <2>2. Protected(m) /\ m \in Ready => Proved(m)
        BY <2>1 DEF Proved
    <2> QED BY <1>0, <1>1, <1>2, <2>2 DEF NodeInv, Replays, Protected
<1>6. Counted(m)'
    BY <1>0, <1>1, <1>2 DEF NodeInv, Counted
<1>7. Referred(m)' /\ Kept(m)'
    BY <1>0, <1>1, <1>2 DEF NodeInv, Referred, Kept, Turn, Pending
<1>8. Paying(m)'
    BY <1>0, <1>1, <1>2, <1>3 DEF NodeInv, Paying
<1> QED BY <1>4, <1>5, <1>6, <1>7, <1>8 DEF NodeInv

-----------------------------------------------------------------------------
(* Settling a reservation.                                                 *)

\* What was paid is a natural number.
LEMMA PaidNat ==
    ASSUME TypeOK, NEW n \in Nodes, NEW l
    PROVE  Paid(n, l) \in Nat
<1>1. resv[n] \in Seq(Reservations)
    BY DEF TypeOK
<1> QED BY <1>1, PaidIs, PaidType

\* What is paid up to a later reservation is no less.
LEMMA PaidUpTo ==
    ASSUME TypeOK, NEW n \in Nodes, NEW k \in Int, NEW l \in Int, k <= l
    PROVE  Paid(n, k) <= Paid(n, l)
<1>1. resv[n] \in Seq(Reservations)
    BY DEF TypeOK
<1> PICK a : a = atts[n]
    OBVIOUS
<1> PICK r \in Seq(Reservations) : r = resv[n]
    BY <1>1
<1>2. \A j \in DOMAIN r : Spent(r[j]) \in Nat
    BY SeqFacts, SpentType
<1>3. PaidIn(a, r, k) <= PaidIn(a, r, l)
    BY <1>2, PaidGrows
<1> QED BY <1>3, PaidIs

\* When a reservation is charged or refunded the node's other rows stay, and
\* no less is paid unless the row was touched and is charged less than was reserved.
LEMMA SettlesRow ==
    ASSUME TypeOK, NEW n \in Nodes, NEW k \in DOMAIN resv[n], Owned(n, k), NEW u \in Nat,
           Charge(n, k, u) \/ Refund(n, k), atts'[n] = atts[n]
    PROVE  /\ \A j : Touched(n, j)' = Touched(n, j) /\ (Owned(n, j)' <=> Owned(n, j) /\ j # k)
           /\ DOMAIN resv'[n] = DOMAIN resv[n] /\ Len(resv'[n]) = Len(resv[n])
           /\ \A j \in DOMAIN resv[n] : j # k => resv'[n][j] = resv[n][j]
           /\ resv'[n][k].worst = resv[n][k].worst
           /\ Charge(n, k, u) => resv'[n][k].state = "consumed" /\ resv'[n][k].used = u
           /\ \A l \in Int : l < k \/ ~Touched(n, k) \/ (Charge(n, k, u) /\ u >= resv[n][k].worst)
                 => Paid(n, l) <= Paid(n, l)'
           /\ \A l : Paid(n, l) \in Nat /\ Paid(n, l)' \in Nat
           /\ Charge(n, k, u) /\ Touched(n, k) => u <= Paid(n, Len(resv[n]))'
<1>1. /\ resv' \in [Nodes -> Seq(Reservations)]
      /\ DOMAIN resv'[n] = DOMAIN resv[n] /\ Len(resv'[n]) = Len(resv[n])
      /\ \A j \in DOMAIN resv[n] : j # k => resv'[n][j] = resv[n][j]
      /\ resv'[n][k].worst = resv[n][k].worst /\ resv'[n][k].state # "reserved"
      /\ Charge(n, k, u) => resv'[n][k].state = "consumed" /\ resv'[n][k].used = u
    BY Settles
<1>2. \A j : Touched(n, j)' = Touched(n, j) /\ (Owned(n, j)' <=> Owned(n, j) /\ j # k)
    BY <1>1 DEF Touched, Owned
<1>3. resv[n] \in Seq(Reservations) /\ resv'[n] \in Seq(Reservations) /\ resv[n][k].state = "reserved"
    BY <1>1 DEF TypeOK, Owned
<1> PICK a : a = atts[n]
    OBVIOUS
<1> PICK r \in Seq(Reservations) : r = resv[n]
    BY <1>3
<1> PICK s \in Seq(Reservations) : s = resv'[n]
    BY <1>3
<1>4. /\ \A j : Touched(n, j) = TouchedIn(a, j)
      /\ \A l : Paid(n, l) = PaidIn(a, r, l) /\ Paid(n, l)' = PaidIn(a, s, l)
    BY PaidIs, PaidIsNext
<1>5. /\ DOMAIN s = DOMAIN r /\ DOMAIN r \subseteq Int /\ Len(s) = Len(r) /\ k \in DOMAIN r
      /\ \A j \in DOMAIN r : Spent(r[j]) \in Nat /\ Spent(s[j]) \in Nat
      /\ \A j \in DOMAIN r : j # k => Spent(s[j]) = Spent(r[j])
    BY <1>1, SeqFacts, SpentType
<1>6. /\ r[k] \in Reservations /\ s[k] \in Reservations
      /\ Spent(r[k]) = resv[n][k].worst /\ (Charge(n, k, u) => Spent(s[k]) = u)
    BY <1>1, <1>3, <1>5, SeqFacts, SpentType
<1>7. r[k].worst \in Nat
    BY <1>6 DEF Reservations
<1>8. ASSUME NEW l \in Int, l < k \/ ~TouchedIn(a, k) \/ (Charge(n, k, u) /\ u >= r[k].worst)
      PROVE  PaidIn(a, r, l) <= PaidIn(a, s, l)
    <2>1. \A j \in DOMAIN r : j <= l /\ TouchedIn(a, j) => Spent(r[j]) <= Spent(s[j])
        BY <1>5, <1>6, <1>7, <1>8
    <2> QED BY <1>5, <2>1, PaidGrows
<1>9. Charge(n, k, u) /\ TouchedIn(a, k) => u <= PaidIn(a, s, Len(r))
    BY <1>5, <1>6, PaidHas
<1>10. \A l : PaidIn(a, r, l) \in Nat /\ PaidIn(a, s, l) \in Nat
    BY PaidType
<1> QED BY <1>1, <1>2, <1>4, <1>8, <1>9, <1>10

-----------------------------------------------------------------------------
(* Recovery.                                                               *)

\* A node is not run during recovery.
LEMMA NotRun ==
    ASSUME RunInv, phase \in {"refund", "recover"}, NEW n \in Nodes
    PROVE  pc[n] \in {"idle", "done"}
BY DEF RunInv, AtStep

\* Recovery settles a reservation: in full, or one that no child has used.
LEMMA RecoverySettles ==
    ASSUME RunInv, NEW n \in Nodes, NEW k \in DOMAIN resv[n], Owned(n, k), NEW u \in Nat,
           phase \in {"refund", "recover"}, phase' = phase, todo' = todo,
           Charge(n, k, u) \/ Refund(n, k),
           Charge(n, k, u) => u = resv[n][k].worst, Refund(n, k) => ~Touched(n, k),
           UNCHANGED <<node, atts, item, pc, reuse, end>>
    PROVE  AtStep(n)' /\ AtStatus(n)' /\ Replays(n)' /\ Referred(n)' /\ Paying(n)'
<1>0. /\ NodeInv(n) /\ TypeOK /\ Needs[n] \subseteq Nodes /\ pc[n] \in {"idle", "done"}
      /\ resv[n][k].worst \in Nat
    BY NotRun, PlanAssumption, Entries DEF RunInv, NodeInv, Reservations
<1>1. /\ \A j : Touched(n, j)' = Touched(n, j) /\ (Owned(n, j)' <=> Owned(n, j) /\ j # k)
      /\ DOMAIN resv'[n] = DOMAIN resv[n] /\ Len(resv'[n]) = Len(resv[n])
      /\ \A j \in DOMAIN resv[n] : j # k => resv'[n][j] = resv[n][j]
      /\ resv'[n][k].worst = resv[n][k].worst
      /\ Charge(n, k, u) => resv'[n][k].state = "consumed" /\ resv'[n][k].used = u
      /\ \A l \in Int : Paid(n, l) <= Paid(n, l)'
      /\ \A l : Paid(n, l) \in Nat /\ Paid(n, l)' \in Nat
    <2>1. /\ \A j : Touched(n, j)' = Touched(n, j) /\ (Owned(n, j)' <=> Owned(n, j) /\ j # k)
          /\ DOMAIN resv'[n] = DOMAIN resv[n] /\ Len(resv'[n]) = Len(resv[n])
          /\ \A j \in DOMAIN resv[n] : j # k => resv'[n][j] = resv[n][j]
          /\ resv'[n][k].worst = resv[n][k].worst
          /\ Charge(n, k, u) => resv'[n][k].state = "consumed" /\ resv'[n][k].used = u
        BY <1>0, SettlesRow, SMTT(30)
    <2>2. /\ \A l \in Int : l < k \/ ~Touched(n, k) \/ (Charge(n, k, u) /\ u >= resv[n][k].worst)
                => Paid(n, l) <= Paid(n, l)'
          /\ \A l : Paid(n, l) \in Nat /\ Paid(n, l)' \in Nat
        BY <1>0, SettlesRow
    <2>3. ~Touched(n, k) \/ (Charge(n, k, u) /\ u >= resv[n][k].worst)
        BY <1>0
    <2>4. \A l \in Int : Paid(n, l) <= Paid(n, l)'
        BY <2>2, <2>3
    <2> QED BY <2>1, <2>2, <2>4
<1>2. /\ Started(n)' = Started(n) /\ Completed(n)' = Completed(n) /\ Starts(n)' = Starts(n)
      /\ (\A d \in Nodes : Done(d)' = Done(d)) /\ Proved(n)' = Proved(n)
    BY DEF Started, Completed, Starts, Done, Proved
<1>3. AtStep(n)' /\ AtStatus(n)'
    BY <1>0, <1>2 DEF NodeInv, AtStep, AtStatus, HasReservation, HasAttempt
<1>4. Replays(n)'
    BY <1>0, <1>2 DEF NodeInv, Replays, Protected
<1>5. Referred(n)'
    <2>1. DOMAIN resv'[n] = DOMAIN resv[n] /\ \A j : Owned(n, j)' => Owned(n, j)
        BY <1>1
    <2> QED BY <1>0, <2>1 DEF NodeInv, Referred
<1>6. Paying(n)'
    <2>1. \A j \in DOMAIN resv'[n] : Touched(n, j)' => resv'[n][j].state # "refunded"
        BY <1>0, <1>1 DEF NodeInv, Paying
    <2>2. Starts(n)' <= Paid(n, Len(resv[n]))'
        <3>1. Starts(n) <= Paid(n, Len(resv[n])) /\ Len(resv[n]) \in Int
            BY <1>0, Entries DEF NodeInv, Paying
        <3>2. Starts(n) \in Nat
            BY <1>0, StartedFinite, WorstType DEF Starts, TypeOK
        <3>3. Paid(n, Len(resv[n])) \in Nat /\ Paid(n, Len(resv[n]))' \in Nat
            BY <1>1
        <3>4. Paid(n, Len(resv[n])) <= Paid(n, Len(resv[n]))'
            BY <1>1, <3>1
        <3> QED BY <1>2, <3>1, <3>2, <3>3, <3>4
    <2>3. Kind[n] = "agent" => \A j \in DOMAIN resv'[n] :
             resv'[n][j].worst = 1 /\ (resv'[n][j].state = "consumed" => resv'[n][j].used = 1)
        <3>1. SUFFICES ASSUME Kind[n] = "agent", NEW j \in DOMAIN resv[n]
              PROVE resv'[n][j].worst = 1 /\ (resv'[n][j].state = "consumed" => resv'[n][j].used = 1)
            BY <1>1
        <3>2. resv[n][j].worst = 1 /\ (resv[n][j].state = "consumed" => resv[n][j].used = 1)
            BY <1>0, <3>1 DEF NodeInv, Paying
        <3>3. CASE j # k
            BY <1>1, <3>2, <3>3
        <3>4. CASE j = k
            <4>1. Refund(n, k) => resv'[n][k].state = "refunded"
                BY <1>0, Settles
            <4> QED BY <1>1, <3>2, <3>4, <4>1
        <3> QED BY <3>3, <3>4
    <2>4. Kind[n] = "batch" => \A j \in DOMAIN resv'[n] : Touched(n, j)' /\ Owned(n, j)' =>
             item'[n].status = "succeeded" \/ ItemAttempts <= Paid(n, j)'
        <3>1. SUFFICES ASSUME Kind[n] = "batch", NEW j \in DOMAIN resv[n], Touched(n, j), Owned(n, j),
                              item[n].status # "succeeded"
              PROVE ItemAttempts <= Paid(n, j)'
            BY <1>1
        <3>2. ItemAttempts <= Paid(n, j) /\ j \in Int
            BY <1>0, <3>1, Entries DEF NodeInv, Paying
        <3>3. Paid(n, j) <= Paid(n, j)' /\ Paid(n, j) \in Nat /\ Paid(n, j)' \in Nat
            BY <1>1, <3>2
        <3> QED BY <3>2, <3>3, NumbersAssumption
    <2>5. pc'[n] \notin {"admit", "start", "item", "terminal", "artifact", "charge"}
        BY <1>0
    <2> QED BY <1>1, <2>1, <2>2, <2>3, <2>4, <2>5 DEF Paying
<1> QED BY <1>3, <1>4, <1>5, <1>6

\* RefundUnadmitted.
LEMMA RefundKeeps ==
    ASSUME RunInv, NEW m \in Nodes, RefundUnadmitted
    PROVE  NodeInv(m)'
<1>0. TypeOK /\ NodeInv(m)
    BY DEF RunInv, NodeInv
<1>1. PICK n \in Nodes : \E k \in DOMAIN resv[n] : Owned(n, k) /\ ~Admitted(n, k) /\ Refund(n, k)
    BY DEF RefundUnadmitted
<1>2. PICK k \in DOMAIN resv[n] : Owned(n, k) /\ ~Admitted(n, k) /\ Refund(n, k)
    BY <1>1
<1>3. /\ phase = "refund" /\ phase' = phase
      /\ UNCHANGED <<node, atts, item, pc, reuse, end, todo, left, tries>>
    BY DEF RefundUnadmitted, memory
<1>4. CASE m # n
    <2>1. resv'[m] = resv[m]
        BY <1>0, <1>2, <1>4, Settles
    <2>2. Untouched(m) /\ Onward(m) /\ \A d \in Nodes : Done(d) => Done(d)'
        BY <1>3, <2>1 DEF Untouched, Onward, Done
    <2> QED BY <2>2, UntouchedKeeps
<1>5. CASE m = n
    <2>1. ~Touched(n, k)
        BY <1>2 DEF Admitted, Touched
    <2>2. ~Charge(n, k, 0)
        <3>1. Refund(n, k) => resv'[n][k].state = "refunded"
            BY <1>0, <1>2, Settles
        <3>2. Charge(n, k, 0) => resv'[n][k].state = "consumed"
            BY <1>0, Settles
        <3> QED BY <1>2, <3>1, <3>2
    <2>3. AtStep(n)' /\ AtStatus(n)' /\ Replays(n)' /\ Referred(n)' /\ Paying(n)'
        BY <1>2, <1>3, <2>1, <2>2, RecoverySettles
    <2>4. Counted(n)'
        BY <1>0, <1>3, <1>5 DEF NodeInv, Counted, Started
    <2>5. Kept(n)'
        <3>1. reuse[n] = 0 /\ ~Turn(n) /\ ~Turn(n)'
            BY <1>0, <1>3, <1>5 DEF NodeInv, Kept, Turn
        <3> QED BY <1>3, <3>1 DEF Kept
    <2> QED BY <1>5, <2>3, <2>4, <2>5 DEF NodeInv
<1> QED BY <1>4, <1>5

\* Recovery turns to a node for which nothing was kept yet.
LEMMA TurnBegins ==
    ASSUME NEW ns, ns \subseteq Nodes, Load(ns), NEW m \in Nodes, Turn(m)',
           atts'[m] = atts[m], resv'[m] = resv[m], reuse'[m] = 0
    PROVE  Kept(m)'
<1>1. todo' = ns /\ Leads(m, ns) /\ m \in ns
    BY DEF Turn, Leads, Load
<1>2. PICK n \in ns : Leads(n, ns) /\ left' = Unfinished(n)
    BY <1>1 DEF Load
<1>3. left' = Unfinished(m)
    BY <1>1, <1>2, OneLeads
<1>4. Unfinished(m) \subseteq DOMAIN atts[m]
    BY DEF Unfinished
<1>5. \A i \in DOMAIN atts[m] \ Unfinished(m) : ~Owned(m, atts[m][i].resv)
    BY DEF Unfinished
<1>6. \A i : Owned(m, atts[m][i].resv)' = Owned(m, atts[m][i].resv)
    BY DEF Owned
<1>7. /\ left' \subseteq DOMAIN atts'[m]
      /\ \A i \in DOMAIN atts'[m] \ left' : ~Owned(m, atts[m][i].resv)'
    BY <1>3, <1>4, <1>5, <1>6
<1>8. phase' = "recover"
    BY DEF Turn
<1> QED BY <1>7, <1>8 DEF Kept, Pending

\* Recovery of the attempts begins.
LEMMA RefundsDoneKeeps ==
    ASSUME RunInv, NEW m \in Nodes, RefundsDone
    PROVE  NodeInv(m)'
<1>0. NodeInv(m) /\ TypeOK /\ Needs[m] \subseteq Nodes
    BY PlanAssumption DEF RunInv, NodeInv
<1>1. /\ phase = "refund" /\ phase' = "recover"
      /\ todo' = {n \in Nodes : node[n].status = "running" /\ node[n].outcome = None}
      /\ UNCHANGED <<node, atts, resv, item, pc, tries, reuse, end>>
    BY DEF RefundsDone, Load, durable
<1>2. Untouched(m) /\ \A d \in Nodes : Done(d)' = Done(d)
    BY <1>1 DEF Untouched, Done
<1>3. AtStep(m)' /\ AtStatus(m)'
    BY <1>0, <1>1, <1>2, UntouchedIs DEF NodeInv, AtStep, AtStatus
<1>4. Replays(m)' /\ Counted(m)'
    BY <1>0, <1>1, <1>2, UntouchedIs DEF NodeInv, Replays, Protected, Counted
<1>5. Referred(m)' /\ Paying(m)'
    BY <1>0, <1>1, <1>2, UntouchedIs DEF NodeInv, Referred, Paying
<1>6. Kept(m)'
    <2>1. reuse[m] = 0 /\ reuse'[m] = 0
        BY <1>0, <1>1 DEF NodeInv, Kept
    <2>2. CASE Turn(m)'
        <3>1. PICK ns : ns \subseteq Nodes /\ Load(ns)
            BY DEF RefundsDone
        <3> QED BY <1>1, <2>1, <2>2, <3>1, TurnBegins
    <2>3. CASE ~Turn(m)'
        BY <2>1, <2>3 DEF Kept
    <2> QED BY <2>2, <2>3
<1> QED BY <1>3, <1>4, <1>5, <1>6 DEF NodeInv

\* Recovery ends a node that may not be replayed.
LEMMA RefuseKeeps ==
    ASSUME RunInv, [Next]_vars, NEW n \in Nodes, RefuseReplay(n), NEW m \in Nodes
    PROVE  NodeInv(m)'
<1>0. NodeInv(m) /\ TypeOK /\ Needs[m] \subseteq Nodes /\ \A d \in Nodes : Done(d) => Done(d)'
    BY PlanAssumption, DoneStays DEF RunInv, NodeInv
<1>1. /\ phase = "recover" /\ phase' = "ending" /\ left = {}
      /\ UNCHANGED <<atts, resv, item, todo, left, pc, tries, reuse, end>>
    BY DEF RefuseReplay, Recovered, EndRoot
<1>2. node'[n].status = "interrupted" /\ node'[n].outcome = "interrupted"
      /\ \A d \in Nodes : d # n => node'[d] = node[d]
    BY <1>0, SetsNode DEF RefuseReplay, NodeStatus, TerminalRun
<1>3. CASE m # n
    <2>1. Untouched(m) /\ Onward(m)
        BY <1>1, <1>2, <1>3 DEF Untouched, Onward
    <2> QED BY <1>0, <2>1, UntouchedKeeps
<1>4. CASE m = n
    <2>1. pc[m] \in {"idle", "done"}
        BY <1>1, NotRun
    <2>2. AtStep(m)'
        BY <1>0, <1>1, <2>1 DEF NodeInv, AtStep, HasReservation, HasAttempt
    <2>3. AtStatus(m)'
        <3>1. ~Done(m)' /\ node'[m].outcome # None
            BY <1>2, <1>4 DEF Done, None
        <3> QED BY <1>0, <1>1, <3>1 DEF NodeInv, AtStatus
    <2>4. Replays(m)'
        BY <1>0, <1>1, <1>2, <1>4 DEF NodeInv, Replays, Protected, Proved
    <2>5. Counted(m)'
        BY <1>0, <1>1, <2>1 DEF NodeInv, Counted, Started
    <2>6. Referred(m)'
        BY <1>0, <1>1, <2>1 DEF NodeInv, Referred, Owned
    <2>7. Kept(m)'
        BY <1>0, <1>1 DEF NodeInv, Kept, Owned, Pending, Turn
    <2>8. Paying(m)'
        <3>1. /\ Starts(m)' = Starts(m) /\ (\A k : Touched(m, k)' = Touched(m, k))
              /\ (\A k : Paid(m, k)' = Paid(m, k)) /\ \A k : Owned(m, k)' = Owned(m, k)
            BY <1>1 DEF Starts, Started, Touched, Paid, Owned
        <3> QED BY <1>0, <1>1, <2>1, <3>1 DEF NodeInv, Paying
    <2> QED BY <2>2, <2>3, <2>4, <2>5, <2>6, <2>7, <2>8 DEF NodeInv
<1> QED BY <1>3, <1>4

\* Recovery queues a node again, and turns to the next.
LEMMA RequeueKeeps ==
    ASSUME RunInv, [Next]_vars, NEW n \in Nodes, Requeue(n), NEW m \in Nodes
    PROVE  NodeInv(m)'
<1>0. NodeInv(m) /\ TypeOK /\ Needs[m] \subseteq Nodes /\ \A d \in Nodes : Done(d) => Done(d)'
    BY PlanAssumption, DoneStays DEF RunInv, NodeInv
<1>1. /\ phase = "recover" /\ phase' = "recover" /\ left = {} /\ Leads(n, todo)
      /\ todo' = todo \ {n} /\ Load(todo \ {n}) /\ todo \subseteq Nodes
      /\ UNCHANGED <<atts, resv, item, pc, tries, reuse, end>>
    BY <1>0 DEF Requeue, Recovered, Load, TypeOK
<1>2. /\ UNCHANGED node \/ (node'[n].status = "queued" /\ node'[n].outcome = None)
      /\ \A d \in Nodes : d # n => node'[d] = node[d]
    BY <1>0, SetsNode DEF Requeue, NodeStatus
<1>3. /\ Starts(m)' = Starts(m) /\ (\A k : Touched(m, k)' = Touched(m, k))
      /\ (\A k : Paid(m, k)' = Paid(m, k)) /\ \A k : Owned(m, k)' = Owned(m, k)
      /\ Started(m)' = Started(m) /\ Proved(m)' = Proved(m) /\ Completed(m)' = Completed(m)
    BY <1>1 DEF Starts, Started, Touched, Paid, Owned, Proved, Completed
<1>4. pc[m] \in {"idle", "done"}
    BY <1>1, NotRun
<1>5. AtStep(m)'
    BY <1>0, <1>1, <1>4 DEF NodeInv, AtStep, HasReservation, HasAttempt
<1>6. AtStatus(m)'
    BY <1>0, <1>1, <1>2, <1>3 DEF NodeInv, AtStatus, Done, None
<1>7. Replays(m)'
    <2>1. m = n => ~Protected(m)
        BY DEF Requeue, Replayable, Protected
    <2>2. Protected(m)' = Protected(m)
        BY DEF Protected
    <2> QED BY <1>0, <1>1, <1>2, <1>3, <1>4, <2>1, <2>2 DEF NodeInv, Replays
<1>8. Counted(m)' /\ Referred(m)'
    BY <1>0, <1>1, <1>3, <1>4 DEF NodeInv, Counted, Referred
<1>9. Paying(m)'
    BY <1>0, <1>1, <1>3, <1>4 DEF NodeInv, Paying
<1>10. Kept(m)'
    <2>1. m # n => ~Turn(m)
        BY <1>1, OneLeads DEF Turn
    <2>2. CASE Turn(m)'
        <3>1. m # n /\ m \in todo
            BY <1>1, <2>2 DEF Turn, Leads
        <3>2. reuse[m] = 0
            BY <1>0, <1>1, <2>1, <3>1 DEF NodeInv, Kept
        <3>3. todo \ {n} \subseteq Nodes
            BY <1>1
        <3> PICK ns : ns = todo \ {n}
            OBVIOUS
        <3> QED BY <1>1, <2>2, <3>2, <3>3, TurnBegins
    <2>3. CASE ~Turn(m)'
        <3>1. Pending(m) = {} /\ Pending(m)' = {}
            BY <1>1, <2>3 DEF Pending
        <3>2. m \in todo' => m \in todo /\ ~Turn(m)
            BY <1>1, <2>1
        <3> QED BY <1>0, <1>1, <1>3, <2>3, <3>1, <3>2 DEF NodeInv, Kept
    <2> QED BY <2>2, <2>3
<1> QED BY <1>5, <1>6, <1>7, <1>8, <1>9, <1>10 DEF NodeInv

\* What an interrupted attempt keeps.
LEMMA InterruptedRow ==
    ASSUME RunInv, NEW n \in Nodes, NEW i \in DOMAIN atts[n], Interrupted(n, i)
    PROVE  /\ DOMAIN atts'[n] = DOMAIN atts[n] /\ Latest(n)' = Latest(n)
           /\ \A m \in Nodes : m # n => atts'[m] = atts[m]
           /\ \A j \in DOMAIN atts[n] : /\ atts'[n][j].child = atts[n][j].child
                                        /\ atts'[n][j].resv = atts[n][j].resv
                                        /\ atts'[n][j].auth = atts[n][j].auth
           /\ Started(n)' = Started(n) /\ (\A k : Touched(n, k)' = Touched(n, k))
           /\ (Completed(n) => Completed(n)') /\ (atts'[n] # <<>> <=> atts[n] # <<>>)
<1>0. TypeOK
    BY DEF RunInv
<1>1. PICK x \in Attempts :
          /\ atts' = [atts EXCEPT ![n][i] = x]
          /\ x.child = atts[n][i].child /\ x.resv = atts[n][i].resv /\ x.auth = atts[n][i].auth
          /\ atts[n][i].status \notin {"admitted", "running"} => x.status = atts[n][i].status
    BY <1>0, InterruptedMarks
<1>2. /\ atts' \in [Nodes -> Seq(Attempts)] /\ \A m \in Nodes : m # n => atts'[m] = atts[m]
      /\ DOMAIN atts'[n] = DOMAIN atts[n] /\ Len(atts'[n]) = Len(atts[n])
      /\ atts'[n][i] = x /\ \A j \in DOMAIN atts[n] : j # i => atts'[n][j] = atts[n][j]
    BY <1>0, <1>1, Marks
<1>3. \A j \in DOMAIN atts[n] : /\ atts'[n][j].child = atts[n][j].child
                                /\ atts'[n][j].resv = atts[n][j].resv
                                /\ atts'[n][j].auth = atts[n][j].auth
    BY <1>1, <1>2
<1>4. Started(n)' = Started(n)
    BY <1>2, <1>3 DEF Started
<1>5. \A k : Touched(n, k)' = Touched(n, k)
    BY <1>2, <1>3 DEF Touched
<1>6. Completed(n) => Completed(n)'
    <2>1. SUFFICES ASSUME NEW j \in DOMAIN atts[n], atts[n][j].status = "completed", atts[n][j].auth
          PROVE Completed(n)'
        BY DEF Completed
    <2>2. atts'[n][j].status = "completed"
        BY <1>1, <1>2, <2>1
    <2> QED BY <1>2, <1>3, <2>1, <2>2 DEF Completed
<1>7. atts'[n] # <<>> <=> atts[n] # <<>>
    BY <1>0, <1>2, SeqFacts DEF TypeOK
<1> QED BY <1>2, <1>3, <1>4, <1>5, <1>6, <1>7 DEF Latest

\* Recovery interrupts an attempt, and may keep its reservation for a batch.
LEMMA InterruptKeeps ==
    ASSUME RunInv, NEW n \in Nodes, NEW i \in left, Recovering(n, i), Interrupted(n, i),
           phase' = phase, todo' = todo, UNCHANGED <<node, resv, item, pc, tries, end>>,
           KeepBatch(n, i) \/ UNCHANGED <<left, reuse>>
    PROVE  /\ AtStep(n)' /\ AtStatus(n)' /\ Replays(n)' /\ Counted(n)' /\ Referred(n)' /\ Paying(n)'
           /\ i \in DOMAIN atts[n] /\ \A m \in Nodes : m # n => atts'[m] = atts[m]
<1>0. NodeInv(n) /\ TypeOK /\ Needs[n] \subseteq Nodes /\ phase = "recover" /\ Turn(n)
    BY PlanAssumption DEF RunInv, NodeInv, Recovering, Turn
<1>1. i \in DOMAIN atts[n] /\ pc[n] \in {"idle", "done"}
    BY <1>0, NotRun DEF NodeInv, Kept
<1>2. /\ DOMAIN atts'[n] = DOMAIN atts[n]
      /\ \A m \in Nodes : m # n => atts'[m] = atts[m]
      /\ \A j \in DOMAIN atts[n] : /\ atts'[n][j].child = atts[n][j].child
                                   /\ atts'[n][j].resv = atts[n][j].resv
                                   /\ atts'[n][j].auth = atts[n][j].auth
      /\ Started(n)' = Started(n) /\ (\A k : Touched(n, k)' = Touched(n, k))
      /\ (Completed(n) => Completed(n)') /\ (atts'[n] # <<>> <=> atts[n] # <<>>)
    BY <1>1, InterruptedRow
<1>3. /\ Starts(n)' = Starts(n) /\ (\A k : Paid(n, k)' = Paid(n, k)) /\ \A k : Owned(n, k)' = Owned(n, k)
    BY <1>2 DEF Starts, Paid, Owned
<1>4. AtStep(n)' /\ AtStatus(n)'
    BY <1>0, <1>1, <1>2 DEF NodeInv, AtStep, AtStatus, HasReservation, HasAttempt, Done
<1>5. Replays(n)'
    BY <1>0, <1>1, <1>2 DEF NodeInv, Replays, Protected
<1>6. Counted(n)'
    BY <1>0, <1>1, <1>2 DEF NodeInv, Counted
<1>7. Referred(n)'
    BY <1>0, <1>1, <1>2, <1>3 DEF NodeInv, Referred
<1>8. Paying(n)'
    BY <1>0, <1>1, <1>2, <1>3 DEF NodeInv, Paying
<1> QED BY <1>1, <1>2, <1>4, <1>5, <1>6, <1>7, <1>8

\* The nodes whose turn it is not, while recovery is at node n.
LEMMA NotTurn ==
    ASSUME RunInv, NEW n \in Nodes, Leads(n, todo), NEW m \in Nodes, m # n, todo' = todo
    PROVE  ~Turn(m) /\ ~Turn(m)'
<1>1. todo \subseteq Nodes
    BY DEF RunInv, TypeOK
<1>2. ~Leads(m, todo)
    BY <1>1, OneLeads
<1> QED BY <1>2 DEF Turn

\* Recovery interrupts a child that may have started.
LEMMA InterruptChildKeeps ==
    ASSUME RunInv, NEW n \in Nodes, NEW i \in left, InterruptChild(n, i), NEW m \in Nodes
    PROVE  NodeInv(m)'
<1>1. /\ Recovering(n, i) /\ Interrupted(n, i) /\ phase' = phase /\ todo' = todo
      /\ UNCHANGED <<node, resv, item, pc, tries, end, left, reuse>>
    BY DEF InterruptChild, memory
<1>2. /\ AtStep(n)' /\ AtStatus(n)' /\ Replays(n)' /\ Counted(n)' /\ Referred(n)' /\ Paying(n)'
      /\ i \in DOMAIN atts[n] /\ \A d \in Nodes : d # n => atts'[d] = atts[d]
    BY <1>1, InterruptKeeps
<1>3. CASE m # n
    <2>1. Untouched(m) /\ Onward(m) /\ \A d \in Nodes : Done(d) => Done(d)'
        BY <1>1, <1>2, <1>3 DEF Untouched, Onward, Done
    <2> QED BY <2>1, UntouchedKeeps
<1>4. CASE m = n
    <2>1. /\ DOMAIN atts'[n] = DOMAIN atts[n]
          /\ \A j \in DOMAIN atts[n] : /\ atts'[n][j].child = atts[n][j].child
                                       /\ atts'[n][j].resv = atts[n][j].resv
        BY <1>1, <1>2, InterruptedRow
    <2>2. \A k : Owned(n, k)' = Owned(n, k)
        BY <1>1 DEF Owned
    <2>3. Turn(n)' = Turn(n) /\ Pending(n)' = Pending(n)
        BY <1>1 DEF Turn, Pending
    <2>4. Kept(n)
        BY DEF RunInv
    <2>5. Kept(n)'
        BY <1>1, <2>1, <2>2, <2>3, <2>4 DEF Kept
    <2> QED BY <1>2, <1>4, <2>5 DEF NodeInv
<1> QED BY <1>3, <1>4

\* Recovery keeps the reservation of an interrupted batch.
LEMMA KeepBatchKeeps ==
    ASSUME RunInv, NEW n \in Nodes, NEW i \in left, KeepBatch(n, i), NEW m \in Nodes
    PROVE  NodeInv(m)'
<1> DEFINE k == atts[n][i].resv
<1>0. TypeOK /\ reuse \in [Nodes -> Nat]
    BY DEF RunInv, TypeOK
<1>1. /\ Recovering(n, i) /\ Interrupted(n, i) /\ phase' = phase /\ todo' = todo /\ left' = left \ {i}
      /\ UNCHANGED <<node, resv, item, pc, tries, end>> /\ ResumableBatch(n, i)
      /\ reuse'[n] = (IF Outstanding(n, k) THEN k ELSE reuse[n])
      /\ \A d \in Nodes : d # n => reuse'[d] = reuse[d]
    BY <1>0 DEF KeepBatch
<1>2. /\ AtStep(n)' /\ AtStatus(n)' /\ Replays(n)' /\ Counted(n)' /\ Referred(n)' /\ Paying(n)'
      /\ i \in DOMAIN atts[n] /\ \A d \in Nodes : d # n => atts'[d] = atts[d]
    BY <1>1, InterruptKeeps
<1>3. CASE m # n
    <2>1. Untouched(m) /\ \A d \in Nodes : Done(d) => Done(d)'
        BY <1>1, <1>2, <1>3 DEF Untouched, Done
    <2>2. ~Turn(m) /\ ~Turn(m)' /\ phase = "recover"
        BY <1>1, <1>3, NotTurn DEF Recovering
    <2>3. Onward(m)
        BY <1>1, <2>2 DEF Onward
    <2> QED BY <2>1, <2>3, UntouchedKeeps
<1>4. CASE m = n
    <2>1. /\ DOMAIN atts'[n] = DOMAIN atts[n]
          /\ \A j \in DOMAIN atts[n] : /\ atts'[n][j].child = atts[n][j].child
                                       /\ atts'[n][j].resv = atts[n][j].resv
        BY <1>1, <1>2, InterruptedRow
    <2>2. \A j : Owned(n, j)' = Owned(n, j)
        BY <1>1 DEF Owned
    <2>3. /\ phase = "recover" /\ Turn(n) /\ Turn(n)' /\ Pending(n) = left /\ Pending(n)' = left \ {i}
          /\ i \in left /\ \A j \in left : i <= j
        BY <1>1 DEF Recovering, Turn, Pending
    <2>4. Kept(n) /\ Referred(n) /\ left \subseteq DOMAIN atts[n] /\ DOMAIN atts[n] \subseteq Nat
        BY <1>0, <2>3, Entries DEF RunInv, Kept
    <2>5. Kind[n] = "batch" /\ atts[n][i].child
        BY <1>1 DEF ResumableBatch
    <2>6. reuse'[n] # 0 => Kind[n] = "batch" /\ Owned(n, reuse'[n])
                           /\ \E c \in DOMAIN atts[n] \ (left \ {i}) :
                                 atts[n][c].child /\ atts[n][c].resv = reuse'[n]
        <3>1. CASE Outstanding(n, k)
            BY <1>1, <1>2, <2>5, <3>1 DEF Outstanding
        <3>2. CASE ~Outstanding(n, k)
            BY <1>1, <2>3, <2>4, <3>2 DEF Kept
        <3> QED BY <3>1, <3>2
    <2>7. ASSUME NEW j \in DOMAIN atts[n] \ (left \ {i}), atts[n][j].child, Owned(n, atts[n][j].resv)
          PROVE  atts[n][j].resv <= reuse'[n]
        <3>0. atts[n][j].resv \in Nat /\ k \in Nat
            BY <1>0, <1>2, Entries DEF Attempts
        <3>1. CASE Outstanding(n, k)
            <4>1. CASE j = i
                BY <1>1, <3>0, <3>1, <4>1
            <4>2. CASE j # i
                <5>1. j \in DOMAIN atts[n] \ left
                    BY <4>2
                <5>2. j < i
                    BY <2>3, <2>4, <2>7, <5>1 DEF Kept
                <5>3. atts[n][j].resv <= k
                    BY <1>2, <2>4, <2>7, <5>1, <5>2 DEF Referred
                <5> QED BY <1>1, <3>1, <5>3
            <4> QED BY <4>1, <4>2
        <3>2. CASE ~Outstanding(n, k)
            <4>1. CASE j = i
                BY <1>1, <2>7, <3>0, <3>2, <4>1 DEF Outstanding
            <4>2. CASE j # i
                <5>1. j \in DOMAIN atts[n] \ left
                    BY <4>2
                <5>2. atts[n][j].resv <= reuse[n]
                    BY <2>3, <2>4, <2>7, <5>1 DEF Kept
                <5> QED BY <1>1, <3>2, <5>2
            <4> QED BY <4>1, <4>2
        <3> QED BY <3>1, <3>2
    <2>8. ASSUME NEW a \in DOMAIN atts[n] \ (left \ {i}), NEW j \in left \ {i}, Owned(n, atts[n][a].resv)
          PROVE  a < j
        <3>1. CASE a = i
            <4>1. i <= j /\ i # j /\ i \in Nat /\ j \in Nat
                BY <2>3, <2>4
            <4> QED BY <3>1, <4>1
        <3>2. CASE a # i
            BY <2>3, <2>4, <2>8, <3>2 DEF Kept
        <3> QED BY <3>1, <3>2
    <2>9. \A j : Owned(n, atts[n][j].resv)' = Owned(n, atts'[n][j].resv)
        BY <1>1 DEF Owned
    <2>10. reuse'[n] # 0 => Owned(n, reuse[n])'
        BY <1>1, <2>6 DEF Owned
    <2>11. Kept(n)'
        <3>1. /\ reuse'[n] # 0 => /\ Kind[n] = "batch" /\ Owned(n, reuse[n])'
                                  /\ \E c \in DOMAIN atts'[n] \ (left \ {i}) :
                                        atts'[n][c].child /\ atts'[n][c].resv = reuse'[n]
              /\ \A j \in DOMAIN atts'[n] \ (left \ {i}) :
                    atts'[n][j].child /\ Owned(n, atts'[n][j].resv) => atts'[n][j].resv <= reuse'[n]
            BY <2>1, <2>6, <2>7, <2>10
        <3>2. \A j \in DOMAIN atts'[n] \ (left \ {i}) :
                 (atts[n][j].child /\ Owned(n, atts[n][j].resv) => atts[n][j].resv <= reuse[n])'
            BY <2>9, <3>1
        <3>3. /\ left \ {i} \subseteq DOMAIN atts'[n]
              /\ \A a \in DOMAIN atts'[n] \ (left \ {i}), j \in left \ {i} :
                    a < j \/ ~Owned(n, atts[n][a].resv)'
            BY <2>1, <2>4, <2>8, <2>9
        <3>4. phase' = "recover" /\ left' = left \ {i}
            BY <1>1, <2>3
        <3> QED BY <2>3, <3>1, <3>2, <3>3, <3>4 DEF Kept
    <2> QED BY <1>2, <1>4, <2>11 DEF NodeInv
<1> QED BY <1>3, <1>4

\* An attempt that never began a child, in the order of recovery, and whose
\* reservation was not kept: no other attempt with it began one.
LEMMA NeverBeganUnused ==
    ASSUME RunInv, NEW n \in Nodes, NEW i \in left, Recovering(n, i), NeverBegan(n, i),
           Outstanding(n, atts[n][i].resv)
    PROVE  ~Touched(n, atts[n][i].resv)
<1> DEFINE k == atts[n][i].resv
<1>1. /\ Turn(n) /\ Kept(n) /\ Referred(n) /\ TypeOK /\ Pending(n) = left /\ \A j \in left : i <= j
    BY DEF RunInv, Recovering, Turn, Pending
<1>2. left \subseteq DOMAIN atts[n] /\ DOMAIN atts[n] \subseteq Nat /\ i \in DOMAIN atts[n]
    BY <1>1, Entries DEF Kept
<1>3. SUFFICES ASSUME NEW c \in DOMAIN atts[n], atts[n][c].child, atts[n][c].resv = k PROVE FALSE
    BY DEF Touched
<1>4. Owned(n, k) /\ reuse[n] # k /\ c # i /\ reuse[n] \in Nat
    BY <1>1, <1>3 DEF Outstanding, NeverBegan, TypeOK
<1>5. PICK d \in DOMAIN atts[n] : d <= i /\ atts[n][d].child /\ atts[n][d].resv = k
    <2>1. CASE c < i
        BY <1>2, <1>3, <2>1
    <2>2. CASE i < c
        BY <1>1, <1>2, <1>3, <2>2 DEF Referred
    <2> QED BY <1>2, <1>4, <2>1, <2>2
<1>6. d # i /\ d \notin left
    BY <1>1, <1>2, <1>5 DEF NeverBegan
<1>7. k <= reuse[n] /\ k \in Nat
    <2>1. k \in Nat
        BY <1>1, <1>2, Entries DEF Attempts
    <2> QED BY <1>1, <1>4, <1>5, <1>6, <2>1 DEF Kept
<1>8. reuse[n] # 0
    <2>1. k \in DOMAIN resv[n] /\ DOMAIN resv[n] = 1..Len(resv[n])
        BY <1>1, <1>2, Entries DEF Referred
    <2>2. k >= 1
        BY <1>1, <2>1, Entries
    <2> QED BY <1>4, <1>7, <2>2
<1>9. PICK e \in DOMAIN atts[n] \ left : atts[n][e].child /\ atts[n][e].resv = reuse[n]
    BY <1>1, <1>8 DEF Kept
<1>10. Owned(n, reuse[n]) /\ e < i
    BY <1>1, <1>8, <1>9 DEF Kept
<1>11. reuse[n] <= k
    BY <1>1, <1>2, <1>9, <1>10 DEF Referred
<1> QED BY <1>4, <1>7, <1>11

\* Recovery settles the reservation of an attempt.
LEMMA SettleAttemptKeeps ==
    ASSUME RunInv, NEW n \in Nodes, NEW i \in left, SettleAttempt(n, i), NEW m \in Nodes
    PROVE  NodeInv(m)'
<1> DEFINE k == atts[n][i].resv
<1>0. TypeOK /\ NodeInv(n) /\ reuse \in [Nodes -> Nat] /\ Turn(n) /\ phase = "recover" /\ Recovering(n, i)
    BY DEF RunInv, TypeOK, NodeInv, SettleAttempt, Recovering, Turn
<1>1. /\ phase' = phase /\ todo' = todo /\ left' = left \ {i}
      /\ UNCHANGED <<node, atts, item, pc, reuse, end>>
    BY DEF SettleAttempt
<1>2. /\ i \in DOMAIN atts[n] /\ k \in DOMAIN resv[n] /\ resv[n][k].worst \in Nat
      /\ left \subseteq DOMAIN atts[n] /\ DOMAIN atts[n] \subseteq Nat
    <2>1. i \in DOMAIN atts[n] /\ left \subseteq DOMAIN atts[n]
        BY <1>0 DEF NodeInv, Kept
    <2>2. k \in DOMAIN resv[n]
        BY <1>0, <2>1 DEF NodeInv, Referred
    <2>3. resv[n][k] \in Reservations
        BY <1>0, <2>2, Entries
    <2>4. resv[n][k].worst \in Nat
        BY <2>3 DEF Reservations
    <2>5. DOMAIN atts[n] \subseteq Nat
        BY <1>0, Entries
    <2> QED BY <2>1, <2>2, <2>4, <2>5
<1>3. \/ UNCHANGED resv /\ ~Outstanding(n, k)
      \/ Outstanding(n, k) /\ Charge(n, k, resv[n][k].worst)
      \/ Outstanding(n, k) /\ Refund(n, k) /\ NeverBegan(n, i)
    BY DEF SettleAttempt, ChargeAll
<1>4. /\ \A d \in Nodes : d # n => resv'[d] = resv[d] /\ tries'[d] = tries[d]
      /\ Kind[n] = "agent" => tries' = tries
    <2>1. \A d \in Nodes : d # n => resv'[d] = resv[d]
        BY <1>0, <1>2, <1>3, Settles
    <2>2. \A d \in Nodes : d # n => tries'[d] = tries[d]
        BY <1>0 DEF SettleAttempt, TypeOK
    <2>3. Kind[n] = "agent" => tries' = tries
        BY DEF SettleAttempt
    <2> QED BY <2>1, <2>2, <2>3
<1>5. CASE m # n
    <2>1. Untouched(m) /\ \A d \in Nodes : Done(d) => Done(d)'
        BY <1>1, <1>4, <1>5 DEF Untouched, Done
    <2>2. Leads(n, todo)
        BY <1>0 DEF Turn
    <2>3. ~Turn(m) /\ ~Turn(m)'
        BY <1>1, <1>5, <2>2, NotTurn
    <2>4. Onward(m)
        BY <1>0, <1>1, <2>3 DEF Onward
    <2> QED BY <2>1, <2>4, UntouchedKeeps
<1>6. CASE m = n
    <2>1. Counted(n)'
        <3>1. Started(n)' = Started(n)
            BY <1>1 DEF Started
        <3> QED BY <1>0, <1>1, <1>4, <3>1 DEF NodeInv, Counted
    <2>2. Turn(n)' /\ Pending(n) = left /\ Pending(n)' = left \ {i} /\ \A j \in left : i <= j
        BY <1>0, <1>1 DEF Turn, Pending, Recovering
    <2>3. /\ AtStep(n)' /\ AtStatus(n)' /\ Replays(n)' /\ Referred(n)' /\ Paying(n)'
          /\ \A j : Owned(n, j)' <=> Owned(n, j) /\ ~(Outstanding(n, k) /\ j = k)
        <3>1. CASE UNCHANGED resv /\ ~Outstanding(n, k)
            <4>1. /\ \A j : Owned(n, j)' = Owned(n, j) /\ Touched(n, j)' = Touched(n, j)
                  /\ (\A j : Paid(n, j)' = Paid(n, j)) /\ Starts(n)' = Starts(n) /\ Proved(n)' = Proved(n)
                  /\ Completed(n)' = Completed(n) /\ \A d \in Nodes : Done(d)' = Done(d)
                BY <1>1, <3>1 DEF Owned, Touched, Paid, Starts, Started, Proved, Completed, Done
            <4>2. pc[n] \in {"idle", "done"} /\ Needs[n] \subseteq Nodes
                BY <1>0, NotRun, PlanAssumption
            <4>3. AtStep(n)' /\ AtStatus(n)'
                BY <1>0, <1>1, <4>1, <4>2 DEF NodeInv, AtStep, AtStatus, HasReservation, HasAttempt
            <4>4. Replays(n)'
                BY <1>0, <1>1, <4>1 DEF NodeInv, Replays, Protected
            <4>5. Referred(n)'
                BY <1>0, <1>1, <3>1, <4>1, <4>2 DEF NodeInv, Referred
            <4>6. Paying(n)'
                BY <1>0, <1>1, <3>1, <4>1, <4>2 DEF NodeInv, Paying
            <4> QED BY <3>1, <4>1, <4>3, <4>4, <4>5, <4>6
        <3>2. ASSUME Outstanding(n, k),
                     \/ Charge(n, k, resv[n][k].worst)
                     \/ Refund(n, k) /\ NeverBegan(n, i)
              PROVE  /\ AtStep(n)' /\ AtStatus(n)' /\ Replays(n)' /\ Referred(n)' /\ Paying(n)'
                     /\ \A j : Owned(n, j)' <=> Owned(n, j) /\ j # k
            <4>1. Owned(n, k)
                BY <3>2 DEF Outstanding
            <4>2. NeverBegan(n, i) => ~Touched(n, k)
                BY <1>0, <3>2, NeverBeganUnused
            <4>3. Refund(n, k) => ~Touched(n, k)
                <5>1. Refund(n, k) => resv'[n][k].state = "refunded"
                    BY <1>0, <1>2, Settles
                <5>2. Charge(n, k, resv[n][k].worst) => resv'[n][k].state = "consumed"
                    BY <1>0, <1>2, Settles
                <5> QED BY <3>2, <4>2, <5>1, <5>2
            <4> PICK u \in Nat : u = resv[n][k].worst
                BY <1>2
            <4> PICK q \in DOMAIN resv[n] : q = k
                BY <1>2
            <4>4. Charge(n, q, u) \/ Refund(n, q)
                BY <3>2
            <4>5. AtStep(n)' /\ AtStatus(n)' /\ Replays(n)' /\ Referred(n)' /\ Paying(n)'
                BY <1>0, <1>1, <4>1, <4>3, <4>4, RecoverySettles
            <4>6. \A j : Owned(n, j)' <=> Owned(n, j) /\ j # q
                BY <1>0, <1>1, <4>1, <4>4, SettlesRow
            <4> QED BY <4>5, <4>6
        <3> QED BY <1>3, <3>1, <3>2
    <2>4. Kept(n)'
        <3>1. Kept(n)
            BY <1>0 DEF NodeInv
        <3>2. reuse[n] # 0 => Owned(n, reuse[n]) /\ Owned(n, reuse[n])'
            BY <1>1, <2>3, <3>1 DEF Kept, Outstanding
        <3>3. ASSUME NEW j \in DOMAIN atts[n] \ (left \ {i}), atts[n][j].child, Owned(n, atts[n][j].resv)'
              PROVE  atts[n][j].resv <= reuse[n]
            <4>1. Owned(n, atts[n][j].resv) /\ ~(Outstanding(n, k) /\ atts[n][j].resv = k)
                BY <1>1, <2>3, <3>3
            <4>2. CASE j = i
                <5>1. reuse[n] = k /\ k \in Nat
                    BY <1>0, <1>2, <4>1, <4>2, Entries DEF Outstanding, Attempts
                <5> QED BY <4>2, <5>1
            <4>3. CASE j # i
                <5>1. j \in DOMAIN atts[n] \ left
                    BY <4>3
                <5> QED BY <1>0, <2>2, <3>1, <3>3, <4>1, <5>1 DEF Kept
            <4> QED BY <4>2, <4>3
        <3>4. ASSUME NEW a \in DOMAIN atts[n] \ (left \ {i}), NEW j \in left \ {i},
                     Owned(n, atts[n][a].resv)'
              PROVE  a < j
            <4>1. Owned(n, atts[n][a].resv)
                BY <1>1, <2>3, <3>4
            <4>2. CASE a = i
                <5>1. i <= j /\ i # j /\ i \in Nat /\ j \in Nat
                    BY <1>2, <2>2
                <5> QED BY <4>2, <5>1
            <4>3. CASE a # i
                <5>1. a \in DOMAIN atts[n] \ left
                    BY <4>3
                <5> QED BY <1>0, <3>1, <4>1, <5>1 DEF Kept
            <4> QED BY <4>2, <4>3
        <3>5. \A j \in DOMAIN atts'[n] \ (left \ {i}) :
                 (atts[n][j].child /\ Owned(n, atts[n][j].resv) => atts[n][j].resv <= reuse[n])'
            BY <1>1, <3>3
        <3>6. /\ left \ {i} \subseteq DOMAIN atts'[n]
              /\ \A a \in DOMAIN atts'[n] \ (left \ {i}), j \in left \ {i} :
                    a < j \/ ~Owned(n, atts[n][a].resv)'
            BY <1>1, <1>2, <3>4
        <3>7. reuse'[n] # 0 => /\ Kind[n] = "batch" /\ Owned(n, reuse[n])'
                               /\ \E c \in DOMAIN atts'[n] \ (left \ {i}) :
                                     atts'[n][c].child /\ atts'[n][c].resv = reuse'[n]
            BY <1>1, <2>2, <3>1, <3>2 DEF Kept
        <3>8. phase' = "recover" /\ left' = left \ {i}
            BY <1>0, <1>1
        <3> QED BY <2>2, <3>5, <3>6, <3>7, <3>8 DEF Kept
    <2> QED BY <1>6, <2>1, <2>3, <2>4 DEF NodeInv
<1> QED BY <1>5, <1>6

\* Every step but those of #runNode keeps a node's invariant.
LEMMA ControlKeeps ==
    ASSUME RunInv, [Next]_vars, Execute \/ Control \/ Crash \/ RequestCancel \/ RequestDurableCancel
                                \/ PollCancel \/ RequestPause \/ UNCHANGED vars,
           NEW m \in Nodes
    PROVE  NodeInv(m)'
<1>1. CASE Execute
    BY <1>1, ExecuteKeeps
<1>2. CASE Open \/ RecoveryDone \/ Approve \/ Begin \/ LoopCancelled \/ NothingReady \/ AppendStopping
    BY <1>2, MovesKeep
<1>3. CASE RequestCancel \/ RequestDurableCancel \/ PollCancel \/ RequestPause
    BY <1>3, MovesKeep
<1>4. CASE WaveDone
    BY <1>4, MovesKeep, ExitsKeep
<1>5. CASE DenyApproval \/ Pause \/ SettleRoot \/ Release \/ Crash
    BY <1>5, ExitsKeep
<1>6. CASE LaunchWave
    BY <1>6, LaunchKeeps
<1>7. CASE Recover
    <2>1. CASE RefundUnadmitted
        BY <2>1, RefundKeeps
    <2>2. CASE RefundsDone
        BY <2>2, RefundsDoneKeeps
    <2>3. CASE RecoveryDone
        BY <2>3, MovesKeep
    <2>4. ASSUME NEW n \in Nodes, RefuseReplay(n) PROVE NodeInv(m)'
        BY <2>4, RefuseKeeps
    <2>5. ASSUME NEW n \in Nodes, Requeue(n) PROVE NodeInv(m)'
        BY <2>5, RequeueKeeps
    <2>6. ASSUME NEW n \in Nodes, NEW i \in left, KeepBatch(n, i) PROVE NodeInv(m)'
        BY <2>6, KeepBatchKeeps
    <2>7. ASSUME NEW n \in Nodes, NEW i \in left, InterruptChild(n, i) PROVE NodeInv(m)'
        BY <2>7, InterruptChildKeeps
    <2>8. ASSUME NEW n \in Nodes, NEW i \in left, SettleAttempt(n, i) PROVE NodeInv(m)'
        BY <2>8, SettleAttemptKeeps
    <2> QED BY <1>7, <2>1, <2>2, <2>3, <2>4, <2>5, <2>6, <2>7, <2>8 DEF Recover
<1>8. CASE UNCHANGED vars
    <2>1. Untouched(m) /\ Onward(m) /\ \A d \in Nodes : Done(d) => Done(d)'
        BY <1>8 DEF vars, durable, memory, Untouched, Onward, Done
    <2> QED BY <2>1, UntouchedKeeps
<1> QED BY <1>1, <1>2, <1>3, <1>4, <1>5, <1>6, <1>7, <1>8 DEF Control

-----------------------------------------------------------------------------
(* Running a node: steps that leave its rows in the journal as they are.   *)

\* The journal says the same of the attempts of node m, and of its reservations.
SameWork(m) ==
    atts'[m] = atts[m] /\ resv'[m] = resv[m] /\ item'[m] = item[m] /\ reuse'[m] = reuse[m]
SameRows(m) == node'[m] = node[m] /\ SameWork(m)

\* So does all that is read off them.
LEMMA SameWorkIs ==
    ASSUME NEW m, SameWork(m)
    PROVE  /\ Last(m)' = Last(m) /\ Latest(m)' = Latest(m) /\ Started(m)' = Started(m)
           /\ CurrentResv(m)' = CurrentResv(m)
           /\ Proved(m)' = Proved(m) /\ Completed(m)' = Completed(m)
           /\ Starts(m)' = Starts(m) /\ PreparedBatch(m)' = PreparedBatch(m)
           /\ \A k : Owned(m, k)' = Owned(m, k) /\ Touched(m, k)' = Touched(m, k)
           /\ \A k : Paid(m, k)' = Paid(m, k)
<1>1. Started(m)' = Started(m)
    BY DEF SameWork, Started
<1>2. \A k : Touched(m, k)' = Touched(m, k)
    BY DEF SameWork, Touched
<1>3. \A k : Owned(m, k)' = Owned(m, k)
    BY DEF SameWork, Owned
<1>4. \A k : Paid(m, k)' = Paid(m, k)
    BY PaidIs, PaidIsNext DEF SameWork
<1>5. Latest(m)' = Latest(m) /\ Last(m)' = Last(m) /\ CurrentResv(m)' = CurrentResv(m)
    BY DEF SameWork, Latest, Last, CurrentResv
<1>6. Starts(m)' = Starts(m) /\ PreparedBatch(m)' = PreparedBatch(m)
    BY <1>1 DEF SameWork, Starts, PreparedBatch
<1>7. Proved(m)' = Proved(m) /\ Completed(m)' = Completed(m)
    BY DEF SameWork, Proved, Completed
<1> QED BY <1>1, <1>2, <1>3, <1>4, <1>5, <1>6, <1>7

\* What the invariant reads of a node's rows is the same when they are.
LEMMA SameRowsAre ==
    ASSUME NEW m, SameRows(m)
    PROVE  /\ Last(m)' = Last(m) /\ Latest(m)' = Latest(m) /\ Started(m)' = Started(m)
           /\ CurrentResv(m)' = CurrentResv(m)
           /\ Proved(m)' = Proved(m) /\ Completed(m)' = Completed(m) /\ Done(m)' = Done(m)
           /\ Starts(m)' = Starts(m) /\ PreparedBatch(m)' = PreparedBatch(m)
           /\ \A k : Owned(m, k)' = Owned(m, k) /\ Touched(m, k)' = Touched(m, k)
           /\ \A k : Paid(m, k)' = Paid(m, k)
<1>1. SameWork(m) /\ Done(m)' = Done(m)
    BY DEF SameRows, Done
<1> QED BY <1>1, SameWorkIs

\* No recovery while nodes are run.
LEMMA NoTurn ==
    ASSUME NEW n \in Nodes, RunNode(n)
    PROVE  /\ \A m : ~Turn(m) /\ ~Turn(m)' /\ Pending(m) = {} /\ Pending(m)' = {}
           /\ phase \in {"wave", "thrown"} /\ phase' \in {"wave", "thrown"}
BY RunSteps DEF Turn, Pending

\* What such a step does not have to show.
LEMMA SameRowsKeep ==
    ASSUME RunInv, [Next]_vars, NEW n \in Nodes, RunNode(n), SameRows(n)
    PROVE  /\ AtStatus(n)' /\ Kept(n)'
           /\ pc'[n] \in {"queue", "head", "reserve", "admit"} =>
                 (pc[n] \in {"queue", "head", "reserve", "admit"} => Replays(n)')
           /\ pc'[n] \notin {"queue", "head", "reserve", "admit"} => Replays(n)'
           /\ tries'[n] = tries[n] /\ pc'[n] \notin {"reserve", "admit", "start"} => Counted(n)'
           /\ pc'[n] \notin {"admit", "start"} => Referred(n)'
           /\ pc'[n] \notin {"admit", "start", "item", "terminal", "artifact", "charge"} => Paying(n)'
<1>0. NodeInv(n) /\ Needs[n] \subseteq Nodes /\ \A d \in Nodes : Done(d) => Done(d)'
    BY PlanAssumption, DoneStays DEF RunInv, NodeInv
<1>1. AtStatus(n)'
    BY <1>0, NoTurn, SameRowsAre DEF NodeInv, AtStatus, SameRows, SameWork
<1>2. Kept(n)'
    BY <1>0, NoTurn, SameRowsAre DEF NodeInv, Kept, SameRows, SameWork
<1>3. /\ pc'[n] \in {"queue", "head", "reserve", "admit"} =>
            (pc[n] \in {"queue", "head", "reserve", "admit"} => Replays(n)')
      /\ pc'[n] \notin {"queue", "head", "reserve", "admit"} => Replays(n)'
    BY <1>0, SameRowsAre DEF NodeInv, Replays, SameRows, SameWork, Protected
<1>4. tries'[n] = tries[n] /\ pc'[n] \notin {"reserve", "admit", "start"} => Counted(n)'
    BY <1>0, NoTurn, SameRowsAre DEF NodeInv, Counted, SameRows, SameWork
<1>5. pc'[n] \notin {"admit", "start"} => Referred(n)'
    BY <1>0, SameRowsAre DEF NodeInv, Referred, SameRows, SameWork
<1>6. pc'[n] \notin {"admit", "start", "item", "terminal", "artifact", "charge"} => Paying(n)'
    BY <1>0, SameRowsAre DEF NodeInv, Paying, SameRows, SameWork
<1> QED BY <1>1, <1>2, <1>3, <1>4, <1>5, <1>6

\* A node leaves the loop over its attempts without another one.
LEMMA LeavesLoopKeeps ==
    ASSUME RunInv, [Next]_vars, NEW n \in Nodes,
           StopNode(n) \/ DenyNode(n) \/ NoPathEnforcement(n) \/ BudgetExhausted(n)
    PROVE  NodeInv(n)'
<1>0. TypeOK /\ NodeInv(n) /\ Needs[n] \subseteq Nodes /\ RunNode(n) /\ \A d \in Nodes : Done(d) => Done(d)'
    BY PlanAssumption, DoneStays DEF RunInv, NodeInv, RunNode
<1>1. /\ SameRows(n) /\ tries'[n] = tries[n] /\ pc'[n] \in {"done", "settle"} /\ pc[n] \in {"head", "reserve"}
      /\ pc'[n] = "settle" => \E o \in {"unavailable", "budget-exhausted"} :
                                 end' = [end EXCEPT ![n] = [outcome |-> o, auth |-> TRUE]]
    BY <1>0, StepsNode DEF SameRows, SameWork, durable, StopNode, DenyNode, NoPathEnforcement, BudgetExhausted,
       SettleWithout, Return, At
<1>2. pc'[n] = "settle" => end'[n].outcome # None /\ SettledOutcome(end'[n]) # "completed"
    BY <1>0, <1>1 DEF TypeOK, SettledOutcome, None
<1>3. AtStep(n)'
    BY <1>0, <1>1, <1>2, NoTurn, SameRowsAre DEF NodeInv, AtStep, HasReservation, HasAttempt, SameRows, SameWork
<1> QED BY <1>0, <1>1, <1>3, SameRowsKeep DEF NodeInv

\* A node goes on to its next attempt.
LEMMA BeginAttemptKeeps ==
    ASSUME RunInv, [Next]_vars, NEW n \in Nodes, BeginAttempt(n)
    PROVE  NodeInv(n)'
<1>0. TypeOK /\ NodeInv(n) /\ Needs[n] \subseteq Nodes /\ RunNode(n) /\ \A d \in Nodes : Done(d) => Done(d)'
    BY PlanAssumption, DoneStays DEF RunInv, NodeInv, RunNode
<1>1. /\ SameRows(n) /\ tries'[n] = tries[n] + 1 /\ pc'[n] = "reserve" /\ pc[n] = "head"
    BY <1>0, StepsNode DEF SameRows, SameWork, durable, BeginAttempt, At, TypeOK
<1>2. AtStep(n)'
    BY <1>0, <1>1, NoTurn, SameRowsAre DEF NodeInv, AtStep, HasReservation, HasAttempt, SameRows, SameWork
<1>3. Counted(n)'
    <2>1. Cardinality(Started(n)) \in Nat /\ tries[n] \in Nat
        BY <1>0, StartedFinite, NumbersAssumption DEF TypeOK
    <2> QED BY <1>0, <1>1, <2>1, NoTurn, SameRowsAre DEF NodeInv, Counted
<1> QED BY <1>0, <1>1, <1>2, <1>3, SameRowsKeep DEF NodeInv

\* A child that never started has used no reservation.
LEMMA UnstartedUnpaid ==
    ASSUME TypeOK, NEW n \in Nodes, Started(n) = {}
    PROVE  Paid(n, Len(resv[n])) = 0
<1>1. \A k : ~Touched(n, k)
    BY DEF Touched, Started
<1>2. resv[n] \in Seq(Reservations)
    BY DEF TypeOK
<1>3. IsFiniteSet(DOMAIN resv[n])
    BY <1>2, SeqFacts
<1> DEFINE F == [j \in DOMAIN resv[n] |->
                   IF j <= Len(resv[n]) /\ Touched(n, j) THEN Spent(resv[n][j]) ELSE 0]
<1>4. F \in [DOMAIN resv[n] -> {0}]
    BY <1>1
<1> HIDE DEF F
<1>5. SumFunction(F) = 0
    BY <1>3, <1>4, SumZero
<1> QED BY <1>5 DEF Paid, F

\* An attempt comes to an end: NoExecutor, ChildEnds, GateFails, EndBatch.
LEMMA AttemptEndsKeeps ==
    ASSUME RunInv, [Next]_vars, NEW n \in Nodes,
           NoExecutor(n) \/ ChildEnds(n) \/ GateFails(n) \/ EndBatch(n)
    PROVE  NodeInv(n)'
<1>0. TypeOK /\ NodeInv(n) /\ Needs[n] \subseteq Nodes /\ RunNode(n) /\ \A d \in Nodes : Done(d) => Done(d)'
    BY PlanAssumption, DoneStays DEF RunInv, NodeInv, RunNode
<1>1. /\ SameRows(n) /\ tries'[n] = tries[n] /\ pc[n] \in {"start", "run", "ran"}
      /\ pc'[n] = IF IsChild(n) THEN "terminal" ELSE "artifact"
    <2>1. Kind[n] \in {"agent", "batch", "gate", "approval", "local"}
        BY PlanAssumption
    <2>2. CASE NoExecutor(n)
        BY <1>0, <2>2, StepsNode DEF SameRows, SameWork, durable, NoExecutor, At
    <2>3. CASE ChildEnds(n)
        BY <1>0, <2>3, StepsNode DEF SameRows, SameWork, durable, ChildEnds, At
    <2>4. CASE GateFails(n)
        BY <1>0, <2>4, StepsNode DEF SameRows, SameWork, durable, GateFails, At, IsChild
    <2>5. CASE EndBatch(n)
        BY <1>0, <2>5, StepsNode DEF SameRows, SameWork, durable, EndBatch, At, IsChild
    <2> QED BY <2>2, <2>3, <2>4, <2>5
<1>2. PICK e \in AnyEnd : /\ end'[n] = e
                          /\ Kind[n] = "batch" /\ e.outcome \in {"unavailable", "orphaned"} => item[n].used = 0
    <2>1. end \in [Nodes -> [outcome : TerminalRun \union {None}, auth : BOOLEAN]]
        BY <1>0 DEF TypeOK
    <2>2. {"failed", "cancelled", "timed-out", "budget-exhausted", "unavailable", "completed", "orphaned"}
          \subseteq TerminalRun
        BY DEF TerminalRun
    <2>3. CASE NoExecutor(n)
        <3>1. end'[n] = [outcome |-> "unavailable", auth |-> FALSE]
            BY <2>1, <2>3 DEF NoExecutor
        <3>2. end'[n] \in AnyEnd
            BY <2>2, <3>1 DEF AnyEnd
        <3>3. Kind[n] = "batch" => item[n].used = 0
            <4>1. SUFFICES ASSUME Kind[n] = "batch" PROVE item[n].used = 0
                OBVIOUS
            <4>2. Started(n) = {}
                BY <2>3, <4>1 DEF NoExecutor
            <4>3. item[n].used <= 0 /\ item[n].used \in Nat
                BY <1>0, <4>1, <4>2, UnstartedUnpaid, Entries, WorstType DEF NodeInv, Paying, Starts
            <4> QED BY <4>3
        <3> QED BY <3>2, <3>3
    <2>4. CASE ChildEnds(n)
        <3>1. PICK e \in Ends \union LocalEnds : end' = [end EXCEPT ![n] = e]
            BY <2>4 DEF ChildEnds
        <3>2. e \in AnyEnd
            <4>1. Ends \subseteq AnyEnd
                BY EndsAssumption, <2>2 DEF AnyEnd
            <4>2. [outcome : {"completed", "failed", "budget-exhausted"}, auth : {TRUE}] \subseteq AnyEnd
                BY <2>2 DEF AnyEnd
            <4>3. [outcome |-> "failed", auth |-> FALSE] \in AnyEnd
                BY <2>2 DEF AnyEnd
            <4> QED BY <3>1, <4>1, <4>2, <4>3 DEF LocalEnds
        <3> QED BY <2>1, <2>4, <3>1, <3>2 DEF ChildEnds
    <2>5. CASE GateFails(n)
        <3>1. end'[n] = [outcome |-> "failed", auth |-> FALSE]
            BY <2>1, <2>5 DEF GateFails
        <3>2. [outcome |-> "failed", auth |-> FALSE] \in AnyEnd
            BY <2>2 DEF AnyEnd
        <3> QED BY <2>5, <3>1, <3>2 DEF GateFails
    <2>6. CASE EndBatch(n)
        <3>1. PICK e \in BatchEnds(n) : end' = [end EXCEPT ![n] = e]
            BY <2>6 DEF EndBatch
        <3>2. item[n].auth \in BOOLEAN
            BY <1>0, Entries DEF Items
        <3>3. e \in AnyEnd /\ (e.outcome \in {"unavailable", "orphaned"} => item[n].used = 0)
            <4>1. \A o \in TerminalRun, a \in BOOLEAN : [outcome |-> o, auth |-> a] \in AnyEnd
                BY DEF AnyEnd
            <4>3. \/ \E o \in {"cancelled", "budget-exhausted", "completed", "failed"} :
                        e = [outcome |-> o, auth |-> item[n].auth]
                  \/ e = [outcome |-> "timed-out", auth |-> FALSE]
                  \/ item[n].used = 0 /\ e = [outcome |-> "orphaned", auth |-> FALSE]
                BY <3>1 DEF BatchEnds
            <4>2. \/ \E o \in TerminalRun \ {"unavailable", "orphaned"} :
                         e = [outcome |-> o, auth |-> item[n].auth]
                  \/ e = [outcome |-> "timed-out", auth |-> FALSE]
                  \/ item[n].used = 0 /\ e = [outcome |-> "orphaned", auth |-> FALSE]
                BY <2>2, <4>3
            <4>4. ASSUME NEW o \in TerminalRun \ {"unavailable", "orphaned"}, NEW a \in BOOLEAN,
                         e = [outcome |-> o, auth |-> a]
                  PROVE  e \in AnyEnd /\ e.outcome \notin {"unavailable", "orphaned"}
                BY <4>1, <4>4
            <4>5. "timed-out" \in TerminalRun \ {"unavailable", "orphaned"}
                BY <2>2
            <4> QED BY <2>2, <3>2, <4>1, <4>2, <4>4, <4>5
        <3> QED BY <2>1, <3>1, <3>3
    <2> QED BY <2>3, <2>4, <2>5, <2>6
<1>3. end'[n].outcome # None
    BY <1>2 DEF AnyEnd, TerminalRun, None
<1>4. AtStep(n)'
    BY <1>0, <1>1, <1>3, NoTurn, SameRowsAre DEF NodeInv, AtStep, HasReservation, HasAttempt, SameRows, SameWork
<1>5. Paying(n)'
    BY <1>0, <1>1, <1>2, SameRowsAre DEF NodeInv, Paying, SameRows, SameWork
<1> QED BY <1>0, <1>1, <1>4, <1>5, SameRowsKeep DEF NodeInv

\* The artifact is published, or the node throws.
LEMMA PublishKeeps ==
    ASSUME RunInv, [Next]_vars, NEW n \in Nodes, PublishArtifact(n) \/ Throw(n)
    PROVE  NodeInv(n)'
<1>0. TypeOK /\ NodeInv(n) /\ Needs[n] \subseteq Nodes /\ RunNode(n) /\ \A d \in Nodes : Done(d) => Done(d)'
    BY PlanAssumption, DoneStays DEF RunInv, NodeInv, RunNode
<1>1. /\ SameRows(n) /\ tries'[n] = tries[n] /\ end'[n] = end[n] /\ pc[n] \in {"artifact", "charge"}
      /\ pc'[n] = "idle" \/ (pc[n] = "artifact" /\ pc'[n] = "charge")
    BY <1>0, StepsNode DEF SameRows, SameWork, durable, PublishArtifact, Throw, At
<1>2. AtStep(n)'
    BY <1>0, <1>1, NoTurn, SameRowsAre DEF NodeInv, AtStep, HasReservation, HasAttempt, SameRows, SameWork
<1>3. Paying(n)'
    BY <1>0, <1>1, SameRowsAre DEF NodeInv, Paying, SameRows, SameWork
<1> QED BY <1>0, <1>1, <1>2, <1>3, SameRowsKeep DEF NodeInv

\* The reservation that recovery has kept is used again.
LEMMA ReserveKeptKeeps ==
    ASSUME RunInv, [Next]_vars, NEW n \in Nodes, Reserve(n), reuse[n] # 0
    PROVE  NodeInv(n)'
<1>0. TypeOK /\ NodeInv(n) /\ Needs[n] \subseteq Nodes /\ RunNode(n) /\ \A d \in Nodes : Done(d) => Done(d)'
    BY PlanAssumption, DoneStays DEF RunInv, NodeInv, RunNode
<1>1. /\ SameRows(n) /\ tries'[n] = tries[n] /\ end'[n] = end[n] /\ pc[n] = "reserve" /\ pc'[n] = "admit"
      /\ CurrentResv(n) = reuse[n]
    BY <1>0, StepsNode DEF SameRows, SameWork, durable, Reserve, At, CurrentResv
<1>2. Kind[n] = "batch" /\ Owned(n, reuse[n]) /\ Touched(n, reuse[n])
    BY <1>0, NoTurn DEF NodeInv, Kept, Touched
<1>3. AtStep(n)'
    BY <1>0, <1>1, <1>2, NoTurn, SameRowsAre DEF NodeInv, AtStep, HasReservation, HasAttempt, SameRows, SameWork
<1>4. Paying(n)'
    BY <1>0, <1>1, <1>2, SameRowsAre DEF NodeInv, Paying, SameRows, SameWork
<1>5. Counted(n)'
    BY <1>2 DEF Counted
<1>6. Referred(n)'
    BY <1>0, <1>1, SameRowsAre DEF NodeInv, Referred, SameRows, SameWork
<1>7. Replays(n)'
    BY <1>0, <1>1, SameRowsKeep
<1> QED BY <1>0, <1>1, <1>3, <1>4, <1>5, <1>6, <1>7, SameRowsKeep DEF NodeInv

\* Only the status of a node changes: QueueNode, EvaluateGate.
LEMMA StatusKeeps ==
    ASSUME RunInv, [Next]_vars, NEW n \in Nodes, QueueNode(n) \/ EvaluateGate(n)
    PROVE  NodeInv(n)'
<1>0. TypeOK /\ NodeInv(n) /\ Needs[n] \subseteq Nodes /\ RunNode(n) /\ \A d \in Nodes : Done(d) => Done(d)'
    BY PlanAssumption, DoneStays DEF RunInv, NodeInv, RunNode
<1>1. /\ SameWork(n) /\ tries'[n] = tries[n]
      /\ \/ pc[n] = "queue" /\ pc'[n] = "head"
         \/ pc[n] = "run" /\ Kind[n] = "gate" /\ pc'[n] = "artifact"
    BY <1>0, StepsNode DEF SameWork, durable, QueueNode, EvaluateGate, At
<1>2. node[n].outcome = None
    BY <1>0, <1>1 DEF NodeInv, AtStep
<1>3. /\ node'[n].outcome = None
      /\ IsChild(n) => node'[n].status \in {"planned", "queued", "running"}
      /\ node'[n].status \in {"planned", "queued"} => node[n].status \in {"planned", "queued"}
    <2>1. CASE UNCHANGED node
        BY <1>0, <1>2, <2>1 DEF NodeInv, AtStatus
    <2>2. CASE QueueNode(n) /\ node' # node
        <3>1. SetNode(n, "queued", None) /\ node[n].status = "planned"
            BY <2>2 DEF QueueNode
        <3>2. node'[n] = [status |-> "queued", outcome |-> None]
            BY <1>0, <3>1, SetsNode DEF NodeStatus
        <3> QED BY <3>1, <3>2
    <2>3. CASE EvaluateGate(n)
        <3>1. PICK s \in {"running", "failed"} : SetNode(n, s, node[n].outcome)
            BY <2>3 DEF EvaluateGate
        <3>2. node'[n] = [status |-> s, outcome |-> None]
            BY <1>0, <1>2, <3>1, SetsNode DEF NodeStatus, TerminalRun
        <3>3. ~IsChild(n)
            BY <2>3 DEF EvaluateGate, IsChild
        <3> QED BY <3>2, <3>3
    <2> QED BY <1>1, <2>1, <2>2, <2>3 DEF QueueNode, EvaluateGate
<1>4. pc'[n] = "artifact" => end'[n].outcome # None /\ ~IsChild(n)
    <2>1. SUFFICES ASSUME EvaluateGate(n) PROVE end'[n].outcome # None /\ ~IsChild(n)
        BY <1>0, <1>1, StepsNode DEF QueueNode, EvaluateGate
    <2>2. PICK x \in {"completed", "failed", "budget-exhausted"} :
              end' = [end EXCEPT ![n] = [outcome |-> x, auth |-> TRUE]]
        BY <2>1 DEF EvaluateGate
    <2>3. end'[n] = [outcome |-> x, auth |-> TRUE]
        BY <1>0, <2>2 DEF TypeOK
    <2> QED BY <2>1, <2>3 DEF None, EvaluateGate, IsChild
<1>5. AtStep(n)'
    BY <1>0, <1>1, <1>3, <1>4, NoTurn, SameWorkIs DEF NodeInv, AtStep, HasReservation, HasAttempt, SameWork
<1>6. AtStatus(n)'
    BY <1>0, <1>1, <1>3, NoTurn, SameWorkIs DEF NodeInv, AtStatus, SameWork, Done, None
<1>7. Replays(n)'
    BY <1>0, <1>1, <1>3, SameWorkIs DEF NodeInv, Replays, SameWork, Protected, IsChild
<1>8. Counted(n)'
    BY <1>0, <1>1, NoTurn, SameWorkIs DEF NodeInv, Counted
<1>9. Referred(n)'
    BY <1>0, <1>1, SameWorkIs DEF NodeInv, Referred, SameWork
<1>11. Paying(n)'
    BY <1>0, <1>1, <1>4, SameWorkIs DEF NodeInv, Paying, SameWork, IsChild
<1>10. Kept(n)'
    BY <1>0, <1>1, NoTurn, SameWorkIs DEF NodeInv, Kept, SameWork
<1> QED BY <1>5, <1>6, <1>7, <1>8, <1>9, <1>10, <1>11 DEF NodeInv

\* The node is settled.
LEMMA SettleKeeps ==
    ASSUME RunInv, [Next]_vars, NEW n \in Nodes, SettleNode(n)
    PROVE  NodeInv(n)'
<1>0. TypeOK /\ NodeInv(n) /\ Needs[n] \subseteq Nodes /\ RunNode(n) /\ \A d \in Nodes : Done(d) => Done(d)'
    BY PlanAssumption, DoneStays DEF RunInv, NodeInv, RunNode
<1>1. /\ SameWork(n) /\ tries'[n] = tries[n] /\ pc[n] = "settle" /\ pc'[n] = "done"
    BY <1>0, StepsNode DEF SameWork, durable, SettleNode, Return, At
<1>2. PICK o \in TerminalRun : o = SettledOutcome(end[n]) /\ node'[n] = [status |-> o, outcome |-> o]
    <2>1. end[n].outcome \in TerminalRun
        BY <1>0, <1>1 DEF NodeInv, AtStep, TypeOK
    <2>2. SettledOutcome(end[n]) \in TerminalRun
        BY <2>1, SettledType
    <2> QED BY <1>0, <2>2, SetsNode DEF SettleNode, NodeStatus
<1>3. node'[n].status \notin {"planned", "queued"} /\ node'[n].outcome = o /\ o # None
    BY <1>2 DEF TerminalRun, None
<1>4. AtStep(n)'
    BY <1>0, <1>1, NoTurn, SameWorkIs DEF NodeInv, AtStep, HasReservation, HasAttempt
<1>5. AtStatus(n)'
    <2>1. IsChild(n) /\ o = "completed" => Completed(n)
        BY <1>0, <1>1, <1>2 DEF NodeInv, AtStep
    <2>2. Done(n)' => o = "completed"
        BY <1>3 DEF Done
    <2> QED BY <1>0, <1>1, <1>3, <2>1, <2>2, NoTurn, SameWorkIs DEF NodeInv, AtStatus, SameWork
<1>6. Replays(n)'
    BY <1>0, <1>1, <1>3, SameWorkIs DEF NodeInv, Replays, SameWork, Protected
<1>7. Counted(n)'
    BY <1>0, <1>1, NoTurn, SameWorkIs DEF NodeInv, Counted
<1>8. Referred(n)'
    BY <1>0, <1>1, SameWorkIs DEF NodeInv, Referred, SameWork
<1>10. Paying(n)'
    BY <1>0, <1>1, SameWorkIs DEF NodeInv, Paying, SameWork
<1>9. Kept(n)'
    BY <1>0, <1>1, NoTurn, SameWorkIs DEF NodeInv, Kept, SameWork
<1> QED BY <1>4, <1>5, <1>6, <1>7, <1>8, <1>9, <1>10 DEF NodeInv

\* The last attempt of a node is marked, with its reservation.
LEMMA LastMarked ==
    ASSUME TypeOK, NEW n \in Nodes, Latest(n) \in DOMAIN atts[n], NEW x \in Attempts,
           atts' = [atts EXCEPT ![n][Latest(n)] = x], x.resv = Last(n).resv
    PROVE  /\ DOMAIN atts'[n] = DOMAIN atts[n] /\ Latest(n)' = Latest(n) /\ Last(n)' = x
           /\ atts'[n] # <<>> /\ atts[n] # <<>>
           /\ \A j \in DOMAIN atts[n] : /\ atts'[n][j].resv = atts[n][j].resv
                                        /\ j # Latest(n) => atts'[n][j] = atts[n][j]
           /\ \A i, j \in DOMAIN atts[n] : i < j => atts'[n][i] = atts[n][i]
           /\ atts'[n][Latest(n)] = x
           /\ x.child = Last(n).child =>
                 /\ Started(n)' = Started(n)
                 /\ \A k : Touched(n, k)' = Touched(n, k)
                 /\ \A j \in DOMAIN atts[n] : atts'[n][j].child = atts[n][j].child
<1>1. /\ DOMAIN atts'[n] = DOMAIN atts[n] /\ Len(atts'[n]) = Len(atts[n])
      /\ atts'[n][Latest(n)] = x
      /\ \A j \in DOMAIN atts[n] : j # Latest(n) => atts'[n][j] = atts[n][j]
    BY Marks
<1>2. Latest(n)' = Latest(n) /\ Last(n)' = x
    BY <1>1 DEF Latest, Last
<1>3. DOMAIN atts[n] = 1..Latest(n) /\ Latest(n) \in Nat /\ atts[n] # <<>>
    BY Entries
<1>4. atts'[n] # <<>>
    BY <1>1, <1>3
<1>5. \A i, j \in DOMAIN atts[n] : i < j => atts'[n][i] = atts[n][i]
    BY <1>1, <1>3
<1>6. \A j \in DOMAIN atts[n] : atts'[n][j].resv = atts[n][j].resv
    BY <1>1 DEF Last
<1>7. ASSUME x.child = Last(n).child
      PROVE  /\ Started(n)' = Started(n)
             /\ \A k : Touched(n, k)' = Touched(n, k)
             /\ \A j \in DOMAIN atts[n] : atts'[n][j].child = atts[n][j].child
    <2>1. \A j \in DOMAIN atts[n] : atts'[n][j].child = atts[n][j].child
        BY <1>1, <1>7 DEF Last
    <2>2. Started(n)' = Started(n)
        BY <1>1, <2>1 DEF Started
    <2>3. \A k : Touched(n, k)' = Touched(n, k)
        BY <1>1, <1>6, <2>1 DEF Touched
    <2> QED BY <2>1, <2>2, <2>3
<1> QED BY <1>1, <1>2, <1>3, <1>4, <1>5, <1>6, <1>7

\* The terminal of a child is recorded, or its item starts or ends.
LEMMA MarkKeeps ==
    ASSUME RunInv, [Next]_vars, NEW n \in Nodes, RecordTerminal(n) \/ StartItem(n) \/ EndItem(n)
    PROVE  NodeInv(n)'
<1>0. TypeOK /\ NodeInv(n) /\ Needs[n] \subseteq Nodes /\ RunNode(n) /\ \A d \in Nodes : Done(d) => Done(d)'
    BY PlanAssumption, DoneStays DEF RunInv, NodeInv, RunNode
<1>1. /\ UNCHANGED <<node, resv>> /\ tries'[n] = tries[n] /\ reuse'[n] = reuse[n] /\ end'[n] = end[n]
      /\ \/ RecordTerminal(n) /\ pc[n] = "terminal" /\ pc'[n] = "artifact" /\ item'[n] = item[n]
         \/ StartItem(n) /\ Kind[n] = "batch" /\ pc[n] \in {"run", "ran"} /\ pc'[n] = "item"
         \/ EndItem(n) /\ pc[n] = "item" /\ pc'[n] = "ran"
    BY <1>0, StepsNode DEF RecordTerminal, StartItem, EndItem, At
<1>2. /\ node[n].outcome = None /\ IsChild(n) /\ Owned(n, CurrentResv(n))
      /\ Latest(n) \in DOMAIN atts[n] /\ Last(n).resv = CurrentResv(n)
      /\ pc[n] \in {"run", "item", "ran"} => Last(n).child
    BY <1>0, <1>1, Current DEF NodeInv, AtStep, IsChild, HasReservation, HasAttempt
<1>3. PICK x \in Attempts :
          /\ atts' = [atts EXCEPT ![n][Latest(n)] = x]
          /\ x.child = Last(n).child /\ x.resv = Last(n).resv
          /\ pc[n] = "terminal" => x.status = end[n].outcome /\ x.auth = end[n].auth
    <2>1. CASE RecordTerminal(n)
        <3>1. end[n].outcome # None
            BY <1>0, <2>1 DEF NodeInv, AtStep, RecordTerminal, At
        <3> QED BY <1>0, <1>2, <2>1, <3>1, TerminalMarks
    <2>2. CASE StartItem(n) \/ EndItem(n)
        <3>1. pc[n] # "terminal"
            BY <2>2 DEF StartItem, EndItem, At
        <3> QED BY <1>0, <1>2, <2>2, <3>1, ItemMarks
    <2> QED BY <2>1, <2>2, <1>1
<1>4. /\ DOMAIN atts'[n] = DOMAIN atts[n] /\ Latest(n)' = Latest(n) /\ Last(n)' = x
      /\ atts'[n] # <<>> /\ atts[n] # <<>>
      /\ \A j \in DOMAIN atts[n] : atts'[n][j].resv = atts[n][j].resv /\ atts'[n][j].child = atts[n][j].child
      /\ \A i, j \in DOMAIN atts[n] : i < j => atts'[n][i] = atts[n][i]
      /\ Started(n)' = Started(n) /\ \A k : Touched(n, k)' = Touched(n, k)
    <2>1. /\ DOMAIN atts'[n] = DOMAIN atts[n] /\ Latest(n)' = Latest(n) /\ Last(n)' = x
          /\ atts'[n] # <<>> /\ atts[n] # <<>>
          /\ \A j \in DOMAIN atts[n] : /\ atts'[n][j].resv = atts[n][j].resv
                                       /\ j # Latest(n) => atts'[n][j] = atts[n][j]
          /\ \A i, j \in DOMAIN atts[n] : i < j => atts'[n][i] = atts[n][i]
        BY <1>0, <1>2, <1>3, LastMarked
    <2>2. Started(n)' = Started(n) /\ \A j \in DOMAIN atts[n] : atts'[n][j].child = atts[n][j].child
        BY <1>0, <1>2, <1>3, LastMarked
    <2>3. \A k : Touched(n, k)' = Touched(n, k)
        BY <2>1, <2>2 DEF Touched
    <2> QED BY <2>1, <2>2, <2>3
<1>5. CurrentResv(n)' = CurrentResv(n) /\ \A k : Owned(n, k)' = Owned(n, k)
    BY <1>1 DEF CurrentResv, Owned
<1>6. \A k : Paid(n, k)' = Paid(n, k)
    BY <1>1, <1>4 DEF Paid
<1>7. AtStep(n)'
    BY <1>0, <1>1, <1>2, <1>3, <1>4, <1>5, NoTurn DEF NodeInv, AtStep, HasReservation, HasAttempt, IsChild
<1>8. AtStatus(n)'
    <2>1. ~Done(n)'
        BY <1>1, <1>2 DEF Done, None
    <2> QED BY <1>0, <1>1, <1>2, <1>4, <2>1, NoTurn DEF NodeInv, AtStatus
<1>9. Replays(n)'
    BY <1>0, <1>1, <1>4 DEF NodeInv, Replays, Protected
<1>10. Counted(n)'
    BY <1>0, <1>1, <1>4, NoTurn DEF NodeInv, Counted
<1>11. Referred(n)'
    <2>1. \A i \in DOMAIN atts'[n] : atts'[n][i].resv \in DOMAIN resv'[n]
        BY <1>0, <1>1, <1>4 DEF NodeInv, Referred
    <2>2. \A i, j \in DOMAIN atts'[n] : i < j =>
              /\ atts'[n][i].resv = atts'[n][j].resv =>
                    /\ Kind[n] = "batch"
                    /\ \E c \in DOMAIN atts'[n] :
                          c <= i /\ atts'[n][c].child /\ atts'[n][c].resv = atts'[n][i].resv
              /\ atts'[n][i].child /\ Owned(n, atts[n][i].resv) => atts'[n][i].resv <= atts'[n][j].resv
        BY <1>0, <1>4 DEF NodeInv, Referred
    <2>3. \A i \in DOMAIN atts'[n] : Owned(n, atts[n][i].resv)' = Owned(n, atts[n][i].resv)
        BY <1>1, <1>4 DEF Owned
    <2> QED BY <1>1, <2>1, <2>2, <2>3 DEF Referred
<1>12. Kept(n)'
    BY <1>0, <1>1, <1>4, <1>5, NoTurn DEF NodeInv, Kept
<1>13. Paying(n)'
    <2>1. /\ item[n].used \in Nat /\ item[n].used <= ItemAttempts /\ Len(resv[n]) \in Nat
          /\ CurrentResv(n) \in Nat /\ CurrentResv(n) <= Len(resv[n])
        BY <1>0, <1>2, Entries, WorstType DEF Owned
    <2>2. Touched(n, CurrentResv(n)) \/ RecordTerminal(n)
        BY <1>1, <1>2 DEF Touched, Last
    <2>3. CASE RecordTerminal(n)
        <3>1. Starts(n)' = Starts(n)
            BY <1>1, <1>4, <2>3 DEF Starts, RecordTerminal
        <3>2. pc[n] = "terminal" /\ pc'[n] = "artifact" /\ item'[n] = item[n]
            BY <2>3, <1>1 DEF RecordTerminal, StartItem, EndItem, At
        <3> QED BY <1>0, <1>1, <1>4, <1>5, <1>6, <3>1, <3>2 DEF NodeInv, Paying
    <2>4. CASE StartItem(n)
        <3>1. /\ item'[n].used = item[n].used + 1 /\ item'[n].status = "running"
              /\ item[n].status # "succeeded" /\ item[n].used < ItemAttempts /\ Kind[n] = "batch"
              /\ pc'[n] = "item"
            BY <1>0, <2>4, StepsNode DEF StartItem, ItemLeft, TypeOK
        <3>2. ItemAttempts <= Paid(n, CurrentResv(n))
            BY <1>0, <1>1, <1>2, <2>2, <3>1 DEF NodeInv, Paying, Owned, StartItem, RecordTerminal, At
        <3>3. Paid(n, CurrentResv(n)) <= Paid(n, Len(resv[n]))
            BY <1>0, <2>1, PaidUpTo
        <3>4. Paid(n, CurrentResv(n)) \in Nat /\ Paid(n, Len(resv[n])) \in Nat
            BY <1>0, PaidNat
        <3>5. Starts(n)' <= Paid(n, Len(resv[n]))
            <4>1. Starts(n)' = item[n].used + 1
                BY <3>1 DEF Starts
            <4> QED BY <2>1, <3>1, <3>2, <3>3, <3>4, <4>1, NumbersAssumption
        <3>6. \A k \in DOMAIN resv[n] : Touched(n, k) /\ Owned(n, k) => ItemAttempts <= Paid(n, k)
            BY <1>0, <3>1 DEF NodeInv, Paying
        <3>7. /\ resv'[n] = resv[n] /\ Kind[n] = "batch"
              /\ (\A k : Touched(n, k)' = Touched(n, k)) /\ (\A k : Owned(n, k)' = Owned(n, k))
              /\ \A k : Paid(n, k)' = Paid(n, k)
            BY <1>1, <1>4, <1>5, <1>6, <3>1
        <3>8. \A k \in DOMAIN resv[n] : Touched(n, k) => resv[n][k].state # "refunded"
            BY <1>0 DEF NodeInv, Paying
        <3>9. \A k \in DOMAIN resv'[n] : Touched(n, k)' => resv'[n][k].state # "refunded"
            BY <3>7, <3>8
        <3>10. Starts(n)' <= Paid(n, Len(resv[n]))'
            BY <3>5, <3>7
        <3>11. \A k \in DOMAIN resv'[n] : Touched(n, k)' /\ Owned(n, k)' => ItemAttempts <= Paid(n, k)'
            BY <3>6, <3>7
        <3> QED BY <3>1, <3>7, <3>9, <3>10, <3>11 DEF Paying
    <2>5. CASE EndItem(n)
        <3>1. item'[n].used = item[n].used /\ pc[n] = "item" /\ pc'[n] = "ran"
            <4>1. PICK z, a : item' = [item EXCEPT ![n].status = z, ![n].auth = a]
                BY <2>5 DEF EndItem
            <4>2. item \in [Nodes -> Items] /\ item[n] \in Items
                BY <1>0 DEF TypeOK
            <4>3. item'[n] = [item[n] EXCEPT !.status = z, !.auth = a]
                BY <4>1, <4>2
            <4>4. item'[n].used = item[n].used
                BY <4>2, <4>3 DEF Items
            <4> QED BY <1>0, <2>5, <4>4, StepsNode DEF EndItem, At
        <3>2. Starts(n)' = Starts(n)
            BY <1>4, <3>1 DEF Starts
        <3>3. Kind[n] = "batch" /\ item[n].status = "running"
            BY <1>0, <3>1 DEF NodeInv, Paying, AtStep
        <3> QED BY <1>0, <1>1, <1>4, <1>5, <1>6, <3>1, <3>2, <3>3 DEF NodeInv, Paying
    <2> QED BY <2>3, <2>4, <2>5
<1> QED BY <1>7, <1>8, <1>9, <1>10, <1>11, <1>12, <1>13 DEF NodeInv

\* A node is admitted.
LEMMA AdmitKeeps ==
    ASSUME RunInv, [Next]_vars, NEW n \in Nodes, Admit(n)
    PROVE  NodeInv(n)'
<1>0. TypeOK /\ NodeInv(n) /\ Needs[n] \subseteq Nodes /\ RunNode(n) /\ \A d \in Nodes : Done(d) => Done(d)'
    BY PlanAssumption, DoneStays DEF RunInv, NodeInv, RunNode
<1>1. /\ UNCHANGED <<resv, item>> /\ tries'[n] = tries[n] /\ reuse'[n] = reuse[n] /\ end'[n] = end[n]
      /\ pc[n] = "admit" /\ pc'[n] = IF IsChild(n) THEN "start" ELSE "run"
    BY <1>0, StepsNode DEF Admit, At
<1>2. /\ node[n].outcome = None /\ node'[n].outcome = None /\ node'[n].status = "running"
      /\ Owned(n, CurrentResv(n)) /\ CurrentResv(n) \in Nat /\ CurrentResv(n) \in DOMAIN resv[n]
    <2>1. node[n].outcome = None /\ Owned(n, CurrentResv(n))
        BY <1>0, <1>1 DEF NodeInv, AtStep, HasReservation
    <2>2. SetNode(n, "running", None)
        BY <2>1 DEF Admit
    <2> QED BY <1>0, <1>1, <2>1, <2>2, SetsNode, Current DEF NodeStatus, HasReservation
<1>3. /\ Latest(n)' = Latest(n) + 1 /\ DOMAIN atts'[n] = DOMAIN atts[n] \union {Latest(n) + 1}
      /\ Latest(n) + 1 \notin DOMAIN atts[n]
      /\ Last(n)' = [status |-> "admitted", child |-> FALSE, resv |-> CurrentResv(n),
                     auth |-> FALSE, risky |-> FALSE]
      /\ atts'[n][Latest(n) + 1] = Last(n)'
      /\ \A i \in DOMAIN atts[n] : atts'[n][i] = atts[n][i]
    BY <1>0, <1>2, Admits
<1> PICK l \in Nat : l = Latest(n) + 1
    BY <1>0, Entries
<1>4. /\ DOMAIN atts'[n] = DOMAIN atts[n] \union {l} /\ l \notin DOMAIN atts[n]
      /\ \A i \in DOMAIN atts[n] : i < l /\ atts'[n][i] = atts[n][i]
      /\ ~atts'[n][l].child /\ atts'[n][l].resv = CurrentResv(n)
      /\ Latest(n)' = l /\ ~Last(n)'.child /\ Last(n)'.resv = CurrentResv(n) /\ atts'[n] # <<>>
    <2>1. DOMAIN atts[n] = 1..Latest(n) /\ Latest(n) \in Nat
        BY <1>0, Entries
    <2>2. \A i \in DOMAIN atts[n] : i < l
        BY <2>1
    <2>3. atts'[n] # <<>>
        BY <1>3
    <2> QED BY <1>3, <2>2, <2>3
<1>5. /\ Started(n)' = Started(n)
      /\ \A k : Touched(n, k)' = Touched(n, k)
    <2>1. Started(n)' = Started(n)
        BY <1>4 DEF Started
    <2>2. \A k : Touched(n, k)' = Touched(n, k)
        BY <1>4 DEF Touched
    <2> QED BY <2>1, <2>2
<1>6. /\ CurrentResv(n)' = CurrentResv(n) /\ (\A k : Owned(n, k)' = Owned(n, k))
      /\ \A k : Paid(n, k)' = Paid(n, k)
    <2>1. CurrentResv(n)' = CurrentResv(n) /\ (\A k : Owned(n, k)' = Owned(n, k))
        BY <1>1 DEF CurrentResv, Owned
    <2>2. \A k : Paid(n, k)' = Paid(n, k)
        BY <1>1, <1>5 DEF Paid
    <2> QED BY <2>1, <2>2
<1>7. /\ Starts(n)' = Starts(n) /\ PreparedBatch(n)' = PreparedBatch(n)
    BY <1>1, <1>5 DEF Starts, PreparedBatch
<1>8. AtStep(n)'
    BY <1>0, <1>1, <1>2, <1>4, <1>6, NoTurn DEF NodeInv, AtStep, HasReservation, HasAttempt, IsChild
<1>9. AtStatus(n)'
    <2>1. ~Done(n)' /\ \A d \in Needs[n] : Done(d)
        BY <1>0, <1>1, <1>2 DEF Done, None, NodeInv, AtStep
    <2> QED BY <1>0, <1>2, <2>1, NoTurn DEF AtStatus
<1>10. Replays(n)'
    <2>1. ASSUME Protected(n), NEW i \in DOMAIN atts[n], atts[n][i].child PROVE atts[n][i].auth
        BY <1>0, <1>1, <2>1 DEF NodeInv, Replays, Proved
    <2>2. ASSUME Protected(n), NEW i \in DOMAIN atts'[n], NEW j \in DOMAIN atts'[n], i < j, atts'[n][i].child
          PROVE  atts'[n][i].auth
        BY <1>4, <2>1, <2>2
    <2>3. pc'[n] \notin {"queue", "head", "reserve", "admit"} /\ Protected(n)' = Protected(n)
        BY <1>1 DEF Protected
    <2> QED BY <1>2, <2>2, <2>3 DEF Replays
<1>11. Counted(n)'
    BY <1>0, <1>1, <1>5, NoTurn DEF NodeInv, Counted
<1>12. Kept(n)'
    <2>1. \A i \in DOMAIN atts'[n] : atts'[n][i].child => i \in DOMAIN atts[n] /\ atts'[n][i] = atts[n][i]
        BY <1>4
    <2>2. ASSUME reuse[n] # 0
          PROVE  /\ Kind[n] = "batch" /\ Owned(n, reuse[n])
                 /\ \E c \in DOMAIN atts'[n] : atts'[n][c].child /\ atts'[n][c].resv = reuse[n]
        BY <1>0, <1>4, <2>2, NoTurn DEF NodeInv, Kept
    <2>3. ASSUME reuse[n] # 0, NEW i \in DOMAIN atts'[n], atts'[n][i].child, Owned(n, atts'[n][i].resv)
          PROVE  atts'[n][i].resv <= reuse[n]
        BY <1>0, <2>1, <2>3, NoTurn DEF NodeInv, Kept
    <2>4. \A k : Owned(n, k)' = Owned(n, k)
        BY <1>6
    <2>5. ~Turn(n)' /\ Pending(n)' = {} /\ phase' \in {"wave", "thrown"} /\ reuse'[n] = reuse[n]
        BY <1>0, <1>1, NoTurn
    <2> QED BY <2>2, <2>3, <2>4, <2>5 DEF Kept
<1>13. Paying(n)'
    BY <1>0, <1>1, <1>5, <1>6, <1>7 DEF NodeInv, Paying
<1>14. Referred(n)'
    <2>1. \A i \in DOMAIN atts'[n] : atts'[n][i].resv \in DOMAIN resv[n]
        BY <1>0, <1>2, <1>4 DEF NodeInv, Referred
    <2>2. ASSUME NEW i \in DOMAIN atts[n], atts[n][i].resv = CurrentResv(n)
          PROVE  /\ Kind[n] = "batch"
                 /\ \E c \in DOMAIN atts[n] : c <= i /\ atts[n][c].child /\ atts[n][c].resv = CurrentResv(n)
        <3>1. reuse[n] # 0 /\ CurrentResv(n) = reuse[n]
            BY <1>0, <1>1, <2>2 DEF NodeInv, Referred, CurrentResv
        <3>2. Kind[n] = "batch"
            BY <1>0, <3>1 DEF NodeInv, Kept
        <3>3. PICK c \in DOMAIN atts[n] : atts[n][c].child /\ atts[n][c].resv = CurrentResv(n)
            BY <1>0, <3>1, NoTurn DEF NodeInv, Kept
        <3>4. i \in Int /\ c \in Int
            BY <1>0, Entries
        <3>5. CASE c <= i
            BY <3>2, <3>3, <3>5
        <3>6. CASE i < c
            BY <1>0, <2>2, <3>2, <3>3, <3>6 DEF NodeInv, Referred
        <3> QED BY <3>4, <3>5, <3>6
    <2>3. ASSUME NEW i \in DOMAIN atts[n], atts[n][i].child, Owned(n, atts[n][i].resv)
          PROVE  atts[n][i].resv <= CurrentResv(n)
        <3>1. CASE reuse[n] # 0
            BY <1>0, <2>3, <3>1, NoTurn DEF NodeInv, Kept, CurrentResv
        <3>2. CASE reuse[n] = 0
            BY <1>0, <2>3, <3>2, Entries DEF CurrentResv, Owned
        <3> QED BY <3>1, <3>2
    <2>4. ASSUME NEW i \in DOMAIN atts'[n], NEW j \in DOMAIN atts'[n], i < j,
                 atts'[n][i].resv = atts'[n][j].resv
          PROVE  /\ Kind[n] = "batch"
                 /\ \E c \in DOMAIN atts'[n] :
                       c <= i /\ atts'[n][c].child /\ atts'[n][c].resv = atts'[n][i].resv
        <3>1. i \in DOMAIN atts[n] /\ (j \in DOMAIN atts[n] \/ j = l)
            <4>1. DOMAIN atts[n] \subseteq Int
                BY <1>0, Entries
            <4> QED BY <1>4, <2>4, <4>1
        <3>2. CASE j \in DOMAIN atts[n]
            <4>1. atts[n][i].resv = atts[n][j].resv
                BY <1>4, <2>4, <3>1, <3>2
            <4>2. PICK c \in DOMAIN atts[n] : c <= i /\ atts[n][c].child /\ atts[n][c].resv = atts[n][i].resv
                BY <1>0, <2>4, <3>1, <3>2, <4>1 DEF NodeInv, Referred
            <4>3. Kind[n] = "batch"
                BY <1>0, <2>4, <3>1, <3>2, <4>1 DEF NodeInv, Referred
            <4> QED BY <1>4, <3>1, <4>2, <4>3
        <3>3. CASE j = l
            <4>1. atts[n][i].resv = CurrentResv(n) /\ atts'[n][i].resv = CurrentResv(n)
                BY <1>4, <2>4, <3>1, <3>3
            <4>2. PICK c \in DOMAIN atts[n] : c <= i /\ atts[n][c].child /\ atts[n][c].resv = CurrentResv(n)
                BY <2>2, <3>1, <4>1
            <4> QED BY <1>4, <2>2, <3>1, <4>1, <4>2
        <3> QED BY <3>1, <3>2, <3>3
    <2>5. ASSUME NEW i \in DOMAIN atts'[n], NEW j \in DOMAIN atts'[n], i < j,
                 atts'[n][i].child, Owned(n, atts'[n][i].resv)
          PROVE  atts'[n][i].resv <= atts'[n][j].resv
        BY <1>0, <1>4, <2>3, <2>5 DEF NodeInv, Referred
    <2>6. ASSUME pc'[n] = "start", reuse[n] = 0, NEW i \in DOMAIN atts'[n], i # l
          PROVE  atts'[n][i].resv # CurrentResv(n)
        BY <1>0, <1>1, <1>4, <2>6 DEF NodeInv, Referred
    <2>7. \A i \in DOMAIN atts'[n] : Owned(n, atts[n][i].resv)' = Owned(n, atts'[n][i].resv)
        BY <1>1 DEF Owned
    <2>8. pc'[n] # "admit" /\ resv'[n] = resv[n] /\ reuse'[n] = reuse[n] /\ Latest(n)' = l
        BY <1>1, <1>4
    <2> QED BY <1>6, <2>1, <2>4, <2>5, <2>6, <2>7, <2>8 DEF Referred
<1> QED BY <1>8, <1>9, <1>10, <1>11, <1>12, <1>13, <1>14 DEF NodeInv

\* A child starts: on a reservation that recovery has kept, or the first time on a new one.
LEMMA StartKeeps ==
    ASSUME RunInv, [Next]_vars, NEW n \in Nodes, StartChild(n)
    PROVE  NodeInv(n)'
<1>0. TypeOK /\ NodeInv(n) /\ Needs[n] \subseteq Nodes /\ RunNode(n) /\ \A d \in Nodes : Done(d) => Done(d)'
    BY PlanAssumption, DoneStays DEF RunInv, NodeInv, RunNode
<1>1. /\ UNCHANGED <<node, resv, item>> /\ tries'[n] = tries[n] /\ reuse'[n] = reuse[n] /\ end'[n] = end[n]
      /\ pc[n] = "start" /\ pc'[n] = "run"
    BY <1>0, StepsNode DEF StartChild, At
<1> PICK l \in Nat : l = Latest(n)
    BY <1>0, Entries
<1> PICK k \in Nat : k = CurrentResv(n)
    BY <1>0, <1>1, Current DEF HasReservation, HasAttempt
<1>2. /\ node[n].outcome = None /\ IsChild(n) /\ Owned(n, k) /\ k \in DOMAIN resv[n]
      /\ l \in DOMAIN atts[n] /\ atts[n][l].resv = k /\ ~atts[n][l].child
    <2>1. node[n].outcome = None /\ IsChild(n) /\ Owned(n, k)
        BY <1>0, <1>1 DEF NodeInv, AtStep, HasReservation, HasAttempt
    <2>2. l \in DOMAIN atts[n] /\ Last(n).resv = k /\ ~Last(n).child
        BY <1>0, <1>1, Current DEF NodeInv, AtStep, HasAttempt
    <2> QED BY <2>1, <2>2 DEF Owned, Last
<1>3. PICK x \in Attempts : /\ atts' = [atts EXCEPT ![n][l] = x]
                            /\ x.child = TRUE /\ x.resv = Last(n).resv
    BY <1>0, <1>2, StartsMarks
<1>4. /\ DOMAIN atts'[n] = DOMAIN atts[n] /\ Latest(n)' = l /\ Last(n)' = x
      /\ atts'[n] # <<>> /\ atts[n] # <<>> /\ atts'[n][l] = x
      /\ \A j \in DOMAIN atts[n] : atts'[n][j].resv = atts[n][j].resv
      /\ \A j \in DOMAIN atts[n] : j # l => atts'[n][j] = atts[n][j]
      /\ \A i, j \in DOMAIN atts[n] : i < j => i # l /\ atts'[n][i] = atts[n][i]
    <2>1. /\ DOMAIN atts'[n] = DOMAIN atts[n] /\ Latest(n)' = l /\ Last(n)' = x
          /\ atts'[n] # <<>> /\ atts[n] # <<>> /\ atts'[n][l] = x
          /\ \A j \in DOMAIN atts[n] : atts'[n][j].resv = atts[n][j].resv
          /\ \A j \in DOMAIN atts[n] : j # l => atts'[n][j] = atts[n][j]
        <3>1. atts' = [atts EXCEPT ![n][Latest(n)] = x] /\ Latest(n) \in DOMAIN atts[n]
            BY <1>2, <1>3
        <3>2. /\ DOMAIN atts'[n] = DOMAIN atts[n] /\ Latest(n)' = Latest(n) /\ Last(n)' = x
              /\ atts'[n] # <<>> /\ atts[n] # <<>> /\ atts'[n][Latest(n)] = x
            BY <1>0, <1>3, <3>1, LastMarked
        <3>3. \A j \in DOMAIN atts[n] : /\ atts'[n][j].resv = atts[n][j].resv
                                        /\ j # Latest(n) => atts'[n][j] = atts[n][j]
            BY <1>0, <1>3, <3>1, LastMarked
        <3> QED BY <3>2, <3>3
    <2>2. DOMAIN atts[n] = 1..l
        BY <1>0, Entries
    <2>3. \A i, j \in DOMAIN atts[n] : i < j => i # l
        BY <2>2
    <2> QED BY <2>1, <2>3
<1>5. /\ CurrentResv(n)' = k /\ \A j : Owned(n, j)' = Owned(n, j)
    BY <1>1 DEF CurrentResv, Owned
<1>6. \A j : Touched(n, j)' <=> Touched(n, j) \/ j = k
    <2>1. ASSUME NEW j, Touched(n, j) PROVE Touched(n, j)'
        <3>1. PICK i \in DOMAIN atts[n] : atts[n][i].child /\ atts[n][i].resv = j
            BY <2>1 DEF Touched
        <3> QED BY <1>2, <1>4, <3>1 DEF Touched
    <2>2. Touched(n, k)'
        BY <1>2, <1>3, <1>4 DEF Touched, Last
    <2>3. ASSUME NEW j, Touched(n, j)', j # k PROVE Touched(n, j)
        <3>1. PICK i \in DOMAIN atts'[n] : atts'[n][i].child /\ atts'[n][i].resv = j
            BY <2>3 DEF Touched
        <3>2. i # l
            BY <1>2, <1>4, <2>3, <3>1
        <3> QED BY <1>4, <3>1, <3>2 DEF Touched
    <2> QED BY <2>1, <2>2, <2>3
<1>7. AtStep(n)'
    BY <1>0, <1>1, <1>2, <1>3, <1>4, <1>5, NoTurn DEF NodeInv, AtStep, HasReservation, HasAttempt, IsChild, Last
<1>8. AtStatus(n)'
    <2>1. ~Done(n)'
        BY <1>1, <1>2 DEF Done, None
    <2> QED BY <1>0, <1>1, <1>2, <1>4, <2>1, NoTurn DEF NodeInv, AtStatus
<1>9. Replays(n)'
    BY <1>0, <1>1, <1>4 DEF NodeInv, Replays, Protected
<1>10. Counted(n)'
    <2>1. SUFFICES ASSUME Kind[n] = "agent" PROVE Counted(n)'
        BY DEF Counted
    <2>2. Started(n)' = Started(n) \union {l} /\ l \notin Started(n)
        BY <1>2, <1>3, <1>4 DEF Started
    <2>3. IsFiniteSet(Started(n)) /\ Cardinality(Started(n)) \in Nat
        BY <1>0, StartedFinite
    <2>4. Cardinality(Started(n) \union {l}) = Cardinality(Started(n)) + 1
        BY <2>2, <2>3, FS_AddElement
    <2>5. Cardinality(Started(n)) < tries[n] /\ tries[n] \in 0..MaxAttempts
        BY <1>0, <1>1, <2>1 DEF NodeInv, Counted, TypeOK
    <2>6. Cardinality(Started(n)') <= tries[n] /\ Cardinality(Started(n)') <= MaxAttempts
        BY <2>2, <2>3, <2>4, <2>5, NumbersAssumption
    <2> QED BY <1>1, <2>6 DEF Counted
<1>11. Referred(n)'
    <2>1. \A i \in DOMAIN atts'[n] : atts'[n][i].resv \in DOMAIN resv[n]
        BY <1>0, <1>4 DEF NodeInv, Referred
    <2>2. \A i, j \in DOMAIN atts'[n] : i < j /\ atts'[n][i].resv = atts'[n][j].resv =>
              /\ Kind[n] = "batch"
              /\ \E c \in DOMAIN atts'[n] :
                    c <= i /\ atts'[n][c].child /\ atts'[n][c].resv = atts'[n][i].resv
        <3>1. SUFFICES ASSUME NEW i \in DOMAIN atts[n], NEW j \in DOMAIN atts[n], i < j,
                              atts[n][i].resv = atts[n][j].resv
              PROVE  /\ Kind[n] = "batch"
                     /\ \E c \in DOMAIN atts[n] :
                           c <= i /\ atts'[n][c].child /\ atts'[n][c].resv = atts[n][i].resv
            BY <1>4
        <3>2. PICK c \in DOMAIN atts[n] : c <= i /\ atts[n][c].child /\ atts[n][c].resv = atts[n][i].resv
            BY <1>0, <3>1 DEF NodeInv, Referred
        <3>3. c # l
            BY <1>2, <3>2
        <3> QED BY <1>0, <1>4, <3>1, <3>2, <3>3 DEF NodeInv, Referred
    <2>3. \A i, j \in DOMAIN atts'[n] : i < j /\ atts'[n][i].child /\ Owned(n, atts'[n][i].resv) =>
              atts'[n][i].resv <= atts'[n][j].resv
        BY <1>0, <1>4 DEF NodeInv, Referred
    <2>4. \A i \in DOMAIN atts'[n] : Owned(n, atts[n][i].resv)' = Owned(n, atts'[n][i].resv)
        BY <1>1 DEF Owned
    <2> QED BY <1>1, <2>1, <2>2, <2>3, <2>4 DEF Referred
<1>12. Kept(n)'
    <2>1. ASSUME reuse[n] # 0
          PROVE  /\ Kind[n] = "batch" /\ Owned(n, reuse[n])
                 /\ \E c \in DOMAIN atts'[n] : atts'[n][c].child /\ atts'[n][c].resv = reuse[n]
        <3>1. Kind[n] = "batch" /\ Owned(n, reuse[n]) /\ k = reuse[n]
            BY <1>0, <2>1 DEF NodeInv, Kept, CurrentResv
        <3> QED BY <1>2, <1>3, <1>4, <3>1
    <2>2. ASSUME reuse[n] # 0, NEW i \in DOMAIN atts'[n], atts'[n][i].child, Owned(n, atts'[n][i].resv)
          PROVE  atts'[n][i].resv <= reuse[n]
        <3>1. CASE i = l
            BY <1>2, <1>4, <2>2, <3>1 DEF CurrentResv
        <3>2. CASE i # l
            BY <1>0, <1>4, <2>2, <3>2, NoTurn DEF NodeInv, Kept
        <3> QED BY <3>1, <3>2
    <2>3. ~Turn(n)' /\ Pending(n)' = {} /\ phase' \in {"wave", "thrown"} /\ reuse'[n] = reuse[n]
        BY <1>0, <1>1, NoTurn
    <2> QED BY <1>5, <2>1, <2>2, <2>3 DEF Kept
<1>13. Paying(n)'
    <2>1. resv[n] \in Seq(Reservations) /\ Len(resv[n]) \in Nat /\ k <= Len(resv[n])
        BY <1>0, <1>2, Entries
    <2>2. ~Touched(n, k) => reuse[n] = 0 /\ k = Len(resv[n])
        BY <1>0, NoTurn DEF NodeInv, Kept, CurrentResv, Touched
    <2>3. reuse[n] = 0 => ~Touched(n, k)
        BY <1>0, <1>1, <1>2 DEF NodeInv, Referred, Touched
    <2>4. resv[n][k].state = "reserved" /\ resv[n][k].worst \in Nat /\ resv[n][k] \in Reservations
        BY <1>0, <1>2, Entries DEF Owned, Reservations
    <2>5. Spent(resv[n][k]) = resv[n][k].worst
        BY <2>4, SpentType
    <2>6. \A j \in Int : /\ Paid(n, j) \in Nat /\ Paid(n, j)' \in Nat
                         /\ Paid(n, j) <= Paid(n, j)'
                         /\ k <= j /\ ~Touched(n, k) => Paid(n, j)' = Paid(n, j) + resv[n][k].worst
        <3> PICK a : a = atts[n]
            OBVIOUS
        <3> PICK b : b = atts'[n]
            OBVIOUS
        <3> PICK r \in Seq(Reservations) : r = resv[n]
            BY <2>1
        <3>1. /\ \A j : Touched(n, j) = TouchedIn(a, j) /\ Touched(n, j)' = TouchedIn(b, j)
              /\ \A j : Paid(n, j) = PaidIn(a, r, j) /\ Paid(n, j)' = PaidIn(b, r, j)
            BY <1>1, PaidIs, PaidIsNext
        <3>2. \A j : TouchedIn(b, j) <=> TouchedIn(a, j) \/ j = k
            BY <1>6, <3>1
        <3>3. \A j \in DOMAIN r : Spent(r[j]) \in Nat
            BY SeqFacts, SpentType
        <3>4. ASSUME NEW j \in Int PROVE PaidIn(a, r, j) <= PaidIn(b, r, j)
            <4>1. \A i \in DOMAIN r : i <= j /\ TouchedIn(a, i) => TouchedIn(b, i) /\ Spent(r[i]) <= Spent(r[i])
                BY <3>2, <3>3
            <4> QED BY <4>1, PaidGrows
        <3>5. ASSUME NEW j \in Int, k <= j, ~TouchedIn(a, k)
              PROVE PaidIn(b, r, j) = PaidIn(a, r, j) + Spent(r[k])
            <4>1. k \in DOMAIN r
                BY <1>2
            <4> QED BY <3>2, <3>5, <4>1, PaidMore
        <3>6. \A j : PaidIn(a, r, j) \in Nat /\ PaidIn(b, r, j) \in Nat
            BY PaidType
        <3>7. Spent(r[k]) = resv[n][k].worst
            BY <2>5
        <3> QED BY <3>1, <3>4, <3>5, <3>6, <3>7
    <2>7. \A j \in DOMAIN resv'[n] : Touched(n, j)' => resv'[n][j].state # "refunded"
        BY <1>0, <1>1, <1>6, <2>4 DEF NodeInv, Paying
    <2>8. Starts(n)' <= Paid(n, Len(resv[n]))'
        <3>1. Starts(n) <= Paid(n, Len(resv[n])) /\ Len(resv[n]) \in Int
            BY <1>0, <2>1 DEF NodeInv, Paying
        <3>2. CASE Kind[n] = "agent"
            <4>1. reuse[n] = 0 /\ ~Touched(n, k)
                BY <1>0, <2>3, <3>2 DEF NodeInv, Kept
            <4>2. resv[n][k].worst = 1
                BY <1>0, <1>2, <3>2 DEF NodeInv, Paying
            <4>3. Paid(n, Len(resv[n]))' = Paid(n, Len(resv[n])) + 1
                BY <1>1, <2>1, <2>6, <4>1, <4>2
            <4>4. Started(n)' = Started(n) \union {l} /\ l \notin Started(n)
                BY <1>2, <1>3, <1>4 DEF Started
            <4>5. IsFiniteSet(Started(n)) /\ Cardinality(Started(n)) \in Nat
                BY <1>0, StartedFinite
            <4>6. Cardinality(Started(n) \union {l}) = Cardinality(Started(n)) + 1
                BY <4>4, <4>5, FS_AddElement
            <4>7. Starts(n) = Cardinality(Started(n)) /\ Starts(n)' = Cardinality(Started(n)) + 1
                <5>1. Starts(n)' = Cardinality(Started(n)')
                    BY <3>2 DEF Starts
                <5>2. Starts(n) = Cardinality(Started(n))
                    BY <3>2 DEF Starts
                <5>3. Cardinality(Started(n)') = Cardinality(Started(n) \union {l})
                    BY <4>4
                <5> QED BY <4>6, <5>1, <5>2, <5>3
            <4>8. Paid(n, Len(resv[n])) \in Nat
                BY <1>0, PaidNat
            <4> QED BY <3>1, <4>3, <4>5, <4>7, <4>8
        <3>3. CASE Kind[n] # "agent"
            <4>1. Starts(n)' = Starts(n) /\ Starts(n) \in Nat
                BY <1>0, <1>1, <3>3, Entries, WorstType DEF Starts
            <4>2. /\ Paid(n, Len(resv[n])) \in Nat /\ Paid(n, Len(resv[n]))' \in Nat
                  /\ Paid(n, Len(resv[n])) <= Paid(n, Len(resv[n]))'
                BY <1>1, <2>1, <2>6
            <4> QED BY <3>1, <4>1, <4>2
        <3> QED BY <3>2, <3>3
    <2>9. Kind[n] = "batch" => \A j \in DOMAIN resv'[n] : Touched(n, j)' /\ Owned(n, j)' =>
             item'[n].status = "succeeded" \/ ItemAttempts <= Paid(n, j)'
        <3>1. SUFFICES ASSUME Kind[n] = "batch", NEW j \in DOMAIN resv[n], Touched(n, j) \/ j = k, Owned(n, j),
                              item[n].status # "succeeded"
              PROVE ItemAttempts <= Paid(n, j)'
            BY <1>1, <1>5, <1>6
        <3>2. j \in Int /\ Paid(n, j) \in Nat /\ Paid(n, j)' \in Nat /\ Paid(n, j) <= Paid(n, j)'
            BY <1>0, <2>6, Entries
        <3>3. CASE Touched(n, j)
            <4>1. ItemAttempts <= Paid(n, j)
                BY <1>0, <3>1, <3>3 DEF NodeInv, Paying
            <4> QED BY <3>2, <4>1, NumbersAssumption
        <3>4. CASE ~Touched(n, j)
            <4>1. j = k /\ k = Len(resv[n]) /\ ~Touched(n, k)
                BY <2>2, <3>1, <3>4
            <4>2. resv[n][k].worst = ItemAttempts - item[n].used
                BY <1>0, <1>1, <3>1, <4>1 DEF NodeInv, Paying, PreparedBatch
            <4>3. Paid(n, k)' = Paid(n, k) + resv[n][k].worst
                BY <2>6, <4>1
            <4>4. item[n].used <= Paid(n, k) /\ item[n].used \in Nat
                BY <1>0, <3>1, <4>1, Entries, WorstType DEF NodeInv, Paying, Starts
            <4> QED BY <3>2, <4>1, <4>2, <4>3, <4>4, NumbersAssumption
        <3> QED BY <3>3, <3>4
    <2>10. Kind[n] = "agent" => \A j \in DOMAIN resv'[n] :
              resv'[n][j].worst = 1 /\ (resv'[n][j].state = "consumed" => resv'[n][j].used = 1)
        BY <1>0, <1>1 DEF NodeInv, Paying
    <2> QED BY <1>1, <2>7, <2>8, <2>9, <2>10 DEF Paying
<1> QED BY <1>7, <1>8, <1>9, <1>10, <1>11, <1>12, <1>13 DEF NodeInv

\* Reservations are settled or made, and the attempts stay what they were.
LEMMA ReferredStays ==
    ASSUME NEW n \in Nodes, Referred(n), atts'[n] = atts[n], DOMAIN resv[n] \subseteq DOMAIN resv'[n],
           \A j \in DOMAIN resv[n] : resv'[n][j].state = "reserved" => Owned(n, j),
           pc'[n] \in {"admit", "start"} =>
              \A i \in DOMAIN atts[n] : atts[n][i].resv # CurrentResv(n)'
    PROVE  Referred(n)'
<1>1. \A i \in DOMAIN atts'[n] : atts'[n][i].resv \in DOMAIN resv[n] /\ atts'[n][i].resv \in DOMAIN resv'[n]
    BY DEF Referred
<1>2. \A i, j \in DOMAIN atts'[n] : i < j =>
          /\ atts'[n][i].resv = atts'[n][j].resv =>
                /\ Kind[n] = "batch"
                /\ \E c \in DOMAIN atts'[n] :
                      c <= i /\ atts'[n][c].child /\ atts'[n][c].resv = atts'[n][i].resv
          /\ atts'[n][i].child /\ Owned(n, atts'[n][i].resv) => atts'[n][i].resv <= atts'[n][j].resv
    BY DEF Referred
<1>3. \A i \in DOMAIN atts'[n] : Owned(n, atts[n][i].resv)' => Owned(n, atts'[n][i].resv)
    BY <1>1 DEF Owned
<1>4. pc'[n] \in {"admit", "start"} => \A i \in DOMAIN atts'[n] : atts'[n][i].resv # CurrentResv(n)'
    OBVIOUS
<1> QED BY <1>1, <1>2, <1>3, <1>4 DEF Referred

\* A batch cannot be prepared: what recovery has kept for it is charged in full.
LEMMA PrepareFailsKeeps ==
    ASSUME RunInv, [Next]_vars, NEW n \in Nodes, PrepareFails(n)
    PROVE  NodeInv(n)'
<1>0. TypeOK /\ NodeInv(n) /\ Needs[n] \subseteq Nodes /\ RunNode(n) /\ \A d \in Nodes : Done(d) => Done(d)'
    BY PlanAssumption, DoneStays DEF RunInv, NodeInv, RunNode
<1>1. /\ node'[n] = node[n] /\ atts'[n] = atts[n] /\ item'[n] = item[n] /\ tries'[n] = tries[n]
      /\ reuse'[n] = 0 /\ pc[n] = "reserve" /\ pc'[n] = "settle" /\ Kind[n] = "batch"
      /\ end'[n] = [outcome |-> "unavailable", auth |-> TRUE]
    BY <1>0, StepsNode DEF PrepareFails, SettleWithout, At, TypeOK
<1>2. /\ DOMAIN resv'[n] = DOMAIN resv[n] /\ Len(resv'[n]) = Len(resv[n])
      /\ \A j : Touched(n, j)' = Touched(n, j) /\ (Owned(n, j)' => Owned(n, j))
      /\ \A j \in DOMAIN resv[n] : resv'[n][j].state = "refunded" => resv[n][j].state = "refunded"
      /\ \A l \in Int : Paid(n, l) \in Nat /\ Paid(n, l)' \in Nat /\ Paid(n, l) <= Paid(n, l)'
    <2>1. CASE reuse[n] = 0
        <3>1. resv' = resv
            BY <2>1 DEF PrepareFails
        <3>2. \A l : Paid(n, l) \in Nat /\ Paid(n, l)' = Paid(n, l)
            BY <1>0, <1>1, <3>1, PaidNat, PaidIs, PaidIsNext
        <3> QED BY <1>1, <3>1, <3>2 DEF Touched, Owned
    <2>2. CASE reuse[n] # 0
        <3>1. Owned(n, reuse[n]) /\ reuse[n] \in DOMAIN resv[n]
            BY <1>0, <2>2 DEF NodeInv, Kept, Owned
        <3> PICK k \in DOMAIN resv[n] : k = reuse[n]
            BY <3>1
        <3> PICK u \in Nat : u = resv[n][k].worst
            BY <1>0, Entries DEF Reservations
        <3>2. Charge(n, k, u) /\ Owned(n, k)
            BY <2>2, <3>1 DEF PrepareFails, ChargeAll
        <3>3. /\ \A j : Touched(n, j)' = Touched(n, j) /\ (Owned(n, j)' <=> Owned(n, j) /\ j # k)
              /\ DOMAIN resv'[n] = DOMAIN resv[n] /\ Len(resv'[n]) = Len(resv[n])
              /\ \A j \in DOMAIN resv[n] : j # k => resv'[n][j] = resv[n][j]
              /\ resv'[n][k].state = "consumed"
            BY <1>0, <1>1, <3>2, SettlesRow
        <3>4. \A l \in Int : Paid(n, l) <= Paid(n, l)'
            <4>1. u >= resv[n][k].worst
                OBVIOUS
            <4> QED BY <1>0, <1>1, <3>2, <4>1, SettlesRow
        <3>5. \A l : Paid(n, l) \in Nat /\ Paid(n, l)' \in Nat
            BY <1>0, <1>1, <3>2, SettlesRow
        <3> QED BY <3>3, <3>4, <3>5
    <2> QED BY <2>1, <2>2
<1>3. /\ Started(n)' = Started(n) /\ Completed(n)' = Completed(n) /\ Starts(n)' = Starts(n)
      /\ Done(n)' = Done(n)
    <2>1. Started(n)' = Started(n) /\ Completed(n)' = Completed(n) /\ Done(n)' = Done(n)
        BY <1>1 DEF Started, Completed, Done
    <2> QED BY <1>1, <2>1 DEF Starts
<1>4. AtStep(n)'
    BY <1>0, <1>1, NoTurn DEF NodeInv, AtStep, HasReservation, HasAttempt, SettledOutcome, None
<1>5. AtStatus(n)'
    BY <1>0, <1>1, <1>3, NoTurn DEF NodeInv, AtStatus
<1>6. Replays(n)'
    BY <1>0, <1>1 DEF NodeInv, Replays, Protected
<1>7. Counted(n)'
    BY <1>1 DEF Counted
<1>8. Referred(n)'
    <2>1. \A j : j \in DOMAIN resv'[n] /\ resv'[n][j].state = "reserved" => Owned(n, j)
        BY <1>2 DEF Owned
    <2>2. /\ Referred(n) /\ atts'[n] = atts[n] /\ DOMAIN resv[n] \subseteq DOMAIN resv'[n]
          /\ \A j \in DOMAIN resv[n] : resv'[n][j].state = "reserved" => Owned(n, j)
          /\ pc'[n] \notin {"admit", "start"}
        BY <1>0, <1>1, <1>2, <2>1 DEF NodeInv
    <2> QED BY <2>2, ReferredStays
<1>9. Kept(n)'
    BY <1>0, <1>1, NoTurn DEF Kept
<1>10. Paying(n)'
    <2>1. Starts(n)' <= Paid(n, Len(resv[n]))'
        <3>1. Starts(n) <= Paid(n, Len(resv[n])) /\ Len(resv[n]) \in Int /\ Starts(n) \in Nat
            BY <1>0, <1>1, Entries, WorstType DEF NodeInv, Paying, Starts
        <3> QED BY <1>2, <1>3, <3>1
    <2>2. \A j \in DOMAIN resv'[n] : Touched(n, j)' /\ Owned(n, j)' =>
              item'[n].status = "succeeded" \/ ItemAttempts <= Paid(n, j)'
        <3>1. SUFFICES ASSUME NEW j \in DOMAIN resv[n], Touched(n, j), Owned(n, j),
                              item[n].status # "succeeded"
              PROVE ItemAttempts <= Paid(n, j)'
            BY <1>1, <1>2
        <3>2. ItemAttempts <= Paid(n, j) /\ j \in Int
            BY <1>0, <1>1, <3>1, Entries DEF NodeInv, Paying
        <3> QED BY <1>2, <3>2, NumbersAssumption
    <2>3. \A j \in DOMAIN resv'[n] : Touched(n, j)' => resv'[n][j].state # "refunded"
        BY <1>0, <1>2 DEF NodeInv, Paying
    <2> QED BY <1>1, <2>1, <2>2, <2>3 DEF Paying
<1> QED BY <1>4, <1>5, <1>6, <1>7, <1>8, <1>9, <1>10 DEF NodeInv

\* A reservation is made.
LEMMA ReserveNewKeeps ==
    ASSUME RunInv, [Next]_vars, NEW n \in Nodes, Reserve(n), reuse[n] = 0
    PROVE  NodeInv(n)'
<1>0. TypeOK /\ NodeInv(n) /\ Needs[n] \subseteq Nodes /\ RunNode(n) /\ \A d \in Nodes : Done(d) => Done(d)'
    BY PlanAssumption, DoneStays DEF RunInv, NodeInv, RunNode
<1>1. /\ node'[n] = node[n] /\ atts'[n] = atts[n] /\ item'[n] = item[n] /\ tries'[n] = tries[n]
      /\ reuse'[n] = 0 /\ pc[n] = "reserve" /\ pc'[n] = "admit"
    BY <1>0, StepsNode DEF Reserve, At
<1>2. PICK x \in Reservations :
              /\ x.state = "reserved" /\ x.worst = WorstCase(n)
              /\ resv'[n] = Append(resv[n], x)
              /\ Len(resv'[n]) = Len(resv[n]) + 1
              /\ DOMAIN resv'[n] = DOMAIN resv[n] \union {Len(resv[n]) + 1}
              /\ Len(resv[n]) + 1 \notin DOMAIN resv[n] /\ resv'[n][Len(resv[n]) + 1] = x
              /\ \A i \in DOMAIN resv[n] : resv'[n][i] = resv[n][i]
    BY <1>0, Reserves
<1> PICK k \in Nat : k = Len(resv[n]) + 1
    BY <1>0, Entries
<1>3. /\ CurrentResv(n)' = k /\ k \notin DOMAIN resv[n] /\ DOMAIN resv'[n] = DOMAIN resv[n] \union {k}
      /\ resv'[n][k] = x /\ Len(resv'[n]) = k
      /\ \A i \in DOMAIN atts[n] : atts[n][i].resv \in DOMAIN resv[n]
    BY <1>0, <1>1, <1>2 DEF CurrentResv, NodeInv, Referred
<1>4. ~Touched(n, k) /\ (\A j : Touched(n, j)' = Touched(n, j)) /\ Owned(n, k)'
      /\ \A j : j # k => Owned(n, j)' = Owned(n, j)
    <2>1. ~Touched(n, k)
        BY <1>3 DEF Touched
    <2>2. \A j : Touched(n, j)' = Touched(n, j)
        BY <1>1 DEF Touched
    <2>3. Owned(n, k)'
        BY <1>2, <1>3 DEF Owned
    <2>4. \A j : j # k => Owned(n, j)' = Owned(n, j)
        BY <1>2, <1>3 DEF Owned
    <2> QED BY <2>1, <2>2, <2>3, <2>4
<1>5. \A l \in Int : Paid(n, l)' = Paid(n, l) /\ Paid(n, l) \in Nat
    <2> PICK a : a = atts[n]
        OBVIOUS
    <2> PICK r \in Seq(Reservations) : r = resv[n]
        BY <1>0, Entries
    <2>1. ~TouchedIn(a, Len(r) + 1)
        BY <1>4, PaidIs
    <2>2. \A l \in Int : PaidIn(a, Append(r, x), l) = PaidIn(a, r, l)
        BY <2>1, PaidAppend
    <2>3. \A l : Paid(n, l) = PaidIn(a, r, l) /\ Paid(n, l)' = PaidIn(a, Append(r, x), l)
        BY <1>1, <1>2, PaidIs, PaidIsNext
    <2> QED BY <1>0, <2>2, <2>3, PaidNat
<1>6. /\ Started(n)' = Started(n) /\ Completed(n)' = Completed(n) /\ Starts(n)' = Starts(n)
      /\ Done(n)' = Done(n) /\ Proved(n)' = Proved(n) /\ PreparedBatch(n)' = PreparedBatch(n)
    <2>1. Started(n)' = Started(n) /\ Completed(n)' = Completed(n) /\ Done(n)' = Done(n) /\ Proved(n)' = Proved(n)
        BY <1>1 DEF Started, Completed, Done, Proved
    <2> QED BY <1>1, <2>1 DEF Starts, PreparedBatch
<1>7. AtStep(n)'
    BY <1>0, <1>1, <1>3, <1>4, <1>6, NoTurn DEF NodeInv, AtStep, HasReservation, HasAttempt
<1>8. AtStatus(n)'
    BY <1>0, <1>1, <1>6, NoTurn DEF NodeInv, AtStatus
<1>9. Replays(n)'
    BY <1>0, <1>1, <1>6 DEF NodeInv, Replays, Protected
<1>10. Counted(n)'
    BY <1>0, <1>1, <1>6, NoTurn DEF NodeInv, Counted
<1>11. Referred(n)'
    <2>1. \A j \in DOMAIN resv[n] : resv'[n][j].state = "reserved" => Owned(n, j)
        BY <1>2 DEF Owned
    <2>2. \A i \in DOMAIN atts[n] : atts[n][i].resv # CurrentResv(n)'
        BY <1>3
    <2>3. Referred(n) /\ atts'[n] = atts[n] /\ DOMAIN resv[n] \subseteq DOMAIN resv'[n]
        BY <1>0, <1>1, <1>3 DEF NodeInv
    <2> QED BY <2>1, <2>2, <2>3, ReferredStays
<1>12. Kept(n)'
    BY <1>0, <1>1, NoTurn DEF Kept
<1>13. Paying(n)'
    <2>1. Starts(n)' <= Paid(n, Len(resv[n]))'
        <3>1. Starts(n) <= Paid(n, Len(resv[n])) /\ Len(resv[n]) \in Nat /\ Starts(n) \in Nat
            BY <1>0, Entries, WorstType, StartedFinite DEF NodeInv, Paying, Starts
        <3>2. Paid(n, Len(resv[n])) <= Paid(n, k) /\ Paid(n, k) \in Nat /\ Paid(n, Len(resv[n])) \in Nat
            BY <1>0, <3>1, PaidUpTo, PaidNat
        <3>3. Paid(n, k)' = Paid(n, k)
            BY <1>5
        <3>4. Paid(n, Len(resv[n]))' = Paid(n, k)'
            BY <1>3, PaidIsNext
        <3> QED BY <1>6, <3>1, <3>2, <3>3, <3>4
    <2>2. Kind[n] = "batch" => \A j \in DOMAIN resv'[n] : Touched(n, j)' /\ Owned(n, j)' =>
              item'[n].status = "succeeded" \/ ItemAttempts <= Paid(n, j)'
        <3>1. SUFFICES ASSUME Kind[n] = "batch", NEW j \in DOMAIN resv[n], Touched(n, j), Owned(n, j),
                              item[n].status # "succeeded"
              PROVE ItemAttempts <= Paid(n, j)'
            BY <1>1, <1>3, <1>4
        <3>2. ItemAttempts <= Paid(n, j) /\ j \in Int
            BY <1>0, <1>1, <3>1, Entries DEF NodeInv, Paying
        <3> QED BY <1>5, <3>2
    <2>3. \A j \in DOMAIN resv'[n] : Touched(n, j)' => resv'[n][j].state # "refunded"
        BY <1>0, <1>2, <1>3, <1>4 DEF NodeInv, Paying
    <2>4. Kind[n] = "agent" => \A j \in DOMAIN resv'[n] :
              resv'[n][j].worst = 1 /\ (resv'[n][j].state = "consumed" => resv'[n][j].used = 1)
        BY <1>0, <1>2, <1>3 DEF NodeInv, Paying, WorstCase
    <2>5. Kind[n] = "batch" => resv'[n][k].worst = PreparedBatch(n)'
        BY <1>2, <1>3, <1>6 DEF WorstCase
    <2> QED BY <1>1, <1>3, <2>1, <2>2, <2>3, <2>4, <2>5 DEF Paying
<1> QED BY <1>7, <1>8, <1>9, <1>10, <1>11, <1>12, <1>13 DEF NodeInv

\* The attempt is charged for, and the node is settled or tries again.
LEMMA ChargeKeeps ==
    ASSUME RunInv, [Next]_vars, NEW n \in Nodes, ChargeNode(n)
    PROVE  NodeInv(n)'
<1>0. TypeOK /\ NodeInv(n) /\ Needs[n] \subseteq Nodes /\ RunNode(n) /\ \A d \in Nodes : Done(d) => Done(d)'
    BY PlanAssumption, DoneStays DEF RunInv, NodeInv, RunNode
<1>1. /\ node'[n] = node[n] /\ atts'[n] = atts[n] /\ item'[n] = item[n] /\ tries'[n] = tries[n]
      /\ end'[n] = end[n] /\ reuse'[n] = 0 /\ pc[n] = "charge"
      /\ pc'[n] = IF RetriesNode(n) THEN "head" ELSE "settle"
    BY <1>0, StepsNode DEF ChargeNode, At, TypeOK
<1> PICK k \in DOMAIN resv[n] : k = CurrentResv(n)
    BY <1>0, <1>1, Current DEF HasReservation, HasAttempt
<1>2. /\ Owned(n, k) /\ k \in Int /\ resv[n][k].worst \in Nat
      /\ Latest(n) \in DOMAIN atts[n] /\ node[n].outcome = None
      /\ IsChild(n) => Last(n).status = end[n].outcome /\ Last(n).auth = end[n].auth
    <2>1. Owned(n, k) /\ node[n].outcome = None
        BY <1>0, <1>1 DEF NodeInv, AtStep, HasReservation, HasAttempt
    <2>2. k \in Int /\ resv[n][k].worst \in Nat
        BY <1>0, Entries DEF Reservations
    <2>3. Latest(n) \in DOMAIN atts[n]
        BY <1>0, <1>1, Current DEF HasAttempt
    <2>4. IsChild(n) => Last(n).status = end[n].outcome /\ Last(n).auth = end[n].auth
        BY <1>0, <1>1 DEF NodeInv, AtStep
    <2> QED BY <2>1, <2>2, <2>3, <2>4
<1>3. PICK u \in Nat :
          /\ Charge(n, k, u)
          /\ Kind[n] = "agent" => u = 1 /\ resv[n][k].worst = 1
          /\ Kind[n] = "batch" => \/ u >= resv[n][k].worst \/ item[n].used = 0 \/ u = item[n].used
    <2>1. Charge(n, k, Charged(n))
        BY DEF ChargeNode
    <2>2. Kind[n] = "agent" => Charged(n) = 1 /\ resv[n][k].worst = 1
        BY <1>0 DEF NodeInv, Paying, Charged, Usage, IsChild
    <2>3. item[n].used \in Nat /\ resv[n][k].worst \in Nat
        BY <1>0, <1>2, Entries, WorstType
    <2>4. Charged(n) \in Nat
        BY <2>3 DEF Charged, Usage, BatchUsage
    <2>5. Kind[n] = "batch" => Charged(n) = resv[n][k].worst \/ item[n].used = 0 \/ Charged(n) = item[n].used
        BY <1>0, <1>1 DEF NodeInv, Paying, Charged, Usage, BatchUsage
    <2> QED BY <2>1, <2>2, <2>3, <2>4, <2>5
<1>4. /\ \A j : Touched(n, j)' = Touched(n, j) /\ (Owned(n, j)' <=> Owned(n, j) /\ j # k)
      /\ DOMAIN resv'[n] = DOMAIN resv[n] /\ Len(resv'[n]) = Len(resv[n])
      /\ \A j \in DOMAIN resv[n] : j # k => resv'[n][j] = resv[n][j]
      /\ resv'[n][k].worst = resv[n][k].worst
      /\ resv'[n][k].state = "consumed" /\ resv'[n][k].used = u
    BY <1>0, <1>1, <1>2, <1>3, SettlesRow
<1>5. /\ \A l \in Int : l < k \/ ~Touched(n, k) \/ u >= resv[n][k].worst => Paid(n, l) <= Paid(n, l)'
      /\ \A l : Paid(n, l) \in Nat /\ Paid(n, l)' \in Nat
      /\ Touched(n, k) => u <= Paid(n, Len(resv[n]))'
    BY <1>0, <1>1, <1>2, <1>3, SettlesRow
<1>6. /\ Started(n)' = Started(n) /\ Completed(n)' = Completed(n) /\ Starts(n)' = Starts(n)
      /\ Done(n)' = Done(n) /\ Proved(n)' = Proved(n) /\ Last(n)' = Last(n)
    <2>1. Started(n)' = Started(n) /\ Completed(n)' = Completed(n) /\ Done(n)' = Done(n)
          /\ Proved(n)' = Proved(n) /\ Last(n)' = Last(n)
        BY <1>1 DEF Started, Completed, Done, Proved, Last, Latest
    <2> QED BY <1>1, <2>1 DEF Starts
<1>7. AtStep(n)'
    <2>1. end[n].outcome # None
        BY <1>0, <1>1 DEF NodeInv, AtStep
    <2>2. ASSUME IsChild(n), SettledOutcome(end[n]) = "completed" PROVE Completed(n)
        <3>1. end[n].auth /\ end[n].outcome = "completed"
            BY <2>2 DEF SettledOutcome
        <3> QED BY <1>2, <2>2, <3>1 DEF Completed, Last
    <2> QED BY <1>0, <1>1, <1>6, <2>1, <2>2, NoTurn DEF NodeInv, AtStep, HasReservation, HasAttempt
<1>8. AtStatus(n)'
    BY <1>0, <1>1, <1>6, NoTurn DEF NodeInv, AtStatus
<1>9. Replays(n)'
    <2>1. ASSUME Protected(n), RetriesNode(n) PROVE Proved(n)
        <3>1. Last(n).auth
            BY <1>2, <2>1 DEF RetriesNode, SettledOutcome, Protected
        <3>2. \A i \in DOMAIN atts[n] : i # Latest(n) => i < Latest(n)
            BY <1>0, Entries
        <3>3. \A i, j \in DOMAIN atts[n] : i < j /\ atts[n][i].child => atts[n][i].auth
            BY <1>0, <2>1 DEF NodeInv, Replays
        <3> QED BY <1>2, <3>1, <3>2, <3>3 DEF Proved, Last
    <2> QED BY <1>0, <1>1, <1>6, <2>1 DEF NodeInv, Replays, Protected
<1>10. Counted(n)'
    BY <1>0, <1>1, <1>6, NoTurn DEF NodeInv, Counted
<1>11. Referred(n)'
    <2>1. \A j \in DOMAIN resv[n] : resv'[n][j].state = "reserved" => Owned(n, j)
        BY <1>4 DEF Owned
    <2>2. Referred(n) /\ atts'[n] = atts[n] /\ DOMAIN resv[n] \subseteq DOMAIN resv'[n]
          /\ pc'[n] \notin {"admit", "start"}
        BY <1>0, <1>1, <1>4 DEF NodeInv
    <2> QED BY <2>1, <2>2, ReferredStays
<1>12. Kept(n)'
    BY <1>0, <1>1, NoTurn DEF Kept
<1>13. Paying(n)'
    <2>1. Starts(n)' <= Paid(n, Len(resv[n]))'
        <3>0. Len(resv[n]) \in Int /\ Starts(n) \in Nat /\ item[n].used \in Nat
            BY <1>0, Entries, WorstType, StartedFinite DEF Starts
        <3>1. Starts(n) <= Paid(n, Len(resv[n])) /\ Paid(n, Len(resv[n])) \in Nat
            BY <1>0, PaidNat DEF NodeInv, Paying
        <3>2. Paid(n, Len(resv[n]))' \in Nat
            BY <1>5
        <3>3. CASE ~Touched(n, k) \/ u >= resv[n][k].worst
            <4>1. Paid(n, Len(resv[n])) <= Paid(n, Len(resv[n]))'
                BY <1>4, <1>5, <3>0, <3>3
            <4> QED BY <1>6, <3>0, <3>1, <3>2, <4>1
        <3>4. CASE Touched(n, k) /\ ~(u >= resv[n][k].worst)
            <4>1. Kind[n] # "agent"
                BY <1>3, <3>4
            <4>2. Kind[n] # "batch" => Starts(n) = 0
                BY <4>1 DEF Starts
            <4>3. Kind[n] = "batch" => Starts(n) = 0 \/ Starts(n) = u
                BY <1>3, <3>4 DEF Starts
            <4> QED BY <1>5, <1>6, <3>2, <3>4, <4>2, <4>3
        <3> QED BY <3>3, <3>4
    <2>2. Kind[n] = "batch" => \A j \in DOMAIN resv'[n] : Touched(n, j)' /\ Owned(n, j)' =>
              item'[n].status = "succeeded" \/ ItemAttempts <= Paid(n, j)'
        <3>1. SUFFICES ASSUME Kind[n] = "batch", NEW j \in DOMAIN resv[n], Touched(n, j), Owned(n, j),
                              j # k, item[n].status # "succeeded"
              PROVE ItemAttempts <= Paid(n, j)'
            BY <1>1, <1>4
        <3>2. ItemAttempts <= Paid(n, j) /\ j \in Int /\ j <= Len(resv[n])
            BY <1>0, <1>1, <3>1, Entries DEF NodeInv, Paying
        <3>3. j < k
            <4>1. CASE reuse[n] # 0
                <5>1. j <= reuse[n] /\ k = reuse[n]
                    BY <1>0, <3>1, <4>1, NoTurn DEF NodeInv, Kept, Touched, CurrentResv
                <5> QED BY <1>2, <3>1, <3>2, <5>1
            <4>2. CASE reuse[n] = 0
                BY <1>2, <3>1, <3>2, <4>2 DEF CurrentResv
            <4> QED BY <4>1, <4>2
        <3>4. Paid(n, j) <= Paid(n, j)' /\ Paid(n, j) \in Nat /\ Paid(n, j)' \in Nat
            BY <1>5, <3>2, <3>3
        <3> QED BY <3>2, <3>4, NumbersAssumption
    <2>3. \A j \in DOMAIN resv'[n] : Touched(n, j)' => resv'[n][j].state # "refunded"
        BY <1>0, <1>4 DEF NodeInv, Paying
    <2>4. Kind[n] = "agent" => \A j \in DOMAIN resv'[n] :
              resv'[n][j].worst = 1 /\ (resv'[n][j].state = "consumed" => resv'[n][j].used = 1)
        BY <1>0, <1>3, <1>4 DEF NodeInv, Paying
    <2>5. pc'[n] \in {"head", "settle"}
        BY <1>1
    <2> QED BY <1>1, <2>1, <2>2, <2>3, <2>4, <2>5 DEF Paying
<1> QED BY <1>7, <1>8, <1>9, <1>10, <1>11, <1>12, <1>13 DEF NodeInv

\* Every step of #runNode keeps what is said of every node.
LEMMA RunKeeps ==
    ASSUME RunInv, [Next]_vars, NEW n \in Nodes, RunNode(n), NEW m \in Nodes
    PROVE  NodeInv(m)'
<1>1. CASE m # n
    <2>1. Untouched(m)
        BY <1>1, RunUntouched DEF RunInv
    <2>2. Onward(m)
        <3>1. /\ phase \in {"wave", "thrown"} /\ phase' \in {"wave", "thrown"}
              /\ UNCHANGED <<todo, left>> /\ ~Turn(m)
            BY RunSteps DEF Turn
        <3> QED BY <3>1 DEF Onward
    <2> QED BY <2>1, <2>2, DoneStays, UntouchedKeeps
<1>2. CASE m = n
    <2>1. CASE QueueNode(n) \/ EvaluateGate(n) \/ SettleNode(n)
        BY <1>2, <2>1, StatusKeeps, SettleKeeps
    <2>2. CASE StopNode(n) \/ DenyNode(n) \/ NoPathEnforcement(n) \/ BudgetExhausted(n) \/ BeginAttempt(n)
        BY <1>2, <2>2, LeavesLoopKeeps, BeginAttemptKeeps
    <2>3. CASE PrepareFails(n) \/ ChargeNode(n)
        BY <1>2, <2>3, PrepareFailsKeeps, ChargeKeeps
    <2>4. CASE Reserve(n)
        BY <1>2, <2>4, ReserveKeptKeeps, ReserveNewKeeps
    <2>5. CASE Admit(n) \/ StartChild(n) \/ RecordTerminal(n) \/ StartItem(n) \/ EndItem(n)
        BY <1>2, <2>5, AdmitKeeps, StartKeeps, MarkKeeps
    <2>6. CASE NoExecutor(n) \/ ChildEnds(n) \/ GateFails(n) \/ EndBatch(n)
        BY <1>2, <2>6, AttemptEndsKeeps
    <2>7. CASE PublishArtifact(n) \/ Throw(n)
        BY <1>2, <2>7, PublishKeeps
    <2> QED BY <2>1, <2>2, <2>3, <2>4, <2>5, <2>6, <2>7 DEF RunNode
<1> QED BY <1>1, <1>2

-----------------------------------------------------------------------------
(* The root.                                                               *)

\* What the reservations are changed to.
LEMMA ResvChanges ==
    ASSUME RunInv, [Next]_vars
    PROVE  \/ UNCHANGED resv
           \/ \E n \in Nodes : \E k \in DOMAIN resv[n], u \in Nat :
                 Owned(n, k) /\ u <= resv[n][k].worst /\ (Charge(n, k, u) \/ Refund(n, k))
           \/ \E n \in Nodes : Reserve(n) /\ reuse[n] = 0 /\ Committed + WorstCase(n) <= Limit
<1>0. TypeOK
    BY DEF RunInv
<1>1. CASE UNCHANGED vars
    BY <1>1 DEF vars, durable
<1>2. CASE \/ Execute \/ Open \/ RefundsDone \/ RecoveryDone \/ Approve \/ DenyApproval
           \/ Begin \/ LoopCancelled \/ Pause \/ LaunchWave \/ NothingReady \/ WaveDone \/ AppendStopping
           \/ SettleRoot \/ Release \/ RequestCancel \/ RequestDurableCancel \/ PollCancel
           \/ RequestPause \/ Crash
    BY <1>2 DEF durable, Execute, Open, RefundsDone, RecoveryDone, Approve, DenyApproval,
       RequestApproval, Begin, LoopCancelled, Pause, LaunchWave, NothingReady, WaveDone, AppendStopping,
       SettleRoot, Release, RequestCancel, RequestDurableCancel, PollCancel, RequestPause, Crash
<1>3. ASSUME NEW n \in Nodes, NEW k, Owned(n, k), ChargeAll(n, k) \/ Refund(n, k)
      PROVE  \E j \in DOMAIN resv[n], u \in Nat :
                 Owned(n, j) /\ u <= resv[n][j].worst /\ (Charge(n, j, u) \/ Refund(n, j))
    <2>1. k \in DOMAIN resv[n] /\ resv[n][k].worst \in Nat
        BY <1>0, <1>3, Entries DEF Owned, Reservations
    <2> QED BY <1>3, <2>1 DEF ChargeAll
<1>4. CASE RefundUnadmitted
    BY <1>3, <1>4 DEF RefundUnadmitted
<1>5. ASSUME NEW n \in Nodes, RefuseReplay(n) \/ Requeue(n) PROVE UNCHANGED resv
    BY <1>5 DEF RefuseReplay, Requeue
<1>6. ASSUME NEW n \in Nodes, NEW i \in left, KeepBatch(n, i) \/ InterruptChild(n, i) PROVE UNCHANGED resv
    BY <1>6 DEF KeepBatch, InterruptChild
<1>7. ASSUME NEW n \in Nodes, NEW i \in left, SettleAttempt(n, i)
      PROVE  \/ UNCHANGED resv
             \/ \E k : Owned(n, k) /\ (ChargeAll(n, k) \/ Refund(n, k))
    BY <1>7 DEF SettleAttempt, Outstanding
<1>8. ASSUME NEW n \in Nodes, PrepareFails(n)
      PROVE  \/ UNCHANGED resv
             \/ \E k : Owned(n, k) /\ (ChargeAll(n, k) \/ Refund(n, k))
    <2>1. reuse[n] # 0 => Owned(n, reuse[n])
        BY DEF RunInv, Kept
    <2> QED BY <1>8, <2>1 DEF PrepareFails
<1>9. ASSUME NEW n \in Nodes, ChargeNode(n)
      PROVE  \E k \in DOMAIN resv[n], u \in Nat :
                 Owned(n, k) /\ u <= resv[n][k].worst /\ (Charge(n, k, u) \/ Refund(n, k))
    <2>1. pc[n] = "charge" /\ AtStep(n)
        BY <1>9 DEF ChargeNode, At, RunInv
    <2>2. CurrentResv(n) \in DOMAIN resv[n] /\ Owned(n, CurrentResv(n))
        BY <2>1 DEF AtStep, HasReservation, HasAttempt, Owned
    <2>3. resv[n][CurrentResv(n)].worst \in Nat /\ item[n].used \in Nat
        BY <1>0, <2>2, Entries, WorstType DEF Reservations
    <2>4. Charged(n) \in Nat
        BY <2>3 DEF Charged, Usage, BatchUsage
    <2> QED BY <1>9, <2>2, <2>4 DEF ChargeNode
<1>10. ASSUME NEW n \in Nodes, Reserve(n)
       PROVE  UNCHANGED resv \/ (reuse[n] = 0 /\ Committed + WorstCase(n) <= Limit)
    BY <1>10 DEF Reserve
<1>11. ASSUME NEW n \in Nodes, RunNode(n), ~PrepareFails(n), ~ChargeNode(n), ~Reserve(n)
       PROVE  UNCHANGED resv
    BY <1>11 DEF durable, RunNode, QueueNode, StopNode, DenyNode, NoPathEnforcement, BeginAttempt,
       BudgetExhausted, Admit, StartChild, NoExecutor, ChildEnds, EvaluateGate, GateFails, StartItem,
       EndItem, EndBatch, RecordTerminal, PublishArtifact, Throw, SettleNode
<1>12. ASSUME NEW n \in Nodes, RunNode(n)
       PROVE  \/ UNCHANGED resv
              \/ \E k \in DOMAIN resv[n], u \in Nat :
                    Owned(n, k) /\ u <= resv[n][k].worst /\ (Charge(n, k, u) \/ Refund(n, k))
              \/ Reserve(n) /\ reuse[n] = 0 /\ Committed + WorstCase(n) <= Limit
    BY <1>3, <1>8, <1>9, <1>10, <1>11, <1>12
<1>13. ASSUME NEW n \in Nodes, NEW i \in left, SettleAttempt(n, i)
       PROVE  \/ UNCHANGED resv
              \/ \E k \in DOMAIN resv[n], u \in Nat :
                    Owned(n, k) /\ u <= resv[n][k].worst /\ (Charge(n, k, u) \/ Refund(n, k))
    BY <1>3, <1>7, <1>13
<1> QED BY <1>1, <1>2, <1>4, <1>5, <1>6, <1>12, <1>13 DEF Next, Control, Recover

\* The run's budget is never exceeded.
LEMMA CommittedStep ==
    ASSUME RunInv, [Next]_vars
    PROVE  (Committed <= Limit)'
<1>0. TypeOK /\ Committed <= Limit
    BY DEF RunInv, Root
<1>1. Committed = CommittedIn(resv) /\ Committed' = CommittedIn(resv')
    <2>1. \A n : Funded(n)' = FundedIn(resv'[n])
        BY PaidIsNext
    <2> QED BY <2>1, CommittedIs DEF Committed, CommittedIn
<1>2. resv \in [Nodes -> Seq(Reservations)] /\ Limit \in Nat
    BY <1>0, NumbersAssumption DEF TypeOK
<1>3. CASE UNCHANGED resv
    BY <1>0, <1>1, <1>3
<1>4. ASSUME NEW n \in Nodes, NEW k \in DOMAIN resv[n], NEW u \in Nat,
             Owned(n, k), u <= resv[n][k].worst, Charge(n, k, u) \/ Refund(n, k)
      PROVE  Committed' <= Limit
    <2>1. /\ resv' \in [Nodes -> Seq(Reservations)]
          /\ \A m \in Nodes : m # n => resv'[m] = resv[m]
          /\ DOMAIN resv'[n] = DOMAIN resv[n]
          /\ \A j \in DOMAIN resv[n] : j # k => resv'[n][j] = resv[n][j]
          /\ Charge(n, k, u) => resv'[n][k].state = "consumed" /\ resv'[n][k].used = u
          /\ Refund(n, k) => resv'[n][k].state = "refunded"
        BY <1>0, <1>4, Settles
    <2>2. resv[n] \in Seq(Reservations) /\ resv'[n] \in Seq(Reservations) /\ resv[n][k].state = "reserved"
        BY <1>2, <1>4, <2>1 DEF Owned
    <2> PICK r \in Seq(Reservations) : r = resv[n]
        BY <2>2
    <2> PICK s \in Seq(Reservations) : s = resv'[n]
        BY <2>2
    <2>3. /\ \A j \in DOMAIN r : r[j] \in Reservations /\ s[j] \in Reservations
          /\ \A j \in DOMAIN r : Spent(r[j]) \in Nat /\ Spent(s[j]) \in Nat
        BY <2>1, SeqFacts, SpentType
    <2>4. Spent(r[k]) = r[k].worst /\ Spent(s[k]) <= r[k].worst
        <3>1. Spent(r[k]) = r[k].worst
            BY <2>2, <2>3, <1>4, SpentType
        <3>2. CASE Charge(n, k, u)
            BY <1>4, <2>1, <2>3, <3>1, <3>2, SpentType
        <3>3. CASE Refund(n, k)
            <4>1. Spent(s[k]) = 0
                BY <1>4, <2>1, <2>3, <3>3, SpentType
            <4> QED BY <2>3, <3>1, <4>1
        <3> QED BY <1>4, <3>1, <3>2, <3>3
    <2>5. \A j \in DOMAIN r : Spent(s[j]) <= Spent(r[j])
        BY <2>1, <2>3, <2>4
    <2>6. FundedIn(s) <= FundedIn(r)
        BY <2>1, <2>5, FundedSettles
    <2> PICK S \in [Nodes -> Seq(Reservations)] : S = resv'
        BY <2>1
    <2>7. /\ CommittedIn(S) + FundedIn(r) = CommittedIn(resv) + FundedIn(s)
          /\ CommittedIn(resv) \in Nat /\ CommittedIn(S) \in Nat
          /\ FundedIn(r) \in Nat /\ FundedIn(s) \in Nat
        <3>1. \A m \in Nodes : m # n => S[m] = resv[m]
            BY <2>1
        <3>2. /\ CommittedIn(S) + FundedIn(resv[n]) = CommittedIn(resv) + FundedIn(S[n])
              /\ CommittedIn(resv) \in Nat /\ CommittedIn(S) \in Nat
              /\ FundedIn(resv[n]) \in Nat /\ FundedIn(S[n]) \in Nat
            BY <1>2, <3>1, CommittedChange
        <3> QED BY <3>2
    <2> QED BY <1>0, <1>1, <1>2, <2>6, <2>7
<1>5. ASSUME NEW n \in Nodes, Reserve(n), reuse[n] = 0, Committed + WorstCase(n) <= Limit
      PROVE  Committed' <= Limit
    <2>1. PICK x \in Reservations :
              /\ x.state = "reserved" /\ x.worst = WorstCase(n)
              /\ resv'[n] = Append(resv[n], x) /\ \A m \in Nodes : m # n => resv'[m] = resv[m]
              /\ resv' \in [Nodes -> Seq(Reservations)]
        BY <1>0, <1>5, Reserves
    <2> PICK r \in Seq(Reservations) : r = resv[n]
        BY <1>2
    <2> PICK S \in [Nodes -> Seq(Reservations)] : S = resv'
        BY <2>1
    <2>2. FundedIn(Append(r, x)) = FundedIn(r) + Spent(x) /\ Spent(x) = WorstCase(n)
        BY <2>1, FundedAppend, SpentType
    <2>3. /\ CommittedIn(S) + FundedIn(resv[n]) = CommittedIn(resv) + FundedIn(S[n])
          /\ CommittedIn(resv) \in Nat /\ CommittedIn(S) \in Nat
          /\ FundedIn(resv[n]) \in Nat /\ FundedIn(S[n]) \in Nat
        <3>1. \A m \in Nodes : m # n => S[m] = resv[m]
            BY <2>1
        <3> QED BY <1>2, <3>1, CommittedChange
    <2>4. S[n] = Append(r, x) /\ WorstCase(n) \in Nat
        BY <1>0, <2>1, Entries, WorstType
    <2>5. CommittedIn(S) = CommittedIn(resv) + WorstCase(n)
        <3>1. FundedIn(S[n]) = FundedIn(resv[n]) + WorstCase(n)
            BY <2>2, <2>4
        <3>2. PICK a \in Nat : a = CommittedIn(S)
            BY <2>3
        <3>3. PICK b \in Nat : b = CommittedIn(resv)
            BY <2>3
        <3>4. PICK c \in Nat : c = FundedIn(S[n])
            BY <2>3
        <3>5. PICK d \in Nat : d = FundedIn(resv[n])
            BY <2>3
        <3>6. PICK w \in Nat : w = WorstCase(n)
            BY <2>4
        <3>7. a + d = b + c
            BY <2>3, <3>2, <3>3, <3>4, <3>5
        <3>8. c = d + w
            BY <3>1, <3>4, <3>5, <3>6
        <3>9. a = b + w
            BY <3>7, <3>8
        <3> QED BY <3>2, <3>3, <3>6, <3>9
    <2> QED BY <1>1, <1>5, <2>5
<1> QED BY <1>3, <1>4, <1>5, ResvChanges

\* What the run's status is changed to, and what the verdict is.
LEMMA StatusStep ==
    ASSUME RunInv, [Next]_vars
    PROVE  /\ phase' # "down" => status' \notin TerminalRun
           /\ status' = "completed" =>
                 status = "completed" \/ (phase = "ending" /\ result[Head(Plan)] = "completed")
           /\ phase' = "ending" /\ result'[Head(Plan)] = "completed" =>
                 \/ phase = "ending" /\ result[Head(Plan)] = "completed"
                 \/ UNCHANGED node /\ \A n \in Nodes : Done(n)
<1>0. TypeOK /\ Root /\ Head(Plan) \in Nodes
    BY HeadIn DEF RunInv
<1>1. {"completed", "failed", "interrupted", "orphaned"} \cap {"planned", "admitted", "running", "stopping", "paused"} = {}
    OBVIOUS
<1>2. CASE UNCHANGED vars
    BY <1>0, <1>2 DEF Root, vars, durable, memory
<1>3. CASE Execute
    BY <1>0, <1>3 DEF Root, Execute, TerminalRun, None
<1>4. CASE Open \/ RecoveryDone \/ LoopCancelled
    BY <1>0, <1>4 DEF Root, Open, RecoveryDone, LoopCancelled, PollThen, Goto, durable
<1>5. CASE Approve \/ Begin
    BY <1>0, <1>5 DEF Root, Approve, Begin, PollThen, Goto, TerminalRun
<1>6. CASE \/ DenyApproval \/ Pause \/ Release \/ Crash
    BY <1>0, <1>6 DEF Root, DenyApproval, RequestApproval, Pause, Release, Crash, Leave, durable
<1>7. CASE LaunchWave
    BY <1>0, <1>7 DEF Root, LaunchWave, LoopGoesOn, durable
<1>8. CASE NothingReady
    <2>1. /\ phase = "loop" /\ phase' = "ending" /\ UNCHANGED <<node, status>>
          /\ result'[Head(Plan)] = IF \A n \in Nodes : Done(n) THEN "completed" ELSE "failed"
        BY <1>0, <1>8 DEF NothingReady, LoopGoesOn, EndRoot, All, durable
    <2> QED BY <1>0, <2>1 DEF Root
<1>9. CASE WaveDone
    <2>1. CASE RequestApproval
        BY <1>0, <2>1 DEF Root, RequestApproval, Leave
    <2>2. CASE Goto("loop") /\ UNCHANGED durable
        BY <1>0, <1>9, <2>2 DEF Root, Goto, WaveDone, durable
    <2>3. CASE UNCHANGED durable /\ \E i \in DOMAIN Plan : result[Plan[i]] # "completed" /\ EndRoot(result[Plan[i]])
        <3>1. PICK i \in DOMAIN Plan : result[Plan[i]] # "completed" /\ EndRoot(result[Plan[i]])
            BY <2>3
        <3>2. phase' = "ending" /\ result'[Head(Plan)] # "completed" /\ status' = status /\ phase = "wave"
            BY <1>0, <1>9, <2>3, <3>1 DEF EndRoot, All, durable, WaveDone
        <3> QED BY <1>0, <3>2 DEF Root
    <2> QED BY <1>9, <2>1, <2>2, <2>3 DEF WaveDone
<1>10. CASE AppendStopping
    <2>1. /\ phase = "stopping" /\ phase' = "ending" /\ status' \in {status, "stopping"}
          /\ result'[Head(Plan)] = "orphaned"
        BY <1>0, <1>10 DEF AppendStopping, EndRoot, All
    <2> QED BY <1>0, <2>1 DEF Root, TerminalRun
<1>11. CASE SettleRoot
    BY <1>0, <1>11 DEF Root, SettleRoot, Leave
<1>12. CASE RequestCancel \/ RequestDurableCancel \/ PollCancel \/ RequestPause
    BY <1>0, <1>12 DEF Root, RequestCancel, RequestDurableCancel, PollCancel, RequestPause, durable, memory
<1>13. CASE RefundUnadmitted \/ RefundsDone
    BY <1>0, <1>13 DEF Root, RefundUnadmitted, RefundsDone, durable, memory
<1>14. ASSUME NEW n \in Nodes, Requeue(n) \/ \E i \in left : KeepBatch(n, i) \/ InterruptChild(n, i) \/ SettleAttempt(n, i)
       PROVE  UNCHANGED <<status, phase, result>>
    BY <1>14 DEF Requeue, KeepBatch, InterruptChild, SettleAttempt, memory
<1>15. ASSUME NEW n \in Nodes, RefuseReplay(n)
       PROVE  UNCHANGED status /\ phase = "recover" /\ phase' = "ending" /\ result'[Head(Plan)] = "interrupted"
    BY <1>0, <1>15 DEF RefuseReplay, Recovered, EndRoot, All
<1>16. ASSUME NEW n \in Nodes, RunNode(n)
       PROVE  UNCHANGED status /\ phase \in {"wave", "thrown"} /\ phase' \in {"wave", "thrown"}
    BY <1>16, RunSteps
<1>17. ASSUME NEW n \in Nodes, Requeue(n) \/ RefuseReplay(n) \/ RunNode(n)
                               \/ \E i \in left : KeepBatch(n, i) \/ InterruptChild(n, i) \/ SettleAttempt(n, i)
       PROVE  /\ status' = status /\ (phase' # "down" => phase # "down")
              /\ phase' = "ending" /\ result'[Head(Plan)] = "completed" =>
                    phase = "ending" /\ result[Head(Plan)] = "completed"
    BY <1>14, <1>15, <1>16, <1>17
<1> QED BY <1>0, <1>2, <1>3, <1>4, <1>5, <1>6, <1>7, <1>8, <1>9, <1>10, <1>11, <1>12, <1>13, <1>17
        DEF Next, Control, Recover, Root

\* What is said of the root stays true.
LEMMA RootStep ==
    ASSUME RunInv, [Next]_vars
    PROVE  Root'
<1>1. \A d \in Nodes : Done(d) => Done(d)'
    BY DoneStays
<1>2. UNCHANGED node => \A d \in Nodes : Done(d)' = Done(d)
    BY DEF Done
<1>3. Root
    BY DEF RunInv
<1> QED BY <1>1, <1>2, <1>3, CommittedStep, StatusStep DEF Root

-----------------------------------------------------------------------------
(* The invariant.                                                          *)

\* The invariant holds when nothing has been done.
LEMMA RunInit == Init => RunInv
<1> SUFFICES ASSUME Init PROVE RunInv
    OBVIOUS
<1>0. /\ \A n \in Nodes : /\ node[n] = [status |-> "planned", outcome |-> None]
                          /\ atts[n] = <<>> /\ resv[n] = <<>>
                          /\ item[n] = [used |-> 0, auth |-> FALSE, status |-> "queued"]
                          /\ pc[n] = "idle" /\ tries[n] = 0 /\ reuse[n] = 0
                          /\ end[n] = NoEnd /\ result[n] = None
      /\ status = None /\ phase = "down" /\ todo = {} /\ left = {}
    BY DEF Init, All
<1>1. TypeOK
    <2>1. status \in RunStatus /\ phase \in Phases /\ todo \subseteq Nodes /\ left \subseteq Nat
        BY DEF Init, RunStatus, Phases
    <2>2. node \in [Nodes -> [status : NodeStatus, outcome : TerminalRun \union {None}]]
        BY DEF Init, All, NodeStatus
    <2>3. atts \in [Nodes -> Seq(Attempts)] /\ resv \in [Nodes -> Seq(Reservations)]
        BY DEF Init, All
    <2>4. item \in [Nodes -> Items]
        BY NumbersAssumption DEF Init, All, Items
    <2>5. pc \in [Nodes -> NodeSteps] /\ tries \in [Nodes -> 0..MaxAttempts] /\ reuse \in [Nodes -> Nat]
        BY NumbersAssumption DEF Init, All, NodeSteps
    <2>6. end \in [Nodes -> [outcome : TerminalRun \union {None}, auth : BOOLEAN]]
        BY DEF Init, All, NoEnd
    <2>7. result \in [Nodes -> TerminalRun \union {None, "awaiting-approval"}]
        BY DEF Init, All
    <2>8. {cancelFile, cancel, pause} \subseteq BOOLEAN
        BY DEF Init
    <2>9. crashes \in 0..MaxCrashes
        BY NumbersAssumption DEF Init
    <2>10. known = {}
        BY DEF Init
    <2> QED BY <1>0, <2>1, <2>2, <2>3, <2>4, <2>5, <2>6, <2>7, <2>8, <2>9, <2>10 DEF TypeOK
<1>2. ASSUME NEW n \in Nodes
      PROVE  Started(n) = {} /\ (\A k : ~Touched(n, k)) /\ (\A k : ~Owned(n, k)) /\ ~Done(n)
             /\ Paid(n, Len(resv[n])) = 0
    <2>1. Started(n) = {} /\ (\A k : ~Touched(n, k)) /\ (\A k : ~Owned(n, k)) /\ ~Done(n)
        BY <1>0, <1>2 DEF Started, Touched, Owned, Done, None
    <2> QED BY <1>1, <2>1, UnstartedUnpaid
<1>3. Root
    <2>1. Committed = 0
        <3>1. \A n \in Nodes : DOMAIN [k \in DOMAIN resv[n] |-> Spent(resv[n][k])] = {}
            BY <1>0
        <3>2. \A n \in Nodes : Funded(n) = 0
            BY <3>1, SumEmpty DEF Funded
        <3> DEFINE F == [n \in Nodes |-> Funded(n)]
        <3>3. F \in [Nodes -> {0}]
            BY <3>2
        <3> HIDE DEF F
        <3>4. SumFunction(F) = 0
            BY <3>3, NodesFinite, SumZero
        <3> QED BY <3>4 DEF Committed, F
    <2> QED BY <1>0, <2>1, NumbersAssumption DEF Root, None
<1>4. ASSUME NEW n \in Nodes PROVE NodeInv(n)
    <2>1. AtStep(n)
        BY <1>0 DEF AtStep, HasReservation, HasAttempt
    <2>2. AtStatus(n)
        BY <1>0, <1>2 DEF AtStatus
    <2>3. Replays(n) /\ Counted(n)
        <3>1. Cardinality(Started(n)) = 0
            BY <1>2, FS_EmptySet
        <3> QED BY <1>0, <3>1, NumbersAssumption DEF Replays, Counted
    <2>4. Referred(n)
        BY <1>0 DEF Referred
    <2>5. Kept(n)
        BY <1>0 DEF Kept, Turn
    <2>6. Paying(n)
        <3>1. Starts(n) <= Paid(n, Len(resv[n]))
            <4>1. Started(n) = {} /\ Paid(n, Len(resv[n])) = 0
                BY <1>2
            <4>2. Cardinality(Started(n)) = 0
                BY <4>1, FS_EmptySet
            <4>3. item[n].used = 0
                BY <1>0
            <4> QED BY <4>1, <4>2, <4>3 DEF Starts
        <3> QED BY <1>0, <1>2, <3>1 DEF Paying
    <2> QED BY <2>1, <2>2, <2>3, <2>4, <2>5, <2>6 DEF NodeInv
<1> QED BY <1>1, <1>3, <1>4 DEF RunInv, NodeInv

\* Every step keeps the invariant.
LEMMA RunStep == RunInv /\ [Next]_vars => RunInv'
<1> SUFFICES ASSUME RunInv, [Next]_vars PROVE RunInv'
    OBVIOUS
<1>1. TypeOK' /\ Root'
    BY TypeStep, RootStep
<1>2. ASSUME NEW m \in Nodes PROVE NodeInv(m)'
    <2>1. CASE \E n \in Nodes : RunNode(n)
        BY <1>2, <2>1, RunKeeps
    <2>2. CASE ~\E n \in Nodes : RunNode(n)
        BY <1>2, <2>2, ControlKeeps DEF Next
    <2> QED BY <2>1, <2>2
<1> QED BY <1>1, <1>2 DEF RunInv, NodeInv

\* RunInv is an invariant.
THEOREM RunSafe == Spec => []RunInv
BY RunInit, RunStep, PTL DEF Spec

\* TypeOK, for every plan and budget: whatever the order of the nodes of a wave,
\* of the cancellations and of the crashes, the projection and the executor's
\* memory have the shape that #recover and #runNode read.
THEOREM RunTyped == Spec => []TypeOK
<1>1. RunInv => TypeOK
    BY DEF RunInv
<1> QED BY <1>1, RunSafe, PTL

\* What is started is at most what was paid.
LEMMA InvPays == RunInv => StartsArePaid
<1> SUFFICES ASSUME RunInv, NEW n \in Nodes PROVE Starts(n) <= Funded(n)
    BY DEF StartsArePaid
<1>1. TypeOK /\ Paying(n)
    BY DEF RunInv
<1>2. resv[n] \in Seq(Reservations)
    BY <1>1 DEF TypeOK
<1>3. Paid(n, Len(resv[n])) <= Funded(n) /\ Paid(n, Len(resv[n])) \in Nat /\ Funded(n) \in Nat
    BY <1>2, PaidIs, PaidWithin, PaidType
<1>4. Starts(n) \in Nat /\ Starts(n) <= Paid(n, Len(resv[n]))
    BY <1>1, Entries, WorstType, StartedFinite DEF Starts, Paying
<1> QED BY <1>3, <1>4

\* StartsArePaid, for every plan and budget: what a node has started is at most
\* what its reservations that are not refunded hold, whatever #recover has charged,
\* refunded or kept for a batch between two crashes.
THEOREM StartsPaid == Spec => []StartsArePaid
BY InvPays, RunSafe, PTL

\* All that is started is at most what the run may spend.
LEMMA InvFunds == RunInv => AssignmentsFunded
<1> SUFFICES ASSUME RunInv PROVE AssignmentsFunded
    OBVIOUS
<1>1. \A n \in Nodes : Kind[n] = "agent" => Cardinality(Started(n)) <= MaxAttempts
    BY DEF RunInv, Counted
<1>2. TypeOK /\ Committed <= Limit /\ Limit \in Nat
    BY NumbersAssumption DEF RunInv, Root
<1>3. \A n \in Nodes : Starts(n) \in Nat /\ Funded(n) \in Nat /\ Starts(n) <= Funded(n)
    <2>1. \A n \in Nodes : Starts(n) \in Nat
        BY <1>2, Entries, WorstType, StartedFinite DEF Starts
    <2>2. \A n \in Nodes : Funded(n) \in Nat
        BY <1>2, PaidIs, PaidType, Entries
    <2> QED BY <2>1, <2>2, InvPays DEF StartsArePaid
<1> DEFINE F == [n \in Nodes |-> Starts(n)]
           G == [n \in Nodes |-> Funded(n)]
<1>4. F \in [Nodes -> Nat] /\ G \in [Nodes -> Nat] /\ \A n \in Nodes : F[n] <= G[n]
    BY <1>3
<1> HIDE DEF F, G
<1>5. SumFunction(F) <= SumFunction(G) /\ SumFunction(F) \in Nat /\ SumFunction(G) \in Nat
    BY <1>4, NodesFinite, SumMonotone, SumType
<1>6. SumFunction(F) <= Limit
    BY <1>2, <1>5 DEF Committed, G
<1> QED BY <1>1, <1>6 DEF AssignmentsFunded, F

\* AssignmentsFunded, for every plan and budget: however often the run is
\* resumed, an agent node starts at most maxAttempts children, as
\* physicalAttempts is rebuilt from ChildStarted, and all assignments together
\* are within maxAssignments.
THEOREM RunFunded == Spec => []AssignmentsFunded
BY InvFunds, RunSafe, PTL

\* NoBlindReplay, for every plan: #recover and #prepareAttempt never start a
\* mutating node, or one that is not content-addressed, again while the end of an
\* earlier child of it is not proved by its receipt.
THEOREM NothingReplayed == Spec => []NoBlindReplay
<1>1. RunInv => NoBlindReplay
    BY DEF RunInv, NoBlindReplay, Replays, Protected
<1> QED BY <1>1, RunSafe, PTL

\* DependenciesFirst, for every plan: a node has an attempt only when all the
\* nodes it depends on have completed, also after #recover has queued it again.
THEOREM NeedsFirst == Spec => []DependenciesFirst
<1>1. RunInv => DependenciesFirst
    BY DEF RunInv, DependenciesFirst, AtStatus
<1> QED BY <1>1, RunSafe, PTL

\* CompletedIsProved, for every plan: a run that is recorded as completed has
\* completed every node, and each agent or batch of it has an attempt whose
\* terminal event says so with authority.
THEOREM CompletedProved == Spec => []CompletedIsProved
<1>1. RunInv => CompletedIsProved
    BY DEF RunInv, CompletedIsProved, Root, AtStatus, Completed
<1> QED BY <1>1, RunSafe, PTL
=============================================================================
