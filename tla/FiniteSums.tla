----------------------------- MODULE FiniteSums -----------------------------
(***************************************************************************)
(* Facts about SumFunction, the sum of a function over its finite domain,  *)
(* and about Max, for the proofs about budgets and revisions.  Induction   *)
(* is by a minimal counterexample (WFMin), which the first-order provers   *)
(* can instantiate.                                                        *)
(***************************************************************************)
EXTENDS FiniteSetsExt, FiniteSetTheorems, WellFoundedInduction, TLAPS

\* The table of partial sums that the fold of the community modules builds.
Pick(s) == CHOOSE x \in s : TRUE
Entry(it, F, s) == IF s = {} THEN 0 ELSE F[Pick(s)] + it[s \ {Pick(s)}]
IsTable(it, F, S) == it = [s \in SUBSET S |-> Entry(it, F, s)]

\* The sum is the entry of the whole domain in the table that the fold chooses.
LEMMA SumIsFold == \A F : SumFunction(F) = (CHOOSE it : IsTable(it, F, DOMAIN F))[DOMAIN F]
BY DEF SumFunction, SumFunctionOnSet, FoldFunctionOnSet, MapThenFoldSet, IsTable, Entry, Pick

\* The fold takes an element of a nonempty set.
LEMMA PickIn == \A s : s # {} => Pick(s) \in s
BY DEF Pick

\* A nonempty set of subsets of a finite set has a minimal one.
LEMMA MinimalSubset ==
    ASSUME NEW S, IsFiniteSet(S), NEW T, T \subseteq SUBSET S, T # {}
    PROVE  \E s \in T : \A u \in T : u \subseteq s => u = s
<1>1. IsWellFoundedOn(StrictSubsetOrdering(S), SUBSET S)
    BY FS_StrictSubsetOrderingWellFounded, FS_FiniteSubsetsOfFinite
<1>2. PICK s \in T : \A u \in T : ~(<<u, s>> \in StrictSubsetOrdering(S))
    BY <1>1, WFMin
<1>3. ASSUME NEW u \in T, u \subseteq s PROVE u = s
    BY <1>2, <1>3 DEF StrictSubsetOrdering
<1> QED BY <1>3

\* An entry of a table, from the entry of one element less.
LEMMA TableEntry ==
    ASSUME NEW F, NEW S, NEW it, IsTable(it, F, S), NEW s \in SUBSET S
    PROVE  it[s] = Entry(it, F, s)
BY DEF IsTable

\* Tables of functions that agree on u agree on u.
LEMMA TablesAgree ==
    ASSUME NEW F, NEW G, NEW S, NEW R, NEW it, NEW jt, NEW u, IsFiniteSet(u),
           u \subseteq S, u \subseteq R, IsTable(it, F, S), IsTable(jt, G, R),
           \A x \in u : F[x] = G[x]
    PROVE  it[u] = jt[u]
<1> DEFINE Bad == {s \in SUBSET u : it[s] # jt[s]}
<1>1. CASE Bad = {}
    BY <1>1
<1>2. CASE Bad # {}
    <2>0. Bad \subseteq SUBSET u
        OBVIOUS
    <2>1. PICK s \in Bad : \A v \in Bad : v \subseteq s => v = s
        <3> HIDE DEF Bad
        <3> QED BY <1>2, <2>0, MinimalSubset
    <2>2. s \in SUBSET S /\ s \in SUBSET R
        OBVIOUS
    <2>3. it[s] = Entry(it, F, s) /\ jt[s] = Entry(jt, G, s)
        BY <2>2, TableEntry
    <2>4. CASE s = {}
        BY <2>3, <2>4 DEF Entry
    <2>5. CASE s # {}
        <3>1. Pick(s) \in s
            BY <2>5, PickIn
        <3>2. s \ {Pick(s)} \notin Bad
            BY <2>1, <3>1
        <3>3. it[s \ {Pick(s)}] = jt[s \ {Pick(s)}] /\ F[Pick(s)] = G[Pick(s)]
            BY <3>1, <3>2
        <3> QED BY <2>3, <2>5, <3>3 DEF Entry
    <2> QED BY <2>4, <2>5
<1> QED BY <1>1, <1>2

\* A function with a finite domain has a table.
LEMMA TableExists ==
    ASSUME NEW F, NEW S, IsFiniteSet(S)
    PROVE  \E it : IsTable(it, F, S)
<1> DEFINE Bad == {s \in SUBSET S : ~ \E it : IsTable(it, F, s)}
<1>1. CASE Bad = {}
    BY <1>1
<1>2. CASE Bad # {}
    <2>0. Bad \subseteq SUBSET S
        OBVIOUS
    <2>1. PICK s \in Bad : \A v \in Bad : v \subseteq s => v = s
        <3> HIDE DEF Bad
        <3> QED BY <1>2, <2>0, MinimalSubset
    <2> DEFINE T(v) == CHOOSE it : IsTable(it, F, v)
               val(v) == T(v)[v]
               it == [v \in SUBSET s |-> IF v = {} THEN 0 ELSE F[Pick(v)] + val(v \ {Pick(v)})]
    <2>2. ASSUME NEW v \in SUBSET s, v # s PROVE IsTable(T(v), F, v)
        BY <2>1, <2>2
    <2>3. ASSUME NEW v \in SUBSET s, v # s PROVE val(v) = it[v]
        <3>1. val(v) = Entry(T(v), F, v)
            BY <2>2, <2>3, TableEntry
        <3>2. CASE v = {}
            BY <3>1, <3>2 DEF Entry
        <3>3. CASE v # {}
            <4> DEFINE w == v \ {Pick(v)}
            <4>1. Pick(v) \in v /\ w \in SUBSET s /\ w # s /\ w \subseteq v
                BY <3>3, PickIn
            <4>2. IsTable(T(w), F, w) /\ IsTable(T(v), F, v)
                BY <2>2, <2>3, <4>1
            <4>3. IsFiniteSet(w)
                BY <4>1, FS_Subset
            <4>4. T(v)[w] = T(w)[w]
                <5> HIDE DEF T, w
                <5> QED BY <4>1, <4>2, <4>3, TablesAgree
            <4>5. val(v) = F[Pick(v)] + T(v)[w]
                BY <3>1, <3>3 DEF Entry
            <4>6. it[v] = F[Pick(v)] + val(w)
                BY <3>3
            <4> QED BY <4>4, <4>5, <4>6
        <3> QED BY <3>2, <3>3
    <2>4. ASSUME NEW v \in SUBSET s PROVE it[v] = Entry(it, F, v)
        <3>1. CASE v = {}
            BY <3>1 DEF Entry
        <3>2. CASE v # {}
            <4>1. Pick(v) \in v
                BY <3>2, PickIn
            <4>2. v \ {Pick(v)} \in SUBSET s /\ v \ {Pick(v)} # s
                BY <4>1
            <4>3. val(v \ {Pick(v)}) = it[v \ {Pick(v)}]
                BY <2>3, <4>2
            <4>4. it[v] = F[Pick(v)] + val(v \ {Pick(v)})
                BY <3>2
            <4> HIDE DEF it, val
            <4> QED BY <3>2, <4>3, <4>4 DEF Entry
        <3> QED BY <3>1, <3>2
    <2>5. IsTable(it, F, s)
        <3>1. it = [v \in SUBSET s |-> it[v]]
            OBVIOUS
        <3>2. [v \in SUBSET s |-> it[v]] = [v \in SUBSET s |-> Entry(it, F, v)]
            <4> HIDE DEF it
            <4> QED BY <2>4
        <3> HIDE DEF it
        <3> QED BY <3>1, <3>2 DEF IsTable
    <2> HIDE DEF it
    <2> QED BY <2>5
<1> QED BY <1>1, <1>2

\* The sum is an entry of a table.
LEMMA SumTable ==
    ASSUME NEW F, IsFiniteSet(DOMAIN F)
    PROVE  \E it : IsTable(it, F, DOMAIN F) /\ SumFunction(F) = it[DOMAIN F]
<1> DEFINE it == CHOOSE it : IsTable(it, F, DOMAIN F)
<1>1. IsTable(it, F, DOMAIN F)
    BY TableExists
<1>2. SumFunction(F) = it[DOMAIN F]
    BY SumIsFold
<1> QED BY <1>1, <1>2

\* Sums of naturals are naturals.
LEMMA TableType ==
    ASSUME NEW S, IsFiniteSet(S), NEW F, \A x \in S : F[x] \in Nat, NEW it, IsTable(it, F, S)
    PROVE  \A s \in SUBSET S : it[s] \in Nat
<1> DEFINE Bad == {s \in SUBSET S : it[s] \notin Nat}
<1>1. CASE Bad # {}
    <2>0. Bad \subseteq SUBSET S
        OBVIOUS
    <2>1. PICK s \in Bad : \A v \in Bad : v \subseteq s => v = s
        <3> HIDE DEF Bad
        <3> QED BY <1>1, <2>0, MinimalSubset
    <2>2. it[s] = Entry(it, F, s)
        BY TableEntry
    <2>3. CASE s # {}
        <3>1. Pick(s) \in s
            BY <2>3, PickIn
        <3>2. it[s \ {Pick(s)}] \in Nat
            BY <2>1, <3>1
        <3> QED BY <2>2, <2>3, <3>1, <3>2 DEF Entry
    <2> QED BY <2>2, <2>3 DEF Entry
<1> QED BY <1>1

\* Any element can be taken out of a sum, not only the one that was picked.
LEMMA TableTakes ==
    ASSUME NEW S, IsFiniteSet(S), NEW F, \A x \in S : F[x] \in Nat, NEW it, IsTable(it, F, S)
    PROVE  \A s \in SUBSET S : \A x \in s : it[s] = F[x] + it[s \ {x}]
<1> DEFINE Bad == {s \in SUBSET S : ~ \A x \in s : it[s] = F[x] + it[s \ {x}]}
<1>1. CASE Bad # {}
    <2>0. Bad \subseteq SUBSET S
        OBVIOUS
    <2>1. PICK s \in Bad : \A v \in Bad : v \subseteq s => v = s
        <3> HIDE DEF Bad
        <3> QED BY <1>1, <2>0, MinimalSubset
    <2>2. PICK x \in s : it[s] # F[x] + it[s \ {x}]
        OBVIOUS
    <2> DEFINE p == Pick(s)
    <2>3. p \in s
        BY PickIn
    <2>4. it[s] = F[p] + it[s \ {p}]
        BY TableEntry DEF Entry
    <2>5. x # p
        BY <2>2, <2>4
    <2>6. s \ {p} \notin Bad /\ s \ {x} \notin Bad
        BY <2>1, <2>3
    <2>7. it[s \ {p}] = F[x] + it[(s \ {p}) \ {x}]
        BY <2>5, <2>6
    <2>8. it[s \ {x}] = F[p] + it[(s \ {x}) \ {p}]
        BY <2>3, <2>5, <2>6
    <2>9. (s \ {x}) \ {p} = (s \ {p}) \ {x}
        OBVIOUS
    <2>10. it[(s \ {p}) \ {x}] \in Nat /\ F[x] \in Nat /\ F[p] \in Nat
        BY <2>3, TableType
    <2> DEFINE rest == it[(s \ {p}) \ {x}]
    <2>11. it[s] = F[p] + (F[x] + rest)
        BY <2>4, <2>7
    <2>12. it[s \ {x}] = F[p] + rest
        BY <2>8, <2>9
    <2>13. rest \in Nat
        BY <2>10
    <2> HIDE DEF rest, p
    <2> QED BY <2>2, <2>10, <2>11, <2>12, <2>13
<1> QED BY <1>1

\* The partial sums of a larger function are larger.
LEMMA TableGrows ==
    ASSUME NEW S, IsFiniteSet(S), NEW F, NEW G, \A x \in S : F[x] \in Nat /\ G[x] \in Nat,
           \A x \in S : F[x] <= G[x], NEW it, NEW jt, IsTable(it, F, S), IsTable(jt, G, S)
    PROVE  \A s \in SUBSET S : it[s] <= jt[s]
<1> DEFINE Bad == {s \in SUBSET S : ~(it[s] <= jt[s])}
<1>1. CASE Bad # {}
    <2>0. Bad \subseteq SUBSET S
        OBVIOUS
    <2>1. PICK s \in Bad : \A v \in Bad : v \subseteq s => v = s
        <3> HIDE DEF Bad
        <3> QED BY <1>1, <2>0, MinimalSubset
    <2>2. it[s] = Entry(it, F, s) /\ jt[s] = Entry(jt, G, s)
        BY TableEntry
    <2>3. CASE s # {}
        <3>1. Pick(s) \in s
            BY <2>3, PickIn
        <3>2. it[s \ {Pick(s)}] <= jt[s \ {Pick(s)}]
            BY <2>1, <3>1
        <3>3. it[s \ {Pick(s)}] \in Nat /\ jt[s \ {Pick(s)}] \in Nat
            BY TableType
        <3> QED BY <2>2, <2>3, <3>1, <3>2, <3>3 DEF Entry
    <2> QED BY <2>2, <2>3 DEF Entry
<1> QED BY <1>1

-----------------------------------------------------------------------------
\* A sum of naturals is a natural.
THEOREM SumType ==
    ASSUME NEW S, IsFiniteSet(S), NEW F \in [S -> Nat]
    PROVE  SumFunction(F) \in Nat
<1>1. PICK it : IsTable(it, F, S) /\ SumFunction(F) = it[S]
    BY SumTable
<1> QED BY <1>1, TableType

\* A sum over nothing.
THEOREM SumEmpty == \A F : DOMAIN F = {} => SumFunction(F) = 0
<1> SUFFICES ASSUME NEW F, DOMAIN F = {} PROVE SumFunction(F) = 0
    OBVIOUS
<1>1. PICK it : IsTable(it, F, {}) /\ SumFunction(F) = it[{}]
    BY SumTable, FS_EmptySet
<1> QED BY <1>1, TableEntry DEF Entry

\* A sum of nothing but zeros.
THEOREM SumZero ==
    ASSUME NEW S, IsFiniteSet(S), NEW F \in [S -> {0}]
    PROVE  SumFunction(F) = 0
<1>1. PICK it : IsTable(it, F, S) /\ SumFunction(F) = it[S]
    BY SumTable
<1> DEFINE Bad == {s \in SUBSET S : it[s] # 0}
<1>2. CASE Bad # {}
    <2>0. Bad \subseteq SUBSET S
        OBVIOUS
    <2>1. PICK s \in Bad : \A v \in Bad : v \subseteq s => v = s
        <3> HIDE DEF Bad
        <3> QED BY <1>2, <2>0, MinimalSubset
    <2>2. it[s] = Entry(it, F, s)
        BY <1>1, TableEntry
    <2>3. CASE s # {}
        <3>1. Pick(s) \in s /\ F[Pick(s)] = 0
            BY <2>3, PickIn
        <3>2. it[s \ {Pick(s)}] = 0
            BY <2>1, <3>1
        <3> QED BY <2>1, <2>2, <2>3, <3>1, <3>2 DEF Entry
    <2> QED BY <2>1, <2>2, <2>3 DEF Entry
<1> QED BY <1>1, <1>2

\* A sum over one element more.
THEOREM SumAdd ==
    \A F, G : \A x \in DOMAIN G :
        /\ IsFiniteSet(DOMAIN F) /\ DOMAIN F = DOMAIN G \ {x}
        /\ \A y \in DOMAIN G : G[y] \in Nat
        /\ \A y \in DOMAIN F : G[y] = F[y]
        => SumFunction(G) = SumFunction(F) + G[x]
<1>1. ASSUME NEW F, NEW G, NEW x, NEW S, NEW R, S = DOMAIN F, R = DOMAIN G,
             IsFiniteSet(S), x \in R, S = R \ {x},
             \A y \in R : G[y] \in Nat, \A y \in S : G[y] = F[y]
      PROVE  SumFunction(G) = SumFunction(F) + G[x]
    <2>1. R = S \union {x} /\ S \subseteq R
        BY <1>1
    <2>2. IsFiniteSet(R) /\ IsFiniteSet(S)
        BY <1>1, <2>1, FS_AddElement
    <2>3. PICK it : IsTable(it, F, S) /\ SumFunction(F) = it[S]
        BY <1>1, SumTable
    <2>4. PICK jt : IsTable(jt, G, R) /\ SumFunction(G) = jt[R]
        BY <1>1, <2>2, SumTable
    <2>5. (\A y \in R : G[y] \in Nat) /\ \A y \in S : F[y] \in Nat /\ F[y] = G[y]
        BY <1>1
    <2>7. jt[R] = G[x] + jt[S]
        <3>1. IsFiniteSet(R) /\ x \in R /\ R \ {x} = S /\ \A y \in R : G[y] \in Nat
            BY <1>1, <2>2
        <3> QED BY <2>4, <3>1, TableTakes
    <2>8. it[S] = jt[S]
        <3>1. S \subseteq S /\ S \subseteq R /\ \A y \in S : F[y] = G[y]
            BY <2>1, <2>5
        <3> QED BY <2>2, <2>3, <2>4, <3>1, TablesAgree
    <2>9. it[S] \in Nat
        BY <2>2, <2>3, <2>5, TableType
    <2>10. G[x] \in Nat
        BY <1>1
    <2> QED BY <2>3, <2>4, <2>7, <2>8, <2>9, <2>10
<1> QED BY <1>1

\* A sum of smaller terms is smaller.
THEOREM SumMonotone ==
    ASSUME NEW S, IsFiniteSet(S), NEW F \in [S -> Nat], NEW G \in [S -> Nat],
           \A x \in S : F[x] <= G[x]
    PROVE  SumFunction(F) <= SumFunction(G)
<1>1. PICK it : IsTable(it, F, S) /\ SumFunction(F) = it[S]
    BY SumTable
<1>2. PICK jt : IsTable(jt, G, S) /\ SumFunction(G) = jt[S]
    BY SumTable
<1> QED BY <1>1, <1>2, TableGrows

\* One term of a sum changes.
THEOREM SumChange ==
    ASSUME NEW S, IsFiniteSet(S), NEW F \in [S -> Nat], NEW G \in [S -> Nat], NEW x \in S,
           \A y \in S : y # x => G[y] = F[y]
    PROVE  SumFunction(G) + F[x] = SumFunction(F) + G[x]
<1> DEFINE H == [y \in S \ {x} |-> F[y]]
<1>1. DOMAIN H = S \ {x} /\ IsFiniteSet(DOMAIN H) /\ DOMAIN F = S /\ DOMAIN G = S
    BY FS_RemoveElement
<1>2. \A y \in DOMAIN H : F[y] = H[y] /\ G[y] = H[y]
    OBVIOUS
<1>3. H \in [S \ {x} -> Nat]
    OBVIOUS
<1>4. \A y \in S : F[y] \in Nat /\ G[y] \in Nat
    OBVIOUS
<1> HIDE DEF H
<1>5. SumFunction(F) = SumFunction(H) + F[x]
    BY <1>1, <1>2, <1>4, SumAdd
<1>6. SumFunction(G) = SumFunction(H) + G[x]
    BY <1>1, <1>2, <1>4, SumAdd
<1>7. SumFunction(H) \in Nat
    BY <1>1, <1>3, SumType
<1> QED BY <1>4, <1>5, <1>6, <1>7

-----------------------------------------------------------------------------
(* Maxima.                                                                 *)

\* A finite nonempty set of naturals has a maximum.
From(S, x) == {y \in S : y >= x}
LEMMA MaxOfNat ==
    \A S : S \subseteq Nat /\ IsFiniteSet(S) /\ S # {} => Max(S) \in S /\ \A y \in S : Max(S) >= y
<1>1. ASSUME NEW S, NEW T, IsFiniteSet(S), S # {}, T = {From(S, x) : x \in S}
      PROVE  \E x \in S : \A y \in S : From(S, y) \subseteq From(S, x) => From(S, y) = From(S, x)
    <2>1. T \subseteq SUBSET S
        BY <1>1 DEF From
    <2>2. T # {}
        BY <1>1
    <2>3. IsFiniteSet(S)
        BY <1>1
    <2>4. PICK s \in T : \A u \in T : u \subseteq s => u = s
        BY <2>1, <2>2, <2>3, MinimalSubset
    <2>5. PICK x \in S : s = From(S, x)
        BY <1>1, <2>4
    <2>6. \A y \in S : From(S, y) \in T
        BY <1>1
    <2> QED BY <2>4, <2>5, <2>6
<1>2. ASSUME NEW S, S \subseteq Nat, IsFiniteSet(S), S # {}
      PROVE  Max(S) \in S /\ \A y \in S : Max(S) >= y
    <2>1. PICK x \in S : \A y \in S : From(S, y) \subseteq From(S, x) => From(S, y) = From(S, x)
        BY <1>1, <1>2
    <2>2. ASSUME NEW y \in S PROVE x >= y
        <3>1. SUFFICES ASSUME ~(x >= y) PROVE FALSE
            OBVIOUS
        <3>2. x \in Nat /\ y \in Nat /\ y > x
            BY <1>2, <3>1
        <3>3. From(S, y) \subseteq From(S, x)
            <4>1. ASSUME NEW z \in S, z >= y PROVE z >= x
                BY <1>2, <3>2, <4>1
            <4> QED BY <4>1 DEF From
        <3>4. From(S, y) = From(S, x)
            BY <2>1, <3>3
        <3>5. x \in From(S, x) /\ x \notin From(S, y)
            BY <3>2 DEF From
        <3> QED BY <3>4, <3>5
    <2>3. \E z \in S : \A y \in S : z >= y
        BY <2>2
    <2> QED BY <2>3 DEF Max
<1> QED BY <1>2

\* An element that no other exceeds is the maximum.
LEMMA MaxIs ==
    ASSUME NEW S, S \subseteq Nat, IsFiniteSet(S), NEW x \in S, \A y \in S : x >= y
    PROVE  Max(S) = x
<1>1. Max(S) \in S /\ \A y \in S : Max(S) >= y
    BY MaxOfNat
<1>2. Max(S) >= x /\ x >= Max(S) /\ Max(S) \in Nat /\ x \in Nat
    BY <1>1
<1> QED BY <1>2
=============================================================================
