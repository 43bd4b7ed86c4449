------------------------------ MODULE WellOrder -----------------------------
(***************************************************************************)
(* A set of natural numbers has a least element and, if it is bounded, a   *)
(* largest: what stands for induction over places in the proofs.  A        *)
(* recursive function along a rank exists, and so does one over the first  *)
(* numbers: what the operators defined by recursion are looked at through. *)
(***************************************************************************)
EXTENDS Integers, WellFoundedInduction, TLAPS

Below == {p \in Nat \X Nat : p[1] < p[2]}

LEMMA BelowWellFounded == IsWellFoundedOn(Below, Nat)
BY NatLessThanWellFounded DEF OpToRel, Below

LEMMA LeastElement ==
  ASSUME NEW T \in SUBSET Nat, T # {}
  PROVE  \E x \in T : \A y \in T : x <= y
<1>1. PICK x \in T : \A y \in T : ~ (<<y, x>> \in Below)
  BY BelowWellFounded, WFMin
<1>2. ASSUME NEW y \in T PROVE x <= y
  <2>1. <<y, x>> \notin Below /\ y \in Nat /\ x \in Nat
    BY <1>1
  <2>2. <<y, x>> \in Nat \X Nat
    BY <2>1
  <2>3. ~(y < x)
    BY <2>1, <2>2 DEF Below
  <2> QED BY <2>1, <2>3
<1> QED BY <1>2

LEMMA LargestElement ==
  ASSUME NEW n \in Nat, NEW T \in SUBSET (0 .. n), T # {}
  PROVE  \E x \in T : \A y \in T : y <= x
<1> DEFINE U == {k \in 0 .. n : n - k \in T}
<1>1. U \in SUBSET Nat
  OBVIOUS
<1>2. ASSUME NEW y \in T PROVE n - y \in U
  <2>1. y \in 0 .. n /\ n - y \in 0 .. n /\ n - (n - y) = y
    OBVIOUS
  <2>2. n - (n - y) \in T
    BY <2>1, Zenon
  <2> QED BY <2>1, <2>2
<1>3. U # {}
  BY <1>2
<1>4. PICK k \in U : \A j \in U : k <= j
  <2> HIDE DEF U
  <2> QED BY <1>1, <1>3, LeastElement
<1>5. n - k \in T /\ k \in 0 .. n
  BY <1>4
<1>6. ASSUME NEW y \in T PROVE y <= n - k
  <2>1. k <= n - y /\ y \in 0 .. n
    <3> HIDE DEF U
    <3> QED BY <1>2, <1>4
  <2> QED BY <1>5, <2>1
<1> QED BY <1>5, <1>6

\* A function defined by recursion along a rank.
Ranked(D, S, bound, rank, Ends, base, next, G) ==
  /\ bound \in Nat /\ rank \in [D -> 0 .. bound]
  /\ Ends \in SUBSET D /\ base \in [D -> S] /\ next \in [D -> D] /\ G \in [D -> [S -> S]]
  /\ \A v \in D \ Ends : rank[next[v]] < rank[v]
SolvesRanked(f, D, Ends, base, next, G) ==
  \A v \in D : f[v] = IF v \in Ends THEN base[v] ELSE G[v][f[next[v]]]

LEMMA RankedSolved ==
  ASSUME NEW D, NEW S, NEW bound, NEW rank, NEW Ends, NEW base, NEW next, NEW G,
         Ranked(D, S, bound, rank, Ends, base, next, G)
  PROVE  \E f \in [D -> S] : SolvesRanked(f, D, Ends, base, next, G)
<1> USE DEF Ranked, SolvesRanked
<1> DEFINE Low(n) == {v \in D : rank[v] < n}
           Solves(f, n) == \A v \in Low(n) : f[v] = IF v \in Ends THEN base[v] ELSE G[v][f[next[v]]]
           Solved(n) == \E f \in [Low(n) -> S] : Solves(f, n)
           T == {n \in Nat : ~Solved(n)}
<1>1. ASSUME T # {} PROVE FALSE
  <2>1. PICK n \in T : \A k \in T : n <= k
    <3>1. T \in SUBSET Nat
      OBVIOUS
    <3> HIDE DEF T
    <3> QED BY <1>1, <3>1, LeastElement
  <2>2. n \in Nat /\ ~Solved(n)
    OBVIOUS
  <2>3. n # 0
    <3>1. Low(0) = {}
      OBVIOUS
    <3>2. [v \in {} |-> base[v]] \in [Low(0) -> S] /\ Solves([v \in {} |-> base[v]], 0)
      BY <3>1
    <3>3. Solved(0)
      BY <3>2
    <3> HIDE DEF Solved
    <3> QED BY <2>2, <3>3
  <2>4. n - 1 \in Nat /\ n - 1 \notin T
    <3>1. n - 1 \in Nat /\ ~(n <= n - 1)
      BY <2>2, <2>3
    <3> HIDE DEF T
    <3> QED BY <2>1, <3>1
  <2>5. Solved(n - 1)
    BY <2>4
  <2>6. PICK f \in [Low(n - 1) -> S] : Solves(f, n - 1)
    BY <2>5
  <2> DEFINE g == [v \in Low(n) |-> IF v \in Low(n - 1) THEN f[v] ELSE IF v \in Ends THEN base[v] ELSE G[v][f[next[v]]]]
  <2>7. ASSUME NEW v \in Low(n), v \notin Ends PROVE next[v] \in Low(n - 1) /\ next[v] \in Low(n)
    BY <2>2, <2>4, <2>7
  <2>8. ASSUME NEW v \in Low(n) PROVE g[v] \in S
    <3>1. v \in D
      OBVIOUS
    <3> HIDE DEF Low
    <3>2. CASE v \in Low(n - 1)
      BY <3>2
    <3>3. CASE v \notin Low(n - 1) /\ v \in Ends
      BY <3>1, <3>3
    <3>4. CASE v \notin Low(n - 1) /\ v \notin Ends
      BY <2>7, <3>1, <3>4
    <3> QED BY <3>2, <3>3, <3>4
  <2>9. g \in [Low(n) -> S]
    <3> HIDE DEF Low
    <3> QED BY <2>8
  <2>10. ASSUME NEW v \in Low(n) PROVE g[v] = IF v \in Ends THEN base[v] ELSE G[v][g[next[v]]]
    <3>1. v \notin Ends => g[next[v]] = f[next[v]]
      <4> HIDE DEF Low
      <4> QED BY <2>7
    <3>2. v \in Low(n - 1) => f[v] = IF v \in Ends THEN base[v] ELSE G[v][f[next[v]]]
      BY <2>6
    <3>3. g[v] = IF v \in Low(n - 1) THEN f[v] ELSE IF v \in Ends THEN base[v] ELSE G[v][f[next[v]]]
      <4> HIDE DEF Low
      <4> QED OBVIOUS
    <3> HIDE DEF Low, g
    <3> QED BY <3>1, <3>2, <3>3
  <2>11. Solves(g, n)
    <3> HIDE DEF Low, g
    <3> QED BY <2>10
  <2> HIDE DEF g
  <2> QED BY <2>2, <2>9, <2>11
<1>2. Solved(bound + 1) /\ Low(bound + 1) = D
  <2>1. bound + 1 \in Nat
    OBVIOUS
  <2>2. Low(bound + 1) = D
    OBVIOUS
  <2> HIDE DEF Low, Solved
  <2> QED BY <1>1, <2>1, <2>2
<1>3. PICK f \in [Low(bound + 1) -> S] : Solves(f, bound + 1)
  BY <1>2
<1> QED BY <1>2, <1>3

\* Recursion and induction over the first numbers.
Counted(n, S, s0, G) == n \in Nat /\ s0 \in S /\ G \in [1 .. n -> [S -> S]]
SolvesCounted(f, n, s0, G) == \A v \in 0 .. n : f[v] = IF v = 0 THEN s0 ELSE G[v][f[v - 1]]

LEMMA CountedSolved ==
  ASSUME NEW n, NEW S, NEW s0, NEW G, Counted(n, S, s0, G)
  PROVE  \E f \in [0 .. n -> S] : SolvesCounted(f, n, s0, G)
<1> USE DEF Counted
<1> DEFINE D == 0 .. n
           rank == [v \in D |-> v]
           Ends == {0}
           base == [v \in D |-> s0]
           next == [v \in D |-> IF v = 0 THEN 0 ELSE v - 1]
           H == [v \in D |-> IF v = 0 THEN [s \in S |-> s] ELSE G[v]]
<1>1. rank \in [D -> 0 .. n] /\ Ends \in SUBSET D /\ base \in [D -> S] /\ next \in [D -> D]
  OBVIOUS
<1>2. H \in [D -> [S -> S]]
  OBVIOUS
<1>3. \A v \in D \ Ends : rank[next[v]] < rank[v]
  OBVIOUS
<1>4. Ranked(D, S, n, rank, Ends, base, next, H)
  <2> HIDE DEF D, rank, Ends, base, next, H
  <2> QED BY <1>1, <1>2, <1>3 DEF Ranked
<1>5. PICK f \in [D -> S] : SolvesRanked(f, D, Ends, base, next, H)
  <2> HIDE DEF D, rank, Ends, base, next, H
  <2> QED BY <1>4, RankedSolved
<1>6. ASSUME NEW v \in D PROVE f[v] = IF v = 0 THEN s0 ELSE G[v][f[v - 1]]
  <2>1. f[v] = IF v \in Ends THEN base[v] ELSE H[v][f[next[v]]]
    <3> HIDE DEF D, rank, Ends, base, next, H
    <3> QED BY <1>5 DEF SolvesRanked
  <2>2. CASE v = 0
    BY <2>1, <2>2
  <2>3. CASE v # 0
    <3>1. v \in 1 .. n /\ H[v] = G[v] /\ next[v] = v - 1
      BY <2>3
    <3> QED BY <2>1, <2>3, <3>1
  <2> QED BY <2>2, <2>3
<1> QED BY <1>5, <1>6 DEF SolvesCounted

LEMMA CountedInduction ==
  ASSUME NEW n \in Nat, NEW T, 0 \in T, \A k \in 1 .. n : k - 1 \in T => k \in T
  PROVE  \A k \in 0 .. n : k \in T
<1> DEFINE M == {k \in 0 .. n : k \notin T}
<1>1. SUFFICES ASSUME M # {} PROVE FALSE
  OBVIOUS
<1>2. M \in SUBSET Nat
  OBVIOUS
<1>3. PICK m \in M : \A k \in M : m <= k
  <2> HIDE DEF M
  <2> QED BY <1>1, <1>2, LeastElement
<1>4. m \in 0 .. n /\ m \notin T
  OBVIOUS
<1>5. m \in 1 .. n /\ m - 1 \in 0 .. n /\ ~(m <= m - 1)
  BY <1>4
<1>6. m - 1 \in T
  BY <1>3, <1>5
<1> QED BY <1>4, <1>5, <1>6
=============================================================================
