---------------------------- MODULE Foundations ----------------------------
(***************************************************************************)
(* What several of the proofs rest on: the least and the greatest number   *)
(* of a set, counts of numbers up to a limit, and that a function may be   *)
(* defined by recursion on a rank.                                         *)
(***************************************************************************)
EXTENDS Integers, FiniteSetTheorems, WellFoundedInduction, TLAPS

LEMMA LeastElement ==
    ASSUME NEW T, T \subseteq Nat, T # {}
    PROVE  \E x \in T : \A y \in T : x <= y
  <1> DEFINE R == OpToRel(<, Nat)
  <1>1. IsWellFoundedOn(R, Nat)
    BY NatLessThanWellFounded
  <1>2. \A x, y \in Nat : <<y, x>> \in R <=> y < x
    BY DEF OpToRel
  <1> HIDE DEF R
  <1>3. PICK x \in T : \A y \in T : ~(<<y, x>> \in R)
    BY <1>1, WFMin
  <1>4. ASSUME NEW y \in T PROVE x <= y
    <2>1. x \in Nat /\ y \in Nat /\ ~(y < x)
      BY <1>2, <1>3
    <2>2. QED
      BY <2>1
  <1>5. QED
    BY <1>4

LEMMA GreatestElement ==
    ASSUME NEW n \in Nat, NEW T, T \subseteq 1..n, T # {}
    PROVE  \E x \in T : \A y \in T : y <= x
  <1> DEFINE Bounds == {k \in 0..n : \A y \in T : y <= k}
  <1>1. n \in Bounds
    OBVIOUS
  <1>2. Bounds # {} /\ Bounds \subseteq Nat
    BY <1>1
  <1>3. PICK k \in Bounds : \A b \in Bounds : k <= b
    <2> HIDE DEF Bounds
    <2>1. QED
      BY <1>2, LeastElement
  <1>4. k \in T
    <2> SUFFICES ASSUME k \notin T PROVE FALSE
      OBVIOUS
    <2>1. \A y \in T : y \in 1..n /\ y <= k /\ y # k
      BY <1>3
    <2>2. k \in 1..n
      <3>1. PICK y \in T : TRUE
        OBVIOUS
      <3>2. y \in 1..n /\ y <= k /\ k \in 0..n
        BY <1>3, <2>1
      <3>3. QED
        BY <3>2
    <2>3. k - 1 \in Bounds
      BY <2>1, <2>2
    <2>4. QED
      BY <1>3, <2>2, <2>3
  <1>5. QED
    BY <1>3, <1>4

\* How many numbers of a set are up to n: a number, which grows with n.
LEMMA CountUpTo ==
    ASSUME NEW T, IsFiniteSet(T), NEW n
    PROVE  /\ Cardinality({k \in T : k <= n}) \in Nat
           /\ Cardinality({k \in T : k <= n}) <= Cardinality(T)
  <1> DEFINE S == {k \in T : k <= n}
  <1>1. S \in SUBSET T
    OBVIOUS
  <1> HIDE DEF S
  <1>2. IsFiniteSet(S) /\ Cardinality(S) <= Cardinality(T)
    BY <1>1, FS_Subset
  <1>3. QED
    BY <1>2, FS_CardinalityType DEF S

LEMMA CountGrows ==
    ASSUME NEW T, T \subseteq Int, IsFiniteSet(T), NEW m \in Int, NEW n \in Int, m <= n
    PROVE  Cardinality({k \in T : k <= m}) <= Cardinality({k \in T : k <= n})
  <1> DEFINE S == {k \in T : k <= m}
             U == {k \in T : k <= n}
  <1>0. \A k \in T : k <= m => k <= n
    <2>1. \A k \in Int : k <= m => k <= n
      OBVIOUS
    <2>2. QED
      BY <2>1
  <1>1. S \in SUBSET U /\ U \in SUBSET T
    BY <1>0
  <1> HIDE DEF S, U
  <1>2. IsFiniteSet(U)
    BY <1>1, FS_Subset
  <1>3. Cardinality(S) <= Cardinality(U)
    BY <1>1, <1>2, FS_Subset
  <1>4. QED
    BY <1>3 DEF S, U

\* F makes a function on S of any, and what it gives for x depends only on
\* what its argument gives for those of lower rank.
LowerFirst(F, S, V, rank) ==
    /\ F \in [[S -> V] -> [S -> V]]
    /\ \A g, h \in [S -> V], x \in S :
          (\A y \in S : rank[y] < rank[x] => g[y] = h[y]) => F[g][x] = F[h][x]

\* A function may be defined by what it gives for x from what it gives for the
\* y of lower rank: there is one that satisfies such a definition.  F makes of
\* any function the one the definition gives when it is used for the lower ones.
LEMMA RecursiveFunction ==
    ASSUME NEW S, NEW V, V # {}, NEW rank \in [S -> Nat],
           NEW F, LowerFirst(F, S, V, rank)
    PROVE  \E g \in [S -> V] : F[g] = g
  <1> DEFINE Fun == [S -> V]
             Good(g, n) == \A x \in S : rank[x] < n => F[g][x] = g[x]
             Has(n) == \E g \in Fun : Good(g, n)
  <1>0. /\ F \in [[S -> V] -> [S -> V]]
        /\ \A g, h \in [S -> V], x \in S :
              (\A y \in S : rank[y] < rank[x] => g[y] = h[y]) => F[g][x] = F[h][x]
    BY DEF LowerFirst
  <1> \A g \in Fun : F[g] \in Fun
    BY <1>0
  <1>1. \A n \in Nat : Has(n)
    <2> DEFINE Bad == {n \in Nat : ~Has(n)}
    <2> SUFFICES ASSUME Bad # {} PROVE FALSE
      OBVIOUS
    <2>1. PICK n \in Bad : \A k \in Bad : n <= k
      <3>1. Bad \subseteq Nat
        OBVIOUS
      <3> HIDE DEF Bad
      <3>2. QED
        BY <3>1, LeastElement
    <2>2. n \in Nat /\ ~Has(n)
      BY <2>1
    <2>3. CASE n = 0
      <3>1. PICK v \in V : TRUE
        OBVIOUS
      <3>2. [x \in S |-> v] \in Fun
        OBVIOUS
      <3>3. \A g : Good(g, 0)
        OBVIOUS
      <3>4. QED
        BY <2>2, <2>3, <3>2, <3>3
    <2>4. CASE n # 0
      <3>1. n - 1 \in Nat /\ ~(n <= n - 1)
        BY <2>2, <2>4
      <3>2. Has(n - 1)
        BY <2>1, <3>1
      <3>3. PICK g \in Fun : Good(g, n - 1)
        BY <3>2
      <3>4. PICK h \in Fun : h = F[g]
        OBVIOUS
      <3>5. ASSUME NEW x \in S, rank[x] < n PROVE F[h][x] = h[x]
        <4>1. ASSUME NEW y \in S, rank[y] < rank[x] PROVE h[y] = g[y]
          <5>1. rank[y] < n - 1
            BY <2>2, <3>5, <4>1
          <5>2. QED
            BY <3>3, <3>4, <5>1
        <4>2. F[h][x] = F[g][x]
          BY <1>0, <4>1
        <4>3. QED
          BY <3>4, <4>2
      <3>6. Good(h, n)
        BY <3>5
      <3>7. QED
        BY <2>2, <3>6
    <2>5. QED
      BY <2>3, <2>4
  <1>2. ASSUME NEW n \in Nat, NEW g \in Fun, NEW h \in Fun, Good(g, n), Good(h, n),
               NEW x \in S, rank[x] < n
        PROVE  g[x] = h[x]
    <2> DEFINE Differ == {k \in Nat : \E y \in S : rank[y] = k /\ k < n /\ g[y] # h[y]}
    <2> SUFFICES ASSUME g[x] # h[x] PROVE FALSE
      OBVIOUS
    <2>1. rank[x] \in Differ /\ Differ \subseteq Nat
      BY <1>2
    <2>2. PICK k \in Differ : \A l \in Differ : k <= l
      <3> HIDE DEF Differ
      <3>1. QED
        BY <2>1, LeastElement
    <2>3. PICK y \in S : rank[y] = k /\ k < n /\ g[y] # h[y]
      BY <2>2
    <2>4. ASSUME NEW z \in S, rank[z] < rank[y] PROVE g[z] = h[z]
      <3>1. rank[z] \in Nat /\ k \in Nat /\ rank[z] < n /\ ~(k <= rank[z])
        BY <2>3, <2>4
      <3>2. QED
        BY <2>2, <3>1
    <2>5. F[g][y] = F[h][y]
      BY <1>0, <2>4
    <2>6. F[g][y] = g[y] /\ F[h][y] = h[y]
      BY <1>2, <2>3
    <2>7. QED
      BY <2>3, <2>5, <2>6
  <1> DEFINE G(n) == CHOOSE g \in Fun : Good(g, n)
             w == [x \in S |-> G(rank[x] + 1)[x]]
  <1>3. \A n \in Nat : G(n) \in Fun /\ Good(G(n), n)
    <2> HIDE DEF Good
    <2>1. QED
      BY <1>1
  <1> HIDE DEF G
  <1>4. w \in Fun
    <2>1. ASSUME NEW x \in S PROVE G(rank[x] + 1)[x] \in V
      <3>1. G(rank[x] + 1) \in Fun
        BY <1>3
      <3>2. QED
        BY <3>1
    <2>2. QED
      BY <2>1
  <1>5. ASSUME NEW x \in S PROVE F[w][x] = w[x]
    <2>1. PICK g : g = G(rank[x] + 1)
      OBVIOUS
    <2>2. g \in Fun /\ Good(g, rank[x] + 1)
      BY <1>3, <2>1
    <2>3. ASSUME NEW y \in S, rank[y] < rank[x] PROVE w[y] = g[y]
      <3>1. PICK h : h = G(rank[y] + 1)
        OBVIOUS
      <3>2. h \in Fun /\ Good(h, rank[y] + 1) /\ rank[y] + 1 \in Nat
        BY <1>3, <3>1
      <3>3. Good(g, rank[y] + 1)
        <4> SUFFICES ASSUME NEW z \in S, rank[z] < rank[y] + 1 PROVE F[g][z] = g[z]
          OBVIOUS
        <4>1. rank[z] < rank[x] + 1
          BY <2>3
        <4>2. QED
          BY <2>2, <4>1
      <3>4. rank[y] < rank[y] + 1
        OBVIOUS
      <3>5. h[y] = g[y]
        BY <1>2, <2>2, <3>2, <3>3, <3>4
      <3>6. QED
        BY <3>1, <3>5
    <2>4. F[w][x] = F[g][x]
      BY <1>0, <1>4, <2>2, <2>3
    <2>5. rank[x] < rank[x] + 1
      OBVIOUS
    <2>6. F[g][x] = g[x]
      BY <2>2, <2>5
    <2>7. QED
      BY <2>1, <2>4, <2>6
  <1>6. F[w] \in Fun
    BY <1>4
  <1>7. F[w] = w
    <2> HIDE DEF w
    <2>1. QED
      BY <1>4, <1>5, <1>6
  <1>8. QED
    BY <1>4, <1>7

\* In particular one on 0..n, from its value for 0 and the steps between two.
StepsWithin(step, n, V) == \A k \in 1..n : \A v \in V : step[k][v] \in V

StepsTo(g, step, n, V, e) ==
    /\ g \in [0..n -> V]
    /\ g[0] = e /\ \A k \in 1..n : g[k] = step[k][g[k - 1]]

LEMMA StepFunction ==
    ASSUME NEW V, NEW n \in Nat, NEW e \in V, NEW step, StepsWithin(step, n, V)
    PROVE  \E g : StepsTo(g, step, n, V, e)
  <1> DEFINE S == 0..n
             Next_(g) == [k \in S |-> IF k = 0 THEN e ELSE step[k][g[k - 1]]]
  <1>1. PICK rank : rank = [k \in S |-> k]
    OBVIOUS
  <1>2. PICK F : F = [g \in [S -> V] |-> Next_(g)]
    OBVIOUS
  <1>3. \A k \in S : k = 0 \/ (k - 1 \in S /\ k - 1 < k /\ k \in 1..n)
    OBVIOUS
  <1>4. rank \in [S -> Nat] /\ \A k \in S : rank[k] = k
    BY <1>1
  <1>5. \A g \in [S -> V] : Next_(g) \in [S -> V]
    <2> SUFFICES ASSUME NEW g \in [S -> V], NEW k \in S
                 PROVE  (IF k = 0 THEN e ELSE step[k][g[k - 1]]) \in V
      OBVIOUS
    <2>0. \A l \in 1..n : \A v \in V : step[l][v] \in V
      BY DEF StepsWithin
    <2>1. CASE k = 0
      BY <2>1
    <2>2. CASE k # 0
      <3>1. k - 1 \in S /\ k \in 1..n
        BY <1>3, <2>2
      <3>2. g[k - 1] \in V
        BY <3>1
      <3>3. QED
        BY <2>0, <2>2, <3>1, <3>2
    <2>3. QED
      BY <2>1, <2>2
  <1>6. LowerFirst(F, S, V, rank)
    <2>1. F \in [[S -> V] -> [S -> V]]
      BY <1>2, <1>5
    <2>2. ASSUME NEW g \in [S -> V], NEW h \in [S -> V], NEW k \in S,
                 \A l \in S : rank[l] < rank[k] => g[l] = h[l]
          PROVE  F[g][k] = F[h][k]
      <3>1. k = 0 \/ g[k - 1] = h[k - 1]
        BY <1>3, <1>4, <2>2
      <3>2. Next_(g)[k] = Next_(h)[k]
        BY <3>1
      <3>3. QED
        BY <1>2, <3>2
    <2>3. QED
      BY <2>1, <2>2 DEF LowerFirst
  <1>7. V # {} /\ rank \in [S -> Nat]
    BY <1>4
  <1>8. \E g \in [S -> V] : F[g] = g
    <2> HIDE DEF S
    <2>1. QED
      BY <1>6, <1>7, RecursiveFunction
  <1>9. PICK g \in [S -> V] : g = Next_(g)
    BY <1>2, <1>8
  <1>10. 0 \in S /\ \A k \in 1..n : k \in S /\ k # 0
    OBVIOUS
  <1>11. g[0] = e /\ \A k \in 1..n : g[k] = step[k][g[k - 1]]
    BY <1>9, <1>10
  <1>12. QED
    BY <1>9, <1>11 DEF StepsTo

\* Such a function is unique: so are two that agree for x if for all lower ones.
LowerDecide(g, h, S, rank) ==
    \A x \in S : (\A y \in S : rank[y] < rank[x] => g[y] = h[y]) => g[x] = h[x]

LEMMA UniqueFunction ==
    ASSUME NEW S, NEW rank \in [S -> Nat], NEW g, NEW h, LowerDecide(g, h, S, rank)
    PROVE  \A x \in S : g[x] = h[x]
  <1> DEFINE Differ == {k \in Nat : \E y \in S : rank[y] = k /\ g[y] # h[y]}
  <1> SUFFICES ASSUME NEW x \in S, g[x] # h[x] PROVE FALSE
    OBVIOUS
  <1>1. rank[x] \in Differ /\ Differ \subseteq Nat
    OBVIOUS
  <1>2. PICK k \in Differ : \A l \in Differ : k <= l
    <2> HIDE DEF Differ
    <2>1. QED
      BY <1>1, LeastElement
  <1>3. PICK y \in S : rank[y] = k /\ g[y] # h[y]
    OBVIOUS
  <1>4. ASSUME NEW z \in S, rank[z] < rank[y] PROVE g[z] = h[z]
    <2>1. rank[z] \in Nat /\ k \in Nat /\ ~(k <= rank[z])
      BY <1>3, <1>4
    <2>2. QED
      BY <1>2, <2>1
  <1>5. QED
    BY <1>3, <1>4 DEF LowerDecide

\* What grows from each number to the next grows.
LEMMA Grows ==
    ASSUME NEW n \in Nat, NEW s \in [0..n -> Nat], \A k \in 1..n : s[k - 1] <= s[k],
           NEW i \in 0..n, NEW j \in 0..n, i <= j
    PROVE  s[i] <= s[j]
  <1> DEFINE Bad == {k \in i..n : ~(s[i] <= s[k])}
  <1> SUFFICES ASSUME ~(s[i] <= s[j]) PROVE FALSE
    OBVIOUS
  <1>1. j \in Bad /\ Bad \subseteq Nat
    OBVIOUS
  <1>2. PICK k \in Bad : \A l \in Bad : k <= l
    <2> HIDE DEF Bad
    <2>1. QED
      BY <1>1, LeastElement
  <1>3. k \in i..n /\ ~(s[i] <= s[k])
    OBVIOUS
  <1>4. s[i] \in Nat /\ s[k] \in Nat /\ k # i
    BY <1>3
  <1>5. k - 1 \in i..n /\ k - 1 \in 0..n /\ k \in 1..n /\ ~(k <= k - 1)
    BY <1>3, <1>4
  <1>6. s[i] <= s[k - 1]
    BY <1>2, <1>5
  <1>7. s[k - 1] <= s[k] /\ s[k - 1] \in Nat
    BY <1>5
  <1>8. QED
    BY <1>3, <1>4, <1>6, <1>7
=============================================================================
