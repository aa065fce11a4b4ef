----------------------------- MODULE BasicLemmas -----------------------------
(***************************************************************************)
(* Lemmas that the proofs of several components cite: induction over the   *)
(* naturals in the form of a least element, maxima and minima, counting.   *)
(* They are about no code of their own.                                    *)
(***************************************************************************)
EXTENDS Lists, SequenceTheorems, FiniteSetTheorems, WellFoundedInduction, TLAPS

\* A set of naturals that is not empty has a least element.  An induction
\* takes the least number that a claim fails for.
LEMMA LeastElement ==
  ASSUME NEW S \in SUBSET Nat, S # {}
  PROVE  \E m \in S : \A n \in S : m <= n
<1> DEFINE R == OpToRel(<, Nat)
<1>1. IsWellFoundedOn(R, Nat)
  BY NatLessThanWellFounded
<1>2. \A m, n \in Nat : n < m => <<n, m>> \in R
  BY DEF OpToRel
<1> HIDE DEF R
<1>3. PICK m \in S : \A n \in S : ~ (<<n, m>> \in R)
  BY <1>1, WFMin
<1>4. ASSUME NEW n \in S
      PROVE  m <= n
  <2>1. m \in Nat /\ n \in Nat
    OBVIOUS
  <2>2. ~ (<<n, m>> \in R)
    BY <1>3
  <2>3. ~ (n < m)
    BY <1>2, <2>1, <2>2
  <2>4. QED
    BY <2>1, <2>3
<1>5. QED
  BY <1>4

LEMMA LeastOne ==
  ASSUME NEW S \in SUBSET Nat, S # {}
  PROVE  \E m \in S : \A k \in Nat : k < m => k \notin S
<1>1. PICK m \in S : \A k \in S : m <= k
  BY LeastElement
<1>2. ASSUME NEW k \in Nat, k < m, k \in S
      PROVE  FALSE
  <2>1. m \in Nat /\ m <= k
    BY <1>1, <1>2
  <2>2. QED
    BY <1>2, <2>1
<1>3. QED
  BY <1>2

\* Min is what it is called.
LEMMA MinOfNaturals ==
  ASSUME NEW S \in SUBSET Nat, S # {}
  PROVE  /\ Min(S) \in S
         /\ \A n \in S : Min(S) <= n
<1>1. \E m \in S : \A n \in S : m =< n
  BY LeastElement
<1>2. QED
  BY <1>1, Zenon DEF Min

\* Max is what it is called, on a set of naturals that has a bound.
LEMMA MaxOfNaturals ==
  ASSUME NEW S \in SUBSET Nat, S # {}, NEW b \in Nat, \A n \in S : n <= b
  PROVE  /\ Max(S) \in S
         /\ \A n \in S : Max(S) >= n
<1> DEFINE Bounds == {c \in Nat : \A n \in S : n <= c}
<1>1. PICK m \in Bounds : \A c \in Bounds : m <= c
  <2>1. b \in Bounds
    OBVIOUS
  <2>2. QED
    BY <2>1, LeastElement
<1>2. m \in S
  <2>1. SUFFICES ASSUME m \notin S
                 PROVE  FALSE
    OBVIOUS
  <2>2. PICK n \in S : n \in Nat
    OBVIOUS
  <2>3. \A k \in S : k \in Nat /\ k <= m /\ k # m
    BY <2>1
  <2>4. m - 1 \in Bounds
    BY <2>2, <2>3
  <2>5. QED
    BY <1>1, <2>4
<1>3. \A n \in S : m >= n
  OBVIOUS
<1>4. QED
  BY <1>2, <1>3, Zenon DEF Max

\* A finite set that contains another one, and more, has more elements.
LEMMA StrictlyMore ==
  ASSUME NEW S, NEW T \in SUBSET S, IsFiniteSet(S), T # S
  PROVE  /\ Cardinality(T) \in Nat /\ Cardinality(S) \in Nat
         /\ Cardinality(T) < Cardinality(S)
<1>1. /\ IsFiniteSet(T)
      /\ Cardinality(T) <= Cardinality(S)
      /\ Cardinality(S) = Cardinality(T) => S = T
  BY FS_Subset
<1>2. Cardinality(T) \in Nat /\ Cardinality(S) \in Nat
  BY <1>1, FS_CardinalityType
<1>3. QED
  BY <1>1, <1>2

\* A recursion over the first n naturals has a solution.
Iterated(f, n, S, start, step) ==
    /\ f \in [0 .. n -> S]
    /\ f[0] = start
    /\ \A k \in 1 .. n : f[k] = step[k][f[k - 1]]

LEMMA Iterates ==
  ASSUME NEW n \in Nat, NEW S, NEW start \in S, NEW step \in [1 .. n -> [S -> S]]
  PROVE  \E f : Iterated(f, n, S, start, step)
<1> USE DEF Iterated
<1> DEFINE Steps(f, m) == Iterated(f, m, S, start, step)
           Without == { m \in 0 .. n : ~ \E f : Steps(f, m) }
<1>1. SUFFICES ASSUME Without # {}
               PROVE  FALSE
  <2>1. n \in 0 .. n
    OBVIOUS
  <2>2. PICK f : Steps(f, n)
    BY <2>1
  <2>3. QED
    BY <2>2
<1>2. PICK m \in Without : \A k \in Nat : k < m => k \notin Without
  <2>1. Without \in SUBSET Nat
    OBVIOUS
  <2> HIDE DEF Without
  <2>2. QED
    BY <1>1, <2>1, LeastOne
<1>3. Steps([k \in 0 .. 0 |-> start], 0)
  OBVIOUS
<1>4. m \in 1 .. n /\ m - 1 \in Nat /\ m - 1 \in 0 .. n /\ m - 1 < m
  <2>1. m \in 0 .. n /\ m # 0
    BY <1>2, <1>3
  <2>2. QED
    BY <2>1
<1>5. PICK f : Steps(f, m - 1)
  BY <1>2, <1>4
<1> DEFINE longer == [k \in 0 .. m |-> IF k = m THEN step[m][f[m - 1]] ELSE f[k]]
<1>6. Steps(longer, m)
  <2>1. f[m - 1] \in S /\ step[m] \in [S -> S]
    BY <1>4, <1>5
  <2>2. step[m][f[m - 1]] \in S
    BY <2>1
  <2>3. ASSUME NEW k \in 0 .. m
        PROVE  longer[k] \in S
    <3>1. k # m => k \in 0 .. m - 1
      BY <1>4
    <3>2. QED
      BY <1>5, <2>2, <3>1
  <2>4. longer \in [0 .. m -> S]
    BY <2>3
  <2>5. longer[0] = start
    BY <1>4, <1>5
  <2>6. ASSUME NEW k \in 1 .. m
        PROVE  longer[k] = step[k][longer[k - 1]]
    <3>1. k \in 0 .. m /\ k - 1 \in 0 .. m /\ k - 1 # m
      BY <1>4
    <3>2. longer[k - 1] = f[k - 1]
      BY <3>1
    <3>3. CASE k = m
      BY <3>1, <3>2, <3>3
    <3>4. CASE k # m
      <4>1. k \in 1 .. m - 1
        BY <1>4, <3>4
      <4>2. longer[k] = f[k] /\ f[k] = step[k][f[k - 1]]
        BY <1>5, <3>1, <3>4, <4>1
      <4>3. QED
        BY <3>2, <4>2
    <3>5. QED
      BY <3>3, <3>4
  <2>7. QED
    BY <2>4, <2>5, <2>6
<1>7. QED
  BY <1>2, <1>6

\* Partial sums: what the list f of n + 1 numbers is worth that starts at 0
\* and adds one size after the other.
PartialSums(f, size, n) ==
    f = [k \in 1 .. n + 1 |-> IF k = 1 THEN 0 ELSE f[k - 1] + size[k - 1]]

LEMMA PartialSumsExist ==
  ASSUME NEW n \in Nat, NEW size \in [1 .. n -> Nat]
  PROVE  \E f : PartialSums(f, size, n)
<1> DEFINE step == [k \in 1 .. n |-> [v \in Nat |-> v + size[k]]]
<1>1. step \in [1 .. n -> [Nat -> Nat]]
  OBVIOUS
<1> HIDE DEF step
<1>2. PICK g : Iterated(g, n, Nat, 0, step)
  <2>1. 0 \in Nat
    OBVIOUS
  <2>2. QED
    BY <1>1, <2>1, Iterates
<1> DEFINE f == [k \in 1 .. n + 1 |-> g[k - 1]]
<1>3. ASSUME NEW k \in 1 .. n + 1
      PROVE  f[k] = IF k = 1 THEN 0 ELSE f[k - 1] + size[k - 1]
  <2>1. CASE k = 1
    BY <1>2, <2>1 DEF Iterated
  <2>2. CASE k # 1
    <3>1. /\ k - 1 \in 1 .. n /\ k - 1 \in 1 .. n + 1
          /\ (k - 1) - 1 \in 0 .. n
      BY <2>2
    <3>2. g[k - 1] = step[k - 1][g[(k - 1) - 1]] /\ g[(k - 1) - 1] \in Nat
      BY <1>2, <3>1 DEF Iterated
    <3>3. g[k - 1] = g[(k - 1) - 1] + size[k - 1]
      BY <3>1, <3>2 DEF step
    <3>4. QED
      BY <2>2, <3>1, <3>3
  <2>3. QED
    BY <2>1, <2>2
<1>4. f = [k \in 1 .. n + 1 |-> f[k]]
  OBVIOUS
<1> HIDE DEF f
<1>5. PartialSums(f, size, n)
  BY <1>3, <1>4 DEF PartialSums
<1>6. QED
  BY <1>5

LEMMA PartialSumsAdd ==
  ASSUME NEW n \in Nat, NEW size \in [1 .. n -> Nat], NEW f, PartialSums(f, size, n)
  PROVE  /\ f \in [1 .. n + 1 -> Nat]
         /\ f[1] = 0
         /\ \A k \in 1 .. n : f[k + 1] = f[k] + size[k]
<1> USE DEF PartialSums
<1>1. f[1] = 0
  OBVIOUS
<1>2. ASSUME NEW k \in 1 .. n
      PROVE  f[k + 1] = f[k] + size[k]
  <2>1. k + 1 \in 1 .. n + 1 /\ k + 1 # 1 /\ (k + 1) - 1 = k
    OBVIOUS
  <2>2. QED
    BY <2>1
<1>3. f = [k \in 1 .. n + 1 |-> f[k]]
  BY Zenon
<1> HIDE DEF PartialSums
<1> DEFINE Bad == { k \in 1 .. n + 1 : f[k] \notin Nat }
<1>4. Bad = {}
  <2>1. SUFFICES ASSUME Bad # {}
                 PROVE  FALSE
    OBVIOUS
  <2>2. PICK m \in Bad : \A k \in Nat : k < m => k \notin Bad
    BY <2>1, LeastOne, Bad \in SUBSET Nat
  <2>3. m \in 2 .. n + 1 /\ m - 1 \in 1 .. n /\ (m - 1) + 1 = m
    BY <1>1, <2>2
  <2>4. f[m - 1] \in Nat
    <3>1. m - 1 \in Nat /\ m - 1 < m /\ m - 1 \in 1 .. n + 1
      BY <2>3
    <3>2. m - 1 \notin Bad
      BY <2>2, <3>1
    <3>3. QED
      BY <3>1, <3>2
  <2>5. f[m] = f[m - 1] + size[m - 1]
    BY <1>2, <2>3
  <2>6. QED
    BY <2>2, <2>3, <2>4, <2>5
<1>5. f \in [1 .. n + 1 -> Nat]
  BY <1>4, <1>3
<1>6. QED
  BY <1>1, <1>2, <1>5

\* Of two lists of which the second takes no shorter steps, its elements are
\* at least as far apart.
LEMMA StepsApart ==
  ASSUME NEW n \in Nat,
         NEW f \in [1 .. n + 1 -> Nat], NEW g \in [1 .. n + 1 -> Nat],
         \A k \in 1 .. n : 0 <= f[k + 1] - f[k] /\ f[k + 1] - f[k] <= g[k + 1] - g[k],
         NEW a \in 1 .. n + 1, NEW b \in 1 .. n + 1, a <= b
  PROVE  0 <= f[b] - f[a] /\ f[b] - f[a] <= g[b] - g[a]
<1> DEFINE Apart(c) == 0 <= f[c] - f[a] /\ f[c] - f[a] <= g[c] - g[a]
           Bad == { c \in a .. b : ~ Apart(c) }
<1>1. SUFFICES ASSUME Bad # {}
               PROVE  FALSE
  <2>1. b \in a .. b
    OBVIOUS
  <2>2. QED
    BY <2>1
<1>2. PICK m \in Bad : \A c \in Nat : c < m => c \notin Bad
  <2>1. Bad \in SUBSET Nat
    OBVIOUS
  <2> HIDE DEF Bad
  <2>2. QED
    BY <1>1, <2>1, LeastOne
<1>3. Apart(a)
  OBVIOUS
<1> HIDE DEF Apart
<1>4. /\ m \in a .. b /\ m # a /\ ~ Apart(m)
      /\ m - 1 \in a .. b /\ m - 1 \in 1 .. n /\ (m - 1) + 1 = m
      /\ m - 1 < m /\ m - 1 \in Nat
  BY <1>2, <1>3
<1>5. Apart(m - 1)
  BY <1>2, <1>4
<1>6. f[m - 1] \in Nat /\ g[m - 1] \in Nat /\ f[m] \in Nat /\ g[m] \in Nat
      /\ f[a] \in Nat /\ g[a] \in Nat
  BY <1>4
<1>7. 0 <= f[m] - f[m - 1] /\ f[m] - f[m - 1] <= g[m] - g[m - 1]
  BY <1>4
<1>8. Apart(m)
  <2>1. PICK r \in Nat, t \in Nat, u \in Nat : r = f[m] /\ t = f[m - 1] /\ u = f[a]
    BY <1>6
  <2>2. PICK v \in Nat, x \in Nat, y \in Nat : v = g[m] /\ x = g[m - 1] /\ y = g[a]
    BY <1>6
  <2>3. 0 <= r - t /\ r - t <= v - x
    BY <1>7, <2>1, <2>2
  <2>4. 0 <= t - u /\ t - u <= x - y
    BY <1>5, <2>1, <2>2 DEF Apart
  <2>5. 0 <= r - u /\ r - u <= v - y
    BY <2>3, <2>4
  <2>6. QED
    BY <2>1, <2>2, <2>5 DEF Apart
<1>9. QED
  BY <1>4, <1>8

\* n places, no two of them the same, are all of them.
LEMMA PlacesAllTaken ==
  ASSUME NEW n \in Nat, NEW f \in [1 .. n -> 1 .. n],
         \A i, j \in 1 .. n : f[i] = f[j] => i = j
  PROVE  \A k \in 1 .. n : \E i \in 1 .. n : f[i] = k
<1> DEFINE taken == { f[i] : i \in 1 .. n }
<1>1. IsFiniteSet(1 .. n) /\ Cardinality(1 .. n) = n
  BY FS_Interval
<1>2. f \in Bijection(1 .. n, taken)
  <2>1. f \in [1 .. n -> taken]
    OBVIOUS
  <2>2. f \in Injection(1 .. n, taken)
    BY <2>1 DEF Injection, IsInjective
  <2>3. f \in Surjection(1 .. n, taken)
    BY <2>1 DEF Surjection
  <2>4. QED
    BY <2>2, <2>3 DEF Bijection
<1>3. Cardinality(taken) = n
  BY <1>1, <1>2, FS_Bijection DEF ExistsBijection
<1>4. taken \in SUBSET (1 .. n)
  OBVIOUS
<1>5. taken = 1 .. n
  BY <1>1, <1>3, <1>4, FS_Subset
<1>6. QED
  BY <1>5

\* The greatest number of some of the first n.
LEMMA MaxInRange ==
    ASSUME NEW n \in Nat, NEW S \in SUBSET (1 .. n), S # {}
    PROVE  Max(S) \in S
<1>1. S \in SUBSET Nat
  OBVIOUS
<1>2. \A i \in S : i <= n
  OBVIOUS
<1>3. QED
  BY <1>1, <1>2, MaxOfNaturals

-----------------------------------------------------------------------------
(* Selections and sorted lists (module Lists). *)

\* A list of what is left of the first elements of s.
Leaving(kept, s, T, S) ==
    /\ kept \in [0 .. Len(s) -> Seq(S)]
    /\ kept[0] = <<>>
    /\ \A k \in 1 .. Len(s) :
          kept[k] = IF s[k] \in T THEN Append(kept[k - 1], s[k]) ELSE kept[k - 1]

LEMMA ThoseIs ==
  ASSUME NEW S, NEW s \in Seq(S), NEW T
  PROVE  \E kept : Leaving(kept, s, T, S) /\ Those(s, T) = kept[Len(s)]
<1> DEFINE n == Len(s)
           Body(f) == [k \in 0 .. n |->
                          IF k = 0 THEN <<>>
                          ELSE IF s[k] \in T THEN Append(f[k - 1], s[k]) ELSE f[k - 1]]
           step == [k \in 1 .. n |-> [v \in Seq(S) |->
                       IF s[k] \in T THEN Append(v, s[k]) ELSE v]]
<1>1. n \in Nat /\ \A k \in 1 .. n : s[k] \in S
  OBVIOUS
<1>2. step \in [1 .. n -> [Seq(S) -> Seq(S)]]
  BY <1>1
<1>3. \A k \in 1 .. n, v \in Seq(S) :
         step[k][v] = IF s[k] \in T THEN Append(v, s[k]) ELSE v
  OBVIOUS
<1>4. Those(s, T) = (CHOOSE f : f = Body(f))[n]
  BY DEF Those
<1> HIDE DEF step, n
<1>5. PICK g : Iterated(g, n, Seq(S), <<>>, step)
  <2>1. <<>> \in Seq(S)
    OBVIOUS
  <2>2. QED
    BY <1>1, <1>2, <2>1, Iterates
<1>6. g = Body(g)
  <2>1. g = [k \in 0 .. n |-> g[k]]
    BY <1>5 DEF Iterated
  <2>2. ASSUME NEW k \in 0 .. n
        PROVE  g[k] = IF k = 0 THEN <<>>
                      ELSE IF s[k] \in T THEN Append(g[k - 1], s[k]) ELSE g[k - 1]
    <3>1. CASE k = 0
      BY <1>5, <3>1 DEF Iterated
    <3>2. CASE k # 0
      <4>1. k \in 1 .. n /\ k - 1 \in 0 .. n
        BY <1>1, <3>2
      <4>2. g[k - 1] \in Seq(S) /\ g[k] = step[k][g[k - 1]]
        BY <1>5, <4>1 DEF Iterated
      <4>3. QED
        BY <1>3, <3>2, <4>1, <4>2
    <3>3. QED
      BY <3>1, <3>2
  <2>3. QED
    BY <2>1, <2>2
<1>7. PICK e : e = Body(e) /\ Those(s, T) = e[n]
  BY <1>4, <1>6
<1>8. e[0] = <<>>
  <2>1. 0 \in 0 .. n
    BY <1>1
  <2>2. QED
    BY <1>7, <2>1
<1>9. ASSUME NEW k \in 1 .. n
      PROVE  e[k] = IF s[k] \in T THEN Append(e[k - 1], s[k]) ELSE e[k - 1]
  <2>1. k \in 0 .. n /\ k # 0
    BY <1>1
  <2>2. QED
    BY <1>7, <2>1
<1>10. e = [k \in 0 .. n |-> e[k]]
  BY <1>7, Zenon
<1> HIDE DEF Body
<1> DEFINE Bad == { k \in 0 .. n : e[k] \notin Seq(S) }
<1>11. Bad = {}
  <2>1. SUFFICES ASSUME Bad # {}
                 PROVE  FALSE
    OBVIOUS
  <2>2. Bad \in SUBSET Nat
    OBVIOUS
  <2>3. PICK k \in Bad : \A m \in Nat : m < k => m \notin Bad
    <3> HIDE DEF Bad
    <3>1. QED
      BY <2>1, <2>2, LeastOne
  <2>4. k # 0
    <3>1. <<>> \in Seq(S)
      OBVIOUS
    <3>2. e[k] \notin Seq(S)
      BY <2>3
    <3>3. QED
      BY <1>8, <3>1, <3>2
  <2>5. k \in 1 .. n /\ k - 1 \in Nat /\ k - 1 < k /\ k - 1 \in 0 .. n
    BY <1>1, <2>3, <2>4
  <2>6. e[k - 1] \in Seq(S)
    BY <2>3, <2>5
  <2>7. e[k] \in Seq(S)
    <3>1. Append(e[k - 1], s[k]) \in Seq(S)
      BY <1>1, <2>5, <2>6, AppendProperties
    <3>2. QED
      BY <1>9, <2>5, <2>6, <3>1
  <2>8. QED
    BY <2>3, <2>7
<1>12. e \in [0 .. n -> Seq(S)]
  BY <1>10, <1>11
<1>13. QED
  BY <1>7, <1>8, <1>9, <1>12 DEF n, Leaving

\* f lists the numbers of D in their order.
Enumerates(f, n, D) ==
    /\ n \in Nat /\ f \in [1 .. n -> D]
    /\ \A i, j \in 1 .. n : i < j => f[i] < f[j]
    /\ \A d \in D : \E i \in 1 .. n : f[i] = d

\* ... and can do that in one way only.
LEMMA EnumerationsAgree ==
  ASSUME NEW D \in SUBSET Nat, NEW f, NEW g, NEW n, NEW m,
         Enumerates(f, n, D), Enumerates(g, m, D)
  PROVE  n = m /\ f = g
<1>1. ASSUME NEW u, NEW v, NEW x, NEW y,
             Enumerates(u, x, D), Enumerates(v, y, D),
             NEW k \in 1 .. x, \A i \in 1 .. k - 1 : i \in 1 .. y /\ u[i] = v[i]
      PROVE  k \in 1 .. y /\ v[k] <= u[k]
  <2> USE DEF Enumerates
  <2>1. PICK j \in 1 .. y : v[j] = u[k]
    BY <1>1
  <2>2. j >= k
    <3>1. SUFFICES ASSUME j < k
                   PROVE  FALSE
      BY <1>1
    <3>2. j \in 1 .. k - 1 /\ j \in 1 .. x /\ u[j] < u[k]
      BY <1>1, <3>1
    <3>3. u[j] = v[j] /\ u[j] \in Nat
      BY <1>1, <3>2
    <3>4. QED
      BY <2>1, <3>2, <3>3
  <2>3. k \in 1 .. y
    BY <1>1, <2>2
  <2>4. v[k] \in Nat /\ v[j] \in Nat
    BY <1>1, <2>3
  <2>5. CASE j = k
    BY <2>1, <2>3, <2>4, <2>5
  <2>6. CASE j # k
    <3>1. k < j
      BY <1>1, <2>2, <2>6
    <3>2. v[k] < v[j]
      BY <1>1, <2>3, <3>1
    <3>3. QED
      BY <2>1, <2>3, <2>4, <3>2
  <2>7. QED
    BY <2>5, <2>6
<1>2. ASSUME NEW u, NEW v, NEW x, NEW y, Enumerates(u, x, D), Enumerates(v, y, D)
      PROVE  \A k \in 1 .. x : k \in 1 .. y /\ u[k] = v[k]
  <2> DEFINE Bad == { k \in 1 .. x : ~ (k \in 1 .. y /\ u[k] = v[k]) }
  <2>1. SUFFICES ASSUME Bad # {}
                 PROVE  FALSE
    OBVIOUS
  <2>2. PICK k \in Bad : \A i \in Nat : i < k => i \notin Bad
    <3>1. Bad \in SUBSET Nat
      BY <1>2 DEF Enumerates
    <3> HIDE DEF Bad
    <3>2. QED
      BY <2>1, <3>1, LeastOne
  <2>3. k \in 1 .. x /\ \A i \in 1 .. k - 1 : i \in 1 .. x /\ i \in 1 .. y /\ u[i] = v[i]
    <3>1. k \in 1 .. x
      BY <2>2
    <3>2. ASSUME NEW i \in 1 .. k - 1
          PROVE  i \in 1 .. x /\ i \in Nat /\ i < k
      BY <1>2, <3>1 DEF Enumerates
    <3>3. QED
      BY <2>2, <3>1, <3>2
  <2>4. k \in 1 .. y /\ v[k] <= u[k]
    BY <1>1, <1>2, <2>3, Zenon
  <2>5. \A i \in 1 .. k - 1 : i \in 1 .. x /\ v[i] = u[i]
    BY <2>3
  <2>6. u[k] <= v[k]
    BY <1>1, <1>2, <2>4, <2>5, Zenon
  <2>7. u[k] \in Nat /\ v[k] \in Nat
    BY <1>2, <2>3, <2>4 DEF Enumerates
  <2>8. QED
    BY <2>2, <2>4, <2>6, <2>7
<1>3. \A k \in 1 .. n : k \in 1 .. m /\ f[k] = g[k]
  BY <1>2
<1>4. \A k \in 1 .. m : k \in 1 .. n
  BY <1>2
<1>5. n = m
  <2>1. n \in Nat /\ m \in Nat
    BY DEF Enumerates
  <2>2. n > 0 => n \in 1 .. n
    BY <2>1
  <2>3. m > 0 => m \in 1 .. m
    BY <2>1
  <2>4. n <= m
    BY <1>3, <2>1, <2>2
  <2>5. m <= n
    BY <1>4, <2>1, <2>3
  <2>6. QED
    BY <2>1, <2>4, <2>5
<1>6. QED
  BY <1>3, <1>5 DEF Enumerates

\* f has the places in s of what Those keeps, in their order.
Selects(f, s, T) ==
    /\ Enumerates(f, Len(Those(s, T)), { i \in 1 .. Len(s) : s[i] \in T })
    /\ \A k \in 1 .. Len(Those(s, T)) : Those(s, T)[k] = s[f[k]]

LEMMA ThoseEnumerates ==
  ASSUME NEW S, NEW s \in Seq(S), NEW T
  PROVE  /\ Those(s, T) \in Seq(S)
         /\ \E f : Selects(f, s, T)
<1>1. PICK kept : Leaving(kept, s, T, S) /\ Those(s, T) = kept[Len(s)]
  BY ThoseIs
<1> DEFINE D(k) == { i \in 1 .. k : s[i] \in T }
           Lists(k, f) == /\ Enumerates(f, Len(kept[k]), D(k))
                          /\ \A j \in 1 .. Len(kept[k]) : kept[k][j] = s[f[j]]
           Bad == { k \in 0 .. Len(s) : ~ \E f : Lists(k, f) }
<1>2. Len(s) \in Nat
  OBVIOUS
<1>3. Bad = {}
  <2>1. SUFFICES ASSUME Bad # {}
                 PROVE  FALSE
    OBVIOUS
  <2>2. PICK k \in Bad : \A m \in Nat : m < k => m \notin Bad
    <3>1. Bad \in SUBSET Nat
      OBVIOUS
    <3> HIDE DEF Bad
    <3>2. QED
      BY <2>1, <3>1, LeastOne
  <2>3. k # 0
    <3>1. Lists(0, [i \in 1 .. 0 |-> i])
      BY <1>1 DEF Leaving, Enumerates
    <3> HIDE DEF Lists
    <3>2. \E f : Lists(0, f)
      BY <3>1
    <3>3. QED
      BY <2>2, <3>2
  <2>4. k \in 1 .. Len(s) /\ k - 1 \in 0 .. Len(s) /\ k - 1 \in Nat /\ k - 1 < k
    BY <1>2, <2>2, <2>3
  <2>5. k - 1 \notin Bad
    BY <2>2, <2>4
  <2>6. PICK f : Lists(k - 1, f)
    BY <2>4, <2>5
  <2> DEFINE old == kept[k - 1]
             n == Len(old)
  <2>7. old \in Seq(S) /\ n \in Nat /\ s[k] \in S
    BY <1>1, <2>4 DEF Leaving
  <2>8. kept[k] = IF s[k] \in T THEN Append(old, s[k]) ELSE old
    BY <1>1, <2>4 DEF Leaving
  <2> HIDE DEF old
  <2>9. CASE s[k] \notin T
    <3>1. D(k) = D(k - 1)
      BY <2>4, <2>9
    <3>2. Lists(k, f)
      BY <2>6, <2>8, <2>9, <3>1 DEF old
    <3>3. QED
      BY <2>2, <3>2
  <2>10. CASE s[k] \in T
    <3> DEFINE g == [i \in 1 .. n + 1 |-> IF i = n + 1 THEN k ELSE f[i]]
    <3>1. D(k) = D(k - 1) \union {k}
      BY <2>4, <2>10
    <3>2. f \in [1 .. n -> D(k - 1)] /\ \A i \in 1 .. n : f[i] \in 1 .. k - 1
      BY <2>6 DEF Enumerates, old
    <3>3. /\ \A i, j \in 1 .. n : i < j => f[i] < f[j]
          /\ \A d \in D(k - 1) : \E i \in 1 .. n : f[i] = d
          /\ \A j \in 1 .. n : old[j] = s[f[j]]
      BY <2>6 DEF Enumerates, old
    <3>4. kept[k] = Append(old, s[k])
      BY <2>8, <2>10
    <3>5. Len(kept[k]) = n + 1 /\ kept[k][n + 1] = s[k] /\ \A i \in 1 .. n : kept[k][i] = old[i]
      BY <2>7, <3>4, AppendProperties
    <3>6. \A i \in 1 .. n + 1 : i # n + 1 => i \in 1 .. n
      BY <2>7
    <3> HIDE DEF D
    <3>7. ASSUME NEW i \in 1 .. n + 1
          PROVE  g[i] \in D(k)
      <4>1. CASE i = n + 1
        BY <3>1, <4>1
      <4>2. CASE i # n + 1
        BY <3>1, <3>2, <3>6, <4>2
      <4>3. QED
        BY <4>1, <4>2
    <3>8. ASSUME NEW i \in 1 .. n + 1, NEW j \in 1 .. n + 1, i < j
          PROVE  g[i] < g[j]
      <4>1. i \in 1 .. n /\ g[i] = f[i]
        BY <2>7, <3>8
      <4>2. CASE j = n + 1
        BY <2>4, <3>2, <4>1, <4>2
      <4>3. CASE j # n + 1
        BY <3>3, <3>6, <3>8, <4>1, <4>3
      <4>4. QED
        BY <4>2, <4>3
    <3>9. ASSUME NEW d \in D(k)
          PROVE  \E i \in 1 .. n + 1 : g[i] = d
      <4>1. CASE d = k
        <5>1. n + 1 \in 1 .. n + 1
          BY <2>7
        <5>2. QED
          BY <4>1, <5>1
      <4>2. CASE d # k
        <5>1. PICK i \in 1 .. n : f[i] = d
          BY <3>1, <3>3, <4>2
        <5>2. i \in 1 .. n + 1 /\ i # n + 1
          BY <2>7
        <5>3. QED
          BY <5>1, <5>2
      <4>3. QED
        BY <4>1, <4>2
    <3>10. ASSUME NEW j \in 1 .. n + 1
           PROVE  kept[k][j] = s[g[j]]
      BY <3>3, <3>5, <3>6
    <3>11. n + 1 \in Nat /\ g \in [1 .. n + 1 -> D(k)]
      BY <2>7, <3>7
    <3> HIDE DEF g
    <3>12. Lists(k, g)
      BY <3>5, <3>8, <3>9, <3>10, <3>11 DEF Enumerates
    <3>13. QED
      BY <2>2, <3>12
  <2>11. QED
    BY <2>9, <2>10
<1>4. Len(s) \in 0 .. Len(s)
  BY <1>2
<1>5. PICK f : Lists(Len(s), f)
  BY <1>3, <1>4
<1>6. Those(s, T) \in Seq(S)
  BY <1>1, <1>4 DEF Leaving
<1>7. Selects(f, s, T)
  BY <1>1, <1>5 DEF Selects
<1>8. QED
  BY <1>6, <1>7

\* What is in the selection, and that nothing is in it more often than in s.
LEMMA ThoseContains ==
  ASSUME NEW S, NEW s \in Seq(S), NEW T
  PROVE  /\ Those(s, T) \in Seq(S)
         /\ ToSet(Those(s, T)) = ToSet(s) \intersect T
         /\ (\A i, j \in 1 .. Len(s) : s[i] = s[j] => i = j) =>
               \A i, j \in 1 .. Len(Those(s, T)) : Those(s, T)[i] = Those(s, T)[j] => i = j
<1>1. Those(s, T) \in Seq(S)
  BY ThoseEnumerates
<1>2. PICK f : Selects(f, s, T)
  BY ThoseEnumerates
<1> DEFINE D == { i \in 1 .. Len(s) : s[i] \in T }
<1>3. PICK t \in Seq(S) : t = Those(s, T)
  BY <1>1
<1>4. Enumerates(f, Len(t), D) /\ \A k \in 1 .. Len(t) : t[k] = s[f[k]]
  BY <1>2, <1>3 DEF Selects
<1>5. ToSet(t) = ToSet(s) \intersect T
  <2>1. DOMAIN t = 1 .. Len(t) /\ DOMAIN s = 1 .. Len(s)
    OBVIOUS
  <2>2. ASSUME NEW e \in ToSet(t)
        PROVE  e \in ToSet(s) /\ e \in T
    <3>1. PICK k \in 1 .. Len(t) : e = t[k]
      BY <2>1 DEF ToSet
    <3>2. f[k] \in D /\ e = s[f[k]]
      BY <1>4, <3>1 DEF Enumerates
    <3>3. QED
      BY <2>1, <3>2 DEF ToSet
  <2>3. ASSUME NEW e \in ToSet(s), e \in T
        PROVE  e \in ToSet(t)
    <3>1. PICK i \in 1 .. Len(s) : e = s[i]
      BY <2>1 DEF ToSet
    <3>2. PICK k \in 1 .. Len(t) : f[k] = i
      BY <1>4, <2>3, <3>1 DEF Enumerates
    <3>3. QED
      BY <1>4, <2>1, <3>1, <3>2 DEF ToSet
  <2>4. QED
    BY <2>2, <2>3
<1>6. ASSUME \A i, j \in 1 .. Len(s) : s[i] = s[j] => i = j,
             NEW i \in 1 .. Len(t), NEW j \in 1 .. Len(t), t[i] = t[j]
      PROVE  i = j
  <2>1. f[i] \in 1 .. Len(s) /\ f[j] \in 1 .. Len(s) /\ s[f[i]] = s[f[j]]
    BY <1>4, <1>6 DEF Enumerates
  <2>2. f[i] = f[j]
    BY <1>6, <2>1
  <2>3. f[i] \in Nat
    BY <2>1
  <2>4. QED
    BY <1>4, <2>2, <2>3 DEF Enumerates
<1>7. QED
  BY <1>1, <1>3, <1>5, <1>6

\* Position finds what is there.
LEMMA PositionIs ==
  ASSUME NEW S, NEW s \in Seq(S), NEW e
  PROVE  /\ Position(s, e) \in 1 .. Len(s) + 1
         /\ e \in ToSet(s) => Position(s, e) \in 1 .. Len(s) /\ s[Position(s, e)] = e
<1> DEFINE P == { i \in DOMAIN s : s[i] = e } \union {Len(s) + 1}
<1>1. DOMAIN s = 1 .. Len(s) /\ Len(s) \in Nat
  OBVIOUS
<1>2. P \in SUBSET Nat /\ P # {}
  BY <1>1
<1>3. Min(P) \in P /\ \A n \in P : Min(P) <= n
  BY <1>2, MinOfNaturals
<1>4. Position(s, e) = Min(P)
  BY DEF Position
<1>5. ASSUME e \in ToSet(s)
      PROVE  Min(P) \in 1 .. Len(s) /\ s[Min(P)] = e
  <2>1. PICK i \in 1 .. Len(s) : s[i] = e
    BY <1>1, <1>5 DEF ToSet
  <2>2. Min(P) <= i
    BY <1>1, <1>3, <2>1
  <2>3. QED
    BY <1>1, <1>3, <2>2
<1>6. QED
  BY <1>1, <1>3, <1>4, <1>5

\* Distinct leaves every element, once.
LEMMA DistinctIs ==
  ASSUME NEW S, NEW s \in Seq(S)
  PROVE  /\ Distinct(s) \in Seq(S)
         /\ ToSet(Distinct(s)) = ToSet(s)
         /\ \A i, j \in 1 .. Len(Distinct(s)) : Distinct(s)[i] = Distinct(s)[j] => i = j
<1> DEFINE all == [i \in DOMAIN s |-> i]
           new == { i \in DOMAIN s : \A j \in 1 .. i - 1 : s[j] # s[i] }
           firsts == Those(all, new)
<1>1. DOMAIN s = 1 .. Len(s) /\ Len(s) \in Nat
  OBVIOUS
<1>2. all \in Seq(1 .. Len(s)) /\ Len(all) = Len(s) /\ \A i \in 1 .. Len(s) : all[i] = i
  BY <1>1
<1>3. ToSet(all) = 1 .. Len(s)
  BY <1>1, <1>2 DEF ToSet
<1> HIDE DEF all, new
<1>4. /\ firsts \in Seq(1 .. Len(s))
      /\ ToSet(firsts) = ToSet(all) \intersect new
      /\ \A i, j \in 1 .. Len(firsts) : firsts[i] = firsts[j] => i = j
  BY <1>2, ThoseContains
<1> HIDE DEF firsts
<1>5. DOMAIN firsts = 1 .. Len(firsts) /\ Len(firsts) \in Nat
      /\ \A k \in 1 .. Len(firsts) : firsts[k] \in 1 .. Len(s) /\ firsts[k] \in new
  <2>1. \A k \in 1 .. Len(firsts) : firsts[k] \in ToSet(firsts)
    BY <1>4 DEF ToSet
  <2>2. QED
    BY <1>4, <2>1
<1>6. Distinct(s) = [k \in 1 .. Len(firsts) |-> s[firsts[k]]]
  BY <1>5 DEF Distinct, all, new, firsts
<1>7. Distinct(s) \in Seq(S) /\ Len(Distinct(s)) = Len(firsts)
      /\ \A k \in 1 .. Len(firsts) : Distinct(s)[k] = s[firsts[k]]
  BY <1>5, <1>6
<1>8. ASSUME NEW e \in ToSet(s)
      PROVE  e \in ToSet(Distinct(s))
  <2> DEFINE P == { i \in 1 .. Len(s) : s[i] = e }
  <2>1. P \in SUBSET Nat /\ P # {}
    BY <1>1 DEF ToSet
  <2>2. PICK i \in P : \A k \in Nat : k < i => k \notin P
    <3> HIDE DEF P
    <3>1. QED
      BY <2>1, LeastOne
  <2>3. ASSUME NEW j \in 1 .. i - 1
        PROVE  s[j] # s[i]
    <3>1. j \in Nat /\ j < i /\ j \in 1 .. Len(s)
      BY <1>1, <2>2
    <3>2. QED
      BY <2>2, <3>1
  <2>4. i \in new /\ i \in 1 .. Len(s)
    BY <1>1, <2>2, <2>3 DEF new
  <2>5. i \in ToSet(firsts)
    BY <1>3, <1>4, <2>4
  <2>6. PICK k \in 1 .. Len(firsts) : firsts[k] = i
    BY <1>5, <2>5 DEF ToSet
  <2>7. Distinct(s)[k] = e
    BY <1>7, <2>2, <2>6
  <2>8. QED
    BY <1>5, <1>7, <2>7 DEF ToSet
<1>9. ASSUME NEW e \in ToSet(Distinct(s))
      PROVE  e \in ToSet(s)
  <2>1. PICK k \in 1 .. Len(firsts) : e = Distinct(s)[k]
    BY <1>7 DEF ToSet
  <2>2. QED
    BY <1>1, <1>5, <1>7, <2>1 DEF ToSet
<1>10. ASSUME NEW i \in 1 .. Len(firsts), NEW j \in 1 .. Len(firsts),
              Distinct(s)[i] = Distinct(s)[j]
       PROVE  i = j
  <2>1. s[firsts[i]] = s[firsts[j]]
    BY <1>7, <1>10
  <2>2. ASSUME NEW x \in new, NEW y \in new, x < y
        PROVE  s[x] # s[y]
    <3>1. x \in 1 .. y - 1
      BY <1>1, <2>2 DEF new
    <3>2. QED
      BY <3>1 DEF new
  <2>3. firsts[i] \in new /\ firsts[j] \in new /\ firsts[i] \in Nat /\ firsts[j] \in Nat
    BY <1>5
  <2>4. ~ (firsts[i] < firsts[j]) /\ ~ (firsts[j] < firsts[i])
    BY <2>1, <2>2, <2>3
  <2>5. firsts[i] = firsts[j]
    BY <2>3, <2>4
  <2>6. QED
    BY <1>4, <2>5
<1>11. QED
  BY <1>7, <1>8, <1>9, <1>10

\* u is t with e at q.
Inserts(u, t, q, e) ==
    /\ Len(u) = Len(t) + 1
    /\ \A i \in 1 .. Len(t) + 1 :
          u[i] = IF i < q THEN t[i] ELSE IF i = q THEN e ELSE t[i - 1]

LEMMA InsertAtIs ==
  ASSUME NEW S, NEW s \in Seq(S), NEW e \in S, NEW q \in 1 .. Len(s) + 1
  PROVE  /\ InsertAt(s, q, e) \in Seq(S)
         /\ Inserts(InsertAt(s, q, e), s, q, e)
<1>1. Len(s) \in Nat /\ q \in Nat
  OBVIOUS
<1>2. PICK a \in Seq(S) : a = SubSeq(s, 1, q - 1) /\ Len(a) = q - 1
                          /\ \A i \in 1 .. q - 1 : a[i] = s[i]
  <2>1. \A i \in 1 .. q - 1 : s[i] \in S
    BY <1>1
  <2>2. 1 \in Int /\ q - 1 \in Int
    BY <1>1
  <2>3. /\ SubSeq(s, 1, q - 1) \in Seq(S)
        /\ Len(SubSeq(s, 1, q - 1)) = IF 1 <= q - 1 THEN (q - 1) - 1 + 1 ELSE 0
        /\ \A i \in 1 .. (q - 1) - 1 + 1 : SubSeq(s, 1, q - 1)[i] = s[1 + i - 1]
    BY <2>1, <2>2, SubSeqProperties
  <2>4. \A i \in 1 .. q - 1 : i \in 1 .. (q - 1) - 1 + 1 /\ 1 + i - 1 = i
    BY <1>1
  <2>5. Len(SubSeq(s, 1, q - 1)) = q - 1
    BY <1>1, <2>3
  <2>6. QED
    BY <2>3, <2>4, <2>5
<1>3. PICK c \in Seq(S) : c = SubSeq(s, q, Len(s)) /\ Len(c) = Len(s) - q + 1
                          /\ \A i \in 1 .. Len(s) - q + 1 : c[i] = s[q + i - 1]
  <2>1. \A i \in q .. Len(s) : s[i] \in S
    BY <1>1
  <2>2. /\ SubSeq(s, q, Len(s)) \in Seq(S)
        /\ Len(SubSeq(s, q, Len(s))) = IF q <= Len(s) THEN Len(s) - q + 1 ELSE 0
        /\ \A i \in 1 .. Len(s) - q + 1 : SubSeq(s, q, Len(s))[i] = s[q + i - 1]
    BY <1>1, <2>1, SubSeqProperties
  <2>3. Len(SubSeq(s, q, Len(s))) = Len(s) - q + 1
    BY <1>1, <2>2
  <2>4. QED
    BY <2>2, <2>3
<1>4. PICK b \in Seq(S) : b = <<e>> /\ Len(b) = 1 /\ b[1] = e
  <2>1. <<e>> \in Seq(S) /\ Len(<<e>>) = 1 /\ <<e>>[1] = e
    OBVIOUS
  <2>2. QED
    BY <2>1
<1>5. InsertAt(s, q, e) = (a \o b) \o c
  BY <1>2, <1>3, <1>4 DEF InsertAt
<1>6. PICK d \in Seq(S) : d = a \o b /\ Len(d) = q
                          /\ \A i \in 1 .. q : d[i] = IF i <= q - 1 THEN a[i] ELSE b[i - (q - 1)]
  <2>1. /\ a \o b \in Seq(S) /\ Len(a \o b) = Len(a) + Len(b)
        /\ \A i \in 1 .. Len(a) + Len(b) :
              (a \o b)[i] = IF i <= Len(a) THEN a[i] ELSE b[i - Len(a)]
    BY ConcatProperties
  <2>2. Len(a) + Len(b) = q /\ Len(a) = q - 1
    BY <1>1, <1>2, <1>4
  <2>3. Len(a \o b) = q
        /\ \A i \in 1 .. q : (a \o b)[i] = IF i <= q - 1 THEN a[i] ELSE b[i - (q - 1)]
    BY <2>1, <2>2
  <2>4. QED
    BY <2>1, <2>3
<1>7. PICK r \in Seq(S) : r = d \o c /\ Len(r) = Len(s) + 1
                          /\ \A i \in 1 .. Len(s) + 1 : r[i] = IF i <= q THEN d[i] ELSE c[i - q]
  <2>1. /\ d \o c \in Seq(S) /\ Len(d \o c) = Len(d) + Len(c)
        /\ \A i \in 1 .. Len(d) + Len(c) :
              (d \o c)[i] = IF i <= Len(d) THEN d[i] ELSE c[i - Len(d)]
    BY ConcatProperties
  <2>2. Len(d) + Len(c) = Len(s) + 1
    BY <1>1, <1>3, <1>6
  <2>3. Len(d \o c) = Len(s) + 1
        /\ \A i \in 1 .. Len(s) + 1 : (d \o c)[i] = IF i <= q THEN d[i] ELSE c[i - q]
    BY <1>6, <2>1, <2>2
  <2>4. QED
    BY <2>1, <2>3
<1>8. ASSUME NEW i \in 1 .. Len(s) + 1
      PROVE  r[i] = IF i < q THEN s[i] ELSE IF i = q THEN e ELSE s[i - 1]
  <2>1. CASE i < q
    <3>1. i \in 1 .. q - 1 /\ i \in 1 .. q /\ i <= q /\ i <= q - 1
      BY <1>1, <2>1
    <3>2. QED
      BY <1>2, <1>6, <1>7, <2>1, <3>1
  <2>2. CASE i = q
    <3>1. i \in 1 .. q /\ i <= q /\ ~ (i <= q - 1) /\ i - (q - 1) = 1
      BY <1>1, <2>2
    <3>2. QED
      BY <1>4, <1>6, <1>7, <2>2, <3>1
  <2>3. CASE i > q
    <3>1. ~ (i <= q) /\ i - q \in 1 .. Len(s) - q + 1 /\ q + (i - q) - 1 = i - 1
      BY <1>1, <2>3
    <3>2. c[i - q] = s[i - 1]
      BY <1>3, <3>1
    <3>3. QED
      BY <1>1, <1>7, <2>3, <3>1, <3>2
  <2>4. QED
    BY <1>1, <2>1, <2>2, <2>3
<1>9. InsertAt(s, q, e) = r
  BY <1>5, <1>6, <1>7
<1>10. QED
  BY <1>7, <1>8, <1>9 DEF Inserts

\* Where an element goes in what is sorted already.
Stay(t, e, behind) == { i \in DOMAIN t : <<t[i], e>> \notin behind }
Insertion(t, e, behind) == InsertAt(t, 1 + Max({0} \union Stay(t, e, behind)), e)

InsertedAt(q, t, e, behind) ==
    /\ q \in 1 .. Len(t) + 1
    /\ Insertion(t, e, behind) = InsertAt(t, q, e)
    /\ q > 1 => <<t[q - 1], e>> \notin behind
    /\ \A i \in q .. Len(t) : <<t[i], e>> \in behind

LEMMA StayIs ==
  ASSUME NEW S, NEW t \in Seq(S), NEW e \in S, NEW behind
  PROVE  \E q : InsertedAt(q, t, e, behind)
<1> DEFINE P == {0} \union Stay(t, e, behind)
<1>1. Len(t) \in Nat /\ DOMAIN t = 1 .. Len(t)
  OBVIOUS
<1>2. P \in SUBSET Nat /\ P # {} /\ \A i \in P : i <= Len(t)
  BY <1>1 DEF Stay
<1>3. Max(P) \in P /\ \A i \in P : Max(P) >= i
  BY <1>1, <1>2, MaxOfNaturals
<1>4. PICK m \in P : m = Max(P)
  BY <1>3
<1>5. m + 1 \in 1 .. Len(t) + 1 /\ (m + 1) - 1 = m /\ 1 + m = m + 1
  BY <1>1, <1>2, <1>4
<1>6. Insertion(t, e, behind) = InsertAt(t, m + 1, e)
  BY <1>4, <1>5 DEF Insertion
<1>7. m + 1 > 1 => <<t[m], e>> \notin behind
  BY <1>4, <1>5 DEF Stay
<1>8. ASSUME NEW i \in m + 1 .. Len(t)
      PROVE  <<t[i], e>> \in behind
  <2>1. i \in DOMAIN t /\ ~ (m >= i)
    BY <1>1, <1>5
  <2>2. i \notin P
    BY <1>3, <1>4, <2>1
  <2>3. QED
    BY <2>1, <2>2 DEF Stay
<1>9. InsertedAt(m + 1, t, e, behind)
  BY <1>5, <1>6, <1>7, <1>8 DEF InsertedAt
<1>10. QED
  BY <1>9

\* The steps of the sorting.
Sorting(at, s, behind, S) ==
    /\ at \in [0 .. Len(s) -> Seq(S)]
    /\ at[0] = <<>>
    /\ \A k \in 1 .. Len(s) : at[k] = Insertion(at[k - 1], s[k], behind)

LEMMA SortedSteps ==
  ASSUME NEW S, NEW s \in Seq(S), NEW behind
  PROVE  \E at : Sorting(at, s, behind, S) /\ Sorted(s, behind) = at[Len(s)]
<1> DEFINE n == Len(s)
           Body(f) == [k \in 0 .. n |->
                          IF k = 0 THEN <<>> ELSE Insertion(f[k - 1], s[k], behind)]
           step == [k \in 1 .. n |-> [v \in Seq(S) |-> Insertion(v, s[k], behind)]]
<1>1. n \in Nat /\ \A k \in 1 .. n : s[k] \in S
  OBVIOUS
<1>2. ASSUME NEW v \in Seq(S), NEW k \in 1 .. n
      PROVE  Insertion(v, s[k], behind) \in Seq(S)
  <2>1. s[k] \in S
    BY <1>1
  <2>2. PICK q : InsertedAt(q, v, s[k], behind)
    BY <2>1, StayIs
  <2>3. QED
    BY <2>1, <2>2, InsertAtIs DEF InsertedAt
<1>3. step \in [1 .. n -> [Seq(S) -> Seq(S)]]
  BY <1>2
<1>4. \A k \in 1 .. n, v \in Seq(S) : step[k][v] = Insertion(v, s[k], behind)
  OBVIOUS
<1>5. Sorted(s, behind) = (CHOOSE f : f = Body(f))[n]
  BY DEF Sorted, Insertion, Stay
<1> HIDE DEF step, n
<1>6. PICK g : Iterated(g, n, Seq(S), <<>>, step)
  <2>1. <<>> \in Seq(S)
    OBVIOUS
  <2>2. QED
    BY <1>1, <1>3, <2>1, Iterates
<1>7. g = Body(g)
  <2>1. g = [k \in 0 .. n |-> g[k]]
    BY <1>6 DEF Iterated
  <2>2. ASSUME NEW k \in 0 .. n
        PROVE  g[k] = IF k = 0 THEN <<>> ELSE Insertion(g[k - 1], s[k], behind)
    <3>1. CASE k = 0
      BY <1>6, <3>1 DEF Iterated
    <3>2. CASE k # 0
      <4>1. k \in 1 .. n /\ k - 1 \in 0 .. n
        BY <1>1, <3>2
      <4>2. g[k - 1] \in Seq(S) /\ g[k] = step[k][g[k - 1]]
        BY <1>6, <4>1 DEF Iterated
      <4>3. QED
        BY <1>4, <3>2, <4>1, <4>2
    <3>3. QED
      BY <3>1, <3>2
  <2>3. QED
    BY <2>1, <2>2
<1>8. PICK e : e = Body(e) /\ Sorted(s, behind) = e[n]
  BY <1>5, <1>7
<1>9. e[0] = <<>>
  <2>1. 0 \in 0 .. n
    BY <1>1
  <2>2. QED
    BY <1>8, <2>1
<1>10. ASSUME NEW k \in 1 .. n
       PROVE  e[k] = Insertion(e[k - 1], s[k], behind)
  <2>1. k \in 0 .. n /\ k # 0
    BY <1>1
  <2>2. QED
    BY <1>8, <2>1
<1>11. e = [k \in 0 .. n |-> e[k]]
  BY <1>8, Zenon
<1> HIDE DEF Body
<1> DEFINE Bad == { k \in 0 .. n : e[k] \notin Seq(S) }
<1>12. Bad = {}
  <2>1. SUFFICES ASSUME Bad # {}
                 PROVE  FALSE
    OBVIOUS
  <2>2. Bad \in SUBSET Nat
    OBVIOUS
  <2>3. PICK k \in Bad : \A m \in Nat : m < k => m \notin Bad
    <3> HIDE DEF Bad
    <3>1. QED
      BY <2>1, <2>2, LeastOne
  <2>4. k # 0
    <3>1. <<>> \in Seq(S)
      OBVIOUS
    <3>2. e[k] \notin Seq(S)
      BY <2>3
    <3>3. QED
      BY <1>9, <3>1, <3>2
  <2>5. k \in 1 .. n /\ k - 1 \in Nat /\ k - 1 < k /\ k - 1 \in 0 .. n
    BY <1>1, <2>3, <2>4
  <2>6. e[k - 1] \in Seq(S)
    BY <2>3, <2>5
  <2>7. e[k] \in Seq(S)
    BY <1>2, <1>10, <2>5, <2>6
  <2>8. QED
    BY <2>3, <2>7
<1>13. e \in [0 .. n -> Seq(S)]
  BY <1>11, <1>12
<1>14. QED
  BY <1>8, <1>9, <1>10, <1>13 DEF n, Sorting

\* t has the elements of s in another order, p: by key, and only those
\* behind another one have been moved behind it.
Arranges(p, n) ==
    /\ p \in [1 .. n -> 1 .. n]
    /\ \A i, j \in 1 .. n : p[i] = p[j] => i = j

Arranged(p, n, s, t, behind, key) ==
    /\ Arranges(p, n)
    /\ Len(t) = n
    /\ \A i \in 1 .. n : t[i] = s[p[i]]
    /\ \A i, j \in 1 .. n : i < j => key[t[i]] <= key[t[j]]
    /\ \A i, j \in 1 .. n : i < j /\ p[j] < p[i] => <<t[j], t[i]>> \in behind

\* What behind has to do with the key: it puts whatever has a greater key
\* behind, and nothing behind what has a greater one.
AgreesWith(behind, key, S) ==
    \A a, b \in S : /\ key[a] > key[b] => <<a, b>> \in behind
                    /\ <<a, b>> \in behind => key[a] >= key[b]

LEMMA InsertionSorts ==
  ASSUME NEW S, NEW s \in Seq(S), NEW behind, NEW key \in [S -> Int],
         AgreesWith(behind, key, S),
         NEW k \in 1 .. Len(s), NEW t \in Seq(S), NEW p,
         Arranged(p, k - 1, s, t, behind, key)
  PROVE  \E r : Arranged(r, k, s, Insertion(t, s[k], behind), behind, key)
<1>0. PICK e \in S : e = s[k]
  OBVIOUS
<1>1. k \in Nat /\ k - 1 \in Nat /\ e \in S /\ Len(t) = k - 1
  BY DEF Arranged
<1>2. /\ p \in [1 .. k - 1 -> 1 .. k - 1]
      /\ \A i, j \in 1 .. k - 1 : p[i] = p[j] => i = j
      /\ \A i \in 1 .. k - 1 : t[i] = s[p[i]]
      /\ \A i, j \in 1 .. k - 1 : i < j => key[t[i]] <= key[t[j]]
      /\ \A i, j \in 1 .. k - 1 : i < j /\ p[j] < p[i] => <<t[j], t[i]>> \in behind
  BY DEF Arranged, Arranges
<1>3. \A i \in 1 .. k - 1 : t[i] \in S /\ key[t[i]] \in Int
  BY <1>1
<1>4. key[e] \in Int
  BY <1>1
<1>5. PICK q : InsertedAt(q, t, e, behind)
  BY <1>1, StayIs
<1>6. q \in 1 .. k /\ q \in Nat
  BY <1>1, <1>5 DEF InsertedAt
<1>7. /\ q > 1 => <<t[q - 1], e>> \notin behind
      /\ \A i \in q .. k - 1 : <<t[i], e>> \in behind
  BY <1>1, <1>5 DEF InsertedAt
<1>8. PICK u : u = Insertion(t, e, behind)
  OBVIOUS
<1>9. /\ u \in Seq(S)
      /\ Len(u) = k
      /\ \A i \in 1 .. k : u[i] = IF i < q THEN t[i] ELSE IF i = q THEN e ELSE t[i - 1]
  <2>1. q \in 1 .. Len(t) + 1 /\ u = InsertAt(t, q, e)
    BY <1>5, <1>8 DEF InsertedAt
  <2>2. InsertAt(t, q, e) \in Seq(S) /\ Inserts(InsertAt(t, q, e), t, q, e)
    <3>1. e \in S
      BY <1>1
    <3>2. QED
      BY <2>1, <3>1, InsertAtIs
  <2>3. Len(t) + 1 = k
    BY <1>1
  <2>4. QED
    BY <2>1, <2>2, <2>3 DEF Inserts
<1> DEFINE r == [i \in 1 .. k |-> IF i < q THEN p[i] ELSE IF i = q THEN k ELSE p[i - 1]]
<1>10. \A i \in 1 .. k : /\ i < q => i \in 1 .. k - 1
                         /\ i > q => i - 1 \in 1 .. k - 1 /\ i - 1 >= q
  BY <1>1, <1>6
<1>11. \A i \in 1 .. k - 1 : p[i] \in 1 .. k - 1 /\ p[i] \in Nat /\ p[i] < k
  <2>1. ASSUME NEW i \in 1 .. k - 1
        PROVE  p[i] \in 1 .. k - 1 /\ p[i] \in Nat /\ p[i] < k
    <3>1. p[i] \in 1 .. k - 1
      BY <1>2
    <3>2. QED
      BY <1>1, <3>1
  <2>2. QED
    BY <2>1
<1>12. \A i \in 1 .. k : r[i] = IF i < q THEN p[i] ELSE IF i = q THEN k ELSE p[i - 1]
  OBVIOUS
<1>13. \A i \in 1 .. k : r[i] \in 1 .. k
  <2>1. ASSUME NEW i \in 1 .. k
        PROVE  r[i] \in 1 .. k
    <3>1. CASE i < q
      BY <1>1, <1>10, <1>11, <1>12, <3>1
    <3>2. CASE i = q
      BY <1>1, <1>6, <1>12, <3>2
    <3>3. CASE i > q
      BY <1>1, <1>6, <1>10, <1>11, <1>12, <3>3
    <3>4. QED
      BY <1>6, <3>1, <3>2, <3>3
  <2>2. QED
    BY <2>1
<1>14. r \in [1 .. k -> 1 .. k]
  BY <1>13
<1> HIDE DEF r
\* The three ways to be in the new list.
<1>15. ASSUME NEW i \in 1 .. k
       PROVE  /\ i < q => i \in 1 .. k - 1 /\ r[i] = p[i] /\ u[i] = t[i]
              /\ i = q => r[i] = k /\ u[i] = e
              /\ i > q => /\ i - 1 \in 1 .. k - 1 /\ i - 1 >= q
                         /\ r[i] = p[i - 1] /\ u[i] = t[i - 1]
  <2>1. i > q => ~ (i < q) /\ i # q
    BY <1>6
  <2>2. i = q => ~ (i < q)
    BY <1>6
  <2>3. QED
    BY <1>9, <1>10, <1>12, <2>1, <2>2
<1>22. ASSUME NEW i \in 1 .. k, NEW j \in 1 .. k,
              NEW a \in 1 .. k - 1, NEW b \in 1 .. k - 1, a < b,
              r[i] = p[a], u[i] = t[a], r[j] = p[b], u[j] = t[b]
       PROVE  /\ r[i] # r[j]
              /\ key[u[i]] <= key[u[j]]
              /\ r[j] < r[i] => <<u[j], u[i]>> \in behind
  <2>1. a # b
    BY <1>1, <1>22
  <2>2. p[a] # p[b] /\ key[t[a]] <= key[t[b]] /\ (p[b] < p[a] => <<t[b], t[a]>> \in behind)
    BY <1>2, <1>22, <2>1
  <2>3. QED
    BY <1>22, <2>2
<1>16. ASSUME NEW i \in 1 .. k, NEW j \in 1 .. k, i < j
       PROVE  /\ r[i] # r[j]
              /\ key[u[i]] <= key[u[j]]
              /\ r[j] < r[i] => <<u[j], u[i]>> \in behind
  <2>1. i \in Nat /\ j \in Nat
    BY <1>1
  <2>2. CASE i < q /\ j < q
    <3>1. /\ i \in 1 .. k - 1 /\ r[i] = p[i] /\ u[i] = t[i]
          /\ j \in 1 .. k - 1 /\ r[j] = p[j] /\ u[j] = t[j]
      BY <1>15, <1>6, <2>1, <2>2
    <3>2. QED
      BY <1>16, <1>22, <3>1
  <2>3. CASE i < q /\ j = q
    <3>1. /\ i \in 1 .. k - 1 /\ r[i] = p[i] /\ u[i] = t[i] /\ r[j] = k /\ u[j] = e
          /\ q > 1 /\ q - 1 \in 1 .. k - 1 /\ i <= q - 1
      BY <1>15, <1>1, <1>6, <2>1, <2>3
    <3>2. <<t[q - 1], e>> \notin behind
      BY <1>7, <3>1
    <3>3. key[t[q - 1]] <= key[e]
      <4>1. t[q - 1] \in S /\ key[t[q - 1]] \in Int
        BY <1>3, <3>1
      <4>2. ~ (key[t[q - 1]] > key[e])
        BY <1>1, <3>2, <4>1 DEF AgreesWith
      <4>3. QED
        BY <1>4, <4>1, <4>2
    <3>4. key[t[i]] <= key[t[q - 1]]
      <4>1. CASE i = q - 1
        BY <1>3, <3>1, <4>1
      <4>2. CASE i < q - 1
        BY <1>2, <3>1, <4>2
      <4>3. QED
        BY <1>6, <2>1, <3>1, <4>1, <4>2
    <3>5. key[t[i]] <= key[e]
      BY <1>3, <1>4, <3>1, <3>3, <3>4
    <3>6. r[i] < r[j] /\ r[i] \in Nat /\ r[j] \in Nat
      BY <1>1, <1>11, <3>1
    <3>7. QED
      BY <3>1, <3>5, <3>6
  <2>4. CASE i < q /\ j > q
    <3>1. /\ i \in 1 .. k - 1 /\ r[i] = p[i] /\ u[i] = t[i]
          /\ j - 1 \in 1 .. k - 1 /\ r[j] = p[j - 1] /\ u[j] = t[j - 1]
          /\ i < j - 1
      BY <1>15, <1>6, <2>1, <2>4
    <3>2. QED
      BY <1>22, <3>1
  <2>5. CASE i = q /\ j > q
    <3>1. /\ r[i] = k /\ u[i] = e
          /\ j - 1 \in 1 .. k - 1 /\ r[j] = p[j - 1] /\ u[j] = t[j - 1] /\ j - 1 >= q
      BY <1>15, <1>6, <2>1, <2>5
    <3>2. <<t[j - 1], e>> \in behind
      <4>1. j - 1 \in q .. k - 1
        BY <1>1, <1>6, <3>1
      <4>2. QED
        BY <1>7, <4>1
    <3>3. key[e] <= key[t[j - 1]]
      <4>1. t[j - 1] \in S /\ key[t[j - 1]] \in Int
        BY <1>3, <3>1
      <4>2. key[t[j - 1]] >= key[e]
        BY <1>1, <3>2, <4>1 DEF AgreesWith
      <4>3. QED
        BY <1>4, <4>1, <4>2
    <3>4. r[i] # r[j]
      BY <1>1, <1>11, <3>1
    <3>5. QED
      BY <3>1, <3>2, <3>3, <3>4
  <2>6. CASE i > q /\ j > q
    <3>1. /\ i - 1 \in 1 .. k - 1 /\ r[i] = p[i - 1] /\ u[i] = t[i - 1]
          /\ j - 1 \in 1 .. k - 1 /\ r[j] = p[j - 1] /\ u[j] = t[j - 1]
          /\ i - 1 < j - 1
      BY <1>15, <1>6, <1>16, <2>1, <2>6
    <3>2. QED
      BY <1>22, <3>1
  <2>7. QED
    BY <1>6, <1>16, <2>1, <2>2, <2>3, <2>4, <2>5, <2>6
<1>17. \A i \in 1 .. k : u[i] = s[r[i]]
  <2>1. ASSUME NEW i \in 1 .. k
        PROVE  u[i] = s[r[i]]
    <3>1. CASE i < q
      <4>1. i \in 1 .. k - 1 /\ r[i] = p[i] /\ u[i] = t[i]
        BY <1>6, <1>15, <3>1
      <4>2. QED
        BY <1>2, <4>1
    <3>2. CASE i = q
      <4>1. r[i] = k /\ u[i] = e
        BY <1>6, <1>15, <3>2
      <4>2. QED
        BY <1>0, <4>1
    <3>3. CASE i > q
      <4>1. i - 1 \in 1 .. k - 1 /\ r[i] = p[i - 1] /\ u[i] = t[i - 1]
        BY <1>6, <1>15, <3>3
      <4>2. QED
        BY <1>2, <4>1
    <3>4. QED
      BY <1>6, <3>1, <3>2, <3>3
  <2>2. QED
    BY <2>1
<1>18. ASSUME NEW i \in 1 .. k, NEW j \in 1 .. k, r[i] = r[j]
       PROVE  i = j
  <2>1. ~ (i < j) /\ ~ (j < i)
    BY <1>16, <1>18
  <2>2. QED
    BY <1>1, <2>1
<1>19. Arranges(r, k)
  BY <1>14, <1>18 DEF Arranges
<1>20. Arranged(r, k, s, u, behind, key)
  BY <1>9, <1>16, <1>17, <1>19 DEF Arranged
<1>21. QED
  BY <1>0, <1>8, <1>20

\* Sorting arranges: it is by the key, and stable.
LEMMA SortedIs ==
  ASSUME NEW S, NEW s \in Seq(S), NEW behind, NEW key \in [S -> Int],
         AgreesWith(behind, key, S)
  PROVE  /\ Sorted(s, behind) \in Seq(S)
         /\ \E p : Arranged(p, Len(s), s, Sorted(s, behind), behind, key)
<1>1. PICK at : Sorting(at, s, behind, S) /\ Sorted(s, behind) = at[Len(s)]
  BY SortedSteps
<1>2. Len(s) \in Nat
  OBVIOUS
<1> DEFINE Fine(k) == \E p : Arranged(p, k, s, at[k], behind, key)
           Bad == { k \in 0 .. Len(s) : ~ Fine(k) }
<1>3. Bad = {}
  <2>1. SUFFICES ASSUME Bad # {}
                 PROVE  FALSE
    OBVIOUS
  <2>2. PICK k \in Bad : \A m \in Nat : m < k => m \notin Bad
    <3>1. Bad \in SUBSET Nat
      OBVIOUS
    <3> HIDE DEF Bad
    <3>2. QED
      BY <2>1, <3>1, LeastOne
  <2>3. Fine(0)
    <3>1. Arranged([i \in 1 .. 0 |-> i], 0, s, at[0], behind, key)
      <4>1. at[0] = <<>> /\ Len(at[0]) = 0
        BY <1>1 DEF Sorting
      <4>2. QED
        BY <4>1 DEF Arranged, Arranges
    <3>2. QED
      BY <3>1
  <2> HIDE DEF Fine
  <2>4. k # 0
    BY <2>2, <2>3
  <2>5. k \in 1 .. Len(s) /\ k - 1 \in 0 .. Len(s) /\ k - 1 \in Nat /\ k - 1 < k
    BY <1>2, <2>2, <2>4
  <2>6. Fine(k - 1)
    BY <2>2, <2>5
  <2>7. at[k - 1] \in Seq(S) /\ at[k] = Insertion(at[k - 1], s[k], behind)
    BY <1>1, <2>5 DEF Sorting
  <2>8. PICK t \in Seq(S) : t = at[k - 1]
    BY <2>7
  <2>9. PICK p : Arranged(p, k - 1, s, t, behind, key)
    BY <2>6, <2>8 DEF Fine
  <2>10. \E r : Arranged(r, k, s, Insertion(t, s[k], behind), behind, key)
    BY <2>5, <2>9, InsertionSorts
  <2>11. Fine(k)
    BY <2>7, <2>8, <2>10 DEF Fine
  <2>12. QED
    BY <2>2, <2>11
<1>4. Len(s) \in 0 .. Len(s)
  BY <1>2
<1>5. Sorted(s, behind) \in Seq(S)
  BY <1>1, <1>4 DEF Sorting
<1>6. Fine(Len(s))
  BY <1>3, <1>4
<1>7. QED
  BY <1>1, <1>5, <1>6

\* Every place is taken.
LEMMA ArrangesAll ==
  ASSUME NEW n \in Nat, NEW p, Arranges(p, n), NEW k \in 1 .. n
  PROVE  \E i \in 1 .. n : p[i] = k
BY PlacesAllTaken DEF Arranges

\* What has with every number the smaller ones is an interval.
LEMMA BeginningIs ==
  ASSUME NEW n \in Nat, NEW D \in SUBSET (1 .. n),
         \A i \in 1 .. n, j \in D : i < j => i \in D
  PROVE  /\ IsFiniteSet(D) /\ Cardinality(D) \in 0 .. n
         /\ D = 1 .. Cardinality(D)
<1>1. IsFiniteSet(1 .. n) /\ Cardinality(1 .. n) = n
  BY FS_Interval
<1>2. IsFiniteSet(D) /\ Cardinality(D) \in Nat /\ Cardinality(D) <= n
  BY <1>1, FS_Subset, FS_CardinalityType
<1>3. CASE D = {}
  BY <1>2, <1>3, FS_EmptySet
<1>4. CASE D # {}
  <2>1. D \in SUBSET Nat /\ \A i \in D : i <= n
    OBVIOUS
  <2>2. PICK m \in D : \A i \in D : m >= i
    BY <1>4, <2>1, MaxOfNaturals
  <2>3. D = 1 .. m
    <3>1. ASSUME NEW i \in 1 .. m
          PROVE  i \in D
      <4>1. i \in 1 .. n /\ (i < m \/ i = m)
        BY <2>1, <2>2
      <4>2. QED
        BY <4>1
    <3>2. ASSUME NEW i \in D
          PROVE  i \in 1 .. m
      BY <2>1, <2>2
    <3>3. QED
      BY <3>1, <3>2
  <2>4. Cardinality(1 .. m) = m
    BY <2>1, FS_Interval
  <2>5. QED
    BY <1>2, <2>1, <2>3, <2>4
<1>5. QED
  BY <1>3, <1>4

\* flat has the first n lists one after the other, that of i behind at[i].
Flattens(at, flat, ss, n) ==
    /\ at \in [1 .. n -> Nat]
    /\ \A i \in 1 .. n : \A k \in 1 .. Len(ss[i]) :
          at[i] + k \in 1 .. Len(flat) /\ flat[at[i] + k] = ss[i][k]
    /\ \A m \in 1 .. Len(flat) : \E i \in 1 .. n : \E k \in 1 .. Len(ss[i]) : m = at[i] + k

\* g[k] is the first k lists of ss, one after the other.
Joins(g, ss, S) ==
    /\ g[0] = <<>>
    /\ \A k \in 0 .. Len(ss) : g[k] \in Seq(S)
    /\ \A k \in 1 .. Len(ss) : g[k] = g[k - 1] \o ss[k]

LEMMA JoinsExist ==
  ASSUME NEW S, NEW ss \in Seq(Seq(S))
  PROVE  \E g : Joins(g, ss, S)
<1> DEFINE n == Len(ss)
           step == [k \in 1 .. n |-> [v \in Seq(S) |-> v \o ss[k]]]
<1>1. n \in Nat /\ \A k \in 1 .. n : ss[k] \in Seq(S)
  OBVIOUS
<1>2. step \in [1 .. n -> [Seq(S) -> Seq(S)]]
  <2>1. ASSUME NEW k \in 1 .. n, NEW v \in Seq(S)
        PROVE  v \o ss[k] \in Seq(S)
    <3>1. ss[k] \in Seq(S)
      BY <1>1
    <3>2. QED
      BY <3>1, ConcatProperties
  <2>2. QED
    BY <2>1
<1>3. \A k \in 1 .. n, v \in Seq(S) : step[k][v] = v \o ss[k]
  OBVIOUS
<1> HIDE DEF step, n
<1>4. PICK g : Iterated(g, n, Seq(S), <<>>, step)
  <2>1. <<>> \in Seq(S)
    OBVIOUS
  <2>2. QED
    BY <1>1, <1>2, <2>1, Iterates
<1>5. ASSUME NEW k \in 1 .. n
      PROVE  g[k] = g[k - 1] \o ss[k]
  <2>1. k - 1 \in 0 .. n
    BY <1>1
  <2>2. g[k - 1] \in Seq(S) /\ g[k] = step[k][g[k - 1]]
    BY <1>4, <2>1 DEF Iterated
  <2>3. QED
    BY <1>3, <2>2
<1>6. QED
  BY <1>4, <1>5 DEF Joins, Iterated, n

\* FlattenSeq joins all.
LEMMA FlattenJoins ==
  ASSUME NEW S, NEW ss \in Seq(Seq(S)), NEW g, Joins(g, ss, S)
  PROVE  FlattenSeq(ss) = g[Len(ss)]
<1> DEFINE n == Len(ss)
<1>1. n \in Nat /\ \A k \in 1 .. n : ss[k] \in Seq(S)
  OBVIOUS
<1>2. CASE n = 0
  <2>1. FlattenSeq(ss) = ss /\ ss = <<>>
    BY <1>2 DEF FlattenSeq
  <2>2. QED
    BY <1>2, <2>1 DEF Joins
<1>3. CASE n # 0
  <2> DEFINE Body(f) == [i \in 1 .. n |-> IF i = 1 THEN ss[i] ELSE f[i - 1] \o ss[i]]
  <2>1. FlattenSeq(ss) = (CHOOSE f : f = Body(f))[n]
    BY <1>3 DEF FlattenSeq
  <2> HIDE DEF n
  <2>2. g[0] = <<>> /\ \A k \in 1 .. n : g[k] = g[k - 1] \o ss[k]
    BY DEF Joins, n
  <2>3. g[1] = ss[1]
    <3>1. 1 \in 1 .. n /\ 1 - 1 = 0
      BY <1>1, <1>3
    <3>2. g[1] = <<>> \o ss[1] /\ ss[1] \in Seq(S)
      BY <1>1, <2>2, <3>1
    <3>3. QED
      BY <3>2, ConcatEmptySeq
  <2>4. PICK h : h = [k \in 1 .. n |-> g[k]]
    OBVIOUS
  <2>5. h = Body(h)
    <3>1. ASSUME NEW i \in 1 .. n
          PROVE  h[i] = IF i = 1 THEN ss[i] ELSE h[i - 1] \o ss[i]
      <4>1. CASE i = 1
        BY <2>3, <2>4, <4>1
      <4>2. CASE i # 1
        <5>1. i - 1 \in 1 .. n
          BY <1>1, <4>2
        <5>2. QED
          BY <2>2, <2>4, <4>2, <5>1
      <4>3. QED
        BY <4>1, <4>2
    <3>2. QED
      BY <2>4, <3>1
  <2>6. PICK e : e = Body(e) /\ FlattenSeq(ss) = e[n]
    BY <2>1, <2>5
  <2>7. \A i \in 1 .. n : e[i] = IF i = 1 THEN ss[i] ELSE e[i - 1] \o ss[i]
    BY <2>6
  <2> HIDE DEF Body
  <2> DEFINE Bad == { k \in 1 .. n : e[k] # g[k] }
  <2>8. SUFFICES ASSUME Bad # {}
                 PROVE  FALSE
    <3>1. n \in 1 .. n
      BY <1>1, <1>3
    <3>2. QED
      BY <2>6, <3>1 DEF n
  <2>9. PICK k \in Bad : \A m \in Nat : m < k => m \notin Bad
    <3>1. Bad \in SUBSET Nat
      OBVIOUS
    <3> HIDE DEF Bad
    <3>2. QED
      BY <2>8, <3>1, LeastOne
  <2>10. k \in 1 .. n /\ e[k] # g[k] /\ k \in Nat
    BY <2>9
  <2>11. k # 1
    BY <2>3, <2>7, <2>10
  <2>12. k - 1 \in 1 .. n /\ k - 1 < k
    BY <1>1, <2>10, <2>11
  <2>13. e[k - 1] = g[k - 1]
    BY <2>9, <2>12
  <2>14. QED
    BY <2>2, <2>7, <2>10, <2>11, <2>13
<1>4. QED
  BY <1>2, <1>3

\* The first m lists.
Beginning(ss, m) == [i \in 1 .. m |-> ss[i]]

\* A list is one of its own elements.
LEMMA OfItsOwn ==
  ASSUME NEW T, NEW s \in Seq(T)
  PROVE  s \in Seq(ToSet(s))
<1>1. \A i \in 1 .. Len(s) : s[i] \in ToSet(s)
  BY DEF ToSet
<1>2. QED
  BY <1>1

\* Each begins where the one before ends, so none before that.
LEMMA StartsRise ==
  ASSUME NEW n \in Nat, NEW start \in [1 .. n + 1 -> Nat], NEW len \in [1 .. n -> Nat],
         \A q \in 1 .. n : start[q + 1] = start[q] + len[q],
         NEW q \in 1 .. n, NEW r \in 1 .. n, q < r
  PROVE  start[q] + len[q] <= start[r]
<1>1. \A k \in 1 .. n : k \in 1 .. n + 1 /\ k + 1 \in 1 .. n + 1
  OBVIOUS
<1>2. \A k \in 1 .. n : start[k + 1] \in Nat /\ start[k] \in Nat /\ len[k] \in Nat
  BY <1>1
<1>3. ASSUME NEW k \in 1 .. n
      PROVE  0 <= start[k + 1] - start[k] /\ start[k + 1] - start[k] <= start[k + 1] - start[k]
  <2>1. PICK x \in Nat : x = start[k]
    BY <1>2
  <2>2. PICK y \in Nat : y = len[k]
    BY <1>2
  <2>3. PICK z \in Nat : z = start[k + 1]
    BY <1>2
  <2>4. z = x + y
    BY <2>1, <2>2, <2>3
  <2>5. 0 <= z - x /\ z - x <= z - x
    BY <2>4
  <2>6. QED
    BY <2>1, <2>3, <2>5, Zenon
<1>4. q + 1 \in 1 .. n + 1 /\ r \in 1 .. n + 1 /\ q + 1 <= r
  OBVIOUS
<1>5. 0 <= start[r] - start[q + 1]
  BY <1>3, <1>4, StepsApart
<1>6. start[r] \in Nat /\ start[q + 1] \in Nat /\ start[q + 1] = start[q] + len[q]
  BY <1>4
<1>7. QED
  BY <1>5, <1>6

\* Where the lists begin: each behind what the lists before it come to.
Starts(ss) == [q \in 1 .. Len(ss) + 1 |-> Len(FlattenSeq(Beginning(ss, q - 1)))]

\* flat has the lists one after the other, that of q behind start[q], so
\* that what is in an earlier one is before all of a later one.
FlattenedAt(start, flat, ss, S) ==
    /\ flat \in Seq(S) /\ start \in [1 .. Len(ss) + 1 -> Nat]
    /\ \A q \in 1 .. Len(ss) : \A d \in 1 .. Len(ss[q]) :
          start[q] + d \in 1 .. Len(flat) /\ flat[start[q] + d] = ss[q][d]
    /\ \A i \in 1 .. Len(flat) : \E q \in 1 .. Len(ss) : \E d \in 1 .. Len(ss[q]) : i = start[q] + d
    /\ \A q, r \in 1 .. Len(ss) : q < r => start[q] + Len(ss[q]) <= start[r]

LEMMA FlattenPlaces ==
  ASSUME NEW S, NEW ss \in Seq(Seq(S))
  PROVE  FlattenedAt(Starts(ss), FlattenSeq(ss), ss, S)
<1>0. PICK at : at = Starts(ss)
  OBVIOUS
<1>1. PICK g : Joins(g, ss, S)
  BY JoinsExist
<1>2. PICK n \in Nat : n = Len(ss)
  OBVIOUS
<1>3. /\ g[0] = <<>>
      /\ \A k \in 0 .. n : g[k] \in Seq(S) /\ Len(g[k]) \in Nat
      /\ \A k \in 1 .. n : g[k] = g[k - 1] \o ss[k]
      /\ \A k \in 1 .. n : ss[k] \in Seq(S) /\ Len(ss[k]) \in Nat
  <2>1. g[0] = <<>> /\ \A k \in 1 .. n : g[k] = g[k - 1] \o ss[k]
    BY <1>1, <1>2 DEF Joins
  <2>2. \A k \in 0 .. n : g[k] \in Seq(S)
    BY <1>1, <1>2 DEF Joins
  <2>3. \A k \in 1 .. n : ss[k] \in Seq(S)
    BY <1>2
  <2>4. \A s \in Seq(S) : Len(s) \in Nat
    OBVIOUS
  <2>5. QED
    BY <2>1, <2>2, <2>3, <2>4
<1>4. ASSUME NEW m \in 0 .. n
      PROVE  FlattenSeq(Beginning(ss, m)) = g[m]
  <2>1. PICK b : b = Beginning(ss, m)
    OBVIOUS
  <2>2. b \in Seq(Seq(S)) /\ Len(b) = m /\ \A k \in 1 .. m : b[k] = ss[k]
    <3>1. \A k \in 1 .. m : k \in 1 .. n
      BY <1>2
    <3>2. b = [k \in 1 .. m |-> ss[k]] /\ m \in Nat
      BY <1>2, <2>1 DEF Beginning
    <3>3. \A k \in 1 .. m : ss[k] \in Seq(S)
      BY <1>3, <3>1
    <3>4. QED
      BY <3>2, <3>3
  <2>3. Joins(g, b, S)
    <3>1. \A k \in 0 .. m : k \in 0 .. n
      BY <1>2
    <3>2. \A k \in 1 .. m : k \in 1 .. n
      BY <1>2
    <3>3. QED
      BY <1>3, <2>2, <3>1, <3>2 DEF Joins
  <2>4. FlattenSeq(b) = g[Len(b)]
    BY <2>2, <2>3, FlattenJoins
  <2>5. QED
    BY <2>1, <2>2, <2>4
<1>5. FlattenSeq(ss) = g[n]
  BY <1>1, <1>2, FlattenJoins
<1>6. /\ at = [q \in 1 .. n + 1 |-> Len(FlattenSeq(Beginning(ss, q - 1)))]
      /\ \A q \in 1 .. n + 1 : q - 1 \in 0 .. n
  BY <1>0, <1>2 DEF Starts
<1>7. \A q \in 1 .. n + 1 : at[q] = Len(g[q - 1]) /\ at[q] \in Nat
  <2>1. ASSUME NEW q \in 1 .. n + 1
        PROVE  at[q] = Len(g[q - 1]) /\ at[q] \in Nat
    <3>1. q - 1 \in 0 .. n
      BY <1>6
    <3>2. FlattenSeq(Beginning(ss, q - 1)) = g[q - 1] /\ Len(g[q - 1]) \in Nat
      BY <1>3, <1>4, <3>1
    <3>3. QED
      BY <1>6, <3>2
  <2>2. QED
    BY <2>1
<1>9. \A k \in 1 .. n : /\ Len(g[k]) = Len(g[k - 1]) + Len(ss[k])
                        /\ Len(g[k - 1]) \in Nat /\ g[k - 1] \in Seq(S)
                        /\ \A i \in 1 .. Len(g[k]) :
                              g[k][i] = IF i <= Len(g[k - 1]) THEN g[k - 1][i]
                                        ELSE ss[k][i - Len(g[k - 1])]
  <2>1. ASSUME NEW k \in 1 .. n
        PROVE  /\ Len(g[k]) = Len(g[k - 1]) + Len(ss[k])
               /\ Len(g[k - 1]) \in Nat /\ g[k - 1] \in Seq(S)
               /\ \A i \in 1 .. Len(g[k]) :
                     g[k][i] = IF i <= Len(g[k - 1]) THEN g[k - 1][i]
                               ELSE ss[k][i - Len(g[k - 1])]
    <3>1. k - 1 \in 0 .. n
      BY <1>2
    <3>2. PICK x \in Seq(S), y \in Seq(S) : x = g[k - 1] /\ y = ss[k]
      BY <1>3, <3>1
    <3>3. g[k] = x \o y
      BY <1>3, <3>2
    <3>4. Len(x \o y) = Len(x) + Len(y)
          /\ \A i \in 1 .. Len(x) + Len(y) :
                (x \o y)[i] = IF i <= Len(x) THEN x[i] ELSE y[i - Len(x)]
      BY ConcatProperties
    <3>5. PICK z : z = g[k] /\ z = x \o y
      BY <3>3
    <3>6. Len(z) = Len(x) + Len(y)
          /\ \A i \in 1 .. Len(z) : z[i] = IF i <= Len(x) THEN x[i] ELSE y[i - Len(x)]
      BY <3>4, <3>5
    <3>7. Len(x) \in Nat
      OBVIOUS
    <3>8. QED
      <4>1. Len(g[k]) = Len(g[k - 1]) + Len(ss[k])
        BY <3>2, <3>5, <3>6
      <4>2. Len(g[k - 1]) \in Nat /\ g[k - 1] \in Seq(S)
        BY <3>2, <3>7
      <4>3. ASSUME NEW i \in 1 .. Len(g[k])
            PROVE  g[k][i] = IF i <= Len(g[k - 1]) THEN g[k - 1][i]
                             ELSE ss[k][i - Len(g[k - 1])]
        <5>1. i \in 1 .. Len(z)
          BY <3>5
        <5>2. z[i] = IF i <= Len(x) THEN x[i] ELSE y[i - Len(x)]
          BY <3>6, <5>1
        <5>3. QED
          BY <3>2, <3>5, <5>2
      <4>4. QED
        BY <4>1, <4>2, <4>3
  <2>2. QED
    BY <2>1
<1>10. \A q \in 1 .. n : at[q + 1] = at[q] + Len(ss[q])
  <2>1. ASSUME NEW q \in 1 .. n
        PROVE  at[q + 1] = at[q] + Len(ss[q])
    <3>1. q \in 1 .. n + 1 /\ q + 1 \in 1 .. n + 1 /\ (q + 1) - 1 = q
      BY <1>2
    <3>2. at[q + 1] = Len(g[q]) /\ at[q] = Len(g[q - 1])
      BY <1>7, <3>1
    <3>3. QED
      BY <1>9, <3>2
  <2>2. QED
    BY <2>1
<1> DEFINE Fine(m) == Flattens([q \in 1 .. m |-> at[q]], g[m], ss, m)
           Bad == { m \in 0 .. n : ~ Fine(m) }
<1>11. Bad = {}
  <2>1. SUFFICES ASSUME Bad # {}
                 PROVE  FALSE
    OBVIOUS
  <2>2. PICK m \in Bad : \A k \in Nat : k < m => k \notin Bad
    <3>1. Bad \in SUBSET Nat
      OBVIOUS
    <3> HIDE DEF Bad
    <3>2. QED
      BY <2>1, <3>1, LeastOne
  <2>3. m \in 0 .. n /\ ~ Fine(m) /\ m \in Nat
    BY <2>2
  <2>4. m # 0
    <3>1. Fine(0)
      <4>1. g[0] = <<>> /\ Len(<<>>) = 0
        BY <1>3
      <4>2. QED
        BY <4>1 DEF Flattens
    <3>2. QED
      BY <2>3, <3>1
  <2>5. m \in 1 .. n /\ m - 1 \in 0 .. n /\ m - 1 < m /\ m - 1 \in Nat
    BY <1>2, <2>3, <2>4
  <2>6. Fine(m - 1)
    BY <2>2, <2>5
  <2>7. PICK x \in Seq(S), y \in Seq(S), z \in Seq(S) : x = g[m - 1] /\ y = ss[m] /\ z = g[m]
    BY <1>3, <2>5
  <2>8. PICK a \in Nat, b \in Nat : a = Len(x) /\ b = Len(y)
    OBVIOUS
  <2>9. Len(z) = a + b /\ \A i \in 1 .. a + b : z[i] = IF i <= a THEN x[i] ELSE y[i - a]
    BY <1>9, <2>5, <2>7, <2>8
  <2>10. at[m] = a
    <3>1. m \in 1 .. n + 1
      BY <2>5
    <3>2. QED
      BY <1>7, <2>7, <2>8, <3>1
  <2>11. /\ \A i \in 1 .. m - 1 : at[i] \in Nat /\ Len(ss[i]) \in Nat
         /\ \A i \in 1 .. m - 1 : \A k \in 1 .. Len(ss[i]) :
               at[i] + k \in 1 .. a /\ x[at[i] + k] = ss[i][k]
         /\ \A j \in 1 .. a : \E i \in 1 .. m - 1 : \E k \in 1 .. Len(ss[i]) : j = at[i] + k
    <3>1. \A i \in 1 .. m - 1 : i \in 1 .. n + 1 /\ i \in 1 .. n
      BY <2>5
    <3>2. \A i \in 1 .. m - 1 : at[i] \in Nat /\ Len(ss[i]) \in Nat
      BY <1>3, <1>7, <3>1
    <3>3. PICK f : f = [q \in 1 .. m - 1 |-> at[q]]
      OBVIOUS
    <3>4. Flattens(f, x, ss, m - 1)
      BY <2>6, <2>7, <3>3
    <3>5. \A i \in 1 .. m - 1 : f[i] = at[i]
      BY <3>3
    <3>6. \A i \in 1 .. m - 1 : \A k \in 1 .. Len(ss[i]) :
             f[i] + k \in 1 .. a /\ x[f[i] + k] = ss[i][k]
      BY <2>8, <3>4 DEF Flattens
    <3>7. \A j \in 1 .. a : \E i \in 1 .. m - 1 : \E k \in 1 .. Len(ss[i]) : j = f[i] + k
      BY <2>8, <3>4 DEF Flattens
    <3>8. QED
      BY <3>2, <3>5, <3>6, <3>7
  <2>12. ASSUME NEW i \in 1 .. m, NEW k \in 1 .. Len(ss[i])
         PROVE  at[i] + k \in 1 .. a + b /\ z[at[i] + k] = ss[i][k]
    <3>1. CASE i = m
      <4>1. k \in 1 .. b /\ at[i] = a /\ ss[i] = y
        BY <2>7, <2>8, <2>10, <3>1
      <4>2. a + k \in 1 .. a + b /\ ~(a + k <= a) /\ (a + k) - a = k
        BY <4>1
      <4>3. QED
        BY <2>9, <4>1, <4>2
    <3>2. CASE i # m
      <4>1. i \in 1 .. m - 1
        BY <2>5, <3>2
      <4>2. at[i] + k \in 1 .. a /\ x[at[i] + k] = ss[i][k]
        BY <2>11, <4>1
      <4>3. PICK j \in 1 .. a : j = at[i] + k
        BY <4>2
      <4>4. j \in 1 .. a + b /\ j <= a
        BY <2>8
      <4>5. QED
        BY <2>9, <4>2, <4>3, <4>4
    <3>3. QED
      BY <3>1, <3>2
  <2>13. ASSUME NEW j \in 1 .. a + b
         PROVE  \E i \in 1 .. m : \E k \in 1 .. Len(ss[i]) : j = at[i] + k
    <3>1. CASE j <= a
      <4>1. j \in 1 .. a
        BY <2>8, <3>1
      <4>2. PICK i \in 1 .. m - 1 : \E k \in 1 .. Len(ss[i]) : j = at[i] + k
        BY <2>11, <4>1
      <4>3. i \in 1 .. m
        BY <2>5
      <4>4. QED
        BY <4>2, <4>3
    <3>2. CASE ~(j <= a)
      <4>1. j - a \in 1 .. b /\ j = a + (j - a)
        BY <2>8, <3>2
      <4>2. m \in 1 .. m /\ Len(ss[m]) = b
        BY <2>5, <2>7, <2>8
      <4>3. QED
        BY <2>10, <4>1, <4>2
    <3>3. QED
      BY <3>1, <3>2
  <2>14. [q \in 1 .. m |-> at[q]] \in [1 .. m -> Nat]
    <3>1. \A q \in 1 .. m : q \in 1 .. n + 1
      BY <2>5
    <3>2. QED
      BY <1>7, <3>1
  <2>15. Fine(m)
    <3>1. PICK f : f = [q \in 1 .. m |-> at[q]]
      OBVIOUS
    <3>2. \A q \in 1 .. m : f[q] = at[q]
      BY <3>1
    <3>3. Flattens(f, z, ss, m)
      <4>1. f \in [1 .. m -> Nat] /\ Len(z) = a + b
        BY <2>9, <2>14, <3>1
      <4>2. \A i \in 1 .. m : \A k \in 1 .. Len(ss[i]) :
               f[i] + k \in 1 .. Len(z) /\ z[f[i] + k] = ss[i][k]
        BY <2>12, <3>2, <4>1
      <4>3. \A j \in 1 .. Len(z) : \E i \in 1 .. m : \E k \in 1 .. Len(ss[i]) : j = f[i] + k
        <5>1. ASSUME NEW j \in 1 .. Len(z)
              PROVE  \E i \in 1 .. m : \E k \in 1 .. Len(ss[i]) : j = f[i] + k
          <6>1. PICK i \in 1 .. m : \E k \in 1 .. Len(ss[i]) : j = at[i] + k
            <7>1. j \in 1 .. a + b
              BY <4>1
            <7>2. QED
              BY <2>13, <7>1
          <6>2. f[i] = at[i]
            BY <3>2
          <6>3. QED
            BY <6>1, <6>2
        <5>2. QED
          BY <5>1
      <4>4. QED
        BY <4>1, <4>2, <4>3 DEF Flattens
    <3>4. QED
      BY <2>7, <3>1, <3>3
  <2>16. QED
    BY <2>3, <2>15
<1>12. Fine(n)
  <2>1. n \in 0 .. n
    OBVIOUS
  <2>2. QED
    BY <1>11, <2>1
<1>13. g[n] \in Seq(S)
  BY <1>3
<1>14. at \in [1 .. n + 1 -> Nat]
  BY <1>6, <1>7
<1> HIDE DEF Bad
<1>15. PICK flat : flat = FlattenSeq(ss) /\ flat = g[n]
  BY <1>5
<1>16. /\ \A q \in 1 .. n : \A d \in 1 .. Len(ss[q]) :
             at[q] + d \in 1 .. Len(flat) /\ flat[at[q] + d] = ss[q][d]
       /\ \A i \in 1 .. Len(flat) : \E q \in 1 .. n : \E d \in 1 .. Len(ss[q]) : i = at[q] + d
  <2>1. PICK f : f = [q \in 1 .. n |-> at[q]]
    OBVIOUS
  <2>2. Flattens(f, flat, ss, n)
    BY <1>12, <1>15, <2>1
  <2>3. \A q \in 1 .. n : f[q] = at[q]
    BY <2>1
  <2>4. \A q \in 1 .. n : \A d \in 1 .. Len(ss[q]) :
          f[q] + d \in 1 .. Len(flat) /\ flat[f[q] + d] = ss[q][d]
    BY <2>2 DEF Flattens
  <2>5. \A i \in 1 .. Len(flat) : \E q \in 1 .. n : \E d \in 1 .. Len(ss[q]) : i = f[q] + d
    BY <2>2 DEF Flattens
  <2>6. \A i \in 1 .. Len(flat) : \E q \in 1 .. n : \E d \in 1 .. Len(ss[q]) : i = at[q] + d
    BY <2>3, <2>5
  <2>7. QED
    BY <2>3, <2>4, <2>6
<1>17. PICK len : len = [q \in 1 .. n |-> Len(ss[q])]
  OBVIOUS
<1>18. len \in [1 .. n -> Nat] /\ \A q \in 1 .. n : len[q] = Len(ss[q])
  BY <1>3, <1>17
<1>19. \A q \in 1 .. n : at[q + 1] = at[q] + len[q]
  BY <1>10, <1>18
<1>20. \A q, r \in 1 .. n : q < r => at[q] + len[q] <= at[r]
  BY <1>14, <1>18, <1>19, StartsRise
<1>21. FlattenedAt(at, flat, ss, S)
  BY <1>2, <1>13, <1>14, <1>15, <1>16, <1>18, <1>20 DEF FlattenedAt
<1>22. QED
  BY <1>0, <1>15, <1>21

\* FlattenSeq joins them.
LEMMA FlattenIs ==
  ASSUME NEW S, NEW ss \in Seq(Seq(S))
  PROVE  /\ FlattenSeq(ss) \in Seq(S)
         /\ \E at : Flattens(at, FlattenSeq(ss), ss, Len(ss))
<1>1. PICK n \in Nat : n = Len(ss)
  OBVIOUS
<1>2. PICK start, flat : start = Starts(ss) /\ flat = FlattenSeq(ss)
  OBVIOUS
<1>3. FlattenedAt(start, flat, ss, S)
  BY <1>2, FlattenPlaces
<1>4. PICK at : at = [q \in 1 .. n |-> start[q]]
  OBVIOUS
<1>5. at \in [1 .. n -> Nat] /\ \A q \in 1 .. n : at[q] = start[q]
  <2>1. \A q \in 1 .. n : q \in 1 .. n + 1
    OBVIOUS
  <2>2. QED
    BY <1>1, <1>3, <1>4, <2>1 DEF FlattenedAt
<1>6. Flattens(at, flat, ss, n)
  BY <1>1, <1>3, <1>5 DEF Flattens, FlattenedAt
<1>7. QED
  BY <1>1, <1>2, <1>3, <1>6 DEF FlattenedAt

=============================================================================
