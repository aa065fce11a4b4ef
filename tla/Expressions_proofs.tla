--------------------------- MODULE Expressions_proofs ---------------------------
(***************************************************************************)
(* What classification computes, for every expression and every            *)
(* environment: the sum of the leaves of an expression is the sum of the   *)
(* terms it is collected in, and of the constant, the sections and the     *)
(* symbols these are told apart into.                                      *)
(***************************************************************************)
EXTENDS Assignments, SequenceTheorems, BasicLemmas

-----------------------------------------------------------------------------
(* Total. *)

\* part[k] is the sum of the first k elements of s, which has n.
Parts(part, n, s) ==
    /\ part \in [0 .. n -> Int]
    /\ part[0] = 0
    /\ \A k \in 1 .. n : part[k] = part[k - 1] + s[k]

LEMMA PartsExist ==
  ASSUME NEW n \in Nat, NEW s \in [1 .. n -> Int]
  PROVE  \E part : Parts(part, n, s)
<1> DEFINE step == [k \in 1 .. n |-> [v \in Int |-> v + s[k]]]
<1>1. step \in [1 .. n -> [Int -> Int]]
  OBVIOUS
<1>2. \A k \in 1 .. n : \A v \in Int : step[k][v] = v + s[k]
  OBVIOUS
<1> HIDE DEF step
<1>3. PICK part : Iterated(part, n, Int, 0, step)
  <2>1. 0 \in Int
    OBVIOUS
  <2>2. QED
    BY <1>1, <2>1, Iterates
<1>4. ASSUME NEW k \in 1 .. n
      PROVE  part[k] = part[k - 1] + s[k]
  <2>1. k - 1 \in 0 .. n
    OBVIOUS
  <2>2. part[k] = step[k][part[k - 1]] /\ part[k - 1] \in Int
    BY <1>3, <2>1 DEF Iterated
  <2>3. QED
    BY <1>2, <2>2
<1>5. QED
  BY <1>3, <1>4 DEF Iterated, Parts

\* Whoever adds up s one by one ends with Total(s).
LEMMA TotalIs ==
  ASSUME NEW n \in Nat, NEW s, s \in [1 .. n -> Int], NEW part, Parts(part, n, s)
  PROVE  Total(s) = part[n] /\ Total(s) \in Int
<1>1. Len(s) = n
  <2>1. s \in Seq(Int)
    OBVIOUS
  <2>2. DOMAIN s = 1 .. Len(s) /\ Len(s) \in Nat
    BY <2>1
  <2>3. QED
    BY <2>2
<1> DEFINE Solves(f) == f = [k \in 0 .. Len(s) |-> IF k = 0 THEN 0 ELSE f[k - 1] + s[k]]
           sum == CHOOSE f : Solves(f)
<1>2. Solves(part)
  <2>1. ASSUME NEW k \in 0 .. n
        PROVE  part[k] = IF k = 0 THEN 0 ELSE part[k - 1] + s[k]
    <3>1. CASE k = 0
      BY <3>1 DEF Parts
    <3>2. CASE k # 0
      <4>1. k \in 1 .. n
        BY <3>2
      <4>2. QED
        BY <3>2, <4>1 DEF Parts
    <3>3. QED
      BY <3>1, <3>2
  <2>2. part = [k \in 0 .. n |-> part[k]]
    BY DEF Parts
  <2>3. [k \in 0 .. n |-> part[k]]
            = [k \in 0 .. n |-> IF k = 0 THEN 0 ELSE part[k - 1] + s[k]]
    BY <2>1
  <2>4. QED
    BY <1>1, <2>2, <2>3
<1>3. Solves(sum)
  BY <1>2
<1> HIDE DEF sum
<1>4. ASSUME NEW k \in 0 .. n
      PROVE  sum[k] = part[k]
  <2> DEFINE Bad == { m \in 0 .. n : sum[m] # part[m] }
  <2>1. SUFFICES ASSUME Bad # {}
                 PROVE  FALSE
    OBVIOUS
  <2>2. PICK m \in Bad : \A j \in Nat : j < m => j \notin Bad
    <3>1. Bad \in SUBSET Nat
      OBVIOUS
    <3> HIDE DEF Bad
    <3>2. QED
      BY <2>1, <3>1, LeastOne
  <2>3. ASSUME NEW j \in 0 .. n
        PROVE  sum[j] = IF j = 0 THEN 0 ELSE sum[j - 1] + s[j]
    BY <1>1, <1>3
  <2>4. m # 0
    BY <2>2, <2>3 DEF Parts
  <2>5. m \in 1 .. n /\ m - 1 \in 0 .. n /\ m - 1 \in Nat /\ m - 1 < m
    BY <2>2, <2>4
  <2>6. sum[m - 1] = part[m - 1]
    BY <2>2, <2>5
  <2>7. sum[m] = sum[m - 1] + s[m]
    BY <2>3, <2>4, <2>5
  <2>8. part[m] = part[m - 1] + s[m]
    BY <2>5 DEF Parts
  <2>9. QED
    BY <2>2, <2>6, <2>7, <2>8
<1>5. Total(s) = sum[n]
  BY <1>1 DEF Total, sum
<1>6. n \in 0 .. n
  OBVIOUS
<1>7. QED
  BY <1>4, <1>5, <1>6 DEF Parts

LEMMA TotalIsInt ==
  ASSUME NEW n \in Nat, NEW s, s \in [1 .. n -> Int]
  PROVE  Total(s) \in Int
  BY PartsExist, TotalIs

\* Lists of n integers; one whose elements at S are the sums of those of
\* two others.
IsList(n, f) == n \in Nat /\ f \in [1 .. n -> Int]

AddsUp(n, S, f, g, h) == \A i \in 1 .. n : i \in S => h[i] = f[i] + g[i]

\* Sums of lists of the same length, of multiples, and of next to nothing.
LEMMA TotalPlus ==
  ASSUME NEW n, NEW f, NEW g, NEW h, IsList(n, f), IsList(n, g), IsList(n, h),
         AddsUp(n, 1 .. n, f, g, h)
  PROVE  Total(h) = Total(f) + Total(g)
<1>1. /\ n \in Nat
      /\ f \in [1 .. n -> Int] /\ g \in [1 .. n -> Int] /\ h \in [1 .. n -> Int]
      /\ \A i \in 1 .. n : h[i] = f[i] + g[i]
  BY DEF IsList, AddsUp
<1>2. PICK p : Parts(p, n, f)
  BY <1>1, PartsExist
<1>3. PICK q : Parts(q, n, g)
  BY <1>1, PartsExist
<1>4. PICK r : r = [k \in 0 .. n |-> p[k] + q[k]]
  OBVIOUS
<1>5. Parts(r, n, h)
  <2>1. r \in [0 .. n -> Int] /\ r[0] = 0
    BY <1>1, <1>2, <1>3, <1>4 DEF Parts
  <2>2. ASSUME NEW k \in 1 .. n
        PROVE  r[k] = r[k - 1] + h[k]
    <3>1. k \in 0 .. n /\ k - 1 \in 0 .. n
      BY <1>1
    <3>2. /\ p[k] = p[k - 1] + f[k] /\ q[k] = q[k - 1] + g[k]
          /\ p[k - 1] \in Int /\ q[k - 1] \in Int /\ f[k] \in Int /\ g[k] \in Int
      BY <1>1, <1>2, <1>3, <3>1 DEF Parts
    <3>3. r[k] = p[k] + q[k] /\ r[k - 1] = p[k - 1] + q[k - 1] /\ h[k] = f[k] + g[k]
      BY <1>1, <1>4, <3>1
    <3>4. QED
      BY <3>2, <3>3
  <2>3. QED
    BY <2>1, <2>2 DEF Parts
<1>6. Total(f) = p[n] /\ Total(g) = q[n] /\ Total(h) = r[n]
  BY <1>1, <1>2, <1>3, <1>5, TotalIs
<1>7. QED
  BY <1>1, <1>4, <1>6

Scales(n, f, c, h) == \A i \in 1 .. n : h[i] = f[i] * c

LEMMA TotalTimes ==
  ASSUME NEW n, NEW f, NEW h, NEW c \in Int, IsList(n, f), IsList(n, h), Scales(n, f, c, h)
  PROVE  Total(h) = Total(f) * c
<1>1. /\ n \in Nat /\ f \in [1 .. n -> Int] /\ h \in [1 .. n -> Int]
      /\ \A i \in 1 .. n : h[i] = f[i] * c
  BY DEF IsList, Scales
<1>2. PICK p : Parts(p, n, f)
  BY <1>1, PartsExist
<1>3. PICK r : r = [k \in 0 .. n |-> p[k] * c]
  OBVIOUS
<1>4. Parts(r, n, h)
  <2>1. r \in [0 .. n -> Int] /\ r[0] = 0
    BY <1>1, <1>2, <1>3 DEF Parts
  <2>2. ASSUME NEW k \in 1 .. n
        PROVE  r[k] = r[k - 1] + h[k]
    <3>1. k \in 0 .. n /\ k - 1 \in 0 .. n
      BY <1>1
    <3>2. p[k] = p[k - 1] + f[k] /\ p[k - 1] \in Int /\ f[k] \in Int
      BY <1>1, <1>2, <3>1 DEF Parts
    <3>3. r[k] = p[k] * c /\ r[k - 1] = p[k - 1] * c /\ h[k] = f[k] * c
      BY <1>1, <1>3, <3>1
    <3>4. \A x, y, z \in Int : (x + y) * z = x * z + y * z
      OBVIOUS
    <3>5. QED
      BY <3>2, <3>3, <3>4
  <2>3. QED
    BY <2>1, <2>2 DEF Parts
<1>5. Total(f) = p[n] /\ Total(h) = r[n]
  BY <1>1, <1>2, <1>4, TotalIs
<1>6. QED
  BY <1>1, <1>3, <1>5

LEMMA TotalMinus ==
  ASSUME NEW n \in Nat,
         NEW f \in [1 .. n -> Int], NEW g \in [1 .. n -> Int], NEW h \in [1 .. n -> Int],
         \A i \in 1 .. n : h[i] = f[i] - g[i]
  PROVE  Total(h) = Total(f) - Total(g)
<1>1. \A i \in 1 .. n : f[i] = h[i] + g[i]
  OBVIOUS
<1>2. Total(f) = Total(h) + Total(g)
  <2>1. IsList(n, f) /\ IsList(n, g) /\ IsList(n, h) /\ AddsUp(n, 1 .. n, h, g, f)
    BY <1>1 DEF IsList, AddsUp
  <2>2. QED
    BY <2>1, TotalPlus
<1>3. Total(f) \in Int /\ Total(g) \in Int /\ Total(h) \in Int
  BY TotalIsInt
<1>4. QED
  BY <1>2, <1>3

LEMMA TotalZero ==
  ASSUME NEW n \in Nat, NEW h \in [1 .. n -> Int], \A i \in 1 .. n : h[i] = 0
  PROVE  Total(h) = 0
<1>1. PICK r : r = [k \in 0 .. n |-> 0]
  OBVIOUS
<1>2. Parts(r, n, h)
  BY <1>1 DEF Parts
<1>3. QED
  BY <1>1, <1>2, TotalIs

LEMMA TotalSingle ==
  ASSUME NEW n \in Nat, NEW p \in 1 .. n, NEW c \in Int, NEW h \in [1 .. n -> Int],
         \A i \in 1 .. n : h[i] = IF i = p THEN c ELSE 0
  PROVE  Total(h) = c
<1>1. PICK r : r = [k \in 0 .. n |-> IF k < p THEN 0 ELSE c]
  OBVIOUS
<1>2. Parts(r, n, h)
  <2>1. r \in [0 .. n -> Int] /\ r[0] = 0
    BY <1>1
  <2>2. ASSUME NEW k \in 1 .. n
        PROVE  r[k] = r[k - 1] + h[k]
    <3>1. k \in 0 .. n /\ k - 1 \in 0 .. n
      OBVIOUS
    <3>2. CASE k < p
      BY <1>1, <3>1, <3>2
    <3>3. CASE k = p
      BY <1>1, <3>1, <3>3
    <3>4. CASE k > p
      BY <1>1, <3>1, <3>4
    <3>5. QED
      BY <3>2, <3>3, <3>4
  <2>3. QED
    BY <2>1, <2>2 DEF Parts
<1>3. Total(h) = r[n]
  BY <1>2, TotalIs
<1>4. QED
  BY <1>1, <1>3

\* A list with two elements at most that are not 0.
LEMMA TotalPair ==
  ASSUME NEW n \in Nat, NEW p \in 1 .. n, NEW q \in 1 .. n, p # q,
         NEW h \in [1 .. n -> Int], \A i \in (1 .. n) \ {p, q} : h[i] = 0
  PROVE  Total(h) = h[p] + h[q]
<1>1. PICK c \in Int, d \in Int : c = h[p] /\ d = h[q]
  OBVIOUS
<1>2. PICK f \in [1 .. n -> Int] : \A i \in 1 .. n : f[i] = IF i = p THEN c ELSE 0
  <2>1. [i \in 1 .. n |-> IF i = p THEN c ELSE 0] \in [1 .. n -> Int]
    OBVIOUS
  <2>2. QED
    BY <2>1
<1>3. PICK g \in [1 .. n -> Int] : \A i \in 1 .. n : g[i] = IF i = q THEN d ELSE 0
  <2>1. [i \in 1 .. n |-> IF i = q THEN d ELSE 0] \in [1 .. n -> Int]
    OBVIOUS
  <2>2. QED
    BY <2>1
<1>4. \A i \in 1 .. n : h[i] = f[i] + g[i]
  <2>1. TAKE i \in 1 .. n
  <2>2. CASE i = p
    BY <1>1, <1>2, <1>3, <2>2
  <2>3. CASE i = q
    BY <1>1, <1>2, <1>3, <2>3
  <2>4. CASE i # p /\ i # q
    BY <1>2, <1>3, <2>4
  <2>5. QED
    BY <2>2, <2>3, <2>4
<1>5. Total(f) = c
  BY <1>2, TotalSingle
<1>6. Total(g) = d
  BY <1>3, TotalSingle
<1>7. Total(h) = Total(f) + Total(g)
  <2>1. IsList(n, f) /\ IsList(n, g) /\ IsList(n, h) /\ AddsUp(n, 1 .. n, f, g, h)
    BY <1>4 DEF IsList, AddsUp
  <2>2. QED
    BY <2>1, TotalPlus
<1>8. QED
  BY <1>1, <1>5, <1>6, <1>7

\* The sum of the sums of the rows of a square is that of its columns.
LEMMA TotalSwap ==
  ASSUME NEW n \in Nat, NEW m \in [1 .. n -> [1 .. n -> Int]]
  PROVE  Total([i \in 1 .. n |-> Total(m[i])])
            = Total([j \in 1 .. n |-> Total([i \in 1 .. n |-> m[i][j]])])
<1>1. PICK byRow, byColumn :
         /\ byRow = [i \in 1 .. n |-> Total(m[i])]
         /\ byColumn = [j \in 1 .. n |-> Total([i \in 1 .. n |-> m[i][j]])]
  OBVIOUS
<1>2. PICK p : p = [j \in 1 .. n |-> CHOOSE q : Parts(q, n, [i \in 1 .. n |-> m[i][j]])]
  OBVIOUS
<1>3. ASSUME NEW j \in 1 .. n
      PROVE  /\ p[j] \in [0 .. n -> Int]
             /\ p[j][0] = 0
             /\ \A k \in 1 .. n : p[j][k] = p[j][k - 1] + m[k][j]
             /\ byColumn[j] = p[j][n]
  <2>1. PICK column : column = [i \in 1 .. n |-> m[i][j]]
    OBVIOUS
  <2>2. column \in [1 .. n -> Int]
    BY <2>1
  <2>3. \E q : Parts(q, n, column)
    BY <2>2, PartsExist
  <2>4. p[j] = CHOOSE q : Parts(q, n, column)
    BY <1>2, <2>1
  <2>5. Parts(p[j], n, column)
    BY <2>3, <2>4
  <2>6. Total(column) = p[j][n]
    BY <2>2, <2>5, TotalIs
  <2>7. \A k \in 1 .. n : column[k] = m[k][j]
    BY <2>1
  <2>8. QED
    BY <1>1, <2>1, <2>5, <2>6, <2>7 DEF Parts
<1> DEFINE prefix(k) == [j \in 1 .. n |-> p[j][k]]
<1>4. PICK part : part = [k \in 0 .. n |-> Total(prefix(k))]
  OBVIOUS
<1>5. ASSUME NEW k \in 0 .. n
      PROVE  prefix(k) \in [1 .. n -> Int]
  BY <1>3
<1>6. byRow \in [1 .. n -> Int]
  BY <1>1, TotalIsInt
<1>7. Parts(part, n, byRow)
  <2>1. part \in [0 .. n -> Int]
    BY <1>4, <1>5, TotalIsInt
  <2>2. part[0] = 0
    <3>1. 0 \in 0 .. n /\ \A j \in 1 .. n : p[j][0] = 0
      <4>1. 0 \in 0 .. n
        OBVIOUS
      <4>2. \A j \in 1 .. n : p[j][0] = 0
        BY <1>3, Zenon
      <4>3. QED
        BY <4>1, <4>2
    <3>2. prefix(0) \in [1 .. n -> Int]
      BY <1>5, <3>1
    <3>3. \A j \in 1 .. n : prefix(0)[j] = 0
      BY <3>1
    <3>4. part[0] = Total(prefix(0))
      BY <1>4, <3>1
    <3> HIDE DEF prefix
    <3>5. PICK f \in [1 .. n -> Int] : f = prefix(0)
      BY <3>2
    <3>6. Total(f) = 0
      BY <3>3, <3>5, TotalZero
    <3>7. QED
      BY <3>4, <3>5, <3>6
  <2>3. ASSUME NEW k \in 1 .. n
        PROVE  part[k] = part[k - 1] + byRow[k]
    <3>1. k \in 0 .. n /\ k - 1 \in 0 .. n
      OBVIOUS
    <3>2. ASSUME NEW j \in 1 .. n
          PROVE  p[j][k] = p[j][k - 1] + m[k][j]
      BY <1>3
    <3>3. \A j \in 1 .. n : prefix(k)[j] = prefix(k - 1)[j] + m[k][j]
      BY <3>2
    <3>4. m[k] \in [1 .. n -> Int] /\ byRow[k] = Total(m[k])
      BY <1>1
    <3>5. part[k] = Total(prefix(k)) /\ part[k - 1] = Total(prefix(k - 1))
      BY <1>4, <3>1
    <3>6. prefix(k - 1) \in [1 .. n -> Int] /\ prefix(k) \in [1 .. n -> Int]
      BY <1>5, <3>1
    <3> HIDE DEF prefix
    <3>7. PICK f \in [1 .. n -> Int], g \in [1 .. n -> Int], h \in [1 .. n -> Int] :
             f = prefix(k - 1) /\ g = m[k] /\ h = prefix(k)
      BY <3>4, <3>6
    <3>8. \A j \in 1 .. n : h[j] = f[j] + g[j]
      BY <3>3, <3>7
    <3>9. Total(h) = Total(f) + Total(g)
      <4>1. IsList(n, f) /\ IsList(n, g) /\ IsList(n, h) /\ AddsUp(n, 1 .. n, f, g, h)
        BY <3>8 DEF IsList, AddsUp
      <4>2. QED
        BY <4>1, TotalPlus
    <3>10. QED
      BY <3>4, <3>5, <3>7, <3>9
  <2>4. QED
    BY <2>1, <2>2, <2>3 DEF Parts
<1>8. Total(byRow) = part[n]
  BY <1>6, <1>7, TotalIs
<1>9. prefix(n) = byColumn
  BY <1>1, <1>3
<1>10. part[n] = Total(prefix(n))
  BY <1>4
<1> HIDE DEF prefix
<1>11. QED
  BY <1>1, <1>8, <1>9, <1>10

\* A sum by groups: rep gives every element one element of its group, and
\* weight w has one value in a group.  sum adds up c in every group, where
\* rep is; all and grouped are c and sum with their weights.
GroupedBy(n, rep, c, w, sum) ==
    /\ n \in Nat /\ rep \in [1 .. n -> 1 .. n]
    /\ c \in [1 .. n -> Int] /\ w \in [1 .. n -> Int] /\ sum \in [1 .. n -> Int]
    /\ \A j \in 1 .. n : w[rep[j]] = w[j]
    /\ \A i \in 1 .. n :
          \E f \in [1 .. n -> Int] :
             /\ \A j \in 1 .. n : f[j] = IF rep[j] = i THEN c[j] ELSE 0
             /\ sum[i] = Total(f)

Weighted(n, c, w, f) ==
    /\ f \in [1 .. n -> Int]
    /\ \A i \in 1 .. n : f[i] = c[i] * w[i]

\* Who first adds up every group gets the same as who goes through the
\* elements.
LEMMA TotalGrouped ==
  ASSUME NEW n, NEW rep, NEW c, NEW w, NEW sum, GroupedBy(n, rep, c, w, sum),
         NEW all, Weighted(n, c, w, all),
         NEW grouped, Weighted(n, sum, w, grouped)
  PROVE  Total(all) = Total(grouped)
<1>1. /\ n \in Nat /\ rep \in [1 .. n -> 1 .. n]
      /\ c \in [1 .. n -> Int] /\ w \in [1 .. n -> Int] /\ sum \in [1 .. n -> Int]
      /\ all \in [1 .. n -> Int] /\ grouped \in [1 .. n -> Int]
  BY DEF GroupedBy, Weighted
<1> DEFINE m == [i \in 1 .. n |-> [j \in 1 .. n |-> IF rep[j] = i THEN c[j] * w[j] ELSE 0]]
           byRow == [i \in 1 .. n |-> Total(m[i])]
           byColumn == [j \in 1 .. n |-> Total([i \in 1 .. n |-> m[i][j]])]
<1>2. \A j \in 1 .. n : c[j] * w[j] \in Int
  <2>1. \A x, y \in Int : x * y \in Int
    OBVIOUS
  <2>2. QED
    BY <1>1, <2>1
<1>3. m \in [1 .. n -> [1 .. n -> Int]]
  BY <1>1, <1>2
<1>4. Total(byRow) = Total(byColumn)
  <2> HIDE DEF m
  <2>1. PICK k \in [1 .. n -> [1 .. n -> Int]] : k = m
    BY <1>3
  <2>2. Total([i \in 1 .. n |-> Total(k[i])])
          = Total([j \in 1 .. n |-> Total([i \in 1 .. n |-> k[i][j]])])
    BY <1>1, TotalSwap
  <2>3. QED
    BY <2>1, <2>2
<1>5. ASSUME NEW i \in 1 .. n
      PROVE  byRow[i] = grouped[i]
  <2>1. PICK f \in [1 .. n -> Int] : /\ \A j \in 1 .. n : f[j] = IF rep[j] = i THEN c[j] ELSE 0
                                     /\ sum[i] = Total(f)
    BY DEF GroupedBy
  <2>2. PICK h \in [1 .. n -> Int] : h = m[i]
    BY <1>3
  <2>3. PICK x \in Int : x = w[i]
    BY <1>1
  <2>4. ASSUME NEW j \in 1 .. n
        PROVE  h[j] = f[j] * x
    <3>1. h[j] = IF rep[j] = i THEN c[j] * w[j] ELSE 0
      BY <2>2
    <3>2. CASE rep[j] = i
      <4>1. w[j] = x
        BY <2>3, <3>2 DEF GroupedBy
      <4>2. f[j] = c[j] /\ h[j] = c[j] * w[j]
        BY <2>1, <3>1, <3>2
      <4>3. QED
        BY <4>1, <4>2
    <3>3. CASE rep[j] # i
      <4>1. f[j] = 0 /\ h[j] = 0
        BY <2>1, <3>1, <3>3
      <4>2. 0 * x = 0
        OBVIOUS
      <4>3. QED
        BY <4>1, <4>2
    <3>4. QED
      BY <3>2, <3>3
  <2>5. Total(h) = Total(f) * x
    <3>1. IsList(n, f) /\ IsList(n, h)
      BY <1>1 DEF IsList
    <3>2. Scales(n, f, x, h)
      BY ONLY <2>4 DEF Scales
    <3>3. x \in Int
      OBVIOUS
    <3>4. QED
      BY ONLY <3>1, <3>2, <3>3, TotalTimes
  <2>6. byRow[i] = Total(h)
    BY <2>2
  <2>7. QED
    BY <2>1, <2>3, <2>5, <2>6 DEF Weighted
<1>6. ASSUME NEW j \in 1 .. n
      PROVE  byColumn[j] = all[j]
  <2>1. PICK h : h = [i \in 1 .. n |-> m[i][j]]
    OBVIOUS
  <2>2. h \in [1 .. n -> Int]
    BY <1>3, <2>1
  <2>3. PICK p \in 1 .. n : p = rep[j]
    BY <1>1
  <2>4. PICK x \in Int : x = all[j]
    BY <1>1
  <2>5. \A i \in 1 .. n : h[i] = IF i = p THEN x ELSE 0
    BY <2>1, <2>3, <2>4 DEF Weighted
  <2>6. Total(h) = x
    BY <1>1, <2>2, <2>5, TotalSingle
  <2>7. byColumn[j] = Total(h)
    BY <2>1
  <2>8. QED
    BY <2>4, <2>6, <2>7
<1>7. byRow = grouped
  <2>1. byRow = [i \in 1 .. n |-> byRow[i]]
    OBVIOUS
  <2>2. grouped = [i \in 1 .. n |-> grouped[i]]
    BY <1>1
  <2> HIDE DEF byRow
  <2>3. QED
    BY <1>5, <2>1, <2>2
<1>8. byColumn = all
  <2>1. byColumn = [i \in 1 .. n |-> byColumn[i]]
    OBVIOUS
  <2>2. all = [i \in 1 .. n |-> all[i]]
    BY <1>1
  <2> HIDE DEF byColumn
  <2>3. QED
    BY <1>6, <2>1, <2>2
<1>9. QED
  BY <1>4, <1>7, <1>8

-----------------------------------------------------------------------------
(* Expressions and environments, and what leaves can be worth.             *)

\* The expressions and environments of programs.
Sound(expr, env) ==
    /\ Len(expr) \in Nat
    /\ DOMAIN expr = 1 .. Len(expr)
    /\ \A i \in 1 .. Len(expr) :
          /\ expr[i].sign \in {-1, 1}
          /\ expr[i].kind \in {"int", "sym", "got", "here"}
          /\ expr[i].kind = "int" => expr[i].value \in Int
          /\ expr[i].kind = "sym" =>
                \/ env[expr[i].name] = Undefined
                \/ /\ env[expr[i].name].kind \in {"absolute", "defined"}
                   /\ env[expr[i].name].value \in Int

IsAbsolute(expr, env, i) == expr[i].kind = "sym" /\ env[expr[i].name].kind = "absolute"
IsLabel(expr, env, i) == expr[i].kind = "sym" /\ env[expr[i].name].kind = "defined"
SectionAt(expr, env, i) == env[expr[i].name].section

\* w[i] is what the i-th leaf comes to when the sections are put somewhere:
\* the section of label i at b[i], the current location at p.
Worth(expr, env, w, b, p) ==
    /\ w \in [1 .. Len(expr) -> Int] /\ b \in [1 .. Len(expr) -> Int] /\ p \in Int
    /\ \A i \in 1 .. Len(expr) :
          /\ expr[i].kind = "int" => w[i] = expr[i].value
          /\ expr[i].kind = "here" => w[i] = p
          /\ IsAbsolute(expr, env, i) => w[i] = env[expr[i].name].value
          /\ IsLabel(expr, env, i) => w[i] = env[expr[i].name].value + b[i]
    /\ \A i, j \in 1 .. Len(expr) : SameTerm(expr[i], expr[j]) => w[i] = w[j]
    /\ \A i, j \in { k \in 1 .. Len(expr) : IsLabel(expr, env, k) } :
          SectionAt(expr, env, i) = SectionAt(expr, env, j) => b[i] = b[j]

\* What the expression comes to.
LeafSum(expr, w) == Total([i \in 1 .. Len(expr) |-> expr[i].sign * w[i]])

\* The sum of the first n values of f, at the places in S.
Over(n, S, f) == Total([i \in 1 .. n |-> IF i \in S THEN f[i] ELSE 0])

\* Multiplication of integers, for the steps that know no more of it.
LEMMA Multiply ==
    /\ \A x, y \in Int : x * y \in Int
    /\ \A x \in Int : 0 * x = 0 /\ x * 0 = 0 /\ 1 * x = x /\ (-1) * x = -x
    /\ \A x, y, z \in Int : x * (y + z) = x * y + x * z
  OBVIOUS

LEMMA CoefficientIsInt ==
  ASSUME NEW expr, NEW env, Sound(expr, env), NEW i \in 1 .. Len(expr)
  PROVE  Coefficient(expr, i) \in Int
<1>1. [j \in 1 .. Len(expr) |-> IF SameTerm(expr[i], expr[j]) THEN expr[j].sign ELSE 0]
         \in [1 .. Len(expr) -> Int]
  BY DEF Sound
<1>2. DOMAIN expr = 1 .. Len(expr) /\ Len(expr) \in Nat
  BY DEF Sound
<1>3. QED
  BY <1>1, <1>2, TotalIsInt DEF Coefficient

LEMMA OverIsInt ==
  ASSUME NEW n, NEW S, NEW f, IsList(n, f)
  PROVE  Over(n, S, f) \in Int
<1> USE DEF IsList
<1>1. [i \in 1 .. n |-> IF i \in S THEN f[i] ELSE 0] \in [1 .. n -> Int]
  OBVIOUS
<1>2. QED
  BY <1>1, TotalIsInt DEF Over

\* Over sets that have nothing in common, the sums add up.
LEMMA OverUnion ==
  ASSUME NEW n, NEW S, NEW T, S \intersect T = {}, NEW f, IsList(n, f)
  PROVE  Over(n, S \union T, f) = Over(n, S, f) + Over(n, T, f)
<1>1. n \in Nat /\ f \in [1 .. n -> Int]
  BY DEF IsList
<1> DEFINE at(X) == [i \in 1 .. n |-> IF i \in X THEN f[i] ELSE 0]
<1>2. PICK x \in [1 .. n -> Int], y \in [1 .. n -> Int], z \in [1 .. n -> Int] :
         x = at(S) /\ y = at(T) /\ z = at(S \union T)
  <2>1. \A X : at(X) \in [1 .. n -> Int]
    BY <1>1
  <2> HIDE DEF at
  <2>2. QED
    BY <1>1, <2>1
<1>3. \A i \in 1 .. n : z[i] = x[i] + y[i]
  BY <1>1, <1>2
<1>4. Total(z) = Total(x) + Total(y)
  <2>1. IsList(n, x) /\ IsList(n, y) /\ IsList(n, z)
    BY <1>1 DEF IsList
  <2>2. AddsUp(n, 1 .. n, x, y, z)
    BY <1>3 DEF AddsUp
  <2>3. QED
    BY <2>1, <2>2, TotalPlus
<1>5. QED
  BY <1>2, <1>4 DEF Over

\* The sum of the sums of two lists.
LEMMA OverPlus ==
  ASSUME NEW n, NEW S, NEW f, NEW g, NEW h, IsList(n, f), IsList(n, g), IsList(n, h),
         AddsUp(n, S, f, g, h)
  PROVE  Over(n, S, h) = Over(n, S, f) + Over(n, S, g)
<1>1. n \in Nat /\ f \in [1 .. n -> Int] /\ g \in [1 .. n -> Int] /\ h \in [1 .. n -> Int]
  BY DEF IsList
<1> DEFINE at(F) == [i \in 1 .. n |-> IF i \in S THEN F[i] ELSE 0]
<1>2. PICK x \in [1 .. n -> Int], y \in [1 .. n -> Int], z \in [1 .. n -> Int] :
         x = at(f) /\ y = at(g) /\ z = at(h)
  <2>1. \A F \in [1 .. n -> Int] : at(F) \in [1 .. n -> Int]
    BY <1>1
  <2> HIDE DEF at
  <2>2. QED
    BY <1>1, <2>1
<1>3. \A i \in 1 .. n : z[i] = x[i] + y[i]
  BY <1>1, <1>2 DEF AddsUp
<1>4. Total(z) = Total(x) + Total(y)
  <2>1. IsList(n, x) /\ IsList(n, y) /\ IsList(n, z)
    BY <1>1 DEF IsList
  <2>2. AddsUp(n, 1 .. n, x, y, z)
    BY <1>3 DEF AddsUp
  <2>3. QED
    BY <2>1, <2>2, TotalPlus
<1>5. QED
  BY <1>2, <1>4 DEF Over

SameAt(n, S, f, g) == \A i \in 1 .. n : i \in S => f[i] = g[i]

LEMMA OverSame ==
  ASSUME NEW n, NEW S, NEW f, NEW g, SameAt(n, S, f, g)
  PROVE  Over(n, S, f) = Over(n, S, g)
<1>1. [i \in 1 .. n |-> IF i \in S THEN f[i] ELSE 0]
        = [i \in 1 .. n |-> IF i \in S THEN g[i] ELSE 0]
  BY DEF SameAt
<1>2. QED
  BY <1>1 DEF Over

LEMMA OverZero ==
  ASSUME NEW n \in Nat, NEW S, NEW f, \A i \in 1 .. n : i \in S => f[i] = 0
  PROVE  Over(n, S, f) = 0
<1>1. PICK z \in [1 .. n -> Int] : z = [i \in 1 .. n |-> IF i \in S THEN f[i] ELSE 0]
  <2>1. [i \in 1 .. n |-> IF i \in S THEN f[i] ELSE 0] \in [1 .. n -> Int]
    OBVIOUS
  <2>2. QED
    BY <2>1
<1>2. \A i \in 1 .. n : z[i] = 0
  BY <1>1
<1>3. Total(z) = 0
  BY <1>2, TotalZero
<1>4. QED
  BY <1>1, <1>3 DEF Over

-----------------------------------------------------------------------------
(* The terms. *)

Alike(expr, i) == { j \in DOMAIN expr : SameTerm(expr[i], expr[j]) }

\* The place where the term of leaf i appears first; that of a literal is
\* its own.
FirstOf(expr, i) == IF expr[i].kind = "int" THEN i ELSE Min(Alike(expr, i))

LEMMA FirstOfTerm ==
  ASSUME NEW expr, NEW env, Sound(expr, env), NEW i \in 1 .. Len(expr)
  PROVE  /\ FirstOf(expr, i) \in 1 .. Len(expr)
         /\ expr[i].kind = "int" => FirstOf(expr, i) = i
         /\ expr[i].kind # "int" =>
               /\ SameTerm(expr[FirstOf(expr, i)], expr[i])
               /\ \A j \in 1 .. FirstOf(expr, i) - 1 : ~ SameTerm(expr[i], expr[j])
<1>1. CASE expr[i].kind = "int"
  BY <1>1 DEF FirstOf
<1>2. CASE expr[i].kind # "int"
  <2>1. Alike(expr, i) \in SUBSET Nat /\ Alike(expr, i) \subseteq 1 .. Len(expr)
    BY DEF Sound, Alike
  <2>2. i \in Alike(expr, i)
    BY <1>2 DEF Sound, Alike, SameTerm
  <2>3. PICK m \in 1 .. Len(expr) : m = FirstOf(expr, i) /\ m \in Alike(expr, i)
                                    /\ \A j \in Alike(expr, i) : m <= j
    BY <1>2, <2>1, <2>2, MinOfNaturals DEF FirstOf
  <2>4. SameTerm(expr[m], expr[i])
    BY <2>3 DEF Alike, SameTerm
  <2>5. ASSUME NEW j \in 1 .. m - 1
        PROVE  ~ SameTerm(expr[i], expr[j])
    <3>1. j \in 1 .. Len(expr) /\ ~ (m <= j)
      BY <2>3
    <3>2. j \notin Alike(expr, i)
      BY <2>3, <3>1
    <3>3. QED
      BY <3>1, <3>2 DEF Alike, Sound
  <2>6. QED
    BY <1>2, <2>3, <2>4, <2>5
<1>3. QED
  BY <1>1, <1>2

\* A place is where its term appears first exactly when it is its own first,
\* and then those that have it as first are those of the term.
LEMMA FirstOfFirst ==
  ASSUME NEW expr, NEW env, Sound(expr, env),
         NEW i \in 1 .. Len(expr), expr[i].kind # "int",
         \A j \in 1 .. i - 1 : ~ SameTerm(expr[i], expr[j]),
         NEW j \in 1 .. Len(expr)
  PROVE  FirstOf(expr, j) = i <=> SameTerm(expr[i], expr[j])
<1>1. ASSUME FirstOf(expr, j) = i
      PROVE  SameTerm(expr[i], expr[j])
  <2>1. expr[j].kind # "int"
    BY <1>1, FirstOfTerm
  <2>2. QED
    BY <1>1, <2>1, FirstOfTerm
<1>2. ASSUME SameTerm(expr[i], expr[j])
      PROVE  FirstOf(expr, j) = i
  <2>1. PICK m \in 1 .. Len(expr) : m = FirstOf(expr, j)
    BY FirstOfTerm
  <2>2. expr[j].kind # "int"
    BY <1>2 DEF SameTerm
  <2>3. SameTerm(expr[m], expr[j]) /\ \A k \in 1 .. m - 1 : ~ SameTerm(expr[j], expr[k])
    BY <2>1, <2>2, FirstOfTerm
  <2>4. ~ (i < m)
    <3>1. SameTerm(expr[j], expr[i])
      BY <1>2 DEF SameTerm
    <3>2. i < m => i \in 1 .. m - 1
      OBVIOUS
    <3>3. QED
      BY <2>3, <3>1, <3>2
  <2>5. ~ (m < i)
    <3>1. SameTerm(expr[i], expr[m])
      BY <1>2, <2>3 DEF SameTerm
    <3>2. m < i => m \in 1 .. i - 1
      OBVIOUS
    <3>3. QED
      BY <3>1, <3>2
  <2>6. QED
    BY <2>1, <2>4, <2>5
<1>3. QED
  BY <1>1, <1>2

LEMMA TermsAreFirst ==
  ASSUME NEW expr, NEW env, Sound(expr, env)
  PROVE  /\ Terms(expr) \subseteq 1 .. Len(expr)
         /\ \A i \in Terms(expr) : expr[i].kind # "int" /\ FirstOf(expr, i) = i
<1>1. Terms(expr) \subseteq 1 .. Len(expr)
  BY DEF Terms, Sound
<1>2. ASSUME NEW i \in Terms(expr)
      PROVE  expr[i].kind # "int" /\ FirstOf(expr, i) = i
  <2>1. i \in 1 .. Len(expr) /\ expr[i].kind # "int"
        /\ \A j \in 1 .. i - 1 : ~ SameTerm(expr[i], expr[j])
    BY <1>1 DEF Terms
  <2>2. SameTerm(expr[i], expr[i])
    BY <2>1 DEF SameTerm
  <2>3. QED
    BY <2>1, <2>2, FirstOfFirst
<1>3. QED
  BY <1>1, <1>2

\* The leaves that are no literals add up to their terms.
LEMMA LeavesAreTerms ==
  ASSUME NEW expr, NEW env, Sound(expr, env), NEW w \in [1 .. Len(expr) -> Int],
         \A i, j \in 1 .. Len(expr) : SameTerm(expr[i], expr[j]) => w[i] = w[j]
  PROVE  Total([j \in 1 .. Len(expr) |->
                  IF expr[j].kind = "int" THEN 0 ELSE expr[j].sign * w[j]])
         = Over(Len(expr), Terms(expr), [i \in 1 .. Len(expr) |-> Coefficient(expr, i) * w[i]])
<1>1. PICK n \in Nat : n = Len(expr)
  BY DEF Sound
<1>2. PICK rep \in [1 .. n -> 1 .. n] : \A j \in 1 .. n : rep[j] = FirstOf(expr, j)
  <2>1. [j \in 1 .. n |-> FirstOf(expr, j)] \in [1 .. n -> 1 .. n]
    BY <1>1, FirstOfTerm
  <2>2. QED
    BY <2>1
<1>3. PICK c \in [1 .. n -> Int] :
         \A j \in 1 .. n : c[j] = IF expr[j].kind = "int" THEN 0 ELSE expr[j].sign
  <2>1. [j \in 1 .. n |-> IF expr[j].kind = "int" THEN 0 ELSE expr[j].sign] \in [1 .. n -> Int]
    BY <1>1 DEF Sound
  <2>2. QED
    BY <2>1
<1> DEFINE IsFirst(i) == /\ expr[i].kind # "int"
                         /\ \A j \in 1 .. i - 1 : ~ SameTerm(expr[i], expr[j])
<1>4. PICK sum \in [1 .. n -> Int] :
         \A i \in 1 .. n : sum[i] = IF IsFirst(i) THEN Coefficient(expr, i) ELSE 0
  <2>1. [i \in 1 .. n |-> IF IsFirst(i) THEN Coefficient(expr, i) ELSE 0] \in [1 .. n -> Int]
    BY <1>1, CoefficientIsInt
  <2> HIDE DEF IsFirst
  <2>2. QED
    BY <2>1
<1>5. ASSUME NEW j \in 1 .. n
      PROVE  w[rep[j]] = w[j]
  <2>1. CASE expr[j].kind = "int"
    BY <1>1, <1>2, <2>1, FirstOfTerm
  <2>2. CASE expr[j].kind # "int"
    BY <1>1, <1>2, <2>2, FirstOfTerm
  <2>3. QED
    BY <2>1, <2>2
<1>6. ASSUME NEW i \in 1 .. n
      PROVE  \E f \in [1 .. n -> Int] :
                /\ \A j \in 1 .. n : f[j] = IF rep[j] = i THEN c[j] ELSE 0
                /\ sum[i] = Total(f)
  <2>1. PICK f \in [1 .. n -> Int] : \A j \in 1 .. n : f[j] = IF rep[j] = i THEN c[j] ELSE 0
    <3>1. [j \in 1 .. n |-> IF rep[j] = i THEN c[j] ELSE 0] \in [1 .. n -> Int]
      OBVIOUS
    <3>2. QED
      BY <3>1
  <2>2. CASE IsFirst(i)
    <3>1. ASSUME NEW j \in 1 .. n
          PROVE  f[j] = IF SameTerm(expr[i], expr[j]) THEN expr[j].sign ELSE 0
      <4>1. rep[j] = i <=> SameTerm(expr[i], expr[j])
        BY <1>1, <1>2, <2>2, FirstOfFirst
      <4>2. SameTerm(expr[i], expr[j]) => expr[j].kind # "int"
        BY DEF SameTerm
      <4>3. QED
        BY <1>3, <2>1, <4>1, <4>2
    <3>2. f = [j \in 1 .. n |-> IF SameTerm(expr[i], expr[j]) THEN expr[j].sign ELSE 0]
      BY <3>1
    <3>3. Coefficient(expr, i) = Total(f)
      BY <1>1, <3>2 DEF Coefficient, Sound
    <3>4. QED
      BY <1>4, <2>1, <2>2, <3>3
  <2>3. CASE ~ IsFirst(i)
    <3>1. ASSUME NEW j \in 1 .. n
          PROVE  f[j] = 0
      <4>1. CASE rep[j] # i
        BY <2>1, <4>1
      <4>2. CASE rep[j] = i /\ expr[j].kind = "int"
        BY <1>3, <2>1, <4>2
      <4>3. CASE rep[j] = i /\ expr[j].kind # "int"
        <5>1. SameTerm(expr[i], expr[j]) /\ \A k \in 1 .. i - 1 : ~ SameTerm(expr[j], expr[k])
          BY <1>1, <1>2, <4>3, FirstOfTerm
        <5>2. IsFirst(i)
          BY <5>1 DEF SameTerm
        <5>3. QED
          BY <2>3, <5>2
      <4>4. QED
        BY <4>1, <4>2, <4>3
    <3>2. Total(f) = 0
      BY <3>1, TotalZero
    <3>3. QED
      BY <1>4, <2>1, <2>3, <3>2
  <2>4. QED
    BY <2>2, <2>3
<1>7. GroupedBy(n, rep, c, w, sum)
  <2>1. w \in [1 .. n -> Int]
    BY <1>1
  <2> HIDE DEF IsFirst
  <2>2. QED
    BY <1>5, <1>6, <2>1 DEF GroupedBy
<1> DEFINE leaves == [j \in 1 .. n |-> IF expr[j].kind = "int" THEN 0 ELSE expr[j].sign * w[j]]
           product == [i \in 1 .. n |-> Coefficient(expr, i) * w[i]]
           terms == [i \in 1 .. n |-> IF i \in Terms(expr) THEN product[i] ELSE 0]
<1>8. \A i \in 1 .. n : w[i] \in Int
  BY <1>1
<1>9. ASSUME NEW j \in 1 .. n
      PROVE  leaves[j] \in Int /\ leaves[j] = c[j] * w[j]
  <2>1. c[j] \in Int /\ w[j] \in Int
    BY <1>8
  <2>2. CASE expr[j].kind = "int"
    BY <1>3, <2>1, <2>2, Multiply
  <2>3. CASE expr[j].kind # "int"
    BY <1>3, <2>1, <2>3, Multiply
  <2>4. QED
    BY <2>2, <2>3
<1>10. ASSUME NEW i \in 1 .. n
       PROVE  terms[i] \in Int /\ terms[i] = sum[i] * w[i]
  <2>1. sum[i] \in Int /\ w[i] \in Int /\ Coefficient(expr, i) \in Int
    BY <1>1, <1>8, CoefficientIsInt
  <2>2. CASE i \in Terms(expr)
    <3>1. IsFirst(i)
      BY <2>2 DEF Terms
    <3> HIDE DEF IsFirst
    <3>2. QED
      BY <1>4, <2>1, <2>2, <3>1, Multiply
  <2>3. CASE i \notin Terms(expr)
    <3>1. sum[i] = 0
      <4>1. IsFirst(i) => Coefficient(expr, i) = 0
        BY <1>1, <2>3 DEF Terms, Sound
      <4> HIDE DEF IsFirst
      <4>2. QED
        BY <1>4, <4>1
    <3>2. QED
      BY <2>1, <2>3, <3>1, Multiply
  <2>4. QED
    BY <2>2, <2>3
<1>11. Weighted(n, c, w, leaves)
  BY <1>9 DEF Weighted
<1>12. Weighted(n, sum, w, terms)
  BY <1>10 DEF Weighted
<1>13. Total(leaves) = Total(terms)
  <2> HIDE DEF leaves, product, terms
  <2>1. QED
    BY <1>7, <1>11, <1>12, TotalGrouped
<1>14. QED
  BY <1>1, <1>13 DEF Over

-----------------------------------------------------------------------------
(* The sections. *)

LEMMA LabelledAreLabels ==
  ASSUME NEW expr, NEW env, Sound(expr, env)
  PROVE  /\ Labelled(expr, env) \subseteq 1 .. Len(expr)
         /\ \A i \in Labelled(expr, env) : IsLabel(expr, env, i)
         /\ Anchored(expr, env) \subseteq Labelled(expr, env)
         /\ \A i \in Labelled(expr, env) :
               /\ i \in Group(expr, env, i)
               /\ Group(expr, env, i) \subseteq Labelled(expr, env)
               /\ \A j \in Labelled(expr, env) :
                     j \in Group(expr, env, i) <=>
                        SectionAt(expr, env, j) = SectionAt(expr, env, i)
<1>1. Labelled(expr, env) \subseteq Terms(expr)
  BY DEF Labelled
<1>2. QED
  BY <1>1, TermsAreFirst DEF Labelled, Anchored, Group, IsLabel, SectionAt

LEMMA SectionSumIsInt ==
  ASSUME NEW expr, NEW env, Sound(expr, env), NEW i
  PROVE  SectionSum(expr, env, i) \in Int
<1> DEFINE S == Group(expr, env, i)
           f == [j \in 1 .. Len(expr) |-> IF j \in S THEN Coefficient(expr, j) ELSE 0]
<1>1. f \in [1 .. Len(expr) -> Int]
  BY CoefficientIsInt
<1>2. SectionSum(expr, env, i) = Total(f)
  BY DEF SectionSum, Sound
<1>3. Len(expr) \in Nat
  BY DEF Sound
<1> HIDE DEF f
<1>4. QED
  BY <1>1, <1>2, <1>3, TotalIsInt

\* The place of the first label of the section of label i.
SectionFirst(expr, env, i) ==
    IF i \in Labelled(expr, env) THEN Min(Group(expr, env, i)) ELSE i

LEMMA SectionFirstIs ==
  ASSUME NEW expr, NEW env, Sound(expr, env), NEW i \in 1 .. Len(expr)
  PROVE  /\ SectionFirst(expr, env, i) \in 1 .. Len(expr)
         /\ i \notin Labelled(expr, env) => SectionFirst(expr, env, i) = i
         /\ i \in Labelled(expr, env) =>
               /\ SectionFirst(expr, env, i) \in Group(expr, env, i)
               /\ \A j \in Group(expr, env, i) : SectionFirst(expr, env, i) <= j
<1>1. CASE i \notin Labelled(expr, env)
  BY <1>1 DEF SectionFirst
<1>2. CASE i \in Labelled(expr, env)
  <2>1. PICK S : S = Group(expr, env, i)
    OBVIOUS
  <2>2. S \in SUBSET Nat /\ S \subseteq 1 .. Len(expr) /\ i \in S
    BY <1>2, <2>1, LabelledAreLabels
  <2>3. Min(S) \in S /\ \A j \in S : Min(S) <= j
    BY <2>2, MinOfNaturals
  <2>4. SectionFirst(expr, env, i) = Min(S)
    BY <1>2, <2>1 DEF SectionFirst
  <2>5. QED
    BY <1>2, <2>1, <2>2, <2>3, <2>4
<1>3. QED
  BY <1>1, <1>2

\* The first label of a section is the first of exactly the section's labels.
LEMMA SectionFirstOf ==
  ASSUME NEW expr, NEW env, Sound(expr, env),
         NEW i \in Labelled(expr, env), \A j \in Group(expr, env, i) : i <= j,
         NEW j \in 1 .. Len(expr)
  PROVE  SectionFirst(expr, env, j) = i <=> j \in Group(expr, env, i)
<1>1. i \in 1 .. Len(expr)
  BY LabelledAreLabels
<1>2. ASSUME SectionFirst(expr, env, j) = i
      PROVE  j \in Group(expr, env, i)
  <2>1. CASE j \notin Labelled(expr, env)
    BY <1>2, <2>1, SectionFirstIs
  <2>2. CASE j \in Labelled(expr, env)
    <3>1. i \in Group(expr, env, j)
      BY <1>2, <2>2, SectionFirstIs
    <3>2. SectionAt(expr, env, i) = SectionAt(expr, env, j)
      BY <2>2, <3>1, LabelledAreLabels
    <3>3. QED
      BY <2>2, <3>2, LabelledAreLabels
  <2>3. QED
    BY <2>1, <2>2
<1>3. ASSUME j \in Group(expr, env, i)
      PROVE  SectionFirst(expr, env, j) = i
  <2>1. j \in Labelled(expr, env) /\ SectionAt(expr, env, j) = SectionAt(expr, env, i)
    BY <1>3, LabelledAreLabels
  <2>2. PICK m \in 1 .. Len(expr) : m = SectionFirst(expr, env, j)
    BY SectionFirstIs
  <2>3. m \in Group(expr, env, j) /\ \A k \in Group(expr, env, j) : m <= k
    BY <2>1, <2>2, SectionFirstIs
  <2>4. i \in Group(expr, env, j)
    BY <2>1, LabelledAreLabels
  <2>5. m \in Group(expr, env, i)
    <3>1. m \in Labelled(expr, env) /\ SectionAt(expr, env, m) = SectionAt(expr, env, j)
      BY <2>1, <2>3, LabelledAreLabels
    <3>2. QED
      BY <2>1, <3>1, LabelledAreLabels
  <2>6. m <= i /\ i <= m
    BY <2>3, <2>4, <2>5
  <2>7. QED
    BY <1>1, <2>2, <2>6
<1>4. QED
  BY <1>2, <1>3

Weighed(n, f, w) == [i \in 1 .. n |-> f[i] * w[i]]

\* The coefficients of the terms, and the sums of the sections.
TermSigns(expr) == [i \in 1 .. Len(expr) |-> Coefficient(expr, i)]
SectionSigns(expr, env) == [i \in 1 .. Len(expr) |-> SectionSum(expr, env, i)]

\* The labels add up to their sections, whatever b is in a section.
BySection(expr, env, b) ==
    /\ IsList(Len(expr), b)
    /\ \A i, j \in Labelled(expr, env) :
          SectionAt(expr, env, i) = SectionAt(expr, env, j) => b[i] = b[j]

LEMMA LabelsAreSections ==
  ASSUME NEW expr, NEW env, Sound(expr, env), NEW b, BySection(expr, env, b)
  PROVE  Over(Len(expr), Labelled(expr, env), Weighed(Len(expr), TermSigns(expr), b))
         = Over(Len(expr), Anchored(expr, env), Weighed(Len(expr), SectionSigns(expr, env), b))
<1>1. /\ b \in [1 .. Len(expr) -> Int]
      /\ \A i, j \in Labelled(expr, env) :
            SectionAt(expr, env, i) = SectionAt(expr, env, j) => b[i] = b[j]
  BY DEF BySection, IsList
<1>2. PICK n \in Nat : n = Len(expr)
  BY DEF Sound
<1>3. PICK rep \in [1 .. n -> 1 .. n] : \A j \in 1 .. n : rep[j] = SectionFirst(expr, env, j)
  <2>1. [j \in 1 .. n |-> SectionFirst(expr, env, j)] \in [1 .. n -> 1 .. n]
    BY <1>2, SectionFirstIs
  <2>2. QED
    BY <2>1
<1>4. PICK L : L = Labelled(expr, env)
  OBVIOUS
<1>5. PICK c \in [1 .. n -> Int] :
         \A j \in 1 .. n : c[j] = IF j \in L THEN Coefficient(expr, j) ELSE 0
  <2>1. [j \in 1 .. n |-> IF j \in L THEN Coefficient(expr, j) ELSE 0] \in [1 .. n -> Int]
    BY <1>2, CoefficientIsInt
  <2>2. QED
    BY <2>1
<1> DEFINE IsFirst(i) == i \in L /\ \A j \in Group(expr, env, i) : i <= j
<1>6. PICK sum \in [1 .. n -> Int] :
         \A i \in 1 .. n : sum[i] = IF IsFirst(i) THEN SectionSum(expr, env, i) ELSE 0
  <2>1. [i \in 1 .. n |-> IF IsFirst(i) THEN SectionSum(expr, env, i) ELSE 0] \in [1 .. n -> Int]
    BY <1>2, SectionSumIsInt
  <2> HIDE DEF IsFirst
  <2>2. QED
    BY <2>1
<1>7. ASSUME NEW j \in 1 .. n
      PROVE  b[rep[j]] = b[j]
  <2>1. CASE j \notin L
    BY <1>2, <1>3, <1>4, <2>1, SectionFirstIs
  <2>2. CASE j \in L
    <3>1. rep[j] \in Group(expr, env, j)
      BY <1>2, <1>3, <1>4, <2>2, SectionFirstIs
    <3>2. rep[j] \in L /\ SectionAt(expr, env, rep[j]) = SectionAt(expr, env, j)
      BY <1>4, <2>2, <3>1, LabelledAreLabels
    <3>3. QED
      BY <1>1, <1>4, <2>2, <3>2
  <2>3. QED
    BY <2>1, <2>2
<1>8. ASSUME NEW i \in 1 .. n
      PROVE  \E f \in [1 .. n -> Int] :
                /\ \A j \in 1 .. n : f[j] = IF rep[j] = i THEN c[j] ELSE 0
                /\ sum[i] = Total(f)
  <2>1. PICK f \in [1 .. n -> Int] : \A j \in 1 .. n : f[j] = IF rep[j] = i THEN c[j] ELSE 0
    <3>1. [j \in 1 .. n |-> IF rep[j] = i THEN c[j] ELSE 0] \in [1 .. n -> Int]
      OBVIOUS
    <3>2. QED
      BY <3>1
  <2>2. CASE IsFirst(i)
    <3>1. PICK S : S = Group(expr, env, i)
      OBVIOUS
    <3>2. ASSUME NEW j \in 1 .. n
          PROVE  f[j] = IF j \in S THEN Coefficient(expr, j) ELSE 0
      <4>1. rep[j] = i <=> j \in S
        BY <1>2, <1>3, <1>4, <2>2, <3>1, SectionFirstOf
      <4>2. j \in S => j \in L
        BY <1>4, <3>1 DEF Group
      <4>3. QED
        BY <1>5, <2>1, <4>1, <4>2
    <3>3. f = [j \in 1 .. n |-> IF j \in S THEN Coefficient(expr, j) ELSE 0]
      BY <3>2
    <3>4. SectionSum(expr, env, i) = Total(f)
      BY <1>2, <3>1, <3>3 DEF SectionSum, Sound
    <3>5. QED
      BY <1>6, <2>1, <2>2, <3>4
  <2>3. CASE ~ IsFirst(i)
    <3>1. ASSUME NEW j \in 1 .. n
          PROVE  f[j] = 0
      <4>1. CASE rep[j] # i
        BY <2>1, <4>1
      <4>2. CASE rep[j] = i /\ j \notin L
        BY <1>5, <2>1, <4>2
      <4>3. CASE rep[j] = i /\ j \in L
        <5>1. i \in Group(expr, env, j) /\ \A k \in Group(expr, env, j) : i <= k
          BY <1>2, <1>3, <1>4, <4>3, SectionFirstIs
        <5>2. i \in L /\ SectionAt(expr, env, i) = SectionAt(expr, env, j)
          BY <1>4, <4>3, <5>1, LabelledAreLabels
        <5>3. ASSUME NEW k \in Group(expr, env, i)
              PROVE  k \in Group(expr, env, j)
          BY <1>4, <4>3, <5>2, LabelledAreLabels
        <5>4. IsFirst(i)
          BY <5>1, <5>2, <5>3
        <5>5. QED
          BY <2>3, <5>4
      <4>4. QED
        BY <4>1, <4>2, <4>3
    <3>2. Total(f) = 0
      BY <3>1, TotalZero
    <3>3. QED
      BY <1>6, <2>1, <2>3, <3>2
  <2>4. QED
    BY <2>2, <2>3
<1>9. GroupedBy(n, rep, c, b, sum)
  <2>1. b \in [1 .. n -> Int]
    BY <1>1, <1>2
  <2> HIDE DEF IsFirst
  <2>2. QED
    BY <1>7, <1>8, <2>1 DEF GroupedBy
<1> DEFINE coefficients == [i \in 1 .. n |-> Coefficient(expr, i) * b[i]]
           labels == [i \in 1 .. n |-> IF i \in L THEN coefficients[i] ELSE 0]
           sums == [i \in 1 .. n |-> SectionSum(expr, env, i) * b[i]]
           anchors == [i \in 1 .. n |-> IF i \in Anchored(expr, env) THEN sums[i] ELSE 0]
<1>10. \A i \in 1 .. n : b[i] \in Int /\ Coefficient(expr, i) \in Int
                        /\ SectionSum(expr, env, i) \in Int
  BY <1>1, <1>2, CoefficientIsInt, SectionSumIsInt
<1>11. ASSUME NEW j \in 1 .. n
       PROVE  labels[j] \in Int /\ labels[j] = c[j] * b[j]
  <2>1. CASE j \in L
    BY <1>5, <1>10, <2>1, Multiply
  <2>2. CASE j \notin L
    BY <1>5, <1>10, <2>2, Multiply
  <2>3. QED
    BY <2>1, <2>2
<1>12. ASSUME NEW i \in 1 .. n
       PROVE  anchors[i] \in Int /\ anchors[i] = sum[i] * b[i]
  <2>1. CASE i \in Anchored(expr, env)
    <3>1. IsFirst(i)
      BY <1>4, <2>1 DEF Anchored
    <3> HIDE DEF IsFirst
    <3>2. QED
      BY <1>6, <1>10, <2>1, <3>1, Multiply
  <2>2. CASE i \notin Anchored(expr, env)
    <3>1. IsFirst(i) => SectionSum(expr, env, i) = 0
      BY <1>4, <2>2 DEF Anchored
    <3>2. sum[i] = 0
      <4> HIDE DEF IsFirst
      <4>1. QED
        BY <1>6, <3>1
    <3>3. QED
      BY <1>10, <2>2, <3>2, Multiply
  <2>3. QED
    BY <2>1, <2>2
<1>13. Weighted(n, c, b, labels)
  BY <1>11 DEF Weighted
<1>14. Weighted(n, sum, b, anchors)
  BY <1>12 DEF Weighted
<1>15. Total(labels) = Total(anchors)
  <2> HIDE DEF labels, anchors
  <2>1. QED
    BY <1>9, <1>13, <1>14, TotalGrouped
<1>16. QED
  <2>1. Weighed(Len(expr), TermSigns(expr), b) = coefficients
    BY <1>2 DEF Weighed, TermSigns
  <2>2. Weighed(Len(expr), SectionSigns(expr, env), b) = sums
    BY <1>2 DEF Weighed, SectionSigns
  <2>3. QED
    BY <1>2, <1>4, <1>15, <2>1, <2>2 DEF Over

-----------------------------------------------------------------------------
(* What an expression comes to. *)

LEMMA WeighedIsList ==
  ASSUME NEW n, NEW f, NEW w, IsList(n, f), IsList(n, w)
  PROVE  /\ IsList(n, Weighed(n, f, w))
         /\ \A i \in 1 .. n : Weighed(n, f, w)[i] = f[i] * w[i]
<1>1. \A i \in 1 .. n : f[i] * w[i] \in Int
  BY Multiply DEF IsList
<1>2. QED
  BY <1>1 DEF Weighed, IsList

LEMMA CoefficientsAreInts ==
  ASSUME NEW expr, NEW env, Sound(expr, env)
  PROVE  /\ IsList(Len(expr), TermSigns(expr))
         /\ \A i \in 1 .. Len(expr) : TermSigns(expr)[i] = Coefficient(expr, i)
         /\ IsList(Len(expr), SectionSigns(expr, env))
         /\ \A i \in 1 .. Len(expr) : SectionSigns(expr, env)[i] = SectionSum(expr, env, i)
<1>1. Len(expr) \in Nat
  BY DEF Sound
<1>2. QED
  BY <1>1, CoefficientIsInt, SectionSumIsInt DEF TermSigns, SectionSigns, IsList

WithoutHere(expr, w, v) ==
    /\ IsList(Len(expr), v)
    /\ \A i \in 1 .. Len(expr) : v[i] = IF expr[i].kind = "here" THEN 0 ELSE w[i]

\* Literals, leaves that are terms, and current locations.
LEMMA LeafSumSplits ==
  ASSUME NEW expr, NEW env, Sound(expr, env), NEW w, NEW b, NEW p, Worth(expr, env, w, b, p),
         NEW v, WithoutHere(expr, w, v)
  PROVE  LeafSum(expr, w) = Total(Literals(expr))
                            + Over(Len(expr), Terms(expr), Weighed(Len(expr), TermSigns(expr), v))
                            + Here(expr) * p
<1>1. /\ v \in [1 .. Len(expr) -> Int]
      /\ \A i \in 1 .. Len(expr) : v[i] = IF expr[i].kind = "here" THEN 0 ELSE w[i]
  BY DEF WithoutHere, IsList
<1>2. PICK n \in Nat : n = Len(expr)
  BY DEF Sound
<1>3. /\ w \in [1 .. n -> Int] /\ p \in Int /\ DOMAIN expr = 1 .. n
      /\ \A i \in 1 .. n : expr[i].sign \in Int /\ w[i] \in Int /\ v[i] \in Int
  BY <1>1, <1>2 DEF Sound, Worth
<1> DEFINE int(i) == IF expr[i].kind = "int" THEN expr[i].sign * expr[i].value ELSE 0
           term(i) == IF expr[i].kind = "int" THEN 0 ELSE expr[i].sign * v[i]
           here(i) == IF expr[i].kind = "here" THEN expr[i].sign ELSE 0
<1>4. ASSUME NEW i \in 1 .. n
      PROVE  /\ int(i) \in Int /\ term(i) \in Int /\ here(i) \in Int /\ here(i) * p \in Int
             /\ expr[i].sign * w[i] \in Int
             /\ expr[i].sign * w[i] = int(i) + term(i) + here(i) * p
  <2>1. CASE expr[i].kind = "int"
    <3>1. w[i] = expr[i].value /\ expr[i].value \in Int
      BY <1>2, <2>1 DEF Worth, Sound
    <3>2. term(i) = 0 /\ here(i) = 0 /\ int(i) = expr[i].sign * w[i]
      BY <2>1, <3>1
    <3>3. expr[i].sign * w[i] \in Int /\ 0 * p = 0
      BY <1>3, Multiply
    <3> HIDE DEF int, term, here
    <3>4. PICK x \in Int : x = expr[i].sign * w[i]
      BY <3>3
    <3>5. QED
      BY <3>2, <3>3, <3>4
  <2>2. CASE expr[i].kind = "here"
    <3>1. w[i] = p /\ v[i] = 0
      BY <1>1, <1>2, <2>2 DEF Worth
    <3>2. term(i) = expr[i].sign * 0 /\ here(i) = expr[i].sign /\ int(i) = 0
      BY <2>2, <3>1
    <3> HIDE DEF int, term, here
    <3>3. QED
      BY <1>3, <3>1, <3>2, Multiply
  <2>3. CASE expr[i].kind \notin {"int", "here"}
    <3>1. v[i] = w[i]
      BY <1>1, <1>2, <2>3
    <3>2. term(i) = expr[i].sign * w[i] /\ here(i) = 0 /\ int(i) = 0
      BY <2>3, <3>1
    <3> HIDE DEF int, term, here
    <3>3. QED
      BY <1>3, <3>2, Multiply
  <2>4. QED
    BY <2>1, <2>2, <2>3
<1>5. PICK ints \in [1 .. n -> Int] : ints = [i \in 1 .. n |-> int(i)]
  BY <1>4
<1>6. PICK terms \in [1 .. n -> Int] : terms = [i \in 1 .. n |-> term(i)]
  BY <1>4
<1>7. PICK heres \in [1 .. n -> Int] : heres = [i \in 1 .. n |-> here(i)]
  BY <1>4
<1>8. PICK places \in [1 .. n -> Int] : places = [i \in 1 .. n |-> here(i) * p]
  BY <1>4
<1>9. PICK leaves \in [1 .. n -> Int] : leaves = [i \in 1 .. n |-> expr[i].sign * w[i]]
  BY <1>4
<1>10. PICK fixed \in [1 .. n -> Int] : \A i \in 1 .. n : fixed[i] = ints[i] + terms[i]
  <2>1. [i \in 1 .. n |-> ints[i] + terms[i]] \in [1 .. n -> Int]
    OBVIOUS
  <2>2. QED
    BY <2>1
<1>11. /\ \A i \in 1 .. n : leaves[i] = fixed[i] + places[i]
       /\ \A i \in 1 .. n : places[i] = heres[i] * p
  <2> HIDE DEF int, term, here
  <2>1. QED
    BY <1>4, <1>5, <1>6, <1>7, <1>8, <1>9, <1>10
<1>12. /\ IsList(n, leaves) /\ IsList(n, fixed) /\ IsList(n, places)
       /\ IsList(n, ints) /\ IsList(n, terms) /\ IsList(n, heres)
  BY DEF IsList
<1>13. Total(leaves) = Total(fixed) + Total(places)
  <2>1. AddsUp(n, 1 .. n, fixed, places, leaves)
    BY <1>11 DEF AddsUp
  <2>2. QED
    BY <1>12, <2>1, TotalPlus
<1>14. Total(fixed) = Total(ints) + Total(terms)
  <2>1. AddsUp(n, 1 .. n, ints, terms, fixed)
    BY <1>10 DEF AddsUp
  <2>2. QED
    BY <1>12, <2>1, TotalPlus
<1>15. Total(places) = Total(heres) * p
  <2>1. Scales(n, heres, p, places)
    BY <1>11 DEF Scales
  <2>2. QED
    BY <1>3, <1>12, <2>1, TotalTimes
<1>16. ints = Literals(expr)
  BY <1>3, <1>5 DEF Literals
<1>17. Total(heres) = Here(expr)
  BY <1>3, <1>7 DEF Here
<1>18. Total(leaves) = LeafSum(expr, w)
  BY <1>2, <1>9 DEF LeafSum
<1>19. Total(terms) = Over(n, Terms(expr), Weighed(Len(expr), TermSigns(expr), v))
  <2>1. \A i, j \in 1 .. Len(expr) : SameTerm(expr[i], expr[j]) => v[i] = v[j]
    <3>1. TAKE i \in 1 .. Len(expr), j \in 1 .. Len(expr)
    <3>2. HAVE SameTerm(expr[i], expr[j])
    <3>3. w[i] = w[j] /\ expr[i].kind = expr[j].kind
      BY <3>2 DEF Worth, SameTerm
    <3>4. QED
      BY <1>1, <3>3
  <2>2. Total([j \in 1 .. n |-> IF expr[j].kind = "int" THEN 0 ELSE expr[j].sign * v[j]])
        = Over(n, Terms(expr), [i \in 1 .. n |-> Coefficient(expr, i) * v[i]])
    <3> HIDE DEF int, term, here
    <3>1. Total([j \in 1 .. Len(expr) |->
                   IF expr[j].kind = "int" THEN 0 ELSE expr[j].sign * v[j]])
          = Over(Len(expr), Terms(expr),
                 [i \in 1 .. Len(expr) |-> Coefficient(expr, i) * v[i]])
      BY <1>1, <2>1, LeavesAreTerms
    <3>2. QED
      BY <1>2, <3>1
  <2>3. Weighed(Len(expr), TermSigns(expr), v) = [i \in 1 .. n |-> Coefficient(expr, i) * v[i]]
    BY <1>2 DEF Weighed, TermSigns
  <2>4. QED
    BY <1>6, <2>2, <2>3
<1>20. QED
  BY <1>2, <1>13, <1>14, <1>15, <1>16, <1>17, <1>18, <1>19

LEMMA ProductsAreOver ==
  ASSUME NEW expr, NEW env, Sound(expr, env), NEW S, NEW f,
         \A i \in 1 .. Len(expr) :
            i \in S => f[i] = Coefficient(expr, i) * env[expr[i].name].value
  PROVE  Over(Len(expr), S, f) = Total(Products(expr, env, S))
<1>1. [i \in 1 .. Len(expr) |-> IF i \in S THEN f[i] ELSE 0] = Products(expr, env, S)
  BY DEF Products, Sound
<1>2. QED
  BY <1>1 DEF Over

LEMMA ProductsAreInts ==
  ASSUME NEW expr, NEW env, Sound(expr, env), NEW S,
         \A i \in S : i \in 1 .. Len(expr) /\ env[expr[i].name].value \in Int
  PROVE  Total(Products(expr, env, S)) \in Int
<1>1. \A i \in S : Coefficient(expr, i) * env[expr[i].name].value \in Int
  BY CoefficientIsInt, Multiply
<1>2. Products(expr, env, S) \in [1 .. Len(expr) -> Int]
  BY <1>1 DEF Products, Sound
<1>3. Len(expr) \in Nat
  BY DEF Sound
<1>4. QED
  BY <1>2, <1>3, TotalIsInt

\* The terms are those of the four kinds, and current locations.
LEMMA TermsAreKinds ==
  ASSUME NEW expr, NEW env, Sound(expr, env),
         NEW A, A = Absolutes(expr, env), NEW L, L = Labelled(expr, env),
         NEW R, R = Remaining(expr, env), NEW G, G = Gots(expr)
  PROVE  /\ A \intersect L = {} /\ (A \union L) \intersect R = {}
         /\ (A \union L \union R) \intersect G = {}
         /\ A \union L \union R \union G \subseteq Terms(expr)
         /\ \A i \in Terms(expr) \ (A \union L \union R \union G) : expr[i].kind = "here"
         /\ \A i \in A : IsAbsolute(expr, env, i) /\ env[expr[i].name].value \in Int
         /\ \A i \in L : IsLabel(expr, env, i) /\ env[expr[i].name].value \in Int
         /\ \A i \in R \union G : expr[i].kind # "here"
<1>1. ASSUME NEW i \in Terms(expr)
      PROVE  /\ i \in 1 .. Len(expr) /\ expr[i].kind \in {"sym", "got", "here"}
             /\ i \in A <=> expr[i].kind = "sym" /\ env[expr[i].name].kind = "absolute"
             /\ i \in L <=> expr[i].kind = "sym" /\ env[expr[i].name].kind = "defined"
             /\ i \in R <=> expr[i].kind = "sym" /\ env[expr[i].name] = Undefined
             /\ i \in G <=> expr[i].kind = "got"
             /\ expr[i].kind = "sym" =>
                   \/ env[expr[i].name] = Undefined
                   \/ /\ env[expr[i].name].kind \in {"absolute", "defined"}
                      /\ env[expr[i].name].value \in Int
  <2>1. i \in 1 .. Len(expr) /\ expr[i].kind # "int"
    BY TermsAreFirst
  <2>2. QED
    BY <2>1 DEF Sound, Absolutes, Labelled, Remaining, Gots
<1>2. Undefined.kind = "undefined"
  BY DEF Undefined
<1>3. A \union L \union R \union G \subseteq Terms(expr)
  BY DEF Absolutes, Labelled, Remaining, Gots
<1>4. QED
  BY <1>1, <1>2, <1>3 DEF IsAbsolute, IsLabel

LEMMA WorthIsList ==
  ASSUME NEW expr, NEW env, Sound(expr, env), NEW w, NEW b, NEW p, Worth(expr, env, w, b, p)
  PROVE  /\ IsList(Len(expr), w) /\ IsList(Len(expr), b) /\ p \in Int
         /\ \A i \in 1 .. Len(expr) : w[i] \in Int /\ b[i] \in Int
<1>1. Len(expr) \in Nat
  BY DEF Sound
<1>2. w \in [1 .. Len(expr) -> Int] /\ b \in [1 .. Len(expr) -> Int] /\ p \in Int
  BY DEF Worth
<1>3. QED
  BY <1>1, <1>2 DEF IsList

\* The labels come to their offsets and their sections.
LEMMA LabelsSplit ==
  ASSUME NEW expr, NEW env, Sound(expr, env), NEW w, NEW b, NEW p, Worth(expr, env, w, b, p),
         NEW v, WithoutHere(expr, w, v)
  PROVE  Over(Len(expr), Labelled(expr, env), Weighed(Len(expr), TermSigns(expr), v))
         = Total(Products(expr, env, Labelled(expr, env)))
           + Over(Len(expr), Anchored(expr, env),
                  Weighed(Len(expr), SectionSigns(expr, env), b))
<1>1. PICK n, c, L : n = Len(expr) /\ c = TermSigns(expr) /\ L = Labelled(expr, env)
  OBVIOUS
<1>2. /\ n \in Nat /\ IsList(n, c) /\ IsList(n, v) /\ IsList(n, b)
      /\ \A i \in 1 .. n : c[i] = Coefficient(expr, i) /\ c[i] \in Int /\ b[i] \in Int
  <2>1. IsList(n, c) /\ \A i \in 1 .. n : c[i] = Coefficient(expr, i)
    BY <1>1, CoefficientsAreInts
  <2>2. \A i \in 1 .. n : c[i] \in Int
    BY <2>1 DEF IsList
  <2>3. IsList(n, b) /\ \A i \in 1 .. n : b[i] \in Int
    BY <1>1, WorthIsList
  <2>4. IsList(n, v)
    BY <1>1 DEF WithoutHere
  <2>5. n \in Nat
    BY <1>1 DEF Sound
  <2>6. QED
    BY <2>1, <2>2, <2>3, <2>4, <2>5
<1>3. ASSUME NEW i \in L
      PROVE  i \in 1 .. n /\ env[expr[i].name].value \in Int
             /\ v[i] = env[expr[i].name].value + b[i]
  <2>1. i \in 1 .. n /\ IsLabel(expr, env, i)
    BY <1>1, LabelledAreLabels
  <2>2. env[expr[i].name].value \in Int
    BY <1>1, <2>1 DEF Sound, IsLabel, Undefined
  <2>3. w[i] = env[expr[i].name].value + b[i]
    BY <1>1, <2>1 DEF Worth
  <2>4. v[i] = w[i]
    BY <1>1, <2>1 DEF WithoutHere, IsLabel
  <2>5. QED
    BY <2>1, <2>2, <2>3, <2>4
<1>4. PICK val : IsList(n, val) /\ \A i \in L : val[i] = env[expr[i].name].value
  <2>1. PICK val : val = [i \in 1 .. n |-> IF i \in L THEN env[expr[i].name].value ELSE 0]
    OBVIOUS
  <2>2. val \in [1 .. n -> Int]
    BY <1>3, <2>1
  <2>3. IsList(n, val)
    BY <1>2, <2>2 DEF IsList
  <2>4. \A i \in L : val[i] = env[expr[i].name].value
    BY <1>3, <2>1
  <2>5. QED
    BY <2>3, <2>4
<1>5. PICK f : f = Weighed(n, c, v) /\ IsList(n, f) /\ \A i \in 1 .. n : f[i] = c[i] * v[i]
  BY <1>2, WeighedIsList
<1>6. PICK x : x = Weighed(n, c, val) /\ IsList(n, x) /\ \A i \in 1 .. n : x[i] = c[i] * val[i]
  BY <1>2, <1>4, WeighedIsList
<1>7. PICK y : y = Weighed(n, c, b) /\ IsList(n, y) /\ \A i \in 1 .. n : y[i] = c[i] * b[i]
  BY <1>2, WeighedIsList
<1>8. AddsUp(n, L, x, y, f)
  <2>1. ASSUME NEW i \in 1 .. n, i \in L
        PROVE  f[i] = x[i] + y[i]
    <3>1. v[i] = val[i] + b[i] /\ c[i] \in Int /\ val[i] \in Int /\ b[i] \in Int
      BY <1>2, <1>3, <1>4, <2>1
    <3>2. c[i] * (val[i] + b[i]) = c[i] * val[i] + c[i] * b[i]
      BY <3>1, Multiply
    <3>3. QED
      BY <1>5, <1>6, <1>7, <3>1, <3>2
  <2>2. QED
    BY <2>1 DEF AddsUp
<1>9. Over(n, L, f) = Over(n, L, x) + Over(n, L, y)
  BY <1>5, <1>6, <1>7, <1>8, OverPlus
<1>10. Over(n, L, x) = Total(Products(expr, env, L))
  <2>1. \A i \in 1 .. Len(expr) :
           i \in L => x[i] = Coefficient(expr, i) * env[expr[i].name].value
    BY <1>1, <1>2, <1>4, <1>6
  <2>2. QED
    BY <1>1, <2>1, ProductsAreOver
<1>11. Over(n, L, y) = Over(n, Anchored(expr, env), Weighed(n, SectionSigns(expr, env), b))
  <2>1. \A i \in L : i \in 1 .. Len(expr) /\ IsLabel(expr, env, i)
    BY <1>1, LabelledAreLabels
  <2>2. BySection(expr, env, b)
    BY <1>1, <1>2, <2>1 DEF BySection, Worth
  <2>3. QED
    BY <1>1, <1>7, <2>2, LabelsAreSections
<1>12. QED
  BY <1>1, <1>5, <1>9, <1>10, <1>11

\* The terms come to their constant, their sections, and what is left.
LEMMA TermsSplit ==
  ASSUME NEW expr, NEW env, Sound(expr, env), NEW w, NEW b, NEW p, Worth(expr, env, w, b, p),
         NEW v, WithoutHere(expr, w, v)
  PROVE  Over(Len(expr), Terms(expr), Weighed(Len(expr), TermSigns(expr), v))
         = Total(Products(expr, env, Absolutes(expr, env)))
           + Total(Products(expr, env, Labelled(expr, env)))
           + Over(Len(expr), Anchored(expr, env),
                  Weighed(Len(expr), SectionSigns(expr, env), b))
           + Over(Len(expr), Remaining(expr, env), Weighed(Len(expr), TermSigns(expr), w))
           + Over(Len(expr), Gots(expr), Weighed(Len(expr), TermSigns(expr), w))
<1>1. PICK n, c, A, L, R, G :
         /\ n = Len(expr) /\ c = TermSigns(expr)
         /\ A = Absolutes(expr, env) /\ L = Labelled(expr, env)
         /\ R = Remaining(expr, env) /\ G = Gots(expr)
  OBVIOUS
<1>2. PICK H : H = Terms(expr) \ (A \union L \union R \union G)
  OBVIOUS
<1>3. /\ A \intersect L = {} /\ (A \union L) \intersect R = {}
      /\ (A \union L \union R) \intersect G = {}
      /\ A \union L \union R \union G \subseteq Terms(expr)
      /\ \A i \in H : expr[i].kind = "here"
      /\ \A i \in A : IsAbsolute(expr, env, i) /\ env[expr[i].name].value \in Int
      /\ \A i \in L : IsLabel(expr, env, i) /\ env[expr[i].name].value \in Int
      /\ \A i \in R \union G : expr[i].kind # "here"
  BY <1>1, <1>2, TermsAreKinds
<1>4. /\ n \in Nat /\ IsList(n, c) /\ IsList(n, v) /\ IsList(n, w)
      /\ \A i \in 1 .. n : c[i] = Coefficient(expr, i) /\ c[i] \in Int
      /\ \A i \in 1 .. n : v[i] = IF expr[i].kind = "here" THEN 0 ELSE w[i]
  <2>1. IsList(n, c) /\ \A i \in 1 .. n : c[i] = Coefficient(expr, i)
    BY <1>1, CoefficientsAreInts
  <2>2. \A i \in 1 .. n : c[i] \in Int
    BY <2>1 DEF IsList
  <2>3. IsList(n, w)
    BY <1>1, WorthIsList
  <2>4. IsList(n, v) /\ \A i \in 1 .. n : v[i] = IF expr[i].kind = "here" THEN 0 ELSE w[i]
    BY <1>1 DEF WithoutHere
  <2>5. n \in Nat
    BY <1>1 DEF Sound
  <2>6. QED
    BY <2>1, <2>2, <2>3, <2>4, <2>5
<1>5. PICK f : f = Weighed(n, c, v) /\ IsList(n, f) /\ \A i \in 1 .. n : f[i] = c[i] * v[i]
  BY <1>4, WeighedIsList
<1>6. PICK g : g = Weighed(n, c, w) /\ IsList(n, g) /\ \A i \in 1 .. n : g[i] = c[i] * w[i]
  BY <1>4, WeighedIsList
<1>7. Over(n, Terms(expr), f)
        = Over(n, A, f) + Over(n, L, f) + Over(n, R, f) + Over(n, G, f) + Over(n, H, f)
  <2>1. PICK AL, ALR, ALRG : /\ AL = A \union L /\ ALR = AL \union R
                             /\ ALRG = ALR \union G
    OBVIOUS
  <2>2. /\ AL \intersect R = {} /\ ALR \intersect G = {} /\ ALRG \intersect H = {}
        /\ Terms(expr) = ALRG \union H
    BY <1>2, <1>3, <2>1
  <2>3. Over(n, AL, f) = Over(n, A, f) + Over(n, L, f)
    BY <1>3, <1>5, <2>1, OverUnion
  <2>4. Over(n, ALR, f) = Over(n, AL, f) + Over(n, R, f)
    BY <1>5, <2>1, <2>2, OverUnion
  <2>5. Over(n, ALRG, f) = Over(n, ALR, f) + Over(n, G, f)
    BY <1>5, <2>1, <2>2, OverUnion
  <2>6. Over(n, Terms(expr), f) = Over(n, ALRG, f) + Over(n, H, f)
    BY <1>5, <2>2, OverUnion
  <2>7. QED
    BY <2>3, <2>4, <2>5, <2>6
<1>8. Over(n, H, f) = 0
  <2>1. ASSUME NEW i \in 1 .. n, i \in H
        PROVE  f[i] = 0
    <3>1. v[i] = 0
      BY <1>3, <1>4, <2>1
    <3>2. f[i] = c[i] * 0 /\ c[i] \in Int
      BY <1>4, <1>5, <3>1
    <3>3. QED
      BY <3>2, Multiply
  <2>2. QED
    BY <1>4, <2>1, OverZero
<1>9. Over(n, R, f) = Over(n, R, g) /\ Over(n, G, f) = Over(n, G, g)
  <2>1. SameAt(n, R, f, g) /\ SameAt(n, G, f, g)
    BY <1>3, <1>4, <1>5, <1>6 DEF SameAt
  <2>2. QED
    BY <2>1, OverSame
<1>10. Over(n, A, f) = Total(Products(expr, env, A))
  <2>1. ASSUME NEW i \in 1 .. Len(expr), i \in A
        PROVE  f[i] = Coefficient(expr, i) * env[expr[i].name].value
    <3>1. IsAbsolute(expr, env, i) /\ expr[i].kind # "here"
      BY <1>3, <2>1 DEF IsAbsolute
    <3>2. w[i] = env[expr[i].name].value
      BY <3>1 DEF Worth
    <3>3. v[i] = w[i]
      BY <1>1, <1>4, <3>1
    <3>4. QED
      BY <1>1, <1>4, <1>5, <3>2, <3>3
  <2>2. QED
    BY <1>1, <2>1, ProductsAreOver
<1>11. Over(n, L, f) = Total(Products(expr, env, L))
                       + Over(n, Anchored(expr, env), Weighed(n, SectionSigns(expr, env), b))
  BY <1>1, <1>5, LabelsSplit
<1>12. Over(n, A, f) \in Int /\ Over(n, L, f) \in Int /\ Over(n, R, f) \in Int
       /\ Over(n, G, f) \in Int
  BY <1>5, OverIsInt
<1>13. Over(n, Anchored(expr, env), Weighed(n, SectionSigns(expr, env), b)) \in Int
       /\ Total(Products(expr, env, L)) \in Int
  <2>1. IsList(n, b) /\ IsList(n, SectionSigns(expr, env))
    BY <1>1, WorthIsList, CoefficientsAreInts
  <2>2. \A i \in L : i \in 1 .. Len(expr)
    BY <1>1, LabelledAreLabels
  <2>3. Total(Products(expr, env, L)) \in Int
    BY <1>3, <2>2, ProductsAreInts
  <2>4. QED
    BY <2>1, <2>3, WeighedIsList, OverIsInt
<1>14. Over(n, Terms(expr), f)
         = Total(Products(expr, env, A)) + Total(Products(expr, env, L))
           + Over(n, Anchored(expr, env), Weighed(n, SectionSigns(expr, env), b))
           + Over(n, R, g) + Over(n, G, g)
  <2>1. PICK k0 \in Int, k1 \in Int, k2 \in Int, k3 \in Int, k4 \in Int, k5 \in Int :
           /\ k0 = Over(n, A, f) /\ k1 = Over(n, L, f) /\ k2 = Over(n, R, f)
           /\ k3 = Over(n, G, f)
           /\ k4 = Over(n, Anchored(expr, env), Weighed(n, SectionSigns(expr, env), b))
           /\ k5 = Total(Products(expr, env, L))
    BY <1>12, <1>13
  <2>2. k1 = k5 + k4
    BY <1>11, <2>1
  <2>3. Over(n, Terms(expr), f) = k0 + k1 + k2 + k3 + 0
    BY <1>7, <1>8, <2>1
  <2>4. k0 + k1 + k2 + k3 + 0 = k0 + k5 + k4 + k2 + k3
    BY <2>1, <2>2
  <2>5. QED
    BY <1>9, <1>10, <2>1, <2>3, <2>4
<1>15. QED
  BY <1>1, <1>5, <1>6, <1>14

\* The constant, the sections, the names that stand for nothing, the @GOTs,
\* and the current locations.
LEMMA LeafSumIs ==
  ASSUME NEW expr, NEW env, Sound(expr, env), NEW w, NEW b, NEW p, Worth(expr, env, w, b, p)
  PROVE  /\ LeafSum(expr, w)
            = DefinedConstant(expr, env)
              + Over(Len(expr), Anchored(expr, env),
                     Weighed(Len(expr), SectionSigns(expr, env), b))
              + Over(Len(expr), Remaining(expr, env), Weighed(Len(expr), TermSigns(expr), w))
              + Over(Len(expr), Gots(expr), Weighed(Len(expr), TermSigns(expr), w))
              + Here(expr) * p
         /\ DefinedConstant(expr, env) \in Int
         /\ Over(Len(expr), Anchored(expr, env),
                 Weighed(Len(expr), SectionSigns(expr, env), b)) \in Int
         /\ Over(Len(expr), Remaining(expr, env),
                 Weighed(Len(expr), TermSigns(expr), w)) \in Int
         /\ Over(Len(expr), Gots(expr), Weighed(Len(expr), TermSigns(expr), w)) \in Int
         /\ Here(expr) \in Int /\ Here(expr) * p \in Int
<1>1. PICK n : n = Len(expr)
  OBVIOUS
<1>2. n \in Nat /\ DOMAIN expr = 1 .. n /\ p \in Int /\ IsList(n, w) /\ IsList(n, b)
      /\ \A i \in 1 .. n : w[i] \in Int
  BY <1>1, WorthIsList DEF Sound
<1>3. PICK v : WithoutHere(expr, w, v)
  <2>1. PICK v : v = [i \in 1 .. n |-> IF expr[i].kind = "here" THEN 0 ELSE w[i]]
    OBVIOUS
  <2>2. v \in [1 .. n -> Int]
    BY <1>2, <2>1
  <2>3. IsList(Len(expr), v)
    BY <1>1, <1>2, <2>2 DEF IsList
  <2>4. \A i \in 1 .. Len(expr) : v[i] = IF expr[i].kind = "here" THEN 0 ELSE w[i]
    BY <1>1, <2>1
  <2>5. QED
    BY <2>3, <2>4 DEF WithoutHere
<1>4. Here(expr) \in Int
  <2>1. PICK z : z = [i \in 1 .. n |-> IF expr[i].kind = "here" THEN expr[i].sign ELSE 0]
    OBVIOUS
  <2>2. \A i \in 1 .. n : expr[i].sign \in Int
    BY <1>1 DEF Sound
  <2>3. z \in [1 .. n -> Int]
    BY <2>1, <2>2
  <2>4. QED
    BY <1>2, <2>1, <2>3, TotalIsInt DEF Here
<1>5. Here(expr) * p \in Int
  BY <1>2, <1>4, Multiply
<1>6. Total(Literals(expr)) \in Int
  <2>1. \A i \in 1 .. n : expr[i].kind = "int" => expr[i].sign * expr[i].value \in Int
    BY <1>1, Multiply DEF Sound
  <2>2. PICK z : z = Literals(expr)
    OBVIOUS
  <2>3. z \in [1 .. n -> Int]
    BY <1>2, <2>1, <2>2 DEF Literals
  <2>4. QED
    BY <1>2, <2>2, <2>3, TotalIsInt
<1>7. \A i \in Absolutes(expr, env) \union Labelled(expr, env) :
         i \in 1 .. Len(expr) /\ env[expr[i].name].value \in Int
  <2>1. ASSUME NEW i \in Absolutes(expr, env) \union Labelled(expr, env)
        PROVE  i \in 1 .. Len(expr)
    BY TermsAreFirst DEF Absolutes, Labelled
  <2>2. QED
    BY <2>1, TermsAreKinds
<1>8. /\ Total(Products(expr, env, Absolutes(expr, env))) \in Int
      /\ Total(Products(expr, env, Labelled(expr, env))) \in Int
  BY <1>7, ProductsAreInts
<1>9. IsList(n, TermSigns(expr)) /\ IsList(n, SectionSigns(expr, env))
  BY <1>1, CoefficientsAreInts
<1>10. /\ IsList(n, Weighed(n, TermSigns(expr), w))
       /\ IsList(n, Weighed(n, SectionSigns(expr, env), b))
  BY <1>2, <1>9, WeighedIsList
<1>11. PICK l \in Int, a \in Int, d \in Int, g \in Int, r \in Int, o \in Int, h \in Int :
          /\ l = Total(Literals(expr))
          /\ a = Total(Products(expr, env, Absolutes(expr, env)))
          /\ d = Total(Products(expr, env, Labelled(expr, env)))
          /\ g = Over(n, Anchored(expr, env), Weighed(n, SectionSigns(expr, env), b))
          /\ r = Over(n, Remaining(expr, env), Weighed(n, TermSigns(expr), w))
          /\ o = Over(n, Gots(expr), Weighed(n, TermSigns(expr), w))
          /\ h = Here(expr) * p
  BY <1>5, <1>6, <1>8, <1>10, OverIsInt
<1>12. Over(n, Terms(expr), Weighed(n, TermSigns(expr), v)) = a + d + g + r + o
  BY <1>1, <1>3, <1>11, TermsSplit
<1>13. LeafSum(expr, w) = l + (a + d + g + r + o) + h
  BY <1>1, <1>3, <1>11, <1>12, LeafSumSplits
<1>14. DefinedConstant(expr, env) = l + a + d
  BY <1>11 DEF DefinedConstant, AbsolutePart
<1>15. /\ LeafSum(expr, w) = DefinedConstant(expr, env) + g + r + o + h
       /\ DefinedConstant(expr, env) \in Int
  BY <1>11, <1>13, <1>14
<1>16. QED
  BY <1>1, <1>4, <1>11, <1>15

-----------------------------------------------------------------------------
(* Labels that stand for their sections.                                   *)

\* What stands at i: the leaf chosen, or the leaf itself.
Stands(choice, i) == IF i \in DOMAIN choice THEN choice[i] ELSE i

\* w at what stands there.
Moved(n, choice, w) == [i \in 1 .. n |-> w[Stands(choice, i)]]

LEMMA ChoicesStand ==
  ASSUME NEW expr, NEW env, Sound(expr, env), NEW c, c \in AnchorChoices(expr, env)
  PROVE  /\ DOMAIN c = Anchored(expr, env)
         /\ \A i \in Anchored(expr, env) :
               /\ i \in 1 .. Len(expr) /\ c[i] \in 1 .. Len(expr)
               /\ IsLabel(expr, env, i) /\ IsLabel(expr, env, c[i])
               /\ SectionAt(expr, env, c[i]) = SectionAt(expr, env, i)
               /\ env[expr[c[i]].name].value \in Int
         /\ \A i \in 1 .. Len(expr) : Stands(c, i) \in 1 .. Len(expr)
<1>1. DOMAIN c = Anchored(expr, env) /\ \A i \in Anchored(expr, env) : c[i] \in Group(expr, env, i)
  BY DEF AnchorChoices
<1>2. ASSUME NEW i \in Anchored(expr, env)
      PROVE  /\ i \in 1 .. Len(expr) /\ c[i] \in 1 .. Len(expr)
             /\ IsLabel(expr, env, i) /\ IsLabel(expr, env, c[i])
             /\ SectionAt(expr, env, c[i]) = SectionAt(expr, env, i)
             /\ env[expr[c[i]].name].value \in Int
  <2>1. i \in Labelled(expr, env)
    BY DEF Anchored
  <2>2. c[i] \in Labelled(expr, env) /\ SectionAt(expr, env, c[i]) = SectionAt(expr, env, i)
    BY <1>1 DEF Group, SectionAt
  <2>3. /\ i \in 1 .. Len(expr) /\ c[i] \in 1 .. Len(expr)
        /\ IsLabel(expr, env, i) /\ IsLabel(expr, env, c[i])
    BY <2>1, <2>2, LabelledAreLabels
  <2>4. env[expr[c[i]].name].value \in Int
    BY <2>2, TermsAreKinds
  <2>5. QED
    BY <2>2, <2>3, <2>4
<1>3. QED
  BY <1>1, <1>2 DEF Stands

\* The constant and the sections are what is left of the constant, and the
\* labels chosen for the sections.
LEMMA SectionsAtChoice ==
  ASSUME NEW expr, NEW env, Sound(expr, env), NEW w, NEW b, NEW p, Worth(expr, env, w, b, p),
         NEW c, c \in AnchorChoices(expr, env)
  PROVE  /\ Addend(expr, env, c) \in Int
         /\ DefinedConstant(expr, env)
            + Over(Len(expr), Anchored(expr, env),
                   Weighed(Len(expr), SectionSigns(expr, env), b))
            = Addend(expr, env, c)
              + Over(Len(expr), Anchored(expr, env),
                     Weighed(Len(expr), SectionSigns(expr, env), Moved(Len(expr), c, w)))
<1>1. PICK n, q, m, A : /\ n = Len(expr) /\ q = SectionSigns(expr, env)
                        /\ m = Moved(n, c, w) /\ A = Anchored(expr, env)
  OBVIOUS
<1>2. /\ n \in Nat /\ DOMAIN expr = 1 .. n /\ IsList(n, w) /\ IsList(n, b) /\ IsList(n, q)
      /\ \A i \in 1 .. n : w[i] \in Int /\ b[i] \in Int
      /\ \A i \in 1 .. n : q[i] = SectionSum(expr, env, i)
  <2>1. n \in Nat /\ DOMAIN expr = 1 .. n
    BY <1>1 DEF Sound
  <2>2. /\ IsList(n, w) /\ IsList(n, b)
        /\ \A i \in 1 .. n : w[i] \in Int /\ b[i] \in Int
    BY <1>1, WorthIsList
  <2>3. IsList(n, q) /\ \A i \in 1 .. n : q[i] = SectionSum(expr, env, i)
    BY <1>1, CoefficientsAreInts
  <2>4. QED
    BY <2>1, <2>2, <2>3
<1>3. /\ DOMAIN c = A
      /\ \A i \in A : /\ i \in 1 .. n /\ c[i] \in 1 .. n
                      /\ IsLabel(expr, env, i) /\ IsLabel(expr, env, c[i])
                      /\ SectionAt(expr, env, c[i]) = SectionAt(expr, env, i)
                      /\ env[expr[c[i]].name].value \in Int
      /\ \A i \in 1 .. n : Stands(c, i) \in 1 .. n
  BY <1>1, ChoicesStand
<1>4. IsList(n, m)
  <2>1. m \in [1 .. n -> Int]
    BY <1>1, <1>2, <1>3 DEF Moved
  <2>2. QED
    BY <1>2, <2>1 DEF IsList
<1>5. \A i \in A : m[i] = env[expr[c[i]].name].value + b[i]
  <2>1. ASSUME NEW i \in A
        PROVE  m[i] = env[expr[c[i]].name].value + b[i]
    <3>1. m[i] = w[c[i]]
      BY <1>1, <1>3 DEF Moved, Stands
    <3>2. w[c[i]] = env[expr[c[i]].name].value + b[c[i]]
      BY <1>1, <1>3 DEF Worth
    <3>3. b[c[i]] = b[i]
      BY <1>1, <1>3 DEF Worth
    <3>4. QED
      BY <3>1, <3>2, <3>3
  <2>2. QED
    BY <2>1
<1>6. PICK val : IsList(n, val) /\ \A i \in A : val[i] = env[expr[c[i]].name].value
  <2>1. PICK val : val = [i \in 1 .. n |-> IF i \in A THEN env[expr[c[i]].name].value ELSE 0]
    OBVIOUS
  <2>2. val \in [1 .. n -> Int]
    BY <1>3, <2>1
  <2>3. IsList(n, val)
    BY <1>2, <2>2 DEF IsList
  <2>4. \A i \in A : val[i] = env[expr[c[i]].name].value
    BY <1>3, <2>1
  <2>5. QED
    BY <2>3, <2>4
<1>7. PICK x : x = Weighed(n, q, m) /\ IsList(n, x) /\ \A i \in 1 .. n : x[i] = q[i] * m[i]
  BY <1>2, <1>4, WeighedIsList
<1>8. PICK y : y = Weighed(n, q, val) /\ IsList(n, y) /\ \A i \in 1 .. n : y[i] = q[i] * val[i]
  BY <1>2, <1>6, WeighedIsList
<1>9. PICK z : z = Weighed(n, q, b) /\ IsList(n, z) /\ \A i \in 1 .. n : z[i] = q[i] * b[i]
  BY <1>2, WeighedIsList
<1>10. AddsUp(n, A, y, z, x)
  <2>1. ASSUME NEW i \in 1 .. n, i \in A
        PROVE  x[i] = y[i] + z[i]
    <3>1. m[i] = val[i] + b[i]
      BY <1>5, <1>6, <2>1
    <3>2. q[i] \in Int /\ val[i] \in Int /\ b[i] \in Int
      BY <1>2, <1>6 DEF IsList
    <3>3. q[i] * (val[i] + b[i]) = q[i] * val[i] + q[i] * b[i]
      BY <3>2, Multiply
    <3>4. QED
      BY <1>7, <1>8, <1>9, <3>1, <3>3
  <2>2. QED
    BY <2>1 DEF AddsUp
<1>11. Over(n, A, x) = Over(n, A, y) + Over(n, A, z)
  BY <1>7, <1>8, <1>9, <1>10, OverPlus
<1>12. Addend(expr, env, c) = DefinedConstant(expr, env) - Over(n, A, y)
  <2>1. [i \in DOMAIN expr |->
            IF i \in DOMAIN c THEN SectionSum(expr, env, i) * env[expr[c[i]].name].value ELSE 0]
          = [i \in 1 .. n |-> IF i \in A THEN y[i] ELSE 0]
    BY <1>2, <1>3, <1>6, <1>8
  <2>2. QED
    BY <2>1 DEF Addend, Over
<1>13. DefinedConstant(expr, env) \in Int /\ Over(n, A, y) \in Int /\ Over(n, A, z) \in Int
  BY <1>8, <1>9, OverIsInt, LeafSumIs
<1>14. PICK d \in Int, k \in Int, l \in Int :
          d = DefinedConstant(expr, env) /\ k = Over(n, A, y) /\ l = Over(n, A, z)
  BY <1>13
<1>15. Addend(expr, env, c) = d - k /\ Over(n, A, x) = k + l
  BY <1>11, <1>12, <1>14
<1>16. Addend(expr, env, c) \in Int /\ d + l = Addend(expr, env, c) + Over(n, A, x)
  BY <1>14, <1>15
<1>17. QED
  BY <1>1, <1>7, <1>9, <1>14, <1>16

\* The coefficients of what is left.
Signs(expr, env) ==
    [i \in 1 .. Len(expr) |->
        IF i \in Anchored(expr, env) THEN SectionSum(expr, env, i) ELSE Coefficient(expr, i)]

\* What is left of the constant, what a relocation has to name, the @GOTs,
\* and the current locations.
LEMMA LeafSumAtChoice ==
  ASSUME NEW expr, NEW env, Sound(expr, env), NEW w, NEW b, NEW p, Worth(expr, env, w, b, p),
         NEW c, c \in AnchorChoices(expr, env)
  PROVE  /\ LeafSum(expr, w)
            = Addend(expr, env, c)
              + Over(Len(expr), DOMAIN Coefficients(expr, env),
                     Weighed(Len(expr), Signs(expr, env), Moved(Len(expr), c, w)))
              + Over(Len(expr), Gots(expr), Weighed(Len(expr), TermSigns(expr), w))
              + Here(expr) * p
         /\ Addend(expr, env, c) \in Int
         /\ IsList(Len(expr), Signs(expr, env)) /\ IsList(Len(expr), Moved(Len(expr), c, w))
<1>1. PICK n, q, s, t, m, A, R : /\ n = Len(expr) /\ q = SectionSigns(expr, env)
                                 /\ s = Signs(expr, env) /\ t = TermSigns(expr)
                                 /\ m = Moved(n, c, w)
                                 /\ A = Anchored(expr, env) /\ R = Remaining(expr, env)
  OBVIOUS
<1>2. /\ n \in Nat /\ IsList(n, w) /\ IsList(n, b) /\ IsList(n, q) /\ IsList(n, t)
      /\ \A i \in 1 .. n : w[i] \in Int /\ b[i] \in Int
      /\ \A i \in 1 .. n : q[i] = SectionSum(expr, env, i) /\ t[i] = Coefficient(expr, i)
  <2>1. n \in Nat
    BY <1>1 DEF Sound
  <2>2. /\ IsList(n, w) /\ IsList(n, b)
        /\ \A i \in 1 .. n : w[i] \in Int /\ b[i] \in Int
    BY <1>1, WorthIsList
  <2>3. IsList(n, q) /\ \A i \in 1 .. n : q[i] = SectionSum(expr, env, i)
    BY <1>1, CoefficientsAreInts
  <2>4. IsList(n, t) /\ \A i \in 1 .. n : t[i] = Coefficient(expr, i)
    BY <1>1, CoefficientsAreInts
  <2>5. QED
    BY <2>1, <2>2, <2>3, <2>4
<1>3. /\ DOMAIN c = A
      /\ \A i \in 1 .. n : Stands(c, i) \in 1 .. n
  BY <1>1, ChoicesStand
<1>4. IsList(n, m) /\ \A i \in 1 .. n : m[i] = w[Stands(c, i)]
  <2>1. m \in [1 .. n -> Int] /\ \A i \in 1 .. n : m[i] = w[Stands(c, i)]
    BY <1>1, <1>2, <1>3 DEF Moved
  <2>2. QED
    BY <1>2, <2>1 DEF IsList
<1>5. IsList(n, s) /\ \A i \in 1 .. n : s[i] = IF i \in A THEN q[i] ELSE t[i]
  <2>1. \A i \in 1 .. n : s[i] = IF i \in A THEN q[i] ELSE t[i]
    BY <1>1, <1>2 DEF Signs
  <2>2. \A i \in 1 .. n : q[i] \in Int /\ t[i] \in Int
    BY <1>2 DEF IsList
  <2>3. s \in [1 .. n -> Int]
    BY <1>1, <1>2, <2>1, <2>2 DEF Signs
  <2>4. QED
    BY <1>2, <2>1, <2>3 DEF IsList
<1>6. A \intersect R = {} /\ DOMAIN Coefficients(expr, env) = R \union A
  <2>1. A \subseteq Labelled(expr, env)
    BY <1>1 DEF Anchored
  <2>2. Labelled(expr, env) \intersect R = {}
    BY <1>1, TermsAreKinds
  <2>3. QED
    BY <1>1, <2>1, <2>2 DEF Coefficients
<1>7. PICK x : x = Weighed(n, s, m) /\ IsList(n, x) /\ \A i \in 1 .. n : x[i] = s[i] * m[i]
  BY <1>4, <1>5, WeighedIsList
<1>8. PICK y : y = Weighed(n, q, m) /\ IsList(n, y) /\ \A i \in 1 .. n : y[i] = q[i] * m[i]
  BY <1>2, <1>4, WeighedIsList
<1>9. PICK z : z = Weighed(n, t, w) /\ IsList(n, z) /\ \A i \in 1 .. n : z[i] = t[i] * w[i]
  BY <1>2, WeighedIsList
<1>10. Over(n, R \union A, x) = Over(n, R, x) + Over(n, A, x)
  <2>1. R \intersect A = {}
    BY <1>6
  <2>2. QED
    BY <1>7, <2>1, OverUnion
<1>11. Over(n, A, x) = Over(n, A, y)
  <2>1. SameAt(n, A, x, y)
    BY <1>5, <1>7, <1>8 DEF SameAt
  <2>2. QED
    BY <2>1, OverSame
<1>12. Over(n, R, x) = Over(n, R, z)
  <2>1. \A i \in 1 .. n : i \in R => i \notin A /\ Stands(c, i) = i
    BY <1>3, <1>6 DEF Stands
  <2>2. SameAt(n, R, x, z)
    BY <1>4, <1>5, <1>7, <1>9, <2>1 DEF SameAt
  <2>3. QED
    BY <2>2, OverSame
<1>13. /\ Addend(expr, env, c) \in Int
       /\ DefinedConstant(expr, env) + Over(n, A, Weighed(n, q, b))
            = Addend(expr, env, c) + Over(n, A, y)
  BY <1>1, <1>8, SectionsAtChoice
<1>14. /\ LeafSum(expr, w) = DefinedConstant(expr, env) + Over(n, A, Weighed(n, q, b))
                             + Over(n, R, z) + Over(n, Gots(expr), z) + Here(expr) * p
       /\ DefinedConstant(expr, env) \in Int /\ Over(n, A, Weighed(n, q, b)) \in Int
       /\ Over(n, R, z) \in Int /\ Over(n, Gots(expr), z) \in Int /\ Here(expr) * p \in Int
  BY <1>1, <1>9, LeafSumIs
<1>15. PICK d \in Int, k \in Int, r \in Int, o \in Int, h \in Int, a \in Int, l \in Int :
          /\ d = DefinedConstant(expr, env) /\ k = Over(n, A, Weighed(n, q, b))
          /\ r = Over(n, R, z) /\ o = Over(n, Gots(expr), z) /\ h = Here(expr) * p
          /\ a = Addend(expr, env, c) /\ l = Over(n, A, y)
  BY <1>8, <1>13, <1>14, OverIsInt
<1>16. /\ LeafSum(expr, w) = d + k + r + o + h
       /\ d + k = a + l
       /\ Over(n, R \union A, x) = r + l
  BY <1>10, <1>11, <1>12, <1>13, <1>14, <1>15
<1>17. LeafSum(expr, w) = a + Over(n, R \union A, x) + o + h
  BY <1>15, <1>16
<1>18. QED
  BY <1>1, <1>4, <1>5, <1>6, <1>7, <1>9, <1>13, <1>15, <1>17

-----------------------------------------------------------------------------
(* The first choice.                                                       *)

ComesFirst(S, c) ==
    \A d \in S : \/ c = d
                 \/ \E i \in DOMAIN c : c[i] < d[i] /\ \A j \in DOMAIN c : j < i => c[j] = d[j]

\* Among functions on two places at most there is one that comes first.
LEMMA LeastChoice ==
  ASSUME NEW n \in Nat, NEW p \in Nat, NEW q \in Nat, p <= q, NEW D, D \subseteq {p, q},
         NEW S, S # {}, S \subseteq [D -> 1 .. n]
  PROVE  \E c \in S : ComesFirst(S, c)
<1> DEFINE at(c, i) == IF i \in D THEN c[i] ELSE 0
<1>1. \A c \in S : /\ DOMAIN c = D /\ c = [i \in D |-> c[i]]
                   /\ \A i \in D : c[i] \in 1 .. n
  OBVIOUS
<1>2. \A c \in S, i \in {p, q} : at(c, i) \in Nat
  BY <1>1
<1>3. PICK m \in Nat : (\E c \in S : at(c, p) = m) /\ \A c \in S : m <= at(c, p)
  <2>1. { at(c, p) : c \in S } \in SUBSET Nat /\ { at(c, p) : c \in S } # {}
    BY <1>2
  <2> HIDE DEF at
  <2>2. PICK m \in { at(c, p) : c \in S } : \A k \in { at(c, p) : c \in S } : m <= k
    BY <2>1, LeastElement
  <2>3. QED
    BY <2>1, <2>2
<1>4. PICK T : T = { c \in S : at(c, p) = m }
  OBVIOUS
<1>5. PICK b \in T : \A c \in T : at(b, q) <= at(c, q)
  <2>1. { at(c, q) : c \in T } \in SUBSET Nat /\ { at(c, q) : c \in T } # {}
    BY <1>2, <1>3, <1>4
  <2> HIDE DEF at
  <2>2. PICK k \in { at(c, q) : c \in T } : \A l \in { at(c, q) : c \in T } : k <= l
    BY <2>1, LeastElement
  <2>3. QED
    BY <2>2
<1>6. ASSUME NEW d \in S, b # d
      PROVE  \E i \in DOMAIN b : b[i] < d[i] /\ \A j \in DOMAIN b : j < i => b[j] = d[j]
  <2>1. b \in S /\ at(b, p) = m /\ m <= at(d, p) /\ at(d, p) \in Nat
        /\ at(b, q) \in Nat /\ at(d, q) \in Nat /\ DOMAIN b = D
    BY <1>1, <1>2, <1>3, <1>4, <1>5
  <2>2. CASE at(b, p) < at(d, p)
    <3>1. p \in D /\ b[p] < d[p]
      BY <2>2
    <3>2. \A j \in D : ~ (j < p)
      OBVIOUS
    <3>3. QED
      BY <2>1, <3>1, <3>2
  <2>3. CASE at(b, p) = at(d, p)
    <3>1. d \in T /\ at(b, q) <= at(d, q)
      BY <1>4, <1>5, <2>1, <2>3
    <3>2. CASE at(b, q) < at(d, q)
      <4>1. q \in D /\ b[q] < d[q]
        BY <3>2
      <4>2. \A j \in D : j < q => b[j] = d[j]
        BY <2>3
      <4>3. QED
        BY <2>1, <4>1, <4>2
    <3>3. CASE at(b, q) = at(d, q)
      <4>1. \A i \in D : b[i] = d[i]
        BY <2>3, <3>3
      <4>2. b = d
        <5>1. b = [i \in D |-> b[i]] /\ d = [i \in D |-> d[i]]
          BY <1>1, <2>1
        <5>2. [i \in D |-> b[i]] = [i \in D |-> d[i]]
          BY <4>1
        <5>3. QED
          BY <5>1, <5>2
      <4>3. QED
        BY <1>6, <4>2
    <3>4. QED
      BY <2>1, <3>1, <3>2, <3>3
  <2>4. QED
    BY <2>1, <2>2, <2>3
<1>7. b \in S
  BY <1>4
<1>8. QED
  BY <1>6, <1>7 DEF ComesFirst

\* A relocation that can be represented has places for its first choice.
LEMMA FirstAnchorIs ==
  ASSUME NEW expr, NEW env, Sound(expr, env), Supported(Coefficients(expr, env)),
         Anchors(expr, env) # {}
  PROVE  /\ FirstAnchor(Anchors(expr, env)) \in AnchorChoices(expr, env)
         /\ Fits(Addend(expr, env, FirstAnchor(Anchors(expr, env))))
<1>1. PICK n \in Nat : n = Len(expr)
  BY DEF Sound
<1>2. PICK S : S = Anchors(expr, env)
  OBVIOUS
<1>3. S # {} /\ S \subseteq [Anchored(expr, env) -> 1 .. n]
  <2>1. \A i \in Labelled(expr, env) : i \in 1 .. n
    BY <1>1, LabelledAreLabels
  <2>2. \A c \in S : c \in [Anchored(expr, env) -> Labelled(expr, env)]
    BY <1>2 DEF Anchors, AnchorChoices
  <2>3. \A c \in S : c \in [Anchored(expr, env) -> 1 .. n]
    BY <2>1, <2>2
  <2>4. QED
    BY <1>2, <2>3
<1>4. Anchored(expr, env) \subseteq DOMAIN Coefficients(expr, env)
  BY DEF Coefficients
<1>5. DOMAIN Coefficients(expr, env) \subseteq 1 .. n
  <2>1. Terms(expr) \subseteq 1 .. n
    BY <1>1, TermsAreFirst
  <2>2. QED
    BY <2>1 DEF Coefficients, Anchored, Labelled, Remaining
<1>6. PICK p \in Nat, q \in Nat : p <= q /\ Anchored(expr, env) \subseteq {p, q}
  <2>1. CASE DOMAIN Coefficients(expr, env) = {}
    <3>1. Anchored(expr, env) \subseteq {0, 0} /\ 0 \in Nat /\ 0 <= 0
      BY <1>4, <2>1
    <3>2. QED
      BY <3>1
  <2>2. CASE DOMAIN Coefficients(expr, env) # {}
    <3>1. PICK x \in 1 .. n, y \in 1 .. n : DOMAIN Coefficients(expr, env) \subseteq {x, y}
      BY <1>5, <2>2 DEF Supported
    <3>2. x \in Nat /\ y \in Nat /\ (x <= y \/ y <= x)
      OBVIOUS
    <3>3. Anchored(expr, env) \subseteq {x, y} /\ Anchored(expr, env) \subseteq {y, x}
      BY <1>4, <3>1
    <3>4. QED
      BY <3>2, <3>3
  <2>3. QED
    BY <2>1, <2>2
<1>7. \E c \in S : ComesFirst(S, c)
  <2>1. PICK D : D = Anchored(expr, env)
    OBVIOUS
  <2>2. D \subseteq {p, q} /\ S \subseteq [D -> 1 .. n]
    BY <1>3, <1>6, <2>1
  <2>3. QED
    BY <1>3, <1>6, <2>2, LeastChoice
<1>8. FirstAnchor(S) \in S
  BY <1>7, Zenon DEF FirstAnchor, ComesFirst
<1>9. QED
  BY <1>2, <1>8 DEF Anchors

-----------------------------------------------------------------------------
(* What classification returns.                                            *)

\* Symbol plus - symbol minus + addend, where the symbols are leaves of the
\* expression.
Named(expr, i, kind, name) ==
    i \in 1 .. Len(expr) /\ expr[i].kind = kind /\ expr[i].name = name

Plus(expr, w, symbol, addend) ==
    \E i \in 1 .. Len(expr) : /\ Named(expr, i, "sym", symbol)
                              /\ LeafSum(expr, w) = addend + w[i]

Minus(expr, w, minuend, subtrahend, addend) ==
    \E i, j \in 1 .. Len(expr) : /\ Named(expr, i, "sym", minuend)
                                 /\ Named(expr, j, "sym", subtrahend)
                                 /\ LeafSum(expr, w) = addend + w[i] - w[j]

PlusGot(expr, w, p, symbol, addend, pcrel) ==
    \E i \in 1 .. Len(expr) :
        /\ Named(expr, i, "got", symbol)
        /\ Gots(expr) = {i} /\ Coefficient(expr, i) = 1
        /\ Here(expr) = IF pcrel THEN -1 ELSE 0
        /\ LeafSum(expr, w) = addend + w[i] + (IF pcrel THEN -p ELSE 0)

\* The expression comes to what the result comes to.
ComesTo(expr, w, p, result) ==
    /\ result.kind \in {"absolute", "unsigned"} => LeafSum(expr, w) = result.value
    /\ result.kind = "relocatable" => Plus(expr, w, result.symbol, result.addend)
    /\ result.kind = "difference" =>
          Minus(expr, w, result.minuend, result.subtrahend, result.addend)
    /\ result.kind = "got" => PlusGot(expr, w, p, result.symbol, result.addend, result.pcrel)

\* Sums over one place, and over two.
LEMMA OverOne ==
  ASSUME NEW n, NEW f, IsList(n, f), NEW i \in 1 .. n
  PROVE  Over(n, {i}, f) = f[i]
<1>1. n \in Nat /\ f \in [1 .. n -> Int] /\ f[i] \in Int
  BY DEF IsList
<1>2. PICK c \in Int : c = f[i]
  BY <1>1
<1>3. PICK h : h = [k \in 1 .. n |-> IF k \in {i} THEN f[k] ELSE 0]
  OBVIOUS
<1>4. h \in [1 .. n -> Int] /\ \A k \in 1 .. n : h[k] = IF k = i THEN c ELSE 0
  BY <1>1, <1>2, <1>3
<1>5. Total(h) = c
  BY <1>1, <1>4, TotalSingle
<1>6. QED
  BY <1>2, <1>3, <1>5 DEF Over

LEMMA OverTwo ==
  ASSUME NEW n, NEW f, IsList(n, f), NEW i \in 1 .. n, NEW j \in 1 .. n, i # j
  PROVE  Over(n, {i, j}, f) = f[i] + f[j]
<1>1. {i} \intersect {j} = {} /\ {i, j} = {i} \union {j}
  OBVIOUS
<1>2. Over(n, {i, j}, f) = Over(n, {i}, f) + Over(n, {j}, f)
  BY <1>1, OverUnion
<1>3. QED
  BY <1>2, OverOne

LEMMA OverNone ==
  ASSUME NEW n, NEW f, IsList(n, f)
  PROVE  Over(n, {}, f) = 0
<1>1. n \in Nat
  BY DEF IsList
<1>2. QED
  BY <1>1, OverZero

\* An unsigned literal is the expression.
LEMMA UnsignedMeans ==
  ASSUME NEW expr, NEW env, Sound(expr, env), NEW w, NEW b, NEW p, Worth(expr, env, w, b, p),
         Len(expr) = 1, HasUnsigned(expr), expr[1].sign = 1
  PROVE  LeafSum(expr, w) = expr[1].value
<1>1. DOMAIN expr = 1 .. 1 /\ 1 \in 1 .. 1
  BY DEF Sound
<1>2. expr[1].kind = "int"
  <2>1. \A i \in 1 .. 1 : i = 1
    OBVIOUS
  <2>2. QED
    BY <1>1, <2>1 DEF HasUnsigned
<1>3. expr[1].value \in Int /\ w[1] = expr[1].value
  BY <1>2 DEF Sound, Worth
<1>4. PICK c \in Int : c = expr[1].value
  BY <1>3
<1>5. PICK h : h = [i \in 1 .. Len(expr) |-> expr[i].sign * w[i]]
  OBVIOUS
<1>6. h[1] = 1 * c /\ 1 * c = c
  BY <1>1, <1>3, <1>4, <1>5, Multiply
<1>7. h \in [1 .. 1 -> Int] /\ \A i \in 1 .. 1 : h[i] = IF i = 1 THEN c ELSE 0
  <2>1. \A i \in 1 .. 1 : i = 1
    OBVIOUS
  <2>2. h = [i \in 1 .. 1 |-> h[i]]
    BY <1>5
  <2>3. QED
    BY <1>6, <2>1, <2>2
<1>8. Total(h) = c
  <2>1. PICK n \in Nat : n = 1
    OBVIOUS
  <2>2. PICK k \in 1 .. n : k = 1
    BY <2>1
  <2>3. h \in [1 .. n -> Int] /\ \A i \in 1 .. n : h[i] = IF i = k THEN c ELSE 0
    BY <1>7, <2>1, <2>2
  <2>4. QED
    BY <2>3, TotalSingle
<1>9. QED
  BY <1>4, <1>5, <1>8 DEF LeafSum

\* An @GOT, the current location, and a constant.
LEMMA GotMeans ==
  ASSUME NEW expr, NEW env, Sound(expr, env), NEW w, NEW b, NEW p, Worth(expr, env, w, b, p)
  PROVE  ComesTo(expr, w, p, ClassifyGot(expr, env))
<1>1. PICK r : r = ClassifyGot(expr, env)
  OBVIOUS
<1>2. SUFFICES ASSUME r # Illegal, r # Overflow
               PROVE  ComesTo(expr, w, p, r)
  BY <1>1 DEF ComesTo, Illegal, Overflow
<1>3. /\ DOMAIN Coefficients(expr, env) = {}
      /\ \E i \in DOMAIN expr : Gots(expr) = {i} /\ Coefficient(expr, i) = 1
      /\ Here(expr) \in {0, -1}
      /\ r = [kind |-> "got", symbol |-> expr[CHOOSE i \in Gots(expr) : TRUE].name,
              addend |-> DefinedConstant(expr, env), pcrel |-> Here(expr) = -1]
  BY <1>1, <1>2 DEF ClassifyGot
<1>4. PICK i \in DOMAIN expr : Gots(expr) = {i} /\ Coefficient(expr, i) = 1
  BY <1>3
<1>5. i \in 1 .. Len(expr) /\ expr[i].kind = "got" /\ r.symbol = expr[i].name
  <2>1. (CHOOSE k \in Gots(expr) : TRUE) = i
    BY <1>4
  <2>2. expr[i].kind = "got"
    BY <1>4 DEF Gots
  <2>3. QED
    BY <1>3, <2>1, <2>2 DEF Sound
<1>6. Anchored(expr, env) = {} /\ Remaining(expr, env) = {}
  BY <1>3 DEF Coefficients
<1>7. PICK n, t, q : n = Len(expr) /\ t = TermSigns(expr) /\ q = SectionSigns(expr, env)
  OBVIOUS
<1>8. /\ IsList(n, w) /\ IsList(n, b) /\ p \in Int /\ w[i] \in Int
      /\ IsList(n, t) /\ IsList(n, q) /\ t[i] = Coefficient(expr, i)
  <2>1. IsList(n, w) /\ IsList(n, b) /\ p \in Int /\ w[i] \in Int
    BY <1>5, <1>7, WorthIsList
  <2>2. IsList(n, t) /\ IsList(n, q) /\ t[i] = Coefficient(expr, i)
    BY <1>5, <1>7, CoefficientsAreInts
  <2>3. QED
    BY <2>1, <2>2
<1>9. PICK x, y : /\ x = Weighed(n, t, w) /\ IsList(n, x) /\ x[i] = t[i] * w[i]
                  /\ y = Weighed(n, q, b) /\ IsList(n, y)
  BY <1>5, <1>7, <1>8, WeighedIsList
<1>10. x[i] = w[i]
  BY <1>4, <1>8, <1>9, Multiply
<1>11. Over(n, {i}, x) = w[i] /\ Over(n, {}, x) = 0 /\ Over(n, {}, y) = 0
  BY <1>5, <1>7, <1>9, <1>10, OverOne, OverNone
<1>12. /\ LeafSum(expr, w) = DefinedConstant(expr, env) + Over(n, {}, y) + Over(n, {}, x)
                             + Over(n, {i}, x) + Here(expr) * p
       /\ DefinedConstant(expr, env) \in Int
  <2>1. /\ LeafSum(expr, w)
            = DefinedConstant(expr, env)
              + Over(Len(expr), Anchored(expr, env),
                     Weighed(Len(expr), SectionSigns(expr, env), b))
              + Over(Len(expr), Remaining(expr, env), Weighed(Len(expr), TermSigns(expr), w))
              + Over(Len(expr), Gots(expr), Weighed(Len(expr), TermSigns(expr), w))
              + Here(expr) * p
        /\ DefinedConstant(expr, env) \in Int
    BY LeafSumIs
  <2>2. /\ Weighed(Len(expr), SectionSigns(expr, env), b) = y
        /\ Weighed(Len(expr), TermSigns(expr), w) = x
    BY <1>7, <1>9
  <2>3. QED
    BY <1>4, <1>6, <1>7, <2>1, <2>2
<1>13. LeafSum(expr, w) = DefinedConstant(expr, env) + w[i] + Here(expr) * p
  <2>1. Here(expr) * p \in Int
    BY LeafSumIs
  <2>2. PICK d \in Int, h \in Int, v \in Int :
           d = DefinedConstant(expr, env) /\ h = Here(expr) * p /\ v = w[i]
    BY <1>8, <1>12, <2>1
  <2>3. LeafSum(expr, w) = d + 0 + 0 + v + h
    BY <1>11, <1>12, <2>2
  <2>4. QED
    BY <2>2, <2>3
<1>14. Here(expr) * p = IF r.pcrel THEN -p ELSE 0
  BY <1>3, <1>8, Multiply
<1>15. PlusGot(expr, w, p, r.symbol, r.addend, r.pcrel)
  BY <1>3, <1>4, <1>5, <1>13, <1>14 DEF PlusGot, Named
<1>16. QED
  BY <1>3, <1>15 DEF ComesTo

\* What stands at a place that a relocation has to name is a symbol.
LEMMA StandsForSymbol ==
  ASSUME NEW expr, NEW env, Sound(expr, env), NEW c, c \in AnchorChoices(expr, env),
         NEW i \in DOMAIN Coefficients(expr, env)
  PROVE  /\ i \in 1 .. Len(expr) /\ Stands(c, i) \in 1 .. Len(expr)
         /\ expr[Stands(c, i)].kind = "sym"
         /\ Coefficients(expr, env)[i] = Signs(expr, env)[i]
<1>1. /\ DOMAIN c = Anchored(expr, env)
      /\ \A k \in Anchored(expr, env) : k \in 1 .. Len(expr) /\ c[k] \in 1 .. Len(expr)
                                        /\ IsLabel(expr, env, c[k])
  BY ChoicesStand
<1>2. i \in Remaining(expr, env) \union Anchored(expr, env)
  BY DEF Coefficients
<1>3. CASE i \in Anchored(expr, env)
  <2>1. i \in 1 .. Len(expr) /\ c[i] \in 1 .. Len(expr) /\ Stands(c, i) = c[i]
        /\ expr[c[i]].kind = "sym"
    BY <1>1, <1>3 DEF Stands, IsLabel
  <2>2. Coefficients(expr, env)[i] = SectionSum(expr, env, i)
    BY <1>2, <1>3 DEF Coefficients
  <2>3. QED
    BY <1>3, <2>1, <2>2 DEF Signs
<1>4. CASE i \notin Anchored(expr, env)
  <2>1. i \in Terms(expr) /\ expr[i].kind = "sym"
    BY <1>2, <1>4 DEF Remaining
  <2>2. i \in 1 .. Len(expr)
    BY <2>1, TermsAreFirst
  <2>3. Stands(c, i) = i
    BY <1>1, <1>4 DEF Stands
  <2>4. Coefficients(expr, env)[i] = Coefficient(expr, i)
    BY <1>2, <1>4 DEF Coefficients
  <2>5. QED
    BY <1>4, <2>1, <2>2, <2>3, <2>4 DEF Signs
<1>5. QED
  BY <1>3, <1>4

\* What is left of the constant, and the symbols that stand for what a
\* relocation has to name.
LEMMA PlainSum ==
  ASSUME NEW expr, NEW env, Sound(expr, env), NEW w, NEW b, NEW p, Worth(expr, env, w, b, p),
         Gots(expr) = {}, Here(expr) = 0, NEW c, c \in AnchorChoices(expr, env)
  PROVE  \E x :
            /\ IsList(Len(expr), x)
            /\ LeafSum(expr, w)
                 = Addend(expr, env, c) + Over(Len(expr), DOMAIN Coefficients(expr, env), x)
            /\ Addend(expr, env, c) \in Int
            /\ \A i \in DOMAIN Coefficients(expr, env) :
                  /\ i \in 1 .. Len(expr) /\ Stands(c, i) \in 1 .. Len(expr)
                  /\ expr[Stands(c, i)].kind = "sym"
                  /\ x[i] = Coefficients(expr, env)[i] * w[Stands(c, i)]
                  /\ w[Stands(c, i)] \in Int
<1>1. PICK a, n, s, m, k, terms :
         /\ a = Addend(expr, env, c) /\ n = Len(expr) /\ s = Signs(expr, env)
         /\ m = Moved(n, c, w) /\ k = Coefficients(expr, env) /\ terms = DOMAIN k
  OBVIOUS
<1>2. PICK x : x = Weighed(n, s, m) /\ IsList(n, x) /\ \A i \in 1 .. n : x[i] = s[i] * m[i]
  <2>1. IsList(n, s) /\ IsList(n, m)
    BY <1>1, LeafSumAtChoice
  <2>2. QED
    BY <2>1, WeighedIsList
<1>3. LeafSum(expr, w) = a + Over(n, terms, x) /\ a \in Int
  <2>1. /\ LeafSum(expr, w)
            = Addend(expr, env, c)
              + Over(Len(expr), DOMAIN Coefficients(expr, env),
                     Weighed(Len(expr), Signs(expr, env), Moved(Len(expr), c, w)))
              + Over(Len(expr), Gots(expr), Weighed(Len(expr), TermSigns(expr), w))
              + Here(expr) * p
        /\ Addend(expr, env, c) \in Int
    BY LeafSumAtChoice
  <2>2. Over(Len(expr), Gots(expr), Weighed(Len(expr), TermSigns(expr), w)) = 0
    <3>1. IsList(Len(expr), TermSigns(expr)) /\ IsList(Len(expr), w)
      BY CoefficientsAreInts, WorthIsList
    <3>2. IsList(Len(expr), Weighed(Len(expr), TermSigns(expr), w))
      BY <3>1, WeighedIsList
    <3>3. QED
      BY <3>2, OverNone
  <2>3. Here(expr) * p = 0
    <3>1. p \in Int
      BY WorthIsList
    <3>2. QED
      BY <3>1, Multiply
  <2>4. PICK o \in Int : o = Over(n, terms, x)
    BY <1>2, OverIsInt
  <2>5. LeafSum(expr, w) = a + o + 0 + 0 /\ a \in Int
    BY <1>1, <1>2, <2>1, <2>2, <2>3, <2>4
  <2>6. QED
    BY <2>4, <2>5
<1>4. ASSUME NEW i \in terms
      PROVE  /\ i \in 1 .. n /\ Stands(c, i) \in 1 .. n /\ expr[Stands(c, i)].kind = "sym"
             /\ x[i] = k[i] * w[Stands(c, i)] /\ w[Stands(c, i)] \in Int
  <2>1. /\ i \in 1 .. n /\ Stands(c, i) \in 1 .. n /\ expr[Stands(c, i)].kind = "sym"
        /\ k[i] = s[i]
    BY <1>1, StandsForSymbol
  <2>2. m[i] = w[Stands(c, i)]
    BY <1>1, <2>1 DEF Moved
  <2>3. w[Stands(c, i)] \in Int
    BY <1>1, <2>1, WorthIsList
  <2>4. QED
    BY <1>2, <2>1, <2>2, <2>3
<1>5. QED
  BY <1>1, <1>2, <1>3, <1>4

\* A constant, and the sections and names that stand for nothing.
LEMMA RepresentMeans ==
  ASSUME NEW expr, NEW env, Sound(expr, env), NEW w, NEW b, NEW p, Worth(expr, env, w, b, p),
         Supported(Coefficients(expr, env)), Gots(expr) = {}, Here(expr) = 0,
         NEW c, c \in AnchorChoices(expr, env)
  PROVE  ComesTo(expr, w, p,
                 Represent(expr, Coefficients(expr, env), c, Addend(expr, env, c)))
<1>1. PICK a, n, k, terms :
         /\ a = Addend(expr, env, c) /\ n = Len(expr)
         /\ k = Coefficients(expr, env) /\ terms = DOMAIN k
  OBVIOUS
<1>2. PICK x : /\ IsList(n, x)
               /\ LeafSum(expr, w) = a + Over(n, terms, x) /\ a \in Int
               /\ \A i \in terms :
                     /\ i \in 1 .. n /\ Stands(c, i) \in 1 .. n
                     /\ expr[Stands(c, i)].kind = "sym"
                     /\ x[i] = k[i] * w[Stands(c, i)] /\ w[Stands(c, i)] \in Int
  BY <1>1, PlainSum
<1>3. LeafSum(expr, w) = a + Over(n, terms, x) /\ a \in Int
  BY <1>2
<1>4. ASSUME NEW i \in terms
      PROVE  /\ i \in 1 .. n /\ Stands(c, i) \in 1 .. n /\ expr[Stands(c, i)].kind = "sym"
             /\ x[i] = k[i] * w[Stands(c, i)] /\ w[Stands(c, i)] \in Int
  BY <1>2
<1> DEFINE name(i)  == expr[IF i \in DOMAIN c THEN c[i] ELSE i].name
           plus     == CHOOSE i \in terms : k[i] = 1
           minus    == CHOOSE i \in terms : i # plus
<1>5. PICK r : r = Represent(expr, k, c, a)
  OBVIOUS
<1>6. r = CASE terms = {}     -> [kind |-> "absolute", value |-> a]
            [] terms = {plus} -> [kind |-> "relocatable", symbol |-> name(plus), addend |-> a]
            [] OTHER          -> [kind |-> "difference", minuend |-> name(plus),
                                  subtrahend |-> name(minus), addend |-> a]
  BY <1>1, <1>5 DEF Represent
<1>7. \A i : name(i) = expr[Stands(c, i)].name
  BY DEF Stands
<1>8. CASE terms = {}
  <2>1. Over(n, terms, x) = 0
    BY <1>2, <1>8, OverNone
  <2>2. LeafSum(expr, w) = a
    BY <1>3, <2>1
  <2>3. r.kind = "absolute" /\ r.value = a
    BY <1>6, <1>8
  <2>4. QED
    BY <1>1, <1>5, <2>2, <2>3 DEF ComesTo
<1>9. CASE terms # {}
  <2>1. PICK i \in terms : /\ k[i] = 1
                           /\ \/ terms = {i}
                              \/ \E j \in terms : terms = {i, j} /\ k[j] = -1
    BY <1>1, <1>9 DEF Supported
  <2>2. plus = i
    <3>1. \A j \in terms : k[j] = 1 => j = i
      BY <2>1
    <3>2. QED
      BY <2>1, <3>1
  <2>3. x[i] = w[Stands(c, i)] /\ w[Stands(c, i)] \in Int
    BY <1>4, <2>1, Multiply
  <2>4. CASE terms = {i}
    <3>1. Over(n, terms, x) = w[Stands(c, i)]
      BY <1>2, <1>4, <2>3, <2>4, OverOne
    <3>2. LeafSum(expr, w) = a + w[Stands(c, i)]
      BY <1>3, <3>1
    <3>3. r = [kind |-> "relocatable", symbol |-> name(i), addend |-> a]
      <4>1. terms # {} /\ terms = {plus}
        BY <2>2, <2>4
      <4> HIDE DEF plus, minus, name
      <4>2. QED
        BY <1>6, <2>2, <4>1
    <3>4. r.symbol = expr[Stands(c, i)].name /\ r.kind = "relocatable" /\ r.addend = a
      BY <1>7, <3>3
    <3>5. Plus(expr, w, r.symbol, r.addend)
      BY <1>1, <1>4, <2>1, <3>2, <3>4 DEF Plus, Named
    <3>6. QED
      BY <1>1, <1>5, <3>4, <3>5 DEF ComesTo
  <2>5. CASE terms # {i}
    <3>1. PICK j \in terms : terms = {i, j} /\ k[j] = -1 /\ j # i
      BY <2>1, <2>5
    <3>2. minus = j
      BY <2>2, <3>1
    <3>3. x[j] = -w[Stands(c, j)] /\ w[Stands(c, j)] \in Int
      BY <1>4, <3>1, Multiply
    <3>4. Over(n, terms, x) = x[i] + x[j]
      BY <1>2, <1>4, <2>1, <3>1, OverTwo
    <3>5. LeafSum(expr, w) = a + w[Stands(c, i)] - w[Stands(c, j)]
      BY <1>3, <2>3, <3>3, <3>4
    <3>6. r = [kind |-> "difference", minuend |-> name(i), subtrahend |-> name(j),
               addend |-> a]
      <4>1. terms # {} /\ terms # {plus}
        BY <2>2, <2>5
      <4> HIDE DEF plus, minus, name
      <4>2. QED
        BY <1>6, <2>2, <3>2, <4>1
    <3>7. /\ r.minuend = expr[Stands(c, i)].name /\ r.subtrahend = expr[Stands(c, j)].name
          /\ r.kind = "difference" /\ r.addend = a
      BY <1>7, <3>6
    <3>8. Minus(expr, w, r.minuend, r.subtrahend, r.addend)
      <4>1. /\ Stands(c, i) \in 1 .. Len(expr) /\ Stands(c, j) \in 1 .. Len(expr)
            /\ Named(expr, Stands(c, i), "sym", r.minuend)
            /\ Named(expr, Stands(c, j), "sym", r.subtrahend)
        BY <1>1, <1>4, <2>1, <3>1, <3>7 DEF Named
      <4>2. QED
        BY <3>5, <3>7, <4>1 DEF Minus
    <3>9. QED
      BY <1>1, <1>5, <3>7, <3>8 DEF ComesTo
  <2>6. QED
    BY <2>4, <2>5
<1>10. QED
  BY <1>8, <1>9

\* Whatever the sections' addresses and those of the names that stand for
\* nothing, the expression comes to what it is classified as.
LEMMA ClassifyMeans ==
  ASSUME NEW expr, NEW env, Sound(expr, env), NEW w, NEW b, NEW p, Worth(expr, env, w, b, p)
  PROVE  ComesTo(expr, w, p, Classify(expr, env))
<1>1. ComesTo(expr, w, p, Overflow) /\ ComesTo(expr, w, p, Illegal)
  BY DEF ComesTo, Overflow, Illegal
<1>2. CASE Len(expr) = 1 /\ HasUnsigned(expr) /\ expr[1].sign = 1
  <2>1. Classify(expr, env) = [kind |-> "unsigned", value |-> expr[1].value]
    BY <1>2 DEF Classify
  <2>2. LeafSum(expr, w) = expr[1].value
    BY <1>2, UnsignedMeans
  <2>3. QED
    BY <2>1, <2>2 DEF ComesTo
<1>3. ComesTo(expr, w, p, ClassifyGot(expr, env))
  BY GotMeans
<1>4. ASSUME Gots(expr) = {}, Here(expr) = 0
      PROVE  ComesTo(expr, w, p, ClassifyPlain(expr, env))
  <2>1. CASE ~ Supported(Coefficients(expr, env)) \/ Anchors(expr, env) = {}
    BY <1>1, <2>1 DEF ClassifyPlain
  <2>2. CASE Supported(Coefficients(expr, env)) /\ Anchors(expr, env) # {}
    <3>1. PICK c : c = FirstAnchor(Anchors(expr, env))
      OBVIOUS
    <3>2. c \in AnchorChoices(expr, env)
      BY <2>2, <3>1, FirstAnchorIs
    <3>3. ClassifyPlain(expr, env)
            = Represent(expr, Coefficients(expr, env), c, Addend(expr, env, c))
      BY <2>2, <3>1 DEF ClassifyPlain
    <3>4. QED
      BY <1>4, <2>2, <3>2, <3>3, RepresentMeans
  <2>3. QED
    BY <2>1, <2>2
<1>5. \/ Len(expr) = 1 /\ HasUnsigned(expr) /\ expr[1].sign = 1
      \/ Classify(expr, env) \in {Overflow, Illegal, ClassifyGot(expr, env)}
      \/ /\ Gots(expr) = {} /\ Here(expr) = 0
         /\ Classify(expr, env) = ClassifyPlain(expr, env)
  BY DEF Classify
<1>6. QED
  BY <1>1, <1>2, <1>3, <1>4, <1>5

-----------------------------------------------------------------------------
(* Sections and symbols that are moved.                                    *)

\* d[i] is how far the i-th leaf moves when the section of label i moves by
\* e[i], and the current location by q.
Shift(expr, env, d, e, q) ==
    /\ IsList(Len(expr), d) /\ IsList(Len(expr), e) /\ q \in Int
    /\ \A i \in 1 .. Len(expr) :
          /\ expr[i].kind = "int" => d[i] = 0
          /\ expr[i].kind = "here" => d[i] = q
          /\ IsAbsolute(expr, env, i) => d[i] = 0
          /\ IsLabel(expr, env, i) => d[i] = e[i]
    /\ \A i, j \in 1 .. Len(expr) : SameTerm(expr[i], expr[j]) => d[i] = d[j]
    /\ \A i, j \in { k \in 1 .. Len(expr) : IsLabel(expr, env, k) } :
          SectionAt(expr, env, i) = SectionAt(expr, env, j) => e[i] = e[j]

LEMMA SumOfLists ==
  ASSUME NEW n, NEW f, NEW g, IsList(n, f), IsList(n, g)
  PROVE  \E h : IsList(n, h) /\ AddsUp(n, 1 .. n, f, g, h)
<1>1. PICK h : h = [i \in 1 .. n |-> f[i] + g[i]]
  OBVIOUS
<1>2. n \in Nat /\ \A i \in 1 .. n : f[i] + g[i] \in Int
  BY DEF IsList
<1>3. h \in [1 .. n -> Int]
  BY <1>1, <1>2
<1>4. IsList(n, h)
  BY <1>2, <1>3 DEF IsList
<1>5. AddsUp(n, 1 .. n, f, g, h)
  BY <1>1 DEF AddsUp
<1>6. QED
  BY <1>4, <1>5

LEMMA ShiftIsWorth ==
  ASSUME NEW expr, NEW env, Sound(expr, env), NEW w, NEW b, NEW p, Worth(expr, env, w, b, p),
         NEW d, NEW e, NEW q, Shift(expr, env, d, e, q)
  PROVE  \E v, a : /\ Worth(expr, env, v, a, p + q)
                   /\ AddsUp(Len(expr), 1 .. Len(expr), w, d, v)
                   /\ AddsUp(Len(expr), 1 .. Len(expr), b, e, a)
<1>1. PICK n : n = Len(expr)
  OBVIOUS
<1>2. IsList(n, w) /\ IsList(n, b) /\ p \in Int
  BY <1>1, WorthIsList
<1>3. IsList(n, d) /\ IsList(n, e) /\ q \in Int
  BY <1>1 DEF Shift
<1>4. PICK v : IsList(n, v) /\ AddsUp(n, 1 .. n, w, d, v)
  BY <1>2, <1>3, SumOfLists
<1>5. PICK a : IsList(n, a) /\ AddsUp(n, 1 .. n, b, e, a)
  BY <1>2, <1>3, SumOfLists
<1>6. /\ \A i \in 1 .. n : v[i] = w[i] + d[i] /\ a[i] = b[i] + e[i]
      /\ \A i \in 1 .. n : w[i] \in Int /\ d[i] \in Int /\ b[i] \in Int /\ e[i] \in Int
  BY <1>2, <1>3, <1>4, <1>5 DEF AddsUp, IsList
<1>7. v \in [1 .. n -> Int] /\ a \in [1 .. n -> Int] /\ p + q \in Int
  BY <1>2, <1>3, <1>4, <1>5 DEF IsList
<1>8. ASSUME NEW i \in 1 .. n
      PROVE  /\ expr[i].kind = "int" => v[i] = expr[i].value
             /\ expr[i].kind = "here" => v[i] = p + q
             /\ IsAbsolute(expr, env, i) => v[i] = env[expr[i].name].value
             /\ IsLabel(expr, env, i) => v[i] = env[expr[i].name].value + a[i]
  <2>1. CASE expr[i].kind = "int"
    <3>1. w[i] = expr[i].value /\ d[i] = 0
      BY <1>1, <2>1 DEF Worth, Shift
    <3>2. QED
      BY <1>6, <2>1, <3>1 DEF IsAbsolute, IsLabel
  <2>2. CASE expr[i].kind = "here"
    <3>1. w[i] = p /\ d[i] = q
      BY <1>1, <2>2 DEF Worth, Shift
    <3>2. QED
      BY <1>6, <2>2, <3>1 DEF IsAbsolute, IsLabel
  <2>3. CASE IsAbsolute(expr, env, i)
    <3>1. w[i] = env[expr[i].name].value /\ d[i] = 0
      BY <1>1, <2>3 DEF Worth, Shift
    <3>2. QED
      BY <1>6, <2>3, <3>1 DEF IsAbsolute, IsLabel
  <2>4. CASE IsLabel(expr, env, i)
    <3>1. w[i] = env[expr[i].name].value + b[i] /\ d[i] = e[i]
      BY <1>1, <2>4 DEF Worth, Shift
    <3>2. env[expr[i].name].value \in Int
      BY <1>1, <2>4 DEF Sound, IsLabel, Undefined
    <3>3. v[i] = env[expr[i].name].value + a[i]
      BY <1>6, <3>1, <3>2
    <3>4. QED
      BY <2>4, <3>3 DEF IsAbsolute, IsLabel
  <2>5. QED
    BY <2>1, <2>2, <2>3, <2>4
<1>9. \A i, j \in 1 .. n : SameTerm(expr[i], expr[j]) => v[i] = v[j]
  <2>1. ASSUME NEW i \in 1 .. n, NEW j \in 1 .. n, SameTerm(expr[i], expr[j])
        PROVE  v[i] = v[j]
    <3>1. w[i] = w[j]
      BY <1>1, <2>1 DEF Worth
    <3>2. d[i] = d[j]
      BY <1>1, <2>1 DEF Shift
    <3>3. QED
      BY <1>6, <3>1, <3>2
  <2>2. QED
    BY <2>1
<1>10. \A i, j \in { k \in 1 .. n : IsLabel(expr, env, k) } :
          SectionAt(expr, env, i) = SectionAt(expr, env, j) => a[i] = a[j]
  <2>1. ASSUME NEW i \in { k \in 1 .. n : IsLabel(expr, env, k) },
               NEW j \in { k \in 1 .. n : IsLabel(expr, env, k) },
               SectionAt(expr, env, i) = SectionAt(expr, env, j)
        PROVE  a[i] = a[j]
    <3>1. b[i] = b[j]
      BY <1>1, <2>1 DEF Worth
    <3>2. e[i] = e[j]
      BY <1>1, <2>1 DEF Shift
    <3>3. QED
      BY <1>6, <3>1, <3>2
  <2>2. QED
    BY <2>1
<1>11. Worth(expr, env, v, a, p + q)
  BY <1>1, <1>7, <1>8, <1>9, <1>10 DEF Worth
<1>12. QED
  BY <1>1, <1>4, <1>5, <1>11

LEMMA LeafSumAdds ==
  ASSUME NEW expr, NEW env, Sound(expr, env), NEW w, NEW d, NEW v,
         IsList(Len(expr), w), IsList(Len(expr), d), IsList(Len(expr), v),
         AddsUp(Len(expr), 1 .. Len(expr), w, d, v)
  PROVE  /\ LeafSum(expr, v) = LeafSum(expr, w) + LeafSum(expr, d)
         /\ LeafSum(expr, w) \in Int /\ LeafSum(expr, d) \in Int
<1>1. PICK n \in Nat : n = Len(expr)
  BY DEF Sound
<1>2. \A i \in 1 .. n : /\ expr[i].sign \in Int /\ w[i] \in Int /\ d[i] \in Int
                        /\ v[i] = w[i] + d[i]
  BY <1>1 DEF Sound, IsList, AddsUp
<1>3. \A i \in 1 .. n : /\ expr[i].sign * w[i] \in Int /\ expr[i].sign * d[i] \in Int
                        /\ expr[i].sign * v[i] = expr[i].sign * w[i] + expr[i].sign * d[i]
  BY <1>2, Multiply
<1>4. PICK f : f = [i \in 1 .. n |-> expr[i].sign * w[i]]
  OBVIOUS
<1>5. PICK g : g = [i \in 1 .. n |-> expr[i].sign * d[i]]
  OBVIOUS
<1>6. PICK h : h = [i \in 1 .. n |-> expr[i].sign * v[i]]
  OBVIOUS
<1>7. f \in [1 .. n -> Int] /\ g \in [1 .. n -> Int]
  BY <1>3, <1>4, <1>5
<1>8. \A i \in 1 .. n : h[i] = f[i] + g[i] /\ f[i] \in Int /\ g[i] \in Int
  BY <1>3, <1>4, <1>5, <1>6
<1>9. h \in [1 .. n -> Int]
  BY <1>6, <1>8
<1>10. Total(h) = Total(f) + Total(g)
  <2>1. IsList(n, f) /\ IsList(n, g) /\ IsList(n, h)
    BY <1>7, <1>9 DEF IsList
  <2>2. AddsUp(n, 1 .. n, f, g, h)
    BY <1>8 DEF AddsUp
  <2>3. QED
    BY <2>1, <2>2, TotalPlus
<1>11. Total(f) \in Int /\ Total(g) \in Int
  BY <1>7, TotalIsInt
<1>12. QED
  BY <1>1, <1>4, <1>5, <1>6, <1>10, <1>11 DEF LeafSum

\* The addend of a result is an integer.
LEMMA ClassifiedIsInt ==
  ASSUME NEW expr, NEW env, Sound(expr, env), NEW w, NEW b, NEW p, Worth(expr, env, w, b, p),
         Classify(expr, env).kind \in {"relocatable", "difference", "got"}
  PROVE  Classify(expr, env).addend \in Int
<1>1. DefinedConstant(expr, env) \in Int
  BY LeafSumIs
<1>2. \/ Classify(expr, env) = ClassifyGot(expr, env)
      \/ Classify(expr, env) = ClassifyPlain(expr, env)
  <2>1. /\ Overflow.kind = "overflow" /\ Illegal.kind = "illegal"
        /\ [kind |-> "unsigned", value |-> expr[1].value].kind = "unsigned"
    BY DEF Overflow, Illegal
  <2>2. \/ Classify(expr, env) \in { Overflow, Illegal, ClassifyGot(expr, env),
                                     ClassifyPlain(expr, env) }
        \/ Classify(expr, env) = [kind |-> "unsigned", value |-> expr[1].value]
    BY DEF Classify
  <2>3. QED
    BY <2>1, <2>2
<1>3. CASE Classify(expr, env) = ClassifyGot(expr, env)
  <2>1. /\ ClassifyGot(expr, env).kind = "got"
        /\ ClassifyGot(expr, env).addend = DefinedConstant(expr, env)
    BY <1>3 DEF ClassifyGot, Overflow, Illegal
  <2>2. QED
    BY <1>1, <1>3, <2>1
<1>4. CASE Classify(expr, env) = ClassifyPlain(expr, env)
  <2>1. Supported(Coefficients(expr, env)) /\ Anchors(expr, env) # {}
    BY <1>4 DEF ClassifyPlain, Overflow, Illegal
  <2>2. PICK c, a : c = FirstAnchor(Anchors(expr, env)) /\ a = Addend(expr, env, c)
    OBVIOUS
  <2>3. a \in Int
    BY <2>1, <2>2, FirstAnchorIs, LeafSumAtChoice
  <2>4. Classify(expr, env) = Represent(expr, Coefficients(expr, env), c, a)
    BY <1>4, <2>1, <2>2 DEF ClassifyPlain
  <2>5. \/ Classify(expr, env).kind = "absolute"
        \/ Classify(expr, env).addend = a
    BY <2>4 DEF Represent
  <2>6. QED
    BY <2>3, <2>5
<1>5. QED
  BY <1>2, <1>3, <1>4

LEMMA OverWeighed ==
  ASSUME NEW n, NEW S, NEW c, NEW w, NEW d, NEW v, IsList(n, c), IsList(n, w), IsList(n, d),
         IsList(n, v), AddsUp(n, 1 .. n, w, d, v)
  PROVE  /\ Over(n, S, Weighed(n, c, v))
              = Over(n, S, Weighed(n, c, w)) + Over(n, S, Weighed(n, c, d))
         /\ Over(n, S, Weighed(n, c, w)) \in Int /\ Over(n, S, Weighed(n, c, d)) \in Int
<1>1. PICK x : x = Weighed(n, c, w) /\ IsList(n, x) /\ \A i \in 1 .. n : x[i] = c[i] * w[i]
  BY WeighedIsList
<1>2. PICK y : y = Weighed(n, c, d) /\ IsList(n, y) /\ \A i \in 1 .. n : y[i] = c[i] * d[i]
  BY WeighedIsList
<1>3. PICK z : z = Weighed(n, c, v) /\ IsList(n, z) /\ \A i \in 1 .. n : z[i] = c[i] * v[i]
  BY WeighedIsList
<1>4. AddsUp(n, S, x, y, z)
  <2>1. ASSUME NEW i \in 1 .. n
        PROVE  z[i] = x[i] + y[i]
    <3>1. c[i] \in Int /\ w[i] \in Int /\ d[i] \in Int /\ v[i] = w[i] + d[i]
      BY DEF IsList, AddsUp
    <3>2. c[i] * v[i] = c[i] * w[i] + c[i] * d[i]
      BY <3>1, Multiply
    <3>3. QED
      BY <1>1, <1>2, <1>3, <3>2
  <2>2. QED
    BY <2>1 DEF AddsUp
<1>5. Over(n, S, z) = Over(n, S, x) + Over(n, S, y)
  BY <1>1, <1>2, <1>3, <1>4, OverPlus
<1>6. QED
  BY <1>1, <1>2, <1>3, <1>5, OverIsInt

\* A move counts for the sections that do not cancel out, the names that
\* stand for nothing, the @GOTs, and the current locations.
LEMMA ShiftIs ==
  ASSUME NEW expr, NEW env, Sound(expr, env), NEW w, NEW b, NEW p, Worth(expr, env, w, b, p),
         NEW d, NEW e, NEW q, Shift(expr, env, d, e, q)
  PROVE  LeafSum(expr, d)
         = Over(Len(expr), Anchored(expr, env), Weighed(Len(expr), SectionSigns(expr, env), e))
           + Over(Len(expr), Remaining(expr, env), Weighed(Len(expr), TermSigns(expr), d))
           + Over(Len(expr), Gots(expr), Weighed(Len(expr), TermSigns(expr), d))
           + Here(expr) * q
<1>1. PICK n, t, s, A, R, G :
         /\ n = Len(expr) /\ t = TermSigns(expr) /\ s = SectionSigns(expr, env)
         /\ A = Anchored(expr, env) /\ R = Remaining(expr, env) /\ G = Gots(expr)
  OBVIOUS
<1>2. PICK v, a : /\ Worth(expr, env, v, a, p + q)
                  /\ AddsUp(n, 1 .. n, w, d, v) /\ AddsUp(n, 1 .. n, b, e, a)
  BY <1>1, ShiftIsWorth
<1>3. IsList(n, w) /\ IsList(n, b) /\ p \in Int
  BY <1>1, WorthIsList
<1>4. IsList(n, v) /\ IsList(n, a)
  BY <1>1, <1>2, WorthIsList
<1>5. IsList(n, d) /\ IsList(n, e) /\ q \in Int
  BY <1>1 DEF Shift
<1>6. IsList(n, t) /\ IsList(n, s)
  BY <1>1, CoefficientsAreInts
<1>7. /\ LeafSum(expr, v) = LeafSum(expr, w) + LeafSum(expr, d)
      /\ LeafSum(expr, w) \in Int /\ LeafSum(expr, d) \in Int
  BY <1>1, <1>2, <1>3, <1>4, <1>5, LeafSumAdds
<1>8. /\ Over(n, A, Weighed(n, s, a)) = Over(n, A, Weighed(n, s, b)) + Over(n, A, Weighed(n, s, e))
      /\ Over(n, A, Weighed(n, s, b)) \in Int /\ Over(n, A, Weighed(n, s, e)) \in Int
  BY <1>2, <1>3, <1>4, <1>5, <1>6, OverWeighed
<1>9. \A S : /\ Over(n, S, Weighed(n, t, v))
                  = Over(n, S, Weighed(n, t, w)) + Over(n, S, Weighed(n, t, d))
             /\ Over(n, S, Weighed(n, t, w)) \in Int /\ Over(n, S, Weighed(n, t, d)) \in Int
  BY <1>2, <1>3, <1>4, <1>5, <1>6, OverWeighed
<1>10. /\ LeafSum(expr, w)
             = DefinedConstant(expr, env) + Over(n, A, Weighed(n, s, b))
               + Over(n, R, Weighed(n, t, w)) + Over(n, G, Weighed(n, t, w)) + Here(expr) * p
       /\ DefinedConstant(expr, env) \in Int /\ Here(expr) \in Int
  BY <1>1, LeafSumIs
<1>11. LeafSum(expr, v)
          = DefinedConstant(expr, env) + Over(n, A, Weighed(n, s, a))
            + Over(n, R, Weighed(n, t, v)) + Over(n, G, Weighed(n, t, v))
            + Here(expr) * (p + q)
  BY <1>1, <1>2, LeafSumIs
<1>12. /\ Here(expr) * (p + q) = Here(expr) * p + Here(expr) * q
       /\ Here(expr) * p \in Int /\ Here(expr) * q \in Int
  BY <1>3, <1>5, <1>10, Multiply
<1>13. PICK k0 \in Int, k1 \in Int, k2 \in Int, k3 \in Int, k4 \in Int,
            l1 \in Int, l2 \in Int, l3 \in Int, l4 \in Int :
          /\ k0 = DefinedConstant(expr, env)
          /\ k1 = Over(n, A, Weighed(n, s, b)) /\ l1 = Over(n, A, Weighed(n, s, e))
          /\ k2 = Over(n, R, Weighed(n, t, w)) /\ l2 = Over(n, R, Weighed(n, t, d))
          /\ k3 = Over(n, G, Weighed(n, t, w)) /\ l3 = Over(n, G, Weighed(n, t, d))
          /\ k4 = Here(expr) * p /\ l4 = Here(expr) * q
  BY <1>8, <1>9, <1>10, <1>12
<1>14. LeafSum(expr, w) = k0 + k1 + k2 + k3 + k4
  BY <1>10, <1>13
<1>15. LeafSum(expr, v) = k0 + (k1 + l1) + (k2 + l2) + (k3 + l3) + (k4 + l4)
  BY <1>8, <1>9, <1>11, <1>12, <1>13
<1>16. LeafSum(expr, d) = l1 + l2 + l3 + l4
  <2>1. PICK x \in Int, y \in Int : x = LeafSum(expr, w) /\ y = LeafSum(expr, d)
    BY <1>7
  <2>2. x + y = k0 + (k1 + l1) + (k2 + l2) + (k3 + l3) + (k4 + l4)
    BY <1>7, <1>15, <2>1
  <2>3. x = k0 + k1 + k2 + k3 + k4
    BY <1>14, <2>1
  <2>4. y = l1 + l2 + l3 + l4
    BY <2>2, <2>3
  <2>5. QED
    BY <2>1, <2>4
<1>17. QED
  BY <1>1, <1>13, <1>16

\* How far the result moves.
MovesBy(expr, d, q, result) ==
    /\ result.kind \in {"absolute", "unsigned"} => LeafSum(expr, d) = 0
    /\ result.kind = "relocatable" =>
          \E i \in 1 .. Len(expr) : /\ Named(expr, i, "sym", result.symbol)
                                    /\ LeafSum(expr, d) = d[i]
    /\ result.kind = "difference" =>
          \E i, j \in 1 .. Len(expr) : /\ Named(expr, i, "sym", result.minuend)
                                       /\ Named(expr, j, "sym", result.subtrahend)
                                       /\ LeafSum(expr, d) = d[i] - d[j]
    /\ result.kind = "got" =>
          \E i \in 1 .. Len(expr) : /\ Named(expr, i, "got", result.symbol)
                                    /\ LeafSum(expr, d)
                                         = d[i] + (IF result.pcrel THEN -q ELSE 0)

\* The expression and its result move alike.
LEMMA ShiftMeans ==
  ASSUME NEW expr, NEW env, Sound(expr, env), NEW w, NEW b, NEW p, Worth(expr, env, w, b, p),
         NEW d, NEW e, NEW q, Shift(expr, env, d, e, q)
  PROVE  MovesBy(expr, d, q, Classify(expr, env))
<1>1. PICK n : n = Len(expr)
  OBVIOUS
<1>2. PICK v, a : Worth(expr, env, v, a, p + q) /\ AddsUp(n, 1 .. n, w, d, v)
  BY <1>1, ShiftIsWorth
<1>3. PICK r : r = Classify(expr, env)
  OBVIOUS
<1>4. ComesTo(expr, w, p, r) /\ ComesTo(expr, v, p + q, r)
  BY <1>2, <1>3, ClassifyMeans
<1>5. IsList(n, w) /\ p \in Int /\ IsList(n, v)
  BY <1>1, <1>2, WorthIsList
<1>6. IsList(n, d) /\ q \in Int
  BY <1>1 DEF Shift
<1>7. /\ LeafSum(expr, v) = LeafSum(expr, w) + LeafSum(expr, d)
      /\ LeafSum(expr, w) \in Int /\ LeafSum(expr, d) \in Int
  BY <1>1, <1>2, <1>5, <1>6, LeafSumAdds
<1>8. \A i \in 1 .. n : w[i] \in Int /\ d[i] \in Int /\ v[i] = w[i] + d[i]
  BY <1>2, <1>5, <1>6 DEF IsList, AddsUp
<1>9. ASSUME NEW i \in 1 .. n, NEW j \in 1 .. n, NEW kind \in {"sym", "got"}, NEW name,
             Named(expr, i, kind, name), Named(expr, j, kind, name)
      PROVE  w[i] = w[j]
  <2>1. SameTerm(expr[i], expr[j])
    BY <1>9 DEF Named, SameTerm
  <2>2. QED
    BY <1>1, <2>1 DEF Worth
<1>10. r.kind \in {"absolute", "unsigned"} => LeafSum(expr, d) = 0
  <2>1. SUFFICES ASSUME r.kind \in {"absolute", "unsigned"}
                 PROVE  LeafSum(expr, d) = 0
    OBVIOUS
  <2>2. LeafSum(expr, v) = LeafSum(expr, w)
    BY <1>4, <2>1 DEF ComesTo
  <2>3. QED
    BY <1>7, <2>2
<1>11. r.kind = "relocatable" =>
          \E i \in 1 .. n : Named(expr, i, "sym", r.symbol) /\ LeafSum(expr, d) = d[i]
  <2>1. SUFFICES ASSUME r.kind = "relocatable"
                 PROVE  \E i \in 1 .. n : /\ Named(expr, i, "sym", r.symbol)
                                          /\ LeafSum(expr, d) = d[i]
    OBVIOUS
  <2>2. Plus(expr, w, r.symbol, r.addend) /\ Plus(expr, v, r.symbol, r.addend)
    BY <1>4, <2>1 DEF ComesTo
  <2>3. PICK i \in 1 .. n : /\ Named(expr, i, "sym", r.symbol)
                            /\ LeafSum(expr, w) = r.addend + w[i]
    BY <1>1, <2>2 DEF Plus
  <2>4. PICK j \in 1 .. n : /\ Named(expr, j, "sym", r.symbol)
                            /\ LeafSum(expr, v) = r.addend + v[j]
    BY <1>1, <2>2 DEF Plus
  <2>5. w[i] = w[j]
    BY <1>9, <2>3, <2>4
  <2>6. r.addend \in Int
    BY ClassifiedIsInt, <1>3, <2>1
  <2>7. LeafSum(expr, d) = d[j]
    BY <1>7, <1>8, <2>3, <2>4, <2>5, <2>6
  <2>8. QED
    BY <2>4, <2>7
<1>12. r.kind = "difference" =>
          \E i, j \in 1 .. n : /\ Named(expr, i, "sym", r.minuend)
                               /\ Named(expr, j, "sym", r.subtrahend)
                               /\ LeafSum(expr, d) = d[i] - d[j]
  <2>1. SUFFICES ASSUME r.kind = "difference"
                 PROVE  \E i, j \in 1 .. n : /\ Named(expr, i, "sym", r.minuend)
                                             /\ Named(expr, j, "sym", r.subtrahend)
                                             /\ LeafSum(expr, d) = d[i] - d[j]
    OBVIOUS
  <2>2. /\ Minus(expr, w, r.minuend, r.subtrahend, r.addend)
        /\ Minus(expr, v, r.minuend, r.subtrahend, r.addend)
    BY <1>4, <2>1 DEF ComesTo
  <2>3. PICK i \in 1 .. n, j \in 1 .. n :
           /\ Named(expr, i, "sym", r.minuend) /\ Named(expr, j, "sym", r.subtrahend)
           /\ LeafSum(expr, w) = r.addend + w[i] - w[j]
    BY <1>1, <2>2 DEF Minus
  <2>4. PICK k \in 1 .. n, l \in 1 .. n :
           /\ Named(expr, k, "sym", r.minuend) /\ Named(expr, l, "sym", r.subtrahend)
           /\ LeafSum(expr, v) = r.addend + v[k] - v[l]
    BY <1>1, <2>2 DEF Minus
  <2>5. w[i] = w[k] /\ w[j] = w[l]
    BY <1>9, <2>3, <2>4
  <2>6. r.addend \in Int
    BY ClassifiedIsInt, <1>3, <2>1
  <2>7. LeafSum(expr, d) = d[k] - d[l]
    BY <1>7, <1>8, <2>3, <2>4, <2>5, <2>6
  <2>8. QED
    BY <2>4, <2>7
<1>13. r.kind = "got" =>
          \E i \in 1 .. n : /\ Named(expr, i, "got", r.symbol)
                            /\ LeafSum(expr, d) = d[i] + (IF r.pcrel THEN -q ELSE 0)
  <2>1. SUFFICES ASSUME r.kind = "got"
                 PROVE  \E i \in 1 .. n : /\ Named(expr, i, "got", r.symbol)
                                          /\ LeafSum(expr, d)
                                               = d[i] + (IF r.pcrel THEN -q ELSE 0)
    OBVIOUS
  <2>2. /\ PlusGot(expr, w, p, r.symbol, r.addend, r.pcrel)
        /\ PlusGot(expr, v, p + q, r.symbol, r.addend, r.pcrel)
    BY <1>4, <2>1 DEF ComesTo
  <2>3. PICK i \in 1 .. n : /\ Named(expr, i, "got", r.symbol)
                            /\ LeafSum(expr, w)
                                 = r.addend + w[i] + (IF r.pcrel THEN -p ELSE 0)
    BY <1>1, <2>2 DEF PlusGot
  <2>4. PICK j \in 1 .. n : /\ Named(expr, j, "got", r.symbol)
                            /\ LeafSum(expr, v)
                                 = r.addend + v[j] + (IF r.pcrel THEN -(p + q) ELSE 0)
    BY <1>1, <2>2 DEF PlusGot
  <2>5. w[i] = w[j]
    BY <1>9, <2>3, <2>4
  <2>6. r.addend \in Int
    BY ClassifiedIsInt, <1>3, <2>1
  <2>7. LeafSum(expr, d) = d[j] + (IF r.pcrel THEN -q ELSE 0)
    <3>1. PICK x \in Int, y \in Int, z \in Int, k \in Int, l \in Int :
             /\ x = LeafSum(expr, w) /\ y = LeafSum(expr, d) /\ z = r.addend
             /\ k = w[j] /\ l = d[j]
      BY <1>7, <1>8, <2>6
    <3>2. x = z + k + (IF r.pcrel THEN -p ELSE 0)
      BY <2>3, <2>5, <3>1
    <3>3. x + y = z + (k + l) + (IF r.pcrel THEN -(p + q) ELSE 0)
      BY <1>7, <1>8, <2>4, <3>1
    <3>4. y = l + (IF r.pcrel THEN -q ELSE 0)
      BY <1>5, <1>6, <3>2, <3>3
    <3>5. QED
      BY <3>1, <3>4
  <2>8. QED
    BY <2>4, <2>7
<1>14. QED
  BY <1>1, <1>3, <1>10, <1>11, <1>12, <1>13 DEF MovesBy

-----------------------------------------------------------------------------
(* How often a term and a section are counted.                             *)

\* A sum with one place at most that is not 0.
LEMMA OverAt ==
  ASSUME NEW n, NEW S, NEW f, IsList(n, f), NEW i \in 1 .. n, i \in S,
         \A j \in 1 .. n : j \in S /\ j # i => f[j] = 0
  PROVE  Over(n, S, f) = f[i]
<1>1. n \in Nat /\ f \in [1 .. n -> Int] /\ f[i] \in Int
  BY DEF IsList
<1>2. PICK c \in Int : c = f[i]
  BY <1>1
<1>3. PICK h : h = [k \in 1 .. n |-> IF k \in S THEN f[k] ELSE 0]
  OBVIOUS
<1>4. h \in [1 .. n -> Int] /\ \A k \in 1 .. n : h[k] = IF k = i THEN c ELSE 0
  BY <1>1, <1>2, <1>3
<1>5. Total(h) = c
  BY <1>1, <1>4, TotalSingle
<1>6. QED
  BY <1>2, <1>3, <1>5 DEF Over

LEMMA TermsAreApart ==
  ASSUME NEW expr, NEW env, Sound(expr, env)
  PROVE  \A i, j \in Terms(expr) : SameTerm(expr[i], expr[j]) => i = j
<1>1. ASSUME NEW i \in Terms(expr), NEW j \in Terms(expr), SameTerm(expr[i], expr[j])
      PROVE  i = j
  <2>1. i \in 1 .. Len(expr) /\ j \in 1 .. Len(expr) /\ expr[i].kind # "int"
        /\ FirstOf(expr, j) = j
    BY TermsAreFirst
  <2>2. \A k \in 1 .. i - 1 : ~ SameTerm(expr[i], expr[k])
    BY DEF Terms
  <2>3. FirstOf(expr, j) = i
    BY <1>1, <2>1, <2>2, FirstOfFirst
  <2>4. QED
    BY <2>1, <2>3
<1>2. QED
  BY <1>1

LEMMA SectionsAreApart ==
  ASSUME NEW expr, NEW env, Sound(expr, env)
  PROVE  \A i, j \in Anchored(expr, env) :
            SectionAt(expr, env, i) = SectionAt(expr, env, j) => i = j
<1>1. ASSUME NEW i \in Anchored(expr, env), NEW j \in Anchored(expr, env),
             SectionAt(expr, env, i) = SectionAt(expr, env, j)
      PROVE  i = j
  <2>1. i \in Labelled(expr, env) /\ j \in Labelled(expr, env)
        /\ i \in 1 .. Len(expr) /\ j \in 1 .. Len(expr)
    BY LabelledAreLabels
  <2>2. j \in Group(expr, env, i) /\ i \in Group(expr, env, j)
    BY <1>1, <2>1, LabelledAreLabels
  <2>3. i <= j /\ j <= i
    BY <2>2 DEF Anchored
  <2>4. QED
    BY <2>1, <2>3
<1>2. QED
  BY <1>1

\* The leaves that name the same come to the coefficient of their term.
LEMMA NamedSum ==
  ASSUME NEW expr, NEW env, Sound(expr, env), NEW kind \in {"sym", "got", "here"}, NEW name,
         NEW d, IsList(Len(expr), d),
         \A i \in 1 .. Len(expr) : d[i] = IF Named(expr, i, kind, name) THEN 1 ELSE 0
  PROVE  /\ \A i \in Terms(expr) :
               Named(expr, i, kind, name) => LeafSum(expr, d) = Coefficient(expr, i)
         /\ (\A i \in Terms(expr) : ~ Named(expr, i, kind, name)) => LeafSum(expr, d) = 0
<1>1. PICK n \in Nat : n = Len(expr)
  BY DEF Sound
<1>2. d \in [1 .. n -> Int] /\ \A i \in 1 .. n : d[i] \in {0, 1}
  BY <1>1 DEF IsList
<1>3. \A i, j \in 1 .. n : SameTerm(expr[i], expr[j]) => d[i] = d[j]
  BY <1>1 DEF SameTerm, Named
<1>4. LeafSum(expr, d)
        = Total([j \in 1 .. n |-> IF expr[j].kind = "int" THEN 0 ELSE expr[j].sign * d[j]])
  <2>1. ASSUME NEW j \in 1 .. n
        PROVE  expr[j].sign * d[j] = IF expr[j].kind = "int" THEN 0 ELSE expr[j].sign * d[j]
    <3>1. CASE expr[j].kind = "int"
      <4>1. d[j] = 0 /\ expr[j].sign \in Int
        BY <1>1, <3>1 DEF Named, Sound
      <4>2. QED
        BY <3>1, <4>1, Multiply
    <3>2. QED
      BY <3>1
  <2>2. [j \in 1 .. n |-> expr[j].sign * d[j]]
          = [j \in 1 .. n |-> IF expr[j].kind = "int" THEN 0 ELSE expr[j].sign * d[j]]
    BY <2>1
  <2>3. QED
    BY <1>1, <2>2 DEF LeafSum
<1>5. PICK f : f = [i \in 1 .. n |-> Coefficient(expr, i) * d[i]]
  OBVIOUS
<1>6. LeafSum(expr, d) = Over(n, Terms(expr), f)
  BY <1>1, <1>2, <1>3, <1>4, <1>5, LeavesAreTerms
<1>7. ASSUME NEW i \in 1 .. n
      PROVE  f[i] = (IF Named(expr, i, kind, name) THEN Coefficient(expr, i) ELSE 0) /\ f[i] \in Int
  <2>1. Coefficient(expr, i) \in Int
    BY <1>1, CoefficientIsInt
  <2>2. f[i] = Coefficient(expr, i) * d[i]
    BY <1>5
  <2>3. d[i] = IF Named(expr, i, kind, name) THEN 1 ELSE 0
    BY <1>1
  <2>4. QED
    BY <2>1, <2>2, <2>3
<1>8. IsList(n, f)
  <2>1. f \in [1 .. n -> Int]
    BY <1>5, <1>7
  <2>2. QED
    BY <2>1 DEF IsList
<1>9. ASSUME NEW i \in Terms(expr), Named(expr, i, kind, name)
      PROVE  LeafSum(expr, d) = Coefficient(expr, i)
  <2>1. i \in 1 .. n
    BY <1>1, TermsAreFirst
  <2>2. ASSUME NEW j \in 1 .. n, j \in Terms(expr), j # i
        PROVE  f[j] = 0
    <3>1. ~ Named(expr, j, kind, name)
      <4>1. Named(expr, j, kind, name) => SameTerm(expr[i], expr[j])
        BY <1>9 DEF Named, SameTerm
      <4>2. QED
        BY <2>2, <4>1, TermsAreApart
    <3>2. QED
      BY <1>7, <3>1
  <2>3. Over(n, Terms(expr), f) = f[i]
    BY <1>8, <2>1, <2>2, OverAt
  <2>4. QED
    BY <1>6, <1>7, <1>9, <2>1, <2>3
<1>10. ASSUME \A i \in Terms(expr) : ~ Named(expr, i, kind, name)
       PROVE  LeafSum(expr, d) = 0
  <2>1. \A j \in 1 .. n : j \in Terms(expr) => f[j] = 0
    BY <1>7, <1>10
  <2>2. QED
    BY <1>6, <2>1, OverZero
<1>11. QED
  BY <1>9, <1>10

\* The labels of a section come to the coefficient of the section.
LEMMA SectionMoves ==
  ASSUME NEW expr, NEW env, Sound(expr, env), NEW w, NEW b, NEW p, Worth(expr, env, w, b, p),
         NEW section, NEW d, Shift(expr, env, d, d, 0),
         \A i \in 1 .. Len(expr) :
            d[i] = IF IsLabel(expr, env, i) /\ SectionAt(expr, env, i) = section THEN 1 ELSE 0
  PROVE  /\ \A i \in Anchored(expr, env) :
               SectionAt(expr, env, i) = section => LeafSum(expr, d) = SectionSum(expr, env, i)
         /\ (\A i \in Anchored(expr, env) : SectionAt(expr, env, i) # section) =>
               LeafSum(expr, d) = 0
<1>1. PICK n, t, s, A : /\ n = Len(expr) /\ t = TermSigns(expr) /\ s = SectionSigns(expr, env)
                        /\ A = Anchored(expr, env)
  OBVIOUS
<1>2. IsList(n, d)
  BY <1>1 DEF Shift
<1>3. IsList(n, t) /\ IsList(n, s) /\ n \in Nat
  <2>1. n \in Nat
    BY <1>1 DEF Sound
  <2>2. QED
    BY <1>1, <2>1, CoefficientsAreInts
<1>4. PICK x : x = Weighed(n, t, d) /\ IsList(n, x) /\ \A i \in 1 .. n : x[i] = t[i] * d[i]
  BY <1>2, <1>3, WeighedIsList
<1>5. PICK y : y = Weighed(n, s, d) /\ IsList(n, y) /\ \A i \in 1 .. n : y[i] = s[i] * d[i]
  BY <1>2, <1>3, WeighedIsList
<1>6. LeafSum(expr, d) = Over(n, A, y) + Over(n, Remaining(expr, env), x)
                         + Over(n, Gots(expr), x) + Here(expr) * 0
  BY <1>1, <1>4, <1>5, ShiftIs
<1>7. Over(n, Remaining(expr, env), x) = 0 /\ Over(n, Gots(expr), x) = 0
  <2>1. ASSUME NEW i \in 1 .. n, i \in Remaining(expr, env) \union Gots(expr)
        PROVE  x[i] = 0
    <3>1. ~ IsLabel(expr, env, i)
      BY <2>1 DEF Remaining, Gots, IsLabel, Undefined
    <3>2. d[i] = 0 /\ t[i] \in Int
      BY <1>1, <1>3, <3>1 DEF IsList
    <3>3. QED
      BY <1>4, <3>2, Multiply
  <2>2. QED
    BY <1>3, <2>1, OverZero
<1>8. LeafSum(expr, d) = Over(n, A, y)
  <2>1. Here(expr) * 0 = 0
    BY LeafSumIs, Multiply
  <2>2. Over(n, A, y) \in Int
    BY <1>5, OverIsInt
  <2>3. QED
    BY <1>6, <1>7, <2>1, <2>2
<1>9. ASSUME NEW i \in A
      PROVE  /\ i \in 1 .. n
             /\ y[i] = IF SectionAt(expr, env, i) = section
                       THEN SectionSum(expr, env, i) ELSE 0
  <2>1. i \in 1 .. n /\ IsLabel(expr, env, i)
    BY <1>1, LabelledAreLabels
  <2>2. d[i] = IF SectionAt(expr, env, i) = section THEN 1 ELSE 0
    BY <1>1, <2>1
  <2>3. s[i] = SectionSum(expr, env, i) /\ s[i] \in Int
    BY <1>1, <2>1, CoefficientsAreInts, SectionSumIsInt
  <2>4. s[i] * 1 = s[i] /\ s[i] * 0 = 0
    BY <2>3
  <2>5. QED
    BY <1>5, <2>1, <2>2, <2>3, <2>4
<1>10. ASSUME NEW i \in A, SectionAt(expr, env, i) = section
       PROVE  LeafSum(expr, d) = SectionSum(expr, env, i)
  <2>1. ASSUME NEW j \in 1 .. n, j \in A, j # i
        PROVE  y[j] = 0
    <3>1. SectionAt(expr, env, j) # section
      BY <1>1, <1>10, <2>1, SectionsAreApart
    <3>2. QED
      BY <1>9, <2>1, <3>1
  <2>2. Over(n, A, y) = y[i]
    BY <1>5, <1>9, <1>10, <2>1, OverAt
  <2>3. QED
    BY <1>8, <1>9, <1>10, <2>2
<1>11. ASSUME \A i \in A : SectionAt(expr, env, i) # section
       PROVE  LeafSum(expr, d) = 0
  <2>1. \A j \in 1 .. n : j \in A => y[j] = 0
    BY <1>9, <1>11
  <2>2. QED
    BY <1>3, <1>8, <2>1, OverZero
<1>12. QED
  BY <1>1, <1>10, <1>11

-----------------------------------------------------------------------------
(* What a list comes to with another one, and what results name. *)

\* A list, and another one after it.
LEMMA TotalJoin ==
    ASSUME NEW n \in Nat, NEW m \in Nat, NEW f \in [1 .. n -> Int], NEW g \in [1 .. m -> Int],
           NEW h \in [1 .. n + m -> Int],
           \A i \in 1 .. n : h[i] = f[i], \A i \in 1 .. m : h[n + i] = g[i]
    PROVE  Total(h) = Total(f) + Total(g)
<1>1. PICK p : Parts(p, n, f)
  BY PartsExist
<1>2. PICK q : Parts(q, m, g)
  BY PartsExist
<1>3. /\ p \in [0 .. n -> Int] /\ p[0] = 0 /\ \A k \in 1 .. n : p[k] = p[k - 1] + f[k]
      /\ q \in [0 .. m -> Int] /\ q[0] = 0 /\ \A k \in 1 .. m : q[k] = q[k - 1] + g[k]
  BY <1>1, <1>2 DEF Parts
<1>4. PICK r : r = [k \in 0 .. n + m |-> IF k <= n THEN p[k] ELSE p[n] + q[k - n]]
  OBVIOUS
<1>5. p[n] \in Int /\ \A k \in 0 .. m : q[k] \in Int
  BY <1>3
<1>6. ASSUME NEW k \in 0 .. n + m
      PROVE  r[k] \in Int /\ r[k] = IF k <= n THEN p[k] ELSE p[n] + q[k - n]
  <2>1. r[k] = IF k <= n THEN p[k] ELSE p[n] + q[k - n]
    BY <1>4
  <2>2. CASE k <= n
    BY <1>3, <2>1, <2>2
  <2>3. CASE ~ (k <= n)
    <3>1. k - n \in 0 .. m
      BY <2>3
    <3>2. q[k - n] \in Int
      BY <1>5, <3>1
    <3>3. QED
      BY <1>5, <2>1, <2>3, <3>2
  <2>4. QED
    BY <2>1, <2>2, <2>3
<1>7. ASSUME NEW k \in 1 .. n + m
      PROVE  r[k] = r[k - 1] + h[k]
  <2>1. k \in 0 .. n + m /\ k - 1 \in 0 .. n + m
    OBVIOUS
  <2>2. CASE k <= n
    <3>1. k \in 1 .. n /\ k - 1 <= n
      BY <2>2
    <3>2. r[k] = p[k] /\ r[k - 1] = p[k - 1] /\ h[k] = f[k]
      BY <1>6, <2>1, <2>2, <3>1
    <3>3. QED
      BY <1>3, <3>1, <3>2
  <2>3. CASE k > n
    <3>1. PICK i \in 1 .. m : k = n + i
      <4>1. k - n \in 1 .. m /\ k = n + (k - n)
        BY <2>3
      <4>2. QED
        BY <4>1
    <3>2. h[k] = g[i] /\ k - n = i
      BY <3>1
    <3>3. r[k] = p[n] + q[i]
      BY <1>6, <2>1, <2>3, <3>2
    <3>4. r[k - 1] = p[n] + q[i - 1]
      <4>1. CASE i = 1
        <5>1. k - 1 = n /\ i - 1 = 0
          BY <3>1, <4>1
        <5>2. r[k - 1] = p[n] /\ q[i - 1] = 0
          BY <1>3, <1>6, <2>1, <5>1
        <5>3. QED
          BY <1>5, <5>2
      <4>2. CASE i # 1
        <5>1. ~ (k - 1 <= n) /\ (k - 1) - n = i - 1
          BY <3>1, <4>2
        <5>2. QED
          BY <1>6, <2>1, <5>1
      <4>3. QED
        BY <4>1, <4>2
    <3>5. q[i] = q[i - 1] + g[i] /\ q[i - 1] \in Int /\ g[i] \in Int
      <4>1. i - 1 \in 0 .. m
        OBVIOUS
      <4>2. QED
        BY <1>3, <1>5, <4>1
    <3>6. QED
      BY <1>5, <3>2, <3>3, <3>4, <3>5
  <2>4. QED
    BY <2>2, <2>3
<1>8. Parts(r, n + m, h)
  <2>1. r \in [0 .. n + m -> Int]
    BY <1>4, <1>6
  <2>2. r[0] = 0
    BY <1>3, <1>6
  <2>3. QED
    BY <1>7, <2>1, <2>2 DEF Parts
<1>9. PICK a \in Nat : a = n + m
  OBVIOUS
<1>10. Total(h) = r[a]
  BY <1>8, <1>9, TotalIs
<1>11. Total(f) = p[n] /\ Total(g) = q[m]
  BY <1>1, <1>2, TotalIs
<1>12. r[a] = p[n] + q[m]
  <2>1. CASE m = 0
    BY <1>3, <1>5, <1>6, <1>9, <2>1
  <2>2. CASE m # 0
    <3>1. a \in 0 .. n + m /\ ~ (a <= n) /\ a - n = m
      BY <1>9, <2>2
    <3>2. QED
      BY <1>6, <3>1
  <2>3. QED
    BY <2>1, <2>2
<1>13. QED
  BY <1>10, <1>11, <1>12

\* The results there are.
LEMMA ResultKinds ==
    ASSUME NEW expr, NEW env
    PROVE  Classify(expr, env).kind \in {"unsigned", "overflow", "illegal", "got",
                                         "absolute", "relocatable", "difference"}
<1>1. Overflow.kind = "overflow" /\ Illegal.kind = "illegal"
  BY DEF Overflow, Illegal
<1>2. ClassifyGot(expr, env).kind \in {"overflow", "illegal", "got"}
  BY <1>1 DEF ClassifyGot
<1>3. \A coefficients, choice, addend :
         Represent(expr, coefficients, choice, addend).kind
            \in {"absolute", "relocatable", "difference"}
  BY DEF Represent
<1>4. ClassifyPlain(expr, env).kind
         \in {"overflow", "illegal", "absolute", "relocatable", "difference"}
  BY <1>1, <1>3 DEF ClassifyPlain
<1>5. QED
  BY <1>1, <1>2, <1>4 DEF Classify

\* What a relocation would have to name is no absolute symbol.
LEMMA StandsForPlace ==
    ASSUME NEW expr, NEW env, Sound(expr, env), NEW c, c \in AnchorChoices(expr, env),
           NEW i \in DOMAIN Coefficients(expr, env)
    PROVE  env[expr[Stands(c, i)].name].kind # "absolute"
<1>1. /\ DOMAIN c = Anchored(expr, env)
      /\ \A k \in Anchored(expr, env) : IsLabel(expr, env, c[k])
  BY ChoicesStand
<1>2. i \in Remaining(expr, env) \union Anchored(expr, env)
  BY DEF Coefficients
<1>3. CASE i \in Anchored(expr, env)
  BY <1>1, <1>3 DEF Stands, IsLabel
<1>4. CASE i \notin Anchored(expr, env)
  <2>1. Stands(c, i) = i /\ env[expr[i].name] = Undefined
    BY <1>1, <1>2, <1>4 DEF Stands, Remaining
  <2>2. Undefined.kind = "undefined"
    BY DEF Undefined
  <2>3. QED
    BY <2>1, <2>2
<1>5. QED
  BY <1>3, <1>4

LEMMA NamesArePlaces ==
    ASSUME NEW expr, NEW env, Sound(expr, env), NEW r, r = Classify(expr, env)
    PROVE  /\ r.kind = "relocatable" => env[r.symbol].kind # "absolute"
           /\ r.kind = "difference" => /\ env[r.minuend].kind # "absolute"
                                       /\ env[r.subtrahend].kind # "absolute"
<1>1. SUFFICES ASSUME r.kind \in {"relocatable", "difference"}
               PROVE  /\ r.kind = "relocatable" => env[r.symbol].kind # "absolute"
                      /\ r.kind = "difference" => /\ env[r.minuend].kind # "absolute"
                                                  /\ env[r.subtrahend].kind # "absolute"
  OBVIOUS
<1>2. r = ClassifyPlain(expr, env)
  <2>1. Overflow.kind = "overflow" /\ Illegal.kind = "illegal"
    BY DEF Overflow, Illegal
  <2>2. ClassifyGot(expr, env).kind \in {"overflow", "illegal", "got"}
    BY <2>1 DEF ClassifyGot
  <2>3. \/ r.kind = "unsigned"
        \/ r \in {Overflow, Illegal, ClassifyGot(expr, env), ClassifyPlain(expr, env)}
    BY DEF Classify
  <2>4. QED
    BY <1>1, <2>1, <2>2, <2>3
<1>3. PICK c, k, a : /\ c = FirstAnchor(Anchors(expr, env)) /\ k = Coefficients(expr, env)
                     /\ a = Addend(expr, env, c)
  OBVIOUS
<1>4. /\ Supported(k) /\ c \in AnchorChoices(expr, env)
      /\ r = Represent(expr, k, c, a)
  <2>1. Overflow.kind = "overflow" /\ Illegal.kind = "illegal"
    BY DEF Overflow, Illegal
  <2>2. Supported(k) /\ Anchors(expr, env) # {}
    BY <1>1, <1>2, <1>3, <2>1 DEF ClassifyPlain
  <2>3. QED
    BY <1>2, <1>3, <2>2, FirstAnchorIs DEF ClassifyPlain
<1>5. PICK terms : terms = DOMAIN k
  OBVIOUS
<1>6. \A i \in terms : env[expr[Stands(c, i)].name].kind # "absolute"
  BY <1>3, <1>4, <1>5, StandsForPlace
<1> DEFINE name(i)  == expr[IF i \in DOMAIN c THEN c[i] ELSE i].name
           plus     == CHOOSE i \in terms : k[i] = 1
           minus    == CHOOSE i \in terms : i # plus
<1>7. r = CASE terms = {}     -> [kind |-> "absolute", value |-> a]
            [] terms = {plus} -> [kind |-> "relocatable", symbol |-> name(plus), addend |-> a]
            [] OTHER          -> [kind |-> "difference", minuend |-> name(plus),
                                  subtrahend |-> name(minus), addend |-> a]
  BY <1>4, <1>5 DEF Represent
<1>8. \A i \in terms : env[name(i)].kind # "absolute"
  BY <1>6 DEF Stands
<1>9. terms # {} => plus \in terms
  BY <1>4, <1>5 DEF Supported
<1>10. terms # {} /\ terms # {plus} => minus \in terms
  BY <1>9
<1> HIDE DEF name, plus, minus
<1>11. CASE terms = {}
  BY <1>1, <1>7, <1>11
<1>12. CASE terms # {} /\ terms = {plus}
  BY <1>1, <1>7, <1>8, <1>9, <1>12
<1>13. CASE terms # {} /\ terms # {plus}
  BY <1>1, <1>7, <1>8, <1>9, <1>10, <1>13
<1>14. QED
  BY <1>11, <1>12, <1>13

-----------------------------------------------------------------------------
(* Dependencies are well formed.                                           *)

\* The references of an expression are a sequence.
LEMMA ReferencedIsSequence ==
  ASSUME NEW expr, IsSequence(expr)
  PROVE  /\ Len(Referenced(expr)) \in Nat
         /\ DOMAIN Referenced(expr) = 1 .. Len(Referenced(expr))
<1> DEFINE named == { k \in DOMAIN expr : expr[k].kind \in {"sym", "got"} }
           new   == { k \in named :
                        \A j \in named : expr[j].name = expr[k].name => k <= j }
<1>1. IsFiniteSet(DOMAIN expr)
  <2>1. DOMAIN expr = 1 .. Len(expr) /\ Len(expr) \in Nat
    BY DEF IsSequence
  <2>2. QED
    BY <2>1, FS_Interval
<1>2. IsFiniteSet(new)
  BY <1>1, FS_Subset, new \in SUBSET DOMAIN expr
<1>3. Cardinality(new) \in Nat
  BY <1>2, FS_CardinalityType
<1> HIDE DEF named
<1>4. QED
  BY <1>3 DEF Referenced, named

\* dependency_for_symbol gives an assignment of the list, or none.
LEMMA DependencyInList ==
  ASSUME NEW list, IsSequence(list), NEW i \in 1 .. Len(list), NEW name
  PROVE  DependencyOf(list, i, name) \in 0 .. Len(list)
<1> DEFINE prior == { j \in 1 .. i - 1 : list[j].name = name }
           later == { j \in i .. Len(list) : list[j].name = name }
<1>1. Len(list) \in Nat
  BY DEF IsSequence
<1>2. prior # {} => Max(prior) \in prior
  BY <1>1, MaxOfNaturals, prior \in SUBSET Nat, \A j \in prior : j <= Len(list)
<1>3. later # {} => Min(later) \in later
  BY <1>1, MinOfNaturals, later \in SUBSET Nat
<1>4. QED
  BY <1>1, <1>2, <1>3 DEF DependencyOf

\* So the dependencies of a list are references into it.
LEMMA DependenciesInList ==
  ASSUME NEW list, WellFormed(list)
  PROVE  LET d == Dependencies(list)
         IN  /\ DOMAIN d = 1 .. Len(list)
             /\ \A i \in 1 .. Len(list) :
                   /\ Len(d[i]) \in Nat
                   /\ DOMAIN d[i] = 1 .. Len(d[i])
                   /\ \A k \in 1 .. Len(d[i]) : d[i][k].target \in 0 .. Len(list)
<1> DEFINE d == Dependencies(list)
<1>1. /\ IsSequence(list)
      /\ DOMAIN list = 1 .. Len(list)
      /\ Len(list) \in Nat
      /\ \A i \in 1 .. Len(list) : IsSequence(list[i].expr)
  BY DEF WellFormed, IsSequence
<1>2. ASSUME NEW i \in 1 .. Len(list)
      PROVE  /\ Len(d[i]) \in Nat
             /\ DOMAIN d[i] = 1 .. Len(d[i])
             /\ \A k \in 1 .. Len(d[i]) : d[i][k].target \in 0 .. Len(list)
  <2> DEFINE names == Referenced(list[i].expr)
  <2>1. Len(names) \in Nat
    BY <1>1, ReferencedIsSequence
  <2>2. d[i] = [k \in 1 .. Len(names) |->
                  [name |-> names[k],
                   target |-> DependencyOf(list, i, names[k])]]
    BY DEF Dependencies
  <2> HIDE DEF names, d
  <2>3. \A k \in 1 .. Len(names) :
          DependencyOf(list, i, names[k]) \in 0 .. Len(list)
    BY <1>1, DependencyInList
  <2>4. Len(d[i]) = Len(names) /\ DOMAIN d[i] = 1 .. Len(names)
    BY <2>1, <2>2
  <2>5. QED
    BY <2>1, <2>2, <2>3, <2>4
<1>3. DOMAIN d = 1 .. Len(list)
  BY DEF Dependencies
<1>4. QED
  BY <1>2, <1>3

-----------------------------------------------------------------------------
(* What the outcome of an assignment depends on.                           *)

\* The failed dependencies, by position: Evaluate takes the first.
Failed(d, i, outcome) ==
    { k \in DOMAIN d[i] : /\ d[i][k].target # 0
                          /\ outcome[d[i][k].target].kind = "error" }

\* Every dependency before the k-th has a value.
ValuesBefore(d, i, k, outcome) ==
    \A q \in DOMAIN d[i] :
        q < k /\ d[i][q].target # 0 => outcome[d[i][q].target].kind = "value"

\* With the first failed dependency, the outcome is its error.
LEMMA EvaluateFails ==
  ASSUME NEW list, NEW d, NEW b, NEW i, NEW outcome, NEW k \in Failed(d, i, outcome),
         DOMAIN d[i] \in SUBSET Nat,
         \A q \in Failed(d, i, outcome) : k <= q
  PROVE  Evaluate(list, d, b, i, outcome) = outcome[d[i][k].target]
<1> DEFINE failed == Failed(d, i, outcome)
<1>1. failed \in SUBSET Nat
  BY DEF Failed
<1>2. Min(failed) \in failed /\ \A q \in failed : Min(failed) <= q
  BY <1>1, MinOfNaturals
<1> HIDE DEF failed
<1>3. Min(failed) = k
  <2>1. Min(failed) <= k /\ k <= Min(failed) /\ k \in Nat /\ Min(failed) \in Nat
    BY <1>1, <1>2 DEF failed
  <2>2. QED
    BY <2>1
<1>4. Evaluate(list, d, b, i, outcome) = outcome[d[i][Min(failed)].target]
  BY DEF Evaluate, failed, Failed
<1>5. QED
  BY <1>3, <1>4

LEMMA EvaluateStops ==
  ASSUME NEW list, NEW d, NEW b, NEW i, NEW outcome, NEW k \in DOMAIN d[i],
         DOMAIN d[i] \in SUBSET Nat,
         d[i][k].target # 0,
         outcome[d[i][k].target].kind = "error",
         ValuesBefore(d, i, k, outcome)
  PROVE  Evaluate(list, d, b, i, outcome) = outcome[d[i][k].target]
<1>1. k \in Failed(d, i, outcome)
  BY DEF Failed
<1>2. \A q \in Failed(d, i, outcome) : k <= q
  <2>1. SUFFICES ASSUME NEW q \in Failed(d, i, outcome), q < k
                 PROVE  FALSE
    BY DEF Failed
  <2>2. QED
    BY <2>1 DEF Failed, ValuesBefore
<1>3. QED
  BY <1>1, <1>2, EvaluateFails

\* evaluate_assignment gives a value or an error.
LEMMA EvaluateResolves ==
  ASSUME NEW list, NEW d, NEW b, NEW i, NEW outcome, DOMAIN d[i] \in SUBSET Nat
  PROVE  Evaluate(list, d, b, i, outcome).kind \in {"value", "error"}
<1> DEFINE failed == Failed(d, i, outcome)
<1>1. CASE failed = {}
  <2>1. \A result, could : Judge(result, i, could).kind \in {"value", "error"}
    BY DEF Judge, Value, Error
  <2>2. QED
    BY <1>1, <2>1 DEF Evaluate, Failed
<1>2. CASE failed # {}
  <2>1. failed \in SUBSET Nat
    BY DEF Failed
  <2>2. PICK k \in failed : \A q \in failed : k <= q
    BY <1>2, <2>1, LeastElement
  <2>3. Evaluate(list, d, b, i, outcome) = outcome[d[i][k].target]
    BY <2>2, EvaluateFails
  <2>4. QED
    BY <2>2, <2>3 DEF Failed
<1>3. QED
  BY <1>1, <1>2

\* What comes after the first dependency that failed does not count: two
\* lists of outcomes that are the same up to there give the same.
LEMMA EvaluateSame ==
  ASSUME NEW list, NEW d, NEW b, NEW i, NEW one, NEW two,
         DOMAIN d[i] \in SUBSET Nat,
         \A k \in DOMAIN d[i] :
            d[i][k].target # 0 /\ ValuesBefore(d, i, k, one) =>
               /\ one[d[i][k].target].kind \in {"value", "error"}
               /\ Same(one[d[i][k].target], two[d[i][k].target])
  PROVE  Same(Evaluate(list, d, b, i, one), Evaluate(list, d, b, i, two))
<1> DEFINE valueless == { k \in DOMAIN d[i] : /\ d[i][k].target # 0
                                              /\ one[d[i][k].target].kind # "value" }
<1>1. CASE valueless = {}
  <2>1. \A k \in DOMAIN d[i] :
           d[i][k].target # 0 =>
              /\ one[d[i][k].target].kind = "value"
              /\ one[d[i][k].target] = two[d[i][k].target]
    BY <1>1 DEF Same, ValuesBefore
  <2>2. Failed(d, i, one) = {} /\ Failed(d, i, two) = {}
    BY <2>1 DEF Failed
  <2>3. \A ref \in ToSet(d[i]) :
           ref.target # 0 => one[ref.target] = two[ref.target]
    BY <2>1 DEF ToSet
  <2>4. Evaluate(list, d, b, i, one) = Evaluate(list, d, b, i, two)
    <3> DEFINE Given(n) == { ref \in ToSet(d[i]) : ref.name = n /\ ref.target # 0 }
               Env(o) == [n \in DOMAIN b |->
                            IF Given(n) = {} THEN b[n]
                            ELSE LET ref == CHOOSE ref \in Given(n) : TRUE
                                 IN  [kind |-> "absolute", value |-> o[ref.target].value]]
    <3>1. ASSUME NEW n, Given(n) # {}
          PROVE  LET ref == CHOOSE ref \in Given(n) : TRUE
                 IN  one[ref.target] = two[ref.target]
      <4>1. PICK ref : ref = CHOOSE r \in Given(n) : TRUE
        OBVIOUS
      <4>2. ref \in Given(n)
        BY <3>1, <4>1
      <4>3. QED
        BY <2>3, <4>1, <4>2
    <3>2. Env(one) = Env(two)
      BY <3>1
    <3> HIDE DEF Env
    <3>3. QED
      BY <2>2, <3>2 DEF Evaluate, Failed, Env
  <2>5. QED
    BY <2>4 DEF Same
<1>2. CASE valueless # {}
  <2>1. valueless \in SUBSET Nat
    OBVIOUS
  <2>2. PICK k \in valueless : \A q \in valueless : k <= q
    BY <1>2, <2>1, LeastElement
  <2>3. ValuesBefore(d, i, k, one)
    BY <2>1, <2>2 DEF ValuesBefore
  <2>4. /\ one[d[i][k].target].kind = "error"
        /\ two[d[i][k].target].kind = "error"
        /\ Same(one[d[i][k].target], two[d[i][k].target])
    BY <2>2, <2>3 DEF Same
  <2>5. ValuesBefore(d, i, k, two)
    <3>1. SUFFICES ASSUME NEW q \in DOMAIN d[i], q < k, d[i][q].target # 0
                   PROVE  two[d[i][q].target].kind = "value"
      BY DEF ValuesBefore
    <3>2. ValuesBefore(d, i, q, one)
      <4>1. k \in Nat /\ q \in Nat /\ \A r \in DOMAIN d[i] : r \in Nat
        BY <2>2
      <4>2. QED
        BY <2>3, <3>1, <4>1 DEF ValuesBefore
    <3>3. QED
      BY <2>3, <3>1, <3>2 DEF Same, ValuesBefore
  <2>6. /\ Evaluate(list, d, b, i, one) = one[d[i][k].target]
        /\ Evaluate(list, d, b, i, two) = two[d[i][k].target]
    BY <2>2, <2>3, <2>4, <2>5, EvaluateStops
  <2>7. QED
    BY <2>4, <2>6
<1>3. QED
  BY <1>1, <1>2

IsCyclic(outcome) == outcome.kind = "error" /\ outcome.error = "cyclic"

\* When the first dependency without a value is in a cycle, so is the
\* assignment.
LEMMA EvaluateCyclic ==
  ASSUME NEW list, NEW d, NEW b, NEW i, NEW outcome, NEW k \in DOMAIN d[i],
         DOMAIN d[i] \in SUBSET Nat,
         d[i][k].target # 0,
         IsCyclic(outcome[d[i][k].target]),
         \A q \in DOMAIN d[i] :
            q < k /\ d[i][q].target # 0 =>
               \/ outcome[d[i][q].target].kind = "value"
               \/ IsCyclic(outcome[d[i][q].target])
  PROVE  IsCyclic(Evaluate(list, d, b, i, outcome))
<1>1. k \in Failed(d, i, outcome)
  BY DEF Failed, IsCyclic
<1>2. Failed(d, i, outcome) \in SUBSET Nat
  BY DEF Failed
<1>3. PICK m \in Failed(d, i, outcome) : \A q \in Failed(d, i, outcome) : m <= q
  BY <1>1, <1>2, LeastElement
<1>4. IsCyclic(outcome[d[i][m].target])
  <2>1. m = k \/ m < k
    BY <1>1, <1>2, <1>3
  <2>2. QED
    BY <2>1 DEF Failed
<1>5. QED
  BY <1>3, <1>4, EvaluateFails

\* Outcomes that tell more than others, of the dependencies that were taken
\* to be in a cycle, tell more of the assignment.
LEMMA EvaluateRefines ==
  ASSUME NEW list, NEW d, NEW b, NEW i, NEW one, NEW two,
         DOMAIN d[i] \in SUBSET Nat,
         \A k \in DOMAIN d[i] :
            d[i][k].target # 0 =>
               /\ one[d[i][k].target].kind \in {"value", "error"}
               /\ \/ IsCyclic(one[d[i][k].target])
                  \/ Same(one[d[i][k].target], two[d[i][k].target])
  PROVE  \/ IsCyclic(Evaluate(list, d, b, i, one))
         \/ Same(Evaluate(list, d, b, i, one), Evaluate(list, d, b, i, two))
<1>1. SUFFICES ASSUME ~IsCyclic(Evaluate(list, d, b, i, one))
               PROVE  Same(Evaluate(list, d, b, i, one), Evaluate(list, d, b, i, two))
  OBVIOUS
<1>2. ASSUME NEW k \in DOMAIN d[i], d[i][k].target # 0, ValuesBefore(d, i, k, one)
      PROVE  /\ one[d[i][k].target].kind \in {"value", "error"}
             /\ Same(one[d[i][k].target], two[d[i][k].target])
  <2>1. ~IsCyclic(one[d[i][k].target])
    <3>1. SUFFICES ASSUME IsCyclic(one[d[i][k].target])
                   PROVE  FALSE
      OBVIOUS
    <3>2. Evaluate(list, d, b, i, one) = one[d[i][k].target]
      BY <1>2, <3>1, EvaluateStops DEF IsCyclic
    <3>3. QED
      BY <1>1, <3>1, <3>2
  <2>2. QED
    BY <1>2, <2>1
<1>3. QED
  BY <1>2, EvaluateSame

-----------------------------------------------------------------------------
(* The definition by depth.                                                *)

\* One more assignment in every chain.
Deeper(list, b, outcome) ==
    [i \in 1 .. Len(list) |-> Evaluate(list, Dependencies(list), b, i, outcome)]

Depths(list, b, depth) ==
    /\ depth[0] = [i \in 1 .. Len(list) |-> Cyclic]
    /\ \A k \in 1 .. Len(list) : depth[k] = Deeper(list, b, depth[k - 1])

Solves(depth, list, b, n) ==
    depth = [k \in 0 .. n |-> IF k = 0 THEN [i \in 1 .. Len(list) |-> Cyclic]
                              ELSE Deeper(list, b, depth[k - 1])]

\* The recursion that defines Outcomes has a solution: up to any depth, by
\* the least depth up to which it would have none.
LEMMA DepthsExist ==
  ASSUME NEW list, NEW b, NEW n \in Nat
  PROVE  \E depth : Solves(depth, list, b, n)
<1> USE DEF Solves
<1> DEFINE Without == { m \in Nat : ~ \E depth : Solves(depth, list, b, m) }
<1>1. SUFFICES ASSUME Without # {}
               PROVE  FALSE
  OBVIOUS
<1>3. PICK m \in Without : \A k \in Without : m <= k
  BY <1>1, LeastElement, Without \in SUBSET Nat
<1>4. \E depth : Solves(depth, list, b, 0)
  <2>1. Solves([k \in 0 .. 0 |-> [i \in 1 .. Len(list) |-> Cyclic]], list, b, 0)
    OBVIOUS
  <2>2. QED
    BY <2>1
<1>5. m \in Nat \ {0} /\ m - 1 \in Nat /\ m - 1 \notin Without
  <2>1. m \in Nat /\ m # 0
    BY <1>3, <1>4
  <2>2. m - 1 \in Nat /\ ~ (m <= m - 1)
    BY <2>1
  <2>3. QED
    BY <1>3, <2>1, <2>2
<1>6. PICK depth : Solves(depth, list, b, m - 1)
  BY <1>5
<1> DEFINE longer == [k \in 0 .. m |-> IF k = m THEN Deeper(list, b, depth[m - 1])
                                       ELSE depth[k]]
<1>7. Solves(longer, list, b, m)
  <2>1. ASSUME NEW k \in 0 .. m
        PROVE  longer[k] = IF k = 0 THEN [i \in 1 .. Len(list) |-> Cyclic]
                           ELSE Deeper(list, b, longer[k - 1])
    <3>1. \A q \in 0 .. m - 1 : longer[q] = depth[q]
      BY <1>5
    <3>2. CASE k = m
      <4>1. longer[m] = Deeper(list, b, depth[m - 1])
        BY <1>5
      <4>2. longer[m - 1] = depth[m - 1] /\ k # 0
        BY <1>5, <3>1, <3>2
      <4>3. QED
        BY <3>2, <4>1, <4>2
    <3>3. CASE k \in 0 .. m - 1
      <4>1. depth[k] = IF k = 0 THEN [i \in 1 .. Len(list) |-> Cyclic]
                       ELSE Deeper(list, b, depth[k - 1])
        BY <1>5, <1>6, <3>3
      <4>2. k # 0 => longer[k - 1] = depth[k - 1]
        BY <1>5, <3>1, <3>3
      <4>3. QED
        BY <3>1, <3>3, <4>1, <4>2
    <3>4. QED
      BY <1>5, <3>2, <3>3
  <2>2. longer = [k \in 0 .. m |-> longer[k]]
    OBVIOUS
  <2> HIDE DEF longer
  <2>3. QED
    BY <2>1, <2>2
<1>8. QED
  BY <1>3, <1>7

LEMMA OutcomesAreDepths ==
  ASSUME NEW list, NEW b, WellFormed(list)
  PROVE  \E depth : Depths(list, b, depth) /\ Outcomes(list, b) = depth[Len(list)]
<1> DEFINE n == Len(list)
           deps == Dependencies(list)
           Body(f) == [k \in 0 .. n |->
                         IF k = 0 THEN [i \in 1 .. n |-> Cyclic]
                         ELSE LET outcome == f[k - 1]
                              IN  [i \in 1 .. n |-> Evaluate(list, deps, b, i, outcome)]
                                    \o <<>>]
<1>1. n \in Nat
  BY DEF WellFormed, IsSequence
<1>2. Outcomes(list, b) = (CHOOSE f : f = Body(f))[n]
  BY DEF Outcomes
<1>3. ASSUME NEW outcome
      PROVE  [i \in 1 .. n |-> Evaluate(list, deps, b, i, outcome)] \o <<>>
                = Deeper(list, b, outcome)
  <2> DEFINE row == [i \in 1 .. n |-> Evaluate(list, deps, b, i, outcome)]
  <2>1. row \in Seq({ row[i] : i \in 1 .. n })
    BY <1>1
  <2>2. row = Deeper(list, b, outcome)
    BY DEF Deeper
  <2> HIDE DEF row
  <2>3. row \o <<>> = row
    BY <2>1, ConcatEmptySeq
  <2>4. QED
    BY <2>2, <2>3 DEF row
<1>4. \A f : Body(f) = [k \in 0 .. n |-> IF k = 0 THEN [i \in 1 .. Len(list) |-> Cyclic]
                                         ELSE Deeper(list, b, f[k - 1])]
  BY <1>3
<1> HIDE DEF Body, n, deps
<1>5. \E f : f = Body(f)
  <2>1. PICK f : Solves(f, list, b, n)
    BY <1>1, DepthsExist
  <2>2. QED
    BY <1>4, <2>1 DEF Solves
<1>6. PICK depth : depth = (CHOOSE f : f = Body(f)) /\ depth = Body(depth)
  BY <1>5
<1>7. Depths(list, b, depth)
  <2>1. depth = [k \in 0 .. n |-> IF k = 0 THEN [i \in 1 .. Len(list) |-> Cyclic]
                                  ELSE Deeper(list, b, depth[k - 1])]
    BY <1>4, <1>6
  <2>2. depth[0] = [i \in 1 .. Len(list) |-> Cyclic]
    <3>1. 0 \in 0 .. n
      BY <1>1
    <3>2. QED
      BY <2>1, <3>1
  <2>3. ASSUME NEW k \in 1 .. n
        PROVE  depth[k] = Deeper(list, b, depth[k - 1])
    <3>1. k \in 0 .. n /\ k # 0
      BY <1>1
    <3>2. QED
      BY <2>1, <3>1
  <2>4. QED
    BY <2>2, <2>3 DEF Depths, n
<1>8. QED
  BY <1>2, <1>6, <1>7 DEF n

-----------------------------------------------------------------------------
(* From some depth on, and that is not more than the number of             *)
(* assignments, a greater depth gives nothing new.                         *)

\* What the lemmas below assume of the list.
LEMMA DependenciesOf ==
  ASSUME NEW list, WellFormed(list), NEW i \in 1 .. Len(list)
  PROVE  LET d == Dependencies(list)
         IN  /\ DOMAIN d[i] \in SUBSET Nat
             /\ \A k \in DOMAIN d[i] :
                   d[i][k].target # 0 => d[i][k].target \in 1 .. Len(list)
<1> DEFINE d == Dependencies(list)
<1>1. /\ Len(d[i]) \in Nat
      /\ DOMAIN d[i] = 1 .. Len(d[i])
      /\ \A k \in 1 .. Len(d[i]) : d[i][k].target \in 0 .. Len(list)
  BY DependenciesInList
<1>2. Len(list) \in Nat
  BY DEF WellFormed, IsSequence
<1> HIDE DEF d
<1>3. QED
  BY <1>1, <1>2 DEF d

LEMMA DepthResolves ==
  ASSUME NEW list, NEW b, WellFormed(list), NEW depth, Depths(list, b, depth),
         NEW k \in 0 .. Len(list), NEW i \in 1 .. Len(list)
  PROVE  depth[k][i].kind \in {"value", "error"}
<1>1. CASE k = 0
  BY <1>1 DEF Depths, Cyclic
<1>2. CASE k # 0
  <2>1. k \in 1 .. Len(list)
    BY <1>2 DEF WellFormed, IsSequence
  <2>2. depth[k][i] = Evaluate(list, Dependencies(list), b, i, depth[k - 1])
    BY <2>1 DEF Depths, Deeper
  <2>3. QED
    BY <2>2, DependenciesOf, EvaluateResolves
<1>3. QED
  BY <1>1, <1>2

\* A greater depth changes the outcome of what was in a cycle only.
LEMMA DepthRefines ==
  ASSUME NEW list, NEW b, WellFormed(list), NEW depth, Depths(list, b, depth)
  PROVE  \A k \in 0 .. Len(list) : \A i \in 1 .. Len(list) :
            \/ IsCyclic(depth[k][i])
            \/ Same(depth[k][i], Deeper(list, b, depth[k])[i])
<1> DEFINE n == Len(list)
           Claim(k) == \A i \in 1 .. n :
                          \/ IsCyclic(depth[k][i])
                          \/ Same(depth[k][i], Deeper(list, b, depth[k])[i])
           Bad == { k \in 0 .. n : ~Claim(k) }
<1>1. n \in Nat
  BY DEF WellFormed, IsSequence
<1>2. SUFFICES ASSUME Bad # {}
               PROVE  FALSE
  OBVIOUS
<1>3. PICK k \in Bad : \A q \in Bad : k <= q
  BY <1>1, <1>2, LeastElement, Bad \in SUBSET Nat
<1>4. Claim(0)
  BY DEF Depths, IsCyclic, Cyclic
<1>5. k \in 1 .. n /\ k - 1 \in 0 .. n /\ ~ (k <= k - 1)
  BY <1>1, <1>3, <1>4
<1>6. Claim(k - 1)
  BY <1>3, <1>5
<1>7. depth[k] = Deeper(list, b, depth[k - 1])
  BY <1>5 DEF Depths
<1>8. ASSUME NEW i \in 1 .. n
      PROVE  \/ IsCyclic(depth[k][i])
             \/ Same(depth[k][i], Deeper(list, b, depth[k])[i])
  <2> DEFINE d == Dependencies(list)
  <2>1. /\ DOMAIN d[i] \in SUBSET Nat
        /\ \A q \in DOMAIN d[i] : d[i][q].target # 0 => d[i][q].target \in 1 .. n
    BY DependenciesOf
  <2>2. \A j \in 1 .. n :
           /\ depth[k - 1][j].kind \in {"value", "error"}
           /\ IsCyclic(depth[k - 1][j]) \/ Same(depth[k - 1][j], depth[k][j])
    BY <1>5, <1>6, <1>7, DepthResolves
  <2>3. /\ depth[k][i] = Evaluate(list, d, b, i, depth[k - 1])
        /\ Deeper(list, b, depth[k])[i] = Evaluate(list, d, b, i, depth[k])
    BY <1>7 DEF Deeper
  <2> HIDE DEF d
  <2>4. QED
    BY <2>1, <2>2, <2>3, EvaluateRefines
<1>9. QED
  BY <1>3, <1>8

\* Nothing new at one depth more.
Settled(list, b, outcome) ==
    \A i \in 1 .. Len(list) : Same(outcome[i], Deeper(list, b, outcome)[i])

Solved(list, outcome) == { i \in 1 .. Len(list) : ~IsCyclic(outcome[i]) }

\* What is settled stays so.
LEMMA StaysSettled ==
  ASSUME NEW list, NEW b, WellFormed(list), NEW depth, Depths(list, b, depth),
         NEW k \in 1 .. Len(list), Settled(list, b, depth[k - 1])
  PROVE  Settled(list, b, depth[k])
<1> DEFINE d == Dependencies(list)
<1>1. /\ k - 1 \in 0 .. Len(list)
      /\ depth[k] = Deeper(list, b, depth[k - 1])
  BY DEF Depths, WellFormed, IsSequence
<1>2. SUFFICES ASSUME NEW i \in 1 .. Len(list)
               PROVE  Same(Evaluate(list, d, b, i, depth[k - 1]),
                           Evaluate(list, d, b, i, depth[k]))
  BY <1>1 DEF Settled, Deeper
<1>3. /\ DOMAIN d[i] \in SUBSET Nat
      /\ \A q \in DOMAIN d[i] : d[i][q].target # 0 => d[i][q].target \in 1 .. Len(list)
  BY DependenciesOf
<1>4. \A j \in 1 .. Len(list) : /\ depth[k - 1][j].kind \in {"value", "error"}
                                /\ Same(depth[k - 1][j], depth[k][j])
  BY <1>1, DepthResolves DEF Settled
<1> HIDE DEF d
<1>5. QED
  BY <1>3, <1>4, EvaluateSame

\* Until then, every depth solves an assignment more; so that is the latest
\* when all are solved.
LEMMA Settles ==
  ASSUME NEW list, NEW b, WellFormed(list), NEW depth, Depths(list, b, depth)
  PROVE  Settled(list, b, depth[Len(list)])
<1> DEFINE n == Len(list)
           S(k) == Solved(list, depth[k])
           Claim(k) == Settled(list, b, depth[k]) \/ Cardinality(S(k)) >= k
           Bad == { k \in 0 .. n : ~Claim(k) }
<1>1. n \in Nat /\ IsFiniteSet(1 .. n) /\ Cardinality(1 .. n) = n
  <2>1. n \in Nat
    BY DEF WellFormed, IsSequence
  <2>2. QED
    BY <2>1, FS_Interval
<1>2. \A k \in 0 .. n : /\ S(k) \in SUBSET (1 .. n)
                        /\ IsFiniteSet(S(k))
                        /\ Cardinality(S(k)) \in Nat
  <2>1. \A k \in 0 .. n : S(k) \in SUBSET (1 .. n)
    BY DEF Solved
  <2>2. QED
    BY <1>1, <2>1, FS_Subset, FS_CardinalityType
<1>3. \A k \in 0 .. n :
         S(k) = { i \in 1 .. n : ~IsCyclic(Deeper(list, b, depth[k])[i]) } =>
            Settled(list, b, depth[k])
  <2>1. SUFFICES ASSUME NEW k \in 0 .. n, NEW i \in 1 .. n,
                        IsCyclic(depth[k][i]) <=> IsCyclic(Deeper(list, b, depth[k])[i])
                 PROVE  Same(depth[k][i], Deeper(list, b, depth[k])[i])
    BY DEF Settled, Solved
  <2>2. CASE IsCyclic(depth[k][i])
    BY <2>1, <2>2 DEF IsCyclic, Same
  <2>3. CASE ~IsCyclic(depth[k][i])
    BY <2>3, DepthRefines
  <2>4. QED
    BY <2>2, <2>3
<1>4. Bad = {}
  <2>1. SUFFICES ASSUME Bad # {}
                 PROVE  FALSE
    OBVIOUS
  <2>2. PICK k \in Bad : \A q \in Bad : k <= q
    BY <1>1, <2>1, LeastElement, Bad \in SUBSET Nat
  <2>3. Claim(0)
    BY <1>1, <1>2
  <2>4. k \in 1 .. n /\ k - 1 \in 0 .. n /\ ~ (k <= k - 1)
    BY <1>1, <2>2, <2>3
  <2>5. Claim(k - 1)
    BY <2>2, <2>4
  <2>6. ~Settled(list, b, depth[k - 1])
    BY <2>2, <2>4, StaysSettled
  <2>7. depth[k] = Deeper(list, b, depth[k - 1])
    BY <2>4 DEF Depths
  <2>8. S(k - 1) # S(k)
    BY <1>3, <2>4, <2>6, <2>7 DEF Solved
  <2>9. S(k - 1) \subseteq S(k)
    <3>1. SUFFICES ASSUME NEW i \in 1 .. n, ~IsCyclic(depth[k - 1][i])
                   PROVE  ~IsCyclic(depth[k][i])
      BY DEF Solved
    <3>2. Same(depth[k - 1][i], depth[k][i])
      BY <2>4, <2>7, <3>1, DepthRefines
    <3>3. QED
      BY <3>1, <3>2 DEF Same, IsCyclic
  <2> HIDE DEF S
  <2>10. Cardinality(S(k - 1)) < Cardinality(S(k))
    BY <1>2, <2>4, <2>8, <2>9, StrictlyMore
  <2>11. Cardinality(S(k)) >= k
    BY <1>1, <1>2, <2>4, <2>5, <2>6, <2>10
  <2>12. QED
    BY <2>2, <2>11
<1>5. CASE Settled(list, b, depth[n])
  BY <1>5
<1>6. CASE ~Settled(list, b, depth[n])
  <2>1. n \in 0 .. n
    BY <1>1
  <2>2. Cardinality(S(n)) >= n
    BY <1>4, <1>6, <2>1
  <2>3. S(n) = 1 .. n
    <3> HIDE DEF S
    <3>1. CASE S(n) # 1 .. n
      <4>1. Cardinality(S(n)) < n
        BY <1>1, <1>2, <2>1, <3>1, StrictlyMore
      <4>2. QED
        BY <1>1, <1>2, <2>1, <2>2, <4>1
    <3>2. QED
      BY <3>1
  <2>4. \A i \in 1 .. n : ~IsCyclic(depth[n][i])
    BY <2>3 DEF Solved
  <2>5. QED
    BY <2>1, <2>4, DepthRefines DEF Settled
<1>7. QED
  BY <1>5, <1>6

\* Outcomes solves the equations of the source: the outcome of every
\* assignment is that of its expression with the outcomes of the others
\* (evaluate_assignment), up to the assignment that an error names.
THEOREM OutcomesSolve ==
  ASSUME NEW list, NEW b, WellFormed(list), NEW i \in 1 .. Len(list)
  PROVE  LET meant == Outcomes(list, b)
         IN  /\ meant[i].kind \in {"value", "error"}
             /\ Same(meant[i], Evaluate(list, Dependencies(list), b, i, meant))
<1>1. PICK depth : Depths(list, b, depth) /\ Outcomes(list, b) = depth[Len(list)]
  BY OutcomesAreDepths
<1>2. Len(list) \in 0 .. Len(list)
  BY DEF WellFormed, IsSequence
<1>3. depth[Len(list)][i].kind \in {"value", "error"}
  BY <1>1, <1>2, DepthResolves
<1>4. Settled(list, b, depth[Len(list)])
  BY <1>1, Settles
<1>5. QED
  BY <1>1, <1>3, <1>4 DEF Settled, Deeper

\* Assignments that wait for one another, each with values for what comes
\* before in its expression, have no outcome but the error of a cycle.
THEOREM CyclesAreCyclic ==
  ASSUME NEW list, NEW b, WellFormed(list), NEW X \in SUBSET (1 .. Len(list)),
         \A i \in X :
            LET d == Dependencies(list)
            IN  \E k \in DOMAIN d[i] : /\ d[i][k].target # 0
                                       /\ d[i][k].target \in X
                                       /\ ValuesBefore(d, i, k, Outcomes(list, b))
  PROVE  \A i \in X : IsCyclic(Outcomes(list, b)[i])
<1> DEFINE n == Len(list)
           d == Dependencies(list)
<1>1. PICK depth : Depths(list, b, depth) /\ Outcomes(list, b) = depth[n]
  BY OutcomesAreDepths
<1>2. n \in Nat
  BY DEF WellFormed, IsSequence
\* what has a value in the end had it before, or was taken to be in a cycle
<1>3. \A k \in 0 .. n : \A i \in 1 .. n :
         depth[n][i].kind = "value" =>
            IsCyclic(depth[k][i]) \/ depth[k][i].kind = "value"
  <2> DEFINE Claim(k) == \A i \in 1 .. n :
                           depth[n][i].kind = "value" =>
                              IsCyclic(depth[n - k][i]) \/ depth[n - k][i].kind = "value"
             Bad == { k \in 0 .. n : ~Claim(k) }
  <2>1. Bad = {}
    <3>1. SUFFICES ASSUME Bad # {}
                   PROVE  FALSE
      OBVIOUS
    <3>2. PICK k \in Bad : \A q \in Bad : k <= q
      BY <1>2, <3>1, LeastElement, Bad \in SUBSET Nat
    <3>3. Claim(0)
      BY <1>2
    <3>4. k \in 1 .. n /\ k - 1 \in 0 .. n /\ ~ (k <= k - 1)
      BY <1>2, <3>2, <3>3
    <3>5. Claim(k - 1)
      BY <3>2, <3>4
    <3>6. PICK m : m = n - k
      OBVIOUS
    <3>7. m \in 0 .. n /\ m + 1 \in 1 .. n /\ m + 1 = n - (k - 1) /\ (m + 1) - 1 = m
      BY <1>2, <3>4, <3>6
    <3>8. depth[m + 1] = Deeper(list, b, depth[m])
      BY <1>1, <3>7 DEF Depths
    <3>9. ASSUME NEW i \in 1 .. n, depth[n][i].kind = "value"
          PROVE  IsCyclic(depth[m][i]) \/ depth[m][i].kind = "value"
      <4>1. IsCyclic(depth[m + 1][i]) \/ depth[m + 1][i].kind = "value"
        BY <3>5, <3>7, <3>9
      <4>2. IsCyclic(depth[m][i]) \/ Same(depth[m][i], depth[m + 1][i])
        BY <1>1, <3>7, <3>8, DepthRefines
      <4>3. QED
        BY <4>1, <4>2 DEF IsCyclic, Same
    <3>10. QED
      BY <3>2, <3>6, <3>9
  <2>2. TAKE k \in 0 .. n
  <2>3. n - k \in 0 .. n /\ n - (n - k) = k
    BY <1>2
  <2>4. Claim(n - k)
    BY <2>1, <2>3
  <2>5. QED
    BY <2>3, <2>4
<1> DEFINE Bad == { k \in 0 .. n : ~ \A i \in X : IsCyclic(depth[k][i]) }
<1>4. Bad = {}
  <2>1. SUFFICES ASSUME Bad # {}
                 PROVE  FALSE
    OBVIOUS
  <2>2. PICK k \in Bad : \A q \in Bad : k <= q
    BY <1>2, <2>1, LeastElement, Bad \in SUBSET Nat
  <2>3. \A i \in X : IsCyclic(depth[0][i])
    BY <1>1 DEF Depths, IsCyclic, Cyclic
  <2>4. k \in 1 .. n /\ k - 1 \in 0 .. n /\ ~ (k <= k - 1)
    BY <1>2, <2>2, <2>3
  <2>5. \A i \in X : IsCyclic(depth[k - 1][i])
    BY <2>2, <2>4
  <2>6. ASSUME NEW i \in X
        PROVE  IsCyclic(depth[k][i])
    <3>1. PICK m \in DOMAIN d[i] : /\ d[i][m].target # 0
                                   /\ d[i][m].target \in X
                                   /\ ValuesBefore(d, i, m, depth[n])
      BY <1>1
    <3>2. depth[k][i] = Evaluate(list, d, b, i, depth[k - 1])
      <4>1. k \in 1 .. Len(list)
        BY <2>4
      <4>2. depth[k] = Deeper(list, b, depth[k - 1])
        BY <1>1, <4>1 DEF Depths
      <4>3. QED
        BY <4>2 DEF Deeper
    <3>3. /\ DOMAIN d[i] \in SUBSET Nat
          /\ \A q \in DOMAIN d[i] : d[i][q].target # 0 => d[i][q].target \in 1 .. n
      BY DependenciesOf
    <3> HIDE DEF d, n
    <3>4. \A q \in DOMAIN d[i] :
             q < m /\ d[i][q].target # 0 =>
                \/ depth[k - 1][d[i][q].target].kind = "value"
                \/ IsCyclic(depth[k - 1][d[i][q].target])
      BY <1>3, <2>4, <3>1, <3>3 DEF ValuesBefore
    <3>5. IsCyclic(depth[k - 1][d[i][m].target])
      BY <2>5, <3>1
    <3>6. QED
      BY <3>1, <3>2, <3>3, <3>4, <3>5, EvaluateCyclic
  <2>7. QED
    BY <2>2, <2>6
<1>5. n \in 0 .. n
  BY <1>2
<1>6. QED
  BY <1>1, <1>4, <1>5
=============================================================================
