---------------------------- MODULE Money_proofs ----------------------------
(***************************************************************************)
(* Sums and selections of lists of any length.  A step from one prefix of  *)
(* a list to the next is put as a set of the lengths it holds of           *)
(* (ByPrefix), so that every induction here is a first-order argument.     *)
(***************************************************************************)
EXTENDS Money, FiniteSetTheorems, TLAPS

\* A set of numbers has a smallest one.
LEMMA Smallest ==
  ASSUME NEW T, T \subseteq Nat, T # {}
  PROVE  \E m \in T : \A k \in T : m <= k
<1> DEFINE Prefixes == {0 .. m : m \in T}
<1>1. \A m \in T : 0 .. m \in SUBSET Nat /\ IsFiniteSet(0 .. m)
  BY FS_Interval
<1>2. Prefixes \subseteq FiniteSubsetsOf(Nat)
  BY <1>1 DEF FiniteSubsetsOf
<1>3. Prefixes # {}
  OBVIOUS
<1>4. IsWellFoundedOn(StrictSubsetOrdering(Nat), FiniteSubsetsOf(Nat))
  BY FS_StrictSubsetOrderingWellFounded
<1>5. \E c \in Prefixes : \A d \in Prefixes : ~(<<d, c>> \in StrictSubsetOrdering(Nat))
  <2> HIDE DEF Prefixes
  <2>1. QED
    BY <1>2, <1>3, <1>4, WFMin
<1>6. PICK m \in T : \A k \in T : ~(<<0 .. k, 0 .. m>> \in StrictSubsetOrdering(Nat))
  BY <1>5
<1>7. ASSUME NEW k \in T, k < m PROVE FALSE
  <2>1. 0 .. k \subseteq 0 .. m /\ m \in 0 .. m /\ m \notin 0 .. k
    BY <1>7
  <2>2. 0 .. k \in SUBSET Nat /\ 0 .. m \in SUBSET Nat /\ 0 .. k # 0 .. m
    BY <2>1, <1>1
  <2>3. <<0 .. k, 0 .. m>> \in StrictSubsetOrdering(Nat)
    BY <2>1, <2>2 DEF StrictSubsetOrdering
  <2>4. QED
    BY <1>6, <2>3
<1>8. QED
  BY <1>7

\* What holds of 0, and of n + 1 where it holds of n, holds up to N.
LEMMA ByPrefix ==
  ASSUME NEW N \in Nat, NEW S, 0 \in S, \A n \in 0 .. N - 1 : n \in S => n + 1 \in S
  PROVE  N \in S /\ \A n \in 0 .. N : n \in S
<1> SUFFICES ASSUME \E n \in 0 .. N : n \notin S PROVE FALSE
  OBVIOUS
<1> DEFINE T == {n \in 0 .. N : n \notin S}
<1>1. T \subseteq Nat /\ T # {}
  OBVIOUS
<1>2. PICK m \in T : \A k \in T : m <= k
  BY <1>1, Smallest
<1>3. m - 1 \in 0 .. N - 1 /\ m - 1 \in S
  BY <1>2
<1>4. QED
  BY <1>3

\* A rule that gives each value from the one before has values up to any n.
ByRuleTo(f, n, V, first, next) ==
  /\ f \in [0 .. n -> V] /\ f[0] = first
  /\ \A k \in 0 .. n - 1 : f[k + 1] = next[k + 1][f[k]]

\* There is a function that follows such a rule up to any n.
LEMMA ByRule ==
  ASSUME NEW N \in Nat, NEW V, NEW first \in V, NEW next \in [1 .. N -> [V -> V]]
  PROVE  \E f : ByRuleTo(f, N, V, first, next)
<1> DEFINE Reached == {n \in 0 .. N : \E f : ByRuleTo(f, n, V, first, next)}
<1>1. 0 \in Reached
  <2>1. ByRuleTo([k \in 0 .. 0 |-> first], 0, V, first, next)
    BY DEF ByRuleTo
  <2>2. QED
    BY <2>1
<1>2. ASSUME NEW n \in 0 .. N - 1, n \in Reached
      PROVE  n + 1 \in Reached
  <2>1. PICK f : ByRuleTo(f, n, V, first, next)
    BY <1>2
  <2> DEFINE g == [k \in 0 .. n + 1 |-> IF k = n + 1 THEN next[n + 1][f[n]] ELSE f[k]]
  <2>2. n \in Nat /\ (n + 1) - 1 = n /\ f[n] \in V /\ n + 1 \in 1 .. N
    BY <2>1 DEF ByRuleTo
  <2>3. next[n + 1][f[n]] \in V
    BY <2>2
  <2>4. g \in [0 .. n + 1 -> V] /\ g[0] = first
    BY <2>1, <2>2, <2>3 DEF ByRuleTo
  <2>5. \A k \in 0 .. (n + 1) - 1 : g[k + 1] = next[k + 1][g[k]]
    <3>1. g[n + 1] = next[n + 1][f[n]] /\ \A k \in 0 .. n : g[k] = f[k]
      BY <2>2
    <3>2. \A k \in 0 .. n : k = n \/ k \in 0 .. n - 1
      BY <2>2
    <3>3. \A k \in 0 .. n - 1 : g[k + 1] = f[k + 1]
      BY <2>2, <3>1
    <3> HIDE DEF g
    <3>4. QED
      BY <2>1, <2>2, <3>1, <3>2, <3>3 DEF ByRuleTo
  <2>6. ByRuleTo(g, n + 1, V, first, next)
    <3> HIDE DEF g
    <3>1. QED
      BY <2>4, <2>5 DEF ByRuleTo
  <2> HIDE DEF g
  <2>7. QED
    BY <2>2, <2>6
<1>3. N \in Reached
  <2> HIDE DEF Reached
  <2>1. QED
    BY <1>1, <1>2, ByPrefix
<1>4. QED
  BY <1>3

\* The sums of the prefixes of a list of amounts follow one amount at a time.
LEMMA PartialSumsAre ==
  ASSUME NEW s \in Seq(Int)
  PROVE  LET p == PartialSums(s) IN
         /\ p \in [0 .. Len(s) -> Int] /\ p[0] = 0
         /\ \A n \in 0 .. Len(s) - 1 : p[n + 1] = p[n] + s[n + 1]
<1> DEFINE N == Len(s)
           next == [n \in 1 .. N |-> [x \in Int |-> x + s[n]]]
           Rule(f) == [n \in 0 .. N |-> IF n = 0 THEN 0 ELSE f[n - 1] + s[n]]
           r == PartialSums(s)
<1>1. N \in Nat /\ \A n \in 1 .. N : s[n] \in Int
  OBVIOUS
<1> HIDE DEF N
<1>2. next \in [1 .. N -> [Int -> Int]]
  BY <1>1
<1>3. \A n \in 1 .. N, x \in Int : next[n][x] = x + s[n]
  BY <1>1
<1> HIDE DEF next
<1>4. PICK f : ByRuleTo(f, N, Int, 0, next)
  <2>1. 0 \in Int
    OBVIOUS
  <2>2. QED
    BY <1>1, <1>2, <2>1, ByRule, Zenon
<1> USE DEF ByRuleTo
<1>5. f = Rule(f)
  <2>1. \A n \in 0 .. N : n # 0 => n - 1 \in 0 .. N - 1 /\ n = (n - 1) + 1 /\ n \in 1 .. N
    BY <1>1
  <2>2. ASSUME NEW n \in 0 .. N, n # 0 PROVE f[n] = f[n - 1] + s[n]
    <3>1. PICK k \in 0 .. N - 1 : k = n - 1 /\ n = k + 1
      BY <2>1, <2>2
    <3>2. f[k + 1] = next[k + 1][f[k]] /\ f[k] \in Int /\ k + 1 \in 1 .. N
      BY <1>1, <1>4
    <3>3. QED
      BY <1>3, <3>1, <3>2
  <2>3. QED
    BY <1>4, <2>2
<1>6. r = Rule(r)
  <2>1. r = CHOOSE g : g = Rule(g)
    BY DEF PartialSums, N
  <2>2. QED
    BY <1>5, <2>1
<1> HIDE DEF r
<1>7. r[0] = 0 /\ \A n \in 0 .. N - 1 : r[n + 1] = r[n] + s[n + 1]
  <2>1. 0 \in 0 .. N /\ \A n \in 0 .. N - 1 : n + 1 \in 0 .. N /\ n + 1 # 0 /\ (n + 1) - 1 = n
    BY <1>1
  <2>2. QED
    BY <1>6, <2>1
<1>8. \A n \in 0 .. N : r[n] \in Int
  <2> DEFINE S == {n \in 0 .. N : r[n] \in Int}
  <2>1. \A n \in 0 .. N - 1 : s[n + 1] \in Int /\ n + 1 \in 0 .. N
    BY <1>1
  <2>2. 0 \in S
    BY <1>1, <1>7
  <2>3. ASSUME NEW n \in 0 .. N - 1, n \in S PROVE n + 1 \in S
    <3>1. r[n + 1] = r[n] + s[n + 1] /\ r[n] \in Int
      BY <1>7, <2>3
    <3>2. QED
      BY <2>1, <3>1
  <2>4. \A n \in S : r[n] \in Int
    OBVIOUS
  <2> HIDE DEF S
  <2>5. \A n \in 0 .. N : n \in S
    BY <1>1, <2>2, <2>3, ByPrefix
  <2>6. QED
    BY <2>4, <2>5
<1>9. r \in [0 .. N -> Int]
  BY <1>6, <1>8
<1>10. QED
  BY <1>7, <1>9 DEF r, N

\* A list of amounts, as a function and as a sequence.
LEMMA AmountsAre ==
  ASSUME NEW n \in Nat, NEW a \in [1 .. n -> Int]
  PROVE  /\ a \in Seq(Int) /\ Len(a) = n
         /\ PartialSums(a) \in [0 .. n -> Int] /\ PartialSums(a)[0] = 0
         /\ \A k \in 0 .. n - 1 : PartialSums(a)[k + 1] = PartialSums(a)[k] + a[k + 1]
         /\ SumSeq(a) = PartialSums(a)[n]
<1>1. a \in Seq(Int) /\ Len(a) = n
  OBVIOUS
<1>2. QED
  BY <1>1, PartialSumsAre DEF SumSeq

\* A sum of amounts is an amount.
LEMMA SumType ==
  ASSUME NEW n \in Nat, NEW a \in [1 .. n -> Int]
  PROVE  SumSeq(a) \in Int
BY AmountsAre

\* A sum of nothing.
LEMMA SumOfNone ==
  ASSUME NEW a \in [1 .. 0 -> Int]
  PROVE  SumSeq(a) = 0
BY AmountsAre

\* Amount by amount no more, no more in all.
LEMMA SumMonotone ==
  ASSUME NEW n \in Nat, NEW a \in [1 .. n -> Int], NEW b \in [1 .. n -> Int],
         \A i \in 1 .. n : a[i] <= b[i]
  PROVE  SumSeq(a) <= SumSeq(b)
<1> DEFINE p == PartialSums(a)
           q == PartialSums(b)
           S == {k \in 0 .. n : p[k] <= q[k]}
<1>1. /\ p \in [0 .. n -> Int] /\ p[0] = 0 /\ SumSeq(a) = p[n]
      /\ \A k \in 0 .. n - 1 : p[k + 1] = p[k] + a[k + 1]
  BY AmountsAre
<1>2. /\ q \in [0 .. n -> Int] /\ q[0] = 0 /\ SumSeq(b) = q[n]
      /\ \A k \in 0 .. n - 1 : q[k + 1] = q[k] + b[k + 1]
  BY AmountsAre
<1> HIDE DEF p, q
<1>3. 0 \in S /\ \A k \in 0 .. n - 1 : k \in S => k + 1 \in S
  BY <1>1, <1>2
<1>4. \A k \in S : p[k] <= q[k]
  OBVIOUS
<1> HIDE DEF S
<1>5. n \in S
  BY <1>3, ByPrefix
<1>6. QED
  BY <1>1, <1>2, <1>4, <1>5

\* Two sums, added amount by amount.
LEMMA SumAdds ==
  ASSUME NEW n \in Nat, NEW a \in [1 .. n -> Int], NEW b \in [1 .. n -> Int],
         NEW c \in [1 .. n -> Int], \A i \in 1 .. n : c[i] = a[i] + b[i]
  PROVE  SumSeq(c) = SumSeq(a) + SumSeq(b)
<1> DEFINE p == PartialSums(a)
           q == PartialSums(b)
           r == PartialSums(c)
           S == {k \in 0 .. n : r[k] = p[k] + q[k]}
<1>1. /\ p \in [0 .. n -> Int] /\ p[0] = 0 /\ SumSeq(a) = p[n]
      /\ \A k \in 0 .. n - 1 : p[k + 1] = p[k] + a[k + 1]
  BY AmountsAre
<1>2. /\ q \in [0 .. n -> Int] /\ q[0] = 0 /\ SumSeq(b) = q[n]
      /\ \A k \in 0 .. n - 1 : q[k + 1] = q[k] + b[k + 1]
  BY AmountsAre
<1>3. /\ r \in [0 .. n -> Int] /\ r[0] = 0 /\ SumSeq(c) = r[n]
      /\ \A k \in 0 .. n - 1 : r[k + 1] = r[k] + c[k + 1]
  BY AmountsAre
<1> HIDE DEF p, q, r
<1>4. 0 \in S
  BY <1>1, <1>2, <1>3
<1>5. ASSUME NEW k \in 0 .. n - 1, k \in S PROVE k + 1 \in S
  <2>1. k \in 0 .. n /\ k + 1 \in 0 .. n /\ c[k + 1] = a[k + 1] + b[k + 1]
    OBVIOUS
  <2>2. p[k] \in Int /\ q[k] \in Int /\ a[k + 1] \in Int /\ b[k + 1] \in Int
    <3>1. k + 1 \in 1 .. n
      OBVIOUS
    <3>2. p[k] \in Int /\ q[k] \in Int
      BY <1>1, <1>2, <2>1
    <3>3. QED
      BY <3>1, <3>2
  <2>3. r[k + 1] = (p[k] + q[k]) + (a[k + 1] + b[k + 1])
    BY <1>3, <1>5, <2>1
  <2>4. p[k + 1] + q[k + 1] = (p[k] + a[k + 1]) + (q[k] + b[k + 1])
    BY <1>1, <1>2
  <2>5. QED
    BY <2>1, <2>2, <2>3, <2>4
<1>6. \A k \in S : r[k] = p[k] + q[k]
  OBVIOUS
<1> HIDE DEF S
<1>7. n \in S
  BY <1>4, <1>5, ByPrefix
<1>8. QED
  BY <1>1, <1>2, <1>3, <1>6, <1>7

\* Amounts that are each within half a dollar of another, in cents.
LEMMA SumWithin ==
  ASSUME NEW n \in Nat, NEW a \in [1 .. n -> Int], NEW b \in [1 .. n -> Int],
         \A i \in 1 .. n : 100 * a[i] - b[i] \in -50 .. 50
  PROVE  100 * SumSeq(a) - SumSeq(b) \in -(50 * n) .. 50 * n
<1> DEFINE p == PartialSums(a)
           q == PartialSums(b)
           S == {k \in 0 .. n : 100 * p[k] - q[k] \in -(50 * k) .. 50 * k}
<1>1. /\ p \in [0 .. n -> Int] /\ p[0] = 0 /\ SumSeq(a) = p[n]
      /\ \A k \in 0 .. n - 1 : p[k + 1] = p[k] + a[k + 1]
  BY AmountsAre
<1>2. /\ q \in [0 .. n -> Int] /\ q[0] = 0 /\ SumSeq(b) = q[n]
      /\ \A k \in 0 .. n - 1 : q[k + 1] = q[k] + b[k + 1]
  BY AmountsAre
<1> HIDE DEF p, q
<1>3. 0 \in S
  BY <1>1, <1>2
<1>4. ASSUME NEW k \in 0 .. n - 1, k \in S PROVE k + 1 \in S
  <2>1. 100 * a[k + 1] - b[k + 1] \in -50 .. 50 /\ k + 1 \in 0 .. n
    OBVIOUS
  <2>2. 100 * p[k] - q[k] \in -(50 * k) .. 50 * k
    BY <1>4
  <2>3. p[k] \in Int /\ q[k] \in Int /\ a[k + 1] \in Int /\ b[k + 1] \in Int /\ k \in Nat
    BY <1>1, <1>2
  <2>4. p[k + 1] = p[k] + a[k + 1] /\ q[k + 1] = q[k] + b[k + 1]
    BY <1>1, <1>2
  <2> DEFINE x == 100 * p[k] - q[k]
             u == 100 * a[k + 1] - b[k + 1]
  <2>5. 100 * p[k + 1] - q[k + 1] = x + u
    BY <2>3, <2>4
  <2>6. x + u \in -(50 * (k + 1)) .. 50 * (k + 1)
    <3>1. x \in -(50 * k) .. 50 * k /\ u \in -50 .. 50 /\ k \in Nat
      BY <2>1, <2>2, <2>3
    <3> HIDE DEF x, u
    <3>2. QED
      BY <3>1
  <2>7. 100 * p[k + 1] - q[k + 1] \in -(50 * (k + 1)) .. 50 * (k + 1)
    <3> HIDE DEF x, u
    <3>1. QED
      BY <2>5, <2>6
  <2>8. QED
    BY <2>1, <2>7
<1>5. \A k \in S : 100 * p[k] - q[k] \in -(50 * k) .. 50 * k
  OBVIOUS
<1> HIDE DEF S
<1>6. n \in S
  BY <1>3, <1>4, ByPrefix
<1>7. QED
  BY <1>1, <1>2, <1>5, <1>6

\* A sum of multiples.
LEMMA SumScales ==
  ASSUME NEW n \in Nat, NEW a \in [1 .. n -> Int], NEW b \in [1 .. n -> Int],
         NEW f \in Int, \A i \in 1 .. n : b[i] = f * a[i]
  PROVE  SumSeq(b) = f * SumSeq(a)
<1> DEFINE p == PartialSums(a)
           q == PartialSums(b)
           S == {k \in 0 .. n : q[k] = f * p[k]}
<1>1. /\ p \in [0 .. n -> Int] /\ p[0] = 0 /\ SumSeq(a) = p[n]
      /\ \A k \in 0 .. n - 1 : p[k + 1] = p[k] + a[k + 1]
  BY AmountsAre
<1>2. /\ q \in [0 .. n -> Int] /\ q[0] = 0 /\ SumSeq(b) = q[n]
      /\ \A k \in 0 .. n - 1 : q[k + 1] = q[k] + b[k + 1]
  BY AmountsAre
<1> HIDE DEF p, q
<1>3. \A x, y \in Int : f * (x + y) = f * x + f * y
  OBVIOUS
<1>4. 0 \in S
  BY <1>1, <1>2
<1>5. ASSUME NEW k \in 0 .. n - 1, k \in S PROVE k + 1 \in S
  <2>1. p[k] \in Int /\ a[k + 1] \in Int /\ k + 1 \in 0 .. n
    BY <1>1
  <2>2. f * (p[k] + a[k + 1]) = f * p[k] + f * a[k + 1]
    BY <1>3, <2>1
  <2>3. q[k + 1] = f * p[k + 1]
    BY <1>1, <1>2, <1>5, <2>2
  <2>4. QED
    BY <2>1, <2>3
<1>6. \A k \in S : q[k] = f * p[k]
  OBVIOUS
<1> HIDE DEF S
<1>7. n \in S
  BY <1>4, <1>5, ByPrefix
<1>8. QED
  BY <1>1, <1>2, <1>6, <1>7

\* The sum of two lists is the sum of their sums.
LEMMA SumJoins ==
  ASSUME NEW a \in Seq(Int), NEW b \in Seq(Int)
  PROVE  SumSeq(a \o b) = SumSeq(a) + SumSeq(b)
<1> DEFINE m == Len(a)
           n == Len(b)
           c == a \o b
<1>0. /\ m \in Nat /\ n \in Nat /\ a \in [1 .. m -> Int] /\ b \in [1 .. n -> Int]
      /\ c \in [1 .. m + n -> Int]
      /\ \A k \in 1 .. m : c[k] = a[k]
      /\ \A k \in 1 .. n : c[m + k] = b[k]
  <2>1. c \in Seq(Int) /\ Len(c) = m + n
    OBVIOUS
  <2>2. \A k \in 1 .. m : c[k] = a[k]
    OBVIOUS
  <2>3. \A k \in 1 .. n : c[m + k] = b[k]
    OBVIOUS
  <2>4. m \in Nat /\ n \in Nat /\ a \in [1 .. m -> Int] /\ b \in [1 .. n -> Int]
    OBVIOUS
  <2>5. c \in [1 .. m + n -> Int]
    <3> HIDE DEF c
    <3>1. QED
      BY <2>1, <2>4
  <2>6. QED
    BY <2>2, <2>3, <2>4, <2>5
<1> HIDE DEF m, n, c
<1> DEFINE p == PartialSums(a)
           q == PartialSums(b)
           r == PartialSums(c)
           S == {k \in 0 .. m : r[k] = p[k]}
           T == {k \in 0 .. n : r[m + k] = p[m] + q[k]}
<1>1. /\ p \in [0 .. m -> Int] /\ p[0] = 0 /\ SumSeq(a) = p[m]
      /\ \A k \in 0 .. m - 1 : p[k + 1] = p[k] + a[k + 1]
  BY <1>0, AmountsAre
<1>2. /\ q \in [0 .. n -> Int] /\ q[0] = 0 /\ SumSeq(b) = q[n]
      /\ \A k \in 0 .. n - 1 : q[k + 1] = q[k] + b[k + 1]
  BY <1>0, AmountsAre
<1>3. PICK l \in Nat : /\ l = m + n /\ r \in [0 .. l -> Int] /\ r[0] = 0
                       /\ SumSeq(c) = r[l]
                       /\ \A k \in 0 .. l - 1 : r[k + 1] = r[k] + c[k + 1]
  <2>1. PICK l \in Nat : l = m + n
    BY <1>0
  <2>2. c \in [1 .. l -> Int]
    BY <1>0, <2>1
  <2>3. /\ r \in [0 .. l -> Int] /\ r[0] = 0 /\ SumSeq(c) = r[l]
        /\ \A k \in 0 .. l - 1 : r[k + 1] = r[k] + c[k + 1]
    BY <2>2, AmountsAre
  <2>4. QED
    BY <2>1, <2>3
<1> HIDE DEF p, q, r
<1>4. 0 \in S /\ \A k \in 0 .. m - 1 : k \in S => k + 1 \in S
  BY <1>0, <1>1, <1>3
<1>5. \A k \in S : r[k] = p[k]
  OBVIOUS
<1> HIDE DEF S
<1>6. r[m] = p[m]
  <2>1. m \in S
    BY <1>0, <1>4, ByPrefix
  <2>2. QED
    BY <1>5, <2>1
<1>7. 0 \in T
  BY <1>0, <1>1, <1>2, <1>6
<1>8. ASSUME NEW k \in 0 .. n - 1, k \in T PROVE k + 1 \in T
  <2>1. m + k \in 0 .. m + n - 1 /\ (m + k) + 1 = m + (k + 1) /\ k + 1 \in 1 .. n
    BY <1>0
  <2>2. r[m + (k + 1)] = r[m + k] + b[k + 1]
    BY <1>0, <1>3, <2>1
  <2>3. q[k + 1] = q[k] + b[k + 1] /\ r[m + k] = p[m] + q[k]
    BY <1>2, <1>8
  <2>4. p[m] \in Int /\ q[k] \in Int /\ b[k + 1] \in Int
    BY <1>0, <1>1, <1>2
  <2>5. r[m + (k + 1)] = p[m] + q[k + 1]
    BY <2>2, <2>3, <2>4
  <2>6. QED
    BY <1>0, <2>5
<1>9. \A k \in T : r[m + k] = p[m] + q[k]
  OBVIOUS
<1> HIDE DEF T
<1>10. r[m + n] = p[m] + q[n]
  <2>1. n \in T
    BY <1>0, <1>7, <1>8, ByPrefix
  <2>2. QED
    BY <1>9, <2>1
<1>11. QED
  BY <1>1, <1>2, <1>3, <1>10 DEF c

\* One amount more.
LEMMA SumAppends ==
  ASSUME NEW a \in Seq(Int), NEW x \in Int
  PROVE  SumSeq(Append(a, x)) = SumSeq(a) + x
<1>1. Append(a, x) = a \o <<x>> /\ <<x>> \in Seq(Int)
  OBVIOUS
<1>2. SumSeq(<<x>>) = x
  <2>1. <<x>> \in [1 .. 1 -> Int] /\ <<x>>[1] = x
    OBVIOUS
  <2>2. 1 \in Nat /\ 0 \in 0 .. 1 - 1
    OBVIOUS
  <2> DEFINE one == <<x>>
             p == PartialSums(one)
  <2>3. p[0] = 0 /\ p[0 + 1] = p[0] + one[0 + 1] /\ SumSeq(one) = p[1]
    BY <2>1, <2>2, AmountsAre, Zenon
  <2>4. one[1] = x
    OBVIOUS
  <2> HIDE DEF one, p
  <2>5. SumSeq(one) = x
    BY <2>3, <2>4
  <2>6. QED
    BY <2>5 DEF one
<1>3. QED
  BY <1>1, <1>2, SumJoins

----------------------------------------------------------------------------
(* Selections.                                                             *)

\* What the first n indices of a selection are: those of the first n that are
\* in S, in order.
KeptAlong(r, N, S) ==
  /\ \A n \in 0 .. N : r[n] \in Seq(S \cap (1 .. N))
  /\ r[0] = <<>>
  /\ \A n \in 0 .. N - 1 :
       r[n + 1] = IF n + 1 \in S THEN Append(r[n], n + 1) ELSE r[n]

\* What a selection keeps of every prefix, one index at a time.
LEMMA KeptUpToIs ==
  ASSUME NEW N \in Nat, NEW S
  PROVE  KeptAlong(KeptUpTo(N, S), N, S)
<1> DEFINE T == S \cap (1 .. N)
           V == Seq(T)
           next == [n \in 1 .. N |-> [x \in V |-> IF n \in S THEN Append(x, n) ELSE x]]
           Rule(f) == [n \in 0 .. N |-> IF n = 0 THEN <<>>
                         ELSE IF n \in S THEN Append(f[n - 1], n) ELSE f[n - 1]]
           r == KeptUpTo(N, S)
<1>1. <<>> \in V /\ \A n \in 1 .. N, x \in V : n \in S => Append(x, n) \in V
  <2>1. \A n \in 1 .. N : n \in S => n \in T
    OBVIOUS
  <2> HIDE DEF T
  <2>2. QED
    BY <2>1
<1> HIDE DEF V
<1>2. next \in [1 .. N -> [V -> V]]
  BY <1>1
<1>3. \A n \in 1 .. N, x \in V : next[n][x] = IF n \in S THEN Append(x, n) ELSE x
  OBVIOUS
<1> HIDE DEF next
<1>4. PICK f : ByRuleTo(f, N, V, <<>>, next)
  BY <1>1, <1>2, ByRule, Zenon
<1>5. f = Rule(f)
  <2>1. \A n \in 0 .. N : n # 0 => n - 1 \in 0 .. N - 1 /\ n = (n - 1) + 1 /\ n \in 1 .. N
    OBVIOUS
  <2>2. ASSUME NEW n \in 0 .. N, n # 0
        PROVE  f[n] = IF n \in S THEN Append(f[n - 1], n) ELSE f[n - 1]
    <3>1. PICK k \in 0 .. N - 1 : k = n - 1 /\ n = k + 1
      BY <2>1, <2>2
    <3>2. f[k + 1] = next[k + 1][f[k]] /\ f[k] \in V /\ k + 1 \in 1 .. N
      BY <1>4 DEF ByRuleTo
    <3>3. QED
      BY <1>3, <3>1, <3>2
  <2>3. QED
    BY <1>4, <2>2 DEF ByRuleTo
<1>6. r = Rule(r)
  <2>1. r = CHOOSE g : g = Rule(g)
    BY DEF KeptUpTo
  <2>2. QED
    BY <1>5, <2>1
<1> HIDE DEF r
<1>7. /\ r[0] = <<>>
      /\ \A n \in 0 .. N - 1 : r[n + 1] = IF n + 1 \in S THEN Append(r[n], n + 1) ELSE r[n]
  <2>1. 0 \in 0 .. N /\ \A n \in 0 .. N - 1 : n + 1 \in 0 .. N /\ n + 1 # 0 /\ (n + 1) - 1 = n
    OBVIOUS
  <2>2. QED
    BY <1>6, <2>1
<1>8. \A n \in 0 .. N : r[n] \in V
  <2> DEFINE Q == {n \in 0 .. N : r[n] \in V}
  <2>1. 0 \in Q
    BY <1>1, <1>7
  <2>2. ASSUME NEW n \in 0 .. N - 1, n \in Q PROVE n + 1 \in Q
    <3>1. r[n] \in V /\ n + 1 \in 1 .. N
      BY <2>2
    <3>2. r[n + 1] \in V
      BY <1>1, <1>7, <3>1
    <3>3. QED
      BY <3>1, <3>2
  <2>3. \A n \in Q : r[n] \in V
    OBVIOUS
  <2> HIDE DEF Q
  <2>4. \A n \in 0 .. N : n \in Q
    BY <2>1, <2>2, ByPrefix
  <2>5. QED
    BY <2>3, <2>4
<1>9. QED
  BY <1>7, <1>8 DEF r, V, KeptAlong

\* A selection keeps indices of the list, of the ones selected.
LEMMA KeptAre ==
  ASSUME NEW N \in Nat, NEW S
  PROVE  Kept(N, S) \in Seq(S \cap (1 .. N))
<1>1. N \in 0 .. N
  OBVIOUS
<1>2. QED
  BY <1>1, KeptUpToIs DEF Kept, KeptAlong

\* A selection's sum counts what it leaves out as nothing.
LEMMA KeptSums ==
  ASSUME NEW N \in Nat, NEW S, NEW a \in [1 .. N -> Int]
  PROVE  SumSeq([i \in DOMAIN Kept(N, S) |-> a[Kept(N, S)[i]]])
           = SumSeq([i \in 1 .. N |-> IF i \in S THEN a[i] ELSE 0])
<1> DEFINE r == KeptUpTo(N, S)
           of(k) == [i \in DOMAIN k |-> a[k[i]]]
           T == S \cap (1 .. N)
<1>1. /\ \A n \in 0 .. N : r[n] \in Seq(T)
      /\ r[0] = <<>>
      /\ \A n \in 0 .. N - 1 : r[n + 1] = IF n + 1 \in S THEN Append(r[n], n + 1) ELSE r[n]
  <2>1. KeptAlong(r, N, S)
    BY KeptUpToIs
  <2>2. QED
    BY <2>1 DEF KeptAlong
<1> DEFINE c == [i \in 1 .. N |-> IF i \in S THEN a[i] ELSE 0]
           q == PartialSums(c)
           Q == {n \in 0 .. N : SumSeq(of(r[n])) = q[n]}
<1>2. c \in [1 .. N -> Int] /\ \A i \in 1 .. N : c[i] = IF i \in S THEN a[i] ELSE 0
  OBVIOUS
<1> HIDE DEF r, c
<1>3. /\ q \in [0 .. N -> Int] /\ q[0] = 0 /\ SumSeq(c) = q[N]
      /\ \A n \in 0 .. N - 1 : q[n + 1] = q[n] + c[n + 1]
  BY <1>2, AmountsAre
<1> HIDE DEF q
<1>4. \A k \in Seq(T) : of(k) \in Seq(Int)
  OBVIOUS
<1>5. \A k \in Seq(T), n \in T : of(Append(k, n)) = Append(of(k), a[n])
  OBVIOUS
<1>6. of(<<>>) \in [1 .. 0 -> Int]
  OBVIOUS
<1> HIDE DEF T, of
<1>7. 0 \in Q
  BY <1>1, <1>3, <1>6, SumOfNone
<1>8. ASSUME NEW n \in 0 .. N - 1, n \in Q PROVE n + 1 \in Q
  <2>1. n \in 0 .. N /\ n + 1 \in 0 .. N /\ n + 1 \in 1 .. N /\ r[n] \in Seq(T)
    BY <1>1
  <2>2. SumSeq(of(r[n])) = q[n] /\ q[n] \in Int
    BY <1>3, <1>8, <2>1
  <2>3. CASE n + 1 \in S
    <3>1. n + 1 \in T /\ a[n + 1] \in Int
      BY <2>1, <2>3 DEF T
    <3>2. of(r[n + 1]) = Append(of(r[n]), a[n + 1]) /\ of(r[n]) \in Seq(Int)
      BY <1>1, <1>4, <1>5, <2>1, <2>3, <3>1
    <3>3. SumSeq(of(r[n + 1])) = q[n] + a[n + 1]
      BY <2>2, <3>1, <3>2, SumAppends
    <3>4. QED
      BY <1>2, <1>3, <2>1, <2>3, <3>3
  <2>4. CASE n + 1 \notin S
    BY <1>1, <1>2, <1>3, <2>1, <2>2, <2>4
  <2>5. QED
    BY <2>3, <2>4
<1>9. \A n \in Q : SumSeq(of(r[n])) = q[n]
  OBVIOUS
<1> HIDE DEF Q
<1>10. N \in Q
  BY <1>7, <1>8, ByPrefix
<1>11. QED
  BY <1>3, <1>9, <1>10 DEF of, r, c, Kept

\* A selection that may keep an index keeps something.
LEMMA KeptSome ==
  ASSUME NEW N \in Nat, NEW S, NEW k \in 1 .. N, k \in S
  PROVE  Kept(N, S) # <<>>
<1> DEFINE r == KeptUpTo(N, S)
           T == {n \in 0 .. N : n < k \/ r[n] # <<>>}
<1>1. /\ \A n \in 0 .. N : r[n] \in Seq(S \cap (1 .. N))
      /\ \A n \in 0 .. N - 1 : r[n + 1] = IF n + 1 \in S THEN Append(r[n], n + 1) ELSE r[n]
  <2>1. KeptAlong(r, N, S)
    BY KeptUpToIs
  <2>2. QED
    BY <2>1 DEF KeptAlong
<1> HIDE DEF r
<1>2. 0 \in T
  OBVIOUS
<1>3. ASSUME NEW n \in 0 .. N - 1, n \in T PROVE n + 1 \in T
  <2>1. n \in 0 .. N /\ n + 1 \in 0 .. N /\ r[n] \in Seq(S \cap (1 .. N))
    BY <1>1
  <2>2. n + 1 < k \/ n + 1 = k \/ r[n] # <<>>
    BY <1>3
  <2>3. \A q \in Seq(S \cap (1 .. N)) : \A m \in S \cap (1 .. N) : Append(q, m) # <<>>
    OBVIOUS
  <2>4. n + 1 \in S => r[n + 1] # <<>>
    <3>1. SUFFICES ASSUME n + 1 \in S PROVE r[n + 1] # <<>>
      OBVIOUS
    <3>2. n + 1 \in S \cap (1 .. N)
      BY <3>1
    <3>3. r[n + 1] = Append(r[n], n + 1)
      BY <1>1, <3>1
    <3>4. Append(r[n], n + 1) # <<>>
      BY <2>1, <2>3, <3>2
    <3>5. QED
      BY <3>3, <3>4
  <2>5. n + 1 \notin S => r[n + 1] = r[n]
    BY <1>1
  <2>6. QED
    BY <2>1, <2>2, <2>4, <2>5
<1>4. \A n \in T : n < k \/ r[n] # <<>>
  OBVIOUS
<1> HIDE DEF T
<1>5. N \in T
  BY <1>2, <1>3, ByPrefix
<1>6. QED
  BY <1>4, <1>5 DEF Kept, r

\* Amounts that are never negative have a sum that is never negative.
LEMMA SumNatural ==
  ASSUME NEW n \in Nat, NEW a \in [1 .. n -> Nat]
  PROVE  SumSeq(a) \in Nat
<1> DEFINE z == [i \in 1 .. n |-> 0]
<1>1. a \in [1 .. n -> Int] /\ z \in [1 .. n -> Int]
  OBVIOUS
<1>2. \A i \in 1 .. n : z[i] <= a[i] /\ z[i] = z[i] + z[i]
  OBVIOUS
<1> HIDE DEF z
<1>3. SumSeq(z) <= SumSeq(a)
  BY <1>1, <1>2, SumMonotone
<1>4. SumSeq(a) \in Int /\ SumSeq(z) \in Int
  BY <1>1, SumType
<1>5. SumSeq(z) = SumSeq(z) + SumSeq(z)
  BY <1>1, <1>2, SumAdds
<1>6. QED
  BY <1>3, <1>4, <1>5

----------------------------------------------------------------------------
(* Rounding.                                                               *)

\* The larger and the smaller of two amounts.
LEMMA LargerAndSmaller ==
  ASSUME NEW a \in Int, NEW b \in Int
  PROVE  /\ Larger(a, b) \in {a, b} /\ Larger(a, b) >= a /\ Larger(a, b) >= b
         /\ Smaller(a, b) \in {a, b} /\ Smaller(a, b) <= a /\ Smaller(a, b) <= b
BY DEF Larger, Smaller

\* The part of an amount above zero, and the part below.
LEMMA PositiveAndNegative ==
  ASSUME NEW a \in Int
  PROVE  /\ Positive(a) = IF a >= 0 THEN a ELSE 0
         /\ Negative(a) = IF a <= 0 THEN -a ELSE 0
BY DEF Positive, Negative, Larger

\* irs_round gives the nearest dollar, and leaves whole dollars alone.
LEMMA RoundedIsNearest ==
  ASSUME NEW cents \in Int
  PROVE  /\ Rounded(cents) \in Int
         /\ 100 * Rounded(cents) - cents \in -50 .. 50
BY SMT DEF Rounded

\* Rounding leaves whole dollars alone.
LEMMA RoundedDollars ==
  ASSUME NEW dollars \in Int
  PROVE  Rounded(100 * dollars) = dollars
<1> DEFINE r == Rounded(100 * dollars)
<1>1. r \in Int /\ 100 * r - 100 * dollars \in -50 .. 50
  BY RoundedIsNearest
<1> HIDE DEF r
<1>2. r = dollars
  BY <1>1
<1>3. QED
  BY <1>2 DEF r

\* Rounding a sum with whole dollars rounds the cents alone, save at half a
\* dollar: the exception of Form540Balances is the only one.
LEMMA RoundedTotal ==
  ASSUME NEW dollars \in Int, NEW cents \in Int, cents >= 0, cents % 100 # 50
  PROVE  Rounded(100 * dollars + cents) = dollars + Rounded(cents)
<1> DEFINE whole == 100 * dollars + cents
           r == Rounded(whole)
           q == Rounded(cents)
<1>1. whole \in Int /\ q \in Int /\ r \in Int
  BY RoundedIsNearest
<1>2. 100 * q - cents \in -49 .. 49
  BY SMT DEF Rounded
<1>3. 100 * r - whole \in -50 .. 50
  BY <1>1, RoundedIsNearest
<1>4. 100 * (r - dollars - q) \in -99 .. 99
  BY <1>1, <1>2, <1>3
<1> HIDE DEF r, q, whole
<1>5. r = dollars + q
  BY <1>1, <1>4
<1>6. QED
  BY <1>5 DEF r, q, whole

\* A shareholder's rounded share of a whole-dollar amount is within half a
\* dollar of the exact share: shares of any number of holders can drift by
\* half a dollar each, and no more (f1120s.py).
THEOREM ShareWithinHalf ==
  ASSUME NEW percent \in Int, NEW amount \in Int
  PROVE  /\ RoundedShare(percent, amount, 100) \in Int
         /\ 100 * RoundedShare(percent, amount, 100) - percent * amount \in -50 .. 50
<1>1. percent * amount \in Int
  BY SMT
<1>2. \A n \in Int : /\ RoundedRatio(n, 100) \in Int
                    /\ 100 * RoundedRatio(n, 100) - n \in -50 .. 50
  BY SMT DEF RoundedRatio
<1>3. QED
  BY <1>1, <1>2 DEF RoundedShare

\* irs_round of a quotient is within half of it.
LEMMA RatioWithinHalf ==
  ASSUME NEW n \in Int, NEW d \in Nat \ {0}
  PROVE  /\ RoundedRatio(n, d) \in Int
         /\ 2 * (d * RoundedRatio(n, d) - n) \in -d .. d
<1> DEFINE r == RoundedRatio(n, d)
<1>1. ASSUME NEW m \in Nat
      PROVE  LET q == (2 * m + d) \div (2 * d) IN q \in Int /\ 2 * (d * q - m) \in -d .. d
  <2> DEFINE q == (2 * m + d) \div (2 * d)
  <2>1. q \in Int /\ (2 * d) * q <= 2 * m + d /\ 2 * m + d < (2 * d) * q + 2 * d
    <3>1. ASSUME NEW x \in Int, NEW y \in Nat \ {0}
          PROVE  x \div y \in Int /\ y * (x \div y) <= x /\ x < y * (x \div y) + y
      BY SMT
    <3>2. 2 * m + d \in Int /\ 2 * d \in Nat \ {0}
      OBVIOUS
    <3>3. QED
      BY <3>1, <3>2
  <2> HIDE DEF q
  <2>2. (2 * d) * q = 2 * (d * q) /\ d * q \in Int
    BY <2>1
  <2>3. 2 * (d * q) <= 2 * m + d /\ 2 * m + d < 2 * (d * q) + 2 * d
    BY <2>1, <2>2
  <2>4. q \in Int /\ 2 * (d * q - m) \in -d .. d
    BY <2>1, <2>2, <2>3
  <2>5. QED
    BY <2>4 DEF q
<1>2. CASE n >= 0
  <2>1. r = (2 * n + d) \div (2 * d) /\ n \in Nat
    BY <1>2 DEF RoundedRatio
  <2> HIDE DEF r
  <2>2. QED
    BY <1>1, <2>1 DEF r
<1>3. CASE ~(n >= 0)
  <2> DEFINE q == (2 * (-n) + d) \div (2 * d)
  <2>1. d - 2 * n = 2 * (-n) + d /\ -n \in Nat
    BY <1>3
  <2>2. r = -q
    BY <1>3, <2>1 DEF RoundedRatio
  <2>3. q \in Int /\ 2 * (d * q - (-n)) \in -d .. d
    BY <1>1, <2>1
  <2> HIDE DEF q, r
  <2>4. d * r = -(d * q) /\ d * q \in Int
    BY <2>2, <2>3
  <2>5. r \in Int /\ 2 * (d * r - n) \in -d .. d
    BY <2>2, <2>3, <2>4
  <2>6. QED
    BY <2>5 DEF r
<1>4. QED
  BY <1>2, <1>3

----------------------------------------------------------------------------
(* Sums of parts: what a selection keeps, and how two share out a list.    *)

\* The same amount, over and over.
LEMMA SumOfSame ==
  ASSUME NEW n \in Nat, NEW e \in Int, NEW a \in [1 .. n -> Int],
         \A i \in 1 .. n : a[i] = e
  PROVE  SumSeq(a) = n * e
<1> DEFINE p == PartialSums(a)
           T == {k \in 0 .. n : p[k] = k * e}
<1>1. /\ p \in [0 .. n -> Int] /\ p[0] = 0
      /\ \A k \in 0 .. n - 1 : p[k + 1] = p[k] + a[k + 1]
      /\ SumSeq(a) = p[n]
  BY AmountsAre
<1> HIDE DEF p
<1>2. 0 \in T
  <2>1. 0 * e = 0
    OBVIOUS
  <2>2. QED
    BY <1>1, <2>1
<1>3. \A k \in 0 .. n - 1 : k \in T => k + 1 \in T
  <2>1. SUFFICES ASSUME NEW k \in 0 .. n - 1, k \in T PROVE k + 1 \in T
    OBVIOUS
  <2>2. p[k + 1] = k * e + e /\ k + 1 \in 0 .. n
    BY <1>1, <2>1
  <2>3. (k + 1) * e = k * e + e
    OBVIOUS
  <2>4. QED
    BY <2>2, <2>3
<1>4. n \in T
  <2> HIDE DEF T
  <2>1. QED
    BY <1>2, <1>3, ByPrefix
<1>5. QED
  BY <1>1, <1>4

\* A selection is as long as the indices it keeps are many, so one that
\* keeps less is no longer.
LEMMA KeptCounts ==
  ASSUME NEW n \in Nat, NEW S
  PROVE  Len(Kept(n, S)) = SumSeq([i \in 1 .. n |-> IF i \in S THEN 1 ELSE 0])
<1> DEFINE kept == Kept(n, S)
           ones == [i \in 1 .. n |-> 1]
           keptOnes == [i \in DOMAIN kept |-> ones[kept[i]]]
<1>1. kept \in Seq(S \cap (1 .. n))
  BY KeptAre
<1>2. ones \in [1 .. n -> Int]
  OBVIOUS
<1>3. SumSeq(keptOnes) = SumSeq([i \in 1 .. n |-> IF i \in S THEN ones[i] ELSE 0])
  <2> HIDE DEF ones
  <2>1. QED
    BY <1>2, KeptSums
<1>4. [i \in 1 .. n |-> IF i \in S THEN ones[i] ELSE 0]
        = [i \in 1 .. n |-> IF i \in S THEN 1 ELSE 0]
  OBVIOUS
<1> HIDE DEF kept
<1>5. Len(kept) \in Nat /\ DOMAIN kept = 1 .. Len(kept) /\ \A i \in DOMAIN kept : kept[i] \in 1 .. n
  BY <1>1
<1>6. keptOnes \in [1 .. Len(kept) -> Int] /\ \A i \in 1 .. Len(kept) : keptOnes[i] = 1
  BY <1>5
<1>7. SumSeq(keptOnes) = Len(kept) * 1
  <2> HIDE DEF keptOnes
  <2>1. QED
    BY <1>5, <1>6, SumOfSame
<1> HIDE DEF keptOnes
<1>8. SumSeq(keptOnes) = SumSeq([i \in 1 .. n |-> IF i \in S THEN 1 ELSE 0])
  BY <1>3, <1>4
<1>9. Len(kept) = SumSeq([i \in 1 .. n |-> IF i \in S THEN 1 ELSE 0])
  BY <1>5, <1>7, <1>8
<1>10. QED
  BY <1>9 DEF kept

\* A selection of less is no longer.
LEMMA KeptFewer ==
  ASSUME NEW n \in Nat, NEW S, NEW T, S \cap (1 .. n) \subseteq T
  PROVE  Len(Kept(n, S)) <= Len(Kept(n, T)) /\ Len(Kept(n, S)) <= n
<1> DEFINE a == [i \in 1 .. n |-> IF i \in S THEN 1 ELSE 0]
           b == [i \in 1 .. n |-> IF i \in T THEN 1 ELSE 0]
           c == [i \in 1 .. n |-> 1]
<1>1. a \in [1 .. n -> Int] /\ b \in [1 .. n -> Int] /\ c \in [1 .. n -> Int]
  OBVIOUS
<1>2. \A i \in 1 .. n : a[i] <= b[i] /\ a[i] <= c[i] /\ c[i] = 1
  OBVIOUS
<1>3. Len(Kept(n, S)) = SumSeq(a) /\ Len(Kept(n, T)) = SumSeq(b)
  BY KeptCounts
<1> HIDE DEF a, b, c
<1>4. SumSeq(a) <= SumSeq(b) /\ SumSeq(a) <= SumSeq(c)
  BY <1>1, <1>2, SumMonotone
<1>5. SumSeq(c) = n * 1
  BY <1>1, <1>2, SumOfSame
<1>6. QED
  BY <1>3, <1>4, <1>5

\* What is left out of a sum is nothing.
LEMMA KeptSumsAll ==
  ASSUME NEW n \in Nat, NEW S, NEW a \in [1 .. n -> Int],
         \A i \in 1 .. n : i \notin S => a[i] = 0
  PROVE  SumSeq([i \in DOMAIN Kept(n, S) |-> a[Kept(n, S)[i]]]) = SumSeq(a)
<1>1. SumSeq([i \in DOMAIN Kept(n, S) |-> a[Kept(n, S)[i]]])
        = SumSeq([i \in 1 .. n |-> IF i \in S THEN a[i] ELSE 0])
  BY KeptSums
<1>2. [i \in 1 .. n |-> IF i \in S THEN a[i] ELSE 0] = a
  OBVIOUS
<1>3. QED
  BY <1>1, <1>2

\* The sum of a member-by-member difference.
LEMMA SumTakesOff ==
  ASSUME NEW n \in Nat, NEW a \in [1 .. n -> Int], NEW b \in [1 .. n -> Int],
         NEW e \in Int, \A i \in 1 .. n : b[i] = a[i] - e
  PROVE  SumSeq(b) = SumSeq(a) - n * e
<1> DEFINE c == [i \in 1 .. n |-> e]
<1>1. c \in [1 .. n -> Int] /\ \A i \in 1 .. n : c[i] = e /\ a[i] = b[i] + c[i]
  OBVIOUS
<1> HIDE DEF c
<1>2. SumSeq(c) = n * e /\ SumSeq(a) = SumSeq(b) + SumSeq(c)
  BY <1>1, SumOfSame, SumAdds
<1>3. SumSeq(a) \in Int /\ SumSeq(b) \in Int /\ SumSeq(c) \in Int
  BY <1>1, SumType
<1>4. QED
  BY <1>2, <1>3

\* Member by member within half of d of a multiple of d, so in all.
LEMMA SumWithinRatio ==
  ASSUME NEW n \in Nat, NEW d \in Nat \ {0},
         NEW a \in [1 .. n -> Int], NEW b \in [1 .. n -> Int],
         \A i \in 1 .. n : 2 * (d * a[i] - b[i]) \in -d .. d
  PROVE  2 * (d * SumSeq(a) - SumSeq(b)) \in -(n * d) .. n * d
<1> DEFINE x == [i \in 1 .. n |-> d * a[i]]
           y == [i \in 1 .. n |-> 2 * (d * a[i] - b[i])]
           z == [i \in 1 .. n |-> d * a[i] - b[i]]
           least == [i \in 1 .. n |-> -d]
           most == [i \in 1 .. n |-> d]
<1>1. \A i \in 1 .. n : d * a[i] \in Int
  OBVIOUS
<1>2. /\ x \in [1 .. n -> Int] /\ y \in [1 .. n -> Int] /\ z \in [1 .. n -> Int]
      /\ least \in [1 .. n -> Int] /\ most \in [1 .. n -> Int]
  <2>1. \A u, v \in Int : u - v \in Int /\ 2 * (u - v) \in Int
    OBVIOUS
  <2>2. \A i \in 1 .. n : d * a[i] - b[i] \in Int /\ 2 * (d * a[i] - b[i]) \in Int
    BY <1>1, <2>1
  <2>3. x \in [1 .. n -> Int]
    BY <1>1
  <2>4. y \in [1 .. n -> Int] /\ z \in [1 .. n -> Int]
    BY <2>2
  <2>5. least \in [1 .. n -> Int] /\ most \in [1 .. n -> Int]
    OBVIOUS
  <2>6. QED
    BY <2>3, <2>4, <2>5
<1>3. \A i \in 1 .. n : /\ x[i] = d * a[i] /\ z[i] = x[i] - b[i] /\ y[i] = 2 * z[i]
                        /\ least[i] = -d /\ most[i] = d
                        /\ least[i] <= y[i] /\ y[i] <= most[i]
  <2> SUFFICES ASSUME NEW i \in 1 .. n
               PROVE  /\ x[i] = d * a[i] /\ z[i] = x[i] - b[i] /\ y[i] = 2 * z[i]
                      /\ least[i] = -d /\ most[i] = d
                      /\ least[i] <= y[i] /\ y[i] <= most[i]
    OBVIOUS
  <2>1. x[i] = d * a[i] /\ z[i] = d * a[i] - b[i] /\ y[i] = 2 * (d * a[i] - b[i])
    OBVIOUS
  <2>2. least[i] = -d /\ most[i] = d
    OBVIOUS
  <2> DEFINE q == d * a[i]
  <2>3. q \in Int /\ b[i] \in Int /\ 2 * (q - b[i]) \in -d .. d
    BY <1>1
  <2> HIDE DEF q, x, y, z, least, most
  <2>4. x[i] = q /\ z[i] = q - b[i] /\ y[i] = 2 * (q - b[i])
    BY <2>1 DEF q
  <2>5. least[i] <= y[i] /\ y[i] <= most[i]
    BY <2>2, <2>3, <2>4
  <2>6. QED
    BY <2>1, <2>2, <2>4, <2>5
<1> HIDE DEF x, y, z, least, most
<1>4. SumSeq(x) = d * SumSeq(a)
  <2>1. d \in Int /\ \A i \in 1 .. n : x[i] = d * a[i]
    BY <1>3
  <2>2. QED
    BY <1>2, <2>1, SumScales, Zenon
<1>5. SumSeq(x) = SumSeq(z) + SumSeq(b)
  <2>1. \A i \in 1 .. n : x[i] = z[i] + b[i]
    <3>1. SUFFICES ASSUME NEW i \in 1 .. n PROVE x[i] = z[i] + b[i]
      OBVIOUS
    <3>2. x[i] \in Int /\ b[i] \in Int /\ z[i] = x[i] - b[i]
      BY <1>2, <1>3
    <3>3. QED
      BY <3>2
  <2>2. QED
    <3>1. b \in [1 .. n -> Int] /\ x \in [1 .. n -> Int] /\ z \in [1 .. n -> Int]
      BY <1>2
    <3>2. \A u \in [1 .. n -> Int], v \in [1 .. n -> Int] :
            (\A i \in 1 .. n : v[i] = u[i] + b[i]) => SumSeq(v) = SumSeq(u) + SumSeq(b)
      BY SumAdds
    <3>3. QED
      BY <2>1, <3>1, <3>2
<1>6. SumSeq(y) = 2 * SumSeq(z)
  <2> DEFINE f == 2
  <2>1. f \in Int /\ \A i \in 1 .. n : y[i] = f * z[i]
    BY <1>3
  <2> HIDE DEF f
  <2>2. SumSeq(y) = f * SumSeq(z)
    BY <1>2, <2>1, SumScales
  <2>3. QED
    BY <2>2 DEF f
<1>7. SumSeq(least) = n * (-d) /\ SumSeq(most) = n * d
  <2>1. /\ -d \in Int /\ d \in Int
        /\ \A i \in 1 .. n : least[i] = -d
        /\ \A i \in 1 .. n : most[i] = d
    BY <1>3
  <2>2. SumSeq(least) = n * (-d)
    BY <1>2, <2>1, SumOfSame, Zenon
  <2>3. SumSeq(most) = n * d
    BY <1>2, <2>1, SumOfSame, Zenon
  <2>4. QED
    BY <2>2, <2>3
<1>8. SumSeq(least) <= SumSeq(y) /\ SumSeq(y) <= SumSeq(most)
  BY <1>2, <1>3, SumMonotone
<1>9. /\ SumSeq(x) \in Int /\ SumSeq(y) \in Int /\ SumSeq(z) \in Int
      /\ SumSeq(a) \in Int /\ SumSeq(b) \in Int
  BY <1>2, SumType
<1>10. n * (-d) = -(n * d) /\ n * d \in Int
  OBVIOUS
<1>11. SumSeq(z) = d * SumSeq(a) - SumSeq(b)
  BY <1>4, <1>5, <1>9
<1>12. QED
  BY <1>6, <1>7, <1>8, <1>9, <1>10, <1>11

\* One sequence after another, member by member.
LEMMA Spliced ==
  ASSUME NEW V, NEW u \in Seq(V), NEW v \in Seq(V)
  PROVE  /\ u \o v \in Seq(V) /\ Len(u \o v) = Len(u) + Len(v)
         /\ DOMAIN (u \o v) = 1 .. Len(u) + Len(v)
         /\ \A i \in 1 .. Len(u) + Len(v) :
              (u \o v)[i] = IF i <= Len(u) THEN u[i] ELSE v[i - Len(u)]
OBVIOUS

\* The amounts of a list, added up; and of the indices in S alone.
SumBy(f, x) == SumSeq([i \in DOMAIN x |-> f[x[i]]])
SumPart(a, n, S) == SumSeq([i \in 1 .. n |-> IF i \in S THEN a[i] ELSE 0])

\* The amounts of two lists, one after the other, are those of both.
LEMMA JoinedSums ==
  ASSUME NEW V, NEW u \in Seq(V), NEW v \in Seq(V), NEW f \in [V -> Int]
  PROVE  u \o v \in Seq(V) /\ SumBy(f, u \o v) = SumBy(f, u) + SumBy(f, v)
<1> DEFINE m == Len(u)
           n == Len(v)
           y == u \o v
           p == [i \in DOMAIN u |-> f[u[i]]]
           q == [i \in DOMAIN v |-> f[v[i]]]
           w == [i \in DOMAIN y |-> f[y[i]]]
           z == p \o q
<1>1. /\ m \in Nat /\ n \in Nat /\ DOMAIN u = 1 .. m /\ DOMAIN v = 1 .. n
      /\ \A i \in 1 .. m : u[i] \in V
      /\ \A i \in 1 .. n : v[i] \in V
  OBVIOUS
<1>2. /\ y \in Seq(V) /\ DOMAIN y = 1 .. m + n
      /\ \A i \in 1 .. m + n : y[i] = IF i <= m THEN u[i] ELSE v[i - m]
  BY Spliced
<1>3. /\ p \in [1 .. m -> Int] /\ q \in [1 .. n -> Int]
  BY <1>1
<1>5. /\ \A i \in 1 .. m : p[i] = f[u[i]]
      /\ \A i \in 1 .. n : q[i] = f[v[i]]
  BY <1>1
<1> HIDE DEF p, q, y, m, n
<1>4. p \in Seq(Int) /\ Len(p) = m /\ q \in Seq(Int) /\ Len(q) = n
  BY <1>1, <1>3, AmountsAre
<1>6. /\ z \in Seq(Int) /\ Len(z) = m + n /\ DOMAIN z = 1 .. m + n
      /\ \A i \in 1 .. m + n : z[i] = IF i <= m THEN p[i] ELSE q[i - m]
  BY <1>4, Spliced
<1> HIDE DEF z
<1>7. z \in [1 .. m + n -> Int]
  BY <1>6
<1>8. \A i \in 1 .. m + n : f[y[i]] = z[i]
  <2> SUFFICES ASSUME NEW i \in 1 .. m + n PROVE f[y[i]] = z[i]
    OBVIOUS
  <2>1. CASE i <= m
    <3>1. i \in 1 .. m
      BY <1>1, <2>1
    <3>2. QED
      BY <1>2, <1>5, <1>6, <2>1, <3>1
  <2>2. CASE ~(i <= m)
    <3>1. i - m \in 1 .. n
      BY <1>1, <2>2
    <3>2. QED
      BY <1>2, <1>5, <1>6, <2>2, <3>1
  <2>3. QED
    BY <2>1, <2>2
<1>9. w = z
  BY <1>2, <1>7, <1>8
<1>10. SumSeq(z) = SumSeq(p) + SumSeq(q)
  BY <1>4, SumJoins DEF z
<1>11. QED
  BY <1>2, <1>9, <1>10 DEF p, q, y, SumBy

\* A sum is that of what is in a set and that of the rest.
LEMMA SumSplits ==
  ASSUME NEW n \in Nat, NEW a \in [1 .. n -> Int], NEW S, NEW T,
         S \cup T = 1 .. n, S \cap T = {}
  PROVE  SumSeq(a) = SumPart(a, n, S) + SumPart(a, n, T)
<1> DEFINE b == [i \in 1 .. n |-> IF i \in S THEN a[i] ELSE 0]
           c == [i \in 1 .. n |-> IF i \in T THEN a[i] ELSE 0]
<1>1. b \in [1 .. n -> Int]
  OBVIOUS
<1>2. c \in [1 .. n -> Int]
  OBVIOUS
<1>3. \A i \in 1 .. n : a[i] = b[i] + c[i]
  OBVIOUS
<1> HIDE DEF b, c
<1>4. SumSeq(a) = SumSeq(b) + SumSeq(c)
  <2>1. \A x, y, z \in [1 .. n -> Int] :
          (\A i \in 1 .. n : z[i] = x[i] + y[i]) => SumSeq(z) = SumSeq(x) + SumSeq(y)
    BY SumAdds
  <2>2. QED
    BY <1>1, <1>2, <1>3, <2>1, Zenon
<1>5. QED
  BY <1>4 DEF b, c, SumPart

\* Two selections that share out a list add up to it.
LEMMA SharedOutSums ==
  ASSUME NEW V, NEW x \in Seq(V), NEW S, NEW T,
         S \cup T = 1 .. Len(x), S \cap T = {}, NEW f \in [V -> Int]
  PROVE  /\ Selection(x, S) \o Selection(x, T) \in Seq(V)
         /\ SumBy(f, Selection(x, S) \o Selection(x, T)) = SumBy(f, x)
<1> DEFINE n == Len(x)
           a == [i \in 1 .. n |-> f[x[i]]]
<1>1. n \in Nat /\ DOMAIN x = 1 .. n /\ a \in [1 .. n -> Int]
  OBVIOUS
<1>2. SumSeq(a) = SumPart(a, n, S) + SumPart(a, n, T)
  <2>1. S \cup T = 1 .. n
    OBVIOUS
  <2> HIDE DEF a, n
  <2>3. QED
    BY <1>1, <2>1, SumSplits
<1>3. ASSUME NEW U, U \subseteq 1 .. n
      PROVE  Selection(x, U) \in Seq(V) /\ SumBy(f, Selection(x, U)) = SumPart(a, n, U)
  <2> DEFINE k == Kept(n, U)
             u == Selection(x, U)
  <2>1. SumSeq([i \in DOMAIN k |-> a[k[i]]]) = SumPart(a, n, U)
    <3> HIDE DEF a, n
    <3>1. QED
      BY <1>1, KeptSums DEF SumPart
  <2>2. k \in Seq(U \cap (1 .. n))
    BY <1>1, KeptAre
  <2>3. u = [i \in DOMAIN k |-> x[k[i]]]
    BY DEF Selection
  <2> HIDE DEF k, u
  <2>4. Len(k) \in Nat /\ DOMAIN k = 1 .. Len(k) /\ \A i \in 1 .. Len(k) : k[i] \in 1 .. n
    BY <2>2
  <2>5. u \in [1 .. Len(k) -> V]
    BY <1>1, <2>3, <2>4
  <2>6. u \in Seq(V) /\ DOMAIN u = DOMAIN k
    BY <2>4, <2>5
  <2>7. [i \in DOMAIN u |-> f[u[i]]] = [i \in DOMAIN k |-> a[k[i]]]
    BY <1>1, <2>3, <2>4, <2>6
  <2>8. QED
    BY <2>1, <2>6, <2>7 DEF u, k, SumBy
<1>4. S \subseteq 1 .. n /\ T \subseteq 1 .. n
  OBVIOUS
<1> DEFINE u == Selection(x, S)
           v == Selection(x, T)
<1>5. /\ u \in Seq(V) /\ SumBy(f, u) = SumPart(a, n, S)
      /\ v \in Seq(V) /\ SumBy(f, v) = SumPart(a, n, T)
  BY <1>3, <1>4
<1>6. SumSeq(a) = SumBy(f, x)
  BY <1>1 DEF SumBy
<1> HIDE DEF u, v, a
<1>7. u \o v \in Seq(V) /\ SumBy(f, u \o v) = SumBy(f, u) + SumBy(f, v)
  BY <1>5, JoinedSums
<1>8. QED
  BY <1>2, <1>5, <1>6, <1>7 DEF u, v

\* What a selection of a list adds up to.
LEMMA SelectedSums ==
  ASSUME NEW V, NEW x \in Seq(V), NEW f \in [V -> Int], NEW U, U \subseteq 1 .. Len(x)
  PROVE  /\ Selection(x, U) \in Seq(V)
         /\ SumBy(f, Selection(x, U)) = SumPart([i \in 1 .. Len(x) |-> f[x[i]]], Len(x), U)
<1> DEFINE n == Len(x)
           a == [i \in 1 .. n |-> f[x[i]]]
           k == Kept(n, U)
           u == Selection(x, U)
<1>1. n \in Nat /\ DOMAIN x = 1 .. n /\ a \in [1 .. n -> Int]
  OBVIOUS
<1>2. SumSeq([i \in DOMAIN k |-> a[k[i]]]) = SumPart(a, n, U)
  <2> HIDE DEF a, n
  <2>1. QED
    BY <1>1, KeptSums DEF SumPart
<1>3. k \in Seq(U \cap (1 .. n))
  BY <1>1, KeptAre
<1>4. u = [i \in DOMAIN k |-> x[k[i]]]
  BY DEF Selection
<1> HIDE DEF k, u
<1>5. Len(k) \in Nat /\ DOMAIN k = 1 .. Len(k) /\ \A i \in 1 .. Len(k) : k[i] \in 1 .. n
  BY <1>3
<1>6. u \in [1 .. Len(k) -> V]
  BY <1>1, <1>4, <1>5
<1>7. u \in Seq(V) /\ DOMAIN u = DOMAIN k
  <2>1. PICK l \in Nat : l = Len(k)
    BY <1>5
  <2>2. u \in [1 .. l -> V] /\ DOMAIN k = 1 .. l
    BY <1>5, <1>6, <2>1
  <2>3. QED
    BY <2>2
<1>8. [i \in DOMAIN u |-> f[u[i]]] = [i \in DOMAIN k |-> a[k[i]]]
  BY <1>1, <1>4, <1>5, <1>7
<1>9. QED
  BY <1>2, <1>7, <1>8 DEF u, SumBy
============================================================================
