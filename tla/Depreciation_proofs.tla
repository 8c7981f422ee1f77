------------------------ MODULE Depreciation_proofs ------------------------
(***************************************************************************)
(* Type correctness, the basis ceiling, and the agreement of the tables    *)
(* with every faithful history of Depreciation, for any assets, tables and *)
(* years.                                                                  *)
(*                                                                         *)
(* The ceiling: every accepted return caps this year's table amount by     *)
(* what was really taken before, because the reconstruction equals the     *)
(* stated history, or the history is acknowledged and stands in its place, *)
(* or the asset is new.  What the reconstruction computes plays no part.   *)
(*                                                                         *)
(* The histories: the reconstruction's recursion is a history that grows   *)
(* by one capped table year at a time (HistoryFollows, by induction on a   *)
(* set of years), and so does what a faithful filer takes.  Rounding then  *)
(* bounds what a finished table leaves (TableRecovers).                    *)
(***************************************************************************)
EXTENDS Depreciation, Money_proofs

\* Nothing is taken before the year after placement.
NothingTakenEarly == \A a \in Assets : Placed[a] >= year => taken[a] = 0

IInv == TypeOK /\ LifetimeWithinBasis /\ NothingTakenEarly

----------------------------------------------------------------------------

\* irs_round and irs_round_product give whole dollars, never negative here.
LEMMA RoundsToDollars ==
  ASSUME NEW cents \in Nat, NEW rate \in Nat
  PROVE  Rounded(cents) \in Nat /\ IrsRoundProduct(cents, rate) \in Nat
<1>1. Rounded(cents) \in Nat
  BY SMT DEF Rounded
<1>2. cents * rate \in Nat
  BY SMT
<1>3. \A p \in Nat : (p + 5000000) \div 10000000 \in Nat
  BY SMT
<1>4. IrsRoundProduct(cents, rate) \in Nat
  BY <1>2, <1>3 DEF IrsRoundProduct
<1>5. QED
  BY <1>1, <1>4

\* macrs_deduction is a whole, non-negative amount in any year.
LEMMA TableAmount ==
  ASSUME NEW a \in Assets, NEW c \in ConventionsOf(a), NEW y
  PROVE  MacrsDeduction(a, c, y) \in Nat
<1> DEFINE n == y - Placed[a] + 1
<1>1. CASE n \in DOMAIN Rates[a][c]
  <2>1. Rates[a][c][n] \in Nat
    BY <1>1, RateAssumption
  <2>2. Basis[a] \in Nat
    BY AssetAssumption
  <2>3. IrsRoundProduct(Basis[a], Rates[a][c][n]) \in Nat
    BY <2>1, <2>2, RoundsToDollars
  <2>4. QED
    BY <1>1, <2>3 DEF MacrsDeduction
<1>2. CASE n \notin DOMAIN Rates[a][c]
  BY <1>2 DEF MacrsDeduction
<1>3. QED
  BY <1>1, <1>2

\* _capped never takes what was taken before past the basis, and never takes
\* back.
LEMMA CappedWithin ==
  ASSUME NEW table \in Nat, NEW basis \in Nat, NEW before \in Nat,
         before <= Rounded(basis)
  PROVE  /\ Capped(table, basis, before) \in Nat
         /\ before + Capped(table, basis, before) <= Rounded(basis)
<1>1. Rounded(basis) \in Nat
  BY RoundsToDollars
<1> DEFINE round == Rounded(basis)
<1>2. Capped(table, basis, before) =
        LET left == IF round > before THEN round - before ELSE 0
        IN IF table < left THEN table ELSE left
  BY DEF Capped
<1> HIDE DEF round
<1>3. round \in Nat /\ before <= round
  BY <1>1 DEF round
<1>4. /\ Capped(table, basis, before) \in Nat
      /\ before + Capped(table, basis, before) <= round
  BY <1>2, <1>3, SMT
<1>5. QED
  BY <1>4 DEF round

\* asset_convention answers with a convention the asset can have, once the
\* load stage has let its statement through.
LEMMA ConventionIsOwn ==
  ASSUME NEW a \in Assets, NEW s \in Statements(a), WellStated(a, s),
         NEW mq, Placed \in [Assets -> Nat], year \in Nat
  PROVE  AssetConvention(a, s.convention, year, mq) \in ConventionsOf(a)
<1>1. s.convention \in {None} \cup ConventionsOf(a)
  BY DEF Statements
<1>2. CASE a \in Real
  BY <1>2 DEF AssetConvention, ConventionsOf
<1>3. CASE a \notin Real /\ Placed[a] < year
  BY <1>1, <1>3 DEF AssetConvention, WellStated
<1>4. CASE a \notin Real /\ ~(Placed[a] < year)
  BY <1>4 DEF AssetConvention, ConventionsOf
<1>5. QED
  BY <1>2, <1>3, <1>4

\* The year's deduction of an accepted asset stays within what is left of
\* its basis: "before" is the depreciation really taken.
LEMMA AmountWithin ==
  ASSUME IInv, NEW a \in Assets, NEW mq, NEW s \in Accepted(a, mq)
  PROVE  /\ AssetAmount(a, s, mq) \in Nat
         /\ taken[a] + AssetAmount(a, s, mq) <= Rounded(Basis[a])
         /\ AssetAmount(a, s, mq)
              = Capped(MacrsDeduction(a, AssetConvention(a, s.convention, year, mq), year),
                       Basis[a], taken[a])
<1> DEFINE c == AssetConvention(a, s.convention, year, mq)
           before == IF s.ack /\ s.prior # None THEN s.prior
                     ELSE Reconstruct(a, c, year)
<1>1. /\ s \in Statements(a) /\ WellStated(a, s) /\ HistoryMatches(a, s, mq)
  BY DEF Accepted
<1>2. /\ year \in Nat /\ Placed \in [Assets -> Nat] /\ taken[a] \in Nat
      /\ Basis[a] \in Nat
  BY AssetAssumption DEF IInv, TypeOK
<1>3. c \in ConventionsOf(a)
  BY <1>1, <1>2, ConventionIsOwn
<1>4. s.prior \in {None, taken[a]}
  BY <1>1 DEF Statements
<1>5. before = taken[a]
  <2>1. CASE s.prior = None
    <3>1. ~(Placed[a] < year)
      BY <1>1, <2>1 DEF WellStated
    <3>2. Placed[a] \in Nat
      BY <1>2
    <3>3. Placed[a] >= year /\ ~(year > Placed[a])
      BY <1>2, <3>1, <3>2, SMT
    <3>4. taken[a] = 0
      BY <3>3 DEF IInv, NothingTakenEarly
    <3>5. Reconstruct(a, c, year) = 0
      BY <3>3 DEF Reconstruct
    <3>6. QED
      BY <2>1, <3>4, <3>5
  <2>2. CASE s.prior # None /\ s.ack
    BY <1>4, <2>2
  <2>3. CASE s.prior # None /\ ~s.ack
    BY <1>1, <1>4, <2>3 DEF HistoryMatches
  <2>4. QED
    BY <2>1, <2>2, <2>3
<1>6. AssetAmount(a, s, mq) = Capped(MacrsDeduction(a, c, year), Basis[a], before)
  BY DEF AssetAmount
<1>7. AssetAmount(a, s, mq)
        = Capped(MacrsDeduction(a, c, year), Basis[a], taken[a])
  BY <1>5, <1>6
<1>8. MacrsDeduction(a, c, year) \in Nat
  BY <1>3, TableAmount
<1>9. taken[a] <= Rounded(Basis[a])
  BY DEF IInv, LifetimeWithinBasis
<1> HIDE DEF c, before
<1>10. /\ AssetAmount(a, s, mq) \in Nat
       /\ taken[a] + AssetAmount(a, s, mq) <= Rounded(Basis[a])
  BY <1>2, <1>7, <1>8, <1>9, CappedWithin
<1>11. QED
  BY <1>7, <1>10 DEF c

----------------------------------------------------------------------------
(* The reconstruction.                                                     *)

\* What the tables give for the first n years of an asset's life.
History(a, c, n) ==
  LET upTo[k \in 0 .. n] ==
        IF k = 0 THEN 0
        ELSE LET before == upTo[k - 1] IN
             before + Capped(MacrsDeduction(a, c, Placed[a] + k - 1), Basis[a], before)
  IN upTo

\* One year after the other, under the ceiling.
Follows(r, a, c, n) ==
  /\ r \in [0 .. n -> Nat] /\ r[0] = 0
  /\ \A k \in 0 .. n : r[k] <= Rounded(Basis[a])
  /\ \A k \in 0 .. n - 1 :
       r[k + 1] = r[k] + Capped(MacrsDeduction(a, c, Placed[a] + k), Basis[a], r[k])

\* The reconstruction's recursion: a history within the basis, year by year.
LEMMA HistoryFollows ==
  ASSUME NEW a \in Assets, NEW c \in ConventionsOf(a), NEW n \in Nat
  PROVE  Follows(History(a, c, n), a, c, n)
<1> DEFINE B == Rounded(Basis[a])
           V == {v \in Nat : v <= B}
           step(k, v) == v + Capped(MacrsDeduction(a, c, Placed[a] + k - 1), Basis[a], v)
           next == [k \in 1 .. n |-> [v \in V |-> step(k, v)]]
           F(g) == [k \in 0 .. n |-> IF k = 0 THEN 0 ELSE step(k, g[k - 1])]
           r == CHOOSE g : g = F(g)
<1>1. Basis[a] \in Nat /\ Placed[a] \in Nat /\ B \in Nat
  BY AssetAssumption, RoundsToDollars
<1>2. \A k \in 1 .. n : \A v \in V : step(k, v) \in V
  <2> SUFFICES ASSUME NEW k \in 1 .. n, NEW v \in V PROVE step(k, v) \in V
    OBVIOUS
  <2> DEFINE t == MacrsDeduction(a, c, Placed[a] + k - 1)
             cap == Capped(t, Basis[a], v)
  <2>1. t \in Nat
    BY TableAmount
  <2> HIDE DEF t
  <2>2. v \in Nat /\ v <= Rounded(Basis[a])
    OBVIOUS
  <2>3. cap \in Nat /\ v + cap <= Rounded(Basis[a])
    BY <1>1, <2>1, <2>2, CappedWithin
  <2> HIDE DEF cap
  <2>4. step(k, v) = v + cap
    BY DEF cap, t
  <2>5. v + cap \in Nat /\ v + cap <= B
    BY <2>2, <2>3
  <2> HIDE DEF step
  <2>6. QED
    BY <2>4, <2>5
<1>3. next \in [1 .. n -> [V -> V]]
  <2> HIDE DEF step, V
  <2>1. QED
    BY <1>2
<1>4. PICK f : ByRuleTo(f, n, V, 0, next)
  <2>1. 0 \in V
    BY <1>1
  <2> HIDE DEF next, V
  <2>2. QED
    BY <1>3, <2>1, ByRule
<1>5. /\ f \in [0 .. n -> V] /\ f[0] = 0
      /\ \A k \in 0 .. n - 1 : f[k + 1] = step(k + 1, f[k])
  <2>1. /\ f \in [0 .. n -> V] /\ f[0] = 0
        /\ \A k \in 0 .. n - 1 : f[k + 1] = next[k + 1][f[k]]
    BY <1>4 DEF ByRuleTo
  <2> HIDE DEF step, V
  <2>2. \A k \in 0 .. n - 1 : k + 1 \in 1 .. n /\ f[k] \in V
    BY <2>1
  <2>3. QED
    BY <2>1, <2>2
<1> HIDE DEF V, next
<1>6. f = F(f)
  <2> HIDE DEF step
  <2>1. \A k \in 0 .. n : f[k] = IF k = 0 THEN 0 ELSE step(k, f[k - 1])
    <3> SUFFICES ASSUME NEW k \in 0 .. n PROVE f[k] = IF k = 0 THEN 0 ELSE step(k, f[k - 1])
      OBVIOUS
    <3>1. CASE k = 0
      BY <1>5, <3>1
    <3>2. CASE k # 0
      <4>1. k - 1 \in 0 .. n - 1 /\ (k - 1) + 1 = k
        BY <3>2
      <4>2. f[k] = step(k, f[k - 1])
        BY <1>5, <4>1
      <4>3. QED
        BY <3>2, <4>2
    <3>3. QED
      BY <3>1, <3>2
  <2>2. QED
    BY <1>5, <2>1
<1>7. r = F(r)
  BY <1>6
<1>8. History(a, c, n) = r
  BY DEF History
<1> DEFINE S == {k \in 0 .. n : r[k] \in V}
<1>9. /\ r[0] = 0
      /\ \A k \in 0 .. n - 1 : r[k + 1] = step(k + 1, r[k])
  <2> HIDE DEF r, step
  <2>1. \A k \in 0 .. n : r[k] = IF k = 0 THEN 0 ELSE step(k, r[k - 1])
    BY <1>7
  <2>2. \A k \in 0 .. n - 1 : k + 1 \in 0 .. n /\ k + 1 # 0 /\ (k + 1) - 1 = k
    OBVIOUS
  <2>3. QED
    BY <2>1, <2>2
<1>10. \A k \in 0 .. n : k \in S
  <2>1. 0 \in S
    BY <1>1, <1>9 DEF V
  <2>2. ASSUME NEW k \in 0 .. n - 1, k \in S PROVE k + 1 \in S
    <3>1. k + 1 \in 1 .. n /\ r[k] \in V
      BY <2>2
    <3> HIDE DEF r, step
    <3>2. r[k + 1] \in V
      BY <1>2, <1>9, <3>1
    <3>3. QED
      BY <3>1, <3>2
  <2> HIDE DEF S
  <2>3. QED
    BY <2>1, <2>2, ByPrefix
<1>11. DOMAIN r = 0 .. n /\ r = [k \in 0 .. n |-> r[k]]
  <2> HIDE DEF r, step
  <2>1. QED
    BY <1>7
<1>12. \A k \in 0 .. n : r[k] \in Nat /\ r[k] <= B
  BY <1>10 DEF V
<1>13. \A k \in 0 .. n - 1 :
         r[k + 1] = r[k] + Capped(MacrsDeduction(a, c, Placed[a] + k), Basis[a], r[k])
  <2> HIDE DEF r
  <2>1. \A k \in 0 .. n - 1 : Placed[a] + (k + 1) - 1 = Placed[a] + k
    BY <1>1
  <2>2. QED
    BY <1>9, <2>1
<1> HIDE DEF r, S, B
<1>14. r \in [0 .. n -> Nat]
  BY <1>11, <1>12
<1>15. QED
  BY <1>8, <1>9, <1>12, <1>13, <1>14 DEF Follows, B

\* The history of n + 1 years is that of n years and one year more.
LEMMA OneYearMore ==
  ASSUME NEW a \in Assets, NEW c \in ConventionsOf(a), NEW n \in Nat
  PROVE  /\ History(a, c, n)[n] \in Nat
         /\ History(a, c, n + 1)[n + 1]
              = History(a, c, n)[n]
                  + Capped(MacrsDeduction(a, c, Placed[a] + n), Basis[a], History(a, c, n)[n])
<1> DEFINE r == History(a, c, n)
           q == History(a, c, n + 1)
           S == {k \in 0 .. n : q[k] = r[k]}
<1>1. Follows(r, a, c, n) /\ Follows(q, a, c, n + 1)
  BY HistoryFollows
<1> HIDE DEF r, q
<1>2. /\ r[0] = 0 /\ r \in [0 .. n -> Nat] /\ q[0] = 0
      /\ \A k \in 0 .. n - 1 :
           r[k + 1] = r[k] + Capped(MacrsDeduction(a, c, Placed[a] + k), Basis[a], r[k])
      /\ \A k \in 0 .. n :
           q[k + 1] = q[k] + Capped(MacrsDeduction(a, c, Placed[a] + k), Basis[a], q[k])
  BY <1>1 DEF Follows
<1>3. 0 \in S
  BY <1>2
<1>4. \A k \in 0 .. n - 1 : k \in S => k + 1 \in S
  <2> SUFFICES ASSUME NEW k \in 0 .. n - 1, q[k] = r[k] PROVE q[k + 1] = r[k + 1] /\ k + 1 \in 0 .. n
    OBVIOUS
  <2>1. k \in 0 .. n /\ k + 1 \in 0 .. n
    OBVIOUS
  <2>2. QED
    BY <1>2, <2>1
<1>5. n \in S
  <2> HIDE DEF S
  <2>1. QED
    BY <1>3, <1>4, ByPrefix
<1>6. n \in 0 .. n
  OBVIOUS
<1>7. QED
  BY <1>2, <1>5, <1>6 DEF r, q

\* reconstruct_prior_depreciation gives the history of the years before.
LEMMA ReconstructIs ==
  ASSUME NEW a \in Assets, NEW c, NEW y \in Nat, Placed[a] < y
  PROVE  Reconstruct(a, c, y) = History(a, c, y - Placed[a])[y - Placed[a]]
<1>1. y > Placed[a]
  BY AssetAssumption
<1>2. QED
  BY <1>1 DEF Reconstruct, History

\* v dollars are k roundings or fewer short of a product of cents and rates.
OnCourse(v, product, k) == 20000000 * v >= 2 * product - k * 10000000

\* irs_round_product is one rounding short at most.
LEMMA ProductOnCourse ==
  ASSUME NEW cents \in Nat, NEW rate \in Nat
  PROVE  OnCourse(IrsRoundProduct(cents, rate), cents * rate, 1)
<1>1. cents * rate \in Nat
  BY SMT
<1>2. \A x \in Nat : 20000000 * ((x + 5000000) \div 10000000) >= 2 * x - 10000000
  BY SMT
<1>3. QED
  BY <1>1, <1>2, SMT DEF OnCourse, IrsRoundProduct

\* The roundings of two sums of dollars add up.
LEMMA CoursesAdd ==
  ASSUME NEW v \in Int, NEW w \in Int, NEW x \in Int, NEW y \in Int, NEW k \in Nat,
         OnCourse(v, x, k), OnCourse(w, y, 1)
  PROVE  OnCourse(v + w, x + y, k + 1)
BY SMT DEF OnCourse

\* The whole basis, in table cells.
Whole == 100000

\* A column of the tables recovers the whole basis.
LEMMA ColumnWhole ==
  ASSUME NEW a \in Assets, NEW c \in ConventionsOf(a)
  PROVE  Rates[a][c] \in Seq(Nat) /\ SumSeq(Rates[a][c]) = Whole
BY RateAssumption, SMT DEF Whole

\* A table that has run out has recovered the basis, but for the half dollar
\* each of its years, and the basis, may lose to rounding.
LEMMA TableRecovers ==
  ASSUME NEW a \in Assets, NEW c \in ConventionsOf(a), NEW N \in Nat,
         N >= Len(Rates[a][c])
  PROVE  2 * (Rounded(Basis[a]) - History(a, c, N)[N]) <= Len(Rates[a][c]) + 1
<1> DEFINE column == Rates[a][c]
           T == Len(column)
           p == PartialSums(column)
           r == History(a, c, N)
           B == Basis[a]
           D == Rounded(B)
           Good(k) == r[k] = D \/ OnCourse(r[k], B * p[k], k)
           S == {k \in 0 .. T : Good(k)}
<1>1. /\ B \in Nat /\ D \in Nat /\ column \in Seq(Nat) /\ T \in Nat
      /\ SumSeq(column) = Whole
  <2>1. B \in Nat /\ D \in Nat
    BY AssetAssumption, RoundsToDollars
  <2>2. column \in Seq(Nat) /\ SumSeq(column) = Whole
    BY ColumnWhole
  <2> HIDE DEF column, D, B
  <2>3. QED
    BY <2>1, <2>2
<1>2. /\ p \in [0 .. T -> Int] /\ p[0] = 0 /\ p[T] = Whole
      /\ \A k \in 0 .. T - 1 : p[k + 1] = p[k] + column[k + 1] /\ column[k + 1] \in Nat
  <2>1. column \in [1 .. T -> Int] /\ column \in [1 .. T -> Nat]
    BY <1>1
  <2> HIDE DEF column
  <2>2. /\ p \in [0 .. T -> Int] /\ p[0] = 0 /\ SumSeq(column) = p[T]
        /\ \A k \in 0 .. T - 1 : p[k + 1] = p[k] + column[k + 1]
    BY <1>1, <2>1, AmountsAre
  <2>3. \A k \in 0 .. T - 1 : column[k + 1] \in Nat
    BY <1>1, <2>1
  <2>4. QED
    BY <1>1, <2>2, <2>3
<1>3. 100 * D <= B + 50
  <2>1. B \in Int
    BY <1>1
  <2> HIDE DEF B
  <2>2. 100 * D - B \in -50 .. 50
    BY <2>1, RoundedIsNearest
  <2> HIDE DEF D
  <2>3. QED
    BY <1>1, <2>2
<1>4. /\ r[0] = 0
      /\ \A k \in 0 .. N : r[k] \in Nat /\ r[k] <= D
      /\ \A k \in 0 .. N - 1 :
           r[k + 1] = r[k] + Capped(MacrsDeduction(a, c, Placed[a] + k), B, r[k])
  <2>1. Follows(r, a, c, N)
    BY HistoryFollows
  <2> HIDE DEF r
  <2>2. QED
    BY <2>1 DEF Follows
<1>5. \A k \in 0 .. T - 1 :
        /\ k \in 0 .. N - 1
        /\ MacrsDeduction(a, c, Placed[a] + k) = IrsRoundProduct(B, column[k + 1])
  <2> SUFFICES ASSUME NEW k \in 0 .. T - 1
               PROVE  /\ k \in 0 .. N - 1
                      /\ MacrsDeduction(a, c, Placed[a] + k) = IrsRoundProduct(B, column[k + 1])
    OBVIOUS
  <2>1. Placed[a] \in Nat
    BY AssetAssumption
  <2>2. (Placed[a] + k) - Placed[a] + 1 = k + 1 /\ k + 1 \in 1 .. T /\ k \in 0 .. N - 1
    BY <1>1, <2>1
  <2>3. DOMAIN column = 1 .. T
    BY <1>1
  <2>4. QED
    BY <2>2, <2>3 DEF MacrsDeduction
<1> HIDE DEF r, p, column, T, D, B
<1>6. 0 \in S
  <2>1. r[0] = 0 /\ B * p[0] = 0
    BY <1>1, <1>2, <1>4, SMT
  <2>2. OnCourse(0, 0, 0)
    BY SMT DEF OnCourse
  <2>3. QED
    BY <1>1, <2>1, <2>2
<1>7. \A k \in 0 .. T - 1 : k \in S => k + 1 \in S
  <2> SUFFICES ASSUME NEW k \in 0 .. T - 1, Good(k)
               PROVE  k + 1 \in 0 .. T /\ Good(k + 1)
    OBVIOUS
  <2> DEFINE rate == column[k + 1]
             t == IrsRoundProduct(B, rate)
             cap == Capped(t, B, r[k])
  <2>1. /\ k + 1 \in 0 .. T /\ k \in 0 .. T /\ k \in 0 .. N /\ k + 1 \in 0 .. N
        /\ rate \in Nat /\ p[k] \in Int /\ p[k + 1] = p[k] + rate /\ k \in Nat
        /\ r[k] \in Nat /\ r[k] <= D /\ r[k + 1] = r[k] + cap
    <3>1. /\ k + 1 \in 0 .. T /\ k \in 0 .. T /\ k \in 0 .. N /\ k + 1 \in 0 .. N
          /\ k \in Nat
      BY <1>1, <1>5
    <3>2. r[k + 1] = r[k] + cap
      BY <1>4, <1>5
    <3>3. rate \in Nat /\ p[k + 1] = p[k] + rate
      BY <1>2
    <3>4. QED
      BY <1>2, <1>4, <3>1, <3>2, <3>3
  <2>2. t \in Nat /\ OnCourse(t, B * rate, 1)
    BY <1>1, <2>1, RoundsToDollars, ProductOnCourse
  <2>3. cap = IF t < D - r[k] THEN t ELSE D - r[k]
    <3>1. cap = LET left == IF D > r[k] THEN D - r[k] ELSE 0
                IN IF t < left THEN t ELSE left
      BY DEF Capped, D
    <3> HIDE DEF cap, t
    <3>2. QED
      BY <1>1, <2>1, <2>2, <3>1
  <2>4. B * p[k + 1] = B * p[k] + B * rate /\ B * p[k] \in Int /\ B * rate \in Int
    <3>1. \A x \in Nat, y, z \in Int :
            x * (y + z) = x * y + x * z /\ x * y \in Int /\ x * z \in Int
      BY SMT
    <3>2. QED
      BY <1>1, <2>1, <3>1
  <2> HIDE DEF cap, t, rate
  <2>5. CASE r[k + 1] = D
    BY <2>1, <2>5
  <2>6. CASE r[k + 1] # D
    <3>1. r[k] # D /\ cap = t
      BY <1>1, <2>1, <2>2, <2>3, <2>6
    <3> DEFINE u == B * p[k]
               v == B * rate
               w == r[k]
    <3>2. u \in Int /\ v \in Int /\ w \in Int /\ t \in Int /\ k \in Nat /\ B * p[k + 1] = u + v
      BY <2>1, <2>2, <2>4
    <3>3. OnCourse(w, u, k) /\ OnCourse(t, v, 1)
      BY <2>2, <3>1
    <3> HIDE DEF u, v, w
    <3>4. OnCourse(w + t, u + v, k + 1)
      BY <3>2, <3>3, CoursesAdd
    <3>5. r[k + 1] = w + t
      BY <2>1, <3>1 DEF w
    <3>6. QED
      BY <2>1, <3>2, <3>4, <3>5
  <2>7. QED
    BY <2>5, <2>6
<1>8. Good(T)
  <2>1. T \in S
    <3> HIDE DEF S
    <3>1. QED
      BY <1>1, <1>6, <1>7, ByPrefix
  <2>2. QED
    BY <2>1
<1>9. N >= T
  BY DEF T, column
<1> DEFINE After == {k \in 0 .. N : k >= T => r[k] >= r[T]}
<1>10. N \in After
  <2>1. 0 \in After
    BY <1>1, <1>4
  <2>2. \A k \in 0 .. N - 1 : k \in After => k + 1 \in After
    <3> SUFFICES ASSUME NEW k \in 0 .. N - 1, k >= T => r[k] >= r[T], k + 1 >= T
                 PROVE  k + 1 \in 0 .. N /\ r[k + 1] >= r[T]
      OBVIOUS
    <3> DEFINE cap == Capped(MacrsDeduction(a, c, Placed[a] + k), B, r[k])
    <3>1. k \in 0 .. N /\ k + 1 \in 0 .. N /\ T \in 0 .. N
      BY <1>1, <1>9
    <3>2. r[k] \in Nat /\ r[k] <= D /\ r[k + 1] = r[k] + cap /\ r[T] \in Nat
      BY <1>4, <3>1
    <3>3. cap \in Nat
      BY <1>1, <3>2, TableAmount, CappedWithin DEF D
    <3> HIDE DEF cap
    <3>4. CASE k >= T
      BY <3>1, <3>2, <3>3, <3>4
    <3>5. CASE k + 1 = T
      BY <3>1, <3>2, <3>5
    <3>6. QED
      BY <1>1, <3>4, <3>5
  <2> HIDE DEF After
  <2>3. QED
    BY <2>1, <2>2, ByPrefix
<1>11. r[N] \in Nat /\ r[T] \in Nat /\ r[N] >= r[T] /\ r[N] <= D
  BY <1>1, <1>4, <1>9, <1>10
<1>12. 2 * (D - r[N]) <= T + 1
  <2>1. CASE r[T] = D
    BY <1>1, <1>11, <2>1
  <2>2. CASE OnCourse(r[T], B * p[T], T)
    <3>1. OnCourse(r[T], B * Whole, T)
      BY <1>2, <2>2
    <3>2. 20000000 * r[T] >= 2 * (B * Whole) - T * 10000000
      BY <3>1, SMT DEF OnCourse
    <3>3. QED
      BY <1>1, <1>3, <1>11, <3>2, SMT DEF Whole
  <2>3. QED
    BY <1>8, <2>1, <2>2
<1>13. QED
  BY <1>12 DEF D, r, T, column, B

\* A faithful history is the table's: what a table that has run out leaves
\* unrecovered is a matter of rounding.
LEMMA RecoveredAsRounded ==
  ASSUME IInv, HistoryReconstructs
  PROVE  RecoveredWithinRounding
<1> SUFFICES ASSUME NEW a \in RunOut
             PROVE  2 * (Rounded(Basis[a]) - taken[a]) <= TableLength(a) + 1
  BY DEF RecoveredWithinRounding
<1>1. /\ a \in faithful /\ a \in Assets /\ Placed[a] < year
      /\ year - Placed[a] >= Len(Rates[a][used[a]])
      /\ used[a] \in ConventionsOf(a) /\ year \in Nat /\ Placed[a] \in Nat
  BY AssetAssumption DEF RunOut, TableLength, IInv, TypeOK
<1>2. year - Placed[a] \in Nat
  BY <1>1
<1>3. taken[a] = History(a, used[a], year - Placed[a])[year - Placed[a]]
  BY <1>1, ReconstructIs DEF HistoryReconstructs
<1>4. QED
  BY <1>1, <1>2, <1>3, TableRecovers DEF TableLength

----------------------------------------------------------------------------

\* The first year: nothing taken, no convention used.
LEMMA InductiveInit == Init => IInv
<1> SUFFICES ASSUME Init PROVE IInv
  OBVIOUS
<1>1. TypeOK
  <2>1. FirstYear \in FirstYear .. LastYear + 1
    BY AssetAssumption, SMT
  <2>2. \A a \in Assets : Placed[a] \in Nat /\ ~(Placed[a] < FirstYear)
    BY AssetAssumption, SMT
  <2>3. QED
    BY <2>1, <2>2 DEF Init, TypeOK
<1>2. LifetimeWithinBasis
  <2> SUFFICES ASSUME NEW a \in Assets PROVE taken[a] <= Rounded(Basis[a])
    BY DEF LifetimeWithinBasis
  <2>1. Basis[a] \in Nat /\ taken[a] = 0
    BY AssetAssumption DEF Init
  <2>2. Rounded(Basis[a]) \in Nat
    BY <2>1, RoundsToDollars
  <2>3. QED
    BY <2>1, <2>2
<1>3. NothingTakenEarly
  BY DEF Init, NothingTakenEarly
<1>4. QED
  BY <1>1, <1>2, <1>3 DEF IInv

\* A filed return keeps the invariant.
LEMMA FileReturnKeeps ==
  ASSUME IInv,
         NEW listed \in SUBSET {a \in Assets : Placed[a] <= year},
         NEW states, FileReturn(listed, states)
  PROVE  IInv'
<1> DEFINE mq == MidQuarterApplies(listed, year)
           convention(a) == AssetConvention(a, states[a].convention, year, mq)
<1>1. /\ year \in Nat /\ LastYear \in Nat /\ FirstYear \in Nat
      /\ year <= LastYear /\ FirstYear <= year /\ year' = year + 1
      /\ Placed \in [Assets -> Nat] /\ taken \in [Assets -> Nat]
      /\ \A a \in Assets : None \notin ConventionsOf(a)
  BY AssetAssumption DEF IInv, TypeOK, FileReturn
<1>2. \A a \in listed : states[a] \in Accepted(a, mq)
  BY DEF FileReturn
<1>3. taken' = [a \in Assets |->
         IF a \in listed THEN taken[a] + AssetAmount(a, states[a], mq)
         ELSE taken[a]]
  BY DEF FileReturn
<1>4. used' = [a \in Assets |->
         IF a \in listed /\ Placed[a] = year THEN convention(a) ELSE used[a]]
  BY DEF FileReturn
<1>5. faithful' = {a \in faithful :
         Placed[a] <= year => a \in listed
           /\ (Placed[a] < year /\ a \notin Real => states[a].convention = used[a])}
  BY DEF FileReturn
<1>6. \A a \in listed : a \in Assets /\ Placed[a] <= year
  OBVIOUS
<1>7. \A a \in listed : convention(a) \in ConventionsOf(a)
  <2> SUFFICES ASSUME NEW a \in listed PROVE convention(a) \in ConventionsOf(a)
    OBVIOUS
  <2>1. states[a] \in Statements(a) /\ WellStated(a, states[a])
    BY <1>2 DEF Accepted
  <2>2. QED
    BY <1>1, <1>6, <2>1, ConventionIsOwn
<1>8. \A a \in listed :
        /\ AssetAmount(a, states[a], mq) \in Nat
        /\ taken[a] + AssetAmount(a, states[a], mq) <= Rounded(Basis[a])
  BY <1>2, <1>6, AmountWithin
<1> HIDE DEF mq, convention
<1>9. TypeOK'
  <2>1. (year \in FirstYear .. LastYear + 1)'
    BY <1>1, SMT
  <2>2. (taken \in [Assets -> Nat])'
    <3> SUFFICES ASSUME NEW a \in Assets
                 PROVE  (IF a \in listed
                         THEN taken[a] + AssetAmount(a, states[a], mq)
                         ELSE taken[a]) \in Nat
      BY <1>3
    <3>1. taken[a] \in Nat
      BY <1>1
    <3>2. CASE a \in listed
      BY <1>8, <3>1, <3>2, SMT
    <3>3. QED
      BY <3>1, <3>2
  <2>3. \A a \in Assets : used[a] \in ConventionsOf(a) \cup {None}
    BY DEF IInv, TypeOK
  <2>4. \A a \in Assets : used'[a] \in ConventionsOf(a) \cup {None}
    BY <1>4, <1>7, <2>3
  <2>5. (used \in [Assets -> {None} \cup UNION {ConventionsOf(a) : a \in Assets}])'
    BY <1>4, <2>4
  <2>6. faithful' \subseteq
          {a \in Assets : Placed[a] < year + 1 => used'[a] # None}
    <3> SUFFICES ASSUME NEW a \in faithful', Placed[a] < year + 1
                 PROVE  a \in Assets /\ used'[a] # None
      BY <1>5 DEF IInv, TypeOK
    <3>1. a \in faithful /\ a \in Assets
      BY <1>5 DEF IInv, TypeOK
    <3>2. Placed[a] \in Nat
      BY <1>1, <3>1
    <3>3. Placed[a] <= year
      BY <1>1, <3>2, SMT
    <3>4. a \in listed
      BY <1>5, <3>3
    <3>5. CASE Placed[a] = year
      <4>1. used'[a] = convention(a)
        BY <1>4, <3>1, <3>4, <3>5
      <4>2. QED
        BY <1>1, <1>7, <3>1, <3>4, <4>1
    <3>6. CASE Placed[a] # year
      <4>1. Placed[a] < year
        BY <1>1, <3>2, <3>3, <3>6, SMT
      <4>2. used[a] # None
        BY <3>1, <4>1 DEF IInv, TypeOK
      <4>3. QED
        BY <1>4, <3>1, <3>6, <4>2
    <3>7. QED
      BY <3>1, <3>5, <3>6
  <2>7. QED
    BY <1>1, <2>1, <2>2, <2>4, <2>5, <2>6 DEF TypeOK
<1>10. LifetimeWithinBasis'
  BY <1>3, <1>8 DEF IInv, LifetimeWithinBasis
<1>11. NothingTakenEarly'
  <2> SUFFICES ASSUME NEW a \in Assets, Placed[a] >= year + 1
               PROVE  taken'[a] = 0
    BY <1>1 DEF NothingTakenEarly
  <2>1. Placed[a] \in Nat
    BY <1>1
  <2>2. Placed[a] >= year /\ ~(Placed[a] <= year)
    BY <1>1, <2>1, SMT
  <2>3. a \notin listed /\ taken[a] = 0
    BY <1>6, <2>2 DEF IInv, NothingTakenEarly
  <2>4. QED
    BY <1>3, <2>3
<1>12. QED
  BY <1>9, <1>10, <1>11 DEF IInv

\* A filed return keeps the histories of the faithful on the tables: an asset
\* placed this year starts its table, and an earlier one, stating what its
\* placement year used, adds the year that follows what it reconstructs.
LEMMA HistoryKept ==
  ASSUME IInv, HistoryReconstructs,
         NEW listed \in SUBSET {a \in Assets : Placed[a] <= year},
         NEW states, FileReturn(listed, states)
  PROVE  HistoryReconstructs'
<1> DEFINE mq == MidQuarterApplies(listed, year)
           convention(a) == AssetConvention(a, states[a].convention, year, mq)
<1>1. /\ year \in Nat /\ year' = year + 1
      /\ Placed \in [Assets -> Nat] /\ taken \in [Assets -> Nat]
      /\ \A a \in listed : states[a] \in Accepted(a, mq)
      /\ taken' = [a \in Assets |->
           IF a \in listed THEN taken[a] + AssetAmount(a, states[a], mq) ELSE taken[a]]
      /\ used' = [a \in Assets |->
           IF a \in listed /\ Placed[a] = year THEN convention(a) ELSE used[a]]
      /\ faithful' = {a \in faithful :
           Placed[a] <= year => a \in listed
             /\ (Placed[a] < year /\ a \notin Real => states[a].convention = used[a])}
  BY AssetAssumption DEF IInv, TypeOK, FileReturn
<1> SUFFICES ASSUME NEW a \in faithful', Placed[a] < year + 1
             PROVE  taken'[a] = Reconstruct(a, used'[a], year + 1)
  BY <1>1 DEF HistoryReconstructs
<1>2. /\ a \in faithful /\ a \in Assets /\ a \in listed /\ Placed[a] \in Nat
      /\ Placed[a] <= year
      /\ (Placed[a] < year /\ a \notin Real => states[a].convention = used[a])
  BY <1>1 DEF IInv, TypeOK
<1>3. /\ states[a] \in Accepted(a, mq) /\ states[a] \in Statements(a)
      /\ WellStated(a, states[a])
  BY <1>1, <1>2 DEF Accepted
<1>4. /\ convention(a) \in ConventionsOf(a)
      /\ AssetAmount(a, states[a], mq)
           = Capped(MacrsDeduction(a, convention(a), year), Basis[a], taken[a])
  BY <1>1, <1>2, <1>3, ConventionIsOwn, AmountWithin
<1>5. taken'[a] = taken[a] + AssetAmount(a, states[a], mq)
  BY <1>1, <1>2
<1> DEFINE n == year - Placed[a]
           c == convention(a)
<1>6. n \in Nat /\ Placed[a] + n = year /\ (year + 1) - Placed[a] = n + 1
  BY <1>1, <1>2
<1>7. used'[a] = c
  <2>1. CASE Placed[a] = year
    BY <1>1, <1>2, <2>1
  <2>2. CASE Placed[a] < year /\ a \in Real
    <3>1. used[a] \in ConventionsOf(a) /\ used'[a] = used[a]
      BY <1>1, <1>2, <2>2 DEF IInv, TypeOK
    <3>2. ConventionsOf(a) = {MidMonth(Month[a])} /\ c = MidMonth(Month[a])
      BY <2>2 DEF ConventionsOf, AssetConvention
    <3>3. QED
      BY <3>1, <3>2
  <2>3. CASE Placed[a] < year /\ a \notin Real
    BY <1>1, <1>2, <2>3 DEF AssetConvention
  <2>4. QED
    BY <1>1, <1>2, <2>1, <2>2, <2>3
<1>8. taken[a] = History(a, c, n)[n]
  <2>1. CASE Placed[a] = year
    <3>1. n = 0 /\ taken[a] = 0
      BY <1>1, <1>2, <2>1 DEF IInv, NothingTakenEarly
    <3>2. History(a, c, 0)[0] = 0
      BY <1>2, <1>4, HistoryFollows DEF Follows
    <3>3. QED
      BY <3>1, <3>2
  <2>2. CASE Placed[a] < year
    <3>1. used'[a] = used[a]
      BY <1>1, <1>2, <2>2
    <3>2. taken[a] = Reconstruct(a, c, year)
      BY <1>2, <1>7, <2>2, <3>1 DEF HistoryReconstructs
    <3> HIDE DEF c
    <3>3. Reconstruct(a, c, year) = History(a, c, n)[n]
      BY <1>1, <1>2, <2>2, ReconstructIs
    <3>4. QED
      BY <3>2, <3>3
  <2>3. QED
    BY <1>1, <1>2, <2>1, <2>2
<1>9. c \in ConventionsOf(a)
  BY <1>4
<1>10. AssetAmount(a, states[a], mq)
         = Capped(MacrsDeduction(a, c, Placed[a] + n), Basis[a], History(a, c, n)[n])
  BY <1>4, <1>6, <1>8
<1> HIDE DEF c, mq, convention
<1>11. Reconstruct(a, c, year + 1) = History(a, c, n + 1)[n + 1]
  <2>1. year + 1 \in Nat
    BY <1>1
  <2>2. QED
    BY <1>2, <1>6, <2>1, ReconstructIs
<1> HIDE DEF n
<1>12. History(a, c, n + 1)[n + 1]
         = History(a, c, n)[n]
             + Capped(MacrsDeduction(a, c, Placed[a] + n), Basis[a], History(a, c, n)[n])
  BY <1>2, <1>6, <1>9, OneYearMore
<1>13. QED
  BY <1>5, <1>7, <1>8, <1>10, <1>11, <1>12

\* So does a year prepared elsewhere.
LEMMA YearElsewhereKeeps ==
  ASSUME IInv, NEW a \in Assets, NEW amount \in OutsideAmounts,
         YearElsewhere(a, amount)
  PROVE  IInv'
<1>1. /\ year \in Nat /\ LastYear \in Nat /\ FirstYear \in Nat
      /\ year <= LastYear /\ FirstYear <= year /\ year' = year + 1
      /\ Placed \in [Assets -> Nat] /\ taken \in [Assets -> Nat]
      /\ amount \in Nat /\ used' = used /\ Placed[a] <= year
      /\ taken[a] + amount <= Rounded(Basis[a])
      /\ taken' = [taken EXCEPT ![a] = taken[a] + amount]
      /\ faithful' = faithful \ {b \in Assets : Placed[b] <= year}
  <2>1. /\ year \in Nat /\ LastYear \in Nat /\ FirstYear \in Nat
        /\ FirstYear <= year /\ amount \in Nat
        /\ Placed \in [Assets -> Nat] /\ taken \in [Assets -> Nat]
    BY AssetAssumption DEF IInv, TypeOK
  <2>2. QED
    BY <2>1 DEF YearElsewhere
<1>2. TypeOK'
  <2>1. (year \in FirstYear .. LastYear + 1)'
    BY <1>1, SMT
  <2>2. taken[a] + amount \in Nat
    BY <1>1, SMT
  <2>3. (taken \in [Assets -> Nat])'
    BY <1>1, <2>2
  <2>4. \A b \in Assets : Placed[b] < year + 1 => Placed[b] <= year
    BY <1>1, SMT
  <2>5. faithful' \subseteq
          {b \in Assets : Placed[b] < year + 1 => used'[b] # None}
    BY <1>1, <2>4 DEF IInv, TypeOK
  <2>6. QED
    BY <1>1, <2>1, <2>3, <2>5 DEF IInv, TypeOK
<1>3. LifetimeWithinBasis'
  BY <1>1 DEF IInv, LifetimeWithinBasis
<1>4. NothingTakenEarly'
  <2> SUFFICES ASSUME NEW b \in Assets, Placed[b] >= year + 1
               PROVE  taken'[b] = 0
    BY <1>1 DEF NothingTakenEarly
  <2>1. Placed[b] \in Nat /\ Placed[a] \in Nat
    BY <1>1
  <2>2. Placed[b] >= year /\ b # a
    BY <1>1, <2>1, SMT
  <2>3. QED
    BY <1>1, <2>2 DEF IInv, NothingTakenEarly
<1>5. QED
  BY <1>2, <1>3, <1>4 DEF IInv

\* No action breaks the invariant.
LEMMA InductiveStep == IInv /\ [Next]_vars => IInv'
<1> SUFFICES ASSUME IInv, [Next]_vars PROVE IInv'
  OBVIOUS
<1>1. ASSUME NEW listed \in SUBSET {a \in Assets : Placed[a] <= year},
             NEW states, FileReturn(listed, states)
      PROVE  IInv'
  BY <1>1, FileReturnKeeps
<1>2. ASSUME NEW a \in Assets, NEW amount \in OutsideAmounts,
             YearElsewhere(a, amount)
      PROVE  IInv'
  BY <1>2, YearElsewhereKeeps
<1>3. CASE UNCHANGED vars
  BY <1>3 DEF vars, IInv, TypeOK, LifetimeWithinBasis, NothingTakenEarly
<1>4. QED
  BY <1>1, <1>2, <1>3 DEF Next

\* The inductive invariant: types, the ceiling, and that an asset new to a
\* return has nothing taken (its missing prior figure means zero).
THEOREM Invariance == Spec => []IInv
BY InductiveInit, InductiveStep, PTL DEF Spec

\* Every history is in whole dollars, and every convention a filed return
\* settled on is one its asset can have (asset_convention).
THEOREM TypeCorrect == Spec => []TypeOK
<1>1. IInv => TypeOK
  BY DEF IInv
<1>2. QED
  BY Invariance, <1>1, PTL

\* "Lifetime depreciation therefore never exceeds basis" (_capped): over any
\* sequence of accepted returns, lapses and years prepared elsewhere.
THEOREM BasisCeiling == Spec => []LifetimeWithinBasis
<1>1. IInv => LifetimeWithinBasis
  BY DEF IInv
<1>2. QED
  BY Invariance, <1>1, PTL

\* With them, that the tables reconstruct every faithful history.
HInv == IInv /\ HistoryReconstructs

\* Every step keeps them: a year prepared elsewhere leaves nobody in service
\* faithful.
LEMMA HistoryStep == HInv /\ [Next]_vars => HInv'
<1> SUFFICES ASSUME HInv, [Next]_vars PROVE HistoryReconstructs'
  BY InductiveStep DEF HInv
<1>1. ASSUME NEW listed \in SUBSET {a \in Assets : Placed[a] <= year},
             NEW states, FileReturn(listed, states)
      PROVE  HistoryReconstructs'
  BY <1>1, HistoryKept DEF HInv
<1>2. ASSUME NEW a \in Assets, NEW amount \in OutsideAmounts,
             YearElsewhere(a, amount)
      PROVE  HistoryReconstructs'
  <2>1. /\ year \in Nat /\ year' = year + 1 /\ Placed \in [Assets -> Nat]
        /\ faithful \subseteq Assets
        /\ faithful' = faithful \ {b \in Assets : Placed[b] <= year}
    <3>1. /\ year \in FirstYear .. LastYear + 1 /\ FirstYear \in Nat /\ LastYear \in Nat
          /\ Placed \in [Assets -> Nat] /\ faithful \subseteq Assets
      BY AssetAssumption DEF HInv, IInv, TypeOK
    <3>2. /\ year' = year + 1
          /\ faithful' = faithful \ {b \in Assets : Placed[b] <= year}
      BY <1>2 DEF YearElsewhere
    <3>3. QED
      BY <3>1, <3>2
  <2>2. \A b \in faithful' : ~(Placed[b] < year')
    BY <2>1
  <2>3. QED
    BY <2>2 DEF HistoryReconstructs
<1>3. CASE UNCHANGED vars
  BY <1>3 DEF vars, HInv, HistoryReconstructs
<1>4. QED
  BY <1>1, <1>2, <1>3 DEF Next

\* The first year has no histories.
LEMMA HistoryInit == Init => HInv
<1>1. Init => HistoryReconstructs
  BY AssetAssumption DEF Init, HistoryReconstructs
<1>2. QED
  BY <1>1, InductiveInit DEF HInv

\* A filer who states what earlier returns really used and took is never
\* refused for it (_check_depreciation): whatever was placed in service
\* since, reconstruct_prior_depreciation finds the history that was filed.
THEOREM HistoryFound == Spec => []HistoryReconstructs
<1>1. HInv => HistoryReconstructs
  BY DEF HInv
<1>2. QED
  BY HistoryInit, HistoryStep, <1>1, PTL DEF Spec

\* A finished table leaves unrecovered at most the half dollar that each of
\* its years, and the basis, may lose to rounding, whatever the column.
THEOREM BasisRecovered == Spec => []RecoveredWithinRounding
<1>1. HInv => RecoveredWithinRounding
  BY RecoveredAsRounded DEF HInv
<1>2. QED
  BY HistoryInit, HistoryStep, <1>1, PTL DEF Spec
=============================================================================
