----------------------- MODULE ReturnArithmetic_proofs -----------------------
(***************************************************************************)
(* What the lines of the forms add up to, for every amount and every       *)
(* scenario of the types of models.py.                                     *)
(*                                                                         *)
(* First, what kind of value each figure of a return is: a whole number of *)
(* dollars, a natural number, or nothing.  The lemmas go module by module, *)
(* from what the loader guarantees of a scenario (TypedScenario) and from  *)
(* the assumptions on the tables of the year.  Then the operators of       *)
(* AmendmentForms, California, CapitalGains, SelfEmployment, PassiveLosses *)
(* and ReturnSummary on such values.  A run checks the same facts on the   *)
(* amounts of its scenarios; here they are arbitrary.                      *)
(***************************************************************************)
EXTENDS FederalReturn, Money_proofs

----------------------------------------------------------------------------
(* Lists, and what is kept of them.                                        *)

\* A list of members of S is a sequence over S, and the other way round.
LEMMA ListIsSeq ==
  ASSUME NEW x, NEW S, IsList(x), \A i \in 1 .. Len(x) : x[i] \in S
  PROVE  x \in Seq(S)
<1>1. [i \in 1 .. Len(x) |-> x[i]] \in [1 .. Len(x) -> S]
  OBVIOUS
<1>2. QED
  BY <1>1 DEF IsList

\* A sequence over S is a list of members of S.
LEMMA SeqIsList ==
  ASSUME NEW S, NEW x \in Seq(S)
  PROVE  IsList(x) /\ \A i \in 1 .. Len(x) : x[i] \in S
BY DEF IsList

\* A list, member by member, is a list of its length.
LEMMA MapIsList ==
  ASSUME NEW n \in Nat, NEW S, NEW x \in [1 .. n -> S]
  PROVE  x \in Seq(S) /\ Len(x) = n /\ IsList(x)
<1>1. x \in Seq(S) /\ Len(x) = n
  OBVIOUS
<1>2. QED
  BY <1>1, SeqIsList

\* The members of a list joined to another's.
LEMMA JoinedList ==
  ASSUME NEW x, NEW y, IsList(x), IsList(y)
  PROVE  /\ IsList(x \o y) /\ Len(x \o y) = Len(x) + Len(y)
         /\ \A i \in 1 .. Len(x) : (x \o y)[i] = x[i]
         /\ \A i \in 1 .. Len(y) : (x \o y)[Len(x) + i] = y[i]
         /\ \A i \in 1 .. Len(x \o y) :
              \/ \E j \in 1 .. Len(x) : (x \o y)[i] = x[j]
              \/ \E j \in 1 .. Len(y) : (x \o y)[i] = y[j]
<1> DEFINE S == {x[i] : i \in 1 .. Len(x)} \cup {y[i] : i \in 1 .. Len(y)}
           z == x \o y
<1>1. x \in Seq(S) /\ y \in Seq(S)
  <2>1. (\A i \in 1 .. Len(x) : x[i] \in S) /\ (\A i \in 1 .. Len(y) : y[i] \in S)
    OBVIOUS
  <2> HIDE DEF S
  <2>2. QED
    BY <2>1, ListIsSeq
<1> HIDE DEF S
<1>2. /\ z \in Seq(S) /\ Len(z) = Len(x) + Len(y)
      /\ \A i \in 1 .. Len(x) : z[i] = x[i]
      /\ \A i \in 1 .. Len(y) : z[Len(x) + i] = y[i]
  BY <1>1
<1>3. IsList(z) /\ Len(x) \in Nat /\ Len(y) \in Nat
  <2>1. z \in Seq(S) /\ Len(x) \in Nat /\ Len(y) \in Nat
    BY <1>1, <1>2
  <2> HIDE DEF z
  <2>2. QED
    BY <2>1, SeqIsList
<1> HIDE DEF z
<1>4. ASSUME NEW i \in 1 .. Len(z)
      PROVE  \/ \E j \in 1 .. Len(x) : z[i] = x[j]
             \/ \E j \in 1 .. Len(y) : z[i] = y[j]
  <2>1. CASE i <= Len(x)
    BY <1>2, <1>3, <2>1
  <2>2. CASE i > Len(x)
    <3>1. PICK j \in 1 .. Len(y) : i = Len(x) + j
      <4>1. i - Len(x) \in 1 .. Len(y) /\ i = Len(x) + (i - Len(x))
        BY <1>2, <1>3, <2>2
      <4>2. QED
        BY <4>1
    <3>2. QED
      BY <1>2, <3>1
  <2>3. QED
    BY <1>3, <2>1, <2>2
<1>5. QED
  BY <1>2, <1>3, <1>4 DEF z

\* The first members of a list, at most n of them.
LEMMA FirstOfList ==
  ASSUME NEW x, IsList(x), NEW n \in Nat
  PROVE  /\ IsList(First(x, n)) /\ Len(First(x, n)) = Smaller(Len(x), n)
         /\ Len(First(x, n)) \in 0 .. Len(x)
         /\ \A i \in 1 .. Len(First(x, n)) : First(x, n)[i] = x[i]
<1> DEFINE m == Smaller(Len(x), n)
           S == {x[i] : i \in 1 .. Len(x)}
           y == [i \in 1 .. m |-> x[i]]
<1>1. Len(x) \in Nat /\ m \in 0 .. Len(x)
  BY DEF IsList, Smaller
<1>2. m \in Nat /\ 1 .. m \subseteq 1 .. Len(x)
  BY <1>1
<1> HIDE DEF m
<1>3. y \in [1 .. m -> S]
  BY <1>2
<1> HIDE DEF S
<1>4. IsList(y) /\ Len(y) = m /\ \A i \in 1 .. m : y[i] = x[i]
  BY <1>2, <1>3, MapIsList
<1>5. First(x, n) = y
  BY DEF First, m
<1>6. QED
  BY <1>1, <1>4, <1>5 DEF m

\* What a selection keeps of a list is a list of its members.
LEMMA SelectedList ==
  ASSUME NEW x, IsList(x), NEW S
  PROVE  /\ IsList(Selection(x, S))
         /\ \A i \in 1 .. Len(Selection(x, S)) :
              \E j \in 1 .. Len(x) : j \in S /\ Selection(x, S)[i] = x[j]
<1> DEFINE kept == Kept(Len(x), S)
           T == {x[i] : i \in 1 .. Len(x)}
           y == Selection(x, S)
<1>1. Len(x) \in Nat
  BY DEF IsList
<1>2. kept \in Seq(S \cap (1 .. Len(x)))
  BY <1>1, KeptAre
<1>3. y = [i \in DOMAIN kept |-> x[kept[i]]]
  BY DEF Selection
<1> HIDE DEF kept, y
<1>4. /\ Len(kept) \in Nat /\ DOMAIN kept = 1 .. Len(kept)
      /\ \A i \in 1 .. Len(kept) : kept[i] \in S \cap (1 .. Len(x))
  BY <1>2
<1>5. y \in [1 .. Len(kept) -> T]
  BY <1>3, <1>4
<1> HIDE DEF T
<1>6. IsList(y) /\ Len(y) = Len(kept)
  BY <1>4, <1>5, MapIsList
<1>7. \A i \in 1 .. Len(y) : \E j \in 1 .. Len(x) : j \in S /\ y[i] = x[j]
  BY <1>3, <1>4, <1>6
<1>8. QED
  BY <1>6, <1>7 DEF y

----------------------------------------------------------------------------
(* Depreciation.                                                           *)

\* The convention of an asset the ledger lets pass is a column of its tables.
LEMMA ConventionIsAColumn ==
  ASSUME NEW a, TypedAsset(a), NEW year \in Int, NEW midQuarter,
         Computable(a, year), a.placed <= year
  PROVE  ConventionOf(a, year, midQuarter) \in Conventions(a.class)
<1>1. /\ a.month \in 1 .. 12 /\ a.placed \in Int /\ Quarter(a.month) \in 1 .. 4
      /\ a.class \in Classes
  BY DEF TypedAsset, Quarter, Computable
<1>2. CASE a.class \in RealClasses
  BY <1>1, <1>2 DEF ConventionOf, Conventions
<1>3. CASE a.class \notin RealClasses /\ a.placed < year
  <2>1. a.class \in PersonalClasses /\ ConventionUsable(a)
    BY <1>1, <1>3 DEF Classes, Computable, StatesConvention
  <2>2. CASE a.convention = "half-year" /\ a.quarter = None
    BY <1>3, <2>2 DEF ConventionOf, Conventions
  <2>3. CASE a.convention = "mid-quarter" /\ a.quarter = Quarter(a.month)
    <3>1. a.quarter # None
      BY <1>1, <2>3, NoneAssumption
    <3>2. ConventionOf(a, year, midQuarter) = <<"mid-quarter", Quarter(a.month)>>
      BY <1>3, <2>3, <3>1 DEF ConventionOf
    <3>3. QED
      BY <1>1, <1>3, <3>2 DEF Conventions
  <2>4. QED
    BY <2>1, <2>2, <2>3 DEF ConventionUsable
<1>4. CASE a.class \notin RealClasses /\ ~(a.placed < year)
  <2>1. ConventionOf(a, year, midQuarter) \in {<<"mid-quarter", Quarter(a.month)>>, <<"half-year", 0>>}
    BY <1>4 DEF ConventionOf
  <2>2. QED
    BY <1>1, <1>4, <2>1 DEF Conventions
<1>5. QED
  BY <1>2, <1>3, <1>4

\* A year's amount of the IRS table is a whole number.
LEMMA TableAmountType ==
  ASSUME NEW a, TypedAsset(a), a.class \in Classes,
         NEW convention \in Conventions(a.class), NEW n
  PROVE  TableAmount(a, convention, n) \in Int
<1>1. CASE n \in DOMAIN Rates[a.class][convention]
  <2>1. a.basis \in Int /\ Rates[a.class][convention][n] \in Nat
    BY <1>1, RatesAssumption DEF TypedAsset
  <2>2. \A x, y \in Int : x * y \in Int
    OBVIOUS
  <2>3. a.basis * Rates[a.class][convention][n] \in Int
    BY <2>1, <2>2
  <2>4. \A x \in Int : (x + 5000000) \div 10000000 \in Int
    BY SMT
  <2>5. QED
    BY <1>1, <2>3, <2>4 DEF TableAmount
<1>2. QED
  BY <1>1 DEF TableAmount

\* A year's amount, cut to what is left of the basis, is a whole number.
LEMMA CappedType ==
  ASSUME NEW table \in Int, NEW basis \in Int, NEW taken \in Int
  PROVE  CappedAt(table, basis, taken) \in Int
<1>1. Rounded(basis) \in Int
  BY RoundedIsNearest
<1>2. QED
  BY <1>1 DEF CappedAt, Smaller, Positive, Larger

\* What the tables take of an asset by the end of any year.
TakenAlong(r, a, convention, n) ==
  /\ r \in [0 .. n -> Int] /\ r[0] = 0
  /\ \A k \in 0 .. n - 1 :
       r[k + 1] = r[k] + CappedAt(TableAmount(a, convention, k + 1), a.basis, r[k])
TakenTo(a, convention, n) ==
  LET upTo[k \in 0 .. n] ==
        IF k = 0 THEN 0
        ELSE upTo[k - 1]
               + CappedAt(TableAmount(a, convention, k), a.basis, upTo[k - 1])
  IN upTo

\* What was taken over the years is the recurrence of the code.
LEMMA TakenIsAlong ==
  ASSUME NEW a, TypedAsset(a), a.class \in Classes,
         NEW convention \in Conventions(a.class), NEW n \in Nat
  PROVE  TakenAlong(TakenTo(a, convention, n), a, convention, n)
<1> DEFINE step(k, v) == v + CappedAt(TableAmount(a, convention, k), a.basis, v)
           next == [k \in 1 .. n |-> [v \in Int |-> step(k, v)]]
           F(g) == [k \in 0 .. n |-> IF k = 0 THEN 0 ELSE step(k, g[k - 1])]
           r == CHOOSE g : g = F(g)
<1>1. \A k \in 1 .. n : \A v \in Int : step(k, v) \in Int
  <2>1. a.basis \in Int /\ \A k : TableAmount(a, convention, k) \in Int
    BY TableAmountType DEF TypedAsset
  <2>2. \A k : \A v \in Int : CappedAt(TableAmount(a, convention, k), a.basis, v) \in Int
    BY <2>1, CappedType
  <2>3. QED
    BY <2>2
<1>2. next \in [1 .. n -> [Int -> Int]]
  BY <1>1
<1>3. PICK f : ByRuleTo(f, n, Int, 0, next)
  <2> HIDE DEF next
  <2>1. 0 \in Int
    OBVIOUS
  <2>2. QED
    BY <1>2, <2>1, ByRule
<1>4. /\ f \in [0 .. n -> Int] /\ f[0] = 0
      /\ \A k \in 0 .. n - 1 : f[k + 1] = step(k + 1, f[k])
  <2>1. /\ f \in [0 .. n -> Int] /\ f[0] = 0
        /\ \A k \in 0 .. n - 1 : f[k + 1] = next[k + 1][f[k]]
    BY <1>3 DEF ByRuleTo
  <2>2. \A k \in 0 .. n - 1 : k + 1 \in 1 .. n /\ f[k] \in Int
    BY <2>1
  <2>3. QED
    BY <2>1, <2>2
<1>5. f = F(f)
  <2>1. \A k \in 0 .. n : f[k] = IF k = 0 THEN 0 ELSE step(k, f[k - 1])
    <3> SUFFICES ASSUME NEW k \in 0 .. n PROVE f[k] = IF k = 0 THEN 0 ELSE step(k, f[k - 1])
      OBVIOUS
    <3>1. CASE k = 0
      BY <1>4, <3>1
    <3>2. CASE k # 0
      <4>1. k - 1 \in 0 .. n - 1 /\ (k - 1) + 1 = k
        BY <3>2
      <4>2. f[k] = step(k, f[k - 1])
        BY <1>4, <4>1
      <4>3. QED
        BY <3>2, <4>2
    <3>3. QED
      BY <3>1, <3>2
  <2> HIDE DEF step
  <2>2. QED
    BY <1>4, <2>1
<1>6. r = F(r)
  BY <1>5
<1>7. TakenTo(a, convention, n) = r
  BY DEF TakenTo
<1> DEFINE S == {k \in 0 .. n : r[k] \in Int}
<1>8. /\ r[0] = 0
      /\ \A k \in 0 .. n - 1 : r[k + 1] = step(k + 1, r[k])
  <2> HIDE DEF r, step
  <2>1. \A k \in 0 .. n : r[k] = IF k = 0 THEN 0 ELSE step(k, r[k - 1])
    BY <1>6
  <2>2. \A k \in 0 .. n - 1 : k + 1 \in 0 .. n /\ k + 1 # 0 /\ (k + 1) - 1 = k
    OBVIOUS
  <2>3. QED
    BY <2>1, <2>2
<1>9. \A k \in 0 .. n : k \in S
  <2>1. 0 \in S
    BY <1>8
  <2>2. ASSUME NEW k \in 0 .. n - 1, k \in S PROVE k + 1 \in S
    <3>1. k + 1 \in 1 .. n /\ r[k] \in Int
      BY <2>2
    <3> HIDE DEF r, step
    <3>2. r[k + 1] \in Int
      BY <1>1, <1>8, <3>1
    <3>3. QED
      BY <3>1, <3>2
  <2> HIDE DEF S
  <2>3. QED
    BY <2>1, <2>2, ByPrefix
<1>10. r \in [0 .. n -> Int]
  <2>1. DOMAIN r = 0 .. n /\ r = [k \in 0 .. n |-> r[k]]
    <3> HIDE DEF r, step
    <3>1. QED
      BY <1>6
  <2>2. \A k \in 0 .. n : r[k] \in Int
    BY <1>9
  <2> HIDE DEF r, S
  <2>3. QED
    BY <2>1, <2>2
<1> HIDE DEF r, S
<1>11. QED
  BY <1>7, <1>8, <1>10 DEF TakenAlong

\* An asset the ledger lets pass has a whole-dollar deduction.
LEMMA AssetDeductionType ==
  ASSUME NEW a, TypedAsset(a), NEW year \in Int, NEW midQuarter,
         Computable(a, year), a.placed <= year
  PROVE  /\ AssetDeduction(a, year, midQuarter) \in Int
         /\ TakenBefore(a, year, midQuarter) \in Int
<1> DEFINE convention == ConventionOf(a, year, midQuarter)
           n == year - a.placed
<1>1. /\ convention \in Conventions(a.class) /\ a.class \in Classes
      /\ a.basis \in Int /\ a.placed \in Int /\ Optional(a.prior)
  BY ConventionIsAColumn DEF TypedAsset, Computable
<1> HIDE DEF convention
<1>2. TakenBefore(a, year, midQuarter) \in Int
  <2>1. CASE a.placed >= year
    BY <2>1 DEF TakenBefore
  <2>2. CASE ~(a.placed >= year)
    <3>1. n \in Nat
      BY <1>1, <2>2
    <3> HIDE DEF n
    <3>2. TakenAlong(TakenTo(a, convention, n), a, convention, n)
      BY <1>1, <3>1, TakenIsAlong
    <3>3. TakenTo(a, convention, n)[n] \in Int
      BY <3>1, <3>2 DEF TakenAlong
    <3>4. TakenThrough(a, convention, n) = TakenTo(a, convention, n)[n]
      BY DEF TakenThrough, TakenTo
    <3>5. QED
      BY <2>2, <3>3, <3>4 DEF TakenBefore, convention, n
  <2>3. QED
    BY <2>1, <2>2
<1>3. TakenSoFar(a, year, midQuarter) \in Int
  BY <1>1, <1>2, RoundedIsNearest DEF TakenSoFar, Optional
<1>4. TableAmount(a, convention, n + 1) \in Int
  BY <1>1, TableAmountType
<1>5. QED
  BY <1>1, <1>2, <1>3, <1>4, CappedType DEF AssetDeduction, convention

----------------------------------------------------------------------------
(* The scenario in effect: assets, shareholders' K-1s.                     *)

\* The assets of an activity that the engine can depreciate this year.
Depreciable(act, year) ==
  \A i \in 1 .. Len(act.assets) :
    Computable(act.assets[i], year) /\ act.assets[i].placed <= year

\* What resolve hands a schedule is an amount.
LEMMA ResolvedType ==
  ASSUME NEW act, TypedActivity(act), NEW year \in Int, NEW midQuarter,
         Depreciable(act, year)
  PROVE  /\ EngineAmount(act, year, midQuarter) \in Int
         /\ Resolved(act, year, midQuarter) \in Int
<1> DEFINE n == Len(act.assets)
           amounts == [i \in 1 .. n |-> AssetDeduction(act.assets[i], year, midQuarter)]
<1>1. /\ n \in Nat /\ DOMAIN act.assets = 1 .. n
      /\ \A i \in 1 .. n : TypedAsset(act.assets[i])
  BY DEF TypedActivity, ListOf, IsList
<1>2. \A i \in 1 .. n : AssetDeduction(act.assets[i], year, midQuarter) \in Int
  BY <1>1, AssetDeductionType DEF Depreciable
<1>3. amounts \in [1 .. n -> Int]
  BY <1>2
<1>4. EngineAmount(act, year, midQuarter) = SumSeq(amounts)
  BY <1>1 DEF EngineAmount, SumOf
<1> HIDE DEF n, amounts
<1>5. EngineAmount(act, year, midQuarter) \in Int
  BY <1>1, <1>3, <1>4, SumType
<1>6. act.stated \in Int /\ (act.override # None => act.override.amount \in Int)
  BY DEF TypedActivity, TypedOverride
<1>7. QED
  BY <1>5, <1>6 DEF Resolved, HasOverride

\* An activity with the depreciation it uses.
LEMMA UsedType ==
  ASSUME NEW act, TypedActivity(act), NEW amount \in Int
  PROVE  LET used == [act EXCEPT !.depreciation = amount] IN
         /\ TypedActivity(used) /\ used.depreciation = amount
         /\ TypedRental(act) => TypedRental(used)
         /\ TypedBusiness(act) => TypedBusiness(used)
<1> DEFINE used == [act EXCEPT !.depreciation = amount]
<1>1. "depreciation" \in DOMAIN act
  BY DEF TypedActivity
<1>2. /\ DOMAIN used = DOMAIN act /\ used.depreciation = amount
      /\ used.assets = act.assets /\ used.override = act.override
      /\ used.stated = act.stated
      /\ used.rents = act.rents /\ used.expenses = act.expenses
      /\ used.receipts = act.receipts /\ used.otherExpenses = act.otherExpenses
  BY <1>1
<1> HIDE DEF used
<1>3. TypedActivity(used)
  BY <1>1, <1>2 DEF TypedActivity
<1>4. (TypedRental(act) => TypedRental(used)) /\ (TypedBusiness(act) => TypedBusiness(used))
  BY <1>2 DEF TypedRental, TypedBusiness
<1>5. QED
  BY <1>2, <1>3, <1>4 DEF used

\* The activities of a return that resolve can be asked of.
DepreciableReturn(s) ==
  /\ \A i \in 1 .. Len(s.rentals) : Depreciable(s.rentals[i], s.year)
  /\ \A i \in 1 .. Len(s.businesses) : Depreciable(s.businesses[i], s.year)

\* A return with the depreciation its activities use has the types it had.
LEMMA WithDepreciationTyped ==
  ASSUME NEW s, TypedScenario(s), DepreciableReturn(s)
  PROVE  TypedScenario(WithDepreciation(s))
<1> DEFINE mq == MidQuarterOf(s)
           used(act) == [act EXCEPT !.depreciation = Resolved(act, s.year, mq)]
           rentals == [i \in DOMAIN s.rentals |-> used(s.rentals[i])]
           businesses == [i \in DOMAIN s.businesses |-> used(s.businesses[i])]
           t == WithDepreciation(s)
<1>1. /\ ListOf(s.rentals, TypedRental) /\ ListOf(s.rentals, TypedActivity)
      /\ ListOf(s.businesses, TypedBusiness) /\ ListOf(s.businesses, TypedActivity)
      /\ s.year \in Int /\ ReturnFields \subseteq DOMAIN s
  BY DEF TypedScenario, TypedReturn, TypedActivities
<1>2. t = [s EXCEPT !.rentals = rentals, !.businesses = businesses]
  BY DEF WithDepreciation
<1>3. /\ t.rentals = rentals /\ t.businesses = businesses
      /\ DOMAIN t = DOMAIN s
      /\ t.year = s.year /\ t.config = s.config
      /\ t.w2s = s.w2s /\ t.interest = s.interest /\ t.dividends = s.dividends
      /\ t.g = s.g /\ t.lots = s.lots /\ t.k1s = s.k1s
      /\ t.qualified = s.qualified /\ t.distributions = s.distributions
      /\ t.exempt = s.exempt /\ t.estimated = s.estimated /\ t.charitable = s.charitable
      /\ t.health = s.health /\ t.prior = s.prior /\ t.itemized = s.itemized
      /\ t.form1098 = s.form1098 /\ t.block = s.block /\ t.corp = s.corp
      /\ t.ca = s.ca /\ t.case = s.case
  BY <1>1, <1>2 DEF ReturnFields
<1> HIDE DEF t, mq
<1>4. ListOf(rentals, TypedRental) /\ ListOf(rentals, TypedActivity)
  <2> DEFINE n == Len(s.rentals)
  <2>1. /\ n \in Nat /\ DOMAIN s.rentals = 1 .. n
        /\ \A i \in 1 .. n : TypedRental(s.rentals[i]) /\ TypedActivity(s.rentals[i])
    BY <1>1 DEF ListOf, IsList
  <2>2. \A i \in 1 .. n : Resolved(s.rentals[i], s.year, mq) \in Int
    BY <1>1, <2>1, ResolvedType DEF DepreciableReturn
  <2>3. \A i \in 1 .. n : TypedRental(used(s.rentals[i])) /\ TypedActivity(used(s.rentals[i]))
    BY <2>1, <2>2, UsedType
  <2> HIDE DEF used, n
  <2>4. rentals \in [1 .. n -> {used(s.rentals[i]) : i \in 1 .. n}]
    BY <2>1
  <2>5. IsList(rentals) /\ Len(rentals) = n
    BY <2>1, <2>4, MapIsList
  <2>6. QED
    BY <2>1, <2>3, <2>5 DEF ListOf
<1>5. ListOf(businesses, TypedBusiness) /\ ListOf(businesses, TypedActivity)
  <2> DEFINE n == Len(s.businesses)
  <2>1. /\ n \in Nat /\ DOMAIN s.businesses = 1 .. n
        /\ \A i \in 1 .. n : TypedBusiness(s.businesses[i]) /\ TypedActivity(s.businesses[i])
    BY <1>1 DEF ListOf, IsList
  <2>2. \A i \in 1 .. n : Resolved(s.businesses[i], s.year, mq) \in Int
    BY <1>1, <2>1, ResolvedType DEF DepreciableReturn
  <2>3. \A i \in 1 .. n :
          TypedBusiness(used(s.businesses[i])) /\ TypedActivity(used(s.businesses[i]))
    BY <2>1, <2>2, UsedType
  <2> HIDE DEF used, n
  <2>4. businesses \in [1 .. n -> {used(s.businesses[i]) : i \in 1 .. n}]
    BY <2>1
  <2>5. IsList(businesses) /\ Len(businesses) = n
    BY <2>1, <2>4, MapIsList
  <2>6. QED
    BY <2>1, <2>3, <2>5 DEF ListOf
<1> HIDE DEF rentals, businesses
<1>6. TypedForms(t) /\ TypedActivities(t)
  <2>1. TypedForms(s)
    BY DEF TypedScenario, TypedReturn
  <2>2. QED
    BY <1>3, <1>4, <1>5, <2>1 DEF TypedForms, TypedActivities
<1>7. TypedScenario(t)
  BY <1>3, <1>6 DEF TypedScenario, TypedReturn
<1>8. QED
  BY <1>7 DEF t

----------------------------------------------------------------------------
(* Form 4562.                                                              *)

\* What the rows of a Form 4562 add up to.
RowTotal(rows) == SumOver(DOMAIN rows, LAMBDA c : rows[c].deduction)

\* The part of a sum that is of one class, the entries being classified.
ClassPart(a, n, class, c) == SumPart(a, n, {i \in 1 .. n : class[i] = c})

SumAt(S, g) == SumOver(S, LAMBDA i : g[i])

\* Each entry is of a member, or nothing; and each member has its part.
SharedAmong(D, g, n, a, class) ==
  /\ \A i \in 1 .. n : class[i] \in D \/ a[i] = 0
  /\ \A c \in D : g[c] = ClassPart(a, n, class, c)

\* Entries that a classification shares out among the members of a set are
\* what the members' shares add up to.
LEMMA SharesSumUp ==
  ASSUME NEW n \in Nat, NEW a \in [1 .. n -> Int], NEW class,
         NEW D, IsFiniteSet(D), NEW g, SharedAmong(D, g, n, a, class)
  PROVE  SumAt(D, g) = SumSeq(a)
<1> DEFINE of(T) == [i \in 1 .. n |-> IF i \in {j \in 1 .. n : class[j] \in T} THEN a[i] ELSE 0]
           part == [T \in SUBSET D |-> SumSeq(of(T))]
           Rule(f) == [T \in SUBSET D |->
                         IF T = {} THEN 0
                         ELSE LET x == CHOOSE x \in T : TRUE
                              IN  g[x] + f[T \ {x}]]
           r == CHOOSE f : f = Rule(f)
<1>0. /\ \A i \in 1 .. n : class[i] \in D \/ a[i] = 0
      /\ \A c \in D : g[c] = ClassPart(a, n, class, c)
  BY DEF SharedAmong
<1>1. SumAt(D, g) = r[D]
  BY DEF SumAt, SumOver, MapThenSumSet, MapThenFoldSet
<1>2. \A T : of(T) \in [1 .. n -> Int]
  OBVIOUS
<1>3. ASSUME NEW T \in SUBSET D, NEW x \in T
      PROVE  part[T] = g[x] + part[T \ {x}]
  <2> DEFINE b == [i \in 1 .. n |-> IF i \in {j \in 1 .. n : class[j] = x} THEN a[i] ELSE 0]
             rest == T \ {x}
  <2>1. b \in [1 .. n -> Int] /\ \A i \in 1 .. n : of(T)[i] = b[i] + of(rest)[i]
    OBVIOUS
  <2>2. g[x] = SumSeq(b)
    BY <1>0 DEF ClassPart, SumPart
  <2> HIDE DEF b, of
  <2>3. SumSeq(of(T)) = SumSeq(b) + SumSeq(of(rest))
    <3>1. \A u, v, w \in [1 .. n -> Int] :
            (\A i \in 1 .. n : w[i] = u[i] + v[i]) => SumSeq(w) = SumSeq(u) + SumSeq(v)
      BY SumAdds
    <3>2. QED
      BY <1>2, <2>1, <3>1
  <2>4. part[T] = SumSeq(of(T)) /\ part[rest] = SumSeq(of(rest))
    OBVIOUS
  <2>5. QED
    BY <2>2, <2>3, <2>4
<1>4. part[{}] = 0
  <2>1. of({}) = [i \in 1 .. n |-> 0]
    OBVIOUS
  <2>2. SumSeq([i \in 1 .. n |-> 0]) = n * 0
    <3> DEFINE z == [i \in 1 .. n |-> 0]
               e == 0
    <3>1. z \in [1 .. n -> Int] /\ e \in Int /\ \A i \in 1 .. n : z[i] = e
      OBVIOUS
    <3> HIDE DEF z, e
    <3>2. SumSeq(z) = n * e
      BY <3>1, SumOfSame
    <3>3. QED
      BY <3>2 DEF z, e
  <2> HIDE DEF of
  <2>3. QED
    BY <2>1, <2>2
<1> HIDE DEF of
<1>5. part = Rule(part)
  <2>1. \A T \in SUBSET D : T # {} => (CHOOSE x \in T : TRUE) \in T
    OBVIOUS
  <2>2. ASSUME NEW T \in SUBSET D
        PROVE  part[T] = IF T = {} THEN 0
                         ELSE LET x == CHOOSE x \in T : TRUE
                              IN  g[x] + part[T \ {x}]
    BY <1>3, <1>4, <2>1
  <2>3. \A T \in SUBSET D : part[T] = Rule(part)[T]
    BY <2>2
  <2>4. QED
    BY <2>3
<1>6. r = Rule(r)
  <2> HIDE DEF Rule, part
  <2>1. QED
    BY <1>5
<1> HIDE DEF r, part
<1>7. \A T \in SUBSET D : r[T] = part[T]
  <2> DEFINE Wrong == {T \in SUBSET D : r[T] # part[T]}
  <2>1. SUFFICES ASSUME Wrong # {} PROVE FALSE
    OBVIOUS
  <2>2. Wrong \subseteq FiniteSubsetsOf(D)
    BY FS_Subset DEF FiniteSubsetsOf
  <2>3. IsWellFoundedOn(StrictSubsetOrdering(D), FiniteSubsetsOf(D))
    BY FS_StrictSubsetOrderingWellFounded
  <2>4. PICK T \in Wrong : \A U \in Wrong : ~(<<U, T>> \in StrictSubsetOrdering(D))
    <3> HIDE DEF Wrong
    <3>1. QED
      BY <2>1, <2>2, <2>3, WFMin
  <2>5. T \in SUBSET D /\ r[T] # part[T]
    OBVIOUS
  <2>6. T # {}
    BY <1>4, <1>6, <2>5
  <2> DEFINE x == CHOOSE y \in T : TRUE
  <2>7. x \in T /\ r[T] = g[x] + r[T \ {x}]
    BY <1>6, <2>5, <2>6
  <2> HIDE DEF x
  <2>8. T \ {x} \in SUBSET D /\ <<T \ {x}, T>> \in StrictSubsetOrdering(D)
    BY <2>5, <2>7 DEF StrictSubsetOrdering
  <2>9. r[T \ {x}] = part[T \ {x}]
    BY <2>4, <2>8
  <2>10. QED
    BY <1>3, <2>5, <2>7, <2>9
<1>8. part[D] = SumSeq(a)
  <2>1. \A i \in 1 .. n : of(D)[i] = a[i]
    BY <1>0 DEF of
  <2>2. of(D) = a
    BY <1>2, <2>1
  <2>3. QED
    BY <2>2 DEF part
<1>9. QED
  BY <1>1, <1>7, <1>8

RowsOfClasses(rows, n, a, class) ==
  /\ \A c : c \in DOMAIN rows <=> \E i \in 1 .. n : class[i] = c
  /\ \A c \in DOMAIN rows : rows[c].deduction = ClassPart(a, n, class, c)

\* One row for each class: the rows share out what is placed, and add up to
\* it (f4562.py adds its rows up in the order of a dictionary).
LEMMA ClassesAddUp ==
  ASSUME NEW n \in Nat, NEW a \in [1 .. n -> Int], NEW class,
         NEW rows, RowsOfClasses(rows, n, a, class)
  PROVE  RowTotal(rows) = SumSeq(a)
<1> DEFINE D == DOMAIN rows
           g == [c \in D |-> rows[c].deduction]
           one(c) == rows[c].deduction
           R1(f) == [T \in SUBSET D |->
                       IF T = {} THEN 0
                       ELSE LET x == CHOOSE x \in T : TRUE IN one(x) + f[T \ {x}]]
           R2(f) == [T \in SUBSET D |->
                       IF T = {} THEN 0
                       ELSE LET x == CHOOSE x \in T : TRUE IN g[x] + f[T \ {x}]]
           r1 == CHOOSE f : f = R1(f)
           r2 == CHOOSE f : f = R2(f)
<1>1. /\ \A c : c \in D <=> \E i \in 1 .. n : class[i] = c
      /\ \A c \in D : one(c) = ClassPart(a, n, class, c)
  BY DEF RowsOfClasses
<1>2. RowTotal(rows) = r1[D]
  BY DEF RowTotal, SumOver, MapThenSumSet, MapThenFoldSet
<1>3. SumAt(D, g) = r2[D]
  BY DEF SumAt, SumOver, MapThenSumSet, MapThenFoldSet
<1>4. \A c \in D : one(c) = g[c]
  OBVIOUS
<1>5. IsFiniteSet(D)
  <2>1. IsFiniteSet(1 .. n)
    BY FS_Interval
  <2> DEFINE h == [i \in 1 .. n |-> class[i]]
  <2>2. h \in Surjection(1 .. n, D)
    BY <1>1 DEF Surjection
  <2>3. QED
    BY <2>1, <2>2, FS_Surjection
<1> HIDE DEF one, g, D
<1>6. SharedAmong(D, g, n, a, class)
  BY <1>1, <1>4 DEF SharedAmong
<1>7. SumAt(D, g) = SumSeq(a)
  BY <1>5, <1>6, SharesSumUp
<1>8. ASSUME NEW f PROVE R1(f) = R2(f)
  <2>1. \A T \in SUBSET D : T # {} => (CHOOSE x \in T : TRUE) \in D
    OBVIOUS
  <2>2. QED
    BY <1>4, <2>1
<1> HIDE DEF R1, R2
<1>9. r1 = r2
  BY <1>8, Zenon
<1>10. QED
  BY <1>2, <1>3, <1>7, <1>9

\* Line 22 of a Form 4562 is what the engine depreciates: its rows and line 17
\* share out the assets of the activity (f4562.py, engine_amount).
LEMMA Line22IsEngine ==
  ASSUME NEW act, TypedActivity(act), NEW year \in Int, NEW midQuarter,
         Depreciable(act, year)
  PROVE  F4562(act, year, midQuarter).line22 = EngineAmount(act, year, midQuarter)
<1> DEFINE x == act.assets
           n == Len(x)
           V == {x[i] : i \in 1 .. n}
           f == [v \in V |-> AssetDeduction(v, year, midQuarter)]
           a == [i \in 1 .. n |-> f[x[i]]]
           P == {i \in DOMAIN x : x[i].placed = year}
           Q == {i \in DOMAIN x : x[i].placed # year}
           now == PlacedNow(act, year)
           m == Len(now)
           b == [i \in 1 .. m |-> f[now[i]]]
           class == [i \in 1 .. m |-> now[i].class]
           rows == RowsOf(act, year, midQuarter)
           earlier == Where(act.assets, LAMBDA q : q.placed # year)
           line17 == SumOf(earlier, LAMBDA q : AssetDeduction(q, year, midQuarter))
<1>1. /\ n \in Nat /\ DOMAIN x = 1 .. n /\ x \in Seq(V)
      /\ \A i \in 1 .. n : TypedAsset(x[i])
  <2>1. n \in Nat /\ DOMAIN x = 1 .. n /\ x = [i \in 1 .. n |-> x[i]] /\ \A i \in 1 .. n : TypedAsset(x[i])
    BY DEF TypedActivity, ListOf, IsList
  <2>2. [i \in 1 .. n |-> x[i]] \in Seq(V)
    <3> HIDE DEF x, n
    <3>1. QED
      BY <2>1
  <2>3. QED
    BY <2>1, <2>2
<1>2. f \in [V -> Int]
  <2>1. \A i \in 1 .. n : AssetDeduction(x[i], year, midQuarter) \in Int
    BY <1>1, AssetDeductionType DEF Depreciable
  <2>2. QED
    BY <2>1
<1>3. ASSUME NEW y \in Seq(V)
      PROVE  SumOf(y, LAMBDA q : AssetDeduction(q, year, midQuarter)) = SumBy(f, y)
  <2>1. \A i \in DOMAIN y : y[i] \in V
    OBVIOUS
  <2> HIDE DEF V
  <2>2. \A i \in DOMAIN y : f[y[i]] = AssetDeduction(y[i], year, midQuarter)
    BY <2>1
  <2>3. [i \in DOMAIN y |-> AssetDeduction(y[i], year, midQuarter)] = [i \in DOMAIN y |-> f[y[i]]]
    BY <2>2
  <2>4. QED
    BY <2>3 DEF SumOf, SumBy
<1>4. now = Selection(x, P) /\ earlier = Selection(x, Q)
  BY DEF PlacedNow, Where
<1>5. EngineAmount(act, year, midQuarter) = SumBy(f, x)
  BY <1>1, <1>3 DEF EngineAmount
<1> HIDE DEF V, f, now, earlier, x
<1>6. /\ now \in Seq(V) /\ SumBy(f, now) = SumPart(a, n, P)
      /\ earlier \in Seq(V) /\ SumBy(f, earlier) = SumPart(a, n, Q)
  <2>1. P \subseteq 1 .. Len(x) /\ Q \subseteq 1 .. Len(x)
    BY <1>1
  <2> HIDE DEF P, Q
  <2>2. QED
    BY <1>1, <1>2, <1>4, <2>1, SelectedSums
<1>7. SumSeq(a) = SumPart(a, n, P) + SumPart(a, n, Q) /\ SumSeq(a) = SumBy(f, x)
  <2>1. a \in [1 .. n -> Int]
    BY <1>1, <1>2
  <2>2. P \cup Q = 1 .. n /\ P \cap Q = {}
    BY <1>1
  <2>3. SumSeq(a) = SumBy(f, x)
    BY <1>1 DEF SumBy
  <2> HIDE DEF a, n, P, Q
  <2>4. QED
    BY <1>1, <2>1, <2>2, <2>3, SumSplits
<1>8. /\ m \in Nat /\ DOMAIN now = 1 .. m /\ b \in [1 .. m -> Int]
      /\ SumSeq(b) = SumBy(f, now)
  <2>1. m \in Nat /\ DOMAIN now = 1 .. m /\ \A i \in 1 .. m : now[i] \in V
    BY <1>6
  <2>2. b \in [1 .. m -> Int]
    BY <1>2, <2>1
  <2>3. QED
    BY <2>1, <2>2 DEF SumBy
<1>9. \A c : c \in DOMAIN rows <=> \E i \in 1 .. m : class[i] = c
  <2>1. DOMAIN rows = {now[i].class : i \in DOMAIN now}
    BY DEF RowsOf, now
  <2>2. QED
    BY <1>8, <2>1
<1>10. ASSUME NEW c \in DOMAIN rows
       PROVE  rows[c].deduction = ClassPart(b, m, class, c)
  <2> DEFINE U == {i \in DOMAIN now : now[i].class = c}
             y == Selection(now, U)
  <2>1. rows[c].deduction = SumOf(y, LAMBDA q : AssetDeduction(q, year, midQuarter))
    <3>1. c \in {now[i].class : i \in DOMAIN now}
      BY <1>8, <1>9
    <3>2. QED
      BY <3>1 DEF RowsOf, now, Where
  <2>2. U \subseteq 1 .. Len(now) /\ U = {i \in 1 .. m : class[i] = c}
    BY <1>8
  <2>3. y \in Seq(V) /\ SumBy(f, y) = SumPart(b, m, U)
    <3>1. U \subseteq 1 .. Len(now) /\ now \in Seq(V)
      BY <1>6, <2>2
    <3> HIDE DEF U, class, rows
    <3>2. /\ Selection(now, U) \in Seq(V)
          /\ SumBy(f, Selection(now, U))
               = SumPart([i \in 1 .. Len(now) |-> f[now[i]]], Len(now), U)
      BY <1>2, <3>1, SelectedSums
    <3>3. QED
      BY <3>2
  <2>4. SumOf(y, LAMBDA q : AssetDeduction(q, year, midQuarter)) = SumBy(f, y)
    <3> HIDE DEF y
    <3>1. QED
      BY <1>3, <2>3
  <2>5. QED
    BY <2>1, <2>2, <2>3, <2>4 DEF ClassPart
<1>11. RowTotal(rows) = SumSeq(b)
  <2>1. \A c \in DOMAIN rows :
          rows[c].deduction = ClassPart(b, m, class, c)
    BY <1>10
  <2> HIDE DEF rows, m, b, class
  <2>2. m \in Nat /\ b \in [1 .. m -> Int]
    BY <1>8
  <2>3. RowsOfClasses(rows, m, b, class)
    BY <1>9, <2>1 DEF RowsOfClasses
  <2>4. QED
    BY <2>2, <2>3, ClassesAddUp
<1>12. line17 = SumBy(f, earlier)
  BY <1>3, <1>6
<1>13. F4562(act, year, midQuarter).line22
         = line17 + RowTotal(rows)
  BY DEF F4562, RowTotal, earlier
<1>14. SumPart(a, n, P) \in Int /\ SumPart(a, n, Q) \in Int
  <2>1. a \in [1 .. n -> Int]
    BY <1>1, <1>2
  <2>2. \A S : [i \in 1 .. n |-> IF i \in S THEN a[i] ELSE 0] \in [1 .. n -> Int]
    BY <2>1
  <2> HIDE DEF a, n
  <2>3. QED
    BY <1>1, <2>2, SumType DEF SumPart
<1> HIDE DEF rows, a, b, P, Q, n, m, line17
<1>15. QED
  BY <1>5, <1>6, <1>7, <1>8, <1>11, <1>12, <1>13, <1>14

\* A selection from a list keeps something if there is something to keep.
LEMMA SelectedSome ==
  ASSUME NEW x, IsList(x), NEW S, NEW k \in 1 .. Len(x), k \in S
  PROVE  IsList(Selection(x, S)) /\ 1 \in 1 .. Len(Selection(x, S))
<1> DEFINE kept == Kept(Len(x), S)
           y == Selection(x, S)
<1>1. Len(x) \in Nat /\ IsList(y)
  BY SelectedList DEF IsList
<1>2. kept # <<>> /\ kept \in Seq(S \cap (1 .. Len(x)))
  BY <1>1, KeptSome, KeptAre
<1>3. y = [i \in DOMAIN kept |-> x[kept[i]]]
  BY DEF Selection
<1> HIDE DEF kept, y
<1>4. 1 \in DOMAIN kept
  BY <1>2
<1>5. DOMAIN y = 1 .. Len(y)
  BY <1>1 DEF IsList
<1>6. 1 \in 1 .. Len(y)
  BY <1>3, <1>4, <1>5
<1>7. QED
  BY <1>1, <1>6 DEF y

\* The personal property placed in the year takes the convention of the
\* answer, in every row (f4562.py, asset_convention).
LEMMA RowConventions ==
  ASSUME NEW act, TypedActivity(act), NEW year \in Int, NEW midQuarter,
         NEW c \in DOMAIN RowsOf(act, year, midQuarter), c \notin RealClasses
  PROVE  RowsOf(act, year, midQuarter)[c].conventions
           = {IF midQuarter THEN "mid-quarter" ELSE "half-year"}
<1> DEFINE x == act.assets
           now == PlacedNow(act, year)
           P == {i \in DOMAIN x : x[i].placed = year}
           Q == {i \in DOMAIN now : now[i].class = c}
           y == Selection(now, Q)
           name == IF midQuarter THEN "mid-quarter" ELSE "half-year"
<1>1. IsList(x) /\ now = Selection(x, P)
  BY DEF TypedActivity, ListOf, PlacedNow, Where
<1>2. c \in {now[i].class : i \in DOMAIN now}
  BY DEF RowsOf, now
<1>3. RowsOf(act, year, midQuarter)[c].conventions
        = {ConventionOf(y[i], year, midQuarter)[1] : i \in DOMAIN y}
  BY <1>2 DEF RowsOf, now, Where
<1> HIDE DEF now
<1>4. /\ IsList(now)
      /\ \A i \in 1 .. Len(now) : \E j \in 1 .. Len(x) : j \in P /\ now[i] = x[j]
  <2> HIDE DEF P, x
  <2>1. QED
    BY <1>1, SelectedList
<1>5. DOMAIN now = 1 .. Len(now) /\ \A i \in 1 .. Len(now) : now[i].placed = year
  BY <1>4 DEF IsList
<1>6. PICK k \in 1 .. Len(now) : k \in Q
  BY <1>2, <1>5
<1>7. /\ IsList(y) /\ 1 \in 1 .. Len(y)
      /\ \A i \in 1 .. Len(y) : \E j \in 1 .. Len(now) : j \in Q /\ y[i] = now[j]
  <2> HIDE DEF Q
  <2>1. QED
    BY <1>4, <1>6, SelectedSome, SelectedList
<1> HIDE DEF y
<1>8. DOMAIN y = 1 .. Len(y)
  BY <1>7 DEF IsList
<1>9. ASSUME NEW i \in DOMAIN y
      PROVE  ConventionOf(y[i], year, midQuarter)[1] = name
  <2>1. y[i].class = c /\ y[i].placed = year
    BY <1>5, <1>7, <1>8
  <2>2. ~(y[i].placed < year)
    BY <2>1
  <2>3. ConventionOf(y[i], year, midQuarter)
          = IF midQuarter THEN <<"mid-quarter", Quarter(y[i].month)>> ELSE <<"half-year", 0>>
    BY <2>1, <2>2 DEF ConventionOf
  <2>4. QED
    BY <2>3
<1>10. {ConventionOf(y[i], year, midQuarter)[1] : i \in DOMAIN y} = {name}
  <2> HIDE DEF name
  <2>1. QED
    BY <1>7, <1>8, <1>9
<1>11. QED
  BY <1>3, <1>10

----------------------------------------------------------------------------
(* The cells of the audit workbook.                                        *)

\* What is left of the basis limits a year alike, whether it is told in whole
\* dollars or to the cent of the amounts taken, these being whole dollars.
LEMMA CutToDollars ==
  ASSUME NEW table \in Nat, NEW basis \in Nat, NEW taken \in Int
  PROVE  Positive(Smaller(table, Rounded(basis - 100 * taken))) = CappedAt(table, basis, taken)
<1> DEFINE left == basis - 100 * taken
           r == Rounded(left)
           q == Rounded(basis)
<1>1. q \in Int /\ q = (basis + 50) \div 100
  BY RoundedIsNearest DEF Rounded
<1>2. r \in Int /\ left \in Int
  BY RoundedIsNearest
<1>3. CASE left >= 0
  <2>1. r = (left + 50) \div 100
    BY <1>3 DEF Rounded
  <2>2. r = q - taken
    BY <1>1, <2>1
  <2> HIDE DEF r, q
  <2>3. QED
    BY <1>1, <2>2 DEF CappedAt, Positive, Larger, Smaller, r, q
<1>4. CASE left < 0
  <2>1. r <= 0
    BY <1>4 DEF Rounded
  <2>2. q - taken <= 0
    BY <1>1, <1>4
  <2> HIDE DEF r, q
  <2>3. QED
    BY <1>1, <1>2, <2>1, <2>2 DEF CappedAt, Positive, Larger, Smaller, r, q
<1>5. QED
  BY <1>2, <1>3, <1>4

\* So it does with the cents of a prior amount, unless the basis left is what
\* limits the year.
LEMMA CutToCents ==
  ASSUME NEW table \in Nat, NEW basis \in Nat, NEW prior \in Nat,
         prior % 100 # 0 => ~(Rounded(basis) - Rounded(prior) <= table)
  PROVE  Positive(Smaller(table, Rounded(basis - prior)))
           = CappedAt(table, basis, Rounded(prior))
<1> DEFINE p == Rounded(prior)
           q == Rounded(basis)
           r == Rounded(basis - prior)
<1>1. /\ p \in Int /\ 100 * p - prior \in -50 .. 50
      /\ q \in Int /\ 100 * q - basis \in -50 .. 50
      /\ r \in Int /\ 100 * r - (basis - prior) \in -50 .. 50
  <2>1. basis - prior \in Int
    OBVIOUS
  <2>2. QED
    BY <2>1, RoundedIsNearest
<1>2. CASE prior % 100 = 0
  <2>1. prior = 100 * p
    <3>1. PICK k \in Int : prior = 100 * k
      BY <1>2
    <3>2. p = k
      BY <3>1, RoundedDollars
    <3>3. QED
      BY <3>1, <3>2
  <2> HIDE DEF p
  <2>2. Positive(Smaller(table, Rounded(basis - 100 * p))) = CappedAt(table, basis, p)
    BY <1>1, CutToDollars
  <2>3. QED
    BY <2>1, <2>2 DEF p
<1>3. CASE prior % 100 # 0
  <2>1. ~(q - p <= table)
    BY <1>3
  <2> HIDE DEF p, q, r
  <2>2. r >= table
    BY <1>1, <2>1
  <2>3. QED
    BY <1>1, <2>1, <2>2 DEF CappedAt, Positive, Larger, Smaller, p, q, r
<1>4. QED
  BY <1>2, <1>3

\* No year of a table takes less than nothing.
LEMMA TableNatural ==
  ASSUME NEW a, TypedAsset(a), a.class \in Classes, a.basis >= 0,
         NEW convention \in Conventions(a.class), NEW n
  PROVE  TableAmount(a, convention, n) \in Nat
<1>1. CASE n \in DOMAIN Rates[a.class][convention]
  <2>1. a.basis \in Nat /\ Rates[a.class][convention][n] \in Nat
    BY <1>1, RatesAssumption DEF TypedAsset
  <2>2. \A x, y \in Nat : x * y \in Nat
    OBVIOUS
  <2>3. a.basis * Rates[a.class][convention][n] \in Nat
    BY <2>1, <2>2
  <2>4. \A x \in Nat : (x + 5000000) \div 10000000 \in Nat
    BY SMT
  <2>5. QED
    BY <1>1, <2>3, <2>4 DEF TableAmount
<1>2. QED
  BY <1>1 DEF TableAmount

\* The recurrence has one course, however far it is followed.
LEMMA OneCourse ==
  ASSUME NEW a, NEW convention, NEW m \in Nat, NEW n \in Nat, NEW r, NEW q,
         TakenAlong(r, a, convention, m), TakenAlong(q, a, convention, n), m <= n
  PROVE  \A k \in 0 .. m : r[k] = q[k]
<1> DEFINE S == {k \in 0 .. m : r[k] = q[k]}
           step(k, v) == v + CappedAt(TableAmount(a, convention, k), a.basis, v)
<1>1. /\ r[0] = 0 /\ \A k \in 0 .. m - 1 : r[k + 1] = step(k + 1, r[k])
      /\ q[0] = 0 /\ \A k \in 0 .. n - 1 : q[k + 1] = step(k + 1, q[k])
  BY DEF TakenAlong
<1> HIDE DEF step
<1>2. 0 \in S
  BY <1>1
<1>3. ASSUME NEW k \in 0 .. m - 1, k \in S PROVE k + 1 \in S
  <2>1. k \in 0 .. n - 1 /\ k + 1 \in 0 .. m /\ r[k] = q[k]
    BY <1>3
  <2>2. QED
    BY <1>1, <2>1
<1>4. \A k \in S : r[k] = q[k]
  OBVIOUS
<1> HIDE DEF S
<1>5. \A k \in 0 .. m : k \in S
  BY <1>2, <1>3, ByPrefix
<1>6. QED
  BY <1>4, <1>5

\* The sheet that follows an asset year by year takes what the tables take.
LEMMA YearCellIs ==
  ASSUME NEW a, TypedAsset(a), a.class \in Classes, a.basis >= 0,
         NEW convention \in Conventions(a.class), NEW n \in Nat
  PROVE  YearCell(a, convention, n) = TakenThrough(a, convention, n)
<1> DEFINE table(k) == TableAmount(a, convention, k)
           cell(k, v) == v + Positive(Smaller(table(k), Rounded(a.basis - 100 * v)))
           step(k, v) == v + CappedAt(table(k), a.basis, v)
           to(k) == TakenTo(a, convention, k)
           H(g) == [k \in Nat |-> IF k = 0 THEN 0 ELSE cell(k, g[k - 1])]
           G == [k \in Nat |-> to(k)[k]]
           c == CHOOSE g : g = H(g)
<1>1. \A k : table(k) \in Nat
  BY TableNatural
<1>2. \A k : \A v \in Int : cell(k, v) = step(k, v)
  <2>1. a.basis \in Nat
    BY DEF TypedAsset
  <2> HIDE DEF table
  <2>2. QED
    BY <1>1, <2>1, CutToDollars
<1> HIDE DEF table
<1>3. \A k \in Nat : TakenAlong(to(k), a, convention, k)
  BY TakenIsAlong
<1>4. \A k \in Nat : /\ to(k) \in [0 .. k -> Int] /\ to(k)[0] = 0
                     /\ \A j \in 0 .. k - 1 : to(k)[j + 1] = step(j + 1, to(k)[j])
  BY <1>3 DEF TakenAlong, table
<1>5. \A j, k \in Nat : j <= k => to(j)[j] = to(k)[j]
  <2> SUFFICES ASSUME NEW j \in Nat, NEW k \in Nat, j <= k PROVE to(j)[j] = to(k)[j]
    OBVIOUS
  <2>1. \A i \in 0 .. j : to(j)[i] = to(k)[i]
    <3> HIDE DEF to
    <3>1. TakenAlong(to(j), a, convention, j) /\ TakenAlong(to(k), a, convention, k)
      BY <1>3
    <3>2. QED
      BY <3>1, OneCourse
  <2>2. QED
    BY <2>1
<1> HIDE DEF to
<1>6. \A k \in Nat : G[k] \in Int
  BY <1>4
<1>7. G[0] = 0 /\ \A k \in Nat \ {0} : G[k] = cell(k, G[k - 1])
  <2>1. G[0] = 0
    BY <1>4
  <2>2. ASSUME NEW k \in Nat \ {0} PROVE G[k] = cell(k, G[k - 1])
    <3>1. k - 1 \in Nat /\ k - 1 \in 0 .. k - 1 /\ (k - 1) + 1 = k /\ k - 1 <= k
      OBVIOUS
    <3>2. to(k)[k] = step(k, to(k)[k - 1]) /\ to(k - 1)[k - 1] = to(k)[k - 1]
      <4> HIDE DEF step
      <4>1. QED
        BY <1>4, <1>5, <3>1
    <3>3. G[k] = step(k, G[k - 1])
      <4> HIDE DEF step
      <4>1. QED
        BY <3>1, <3>2
    <3> HIDE DEF cell, step, G
    <3>4. QED
      BY <1>2, <1>6, <3>1, <3>3
  <2>3. QED
    BY <2>1, <2>2
<1>8. G = H(G)
  <2> HIDE DEF cell
  <2>1. \A k \in Nat : G[k] = IF k = 0 THEN 0 ELSE cell(k, G[k - 1])
    BY <1>7
  <2>2. QED
    BY <2>1
<1>9. c = H(c)
  <2> HIDE DEF H, G
  <2>1. QED
    BY <1>8
<1> DEFINE S == {k \in 0 .. n : c[k] = to(n)[k]}
<1>10. c[0] = 0 /\ \A k \in Nat \ {0} : c[k] = cell(k, c[k - 1])
  <2> HIDE DEF c, cell
  <2>1. QED
    BY <1>9
<1>11. YearCell(a, convention, n) = c[n]
  BY DEF YearCell, table
<1> HIDE DEF c
<1>12. 0 \in S
  BY <1>4, <1>10
<1>13. ASSUME NEW k \in 0 .. n - 1, k \in S PROVE k + 1 \in S
  <2>1. /\ k + 1 \in Nat \ {0} /\ (k + 1) - 1 = k /\ k + 1 \in 0 .. n
        /\ c[k] = to(n)[k] /\ to(n)[k] \in Int
    BY <1>4, <1>13
  <2> HIDE DEF cell, step
  <2>2. to(n)[k + 1] = step(k + 1, to(n)[k])
    BY <1>4
  <2>3. c[k + 1] = cell(k + 1, c[k])
    BY <1>10, <2>1
  <2>4. QED
    BY <1>2, <2>1, <2>2, <2>3
<1>14. \A k \in S : c[k] = to(n)[k]
  OBVIOUS
<1> HIDE DEF S
<1>15. n \in S
  BY <1>12, <1>13, ByPrefix
<1>16. TakenThrough(a, convention, n) = to(n)[n]
  BY DEF TakenThrough, TakenTo, to
<1>17. QED
  BY <1>11, <1>14, <1>15, <1>16

\* An asset that passed the load-stage entries.
AcceptedAsset(a, year, midQuarter) ==
  /\ TypedAsset(a) /\ Computable(a, year) /\ a.placed <= year
  /\ ~NegativeAsset(a) /\ ~PriorMissing(a, year) /\ ~PriorMismatch(a, year, midQuarter)

\* One whose prior amount has cents, in a year that the basis left limits.
CeilingOnCents(a, year, midQuarter) ==
  /\ a.prior # None /\ a.prior % 100 # 0
  /\ Rounded(a.basis) - Rounded(a.prior)
       <= TableAmount(a, ConventionOf(a, year, midQuarter), year - a.placed + 1)

\* Every other asset has the engine's figures in the cells of the workbook
\* (_asset_audit, unbuildable_reasons).
LEMMA CellsMirror ==
  ASSUME NEW a, NEW year \in Int, NEW midQuarter,
         AcceptedAsset(a, year, midQuarter), ~CeilingOnCents(a, year, midQuarter)
  PROVE  AssetMirrors(a, year, midQuarter)
<1> DEFINE convention == ConventionOf(a, year, midQuarter)
           n == year - a.placed
           table == TableAmount(a, convention, n + 1)
           taken == TakenSoFar(a, year, midQuarter)
           told == IF a.prior = None THEN 0 ELSE a.prior
<1>1. /\ TypedAsset(a) /\ a.class \in Classes /\ a.basis \in Nat /\ n \in Nat
      /\ convention \in Conventions(a.class) /\ Computable(a, year)
      /\ a.placed \in Int /\ a.ackPrior \in BOOLEAN
  BY ConventionIsAColumn DEF AcceptedAsset, TypedAsset, Computable, NegativeAsset
<1>2. a.prior = None \/ a.prior \in Nat
  BY DEF AcceptedAsset, TypedAsset, Optional, NegativeAsset
<1>3. table \in Nat
  BY <1>1, TableNatural
<1>4. taken = IF a.prior = None THEN 0 ELSE Rounded(a.prior)
  <2>1. CASE a.prior = None
    <3>1. ~(a.placed < year)
      BY <2>1 DEF AcceptedAsset, PriorMissing
    <3>2. TakenBefore(a, year, midQuarter) = 0
      BY <1>1, <3>1 DEF TakenBefore
    <3>3. QED
      BY <2>1, <3>2 DEF TakenSoFar
  <2>2. CASE a.prior # None
    <3>1. a.ackPrior \/ Rounded(a.prior) = TakenBefore(a, year, midQuarter)
      BY <1>1, <2>2 DEF AcceptedAsset, PriorMismatch
    <3>2. QED
      BY <2>2, <3>1 DEF TakenSoFar
  <2>3. QED
    BY <2>1, <2>2
<1>5. Positive(Smaller(table, Rounded(a.basis - told))) = CappedAt(table, a.basis, taken)
  <2> HIDE DEF table, taken
  <2>1. CASE a.prior = None
    <3>1. taken \in Int /\ a.basis - told = a.basis - 100 * taken
      BY <1>1, <1>4, <2>1
    <3>2. Positive(Smaller(table, Rounded(a.basis - 100 * taken))) = CappedAt(table, a.basis, taken)
      BY <1>1, <1>3, <3>1, CutToDollars
    <3>3. QED
      BY <3>1, <3>2
  <2>2. CASE a.prior # None
    <3>1. a.prior \in Nat /\ told = a.prior /\ taken = Rounded(a.prior)
      BY <1>2, <1>4, <2>2
    <3>2. a.prior % 100 # 0 => ~(Rounded(a.basis) - Rounded(a.prior) <= table)
      BY <2>2 DEF CeilingOnCents, table
    <3>3. Positive(Smaller(table, Rounded(a.basis - a.prior)))
            = CappedAt(table, a.basis, Rounded(a.prior))
      BY <1>1, <1>3, <3>1, <3>2, CutToCents
    <3>4. QED
      BY <3>1, <3>3
  <2>3. QED
    BY <2>1, <2>2
<1>6. AssetCell(a, year, midQuarter) = AssetDeduction(a, year, midQuarter)
  <2>1. AssetCell(a, year, midQuarter) = Positive(Smaller(table, Rounded(a.basis - told)))
    BY DEF AssetCell
  <2>2. AssetDeduction(a, year, midQuarter) = CappedAt(table, a.basis, taken)
    BY DEF AssetDeduction
  <2>3. QED
    BY <1>5, <2>1, <2>2
<1>7. \A k \in 1 .. n + 1 : YearCell(a, convention, k) = TakenThrough(a, convention, k)
  <2>1. \A k \in 1 .. n + 1 : k \in Nat
    BY <1>1
  <2> HIDE DEF convention, n
  <2>2. \A k \in Nat : YearCell(a, convention, k) = TakenThrough(a, convention, k)
    BY <1>1, YearCellIs
  <2>3. QED
    BY <2>1, <2>2
<1>8. QED
  BY <1>6, <1>7 DEF AssetMirrors

\* The part of a sum that is one entry's is that entry.
LEMMA OneEntry ==
  ASSUME NEW n \in Nat, NEW a \in [1 .. n -> Int], NEW c \in 1 .. n
  PROVE  SumPart(a, n, {c}) = a[c]
<1> DEFINE b == [i \in 1 .. n |-> IF i \in {c} THEN a[i] ELSE 0]
           p == PartialSums(b)
           S == {k \in 0 .. n : p[k] = IF k < c THEN 0 ELSE a[c]}
<1>1. b \in [1 .. n -> Int] /\ \A i \in 1 .. n : b[i] = IF i = c THEN a[c] ELSE 0
  OBVIOUS
<1>2. SumPart(a, n, {c}) = SumSeq(b)
  BY DEF SumPart
<1> HIDE DEF b
<1>3. /\ p \in [0 .. n -> Int] /\ p[0] = 0 /\ SumSeq(b) = p[n]
      /\ \A k \in 0 .. n - 1 : p[k + 1] = p[k] + b[k + 1]
  BY <1>1, AmountsAre
<1> HIDE DEF p
<1>4. 0 \in S
  BY <1>3
<1>5. ASSUME NEW k \in 0 .. n - 1, k \in S PROVE k + 1 \in S
  <2>1. /\ p[k] = IF k < c THEN 0 ELSE a[c]
        /\ p[k + 1] = p[k] + IF k + 1 = c THEN a[c] ELSE 0
    BY <1>1, <1>3, <1>5
  <2>2. k < c \/ k = c \/ k > c
    OBVIOUS
  <2>3. QED
    BY <2>1, <2>2
<1>6. \A k \in S : p[k] = IF k < c THEN 0 ELSE a[c]
  OBVIOUS
<1> HIDE DEF S
<1>7. n \in S
  BY <1>4, <1>5, ByPrefix
<1>8. QED
  BY <1>2, <1>3, <1>6, <1>7

\* A sum over a set of entries is their part of the whole sum.
LEMMA SetSums ==
  ASSUME NEW n \in Nat, NEW a \in [1 .. n -> Int], NEW S, S \subseteq 1 .. n
  PROVE  SumAt(S, a) = SumPart(a, n, S)
<1> DEFINE b == [i \in 1 .. n |-> IF i \in S THEN a[i] ELSE 0]
           own == [i \in 1 .. n |-> i]
<1>1. IsFiniteSet(S)
  <2>1. IsFiniteSet(1 .. n)
    BY FS_Interval
  <2>2. QED
    BY <2>1, FS_Subset
<1>2. b \in [1 .. n -> Int] /\ \A i \in 1 .. n : own[i] \in S \/ b[i] = 0
  OBVIOUS
<1>3. ASSUME NEW c \in S PROVE a[c] = ClassPart(b, n, own, c)
  <2>1. {j \in 1 .. n : own[j] = c} = {c} /\ c \in 1 .. n /\ b[c] = a[c]
    OBVIOUS
  <2> HIDE DEF b, own
  <2>2. SumPart(b, n, {c}) = b[c]
    BY <1>2, <2>1, OneEntry
  <2>3. QED
    BY <2>1, <2>2 DEF ClassPart
<1>4. SumPart(a, n, S) = SumSeq(b)
  BY DEF SumPart
<1> HIDE DEF b, own
<1>5. SharedAmong(S, a, n, b, own)
  BY <1>2, <1>3 DEF SharedAmong
<1>6. SumAt(S, a) = SumSeq(b)
  BY <1>1, <1>2, <1>5, SharesSumUp
<1>7. QED
  BY <1>4, <1>6

----------------------------------------------------------------------------
(* The audit workbook's tie-outs.                                          *)

\* A sum of one amount.
LEMMA SumOfOne == ASSUME NEW v \in Int PROVE SumSeq(<<v>>) = v
<1>1. <<>> \in Seq(Int) /\ Append(<<>>, v) = <<v>> /\ <<>> \in [1 .. 0 -> Int]
  OBVIOUS
<1> DEFINE e == <<>>
<1> HIDE DEF e
<1>2. e \in Seq(Int) /\ Append(e, v) = <<v>> /\ e \in [1 .. 0 -> Int]
  BY <1>1 DEF e
<1>3. SumSeq(Append(e, v)) = SumSeq(e) + v /\ SumSeq(e) = 0
  BY <1>2, SumAppends, SumOfNone
<1>4. QED
  BY <1>2, <1>3

\* The bases that one activity brings to the forty percent test.
Held(act, year, months) ==
  SumOf(act.assets, LAMBDA a :
    IF InTest(a, year) /\ a.month \in months THEN a.basis ELSE 0)

LEMMA HeldType ==
  ASSUME NEW act, TypedActivity(act), NEW year, NEW months
  PROVE  /\ Held(act, year, months) \in Int
         /\ act.assets = <<>> => Held(act, year, months) = 0
         /\ TestBasis(<<act>>, year, months) = Held(act, year, months)
<1> DEFINE x == act.assets
           m == Len(x)
           h == [j \in DOMAIN x |->
                   IF InTest(x[j], year) /\ x[j].month \in months THEN x[j].basis ELSE 0]
           held == Held(act, year, months)
<1>1. m \in Nat /\ DOMAIN x = 1 .. m /\ \A j \in 1 .. m : x[j].basis \in Int
  BY DEF TypedActivity, ListOf, IsList, TypedAsset
<1>2. h \in [1 .. m -> Int] /\ held = SumSeq(h)
  BY <1>1 DEF Held, SumOf
<1>3. act.assets = <<>> => m = 0
  OBVIOUS
<1> HIDE DEF h, m
<1>4. held \in Int
  BY <1>1, <1>2, SumType
<1>5. act.assets = <<>> => held = 0
  BY <1>2, <1>3, SumOfNone
<1>6. TestBasis(<<act>>, year, months) = held
  <2>1. TestBasis(<<act>>, year, months)
          = SumSeq([i \in DOMAIN <<act>> |-> Held(<<act>>[i], year, months)])
    BY DEF TestBasis, SumOf, Held
  <2>2. [i \in DOMAIN <<act>> |-> Held(<<act>>[i], year, months)] = <<held>>
    <3> DEFINE H(b) == Held(b, year, months)
    <3> HIDE DEF H
    <3>1. [i \in DOMAIN <<act>> |-> H(<<act>>[i])] = <<H(act)>>
      OBVIOUS
    <3>2. QED
      BY <3>1 DEF H
  <2>3. SumSeq(<<held>>) = held
    BY <1>4, SumOfOne
  <2>4. QED
    BY <2>1, <2>2, <2>3
<1>7. QED
  BY <1>4, <1>5, <1>6

\* What the workbook adds up over the activities with assets is what the test
\* adds up over all of them.
LEMMA BasesOnTrail ==
  ASSUME NEW s, IsList(Activities4562(s)),
         \A i \in 1 .. Len(Activities4562(s)) : TypedActivity(Activities4562(s)[i]),
         NEW months
  PROVE  SumOver(OnTrail(s), LAMBDA i : TestBasis(<<Activities4562(s)[i]>>, s.year, months))
           = TestBasis(Activities4562(s), s.year, months)
<1> DEFINE acts == Activities4562(s)
           n == Len(acts)
           S == OnTrail(s)
           year == s.year
           a == [i \in 1 .. n |-> Held(acts[i], year, months)]
           one(i) == TestBasis(<<acts[i]>>, year, months)
           R1(f) == [T \in SUBSET S |->
                       IF T = {} THEN 0
                       ELSE LET x == CHOOSE x \in T : TRUE IN one(x) + f[T \ {x}]]
           R2(f) == [T \in SUBSET S |->
                       IF T = {} THEN 0
                       ELSE LET x == CHOOSE x \in T : TRUE IN a[x] + f[T \ {x}]]
           r1 == CHOOSE f : f = R1(f)
           r2 == CHOOSE f : f = R2(f)
<1>1. n \in Nat /\ DOMAIN acts = 1 .. n /\ S \subseteq 1 .. n
  BY DEF IsList, OnTrail
<1>2. \A i \in 1 .. n : one(i) = a[i] /\ a[i] \in Int /\ (i \notin S => a[i] = 0)
  <2> SUFFICES ASSUME NEW i \in 1 .. n
               PROVE  one(i) = a[i] /\ a[i] \in Int /\ (i \notin S => a[i] = 0)
    OBVIOUS
  <2>1. TypedActivity(acts[i]) /\ a[i] = Held(acts[i], year, months)
    OBVIOUS
  <2>2. i \notin S => acts[i].assets = <<>>
    BY <1>1 DEF OnTrail
  <2> HIDE DEF acts, n, S, year, a
  <2>3. QED
    BY <2>1, <2>2, HeldType
<1>3. SumOver(S, LAMBDA i : TestBasis(<<acts[i]>>, year, months)) = r1[S]
  BY DEF SumOver, MapThenSumSet, MapThenFoldSet
<1>4. SumAt(S, a) = r2[S]
  BY DEF SumAt, SumOver, MapThenSumSet, MapThenFoldSet
<1>5. TestBasis(acts, year, months) = SumSeq(a)
  BY <1>1 DEF TestBasis, SumOf, Held
<1> HIDE DEF one, a, S, year, acts, n
<1>6. ASSUME NEW f PROVE R1(f) = R2(f)
  <2>1. \A T \in SUBSET S : T # {} => (CHOOSE x \in T : TRUE) \in S
    OBVIOUS
  <2>2. \A i \in S : one(i) = a[i]
    BY <1>1, <1>2
  <2>3. QED
    BY <2>1, <2>2
<1> HIDE DEF R1, R2
<1>7. r1 = r2
  BY <1>6, Zenon
<1>8. a = [i \in 1 .. n |-> a[i]] /\ a \in [1 .. n -> Int]
  <2>1. a = [i \in 1 .. n |-> a[i]]
    BY DEF a
  <2>2. QED
    BY <1>2, <2>1
<1>9. SumAt(S, a) = SumPart(a, n, S)
  BY <1>1, <1>8, SetSums
<1>10. SumPart(a, n, S) = SumSeq(a)
  <2>1. \A i \in 1 .. n : a[i] = IF i \in S THEN a[i] ELSE 0
    BY <1>2
  <2>2. [i \in 1 .. n |-> IF i \in S THEN a[i] ELSE 0] = a
    BY <1>8, <2>1
  <2>3. QED
    BY <2>2 DEF SumPart
<1>11. QED
  BY <1>3, <1>4, <1>5, <1>7, <1>9, <1>10 DEF acts, S, year

\* The sheet of the forty percent test decides as the engine does.
LEMMA DecidesAlike ==
  ASSUME NEW s, IsList(Activities4562(s)),
         \A i \in 1 .. Len(Activities4562(s)) : TypedActivity(Activities4562(s)[i])
  PROVE  DecidingCell(s) = FortyPercent(Activities4562(s), s.year)
<1> DEFINE bases(months) ==
             SumOver(OnTrail(s), LAMBDA i :
                       TestBasis(<<Activities4562(s)[i]>>, s.year, months))
<1>1. DecidingCell(s) = (bases(10 .. 12) * 100 > 40 * bases(1 .. 12))
  BY DEF DecidingCell
<1>2. \A months : bases(months) = TestBasis(Activities4562(s), s.year, months)
  BY BasesOnTrail
<1> HIDE DEF bases
<1>3. QED
  BY <1>1, <1>2 DEF FortyPercent

\* The assets of an activity have the engine's figures in their cells.
Mirrored(act, year, midQuarter) ==
  \A i \in 1 .. Len(act.assets) :
    AssetCell(act.assets[i], year, midQuarter) = AssetDeduction(act.assets[i], year, midQuarter)

\* What the engine deducts of each asset.
DeductionsOf(act, year, midQuarter) ==
  [i \in 1 .. Len(act.assets) |-> AssetDeduction(act.assets[i], year, midQuarter)]

DeductedOf(assets, year, midQuarter) ==
  SumOf(assets, LAMBDA a : AssetDeduction(a, year, midQuarter))

\* Any assets of such an activity have cells that add up to their part of what
\* the engine deducts.
LEMMA SelectedCells ==
  ASSUME NEW act, TypedActivity(act), NEW year \in Int, NEW midQuarter,
         Depreciable(act, year), Mirrored(act, year, midQuarter),
         NEW U, U \subseteq 1 .. Len(act.assets)
  PROVE  LET part == SumPart(DeductionsOf(act, year, midQuarter), Len(act.assets), U)
             y    == Selection(act.assets, U)
         IN /\ AssetCells(y, year, midQuarter) = part
            /\ DeductedOf(y, year, midQuarter) = part
<1> DEFINE x == act.assets
           n == Len(x)
           V == {x[i] : i \in 1 .. n}
           f == [v \in V |-> AssetDeduction(v, year, midQuarter)]
           y == Selection(x, U)
<1>1. n \in Nat /\ DOMAIN x = 1 .. n /\ x = [i \in 1 .. n |-> x[i]] /\ \A i \in 1 .. n : TypedAsset(x[i])
  BY DEF TypedActivity, ListOf, IsList
<1>2. x \in Seq(V)
  <2>1. [i \in 1 .. n |-> x[i]] \in Seq(V)
    <3> HIDE DEF x, n
    <3>1. QED
      BY <1>1
  <2>2. QED
    BY <1>1, <2>1
<1>3. f \in [V -> Int]
  <2>1. \A i \in 1 .. n : AssetDeduction(x[i], year, midQuarter) \in Int
    BY <1>1, AssetDeductionType DEF Depreciable
  <2>2. QED
    BY <2>1
<1>4. \A v \in V : AssetCell(v, year, midQuarter) = f[v] /\ AssetDeduction(v, year, midQuarter) = f[v]
  BY DEF Mirrored
<1>5. DeductionsOf(act, year, midQuarter) = [i \in 1 .. n |-> f[x[i]]]
  BY DEF DeductionsOf
<1>6. U \subseteq 1 .. Len(x)
  OBVIOUS
<1> HIDE DEF x, f, V
<1>7. /\ Selection(x, U) \in Seq(V)
      /\ SumBy(f, Selection(x, U)) = SumPart([i \in 1 .. Len(x) |-> f[x[i]]], Len(x), U)
  BY <1>2, <1>3, <1>6, SelectedSums
<1> HIDE DEF y
<1>8. /\ y \in Seq(V)
      /\ SumBy(f, y) = SumPart(DeductionsOf(act, year, midQuarter), n, U)
  BY <1>5, <1>7 DEF y
<1>9. \A i \in DOMAIN y : y[i] \in V
  BY <1>8
<1>10. AssetCells(y, year, midQuarter) = SumBy(f, y)
  <2>1. [i \in DOMAIN y |-> AssetCell(y[i], year, midQuarter)] = [i \in DOMAIN y |-> f[y[i]]]
    BY <1>4, <1>9
  <2>2. QED
    BY <2>1 DEF AssetCells, SumOf, SumBy
<1>11. DeductedOf(y, year, midQuarter) = SumBy(f, y)
  <2>1. [i \in DOMAIN y |-> AssetDeduction(y[i], year, midQuarter)] = [i \in DOMAIN y |-> f[y[i]]]
    BY <1>4, <1>9
  <2>2. QED
    BY <2>1 DEF DeductedOf, SumOf, SumBy
<1>12. QED
  BY <1>8, <1>10, <1>11 DEF x, y

\* The cells of all of them add up to the engine's amount.
LEMMA CellsAddUp ==
  ASSUME NEW act, TypedActivity(act), NEW year, NEW midQuarter, Mirrored(act, year, midQuarter)
  PROVE  AssetCells(act.assets, year, midQuarter) = EngineAmount(act, year, midQuarter)
<1> DEFINE x == act.assets
<1>1. DOMAIN x = 1 .. Len(x)
  BY DEF TypedActivity, ListOf, IsList
<1>2. [i \in DOMAIN x |-> AssetCell(x[i], year, midQuarter)]
        = [i \in DOMAIN x |-> AssetDeduction(x[i], year, midQuarter)]
  BY <1>1 DEF Mirrored
<1>3. QED
  BY <1>2 DEF AssetCells, EngineAmount, SumOf

\* The assets of a class that are placed this year.
OnRow(act, year, c) ==
  {i \in 1 .. Len(act.assets) : act.assets[i].placed = year /\ act.assets[i].class = c}

\* The row of a class is the part of what the engine deducts that is of the
\* class, and placed this year.
LEMMA RowIsPart ==
  ASSUME NEW act, TypedActivity(act), NEW year \in Int, NEW midQuarter,
         Depreciable(act, year), NEW c \in DOMAIN RowsOf(act, year, midQuarter)
  PROVE  RowsOf(act, year, midQuarter)[c].deduction
           = SumPart(DeductionsOf(act, year, midQuarter), Len(act.assets), OnRow(act, year, c))
<1> DEFINE x == act.assets
           n == Len(x)
           V == {x[i] : i \in 1 .. n}
           f == [v \in V |-> AssetDeduction(v, year, midQuarter)]
           fc == [v \in V |-> IF v.class = c THEN f[v] ELSE 0]
           P == {i \in DOMAIN x : x[i].placed = year}
           Both == {i \in 1 .. n : x[i].placed = year /\ x[i].class = c}
           now == PlacedNow(act, year)
           m == Len(now)
           U == {i \in DOMAIN now : now[i].class = c}
           y == Selection(now, U)
           d == DeductionsOf(act, year, midQuarter)
<1>1. n \in Nat /\ DOMAIN x = 1 .. n /\ x = [i \in 1 .. n |-> x[i]] /\ \A i \in 1 .. n : TypedAsset(x[i])
  BY DEF TypedActivity, ListOf, IsList
<1>2. x \in Seq(V)
  <2>1. [i \in 1 .. n |-> x[i]] \in Seq(V)
    <3> HIDE DEF x, n
    <3>1. QED
      BY <1>1
  <2>2. QED
    BY <1>1, <2>1
<1>3. f \in [V -> Int]
  <2>1. \A i \in 1 .. n : AssetDeduction(x[i], year, midQuarter) \in Int
    BY <1>1, AssetDeductionType DEF Depreciable
  <2>2. QED
    BY <2>1
<1>4. \A i \in 1 .. n : x[i] \in V /\ d[i] = f[x[i]]
  BY DEF DeductionsOf
<1>5. now = Selection(x, P) /\ P \subseteq 1 .. Len(x)
  BY <1>1 DEF PlacedNow, Where
<1>6. RowsOf(act, year, midQuarter)[c].deduction
        = SumOf(y, LAMBDA q : AssetDeduction(q, year, midQuarter))
  <2>1. c \in {now[i].class : i \in DOMAIN now}
    BY DEF RowsOf
  <2>2. QED
    BY <2>1 DEF RowsOf, Where
<1> HIDE DEF now, d
<1>7. fc \in [V -> Int] /\ \A v \in V : fc[v] = IF v.class = c THEN f[v] ELSE 0
  <2> HIDE DEF f, V
  <2>1. QED
    BY <1>3
<1>8. \A v \in V : f[v] = AssetDeduction(v, year, midQuarter)
  OBVIOUS
<1> HIDE DEF V, f, fc, x, n, P
<1>9. /\ Selection(x, P) \in Seq(V)
      /\ SumBy(fc, Selection(x, P)) = SumPart([i \in 1 .. Len(x) |-> fc[x[i]]], Len(x), P)
  BY <1>2, <1>5, <1>7, SelectedSums
<1>10. /\ now \in Seq(V) /\ m \in Nat /\ DOMAIN now = 1 .. m
       /\ \A i \in 1 .. m : now[i] \in V
  BY <1>5, <1>9
<1>11. U \subseteq 1 .. Len(now) /\ U = {i \in 1 .. m : now[i].class = c}
  BY <1>10
<1> HIDE DEF U, y
<1>12. /\ Selection(now, U) \in Seq(V)
       /\ SumBy(f, Selection(now, U)) = SumPart([i \in 1 .. Len(now) |-> f[now[i]]], Len(now), U)
  <2>1. now \in Seq(V) /\ U \subseteq 1 .. Len(now) /\ f \in [V -> Int]
    BY <1>3, <1>10, <1>11
  <2> HIDE DEF m
  <2>2. QED
    BY <2>1, SelectedSums
<1>13. SumOf(y, LAMBDA q : AssetDeduction(q, year, midQuarter)) = SumBy(f, y)
  <2>1. \A i \in DOMAIN y : y[i] \in V
    BY <1>12 DEF y
  <2>2. [i \in DOMAIN y |-> AssetDeduction(y[i], year, midQuarter)] = [i \in DOMAIN y |-> f[y[i]]]
    BY <1>8, <2>1
  <2>3. QED
    BY <2>2 DEF SumOf, SumBy
<1>14. SumPart([i \in 1 .. Len(now) |-> f[now[i]]], Len(now), U) = SumBy(fc, now)
  <2> DEFINE g == [i \in 1 .. m |-> f[now[i]]]
  <2>1. \A i \in 1 .. m : (IF i \in U THEN g[i] ELSE 0) = fc[now[i]]
    BY <1>7, <1>10, <1>11
  <2> HIDE DEF g
  <2>2. [i \in 1 .. m |-> IF i \in U THEN g[i] ELSE 0] = [i \in DOMAIN now |-> fc[now[i]]]
    BY <1>10, <2>1
  <2>3. SumPart(g, m, U) = SumBy(fc, now)
    BY <2>2 DEF SumPart, SumBy
  <2>4. QED
    BY <2>3 DEF g
<1>15. SumPart([i \in 1 .. Len(x) |-> fc[x[i]]], Len(x), P) = SumPart(d, n, Both)
  <2> DEFINE g == [i \in 1 .. n |-> fc[x[i]]]
  <2>1. \A i \in 1 .. n : (IF i \in P THEN g[i] ELSE 0) = IF i \in Both THEN d[i] ELSE 0
    <3>1. \A i \in 1 .. n : i \in P <=> x[i].placed = year
      BY <1>1 DEF P
    <3>2. \A i \in 1 .. n : g[i] = IF x[i].class = c THEN d[i] ELSE 0
      BY <1>4, <1>7
    <3> HIDE DEF g
    <3>3. QED
      BY <3>1, <3>2
  <2> HIDE DEF g, Both
  <2>2. [i \in 1 .. n |-> IF i \in P THEN g[i] ELSE 0] = [i \in 1 .. n |-> IF i \in Both THEN d[i] ELSE 0]
    BY <2>1
  <2>3. SumPart(g, n, P) = SumPart(d, n, Both)
    BY <2>2 DEF SumPart
  <2>4. QED
    BY <2>3 DEF g, n
<1>16. QED
  BY <1>5, <1>6, <1>9, <1>12, <1>13, <1>14, <1>15 DEF y, d, n, x, OnRow

\* The letters of two classes stay apart in whichever year they print, and no
\* row is called as line 17 is.
LEMMA LettersApart ==
  ASSUME NEW c \in Classes, NEW d \in Classes, NEW year
  PROVE  LET letter(x) == PrintedRow(RowLetters[x], year) IN
         /\ letter(c) = letter(d) => c = d
         /\ letter(c) # "17"
<1> DEFINE u == RowLetters[c]
           v == RowLetters[d]
<1>1. /\ u # "h" /\ u # "17" /\ v # "h" /\ v # "17"
      /\ u = v => c = d
  BY ClassesAssumption
<1> HIDE DEF u, v
<1>2. RowBefore2025(u) = RowBefore2025(v) => u = v
  BY <1>1 DEF RowBefore2025
<1>3. RowBefore2025(u) # "17"
  BY <1>1 DEF RowBefore2025
<1>4. QED
  BY <1>1, <1>2, <1>3 DEF PrintedRow, u, v

\* What is claimed on each line of a copy is what the assets of the line are
\* computed and printed to be (f4562.py, _form_tie_outs).
LEMMA CopyTiesOut ==
  ASSUME NEW act, TypedActivity(act), NEW year \in Int, NEW midQuarter,
         Depreciable(act, year), Mirrored(act, year, midQuarter)
  PROVE  \A tie \in CopyTies(act, F4562(act, year, midQuarter), year, midQuarter) : Verdict(tie)
<1> DEFINE x == act.assets
           n == Len(x)
           copy == F4562(act, year, midQuarter)
           rows == RowsOf(act, year, midQuarter)
           onLine(line) == AssetCells(Where(act.assets, LAMBDA a : FormLine(a, year) = line),
                                      year, midQuarter)
           letter(class) == PrintedRow(RowLetters[class], year)
           part(U) == SumPart(DeductionsOf(act, year, midQuarter), Len(act.assets), U)
           On(line) == {i \in DOMAIN x : FormLine(x[i], year) = line}
           Earlier == {i \in DOMAIN x : x[i].placed # year}
           Of(c) == OnRow(act, year, c)
<1>1. /\ n \in Nat /\ DOMAIN x = 1 .. n /\ IsList(x)
      /\ \A i \in 1 .. n : x[i].class \in Classes
  BY DEF TypedActivity, ListOf, IsList, Depreciable, Computable
<1>2. \A line : onLine(line) = AssetCells(Selection(x, On(line)), year, midQuarter)
  BY DEF Where
<1>3. copy.line17 = DeductedOf(Selection(x, Earlier), year, midQuarter)
  BY DEF F4562, Where, DeductedOf
<1>4. copy.rows = rows /\ copy.line22 = EngineAmount(act, year, midQuarter)
  BY Line22IsEngine DEF F4562
<1>5. \A c \in DOMAIN rows : c \in Classes
  <2> SUFFICES ASSUME NEW c \in DOMAIN rows PROVE c \in Classes
    OBVIOUS
  <2> DEFINE S == {i \in DOMAIN x : x[i].placed = year}
             now == Selection(x, S)
  <2>1. c \in {now[i].class : i \in DOMAIN now}
    BY DEF RowsOf, PlacedNow, Where
  <2> HIDE DEF S
  <2>2. /\ IsList(now)
        /\ \A i \in 1 .. Len(now) : \E j \in 1 .. Len(x) : j \in S /\ now[i] = x[j]
    BY <1>1, SelectedList
  <2> HIDE DEF now
  <2>3. PICK i \in DOMAIN now : c = now[i].class
    BY <2>1
  <2>4. DOMAIN now = 1 .. Len(now)
    BY <2>2 DEF IsList
  <2>5. PICK j \in 1 .. Len(x) : now[i] = x[j]
    BY <2>2, <2>3, <2>4
  <2>6. QED
    BY <1>1, <2>3, <2>5
<1>6. \A c \in DOMAIN rows : rows[c].deduction = part(Of(c))
  BY RowIsPart
<1> HIDE DEF x
<1>7. On("17") = Earlier
  <2>1. \A i \in DOMAIN x : FormLine(x[i], year) = "17" <=> x[i].placed # year
    BY <1>1, LettersApart DEF FormLine
  <2>2. QED
    BY <2>1
<1>8. \A c \in DOMAIN rows : On(letter(c)) = Of(c)
  <2> SUFFICES ASSUME NEW c \in DOMAIN rows PROVE On(letter(c)) = Of(c)
    OBVIOUS
  <2>1. c \in Classes
    BY <1>5
  <2>2. ASSUME NEW i \in DOMAIN x
        PROVE  FormLine(x[i], year) = letter(c) <=> x[i].placed = year /\ x[i].class = c
    BY <1>1, <2>1, LettersApart DEF FormLine
  <2>3. DOMAIN x = 1 .. Len(act.assets)
    BY <1>1 DEF x
  <2> HIDE DEF letter
  <2>4. QED
    BY <2>2, <2>3 DEF x, OnRow
<1>9. \A U : U \subseteq 1 .. n =>
        /\ AssetCells(Selection(x, U), year, midQuarter) = part(U)
        /\ DeductedOf(Selection(x, U), year, midQuarter) = part(U)
  BY SelectedCells DEF x
<1>10. onLine("17") = copy.line17
  <2>1. Earlier \subseteq 1 .. n
    BY <1>1
  <2> HIDE DEF onLine, copy, On, Earlier, part
  <2>2. QED
    BY <1>2, <1>3, <1>7, <1>9, <2>1
<1>11. \A c \in DOMAIN rows : onLine(letter(c)) = copy.rows[c].deduction
  <2> SUFFICES ASSUME NEW c \in DOMAIN rows PROVE onLine(letter(c)) = copy.rows[c].deduction
    OBVIOUS
  <2>1. Of(c) \subseteq 1 .. n
    BY DEF x, OnRow
  <2> HIDE DEF onLine, copy, On, Of, part, letter, rows
  <2>2. onLine(letter(c)) = part(Of(c))
    BY <1>2, <1>8, <1>9, <2>1
  <2>3. QED
    BY <1>4, <1>6, <2>2
<1>12. AssetCells(act.assets, year, midQuarter) = copy.line22
  BY <1>4, CellsAddUp
<1>13. CopyTies(act, copy, year, midQuarter)
         = (IF copy.line17 = 0 THEN {} ELSE {<<"17", onLine("17"), copy.line17>>})
             \cup {<<letter(c), onLine(letter(c)), copy.rows[c].deduction>> : c \in DOMAIN copy.rows}
             \cup {<<"22", AssetCells(act.assets, year, midQuarter), copy.line22>>}
  <2> HIDE DEF copy
  <2>1. QED
    BY DEF CopyTies
<1> HIDE DEF onLine, letter, rows, n
<1> HIDE DEF copy
<1>14. \A tie \in CopyTies(act, copy, year, midQuarter) : Verdict(tie)
  BY <1>4, <1>10, <1>11, <1>12, <1>13 DEF Verdict
<1>15. QED
  BY <1>14 DEF copy

\* The line that deducts the depreciation of an activity ties as well, and an
\* override restates what the assets are computed to be.
LEMMA ScheduleTiesOut ==
  ASSUME NEW act, TypedActivity(act), NEW year \in Int, NEW midQuarter,
         Depreciable(act, year), Mirrored(act, year, midQuarter), act.assets # <<>>,
         act.depreciation = Resolved(act, year, midQuarter),
         ~StaleOverride(act, year, midQuarter)
  PROVE  /\ \A tie \in ScheduleTies(act, year, midQuarter) : Verdict(tie)
         /\ ~HasOverride(act) =>
              AssetCells(act.assets, year, midQuarter) = ScheduleLine(act)
<1> DEFINE engine == EngineAmount(act, year, midQuarter)
           sum == AssetCells(act.assets, year, midQuarter)
<1>1. engine \in Int
  BY ResolvedType
<1>2. sum = engine
  BY CellsAddUp
<1>3. CASE ~HasOverride(act)
  <2>1. act.depreciation = 100 * engine
    BY <1>3 DEF Resolved
  <2> HIDE DEF engine, sum
  <2>2. ScheduleLine(act) = engine
    BY <1>1, <2>1, RoundedDollars DEF ScheduleLine
  <2>3. ScheduleTies(act, year, midQuarter) = {<<"schedule", sum, ScheduleLine(act)>>}
    BY <1>3 DEF ScheduleTies, sum
  <2>4. QED
    BY <1>2, <2>2, <2>3 DEF Verdict, sum
<1>4. CASE HasOverride(act)
  <2>1. act.depreciation = act.override.amount
    BY <1>4 DEF Resolved
  <2>2. Overridden(act, year)
    BY <1>4 DEF Overridden, Depreciable, TypedActivity, ListOf, IsList
  <2>3. Rounded(act.override.restates) = engine
    BY <2>2 DEF StaleOverride
  <2> HIDE DEF engine, sum
  <2>4. ScheduleTies(act, year, midQuarter)
          = {<<"schedule", Rounded(act.override.amount), ScheduleLine(act)>>,
             <<"restated", sum, Rounded(act.override.restates)>>}
    BY <1>4 DEF ScheduleTies, sum
  <2>5. QED
    BY <1>2, <1>4, <2>1, <2>3, <2>4 DEF Verdict, ScheduleLine
<1>5. QED
  BY <1>3, <1>4

\* So do the forms of a whole return, if each copy ties.
LEMMA WholeReturnTiesOut ==
  ASSUME NEW s, NEW midQuarter,
         \A i \in WithCopy(s) :
           AssetCells(Activities4562(s)[i].assets, s.year, midQuarter)
             = ScheduleLine(Activities4562(s)[i])
  PROVE  Verdict(WholeReturnTie(s, midQuarter))
<1> DEFINE S == WithCopy(s)
           acts == Activities4562(s)
           cells(i) == AssetCells(acts[i].assets, s.year, midQuarter)
           line(i) == ScheduleLine(acts[i])
           R1(f) == [T \in SUBSET S |->
                       IF T = {} THEN 0
                       ELSE LET x == CHOOSE x \in T : TRUE IN cells(x) + f[T \ {x}]]
           R2(f) == [T \in SUBSET S |->
                       IF T = {} THEN 0
                       ELSE LET x == CHOOSE x \in T : TRUE IN line(x) + f[T \ {x}]]
           r1 == CHOOSE f : f = R1(f)
           r2 == CHOOSE f : f = R2(f)
           others == SumOver(Counted(s) \ WithCopy(s), line)
<1>1. WholeReturnTie(s, midQuarter)[2] = others + r1[S]
  BY DEF WholeReturnTie, SumOver, MapThenSumSet, MapThenFoldSet
<1>2. WholeReturnTie(s, midQuarter)[3] = others + r2[S]
  BY DEF WholeReturnTie, SumOver, MapThenSumSet, MapThenFoldSet
<1>3. \A i \in S : cells(i) = line(i)
  OBVIOUS
<1> HIDE DEF cells, line, S, others
<1>4. ASSUME NEW f PROVE R1(f) = R2(f)
  <2>1. \A T \in SUBSET S : T # {} => (CHOOSE x \in T : TRUE) \in S
    OBVIOUS
  <2>2. QED
    BY <1>3, <2>1
<1> HIDE DEF R1, R2
<1>5. r1 = r2
  BY <1>4, Zenon
<1>6. QED
  BY <1>1, <1>2, <1>5 DEF Verdict

\* An activity with the depreciation that the resolver finds, its override
\* being one that the load-stage entries let through.
Settled(act, year, midQuarter) ==
  /\ TypedActivity(act) /\ Depreciable(act, year)
  /\ act.depreciation = Resolved(act, year, midQuarter)
  /\ ~OverrideBesidePlacement(act, year) /\ ~StaleOverride(act, year, midQuarter)
SettledReturn(s) ==
  /\ s.year \in Int /\ IsList(Activities4562(s))
  /\ \A i \in 1 .. Len(Activities4562(s)) :
       Settled(Activities4562(s)[i], s.year, MidQuarterOf(s))

\* One that places property this year overrides nothing.
LEMMA PlacedUnoverridden ==
  ASSUME NEW act, NEW year \in Int, NEW midQuarter, Settled(act, year, midQuarter),
         CopyRequired(act, year), act.assets # <<>>
  PROVE  ~HasOverride(act)
<1>1. \A i \in DOMAIN act.assets : Computable(act.assets[i], year)
  BY DEF Settled, Depreciable, TypedActivity, ListOf, IsList
<1>2. QED
  BY <1>1 DEF Settled, CopyRequired, OverrideBesidePlacement, Overridden

\* A return whose assets have the engine's figures in their cells ties out:
\* claimed, computed and printed agree (_form_tie_outs, _whole_return_tie).
LEMMA ReturnTiesOut ==
  ASSUME NEW s, SettledReturn(s),
         \A i \in 1 .. Len(Activities4562(s)) :
           Mirrored(Activities4562(s)[i], s.year, MidQuarterOf(s))
  PROVE  \A tie \in TieOuts(s) : tie[1] = "line 26" \/ Verdict(tie)
<1> DEFINE acts == Activities4562(s)
           year == s.year
           mq == MidQuarterOf(s)
           copyTies(i) == CopyTies(acts[i], F4562(acts[i], year, mq), year, mq)
           scheduleTies(i) == ScheduleTies(acts[i], year, mq)
<1>1. /\ year \in Int /\ DOMAIN acts = 1 .. Len(acts)
      /\ \A i \in DOMAIN acts : Settled(acts[i], year, mq) /\ Mirrored(acts[i], year, mq)
  BY DEF SettledReturn, IsList
<1>2. /\ OnTrail(s) \subseteq DOMAIN acts /\ WithCopy(s) \subseteq OnTrail(s)
      /\ \A i \in OnTrail(s) : acts[i].assets # <<>>
      /\ \A i \in WithCopy(s) : CopyRequired(acts[i], year)
  BY DEF OnTrail, WithCopy
<1> HIDE DEF acts, year, mq
<1>3. ASSUME NEW i \in WithCopy(s) PROVE \A tie \in copyTies(i) : Verdict(tie)
  BY <1>1, <1>2, CopyTiesOut DEF Settled
<1>4. ASSUME NEW i \in OnTrail(s)
      PROVE  /\ \A tie \in scheduleTies(i) : Verdict(tie)
             /\ ~HasOverride(acts[i]) =>
                  AssetCells(acts[i].assets, year, mq) = ScheduleLine(acts[i])
  BY <1>1, <1>2, ScheduleTiesOut DEF Settled
<1>5. Verdict(WholeReturnTie(s, mq))
  <2>1. ASSUME NEW i \in WithCopy(s)
        PROVE  AssetCells(acts[i].assets, year, mq) = ScheduleLine(acts[i])
    BY <1>1, <1>2, <1>4, PlacedUnoverridden
  <2>2. QED
    BY <2>1, WholeReturnTiesOut DEF acts, year
<1>6. AdjustmentTie(s, mq)[1] = "line 26"
  BY DEF AdjustmentTie
<1>7. \A tie \in UNION {copyTies(i) : i \in WithCopy(s)} : Verdict(tie)
  <2> HIDE DEF copyTies
  <2>1. QED
    BY <1>3
<1>8. \A tie \in UNION {scheduleTies(i) : i \in OnTrail(s)} : Verdict(tie)
  <2> HIDE DEF scheduleTies
  <2>1. QED
    BY <1>4
<1>9. TieOuts(s) = (UNION {copyTies(i) : i \in WithCopy(s)})
                     \cup (UNION {scheduleTies(i) : i \in OnTrail(s)})
                     \cup (IF MultiActivity(s) THEN {WholeReturnTie(s, mq)} ELSE {})
                     \cup (IF s.change = None THEN {} ELSE {AdjustmentTie(s, mq)})
  BY DEF TieOuts, acts, year, mq
<1> HIDE DEF copyTies, scheduleTies
<1>10. QED
  BY <1>5, <1>6, <1>7, <1>8, <1>9

\* The audit of a return that passed the load-stage entries is written unless
\* a prior amount stated with cents meets the basis left (unbuildable_reasons,
\* write_depreciation_audit).
LEMMA UnwritableForCents ==
  ASSUME NEW s, SettledReturn(s), MidQuarterOf(s) = FortyPercent(Activities4562(s), s.year),
         \A a \in AssetsOf(s) : AcceptedAsset(a, s.year, MidQuarterOf(s)),
         AuditUnwritable(s)
  PROVE  \E a \in AssetsOf(s) : CeilingOnCents(a, s.year, MidQuarterOf(s))
<1> DEFINE acts == Activities4562(s)
           year == s.year
           mq == MidQuarterOf(s)
<1> SUFFICES ASSUME \A a \in AssetsOf(s) : ~CeilingOnCents(a, year, mq) PROVE FALSE
  OBVIOUS
<1>1. /\ year \in Int /\ IsList(acts) /\ DOMAIN acts = 1 .. Len(acts)
      /\ \A i \in 1 .. Len(acts) : Settled(acts[i], year, mq)
  BY DEF SettledReturn, IsList
<1>2. \A i \in DOMAIN acts : \A j \in DOMAIN acts[i].assets : acts[i].assets[j] \in AssetsOf(s)
  BY DEF AssetsOf
<1>3. \A a \in AssetsOf(s) : AssetMirrors(a, year, mq)
  <2> HIDE DEF year, mq
  <2>1. \A a \in AssetsOf(s) : AcceptedAsset(a, year, mq)
    BY DEF year, mq
  <2>2. QED
    BY <1>1, <2>1, CellsMirror
<1>4. DecidingCell(s) = mq
  <2>1. \A i \in 1 .. Len(acts) : TypedActivity(acts[i])
    BY <1>1 DEF Settled
  <2>2. QED
    BY <1>1, <2>1, DecidesAlike
<1>5. ~AuditUnbuildable(s)
  BY <1>3, <1>4 DEF AuditUnbuildable, SomeAsset
<1>6. WithCopy(s) \subseteq DOMAIN acts
  BY DEF WithCopy, OnTrail
<1>7. PICK i \in WithCopy(s) : AssetCells(acts[i].assets, year, mq) # F4562(acts[i], year, mq).line22
  BY <1>5 DEF AuditUnwritable
<1> HIDE DEF acts, year, mq
<1>8. i \in 1 .. Len(acts) /\ i \in DOMAIN acts /\ Settled(acts[i], year, mq)
  BY <1>1, <1>6
<1>9. Mirrored(acts[i], year, mq)
  <2>1. \A j \in 1 .. Len(acts[i].assets) : acts[i].assets[j] \in AssetsOf(s)
    BY <1>2, <1>8 DEF Settled, TypedActivity, ListOf, IsList
  <2>2. QED
    BY <1>3, <2>1 DEF Mirrored, AssetMirrors
<1>10. AssetCells(acts[i].assets, year, mq) = F4562(acts[i], year, mq).line22
  BY <1>1, <1>8, <1>9, CellsAddUp, Line22IsEngine DEF Settled
<1>11. QED
  BY <1>7, <1>10

\* An audit that is written has the engine's figures in its cells.
LEMMA WritableMirrors ==
  ASSUME NEW s, SettledReturn(s), ~AuditUnwritable(s)
  PROVE  \A i \in 1 .. Len(Activities4562(s)) :
           Mirrored(Activities4562(s)[i], s.year, MidQuarterOf(s))
<1> SUFFICES ASSUME NEW i \in 1 .. Len(Activities4562(s))
             PROVE  Mirrored(Activities4562(s)[i], s.year, MidQuarterOf(s))
  OBVIOUS
<1> DEFINE acts == Activities4562(s)
           year == s.year
           mq == MidQuarterOf(s)
<1>1. \A a \in AssetsOf(s) : AssetMirrors(a, year, mq)
  BY DEF AuditUnwritable, AuditUnbuildable, SomeAsset
<1>2. i \in DOMAIN acts /\ Settled(acts[i], year, mq)
  BY DEF SettledReturn, IsList
<1>3. \A j \in DOMAIN acts[i].assets : acts[i].assets[j] \in AssetsOf(s)
  BY <1>2 DEF AssetsOf
<1> HIDE DEF acts, year, mq
<1>4. \A j \in 1 .. Len(acts[i].assets) : acts[i].assets[j] \in AssetsOf(s)
  BY <1>2, <1>3 DEF Settled, TypedActivity, ListOf, IsList
<1>5. Mirrored(acts[i], year, mq)
  BY <1>1, <1>4 DEF Mirrored, AssetMirrors
<1>6. QED
  BY <1>5 DEF acts, year, mq

----------------------------------------------------------------------------
(* Lists of amounts, the corporation's K-1s.                               *)

\* A sum of the whole dollars of a list of amounts, and of the amounts.
LEMMA SumsOfAmounts ==
  ASSUME NEW x \in Seq(Int)
  PROVE  SumOf(x, Rounded) \in Int /\ SumOf(x, LAMBDA e : e) \in Int
<1> DEFINE a == [i \in 1 .. Len(x) |-> Rounded(x[i])]
           b == [i \in 1 .. Len(x) |-> x[i]]
<1>1. Len(x) \in Nat /\ DOMAIN x = 1 .. Len(x) /\ \A i \in 1 .. Len(x) : x[i] \in Int
  OBVIOUS
<1>2. a \in [1 .. Len(x) -> Int] /\ b \in [1 .. Len(x) -> Int]
  BY <1>1, RoundedIsNearest
<1>3. SumOf(x, Rounded) = SumSeq(a) /\ SumOf(x, LAMBDA e : e) = SumSeq(b)
  BY <1>1 DEF SumOf
<1> HIDE DEF a, b
<1>4. QED
  BY <1>1, <1>2, <1>3, SumType

\* The corporation's K-1s of its shareholders have the types of any K-1.
LEMMA ShareholderTyped ==
  ASSUME NEW c, c # None, TypedCorporation(c)
  PROVE  /\ ScheduleK(c).line1 \in Int
         /\ ListOf(ShareholderK1s(c), TypedK1) /\ Len(ShareholderK1s(c)) = Len(c.shares)
         /\ \A i \in 1 .. Len(c.shares) :
              /\ ShareholderK1s(c)[i] = ShareholderK1(Allocations(c)[i])
              /\ Allocations(c)[i].box1 \in Int /\ Allocations(c)[i].qbi \in Int
<1> DEFINE n == Len(c.shares)
           line1 == ScheduleK(c).line1
           qbi == IF c.qbiOverride = None THEN line1 ELSE Rounded(c.qbiOverride)
<1>1. /\ c.shares \in Seq(Int) /\ Amounts(c.deductions) /\ c.otherDeductions \in Int
      /\ {c.receipts, c.returns, c.cogs, c.gain4797, c.otherIncome} \subseteq Int
      /\ Optional(c.qbiOverride)
  BY DEF TypedCorporation, CorporateAmounts, Amounts
<1>2. DeductionLines(c) \in Seq(Int)
  BY <1>1 DEF DeductionLines, Amounts
<1>3. TotalDeductions(c) \in Int
  BY <1>2, SumsOfAmounts DEF TotalDeductions
<1>4. CorporateIncome(c).line6 \in Int
  <2>1. /\ c.receipts \in Int /\ c.returns \in Int /\ c.cogs \in Int
        /\ c.gain4797 \in Int /\ c.otherIncome \in Int
    BY <1>1
  <2>2. QED
    BY <2>1, RoundedIsNearest DEF CorporateIncome
<1>5. line1 \in Int
  BY <1>3, <1>4 DEF ScheduleK
<1>6. qbi \in Int
  BY <1>1, <1>5, RoundedIsNearest DEF Optional
<1>7. n \in Nat /\ DOMAIN c.shares = 1 .. n /\ \A i \in 1 .. n : c.shares[i] \in Int
  BY <1>1
<1>8. \A x, y \in Int : x * y \in Int
  OBVIOUS
<1>9. \A i \in 1 .. n :
        /\ Allocations(c)[i].box1 = line1 * c.shares[i]
        /\ Allocations(c)[i].qbi = RoundedShare(c.shares[i], qbi, 100)
  BY <1>7 DEF Allocations
<1> HIDE DEF n, line1, qbi
<1>10. \A i \in 1 .. n : Allocations(c)[i].box1 \in Int /\ Allocations(c)[i].qbi \in Int
  <2> SUFFICES ASSUME NEW i \in 1 .. n
               PROVE  Allocations(c)[i].box1 \in Int /\ Allocations(c)[i].qbi \in Int
    OBVIOUS
  <2>1. line1 * c.shares[i] \in Int
    BY <1>5, <1>7, <1>8
  <2>2. RoundedShare(c.shares[i], qbi, 100) \in Int
    BY <1>6, <1>7, ShareWithinHalf
  <2>3. QED
    BY <1>9, <2>1, <2>2
<1>11. ASSUME NEW a, a.box1 \in Int, a.qbi \in Int PROVE TypedK1(ShareholderK1(a))
  <2>1. 100 * a.qbi \in Int
    BY <1>11
  <2>2. QED
    BY <1>11, <2>1 DEF TypedK1, ShareholderK1, K1Amounts8, K1Fanout
<1> DEFINE S == {ShareholderK1(Allocations(c)[i]) : i \in 1 .. n}
<1>12. ShareholderK1s(c) \in [1 .. n -> S]
  BY <1>7 DEF ShareholderK1s
<1> HIDE DEF S
<1>13. IsList(ShareholderK1s(c)) /\ Len(ShareholderK1s(c)) = n
  BY <1>7, <1>12, MapIsList
<1>14. \A i \in 1 .. n : ShareholderK1s(c)[i] = ShareholderK1(Allocations(c)[i])
  BY <1>7 DEF ShareholderK1s
<1>15. ListOf(ShareholderK1s(c), TypedK1)
  BY <1>10, <1>11, <1>13, <1>14 DEF ListOf
<1>16. QED
  BY <1>5, <1>10, <1>13, <1>14, <1>15 DEF n, line1

\* The K-1s of the taxpayer's own corporations keep a return well typed.
LEMMA WithShareholderK1sTyped ==
  ASSUME NEW s, TypedScenario(s)
  PROVE  /\ TypedScenario(WithShareholderK1s(s))
         /\ DepreciableReturn(s) => DepreciableReturn(WithShareholderK1s(s))
<1>1. CASE s.corp = None
  BY <1>1 DEF WithShareholderK1s
<1>2. CASE s.corp # None
  <2> DEFINE k1s == s.k1s \o ShareholderK1s(s.corp)
             t == WithShareholderK1s(s)
  <2>1. /\ ListOf(s.k1s, TypedK1) /\ ListOf(ShareholderK1s(s.corp), TypedK1)
        /\ ReturnFields \subseteq DOMAIN s
    BY <1>2, ShareholderTyped DEF TypedScenario, TypedReturn, TypedForms
  <2>2. ListOf(k1s, TypedK1)
    <3> DEFINE own == s.k1s
               theirs == ShareholderK1s(s.corp)
               all == own \o theirs
    <3>1. IsList(own) /\ IsList(theirs)
      BY <2>1 DEF ListOf
    <3> HIDE DEF own, theirs
    <3>2. /\ IsList(all)
          /\ \A i \in 1 .. Len(all) :
               \/ \E j \in 1 .. Len(own) : all[i] = own[j]
               \/ \E j \in 1 .. Len(theirs) : all[i] = theirs[j]
      BY <3>1, JoinedList
    <3> HIDE DEF all
    <3>3. /\ \A i \in 1 .. Len(own) : TypedK1(own[i])
          /\ \A i \in 1 .. Len(theirs) : TypedK1(theirs[i])
      BY <2>1 DEF ListOf, own, theirs
    <3>4. \A i \in 1 .. Len(all) : TypedK1(all[i])
      BY <3>2, <3>3
    <3>5. ListOf(all, TypedK1)
      BY <3>2, <3>4 DEF ListOf
    <3>6. QED
      BY <3>5 DEF all, own, theirs
  <2>3. t = [s EXCEPT !.k1s = k1s]
    BY <1>2 DEF WithShareholderK1s
  <2>4. /\ t.k1s = k1s /\ DOMAIN t = DOMAIN s
        /\ t.rentals = s.rentals /\ t.businesses = s.businesses
        /\ t.year = s.year /\ t.config = s.config
        /\ t.w2s = s.w2s /\ t.interest = s.interest /\ t.dividends = s.dividends
        /\ t.g = s.g /\ t.lots = s.lots
        /\ t.qualified = s.qualified /\ t.distributions = s.distributions
        /\ t.exempt = s.exempt /\ t.estimated = s.estimated /\ t.charitable = s.charitable
        /\ t.health = s.health /\ t.prior = s.prior /\ t.itemized = s.itemized
        /\ t.form1098 = s.form1098 /\ t.block = s.block /\ t.corp = s.corp
        /\ t.ca = s.ca /\ t.case = s.case
    BY <2>1, <2>3 DEF ReturnFields
  <2> HIDE DEF t, k1s
  <2>5. TypedForms(t) /\ TypedActivities(t)
    BY <2>2, <2>4 DEF TypedScenario, TypedReturn, TypedForms, TypedActivities
  <2>6. TypedScenario(t)
    BY <2>4, <2>5 DEF TypedScenario, TypedReturn
  <2>7. QED
    BY <2>4, <2>6 DEF DepreciableReturn, t
<1>3. QED
  BY <1>1, <1>2

----------------------------------------------------------------------------
(* The part of a scenario the workbook has cells for.                      *)

\* A list of members of another.
From(y, x) ==
  IsList(y) /\ \A i \in 1 .. Len(y) : \E j \in 1 .. Len(x) : y[i] = x[j]

\* The first entries of a list come from it.
LEMMA FirstFrom ==
  ASSUME NEW x, IsList(x), NEW n \in Nat
  PROVE  From(First(x, n), x)
<1>1. /\ IsList(First(x, n)) /\ Len(First(x, n)) \in 0 .. Len(x) /\ Len(x) \in Nat
      /\ \A i \in 1 .. Len(First(x, n)) : First(x, n)[i] = x[i]
  BY FirstOfList DEF IsList
<1>2. \A i \in 1 .. Len(First(x, n)) : i \in 1 .. Len(x)
  BY <1>1
<1>3. QED
  BY <1>1, <1>2 DEF From

\* Two lists whose entries come from x, one after the other, do too.
LEMMA JoinedFrom ==
  ASSUME NEW x, NEW y, NEW z, From(y, x), From(z, x)
  PROVE  From(y \o z, x)
<1> DEFINE all == y \o z
<1>1. IsList(y) /\ IsList(z)
  BY DEF From
<1>2. /\ IsList(all)
      /\ \A i \in 1 .. Len(all) :
           \/ \E j \in 1 .. Len(y) : all[i] = y[j]
           \/ \E j \in 1 .. Len(z) : all[i] = z[j]
  BY <1>1, JoinedList
<1> HIDE DEF all
<1>3. From(all, x)
  BY <1>2 DEF From
<1>4. QED
  BY <1>3 DEF all

\* Coming from a list is transitive.
LEMMA FromFrom ==
  ASSUME NEW x, NEW y, NEW z, From(y, x), From(z, y)
  PROVE  From(z, x)
BY DEF From

\* The W-2s of one person, and the ones with cells, are W-2s of the return.
LEMMA SheetW2sFrom ==
  ASSUME NEW s, IsList(s.w2s)
  PROVE  /\ \A owner : From(W2sOf(s, owner), s.w2s)
         /\ From(SheetW2s(s), s.w2s)
<1>1. ASSUME NEW owner PROVE From(W2sOf(s, owner), s.w2s)
  <2> DEFINE S == {i \in DOMAIN s.w2s : (s.w2s[i].owner = "spouse") = (owner = "spouse")}
  <2>1. W2sOf(s, owner) = Selection(s.w2s, S)
    BY DEF W2sOf, Where, Selection
  <2> HIDE DEF S
  <2>2. From(Selection(s.w2s, S), s.w2s)
    BY SelectedList DEF From
  <2>3. QED
    BY <2>1, <2>2
<1>2. \A owner : From(First(W2sOf(s, owner), Employers), s.w2s)
  <2> SUFFICES ASSUME NEW owner PROVE From(First(W2sOf(s, owner), Employers), s.w2s)
    OBVIOUS
  <2>1. IsList(W2sOf(s, owner)) /\ Employers \in Nat
    BY <1>1, CellsAssumption DEF From
  <2>2. From(First(W2sOf(s, owner), Employers), W2sOf(s, owner))
    BY <2>1, FirstFrom
  <2>3. QED
    BY <1>1, <2>2, FromFrom
<1>3. QED
  BY <1>1, <1>2, JoinedFrom DEF SheetW2s

\* The lots the workbook has cells for come from the lots of the return.
LEMMA SheetLotsFrom ==
  ASSUME NEW s, IsList(s.lots)
  PROVE  From(SheetLots(s), s.lots)
<1> DEFINE place(i) == Cardinality({j \in 1 .. i : BoxOf(s.lots[j]) = BoxOf(s.lots[i])})
           S == {i \in DOMAIN s.lots : place(i) <= LotRows}
<1>1. SheetLots(s) = Selection(s.lots, S)
  BY DEF SheetLots, Selection
<1> HIDE DEF S
<1>2. From(Selection(s.lots, S), s.lots)
  BY SelectedList DEF From
<1>3. QED
  BY <1>1, <1>2

\* The netted row of a K-1 is a K-1 without the boxes that have no cell.
LEMMA SheetK1sTyped ==
  ASSUME NEW s, ListOf(s.k1s, TypedK1)
  PROVE  /\ ListOf(SheetK1s(s), TypedK1)
         /\ Len(SheetK1s(s)) = Smaller(Len(s.k1s), K1Rows)
         /\ \A i \in 1 .. Len(SheetK1s(s)) :
              i \in 1 .. Len(s.k1s) /\ SheetK1s(s)[i] = SheetK1(s.k1s[i])
<1> DEFINE rows == First(s.k1s, K1Rows)
           n == Len(rows)
           S == {SheetK1(rows[i]) : i \in 1 .. n}
<1>1. /\ IsList(s.k1s) /\ Len(s.k1s) \in Nat /\ K1Rows \in Nat
      /\ \A i \in 1 .. Len(s.k1s) : TypedK1(s.k1s[i])
  BY RowsAssumption DEF ListOf, IsList
<1>2. /\ IsList(rows) /\ n = Smaller(Len(s.k1s), K1Rows) /\ n \in 0 .. Len(s.k1s)
      /\ \A i \in 1 .. n : rows[i] = s.k1s[i]
  BY <1>1, FirstOfList
<1>3. /\ n \in Nat /\ DOMAIN rows = 1 .. n
      /\ \A i \in 1 .. n : i \in 1 .. Len(s.k1s)
  <2>1. IsList(rows)
    BY <1>2
  <2> HIDE DEF rows
  <2>2. QED
    BY <1>1, <1>2, <2>1 DEF IsList
<1>4. SheetK1s(s) = [i \in 1 .. n |-> SheetK1(rows[i])]
  BY <1>3 DEF SheetK1s
<1> HIDE DEF n, rows
<1>5. SheetK1s(s) \in [1 .. n -> S] /\ \A i \in 1 .. n : SheetK1s(s)[i] = SheetK1(rows[i])
  BY <1>4
<1> HIDE DEF S
<1>6. IsList(SheetK1s(s)) /\ Len(SheetK1s(s)) = n
  BY <1>3, <1>5, MapIsList
<1>7. ASSUME NEW k, TypedK1(k) PROVE TypedK1(SheetK1(k))
  BY <1>7 DEF SheetK1, TypedK1, K1Amounts8, K1Fanout
<1>8. \A i \in 1 .. n : TypedK1(SheetK1s(s)[i]) /\ SheetK1s(s)[i] = SheetK1(s.k1s[i])
  BY <1>1, <1>2, <1>3, <1>5, <1>7
<1>9. QED
  BY <1>2, <1>3, <1>6, <1>8 DEF ListOf

\* The return in the cells of the workbook has the types of the return.
LEMMA InWorkbookTyped ==
  ASSUME NEW s, TypedScenario(s)
  PROVE  TypedScenario(InWorkbook(s))
<1> DEFINE t == InWorkbook(s)
<1>1. /\ t.w2s = SheetW2s(s) /\ t.interest = SheetPayer(s.interest)
      /\ t.dividends = SheetPayer(s.dividends) /\ t.g = Sheet1099Gs(s)
      /\ t.rentals = SheetRentals(s) /\ t.k1s = SheetK1s(s) /\ t.lots = SheetLots(s)
      /\ t.block = SheetBlock(s) /\ t.charitable \in {s.charitable, 0}
      /\ t.businesses = <<>> /\ t.health = 0 /\ t.itemized = None /\ t.exempt = 0
  BY DEF InWorkbook, TypedScenario, TypedReturn, ReturnFields
<1>2. /\ DOMAIN t = DOMAIN s /\ t.year = s.year /\ t.config = s.config
      /\ t.qualified = s.qualified /\ t.distributions = s.distributions
      /\ t.estimated = s.estimated /\ t.prior = s.prior
      /\ t.form1098 = s.form1098 /\ t.corp = s.corp
      /\ t.ca = s.ca /\ t.case = s.case
  <2>1. DOMAIN t = DOMAIN s
    BY DEF InWorkbook
  <2>2. t.year = s.year /\ t.config = s.config /\ t.qualified = s.qualified
    BY DEF InWorkbook
  <2>3. t.distributions = s.distributions /\ t.estimated = s.estimated /\ t.prior = s.prior
    BY DEF InWorkbook
  <2>4. /\ t.form1098 = s.form1098 /\ t.corp = s.corp
        /\ t.ca = s.ca /\ t.case = s.case
    BY DEF InWorkbook
  <2>5. QED
    BY <2>1, <2>2, <2>3, <2>4
<1> HIDE DEF t
<1>3. TypedForms(s) /\ TypedActivities(s)
  BY DEF TypedScenario, TypedReturn
<1>4. ListOf(SheetW2s(s), TypedW2)
  <2>1. IsList(s.w2s)
    BY <1>3 DEF TypedForms, ListOf
  <2>2. QED
    BY <1>3, <2>1, SheetW2sFrom DEF TypedForms, ListOf, From
<1>5. Amounts(SheetPayer(s.interest)) /\ Amounts(SheetPayer(s.dividends))
  <2>1. ASSUME NEW x \in Seq(Int) PROVE First(x, 1) \in Seq(Int)
    <3>1. IsList(x) /\ Len(x) \in Nat /\ \A i \in 1 .. Len(x) : x[i] \in Int
      BY SeqIsList
    <3>2. From(First(x, 1), x)
      BY <3>1, FirstFrom
    <3>3. IsList(First(x, 1)) /\ \A i \in 1 .. Len(First(x, 1)) : First(x, 1)[i] \in Int
      BY <3>1, <3>2 DEF From
    <3>4. QED
      BY <3>3, ListIsSeq
  <2>2. QED
    BY <1>3, <2>1 DEF TypedForms, Amounts, SheetPayer
<1>6. ListOf(Sheet1099Gs(s), Typed1099G)
  <2>1. IsList(s.g) /\ Payers \in Nat
    BY <1>3, CellsAssumption DEF TypedForms, ListOf
  <2>2. From(Sheet1099Gs(s), s.g)
    BY <2>1, FirstFrom DEF Sheet1099Gs
  <2>3. QED
    BY <1>3, <2>2 DEF TypedForms, ListOf, From
<1>7. ListOf(SheetRentals(s), TypedRental) /\ ListOf(SheetRentals(s), TypedActivity)
  <2>1. IsList(s.rentals) /\ 1 \in Nat
    BY <1>3 DEF TypedActivities, ListOf
  <2>2. From(SheetRentals(s), s.rentals)
    BY <2>1, FirstFrom DEF SheetRentals
  <2>3. QED
    BY <1>3, <2>2 DEF TypedActivities, ListOf, From
<1>8. ListOf(SheetK1s(s), TypedK1)
  BY <1>3, SheetK1sTyped DEF TypedForms
<1>9. ListOf(SheetLots(s), TypedLot)
  <2>1. IsList(s.lots)
    BY <1>3 DEF TypedForms, ListOf
  <2>2. From(SheetLots(s), s.lots)
    BY <2>1, SheetLotsFrom
  <2>3. QED
    BY <1>3, <2>2 DEF TypedForms, ListOf, From
<1>10. TypedBlock(SheetBlock(s))
  <2>1. CASE s.block = None
    BY <2>1 DEF SheetBlock, TypedBlock
  <2>2. CASE s.block # None
    <3>1. TypedBlock(s.block)
      BY DEF TypedScenario, TypedReturn
    <3> DEFINE b == SheetBlock(s)
    <3>2. b = [s.block EXCEPT !.unemployment = @ /\ s.year = 2021]
      BY <2>2 DEF SheetBlock
    <3>3. /\ DOMAIN b = DOMAIN s.block /\ b.exempt = s.block.exempt
          /\ b.months = s.block.months
      BY <3>2
    <3>4. b.unemployment = (s.block.unemployment /\ s.year = 2021)
      BY <2>2, <3>1, <3>2, Zenon DEF TypedBlock
    <3> HIDE DEF b
    <3>5. b.unemployment \in BOOLEAN
      BY <3>4
    <3>6. TypedBlock(b)
      BY <2>2, <3>1, <3>3, <3>5 DEF TypedBlock
    <3>7. QED
      BY <3>6 DEF b
  <2>3. QED
    BY <2>1, <2>2
<1>11. /\ ListOf(t.businesses, TypedBusiness) /\ ListOf(t.businesses, TypedActivity)
  BY <1>1 DEF ListOf, IsList
<1>12. TypedForms(t) /\ TypedActivities(t)
  BY <1>1, <1>4, <1>5, <1>6, <1>7, <1>8, <1>9, <1>11 DEF TypedForms, TypedActivities
<1>13. WholeDollars(t.health)
  BY <1>1 DEF WholeDollars
<1>14. /\ {t.qualified, t.distributions, t.exempt, t.estimated, t.charitable, t.health}
            \subseteq Int
       /\ t.year \in Int /\ ReturnFields \subseteq DOMAIN t /\ t.config.status \in Statuses
  BY <1>1, <1>2 DEF TypedScenario, TypedReturn
<1>15. /\ TypedPrior(t.prior) /\ Typed1098(t.form1098) /\ TypedCorporation(t.corp)
       /\ TypedCA(t.ca) /\ TypedCase(t.case)
  BY <1>2 DEF TypedScenario, TypedReturn
<1>16. TypedItemized(t.itemized)
  BY <1>1 DEF TypedItemized
<1>17. TypedBlock(t.block)
  BY <1>1, <1>10
<1>18. TypedScenario(t)
  BY <1>12, <1>14, <1>15, <1>16, <1>17, <1>13 DEF TypedScenario, TypedReturn
<1>19. QED
  BY <1>18 DEF t

----------------------------------------------------------------------------
(* Wages.                                                                  *)

\* The sum of a list of amounts is an amount, and of natural ones natural.
LEMMA SumListed ==
  ASSUME NEW x, IsList(x), NEW a \in [DOMAIN x -> Int]
  PROVE  SumSeq(a) \in Int
<1>1. Len(x) \in Nat /\ DOMAIN x = 1 .. Len(x)
  BY DEF IsList
<1>2. QED
  BY <1>1, SumType

\* A sum of natural numbers is one.
LEMMA SumListedNatural ==
  ASSUME NEW x, IsList(x), NEW a \in [DOMAIN x -> Nat]
  PROVE  SumSeq(a) \in Nat
<1>1. Len(x) \in Nat /\ DOMAIN x = 1 .. Len(x)
  BY DEF IsList
<1>2. QED
  BY <1>1, SumNatural

\* What the W-2s and the Forms 1099-G add up to.
LEMMA WageTypes ==
  ASSUME NEW s, TypedScenario(s)
  PROVE  /\ Total(s, LAMBDA w : w.wages) \in Int /\ Total(s, LAMBDA w : w.medicare) \in Int
         /\ Total(s, LAMBDA w : w.withheld) \in Int
         /\ StateWithheld(s) \in Int /\ CAWithheld(s) \in Int
         /\ Wages(s) \in Int
         /\ {PaidOf(s).w2, PaidOf(s).other, PaidOf(s).estimated} \subseteq Int
<1>1. /\ IsList(s.w2s) /\ DOMAIN s.w2s = 1 .. Len(s.w2s)
      /\ \A i \in DOMAIN s.w2s : TypedW2(s.w2s[i])
      /\ IsList(s.g) /\ DOMAIN s.g = 1 .. Len(s.g) /\ \A i \in DOMAIN s.g : Typed1099G(s.g[i])
      /\ s.estimated \in Int
  BY DEF TypedScenario, TypedReturn, TypedForms, ListOf, IsList
<1>2. \A i \in DOMAIN s.w2s :
        /\ s.w2s[i].wages \in Int /\ s.w2s[i].medicare \in Int
        /\ s.w2s[i].withheld \in Int /\ s.w2s[i].stateWithheld \in Int
  BY <1>1 DEF TypedW2
<1>3. /\ [i \in DOMAIN s.w2s |-> s.w2s[i].wages] \in [DOMAIN s.w2s -> Int]
      /\ [i \in DOMAIN s.w2s |-> s.w2s[i].medicare] \in [DOMAIN s.w2s -> Int]
      /\ [i \in DOMAIN s.w2s |-> s.w2s[i].withheld] \in [DOMAIN s.w2s -> Int]
      /\ [i \in DOMAIN s.w2s |-> s.w2s[i].stateWithheld] \in [DOMAIN s.w2s -> Int]
      /\ [i \in DOMAIN s.w2s |-> IF s.w2s[i].state = "CA" THEN s.w2s[i].stateWithheld ELSE 0]
           \in [DOMAIN s.w2s -> Int]
  BY <1>2
<1>4. Total(s, LAMBDA w : w.wages) \in Int
  BY <1>1, <1>3, SumListed DEF Total, SumOf
<1>5. Total(s, LAMBDA w : w.medicare) \in Int
  BY <1>1, <1>3, SumListed DEF Total, SumOf
<1>6. Total(s, LAMBDA w : w.withheld) \in Int
  BY <1>1, <1>3, SumListed DEF Total, SumOf
<1>7. StateWithheld(s) \in Int
  BY <1>1, <1>3, SumListed DEF StateWithheld, Total, SumOf
<1>8. CAWithheld(s) \in Int
  BY <1>1, <1>3, SumListed DEF CAWithheld, Total, SumOf
<1>9. SumOf(s.g, LAMBDA f : f.withheld) \in Int
  <2>1. \A i \in DOMAIN s.g : s.g[i].withheld \in Int
    BY <1>1 DEF Typed1099G
  <2>2. [i \in DOMAIN s.g |-> s.g[i].withheld] \in [DOMAIN s.g -> Int]
    BY <2>1
  <2>3. QED
    BY <1>1, <2>2, SumListed DEF SumOf
<1>10. Wages(s) \in Int
  BY <1>4, RoundedIsNearest DEF Wages
<1>11. PaidOf(s).w2 \in Int /\ PaidOf(s).other \in Int /\ PaidOf(s).estimated \in Int
  BY <1>1, <1>6, <1>9, RoundedIsNearest DEF PaidOf
<1>12. QED
  BY <1>4, <1>5, <1>6, <1>7, <1>8, <1>10, <1>11

----------------------------------------------------------------------------
(* Businesses, rentals, partnerships; self-employment and Medicare tax.    *)

\* The larger, the smaller, the part above and the part below zero are whole
\* numbers.
LEMMA LargerTypes ==
  ASSUME NEW a \in Int, NEW b \in Int
  PROVE  /\ Larger(a, b) \in Int /\ Smaller(a, b) \in Int
         /\ Positive(a) \in Nat /\ Negative(a) \in Nat
BY DEF Larger, Smaller, Positive, Negative

\* Rounding does not change a sign.
LEMMA RoundedNatural ==
  ASSUME NEW cents \in Nat
  PROVE  Rounded(cents) \in Nat
BY DEF Rounded

\* The bottom line of a business, and of a rental.
LEMMA Line31Type ==
  ASSUME NEW b, TypedBusiness(b), TypedActivity(b)
  PROVE  Line31(b) \in Int /\ NetEstimate(b) \in Int
<1>1. b.receipts \in Int /\ b.expenses \in Seq(Int) /\ b.depreciation \in Int
  BY DEF TypedBusiness, TypedActivity, Amounts
<1>2. PartIILines(b) \in Seq(Int)
  BY <1>1 DEF PartIILines
<1>3. SumOf(PartIILines(b), Rounded) \in Int /\ SumOf(PartIILines(b), LAMBDA e : e) \in Int
  BY <1>2, SumsOfAmounts
<1> DEFINE lines == SumOf(PartIILines(b), Rounded)
           spent == SumOf(PartIILines(b), LAMBDA e : e)
<1>4. Line31(b) = Rounded(b.receipts) - lines /\ NetEstimate(b) = b.receipts - spent
  BY DEF Line31, NetEstimate
<1>5. lines \in Int /\ spent \in Int
  BY <1>3
<1> HIDE DEF lines, spent
<1>6. Rounded(b.receipts) \in Int
  BY <1>1, RoundedIsNearest
<1>7. QED
  BY <1>1, <1>4, <1>5, <1>6

\* The net of a rental is a whole number of dollars.
LEMMA RentalNetType ==
  ASSUME NEW r, TypedRental(r), TypedActivity(r)
  PROVE  RentalNet(r) \in Int /\ SumOf(r.expenses, LAMBDA e : e) \in Int
<1>1. r.rents \in Int /\ r.expenses \in Seq(Int) /\ r.depreciation \in Int
  BY DEF TypedRental, TypedActivity, Amounts
<1>2. SumOf(r.expenses, Rounded) \in Int /\ SumOf(r.expenses, LAMBDA e : e) \in Int
  BY <1>1, SumsOfAmounts
<1> DEFINE lines == SumOf(r.expenses, Rounded)
           spent == SumOf(r.expenses, LAMBDA e : e)
<1>3. RentalNet(r) = Rounded(r.rents) - lines - Rounded(r.depreciation)
  BY DEF RentalNet
<1>4. lines \in Int /\ spent \in Int
  BY <1>2
<1>5. RentalNet(r) \in Int
  <2> HIDE DEF lines, spent
  <2>1. Rounded(r.rents) \in Int /\ Rounded(r.depreciation) \in Int
    BY <1>1, RoundedIsNearest
  <2>2. QED
    BY <1>3, <1>4, <2>1
<1>6. QED
  BY <1>4, <1>5

\* The lines 31 of the Schedules C are whole numbers.
LEMMA BusinessTypes ==
  ASSUME NEW x, ListOf(x, TypedBusiness), ListOf(x, TypedActivity)
  PROVE  /\ BusinessIncome(x) \in Int
         /\ \A i \in DOMAIN x : Line31(x[i]) \in Int /\ NetEstimate(x[i]) \in Int
         /\ SumOf(x, LAMBDA b : Negative(Line31(b))) \in Nat
<1>1. /\ IsList(x) /\ DOMAIN x = 1 .. Len(x)
      /\ \A i \in DOMAIN x : TypedBusiness(x[i]) /\ TypedActivity(x[i])
  BY DEF ListOf, IsList
<1>2. \A i \in DOMAIN x : Line31(x[i]) \in Int /\ NetEstimate(x[i]) \in Int
  BY <1>1, Line31Type
<1>3. [i \in DOMAIN x |-> Line31(x[i])] \in [DOMAIN x -> Int]
  BY <1>2
<1>4. [i \in DOMAIN x |-> Negative(Line31(x[i]))] \in [DOMAIN x -> Nat]
  BY <1>2, LargerTypes
<1>5. BusinessIncome(x) \in Int
  BY <1>1, <1>3, SumListed DEF BusinessIncome, SumOf
<1>6. SumOf(x, LAMBDA b : Negative(Line31(b))) \in Nat
  BY <1>1, <1>4, SumListedNatural DEF SumOf
<1>7. QED
  BY <1>2, <1>5, <1>6

\* Part I of Schedule E: its income, its losses and their difference.
LEMMA PartITypes ==
  ASSUME NEW x, ListOf(x, TypedRental), ListOf(x, TypedActivity)
  PROVE  /\ PartI(x).line24 \in Nat /\ PartI(x).line25 \in Nat /\ PartI(x).line26 \in Int
         /\ PartI(x).line25 = SumOf(x, LAMBDA r : Negative(RentalNet(r)))
         /\ PartI(x).line24 = SumOf(x, LAMBDA r : Positive(RentalNet(r)))
         /\ PartI(x).line26 = PartI(x).line24 - PartI(x).line25
         /\ PartI(x).nets = [i \in DOMAIN x |-> RentalNet(x[i])]
         /\ \A i \in DOMAIN x : RentalNet(x[i]) \in Int
<1>1. /\ IsList(x) /\ DOMAIN x = 1 .. Len(x)
      /\ \A i \in DOMAIN x : TypedRental(x[i]) /\ TypedActivity(x[i])
  BY DEF ListOf, IsList
<1>2. \A i \in DOMAIN x : RentalNet(x[i]) \in Int
  BY <1>1, RentalNetType
<1>3. /\ [i \in DOMAIN x |-> Positive(RentalNet(x[i]))] \in [DOMAIN x -> Nat]
      /\ [i \in DOMAIN x |-> Negative(RentalNet(x[i]))] \in [DOMAIN x -> Nat]
  BY <1>2, LargerTypes
<1> DEFINE income == SumOf(x, LAMBDA r : Positive(RentalNet(r)))
           losses == SumOf(x, LAMBDA r : Negative(RentalNet(r)))
<1>4. income \in Nat
  BY <1>1, <1>3, SumListedNatural DEF SumOf
<1>5. losses \in Nat
  BY <1>1, <1>3, SumListedNatural DEF SumOf
<1>6. PartI(x) = [nets |-> [i \in DOMAIN x |-> RentalNet(x[i])],
                  line24 |-> income, line25 |-> losses, line26 |-> income - losses]
  BY DEF PartI
<1> HIDE DEF income, losses
<1>7. /\ PartI(x).line24 = income /\ PartI(x).line25 = losses
      /\ PartI(x).line26 = income - losses
      /\ PartI(x).nets = [i \in DOMAIN x |-> RentalNet(x[i])]
  BY <1>6
<1>8. QED
  BY <1>2, <1>4, <1>5, <1>7 DEF income, losses

\* The rows of the K-1s, and the two lists they are split into.
LEMMA K1RowType ==
  ASSUME NEW k, TypedK1(k)
  PROVE  K1Row(k) \in Int /\ Rounded(k.prior) \in Int
<1>1. /\ k.ordinary \in Int /\ k.rental \in Int /\ k.otherRental \in Int
      /\ k.royalties \in Int /\ k.otherIncome \in Int /\ k.prior \in Int
  BY DEF TypedK1, K1Amounts8
<1>2. QED
  BY <1>1, RoundedIsNearest DEF K1Row

\* Part II splits the K-1s into passive and nonpassive ones.
LEMMA K1Split ==
  ASSUME NEW k1s, IsList(k1s)
  PROVE  /\ Passive(k1s) = Selection(k1s, {i \in DOMAIN k1s : ~k1s[i].material})
         /\ Nonpassive(k1s) = Selection(k1s, {i \in DOMAIN k1s : k1s[i].material})
         /\ From(Passive(k1s), k1s) /\ From(Nonpassive(k1s), k1s)
         /\ \A i \in DOMAIN Passive(k1s) : ~Passive(k1s)[i].material
<1> DEFINE P == {i \in DOMAIN k1s : ~k1s[i].material}
           N == {i \in DOMAIN k1s : k1s[i].material}
<1>1. Passive(k1s) = Selection(k1s, P) /\ Nonpassive(k1s) = Selection(k1s, N)
  BY DEF Passive, Nonpassive, Where, Selection
<1>2. /\ IsList(Selection(k1s, P))
      /\ \A i \in 1 .. Len(Selection(k1s, P)) :
           \E j \in 1 .. Len(k1s) : j \in P /\ Selection(k1s, P)[i] = k1s[j]
  <2> HIDE DEF P
  <2>1. QED
    BY SelectedList
<1>3. From(Selection(k1s, N), k1s)
  <2> HIDE DEF N
  <2>1. QED
    BY SelectedList DEF From
<1>4. DOMAIN Selection(k1s, P) = 1 .. Len(Selection(k1s, P))
  BY <1>2 DEF IsList
<1>5. From(Selection(k1s, P), k1s)
  BY <1>2 DEF From
<1>6. \A i \in DOMAIN Selection(k1s, P) : ~Selection(k1s, P)[i].material
  BY <1>2, <1>4
<1>7. QED
  BY <1>1, <1>3, <1>5, <1>6

\* Entries that come from a well-typed list are well typed.
LEMMA FromTyped ==
  ASSUME NEW x, NEW y, From(y, x)
  PROVE  /\ ListOf(x, TypedK1) => ListOf(y, TypedK1)
         /\ ListOf(x, TypedLot) => ListOf(y, TypedLot)
         /\ ListOf(x, TypedBusiness) => ListOf(y, TypedBusiness)
BY DEF ListOf, From

\* The columns of Part II add up natural numbers.
LEMMA RowSums ==
  ASSUME NEW k1s, ListOf(k1s, TypedK1)
  PROVE  /\ RowIncome(k1s) \in Nat /\ RowLoss(k1s) \in Nat
         /\ \A i \in DOMAIN k1s : K1Row(k1s[i]) \in Int
<1>1. /\ IsList(k1s) /\ DOMAIN k1s = 1 .. Len(k1s)
      /\ \A i \in DOMAIN k1s : TypedK1(k1s[i])
  BY DEF ListOf, IsList
<1>2. \A i \in DOMAIN k1s : K1Row(k1s[i]) \in Int
  BY <1>1, K1RowType
<1>3. /\ [i \in DOMAIN k1s |-> Positive(K1Row(k1s[i]))] \in [DOMAIN k1s -> Nat]
      /\ [i \in DOMAIN k1s |-> Negative(K1Row(k1s[i]))] \in [DOMAIN k1s -> Nat]
  BY <1>2, LargerTypes
<1>4. RowIncome(k1s) \in Nat
  BY <1>1, <1>3, SumListedNatural DEF RowIncome, SumOf
<1>5. RowLoss(k1s) \in Nat
  BY <1>1, <1>3, SumListedNatural DEF RowLoss, SumOf
<1>6. QED
  BY <1>2, <1>4, <1>5

\* Part II of Schedule E: its income, its losses and their difference.
LEMMA PartIITypes ==
  ASSUME NEW k1s, ListOf(k1s, TypedK1)
  PROVE  /\ ListOf(Passive(k1s), TypedK1) /\ ListOf(Nonpassive(k1s), TypedK1)
         /\ PartII(k1s).line30 \in Nat /\ PartII(k1s).line31 \in Nat
         /\ PartII(k1s).line32 \in Int
         /\ PartII(k1s).line31 = RowLoss(Passive(k1s)) + RowLoss(Nonpassive(k1s))
<1>1. ListOf(Passive(k1s), TypedK1) /\ ListOf(Nonpassive(k1s), TypedK1)
  BY K1Split, FromTyped DEF ListOf
<1>2. /\ RowIncome(Passive(k1s)) \in Nat /\ RowIncome(Nonpassive(k1s)) \in Nat
      /\ RowLoss(Passive(k1s)) \in Nat /\ RowLoss(Nonpassive(k1s)) \in Nat
  BY <1>1, RowSums
<1>3. QED
  BY <1>1, <1>2 DEF PartII

\* Schedule SE and Form 8959 add taxes up, never below nothing.
LEMMA SETypes ==
  ASSUME NEW net \in Int, NEW wages \in Int
  PROVE  SETax(net, wages) \in Nat /\ HalfSE(net, wages) \in Nat
<1>1. SETax(net, wages) \in Nat
  <2>1. CASE OwesSE(net)
    <3>1. net \in Nat /\ net > 0
      BY <2>1 DEF OwesSE
    <3>2. NetEarnings(net) \in Nat /\ LeftUnderBase(wages) \in Nat
      <4>1. WageBase \in Nat
        BY SelfEmploymentAssumption
      <4>2. WageBase - wages \in Int
        BY <4>1
      <4>3. QED
        BY <3>1, <4>2, LargerTypes DEF NetEarnings, LeftUnderBase
    <3>3. Smaller(NetEarnings(net), Dollar * LeftUnderBase(wages)) \in Nat
      BY <3>2 DEF Smaller, Dollar
    <3>4. \A x \in Nat : /\ (x * 31) \div 250 \in Nat /\ (x * 29) \div 1000 \in Nat
                         /\ NearestDollar(x) \in Nat
      BY SMT DEF NearestDollar, Dollar
    <3>5. SocialSecurityPart(net, wages) \in Nat /\ MedicarePart(net) \in Nat
      BY <3>2, <3>3, <3>4 DEF SocialSecurityPart, MedicarePart
    <3>6. QED
      BY <2>1, <3>5 DEF SETax
  <2>2. QED
    BY <2>1 DEF SETax
<1>2. QED
  BY <1>1 DEF HalfSE

\* The lines of Form 8959 are natural numbers.
LEMMA MedicareTypes ==
  ASSUME NEW wages \in Int, NEW withheld \in Int, NEW net \in Int,
         NEW status \in DOMAIN MedicareThreshold
  PROVE  LET m == F8959(wages, withheld, net, status) IN
         /\ m.line7 \in Nat /\ m.line13 \in Nat /\ m.line18 \in Nat /\ m.line24 \in Nat
<1> DEFINE threshold == MedicareThreshold[status]
           x == MedicareExcess(wages, net, threshold)
<1>1. threshold \in Nat
  BY SelfEmploymentAssumption
<1> HIDE DEF threshold
<1>2. \A y \in Nat : NearestDollar(y) \in Nat
  BY SMT DEF NearestDollar, Dollar
<1>3. (IF OwesSE(net) THEN NearestDollar(NetEarnings(net)) ELSE 0) \in Int
  BY <1>2 DEF OwesSE, NetEarnings
<1>4. x.line7 \in Nat /\ x.line13 \in Nat
  <2> DEFINE earnings == IF OwesSE(net) THEN NearestDollar(NetEarnings(net)) ELSE 0
             left == Positive(threshold - wages)
  <2>1. left \in Nat /\ Positive(wages - threshold) \in Nat
    BY <1>1, LargerTypes
  <2>2. Positive(earnings - left) \in Nat
    <3> HIDE DEF earnings, left
    <3>1. earnings - left \in Int
      BY <1>3, <2>1 DEF earnings
    <3>2. QED
      BY <3>1, LargerTypes
  <2>3. x.line7 = 90 * Positive(wages - threshold) /\ x.line13 = 90 * Positive(earnings - left)
    BY DEF MedicareExcess
  <2> HIDE DEF x, earnings, left
  <2>4. QED
    BY <2>1, <2>2, <2>3
<1>5. Positive(Dollar * withheld - 145 * wages) \in Nat
  BY LargerTypes DEF Dollar
<1>6. x.line7 + x.line13 \in Nat
  BY <1>4
<1> HIDE DEF x
<1>7. QED
  BY <1>2, <1>4, <1>5, <1>6 DEF F8959, x, threshold

----------------------------------------------------------------------------
(* Capital gains.                                                          *)

\* What the sold lots of each box and of each term come to.
LEMMA RowGainType ==
  ASSUME NEW lot, TypedLot(lot)
  PROVE  RowGain(lot) \in Int
<1>1. /\ lot.proceeds \in Int /\ lot.basis \in Int /\ lot.wash \in Int /\ lot.other \in Int
  BY DEF TypedLot
<1>2. Adjustment(lot) \in Int
  BY <1>1 DEF Adjustment
<1>3. Rounded(lot.proceeds) \in Int /\ Rounded(lot.basis) \in Int
  BY <1>1, RoundedIsNearest
<1>4. Rounded(Adjustment(lot)) \in Int
  BY <1>2, RoundedIsNearest
<1>5. QED
  BY <1>3, <1>4 DEF RowGain

\* The lots of a box, of a term, and what a list of lots comes to.
InBox(lots, box)   == Where(lots, LAMBDA lot : BoxOf(lot) = box)
OfTerm(lots, term) == Where(lots, LAMBDA lot : TermOf(lot) = term)
LotsGain(lots)     == SumOf(lots, RowGain)
LotsSold(lots)     == SumOf(lots, LAMBDA lot : lot.proceeds)
LotsCost(lots)     == SumOf(lots, LAMBDA lot : lot.basis)

\* However the lots are split, each part is a list of lots.
LEMMA LotsSplit ==
  ASSUME NEW lots, ListOf(lots, TypedLot)
  PROVE  /\ ListOf(Listed(lots), TypedLot) /\ ListOf(Aggregate(lots), TypedLot)
         /\ \A box : ListOf(InBox(lots, box), TypedLot)
         /\ \A term : ListOf(OfTerm(lots, term), TypedLot)
<1>1. \A S : ListOf(Selection(lots, S), TypedLot)
  <2> SUFFICES ASSUME NEW S PROVE ListOf(Selection(lots, S), TypedLot)
    OBVIOUS
  <2>1. IsList(lots)
    BY DEF ListOf
  <2>2. From(Selection(lots, S), lots)
    BY <2>1, SelectedList DEF From
  <2>3. QED
    BY <2>2, FromTyped
<1>2. Listed(lots) = Selection(lots,
        {i \in DOMAIN lots : ~(lots[i].reported /\ ~Adjusted(lots[i]))})
  BY DEF Listed, Where, Selection
<1>3. Aggregate(lots) = Selection(lots,
        {i \in DOMAIN lots : lots[i].reported /\ ~Adjusted(lots[i])})
  BY DEF Aggregate, Where, Selection
<1>4. \A box : InBox(lots, box) = Selection(lots, {i \in DOMAIN lots : BoxOf(lots[i]) = box})
  BY DEF InBox, Where, Selection
<1>5. \A term :
        OfTerm(lots, term) = Selection(lots, {i \in DOMAIN lots : TermOf(lots[i]) = term})
  BY DEF OfTerm, Where, Selection
<1>6. ListOf(Listed(lots), TypedLot) /\ ListOf(Aggregate(lots), TypedLot)
  BY <1>1, <1>2, <1>3
<1>7. \A box : ListOf(InBox(lots, box), TypedLot)
  BY <1>1, <1>4
<1>8. \A term : ListOf(OfTerm(lots, term), TypedLot)
  BY <1>1, <1>5
<1>9. QED
  BY <1>6, <1>7, <1>8

\* Gains, proceeds and basis of a list of lots are whole numbers.
LEMMA LotSums ==
  ASSUME NEW lots, ListOf(lots, TypedLot)
  PROVE  LotsGain(lots) \in Int /\ LotsSold(lots) \in Int /\ LotsCost(lots) \in Int
<1>1. IsList(lots) /\ \A i \in DOMAIN lots : TypedLot(lots[i])
  BY DEF ListOf, IsList
<1>2. \A i \in DOMAIN lots :
        RowGain(lots[i]) \in Int /\ lots[i].proceeds \in Int /\ lots[i].basis \in Int
  BY <1>1, RowGainType DEF TypedLot
<1>3. /\ [i \in DOMAIN lots |-> RowGain(lots[i])] \in [DOMAIN lots -> Int]
      /\ [i \in DOMAIN lots |-> lots[i].proceeds] \in [DOMAIN lots -> Int]
      /\ [i \in DOMAIN lots |-> lots[i].basis] \in [DOMAIN lots -> Int]
  BY <1>2
<1>4. LotsGain(lots) \in Int
  BY <1>1, <1>3, SumListed DEF LotsGain, SumOf
<1>5. LotsSold(lots) \in Int
  BY <1>1, <1>3, SumListed DEF LotsSold, SumOf
<1>6. LotsCost(lots) \in Int
  BY <1>1, <1>3, SumListed DEF LotsCost, SumOf
<1>7. QED
  BY <1>4, <1>5, <1>6

\* The totals Form 8949 hands to Schedule D are whole numbers.
LEMMA F8949Types ==
  ASSUME NEW lots, ListOf(lots, TypedLot)
  PROVE  \A term \in Terms : NetOfTerm(F8949(lots), term) \in Int
<1> DEFINE f == F8949(lots)
           gain(box) == LotsGain(InBox(Listed(lots), box))
           sold(term) == LotsSold(OfTerm(Aggregate(lots), term))
           cost(term) == LotsCost(OfTerm(Aggregate(lots), term))
<1>1. \A box : gain(box) \in Int
  BY LotsSplit, LotSums
<1>2. \A term : sold(term) \in Int /\ cost(term) \in Int
  BY LotsSplit, LotSums
<1>3. /\ f.boxes = [box \in Boxes |-> gain(box)]
      /\ f.aggregate = [term \in Terms |-> Rounded(sold(term)) - Rounded(cost(term))]
  BY DEF F8949, InBox, OfTerm, LotsGain, LotsSold, LotsCost
<1> HIDE DEF f, gain, sold, cost
<1>4. \A box \in Boxes : f.boxes[box] \in Int
  BY <1>1, <1>3
<1>5. \A term \in Terms : f.aggregate[term] \in Int
  <2>1. \A term : Rounded(sold(term)) \in Int /\ Rounded(cost(term)) \in Int
    BY <1>2, RoundedIsNearest
  <2>2. QED
    BY <1>3, <2>1
<1>6. ASSUME NEW term \in Terms PROVE NetOfTerm(f, term) \in Int
  <2> DEFINE b == BoxesOf(term)
             amounts == [i \in DOMAIN b |-> f.boxes[b[i]]]
  <2>1. DOMAIN b = 1 .. 2 /\ b[1] \in Boxes /\ b[2] \in Boxes
    BY DEF BoxesOf, Boxes
  <2> HIDE DEF b
  <2>2. amounts \in [1 .. 2 -> Int]
    <3>1. \A i \in 1 .. 2 : b[i] \in Boxes
      <4>1. \A i \in 1 .. 2 : i = 1 \/ i = 2
        OBVIOUS
      <4>2. QED
        BY <2>1, <4>1
    <3>2. QED
      BY <1>4, <2>1, <3>1
  <2> HIDE DEF amounts
  <2>3. SumSeq(amounts) \in Int
    BY <2>2, SumType
  <2>4. NetOfTerm(f, term) = f.aggregate[term] + SumSeq(amounts)
    BY DEF NetOfTerm, SumOf, amounts, b
  <2>5. QED
    BY <1>5, <2>3, <2>4
<1>7. QED
  BY <1>6 DEF f

\* The capital lines of a return are amounts, and the loss deducted is no
\* more than the limit.
LEMMA ScheduleDTypes ==
  ASSUME NEW line7 \in Int, NEW line15 \in Int, NEW taxable
  PROVE  LET d == ScheduleD(line7, line15, taxable) IN
         /\ d.line7 = line7 /\ d.line15 = line15 /\ d.line16 = line7 + line15
         /\ d.line16 \in Int /\ d.line21 \in Int
         /\ CapitalLine(d) \in Int /\ NetCapitalGain(d) \in Nat
<1> DEFINE d == ScheduleD(line7, line15, taxable)
<1>1. /\ d.line7 = line7 /\ d.line15 = line15 /\ d.line16 = line7 + line15
      /\ d.line21 = AllowedLoss(line7 + line15)
  BY DEF ScheduleD
<1>2. LossLimit \in Nat
  BY LossLimitAssumption
<1>3. AllowedLoss(line7 + line15) \in Int
  BY <1>2 DEF AllowedLoss, Larger
<1> HIDE DEF d
<1>4. d.line16 \in Int /\ d.line21 \in Int
  BY <1>1, <1>3
<1>5. CapitalLine(d) \in Int
  BY <1>4 DEF CapitalLine
<1>6. NetCapitalGain(d) \in Nat
  BY <1>1, <1>4 DEF NetCapitalGain, Positive, Larger, Smaller
<1>7. QED
  BY <1>1, <1>4, <1>5, <1>6 DEF d

\* The lines of Schedule D, of the lots and the dividends of a return.
LEMMA GainsTypes ==
  ASSUME NEW s, TypedScenario(s), NEW taxable
  PROVE  LET g == GainsOf(s, taxable) IN
         /\ g.line7 \in Int /\ g.line15 \in Int
         /\ g = ScheduleD(g.line7, g.line15, taxable)
         /\ g.line16 \in Int /\ g.line21 \in Int
         /\ CapitalLine(g) \in Int /\ NetCapitalGain(g) \in Nat
<1> DEFINE shorts == SumOf(s.k1s, LAMBDA k : k.short)
           longs == SumOf(s.k1s, LAMBDA k : k.long)
           line7 == Line7(F8949(s.lots), shorts)
           line15 == Line15(F8949(s.lots), longs, s.distributions)
           g == GainsOf(s, taxable)
<1>1. /\ IsList(s.k1s) /\ \A i \in DOMAIN s.k1s : TypedK1(s.k1s[i])
      /\ ListOf(s.lots, TypedLot) /\ s.distributions \in Int
  BY DEF TypedScenario, TypedReturn, TypedForms, ListOf, IsList
<1>2. \A i \in DOMAIN s.k1s : s.k1s[i].short \in Int /\ s.k1s[i].long \in Int
  BY <1>1 DEF TypedK1, K1Fanout
<1>3. /\ [i \in DOMAIN s.k1s |-> s.k1s[i].short] \in [DOMAIN s.k1s -> Int]
      /\ [i \in DOMAIN s.k1s |-> s.k1s[i].long] \in [DOMAIN s.k1s -> Int]
  BY <1>2
<1>4. shorts \in Int
  BY <1>1, <1>3, SumListed DEF SumOf
<1>5. longs \in Int
  BY <1>1, <1>3, SumListed DEF SumOf
<1>6. NetOfTerm(F8949(s.lots), "short") \in Int /\ NetOfTerm(F8949(s.lots), "long") \in Int
  BY <1>1, F8949Types DEF Terms
<1> HIDE DEF shorts, longs
<1>7. Rounded(shorts) \in Int /\ Rounded(longs) \in Int /\ Rounded(s.distributions) \in Int
  BY <1>1, <1>4, <1>5, RoundedIsNearest
<1>8. line7 \in Int /\ line15 \in Int
  BY <1>6, <1>7 DEF Line7, Line15
<1>9. g = ScheduleD(line7, line15, taxable)
  BY DEF GainsOf, shorts, longs
<1> HIDE DEF line7, line15, g
<1>10. QED
  BY <1>8, <1>9, ScheduleDTypes DEF g

----------------------------------------------------------------------------
(* Schedule 1 and total income.                                            *)

\* The figures of the income stage, as numbers.
TypedIncome(f) ==
  /\ f.income.wages \in Int /\ f.income.interest \in Int
  /\ f.income.dividends \in Int /\ f.income.qualified \in Int
  /\ f.gains.line7 \in Int /\ f.gains.line15 \in Int
  /\ f.gains.line16 \in Int /\ f.gains.line21 \in Int
  /\ f.sch1.line1 \in Int /\ f.sch1.line3 \in Int /\ f.sch1.line5 \in Int
  /\ f.sch1.line7 \in Int /\ f.sch1.line10 \in Int /\ f.sch1.line15 \in Nat
  /\ f.sch1.line17 \in Int /\ f.sch1.line26 \in Int
  /\ f.preamble.total \in Int /\ f.preamble.agi \in Int /\ f.preamble.netGain \in Nat
  /\ f.medicare.line18 \in Nat /\ f.medicare.line24 \in Nat /\ f.seTax \in Nat

\* Lines 1 to 3 of Form 1040.
LEMMA IncomeOfTypes ==
  ASSUME NEW s, TypedScenario(s)
  PROVE  LET income == IncomeOf(s) IN
         /\ income.wages \in Int /\ income.interest \in Int
         /\ income.dividends \in Int /\ income.qualified \in Int
<1>1. /\ IsList(s.k1s) /\ \A i \in DOMAIN s.k1s : TypedK1(s.k1s[i])
      /\ s.interest \in Seq(Int) /\ s.dividends \in Seq(Int) /\ s.qualified \in Int
  BY DEF TypedScenario, TypedReturn, TypedForms, ListOf, IsList, Amounts
<1>2. \A i \in DOMAIN s.k1s :
        /\ s.k1s[i].interest \in Int /\ s.k1s[i].dividends \in Int /\ s.k1s[i].qualified \in Int
  BY <1>1 DEF TypedK1, K1Fanout
<1> DEFINE interest == [i \in DOMAIN s.k1s |-> s.k1s[i].interest]
           dividends == [i \in DOMAIN s.k1s |-> s.k1s[i].dividends]
           qualified == [i \in DOMAIN s.k1s |-> s.k1s[i].qualified]
<1>3. interest \in Seq(Int) /\ dividends \in Seq(Int) /\ qualified \in Seq(Int)
  <2>1. Len(s.k1s) \in Nat /\ DOMAIN s.k1s = 1 .. Len(s.k1s)
    BY <1>1 DEF IsList
  <2>2. /\ interest \in [1 .. Len(s.k1s) -> Int] /\ dividends \in [1 .. Len(s.k1s) -> Int]
        /\ qualified \in [1 .. Len(s.k1s) -> Int]
    BY <1>2, <2>1
  <2> HIDE DEF interest, dividends, qualified
  <2>3. QED
    BY <2>1, <2>2, MapIsList
<1>4. ASSUME NEW forms \in Seq(Int), NEW additions \in Seq(Int)
      PROVE  LineTotal(forms, additions) \in Int /\ QualifiedTotal(forms, additions) \in Int
  <2> DEFINE a == SumOf(forms, LAMBDA f : f)
             b == SumOf(additions, LAMBDA f : f)
             c == SumOf(additions, Rounded)
  <2>1. a \in Int /\ b \in Int /\ c \in Int
    BY SumsOfAmounts
  <2>2. /\ LineTotal(forms, additions) = Rounded(a) + c
        /\ QualifiedTotal(forms, additions) = Rounded(a) + Rounded(b)
    BY DEF LineTotal, QualifiedTotal, SumOf
  <2> HIDE DEF a, b, c
  <2>3. Rounded(a) \in Int /\ Rounded(b) \in Int
    BY <2>1, RoundedIsNearest
  <2>4. QED
    BY <2>1, <2>2, <2>3
<1>5. <<s.qualified>> \in Seq(Int)
  BY <1>1
<1>6. /\ IncomeOf(s).wages = Wages(s) /\ IncomeOf(s).interest = LineTotal(s.interest, interest)
      /\ IncomeOf(s).dividends = LineTotal(s.dividends, dividends)
      /\ IncomeOf(s).qualified = QualifiedTotal(<<s.qualified>>, qualified)
  BY DEF IncomeOf, K1Amounts
<1> HIDE DEF interest, dividends, qualified
<1>7. QED
  BY <1>1, <1>3, <1>4, <1>5, <1>6, WageTypes

\* Schedule 1.
LEMMA Line8zType ==
  ASSUME NEW s, TypedScenario(s)
  PROVE  Line8z(s.g) \in Int
<1> DEFINE boxes == Boxes8z(s.g)
           S == {i \in DOMAIN boxes : boxes[i] # 0}
           kept == Kept(Len(boxes), S)
<1>1. IsList(s.g) /\ \A i \in DOMAIN s.g : Typed1099G(s.g[i])
  BY DEF TypedScenario, TypedReturn, TypedForms, ListOf, IsList
<1>2. \A n \in 1 .. 4 : SumOf(s.g, LAMBDA f : f.boxes[n]) \in Int
  <2> SUFFICES ASSUME NEW n \in 1 .. 4 PROVE SumOf(s.g, LAMBDA f : f.boxes[n]) \in Int
    OBVIOUS
  <2>1. \A i \in DOMAIN s.g : s.g[i].boxes[n] \in Int
    BY <1>1 DEF Typed1099G
  <2>2. [i \in DOMAIN s.g |-> s.g[i].boxes[n]] \in [DOMAIN s.g -> Int]
    BY <2>1
  <2>3. QED
    BY <1>1, <2>2, SumListed DEF SumOf
<1> DEFINE total(n) == SumOf(s.g, LAMBDA f : f.boxes[n])
<1>3. \A n \in 1 .. 4 : Rounded(total(n)) \in Int
  <2> SUFFICES ASSUME NEW n \in 1 .. 4 PROVE Rounded(total(n)) \in Int
    OBVIOUS
  <2>1. total(n) \in Int
    BY <1>2
  <2> HIDE DEF total
  <2>2. QED
    BY <2>1, RoundedIsNearest
<1>4. boxes = [n \in 1 .. 4 |-> Rounded(total(n))]
  BY DEF Boxes8z
<1> HIDE DEF total, boxes
<1>5. boxes \in [1 .. 4 -> Int]
  BY <1>3, <1>4
<1>6. IsList(boxes) /\ DOMAIN boxes = 1 .. Len(boxes) /\ Len(boxes) = 4
  BY <1>5, MapIsList DEF IsList
<1>7. Rows8z(s.g) = Selection(boxes, S)
  BY DEF Rows8z, Where, Selection, boxes
<1> HIDE DEF S
<1>8. From(Selection(boxes, S), boxes)
  BY <1>6, SelectedList DEF From
<1>9. /\ IsList(Rows8z(s.g))
      /\ \A i \in 1 .. Len(Rows8z(s.g)) : Rows8z(s.g)[i] \in Int
  BY <1>5, <1>6, <1>7, <1>8 DEF From
<1>10. Rows8z(s.g) \in Seq(Int)
  BY <1>9, ListIsSeq
<1>11. Rows8z(s.g) \in [1 .. Len(Rows8z(s.g)) -> Int] /\ Len(Rows8z(s.g)) \in Nat
  BY <1>10
<1>12. QED
  BY <1>11, SumType DEF Line8z

\* The boxes of the Forms 1099-G add up to whole numbers.
LEMMA RefundType ==
  ASSUME NEW s, TypedScenario(s)
  PROVE  /\ SumOf(s.g, LAMBDA f : f.refund) \in Int
         /\ SumOf(s.g, LAMBDA f : f.unemployment) \in Int
<1>1. IsList(s.g) /\ \A i \in DOMAIN s.g : Typed1099G(s.g[i])
  BY DEF TypedScenario, TypedReturn, TypedForms, ListOf, IsList
<1>2. \A i \in DOMAIN s.g : s.g[i].refund \in Int /\ s.g[i].unemployment \in Int
  BY <1>1 DEF Typed1099G
<1>3. /\ [i \in DOMAIN s.g |-> s.g[i].refund] \in [DOMAIN s.g -> Int]
      /\ [i \in DOMAIN s.g |-> s.g[i].unemployment] \in [DOMAIN s.g -> Int]
  BY <1>2
<1>4. SumOf(s.g, LAMBDA f : f.refund) \in Int
  BY <1>1, <1>3, SumListed DEF SumOf
<1>5. SumOf(s.g, LAMBDA f : f.unemployment) \in Int
  BY <1>1, <1>3, SumListed DEF SumOf
<1>6. QED
  BY <1>4, <1>5

\* What a return says of the prior year is an amount, or nothing.
LEMMA PriorAmounts ==
  ASSUME NEW s, TypedScenario(s)
  PROVE  /\ OrZero(s.prior.paid) \in Int /\ OrZero(s.prior.deduction) \in Int
         /\ OrZero(s.prior.standard) \in Int
         /\ s.config.status \in DOMAIN View /\ View[s.config.status].priorSaltCap \in Nat
<1>1. TypedPrior(s.prior)
  BY DEF TypedScenario, TypedReturn, TypedForms
<1>2. s.config.status \in DOMAIN View
  BY TablesAssumption DEF TypedScenario
<1>3. QED
  BY <1>1, <1>2, FederalFormsAssumption DEF TypedPrior, OrZero, Optional, ViewAmounts

\* The part of a state refund that is taxed is a whole number.
LEMMA TaxableRefundType ==
  ASSUME NEW s, TypedScenario(s), NEW refund \in Int, NEW cap \in Nat
  PROVE  TaxableRefund(refund, s.prior, cap) \in Int
<1> DEFINE paid == OrZero(s.prior.paid)
           kept == Smaller(paid, 100 * cap) - Smaller(Positive(paid - refund), 100 * cap)
           recovered == Recovery(s.prior)
           taxed == Smaller(refund, Smaller(recovered, Positive(kept)))
<1>1. paid \in Int /\ recovered \in Int
  BY PriorAmounts DEF Recovery, Positive, Larger
<1>2. TaxableRefund(refund, s.prior, cap)
        = IF ~s.prior.itemized \/ refund = 0 THEN 0 ELSE Rounded(taxed)
  BY DEF TaxableRefund
<1> HIDE DEF paid, recovered
<1>3. kept \in Int
  BY <1>1 DEF Smaller, Positive, Larger
<1> HIDE DEF kept
<1>4. taxed \in Int
  BY <1>1, <1>3 DEF Smaller, Positive, Larger
<1> HIDE DEF taxed
<1>5. Rounded(taxed) \in Int
  BY <1>4, RoundedIsNearest
<1>6. QED
  BY <1>2, <1>5

\* The lines of Schedule 1, and the forms they come from.
LEMMA Schedule1Types ==
  ASSUME NEW s, TypedScenario(s)
  PROVE  LET sch1 == Schedule1Of(s) IN
         /\ sch1.line1 = TaxableRefund(SumOf(s.g, LAMBDA f : f.refund), s.prior,
                                      View[s.config.status].priorSaltCap)
         /\ sch1.line1 \in Int
         /\ sch1.line3 = BusinessIncome(s.businesses) /\ sch1.line3 \in Int
         /\ sch1.line5 = Line41(PartI(s.rentals), PartII(s.k1s)) /\ sch1.line5 \in Int
         /\ sch1.line7 \in Int /\ sch1.line10 \in Int
         /\ sch1.line15 = HalfOf(s) /\ sch1.line15 \in Nat
         /\ sch1.line17 = Rounded(s.health) /\ sch1.line17 \in Int /\ sch1.line26 \in Int
<1> DEFINE sch1 == Schedule1Of(s)
           refund == SumOf(s.g, LAMBDA f : f.refund)
           paid == SumOf(s.g, LAMBDA f : f.unemployment)
           cap == View[s.config.status].priorSaltCap
<1>1. refund \in Int /\ paid \in Int
  BY RefundType
<1>2. /\ sch1.line1 = TaxableRefund(refund, s.prior, cap)
      /\ sch1.line3 = BusinessIncome(s.businesses)
      /\ sch1.line5 = Line41(PartI(s.rentals), PartII(s.k1s))
      /\ sch1.line7 = Rounded(paid)
      /\ sch1.line10 = sch1.line1 + sch1.line3 + sch1.line5 + sch1.line7 + Line8z(s.g)
      /\ sch1.line15 = HalfOf(s) /\ sch1.line17 = Rounded(s.health)
      /\ sch1.line26 = HalfOf(s) + Rounded(s.health)
  BY DEF Schedule1Of, Schedule1
<1>3. s.health \in Int /\ TypedActivities(s) /\ ListOf(s.k1s, TypedK1)
  BY DEF TypedScenario, TypedReturn, TypedForms
<1>4. BusinessIncome(s.businesses) \in Int
  BY <1>3, BusinessTypes DEF TypedActivities
<1>5. Line41(PartI(s.rentals), PartII(s.k1s)) \in Int
  <2>1. PartI(s.rentals).line26 \in Int
    BY <1>3, PartITypes DEF TypedActivities
  <2>2. PartII(s.k1s).line32 \in Int
    BY <1>3, PartIITypes
  <2>3. QED
    BY <2>1, <2>2 DEF Line41
<1> HIDE DEF sch1, refund, paid
<1>6. TaxableRefund(refund, s.prior, cap) \in Int
  BY <1>1, PriorAmounts, TaxableRefundType
<1>7. Rounded(paid) \in Int /\ Rounded(s.health) \in Int
  BY <1>1, <1>3, RoundedIsNearest
<1>8. HalfOf(s) \in Nat
  BY <1>4, WageTypes, SETypes DEF HalfOf
<1>9. Line8z(s.g) \in Int
  BY Line8zType
<1>10. QED
  BY <1>2, <1>4, <1>5, <1>6, <1>7, <1>8, <1>9 DEF sch1, refund

\* The income stage.
LEMMA IncomeTypes ==
  ASSUME NEW s, TypedScenario(s)
  PROVE  TypedIncome(IncomeFigures(s))
<1> DEFINE f == IncomeFigures(s)
           income == IncomeOf(s)
           gains == GainsOf(s, None)
           sch1 == Schedule1Of(s)
<1>1. /\ f.income = income /\ f.gains = gains /\ f.sch1 = sch1
      /\ f.preamble = Preamble(income, gains, sch1) /\ f.medicare = MedicareOf(s)
      /\ f.seTax = SETax(BusinessIncome(s.businesses), Wages(s))
  BY DEF IncomeFigures
<1>2. /\ income.wages \in Int /\ income.interest \in Int
      /\ income.dividends \in Int /\ income.qualified \in Int
  BY IncomeOfTypes
<1>3. /\ gains.line7 \in Int /\ gains.line15 \in Int /\ gains.line16 \in Int
      /\ gains.line21 \in Int /\ CapitalLine(gains) \in Int /\ NetCapitalGain(gains) \in Nat
  BY GainsTypes
<1>4. /\ sch1.line1 \in Int /\ sch1.line3 \in Int /\ sch1.line5 \in Int
      /\ sch1.line7 \in Int /\ sch1.line10 \in Int /\ sch1.line15 \in Nat
      /\ sch1.line17 \in Int /\ sch1.line26 \in Int
  BY Schedule1Types
<1>5. BusinessIncome(s.businesses) \in Int /\ Wages(s) \in Int
  BY BusinessTypes, WageTypes DEF TypedScenario, TypedReturn, TypedActivities
<1>6. SETax(BusinessIncome(s.businesses), Wages(s)) \in Nat
  BY <1>5, SETypes
<1>7. MedicareOf(s).line18 \in Nat /\ MedicareOf(s).line24 \in Nat
  <2>1. s.config.status \in DOMAIN MedicareThreshold
    BY TablesAssumption DEF TypedScenario
  <2> DEFINE total == Total(s, LAMBDA w : w.medicare)
  <2>2. total \in Int
    BY WageTypes
  <2>3. MedicareOf(s) = F8959(Wages(s), Rounded(total), BusinessIncome(s.businesses),
                              s.config.status)
    BY DEF MedicareOf
  <2> HIDE DEF total
  <2>4. Rounded(total) \in Int
    BY <2>2, RoundedIsNearest
  <2>5. QED
    BY <1>5, <2>1, <2>3, <2>4, MedicareTypes
<1> HIDE DEF f, income, gains, sch1
<1>8. /\ f.preamble.total = income.wages + income.interest + income.dividends
                              + CapitalLine(gains) + sch1.line10
      /\ f.preamble.agi = f.preamble.total - sch1.line26
      /\ f.preamble.netGain = NetCapitalGain(gains)
  BY <1>1 DEF Preamble
<1>9. f.preamble.total \in Int /\ f.preamble.agi \in Int /\ f.preamble.netGain \in Nat
  BY <1>2, <1>3, <1>4, <1>8
<1>10. TypedIncome(f)
  BY <1>1, <1>2, <1>3, <1>4, <1>6, <1>7, <1>9 DEF TypedIncome
<1>11. QED
  BY <1>10 DEF f

----------------------------------------------------------------------------
(* Tax.                                                                    *)

\* The greatest of numbers up to a bound, and the least of naturals.
LEMMA GreatestIs ==
  ASSUME NEW n \in Nat, NEW T, T \subseteq 0 .. n, T # {}
  PROVE  Max(T) \in T /\ \A k \in T : k <= Max(T)
<1> DEFINE below == {n - k : k \in T}
<1>1. below \subseteq Nat /\ below # {}
  <2>1. \A k \in T : k \in 0 .. n /\ n - k \in Nat
    OBVIOUS
  <2>2. below \subseteq Nat
    BY <2>1
  <2>3. PICK k \in T : TRUE
    OBVIOUS
  <2>4. n - k \in below
    BY <2>3
  <2>5. QED
    BY <2>2, <2>4
<1>2. PICK m \in below : \A k \in below : m <= k
  <2> HIDE DEF below
  <2>1. QED
    BY <1>1, Smallest
<1>3. PICK g \in T : m = n - g
  OBVIOUS
<1>4. \A k \in T : g >= k
  <2>1. \A k \in T : n - g <= n - k
    BY <1>2, <1>3
  <2>2. QED
    BY <2>1
<1>5. \E x \in T : \A y \in T : x >= y
  BY <1>4
<1>6. Max(T) \in T /\ \A k \in T : Max(T) >= k
  BY <1>5 DEF Max
<1>7. QED
  BY <1>6

\* Min of a set of natural numbers is its least member.
LEMMA LeastIs ==
  ASSUME NEW T, T \subseteq Nat, T # {}
  PROVE  Min(T) \in T /\ \A k \in T : Min(T) <= k
<1>1. \E x \in T : \A y \in T : x =< y
  BY Smallest
<1>2. QED
  BY <1>1 DEF Min

\* The tax of a taxable income is never negative: table and schedule.
LEMMA TableTaxType ==
  ASSUME NEW status \in DOMAIN View, NEW taxable \in Nat
  PROVE  TableTax(taxable, View[status].table) \in Nat
<1> DEFINE table == View[status].table
           reached == {i \in DOMAIN table : table[i].lower <= taxable}
<1>1. /\ Len(table) \in Nat \ {0} /\ DOMAIN table = 1 .. Len(table) /\ table[1].lower = 0
      /\ \A i \in DOMAIN table : table[i].tax \in Nat
  BY FederalFormsAssumption
<1> HIDE DEF table
<1>2. reached \subseteq 0 .. Len(table) /\ 1 \in reached
  BY <1>1
<1>3. Max(reached) \in reached
  <2> HIDE DEF reached
  <2>1. reached # {} /\ Len(table) \in Nat
    BY <1>1, <1>2
  <2>2. QED
    BY <1>2, <2>1, GreatestIs
<1>4. TableTax(taxable, View[status].table) = table[Max(reached)].tax
  BY DEF TableTax, table
<1> HIDE DEF reached
<1>5. Max(reached) \in DOMAIN table
  BY <1>3 DEF reached
<1>6. QED
  BY <1>1, <1>4, <1>5

\* The tax by the rate schedules is a natural number.
LEMMA ScheduleTaxType ==
  ASSUME NEW status \in DOMAIN View, NEW taxable \in Nat
  PROVE  ScheduleTax(taxable, View[status].brackets) \in Nat
<1> DEFINE brackets == View[status].brackets
           lower(i) == IF i = 1 THEN 0 ELSE brackets[i - 1][1]
           slice(i) == Positive(Smaller(taxable, brackets[i][1]) - lower(i))
           slices == [i \in DOMAIN brackets |-> slice(i) * brackets[i][2]]
<1>1. /\ Len(brackets) \in Nat /\ DOMAIN brackets = 1 .. Len(brackets)
      /\ \A i \in DOMAIN brackets : brackets[i][1] \in Nat /\ brackets[i][2] \in Nat
  BY FederalFormsAssumption
<1> HIDE DEF brackets
<1>2. \A i \in DOMAIN brackets : slice(i) \in Nat
  <2>1. SUFFICES ASSUME NEW i \in DOMAIN brackets PROVE slice(i) \in Nat
    OBVIOUS
  <2>2. brackets[i][1] \in Nat /\ lower(i) \in Int
    BY <1>1
  <2> HIDE DEF lower
  <2>3. Smaller(taxable, brackets[i][1]) - lower(i) \in Int
    <3>1. Smaller(taxable, brackets[i][1]) \in Int
      BY <2>2 DEF Smaller
    <3>2. QED
      BY <2>2, <3>1
  <2>4. QED
    BY <2>3, LargerTypes
<1> HIDE DEF slice
<1>3. \A x, y \in Nat : x * y \in Nat
  OBVIOUS
<1>4. slices \in [1 .. Len(brackets) -> Nat]
  BY <1>1, <1>2, <1>3
<1> HIDE DEF slices
<1>5. SumSeq(slices) \in Nat
  BY <1>1, <1>4, SumNatural
<1>6. ScheduleTax(taxable, View[status].brackets) = Rounded(SumSeq(slices))
  BY DEF ScheduleTax, slices, slice, brackets
<1>7. QED
  BY <1>5, <1>6, RoundedNatural

\* Line 16 without preferential rates is a natural number.
LEMMA OrdinaryTaxType ==
  ASSUME NEW status \in DOMAIN View, NEW taxable \in Int
  PROVE  OrdinaryTax(taxable, status) \in Nat
<1>1. CASE taxable <= 0
  BY <1>1 DEF OrdinaryTax
<1>2. CASE ~(taxable <= 0)
  <2>1. taxable \in Nat
    BY <1>2
  <2>2. QED
    BY <1>2, <2>1, TableTaxType, ScheduleTaxType DEF OrdinaryTax
<1>3. QED
  BY <1>1, <1>2

\* The worksheet for qualified dividends and capital gains splits a taxable
\* income into parts, none of them negative.
LEMMA QDCGTTaxType ==
  ASSUME NEW status \in DOMAIN View, NEW taxable \in Nat, NEW qualified \in Int,
         NEW netGain \in Int
  PROVE  QDCGTTax(taxable, qualified, netGain, status) \in Nat
<1> DEFINE preferential == Positive(Smaller(qualified + netGain, taxable))
           ordinary == taxable - preferential
           zeroTop == View[status].zeroTop
           fifteenTop == View[status].fifteenTop
           atZero == Positive(Smaller(taxable, zeroTop) - ordinary)
           at15 == Smaller(Positive(Smaller(taxable, fifteenTop)
                                      - Larger(ordinary, zeroTop)),
                           preferential - atZero)
           at20 == preferential - atZero - at15
           tax == OrdinaryTax(ordinary, status)
           most == OrdinaryTax(taxable, status)
<1>1. zeroTop \in Nat /\ fifteenTop \in Nat
  BY FederalFormsAssumption DEF ViewAmounts
<1>2. QDCGTTax(taxable, qualified, netGain, status)
        = Smaller(tax + Rounded(15 * at15) + Rounded(20 * at20), most)
  BY DEF QDCGTTax
<1> HIDE DEF zeroTop, fifteenTop
<1>3. preferential \in Nat /\ preferential <= taxable
  BY DEF Positive, Smaller, Larger
<1> HIDE DEF preferential
<1>4. ordinary \in Nat /\ ordinary = taxable - preferential
  BY <1>3
<1> HIDE DEF ordinary
<1>5. atZero \in Nat /\ atZero <= preferential
  BY <1>1, <1>3, <1>4 DEF Positive, Smaller, Larger
<1> HIDE DEF atZero
<1>6. at15 \in Nat /\ at15 <= preferential - atZero
  BY <1>1, <1>3, <1>4, <1>5 DEF Positive, Smaller, Larger
<1> HIDE DEF at15
<1>7. at20 \in Nat
  BY <1>3, <1>5, <1>6
<1>8. tax \in Nat /\ most \in Nat
  BY <1>4, OrdinaryTaxType
<1> HIDE DEF at20, tax, most
<1>9. Rounded(15 * at15) \in Nat /\ Rounded(20 * at20) \in Nat
  BY <1>6, <1>7, RoundedNatural
<1>10. QED
  BY <1>2, <1>8, <1>9 DEF Smaller

\* Form 8962: an applicable figure, a contribution and a repayment cap.
LEMMA ApplicableFigureType ==
  ASSUME NEW percent \in Int
  PROVE  ApplicableFigure(percent) \in Nat
<1> DEFINE below == {k \in DOMAIN Figures : k <= percent}
<1>1. /\ DOMAIN Figures \subseteq Nat /\ DOMAIN Figures # {}
      /\ \A k \in DOMAIN Figures : Figures[k] \in Nat
  BY CreditsAssumption
<1>2. CASE below = {}
  <2>1. Min(DOMAIN Figures) \in DOMAIN Figures
    BY <1>1, LeastIs
  <2>2. ApplicableFigure(percent) = Figures[Min(DOMAIN Figures)]
    BY <1>2 DEF ApplicableFigure
  <2>3. QED
    BY <1>1, <2>1, <2>2
<1>3. CASE below # {}
  <2>1. percent \in Nat /\ below \subseteq 0 .. percent
    BY <1>1, <1>3
  <2>2. Max(below) \in below
    <3> HIDE DEF below
    <3>1. QED
      BY <1>3, <2>1, GreatestIs
  <2>3. ApplicableFigure(percent) = Figures[Max(below)]
    BY <1>3 DEF ApplicableFigure
  <2> HIDE DEF below
  <2>4. Max(below) \in DOMAIN Figures
    BY <2>2 DEF below
  <2>5. QED
    BY <1>1, <2>3, <2>4
<1>4. QED
  BY <1>2, <1>3

\* The limit on the repayment of Form 8962 is an amount, or there is none.
LEMMA RepaymentCapType ==
  ASSUME NEW percent \in Int
  PROVE  RepaymentCap(percent) = None \/ RepaymentCap(percent) \in Nat
<1> DEFINE bands == {i \in DOMAIN RepaymentCaps : RepaymentCaps[i][1] > percent}
<1>1. /\ DOMAIN RepaymentCaps = 1 .. Len(RepaymentCaps) /\ Len(RepaymentCaps) \in Nat
      /\ \A i \in DOMAIN RepaymentCaps : RepaymentCaps[i][2] \in Nat
  BY CreditsAssumption
<1>2. CASE bands # {}
  <2>1. bands \subseteq Nat
    BY <1>1
  <2>2. Min(bands) \in bands
    <3> HIDE DEF bands
    <3>1. QED
      BY <1>2, <2>1, LeastIs
  <2>3. RepaymentCap(percent) = RepaymentCaps[Min(bands)][2]
    BY <1>2 DEF RepaymentCap
  <2> HIDE DEF bands
  <2>4. Min(bands) \in DOMAIN RepaymentCaps
    BY <2>2 DEF bands
  <2>5. QED
    BY <1>1, <2>3, <2>4
<1>3. QED
  BY <1>2 DEF RepaymentCap

----------------------------------------------------------------------------
(* Credits.                                                                *)

\* The months of a Form 1095-A add up.
LEMMA MonthSums ==
  ASSUME NEW block, block # None, TypedBlock(block), NEW line8b \in Int
  PROVE  /\ SumOf(block.months, LAMBDA m : Rounded(m.premium)) \in Int
         /\ SumOf(block.months, LAMBDA m : Rounded(m.slcsp)) \in Int
         /\ SumOf(block.months, LAMBDA m : Rounded(m.advance)) \in Int
         /\ SumOf(block.months, LAMBDA m : MonthCredit(m, line8b)) \in Int
         /\ SumOf(block.months, LAMBDA m : m.premium) \in Int
<1> DEFINE x == block.months
<1>1. IsList(x) /\ \A i \in DOMAIN x : TypedMonth(x[i])
  BY DEF TypedBlock, ListOf, IsList
<1>2. \A i \in DOMAIN x : x[i].premium \in Int /\ x[i].slcsp \in Int /\ x[i].advance \in Int
  BY <1>1 DEF TypedMonth
<1>3. \A i \in DOMAIN x : /\ Rounded(x[i].premium) \in Int /\ Rounded(x[i].slcsp) \in Int
                          /\ Rounded(x[i].advance) \in Int
  BY <1>2, RoundedIsNearest
<1>4. \A i \in DOMAIN x : MonthCredit(x[i], line8b) \in Int
  <2>1. SUFFICES ASSUME NEW i \in DOMAIN x PROVE MonthCredit(x[i], line8b) \in Int
    OBVIOUS
  <2> DEFINE credit == Smaller(x[i].premium, Positive(x[i].slcsp - 100 * line8b))
  <2>2. credit \in Int
    BY <1>2 DEF Smaller, Positive, Larger
  <2>3. MonthCredit(x[i], line8b) = Rounded(credit)
    BY DEF MonthCredit
  <2> HIDE DEF credit
  <2>4. QED
    BY <2>2, <2>3, RoundedIsNearest
<1>5. /\ [i \in DOMAIN x |-> Rounded(x[i].premium)] \in [DOMAIN x -> Int]
      /\ [i \in DOMAIN x |-> Rounded(x[i].slcsp)] \in [DOMAIN x -> Int]
      /\ [i \in DOMAIN x |-> Rounded(x[i].advance)] \in [DOMAIN x -> Int]
      /\ [i \in DOMAIN x |-> MonthCredit(x[i], line8b)] \in [DOMAIN x -> Int]
      /\ [i \in DOMAIN x |-> x[i].premium] \in [DOMAIN x -> Int]
  BY <1>2, <1>3, <1>4
<1>6. SumOf(x, LAMBDA m : Rounded(m.premium)) \in Int
  BY <1>1, <1>5, SumListed DEF SumOf
<1>7. SumOf(x, LAMBDA m : Rounded(m.slcsp)) \in Int
  BY <1>1, <1>5, SumListed DEF SumOf
<1>8. SumOf(x, LAMBDA m : Rounded(m.advance)) \in Int
  BY <1>1, <1>5, SumListed DEF SumOf
<1>9. SumOf(x, LAMBDA m : MonthCredit(m, line8b)) \in Int
  BY <1>1, <1>5, SumListed DEF SumOf
<1>10. SumOf(x, LAMBDA m : m.premium) \in Int
  BY <1>1, <1>5, SumListed DEF SumOf
<1>11. QED
  BY <1>6, <1>7, <1>8, <1>9, <1>10

\* A household's expected contribution, of the year and of a month, and the
\* cap of what it may have to repay.
LEMMA ContributionTypes ==
  ASSUME NEW block, NEW magi \in Int, NEW config
  PROVE  LET percent == Percentage(block, magi, PovertyLine[FamilySize(config)])
             line8a == Contribution(magi, percent)
         IN /\ line8a \in Int /\ MonthlyContribution(line8a) \in Int
            /\ RepaymentCap(percent) = None \/ RepaymentCap(percent) \in Nat
<1> DEFINE poverty == PovertyLine[FamilySize(config)]
           percent == Percentage(block, magi, poverty)
           line8a == Contribution(magi, percent)
<1>1. poverty \in Nat \ {0}
  BY CreditsAssumption DEF FamilySize
<1>2. percent \in Int
  <2> HIDE DEF poverty
  <2>1. (magi * 100) \div poverty \in Int
    BY <1>1
  <2>2. QED
    BY <2>1 DEF Percentage
<1> HIDE DEF percent, poverty
<1>3. line8a \in Int
  <2>1. ApplicableFigure(percent) \in Nat
    BY <1>2, ApplicableFigureType
  <2>2. \A x \in Int, y \in Nat : x * y \in Int
    OBVIOUS
  <2>3. magi * ApplicableFigure(percent) \in Int
    BY <2>1, <2>2
  <2>4. (magi * ApplicableFigure(percent) + (IF magi >= 0 THEN 50 ELSE -50)) \div 100 \in Int
    BY <2>3
  <2>5. QED
    BY <2>4, RoundedIsNearest DEF Contribution
<1>4. RepaymentCap(percent) = None \/ RepaymentCap(percent) \in Nat
  BY <1>2, RepaymentCapType
<1> HIDE DEF line8a
<1>5. MonthlyContribution(line8a) \in Int
  BY <1>3 DEF MonthlyContribution
<1>6. QED
  BY <1>3, <1>4, <1>5 DEF line8a, percent, poverty

\* Form 8962.
LEMMA CreditTypes ==
  ASSUME NEW block, block # None, TypedBlock(block), NEW magi \in Int, NEW config
  PROVE  LET c == F8962(block, magi, config) IN
         /\ c.line24 \in Int /\ c.line26 \in Nat /\ c.line29 \in Nat
<1> DEFINE poverty == PovertyLine[FamilySize(config)]
           percent == Percentage(block, magi, poverty)
           line8a == Contribution(magi, percent)
           line8b == MonthlyContribution(line8a)
           whole == SumOf(block.months, LAMBDA m : Rounded(m.premium))
           least == SumOf(block.months, LAMBDA m : Rounded(m.slcsp))
           monthly == SumOf(block.months, LAMBDA m : MonthCredit(m, line8b))
           line24 == IF Annual(block.months)
                     THEN Smaller(whole, Positive(least - line8a)) ELSE monthly
           line25 == SumOf(block.months, LAMBDA m : Rounded(m.advance))
           excess == Positive(line25 - line24)
           cap == RepaymentCap(percent)
<1>1. /\ F8962(block, magi, config).line24 = line24
      /\ F8962(block, magi, config).line26 = Positive(line24 - line25)
      /\ F8962(block, magi, config).line29 = IF cap = None THEN excess ELSE Smaller(excess, cap)
  BY DEF F8962, YearCredit
<1>2. line8a \in Int /\ line8b \in Int /\ (cap = None \/ cap \in Nat)
  BY ContributionTypes
<1>3. line8b \in Int
  BY <1>2
<1> HIDE DEF percent, poverty, line8a, line8b
<1>4. whole \in Int /\ least \in Int /\ monthly \in Int /\ line25 \in Int
  BY <1>3, MonthSums
<1> HIDE DEF whole, least, monthly, line25
<1>5. line24 \in Int
  BY <1>2, <1>4 DEF Smaller, Positive, Larger
<1> HIDE DEF line24
<1>6. excess \in Nat /\ Positive(line24 - line25) \in Nat
  BY <1>4, <1>5, LargerTypes
<1> HIDE DEF excess, cap
<1>7. cap = None \/ cap \in Nat
  BY <1>2 DEF cap
<1>8. QED
  BY <1>1, <1>5, <1>6, <1>7 DEF Smaller

\* The greater the income, the greater its percentage of the poverty line,
\* and the share of it that is expected of the household.
LEMMA FiguresGrow ==
  ASSUME NEW p \in Int, NEW q \in Int, p <= q
  PROVE  ApplicableFigure(p) <= ApplicableFigure(q)
<1> DEFINE below(x) == {k \in DOMAIN Figures : k <= x}
           least == Min(DOMAIN Figures)
           at(x) == IF below(x) = {} THEN least ELSE Max(below(x))
<1>1. /\ DOMAIN Figures \subseteq Nat /\ DOMAIN Figures # {}
      /\ \A k \in DOMAIN Figures : Figures[k] \in Nat
  BY CreditsAssumption
<1>2. least \in DOMAIN Figures /\ \A k \in DOMAIN Figures : least <= k
  BY <1>1, LeastIs
<1> HIDE DEF least
<1>3. ASSUME NEW x \in Int, below(x) # {}
      PROVE  Max(below(x)) \in below(x) /\ \A k \in below(x) : k <= Max(below(x))
  <2> DEFINE set == below(x)
  <2>1. x \in Nat /\ set \subseteq 0 .. x /\ set # {}
    BY <1>1, <1>3
  <2> HIDE DEF set
  <2>2. Max(set) \in set /\ \A k \in set : k <= Max(set)
    BY <2>1, GreatestIs
  <2>3. QED
    BY <2>2 DEF set
<1>4. at(p) \in DOMAIN Figures /\ at(q) \in DOMAIN Figures /\ at(p) <= at(q)
  <2>1. CASE below(p) = {}
    <3>1. at(p) = least
      BY <2>1
    <3>2. at(q) \in DOMAIN Figures
      <4>1. CASE below(q) = {}
        BY <1>2, <4>1
      <4>2. CASE below(q) # {}
        <5>1. Max(below(q)) \in below(q)
          BY <1>3, <4>2
        <5>2. at(q) = Max(below(q))
          BY <4>2
        <5> HIDE DEF at
        <5>3. QED
          BY <5>1, <5>2
      <4>3. QED
        BY <4>1, <4>2
    <3> HIDE DEF at
    <3>3. QED
      BY <1>2, <3>1, <3>2
  <2>2. CASE below(p) # {}
    <3>1. below(p) \subseteq below(q)
      BY <1>1
    <3>2. below(q) # {}
      BY <2>2, <3>1
    <3>3. at(p) = Max(below(p)) /\ at(q) = Max(below(q))
      BY <2>2, <3>2
    <3>4. Max(below(p)) \in below(p)
      BY <1>3, <2>2
    <3>5. Max(below(q)) \in below(q) /\ \A k \in below(q) : k <= Max(below(q))
      BY <1>3, <3>2
    <3> HIDE DEF at
    <3>6. Max(below(p)) \in below(q)
      BY <3>1, <3>4
    <3>7. Max(below(p)) <= Max(below(q))
      BY <3>5, <3>6
    <3>8. QED
      BY <3>3, <3>4, <3>5, <3>7
  <2>3. QED
    BY <2>1, <2>2
<1>5. ApplicableFigure(p) = Figures[at(p)] /\ ApplicableFigure(q) = Figures[at(q)]
  BY DEF ApplicableFigure, least
<1> HIDE DEF at
<1>6. QED
  BY <1>4, <1>5, FiguresAssumption

LEMMA PercentageGrows ==
  ASSUME NEW block, NEW lo \in Int, NEW hi \in Int, lo <= hi,
         NEW poverty \in Nat \ {0}
  PROVE  LET p == Percentage(block, lo, poverty)
             q == Percentage(block, hi, poverty)
         IN /\ p \in Int /\ q \in Int /\ p <= q
            /\ hi < 0 => p = q \/ (p < 0 /\ q < 0)
<1> DEFINE u == (lo * 100) \div poverty
           v == (hi * 100) \div poverty
<1>1. u \in Int /\ v \in Int /\ u <= v
  <2>1. \A x, y \in Int : x <= y => x \div poverty <= y \div poverty
    <3> SUFFICES ASSUME NEW x \in Int, NEW y \in Int, x <= y
                 PROVE  x \div poverty <= y \div poverty
      OBVIOUS
    <3> DEFINE a == x \div poverty
               b == y \div poverty
    <3>1. a \in Int /\ b \in Int
      OBVIOUS
    <3>2. x >= poverty * a /\ y < poverty * b + poverty
      OBVIOUS
    <3> HIDE DEF a, b
    <3>3. CASE a > b
      <4>1. a >= b + 1
        BY <3>1, <3>3
      <4>2. poverty * a >= poverty * (b + 1)
        BY <3>1, <4>1
      <4>3. poverty * (b + 1) = poverty * b + poverty
        BY <3>1
      <4>4. \A g, h, k \in Int : x >= g /\ g >= h /\ h = k /\ y < k => x > y
        OBVIOUS
      <4>5. poverty * a \in Int /\ poverty * (b + 1) \in Int /\ poverty * b + poverty \in Int
        BY <3>1
      <4>6. x > y
        BY <3>2, <4>2, <4>3, <4>4, <4>5
      <4>7. QED
        BY <4>6
    <3>4. QED
      BY <3>1, <3>3 DEF a, b
  <2>2. lo * 100 \in Int /\ hi * 100 \in Int /\ lo * 100 <= hi * 100
    OBVIOUS
  <2>3. QED
    BY <2>1, <2>2
<1>2. ~(lo > 4 * poverty) => u <= 400
  <2>1. ASSUME lo <= 4 * poverty PROVE u <= 400
    <3>1. lo * 100 <= 400 * poverty
      BY <2>1
    <3>2. poverty * u <= lo * 100 /\ u \in Int
      OBVIOUS
    <3> HIDE DEF u
    <3>3. CASE u > 400
      <4>1. poverty * u >= poverty * 401
        BY <3>2, <3>3
      <4>2. poverty * u \in Int
        BY <3>2
      <4>3. QED
        BY <3>1, <3>2, <4>1, <4>2
    <3>4. QED
      BY <3>2, <3>3
  <2>2. QED
    BY <2>1
<1>3. hi < 0 => u < 0 /\ v < 0
  <2>1. \A x \in Int : x < 0 => x \div poverty < 0
    OBVIOUS
  <2>2. hi < 0 => lo * 100 \in Int /\ hi * 100 \in Int /\ lo * 100 < 0 /\ hi * 100 < 0
    OBVIOUS
  <2>3. QED
    BY <2>1, <2>2
<1>4. hi < 0 => ~(lo > 4 * poverty) /\ ~(hi > 4 * poverty)
  OBVIOUS
<1>5. lo > 4 * poverty => hi > 4 * poverty
  OBVIOUS
<1> DEFINE fixed == block.unemployment /\ UnemploymentRule
           over(m, x) == IF BoundaryInclusive THEN x >= 400 ELSE m > 4 * poverty
           at(m, x) == IF fixed THEN 133 ELSE IF over(m, x) THEN 401 ELSE x
<1>6. Percentage(block, lo, poverty) = at(lo, u) /\ Percentage(block, hi, poverty) = at(hi, v)
  BY DEF Percentage
<1> HIDE DEF u, v, fixed
<1>7. at(lo, u) \in Int /\ at(hi, v) \in Int /\ at(lo, u) <= at(hi, v)
  BY <1>1, <1>2, <1>5
<1>8. hi < 0 => at(lo, u) = at(hi, v) \/ (at(lo, u) < 0 /\ at(hi, v) < 0)
  BY <1>1, <1>3, <1>4
<1> HIDE DEF at
<1>9. QED
  BY <1>6, <1>7, <1>8

\* Rounding keeps the order of two amounts.
LEMMA RoundedGrows ==
  ASSUME NEW a \in Int, NEW b \in Int, a <= b
  PROVE  Rounded(a) <= Rounded(b)
BY SMT DEF Rounded

\* The contribution expected of a household grows with its income: a negative
\* income is below every step of the table, and has the first figure.
LEMMA ContributionGrows ==
  ASSUME NEW block, NEW lo \in Int, NEW hi \in Int, lo <= hi,
         NEW poverty \in Nat \ {0}
  PROVE  LET a == Contribution(lo, Percentage(block, lo, poverty))
             b == Contribution(hi, Percentage(block, hi, poverty))
         IN a \in Int /\ b \in Int /\ a <= b
<1> DEFINE p == Percentage(block, lo, poverty)
           q == Percentage(block, hi, poverty)
           f == ApplicableFigure(p)
           g == ApplicableFigure(q)
<1>1. /\ p \in Int /\ q \in Int /\ p <= q
      /\ hi < 0 => p = q \/ (p < 0 /\ q < 0)
  BY PercentageGrows
<1> HIDE DEF p, q
<1>2. f \in Nat /\ g \in Nat /\ f <= g
  BY <1>1, FiguresGrow, ApplicableFigureType
<1>3. hi < 0 => f = g
  <2>1. CASE p = q
    BY <2>1
  <2>2. CASE p < 0 /\ q < 0
    <3>1. {k \in DOMAIN Figures : k <= p} = {} /\ {k \in DOMAIN Figures : k <= q} = {}
      BY <1>1, <2>2, CreditsAssumption
    <3>2. QED
      BY <3>1 DEF ApplicableFigure
  <2>3. QED
    BY <1>1, <2>1, <2>2
<1> HIDE DEF f, g
<1> DEFINE u == lo * f
           v == hi * g
<1>4. u \in Int /\ v \in Int
  BY <1>2
<1>5. u <= v
  <2>1. CASE hi < 0
    <3>1. f = g
      BY <1>3, <2>1
    <3>2. lo * f <= hi * f
      BY <1>2
    <3>3. QED
      BY <3>1, <3>2
  <2>2. CASE hi >= 0
    <3>1. lo * f <= hi * f
      BY <1>2
    <3>2. hi * f <= hi * g
      BY <1>2, <2>2
    <3>3. hi * f \in Int
      BY <1>2
    <3> HIDE DEF u, v
    <3> DEFINE w == hi * f
    <3>4. u <= w /\ w <= v /\ w \in Int
      BY <3>1, <3>2, <3>3 DEF u, v
    <3> HIDE DEF w
    <3>5. QED
      BY <1>4, <3>4
  <2>3. QED
    BY <2>1, <2>2
<1>6. lo >= 0 => hi >= 0
  OBVIOUS
<1> DEFINE x == (u + (IF lo >= 0 THEN 50 ELSE -50)) \div 100
           y == (v + (IF hi >= 0 THEN 50 ELSE -50)) \div 100
<1>7. /\ Contribution(lo, p) = Rounded(x) /\ Contribution(hi, q) = Rounded(y)
  BY DEF Contribution, f, g, u, v
<1> HIDE DEF u, v
<1>8. x \in Int /\ y \in Int /\ x <= y
  BY <1>4, <1>5, <1>6
<1> HIDE DEF x, y
<1>9. Rounded(x) \in Int /\ Rounded(y) \in Int /\ Rounded(x) <= Rounded(y)
  BY <1>8, RoundedGrows, RoundedIsNearest
<1>10. QED
  BY <1>7, <1>9 DEF p, q

\* The months' contribution grows with the year's.
LEMMA MonthlyGrows ==
  ASSUME NEW a \in Int, NEW b \in Int, a <= b
  PROVE  /\ MonthlyContribution(a) \in Int /\ MonthlyContribution(b) \in Int
         /\ MonthlyContribution(a) <= MonthlyContribution(b)
BY SMT DEF MonthlyContribution

\* A household none of whose months is charged less than nothing.
NoNegativePremium(block) ==
  \A m \in DOMAIN block.months : block.months[m].premium >= 0

\* The credit of one month, and of a year at one premium, falls as the
\* contribution grows, and is never below nothing.
LEMMA MonthFalls ==
  ASSUME NEW month, TypedMonth(month), month.premium >= 0,
         NEW a \in Int, NEW b \in Int, a <= b
  PROVE  /\ MonthCredit(month, a) \in Nat /\ MonthCredit(month, b) \in Nat
         /\ MonthCredit(month, b) <= MonthCredit(month, a)
<1> DEFINE p == month.premium
           s == month.slcsp
           at(x) == Smaller(p, Positive(s - 100 * x))
<1>1. p \in Int /\ s \in Int /\ p >= 0
  BY DEF TypedMonth
<1>2. MonthCredit(month, a) = Rounded(at(a)) /\ MonthCredit(month, b) = Rounded(at(b))
  BY DEF MonthCredit
<1> HIDE DEF p, s
<1>3. at(a) \in Nat /\ at(b) \in Nat /\ at(b) <= at(a)
  BY <1>1 DEF Smaller, Positive, Larger
<1> HIDE DEF at
<1>4. Rounded(at(a)) \in Nat /\ Rounded(at(b)) \in Nat /\ Rounded(at(b)) <= Rounded(at(a))
  BY <1>3, RoundedNatural, RoundedGrows
<1>5. QED
  BY <1>2, <1>4

\* Form 8962: a greater income has no greater credit.
LEMMA CreditFalls ==
  ASSUME NEW block, block # None, TypedBlock(block), NoNegativePremium(block),
         NEW lo \in Int, NEW hi \in Int, lo <= hi, NEW config
  PROVE  LET a == F8962(block, lo, config).line24
             b == F8962(block, hi, config).line24
         IN a \in Nat /\ b \in Nat /\ b <= a
<1> DEFINE poverty == PovertyLine[FamilySize(config)]
           c(m) == Contribution(m, Percentage(block, m, poverty))
           cl == c(lo)
           ch == c(hi)
           ml == MonthlyContribution(cl)
           mh == MonthlyContribution(ch)
           x == block.months
           whole == SumOf(x, LAMBDA m : Rounded(m.premium))
           least == SumOf(x, LAMBDA m : Rounded(m.slcsp))
           monthly(line8b) == SumOf(x, LAMBDA m : MonthCredit(m, line8b))
           yearly(line8a) == Smaller(whole, Positive(least - line8a))
           annual == Annual(x)
<1>1. /\ F8962(block, lo, config).line24 = IF annual THEN yearly(cl) ELSE monthly(ml)
      /\ F8962(block, hi, config).line24 = IF annual THEN yearly(ch) ELSE monthly(mh)
  BY DEF F8962, YearCredit
<1>2. poverty \in Nat \ {0}
  BY CreditsAssumption DEF FamilySize
<1>3. cl \in Int /\ ch \in Int /\ cl <= ch
  <2> HIDE DEF poverty
  <2>1. QED
    BY <1>2, ContributionGrows
<1> HIDE DEF cl, ch
<1>4. ml \in Int /\ mh \in Int /\ ml <= mh
  BY <1>3, MonthlyGrows
<1> HIDE DEF ml, mh
<1>5. IsList(x) /\ \A i \in DOMAIN x : TypedMonth(x[i]) /\ x[i].premium >= 0
  BY DEF TypedBlock, ListOf, IsList, NoNegativePremium
<1>6. /\ Len(x) \in Nat /\ DOMAIN x = 1 .. Len(x)
  BY <1>5 DEF IsList
<1>7. monthly(ml) \in Nat /\ monthly(mh) \in Nat /\ monthly(mh) <= monthly(ml)
  <2> DEFINE n == Len(x)
             s == [i \in 1 .. n |-> MonthCredit(x[i], ml)]
             t == [i \in 1 .. n |-> MonthCredit(x[i], mh)]
  <2>1. \A i \in 1 .. n : /\ MonthCredit(x[i], ml) \in Nat /\ MonthCredit(x[i], mh) \in Nat
                          /\ MonthCredit(x[i], mh) <= MonthCredit(x[i], ml)
    BY <1>4, <1>5, <1>6, MonthFalls
  <2>2. s \in [1 .. n -> Nat] /\ t \in [1 .. n -> Nat] /\ \A i \in 1 .. n : t[i] <= s[i]
    BY <2>1
  <2>3. monthly(ml) = SumSeq(s) /\ monthly(mh) = SumSeq(t)
    BY <1>6 DEF SumOf
  <2>4. n \in Nat
    BY <1>6
  <2> HIDE DEF s, t, n
  <2>5. s \in [1 .. n -> Int] /\ t \in [1 .. n -> Int]
    BY <2>2
  <2>6. SumSeq(s) \in Nat /\ SumSeq(t) \in Nat
    BY <2>2, <2>4, SumNatural
  <2>7. SumSeq(t) <= SumSeq(s)
    BY <2>2, <2>4, <2>5, SumMonotone
  <2>8. QED
    BY <2>3, <2>6, <2>7
<1>8. whole \in Nat
  <2> DEFINE n == Len(x)
             s == [i \in 1 .. n |-> Rounded(x[i].premium)]
  <2>1. \A i \in 1 .. n : x[i].premium \in Nat
    BY <1>5, <1>6 DEF TypedMonth
  <2>2. \A i \in 1 .. n : Rounded(x[i].premium) \in Nat
    BY <2>1, RoundedNatural
  <2>3. s \in [1 .. n -> Nat]
    BY <2>2
  <2>4. whole = SumSeq(s)
    BY <1>6 DEF SumOf
  <2>5. n \in Nat
    BY <1>6
  <2> HIDE DEF s, n
  <2>6. QED
    BY <2>3, <2>4, <2>5, SumNatural
<1>9. least \in Int
  BY <1>4, MonthSums
<1> HIDE DEF whole, least, monthly, annual
<1>10. yearly(cl) \in Nat /\ yearly(ch) \in Nat /\ yearly(ch) <= yearly(cl)
  BY <1>3, <1>8, <1>9 DEF Smaller, Positive, Larger
<1> HIDE DEF yearly
<1>11. CASE annual
  BY <1>1, <1>10, <1>11
<1>12. CASE ~annual
  BY <1>1, <1>7, <1>12
<1>13. QED
  BY <1>11, <1>12

\* The earned income credit looks up a row that is there.
LEMMA TableCreditType ==
  ASSUME NEW status \in DOMAIN EICTable, NEW amount \in Nat
  PROVE  TableCredit(amount, EICTable[status]) \in Nat
<1> DEFINE table == EICTable[status]
           above == {i \in DOMAIN table : amount < table[i].upper}
<1>1. /\ Len(table) \in Nat \ {0} /\ DOMAIN table = 1 .. Len(table) /\ table[1].lower = 0
      /\ \A i \in DOMAIN table : table[i].upper \in Nat /\ table[i].credit \in Nat
      /\ \A i \in 2 .. Len(table) : table[i].lower = table[i - 1].upper
  BY CreditsAssumption
<1>2. TableCredit(amount, EICTable[status])
        = IF amount >= table[Len(table)].upper THEN 0
          ELSE table[CHOOSE i \in DOMAIN table :
                       table[i].lower <= amount /\ amount < table[i].upper].credit
  BY DEF TableCredit
<1> HIDE DEF table
<1>3. CASE amount >= table[Len(table)].upper
  BY <1>2, <1>3
<1>4. CASE ~(amount >= table[Len(table)].upper)
  <2>1. above \subseteq Nat /\ Len(table) \in above
    BY <1>1, <1>4
  <2>2. PICK i \in above : \A k \in above : i <= k
    <3> HIDE DEF above
    <3>1. above # {}
      BY <2>1
    <3>2. QED
      BY <2>1, <3>1, Smallest
  <2>3. i \in DOMAIN table /\ amount < table[i].upper
    OBVIOUS
  <2>4. table[i].lower <= amount
    <3>1. CASE i = 1
      BY <1>1, <3>1
    <3>2. CASE i # 1
      <4>1. i \in 2 .. Len(table) /\ i - 1 \in DOMAIN table /\ i - 1 < i
        BY <1>1, <2>3, <3>2
      <4>2. i - 1 \notin above
        BY <2>2, <4>1
      <4>3. ~(amount < table[i - 1].upper)
        BY <4>1, <4>2
      <4>4. QED
        BY <1>1, <4>1, <4>3
    <3>3. QED
      BY <3>1, <3>2
  <2>5. \E j \in DOMAIN table : table[j].lower <= amount /\ amount < table[j].upper
    BY <2>3, <2>4
  <2>6. (CHOOSE j \in DOMAIN table : table[j].lower <= amount /\ amount < table[j].upper)
          \in DOMAIN table
    BY <2>5
  <2>7. QED
    BY <1>1, <1>2, <1>4, <2>6
<1>5. QED
  BY <1>3, <1>4

\* The earned income credit before its refusals is a natural number.
LEMMA TentativeCreditType ==
  ASSUME NEW config, config.status \in DOMAIN EICTable \cap DOMAIN EICPhaseout,
         NEW earned \in Int, NEW invest, NEW agi \in Int
  PROVE  TentativeCredit(earned, invest, agi, config) \in Nat
<1> DEFINE phaseout == EICPhaseout[config.status]
           table == EICTable[config.status]
<1>1. phaseout.threshold \in Nat /\ phaseout.completed \in Nat /\ EICMinEarned \in Nat
  BY CreditsAssumption
<1>2. TentativeCredit(earned, invest, agi, config)
        = IF \/ agi >= phaseout.completed \/ earned >= phaseout.completed
             \/ invest > EICInvestmentLimit \/ ~MeetsAge(config)
             \/ earned < EICMinEarned
          THEN 0
          ELSE IF agi # earned /\ agi >= phaseout.threshold
               THEN Smaller(TableCredit(earned, table), TableCredit(agi, table))
               ELSE TableCredit(earned, table)
  BY DEF TentativeCredit
<1>3. \A amount \in Nat : TableCredit(amount, table) \in Nat
  BY TableCreditType
<1> HIDE DEF phaseout, table
<1>4. ~(earned < EICMinEarned) => TableCredit(earned, table) \in Nat
  BY <1>1, <1>3
<1>5. agi >= phaseout.threshold => TableCredit(agi, table) \in Nat
  BY <1>1, <1>3
<1>6. QED
  BY <1>2, <1>4, <1>5 DEF Smaller


----------------------------------------------------------------------------
(* Passive losses and capital losses.                                      *)

\* Where the ledger does not refuse, the law disallows nothing of the loss
\* that Schedule E deducts in full: the three entries of the ledger leave no
\* gap, for any amounts of Form 8582.
THEOREM LedgerLeavesNoGap ==
  ASSUME NEW f,
         f.line1a \in Nat, f.line1b \in Nat, f.line1c \in Nat, f.allowance \in Nat,
         f.nonRentalIncome \in Nat, f.nonRentalLoss \in Nat,
         f.line11 = Smaller(f.line1a + f.allowance, f.line1b + f.line1c),
         ~PassiveLossRefused(f)
  PROVE  DisallowedLoss(f) = 0
<1> DEFINE net == f.line1a - f.line1b
           nonRental == f.nonRentalIncome - f.nonRentalLoss
<1>1. /\ f.line1b + f.line1c - f.line11 <= 0 /\ f.line1c = 0
      /\ nonRental >= 0 \/ net >= 0
  BY LargerAndSmaller DEF PassiveLossRefused, LimitationRefused, Smaller
<1>2. f.line1b <= f.line1a + f.allowance
  BY <1>1 DEF Smaller
<1>3. /\ Negative(net) = IF net <= 0 THEN -net ELSE 0
      /\ Negative(net - nonRental) = IF net - nonRental <= 0 THEN nonRental - net ELSE 0
  BY PositiveAndNegative
<1>4. Smaller(f.allowance, Smaller(Negative(net - nonRental), Negative(net)))
        = Negative(net)
  BY <1>1, <1>2, <1>3 DEF Smaller
<1>5. QED
  BY <1>3, <1>4 DEF DisallowedLoss

\* Schedule D carries forward exactly the loss it did not use, no more of a
\* term than that term lost, and what the carryover worksheet carries.
THEOREM CarryforwardConserves ==
  ASSUME NEW line7 \in Int, NEW line15 \in Int, NEW taxable \in Int,
         LossLimit \in Nat, taxable # None
  PROVE  LET d == ScheduleD(line7, line15, taxable)
         IN /\ d.carry.short + d.carry.long = d.line21 - d.line16
            /\ d.carry.short <= Negative(line7) /\ d.carry.long <= Negative(line15)
            /\ ~ScheduleDRefused(d.line16, taxable) =>
                 d.carry = Worksheet(line7, line15, taxable)
<1> DEFINE line16 == line7 + line15
           line21 == AllowedLoss(line16)
           d == ScheduleD(line7, line15, taxable)
<1>1. line21 = IF line16 >= 0 THEN line16
               ELSE IF line16 >= -LossLimit THEN line16 ELSE -LossLimit
  BY DEF AllowedLoss, Larger
<1>2. d.line16 = line16 /\ d.line21 = line21
  BY DEF ScheduleD
<1>3. CASE line16 >= 0
  <2>1. d.carry = [short |-> 0, long |-> 0]
    BY <1>3 DEF ScheduleD
  <2>2. Worksheet(line7, line15, taxable) = [short |-> 0, long |-> 0]
    BY <1>3 DEF Worksheet
  <2>3. QED
    BY <1>1, <1>2, <1>3, <2>1, <2>2, PositiveAndNegative
<1>4. CASE line16 < 0
  <2> DEFINE short == ShortCarry(line7, line15, -line21)
             long  == LongCarry(line7, line15, -line21)
  <2>1. d.carry = [short |-> short, long |-> long]
    BY <1>4 DEF ScheduleD
  <2>2. /\ short = Positive(Negative(line7) - (-line21 + Positive(line15)))
        /\ long = Positive(Negative(line15)
                    - (Positive(line7) + Positive(-line21 - Negative(line7))))
    BY DEF ShortCarry, LongCarry
  <2>3. line21 \in Int /\ line21 <= 0 /\ line16 <= line21
    BY <1>1, <1>4
  <2>4. /\ short + long = line21 - line16
        /\ short <= Negative(line7) /\ long <= Negative(line15)
    <3> HIDE DEF line21, short, long
    <3>1. line16 = line7 + line15
      OBVIOUS
    <3> HIDE DEF line16
    <3>2. QED
      BY <1>4, <2>2, <2>3, <3>1, SMT DEF Positive, Negative, Larger
  <2>5. ~ScheduleDRefused(line16, taxable) =>
          d.carry = Worksheet(line7, line15, taxable)
    <3>1. SUFFICES ASSUME taxable >= 0
                   PROVE  d.carry = Worksheet(line7, line15, taxable)
      BY <1>4 DEF ScheduleDRefused
    <3>2. Smaller(-line21, Positive(taxable + (-line21))) = -line21
      <4> HIDE DEF line21
      <4>1. QED
        BY <2>3, <3>1 DEF Smaller, Positive, Larger
    <3>3. Worksheet(line7, line15, taxable) =
            [short |-> ShortCarry(line7, line15,
                         Smaller(-line21, Positive(taxable + (-line21)))),
             long |-> LongCarry(line7, line15,
                         Smaller(-line21, Positive(taxable + (-line21))))]
      BY <1>4 DEF Worksheet
    <3>4. QED
      BY <2>1, <3>2, <3>3
  <2>6. QED
    BY <1>2, <2>1, <2>4, <2>5
<1>5. QED
  BY <1>3, <1>4

----------------------------------------------------------------------------
(* Last year's refund, and a corporation's shares.                         *)

\* The taxed refund is the one a fresh computation of last year's deduction
\* would tax, with the state and local tax cap and the standard deduction
\* both in the way, whatever was stated of last year (sch_1.py).
THEOREM RefundTaxesTheBenefit ==
  ASSUME NEW prior, NEW refund \in Int, NEW cap \in Nat, prior.itemized,
         OrZero(prior.paid) \in Int, OrZero(prior.deduction) \in Int,
         OrZero(prior.standard) \in Int
  PROVE  TaxableRefund(refund, prior, cap) =
           Rounded(Smaller(refund, PriorDeduction(prior, PriorPaid(prior), cap)
                     - PriorDeduction(prior, Positive(PriorPaid(prior) - refund), cap)))
<1> DEFINE paid  == OrZero(prior.paid)
           most  == 100 * cap
           kept  == Smaller(paid, most) - Smaller(Positive(paid - refund), most)
           net   == Smaller(PriorPaid(prior), most)
                      - Smaller(Positive(PriorPaid(prior) - refund), most)
           benefit == PriorDeduction(prior, PriorPaid(prior), cap)
                        - PriorDeduction(prior, Positive(PriorPaid(prior) - refund), cap)
           d == OrZero(prior.deduction)
           s == OrZero(prior.standard)
<1>1. /\ paid \in Int /\ d \in Int /\ s \in Int /\ most \in Nat
      /\ PriorPaid(prior) = Positive(paid) /\ Recovery(prior) = Positive(d - s)
  BY DEF PriorPaid, Recovery
<1>2. /\ PriorDeduction(prior, PriorPaid(prior), cap)
           = Larger(s, d - Smaller(Positive(paid), most) + Smaller(Positive(paid), most))
      /\ PriorDeduction(prior, Positive(PriorPaid(prior) - refund), cap)
           = Larger(s, d - Smaller(Positive(paid), most)
                         + Smaller(Positive(Positive(paid) - refund), most))
  BY <1>1 DEF PriorDeduction
<1>3. TaxableRefund(refund, prior, cap)
        = IF refund = 0 THEN 0 ELSE Rounded(Smaller(refund, Smaller(Positive(d - s), Positive(kept))))
  BY <1>1 DEF TaxableRefund
<1>4. benefit = Larger(s, d - Smaller(Positive(paid), most) + Smaller(Positive(paid), most))
                  - Larger(s, d - Smaller(Positive(paid), most)
                                + Smaller(Positive(Positive(paid) - refund), most))
  BY <1>2
<1> HIDE DEF paid, most, d, s, benefit
<1>5. Rounded(0) = 0
  BY DEF Rounded
<1>6. refund < 0 => /\ Smaller(refund, benefit) = refund
                    /\ Smaller(refund, Smaller(Positive(d - s), Positive(kept))) = refund
  BY <1>1, <1>4 DEF Smaller, Larger, Positive
<1>7. refund = 0 => Smaller(refund, benefit) = 0
  BY <1>1, <1>4 DEF Smaller, Larger, Positive
<1>8. refund > 0 => benefit = Smaller(Positive(d - s), Positive(kept))
  BY <1>1, <1>4 DEF Smaller, Larger, Positive
<1>9. CASE refund < 0
  BY <1>3, <1>6, <1>9 DEF benefit
<1>10. CASE refund = 0
  BY <1>3, <1>5, <1>7, <1>10 DEF benefit
<1>11. CASE refund > 0
  BY <1>3, <1>8, <1>11 DEF benefit
<1>12. QED
  BY <1>9, <1>10, <1>11

----------------------------------------------------------------------------
(* Amended returns.                                                        *)

\* A Form 1040-X that is not refused asks for, or pays back, the change
\* between the two returns' balances, provided the original balance was paid
\* as filed: the overpayment received cannot differ from the one claimed
\* (the NET INVARIANT of f1040x.py).
THEOREM AmendmentSettles ==
  ASSUME NEW old, NEW new, NEW case,
         AmendedLine11(old) \in Int, AmendedLine11(new) \in Int,
         old.payments \in Int, new.payments \in Int,
         old.overpaid # None,
         old.overpaid = Positive(old.payments - AmendedLine11(old)),
         case.paid \in {None, 100 * Positive(BalanceDue(old))},
         ~F1040XRefused(old, case)
  PROVE  LET x == F1040X(old, new, case)
         IN x.line20 - x.line22 =
              (x.line11c - new.payments) - (x.line11a - old.payments)
<1> DEFINE due    == BalanceDue(old)
           line16 == OriginalTaxPaid(case)
           line19 == new.payments + line16 - OriginalOverpayment(case)
           owed   == AmendedLine11(new)
           x == F1040X(old, new, case)
<1>1. due \in Int /\ due = AmendedLine11(old) - old.payments
  BY DEF BalanceDue
<1>2. line16 = Positive(due)
  <2>1. CASE case.paid = None
    <3>1. due <= 0
      BY <1>1, <2>1 DEF F1040XRefused, PaymentUnknown
    <3>2. QED
      BY <1>1, <2>1, <3>1 DEF OriginalTaxPaid, Positive, Larger
  <2>2. CASE case.paid # None
    <3>1. Positive(due) \in Int
      BY <1>1 DEF Positive, Larger
    <3>2. QED
      BY <2>2, <3>1, RoundedDollars DEF OriginalTaxPaid
  <2>3. QED
    BY <2>1, <2>2
<1>3. OriginalOverpayment(case) = Positive(-due)
  BY <1>1 DEF F1040XRefused, OverpaymentMismatch, Positive, Larger
<1>4. line19 = new.payments + due
  BY <1>1, <1>2, <1>3 DEF Positive, Larger
<1>5. /\ x.line20 = Positive(owed - line19) /\ x.line22 = Positive(line19 - owed)
      /\ x.line11c = owed /\ x.line11a = AmendedLine11(old)
  <2>1. line16 \in Int /\ OriginalOverpayment(case) \in Int
    BY <1>1, <1>2, <1>3 DEF Positive, Larger
  <2> HIDE DEF line16
  <2>2. x.line11c = owed /\ x.line11a = AmendedLine11(old)
    BY DEF F1040X
  <2>3. /\ x.line20 = Positive(owed - line19)
        /\ x.line22 = Positive(line19 - owed)
    BY <2>1 DEF F1040X, line16
  <2>4. QED
    BY <2>2, <2>3
<1> HIDE DEF due, line19, x
<1>6. Positive(owed - line19) - Positive(line19 - owed) = owed - line19
  BY <1>1, <1>4 DEF Positive, Larger
<1>7. QED
  BY <1>1, <1>4, <1>5, <1>6 DEF x

\* Schedule X claims or pays exactly the change of the liability: what was
\* received or applied on the original return is what that return claimed.
THEOREM ScheduleXSettles ==
  ASSUME NEW filedCA, NEW corrected \in Int, NEW case,
         filedCA.liability \in Int, ~ScheduleXRefused(filedCA, case)
  PROVE  LET x == ScheduleX(filedCA.liability, corrected, case)
         IN x.line7 - x.line11 = corrected - filedCA.liability
<1> DEFINE old == filedCA.liability
           line3 == Positive(corrected) + Stated(case.caReceived, case.caApplied)
           line6 == Positive(-corrected) + Positive(old)
           x == ScheduleX(old, corrected, case)
<1>1. Stated(case.caReceived, case.caApplied) = Positive(-old)
  BY DEF ScheduleXRefused
<1>2. line3 \in Int /\ line6 \in Int /\ line3 - line6 = corrected - old
  BY <1>1 DEF Positive, Larger
<1>3. x.line7 = Positive(line3 - line6) /\ x.line11 = Positive(line6 - line3)
  BY DEF ScheduleX
<1> HIDE DEF line3, line6, x
<1>4. Positive(line3 - line6) - Positive(line6 - line3) = line3 - line6
  BY <1>2 DEF Positive, Larger
<1>5. QED
  BY <1>2, <1>3, <1>4 DEF x

----------------------------------------------------------------------------
(* Form 540.                                                               *)

\* The blank-or-printed lines 94 to 115 tell the liability: line 114 is the
\* amount owed, line 115 the refund, and both are blank only when there is
\* neither (f540.py).
THEOREM BottomLinesTell ==
  ASSUME NEW f, None \notin Int,
         f.useTax \in Int, f.line71 \in Int, f.line72 \in Int, f.line48 \in Nat,
         f.voluntary \in Nat, f.penalty \in Nat, f.interest = None \/ f.interest \in Nat
  PROVE  LET b == Form540Balance(f)
             interest == IF f.interest = None THEN 0 ELSE f.interest
             total == f.line48 + f.useTax + f.penalty + f.voluntary + interest
                        - f.line71 - f.line72
         IN total = IF b.line114 # None THEN b.line114
                    ELSE IF b.line115 # None THEN -b.line115 ELSE 0
<1> DEFINE b == Form540Balance(f)
           interest == IF f.interest = None THEN 0 ELSE f.interest
           paid == f.line71 + f.line72
           line94  == Positive(f.useTax - paid)
           line95  == Positive(paid - f.useTax)
           line99  == Positive(line95 - f.line48)
           line100 == Positive(f.line48 - line95)
           line111 == IF line99 > 0
                      THEN IF f.voluntary > line99 THEN f.voluntary - line99 ELSE None
                      ELSE IF line94 + line100 + f.voluntary > 0
                           THEN line94 + line100 + f.voluntary ELSE None
           excess  == f.voluntary + interest + f.penalty - line99
           line114 == IF line111 # None THEN line111 + interest + f.penalty
                      ELSE IF excess > 0 THEN excess ELSE None
           total == f.line48 + f.useTax + f.penalty + f.voluntary + interest
                        - f.line71 - f.line72
<1>1. /\ b.line114 = line114
      /\ b.line115 = IF line114 # None \/ line99 <= 0 THEN None ELSE -excess
  BY DEF Form540Balance
<1>2. interest \in Nat
  OBVIOUS
<1>3. line94 \in Nat /\ line99 \in Nat /\ line100 \in Nat
  BY DEF Positive, Larger
<1>4. line94 + line100 - line99 = f.line48 + f.useTax - paid
  BY DEF Positive, Larger
<1>5. line99 > 0 => line94 = 0 /\ line100 = 0
  BY DEF Positive, Larger
<1>6. total = line94 + line100 - line99 + f.voluntary + interest + f.penalty
  BY <1>2, <1>4
<1> HIDE DEF line94, line99, line100, interest, b, total
<1>7. excess \in Int /\ (line111 # None => line111 \in Nat)
  BY <1>2, <1>3
<1>8. total = IF line114 # None THEN line114
              ELSE IF line114 # None \/ line99 <= 0 THEN 0 ELSE excess
  <2>1. CASE line99 > 0
    BY <1>2, <1>3, <1>5, <1>6, <2>1
  <2>2. CASE line99 = 0
    BY <1>2, <1>3, <1>6, <2>2
  <2>3. QED
    BY <1>3, <2>1, <2>2
<1>9. QED
  <2> HIDE DEF line114, line111, excess
  <2>1. b.line114 = None /\ line99 > 0 => b.line115 = -excess /\ b.line115 # None
    <3>1. -excess \in Int
      BY <1>7
    <3>2. ASSUME b.line114 = None, line99 > 0
          PROVE  b.line115 = -excess
      <4>1. ~(line114 # None \/ line99 <= 0)
        BY <1>1, <1>3, <3>2
      <4>2. QED
        BY <1>1, <4>1
    <3>3. QED
      BY <3>1, <3>2
  <2>2. b.line114 = None /\ line99 <= 0 => b.line115 = None
    BY <1>1
  <2>3. total = IF b.line114 # None THEN b.line114
                ELSE IF b.line115 # None THEN -b.line115 ELSE 0
    BY <1>1, <1>3, <1>7, <1>8, <2>1, <2>2
  <2>4. QED
    BY <2>3 DEF total, b, interest

----------------------------------------------------------------------------
(* The bottom line of a return.                                            *)

\* Line 24 reads the same wherever it is read: harvested from the workbook, or
\* composed by Form 4868 from line 16 and both parts of Schedule 2, and added
\* up by the cover from lines 22 and 23.
LEMMA OneLine24 ==
  ASSUME NEW r, None \notin Int, NEW tax \in Int,
         \/ r.harvested = tax
         \/ /\ r.harvested = None
            /\ r.line16 \in Nat /\ r.line17 \in Nat /\ r.line23 \in Nat
            /\ r.line22 = Positive(r.line16 + r.line17)
            /\ tax = r.line16 + r.line17 + r.line23
  PROVE  TotalTaxLiability(r) = tax /\ TotalTaxRow(r) = tax
<1>1. CASE r.harvested = tax
  <2>1. r.harvested # None
    BY <1>1
  <2> QED BY <1>1, <2>1, Zenon DEF TotalTaxLiability, TotalTaxRow
<1>2. CASE r.harvested # tax
  <2>1. /\ r.harvested = None /\ r.line22 = r.line16 + r.line17
        /\ None \notin {r.line16, r.line22, r.line23}
    BY <1>2 DEF Positive, Larger
  <2>2. ComposedLine24(r.line16, r.line17, 0, r.line23) = tax
    BY <1>2 DEF ComposedLine24, Positive, Larger
  <2>3. TotalTaxRow(r) = r.line22 + r.line23
    BY <2>1 DEF TotalTaxRow
  <2>4. TotalTaxLiability(r) = tax
    <3>1. r.line16 # None
      BY <2>1
    <3> QED BY <2>1, <2>2, <3>1 DEF TotalTaxLiability
  <2> QED BY <1>2, <2>1, <2>3, <2>4
<1> QED BY <1>1, <1>2

\* Whichever of its lines a route publishes, the cover states the balance of
\* payments and total tax, and Form 4868 asks for exactly what is owed: the
\* native spine has lines 34 and 37 and no line 24, the workbook lines 24 and
\* 34 and no line 37 (f4868.py, summary.py; OneBottomLine).
THEOREM OneBalance ==
  ASSUME NEW r, None \notin Int, NEW tax \in Nat, r.line33 \in Int,
         r.line34 = Positive(r.line33 - tax),
         \/ /\ r.harvested = tax /\ r.line37 = None
         \/ /\ r.harvested = None /\ r.line37 = Positive(tax - r.line33)
            /\ r.line16 \in Nat /\ r.line17 \in Nat /\ r.line23 \in Nat
            /\ r.line22 = Positive(r.line16 + r.line17)
            /\ tax = r.line16 + r.line17 + r.line23
  PROVE  /\ FederalBottomLine(r) = r.line33 - tax
         /\ TotalTaxRow(r) = tax
         /\ ~F4868Refused(r) /\ F4868(r).line6 = Positive(tax - r.line33)
<1> DEFINE due == tax - r.line33
           back == r.line33 - tax
<1>1. TotalTaxLiability(r) = tax /\ TotalTaxRow(r) = tax
  BY OneLine24
<1>2. F4868(r).line6 = Positive(due) /\ ~F4868Refused(r)
  BY <1>1 DEF F4868, F4868Refused
<1>3. Positive(due) # None /\ Positive(back) # None
  BY DEF Positive, Larger
<1>4. FederalBottomLine(r) = Settlement(Positive(due), Positive(back))
  <2>1. CASE r.harvested = tax /\ r.line37 = None
    BY <1>3, <2>1 DEF FederalBottomLine
  <2>2. CASE r.harvested = None /\ r.line37 = Positive(due)
    BY <1>3, <2>2 DEF FederalBottomLine
  <2> QED BY <2>1, <2>2
<1>5. Settlement(Positive(due), Positive(back)) = back
  BY DEF Settlement, Positive, Larger
<1> QED BY <1>1, <1>2, <1>4, <1>5

----------------------------------------------------------------------------
(* Form 8995: the rows, and what they carry of the businesses' income.     *)

\* The inputs of Form 8995, and the selections its rows come from.
TypedInputs(c) ==
  /\ IsList(c.businesses) /\ \A i \in 1 .. Len(c.businesses) :
       c.businesses[i].net \in Int /\ c.businesses[i].gross \in Int
  /\ c.half \in Nat /\ c.health \in Int /\ c.k1QBI \in Seq(Int)
Divisible(c) == ~(Len(ActiveBusinesses(c)) > 1 /\ c.half # 0 /\ GrossOf(c) <= 0)
EarningAt(c) == {i \in DOMAIN c.businesses : c.businesses[i].net # 0}
RowAt(c) ==
  {i \in DOMAIN c.businesses :
     c.businesses[i].net # 0 \/ c.half * c.businesses[i].gross # 0}
OwnQBI(c, i) ==
  IF c.half = 0 THEN c.businesses[i].net
  ELSE RoundedRatio(c.businesses[i].net * GrossOf(c) - c.half * c.businesses[i].gross,
                    GrossOf(c))

\* The businesses' rows of Form 8995, as selections of the list.
LEMMA BusinessRowsAre ==
  ASSUME NEW c
  PROVE  BusinessRows(c) =
           IF Len(ActiveBusinesses(c)) <= 1
           THEN LET kept == Kept(Len(c.businesses), EarningAt(c)) IN
                [i \in DOMAIN kept |->
                   Rounded(100 * (c.businesses[kept[i]].net - c.half) - HealthShare(c))]
           ELSE LET kept == Kept(Len(c.businesses), RowAt(c)) IN
                [i \in DOMAIN kept |-> OwnQBI(c, kept[i])]
<1> DEFINE kept == Kept(Len(c.businesses), EarningAt(c))
           rows == Kept(Len(c.businesses), RowAt(c))
           share == HealthShare(c)
<1>1. Earning(c) = [i \in DOMAIN kept |-> c.businesses[kept[i]]]
  BY DEF Earning, Where, Selection, EarningAt
<1>2. Where(c.businesses, LAMBDA b : b.net # 0 \/ c.half * b.gross # 0)
        = [i \in DOMAIN rows |-> c.businesses[rows[i]]]
  BY DEF Where, Selection, RowAt
<1>3. CASE Len(ActiveBusinesses(c)) <= 1
  <2>1. BusinessRows(c) = [i \in DOMAIN Earning(c) |->
                             Rounded(100 * (Earning(c)[i].net - c.half) - share)]
    BY <1>3 DEF BusinessRows
  <2> HIDE DEF kept, share
  <2>2. BusinessRows(c) = [i \in DOMAIN kept |->
                             Rounded(100 * (c.businesses[kept[i]].net - c.half) - share)]
    BY <1>1, <2>1
  <2>3. QED
    BY <1>3, <2>2 DEF kept, share
<1>4. CASE ~(Len(ActiveBusinesses(c)) <= 1)
  <2> DEFINE own(b) == IF c.half = 0 THEN b.net
                       ELSE RoundedRatio(b.net * GrossOf(c) - c.half * b.gross, GrossOf(c))
             listed == Where(c.businesses, LAMBDA b : b.net # 0 \/ c.half * b.gross # 0)
  <2>1. BusinessRows(c) = [i \in DOMAIN listed |-> own(listed[i])]
    BY <1>4 DEF BusinessRows
  <2>2. DOMAIN listed = DOMAIN rows /\ \A i \in DOMAIN rows : listed[i] = c.businesses[rows[i]]
    <3> HIDE DEF rows, listed
    <3>1. listed = [i \in DOMAIN rows |-> c.businesses[rows[i]]]
      BY <1>2 DEF listed
    <3>2. QED
      BY <3>1
  <2>3. [i \in DOMAIN listed |-> own(listed[i])]
          = [i \in DOMAIN rows |-> OwnQBI(c, rows[i])]
    <3> HIDE DEF rows, listed
    <3>1. \A i \in DOMAIN rows : own(listed[i]) = OwnQBI(c, rows[i])
      BY <2>2 DEF OwnQBI
    <3> HIDE DEF own
    <3>2. QED
      BY <2>2, <3>1
  <2>4. QED
    BY <1>4, <2>1, <2>3
<1>5. QED
  BY <1>3, <1>4

NetsOf(c)  == [i \in 1 .. Len(c.businesses) |-> c.businesses[i].net]
GrossesOf(c) == [i \in 1 .. Len(c.businesses) |-> c.businesses[i].gross]

\* The sums Form 8995 shares the deductions out by are whole numbers.
LEMMA InputSums ==
  ASSUME NEW c, TypedInputs(c)
  PROVE  /\ NetsOf(c) \in [1 .. Len(c.businesses) -> Int]
         /\ GrossesOf(c) \in [1 .. Len(c.businesses) -> Int]
         /\ Len(c.businesses) \in Nat /\ DOMAIN c.businesses = 1 .. Len(c.businesses)
         /\ SumOf(c.businesses, LAMBDA b : b.net) = SumSeq(NetsOf(c))
         /\ GrossOf(c) = SumSeq(GrossesOf(c))
         /\ SumSeq(NetsOf(c)) \in Int /\ GrossOf(c) \in Int
         /\ HealthShare(c) \in Int /\ Reduction(c) \in Int
<1>1. /\ Len(c.businesses) \in Nat /\ DOMAIN c.businesses = 1 .. Len(c.businesses)
      /\ \A i \in 1 .. Len(c.businesses) :
           c.businesses[i].net \in Int /\ c.businesses[i].gross \in Int
  BY DEF TypedInputs, IsList
<1>2. /\ NetsOf(c) \in [1 .. Len(c.businesses) -> Int]
      /\ GrossesOf(c) \in [1 .. Len(c.businesses) -> Int]
  BY <1>1 DEF NetsOf, GrossesOf
<1>3. SumOf(c.businesses, LAMBDA b : b.net) = SumSeq(NetsOf(c))
  BY <1>1 DEF SumOf, NetsOf
<1>4. GrossOf(c) = SumSeq(GrossesOf(c))
  BY <1>1 DEF GrossOf, SumOf, GrossesOf
<1>5. SumSeq(NetsOf(c)) \in Int /\ SumSeq(GrossesOf(c)) \in Int
  BY <1>1, <1>2, SumType
<1>6. HealthShare(c) \in Int /\ Reduction(c) \in Int
  BY DEF TypedInputs, HealthShare, Reduction
<1>7. QED
  BY <1>1, <1>2, <1>3, <1>4, <1>5, <1>6

\* The K-1s' rows, each the QBI of one K-1, the elected reduction off the
\* only one.
LEMMA K1RowsCarry ==
  ASSUME NEW c, TypedInputs(c)
  PROVE  /\ K1Rows8995(c) \in Seq(Int) /\ Len(K1Rows8995(c)) = Len(c.k1QBI)
         /\ ~HealthQBIRefused(c) =>
              100 * SumSeq(K1Rows8995(c))
                - (SumOf(c.k1QBI, LAMBDA q : q) - Reduction(c))
                  \in -(50 * Len(c.k1QBI)) .. 50 * Len(c.k1QBI)
<1> DEFINE n == Len(c.k1QBI)
           taken == Reduction(c)
           exact == [i \in 1 .. n |-> c.k1QBI[i] - taken]
           rows == [i \in 1 .. n |-> Rounded(exact[i])]
           whole == [i \in 1 .. n |-> c.k1QBI[i]]
<1>1. /\ n \in Nat /\ DOMAIN c.k1QBI = 1 .. n /\ \A i \in 1 .. n : c.k1QBI[i] \in Int
      /\ c.k1QBI = whole
  BY DEF TypedInputs
<1>2. taken \in Int
  BY InputSums
<1>3. K1Rows8995(c) = rows
  <2>1. \A i \in 1 .. n : exact[i] = c.k1QBI[i] - taken
    OBVIOUS
  <2>2. K1Rows8995(c) = [i \in DOMAIN c.k1QBI |-> Rounded(c.k1QBI[i] - taken)]
    BY DEF K1Rows8995
  <2> HIDE DEF exact, taken, n
  <2>3. [i \in DOMAIN c.k1QBI |-> Rounded(c.k1QBI[i] - taken)] = rows
    BY <1>1, <2>1
  <2>4. QED
    BY <2>2, <2>3
<1>4. SumOf(c.k1QBI, LAMBDA q : q) = SumSeq(whole)
  BY <1>1 DEF SumOf
<1> HIDE DEF taken, n
<1>5. exact \in [1 .. n -> Int] /\ whole \in [1 .. n -> Int]
      /\ \A i \in 1 .. n : exact[i] = whole[i] - taken
  BY <1>1, <1>2
<1> HIDE DEF exact, whole
<1>6. rows \in [1 .. n -> Int] /\ \A i \in 1 .. n : 100 * rows[i] - exact[i] \in -50 .. 50
  <2>1. \A i \in 1 .. n : /\ Rounded(exact[i]) \in Int
                          /\ 100 * Rounded(exact[i]) - exact[i] \in -50 .. 50
    BY <1>5, RoundedIsNearest
  <2>2. QED
    BY <2>1
<1> HIDE DEF rows
<1>7. rows \in Seq(Int) /\ Len(rows) = n
  BY <1>1, <1>6, MapIsList
<1>8. 100 * SumSeq(rows) - SumSeq(exact) \in -(50 * n) .. 50 * n
  BY <1>1, <1>5, <1>6, SumWithin
<1>9. SumSeq(exact) = SumSeq(whole) - n * taken
  BY <1>1, <1>2, <1>5, SumTakesOff
<1>10. ~HealthQBIRefused(c) => n * taken = taken
  <2>1. SUFFICES ASSUME ~HealthQBIRefused(c) PROVE n * taken = taken
    OBVIOUS
  <2>2. CASE taken = 0
    <3>1. n * 0 = 0
      BY <1>1
    <3>2. QED
      BY <2>2, <3>1
  <2>3. CASE taken # 0
    <3>1. c.health # 0 /\ c.k1QBI # <<>> /\ c.election = "irs-faq"
      BY <2>3 DEF taken, Reduction
    <3>2. ~(n > 1)
      BY <2>1, <3>1 DEF HealthQBIRefused, n
    <3>3. n # 0
      BY <3>1 DEF n, TypedInputs
    <3>4. n = 1
      BY <1>1, <3>2, <3>3
    <3>5. 1 * taken = taken
      BY <1>2
    <3>6. QED
      BY <3>4, <3>5
  <2>4. QED
    BY <2>2, <2>3
<1>11. ~HealthQBIRefused(c) =>
         100 * SumSeq(rows) - (SumSeq(whole) - taken) \in -(50 * n) .. 50 * n
  BY <1>8, <1>9, <1>10
<1>12. QED
  BY <1>3, <1>4, <1>7, <1>11 DEF taken, n

ActiveAt(c) ==
  {i \in DOMAIN c.businesses : c.businesses[i].net # 0 \/ c.businesses[i].gross # 0}

\* How many of the businesses are active.
LEMMA ActiveCount ==
  ASSUME NEW c, TypedInputs(c)
  PROVE  /\ Len(ActiveBusinesses(c)) = Len(Kept(Len(c.businesses), ActiveAt(c)))
         /\ Len(Kept(Len(c.businesses), ActiveAt(c))) \in Nat
         /\ Len(Kept(Len(c.businesses), ActiveAt(c))) <= Len(c.businesses)
         /\ Len(Kept(Len(c.businesses), EarningAt(c))) <= Len(ActiveBusinesses(c))
         /\ (Earning(c) = <<>>) = (Kept(Len(c.businesses), EarningAt(c)) = <<>>)
<1> DEFINE n == Len(c.businesses)
           kept == Kept(n, ActiveAt(c))
           earning == Kept(n, EarningAt(c))
<1>1. n \in Nat /\ DOMAIN c.businesses = 1 .. n /\ IsList(c.businesses)
  BY DEF TypedInputs, IsList
<1>2. ActiveBusinesses(c) = Selection(c.businesses, ActiveAt(c))
  BY DEF ActiveBusinesses, Where, Selection, ActiveAt
<1>3. Earning(c) = Selection(c.businesses, EarningAt(c))
  BY DEF Earning, Where, Selection, EarningAt
<1>4. ASSUME NEW S
      PROVE  LET k == Kept(n, S) IN
             /\ Len(Selection(c.businesses, S)) = Len(k) /\ Len(k) \in Nat
             /\ (Selection(c.businesses, S) = <<>>) = (k = <<>>)
  <2> DEFINE k == Kept(n, S)
             y == Selection(c.businesses, S)
  <2>1. k \in Seq(S \cap (1 .. n))
    BY <1>1, KeptAre
  <2>2. IsList(y) /\ y = [i \in DOMAIN k |-> c.businesses[k[i]]]
    <3>1. IsList(y)
      BY <1>1, SelectedList
    <3>2. QED
      BY <3>1 DEF Selection
  <2> HIDE DEF k, y
  <2>3. Len(k) \in Nat /\ DOMAIN k = 1 .. Len(k) /\ DOMAIN y = DOMAIN k
    BY <2>1, <2>2
  <2>4. Len(y) \in Nat /\ DOMAIN y = 1 .. Len(y)
    BY <2>2 DEF IsList
  <2>5. Len(y) = Len(k)
    BY <2>3, <2>4
  <2>6. k = <<>> => y = <<>>
    BY <2>2, <2>3
  <2>7. y = <<>> => k = <<>>
    <3>1. SUFFICES ASSUME y = <<>> PROVE k = <<>>
      OBVIOUS
    <3>2. Len(k) = 0
      BY <2>5, <3>1
    <3>3. QED
      BY <2>1, <3>2
  <2>8. QED
    BY <2>3, <2>5, <2>6, <2>7 DEF k, y
<1>5. EarningAt(c) \cap (1 .. n) \subseteq ActiveAt(c)
  BY DEF EarningAt, ActiveAt
<1>6. Len(kept) <= n /\ Len(earning) <= Len(kept)
  BY <1>1, <1>5, KeptFewer
<1> HIDE DEF n
<1>7. /\ Len(Selection(c.businesses, ActiveAt(c))) = Len(kept) /\ Len(kept) \in Nat
      /\ (Selection(c.businesses, EarningAt(c)) = <<>>) = (earning = <<>>)
  BY <1>4
<1>8. QED
  BY <1>2, <1>3, <1>6, <1>7 DEF n

\* One active business, or none: at most one row.
LEMMA OneBusinessCarries ==
  ASSUME NEW c, TypedInputs(c), Len(ActiveBusinesses(c)) <= 1
  PROVE  /\ BusinessRows(c) \in Seq(Int)
         /\ (SumSeq(NetsOf(c)) <= 0 => c.half = 0) =>
              100 * SumSeq(BusinessRows(c))
                - (100 * (SumSeq(NetsOf(c)) - c.half) - HealthShare(c))
                  \in -(50 * Len(BusinessRows(c))) .. 50 * Len(BusinessRows(c))
<1> DEFINE n == Len(c.businesses)
           kept == Kept(n, EarningAt(c))
           m == Len(kept)
           share == HealthShare(c)
           nets == NetsOf(c)
           keptNets == [i \in DOMAIN kept |-> nets[kept[i]]]
           exact == [i \in 1 .. m |-> 100 * (keptNets[i] - c.half) - share]
           rows == [i \in 1 .. m |-> Rounded(exact[i])]
<1>1. /\ nets \in [1 .. n -> Int] /\ n \in Nat /\ DOMAIN c.businesses = 1 .. n
      /\ share \in Int /\ c.half \in Nat
      /\ \A i \in 1 .. n : nets[i] = c.businesses[i].net
  BY InputSums DEF TypedInputs, NetsOf
<1>2. kept \in Seq(EarningAt(c) \cap (1 .. n))
  BY <1>1, KeptAre
<1>3. SumSeq(keptNets) = SumSeq(nets)
  <2>1. \A i \in 1 .. n : i \notin EarningAt(c) => nets[i] = 0
    BY <1>1 DEF EarningAt
  <2> HIDE DEF n, nets
  <2>2. QED
    BY <1>1, <2>1, KeptSumsAll
<1>4. BusinessRows(c) = [i \in DOMAIN kept |->
                           Rounded(100 * (c.businesses[kept[i]].net - c.half) - share)]
  <2>1. BusinessRows(c) = LET k == Kept(n, EarningAt(c)) IN
          [i \in DOMAIN k |-> Rounded(100 * (c.businesses[k[i]].net - c.half) - share)]
    BY BusinessRowsAre
  <2>2. QED
    BY <2>1
<1>5. m <= 1
  <2>1. m <= Len(ActiveBusinesses(c)) /\ Len(ActiveBusinesses(c)) \in Nat
    BY ActiveCount
  <2>2. m \in Nat
    <3> HIDE DEF kept
    <3>1. QED
      BY <1>2
  <2> HIDE DEF m
  <2>3. QED
    BY <2>1, <2>2
<1>6. share = IF kept = <<>> THEN 0 ELSE c.health
  BY ActiveCount DEF HealthShare
<1> HIDE DEF kept, share, nets, n
<1>7. m \in Nat /\ DOMAIN kept = 1 .. m /\ \A i \in 1 .. m : kept[i] \in 1 .. n
  BY <1>2
<1>8. BusinessRows(c) = rows
  <2>1. \A i \in 1 .. m : exact[i] = 100 * (c.businesses[kept[i]].net - c.half) - share
    BY <1>1, <1>7
  <2> HIDE DEF exact
  <2>2. QED
    BY <1>4, <1>7, <2>1
<1>9. keptNets \in [1 .. m -> Int]
  BY <1>1, <1>7
<1> HIDE DEF m, keptNets
<1>10. exact \in [1 .. m -> Int]
  BY <1>1, <1>9
<1>11. \A i \in 1 .. m : exact[i] = 100 * (keptNets[i] - c.half) - share
  OBVIOUS
<1> HIDE DEF exact
<1>12. rows \in [1 .. m -> Int] /\ \A i \in 1 .. m : 100 * rows[i] - exact[i] \in -50 .. 50
  <2>1. \A i \in 1 .. m : /\ Rounded(exact[i]) \in Int
                          /\ 100 * Rounded(exact[i]) - exact[i] \in -50 .. 50
    BY <1>10, RoundedIsNearest
  <2>2. QED
    BY <2>1
<1> HIDE DEF rows
<1>13. rows \in Seq(Int) /\ Len(rows) = m
  BY <1>7, <1>12, MapIsList
<1>14. 100 * SumSeq(rows) - SumSeq(exact) \in -(50 * m) .. 50 * m
  BY <1>7, <1>10, <1>12, SumWithin
<1>15. SumSeq(nets) \in Int /\ SumSeq(exact) \in Int /\ SumSeq(rows) \in Int
  BY <1>1, <1>7, <1>10, <1>12, SumType
<1>16. ASSUME SumSeq(nets) <= 0 => c.half = 0
       PROVE  SumSeq(exact) = 100 * (SumSeq(nets) - c.half) - share
  <2>1. CASE m = 0
    <3>1. SumSeq(keptNets) = 0 /\ SumSeq(exact) = 0
      BY <1>9, <1>10, <2>1, SumOfNone
    <3>2. kept = <<>>
      BY <1>2, <2>1 DEF m
    <3>3. QED
      BY <1>3, <1>6, <1>16, <3>1, <3>2
  <2>2. CASE m = 1
    <3>1. SumSeq(keptNets) = 1 * keptNets[1] /\ SumSeq(exact) = 1 * exact[1]
      <4>1. /\ \A i \in 1 .. m : keptNets[i] = keptNets[1]
            /\ \A i \in 1 .. m : exact[i] = exact[1]
            /\ keptNets[1] \in Int /\ exact[1] \in Int
        BY <1>9, <1>10, <2>2
      <4>2. SumSeq(keptNets) = m * keptNets[1]
        BY <1>7, <1>9, <4>1, SumOfSame
      <4>3. SumSeq(exact) = m * exact[1]
        BY <1>7, <1>10, <4>1, SumOfSame
      <4>4. QED
        BY <2>2, <4>2, <4>3
    <3>2. keptNets[1] \in Int /\ exact[1] = 100 * (keptNets[1] - c.half) - share
      BY <1>9, <1>11, <2>2
    <3>3. QED
      BY <1>1, <1>3, <3>1, <3>2
  <2>3. QED
    BY <1>5, <1>7, <2>1, <2>2
<1>17. (SumSeq(nets) <= 0 => c.half = 0) =>
         100 * SumSeq(rows) - (100 * (SumSeq(nets) - c.half) - share) \in -(50 * m) .. 50 * m
  BY <1>14, <1>16
<1>18. QED
  BY <1>8, <1>13, <1>17 DEF nets, share

\* What is g times as far off as m times g is off by m.
LEMMA Divided ==
  ASSUME NEW g \in Nat \ {0}, NEW x \in Int, NEW m \in Nat, g * x \in -(m * g) .. m * g
  PROVE  x \in -m .. m
<1>1. g * x <= m * g => x <= m
  <2>1. SUFFICES ASSUME ~(x <= m) PROVE ~(g * x <= m * g)
    OBVIOUS
  <2>2. x - m >= 1 /\ x - m \in Int
    BY <2>1
  <2>3. g * (x - m) >= g
    BY <2>2
  <2>4. g * (x - m) = g * x - m * g
    OBVIOUS
  <2>5. QED
    BY <2>3, <2>4
<1>2. -(m * g) <= g * x => -m <= x
  <2>1. SUFFICES ASSUME ~(-m <= x) PROVE ~(-(m * g) <= g * x)
    OBVIOUS
  <2>2. -(x + m) >= 1 /\ x + m \in Int
    BY <2>1
  <2>3. g * (-(x + m)) >= g
    BY <2>2
  <2>4. g * (-(x + m)) = -(g * x) - m * g
    OBVIOUS
  <2>5. QED
    BY <2>3, <2>4
<1>3. QED
  BY <1>1, <1>2

\* The exact profits less the shares of the half, over the gross receipts.
ExactShares(n, net, gross, half, G, e) ==
  /\ n \in Nat /\ half \in Nat /\ G \in Int /\ G = SumSeq(gross)
  /\ net \in [1 .. n -> Int] /\ gross \in [1 .. n -> Int] /\ e \in [1 .. n -> Int]
  /\ \A i \in 1 .. n : e[i] = net[i] * G - half * gross[i]
LEMMA SharedExactly ==
  ASSUME NEW n, NEW net, NEW gross, NEW half, NEW G, NEW e,
         ExactShares(n, net, gross, half, G, e)
  PROVE  SumSeq(e) = G * (SumSeq(net) - half)
<1> USE DEF ExactShares
<1> DEFINE u == [i \in 1 .. n |-> G * net[i]]
           v == [i \in 1 .. n |-> half * gross[i]]
<1>0. \A x, y \in Int : x * y \in Int /\ x * y = y * x
  OBVIOUS
<1>1. u \in [1 .. n -> Int] /\ v \in [1 .. n -> Int]
  BY <1>0
<1>2. \A i \in 1 .. n : u[i] = G * net[i] /\ v[i] = half * gross[i]
  OBVIOUS
<1> HIDE DEF u, v
<1>3. \A i \in 1 .. n : u[i] = e[i] + v[i]
  <2>1. SUFFICES ASSUME NEW i \in 1 .. n PROVE u[i] = e[i] + v[i]
    OBVIOUS
  <2>2. /\ u[i] = G * net[i] /\ v[i] = half * gross[i]
        /\ e[i] = net[i] * G - half * gross[i] /\ net[i] \in Int
    BY <1>2
  <2>3. G * net[i] = net[i] * G
    BY <1>0, <2>2
  <2>4. u[i] \in Int /\ v[i] \in Int /\ e[i] \in Int /\ e[i] = u[i] - v[i]
    BY <1>1, <2>2, <2>3
  <2> QED
    BY <2>4
<1>4. SumSeq(u) = SumSeq(e) + SumSeq(v)
  BY <1>1, <1>3, SumAdds
<1>5. SumSeq(u) = G * SumSeq(net)
  BY <1>1, <1>2, SumScales
<1>6. SumSeq(v) = half * SumSeq(gross)
  <2>1. half \in Int
    OBVIOUS
  <2>2. QED
    BY <1>1, <1>2, <2>1, SumScales
<1>7. SumSeq(net) \in Int /\ SumSeq(e) \in Int /\ SumSeq(u) \in Int /\ SumSeq(v) \in Int
  BY <1>1, SumType
<1>8. G * (SumSeq(net) - half) = G * SumSeq(net) - half * G
  BY <1>7
<1>9. SumSeq(e) = SumSeq(u) - SumSeq(v)
  BY <1>4, <1>7
<1>10. QED
  BY <1>5, <1>6, <1>8, <1>9

\* Two active businesses or more: each row is the profit less its share of
\* the half, and the shares take the half off once.
LEMMA SeveralBusinessesCarry ==
  ASSUME NEW c, TypedInputs(c), ~(Len(ActiveBusinesses(c)) <= 1), Divisible(c)
  PROVE  /\ BusinessRows(c) \in Seq(Int)
         /\ 100 * SumSeq(BusinessRows(c)) - 100 * (SumSeq(NetsOf(c)) - c.half)
              \in -(50 * Len(BusinessRows(c))) .. 50 * Len(BusinessRows(c))
<1> DEFINE n == Len(c.businesses)
           S == RowAt(c)
           kept == Kept(n, S)
           m == Len(kept)
           G == GrossOf(c)
           nets == NetsOf(c)
           gross == GrossesOf(c)
           keptNets == [i \in DOMAIN kept |-> nets[kept[i]]]
           e == [i \in 1 .. n |-> nets[i] * G - c.half * gross[i]]
           keptExact == [i \in DOMAIN kept |-> e[kept[i]]]
           rows == [i \in DOMAIN kept |-> OwnQBI(c, kept[i])]
<1>0. \A x, y \in Int : x * y \in Int
  OBVIOUS
<1>1. /\ nets \in [1 .. n -> Int] /\ gross \in [1 .. n -> Int]
      /\ n \in Nat /\ DOMAIN c.businesses = 1 .. n /\ c.half \in Nat
      /\ G \in Int /\ G = SumSeq(gross)
      /\ \A i \in 1 .. n : nets[i] = c.businesses[i].net /\ gross[i] = c.businesses[i].gross
  BY InputSums DEF TypedInputs, NetsOf, GrossesOf
<1>2. kept \in Seq(S \cap (1 .. n))
  BY <1>1, KeptAre
<1>3. BusinessRows(c) = rows
  <2>1. BusinessRows(c) = LET k == Kept(Len(c.businesses), RowAt(c)) IN
                          [i \in DOMAIN k |-> OwnQBI(c, k[i])]
    BY BusinessRowsAre
  <2>2. QED
    BY <2>1
<1>4. c.half # 0 => G > 0
  <2>1. Len(ActiveBusinesses(c)) \in Nat
    BY ActiveCount
  <2>2. Len(ActiveBusinesses(c)) > 1
    BY <2>1
  <2>3. QED
    BY <1>1, <2>2 DEF Divisible
<1>5. \A i \in 1 .. n : i \notin S => nets[i] = 0 /\ c.half * gross[i] = 0
  BY <1>1 DEF RowAt
<1>6. \A i \in 1 .. n : OwnQBI(c, i) = IF c.half = 0 THEN nets[i]
                          ELSE RoundedRatio(nets[i] * G - c.half * gross[i], G)
  BY <1>1 DEF OwnQBI
<1> HIDE DEF kept, S, n, G, nets, gross
<1>7. m \in Nat /\ DOMAIN kept = 1 .. m /\ \A i \in 1 .. m : kept[i] \in 1 .. n
  BY <1>2
<1>8. e \in [1 .. n -> Int]
  <2>1. SUFFICES ASSUME NEW i \in 1 .. n PROVE nets[i] * G - c.half * gross[i] \in Int
    OBVIOUS
  <2>2. nets[i] \in Int /\ gross[i] \in Int /\ c.half \in Int
    BY <1>1
  <2>3. nets[i] * G \in Int /\ c.half * gross[i] \in Int
    BY <1>0, <1>1, <2>2
  <2>4. QED
    BY <2>3
<1>9. \A i \in 1 .. n : e[i] = nets[i] * G - c.half * gross[i]
  OBVIOUS
<1>10. SumSeq(keptNets) = SumSeq(nets)
  BY <1>1, <1>2, <1>5, KeptSumsAll DEF kept
<1>11. SumSeq(keptExact) = SumSeq(e)
  <2>1. \A i \in 1 .. n : i \notin S => e[i] = 0
    <3>1. SUFFICES ASSUME NEW i \in 1 .. n, i \notin S PROVE e[i] = 0
      OBVIOUS
    <3>2. nets[i] = 0 /\ c.half * gross[i] = 0
      BY <1>5, <3>1
    <3>3. 0 * G = 0
      BY <1>1
    <3>4. QED
      BY <1>9, <3>2, <3>3
  <2> HIDE DEF e
  <2>2. QED
    BY <1>1, <1>8, <2>1, KeptSumsAll DEF kept
<1> HIDE DEF e
<1>12. SumSeq(e) = G * (SumSeq(nets) - c.half)
  <2>1. ExactShares(n, nets, gross, c.half, G, e)
    BY <1>1, <1>8, <1>9 DEF ExactShares
  <2>2. QED
    BY <2>1, SharedExactly
<1>13. keptNets \in [1 .. m -> Int] /\ keptExact \in [1 .. m -> Int]
  BY <1>1, <1>7, <1>8
<1>14. \A i \in 1 .. m : keptExact[i] = nets[kept[i]] * G - c.half * gross[kept[i]]
  BY <1>7, <1>9
<1>15. \A i \in 1 .. m : keptNets[i] = nets[kept[i]]
  BY <1>7
<1>16. SumSeq(nets) \in Int /\ SumSeq(keptNets) \in Int
  BY <1>1, <1>7, <1>13, SumType
<1>17. \A i \in 1 .. m : rows[i] = OwnQBI(c, kept[i])
  BY <1>7
<1>18. DOMAIN rows = 1 .. m /\ rows = [i \in 1 .. m |-> rows[i]]
  BY <1>7
<1> HIDE DEF m, keptNets, keptExact, rows
<1>19. CASE c.half = 0
  <2>1. \A i \in 1 .. m : rows[i] = keptNets[i] /\ keptNets[i] \in Int
    BY <1>6, <1>7, <1>13, <1>15, <1>17, <1>19
  <2>2. rows = keptNets
    BY <1>13, <1>18, <2>1
  <2>3. rows \in Seq(Int) /\ Len(rows) = m
    BY <1>7, <1>13, <2>2, MapIsList
  <2>4. 100 * SumSeq(rows) - 100 * (SumSeq(nets) - c.half) = 0
    BY <1>10, <1>16, <1>19, <2>2
  <2>5. 0 \in -(50 * m) .. 50 * m
    BY <1>7
  <2>6. QED
    BY <1>3, <2>3, <2>4, <2>5 DEF nets
<1>20. CASE c.half # 0
  <2>1. G \in Nat \ {0}
    BY <1>1, <1>4, <1>20
  <2>2. \A i \in 1 .. m : /\ rows[i] \in Int
                          /\ 2 * (G * rows[i] - keptExact[i]) \in -G .. G
    <3>1. SUFFICES ASSUME NEW i \in 1 .. m
                   PROVE  rows[i] \in Int /\ 2 * (G * rows[i] - keptExact[i]) \in -G .. G
      OBVIOUS
    <3>2. rows[i] = RoundedRatio(keptExact[i], G) /\ keptExact[i] \in Int
      BY <1>6, <1>7, <1>13, <1>14, <1>17, <1>20
    <3>3. QED
      BY <2>1, <3>2, RatioWithinHalf
  <2>3. rows \in [1 .. m -> Int]
    BY <1>18, <2>2
  <2>4. rows \in Seq(Int) /\ Len(rows) = m
    BY <1>7, <2>3, MapIsList
  <2>5. 2 * (G * SumSeq(rows) - SumSeq(keptExact)) \in -(m * G) .. m * G
    BY <1>7, <1>13, <2>1, <2>2, <2>3, SumWithinRatio
  <2>6. SumSeq(rows) \in Int
    BY <1>7, <2>3, SumType
  <2> DEFINE d == 2 * (SumSeq(rows) - (SumSeq(nets) - c.half))
  <2>7. G * d = 2 * (G * SumSeq(rows) - G * (SumSeq(nets) - c.half)) /\ d \in Int
    BY <1>1, <1>16, <2>1, <2>6
  <2>8. G * d \in -(m * G) .. m * G
    <3>1. SumSeq(keptExact) = G * (SumSeq(nets) - c.half)
      BY <1>11, <1>12
    <3> HIDE DEF d
    <3>2. QED
      BY <2>5, <2>7, <3>1
  <2>9. d \in -m .. m
    <3> HIDE DEF d
    <3>1. QED
      BY <1>7, <2>1, <2>7, <2>8, Divided
  <2>10. 100 * SumSeq(rows) - 100 * (SumSeq(nets) - c.half) \in -(50 * m) .. 50 * m
    <3>1. 50 * d = 100 * SumSeq(rows) - 100 * (SumSeq(nets) - c.half)
      BY <1>1, <1>16, <2>6
    <3> HIDE DEF d
    <3>2. QED
      BY <1>7, <2>7, <2>9, <3>1
  <2>11. QED
    BY <1>3, <2>4, <2>10 DEF nets
<1>21. QED
  BY <1>19, <1>20

\* Form 8995's line 2 is an amount, and carries the exact QBI to within
\* half a dollar a row: whatever the number of businesses and of K-1s,
\* each reduction is taken once.
THEOREM QBICarries ==
  ASSUME NEW c, TypedInputs(c), Divisible(c)
  PROVE  /\ QBITotal(c) \in Int
         /\ /\ ~HealthQBIRefused(c)
            /\ ~(Len(ActiveBusinesses(c)) <= 1) => HealthShare(c) = 0
            /\ SumSeq(NetsOf(c)) <= 0 => c.half = 0
            => Near(100 * QBITotal(c), QBIBeforeRounding(c),
                    50 * Len(BusinessRows(c) \o K1Rows8995(c)))
<1> DEFINE rows == BusinessRows(c)
           k1s == K1Rows8995(c)
           nets == SumSeq(NetsOf(c))
           share == HealthShare(c)
           taken == Reduction(c)
           qbi == SumOf(c.k1QBI, LAMBDA q : q)
           once == /\ ~HealthQBIRefused(c)
                   /\ ~(Len(ActiveBusinesses(c)) <= 1) => share = 0
                   /\ nets <= 0 => c.half = 0
<1>0. nets \in Int /\ share \in Int /\ taken \in Int /\ c.half \in Int
  <2>1. c.half \in Int
    BY DEF TypedInputs
  <2>2. nets \in Int /\ share \in Int /\ taken \in Int
    <3>1. /\ SumSeq(NetsOf(c)) \in Int /\ HealthShare(c) \in Int /\ Reduction(c) \in Int
      BY InputSums, Zenon
    <3>2. QED
      BY <3>1
  <2>3. QED
    BY <2>1, <2>2
<1>1. /\ rows \in Seq(Int)
      /\ once => 100 * SumSeq(rows) - (100 * (nets - c.half) - share)
                   \in -(50 * Len(rows)) .. 50 * Len(rows)
  <2>1. CASE Len(ActiveBusinesses(c)) <= 1
    BY <2>1, OneBusinessCarries
  <2>2. CASE ~(Len(ActiveBusinesses(c)) <= 1)
    <3>1. /\ rows \in Seq(Int)
          /\ 100 * SumSeq(rows) - 100 * (nets - c.half) \in -(50 * Len(rows)) .. 50 * Len(rows)
      BY <2>2, SeveralBusinessesCarry
    <3>2. nets \in Int /\ c.half \in Int /\ share \in Int
      BY <1>0
    <3>3. once => share = 0
      BY <2>2
    <3>4. once => 100 * (nets - c.half) - share = 100 * (nets - c.half)
      BY <3>2, <3>3
    <3> HIDE DEF nets, share, rows, once
    <3>5. QED
      BY <3>1, <3>4
  <2>3. QED
    BY <2>1, <2>2
<1>2. /\ k1s \in Seq(Int) /\ Len(k1s) = Len(c.k1QBI)
      /\ once => 100 * SumSeq(k1s) - (qbi - taken) \in -(50 * Len(k1s)) .. 50 * Len(k1s)
  BY K1RowsCarry
<1>3. rows \in Seq(Int) /\ k1s \in Seq(Int)
  BY <1>1, <1>2
<1>4. qbi \in Int
  <2>1. SumOf(c.k1QBI, LAMBDA q : q) = SumSeq([i \in 1 .. Len(c.k1QBI) |-> c.k1QBI[i]])
    BY DEF SumOf, TypedInputs
  <2>2. /\ Len(c.k1QBI) \in Nat
        /\ [i \in 1 .. Len(c.k1QBI) |-> c.k1QBI[i]] \in [1 .. Len(c.k1QBI) -> Int]
    BY DEF TypedInputs
  <2>3. SumSeq([i \in 1 .. Len(c.k1QBI) |-> c.k1QBI[i]]) \in Int
    BY <2>2, SumType
  <2>4. QED
    BY <2>1, <2>3
<1>5. QBITotal(c) = SumSeq(rows) + SumSeq(k1s)
  <2>1. QBITotal(c) = SumSeq([i \in DOMAIN (rows \o k1s) |-> (rows \o k1s)[i]])
    BY DEF QBITotal, SumOf
  <2>2. rows \o k1s = [i \in DOMAIN (rows \o k1s) |-> (rows \o k1s)[i]]
    <3> HIDE DEF rows, k1s
    <3>1. rows \o k1s \in Seq(Int)
      BY <1>3
    <3>2. \A x \in Seq(Int) : x = [i \in DOMAIN x |-> x[i]]
      OBVIOUS
    <3>3. QED
      BY <3>1, <3>2
  <2> HIDE DEF rows, k1s
  <2>3. QED
    BY <1>3, <2>1, <2>2, SumJoins
<1>6. SumSeq(rows) \in Int /\ SumSeq(k1s) \in Int
  <2> HIDE DEF rows, k1s
  <2>1. /\ Len(rows) \in Nat /\ rows \in [1 .. Len(rows) -> Int]
        /\ Len(k1s) \in Nat /\ k1s \in [1 .. Len(k1s) -> Int]
    BY <1>3
  <2>2. QED
    BY <2>1, SumType
<1>7. Len(rows \o k1s) = Len(rows) + Len(k1s) /\ Len(rows) \in Nat /\ Len(k1s) \in Nat
  <2> HIDE DEF rows, k1s
  <2>1. QED
    BY <1>3
<1>8. QBIBeforeRounding(c) = qbi + 100 * (nets - c.half) - share - taken
  BY InputSums DEF QBIBeforeRounding
<1> DEFINE total == QBITotal(c)
           exact == QBIBeforeRounding(c)
           l == Len(rows \o k1s)
<1>9. once => 100 * total - exact \in -(50 * l) .. 50 * l
  <2> DEFINE lr == Len(rows)
             lk == Len(k1s)
             sr == SumSeq(rows)
             sk == SumSeq(k1s)
             a == 100 * (nets - c.half)
  <2>1. a \in Int
    BY <1>0
  <2>2. /\ once => 100 * sr - (a - share) \in -(50 * lr) .. 50 * lr
        /\ once => 100 * sk - (qbi - taken) \in -(50 * lk) .. 50 * lk
        /\ total = sr + sk /\ exact = qbi + a - share - taken /\ l = lr + lk
    BY <1>1, <1>2, <1>5, <1>7, <1>8
  <2>3. lr \in Nat /\ lk \in Nat /\ sr \in Int /\ sk \in Int
    BY <1>6, <1>7
  <2> HIDE DEF lr, lk, sr, sk, a, share, qbi, taken, nets, total, exact, l, once, rows, k1s
  <2>4. QED
    BY <1>0, <1>4, <2>1, <2>2, <2>3
<1>10. QED
  BY <1>5, <1>6, <1>9 DEF Near

\* Form 8995's lines are amounts.
LEMMA F8995Types ==
  ASSUME NEW c, TypedInputs(c), Divisible(c), NEW taxable \in Int, NEW netGain \in Int,
         NEW qualified \in Int
  PROVE  /\ F8995(c, taxable, netGain, qualified).line2 = QBITotal(c)
         /\ F8995(c, taxable, netGain, qualified).line2 \in Int
         /\ F8995(c, taxable, netGain, qualified).line15 \in Nat
         /\ F8995(c, taxable, netGain, qualified).line16 \in Int
<1> DEFINE total == QBITotal(c)
<1>1. total \in Int
  BY QBICarries
<1>2. \A x \in Int : Positive(x) \in Nat
  BY PositiveAndNegative
<1>3. \A x \in Nat : FifthOf(x) \in Nat
  BY DEF FifthOf
<1>4. \A x, y \in Nat : Smaller(x, y) \in Nat
  BY DEF Smaller
<1>5. \A x, y \in Int : Smaller(x, y) \in Int
  BY DEF Smaller
<1> HIDE DEF total
<1>6. taxable - (netGain + qualified) \in Int
  OBVIOUS
<1>7. /\ FifthOf(Positive(total)) \in Nat
      /\ FifthOf(Positive(taxable - (netGain + qualified))) \in Nat
  BY <1>1, <1>2, <1>3, <1>6, Zenon
<1>9. /\ Smaller(FifthOf(Positive(total)), FifthOf(Positive(taxable - (netGain + qualified)))) \in Nat
      /\ Smaller(total, 0) \in Int
  BY <1>1, <1>4, <1>5, <1>7
<1>10. QED
  BY <1>1, <1>9 DEF F8995, total

\* The inputs of Form 8995 are amounts; half of the self-employment tax is
\* nothing where the profits add up to none.
LEMMA QBIInputsTyped ==
  ASSUME NEW s, TypedScenario(s)
  PROVE  LET c == QBIInputs(s) IN
         /\ TypedInputs(c) /\ Len(c.businesses) = Len(s.businesses)
         /\ c.health = s.health /\ c.half = HalfOf(s)
         /\ SumSeq(NetsOf(c)) = BusinessIncome(s.businesses)
         /\ SumSeq(NetsOf(c)) <= 0 => c.half = 0
<1> DEFINE c == QBIInputs(s)
           x == s.businesses
           amounts == [i \in DOMAIN s.k1s |-> s.k1s[i].qbi]
           S == {i \in DOMAIN amounts : amounts[i] # 0}
<1>1. /\ ListOf(x, TypedBusiness) /\ ListOf(x, TypedActivity) /\ ListOf(s.k1s, TypedK1)
      /\ s.health \in Int
  BY DEF TypedScenario, TypedReturn, TypedActivities, TypedForms
<1>2. /\ IsList(x) /\ DOMAIN x = 1 .. Len(x) /\ Len(x) \in Nat
      /\ \A i \in DOMAIN x : Line31(x[i]) \in Int
      /\ BusinessIncome(x) \in Int
  BY <1>1, BusinessTypes DEF ListOf, IsList
<1>3. \A i \in DOMAIN x : Rounded(x[i].receipts) \in Int
  <2>1. \A i \in DOMAIN x : x[i].receipts \in Int
    BY <1>1, <1>2 DEF ListOf, TypedBusiness
  <2>2. QED
    BY <2>1, RoundedIsNearest
<1>4. amounts \in Seq(Int) /\ IsList(amounts)
  <2>1. Len(s.k1s) \in Nat /\ DOMAIN s.k1s = 1 .. Len(s.k1s)
    BY <1>1 DEF ListOf, IsList
  <2>2. amounts \in [1 .. Len(s.k1s) -> Int]
    BY <1>1, <2>1 DEF ListOf, TypedK1, K1Amounts8
  <2> HIDE DEF amounts
  <2>3. QED
    BY <2>1, <2>2, MapIsList
<1>5. c.k1QBI = Selection(amounts, S)
  <2>1. c.k1QBI = Where(K1Amounts(s, LAMBDA k : k.qbi), LAMBDA q : q # 0)
    BY DEF QBIInputs
  <2>2. K1Amounts(s, LAMBDA k : k.qbi) = amounts
    BY DEF K1Amounts
  <2>3. Where(amounts, LAMBDA q : q # 0) = Selection(amounts, S)
    <3> HIDE DEF amounts
    <3>1. QED
      BY DEF Where, Selection
  <2>4. QED
    BY <2>1, <2>2, <2>3
<1>6. c.k1QBI \in Seq(Int)
  <2> HIDE DEF amounts, S
  <2>1. IsList(c.k1QBI) /\ \A i \in 1 .. Len(c.k1QBI) : c.k1QBI[i] \in Int
    <3>1. /\ IsList(Selection(amounts, S))
          /\ \A i \in 1 .. Len(Selection(amounts, S)) :
               \E j \in 1 .. Len(amounts) : j \in S /\ Selection(amounts, S)[i] = amounts[j]
      BY <1>4, SelectedList
    <3>2. \A j \in 1 .. Len(amounts) : amounts[j] \in Int
      BY <1>4
    <3>3. QED
      BY <1>5, <3>1, <3>2
  <2>2. QED
    BY <2>1, ListIsSeq
<1>7. /\ c.businesses = [i \in DOMAIN x |->
                           [net |-> Line31(x[i]), gross |-> Rounded(x[i].receipts)]]
      /\ c.half = HalfOf(s) /\ c.health = s.health
  BY DEF QBIInputs
<1>8. c.half \in Nat
  BY <1>2, <1>7, WageTypes, SETypes DEF HalfOf
<1> HIDE DEF c
<1>9. /\ IsList(c.businesses) /\ Len(c.businesses) = Len(x)
      /\ \A i \in 1 .. Len(x) : /\ c.businesses[i].net = Line31(x[i])
                                /\ c.businesses[i].gross = Rounded(x[i].receipts)
  <2> DEFINE pair(i) == [net |-> Line31(x[i]), gross |-> Rounded(x[i].receipts)]
             P == {pair(i) : i \in 1 .. Len(x)}
             b == [i \in 1 .. Len(x) |-> pair(i)]
  <2>1. b \in [1 .. Len(x) -> P]
    OBVIOUS
  <2>2. \A i \in 1 .. Len(x) : b[i].net = Line31(x[i]) /\ b[i].gross = Rounded(x[i].receipts)
    OBVIOUS
  <2>3. c.businesses = b
    BY <1>2, <1>7
  <2> HIDE DEF b, P
  <2>4. Len(b) = Len(x) /\ IsList(b)
    BY <1>2, <2>1, MapIsList
  <2>5. QED
    BY <2>2, <2>3, <2>4
<1>10. TypedInputs(c)
  <2>1. \A i \in 1 .. Len(c.businesses) :
          c.businesses[i].net \in Int /\ c.businesses[i].gross \in Int
    BY <1>2, <1>3, <1>9
  <2>2. QED
    BY <1>1, <1>6, <1>7, <1>8, <1>9, <2>1 DEF TypedInputs
<1>11. SumSeq(NetsOf(c)) = BusinessIncome(x)
  <2>1. BusinessIncome(x) = SumSeq([i \in DOMAIN x |-> Line31(x[i])])
    BY DEF BusinessIncome, SumOf
  <2>2. NetsOf(c) = [i \in DOMAIN x |-> Line31(x[i])]
    BY <1>2, <1>9 DEF NetsOf
  <2>3. QED
    BY <2>1, <2>2
<1>12. SumSeq(NetsOf(c)) <= 0 => c.half = 0
  <2>1. SUFFICES ASSUME BusinessIncome(x) <= 0 PROVE HalfOf(s) = 0
    BY <1>7, <1>11
  <2>2. ~OwesSE(BusinessIncome(x))
    BY <1>2, <2>1 DEF OwesSE
  <2>3. SETax(BusinessIncome(x), Wages(s)) = 0
    BY <2>2 DEF SETax
  <2>4. (0 + 1) \div 2 = 0
    OBVIOUS
  <2>5. QED
    BY <2>3, <2>4 DEF HalfOf, HalfSE
<1>13. QED
  BY <1>7, <1>9, <1>10, <1>11, <1>12 DEF c

----------------------------------------------------------------------------
(* Deductions.                                                             *)

\* Schedule A's lines are amounts, whichever block they come from.
LEMMA ScheduleATypes ==
  ASSUME NEW s, TypedScenario(s), NEW itemized, TypedItemized(itemized), NEW agi \in Int
  PROVE  LET a == ScheduleAOf(s, itemized, agi) IN
         /\ a.line5a \in Int /\ a.line5b \in Int /\ a.line5e \in Int /\ a.line10 \in Int
         /\ a.line4 \in Nat /\ a.line14 \in Int /\ a.line17 \in Int
         /\ a.line17 = a.line4 + a.line5e + a.line10 + a.line14
<1>1. CASE itemized = None
  BY <1>1 DEF ScheduleAOf, NoScheduleA
<1>2. CASE itemized # None
  <2> DEFINE line4 == Positive(Rounded(itemized.medical) - MedicalFloor(agi))
             line5a == Rounded(StateWithheld(s) + itemized.stateTax)
             line5b == Rounded(itemized.propertyTax)
             cap == View[s.config.status].saltCap
             line5e == Smaller(line5a + line5b, cap)
             mortgage == Rounded(itemized.mortgage)
             charity == Rounded(itemized.charity)
  <2>1. /\ itemized.medical \in Int /\ itemized.stateTax \in Int /\ itemized.charity \in Int
        /\ itemized.mortgage \in Int /\ itemized.propertyTax \in Int
    BY <1>2 DEF TypedItemized
  <2>2. StateWithheld(s) \in Int
    BY WageTypes
  <2>3. StateWithheld(s) + itemized.stateTax \in Int /\ (15 * agi) \div 2 \in Int
    BY <2>1, <2>2
  <2>4. /\ line5a \in Int /\ line5b \in Int /\ mortgage \in Int /\ charity \in Int
        /\ Rounded(itemized.medical) \in Int /\ MedicalFloor(agi) \in Int
    BY <2>1, <2>3, RoundedIsNearest DEF MedicalFloor
  <2>5. cap \in Nat
    <3>1. s.config.status \in DOMAIN View
      BY TablesAssumption DEF TypedScenario
    <3>2. QED
      BY <3>1, FederalFormsAssumption DEF ViewAmounts
  <2>6. /\ ScheduleAOf(s, itemized, agi).line4 = line4
        /\ ScheduleAOf(s, itemized, agi).line5a = line5a
        /\ ScheduleAOf(s, itemized, agi).line5b = line5b
        /\ ScheduleAOf(s, itemized, agi).line5e = line5e
        /\ ScheduleAOf(s, itemized, agi).line10 = mortgage
        /\ ScheduleAOf(s, itemized, agi).line14 = charity
        /\ ScheduleAOf(s, itemized, agi).line17 = line4 + line5e + mortgage + charity
    BY <1>2 DEF ScheduleAOf, ScheduleA
  <2>7. line4 \in Nat
    BY <2>4, PositiveAndNegative
  <2> HIDE DEF line4, line5a, line5b, cap, mortgage, charity
  <2>8. line5e \in Int
    BY <2>4, <2>5 DEF Smaller
  <2> HIDE DEF line5e
  <2>9. line4 + line5e + mortgage + charity \in Int
    BY <2>4, <2>7, <2>8
  <2>10. QED
    BY <2>4, <2>6, <2>7, <2>8, <2>9
<1>3. QED
  BY <1>1, <1>2

\* The block of itemized deductions in effect is typed.
LEMMA EffectiveItemizedTyped ==
  ASSUME NEW s, TypedScenario(s)
  PROVE  TypedItemized(EffectiveItemized(s)) /\ TypedItemized(s.itemized)
<1>1. TypedItemized(s.itemized) /\ Typed1098(s.form1098)
  BY DEF TypedScenario, TypedReturn
<1>2. CASE s.itemized # None \/ s.form1098 = None
  BY <1>1, <1>2 DEF EffectiveItemized
<1>3. CASE ~(s.itemized # None \/ s.form1098 = None)
  <2>1. s.form1098.mortgage \in Int /\ s.form1098.propertyTax \in Int
    BY <1>1, <1>3 DEF Typed1098
  <2>2. EffectiveItemized(s) =
          [medical |-> 0, stateTax |-> 0, charity |-> 0,
           mortgage |-> s.form1098.mortgage, propertyTax |-> s.form1098.propertyTax]
    BY <1>3 DEF EffectiveItemized
  <2>3. QED
    BY <1>1, <2>1, <2>2 DEF TypedItemized
<1>4. QED
  BY <1>2, <1>3

\* The deduction, standard or itemized, is an amount, and the standard one
\* is never negative.
LEMMA DeductionTypes ==
  ASSUME NEW s, TypedScenario(s), NEW schA \in Int
  PROVE  /\ StandardDeduction(s.config) \in Nat
         /\ Deductions(s.charitable, schA, s.config) \in Int
<1> DEFINE v == View[s.config.status]
           boxes == AgeBoxes(s.config)
<1>1. v.deduction \in Nat /\ v.perAgeBox \in Nat
  <2>1. s.config.status \in DOMAIN View
    BY TablesAssumption DEF TypedScenario
  <2>2. QED
    BY <2>1, FederalFormsAssumption DEF ViewAmounts
<1>2. boxes \in {0, 1, 2}
  BY DEF AgeBoxes
<1>3. StandardDeduction(s.config) = v.deduction + boxes * v.perAgeBox
  BY DEF StandardDeduction
<1> HIDE DEF v, boxes
<1>4. boxes * v.perAgeBox \in Nat
  BY <1>1, <1>2
<1>5. StandardDeduction(s.config) \in Nat
  BY <1>1, <1>3, <1>4
<1>6. Rounded(s.charitable) \in Int
  BY RoundedIsNearest DEF TypedScenario, TypedReturn
<1>7. QED
  BY <1>5, <1>6 DEF Deductions

\* The figures of the deductions, of a return whose income figures are
\* amounts.
LEMMA DeductTypes ==
  ASSUME NEW s, TypedScenario(s), NEW f, TypedIncome(f)
  PROVE  LET new == DeductFigures(s, f) IN
         /\ new.deduction \in Int /\ new.taxable \in Int
         /\ new.taxable = f.preamble.agi - new.deduction
         /\ new.schA.line4 \in Nat /\ new.schA.line17 \in Int
         /\ new.ptc.line24 \in Int /\ new.ptc.line26 \in Nat /\ new.ptc.line29 \in Nat
         /\ Divisible(QBIInputs(s)) =>
              /\ new.qbi.line2 \in Int /\ new.qbi.line15 \in Nat /\ new.qbi.line16 \in Int
<1> DEFINE agi == f.preamble.agi
           schA == ScheduleAOf(s, EffectiveItemized(s), agi)
           deduction == Deductions(s.charitable, schA.line17, s.config)
           ptc == CreditOf(s, agi)
           qbi == F8995(QBIInputs(s), agi - deduction, f.preamble.netGain, f.income.qualified)
<1>1. /\ agi \in Int /\ f.preamble.netGain \in Int /\ f.income.qualified \in Int
  BY DEF TypedIncome
<1>2. schA.line4 \in Nat /\ schA.line17 \in Int
  BY <1>1, EffectiveItemizedTyped, ScheduleATypes
<1>3. deduction \in Int
  <2> HIDE DEF schA
  <2>1. QED
    BY <1>2, DeductionTypes
<1>4. ptc.line24 \in Int /\ ptc.line26 \in Nat /\ ptc.line29 \in Nat
  <2>1. CASE s.block = None
    BY <2>1 DEF CreditOf, NoCredit
  <2>2. CASE s.block # None
    <3>1. TypedBlock(s.block)
      BY DEF TypedScenario, TypedReturn
    <3>2. agi + s.block.exempt \in Int
      BY <1>1, <2>2, <3>1 DEF TypedBlock
    <3>3. ptc = F8962(s.block, agi + s.block.exempt, s.config)
      BY <2>2 DEF CreditOf
    <3> HIDE DEF ptc, agi
    <3>4. QED
      BY <2>2, <3>1, <3>2, <3>3, CreditTypes
  <2>3. QED
    BY <2>1, <2>2
<1>5. Divisible(QBIInputs(s)) => qbi.line2 \in Int /\ qbi.line15 \in Nat /\ qbi.line16 \in Int
  <2>1. TypedInputs(QBIInputs(s)) /\ agi - deduction \in Int
    <3>1. TypedInputs(QBIInputs(s))
      BY QBIInputsTyped
    <3> HIDE DEF deduction, agi
    <3>2. QED
      BY <1>1, <1>3, <3>1
  <2> HIDE DEF deduction, agi
  <2>2. QED
    BY <1>1, <2>1, F8995Types
<1>6. /\ DeductFigures(s, f).deduction = deduction /\ DeductFigures(s, f).taxable = agi - deduction
      /\ DeductFigures(s, f).schA = schA /\ DeductFigures(s, f).ptc = ptc
      /\ DeductFigures(s, f).qbi = qbi
  BY DEF DeductFigures
<1> HIDE DEF agi, schA, deduction, ptc, qbi
<1>7. agi - deduction \in Int
  BY <1>1, <1>3
<1>8. QED
  BY <1>2, <1>3, <1>4, <1>5, <1>6, <1>7 DEF agi

----------------------------------------------------------------------------
(* The lines of the 1040 below taxable income.                             *)

\* Lines 15 to 34 of a 1040 follow from its taxes and its payments.
Footed(p) ==
  /\ p.line15 \in Nat /\ p.line16 \in Nat /\ p.line17 \in Nat /\ p.line23 \in Nat
  /\ p.line18 = p.line16 + p.line17 /\ p.line22 = p.line18
  /\ p.line24 = p.line22 + p.line23 /\ p.line33 \in Int
  /\ p.line34 = Positive(p.line33 - p.line24)

\* The amounts the lines of a 1040 are worked out from.
SpineAmounts(p, status, deduction, qbi, qualified, medicare, seTax, ptc, eic, payments) ==
  /\ p.agi \in Int /\ p.netGain \in Int /\ status \in DOMAIN View
  /\ deduction \in Int /\ qbi \in Int /\ qualified \in Int
  /\ medicare.line18 \in Nat /\ medicare.line24 \in Nat /\ seTax \in Nat
  /\ ptc.line26 \in Nat /\ ptc.line29 \in Nat /\ eic \in Int
  /\ payments.w2 \in Int /\ payments.other \in Int /\ payments.estimated \in Int
\* What the lines carry over from them.
SpineCarries(q, p, medicare, seTax, ptc, payments) ==
  /\ q.line9 = p.total /\ q.line11 = p.agi
  /\ q.line17 = ptc.line29 /\ q.line23 = medicare.line18 + seTax
  /\ q.line25d = payments.w2 + payments.other + MedicareWithheld(medicare)
  /\ q.line25d \in Int

\* The lines of a 1040 foot, whatever the amounts they are worked out from.
THEOREM SpineFoots ==
  ASSUME NEW p, NEW status, NEW deduction, NEW qbi, NEW qualified, NEW medicare,
         NEW seTax, NEW ptc, NEW eic, NEW payments,
         SpineAmounts(p, status, deduction, qbi, qualified, medicare, seTax, ptc, eic,
                      payments),
         NEW q, q = Spine(p, status, deduction, qbi, qualified, medicare, seTax, ptc, eic,
                          payments)
  PROVE  /\ Footed(q) /\ q.line37 = Positive(q.line24 - q.line33)
         /\ SpineCarries(q, p, medicare, seTax, ptc, payments)
<1> DEFINE taxable == Positive(p.agi - deduction - qbi)
           line16 == QDCGTTax(taxable, qualified, p.netGain, status)
           withheld == MedicareWithheld(medicare)
           line25d == payments.w2 + payments.other + withheld
           line33 == line25d + payments.estimated + ptc.line26 + eic
           line24 == line16 + medicare.line18 + ptc.line29 + seTax
<1>0. /\ p.agi \in Int /\ p.netGain \in Int /\ status \in DOMAIN View
      /\ deduction \in Int /\ qbi \in Int /\ qualified \in Int
      /\ medicare.line18 \in Nat /\ medicare.line24 \in Nat /\ seTax \in Nat
      /\ ptc.line26 \in Nat /\ ptc.line29 \in Nat /\ eic \in Int
      /\ payments.w2 \in Int /\ payments.other \in Int /\ payments.estimated \in Int
  BY DEF SpineAmounts
<1>1. taxable \in Nat
  <2>1. p.agi - deduction - qbi \in Int
    BY <1>0
  <2>2. QED
    BY <2>1, PositiveAndNegative
<1>2. withheld \in Nat
  BY <1>0 DEF MedicareWithheld
<1>3. /\ q.line9 = p.total /\ q.line11 = p.agi /\ q.line15 = taxable /\ q.line16 = line16
      /\ q.line17 = ptc.line29
      /\ q.line18 = line16 + ptc.line29
  BY Zenon DEF Spine
<1>11. q.line22 = Positive((line16 + ptc.line29) - 0)
  BY Zenon DEF Spine
<1>4. /\ q.line23 = medicare.line18 + seTax /\ q.line24 = line24
      /\ q.line25d = line25d /\ q.line33 = line33
      /\ q.line34 = Positive(line33 - line24)
      /\ q.line37 = Positive(line24 - line33)
  BY Zenon DEF Spine
<1> HIDE DEF taxable
<1>5. line16 \in Nat
  BY <1>0, <1>1, QDCGTTaxType
<1> HIDE DEF line16
<1>6. Positive((line16 + ptc.line29) - 0) = line16 + ptc.line29
  BY <1>0, <1>5, PositiveAndNegative
<1> HIDE DEF withheld
<1>7. line25d \in Int /\ line33 \in Int /\ line24 \in Int
  BY <1>0, <1>2, <1>5
<1>8. line24 = (line16 + ptc.line29) + (medicare.line18 + seTax)
  BY <1>0, <1>5
<1> HIDE DEF line24, line25d, line33
<1>9. Footed(q)
  BY <1>0, <1>1, <1>3, <1>4, <1>5, <1>6, <1>7, <1>8, <1>11 DEF Footed
<1>12. q.line37 = Positive(q.line24 - q.line33)
  BY <1>4
<1>10. QED
  BY <1>3, <1>4, <1>7, <1>9, <1>12 DEF line25d, withheld, SpineCarries

\* The earned income credit of a native return is an amount.
LEMMA CreditType ==
  ASSUME NEW s, TypedScenario(s), NEW f, TypedIncome(f)
  PROVE  EarnedIncomeCredit(TentativeOf(s, f), s.facts, s.config) \in Nat
<1>1. TentativeOf(s, f) \in Nat
  <2> DEFINE net == BusinessIncome(s.businesses)
             earned == EarnedIncome(f.income.wages, s.businesses,
                          NearestDollar(NetEarnings(net)), net, HalfOf(s))
             invest == InvestmentIncome(Rounded(s.exempt), f.income.interest,
                          f.income.dividends, CapitalLine(f.gains))
  <2>1. CASE Cell(s) \notin NativeEIC
    BY <2>1 DEF TentativeOf
  <2>2. CASE Cell(s) \in NativeEIC
    <3>1. s.config.status \in DOMAIN EICTable \cap DOMAIN EICPhaseout
      BY <2>2, TablesAssumption DEF Cell
    <3>2. earned \in Int
      <4>1. net \in Int /\ HalfOf(s) \in Int
        <5>1. net \in Int
          BY BusinessTypes DEF TypedScenario, TypedReturn, TypedActivities
        <5>2. HalfOf(s) \in Nat
          BY <5>1, WageTypes, SETypes DEF HalfOf
        <5>3. QED
          BY <5>1, <5>2
      <4>2. f.income.wages \in Int
        BY DEF TypedIncome
      <4> HIDE DEF net
      <4>3. QED
        BY <4>1, <4>2 DEF EarnedIncome
    <3>3. TentativeOf(s, f) = TentativeCredit(earned, invest, f.preamble.agi, s.config)
      BY <2>2 DEF TentativeOf
    <3> HIDE DEF earned, invest
    <3>4. f.preamble.agi \in Int
      BY DEF TypedIncome
    <3>5. QED
      BY <3>1, <3>2, <3>3, <3>4, TentativeCreditType
  <2>3. QED
    BY <2>1, <2>2
<1>2. QED
  BY <1>1 DEF EarnedIncomeCredit

----------------------------------------------------------------------------
(* The wages in the workbook's cells.                                      *)

\* A list cut at a number it does not exceed is itself.
LEMMA FirstIsAll ==
  ASSUME NEW x, IsList(x), NEW n \in Nat, Len(x) <= n
  PROVE  First(x, n) = x
<1>1. Len(x) \in Nat /\ x = [i \in 1 .. Len(x) |-> x[i]]
  BY DEF IsList
<1>2. Smaller(Len(x), n) = Len(x)
  BY <1>1 DEF Smaller
<1>3. QED
  BY <1>1, <1>2 DEF First

\* Where every W-2 has its column, the workbook has them all.
LEMMA SheetW2sAre ==
  ASSUME NEW s, IsList(s.w2s), ~UnmappedW2s(s)
  PROVE  \E S, T : /\ S \cup T = 1 .. Len(s.w2s) /\ S \cap T = {}
                   /\ SheetW2s(s) = Selection(s.w2s, S) \o Selection(s.w2s, T)
<1> DEFINE x == s.w2s
           S == {i \in DOMAIN x : x[i].owner # "spouse"}
           T == {i \in DOMAIN x : x[i].owner = "spouse"}
<1>1. /\ Len(W2sOf(s, "taxpayer")) <= Employers \/ Len(W2sOf(s, "taxpayer")) > Employers
      /\ ~(Len(W2sOf(s, "taxpayer")) > Employers) /\ ~(Len(W2sOf(s, "spouse")) > Employers)
  <2>1. \A owner \in {"taxpayer", "spouse"} : ~(Len(W2sOf(s, owner)) > Employers)
    BY DEF UnmappedW2s
  <2>2. \A owner : Len(W2sOf(s, owner)) \in Nat
    BY SheetW2sFrom DEF From, IsList
  <2>3. Employers \in Nat
    BY CellsAssumption
  <2> HIDE DEF x
  <2>4. QED
    BY <2>1, <2>2, <2>3
<1>2. \A owner \in {"taxpayer", "spouse"} : First(W2sOf(s, owner), Employers) = W2sOf(s, owner)
  <2> SUFFICES ASSUME NEW owner \in {"taxpayer", "spouse"}
               PROVE  First(W2sOf(s, owner), Employers) = W2sOf(s, owner)
    OBVIOUS
  <2> DEFINE y == W2sOf(s, owner)
  <2>1. IsList(y) /\ Employers \in Nat
    BY SheetW2sFrom, CellsAssumption DEF From
  <2>2. Len(y) \in Nat /\ ~(Len(y) > Employers)
    BY <1>1, <2>1 DEF IsList
  <2> HIDE DEF y
  <2>3. First(y, Employers) = y
    BY <2>1, <2>2, FirstIsAll
  <2>4. QED
    BY <2>3 DEF y
<1>3. W2sOf(s, "taxpayer") = Selection(x, S) /\ W2sOf(s, "spouse") = Selection(x, T)
  <2>1. S = {i \in DOMAIN x : (x[i].owner = "spouse") = ("taxpayer" = "spouse")}
    OBVIOUS
  <2>2. T = {i \in DOMAIN x : (x[i].owner = "spouse") = ("spouse" = "spouse")}
    OBVIOUS
  <2> DEFINE of(owner) == {i \in DOMAIN x : (x[i].owner = "spouse") = (owner = "spouse")}
  <2>3. ASSUME NEW owner PROVE W2sOf(s, owner) = Selection(x, of(owner))
    BY DEF W2sOf, Where, Selection
  <2>4. of("taxpayer") = S /\ of("spouse") = T
    OBVIOUS
  <2> HIDE DEF of, S, T
  <2>5. QED
    BY <2>3, <2>4
<1>4. SheetW2s(s) = Selection(x, S) \o Selection(x, T)
  <2> HIDE DEF S, T, x
  <2>1. QED
    BY <1>2, <1>3 DEF SheetW2s
<1>5. S \cup T = 1 .. Len(x) /\ S \cap T = {}
  <2>1. DOMAIN x = 1 .. Len(x)
    BY DEF IsList
  <2>2. QED
    BY <2>1
<1> HIDE DEF S, T
<1>6. QED
  BY <1>4, <1>5

\* And adds up the same wages and withholding.
LEMMA SheetTotals ==
  ASSUME NEW s, TypedScenario(s), ~UnmappedW2s(s)
  PROVE  LET t == InWorkbook(s) IN
         /\ Total(t, LAMBDA w : w.wages) = Total(s, LAMBDA w : w.wages)
         /\ Total(t, LAMBDA w : w.medicare) = Total(s, LAMBDA w : w.medicare)
         /\ Total(t, LAMBDA w : w.withheld) = Total(s, LAMBDA w : w.withheld)
<1> DEFINE x == s.w2s
           V == {x[i] : i \in 1 .. Len(x)}
           y == SheetW2s(s)
<1>1. IsList(x) /\ \A i \in 1 .. Len(x) : TypedW2(x[i])
  BY DEF TypedScenario, TypedReturn, TypedForms, ListOf
<1>2. x \in Seq(V)
  BY <1>1, ListIsSeq
<1>3. \A w \in V : w.wages \in Int /\ w.medicare \in Int /\ w.withheld \in Int
  BY <1>1 DEF TypedW2
<1>4. InWorkbook(s).w2s = y
  BY DEF InWorkbook, TypedScenario, TypedReturn, ReturnFields
<1>5. PICK S, T : S \cup T = 1 .. Len(x) /\ S \cap T = {}
                  /\ y = Selection(x, S) \o Selection(x, T)
  BY <1>1, SheetW2sAre
<1> HIDE DEF V
<1>6. ASSUME NEW f \in [V -> Int]
      PROVE  y \in Seq(V) /\ SumBy(f, y) = SumBy(f, x)
  <2>1. S \cup T = 1 .. Len(x) /\ S \cap T = {}
    BY <1>5
  <2> HIDE DEF x, y
  <2>2. /\ Selection(x, S) \o Selection(x, T) \in Seq(V)
        /\ SumBy(f, Selection(x, S) \o Selection(x, T)) = SumBy(f, x)
    BY <1>2, <2>1, <1>6, SharedOutSums
  <2>3. QED
    BY <1>5, <2>2
<1>7. \A z \in Seq(V) : \A i \in DOMAIN z : z[i] \in V
  OBVIOUS
<1> HIDE DEF y
<1>8. Total(InWorkbook(s), LAMBDA w : w.wages) = Total(s, LAMBDA w : w.wages)
  <2> DEFINE f == [w \in V |-> w.wages]
  <2>1. f \in [V -> Int]
    BY <1>3
  <2>2. y \in Seq(V) /\ SumBy(f, y) = SumBy(f, x)
    <3> HIDE DEF f
    <3>1. QED
      BY <1>6, <2>1
  <2>3. /\ [i \in DOMAIN y |-> f[y[i]]] = [i \in DOMAIN y |-> y[i].wages]
        /\ [i \in DOMAIN x |-> f[x[i]]] = [i \in DOMAIN x |-> x[i].wages]
    BY <1>2, <1>7, <2>2
  <2>4. QED
    BY <1>4, <2>2, <2>3 DEF Total, SumOf, SumBy
<1>9. Total(InWorkbook(s), LAMBDA w : w.medicare) = Total(s, LAMBDA w : w.medicare)
  <2> DEFINE f == [w \in V |-> w.medicare]
  <2>1. f \in [V -> Int]
    BY <1>3
  <2>2. y \in Seq(V) /\ SumBy(f, y) = SumBy(f, x)
    <3> HIDE DEF f
    <3>1. QED
      BY <1>6, <2>1
  <2>3. /\ [i \in DOMAIN y |-> f[y[i]]] = [i \in DOMAIN y |-> y[i].medicare]
        /\ [i \in DOMAIN x |-> f[x[i]]] = [i \in DOMAIN x |-> x[i].medicare]
    BY <1>2, <1>7, <2>2
  <2>4. QED
    BY <1>4, <2>2, <2>3 DEF Total, SumOf, SumBy
<1>10. Total(InWorkbook(s), LAMBDA w : w.withheld) = Total(s, LAMBDA w : w.withheld)
  <2> DEFINE f == [w \in V |-> w.withheld]
  <2>1. f \in [V -> Int]
    BY <1>3
  <2>2. y \in Seq(V) /\ SumBy(f, y) = SumBy(f, x)
    <3> HIDE DEF f
    <3>1. QED
      BY <1>6, <2>1
  <2>3. /\ [i \in DOMAIN y |-> f[y[i]]] = [i \in DOMAIN y |-> y[i].withheld]
        /\ [i \in DOMAIN x |-> f[x[i]]] = [i \in DOMAIN x |-> x[i].withheld]
    BY <1>2, <1>7, <2>2
  <2>4. QED
    BY <1>4, <2>2, <2>3 DEF Total, SumOf, SumBy
<1>11. QED
  BY <1>8, <1>9, <1>10

\* So the workbook works out the wages, the Medicare tax and the withheld
\* tax of the whole return, one that has no business.
LEMMA SheetWages ==
  ASSUME NEW s, TypedScenario(s), ~UnmappedW2s(s), s.businesses = <<>>
  PROVE  LET t == InWorkbook(s) IN
         /\ Wages(t) = Wages(s) /\ PaidOf(t).w2 = PaidOf(s).w2
         /\ MedicareOf(t) = MedicareOf(s)
         /\ BusinessIncome(t.businesses) = BusinessIncome(s.businesses)
<1> DEFINE t == InWorkbook(s)
<1>1. t.businesses = s.businesses /\ t.config = s.config
  BY DEF InWorkbook, TypedScenario, TypedReturn, ReturnFields
<1>2. /\ Total(t, LAMBDA w : w.wages) = Total(s, LAMBDA w : w.wages)
      /\ Total(t, LAMBDA w : w.medicare) = Total(s, LAMBDA w : w.medicare)
      /\ Total(t, LAMBDA w : w.withheld) = Total(s, LAMBDA w : w.withheld)
  BY SheetTotals
<1> HIDE DEF t
<1>3. Wages(t) = Wages(s)
  BY <1>2 DEF Wages
<1>4. PaidOf(t).w2 = PaidOf(s).w2
  BY <1>2 DEF PaidOf
<1>5. MedicareOf(t) = MedicareOf(s)
  BY <1>1, <1>2, <1>3 DEF MedicareOf
<1>6. QED
  BY <1>1, <1>3, <1>4, <1>5 DEF t

----------------------------------------------------------------------------
(* California.                                                             *)

\* California's tax of an income is an amount, table or schedule.
LEMMA CATaxType ==
  ASSUME NEW status \in DOMAIN CAView, NEW taxable \in Int
  PROVE  CATax(taxable, status) \in Int
<1> DEFINE schedule == CAView[status].schedule
<1>1. /\ Len(schedule) \in Nat /\ DOMAIN schedule = 1 .. Len(schedule)
      /\ \A i \in DOMAIN schedule : schedule[i][1] \in Nat /\ schedule[i][2] \in Nat
  BY CaliforniaAssumption
<1> HIDE DEF schedule
<1>2. ASSUME NEW income \in Int PROVE CAScheduleTax(income, schedule) \in Int
  <2> DEFINE upper(i) == IF i = Len(schedule) THEN income
                         ELSE Smaller(income, schedule[i + 1][1])
             slice(i) == Positive(upper(i) - schedule[i][1])
             slices == [i \in DOMAIN schedule |-> slice(i) * schedule[i][2]]
  <2>1. \A i \in DOMAIN schedule : upper(i) \in Int
    <3> SUFFICES ASSUME NEW i \in DOMAIN schedule PROVE upper(i) \in Int
      OBVIOUS
    <3>1. i # Len(schedule) => i + 1 \in DOMAIN schedule
      BY <1>1
    <3>2. i # Len(schedule) => schedule[i + 1][1] \in Int
      BY <1>1, <3>1
    <3>3. QED
      BY <3>2 DEF Smaller
  <2> HIDE DEF upper
  <2>2. \A i \in DOMAIN schedule : slice(i) \in Nat
    <3> SUFFICES ASSUME NEW i \in DOMAIN schedule PROVE slice(i) \in Nat
      OBVIOUS
    <3>1. upper(i) - schedule[i][1] \in Int
      BY <1>1, <2>1
    <3>2. QED
      BY <3>1, LargerTypes
  <2> HIDE DEF slice
  <2>3. \A x, y \in Nat : x * y \in Int
    OBVIOUS
  <2>4. slices \in [1 .. Len(schedule) -> Int]
    BY <1>1, <2>2, <2>3
  <2> HIDE DEF slices
  <2>5. SumSeq(slices) \in Int
    BY <1>1, <2>4, SumType
  <2>6. CAScheduleTax(income, schedule) = RoundedRatio(SumSeq(slices), 1000)
    BY DEF CAScheduleTax, slices, slice, upper
  <2>7. QED
    BY <2>5, <2>6, RatioWithinHalf
<1>3. 100 * ((taxable - 50 + 99) \div 100) \in Int
  OBVIOUS
<1>4. QED
  BY <1>2, <1>3, SMT DEF CATax, schedule

\* Dropping cents leaves dollars, and no sign.
LEMMA TruncatedType ==
  ASSUME NEW cents \in Int
  PROVE  Truncated(cents) \in Int /\ (cents >= 0 => Truncated(cents) \in Nat)
BY DEF Truncated

\* The lines of Form 540: those without a California refusal are amounts.
Lines540(f, whole, voluntary) ==
  /\ {f.line48, f.useTax, f.penalty, f.line71, f.line72, f.voluntary, whole} \subseteq Int
  /\ f.line48 \in Nat /\ Optional(f.interest)
  /\ whole = f.line48 + f.useTax + f.penalty - f.line72 - f.line71
  /\ f.voluntary = Rounded(voluntary) /\ f.liability = Rounded(100 * whole + voluntary)
LEMMA Form540Types ==
  ASSUME NEW ca, ca # None, TypedCA(ca), NEW config, config.status \in DOMAIN CAView,
         NEW caAGI \in Int, NEW itemized, Optional(itemized), NEW withheld \in Int
  PROVE  /\ Voluntary(ca) \in Int
         /\ \E whole \in Int :
              Lines540(Form540(ca, config, caAGI, itemized, withheld), whole, Voluntary(ca))
<1> DEFINE form == Form540(ca, config, caAGI, itemized, withheld)
           v == CAView[config.status]
           deduction == Larger(v.deduction, IF itemized = None THEN 0 ELSE itemized)
           taxable == Positive(caAGI - deduction)
           tax == CATax(taxable, config.status)
           boxes == AgeBoxes(config)
           line33 == TaxAfterExemption(taxable, config)
           line48 == Positive(line33 - Truncated(ca.ptet))
           whole == line48 + Truncated(ca.useTax) + Truncated(ca.penalty)
                      - Truncated(ca.estimated) - Truncated(withheld)
<1>1. /\ ca.ptet \in Int /\ ca.useTax \in Int /\ ca.penalty \in Int /\ ca.estimated \in Int
      /\ Optional(ca.interest) /\ ca.voluntary \in Seq(Int)
  BY DEF TypedCA, Amounts
<1>2. Voluntary(ca) \in Int
  BY <1>1, SumsOfAmounts DEF Voluntary
<1>3. v.deduction \in Nat /\ v.exemption \in Nat /\ SeniorCredit \in Nat
  BY CaliforniaAssumption
<1>4. boxes \in {0, 1, 2}
  BY DEF AgeBoxes
<1> HIDE DEF v, boxes
<1>5. deduction \in Int
  BY <1>3 DEF Optional, Larger
<1> HIDE DEF deduction
<1>6. taxable \in Nat
  BY <1>5, LargerTypes
<1> HIDE DEF taxable
<1>7. tax \in Int
  BY <1>6, CATaxType
<1> HIDE DEF tax
<1>8. line33 \in Nat
  <2>1. SeniorCredit * boxes \in Int
    BY <1>3, <1>4
  <2>2. tax - v.exemption - SeniorCredit * boxes \in Int
    BY <1>3, <1>7, <2>1
  <2>3. line33 = Positive(tax - v.exemption - SeniorCredit * boxes)
    BY DEF TaxAfterExemption, tax, v, boxes
  <2>4. QED
    BY <2>2, <2>3, LargerTypes
<1> HIDE DEF line33
<1>9. /\ Truncated(ca.ptet) \in Int /\ Truncated(ca.useTax) \in Int
      /\ Truncated(ca.penalty) \in Int /\ Truncated(ca.estimated) \in Int
      /\ Truncated(withheld) \in Int
  BY <1>1, TruncatedType
<1>10. line48 \in Nat
  <2>1. line33 - Truncated(ca.ptet) \in Int
    BY <1>8, <1>9
  <2>2. QED
    BY <2>1, LargerTypes
<1>11. ca.interest # None => Truncated(ca.interest) \in Int
  BY <1>1, TruncatedType DEF Optional
<1>12. /\ form.line48 = line48 /\ form.useTax = Truncated(ca.useTax)
       /\ form.penalty = Truncated(ca.penalty) /\ form.line71 = Truncated(withheld)
       /\ form.line72 = Truncated(ca.estimated)
       /\ form.voluntary = Rounded(Voluntary(ca))
       /\ form.interest = IF ca.interest = None THEN None ELSE Truncated(ca.interest)
       /\ form.liability = Rounded(100 * whole + Voluntary(ca))
  BY DEF Form540, line48, line33, taxable, deduction, v
<1> HIDE DEF form, line48
<1>13. whole \in Int
  BY <1>9, <1>10
<1>14. whole = form.line48 + form.useTax + form.penalty - form.line72 - form.line71
  BY <1>12
<1> HIDE DEF whole
<1>15. form.voluntary \in Int
  BY <1>2, <1>12, RoundedIsNearest
<1>16. Optional(form.interest)
  BY <1>11, <1>12 DEF Optional
<1>17. Lines540(form, whole, Voluntary(ca))
  BY <1>9, <1>10, <1>12, <1>13, <1>14, <1>15, <1>16 DEF Lines540
<1>18. QED
  BY <1>2, <1>13, <1>17 DEF form

\* What the rows of Schedule CA add up to.
LEMMA RowsTyped ==
  ASSUME NEW ca, ca # None, TypedCA(ca), NEW fed, fed.unemployment \in Int, fed.refund \in Int
  PROVE  LET rows == Rows(fed, ca) IN
         /\ IsList(rows) /\ \A i \in DOMAIN rows : rows[i].amount \in Int
<1> DEFINE user == UserRows(ca)
           auto == AutoRows(fed, ca)
           ids == {id \in DOMAIN Catalog : AutoAmount(Catalog[id].auto, fed, ca) > 0}
           n == Cardinality(ids)
           m == Len(ca.divergences)
<1>1. /\ Optional(ca.rrb) /\ Optional(ca.pfl)
      /\ m \in Nat /\ DOMAIN ca.divergences = 1 .. m
      /\ \A i \in 1 .. m : ca.divergences[i].amount \in Int
  BY DEF TypedCA, ListOf, IsList, TypedDivergence
<1>2. \A name : AutoAmount(name, fed, ca) \in Int
  BY <1>1 DEF AutoAmount, Optional
<1>3. n \in Nat
  <2>1. IsFiniteSet(DOMAIN Catalog) /\ ids \subseteq DOMAIN Catalog
    BY CaliforniaAssumption
  <2>2. IsFiniteSet(ids)
    BY <2>1, FS_Subset
  <2>3. QED
    BY <2>2, FS_CardinalityType
<1>4. \A id, amount, direction : Row(id, amount, direction).amount = amount
  BY DEF Row
<1>5. DOMAIN user = 1 .. m /\ \A i \in 1 .. m : user[i].amount \in Int
  <2>1. user = [i \in 1 .. m |-> Row(ca.divergences[i].id, ca.divergences[i].amount,
                                      ca.divergences[i].direction)]
    BY <1>1 DEF UserRows
  <2>2. QED
    BY <1>1, <1>4, <2>1
<1>6. DOMAIN auto = 1 .. n /\ \A i \in 1 .. n : auto[i].amount \in Int
  <2> DEFINE at(i) == SX!SetToSeq(ids)[i]
             amountAt(i) == AutoAmount(Catalog[at(i)].auto, fed, ca)
  <2>1. auto = [i \in 1 .. n |-> Row(at(i), amountAt(i), None)]
    BY DEF AutoRows
  <2>2. \A i : amountAt(i) \in Int
    BY <1>2
  <2> HIDE DEF at, amountAt, n, auto
  <2>3. QED
    BY <1>4, <2>1, <2>2
<1> HIDE DEF user, auto, n, m
<1>7. user \in Seq({user[i] : i \in 1 .. m}) /\ Len(user) = m
  <2>1. user \in [1 .. m -> {user[i] : i \in 1 .. m}]
    <3>1. user = [i \in 1 .. m |-> user[i]]
      <4>1. user = [i \in DOMAIN user |-> user[i]]
        BY DEF user, UserRows
      <4>2. QED
        BY <1>5, <4>1
    <3>2. QED
      BY <3>1
  <2>2. QED
    BY <1>1, <2>1 DEF m
<1>8. auto \in Seq({auto[i] : i \in 1 .. n}) /\ Len(auto) = n
  <2>1. auto \in [1 .. n -> {auto[i] : i \in 1 .. n}]
    <3>1. auto = [i \in 1 .. n |-> auto[i]]
      <4>1. auto = [i \in DOMAIN auto |-> auto[i]]
        BY DEF auto, AutoRows
      <4>2. QED
        BY <1>6, <4>1
    <3>2. QED
      BY <3>1
  <2>2. QED
    BY <1>3, <2>1
<1> DEFINE V == {user[i] : i \in 1 .. m} \cup {auto[i] : i \in 1 .. n}
           rows == user \o auto
<1>9. user \in Seq(V) /\ auto \in Seq(V)
  BY <1>7, <1>8
<1>10. \A x \in V : x.amount \in Int
  BY <1>5, <1>6
<1> HIDE DEF V
<1>11. rows \in Seq(V)
  BY <1>9
<1>12. Rows(fed, ca) = rows
  BY DEF Rows, user, auto
<1> HIDE DEF rows
<1>13. IsList(rows) /\ \A i \in DOMAIN rows : rows[i] \in V
  BY <1>11 DEF IsList
<1>14. QED
  BY <1>10, <1>12, <1>13

\* California's adjusted gross income is an amount.
LEMMA ScheduleCATypes ==
  ASSUME NEW ca, ca # None, TypedCA(ca),
         NEW fed, fed.unemployment \in Int, fed.refund \in Int, fed.agi \in Int
  PROVE  ScheduleCA(ca, fed).caAGI \in Int
<1> DEFINE rows == Rows(fed, ca)
<1>1. IsList(rows) /\ \A i \in DOMAIN rows : rows[i].amount \in Int
  BY RowsTyped
<1> HIDE DEF rows
<1>2. ASSUME NEW section, NEW column PROVE ColumnSum(rows, section, column) \in Int
  <2> DEFINE a == [i \in DOMAIN rows |->
                     IF (rows[i].section = "C") = (section = "C") /\ rows[i].column = column
                     THEN rows[i].amount ELSE 0]
  <2>1. a \in [DOMAIN rows -> Int]
    BY <1>1
  <2>2. SumSeq(a) \in Int
    BY <1>1, <2>1, SumListed
  <2>3. QED
    BY <2>2 DEF ColumnSum, SumOf
<1>3. \A column : Line27(rows, column) \in Int
  BY <1>2 DEF Line27
<1>4. 100 * fed.agi - Line27(rows, "sub") + Line27(rows, "add") \in Int
  BY <1>3
<1>5. ScheduleCA(ca, fed).caAGI
        = Rounded(100 * fed.agi - Line27(rows, "sub") + Line27(rows, "add"))
  BY DEF ScheduleCA, rows
<1>6. QED
  BY <1>4, <1>5, RoundedIsNearest

\* California's figures of a return whose federal figures are amounts.
LEMMA CaliforniaTypes ==
  ASSUME NEW s, TypedScenario(s), s.ca # None, NEW f,
         f.spine.line11 \in Int, f.sch1.line7 \in Int, f.sch1.line1 \in Int
  PROVE  /\ CaliforniaFigures(s, f).balance540
              = Form540Balance(CaliforniaFigures(s, f).f540)
         /\ Voluntary(s.ca) \in Int /\ CAWithheld(s) \in Int
         /\ CaliforniaFigures(s, f).f540.liability \in Int
         /\ CaliforniaFigures(s, f).f540.penalty = Truncated(s.ca.penalty)
         /\ CaliforniaFigures(s, f).f540.interest
              = IF s.ca.interest = None THEN None ELSE Truncated(s.ca.interest)
         /\ \E whole \in Int :
              Lines540(CaliforniaFigures(s, f).f540, whole, Voluntary(s.ca))
<1> DEFINE fed == FederalView(f)
           caAGI == ScheduleCA(s.ca, fed).caAGI
           itemized == CAItemizedOf(s, f)
           withheld == CAWithheld(s)
           form == Form540(s.ca, s.config, caAGI, itemized, withheld)
<1>1. TypedCA(s.ca) /\ s.config.status \in DOMAIN CAView
  BY TablesAssumption DEF TypedScenario, TypedReturn
<1>2. fed.agi \in Int /\ fed.unemployment \in Int /\ fed.refund \in Int
  BY DEF FederalView
<1>3. caAGI \in Int
  <2> HIDE DEF fed
  <2>1. QED
    BY <1>1, <1>2, ScheduleCATypes
<1>4. Optional(itemized)
  <2> DEFINE a == ScheduleAOf(s, EffectiveItemized(s), f.spine.line11)
  <2>1. a.line4 \in Nat /\ a.line5b \in Int /\ a.line10 \in Int /\ a.line14 \in Int
    BY EffectiveItemizedTyped, ScheduleATypes
  <2>2. itemized = IF Applied(s, f) THEN CAItemized(a) ELSE None
    BY DEF CAItemizedOf
  <2> HIDE DEF a
  <2>3. CAItemized(a) \in Int
    BY <2>1 DEF CAItemized
  <2>4. QED
    BY <2>2, <2>3 DEF Optional
<1>5. withheld \in Int
  BY WageTypes
<1>6. /\ CaliforniaFigures(s, f).f540 = form
      /\ CaliforniaFigures(s, f).balance540 = Form540Balance(form)
  BY DEF CaliforniaFigures
<1> HIDE DEF caAGI, itemized, withheld
<1>7. Voluntary(s.ca) \in Int /\ \E whole \in Int : Lines540(form, whole, Voluntary(s.ca))
  BY <1>1, <1>3, <1>4, <1>5, Form540Types
<1>10. /\ form.penalty = Truncated(s.ca.penalty)
       /\ form.interest = IF s.ca.interest = None THEN None ELSE Truncated(s.ca.interest)
  BY DEF Form540
<1> HIDE DEF form
<1>8. form.liability \in Int
  <2>1. PICK whole \in Int : Lines540(form, whole, Voluntary(s.ca))
    BY <1>7
  <2>2. form.liability = Rounded(100 * whole + Voluntary(s.ca))
    BY <2>1 DEF Lines540
  <2>3. 100 * whole + Voluntary(s.ca) \in Int
    BY <1>7
  <2>4. QED
    BY <2>2, <2>3, RoundedIsNearest
<1>9. QED
  BY <1>5, <1>6, <1>7, <1>8, <1>10 DEF withheld

----------------------------------------------------------------------------
(* The passive-loss limitation.                                            *)

\* What is above zero of an amount, and below, are natural numbers.
LEMMA SidesNatural ==
  ASSUME NEW a \in Int
  PROVE  Positive(a) \in Nat /\ Negative(a) \in Nat
BY DEF Positive, Negative, Larger

\* One field of a list that two lists make is the two fields' list.
LEMMA FieldJoins ==
  ASSUME NEW m \in Nat, NEW n \in Nat, NEW a, NEW b, NEW field,
         a = [i \in 1 .. m |-> a[i]], b = [i \in 1 .. n |-> b[i]]
  PROVE  [i \in DOMAIN (a \o b) |-> (a \o b)[i][field]]
           = [i \in 1 .. m |-> a[i][field]] \o [i \in 1 .. n |-> b[i][field]]
<1> DEFINE S == {a[i] : i \in 1 .. m}
           T == {b[i] : i \in 1 .. n}
           x == [i \in 1 .. m |-> a[i][field]]
           y == [i \in 1 .. n |-> b[i][field]]
           U == {x[i] : i \in 1 .. m}
           V == {y[i] : i \in 1 .. n}
           c == a \o b
           z == x \o y
<1>1. /\ a \in [1 .. m -> S] /\ b \in [1 .. n -> T]
      /\ x \in [1 .. m -> U] /\ y \in [1 .. n -> V]
  OBVIOUS
<1>2. /\ \A i \in 1 .. m : x[i] = a[i][field]
      /\ \A i \in 1 .. n : y[i] = b[i][field]
  OBVIOUS
<1> HIDE DEF S, T, U, V, x, y
<1>3. /\ IsList(a) /\ Len(a) = m /\ IsList(b) /\ Len(b) = n
      /\ IsList(x) /\ Len(x) = m /\ IsList(y) /\ Len(y) = n
  BY <1>1, MapIsList
<1>10. /\ IsList(c) /\ Len(c) = Len(a) + Len(b) /\ \A i \in 1 .. Len(a) : c[i] = a[i]
       /\ \A i \in 1 .. Len(b) : c[Len(a) + i] = b[i]
  <2>1. IsList(a) /\ IsList(b)
    BY <1>3
  <2>2. IsList(c)
    BY <2>1, JoinedList
  <2>3. Len(c) = Len(a) + Len(b)
    BY <2>1, JoinedList
  <2>4. \A i \in 1 .. Len(a) : c[i] = a[i]
    BY <2>1, JoinedList
  <2>5. \A i \in 1 .. Len(b) : c[Len(a) + i] = b[i]
    BY <2>1, JoinedList
  <2>6. QED
    BY <2>2, <2>3, <2>4, <2>5
<1>11. /\ IsList(z) /\ Len(z) = Len(x) + Len(y) /\ \A i \in 1 .. Len(x) : z[i] = x[i]
       /\ \A i \in 1 .. Len(y) : z[Len(x) + i] = y[i]
  <2>1. IsList(x) /\ IsList(y)
    BY <1>3
  <2>2. IsList(z)
    BY <2>1, JoinedList
  <2>3. Len(z) = Len(x) + Len(y)
    BY <2>1, JoinedList
  <2>4. \A i \in 1 .. Len(x) : z[i] = x[i]
    BY <2>1, JoinedList
  <2>5. \A i \in 1 .. Len(y) : z[Len(x) + i] = y[i]
    BY <2>1, JoinedList
  <2>6. QED
    BY <2>2, <2>3, <2>4, <2>5
<1> HIDE DEF c, z
<1>4. /\ IsList(c) /\ Len(c) = m + n /\ \A i \in 1 .. m : c[i] = a[i]
      /\ \A i \in 1 .. n : c[m + i] = b[i]
  BY <1>3, <1>10
<1>5. /\ IsList(z) /\ Len(z) = m + n /\ \A i \in 1 .. m : z[i] = x[i]
      /\ \A i \in 1 .. n : z[m + i] = y[i]
  BY <1>3, <1>11
<1>6. ASSUME NEW i \in 1 .. m + n
      PROVE  c[i][field] = z[i]
  <2>1. CASE i <= m
    BY <1>2, <1>4, <1>5, <2>1
  <2>2. CASE i > m
    <3>1. PICK j \in 1 .. n : i = m + j
      <4>1. i - m \in 1 .. n /\ i = m + (i - m)
        BY <2>2
      <4>2. QED
        BY <4>1
    <3>2. QED
      BY <1>2, <1>4, <1>5, <3>1
  <2>3. QED
    BY <2>1, <2>2
<1>7. DOMAIN c = 1 .. m + n /\ z = [i \in 1 .. m + n |-> z[i]]
  BY <1>4, <1>5 DEF IsList
<1>8. [i \in DOMAIN c |-> c[i][field]] = z
  BY <1>6, <1>7
<1>9. QED
  BY <1>8 DEF c, z, x, y

\* The activities of Form 8582 are the passive K-1s' and the rentals'.
LEMMA ActivitiesAdd ==
  ASSUME NEW s, TypedScenario(s)
  PROVE  LET acts == Activities(s.k1s, PartI(s.rentals).nets)
             passive == Passive(s.k1s)
         IN /\ SumOf(acts, LAMBDA x : x.income) = RowIncome(passive) + PartI(s.rentals).line24
            /\ SumOf(acts, LAMBDA x : x.loss) = RowLoss(passive) + PartI(s.rentals).line25
            /\ SumOf(acts, LAMBDA x : x.prior) = SumOf(passive, LAMBDA k : Rounded(k.prior))
            /\ SumOf(passive, LAMBDA k : Rounded(k.prior)) \in Int
            /\ RowIncome(passive) \in Nat /\ RowLoss(passive) \in Nat
<1> DEFINE passive == Passive(s.k1s)
           nets == PartI(s.rentals).nets
           m == Len(passive)
           n == Len(s.rentals)
           a == [i \in DOMAIN passive |->
                   [income |-> Positive(K1Row(passive[i])),
                    loss   |-> Negative(K1Row(passive[i])),
                    prior  |-> Rounded(passive[i].prior)]]
           b == [i \in DOMAIN nets |->
                   [income |-> Positive(nets[i]), loss |-> Negative(nets[i]), prior |-> 0]]
           acts == Activities(s.k1s, nets)
<1>1. /\ ListOf(s.k1s, TypedK1) /\ ListOf(s.rentals, TypedRental)
      /\ ListOf(s.rentals, TypedActivity)
  BY DEF TypedScenario, TypedReturn, TypedForms, TypedActivities
<1>2. ListOf(passive, TypedK1)
  BY <1>1, PartIITypes
<1>3. m \in Nat /\ DOMAIN passive = 1 .. m /\ \A i \in 1 .. m : TypedK1(passive[i])
  BY <1>2 DEF ListOf, IsList
<1>4. /\ n \in Nat /\ DOMAIN s.rentals = 1 .. n /\ DOMAIN nets = 1 .. n
      /\ \A i \in 1 .. n : nets[i] = RentalNet(s.rentals[i]) /\ nets[i] \in Int
  <2>1. n \in Nat /\ DOMAIN s.rentals = 1 .. n
    BY <1>1 DEF ListOf, IsList
  <2>2. /\ nets = [i \in DOMAIN s.rentals |-> RentalNet(s.rentals[i])]
        /\ \A i \in DOMAIN s.rentals : RentalNet(s.rentals[i]) \in Int
    BY <1>1, PartITypes
  <2> HIDE DEF n, nets
  <2>3. QED
    BY <2>1, <2>2
<1>5. /\ PartI(s.rentals).line24 = SumOf(s.rentals, LAMBDA r : Positive(RentalNet(r)))
      /\ PartI(s.rentals).line25 = SumOf(s.rentals, LAMBDA r : Negative(RentalNet(r)))
  BY <1>1, PartITypes
<1>6. RowIncome(passive) \in Nat /\ RowLoss(passive) \in Nat
  BY <1>2, RowSums
<1>7. acts = a \o b
  BY DEF Activities
<1> HIDE DEF passive, nets, m, n, acts
<1>8. /\ a = [i \in 1 .. m |-> a[i]] /\ b = [i \in 1 .. n |-> b[i]]
      /\ \A i \in 1 .. m : /\ a[i]["income"] = Positive(K1Row(passive[i]))
                           /\ a[i]["loss"] = Negative(K1Row(passive[i]))
                           /\ a[i]["prior"] = Rounded(passive[i].prior)
      /\ \A i \in 1 .. n : /\ b[i]["income"] = Positive(nets[i])
                           /\ b[i]["loss"] = Negative(nets[i]) /\ b[i]["prior"] = 0
  BY <1>3, <1>4
<1> HIDE DEF a, b
<1>9. \A field : [i \in DOMAIN acts |-> acts[i][field]]
                   = [i \in 1 .. m |-> a[i][field]] \o [i \in 1 .. n |-> b[i][field]]
  BY <1>3, <1>4, <1>7, <1>8, FieldJoins
<1> DEFINE inK == [i \in 1 .. m |-> Positive(K1Row(passive[i]))]
           inR == [i \in 1 .. n |-> Positive(nets[i])]
           outK == [i \in 1 .. m |-> Negative(K1Row(passive[i]))]
           outR == [i \in 1 .. n |-> Negative(nets[i])]
           pastK == [i \in 1 .. m |-> Rounded(passive[i].prior)]
           pastR == [i \in 1 .. n |-> 0]
<1>10. /\ [i \in DOMAIN acts |-> acts[i].income] = inK \o inR
       /\ [i \in DOMAIN acts |-> acts[i].loss] = outK \o outR
       /\ [i \in DOMAIN acts |-> acts[i].prior] = pastK \o pastR
  <2>1. /\ [i \in 1 .. m |-> a[i]["income"]] = inK /\ [i \in 1 .. n |-> b[i]["income"]] = inR
        /\ [i \in 1 .. m |-> a[i]["loss"]] = outK /\ [i \in 1 .. n |-> b[i]["loss"]] = outR
        /\ [i \in 1 .. m |-> a[i]["prior"]] = pastK /\ [i \in 1 .. n |-> b[i]["prior"]] = pastR
    BY <1>8
  <2> HIDE DEF inK, inR, outK, outR, pastK, pastR
  <2>2. [i \in DOMAIN acts |-> acts[i]["income"]] = inK \o inR
    BY <1>9, <2>1
  <2>3. [i \in DOMAIN acts |-> acts[i]["loss"]] = outK \o outR
    BY <1>9, <2>1
  <2>4. [i \in DOMAIN acts |-> acts[i]["prior"]] = pastK \o pastR
    BY <1>9, <2>1
  <2>5. QED
    BY <2>2, <2>3, <2>4
<1>11. /\ inK \in [1 .. m -> Int] /\ outK \in [1 .. m -> Int] /\ pastK \in [1 .. m -> Int]
       /\ inR \in [1 .. n -> Int] /\ outR \in [1 .. n -> Int] /\ pastR \in [1 .. n -> Int]
  <2>1. \A i \in 1 .. m : K1Row(passive[i]) \in Int /\ Rounded(passive[i].prior) \in Int
    BY <1>3, K1RowType
  <2>2. \A i \in 1 .. m : Positive(K1Row(passive[i])) \in Int /\ Negative(K1Row(passive[i])) \in Int
    BY <2>1, LargerTypes
  <2>3. \A i \in 1 .. n : Positive(nets[i]) \in Int /\ Negative(nets[i]) \in Int
    <3>1. \A i \in 1 .. n : nets[i] \in Int
      BY <1>4
    <3>2. QED
      BY <3>1, SidesNatural
  <2>4. QED
    BY <2>1, <2>2, <2>3
<1>12. /\ SumSeq(inK) = RowIncome(passive) /\ SumSeq(outK) = RowLoss(passive)
       /\ SumSeq(pastK) = SumOf(passive, LAMBDA k : Rounded(k.prior))
  BY <1>3 DEF RowIncome, RowLoss, SumOf
<1>13. /\ SumSeq(inR) = PartI(s.rentals).line24 /\ SumSeq(outR) = PartI(s.rentals).line25
  <2>1. /\ inR = [i \in DOMAIN s.rentals |-> Positive(RentalNet(s.rentals[i]))]
        /\ outR = [i \in DOMAIN s.rentals |-> Negative(RentalNet(s.rentals[i]))]
    BY <1>4
  <2>2. QED
    BY <1>5, <2>1 DEF SumOf
<1>14. SumSeq(pastR) = 0
  <2>1. \A i \in 1 .. n : pastR[i] = pastR[i] + pastR[i]
    OBVIOUS
  <2> HIDE DEF pastR
  <2> DEFINE total == SumSeq(pastR)
  <2>2. total = total + total
    BY <1>4, <1>11, <2>1, SumAdds
  <2>3. total \in Int
    BY <1>4, <1>11, SumType
  <2> HIDE DEF total
  <2>4. total = 0
    BY <2>2, <2>3
  <2>5. QED
    BY <2>4 DEF total
<1> HIDE DEF inK, inR, outK, outR, pastK, pastR
<1>15. /\ inK \in Seq(Int) /\ outK \in Seq(Int) /\ pastK \in Seq(Int)
       /\ inR \in Seq(Int) /\ outR \in Seq(Int) /\ pastR \in Seq(Int)
       /\ SumSeq(pastK) \in Int
  <2>1. inK \in Seq(Int) /\ outK \in Seq(Int) /\ pastK \in Seq(Int) /\ SumSeq(pastK) \in Int
    BY <1>3, <1>11, AmountsAre, SumType
  <2>2. inR \in Seq(Int) /\ outR \in Seq(Int) /\ pastR \in Seq(Int)
    BY <1>4, <1>11, AmountsAre
  <2>3. QED
    BY <2>1, <2>2
<1>16. /\ SumOf(acts, LAMBDA x : x.income) = SumSeq(inK) + SumSeq(inR)
       /\ SumOf(acts, LAMBDA x : x.loss) = SumSeq(outK) + SumSeq(outR)
       /\ SumOf(acts, LAMBDA x : x.prior) = SumSeq(pastK) + SumSeq(pastR)
  BY <1>10, <1>15, SumJoins DEF SumOf
<1>17. SumOf(acts, LAMBDA x : x.prior) = SumSeq(pastK)
  BY <1>14, <1>15, <1>16
<1>18. QED
  BY <1>6, <1>12, <1>13, <1>15, <1>16, <1>17 DEF acts, passive, nets

\* The passive K-1s' boxes other than rentals', gains and losses apart.
LEMMA NonRentalTypes ==
  ASSUME NEW k1s, ListOf(k1s, TypedK1)
  PROVE  NonRental(k1s, Positive) \in Nat /\ NonRental(k1s, Negative) \in Nat
<1> DEFINE passive == Passive(k1s)
           m == Len(passive)
           gain == [i \in DOMAIN passive |->
                      SumOf(NonRentalBoxes(passive[i]), LAMBDA box : Positive(Rounded(box)))]
           loss == [i \in DOMAIN passive |->
                      SumOf(NonRentalBoxes(passive[i]), LAMBDA box : Negative(Rounded(box)))]
<1>1. ListOf(passive, TypedK1)
  BY PartIITypes
<1>2. m \in Nat /\ DOMAIN passive = 1 .. m /\ \A i \in 1 .. m : TypedK1(passive[i])
  BY <1>1 DEF ListOf, IsList
<1>3. ASSUME NEW k, TypedK1(k)
      PROVE  /\ SumOf(NonRentalBoxes(k), LAMBDA box : Positive(Rounded(box))) \in Nat
             /\ SumOf(NonRentalBoxes(k), LAMBDA box : Negative(Rounded(box))) \in Nat
  <2> DEFINE boxes == NonRentalBoxes(k)
             up == [i \in DOMAIN boxes |-> Positive(Rounded(boxes[i]))]
             down == [i \in DOMAIN boxes |-> Negative(Rounded(boxes[i]))]
  <2>1. DOMAIN boxes = 1 .. 4 /\ \A i \in 1 .. 4 : boxes[i] \in Int
    BY <1>3 DEF NonRentalBoxes, TypedK1, K1Amounts8
  <2> HIDE DEF boxes
  <2>2. \A i \in 1 .. 4 : Rounded(boxes[i]) \in Int
    BY <2>1, RoundedIsNearest
  <2>3. \A i \in 1 .. 4 : Positive(Rounded(boxes[i])) \in Nat /\ Negative(Rounded(boxes[i])) \in Nat
    BY <2>2, LargerTypes
  <2>4. up \in [1 .. 4 -> Nat] /\ down \in [1 .. 4 -> Nat]
    BY <2>1, <2>3
  <2> HIDE DEF up, down
  <2>5. SumSeq(up) \in Nat /\ SumSeq(down) \in Nat
    BY <2>4, SumNatural
  <2>6. QED
    BY <2>5 DEF SumOf, up, down, boxes
<1> HIDE DEF passive, m
<1>4. gain \in [1 .. m -> Nat] /\ loss \in [1 .. m -> Nat]
  BY <1>2, <1>3
<1> HIDE DEF gain, loss
<1>5. SumSeq(gain) \in Nat /\ SumSeq(loss) \in Nat
  BY <1>2, <1>4, SumNatural
<1>6. NonRental(k1s, Positive) = SumSeq(gain)
  BY DEF NonRental, SumOf, gain, passive
<1>7. NonRental(k1s, Negative) = SumSeq(loss)
  BY DEF NonRental, SumOf, loss, passive
<1>8. QED
  BY <1>5, <1>6, <1>7

\* The special allowance is an amount.
LEMMA SpecialIs ==
  ASSUME NEW magi \in Int, NEW status, NEW lived
  PROVE  SpecialAllowance(magi, status, lived) \in Int
BY SMT DEF SpecialAllowance, Positive, Larger

\* The lines of Form 8582.
LEMMA LimitationTypes ==
  ASSUME NEW s, TypedScenario(s), NEW agi \in Int
  PROVE  LET f == LimitationOf(s, agi) IN
         /\ f.line1a = RowIncome(Passive(s.k1s)) + PartI(s.rentals).line24
         /\ f.line1b = RowLoss(Passive(s.k1s)) + PartI(s.rentals).line25
         /\ f.line1c = SumOf(Passive(s.k1s), LAMBDA k : Rounded(k.prior))
         /\ f.line1a \in Nat /\ f.line1b \in Nat /\ f.line1c \in Int /\ f.allowance \in Nat
         /\ f.nonRentalIncome \in Nat /\ f.nonRentalLoss \in Nat
         /\ f.line11 = Smaller(f.line1a + f.allowance, f.line1b + f.line1c)
<1> DEFINE acts == Activities(s.k1s, PartI(s.rentals).nets)
           income == SumOf(acts, LAMBDA a : a.income)
           loss == SumOf(acts, LAMBDA a : a.loss)
           prior == SumOf(acts, LAMBDA a : a.prior)
           net == income - loss - prior
           special == SpecialAllowance(Positive(agi - net), s.config.status,
                                       s.config.livedWith = "yes")
           allowance == IF RentalParticipation(s.rentals, s.k1s)
                        THEN Positive(Rounded(special)) ELSE 0
           f == LimitationOf(s, agi)
<1>1. /\ income = RowIncome(Passive(s.k1s)) + PartI(s.rentals).line24
      /\ loss = RowLoss(Passive(s.k1s)) + PartI(s.rentals).line25
      /\ prior = SumOf(Passive(s.k1s), LAMBDA k : Rounded(k.prior)) /\ prior \in Int
      /\ RowIncome(Passive(s.k1s)) \in Nat /\ RowLoss(Passive(s.k1s)) \in Nat
  BY ActivitiesAdd
<1>2. ListOf(s.k1s, TypedK1) /\ ListOf(s.rentals, TypedRental) /\ ListOf(s.rentals, TypedActivity)
  BY DEF TypedScenario, TypedReturn, TypedForms, TypedActivities
<1>3. PartI(s.rentals).line24 \in Nat /\ PartI(s.rentals).line25 \in Nat
  BY <1>2, PartITypes
<1>4. NonRental(s.k1s, Positive) \in Nat /\ NonRental(s.k1s, Negative) \in Nat
  BY <1>2, NonRentalTypes
<1>5. agi # None
  BY NoneAssumption
<1>6. /\ f.line1a = income /\ f.line1b = loss /\ f.line1c = prior
      /\ f.allowance = allowance /\ f.line11 = Smaller(income + allowance, loss + prior)
      /\ f.nonRentalLoss = NonRental(s.k1s, Negative)
      /\ f.nonRentalIncome = NonRental(s.k1s, Positive)
  BY <1>5 DEF LimitationOf, F8582
<1> HIDE DEF f, income, loss, prior, acts
<1>7. income \in Nat /\ loss \in Nat /\ net \in Int
  BY <1>1, <1>3
<1>8. allowance \in Nat
  <2>1. agi - net \in Int
    BY <1>7
  <2> HIDE DEF net
  <2>2. Positive(agi - net) \in Int
    BY <2>1, LargerTypes
  <2>3. special \in Int
    BY <2>2, SpecialIs
  <2> HIDE DEF special
  <2>4. Rounded(special) \in Int
    BY <2>3, RoundedIsNearest
  <2>5. Positive(Rounded(special)) \in Nat
    BY <2>4, LargerTypes
  <2>6. QED
    BY <2>5
<1> HIDE DEF allowance
<1>9. QED
  BY <1>1, <1>4, <1>6, <1>7, <1>8 DEF f
============================================================================
