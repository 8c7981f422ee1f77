---------------------------- MODULE Depreciation ----------------------------
(***************************************************************************)
(* tenforty/forms/depreciation (macrs.py, resolver.py) and the load-stage  *)
(* refusals of tenforty/attestations.py that guard it, over the years of   *)
(* an asset's life.                                                        *)
(*                                                                         *)
(* The program keeps no state between returns.  Each year's return states, *)
(* for each asset, the depreciation taken before and the convention its    *)
(* placement year used; what the program computes this year is what the    *)
(* filer states next year.  The state here is that history.                *)
(*                                                                         *)
(* Amounts are whole dollars, bases are cents, rates are table cells times *)
(* 100,000.  Activities that state a figure or override the engine's are   *)
(* not modelled; disposed assets leave the list.                           *)
(***************************************************************************)
EXTENDS Money

CONSTANTS
  Assets,        \* the assets of one taxpayer
  Real,          \* the assets that are real property
  Placed,        \* [Assets -> Nat]: year placed in service
  Month,         \* [Assets -> 1 .. 12]: month placed in service
  Basis,         \* [Assets -> Nat]: depreciable basis, in cents
  Rates,         \* [Assets -> [conventions -> rates by recovery year]]: the
                 \* table columns of the asset's class
  FirstYear, LastYear,  \* bound: the return years
  OutsideAmounts        \* what a year prepared elsewhere may deduct

HalfYear      == <<"half-year", 0>>
MidQuarter(q) == <<"mid-quarter", q>>
MidMonth(m)   == <<"mid-month", m>>

PlacementQuarter(a) == (Month[a] - 1) \div 3 + 1

\* The conventions an asset can have: personal property half-year or
\* mid-quarter of its placement quarter, real property mid-month.
ConventionsOf(a) == IF a \in Real THEN {MidMonth(Month[a])}
                    ELSE {HalfYear, MidQuarter(PlacementQuarter(a))}

ASSUME AssetAssumption ==
  /\ Real \subseteq Assets
  /\ Placed \in [Assets -> Nat] /\ Month \in [Assets -> 1 .. 12]
  /\ Basis \in [Assets -> Nat]
  /\ FirstYear \in Nat /\ LastYear \in Nat /\ FirstYear <= LastYear
  /\ OutsideAmounts \subseteq Nat
  /\ \A a \in Assets : Placed[a] >= FirstYear
  /\ \A a \in Assets : None \notin ConventionsOf(a)

\* Every column of the published tables adds up to the whole basis.
ASSUME RateAssumption ==
  \A a \in Assets : \A c \in ConventionsOf(a) :
    Rates[a][c] \in Seq(Nat) /\ SumSeq(Rates[a][c]) = 100000

VARIABLES
  year,     \* the next return year
  taken,    \* [Assets -> Nat]: depreciation taken so far
  used,     \* [Assets -> convention]: the one of the placement year's return
  faithful  \* assets whose every year was filed here, with the convention
            \* their placement year used

vars == <<year, taken, used, faithful>>

----------------------------------------------------------------------------
(* macrs.py, and irs_round_product of rounding.py.                         *)

\* Mutant: the product is cut off, not rounded.
IrsRoundProductDown(cents, rate) == (cents * rate) \div 10000000

IrsRoundProduct(cents, rate) == (cents * rate + 5000000) \div 10000000

\* The table amount of a year: zero before placement and when the table has
\* run out.
MacrsDeduction(a, convention, y) ==
  LET n == y - Placed[a] + 1 IN
  IF n \in DOMAIN Rates[a][convention]
    THEN IrsRoundProduct(Basis[a], Rates[a][convention][n]) ELSE 0

\* Mutant: this year's 40% answer decides for every asset.
AssetConventionRerun(a, stated, y, midQuarter) ==
  IF a \in Real THEN MidMonth(Month[a])
  ELSE IF midQuarter THEN MidQuarter(PlacementQuarter(a)) ELSE HalfYear

\* Mutant: the quarter that trips the test stands for every quarter.
AssetConventionFourth(a, stated, y, midQuarter) ==
  IF a \in Real THEN MidMonth(Month[a])
  ELSE IF Placed[a] < y THEN stated
  ELSE IF midQuarter THEN MidQuarter(4) ELSE HalfYear

\* Real property is mid-month; personal property placed this year goes by
\* this return's 40% answer, and earlier property by what is stated.
AssetConvention(a, stated, y, midQuarter) ==
  IF a \in Real THEN MidMonth(Month[a])
  ELSE IF Placed[a] < y THEN stated
  ELSE IF midQuarter THEN MidQuarter(PlacementQuarter(a)) ELSE HalfYear

(* resolver.py.                                                            *)

\* The basis ceiling: never more than the basis that is left.
Capped(table, basis, before) ==
  LET left == IF Rounded(basis) > before THEN Rounded(basis) - before ELSE 0
  IN IF table < left THEN table ELSE left

\* What the tables give for the years before y.
Reconstruct(a, convention, y) ==
  LET upTo[n \in 0 .. y - Placed[a]] ==
        IF n = 0 THEN 0
        ELSE LET before == upTo[n - 1] IN
             before + Capped(MacrsDeduction(a, convention, Placed[a] + n - 1),
                             Basis[a], before)
  IN IF y > Placed[a] THEN upTo[y - Placed[a]] ELSE 0

\* The 40% test, over the personal property a return lists as placed in its
\* year, in whole cents.
SumOfBases(S) == SumOver(S, LAMBDA a : Basis[a])

MidQuarterApplies(listed, y) ==
  LET members == {a \in listed \ Real : Placed[a] = y}
  IN SumOfBases({a \in members : Month[a] >= 10}) * 100
       > 40 * SumOfBases(members)

(* attestations.py: what a return must state to be computed at all.        *)

\* A return: the assets it lists, and for each the prior depreciation it
\* states, whether it acknowledges that figure, and the convention it states.
Statements(a) ==
  {s \in [prior : {None, taken[a]}, ack : BOOLEAN,
          convention : {None} \cup ConventionsOf(a)] :
     \* In the placement year the figure would be 0, as the tables have it.
     s.prior = None \/ Placed[a] < year}

\* Shape: in service, with a prior figure when placed before this year, and
\* with a convention exactly when it is prior-year personal property.
WellStated(a, s) ==
  /\ Placed[a] <= year
  /\ Placed[a] < year => s.prior # None
  /\ (s.convention # None) <=> (a \notin Real /\ Placed[a] < year)

\* Mutant: a history that does not match the tables is let through.
HistoryMatchesUnchecked(a, s, midQuarter) == TRUE

\* A stated prior figure matches the tables, or is acknowledged as it stands.
HistoryMatches(a, s, midQuarter) ==
  \/ s.prior = None \/ s.ack
  \/ s.prior = Reconstruct(a, AssetConvention(a, s.convention, year, midQuarter), year)

\* What a return may state of an asset without being refused.
Accepted(a, midQuarter) ==
  {s \in Statements(a) : WellStated(a, s) /\ HistoryMatches(a, s, midQuarter)}

\* The year's deduction for an asset: the table amount under the ceiling,
\* after the reconstructed history, or the stated one when acknowledged.
AssetAmount(a, s, midQuarter) ==
  LET convention == AssetConvention(a, s.convention, year, midQuarter)
      before == IF s.ack /\ s.prior # None THEN s.prior
                ELSE Reconstruct(a, convention, year)
  IN Capped(MacrsDeduction(a, convention, year), Basis[a], before)

----------------------------------------------------------------------------

Init ==
  /\ year = FirstYear
  /\ taken = [a \in Assets |-> 0]
  /\ used = [a \in Assets |-> None]
  /\ faithful = Assets

\* A return is accepted and filed.  Assets it leaves out take nothing.
FileReturn(listed, states) ==
  LET midQuarter == MidQuarterApplies(listed, year)
      convention(a) == AssetConvention(a, states[a].convention, year, midQuarter)
  IN
  /\ year <= LastYear
  /\ \A a \in listed : states[a] \in Accepted(a, midQuarter)
  /\ taken' = [a \in Assets |->
       IF a \in listed THEN taken[a] + AssetAmount(a, states[a], midQuarter)
       ELSE taken[a]]
  /\ used' = [a \in Assets |->
       IF a \in listed /\ Placed[a] = year THEN convention(a) ELSE used[a]]
  /\ faithful' = {a \in faithful :
       Placed[a] <= year => a \in listed
         /\ (Placed[a] < year /\ a \notin Real => states[a].convention = used[a])}
  /\ year' = year + 1

\* A year prepared elsewhere, within the asset's basis.
YearElsewhere(a, amount) ==
  /\ year <= LastYear /\ Placed[a] <= year
  /\ taken[a] + amount <= Rounded(Basis[a])
  /\ taken' = [taken EXCEPT ![a] = @ + amount]
  /\ faithful' = faithful \ {b \in Assets : Placed[b] <= year}
  /\ year' = year + 1
  /\ UNCHANGED used

Next ==
  \/ \E listed \in SUBSET {a \in Assets : Placed[a] <= year} :
       LET midQuarter == MidQuarterApplies(listed, year) IN
       \E states \in [listed -> UNION {Accepted(a, midQuarter) : a \in listed}] :
         FileReturn(listed, states)
  \/ \E a \in Assets, amount \in OutsideAmounts : YearElsewhere(a, amount)

Spec == Init /\ [][Next]_vars

----------------------------------------------------------------------------
(* Properties.                                                             *)

TypeOK ==
  /\ year \in FirstYear .. LastYear + 1
  /\ taken \in [Assets -> Nat]
  /\ used \in [Assets -> {None} \cup UNION {ConventionsOf(a) : a \in Assets}]
  /\ \A a \in Assets : used[a] \in ConventionsOf(a) \cup {None}
  /\ faithful \subseteq {a \in Assets : Placed[a] < year => used[a] # None}

\* "Lifetime depreciation therefore never exceeds basis" (resolver.py:102),
\* over any sequence of returns, lapses, wrong conventions, acknowledged
\* histories and years prepared elsewhere.
LifetimeWithinBasis == \A a \in Assets : taken[a] <= Rounded(Basis[a])

\* A filer who states what earlier returns really used and took is never
\* refused for it: the tables reconstruct the history the program itself
\* produced, whatever else was placed in service since.
HistoryReconstructs ==
  \A a \in faithful : Placed[a] < year =>
    taken[a] = Reconstruct(a, used[a], year)

TableLength(a) == Len(Rates[a][used[a]])

RunOut == {a \in faithful : Placed[a] < year
                            /\ year - Placed[a] >= TableLength(a)}

\* Each year is rounded on its own: what a finished table leaves unrecovered
\* is less than the half dollar a year's rounding can lose, and the basis's.
RecoveredWithinRounding ==
  \A a \in RunOut : 2 * (Rounded(Basis[a]) - taken[a]) <= TableLength(a) + 1

\* "A lifetime of them can land a dollar over basis (trimmed here, in the
\* last year) or a dollar under (NOT topped up ...)" (resolver.py:104-107).
RecoveredWithinADollar ==
  \A a \in RunOut : Rounded(Basis[a]) - taken[a] <= 1
=============================================================================
