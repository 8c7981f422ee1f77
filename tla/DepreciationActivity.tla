------------------------ MODULE DepreciationActivity ------------------------
(***************************************************************************)
(* One return's depreciation: the activities (rentals and Schedule C       *)
(* businesses) that carry it, the refusals that guard it (attestations.py),*)
(* the figure each activity uses (forms/depreciation/resolver.py) and the  *)
(* Form 4562 copies (forms/f4562.py).  Depreciation.tla follows one        *)
(* taxpayer's assets over the years; here one year's activities interact.  *)
(*                                                                         *)
(* An activity lists assets, or states one figure, or overrides the        *)
(* engine's.  Stated amounts and bases are cents, tables are the cells     *)
(* times 100,000.                                                          *)
(***************************************************************************)
EXTENDS Money

CONSTANTS
  PersonalClasses, RealClasses,  \* recovery classes with a table
  Rates,      \* [class -> [convention -> rates by recovery year]]
  RowLetters  \* _CLASS_TO_ROW: [class -> line 19 row of Form 4562]

Classes == PersonalClasses \cup RealClasses

\* The published tables have these columns, and no cell is negative.
Conventions(class) ==
  IF class \in RealClasses THEN {<<"mid-month", month>> : month \in 1 .. 12}
  ELSE {<<"half-year", 0>>} \cup {<<"mid-quarter", quarter>> : quarter \in 1 .. 4}
ASSUME RatesAssumption ==
  \A class \in Classes : \A convention \in Conventions(class) :
    \A n \in DOMAIN Rates[class][convention] : Rates[class][convention][n] \in Nat

\* A class is personal property or real (models.py), and each has a row of its
\* own; row 19h is the 50-year property's, which has no table.
ASSUME ClassesAssumption ==
  /\ PersonalClasses \cap RealClasses = {}
  /\ \A c, d \in Classes :
       RowLetters[c] \notin {"h", "17"} /\ (RowLetters[c] = RowLetters[d] => c = d)

Activities4562(s) == s.rentals \o s.businesses   \* depreciation_activities
AssetsOf(s) ==
  LET acts == Activities4562(s)
  IN UNION {{acts[i].assets[j] : j \in DOMAIN acts[i].assets} : i \in DOMAIN acts}
SomeActivity(s, P(_)) == AnyOf(Activities4562(s), P)
SomeAsset(s, P(_))    == \E a \in AssetsOf(s) : P(a)

Quarter(month) == (month - 1) \div 3 + 1

----------------------------------------------------------------------------
(* The engine, for one asset of a return for one year (resolver.py).       *)

\* _is_prior_year_personal_property: the kind that states its convention.
StatesConvention(a, year) == a.class \in PersonalClasses /\ a.placed < year

\* stated_convention_problem
ConventionUsable(a) ==
  \/ a.convention = "half-year" /\ a.quarter = None
  \/ a.convention = "mid-quarter" /\ a.quarter = Quarter(a.month)

\* is_computable
Computable(a, year) ==
  /\ a.class \in Classes /\ ~a.disposed
  /\ StatesConvention(a, year) => ConventionUsable(a)

\* Broken: an asset placed in the last quarter takes the mid-quarter
\* convention by itself.
ConventionByAsset(a, year, midQuarter) ==
  IF a.class \in RealClasses THEN <<"mid-month", a.month>>
  ELSE IF a.placed < year
       THEN <<a.convention, IF a.quarter = None THEN 0 ELSE a.quarter>>
       ELSE IF Quarter(a.month) = 4 THEN <<"mid-quarter", 4>> ELSE <<"half-year", 0>>

\* asset_convention, of a computable asset.
ConventionOf(a, year, midQuarter) ==
  IF a.class \in RealClasses THEN <<"mid-month", a.month>>
  ELSE IF a.placed < year
       THEN <<a.convention, IF a.quarter = None THEN 0 ELSE a.quarter>>
       ELSE IF midQuarter THEN <<"mid-quarter", Quarter(a.month)>>
            ELSE <<"half-year", 0>>

\* macrs_deduction of recovery year n: the exact product, rounded half up.
TableAmount(a, convention, n) ==
  IF n \in DOMAIN Rates[a.class][convention]
  THEN (a.basis * Rates[a.class][convention][n] + 5000000) \div 10000000
  ELSE 0

\* _capped: no more than the basis left.
CappedAt(table, basis, taken) ==
  Smaller(table, Positive(Rounded(basis) - taken))

\* The years of one asset, by the tables alone: what is taken by the end of
\* the first n (_asset_audit).
TakenThrough(a, convention, n) ==
  LET upTo[k \in 0 .. n] ==
        IF k = 0 THEN 0
        ELSE upTo[k - 1]
               + CappedAt(TableAmount(a, convention, k), a.basis, upTo[k - 1])
  IN upTo[n]

\* reconstruct_prior_depreciation
TakenBefore(a, year, midQuarter) ==
  IF a.placed >= year THEN 0
  ELSE TakenThrough(a, ConventionOf(a, year, midQuarter), year - a.placed)

\* Acknowledged priors stand as stated (asset_amount, _asset_audit).
TakenSoFar(a, year, midQuarter) ==
  IF a.ackPrior /\ a.prior # None THEN Rounded(a.prior)
  ELSE TakenBefore(a, year, midQuarter)

\* asset_amount
AssetDeduction(a, year, midQuarter) ==
  CappedAt(TableAmount(a, ConventionOf(a, year, midQuarter),
                       year - a.placed + 1),
           a.basis, TakenSoFar(a, year, midQuarter))

\* engine_amount
EngineAmount(act, year, midQuarter) ==
  SumOf(act.assets, LAMBDA a : AssetDeduction(a, year, midQuarter))

\* placed_this_year
PlacedNow(act, year) == Where(act.assets, LAMBDA a : a.placed = year)

\* The 40% test over the personal property placed in the return year, in
\* whole cents (mid_quarter_bases_by_activity, mid_quarter_applies).  The
\* view resolve builds of one activity carries the return's answer.
InTest(a, year) == a.class \in PersonalClasses /\ ~a.disposed /\ a.placed = year

TestBasis(acts, year, months) ==
  SumOf(acts, LAMBDA act : SumOf(act.assets, LAMBDA a :
    IF InTest(a, year) /\ a.month \in months THEN a.basis ELSE 0))

FortyPercent(acts, year) ==
  TestBasis(acts, year, 10 .. 12) * 100 > 40 * TestBasis(acts, year, 1 .. 12)

MidQuarterOf(s) ==
  IF s.answer = None THEN FortyPercent(Activities4562(s), s.year)
  ELSE s.answer

\* _is_stated_mode
StatedMode(act) == act.stated # 0 /\ act.assets = <<>>

----------------------------------------------------------------------------
(* The load-stage entries of the ledger that concern depreciation, in the  *)
(* order in which they are asked.                                          *)

HasOverride(act)   == act.override # None
ValidOverride(act) == HasOverride(act) /\ act.override.ack

\* _computable_overridden_activities
Overridden(act, year) ==
  /\ HasOverride(act) /\ act.assets # <<>>
  /\ \A i \in DOMAIN act.assets : Computable(act.assets[i], year)

PriorMismatch(a, year, midQuarter) ==
  /\ Computable(a, year) /\ a.prior # None /\ ~a.ackPrior
  /\ Rounded(a.prior) # TakenBefore(a, year, midQuarter)

\* What the entries ask of the assets ...
UnknownClass(a)  == a.class \notin Classes
NegativeAsset(a) == a.basis < 0 \/ (a.prior # None /\ a.prior < 0)
HistoryOnReal(a) == a.class \in RealClasses /\ a.history # None
UnattestedHistory(a) == a.class \in PersonalClasses /\ a.history # "none"
PriorMissing(a, year) == a.placed < year /\ a.prior = None
ConventionForeign(a, year) ==
  /\ a.convention # None \/ a.quarter # None
  /\ a.class \in RealClasses \/ (a.class \in PersonalClasses /\ a.placed >= year)
ConventionMissing(a, year) == StatesConvention(a, year) /\ a.convention = None
ConventionInvalid(a, year) ==
  StatesConvention(a, year) /\ a.convention # None /\ ~ConventionUsable(a)

\* ... and of the activities.
NegativeOverride(act) ==
  HasOverride(act) /\ (act.override.amount < 0 \/ act.override.restates < 0)
BonusHistory(act)   == ~ValidOverride(act) /\ AnyOf(act.assets, UnattestedHistory)
DualSource(act)     == act.assets # <<>> /\ act.stated # 0
StatedUnasked(act)  == StatedMode(act) /\ ~act.outside
OverrideAlone(act)  == HasOverride(act) /\ act.assets = <<>>
OverrideUnasked(act) == HasOverride(act) /\ ~act.override.ack
StaleOverride(act, year, midQuarter) ==
  Overridden(act, year)
    /\ Rounded(act.override.restates) # EngineAmount(act, year, midQuarter)
OverrideBesidePlacement(act, year) ==
  Overridden(act, year) /\ PlacedNow(act, year) # <<>>

ShapeLedger(s) ==
  LET year == s.year IN
  <<<<"stated_convention", SomeAsset(s, LAMBDA a : ConventionForeign(a, year))>>,
    <<"unknown_recovery_class", SomeAsset(s, UnknownClass)>>,
    <<"negative_asset_amount",
        SomeAsset(s, NegativeAsset) \/ SomeActivity(s, NegativeOverride)>>,
    <<"negative_stated_depreciation", SomeActivity(s, LAMBDA act : act.stated < 0)>>,
    <<"asset_disposed", SomeAsset(s, LAMBDA a : a.disposed)>>,
    <<"history_field_on_real_property", SomeAsset(s, HistoryOnReal)>>,
    <<"bonus_or_section_179_history", SomeActivity(s, BonusHistory)>>,
    <<"missing_prior_depreciation", SomeAsset(s, LAMBDA a : PriorMissing(a, year))>>,
    <<"missing_prior_year_convention",
        SomeAsset(s, LAMBDA a : ConventionMissing(a, year))>>,
    <<"invalid_stated_convention",
        SomeAsset(s, LAMBDA a : ConventionInvalid(a, year))>>,
    <<"dual_source_depreciation", SomeActivity(s, DualSource)>>,
    <<"unacknowledged_stated_depreciation", SomeActivity(s, StatedUnasked)>>,
    <<"override_outside_asset_mode", SomeActivity(s, OverrideAlone)>>,
    <<"unacknowledged_depreciation_override", SomeActivity(s, OverrideUnasked)>>,
    <<"more_than_three_rental_properties", Len(s.rentals) > 3>>>>

\* Broken: an override is accepted beside an asset placed this year.
LedgerWithoutPlacement(s) ==
  LET midQuarter == MidQuarterOf(s) IN
  <<<<"asset_placed_after_return_year", SomeAsset(s, LAMBDA a : a.placed > s.year)>>,
    <<"prior_depreciation_mismatch", SomeAsset(s, LAMBDA a :
        PriorMismatch(a, s.year, midQuarter))>>,
    <<"stale_depreciation_override", SomeActivity(s, LAMBDA act :
        StaleOverride(act, s.year, midQuarter))>>>>

ResolverLedger(s) ==
  LET midQuarter == MidQuarterOf(s) IN
  <<<<"asset_placed_after_return_year", SomeAsset(s, LAMBDA a : a.placed > s.year)>>,
    <<"prior_depreciation_mismatch", SomeAsset(s, LAMBDA a :
        PriorMismatch(a, s.year, midQuarter))>>,
    <<"stale_depreciation_override", SomeActivity(s, LAMBDA act :
        StaleOverride(act, s.year, midQuarter))>>,
    <<"override_with_current_year_placement", SomeActivity(s, LAMBDA act :
        OverrideBesidePlacement(act, s.year))>>>>

\* The questions only the whole return can answer.
UnverifiableMidQuarter(s) ==
  /\ ~s.noneBehindStated
  /\ SomeAsset(s, LAMBDA a : InTest(a, s.year)) /\ SomeActivity(s, StatedMode)
ListedUnasked(s) ==
  ~s.noListedProperty /\ SomeAsset(s, LAMBDA a : a.class \in PersonalClasses)
WholeReturnLedger(s) ==
  <<<<"unverifiable_mid_quarter_test", UnverifiableMidQuarter(s)>>,
    <<"unacknowledged_listed_property", ListedUnasked(s)>>>>

Offends(entry) == entry[2]
Passes(ledger) == ~AnyOf(ledger, Offends)

\* enforce_scoped_refusals(s, "load"), whole and over a single activity.
DepreciationLedger(s) == ShapeLedger(s) \o ResolverLedger(s) \o WholeReturnLedger(s)
SingleLedger(s)       == ShapeLedger(s) \o ResolverLedger(s)

DepreciationAccepted(s) == Passes(DepreciationLedger(s))

\* The first entry that finds an offender is the one that is raised.
Raised(ledger) ==
  LET hits == {i \in DOMAIN ledger : Offends(ledger[i])}
  IN IF hits = {} THEN "none"
     ELSE ledger[CHOOSE i \in hits : \A j \in hits : i <= j][1]

----------------------------------------------------------------------------
(* The one door, and the Form 4562 copies.                                 *)

\* _one_activity_scenario
OneActivity(act, kind, year, midQuarter) ==
  [rentals |-> IF kind = "rental" THEN <<act>> ELSE <<>>,
   businesses |-> IF kind = "rental" THEN <<>> ELSE <<act>>,
   year |-> year, answer |-> midQuarter,
   noneBehindStated |-> FALSE, noListedProperty |-> FALSE]

ResolveRefused(act, kind, year, midQuarter) ==
  ~Passes(SingleLedger(OneActivity(act, kind, year, midQuarter)))

\* resolve: the amount used, in cents.
Resolved(act, year, midQuarter) ==
  IF act.assets = <<>> THEN act.stated
  ELSE IF HasOverride(act) THEN act.override.amount
       ELSE 100 * EngineAmount(act, year, midQuarter)

\* recon_keys: the engine's figure beside the one used, in asset mode.
Recon(act, year, midQuarter) ==
  [engine |-> EngineAmount(act, year, midQuarter),
   used |-> Rounded(Resolved(act, year, midQuarter)),
   ceiling |-> AnyOf(act.assets, LAMBDA a :
     AssetDeduction(a, year, midQuarter)
       # TableAmount(a, ConventionOf(a, year, midQuarter), year - a.placed + 1))]

\* forms/f4562: a copy for each activity that places property this year;
\* one line 19 row a class, line 17 for the assets of earlier years.
CopyRequired(act, year) == PlacedNow(act, year) # <<>>

RowsOf(act, year, midQuarter) ==
  LET now == PlacedNow(act, year)
      classes == {now[i].class : i \in DOMAIN now}
      ofClass(c) == Where(now, LAMBDA a : a.class = c)
  IN [c \in classes |->
       [basis |-> Rounded(SumOf(ofClass(c), LAMBDA a : a.basis)),
        conventions |-> {ConventionOf(ofClass(c)[i], year, midQuarter)[1] :
                           i \in DOMAIN ofClass(c)},
        deduction |-> SumOf(ofClass(c), LAMBDA a :
                        AssetDeduction(a, year, midQuarter))]]

F4562(act, year, midQuarter) ==
  LET rows == RowsOf(act, year, midQuarter)
      line17 == SumOf(Where(act.assets, LAMBDA a : a.placed # year),
                      LAMBDA a : AssetDeduction(a, year, midQuarter))
  IN [rows |-> rows, line17 |-> line17,
      line22 |-> line17 + SumOver(DOMAIN rows, LAMBDA c : rows[c].deduction)]

\* printed_row_label: the row letters moved with the 50-year row of 2025.
RowBefore2025(label) ==
  CASE label = "i" -> "h" [] label = "j" -> "i" [] OTHER -> label
PrintedRow(label, year) == IF year < 2025 THEN RowBefore2025(label) ELSE label
=============================================================================
