------------------------------- MODULE Credits -------------------------------
(***************************************************************************)
(* The two refundable credits: the premium tax credit (forms/f8962.py) and *)
(* the earned income credit without a child (forms/eic.py, eic_table.py).  *)
(*                                                                         *)
(* A Form 1095-A is its months' premium, benchmark (SLCSP) and advance in  *)
(* cents; applicable figures are ten-thousandths.  Years' parameters and   *)
(* published tables are constants.                                         *)
(***************************************************************************)
EXTENDS Money

CONSTANTS
  PovertyLine,       \* [family size -> dollars]
  Figures,           \* applicable_figures: [percentage -> figure]
  RepaymentCaps,     \* <<<<exclusive upper percentage, cap>>, ...>>
  UnemploymentRule,  \* 2021: unemployment compensation fixes line 5
  BoundaryInclusive, \* 2021: exactly 400 percent is already over
  EICTable,          \* [status -> <<[lower, upper, credit], ...>>]
  EICPhaseout,       \* [status -> [threshold, completed]]
  EICMinEarned, EICInvestmentLimit

\* The rows of the published credit table follow each other from nothing.
ASSUME CreditsAssumption ==
  /\ {PovertyLine[1], PovertyLine[2]} \subseteq Nat \ {0}
  /\ DOMAIN Figures \subseteq Nat /\ DOMAIN Figures # {}
  /\ \A percent \in DOMAIN Figures : Figures[percent] \in Nat
  /\ Len(RepaymentCaps) \in Nat /\ DOMAIN RepaymentCaps = 1 .. Len(RepaymentCaps)
  /\ \A i \in DOMAIN RepaymentCaps :
       RepaymentCaps[i][1] \in Nat /\ RepaymentCaps[i][2] \in Nat
  /\ {EICMinEarned, EICInvestmentLimit} \subseteq Nat
  /\ \A status \in DOMAIN EICPhaseout :
       {EICPhaseout[status].threshold, EICPhaseout[status].completed} \subseteq Nat
  /\ \A status \in DOMAIN EICTable :
       LET rows == EICTable[status] IN
       /\ Len(rows) \in Nat \ {0} /\ DOMAIN rows = 1 .. Len(rows) /\ rows[1].lower = 0
       /\ \A i \in DOMAIN rows : rows[i].upper \in Nat /\ rows[i].credit \in Nat
       /\ \A i \in 2 .. Len(rows) : rows[i].lower = rows[i - 1].upper

\* The greater a household's percentage, the greater the share of its income
\* that it is expected to pay (params/f8962, from Rev. Proc. tables).
ASSUME FiguresAssumption ==
  \A p, q \in DOMAIN Figures : p <= q => Figures[p] <= Figures[q]

\* --- Form 8962 ----------------------------------------------------------

\* tax_family_size; ptc_family_refusal when dependents leave it unknown.
FamilyUnknown(config) == config.status = "hoh" \/ config.dependents > 0
FamilySize(config)    == IF config.status = "mfj" THEN 2 ELSE 1

UnemploymentMismatch(block) == block.unemployment /\ ~UnemploymentRule

\* Line 5: the true percentage of the poverty line, 401 when over 400.
Percentage(block, magi, poverty) ==
  LET percent == (magi * 100) \div poverty
      over == IF BoundaryInclusive THEN percent >= 400 ELSE magi > 4 * poverty
  IN IF block.unemployment /\ UnemploymentRule THEN 133
     ELSE IF over THEN 401 ELSE percent

\* _applicable_figure: the step at or below, or the first step.
ApplicableFigure(percent) ==
  LET below == {k \in DOMAIN Figures : k <= percent}
  IN Figures[IF below = {} THEN Min(DOMAIN Figures) ELSE Max(below)]

\* Lines 8a and 8b.
Contribution(magi, percent) ==
  Rounded((magi * ApplicableFigure(percent) + (IF magi >= 0 THEN 50 ELSE -50)) \div 100)
MonthlyContribution(annual) == (2 * annual + 12) \div 24

\* _repayment_cap: the first band whose bound exceeds line 5.
RepaymentCap(percent) ==
  LET bands == {i \in DOMAIN RepaymentCaps : RepaymentCaps[i][1] > percent}
  IN IF bands = {} THEN None ELSE RepaymentCaps[Min(bands)][2]

\* Line 10: enrolled all year at one premium and one benchmark.
Annual(months) ==
  /\ Len(months) = 12
  /\ \A m \in DOMAIN months : /\ months[m].premium > 0
                              /\ months[m].premium = months[1].premium
                              /\ months[m].slcsp = months[1].slcsp

\* Column (e) of one month, and of line 11.
MonthCredit(month, line8b) ==
  Rounded(Smaller(month.premium, Positive(month.slcsp - 100 * line8b)))
YearCredit(months, line8a) ==
  Smaller(SumOf(months, LAMBDA m : Rounded(m.premium)),
          Positive(SumOf(months, LAMBDA m : Rounded(m.slcsp)) - line8a))

\* compute; a month without coverage adds nothing.
F8962(block, magi, config) ==
  LET percent == Percentage(block, magi, PovertyLine[FamilySize(config)])
      line8a  == Contribution(magi, percent)
      line8b  == MonthlyContribution(line8a)
      line24  == IF Annual(block.months) THEN YearCredit(block.months, line8a)
                 ELSE SumOf(block.months, LAMBDA m : MonthCredit(m, line8b))
      line25  == SumOf(block.months, LAMBDA m : Rounded(m.advance))
      excess  == Positive(line25 - line24)
      cap     == RepaymentCap(percent)
  IN [line5 |-> percent, line24 |-> line24, line25 |-> line25,
      line26 |-> Positive(line24 - line25),
      partIII |-> line25 > line24,        \* lines 27 to 29 are printed
      line29 |-> IF cap = None THEN excess ELSE Smaller(excess, cap)]

\* compute_spine: the deduction for health insurance (line 17) and the
\* credit each depend on the other.  Form 8962 is probed at the lowest MAGI
\* any deduction could give; a credit there keeps the refusal.
\* (Broken: the probe is made at the income of the return itself.)
ProbeAtReturn(agi, block, line17) == agi + block.exempt
ProbeMagi(agi, block, line17) ==
  agi + block.exempt
    - Positive(SumOf(block.months, LAMBDA m : m.premium) \div 100 - line17)

CircularRefused(agi, block, line17, config) ==
  /\ line17 # 0
  /\ F8962(block, ProbeMagi(agi, block, line17), config).line24 # 0

\* --- Earned income credit -----------------------------------------------

\* eic_from_table
TableCredit(amount, table) ==
  IF amount >= table[Len(table)].upper THEN 0
  ELSE table[CHOOSE i \in DOMAIN table :
               table[i].lower <= amount /\ amount < table[i].upper].credit

\* meets_age_test: either spouse's age on a joint return.
MeetsAge(config) ==
  config.age = "working" \/ (config.status = "mfj" /\ config.spouseAge = "working")

\* earned_income: Worksheet B's part turns on Schedule SE's threshold.
EarnedIncome(wages, businesses, netEarnings, netProfit, half) ==
  wages + (IF businesses = <<>> THEN 0
           ELSE IF netEarnings >= 400 THEN netProfit - half ELSE netProfit)

InvestmentIncome(exempt, interest, dividends, line7) ==
  exempt + interest + dividends + Positive(line7)

\* The tentative credit, every eligibility fact assumed favorable.
TentativeCredit(earned, invest, agi, config) ==
  LET phaseout == EICPhaseout[config.status]
      credit(amount) == TableCredit(amount, EICTable[config.status])
  IN IF \/ agi >= phaseout.completed \/ earned >= phaseout.completed
        \/ invest > EICInvestmentLimit \/ ~MeetsAge(config)
        \/ earned < EICMinEarned
     THEN 0
     ELSE IF agi # earned /\ agi >= phaseout.threshold
          THEN Smaller(credit(earned), credit(agi)) ELSE credit(earned)

\* refuse_worksheet_1_shapes, then the facts whose answer needs an input
\* the program does not have (apply_eligibility_facts).
People(facts, config) ==
  {facts.taxpayer} \cup (IF config.status = "mfj" THEN {facts.spouse} ELSE {})

EICRefusal(s, facts) ==
  IF AnyOf(s.k1s, LAMBDA k : k.entity = "partnership" /\ k.seEarnings # 0)
  THEN "k1_self_employment_earnings"
  ELSE IF s.k1s # <<>> THEN "worksheet_1_k1"
  ELSE IF s.rentals # <<>> THEN "worksheet_1_rental"
  ELSE IF facts = None THEN "eic_eligibility_missing"
  ELSE IF facts.needs8862 THEN "prior_eic_disallowance_8862"
  ELSE IF /\ \A p \in People(facts, s.config) : p.ssnValid
          /\ \E p \in People(facts, s.config) : p.nonresident
          /\ s.config.status = "mfj" THEN "nonresident_alien_spouse_election"
  ELSE "none"

\* The facts that deny the credit; two are not asked of a joint return.
EICDenied(facts, config) ==
  \/ \E p \in People(facts, config) : ~p.ssnValid \/ p.nonresident \/ ~p.homeInUS
  \/ config.status # "mfj" /\ (facts.taxpayer.childOfAnother \/ facts.taxpayer.claimable)

\* compute_eic, line 27a.
EarnedIncomeCredit(tentative, facts, config) ==
  IF tentative = 0 \/ EICDenied(facts, config) THEN 0 ELSE tentative
=============================================================================
