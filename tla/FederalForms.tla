---------------------------- MODULE FederalForms ----------------------------
(***************************************************************************)
(* Schedules A and B, Form 8995, the 1040 tax, and the 1040's own lines:   *)
(* forms/sch_a.py, sch_b.py, f8995.py, f1040_tax.py, tax_table.py and      *)
(* f1040_spine.py.  One year's parameters are the constants, those of a    *)
(* filing status its View.  Scenario amounts are cents, results dollars.   *)
(***************************************************************************)
EXTENDS Money

CONSTANTS
  View,             \* for_status: [status -> its parameters], a record of
                    \*   brackets <<<<upper, percent>>, ...>>, the published
                    \*   table <<[lower, tax], ...>>, zeroTop and fifteenTop,
                    \*   deduction and perAgeBox, qbiThreshold, saltCap
                    \*   (salt_cap_starting) and priorSaltCap
  TableCeiling,     \* taxable income at and above it uses the schedule
  NonitemizerCap,   \* nonitemizer_charitable_cap (0: none that year)
  SaltPhaseout,     \* salt_phaseout_threshold
  QBIRows,          \* rows of Form 8995 line 1 (5)
  InterestRows, DividendRows   \* rows of Schedule B

\* The published table starts at nothing, and no parameter is negative.
ViewAmounts(v) == {v.zeroTop, v.fifteenTop, v.deduction, v.perAgeBox,
                   v.qbiThreshold, v.saltCap, v.priorSaltCap}
ASSUME FederalFormsAssumption ==
  /\ {TableCeiling, NonitemizerCap, SaltPhaseout} \subseteq Nat
  /\ \A status \in DOMAIN View :
       LET v == View[status] IN
       /\ ViewAmounts(v) \subseteq Nat
       /\ Len(v.brackets) \in Nat /\ DOMAIN v.brackets = 1 .. Len(v.brackets)
       /\ \A i \in DOMAIN v.brackets :
            v.brackets[i][1] \in Nat /\ v.brackets[i][2] \in Nat
       /\ Len(v.table) \in Nat \ {0} /\ DOMAIN v.table = 1 .. Len(v.table)
       /\ v.table[1].lower = 0
       /\ \A i \in DOMAIN v.table : v.table[i].lower \in Nat /\ v.table[i].tax \in Nat

\* --- Schedule B ---------------------------------------------------------

\* Each payer is rounded, the K-1 additions after the 1099s.
PayerAmounts(forms, additions) ==
  [i \in DOMAIN (forms \o additions) |-> Rounded((forms \o additions)[i])]
ScheduleBTotal(forms, additions) ==
  SumOf(PayerAmounts(forms, additions), LAMBDA amount : amount)
ScheduleBRefused(interest, interestK1, dividends, dividendsK1) ==
  \/ Len(interest \o interestK1) > InterestRows
  \/ Len(dividends \o dividendsK1) > DividendRows

\* --- 1040 lines 1 to 11 (compute_income_preamble) -----------------------

\* Lines 2b, 3a and 3b: the 1099s summed and rounded, then the K-1s.
LineTotal(forms, additions) ==
  Rounded(SumOf(forms, LAMBDA f : f))
    + SumOf(additions, LAMBDA a : Rounded(a))
QualifiedTotal(forms, additions) ==
  Rounded(SumOf(forms, LAMBDA f : f)) + Rounded(SumOf(additions, LAMBDA a : a))

\* Line 7: Schedule D line 21 in a loss year, else line 16.
CapitalLine(d) == IF d.line16 < 0 THEN d.line21 ELSE d.line16

\* The preferential base: a net short-term gain stays ordinary.
NetCapitalGain(d) == Positive(Smaller(d.line15, d.line16))

Preamble(income, d, sch1) ==
  LET total == income.wages + income.interest + income.dividends
                 + CapitalLine(d) + sch1.line10
  IN [total |-> total, agi |-> total - sch1.line26,
      netGain |-> NetCapitalGain(d)]

\* --- Schedule A ---------------------------------------------------------

ScheduleARefused(agi, noIncomeTaxState, acknowledged) ==
  \/ noIncomeTaxState /\ ~acknowledged
  \/ agi > SaltPhaseout

\* compute; the medical floor is 7.5 percent of AGI, lines 5c, 6, 12, 13, 15
\* and 16 have no input.
MedicalFloor(agi) == Rounded((15 * agi) \div 2)
ScheduleA(it, withheldState, agi, status) ==
  LET line4  == Positive(Rounded(it.medical) - MedicalFloor(agi))
      line5a == Rounded(withheldState + it.stateTax)
      line5b == Rounded(it.propertyTax)
      line5e == Smaller(line5a + line5b, View[status].saltCap)
  IN [line4 |-> line4, line5a |-> line5a, line5b |-> line5b, line5e |-> line5e,
      line10 |-> Rounded(it.mortgage), line14 |-> Rounded(it.charity),
      line17 |-> line4 + line5e + Rounded(it.mortgage) + Rounded(it.charity)]

\* --- 1040 line 12 (standard_deduction_for, resolve_deductions) ----------

\* A joint return without the spouse's birthdate is refused.
AgeUnknown(config) == config.status = "mfj" /\ config.spouseAge = None
AgeBoxes(config) ==
  (IF config.age = "aged" THEN 1 ELSE 0)
    + (IF config.status = "mfj" /\ config.spouseAge = "aged" THEN 1 ELSE 0)
StandardDeduction(config) ==
  View[config.status].deduction + AgeBoxes(config) * View[config.status].perAgeBox

Itemizes(schA, config) == schA >= StandardDeduction(config)

\* The 2021 charitable deduction is refused rather than capped.
CharitableRefused(charitable, schA, config) ==
  charitable # 0 /\ (Itemizes(schA, config) \/ charitable > 100 * NonitemizerCap)

Deductions(charitable, schA, config) ==
  IF Itemizes(schA, config) THEN schA
  ELSE StandardDeduction(config) + Rounded(charitable)

\* --- Form 8995 ----------------------------------------------------------

\* c: the businesses' net and gross, half of the self-employment tax, the
\* health deduction and the nonzero QBI of the K-1s (cents), the election.
\* One row for a business of nonzero profit; with two active businesses the
\* half of the self-employment tax follows gross income.
GrossOf(c) == SumOf(c.businesses, LAMBDA b : b.gross)
ActiveBusinesses(c) == Where(c.businesses, LAMBDA b : b.net # 0 \/ b.gross # 0)
Earning(c) == Where(c.businesses, LAMBDA b : b.net # 0)
HealthShare(c) == IF Earning(c) # <<>> THEN c.health ELSE 0

\* Broken: each business bears the whole reduction.
RowsReducedTwice(c) ==
  [i \in DOMAIN Earning(c) |->
    Rounded(100 * (Earning(c)[i].net - c.half) - HealthShare(c))]

BusinessRows(c) ==
  LET G == GrossOf(c)
      own(b) == IF c.half = 0 THEN b.net
                ELSE RoundedRatio(b.net * G - c.half * b.gross, G)
      rows == Where(c.businesses,
                        LAMBDA b : b.net # 0 \/ c.half * b.gross # 0)
  IN IF Len(ActiveBusinesses(c)) <= 1
     THEN [i \in DOMAIN Earning(c) |->
             Rounded(100 * (Earning(c)[i].net - c.half) - HealthShare(c))]
     ELSE [i \in DOMAIN rows |-> own(rows[i])]

\* The K-1s' rows; the elected reduction comes off the only one.
Reduction(c) ==
  IF c.health # 0 /\ c.k1QBI # <<>> /\ c.election = "irs-faq" THEN c.health ELSE 0
K1Rows8995(c) ==
  [i \in DOMAIN c.k1QBI |-> Rounded(c.k1QBI[i] - Reduction(c))]

\* Before any row is rounded, in cents; and line 2, of the rounded rows.
QBIBeforeRounding(c) ==
  SumOf(c.k1QBI, LAMBDA q : q)
    + 100 * (SumOf(c.businesses, LAMBDA b : b.net) - c.half)
    - HealthShare(c) - Reduction(c)
QBITotal(c) == SumOf(BusinessRows(c) \o K1Rows8995(c), LAMBDA q : q)

\* A health deduction beside K-1 QBI: which QBI it reduces is known only
\* when everything is an S corporation's, and then by election.
HealthQBIRefused(c) ==
  /\ c.health # 0 /\ c.k1QBI # <<>>
  /\ \/ c.businesses # <<>> \/ ~c.onlyScorpQBI \/ c.election = "none"
     \/ c.election = "irs-faq" /\ Len(c.k1QBI) > 1

F8995Refused(c, taxable, acknowledged, status) ==
  \/ HealthQBIRefused(c)
  \/ QBIBeforeRounding(c) > 0 /\ ~acknowledged
       /\ Positive(taxable) > View[status].qbiThreshold
  \/ Len(ActiveBusinesses(c)) > 1 /\ c.health # 0
  \/ Len(ActiveBusinesses(c)) > 1 /\ c.half # 0 /\ GrossOf(c) <= 0
  \/ Len(BusinessRows(c) \o K1Rows8995(c)) > QBIRows

FifthOf(n) == (2 * n + 5) \div 10    \* irs_round(0.20 * n), n >= 0

\* compute, line 15: taxable is 1040 line 11 less line 12, unfloored.
F8995(c, taxable, netGain, qualified) ==
  LET limit == FifthOf(Positive(taxable - (netGain + qualified)))
  IN [line2 |-> QBITotal(c),
      line15 |-> Smaller(FifthOf(Positive(QBITotal(c))), limit),
      line16 |-> Smaller(QBITotal(c), 0)]

\* --- 1040 line 16 (qdcgt_tax) -------------------------------------------

\* tax_from_schedule, rounded once.
ScheduleTax(taxable, brackets) ==
  LET lower(i) == IF i = 1 THEN 0 ELSE brackets[i - 1][1]
      slice(i) == Positive(Smaller(taxable, brackets[i][1]) - lower(i))
  IN Rounded(SumSeq([i \in DOMAIN brackets |-> slice(i) * brackets[i][2]]))

\* tax_from_table: the row with the greatest lower bound reached.
TableTax(taxable, table) ==
  table[Max({i \in DOMAIN table : table[i].lower <= taxable})].tax

OrdinaryTax(taxable, status) ==
  IF taxable <= 0 THEN 0
  ELSE IF taxable < TableCeiling THEN TableTax(taxable, View[status].table)
       ELSE ScheduleTax(taxable, View[status].brackets)

QDCGTTax(taxable, qualified, netGain, status) ==
  LET preferential == Positive(Smaller(qualified + netGain, taxable))
      ordinary == taxable - preferential
      zeroTop == View[status].zeroTop
      atZero == Positive(Smaller(taxable, zeroTop) - ordinary)
      at15 == Smaller(Positive(Smaller(taxable, View[status].fifteenTop)
                                 - Larger(ordinary, zeroTop)),
                      preferential - atZero)
      at20 == preferential - atZero - at15
  IN Smaller(OrdinaryTax(ordinary, status) + Rounded(15 * at15) + Rounded(20 * at20),
             OrdinaryTax(taxable, status))

\* --- 1040 lines 13 to 37 (compute_spine) --------------------------------

\* Addl Medicare withholding counts only beside the tax itself.
MedicareWithheld(medicare) == IF medicare.line18 # 0 THEN medicare.line24 ELSE 0

Spine(p, status, deduction, qbi, qualified, medicare, seTax, ptc, eic, payments) ==
  LET taxable == Positive(p.agi - deduction - qbi)
      line16  == QDCGTTax(taxable, qualified, p.netGain, status)
      line18  == line16 + ptc.line29
      line22  == Positive(line18 - 0)
      line23  == medicare.line18 + seTax
      line24  == line16 + medicare.line18 + ptc.line29 + seTax
      line25d == payments.w2 + payments.other + MedicareWithheld(medicare)
      line33  == line25d + payments.estimated + ptc.line26 + eic
  IN [line9 |-> p.total, line11 |-> p.agi, line12 |-> deduction,
      line13 |-> qbi, line15 |-> taxable,
      line16 |-> line16, line17 |-> ptc.line29, line18 |-> line18,
      line22 |-> line22, line23 |-> line23, line24 |-> line24,
      line25d |-> line25d, line26 |-> payments.estimated,
      line32 |-> eic, line33 |-> line33,
      line34 |-> Positive(line33 - line24),
      line37 |-> Positive(line24 - line33)]
=============================================================================
