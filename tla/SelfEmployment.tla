--------------------------- MODULE SelfEmployment ---------------------------
(***************************************************************************)
(* A sole proprietor's income and taxes, from Schedule C to Schedules 1    *)
(* and 2: forms/sch_c.py, sch_se.py, f8959.py, sch_1.py and sch_2.py.      *)
(*                                                                         *)
(* A business is its receipts, Part II expenses and resolved depreciation  *)
(* in cents, and whether it has an input the program does not model.       *)
(* Rates are exact: net earnings are kept in ten-thousandths of a dollar.  *)
(***************************************************************************)
EXTENDS Money

CONSTANTS
  WageBase,            \* ss_wage_base of the year
  MedicareThreshold    \* [status -> addl_medicare_threshold]
ASSUME SelfEmploymentAssumption ==
  /\ WageBase \in Nat
  /\ \A status \in DOMAIN MedicareThreshold : MedicareThreshold[status] \in Nat

\* --- Schedule C ---------------------------------------------------------

PartIILines(b) == Append(b.expenses, b.depreciation)      \* part_ii_lines

\* net_profit_estimate: in cents, for the scope gates.
NetEstimate(b) == b.receipts - SumOf(PartIILines(b), LAMBDA e : e)

\* printed_net_profit, line 31: the page foots.
Line31(b) == Rounded(b.receipts) - SumOf(PartIILines(b), Rounded)

\* _guard_unmodeled, and a loss not attested to be at risk.
ScheduleCRefused(businesses, atRisk) ==
  AnyOf(businesses, LAMBDA b : b.unmodeled \/ (Line31(b) < 0 /\ ~atRisk))

BusinessIncome(businesses) == SumOf(businesses, Line31)

\* emit_values: other expenses are itemized in Part V, at print time.
ScheduleCPrintRefused(b) == b.otherExpenses # 0 /\ ~b.itemized

\* --- Schedule SE --------------------------------------------------------

Dollar == 10000
NearestDollar(tenThousandths) == (tenThousandths + Dollar \div 2) \div Dollar

NetEarnings(net) == 9235 * net       \* line 4c

OwesSE(net) == net > 0 /\ NetEarnings(net) >= 400 * Dollar

\* Social Security wages left under the wage base (line 9).
LeftUnderBase(wages) == Positive(WageBase - wages)

\* Lines 10 (12.4 percent) and 11 are rounded, line 12 adds them as printed.
SocialSecurityPart(net, wages) ==
  NearestDollar((Smaller(NetEarnings(net), Dollar * LeftUnderBase(wages)) * 31)
                  \div 250)
MedicarePart(net) == NearestDollar((NetEarnings(net) * 29) \div 1000)

SETax(net, wages) ==
  IF OwesSE(net) THEN SocialSecurityPart(net, wages) + MedicarePart(net) ELSE 0
HalfSE(net, wages) == (SETax(net, wages) + 1) \div 2

\* Lines 8d to 10 are not printed when the wages reach the base.
SELinesPrinted(net, wages) ==
  IF net <= 0 THEN {}
  ELSE IF ~OwesSE(net) THEN {"2", "3", "4a", "4c", "12", "13"}
  ELSE {"2", "3", "4a", "4c", "6", "7", "8a", "11", "12", "13"}
         \cup (IF wages >= WageBase THEN {} ELSE {"8d", "9", "10"})

SpouseWages(w2s) == AnyOf(w2s, LAMBDA w : w.owner = "spouse")
SERefused(net, w2s) == OwesSE(net) /\ SpouseWages(w2s)

\* --- Form 8959 ----------------------------------------------------------

\* Line 18 in ten-thousandths, from unrounded lines 7 and 13.
MedicareExcess(wages, net, threshold) ==
  LET earnings == IF OwesSE(net) THEN NearestDollar(NetEarnings(net)) ELSE 0
      left     == Positive(threshold - wages)
  IN [line7 |-> 90 * Positive(wages - threshold),
      line13 |-> 90 * Positive(earnings - left)]

F8959(wages, withheld, net, status) ==
  LET x == MedicareExcess(wages, net, MedicareThreshold[status])
  IN [line7  |-> NearestDollar(x.line7),
      line13 |-> NearestDollar(x.line13),
      line18 |-> NearestDollar(x.line7 + x.line13),
      line24 |-> NearestDollar(Positive(Dollar * withheld - 145 * wages))]

\* --- Schedule 1 ---------------------------------------------------------

\* line_8z: each type of 1099-G box summed over the forms, then rounded.
Boxes8z(g) == [i \in 1 .. 4 |-> Rounded(SumOf(g, LAMBDA f : f.boxes[i]))]
Rows8z(g)  == Where(Boxes8z(g), LAMBDA amount : amount # 0)
Line8z(g)  == SumSeq(Rows8z(g))
SeeStatement(g) == Len(Rows8z(g)) >= 2

\* Last year's deduction over its standard deduction; an amount not stated
\* counts as nothing.
OrZero(x) == IF x = None THEN 0 ELSE x
Recovery(prior) == Positive(OrZero(prior.deduction) - OrZero(prior.standard))

\* Broken: a refund of taxes over last year's cap is taxed.
UncappedRefund(refund, prior, cap) ==
  IF ~prior.itemized \/ refund = 0 THEN 0
  ELSE Rounded(Smaller(refund, Recovery(prior)))

\* Line 1: the refund that raised last year's capped deduction (cap is
\* prior_year_salt_cap of the filing status).
TaxableRefund(refund, prior, cap) ==
  LET paid == OrZero(prior.paid)
      kept == Smaller(paid, 100 * cap) - Smaller(Positive(paid - refund), 100 * cap)
  IN IF ~prior.itemized \/ refund = 0 THEN 0
     ELSE Rounded(Smaller(refund, Smaller(Recovery(prior), Positive(kept))))

\* The section 162(l) limits on a health-insurance deduction (in cents).
HealthRefused(businesses, health, half) ==
  /\ businesses # <<>> /\ health > 0
  /\ \/ Len(businesses) >= 2
     \/ health > 100 * Positive(BusinessIncome(businesses) - half)

\* compute: lines 10 and 26; g is the 1099-Gs.
Schedule1(c) ==
  LET refunds == SumOf(c.g, LAMBDA f : f.refund)
      line1 == TaxableRefund(refunds, c.prior, c.cap)
      line7 == Rounded(SumOf(c.g, LAMBDA f : f.unemployment))
  IN [line1 |-> line1, line3 |-> c.business, line5 |-> c.scheduleE,
      line7 |-> line7, line9 |-> Line8z(c.g),
      line10 |-> line1 + c.business + c.scheduleE + line7 + Line8z(c.g),
      line15 |-> c.half, line17 |-> c.health, line26 |-> c.half + c.health]

\* --- Schedule 2 ---------------------------------------------------------

\* compute: Part I was renumbered in 2024.
Schedule2(year, repayment, seTax, medicare) ==
  [repaymentLine |-> IF repayment = 0 THEN "none"
                     ELSE IF year < 2024 THEN "2" ELSE "1a",
   line3 |-> repayment, line21 |-> seTax + medicare]
=============================================================================
