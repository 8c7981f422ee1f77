---------------------------- MODULE ReturnSummary ----------------------------
(***************************************************************************)
(* What is read off the results of a return once they are computed: the    *)
(* extension, Form 4868 (forms/f4868.py), and the one-page cover           *)
(* (summary.py).                                                           *)
(*                                                                         *)
(* Results r are a record of the 1040's lines, None where the route that   *)
(* computed them publishes no such line; r.harvested is line 24 as the     *)
(* workbook states it, which the native spine never publishes.  A bottom   *)
(* line is signed: a refund is positive, an amount owed negative.          *)
(***************************************************************************)
EXTENDS Money

\* --- Form 4868 ----------------------------------------------------------

\* compose_line_24: the floor is on line 18 less the credits, and Part II of
\* Schedule 2 comes after it.
ComposedLine24(line16, partI, credits, partII) ==
  Positive(line16 + partI - credits) + partII

\* Broken: the income tax of line 16 stands for the total tax.
LiabilityOfLine16(r) == r.line16

\* total_tax_liability_line_24: harvested, or composed.
TotalTaxLiability(r) ==
  IF r.harvested # None THEN r.harvested
  ELSE IF r.line16 = None THEN None
  ELSE ComposedLine24(r.line16, r.line17, 0, r.line23)

\* compute: without a line 24 the form is refused, not estimated at zero.
F4868Refused(r) == TotalTaxLiability(r) = None
F4868(r) ==
  [line4 |-> TotalTaxLiability(r), line5 |-> r.line33,
   line6 |-> Positive(TotalTaxLiability(r) - r.line33)]

\* --- The cover ----------------------------------------------------------

\* _settlement: a side is said only when it is positive, and that the return
\* is even only when both sides are known.
Settlement(owe, refund) ==
  IF refund # None /\ refund > 0 THEN refund
  ELSE IF owe # None /\ owe > 0 THEN -owe
  ELSE IF owe = None \/ refund = None THEN None
  ELSE 0

\* _federal_bottom_line: what is owed comes from line 24 where line 37 is
\* not published.
FederalBottomLine(r) ==
  IF r.line37 = None /\ r.harvested # None
  THEN Settlement(Positive(r.harvested - r.line33),
                  IF r.line34 = None THEN Positive(r.line33 - r.harvested) ELSE r.line34)
  ELSE Settlement(r.line37, r.line34)

\* _ca_bottom_line, of the signed f540_total_liability; and the amendment's.
CABottomLine(liability) == Settlement(Positive(liability), Positive(-liability))
F1040XBottomLine(x)   == Settlement(x.line20, x.line22)
ScheduleXBottomLine(x) == Settlement(x.line7, x.line11)

\* _total_tax_amount, and Schedule 2's rows, which need both their parts.
TotalTaxRow(r) ==
  IF r.harvested # None THEN r.harvested
  ELSE IF None \in {r.line22, r.line23} THEN None ELSE r.line22 + r.line23
OtherTaxesRow(r) ==
  IF None \in {r.line17, r.line23} THEN None ELSE r.line17 + r.line23

\* _VOCABULARY, the federal rows; _other_income is the rest of Schedule 1's
\* line 10, so that the income rows add up to line 9.
IncomeRows(r) ==
  <<r.wages, r.interest, r.dividends, r.line7, r.sch1.line3, r.sch1.line5,
    r.sch1.line10 - r.sch1.line3 - r.sch1.line5>>
FederalRows(r) ==
  [total |-> r.line9, adjustments |-> r.sch1.line26, agi |-> r.line11,
   deduction |-> r.line12, qbi |-> r.line13, taxable |-> r.line15,
   incomeTax |-> r.line16, otherTaxes |-> OtherTaxesRow(r),
   totalTax |-> TotalTaxRow(r), payments |-> r.line33,
   bottomLine |-> FederalBottomLine(r)]
=============================================================================
