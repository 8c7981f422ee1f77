---------------------------- MODULE AmendmentForms ----------------------------
(***************************************************************************)
(* The two amendment forms: Form 1040-X (forms/f1040x.py) and California's *)
(* Schedule X (forms/schedule_x.py).  Each compares the figures filed with *)
(* the corrected ones; what was paid or refunded since comes from the      *)
(* amendment case (cents, None when not stated).                           *)
(*                                                                         *)
(* Filed and corrected figures are records of whole dollars; a filed       *)
(* figure may be None where the assembler has a rule for its absence.      *)
(***************************************************************************)
EXTENDS Money

Given(amount) == IF amount = None THEN 0 ELSE amount
Stated(a, b)  == Rounded(a + b)

\* --- Form 1040-X --------------------------------------------------------

\* _modeled_other_taxes and line 11 of a column.
OtherTaxes(d) == Given(d.medicare) + Given(d.seTax)
AmendedLine11(d) ==
  d.tax + Given(d.repayment) - Given(d.nonrefundable) + OtherTaxes(d)

\* _guard_out_of_scope and _guard_other_taxes_reconciled
FiledOutOfScope(filed) ==
  \/ Given(filed.schedule1A) # 0 \/ Given(filed.nonrefundable) # 0
  \/ Given(filed.eic) # 0
  \/ filed.otherTaxes # None
       /\ filed.otherTaxes - OtherTaxes(filed) \notin -1 .. 1

\* _guard_original_overpayment; _line16_original_tax_paid
OriginalOverpayment(case) == Stated(case.received, case.applied)
OriginalTaxPaid(case) == IF case.paid = None THEN 0 ELSE Rounded(case.paid)
BalanceDue(filed) == AmendedLine11(filed) - filed.payments

OverpaymentMismatch(filed, case) ==
  filed.overpaid # None /\ OriginalOverpayment(case) # filed.overpaid
PaymentUnknown(filed, case) ==
  IF case.paid = None THEN BalanceDue(filed) > 0 ELSE case.paid < 0

F1040XRefused(filed, case) ==
  \/ FiledOutOfScope(filed)
  \/ OverpaymentMismatch(filed, case) \/ PaymentUnknown(filed, case)

\* Broken: the original overpayment is not taken off the payments.
F1040XUnadjusted(filed, corrected, case) ==
  LET line16 == OriginalTaxPaid(case)
      line19 == corrected.payments + line16
      line11 == AmendedLine11(corrected)
  IN [line11a |-> AmendedLine11(filed), line11c |-> line11, line17 |-> line19,
      line20 |-> Positive(line11 - line19), line22 |-> Positive(line19 - line11)]

\* assemble and _tail; line 14 (earned income credit) is never filled.
F1040X(filed, corrected, case) ==
  LET line16 == OriginalTaxPaid(case)
      line17 == corrected.payments + line16
      line19 == line17 - OriginalOverpayment(case)
      line11 == AmendedLine11(corrected)
  IN [line11a |-> AmendedLine11(filed), line11c |-> line11,
      line12c |-> corrected.withheld, line13c |-> Given(corrected.estimated),
      line13a |-> IF filed.estimated = None THEN Given(corrected.estimated)
                  ELSE filed.estimated,
      line14c |-> 0, line15c |-> Given(corrected.netPTC),
      line16 |-> line16, line17 |-> line17,
      line18 |-> OriginalOverpayment(case), line19 |-> line19,
      line20 |-> Positive(line11 - line19), line22 |-> Positive(line19 - line11)]

\* --- Schedule X ---------------------------------------------------------

ScheduleXRefused(filed, case) ==
  \/ filed.liability = None
  \/ Given(filed.otherState) # 0 \/ Given(filed.amt) # 0
  \/ None \in {case.caReceived, case.caApplied}
  \/ Stated(case.caReceived, case.caApplied) # Positive(-filed.liability)

\* assemble_ca: of the filed and the corrected f540_total_liability.
ScheduleX(filed, corrected, case) ==
  LET line3 == Positive(corrected) + Stated(case.caReceived, case.caApplied)
      line6 == Positive(-corrected) + Positive(filed)
  IN [line3 |-> line3, line6 |-> line6,
      line7 |-> Positive(line3 - line6), line11 |-> Positive(line6 - line3)]
=============================================================================
