------------------------------ MODULE California ------------------------------
(***************************************************************************)
(* The California return: Schedule CA (forms/sch_ca.py), the divergence    *)
(* catalog and its gate (ca_divergences.py), Form 540 (forms/f540.py) and  *)
(* what printing them refuses.                                             *)
(*                                                                         *)
(* A ca540 block is amounts in cents, the divergences the filer applies    *)
(* (<<[id, amount, direction]>>) and the ids the filer reviewed.  Renter's *)
(* credit and dependents cannot arise: the first has no input, a return    *)
(* with dependents is refused on the federal side.                         *)
(***************************************************************************)
EXTENDS FederalForms
SX == INSTANCE SequencesExt

CONSTANTS
  Catalog,      \* load_catalog(year): [id -> [line, section, direction, auto,
                \*   gate, triggers]]; section "C" is an adjustment line,
                \*   "D" a Schedule D line, "A" every other
  CAView,       \* [status -> [schedule <<<<threshold, thousandths>>, ...>>,
                \*   deduction, exemption, phaseout]]
  SeniorCredit

ASSUME CaliforniaAssumption ==
  /\ SeniorCredit \in Nat /\ IsFiniteSet(DOMAIN Catalog)
  /\ \A status \in DOMAIN CAView :
       LET v == CAView[status] IN
       /\ {v.deduction, v.exemption, v.phaseout} \subseteq Nat
       /\ Len(v.schedule) \in Nat /\ DOMAIN v.schedule = 1 .. Len(v.schedule)
       /\ \A i \in DOMAIN v.schedule :
            v.schedule[i][1] \in Nat /\ v.schedule[i][2] \in Nat

\* --- Divergences --------------------------------------------------------

\* resolve_divergence_id, materialize_user_divergence, _load_ca540
RowRefused(row) ==
  \/ row.id \notin DOMAIN Catalog
  \/ Catalog[row.id].section = "D" \/ row.amount <= 0
  \/ (Catalog[row.id].direction = "both") = (row.direction = None)

CA540Refused(ca) ==
  \/ AnyOf(ca.divergences, RowRefused)
  \/ Cardinality({ca.divergences[i].id : i \in DOMAIN ca.divergences})
       # Len(ca.divergences)
  \/ ~(ca.reviewed \subseteq DOMAIN Catalog)
  \/ ca.interest # None /\ ca.interest < 0

\* TRIGGER_PREDICATES over a scenario, by trigger name.
Fires(trigger, s) ==
  CASE trigger = "has_k1" -> s.k1s # <<>>
    [] trigger = "has_tax_exempt_interest" -> s.exempt > 0
    [] trigger = "has_capital_gain_distributions" -> s.distributions > 0
    [] trigger = "has_state_tax_refund" -> AnyOf(s.g, LAMBDA f : f.refund > 0)
    [] trigger = "has_rental_depreciation" ->
         AnyOf(s.rentals, LAMBDA r : r.depreciation > 0)

\* check_unaddressed_divergences
Addressed(ca) ==
  {ca.divergences[i].id : i \in DOMAIN ca.divergences} \cup ca.reviewed
Unaddressed(s, ca) ==
  {id \in DOMAIN Catalog :
     /\ Catalog[id].gate /\ \E t \in Catalog[id].triggers : Fires(t, s)
     /\ id \notin Addressed(ca)}

\* derive_auto_divergences: rows keyed on a federal result or a ca540 field.
AutoAmount(auto, fed, ca) ==
  CASE auto = "unemployment" -> 100 * fed.unemployment
    [] auto = "refund"       -> 100 * fed.refund
    [] auto = "rrb" -> IF ca.rrb = None THEN 0 ELSE ca.rrb
    [] auto = "pfl" -> IF ca.pfl = None THEN 0 ELSE ca.pfl
    [] OTHER -> 0

Row(id, amount, direction) ==
  [line |-> Catalog[id].line, section |-> Catalog[id].section,
   amount |-> amount,
   column |-> IF Catalog[id].direction = "both" THEN direction
              ELSE Catalog[id].direction]
AutoRows(fed, ca) ==
  LET ids == {id \in DOMAIN Catalog : AutoAmount(Catalog[id].auto, fed, ca) > 0}
  IN [i \in 1 .. Cardinality(ids) |->
        LET id == SX!SetToSeq(ids)[i]
        IN Row(id, AutoAmount(Catalog[id].auto, fed, ca), None)]
UserRows(ca) ==
  [i \in DOMAIN ca.divergences |->
     Row(ca.divergences[i].id, ca.divergences[i].amount,
         ca.divergences[i].direction)]
Rows(fed, ca) == UserRows(ca) \o AutoRows(fed, ca)

\* --- Schedule CA Part I -------------------------------------------------

ColumnSum(rows, section, column) ==
  SumOf(rows, LAMBDA r :
    IF (r.section = "C") = (section = "C") /\ r.column = column
    THEN r.amount ELSE 0)

\* Line 27 of a column: income lines less adjustment lines, in cents.
Line27(rows, column) ==
  ColumnSum(rows, "A", column) - ColumnSum(rows, "C", column)

\* part_i_printed_totals: line 10 less line 26, of the rounded lines.
PrintedLine27(rows, column) ==
  LET lines == {<<rows[i].section, rows[i].line>> : i \in DOMAIN rows}
      amount(l) == Rounded(SumOf(rows, LAMBDA r :
        IF <<r.section, r.line>> = l /\ r.column = column THEN r.amount ELSE 0))
  IN SumOver(lines, LAMBDA l : IF l[1] = "C" THEN -amount(l) ELSE amount(l))

\* compute
ScheduleCA(ca, fed) ==
  LET rows == Rows(fed, ca) IN
  [subtractions |-> Rounded(Line27(rows, "sub")),
   additions |-> Rounded(Line27(rows, "add")),
   printedSub |-> PrintedLine27(rows, "sub"),
   printedAdd |-> PrintedLine27(rows, "add"),
   caAGI |-> Rounded(100 * fed.agi - Line27(rows, "sub") + Line27(rows, "add"))]

\* --- Schedule CA Part II ------------------------------------------------

\* federal_itemization_applied
FederalItemized(schA, applied) == schA.line17 > 0 /\ applied = schA.line17

\* compute_part_ii_itemized: no state income tax, no cap.
PartIILine5eB(schA) == schA.line5a
PartIILine5eC(schA) == schA.line5a + schA.line5b - schA.line5e
PartIILine18(schA) == schA.line17 - PartIILine5eB(schA) + PartIILine5eC(schA)
CAItemized(schA) ==
  schA.line4 + schA.line5b + schA.line10 + schA.line14

\* --- Form 540 -----------------------------------------------------------

\* _walk_rate_schedule
CAScheduleTax(income, schedule) ==
  LET upper(i) == IF i = Len(schedule) THEN income
                  ELSE Smaller(income, schedule[i + 1][1])
      slice(i) == Positive(upper(i) - schedule[i][1])
  IN RoundedRatio(SumSeq([i \in DOMAIN schedule |-> slice(i) * schedule[i][2]]), 1000)

\* compute_ca_tax: the table's bins at their integer midpoint.
CATax(taxable, status) ==
  LET midpoint == 100 * ((taxable - 50 + 99) \div 100)
      schedule == CAView[status].schedule
  IN IF taxable <= 50 THEN 0
     ELSE IF taxable <= 99950 THEN CAScheduleTax(midpoint, schedule)
     ELSE IF taxable <= 100000 THEN CAScheduleTax(99975, schedule)
     ELSE CAScheduleTax(taxable, schedule)

Truncated(cents) == IF cents >= 0 THEN cents \div 100 ELSE -((-cents) \div 100)
Voluntary(ca) == SumOf(ca.voluntary, LAMBDA v : v)

PhaseoutRefused(fed, status) == fed.agi > CAView[status].phaseout

\* compute, lines 18 to 48 and the signed total_liability; withheld in cents.
TaxAfterExemption(taxable, config) ==
  Positive(CATax(taxable, config.status)
             - CAView[config.status].exemption - SeniorCredit * AgeBoxes(config))

Form540(ca, config, caAGI, itemized, withheld) ==
  LET deduction == Larger(CAView[config.status].deduction,
                          IF itemized = None THEN 0 ELSE itemized)
      taxable == Positive(caAGI - deduction)
      line33  == TaxAfterExemption(taxable, config)
      line48  == Positive(line33 - Truncated(ca.ptet))
      whole   == line48 + Truncated(ca.useTax) + Truncated(ca.penalty)
                   - Truncated(ca.estimated) - Truncated(withheld)
  IN [deduction |-> deduction, taxable |-> taxable, line33 |-> line33,
      ptet |-> Truncated(ca.ptet), line48 |-> line48,
      line71 |-> Truncated(withheld), line72 |-> Truncated(ca.estimated),
      useTax |-> Truncated(ca.useTax), penalty |-> Truncated(ca.penalty),
      interest |-> IF ca.interest = None THEN None ELSE Truncated(ca.interest),
      voluntary |-> Rounded(Voluntary(ca)),
      liability |-> Rounded(100 * whole + Voluntary(ca))]

\* An unused PTET credit carries forward, which is not modeled.
PTETRefused(f) == f.ptet > 0 /\ f.ptet > f.line33

\* Broken: a contribution is left out of the amount owed.
Form540WithoutVoluntary(f) ==
  LET balance == Positive(f.useTax - f.line71 - f.line72)
                   + Positive(f.line48 - Positive(f.line71 + f.line72 - f.useTax))
      interest == IF f.interest = None THEN 0 ELSE f.interest
      excess == interest + f.penalty + f.voluntary
                  - Positive(f.line71 + f.line72 - f.useTax - f.line48)
      line114 == IF balance > 0 THEN balance + interest + f.penalty
                 ELSE IF excess > 0 THEN excess ELSE None
  IN [line99 |-> 0, line111 |-> IF balance > 0 THEN balance ELSE None,
      line114 |-> line114, line115 |-> IF line114 # None THEN None ELSE -excess]

\* printed_line_keys, lines 97 to 115: the lines that may print blank are
\* None when they do.
Form540Balance(f) ==
  LET paid    == f.line71 + f.line72
      line94  == Positive(f.useTax - paid)
      line95  == Positive(paid - f.useTax)
      line99  == Positive(line95 - f.line48)
      line100 == Positive(f.line48 - line95)
      line112 == IF f.interest = None THEN 0 ELSE f.interest
      line111 == IF line99 > 0
                 THEN IF f.voluntary > line99 THEN f.voluntary - line99 ELSE None
                 ELSE IF line94 + line100 + f.voluntary > 0
                      THEN line94 + line100 + f.voluntary ELSE None
      excess  == f.voluntary + line112 + f.penalty - line99
      line114 == IF line111 # None THEN line111 + line112 + f.penalty
                 ELSE IF excess > 0 THEN excess ELSE None
  IN [line99 |-> line99, line111 |-> line111, line114 |-> line114,
      line115 |-> IF line114 # None \/ line99 <= 0 THEN None ELSE -excess]

\* interest_and_penalties_must_be_stated
InterestUnstated(f, balance) ==
  /\ f.interest = None
  /\ balance.line111 # None \/ f.voluntary # 0 \/ f.penalty # 0

\* presentation_keys and _emit_ca_pdfs_internal.
CoverageGap(config) == config.coverage = FALSE

CAPacket(config) ==
  Sheets({"f540", "sch_ca"} \cup (IF config.status = "hoh" THEN {"ftb3532"} ELSE {}))
=============================================================================
