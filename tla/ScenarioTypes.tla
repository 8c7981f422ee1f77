---------------------------- MODULE ScenarioTypes ----------------------------
(***************************************************************************)
(* The fields of a scenario and their types: the dataclasses of models.py. *)
(* An amount is an int or float field, of which a scenario here keeps the  *)
(* whole cents, and it may be negative: the few fields whose sign the      *)
(* loader checks are in Refusals.  An optional field may be None.  Text,   *)
(* dates that no rule reads and answers that only an attestation gate      *)
(* reads are left out.                                                     *)
(***************************************************************************)
EXTENDS Money

IsList(x)        == Len(x) \in Nat /\ x = [i \in 1 .. Len(x) |-> x[i]]
ListOf(x, P(_))  == IsList(x) /\ \A i \in 1 .. Len(x) : P(x[i])
Amounts(x)       == x \in Seq(Int)
Optional(amount) == amount = None \/ amount \in Int
WholeDollars(amount) == amount % 100 = 0

\* --- Income -------------------------------------------------------------

TypedW2(w) ==
  {w.wages, w.withheld, w.medicare, w.ss, w.stateWithheld} \subseteq Int
Typed1099G(f) ==
  /\ {f.refund, f.unemployment, f.withheld} \subseteq Int
  /\ f.boxes \in [1 .. 4 -> Int]   \* RTAA, grants, agriculture, market gain
TypedLot(lot) ==
  /\ {lot.proceeds, lot.basis, lot.wash, lot.other} \subseteq Int
  /\ {lot.short, lot.reported, lot.rate28, lot.s1250} \subseteq BOOLEAN

K1Amounts8 ==
  {"ordinary", "rental", "otherRental", "royalties", "otherIncome", "prior", "qbi",
   "seEarnings"}
K1Fanout == {"interest", "dividends", "qualified", "short", "long"}
TypedK1(k) ==
  /\ K1Fanout \subseteq DOMAIN k
  /\ \A box \in K1Amounts8 \cup K1Fanout : k[box] \in Int
  /\ k.material \in BOOLEAN

\* --- Activities with depreciation ---------------------------------------

TypedAsset(a) ==
  /\ {a.basis, a.placed} \subseteq Int /\ a.month \in 1 .. 12
  /\ Optional(a.prior) /\ Optional(a.quarter)
  /\ {a.ackPrior, a.disposed} \subseteq BOOLEAN
TypedOverride(o) ==
  o # None => {o.amount, o.restates} \subseteq Int /\ o.ack \in BOOLEAN
\* depreciation is what resolve will put beside the figure stated.
TypedActivity(act) ==
  /\ ListOf(act.assets, TypedAsset) /\ TypedOverride(act.override)
  /\ act.stated \in Int
  /\ "depreciation" \in DOMAIN act /\ act.depreciation \in Int
TypedRental(r) ==
  r.rents \in Int /\ Amounts(r.expenses)
TypedBusiness(b) ==
  {b.receipts, b.otherExpenses} \subseteq Int /\ Amounts(b.expenses)

\* --- Deductions and credits ---------------------------------------------

TypedItemized(it) ==
  it # None =>
    {it.medical, it.stateTax, it.charity, it.mortgage, it.propertyTax} \subseteq Int
Typed1098(f) == f # None => {f.mortgage, f.propertyTax} \subseteq Int
TypedMonth(m) == {m.premium, m.slcsp, m.advance} \subseteq Int
TypedBlock(block) ==
  block # None =>
    /\ "unemployment" \in DOMAIN block /\ block.unemployment \in BOOLEAN
    /\ block.exempt \in Int /\ ListOf(block.months, TypedMonth)

\* Last year's return, as the configuration states it.
TypedPrior(prior) ==
  /\ prior.itemized \in BOOLEAN
  /\ \A amount \in {prior.deduction, prior.standard, prior.paid} : Optional(amount)

\* --- The corporation, California, an amendment --------------------------

CorporateAmounts(c) ==
  {c.receipts, c.returns, c.cogs, c.gain4797, c.otherIncome, c.otherDeductions,
   c.passiveTax, c.gainsTax, c.w2Wages, c.distributions}
TypedCorporation(c) ==
  c # None =>
    /\ CorporateAmounts(c) \subseteq Int
    /\ Amounts(c.deductions) /\ Amounts(c.payments) /\ Amounts(c.shares)
    /\ Optional(c.qbiOverride)

TypedDivergence(row) == row.amount \in Int
TypedCA(ca) ==
  ca # None =>
    /\ {ca.ptet, ca.useTax, ca.penalty, ca.estimated} \subseteq Int
    /\ \A amount \in {ca.interest, ca.rrb, ca.pfl} : Optional(amount)
    /\ Amounts(ca.voluntary) /\ ListOf(ca.divergences, TypedDivergence)

TypedCase(case) ==
  case # None =>
    /\ {case.received, case.applied} \subseteq Int
    /\ \A amount \in {case.paid, case.caReceived, case.caApplied} : Optional(amount)

\* --- The scenario -------------------------------------------------------

ReturnFields ==
  {"w2s", "interest", "dividends", "g", "rentals", "businesses", "k1s", "lots", "block",
   "charitable", "health", "itemized", "exempt", "election"}
TypedForms(s) ==
  /\ ListOf(s.w2s, TypedW2) /\ Amounts(s.interest) /\ Amounts(s.dividends)
  /\ ListOf(s.g, Typed1099G) /\ ListOf(s.lots, TypedLot) /\ ListOf(s.k1s, TypedK1)
TypedActivities(s) ==
  /\ ListOf(s.rentals, TypedRental) /\ ListOf(s.businesses, TypedBusiness)
  /\ ListOf(s.rentals, TypedActivity) /\ ListOf(s.businesses, TypedActivity)
\* Schedule 1 hands line 17 on unrounded (sch_1.py), where the lines here are
\* whole dollars: health insurance is stated in whole dollars.
TypedReturn(s) ==
  /\ ReturnFields \subseteq DOMAIN s /\ s.year \in Int
  /\ TypedForms(s) /\ TypedActivities(s)
  /\ {s.qualified, s.distributions, s.exempt, s.estimated, s.charitable, s.health}
       \subseteq Int
  /\ WholeDollars(s.health)
  /\ TypedPrior(s.prior) /\ TypedItemized(s.itemized) /\ Typed1098(s.form1098)
  /\ TypedBlock(s.block) /\ TypedCorporation(s.corp) /\ TypedCA(s.ca)
  /\ TypedCase(s.case)
=============================================================================
