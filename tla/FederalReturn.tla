---------------------------- MODULE FederalReturn ----------------------------
(***************************************************************************)
(* One filer's return, from the scenario to the printed packet             *)
(* (orchestrator.py).  A scenario is loaded and refused or accepted; the   *)
(* S corporation's K-1s join the shareholder's own; the guards run; the    *)
(* return goes to the native forms or to the workbook; what was computed   *)
(* is printed, or feeds the California return or the amendment.            *)
(*                                                                         *)
(* Each action is one stage of the pipeline: the refusals of that stage in *)
(* the order of the code, then its figures.  A refusal ends the return.    *)
(***************************************************************************)
EXTENDS Refusals, Positions, AuditWorkbook, CapitalGains, SelfEmployment, Credits,
        California, AmendmentForms, ReturnSummary, WorkbookCells, ScenarioTypes

CONSTANTS
  Scenarios,            \* the returns to prepare
  WorkbookAnswers,      \* what the workbook may say beside its arithmetic:
                        \*   [eic, verdict, extra (a credit of no line),
                        \*    caption, probe]
  ExcessLossThreshold,  \* [status -> excess_business_loss_threshold]
  WithheldMaximum,      \* ss_withholding_maximum, in cents
  NativeSpine, NativeEIC,  \* {<<year, status>>} of the support grids
  ScheduleCYears,       \* SCHEDULE_C_FAMILY_YEARS
  ScheduleRLimits,      \* _SCHEDULE_R_AGI_LIMITS: [<<status, boxes>> -> AGI]
  EICCeiling,           \* eic_income_ceiling: [children -> dollars]
  CalEITCMaximum        \* caleitc_max_earned_income

Commands == {"federal", "california", "scorp", "amendment"}
ScenarioFields ==
  {"command", "config", "year", "k1s", "lots", "corp", "denied", "rentals",
   "businesses", "change", "amended"}

\* A scenario has its fields; an amendment's is two scenarios, the return
\* as filed and the return as corrected; and the California command comes
\* with the ca540 block of its file (_build_effective_ca540).
ASSUME ScenarioAssumption ==
  \A s \in Scenarios :
    /\ ScenarioFields \subseteq DOMAIN s /\ s.command \in Commands
    /\ s.command = "amendment" =>
         ScenarioFields \subseteq DOMAIN s.amended /\ s.amended.command = "amendment"
    /\ s.command = "california" => s.ca # None

\* Its amounts are numbers, and its answers given or None.
TypedScenario(s) == TypedReturn(s) /\ s.config.status \in Statuses
ASSUME TypeAssumption ==
  \A s \in Scenarios :
    TypedScenario(s) /\ (s.command = "amendment" => TypedScenario(s.amended))
\* Every year's tables have a column for each filing status; those of the
\* earned income credit, for the ones it is computed for.
ASSUME TablesAssumption ==
  /\ Statuses \subseteq DOMAIN View \cap DOMAIN CAView \cap DOMAIN MedicareThreshold
  /\ \A status \in Statuses : ExcessLossThreshold[status] \in Nat
  /\ \A cell \in NativeEIC : cell[2] \in DOMAIN EICTable \cap DOMAIN EICPhaseout
  /\ \A answer \in WorkbookAnswers : {answer.eic, answer.extra} \subseteq Int

\* A row of the native grid is of a year that the Schedule C family has
\* (years.py).
ASSUME GridsAssumption == \A cell \in NativeSpine : cell[1] \in ScheduleCYears

\* A head of household's block counts days (models.py, an int field).
CountsDays(config) == config.hoh # None => config.hoh.person.days \in Int
ASSUME HouseholdAssumption ==
  \A s \in Scenarios :
    CountsDays(s.config) /\ (s.command = "amendment" => CountsDays(s.amended.config))

\* So are a Form 3115's amounts numbers, and its answers given or None.
TypedChange(c) ==
  c # None =>
    /\ c.adjustment \in Int
    /\ \A i \in DOMAIN c.assets : AssetAmounts(c.assets[i]) \subseteq Int
    /\ \A q \in ChangeQuestions : c.answers[q] \in BOOLEAN \cup {None}
ASSUME ChangeAssumption ==
  \A s \in Scenarios :
    TypedChange(s.change) /\ (s.command = "amendment" => TypedChange(s.amended.change))

\* Only the view of one activity that resolve builds has been told the answer
\* to the forty percent test (_one_activity_scenario): a return works it out.
ASSUME AnswerAssumption ==
  \A s \in Scenarios :
    s.answer = None /\ (s.command = "amendment" => s.amended.answer = None)

VARIABLES
  scenario,   \* as given, or as amended once the original is filed
  stage,      \* the next stage, or how the return ended
  refusal,    \* the name of the refusal that ended it, or "none"
  figures,    \* what the stages so far computed
  printed,    \* the forms written
  filed       \* the figures of the return an amendment corrects, <<>> before

\* A return was filed, and an amendment now corrects it.
Correcting == "scenario" \in DOMAIN filed

vars == <<scenario, stage, refusal, figures, printed, filed>>

Stages == {"load", "effective", "guards", "income", "deduct", "spine", "workbook",
           "sheet", "answer", "print", "corporate", "audit", "scorp", "ca_scorp", "f100s_k1s",
           "california", "print_ca", "file", "amend", "attach", "schedule_x"}
Ended == {"done", "refused"}

\* What was known, and what is now.
Updated(old, new) ==
  [x \in DOMAIN old \cup DOMAIN new |-> IF x \in DOMAIN new THEN new[x] ELSE old[x]]

\* A stage ends refused by its first offending entry, or goes on.
Refuse(ledger) ==
  /\ ~Passes(ledger)
  /\ stage' = "refused" /\ refusal' = Raised(ledger)
  /\ UNCHANGED <<scenario, figures, printed, filed>>
Proceed(ledger, next, new) ==
  /\ Passes(ledger)
  /\ stage' = next /\ figures' = Updated(figures, new)
  /\ UNCHANGED <<scenario, refusal, printed, filed>>

----------------------------------------------------------------------------
(* The scenario.                                                           *)

Acknowledged(s, name) == name \notin s.denied \cup s.unanswered
Cell(s)  == <<s.year, s.config.status>>
Total(s, amount(_)) == SumOf(s.w2s, amount)
Wages(s) == Rounded(Total(s, LAMBDA w : w.wages))
StateWithheld(s) == Total(s, LAMBDA w : w.stateWithheld)

\* resolve, at every place a schedule reads an activity's depreciation.
WithDepreciation(s) ==
  LET mq == MidQuarterOf(s)
      used(act) == [act EXCEPT !.depreciation = Resolved(act, s.year, mq)]
  IN [s EXCEPT !.rentals = [i \in DOMAIN s.rentals |-> used(s.rentals[i])],
               !.businesses = [i \in DOMAIN s.businesses |-> used(s.businesses[i])]]

\* _build_effective_scenario: the corporation's K-1s follow the others.
WithShareholderK1s(s) ==
  IF s.corp = None THEN s ELSE [s EXCEPT !.k1s = s.k1s \o ShareholderK1s(s.corp)]
Effective(s) == WithDepreciation(WithShareholderK1s(s))

\* _scenario_with_effective_itemized: Form 1098 amounts stand in for a
\* missing block of itemized deductions.
EffectiveItemized(s) ==
  IF s.itemized # None \/ s.form1098 = None THEN s.itemized
  ELSE [medical |-> 0, stateTax |-> 0, charity |-> 0,
        mortgage |-> s.form1098.mortgage, propertyTax |-> s.form1098.propertyTax]

----------------------------------------------------------------------------
(* Guards before the native/workbook split.                                *)

Ceiling(cents) == -((-cents) \div 100)
BusinessBoxes(k1) ==
  <<k1.ordinary, k1.rental, k1.otherRental, k1.royalties, k1.otherIncome>>

\* Broken: one K-1's income is netted against another's loss.
NettedLosses(s) ==
  SumOf(s.businesses, LAMBDA b : Negative(Line31(b)))
    + Ceiling(Negative(SumOf(s.k1s, LAMBDA k : SumOf(BusinessBoxes(k), LAMBDA x : x))))
    + SumOf(s.rentals, LAMBDA r : Negative(RentalNet(r)))

\* aggregate_business_losses
AggregateLosses(s) ==
  SumOf(s.businesses, LAMBDA b : Negative(Line31(b)))
    + SumOf(s.k1s, LAMBDA k : SumOf(BusinessBoxes(k), LAMBDA x : Ceiling(Negative(x))))
    + SumOf(s.rentals, LAMBDA r : Negative(RentalNet(r)))

\* _refuse_excess_social_security: a W-2 without an owner is the taxpayer's.
WithheldFor(s, owner) ==
  Total(s, LAMBDA w : IF (w.owner = "spouse") = (owner = "spouse") THEN w.ss ELSE 0)
ExcessWithheld(s) ==
  \E owner \in {"taxpayer", "spouse"} : WithheldFor(s, owner) > WithheldMaximum

\* eic_gate_child_count and eic_possible, in cents.
ChildCandidates(config) ==
  config.dependents + (IF config.status = "hoh" THEN 1 ELSE 0)
PositiveBoxes(k1) ==
  SumOf(BusinessBoxes(k1) \o <<k1.interest, k1.dividends, k1.short, k1.long>>, Positive)
RentalIncome(r) == r.rents - SumOf(r.expenses, LAMBDA e : e) - r.depreciation
EstimatedEarnings(s) ==
  Total(s, LAMBDA w : w.wages) + SumOf(s.businesses, NetEstimate)
EstimatedAGI(s) ==
  EstimatedEarnings(s)
    + SumOf(s.interest \o s.dividends \o <<s.distributions>>, LAMBDA a : a)
    + SumOf(s.g, LAMBDA f : f.unemployment + f.refund + SumOf(f.boxes, LAMBDA b : b))
    + SumOf(s.k1s, PositiveBoxes)
    + SumOf(s.rentals, LAMBDA r : Positive(RentalIncome(r)))
    + Positive(SumOf(s.lots, LAMBDA lot : lot.proceeds - lot.basis))
EICPossible(s) ==
  LET children == Smaller(ChildCandidates(s.config), 3)
  IN EstimatedEarnings(s) > 0 /\ EstimatedAGI(s) < 100 * EICCeiling[children]

\* _scenario_in_spine_scope
InSpineScope(s) ==
  Cell(s) \in NativeSpine /\ (Cell(s) \in NativeEIC \/ ~EICPossible(s))

\* What no route models: a credit for dependents; an earned income credit
\* that turns on a child; the credit of 2021; a loss that section 461(l) may
\* disallow; and from 2025 the deduction for seniors.
ClaimsDependents(s) == s.config.dependents > 0
EICWithChild(s)     == ChildCandidates(s.config) > 0 /\ EICPossible(s)
EICOf2021(s)        == s.year = 2021 /\ EICPossible(s)
ExcessBusinessLoss(s) == AggregateLosses(s) > ExcessLossThreshold[s.config.status]
SeniorDeduction(s)  == s.year >= 2025 /\ AgeBoxes(s.config) > 0

\* The refusals compute and emit share.
SharedLedger(s) ==
  <<<<"dependents", ClaimsDependents(s)>>, <<"eic_child_candidate", EICWithChild(s)>>,
    <<"eic_2021", EICOf2021(s)>>>>

\* _compute_1040_pipeline_core, up to the split.
GuardLedger(s) ==
  <<<<"excess_business_loss", ExcessBusinessLoss(s)>>,
    <<"excess_social_security", ExcessWithheld(s)>>,
    <<"spouse_birthdate", s.year >= 2025 /\ AgeUnknown(s.config)>>,
    <<"senior_deduction", SeniorDeduction(s)>>,
    <<"tax_family_size", s.block # None /\ FamilyUnknown(s.config)>>>>
  \o SharedLedger(s)
  \o <<<<"credit_off_the_spine", s.block # None /\ ~InSpineScope(s)>>>>

----------------------------------------------------------------------------
(* The workbook route.                                                     *)

\* refuse_workbook_eic_facts
FactsUnusable(s) ==
  /\ s.facts # None
  /\ \/ s.config.status \notin {"single", "mfj"}
     \/ s.facts.needs8862 \/ EICDenied(s.facts, s.config)

----------------------------------------------------------------------------
(* The native schedules, in the order of _compute_native_schedules.        *)

\* The K-1s' Part II runs the attestations and has K1Rows row letters.
PartIILedger(s) ==
  <<<<"attestation", s.k1s # <<>> /\ AttestationRefused(s)>>,
    <<"no_row_letter", Len(s.k1s) > K1Rows>>>>
SecuritiesLedger(s) ==
  <<<<"f8949", s.lots # <<>> /\ (AttestationRefused(s) \/ F8949Refused(s.lots))>>>>

\* refuse_joint_schedule_c: a business does not say whose it is.
JointScheduleC(s) == s.config.status = "mfj" /\ s.businesses # <<>>

\* _compute_sch_c_and_se
BusinessLedger(s) ==
  <<<<"joint_schedule_c", JointScheduleC(s)>>,
    <<"schedule_c", ScheduleCRefused(s.businesses,
        Acknowledged(s, "acknowledges_sch_c_all_investment_at_risk"))>>,
    <<"schedule_se", SERefused(BusinessIncome(s.businesses), s.w2s)>>>>

HalfOf(s) == HalfSE(BusinessIncome(s.businesses), Wages(s))
K1Amounts(s, box(_)) == [i \in DOMAIN s.k1s |-> box(s.k1s[i])]

GainsOf(s, taxable) ==
  LET f8949 == F8949(s.lots) IN
  ScheduleD(Line7(f8949, SumOf(s.k1s, LAMBDA k : k.short)),
            Line15(f8949, SumOf(s.k1s, LAMBDA k : k.long), s.distributions), taxable)

IncomeOf(s) ==
  [wages |-> Wages(s),
   interest |-> LineTotal(s.interest, K1Amounts(s, LAMBDA k : k.interest)),
   dividends |-> LineTotal(s.dividends, K1Amounts(s, LAMBDA k : k.dividends)),
   qualified |-> QualifiedTotal(<<s.qualified>>, K1Amounts(s, LAMBDA k : k.qualified))]

\* Line 17 is health insurance as stated, a whole number of dollars here
\* (ScenarioTypes).
Schedule1Of(s) ==
  Schedule1([g |-> s.g, prior |-> s.prior, half |-> HalfOf(s),
             cap |-> View[s.config.status].priorSaltCap,
             business |-> BusinessIncome(s.businesses), health |-> Rounded(s.health),
             scheduleE |-> Line41(PartI(s.rentals), PartII(s.k1s))])

MedicareOf(s) ==
  F8959(Wages(s), Rounded(Total(s, LAMBDA w : w.medicare)),
        BusinessIncome(s.businesses), s.config.status)

IncomeFigures(s) ==
  LET income == IncomeOf(s)
      gains == GainsOf(s, None)
      sch1 == Schedule1Of(s)
  IN [income |-> income, gains |-> gains, sch1 |-> sch1,
      preamble |-> Preamble(income, gains, sch1), medicare |-> MedicareOf(s),
      seTax |-> SETax(BusinessIncome(s.businesses), Wages(s))]

IncomeLedger(s) ==
  PartIILedger(s) \o SecuritiesLedger(s)
  \o <<<<"four_rentals", TooManyRentals(s.rentals)>>>>
  \o BusinessLedger(s)
  \o <<<<"se_health_limit",
           HealthRefused(s.businesses, s.health, HalfOf(s))>>,
       <<"attestation", AttestationRefused(s)>>>>

\* _refuse_possible_schedule_r, on the exact AGI.
ScheduleRPossible(s, agi) ==
  LET boxes == AgeBoxes(s.config)
      row == <<s.config.status, boxes>>
  IN boxes > 0 /\ (row \in DOMAIN ScheduleRLimits => agi <= ScheduleRLimits[row])

\* Form 8995's inputs.
QBIInputs(s) ==
  [businesses |-> [i \in DOMAIN s.businesses |->
                     [net |-> Line31(s.businesses[i]),
                      gross |-> Rounded(s.businesses[i].receipts)]],
   half |-> HalfOf(s), health |-> s.health, election |-> s.election,
   k1QBI |-> Where(K1Amounts(s, LAMBDA k : k.qbi), LAMBDA q : q # 0),
   onlyScorpQBI |-> ~AnyOf(s.k1s, LAMBDA k : k.qbi # 0 /\ k.entity # "s_corp")]

NoScheduleA == [line4 |-> 0, line5a |-> 0, line5b |-> 0, line5e |-> 0,
                line10 |-> 0, line14 |-> 0, line17 |-> 0]
ScheduleAOf(s, itemized, agi) ==
  IF itemized = None THEN NoScheduleA
  ELSE ScheduleA(itemized, StateWithheld(s), agi, s.config.status)

NoCredit == [line5 |-> 0, line24 |-> 0, line25 |-> 0, line26 |-> 0,
             partIII |-> FALSE, line29 |-> 0]
CreditOf(s, agi) ==
  IF s.block = None THEN NoCredit
  ELSE F8962(s.block, agi + s.block.exempt, s.config)

LimitationOf(s, agi) == F8582(s.rentals, s.k1s, s.config, agi)

\* Steps 7 to 12: deductions, the premium tax credit, QBI, passive losses.
DeductFigures(s, f) ==
  LET agi == f.preamble.agi
      schA == ScheduleAOf(s, EffectiveItemized(s), agi)
      deduction == Deductions(s.charitable, schA.line17, s.config)
  IN [schA |-> schA, deduction |-> deduction, taxable |-> agi - deduction,
      ptc |-> CreditOf(s, agi),
      qbi |-> F8995(QBIInputs(s), agi - deduction, f.preamble.netGain,
                    f.income.qualified),
      consulted |-> Consulted(s),
      f8582 |-> LimitationOf(s, agi)]

ScheduleALedger(s, itemized, agi) ==
  <<<<"schedule_a", itemized # None /\ ScheduleARefused(agi, s.noIncomeTaxState,
        Acknowledged(s, "acknowledges_sch_a_sales_tax_unsupported"))>>>>
QBILedger(s, taxable) ==
  <<<<"f8995", F8995Refused(QBIInputs(s), taxable,
        Acknowledged(s, "acknowledges_qbi_below_threshold"), s.config.status)>>>>

DeductLedger(s, f, new) ==
  <<<<"spouse_birthdate", AgeUnknown(s.config)>>,
    <<"schedule_r", ScheduleRPossible(s, f.preamble.agi)>>>>
  \o ScheduleALedger(s, EffectiveItemized(s), f.preamble.agi)
  \o <<<<"charitable_nonitemizer",
           CharitableRefused(s.charitable, new.schA.line17, s.config)>>,
       <<"exempt_interest_beside_credit", s.block # None /\ s.exempt # 0>>,
       <<"unemployment_rule", s.block # None /\ UnemploymentMismatch(s.block)>>>>
  \o QBILedger(s, new.taxable)
  \o <<<<"passive_loss", PassiveLossRefused(new.f8582)>>>>

\* compute_spine: the credit, then lines 1 to 37.
TentativeOf(s, f) ==
  IF Cell(s) \notin NativeEIC THEN 0
  ELSE TentativeCredit(
         EarnedIncome(f.income.wages, s.businesses,
                      NearestDollar(NetEarnings(BusinessIncome(s.businesses))),
                      BusinessIncome(s.businesses), HalfOf(s)),
         InvestmentIncome(Rounded(s.exempt), f.income.interest, f.income.dividends,
                          CapitalLine(f.gains)),
         f.preamble.agi, s.config)

SpineLedger(s, f) ==
  <<<<"health_and_credit", /\ s.block # None
        /\ CircularRefused(f.preamble.agi, s.block, f.sch1.line17, s.config)>>,
    <<"eic", TentativeOf(s, f) > 0 /\ EICRefusal(s, s.facts) # "none">>,
    <<"head_of_household", HeaderRefused(s.config, s.year)>>>>

PaidOf(s) ==
  [w2 |-> Rounded(Total(s, LAMBDA w : w.withheld)),
   other |-> Rounded(SumOf(s.g, LAMBDA f : f.withheld)),
   estimated |-> Rounded(s.estimated)]
SpineFigures(s, f) ==
  LET eic == EarnedIncomeCredit(TentativeOf(s, f), s.facts, s.config)
  IN [path |-> "native", eic |-> eic,
      spine |-> Spine(f.preamble, s.config.status, f.deduction, f.qbi.line15,
                      f.income.qualified, f.medicare, f.seTax, f.ptc, eic,
                      PaidOf(s))]

----------------------------------------------------------------------------
(* The workbook route, after the guards.                                   *)

\* The workbook (external): the arithmetic of the native forms, which the
\* parity tests hold equal to it, on the return in its cells.  A credit of
\* lines 28 to 31 is its own, its line 16 is blank under a caption that is
\* no label, and a diagnostic in a cell of Form 8959 is left out of line 23.
SheetSpine(s, f, answer) ==
  LET credit == answer.eic + answer.extra
      medicare == [f.medicare EXCEPT !.line18 = IF answer.probe = None THEN @ ELSE 0]
      whole == Spine(f.preamble, s.config.status, f.deduction, f.qbi.line15,
                     f.income.qualified, medicare, 0, NoCredit, credit, PaidOf(s))
  IN IF Answered(answer.caption) THEN whole
     ELSE [whole EXCEPT !.line16 = None, !.line18 = whole.line17,
                        !.line22 = whole.line17,
                        !.line24 = whole.line17 + whole.line23]

\* What _compute_1040_via_workbook takes from the answer, the withholding of
\* every Form 1099-G written over what line 25 has of it; of line 37 it takes
\* nothing.
WorkbookFigures(s, f, answer) ==
  LET sheet == InWorkbook(s) IN
  [path |-> "workbook", eic |-> answer.eic,
   spine |-> [SheetSpine(sheet, f, answer) EXCEPT
                !.line25d = @ - PaidOf(sheet).other + PaidOf(s).other,
                !.line37 = None]]

\* What a sheet can say: without a birthdate it needs, no label.
Sayable(s, answer) == NeedsBirthdate(s.config) => ~Answered(answer.caption)

\* The sheet has the simple Form 8995 only: above its threshold the answer
\* is refused after the fact, as f8995.py refuses before.
WorkbookQBIRefused(s, taxable) ==
  /\ SumOf(s.k1s, LAMBDA k : k.qbi) > 0
  /\ ~Acknowledged(s, "acknowledges_qbi_below_threshold")
  /\ Positive(taxable) > View[s.config.status].qbiThreshold

\* _compute_1040_via_workbook, before the sheet is written.
InputLedger(s) ==
  <<<<"workbook_eic_fact", FactsUnusable(s)>>,
    <<"workbook_schedule_c", s.businesses # <<>>>>,
    <<"workbook_se_health", s.health # 0>>,
    <<"workbook_unmapped_w2", UnmappedW2s(s)>>>>

\* refuse_inconsistent_workbook_eic: a credit beside the sheet's own verdict.
EICInconsistent(answer) == answer.eic > 0 /\ answer.verdict # FALSE

\* What it refuses of the answer, and the QBI guard after it.
AnswerLedger(s, f, answer) ==
  <<<<"workbook_eic_inconsistent", EICInconsistent(answer)>>,
    <<"workbook_declined", Declined(answer.caption)>>,
    <<"workbook_probe", ProbeRefused(answer.probe)>>,
    <<"head_of_household", HeaderRefused(s.config, s.year)>>,
    <<"workbook_qbi", WorkbookQBIRefused(s, f.taxable)>>>>

----------------------------------------------------------------------------
(* Printing the federal return.                                            *)

Form(name, due) == Sheets(IF due THEN {name} ELSE {})
Copies(name, items, due(_)) == {<<name, i>> : i \in {j \in DOMAIN items : due(items[j])}}

\* The results a route publishes: the native spine's, which have no line 24,
\* and the workbook's (OUTPUTS), which have no lines 22, 23 and 37.
SpineResults(f) ==
  LET p == f.spine IN
  [harvested |-> None, wages |-> f.income.wages, interest |-> f.income.interest,
   dividends |-> f.income.dividends, line7 |-> CapitalLine(f.gains),
   sch1 |-> f.sch1, line9 |-> p.line9, line11 |-> p.line11, line12 |-> p.line12,
   line13 |-> p.line13, line15 |-> p.line15, line16 |-> p.line16,
   line17 |-> p.line17, line22 |-> p.line22, line23 |-> p.line23,
   line33 |-> p.line33, line34 |-> p.line34, line37 |-> p.line37]
Published(f) ==
  IF f.path = "native" THEN SpineResults(f)
  ELSE [SpineResults(f) EXCEPT !.harvested = f.spine.line24,
                               !.line22 = None, !.line23 = None]

\* Each form's gate reads what it reads in the code: the scenario as given
\* for Schedules A and D, the figures of the 1040 for the others.
EmitsScheduleB(f) == f.income.interest >= 1500 \/ f.income.dividends >= 1500
EmitsScheduleA(s, f) ==
  /\ s.itemized # None
  /\ ScheduleAOf(s, s.itemized, f.spine.line11).line17 > StandardDeduction(s.config)
\* (Broken: Schedule 2 is not attached for a repayment alone.)
EmitsSchedule2Other(s, f) ==
  /\ s.year \in ScheduleCYears /\ f.path = "native"
  /\ f.seTax # 0 \/ f.medicare.line18 # 0
EmitsSchedule2(s, f) ==
  /\ s.year \in ScheduleCYears /\ f.path = "native"
  /\ f.ptc.line29 # 0 \/ f.seTax # 0 \/ f.medicare.line18 # 0
EmitsF8962(s) ==
  /\ s.block # None
  /\ AnyOf(s.block.months, LAMBDA m : {m.premium, m.slcsp, m.advance} # {0})
EmitsScheduleD(s) == s.lots # <<>>
EmitsF8949(s) == AnyOf(Listed(s.lots), LAMBDA lot : lot.proceeds # 0)
EmitsScheduleE(s) == s.rentals # <<>> \/ s.k1s # <<>>
EmitsF8959(f) == f.medicare.line18 # 0
HasQBISource(s) == s.businesses # <<>> \/ AnyOf(s.k1s, LAMBDA k : k.qbi # 0)
EmitsF8995(s, f) ==
  HasQBISource(s) /\ (f.qbi.line15 # 0 \/ f.qbi.line16 # 0)
EmitsF8582(s) ==
  \/ AnyOf(Passive(s.k1s), LAMBDA k : K1Row(k) < 0 \/ k.prior # 0)
  \/ AnyRentalNetLoss(s.rentals)

\* The forms printed once, each by its own gate.
GatedForms == {"sch_b", "sch_d", "f8949", "sch_e", "sch_a", "sch_1", "sch_2", "sch_se",
               "8959", "8962", "f8995", "f8582"}
Emits(form, s, f) ==
  CASE form = "sch_b"  -> EmitsScheduleB(f)
    [] form = "sch_d"  -> EmitsScheduleD(s)
    [] form = "f8949"  -> EmitsF8949(s)
    [] form = "sch_e"  -> EmitsScheduleE(s)
    [] form = "sch_a"  -> EmitsScheduleA(s, f)
    [] form = "sch_1"  -> f.sch1.line10 # 0 \/ f.sch1.line26 # 0
    [] form = "sch_2"  -> EmitsSchedule2(s, f)
    [] form = "sch_se" -> f.seTax > 0
    [] form = "8959"   -> EmitsF8959(f)
    [] form = "8962"   -> EmitsF8962(s)
    [] form = "f8995"  -> EmitsF8995(s, f)
    [] form = "f8582"  -> EmitsF8582(s)
FederalPacket(s, f) ==
  Sheets({"1040", "4868"} \cup {form \in GatedForms : Emits(form, s, f)})
    \cup CopiesOf("sch_c", s.businesses)
    \cup Copies("f4562", Activities4562(s), LAMBDA act : CopyRequired(act, s.year))

\* _emit_sch_1_8z_statement, attached to a Schedule 1 that refers to it.
Statement8z(s, f) ==
  Form("sch_1_8z_stmt", <<"sch_1", 0>> \in FederalPacket(s, f) /\ SeeStatement(s.g))

BlankSpouse(config) == config.status = "mfj" /\ ~config.spouseGiven
ActivityKind(s, i) == IF i \in DOMAIN s.rentals THEN "rental" ELSE "business"

\* _federal_individual_emit_plan: every value is prepared, and refused,
\* before anything is rendered.
EmitLedger(s, f) ==
  SharedLedger(s)
  \o <<<<"schedule_c_year", s.businesses # <<>> /\ s.year \notin ScheduleCYears>>,
       <<"digital_assets", s.year >= 2022 /\ s.config.digital = None>>,
       <<"blank_spouse", BlankSpouse(s.config)>>,
       <<"schedule_e_line_27", Line27Refused(s.k1s)>>,
       <<"depreciation_audit_unbuildable", AuditUnbuildable(s)>>>>
  \o PartIILedger(s) \o BusinessLedger(s) \o SecuritiesLedger(s)
  \o <<<<"schedule_b_rows", /\ EmitsScheduleB(f)
          /\ ScheduleBRefused(s.interest, K1Amounts(s, LAMBDA k : k.interest),
                              s.dividends, K1Amounts(s, LAMBDA k : k.dividends))>>>>
  \o ScheduleALedger(s, s.itemized, f.spine.line11)
  \o <<<<"schedule_c_part_v", AnyOf(s.businesses, ScheduleCPrintRefused)>>,
       <<"f4562", \E i \in DOMAIN Activities4562(s) :
          LET act == Activities4562(s)[i] IN
          /\ CopyRequired(act, s.year)
          /\ ResolveRefused(act, ActivityKind(s, i), s.year, MidQuarterOf(s))>>>>
  \o (IF HasQBISource(s) THEN QBILedger(s, f.taxable) ELSE <<>>)
  \o <<<<"passive_loss",
          EmitsF8582(s) /\ PassiveLossRefused(LimitationOf(s, f.spine.line11))>>>>

\* The 1040's own refusals, raised when it is rendered: a credit without its
\* Schedule 3, and payments that would not add up as printed.
PaymentsFoot(spine) == spine.line33 = spine.line25d + spine.line26 + spine.line32
\* (Broken: the acknowledgment lets an unfooted page print.)
RenderAcknowledged(s, f) ==
  <<<<"net_credit_without_schedule_3", f.ptc.line26 > 0 /\ ~s.ackSchedule3>>>>
RenderLedger(s, f) ==
  <<<<"net_credit_without_schedule_3", f.ptc.line26 > 0 /\ ~s.ackSchedule3>>,
    <<"payments_do_not_foot",
       f.spine.line32 # f.eic \/ ~PaymentsFoot(f.spine)>>>>

AssetMode(s) == SomeActivity(s, LAMBDA act : act.assets # <<>>)

----------------------------------------------------------------------------
(* California, the corporation and the amendment.                          *)

\* refuse_caleitc_not_modeled, in ten-thousandths of a dollar.
CalEarned(s) ==
  LET cents(amount) == IF amount > 0 THEN (9235 * amount) \div 100 ELSE 100 * amount
      california == SumOf(Where(s.w2s, LAMBDA w : w.state = "CA"),
                          LAMBDA w : w.wages)
      wages == IF AnyOf(s.w2s, LAMBDA w : w.state = "CA")
               THEN Smaller(Total(s, LAMBDA w : w.wages), california)
               ELSE Total(s, LAMBDA w : w.wages)
  IN 100 * wages + SumOf(s.businesses, LAMBDA b : cents(NetEstimate(b)))
       + SumOf(s.k1s, LAMBDA k : IF k.entity = "partnership" THEN cents(k.seEarnings)
                                 ELSE 0)
CalEITCPossible(s) ==
  LET earned == CalEarned(s) IN
  \/ 0 < earned /\ earned <= 10000 * CalEITCMaximum
  \/ earned <= 0 /\ s.config.dependents > 0

\* The federal figures Schedule CA reads, and the itemized deductions it
\* takes over when the federal return applied them.
FederalView(f) ==
  [agi |-> f.spine.line11, unemployment |-> f.sch1.line7, refund |-> f.sch1.line1]
Applied(s, f) == FederalItemized(f.schA, f.spine.line12)
CAItemizedOf(s, f) ==
  IF Applied(s, f)
  THEN CAItemized(ScheduleAOf(s, EffectiveItemized(s), f.spine.line11)) ELSE None
Unattributed(s) == AnyOf(s.w2s, LAMBDA w : w.state = None /\ w.stateWithheld > 0)
CAWithheld(s) == Total(s, LAMBDA w : IF w.state = "CA" THEN w.stateWithheld ELSE 0)

CaliforniaFigures(s, f) ==
  LET schCA == ScheduleCA(s.ca, FederalView(f))
      form == Form540(s.ca, s.config, schCA.caAGI, CAItemizedOf(s, f), CAWithheld(s))
  IN [schCA |-> schCA, f540 |-> form, balance540 |-> Form540Balance(form)]

\* _compute_ca_results takes the scenario as given, without the
\* corporation's K-1s.
CaliforniaLedger(s, f, new) ==
  <<<<"caleitc", CalEITCPossible(s)>>,
    <<"unaddressed_divergence", Unaddressed(s, s.ca) # {}>>>>
  \o (IF Applied(s, f) THEN ScheduleALedger(s, EffectiveItemized(s), f.spine.line11)
      ELSE <<>>)
  \o <<<<"unattributed_withholding", Unattributed(s)>>,
       <<"exemption_phaseout", PhaseoutRefused(FederalView(f), s.config.status)>>,
       <<"ptet_credit", PTETRefused(new.f540)>>,
       <<"coverage_gap", CoverageGap(s.config)>>,
       <<"ftb3532", Form3532Refused(s.config)>>>>

\* Form 1120-S asks the attestations of the scenario as given.
CorporateLedger(s) ==
  <<<<"attestation", AttestationRefused(s)>>, <<"f1120s", CorporateRefused(s.corp)>>>>

ComputeLedger(s) ==
  DepreciationLedger(s) \o ChangeLedger(s)
    \o <<<<"direct_deposit", DepositRefused(s.deposit)>>>>

\* The figures an amendment takes from the return as filed, and corrected.
FiledFigures(f) ==
  [tax |-> f.spine.line16, repayment |-> f.spine.line17, nonrefundable |-> None,
   medicare |-> f.medicare.line18, seTax |-> f.seTax,
   withheld |-> f.spine.line25d, payments |-> f.spine.line33,
   estimated |-> f.spine.line26, netPTC |-> f.ptc.line26,
   overpaid |-> f.spine.line34, otherTaxes |-> Published(f).line23,
   schedule1A |-> None, eic |-> f.eic]
FiledCA(f) ==
  [liability |-> IF "f540" \in DOMAIN f THEN f.f540.liability ELSE None,
   otherState |-> None, amt |-> None]

\* _refuse_unattached_8z_statement, over the forms that changed.
ChangedForms(s, f) ==
  Form("1040", f.spine # filed.figures.spine)
    \cup Form("sch_1", /\ <<"sch_1", 0>> \in FederalPacket(s, f)
                       /\ f.sch1 # filed.figures.sch1)
AttachLedger(s, f) ==
  EmitLedger(Effective(filed.scenario), filed.figures) \o EmitLedger(s, f)
  \o <<<<"unattached_8z_statement",
          <<"sch_1", 0>> \in ChangedForms(s, f) /\ SeeStatement(s.g)>>>>
  \o (IF <<"1040", 0>> \in ChangedForms(s, f) THEN RenderLedger(s, f) ELSE <<>>)

----------------------------------------------------------------------------
(* The stages.                                                             *)

\* One stage: the first offence refuses the return, else it goes on.
Step(at, ledger, next, new) ==
  stage = at /\ (Refuse(ledger) \/ Proceed(ledger, next, new))

\* A stage that writes forms.
Write(at, ledger, next, forms) ==
  /\ stage = at
  /\ \/ Refuse(ledger)
     \/ /\ Passes(ledger)
        /\ stage' = next /\ printed' = printed \cup forms
        /\ UNCHANGED <<scenario, refusal, figures, filed>>

\* Scenario.__post_init__, wherever the scenario comes from.  The California
\* command keeps its ca540 block in a file of its own.
ConstructionLedger(s) ==
  <<<<"position_election", ElectionRefused(s, MayReach(s))>>,
    <<"unattributed_withholding",
        s.command # "california" /\ s.ca # None /\ Unattributed(s)>>>>

\* load_scenario; a scenario built in code never passes the loader.
LoadLedger(s) ==
  IF s.origin = "code" THEN ConstructionLedger(s)
  ELSE ShapeLedger3115(s)
         \o <<<<"load", ConfigRefused(s, NonitemizerCap) \/ OwnersRefused(s)>>,
               <<"tax_year_dates", s.corp # None /\ s.corp.dates = "inconsistent">>,
               <<"ca540", s.ca # None /\ CA540Refused(s.ca)>>>>
         \o ConstructionLedger(s)
         \o <<<<"load", ScenarioRefused(s)>>>> \o ComputeLedger(s)
Load ==
  Step("load", LoadLedger(scenario),
       IF scenario.command = "scorp" THEN "scorp" ELSE "effective", <<>>)

\* run_amendment_packet refuses a Form 3115 and a deposit, on either return,
\* before it starts.
AmendmentChange(s) ==
  Correcting /\ (s.change # None \/ filed.scenario.change # None)
AmendmentDeposit(s) ==
  /\ Correcting
  /\ \E d \in {s.deposit, filed.scenario.deposit} :
       DepositFields(d) # <<None, None, None>>

\* _build_effective_scenario: the refusals again, over every K-1.
\* (Broken: they are not asked again with the corporation's K-1s.)
LedgerUnasked(s) ==
  (IF s.corp = None THEN <<>> ELSE CorporateLedger(s)) \o ComputeLedger(s)
EffectiveLedger(s) ==
  <<<<"form_3115_in_amendment_packet", AmendmentChange(s)>>,
    <<"direct_deposit_in_amendment_packet", AmendmentDeposit(s)>>>>
  \o (IF s.corp = None THEN <<>> ELSE CorporateLedger(s))
  \o <<<<"attestation",
          s.corp # None /\ AttestationRefused(WithShareholderK1s(s))>>>>
  \o ComputeLedger(s)
  \o <<<<"position_election", /\ s.corp # None
          /\ ElectionRefused(s, Reached(WithShareholderK1s(s)))>>>>
BuildEffective ==
  Step("effective", EffectiveLedger(scenario), "guards", <<>>)

\* _compute_1040_pipeline_core
Guards ==
  LET s == Effective(scenario) IN
  Step("guards", GuardLedger(s), IF InSpineScope(s) THEN "income" ELSE "workbook", <<>>)

\* Where the federal figures go.
AfterCompute ==
  CASE scenario.command = "federal"    -> "print"
    [] scenario.command = "california" -> "california"
    [] OTHER -> IF Correcting THEN "amend"
                ELSE IF scenario.ca # None THEN "california" ELSE "file"

Income ==
  LET s == Effective(scenario) IN
  Step("income", IncomeLedger(s), "deduct", IncomeFigures(s))
Deduct ==
  LET s == Effective(scenario)
      new == DeductFigures(s, figures)
  IN Step("deduct", DeductLedger(s, figures, new), "spine", new)
ComputeSpine ==
  LET s == Effective(scenario) IN
  Step("spine", SpineLedger(s, figures), AfterCompute, SpineFigures(s, figures))

\* _compute_1040_via_workbook: the inputs go into their cells, the sheet is
\* recalculated, the answer is read.
EnterInputs ==
  LET s == Effective(scenario) IN
  Step("workbook", InputLedger(s), "sheet", IncomeFigures(InWorkbook(s)))
Recalculate ==
  /\ stage = "sheet"
  /\ Proceed(<<>>, "answer",
             DeductFigures(InWorkbook(Effective(scenario)), figures))
ReadAnswer ==
  \E answer \in WorkbookAnswers :
    LET s == Effective(scenario)
    IN /\ Step("answer", AnswerLedger(s, figures, answer), AfterCompute,
               WorkbookFigures(s, figures, answer))
       /\ Sayable(s, answer)

\* Broken: the forms are written as they come, the 1040 refused last.
PrintAsRendered ==
  LET s == Effective(scenario)
      packet == FederalPacket(s, figures)
      before == ChangeLedger(s) \o EmitLedger(s, figures)
      render == RenderLedger(s, figures)
  IN /\ stage = "print"
     /\ \/ Refuse(before)
        \/ /\ Passes(before)
           /\ printed' = IF Passes(render) THEN packet ELSE packet \ Sheets({"1040"})
           /\ stage' = IF Passes(render) THEN "corporate" ELSE "refused"
           /\ refusal' = Raised(render)
           /\ UNCHANGED <<scenario, figures, filed>>

\* run_full_return: the change's ledger once more, then the federal forms
\* and the Form 3115, the corporation's forms, and the depreciation audit.
PrintFederal ==
  LET s == Effective(scenario) IN
  Write("print",
        ChangeLedger(s) \o EmitLedger(s, figures) \o RenderLedger(s, figures),
        "corporate",
        FederalPacket(s, figures) \cup Statement8z(s, figures) \cup ChangePacket(s))
PrintCorporate ==
  LET s == Effective(scenario) IN
  Write("corporate",
        <<<<"f1120s_print", s.corp # None /\ CorporatePrintRefused(s.corp, s.year)>>>>,
        "audit", IF s.corp = None THEN {} ELSE CorporatePacket(s.corp))
PrintAudit ==
  LET s == Effective(scenario) IN
  Write("audit", <<<<"depreciation_audit_unwritable", AuditUnwritable(s)>>>>,
        "done", Form("depreciation_audit", AssetMode(s)))

\* run_full_federal_scorp_return, run_full_california_scorp_return
ScorpReturn ==
  Write("scorp",
        CorporateLedger(scenario)
          \o <<<<"f1120s_print", CorporatePrintRefused(scenario.corp, scenario.year)>>>>,
        IF scenario.corp.ca = None THEN "done" ELSE "ca_scorp",
        CorporatePacket(scenario.corp))
CAScorpReturn ==
  Write("ca_scorp",
        <<<<"f100s_print", CAScorpPrintRefused(scenario.corp, scenario.year)>>>>,
        "f100s_k1s", FirstCAScorpForms(scenario.corp, scenario.year))

\* The K-1 loop stops at the first shareholder it cannot mark, with the 100S
\* and the earlier K-1s written; else the statement and the note follow.
CAScorpK1s ==
  Write("f100s_k1s",
        <<<<"final_and_amended", BothMarks(scenario.corp, scenario.year) # {}>>>>,
        "done", CAScorpPacket(scenario.corp))

\* _compute_ca_results and _emit_ca_pdfs_internal
ComputeCalifornia ==
  LET s == WithDepreciation(scenario)
      new == CaliforniaFigures(s, figures)
  IN Step("california", CaliforniaLedger(s, figures, new),
          IF s.command = "california" THEN "print_ca"
          ELSE IF ~Correcting THEN "file" ELSE "schedule_x", new)
PrintCalifornia ==
  Write("print_ca",
        <<<<"coverage_unanswered", scenario.config.coverage = None>>,
          <<"blank_spouse", BlankSpouse(scenario.config)>>,
          <<"interest_unstated", InterestUnstated(figures.f540, figures.balance540)>>,
          <<"head_of_household", HouseholdRefused(scenario.config, scenario.year)>>,
          <<"ftb3532_incomplete", Form3532Incomplete(scenario.config, scenario.year)>>>>,
        "done", CAPacket(scenario.config))

\* Broken: the corrected return is the original again.
FileUncorrected ==
  /\ stage = "file"
  /\ filed' = [scenario |-> scenario, figures |-> figures,
               federal |-> FiledFigures(figures), california |-> FiledCA(figures)]
  /\ stage' = "load" /\ figures' = <<>>
  /\ UNCHANGED <<scenario, refusal, printed>>

\* The return that an amendment corrects was filed as computed; the same
\* filer then corrects it.
File ==
  /\ stage = "file"
  /\ filed' = [scenario |-> scenario, figures |-> figures,
               federal |-> FiledFigures(figures), california |-> FiledCA(figures)]
  /\ scenario' = scenario.amended
  /\ stage' = "load" /\ figures' = <<>>
  /\ UNCHANGED <<refusal, printed>>

\* run_amendment_packet
Case == scenario.case
Form1040X == F1040X(filed.federal, FiledFigures(figures), Case)
Amend ==
  Write("amend", <<<<"f1040x", F1040XRefused(filed.federal, Case)>>>>,
        "attach", Sheets({"f1040x"}))
Attach ==
  LET s == Effective(scenario) IN
  Write("attach", AttachLedger(s, figures),
        IF s.ca = None THEN "done" ELSE "california", ChangedForms(s, figures))
FormScheduleX ==
  ScheduleX(filed.california.liability, figures.f540.liability, Case)
AmendCalifornia ==
  Write("schedule_x", <<<<"schedule_x", ScheduleXRefused(filed.california, Case)>>>>,
        "print_ca", Sheets({"schedule_x"}))

Init ==
  /\ scenario \in Scenarios /\ stage = "load" /\ refusal = "none"
  /\ figures = <<>> /\ printed = {} /\ filed = <<>>

Next ==
  \/ Load \/ BuildEffective \/ Guards \/ Income \/ Deduct \/ ComputeSpine
  \/ EnterInputs \/ Recalculate \/ ReadAnswer
  \/ PrintFederal \/ PrintCorporate \/ PrintAudit
  \/ ScorpReturn \/ CAScorpReturn \/ CAScorpK1s
  \/ ComputeCalifornia \/ PrintCalifornia
  \/ File \/ Amend \/ Attach \/ AmendCalifornia

Spec == Init /\ [][Next]_vars

----------------------------------------------------------------------------
(* Properties.                                                             *)

Computed == "spine" \in DOMAIN figures
Native   == Computed /\ figures.path = "native"
Printed(form) == <<form, 0>> \in printed
Near(a, b, n) == a - b \in -n .. n

TypeOK ==
  /\ scenario.command \in Commands /\ stage \in Stages \cup Ended
  /\ refusal # "none" => stage = "refused"
  /\ Correcting => filed.scenario.amended = scenario
  /\ "f540" \in DOMAIN figures => Computed

\* The rounded lines of the rentals' columns.
RentalLines(s) == SumOf(s.rentals, LAMBDA r : Len(r.expenses) + 2)

\* No return goes on, or is printed, with a passive loss that section 469
\* disallows: Form 8582's limitation is computed and never applied, so the
\* ledger must refuse wherever it binds (attestations.py).  A workbook's
\* return is asked about the form only where the form is due: half a dollar
\* of each line of a rental can pass, a loss that only rounding makes.
UnrefusedLossIsAllowed ==
  Native \/ Printed("1040") =>
    LET s == Effective(scenario)
        lost == DisallowedLoss(LimitationOf(s, figures.spine.line11))
    IN IF Native \/ EmitsF8582(s) THEN lost = 0 ELSE 2 * lost <= RentalLines(s)

\* The losses that reach Schedules C and E of a computed return are within
\* the excess-business-loss threshold, though the guard adds up other
\* amounts, before the forms exist (aggregate_business_losses).
ExcessLossSeen ==
  Computed =>
    LET s == Effective(scenario)
    IN SumOf(s.businesses, LAMBDA b : Negative(Line31(b)))
         + PartI(s.rentals).line25 + PartII(s.k1s).line31
         <= ExcessLossThreshold[s.config.status]

\* A printed Form 4562 copy totals the depreciation its activity's schedule
\* deducts, though emission works it out again (f4562.py, resolver.py).
Form4562Ties ==
  Printed("1040") =>
    LET s == Effective(scenario) IN
    \A i \in DOMAIN Activities4562(s) :
      LET act == Activities4562(s)[i] IN
      <<"f4562", i>> \in printed =>
        F4562(act, s.year, MidQuarterOf(s)).line22 = Rounded(act.depreciation)

\* Every copy of one return depreciates this year's personal property by the
\* same convention, the one the whole return's bases call for.
ConventionIsTheReturns ==
  Printed("1040") =>
    LET s == Effective(scenario)
        acts == Activities4562(s)
        late == 100 * TestBasis(acts, s.year, 10 .. 12)
                  > 40 * TestBasis(acts, s.year, 1 .. 12)
    IN \A i \in DOMAIN acts : <<"f4562", i>> \in printed =>
         LET rows == RowsOf(acts[i], s.year, MidQuarterOf(s)) IN
         \A c \in DOMAIN rows \cap PersonalClasses :
           rows[c].conventions = {IF late THEN "mid-quarter" ELSE "half-year"}

\* Given the return's taxable income, Schedule D carries forward exactly the
\* loss it did not use, no term more than its own loss, and where it does
\* not refuse, what the carryover worksheet carries (sch_d.py).
CarryforwardConservesLoss ==
  "taxable" \in DOMAIN figures /\ "gains" \in DOMAIN figures =>
    LET g == figures.gains
        d == ScheduleD(g.line7, g.line15, figures.taxable)
    IN /\ d.carry.short + d.carry.long = d.line21 - d.line16
       /\ d.carry.short <= Negative(g.line7) /\ d.carry.long <= Negative(g.line15)
       /\ ScheduleDRefused(d.line16, figures.taxable)
            \/ d.carry = Worksheet(g.line7, g.line15, figures.taxable)

\* The payments of a printed 1040 add up on the page, whichever route
\* computed it and whichever packet it mails in (ruling R-P1,
\* _line_32_unfooted): no line 33 hides a credit that no line prints.
PrintedPaymentsFoot ==
  Printed("1040") =>
    figures.spine.line32 = figures.eic /\ PaymentsFoot(figures.spine)

\* No computed 1040 shows a total that leaves something out.  Where a route
\* has no number for line 16 or for the tax of Form 8959 it refuses
\* (workbook_refusal, workbook_probe_refusal); and the workbook counts every
\* W-2, and the withholding of every Form 1099-G, though a key without a
\* cell is skipped in silence (_refuse_unmapped_w2_inputs, the withholding
\* supplement).
NoPartialTotal ==
  Computed =>
    LET s == Effective(scenario)
        paid == PaidOf(s)
        medicare == MedicareOf(s)
        p == figures.spine
    IN /\ p.line16 # None /\ p.line18 = p.line16 + p.line17
       /\ p.line23 = figures.medicare.line18 + figures.seTax
       /\ p.line24 = p.line22 + p.line23
       /\ figures.path = "workbook" =>
            /\ figures.income.wages = Wages(s) /\ p.line23 = medicare.line18
            /\ p.line25d = paid.w2 + paid.other + MedicareWithheld(medicare)

\* One return has one bottom line, though four modules work it out: the 1040
\* from its payments (lines 34 and 37, of which the workbook publishes one),
\* Form 4868 from a line 24 harvested or composed, the cover from whichever
\* of these a route has, the amendment from both returns.  The extension asks
\* for exactly what is owed, the cover's income rows add up to its total, and
\* the rows of an amendment are the change of the filed bottom lines, once
\* the original was settled as filed (f4868.py, summary.py).
OneBottomLine ==
  /\ Computed =>
       LET r == Published(figures)
           p == figures.spine
           balance == p.line33 - p.line22 - p.line23
       IN /\ FederalBottomLine(r) = balance /\ TotalTaxRow(r) = p.line24
          /\ ~F4868Refused(r) /\ F4868(r).line6 = Positive(-balance)
          /\ SumSeq(IncomeRows(r)) = FederalRows(r).total
  /\ Printed("f1040x") /\ Case.paid \in {None, 100 * Positive(BalanceDue(filed.federal))} =>
       F1040XBottomLine(Form1040X) =
         FederalBottomLine(Published(figures))
           - FederalBottomLine(Published(filed.figures))
  /\ Printed("schedule_x") =>
       ScheduleXBottomLine(FormScheduleX) =
         CABottomLine(figures.f540.liability) - CABottomLine(filed.california.liability)

\* A self-employed health deduction is computed beside a Form 1095-A only
\* when no deduction that the premiums allow would leave a premium tax
\* credit: the single probe of f1040_spine.py stands for all of them.
SEHealthProbeSound ==
  Native /\ scenario.block # None /\ figures.sch1.line17 # 0 =>
    LET s == Effective(scenario)
        before == figures.spine.line11 + figures.sch1.line17 + s.block.exempt
        premiums == SumOf(s.block.months, LAMBDA m : m.premium) \div 100
    IN \A deduction \in {50 * k : k \in 0 .. premiums \div 50} :
         F8962(s.block, before - deduction, s.config).line24 = 0

\* Last year's deduction had the state and local tax been paid.
PriorPaid(prior) == Positive(OrZero(prior.paid))
PriorDeduction(prior, paid, cap) ==
  Larger(OrZero(prior.standard), OrZero(prior.deduction)
    - Smaller(PriorPaid(prior), 100 * cap) + Smaller(paid, 100 * cap))

\* The state refund taxed on Schedule 1 is what the refund saved last year:
\* the deduction taken less the deduction the tax net of the refund would
\* have allowed, both over the standard deduction (sch_1.py).
TaxBenefit ==
  Native /\ scenario.prior.itemized =>
    LET prior == scenario.prior
        paid == PriorPaid(prior)
        cap == View[scenario.config.status].priorSaltCap
        refund == SumOf(scenario.g, LAMBDA f : f.refund)
    IN figures.sch1.line1 =
         Rounded(Smaller(refund, PriorDeduction(prior, paid, cap)
                   - PriorDeduction(prior, Positive(paid - refund), cap)))

\* Form 8995's rows carry the whole of the qualified business income, each
\* reduction taken once, whatever the number of businesses (f8995.py); and a
\* side that the filer elects is the one the return was computed by, never
\* set aside by the route or by K-1s that came later (positions.py).
QBIReducedOnce ==
  /\ Native =>
       LET c == QBIInputs(Effective(scenario))
       IN Near(100 * figures.qbi.line2, QBIBeforeRounding(c),
               50 * Len(BusinessRows(c) \o K1Rows8995(c)))
  /\ Computed => figures.consulted = scenario.election

\* A return computed natively, or with its corporation's K-1s, breaks no
\* attestation, on the K-1s it was computed with rather than those it was
\* loaded with (enforce_compute_time).
AttestationsHoldOnEffective ==
  Native \/ (Computed /\ scenario.corp # None) =>
    ViolatedAttestations(WithShareholderK1s(scenario)) = <<>>

\* The lines a printed 1040 carries have their schedules in the packet, and
\* no schedule comes without the one that carries it on: gates that each
\* read the scenario or the figures for themselves agree.  A loss that only
\* the rounding of a rental's lines makes has no Form 8582.
AttachmentsMatch ==
  Printed("1040") /\ Native /\ ~Correcting =>
    LET f == figures
        s == Effective(scenario)
        businesses == \E i \in DOMAIN s.businesses : <<"sch_c", i>> \in printed
    IN /\ f.sch1.line3 # 0 => businesses
       /\ f.sch1.line5 # 0 => Printed("sch_e")
       /\ f.sch1.line15 # 0 => Sheets({"sch_se", "sch_1", "sch_2"}) \subseteq printed
       /\ f.spine.line17 + f.spine.line23 # 0 => Printed("sch_2")
       /\ f.spine.line17 # 0 => Printed("8962")
       /\ f.medicare.line18 # 0 => Printed("8959")
       /\ f.spine.line13 # 0 => Printed("f8995")
       /\ f.f8582.line1b - f.f8582.line1a > RentalLines(s) => Printed("f8582")
       /\ Printed("f8949") => Printed("sch_d")
       /\ Printed("sch_1_8z_stmt") => Printed("sch_1")
       /\ (\E i \in DOMAIN Activities4562(s) : <<"f4562", i>> \in printed)
            => businesses \/ Printed("sch_e")

\* The rows the corporation's K-1s put on Schedule E, and their qualified
\* business income, are the corporation's within half a dollar a K-1.
K1SharesConserve ==
  Computed /\ scenario.corp # None =>
    LET c == scenario.corp
        whole == SumOf(c.shares, LAMBDA p : p)
        k1s == ShareholderK1s(c)
        qbi == IF c.qbiOverride = None THEN ScheduleK(c).line1
               ELSE Rounded(c.qbiOverride)
    IN /\ Near(100 * SumOf(k1s, K1Row), ScheduleK(c).line1 * whole, 50 * Len(k1s))
       /\ Near(SumOf(k1s, LAMBDA k : k.qbi), qbi * whole, 50 * Len(k1s))

\* A refused return leaves forms behind in five cases only: an owner's
\* 1040 whose corporate set is refused, a return whose depreciation audit
\* is, a corporation's federal set whose California set is, that set with
\* the 100S and the K-1s before the first shareholder whose K-1 cannot be
\* both final and amended, and an amendment after its 1040-X.
PartialPackets ==
  refusal # "none" /\ printed # {} =>
    \/ /\ scenario.command = "federal" /\ scenario.corp # None
       /\ Printed("1040") /\ printed \cap CorporatePacket(scenario.corp) = {}
    \/ /\ scenario.command = "federal" /\ Printed("1040")
       /\ refusal = "depreciation_audit_unwritable"
    \/ scenario.command = "scorp" /\ printed = CorporatePacket(scenario.corp)
    \/ LET c == scenario.corp
           complete == {i \in DOMAIN c.shares : \A m \in c.final : i < m}
       IN /\ scenario.command = "scorp" /\ scenario.year >= 2024
          /\ c.amended /\ c.final # {}
          /\ printed = CorporatePacket(c) \cup {<<"f100s", 0>>}
                          \cup {<<"f100s_k1", i>> : i \in complete}
    \/ scenario.command = "amendment" /\ Printed("f1040x")

\* What a Form 1040-X asks for or pays is the change between the two
\* returns' balances, once the original balance was settled as filed (the
\* NET INVARIANT of f1040x.py); Schedule X claims or pays the change of the
\* California liability (schedule_x.py).
AmendmentBalance ==
  /\ Printed("f1040x") =>
       LET x == Form1040X
           old == filed.federal
       IN Case.paid \in {None, 100 * Positive(BalanceDue(old))} =>
            x.line20 - x.line22 =
              (x.line11c - figures.spine.line33) - (x.line11a - old.payments)
  /\ Printed("schedule_x") =>
       FormScheduleX.line7 - FormScheduleX.line11 =
         figures.f540.liability - filed.california.liability

\* The printed bottom of Form 540 (lines 94 to 115) tells the liability that
\* was computed apart from it, the interest added; a contribution of half a
\* dollar is rounded one way on the line and another in the total.  And where
\* Schedule CA Part II applies, its columns lead from the federal deductions
\* to the ones California taxes by (sch_ca.py).
Form540Balances ==
  "balance540" \in DOMAIN figures =>
    LET f == figures.f540
        b == figures.balance540
        total == f.liability + (IF f.interest = None THEN 0 ELSE f.interest)
        schA == ScheduleAOf(scenario, EffectiveItemized(scenario), figures.spine.line11)
    IN /\ Voluntary(scenario.ca) % 100 # 50 =>
            total = IF b.line114 # None THEN b.line114
                    ELSE IF b.line115 # None THEN -b.line115 ELSE 0
       /\ Applied(scenario, figures) => PartIILine18(schA) = CAItemized(schA)

\* A head of household prints one set of facts, in California and on the
\* 1040, wherever the scenario comes from: the FTB 3532 the status stands or
\* falls with is there, complete on its branch of the form, a child's, for
\* more than half the year; and a filer whose 1040 says the spouses lived
\* apart lists no period of the last six months (scenario.py, rules 10 to
\* 13, ftb3532.py, _hoh_lines).
HouseholdProven ==
  LET block == scenario.config.hoh
      year == scenario.year
  IN /\ Printed("f540") => (scenario.config.status = "hoh") = Printed("ftb3532")
     /\ Printed("ftb3532") =>
          LET form == FTB3532(block, year) IN
          /\ HouseholdLines(scenario.config, year).named
          /\ 2 * form.line5 > DaysIn(year)
          /\ form.part1 = LivedTogether => form.line1f # <<>>
          /\ Unanswered3(form.line3) = ~NineteenOrOlder(block.person, year)
     /\ Computed /\ HouseholdLines(scenario.config, year).livedApart =>
          ~AnyOf(block.periods, LAMBDA p : p.to >= July1(year))

\* A Form 3115 that prints tells one story: the adjustment to the cent as
\* stated, an election only where its amount allows one, a period the printed
\* amount explains, one box of each pair, and the unqualified consent of an
\* individual not under examination (f3115.py, the ledger's entries).
BelowElectionLimit(cents) == 0 < cents /\ cents < 5000000
Form3115Consistent ==
  Printed("f3115") =>
    LET c == scenario.change
        p == F3115(c)
    IN /\ scenario.command = "federal" /\ scenario.config.status # "mfj"
       /\ 10 * p.line26 = c.adjustment
       /\ p.line28 => BelowElectionLimit(p.line26)
       /\ p.period = IF p.line26 = 0 THEN 0 ELSE IF p.line26 > 0 /\ ~p.line28 THEN 4 ELSE 1
       /\ \A q \in ChangeQuestions \ {Line4b} : Cardinality(p.boxes[q]) = 1
       /\ p.individual /\ p.depreciation /\ p.line7b
       /\ \A i \in DOMAIN c.assets : AssetStatement(c)[i] =
            [basis |-> c.assets[i].basis \div 10, claimed |-> c.assets[i].claimed \div 10]

AuditRefusals == {"depreciation_audit_unbuildable", "depreciation_audit_unwritable"}
Ceiling4562(a, s) ==
  Rounded(a.basis) - (IF a.prior = None THEN 0 ELSE Rounded(a.prior))
    <= TableAmount(a, ConventionOf(a, s.year, MidQuarterOf(s)), s.year - a.placed + 1)

\* Every tie-out of a depreciation audit that is written says that claimed,
\* computed and printed agree, the one of Form 3115's line 26 apart; and the
\* audit refuses a return only for a prior stated with cents where the
\* basis left is what limits the year (depreciation_workbook.py).
AuditTiesOut ==
  /\ Printed("depreciation_audit") =>
       \A tie \in TieOuts(Effective(scenario)) : tie[1] = "line 26" \/ Verdict(tie)
  /\ scenario.command = "federal" /\ refusal \in AuditRefusals =>
       SomeAsset(scenario, LAMBDA a :
         a.prior # None /\ a.prior % 100 # 0 /\ Ceiling4562(a, scenario))

\* f1040x.py: "L17 Total payments = (lines 12-15 col C) + L16".
AmendmentPaymentsFoot ==
  Printed("f1040x") =>
    LET x == Form1040X
    IN x.line17 = x.line12c + x.line13c + x.line14c + x.line15c + x.line16

\* _should_emit_sch_a: "Emit Sch A when itemizing beats the standard
\* deduction."
ScheduleAAttached ==
  Printed("1040") /\ Native /\ ~Correcting
    /\ figures.spine.line12 > StandardDeduction(scenario.config)
    /\ scenario.charitable = 0
    => Printed("sch_a")
=============================================================================
