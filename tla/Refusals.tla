------------------------------ MODULE Refusals ------------------------------
(***************************************************************************)
(* What a return must answer before it is computed: the attestations and   *)
(* the direct-deposit entries of the refusal ledger (attestations.py) and  *)
(* the loader's checks of a scenario (scenario.py).  The ledger's          *)
(* depreciation entries are in DepreciationActivity, its passive-loss      *)
(* entries in PassiveLosses.                                               *)
(*                                                                         *)
(* A scenario lists the attestations it answers false (denied) and the     *)
(* ones it leaves out (unanswered); every other one is answered true.      *)
(***************************************************************************)
EXTENDS PassiveLosses, Corporate, HeadOfHousehold

\* --- Attestations -------------------------------------------------------

\* The fields with triggered_when=_never, in the order of the registry:
\* asked at load, and where they matter enforced by the form concerned.
ScheduleLoadOnly ==
  {"has_foreign_accounts", "acknowledges_sch_a_sales_tax_unsupported",
   "acknowledges_qbi_below_threshold"}
BusinessLoadOnly ==
  {"acknowledges_sch_c_all_investment_at_risk", "acknowledges_no_estate_trust_k1",
   "prior_year_itemized"}
CorporateLoadOnly ==
  {"acknowledges_constant_shareholder_ownership", "acknowledges_cogs_aggregate_only",
   "acknowledges_officer_comp_aggregate_only",
   "acknowledges_no_elective_payment_election"}
CaliforniaLoadOnly ==
  {"acknowledges_no_540nr_filing", "acknowledges_no_ca_amt_preferences",
   "acknowledges_no_ca_nol_carryover", "acknowledges_no_ca_depreciation_divergence",
   "acknowledges_no_ca_ira_basis_divergence", "acknowledges_no_ca_rdp_status",
   "acknowledges_no_ic_worker_reclassification",
   "acknowledges_no_other_state_tax_credit"}
NeverFires ==
  ScheduleLoadOnly \cup BusinessLoadOnly \cup CorporateLoadOnly \cup CaliforniaLoadOnly

\* Asked only in applies_in_years; they never fire either.
YearBounded ==
  {"acknowledges_no_excess_business_loss_carryover",
   "acknowledges_no_1031_personal_property_divergence",
   "acknowledges_no_railroad_retirement_benefits",
   "acknowledges_no_paid_family_leave_benefits"}
BoundedYears == 2021 .. 2025

\* The fields that can fire, each with the answer to its triggered_when.
K1Gates(k1s) ==
  <<<<"acknowledges_no_more_than_four_k1s", Len(k1s) > K1Rows>>,
    <<"acknowledges_unlimited_at_risk", k1s # <<>>>>,
    <<"basis_tracked_externally", k1s # <<>>>>,
    <<"acknowledges_no_section_1231_gain", AnyOf(k1s, LAMBDA k : k.s1231 # 0)>>,
    <<"acknowledges_no_section_179", AnyOf(k1s, LAMBDA k : k.s179 # 0)>>,
    <<"acknowledges_no_partnership_se_earnings", AnyOf(k1s, LAMBDA k :
        k.entity = "partnership" /\ k.seEarnings # 0)>>,
    <<"acknowledges_no_k1_credits", k1s # <<>>>>,
    <<"acknowledges_form_7203_attached_separately", AnyOf(k1s, ScorpNetLossRow)>>>>
LotGates(lots) ==
  <<<<"acknowledges_no_wash_sale_adjustments", AnyOf(lots, LAMBDA lot : lot.wash # 0)>>,
    <<"acknowledges_no_other_basis_adjustments",
        AnyOf(lots, LAMBDA lot : lot.other # 0)>>,
    <<"acknowledges_no_28_rate_gain", AnyOf(lots, LAMBDA lot : lot.rate28)>>,
    <<"acknowledges_no_unrecaptured_section_1250",
        AnyOf(lots, LAMBDA lot : lot.s1250)>>>>
CorporateGates(c) ==
  IF c = None THEN <<>>
  ELSE <<<<"acknowledges_no_1120s_schedule_l_needed", LargeBalance(c)>>,
         <<"acknowledges_no_1120s_schedule_m_needed", LargeBalance(c)>>,
         <<"acknowledges_no_section_1375_tax", c.passiveTax # 0>>,
         <<"acknowledges_no_section_1374_tax", c.gainsTax # 0>>>>
AlwaysTail ==
  <<<<"acknowledges_no_capital_loss_carryforward", TRUE>>,
    <<"acknowledges_no_federal_amt", TRUE>>>>

\* _ATTESTATIONS that can fire, in order of precedence.
Registry(s) ==
  K1Gates(s.k1s) \o LotGates(s.lots) \o CorporateGates(s.corp) \o AlwaysTail

\* validate_load_time
Unanswered(s) ==
  s.unanswered \ (IF s.year \in BoundedYears THEN {} ELSE YearBounded) # {}

\* enforce_compute_time: `is False`, so an unanswered field passes.
Violated(registry, denied) ==
  SelectSeq(registry, LAMBDA a : a[2] /\ a[1] \in denied)
ViolatedAttestations(s) == Violated(Registry(s), s.denied)
AttestationRefused(s) == ViolatedAttestations(s) # <<>>

\* --- Direct deposit -----------------------------------------------------

\* A deposit is three fields: a sequence of digits, a count of digits, a
\* word; each may be None.
DepositFields(d) == <<d.routing, d.account, d.type>>
Checksum(digits) ==
  SumOver(1 .. 9, LAMBDA i : <<3, 7, 1, 3, 7, 1, 3, 7, 1>>[i] * digits[i]) % 10

DepositRefused(d) ==
  \/ LET given == {i \in 1 .. 3 : DepositFields(d)[i] # None}
     IN given # {} /\ given # 1 .. 3
  \/ d.routing # None /\ (Len(d.routing) # 9 \/ Checksum(d.routing) # 0)
  \/ d.account # None /\ d.account \notin 4 .. 17
  \/ d.type # None /\ d.type \notin {"checking", "savings"}

\* refund_direct_deposit: what prints is what the ledger passed.
DepositPrints(d, refund) == d.routing # None /\ refund > 0

\* --- The loader ---------------------------------------------------------

\* _validate_scenario_config, in order; cap is the year's 12b maximum
\* (0: the provision does not apply).
ConfigRefused(s, cap) ==
  LET c == s.config IN
  \/ c.status \in {"single", "hoh"} /\ c.spouseGiven
  \/ c.status \in {"single", "hoh"} /\ c.spouseAge # None
  \/ c.status = "mfj" /\ c.spouseAge = None
  \/ Unanswered(s)
  \/ c.designee \/ s.foreignAccounts
  \/ c.status = "mfs" /\ c.livedWith = None
  \/ s.prior.itemized
       /\ None \in {s.prior.deduction, s.prior.standard, s.prior.paid}
  \/ s.prior.paid # None /\ s.prior.paid < 0
  \/ s.estimated < 0 \/ s.charitable < 0 \/ s.health < 0
  \/ s.charitable > 0 /\ (c.status # "single" \/ s.charitable > 100 * cap)
  \/ HouseholdUnloadable(c, s.year)

\* validate_w2_owners: a joint return names each W-2's owner.
OwnersRefused(s) ==
  AnyOf(s.w2s, LAMBDA w : IF s.config.status = "mfj" THEN w.owner = None
                          ELSE w.owner = "spouse")

\* _validate_schedule_k1s, _validate_schedule_c_businesses and
\* _validate_charitable_itemizer.
ScenarioRefused(s) ==
  \/ AnyOf(s.k1s, LAMBDA k : k.entity = "estate_trust" /\ k.ordinary # 0)
  \/ AnyOf(s.businesses, LAMBDA b : \/ b.receipts < 0
                                    \/ AnyOf(b.expenses, LAMBDA e : e < 0))
  \/ s.charitable # 0 /\ s.itemized # None
=============================================================================
