---------------------------- MODULE MethodChange ----------------------------
(***************************************************************************)
(* Form 3115, the application for a change in accounting method that a     *)
(* return may carry (forms/f3115.py), and the entries of the refusal       *)
(* ledger that guard it (attestations.py): one answer pattern prints, an   *)
(* individual's automatic change number 7; everything else is refused.     *)
(*                                                                         *)
(* A scenario's `change` is None or the block as stated.  Its amounts are  *)
(* in tenths of a cent, the amounts it prints in cents.                    *)
(***************************************************************************)
EXTENDS Money

\* FORM_3115_DE_MINIMIS_LIMIT: 50,000 dollars.
DeMinimis == 50000000

\* _FORM_3115_UNSUPPORTED_ANSWERS: the answers that cannot be printed.
Unsupported ==
  <<<<"wants_correspondence_by_fax_or_email", TRUE>>,
    <<"eligibility_rules_restrict_automatic_change", TRUE>>,
    <<"all_required_information_provided", FALSE>>,
    <<"ceases_trade_or_terminates_in_year_of_change", TRUE>>,
    <<"changing_to_section_381_principal_method", TRUE>>,
    <<"under_examination", TRUE>>,
    <<"audit_protection_applies", FALSE>>,
    <<"before_appeals_or_federal_court", TRUE>>,
    <<"prior_method_change_within_five_years", TRUE>>,
    <<"pending_ruling_or_method_change_request", TRUE>>,
    <<"changing_overall_method", TRUE>>,
    <<"cut_off_basis", TRUE>>,
    <<"prior_section_481a_adjustment_remaining", TRUE>>,
    <<"adjustment_from_related_party_transactions", TRUE>>,
    <<"depreciation_under_cladr", TRUE>>,
    <<"depreciation_capitalized_under_another_section", TRUE>>,
    <<"depreciation_election_made", TRUE>>,
    <<"public_utility_property", TRUE>>>>

\* The answers of Form3115: those above, and the ones that print as given.
\* Line 4b of Schedule E may be stated None.
Line4b == "lived_in_residential_rental_before_renting"
ChangeQuestions ==
  {Unsupported[i][1] : i \in DOMAIN Unsupported}
    \cup {"elect_one_year_spread", "proposed_method_used_for_books",
          "requests_conference_if_adverse", Line4b}

----------------------------------------------------------------------------
(* The ledger.                                                             *)

\* The parse-stage entries and the loader: a mapping with every key and no
\* other, of values of their types.
ShapeLedger3115(s) ==
  IF s.change = None THEN <<>>
  ELSE <<<<"form_3115_not_a_mapping", s.change.shape = "not_a_mapping">>,
         <<"form_3115_unknown_key", s.change.shape = "unknown_key">>,
         <<"form_3115_missing_key", s.change.shape = "missing_key">>,
         <<"form_3115_untyped", s.change.shape = "untyped">>>>

\* _f3115_non_boolean_answers
NotBoolean(c) ==
  \/ \E q \in ChangeQuestions : c.answers[q] = None /\ q # Line4b
  \/ AnyOf(c.assets, LAMBDA a : a.allowance = None)

\* Which change, of which year.
AppliedLedger(s) ==
  LET c == s.change IN
  <<<<"form_3115_answer_not_boolean", NotBoolean(c)>>,
    <<"form_3115_year_of_change_mismatch", c.year # s.year>>,
    <<"form_3115_change_number_unsupported", c.number # 7>>,
    <<"form_3115_tax_year_dates", c.begins # c.year \/ ~c.endsLater>>>>

\* Who applies: an individual, alone, of a known name and address.
ApplicantLedger(s) ==
  LET c == s.change IN
  <<<<"form_3115_applicant_type_unsupported", c.applicant # "individual">>,
    <<"form_3115_type_of_change_unsupported",
        c.type # "depreciation_or_amortization">>,
    <<"form_3115_joint_filer_unsupported", s.config.status = "mfj">>,
    <<"form_3115_applicant_identity_missing", ~c.identity>>,
    <<"form_3115_contact_missing", ~c.contact>>,
    <<"form_3115_business_activity_code_malformed",
        c.code \notin {None, "six digits"}>>>>

\* _cent_exact, over every amount that prints.
AssetAmounts(a) == {a.basis, a.claimed}
StatedAmounts(c) ==
  {c.adjustment} \cup UNION {AssetAmounts(c.assets[i]) : i \in DOMAIN c.assets}
CentExact(amount) == amount % 10 = 0

ElectionIneligible(c) ==
  /\ c.answers["elect_one_year_spread"] = TRUE
  /\ ~(0 < c.adjustment /\ c.adjustment < DeMinimis)

\* Broken: an amount finer than a cent is tested, and printed rounded.
UncheckedCents(c) ==
  <<<<"form_3115_one_year_election_ineligible", ElectionIneligible(c)>>>>

\* Before the election: its limit is tested on the amount as printed.
AmountLedger(c) ==
  <<<<"form_3115_amount_not_cent_exact",
        \E amount \in StatedAmounts(c) : ~CentExact(amount)>>,
    <<"form_3115_one_year_election_ineligible", ElectionIneligible(c)>>>>

PropertyLedger(c) ==
  <<<<"form_3115_no_assets", c.assets = <<>>>>,
    <<"form_3115_asset_field_blank", AnyOf(c.assets, LAMBDA a : a.blank)>>,
    <<"form_3115_asset_account_unknown", AnyOf(c.assets, LAMBDA a :
        a.account \notin {"single", "multiple", "general"})>>,
    <<"form_3115_asset_amount_negative", AnyOf(c.assets, LAMBDA a :
        \E amount \in AssetAmounts(a) : amount < 0)>>>>

UnsupportedLedger(c) ==
  [i \in DOMAIN Unsupported |->
    <<Unsupported[i][1], c.answers[Unsupported[i][1]] = Unsupported[i][2]>>]

\* The load-stage entries, asked at load, at compute and once more before
\* anything is written (enforce_form_3115_refusals).
ChangeLedger(s) ==
  IF s.change = None THEN <<>>
  ELSE AppliedLedger(s) \o ApplicantLedger(s) \o AmountLedger(s.change)
         \o PropertyLedger(s.change) \o UnsupportedLedger(s.change)

----------------------------------------------------------------------------
(* What prints.                                                            *)

\* round(abs(amount) * 100), half to even.
Cents(amount) ==
  LET size == IF amount < 0 THEN -amount ELSE amount
      down == size \div 10
      rest == size % 10
      cents == IF rest > 5 \/ (rest = 5 /\ down % 2 = 1) THEN down + 1 ELSE down
  IN IF amount < 0 THEN -cents ELSE cents

\* _YES_NO_ANSWERS: the boxes checked of each pair.
CheckedBoxes(c) ==
  [q \in ChangeQuestions |-> {answer \in BOOLEAN : c.answers[q] = answer}]

\* adjustment_period, in tax years.
Period(c) ==
  IF Cents(c.adjustment) = 0 THEN 0
  ELSE IF c.adjustment < 0 \/ c.answers["elect_one_year_spread"] = TRUE THEN 1 ELSE 4

\* required_attachments: whether the manifest asks for Line 17's statement.
ExplainsBooks(c) == c.answers["proposed_method_used_for_books"] = FALSE

\* presentation_values, and the manifest filed beside the form.
F3115(c) ==
  [boxes |-> CheckedBoxes(c), line26 |-> Cents(c.adjustment),
   line7b |-> c.answers["under_examination"] = FALSE
                /\ c.answers["audit_protection_applies"] = TRUE,
   line28 |-> c.answers["elect_one_year_spread"] = TRUE,
   individual |-> c.applicant = "individual",
   depreciation |-> c.type = "depreciation_or_amortization",
   period |-> Period(c), line17 |-> ExplainsBooks(c)]

\* statement_f3115_assets: a block for each item, its amounts as printed.
AssetStatement(c) ==
  [i \in DOMAIN c.assets |->
    [basis |-> Cents(c.assets[i].basis), claimed |-> Cents(c.assets[i].claimed)]]

\* _emit_form_3115: the form, its statement, the two as the duplicate copy,
\* and the manifest.
ChangePacket(s) ==
  Sheets(IF s.change = None THEN {}
         ELSE {"f3115", "f3115_asset_stmt", "f3115_duplicate_copy", "f3115_manifest"})
=============================================================================
