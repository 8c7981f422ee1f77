---------------------------- MODULE HeadOfHousehold ----------------------------
(***************************************************************************)
(* The facts of a head of household: the person who qualifies the filer,   *)
(* what the loader and the validator refuse of them (scenario.py), what    *)
(* Form 1040 says of them (forms/f1040_spine.py), and California's FTB     *)
(* 3532 (forms/ftb3532.py, mappings/pdf_ftb3532.py).                       *)
(*                                                                         *)
(* config.hoh is None or a block: [marital, decree, periods (<<[from,      *)
(* to]>>, days of the tax year, below 1 or past its end outside it),       *)
(* person].  The person is [blank, relationship, born (a year), student,   *)
(* disabled, income, days, claimed, ssn]; an SSN is "own", "own, spaced"   *)
(* (digits in no accepted shape), "filer" or "malformed".                  *)
(***************************************************************************)
EXTENDS Money

MaritalStatuses ==
  {"unmarried", "surviving_spouse", "marriage_annulled",
   "divorced_or_legally_separated", "married_lived_apart_all_year",
   "married_lived_together_part_of_year"}
Relationships ==
  {"child_or_stepchild", "grandchild_sibling_niece_or_nephew",
   "eligible_foster_child", "parent_or_stepparent", "other_relative"}
QualifyingChild == Relationships \ {"parent_or_stepparent", "other_relative"}
ConsideredUnmarried == {"child_or_stepchild", "eligible_foster_child"}
LivedTogether == "married_lived_together_part_of_year"
Married == {"married_lived_apart_all_year", LivedTogether}

DaysIn(year) == IF year % 4 = 0 THEN 366 ELSE 365
July1(year) == DaysIn(year) - 183
NineteenOrOlder(person, year) == year - person.born >= 19
Lines3(person) == <<person.student, person.disabled>>
Unanswered3(lines) == \E i \in DOMAIN lines : lines[i] = None

\* qp_on_qualifying_child_path
OnChildPath(person, year) ==
  /\ person.relationship \in QualifyingChild
  /\ \/ ~NineteenOrOlder(person, year)
     \/ person.student = TRUE /\ year - person.born < 24
     \/ person.disabled = TRUE

----------------------------------------------------------------------------
(* The loader, which a config built in code never meets.                   *)

\* _load_lived_together_periods
PeriodsRefused(block, year) ==
  LET p == block.periods IN
  \/ (block.marital = LivedTogether) # (p # <<>>)
  \/ Len(p) > 2
  \/ \E i \in DOMAIN p :
       \/ p[i].from > p[i].to \/ p[i].from < 1 \/ p[i].to > DaysIn(year)
       \/ i > 1 /\ p[i].from <= p[i - 1].to

\* _load_qualifying_person: lines 3a and 3b answered iff 19 or older.
PersonRefused(person, year) ==
  \/ person.blank \/ person.ssn \in {"own, spaced", "malformed"}
  \/ person.born > year \/ person.income < 0
  \/ person.days \notin 0 .. DaysIn(year)
  \/ person.claimed \notin BOOLEAN
  \/ IF NineteenOrOlder(person, year) THEN Unanswered3(Lines3(person))
     ELSE Lines3(person) # <<None, None>>

\* load_head_of_household
BlockRefused(block, year) ==
  \/ PeriodsRefused(block, year)
  \/ (block.marital = "divorced_or_legally_separated") # (block.decree # None)
  \/ PersonRefused(block.person, year)

----------------------------------------------------------------------------
(* The validator: at load, at compute with the header of Form 1040, and    *)
(* before the California forms are written.                                *)

\* Broken: only the periods' beginnings are looked at.
ContradictedByStart(block, year) ==
  LET person == block.person IN
  \/ person.born = year /\ person.days # DaysIn(year)
  \/ person.days < DaysIn(year) \div 2 + 1
  \/ AnyOf(block.periods, LAMBDA p : p.from >= July1(year))
  \/ block.marital \in Married /\ person.relationship \notin ConsideredUnmarried
  \/ ~OnChildPath(person, year)

\* _refuse_hoh_contradictions, rules 10 to 13.
Contradicted(block, year) ==
  LET person == block.person IN
  \/ person.born = year /\ person.days # DaysIn(year)
  \/ person.days < DaysIn(year) \div 2 + 1
  \/ AnyOf(block.periods, LAMBDA p : p.to >= July1(year))
  \/ block.marital \in Married /\ person.relationship \notin ConsideredUnmarried
  \/ ~OnChildPath(person, year)

\* validate_head_of_household
HouseholdRefused(config, year) ==
  \/ (config.status = "hoh") # (config.hoh # None)
  \/ /\ config.hoh # None
     /\ \/ config.hoh.person.claimed # FALSE \/ config.hoh.person.ssn = "filer"
        \/ Contradicted(config.hoh, year)

\* A loaded config: the block is parsed, then validated with the rest.
HouseholdUnloadable(config, year) ==
  \/ config.hoh # None /\ BlockRefused(config.hoh, year)
  \/ HouseholdRefused(config, year)

----------------------------------------------------------------------------
(* What prints.                                                            *)

PrintsLivedApart(year) == year >= 2025

\* refuse_ty2025_legal_separation
SeparationUnknown(config, year) ==
  /\ PrintsLivedApart(year) /\ config.status = "hoh" /\ config.hoh # None
  /\ config.hoh.marital = "divorced_or_legally_separated"
  /\ config.hoh.decree = "legal_separation"

\* header_values: what it refuses, and the head-of-household lines.
HeaderRefused(config, year) ==
  HouseholdRefused(config, year) \/ SeparationUnknown(config, year)
HouseholdLines(config, year) ==
  IF config.hoh = None THEN [named |-> FALSE, livedApart |-> FALSE]
  ELSE [named |-> OnChildPath(config.hoh.person, year),
        livedApart |-> PrintsLivedApart(year) /\ config.hoh.marital \in Married]

\* presentation_keys, at the California compute: it normalizes both SSNs
\* and counts the periods, lines 3a and 3b by the age again.
Form3532Refused(config) ==
  /\ config.status = "hoh"
  /\ \/ config.ssn = "spaced" \/ config.hoh.person.ssn \in {"own, spaced", "malformed"}
     \/ Len(config.hoh.periods) > 2
FTB3532(block, year) ==
  [part1 |-> block.marital, part2 |-> block.person.relationship,
   line1f |-> block.periods, line5 |-> block.person.days,
   line3 |-> IF NineteenOrOlder(block.person, year) THEN Lines3(block.person)
             ELSE <<None, None>>]

\* refuse_incomplete_ftb3532_payload, required_pdf_fields: a cell whose
\* value is None is skipped, which the branch of the form may not allow.
Form3532Incomplete(config, year) ==
  /\ config.status = "hoh"
  /\ LET form == FTB3532(config.hoh, year) IN
     \/ form.part1 = LivedTogether /\ form.line1f = <<>>
     \/ NineteenOrOlder(config.hoh.person, year) /\ Unanswered3(form.line3)
=============================================================================
