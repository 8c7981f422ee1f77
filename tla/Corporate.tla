------------------------------ MODULE Corporate ------------------------------
(***************************************************************************)
(* The S corporation: Form 1120-S and its K-1s (forms/f1120s.py), the      *)
(* California Form 100S and its K-1s (forms/f100s.py, f100s_k1.py), what   *)
(* printing them refuses, and the K-1s that reach the shareholders' 1040.  *)
(*                                                                         *)
(* A corporation is a record of amounts in cents; ownership is whole       *)
(* percents; answers is [Schedule B question -> TRUE, FALSE or None].      *)
(* Header text and share counts are left out.                              *)
(***************************************************************************)
EXTENDS Money

CONSTANTS
  LargeCorporation,  \* receipts or assets that need Schedules L and M
  FranchiseRate,     \* franchise_tax_rate, in thousandths
  MinimumFranchise   \* minimum_franchise_tax

\* --- Form 1120-S --------------------------------------------------------

\* _compute_income: every arithmetic line from its printed operands.
CorporateIncome(c) ==
  LET net    == Rounded(c.receipts) - Rounded(c.returns)
      profit == net - Rounded(c.cogs)
  IN [line1c |-> net, line3 |-> profit,
      line6 |-> profit + Rounded(c.gain4797) + Rounded(c.otherIncome)]

\* _compute_deductions: line 20 adds the printed lines, the line "other
\* deductions" (attach statement) among them.
DeductionLines(c) == Append(c.deductions, c.otherDeductions)
TotalDeductions(c) == SumOf(DeductionLines(c), Rounded)

\* _compute_total_tax and _compute_payments_and_balance.
EntityTax(c) == Rounded(c.passiveTax) + Rounded(c.gainsTax)
EntityPaid(c) == SumOf(c.payments, Rounded)

\* _SCH_B_YES_NO: the questions, the ones whose Yes needs an attachment, and
\* the ones the printer asks of a year; line 7 is a single box.
AttachmentQuestions == {"3", "4a", "4b", "5a", "5b", "10", "12", "15"}
Questions == AttachmentQuestions
               \cup {"6", "7", "9", "11", "13", "14a", "14b", "16"}

AnswersRefused(c) ==
  \/ \E q \in AttachmentQuestions : c.answers[q] = TRUE
  \/ c.answers["11"] = FALSE

\* compute, after the attestations: what it refuses and what it prints.
CorporateRefused(c) ==
  c.energyDeduction # 0 \/ c.interest453 # 0 \/ AnswersRefused(c)

\* _compute_schedule_k: only line 1 (page 1's) and line 16d have a source.
ScheduleK(c) ==
  [line1 |-> CorporateIncome(c).line6 - TotalDeductions(c),
   line16d |-> Rounded(c.distributions)]

F1120S(c) ==
  LET delta == EntityTax(c) - EntityPaid(c)
  IN [line6 |-> CorporateIncome(c).line6, line20 |-> TotalDeductions(c),
      line21 |-> ScheduleK(c).line1,
      line22c |-> EntityTax(c), line23 |-> EntityPaid(c),
      owed |-> Positive(delta), overpaid |-> Positive(-delta)]

\* Broken: the shareholders get the income before the deductions.
AllocationsOfIncome(c) ==
  [i \in DOMAIN c.shares |->
       [box1 |-> CorporateIncome(c).line6 * c.shares[i],
        qbi |-> RoundedShare(c.shares[i], CorporateIncome(c).line6, 100),
        wages |-> 0, distributions |-> 0]]

\* _compute_schedule_k1_allocations: box 1 is an exact share (in cents), the
\* Statement A amounts are rounded shares.
Allocations(c) ==
  LET qbi == IF c.qbiOverride = None THEN ScheduleK(c).line1
             ELSE Rounded(c.qbiOverride)
  IN [i \in DOMAIN c.shares |->
       [box1 |-> ScheduleK(c).line1 * c.shares[i],
        qbi |-> RoundedShare(c.shares[i], qbi, 100),
        wages |-> RoundedRatio(c.w2Wages * c.shares[i], 10000),
        distributions |-> RoundedShare(c.shares[i], ScheduleK(c).line16d, 100)]]

\* _make_k1_from_1120s_allocation: the shareholder's K-1, always of material
\* participation; every other box is zero.
ShareholderK1(a) ==
  [entity |-> "s_corp", material |-> TRUE, ordinary |-> a.box1,
   rental |-> 0, otherRental |-> 0, royalties |-> 0, otherIncome |-> 0,
   prior |-> 0, interest |-> 0, dividends |-> 0, qualified |-> 0,
   short |-> 0, long |-> 0, s1231 |-> 0, s179 |-> 0, seEarnings |-> 0,
   qbi |-> 100 * a.qbi]
ShareholderK1s(c) ==
  [i \in DOMAIN c.shares |-> ShareholderK1(Allocations(c)[i])]

\* --- Form 100S ----------------------------------------------------------

\* compute: net income is a whole-dollar line before the rate is applied.
F100S(c) ==
  LET federal  == ScheduleK(c).line1
      income   == Rounded(100 * federal + c.ca.addback + c.ca.adjustment)
      measured == IF income > 0 THEN RoundedRatio(income * FranchiseRate, 1000)
                  ELSE 0
      tax      == IF c.ca.firstYear THEN measured
                  ELSE Larger(measured, MinimumFranchise)
      paid     == SumOf(c.ca.payments, Rounded)
      delta    == tax - paid
  IN [income |-> income, measured |-> measured, tax |-> tax, paid |-> paid,
      minimumApplies |-> ~c.ca.firstYear /\ measured < MinimumFranchise,
      owed |-> Positive(delta), overpaid |-> Positive(-delta),
      dueLine |-> IF delta >= 0 THEN delta ELSE None,   \* line 45
      kFederal |-> federal, kAdjustment |-> income - federal,
      kTotal |-> income]

\* f100s_k1: plain shares, in cents, of both columns.
CAAllocations(c) ==
  [i \in DOMAIN c.shares |->
     [federal |-> Allocations(c)[i].box1,
      california |-> F100S(c).income * c.shares[i]]]

\* --- Printing -----------------------------------------------------------

LargeBalance(c) ==
  c.assets >= LargeCorporation \/ c.receipts >= LargeCorporation

\* check_schedule_b_for_emit: 14b is asked after a Yes to 14a, 16 from 2023.
Asked(c, q, year) ==
  CASE q = "14b" -> c.answers["14a"] = TRUE
    [] q = "16"  -> year >= 2023
    [] OTHER     -> TRUE

ScheduleBUnprintable(c, year) ==
  \/ \E q \in Questions : (c.answers[q] = None) = Asked(c, q, year)
  \/ c.answers["11"] = TRUE /\ LargeBalance(c)

\* check_other_deductions_statement_for_emit, other_deductions_footing_problem
StatementUnprintable(c) ==
  IF c.components = <<>> THEN Rounded(c.otherDeductions) # 0
  ELSE SumOf(c.components, Rounded) # Rounded(c.otherDeductions)

\* validate_tax_year_dates (dates is "calendar", "short" or "inconsistent").
CorporatePrintRefused(c, year) ==
  \/ c.dates = "inconsistent"
  \/ ScheduleBUnprintable(c, year)
  \/ StatementUnprintable(c)

\* validate_unclaimed_property
UnclaimedInconsistent(ca) ==
  (ca.unclaimed = TRUE) # ca.unclaimedDetails

\* The first year that prints a stated answer of Schedule Q: the floor of
\* the emit, which the signature block's question is exempt from, and
\* get_schedule_q_cells.
FirstAsked(q) ==
  CASE q = "discuss_with_preparer" -> 2021
    [] q = "inactive_business"     -> 2023
    [] OTHER                       -> 2022

\* What is refused before the 100S is written.
CAScorpPrintRefused(c, year) ==
  \/ StatementUnprintable(c) \/ UnclaimedInconsistent(c.ca)
  \/ c.dates = "inconsistent"
  \/ \E q \in c.ca.scheduleQ : year < FirstAsked(q)

\* The shareholders whose K-1 would need both the final and the amended mark
\* where one radio holds the two (final_and_amended_share_one_field).
BothMarks(c, year) == IF c.amended /\ year >= 2024 THEN c.final ELSE {}

\* The corporate sets; the statement only when it is itemized.
CorporatePacket(c) ==
  Sheets({"1120s"} \cup (IF c.components # <<>> THEN {"1120s_other_deductions_stmt"}
                         ELSE {}))
    \cup CopiesOf("1120s_k1", c.shares) \cup CopiesOf("1120s_k1_qbi_stmt", c.shares)
CAScorpPacket(c) ==
  Sheets({"f100s"}
         \cup (IF c.components # <<>> THEN {"f100s_other_deductions_stmt"} ELSE {})
         \cup (IF c.amended THEN {"scorp_amendment_note"} ELSE {}))
    \cup CopiesOf("f100s_k1", c.shares)

\* Broken: the loop passes over the K-1 it cannot print, and only then stops.
CAScorpFormsPassing(c, year) ==
  Sheets({"f100s"}) \cup {<<"f100s_k1", i>> : i \in DOMAIN c.shares \ BothMarks(c, year)}

\* The 100S and, one shareholder after another, the K-1s up to the first that
\* would need both marks: all of them, or those the refusal leaves.
FirstCAScorpForms(c, year) ==
  Sheets({"f100s"})
    \cup {<<"f100s_k1", i>> :
            i \in {n \in DOMAIN c.shares : \A m \in BothMarks(c, year) : n < m}}
=============================================================================
