--------------------------- MODULE WorkbookCells ---------------------------
(***************************************************************************)
(* What of a return reaches the 1040 workbook, and what the workbook says: *)
(* oracle/flattener.py, mappings/f1040.py, forms/f1040.py and the input    *)
(* loop of oracle/engine.py.                                               *)
(*                                                                         *)
(* The flattener numbers a return's forms, and the mapping gives cells to  *)
(* the first few numbers of each kind.  The engine skips a key without a   *)
(* cell, so the workbook sees each kind of form cut at its last cell, and  *)
(* nothing at all of what has no key.  Cell addresses, sheets and captions *)
(* are left out; so are names, dates and numbers of employers.             *)
(***************************************************************************)
EXTENDS PassiveLosses, CapitalGains

CONSTANTS
  Employers,   \* W-2 columns a person has: six, taxpayer and spouse, in every
               \* year (_w2_block_inputs fills each year's map from 2021 on)
  Payers,      \* 1099-G columns (6)
  LotRows      \* rows of a Form 8949 box (11)
ASSUME CellsAssumption == {Employers, Payers, LotRows} \subseteq Nat

First(items, n) == [i \in 1 .. Smaller(Len(items), n) |-> items[i]]

\* --- The cells of a return ----------------------------------------------

\* _flatten_w2s numbers a person's W-2s apart; one that names nobody is the
\* taxpayer's.
W2sOf(s, owner) ==
  Where(s.w2s, LAMBDA w : (w.owner = "spouse") = (owner = "spouse"))
SheetW2s(s) ==
  First(W2sOf(s, "taxpayer"), Employers) \o First(W2sOf(s, "spouse"), Employers)

\* _refuse_unmapped_w2_inputs
\* (Broken: the W-2s of a couple are counted together.)
UnmappedOfBoth(s) == Len(s.w2s) > 2 * Employers
UnmappedW2s(s) ==
  \E owner \in {"taxpayer", "spouse"} : Len(W2sOf(s, owner)) > Employers

\* One cell each for interest, dividends and distributions: a second payer's
\* amounts are dropped.
SheetPayer(amounts) == First(amounts, 1)

\* _flatten_1099g
Sheet1099Gs(s) == First(s.g, Payers)

\* _flatten_rental_properties: lettered a, b and c, of which the sheet has a.
SheetRentals(s) == First(s.rentals, 1)

\* _flatten_k1s: the netted row reaches the passive or the nonpassive cell,
\* and the business income of section 199A its own; the boxes the row does
\* not net (interest, dividends, gains) have no cell.
SheetK1(k1) ==
  [k1 EXCEPT !.interest = 0, !.dividends = 0, !.qualified = 0, !.short = 0, !.long = 0]
SheetK1s(s) ==
  LET rows == First(s.k1s, K1Rows) IN [i \in DOMAIN rows |-> SheetK1(rows[i])]

\* _flatten_1099_b: the lots of a box, one a row.
SheetLots(s) ==
  LET place(i) == Cardinality({j \in 1 .. i : BoxOf(s.lots[j]) = BoxOf(s.lots[i])})
      kept == Kept(Len(s.lots), {i \in DOMAIN s.lots : place(i) <= LotRows})
  IN [i \in DOMAIN kept |-> s.lots[kept[i]]]

\* _flatten_form_1095a: twelve months, and in 2021 the unemployment mark.
SheetBlock(s) ==
  IF s.block = None THEN None
  ELSE [s.block EXCEPT !.unemployment = @ /\ s.year = 2021]

\* The return the workbook computes.  What the flattener never writes is not
\* part of it: businesses, health insurance, itemized deductions stated
\* rather than taken from a Form 1098, exempt interest, the election.
InWorkbook(s) ==
  [s EXCEPT !.w2s = SheetW2s(s), !.interest = SheetPayer(s.interest),
            !.dividends = SheetPayer(s.dividends), !.g = Sheet1099Gs(s),
            !.rentals = SheetRentals(s), !.k1s = SheetK1s(s), !.lots = SheetLots(s),
            !.block = SheetBlock(s),
            !.charitable = IF s.year = 2021 THEN @ ELSE 0,
            !.businesses = <<>>, !.health = 0, !.itemized = None, !.exempt = 0,
            !.election = "none"]

\* --- The workbook's refusals --------------------------------------------

\* What the caption of line 12 is when the sheet computed, and when it did
\* not (external): a diagnostic, of which nobody has the full list.
Labels == {"Standard Deduction", "Schedule A", None}
Answered(caption) == caption \in Labels

\* workbook_refusal: a caption that is no known label refuses.
\* (Broken: only the diagnostics somebody listed are refused.)
DeniedByList(caption) == caption \in {"Birthdate(s) needed.", "Filing status error."}
Declined(caption) == caption \notin Labels

\* workbook_probe_refusal: a cell that feeds the arithmetic holds a number
\* or nothing; text there is skipped by the sums that read it.
ProbeRefused(probe) == probe # None

\* The sheet needs both birthdates of a married couple: without them its
\* caption is a diagnostic (external).
NeedsBirthdate(config) == config.status \in {"mfj", "mfs"} /\ config.spouseAge = None
=============================================================================
