---------------------------- MODULE AuditWorkbook ----------------------------
(***************************************************************************)
(* The depreciation audit workbook emitted beside the forms of a return    *)
(* that lists assets (audit/depreciation_workbook.py): its cells are       *)
(* formulas over what the filer stated, and each is compared with the      *)
(* engine's figure before the workbook is written (the mirror).  A filer   *)
(* reads its tie-outs, which compare the formulas with the forms.          *)
(*                                                                         *)
(* ROUND(MIN(a, b), 0) is written as the least of the rounded amounts,     *)
(* which is the same amount.                                               *)
(***************************************************************************)
EXTENDS DepreciationActivity, MethodChange

\* The activities on the trail, and those the 40% test counts: they list
\* assets, or state a figure (audit_trail, mid_quarter_bases_by_activity).
OnTrail(s) == {i \in DOMAIN Activities4562(s) : Activities4562(s)[i].assets # <<>>}
Counted(s) ==
  OnTrail(s) \cup {i \in DOMAIN Activities4562(s) : StatedMode(Activities4562(s)[i])}
MultiActivity(s) == Cardinality(Counted(s)) >= 2
WithCopy(s) == {i \in OnTrail(s) : CopyRequired(Activities4562(s)[i], s.year)}

----------------------------------------------------------------------------
(* The cells.                                                              *)

\* Assets!K: the stated prior is subtracted to the cent.
AssetCell(a, year, midQuarter) ==
  Positive(Smaller(TableAmount(a, ConventionOf(a, year, midQuarter),
                               year - a.placed + 1),
                   Rounded(a.basis - (IF a.prior = None THEN 0 ELSE a.prior))))
AssetCells(assets, year, midQuarter) ==
  SumOf(assets, LAMBDA a : AssetCell(a, year, midQuarter))

\* Year-by-year!F: cumulative by the tables.
YearCell(a, convention, n) ==
  LET cumulative[k \in Nat] ==
        IF k = 0 THEN 0
        ELSE cumulative[k - 1]
               + Positive(Smaller(TableAmount(a, convention, k),
                                  Rounded(a.basis - 100 * cumulative[k - 1])))
  IN cumulative[n]

\* Broken: the rows keep the letters of 2025.
FormLineUnshifted(a, year) == IF a.placed = year THEN RowLetters[a.class] ELSE "17"

\* Assets!M, the line of Form 4562 the asset prints on.
FormLine(a, year) ==
  IF a.placed = year THEN PrintedRow(RowLetters[a.class], year) ELSE "17"

\* The sheet of the 40% test: whole cents, cross-multiplied.
DecidingCell(s) ==
  LET bases(months) ==
        SumOver(OnTrail(s), LAMBDA i :
                  TestBasis(<<Activities4562(s)[i]>>, s.year, months))
  IN bases(10 .. 12) * 100 > 40 * bases(1 .. 12)

----------------------------------------------------------------------------
(* The tie-outs: what is claimed, computed and printed.                    *)

CopyTies(act, copy, year, midQuarter) ==
  LET onLine(line) ==
        AssetCells(Where(act.assets, LAMBDA a : FormLine(a, year) = line),
                   year, midQuarter)
      letter(class) == PrintedRow(RowLetters[class], year)
  IN (IF copy.line17 = 0 THEN {} ELSE {<<"17", onLine("17"), copy.line17>>})
       \cup {<<letter(c), onLine(letter(c)), copy.rows[c].deduction>> : c \in DOMAIN copy.rows}
       \cup {<<"22", AssetCells(act.assets, year, midQuarter), copy.line22>>}

\* The line of Schedule E or C that deducts an activity's depreciation.
ScheduleLine(act) == Rounded(act.depreciation)

ScheduleTies(act, year, midQuarter) ==
  LET sum == AssetCells(act.assets, year, midQuarter)
  IN IF ~HasOverride(act) THEN {<<"schedule", sum, ScheduleLine(act)>>}
     ELSE {<<"schedule", Rounded(act.override.amount), ScheduleLine(act)>>,
           <<"restated", sum, Rounded(act.override.restates)>>}

\* Every copy's line 22, and the line of each activity without a copy.
WholeReturnTie(s, midQuarter) ==
  LET acts == Activities4562(s)
      line(i) == ScheduleLine(acts[i])
      others == SumOver(Counted(s) \ WithCopy(s), line)
  IN <<"whole return",
       others + SumOver(WithCopy(s), LAMBDA i :
                          AssetCells(acts[i].assets, s.year, midQuarter)),
       others + SumOver(WithCopy(s), line)>>

\* Sheet 481(a), in tenths of a cent: claimed less allowable, over the
\* property that is on the return; it may differ from line 26 as stated.
Allowable(a, s, midQuarter) ==
  IF a.placed >= s.change.year THEN 0
  ELSE YearCell(a, ConventionOf(a, s.year, midQuarter), s.change.year - a.placed)
NetAdjustment(s, midQuarter) ==
  SumOf(Where(s.change.assets, LAMBDA p : p.of # None),
        LAMBDA p : p.claimed - 1000 * Allowable(
          Activities4562(s)[p.of[1]].assets[p.of[2]], s, midQuarter))
AdjustmentTie(s, midQuarter) ==
  <<"line 26", NetAdjustment(s, midQuarter), 10 * F3115(s.change).line26>>

TieOuts(s) ==
  LET midQuarter == MidQuarterOf(s)
      acts == Activities4562(s)
  IN (UNION {CopyTies(acts[i], F4562(acts[i], s.year, midQuarter), s.year, midQuarter) :
               i \in WithCopy(s)})
       \cup (UNION {ScheduleTies(acts[i], s.year, midQuarter) : i \in OnTrail(s)})
       \cup (IF MultiActivity(s) THEN {WholeReturnTie(s, midQuarter)} ELSE {})
       \cup (IF s.change = None THEN {} ELSE {AdjustmentTie(s, midQuarter)})
Verdict(tie) == tie[2] = tie[3]

----------------------------------------------------------------------------
(* The mirror.                                                             *)

\* Every formula gives the engine's figure.
AssetMirrors(a, year, midQuarter) ==
  LET convention == ConventionOf(a, year, midQuarter) IN
  /\ AssetCell(a, year, midQuarter) = AssetDeduction(a, year, midQuarter)
  /\ \A n \in 1 .. year - a.placed + 1 :
       YearCell(a, convention, n) = TakenThrough(a, convention, n)

\* unbuildable_reasons, asked before any form is prepared.
AuditUnbuildable(s) ==
  LET midQuarter == MidQuarterOf(s) IN
  \/ SomeAsset(s, LAMBDA a : ~AssetMirrors(a, s.year, midQuarter))
  \/ MultiActivity(s) /\ OnTrail(s) # {} /\ DecidingCell(s) # midQuarter

\* write_depreciation_audit, of the figures as printed: more than one
\* activity's copies must tie to their own tabs.
AuditUnwritable(s) ==
  LET midQuarter == MidQuarterOf(s)
      acts == Activities4562(s)
  IN \/ AuditUnbuildable(s)
     \/ /\ MultiActivity(s)
        /\ \E i \in WithCopy(s) :
             AssetCells(acts[i].assets, s.year, midQuarter)
               # F4562(acts[i], s.year, midQuarter).line22
=============================================================================
