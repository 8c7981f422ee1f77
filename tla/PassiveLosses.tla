--------------------------- MODULE PassiveLosses ---------------------------
(***************************************************************************)
(* What becomes of a rental's or a pass-through entity's loss:             *)
(* forms/sch_e.py (Part I), forms/sch_e_part_ii.py, forms/f8582.py and the *)
(* passive-loss entries of the refusal ledger (attestations.py).           *)
(*                                                                         *)
(* Schedule E deducts every current-year loss in full; Form 8582 computes  *)
(* the limitation but nothing applies it.  The ledger refuses the returns  *)
(* on which that would be wrong.                                           *)
(*                                                                         *)
(* A rental is its rents, expenses and resolved depreciation; a K-1 its    *)
(* entity type, participation, five business boxes and carried-in loss.    *)
(* Boxes whose only effect is elsewhere (interest, dividends) are left out.*)
(***************************************************************************)
EXTENDS Money

CONSTANTS
  RentalColumns,  \* property columns on Schedule E (3)
  K1Rows          \* rows on Schedule E Part II (4)
ASSUME RowsAssumption == {RentalColumns, K1Rows} \subseteq Nat

Statuses == {"single", "mfj", "mfs", "hoh", "qss"}
EntityTypes == {"s_corp", "partnership", "estate_trust"}

\* --- Schedule E Part I --------------------------------------------------

\* printed_rental_net: rents less the individually rounded expense lines.
RentalNet(rental) ==
  Rounded(rental.rents) - SumOf(rental.expenses, Rounded)
                        - Rounded(rental.depreciation)

TooManyRentals(rentals) == Len(rentals) > RentalColumns

\* has_any_net_loss: on the amounts entered, before any rounding.
AnyRentalNetLoss(rentals) ==
  AnyOf(rentals, LAMBDA r :
    r.rents < SumOf(r.expenses, LAMBDA e : e) + r.depreciation)

\* _totals_block, lines 24 to 26.
PartI(rentals) ==
  LET income == SumOf(rentals, LAMBDA r : Positive(RentalNet(r)))
      losses == SumOf(rentals, LAMBDA r : Negative(RentalNet(r)))
  IN [nets |-> [i \in DOMAIN rentals |-> RentalNet(rentals[i])],
      line24 |-> income, line25 |-> losses, line26 |-> income - losses]

\* --- Schedule E Part II -------------------------------------------------

\* k1_part_ii_row_total: the business boxes netted into one row, the two
\* rental boxes combined before they are rounded.
K1Row(k1) ==
  Rounded(k1.ordinary) + Rounded(k1.rental + k1.otherRental)
    + Rounded(k1.royalties) + Rounded(k1.otherIncome)

ScorpNetLossRow(k1) == k1.entity = "s_corp" /\ K1Row(k1) < 0

Passive(k1s)    == Where(k1s, LAMBDA k1 : ~k1.material)
Nonpassive(k1s) == Where(k1s, LAMBDA k1 : k1.material)

RowIncome(k1s) == SumOf(k1s, LAMBDA k1 : Positive(K1Row(k1)))
RowLoss(k1s)   == SumOf(k1s, LAMBDA k1 : Negative(K1Row(k1)))

\* compute: row letters run out after K1Rows.
PartII(k1s) ==
  LET line30 == RowIncome(Passive(k1s)) + RowIncome(Nonpassive(k1s))
      line31 == RowLoss(Passive(k1s)) + RowLoss(Nonpassive(k1s))
  IN [passiveIncome |-> RowIncome(Passive(k1s)),
      passiveLoss   |-> RowLoss(Passive(k1s)),
      line30 |-> line30, line31 |-> line31, line32 |-> line30 - line31]

\* hand_attachment_notes: the K-1s that need a Form 7203.
HandAttachments(k1s) == {i \in DOMAIN k1s : ScorpNetLossRow(k1s[i])}

\* merge_with_part_i, line 41.
Line41(partI, partII) == partI.line26 + partII.line32

\* --- Form 8582 ----------------------------------------------------------

\* special_allowance, in cents; MAGI in dollars.
SpecialAllowance(magi, status, livedWithSpouse) ==
  LET base  == IF status = "mfs" THEN 12500 ELSE 25000
      start == IF status = "mfs" THEN 50000 ELSE 100000
      end   == IF status = "mfs" THEN 75000 ELSE 150000
  IN IF (status = "mfs" /\ livedWithSpouse) \/ magi >= end THEN 0
     ELSE IF magi <= start THEN 100 * base
     ELSE Positive(100 * base - 50 * (magi - start))

\* Each passive K-1 row, then each rental column, is an activity.
Activities(k1s, nets) ==
  [i \in DOMAIN Passive(k1s) |->
     [income |-> Positive(K1Row(Passive(k1s)[i])),
      loss   |-> Negative(K1Row(Passive(k1s)[i])),
      prior  |-> Rounded(Passive(k1s)[i].prior)]]
  \o [i \in DOMAIN nets |->
     [income |-> Positive(nets[i]), loss |-> Negative(nets[i]), prior |-> 0]]

NonRentalBoxes(k1) == <<k1.ordinary, k1.otherRental, k1.royalties, k1.otherIncome>>
NonRental(k1s, part(_)) ==
  SumOf(Passive(k1s), LAMBDA k1 :
    SumOf(NonRentalBoxes(k1), LAMBDA box : part(Rounded(box))))

\* Active participation is assumed of every rental and passive rental K-1.
RentalParticipation(rentals, k1s) ==
  \/ rentals # <<>>
  \/ AnyOf(Passive(k1s), LAMBDA k1 : k1.rental # 0)

\* compute: config is the filing status and the answer about living with a
\* spouse (None counts as apart); magi may be None (computed as 0).
F8582(rentals, k1s, config, magi) ==
  LET acts    == Activities(k1s, PartI(rentals).nets)
      income  == SumOf(acts, LAMBDA a : a.income)
      loss    == SumOf(acts, LAMBDA a : a.loss)
      prior   == SumOf(acts, LAMBDA a : a.prior)
      net     == income - loss - prior
      agi     == IF magi = None THEN 0 ELSE magi
      allowance ==
        IF RentalParticipation(rentals, k1s)
        THEN Positive(Rounded(SpecialAllowance(
               Positive(agi - net), config.status, config.livedWith = "yes")))
        ELSE 0
      allowed == Smaller(income + allowance, loss + prior)
      suspended == loss + prior - allowed
  IN [line1a |-> income, line1b |-> loss, line1c |-> prior, line1d |-> net,
      allowance |-> allowance, line11 |-> allowed,
      nonRentalLoss |-> NonRental(k1s, Negative),
      nonRentalIncome |-> NonRental(k1s, Positive),
      magiUnknown |-> magi = None,
      carryforwards |->
        [i \in DOMAIN acts |->
           IF loss + prior = 0 THEN 0
           ELSE RoundedShare(acts[i].loss + acts[i].prior, suspended,
                             loss + prior)]]

\* --- The ledger's passive-loss entries ----------------------------------

UnknownMagiRefused(f) == f.magiUnknown /\ (f.line1b > 0 \/ f.line1c > 0)

\* Broken: a rental loss the other activities' income covers is not asked
\* which activities it came from.
LimitationAsComputed(f) ==
  f.line1b + f.line1c - f.line11 > 0 \/ f.line1c > 0

LimitationRefused(f) ==
  \/ f.line1b + f.line1c - f.line11 > 0
  \/ (f.nonRentalLoss > f.nonRentalIncome /\ f.line1b > f.line1a)
  \/ f.line1c > 0

PassiveLossRefused(f) == UnknownMagiRefused(f) \/ LimitationRefused(f)

\* sch_e_line_27_prior_year_unallowed_loss, when Schedule E is printed.
Line27Refused(k1s) == AnyOf(k1s, LAMBDA k1 : k1.prior # 0)

\* --- What section 469 allows (reference) --------------------------------

\* The current-year passive loss the law disallows: the excess over passive
\* income and over the allowance, which excuses only a net loss of the
\* rental activities with active participation.
DisallowedLoss(f) ==
  LET nonRental == f.nonRentalIncome - f.nonRentalLoss
      rental    == f.line1a - f.line1b - nonRental
      excused   == Smaller(f.allowance, Smaller(Negative(rental),
                                                Negative(f.line1a - f.line1b)))
  IN Negative(f.line1a - f.line1b) - excused
============================================================================
