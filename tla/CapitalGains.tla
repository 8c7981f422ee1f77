---------------------------- MODULE CapitalGains ----------------------------
(***************************************************************************)
(* Sales of securities: forms/f8949.py and forms/sch_d.py.  A 1099-B lot   *)
(* is its term, whether its basis was reported, its amounts in cents and   *)
(* its adjustment flags; the text columns and the checkboxes are left out. *)
(***************************************************************************)
EXTENDS Money

CONSTANT
  LossLimit    \* capital_loss_limit (section 1211(b)); the one status with
               \* another limit, married filing separately, is never computed
               \* natively
ASSUME LossLimitAssumption == LossLimit \in Nat

Terms == {"short", "long"}
Boxes == {"a", "b", "d", "e"}   \* c and f have no producer

TermOf(lot) == IF lot.short THEN "short" ELSE "long"
BoxesOf(term) == IF term = "short" THEN <<"a", "b">> ELSE <<"d", "e">>

\* BOX_KEYS
BoxOf(lot) ==
  IF lot.short THEN IF lot.reported THEN "a" ELSE "b"
  ELSE IF lot.reported THEN "d" ELSE "e"

\* Form1099B.has_adjustments
Adjusted(lot) == lot.wash # 0 \/ lot.other # 0 \/ lot.rate28 \/ lot.s1250

\* _partition_lots
Aggregate(lots) == Where(lots, LAMBDA lot : lot.reported /\ ~Adjusted(lot))
Listed(lots)    == Where(lots, LAMBDA lot : ~(lot.reported /\ ~Adjusted(lot)))

\* adjustment_code_and_amount: a row has one code, so both refuse.
OneCode(lot)    == ~(lot.wash # 0 /\ lot.other # 0)
Adjustment(lot) == IF lot.wash # 0 THEN lot.wash ELSE lot.other

\* _lot_from_1099b
RowGain(lot) ==
  Rounded(lot.proceeds) - Rounded(lot.basis) + Rounded(Adjustment(lot))

F8949Refused(lots) == AnyOf(Listed(lots), LAMBDA lot : ~OneCode(lot))

\* compute: the rows of each box, and the aggregates of the other lots,
\* rounded once over the term.
F8949(lots) ==
  LET agg(term) == Where(Aggregate(lots), LAMBDA lot : TermOf(lot) = term)
      inBox(box) == Where(Listed(lots), LAMBDA lot : BoxOf(lot) = box)
  IN [boxes |-> [box \in Boxes |-> SumOf(inBox(box), RowGain)],
      aggregate |-> [term \in Terms |->
         Rounded(SumOf(agg(term), LAMBDA lot : lot.proceeds))
           - Rounded(SumOf(agg(term), LAMBDA lot : lot.basis))],
      rate28 |-> SumOf(Where(Listed(lots), LAMBDA lot : lot.rate28), RowGain),
      s1250  |-> SumOf(Where(Listed(lots), LAMBDA lot : lot.s1250), RowGain)]

\* Schedule D lines 7, 15 and 16; K-1 gains and distributions in cents.
NetOfTerm(f8949, term) ==
  f8949.aggregate[term]
    + SumOf(BoxesOf(term), LAMBDA box : f8949.boxes[box])

Line7(f8949, k1Short) == NetOfTerm(f8949, "short") + Rounded(k1Short)
Line15(f8949, k1Long, distributions) ==
  NetOfTerm(f8949, "long") + Rounded(k1Long) + Rounded(distributions)

\* Line 21: the loss, no larger than the limit.
AllowedLoss(line16) == IF line16 >= 0 THEN line16 ELSE Larger(line16, -LossLimit)

\* The short- and long-term carryforwards, as positive amounts.
ShortCarry(line7, line15, allowed) ==
  Positive(Negative(line7) - (allowed + Positive(line15)))
\* (Broken: a short-term gain leaves the long-term carryforward whole.)
LongCarryUnnetted(line7, line15, allowed) ==
  Positive(Negative(line15) - Positive(allowed - Negative(line7)))
LongCarry(line7, line15, allowed) ==
  Positive(Negative(line15)
    - (Positive(line7) + Positive(allowed - Negative(line7))))

\* compute: taxableIncome is the unfloored figure, or None.
ScheduleDRefused(line16, taxableIncome) ==
  line16 < 0 /\ taxableIncome # None /\ taxableIncome < 0

ScheduleD(line7, line15, taxableIncome) ==
  LET line16  == line7 + line15
      line21  == AllowedLoss(line16)
      allowed == -line21
      capped  == line16 < line21
  IN [line7 |-> line7, line15 |-> line15, line16 |-> line16, line21 |-> line21,
      carry |->
        IF line16 >= 0 THEN [short |-> 0, long |-> 0]
        ELSE IF capped /\ taxableIncome = None THEN None
        ELSE [short |-> ShortCarry(line7, line15, allowed),
              long  |-> LongCarry(line7, line15, allowed)]]

\* The Capital Loss Carryover Worksheet (reference), whose line 4 is limited
\* by the taxable income there was to use the loss against.
Worksheet(line7, line15, taxableIncome) ==
  LET loss == -AllowedLoss(line7 + line15)
      used == Smaller(loss, Positive(taxableIncome + loss))
  IN IF line7 + line15 >= 0 THEN [short |-> 0, long |-> 0]
     ELSE [short |-> ShortCarry(line7, line15, used),
           long  |-> LongCarry(line7, line15, used)]
=============================================================================
