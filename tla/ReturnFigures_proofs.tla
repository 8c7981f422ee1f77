------------------------ MODULE ReturnFigures_proofs ------------------------
(***************************************************************************)
(* What the figures of a return are, for every set of scenarios, tables    *)
(* and workbook answers.  FederalReturn_proofs leaves them opaque; here    *)
(* the invariant says that wherever a stage's figures are still known they *)
(* are the ones that stage computes of the scenario in effect, cut to the  *)
(* cells of the workbook on that route, and that the refusals of every     *)
(* stage before passed.  A property of the figures is then one of the      *)
(* functions of the forms, given the refusals that were asked on the way.  *)
(***************************************************************************)
EXTENDS FederalReturn_proofs, ReturnArithmetic_proofs

\* f has the figures of new.
Knows(f, new) == \A x \in DOMAIN new : x \in DOMAIN f /\ f[x] = new[x]

\* The return a route computes, of the scenario in effect.
Routed(s) == IF InSpineScope(s) THEN s ELSE InWorkbook(s)

\* A contested position is elected only where every K-1 reaches it.
Elected(sc) == ~ElectionRefused(sc, Reached(WithShareholderK1s(sc)))

\* The figures f of the scenario sc as given, stage by stage.
GuardsPassed(sc) ==
  Passes(ComputeLedger(sc)) /\ Elected(sc) /\ Passes(GuardLedger(Effective(sc)))
IncomeKnown(sc, f) ==
  LET s == Effective(sc) IN
  /\ GuardsPassed(sc) /\ Knows(f, IncomeFigures(Routed(s)))
  /\ InSpineScope(s) => Passes(IncomeLedger(s))
  /\ ~InSpineScope(s) => Passes(InputLedger(s))
DeductionsKnown(sc, f) ==
  LET s == Effective(sc)
      new == DeductFigures(Routed(s), f)
  IN /\ IncomeKnown(sc, f) /\ Knows(f, new)
     /\ InSpineScope(s) => Passes(DeductLedger(s, f, new))
SpineKnown(sc, f) ==
  LET s == Effective(sc) IN
  /\ DeductionsKnown(sc, f)
  /\ InSpineScope(s) => Passes(SpineLedger(s, f)) /\ Knows(f, SpineFigures(s, f))
  /\ ~InSpineScope(s) =>
       \E answer \in WorkbookAnswers :
         /\ Sayable(s, answer) /\ Passes(AnswerLedger(s, f, answer))
         /\ Knows(f, WorkbookFigures(s, f, answer))
CaliforniaKnown(sc, f) ==
  LET s == WithDepreciation(sc)
      new == CaliforniaFigures(s, f)
  IN Passes(CaliforniaLedger(s, f, new)) /\ Knows(f, new)
FiguresKnown(sc, f) ==
  /\ "gains" \in DOMAIN f => IncomeKnown(sc, f)
  /\ "taxable" \in DOMAIN f => DeductionsKnown(sc, f)
  /\ "spine" \in DOMAIN f => SpineKnown(sc, f)
  /\ "f540" \in DOMAIN f => CaliforniaKnown(sc, f)

\* What a return has gone through when it is at a stage.
Unstarted == {"load", "effective", "guards", "income", "workbook"}
RouteInv ==
  LET s == Effective(scenario) IN
  /\ stage \in Unstarted => DOMAIN figures = {}
  /\ stage = "effective" /\ scenario.corp = None => Elected(scenario)
  /\ stage = "guards" => Passes(ComputeLedger(scenario)) /\ Elected(scenario)
  /\ stage = "income" => GuardsPassed(scenario) /\ InSpineScope(s)
  /\ stage = "workbook" => GuardsPassed(scenario) /\ ~InSpineScope(s)
  /\ stage \in {"deduct", "spine"} => InSpineScope(s)
  /\ stage \in {"sheet", "answer"} => ~InSpineScope(s)
  /\ stage \in {"deduct", "sheet"} => "gains" \in DOMAIN figures /\ "taxable" \notin DOMAIN figures
  /\ stage \in {"spine", "answer"} => "taxable" \in DOMAIN figures

\* A Form 1040 is printed once everything in its packet is prepared.
EmitInv == Printed("1040") => Passes(EmitLedger(Effective(scenario), figures))

\* An amendment has the figures filed.
FiledInv ==
  Correcting =>
    /\ "spine" \in DOMAIN filed.figures /\ FiguresKnown(filed.scenario, filed.figures)
    /\ filed.federal = FiledFigures(filed.figures)
    /\ filed.california = FiledCA(filed.figures)

KnownInv == RouteInv /\ FiguresKnown(scenario, figures) /\ EmitInv /\ FiledInv
FInv == IInv /\ KnownInv

----------------------------------------------------------------------------
(* Figures that are known.                                                 *)

\* A stage's figures are known after it, and the others still.
LEMMA KnowsNew ==
  ASSUME NEW f, NEW new
  PROVE  Knows(Updated(f, new), new)
<1> DEFINE g == Updated(f, new)
<1>1. DOMAIN g = DOMAIN f \cup DOMAIN new /\ \A x \in DOMAIN new : g[x] = new[x]
  BY UpdatedLooksUp
<1> HIDE DEF g
<1>2. Knows(g, new)
  BY <1>1 DEF Knows
<1>3. QED
  BY <1>2 DEF g

LEMMA KnowsStill ==
  ASSUME NEW f, NEW new, NEW old, Knows(f, old), DOMAIN old \cap DOMAIN new = {}
  PROVE  Knows(Updated(f, new), old)
<1> DEFINE g == Updated(f, new)
<1>1. /\ DOMAIN g = DOMAIN f \cup DOMAIN new
      /\ \A x \in DOMAIN f \ DOMAIN new : g[x] = f[x]
  BY UpdatedLooksUp
<1>2. \A x \in DOMAIN old : x \in DOMAIN f \ DOMAIN new /\ f[x] = old[x]
  BY DEF Knows
<1> HIDE DEF g
<1>3. Knows(g, old)
  BY <1>1, <1>2 DEF Knows
<1>4. QED
  BY <1>3 DEF g

IncomeNames == {"income", "gains", "sch1", "preamble", "medicare", "seTax"}
DeductNames == {"schA", "deduction", "taxable", "ptc", "qbi", "consulted", "f8582"}
SpineNames  == {"path", "eic", "spine"}
CANames     == {"schCA", "f540", "balance540"}

\* The names of each stage's figures.
LEMMA FigureNames ==
  ASSUME NEW s, NEW f
  PROVE  /\ DOMAIN IncomeFigures(s) = IncomeNames
         /\ DOMAIN DeductFigures(s, f) = DeductNames
         /\ DOMAIN SpineFigures(s, f) = SpineNames
         /\ \A answer : DOMAIN WorkbookFigures(s, f, answer) = SpineNames
         /\ DOMAIN CaliforniaFigures(s, f) = CANames
<1>1. DOMAIN IncomeFigures(s) = IncomeNames
  BY DEF IncomeFigures, IncomeNames
<1>2. DOMAIN DeductFigures(s, f) = DeductNames
  BY DEF DeductFigures, DeductNames
<1>3. DOMAIN SpineFigures(s, f) = SpineNames
  BY DEF SpineFigures, SpineNames
<1>4. \A answer : DOMAIN WorkbookFigures(s, f, answer) = SpineNames
  BY DEF WorkbookFigures, SpineNames
<1>5. DOMAIN CaliforniaFigures(s, f) = CANames
  BY DEF CaliforniaFigures, CANames
<1>6. QED
  BY <1>1, <1>2, <1>3, <1>4, <1>5

\* f and g agree on some names.
Agree(f, g, names) == \A x \in names : f[x] = g[x]

\* What each stage reads of the figures before it.
LEMMA DeductReads ==
  ASSUME NEW s, NEW f, NEW g, NEW new, Agree(f, g, IncomeNames)
  PROVE  /\ DeductFigures(s, f) = DeductFigures(s, g)
         /\ DeductLedger(s, f, new) = DeductLedger(s, g, new)
<1>1. f.preamble = g.preamble /\ f.income = g.income
  BY DEF Agree, IncomeNames
<1>2. QED
  BY <1>1 DEF DeductFigures, DeductLedger

LEMMA SpineReads ==
  ASSUME NEW s, NEW f, NEW g, Agree(f, g, IncomeNames \cup DeductNames)
  PROVE  /\ SpineFigures(s, f) = SpineFigures(s, g)
         /\ SpineLedger(s, f) = SpineLedger(s, g)
         /\ \A answer : /\ WorkbookFigures(s, f, answer) = WorkbookFigures(s, g, answer)
                        /\ AnswerLedger(s, f, answer) = AnswerLedger(s, g, answer)
<1>1. /\ f.income = g.income /\ f.gains = g.gains /\ f.preamble = g.preamble
      /\ f.medicare = g.medicare /\ f.seTax = g.seTax /\ f.sch1 = g.sch1
      /\ f.deduction = g.deduction /\ f.qbi = g.qbi /\ f.ptc = g.ptc /\ f.taxable = g.taxable
  BY DEF Agree, IncomeNames, DeductNames
<1>2. TentativeOf(s, f) = TentativeOf(s, g)
  BY <1>1 DEF TentativeOf
<1>3. SpineFigures(s, f) = SpineFigures(s, g) /\ SpineLedger(s, f) = SpineLedger(s, g)
  BY <1>1, <1>2 DEF SpineFigures, SpineLedger
<1>4. \A answer : SheetSpine(InWorkbook(s), f, answer) = SheetSpine(InWorkbook(s), g, answer)
  BY <1>1 DEF SheetSpine
<1>5. \A answer : /\ WorkbookFigures(s, f, answer) = WorkbookFigures(s, g, answer)
                  /\ AnswerLedger(s, f, answer) = AnswerLedger(s, g, answer)
  BY <1>1, <1>4 DEF WorkbookFigures, AnswerLedger
<1>6. QED
  BY <1>3, <1>5

LEMMA CaliforniaReads ==
  ASSUME NEW s, NEW f, NEW g, NEW new,
         f.spine = g.spine, f.sch1 = g.sch1, f.schA = g.schA
  PROVE  /\ CaliforniaFigures(s, f) = CaliforniaFigures(s, g)
         /\ CaliforniaLedger(s, f, new) = CaliforniaLedger(s, g, new)
<1>1. /\ FederalView(f) = FederalView(g) /\ Applied(s, f) = Applied(s, g)
      /\ CAItemizedOf(s, f) = CAItemizedOf(s, g)
  BY DEF FederalView, Applied, CAItemizedOf
<1>2. QED
  BY <1>1 DEF CaliforniaFigures, CaliforniaLedger

LEMMA EmitReads ==
  ASSUME NEW s, NEW f, NEW g,
         f.spine = g.spine, f.income = g.income, f.taxable = g.taxable, f.qbi = g.qbi
  PROVE  EmitLedger(s, f) = EmitLedger(s, g)
BY DEF EmitLedger, EmitsScheduleB

\* The figures of an early stage say the same after later ones.
LEMMA IncomeStillKnown ==
  ASSUME NEW sc, NEW f, NEW new, IncomeKnown(sc, f), IncomeNames \cap DOMAIN new = {}
  PROVE  IncomeKnown(sc, Updated(f, new))
BY FigureNames, KnowsStill DEF IncomeKnown

LEMMA IncomeAgrees ==
  ASSUME NEW sc, NEW f, NEW new, IncomeKnown(sc, f), IncomeNames \cap DOMAIN new = {}
  PROVE  Agree(f, Updated(f, new), IncomeNames) /\ IncomeNames \subseteq DOMAIN f
<1>1. IncomeNames \subseteq DOMAIN f
  BY FigureNames DEF IncomeKnown, Knows
<1>2. QED
  BY <1>1, UpdatedLooksUp DEF Agree

LEMMA DeductionsStillKnown ==
  ASSUME NEW sc, NEW f, NEW new, DeductionsKnown(sc, f),
         (IncomeNames \cup DeductNames) \cap DOMAIN new = {}
  PROVE  DeductionsKnown(sc, Updated(f, new))
<1> DEFINE s == Effective(sc)
           g == Updated(f, new)
           figs == DeductFigures(Routed(s), f)
<1>1. IncomeKnown(sc, f) /\ Knows(f, figs) /\ (InSpineScope(s) => Passes(DeductLedger(s, f, figs)))
  BY DEF DeductionsKnown
<1>2. IncomeKnown(sc, g) /\ Agree(f, g, IncomeNames)
  BY <1>1, IncomeStillKnown, IncomeAgrees
<1>3. DeductFigures(Routed(s), g) = figs /\ DeductLedger(s, g, figs) = DeductLedger(s, f, figs)
  BY <1>2, DeductReads
<1>4. DOMAIN figs \cap DOMAIN new = {}
  BY FigureNames
<1> HIDE DEF figs, s
<1>5. Knows(g, figs)
  BY <1>1, <1>4, KnowsStill
<1>6. QED
  BY <1>1, <1>2, <1>3, <1>5 DEF DeductionsKnown, s

LEMMA DeductionsAgree ==
  ASSUME NEW sc, NEW f, NEW new, DeductionsKnown(sc, f),
         (IncomeNames \cup DeductNames) \cap DOMAIN new = {}
  PROVE  /\ Agree(f, Updated(f, new), IncomeNames \cup DeductNames)
         /\ IncomeNames \cup DeductNames \subseteq DOMAIN f
<1>1. IncomeNames \subseteq DOMAIN f
  BY IncomeAgrees DEF DeductionsKnown
<1>2. DeductNames \subseteq DOMAIN f
  BY FigureNames DEF DeductionsKnown, Knows
<1>3. \A x \in DOMAIN f \ DOMAIN new : Updated(f, new)[x] = f[x]
  BY UpdatedLooksUp
<1>4. QED
  BY <1>1, <1>2, <1>3 DEF Agree

LEMMA SpineStillKnown ==
  ASSUME NEW sc, NEW f, NEW new, SpineKnown(sc, f),
         (IncomeNames \cup DeductNames \cup SpineNames) \cap DOMAIN new = {}
  PROVE  SpineKnown(sc, Updated(f, new))
<1> DEFINE s == Effective(sc)
           g == Updated(f, new)
<1>1. DeductionsKnown(sc, f)
  BY DEF SpineKnown
<1>2. DeductionsKnown(sc, g) /\ Agree(f, g, IncomeNames \cup DeductNames)
  BY <1>1, DeductionsStillKnown, DeductionsAgree
<1>3. /\ SpineFigures(s, g) = SpineFigures(s, f) /\ SpineLedger(s, g) = SpineLedger(s, f)
      /\ \A answer : /\ WorkbookFigures(s, g, answer) = WorkbookFigures(s, f, answer)
                     /\ AnswerLedger(s, g, answer) = AnswerLedger(s, f, answer)
  BY <1>2, SpineReads
<1>4. CASE InSpineScope(s)
  <2>1. Passes(SpineLedger(s, f)) /\ Knows(f, SpineFigures(s, f))
    BY <1>4 DEF SpineKnown
  <2>2. DOMAIN SpineFigures(s, f) \cap DOMAIN new = {}
    BY FigureNames
  <2>3. Knows(g, SpineFigures(s, f))
    BY <2>1, <2>2, KnowsStill
  <2> HIDE DEF s
  <2>4. QED
    BY <1>2, <1>3, <1>4, <2>1, <2>3 DEF SpineKnown, s
<1>5. CASE ~InSpineScope(s)
  <2>1. PICK answer \in WorkbookAnswers :
          /\ Sayable(s, answer) /\ Passes(AnswerLedger(s, f, answer))
          /\ Knows(f, WorkbookFigures(s, f, answer))
    BY <1>5 DEF SpineKnown
  <2>2. DOMAIN WorkbookFigures(s, f, answer) \cap DOMAIN new = {}
    BY FigureNames
  <2>3. Knows(g, WorkbookFigures(s, f, answer))
    BY <2>1, <2>2, KnowsStill
  <2> HIDE DEF s
  <2>4. QED
    BY <1>2, <1>3, <1>5, <2>1, <2>3 DEF SpineKnown, s
<1>6. QED
  BY <1>4, <1>5

\* A stage after the spine leaves what it reads.
LEMMA SpineAgrees ==
  ASSUME NEW sc, NEW f, NEW new, SpineKnown(sc, f),
         (IncomeNames \cup DeductNames \cup SpineNames) \cap DOMAIN new = {}
  PROVE  LET g == Updated(f, new) IN
         Agree(f, g, IncomeNames \cup DeductNames \cup SpineNames)
<1>1. IncomeNames \cup DeductNames \subseteq DOMAIN f
  BY DeductionsAgree DEF SpineKnown
<1>2. SpineNames \subseteq DOMAIN f
  BY FigureNames DEF SpineKnown, Knows
<1>3. \A x \in DOMAIN f \ DOMAIN new : Updated(f, new)[x] = f[x]
  BY UpdatedLooksUp
<1>4. QED
  BY <1>1, <1>2, <1>3 DEF Agree

----------------------------------------------------------------------------
(* What each stage adds.                                                   *)

LEMMA IncomeComputed ==
  ASSUME NEW sc, NEW f, DOMAIN f = {}, GuardsPassed(sc),
         InSpineScope(Effective(sc)) => Passes(IncomeLedger(Effective(sc))),
         ~InSpineScope(Effective(sc)) => Passes(InputLedger(Effective(sc)))
  PROVE  LET g == Updated(f, IncomeFigures(Routed(Effective(sc)))) IN
         IncomeKnown(sc, g) /\ DOMAIN g = IncomeNames
<1> DEFINE new == IncomeFigures(Routed(Effective(sc)))
<1>1. DOMAIN new = IncomeNames
  BY FigureNames
<1>2. Knows(Updated(f, new), new) /\ DOMAIN Updated(f, new) = IncomeNames
  BY <1>1, KnowsNew, UpdatedLooksUp
<1>3. QED
  BY <1>2 DEF IncomeKnown

LEMMA DeductionsComputed ==
  ASSUME NEW sc, NEW f, IncomeKnown(sc, f), NEW s, s = Effective(sc),
         NEW new, new = DeductFigures(Routed(s), f),
         InSpineScope(s) => Passes(DeductLedger(s, f, new))
  PROVE  DeductionsKnown(sc, Updated(f, new)) /\ DOMAIN new = DeductNames
<1> DEFINE g == Updated(f, new)
<1>1. DOMAIN new = DeductNames
  BY FigureNames
<1>2. IncomeNames \cap DOMAIN new = {}
  BY <1>1 DEF IncomeNames, DeductNames
<1>3. IncomeKnown(sc, g) /\ Agree(f, g, IncomeNames)
  BY <1>2, IncomeStillKnown, IncomeAgrees
<1>4. DeductFigures(Routed(s), g) = new /\ DeductLedger(s, g, new) = DeductLedger(s, f, new)
  BY <1>3, DeductReads
<1>5. Knows(g, new)
  BY KnowsNew
<1> HIDE DEF g
<1>6. DeductionsKnown(sc, g)
  BY <1>3, <1>4, <1>5 DEF DeductionsKnown
<1>7. QED
  BY <1>1, <1>6 DEF g

LEMMA SpineComputed ==
  ASSUME NEW sc, NEW f, DeductionsKnown(sc, f), NEW s, s = Effective(sc),
         InSpineScope(s), Passes(SpineLedger(s, f))
  PROVE  SpineKnown(sc, Updated(f, SpineFigures(s, f)))
<1> DEFINE new == SpineFigures(s, f)
           g == Updated(f, new)
<1>1. DOMAIN new = SpineNames
  BY FigureNames
<1>2. (IncomeNames \cup DeductNames) \cap DOMAIN new = {}
  BY <1>1 DEF IncomeNames, DeductNames, SpineNames
<1> HIDE DEF new
<1>3. DeductionsKnown(sc, g) /\ Agree(f, g, IncomeNames \cup DeductNames)
  BY <1>2, DeductionsStillKnown, DeductionsAgree
<1>4. SpineFigures(s, g) = new /\ SpineLedger(s, g) = SpineLedger(s, f)
  BY <1>3, SpineReads DEF new
<1>5. Knows(g, new)
  BY KnowsNew
<1> HIDE DEF g
<1>6. SpineKnown(sc, g)
  BY <1>3, <1>4, <1>5 DEF SpineKnown
<1>7. QED
  BY <1>6 DEF g, new

LEMMA AnswerComputed ==
  ASSUME NEW sc, NEW f, DeductionsKnown(sc, f), NEW s, s = Effective(sc),
         ~InSpineScope(s), NEW answer \in WorkbookAnswers,
         Sayable(s, answer), Passes(AnswerLedger(s, f, answer))
  PROVE  SpineKnown(sc, Updated(f, WorkbookFigures(s, f, answer)))
<1> DEFINE new == WorkbookFigures(s, f, answer)
           g == Updated(f, new)
<1>1. DOMAIN new = SpineNames
  BY FigureNames
<1>2. (IncomeNames \cup DeductNames) \cap DOMAIN new = {}
  BY <1>1 DEF IncomeNames, DeductNames, SpineNames
<1> HIDE DEF new
<1>3. DeductionsKnown(sc, g) /\ Agree(f, g, IncomeNames \cup DeductNames)
  BY <1>2, DeductionsStillKnown, DeductionsAgree
<1>4. WorkbookFigures(s, g, answer) = new /\ AnswerLedger(s, g, answer) = AnswerLedger(s, f, answer)
  BY <1>3, SpineReads DEF new
<1>5. Knows(g, new)
  BY KnowsNew
<1> HIDE DEF g
<1>6. SpineKnown(sc, g)
  BY <1>3, <1>4, <1>5 DEF SpineKnown
<1>7. QED
  BY <1>6 DEF g, new

\* California's figures leave the federal ones, and what they were read from.
LEMMA CaliforniaComputed ==
  ASSUME NEW sc, NEW f, SpineKnown(sc, f), NEW s, s = WithDepreciation(sc),
         NEW new, new = CaliforniaFigures(s, f), Passes(CaliforniaLedger(s, f, new))
  PROVE  LET g == Updated(f, new) IN
         /\ SpineKnown(sc, g) /\ CaliforniaKnown(sc, g)
         /\ \A t : EmitLedger(t, g) = EmitLedger(t, f)
<1> DEFINE g == Updated(f, new)
           names == IncomeNames \cup DeductNames \cup SpineNames
<1>1. DOMAIN new = CANames
  BY FigureNames
<1>2. names \cap DOMAIN new = {}
  BY <1>1 DEF IncomeNames, DeductNames, SpineNames, CANames
<1>3. SpineKnown(sc, g) /\ Agree(f, g, names)
  BY <1>2, SpineStillKnown, SpineAgrees
<1>4. /\ f.spine = g.spine /\ f.sch1 = g.sch1 /\ f.schA = g.schA
      /\ f.income = g.income /\ f.taxable = g.taxable /\ f.qbi = g.qbi
  BY <1>3 DEF Agree, IncomeNames, DeductNames, SpineNames
<1>5. CaliforniaFigures(s, g) = new /\ CaliforniaLedger(s, g, new) = CaliforniaLedger(s, f, new)
  BY <1>4, CaliforniaReads
<1>6. Knows(g, new)
  BY KnowsNew
<1> HIDE DEF g
<1>7. CaliforniaKnown(sc, g)
  BY <1>5, <1>6 DEF CaliforniaKnown
<1>8. \A t : EmitLedger(t, g) = EmitLedger(t, f)
  BY <1>4, EmitReads
<1>9. QED
  BY <1>3, <1>7, <1>8 DEF g

----------------------------------------------------------------------------
(* The steps.                                                              *)

\* A step that leaves the figures.
LEMMA KnownKept ==
  ASSUME FInv, UNCHANGED <<scenario, figures, filed>>, RouteInv', EmitInv'
  PROVE  KnownInv'
<1>1. FiguresKnown(scenario, figures)'
  BY DEF FInv, KnownInv
<1>2. FiledInv'
  BY DEF FInv, KnownInv, FiledInv, Correcting
<1>3. QED
  BY <1>1, <1>2 DEF KnownInv

LEMMA RefusedKnown ==
  ASSUME FInv, NEW ledger, Refuse(ledger)
  PROVE  KnownInv'
<1>1. RouteInv'
  BY DEF Refuse, RouteInv, Unstarted
<1>2. EmitInv'
  BY DEF Refuse, FInv, KnownInv, EmitInv, Printed
<1>3. QED
  BY <1>1, <1>2, KnownKept DEF Refuse

\* A stage that computes before any form is written.
LEMMA EarlyKnown ==
  ASSUME FInv, stage \in Early, UNCHANGED <<scenario, printed, filed>>,
         RouteInv', FiguresKnown(scenario, figures')
  PROVE  KnownInv'
<1>1. ~Printed("1040")'
  BY DEF FInv, IInv, Control, PrintedInv, Printed
<1>2. FiledInv'
  BY DEF FInv, KnownInv, FiledInv, Correcting
<1>3. QED
  BY <1>1, <1>2 DEF KnownInv, EmitInv

LEMMA UnstartedKnown ==
  ASSUME FInv, stage \in {"load", "effective", "guards"}, NEW ledger, NEW next,
         Proceed(ledger, next, <<>>),
         next = "effective" /\ scenario.corp = None => Elected(scenario),
         next = "guards" => Passes(ComputeLedger(scenario)) /\ Elected(scenario),
         next = "income" => GuardsPassed(scenario) /\ InSpineScope(Effective(scenario)),
         next = "workbook" => GuardsPassed(scenario) /\ ~InSpineScope(Effective(scenario)),
         next \in Unstarted \cup {"scorp"}
  PROVE  KnownInv'
<1>1. DOMAIN figures = {}
  BY DEF FInv, KnownInv, RouteInv, Unstarted
<1>2. DOMAIN figures' = {}
  BY <1>1, NothingKnown, UpdatedLooksUp DEF Proceed
<1>3. FiguresKnown(scenario, figures')
  BY <1>2 DEF FiguresKnown
<1>4. RouteInv'
  BY <1>2 DEF Proceed, RouteInv, Unstarted
<1>5. QED
  BY <1>3, <1>4, EarlyKnown DEF Proceed, Early

\* A stage that writes no Form 1040.
LEMMA WrittenKnown ==
  ASSUME FInv, NEW at, NEW ledger, NEW next, NEW forms, Write(at, ledger, next, forms),
         next \in Late \cup {"ca_scorp", "f100s_k1s", "done"}, <<"1040", 0>> \notin forms
  PROVE  KnownInv'
<1>1. CASE Refuse(ledger)
  BY <1>1, RefusedKnown
<1>2. CASE /\ stage' = next /\ printed' = printed \cup forms
           /\ UNCHANGED <<scenario, refusal, figures, filed>>
  <2>1. RouteInv'
    BY <1>2 DEF RouteInv, Unstarted, Late
  <2>2. EmitInv'
    BY <1>2 DEF FInv, KnownInv, EmitInv, Printed
  <2>3. QED
    BY <1>2, <2>1, <2>2, KnownKept
<1>3. QED
  BY <1>1, <1>2 DEF Write

\* An election is asked for wherever the scenario comes from.
LEMMA LoadAsksElection ==
  ASSUME NEW s, Passes(LoadLedger(s)), s.corp = None
  PROVE  Elected(s)
<1>1. Passes(ConstructionLedger(s))
  <2>1. CASE s.origin = "code"
    BY <2>1 DEF LoadLedger
  <2>2. CASE s.origin # "code"
    <3> DEFINE shape == ShapeLedger3115(s)
               file == <<<<"load", ConfigRefused(s, NonitemizerCap) \/ OwnersRefused(s)>>,
                         <<"tax_year_dates", s.corp # None /\ s.corp.dates = "inconsistent">>,
                         <<"ca540", s.ca # None /\ CA540Refused(s.ca)>>>>
               whole == <<<<"load", ScenarioRefused(s)>>>>
    <3>1. /\ Listing(shape) /\ Listing(file) /\ Listing(ConstructionLedger(s))
          /\ Listing(whole) /\ Listing(ComputeLedger(s))
      BY ComputeListing, ShortListings DEF ShapeLedger3115, ConstructionLedger
    <3>2. LoadLedger(s) = (((shape \o file) \o ConstructionLedger(s)) \o whole) \o ComputeLedger(s)
      BY <2>2 DEF LoadLedger
    <3> HIDE DEF shape, file, whole
    <3>3. Listing(shape \o file) /\ Listing((shape \o file) \o ConstructionLedger(s))
      BY <3>1, Joined
    <3>4. Listing(((shape \o file) \o ConstructionLedger(s)) \o whole)
      BY <3>1, <3>3, Joined
    <3>5. Passes(((shape \o file) \o ConstructionLedger(s)) \o whole)
      BY <3>1, <3>2, <3>4, Joined
    <3>6. Passes((shape \o file) \o ConstructionLedger(s))
      BY <3>1, <3>3, <3>5, Joined
    <3>7. QED
      BY <3>1, <3>3, <3>6, Joined
  <2>3. QED
    BY <2>1, <2>2
<1>2. \A a, b : Passes(<<a, b>>) => ~a[2]
  BY DEF Passes, AnyOf, Offends
<1>3. ~ElectionRefused(s, MayReach(s))
  BY <1>1, <1>2 DEF ConstructionLedger
<1>4. WithShareholderK1s(s) = s
  BY DEF WithShareholderK1s
<1>5. QED
  BY <1>3, <1>4 DEF Elected, ElectionRefused, MayReach, Reached

LEMMA LoadKnown == ASSUME FInv, Load PROVE KnownInv'
<1> DEFINE next == IF scenario.command = "scorp" THEN "scorp" ELSE "effective"
<1>1. CASE Refuse(LoadLedger(scenario))
  BY <1>1, RefusedKnown
<1>2. CASE Proceed(LoadLedger(scenario), next, <<>>)
  <2>1. scenario.corp = None => Elected(scenario)
    BY <1>2, LoadAsksElection DEF Proceed
  <2>2. QED
    BY <1>2, <2>1, UnstartedKnown DEF Load, Step, Unstarted
<1>3. QED
  BY <1>1, <1>2 DEF Load, Step

\* The refusals at load are asked again before the figures.
LEMMA EffectiveAsksAgain ==
  ASSUME NEW s, Passes(EffectiveLedger(s))
  PROVE  Passes(ComputeLedger(s)) /\ (s.corp # None => Elected(s))
<1> DEFINE own   == <<<<"form_3115_in_amendment_packet", AmendmentChange(s)>>,
                        <<"direct_deposit_in_amendment_packet", AmendmentDeposit(s)>>>>
                      \o (IF s.corp = None THEN <<>> ELSE CorporateLedger(s))
           asked == <<<<"attestation", s.corp # None
                          /\ AttestationRefused(WithShareholderK1s(s))>>>>
           elected == <<<<"position_election", /\ s.corp # None
                            /\ ElectionRefused(s, Reached(WithShareholderK1s(s)))>>>>
<1>1. Listing(own)
  <2>1. Listing(CorporateLedger(s)) /\ Listing(<<>>)
    BY ShortListings DEF CorporateLedger
  <2>2. Listing(<<<<"form_3115_in_amendment_packet", AmendmentChange(s)>>,
                  <<"direct_deposit_in_amendment_packet", AmendmentDeposit(s)>>>>)
    BY ShortListings
  <2>3. QED
    BY <2>1, <2>2, Joined
<1>2. Listing(asked) /\ Listing(elected)
  BY ShortListings
<1>3. EffectiveLedger(s) = ((own \o asked) \o ComputeLedger(s)) \o elected
  BY DEF EffectiveLedger
<1> HIDE DEF own, elected, asked
<1>4. Listing(own \o asked)
  BY <1>1, <1>2, Joined
<1>5. Passes((own \o asked) \o ComputeLedger(s)) /\ Passes(elected)
  <2>1. Listing((own \o asked) \o ComputeLedger(s))
    BY <1>4, ComputeListing, Joined
  <2>2. QED
    BY <1>2, <1>3, <2>1, Joined
<1>6. Passes(ComputeLedger(s))
  BY <1>4, <1>5, ComputeListing, Joined
<1>7. ~(s.corp # None /\ ElectionRefused(s, Reached(WithShareholderK1s(s))))
  BY <1>5, PassedEntries DEF elected
<1>8. QED
  BY <1>6, <1>7 DEF Elected

LEMMA BuildEffectiveKnown == ASSUME FInv, BuildEffective PROVE KnownInv'
<1>1. CASE Refuse(EffectiveLedger(scenario))
  BY <1>1, RefusedKnown
<1>2. CASE Proceed(EffectiveLedger(scenario), "guards", <<>>)
  <2>1. Passes(ComputeLedger(scenario)) /\ (scenario.corp # None => Elected(scenario))
    BY <1>2, EffectiveAsksAgain DEF Proceed
  <2>2. scenario.corp = None => Elected(scenario)
    BY DEF BuildEffective, Step, FInv, KnownInv, RouteInv
  <2>3. QED
    BY <1>2, <2>1, <2>2, UnstartedKnown DEF BuildEffective, Step, Unstarted
<1>3. QED
  BY <1>1, <1>2 DEF BuildEffective, Step

LEMMA GuardsKnown == ASSUME FInv, Guards PROVE KnownInv'
<1> DEFINE s == Effective(scenario)
           next == IF InSpineScope(s) THEN "income" ELSE "workbook"
<1>1. CASE Refuse(GuardLedger(s))
  BY <1>1, RefusedKnown
<1>2. CASE Proceed(GuardLedger(s), next, <<>>)
  <2>1. stage = "guards"
    BY DEF Guards, Step
  <2>2. GuardsPassed(scenario)
    BY <1>2, <2>1 DEF Proceed, FInv, KnownInv, RouteInv, GuardsPassed
  <2>3. QED
    BY <1>2, <2>1, <2>2, UnstartedKnown DEF Unstarted
<1>3. QED
  BY <1>1, <1>2 DEF Guards, Step

LEMMA IncomeStepKnown == ASSUME FInv, Income \/ EnterInputs PROVE KnownInv'
<1> DEFINE s == Effective(scenario)
           new == IncomeFigures(Routed(s))
           next == IF InSpineScope(s) THEN "deduct" ELSE "sheet"
           ledger == IF InSpineScope(s) THEN IncomeLedger(s) ELSE InputLedger(s)
<1>1. /\ stage \in {"income", "workbook"} /\ GuardsPassed(scenario) /\ DOMAIN figures = {}
      /\ Refuse(ledger) \/ Proceed(ledger, next, new)
  <2>1. CASE Income
    <3>1. InSpineScope(s) /\ GuardsPassed(scenario) /\ DOMAIN figures = {}
      BY <2>1 DEF Income, Step, FInv, KnownInv, RouteInv, Unstarted
    <3>2. QED
      BY <2>1, <3>1 DEF Income, Step, Routed
  <2>2. CASE EnterInputs
    <3>1. ~InSpineScope(s) /\ GuardsPassed(scenario) /\ DOMAIN figures = {}
      BY <2>2 DEF EnterInputs, Step, FInv, KnownInv, RouteInv, Unstarted
    <3>2. QED
      BY <2>2, <3>1 DEF EnterInputs, Step, Routed
  <2>3. QED
    BY <2>1, <2>2
<1>2. CASE Refuse(ledger)
  BY <1>2, RefusedKnown
<1>3. CASE Proceed(ledger, next, new)
  <2>1. figures' = Updated(figures, new)
    BY <1>3 DEF Proceed
  <2>2. IncomeKnown(scenario, figures') /\ DOMAIN figures' = IncomeNames
    <3>1. /\ InSpineScope(s) => Passes(IncomeLedger(s))
          /\ ~InSpineScope(s) => Passes(InputLedger(s))
      BY <1>3 DEF Proceed
    <3>2. QED
      BY <1>1, <2>1, <3>1, IncomeComputed
  <2>3. FiguresKnown(scenario, figures')
    BY <2>2 DEF FiguresKnown, IncomeNames
  <2> HIDE DEF s
  <2>4. RouteInv'
    BY <1>3, <2>2 DEF Proceed, RouteInv, Unstarted, IncomeNames, s
  <2>5. QED
    BY <1>1, <1>3, <2>3, <2>4, EarlyKnown DEF Proceed, Early
<1>4. QED
  BY <1>1, <1>2, <1>3

LEMMA DeductStepKnown == ASSUME FInv, Deduct \/ Recalculate PROVE KnownInv'
<1> DEFINE s == Effective(scenario)
           new == DeductFigures(Routed(s), figures)
           next == IF InSpineScope(s) THEN "spine" ELSE "answer"
           ledger == IF InSpineScope(s) THEN DeductLedger(s, figures, new) ELSE <<>>
<1>1. /\ stage \in {"deduct", "sheet"} /\ IncomeKnown(scenario, figures)
      /\ Refuse(ledger) \/ Proceed(ledger, next, new)
  <2>1. CASE Deduct
    <3>1. InSpineScope(s) /\ IncomeKnown(scenario, figures)
      BY <2>1 DEF Deduct, Step, FInv, KnownInv, RouteInv, FiguresKnown
    <3>2. QED
      BY <2>1, <3>1 DEF Deduct, Step, Routed
  <2>2. CASE Recalculate
    <3>1. ~InSpineScope(s) /\ IncomeKnown(scenario, figures)
      BY <2>2 DEF Recalculate, FInv, KnownInv, RouteInv, FiguresKnown
    <3>2. QED
      BY <2>2, <3>1 DEF Recalculate, Routed
  <2>3. QED
    BY <2>1, <2>2
<1>2. CASE Refuse(ledger)
  BY <1>2, RefusedKnown
<1>3. CASE Proceed(ledger, next, new)
  <2>1. figures' = Updated(figures, new)
    BY <1>3 DEF Proceed
  <2>2. InSpineScope(s) => Passes(DeductLedger(s, figures, new))
    BY <1>3 DEF Proceed
  <2>3. DeductionsKnown(scenario, figures') /\ DOMAIN new = DeductNames
    <3> HIDE DEF new
    <3>1. new = DeductFigures(Routed(s), figures)
      BY DEF new
    <3>2. QED
      BY <1>1, <2>1, <2>2, <3>1, DeductionsComputed
  <2>4. IncomeKnown(scenario, figures')
    BY <2>3 DEF DeductionsKnown
  <2>5. NoForms(figures) /\ DOMAIN figures' = DOMAIN figures \cup DeductNames
    BY <1>1, <2>1, <2>3, UpdatedLooksUp DEF FInv, IInv, Control, FiguresInv, Early
  <2>6. FiguresKnown(scenario, figures')
    BY <2>3, <2>4, <2>5 DEF FiguresKnown, NoForms, DeductNames
  <2> HIDE DEF s
  <2>7. RouteInv'
    BY <1>3, <2>5 DEF Proceed, RouteInv, Unstarted, DeductNames, s
  <2>8. QED
    BY <1>1, <1>3, <2>6, <2>7, EarlyKnown DEF Proceed, Early
<1>4. QED
  BY <1>1, <1>2, <1>3

\* The 1040 is computed, by the spine or the workbook.
LEMMA SpineStepKnown ==
  ASSUME FInv, stage \in {"spine", "answer"}, UNCHANGED <<scenario, printed, filed>>,
         stage' = AfterCompute, NEW new, figures' = Updated(figures, new),
         DOMAIN new = SpineNames, SpineKnown(scenario, figures')
  PROVE  KnownInv'
<1>1. NoForms(figures) /\ DOMAIN figures' = DOMAIN figures \cup SpineNames
  BY UpdatedLooksUp DEF FInv, IInv, Control, FiguresInv, Early
<1>2. DeductionsKnown(scenario, figures')
  BY DEF SpineKnown
<1>3. IncomeKnown(scenario, figures')
  BY <1>2 DEF DeductionsKnown
<1>4. FiguresKnown(scenario, figures')
  BY <1>1, <1>2, <1>3 DEF FiguresKnown, NoForms, SpineNames
<1>5. AfterCompute \in Late
  <2>1. scenario.command \in {"federal", "california", "amendment"}
    BY ScenarioFieldsThere DEF FInv, IInv, Control, StageInv, Early, Commands
  <2>2. QED
    BY <2>1 DEF AfterCompute, Late
<1>6. RouteInv'
  BY <1>5 DEF RouteInv, Unstarted, Late
<1>7. QED
  BY <1>4, <1>6, EarlyKnown DEF Early

LEMMA ComputeSpineKnown == ASSUME FInv, ComputeSpine PROVE KnownInv'
<1> DEFINE s == Effective(scenario)
           new == SpineFigures(s, figures)
<1>1. stage = "spine" /\ InSpineScope(s) /\ DeductionsKnown(scenario, figures)
  BY DEF ComputeSpine, Step, FInv, KnownInv, RouteInv, FiguresKnown
<1>2. CASE Refuse(SpineLedger(s, figures))
  BY <1>2, RefusedKnown
<1>3. CASE Proceed(SpineLedger(s, figures), AfterCompute, new)
  <2>1. SpineKnown(scenario, figures') /\ DOMAIN new = SpineNames
    BY <1>1, <1>3, SpineComputed, FigureNames DEF Proceed
  <2> HIDE DEF new
  <2>2. QED
    BY <1>1, <1>3, <2>1, SpineStepKnown DEF Proceed
<1>4. QED
  BY <1>2, <1>3 DEF ComputeSpine, Step

LEMMA ReadAnswerKnown == ASSUME FInv, ReadAnswer PROVE KnownInv'
<1> DEFINE s == Effective(scenario)
<1>1. PICK answer \in WorkbookAnswers :
        /\ Step("answer", AnswerLedger(s, figures, answer),
                AfterCompute, WorkbookFigures(s, figures, answer))
        /\ Sayable(s, answer)
  BY DEF ReadAnswer
<1> DEFINE new == WorkbookFigures(s, figures, answer)
           ledger == AnswerLedger(s, figures, answer)
<1>2. stage = "answer" /\ ~InSpineScope(s) /\ DeductionsKnown(scenario, figures)
  BY <1>1 DEF Step, FInv, KnownInv, RouteInv, FiguresKnown
<1>3. CASE Refuse(ledger)
  BY <1>3, RefusedKnown
<1>4. CASE Proceed(ledger, AfterCompute, new)
  <2>1. SpineKnown(scenario, figures') /\ DOMAIN new = SpineNames
    BY <1>1, <1>2, <1>4, AnswerComputed, FigureNames DEF Proceed
  <2> HIDE DEF new
  <2>2. QED
    BY <1>2, <1>4, <2>1, SpineStepKnown DEF Proceed
<1>5. QED
  BY <1>1, <1>3, <1>4 DEF Step

\* What a packet prepares before it renders a Form 1040.
LEMMA PrintedPrepares ==
  ASSUME NEW s, NEW f,
         Passes(ChangeLedger(s) \o EmitLedger(s, f) \o RenderLedger(s, f))
  PROVE  Passes(EmitLedger(s, f))
<1>1. Listing(RenderLedger(s, f))
  BY ShortListings DEF RenderLedger
<1>2. Listing(ChangeLedger(s) \o EmitLedger(s, f))
  BY ChangeListing, EmitListing, Joined
<1>3. Passes(ChangeLedger(s) \o EmitLedger(s, f))
  BY <1>1, <1>2, Joined
<1>4. QED
  BY <1>3, ChangeListing, EmitListing, Joined

LEMMA AttachedPrepares ==
  ASSUME NEW s, NEW f, Passes(AttachLedger(s, f))
  PROVE  Passes(EmitLedger(s, f))
<1> DEFINE old == EmitLedger(Effective(filed.scenario), filed.figures)
           statement == <<<<"unattached_8z_statement",
                            <<"sch_1", 0>> \in ChangedForms(s, f) /\ SeeStatement(s.g)>>>>
           rest == IF <<"1040", 0>> \in ChangedForms(s, f) THEN RenderLedger(s, f) ELSE <<>>
<1>1. Listing(old) /\ Listing(EmitLedger(s, f)) /\ Listing(old \o EmitLedger(s, f))
  BY EmitListing, Joined
<1>2. Listing(statement) /\ Listing(rest)
  BY ShortListings DEF RenderLedger
<1>3. AttachLedger(s, f) = ((old \o EmitLedger(s, f)) \o statement) \o rest
  BY DEF AttachLedger
<1> HIDE DEF old, statement, rest
<1>4. Passes((old \o EmitLedger(s, f)) \o statement)
  BY <1>1, <1>2, <1>3, Joined
<1>5. Passes(old \o EmitLedger(s, f))
  BY <1>1, <1>2, <1>4, Joined
<1>6. QED
  BY <1>1, <1>5, Joined

LEMMA PreparedKnown ==
  ASSUME FInv, NEW at, NEW ledger, NEW next, NEW forms, Write(at, ledger, next, forms),
         next \in Late \cup {"done"},
         Passes(ledger) => Passes(EmitLedger(Effective(scenario), figures))
  PROVE  KnownInv'
<1>1. CASE Refuse(ledger)
  BY <1>1, RefusedKnown
<1>2. CASE /\ Passes(ledger) /\ stage' = next
           /\ UNCHANGED <<scenario, refusal, figures, filed>>
  <2>1. RouteInv'
    BY <1>2 DEF RouteInv, Unstarted, Late
  <2>2. EmitInv'
    BY <1>2 DEF EmitInv
  <2>3. QED
    BY <1>2, <2>1, <2>2, KnownKept
<1>3. QED
  BY <1>1, <1>2 DEF Write

LEMMA PrintingKnown == ASSUME FInv, PrintFederal \/ Attach PROVE KnownInv'
<1>1. CASE PrintFederal
  BY <1>1, PrintedPrepares, PreparedKnown DEF PrintFederal, Late
<1>2. CASE Attach
  BY <1>2, AttachedPrepares, PreparedKnown DEF Attach, Late
<1>3. QED
  BY <1>1, <1>2

LEMMA WritingKnown ==
  ASSUME FInv, \/ PrintCorporate \/ PrintAudit
               \/ ScorpReturn \/ CAScorpReturn \/ CAScorpK1s
               \/ PrintCalifornia \/ Amend \/ AmendCalifornia
  PROVE  KnownInv'
<1>1. \A c : <<"1040", 0>> \notin CorporatePacket(c)
  BY CorporatePacketNames DEF CorporateNames
<1>2. /\ \A c : <<"1040", 0>> \notin CAScorpPacket(c) \cup CAPacket(c)
      /\ \A due : <<"1040", 0>> \notin Form("depreciation_audit", due)
      /\ <<"1040", 0>> \notin Sheets({"f1040x"}) \cup Sheets({"schedule_x"})
  BY DEF CAScorpPacket, CAPacket, Form, Sheets, CopiesOf
<1>3. CASE PrintCorporate
  BY <1>1, <1>3, WrittenKnown DEF PrintCorporate, Late
<1>4. CASE PrintAudit
  BY <1>2, <1>4, WrittenKnown DEF PrintAudit, Late
<1>5. CASE ScorpReturn
  BY <1>1, <1>5, WrittenKnown DEF ScorpReturn, Late
<1>6. CASE CAScorpReturn \/ CAScorpK1s
  BY <1>2, <1>6, FirstFormsOfPacket, WrittenKnown DEF CAScorpReturn, CAScorpK1s, Late
<1>7. CASE PrintCalifornia
  BY <1>2, <1>7, WrittenKnown DEF PrintCalifornia, Late
<1>8. CASE Amend
  BY <1>2, <1>8, WrittenKnown DEF Amend, Late
<1>9. CASE AmendCalifornia
  BY <1>2, <1>9, WrittenKnown DEF AmendCalifornia, Late
<1>10. QED
  BY <1>3, <1>4, <1>5, <1>6, <1>7, <1>8, <1>9

LEMMA ComputeCaliforniaKnown == ASSUME FInv, ComputeCalifornia PROVE KnownInv'
<1> DEFINE s == WithDepreciation(scenario)
           new == CaliforniaFigures(s, figures)
           ledger == CaliforniaLedger(s, figures, new)
<1>1. CASE Refuse(ledger)
  BY <1>1, RefusedKnown
<1>2. CASE /\ Passes(ledger) /\ figures' = Updated(figures, new)
           /\ stage' \in Late /\ UNCHANGED <<scenario, printed, filed>>
  <2>1. SpineKnown(scenario, figures)
    BY DEF ComputeCalifornia, Step, FInv, IInv, Control, FiguresInv, Late, KnownInv,
           FiguresKnown
  <2> HIDE DEF new
  <2>2. new = CaliforniaFigures(s, figures)
    BY DEF new
  <2>3. /\ SpineKnown(scenario, figures') /\ CaliforniaKnown(scenario, figures')
        /\ \A t : EmitLedger(t, figures') = EmitLedger(t, figures)
    BY <1>2, <2>1, <2>2, CaliforniaComputed
  <2>4. DeductionsKnown(scenario, figures')
    BY <2>3 DEF SpineKnown
  <2>5. IncomeKnown(scenario, figures')
    BY <2>4 DEF DeductionsKnown
  <2>6. FiguresKnown(scenario, figures')
    BY <2>3, <2>4, <2>5 DEF FiguresKnown
  <2>7. EmitInv' /\ FiledInv' /\ RouteInv'
    <3>1. EmitInv'
      BY <1>2, <2>3 DEF FInv, KnownInv, EmitInv, Printed
    <3>2. FiledInv'
      BY <1>2 DEF FInv, KnownInv, FiledInv, Correcting
    <3>3. RouteInv'
      BY <1>2 DEF RouteInv, Unstarted, Late
    <3>4. QED
      BY <3>1, <3>2, <3>3
  <2>8. QED
    BY <1>2, <2>6, <2>7 DEF KnownInv
<1>3. QED
  BY <1>1, <1>2 DEF ComputeCalifornia, Step, Proceed, Late

LEMMA FileKnown == ASSUME FInv, File PROVE KnownInv'
<1>1. /\ stage = "file" /\ stage' = "load" /\ figures' = <<>> /\ UNCHANGED printed
      /\ filed' = [scenario |-> scenario, figures |-> figures,
                   federal |-> FiledFigures(figures), california |-> FiledCA(figures)]
  BY DEF File
<1>2. "spine" \in DOMAIN figures /\ FiguresKnown(scenario, figures) /\ ~Printed("1040")
  BY <1>1 DEF FInv, IInv, Control, FiguresInv, PrintedInv, Late, KnownInv, Printed
<1>3. RouteInv' /\ FiguresKnown(scenario, figures)'
  BY <1>1, NothingKnown DEF RouteInv, Unstarted, FiguresKnown
<1>4. EmitInv'
  BY <1>1, <1>2 DEF EmitInv, Printed
<1>5. FiledInv'
  BY <1>1, <1>2 DEF FiledInv
<1>6. QED
  BY <1>3, <1>4, <1>5 DEF KnownInv

----------------------------------------------------------------------------
(* The invariant.                                                          *)

LEMMA KnownInit == Init => FInv
<1> SUFFICES ASSUME Init PROVE FInv
  OBVIOUS
<1>1. stage = "load" /\ figures = <<>> /\ printed = {} /\ ~Correcting
  BY NothingKnown DEF Init, Correcting
<1>2. KnownInv
  BY <1>1, NothingKnown
  DEF KnownInv, RouteInv, Unstarted, FiguresKnown, EmitInv, FiledInv, Printed
<1>3. QED
  BY <1>2, InitHolds DEF FInv

LEMMA KnownStep == FInv /\ [Next]_vars => FInv'
<1> SUFFICES ASSUME FInv, [Next]_vars PROVE FInv'
  OBVIOUS
<1>1. IInv'
  BY StepKeeps DEF FInv
<1>2. CASE Next
  <2>1. KnownInv'
    BY <1>2, LoadKnown, BuildEffectiveKnown, GuardsKnown, IncomeStepKnown,
       DeductStepKnown, ComputeSpineKnown, ReadAnswerKnown, PrintingKnown, WritingKnown,
       ComputeCaliforniaKnown, FileKnown
    DEF Next
  <2>2. QED
    BY <1>1, <2>1 DEF FInv
<1>3. CASE UNCHANGED vars
  <2>1. RouteInv' /\ EmitInv'
    BY <1>3 DEF vars, FInv, KnownInv, RouteInv, EmitInv, Printed
  <2>2. QED
    BY <1>1, <1>3, <2>1, KnownKept DEF vars, FInv
<1>4. QED
  BY <1>2, <1>3

\* Whatever a return shows was computed, by the stage that computes it, of
\* the scenario it is prepared for, with every refusal on the way passed; a
\* printed Form 1040 had the whole of its packet prepared; and an amendment
\* starts from the figures that were filed (orchestrator.py).
THEOREM FiguresAreComputed == Spec => []KnownInv
<1>1. Spec => []FInv
  BY KnownInit, KnownStep, PTL DEF Spec
<1>2. FInv => KnownInv
  BY DEF FInv
<1>3. QED
  BY <1>1, <1>2, PTL

----------------------------------------------------------------------------
(* What the refusals leave of a return.                                    *)

\* The assets of a return are those of its activities.
LEMMA AssetOfReturn ==
  ASSUME NEW s, TypedActivities(s)
  PROVE  /\ \A i \in 1 .. Len(s.rentals) : \A j \in 1 .. Len(s.rentals[i].assets) :
              s.rentals[i].assets[j] \in AssetsOf(s)
         /\ \A i \in 1 .. Len(s.businesses) : \A j \in 1 .. Len(s.businesses[i].assets) :
              s.businesses[i].assets[j] \in AssetsOf(s)
<1> DEFINE x == s.rentals
           y == s.businesses
           acts == x \o y
<1>1. IsList(x) /\ IsList(y)
  BY DEF TypedActivities, ListOf
<1>2. /\ \A i \in 1 .. Len(x) : TypedActivity(x[i])
      /\ \A i \in 1 .. Len(y) : TypedActivity(y[i])
  BY DEF TypedActivities, ListOf
<1>3. AssetsOf(s) = UNION {{acts[i].assets[j] : j \in DOMAIN acts[i].assets} : i \in DOMAIN acts}
  BY DEF AssetsOf, Activities4562
<1> HIDE DEF x, y
<1>4. /\ IsList(acts) /\ Len(acts) = Len(x) + Len(y)
      /\ \A i \in 1 .. Len(x) : acts[i] = x[i]
      /\ \A i \in 1 .. Len(y) : acts[Len(x) + i] = y[i]
  BY <1>1, JoinedList
<1> HIDE DEF acts
<1>5. /\ Len(x) \in Nat /\ Len(y) \in Nat /\ DOMAIN acts = 1 .. Len(acts)
  BY <1>1, <1>4 DEF IsList
<1>6. \A act : TypedActivity(act) => DOMAIN act.assets = 1 .. Len(act.assets)
  BY DEF TypedActivity, ListOf, IsList
<1>7. ASSUME NEW i \in 1 .. Len(x), NEW j \in 1 .. Len(x[i].assets)
      PROVE  x[i].assets[j] \in AssetsOf(s)
  <2>1. i \in DOMAIN acts /\ acts[i] = x[i] /\ j \in DOMAIN x[i].assets
    BY <1>2, <1>4, <1>5, <1>6
  <2>2. QED
    BY <1>3, <2>1
<1>8. ASSUME NEW i \in 1 .. Len(y), NEW j \in 1 .. Len(y[i].assets)
      PROVE  y[i].assets[j] \in AssetsOf(s)
  <2>1. Len(x) + i \in DOMAIN acts /\ acts[Len(x) + i] = y[i] /\ j \in DOMAIN y[i].assets
    BY <1>2, <1>4, <1>5, <1>6
  <2>2. QED
    BY <1>3, <2>1
<1>9. QED
  BY <1>7, <1>8 DEF x, y

\* What the depreciation entries ask of an asset that passed them.
LEMMA ShapePassed ==
  ASSUME NEW s, Passes(ShapeLedger(s))
  PROVE  \A a \in AssetsOf(s) :
           /\ a.class \in Classes /\ ~a.disposed
           /\ ~ConventionMissing(a, s.year) /\ ~ConventionInvalid(a, s.year)
<1>1. \A a, b, c, d, e, f, g, h, i, j, k, l, m, n, o :
        Passes(<<a, b, c, d, e, f, g, h, i, j, k, l, m, n, o>>) =>
          ~b[2] /\ ~e[2] /\ ~i[2] /\ ~j[2]
  <2> TAKE a, b, c, d, e, f, g, h, i, j, k, l, m, n, o
  <2> DEFINE whole == <<a, b, c, d, e, f, g, h, i, j, k, l, m, n, o>>
  <2>1. /\ 2 \in DOMAIN whole /\ 5 \in DOMAIN whole
        /\ 9 \in DOMAIN whole /\ 10 \in DOMAIN whole
        /\ whole[2] = b /\ whole[5] = e /\ whole[9] = i /\ whole[10] = j
    OBVIOUS
  <2> HIDE DEF whole
  <2>2. Passes(whole) => ~whole[2][2] /\ ~whole[5][2] /\ ~whole[9][2] /\ ~whole[10][2]
    BY <2>1, PassedEach
  <2>3. QED
    BY <2>1, <2>2 DEF whole
<1>2. /\ ~SomeAsset(s, UnknownClass) /\ ~SomeAsset(s, LAMBDA a : a.disposed)
      /\ ~SomeAsset(s, LAMBDA a : ConventionMissing(a, s.year))
      /\ ~SomeAsset(s, LAMBDA a : ConventionInvalid(a, s.year))
  BY <1>1 DEF ShapeLedger
<1>3. QED
  BY <1>2 DEF SomeAsset, UnknownClass

\* What is asked of the assets and of their resolver before a return is
\* computed.
LEMMA LoadAsked ==
  ASSUME NEW s, Passes(ComputeLedger(s))
  PROVE  Passes(ShapeLedger(s)) /\ Passes(ResolverLedger(s))
<1> DEFINE deposit == <<<<"direct_deposit", DepositRefused(s.deposit)>>>>
           shape == ShapeLedger(s)
           resolver == ResolverLedger(s)
           whole == WholeReturnLedger(s)
<1>1. /\ Listing(shape) /\ Listing(resolver) /\ Listing(whole)
      /\ Listing(ChangeLedger(s)) /\ Listing(deposit)
  BY ShapeListing, ChangeListing, ShortListings DEF ResolverLedger, WholeReturnLedger
<1>2. ComputeLedger(s) = (((shape \o resolver) \o whole) \o ChangeLedger(s)) \o deposit
  BY DEF ComputeLedger, DepreciationLedger
<1> HIDE DEF shape, resolver, whole, deposit
<1>3. Listing(shape \o resolver) /\ Listing((shape \o resolver) \o whole)
  BY <1>1, Joined
<1>4. Listing(((shape \o resolver) \o whole) \o ChangeLedger(s))
  BY <1>1, <1>3, Joined
<1>5. Passes(((shape \o resolver) \o whole) \o ChangeLedger(s))
  BY <1>1, <1>2, <1>4, Joined
<1>6. Passes((shape \o resolver) \o whole)
  BY <1>1, <1>3, <1>5, Joined
<1>7. Passes(shape \o resolver)
  BY <1>1, <1>3, <1>6, Joined
<1>8. QED
  BY <1>1, <1>7, Joined DEF shape, resolver

\* The assets of a return that passes the load-stage entries are ones the
\* engine can depreciate, none placed after the year.
LEMMA AcceptedDepreciable ==
  ASSUME NEW s, TypedScenario(s), Passes(ComputeLedger(s))
  PROVE  DepreciableReturn(s)
<1>1. Passes(ShapeLedger(s)) /\ Passes(ResolverLedger(s))
  BY LoadAsked
<1>2. ~SomeAsset(s, LAMBDA a : a.placed > s.year)
  <2>1. \A a, b, c, d : Passes(<<a, b, c, d>>) => ~a[2]
    BY DEF Passes, AnyOf, Offends
  <2>2. QED
    BY <1>1, <2>1 DEF ResolverLedger
<1>3. \A a \in AssetsOf(s) : ~(a.placed > s.year)
  BY <1>2 DEF SomeAsset
<1>4. \A a \in AssetsOf(s) : Computable(a, s.year)
  <2> SUFFICES ASSUME NEW a \in AssetsOf(s) PROVE Computable(a, s.year)
    OBVIOUS
  <2>1. /\ a.class \in Classes /\ ~a.disposed
        /\ ~ConventionMissing(a, s.year) /\ ~ConventionInvalid(a, s.year)
    BY <1>1, ShapePassed
  <2>2. StatesConvention(a, s.year) => ConventionUsable(a)
    BY <2>1 DEF ConventionMissing, ConventionInvalid
  <2>3. QED
    BY <2>1, <2>2 DEF Computable
<1>5. TypedActivities(s) /\ s.year \in Int
  BY DEF TypedScenario, TypedReturn
<1>6. ASSUME NEW act, TypedActivity(act),
             \A j \in 1 .. Len(act.assets) : act.assets[j] \in AssetsOf(s)
      PROVE  Depreciable(act, s.year)
  <2>1. \A j \in 1 .. Len(act.assets) : act.assets[j].placed \in Int
    BY <1>6 DEF TypedActivity, ListOf, TypedAsset
  <2>2. QED
    BY <1>3, <1>4, <1>5, <1>6, <2>1 DEF Depreciable
<1>7. QED
  BY <1>5, <1>6, AssetOfReturn DEF DepreciableReturn, TypedActivities, ListOf

----------------------------------------------------------------------------
(* The figures of a computed return are those of its scenario.             *)

\* A return that passed the load-stage entries is typed when its
\* corporation's K-1s and its depreciation are in, and when it is cut to the
\* cells of the workbook.
LEMMA EffectiveTyped ==
  ASSUME NEW sc, TypedScenario(sc), Passes(ComputeLedger(sc))
  PROVE  /\ TypedScenario(Effective(sc)) /\ TypedScenario(WithDepreciation(sc))
         /\ TypedScenario(Routed(Effective(sc)))
<1>1. DepreciableReturn(sc)
  BY AcceptedDepreciable
<1>2. TypedScenario(WithShareholderK1s(sc)) /\ DepreciableReturn(WithShareholderK1s(sc))
  BY <1>1, WithShareholderK1sTyped
<1>3. TypedScenario(Effective(sc))
  BY <1>2, WithDepreciationTyped DEF Effective
<1>4. TypedScenario(WithDepreciation(sc))
  BY <1>1, WithDepreciationTyped
<1>5. QED
  BY <1>3, <1>4, InWorkbookTyped DEF Routed

\* The scenario of a state, and the one that an amendment corrects.
LEMMA ScenarioTyped ==
  ASSUME ScenarioInv
  PROVE  TypedScenario(scenario) /\ (Correcting => TypedScenario(filed.scenario))
BY TypeAssumption DEF ScenarioInv

\* What is known of a computed return, by its route.
NativeKnown(sc, f) ==
  LET s == Effective(sc) IN
  /\ TypedScenario(s) /\ Routed(s) = s
  /\ Passes(GuardLedger(s)) /\ Passes(IncomeLedger(s))
  /\ Passes(DeductLedger(s, f, DeductFigures(s, f))) /\ Passes(SpineLedger(s, f))
  /\ Knows(f, IncomeFigures(s)) /\ Knows(f, DeductFigures(s, f)) /\ Knows(f, SpineFigures(s, f))
SheetKnown(sc, f, answer) ==
  LET s == Effective(sc) IN
  /\ TypedScenario(s) /\ TypedScenario(InWorkbook(s)) /\ Routed(s) = InWorkbook(s)
  /\ Passes(GuardLedger(s)) /\ Passes(InputLedger(s)) /\ Passes(AnswerLedger(s, f, answer))
  /\ Knows(f, IncomeFigures(InWorkbook(s))) /\ Knows(f, DeductFigures(InWorkbook(s), f))
  /\ Knows(f, WorkbookFigures(s, f, answer))

\* A computed 1040 comes from the native modules or from the workbook.
LEMMA ByRoute ==
  ASSUME NEW sc, NEW f, TypedScenario(sc), SpineKnown(sc, f)
  PROVE  \/ f.path = "native" /\ NativeKnown(sc, f)
         \/ /\ f.path = "workbook"
            /\ \E answer \in WorkbookAnswers : SheetKnown(sc, f, answer)
<1> DEFINE s == Effective(sc)
           new == DeductFigures(Routed(s), f)
<1>1. DeductionsKnown(sc, f)
  BY DEF SpineKnown
<1>2. /\ IncomeKnown(sc, f) /\ Knows(f, new)
      /\ InSpineScope(s) => Passes(DeductLedger(s, f, new))
  BY <1>1 DEF DeductionsKnown
<1>3. /\ Passes(ComputeLedger(sc)) /\ Passes(GuardLedger(s))
      /\ Knows(f, IncomeFigures(Routed(s)))
      /\ InSpineScope(s) => Passes(IncomeLedger(s))
      /\ ~InSpineScope(s) => Passes(InputLedger(s))
  BY <1>2 DEF IncomeKnown, GuardsPassed
<1>4. TypedScenario(s) /\ TypedScenario(Routed(s))
  BY <1>3, EffectiveTyped
<1>5. CASE InSpineScope(s)
  <2>1. Routed(s) = s /\ new = DeductFigures(s, f)
    BY <1>5 DEF Routed
  <2>2. Passes(SpineLedger(s, f)) /\ Knows(f, SpineFigures(s, f))
    BY <1>5 DEF SpineKnown
  <2>3. f.path = "native"
    <3>1. "path" \in DOMAIN SpineFigures(s, f) /\ SpineFigures(s, f)["path"] = "native"
      BY DEF SpineFigures
    <3>2. QED
      BY <2>2, <3>1 DEF Knows
  <2> HIDE DEF s, new
  <2>4. NativeKnown(sc, f)
    BY <1>2, <1>3, <1>4, <1>5, <2>1, <2>2 DEF NativeKnown, s
  <2>5. QED
    BY <2>3, <2>4
<1>6. CASE ~InSpineScope(s)
  <2>1. Routed(s) = InWorkbook(s) /\ new = DeductFigures(InWorkbook(s), f)
    BY <1>6 DEF Routed
  <2>2. PICK answer \in WorkbookAnswers :
          /\ Sayable(s, answer) /\ Passes(AnswerLedger(s, f, answer))
          /\ Knows(f, WorkbookFigures(s, f, answer))
    BY <1>6 DEF SpineKnown
  <2>3. f.path = "workbook"
    <3>1. /\ "path" \in DOMAIN WorkbookFigures(s, f, answer)
          /\ WorkbookFigures(s, f, answer)["path"] = "workbook"
      BY DEF WorkbookFigures
    <3>2. QED
      BY <2>2, <3>1 DEF Knows
  <2> HIDE DEF s, new
  <2>4. SheetKnown(sc, f, answer)
    BY <1>2, <1>3, <1>4, <1>6, <2>1, <2>2 DEF SheetKnown, s
  <2>5. QED
    BY <2>3, <2>4
<1>7. QED
  BY <1>5, <1>6

\* A computed return of a state.
LEMMA ComputedKnown ==
  ASSUME FInv, Computed
  PROVE  /\ TypedScenario(scenario) /\ SpineKnown(scenario, figures)
         /\ Passes(ComputeLedger(scenario)) /\ TypedScenario(Effective(scenario))
         /\ Passes(GuardLedger(Effective(scenario)))
<1>1. TypedScenario(scenario)
  BY ScenarioTyped DEF FInv, IInv, Control
<1>2. SpineKnown(scenario, figures)
  BY DEF FInv, KnownInv, FiguresKnown, Computed
<1>3. GuardsPassed(scenario)
  BY <1>2 DEF SpineKnown, DeductionsKnown, IncomeKnown
<1>4. QED
  BY <1>1, <1>2, <1>3, EffectiveTyped DEF GuardsPassed

\* And one computed natively.
LEMMA NativeComputed ==
  ASSUME FInv, Native
  PROVE  TypedScenario(scenario) /\ NativeKnown(scenario, figures)
BY ComputedKnown, ByRoute DEF Native

----------------------------------------------------------------------------
(* Excess business loss.                                                   *)

\* A sum of five.
LEMMA FiveSum ==
  ASSUME NEW a \in [1 .. 5 -> Int]
  PROVE  SumSeq(a) = a[1] + a[2] + a[3] + a[4] + a[5]
<1> DEFINE p == PartialSums(a)
<1>1. p[0] = 0 /\ \A k \in 0 .. 5 - 1 : p[k + 1] = p[k] + a[k + 1]
  BY AmountsAre
<1>2. SumSeq(a) = p[5]
  BY AmountsAre
<1>3. p[1] = p[0] + a[1] /\ p[2] = p[1] + a[2] /\ p[3] = p[2] + a[3]
  BY <1>1
<1>4. p[4] = p[3] + a[4] /\ p[5] = p[4] + a[5]
  BY <1>1
<1> HIDE DEF p
<1>5. a[1] \in Int /\ a[2] \in Int /\ a[3] \in Int /\ a[4] \in Int /\ a[5] \in Int
  OBVIOUS
<1>6. QED
  BY <1>1, <1>2, <1>3, <1>4, <1>5

\* A loss rounded on its line is within the dollars the guard counts of it.
LEMMA LossWithinDollars ==
  ASSUME NEW x \in Int
  PROVE  /\ Ceiling(Negative(x)) \in Nat /\ -Rounded(x) <= Ceiling(Negative(x))
         /\ \A y \in Int : -Rounded(x + y) <= Ceiling(Negative(x)) + Ceiling(Negative(y))
<1>1. ASSUME NEW z \in Int
      PROVE  /\ 100 * Rounded(z) - z \in -50 .. 50 /\ Rounded(z) \in Int
             /\ Ceiling(Negative(z)) \in Nat
             /\ 100 * Ceiling(Negative(z)) >= -z
  <2>1. 100 * Rounded(z) - z \in -50 .. 50 /\ Rounded(z) \in Int
    BY RoundedIsNearest
  <2>2. Negative(z) \in Nat /\ Negative(z) >= -z
    BY DEF Negative, Larger
  <2>3. \A n \in Nat : -((-n) \div 100) \in Nat /\ 100 * (-((-n) \div 100)) >= n
    OBVIOUS
  <2>4. QED
    BY <2>1, <2>2, <2>3 DEF Ceiling
<1> DEFINE r == Rounded(x)
           c == Ceiling(Negative(x))
<1>2. r \in Int /\ c \in Nat /\ 100 * r - x \in -50 .. 50 /\ 100 * c >= -x
  BY <1>1
<1> HIDE DEF r, c
<1>3. -r <= c
  BY <1>2
<1>4. ASSUME NEW y \in Int
      PROVE  -Rounded(x + y) <= c + Ceiling(Negative(y))
  <2> DEFINE q == Rounded(x + y)
             d == Ceiling(Negative(y))
  <2>1. q \in Int /\ d \in Nat /\ 100 * q - (x + y) \in -50 .. 50 /\ 100 * d >= -y
    BY <1>1
  <2> HIDE DEF q, d
  <2>2. -q <= c + d
    BY <1>2, <2>1
  <2>3. QED
    BY <2>2 DEF q, d
<1>5. QED
  BY <1>2, <1>3, <1>4 DEF r, c

\* A K-1's row loses no more than the guard counts of its boxes.
BoxLosses(k) == SumOf(BusinessBoxes(k), LAMBDA x : Ceiling(Negative(x)))
LEMMA RowWithinBoxes ==
  ASSUME NEW k, TypedK1(k)
  PROVE  BoxLosses(k) \in Nat /\ Negative(K1Row(k)) <= BoxLosses(k) /\ K1Row(k) \in Int
<1> DEFINE boxes == BusinessBoxes(k)
           a == [i \in DOMAIN boxes |-> Ceiling(Negative(boxes[i]))]
<1>1. /\ k.ordinary \in Int /\ k.rental \in Int /\ k.otherRental \in Int
      /\ k.royalties \in Int /\ k.otherIncome \in Int
  BY DEF TypedK1, K1Amounts8
<1>2. /\ DOMAIN boxes = 1 .. 5 /\ boxes[1] = k.ordinary /\ boxes[2] = k.rental
      /\ boxes[3] = k.otherRental /\ boxes[4] = k.royalties /\ boxes[5] = k.otherIncome
  BY DEF BusinessBoxes
<1>3. BoxLosses(k) = SumSeq(a)
  BY DEF BoxLosses, SumOf
<1>4. /\ a[1] = Ceiling(Negative(k.ordinary)) /\ a[2] = Ceiling(Negative(k.rental))
      /\ a[3] = Ceiling(Negative(k.otherRental)) /\ a[4] = Ceiling(Negative(k.royalties))
      /\ a[5] = Ceiling(Negative(k.otherIncome)) /\ DOMAIN a = 1 .. 5
      /\ a = [i \in 1 .. 5 |-> a[i]]
  BY <1>2
<1> HIDE DEF a, boxes
<1>5. a[1] \in Nat /\ a[2] \in Nat /\ a[3] \in Nat /\ a[4] \in Nat /\ a[5] \in Nat
  BY <1>1, <1>4, LossWithinDollars
<1>6. a \in [1 .. 5 -> Int]
  BY <1>4, <1>5
<1>7. SumSeq(a) = a[1] + a[2] + a[3] + a[4] + a[5]
  BY <1>6, FiveSum
<1> DEFINE o == Rounded(k.ordinary)
           r == Rounded(k.rental + k.otherRental)
           y == Rounded(k.royalties)
           i == Rounded(k.otherIncome)
<1>8. /\ o \in Int /\ r \in Int /\ y \in Int /\ i \in Int
      /\ -o <= a[1] /\ -r <= a[2] + a[3] /\ -y <= a[4] /\ -i <= a[5]
  <2>1. o \in Int /\ r \in Int /\ y \in Int /\ i \in Int
    BY <1>1, RoundedIsNearest
  <2>2. -o <= a[1] /\ -y <= a[4] /\ -i <= a[5]
    BY <1>1, <1>4, LossWithinDollars
  <2>3. -r <= a[2] + a[3]
    BY <1>1, <1>4, LossWithinDollars
  <2>4. QED
    BY <2>1, <2>2, <2>3
<1>9. K1Row(k) = o + r + y + i
  BY DEF K1Row
<1> HIDE DEF o, r, y, i
<1>10. K1Row(k) \in Int /\ Negative(K1Row(k)) <= SumSeq(a) /\ SumSeq(a) \in Nat
  BY <1>5, <1>7, <1>8, <1>9 DEF Negative, Larger
<1>11. QED
  BY <1>3, <1>10

\* The rows' losses, passive or not, add up to those of all the rows.
LEMMA RowLosses ==
  ASSUME NEW k1s, ListOf(k1s, TypedK1)
  PROVE  PartII(k1s).line31 = SumSeq([i \in 1 .. Len(k1s) |-> Negative(K1Row(k1s[i]))])
<1> DEFINE n == Len(k1s)
           P == {i \in DOMAIN k1s : ~k1s[i].material}
           M == {i \in DOMAIN k1s : k1s[i].material}
           a == [i \in 1 .. n |-> Negative(K1Row(k1s[i]))]
           p == [i \in 1 .. n |-> IF i \in P THEN a[i] ELSE 0]
           m == [i \in 1 .. n |-> IF i \in M THEN a[i] ELSE 0]
<1>1. n \in Nat /\ DOMAIN k1s = 1 .. n /\ \A i \in 1 .. n : TypedK1(k1s[i])
  BY DEF ListOf, IsList
<1>2. \A i \in 1 .. n : Negative(K1Row(k1s[i])) \in Int
  BY <1>1, K1RowType, LargerTypes
<1>3. a \in [1 .. n -> Int]
  BY <1>2
<1>4. ASSUME NEW S
      PROVE  RowLoss([i \in DOMAIN Kept(n, S) |-> k1s[Kept(n, S)[i]]])
               = SumSeq([i \in 1 .. n |-> IF i \in S THEN a[i] ELSE 0])
  <2> DEFINE kept == Kept(n, S)
             rows == [i \in DOMAIN kept |-> k1s[kept[i]]]
  <2>1. \A i \in DOMAIN kept : kept[i] \in 1 .. n
    <3>1. kept \in Seq(S \cap (1 .. n))
      BY <1>1, KeptAre
    <3> HIDE DEF kept, n
    <3>2. QED
      BY <3>1
  <2>2. RowLoss(rows) = SumSeq([i \in DOMAIN rows |-> Negative(K1Row(rows[i]))])
    BY DEF RowLoss, SumOf
  <2> HIDE DEF kept
  <2>3. [i \in DOMAIN rows |-> Negative(K1Row(rows[i]))] = [i \in DOMAIN kept |-> a[kept[i]]]
    BY <2>1
  <2> HIDE DEF rows, a
  <2>4. SumSeq([i \in DOMAIN kept |-> a[kept[i]]])
          = SumSeq([i \in 1 .. n |-> IF i \in S THEN a[i] ELSE 0])
    BY <1>1, <1>3, KeptSums DEF kept
  <2>5. QED
    BY <2>2, <2>3, <2>4 DEF rows, kept
<1>5. /\ Passive(k1s) = [i \in DOMAIN Kept(n, P) |-> k1s[Kept(n, P)[i]]]
      /\ Nonpassive(k1s) = [i \in DOMAIN Kept(n, M) |-> k1s[Kept(n, M)[i]]]
  BY DEF Passive, Nonpassive, Where, Selection
<1>6. RowLoss(Passive(k1s)) = SumSeq(p) /\ RowLoss(Nonpassive(k1s)) = SumSeq(m)
  BY <1>4, <1>5
<1>7. PartII(k1s).line31 = RowLoss(Passive(k1s)) + RowLoss(Nonpassive(k1s))
  BY PartIITypes
<1>8. p \in [1 .. n -> Int] /\ m \in [1 .. n -> Int] /\ \A i \in 1 .. n : a[i] = p[i] + m[i]
  <2>1. \A i \in 1 .. n : (i \in P /\ i \notin M) \/ (i \notin P /\ i \in M)
    BY <1>1
  <2> HIDE DEF P, M, a
  <2>2. QED
    BY <1>3, <2>1
<1>9. SumSeq(a) = SumSeq(p) + SumSeq(m)
  <2> HIDE DEF p, m, a, n
  <2>1. QED
    BY <1>1, <1>3, <1>8, SumAdds
<1>10. QED
  BY <1>6, <1>7, <1>9

\* The losses that a return deducts are within the ones the guard adds up.
Deducted(s) == SumOf(s.businesses, LAMBDA b : Negative(Line31(b)))
                 + PartI(s.rentals).line25 + PartII(s.k1s).line31
LEMMA DeductedWithinGuard ==
  ASSUME NEW s, TypedScenario(s)
  PROVE  Deducted(s) <= AggregateLosses(s) /\ Deducted(s) \in Nat /\ AggregateLosses(s) \in Nat
<1> DEFINE b == SumOf(s.businesses, LAMBDA x : Negative(Line31(x)))
           r == SumOf(s.rentals, LAMBDA x : Negative(RentalNet(x)))
           k == SumOf(s.k1s, LAMBDA x : SumOf(BusinessBoxes(x), LAMBDA y : Ceiling(Negative(y))))
           n == Len(s.k1s)
           rows == [i \in 1 .. n |-> Negative(K1Row(s.k1s[i]))]
           boxes == [i \in 1 .. n |-> BoxLosses(s.k1s[i])]
<1>1. /\ ListOf(s.rentals, TypedRental) /\ ListOf(s.rentals, TypedActivity)
      /\ ListOf(s.businesses, TypedBusiness) /\ ListOf(s.businesses, TypedActivity)
      /\ ListOf(s.k1s, TypedK1)
  BY DEF TypedScenario, TypedReturn, TypedActivities, TypedForms
<1>2. b \in Nat
  BY <1>1, BusinessTypes
<1>3. r \in Nat /\ PartI(s.rentals).line25 = r
  BY <1>1, PartITypes
<1>4. n \in Nat /\ DOMAIN s.k1s = 1 .. n /\ \A i \in 1 .. n : TypedK1(s.k1s[i])
  BY <1>1 DEF ListOf, IsList
<1>5. \A i \in 1 .. n : /\ BoxLosses(s.k1s[i]) \in Nat /\ Negative(K1Row(s.k1s[i])) \in Nat
                        /\ Negative(K1Row(s.k1s[i])) <= BoxLosses(s.k1s[i])
  BY <1>4, RowWithinBoxes, LargerTypes
<1>6. rows \in [1 .. n -> Nat] /\ boxes \in [1 .. n -> Nat] /\ \A i \in 1 .. n : rows[i] <= boxes[i]
  BY <1>5
<1>7. PartII(s.k1s).line31 = SumSeq(rows)
  BY <1>1, RowLosses
<1>8. k = SumSeq(boxes)
  BY <1>4 DEF SumOf, BoxLosses
<1>9. AggregateLosses(s) = b + k + r
  BY DEF AggregateLosses
<1>10. Deducted(s) = b + PartI(s.rentals).line25 + PartII(s.k1s).line31
  BY DEF Deducted
<1> HIDE DEF b, r, k, rows, boxes, n
<1>11. SumSeq(rows) \in Nat /\ SumSeq(boxes) \in Nat
  BY <1>4, <1>6, SumNatural
<1>12. SumSeq(rows) <= SumSeq(boxes)
  <2>1. rows \in [1 .. n -> Int] /\ boxes \in [1 .. n -> Int]
    BY <1>6
  <2>2. QED
    BY <1>4, <1>6, <2>1, SumMonotone
<1>13. QED
  BY <1>2, <1>3, <1>7, <1>8, <1>9, <1>10, <1>11, <1>12

\* No loss passes the guard unseen.
LEMMA ExcessSeen ==
  ASSUME FInv
  PROVE  ExcessLossSeen
<1> SUFFICES ASSUME Computed PROVE Deducted(Effective(scenario))
                                     <= ExcessLossThreshold[Effective(scenario).config.status]
  BY DEF ExcessLossSeen, Deducted
<1> DEFINE s == Effective(scenario)
<1>1. TypedScenario(s) /\ Passes(GuardLedger(s))
  BY ComputedKnown
<1>2. ~ExcessBusinessLoss(s)
  <2> DEFINE one == <<<<"excess_business_loss", ExcessBusinessLoss(s)>>,
    <<"excess_social_security", ExcessWithheld(s)>>,
    <<"spouse_birthdate", s.year >= 2025 /\ AgeUnknown(s.config)>>,
    <<"senior_deduction", SeniorDeduction(s)>>,
    <<"tax_family_size", s.block # None /\ FamilyUnknown(s.config)>>>>
             two == <<<<"credit_off_the_spine", s.block # None /\ ~InSpineScope(s)>>>>
  <2>1. Listing(one) /\ Listing(two) /\ Listing(SharedLedger(s))
    BY ShortListings DEF SharedLedger
  <2>2. GuardLedger(s) = (one \o SharedLedger(s)) \o two
    BY DEF GuardLedger
  <2>3. Listing(one \o SharedLedger(s))
    BY <2>1, Joined
  <2> HIDE DEF two
  <2>4. Passes(one)
    <3> HIDE DEF one
    <3>1. QED
      BY <1>1, <2>1, <2>2, <2>3, Joined
  <2>5. 1 \in DOMAIN one /\ one[1] = <<"excess_business_loss", ExcessBusinessLoss(s)>>
    OBVIOUS
  <2> HIDE DEF one
  <2>6. ~one[1][2]
    BY <2>4, <2>5, PassedEach
  <2>7. QED
    BY <2>5, <2>6
<1> HIDE DEF s
<1>3. Deducted(s) <= AggregateLosses(s) /\ Deducted(s) \in Nat /\ AggregateLosses(s) \in Nat
  BY <1>1, DeductedWithinGuard
<1>4. ExcessLossThreshold[s.config.status] \in Nat
  BY <1>1, TablesAssumption DEF TypedScenario
<1>5. AggregateLosses(s) <= ExcessLossThreshold[s.config.status]
  BY <1>2, <1>3, <1>4 DEF ExcessBusinessLoss
<1>6. QED
  BY <1>3, <1>4, <1>5 DEF s

----------------------------------------------------------------------------
(* The taxable refund of a prior deduction.                                *)

\* What a return keeps of the scenario when its corporation's K-1s and its
\* depreciation go in.
LEMMA EffectiveKeeps ==
  ASSUME NEW sc
  PROVE  LET s == Effective(sc) IN
         /\ s.prior = sc.prior /\ s.g = sc.g /\ s.config = sc.config
         /\ s.election = sc.election /\ s.year = sc.year
         /\ s.corp = sc.corp /\ s.ca = sc.ca
<1> DEFINE t == WithShareholderK1s(sc)
           s == Effective(sc)
<1>1. /\ t.prior = sc.prior /\ t.g = sc.g /\ t.config = sc.config
      /\ t.election = sc.election /\ t.year = sc.year
      /\ t.corp = sc.corp /\ t.ca = sc.ca
  BY DEF WithShareholderK1s
<1> HIDE DEF t
<1>2. /\ s.prior = t.prior /\ s.g = t.g /\ s.config = t.config
      /\ s.election = t.election /\ s.year = t.year
      /\ s.corp = t.corp /\ s.ca = t.ca
  BY DEF WithDepreciation, Effective, t
<1> HIDE DEF s
<1>3. QED
  BY <1>1, <1>2 DEF s

\* The income figures of a return computed natively.
LEMMA NativeIncome ==
  ASSUME NEW sc, NEW f, NativeKnown(sc, f)
  PROVE  LET s == Effective(sc) IN
         /\ f.income = IncomeOf(s) /\ f.gains = GainsOf(s, None) /\ f.sch1 = Schedule1Of(s)
         /\ f.preamble = Preamble(f.income, f.gains, f.sch1)
         /\ f.medicare = MedicareOf(s)
         /\ f.seTax = SETax(BusinessIncome(s.businesses), Wages(s))
<1> DEFINE s == Effective(sc)
           new == IncomeFigures(s)
<1>1. \A x \in DOMAIN new : f[x] = new[x]
  BY DEF NativeKnown, Knows
<1>2. /\ IncomeNames = DOMAIN new
      /\ new.income = IncomeOf(s) /\ new.gains = GainsOf(s, None) /\ new.sch1 = Schedule1Of(s)
      /\ new.preamble = Preamble(IncomeOf(s), GainsOf(s, None), Schedule1Of(s))
      /\ new.medicare = MedicareOf(s)
      /\ new.seTax = SETax(BusinessIncome(s.businesses), Wages(s))
  BY FigureNames DEF IncomeFigures
<1> HIDE DEF new, s
<1>3. /\ f.income = new.income /\ f.gains = new.gains /\ f.sch1 = new.sch1
      /\ f.preamble = new.preamble /\ f.medicare = new.medicare /\ f.seTax = new.seTax
  BY <1>1, <1>2 DEF IncomeNames
<1>4. QED
  BY <1>2, <1>3 DEF s

\* The refund taxed on Schedule 1 is what it saved.
LEMMA BenefitTaxed ==
  ASSUME FInv
  PROVE  TaxBenefit
<1> DEFINE s == Effective(scenario)
           prior == scenario.prior
           cap == View[scenario.config.status].priorSaltCap
           refund == SumOf(scenario.g, LAMBDA f : f.refund)
<1> SUFFICES ASSUME Native, scenario.prior.itemized
             PROVE  figures.sch1.line1 =
               Rounded(Smaller(refund, PriorDeduction(prior, PriorPaid(prior), cap)
                   - PriorDeduction(prior, Positive(PriorPaid(prior) - refund), cap)))
  BY DEF TaxBenefit
<1>1. TypedScenario(scenario) /\ TypedScenario(s) /\ figures.sch1 = Schedule1Of(s)
  BY NativeComputed, NativeIncome DEF NativeKnown
<1>2. s.prior = prior /\ s.g = scenario.g /\ s.config = scenario.config
  BY EffectiveKeeps
<1>3. figures.sch1.line1 = TaxableRefund(refund, prior, cap)
  <2>1. Schedule1Of(s).line1 = TaxableRefund(SumOf(s.g, LAMBDA f : f.refund), s.prior,
                                             View[s.config.status].priorSaltCap)
    BY <1>1, Schedule1Types
  <2>2. QED
    BY <1>1, <1>2, <2>1
<1>4. refund \in Int
  BY <1>1, RefundType
<1>5. /\ OrZero(prior.paid) \in Int /\ OrZero(prior.deduction) \in Int
      /\ OrZero(prior.standard) \in Int /\ cap \in Nat
  BY <1>1, PriorAmounts
<1> HIDE DEF s, cap, refund
<1>6. QED
  BY <1>3, <1>4, <1>5, RefundTaxesTheBenefit

----------------------------------------------------------------------------
(* The shareholders' shares.                                               *)

\* A corporation's K-1s add up to the corporation, a rounding a K-1 apart.
LEMMA SharesAddUp ==
  ASSUME NEW c, c # None, TypedCorporation(c)
  PROVE  LET whole == SumOf(c.shares, LAMBDA p : p)
             k1s == ShareholderK1s(c)
             qbi == IF c.qbiOverride = None THEN ScheduleK(c).line1 ELSE Rounded(c.qbiOverride)
         IN /\ Near(100 * SumOf(k1s, K1Row), ScheduleK(c).line1 * whole, 50 * Len(k1s))
            /\ Near(SumOf(k1s, LAMBDA k : k.qbi), qbi * whole, 50 * Len(k1s))
<1> DEFINE n == Len(c.shares)
           k1s == ShareholderK1s(c)
           line1 == ScheduleK(c).line1
           qbi == IF c.qbiOverride = None THEN line1 ELSE Rounded(c.qbiOverride)
           share == [i \in 1 .. n |-> c.shares[i]]
           rows == [i \in 1 .. n |-> K1Row(k1s[i])]
           boxes == [i \in 1 .. n |-> line1 * c.shares[i]]
           parts == [i \in 1 .. n |-> RoundedShare(c.shares[i], qbi, 100)]
           exact == [i \in 1 .. n |-> qbi * c.shares[i]]
           stated == [i \in 1 .. n |-> k1s[i].qbi]
<1>1. c.shares \in Seq(Int) /\ Optional(c.qbiOverride)
  BY DEF TypedCorporation, Amounts
<1>2. /\ line1 \in Int /\ Len(k1s) = n /\ IsList(k1s)
      /\ \A i \in 1 .. n : k1s[i] = ShareholderK1(Allocations(c)[i])
  BY ShareholderTyped DEF ListOf
<1>3. n \in Nat /\ DOMAIN c.shares = 1 .. n /\ \A i \in 1 .. n : c.shares[i] \in Int
  BY <1>1
<1>4. DOMAIN k1s = 1 .. n
  BY <1>3 DEF ShareholderK1s
<1>5. qbi \in Int
  BY <1>1, <1>2, RoundedIsNearest DEF Optional
<1>6. \A i \in 1 .. n :
        /\ Allocations(c)[i].box1 = line1 * c.shares[i]
        /\ Allocations(c)[i].qbi = RoundedShare(c.shares[i], qbi, 100)
  BY <1>3 DEF Allocations
<1>7. SumOf(c.shares, LAMBDA p : p) = SumSeq(share)
  BY <1>3 DEF SumOf
<1>8. SumOf(k1s, K1Row) = SumSeq(rows)
  BY <1>4 DEF SumOf
<1>9. SumOf(k1s, LAMBDA k : k.qbi) = SumSeq(stated)
  BY <1>4 DEF SumOf
<1> HIDE DEF line1, qbi, n
<1>10. \A x, y \in Int : x * y \in Int
  OBVIOUS
<1>11. share \in [1 .. n -> Int] /\ boxes \in [1 .. n -> Int] /\ exact \in [1 .. n -> Int]
  BY <1>2, <1>3, <1>5, <1>10
<1>12. \A i \in 1 .. n : /\ k1s[i].qbi = 100 * RoundedShare(c.shares[i], qbi, 100)
                         /\ K1Row(k1s[i]) = Rounded(line1 * c.shares[i])
  <2> SUFFICES ASSUME NEW i \in 1 .. n
               PROVE  /\ k1s[i].qbi = 100 * RoundedShare(c.shares[i], qbi, 100)
                      /\ K1Row(k1s[i]) = Rounded(line1 * c.shares[i])
    OBVIOUS
  <2> DEFINE box == line1 * c.shares[i]
  <2>1. k1s[i] = ShareholderK1(Allocations(c)[i])
    BY <1>2
  <2>2. /\ Allocations(c)[i].box1 = box
        /\ Allocations(c)[i].qbi = RoundedShare(c.shares[i], qbi, 100)
    BY <1>6
  <2>3. /\ k1s[i].ordinary = box /\ k1s[i].rental = 0 /\ k1s[i].otherRental = 0
        /\ k1s[i].royalties = 0 /\ k1s[i].otherIncome = 0
        /\ k1s[i].qbi = 100 * RoundedShare(c.shares[i], qbi, 100)
    BY <2>1, <2>2 DEF ShareholderK1
  <2>4. Rounded(0) = 0 /\ 0 + 0 = 0
    BY DEF Rounded
  <2>5. box \in Int
    BY <1>2, <1>3, <1>10
  <2> HIDE DEF box, k1s
  <2>6. Rounded(box) \in Int
    BY <2>5, RoundedIsNearest
  <2>7. K1Row(k1s[i]) = Rounded(box) + 0 + 0 + 0
    BY <2>3, <2>4 DEF K1Row
  <2>8. QED
    BY <2>3, <2>6, <2>7 DEF box
<1>13. /\ rows \in [1 .. n -> Int]
       /\ \A i \in 1 .. n : 100 * rows[i] - boxes[i] \in -50 .. 50
  <2>1. \A i \in 1 .. n : /\ Rounded(line1 * c.shares[i]) \in Int
                          /\ 100 * Rounded(line1 * c.shares[i]) - line1 * c.shares[i] \in -50 .. 50
    <3> TAKE i \in 1 .. n
    <3>1. line1 * c.shares[i] \in Int
      BY <1>2, <1>3, <1>10
    <3>2. QED
      BY <3>1, RoundedIsNearest
  <2> HIDE DEF k1s
  <2>2. \A i \in 1 .. n : rows[i] = Rounded(line1 * c.shares[i])
    BY <1>12
  <2>3. QED
    BY <2>1, <2>2
<1>14. /\ parts \in [1 .. n -> Int]
       /\ \A i \in 1 .. n : 100 * parts[i] - exact[i] \in -50 .. 50
       /\ stated \in [1 .. n -> Int] /\ \A i \in 1 .. n : stated[i] = 100 * parts[i]
  <2>1. \A i \in 1 .. n :
          /\ RoundedShare(c.shares[i], qbi, 100) \in Int
          /\ 100 * RoundedShare(c.shares[i], qbi, 100) - c.shares[i] * qbi \in -50 .. 50
    BY <1>3, <1>5, ShareWithinHalf
  <2>2. \A i \in 1 .. n : c.shares[i] * qbi = qbi * c.shares[i]
    <3>1. \A x, y \in Int : x * y = y * x
      OBVIOUS
    <3>2. QED
      BY <1>3, <1>5, <3>1
  <2>3. \A i \in 1 .. n : parts[i] = RoundedShare(c.shares[i], qbi, 100)
    OBVIOUS
  <2> HIDE DEF k1s
  <2>4. \A i \in 1 .. n : stated[i] = 100 * RoundedShare(c.shares[i], qbi, 100)
    BY <1>12
  <2>5. \A i \in 1 .. n : exact[i] = c.shares[i] * qbi
    BY <2>2
  <2>6. parts \in [1 .. n -> Int] /\ \A i \in 1 .. n : stated[i] \in Int
    BY <2>1, <2>4
  <2>7. stated \in [1 .. n -> Int]
    <3>1. stated = [i \in 1 .. n |-> stated[i]]
      OBVIOUS
    <3>2. QED
      BY <2>6, <3>1
  <2> HIDE DEF parts, exact, stated
  <2>8. QED
    BY <2>1, <2>3, <2>4, <2>5, <2>6, <2>7
<1>15. \A i \in 1 .. n : boxes[i] = line1 * share[i] /\ exact[i] = qbi * share[i]
  OBVIOUS
<1> HIDE DEF share, rows, boxes, parts, exact, stated, k1s
<1>16. 100 * SumSeq(rows) - SumSeq(boxes) \in -(50 * n) .. 50 * n
  BY <1>3, <1>11, <1>13, SumWithin
<1>17. 100 * SumSeq(parts) - SumSeq(exact) \in -(50 * n) .. 50 * n
  BY <1>3, <1>11, <1>14, SumWithin
<1>18. SumSeq(boxes) = line1 * SumSeq(share)
  BY <1>2, <1>3, <1>11, <1>15, SumScales
<1>19. SumSeq(exact) = qbi * SumSeq(share)
  BY <1>3, <1>5, <1>11, <1>15, SumScales
<1>20. SumSeq(stated) = 100 * SumSeq(parts)
  <2> DEFINE f == 100
  <2>1. f \in Int /\ \A i \in 1 .. n : stated[i] = f * parts[i]
    BY <1>14
  <2> HIDE DEF f
  <2>2. SumSeq(stated) = f * SumSeq(parts)
    BY <1>3, <1>14, <2>1, SumScales
  <2>3. QED
    BY <2>2 DEF f
<1>21. Near(100 * SumOf(k1s, K1Row), line1 * SumSeq(share), 50 * Len(k1s))
  BY <1>2, <1>8, <1>16, <1>18 DEF Near
<1>22. Near(SumSeq(stated), qbi * SumSeq(share), 50 * Len(k1s))
  BY <1>2, <1>17, <1>19, <1>20 DEF Near
<1>23. QED
  BY <1>7, <1>9, <1>21, <1>22 DEF k1s, line1, qbi

\* THEOREM K1SharesAddUp, at one state.
LEMMA SharesConserved ==
  ASSUME FInv
  PROVE  K1SharesConserve
<1>1. TypedCorporation(scenario.corp)
  BY ScenarioTyped DEF FInv, IInv, Control, TypedScenario, TypedReturn
<1>2. QED
  BY <1>1, SharesAddUp DEF K1SharesConserve

----------------------------------------------------------------------------
(* The deduction for business income.                                      *)

\* What the native stages ask of a return that passed them.
LEMMA IncomeAsked ==
  ASSUME NEW s, Passes(IncomeLedger(s))
  PROVE  /\ ~HealthRefused(s.businesses, s.health, HalfOf(s)) /\ ~AttestationRefused(s)
         /\ ~TooManyRentals(s.rentals) /\ ~JointScheduleC(s)
         /\ ~SERefused(BusinessIncome(s.businesses), s.w2s)
<1> DEFINE parts == PartIILedger(s) \o SecuritiesLedger(s)
           four == <<<<"four_rentals", TooManyRentals(s.rentals)>>>>
           business == BusinessLedger(s)
           back  == <<<<"se_health_limit", HealthRefused(s.businesses, s.health, HalfOf(s))>>,
                      <<"attestation", AttestationRefused(s)>>>>
<1>1. Listing(parts) /\ Listing(four) /\ Listing(business) /\ Listing(back)
  BY SharedListings, Joined, ShortListings
<1>2. IncomeLedger(s) = ((parts \o four) \o business) \o back
  BY DEF IncomeLedger
<1> HIDE DEF parts
<1>3. Listing(parts \o four) /\ Listing((parts \o four) \o business)
  BY <1>1, Joined
<1>4. Passes((parts \o four) \o business) /\ Passes(back)
  BY <1>1, <1>2, <1>3, Joined
<1>5. Passes(parts \o four) /\ Passes(business)
  BY <1>1, <1>3, <1>4, Joined
<1>6. Passes(four)
  BY <1>1, <1>5, Joined
<1>7. \A a, b, c : Passes(<<a, b, c>>) => ~a[2] /\ ~b[2] /\ ~c[2]
  BY DEF Passes, AnyOf, Offends
<1>8. ~JointScheduleC(s) /\ ~SERefused(BusinessIncome(s.businesses), s.w2s)
  BY <1>5, <1>7 DEF BusinessLedger
<1>9. QED
  BY <1>4, <1>6, <1>8, PassedEntries

\* What the refusals of the deduction stage leave.
LEMMA DeductAsked ==
  ASSUME NEW s, NEW f, NEW new, Passes(DeductLedger(s, f, new))
  PROVE  /\ ~F8995Refused(QBIInputs(s), new.taxable,
                          Acknowledged(s, "acknowledges_qbi_below_threshold"), s.config.status)
         /\ ~PassiveLossRefused(new.f8582)
         /\ ~CharitableRefused(s.charitable, new.schA.line17, s.config)
<1> DEFINE ages == <<<<"spouse_birthdate", AgeUnknown(s.config)>>,
                     <<"schedule_r", ScheduleRPossible(s, f.preamble.agi)>>>>
           schA == ScheduleALedger(s, EffectiveItemized(s), f.preamble.agi)
           three == <<<<"charitable_nonitemizer",
                        CharitableRefused(s.charitable, new.schA.line17, s.config)>>,
                      <<"exempt_interest_beside_credit", s.block # None /\ s.exempt # 0>>,
                      <<"unemployment_rule", s.block # None /\ UnemploymentMismatch(s.block)>>>>
           qbi == QBILedger(s, new.taxable)
           loss == <<<<"passive_loss", PassiveLossRefused(new.f8582)>>>>
<1>1. Listing(ages) /\ Listing(schA) /\ Listing(three) /\ Listing(qbi) /\ Listing(loss)
  BY ShortListings DEF ScheduleALedger, QBILedger
<1>2. DeductLedger(s, f, new) = (((ages \o schA) \o three) \o qbi) \o loss
  BY DEF DeductLedger
<1> HIDE DEF ages, schA
<1>3. Listing(ages \o schA)
  BY <1>1, Joined
<1>4. Listing((ages \o schA) \o three)
  BY <1>1, <1>3, Joined
<1>5. Listing(((ages \o schA) \o three) \o qbi)
  BY <1>1, <1>4, Joined
<1>6. Passes(((ages \o schA) \o three) \o qbi) /\ Passes(loss)
  BY <1>1, <1>2, <1>5, Joined
<1>7. Passes((ages \o schA) \o three) /\ Passes(qbi)
  BY <1>1, <1>4, <1>6, Joined
<1>8. Passes(three)
  BY <1>1, <1>3, <1>7, Joined
<1>9. \A a, b, c : Passes(<<a, b, c>>) => ~a[2] /\ ~b[2] /\ ~c[2]
  BY DEF Passes, AnyOf, Offends
<1>10. ~CharitableRefused(s.charitable, new.schA.line17, s.config)
  BY <1>8, <1>9
<1>11. QED
  BY <1>6, <1>7, <1>10, PassedEntries DEF QBILedger

\* And what the workbook's stages ask.
LEMMA InputAsked ==
  ASSUME NEW s, Passes(InputLedger(s))
  PROVE  /\ ~FactsUnusable(s) /\ s.businesses = <<>> /\ s.health = 0 /\ ~UnmappedW2s(s)
<1>1. \A k, a, l, b, m, c, n, d :
        Passes(<<<<k, a>>, <<l, b>>, <<m, c>>, <<n, d>>>>) => ~a /\ ~b /\ ~c /\ ~d
  BY DEF Passes, AnyOf, Offends
<1>2. QED
  BY <1>1, Zenon DEF InputLedger

\* The figures of the deductions of a return computed natively.
LEMMA NativeDeductions ==
  ASSUME NEW sc, NEW f, NativeKnown(sc, f)
  PROVE  LET s == Effective(sc)
             new == DeductFigures(s, f)
         IN /\ f.schA = new.schA /\ f.deduction = new.deduction /\ f.taxable = new.taxable
            /\ f.ptc = new.ptc /\ f.qbi = new.qbi /\ f.consulted = new.consulted
            /\ f.f8582 = new.f8582
<1> DEFINE new == DeductFigures(Effective(sc), f)
<1>1. (\A x \in DOMAIN new : f[x] = new[x]) /\ DOMAIN new = DeductNames
  BY FigureNames DEF NativeKnown, Knows
<1> HIDE DEF new
<1>2. QED
  BY <1>1 DEF new, DeductNames

\* Form 8995 carries the whole of the income, each reduction once.
LEMMA QBICarried ==
  ASSUME FInv, Native
  PROVE  LET c == QBIInputs(Effective(scenario)) IN
         Near(100 * figures.qbi.line2, QBIBeforeRounding(c),
              50 * Len(BusinessRows(c) \o K1Rows8995(c)))
<1> DEFINE s == Effective(scenario)
           c == QBIInputs(s)
           new == DeductFigures(s, figures)
<1>1. NativeKnown(scenario, figures)
  BY NativeComputed
<1>2. TypedScenario(s) /\ Passes(IncomeLedger(s)) /\ Passes(DeductLedger(s, figures, new))
  BY <1>1 DEF NativeKnown
<1>3. figures.qbi = new.qbi
  BY <1>1, NativeDeductions
<1>4. new.qbi.line2 = QBITotal(c)
  BY DEF DeductFigures, F8995
<1>5. /\ ~HealthRefused(s.businesses, s.health, HalfOf(s))
      /\ ~F8995Refused(c, new.taxable, Acknowledged(s, "acknowledges_qbi_below_threshold"),
                       s.config.status)
  BY <1>2, IncomeAsked, DeductAsked
<1>6. /\ TypedInputs(c) /\ Len(c.businesses) = Len(s.businesses) /\ c.health = s.health
      /\ SumSeq(NetsOf(c)) <= 0 => c.half = 0
  BY <1>2, QBIInputsTyped
<1> HIDE DEF s, c, new
<1>7. Divisible(c) /\ ~HealthQBIRefused(c)
  BY <1>5 DEF F8995Refused, Divisible
<1>8. ~(Len(ActiveBusinesses(c)) <= 1) => HealthShare(c) = 0
  <2>1. SUFFICES ASSUME ~(Len(ActiveBusinesses(c)) <= 1) PROVE c.health = 0
    BY DEF HealthShare
  <2>2. Len(ActiveBusinesses(c)) \in Nat
    BY <1>6, ActiveCount
  <2>3. QED
    BY <1>5, <2>1, <2>2 DEF F8995Refused
<1>9. Near(100 * QBITotal(c), QBIBeforeRounding(c),
            50 * Len(BusinessRows(c) \o K1Rows8995(c)))
  BY <1>6, <1>7, <1>8, QBICarries
<1>10. QED
  BY <1>3, <1>4, <1>9 DEF c, s

\* The side elected is the side the return was computed by.
LEMMA SideConsulted ==
  ASSUME FInv, Computed
  PROVE  figures.consulted = scenario.election
<1> DEFINE t == WithShareholderK1s(scenario)
           s == Effective(scenario)
<1>1. TypedScenario(scenario) /\ SpineKnown(scenario, figures)
  BY ComputedKnown
<1>2. Elected(scenario)
  BY <1>1 DEF SpineKnown, DeductionsKnown, IncomeKnown, GuardsPassed
<1>3. scenario.election # "none" => Reached(t)
  BY <1>2 DEF Elected, ElectionRefused
<1>4. s.election = scenario.election
  BY EffectiveKeeps
<1>5. Reached(t) = Reached(s)
  <2>1. s.health = t.health /\ s.k1s = t.k1s
    BY DEF Effective, WithDepreciation
  <2>2. (s.businesses = <<>>) = (t.businesses = <<>>)
    <3>1. DOMAIN s.businesses = DOMAIN t.businesses
      BY DEF Effective, WithDepreciation
    <3>2. TypedActivities(t) /\ TypedActivities(s)
      <4>1. TypedScenario(s)
        BY ComputedKnown
      <4>2. TypedScenario(t)
        BY <1>1, ComputedKnown, AcceptedDepreciable, WithShareholderK1sTyped
      <4>3. QED
        BY <4>1, <4>2 DEF TypedScenario, TypedReturn
    <3>3. IsList(t.businesses) /\ IsList(s.businesses)
      BY <3>2 DEF TypedActivities, ListOf
    <3>4. ASSUME NEW x, IsList(x) PROVE (x = <<>>) = (DOMAIN x = {})
      <4>1. x = <<>> => DOMAIN x = {}
        OBVIOUS
      <4>2. DOMAIN x = {} => x = <<>>
        <5>1. DOMAIN x = 1 .. Len(x) /\ Len(x) \in Nat
          BY <3>4 DEF IsList
        <5>2. x \in Seq({x[i] : i \in DOMAIN x})
          <6>1. x \in [1 .. Len(x) -> {x[i] : i \in DOMAIN x}]
            BY <3>4, <5>1 DEF IsList
          <6>2. QED
            BY <5>1, <6>1
        <5>3. DOMAIN x = {} => Len(x) = 0
          BY <5>1
        <5>4. QED
          BY <5>2, <5>3
      <4>3. QED
        BY <4>1, <4>2
    <3>5. QED
      BY <3>1, <3>3, <3>4
  <2> HIDE DEF s, t
  <2>3. QED
    BY <2>1, <2>2 DEF Reached, ScorpShape
<1>6. CASE InSpineScope(s)
  <2>1. figures.consulted = Consulted(s)
    <3>1. Knows(figures, DeductFigures(s, figures))
      BY <1>1, <1>6 DEF SpineKnown, DeductionsKnown, Routed
    <3>2. /\ "consulted" \in DOMAIN DeductFigures(s, figures)
          /\ DeductFigures(s, figures)["consulted"] = Consulted(s)
      BY DEF DeductFigures
    <3>3. QED
      BY <3>1, <3>2 DEF Knows
  <2>2. QED
    BY <1>3, <1>4, <1>5, <2>1 DEF Consulted
<1>7. CASE ~InSpineScope(s)
  <2> DEFINE w == InWorkbook(s)
  <2>1. figures.consulted = Consulted(w)
    <3>1. Knows(figures, DeductFigures(w, figures))
      BY <1>1, <1>7 DEF SpineKnown, DeductionsKnown, Routed
    <3>2. /\ "consulted" \in DOMAIN DeductFigures(w, figures)
          /\ DeductFigures(w, figures)["consulted"] = Consulted(w)
      BY DEF DeductFigures
    <3>3. QED
      BY <3>1, <3>2 DEF Knows
  <2>2. Passes(InputLedger(s))
    BY <1>1, <1>7 DEF SpineKnown, DeductionsKnown, IncomeKnown
  <2>3. s.health = 0
    BY <2>2, InputAsked
  <2>4. ~Reached(s)
    BY <2>3 DEF Reached
  <2>5. scenario.election = "none"
    BY <1>3, <1>5, <2>4
  <2>6. w.election = "none"
    <3>1. "election" \in DOMAIN s
      <4>1. TypedScenario(s)
        BY ComputedKnown
      <4>2. QED
        BY <4>1 DEF TypedScenario, TypedReturn, ReturnFields
    <3> HIDE DEF s
    <3>2. QED
      BY <3>1 DEF InWorkbook
  <2>7. QED
    BY <2>1, <2>5, <2>6 DEF Consulted
<1>8. QED
  BY <1>6, <1>7

\* THEOREM QBIReducedEverywhere, at one state.
LEMMA QBIReduced ==
  ASSUME FInv
  PROVE  QBIReducedOnce
BY QBICarried, SideConsulted DEF QBIReducedOnce

----------------------------------------------------------------------------
(* Capital losses carried over.                                            *)

\* The income figures of a return, on either route, are amounts; so are
\* those of its deductions.
LEMMA IncomeFiguresTyped ==
  ASSUME NEW sc, TypedScenario(sc), NEW f, IncomeKnown(sc, f)
  PROVE  LET w == Routed(Effective(sc)) IN
         /\ TypedScenario(w) /\ TypedIncome(f)
         /\ f.gains = ScheduleD(f.gains.line7, f.gains.line15, None)
<1> DEFINE w == Routed(Effective(sc))
           new == IncomeFigures(w)
<1>1. TypedScenario(w)
  BY EffectiveTyped DEF IncomeKnown, GuardsPassed
<1>2. (\A x \in DOMAIN new : f[x] = new[x]) /\ DOMAIN new = IncomeNames
  BY FigureNames DEF IncomeKnown, Knows
<1>3. TypedIncome(new) /\ new.gains = GainsOf(w, None)
  BY <1>1, IncomeTypes DEF IncomeFigures
<1>4. new.gains = ScheduleD(new.gains.line7, new.gains.line15, None)
  BY <1>1, <1>3, GainsTypes
<1> HIDE DEF w, new
<1>5. /\ f.income = new.income /\ f.gains = new.gains /\ f.sch1 = new.sch1
      /\ f.preamble = new.preamble /\ f.medicare = new.medicare /\ f.seTax = new.seTax
  BY <1>2 DEF IncomeNames
<1>6. TypedIncome(f)
  BY <1>3, <1>5 DEF TypedIncome
<1>7. QED
  BY <1>1, <1>4, <1>5, <1>6 DEF w

\* The figures of the deduction stage are whole numbers.
LEMMA DeductFiguresTyped ==
  ASSUME NEW sc, TypedScenario(sc), NEW f, DeductionsKnown(sc, f)
  PROVE  /\ f.deduction \in Int /\ f.taxable \in Int
         /\ f.ptc.line26 \in Nat /\ f.ptc.line29 \in Nat
<1> DEFINE w == Routed(Effective(sc))
           new == DeductFigures(w, f)
<1>1. TypedScenario(w) /\ TypedIncome(f)
  BY IncomeFiguresTyped DEF DeductionsKnown
<1>2. (\A x \in DOMAIN new : f[x] = new[x]) /\ DOMAIN new = DeductNames
  BY FigureNames DEF DeductionsKnown, Knows
<1>3. /\ new.deduction \in Int /\ new.taxable \in Int
      /\ new.ptc.line26 \in Nat /\ new.ptc.line29 \in Nat
  BY <1>1, DeductTypes
<1> HIDE DEF new
<1>4. QED
  BY <1>2, <1>3 DEF DeductNames

\* Schedule D carries forward what it did not use.
LEMMA LossCarried ==
  ASSUME FInv
  PROVE  CarryforwardConservesLoss
<1> SUFFICES ASSUME "taxable" \in DOMAIN figures
             PROVE  LET g == figures.gains
                        d == ScheduleD(g.line7, g.line15, figures.taxable)
                    IN /\ d.carry.short + d.carry.long = d.line21 - d.line16
                       /\ d.carry.short <= Negative(g.line7)
                       /\ d.carry.long <= Negative(g.line15)
                       /\ ScheduleDRefused(d.line16, figures.taxable)
                            \/ d.carry = Worksheet(g.line7, g.line15, figures.taxable)
  BY DEF CarryforwardConservesLoss
<1>1. TypedScenario(scenario) /\ DeductionsKnown(scenario, figures)
  BY ScenarioTyped DEF FInv, IInv, Control, KnownInv, FiguresKnown
<1>2. figures.taxable \in Int
  BY <1>1, DeductFiguresTyped
<1>3. figures.gains.line7 \in Int /\ figures.gains.line15 \in Int
  BY <1>1, IncomeFiguresTyped DEF DeductionsKnown, TypedIncome
<1>4. LossLimit \in Nat /\ figures.taxable # None
  BY <1>2, LossLimitAssumption, NoneAssumption
<1>5. QED
  BY <1>2, <1>3, <1>4, CarryforwardConserves

----------------------------------------------------------------------------
(* The 1040 of either route.                                               *)

\* What the workbook's answer is not refused for.
LEMMA AnswerAsked ==
  ASSUME NEW s, NEW f, NEW answer, Passes(AnswerLedger(s, f, answer))
  PROVE  Answered(answer.caption) /\ answer.probe = None
<1>1. \A a, b, c, d, e :
        Passes(<<a, b, c, d, e>>) => ~a[2] /\ ~b[2] /\ ~c[2] /\ ~d[2] /\ ~e[2]
  BY DEF Passes, AnyOf, Offends
<1>2. ~Declined(answer.caption) /\ ~ProbeRefused(answer.probe)
  BY <1>1 DEF AnswerLedger
<1>3. QED
  BY <1>2 DEF Declined, Answered, ProbeRefused

\* The amounts the lines of a 1040 are worked out from, on either route.
LEMMA SpineInputs ==
  ASSUME NEW sc, TypedScenario(sc), NEW f, DeductionsKnown(sc, f)
  PROVE  LET w == Routed(Effective(sc)) IN
         /\ TypedScenario(w) /\ TypedIncome(f)
         /\ f.deduction \in Int /\ f.ptc.line26 \in Nat /\ f.ptc.line29 \in Nat
         /\ f.ptc = CreditOf(w, f.preamble.agi) /\ f.medicare = MedicareOf(w)
         /\ f.seTax = SETax(BusinessIncome(w.businesses), Wages(w))
         /\ f.income = IncomeOf(w)
         /\ f.sch1 = Schedule1Of(w)
         /\ f.preamble = Preamble(f.income, f.gains, f.sch1)
         /\ w.config.status \in DOMAIN View
         /\ PaidOf(w).w2 \in Int /\ PaidOf(w).other \in Int /\ PaidOf(w).estimated \in Int
         /\ Divisible(QBIInputs(w)) => f.qbi.line15 \in Nat
<1> DEFINE w == Routed(Effective(sc))
           income == IncomeFigures(w)
           new == DeductFigures(w, f)
<1>1. TypedScenario(w) /\ TypedIncome(f)
  BY IncomeFiguresTyped DEF DeductionsKnown
<1>2. /\ \A x \in DOMAIN new : f[x] = new[x]
      /\ \A x \in DOMAIN income : f[x] = income[x]
  BY DEF DeductionsKnown, IncomeKnown, Knows
<1>3. DOMAIN new = DeductNames /\ DOMAIN income = IncomeNames
  BY FigureNames
<1>4. /\ income.medicare = MedicareOf(w) /\ income.income = IncomeOf(w)
      /\ income.seTax = SETax(BusinessIncome(w.businesses), Wages(w))
      /\ income.sch1 = Schedule1Of(w) /\ income.gains = GainsOf(w, None)
      /\ income.preamble = Preamble(income.income, income.gains, income.sch1)
  BY DEF IncomeFigures
<1>5. new.ptc = CreditOf(w, f.preamble.agi)
  BY DEF DeductFigures
<1>6. /\ new.deduction \in Int /\ new.ptc.line26 \in Nat /\ new.ptc.line29 \in Nat
      /\ Divisible(QBIInputs(w)) => new.qbi.line15 \in Nat
  BY <1>1, DeductTypes
<1>7. /\ PaidOf(w).w2 \in Int /\ PaidOf(w).other \in Int /\ PaidOf(w).estimated \in Int
      /\ w.config.status \in DOMAIN View
  BY <1>1, WageTypes, TablesAssumption DEF TypedScenario
<1> HIDE DEF w, new, income
<1>8. /\ f.deduction = new.deduction /\ f.ptc = new.ptc /\ f.qbi = new.qbi
  BY <1>2, <1>3 DEF DeductNames
<1>9. /\ f.medicare = income.medicare /\ f.income = income.income /\ f.seTax = income.seTax
      /\ f.sch1 = income.sch1 /\ f.gains = income.gains /\ f.preamble = income.preamble
  BY <1>2, <1>3 DEF IncomeNames
<1>10. QED
  BY <1>1, <1>4, <1>5, <1>6, <1>7, <1>8, <1>9 DEF w

\* The 1040 of a native return foots.
LEMMA NativeSpineIs ==
  ASSUME NEW sc, TypedScenario(sc), NEW f, SpineKnown(sc, f), NativeKnown(sc, f)
  PROVE  LET p == f.spine IN
         /\ Footed(p) /\ p.line37 = Positive(p.line24 - p.line33)
         /\ p.line9 = f.preamble.total /\ p.line11 = f.preamble.agi
         /\ p.line17 = f.ptc.line29 /\ p.line23 = f.medicare.line18 + f.seTax
<1> DEFINE s == Effective(sc)
           new == SpineFigures(s, f)
           eic == EarnedIncomeCredit(TentativeOf(s, f), s.facts, s.config)
<1>1. Routed(s) = s /\ Passes(DeductLedger(s, f, DeductFigures(s, f)))
  BY DEF NativeKnown
<1>2. /\ TypedScenario(s) /\ TypedIncome(f)
      /\ f.deduction \in Int /\ f.ptc.line26 \in Nat /\ f.ptc.line29 \in Nat
      /\ s.config.status \in DOMAIN View
      /\ PaidOf(s).w2 \in Int /\ PaidOf(s).other \in Int /\ PaidOf(s).estimated \in Int
      /\ Divisible(QBIInputs(s)) => f.qbi.line15 \in Nat
  BY <1>1, SpineInputs DEF SpineKnown
<1>3. Divisible(QBIInputs(s))
  BY <1>1, DeductAsked DEF F8995Refused, Divisible
<1>4. eic \in Nat
  BY <1>2, CreditType
<1>5. f.spine = Spine(f.preamble, s.config.status, f.deduction, f.qbi.line15,
                      f.income.qualified, f.medicare, f.seTax, f.ptc, eic, PaidOf(s))
  <2>1. "spine" \in DOMAIN new /\ \A x \in DOMAIN new : f[x] = new[x]
    BY DEF NativeKnown, Knows, SpineFigures
  <2>2. new.spine = Spine(f.preamble, s.config.status, f.deduction, f.qbi.line15,
                      f.income.qualified, f.medicare, f.seTax, f.ptc, eic, PaidOf(s))
    BY DEF SpineFigures
  <2>3. QED
    BY <2>1, <2>2
<1> HIDE DEF s, new, eic
<1>6. /\ f.preamble.agi \in Int /\ f.preamble.netGain \in Int /\ f.income.qualified \in Int
      /\ f.medicare.line18 \in Nat /\ f.medicare.line24 \in Nat /\ f.seTax \in Nat
  BY <1>2 DEF TypedIncome
<1>7. f.qbi.line15 \in Int /\ eic \in Int
  BY <1>2, <1>3, <1>4
<1>8. SpineAmounts(f.preamble, s.config.status, f.deduction, f.qbi.line15, f.income.qualified,
                   f.medicare, f.seTax, f.ptc, eic, PaidOf(s))
  BY <1>2, <1>6, <1>7 DEF SpineAmounts
<1>9. /\ Footed(f.spine) /\ f.spine.line37 = Positive(f.spine.line24 - f.spine.line33)
      /\ SpineCarries(f.spine, f.preamble, f.medicare, f.seTax, f.ptc, PaidOf(s))
  BY <1>5, <1>8, SpineFoots
<1>10. QED
  BY <1>9 DEF SpineCarries

\* A return without a business owes no self-employment tax.
LEMMA NoBusiness ==
  ASSUME NEW s, TypedScenario(s), s.businesses = <<>>
  PROVE  /\ BusinessIncome(s.businesses) = 0
         /\ SETax(BusinessIncome(s.businesses), Wages(s)) = 0
         /\ Divisible(QBIInputs(s))
<1>1. BusinessIncome(s.businesses) = 0
  <2> DEFINE a == [i \in DOMAIN s.businesses |-> Line31(s.businesses[i])]
  <2>1. a \in [1 .. 0 -> Int]
    <3>1. DOMAIN s.businesses = {} /\ 1 .. 0 = {}
      OBVIOUS
    <3>2. QED
      BY <3>1
  <2>2. SumSeq(a) = 0
    <3> HIDE DEF a
    <3>1. QED
      BY <2>1, SumOfNone
  <2>3. QED
    BY <2>2 DEF BusinessIncome, SumOf
<1>2. SETax(0, Wages(s)) = 0
  <2>1. ~OwesSE(0)
    BY DEF OwesSE
  <2>2. QED
    BY <2>1 DEF SETax
<1>3. Divisible(QBIInputs(s))
  <2> DEFINE c == QBIInputs(s)
             m == Len(Kept(Len(c.businesses), ActiveAt(c)))
             n == Len(c.businesses)
             a == Len(ActiveBusinesses(c))
  <2>1. TypedInputs(c) /\ n = Len(s.businesses)
    BY QBIInputsTyped
  <2>2. n = 0
    BY <2>1
  <2>3. a = m /\ m \in Nat /\ m <= n
    BY <2>1, ActiveCount
  <2> HIDE DEF a, m, n
  <2>4. a \in Nat /\ ~(a > 1)
    BY <2>2, <2>3
  <2> HIDE DEF c
  <2>5. QED
    BY <2>4 DEF Divisible, a, c
<1>4. QED
  BY <1>1, <1>2, <1>3

\* Form 8959's tax stands where the workbook's cell holds a number.
LEMMA ProbedMedicare ==
  ASSUME NEW w, NEW probe, probe = None
  PROVE  LET m == [MedicareOf(w) EXCEPT !.line18 = IF probe = None THEN @ ELSE 0]
         IN m.line18 = MedicareOf(w).line18 /\ m.line24 = MedicareOf(w).line24
<1>1. {"line18", "line24"} \subseteq DOMAIN MedicareOf(w)
  BY DEF MedicareOf, F8959
<1>2. QED
  BY <1>1

\* The 1040 of the workbook foots as well, but says nothing of line 37; its
\* line 25 has the withholding of every Form 1099-G.
LEMMA SheetSpineIs ==
  ASSUME NEW sc, TypedScenario(sc), NEW f, SpineKnown(sc, f),
         NEW answer \in WorkbookAnswers, SheetKnown(sc, f, answer)
  PROVE  LET p == f.spine
             s == Effective(sc)
         IN /\ Footed(p) /\ p.line37 = None /\ p.line9 = f.preamble.total
            /\ p.line11 = f.preamble.agi /\ p.line23 = f.medicare.line18 + f.seTax
            /\ f.medicare = MedicareOf(s) /\ f.seTax = 0 /\ f.income.wages = Wages(s)
            /\ p.line25d = PaidOf(s).w2 + PaidOf(s).other + MedicareWithheld(f.medicare)
<1> DEFINE s == Effective(sc)
           w == InWorkbook(s)
           medicare == [f.medicare EXCEPT !.line18 = IF answer.probe = None THEN @ ELSE 0]
           credit == answer.eic + answer.extra
           whole == Spine(f.preamble, w.config.status, f.deduction, f.qbi.line15,
                          f.income.qualified, medicare, 0, NoCredit, credit, PaidOf(w))
<1>1. /\ TypedScenario(s) /\ TypedScenario(w) /\ Routed(s) = w
      /\ Passes(InputLedger(s)) /\ Passes(AnswerLedger(s, f, answer))
  BY DEF SheetKnown
<1>2. s.businesses = <<>> /\ ~UnmappedW2s(s) /\ Answered(answer.caption) /\ answer.probe = None
  BY <1>1, InputAsked, AnswerAsked
<1>3. w.businesses = <<>>
  <2>1. "businesses" \in DOMAIN s
    BY <1>1 DEF TypedScenario, TypedReturn, ReturnFields
  <2> HIDE DEF s
  <2>2. QED
    BY <2>1 DEF InWorkbook
<1>4. /\ TypedIncome(f)
      /\ f.deduction \in Int /\ f.medicare = MedicareOf(w)
      /\ f.seTax = SETax(BusinessIncome(w.businesses), Wages(w))
      /\ f.income = IncomeOf(w) /\ w.config.status \in DOMAIN View
      /\ PaidOf(w).w2 \in Int /\ PaidOf(w).other \in Int /\ PaidOf(w).estimated \in Int
      /\ Divisible(QBIInputs(w)) => f.qbi.line15 \in Nat
  BY <1>1, SpineInputs DEF SpineKnown
<1>5. f.seTax = 0 /\ Divisible(QBIInputs(w))
  BY <1>1, <1>3, <1>4, NoBusiness
<1>6. Wages(w) = Wages(s) /\ PaidOf(w).w2 = PaidOf(s).w2 /\ MedicareOf(w) = MedicareOf(s)
  BY <1>1, <1>2, SheetWages
<1>7. medicare.line18 = f.medicare.line18 /\ medicare.line24 = f.medicare.line24
  BY <1>2, <1>4, ProbedMedicare
<1>8. answer.eic \in Int /\ answer.extra \in Int
  BY TablesAssumption
<1>9. f.spine = [whole EXCEPT !.line25d = (whole.line25d - PaidOf(w).other) + PaidOf(s).other,
                              !.line37 = None]
  <2> DEFINE new == WorkbookFigures(s, f, answer)
  <2>1. "spine" \in DOMAIN new /\ \A x \in DOMAIN new : f[x] = new[x]
    BY DEF SheetKnown, Knows, WorkbookFigures
  <2>2. SheetSpine(w, f, answer) = whole
    BY <1>2 DEF SheetSpine
  <2>3. new.spine = [whole EXCEPT
                       !.line25d = (whole.line25d - PaidOf(w).other) + PaidOf(s).other,
                       !.line37 = None]
    <3> HIDE DEF whole
    <3>1. QED
      BY <2>2 DEF WorkbookFigures
  <2>4. QED
    BY <2>1, <2>3
<1>10. DOMAIN whole =
         {"line9", "line11", "line12", "line13", "line15", "line16", "line17", "line18",
          "line22", "line23", "line24", "line25d", "line26", "line32", "line33", "line34",
          "line37"}
  BY DEF Spine
<1>11. PaidOf(s).other \in Int
  BY <1>1, WageTypes
<1>12. f.income.wages = Wages(w)
  BY <1>4 DEF IncomeOf
<1> HIDE DEF s, w, medicare, whole
<1>13. /\ f.preamble.agi \in Int /\ f.preamble.netGain \in Int /\ f.income.qualified \in Int
       /\ f.medicare.line18 \in Nat /\ f.medicare.line24 \in Nat
  BY <1>4 DEF TypedIncome
<1>14. SpineAmounts(f.preamble, w.config.status, f.deduction, f.qbi.line15, f.income.qualified,
                    medicare, 0, NoCredit, credit, PaidOf(w))
  <2>1. f.qbi.line15 \in Int /\ NoCredit.line26 = 0 /\ NoCredit.line29 = 0 /\ credit \in Int
    BY <1>4, <1>5, <1>8 DEF NoCredit
  <2> HIDE DEF credit
  <2>2. QED
    BY <1>4, <1>7, <1>13, <2>1 DEF SpineAmounts
<1>15. /\ Footed(whole) /\ SpineCarries(whole, f.preamble, medicare, 0, NoCredit, PaidOf(w))
  BY <1>14, SpineFoots DEF whole
<1>16. /\ f.spine.line37 = None
       /\ f.spine.line25d = (whole.line25d - PaidOf(w).other) + PaidOf(s).other
       /\ f.spine.line9 = whole.line9 /\ f.spine.line15 = whole.line15
       /\ f.spine.line11 = whole.line11
  BY <1>9, <1>10
<1>17. /\ f.spine.line16 = whole.line16 /\ f.spine.line17 = whole.line17
       /\ f.spine.line18 = whole.line18 /\ f.spine.line22 = whole.line22
  BY <1>9, <1>10
<1>18. /\ f.spine.line23 = whole.line23 /\ f.spine.line24 = whole.line24
       /\ f.spine.line33 = whole.line33 /\ f.spine.line34 = whole.line34
  BY <1>9, <1>10
<1>19. Footed(f.spine)
  BY <1>15, <1>16, <1>17, <1>18 DEF Footed
<1>20. /\ f.spine.line9 = f.preamble.total /\ f.spine.line11 = f.preamble.agi
       /\ f.spine.line23 = f.medicare.line18 + f.seTax
  BY <1>5, <1>7, <1>15, <1>16, <1>18 DEF SpineCarries
<1>21. f.spine.line25d = PaidOf(s).w2 + PaidOf(s).other + MedicareWithheld(f.medicare)
  <2> DEFINE a == PaidOf(w).w2
             b == PaidOf(w).other
             c == PaidOf(s).other
             m == MedicareWithheld(f.medicare)
  <2>1. MedicareWithheld(medicare) = m
    BY <1>7 DEF MedicareWithheld
  <2>2. m \in Int
    BY <1>13 DEF MedicareWithheld
  <2>3. whole.line25d = a + b + m
    BY <1>15, <2>1 DEF SpineCarries
  <2>4. a \in Int /\ b \in Int /\ c \in Int /\ PaidOf(s).w2 = a
    BY <1>4, <1>6, <1>11
  <2> HIDE DEF a, b, c, m
  <2>5. f.spine.line25d = (whole.line25d - b) + c
    BY <1>16 DEF b, c
  <2>6. f.spine.line25d = a + c + m
    BY <2>2, <2>3, <2>4, <2>5
  <2>7. QED
    BY <2>4, <2>6 DEF c, m
<1>22. QED
  BY <1>4, <1>5, <1>6, <1>12, <1>16, <1>19, <1>20, <1>21 DEF s

----------------------------------------------------------------------------
(* Nothing is left out of the total.                                       *)

\* A computed 1040 foots, whichever route computed it.
LEMMA SpineIs ==
  ASSUME NEW sc, TypedScenario(sc), NEW f, SpineKnown(sc, f)
  PROVE  LET p == f.spine IN
         /\ Footed(p) /\ p.line9 = f.preamble.total /\ p.line11 = f.preamble.agi
         /\ p.line23 = f.medicare.line18 + f.seTax
         /\ \/ f.path = "native" /\ p.line37 = Positive(p.line24 - p.line33)
            \/ f.path = "workbook" /\ p.line37 = None
BY ByRoute, NativeSpineIs, SheetSpineIs

\* No total leaves something out.
LEMMA NothingLeftOut ==
  ASSUME FInv
  PROVE  NoPartialTotal
<1> SUFFICES ASSUME Computed
             PROVE  LET s == Effective(scenario)
                        paid == PaidOf(s)
                        medicare == MedicareOf(s)
                        p == figures.spine
                    IN /\ p.line16 # None /\ p.line18 = p.line16 + p.line17
                       /\ p.line23 = figures.medicare.line18 + figures.seTax
                       /\ p.line24 = p.line22 + p.line23
                       /\ figures.path = "workbook" =>
                            /\ figures.income.wages = Wages(s) /\ p.line23 = medicare.line18
                            /\ p.line25d = paid.w2 + paid.other + MedicareWithheld(medicare)
  BY DEF NoPartialTotal
<1>1. TypedScenario(scenario) /\ SpineKnown(scenario, figures)
  BY ComputedKnown
<1>2. /\ Footed(figures.spine)
      /\ figures.spine.line23 = figures.medicare.line18 + figures.seTax
  BY <1>1, SpineIs
<1>3. figures.spine.line16 # None
  BY <1>2, NoneAssumption DEF Footed
<1>4. ASSUME figures.path = "workbook"
      PROVE  LET s == Effective(scenario) IN
             /\ figures.income.wages = Wages(s)
             /\ figures.spine.line23 = MedicareOf(s).line18
             /\ figures.spine.line25d = PaidOf(s).w2 + PaidOf(s).other
                                          + MedicareWithheld(MedicareOf(s))
  <2> DEFINE s == Effective(scenario)
  <2>1. PICK answer \in WorkbookAnswers : SheetKnown(scenario, figures, answer)
    BY <1>1, <1>4, ByRoute
  <2>2. /\ figures.medicare = MedicareOf(s) /\ figures.seTax = 0
        /\ figures.income.wages = Wages(s)
        /\ figures.spine.line25d
             = PaidOf(s).w2 + PaidOf(s).other + MedicareWithheld(figures.medicare)
    BY <1>1, <2>1, SheetSpineIs
  <2>3. figures.medicare.line18 \in Nat
    BY <1>1, IncomeFiguresTyped DEF SpineKnown, DeductionsKnown, TypedIncome
  <2> HIDE DEF s
  <2>4. figures.spine.line23 = MedicareOf(s).line18
    BY <1>2, <2>2, <2>3
  <2>5. QED
    BY <2>2, <2>4 DEF s
<1>5. QED
  BY <1>2, <1>3, <1>4 DEF Footed

\* Seven amounts.
LEMMA SevenSum ==
  ASSUME NEW a \in [1 .. 7 -> Int]
  PROVE  SumSeq(a) = a[1] + a[2] + a[3] + a[4] + a[5] + a[6] + a[7]
<1> DEFINE p == PartialSums(a)
<1>1. p[0] = 0 /\ \A k \in 0 .. 7 - 1 : p[k + 1] = p[k] + a[k + 1]
  BY AmountsAre
<1>2. SumSeq(a) = p[7]
  BY AmountsAre
<1>3. p[1] = p[0] + a[1] /\ p[2] = p[1] + a[2] /\ p[3] = p[2] + a[3]
  BY <1>1
<1>4. p[4] = p[3] + a[4] /\ p[5] = p[4] + a[5] /\ p[6] = p[5] + a[6] /\ p[7] = p[6] + a[7]
  BY <1>1
<1> HIDE DEF p
<1>5. a[1] \in Int /\ a[2] \in Int /\ a[3] \in Int /\ a[4] \in Int /\ a[5] \in Int
      /\ a[6] \in Int /\ a[7] \in Int
  OBVIOUS
<1>6. QED
  BY <1>1, <1>2, <1>3, <1>4, <1>5

\* The rows of the cover add up to the total income.
LEMMA RowsAddUp ==
  ASSUME NEW sc, TypedScenario(sc), NEW f, DeductionsKnown(sc, f), f.spine.line9 = f.preamble.total
  PROVE  SumSeq(IncomeRows(Published(f))) = f.spine.line9
<1>1. /\ f.income.wages \in Int /\ f.income.interest \in Int /\ f.income.dividends \in Int
      /\ f.sch1.line3 \in Int /\ f.sch1.line5 \in Int /\ f.sch1.line10 \in Int
  BY IncomeFiguresTyped DEF DeductionsKnown, TypedIncome
<1>2. CapitalLine(f.gains) \in Int
  <2>1. /\ f.gains.line7 \in Int /\ f.gains.line15 \in Int
        /\ f.gains = ScheduleD(f.gains.line7, f.gains.line15, None)
    BY IncomeFiguresTyped DEF DeductionsKnown, TypedIncome
  <2>2. QED
    BY <2>1, ScheduleDTypes
<1> DEFINE a == f.income.wages
           b == f.income.interest
           c == f.income.dividends
           d == CapitalLine(f.gains)
           e == f.sch1.line3
           g == f.sch1.line5
           h == f.sch1.line10
<1>3. f.preamble.total = a + b + c + d + h
  <2>1. f.preamble = Preamble(f.income, f.gains, f.sch1)
    BY SpineInputs
  <2>2. QED
    BY <2>1 DEF Preamble
<1>4. IncomeRows(Published(f)) = <<a, b, c, d, e, g, (h - e) - g>>
  BY DEF Published, SpineResults, IncomeRows
<1> HIDE DEF a, b, c, d, e, g, h
<1>6. (h - e) - g \in Int /\ a \in Int /\ b \in Int /\ c \in Int /\ d \in Int /\ e \in Int
      /\ g \in Int /\ h \in Int
  BY <1>1, <1>2 DEF a, b, c, d, e, g, h
<1> DEFINE r == (h - e) - g
<1>7. r \in Int /\ e + g + r = h
  BY <1>6
<1>8. IncomeRows(Published(f)) = <<a, b, c, d, e, g, r>>
  BY <1>4
<1> HIDE DEF r
<1> DEFINE t == <<a, b, c, d, e, g, r>>
<1>9. SumSeq(t) = a + b + c + d + e + g + r
  <2>1. /\ t \in [1 .. 7 -> Int] /\ t[1] = a /\ t[2] = b /\ t[3] = c
        /\ t[4] = d /\ t[5] = e /\ t[6] = g /\ t[7] = r
    BY <1>6, <1>7
  <2> HIDE DEF t
  <2>2. QED
    BY <2>1, SevenSum
<1>10. a + b + c + d + e + g + r = a + b + c + d + h
  BY <1>6, <1>7
<1>11. QED
  BY <1>3, <1>8, <1>9, <1>10

----------------------------------------------------------------------------
(* What an amendment compares.                                             *)

\* The forms of an amendment are there once nothing refuses them, and the
\* lines of a Form 540 once the return has a ca540 block.
AmendInv ==
  /\ Printed("f1040x") =>
       Computed /\ Correcting /\ ~F1040XRefused(filed.federal, Case)
  /\ Printed("schedule_x") =>
       /\ "f540" \in DOMAIN figures /\ Correcting
       /\ ~ScheduleXRefused(filed.california, Case)
  /\ stage = "schedule_x" => "f540" \in DOMAIN figures
  /\ stage = "california" \/ "f540" \in DOMAIN figures => scenario.ca # None
  /\ "balance540" \in DOMAIN figures => "f540" \in DOMAIN figures
  /\ Correcting /\ "f540" \in DOMAIN filed.figures => filed.scenario.ca # None
AInv == FInv /\ AmendInv

\* A step that leaves the figures, and writes neither form.
LEMMA AmendKept ==
  ASSUME AInv, UNCHANGED <<scenario, figures, filed>>,
         Printed("f1040x")' => Printed("f1040x"),
         Printed("schedule_x")' => Printed("schedule_x"),
         stage' # "schedule_x", stage' = "california" => scenario.ca # None
  PROVE  AmendInv'
BY DEF AInv, AmendInv, Correcting, Computed, Case

LEMMA RefusedAmendKept ==
  ASSUME AInv, NEW ledger, Refuse(ledger)
  PROVE  AmendInv'
BY AmendKept DEF Refuse, Printed

LEMMA WrittenAmendKept ==
  ASSUME AInv, NEW at, NEW ledger, NEW next, NEW forms, Write(at, ledger, next, forms),
         <<"f1040x", 0>> \notin forms, <<"schedule_x", 0>> \notin forms,
         next # "schedule_x", next = "california" => scenario.ca # None
  PROVE  AmendInv'
<1>1. CASE Refuse(ledger)
  BY <1>1, RefusedAmendKept
<1>2. CASE /\ stage' = next /\ printed' = printed \cup forms
           /\ UNCHANGED <<scenario, refusal, figures, filed>>
  BY <1>2, AmendKept DEF Printed
<1>3. QED
  BY <1>1, <1>2 DEF Write

\* A stage that computes before any form is written.
LEMMA EarlyAmendKept ==
  ASSUME AInv, NEW at \in Early, NEW ledger, NEW next, NEW new, Step(at, ledger, next, new),
         "f540" \notin DOMAIN new, "balance540" \notin DOMAIN new,
         next # "schedule_x", next = "california" => scenario.ca # None
  PROVE  AmendInv'
<1>1. stage \in Early
  BY DEF Step
<1>2. CASE Refuse(ledger)
  BY <1>2, RefusedAmendKept
<1>3. CASE Proceed(ledger, next, new)
  <2>1. /\ stage' = next /\ figures' = Updated(figures, new)
        /\ UNCHANGED <<scenario, refusal, printed, filed>>
    BY <1>3 DEF Proceed
  <2>2. "f540" \notin DOMAIN figures /\ "balance540" \notin DOMAIN figures /\ printed = {}
    BY <1>1 DEF AInv, AmendInv, FInv, IInv, Control, FiguresInv, NoForms, PrintedInv
  <2>3. "f540" \notin DOMAIN figures' /\ "balance540" \notin DOMAIN figures'
    <3> DEFINE after == Updated(figures, new)
    <3>1. DOMAIN after = DOMAIN figures \cup DOMAIN new
      BY UpdatedLooksUp
    <3> HIDE DEF after
    <3>2. "f540" \notin DOMAIN after /\ "balance540" \notin DOMAIN after
      BY <2>2, <3>1
    <3>3. QED
      BY <2>1, <3>2 DEF after
  <2>4. ~Printed("f1040x")' /\ ~Printed("schedule_x")'
    BY <2>1, <2>2 DEF Printed
  <2>5. QED
    BY <2>1, <2>3, <2>4 DEF AInv, AmendInv, Correcting
<1>4. QED
  BY <1>2, <1>3 DEF Step

\* California's figures are computed only of a return with a ca540 block.
LEMMA CaliforniaHasBlock ==
  ASSUME AInv, stage \in Early, AfterCompute = "california"
  PROVE  scenario.ca # None
<1>1. CASE scenario.command = "california"
  <2>1. PICK s \in Scenarios :
          IF Correcting
          THEN filed.scenario = s /\ s.command = "amendment" /\ scenario = s.amended
          ELSE scenario = s
    BY DEF AInv, FInv, IInv, Control, ScenarioInv
  <2>2. ~Correcting
    <3>1. s.command = "amendment" => s.amended.command = "amendment"
      BY ScenarioAssumption
    <3>2. QED
      BY <1>1, <2>1, <3>1
  <2>3. QED
    BY <1>1, <2>1, <2>2, ScenarioAssumption
<1>2. CASE scenario.command # "california"
  BY <1>2 DEF AfterCompute
<1>3. QED
  BY <1>1, <1>2

LEMMA ComputingAmendKept ==
  ASSUME AInv, \/ Load \/ BuildEffective \/ Guards \/ Income \/ Deduct \/ ComputeSpine
               \/ EnterInputs \/ Recalculate \/ ReadAnswer
  PROVE  AmendInv'
<1>1. "f540" \notin DOMAIN <<>> /\ "balance540" \notin DOMAIN <<>>
  BY NothingKnown
<1>2. \A x \in {"f540", "balance540"} :
      /\ \A s : x \notin DOMAIN IncomeFigures(s)
      /\ \A s, f : x \notin DOMAIN DeductFigures(s, f)
      /\ \A s, f : x \notin DOMAIN SpineFigures(s, f)
      /\ \A s, f, answer : x \notin DOMAIN WorkbookFigures(s, f, answer)
  <2>1. /\ \A s : DOMAIN IncomeFigures(s) = IncomeNames
        /\ \A s, f : DOMAIN DeductFigures(s, f) = DeductNames
        /\ \A s, f : DOMAIN SpineFigures(s, f) = SpineNames
        /\ \A s, f, answer : DOMAIN WorkbookFigures(s, f, answer) = SpineNames
    BY FigureNames
  <2>2. \A x \in {"f540", "balance540"} :
          x \notin IncomeNames /\ x \notin DeductNames /\ x \notin SpineNames
    BY DEF IncomeNames, DeductNames, SpineNames
  <2>3. QED
    BY <2>1, <2>2
<1>3. AfterCompute # "schedule_x"
  BY DEF AfterCompute
<1>4. CASE Load \/ BuildEffective \/ Guards
  <2>1. CASE Load
    BY <1>1, <2>1, EarlyAmendKept DEF Load, Early
  <2>2. CASE BuildEffective
    BY <1>1, <2>2, EarlyAmendKept DEF BuildEffective, Early
  <2>3. CASE Guards
    BY <1>1, <2>3, EarlyAmendKept DEF Guards, Early
  <2>4. QED
    BY <1>4, <2>1, <2>2, <2>3
<1>5. CASE Income \/ EnterInputs
  <2>1. CASE Income
    BY <1>2, <2>1, EarlyAmendKept DEF Income, Early
  <2>2. CASE EnterInputs
    BY <1>2, <2>2, EarlyAmendKept DEF EnterInputs, Early
  <2>3. QED
    BY <1>5, <2>1, <2>2
<1>6. CASE Deduct \/ Recalculate
  <2>1. CASE Deduct
    BY <1>2, <2>1, EarlyAmendKept DEF Deduct, Early
  <2>2. CASE Recalculate
    <3>1. Step("sheet", <<>>, "answer",
               DeductFigures(InWorkbook(Effective(scenario)), figures))
      BY <2>2 DEF Recalculate, Step
    <3>2. QED
      BY <1>2, <3>1, EarlyAmendKept DEF Early
  <2>3. QED
    BY <1>6, <2>1, <2>2
<1>7. CASE ComputeSpine
  <2>1. stage = "spine"
    BY <1>7 DEF ComputeSpine, Step
  <2>2. AfterCompute = "california" => scenario.ca # None
    BY <2>1, CaliforniaHasBlock DEF Early
  <2>3. QED
    BY <1>2, <1>3, <1>7, <2>2, EarlyAmendKept DEF ComputeSpine, Early
<1>8. CASE ReadAnswer
  <2>1. PICK answer \in WorkbookAnswers :
          LET s == Effective(scenario) IN
          Step("answer", AnswerLedger(s, figures, answer), AfterCompute,
               WorkbookFigures(s, figures, answer))
    BY <1>8 DEF ReadAnswer
  <2>2. stage = "answer"
    BY <2>1 DEF Step
  <2>3. AfterCompute = "california" => scenario.ca # None
    BY <2>2, CaliforniaHasBlock DEF Early
  <2>4. QED
    BY <1>2, <1>3, <2>1, <2>3, EarlyAmendKept DEF Early
<1>9. QED
  BY <1>4, <1>5, <1>6, <1>7, <1>8

LEMMA WritingAmendKept ==
  ASSUME AInv, \/ PrintFederal \/ PrintCorporate \/ PrintAudit \/ ScorpReturn
               \/ CAScorpReturn \/ CAScorpK1s \/ PrintCalifornia
  PROVE  AmendInv'
<1> DEFINE X == {<<"f1040x", 0>>, <<"schedule_x", 0>>}
<1>1. \A s, f : (FederalPacket(s, f) \cup Statement8z(s, f) \cup ChangePacket(s)) \cap X = {}
  BY FederalPacketNames DEF FederalNames
<1>2. \A c : CorporatePacket(c) \cap X = {}
  BY CorporatePacketNames DEF CorporateNames
<1>3. /\ \A c : CAScorpPacket(c) \cap X = {} /\ CAPacket(c) \cap X = {}
      /\ \A due : Form("depreciation_audit", due) \cap X = {}
  BY DEF CAScorpPacket, CAPacket, Form, Sheets, CopiesOf
<1>4. CASE PrintFederal
  BY <1>1, <1>4, WrittenAmendKept DEF PrintFederal
<1>5. CASE PrintCorporate
  BY <1>2, <1>5, WrittenAmendKept DEF PrintCorporate
<1>6. CASE PrintAudit
  BY <1>3, <1>6, WrittenAmendKept DEF PrintAudit
<1>7. CASE ScorpReturn
  BY <1>2, <1>7, WrittenAmendKept DEF ScorpReturn
<1>8. CASE CAScorpReturn \/ CAScorpK1s
  BY <1>3, <1>8, FirstFormsOfPacket, WrittenAmendKept DEF CAScorpReturn, CAScorpK1s
<1>9. CASE PrintCalifornia
  BY <1>3, <1>9, WrittenAmendKept DEF PrintCalifornia
<1>10. QED
  BY <1>4, <1>5, <1>6, <1>7, <1>8, <1>9

LEMMA CaliforniaAmendKept == ASSUME AInv, ComputeCalifornia PROVE AmendInv'
<1> DEFINE s == WithDepreciation(scenario)
           new == CaliforniaFigures(s, figures)
           next == IF s.command = "california" THEN "print_ca"
                   ELSE IF ~Correcting THEN "file" ELSE "schedule_x"
<1>1. CASE Refuse(CaliforniaLedger(s, figures, new))
  BY <1>1, RefusedAmendKept
<1>2. CASE Proceed(CaliforniaLedger(s, figures, new), next, new)
  <2>1. stage = "california" /\ scenario.ca # None
    BY DEF ComputeCalifornia, Step, AInv, AmendInv
  <2>2. "f540" \in DOMAIN new
    BY FigureNames DEF CANames
  <2> HIDE DEF new
  <2>3. "f540" \in DOMAIN figures' /\ (Computed => Computed')
    BY <1>2, <2>2, UpdatedLooksUp DEF Proceed, Computed
  <2>4. next # "california"
    OBVIOUS
  <2>5. stage' # "california" /\ UNCHANGED <<scenario, printed, filed>>
    BY <1>2, <2>4 DEF Proceed
  <2>6. QED
    BY <2>1, <2>3, <2>5 DEF AInv, AmendInv, Printed, Correcting, Case
<1>3. QED
  BY <1>1, <1>2 DEF ComputeCalifornia, Step

LEMMA FilingAmendKept == ASSUME AInv, File PROVE AmendInv'
<1>1. /\ stage = "file" /\ stage' = "load" /\ figures' = <<>> /\ UNCHANGED printed
      /\ filed' = [scenario |-> scenario, figures |-> figures,
                   federal |-> FiledFigures(figures), california |-> FiledCA(figures)]
  BY DEF File
<1>2. printed = {}
  BY <1>1 DEF AInv, FInv, IInv, Control, PrintedInv
<1>3. "f540" \in DOMAIN figures => scenario.ca # None
  BY DEF AInv, AmendInv
<1>4. QED
  BY <1>1, <1>2, <1>3, NothingKnown DEF AmendInv, Printed

\* The two forms are refused, or there.
LEMMA AmendingKept == ASSUME AInv, Amend \/ Attach \/ AmendCalifornia PROVE AmendInv'
<1>1. CASE Amend
  <2> DEFINE ledger == <<<<"f1040x", F1040XRefused(filed.federal, Case)>>>>
  <2>1. CASE Refuse(ledger)
    BY <2>1, RefusedAmendKept
  <2>2. CASE /\ Passes(ledger) /\ stage' = "attach"
             /\ printed' = printed \cup Sheets({"f1040x"})
             /\ UNCHANGED <<scenario, refusal, figures, filed>>
    <3>1. ~F1040XRefused(filed.federal, Case)
      BY <2>2, PassedEntries
    <3>2. Computed /\ Correcting
      BY <1>1 DEF Amend, Write, AInv, FInv, IInv, Control, StageInv, FiguresInv, Late,
                  Computed
    <3>3. Printed("schedule_x")' => Printed("schedule_x")
      BY <2>2 DEF Printed, Sheets
    <3>4. QED
      BY <2>2, <3>1, <3>2, <3>3 DEF AInv, AmendInv, Correcting, Computed, Case
  <2>3. QED
    BY <1>1, <2>1, <2>2 DEF Amend, Write
<1>2. CASE Attach
  <2> DEFINE s == Effective(scenario)
  <2>1. s.ca = scenario.ca
    BY EffectiveKeeps
  <2>2. \A f : /\ <<"f1040x", 0>> \notin ChangedForms(s, f)
               /\ <<"schedule_x", 0>> \notin ChangedForms(s, f)
    BY DEF ChangedForms, Form, Sheets
  <2> HIDE DEF s
  <2>3. QED
    BY <1>2, <2>1, <2>2, WrittenAmendKept DEF Attach, s
<1>3. CASE AmendCalifornia
  <2> DEFINE ledger == <<<<"schedule_x", ScheduleXRefused(filed.california, Case)>>>>
  <2>1. CASE Refuse(ledger)
    BY <2>1, RefusedAmendKept
  <2>2. CASE /\ Passes(ledger) /\ stage' = "print_ca"
             /\ printed' = printed \cup Sheets({"schedule_x"})
             /\ UNCHANGED <<scenario, refusal, figures, filed>>
    <3>1. ~ScheduleXRefused(filed.california, Case)
      BY <2>2, PassedEntries
    <3>2. Correcting /\ "f540" \in DOMAIN figures
      BY <1>3 DEF AmendCalifornia, Write, AInv, FInv, IInv, Control, StageInv, AmendInv
    <3>3. Printed("f1040x")' => Printed("f1040x")
      BY <2>2 DEF Printed, Sheets
    <3>4. QED
      BY <2>2, <3>1, <3>2, <3>3 DEF AInv, AmendInv, Correcting, Computed, Case
  <2>3. QED
    BY <1>3, <2>1, <2>2 DEF AmendCalifornia, Write
<1>4. QED
  BY <1>1, <1>2, <1>3

LEMMA AmendInit == Init => AInv
<1> SUFFICES ASSUME Init PROVE AInv
  OBVIOUS
<1>1. stage = "load" /\ figures = <<>> /\ printed = {} /\ ~Correcting
  BY NothingKnown DEF Init, Correcting
<1>2. QED
  BY <1>1, KnownInit, NothingKnown DEF AInv, AmendInv, Printed

LEMMA AmendStep == AInv /\ [Next]_vars => AInv'
<1> SUFFICES ASSUME AInv, [Next]_vars PROVE AInv'
  OBVIOUS
<1>1. FInv'
  BY KnownStep DEF AInv
<1>2. CASE Next
  BY <1>1, <1>2, ComputingAmendKept, WritingAmendKept, CaliforniaAmendKept, FilingAmendKept,
     AmendingKept
  DEF Next, AInv
<1>3. CASE UNCHANGED vars
  BY <1>1, <1>3 DEF vars, AInv, AmendInv, Printed, Correcting, Computed, Case
<1>4. QED
  BY <1>2, <1>3
\* The figures filed of a computed return are its tax, its payments and what
\* is overpaid.
LEMMA FiledFiguresAre ==
  ASSUME NEW sc, TypedScenario(sc), NEW f, SpineKnown(sc, f)
  PROVE  LET d == FiledFigures(f) IN
         /\ AmendedLine11(d) = f.spine.line24 /\ f.spine.line24 \in Nat
         /\ d.payments = f.spine.line33 /\ f.spine.line33 \in Int
         /\ d.overpaid = Positive(f.spine.line33 - f.spine.line24)
         /\ d.overpaid # None
<1> DEFINE d == FiledFigures(f)
<1>1. /\ Footed(f.spine) /\ f.spine.line23 = f.medicare.line18 + f.seTax
  BY SpineIs
<1>2. f.medicare.line18 \in Nat /\ f.seTax \in Nat
  BY SpineInputs DEF SpineKnown, TypedIncome
<1>3. /\ f.spine.line16 \in Nat /\ f.spine.line17 \in Nat /\ f.spine.line33 \in Int
      /\ f.spine.line24 = f.spine.line16 + f.spine.line17 + f.spine.line23
      /\ f.spine.line34 = Positive(f.spine.line33 - f.spine.line24)
  BY <1>1 DEF Footed
<1>4. /\ d.tax = f.spine.line16 /\ d.repayment = f.spine.line17 /\ d.nonrefundable = None
      /\ d.medicare = f.medicare.line18 /\ d.seTax = f.seTax
      /\ d.payments = f.spine.line33 /\ d.overpaid = f.spine.line34
  BY DEF FiledFigures
<1> HIDE DEF d
<1>5. /\ Given(d.repayment) = f.spine.line17 /\ Given(d.nonrefundable) = 0
      /\ Given(d.medicare) = f.medicare.line18 /\ Given(d.seTax) = f.seTax
  BY <1>2, <1>3, <1>4, NoneAssumption DEF Given
<1>6. AmendedLine11(d) = f.spine.line24 /\ f.spine.line24 \in Nat
  BY <1>1, <1>2, <1>3, <1>4, <1>5 DEF AmendedLine11, OtherTaxes
<1>7. f.spine.line33 - f.spine.line24 \in Int
  BY <1>3, <1>6
<1>8. Positive(f.spine.line33 - f.spine.line24) \in Int
  BY <1>7, LargerTypes
<1>9. QED
  BY <1>3, <1>4, <1>6, <1>8, NoneAssumption DEF d

\* The original of an amendment, as it was filed.
LEMMA OriginalKnown ==
  ASSUME AInv, Correcting
  PROVE  /\ TypedScenario(filed.scenario) /\ SpineKnown(filed.scenario, filed.figures)
         /\ filed.federal = FiledFigures(filed.figures)
         /\ filed.california = FiledCA(filed.figures)
<1>1. TypedScenario(filed.scenario)
  BY ScenarioTyped DEF AInv, FInv, IInv, Control
<1>2. QED
  BY <1>1 DEF AInv, FInv, KnownInv, FiledInv, FiguresKnown

\* California's figures of a computed return are amounts.
LEMMA CaliforniaKnownTypes ==
  ASSUME NEW sc, TypedScenario(sc), sc.ca # None,
         NEW f, SpineKnown(sc, f), CaliforniaKnown(sc, f)
  PROVE  /\ f.balance540 = Form540Balance(f.f540)
         /\ Voluntary(sc.ca) \in Int /\ f.f540.liability \in Int
         /\ f.f540.penalty = Truncated(sc.ca.penalty)
         /\ f.f540.interest = IF sc.ca.interest = None THEN None ELSE Truncated(sc.ca.interest)
         /\ \E whole \in Int : Lines540(f.f540, whole, Voluntary(sc.ca))
<1> DEFINE s == WithDepreciation(sc)
           new == CaliforniaFigures(s, f)
<1>1. TypedScenario(s)
  BY EffectiveTyped DEF SpineKnown, DeductionsKnown, IncomeKnown, GuardsPassed
<1>2. s.ca = sc.ca
  BY DEF WithDepreciation
<1>3. f.spine.line11 \in Int /\ f.sch1.line1 \in Int /\ f.sch1.line7 \in Int
  BY SpineIs, SpineInputs DEF SpineKnown, TypedIncome
<1> HIDE DEF s
<1>4. /\ new.balance540 = Form540Balance(new.f540)
      /\ Voluntary(s.ca) \in Int /\ new.f540.liability \in Int
      /\ new.f540.penalty = Truncated(s.ca.penalty)
      /\ new.f540.interest = IF s.ca.interest = None THEN None ELSE Truncated(s.ca.interest)
      /\ \E whole \in Int : Lines540(new.f540, whole, Voluntary(s.ca))
  BY <1>1, <1>2, <1>3, CaliforniaTypes
<1>5. \A x \in CANames : f[x] = new[x]
  BY FigureNames DEF CaliforniaKnown, Knows, s
<1> HIDE DEF new
<1>6. f.balance540 = new.balance540 /\ f.f540 = new.f540
  BY <1>5 DEF CANames
<1>7. QED
  BY <1>2, <1>4, <1>6

\* The California liabilities an amendment compares.
LEMMA LiabilitiesKnown ==
  ASSUME AInv, Printed("schedule_x")
  PROVE  /\ figures.f540.liability \in Int /\ filed.california.liability \in Int
         /\ ~ScheduleXRefused(filed.california, Case)
<1>1. /\ "f540" \in DOMAIN figures /\ Correcting /\ scenario.ca # None
      /\ ~ScheduleXRefused(filed.california, Case)
  BY DEF AInv, AmendInv
<1>2. figures.f540.liability \in Int
  <2>1. Computed
    BY <1>1 DEF AInv, FInv, IInv, Control, FiguresInv
  <2>2. TypedScenario(scenario) /\ SpineKnown(scenario, figures)
    BY <2>1, ComputedKnown DEF AInv
  <2>3. CaliforniaKnown(scenario, figures)
    BY <1>1 DEF AInv, FInv, KnownInv, FiguresKnown
  <2>4. QED
    BY <1>1, <2>2, <2>3, CaliforniaKnownTypes
<1>3. filed.california.liability \in Int
  <2>1. filed.california.liability # None
    BY <1>1 DEF ScheduleXRefused
  <2>2. filed.california = FiledCA(filed.figures)
    BY <1>1, OriginalKnown
  <2>3. "f540" \in DOMAIN filed.figures
    BY <2>1, <2>2 DEF FiledCA
  <2>4. filed.california.liability = filed.figures.f540.liability
    BY <2>2, <2>3 DEF FiledCA
  <2>5. filed.scenario.ca # None
    BY <1>1, <2>3 DEF AInv, AmendInv
  <2>6. CaliforniaKnown(filed.scenario, filed.figures)
    BY <1>1, <2>3 DEF AInv, FInv, KnownInv, FiledInv, FiguresKnown
  <2>7. TypedScenario(filed.scenario) /\ SpineKnown(filed.scenario, filed.figures)
    BY <1>1, OriginalKnown
  <2>8. filed.figures.f540.liability \in Int
    BY <2>5, <2>6, <2>7, CaliforniaKnownTypes
  <2>9. QED
    BY <2>4, <2>8
<1>4. QED
  BY <1>1, <1>2, <1>3

\* What a printed Form 1040-X compares.
LEMMA AmendedKnown ==
  ASSUME AInv, Printed("f1040x"),
         Case.paid \in {None, 100 * Positive(BalanceDue(filed.federal))}
  PROVE  LET x == Form1040X
             old == filed.federal
         IN /\ x.line20 - x.line22
                 = (x.line11c - figures.spine.line33) - (x.line11a - old.payments)
            /\ x.line11c = figures.spine.line24 /\ x.line11a = filed.figures.spine.line24
            /\ old.payments = filed.figures.spine.line33
<1> DEFINE old == filed.federal
           new == FiledFigures(figures)
           case == Case
           x == F1040X(old, new, case)
<1>1. Computed /\ Correcting /\ ~F1040XRefused(old, case)
  BY DEF AInv, AmendInv
<1>2. TypedScenario(scenario) /\ SpineKnown(scenario, figures)
  BY <1>1, ComputedKnown DEF AInv
<1>3. /\ AmendedLine11(new) = figures.spine.line24 /\ figures.spine.line24 \in Nat
      /\ new.payments = figures.spine.line33 /\ figures.spine.line33 \in Int
  BY <1>2, FiledFiguresAre
<1>4. /\ TypedScenario(filed.scenario) /\ SpineKnown(filed.scenario, filed.figures)
      /\ old = FiledFigures(filed.figures)
  BY <1>1, OriginalKnown
<1>5. /\ AmendedLine11(old) = filed.figures.spine.line24 /\ filed.figures.spine.line24 \in Nat
      /\ old.payments = filed.figures.spine.line33 /\ filed.figures.spine.line33 \in Int
      /\ old.overpaid = Positive(old.payments - AmendedLine11(old)) /\ old.overpaid # None
  BY <1>4, FiledFiguresAre
<1>6. Form1040X = x
  BY DEF Form1040X
<1>7. x.line11a = AmendedLine11(old) /\ x.line11c = AmendedLine11(new)
  BY DEF F1040X
<1>8. case.paid \in {None, 100 * Positive(BalanceDue(old))}
  OBVIOUS
<1>9. AmendedLine11(old) \in Int /\ AmendedLine11(new) \in Int
      /\ old.payments \in Int /\ new.payments \in Int
  BY <1>3, <1>5
<1> HIDE DEF old, new, case
<1>10. x.line20 - x.line22 = (x.line11c - new.payments) - (x.line11a - old.payments)
  BY <1>1, <1>5, <1>8, <1>9, AmendmentSettles
<1> HIDE DEF x
<1>11. QED
  BY <1>3, <1>5, <1>6, <1>7, <1>10 DEF old

\* Both amendment forms balance.
LEMMA AmendmentBalances ==
  ASSUME AInv
  PROVE  AmendmentBalance
<1>1. ASSUME Printed("schedule_x")
      PROVE  FormScheduleX.line7 - FormScheduleX.line11 =
               figures.f540.liability - filed.california.liability
  BY <1>1, LiabilitiesKnown, ScheduleXSettles DEF FormScheduleX
<1>2. QED
  BY <1>1, AmendedKnown DEF AmendmentBalance

\* What is above zero of a whole number, or of its opposite, is a natural number.
LEMMA PositiveNatural ==
  ASSUME NEW a \in Int
  PROVE  Positive(a) \in Nat /\ Positive(-a) \in Nat
BY DEF Positive, Larger

\* A settlement of the two sides of one balance is that balance.
LEMMA SettlementIs ==
  ASSUME NEW due \in Int
  PROVE  Settlement(Positive(due), Positive(-due)) = -due
<1>1. Positive(due) \in Nat /\ Positive(-due) \in Nat
  BY LargerTypes
<1>2. /\ due > 0 => Positive(due) = due /\ Positive(-due) = 0
      /\ due <= 0 => Positive(due) = 0 /\ Positive(-due) = -due
  BY DEF Positive, Larger
<1>3. Positive(due) # None /\ Positive(-due) # None
  BY <1>1, NoneAssumption
<1> DEFINE owe == Positive(due)
           back == Positive(-due)
<1> HIDE DEF owe, back
<1>4. Settlement(owe, back) = IF back > 0 THEN back ELSE IF owe > 0 THEN -owe ELSE 0
  BY <1>3 DEF Settlement, owe, back
<1>5. IF back > 0 THEN back = -due ELSE IF owe > 0 THEN -owe = -due ELSE due = 0
  BY <1>1, <1>2 DEF owe, back
<1>6. QED
  BY <1>4, <1>5 DEF owe, back

\* The bottom line of a computed return, on either route.
LEMMA BottomLineIs ==
  ASSUME NEW sc, TypedScenario(sc), NEW f, SpineKnown(sc, f)
  PROVE  LET r == Published(f)
             p == f.spine
         IN /\ FederalBottomLine(r) = p.line33 - p.line24 /\ TotalTaxRow(r) = p.line24
            /\ ~F4868Refused(r) /\ F4868(r).line6 = Positive(p.line24 - p.line33)
            /\ p.line24 = p.line22 + p.line23 /\ p.line22 \in Int /\ p.line23 \in Int
            /\ p.line24 \in Int /\ p.line33 \in Int
<1> DEFINE r == Published(f)
           p == f.spine
           q == SpineResults(f)
<1>1. /\ Footed(p)
      /\ \/ f.path = "native" /\ p.line37 = Positive(p.line24 - p.line33)
         \/ f.path = "workbook" /\ p.line37 = None
  BY SpineIs
<1>2. /\ p.line16 \in Nat /\ p.line17 \in Nat /\ p.line23 \in Nat /\ p.line33 \in Int
      /\ p.line22 = p.line16 + p.line17 /\ p.line24 = p.line16 + p.line17 + p.line23
      /\ p.line24 = p.line22 + p.line23 /\ p.line34 = Positive(p.line33 - p.line24)
  BY <1>1 DEF Footed
<1>3. /\ q.harvested = None /\ q.line16 = p.line16 /\ q.line17 = p.line17
      /\ q.line22 = p.line22 /\ q.line23 = p.line23 /\ q.line33 = p.line33
      /\ q.line34 = p.line34 /\ q.line37 = p.line37
      /\ {"harvested", "line22", "line23"} \subseteq DOMAIN q
  BY DEF SpineResults
<1>4. p.line24 \in Nat
  BY <1>2
<1>5. Positive(p.line16 + p.line17) = p.line22
  BY <1>2 DEF Positive, Larger
<1>6. CASE f.path = "native"
  <2>1. r = q /\ p.line37 = Positive(p.line24 - p.line33)
    BY <1>1, <1>6 DEF Published
  <2> HIDE DEF r, p, q
  <2>2. /\ FederalBottomLine(r) = r.line33 - p.line24 /\ TotalTaxRow(r) = p.line24
        /\ ~F4868Refused(r) /\ F4868(r).line6 = Positive(p.line24 - r.line33)
    BY <1>2, <1>3, <1>4, <1>5, <2>1, OneBalance, NoneAssumption
  <2>3. QED
    BY <1>2, <1>3, <1>4, <2>1, <2>2 DEF r, p
<1>7. CASE f.path # "native"
  <2>1. p.line37 = None
    BY <1>1, <1>7
  <2>2. r = [q EXCEPT !.harvested = p.line24, !.line22 = None, !.line23 = None]
    BY <1>7 DEF Published
  <2> HIDE DEF r, p, q
  <2>3. /\ r.harvested = p.line24 /\ r.line37 = None /\ r.line33 = p.line33
        /\ r.line34 = Positive(p.line33 - p.line24)
    BY <1>2, <1>3, <2>1, <2>2
  <2>4. /\ FederalBottomLine(r) = r.line33 - p.line24 /\ TotalTaxRow(r) = p.line24
        /\ ~F4868Refused(r) /\ F4868(r).line6 = Positive(p.line24 - r.line33)
    BY <1>2, <1>4, <2>3, OneBalance, NoneAssumption
  <2>5. QED
    BY <1>2, <1>4, <2>3, <2>4 DEF r, p
<1>8. QED
  BY <1>6, <1>7

\* One return has one bottom line.
LEMMA OneBottom ==
  ASSUME AInv
  PROVE  OneBottomLine
<1>1. ASSUME Computed
      PROVE  LET r == Published(figures)
                 p == figures.spine
                 balance == p.line33 - p.line22 - p.line23
             IN /\ FederalBottomLine(r) = balance /\ TotalTaxRow(r) = p.line24
                /\ ~F4868Refused(r) /\ F4868(r).line6 = Positive(-balance)
                /\ SumSeq(IncomeRows(r)) = FederalRows(r).total
  <2> DEFINE r == Published(figures)
             p == figures.spine
             balance == p.line33 - p.line22 - p.line23
  <2>1. TypedScenario(scenario) /\ SpineKnown(scenario, figures)
    BY <1>1, ComputedKnown DEF AInv
  <2>2. /\ FederalBottomLine(r) = p.line33 - p.line24 /\ TotalTaxRow(r) = p.line24
        /\ ~F4868Refused(r) /\ F4868(r).line6 = Positive(p.line24 - p.line33)
        /\ p.line24 = p.line22 + p.line23 /\ p.line22 \in Int /\ p.line23 \in Int
        /\ p.line24 \in Int /\ p.line33 \in Int
    BY <2>1, BottomLineIs
  <2>3. p.line9 = figures.preamble.total
    BY <2>1, SpineIs
  <2>4. SumSeq(IncomeRows(r)) = p.line9
    BY <2>1, <2>3, RowsAddUp DEF SpineKnown
  <2>5. FederalRows(r).total = p.line9
    <3>1. SpineResults(figures).line9 = p.line9
          /\ r.line9 = SpineResults(figures).line9
      BY DEF SpineResults, Published
    <3> HIDE DEF r
    <3>2. QED
      BY <3>1 DEF FederalRows
  <2> HIDE DEF r, p
  <2>6. balance = p.line33 - p.line24 /\ -balance = p.line24 - p.line33
    BY <2>2
  <2>7. QED
    BY <2>2, <2>4, <2>5, <2>6 DEF r, p
<1>2. ASSUME Printed("f1040x"),
             Case.paid \in {None, 100 * Positive(BalanceDue(filed.federal))}
      PROVE  F1040XBottomLine(Form1040X) =
               FederalBottomLine(Published(figures))
                 - FederalBottomLine(Published(filed.figures))
  <2> DEFINE x == Form1040X
             p == figures.spine
             o == filed.figures.spine
  <2>1. Computed /\ Correcting
    BY <1>2 DEF AInv, AmendInv
  <2>2. /\ FederalBottomLine(Published(figures)) = p.line33 - p.line24
        /\ p.line24 \in Int /\ p.line33 \in Int
    <3>1. TypedScenario(scenario) /\ SpineKnown(scenario, figures)
      BY <2>1, ComputedKnown DEF AInv
    <3>2. QED
      BY <3>1, BottomLineIs
  <2>3. /\ FederalBottomLine(Published(filed.figures)) = o.line33 - o.line24
        /\ o.line24 \in Int /\ o.line33 \in Int
    <3>1. TypedScenario(filed.scenario) /\ SpineKnown(filed.scenario, filed.figures)
      BY <2>1, OriginalKnown
    <3>2. QED
      BY <3>1, BottomLineIs
  <2>4. x.line20 - x.line22 = (p.line24 - p.line33) - (o.line24 - o.line33)
    BY <1>2, AmendedKnown
  <2>5. \E due \in Int : x.line20 = Positive(due) /\ x.line22 = Positive(-due)
    <3> DEFINE due == x.line11c - x.line19
    <3>1. x.line20 = Positive(due) /\ x.line22 = Positive(x.line19 - x.line11c)
      BY DEF Form1040X, F1040X
    <3>2. x.line11c \in Int
      BY <1>2, <2>2, AmendedKnown
    <3>3. x.line19 \in Int
      <4>1. /\ x.line19 = (FiledFigures(figures).payments + OriginalTaxPaid(Case))
                            - OriginalOverpayment(Case)
        BY DEF Form1040X, F1040X
      <4>2. FiledFigures(figures).payments \in Int
        BY <2>2 DEF FiledFigures
      <4>3. OriginalOverpayment(Case) = filed.federal.overpaid
        <5>1. ~F1040XRefused(filed.federal, Case)
          BY <1>2 DEF AInv, AmendInv
        <5>2. filed.federal.overpaid # None
          BY <2>1, OriginalKnown, FiledFiguresAre
        <5>3. QED
          BY <5>1, <5>2 DEF F1040XRefused, OverpaymentMismatch
      <4>4. filed.federal.overpaid \in Int
        <5> DEFINE n == o.line33 - o.line24
        <5>1. filed.federal.overpaid = Positive(n)
          BY <2>1, OriginalKnown, FiledFiguresAre
        <5>2. n \in Int
          BY <2>3
        <5> HIDE DEF n
        <5>3. Positive(n) \in Nat
          BY <5>2, PositiveNatural
        <5>4. QED
          BY <5>1, <5>3
      <4>5. OriginalTaxPaid(Case) \in Int
        <5>1. BalanceDue(filed.federal) \in Int
          <6>1. /\ AmendedLine11(filed.federal) = o.line24
                /\ filed.federal.payments = o.line33
            BY <2>1, OriginalKnown, FiledFiguresAre
          <6>2. QED
            BY <2>3, <6>1 DEF BalanceDue
        <5>2. Positive(BalanceDue(filed.federal)) \in Int
          BY <5>1, LargerTypes
        <5>3. Case.paid # None => Case.paid \in Int
          BY <1>2, <5>2
        <5>4. Case.paid # None => Rounded(Case.paid) \in Int
          BY <5>3, RoundedIsNearest
        <5>5. QED
          BY <5>4 DEF OriginalTaxPaid
      <4>6. QED
        BY <4>1, <4>2, <4>3, <4>4, <4>5
    <3> HIDE DEF x
    <3>4. due \in Int /\ -due = x.line19 - x.line11c
      BY <3>2, <3>3
    <3>5. QED
      BY <3>1, <3>4
  <2>6. PICK due \in Int : x.line20 = Positive(due) /\ x.line22 = Positive(-due)
    BY <2>5
  <2>7. x.line20 - x.line22 = due
    <3>1. Positive(due) - Positive(-due) = due
      BY DEF Positive, Larger
    <3>2. QED
      BY <2>6, <3>1
  <2>8. F1040XBottomLine(x) = -due
    <3>1. F1040XBottomLine(x) = Settlement(Positive(due), Positive(-due))
      BY <2>6 DEF F1040XBottomLine
    <3>2. QED
      BY <3>1, SettlementIs
  <2> DEFINE now == FederalBottomLine(Published(figures))
             then == FederalBottomLine(Published(filed.figures))
  <2>9. now = p.line33 - p.line24 /\ then = o.line33 - o.line24
    BY <2>2, <2>3
  <2> HIDE DEF x, p, o, now, then
  <2>10. F1040XBottomLine(x) = now - then
    <3>1. due = (p.line24 - p.line33) - (o.line24 - o.line33)
      BY <2>4, <2>7
    <3>2. -due = (p.line33 - p.line24) - (o.line33 - o.line24)
      BY <2>2, <2>3, <3>1
    <3>3. QED
      BY <2>8, <2>9, <3>2
  <2>11. QED
    BY <2>10 DEF x, now, then
<1>3. ASSUME Printed("schedule_x")
      PROVE  ScheduleXBottomLine(FormScheduleX) =
               CABottomLine(figures.f540.liability)
                 - CABottomLine(filed.california.liability)
  <2> DEFINE x == FormScheduleX
             new == figures.f540.liability
             old == filed.california.liability
  <2>1. new \in Int /\ old \in Int /\ ~ScheduleXRefused(filed.california, Case)
    BY <1>3, LiabilitiesKnown
  <2>2. x.line7 - x.line11 = new - old
    BY <1>3, AmendmentBalances DEF AmendmentBalance
  <2>3. CABottomLine(new) = -new /\ CABottomLine(old) = -old
    BY <2>1, SettlementIs DEF CABottomLine
  <2>4. \E due \in Int : x.line7 = Positive(due) /\ x.line11 = Positive(-due)
    <3> DEFINE due == x.line3 - x.line6
    <3>1. x.line7 = Positive(due) /\ x.line11 = Positive(x.line6 - x.line3)
      BY DEF FormScheduleX, ScheduleX
    <3>2. /\ x.line3 = Positive(new) + Stated(Case.caReceived, Case.caApplied)
          /\ x.line6 = Positive(-new) + Positive(old)
      BY DEF FormScheduleX, ScheduleX
    <3>3. Stated(Case.caReceived, Case.caApplied) = Positive(-old)
      BY <2>1 DEF ScheduleXRefused
    <3> HIDE DEF x, new, old
    <3>7. new \in Int /\ old \in Int
      BY <2>1 DEF new, old
    <3>8. Positive(new) \in Nat /\ Positive(-new) \in Nat
      BY <3>7, PositiveNatural
    <3>9. Positive(old) \in Nat /\ Positive(-old) \in Nat
      BY <3>7, PositiveNatural
    <3>4. /\ Positive(new) \in Int /\ Positive(-new) \in Int
          /\ Positive(old) \in Int /\ Positive(-old) \in Int
      BY <3>8, <3>9
    <3>5. due \in Int /\ -due = x.line6 - x.line3
      BY <3>2, <3>3, <3>4 DEF old
    <3>6. QED
      BY <3>1, <3>5
  <2>5. PICK due \in Int : x.line7 = Positive(due) /\ x.line11 = Positive(-due)
    BY <2>4
  <2>6. x.line7 - x.line11 = due
    <3>1. Positive(due) - Positive(-due) = due
      BY DEF Positive, Larger
    <3>2. QED
      BY <2>5, <3>1
  <2>7. ScheduleXBottomLine(x) = -due
    <3>1. ScheduleXBottomLine(x) = Settlement(Positive(due), Positive(-due))
      BY <2>5 DEF ScheduleXBottomLine
    <3>2. QED
      BY <3>1, SettlementIs
  <2> HIDE DEF x, new, old
  <2>8. QED
    BY <2>1, <2>2, <2>3, <2>6, <2>7 DEF x, new, old
<1>4. QED
  BY <1>1, <1>2, <1>3 DEF OneBottomLine

\* The printed bottom of Form 540, of a block that states no negative
\* contribution, penalty or interest.  The loader refuses only the last: a
\* negative contribution or penalty is outside what the printed lines add up.
NoNegative540(ca) ==
  /\ Voluntary(ca) >= 0 /\ ca.penalty >= 0
  /\ ca.interest # None => ca.interest >= 0

\* Its blank-or-printed lines then add up to the liability and the interest.
LEMMA Bottom540 ==
  ASSUME NEW f, NEW ca, TypedCA(ca), ca # None, NoNegative540(ca),
         Voluntary(ca) \in Int, Voluntary(ca) % 100 # 50,
         f.penalty = Truncated(ca.penalty),
         f.interest = IF ca.interest = None THEN None ELSE Truncated(ca.interest),
         \E whole \in Int : Lines540(f, whole, Voluntary(ca))
  PROVE  LET b == Form540Balance(f)
             total == f.liability + (IF f.interest = None THEN 0 ELSE f.interest)
         IN total = IF b.line114 # None THEN b.line114
                    ELSE IF b.line115 # None THEN -b.line115 ELSE 0
<1> DEFINE v == Voluntary(ca)
           b == Form540Balance(f)
           interest == IF f.interest = None THEN 0 ELSE f.interest
           bottom == IF b.line114 # None THEN b.line114
                     ELSE IF b.line115 # None THEN -b.line115 ELSE 0
<1>1. PICK whole \in Int : Lines540(f, whole, v)
  OBVIOUS
<1>2. ca.penalty \in Int /\ (ca.interest # None => ca.interest \in Int)
  BY DEF TypedCA, Optional
<1>3. f.penalty \in Nat /\ (f.interest = None \/ f.interest \in Nat)
  <2>1. ca.penalty >= 0 /\ (ca.interest # None => ca.interest >= 0)
    BY DEF NoNegative540
  <2>2. Truncated(ca.penalty) \in Nat
    BY <1>2, <2>1, TruncatedType
  <2>3. ca.interest # None => Truncated(ca.interest) \in Nat
    BY <1>2, <2>1, TruncatedType
  <2>4. QED
    BY <2>2, <2>3
<1>4. v \in Nat
  BY DEF NoNegative540
<1>5. /\ f.useTax \in Int /\ f.line71 \in Int /\ f.line72 \in Int /\ f.line48 \in Nat
      /\ whole = f.line48 + f.useTax + f.penalty - f.line72 - f.line71
      /\ f.voluntary = Rounded(v) /\ f.liability = Rounded(100 * whole + v)
  BY <1>1 DEF Lines540
<1>6. Rounded(v) \in Nat
  BY <1>4, RoundedNatural
<1>7. Rounded(100 * whole + v) = whole + Rounded(v)
  BY <1>4, RoundedTotal
<1> HIDE DEF v
<1>8. f.voluntary \in Nat
  BY <1>5, <1>6
<1>9. bottom = f.line48 + f.useTax + f.penalty + f.voluntary + interest
                 - f.line71 - f.line72
  BY <1>3, <1>5, <1>8, NoneAssumption, BottomLinesTell
<1> HIDE DEF b, bottom
<1>10. interest \in Nat
  BY <1>3
<1> HIDE DEF interest
<1>11. f.liability + interest = bottom
  BY <1>3, <1>5, <1>6, <1>7, <1>8, <1>9, <1>10
<1>12. QED
  BY <1>11 DEF b, bottom, interest

\* The columns of Schedule CA Part II lead from the federal deductions to
\* California's.
LEMMA PartIICrossfoots ==
  ASSUME NEW s, TypedScenario(s), NEW agi \in Int
  PROVE  LET a == ScheduleAOf(s, EffectiveItemized(s), agi) IN
         PartIILine18(a) = CAItemized(a)
<1> DEFINE a == ScheduleAOf(s, EffectiveItemized(s), agi)
<1>1. /\ a.line5a \in Int /\ a.line5b \in Int /\ a.line5e \in Int /\ a.line10 \in Int
      /\ a.line4 \in Nat /\ a.line14 \in Int /\ a.line17 \in Int
      /\ a.line17 = a.line4 + a.line5e + a.line10 + a.line14
  BY EffectiveItemizedTyped, ScheduleATypes
<1> HIDE DEF a
<1>2. PartIILine18(a) = CAItemized(a)
  BY <1>1 DEF PartIILine18, PartIILine5eB, PartIILine5eC, CAItemized
<1>3. QED
  BY <1>2 DEF a

\* A computed Form 540 balances.
LEMMA Balances540 ==
  ASSUME AInv, scenario.ca # None => NoNegative540(scenario.ca)
  PROVE  Form540Balances
<1> SUFFICES ASSUME "balance540" \in DOMAIN figures PROVE Form540Balances
  BY DEF Form540Balances
<1>1. "f540" \in DOMAIN figures /\ scenario.ca # None
  BY DEF AInv, AmendInv
<1>2. Computed
  BY <1>1 DEF AInv, FInv, IInv, Control, FiguresInv
<1>3. TypedScenario(scenario) /\ SpineKnown(scenario, figures)
  BY <1>2, ComputedKnown DEF AInv
<1>4. CaliforniaKnown(scenario, figures)
  BY <1>1 DEF AInv, FInv, KnownInv, FiguresKnown
<1> DEFINE f == figures.f540
           ca == scenario.ca
<1>5. /\ figures.balance540 = Form540Balance(f)
      /\ Voluntary(ca) \in Int
      /\ f.penalty = Truncated(ca.penalty)
      /\ f.interest = IF ca.interest = None THEN None ELSE Truncated(ca.interest)
      /\ \E whole \in Int : Lines540(f, whole, Voluntary(ca))
  BY <1>1, <1>3, <1>4, CaliforniaKnownTypes
<1>6. TypedCA(ca)
  BY <1>3 DEF TypedScenario, TypedReturn
<1>7. figures.spine.line11 \in Int
  BY <1>3, SpineIs, SpineInputs DEF SpineKnown, TypedIncome
<1>8. LET a == ScheduleAOf(scenario, EffectiveItemized(scenario), figures.spine.line11)
      IN PartIILine18(a) = CAItemized(a)
  BY <1>3, <1>7, PartIICrossfoots
<1> HIDE DEF f, ca
<1>9. ASSUME Voluntary(ca) % 100 # 50
      PROVE  LET b == Form540Balance(f)
                 total == f.liability + (IF f.interest = None THEN 0 ELSE f.interest)
             IN total = IF b.line114 # None THEN b.line114
                        ELSE IF b.line115 # None THEN -b.line115 ELSE 0
  <2>1. NoNegative540(ca) /\ ca # None
    BY <1>1 DEF ca
  <2>2. QED
    BY <1>5, <1>6, <1>9, <2>1, Bottom540
<1>10. QED
  BY <1>5, <1>8, <1>9 DEF Form540Balances, f, ca

----------------------------------------------------------------------------
(* A packet of the return.                                                 *)

\* What the preparation of a federal packet leaves.
LEMMA EmitAsked ==
  ASSUME NEW s, NEW f, Passes(EmitLedger(s, f))
  PROVE  /\ ~(s.businesses # <<>> /\ s.year \notin ScheduleCYears)
         /\ ~Line27Refused(s.k1s) /\ ~AuditUnbuildable(s)
         /\ ~(EmitsF8582(s) /\ PassiveLossRefused(LimitationOf(s, f.spine.line11)))
         /\ \A i \in DOMAIN Activities4562(s) :
              LET act == Activities4562(s)[i] IN
              ~(/\ CopyRequired(act, s.year)
                /\ ResolveRefused(act, ActivityKind(s, i), s.year, MidQuarterOf(s)))
<1> DEFINE shared == SharedLedger(s)
           five == <<<<"schedule_c_year", s.businesses # <<>> /\ s.year \notin ScheduleCYears>>,
       <<"digital_assets", s.year >= 2022 /\ s.config.digital = None>>,
       <<"blank_spouse", BlankSpouse(s.config)>>,
       <<"schedule_e_line_27", Line27Refused(s.k1s)>>,
       <<"depreciation_audit_unbuildable", AuditUnbuildable(s)>>>>
           schB == <<<<"schedule_b_rows", /\ EmitsScheduleB(f)
          /\ ScheduleBRefused(s.interest, K1Amounts(s, LAMBDA k : k.interest),
                              s.dividends, K1Amounts(s, LAMBDA k : k.dividends))>>>>
           schA == ScheduleALedger(s, s.itemized, f.spine.line11)
           untied == \E i \in DOMAIN Activities4562(s) :
          LET act == Activities4562(s)[i] IN
          /\ CopyRequired(act, s.year)
          /\ ResolveRefused(act, ActivityKind(s, i), s.year, MidQuarterOf(s))
           two == <<<<"schedule_c_part_v", AnyOf(s.businesses, ScheduleCPrintRefused)>>,
                    <<"f4562", untied>>>>
           qbi == IF HasQBISource(s) THEN QBILedger(s, f.taxable) ELSE <<>>
           loss == <<<<"passive_loss",
          EmitsF8582(s) /\ PassiveLossRefused(LimitationOf(s, f.spine.line11))>>>>
           a1 == shared \o five
           a2 == a1 \o PartIILedger(s)
           a3 == a2 \o BusinessLedger(s)
           a4 == a3 \o SecuritiesLedger(s)
           a5 == a4 \o schB
           a6 == a5 \o schA
           a7 == a6 \o two
           a8 == a7 \o qbi
<1>1. /\ Listing(shared) /\ Listing(PartIILedger(s)) /\ Listing(BusinessLedger(s))
      /\ Listing(SecuritiesLedger(s))
  BY SharedListings
<1>2. Listing(five)
  BY ShortListings
<1>3. Listing(schB) /\ Listing(two) /\ Listing(loss)
  BY ShortListings
<1>4. Listing(schA) /\ Listing(qbi)
  BY ShortListings DEF ScheduleALedger, QBILedger
<1>5. EmitLedger(s, f) = a8 \o loss
  BY DEF EmitLedger
<1>6. \A a, b, c, d, e : Passes(<<a, b, c, d, e>>) => ~a[2] /\ ~d[2] /\ ~e[2]
  BY DEF Passes, AnyOf, Offends
<1>7. ASSUME Passes(five)
      PROVE  /\ ~(s.businesses # <<>> /\ s.year \notin ScheduleCYears)
             /\ ~Line27Refused(s.k1s) /\ ~AuditUnbuildable(s)
  <2>1. /\ five[1][2] = (s.businesses # <<>> /\ s.year \notin ScheduleCYears)
        /\ five[4][2] = Line27Refused(s.k1s) /\ five[5][2] = AuditUnbuildable(s)
    BY Zenon
  <2>2. ~five[1][2] /\ ~five[4][2] /\ ~five[5][2]
    BY <1>6, <1>7
  <2>3. QED
    BY <2>1, <2>2, Zenon
<1>8. Passes(two) => ~untied
  BY PassedEntries
<1>9. Passes(loss) => ~(EmitsF8582(s) /\ PassiveLossRefused(LimitationOf(s, f.spine.line11)))
  BY PassedEntries
<1> HIDE DEF shared, five, schB, schA, two, qbi, loss
<1>10. Listing(a1) /\ Listing(a2) /\ Listing(a3) /\ Listing(a4)
  <2>1. Listing(a1)
    BY <1>1, <1>2, Joined
  <2> HIDE DEF a1
  <2>2. Listing(a2)
    BY <1>1, <2>1, Joined
  <2> HIDE DEF a2
  <2>3. Listing(a3)
    BY <1>1, <2>2, Joined
  <2> HIDE DEF a3
  <2>4. Listing(a4)
    BY <1>1, <2>3, Joined
  <2>5. QED
    BY <2>1, <2>2, <2>3, <2>4
<1>11. Listing(a5) /\ Listing(a6) /\ Listing(a7) /\ Listing(a8)
  <2>1. Listing(a5)
    <3> HIDE DEF a4
    <3>1. QED
      BY <1>3, <1>10, Joined
  <2> HIDE DEF a5
  <2>2. Listing(a6)
    BY <1>4, <2>1, Joined
  <2> HIDE DEF a6
  <2>3. Listing(a7)
    BY <1>3, <2>2, Joined
  <2> HIDE DEF a7
  <2>4. Listing(a8)
    BY <1>4, <2>3, Joined
  <2>5. QED
    BY <2>1, <2>2, <2>3, <2>4
<1>12. Passes(a8) /\ Passes(loss)
  <2> HIDE DEF a8
  <2>1. QED
    BY <1>3, <1>5, <1>11, Joined
<1>13. Passes(a7)
  <2> HIDE DEF a7
  <2>1. QED
    BY <1>4, <1>11, <1>12, Joined
<1>14. Passes(a6) /\ Passes(two)
  <2> HIDE DEF a6
  <2>1. QED
    BY <1>3, <1>11, <1>13, Joined
<1>15. Passes(a5)
  <2> HIDE DEF a5
  <2>1. QED
    BY <1>4, <1>11, <1>14, Joined
<1>16. Passes(a4)
  <2> HIDE DEF a4
  <2>1. QED
    BY <1>3, <1>10, <1>15, Joined
<1>17. Passes(a3)
  <2> HIDE DEF a3
  <2>1. QED
    BY <1>1, <1>10, <1>16, Joined
<1>18. Passes(a2)
  <2> HIDE DEF a2
  <2>1. QED
    BY <1>1, <1>10, <1>17, Joined
<1>19. Passes(a1)
  <2> HIDE DEF a1
  <2>1. QED
    BY <1>1, <1>10, <1>18, Joined
<1>20. Passes(five)
  BY <1>1, <1>2, <1>19, Joined
<1>21. ~untied
  BY <1>8, <1>14
<1>22. QED
  BY <1>7, <1>9, <1>12, <1>20, <1>21
\* The forms of a packet of the return.
PacketOf(s, f) == FederalPacket(s, f) \cup Statement8z(s, f) \cup ChangePacket(s)

\* A printed Form 1040 is of a computed return, and came with the whole of
\* its packet and no other form of a federal return; an amendment encloses
\* no Form 4562.
PacketInv ==
  /\ Printed("1040") => Computed
  /\ Printed("1040") /\ ~Correcting =>
       LET packet == PacketOf(Effective(scenario), figures) IN
       /\ packet \subseteq printed
       /\ \A form \in printed : form[1] \in FederalNames => form \in packet
  /\ Correcting => \A i : <<"f4562", i>> \notin printed
PInv == AInv /\ PacketInv

\* A step that leaves the figures, and writes no form of a federal return.
LEMMA PacketKept ==
  ASSUME PInv, UNCHANGED <<scenario, figures, filed>>, NEW forms,
         printed' = printed \cup forms,
         \A form \in forms : form[1] \notin FederalNames
  PROVE  PacketInv'
<1>1. "1040" \in FederalNames /\ "f4562" \in FederalNames
  BY DEF FederalNames
<1>2. <<"1040", 0>> \notin forms /\ \A i : <<"f4562", i>> \notin forms
  BY <1>1
<1>3. Printed("1040")' => Printed("1040")
  BY <1>2 DEF Printed
<1>4. Effective(scenario)' = Effective(scenario) /\ Correcting' = Correcting
      /\ Computed' = Computed
  BY DEF Correcting, Computed
<1>5. PacketOf(Effective(scenario), figures)' = PacketOf(Effective(scenario), figures)
  OBVIOUS
<1> DEFINE packet == PacketOf(Effective(scenario), figures)
<1>6. packet' = packet
  BY <1>5
<1> HIDE DEF packet
<1>7. (Printed("1040") /\ ~Correcting => 
         /\ packet \subseteq printed
         /\ \A form \in printed : form[1] \in FederalNames => form \in packet)
  BY DEF PInv, PacketInv, packet
<1>8. (Printed("1040") /\ ~Correcting => 
         /\ packet \subseteq printed'
         /\ \A form \in printed' : form[1] \in FederalNames => form \in packet)
  BY <1>7
<1>9. QED
  BY <1>2, <1>3, <1>4, <1>6, <1>8 DEF PInv, PacketInv, packet

LEMMA PacketStill ==
  ASSUME PInv, UNCHANGED <<scenario, figures, filed, printed>>
  PROVE  PacketInv'
<1> DEFINE none == {}
<1>1. printed' = printed \cup none /\ \A form \in none : form[1] \notin FederalNames
  OBVIOUS
<1> HIDE DEF none
<1>2. QED
  BY <1>1, PacketKept

LEMMA RefusedPacketKept ==
  ASSUME PInv, NEW ledger, Refuse(ledger)
  PROVE  PacketInv'
<1>1. UNCHANGED <<scenario, figures, filed, printed>>
  BY DEF Refuse
<1>2. QED
  BY <1>1, PacketStill

LEMMA WrittenPacketKept ==
  ASSUME PInv, NEW at, NEW ledger, NEW next, NEW forms, Write(at, ledger, next, forms),
         \A form \in forms : form[1] \notin FederalNames
  PROVE  PacketInv'
<1>1. CASE Refuse(ledger)
  BY <1>1, RefusedPacketKept
<1>2. CASE /\ stage' = next /\ printed' = printed \cup forms
           /\ UNCHANGED <<scenario, refusal, figures, filed>>
  BY <1>2, PacketKept
<1>3. QED
  BY <1>1, <1>2 DEF Write

\* Before its packet, a return has no form.
LEMMA EarlyPacketKept ==
  ASSUME PInv, stage \in Early, NEW ledger, NEW next, NEW new, NEW at,
         Step(at, ledger, next, new)
  PROVE  PacketInv'
<1>1. CASE Refuse(ledger)
  BY <1>1, RefusedPacketKept
<1>2. CASE Proceed(ledger, next, new)
  <2>1. printed = {} /\ printed' = printed
    BY <1>2 DEF Proceed, PInv, AInv, FInv, IInv, Control, PrintedInv
  <2>2. QED
    BY <2>1 DEF PacketInv, Printed
<1>3. QED
  BY <1>1, <1>2 DEF Step

LEMMA ComputingPacketKept ==
  ASSUME PInv, \/ Load \/ BuildEffective \/ Guards \/ Income \/ Deduct \/ ComputeSpine
               \/ EnterInputs \/ Recalculate \/ ReadAnswer
  PROVE  PacketInv'
<1>1. CASE Recalculate
  <2>1. printed = {} /\ printed' = printed
    BY <1>1 DEF Recalculate, Proceed, Early, PInv, AInv, FInv, IInv, Control, PrintedInv
  <2>2. QED
    BY <2>1 DEF PacketInv, Printed
<1>2. CASE Load
  BY <1>2, EarlyPacketKept DEF Load, Step, Early
<1>3. CASE BuildEffective
  BY <1>3, EarlyPacketKept DEF BuildEffective, Step, Early
<1>4. CASE Guards
  BY <1>4, EarlyPacketKept DEF Guards, Step, Early
<1>5. CASE Income
  BY <1>5, EarlyPacketKept DEF Income, Step, Early
<1>6. CASE Deduct
  BY <1>6, EarlyPacketKept DEF Deduct, Step, Early
<1>7. CASE ComputeSpine
  BY <1>7, EarlyPacketKept DEF ComputeSpine, Step, Early
<1>8. CASE EnterInputs
  BY <1>8, EarlyPacketKept DEF EnterInputs, Step, Early
<1>9. CASE ReadAnswer
  BY <1>9, EarlyPacketKept DEF ReadAnswer, Step, Early
<1>10. QED
  BY <1>1, <1>2, <1>3, <1>4, <1>5, <1>6, <1>7, <1>8, <1>9

\* The federal packet is written whole.
LEMMA PrintFederalPacketKept == ASSUME PInv, PrintFederal PROVE PacketInv'
<1> DEFINE s == Effective(scenario)
           packet == PacketOf(s, figures)
           ledger == ChangeLedger(s) \o EmitLedger(s, figures) \o RenderLedger(s, figures)
<1>1. stage = "print" /\ printed = {} /\ Computed /\ ~Correcting
  <2>1. stage = "print"
    BY DEF PrintFederal, Write
  <2>2. printed = {} /\ Computed
    BY <2>1 DEF PInv, AInv, FInv, IInv, Control, PrintedInv, FiguresInv, Late, Computed
  <2>3. ~Correcting
    <3>1. scenario.command = "federal"
      BY <2>1 DEF PInv, AInv, FInv, IInv, Control, StageInv
    <3>2. PICK t \in Scenarios :
            Correcting => t.command = "amendment" /\ scenario = t.amended
      BY DEF PInv, AInv, FInv, IInv, Control, ScenarioInv
    <3>3. QED
      BY <3>1, <3>2, ScenarioAssumption
  <2>4. QED
    BY <2>1, <2>2, <2>3
<1>2. CASE Refuse(ledger)
  BY <1>2, RefusedPacketKept
<1>3. CASE printed' = printed \cup packet /\ UNCHANGED <<scenario, refusal, figures, filed>>
  <2>1. packet' = packet
    BY <1>3
  <2>2. printed' = packet
    BY <1>1, <1>3
  <2> HIDE DEF packet
  <2>3. Computed' /\ ~Correcting'
    BY <1>1, <1>3 DEF Computed, Correcting
  <2>4. QED
    BY <2>1, <2>2, <2>3 DEF PacketInv, packet
<1>4. QED
  BY <1>2, <1>3 DEF PrintFederal, Write, PacketOf

\* An amendment encloses what it changed of the return's.
LEMMA AttachPacketKept == ASSUME PInv, Attach PROVE PacketInv'
<1> DEFINE s == Effective(scenario)
           changed == ChangedForms(s, figures)
           ledger == AttachLedger(s, figures)
<1>1. Correcting /\ Computed
  BY DEF Attach, Write, PInv, AInv, FInv, IInv, Control, StageInv, FiguresInv, Late, Computed
<1>2. \A i : <<"f4562", i>> \notin changed
  BY DEF ChangedForms, Form, Sheets
<1>3. CASE Refuse(ledger)
  BY <1>3, RefusedPacketKept
<1>4. CASE printed' = printed \cup changed /\ UNCHANGED <<scenario, refusal, figures, filed>>
  <2>1. Correcting' /\ Computed'
    BY <1>1, <1>4 DEF Correcting, Computed
  <2>2. \A i : <<"f4562", i>> \notin printed
    BY <1>1 DEF PInv, PacketInv
  <2> HIDE DEF changed
  <2>3. \A i : <<"f4562", i>> \notin printed'
    BY <1>2, <1>4, <2>2
  <2>4. QED
    BY <2>1, <2>3 DEF PacketInv
<1>5. QED
  BY <1>3, <1>4 DEF Attach, Write

\* The other forms are none of a federal return's.
LEMMA WritingPacketKept ==
  ASSUME PInv, \/ PrintCorporate \/ PrintAudit
               \/ ScorpReturn \/ CAScorpReturn \/ CAScorpK1s
               \/ PrintCalifornia \/ Amend \/ AmendCalifornia
  PROVE  PacketInv'
<1>1. \A c : \A form \in CorporatePacket(c) : form[1] \notin FederalNames
  BY CorporatePacketNames DEF CorporateNames, FederalNames
<1>2. \A c : \A form \in CAScorpPacket(c) \cup CAPacket(c) : form[1] \notin FederalNames
  BY DEF CAScorpPacket, CAPacket, Form, Sheets, CopiesOf, FederalNames
<1>3. /\ \A due : \A form \in Form("depreciation_audit", due) : form[1] \notin FederalNames
      /\ \A form \in Sheets({"f1040x"}) \cup Sheets({"schedule_x"}) : form[1] \notin FederalNames
  BY DEF Form, Sheets, FederalNames
<1>4. CASE PrintCorporate
  <2>1. \A form \in (IF Effective(scenario).corp = None THEN {}
                     ELSE CorporatePacket(Effective(scenario).corp)) : form[1] \notin FederalNames
    BY <1>1
  <2>2. QED
    BY <1>4, <2>1, WrittenPacketKept DEF PrintCorporate
<1>5. CASE PrintAudit
  BY <1>3, <1>5, WrittenPacketKept DEF PrintAudit
<1>6. CASE ScorpReturn
  BY <1>1, <1>6, WrittenPacketKept DEF ScorpReturn
<1>7. CASE CAScorpReturn \/ CAScorpK1s
  BY <1>2, <1>7, FirstFormsOfPacket, WrittenPacketKept DEF CAScorpReturn, CAScorpK1s
<1>8. CASE PrintCalifornia
  BY <1>2, <1>8, WrittenPacketKept DEF PrintCalifornia
<1>9. CASE Amend
  BY <1>3, <1>9, WrittenPacketKept DEF Amend
<1>10. CASE AmendCalifornia
  BY <1>3, <1>10, WrittenPacketKept DEF AmendCalifornia
<1>11. QED
  BY <1>4, <1>5, <1>6, <1>7, <1>8, <1>9, <1>10

\* California's figures come after an amendment's forms, or before any.
LEMMA CaliforniaPacketKept == ASSUME PInv, ComputeCalifornia PROVE PacketInv'
<1> DEFINE s == WithDepreciation(scenario)
           new == CaliforniaFigures(s, figures)
           ledger == CaliforniaLedger(s, figures, new)
<1>1. stage = "california" /\ Computed
  BY DEF ComputeCalifornia, Step, PInv, AInv, FInv, IInv, Control, FiguresInv, Late, Computed
<1>2. CASE Refuse(ledger)
  BY <1>2, RefusedPacketKept
<1>3. CASE figures' = Updated(figures, new) /\ UNCHANGED <<scenario, refusal, printed, filed>>
  <2>1. Computed'
    <3> HIDE DEF new
    <3> DEFINE after == Updated(figures, new)
    <3>1. DOMAIN after = DOMAIN figures \cup DOMAIN new
      BY UpdatedLooksUp
    <3> HIDE DEF after
    <3>2. "spine" \in DOMAIN after
      BY <1>1, <3>1 DEF Computed
    <3>3. QED
      BY <1>3, <3>2 DEF Computed, after
  <2>2. Correcting' = Correcting
    BY <1>3 DEF Correcting
  <2>3. ~Correcting => ~Printed("1040")
    BY <1>1 DEF PInv, AInv, FInv, IInv, Control, PrintedInv, Printed
  <2>4. Printed("1040")' = Printed("1040")
    BY <1>3 DEF Printed
  <2>5. QED
    BY <1>3, <2>1, <2>2, <2>3, <2>4 DEF PInv, PacketInv
<1>4. QED
  BY <1>2, <1>3 DEF ComputeCalifornia, Step, Proceed

LEMMA FilePacketKept == ASSUME PInv, File PROVE PacketInv'
<1>1. printed = {} /\ printed' = {}
  BY DEF File, PInv, AInv, FInv, IInv, Control, PrintedInv
<1>2. QED
  BY <1>1 DEF PacketInv, Printed

LEMMA PacketInit == Init => PInv
<1>1. Init => printed = {}
  BY DEF Init
<1>2. QED
  BY <1>1, AmendInit DEF PInv, PacketInv, Printed

LEMMA PacketStep == PInv /\ [Next]_vars => PInv'
<1> SUFFICES ASSUME PInv, [Next]_vars PROVE PInv'
  OBVIOUS
<1>1. AInv'
  BY AmendStep DEF PInv
<1>2. CASE Next
  BY <1>1, <1>2, ComputingPacketKept, PrintFederalPacketKept, AttachPacketKept,
     WritingPacketKept, CaliforniaPacketKept, FilePacketKept
  DEF Next, PInv
<1>3. CASE UNCHANGED vars
  <2>1. UNCHANGED <<scenario, figures, filed, printed>>
    BY <1>3 DEF vars
  <2>2. QED
    BY <1>1, <2>1, PacketStill DEF PInv
<1>4. QED
  BY <1>2, <1>3
----------------------------------------------------------------------------
(* Passive losses.                                                         *)

\* No loss carried in is stated below zero (models.py gives the field no
\* bound).
NoNegativePrior(k1s) == \A i \in DOMAIN k1s : k1s[i].prior >= 0

\* The carried-in losses of the passive K-1s come from the scenario's.
LEMMA PassivePrior ==
  ASSUME NEW k1s, ListOf(k1s, TypedK1), NoNegativePrior(k1s)
  PROVE  SumOf(Passive(k1s), LAMBDA k : Rounded(k.prior)) \in Nat
<1> DEFINE p == Passive(k1s)
           n == Len(p)
           a == [i \in DOMAIN p |-> Rounded(p[i].prior)]
<1>1. ListOf(p, TypedK1)
  BY PartIITypes
<1>2. n \in Nat /\ DOMAIN p = 1 .. n /\ \A i \in 1 .. n : TypedK1(p[i])
  BY <1>1 DEF ListOf, IsList
<1>3. From(p, k1s)
  BY K1Split DEF ListOf
<1>4. \A i \in 1 .. n : \E j \in DOMAIN k1s : p[i] = k1s[j]
  <2>1. DOMAIN k1s = 1 .. Len(k1s)
    BY DEF ListOf, IsList
  <2> HIDE DEF p, n
  <2>2. QED
    BY <1>3, <2>1 DEF From, n
<1> HIDE DEF p, n
<1>5. \A i \in 1 .. n : p[i].prior \in Nat
  <2>1. \A i \in 1 .. n : p[i].prior \in Int
    BY <1>2 DEF TypedK1, K1Amounts8
  <2>2. QED
    BY <1>4, <2>1 DEF NoNegativePrior
<1>6. \A i \in 1 .. n : Rounded(p[i].prior) \in Nat
  BY <1>5, RoundedNatural
<1>7. a \in [1 .. n -> Nat]
  BY <1>2, <1>6
<1> HIDE DEF a
<1>8. SumSeq(a) \in Nat
  BY <1>2, <1>7, SumNatural
<1>9. QED
  BY <1>8 DEF SumOf, a, p

\* Where the ledger does not refuse, no loss is disallowed.
LEMMA NothingDisallowed ==
  ASSUME NEW s, TypedScenario(s), NEW agi \in Int, NoNegativePrior(s.k1s),
         ~PassiveLossRefused(LimitationOf(s, agi))
  PROVE  DisallowedLoss(LimitationOf(s, agi)) = 0
<1> DEFINE f == LimitationOf(s, agi)
<1>1. ListOf(s.k1s, TypedK1)
  BY DEF TypedScenario, TypedReturn, TypedForms
<1>2. /\ f.line1c = SumOf(Passive(s.k1s), LAMBDA k : Rounded(k.prior))
      /\ f.line1a \in Nat /\ f.line1b \in Nat /\ f.allowance \in Nat
      /\ f.nonRentalIncome \in Nat /\ f.nonRentalLoss \in Nat
      /\ f.line11 = Smaller(f.line1a + f.allowance, f.line1b + f.line1c)
  BY LimitationTypes
<1>3. SumOf(Passive(s.k1s), LAMBDA k : Rounded(k.prior)) \in Nat
  BY <1>1, PassivePrior
<1> HIDE DEF f
<1>4. f.line1c \in Nat
  BY <1>2, <1>3
<1>5. ~PassiveLossRefused(f)
  BY DEF f
<1>6. DisallowedLoss(f) = 0
  BY <1>2, <1>4, <1>5, LedgerLeavesNoGap
<1>7. QED
  BY <1>6 DEF f

\* What rounding takes of a net that was not below nothing.
LEMMA NetWithin ==
  ASSUME NEW g \in Int, NEW d \in Int, NEW u \in Int, NEW v \in Int, NEW n \in Nat,
         NEW rents \in Int, NEW used \in Int,
         100 * g - rents \in -50 .. 50, 100 * d - used \in -50 .. 50,
         100 * u - v <= 50 * n, rents >= v + used
  PROVE  g - u - d \in Int /\ 100 * (g - u - d) >= -(50 * n + 100)
<1>1. 100 * g - rents >= -50 /\ 100 * d - used <= 50
  OBVIOUS
<1>2. 100 * (g - u - d) = 100 * g - 100 * u - 100 * d
  OBVIOUS
<1>3. QED
  BY <1>1, <1>2

\* The loss that the rounding of a rental's lines makes.
LEMMA RoundingLoss ==
  ASSUME NEW r, TypedRental(r), TypedActivity(r),
         ~(r.rents < SumOf(r.expenses, LAMBDA e : e) + r.depreciation)
  PROVE  /\ 2 * Negative(RentalNet(r)) <= Len(r.expenses) + 2
         /\ Len(r.expenses) \in Nat /\ Negative(RentalNet(r)) \in Nat
<1> DEFINE x == r.expenses
           n == Len(x)
           a == [i \in DOMAIN x |-> Rounded(x[i])]
           b == [i \in DOMAIN x |-> x[i]]
           net == RentalNet(r)
<1>1. r.rents \in Int /\ x \in Seq(Int) /\ r.depreciation \in Int
  BY DEF TypedRental, TypedActivity, Amounts
<1>2. n \in Nat /\ DOMAIN x = 1 .. n /\ \A i \in 1 .. n : x[i] \in Int
  BY <1>1
<1>3. SumOf(x, Rounded) = SumSeq(a) /\ SumOf(x, LAMBDA e : e) = SumSeq(b)
  BY DEF SumOf
<1> HIDE DEF n
<1>4. a \in [1 .. n -> Int] /\ b \in [1 .. n -> Int]
      /\ \A i \in 1 .. n : 100 * a[i] - b[i] \in -50 .. 50
  BY <1>2, RoundedIsNearest
<1>5. net = Rounded(r.rents) - SumSeq(a) - Rounded(r.depreciation)
  BY <1>3 DEF RentalNet
<1> HIDE DEF a, b
<1>6. /\ 100 * SumSeq(a) - SumSeq(b) \in -(50 * n) .. 50 * n
      /\ SumSeq(a) \in Int /\ SumSeq(b) \in Int
  BY <1>2, <1>4, SumWithin, SumType
<1>7. ~(r.rents < SumSeq(b) + r.depreciation)
  BY <1>3
<1> DEFINE g == Rounded(r.rents)
           d == Rounded(r.depreciation)
           u == SumSeq(a)
           v == SumSeq(b)
<1>8. /\ g \in Int /\ 100 * g - r.rents \in -50 .. 50
      /\ d \in Int /\ 100 * d - r.depreciation \in -50 .. 50
  BY <1>1, RoundedIsNearest
<1> HIDE DEF g, d, u, v, net, x
<1>9. u \in Int /\ v \in Int /\ 100 * u - v <= 50 * n /\ r.rents >= v + r.depreciation
  BY <1>1, <1>2, <1>6, <1>7 DEF u, v
<1>10. net = g - u - d
  BY <1>5 DEF g, d, u
<1>11. net \in Int /\ 100 * net >= -(50 * n + 100)
  <2> DEFINE rents == r.rents
             used == r.depreciation
  <2>1. rents \in Int /\ used \in Int
    BY <1>1
  <2>2. /\ 100 * g - rents \in -50 .. 50 /\ 100 * d - used \in -50 .. 50
        /\ 100 * u - v <= 50 * n /\ rents >= v + used
    BY <1>8, <1>9
  <2> HIDE DEF rents, used
  <2>3. g - u - d \in Int /\ 100 * (g - u - d) >= -(50 * n + 100)
    BY <1>2, <1>8, <1>9, <2>1, <2>2, NetWithin
  <2>4. QED
    BY <1>10, <2>3
<1>12. 2 * Negative(net) <= n + 2 /\ Negative(net) \in Nat
  BY <1>2, <1>11 DEF Negative, Larger
<1>13. QED
  BY <1>2, <1>12 DEF n, net, x

\* Where no Form 8582 is due, only rounding makes a loss.
LEMMA OnlyRounding ==
  ASSUME NEW s, TypedScenario(s), NEW agi \in Int, ~EmitsF8582(s)
  PROVE  LET f == LimitationOf(s, agi) IN
         /\ 2 * f.line1b <= RentalLines(s) /\ RentalLines(s) \in Int
         /\ 2 * DisallowedLoss(f) <= RentalLines(s)
<1> DEFINE f == LimitationOf(s, agi)
           p == Passive(s.k1s)
           m == Len(p)
           x == s.rentals
           n == Len(x)
           rows == [i \in DOMAIN p |-> Negative(K1Row(p[i]))]
           loss == [i \in DOMAIN x |-> Negative(RentalNet(x[i]))]
           twice == [i \in 1 .. n |-> loss[i] + loss[i]]
           lines == [i \in DOMAIN x |-> Len(x[i].expenses) + 2]
<1>1. /\ ListOf(s.k1s, TypedK1) /\ ListOf(x, TypedRental) /\ ListOf(x, TypedActivity)
  BY DEF TypedScenario, TypedReturn, TypedForms, TypedActivities
<1>2. ListOf(p, TypedK1)
  BY <1>1, PartIITypes
<1>3. /\ m \in Nat /\ DOMAIN p = 1 .. m /\ \A i \in 1 .. m : TypedK1(p[i])
      /\ n \in Nat /\ DOMAIN x = 1 .. n
      /\ \A i \in 1 .. n : TypedRental(x[i]) /\ TypedActivity(x[i])
  BY <1>1, <1>2 DEF ListOf, IsList
<1>4. /\ \A i \in DOMAIN p : ~(K1Row(p[i]) < 0)
      /\ \A i \in DOMAIN x :
           ~(x[i].rents < SumOf(x[i].expenses, LAMBDA e : e) + x[i].depreciation)
  BY DEF EmitsF8582, AnyRentalNetLoss, AnyOf
<1>5. /\ RowLoss(p) = SumSeq(rows) /\ PartI(x).line25 = SumSeq(loss)
      /\ RentalLines(s) = SumSeq(lines)
  <2>1. PartI(x).line25 = SumOf(x, LAMBDA r : Negative(RentalNet(r)))
    BY <1>1, PartITypes
  <2>2. QED
    BY <2>1 DEF RowLoss, RentalLines, SumOf
<1>6. /\ f.line1b = RowLoss(p) + PartI(x).line25
      /\ f.line1a \in Nat /\ f.line1b \in Nat /\ f.allowance \in Nat
      /\ f.nonRentalIncome \in Nat /\ f.nonRentalLoss \in Nat
  BY LimitationTypes
<1> HIDE DEF f, p, m, n, x
<1>7. \A i \in 1 .. m : rows[i] = 0
  <2>1. \A i \in 1 .. m : K1Row(p[i]) \in Int
    BY <1>3, K1RowType
  <2>2. \A i \in 1 .. m : Negative(K1Row(p[i])) = 0
    BY <1>3, <1>4, <2>1 DEF Negative, Larger
  <2>3. QED
    BY <1>3, <2>2
<1>8. SumSeq(rows) = 0
  <2>1. rows \in [1 .. m -> Int] /\ \A i \in 1 .. m : rows[i] = rows[i] + rows[i]
    BY <1>3, <1>7
  <2> HIDE DEF rows
  <2> DEFINE total == SumSeq(rows)
  <2>2. total = total + total
    BY <1>3, <2>1, SumAdds
  <2>3. total \in Int
    BY <1>3, <2>1, SumType
  <2> HIDE DEF total
  <2>4. total = 0
    BY <2>2, <2>3
  <2>5. QED
    BY <2>4 DEF total
<1>9. \A i \in 1 .. n : /\ 2 * Negative(RentalNet(x[i])) <= Len(x[i].expenses) + 2
                        /\ Len(x[i].expenses) \in Nat /\ Negative(RentalNet(x[i])) \in Nat
  BY <1>3, <1>4, RoundingLoss
<1>10. /\ loss \in [1 .. n -> Int] /\ lines \in [1 .. n -> Int]
       /\ \A i \in 1 .. n : 2 * loss[i] <= lines[i]
  BY <1>3, <1>9
<1> HIDE DEF loss, lines
<1>11. twice \in [1 .. n -> Int] /\ \A i \in 1 .. n : twice[i] <= lines[i]
                                    /\ twice[i] = loss[i] + loss[i]
  <2>1. \A i \in 1 .. n : loss[i] \in Int /\ lines[i] \in Int
    BY <1>10
  <2>2. QED
    BY <1>10, <2>1
<1> HIDE DEF twice
<1>12. SumSeq(twice) = SumSeq(loss) + SumSeq(loss) /\ SumSeq(twice) <= SumSeq(lines)
       /\ SumSeq(loss) \in Int /\ SumSeq(lines) \in Int
  <2>1. SumSeq(twice) = SumSeq(loss) + SumSeq(loss)
    BY <1>3, <1>10, <1>11, SumAdds
  <2>2. SumSeq(twice) <= SumSeq(lines)
    BY <1>3, <1>10, <1>11, SumMonotone
  <2>3. SumSeq(loss) \in Int /\ SumSeq(lines) \in Int
    BY <1>3, <1>10, SumType
  <2>4. QED
    BY <2>1, <2>2, <2>3
<1>13. 2 * f.line1b <= RentalLines(s)
  <2>1. f.line1b = SumSeq(loss)
    BY <1>5, <1>6, <1>8, <1>12
  <2>2. QED
    BY <1>5, <1>12, <2>1
<1>14. DisallowedLoss(f) <= f.line1b /\ DisallowedLoss(f) \in Int
  <2>1. Negative(f.line1a - f.line1b) <= f.line1b /\ Negative(f.line1a - f.line1b) \in Nat
    BY <1>6 DEF Negative, Larger
  <2> DEFINE rental == f.line1a - f.line1b - (f.nonRentalIncome - f.nonRentalLoss)
             net == Negative(f.line1a - f.line1b)
             excused == Smaller(f.allowance, Smaller(Negative(rental), net))
  <2>2. Negative(rental) \in Nat
    BY <1>6, SidesNatural
  <2>3. DisallowedLoss(f) = net - excused
    BY DEF DisallowedLoss
  <2> HIDE DEF rental, net
  <2>4. net \in Nat /\ net <= f.line1b
    BY <2>1 DEF net
  <2>5. excused \in Nat
    BY <1>6, <2>2, <2>4 DEF Smaller
  <2> HIDE DEF excused
  <2>6. QED
    BY <1>6, <2>3, <2>4, <2>5
<1>15. RentalLines(s) \in Int
  BY <1>5, <1>12
<1>16. 2 * DisallowedLoss(f) <= RentalLines(s)
  BY <1>6, <1>13, <1>14, <1>15
<1>17. QED
  BY <1>13, <1>15, <1>16 DEF f

\* The corporation's K-1s carry no loss in.
LEMMA EffectivePrior ==
  ASSUME NEW sc, TypedScenario(sc), NoNegativePrior(sc.k1s)
  PROVE  NoNegativePrior(Effective(sc).k1s)
<1> DEFINE t == WithShareholderK1s(sc)
<1>1. Effective(sc).k1s = t.k1s
  BY DEF Effective, WithDepreciation
<1>2. ReturnFields \subseteq DOMAIN sc /\ ListOf(sc.k1s, TypedK1) /\ TypedCorporation(sc.corp)
  BY DEF TypedScenario, TypedReturn, TypedForms
<1>3. CASE sc.corp = None
  BY <1>1, <1>3 DEF WithShareholderK1s
<1>4. CASE sc.corp # None
  <2> DEFINE own == sc.k1s
             theirs == ShareholderK1s(sc.corp)
             all == own \o theirs
  <2>1. t.k1s = all
    <3>1. "k1s" \in DOMAIN sc
      BY <1>2 DEF ReturnFields
    <3>2. QED
      BY <1>4, <3>1 DEF WithShareholderK1s
  <2>2. IsList(own) /\ IsList(theirs) /\ Len(theirs) = Len(sc.corp.shares)
    BY <1>2, <1>4, ShareholderTyped DEF ListOf
  <2>3. \A i \in 1 .. Len(theirs) : theirs[i].prior = 0
    <3>1. \A i \in 1 .. Len(sc.corp.shares) :
            theirs[i] = ShareholderK1(Allocations(sc.corp)[i])
      BY <1>2, <1>4, ShareholderTyped
    <3>2. \A allocation : ShareholderK1(allocation).prior = 0
      BY DEF ShareholderK1
    <3>3. QED
      BY <2>2, <3>1, <3>2
  <2> HIDE DEF own, theirs
  <2>4. /\ IsList(all)
        /\ \A i \in 1 .. Len(all) : \/ \E j \in 1 .. Len(own) : all[i] = own[j]
                                    \/ \E j \in 1 .. Len(theirs) : all[i] = theirs[j]
    <3>1. IsList(all)
      BY <2>2, JoinedList
    <3>2. \A i \in 1 .. Len(all) : \/ \E j \in 1 .. Len(own) : all[i] = own[j]
                                   \/ \E j \in 1 .. Len(theirs) : all[i] = theirs[j]
      BY <2>2, JoinedList
    <3>3. QED
      BY <3>1, <3>2
  <2>5. \A j \in 1 .. Len(own) : own[j].prior >= 0
    BY <2>2 DEF NoNegativePrior, own, IsList
  <2> HIDE DEF all
  <2>6. \A i \in DOMAIN all : all[i].prior >= 0
    BY <2>3, <2>4, <2>5 DEF IsList
  <2>7. QED
    BY <1>1, <2>1, <2>6 DEF NoNegativePrior
<1>5. QED
  BY <1>3, <1>4

\* No return goes on, or is printed, with a loss that is disallowed.
LEMMA UnrefusedAllowed ==
  ASSUME PInv, Native /\ ~Printed("1040") => NoNegativePrior(scenario.k1s)
  PROVE  UnrefusedLossIsAllowed
<1> DEFINE s == Effective(scenario)
           agi == figures.spine.line11
           f == LimitationOf(s, agi)
           lost == DisallowedLoss(f)
<1> SUFFICES ASSUME Native \/ Printed("1040")
             PROVE  IF Native \/ EmitsF8582(s) THEN lost = 0 ELSE 2 * lost <= RentalLines(s)
  BY DEF UnrefusedLossIsAllowed
<1>1. FInv /\ Computed
  BY DEF PInv, AInv, PacketInv, Native
<1>2. TypedScenario(scenario) /\ SpineKnown(scenario, figures) /\ TypedScenario(s)
  BY <1>1, ComputedKnown
<1>3. agi = figures.preamble.agi
  BY <1>2, SpineIs
<1>4. agi \in Int
  BY <1>2, <1>3, IncomeFiguresTyped DEF SpineKnown, DeductionsKnown, TypedIncome
<1>5. CASE Native
  <2>1. NativeKnown(scenario, figures)
    BY <1>1, <1>5, NativeComputed
  <2>2. Passes(DeductLedger(s, figures, DeductFigures(s, figures)))
    BY <2>1 DEF NativeKnown
  <2>3. ~PassiveLossRefused(DeductFigures(s, figures).f8582)
    BY <2>2, DeductAsked
  <2>4. DeductFigures(s, figures).f8582 = f
    BY <1>3 DEF DeductFigures
  <2>5. ~PassiveLossRefused(f)
    BY <2>3, <2>4
  <2>6. NoNegativePrior(s.k1s)
    <3>1. CASE ~Printed("1040")
      BY <1>2, <1>5, <3>1, EffectivePrior
    <3>2. CASE Printed("1040")
      <4>1. Passes(EmitLedger(s, figures))
        BY <1>1, <3>2 DEF FInv, KnownInv, EmitInv
      <4>2. QED
        BY <4>1, EmitAsked DEF Line27Refused, AnyOf, NoNegativePrior
    <3>3. QED
      BY <3>1, <3>2
  <2> HIDE DEF s, agi
  <2>7. lost = 0
    BY <1>2, <1>4, <2>5, <2>6, NothingDisallowed
  <2>8. QED
    BY <1>5, <2>7
<1>6. CASE ~Native /\ Printed("1040")
  <2>1. Passes(EmitLedger(s, figures))
    BY <1>1, <1>6 DEF FInv, KnownInv, EmitInv
  <2>2. ~Line27Refused(s.k1s) /\ ~(EmitsF8582(s) /\ PassiveLossRefused(f))
    BY <2>1, EmitAsked
  <2> HIDE DEF s, agi
  <2>3. NoNegativePrior(s.k1s)
    BY <2>2 DEF Line27Refused, AnyOf, NoNegativePrior
  <2>4. EmitsF8582(s) => lost = 0
    BY <1>2, <1>4, <2>2, <2>3, NothingDisallowed
  <2>5. ~EmitsF8582(s) => 2 * lost <= RentalLines(s)
    BY <1>2, <1>4, OnlyRounding
  <2> HIDE DEF f, lost
  <2>6. QED
    BY <1>6, <2>4, <2>5
<1>7. QED
  BY <1>5, <1>6

----------------------------------------------------------------------------
(* The schedules behind a printed return's lines.                          *)

\* Amounts that are nothing add up to nothing.
LEMMA SumOfZeros ==
  ASSUME NEW n \in Nat, NEW a \in [1 .. n -> Int], \A i \in 1 .. n : a[i] = 0
  PROVE  SumSeq(a) = 0
<1> DEFINE total == SumSeq(a)
<1>1. \A i \in 1 .. n : a[i] = a[i] + a[i]
  OBVIOUS
<1>2. total = total + total
  BY <1>1, SumAdds
<1>3. total \in Int
  BY SumType
<1> HIDE DEF total
<1>4. total = 0
  BY <1>2, <1>3
<1>5. QED
  BY <1>4 DEF total

\* No rental and no K-1: nothing on line 41 of Schedule E.
LEMMA NoScheduleE ==
  ASSUME NEW s, TypedScenario(s), ~EmitsScheduleE(s)
  PROVE  Line41(PartI(s.rentals), PartII(s.k1s)) = 0
<1> DEFINE x == s.rentals
           k == s.k1s
<1>1. /\ ListOf(x, TypedRental) /\ ListOf(x, TypedActivity) /\ ListOf(k, TypedK1)
      /\ x = <<>> /\ k = <<>>
  BY DEF EmitsScheduleE, TypedScenario, TypedReturn, TypedForms, TypedActivities
<1>2. DOMAIN x = 1 .. 0 /\ Len(k) = 0 /\ IsList(k)
  BY <1>1 DEF ListOf
<1>3. /\ PartI(x).line26 = PartI(x).line24 - PartI(x).line25
      /\ PartI(x).line24 = SumOf(x, LAMBDA r : Positive(RentalNet(r)))
      /\ PartI(x).line25 = SumOf(x, LAMBDA r : Negative(RentalNet(r)))
  BY <1>1, PartITypes
<1> HIDE DEF x, k
<1>4. PartI(x).line24 = 0 /\ PartI(x).line25 = 0
  <2>1. /\ [i \in DOMAIN x |-> Positive(RentalNet(x[i]))] \in [1 .. 0 -> Int]
        /\ [i \in DOMAIN x |-> Negative(RentalNet(x[i]))] \in [1 .. 0 -> Int]
    BY <1>2
  <2>2. /\ SumSeq([i \in DOMAIN x |-> Positive(RentalNet(x[i]))]) = 0
        /\ SumSeq([i \in DOMAIN x |-> Negative(RentalNet(x[i]))]) = 0
    BY <2>1, SumOfNone
  <2>3. QED
    BY <1>3, <2>2 DEF SumOf
<1>5. ASSUME NEW y, From(y, k)
      PROVE  RowIncome(y) = 0 /\ RowLoss(y) = 0
  <2>1. IsList(y) /\ \A i \in 1 .. Len(y) : \E j \in 1 .. 0 : y[i] = k[j]
    BY <1>2, <1>5 DEF From
  <2>2. Len(y) = 0 /\ DOMAIN y = 1 .. 0
    <3>1. \A i \in 1 .. Len(y) : FALSE
      BY <2>1
    <3>2. Len(y) \in Nat /\ DOMAIN y = 1 .. Len(y)
      BY <2>1 DEF IsList
    <3>3. Len(y) = 0
      BY <3>1, <3>2
    <3>4. QED
      BY <3>2, <3>3
  <2>3. /\ [i \in DOMAIN y |-> Positive(K1Row(y[i]))] \in [1 .. 0 -> Int]
        /\ [i \in DOMAIN y |-> Negative(K1Row(y[i]))] \in [1 .. 0 -> Int]
    BY <2>2
  <2>4. /\ SumSeq([i \in DOMAIN y |-> Positive(K1Row(y[i]))]) = 0
        /\ SumSeq([i \in DOMAIN y |-> Negative(K1Row(y[i]))]) = 0
    BY <2>3, SumOfNone
  <2>5. QED
    BY <2>4 DEF RowIncome, RowLoss, SumOf
<1>6. From(Passive(k), k) /\ From(Nonpassive(k), k)
  BY <1>2, K1Split
<1>7. PartII(k).line32 = 0
  BY <1>5, <1>6 DEF PartII
<1>8. QED
  BY <1>3, <1>4, <1>7 DEF Line41, x, k

\* A Form 1095-A that says nothing, or none, repays nothing.
LEMMA NoRepayment ==
  ASSUME NEW s, TypedScenario(s), NEW agi \in Int, ~EmitsF8962(s)
  PROVE  CreditOf(s, agi).line29 = 0
<1>1. CASE s.block = None
  BY <1>1 DEF CreditOf, NoCredit
<1>2. CASE s.block # None
  <2> DEFINE block == s.block
             magi == agi + block.exempt
             config == s.config
             percent == Percentage(block, magi, PovertyLine[FamilySize(config)])
             line8a == Contribution(magi, percent)
             line8b == MonthlyContribution(line8a)
             x == block.months
             n == Len(x)
             whole == [i \in DOMAIN x |-> Rounded(x[i].premium)]
             least == SumOf(x, LAMBDA m : Rounded(m.slcsp))
             advance == [i \in DOMAIN x |-> Rounded(x[i].advance)]
             monthly == [i \in DOMAIN x |-> MonthCredit(x[i], line8b)]
             line24 == IF Annual(x) THEN Smaller(SumSeq(whole), Positive(least - line8a))
                       ELSE SumSeq(monthly)
             excess == Positive(SumSeq(advance) - line24)
             cap == RepaymentCap(percent)
  <2>1. TypedBlock(block)
    BY <1>2 DEF TypedScenario, TypedReturn, TypedForms
  <2>2. /\ IsList(x) /\ n \in Nat /\ DOMAIN x = 1 .. n /\ block.exempt \in Int
        /\ \A i \in 1 .. n : x[i].premium = 0 /\ x[i].slcsp = 0 /\ x[i].advance = 0
    <3>1. IsList(x) /\ block.exempt \in Int
      BY <1>2, <2>1 DEF TypedBlock, ListOf
    <3>2. \A i \in DOMAIN x : {x[i].premium, x[i].slcsp, x[i].advance} = {0}
      BY <1>2 DEF EmitsF8962, AnyOf
    <3>3. n \in Nat /\ DOMAIN x = 1 .. n
      BY <3>1 DEF IsList
    <3>4. QED
      BY <3>1, <3>2, <3>3
  <2>3. CreditOf(s, agi).line29 = IF cap = None THEN excess ELSE Smaller(excess, cap)
    BY <1>2 DEF CreditOf, F8962, YearCredit, SumOf
  <2>4. CreditOf(s, agi).line29 \in Nat
    <3>1. magi \in Int
      BY <2>2
    <3>2. CreditOf(s, agi) = F8962(block, magi, config)
      BY <1>2 DEF CreditOf
    <3> HIDE DEF magi, block, config
    <3>3. QED
      BY <1>2, <2>1, <3>1, <3>2, CreditTypes DEF block
  <2>5. Rounded(0) = 0
    BY DEF Rounded
  <2>6. line8a \in Int /\ line8b \in Int /\ (cap = None \/ cap \in Nat)
    <3>1. magi \in Int
      BY <2>2
    <3> HIDE DEF magi, block, config
    <3>2. QED
      BY <3>1, ContributionTypes
  <2> HIDE DEF block, percent, line8a, line8b, x, n, cap
  <2>7. \A i \in 1 .. n : MonthCredit(x[i], line8b) = 0
    <3>1. \A i \in 1 .. n :
            MonthCredit(x[i], line8b)
              = Rounded(Smaller(0, Positive(0 - 100 * line8b)))
      BY <2>2 DEF MonthCredit
    <3>2. Positive(0 - 100 * line8b) \in Nat
      BY <2>6, PositiveNatural
    <3>3. Smaller(0, Positive(0 - 100 * line8b)) = 0
      BY <3>2 DEF Smaller
    <3>4. QED
      BY <2>5, <3>1, <3>3
  <2>8. /\ whole \in [1 .. n -> Int] /\ \A i \in 1 .. n : whole[i] = 0
        /\ advance \in [1 .. n -> Int] /\ \A i \in 1 .. n : advance[i] = 0
        /\ monthly \in [1 .. n -> Int] /\ \A i \in 1 .. n : monthly[i] = 0
    BY <2>2, <2>5, <2>7
  <2>9. SumSeq(whole) = 0 /\ SumSeq(advance) = 0 /\ SumSeq(monthly) = 0
    <3> HIDE DEF whole, advance, monthly
    <3>1. QED
      BY <2>2, <2>8, SumOfZeros
  <2>10. least \in Int
    <3>1. least = SumSeq([i \in DOMAIN x |-> Rounded(x[i].slcsp)])
      BY DEF SumOf
    <3>2. [i \in DOMAIN x |-> Rounded(x[i].slcsp)] \in [1 .. n -> Int]
      BY <2>2, <2>5
    <3>3. QED
      BY <2>2, <3>1, <3>2, SumType
  <2> HIDE DEF whole, advance, monthly, least
  <2>11. line24 = 0
    <3>1. Positive(least - line8a) \in Nat
      BY <2>6, <2>10, PositiveNatural
    <3>2. QED
      BY <2>9, <3>1 DEF Smaller
  <2>12. excess = 0
    BY <2>9, <2>11 DEF Positive, Larger
  <2> HIDE DEF excess
  <2>13. QED
    BY <2>3, <2>6, <2>12 DEF Smaller
<1>3. QED
  BY <1>1, <1>2

\* Without business income no Form 8995 has a deduction.
LEMMA NoQBI ==
  ASSUME NEW s, TypedScenario(s), ~HasQBISource(s),
         NEW taxable \in Int, NEW netGain \in Int, NEW qualified \in Int
  PROVE  F8995(QBIInputs(s), taxable, netGain, qualified).line15 = 0
<1> DEFINE c == QBIInputs(s)
           amounts == [i \in DOMAIN s.k1s |-> s.k1s[i].qbi]
           S == {i \in DOMAIN amounts : amounts[i] # 0}
           T == {i \in DOMAIN s.k1s : FALSE}
<1>1. /\ s.businesses = <<>> /\ \A i \in DOMAIN s.k1s : s.k1s[i].qbi = 0
      /\ IsList(s.k1s)
  BY DEF HasQBISource, AnyOf, TypedScenario, TypedReturn, TypedForms, ListOf
<1>2. TypedInputs(c) /\ Len(c.businesses) = 0
  BY <1>1, QBIInputsTyped
<1>3. Len(c.k1QBI) = 0
  <2>1. c.k1QBI = Selection(amounts, S)
    <3>1. c.k1QBI = Where(K1Amounts(s, LAMBDA k : k.qbi), LAMBDA q : q # 0)
      BY DEF QBIInputs
    <3>2. K1Amounts(s, LAMBDA k : k.qbi) = amounts
      BY DEF K1Amounts
    <3>3. Where(amounts, LAMBDA q : q # 0) = Selection(amounts, S)
      <4> HIDE DEF amounts
      <4>1. QED
        BY DEF Where, Selection
    <3>4. QED
      BY <3>1, <3>2, <3>3
  <2>2. S = {}
    BY <1>1
  <2>3. Len(amounts) \in Nat /\ IsList(amounts)
    <3>1. Len(s.k1s) \in Nat /\ DOMAIN s.k1s = 1 .. Len(s.k1s)
      BY <1>1 DEF IsList
    <3>2. amounts \in [1 .. Len(s.k1s) -> {0}]
      BY <1>1, <3>1
    <3> HIDE DEF amounts
    <3>3. QED
      BY <3>1, <3>2, MapIsList
  <2> HIDE DEF amounts, S
  <2>4. Kept(Len(amounts), S) \in Seq(S \cap (1 .. Len(amounts)))
    BY <2>3, KeptAre
  <2>5. Kept(Len(amounts), S) = <<>>
    BY <2>2, <2>4
  <2>6. Selection(amounts, S) = <<>>
    BY <2>5 DEF Selection
  <2>7. QED
    BY <2>1, <2>6
<1>4. Len(K1Rows8995(c)) = 0 /\ K1Rows8995(c) \in Seq(Int)
  <2> HIDE DEF c
  <2>1. QED
    BY <1>2, <1>3, K1RowsCarry
<1>5. BusinessRows(c) = <<>>
  <2> DEFINE kept == Kept(Len(c.businesses), EarningAt(c))
  <2> HIDE DEF c
  <2>1. Len(ActiveBusinesses(c)) <= 1
    <3>1. /\ Len(ActiveBusinesses(c)) = Len(Kept(Len(c.businesses), ActiveAt(c)))
          /\ Len(Kept(Len(c.businesses), ActiveAt(c))) \in Nat
          /\ Len(Kept(Len(c.businesses), ActiveAt(c))) <= Len(c.businesses)
      BY <1>2, ActiveCount
    <3>2. QED
      BY <1>2, <3>1
  <2>2. kept = <<>>
    <3> DEFINE E == EarningAt(c)
    <3>1. kept \in Seq(E \cap (1 .. 0))
      BY <1>2, KeptAre
    <3> HIDE DEF E
    <3>2. QED
      BY <3>1
  <2>3. BusinessRows(c) = [i \in DOMAIN kept |->
                   Rounded(100 * (c.businesses[kept[i]].net - c.half) - HealthShare(c))]
    BY <2>1, BusinessRowsAre
  <2> HIDE DEF kept
  <2>4. QED
    BY <2>2, <2>3
<1>6. QBITotal(c) = 0
  <2>1. K1Rows8995(c) = <<>>
    BY <1>4
  <2>2. BusinessRows(c) \o K1Rows8995(c) = <<>>
    BY <1>5, <2>1
  <2>3. [i \in DOMAIN <<>> |-> <<>>[i]] \in [1 .. 0 -> Int]
    OBVIOUS
  <2>4. SumSeq([i \in DOMAIN <<>> |-> <<>>[i]]) = 0
    BY <2>3, SumOfNone
  <2>5. QED
    BY <2>2, <2>4 DEF QBITotal, SumOf
<1> DEFINE limit == FifthOf(Positive(taxable - (netGain + qualified)))
<1>7. limit \in Nat
  <2>1. Positive(taxable - (netGain + qualified)) \in Nat
    BY PositiveNatural
  <2>2. QED
    BY <2>1 DEF FifthOf
<1>8. F8995(c, taxable, netGain, qualified).line15
        = Smaller(FifthOf(Positive(QBITotal(c))), limit)
  BY DEF F8995
<1> HIDE DEF c, limit
<1>9. FifthOf(Positive(0)) = 0
  BY DEF FifthOf, Positive, Larger
<1>10. QED
  BY <1>6, <1>7, <1>8, <1>9 DEF Smaller, c

\* A Form 8949 with a row comes of a lot, and so with a Schedule D.
LEMMA RowsAreOfLots ==
  ASSUME NEW s, TypedScenario(s), EmitsF8949(s)
  PROVE  EmitsScheduleD(s)
<1> DEFINE S == {i \in DOMAIN s.lots : ~(s.lots[i].reported /\ ~Adjusted(s.lots[i]))}
<1>1. IsList(s.lots) /\ Listed(s.lots) = Selection(s.lots, S)
  BY DEF TypedScenario, TypedReturn, TypedForms, ListOf, Listed, Where, Selection
<1>2. PICK i \in DOMAIN Listed(s.lots) : Listed(s.lots)[i].proceeds # 0
  BY DEF EmitsF8949, AnyOf
<1> HIDE DEF S
<1>3. IsList(Selection(s.lots, S))
  BY <1>1, SelectedList
<1>4. \A j \in 1 .. Len(Selection(s.lots, S)) :
        \E m \in 1 .. Len(s.lots) : m \in S /\ Selection(s.lots, S)[j] = s.lots[m]
  BY <1>1, SelectedList
<1>5. i \in 1 .. Len(Selection(s.lots, S))
  BY <1>1, <1>2, <1>3 DEF IsList
<1>6. PICK m \in 1 .. Len(s.lots) : TRUE
  BY <1>4, <1>5
<1>7. s.lots # <<>>
  BY <1>6
<1>8. QED
  BY <1>7 DEF EmitsScheduleD

\* The health premiums, the lots and the year of a return are as given.
LEMMA EffectiveAsGiven ==
  ASSUME NEW sc
  PROVE  Effective(sc).health = sc.health /\ Effective(sc).year = sc.year
<1> DEFINE t == WithShareholderK1s(sc)
           s == Effective(sc)
<1>1. t.health = sc.health /\ t.year = sc.year
  BY DEF WithShareholderK1s
<1> HIDE DEF t
<1>2. s.health = t.health /\ s.year = t.year
  BY DEF WithDepreciation, Effective, t
<1> HIDE DEF s
<1>3. QED
  BY <1>1, <1>2 DEF s

\* A return on the native route is of a year the family of Schedule C knows.
LEMMA NativeYear ==
  ASSUME NEW sc, TypedScenario(sc), NEW f, SpineKnown(sc, f), f.path = "native"
  PROVE  Effective(sc).year \in ScheduleCYears
<1> DEFINE s == Effective(sc)
<1>1. InSpineScope(s)
  <2>1. SUFFICES ASSUME ~InSpineScope(s) PROVE FALSE
    OBVIOUS
  <2>2. PICK answer \in WorkbookAnswers : Knows(f, WorkbookFigures(s, f, answer))
    BY <2>1 DEF SpineKnown
  <2> DEFINE new == WorkbookFigures(s, f, answer)
  <2>3. "path" \in DOMAIN new /\ new.path = "workbook" /\ \A x \in DOMAIN new : f[x] = new[x]
    BY <2>2 DEF WorkbookFigures, Knows
  <2> HIDE DEF new
  <2>4. QED
    BY <2>3
<1>2. Cell(s) \in NativeSpine
  BY <1>1 DEF InSpineScope
<1>3. QED
  BY <1>2, GridsAssumption DEF Cell

\* A printed native return's lines have their schedules beside them.
LEMMA AttachmentsAgree ==
  ASSUME PInv, Native => scenario.health >= 0
  PROVE  AttachmentsMatch
<1> DEFINE s == Effective(scenario)
           f == figures
           packet == PacketOf(s, f)
           businesses == \E i \in DOMAIN s.businesses : <<"sch_c", i>> \in printed
<1> SUFFICES ASSUME Printed("1040"), Native, ~Correcting
    PROVE
       /\ f.sch1.line3 # 0 => businesses
       /\ f.sch1.line5 # 0 => Printed("sch_e")
       /\ f.sch1.line15 # 0 => Sheets({"sch_se", "sch_1", "sch_2"}) \subseteq printed
       /\ f.spine.line17 + f.spine.line23 # 0 => Printed("sch_2")
       /\ f.spine.line17 # 0 => Printed("8962")
       /\ f.medicare.line18 # 0 => Printed("8959")
       /\ f.spine.line13 # 0 => Printed("f8995")
       /\ f.f8582.line1b - f.f8582.line1a > RentalLines(s) => Printed("f8582")
       /\ Printed("f8949") => Printed("sch_d")
       /\ Printed("sch_1_8z_stmt") => Printed("sch_1")
       /\ (\E i \in DOMAIN Activities4562(s) : <<"f4562", i>> \in printed)
            => businesses \/ Printed("sch_e")
  BY DEF AttachmentsMatch
<1>1. /\ FInv /\ Computed /\ f.path = "native"
      /\ packet \subseteq printed
      /\ \A form \in printed : form[1] \in FederalNames => form \in packet
  BY DEF PInv, AInv, PacketInv, Native
<1>2. /\ TypedScenario(scenario) /\ SpineKnown(scenario, f) /\ TypedScenario(s)
      /\ NativeKnown(scenario, f)
  BY <1>1, ComputedKnown, NativeComputed
<1>3. /\ f.income = IncomeOf(s) /\ f.sch1 = Schedule1Of(s) /\ f.medicare = MedicareOf(s)
      /\ f.seTax = SETax(BusinessIncome(s.businesses), Wages(s))
  BY <1>2, NativeIncome
<1>4. /\ f.sch1.line3 = BusinessIncome(s.businesses)
      /\ f.sch1.line5 = Line41(PartI(s.rentals), PartII(s.k1s))
      /\ f.sch1.line15 = HalfOf(s) /\ f.sch1.line15 \in Nat
      /\ f.sch1.line17 = Rounded(s.health)
      /\ f.sch1.line26 = f.sch1.line15 + f.sch1.line17
  <2>1. /\ Schedule1Of(s).line3 = BusinessIncome(s.businesses)
        /\ Schedule1Of(s).line5 = Line41(PartI(s.rentals), PartII(s.k1s))
        /\ Schedule1Of(s).line15 = HalfOf(s) /\ Schedule1Of(s).line15 \in Nat
        /\ Schedule1Of(s).line17 = Rounded(s.health)
    BY <1>2, Schedule1Types
  <2>2. Schedule1Of(s).line26 = Schedule1Of(s).line15 + Schedule1Of(s).line17
    BY DEF Schedule1Of, Schedule1
  <2>3. QED
    BY <1>3, <2>1, <2>2
<1>5. /\ f.seTax \in Nat /\ f.medicare.line18 \in Nat /\ f.ptc.line29 \in Nat
      /\ f.preamble.agi \in Int /\ f.preamble.netGain \in Int /\ f.income.qualified \in Int
      /\ f.taxable \in Int
  <2>1. TypedIncome(f)
    BY <1>2, IncomeFiguresTyped DEF SpineKnown, DeductionsKnown
  <2>2. f.ptc.line29 \in Nat /\ f.taxable \in Int
    BY <1>2, DeductFiguresTyped DEF SpineKnown
  <2>3. QED
    BY <2>1, <2>2 DEF TypedIncome
<1>6. /\ f.spine.line17 = f.ptc.line29 /\ f.spine.line23 = f.medicare.line18 + f.seTax
  BY <1>2, NativeSpineIs
<1>7. s.year \in ScheduleCYears /\ s.health >= 0 /\ s.health \in Int
  BY <1>1, <1>2, NativeYear, EffectiveAsGiven DEF TypedScenario, TypedReturn
<1>8. \A form \in GatedForms : Emits(form, s, f) => Printed(form)
  BY <1>1 DEF PacketOf, FederalPacket, Sheets, Printed
<1>9. s.businesses # <<>> => businesses
  <2>1. SUFFICES ASSUME s.businesses # <<>> PROVE businesses
    OBVIOUS
  <2>2. 1 \in DOMAIN s.businesses
    BY <1>2, <2>1 DEF TypedScenario, TypedReturn, TypedActivities, ListOf, IsList
  <2>3. <<"sch_c", 1>> \in packet
    BY <2>2 DEF PacketOf, FederalPacket, CopiesOf
  <2>4. QED
    BY <1>1, <2>2, <2>3
<1>10. EmitsScheduleE(s) => Printed("sch_e")
  BY <1>8 DEF GatedForms, Emits
<1> HIDE DEF packet
<1>11. f.sch1.line3 # 0 => businesses
  BY <1>2, <1>4, <1>9, NoBusiness
<1>12. f.sch1.line5 # 0 => Printed("sch_e")
  BY <1>2, <1>4, <1>10, NoScheduleE
<1>13. f.ptc.line29 + f.seTax + f.medicare.line18 # 0 => Printed("sch_2")
  <2>1. f.ptc.line29 + f.seTax + f.medicare.line18 # 0 => EmitsSchedule2(s, f)
    BY <1>1, <1>5, <1>7 DEF EmitsSchedule2
  <2>2. QED
    BY <1>8, <2>1 DEF GatedForms, Emits
<1>14. f.sch1.line15 # 0 => Sheets({"sch_se", "sch_1", "sch_2"}) \subseteq printed
  <2>1. SUFFICES ASSUME f.sch1.line15 # 0
                 PROVE  Printed("sch_se") /\ Printed("sch_1") /\ Printed("sch_2")
    BY DEF Sheets, Printed
  <2>2. f.sch1.line15 = (f.seTax + 1) \div 2
    BY <1>3, <1>4 DEF HalfOf, HalfSE
  <2>3. f.seTax > 0
    BY <1>5, <2>1, <2>2
  <2>4. Rounded(s.health) \in Nat
    BY <1>7, RoundedNatural
  <2>5. f.sch1.line26 # 0
    BY <1>4, <2>1, <2>4
  <2>6. Printed("sch_se") /\ Printed("sch_1")
    BY <1>8, <2>3, <2>5 DEF GatedForms, Emits
  <2>7. f.ptc.line29 + f.seTax + f.medicare.line18 # 0
    BY <1>5, <2>3
  <2>8. QED
    BY <1>13, <2>6, <2>7
<1>15. f.spine.line17 + f.spine.line23 # 0 => Printed("sch_2")
  BY <1>5, <1>6, <1>13
<1>16. DeductFigures(s, f).ptc = CreditOf(s, f.preamble.agi)
       /\ DeductFigures(s, f).f8582 = LimitationOf(s, f.preamble.agi)
       /\ DeductFigures(s, f).taxable = f.preamble.agi - f.deduction
       /\ DeductFigures(s, f).qbi = F8995(QBIInputs(s), f.preamble.agi - f.deduction,
                                          f.preamble.netGain, f.income.qualified)
  BY <1>2, NativeDeductions DEF DeductFigures
<1>17. /\ f.ptc = CreditOf(s, f.preamble.agi) /\ f.f8582 = LimitationOf(s, f.preamble.agi)
       /\ f.qbi = F8995(QBIInputs(s), f.taxable, f.preamble.netGain, f.income.qualified)
  BY <1>2, <1>16, NativeDeductions
<1>18. f.spine.line17 # 0 => Printed("8962")
  <2>1. f.spine.line17 # 0 => EmitsF8962(s)
    BY <1>2, <1>5, <1>6, <1>17, NoRepayment
  <2>2. QED
    BY <1>8, <2>1 DEF GatedForms, Emits
<1>19. f.medicare.line18 # 0 => Printed("8959")
  BY <1>8 DEF GatedForms, Emits, EmitsF8959
<1>20. f.spine.line13 # 0 => Printed("f8995")
  <2>1. f.spine.line13 = f.qbi.line15
    <3> DEFINE new == SpineFigures(s, f)
    <3>1. "spine" \in DOMAIN new /\ \A x \in DOMAIN new : f[x] = new[x]
      BY <1>2 DEF NativeKnown, Knows, SpineFigures
    <3>2. new.spine.line13 = f.qbi.line15
      BY DEF SpineFigures, Spine
    <3> HIDE DEF new
    <3>3. QED
      BY <3>1, <3>2
  <2>2. f.spine.line13 # 0 => HasQBISource(s)
    <3> DEFINE netGain == f.preamble.netGain
               qualified == f.income.qualified
               qbi == F8995(QBIInputs(s), f.taxable, netGain, qualified)
    <3>1. f.taxable \in Int /\ netGain \in Int /\ qualified \in Int /\ f.qbi = qbi
      BY <1>5, <1>17
    <3> HIDE DEF netGain, qualified, s
    <3>2. ~HasQBISource(s) => qbi.line15 = 0
      BY <1>2, <3>1, NoQBI
    <3> HIDE DEF qbi
    <3>3. QED
      BY <2>1, <3>1, <3>2
  <2>3. f.spine.line13 # 0 => EmitsF8995(s, f)
    BY <2>1, <2>2 DEF EmitsF8995
  <2>4. QED
    BY <1>8, <2>3 DEF GatedForms, Emits
<1>21. f.f8582.line1b - f.f8582.line1a > RentalLines(s) => Printed("f8582")
  <2>1. f.f8582.line1a \in Nat /\ f.f8582.line1b \in Nat
    BY <1>2, <1>5, <1>17, LimitationTypes
  <2>2. ~EmitsF8582(s) => 2 * f.f8582.line1b <= RentalLines(s) /\ RentalLines(s) \in Int
    BY <1>2, <1>5, <1>17, OnlyRounding
  <2>3. f.f8582.line1b - f.f8582.line1a > RentalLines(s) => EmitsF8582(s)
    BY <2>1, <2>2
  <2>4. QED
    BY <1>8, <2>3 DEF GatedForms, Emits
<1>22. Printed("f8949") => Printed("sch_d")
  <2>1. SUFFICES ASSUME Printed("f8949") PROVE Printed("sch_d")
    OBVIOUS
  <2>2. <<"f8949", 0>> \in packet
    BY <1>1, <2>1 DEF Printed, FederalNames
  <2>3. EmitsF8949(s)
    BY <2>2 DEF packet, PacketOf, FederalPacket, Statement8z, Form, Sheets, CopiesOf, Copies,
                ChangePacket, GatedForms, Emits
  <2>4. EmitsScheduleD(s)
    BY <1>2, <2>3, RowsAreOfLots
  <2>5. QED
    BY <1>8, <2>4 DEF GatedForms, Emits
<1>23. Printed("sch_1_8z_stmt") => Printed("sch_1")
  <2>1. SUFFICES ASSUME Printed("sch_1_8z_stmt") PROVE Printed("sch_1")
    OBVIOUS
  <2>2. <<"sch_1_8z_stmt", 0>> \in packet
    BY <1>1, <2>1 DEF Printed, FederalNames
  <2>3. <<"sch_1", 0>> \in FederalPacket(s, f)
    BY <2>2 DEF packet, PacketOf, FederalPacket, Statement8z, Form, Sheets, CopiesOf, Copies,
                ChangePacket, GatedForms
  <2>4. QED
    BY <1>1, <2>3 DEF packet, PacketOf, Printed
<1>24. (\E i \in DOMAIN Activities4562(s) : <<"f4562", i>> \in printed)
         => businesses \/ Printed("sch_e")
  <2>1. SUFFICES ASSUME s.businesses = <<>>, s.rentals = <<>>
                 PROVE  \A i \in DOMAIN Activities4562(s) : FALSE
    BY <1>9, <1>10 DEF EmitsScheduleE
  <2>2. Activities4562(s) = <<>>
    BY <2>1 DEF Activities4562
  <2>3. QED
    BY <2>2
<1> HIDE DEF businesses, s, f
<1>25. QED
  BY <1>11, <1>12, <1>14, <1>15, <1>18, <1>19, <1>20, <1>21, <1>22, <1>23, <1>24

----------------------------------------------------------------------------
(* Form 4562 beside the schedules.                                         *)

\* The activities of a return: its rentals, then its businesses.
LEMMA ActivityOf ==
  ASSUME NEW s, TypedActivities(s)
  PROVE  /\ IsList(Activities4562(s))
         /\ \A i \in 1 .. Len(Activities4562(s)) :
              /\ TypedActivity(Activities4562(s)[i])
              /\ DepreciableReturn(s) => Depreciable(Activities4562(s)[i], s.year)
<1> DEFINE x == s.rentals
           y == s.businesses
<1>1. IsList(x) /\ IsList(y)
  BY DEF TypedActivities, ListOf
<1>2. /\ \A i \in 1 .. Len(x) : TypedActivity(x[i])
      /\ \A i \in 1 .. Len(y) : TypedActivity(y[i])
  BY DEF TypedActivities, ListOf
<1>3. DepreciableReturn(s) =>
        /\ \A i \in 1 .. Len(x) : Depreciable(x[i], s.year)
        /\ \A i \in 1 .. Len(y) : Depreciable(y[i], s.year)
  BY DEF DepreciableReturn
<1>4. Activities4562(s) = x \o y
  BY DEF Activities4562
<1> HIDE DEF x, y
<1>5. /\ IsList(x \o y)
      /\ \A i \in 1 .. Len(x \o y) :
           \/ \E j \in 1 .. Len(x) : (x \o y)[i] = x[j]
           \/ \E j \in 1 .. Len(y) : (x \o y)[i] = y[j]
  BY <1>1, JoinedList
<1> DEFINE acts == x \o y
<1> HIDE DEF acts
<1>6. /\ IsList(acts) /\ acts = Activities4562(s)
      /\ \A i \in 1 .. Len(acts) :
           \/ \E j \in 1 .. Len(x) : acts[i] = x[j]
           \/ \E j \in 1 .. Len(y) : acts[i] = y[j]
  BY <1>4, <1>5 DEF acts
<1>7. ASSUME NEW i \in 1 .. Len(acts)
      PROVE  TypedActivity(acts[i]) /\ (DepreciableReturn(s) => Depreciable(acts[i], s.year))
  BY <1>2, <1>3, <1>6
<1>8. QED
  BY <1>6, <1>7

\* The activities of the return in effect are those given, each with the
\* depreciation that the resolver found for it.
LEMMA EffectiveActivities ==
  ASSUME NEW sc, TypedScenario(sc)
  PROVE  /\ IsList(Activities4562(sc)) /\ IsList(Activities4562(Effective(sc)))
         /\ Len(Activities4562(Effective(sc))) = Len(Activities4562(sc))
         /\ \A i \in 1 .. Len(Activities4562(sc)) :
              Activities4562(Effective(sc))[i]
                = [Activities4562(sc)[i] EXCEPT !.depreciation =
                     Resolved(Activities4562(sc)[i], sc.year, MidQuarterOf(sc))]
         /\ Effective(sc).year = sc.year /\ Effective(sc).answer = sc.answer
<1> DEFINE t == WithShareholderK1s(sc)
           mq == MidQuarterOf(sc)
           used(act) == [act EXCEPT !.depreciation = Resolved(act, sc.year, mq)]
           x == sc.rentals
           y == sc.businesses
           u == [i \in DOMAIN x |-> used(x[i])]
           v == [i \in DOMAIN y |-> used(y[i])]
           s == Effective(sc)
<1>1. /\ t.rentals = x /\ t.businesses = y /\ t.year = sc.year /\ t.answer = sc.answer
      /\ DOMAIN t = DOMAIN sc
  BY DEF WithShareholderK1s
<1>2. "rentals" \in DOMAIN sc /\ "businesses" \in DOMAIN sc /\ IsList(x) /\ IsList(y)
  BY DEF TypedScenario, TypedReturn, ReturnFields, TypedActivities, ListOf
<1>3. MidQuarterOf(t) = mq
  BY <1>1 DEF MidQuarterOf, Activities4562
<1>4. s = [t EXCEPT !.rentals = u, !.businesses = v]
  <2> HIDE DEF t, mq
  <2>1. WithDepreciation(t) = [t EXCEPT !.rentals = u, !.businesses = v]
    BY <1>1, <1>3 DEF WithDepreciation
  <2>2. QED
    BY <2>1 DEF Effective, t
<1> HIDE DEF t, u, v, s
<1>5. s.rentals = u /\ s.businesses = v /\ s.year = sc.year /\ s.answer = sc.answer
  BY <1>1, <1>2, <1>4
<1>6. /\ IsList(u) /\ Len(u) = Len(x) /\ \A i \in 1 .. Len(x) : u[i] = used(x[i])
      /\ IsList(v) /\ Len(v) = Len(y) /\ \A i \in 1 .. Len(y) : v[i] = used(y[i])
  <2> HIDE DEF used
  <2>1. DOMAIN x = 1 .. Len(x) /\ Len(x) \in Nat /\ DOMAIN y = 1 .. Len(y) /\ Len(y) \in Nat
    BY <1>2 DEF IsList
  <2> DEFINE m == Len(x)
             n == Len(y)
  <2>2. /\ u \in [1 .. m -> {used(x[i]) : i \in 1 .. m}]
        /\ v \in [1 .. n -> {used(y[i]) : i \in 1 .. n}]
    BY <2>1 DEF u, v
  <2>3. m \in Nat /\ n \in Nat
    BY <2>1
  <2> HIDE DEF m, n
  <2>4. IsList(u) /\ Len(u) = m /\ IsList(v) /\ Len(v) = n
    BY <2>2, <2>3, MapIsList
  <2>5. QED
    BY <2>1, <2>4 DEF u, v, m, n
<1> DEFINE given == x \o y
           acts == u \o v
<1>7. given = Activities4562(sc) /\ acts = Activities4562(s)
  BY <1>5 DEF Activities4562
<1> HIDE DEF x, y
<1>8. /\ IsList(given) /\ Len(given) = Len(x) + Len(y)
      /\ \A i \in 1 .. Len(x) : given[i] = x[i]
      /\ \A i \in 1 .. Len(y) : given[Len(x) + i] = y[i]
  BY <1>2, JoinedList
<1>9. /\ IsList(acts) /\ Len(acts) = Len(u) + Len(v)
      /\ \A i \in 1 .. Len(u) : acts[i] = u[i]
      /\ \A i \in 1 .. Len(v) : acts[Len(u) + i] = v[i]
  BY <1>6, JoinedList
<1> HIDE DEF given, acts, used
<1>10. \A i \in 1 .. Len(given) : acts[i] = used(given[i])
  <2> SUFFICES ASSUME NEW i \in 1 .. Len(given) PROVE acts[i] = used(given[i])
    OBVIOUS
  <2>1. Len(x) \in Nat /\ Len(y) \in Nat
    BY <1>2 DEF IsList
  <2>2. CASE i \in 1 .. Len(x)
    BY <1>6, <1>8, <1>9, <2>2
  <2>3. CASE i \notin 1 .. Len(x)
    <3> DEFINE j == i - Len(x)
    <3>1. j \in 1 .. Len(y) /\ i = Len(x) + j
      BY <1>8, <2>1, <2>3
    <3> HIDE DEF j
    <3>2. QED
      BY <1>6, <1>8, <1>9, <3>1
  <2>4. QED
    BY <2>2, <2>3
<1>11. QED
  BY <1>5, <1>6, <1>7, <1>8, <1>9, <1>10 DEF used, s

\* The forty percent test counts bases, which the resolver leaves alone: the
\* return in effect has the answer of the return given.
LEMMA EffectiveMidQuarter ==
  ASSUME NEW sc, TypedScenario(sc)
  PROVE  MidQuarterOf(Effective(sc)) = MidQuarterOf(sc)
<1> DEFINE s == Effective(sc)
           given == Activities4562(sc)
           acts == Activities4562(s)
           held(act, year, months) ==
             SumOf(act.assets, LAMBDA a :
               IF InTest(a, year) /\ a.month \in months THEN a.basis ELSE 0)
<1>1. /\ DOMAIN acts = DOMAIN given /\ s.year = sc.year /\ s.answer = sc.answer
      /\ \A i \in DOMAIN given : acts[i].assets = given[i].assets
  <2> HIDE DEF s
  <2>1. /\ IsList(given) /\ IsList(acts) /\ Len(acts) = Len(given)
        /\ \A i \in 1 .. Len(given) :
             acts[i] = [given[i] EXCEPT !.depreciation =
                          Resolved(given[i], sc.year, MidQuarterOf(sc))]
        /\ s.year = sc.year /\ s.answer = sc.answer
    BY EffectiveActivities DEF s
  <2> HIDE DEF given, acts
  <2>2. DOMAIN acts = 1 .. Len(acts) /\ DOMAIN given = 1 .. Len(given)
    BY <2>1 DEF IsList
  <2>3. \A act, v : [act EXCEPT !.depreciation = v].assets = act.assets
    OBVIOUS
  <2>4. ASSUME NEW i \in 1 .. Len(given) PROVE acts[i].assets = given[i].assets
    <3> DEFINE g == given[i]
               v == Resolved(g, sc.year, MidQuarterOf(sc))
    <3>1. acts[i] = [g EXCEPT !.depreciation = v]
      BY <2>1
    <3> HIDE DEF g, v
    <3>2. acts[i].assets = g.assets
      BY <2>3, <3>1
    <3>3. QED
      BY <3>2 DEF g
  <2>5. QED
    BY <2>1, <2>2, <2>4
<1> HIDE DEF s, given, acts
<1>2. ASSUME NEW year, NEW months
      PROVE  TestBasis(acts, year, months) = TestBasis(given, year, months)
  <2>1. \A i \in DOMAIN given : held(acts[i], year, months) = held(given[i], year, months)
    BY <1>1
  <2>2. /\ TestBasis(acts, year, months) = SumSeq([i \in DOMAIN acts |-> held(acts[i], year, months)])
        /\ TestBasis(given, year, months) = SumSeq([i \in DOMAIN given |-> held(given[i], year, months)])
    BY DEF TestBasis, SumOf
  <2> HIDE DEF held
  <2>3. [i \in DOMAIN acts |-> held(acts[i], year, months)]
          = [i \in DOMAIN given |-> held(given[i], year, months)]
    BY <1>1, <2>1
  <2>4. QED
    BY <2>2, <2>3
<1>3. FortyPercent(acts, s.year) = FortyPercent(given, sc.year)
  <2>1. /\ TestBasis(acts, s.year, 10 .. 12) = TestBasis(given, sc.year, 10 .. 12)
        /\ TestBasis(acts, s.year, 1 .. 12) = TestBasis(given, sc.year, 1 .. 12)
    BY <1>1, <1>2
  <2>2. QED
    BY <2>1 DEF FortyPercent
<1>4. QED
  BY <1>1, <1>3 DEF MidQuarterOf, s, given, acts

\* An override that passed the entries stands beside no asset placed this
\* year, and restates what the engine finds.
LEMMA OverridePassed ==
  ASSUME NEW s, Passes(ResolverLedger(s)),
         NEW i \in DOMAIN Activities4562(s)
  PROVE  LET act == Activities4562(s)[i] IN
         /\ ~OverrideBesidePlacement(act, s.year)
         /\ ~StaleOverride(act, s.year, MidQuarterOf(s))
<1> DEFINE acts == Activities4562(s)
           mq == MidQuarterOf(s)
<1>1. \A a, b, c, d : Passes(<<a, b, c, d>>) => ~c[2] /\ ~d[2]
  BY DEF Passes, AnyOf, Offends
<1>2. /\ ~SomeActivity(s, LAMBDA act : OverrideBesidePlacement(act, s.year))
      /\ ~SomeActivity(s, LAMBDA act : StaleOverride(act, s.year, mq))
  BY <1>1 DEF ResolverLedger
<1>3. QED
  BY <1>2 DEF SomeActivity, AnyOf

\* A copy that is due ties: what an activity that places property this year
\* deducts is what its Form 4562 adds up to.
LEMMA CopyAddsUp ==
  ASSUME NEW act, TypedActivity(act), NEW year \in Int, NEW midQuarter,
         Depreciable(act, year), CopyRequired(act, year),
         ~OverrideBesidePlacement(act, year)
  PROVE  F4562(act, year, midQuarter).line22 = Rounded(Resolved(act, year, midQuarter))
<1> DEFINE x == act.assets
           engine == EngineAmount(act, year, midQuarter)
<1>1. engine \in Int
  BY ResolvedType
<1>2. F4562(act, year, midQuarter).line22 = engine
  BY Line22IsEngine
<1>3. IsList(x) /\ Len(x) \in Nat /\ DOMAIN x = 1 .. Len(x)
  BY DEF TypedActivity, ListOf, IsList
<1>4. x # <<>>
  <2>1. SUFFICES ASSUME x = <<>> PROVE FALSE
    OBVIOUS
  <2> DEFINE S == {i \in DOMAIN x : x[i].placed = year}
             now == Selection(x, S)
  <2>2. now # <<>>
    BY DEF CopyRequired, PlacedNow, Where
  <2> HIDE DEF S
  <2>3. /\ IsList(now)
        /\ \A i \in 1 .. Len(now) : \E j \in 1 .. Len(x) : j \in S /\ now[i] = x[j]
    BY <1>3, SelectedList
  <2>4. Len(x) = 0
    BY <2>1
  <2> HIDE DEF now, x
  <2>5. Len(now) \in Nat /\ \A i \in 1 .. Len(now) : FALSE
    BY <2>3, <2>4 DEF IsList
  <2>6. Len(now) = 0
    BY <2>5
  <2>7. now = [i \in 1 .. 0 |-> now[i]]
    BY <2>3, <2>6 DEF IsList
  <2>8. now = <<>>
    BY <2>7
  <2>9. QED
    BY <2>2, <2>8
<1>5. ~HasOverride(act)
  <2>1. \A i \in DOMAIN act.assets : Computable(act.assets[i], year)
    BY <1>3 DEF Depreciable
  <2>2. PlacedNow(act, year) # <<>>
    BY DEF CopyRequired
  <2>3. QED
    BY <1>4, <2>1, <2>2 DEF OverrideBesidePlacement, Overridden
<1>6. Resolved(act, year, midQuarter) = 100 * engine
  BY <1>4, <1>5 DEF Resolved
<1> HIDE DEF engine
<1>7. Rounded(100 * engine) = engine
  BY <1>1, RoundedDollars
<1>8. QED
  BY <1>2, <1>6, <1>7

\* A printed copy is one that is due, of the return in effect; an amendment
\* prints none.
LEMMA CopyPrinted ==
  ASSUME PInv, Printed("1040"), NEW i, <<"f4562", i>> \in printed
  PROVE  /\ FInv /\ Computed
         /\ i \in DOMAIN Activities4562(Effective(scenario))
         /\ CopyRequired(Activities4562(Effective(scenario))[i], Effective(scenario).year)
<1> DEFINE s == Effective(scenario)
           acts == Activities4562(s)
<1>1. /\ FInv /\ Computed /\ ~Correcting
      /\ \A form \in printed : form[1] \in FederalNames => form \in PacketOf(s, figures)
  BY DEF PInv, AInv, PacketInv
<1>2. <<"f4562", i>> \in PacketOf(s, figures)
  BY <1>1 DEF FederalNames
<1>3. <<"f4562", i>> \in Copies("f4562", acts, LAMBDA act : CopyRequired(act, s.year))
  <2> HIDE DEF s
  <2>1. QED
    BY <1>2 DEF PacketOf, FederalPacket, Statement8z, Form, Sheets, CopiesOf, ChangePacket,
                GatedForms
<1>4. QED
  BY <1>1, <1>3 DEF Copies

\* The activities of a computed return are typed, and ones the engine can
\* depreciate.
LEMMA ComputedActivity ==
  ASSUME FInv, Computed, NEW i \in DOMAIN Activities4562(Effective(scenario))
  PROVE  LET s    == Effective(scenario)
             act  == Activities4562(s)[i]
             from == Activities4562(scenario)[i]
             mq   == MidQuarterOf(s)
         IN /\ i \in DOMAIN Activities4562(scenario)
            /\ TypedActivity(from) /\ Depreciable(from, s.year)
            /\ act = [from EXCEPT !.depreciation = Resolved(from, s.year, mq)]
            /\ TypedActivity(act) /\ Depreciable(act, s.year)
            /\ act.depreciation = Resolved(act, s.year, mq)
            /\ ~OverrideBesidePlacement(act, s.year) /\ ~StaleOverride(act, s.year, mq)
            /\ s.year \in Int
<1> DEFINE s == Effective(scenario)
           given == Activities4562(scenario)
           acts == Activities4562(s)
           from == given[i]
           act == acts[i]
           mq == MidQuarterOf(scenario)
           amount == Resolved(from, s.year, mq)
<1>1. /\ TypedScenario(scenario) /\ Passes(ComputeLedger(scenario)) /\ DepreciableReturn(scenario)
      /\ TypedActivities(scenario) /\ scenario.year \in Int
  BY ComputedKnown, AcceptedDepreciable DEF TypedScenario, TypedReturn
<1>2. /\ IsList(given) /\ IsList(acts) /\ Len(acts) = Len(given)
      /\ \A j \in 1 .. Len(given) :
           acts[j] = [given[j] EXCEPT !.depreciation =
                        Resolved(given[j], scenario.year, mq)]
      /\ s.year = scenario.year /\ MidQuarterOf(s) = mq
  <2> HIDE DEF s, mq
  <2>1. MidQuarterOf(s) = mq
    BY <1>1, EffectiveMidQuarter DEF s, mq
  <2>2. /\ IsList(given) /\ IsList(acts) /\ Len(acts) = Len(given)
        /\ \A j \in 1 .. Len(given) :
             acts[j] = [given[j] EXCEPT !.depreciation =
                          Resolved(given[j], scenario.year, MidQuarterOf(scenario))]
        /\ s.year = scenario.year
    BY <1>1, EffectiveActivities DEF s
  <2>3. QED
    BY <2>1, <2>2 DEF mq
<1>3. i \in 1 .. Len(given) /\ i \in DOMAIN given
  BY <1>2 DEF IsList
<1>4. act = [from EXCEPT !.depreciation = amount]
  BY <1>2, <1>3
<1>5. TypedActivity(from) /\ Depreciable(from, scenario.year)
  BY <1>1, <1>3, ActivityOf
<1>6. ~OverrideBesidePlacement(from, scenario.year) /\ ~StaleOverride(from, scenario.year, mq)
  BY <1>1, <1>3, LoadAsked, OverridePassed
<1>7. amount \in Int
  BY <1>1, <1>2, <1>5, ResolvedType
<1> HIDE DEF s, given, acts, from, act, mq, amount
<1>8. TypedActivity(act) /\ act.depreciation = amount
  BY <1>4, <1>5, <1>7, UsedType
<1>9. act.assets = from.assets /\ act.override = from.override /\ act.stated = from.stated
  <2>1. \A f, v : /\ [f EXCEPT !.depreciation = v].assets = f.assets
                  /\ [f EXCEPT !.depreciation = v].override = f.override
                  /\ [f EXCEPT !.depreciation = v].stated = f.stated
    OBVIOUS
  <2>2. QED
    BY <1>4, <2>1
<1>10. Resolved(act, s.year, mq) = amount
  BY <1>9 DEF Resolved, HasOverride, EngineAmount, amount
<1>11. Depreciable(act, s.year)
  BY <1>2, <1>5, <1>9 DEF Depreciable
<1>12. ~OverrideBesidePlacement(act, s.year) /\ ~StaleOverride(act, s.year, mq)
  BY <1>2, <1>6, <1>9 DEF OverrideBesidePlacement, StaleOverride, Overridden, HasOverride,
                          PlacedNow, EngineAmount
<1>13. s.year \in Int
  BY <1>1, <1>2
<1>14. QED
  BY <1>2, <1>3, <1>4, <1>5, <1>8, <1>10, <1>11, <1>12, <1>13
     DEF s, given, acts, from, act, amount

\* A printed Form 4562 copy totals what its activity's schedule deducts.
LEMMA CopiesTie == PInv => Form4562Ties
<1> SUFFICES ASSUME PInv, Printed("1040"),
                    NEW i \in DOMAIN Activities4562(Effective(scenario)),
                    <<"f4562", i>> \in printed
             PROVE  LET s == Effective(scenario)
                        act == Activities4562(s)[i]
                    IN F4562(act, s.year, MidQuarterOf(s)).line22 = Rounded(act.depreciation)
  BY DEF Form4562Ties
<1> DEFINE s == Effective(scenario)
           act == Activities4562(s)[i]
           mq == MidQuarterOf(s)
<1>1. FInv /\ Computed /\ CopyRequired(act, s.year)
  BY CopyPrinted
<1>2. /\ TypedActivity(act) /\ Depreciable(act, s.year) /\ s.year \in Int
      /\ act.depreciation = Resolved(act, s.year, mq)
      /\ ~OverrideBesidePlacement(act, s.year)
  BY <1>1, ComputedActivity
<1> HIDE DEF s, act, mq
<1>3. F4562(act, s.year, mq).line22 = Rounded(Resolved(act, s.year, mq))
  BY <1>1, <1>2, CopyAddsUp
<1>4. QED
  BY <1>2, <1>3 DEF s, act, mq

\* The bases of a return's personal property add up.
LEMMA TestBasisType ==
  ASSUME NEW acts, IsList(acts), \A i \in 1 .. Len(acts) : TypedActivity(acts[i]),
         NEW year, NEW months
  PROVE  TestBasis(acts, year, months) \in Int
<1> DEFINE held(act) == [j \in DOMAIN act.assets |->
                           IF InTest(act.assets[j], year) /\ act.assets[j].month \in months
                           THEN act.assets[j].basis ELSE 0]
           n == Len(acts)
           all == [i \in 1 .. n |-> SumSeq(held(acts[i]))]
<1>1. ASSUME NEW i \in 1 .. n PROVE SumSeq(held(acts[i])) \in Int
  <2> DEFINE x == acts[i].assets
             m == Len(x)
  <2>1. m \in Nat /\ DOMAIN x = 1 .. m /\ \A j \in 1 .. m : x[j].basis \in Int
    BY <1>1 DEF TypedActivity, ListOf, IsList, TypedAsset
  <2>2. held(acts[i]) \in [1 .. m -> Int]
    BY <2>1
  <2> HIDE DEF held, m
  <2>3. QED
    BY <2>1, <2>2, SumType
<1>2. n \in Nat /\ DOMAIN acts = 1 .. n
  BY DEF IsList
<1>3. TestBasis(acts, year, months) = SumSeq(all)
  BY <1>2 DEF TestBasis, SumOf
<1> HIDE DEF held, n
<1>4. all \in [1 .. n -> Int]
  BY <1>1
<1> HIDE DEF all
<1>5. QED
  BY <1>2, <1>3, <1>4, SumType

\* No return given, or corrected, has an answer of its own to the test.
LEMMA AnswersItself == ScenarioInv => scenario.answer = None
BY AnswerAssumption DEF ScenarioInv

\* Every copy of one return takes the convention its bases call for.
LEMMA ConventionsAgree == PInv => ConventionIsTheReturns
<1> DEFINE s == Effective(scenario)
           acts == Activities4562(s)
           mq == MidQuarterOf(s)
           late == 100 * TestBasis(acts, s.year, 10 .. 12)
                     > 40 * TestBasis(acts, s.year, 1 .. 12)
<1> SUFFICES ASSUME PInv, Printed("1040"), NEW i \in DOMAIN acts, <<"f4562", i>> \in printed,
                    NEW c \in DOMAIN RowsOf(acts[i], s.year, mq) \cap PersonalClasses
             PROVE  RowsOf(acts[i], s.year, mq)[c].conventions
                      = {IF late THEN "mid-quarter" ELSE "half-year"}
  BY DEF ConventionIsTheReturns
<1>1. FInv /\ Computed
  BY CopyPrinted
<1>2. TypedActivity(acts[i]) /\ s.year \in Int
  BY <1>1, ComputedActivity
<1>3. c \notin RealClasses
  BY ClassesAssumption
<1>4. mq = FortyPercent(acts, s.year)
  <2>1. scenario.answer = None /\ TypedScenario(scenario)
    BY <1>1, AnswersItself, ScenarioTyped DEF FInv, IInv, Control
  <2>2. s.answer = None
    BY <2>1, EffectiveActivities
  <2>3. QED
    BY <2>2 DEF MidQuarterOf
<1>5. IsList(acts) /\ \A j \in 1 .. Len(acts) : TypedActivity(acts[j])
  <2>1. TypedActivities(s)
    BY <1>1, ComputedKnown DEF TypedScenario, TypedReturn
  <2> HIDE DEF s
  <2>2. QED
    BY <2>1, ActivityOf
<1> HIDE DEF s, acts, mq
<1> DEFINE last == TestBasis(acts, s.year, 10 .. 12)
           whole == TestBasis(acts, s.year, 1 .. 12)
<1>6. last \in Int /\ whole \in Int
  BY <1>5, TestBasisType
<1>7. mq = (last * 100 > 40 * whole)
  BY <1>4 DEF FortyPercent
<1> HIDE DEF last, whole
<1>8. mq = (100 * last > 40 * whole)
  BY <1>6, <1>7
<1>9. RowsOf(acts[i], s.year, mq)[c].conventions = {IF mq THEN "mid-quarter" ELSE "half-year"}
  BY <1>2, <1>3, RowConventions
<1>10. late = (100 * last > 40 * whole)
  BY DEF last, whole
<1> HIDE DEF late
<1>11. late = mq
  BY <1>8, <1>10, Zenon
<1>12. QED
  BY <1>9, <1>11, Zenon

----------------------------------------------------------------------------
(* The depreciation audit: what its mirror refuses.                        *)

\* What the depreciation entries ask of the amounts of an asset.
LEMMA AmountsPassed ==
  ASSUME NEW s, Passes(ShapeLedger(s))
  PROVE  \A a \in AssetsOf(s) : ~NegativeAsset(a) /\ ~PriorMissing(a, s.year)
<1> DEFINE negative == SomeAsset(s, NegativeAsset) \/ SomeActivity(s, NegativeOverride)
           missing == SomeAsset(s, LAMBDA a : PriorMissing(a, s.year))
<1>1. \A a, b, c, d, e, f, g, h, i, j, k, l, m, n, o :
           /\ 3 \in DOMAIN <<a, b, c, d, e, f, g, h, i, j, k, l, m, n, o>>
           /\ 8 \in DOMAIN <<a, b, c, d, e, f, g, h, i, j, k, l, m, n, o>>
           /\ <<a, b, c, d, e, f, g, h, i, j, k, l, m, n, o>>[3] = c
           /\ <<a, b, c, d, e, f, g, h, i, j, k, l, m, n, o>>[8] = h
  OBVIOUS
<1>2. 3 \in DOMAIN ShapeLedger(s) /\ 8 \in DOMAIN ShapeLedger(s)
  BY <1>1, Zenon DEF ShapeLedger
<1>3. ShapeLedger(s)[3] = <<"negative_asset_amount", negative>>
  BY <1>1, Zenon DEF ShapeLedger
<1>4. ShapeLedger(s)[8] = <<"missing_prior_depreciation", missing>>
  BY <1>1, Zenon DEF ShapeLedger
<1> HIDE DEF negative, missing
<1>5. ~ShapeLedger(s)[3][2] /\ ~ShapeLedger(s)[8][2]
  BY <1>2, PassedEach
<1>6. ~negative
  BY <1>3, <1>5
<1>7. ~missing
  BY <1>4, <1>5
<1>8. QED
  BY <1>6, <1>7 DEF SomeAsset, negative, missing

\* The assets of a computed return passed the load-stage entries.
LEMMA ComputedAsset ==
  ASSUME FInv, Computed
  PROVE  \A a \in AssetsOf(scenario) :
           AcceptedAsset(a, scenario.year, MidQuarterOf(scenario))
<1> DEFINE s == scenario
           mq == MidQuarterOf(scenario)
           acts == Activities4562(s)
<1> SUFFICES ASSUME NEW a \in AssetsOf(s) PROVE AcceptedAsset(a, s.year, mq)
  OBVIOUS
<1>1. /\ TypedScenario(s) /\ Passes(ComputeLedger(s)) /\ DepreciableReturn(s)
      /\ TypedActivities(s)
  BY ComputedKnown, AcceptedDepreciable DEF TypedScenario, TypedReturn
<1>2. Passes(ShapeLedger(s)) /\ Passes(ResolverLedger(s))
  BY <1>1, LoadAsked
<1>3. ~NegativeAsset(a) /\ ~PriorMissing(a, s.year)
  BY <1>2, AmountsPassed
<1>4. ~PriorMismatch(a, s.year, mq)
  <2>1. \A p, q, r, t : Passes(<<p, q, r, t>>) => ~q[2]
    BY DEF Passes, AnyOf, Offends
  <2>2. ~SomeAsset(s, LAMBDA b : PriorMismatch(b, s.year, mq))
    BY <1>2, <2>1 DEF ResolverLedger
  <2>3. QED
    BY <2>2 DEF SomeAsset
<1>5. PICK i \in DOMAIN acts : \E j \in DOMAIN acts[i].assets : a = acts[i].assets[j]
  BY DEF AssetsOf
<1>6. PICK j \in DOMAIN acts[i].assets : a = acts[i].assets[j]
  BY <1>5
<1>7. TypedActivity(acts[i]) /\ Depreciable(acts[i], s.year)
  <2>1. /\ IsList(acts)
        /\ \A k \in 1 .. Len(acts) : TypedActivity(acts[k]) /\ Depreciable(acts[k], s.year)
    BY <1>1, ActivityOf
  <2>2. i \in 1 .. Len(acts)
    BY <2>1 DEF IsList
  <2>3. QED
    BY <2>1, <2>2
<1> HIDE DEF acts, mq
<1>8. TypedAsset(a) /\ Computable(a, s.year) /\ a.placed <= s.year
  BY <1>6, <1>7 DEF TypedActivity, ListOf, IsList, Depreciable
<1>9. QED
  BY <1>3, <1>4, <1>8 DEF AcceptedAsset

\* The return in effect has the assets of the return given.
LEMMA EffectiveAssets ==
  ASSUME NEW sc, TypedScenario(sc)
  PROVE  AssetsOf(Effective(sc)) = AssetsOf(sc)
<1> DEFINE s == Effective(sc)
           given == Activities4562(sc)
           acts == Activities4562(s)
           amount(i) == Resolved(given[i], sc.year, MidQuarterOf(sc))
<1>1. /\ IsList(given) /\ IsList(acts) /\ Len(acts) = Len(given)
      /\ \A i \in 1 .. Len(given) : acts[i] = [given[i] EXCEPT !.depreciation = amount(i)]
  BY EffectiveActivities
<1> HIDE DEF acts, given, amount
<1>2. DOMAIN acts = DOMAIN given /\ \A i \in DOMAIN given : acts[i].assets = given[i].assets
  <2>1. \A act, v : [act EXCEPT !.depreciation = v].assets = act.assets
    OBVIOUS
  <2>2. DOMAIN acts = 1 .. Len(acts) /\ DOMAIN given = 1 .. Len(given)
    BY <1>1 DEF IsList
  <2>3. ASSUME NEW i \in 1 .. Len(given) PROVE acts[i].assets = given[i].assets
    <3> DEFINE g == given[i]
               v == amount(i)
    <3>1. acts[i] = [g EXCEPT !.depreciation = v]
      BY <1>1
    <3> HIDE DEF g, v
    <3>2. acts[i].assets = g.assets
      BY <2>1, <3>1
    <3>3. QED
      BY <3>2 DEF g
  <2>4. QED
    BY <1>1, <2>2, <2>3
<1> DEFINE list(i) == {acts[i].assets[j] : j \in DOMAIN acts[i].assets}
           of(i) == {given[i].assets[j] : j \in DOMAIN given[i].assets}
<1>3. AssetsOf(s) = UNION {list(i) : i \in DOMAIN acts}
  BY DEF AssetsOf, acts
<1>4. AssetsOf(sc) = UNION {of(i) : i \in DOMAIN given}
  BY DEF AssetsOf, given
<1>5. \A i \in DOMAIN given : list(i) = of(i)
  BY <1>2
<1> HIDE DEF list, of
<1>6. QED
  BY <1>2, <1>3, <1>4, <1>5

\* Each activity of a computed return has what the resolver found for it.
LEMMA ComputedSettled ==
  ASSUME FInv, Computed
  PROVE  SettledReturn(Effective(scenario))
<1> DEFINE s == Effective(scenario)
           acts == Activities4562(s)
<1>1. TypedScenario(scenario) /\ scenario.year \in Int
  BY ComputedKnown DEF TypedScenario, TypedReturn
<1>2. IsList(acts) /\ s.year = scenario.year
  BY <1>1, EffectiveActivities
<1>3. ASSUME NEW i \in 1 .. Len(acts) PROVE Settled(acts[i], s.year, MidQuarterOf(s))
  <2>1. i \in DOMAIN acts
    BY <1>2 DEF IsList
  <2>2. QED
    BY <2>1, ComputedActivity DEF Settled
<1> HIDE DEF s
<1>4. QED
  BY <1>1, <1>2, <1>3 DEF SettledReturn, s

\* The tie-outs of an audit that is written say so.
LEMMA WrittenTies ==
  ASSUME FInv, Computed, ~AuditUnwritable(Effective(scenario))
  PROVE  \A tie \in TieOuts(Effective(scenario)) : tie[1] = "line 26" \/ Verdict(tie)
<1> DEFINE s == Effective(scenario)
<1>1. SettledReturn(s)
  BY ComputedSettled
<1>2. ~AuditUnwritable(s)
  OBVIOUS
<1> HIDE DEF s
<1>3. \A i \in 1 .. Len(Activities4562(s)) :
        Mirrored(Activities4562(s)[i], s.year, MidQuarterOf(s))
  BY <1>1, <1>2, WritableMirrors
<1>4. \A tie \in TieOuts(s) : tie[1] = "line 26" \/ Verdict(tie)
  BY <1>1, <1>3, ReturnTiesOut
<1>5. QED
  BY <1>4 DEF s

\* One that is refused has a prior amount with cents, and no more of its
\* asset's basis left than the table takes.
LEMMA RefusedForCents ==
  ASSUME FInv, Computed, AuditUnwritable(Effective(scenario))
  PROVE  SomeAsset(scenario, LAMBDA a :
           a.prior # None /\ a.prior % 100 # 0 /\ Ceiling4562(a, scenario))
<1> DEFINE s == Effective(scenario)
           mq == MidQuarterOf(scenario)
<1>1. TypedScenario(scenario) /\ scenario.answer = None
  BY ComputedKnown, AnswersItself DEF FInv, IInv, Control
<1>2. MidQuarterOf(s) = mq /\ AssetsOf(s) = AssetsOf(scenario)
  BY <1>1, EffectiveMidQuarter, EffectiveAssets
<1>3. s.year = scenario.year /\ s.answer = None
  BY <1>1, EffectiveActivities
<1>4. SettledReturn(s) /\ AuditUnwritable(s)
  BY ComputedSettled
<1>5. \A a \in AssetsOf(scenario) : AcceptedAsset(a, scenario.year, mq)
  BY ComputedAsset
<1> HIDE DEF s, mq
<1>6. MidQuarterOf(s) = FortyPercent(Activities4562(s), s.year)
  BY <1>3 DEF MidQuarterOf
<1>7. \A a \in AssetsOf(s) : AcceptedAsset(a, s.year, MidQuarterOf(s))
  BY <1>2, <1>3, <1>5
<1>8. \E a \in AssetsOf(s) : CeilingOnCents(a, s.year, MidQuarterOf(s))
  BY <1>4, <1>6, <1>7, UnwritableForCents
<1>9. PICK a \in AssetsOf(scenario) : CeilingOnCents(a, scenario.year, mq)
  BY <1>2, <1>3, <1>8
<1>10. a.prior # None /\ a.prior % 100 # 0 /\ Ceiling4562(a, scenario)
  BY <1>9 DEF CeilingOnCents, Ceiling4562, mq
<1>11. QED
  BY <1>10 DEF SomeAsset

----------------------------------------------------------------------------
(* The depreciation audit: who raises its refusals.                        *)

\* A ledger without the audit's entries, and one that has an entry of the
\* audit offend only where its mirror cannot be built.
Unaudited(l) == Listing(l) /\ \A i \in DOMAIN l : l[i][1] \notin AuditRefusals
Audited(l, s) ==
  /\ Listing(l)
  /\ \A i \in DOMAIN l : l[i][1] \in AuditRefusals /\ l[i][2] => AuditUnbuildable(s)

LEMMA UnauditedIsAudited ==
  ASSUME NEW l, NEW s, Unaudited(l) PROVE Audited(l, s)
BY DEF Unaudited, Audited

LEMMA EntriesJoined ==
  ASSUME NEW a, NEW b, Listing(a), Listing(b)
  PROVE  \A i \in DOMAIN (a \o b) :
           \/ \E j \in DOMAIN a : (a \o b)[i] = a[j]
           \/ \E j \in DOMAIN b : (a \o b)[i] = b[j]
<1>1. PICK S : a \in Seq(S)
  BY DEF Listing
<1>2. PICK T : b \in Seq(T)
  BY DEF Listing
<1>3. a \in Seq(S \cup T) /\ b \in Seq(S \cup T)
  BY <1>1, <1>2
<1> SUFFICES ASSUME NEW i \in DOMAIN (a \o b)
             PROVE  \/ \E j \in DOMAIN a : (a \o b)[i] = a[j]
                    \/ \E j \in DOMAIN b : (a \o b)[i] = b[j]
  OBVIOUS
<1>4. i \in 1 .. Len(a) + Len(b) /\ Len(a) \in Nat /\ Len(b) \in Nat
  BY <1>3
<1>5. DOMAIN a = 1 .. Len(a) /\ DOMAIN b = 1 .. Len(b)
  BY <1>3
<1>6. CASE i <= Len(a)
  <2>1. i \in DOMAIN a /\ (a \o b)[i] = a[i]
    BY <1>3, <1>4, <1>5, <1>6
  <2>2. QED
    BY <2>1
<1>7. CASE i > Len(a)
  <2>1. i - Len(a) \in DOMAIN b /\ (a \o b)[i] = b[i - Len(a)]
    BY <1>3, <1>4, <1>5, <1>7
  <2>2. QED
    BY <2>1
<1>8. QED
  BY <1>4, <1>6, <1>7

LEMMA UnauditedJoined ==
  ASSUME NEW a, NEW b, Unaudited(a), Unaudited(b) PROVE Unaudited(a \o b)
<1> DEFINE c == a \o b
<1>1. Listing(c)
  BY Joined DEF Unaudited
<1>2. \A i \in DOMAIN c :
        (\E j \in DOMAIN a : c[i] = a[j]) \/ (\E j \in DOMAIN b : c[i] = b[j])
  BY EntriesJoined DEF Unaudited
<1> HIDE DEF c
<1>3. Unaudited(c)
  BY <1>1, <1>2 DEF Unaudited
<1>4. QED
  BY <1>3 DEF c

LEMMA AuditedJoined ==
  ASSUME NEW a, NEW b, NEW s, Audited(a, s), Audited(b, s) PROVE Audited(a \o b, s)
<1> DEFINE c == a \o b
<1>1. Listing(c)
  BY Joined DEF Audited
<1>2. \A i \in DOMAIN c :
        (\E j \in DOMAIN a : c[i] = a[j]) \/ (\E j \in DOMAIN b : c[i] = b[j])
  BY EntriesJoined DEF Audited
<1> HIDE DEF c
<1>3. Audited(c, s)
  BY <1>1, <1>2 DEF Audited
<1>4. QED
  BY <1>3 DEF c

\* A ledger that does not pass raises the name of an entry that offends.
LEMMA RaisedOffends ==
  ASSUME NEW l, Listing(l), ~Passes(l)
  PROVE  \E i \in DOMAIN l : l[i][2] /\ Raised(l) = l[i][1]
<1> DEFINE hits == {i \in DOMAIN l : Offends(l[i])}
           first(i) == i \in hits /\ \A j \in hits : i <= j
           at == CHOOSE i \in hits : \A j \in hits : i <= j
<1>1. DOMAIN l \subseteq Nat
  <2>1. PICK S : l \in Seq(S)
    BY DEF Listing
  <2>2. QED
    BY <2>1
<1>2. hits # {} /\ hits \subseteq Nat
  BY <1>1 DEF Passes, AnyOf
<1>3. \E i \in hits : \A j \in hits : i <= j
  <2> HIDE DEF hits
  <2>1. QED
    BY <1>2, Smallest
<1>4. at \in hits
  <2> HIDE DEF hits
  <2>1. QED
    BY <1>3
<1>5. Raised(l) = l[at][1]
  BY <1>2 DEF Raised
<1>6. at \in DOMAIN l /\ l[at][2]
  BY <1>4 DEF Offends
<1> HIDE DEF at
<1>7. QED
  BY <1>5, <1>6

LEMMA RaisedUnaudited ==
  ASSUME NEW l, Unaudited(l), ~Passes(l) PROVE Raised(l) \notin AuditRefusals
BY RaisedOffends DEF Unaudited

LEMMA RaisedAudited ==
  ASSUME NEW l, NEW s, Audited(l, s), ~Passes(l), Raised(l) \in AuditRefusals
  PROVE  AuditUnbuildable(s)
BY RaisedOffends DEF Audited

\* A short ledger has the names it lists.
Other(name) == name \notin AuditRefusals
LEMMA ShortUnaudited ==
  /\ Unaudited(<<>>)
  /\ \A m, a : Other(m) => Unaudited(<<<<m, a>>>>)
  /\ \A m, a, n, b : Other(m) /\ Other(n) => Unaudited(<<<<m, a>>, <<n, b>>>>)
  /\ \A m, a, n, b, o, c :
       Other(m) /\ Other(n) /\ Other(o) => Unaudited(<<<<m, a>>, <<n, b>>, <<o, c>>>>)
  /\ \A m, a, n, b, o, c, p, d :
       Other(m) /\ Other(n) /\ Other(o) /\ Other(p)
         => Unaudited(<<<<m, a>>, <<n, b>>, <<o, c>>, <<p, d>>>>)
  /\ \A m, a, n, b, o, c, p, d, q, e :
       Other(m) /\ Other(n) /\ Other(o) /\ Other(p) /\ Other(q)
         => Unaudited(<<<<m, a>>, <<n, b>>, <<o, c>>, <<p, d>>, <<q, e>>>>)
<1>1. /\ Unaudited(<<>>)
      /\ \A m, a : Other(m) => Unaudited(<<<<m, a>>>>)
  BY ShortListings DEF Unaudited, Other
<1>2. \A m, a, n, b : Other(m) /\ Other(n) => Unaudited(<<<<m, a>>, <<n, b>>>>)
  BY ShortListings DEF Unaudited, Other
<1>3. \A m, a, n, b, o, c :
        Other(m) /\ Other(n) /\ Other(o) => Unaudited(<<<<m, a>>, <<n, b>>, <<o, c>>>>)
  BY ShortListings DEF Unaudited, Other
<1>4. \A m, a, n, b, o, c, p, d :
        Other(m) /\ Other(n) /\ Other(o) /\ Other(p)
          => Unaudited(<<<<m, a>>, <<n, b>>, <<o, c>>, <<p, d>>>>)
  BY ShortListings DEF Unaudited, Other
<1>5. \A m, a, n, b, o, c, p, d, q, e :
        Other(m) /\ Other(n) /\ Other(o) /\ Other(p) /\ Other(q)
          => Unaudited(<<<<m, a>>, <<n, b>>, <<o, c>>, <<p, d>>, <<q, e>>>>)
  BY ShortListings DEF Unaudited, Other
<1>6. QED
  BY <1>1, <1>2, <1>3, <1>4, <1>5

LEMMA PartsUnaudited ==
  ASSUME NEW s
  PROVE  /\ Unaudited(SharedLedger(s)) /\ Unaudited(PartIILedger(s))
         /\ Unaudited(SecuritiesLedger(s)) /\ Unaudited(BusinessLedger(s))
<1>1. /\ Other("dependents") /\ Other("eic_child_candidate") /\ Other("eic_2021")
      /\ Other("attestation") /\ Other("no_row_letter") /\ Other("f8949")
      /\ Other("joint_schedule_c") /\ Other("schedule_c") /\ Other("schedule_se")
  BY DEF Other, AuditRefusals
<1>2. Unaudited(SharedLedger(s))
  BY <1>1, ShortUnaudited DEF SharedLedger
<1>3. Unaudited(PartIILedger(s))
  BY <1>1, ShortUnaudited DEF PartIILedger
<1>4. Unaudited(SecuritiesLedger(s))
  BY <1>1, ShortUnaudited DEF SecuritiesLedger
<1>5. Unaudited(BusinessLedger(s))
  BY <1>1, ShortUnaudited DEF BusinessLedger
<1>6. QED
  BY <1>2, <1>3, <1>4, <1>5

\* The load stage's depreciation refusals are other refusals.
LEMMA ShapeUnaudited == ASSUME NEW s PROVE Unaudited(ShapeLedger(s))
<1>1. \A m1, m2, m3, m4, m5, m6, m7, m8, m9, m10, m11, m12, m13, m14, m15,
         p1, p2, p3, p4, p5, p6, p7, p8, p9, p10, p11, p12, p13, p14, p15 :
        Listing(<<<<m1, p1>>, <<m2, p2>>, <<m3, p3>>, <<m4, p4>>, <<m5, p5>>, <<m6, p6>>,
                  <<m7, p7>>, <<m8, p8>>, <<m9, p9>>, <<m10, p10>>, <<m11, p11>>, <<m12, p12>>,
                  <<m13, p13>>, <<m14, p14>>, <<m15, p15>>>>)
          /\ Other(m1) /\ Other(m2) /\ Other(m3) /\ Other(m4) /\ Other(m5) /\ Other(m6)
          /\ Other(m7) /\ Other(m8) /\ Other(m9) /\ Other(m10) /\ Other(m11) /\ Other(m12)
          /\ Other(m13) /\ Other(m14) /\ Other(m15)
        => Unaudited(<<<<m1, p1>>, <<m2, p2>>, <<m3, p3>>, <<m4, p4>>, <<m5, p5>>, <<m6, p6>>,
                       <<m7, p7>>, <<m8, p8>>, <<m9, p9>>, <<m10, p10>>, <<m11, p11>>, <<m12, p12>>,
                       <<m13, p13>>, <<m14, p14>>, <<m15, p15>>>>)
  BY DEF Unaudited, Other
<1>2. /\ Other("stated_convention")
      /\ Other("unknown_recovery_class")
      /\ Other("negative_asset_amount")
      /\ Other("negative_stated_depreciation")
      /\ Other("asset_disposed")
      /\ Other("history_field_on_real_property")
      /\ Other("bonus_or_section_179_history")
      /\ Other("missing_prior_depreciation")
      /\ Other("missing_prior_year_convention")
      /\ Other("invalid_stated_convention")
      /\ Other("dual_source_depreciation")
      /\ Other("unacknowledged_stated_depreciation")
      /\ Other("override_outside_asset_mode")
      /\ Other("unacknowledged_depreciation_override")
      /\ Other("more_than_three_rental_properties")
  BY DEF Other, AuditRefusals
<1>3. Listing(ShapeLedger(s))
  BY ShapeListing
<1>4. QED
  BY <1>1, <1>2, <1>3, Zenon DEF ShapeLedger

\* So are those of Form 3115.
LEMMA UnsupportedUnaudited == ASSUME NEW c PROVE Unaudited(UnsupportedLedger(c))
<1>1. \A i \in DOMAIN Unsupported : Unsupported[i][1] \notin AuditRefusals
  BY DEF Unsupported, AuditRefusals
<1> DEFINE l == UnsupportedLedger(c)
<1>2. DOMAIN l = DOMAIN Unsupported /\ \A i \in DOMAIN Unsupported : l[i][1] = Unsupported[i][1]
  BY DEF UnsupportedLedger
<1>3. Listing(l)
  BY UnsupportedListing
<1> HIDE DEF l
<1>4. Unaudited(l)
  BY <1>1, <1>2, <1>3 DEF Unaudited
<1>5. QED
  BY <1>4 DEF l

LEMMA ApplicantUnaudited == ASSUME NEW s PROVE Unaudited(ApplicantLedger(s))
<1>1. \A a, b, c, d, e, f : Listing(<<a, b, c, d, e, f>>)
  <2>1. \A a, b, c, d, e, f : <<a, b, c, d, e, f>> \in Seq({a, b, c, d, e, f})
    OBVIOUS
  <2>2. QED
    BY <2>1 DEF Listing
<1>2. /\ Other("form_3115_applicant_type_unsupported")
      /\ Other("form_3115_type_of_change_unsupported")
      /\ Other("form_3115_joint_filer_unsupported")
      /\ Other("form_3115_applicant_identity_missing")
      /\ Other("form_3115_contact_missing")
      /\ Other("form_3115_business_activity_code_malformed")
  BY DEF Other, AuditRefusals
<1>3. QED
  <2> DEFINE l == ApplicantLedger(s)
  <2>1. Listing(l)
    BY <1>1, Zenon DEF ApplicantLedger
  <2>2. DOMAIN l = 1 .. 6
    BY SMT DEF ApplicantLedger
  <2>3. Other(l[1][1]) /\ Other(l[2][1]) /\ Other(l[3][1])
    BY <1>2, SMT DEF ApplicantLedger
  <2>4. Other(l[4][1]) /\ Other(l[5][1]) /\ Other(l[6][1])
    BY <1>2, SMT DEF ApplicantLedger
  <2> HIDE DEF l
  <2>5. \A i \in 1 .. 6 : i = 1 \/ i = 2 \/ i = 3 \/ i = 4 \/ i = 5 \/ i = 6
    OBVIOUS
  <2>6. Unaudited(l)
    BY <2>1, <2>2, <2>3, <2>4, <2>5 DEF Unaudited, Other
  <2>7. QED
    BY <2>6 DEF l

LEMMA ChangeUnaudited ==
  ASSUME NEW s
  PROVE  Unaudited(ChangeLedger(s)) /\ Unaudited(ShapeLedger3115(s))
<1> DEFINE c == s.change
<1>1. /\ Other("form_3115_answer_not_boolean")
      /\ Other("form_3115_year_of_change_mismatch")
      /\ Other("form_3115_change_number_unsupported")
      /\ Other("form_3115_tax_year_dates")
      /\ Other("form_3115_amount_not_cent_exact")
      /\ Other("form_3115_one_year_election_ineligible")
      /\ Other("form_3115_no_assets") /\ Other("form_3115_asset_field_blank")
      /\ Other("form_3115_asset_account_unknown")
      /\ Other("form_3115_asset_amount_negative")
      /\ Other("form_3115_not_a_mapping") /\ Other("form_3115_unknown_key")
      /\ Other("form_3115_missing_key") /\ Other("form_3115_untyped")
  BY DEF Other, AuditRefusals
<1>2. Unaudited(AppliedLedger(s))
  BY <1>1, ShortUnaudited DEF AppliedLedger
<1>3. Unaudited(AmountLedger(c))
  BY <1>1, ShortUnaudited DEF AmountLedger
<1>4. Unaudited(PropertyLedger(c))
  BY <1>1, ShortUnaudited DEF PropertyLedger, AnyOf
<1>5. Unaudited(ShapeLedger3115(s))
  BY <1>1, ShortUnaudited DEF ShapeLedger3115
<1>6. Unaudited(AppliedLedger(s) \o ApplicantLedger(s))
  BY <1>2, ApplicantUnaudited, UnauditedJoined
<1>7. Unaudited(AppliedLedger(s) \o ApplicantLedger(s) \o AmountLedger(c))
  BY <1>3, <1>6, UnauditedJoined
<1>8. Unaudited(AppliedLedger(s) \o ApplicantLedger(s) \o AmountLedger(c)
                  \o PropertyLedger(c))
  BY <1>4, <1>7, UnauditedJoined
<1>9. Unaudited(AppliedLedger(s) \o ApplicantLedger(s) \o AmountLedger(c)
                  \o PropertyLedger(c) \o UnsupportedLedger(c))
  BY <1>8, UnsupportedUnaudited, UnauditedJoined
<1>10. QED
  BY <1>5, <1>9, ShortUnaudited DEF ChangeLedger

LEMMA ComputeUnaudited == ASSUME NEW s PROVE Unaudited(ComputeLedger(s))
<1>1. /\ Other("asset_placed_after_return_year") /\ Other("prior_depreciation_mismatch")
      /\ Other("stale_depreciation_override")
      /\ Other("override_with_current_year_placement")
      /\ Other("unverifiable_mid_quarter_test")
      /\ Other("unacknowledged_listed_property") /\ Other("direct_deposit")
  BY DEF Other, AuditRefusals
<1>2. Unaudited(ResolverLedger(s)) /\ Unaudited(WholeReturnLedger(s))
  BY <1>1, ShortUnaudited
  DEF ResolverLedger, WholeReturnLedger, SomeAsset, SomeActivity, AnyOf
<1>3. Unaudited(ShapeLedger(s) \o ResolverLedger(s))
  BY <1>2, ShapeUnaudited, UnauditedJoined
<1>4. Unaudited(DepreciationLedger(s))
  BY <1>2, <1>3, UnauditedJoined DEF DepreciationLedger
<1>5. Unaudited(<<<<"direct_deposit", DepositRefused(s.deposit)>>>>)
  BY <1>1, ShortUnaudited
<1>6. Unaudited(DepreciationLedger(s) \o ChangeLedger(s))
  BY <1>4, ChangeUnaudited, UnauditedJoined
<1>7. QED
  BY <1>5, <1>6, UnauditedJoined DEF ComputeLedger

\* No stage that computes raises a refusal of the audit.
LEMMA LoadUnaudited == ASSUME NEW s PROVE Unaudited(LoadLedger(s))
<1> DEFINE read == <<<<"load", ConfigRefused(s, NonitemizerCap) \/ OwnersRefused(s)>>,
                     <<"tax_year_dates", s.corp # None /\ s.corp.dates = "inconsistent">>,
                     <<"ca540", s.ca # None /\ CA540Refused(s.ca)>>>>
           last == <<<<"load", ScenarioRefused(s)>>>>
<1>1. /\ Other("load") /\ Other("tax_year_dates") /\ Other("ca540")
      /\ Other("position_election") /\ Other("unattributed_withholding")
  BY DEF Other, AuditRefusals
<1>2. Unaudited(read)
  <2> DEFINE config == ConfigRefused(s, NonitemizerCap) \/ OwnersRefused(s)
             dates == s.corp # None /\ s.corp.dates = "inconsistent"
             ca == s.ca # None /\ CA540Refused(s.ca)
  <2>1. read = <<<<"load", config>>, <<"tax_year_dates", dates>>, <<"ca540", ca>>>>
    OBVIOUS
  <2> HIDE DEF config, dates, ca, read
  <2>2. QED
    BY <1>1, <2>1, ShortUnaudited
<1>3. Unaudited(last)
  BY <1>1, ShortUnaudited
<1>4. Unaudited(ConstructionLedger(s))
  <2> DEFINE elected == ElectionRefused(s, MayReach(s))
             withheld == s.command # "california" /\ s.ca # None /\ Unattributed(s)
  <2>1. ConstructionLedger(s)
          = <<<<"position_election", elected>>, <<"unattributed_withholding", withheld>>>>
    BY DEF ConstructionLedger
  <2> HIDE DEF elected, withheld
  <2>2. QED
    BY <1>1, <2>1, ShortUnaudited
<1>5. LoadLedger(s) =
        IF s.origin = "code" THEN ConstructionLedger(s)
        ELSE (((ShapeLedger3115(s) \o read) \o ConstructionLedger(s)) \o last)
               \o ComputeLedger(s)
  BY DEF LoadLedger
<1> HIDE DEF read, last
<1>6. Unaudited((ShapeLedger3115(s) \o read) \o ConstructionLedger(s))
  BY <1>2, <1>4, ChangeUnaudited, UnauditedJoined
<1>7. Unaudited(((ShapeLedger3115(s) \o read) \o ConstructionLedger(s)) \o last)
  BY <1>3, <1>6, UnauditedJoined
<1>8. Unaudited((((ShapeLedger3115(s) \o read) \o ConstructionLedger(s)) \o last)
                  \o ComputeLedger(s))
  BY <1>7, ComputeUnaudited, UnauditedJoined
<1>9. QED
  BY <1>4, <1>5, <1>8

LEMMA EffectiveUnaudited == ASSUME NEW s PROVE Unaudited(EffectiveLedger(s))
<1> DEFINE own == <<<<"form_3115_in_amendment_packet", AmendmentChange(s)>>,
                    <<"direct_deposit_in_amendment_packet", AmendmentDeposit(s)>>>>
           corporate == IF s.corp = None THEN <<>> ELSE CorporateLedger(s)
           attested == s.corp # None /\ AttestationRefused(WithShareholderK1s(s))
           elected == s.corp # None /\ ElectionRefused(s, Reached(WithShareholderK1s(s)))
           asked == <<<<"attestation", attested>>>>
           last == <<<<"position_election", elected>>>>
<1>1. /\ Other("form_3115_in_amendment_packet")
      /\ Other("direct_deposit_in_amendment_packet")
      /\ Other("attestation") /\ Other("position_election") /\ Other("f1120s")
  BY DEF Other, AuditRefusals
<1>2. Unaudited(own)
  BY <1>1, ShortUnaudited
<1>3. Unaudited(corporate)
  BY <1>1, ShortUnaudited DEF CorporateLedger
<1>4. EffectiveLedger(s) = (((own \o corporate) \o asked) \o ComputeLedger(s)) \o last
  BY DEF EffectiveLedger
<1> HIDE DEF own, corporate, attested, elected
<1>5. Unaudited(asked) /\ Unaudited(last)
  BY <1>1, ShortUnaudited
<1> HIDE DEF asked, last
<1>6. Unaudited((own \o corporate) \o asked)
  BY <1>2, <1>3, <1>5, UnauditedJoined
<1>7. Unaudited(((own \o corporate) \o asked) \o ComputeLedger(s))
  BY <1>6, ComputeUnaudited, UnauditedJoined
<1>8. QED
  BY <1>4, <1>5, <1>7, UnauditedJoined

LEMMA GuardUnaudited == ASSUME NEW s PROVE Unaudited(GuardLedger(s))
<1> DEFINE birth == s.year >= 2025 /\ AgeUnknown(s.config)
           family == s.block # None /\ FamilyUnknown(s.config)
           off == s.block # None /\ ~InSpineScope(s)
           front == <<<<"excess_business_loss", ExcessBusinessLoss(s)>>,
                      <<"excess_social_security", ExcessWithheld(s)>>,
                      <<"spouse_birthdate", birth>>,
                      <<"senior_deduction", SeniorDeduction(s)>>,
                      <<"tax_family_size", family>>>>
           last == <<<<"credit_off_the_spine", off>>>>
<1>1. /\ Other("excess_business_loss") /\ Other("excess_social_security")
      /\ Other("spouse_birthdate") /\ Other("senior_deduction")
      /\ Other("tax_family_size") /\ Other("credit_off_the_spine")
  BY DEF Other, AuditRefusals
<1>2. GuardLedger(s) = (front \o SharedLedger(s)) \o last
  BY DEF GuardLedger
<1> HIDE DEF birth, family, off
<1>3. Unaudited(front) /\ Unaudited(last)
  BY <1>1, ShortUnaudited
<1> HIDE DEF front, last
<1>4. Unaudited(front \o SharedLedger(s))
  BY <1>3, PartsUnaudited, UnauditedJoined
<1>5. QED
  BY <1>2, <1>3, <1>4, UnauditedJoined

LEMMA IncomeUnaudited == ASSUME NEW s PROVE Unaudited(IncomeLedger(s))
<1> DEFINE four == <<<<"four_rentals", TooManyRentals(s.rentals)>>>>
           last == <<<<"se_health_limit",
                         HealthRefused(s.businesses, s.health, HalfOf(s))>>,
                     <<"attestation", AttestationRefused(s)>>>>
<1>1. Other("four_rentals") /\ Other("se_health_limit") /\ Other("attestation")
  BY DEF Other, AuditRefusals
<1>2. Unaudited(four) /\ Unaudited(last)
  BY <1>1, ShortUnaudited
<1>3. IncomeLedger(s)
        = (((PartIILedger(s) \o SecuritiesLedger(s)) \o four) \o BusinessLedger(s)) \o last
  BY DEF IncomeLedger
<1> HIDE DEF four, last
<1>4. Unaudited((PartIILedger(s) \o SecuritiesLedger(s)) \o four)
  BY <1>2, PartsUnaudited, UnauditedJoined
<1>5. Unaudited(((PartIILedger(s) \o SecuritiesLedger(s)) \o four) \o BusinessLedger(s))
  BY <1>4, PartsUnaudited, UnauditedJoined
<1>6. QED
  BY <1>2, <1>3, <1>5, UnauditedJoined

LEMMA TakenUnaudited ==
  /\ \A s, itemized, agi : Unaudited(ScheduleALedger(s, itemized, agi))
  /\ \A s, taxable : Unaudited(QBILedger(s, taxable))
<1>1. Other("schedule_a") /\ Other("f8995")
  BY DEF Other, AuditRefusals
<1>2. ASSUME NEW s, NEW itemized, NEW agi
      PROVE  Unaudited(ScheduleALedger(s, itemized, agi))
  <2> DEFINE refused == itemized # None /\ ScheduleARefused(agi, s.noIncomeTaxState,
               Acknowledged(s, "acknowledges_sch_a_sales_tax_unsupported"))
  <2>1. ScheduleALedger(s, itemized, agi) = <<<<"schedule_a", refused>>>>
    BY DEF ScheduleALedger
  <2> HIDE DEF refused
  <2>2. QED
    BY <1>1, <2>1, ShortUnaudited
<1>3. ASSUME NEW s, NEW taxable PROVE Unaudited(QBILedger(s, taxable))
  BY <1>1, ShortUnaudited DEF QBILedger
<1>4. QED
  BY <1>2, <1>3

LEMMA DeductUnaudited ==
  ASSUME NEW s, NEW f, NEW new PROVE Unaudited(DeductLedger(s, f, new))
<1> DEFINE charity == CharitableRefused(s.charitable, new.schA.line17, s.config)
           beside == s.block # None /\ s.exempt # 0
           mismatch == s.block # None /\ UnemploymentMismatch(s.block)
           front == <<<<"spouse_birthdate", AgeUnknown(s.config)>>,
                      <<"schedule_r", ScheduleRPossible(s, f.preamble.agi)>>>>
           middle == <<<<"charitable_nonitemizer", charity>>,
                       <<"exempt_interest_beside_credit", beside>>,
                       <<"unemployment_rule", mismatch>>>>
           last == <<<<"passive_loss", PassiveLossRefused(new.f8582)>>>>
           schA == ScheduleALedger(s, EffectiveItemized(s), f.preamble.agi)
           qbi == QBILedger(s, new.taxable)
<1>1. /\ Other("spouse_birthdate") /\ Other("schedule_r")
      /\ Other("charitable_nonitemizer") /\ Other("exempt_interest_beside_credit")
      /\ Other("unemployment_rule") /\ Other("passive_loss")
  BY DEF Other, AuditRefusals
<1>2. DeductLedger(s, f, new) = (((front \o schA) \o middle) \o qbi) \o last
  BY DEF DeductLedger
<1>3. Unaudited(schA) /\ Unaudited(qbi)
  BY TakenUnaudited
<1> HIDE DEF charity, beside, mismatch
<1>4. Unaudited(front) /\ Unaudited(middle) /\ Unaudited(last)
  BY <1>1, ShortUnaudited
<1> HIDE DEF front, middle, last, schA, qbi
<1>5. Unaudited((front \o schA) \o middle)
  BY <1>3, <1>4, UnauditedJoined
<1>6. Unaudited(((front \o schA) \o middle) \o qbi)
  BY <1>3, <1>5, UnauditedJoined
<1>7. QED
  BY <1>2, <1>4, <1>6, UnauditedJoined

LEMMA SpineUnaudited ==
  ASSUME NEW s, NEW f
  PROVE  /\ Unaudited(SpineLedger(s, f)) /\ Unaudited(InputLedger(s))
         /\ \A answer : Unaudited(AnswerLedger(s, f, answer))
         /\ Unaudited(RenderLedger(s, f))
<1>1. /\ Other("health_and_credit") /\ Other("eic") /\ Other("head_of_household")
      /\ Other("workbook_eic_fact") /\ Other("workbook_schedule_c")
      /\ Other("workbook_se_health") /\ Other("workbook_unmapped_w2")
      /\ Other("workbook_eic_inconsistent") /\ Other("workbook_declined")
      /\ Other("workbook_probe") /\ Other("workbook_qbi")
      /\ Other("net_credit_without_schedule_3") /\ Other("payments_do_not_foot")
  BY DEF Other, AuditRefusals
<1>2. Unaudited(SpineLedger(s, f))
  <2> DEFINE circular == s.block # None
               /\ CircularRefused(f.preamble.agi, s.block, f.sch1.line17, s.config)
             eic == TentativeOf(s, f) > 0 /\ EICRefusal(s, s.facts) # "none"
  <2>1. SpineLedger(s, f) =
          <<<<"health_and_credit", circular>>, <<"eic", eic>>,
            <<"head_of_household", HeaderRefused(s.config, s.year)>>>>
    BY DEF SpineLedger
  <2> HIDE DEF circular, eic
  <2>2. QED
    BY <1>1, <2>1, ShortUnaudited
<1>3. Unaudited(InputLedger(s))
  <2> DEFINE businesses == s.businesses # <<>>
             health == s.health # 0
  <2>1. InputLedger(s) =
          <<<<"workbook_eic_fact", FactsUnusable(s)>>,
            <<"workbook_schedule_c", businesses>>, <<"workbook_se_health", health>>,
            <<"workbook_unmapped_w2", UnmappedW2s(s)>>>>
    BY DEF InputLedger
  <2> HIDE DEF businesses, health
  <2>2. QED
    BY <1>1, <2>1, ShortUnaudited
<1>4. ASSUME NEW answer PROVE Unaudited(AnswerLedger(s, f, answer))
  BY <1>1, ShortUnaudited DEF AnswerLedger
<1>5. Unaudited(RenderLedger(s, f))
  <2> DEFINE net == f.ptc.line26 > 0 /\ ~s.ackSchedule3
             loose == f.spine.line32 # f.eic \/ ~PaymentsFoot(f.spine)
  <2>1. RenderLedger(s, f) =
          <<<<"net_credit_without_schedule_3", net>>, <<"payments_do_not_foot", loose>>>>
    BY DEF RenderLedger
  <2> HIDE DEF net, loose
  <2>2. QED
    BY <1>1, <2>1, ShortUnaudited
<1>6. QED
  BY <1>2, <1>3, <1>4, <1>5

\* The preparation of a federal packet raises one where the mirror fails.
LEMMA EmitAudited == ASSUME NEW s, NEW f PROVE Audited(EmitLedger(s, f), s)
<1> DEFINE year == s.businesses # <<>> /\ s.year \notin ScheduleCYears
           digital == s.year >= 2022 /\ s.config.digital = None
           five == <<<<"schedule_c_year", year>>, <<"digital_assets", digital>>,
                     <<"blank_spouse", BlankSpouse(s.config)>>,
                     <<"schedule_e_line_27", Line27Refused(s.k1s)>>,
                     <<"depreciation_audit_unbuildable", AuditUnbuildable(s)>>>>
           rows == EmitsScheduleB(f)
             /\ ScheduleBRefused(s.interest, K1Amounts(s, LAMBDA k : k.interest),
                                 s.dividends, K1Amounts(s, LAMBDA k : k.dividends))
           schB == <<<<"schedule_b_rows", rows>>>>
           schA == ScheduleALedger(s, s.itemized, f.spine.line11)
           partV == AnyOf(s.businesses, ScheduleCPrintRefused)
           untied == \E i \in DOMAIN Activities4562(s) :
             LET act == Activities4562(s)[i] IN
             /\ CopyRequired(act, s.year)
             /\ ResolveRefused(act, ActivityKind(s, i), s.year, MidQuarterOf(s))
           two == <<<<"schedule_c_part_v", partV>>, <<"f4562", untied>>>>
           qbi == IF HasQBISource(s) THEN QBILedger(s, f.taxable) ELSE <<>>
           passive == EmitsF8582(s) /\ PassiveLossRefused(LimitationOf(s, f.spine.line11))
           loss == <<<<"passive_loss", passive>>>>
           front == SharedLedger(s) \o five
           middle == ((front \o PartIILedger(s)) \o BusinessLedger(s)) \o SecuritiesLedger(s)
           back == ((middle \o schB) \o schA) \o two
<1>1. EmitLedger(s, f) = (back \o qbi) \o loss
  BY DEF EmitLedger
<1>2. /\ Other("schedule_c_year") /\ Other("digital_assets") /\ Other("blank_spouse")
      /\ Other("schedule_e_line_27") /\ Other("schedule_b_rows")
      /\ Other("schedule_c_part_v") /\ Other("f4562") /\ Other("passive_loss")
  BY DEF Other, AuditRefusals
<1>3. Unaudited(schA) /\ Unaudited(qbi)
  BY TakenUnaudited, ShortUnaudited
<1> HIDE DEF year, digital, rows, partV, untied, passive, schA, qbi
<1>4. Unaudited(schB) /\ Unaudited(two) /\ Unaudited(loss)
  BY <1>2, ShortUnaudited
<1>5. Audited(five, s)
  <2>1. \A a, b, c, d, e :
          (\A x \in {a, b, c, d} : Other(x[1])) /\ (e[2] => AuditUnbuildable(s))
            => Audited(<<a, b, c, d, e>>, s)
    BY ShortListings DEF Audited, Other
  <2>2. \A m, p, n, q, o, r, t, u, v, w :
          Other(m) /\ Other(n) /\ Other(o) /\ Other(t) /\ (w => AuditUnbuildable(s))
            => Audited(<<<<m, p>>, <<n, q>>, <<o, r>>, <<t, u>>, <<v, w>>>>, s)
    BY <2>1
  <2>3. QED
    BY <1>2, <2>2, Zenon
<1> HIDE DEF five, schB, two, loss
<1>6. Audited(front, s)
  BY <1>5, PartsUnaudited, UnauditedIsAudited, AuditedJoined
<1> HIDE DEF front
<1>7. Audited((front \o PartIILedger(s)) \o BusinessLedger(s), s)
  BY <1>6, PartsUnaudited, UnauditedIsAudited, AuditedJoined
<1>8. Audited(middle, s)
  BY <1>7, PartsUnaudited, UnauditedIsAudited, AuditedJoined
<1> HIDE DEF middle
<1>9. Audited((middle \o schB) \o schA, s)
  BY <1>3, <1>4, <1>8, UnauditedIsAudited, AuditedJoined
<1>10. Audited(back, s)
  BY <1>4, <1>9, UnauditedIsAudited, AuditedJoined
<1> HIDE DEF back
<1>11. Audited(back \o qbi, s)
  BY <1>3, <1>10, UnauditedIsAudited, AuditedJoined
<1>12. QED
  BY <1>1, <1>4, <1>11, UnauditedIsAudited, AuditedJoined

LEMMA PrintingAudited ==
  ASSUME NEW s, NEW f
  PROVE  Audited(ChangeLedger(s) \o EmitLedger(s, f) \o RenderLedger(s, f), s)
<1>1. Audited(ChangeLedger(s), s) /\ Audited(RenderLedger(s, f), s)
  BY ChangeUnaudited, SpineUnaudited, UnauditedIsAudited
<1>2. Audited(ChangeLedger(s) \o EmitLedger(s, f), s)
  BY <1>1, EmitAudited, AuditedJoined
<1>3. QED
  BY <1>1, <1>2, AuditedJoined

\* A depreciation audit is written last, of a return whose mirror agrees, and
\* refuses one whose mirror does not.
Writable == Computed /\ ~AuditUnwritable(Effective(scenario))
Unwritable == Computed /\ AuditUnwritable(Effective(scenario))
AuditInv ==
  /\ Printed("depreciation_audit") => stage = "done" /\ Writable
  /\ scenario.command = "federal" /\ refusal \in AuditRefusals => Unwritable
DInv == FInv /\ AuditInv

\* A refusal that is not the audit's, or is one of a return it cannot mirror.
LEMMA RefusedAuditKept ==
  ASSUME DInv, stage \notin Ended, NEW ledger, Refuse(ledger),
         scenario.command = "federal" /\ Raised(ledger) \in AuditRefusals => Unwritable
  PROVE  AuditInv'
<1>1. ~Printed("depreciation_audit")
  BY DEF DInv, AuditInv, Ended
<1>2. ~Printed("depreciation_audit")'
  BY <1>1 DEF Refuse, Printed
<1>3. scenario' = scenario /\ refusal' = Raised(ledger) /\ (Unwritable => Unwritable')
  BY DEF Refuse, Unwritable, Computed
<1>4. QED
  BY <1>2, <1>3 DEF AuditInv

\* A step that refuses nothing and writes no audit.
LEMMA UnrefusedAuditKept ==
  ASSUME DInv, stage \notin Ended, refusal' = refusal, NEW forms,
         printed' = printed \cup forms, <<"depreciation_audit", 0>> \notin forms
  PROVE  AuditInv'
<1>1. ~Printed("depreciation_audit")
  BY DEF DInv, AuditInv, Ended
<1>2. ~Printed("depreciation_audit")'
  BY <1>1 DEF Printed
<1>3. refusal' = "none"
  BY DEF DInv, FInv, IInv, Control, StageInv, Ended
<1>4. QED
  BY <1>2, <1>3 DEF AuditInv, AuditRefusals

LEMMA ProceedingAuditKept ==
  ASSUME DInv, stage \notin Ended, UNCHANGED <<refusal, printed>>
  PROVE  AuditInv'
<1> DEFINE none == {}
<1>1. printed' = printed \cup none /\ <<"depreciation_audit", 0>> \notin none
  OBVIOUS
<1> HIDE DEF none
<1>2. QED
  BY <1>1, UnrefusedAuditKept

LEMMA SteppedAuditKept ==
  ASSUME DInv, NEW at, at \notin Ended, NEW ledger, NEW next, NEW new,
         Step(at, ledger, next, new),
         scenario.command = "federal" => Unaudited(ledger)
  PROVE  AuditInv'
<1>1. stage \notin Ended
  BY DEF Step
<1>2. CASE Refuse(ledger)
  <2>1. scenario.command = "federal" => Raised(ledger) \notin AuditRefusals
    BY <1>2, RaisedUnaudited DEF Refuse
  <2>2. QED
    BY <1>1, <1>2, <2>1, RefusedAuditKept
<1>3. CASE Proceed(ledger, next, new)
  BY <1>1, <1>3, ProceedingAuditKept DEF Proceed
<1>4. QED
  BY <1>2, <1>3 DEF Step

LEMMA WrittenAuditKept ==
  ASSUME DInv, NEW at, at \notin Ended, NEW ledger, NEW next, NEW forms,
         Write(at, ledger, next, forms), <<"depreciation_audit", 0>> \notin forms,
         scenario.command = "federal" /\ ~Passes(ledger) /\ Raised(ledger) \in AuditRefusals
           => Unwritable
  PROVE  AuditInv'
<1>1. stage \notin Ended
  BY DEF Write
<1>2. CASE Refuse(ledger)
  BY <1>1, <1>2, RefusedAuditKept DEF Refuse
<1>3. CASE /\ printed' = printed \cup forms
           /\ UNCHANGED <<scenario, refusal, figures, filed>>
  BY <1>1, <1>3, UnrefusedAuditKept
<1>4. QED
  BY <1>2, <1>3 DEF Write

LEMMA ComputingAuditKept ==
  ASSUME DInv, \/ Load \/ BuildEffective \/ Guards \/ Income \/ Deduct \/ ComputeSpine
               \/ EnterInputs \/ Recalculate \/ ReadAnswer
  PROVE  AuditInv'
<1>1. \A at \in Stages : at \notin Ended
  BY DEF Stages, Ended
<1>2. CASE Load
  BY <1>1, <1>2, SteppedAuditKept, LoadUnaudited DEF Load, Stages
<1>3. CASE BuildEffective
  BY <1>1, <1>3, SteppedAuditKept, EffectiveUnaudited DEF BuildEffective, Stages
<1>4. CASE Guards
  BY <1>1, <1>4, SteppedAuditKept, GuardUnaudited DEF Guards, Stages
<1>5. CASE Income
  BY <1>1, <1>5, SteppedAuditKept, IncomeUnaudited DEF Income, Stages
<1>6. CASE Deduct
  BY <1>1, <1>6, SteppedAuditKept, DeductUnaudited DEF Deduct, Stages
<1>7. CASE ComputeSpine
  BY <1>1, <1>7, SteppedAuditKept, SpineUnaudited DEF ComputeSpine, Stages
<1>8. CASE EnterInputs
  BY <1>1, <1>8, SteppedAuditKept, SpineUnaudited DEF EnterInputs, Stages
<1>9. CASE Recalculate
  BY <1>9, ProceedingAuditKept DEF Recalculate, Proceed, Ended
<1>10. CASE ReadAnswer
  BY <1>1, <1>10, SteppedAuditKept, SpineUnaudited DEF ReadAnswer, Stages
<1>11. QED
  BY <1>2, <1>3, <1>4, <1>5, <1>6, <1>7, <1>8, <1>9, <1>10

\* The packet of a return, and the corporation's, have no audit among them.
LEMMA PrintFederalAuditKept == ASSUME DInv, PrintFederal PROVE AuditInv'
<1> DEFINE s == Effective(scenario)
           forms == FederalPacket(s, figures) \cup Statement8z(s, figures) \cup ChangePacket(s)
           ledger == ChangeLedger(s) \o EmitLedger(s, figures) \o RenderLedger(s, figures)
<1>1. Computed
  BY DEF PrintFederal, Write, DInv, FInv, IInv, Control, FiguresInv, Late, Computed
<1>2. <<"depreciation_audit", 0>> \notin forms
  <2>1. \A form \in forms : form[1] \in FederalNames
    BY FederalPacketNames
  <2> HIDE DEF forms
  <2>2. QED
    BY <2>1 DEF FederalNames
<1>3. Audited(ledger, s)
  BY PrintingAudited
<1>4. AuditUnbuildable(s) => Unwritable
  BY <1>1 DEF Unwritable, AuditUnwritable
<1>5. Write("print", ledger, "corporate", forms)
  BY DEF PrintFederal
<1> HIDE DEF s, forms, ledger
<1>6. ~Passes(ledger) /\ Raised(ledger) \in AuditRefusals => Unwritable
  BY <1>3, <1>4, RaisedAudited
<1>7. "print" \notin Ended
  BY DEF Ended
<1>8. QED
  BY <1>2, <1>5, <1>6, <1>7, WrittenAuditKept

LEMMA PrintCorporateAuditKept == ASSUME DInv, PrintCorporate PROVE AuditInv'
<1> DEFINE s == Effective(scenario)
           refused == s.corp # None /\ CorporatePrintRefused(s.corp, s.year)
           ledger == <<<<"f1120s_print", refused>>>>
           forms == IF s.corp = None THEN {} ELSE CorporatePacket(s.corp)
<1>1. Write("corporate", ledger, "audit", forms)
  BY DEF PrintCorporate
<1>2. <<"depreciation_audit", 0>> \notin forms
  BY CorporatePacketNames DEF CorporateNames
<1>3. Other("f1120s_print")
  BY DEF Other, AuditRefusals
<1> HIDE DEF refused, forms
<1>4. Unaudited(ledger)
  BY <1>3, ShortUnaudited
<1> HIDE DEF ledger
<1>5. ~Passes(ledger) => Raised(ledger) \notin AuditRefusals
  BY <1>4, RaisedUnaudited
<1>6. "corporate" \notin Ended
  BY DEF Ended
<1>7. QED
  BY <1>1, <1>2, <1>5, <1>6, WrittenAuditKept

\* The audit is written of figures its mirror agrees with, or not at all.
LEMMA PrintAuditKept == ASSUME DInv, PrintAudit PROVE AuditInv'
<1> DEFINE s == Effective(scenario)
           unwritable == AuditUnwritable(s)
           ledger == <<<<"depreciation_audit_unwritable", unwritable>>>>
           forms == Form("depreciation_audit", AssetMode(s))
<1>1. stage = "audit" /\ Computed
  BY DEF PrintAudit, Write, DInv, FInv, IInv, Control, FiguresInv, Late, Computed
<1>2. \/ Refuse(ledger)
      \/ /\ Passes(ledger)
         /\ stage' = "done" /\ printed' = printed \cup forms
         /\ UNCHANGED <<scenario, refusal, figures, filed>>
  BY DEF PrintAudit, Write
<1>3. Unwritable = (Computed /\ unwritable) /\ Writable = (Computed /\ ~unwritable)
  BY Zenon DEF Unwritable, Writable
<1>4. (Passes(ledger) => ~unwritable) /\ (~unwritable => Passes(ledger))
  <2> HIDE DEF unwritable
  <2>1. Passes(ledger) => ~unwritable
    BY PassedEntries
  <2>2. ~unwritable => Passes(ledger)
    BY DEF Passes, AnyOf, Offends
  <2>3. QED
    BY <2>1, <2>2
<1> HIDE DEF ledger, forms
<1>5. CASE Refuse(ledger)
  <2>1. Unwritable
    BY <1>1, <1>3, <1>4, <1>5, Zenon DEF Refuse
  <2>2. QED
    BY <1>1, <1>5, <2>1, RefusedAuditKept DEF Ended
<1>6. CASE /\ Passes(ledger)
           /\ stage' = "done" /\ printed' = printed \cup forms
           /\ UNCHANGED <<scenario, refusal, figures, filed>>
  <2>1. Writable
    BY <1>1, <1>3, <1>4, <1>6, Zenon
  <2>2. Writable'
    BY <1>6, <2>1 DEF Writable, Computed
  <2>3. refusal' = "none"
    BY <1>1, <1>6 DEF DInv, FInv, IInv, Control, StageInv
  <2>4. QED
    BY <1>6, <2>2, <2>3 DEF AuditInv, AuditRefusals
<1>7. QED
  BY <1>2, <1>5, <1>6

\* The other packets are of other commands.
LEMMA OtherAuditKept ==
  ASSUME DInv, \/ ScorpReturn \/ CAScorpReturn \/ CAScorpK1s
               \/ ComputeCalifornia \/ PrintCalifornia \/ File \/ Amend \/ Attach \/ AmendCalifornia
  PROVE  AuditInv'
<1> DEFINE audit == <<"depreciation_audit", 0>>
<1>1. stage \in {"scorp", "ca_scorp", "f100s_k1s", "california", "print_ca", "file",
                 "amend", "attach", "schedule_x"}
  BY DEF ScorpReturn, CAScorpReturn, CAScorpK1s, ComputeCalifornia, PrintCalifornia, File, Amend,
         Attach, AmendCalifornia, Write, Step
<1>2. scenario.command # "federal" /\ stage \notin Ended
  BY <1>1 DEF DInv, FInv, IInv, Control, StageInv, Ended
<1>3. \A at \in Stages : at \notin Ended
  BY DEF Stages, Ended
<1>4. \A c : audit \notin CorporatePacket(c)
  BY CorporatePacketNames DEF CorporateNames
<1>5. \A c : audit \notin CAScorpPacket(c) \cup CAPacket(c)
  BY DEF CAScorpPacket, CAPacket, Sheets, CopiesOf
<1>6. \A s, f : audit \notin ChangedForms(s, f)
  BY DEF ChangedForms, Form, Sheets
<1>7. audit \notin Sheets({"f1040x"}) /\ audit \notin Sheets({"schedule_x"})
  BY DEF Sheets
<1> HIDE DEF audit
<1>8. ASSUME NEW at \in Stages, NEW ledger, NEW next, NEW forms,
             Write(at, ledger, next, forms), audit \notin forms
      PROVE  AuditInv'
  BY <1>2, <1>3, <1>8, WrittenAuditKept DEF audit
<1>9. CASE ScorpReturn
  BY <1>4, <1>8, <1>9 DEF ScorpReturn, Stages
<1>10. CASE CAScorpReturn \/ CAScorpK1s
  BY <1>5, <1>8, <1>10, FirstFormsOfPacket DEF CAScorpReturn, CAScorpK1s, Stages
<1>11. CASE ComputeCalifornia
  BY <1>2, <1>3, <1>11, SteppedAuditKept DEF ComputeCalifornia, Stages
<1>12. CASE PrintCalifornia
  BY <1>5, <1>8, <1>12 DEF PrintCalifornia, Stages
<1>13. CASE File
  BY <1>2, <1>13, ProceedingAuditKept DEF File
<1>14. CASE Amend
  BY <1>7, <1>8, <1>14 DEF Amend, Stages
<1>15. CASE Attach
  BY <1>6, <1>8, <1>15 DEF Attach, Stages
<1>16. CASE AmendCalifornia
  BY <1>7, <1>8, <1>16 DEF AmendCalifornia, Stages
<1>17. QED
  BY <1>9, <1>10, <1>11, <1>12, <1>13, <1>14, <1>15, <1>16

LEMMA AuditInit == Init => DInv
<1>1. Init => AuditInv
  BY DEF Init, AuditInv, AuditRefusals, Printed
<1>2. QED
  BY <1>1, KnownInit DEF DInv

LEMMA AuditStep == DInv /\ [Next]_vars => DInv'
<1> SUFFICES ASSUME DInv, [Next]_vars PROVE DInv'
  OBVIOUS
<1>1. FInv'
  BY KnownStep DEF DInv
<1>2. CASE Next
  BY <1>1, <1>2, ComputingAuditKept, PrintFederalAuditKept, PrintCorporateAuditKept,
     PrintAuditKept, OtherAuditKept
  DEF Next, DInv
<1>3. CASE UNCHANGED vars
  <2>1. AuditInv' = AuditInv
    BY <1>3 DEF vars, AuditInv, Printed, Writable, Unwritable, Computed
  <2>2. QED
    BY <1>1, <2>1 DEF DInv
<1>4. QED
  BY <1>2, <1>3

\* What the mirror was tested for, before the audit is written, is enough for
\* every one of its tie-outs.
LEMMA AuditTies == DInv => AuditTiesOut
<1>1. ASSUME DInv, Printed("depreciation_audit")
      PROVE  \A tie \in TieOuts(Effective(scenario)) : tie[1] = "line 26" \/ Verdict(tie)
  BY <1>1, WrittenTies DEF DInv, AuditInv, Writable
<1>2. ASSUME DInv, scenario.command = "federal", refusal \in AuditRefusals
      PROVE  SomeAsset(scenario, LAMBDA a :
               a.prior # None /\ a.prior % 100 # 0 /\ Ceiling4562(a, scenario))
  BY <1>2, RefusedForCents DEF DInv, AuditInv, Unwritable
<1>3. QED
  BY <1>1, <1>2 DEF AuditTiesOut

----------------------------------------------------------------------------
(* The probe of the premium tax credit.                                  *)

\* What the refusals of the native spine leave.
LEMMA SpineAsked ==
  ASSUME NEW s, NEW f, Passes(SpineLedger(s, f)), s.block # None
  PROVE  ~CircularRefused(f.preamble.agi, s.block, f.sch1.line17, s.config)
<1> DEFINE circular == CircularRefused(f.preamble.agi, s.block, f.sch1.line17, s.config)
           stated == s.block # None /\ circular
           eic == TentativeOf(s, f) > 0 /\ EICRefusal(s, s.facts) # "none"
           header == HeaderRefused(s.config, s.year)
<1>1. SpineLedger(s, f) =
        <<<<"health_and_credit", stated>>, <<"eic", eic>>,
          <<"head_of_household", header>>>>
  BY DEF SpineLedger
<1> HIDE DEF stated, eic, header
<1>2. \A k, p, l, q, m, r : Passes(<<<<k, p>>, <<l, q>>, <<m, r>>>>) => ~p
  BY DEF Passes, AnyOf, Offends
<1>3. ~stated
  BY <1>1, <1>2, Zenon
<1> HIDE DEF circular
<1>4. ~circular
  BY <1>3 DEF stated
<1>5. QED
  BY <1>4 DEF circular

\* A Form 1095-A goes into the return as the scenario states it.
LEMMA EffectiveBlock ==
  ASSUME NEW sc
  PROVE  Effective(sc).block = sc.block
<1> DEFINE t == WithShareholderK1s(sc)
<1>1. t.block = sc.block
  BY DEF WithShareholderK1s
<1> HIDE DEF t
<1>2. Effective(sc).block = t.block
  BY DEF WithDepreciation, Effective, t
<1>3. QED
  BY <1>1, <1>2

\* A return with both a deduction for health insurance and a Form 1095-A has
\* no credit at the probe; any deduction that the premiums allow leaves an
\* income at least the probe's, and so no credit either.
LEMMA ProbeSound ==
  ASSUME FInv, scenario.block # None => NoNegativePremium(scenario.block)
  PROVE  SEHealthProbeSound
<1> SUFFICES ASSUME Native, scenario.block # None, figures.sch1.line17 # 0
             PROVE  LET s == Effective(scenario)
                        before == figures.spine.line11 + figures.sch1.line17 + s.block.exempt
                        premiums == SumOf(s.block.months, LAMBDA m : m.premium) \div 100
                    IN \A deduction \in {50 * k : k \in 0 .. premiums \div 50} :
                         F8962(s.block, before - deduction, s.config).line24 = 0
  BY DEF SEHealthProbeSound
<1> DEFINE s == Effective(scenario)
           b == s.block
           line17 == figures.sch1.line17
           agi == figures.preamble.agi
           premiums == SumOf(b.months, LAMBDA m : m.premium) \div 100
           low == ProbeMagi(agi, b, line17)
           before == figures.spine.line11 + line17 + b.exempt
<1>1. TypedScenario(scenario) /\ SpineKnown(scenario, figures)
  BY ComputedKnown DEF Native
<1>2. NativeKnown(scenario, figures)
  BY NativeComputed
<1>3. TypedScenario(s) /\ Passes(SpineLedger(s, figures))
  BY <1>2 DEF NativeKnown
<1>4. b # None /\ NoNegativePremium(b) /\ TypedBlock(b)
  <2>1. b = scenario.block
    BY EffectiveBlock
  <2>2. TypedBlock(b)
    <3> HIDE DEF s
    <3>1. QED
      BY <1>3 DEF TypedScenario, TypedReturn
  <2> HIDE DEF b
  <2>3. QED
    BY <2>1, <2>2
<1>5. ~CircularRefused(agi, b, line17, s.config)
  BY <1>3, <1>4, SpineAsked
<1>6. F8962(b, low, s.config).line24 = 0
  BY <1>5 DEF CircularRefused
<1>7. figures.spine.line11 = agi
  BY <1>1, SpineIs
<1>8. line17 \in Int /\ agi \in Int
  BY <1>1, IncomeFiguresTyped DEF SpineKnown, DeductionsKnown, TypedIncome
<1>9. b.exempt \in Int
  BY <1>4 DEF TypedBlock
<1>10. premiums \in Int
  <2> DEFINE sum == SumOf(b.months, LAMBDA m : m.premium)
  <2>1. sum \in Int
    <3>1. 0 \in Int
      OBVIOUS
    <3> HIDE DEF s
    <3>2. QED
      BY <1>4, <3>1, MonthSums
  <2> HIDE DEF sum
  <2>2. sum \div 100 \in Int
    BY <2>1
  <2>3. QED
    BY <2>2 DEF sum
<1>11. low = agi + b.exempt - Positive(premiums - line17)
  BY DEF ProbeMagi
<1>12. before = agi + line17 + b.exempt
  BY <1>7
<1> HIDE DEF s, b, line17, agi, premiums, low, before
<1> DEFINE exempt == b.exempt
<1>13. exempt \in Int /\ low = agi + exempt - Positive(premiums - line17)
       /\ before = agi + line17 + exempt
  BY <1>9, <1>11, <1>12
<1> HIDE DEF exempt
<1>14. SUFFICES ASSUME NEW k \in 0 .. premiums \div 50
                PROVE  F8962(b, before - 50 * k, s.config).line24 = 0
  BY DEF s, b, line17, premiums, before
<1>15. 50 * k \in Int /\ 50 * k <= premiums
  BY <1>10
<1> DEFINE deduction == 50 * k
           high == before - deduction
<1>16. low \in Int /\ high \in Int /\ low <= high
  <2>1. deduction \in Int /\ deduction <= premiums
    BY <1>15
  <2> HIDE DEF deduction
  <2>2. QED
    BY <1>8, <1>10, <1>13, <2>1 DEF Positive, Larger
<1> HIDE DEF high, deduction
<1>17. /\ F8962(b, high, s.config).line24 \in Nat
       /\ F8962(b, high, s.config).line24 <= F8962(b, low, s.config).line24
  BY <1>4, <1>16, CreditFalls
<1> DEFINE x == F8962(b, high, s.config).line24
           y == F8962(b, low, s.config).line24
<1>18. x \in Nat /\ x <= y /\ y = 0
  BY <1>6, <1>17
<1> HIDE DEF x, y
<1>19. x = 0
  BY <1>18
<1>20. QED
  BY <1>19 DEF x, high, deduction

----------------------------------------------------------------------------
(* For every behaviour.                                                    *)

\* The invariants hold in every state of every behaviour.
LEMMA AlwaysKnown == Spec => []FInv
BY KnownInit, KnownStep, PTL DEF Spec

\* No loss over the excess-business-loss threshold reaches Schedules C and E
\* of a computed return, whatever its activities, assets and K-1s: the
\* guard's aggregate bounds what the forms deduct
\* (aggregate_business_losses).
THEOREM ExcessLossGuarded == Spec => []ExcessLossSeen
<1>1. FInv => ExcessLossSeen
  BY ExcessSeen
<1>2. QED
  BY <1>1, AlwaysKnown, PTL

\* The state refund taxed on Schedule 1 of a computed return is what it
\* saved last year, for every prior return, filing status and cap
\* (sch_1.py).
THEOREM RefundTaxesWhatItSaved == Spec => []TaxBenefit
<1>1. FInv => TaxBenefit
  BY BenefitTaxed
<1>2. QED
  BY <1>1, AlwaysKnown, PTL

\* Schedule D carries forward exactly the loss it did not use (sch_d.py).
THEOREM LossIsCarriedOver == Spec => []CarryforwardConservesLoss
<1>1. FInv => CarryforwardConservesLoss
  BY LossCarried
<1>2. QED
  BY <1>1, AlwaysKnown, PTL

\* What the corporation's K-1s carry, over any number of shareholders, is
\* the corporation's within half a dollar a K-1 (f1120s.py).
THEOREM K1SharesAddUp == Spec => []K1SharesConserve
<1>1. FInv => K1SharesConserve
  BY SharesConserved
<1>2. QED
  BY <1>1, AlwaysKnown, PTL

\* Form 8995 carries the whole of the business income, each reduction taken
\* once, however many businesses and K-1s share it (f8995.py), by the side
\* the filer elected (positions.py).
THEOREM QBIReducedEverywhere == Spec => []QBIReducedOnce
<1>1. FInv => QBIReducedOnce
  BY QBIReduced
<1>2. QED
  BY <1>1, AlwaysKnown, PTL

\* No total of a computed 1040 leaves something out, whichever route
\* computed it and whatever the workbook answered (orchestrator.py).
THEOREM TotalsAreWhole == Spec => []NoPartialTotal
<1>1. FInv => NoPartialTotal
  BY NothingLeftOut
<1>2. QED
  BY <1>1, AlwaysKnown, PTL

\* The invariants of an amendment hold in every state of every behaviour.
LEMMA AlwaysAmended == Spec => []AInv
BY AmendInit, AmendStep, PTL DEF Spec

\* What Form 1040-X asks for or gives back is the change of the return's own
\* balance, as Schedule X's is of California's, for every pair of returns
\* (f1040x.py, schedule_x.py).
THEOREM AmendmentAlwaysBalances == Spec => []AmendmentBalance
<1>1. AInv => AmendmentBalance
  BY AmendmentBalances
<1>2. QED
  BY <1>1, AlwaysAmended, PTL

\* One return has one bottom line, whichever of its lines or forms tells it
\* (f1040_spine.py, f4868.py, f1040x.py, schedule_x.py, summary.py).
THEOREM BottomLineIsOne == Spec => []OneBottomLine
<1>1. AInv => OneBottomLine
  BY OneBottom
<1>2. QED
  BY <1>1, AlwaysAmended, PTL

\* The printed bottom of Form 540 tells the liability that is computed apart
\* from it, and Schedule CA Part II crossfoots, for every California block
\* that states no negative contribution, penalty or interest (f540.py,
\* sch_ca.py).
THEOREM Form540AlwaysBalances ==
  Spec => []((scenario.ca # None => NoNegative540(scenario.ca)) => Form540Balances)
<1>1. AInv => ((scenario.ca # None => NoNegative540(scenario.ca)) => Form540Balances)
  BY Balances540
<1>2. QED
  BY <1>1, AlwaysAmended, PTL

\* A printed return's federal forms are those its scenario calls for, in every
\* state of every behaviour (emit_pdfs).
LEMMA AlwaysPacked == Spec => []PInv
BY PacketInit, PacketStep, PTL DEF Spec

\* No return goes on, or is printed, with a passive loss that section 469
\* disallows and nobody was told of: a printed return never, and a natively
\* computed one that is not printed, or not yet, when no K-1 states a negative
\* carried-in loss, which nothing in the loader keeps out (attestations.py,
\* f8582.py).
THEOREM UnrefusedLossAlwaysAllowed ==
  Spec => []((Native /\ ~Printed("1040") => NoNegativePrior(scenario.k1s)) => UnrefusedLossIsAllowed)
<1>1. PInv => ((Native /\ ~Printed("1040") => NoNegativePrior(scenario.k1s)) => UnrefusedLossIsAllowed)
  BY UnrefusedAllowed
<1>2. QED
  BY <1>1, AlwaysPacked, PTL

\* A natively computed return that is printed prints the schedules its lines
\* are read from: whatever line of Form 1040 or of its Schedules 1 and 2 is
\* not zero has its form in the packet, and no form is there without the one it
\* feeds. It holds of every return that states no negative health insurance
\* deduction, which the loader refuses (emit_pdfs, _load_scenario).
THEOREM AttachmentsAlwaysMatch ==
  Spec => []((Native => scenario.health >= 0) => AttachmentsMatch)
<1>1. PInv => ((Native => scenario.health >= 0) => AttachmentsMatch)
  BY AttachmentsAgree
<1>2. QED
  BY <1>1, AlwaysPacked, PTL

\* Every Form 4562 copy that a return prints adds up, line 17 and the rows of
\* line 19, to the depreciation its activity's schedule deducts, though the
\* form works every asset out again (f4562.py, resolver.py).
THEOREM Form4562AlwaysTies == Spec => []Form4562Ties
<1>1. PInv => Form4562Ties
  BY CopiesTie
<1>2. QED
  BY <1>1, AlwaysPacked, PTL

\* Every printed copy depreciates this year's personal property by the one
\* convention that the bases of the whole return call for, and no copy by one
\* its own activity would have called for (mid_quarter_applies).
THEOREM ConventionIsAlwaysTheReturns == Spec => []ConventionIsTheReturns
<1>1. PInv => ConventionIsTheReturns
  BY ConventionsAgree
<1>2. QED
  BY <1>1, AlwaysPacked, PTL

\* A return's audit is written only where its mirror agrees, in every state of
\* every behaviour.
LEMMA AlwaysMirrored == Spec => []DInv
BY AuditInit, AuditStep, PTL DEF Spec

\* Every tie-out of a depreciation audit that is written says that the amounts
\* claimed, computed and printed agree, whatever the activities, their assets
\* and their tables, the one of Form 3115's line 26 apart: the mirror's own
\* test, of the workbook's cells against the engine, is enough for the copies,
\* the schedules and the whole return. And no federal return is refused by the
\* audit but for a prior amount stated with cents where the basis left is what
\* limits the year (depreciation_workbook.py).
THEOREM AuditAlwaysTiesOut == Spec => []AuditTiesOut
<1>1. DInv => AuditTiesOut
  BY AuditTies
<1>2. QED
  BY <1>1, AlwaysMirrored, PTL

\* Whenever a return deducts health insurance beside a Form 1095-A, no
\* deduction that its premiums allow would leave it a premium tax credit: the
\* single probe at the lowest income stands for all of them, because the
\* contribution grows with income and the credit falls. It holds of every
\* block that states no negative premium, which nothing in the loader keeps
\* out (f1040_spine.py, f8962.py).
THEOREM SEHealthProbeAlwaysSound ==
  Spec => []((scenario.block # None => NoNegativePremium(scenario.block)) => SEHealthProbeSound)
<1>1. DInv => ((scenario.block # None => NoNegativePremium(scenario.block)) => SEHealthProbeSound)
  BY ProbeSound DEF DInv
<1>2. QED
  BY <1>1, AlwaysMirrored, PTL
============================================================================
