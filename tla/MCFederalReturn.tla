-------------------------- MODULE MCFederalReturn --------------------------
(* Instances of FederalReturn for TLC: the 2024 parameters, and families   *)
(* of returns, each of them about one part of the program.                 *)
EXTENDS FederalReturn, TLC

Dollars(amount) == 100 * amount

----------------------------------------------------------------------------
(* Parameters.                                                             *)

Joint(s, joint, other) == IF s = "mfj" THEN joint ELSE other
MCBrackets(s) ==
  <<<<Joint(s, 23200, 11600), 10>>, <<Joint(s, 94300, 47150), 12>>,
    <<Joint(s, 201050, 100525), 22>>, <<Joint(s, 383900, 191950), 24>>,
    <<2000000, 32>>>>
\* The tax table in rows of 2,500 dollars, each taxed at its midpoint.
MCTable(s) ==
  [i \in 1 .. 40 |-> [lower |-> 2500 * (i - 1),
                      tax |-> ScheduleTax(2500 * i - 1250, MCBrackets(s))]]
MCSalt(s) == IF s = "mfs" THEN 5000 ELSE 10000
MCView ==
  [s \in Statuses |->
    [brackets |-> MCBrackets(s), table |-> MCTable(s),
     zeroTop |-> Joint(s, 94050, 47025), fifteenTop |-> Joint(s, 583750, 518900),
     deduction |-> IF s = "hoh" THEN 21900 ELSE Joint(s, 29200, 14600),
     perAgeBox |-> Joint(s, 1550, 1950), qbiThreshold |-> Joint(s, 383900, 191950),
     saltCap |-> MCSalt(s), priorSaltCap |-> MCSalt(s)]]
MCThreshold == [s \in Statuses |-> Joint(s, 610000, 305000)]
MCMedicare  == [s \in Statuses |-> IF s = "mfs" THEN 125000 ELSE Joint(s, 250000, 200000)]
MCNativeSpine == (2021 .. 2025) \X {"single", "mfj", "hoh"}
MCNativeEIC   == (2022 .. 2025) \X {"single", "mfj"}
MCYears       == 2021 .. 2025
MCAgedLimits  == <<"single", 1>> :> 17500 @@ <<"hoh", 1>> :> 17500
                   @@ <<"mfj", 1>> :> 20000 @@ <<"mfj", 2>> :> 25000
MCCeiling     == 0 :> 25511 @@ 1 :> 56004 @@ 2 :> 62688 @@ 3 :> 66819

\* The childless credit: 7.65 percent in, a plateau, 7.65 percent out.
MCEICRow(i, threshold, completed) ==
  LET middle == 500 * i - 250
      credit == Smaller(632, (765 * middle) \div 10000)
      left == (765 * Positive(middle - threshold)) \div 10000
  IN [lower |-> 500 * (i - 1), upper |-> 500 * i, credit |-> Positive(credit - left)]
MCPhaseout ==
  [s \in Statuses |-> [threshold |-> Joint(s, 17250, 10330),
                       completed |-> Joint(s, 25511, 18591)]]
MCEICTable ==
  [s \in Statuses |->
    [i \in 1 .. 52 |-> MCEICRow(i, MCPhaseout[s].threshold, 0)]]

MCPoverty == 1 :> 14580 @@ 2 :> 19720
MCFigures == [p \in 150 .. 400 |-> IF p < 200 THEN 4 * (p - 150)
                                   ELSE 200 + (650 * (p - 200)) \div 200]
MCCaps == <<<<200, 375>>, <<300, 950>>, <<401, 1575>>>>

MCRates ==
  LET five == <<20000, 32000, 19200, 11520, 11520, 5760>> IN
  "5yr" :> (<<"half-year", 0>> :> five
            @@ <<"mid-quarter", 1>> :> <<35000, 26000, 15600, 11010, 11010, 1380>>
            @@ <<"mid-quarter", 2>> :> <<25000, 30000, 18000, 11370, 11370, 4260>>
            @@ <<"mid-quarter", 3>> :> <<15000, 34000, 20400, 12240, 11300, 7060>>
            @@ <<"mid-quarter", 4>> :> <<5000, 38000, 22800, 13680, 10940, 9580>>)
  @@ "27.5yr" :> [c \in {"mid-month"} \X (1 .. 12) |->
                    [n \in 1 .. 5 |-> IF n = 1 THEN (3636 * (25 - 2 * c[2])) \div 24
                                      ELSE 3636]]
MCRowLetters == "5yr" :> "b" @@ "27.5yr" :> "i"

\* Divergences: a derived one, two a predicate triggers, one of either
\* direction, one only Schedule D of the 540 may carry.
Div(line, section, direction, auto, triggers) ==
  [line |-> line, section |-> section, direction |-> direction, auto |-> auto,
   gate |-> triggers # {}, triggers |-> triggers]
MCCatalog ==
  "unemployment" :> Div("7", "A", "sub", "unemployment", {})
  @@ "refund" :> Div("1", "A", "sub", "refund", {})
  @@ "pfl" :> Div("7", "A", "sub", "pfl", {})
  @@ "rrb" :> Div("5b", "A", "sub", "rrb", {})
  @@ "k1" :> Div("5", "A", "both", "none", {"has_k1"})
  @@ "bonus" :> Div("5", "A", "add", "none", {"has_rental_depreciation"})
  @@ "muni" :> Div("2", "A", "add", "none", {"has_tax_exempt_interest"})
  @@ "se_health" :> Div("17", "C", "add", "none", {})
  @@ "gain" :> Div("1", "D", "sub", "none",
                   {"has_capital_gain_distributions", "has_state_tax_refund"})
MCCAView ==
  [s \in Statuses |->
    [schedule |-> <<<<0, 10>>, <<Joint(s, 21512, 10756), 20>>,
                    <<Joint(s, 50998, 25499), 40>>, <<Joint(s, 80490, 40245), 60>>,
                    <<Joint(s, 111732, 55866), 80>>, <<Joint(s, 141212, 70606), 93>>>>,
     deduction |-> Joint(s, 11080, 5540), exemption |-> Joint(s, 298, 149),
     phaseout |-> Joint(s, 489719, 244857)]]

----------------------------------------------------------------------------
(* A plain return, and the parts that vary.                                *)

W(wages, owner) ==
  [owner |-> owner, wages |-> Dollars(wages), withheld |-> Dollars(wages \div 10),
   medicare |-> (wages * 145) \div 100, ss |-> (Smaller(wages, 168600) * 62) \div 10,
   state |-> "CA", stateWithheld |-> Dollars(wages \div 25)]
Child ==
  [blank |-> FALSE, relationship |-> "child_or_stepchild", born |-> 2012,
   student |-> None, disabled |-> None, income |-> 0, days |-> 300, claimed |-> FALSE,
   ssn |-> "own"]
Block3532 == [marital |-> "unmarried", decree |-> None, periods |-> <<>>, person |-> Child]
Config(status) ==
  [status |-> status, spouseGiven |-> status \in {"mfj", "mfs"},
   spouseAge |-> IF status \in {"mfj", "mfs"} THEN "working" ELSE None,
   livedWith |-> IF status = "mfs" THEN "no" ELSE None, designee |-> FALSE,
   age |-> "working", dependents |-> 0, ssn |-> "digits",
   hoh |-> IF status = "hoh" THEN Block3532 ELSE None,
   digital |-> FALSE, coverage |-> TRUE]
Owner(status) == IF status = "mfj" THEN "taxpayer" ELSE None
Return(status, year, wages) ==
  [command |-> "federal", origin |-> "file", year |-> year,
   config |-> Config(status), denied |-> {}, unanswered |-> {},
   w2s |-> IF wages = 0 THEN <<>> ELSE <<W(wages, Owner(status))>>,
   interest |-> <<>>, dividends |-> <<>>, qualified |-> 0, distributions |-> 0,
   exempt |-> 0, lots |-> <<>>, k1s |-> <<>>, rentals |-> <<>>,
   businesses |-> <<>>, g |-> <<>>,
   prior |-> [itemized |-> FALSE, deduction |-> None, standard |-> None,
              paid |-> None],
   estimated |-> 0, charitable |-> 0, health |-> 0, itemized |-> None,
   form1098 |-> None, block |-> None, facts |-> None, noIncomeTaxState |-> FALSE,
   election |-> "none", deposit |-> [routing |-> None, account |-> None, type |-> None],
   foreignAccounts |-> FALSE, corp |-> None, ca |-> None, answer |-> None,
   noneBehindStated |-> TRUE, noListedProperty |-> TRUE, ackSchedule3 |-> FALSE,
   amended |-> None, case |-> None, change |-> None]
Plain == Return("single", 2024, 60000)

Asset(class, placed, month, convention, prior) ==
  [class |-> class, basis |-> 50050, placed |-> placed, month |-> month,
   convention |-> convention,
   quarter |-> IF convention = "mid-quarter" THEN Quarter(month) ELSE None,
   prior |-> prior, ackPrior |-> FALSE,
   history |-> IF class = "27.5yr" THEN None ELSE "none",
   disposed |-> FALSE]
Activity(assets, stated) ==
  [assets |-> assets, stated |-> stated, outside |-> TRUE, override |-> None,
   depreciation |-> 0]
Rental(rents, expenses, activity) ==
  [rents |-> rents, expenses |-> expenses] @@ activity
Sole(receipts, expenses, activity) ==
  [receipts |-> receipts, expenses |-> expenses, otherExpenses |-> 0,
   itemized |-> FALSE, unmodeled |-> FALSE] @@ activity
NoAssets == Activity(<<>>, 0)
K(entity, material, ordinary, rental, qbi) ==
  [entity |-> entity, material |-> material, ordinary |-> ordinary,
   rental |-> rental, otherRental |-> 0, royalties |-> 0, otherIncome |-> 0,
   prior |-> 0, interest |-> 0, dividends |-> 0, qualified |-> 0, short |-> 0,
   long |-> 0, s1231 |-> 0, s179 |-> 0, seEarnings |-> 0, qbi |-> qbi]
Lot(short, reported, proceeds, basis) ==
  [short |-> short, reported |-> reported, proceeds |-> Dollars(proceeds),
   basis |-> Dollars(basis), wash |-> 0, other |-> 0, rate28 |-> FALSE,
   s1250 |-> FALSE]
G(refund, unemployment, boxes) ==
  [refund |-> Dollars(refund), unemployment |-> Dollars(unemployment),
   boxes |-> boxes, withheld |-> Dollars(unemployment \div 10)]
NoBoxes == <<0, 0, 0, 0>>

----------------------------------------------------------------------------
(* Losses: rentals beside K-1s, over the incomes at which the allowance    *)
(* phases out.                                                             *)

RentalSets ==
  LET gain == Rental(Dollars(12000), <<Dollars(5000)>>, NoAssets)
      loss == Rental(Dollars(4000), <<Dollars(8000), 50>>, NoAssets)
      deep == Rental(Dollars(4000), <<Dollars(30000)>>, NoAssets)
      cents == Rental(10049, <<5050, 4950>>, NoAssets)
  IN {<<>>, <<loss>>, <<deep>>, <<gain, loss>>, <<cents>>, <<gain, gain, loss>>,
      <<loss, loss, loss, loss>>}
K1Sets ==
  LET income == K("partnership", FALSE, Dollars(3000), 0, 0)
      passive == K("partnership", FALSE, Dollars(-3000), 0, 0)
      rental == K("partnership", FALSE, 50, Dollars(-9000), 0)
      boxes == [K("partnership", FALSE, Dollars(2000), Dollars(-500), 0)
                  EXCEPT !.royalties = 149, !.otherRental = Dollars(-2000) - 50]
      lossy == K("s_corp", TRUE, Dollars(-8000), 0, 0)
      held == [income EXCEPT !.prior = Dollars(1000)]
      worker == [income EXCEPT !.seEarnings = Dollars(500)]
      kept == [lossy EXCEPT !.ordinary = Dollars(900), !.prior = 100]
      trust == K("estate_trust", FALSE, Dollars(1000), 0, 0)
  IN {<<>>, <<passive>>, <<income, passive>>, <<rental>>, <<boxes, income>>, <<lossy>>,
      <<held>>, <<worker>>, <<kept>>, <<trust>>, <<income, income, income, income, lossy>>}
LossReturns ==
  {[Return(status, 2024, wages) EXCEPT !.rentals = rs, !.k1s = ks, !.origin = o] :
     status \in {"single", "mfj"}, wages \in {60000, 126000, 155000},
     rs \in RentalSets, ks \in K1Sets, o \in {"file", "code"}}
  \cup {[Return(status, 2024, 70000) EXCEPT !.k1s = <<k>>, !.config.livedWith = lived] :
     status \in {"mfs", "hoh"}, lived \in {"yes", "no", None},
     k \in {K("partnership", FALSE, 0, Dollars(-9000), 0),
            K("partnership", TRUE, Dollars(-9000), 0, 0)}}
  \cup {[Return("single", 2024, 400000) EXCEPT
           !.k1s = <<K("partnership", TRUE, loss, 0, 0),
                     K("partnership", TRUE, gain, 0, 0)>>] :
     loss \in {Dollars(-304999), Dollars(-304999) - 1, Dollars(-305000), Dollars(-305000) - 1,
              Dollars(-305001)},
     gain \in {0, Dollars(40000)}}

\* A rental whose loss only the rounding of its lines makes, at an income
\* with no allowance, on a workbook's return.
RoundedLoss ==
  [Return("qss", 2024, 200000) EXCEPT !.rentals = <<Rental(10049, <<5050, 4950>>, NoAssets)>>]

(* Depreciation: where the year's assets fall, and who states what.        *)
AssetSets ==
  LET now(m) == Asset("5yr", 2024, m, None, None)
      old(prior) == Asset("5yr", 2022, 3, "half-year", prior)
      late(prior) == Asset("5yr", 2022, 11, "mid-quarter", prior)
      house == Asset("27.5yr", 2023, 6, None, 1000)
  IN {<<now(2)>>, <<now(11)>>, <<now(2), now(11)>>, <<old(26000)>>, <<late(21500)>>,
      <<old(None)>>, <<old(100)>>, <<now(5), house>>,
      <<[now(2) EXCEPT !.class = "other"]>>, <<[now(2) EXCEPT !.disposed = TRUE]>>}
Overrides ==
  {None} \cup {[ack |-> a, amount |-> 15000, restates |-> r] :
                 a \in BOOLEAN, r \in {9600, 10000}}
DepreciationReturns ==
  {[Plain EXCEPT !.origin = o,
      !.rentals = <<Rental(Dollars(9000), <<Dollars(1000)>>, Activity(one, 0))>>,
      !.businesses = <<Sole(Dollars(2500), <<Dollars(1000)>>, Activity(two, stated))>>] :
     one \in AssetSets, two \in {<<>>, <<Asset("5yr", 2024, 11, None, None)>>,
                                 <<Asset("5yr", 2024, 4, None, None)>>},
     stated \in {0, 15000}, o \in {"file", "code"}}
  \cup {[Plain EXCEPT !.rentals =
           <<Rental(Dollars(9000), <<>>, [Activity(assets, 0) EXCEPT !.override = v])>>] :
     assets \in {<<Asset("5yr", 2022, 3, "half-year", 26000)>>,
                 <<Asset("5yr", 2024, 3, None, None)>>}, v \in Overrides}

(* Depreciation as the audit workbook sees it: priors stated to the cent,  *)
(* more than one activity, a year whose rows have other letters.           *)
AuditReturns ==
  LET old(prior, ack) ==
        [Asset("5yr", 2022, 3, "half-year", prior) EXCEPT !.ackPrior = ack]
      now(year) == Asset("5yr", year, 11, None, None)
      house(year) == Asset("27.5yr", 2024, 6, None, IF year = 2024 THEN None ELSE 1000)
      rental(act) == Rental(Dollars(9000), <<Dollars(1000)>>, act)
  IN {[Plain EXCEPT !.rentals = <<rental(Activity(<<old(prior, TRUE)>> \o more, 0))>>] :
        prior \in {26000, 40440, 40499, 40540, 40549, 49990, 50049, 50050, 60000},
        more \in {<<>>, <<now(2024)>>}}
     \cup UNION {{[Plain EXCEPT !.year = year,
              !.rentals = <<rental(Activity(<<house(year), now(year)>>, 0)), rental(two)>>] :
        two \in {NoAssets, Activity(<<>>, 15000), Activity(<<now(year)>>, 0),
                 [Activity(<<old(26000, TRUE)>>, 0) EXCEPT
                    !.override = [ack |-> TRUE, amount |-> 15049, restates |-> 9600]]}} :
        year \in {2024, 2025}}

(* Sales: short and long results of either sign, in both partitions.       *)
GainReturns ==
  {[Return("single", 2024, wages) EXCEPT
      !.lots = <<Lot(TRUE, TRUE, 5000 + short, 5000), Lot(FALSE, reported, 5000 + long, 5000)>>,
      !.k1s = ks, !.distributions = Dollars(100)] :
     wages \in {30000, 60000}, reported \in BOOLEAN,
     short \in {-6000, -2000, 0, 2500}, long \in {-7000, -1000, 100, 4000},
     ks \in {<<>>, <<[K("partnership", TRUE, 0, 0, 0) EXCEPT !.short = Dollars(-900)]>>}}
  \cup {[Plain EXCEPT !.lots = <<[Lot(TRUE, TRUE, 5000, 4000) EXCEPT
             !.wash = wash, !.other = other, !.rate28 = r]>>, !.denied = denied] :
     wash \in {0, Dollars(50)}, other \in {0, Dollars(20)}, r \in BOOLEAN,
     denied \in {{}, {"acknowledges_no_28_rate_gain"},
                 {"acknowledges_no_wash_sale_adjustments"},
                 {"acknowledges_no_capital_loss_carryforward"}}}

(* Businesses: around the threshold of self-employment tax, at the wage    *)
(* base, with health insurance beside a Form 1095-A.                       *)
BusinessSets ==
  LET sole(net) == Sole(Dollars(net) + 100049, <<Dollars(1000), 49>>, NoAssets)
      small == sole(433)   \* 399.88 of net earnings
      owes == sole(434)
      good == sole(1500)
      loss == sole(-500)
  IN {<<>>, <<small>>, <<owes>>, <<good>>, <<loss>>, <<good, owes>>, <<good, loss>>,
      <<[good EXCEPT !.otherExpenses = 200]>>, <<[good EXCEPT !.unmodeled = TRUE]>>}
Months(premium, slcsp, advance) ==
  [i \in 1 .. 12 |-> [premium |-> premium, slcsp |-> slcsp, advance |-> advance]]
Block(months) == [unemployment |-> FALSE, exempt |-> 0, months |-> months]
SelfReturns ==
  {[Return(status, 2024, wages) EXCEPT !.businesses = bs, !.denied = denied] :
     status \in {"single", "mfj"}, wages \in {0, 60000, 168600, 199500}, bs \in BusinessSets,
     denied \in {{}, {"acknowledges_sch_c_all_investment_at_risk"}}}
  \cup {[Return("single", 2024, wages) EXCEPT
           !.businesses = <<Sole(Dollars(2500), <<Dollars(1000)>>, NoAssets)>>,
           !.health = Dollars(health), !.block = Block(Months(10000, 10300, advance))] :
     wages \in {31000, 34000, 35000, 36500, 40000}, health \in {0, 600, 1390, 1400},
     advance \in {0, 5000}}
  \cup {[Return("single", 2024, 60000) EXCEPT !.businesses = bs, !.health = Dollars(600),
           !.election = election, !.k1s = ks] :
     bs \in {<<>>, <<Sole(Dollars(2500), <<Dollars(1000)>>, NoAssets)>>},
     election \in {"none", "irs-faq", "no-reduction"},
     ks \in {<<K("s_corp", TRUE, Dollars(3000), 0, 300050)>>,
             <<K("partnership", TRUE, Dollars(3000), 0, 300050)>>,
             <<K("s_corp", TRUE, Dollars(3000), 0, 300050),
               K("s_corp", TRUE, 0, 0, Dollars(-1000))>>}}
  \cup {[Return("mfj", 2024, 100000) EXCEPT
           !.w2s = <<W(first, "taxpayer"), W(80000, owner)>>] :
     first \in {88600, 88617, 200000}, owner \in {"taxpayer", "spouse", None}}

(* Credits.                                                                *)
Person(ssn, alien, home) ==
  [ssnValid |-> ssn, nonresident |-> alien, homeInUS |-> home,
   childOfAnother |-> FALSE, claimable |-> FALSE]
Facts(taxpayer, spouse, needs) ==
  [taxpayer |-> taxpayer, spouse |-> spouse, needs8862 |-> needs]
FactSets ==
  LET ok == Person(TRUE, FALSE, TRUE)
  IN {None, Facts(ok, ok, FALSE), Facts(ok, ok, TRUE),
      Facts(ok, Person(FALSE, FALSE, TRUE), FALSE), Facts(ok, Person(TRUE, TRUE, TRUE), FALSE),
      Facts([ok EXCEPT !.claimable = TRUE], ok, FALSE)}
CreditReturns ==
  {[Return(status, year, wages) EXCEPT !.facts = facts, !.config.age = age] :
     status \in {"single", "mfj", "hoh", "mfs"}, year \in {2021, 2022, 2024, 2025},
     wages \in {0, 5000, 16000, 21000}, facts \in FactSets, age \in {"young", "working"}}
  \cup {[Return("single", 2024, 9000) EXCEPT !.k1s = ks, !.rentals = rs,
           !.interest = <<interest>>, !.facts = Facts(Person(TRUE, FALSE, TRUE), None, FALSE)] :
     ks \in {<<>>, <<K("partnership", TRUE, Dollars(500), 0, 0)>>},
     rs \in {<<>>, <<Rental(Dollars(900), <<Dollars(500)>>, NoAssets)>>},
     interest \in {4999, Dollars(11600), Dollars(11601)}}
  \cup {[Return(status, 2024, wages) EXCEPT !.ackSchedule3 = ack, !.block = Block(months)] :
     status \in {"single", "mfj", "qss"}, wages \in {30000, 45000, 58320, 58321, 80000},
     ack \in BOOLEAN,
     months \in {Months(30000, 40000, 45000), Months(30000, 40000, 0),
                 SubSeq(Months(30000, 40000, 38000), 1, 7), Months(0, 0, 0)}}
  \cup {[Plain EXCEPT !.exempt = exempt,
           !.block = [Block(Months(30000, 40000, 45000)) EXCEPT !.unemployment = u]] :
     exempt \in {0, 100}, u \in BOOLEAN}
  \cup {[Return(status, year, wages) EXCEPT !.config.age = "aged", !.config.spouseAge = age, !.origin = o] :
     status \in {"single", "mfj"}, year \in {2024, 2025}, wages \in {17500, 20001, 60000},
     age \in {None, "aged", "working"}, o \in {"file", "code"}}
  \cup {[Plain EXCEPT !.config.dependents = 1], [Return("hoh", 2024, 70000) EXCEPT
           !.block = Block(Months(10000, 9000, 0))], [Return("hoh", 2022, 30000) EXCEPT !.origin = "code"]}

(* Deductions, refunds of state tax, interest and a 1099-G.                *)
Itemized(medical, charity, mortgage, property) ==
  [medical |-> Dollars(medical), stateTax |-> 0, charity |-> Dollars(charity),
   mortgage |-> Dollars(mortgage), propertyTax |-> Dollars(property)]
DeductionReturns ==
  {[Return(status, 2024, wages) EXCEPT !.itemized = it, !.form1098 = f] :
     status \in {"single", "mfj"}, wages \in {60000, 230000, 520000},
     it \in {None, Itemized(0, 500, 18000, 9000), Itemized(9000, 0, 9000, 9000)},
     f \in {None, [mortgage |-> Dollars(21000), propertyTax |-> Dollars(6000)]}}
  \cup {[Plain EXCEPT !.noIncomeTaxState = TRUE, !.itemized = Itemized(0, 0, 20000, 0),
                      !.denied = denied] :
          denied \in {{}, {"acknowledges_sch_a_sales_tax_unsupported"}}}
  \cup {[Return("single", year, 60000) EXCEPT !.charitable = Dollars(given), !.origin = o] :
          year \in {2021, 2024}, given \in {250, 301}, o \in {"file", "code"}}
  \cup {[Plain EXCEPT !.g = <<G(refund, 0, NoBoxes), G(40, 0, NoBoxes)>>,
           !.prior = [itemized |-> TRUE, deduction |-> Dollars(deduction),
                      standard |-> Dollars(13850), paid |-> Dollars(paid)]] :
     refund \in {0, 700, 2500}, deduction \in {13000, 14150, 20000},
     paid \in {4000, 11000, 10100, 200}}
  \cup {[Plain EXCEPT !.g = <<G(0, 900, boxes), G(0, 0, boxes)>>,
           !.interest = interest, !.dividends = <<149950, 50>>, !.qualified = Dollars(900)] :
     boxes \in {NoBoxes, <<100, 0, 0, 0>>, <<100, 50, 20, 0>>},
     interest \in {<<149999>>, <<149949, 49>>, <<Dollars(1), Dollars(1), Dollars(2000)>>}}

(* The S corporation of a shareholder.                                     *)
Answers == [q \in Questions |-> IF q = "14b" THEN None ELSE q = "11"]
CA100S(adjustment) ==
  [addback |-> 0, adjustment |-> adjustment, firstYear |-> FALSE,
   payments |-> <<Dollars(400)>>, unclaimed |-> FALSE, unclaimedDetails |-> FALSE,
   scheduleQ |-> {}]
Corp(receipts, shares) ==
  [receipts |-> receipts, returns |-> 50, cogs |-> Dollars(1000), gain4797 |-> 0,
   otherIncome |-> 0, deductions |-> <<Dollars(500), 50>>, otherDeductions |-> 149,
   components |-> <<100, 49>>, passiveTax |-> 0, gainsTax |-> 0,
   payments |-> <<>>, energyDeduction |-> 0, interest453 |-> 0, answers |-> Answers,
   shares |-> shares, qbiOverride |-> None, w2Wages |-> Dollars(700),
   distributions |-> Dollars(300), assets |-> 0, dates |-> "calendar",
   amended |-> FALSE, final |-> {}, ca |-> None]
Sound == Corp(Dollars(9000), <<33, 34, 33>>)
Corps ==
  {Sound, [Sound EXCEPT !.qbiOverride = 350050], Corp(Dollars(9000) + 33, <<50, 25, 20>>),
   Corp(Dollars(800), <<51, 49>>), Corp(Dollars(9000), <<20, 20, 20, 20, 20>>),
   [Sound EXCEPT !.dates = "inconsistent"], [Sound EXCEPT !.components = <<>>],
   [Sound EXCEPT !.components = <<>>, !.otherDeductions = 0],
   [Sound EXCEPT !.energyDeduction = 100], [Sound EXCEPT !.answers["5a"] = TRUE],
   [Sound EXCEPT !.answers["16"] = None], [Sound EXCEPT !.answers["14a"] = TRUE],
   [Sound EXCEPT !.passiveTax = Dollars(80), !.payments = <<Dollars(100)>>]}
CorpReturns ==
  {[Plain EXCEPT !.corp = c, !.k1s = ks, !.origin = o, !.denied = denied] :
     c \in Corps, o \in {"file", "code"},
     ks \in {<<>>, <<K("partnership", FALSE, Dollars(800), 0, 0)>>},
     denied \in {{}, {"acknowledges_no_k1_credits"}}}
  \cup {[Plain EXCEPT !.command = "scorp", !.corp = [c EXCEPT !.ca = ca, !.amended = a,
                                                            !.final = final]] :
     c \in Corps, a \in BOOLEAN, final \in {{}, {1}, {2}},
     ca \in {None, CA100S(0), CA100S(Dollars(90000)),
             [CA100S(0) EXCEPT !.firstYear = TRUE], [CA100S(0) EXCEPT !.unclaimed = TRUE]}}
  \cup {[Plain EXCEPT !.command = "scorp", !.year = year,
           !.corp = [c EXCEPT !.amended = TRUE, !.final = {2, 3},
                              !.ca = [CA100S(0) EXCEPT !.scheduleQ = stated]]] :
     c \in {Sound, [Sound EXCEPT !.answers["16"] = None]}, year \in 2021 .. 2025,
     stated \in {{}, {"discuss_with_preparer"}, {"inactive_business"},
                 {"under_irs_audit", "discuss_with_preparer"}}}

(* California.                                                             *)
CA540 ==
  [divergences |-> <<>>, reviewed |-> DOMAIN MCCatalog, interest |-> 0,
   rrb |-> None, pfl |-> None, voluntary |-> <<>>, ptet |-> 0, useTax |-> 0,
   penalty |-> 0, estimated |-> 0]
Diverges(id, amount, direction) ==
  [id |-> id, amount |-> amount, direction |-> direction]
Blocks ==
  {CA540, [CA540 EXCEPT !.reviewed = {}], [CA540 EXCEPT !.interest = None],
   [CA540 EXCEPT !.rrb = 12349, !.pfl = 50,
                 !.divergences = <<Diverges("muni", 20050, None),
                                   Diverges("se_health", 49, None)>>],
   [CA540 EXCEPT !.divergences = <<Diverges("k1", 5000, "sub")>>, !.reviewed = {"gain"}],
   [CA540 EXCEPT !.divergences = <<Diverges("gain", 5000, None)>>],
   [CA540 EXCEPT !.ptet = Dollars(100)], [CA540 EXCEPT !.ptet = Dollars(9000)]}
CAPayments ==
  {[CA540 EXCEPT !.voluntary = v, !.useTax = u, !.penalty = p, !.estimated = e, !.interest = i] :
     v \in {<<>>, <<Dollars(40)>>, <<Dollars(3000), 25>>}, u \in {0, Dollars(5000)},
     p \in {0, 1250}, e \in {0, Dollars(900)}, i \in {None, 0, 1999}}
Californian(wages) == [Return("single", 2024, wages) EXCEPT !.command = "california"]
CaliforniaReturns ==
  {[Californian(60000) EXCEPT !.ca = ca, !.k1s = ks, !.exempt = exempt,
      !.g = <<G(700, 900, NoBoxes)>>, !.prior = [itemized |-> TRUE, deduction |-> Dollars(20000),
             standard |-> Dollars(13850), paid |-> Dollars(4000)]] :
     ca \in Blocks, exempt \in {0, 100},
     ks \in {<<>>, <<K("partnership", TRUE, Dollars(500), 0, 0)>>}}
  \cup {[Californian(wages) EXCEPT !.ca = ca] : wages \in {60000, 90000}, ca \in CAPayments}
  \cup {[Californian(wages) EXCEPT !.ca = CA540, !.itemized = it, !.config.coverage = cover] :
     wages \in {12000, 60000, 99999, 200000}, cover \in {TRUE, FALSE, None},
     it \in {None, Itemized(0, 500, 18000, 9000), Itemized(0, 0, 1000, 0)}}
  \cup {[Californian(60000) EXCEPT !.ca = CA540, !.corp = Sound,
           !.w2s = <<[W(60000, None) EXCEPT !.state = state]>>] : state \in {None, "CA", "NV"}}
  \cup {[Californian(200000) EXCEPT !.ca = CA540, !.interest = <<Dollars(60000)>>]}

(* Amendments: the corrected return, and what was paid or refunded since.  *)
Case1040X(paid, received, caReceived) ==
  [paid |-> paid, received |-> received, applied |-> IF received = 0 THEN 0 ELSE 8200,
   caReceived |-> caReceived, caApplied |-> 0]
Corrections ==
  LET k == K("partnership", TRUE, Dollars(4000), 0, 0)
      boxes == <<G(0, 0, <<100, 50, 0, 0>>)>>
      ok == Person(TRUE, FALSE, TRUE)
      deposit == [routing |-> <<0, 2, 1, 0, 0, 0, 0, 2, 1>>, account |-> 8,
                  type |-> "checking"]
  IN {Plain, [Plain EXCEPT !.k1s = <<k>>], [Plain EXCEPT !.deposit = deposit],
      [Plain EXCEPT !.estimated = Dollars(500)],
      [Plain EXCEPT !.k1s = <<k>>, !.g = boxes], Return("single", 2024, 12000),
      [Return("single", 2024, 9000) EXCEPT
         !.facts = Facts(ok, ok, FALSE)]}
AmendmentReturns ==
  {[o EXCEPT !.command = "amendment", !.ca = ca,
      !.amended = [c EXCEPT !.command = "amendment", !.ca = ca, !.case = case]] :
     o \in {Plain, [Plain EXCEPT !.interest = <<Dollars(8000)>>],
            [Return("single", 2024, 9000) EXCEPT
               !.facts = Facts(Person(TRUE, FALSE, TRUE), None, FALSE)],
            [Plain EXCEPT !.g = <<G(0, 0, <<100, 50, 0, 0>>)>>]},
     c \in Corrections, ca \in {None, CA540},
     case \in {Case1040X(paid, received, ca0) :
                 paid \in {None, 0, Dollars(878)}, received \in {0, Dollars(600)},
                 ca0 \in {None, 0, Dollars(701), Dollars(89)}}}

(* A change of accounting method: the one pattern that prints, and each    *)
(* departure from it.                                                      *)
ChangeAnswers ==
  [q \in ChangeQuestions |->
    q \in {"all_required_information_provided", "audit_protection_applies"}]
ChangedAsset(basis, claimed, of) ==
  [basis |-> basis, claimed |-> claimed, allowance |-> FALSE, blank |-> FALSE,
   account |-> "single", of |-> of]
Change(adjustment, elect) ==
  [shape |-> "whole", year |-> 2024, number |-> 7, begins |-> 2024, endsLater |-> TRUE,
   applicant |-> "individual", type |-> "depreciation_or_amortization",
   identity |-> TRUE, contact |-> TRUE, code |-> None, adjustment |-> adjustment,
   answers |-> [ChangeAnswers EXCEPT !["elect_one_year_spread"] = elect],
   assets |-> <<ChangedAsset(500500, 210000, None)>>]
ChangeVariants ==
  LET ok == Change(50000, FALSE)
      asset == ok.assets[1]
  IN {[ok EXCEPT !.shape = "unknown_key"], [ok EXCEPT !.year = 2023],
      [ok EXCEPT !.number = 107], [ok EXCEPT !.begins = 2023],
      [ok EXCEPT !.applicant = "corporation"], [ok EXCEPT !.type = "other"],
      [ok EXCEPT !.identity = FALSE], [ok EXCEPT !.contact = FALSE],
      [ok EXCEPT !.code = "letters"], [ok EXCEPT !.code = "six digits"],
      [ok EXCEPT !.answers["under_examination"] = None],
      [ok EXCEPT !.answers[Line4b] = None], [ok EXCEPT !.answers[Line4b] = TRUE],
      [ok EXCEPT !.answers["proposed_method_used_for_books"] = TRUE],
      [ok EXCEPT !.answers["requests_conference_if_adverse"] = TRUE],
      [ok EXCEPT !.assets = <<>>], [ok EXCEPT !.assets = <<asset, asset>>],
      [ok EXCEPT !.assets = <<[asset EXCEPT !.blank = TRUE]>>],
      [ok EXCEPT !.assets = <<[asset EXCEPT !.account = "none"]>>],
      [ok EXCEPT !.assets = <<[asset EXCEPT !.claimed = -10]>>],
      [ok EXCEPT !.assets = <<[asset EXCEPT !.claimed = 1005]>>],
      [ok EXCEPT !.assets = <<[asset EXCEPT !.allowance = None]>>]}
     \cup {[ok EXCEPT !.answers[Unsupported[i][1]] = Unsupported[i][2]] :
              i \in DOMAIN Unsupported}
ChangeReturns ==
  LET old == [Asset("5yr", 2022, 3, "half-year", 26000) EXCEPT !.ackPrior = TRUE]
      listed == [Plain EXCEPT !.rentals =
                   <<Rental(Dollars(9000), <<Dollars(1000)>>, Activity(<<old>>, 0))>>]
  IN {[Plain EXCEPT !.change = Change(adjustment, elect), !.origin = o] :
        adjustment \in {-5000000, -1, 0, 4, 5, 10, 12345, 12340, 49999990, 49999995,
                        50000000, 50000010},
        elect \in BOOLEAN, o \in {"file", "code"}}
     \cup {[Plain EXCEPT !.change = c, !.origin = o] :
              c \in ChangeVariants, o \in {"file", "code"}}
     \cup {[listed EXCEPT !.change = [Change(adjustment, FALSE) EXCEPT
               !.assets = <<ChangedAsset(500500, claimed, <<1, 1>>)>>]] :
              adjustment \in {0, -50000}, claimed \in {210000, 260000}}
     \cup {[Return(status, 2024, 60000) EXCEPT !.change = Change(50000, TRUE)] :
              status \in {"mfj", "qss"}}
     \cup {[Plain EXCEPT !.command = command, !.ca = CA540, !.corp = Sound,
              !.change = Change(50000, TRUE)] : command \in {"california", "scorp"}}
     \cup {[Plain EXCEPT !.command = "amendment", !.change = before,
              !.amended = [Plain EXCEPT !.command = "amendment", !.change = after,
                             !.case = Case1040X(None, 0, None)]] :
              before \in {None, Change(50000, FALSE)},
              after \in {None, Change(50000, FALSE)}}

(* Contested positions: reached at load, only with the corporation's K-1s, *)
(* or not at all.                                                          *)
PositionReturns ==
  {[Return(status, 2024, 60000) EXCEPT !.election = election, !.health = Dollars(health),
      !.corp = c, !.k1s = ks, !.origin = o] :
     status \in {"single", "qss"}, election \in {"none", "irs-faq", "no-reduction", "unknown"},
     health \in {0, 600}, o \in {"file", "code"},
     c \in {None, Corp(Dollars(9000), <<100>>), [Sound EXCEPT !.qbiOverride = 0]},
     ks \in {<<>>, <<K("partnership", TRUE, Dollars(500), 0, 50000)>>}}

(* Heads of household: each rule of the qualifying person, one at a time.  *)
Together(periods) ==
  [Block3532 EXCEPT !.marital = LivedTogether, !.periods = periods]
Days(from, to) == [from |-> from, to |-> to]
Blocks3532(year) ==
  LET child(p) == [Block3532 EXCEPT !.person = p]
      aged(n, student, disabled) ==
        child([Child EXCEPT !.born = year - n, !.student = student, !.disabled = disabled])
  IN {None} \cup {Together(p) : p \in
        {<<>>, <<Days(1, 100)>>, <<Days(1, 60), Days(90, 100)>>, <<Days(150, 250)>>,
         <<Days(1, 60), Days(50, 100)>>, <<Days(50, 100), Days(1, 40)>>, <<Days(300, 100)>>,
         <<Days(-20, 50)>>, <<Days(1, 181)>>, <<Days(1, 182)>>, <<Days(1, 183)>>,
         <<Days(1, 10), Days(20, 30), Days(40, 50)>>}}
     \cup {[Block3532 EXCEPT !.marital = m, !.decree = d, !.periods = p,
              !.person.relationship = r] :
             m \in {"unmarried", "divorced_or_legally_separated", "married_lived_apart_all_year"},
             d \in {None, "divorce_or_dissolution", "legal_separation"},
             p \in {<<>>, <<Days(1, 100)>>}, r \in Relationships}
     \cup {aged(n, student, disabled) : n \in {-1, 18, 19, 23, 24},
             student \in {None, TRUE, FALSE}, disabled \in {None, TRUE, FALSE}}
     \cup {child([Child EXCEPT !.born = b, !.days = d]) :
             b \in {year, 2012}, d \in {-1, 182, 183, 184, 364, 365, 366, 367}}
     \cup {child([Child EXCEPT !.claimed = c]) : c \in {None, TRUE}}
     \cup {child([Child EXCEPT !.ssn = n]) : n \in {"own, spaced", "filer", "malformed"}}
     \cup {child([Child EXCEPT !.blank = TRUE]), child([Child EXCEPT !.income = -1])}
HouseholdReturns ==
  UNION {{[Return("hoh", year, 70000) EXCEPT !.config.hoh = b, !.origin = o,
             !.command = "california", !.ca = CA540] :
            b \in Blocks3532(year), o \in {"file", "code"}} : year \in {2024, 2025}}
  \cup {[Return("hoh", 2025, 70000) EXCEPT !.config.hoh = b, !.origin = "code"] :
           b \in {Together(<<Days(150, 250)>>), Together(<<Days(1, 100)>>), None}}
  \cup {[Return("hoh", 2024, 70000) EXCEPT !.config.ssn = "spaced", !.command = command,
            !.ca = CA540] : command \in {"federal", "california"}}
  \cup {[Return(status, 2024, 60000) EXCEPT !.config.hoh = Block3532, !.origin = o,
            !.config.livedWith = "no"] :
           status \in {"single", "mfs"}, o \in {"file", "code"}}

(* What the workbook computes, of more forms than it has cells for.        *)
Some(n, form) == [i \in 1 .. n |-> form]
CellReturns ==
  {[Return(status, 2024, 0) EXCEPT !.w2s = Some(n, W(24000, None)), !.config.livedWith = "no",
      !.config.spouseAge = age, !.g = Some(payers, G(0, 900, NoBoxes)), !.interest = interest] :
     status \in {"mfs", "qss"}, n \in {1, 6, 7}, age \in {None, "working"},
     payers \in {0, 6, 7}, interest \in {<<>>, <<149, Dollars(90)>>}}
  \cup {[Return("qss", 2024, 60000) EXCEPT !.rentals =
           Some(n, Rental(Dollars(4000), <<Dollars(3000)>>, NoAssets))] : n \in {1, 3}}
  \cup {[Return("mfs", 2024, 90000) EXCEPT !.config.livedWith = "no", !.lots = Some(n, lot),
           !.k1s = <<[K("partnership", TRUE, Dollars(500), 0, 0) EXCEPT !.interest = 100]>>] :
     n \in {3, 12}, lot \in {Lot(TRUE, TRUE, 600, 500), Lot(FALSE, FALSE, 500, 600)}}

(* What else goes to the workbook, and what the loader turns away.         *)
RouteReturns ==
  {[Return(status, 2024, 60000) EXCEPT !.businesses = bs, !.health = h, !.facts = facts,
       !.k1s = ks, !.config.livedWith = "no", !.config.digital = digital] :
     status \in {"mfs", "qss"}, h \in {0, 100},
     bs \in {<<>>, <<Sole(Dollars(2500), <<>>, NoAssets)>>}, digital \in {FALSE, None},
     facts \in {None, Facts(Person(TRUE, FALSE, TRUE), None, FALSE)},
     ks \in {<<>>, <<K("partnership", FALSE, Dollars(500), 0, Dollars(500))>>}}
  \cup {[Return("mfs", 2024, 220000) EXCEPT !.denied = {"acknowledges_qbi_below_threshold"},
          !.config.livedWith = "no",
          !.k1s = <<K("partnership", TRUE, Dollars(500), 0, Dollars(500))>>]}
  \cup {[Return("mfs", 2024, 60000) EXCEPT !.config.livedWith = "no", !.corp = Sound,
           !.denied = denied] : denied \in {{}, {"acknowledges_no_k1_credits"}}}
  \cup {[Plain EXCEPT !.unanswered = {u}, !.year = y, !.origin = o] :
     u \in {"acknowledges_no_federal_amt", "acknowledges_no_railroad_retirement_benefits"},
     y \in {2020, 2024}, o \in {"file", "code"}}
  \cup {[Plain EXCEPT !.deposit = [routing |-> r, account |-> a, type |-> "checking"]] :
     r \in {None, <<0, 2, 1, 0, 0, 0, 0, 2, 1>>, <<0, 2, 1, 0, 0, 0, 0, 2, 2>>}, a \in {8, 3}}
  \cup {[Return("mfj", 2024, 60000) EXCEPT !.config.spouseGiven = FALSE, !.origin = o] :
     o \in {"file", "code"}}
  \cup {[Return("mfj", 2024, 60000) EXCEPT !.w2s[1].owner = None, !.origin = o] :
     o \in {"file", "code"}}

MCScenarios ==
  LossReturns \cup {RoundedLoss} \cup DepreciationReturns \cup GainReturns \cup SelfReturns \cup CreditReturns
    \cup DeductionReturns \cup CorpReturns \cup CaliforniaReturns \cup AmendmentReturns
    \cup CellReturns \cup RouteReturns \cup AuditReturns \cup ChangeReturns
    \cup PositionReturns \cup HouseholdReturns

\* What the workbook may say to a filer it is given.
Answer(eic, verdict, extra, caption, probe) ==
  [eic |-> eic, verdict |-> verdict, extra |-> extra, caption |-> caption, probe |-> probe]
MCWorkbookAnswers ==
  {Answer(0, None, 0, "Standard Deduction", None), Answer(400, FALSE, 0, None, None),
   Answer(400, TRUE, 0, "Standard Deduction", None), Answer(0, None, 900, "Schedule A", None),
   Answer(0, None, 0, "Birthdate(s) needed.", None), Answer(0, None, 0, "Answer question.", None),
   Answer(0, None, 0, "Standard Deduction", "text")}
=============================================================================
