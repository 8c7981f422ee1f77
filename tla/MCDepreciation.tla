--------------------------- MODULE MCDepreciation ---------------------------
(* Small instances of Depreciation for TLC, with cells of IRS Publication  *)
(* 946 Appendix A as tables.py and macrs_mid_quarter hold them.            *)
EXTENDS Depreciation, TLC

\* 3-year property: Table A-1, and Tables A-2 to A-5 by placement quarter.
ThreeYear ==
  HalfYear      :> <<33330, 44450, 14810, 7410>> @@
  MidQuarter(2) :> <<41670, 38890, 14140, 5300>> @@
  MidQuarter(4) :> <<8330, 61110, 20370, 10190>>

\* 27.5-year property placed in July (Table A-6).
July == MidMonth(7) :> [n \in 1 .. 29 |->
  CASE n = 1 -> 1667 [] n = 29 -> 152 [] n = 28 -> 3636
    [] n \in 2 .. 9 -> 3636 [] n % 2 = 0 -> 3636 [] OTHER -> 3637]

\* A tool bought in the second quarter, one bought the same year in the
\* fourth (its basis trips that year's 40% test or not), and one the year
\* after; bases that round up, down and on the half dollar.
Tools    == {"spring", "autumn", "later"}
ToolYear == [a \in Tools |-> IF a = "later" THEN 2 ELSE 1]
ToolMonth == [a \in Tools |-> IF a = "spring" THEN 5 ELSE 11]
ToolBasis == "spring" :> 1100 @@ "autumn" :> 1250 @@ "later" :> 2550
ToolRates == [a \in Tools |-> ThreeYear]

House      == {"house"}
HouseYear  == [a \in House |-> 1]
HouseMonth == [a \in House |-> 7]
HouseBasis == [a \in House |-> 125000]
HouseRates == [a \in House |-> July]
=============================================================================
