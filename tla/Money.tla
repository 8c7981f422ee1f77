------------------------------- MODULE Money -------------------------------
(***************************************************************************)
(* Amounts of money and tenforty/rounding.py.  An amount a scenario states *)
(* is an integer number of CENTS; an amount a form prints is an integer    *)
(* number of DOLLARS.                                                      *)
(***************************************************************************)
EXTENDS Lists, FiniteSetsExt

CONSTANT None   \* an absent figure, answer or block
ASSUME NoneAssumption == None \notin Int

\* irs_round: half up, away from zero for a negative amount.
Rounded(cents) ==
  IF cents >= 0 THEN (cents + 50) \div 100 ELSE -((50 - cents) \div 100)

\* irs_round of a quotient, for a positive divisor, and of a share.
RoundedRatio(n, d) ==
  IF n >= 0 THEN (2 * n + d) \div (2 * d) ELSE -((d - 2 * n) \div (2 * d))
RoundedShare(part, total, whole) == RoundedRatio(part * total, whole)

Larger(a, b)  == IF a >= b THEN a ELSE b
Smaller(a, b) == IF a <= b THEN a ELSE b
Positive(a)   == Larger(a, 0)   \* max(0, a)
Negative(a)   == Larger(-a, 0)  \* max(0, -a)

\* The sums of the first n of a sequence of amounts, and of all of them.
PartialSums(amounts) ==
  LET upTo[n \in 0 .. Len(amounts)] ==
        IF n = 0 THEN 0 ELSE upTo[n - 1] + amounts[n]
  IN upTo
SumSeq(amounts) == PartialSums(amounts)[Len(amounts)]

\* sum(f(x) for x in items)
SumOf(items, f(_)) == SumSeq([i \in DOMAIN items |-> f(items[i])])
SumOver(S, f(_))   == MapThenSumSet(f, S)

\* A form of a packet, and its copy number; 0 where there is only one.
Sheets(names)        == {<<name, 0>> : name \in names}
CopiesOf(name, items) == {<<name, i>> : i \in DOMAIN items}
============================================================================
