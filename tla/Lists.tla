------------------------------- MODULE Lists -------------------------------
(***************************************************************************)
(* Selections from lists, as Python's comprehensions make them.            *)
(***************************************************************************)
EXTENDS Integers, Sequences, FiniteSets

\* [x for x in items if P(x)], by the indices it keeps of the first n.
KeptUpTo(n, S) ==
  LET upTo[m \in 0 .. n] ==
        IF m = 0 THEN <<>> ELSE IF m \in S THEN Append(upTo[m - 1], m) ELSE upTo[m - 1]
  IN upTo
Kept(n, S) == KeptUpTo(n, S)[n]

\* What a list holds at the indices S, in its order.
Selection(items, S) ==
  LET kept == Kept(Len(items), S) IN [i \in DOMAIN kept |-> items[kept[i]]]

Where(items, P(_)) == Selection(items, {i \in DOMAIN items : P(items[i])})
AnyOf(items, P(_)) == \E i \in DOMAIN items : P(items[i])
============================================================================
