------------------------------ MODULE Positions ------------------------------
(***************************************************************************)
(* Contested positions of law (positions.py).  The one registered position *)
(* asks whether a shareholder's self-employed health deduction reduces the *)
(* qualified business income of the S corporation; a return that reaches   *)
(* it elects a side, and a return that does not may not.                   *)
(*                                                                         *)
(* A scenario's election is "none", a side, or "unknown": a malformed      *)
(* block, another position, no side of this one.                           *)
(***************************************************************************)
EXTENDS Money

Sides == {"irs-faq", "no-reduction"}

\* _s_corp_shape: all the income the question is about is an S
\* corporation's.
ScorpShape(s) ==
  /\ s.businesses = <<>>
  /\ ~AnyOf(s.k1s, LAMBDA k : k.qbi # 0 /\ k.entity # "s_corp")

\* reached_when, exact once every K-1 is there; may_reach, before the
\* corporation's are.
Reached(s) ==
  s.health # 0 /\ ScorpShape(s) /\ AnyOf(s.k1s, LAMBDA k : k.qbi # 0)
MayReach(s) == s.health # 0 /\ ScorpShape(s) /\ (Reached(s) \/ s.corp # None)

\* validate_elections
ElectionRefused(s, reaches) ==
  s.election # "none" /\ (s.election \notin Sides \/ ~reaches)

\* election, recorded: what a run consulted.
Consulted(s) == IF Reached(s) THEN s.election ELSE "none"
=============================================================================
