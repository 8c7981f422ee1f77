------------------------- MODULE MCAmendmentPacket -------------------------
(* Small instances of AmendmentPacket for TLC.                             *)
EXTENDS AmendmentPacket, TLC

\* Two federal forms, whose names sort in this order.
MCForms == {"1040", "sch_1"}
MCRank  == [f \in MCForms |-> IF f = "1040" THEN 1 ELSE 2]
=============================================================================
