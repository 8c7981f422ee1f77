---------------------------- MODULE MCReturnRun ----------------------------
(* Small instances of ReturnRun for TLC.                                   *)
EXTENDS ReturnRun

Soles(bases) == {Sole(b) : b \in bases}
Ret(cmd, keys, docs) == [cmd |-> cmd, keys |-> keys, docs |-> docs]
Both == {"federal_individual", "california"}

Form3115 == {"f3115", "f3115_asset_stmt", "f3115_duplicate_copy",
             "f3115_filing_manifest"}
Corporate(n) == Soles({"1120s"}) \cup UNION {{K1(i), K1Stmt(i)} : i \in 1 .. n}

\* A plain return; one with businesses, a copy of Form 4562 per activity and
\* Form 3115; one that owns an S corporation; the same person's California
\* return; the corporation's own returns, original and amended.
Plain    == Ret("federal", Soles({"1040", "4868", "sch_b", "sch_a"}),
                <<{"federal_individual"}, Both>>)
Business == Ret("federal", Soles({"1040", "4868", "sch_1", "sch_1_8z_stmt",
                  "sch_2", "sch_se", "f8995", "depreciation_audit"} \cup Form3115)
                \cup {SchC(1), SchC(2)}
                \cup {ActivityCopy("f4562", 1, 0), ActivityCopy("f4562", 2, 0),
                      ActivityCopy("f4562", 2, 1)}, <<>>)
Owner    == Ret("federal", Soles({"1040", "4868", "sch_e", "sch_1", "f4562"})
                \cup Corporate(2), <<{"federal_individual"}>>)
Resident == Ret("ca", Soles({"f540", "sch_ca", "ftb3532", "ca_resolved"}),
                <<{"federal_individual"}, Both>>)
Company  == Ret("scorp", Corporate(2) \cup Soles({"f100s",
                  "f100s_other_deductions_stmt", "1120s_other_deductions_stmt"})
                \cup {CAK1(1), CAK1(2)}, <<>>)
Amended  == Ret("scorp", Corporate(1) \cup Soles({"f100s",
                  "scorp_amendment_note"}) \cup {CAK1(1)}, <<>>)

MCReturns  == {Plain, Business, Owner, Resident, Company, Amended}
FewReturns == {Plain, Business}
=============================================================================
