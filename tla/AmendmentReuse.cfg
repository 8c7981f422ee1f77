SPECIFICATION Spec
CONSTANTS
  Forms <- MCForms
  Rank <- MCRank
  Sch1 = "sch_1"
  Form1040 = "1040"
  Payloads = {"a", "b"}
  FiledPayloads = {"a"}
  MaxRuns = 2
  ComputeOnly = FALSE
  ReuseComplete = TRUE
  NoForm = NoForm  Absent = Absent  Torn = Torn  Original = Original
INVARIANT RefusalLeavesNoManifest
CHECK_DEADLOCK FALSE
