SPECIFICATION Spec
CONSTANTS
  Forms <- MCForms
  Rank <- MCRank
  Sch1 = "sch_1"
  Form1040 = "1040"
  Payloads = {"a", "b"}
  FiledPayloads = {"a"}
  MaxRuns = 2
  ComputeOnly = TRUE
  ReuseComplete = FALSE
  NoForm = NoForm  Absent = Absent  Torn = Torn  Original = Original
INVARIANTS TypeOK ManifestVouches RefusalLeavesNoManifest AttachmentsCarryCorrection MailsOnlyPrintable RecordIsDelivered
CHECK_DEADLOCK FALSE
