SPECIFICATION Spec
CONSTANTS
  Returns <- FewReturns
  MaxCopies = 2
  MaxRuns = 2
  Absent = Absent  Torn = Torn  Source = Source
INVARIANT PointsAtOwnManifest
CHECK_DEADLOCK FALSE
