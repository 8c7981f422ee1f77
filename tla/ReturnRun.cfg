SPECIFICATION Spec
CONSTANTS
  Returns <- MCReturns
  MaxCopies = 2
  MaxRuns = 2
  Absent = Absent  Torn = Torn  Source = Source
INVARIANTS TypeOK PacketsAreFilings NoFormIsLost
CHECK_DEADLOCK FALSE
