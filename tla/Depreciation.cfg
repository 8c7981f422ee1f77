SPECIFICATION Spec
CONSTANTS
  Assets <- Tools
  Real = {}
  Placed <- ToolYear
  Month <- ToolMonth
  Basis <- ToolBasis
  Rates <- ToolRates
  FirstYear = 1
  LastYear = 4
  OutsideAmounts = {6}
  None = None
INVARIANTS TypeOK LifetimeWithinBasis HistoryReconstructs RecoveredWithinRounding
CHECK_DEADLOCK FALSE
