SPECIFICATION Spec
CONSTANTS
  Assets <- House
  Real <- House
  Placed <- HouseYear
  Month <- HouseMonth
  Basis <- HouseBasis
  Rates <- HouseRates
  FirstYear = 1
  LastYear = 30
  OutsideAmounts = {}
  None = None
INVARIANT RecoveredWithinADollar
CHECK_DEADLOCK FALSE
