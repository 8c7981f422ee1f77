SPECIFICATION Spec
CONSTANTS
  None = None
  Scenarios <- MCScenarios
  WorkbookAnswers <- MCWorkbookAnswers
  ExcessLossThreshold <- MCThreshold
  WithheldMaximum = 1045320
  NativeSpine <- MCNativeSpine
  NativeEIC <- MCNativeEIC
  ScheduleCYears <- MCYears
  ScheduleRLimits <- MCAgedLimits
  EICCeiling <- MCCeiling
  CalEITCMaximum = 31950
  RentalColumns = 3
  K1Rows = 4
  PersonalClasses = {"5yr"}
  RealClasses = {"27.5yr"}
  Rates <- MCRates
  RowLetters <- MCRowLetters
  LossLimit = 3000
  WageBase = 168600
  MedicareThreshold <- MCMedicare
  PovertyLine <- MCPoverty
  Figures <- MCFigures
  RepaymentCaps <- MCCaps
  UnemploymentRule = FALSE
  BoundaryInclusive = FALSE
  EICTable <- MCEICTable
  EICPhaseout <- MCPhaseout
  EICMinEarned = 1
  EICInvestmentLimit = 11600
  View <- MCView
  TableCeiling = 100000
  NonitemizerCap = 300
  SaltPhaseout = 500000
  QBIRows = 5
  InterestRows = 14
  DividendRows = 15
  LargeCorporation = 25000000
  FranchiseRate = 15
  MinimumFranchise = 800
  Catalog <- MCCatalog
  CAView <- MCCAView
  SeniorCredit = 144
  Employers = 6
  Payers = 6
  LotRows = 11
INVARIANT ScheduleAAttached
CHECK_DEADLOCK FALSE
