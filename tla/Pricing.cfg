SPECIFICATION Spec
CONSTANTS
  None = None
  Instances = {i1}
  Sell = rate
  Buy = rate
  MarkupKeys = {rate}
  SenderKeys = {name}
  Values = {1, 2}
  ConfigRules <- MCConfigRules
  Edits = {e1, e2}
  MaxLoads = 1
  MaxFaults = 1
  Scale = 10
  B2BMarkup = 0
  NamedMarkup = 1
  Inputs <- MCInputs
  Markets = {20}
  Executables = {None, 19}
  TransferFees = {None, 1}
  WireFee = 2
INVARIANTS EditStays SettingIsOnRecord FundableIsQuoted MarginIsKept
PROPERTY EditReachesAll
CHECK_DEADLOCK FALSE
