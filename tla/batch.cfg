SPECIFICATION FairSpec
CONSTANTS
  weth = weth  usdc = usdc
  None = None
  Refused = Refused
  Routes = {1, 2, 3}
  Assets <- MCAssets
  Amounts = {1, 2}
  Profits <- MCProfits
  Fees = {1, 2}
  SuccessGas = 1
  FailedGas = 1
  L1Fee = 1
  MaxMenu = 2
  Observations = {None, 2}
  MaxBlock = 1
  AddressOf <- MCAddressOf
  Legs <- MCLegs
  Deadline = 3
  Base = 5
  Radix = 3
  Address = 1
  Word = 2
  Block = 1
  Length = 2
  PACKED_VERSION = 1
  MAX_PACKED_CANDIDATES = 2
  MAX_PACKED_LEGS = 3
  MAX_PACKED_LEG_DATA = 2
INVARIANTS MenuSharesBlock BestFirst EveryCandidatePays
  PlanIsReadBack BytesAreCanonical RustAgrees
PROPERTY TriggersEnd
