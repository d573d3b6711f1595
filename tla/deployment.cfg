SPECIFICATION FairSpec
CONSTANTS
  s1 = s1  s2 = s2
  deployer = deployer  other = other  stranger = stranger  weth = weth
  NoAddress = NoAddress
  NoPlan = NoPlan
  Scripts = {s1, s2}
  Deployer = deployer
  IntendedOwner = deployer
  starting_nonce = 1
  AllowedTokens <- MCTokens
  Fees <- MCFees
  policy <- MCPolicy
  Keys = {deployer, stranger}
  Altered <- MCAltered
  ChainId = 1
  PlanHash = 7
  CreationGas = 3758
  CallGas = 54
  IntrinsicGas = 21
  NoCode = NoCode
  MaxRuns = 2
  MaxElsewhere = 1
INVARIANTS OnlyReviewedSent AllowedAreDeployed DoneMeansDeployed
PROPERTY RunsEnd
CHECK_DEADLOCK FALSE
