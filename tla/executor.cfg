SPECIFICATION FairSpec
CONSTANTS
  a1 = a1  a2 = a2  A = A  B = B  d1 = d1
  Accounts = {a1, a2}
  Deployer = a1
  NoAccount = NoAccount
  POOL = POOL
  Tokens = {A, B}
  Adapters = {d1}
  Orders <- AllOrders
  NoOrder = NoOrder
  Hash <- MCHash
  NoHash = NoHash
  Premiums = {1}
  Outputs = {0, 1, 3}
  Gifts = {1}
  BlockTime = 3
  MaxBlock = 1
  MaxBalance = 1
INVARIANTS Inv Promise NothingLeftOver ExecutedOnce RepaymentCovered
  AttemptsStartAlike NoPriorBalanceSpent SelectionIsFinal
PROPERTIES AllOrNothing OperationsEnd ConfigurationFrozen
