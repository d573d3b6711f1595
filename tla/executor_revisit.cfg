SPECIFICATION Spec
CONSTANTS
  a1 = a1  a2 = a2  A = A  B = B  d1 = d1
  Accounts = {a1, a2}
  Deployer = a1
  NoAccount = NoAccount
  POOL = POOL
  Tokens = {A, B}
  Adapters = {d1}
  Orders <- RevisitingOrders
  NoOrder = NoOrder
  Hash <- MCHash
  NoHash = NoHash
  Premiums = {0, 1}
  Outputs = {0, 3}
  Gifts = {1}
  BlockTime = 2
  MaxBlock = 2
  MaxBalance = 2
INVARIANT UnrelatedBalanceNeverSpent
