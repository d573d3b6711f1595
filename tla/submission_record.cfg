SPECIFICATION Spec
CONSTANTS
  r1 = r1  r2 = r2
  owner = owner  executor = executor  stranger = stranger
  NoAddress = NoAddress
  NoPlan = NoPlan
  Requests = {r1, r2}
  Plans <- MCPlans
  TargetBlock <- MCTargetBlock
  Environments <- MCEnvironments
  Fees <- MCFees
  ChainId = 1
  Owner = owner
  Executor = executor
  Keys = {owner, stranger}
  Altered <- MCAltered
  None = None
  MaxBlock = 2
INVARIANT BroadcastsAreRecorded
CHECK_DEADLOCK FALSE
