SPECIFICATION FairSpec
CONSTANTS
  l1 = l1  l2 = l2  l3 = l3  l4 = l4  k1 = k1  k2 = k2  k3 = k3
  p1 = p1  p2 = p2
  Logs <- MCLogs
  dedup_key <- MCKey
  block_number <- MCBlock
  Heads = {1}
  Slots = {p1, p2}
  capacity = 2
  Subscribing = TRUE
  MaxAccepted = 4
  MaxDuplicates = 1
INVARIANTS NoRepeatWithinWindow Conservation FlagsFollowSocket
PROPERTIES StalledFeedIsReplaced PermitsReturn
