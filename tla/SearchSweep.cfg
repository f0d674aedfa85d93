SPECIFICATION Spec
CONSTANTS
  n1 = n1
  n2 = n2
  Row = {1, 2, 3, 4, 5, 6, 7}
  Node = {n1, n2}
  NoId = NoId
  Orders <- MCOrders
  PageSize = 2
  Probes = 2
  MaxNoGain = 2
  Unlimited = Unlimited
  Budgets = {Unlimited, 1, 3}
CHECK_DEADLOCK FALSE
INVARIANTS
  CompleteWhenNodesAgree
  TruncatedLeavesRows
  FetchesBounded
