SPECIFICATION Spec
CONSTANTS
  c1 = c1
  c2 = c2
  c3 = c3
  l1 = l1
  l2 = l2
  Call = {c1, c2, c3}
  Label = {l1, l2}
  LabelOf <- MCLabelOf
  OpOf <- MCOpOf
  PerToken = 1
  Global = 1
  Attempts = 2
  SiteFailure = {404, 502}
INVARIANTS
  SlotOnlyOnTheWire
  BudgetSpentBeforeError
PROPERTIES
  EveryCallEnds
  GateDiscipline
