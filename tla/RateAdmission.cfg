SPECIFICATION Spec
CONSTANTS
  l1 = l1
  l2 = l2
  Label = {l1, l2}
  PerMin = 2
  PerDay = 3
  MinuteSpan = 2
  DaySpan = 5
  Horizon = 7
SYMMETRY Tokens
INVARIANTS
  MinuteRate
  DayRate
  DequesHoldHistory
  RefusalDeserved
