SPECIFICATION GateSpec
CONSTANTS
  s1 = s1
  s2 = s2
  s3 = s3
  s4 = s4
  s5 = s5
  s6 = s6
  l1 = l1
  l2 = l2
  l3 = l3
  Call = {s1, s2, s3, s4, s5, s6}
  Label = {l1, l2, l3}
  LabelOf <- MCLabelOf
  PerToken = 2
  Global = 3
INVARIANTS
  PermitsConserved
  InFlightExact
  FanOutBounded
