SPECIFICATION Spec
CONSTANTS
  a = a
  b = b
  k1 = k1
  k2 = k2
  k3 = k3
  k4 = k4
  i1 = i1
  i2 = i2
  i3 = i3
  Label = {a, b}
  Token = {k1, k2, k3}
  Misshapen = "not a token"
  Operator = {"op"}
  Inode = {i1, i2}
  None = None
INVARIANTS
  ServerHonoursStore
PROPERTIES
  LiveStoreSound
  ImplementsPromise
SYMMETRY Names
