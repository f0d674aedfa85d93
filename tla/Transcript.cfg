SPECIFICATION Spec
CONSTANTS
  a = a
  b = b
  Name = {a, b}
  Blank = Blank
  Said = Said
  Mark = Mark
  None = None
  MaxItems = 4
  Sources <- MCSources
INVARIANTS
  Verbatim
  RightSpeaker
CHECK_DEADLOCK FALSE
