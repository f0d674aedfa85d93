SPECIFICATION Spec
CONSTANTS
  t1 = t1
  t2 = t2
  r1 = r1
  r2 = r2
  Task = {t1, t2}
  Id = {r1, r2}
  Malformed = "../etc"
  CacheMax = 1
  MaxEdition = 2
  None = None
INVARIANTS
  AnswerExplained
  LogTruthful
  ClientsClosed
SYMMETRY Names
