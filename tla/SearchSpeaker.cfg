SPECIFICATION Spec
CONSTANTS
  t1 = t1
  t2 = t2
  Task = {t1, t2}
  Query = {"q"}
  Sitting = {"d"}
  Speaker = {"anyone", "member"}
  NoSpeaker = "anyone"
  PageNo = {1, 2}
  TTL = 2
  CacheMax = 2
  MaxNow = 4
SYMMETRY Names
INVARIANT
  SpeakerKept
