CONSTANTS
  r1 = r1
  w1 = w1
  w2 = w2
  Readers = {r1}
  Writers = {w1, w2}
  NKeys = 2
  Limit = 1
  MaxTouched = 2
  CommitMayFail = TRUE
  FindMayFail = TRUE
  Initial = Initial
  Absent = Absent
SPECIFICATION FairSpec
INVARIANTS NoMissedUpdateAnswerable WatchKept
PROPERTIES EventuallyNotified
CHECK_DEADLOCK FALSE
