CONSTANTS
  r1 = r1
  w1 = w1
  w2 = w2
  Readers = {r1}
  Writers = {w1, w2}
  NKeys = 3
  Limit = 2
  MaxTouched = 2
  CommitMayFail = FALSE
  FindMayFail = FALSE
  Initial = Initial
  Absent = Absent
SPECIFICATION Spec
INVARIANTS NoMissedUpdateUnraced
CHECK_DEADLOCK FALSE
