SPECIFICATION MCSpec
CONSTANTS
  ByteMax = 6
  KeyLen = 7
  End <- MCEnd
  Ids = {1, 2}
  Objects <- MCObjects
  Requests <- MCRequests
  Neighbours <- MCNeighbours
  MergeValues <- MCMergeValues
  AutoBatchSize = 2
  NoLimit = 10
  o1 = o1
  o2 = o2
  o3 = o3
  Objs = {o1, o2, o3}
  SyncObjs = {o1, o2}
  Batch = 1
  Step = 2
  MaxBytes = 2
  Window = 1
  Order <- MCOrder
  Bounds <- MCBounds
  Units = {"queries", "admin"}
INVARIANTS FindsExact WritesReachAll RestoreReproduces
PROPERTIES PurgesKept RequestsEnd
\* A search that is done is done.
CHECK_DEADLOCK FALSE
