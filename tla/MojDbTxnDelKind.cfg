CONSTANTS
  k1 = k1
  k2 = k2
  k3 = k3
  o1 = o1
  Kinds = {k1, k2, k3}
  ExtraKinds = {k3}
  Objs = {o1}
  Root = Root
  NoKind = NoKind
  MayExtend <- MCMayExtend
  c1 = c1
  c2 = c2
  i1 = i1
  i2 = i2
  a = a
  b = b
  None = None
  Clients = {c1, c2}
  Ids = {i1, i2}
  Vals = {a, b}
  Programs <- MCKindPrograms
  Engines = {"leveldb"}
  AutoBatchSize = 2
  MaxDeadlockRetries = 2
  MaxReqs = 2
  MaxCrashes = 0
  MaxFailures = 0
  IxObjects = {o1}
  IxValues = {a}
  IxDefs = {"none", "plain", "all"}
  IxNull = None
  MaxIx = 2
  Units = {"txn"}
SPECIFICATION MCSpec
SYMMETRY Symmetry
INVARIANT KindEngineWriteLocked
