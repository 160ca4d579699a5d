CONSTANTS
  t1 = t1
  t2 = t2
  t3 = t3
  q1 = q1
  q2 = q2
  q3 = q3
  m1 = m1
  m2 = m2
  m3 = m3
  m4 = m4
  f1 = f1
  f2 = f2
  f3 = f3
  Threads = {t1, t2, t3}
  Queues = {q1, q2, q3}
  Msgs = {m1, m2, m3, m4}
  None = None
  Socks = {"s1"}
  MaxInfos = 2
  NoSock = NoSock
  Slots = {"s1", "s2"}
  SigThreads = {"t1", "t2"}
  MaxConnects = 2
  NoSlot = NoSlot
  Firers = {f1, f2, f3}
  NoThread = NoThread
  Units = {"serviceWatch"}
SPECIFICATION MCSpec
INVARIANTS HandleWatchAssert
CHECK_DEADLOCK FALSE
