CONSTANTS
  s1 = s1  s2 = s2  t1 = t1  t2 = t2  t3 = t3  l1 = l1  l2 = l2
  NoActor = NoActor
  Threads = {s1, s2}
  Tasks = {t1, t2, t3}
  Loops = {l1, l2}
  LoopOf <- MCLoopOf
  Cancellable = {t1}
  Closing = {}
SPECIFICATION Spec
INVARIANT NoLostLock
CHECK_DEADLOCK FALSE
