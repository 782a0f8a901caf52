CONSTANTS
  s1 = s1  t1 = t1  t2 = t2  l1 = l1  l2 = l2
  NoActor = NoActor
  Threads = {s1}
  Tasks = {t1, t2}
  Loops = {l1, l2}
  LoopOf <- MCLoopOf
  Cancellable = {}
  Closing = {}
  Users = {s1, t1, t2}
  MaxCancels = 0
SPECIFICATION CondSpec
INVARIANT NoLostWakeup
CHECK_DEADLOCK FALSE
