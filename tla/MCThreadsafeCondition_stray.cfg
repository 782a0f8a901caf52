CONSTANTS
  s1 = s1  t1 = t1  t2 = t2  l1 = l1  l2 = l2
  NoActor = NoActor
  Threads = {s1}
  Tasks = {t1, t2}
  Loops = {l1, l2}
  LoopOf <- MCLoopOf
  Cancellable = {t1}
  Closing = {}
  Users = {s1, t1, t2}
  MaxCancels = 2
SPECIFICATION CondSpec
INVARIANT OneInside
CHECK_DEADLOCK FALSE
