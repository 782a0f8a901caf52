CONSTANTS
  s1 = s1  s2 = s2  t1 = t1  t2 = t2  t3 = t3  l1 = l1  l2 = l2
  NoActor = NoActor
  Threads = {s1, s2}
  Tasks = {t1, t2, t3}
  Loops = {l1, l2}
  LoopOf <- MCLoopOf
  Cancellable = {t1, t3}
  Closing = {l2}
  Users = {s1, t2, t3}
  MaxCancels = 3
SPECIFICATION LocksFair
INVARIANT LocksInv LocksExclude LocksNeverBlockOrRaise WaitKeepsLock
PROPERTY LocksHandOver LocksAreMutexes LocksServe WokenReturns
\* A lock lost to a cancelled or a closed task blocks everybody for good, and
\* all users of a condition may be waiting, with nobody left to notify.
CHECK_DEADLOCK FALSE
