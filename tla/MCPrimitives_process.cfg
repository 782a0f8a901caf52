CONSTANTS
  s1 = s1  s2 = s2  t1 = t1  t2 = t2  t3 = t3  l1 = l1  l2 = l2
  v1 = v1  v2 = v2  v3 = v3  p1 = p1  p2 = p2  p3 = p3
  Values = {v1, v2, v3}
  InitialValue = v1
  Predicates <- MCPredicates
  Threads = {s1}
  Tasks = {t1, t2, t3}
  Loops = {l1, l2}
  LoopOf <- MCLoopOf
  Cancellable = {t1}
  Closing = {l2}
  MaxIds = 4
  Family = {t1, t2, t3}
  MaxLevel = 3
  Processes = {p1, p2, p3}
  Exclusives = {p1, p2}
  Depth = 2
  Debounces = {TRUE, FALSE}
  CallImmediately = {TRUE}
  MaxShieldCancels = 3
  Codes = {v1, v2}
  NoCode = v3
  MaxSignals = 2
  MaxSignalCancels = 1
  MaxProcessCancels = 3
  MaxCancels = 3
  Connections = {t1, t2}
  Things = {"process"}
SPECIFICATION PrimitivesFair
INVARIANT WaitRaises
\* A behaviour ends with its call.
CHECK_DEADLOCK FALSE
