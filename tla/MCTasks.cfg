CONSTANTS
  c1 = c1  c2 = c2  c3 = c3  c4 = c4  s1 = s1  s2 = s2  s = s  t = t  l = l
  Children = {c1, c2, c3, c4}
  Groups = {{}, {c1, c2}, {c1, c2, c4}}
  Stubborn = {c4}
  MaxCancels = 2
  NoChild = NoChild
  MaxConcurrent = {1, 2}
  Managers = {c1, c2}
  ExitOf <- MCExitOf
  Iterables <- MCIterables
  MaxJobs = {0, 1, 2}
  Spawners = {s1, s2}
  StubbornTargets = {s2}
  MaxSpawnCancels = 2
  SyncCaller = s
  AsyncCaller = t
  CallerLoop = l
  MaxLaunchCancels = 3
SPECIFICATION TasksFair
INVARIANT NoneLeftBehind ReportsTasks RaceReports ContextsBalanced CleanupShielded AmassAccounts MapAccounts
  SpawnReports ManagerWaits AssertionsHold ReportsTarget CancelNotLost
PROPERTY SpawnsAreNested CombinatorsEnd RemoteEnds LaunchEnds
\* The calls are over, or wait for targets that run for ever.
CHECK_DEADLOCK FALSE
