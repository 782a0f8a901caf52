CONSTANTS
  s = s  t = t  l = l
  SyncCaller = s
  AsyncCaller = t
  CallerLoop = l
  MaxLaunchCancels = 3
SPECIFICATION LaunchFair
PROPERTY LaunchReturns
\* launch_in_thread_loop_sync may block for ever.
CHECK_DEADLOCK FALSE
