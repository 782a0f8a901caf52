CONSTANTS
  c1 = c1  c2 = c2  c3 = c3  c4 = c4
  Children = {c1, c2, c3, c4}
  Groups = {{}, {c1, c2}, {c1, c2, c4}}
  Stubborn = {c4}
  MaxCancels = 2
  NoChild = NoChild
  MaxConcurrent = {1, 2}
  Managers = {c1, c2}
  ExitOf <- MCExitOf
  Iterables <- MCIterables
  MaxJobs = {0, 1, 2}
SPECIFICATION CombinatorsSpec
INVARIANT RaceReturns
CHECK_DEADLOCK FALSE
