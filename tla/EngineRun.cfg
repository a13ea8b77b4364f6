SPECIFICATION MCSpec
CONSTANTS
  None = None
  p1 = p1
  p2 = p2
  s1 = s1
  s2 = s2
  k1 = k1
  k2 = k2
  c1 = c1
  f1 = f1
  Prompts = {p1, p2}
  Impatient = {p1}
  Steers = {s1, s2}
  Cancels = {c1}
  Closes = {k1, k2}
  Cleanups = {f1}
  MaxTurns = 2
  MaxOverflow = 1
CHECK_DEADLOCK FALSE
INVARIANTS SteerNeverAborts SteerAccounting CloseReachesRun CleanupOnce
PROPERTIES RunsEnd
