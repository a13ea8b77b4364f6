SPECIFICATION Spec
CONSTANTS
  Prompts = {p1}
  Impatient = {}
  Steers = {s1}
  Cancels = {}
  Closes = {}
  Cleanups = {}
  MaxTurns = 2
  MaxOverflow = 0
  None = None
INVARIANT SteerDelivered
CHECK_DEADLOCK FALSE
