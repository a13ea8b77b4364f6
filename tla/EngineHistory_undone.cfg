SPECIFICATION Spec
CONSTANTS
  Texts = {p1}
  MaxPrompts = 2
  MaxSessions = 2
  MaxRestarts = 1
  Turnwise = FALSE
  None = None
INVARIANT RewoundStaysOut
CHECK_DEADLOCK FALSE
