SPECIFICATION MCSpec
CONSTANTS
  w1 = w1
  w2 = w2
  Writers = {w1, w2}
  Messages <- MCMessages
  Histories <- MCHistories
  Turns <- MCTurns
  Locking = TRUE
  MaxLines = 3
  None = None
  NoId = NoId
  Signed = Signed
  p1 = p1
  p2 = p2
  Texts = {p1, p2}
  MaxPrompts = 2
  MaxSessions = 2
  MaxRestarts = 2
  Turnwise = TRUE
SYMMETRY Symmetry
INVARIANTS BasesMatch FileLoads HistoryKept
PROPERTY LogSpec
CHECK_DEADLOCK FALSE
