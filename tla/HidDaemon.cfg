SPECIFICATION DaemonSpec
CONSTANTS
  Callers = {c1}
  MaxInbox = 2
  MaxEpoch = 2
INVARIANTS TrueIsFresh AccessIsCurrent
PROPERTIES AskEnds EndsWithBluez
CHECK_DEADLOCK FALSE
