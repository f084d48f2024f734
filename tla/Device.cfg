\* Two tasks with every call in any order; a connection may outlive another.
SPECIFICATION DeviceFairSpec
CONSTANTS
  t1 = t1
  t2 = t2
  b1 = b1
  b2 = b2
  None = None
  Task = {t1, t2}
  Bus = {b1, b2}
  Room = 1
INVARIANTS
  OneHid
  ReuseIsSound
  LeftOnlyIfReleased
PROPERTIES
  CallsEnd
