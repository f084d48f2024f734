\* Two clients, two ticks each: contention, every timeout point, kills.
SPECIFICATION Spec
CONSTANTS
  c1 = c1
  c2 = c2
  Nobody = Nobody
  Client = {c1, c2}
  Holder = {c1, c2}
  Budget = 2
SYMMETRY Symmetry
INVARIANTS
  OneHidAtATime
  NoAttemptOverALink
  LockDiscipline
PROPERTIES
  TrueIsSeen
  OneBudget
