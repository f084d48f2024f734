\* A connection attempt against a pairing run that may keep the lock for ever.
SPECIFICATION MCFairSpec
CONSTANTS
  c1 = c1
  s1 = s1
  Nobody = Nobody
  Client = {c1}
  Server = {s1}
  Holder = {c1, s1}
  Budget = 1
INVARIANTS
  PairingIsAlone
PROPERTIES
  SlotSpec
  EveryCallEnds
