\* Two runs of the pairing helper, every setting on or off at the start.
SPECIFICATION FairSpec
CONSTANTS
  s1 = s1
  s2 = s2
  Nobody = Nobody
  Server = {s1, s2}
INVARIANTS
  BorrowedUnderLock
  HiddenWhileAdvertising
PROPERTIES
  OnlyReportedDiffer
  SignalEndsRun
