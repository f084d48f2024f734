\* Two helpers at once: the second of an attempt whose predecessor was killed.
SPECIFICATION FairSpec
CONSTANTS
  h1 = h1
  h2 = h2
  Helper = {h1, h2}
  MaxQueue = 1
INVARIANTS
  UnpairAfterDisconnect
  LeLinkSurvives
  TrueMeansLeOnly
PROPERTIES
  HelperEnds
