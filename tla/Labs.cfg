SPECIFICATION LabsSpec
CONSTANTS
  Exclusive = {e1, e2}
  Shared = {s1, s2}
  Nobody = Nobody
  Careful = TRUE
INVARIANTS OriginalsAreKept LabsAreAlone
