SPECIFICATION LabsSpec
CONSTANTS
  Exclusive = {e1}
  Shared = {s1}
  Nobody = Nobody
  Careful = FALSE
INVARIANT LabsAreAlone
