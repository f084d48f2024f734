\* A companion, the phone and a stranger; two handlers, of which one may be on its
\* way to the user for a request that BlueZ has cancelled.
SPECIFICATION CoexistFairSpec
CONSTANTS
  Main = "main"
  Handler = {"h1", "h2"}
  Task = {"main", "h1", "h2"}
  Phone = "phone"
  Link = {"mouse", "phone"}
  Device = {"mouse", "phone", "stranger"}
  Room = 1
  None = "none"
INVARIANTS
  RepliesAreOwn
  ConfirmedIsCandidate
  NoRecordMeansClean
PROPERTIES
  PassMeansKept
  SessionEnds
