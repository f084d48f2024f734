\* Auto-lock: intervals in the order of the defaults (7, 30, 5, 30, 30, 120 and
\* 60 s), scaled down; Bound is the smallest that holds.
\* Monitor: three signals waiting, so the adapter goes on, off and on during an
\* attempt.  Query: every list of up to four entries, against a buffer of three.
\* Entries: room for two datagrams, so that requests meet attempts and one another.
\* Probe: two phones, of which one may be in the keystore, and one reconnection.
SPECIFICATION ServicesFairSpec
CONSTANTS
  AttemptTime = 2
  StartupTime = 3
  RestartTime = 1
  UnlockedConnected = 3
  UnlockedDisconnected = 3
  LockedConnected = 7
  LockedDisconnected = 5
  Bound = 9
  MaxSignals = 3
  MaxInbox = 2
  Action = {"suspend", "mount"}
  AllowedActions = {"suspend"}
  Capacity = 3
  MaxLinks = 4
  Phone = {p1, p2}
  Cycles = 1
INVARIANTS
  LockedInTime
  YesIsEncrypted
  NoIsComplete
  PhoneOnlyForTrusted
  OnePhone
  PassIsTrue
PROPERTIES
  PowerOnServed
  StartedOnDemand
  RequestServed
