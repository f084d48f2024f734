\* Two actions, of which the documented option allows one.
SPECIFICATION AuthSpec
CONSTANTS
  MaxInbox = 1
  Action = {"suspend", "mount"}
  AllowedActions = {"suspend"}
INVARIANTS
  OnlyAllowedActions
