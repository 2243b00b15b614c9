SPECIFICATION RerunCliSpec
CONSTANTS
  r1 = r1
  r2 = r2
  c1 = c1
  c2 = c2
  Resources <- MCResources
  Contents = {c1}
  Bare = c1
  RunsCli = TRUE
  NoHash = NoHash
  None = None
  Probing = TRUE
  Allowed = {"edit", "file", "drift", "tool", "hook", "save", "cancel", "kill"}
  MaxEvents = 1
INVARIANTS
  TrackedWasDeclared
PROPERTIES
  TurnEnds
  RerunsHealCommands
\* a user who deletes the hamsfile before the first apply has nothing left to run
CHECK_DEADLOCK FALSE
