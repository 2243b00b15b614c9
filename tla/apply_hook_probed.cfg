SPECIFICATION Spec
CONSTANTS
  r1 = r1
  r2 = r2
  c1 = c1
  c2 = c2
  Resources <- MCResources
  Contents <- MCContents
  NoHash = NoHash
  None = None
  Probing = TRUE
  Allowed = {"hook"}
  MaxEvents = 1
SYMMETRY Symmetry
INVARIANTS
  HookFailureIsKept
\* a user who deletes the hamsfile before the first apply has nothing left to run
CHECK_DEADLOCK FALSE
