SPECIFICATION Spec
CONSTANTS
  p1 = p1
  p2 = p2
  p3 = p3
  Procs <- MCProcs
  Nobody = Nobody
  Overlap = FALSE
INVARIANTS
  TypeOK
  MutualExclusion
  HolderIsRecorded
PROPERTIES
  RefusedOnlyByTheLiving
  ImplementsSingleWriter
\* every invocation ends: the model stops when all of them have
CHECK_DEADLOCK FALSE
