SPECIFICATION Spec
CONSTANTS
  Names <- MCNames
  Width = 5
  Priorities <- MCPriorities
  Graphs <- MCGraphs
  Elsewhere <- MCElsewhere
INVARIANTS
  DependenciesFirst
  CyclesAreFound
  DependenciesHandled
  FailedBootstrapStops
  DryRunIsDry
  OkMeansAllFinished
  NothingOutlivesRun
PROPERTIES
  RunEnds
\* a run ends once
CHECK_DEADLOCK FALSE
