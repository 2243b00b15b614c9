SPECIFICATION RerunSpec
CONSTANTS
  t1 = t1
  a = a
  b = b
  dev = dev
  cli = cli
  TagOrder <- MCTagOrder
  NoList = NoList
  Bare = Bare
  Things = {t1}
  Values = {a, b}
  NoHash = NoHash
  CliTag = cli
  Used <- MCAll
  ByHand <- MCByHand
  MaxChanges = 2
  MaxTroubles = 1
INVARIANTS
  TypeOK
  AskedIsDeclared
  SecondApplySettles
PROPERTIES
  DeclaredIsNotUninstalled
  DeclaredReachHost
