SPECIFICATION Spec
CONSTANTS
  d = d
  a = a
  r = r
  hub = hub
  t0 = t0
  t1 = t1
  m0 = m0
  m1 = m1
  p1 = p1
  p2 = p2
  c1 = c1
  c2 = c2
  c3 = c3
  Stores <- MCStores
  Default = d
  Clone = r
  Remote = hub
  RemoteTags = {t1}
  DefaultTag = t0
  Tags <- MCTags
  Machine = m0
  Machines <- MCMachines
  None = None
  Missing = Missing
  Broken = Broken
  Failed = Failed
  Procs = {p1, p2}
  Invocations <- MCInvocations
  Firsts <- MCFirsts
  Edits <- MCEdits
  MaxCommands = 2
  MaxEvents = 1
  Changes = {c1, c2, c3}
  MaxTroubles = 2
  Upgrades = {p1, p2}
  Versions <- MCVersions
  Manifests <- MCManifests
SYMMETRY Symmetry
CHECK_DEADLOCK FALSE
INVARIANTS
  TypeOK
  StoreIsWhole
  CommandsAgree
  CommitIsDelivered
  BinaryIsGenuine
PROPERTIES
  ScaffoldSettles
