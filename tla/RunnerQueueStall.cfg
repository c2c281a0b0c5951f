SPECIFICATION Spec
CONSTANTS
  Extractions = {x, y}
  Connectors = {}
  GitSyncs = {g}
  Equipped = {c1}
  Secret = s
  OneIdentity = i
  None = None
  Maintenance = {g}
  Runner = {r1, r2}
  Owner = {r1, r2}
  Token = {t1, t2}
  Cli = {c1}
  Identity = {i}
  Foreign = {y}
  LeaseTimeout = 1
  BackoffCap = 1
  MaxAttempts = 1
  MaxCommands = 2
  MaxFaults = 1
  FaultKinds = {"abort", "spawn"}
  TimelyHeartbeats = FALSE
  Evicts = FALSE
  Work <- MCWork
  Kind <- MCKind
  Credential <- MCCredential
  Deps <- MCDeps
  Caps <- MCCaps
  Ident <- MCIdent
SYMMETRY MCSymmetry
PROPERTIES
  SyncWorkIsFenced
