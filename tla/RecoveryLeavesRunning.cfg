SPECIFICATION Spec
CONSTANTS
  Extractions = {x}
  Connectors = {}
  GitSyncs = {g}
  Equipped = {c1}
  Secret = s
  OneIdentity = i
  None = None
  Maintenance = {g}
  Runner = {r1, r2}
  Owner = {r1, r2}
  Token = {t1, t2, t3, t4}
  Cli = {c1}
  Identity = {i}
  Foreign = {}
  LeaseTimeout = 1
  BackoffCap = 1
  MaxAttempts = 2
  MaxCommands = 2
  MaxFaults = 1
  FaultKinds = {"crash"}
  TimelyHeartbeats = TRUE
  Evicts = FALSE
  Work <- MCWork
  Kind <- MCKind
  Credential <- MCCredential
  Deps <- MCDeps
  Caps <- MCCaps
  Ident <- MCIdent
SYMMETRY MCSymmetry
PROPERTIES
  RecoveryRequeues
