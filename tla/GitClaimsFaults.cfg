CONSTANTS
  vm1 = vm1
  vm2 = vm2
  Home <- MCHome
  Trusted <- MCTrusted
  Producer = {vm1, vm2}
  Process = {vm1, vm2}
  Worker = {vm1, vm2}
  Lease = 1
  Grace = 1
  Retention = 1
  HeartbeatPeriod = 1
  Prompt = FALSE
  Evicts = TRUE
  MaxCommits = 3
  MaxBeats = 3
  MaxResults = 2
  MaxFaults = 1
  FaultKinds = {"crash", "offline", "unacknowledged", "failure"}
SPECIFICATION Spec
INVARIANT CompletedHasResult
PROPERTY ClaimsChangeHandsWhenExpired
PROPERTY CompletedClaimStays
