CONSTANTS
  vm1 = vm1
  vm2 = vm2
  Home <- MCHome
  Trusted <- MCTrusted
  Producer = {vm1, vm2}
  Process = {vm1, vm2}
  Worker = {vm1, vm2}
  Lease = 1
  Grace = 1
  Retention = 1
  HeartbeatPeriod = 1
  Prompt = TRUE
  Evicts = FALSE
  MaxCommits = 7
  MaxBeats = 2
  MaxResults = 3
  MaxFaults = 1
  FaultKinds = {"lost"}
SPECIFICATION FairSpec
INVARIANT TypeOK
 
 
 
PROPERTY EveryoneGetsTheFact
