SPECIFICATION MCSpec
CONSTANTS
  None = None
  t1 = t1
  t2 = t2
  f1 = f1
  f2 = f2
  f3 = f3
  m1 = m1
  m2 = m2
  p1 = p1
  p2 = p2
  a = a
  b = b
  u1 = u1
  u2 = u2
  v1 = v1
  v2 = v2
  i1 = i1
  small = small
  large = large
  Focus = {"caches", "pool", "knowledge", "connector", "process"}
  Task = {t1, t2}
  Fact = {f1, f2, f3}
  FactIdOrder <- MCFactIdOrder
  ResultOf <- MCResultOf
  Imports <- MCImports
  ManifestOf <- MCManifestOf
  Length <- MCLength
  MaxEntries = 2
  MaxBytes = 3
  Batch = 1
  MaxClock = 1
  Plan = {p1, p2}
  PlanBytes <- MCPlanBytes
  Reader = {q1, q2}
  MaxReads = 1
  Key = {k1, k2, k3}
  File = {small, large}
  Client = {c1, c2}
  Size <- MCSize
  MaxRevisions = 2
  MaxPoolBytes = 4
  Reserve = 1
  Capacity = 7
  MaxOutside = 1
  MaxPoolFaults = 1
  Catalog = {a, b}
  Publisher = {u1, u2}
  CatalogOf <- MCCatalogOf
  Ranking <- MCRanking
  Trusted <- MCTrusted
  Claim = {claim}
  Relation = {relation}
  DecideUnseen = FALSE
  MaxCommits <- MCMaxCommits
  NoWork = NoWork
  PullRequest = {v1, v2}
  Issue = {i1}
  IssuesOf <- MCIssuesOf
  Syncer = {s1, s2}
  PageSize = 1
  PerSecond = 2
  MaxUpdates = 3
  MaxFailures = 1
  NoSync = NoSync
  Whole = 2
  MaxOutput = 1
  HasDeadline = TRUE
CHECK_DEADLOCK FALSE
SYMMETRY MCSymmetry
INVARIANT TypeOK
INVARIANT CacheIsBounded
INVARIANT LeasedFilesAreThere
INVARIANT AccountIsRight
INVARIANT KnowledgeIsPublished
 
INVARIANT CursorCovers
INVARIANT OutcomeIsGenuine
PROPERTY RecentlyUsedStay
PROPERTY EvictedIsRescheduled
PROPERTY PinnedPlansStay
PROPERTY PlansYieldToFacts
PROPERTY ReserveStaysFree
