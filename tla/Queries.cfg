SPECIFICATION Spec
CONSTANTS
  None = None
  NoElement = NoElement
  pathA = pathA
  pathB = pathB
  src = src
  hdr = hdr
  q1 = q1
  q2 = q2
  Absent = 0
  Path = {pathA, pathB}
  SourcePath = {pathA}
  BuildPath = {pathB}
  HeaderPath = {pathB}
  History <- MCHistory
  PrFacts <- MCFacts
  CommitTime <- MCCommitTime
  Context <- MCContext
  Query = {q1, q2}
  QueryPath <- MCQueryPath
  QuerySince <- MCSince
  Cases <- MCCases
  ElementId = {1, 2, 3}
  MaxInduced = 4
  MaxDepth = 2
INVARIANT TypeOK
 
 
 
INVARIANT StatisticsAreCounted
 
 
