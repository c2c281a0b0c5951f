------------------------------- MODULE Services -------------------------------
(***************************************************************************)
(* The services around queue and queries together: the caches, the pool of *)
(* workspaces, the knowledge in Git, the connector and the child process.  *)
(* They share no state that the models have, and take turns.               *)
(***************************************************************************)
EXTENDS PlanCache, WorkspacePool, Knowledge, Connector, ChildProcess

vars == <<cacheVars, poolVars, knowledgeVars, connectorVars, processVars>>

Init ==
  CachesInit /\ PoolInit /\ KnowledgeInit /\ ConnectorInit /\ ProcessInit

CachesTurn ==
  CachesNext /\ UNCHANGED <<poolVars, knowledgeVars, connectorVars, processVars>>
PoolTurn ==
  PoolNext /\ UNCHANGED <<cacheVars, knowledgeVars, connectorVars, processVars>>
KnowledgeTurn ==
  KnowledgeNext /\ UNCHANGED <<cacheVars, poolVars, connectorVars, processVars>>
ConnectorTurn ==
  ConnectorNext /\ UNCHANGED <<cacheVars, poolVars, knowledgeVars, processVars>>
ProcessTurn ==
  ProcessNext /\ UNCHANGED <<cacheVars, poolVars, knowledgeVars, connectorVars>>

Next == CachesTurn \/ PoolTurn \/ KnowledgeTurn \/ ConnectorTurn \/ ProcessTurn

Spec == Init /\ [][Next]_vars

TypeOK ==
  CachesTypeOK /\ PoolTypeOK /\ KnowledgeTypeOK /\ ConnectorTypeOK /\ ProcessTypeOK
=============================================================================
