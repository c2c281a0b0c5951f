---------------------------- MODULE ServicesProofs ----------------------------
(***************************************************************************)
(* The services together: a step of one leaves the others alone, so that   *)
(* what is proved of each holds of all of them as they take turns.         *)
(***************************************************************************)
EXTENDS Services, CacheProofs, ExecutionProofs, KnowledgeProofs

(* A step of the whole is a step or a stutter of every service.            *)
LEMMA StepOfEach ==
  ASSUME [Next]_vars
  PROVE  /\ [CachesNext]_cacheVars
         /\ [PoolNext]_poolVars
         /\ [KnowledgeNext]_knowledgeVars
         /\ [ConnectorNext]_connectorVars
         /\ [ProcessNext]_processVars
BY DEF vars, Next, CachesTurn, PoolTurn, KnowledgeTurn, ConnectorTurn, ProcessTurn

(* The services together behave, each, as it does alone: every theorem     *)
(* about the caches, the pool, the knowledge, the connector or the child   *)
(* process holds of the program that runs them all.                        *)
THEOREM EachService ==
  Spec => /\ CachesSpec /\ PoolSpec /\ KnowledgeSpec
          /\ ConnectorSpec /\ ProcessSpec
<1>1. Init => CachesInit /\ PoolInit /\ KnowledgeInit /\ ConnectorInit /\ ProcessInit
  BY DEF Init
<1>2. [Next]_vars => /\ [CachesNext]_cacheVars
                     /\ [PoolNext]_poolVars
                     /\ [KnowledgeNext]_knowledgeVars
                     /\ [ConnectorNext]_connectorVars
                     /\ [ProcessNext]_processVars
  BY StepOfEach
<1> QED
  BY <1>1, <1>2, PTL
  DEF Spec, CachesSpec, PoolSpec, KnowledgeSpec, ConnectorSpec, ProcessSpec

(* The variables of all services have their types.                         *)
THEOREM ServicesTypeCorrect == Spec => []TypeOK
<1>1. CachesTypeOK /\ PoolTypeOK /\ KnowledgeTypeOK /\ ConnectorTypeOK /\ ProcessTypeOK
        => TypeOK
  BY DEF TypeOK
<1> QED
  BY <1>1, EachService, CachesTypeCorrect, PoolTypeCorrect, KnowledgeTypeCorrect,
     ConnectorTypeCorrect, ProcessTypeCorrect, PTL
=============================================================================
