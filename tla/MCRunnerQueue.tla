---------------------------- MODULE MCRunnerQueue ----------------------------
(* Instances of RunnerQueue for TLC: two extractions, a connector item that *)
(* needs a credential and the maintenance synchronization.                  *)
EXTENDS RunnerQueueProperties, TLC

CONSTANTS
  Extractions, Connectors, GitSyncs,  \* the work ids of each kind
  Equipped,                           \* the commands that have the credential
  Secret,                             \* that credential
  OneIdentity

MCWork == Extractions \cup Connectors \cup GitSyncs
MCKind == [w \in MCWork |-> IF w \in Extractions THEN "extraction"
                            ELSE IF w \in Connectors THEN "connector_sync"
                            ELSE "analysis_git_sync"]
MCCredential == [w \in MCWork |-> IF w \in Connectors THEN Secret ELSE None]
MCDeps == [w \in MCWork |-> {}]
MCCaps == [c \in Cli |-> IF c \in Equipped THEN {Secret} ELSE {}]
MCIdent == [c \in Cli |-> OneIdentity]
MCSymmetry == Permutations(Token) \cup Permutations(Runner)
=============================================================================
