------------------------------ MODULE MCServices ------------------------------
(***************************************************************************)
(* Instances of Services for TLC.  Interleaving services that share no     *)
(* state shows nothing more of them: a behaviour takes one of Focus.       *)
(***************************************************************************)
EXTENDS Services, TLC

CONSTANTS
  Focus,   \* the services that are taken
  t1, t2, f1, f2, f3, m1, m2, p1, p2, a, b, u1, u2, v1, v2, i1, small, large

VARIABLE focus

-----------------------------------------------------------------------------
(* Results of two tasks, and a third that another producer, with another   *)
(* extractor, has of the first manifest.                                   *)
MCFactIdOrder == <<f2, f3, f1>>
MCResultOf == (t1 :> f1) @@ (t2 :> f2)
MCSameResult == (t1 :> f1) @@ (t2 :> f1)
MCImports == {<<f3, t1>>}
MCManifestOf == (f1 :> m1) @@ (f2 :> None) @@ (f3 :> m1)
MCLength == (f1 :> 2) @@ (f2 :> 2) @@ (f3 :> 1)
MCPlanBytes == (p1 :> 1) @@ (p2 :> 2)

(* A small and a larger file.                                              *)
MCSize == (small :> 1) @@ (large :> 2)

(* Two catalogs, the first of which trusts only itself.  The second one    *)
(* proposes and reviews nothing in the larger run.                         *)
MCCatalogOf == (u1 :> a) @@ (u2 :> b)
MCTrusted == (a :> {a}) @@ (b :> {a, b})
MCRanking == (a :> 1) @@ (b :> 2)
MCTrustAll == [c \in Catalog |-> Catalog]
MCMaxCommits == [r \in KnowledgeRef |-> IF r = Accepted THEN 2 ELSE IF r[2] = a THEN 1 ELSE 0]
MCOneCommit == [r \in KnowledgeRef |-> 1]

(* Queries differ in nothing; keys and clients do not either, but sorting   *)
(* the states of every model by them costs more than it saves.             *)
MCSymmetry == Permutations(Reader)

MCIssuesOf == (v1 :> {i1}) @@ (v2 :> {})
-----------------------------------------------------------------------------
MCInit == Init /\ focus \in Focus

MCNext ==
  /\ \/ focus = "caches" /\ CachesTurn
     \/ focus = "pool" /\ PoolTurn
     \/ focus = "knowledge" /\ KnowledgeTurn
     \/ focus = "connector" /\ ConnectorTurn
     \/ focus = "process" /\ ProcessTurn
  /\ UNCHANGED focus

MCSpec == MCInit /\ [][MCNext]_<<vars, focus>>
=============================================================================
