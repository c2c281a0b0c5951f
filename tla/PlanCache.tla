------------------------------- MODULE PlanCache -------------------------------
(***************************************************************************)
(* The cache of history plans (src/query.cpp): files that queries share    *)
(* and pin while they read them, under the same limits as the facts.  The  *)
(* mutex and the pins are those of one process; a step is one of its       *)
(* critical sections, so that a query is between looking up its plan,      *)
(* evicting others and pinning it.                                         *)
(***************************************************************************)
EXTENDS FactCache

CONSTANTS
  Plan,       \* keys: repository, resolved head, start, PR snapshot
  PlanBytes,  \* size of each plan
  Reader,     \* threads that execute queries
  MaxReads    \* bound on the queries of each

ASSUME PlanAssumption ==
  IsFiniteSet(Plan) /\ PlanBytes \in [Plan -> Nat] /\ MaxReads \in Nat

VARIABLES
  plans,   \* the cached files
  written, \* their order, by when they were last written or touched
  reader   \* where each query is, its plan, whether it is a cached file

planVars == <<plans, written, reader>>
cacheVars == <<cache, planVars>>

CachesInit ==
  /\ CacheInit
  /\ plans = {} /\ written = {}
  /\ reader = [q \in Reader |-> [pc |-> "idle", plan |-> None, cached |-> FALSE, reads |-> 0]]

Pinned(p) == \E q \in Reader : reader[q].pc = "reading" /\ reader[q].cached /\ reader[q].plan = p
PlansFit(P) ==
  /\ Cardinality(P) + FactCount <= MaxEntries
  /\ SumFunctionOnSet(PlanBytes, P) + FactBytes <= MaxBytes

(* A cached plan is touched; it is pinned only after the mutex is released.*)
Hit(q, p) ==
  /\ reader[q].pc = "idle" /\ reader[q].reads < MaxReads /\ p \in plans
  /\ written' = OrderAfterUse(written, plans, p)
  /\ reader' = [reader EXCEPT ![q] =
       [pc |-> "found", plan |-> p, cached |-> TRUE, reads |-> @.reads + 1]]
  /\ UNCHANGED <<cache, plans>>

(* A missing plan is written and, when the facts leave room for it, moved  *)
(* into the cache; otherwise the query keeps its temporary file.           *)
Write(q, p) ==
  /\ reader[q].pc = "idle" /\ reader[q].reads < MaxReads /\ p \notin plans
  /\ LET room == FactCount < MaxEntries /\ FactBytes + PlanBytes[p] <= MaxBytes IN
     /\ plans' = IF room THEN plans \cup {p} ELSE plans
     /\ written' = IF room THEN OrderAfterUse(written, plans, p) ELSE written
     /\ reader' = [reader EXCEPT ![q] =
          [pc |-> IF room THEN "written" ELSE "reading", plan |-> p,
           cached |-> room, reads |-> @.reads + 1]]
  /\ UNCHANGED cache

(* The oldest of the plans S to go until those left fit, or all of them.   *)
Outdated(S) ==
  LET enough == {K \in OldestOf(S, written) : PlansFit(plans \ K)}
  IN IF enough = {} THEN S ELSE Fewest(enough)

\* Mutated forms: pins are not looked at; the facts are not counted.
EvictPlansPinnedToo(keep) == Outdated(plans \ {keep})
EvictPlansAlone(keep) ==
  LET S == {p \in plans \ {keep} : ~Pinned(p)}
      enough == {K \in OldestOf(S, written) : Cardinality(plans \ K) <= MaxEntries}
  IN IF enough = {} THEN S ELSE Fewest(enough)

(* evict_history_plans removes the oldest files until facts and plans fit, *)
(* sparing the one to keep and those that are pinned.                      *)
EvictPlans(keep) == Outdated({p \in plans \ {keep} : ~Pinned(p)})

Evict(q) ==
  /\ reader[q].pc = "written"
  /\ plans' = plans \ EvictPlans(reader[q].plan)
  /\ written' = OrderWithin(written, plans')
  /\ reader' = [reader EXCEPT ![q].pc = "found"]
  /\ UNCHANGED cache

Pin(q) ==
  /\ reader[q].pc = "found"
  /\ reader' = [reader EXCEPT ![q].pc = "reading"]
  /\ UNCHANGED <<cache, plans, written>>

(* The response is built; the pin or the temporary file goes.              *)
Respond(q) ==
  /\ reader[q].pc = "reading"
  /\ reader' = [reader EXCEPT ![q] =
       [pc |-> "idle", plan |-> None, cached |-> FALSE, reads |-> @.reads]]
  /\ UNCHANGED <<cache, plans, written>>

PlanNext ==
  \/ \E q \in Reader, p \in Plan : Hit(q, p) \/ Write(q, p)
  \/ \E q \in Reader : Evict(q) \/ Pin(q) \/ Respond(q)

CachesNext == (CacheNext /\ UNCHANGED planVars) \/ PlanNext

CachesSpec == CachesInit /\ [][CachesNext]_cacheVars
-----------------------------------------------------------------------------
CachesTypeOK ==
  /\ FactsTypeOK
  /\ plans \subseteq Plan /\ OrdersUse(written, plans)
  /\ reader \in [Reader -> [pc : {"idle", "written", "found", "reading"},
                            plan : Plan \cup {None}, cached : BOOLEAN,
                            reads : 0 .. MaxReads]]

(* A plan that a query of this process reads and that is there stays until *)
(* it is released, whatever other queries evict (PinnedPlan).              *)
PinnedPlansStay ==
  [][\A q \in Reader, p \in plans :
       /\ reader[q].pc = "reading" /\ reader[q].cached /\ reader[q].plan = p
       => p \in plans']_cacheVars

(* A query that adds a plan leaves facts and plans within their common     *)
(* limits, or nothing but its own plan and plans that others are reading.  *)
PlansYieldToFacts ==
  [][\A q \in Reader :
       reader[q].pc = "written" /\ reader'[q].pc = "found" =>
         PlansFit(plans') \/ \A p \in plans' : p = reader[q].plan \/ Pinned(p)]_cacheVars
=============================================================================
