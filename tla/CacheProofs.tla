------------------------------ MODULE CacheProofs ------------------------------
(***************************************************************************)
(* Proofs about the caches of a catalog: the extraction results (module    *)
(* FactCache) and the history plans under the same limits (PlanCache).     *)
(***************************************************************************)
EXTENDS PlanCache, FoldLemmas

-----------------------------------------------------------------------------
(* The inductive invariant.                                                *)
FactRow == [task : Task, created : 0 .. MaxClock, accessed : 0 .. MaxClock]
ReaderState == [pc : {"idle", "written", "found", "reading"}, plan : Plan \cup {None},
                cached : BOOLEAN, reads : 0 .. MaxReads]

FactsInv == FactsTypeOK /\ CacheIsBounded

-----------------------------------------------------------------------------
(* What an eviction of facts leaves: it is within the limits, and nothing  *)
(* that was evicted was used later.                                        *)
LEMMA NothingFits == WithinLimits({})
<1>1. Cardinality({}) = 0 /\ SumFunctionOnSet(Length, {}) = 0
  BY FS_EmptySet, SumEmpty
<1> QED  BY <1>1, CacheAssumption DEF WithinLimits

LEMMA KeptFits ==
  ASSUME NEW rows, DOMAIN rows \subseteq Fact
  PROVE  /\ Kept(rows) \subseteq DOMAIN rows /\ WithinLimits(Kept(rows))
         /\ \A f \in DOMAIN rows \ Kept(rows), g \in Kept(rows) : ~Precedes(rows, g, f)
<1> DEFINE rounds == {K \in OldestOf(DOMAIN rows, OldestFirst(rows)) :
                        /\ Cardinality(K) % Batch = 0 \/ K = DOMAIN rows
                        /\ WithinLimits(DOMAIN rows \ K)}
<1>1. Kept(rows) = DOMAIN rows \ Fewest(rounds)
  BY DEF Kept
<1>2. DOMAIN rows \in rounds
  <2>1. DOMAIN rows \in OldestOf(DOMAIN rows, OldestFirst(rows))
    BY DEF OldestOf
  <2>2. DOMAIN rows \ DOMAIN rows = {}
    OBVIOUS
  <2> QED  BY <2>1, <2>2, NothingFits
<1>3. \A K \in rounds : Cardinality(K) \in Nat
  <2>1. \A K \in rounds : K \in SUBSET Fact
    BY DEF OldestOf
  <2> QED  BY <2>1, CacheAssumption, FS_Subset, FS_CardinalityType
<1> DEFINE K == Fewest(rounds)
<1>4. K \in rounds
  <2> HIDE DEF rounds
  <2> QED  BY <1>2, <1>3, FewestIsOne
<1>5. /\ K \in SUBSET (DOMAIN rows) /\ WithinLimits(DOMAIN rows \ K)
      /\ \A f \in K, g \in DOMAIN rows : <<g, f>> \in OldestFirst(rows) => g \in K
  BY <1>4 DEF OldestOf
<1> HIDE DEF K, rounds
<1>6. \A f \in K, g \in DOMAIN rows \ K : ~Precedes(rows, g, f)
  BY <1>5 DEF OldestFirst
<1>7. Kept(rows) = DOMAIN rows \ K
  BY <1>1 DEF K
<1> QED  BY <1>5, <1>6, <1>7

(* What store_fact does, whichever fact of whichever task it stores.       *)
NewRow(f, t) ==
  IF f \in DOMAIN facts THEN facts
  ELSE [g \in DOMAIN facts \cup {f} |->
          IF g = f THEN [task |-> t, created |-> now, accessed |-> now] ELSE facts[g]]

LEMMA StoreEffect ==
  ASSUME FactsInv, NEW f \in Fact, NEW t \in Task, StoreFact(f, t)
  PROVE  /\ DOMAIN facts' \subseteq Fact /\ WithinLimits(DOMAIN facts')
         /\ \A g \in DOMAIN facts' : facts'[g] \in FactRow
         /\ \A g \in DOMAIN facts \ DOMAIN facts', h \in DOMAIN facts \cap DOMAIN facts' :
              facts[g].accessed <= facts[h].accessed
         /\ row' = RowsAfter(t, facts') /\ member' = MembersAfter(f, facts')
         /\ published' \subseteq published
<1> DEFINE all == NewRow(f, t)
<1>1. /\ facts' = [g \in Kept(all) |-> all[g]]
      /\ row' = RowsAfter(t, facts') /\ member' = MembersAfter(f, facts')
      /\ published' \subseteq published
  BY DEF StoreFact, NewRow
<1>2. /\ DOMAIN facts \subseteq Fact /\ \A g \in DOMAIN facts : facts[g] \in FactRow
      /\ now \in 0 .. MaxClock
  BY DEF FactsInv, FactsTypeOK, FactRow
<1>3. /\ DOMAIN all = DOMAIN facts \cup {f}
      /\ \A g \in DOMAIN all : all[g] \in FactRow
      /\ \A g \in DOMAIN facts : all[g] = facts[g]
  BY <1>2 DEF NewRow, FactRow
<1> HIDE DEF all
<1>4. /\ Kept(all) \subseteq DOMAIN all /\ WithinLimits(Kept(all))
      /\ \A g \in DOMAIN all \ Kept(all), h \in Kept(all) : ~Precedes(all, h, g)
  BY <1>2, <1>3, KeptFits
<1>5. DOMAIN facts' = Kept(all) /\ \A g \in Kept(all) : facts'[g] = all[g]
  BY <1>1
<1>6. \A g \in DOMAIN facts \ DOMAIN facts', h \in DOMAIN facts \cap DOMAIN facts' :
        facts[g].accessed <= facts[h].accessed
  <2> SUFFICES ASSUME NEW g \in DOMAIN facts \ DOMAIN facts',
                      NEW h \in DOMAIN facts \cap DOMAIN facts'
               PROVE  facts[g].accessed <= facts[h].accessed
    OBVIOUS
  <2>1. ~(all[h].accessed < all[g].accessed)
    BY <1>3, <1>4, <1>5 DEF Precedes
  <2>2. all[g] = facts[g] /\ all[h] = facts[h]
    BY <1>3
  <2>3. facts[g].accessed \in Nat /\ facts[h].accessed \in Nat
    BY <1>2, CacheAssumption DEF FactRow
  <2> QED  BY <2>1, <2>2, <2>3
<1>7. DOMAIN facts' \subseteq Fact /\ \A g \in DOMAIN facts' : facts'[g] \in FactRow
  BY <1>2, <1>3, <1>4, <1>5
<1> QED  BY <1>1, <1>4, <1>5, <1>6, <1>7

-----------------------------------------------------------------------------
(* The catalog keeps its invariant.                                        *)
LEMMA BoundsKept ==
  ASSUME DOMAIN facts' = DOMAIN facts, UNCHANGED member, CacheIsBounded
  PROVE  CacheIsBounded'
BY DEF CacheIsBounded, FactCount, FactBytes

LEMMA StoreKeeps ==
  ASSUME FactsInv, NEW f \in Fact, NEW t \in Task, StoreFact(f, t),
         job' \in {None} \cup [task : Task, stored : BOOLEAN], UNCHANGED <<offer, now>>
  PROVE  FactsInv'
<1>1. /\ DOMAIN facts' \subseteq Fact /\ WithinLimits(DOMAIN facts')
      /\ \A g \in DOMAIN facts' : facts'[g] \in FactRow
      /\ row' = RowsAfter(t, facts') /\ member' = MembersAfter(f, facts')
      /\ published' \subseteq published
  BY StoreEffect
<1>2. row \in [Task -> {"absent", "pending", "running", "completed"}]
      /\ member \in [Manifest -> Fact \cup {None}]
  BY DEF FactsInv, FactsTypeOK
<1>3. row' \in [Task -> {"absent", "pending", "running", "completed"}]
  <2> DEFINE done == [u \in Task |-> IF u = t /\ row[u] # "absent" THEN "completed"
                                                                 ELSE row[u]]
  <2>1. done \in [Task -> {"absent", "pending", "running", "completed"}]
    BY <1>2
  <2>2. row' = [u \in Task |->
                  IF done[u] = "completed" /\ \A g \in DOMAIN facts' : facts'[g].task # u
                  THEN "pending" ELSE done[u]]
    BY <1>1 DEF RowsAfter
  <2> HIDE DEF done
  <2> QED  BY <2>1, <2>2
<1>4. /\ member' \in [Manifest -> Fact \cup {None}]
      /\ \A m \in Manifest : member'[m] # None =>
           member'[m] \in DOMAIN facts' /\ ManifestOf[member'[m]] = m
  <2> DEFINE joined == [m \in Manifest |-> IF m = ManifestOf[f] THEN f ELSE member[m]]
  <2>1. \A m \in Manifest : /\ joined[m] \in Fact \cup {None}
                            /\ joined[m] # None => ManifestOf[joined[m]] = m
    BY <1>2 DEF FactsInv, CacheIsBounded
  <2>2. member' = [m \in Manifest |-> IF joined[m] \in DOMAIN facts'
                                      THEN joined[m] ELSE None]
    BY <1>1 DEF MembersAfter
  <2> HIDE DEF joined
  <2> QED  BY <2>1, <2>2
<1>5. CacheIsBounded'
  BY <1>1, <1>4 DEF CacheIsBounded, WithinLimits, FactCount, FactBytes
<1>6. FactsTypeOK'
  BY <1>1, <1>3, <1>4 DEF FactsInv, FactsTypeOK, FactRow
<1> QED  BY <1>5, <1>6 DEF FactsInv

LEMMA CacheStep ==
  ASSUME FactsInv, CacheNext
  PROVE  FactsInv'
<1> USE DEF FactsInv
<1> DEFINE Job == [task : Task, stored : BOOLEAN]
           Offer == [tasks : SUBSET Task, pushed : BOOLEAN]
<1>0. /\ job \in {None} \cup Job /\ offer \in {None} \cup Offer
      /\ row \in [Task -> {"absent", "pending", "running", "completed"}]
      /\ now \in 0 .. MaxClock /\ published \subseteq Task
  BY DEF FactsTypeOK
<1>1. ASSUME NEW t \in Task, Query(t) PROVE FactsInv'
  <2>1. /\ DOMAIN facts' = DOMAIN facts /\ DOMAIN facts \subseteq Fact
        /\ \A f \in DOMAIN facts : facts'[f] \in FactRow
    <3>1. /\ DOMAIN facts \subseteq Fact /\ \A f \in DOMAIN facts : facts[f] \in FactRow
      BY DEF FactsTypeOK, FactRow
    <3>2. CASE UNCHANGED facts
      BY <3>1, <3>2
    <3>3. CASE \E f \in Facts(t) : facts' = [facts EXCEPT ![f].accessed = now]
      <4>1. PICK f \in Facts(t) : facts' = [facts EXCEPT ![f].accessed = now]
        BY <3>3
      <4>2. f \in DOMAIN facts
        BY DEF Facts
      <4>3. /\ DOMAIN facts' = DOMAIN facts /\ facts'[f] = [facts[f] EXCEPT !.accessed = now]
            /\ \A g \in DOMAIN facts \ {f} : facts'[g] = facts[g]
        BY <4>1, <4>2
      <4>4. facts'[f] \in FactRow
        BY <1>0, <3>1, <4>2, <4>3 DEF FactRow
      <4> QED  BY <3>1, <4>3, <4>4
    <3> QED  BY <1>1, <3>2, <3>3 DEF Query
  <2>2. UNCHANGED <<published, member, job, offer, now>>
        /\ row' \in [Task -> {"absent", "pending", "running", "completed"}]
    <3>1. row' = row \/ row' = [row EXCEPT ![t] = IF @ = "absent" THEN "pending" ELSE @]
      BY <1>1 DEF Query
    <3> QED  BY <1>0, <1>1, <3>1 DEF Query
  <2>3. FactsTypeOK'
    BY <2>1, <2>2 DEF FactsTypeOK, FactRow
  <2> QED  BY <2>1, <2>2, <2>3, BoundsKept
<1>2. ASSUME UNCHANGED <<facts, member, now>>,
             row' \in [Task -> {"absent", "pending", "running", "completed"}],
             published' \subseteq Task, job' \in {None} \cup Job, offer' \in {None} \cup Offer
      PROVE  FactsInv'
  <2>1. FactsTypeOK'
    BY <1>2 DEF FactsTypeOK
  <2> QED  BY <1>2, <2>1, BoundsKept
<1>3. ASSUME NEW t \in Task, MarkPublished(t) PROVE FactsInv'
  <2>1. offer \in Offer
    BY <1>0, <1>3 DEF MarkPublished
  <2>2. offer' \in {None} \cup Offer
    BY <1>3, <2>1 DEF MarkPublished
  <2> QED  BY <1>0, <1>2, <1>3, <2>2 DEF MarkPublished
<1>4. ASSUME NEW t \in Task, Start(t) PROVE FactsInv'
  <2>1. row' \in [Task -> {"absent", "pending", "running", "completed"}] /\ job' \in Job
    BY <1>0, <1>4 DEF Start
  <2> QED  BY <1>0, <1>2, <1>4, <2>1 DEF Start
<1>5. ASSUME NEW t \in Task, NEW ends \in BOOLEAN, ImportTask(t, ends) PROVE FactsInv'
  <2>1. row' \in [Task -> {"absent", "pending", "running", "completed"}]
    BY <1>0, <1>5 DEF ImportTask
  <2>2. published' \subseteq Task
    BY <1>0, <1>5 DEF ImportTask
  <2> QED  BY <1>0, <1>2, <1>5, <2>1, <2>2 DEF ImportTask
<1>6. CASE ListTasks
  <2>1. offer' \in Offer
    BY <1>6 DEF ListTasks
  <2> QED  BY <1>0, <1>2, <1>6, <2>1 DEF ListTasks
<1>7. CASE PushTasks
  <2>1. offer \in Offer
    BY <1>0, <1>7 DEF PushTasks
  <2>2. offer.tasks \ published \in SUBSET Task
    BY <2>1
  <2>3. [tasks |-> offer.tasks \ published, pushed |-> TRUE] \in Offer
    BY <2>2
  <2>4. offer' \in {None} \cup Offer
    BY <1>7, <2>3 DEF PushTasks
  <2> QED  BY <1>0, <1>2, <1>7, <2>4 DEF PushTasks
<1>8. CASE StoreResult
  <2>1. job \in Job /\ StoreFact(ResultOf[job.task], job.task)
        /\ job' = [job EXCEPT !.stored = TRUE] /\ UNCHANGED <<offer, now>>
    BY <1>0, <1>8 DEF StoreResult
  <2>2. job.task \in Task /\ ResultOf[job.task] \in Fact /\ job' \in Job
    BY <2>1, CacheAssumption
  <2> QED  BY <2>1, <2>2, StoreKeeps
<1>9. CASE SetCompleted
  <2>1. job \in Job
    BY <1>0, <1>9 DEF SetCompleted
  <2>2. row' \in [Task -> {"absent", "pending", "running", "completed"}]
    BY <1>0, <1>9 DEF SetCompleted
  <2> QED  BY <1>0, <1>2, <1>9, <2>2 DEF SetCompleted
<1>10. ASSUME NEW f \in Fact, NEW t \in Task, Import(f, t) PROVE FactsInv'
  <2>1. StoreFact(f, t) /\ UNCHANGED <<job, offer, now>>
    BY <1>10 DEF Import
  <2> QED  BY <1>0, <2>1, StoreKeeps
<1>11. CASE Tick
  <2>1. now' \in 0 .. MaxClock /\ UNCHANGED <<facts, row, published, member, job, offer>>
    BY <1>0, <1>11, CacheAssumption DEF Tick
  <2>2. FactsTypeOK'
    BY <2>1 DEF FactsTypeOK
  <2> QED  BY <2>1, <2>2, BoundsKept
<1> QED  BY <1>1, <1>3, <1>4, <1>5, <1>6, <1>7, <1>8, <1>9, <1>10, <1>11 DEF CacheNext

-----------------------------------------------------------------------------
(* The plans.                                                              *)
PlansInv ==
  /\ plans \subseteq Plan /\ OrdersUse(written, plans)
  /\ reader \in [Reader -> ReaderState]

(* What evict_history_plans removes it may remove, and afterwards facts    *)
(* and plans fit, or nothing is left that it may remove.                   *)
LEMMA OutdatedRemoved ==
  ASSUME plans \subseteq Plan, NEW S \in SUBSET plans
  PROVE  /\ Outdated(S) \subseteq S
         /\ PlansFit(plans \ Outdated(S)) \/ Outdated(S) = S
<1> DEFINE enough == {K \in OldestOf(S, written) : PlansFit(plans \ K)}
<1>1. CASE enough = {}
  BY <1>1 DEF Outdated
<1>2. CASE enough # {}
  <2>1. \A K \in enough : K \in SUBSET S /\ PlansFit(plans \ K)
    BY DEF OldestOf
  <2>2. IsFiniteSet(S)
    BY PlanAssumption, FS_Subset
  <2>3. \A K \in enough : Cardinality(K) \in Nat
    BY <2>1, <2>2, FS_Subset, FS_CardinalityType
  <2>4. Outdated(S) = Fewest(enough)
    BY <1>2 DEF Outdated
  <2> HIDE DEF enough
  <2>5. Outdated(S) \in enough
    BY <1>2, <2>3, <2>4, FewestIsOne
  <2> QED  BY <2>1, <2>5
<1> QED  BY <1>1, <1>2

(* What happens to the plans when a query asks for one.                    *)
LEMMA PlanStep ==
  ASSUME PlansInv, PlanNext
  PROVE  PlansInv' /\ UNCHANGED cache
<1> USE DEF PlansInv
<1>1. ASSUME NEW q \in Reader, NEW p \in Plan, Hit(q, p)
      PROVE  PlansInv' /\ UNCHANGED cache
  <2>1. /\ p \in plans /\ written' = OrderAfterUse(written, plans, p)
        /\ UNCHANGED <<cache, plans>> /\ reader[q].reads < MaxReads
        /\ reader' = [reader EXCEPT ![q] =
             [pc |-> "found", plan |-> p, cached |-> TRUE, reads |-> @.reads + 1]]
    BY <1>1 DEF Hit
  <2>2. OrdersUse(written', plans') 
    <3>1. OrdersUse(OrderAfterUse(written, plans, p), plans \cup {p}) /\ plans \cup {p} = plans
      BY <2>1, UseIsOrdered
    <3> QED  BY <2>1, <3>1
  <2>3. reader[q].reads + 1 \in 0 .. MaxReads
    BY <2>1, PlanAssumption DEF ReaderState
  <2>4. reader' \in [Reader -> ReaderState]
    BY <2>1, <2>3 DEF ReaderState
  <2> QED  BY <2>1, <2>2, <2>4
<1>2. ASSUME NEW q \in Reader, NEW p \in Plan, Write(q, p)
      PROVE  PlansInv' /\ UNCHANGED cache
  <2> DEFINE room == FactCount < MaxEntries /\ FactBytes + PlanBytes[p] <= MaxBytes
  <2>1. /\ plans' = IF room THEN plans \cup {p} ELSE plans
        /\ written' = IF room THEN OrderAfterUse(written, plans, p) ELSE written
        /\ UNCHANGED cache /\ reader[q].reads < MaxReads
        /\ reader' = [reader EXCEPT ![q] =
             [pc |-> IF room THEN "written" ELSE "reading", plan |-> p,
              cached |-> room, reads |-> @.reads + 1]]
    BY <1>2 DEF Write
  <2>2. room \in BOOLEAN
    OBVIOUS
  <2> HIDE DEF room
  <2>3. OrdersUse(OrderAfterUse(written, plans, p), plans \cup {p})
    BY UseIsOrdered
  <2>4. OrdersUse(written', plans') /\ plans' \subseteq Plan
    BY <2>1, <2>3
  <2>5. reader[q].reads + 1 \in 0 .. MaxReads
    BY <2>1, PlanAssumption DEF ReaderState
  <2>6. [pc |-> IF room THEN "written" ELSE "reading", plan |-> p,
         cached |-> room, reads |-> reader[q].reads + 1] \in ReaderState
    BY <2>2, <2>5 DEF ReaderState
  <2>7. reader' \in [Reader -> ReaderState]
    BY <2>1, <2>6
  <2> QED  BY <2>1, <2>4, <2>7
<1>3. ASSUME NEW q \in Reader, Evict(q) PROVE PlansInv' /\ UNCHANGED cache
  <2>1. /\ plans' \subseteq plans /\ written' = OrderWithin(written, plans')
        /\ reader' = [reader EXCEPT ![q].pc = "found"] /\ UNCHANGED cache
    BY <1>3 DEF Evict
  <2>2. OrdersUse(written', plans')
    BY <2>1, RestIsOrdered
  <2>3. reader' \in [Reader -> ReaderState]
    BY <2>1 DEF ReaderState
  <2> QED  BY <2>1, <2>2, <2>3
<1>4. ASSUME NEW q \in Reader, Pin(q) PROVE PlansInv' /\ UNCHANGED cache
  BY <1>4 DEF Pin, ReaderState
<1>5. ASSUME NEW q \in Reader, Respond(q) PROVE PlansInv' /\ UNCHANGED cache
  <2>1. /\ reader' = [reader EXCEPT ![q] =
             [pc |-> "idle", plan |-> None, cached |-> FALSE, reads |-> @.reads]]
        /\ UNCHANGED <<cache, plans, written>>
    BY <1>5 DEF Respond
  <2>2. reader' \in [Reader -> ReaderState]
    BY <2>1 DEF ReaderState
  <2> QED  BY <2>1, <2>2
<1> QED  BY <1>1, <1>2, <1>3, <1>4, <1>5 DEF PlanNext

LEMMA CachesInit_Inv == CachesInit => FactsInv /\ PlansInv
<1> SUFFICES ASSUME CachesInit PROVE FactsInv /\ PlansInv
  OBVIOUS
<1>1. DOMAIN facts = {}
  BY DEF CachesInit, CacheInit
<1>2. FactsTypeOK
  BY <1>1, CacheAssumption DEF CachesInit, CacheInit, FactsTypeOK
<1>3. FactCount = 0 /\ FactBytes = 0
  BY <1>1, FS_EmptySet, SumEmpty DEF FactCount, FactBytes
<1>4. CacheIsBounded
  BY <1>3, CacheAssumption DEF CacheIsBounded, CachesInit, CacheInit
<1>5. PlansInv
  BY PlanAssumption DEF PlansInv, ReaderState, OrdersUse, CachesInit
<1> QED  BY <1>2, <1>4, <1>5 DEF FactsInv

LEMMA CachesStep ==
  FactsInv /\ PlansInv /\ [CachesNext]_cacheVars => (FactsInv /\ PlansInv)'
<1> SUFFICES ASSUME FactsInv, PlansInv, [CachesNext]_cacheVars
             PROVE  (FactsInv /\ PlansInv)'
  OBVIOUS
<1>1. ASSUME UNCHANGED cache PROVE FactsInv'
  <2>1. UNCHANGED <<facts, row, published, member, job, offer, now>>
    BY <1>1 DEF cache
  <2>2. FactsTypeOK'
    BY <2>1 DEF FactsInv, FactsTypeOK
  <2> QED  BY <2>1, <2>2, BoundsKept DEF FactsInv
<1>2. ASSUME UNCHANGED planVars PROVE PlansInv'
  BY <1>2 DEF planVars, PlansInv
<1>3. CASE CacheNext /\ UNCHANGED planVars
  BY <1>2, <1>3, CacheStep
<1>4. CASE PlanNext
  BY <1>1, <1>4, PlanStep
<1>5. CASE UNCHANGED cacheVars
  BY <1>1, <1>2, <1>5 DEF cacheVars
<1> QED  BY <1>3, <1>4, <1>5 DEF CachesNext

LEMMA CachesInvariant == CachesSpec => [](FactsInv /\ PlansInv)
BY CachesInit_Inv, CachesStep, PTL DEF CachesSpec

-----------------------------------------------------------------------------
(* The state of both caches is always of its type.                         *)
THEOREM CachesTypeCorrect == CachesSpec => []CachesTypeOK
<1>1. FactsInv /\ PlansInv => CachesTypeOK
  BY DEF FactsInv, PlansInv, CachesTypeOK, ReaderState
<1> QED  BY <1>1, CachesInvariant, PTL

(* The loop of store_fact (src/src/catalog.cpp:612-638) brings the cache   *)
(* within its limits before every commit, for any limits, batch size and   *)
(* sizes of facts, and no manifest serves symbols of a fact that is gone.  *)
THEOREM CacheStaysBounded == CachesSpec => []CacheIsBounded
<1>1. FactsInv /\ PlansInv => CacheIsBounded
  BY DEF FactsInv
<1> QED  BY <1>1, CachesInvariant, PTL

(* A step that changes the facts other than by touching one stores a fact. *)
LEMMA FactsChange ==
  ASSUME FactsInv, [CachesNext]_cacheVars
  PROVE  \/ UNCHANGED <<facts, row>>
         \/ DOMAIN facts' = DOMAIN facts
              /\ \A f \in DOMAIN facts : facts'[f].task = facts[f].task
         \/ \E f \in Fact, t \in Task : StoreFact(f, t)
<1>1. ASSUME NEW t \in Task, Query(t)
      PROVE  /\ DOMAIN facts' = DOMAIN facts
             /\ \A f \in DOMAIN facts : facts'[f].task = facts[f].task
  <2>1. \A f \in DOMAIN facts : facts[f] \in FactRow
    BY DEF FactsInv, FactsTypeOK, FactRow
  <2>2. facts' = facts \/ \E f \in DOMAIN facts : facts' = [facts EXCEPT ![f].accessed = now]
    BY <1>1 DEF Query, Facts
  <2> QED  BY <2>1, <2>2 DEF FactRow
<1>2. CASE CacheNext
  <2>1. CASE StoreResult
    <3>1. /\ job \in [task : Task, stored : BOOLEAN]
          /\ StoreFact(ResultOf[job.task], job.task)
      BY <2>1 DEF StoreResult, FactsInv, FactsTypeOK
    <3>2. ResultOf[job.task] \in Fact /\ job.task \in Task
      BY <3>1, CacheAssumption
    <3> QED  BY <3>1, <3>2
  <2>2. ASSUME NEW f \in Fact, NEW t \in Task, Import(f, t)
        PROVE  \E g \in Fact, u \in Task : StoreFact(g, u)
    BY <2>2 DEF Import
  <2>3. CASE \/ \E t \in Task : MarkPublished(t) \/ Start(t)
             \/ \E t \in Task, ends \in BOOLEAN : ImportTask(t, ends)
             \/ ListTasks \/ PushTasks \/ SetCompleted \/ Tick
    <3>1. UNCHANGED facts
      BY <2>3 DEF MarkPublished, Start, ImportTask, ListTasks, PushTasks, SetCompleted, Tick
    <3> QED  BY <3>1
  <2> QED  BY <1>1, <1>2, <2>1, <2>2, <2>3 DEF CacheNext
<1>3. CASE PlanNext
  BY <1>3 DEF PlanNext, Hit, Write, Evict, Pin, Respond, cache
<1>4. CASE UNCHANGED cacheVars
  BY <1>4 DEF cacheVars, cache
<1> QED  BY <1>2, <1>3, <1>4 DEF CachesNext

(* ORDER BY accessed_at in store_fact and the touch in fact_for_task give  *)
(* a least-recently-used cache: with any number of facts and batches,      *)
(* nothing is evicted while something used earlier stays.                  *)
THEOREM OldestAreEvicted == CachesSpec => RecentlyUsedStay
<1>1. ASSUME FactsInv, [CachesNext]_cacheVars
      PROVE  [\A f \in DOMAIN facts \ DOMAIN facts', g \in DOMAIN facts \cap DOMAIN facts' :
                facts[f].accessed <= facts[g].accessed]_cache
  <2>1. CASE \E f \in Fact, t \in Task : StoreFact(f, t)
    BY <1>1, <2>1, StoreEffect
  <2>2. CASE DOMAIN facts' = DOMAIN facts
    BY <2>2
  <2> QED  BY <1>1, <2>1, <2>2, FactsChange
<1>2. FactsInv /\ PlansInv => FactsInv
  OBVIOUS
<1> QED  BY <1>1, <1>2, CachesInvariant, PTL DEF CachesSpec, RecentlyUsedStay

(* "reschedule evicted cache facts" (src/src/catalog.cpp:640-645): no task *)
(* that loses its fact, to whichever result of whichever task or producer, *)
(* keeps a row that says completed.                                        *)
THEOREM LostFactsAreRescheduled == CachesSpec => EvictedIsRescheduled
<1>1. ASSUME FactsInv, [CachesNext]_cacheVars
      PROVE  [\A t \in Task : HasFact(t) /\ ~HasFact(t)' => row'[t] # "completed"]_cache
  <2>1. ASSUME NEW f \in Fact, NEW u \in Task, StoreFact(f, u), NEW t \in Task, ~HasFact(t)'
        PROVE  row'[t] # "completed"
    <3>1. row' = RowsAfter(u, facts')
      BY <1>1, <2>1, StoreEffect
    <3>2. \A g \in DOMAIN facts' : facts'[g].task # t
      BY <2>1 DEF HasFact
    <3> QED  BY <3>1, <3>2 DEF RowsAfter
  <2>2. ASSUME DOMAIN facts' = DOMAIN facts,
               \A f \in DOMAIN facts : facts'[f].task = facts[f].task
        PROVE  \A t \in Task : HasFact(t) => HasFact(t)'
    BY <2>2 DEF HasFact
  <2> QED  BY <1>1, <2>1, <2>2, FactsChange
<1>2. FactsInv /\ PlansInv => FactsInv
  OBVIOUS
<1> QED  BY <1>1, <1>2, CachesInvariant, PTL DEF CachesSpec, EvictedIsRescheduled

(* A pinned plan (PinnedPlan, src/src/query.cpp:47-102) survives whatever  *)
(* any number of other queries evict.                                      *)
THEOREM PinsProtect == CachesSpec => PinnedPlansStay
<1>1. ASSUME PlansInv, [CachesNext]_cacheVars
      PROVE  [\A q \in Reader, p \in plans :
                /\ reader[q].pc = "reading" /\ reader[q].cached /\ reader[q].plan = p
                => p \in plans']_cacheVars
  <2>1. ASSUME NEW r \in Reader, Evict(r), NEW p \in plans, Pinned(p) PROVE p \in plans'
    <3> DEFINE S == {o \in plans \ {reader[r].plan} : ~Pinned(o)}
    <3>1. plans' = plans \ Outdated(S)
      BY <2>1 DEF Evict, EvictPlans
    <3>2. Outdated(S) \subseteq S
      BY <1>1, OutdatedRemoved DEF PlansInv
    <3> QED  BY <2>1, <3>1, <3>2
  <2>2. CASE \E r \in Reader : Evict(r)
    <3>1. \A p \in plans : Pinned(p) => p \in plans'
      BY <2>1, <2>2
    <3> QED  BY <3>1 DEF Pinned
  <2>3. CASE ~ \E r \in Reader : Evict(r)
    <3>1. plans \subseteq plans'
      BY <1>1, <2>3 DEF CachesNext, PlanNext, Hit, Write, Pin, Respond, planVars, cacheVars
    <3> QED  BY <3>1
  <2> QED  BY <2>2, <2>3
<1>2. FactsInv /\ PlansInv => PlansInv
  OBVIOUS
<1> QED  BY <1>1, <1>2, CachesInvariant, PTL DEF CachesSpec, PinnedPlansStay

(* evict_history_plans (src/src/query.cpp:104-134) stops only when facts   *)
(* and plans fit together or nothing evictable is left.                    *)
THEOREM PlansMakeRoom == CachesSpec => PlansYieldToFacts
<1>1. ASSUME PlansInv, [CachesNext]_cacheVars
      PROVE  [\A q \in Reader :
                reader[q].pc = "written" /\ reader'[q].pc = "found" =>
                  PlansFit(plans') \/ \A p \in plans' : p = reader[q].plan \/ Pinned(p)
             ]_cacheVars
  <2>1. ASSUME NEW q \in Reader, Evict(q)
        PROVE  \/ PlansFit(plans \ EvictPlans(reader[q].plan))
               \/ \A p \in plans' : p = reader[q].plan \/ Pinned(p)
    <3> DEFINE S == {o \in plans \ {reader[q].plan} : ~Pinned(o)}
    <3>1. plans' = plans \ Outdated(S) /\ EvictPlans(reader[q].plan) = Outdated(S)
      BY <2>1 DEF Evict, EvictPlans
    <3>2. PlansFit(plans \ Outdated(S)) \/ Outdated(S) = S
      BY <1>1, OutdatedRemoved DEF PlansInv
    <3> QED  BY <3>1, <3>2
  <2>2. ASSUME NEW q \in Reader, reader[q].pc = "written", reader'[q].pc = "found"
        PROVE  Evict(q)
    <3>1. reader \in [Reader -> ReaderState]
      BY <1>1 DEF PlansInv
    <3>2. reader' # reader
      BY <2>2
    <3>3. PlanNext
      BY <1>1, <3>2 DEF CachesNext, planVars, cacheVars
    <3>4. ASSUME NEW r \in Reader, r # q, reader'[q] = reader[q] PROVE FALSE
      BY <2>2, <3>4
    <3> QED  BY <2>2, <3>1, <3>3, <3>4 DEF PlanNext, Hit, Write, Evict, Pin, Respond
  <2>3. ASSUME NEW q \in Reader, Evict(q)
        PROVE  PlansFit(plans')  <=> PlansFit(plans \ EvictPlans(reader[q].plan))
    BY <2>3 DEF Evict
  <2> QED  BY <2>1, <2>2, <2>3
<1>2. FactsInv /\ PlansInv => PlansInv
  OBVIOUS
<1> QED  BY <1>1, <1>2, CachesInvariant, PTL DEF CachesSpec, PlansYieldToFacts
=============================================================================
