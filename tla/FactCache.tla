------------------------------- MODULE FactCache -------------------------------
(***************************************************************************)
(* The bounded cache of extraction results in a catalog (src/catalog.cpp): *)
(* the tables facts, manifest_cache_membership with the symbols that hang  *)
(* on it, and what an eviction does to the rows of work_items.             *)
(* A fact is named by its fact_id, the hash of its result.  One step is    *)
(* one transaction of the runner, of a query or of an import.              *)
(***************************************************************************)
EXTENDS LeastRecentlyUsed, Sequences, Functions

CONSTANTS
  Task,        \* work ids of extractions
  Fact,        \* fact ids
  FactIdOrder, \* their order as strings: a sequence of all of them
  ResultOf,    \* the fact a task's extraction yields
  Imports,     \* <<fact, task>> pairs other producers publish
  ManifestOf,  \* the manifest of a fact, or None for a failed frontend run
  Length,      \* of fact_json
  MaxEntries,  \* maximum_cached_facts_
  MaxBytes,    \* maximum_cached_fact_bytes_
  Batch,       \* facts one eviction deletes: LIMIT 100
  MaxClock,    \* bound on the clock, in the seconds that order accesses
  None

ASSUME CacheAssumption ==
  /\ IsFiniteSet(Fact)
  /\ ResultOf \in [Task -> Fact] /\ Imports \subseteq Fact \X Task
  /\ Length \in [Fact -> Nat]
  /\ {MaxEntries, Batch} \subseteq Nat \ {0} /\ {MaxBytes, MaxClock} \subseteq Nat

VARIABLES
  facts,      \* rows of facts: fact id -> task, created, accessed
  row,        \* work_items.state of the extractions
  published,  \* published_tasks
  member,     \* manifest_cache_membership: manifest -> fact id
  job,        \* the runner: None, or its task and how far it is
  offer,      \* the runner: None, or the tasks it publishes and how far it is
  now

cache == <<facts, row, published, member, job, offer, now>>

Manifest == {ManifestOf[f] : f \in Fact} \ {None}

CacheInit ==
  /\ facts = << >> /\ row = [t \in Task |-> "absent"] /\ published = {}
  /\ member = [m \in Manifest |-> None] /\ job = None /\ offer = None /\ now = 0

HasFact(t) == \E f \in DOMAIN facts : facts[f].task = t
FactCount == Cardinality(DOMAIN facts)
FactBytes == SumFunctionOnSet(Length, DOMAIN facts)

\* Mutated form: most recently used first.
OldestFirstReversed(rows) ==
  {pair \in (DOMAIN rows) \X (DOMAIN rows) :
     rows[pair[1]].accessed > rows[pair[2]].accessed}

IdBefore(f, g) ==
  \E i, j \in DOMAIN FactIdOrder : FactIdOrder[i] = f /\ FactIdOrder[j] = g /\ i < j

(* ORDER BY accessed_at,created_at,fact_id: the earlier of two rows first. *)
Precedes(rows, f, g) ==
  \/ rows[f].accessed < rows[g].accessed
  \/ /\ rows[f].accessed = rows[g].accessed
     /\ \/ rows[f].created < rows[g].created
        \/ /\ rows[f].created = rows[g].created
           /\ IdBefore(f, g)
OldestFirst(rows) ==
  {pair \in (DOMAIN rows) \X (DOMAIN rows) : Precedes(rows, pair[1], pair[2])}

WithinLimits(F) ==
  /\ Cardinality(F) <= MaxEntries
  /\ SumFunctionOnSet(Length, F) <= MaxBytes

(* The loop deletes a batch at a time until the limits hold: it may delete *)
(* more than it has to, and the fact just stored.                          *)
Kept(rows) ==
  LET rounds == {K \in OldestOf(DOMAIN rows, OldestFirst(rows)) :
                   /\ Cardinality(K) % Batch = 0 \/ K = DOMAIN rows
                   /\ WithinLimits(DOMAIN rows \ K)}
  IN DOMAIN rows \ Fewest(rounds)

\* Mutated form: rows of evicted facts stay completed.
RowsAfterUnrescheduled(t, rows) ==
  [u \in Task |-> IF u = t /\ row[u] # "absent" THEN "completed" ELSE row[u]]

(* The task's row completes; every completed row without a fact of its own *)
(* becomes pending.                                                        *)
RowsAfter(t, rows) ==
  LET done == [u \in Task |-> IF u = t /\ row[u] # "absent" THEN "completed" ELSE row[u]]
  IN [u \in Task |-> IF done[u] = "completed" /\ \A f \in DOMAIN rows : rows[f].task # u
                     THEN "pending" ELSE done[u]]

\* Mutated form: the symbols of evicted facts are not deleted with them.
MembersAfterUncascaded(f, rows) ==
  [m \in Manifest |-> IF m = ManifestOf[f] THEN f ELSE member[m]]

(* The fact takes over the symbols of its manifest; deleting a fact        *)
(* deletes the manifest it is a member for (ON DELETE CASCADE).            *)
MembersAfter(f, rows) ==
  LET joined == [m \in Manifest |-> IF m = ManifestOf[f] THEN f ELSE member[m]]
  IN [m \in Manifest |-> IF joined[m] \in DOMAIN rows THEN joined[m] ELSE None]

(* store_fact: a fact id that is in the cache keeps its task and times.    *)
StoreFact(f, t) ==
  LET all == IF f \in DOMAIN facts THEN facts
             ELSE [g \in DOMAIN facts \cup {f} |->
                     IF g = f THEN [task |-> t, created |-> now, accessed |-> now]
                     ELSE facts[g]]
      rows == [g \in Kept(all) |-> all[g]] IN
  /\ facts' = rows
  /\ row' = RowsAfter(t, rows)
  /\ published' = {u \in published : row'[u] # "pending"}
  /\ member' = MembersAfter(f, rows)

Facts(t) == {f \in DOMAIN facts : facts[f].task = t}

(* fact_for_task: a query that finds a fact touches it, one that does not  *)
(* schedules the extraction (INSERT OR IGNORE).                            *)
Query(t) ==
  /\ IF HasFact(t)
     THEN /\ \E f \in Facts(t) :
               /\ \A g \in Facts(t) \ {f} : IdBefore(f, g)
               /\ facts' = [facts EXCEPT ![f].accessed = now]
          /\ UNCHANGED row
     ELSE /\ row' = [row EXCEPT ![t] = IF @ = "absent" THEN "pending" ELSE @]
          /\ UNCHANGED facts
  /\ UNCHANGED <<published, member, job, offer, now>>

(* Between two items the runner lists what is not completed; after a       *)
(* synchronization, publish_tasks pushes what no one has published, which  *)
(* may be refused, and marks it, task by task.                             *)
ListTasks ==
  LET open == {t \in Task : row[t] \notin {"absent", "completed"}} IN
  /\ job = None /\ offer = None /\ open # {}
  /\ offer' = [tasks |-> open, pushed |-> FALSE]
  /\ UNCHANGED <<facts, row, published, member, job, now>>

PushTasks ==
  /\ offer # None /\ ~offer.pushed
  /\ \/ /\ offer.tasks \ published # {}
        /\ offer' = [tasks |-> offer.tasks \ published, pushed |-> TRUE]
     \/ offer' = None
  /\ UNCHANGED <<facts, row, published, member, job, now>>

MarkPublished(t) ==
  /\ offer # None /\ offer.pushed /\ t \in offer.tasks
  /\ published' = published \cup {t}
  /\ offer' = IF offer.tasks = {t} THEN None ELSE [offer EXCEPT !.tasks = @ \ {t}]
  /\ UNCHANGED <<facts, row, member, job, now>>

(* import_tasks: a task of another producer is scheduled, if it has no row,*)
(* and marked, unless the process ends in between.                         *)
ImportTask(t, ends) ==
  /\ row' = [row EXCEPT ![t] = IF @ = "absent" THEN "pending" ELSE @]
  /\ published' = IF ends THEN published ELSE published \cup {t}
  /\ UNCHANGED <<facts, member, job, offer, now>>

(* The runner: claims a pending task, stores the result of its extraction, *)
(* and then sets the row completed, whatever store_fact made of it.        *)
Start(t) ==
  /\ job = None /\ offer = None /\ row[t] = "pending"
  /\ job' = [task |-> t, stored |-> FALSE]
  /\ row' = [row EXCEPT ![t] = "running"]
  /\ UNCHANGED <<facts, published, member, offer, now>>

StoreResult ==
  /\ job # None /\ ~job.stored
  /\ StoreFact(ResultOf[job.task], job.task)
  /\ job' = [job EXCEPT !.stored = TRUE]
  /\ UNCHANGED <<offer, now>>

SetCompleted ==
  /\ job # None /\ job.stored
  /\ row' = [row EXCEPT ![job.task] = "completed"]
  /\ job' = None
  /\ UNCHANGED <<facts, published, member, offer, now>>

Import(f, t) ==
  /\ <<f, t>> \in Imports
  /\ StoreFact(f, t)
  /\ UNCHANGED <<job, offer, now>>

Tick == now < MaxClock /\ now' = now + 1 /\ UNCHANGED <<facts, row, published, member, job, offer>>

CacheNext ==
  \/ \E t \in Task : Query(t) \/ MarkPublished(t) \/ Start(t)
  \/ \E t \in Task, ends \in BOOLEAN : ImportTask(t, ends)
  \/ ListTasks \/ PushTasks \/ StoreResult \/ SetCompleted
  \/ \E f \in Fact, t \in Task : Import(f, t)
  \/ Tick
-----------------------------------------------------------------------------
FactsTypeOK ==
  /\ DOMAIN facts \subseteq Fact
  /\ \A f \in DOMAIN facts :
       facts[f] \in [task : Task, created : 0 .. MaxClock, accessed : 0 .. MaxClock]
  /\ row \in [Task -> {"absent", "pending", "running", "completed"}]
  /\ published \subseteq Task /\ member \in [Manifest -> Fact \cup {None}]
  /\ job \in {None} \cup [task : Task, stored : BOOLEAN] /\ now \in 0 .. MaxClock
  /\ offer \in {None} \cup [tasks : SUBSET Task, pushed : BOOLEAN]

(* The cache is within its limits whenever a transaction has committed,    *)
(* and symbols are only served for facts that are in it: evicting a fact   *)
(* takes the symbols along, also when another fact had taken its place as  *)
(* the member of the manifest.                                             *)
CacheIsBounded ==
  /\ FactCount <= MaxEntries /\ FactBytes <= MaxBytes
  /\ \A m \in Manifest : member[m] # None =>
       member[m] \in DOMAIN facts /\ ManifestOf[member[m]] = m

(* Nothing that was used is evicted while something used less recently and *)
(* stored earlier stays (ORDER BY accessed_at in store_fact, touched by    *)
(* fact_for_task).                                                         *)
RecentlyUsedStay ==
  [][\A f \in DOMAIN facts \ DOMAIN facts', g \in DOMAIN facts \cap DOMAIN facts' :
       facts[f].accessed <= facts[g].accessed]_cache

(* When a task loses its fact, to its own result or to that of another     *)
(* task or producer, its row does not stay completed: a query would take   *)
(* it for answered ("reschedule evicted cache facts", catalog.cpp:645).    *)
EvictedIsRescheduled ==
  [][\A t \in Task : HasFact(t) /\ ~HasFact(t)' => row'[t] # "completed"]_cache

(* An extraction answers the task it was started for: while the cache has  *)
(* room, the task has a fact once its result is stored.  Not so when two   *)
(* tasks have one result (MCSameResult): the first task keeps the fact.    *)
ExtractionAnswersItsTask ==
  [][\A t \in Task :
       /\ job # None /\ job.task = t /\ ~job.stored
       /\ WithinLimits(DOMAIN facts \cup {ResultOf[t]})
       /\ job' # job
       => HasFact(t)']_cache
=============================================================================
