# repotraverse: TLA+ models, checks and proofs

repotraverse extracts compiler-level facts from the revisions of a C/C++
repository and answers queries about how elements changed.  A command never
waits for an extraction: it writes what is missing into a SQLite catalog and
starts a detached *runner*, which drains the catalog's queue and exits.
Producers on different machines share results through refs of an *analysis*
Git repository.

All paths below are relative to `src/`, the root of the repository.

## 1. The system

| Component | State | Operations | What makes it correct |
|---|---|---|---|
| Work queue and runner lease, `src/catalog.cpp` | tables `work_items`, `work_dependencies`, `runner_lease` | enqueue, schedule, claim, complete, fail, cancel, adopt, heartbeat, release; each one transaction | one runner; no work forgotten; retries bounded; a completed extraction has its result |
| CLI commands, `app/main.cpp` | a pending launch token | query, `catalog-sync`, `connector-sync`, `work-status`, `work-cancel` | a launch is adopted or cleared |
| Runner, `app/main.cpp` `run_runner` | owner hash, current item | adopt, heartbeat thread, synchronize, claim, execute, release | exits when the queue has drained, never twice at once |
| Background worker, `src/worker.cpp` | the task in hand | `run_task`: claim in Git, materialize, extract, publish | its outcome and the row of the task agree |
| Fact cache, `src/catalog.cpp` | tables `facts`, `manifest_cache_membership`, symbols, ... | `store_fact`, lookups, eviction | within its limits; what is evicted is extracted again |
| Git coordination, `src/git_coordination.cpp` | claim, task, result and knowledge refs; their copies in the catalog | `sync`, `acquire`, `heartbeat`, `complete`, publication | one producer per claim, decided by `--force-with-lease` pushes; results outlive claims |
| Revision workspace pool, `src/revision_workspace.cpp` | entries with lease counts, byte account | `acquire`, `release`, eviction | no leased workspace is removed; limits hold |
| Connectors, `src/connectors.cpp` | cursor in `connector_status` | `sync` of pull requests and issues | no update is skipped |
| Query service, `src/query.cpp` | bounded plan cache with pins | `execute` | a plan in use stays; plans and facts share one limit; statistics count what was observed |
| Processes, `src/process.cpp` | child, deadline, output | `run_process` | the reported outcome is the real one |
| Telemetry, `src/telemetry.cpp`, `src/outbound_http.cpp` | counters, bounded log buffer | `increment`, `log`, export thread | bounded, never blocks |
| History plan, `src/history_plan.cpp` | a plan file | `write_history_plan` | units partition the commits, with their net changes |
| File history, `src/file_history.cpp` | plan file; rows of the queue and their links to requests | `plan_file_history` | follows the file; a complete answer has all its results |
| Lineage, change evidence, `src/lineage.cpp`, `src/change_evidence.cpp` | none | `trace_transition`, `summarize_change_evidence` | no guessed matches; every change explained, none invented |
| Progressive analysis, experiment, build import | files | sequential drivers | budgets, resumption |
| Data model, configuration, encoding, extractor, probe | none | parsing, hashing, Clang front ends | conversions |

How they interact.  A command writes items into the queue and, in the same
transaction, a *launching* lease with an adoption token; it then spawns a
runner with that token.  The runner turns the lease into an *active* one that
names its owner hash, beats every 5 s from a second thread, and loops: claim an
item, execute it, complete or fail it.  With nothing to claim it synchronizes
with the analysis Git (which may import tasks and results into the same queue)
and releases the lease, if in the releasing transaction no work is due.  An
extraction additionally takes a claim in the analysis Git, whose answer decides
which state the worker gives the row.

What is hard: commands and runners are separate processes that share only the
catalog, so their transactions interleave at will; runners die, stall and are
superseded; the same row is written by the worker, by the loop, by a command
and by imports; retries, cancellations and evictions put rows back; the exit of
the runner races with every enqueue.  `PROJECT.json` lists these hazards line
by line with the properties that watch them.

## 2. The modules

| Module | What it is |
|---|---|
| `CatalogQueue` | the tables, one operator per method of `Catalog` that touches the queue or the lease |
| `RunnerQueue` | the processes: commands, runners, the worker; one action per transaction with the control flow around it |
| `SerialExecution` | the promise: one runner at a time, one item at a time |
| `RunnerQueueProperties` | invariants, action properties, liveness, the refinement |
| `RunnerQueueProofs` | theorems about `RunnerQueue` |
| `MCRunnerQueue` | the instances of `RunnerQueue` for TLC |
| `GitClaims` | the claim and the result of one task, shared by producers through Git |
| `TaskLease` | the promise: one producer leases the task, extracts it and completes it with its own result |
| `GitClaimsProperties` | invariants, action properties, liveness of `GitClaims`, the refinement |
| `GitClaimsProofs` | theorems about `GitClaims` |
| `MCGitClaims` | the instances of `GitClaims` for TLC |
| `FactCache` | `store_fact` with its limits and evictions, and what they do to the queue |
| `PlanCache` | the cached plans of queries, over `FactCache`, with whose facts they share the limits |
| `WorkspacePool` | leases, eviction and byte account of the revision workspaces |
| `Knowledge` | reviews, inference claims and decisions in the refs of several producers |
| `Connector` | paged synchronization of pull requests with a cursor |
| `ChildProcess` | `run_process` against its child, the clock and a cancellation |
| `LeastRecentlyUsed` | the order of use by which caches and pool choose what goes |
| `Services` | these services together, taking turns |
| `MCServices` | the instances of `Services` |
| `CacheProofs` | theorems about `FactCache` and `PlanCache` |
| `ExecutionProofs` | theorems about `WorkspacePool` and `ChildProcess` |
| `KnowledgeProofs` | theorems about `Knowledge` and `Connector` |
| `ServicesProofs` | what is proved of each service holds of all together |
| `HistoryPlan` | commits, pull-request facts and trees to integration units, as operators |
| `FileHistory` | `file.history` commands over a plan, the queue and its links |
| `Lineage` | matching of elements across a transition, as operators |
| `HistoryStats` | statistics of element and file histories over lineage, as operators |
| `ChangeEvidence` | attribution and propagation of changes, as operators |
| `Queries` | the commands of `file.history`, or one of the algorithms answering its cases one after the other |
| `MCQueries` | the cases and the instance of `Queries` |
| `QueryProofs` | theorems about `HistoryPlan`, `FileHistory`, `Lineage`, `HistoryStats`, `ChangeEvidence` and `Queries` |
| `FoldLemmas` | induction over numbers and finite sets, sums, orders of use: what the proofs share |

`RunnerQueue` and `GitClaims` model the two sides of the worker: the first
takes any answer the coordinator can give, the second says which answers the
coordinators of several producers give.

### State

`state`, `owner`, `attempts`, `delay`, `cancel` are columns of `work_items`
(`state[w] = "absent"`: no row), `fifo` the order of `fifo_sequence`, `facts`
the work ids with a row in `facts`, `lease` the row of `runner_lease`.
`proc[r]` is the runner process in slot r (a slot is the owner hash of its
process: `CliSpawn` renames what still carries the old one), `cmd[c]` the
command in slot c; their `pc` says between which two transactions the process
stands.

Time is relative: `lease.age` counts ticks since the heartbeat, `delay[w]`
ticks until `next_attempt_at`.  The code compares these columns only with now,
so relative time loses nothing and needs no bound on a clock.

### Actions and code

Commands: `CliBegin` to `CliGitSync` are the operations of
`repotraverse_main` up to the maintenance item; `CliPendingToken`,
`CliClaimLaunch`, `CliClaimRefused`, `CliSpawn`, `CliSpawnFails`,
`CliClearLaunch` the launch; `CliStatus`, `CliCancel` the two work commands;
`CliAborts` an interrupt or an exception.

Runners: `Adopt`, `Heartbeat`, `StartLoop`, `Claim`, `ClaimFindsNothing`,
`ClaimDies`, `Release`, `ServeDone`, `ServeFails`, `FinishTask` are the lines
of `run_runner`; `ImportTask` and `ImportFact` what `coordinator.sync` writes,
at each of the four places the runner calls it; `RejectForeign` to `ClaimLost`
the paths of `run_task`.  The answer of `acquire` and the update it leads to
are two steps (`AcquireFinds` then `TaskFound`, ...), because the queue may
change in between.  `Crash` ends a process anywhere.

What the model leaves open: which answer the analysis Git gives (any the code
can give), when imports arrive, which facts are evicted.  Left out: `--wait`
and `work_invocations`, publication of pending tasks, a configuration without
an extractor (its extractions fail through `fail_work`), the read-only status
queries.  `Deps` is a parameter, but only tests pass dependencies to
`enqueue_work`, so the instances have none; the proofs hold for any.
`analysis_git_sync` gets a new work id per freshness interval; an instance has
one.  On POSIX `spawn_runner` also succeeds when `execl` fails in the
grandchild: that is `Crash` of a process that has not adopted yet.

### Claims in Git

An action of `GitClaims` is one command on the remote or one catalog
transaction.  A claim is an immutable commit, named by its index in `commits`;
`claimRef` and `resultRef` are what the refs of the remote name, `known`,
`fact` and `imported` the tables `observed_claims`, `facts` and
`imported_commits` of each catalog.  `left` counts the ticks until
`expires_at`; it starts when the process reads the clock, which may be well
before its push arrives.  `Sync` to `PruneResult` are `GitCoordinator::sync`,
`Acquire` to `Claim` (and `Retry`) `acquire`, `Heartbeat` and `Renew`
`heartbeat`, `Finish` to `Close` `complete`; `ObserveOwn` is the last
transaction of `publish`.  Several processes may share a catalog (`Home`) and
then overwrite each other's `known`, which the theorems cover and the instances
leave out; each has a Git clone of its own, while in
a deployment they share remote-tracking refs, which only makes their copies
more recent.

A push compares the ref with the commit it expects (`CanPush`); a push that
expects none creates the ref.  It may also fail although the remote could
accept it, or succeed without the process hearing of it.  The tasks, their
publication and the validation of records are left out.

### Caches

A fact is named by its `fact_id`, the hash of its result, so that two tasks
with one result have one fact.  `StoreFact` is the whole transaction: the
insert that ignores an existing id, the eviction of the oldest (`OldestFirst`,
`Batch` at a time, the new fact included), what becomes of the rows of those
that went (`RowsAfter`) and of the members of manifests (`MembersAfter`).  It
is called by the runner (`StoreResult`, then `SetCompleted` as a second
transaction) and by imports.  Between two items the runner also publishes what
is not completed (`ListTasks`, `PushTasks`, `MarkPublished`); `ImportTask` is
the other end of that, from another producer.  `now` is in the seconds of `accessed_at`; facts
of one second are ordered by id.

`PlanCache` is the process that answers queries: a `Hit` touches a plan, a
`Write` stores one, and both let go of the mutex before the plan is evicted
against (`Evict`) and pinned (`Pin`).  `plans` is the set of plan files and
`written` the order of their modification times, as a set of pairs
(`LeastRecentlyUsed`); the loops that evict one after the other are `Fewest` of
the sets they may have removed when they stop.

### Workspace pool

An action of `WorkspacePool` is one method under the pool's lock.
`AcquireNew` and `AcquireShared` say what `acquire` does when every git command
succeeds, `AcquireFails` and `ExpandFails` what is left behind when one fails,
`RefuseNew` and `RefuseMore` that eviction comes before refusal.  `disk` is
what a directory contains and `stuck` which ones git cannot remove: an entry
can go while its directory stays.  `Outside` is the rest of the machine.

### Knowledge

`remote` holds, per ref, the records its commits add; a clone has a prefix of
each (`tracking`).  A publication is `ProposeClaim`, `DecideClaim` or
`ReviewLineage`, which say what is to be published, then `CommitRecord` on top
of the tracking ref, `Push` (refused when the remote's ref has moved: the
publication throws) and `Store` in the catalog.  `Sync` is
`fetch` and the imports of all refs, the authoritative one last.

### Connector

The provider's clock counts changes, `PerSecond` of them in a second; `cursor`
is a second.  A synchronization reads pages from the newest on, each request
seeing the list as it then is, stores what it finds and ends with the largest
second it saw; `FailSync` stores a status without a cursor, `DropSync` is the
process that ends without storing one.

### Child process

Parent and child interleave: the child opens two files and writes, the parent
polls, looks at the sizes of the two files one after the other, decides, kills
and reaps, and after that reads clock and cancellation again for the outcome.
`Verdicts` is what `run_task` makes of it.

### Queries

`HistoryPlan`, `Lineage`, `HistoryStats` and `ChangeEvidence` are pure:
operators from the data of the query to its answer, and beside them what the
answer must say, in terms of the inputs alone (the trees of the repository,
reachability in the dependency graph, chains of joined facts).  Elements are
small records of an id and fingerprints, paths and contents are members of
small sets, and Git's rename detection is an input.  Loops that carry a state
(the grouping of commits, the walk along a path, the successors taken so far,
the union of histories, the facts emitted so far) are recursive functions over
the positions of the list they run through.  The search for dependents, a queue
in the code, is one over depths: a queue holds the pairs of one depth after
those of the one before (`Search`).  `Cases` are the inputs of each algorithm; a bundle has its
elements once each, as a manifest guarantees (the older form of a bundle,
`query.cpp:262`, is not checked for that), and statistics are of two bundles at
least (`query.cpp:860-863`).

`FileHistory` has the state: the plan file that all commands on one repository
and ref share, per command what it has read so far, and the rows and links that
extractions change meanwhile.  `RemovePlan` to `DeletePlan` are the plan file,
`Schedule` the endpoints, their contexts and tasks, `CountPending`, `ListOpen`
and `Aggregate` the three reads of the queue that make the answer.

## 3. What is checked

The instances are in `MCRunnerQueue` and the `.cfg` files: one or two
extractions (`x`, `y`), a connector item `k` that needs a credential, the
maintenance item `g`; one or two runner slots and commands.  All set
`LeaseTimeout = 1` (fresh at 0 and 1, stale at 2), `BackoffCap = 1` (a retry is
or is not due) and `MaxAttempts = 2` (one retry, then failure; 1 in
`RunnerQueueStall`), the smallest values that tell the cases of the code apart.  `MaxCommands` and `MaxFaults`
bound started commands and faults; tokens are fresh, which bounds concurrent
launches.  Token and runner permutations are symmetries of the safety runs.
Time never stops (`Tick`), so there is no deadlock to allow and every run of it
checks for one.

| Run | Shows |
|---|---|
| `RunnerQueueSafe` | types, one runner, its lease, completed items have facts, bounded retries, final states stay, no lost wakeup, a release leaves nothing runnable, refinement of `SerialExecution`; two commands against two runners, a crash, credentials, timely heartbeats |
| `RunnerQueueStall` | fencing of synchronization items with runners that stall arbitrarily and are superseded |
| `RunnerQueueLive` | pending work starts; the runner exits |

*Timely heartbeats* (`TimelyHeartbeats`): a live runner does not go 30 s
without a heartbeat.  The thread beats every 5 s whatever the main thread does,
so this fails only when the machine is suspended or starved; the runs and
theorems that do not assume it are marked so.

`GitClaims` runs with two producers, each with a worker.  Lease, grace,
retention and heartbeat interval are one or two ticks: expired, in grace and in
force are then one tick apart.  `Prompt` says that a worker beats, pushes and
completes within a heartbeat interval, without which nobody can promise that
only one extracts.  `MaxCommits` and `MaxBeats` bound the commits so that every
producer can still claim and complete after the last heartbeat.

| Run | Shows |
|---|---|
| `GitClaimsSafe` | prompt workers, one machine may be lost: who extracts has its claim at the remote, so that one does at a time (`OneProducerExtracts` follows); who is told that the task is completed has the fact; every surviving producer gets it; refinement of `TaskLease` |
| `GitClaimsFaults` | restart, unreachable remote, unheard push, failed extraction, eviction, no promptness: takeovers wait for expiry and grace, completed claims stay and have the result of their own producer |

Its fairness: processes go on, time passes, an extraction ends, a queued task
is tried again and every runner synchronizes now and then (strong, since both
start from the same idle process).

Fairness (`FairSpec`) of `RunnerQueue`: the threads of a live process run, a
started command goes on, time passes (weak fairness).  Strong fairness of
`AcquireFinds`, `AcquireGrants` and `PublishResult` says that a claim of
another producer, an unreachable remote or a lost claim does not answer every
attempt for ever: claims expire and are then taken over.  `ImportsEnd` says
other producers publish finitely many results; each result commit is imported
once (`imported_commits`).

The models of `Services` share no state and neither do those of `Queries`.  Their
interleavings show nothing new (`EachService` in section 4 proves it of
`Services`), so that a behaviour of a run takes one of them (`Focus`, `focus`;
`MCSpec` is `Spec` cut down to that).  The next-state
relations stop where their bounds do (`CHECK_DEADLOCK FALSE` in `Services`);
they have no fairness and no liveness property.  The queries that share plans
are interchangeable (`MCSymmetry`).

| Run | Shows |
|---|---|
| `Services`, caches | the limits hold after every transaction and no symbols outlive their fact; eviction takes the least recently used; what loses its fact is extracted again; plans in use stay, and plans make room for facts |
| `Services`, pool | whoever has a lease finds its files; lease counts and byte account are right after every failed step; the pool leaves the reserve free |
| `Services`, knowledge | what a catalog holds is in Git, from producers it trusts, whatever push was refused or interrupted; a decision is not dropped for coming before its claim |
| `Services`, connector | what changed before the second of the cursor is in the catalog, although pages shift, synchronizations overlap and requests fail |
| `Services`, process | a result is used only of a child that succeeded and wrote all of it; a failure is reported only of one that failed by itself |
| `Queries`, plan | units partition the commits, with the pull requests of the facts and net changes; endpoints follow a file through renames and deletions |
| `Queries`, lineage and statistics | no element has two predecessors or an unreviewed successor of another id; histories are the chains of facts in any order, rates count observed transitions only |
| `Queries`, evidence | every change has its fact, exposure follows references from a change, cycles included |
| `Queries`, file.history | two commands, extractions that end, fail or are evicted at any time: complete transitions have all results |

Bounds.  Caches: three facts, two of one manifest and one that another producer
publishes, room for two by number and one to three by size, two seconds, one
query per reader and plans of two sizes: each limit is hit by each kind.  Pool:
three revisions of two files for two places, two clients, one restart or
failing command and one unit of foreign bytes: both limits and the reserve can
be the one that evicts.  Knowledge: two catalogs, of which one trusts only itself, a claim, a
relation, two commits on the common ref, so that a push is refused and an
import meets an untrusted record.  Connector: two pull requests, pages of one,
two changes per second, three changes, one failure, two processes: one page
shifts under the other.  Queries: all trees of two files over three commits
(every rename, swap, deletion and re-creation), all lists of up to three
pull-request lines on a few of them; two elements before and after with three
ids and two shapes, two assertions; three bundles; three elements with five
dependency graphs in two variants.  Two of everything that interacts is what
the properties relate; a third adds cases of the same kind.

### Where the code and its documents disagree

Five runs expect a violation; each is a finding in `PROJECT.json`.

| Run | What happens |
|---|---|
| `RecoveryLeavesRunning` | an enqueue that finds a stale lease replaces it and leaves the row of the dead runner `running`; `one_running_work` then blocks every claim |
| `CancelIgnored` | failure of a running extraction overtakes its cancellation, and the row is never selected again |
| `ResultsStay` | a worker that dies between its result and the end of its claim leaves a result ref for ever |
| `UnlinkedResults` | a task that an earlier request had extracted is not linked to a later one, whose transitions stay pending |
| `CatalogsDisagree` | two producers review a relation differently and each ends with the other's verdict |

The same models reach more states worth knowing.  Queue and claims, with the
constants named here:

- the runner exits while a retry is not yet due, and nothing but a later command
  starts it (`release_runner_if_empty` counts due rows only);
- repeating a query does not retry a failed or cancelled extraction, and a task
  of another extractor is handed back and claimed again without end;
- with `TimelyHeartbeats = FALSE`, a superseded runner rewrites its successor's
  row, which then completes without a result, so `CompletedHasFact` fails; and a
  runner whose lease was removed never gets a true answer from
  `release_runner_if_empty` and loops, so `RunnerExits` fails;
- with `"crash"` in the `FaultKinds` of `GitClaimsSafe`, a restarted worker
  resumes under its old claim without renewing it and loses it during the
  extraction, so `ExtractionHasClaim` fails;
- with `Evicts = TRUE`, an evicted fact is rescheduled, found completed, and not
  brought back until the claim is pruned, so `FoundHasFact` fails;
- `release_runner_if_empty` counts due rows that are `pending` or `retry_wait`
  (`catalog.cpp:2067-2078`), so an item that waits for a credential, or whose
  retry becomes due after the runner's last look, is left although this runner
  has the credential (`docs/operations.md:13`, `README.md:238`);
- `acquire` resumes under an own claim that is in force without renewing it
  (`git_coordination.cpp:882-889`), and the first heartbeat comes an interval
  later (`worker.cpp:139-150`).  With three producers and no fault at all a
  publication refused by a left-over result leads there, and then both
  `OneProducerExtracts` and `ExtractionHasClaim` can fail; the theorems name what
  excludes it (`ResumeInTime`);
- with `"abort"` or `"spawn"` in the `FaultKinds` of `RunnerQueueSafe`, a
  command that ends between its enqueue and its launch, or whose runner cannot
  be spawned, leaves its work to the next command, so `NoLostWakeup` fails.

Caches, pool, knowledge, connector and process:

- with `ResultOf <- MCSameResult`, `ExtractionAnswersItsTask` fails: two tasks
  with one result share a fact, `INSERT OR IGNORE` (`catalog.cpp:432`) keeps the
  first task's id, and the second task's row is put back as if evicted
  (639-645).  `RunnerQueue` assumes results that differ;
- a result larger than what is left evicts itself, and `set_task_state` then
  leaves a completed row without a fact; `store_fact` counts facts only, not
  the plans that share its limits;
- evicting the later of two facts of one manifest loses its symbols although
  the earlier fact stays;
- a plan that was found or written can be evicted by another thread before it
  is pinned (`query.cpp:157`, `:176`), and another process does not see pins;
- two pools on one scratch root clean up each other's workspaces; a directory
  that git fails to remove is never tried again; a request that is refused has
  evicted every idle workspace first, and one for a workspace that is already
  there is refused as well when the disk is low;
- with `DecideUnseen = TRUE`, `DecisionsReachCatalogs` fails:
  `publish_knowledge_decision` pushes before it looks whether the catalog has
  the claim, and importers that have not either mark the commit imported;
- where trust is not transitive (a trusts b, b trusts c, a does not trust c), a
  imports b's decision on a claim of c before it can have the claim, and drops
  the decision for good; with `TrustIsTransitive` it cannot happen;
- a decision that repeats an earlier one (accept, reject, accept) makes a commit
  with an unchanged tree, which other clones never import as a change; a
  decision stored late by another process of the catalog overrides a newer one;
  records refused as untrusted or too large are not tried again when trust
  changes; a local candidate overwrites an accepted review;
- an update in the second of a stored cursor, made after its page was read, is
  never fetched (`connectors.cpp:190-192`); a deleted pull request shifts the
  pages and one is skipped, until a full synchronization;
- `KilledForReason` fails: while the child has not opened its output,
  `file_size` of it is -1 as an unsigned number and its error is cleared by the
  second call (`process.cpp:398-402`), so that a healthy child can be killed for
  too much output.

Queries:

- `HistoryIsWhole` fails: the path of a plan file depends on repository and ref
  only (`file_history.cpp:424-429`), a command that finds it removed by another
  reads no units and answers "complete";
- two `file.history` commands with different requests share the rows of their
  tasks: a task that failed under one is not linked to the other, and a row keeps
  the path of its first request; a transition of the other can then be called
  complete without it (`OneRequest` in section 4 excludes it);
- a fact evicted between the reads of open tasks (192) and of results (203) is
  in neither, and its transition is reported complete without it;
- `InducedUnderSameContext` fails: propagation (`change_evidence.cpp:269-271`)
  lacks the `!context_changed` of 245, against `README.md:356-357`;
- `AcceptedAssertionsForceEdges` fails for a target that an earlier element took
  (`lineage.cpp:127-134`), against `docs/lineage-architecture.md:77-78`;
- two pull-request lines with one id make a commit ambiguous; a plan that starts
  inside a pull request splits it; a unit that renames the tracked path away
  and gives its name to another file says that the file exists after it;
- a lineage candidate may propose a target that a later element takes by id;
  of the variants of a unit only the first reports a fact.

The safety runs hold in spite of these because they assume what each finding
breaks (timely heartbeats, for instance), or state what remains true.

## 4. What is proved

Eight modules of theorems, checked by TLAPS.  They hold for every value of the
constants that satisfies the assumptions of the modules (`QueueAssumption` to
`CasesAssumption`; TLC evaluates them in every run), and under the hypotheses
named below, each of which either the code does not guarantee by itself or a
run turns off to show what then happens.

### Queue and runners (`RunnerQueueProofs`)

| Theorem | Statement | Hypotheses |
|---|---|---|
| `TypeCorrect` | `Spec => []TypeOK` | |
| `LeaseHeld` | `Spec => []LiveRunnerHoldsLease` | timely heartbeats |
| `OneRunner` | `Spec => []AtMostOneRunner` | timely heartbeats |
| `ImplementsSerial` | `Spec => SerialSpec` | timely heartbeats |
| `SyncWorkFenced` | `Spec => SyncWorkIsFenced` | |
| `CompletedExtractionsHaveFacts` | `Spec => []CompletedHasFact` | timely heartbeats, no eviction |
| `AttemptsEnd` | `Spec => []RetriesAreBounded` | timely heartbeats, no eviction |
| `FinalStatesStay` | `Spec => FinalStays` | timely heartbeats, no eviction |
| `NoWakeupIsLost` | `Spec => []NoLostWakeup` | timely heartbeats, crashes the only faults |
| `LeavingMissesNothing` | `Spec => ReleaseLeavesNothingReady` | |

`LiveRunnerHoldsLease` is inductive over `TypeOK`: every operation that replaces
or deletes the lease requires it to be stale, to be launching, or to be the
caller's own, and `Tick` does not let the lease of a live runner become stale.
Two live runners would hold the same lease, whose owner is one of them:
`AtMostOneRunner` follows state by state.  The refinement needs in addition that
a runner has an item exactly while it executes one (`JobsMatch`).  Fencing needs
`JobKinds`: only extractions run through the worker, whose updates name the work
id alone; every other item is ended by `complete_work` and `fail_work`, whose
updates name the owner.

The worker's updates are safe for another reason: nobody else takes the row of
the one live runner.  `QueueInv` adds to the above, per runner, how far its row
may have gone while it works (`JobInv`: running or already completed by an
import, attempts not yet used up, the fact there before the row is completed)
and, per row, what its state implies (`RowInv`).

`WakeupInv` is the invariant behind `NoWakeupIsLost`.  Rows that nobody has
claimed have no retry delay (`DelayInv`), so time alone makes none of them
runnable; while one is runnable there is a lease, or a command that is on its
way to claim a launch (`WakeInv`).  `LeavingMissesNothing` is about the release
itself: the loop of `claim_next_work` passes over rows only as one that needs a
credential, and only such rows are marked so (`WaitInv`); what it then does not
find is not there, since a row has one place in the queue (`FifoInv`).  It
needs no hypothesis: the releasing transaction counts what is due.

### Claims in Git (`GitClaimsProofs`)

| Theorem | Statement | Hypotheses |
|---|---|---|
| `ClaimsTypeCorrect` | `Spec => []TypeOK` | |
| `OrderlyTakeover` | `Spec => ClaimsChangeHandsWhenExpired` | |
| `CompletedClaimsAreBacked` | `Spec => []CompletedHasResult` | |
| `CompletionsStay` | `Spec => CompletedClaimStays` | `OnePerCatalog` |
| `FoundTasksHaveFacts` | `Spec => FoundHasFact` | `OnePerCatalog`, no eviction |
| `ExtractionsAreClaimed` | `Spec /\ [][ResumeInTime]_vars => []ExtractionHasClaim` | `BeatingWorkers` |
| `OneProducerAtATime` | `Spec /\ [][ResumeInTime]_vars => []OneProducerExtracts` | `BeatingWorkers` |
| `ImplementsTaskLease` | `Spec /\ [][ResumeInTime]_vars => LeaseSpec` | `BeatingWorkers` |

A process decides on a copy of the claim that may be stale when it pushes.
`Founded` says what remains true of its decision: the commit it expects has
expired, because expired commits stay expired (`CommitsKept`), or is its own.
The compare-and-swap turns that into a fact about the ref.  A result ref is
deleted without a comparison; `Backed` says why this is safe: only one process
at a time is between the removal of a claim and of its result, and as long as
it is, the old result refuses every new one, so that no claim is completed.
That the result is the one of the producer that completed the claim, not that of
one which was overtaken, is `Attributed`.

A completed claim could go back to processing by a heartbeat of its own
producer.  It does not while each catalog has one extracting process
(`OnePerCatalog`): a worker that saw its own completed claim found its task done,
and no worker of another producer writes a claim in its name (`Fresh`).  A found
task has its fact because a completed claim names the producer of the result
beside it (`Attributed`), so that a catalog which accepts the claim accepts the
result; claim and result are fetched at one moment and the result is imported
before the claim is looked at (`Learnt`).

`Claimed` is what keeps an extraction under its claim: from its last renewal on,
the claim has left what the worker may still wait.  The hypotheses say which
world that is.  `BeatingWorkers`: workers are prompt, heartbeats reach the
remote, two heartbeat intervals fit into lease and grace (always so in the code,
where the interval is at most a third of the lease,
`git_coordination.cpp:86-88`), one extracting process per catalog.
`ResumeInTime`: an own claim that `acquire` resumes without renewing has two
intervals left; section 3 says what happens otherwise.

`ImplementsTaskLease` puts these together.  The holder of the abstract lease is
the producer that the claim ref names (`Holder`, of whom there is none without a
claim), `Extractors` the producers with a process that extracts, `Published` the
producer of the result.  A move of the claim ref is a grant to another producer,
a renewal (a grant to the same one), a completion or the end of a completed
claim.  Each is allowed by the lease for a reason of its own: a takeover comes
after lease and grace, when `Claimed` leaves nobody extracting; a completion is
by the holder, whose result is there; a completed claim is removed before its
result is.  The begin of an extraction is a grant or, when a worker finds its own
claim still in force, `Resume`.  Renewals and what processes do to their copies
are stutters.  With this one theorem the abstract lease is all that a reader has
to know of refs, copies and pushes to argue about a task.

### Caches, pool, child process (`CacheProofs`, `ExecutionProofs`)

| Theorem | Statement |
|---|---|
| `CachesTypeCorrect` | `CachesSpec => []CachesTypeOK` |
| `CacheStaysBounded` | `CachesSpec => []CacheIsBounded` |
| `OldestAreEvicted` | `CachesSpec => RecentlyUsedStay` |
| `LostFactsAreRescheduled` | `CachesSpec => EvictedIsRescheduled` |
| `PinsProtect` | `CachesSpec => PinnedPlansStay` |
| `PlansMakeRoom` | `CachesSpec => PlansYieldToFacts` |
| `PoolTypeCorrect` | `PoolSpec => []PoolTypeOK` |
| `LeasesKeepTheirFiles` | `PoolSpec => []LeasedFilesAreThere` |
| `BooksAreRight` | `PoolSpec => []AccountIsRight` |
| `TheReserveIsKept` | `PoolSpec => ReserveStaysFree` |
| `ProcessTypeCorrect` | `ProcessSpec => []ProcessTypeOK` |
| `GenuineOutcome` | `ProcessSpec => []OutcomeIsGenuine` |

No hypotheses: any limits, sizes, batches, numbers of facts, plans, workspaces,
clients, and any failure of a git command.  `FactsInv` is that the limits hold;
an eviction ends within them because the empty cache is.  That it took the
oldest needs that what a batch removes is closed under "used earlier", which
`OrdersUse` keeps an order.  `PoolInv` says that each lease object is counted
once (`OneLeaseEach`, `LeasesAreCounted`), that an entry describes what its
directory contains also after a step that failed half-way
(`EntriesDescribeDisk`), and that the account is the sum of the entries; a
directory whose entry is gone is outside the books.  A step that frees a
workspace frees no leased file since it removes only entries without leases.
`ProcessInv` follows the turns of the parent: it kills in its last turn only and
for a reason that it remembers (`LastTurn`), and the status it concludes with is
the child's own or that of a cancelled one (`StatusIsExplained`); a child that
ended with 0 has written everything (`EndedChild`).

### Knowledge and connectors (`KnowledgeProofs`)

| Theorem | Statement | Hypotheses |
|---|---|---|
| `KnowledgeTypeCorrect` | `KnowledgeSpec => []KnowledgeTypeOK` | |
| `HeldKnowledgeIsPublished` | `KnowledgeSpec => []KnowledgeIsPublished` | |
| `DecisionsArrive` | `KnowledgeSpec => []DecisionsReachCatalogs` | `~DecideUnseen`, `TrustIsTransitive` |
| `CurrentCatalogsEqualGit` | `KnowledgeSpec => []CurrentCatalogsMirrorGit` | `~DecideUnseen`, `TrustIsTransitive` |
| `ConnectorTypeCorrect` | `ConnectorSpec => []ConnectorTypeOK` | |
| `NoUpdateIsSkipped` | `ConnectorSpec => []CursorCovers` | |

What a publisher is about to store is on its ref already (`AllOwnWork`), and a
claim a catalog holds was published by one whom it trusts (`AllPublished`).  A
decision is about a claim that its producer holds (`AllGrounded`), hence
published before it; who imports the decision imports the claim with it or
before (`AllImportsHeld`), if trust passes on.  The converse, that a catalog has
no decision which is not there of a producer it trusts, needs that what it stores
of its own is the very record it pushed (`AllOwnPushed`, `AllDecidedInGit`).
`CurrentCatalogsEqualGit` joins the two for a catalog that has imported all: it
equals Git, and what happened to publications and imports before leaves no trace
in its claims and decisions.  Of reviews this is not true (`CatalogsDisagree`),
nor of the *latest* decision of a claim (section 3).

`ConnectorInv` generalizes the statement about the cursor to every cursor a
synchronization might store: `SyncCovers` says of each running one that a pull
request whose last change lies before the newest second seen is fetched, or is
still awaited (on the page in hand, or not before the place where the next page
begins).  A change shifts the pages while they are read, but only towards their
end (`Before` never decreases for a pull request that does not change itself),
and what changes now does so at a second that the cursor to be has not passed.

### The services together (`ServicesProofs`)

| Theorem | Statement |
|---|---|
| `EachService` | `Spec => CachesSpec /\ PoolSpec /\ KnowledgeSpec /\ ConnectorSpec /\ ProcessSpec` |
| `ServicesTypeCorrect` | `Spec => []TypeOK` |

A step of one service leaves the variables of the others alone, so that it is a
stutter of theirs, and the theorems above hold of the program that runs them all.

### Queries (`QueryProofs`)

| Theorem | Statement | Hypotheses |
|---|---|---|
| `PlanFaithful`, `PlansAlwaysFaithful` | the units of every history from every start satisfy `PlanIsFaithful`; `Spec => []PlansAreFaithful` | |
| `WalkFollowsContent`, `HistoriesAlwaysFollow` | the walk along any path satisfies `EndpointsExist`; `Spec => []HistoriesFollowTheFile` | |
| `LineageConserved`, `LineagesAlwaysConservative` | any two bundles and any assertions give a conservative transition; `Spec => []LineagesAreConservative` | |
| `EvidenceSound`, `EvidencesAlwaysSound` | any two revisions, any touched paths and limits give evidence that satisfies `EvidenceIsSound`; `Spec => []EvidencesAreSound` | |
| `StatisticsCount`, `StatisticsAlwaysCounted` | any sequence of bundles is counted right; `Spec => []StatisticsAreCounted` | |
| `QueryTypeCorrect` | `Spec => []TypeOK` | |
| `CompleteMeansWhole` | `Spec => CompleteTransitionsAreWhole` | `OneRequest` |

The five algorithms are proved for inputs of every length, each along the same
line: the recursive function has a solution (`SuccessorsAre`, `PathsAre`,
`GroupsAre`), an invariant of its positions says what has been done up to
there, and the statement is the invariant at the last position.  For a plan that
is: the units so far divide the commits so far, in order, and a unit of a pull
request is the run of its commits (`UnitsDivide`).  For a walk: the path followed
names the content the file had (`StepFollows`).  For lineage: the targets taken so
far are distinct, and each has its id, its assertion or its unique fingerprint.
For statistics: the roots are the components of the pairs united so far
(`Components`), where `LinkedBy` says "linked" without chains: no set closed
under the pairs separates them.  That every change of an element shows in a file
of its history needs that the root of a fact is the root of both its ends.
For evidence there are two invariants.  Of the search (`LevelsAreWays`): what is
visited at a depth is what lies within that many references of its root
(`Within`), so that the pairs of a level are those whose shortest way has this
length, whatever the cycles.  Of the emission (`Accounts`): as long as nothing
was capped each mark has a fact, so that a fact dropped as a duplicate has
another of its element, origin and unit.

`CompleteMeansWhole` is the one with interleaving.  `RowsFollow` says that a row
has the path that the file had at its revision and is linked to the request, and
`AllScheduled` that from its scheduling on a command's tasks are all there.  A
row never goes again, so that an expected task which is not among the open ones
was done when they were listed, and is done still unless its fact was evicted.  `OneRequest` is that the commands ask for the same path and start.

### Lemmas

`FoldLemmas` states induction in a form that the provers can instantiate: over
numbers and finite sets, with a set in the place of the predicate
(`LeastNumber`, `NumberInduction`, `SubsetInduction`).  With it the folds of the
community modules, which are a CHOOSE of a recursive function, are unfolded once
(`SumsExist`, `SumIsSolution`), and sums, orders of use and least sets follow.  Recursive
functions are unfolded the same way; operators that are declared RECURSIVE
cannot be.

### Only model-checked

- The liveness properties `QueuedWorkStarts`, `RunnerExits` and
  `EveryoneGetsTheFact`: fairness and ENABLED are out of the prover's reach.
  Every other property of a passing run is a theorem.
- The properties of section 3 that fail, which are refuted by TLC.

## 5. What is left

1. The rows with eviction.  With `Evicts = TRUE` TLC refutes `CompletedHasFact`,
   `RetriesAreBounded` and `FinalStays` in `RunnerQueueSafe`: a result that is
   evicted by the transaction that stores it makes a failed or cancelled row
   pending, its attempts used up or not, and a worker told of a result may
   complete its row after that result went.  What then remains of the three is a
   statement about `FactCache` and the queue together.
2. `--wait` and `work_invocations`; the publication of pending tasks by
   `RunnerQueue` (`FactCache` has it).
3. `latest` and reviews: what a catalog answers when imports and its own
   decisions are ordered as in Git.

### Not modelled

- Telemetry: best effort by design.  A full buffer drops the oldest record, a
  failed post loses its records, the destructor does not flush; nothing else
  depends on it.  Outbound HTTP is I/O.
- Progressive analysis, experiment, build import: sequential drivers around
  compiler and git processes; no state of theirs is shared.
- Publication of receipts, pull requests and external facts, Jira-only synchronization, commit
  pages of a pull request: they repeat the protocol of what is modelled.
- Page selection, read-only status queries, readers of patches.
- Parsing, formatting and encoding (no state), the Clang front ends (the
  compiler decides what they do), vendored code.
