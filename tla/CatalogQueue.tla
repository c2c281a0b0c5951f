---------------------------- MODULE CatalogQueue ----------------------------
(***************************************************************************)
(* The work queue and the runner lease of one catalog: the tables          *)
(* work_items, work_dependencies, facts (membership only) and runner_lease *)
(* of src/src/catalog.cpp, with one operator per method.  Every method is  *)
(* one SQLite transaction (BEGIN IMMEDIATE) or one UPDATE, hence one       *)
(* atomic step; the processes that call them are in RunnerQueue.           *)
(*                                                                         *)
(* Time is relative: lease.age counts the ticks since heartbeat_at and     *)
(* delay[w] the ticks left until next_attempt_at.  The code only compares  *)
(* these columns with now, now-30 and now+backoff, so nothing is lost and  *)
(* the clock needs no bound.                                               *)
(***************************************************************************)
EXTENDS Naturals, Sequences

CONSTANTS
  Work,         \* work ids
  Kind,         \* Kind[w]: "extraction", "connector_sync", "analysis_git_sync"
  Maintenance,  \* the work enqueued with maintenance = 1
  Credential,   \* Credential[w]: the credential reference of w, or None
  Deps,         \* Deps[w]: the dependencies enqueue_work is given for w
  Owner,        \* owner identities of runner processes
  Token,        \* adoption tokens
  Identity,     \* executable and configuration identities
  LeaseTimeout, \* ticks after which a heartbeat is stale (30 s in the code)
  BackoffCap,   \* the longest retry delay in ticks (300 s in the code)
  MaxAttempts,  \* max_task_attempts
  None          \* the empty string in the owner, token, ... columns

ASSUME QueueAssumption ==
  /\ Kind \in [Work -> {"extraction", "connector_sync", "analysis_git_sync"}]
  /\ Maintenance \subseteq Work
  /\ Deps \in [Work -> SUBSET Work]
  /\ LeaseTimeout \in Nat \ {0}
  /\ BackoffCap \in Nat \ {0}
  /\ MaxAttempts \in Nat \ {0}
  /\ None \notin Owner \cup Token \cup Identity \cup Work

VARIABLES
  state,     \* state[w]: work_items.state, or "absent" when there is no row
  owner,     \* owner[w]: work_items.owner
  attempts,  \* attempts[w]: attempt_count, saturating at MaxAttempts
  delay,     \* delay[w]: ticks until next_attempt_at
  cancel,    \* cancel[w]: cancellation_requested
  fifo,      \* the rows in the order of fifo_sequence
  facts,     \* the work ids that have a row in the facts table
  lease      \* the singleton row of runner_lease, or NoLease

queueVars == <<state, owner, attempts, delay, cancel, fifo, facts, lease>>

Waiting == {"pending", "retry_wait", "waiting_for_credential"}
Settled == {"completed", "failed", "cancelled"}
WorkStates == Waiting \cup Settled \cup {"absent", "running"}

NoLease == [state |-> "none", token |-> None, owner |-> None,
            identity |-> None, age |-> 0]

Launching(t, id) == [state |-> "launching", token |-> t, owner |-> None,
                     identity |-> id, age |-> 0]

Leases == [state : {"none", "launching", "active"},
           token : Token \cup {None},
           owner : Owner \cup {None},
           identity : Identity \cup {None},
           age : 0..(LeaseTimeout + 1)]

QueueTypeOK ==
  /\ state \in [Work -> WorkStates]
  /\ owner \in [Work -> Owner \cup {None}]
  /\ attempts \in [Work -> 0..MaxAttempts]
  /\ delay \in [Work -> 0..BackoffCap]
  /\ cancel \in [Work -> BOOLEAN]
  /\ fifo \in Seq(Work)
  /\ facts \subseteq Work
  /\ lease \in Leases

QueueInit ==
  /\ state = [w \in Work |-> "absent"]
  /\ owner = [w \in Work |-> None]
  /\ attempts = [w \in Work |-> 0]
  /\ delay = [w \in Work |-> 0]
  /\ cancel = [w \in Work |-> FALSE]
  /\ fifo = <<>>
  /\ facts = {}
  /\ lease = NoLease

-----------------------------------------------------------------------------
(* Conditions the SQL of several methods shares.                           *)

AtMost(a, b) == IF a <= b THEN a ELSE b

Doublings == <<1, 2, 4, 8, 16, 32, 64, 128, 256>>

\* Mutated form: without the 300 s limit.
BackoffUncapped(n) == Doublings[AtMost(n, 8) + 1]

\* min(300, 1 << min(attempt_count, 8)), scaled to ticks by BackoffCap.
Backoff(n) == AtMost(BackoffCap, Doublings[AtMost(n, 8) + 1])

\* heartbeat_at < now - 30
Stale == lease.state # "none" /\ lease.age > LeaseTimeout
Fresh == lease.state # "none" /\ lease.age <= LeaseTimeout

Compatible(w, caps) == Credential[w] = None \/ Credential[w] \in caps

\* The rows the queue queries select, when the state column is s.
Runnable(s, w) ==
  /\ s[w] \in Waiting
  /\ delay[w] = 0
  /\ ~cancel[w]
  /\ \A d \in Deps[w] : s[d] = "completed"

\* ORDER BY maintenance, fifo_sequence
EnqueuedBefore(v, w) ==
  \E i, j \in 1..Len(fifo) : i < j /\ fifo[i] = v /\ fifo[j] = w
Precedes(v, w) ==
  \/ v \notin Maintenance /\ w \in Maintenance
  \/ (v \in Maintenance <=> w \in Maintenance) /\ EnqueuedBefore(v, w)

\* The unique index one_running_work: making w running fails when another
\* row is running.
OtherRunning(w) == \E v \in Work \ {w} : state[v] = "running"

\* Mutated form: INSERT OR REPLACE instead of INSERT OR IGNORE.
LeaseAfterEnqueueReplacing(t, id) == Launching(t, id)

\* The lease after an enqueue that may launch: a stale one is deleted, then
\* a launching one is inserted unless a row is left.
LeaseAfterEnqueue(t, id) ==
  IF lease.state = "none" \/ Stale THEN Launching(t, id) ELSE lease

-----------------------------------------------------------------------------
(* Methods a CLI command calls.                                            *)

\* Mutated form: INSERT OR REPLACE.
InsertRowReplacing(w) ==
  /\ state' = [state EXCEPT ![w] = "pending"]
  /\ fifo' = IF state[w] = "absent" THEN Append(fifo, w) ELSE fifo

\* INSERT OR IGNORE of a pending row; a row that is there stays as it is.
InsertRow(w) ==
  IF state[w] = "absent"
    THEN /\ state' = [state EXCEPT ![w] = "pending"]
         /\ fifo' = Append(fifo, w)
    ELSE UNCHANGED <<state, fifo>>

\* schedule_task by a process whose launch is configured (a CLI command).
ScheduleTask(w, id, t) ==
  /\ InsertRow(w)
  /\ lease' = LeaseAfterEnqueue(t, id)
  /\ UNCHANGED <<owner, attempts, delay, cancel, facts>>

\* schedule_task by a process whose launch is not configured (the runner).
ScheduleTaskQuietly(w) ==
  /\ InsertRow(w)
  /\ UNCHANGED <<owner, attempts, delay, cancel, facts, lease>>

\* The UPDATE of enqueue_work for a row that was already there.
RerunRow(w) ==
  IF state[w] \in {"failed", "cancelled"}
    THEN /\ state' = [state EXCEPT ![w] = "pending"]
         /\ attempts' = [attempts EXCEPT ![w] = 0]
         /\ delay' = [delay EXCEPT ![w] = 0]
         /\ cancel' = [cancel EXCEPT ![w] = FALSE]
    ELSE UNCHANGED <<state, attempts, delay, cancel>>

\* enqueue_work.  A dependency without a row violates the foreign key.
EnqueueWork(w, caps, id, t) ==
  /\ \A d \in Deps[w] : state[d] # "absent"
  /\ \/ /\ state[w] = "absent"
        /\ InsertRow(w)
        /\ UNCHANGED <<attempts, delay, cancel>>
     \/ /\ state[w] # "absent"
        /\ RerunRow(w)
        /\ UNCHANGED fifo
  /\ lease' = IF Compatible(w, caps) THEN LeaseAfterEnqueue(t, id) ELSE lease
  /\ UNCHANGED <<owner, facts>>

\* The recovery claim_runner_launch does first: without a fresh lease, running
\* rows become pending again.
Recovered(w) == state[w] = "running" /\ ~Fresh
RecoveredState == [w \in Work |-> IF Recovered(w) THEN "pending" ELSE state[w]]
RecoveredOwner == [w \in Work |-> IF Recovered(w) THEN None ELSE owner[w]]

CanLaunch(caps) ==
  \E w \in Work : Runnable(RecoveredState, w) /\ Compatible(w, caps)

\* Mutated form: a fresh lease is taken over as well.
ClaimRunnerLaunchStealing(caps, id, t) ==
  /\ CanLaunch(caps)
  /\ state' = RecoveredState
  /\ owner' = RecoveredOwner
  /\ lease' = Launching(t, id)
  /\ UNCHANGED <<attempts, delay, cancel, fifo, facts>>

\* claim_runner_launch that returns a token.
ClaimRunnerLaunch(caps, id, t) ==
  /\ ~Fresh
  /\ CanLaunch(caps)
  /\ state' = RecoveredState
  /\ owner' = RecoveredOwner
  /\ lease' = Launching(t, id)
  /\ UNCHANGED <<attempts, delay, cancel, fifo, facts>>

\* claim_runner_launch that returns nothing: a lease is held, or no work can
\* be run with these credentials and what needs one is marked as waiting.
ClaimRunnerLaunchRefused(caps) ==
  \/ Fresh /\ UNCHANGED queueVars
  \/ /\ ~Fresh
     /\ ~CanLaunch(caps)
     /\ state' = [w \in Work |->
          IF RecoveredState[w] \in {"pending", "retry_wait"} /\ Credential[w] # None
            THEN "waiting_for_credential" ELSE RecoveredState[w]]
     /\ owner' = RecoveredOwner
     /\ lease' = NoLease
     /\ UNCHANGED <<attempts, delay, cancel, fifo, facts>>

\* clear_failed_launch
ClearFailedLaunch(t) ==
  /\ lease' = IF lease.state = "launching" /\ lease.token = t THEN NoLease ELSE lease
  /\ UNCHANGED <<state, owner, attempts, delay, cancel, fifo, facts>>

\* cancel_work
CancelWork(w) ==
  /\ state[w] \notin Settled \cup {"absent"}
  /\ cancel' = [cancel EXCEPT ![w] = TRUE]
  /\ state' = [state EXCEPT ![w] = IF @ = "running" THEN @ ELSE "cancelled"]
  /\ UNCHANGED <<owner, attempts, delay, fifo, facts, lease>>

-----------------------------------------------------------------------------
(* Methods the runner process with owner o calls.                          *)

HoldsLease(o) == lease.state = "active" /\ lease.owner = o

\* Mutated form: only the identity is compared.
CanAdoptByIdentity(t, id) == lease.state # "none" /\ lease.identity = id

\* adopt_runner, when it succeeds.
CanAdopt(t, id) ==
  lease.state = "launching" /\ lease.token = t /\ lease.identity = id
AdoptRunner(o) ==
  /\ lease' = [lease EXCEPT !.state = "active", !.token = None,
                            !.owner = o, !.age = 0]
  /\ UNCHANGED <<state, owner, attempts, delay, cancel, fifo, facts>>

\* heartbeat_runner
HeartbeatRunner(o) ==
  /\ lease' = IF HoldsLease(o) THEN [lease EXCEPT !.age = 0] ELSE lease
  /\ UNCHANGED <<state, owner, attempts, delay, cancel, fifo, facts>>

\* The first statement of claim_next_work: a waiting row with a failed or
\* cancelled dependency fails.
PropagatedState ==
  [w \in Work |->
    IF /\ state[w] \in Waiting
       /\ \E d \in Deps[w] : state[d] \in {"failed", "cancelled"}
      THEN "failed" ELSE state[w]]

RunnableNow == {w \in Work : Runnable(PropagatedState, w)}

\* w is the row claim_next_work selects.
IsNextWork(w, caps) ==
  /\ w \in RunnableNow
  /\ Compatible(w, caps)
  /\ \A v \in RunnableNow \ {w} : Compatible(v, caps) => ~Precedes(v, w)

\* The state column after claim_next_work marked the runnable rows in skipped,
\* which the credentials at hand cannot run.
MarkedState(skipped) ==
  [w \in Work |-> IF w \in skipped THEN "waiting_for_credential"
                  ELSE PropagatedState[w]]

\* claim_next_work that returns w.
ClaimNextWork(o, caps, w) ==
  /\ HoldsLease(o)
  /\ IsNextWork(w, caps)
  /\ ~OtherRunning(w)
  /\ state' = [MarkedState({v \in RunnableNow : Precedes(v, w)})
                 EXCEPT ![w] = "running"]
  /\ owner' = [owner EXCEPT ![w] = o]
  /\ UNCHANGED <<attempts, delay, cancel, fifo, facts, lease>>

\* claim_next_work that returns nothing.
ClaimNothing(o, caps) ==
  /\ \/ ~HoldsLease(o) /\ state' = PropagatedState
     \/ /\ HoldsLease(o)
        /\ ~\E w \in Work : IsNextWork(w, caps)
        /\ state' = MarkedState(RunnableNow)
  /\ UNCHANGED <<owner, attempts, delay, cancel, fifo, facts, lease>>

\* claim_next_work that throws: its UPDATE violates one_running_work and the
\* transaction is rolled back.
ClaimThrows(o, caps) ==
  /\ HoldsLease(o)
  /\ \E w \in Work : IsNextWork(w, caps) /\ OtherRunning(w)
  /\ UNCHANGED queueVars

\* WHERE work_id=? AND state='running' AND owner=?
RunsFor(w, o) == state[w] = "running" /\ owner[w] = o

\* Mutated form: the UPDATE names the work id only.
CompleteWorkUnfenced(w, o) ==
  /\ state' = [state EXCEPT ![w] = IF cancel[w] THEN "cancelled" ELSE "completed"]
  /\ owner' = [owner EXCEPT ![w] = None]
  /\ UNCHANGED <<attempts, delay, cancel, fifo, facts, lease>>

\* complete_work
CompleteWork(w, o) ==
  /\ IF RunsFor(w, o)
       THEN /\ state' = [state EXCEPT ![w] =
                           IF cancel[w] THEN "cancelled" ELSE "completed"]
            /\ owner' = [owner EXCEPT ![w] = None]
       ELSE UNCHANGED <<state, owner>>
  /\ UNCHANGED <<attempts, delay, cancel, fifo, facts, lease>>

\* The columns fail_work and fail_task both set.
CountAttempt(w) ==
  /\ attempts' = [attempts EXCEPT ![w] = AtMost(@ + 1, MaxAttempts)]
  /\ delay' = [delay EXCEPT ![w] = Backoff(attempts[w])]

\* Mutated form: one attempt too many.
StateAfterFailureLate(w) ==
  IF attempts[w] + 1 > MaxAttempts THEN "failed" ELSE "retry_wait"

\* The last attempt fails the row.
StateAfterFailure(w) ==
  IF attempts[w] + 1 >= MaxAttempts THEN "failed" ELSE "retry_wait"

\* fail_work on the caller's own row.
FailWork(w, o) ==
  /\ RunsFor(w, o)
  /\ CountAttempt(w)
  /\ state' = [state EXCEPT ![w] =
                 IF cancel[w] THEN "cancelled" ELSE StateAfterFailure(w)]
  /\ owner' = [owner EXCEPT ![w] = None]
  /\ UNCHANGED <<cancel, fifo, facts, lease>>

\* fail_work that matches no row: it reads a NULL column and throws.
FailWorkThrows(w, o) == ~RunsFor(w, o) /\ UNCHANGED queueVars

\* fail_task: unlike fail_work it looks at nothing but the work id.
FailTask(w) ==
  /\ CountAttempt(w)
  /\ state' = [state EXCEPT ![w] = StateAfterFailure(w)]
  /\ UNCHANGED <<owner, cancel, fifo, facts, lease>>

\* set_task_state, s being the queue state its argument is mapped to.
SetTaskState(w, s) ==
  /\ s = "running" => ~OtherRunning(w)
  /\ state' = [state EXCEPT ![w] = s]
  /\ UNCHANGED <<owner, attempts, delay, cancel, fifo, facts, lease>>

\* store_fact, when the eviction loop removes the facts of evicted: the row of
\* the task completes, then every completed row without a fact is pending.
StoreFact(w, evicted) ==
  LET done == [state EXCEPT ![w] = IF @ = "absent" THEN @ ELSE "completed"]
      lost == {v \in Work : done[v] = "completed" /\ v \notin facts'}
  IN /\ facts' = (facts \cup {w}) \ evicted
     /\ state' = [v \in Work |-> IF v \in lost THEN "pending" ELSE done[v]]
     /\ delay' = [v \in Work |-> IF v \in lost THEN 0 ELSE delay[v]]
     /\ owner' = [owner EXCEPT ![w] = None]
     /\ UNCHANGED <<attempts, cancel, fifo, lease>>

\* Mutated forms of the final queue check: only pending rows are looked at, or
\* rows that claim_next_work does not take count as well.
DueWorkPendingOnly == {w \in Work : state[w] = "pending" /\ Runnable(state, w)}
DueWorkUnfiltered == {w \in Work : state[w] \in {"pending", "retry_wait"}}

\* The final queue check of release_runner_if_empty.
DueWork ==
  {w \in Work : state[w] \in {"pending", "retry_wait"} /\ Runnable(state, w)}

\* Mutated form: the check is not in the transaction that releases.
ReleaseRunnerUnchecked(o) ==
  /\ HoldsLease(o)
  /\ lease' = NoLease
  /\ UNCHANGED <<state, owner, attempts, delay, cancel, fifo, facts>>

\* release_runner_if_empty that returns true, and false.
ReleaseRunner(o) ==
  /\ DueWork = {}
  /\ HoldsLease(o)
  /\ lease' = NoLease
  /\ UNCHANGED <<state, owner, attempts, delay, cancel, fifo, facts>>
ReleaseRefused(o) ==
  /\ DueWork # {} \/ ~HoldsLease(o)
  /\ UNCHANGED queueVars

\* One tick of the clock the heartbeats and retry times are compared with.
ClockTick ==
  /\ lease' = IF lease.state = "none" THEN lease
              ELSE [lease EXCEPT !.age = AtMost(@ + 1, LeaseTimeout + 1)]
  /\ delay' = [w \in Work |-> IF delay[w] = 0 THEN 0 ELSE delay[w] - 1]
  /\ UNCHANGED <<state, owner, attempts, cancel, fifo, facts>>
=============================================================================
