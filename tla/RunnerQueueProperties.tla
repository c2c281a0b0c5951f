------------------------ MODULE RunnerQueueProperties ------------------------
(***************************************************************************)
(* What must be true of the catalog's queue and its runners.               *)
(***************************************************************************)
EXTENDS RunnerQueue

(* A catalog has at most one live runner (main.cpp run_runner,             *)
(* catalog.cpp adopt_runner): a runner only works with the lease, and the  *)
(* lease of a runner that beats in time is never taken away.               *)
AtMostOneRunner == \A r, q \in Runner : Live(r) /\ Live(q) => r = q

(* The runner that is alive holds the lease, and holds it fresh: nothing a *)
(* CLI command does (enqueue, claim_runner_launch, clear_failed_launch)    *)
(* removes it.                                                             *)
LiveRunnerHoldsLease ==
  \A r \in Runner : Live(r) => HoldsLease(r) /\ Fresh

(* An extraction that is completed has its result in the catalog: no path  *)
(* through run_task, complete_work or recovery completes a row without it, *)
(* whatever runners stall or crash (worker.cpp run_task, catalog.cpp       *)
(* complete_work, store_fact).                                             *)
CompletedHasFact ==
  \A w \in Extraction : state[w] = "completed" => w \in facts

(* A task is not retried beyond max_task_attempts: a row whose attempts    *)
(* are used up is settled, unless a rerun reset them                       *)
(* (catalog.cpp fail_task, fail_work).                                     *)
RetriesAreBounded ==
  \A w \in Work : attempts[w] = MaxAttempts => state[w] \in Settled

(* What a query left pending is not forgotten: while work that needs no    *)
(* credential is ready to run there is a lease, whose holder or successor  *)
(* will run it, or a command about to claim one.  The final empty-queue    *)
(* check and the release are one transaction, and so are an enqueue and    *)
(* its launch (catalog.cpp release_runner_if_empty, enqueue_work).         *)
NoLostWakeup ==
  \A w \in Work :
    /\ state[w] = "pending"
    /\ Runnable(state, w)
    /\ Credential[w] = None
    => lease.state # "none" \/ \E c \in Cli : cmd[c].pc # "idle"

(* The runner that leaves misses nothing (main.cpp run_runner).  When       *)
(* claim_next_work gives the lease holder nothing, nothing is runnable with *)
(* its credentials, whatever it just failed or marked as waiting.  When the *)
(* release deletes the lease, which looks at fewer states than              *)
(* claim_next_work, what became runnable since that last look needs a       *)
(* credential or another extractor: no other row is ever left waiting.      *)
LooksLast(r) ==
  At(r, "claiming") /\ HoldsLease(r) /\ proc'[r].pc = "draining" =>
    \A w \in Work : Runnable(state', w) => ~Compatible(w, Caps[proc[r].cli])
LeavesNothing(r) ==
  At(r, "draining") /\ HoldsLease(r) /\ lease' = NoLease /\ proc'[r].pc = "off" =>
    \A w \in Work : Runnable(state, w) => Credential[w] # None \/ w \in Foreign
ReleaseLeavesNothingReady ==
  [][\A r \in Runner : LooksLast(r) /\ LeavesNothing(r)]_vars

(* A running item other than an extraction leaves that state by the hand   *)
(* of the process that runs it, or when no fresh lease is left; and only   *)
(* the holder of the lease starts it.  This is what the owner column and   *)
(* the guards of complete_work, fail_work and claim_next_work are for.     *)
Fenced(w) ==
  /\ state[w] = "running" /\ state'[w] # "running" =>
       \/ ~Fresh
       \/ \E r \in Runner : /\ owner[w] = r
                            /\ At(r, "serving") /\ proc[r].job = w
                            /\ proc'[r] # proc[r]
  /\ state[w] # "running" /\ state'[w] = "running" =>
       \E r \in Runner : HoldsLease(r) /\ At(r, "claiming") /\ proc'[r] # proc[r]
SyncWorkIsFenced == [][\A w \in Work \ Extraction : Fenced(w)]_vars

(* An extraction that failed or was cancelled stays so, except that a      *)
(* result that arrives completes it: nothing a runner still does for it    *)
(* puts it back into the queue (worker.cpp run_task's set_task_state).     *)
FinalStays ==
  [][\A w \in Extraction :
       state[w] \in {"failed", "cancelled"} =>
         state'[w] \in {state[w], "completed"}]_vars

(* Queued work starts: what is pending does not stay pending for ever,     *)
(* unless its cancellation was requested meanwhile.                        *)
QueuedWorkStarts ==
  \A w \in Work : state[w] = "pending" /\ ~cancel[w]
                     ~> state[w] # "pending" \/ cancel[w]

(* A runner exits when the queue has drained (main.cpp run_runner).        *)
RunnerExits == \A r \in Runner : Live(r) ~> ~Live(r)

(* A requested cancellation takes effect: the item does not stay in the    *)
(* queue (catalog.cpp cancel_work).                                        *)
CancellationSettles ==
  \A w \in Work : cancel[w] ~> state[w] \in Settled

(* Taking over a stale lease makes the interrupted work runnable again     *)
(* (docs/operations.md, "Recovery").                                       *)
RecoveryRequeues ==
  [][Stale /\ lease' # lease /\ lease'.state = "launching" =>
       \A w \in Work : state'[w] # "running"]_vars

(* The queue implements serial execution.                                  *)
Serial == INSTANCE SerialExecution WITH
            live <- {r \in Runner : Live(r)},
            doing <- [r \in Runner |-> proc[r].job]
SerialSpec == Serial!Spec
=============================================================================
