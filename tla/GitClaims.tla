------------------------------ MODULE GitClaims ------------------------------
(***************************************************************************)
(* How producers on different machines share one extraction task through   *)
(* the analysis Git repository (src/src/git_coordination.cpp): the task's  *)
(* claim ref, which is a lease renewed and taken over by compare-and-swap  *)
(* pushes, and its result ref.  A process works on a catalog, its Home;    *)
(* several processes (a runner, commands that synchronize) may share one.  *)
(*                                                                         *)
(* An action is one command on the remote or one catalog transaction.  A   *)
(* claim is an immutable commit: everybody names it by its index in        *)
(* commits, 0 standing for no commit, and left counts the ticks until its  *)
(* expires_at (negative afterwards).                                       *)
(***************************************************************************)
EXTENDS Integers, Sequences

CONSTANTS
  Producer,        \* catalogs, each with its producer identity
  Process,         \* processes that run a coordinator
  Worker,          \* the processes that extract: runners
  Home,            \* Home[x]: the catalog of process x
  Trusted,         \* Trusted[p]: the producers whose records p accepts
  Lease,           \* lease_seconds in ticks
  Grace,           \* grace_seconds in ticks
  Retention,       \* how long a completed claim is kept (3600 s in the code)
  HeartbeatPeriod, \* the heartbeat interval in ticks, lease_seconds / 3
  Prompt,          \* a worker beats, pushes and ends its completion in that time
  Evicts,          \* the catalogs evict facts
  MaxCommits,      \* bound: claim commits
  MaxBeats,        \* bound: claim commits when a heartbeat begins
  MaxResults,      \* bound: result commits
  MaxFaults,       \* bound: faults
  FaultKinds       \* "crash", "lost", "offline", "unacknowledged", "failure"

ASSUME GitAssumption ==
  /\ Worker \subseteq Process
  /\ Home \in [Process -> Producer]
  /\ Trusted \in [Producer -> SUBSET Producer]
  /\ \A p \in Producer : p \in Trusted[p]
  /\ Lease \in Nat \ {0}
  /\ Grace \in Nat
  /\ Retention \in Nat
  /\ HeartbeatPeriod \in 1..Lease
  /\ Prompt \in BOOLEAN
  /\ Evicts \in BOOLEAN
  /\ MaxCommits \in Nat
  /\ MaxBeats \in Nat
  /\ MaxResults \in Nat
  /\ MaxFaults \in Nat

VARIABLES
  commits,   \* claim commits: producer_id, state and ticks until expires_at
  results,   \* result commits: the producer of each
  claimRef,  \* the claim the remote's claim ref names
  resultRef, \* the result the remote's result ref names
  known,     \* known[p]: the row of observed_claims in catalog p
  fact,      \* fact[p]: catalog p has the fact of the task
  imported,  \* imported[p]: result commits in imported_commits of catalog p
  proc,      \* proc[x]: control state of process x
  faults     \* faults so far

vars == <<commits, results, claimRef, resultRef, known, fact, imported, proc, faults>>
remoteVars == <<commits, results, claimRef, resultRef>>
catalogVars == <<known, fact, imported>>

Extracting == {"claimed", "working", "beating", "beaten"}
Completing == {"completing", "publishing", "stored"}
ProcessStates == Extracting \cup Completing \cup
  {"idle", "fetched", "observed", "imported", "pruning",
   "acquiring", "found", "claiming", "retrying", "closed", "lost"}

\* why: the call the synchronization belongs to; oid and result: the claim and
\* the result commit in hand; waited: ticks since it last read the clock for an
\* expires_at, as far as they matter.
Idle == [pc |-> "idle", why |-> "sync", oid |-> 0, result |-> 0, waited |-> 0]

TypeOK ==
  /\ commits \in Seq([by : Producer, state : {"processing", "completed"}, left : Int])
  /\ results \in Seq(Producer)
  /\ claimRef \in 0..Len(commits)
  /\ resultRef \in 0..Len(results)
  /\ known \in [Producer -> 0..Len(commits)]
  /\ fact \in [Producer -> BOOLEAN]
  /\ imported \in [Producer -> SUBSET (0..Len(results))]
  /\ proc \in [Process -> [pc : ProcessStates, why : {"sync", "acquire", "retry"},
                           oid : 0..Len(commits), result : 0..Len(results),
                           waited : 0..Lease + Grace + 1]]
  /\ faults \in 0..MaxFaults

Init ==
  /\ commits = <<>>
  /\ results = <<>>
  /\ claimRef = 0
  /\ resultRef = 0
  /\ known = [p \in Producer |-> 0]
  /\ fact = [p \in Producer |-> FALSE]
  /\ imported = [p \in Producer |-> {}]
  /\ proc = [x \in Process |-> Idle]
  /\ faults = 0

-----------------------------------------------------------------------------
At(x, pc) == proc[x].pc = pc
Goto(x, pc) == proc' = [proc EXCEPT ![x].pc = pc]
Return(x) == proc' = [proc EXCEPT ![x] = Idle]

Fault(kind) ==
  kind \in FaultKinds /\ faults < MaxFaults /\ faults' = faults + 1
NoFault == UNCHANGED faults

Known(x) == known[Home[x]]
SetKnown(x, oid) == known' = [known EXCEPT ![Home[x]] = oid]
Mine(x, oid) == oid # 0 /\ commits[oid].by = Home[x]
Completed(oid) == oid # 0 /\ commits[oid].state = "completed"

\* The claim ref as catalog p reads it: records of others are left out.
Accepted(p, oid) == oid # 0 /\ commits[oid].by \in Trusted[p]

\* Mutated form: the push is forced without a lease on the ref.
CanAlwaysPush(expected) == TRUE

\* publish: a lease commit, pushed if the claim ref still names expected.  A
\* push without an expectation creates the ref: the commit has no parent, so
\* the push is refused when the ref exists.
CanPush(expected) == claimRef = expected

\* The expiry is computed before the push.
LeaseLeft(x) == Lease - proc[x].waited

PushClaim(x, state, left) ==
  /\ Len(commits) < MaxCommits
  /\ commits' = Append(commits, [by |-> Home[x], state |-> state, left |-> left])
  /\ claimRef' = Len(commits) + 1
  /\ UNCHANGED <<results, resultRef>>

\* Every push may be refused because the remote cannot be reached, or succeed
\* without the process hearing of it.
PushFails(expected) ==
  /\ UNCHANGED remoteVars
  /\ \/ ~CanPush(expected) /\ NoFault
     \/ Fault("offline")
PushUnheard(x, expected, state, left) ==
  CanPush(expected) /\ PushClaim(x, state, left) /\ Fault("unacknowledged")

-----------------------------------------------------------------------------
(* sync: fetch all refs, observe the claim, import the result, prune.      *)

\* The refs are listed right after the fetch.
Snapshot(x, why) ==
  proc' = [proc EXCEPT ![x] = [pc |-> "fetched", why |-> why, oid |-> claimRef,
                               result |-> resultRef, waited |-> 0]]

Sync(x) ==
  /\ At(x, "idle")
  /\ Snapshot(x, "sync")
  /\ UNCHANGED <<remoteVars, catalogVars, faults>>

\* acquire starts with sync.  A row whose fact is stored is completed, so the
\* queue does not hand it out.
Acquire(x) ==
  /\ x \in Worker
  /\ At(x, "idle")
  /\ ~fact[Home[x]]
  /\ Snapshot(x, "acquire")
  /\ UNCHANGED <<remoteVars, catalogVars, faults>>

\* acquire synchronizes again after its push was refused.
Retry(x) ==
  /\ At(x, "retrying")
  /\ \/ Snapshot(x, "retry") /\ NoFault
     \/ Return(x) /\ Fault("offline")
  /\ UNCHANGED <<remoteVars, catalogVars>>

\* Mutated form: the results are left for a later synchronization.
ObserveOnly(x) ==
  /\ At(x, "fetched")
  /\ SetKnown(x, IF Accepted(Home[x], proc[x].oid) THEN proc[x].oid ELSE 0)
  /\ proc' = [proc EXCEPT ![x].pc = "imported", ![x].oid = 0, ![x].result = 0]
  /\ UNCHANGED <<remoteVars, fact, imported, faults>>

\* observe_claim, or remove_claim when the ref is gone or not trusted.
Observe(x) ==
  /\ At(x, "fetched")
  /\ SetKnown(x, IF Accepted(Home[x], proc[x].oid) THEN proc[x].oid ELSE 0)
  /\ proc' = [proc EXCEPT ![x].pc = "observed", ![x].oid = 0]
  /\ UNCHANGED <<remoteVars, fact, imported, faults>>

\* import_results: a commit is imported once.
Import(x) ==
  LET p == Home[x]
      r == proc[x].result
      new == r # 0 /\ r \notin imported[p]
  IN /\ At(x, "observed")
     /\ fact' = [fact EXCEPT ![p] = @ \/ (new /\ results[r] \in Trusted[p])]
     /\ imported' = [imported EXCEPT ![p] = IF new THEN @ \cup {r} ELSE @]
     /\ proc' = [proc EXCEPT ![x].pc = "imported", ![x].result = 0]
     /\ UNCHANGED <<remoteVars, known, faults>>

\* What follows the synchronization.
AfterSync(x) ==
  IF proc[x].why = "acquire" THEN Goto(x, "acquiring") ELSE Return(x)

\* A completed claim whose retention has passed is removed.
Expired(oid) == commits[oid].left <= 0

Prunable(x) == Completed(Known(x)) /\ Expired(Known(x))

\* Mutated form: the ref is deleted whatever it names.
PruneUnconditionally(x) ==
  /\ At(x, "imported")
  /\ Prunable(x)
  /\ claimRef' = 0 /\ Goto(x, "pruning") /\ NoFault
  /\ UNCHANGED <<commits, results, resultRef, catalogVars>>

Prune(x) ==
  /\ At(x, "imported")
  /\ Prunable(x)
  /\ \/ CanPush(Known(x)) /\ claimRef' = 0 /\ Goto(x, "pruning") /\ NoFault
     \/ CanPush(Known(x)) /\ claimRef' = 0 /\ AfterSync(x) /\ Fault("unacknowledged")
     \/ UNCHANGED claimRef /\ AfterSync(x) /\ Fault("offline")
     \/ ~CanPush(Known(x)) /\ UNCHANGED claimRef /\ AfterSync(x) /\ NoFault
  /\ UNCHANGED <<commits, results, resultRef, catalogVars>>

NothingToPrune(x) ==
  /\ At(x, "imported")
  /\ ~Prunable(x)
  /\ AfterSync(x)
  /\ UNCHANGED <<remoteVars, catalogVars, faults>>

\* Then its result; a failure to delete it is ignored.
PruneResult(x) ==
  /\ At(x, "pruning")
  /\ \/ resultRef' = 0 /\ NoFault
     \/ UNCHANGED resultRef /\ Fault("offline")
  /\ SetKnown(x, 0)
  /\ AfterSync(x)
  /\ UNCHANGED <<commits, results, claimRef, fact, imported>>

-----------------------------------------------------------------------------
(* acquire after its synchronization.                                      *)

\* Mutated forms: the grace period is not waited for; a claim never ends.
InForceWithoutGrace(oid) == commits[oid].left >= 0
InForceForEver(oid) == TRUE

\* now <= expires_at + grace_seconds
InForce(oid) == commits[oid].left >= -Grace

AcquireFound(x) ==
  /\ At(x, "acquiring")
  /\ fact[Home[x]] \/ Completed(Known(x))
  /\ Goto(x, "found")
  /\ UNCHANGED <<remoteVars, catalogVars, faults>>

Undecided(x) ==
  At(x, "acquiring") /\ ~fact[Home[x]] /\ ~Completed(Known(x))

\* processing_local
AcquireOwn(x) ==
  /\ Undecided(x)
  /\ Mine(x, Known(x)) /\ InForce(Known(x))
  /\ Goto(x, "working")
  /\ UNCHANGED <<remoteVars, catalogVars, faults>>

\* claimed_elsewhere
AcquireElsewhere(x) ==
  /\ Undecided(x)
  /\ Known(x) # 0 /\ ~Mine(x, Known(x)) /\ InForce(Known(x))
  /\ Return(x)
  /\ UNCHANGED <<remoteVars, catalogVars, faults>>

\* No claim, or one whose lease and grace have passed.
AcquireFree(x) ==
  /\ Undecided(x)
  /\ Known(x) # 0 => ~InForce(Known(x))
  /\ proc' = [proc EXCEPT ![x].pc = "claiming", ![x].oid = Known(x), ![x].waited = 0]
  /\ UNCHANGED <<remoteVars, catalogVars, faults>>

Claim(x) ==
  /\ At(x, "claiming")
  /\ \/ /\ CanPush(proc[x].oid)
        /\ PushClaim(x, "processing", LeaseLeft(x))
        /\ proc' = [proc EXCEPT ![x].pc = "claimed", ![x].oid = claimRef']
        /\ NoFault
     \/ PushUnheard(x, proc[x].oid, "processing", LeaseLeft(x)) /\ Goto(x, "retrying")
     \/ PushFails(proc[x].oid) /\ Goto(x, "retrying")
  /\ UNCHANGED catalogVars

\* run_task is done with a task that was found.
Found(x) ==
  /\ At(x, "found")
  /\ Return(x)
  /\ UNCHANGED <<remoteVars, catalogVars, faults>>

\* publish records its own commit with observe_claim.
ObserveOwn(x) ==
  /\ proc[x].pc \in {"claimed", "beaten", "closed"}
  /\ SetKnown(x, proc[x].oid)
  /\ IF At(x, "closed") THEN Return(x)
     ELSE proc' = [proc EXCEPT ![x].pc = "working", ![x].oid = 0]
  /\ UNCHANGED <<remoteVars, fact, imported, faults>>

-----------------------------------------------------------------------------
(* The extraction: heartbeats, and its end.                                *)

\* refresh_claim: a ref that is gone or not trusted changes nothing.
Refresh(x) ==
  \/ SetKnown(x, IF Accepted(Home[x], claimRef) THEN claimRef ELSE Known(x)) /\ NoFault
  \/ UNCHANGED known /\ Fault("offline")

Heartbeat(x) ==
  /\ At(x, "working")
  /\ Len(commits) < MaxBeats
  /\ Refresh(x)
  /\ proc' = [proc EXCEPT ![x].pc = "beating", ![x].waited = 0]
  /\ UNCHANGED <<remoteVars, fact, imported>>

Renew(x) ==
  /\ At(x, "beating")
  /\ \/ /\ Mine(x, Known(x)) /\ CanPush(Known(x))
        /\ PushClaim(x, "processing", LeaseLeft(x))
        /\ proc' = [proc EXCEPT ![x].pc = "beaten", ![x].oid = claimRef']
        /\ NoFault
     \/ /\ Mine(x, Known(x))
        /\ PushUnheard(x, Known(x), "processing", LeaseLeft(x))
        /\ Goto(x, "working")
     \/ Mine(x, Known(x)) /\ PushFails(Known(x)) /\ Goto(x, "working")
     \/ ~Mine(x, Known(x)) /\ UNCHANGED <<remoteVars, faults>> /\ Goto(x, "working")
  /\ UNCHANGED catalogVars

\* The extractor process has ended: complete reads the claim again.
Finish(x) ==
  /\ At(x, "working")
  /\ Refresh(x)
  /\ Goto(x, "completing")
  /\ UNCHANGED <<remoteVars, fact, imported>>

\* The extraction, or the extractor's output, is refused.
ExtractionFails(x) ==
  /\ At(x, "working")
  /\ Fault("failure")
  /\ Return(x)
  /\ UNCHANGED <<remoteVars, catalogVars>>

\* not_claimed and lease_lost
LeaseLost(x) ==
  /\ At(x, "completing")
  /\ ~Mine(x, Known(x))
  /\ Return(x)
  /\ UNCHANGED <<remoteVars, catalogVars, faults>>

PushResult(x) ==
  /\ resultRef = 0
  /\ Len(results) < MaxResults
  /\ results' = Append(results, Home[x])
  /\ resultRef' = Len(results) + 1
  /\ UNCHANGED <<commits, claimRef>>

\* Mutated form: the exit code of the push is not looked at.
PublishUnchecked(x) ==
  /\ At(x, "completing")
  /\ Mine(x, Known(x))
  /\ proc' = [proc EXCEPT ![x].pc = "stored", ![x].oid = Known(x)]
  /\ \/ PushResult(x) /\ NoFault
     \/ UNCHANGED remoteVars /\ Fault("offline")
  /\ UNCHANGED catalogVars

\* publish_result pushes a commit without a parent: it is refused, and the
\* extraction fails, when the result ref exists.
PublishResult(x) ==
  /\ At(x, "completing")
  /\ Mine(x, Known(x))
  /\ \/ /\ PushResult(x)
        /\ proc' = [proc EXCEPT ![x].pc = "publishing", ![x].oid = Known(x),
                                ![x].result = resultRef']
        /\ NoFault
     \/ PushResult(x) /\ Return(x) /\ Fault("unacknowledged")
     \/ /\ \/ resultRef # 0 /\ NoFault
           \/ Fault("offline")
        /\ Return(x)
        /\ UNCHANGED remoteVars
  /\ UNCHANGED catalogVars

\* store_fact and mark_imported
StoreResult(x) ==
  /\ At(x, "publishing")
  /\ fact' = [fact EXCEPT ![Home[x]] = TRUE]
  /\ imported' = [imported EXCEPT ![Home[x]] = @ \cup {proc[x].result}]
  /\ proc' = [proc EXCEPT ![x].pc = "stored", ![x].result = 0]
  /\ UNCHANGED <<remoteVars, known, faults>>

\* Mutated form: the state is spelt otherwise.
CloseAsDone(x) ==
  /\ At(x, "stored")
  /\ CanPush(proc[x].oid)
  /\ PushClaim(x, "done", Retention)
  /\ proc' = [proc EXCEPT ![x].pc = "closed", ![x].oid = claimRef']
  /\ NoFault
  /\ UNCHANGED catalogVars

\* complete ends the claim it read before it published the result.
Close(x) ==
  /\ At(x, "stored")
  /\ \/ /\ CanPush(proc[x].oid)
        /\ PushClaim(x, "completed", Retention)
        /\ proc' = [proc EXCEPT ![x].pc = "closed", ![x].oid = claimRef']
        /\ NoFault
     \/ PushUnheard(x, proc[x].oid, "completed", Retention) /\ Return(x)
     \/ PushFails(proc[x].oid) /\ Return(x)
  /\ UNCHANGED catalogVars

-----------------------------------------------------------------------------
\* A process is killed and started again, or its machine is lost.
Crash(x) ==
  /\ proc[x].pc \notin {"idle", "lost"}
  /\ \/ Fault("crash") /\ Return(x)
     \/ Fault("lost") /\ proc' = [proc EXCEPT ![x] = [Idle EXCEPT !.pc = "lost"]]
  /\ UNCHANGED <<remoteVars, catalogVars>>

\* store_fact of another task evicts this one's fact.
Evict(p) ==
  /\ Evicts
  /\ fact[p]
  /\ fact' = [fact EXCEPT ![p] = FALSE]
  /\ UNCHANGED <<remoteVars, known, imported, proc, faults>>

\* How long a process has been at it matters for the lease it pushes, and for
\* a prompt worker.
Counting(x) ==
  \/ proc[x].pc \in {"claiming", "beating"}
  \/ Prompt /\ proc[x].pc \in Extracting \cup Completing

\* Time passes; left need not be followed below the point where it matters.
Tick ==
  /\ Prompt => \A x \in Process : Counting(x) => proc[x].waited < HeartbeatPeriod
  /\ commits' = [i \in 1..Len(commits) |->
       IF commits[i].left >= -Grace THEN [commits[i] EXCEPT !.left = @ - 1]
                                    ELSE commits[i]]
  /\ proc' = [x \in Process |->
       IF Counting(x) /\ proc[x].waited <= Lease + Grace
         THEN [proc[x] EXCEPT !.waited = @ + 1] ELSE proc[x]]
  /\ UNCHANGED <<results, claimRef, resultRef, catalogVars, faults>>

\* The steps a process takes once it has begun, and is not extracting.
Step(x) ==
  \/ Retry(x) \/ Observe(x) \/ Import(x)
  \/ Prune(x) \/ NothingToPrune(x) \/ PruneResult(x)
  \/ AcquireFound(x) \/ AcquireOwn(x) \/ AcquireElsewhere(x) \/ AcquireFree(x)
  \/ Claim(x) \/ Found(x) \/ ObserveOwn(x) \/ Renew(x)
  \/ LeaseLost(x) \/ PublishResult(x) \/ StoreResult(x) \/ Close(x)

Next ==
  \/ \E x \in Process :
       \/ Sync(x) \/ Acquire(x) \/ Step(x)
       \/ Heartbeat(x) \/ Finish(x) \/ ExtractionFails(x) \/ Crash(x)
  \/ \E p \in Producer : Evict(p)
  \/ Tick

Spec == Init /\ [][Next]_vars

\* Processes go on, an extraction ends, time passes, a queued task is tried
\* again, and every catalog synchronizes now and then.
Fairness ==
  /\ WF_vars(Tick)
  /\ \A x \in Process : WF_vars(Step(x)) /\ SF_vars(Finish(x)) /\ SF_vars(Sync(x))
  /\ \A x \in Worker : SF_vars(Acquire(x))
FairSpec == Spec /\ Fairness
=============================================================================
