----------------------------- MODULE RunnerQueue -----------------------------
(***************************************************************************)
(* The processes that share one catalog: CLI commands that enqueue work    *)
(* and launch a runner (src/app/main.cpp, repotraverse_main), detached     *)
(* runners that adopt the lease and drain the queue (run_runner), and the  *)
(* extraction a runner performs for one task (src/src/worker.cpp).  Each   *)
(* action is one catalog transaction of CatalogQueue together with the     *)
(* control flow around it, so the actions of different processes           *)
(* interleave exactly where the code may be preempted.                     *)
(***************************************************************************)
EXTENDS CatalogQueue, FiniteSets

CONSTANTS
  Runner,           \* slots for runner processes; a slot is its process's owner
  Cli,              \* slots for CLI commands
  Caps,             \* Caps[c]: credentials the environment of c provides
  Ident,            \* Ident[c]: executable and configuration of c
  Foreign,          \* tasks whose extractor_identity is not this worker's
  MaxCommands,      \* bound: how many CLI commands are started
  MaxFaults,        \* bound: how many faults happen
  FaultKinds,       \* the faults considered: "crash", "abort", "spawn"
  TimelyHeartbeats, \* no live runner goes LeaseTimeout without a heartbeat
  Evicts            \* the fact cache is small enough for store_fact to evict

ASSUME RunnerAssumption ==
  /\ Owner = Runner
  /\ DOMAIN Caps = Cli
  /\ Ident \in [Cli -> Identity]
  /\ Foreign \subseteq Work
  /\ MaxCommands \in Nat
  /\ MaxFaults \in Nat
  /\ FaultKinds \subseteq {"crash", "abort", "spawn"}
  /\ TimelyHeartbeats \in BOOLEAN
  /\ Evicts \in BOOLEAN
  /\ None \notin Cli

VARIABLES
  proc,      \* proc[r]: the runner process in slot r
  cmd,       \* cmd[c]: the command in slot c
  commands,  \* commands started so far
  faults     \* faults that have happened so far

procVars == <<proc, cmd, commands, faults>>
vars == <<state, owner, attempts, delay, cancel, fifo, facts, lease,
          proc, cmd, commands, faults>>

RunnerStates == {"off", "adopting", "syncing", "claiming", "draining",
                 "serving", "acquiring", "found", "deferred", "granted",
                 "extracting", "publishing", "finishing"}
Operations == {"querying", "importing", "connecting"}
CommandStates == Operations \cup
  {"idle", "closing", "launching", "claiming", "spawning", "clearing"}

Off == [pc |-> "off", job |-> None, token |-> None, cli |-> None]
Idle == [pc |-> "idle", token |-> None]

Processes == [pc : RunnerStates, job : Work \cup {None},
              token : Token \cup {None}, cli : Cli \cup {None}]
Commands == [pc : CommandStates, token : Token \cup {None}]

TypeOK ==
  /\ QueueTypeOK
  /\ proc \in [Runner -> Processes]
  /\ cmd \in [Cli -> Commands]
  /\ commands \in 0..MaxCommands
  /\ faults \in 0..MaxFaults

Init ==
  /\ QueueInit
  /\ proc = [r \in Runner |-> Off]
  /\ cmd = [c \in Cli |-> Idle]
  /\ commands = 0
  /\ faults = 0

At(r, pc) == proc[r].pc = pc
Live(r) == proc[r].pc \notin {"off", "adopting"}
Goto(r, pc) == proc' = [proc EXCEPT ![r].pc = pc]
Exit(r) == proc' = [proc EXCEPT ![r] = Off]
CommandGoto(c, pc) == cmd' = [cmd EXCEPT ![c] = [pc |-> pc, token |-> None]]

OnlyProc == UNCHANGED <<cmd, commands, faults>>
OnlyCmd == UNCHANGED <<proc, commands, faults>>

\* A token nobody holds: random_device and the clock make each one new.
FreshToken(t) ==
  /\ lease.token # t
  /\ \A r \in Runner : proc[r].token # t
  /\ \A c \in Cli : cmd[c].token # t

Extraction == {w \in Work : Kind[w] = "extraction"}
Connector == {w \in Work : Kind[w] = "connector_sync"}
GitSync == {w \in Work : Kind[w] = "analysis_git_sync"}

\* What the eviction loop of store_fact may remove when it stores w.
Evictions(w) == IF Evicts THEN SUBSET (facts \cup {w}) ELSE {{}}

Fault(kind) ==
  kind \in FaultKinds /\ faults < MaxFaults /\ faults' = faults + 1

-----------------------------------------------------------------------------
(* CLI commands.                                                           *)

CommandStarts(c, pc) ==
  /\ cmd[c].pc = "idle"
  /\ commands < MaxCommands
  /\ commands' = commands + 1
  /\ CommandGoto(c, pc)
  /\ UNCHANGED <<proc, faults>>

\* An operation opens the catalog and configures the launch: a query,
\* catalog-sync, or connector-sync where connectors are configured.
CliBegin(c, op) ==
  /\ op = "connecting" => Connector # {}
  /\ CommandStarts(c, op)
  /\ UNCHANGED queueVars

\* A query schedules the extraction of a missing manifest, catalog-sync one
\* that another producer published.
CliSchedule(c, w, t) ==
  /\ cmd[c].pc \in {"querying", "importing"}
  /\ w \in Extraction
  /\ FreshToken(t)
  /\ ScheduleTask(w, Ident[c], t)
  /\ UNCHANGED procVars

\* connector-sync enqueues its work item.
CliConnectorSync(c, w, t) ==
  /\ cmd[c].pc = "connecting"
  /\ w \in Connector
  /\ FreshToken(t)
  /\ EnqueueWork(w, Caps[c], Ident[c], t)
  /\ CommandGoto(c, "closing")
  /\ OnlyCmd

\* catalog-sync imports a result another producer published.
CliImportFact(c, w) ==
  /\ cmd[c].pc = "importing"
  /\ w \in Extraction
  /\ \E evicted \in Evictions(w) : StoreFact(w, evicted)
  /\ UNCHANGED procVars

\* Every operation ends by enqueueing the maintenance synchronization.
CliGitSync(c, w, t) ==
  /\ cmd[c].pc \in {"querying", "importing", "closing"}
  /\ w \in GitSync
  /\ FreshToken(t)
  /\ EnqueueWork(w, Caps[c], Ident[c], t)
  /\ CommandGoto(c, "launching")
  /\ OnlyCmd

\* work-status and work-cancel go straight to claim_runner_launch.
CliStatus(c) == CommandStarts(c, "claiming") /\ UNCHANGED queueVars
CliCancel(c, w) == CommandStarts(c, "claiming") /\ CancelWork(w)

\* pending_launch_token: adopt the launch an enqueue left in the lease.
CliPendingToken(c) ==
  /\ cmd[c].pc = "launching"
  /\ cmd' = [cmd EXCEPT ![c] =
       IF lease.state = "launching" /\ lease.identity = Ident[c]
         THEN [pc |-> "spawning", token |-> lease.token]
         ELSE [pc |-> "claiming", token |-> None]]
  /\ UNCHANGED queueVars /\ OnlyCmd

CliClaimLaunch(c, t) ==
  /\ cmd[c].pc = "claiming"
  /\ FreshToken(t)
  /\ ClaimRunnerLaunch(Caps[c], Ident[c], t)
  /\ cmd' = [cmd EXCEPT ![c] = [pc |-> "spawning", token |-> t]]
  /\ OnlyCmd

CliClaimRefused(c) ==
  /\ cmd[c].pc = "claiming"
  /\ ClaimRunnerLaunchRefused(Caps[c])
  /\ CommandGoto(c, "idle")
  /\ OnlyCmd

\* spawn_runner.  The new process has an owner hash of its own, so what still
\* names the slot's previous process no longer names anyone.
CliSpawn(c, r) ==
  /\ cmd[c].pc = "spawning"
  /\ At(r, "off")
  /\ proc' = [proc EXCEPT ![r] = [pc |-> "adopting", job |-> None,
                                  token |-> cmd[c].token, cli |-> c]]
  /\ CommandGoto(c, "idle")
  /\ owner' = [w \in Work |-> IF owner[w] = r THEN None ELSE owner[w]]
  /\ lease' = IF lease.owner = r THEN [lease EXCEPT !.owner = None] ELSE lease
  /\ UNCHANGED <<state, attempts, delay, cancel, fifo, facts, commands, faults>>

CliSpawnFails(c) ==
  /\ cmd[c].pc = "spawning"
  /\ Fault("spawn")
  /\ cmd' = [cmd EXCEPT ![c].pc = "clearing"]
  /\ UNCHANGED <<queueVars, proc, commands>>

CliClearLaunch(c) ==
  /\ cmd[c].pc = "clearing"
  /\ ClearFailedLaunch(cmd[c].token)
  /\ CommandGoto(c, "idle")
  /\ OnlyCmd

\* A command is interrupted, or an exception ends it.
CliAborts(c) ==
  /\ cmd[c].pc # "idle"
  /\ Fault("abort")
  /\ CommandGoto(c, "idle")
  /\ UNCHANGED <<queueVars, proc, commands>>

CliStep(c) ==
  \/ \E op \in Operations : CliBegin(c, op)
  \/ CliStatus(c) \/ CliPendingToken(c)
  \/ CliClaimRefused(c) \/ CliClearLaunch(c)
  \/ \E w \in Work : CliCancel(c, w) \/ CliImportFact(c, w)
  \/ \E t \in Token : CliClaimLaunch(c, t)
  \/ \E w \in Work, t \in Token :
       CliSchedule(c, w, t) \/ CliConnectorSync(c, w, t) \/ CliGitSync(c, w, t)
  \/ \E r \in Runner : CliSpawn(c, r)
  \/ CliSpawnFails(c) \/ CliAborts(c)

-----------------------------------------------------------------------------
(* Runner processes: the loop of run_runner.                               *)

Adopt(r) ==
  /\ At(r, "adopting")
  /\ \/ /\ CanAdopt(proc[r].token, Ident[proc[r].cli])
        /\ AdoptRunner(r)
        /\ proc' = [proc EXCEPT ![r].pc = "syncing", ![r].token = None]
     \/ /\ ~CanAdopt(proc[r].token, Ident[proc[r].cli])
        /\ UNCHANGED queueVars
        /\ Exit(r)
  /\ OnlyProc

\* The heartbeat thread; it ignores whether the lease is still held.
Heartbeat(r) ==
  /\ Live(r)
  /\ HeartbeatRunner(r)
  /\ UNCHANGED procVars

\* What coordinator.sync imports: at start, while draining, as the work of an
\* analysis_git_sync item and inside acquire.
Synchronizing(r) ==
  \/ At(r, "syncing") \/ At(r, "draining") \/ At(r, "acquiring")
  \/ At(r, "serving") /\ proc[r].job \in GitSync

ImportTask(r, w) ==
  /\ Synchronizing(r)
  /\ w \in Extraction
  /\ state[w] = "absent"
  /\ ScheduleTaskQuietly(w)
  /\ UNCHANGED procVars

ImportFact(r, w) ==
  /\ Synchronizing(r)
  /\ w \in Extraction
  /\ \E evicted \in Evictions(w) : StoreFact(w, evicted)
  /\ UNCHANGED procVars

StartLoop(r) ==
  /\ At(r, "syncing")
  /\ Goto(r, "claiming")
  /\ UNCHANGED queueVars /\ OnlyProc

Claim(r, w) ==
  /\ At(r, "claiming")
  /\ ClaimNextWork(r, Caps[proc[r].cli], w)
  /\ proc' = [proc EXCEPT
       ![r].pc = IF w \in Extraction THEN "acquiring" ELSE "serving",
       ![r].job = w]
  /\ OnlyProc

ClaimFindsNothing(r) ==
  /\ At(r, "claiming")
  /\ ClaimNothing(r, Caps[proc[r].cli])
  /\ Goto(r, "draining")
  /\ OnlyProc

\* The claim is outside every try block: its exception ends the process.
ClaimDies(r) ==
  /\ At(r, "claiming")
  /\ ClaimThrows(r, Caps[proc[r].cli])
  /\ Exit(r)
  /\ OnlyProc

Release(r) ==
  /\ At(r, "draining")
  /\ \/ ReleaseRunner(r) /\ Exit(r)
     \/ ReleaseRefused(r) /\ Goto(r, "claiming")
  /\ OnlyProc

\* Work that is not an extraction returns and is completed.
ServeDone(r) ==
  /\ At(r, "serving")
  /\ CompleteWork(proc[r].job, r)
  /\ proc' = [proc EXCEPT ![r].pc = "claiming", ![r].job = None]
  /\ OnlyProc

\* It throws and fail_work counts the attempt, or throws in turn and ends the
\* process because the handler is not guarded.
ServeFails(r) ==
  /\ At(r, "serving")
  /\ \/ /\ FailWork(proc[r].job, r)
        /\ proc' = [proc EXCEPT ![r].pc = "claiming", ![r].job = None]
     \/ FailWorkThrows(proc[r].job, r) /\ Exit(r)
  /\ OnlyProc

-----------------------------------------------------------------------------
(* BackgroundWorker::run_task for the extraction proc[r].job.              *)

\* The task names another extractor: it is handed back.
RejectForeign(r) ==
  /\ At(r, "acquiring")
  /\ proc[r].job \in Foreign
  /\ SetTaskState(proc[r].job, "waiting_for_credential")
  /\ Goto(r, "finishing") /\ OnlyProc

\* acquire found the result, or a completed claim whose fact was evicted here.
AcquireFinds(r) ==
  /\ At(r, "acquiring")
  /\ proc[r].job \notin Foreign
  /\ proc[r].job \in facts \/ Evicts
  /\ Goto(r, "found")
  /\ UNCHANGED queueVars /\ OnlyProc

\* Another producer holds the claim, or the remote cannot be reached.
AcquireDefers(r) ==
  /\ At(r, "acquiring")
  /\ proc[r].job \notin Foreign
  /\ Goto(r, "deferred")
  /\ UNCHANGED queueVars /\ OnlyProc

\* This producer holds the claim.
AcquireGrants(r) ==
  /\ At(r, "acquiring")
  /\ proc[r].job \notin Foreign \cup facts
  /\ Goto(r, "granted")
  /\ UNCHANGED queueVars /\ OnlyProc

\* What run_task does with acquire's answer, which the queue may have outrun.
TaskFound(r) ==
  /\ At(r, "found")
  /\ SetTaskState(proc[r].job, "completed")
  /\ Goto(r, "finishing") /\ OnlyProc
TaskDeferred(r) ==
  /\ At(r, "deferred")
  /\ SetTaskState(proc[r].job, "pending")
  /\ Goto(r, "finishing") /\ OnlyProc
TaskGranted(r) ==
  /\ At(r, "granted")
  /\ SetTaskState(proc[r].job, "running")
  /\ Goto(r, "extracting") /\ OnlyProc

\* The extractor process is stopped because cancellation was requested.
ExtractionCancelled(r) ==
  /\ At(r, "extracting")
  /\ cancel[proc[r].job]
  /\ Goto(r, "finishing")
  /\ UNCHANGED queueVars /\ OnlyProc

\* Any exception of run_task, the refusal of TaskGranted's update included.
ExtractionFails(r) ==
  /\ proc[r].pc \in {"acquiring", "granted", "extracting", "publishing"}
  /\ At(r, "acquiring") => proc[r].job \notin Foreign
  /\ FailTask(proc[r].job)
  /\ Goto(r, "finishing") /\ OnlyProc

\* complete pushes the result and stores the fact before it ends the claim.
PublishResult(r) ==
  /\ At(r, "extracting")
  /\ \E evicted \in Evictions(proc[r].job) : StoreFact(proc[r].job, evicted)
  /\ Goto(r, "publishing") /\ OnlyProc

\* complete ends the claim.
ClaimCompleted(r) ==
  /\ At(r, "publishing")
  /\ SetTaskState(proc[r].job, "completed")
  /\ Goto(r, "finishing") /\ OnlyProc

\* complete answers not_claimed or lease_lost before it stores a result, or
\* claim_rejected after.
ClaimLost(r) ==
  /\ At(r, "extracting") \/ At(r, "publishing")
  /\ SetTaskState(proc[r].job, "pending")
  /\ Goto(r, "finishing") /\ OnlyProc

\* run_task returned: the loop calls complete_work whatever the outcome.
FinishTask(r) ==
  /\ At(r, "finishing")
  /\ CompleteWork(proc[r].job, r)
  /\ proc' = [proc EXCEPT ![r].pc = "claiming", ![r].job = None]
  /\ OnlyProc

\* The process is killed, or its machine stops.
Crash(r) ==
  /\ proc[r].pc # "off"
  /\ Fault("crash")
  /\ Exit(r)
  /\ UNCHANGED <<queueVars, cmd, commands>>

Extract(r) ==
  \/ RejectForeign(r) \/ AcquireFinds(r) \/ AcquireDefers(r) \/ AcquireGrants(r)
  \/ TaskFound(r) \/ TaskDeferred(r) \/ TaskGranted(r)
  \/ ExtractionCancelled(r) \/ ExtractionFails(r)
  \/ PublishResult(r) \/ ClaimCompleted(r) \/ ClaimLost(r)

\* The steps of the main thread of a runner.
RunnerStep(r) ==
  \/ Adopt(r) \/ StartLoop(r)
  \/ \E w \in Work : Claim(r, w)
  \/ ClaimFindsNothing(r) \/ ClaimDies(r) \/ Release(r)
  \/ ServeDone(r) \/ ServeFails(r)
  \/ Extract(r) \/ FinishTask(r)

\* Time passes; with TimelyHeartbeats a live lease holder beats before its
\* lease is stale (the thread beats every 5 s, the lease lasts 30 s).
Tick ==
  /\ TimelyHeartbeats =>
       \A r \in Runner : Live(r) /\ HoldsLease(r) => lease.age < LeaseTimeout
  /\ ClockTick
  /\ UNCHANGED procVars

Next ==
  \/ \E c \in Cli : CliStep(c)
  \/ \E r \in Runner :
       \/ RunnerStep(r) \/ Heartbeat(r) \/ Crash(r)
       \/ \E w \in Work : ImportTask(r, w) \/ ImportFact(r, w)
  \/ Tick

Spec == Init /\ [][Next]_vars

\* A started command runs to its end.
CommandStep(c) ==
  \/ CliPendingToken(c) \/ CliClaimRefused(c) \/ CliClearLaunch(c)
  \/ \E t \in Token : CliClaimLaunch(c, t)
  \/ \E r \in Runner : CliSpawn(c, r)
  \/ \E w \in Work, t \in Token : CliConnectorSync(c, w, t) \/ CliGitSync(c, w, t)

\* Threads are scheduled, time passes, and another producer's claim or a lost
\* claim does not keep a task from this runner for ever: claims expire.
Fairness ==
  /\ WF_vars(Tick)
  /\ \A c \in Cli : WF_vars(CommandStep(c))
  /\ \A r \in Runner :
       /\ WF_vars(RunnerStep(r))
       /\ WF_vars(Heartbeat(r))
       /\ SF_vars(AcquireFinds(r))
       /\ SF_vars(AcquireGrants(r))
       /\ SF_vars(PublishResult(r))

\* A result commit is imported once (imported_commits), and other producers
\* publish finitely many.
ImportsEnd == <>[][~\E r \in Runner, w \in Work : ImportFact(r, w)]_vars

FairSpec == Spec /\ Fairness /\ ImportsEnd
=============================================================================
