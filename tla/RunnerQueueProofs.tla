-------------------------- MODULE RunnerQueueProofs --------------------------
(***************************************************************************)
(* Theorems about RunnerQueue, for every number of runners, commands, work *)
(* items, tokens and faults.                                               *)
(***************************************************************************)
EXTENDS RunnerQueueProperties, SequenceTheorems, FoldLemmas

USE DEF Waiting, Settled, WorkStates

LEMMA BackoffType ==
  ASSUME NEW n \in Nat
  PROVE  Backoff(n) \in 0..BackoffCap
<1>1. BackoffCap \in Nat
  BY QueueAssumption
<1>2. AtMost(n, 8) \in 0..8
  BY DEF AtMost
<1>3. Doublings[AtMost(n, 8) + 1] \in Nat
  <2>1. \A k \in 0..8 : Doublings[k + 1] \in Nat
    BY DEF Doublings
  <2> QED BY <1>2, <2>1
<1> QED
  BY <1>1, <1>3 DEF Backoff, AtMost

-----------------------------------------------------------------------------
(* Each method of the catalog keeps the types of the tables.               *)

LEMMA LeaseRecord ==
  ASSUME NEW l \in Leases
  PROVE  /\ l.age \in 0..(LeaseTimeout + 1)
         /\ \A n \in 0..(LeaseTimeout + 1) : [l EXCEPT !.age = n] \in Leases
         /\ \A o \in Owner \cup {None} : [l EXCEPT !.owner = o] \in Leases
         /\ \A o \in Owner :
              [l EXCEPT !.state = "active", !.token = None, !.owner = o, !.age = 0]
                \in Leases
<1>1. l = [state |-> l.state, token |-> l.token, owner |-> l.owner,
           identity |-> l.identity, age |-> l.age]
  BY DEF Leases
<1>2. 0 \in 0..(LeaseTimeout + 1)
  BY QueueAssumption
<1>3. /\ l.age \in 0..(LeaseTimeout + 1)
      /\ \A n \in 0..(LeaseTimeout + 1) : [l EXCEPT !.age = n] \in Leases
  BY <1>1 DEF Leases
<1>4. \A o \in Owner \cup {None} : [l EXCEPT !.owner = o] \in Leases
  BY <1>1 DEF Leases
<1>5. ASSUME NEW o \in Owner
      PROVE  [l EXCEPT !.state = "active", !.token = None, !.owner = o, !.age = 0]
               \in Leases
  <2> DEFINE l1 == [l EXCEPT !.state = "active"]
             l2 == [l1 EXCEPT !.token = None]
             l3 == [l2 EXCEPT !.owner = o]
             l4 == [l3 EXCEPT !.age = 0]
  <2>1. l1 \in Leases
    BY DEF Leases
  <2>2. l2 \in Leases
    BY <2>1 DEF Leases
  <2>3. l3 \in Leases
    BY <2>2 DEF Leases
  <2>4. l4 \in Leases
    BY <2>3, <1>2 DEF Leases
  <2>5. [l EXCEPT !.state = "active", !.token = None, !.owner = o, !.age = 0] = l4
    OBVIOUS
  <2> QED BY <2>4, <2>5
<1> QED BY <1>3, <1>4, <1>5

LEMMA LaunchType ==
  ASSUME QueueTypeOK, NEW t \in Token, NEW id \in Identity
  PROVE  /\ Launching(t, id) \in Leases
         /\ LeaseAfterEnqueue(t, id) \in Leases
BY QueueAssumption DEF QueueTypeOK, Leases, Launching, LeaseAfterEnqueue

LEMMA NoLeaseType ==
  NoLease \in Leases
BY QueueAssumption DEF NoLease, Leases

LEMMA InsertRowType ==
  ASSUME QueueTypeOK, NEW w \in Work, InsertRow(w)
  PROVE  state' \in [Work -> WorkStates] /\ fifo' \in Seq(Work)
<1>1. CASE state[w] = "absent"
  <2>1. Append(fifo, w) \in Seq(Work)
    BY AppendProperties DEF QueueTypeOK
  <2> QED BY <1>1, <2>1 DEF QueueTypeOK, InsertRow
<1>2. CASE state[w] # "absent"
  BY <1>2 DEF QueueTypeOK, InsertRow
<1> QED BY <1>1, <1>2

LEMMA ScheduleTaskType ==
  ASSUME QueueTypeOK, NEW w \in Work, NEW id \in Identity, NEW t \in Token,
         ScheduleTask(w, id, t)
  PROVE  QueueTypeOK'
<1>1. state' \in [Work -> WorkStates] /\ fifo' \in Seq(Work)
  BY InsertRowType DEF ScheduleTask
<1> QED BY <1>1, LaunchType DEF QueueTypeOK, ScheduleTask

LEMMA ScheduleQuietlyType ==
  ASSUME QueueTypeOK, NEW w \in Work, ScheduleTaskQuietly(w)
  PROVE  QueueTypeOK'
BY InsertRowType DEF QueueTypeOK, ScheduleTaskQuietly

LEMMA EnqueueWorkType ==
  ASSUME QueueTypeOK, NEW w \in Work, NEW caps, NEW id \in Identity,
         NEW t \in Token, EnqueueWork(w, caps, id, t)
  PROVE  QueueTypeOK'
<1>1. lease' \in Leases
  BY LaunchType DEF QueueTypeOK, EnqueueWork
<1>2. CASE state[w] = "absent"
  <2>1. state' \in [Work -> WorkStates] /\ fifo' \in Seq(Work)
    BY <1>2, InsertRowType DEF EnqueueWork
  <2> QED BY <1>1, <1>2, <2>1 DEF QueueTypeOK, EnqueueWork
<1>3. CASE state[w] # "absent"
  <2>1. UNCHANGED fifo /\ RerunRow(w)
    BY <1>3 DEF EnqueueWork
  <2>2. state' \in [Work -> WorkStates]
    BY <2>1 DEF QueueTypeOK, RerunRow
  <2>3. cancel' \in [Work -> BOOLEAN]
    BY <2>1 DEF QueueTypeOK, RerunRow
  <2>4. /\ attempts' = attempts \/ attempts' = [attempts EXCEPT ![w] = 0]
        /\ delay' = delay \/ delay' = [delay EXCEPT ![w] = 0]
    BY <2>1 DEF RerunRow
  <2>5. /\ attempts' \in [Work -> 0..MaxAttempts]
        /\ delay' \in [Work -> 0..BackoffCap]
    <3>1. 0 \in 0..MaxAttempts /\ 0 \in 0..BackoffCap
      BY QueueAssumption
    <3>2. /\ attempts \in [Work -> 0..MaxAttempts]
          /\ delay \in [Work -> 0..BackoffCap]
      BY DEF QueueTypeOK
    <3> QED BY <2>4, <3>1, <3>2
  <2> QED BY <1>1, <2>1, <2>2, <2>3, <2>4, <2>5 DEF QueueTypeOK, EnqueueWork
<1> QED BY <1>2, <1>3

LEMMA RecoveredType ==
  ASSUME QueueTypeOK
  PROVE  /\ RecoveredState \in [Work -> WorkStates]
         /\ RecoveredOwner \in [Work -> Owner \cup {None}]
BY DEF QueueTypeOK, RecoveredState, RecoveredOwner

LEMMA ClaimLaunchType ==
  ASSUME QueueTypeOK, NEW caps, NEW id \in Identity, NEW t \in Token,
         ClaimRunnerLaunch(caps, id, t)
  PROVE  QueueTypeOK'
BY RecoveredType, LaunchType DEF QueueTypeOK, ClaimRunnerLaunch

LEMMA ClaimRefusedType ==
  ASSUME QueueTypeOK, NEW caps, ClaimRunnerLaunchRefused(caps)
  PROVE  QueueTypeOK'
BY RecoveredType, NoLeaseType DEF QueueTypeOK, ClaimRunnerLaunchRefused, queueVars

LEMMA ClearFailedLaunchType ==
  ASSUME QueueTypeOK, NEW t, ClearFailedLaunch(t)
  PROVE  QueueTypeOK'
BY NoLeaseType DEF QueueTypeOK, ClearFailedLaunch

LEMMA CancelWorkType ==
  ASSUME QueueTypeOK, NEW w \in Work, CancelWork(w)
  PROVE  QueueTypeOK'
<1>1. state' \in [Work -> WorkStates]
  BY DEF QueueTypeOK, CancelWork
<1>2. cancel' \in [Work -> BOOLEAN]
  BY DEF QueueTypeOK, CancelWork
<1> QED BY <1>1, <1>2 DEF QueueTypeOK, CancelWork

LEMMA LeaseUpdateType ==
  ASSUME QueueTypeOK, NEW o \in Owner,
         AdoptRunner(o) \/ HeartbeatRunner(o)
  PROVE  QueueTypeOK'
<1>1. 0 \in 0..(LeaseTimeout + 1)
  BY QueueAssumption
<1>2. CASE AdoptRunner(o)
  <2>1. lease' \in Leases
    BY <1>1, <1>2, LeaseRecord DEF QueueTypeOK, AdoptRunner
  <2> QED BY <1>2, <2>1 DEF QueueTypeOK, AdoptRunner
<1>3. CASE HeartbeatRunner(o)
  <2>1. lease' \in Leases
    BY <1>1, <1>3, LeaseRecord DEF QueueTypeOK, HeartbeatRunner
  <2> QED BY <1>3, <2>1 DEF QueueTypeOK, HeartbeatRunner
<1> QED BY <1>2, <1>3

LEMMA MarkedType ==
  ASSUME QueueTypeOK
  PROVE  /\ PropagatedState \in [Work -> WorkStates]
         /\ \A skipped : MarkedState(skipped) \in [Work -> WorkStates]
<1>1. PropagatedState \in [Work -> WorkStates]
  BY DEF QueueTypeOK, PropagatedState
<1> QED BY <1>1 DEF MarkedState

LEMMA ClaimNextWorkType ==
  ASSUME QueueTypeOK, NEW o \in Owner, NEW caps, NEW w \in Work,
         ClaimNextWork(o, caps, w)
  PROVE  QueueTypeOK'
BY MarkedType DEF QueueTypeOK, ClaimNextWork

LEMMA ClaimNothingType ==
  ASSUME QueueTypeOK, NEW o, NEW caps, ClaimNothing(o, caps)
  PROVE  QueueTypeOK'
BY MarkedType DEF QueueTypeOK, ClaimNothing

LEMMA CompleteWorkType ==
  ASSUME QueueTypeOK, NEW w \in Work, NEW o, CompleteWork(w, o)
  PROVE  QueueTypeOK'
BY DEF QueueTypeOK, CompleteWork

LEMMA FailWorkType ==
  ASSUME QueueTypeOK, NEW w \in Work, NEW o, FailWork(w, o) \/ FailTask(w)
  PROVE  QueueTypeOK'
<1>1. attempts[w] \in Nat
  BY QueueAssumption DEF QueueTypeOK
<1>2. Backoff(attempts[w]) \in 0..BackoffCap
  BY <1>1, BackoffType
<1>3. AtMost(attempts[w] + 1, MaxAttempts) \in 0..MaxAttempts
  BY <1>1, QueueAssumption DEF AtMost
<1>4. StateAfterFailure(w) \in WorkStates
  BY DEF StateAfterFailure
<1>5. CASE FailWork(w, o)
  BY <1>2, <1>3, <1>4, <1>5 DEF QueueTypeOK, FailWork, CountAttempt
<1>6. CASE FailTask(w)
  BY <1>2, <1>3, <1>4, <1>6 DEF QueueTypeOK, FailTask, CountAttempt
<1> QED BY <1>5, <1>6

LEMMA SetTaskStateType ==
  ASSUME QueueTypeOK, NEW w \in Work, NEW s \in WorkStates, SetTaskState(w, s)
  PROVE  QueueTypeOK'
BY DEF QueueTypeOK, SetTaskState

LEMMA StoreFactType ==
  ASSUME QueueTypeOK, NEW w \in Work, NEW evicted, StoreFact(w, evicted)
  PROVE  QueueTypeOK'
<1> DEFINE done == [state EXCEPT ![w] = IF @ = "absent" THEN @ ELSE "completed"]
<1>1. done \in [Work -> WorkStates]
  BY DEF QueueTypeOK
<1>2. state' \in [Work -> WorkStates]
  <2>1. \A v \in Work : state'[v] \in {"pending", done[v]}
    BY DEF StoreFact
  <2>2. state' = [v \in Work |-> state'[v]]
    BY DEF StoreFact
  <2> QED BY <1>1, <2>1, <2>2
<1>3. delay' \in [Work -> 0..BackoffCap]
  BY QueueAssumption DEF QueueTypeOK, StoreFact
<1>4. facts' \subseteq Work /\ owner' \in [Work -> Owner \cup {None}]
  BY DEF QueueTypeOK, StoreFact
<1>5. UNCHANGED <<attempts, cancel, fifo, lease>>
  BY DEF StoreFact
<1> QED BY <1>2, <1>3, <1>4, <1>5 DEF QueueTypeOK

LEMMA ReleaseType ==
  ASSUME QueueTypeOK, NEW o, ReleaseRunner(o)
  PROVE  QueueTypeOK'
BY NoLeaseType DEF QueueTypeOK, ReleaseRunner

LEMMA ClockTickType ==
  ASSUME QueueTypeOK, ClockTick
  PROVE  QueueTypeOK'
<1>1. LeaseTimeout \in Nat /\ BackoffCap \in Nat
  BY QueueAssumption
<1>2. lease' \in Leases
  <2>1. CASE lease.state = "none"
    BY <2>1 DEF QueueTypeOK, ClockTick
  <2>2. CASE lease.state # "none"
    <3>1. lease.age \in 0..(LeaseTimeout + 1)
      BY LeaseRecord DEF QueueTypeOK
    <3>2. AtMost(lease.age + 1, LeaseTimeout + 1) \in 0..(LeaseTimeout + 1)
      BY <1>1, <3>1 DEF AtMost
    <3>3. lease' = [lease EXCEPT !.age = AtMost(lease.age + 1, LeaseTimeout + 1)]
      BY <2>2 DEF ClockTick
    <3> QED BY <3>2, <3>3, LeaseRecord DEF QueueTypeOK
  <2> QED BY <2>1, <2>2
<1>3. delay' \in [Work -> 0..BackoffCap]
  BY <1>1 DEF QueueTypeOK, ClockTick
<1> QED BY <1>2, <1>3 DEF QueueTypeOK, ClockTick

LEMMA UnchangedType ==
  ASSUME QueueTypeOK, UNCHANGED queueVars
  PROVE  QueueTypeOK'
BY DEF QueueTypeOK, queueVars

-----------------------------------------------------------------------------
(* The program counters keep their types.                                  *)

LEMMA ProcessRecord ==
  ASSUME NEW p \in Processes
  PROVE  /\ p.token \in Token \cup {None} /\ p.job \in Work \cup {None}
         /\ p.cli \in Cli \cup {None} /\ p.pc \in RunnerStates
         /\ \A pc \in RunnerStates :
              /\ [p EXCEPT !.pc = pc] \in Processes
              /\ [p EXCEPT !.pc = pc, !.token = None] \in Processes
              /\ \A j \in Work \cup {None} :
                   [p EXCEPT !.pc = pc, !.job = j] \in Processes
BY DEF Processes

LEMMA OffType == Off \in Processes
BY DEF Off, Processes, RunnerStates

LEMMA GotoType ==
  ASSUME TypeOK, NEW r \in Runner, NEW pc \in RunnerStates,
         Goto(r, pc) \/ Exit(r), OnlyProc, QueueTypeOK'
  PROVE  TypeOK'
<1>1. CASE Goto(r, pc)
  BY <1>1, ProcessRecord DEF TypeOK, Goto, OnlyProc
<1>2. CASE Exit(r)
  BY <1>2, OffType DEF TypeOK, Exit, OnlyProc
<1> QED BY <1>1, <1>2

LEMMA CommandGotoType ==
  ASSUME TypeOK, NEW c \in Cli, NEW pc \in CommandStates,
         CommandGoto(c, pc)
  PROVE  cmd' \in [Cli -> Commands]
BY DEF TypeOK, CommandGoto, Commands

LEMMA IdentType ==
  /\ \A c \in Cli : Ident[c] \in Identity
  /\ Runner = Owner
BY RunnerAssumption

LEMMA FaultType ==
  ASSUME TypeOK, NEW kind, Fault(kind)
  PROVE  faults' \in 0..MaxFaults
BY RunnerAssumption DEF TypeOK, Fault

(* Every step of a command keeps the types. *)
LEMMA CliStepType ==
  ASSUME TypeOK, NEW c \in Cli, CliStep(c)
  PROVE  TypeOK'
<1> USE DEF CommandStates, Operations
<1>0. QueueTypeOK
  BY DEF TypeOK
<1>1. ASSUME NEW pc \in CommandStates, CommandStarts(c, pc), QueueTypeOK'
      PROVE  TypeOK'
  <2>1. commands' \in 0..MaxCommands
    BY <1>1, RunnerAssumption DEF TypeOK, CommandStarts
  <2>2. cmd' \in [Cli -> Commands]
    BY <1>1, CommandGotoType DEF CommandStarts
  <2> QED BY <1>1, <2>1, <2>2 DEF TypeOK, CommandStarts
<1>2. ASSUME NEW pc \in CommandStates, CommandGoto(c, pc), OnlyCmd, QueueTypeOK'
      PROVE  TypeOK'
  BY <1>2, CommandGotoType DEF TypeOK, OnlyCmd
<1>3. ASSUME NEW pc \in CommandStates, NEW t \in Token \cup {None}, OnlyCmd,
             cmd' = [cmd EXCEPT ![c] = [pc |-> pc, token |-> t]], QueueTypeOK'
      PROVE  TypeOK'
  BY <1>3 DEF TypeOK, OnlyCmd, Commands
<1>4. ASSUME UNCHANGED procVars, QueueTypeOK' PROVE TypeOK'
  BY <1>4 DEF TypeOK, procVars
<1>5. ASSUME NEW op \in Operations, CliBegin(c, op) PROVE TypeOK'
  BY <1>0, <1>1, <1>5, UnchangedType DEF CliBegin
<1>6. CASE CliStatus(c)
  BY <1>0, <1>1, <1>6, UnchangedType DEF CliStatus
<1>7. ASSUME NEW w \in Work, CliCancel(c, w) PROVE TypeOK'
  BY <1>0, <1>1, <1>7, CancelWorkType DEF CliCancel
<1>8. ASSUME NEW w \in Work, CliImportFact(c, w) PROVE TypeOK'
  BY <1>0, <1>4, <1>8, StoreFactType DEF CliImportFact
<1>9. ASSUME NEW w \in Work, NEW t \in Token, CliSchedule(c, w, t)
      PROVE  TypeOK'
  BY <1>0, <1>4, <1>9, ScheduleTaskType, IdentType DEF CliSchedule
<1>10. ASSUME NEW w \in Work, NEW t \in Token,
              CliConnectorSync(c, w, t) \/ CliGitSync(c, w, t)
       PROVE  TypeOK'
  BY <1>0, <1>2, <1>10, EnqueueWorkType, IdentType DEF CliConnectorSync, CliGitSync
<1>11. CASE CliPendingToken(c)
  <2>1. QueueTypeOK'
    BY <1>0, <1>11, UnchangedType DEF CliPendingToken
  <2>2. lease.token \in Token \cup {None}
    BY <1>0 DEF QueueTypeOK, Leases
  <2>3. CASE lease.state = "launching" /\ lease.identity = Ident[c]
    BY <1>3, <1>11, <2>1, <2>2, <2>3 DEF CliPendingToken
  <2>4. CASE ~(lease.state = "launching" /\ lease.identity = Ident[c])
    BY <1>3, <1>11, <2>1, <2>4 DEF CliPendingToken
  <2> QED BY <2>3, <2>4
<1>12. ASSUME NEW t \in Token, CliClaimLaunch(c, t) PROVE TypeOK'
  <2>1. QueueTypeOK'
    BY <1>0, <1>12, ClaimLaunchType, IdentType DEF CliClaimLaunch
  <2> QED BY <1>3, <1>12, <2>1 DEF CliClaimLaunch
<1>13. CASE CliClaimRefused(c)
  <2>1. QueueTypeOK'
    BY <1>0, <1>13, ClaimRefusedType DEF CliClaimRefused
  <2> QED BY <1>2, <1>13, <2>1 DEF CliClaimRefused
<1>14. ASSUME NEW r \in Runner, CliSpawn(c, r) PROVE TypeOK'
  <2>1. cmd' \in [Cli -> Commands]
    BY <1>14, CommandGotoType DEF CliSpawn
  <2>2. cmd[c].token \in Token \cup {None}
    BY DEF TypeOK, Commands
  <2>3. proc' \in [Runner -> Processes]
    BY <1>14, <2>2 DEF CliSpawn, TypeOK, Processes, RunnerStates
  <2>4. owner' \in [Work -> Owner \cup {None}]
    BY <1>0, <1>14 DEF CliSpawn, QueueTypeOK
  <2>5. lease' \in Leases
    BY <1>0, <1>14, LeaseRecord DEF CliSpawn, QueueTypeOK
  <2>6. QueueTypeOK'
    BY <1>0, <1>14, <2>4, <2>5 DEF CliSpawn, QueueTypeOK
  <2> QED BY <1>14, <2>1, <2>3, <2>6 DEF TypeOK, CliSpawn
<1>15. CASE CliSpawnFails(c)
  <2>1. cmd' \in [Cli -> Commands]
    BY <1>15 DEF CliSpawnFails, TypeOK, Commands
  <2>2. QueueTypeOK' /\ UNCHANGED <<proc, commands>>
    BY <1>0, <1>15, UnchangedType DEF CliSpawnFails
  <2>3. faults' \in 0..MaxFaults
    BY <1>15, FaultType DEF CliSpawnFails
  <2> QED BY <2>1, <2>2, <2>3 DEF TypeOK
<1>16. CASE CliClearLaunch(c)
  BY <1>0, <1>2, <1>16, ClearFailedLaunchType DEF CliClearLaunch
<1>17. CASE CliAborts(c)
  <2>1. cmd' \in [Cli -> Commands]
    BY <1>17, CommandGotoType DEF CliAborts
  <2>2. QueueTypeOK' /\ UNCHANGED <<proc, commands>>
    BY <1>0, <1>17, UnchangedType DEF CliAborts
  <2>3. faults' \in 0..MaxFaults
    BY <1>17, FaultType DEF CliAborts
  <2> QED BY <2>1, <2>2, <2>3 DEF TypeOK
<1> QED
  BY <1>5, <1>6, <1>7, <1>8, <1>9, <1>10, <1>11, <1>12, <1>13, <1>14, <1>15,
     <1>16, <1>17 DEF CliStep

(* Every step of the extraction a runner performs keeps the types. *)
LEMMA ExtractType ==
  ASSUME TypeOK, NEW r \in Runner, Extract(r), proc[r].job \in Work
  PROVE  TypeOK'
<1> USE DEF RunnerStates
<1>0. QueueTypeOK
  BY DEF TypeOK
<1>1. ASSUME NEW pc \in RunnerStates, Goto(r, pc), OnlyProc, UNCHANGED queueVars
      PROVE  TypeOK'
  BY <1>0, <1>1, GotoType, UnchangedType
<1>2. ASSUME NEW pc \in RunnerStates, NEW s \in WorkStates,
             Goto(r, pc), OnlyProc, SetTaskState(proc[r].job, s)
      PROVE  TypeOK'
  BY <1>0, <1>2, GotoType, SetTaskStateType
<1>3. CASE AcquireFinds(r) \/ AcquireDefers(r) \/ AcquireGrants(r)
           \/ ExtractionCancelled(r)
  BY <1>1, <1>3
     DEF AcquireFinds, AcquireDefers, AcquireGrants, ExtractionCancelled
<1>4. CASE RejectForeign(r) \/ TaskFound(r) \/ TaskDeferred(r) \/ TaskGranted(r)
           \/ ClaimCompleted(r) \/ ClaimLost(r)
  BY <1>2, <1>4
     DEF RejectForeign, TaskFound, TaskDeferred, TaskGranted, ClaimCompleted, ClaimLost
<1>5. CASE ExtractionFails(r)
  BY <1>0, <1>5, GotoType, FailWorkType DEF ExtractionFails
<1>6. CASE PublishResult(r)
  BY <1>0, <1>6, GotoType, StoreFactType DEF PublishResult
<1> QED BY <1>3, <1>4, <1>5, <1>6 DEF Extract

-----------------------------------------------------------------------------
(* A runner has an item exactly while it works on one.                     *)
BusyStates == {"serving", "acquiring", "found", "deferred", "granted",
               "extracting", "publishing", "finishing"}
JobsMatch ==
  \A r \in Runner : proc[r].job # None <=> proc[r].pc \in BusyStates

LEMMA BusyJob ==
  ASSUME TypeOK, JobsMatch, NEW r \in Runner, proc[r].pc \in BusyStates
  PROVE  proc[r].job \in Work
BY ProcessRecord DEF TypeOK, JobsMatch

(* Every step of a runner's main thread keeps the types. *)
LEMMA RunnerStepType ==
  ASSUME TypeOK, JobsMatch, NEW r \in Runner, RunnerStep(r)
  PROVE  TypeOK'
<1> USE DEF RunnerStates
<1>0. QueueTypeOK /\ r \in Owner
  BY IdentType DEF TypeOK
<1>1. CASE Adopt(r)
  <2>1. CASE /\ AdoptRunner(r)
             /\ proc' = [proc EXCEPT ![r].pc = "syncing", ![r].token = None]
    <3>1. QueueTypeOK'
      BY <1>0, <2>1, LeaseUpdateType
    <3>2. [proc[r] EXCEPT !.pc = "syncing", !.token = None] \in Processes
      BY ProcessRecord DEF TypeOK
    <3>3. proc' \in [Runner -> Processes]
      BY <2>1, <3>2 DEF TypeOK
    <3> QED BY <1>1, <3>1, <3>3 DEF TypeOK, Adopt, OnlyProc
  <2>2. CASE UNCHANGED queueVars /\ Exit(r)
    BY <1>0, <1>1, <2>2, UnchangedType, GotoType DEF Adopt
  <2> QED BY <1>1, <2>1, <2>2 DEF Adopt
<1>2. ASSUME NEW pc \in RunnerStates, NEW j \in Work \cup {None}, OnlyProc,
             proc' = [proc EXCEPT ![r].pc = pc, ![r].job = j], QueueTypeOK'
      PROVE  TypeOK'
  <2>1. [proc[r] EXCEPT !.pc = pc, !.job = j] \in Processes
    BY ProcessRecord DEF TypeOK
  <2>2. proc' \in [Runner -> Processes]
    BY <1>2, <2>1 DEF TypeOK
  <2> QED BY <1>2, <2>2 DEF TypeOK, OnlyProc
<1>3. CASE StartLoop(r)
  BY <1>0, <1>3, UnchangedType, GotoType DEF StartLoop
<1>4. ASSUME NEW w \in Work, Claim(r, w) PROVE TypeOK'
  BY <1>0, <1>2, <1>4, ClaimNextWorkType DEF Claim
<1>5. CASE ClaimFindsNothing(r)
  <2>1. QueueTypeOK'
    BY <1>0, <1>5, ClaimNothingType DEF ClaimFindsNothing
  <2> QED BY <1>5, <2>1, GotoType DEF ClaimFindsNothing
<1>6. CASE ClaimDies(r)
  <2>1. QueueTypeOK'
    BY <1>0, <1>6, UnchangedType DEF ClaimDies, ClaimThrows
  <2> QED BY <1>6, <2>1, GotoType DEF ClaimDies
<1>7. CASE Release(r)
  <2>1. QueueTypeOK'
    BY <1>0, <1>7, ReleaseType, UnchangedType DEF Release, ReleaseRefused
  <2> QED BY <1>7, <2>1, GotoType DEF Release
<1>8. CASE ServeDone(r) \/ FinishTask(r)
  <2>1. proc[r].job \in Work
    BY <1>8, BusyJob DEF ServeDone, FinishTask, At, BusyStates
  <2>2. QueueTypeOK'
    BY <1>0, <1>8, <2>1, CompleteWorkType DEF ServeDone, FinishTask
  <2> QED BY <1>2, <1>8, <2>2 DEF ServeDone, FinishTask
<1>9. CASE ServeFails(r)
  <2>1. proc[r].job \in Work
    BY <1>9, BusyJob DEF ServeFails, At, BusyStates
  <2>2. QueueTypeOK'
    BY <1>0, <1>9, <2>1, FailWorkType, UnchangedType DEF ServeFails, FailWorkThrows
  <2> QED BY <1>2, <1>9, <2>2, GotoType DEF ServeFails
<1>10. CASE Extract(r)
  <2>1. proc[r].pc \in BusyStates
    BY <1>10 DEF Extract, RejectForeign, AcquireFinds, AcquireDefers,
       AcquireGrants, TaskFound, TaskDeferred, TaskGranted, ExtractionCancelled,
       ExtractionFails, PublishResult, ClaimCompleted, ClaimLost, At, BusyStates
  <2> QED BY <1>10, <2>1, BusyJob, ExtractType
<1> QED
  BY <1>1, <1>3, <1>4, <1>5, <1>6, <1>7, <1>8, <1>9, <1>10 DEF RunnerStep

(* The types and the jobs are kept by every step. *)
LEMMA TypeStep ==
  ASSUME TypeOK, JobsMatch, [Next]_vars
  PROVE  TypeOK'
<1>0. QueueTypeOK
  BY DEF TypeOK
<1>1. ASSUME UNCHANGED procVars, QueueTypeOK' PROVE TypeOK'
  BY <1>1 DEF TypeOK, procVars
<1>2. ASSUME NEW c \in Cli, CliStep(c) PROVE TypeOK'
  BY <1>2, CliStepType
<1>3. ASSUME NEW r \in Runner, RunnerStep(r) PROVE TypeOK'
  BY <1>3, RunnerStepType
<1>4. ASSUME NEW r \in Runner, Heartbeat(r) PROVE TypeOK'
  BY <1>0, <1>1, <1>4, LeaseUpdateType, IdentType DEF Heartbeat
<1>5. ASSUME NEW r \in Runner, Crash(r) PROVE TypeOK'
  <2>1. faults' \in 0..MaxFaults
    BY <1>5, FaultType DEF Crash
  <2>2. proc' \in [Runner -> Processes]
    BY <1>5, OffType DEF Crash, Exit, TypeOK
  <2>3. QueueTypeOK' /\ UNCHANGED <<cmd, commands>>
    BY <1>0, <1>5, UnchangedType DEF Crash
  <2> QED BY <2>1, <2>2, <2>3 DEF TypeOK
<1>6. ASSUME NEW r \in Runner, NEW w \in Work,
             ImportTask(r, w) \/ ImportFact(r, w)
      PROVE  TypeOK'
  BY <1>0, <1>1, <1>6, ScheduleQuietlyType, StoreFactType DEF ImportTask, ImportFact
<1>7. CASE Tick
  BY <1>0, <1>1, <1>7, ClockTickType DEF Tick
<1>8. CASE UNCHANGED vars
  BY <1>0, <1>1, <1>8, UnchangedType DEF vars, queueVars, procVars
<1> QED BY <1>2, <1>3, <1>4, <1>5, <1>6, <1>7, <1>8 DEF Next

LEMMA JobsStep ==
  ASSUME TypeOK, JobsMatch, [Next]_vars
  PROVE  JobsMatch'
<1> USE DEF BusyStates
<1>0. None \notin Work /\ proc \in [Runner -> Processes]
  BY QueueAssumption DEF TypeOK
<1>1. ASSUME NEW r \in Runner, NEW pc, Goto(r, pc),
             pc \in BusyStates <=> proc[r].pc \in BusyStates
      PROVE  JobsMatch'
  BY <1>0, <1>1 DEF JobsMatch, Goto, Processes
<1>2. ASSUME NEW r \in Runner, Exit(r) PROVE JobsMatch'
  BY <1>0, <1>2 DEF JobsMatch, Exit, Off, Processes
<1>3. ASSUME NEW r \in Runner, NEW pc, NEW j,
             proc' = [proc EXCEPT ![r].pc = pc, ![r].job = j],
             pc \in BusyStates <=> j # None
      PROVE  JobsMatch'
  BY <1>0, <1>3 DEF JobsMatch, Processes
<1>4. ASSUME UNCHANGED proc PROVE JobsMatch'
  BY <1>4 DEF JobsMatch
<1>5. ASSUME NEW c \in Cli, CliStep(c) PROVE JobsMatch'
  <2>1. ASSUME NEW r \in Runner, CliSpawn(c, r) PROVE JobsMatch'
    BY <1>0, <2>1 DEF CliSpawn, JobsMatch, Processes
  <2>2. CASE \E r \in Runner : CliSpawn(c, r)
    BY <2>1, <2>2
  <2>3. CASE ~\E r \in Runner : CliSpawn(c, r)
    <3>1. UNCHANGED proc
      BY <1>5, <2>3 DEF CliStep, CliBegin, CliStatus, CliCancel, CommandStarts,
         CliImportFact, CliSchedule, CliConnectorSync, CliGitSync, CliPendingToken,
         CliClaimLaunch, CliClaimRefused, CliSpawnFails, CliClearLaunch, CliAborts,
         OnlyCmd, procVars
    <3> QED BY <1>4, <3>1
  <2> QED BY <2>2, <2>3
<1>6. ASSUME NEW r \in Runner, Adopt(r) PROVE JobsMatch'
  <2>1. CASE proc' = [proc EXCEPT ![r].pc = "syncing", ![r].token = None]
    BY <1>0, <1>6, <2>1 DEF Adopt, At, JobsMatch, Processes
  <2> QED BY <1>2, <1>6, <2>1 DEF Adopt
<1>7. ASSUME NEW r \in Runner, NEW w \in Work, Claim(r, w) PROVE JobsMatch'
  BY <1>0, <1>3, <1>7 DEF Claim
<1>8. ASSUME NEW r \in Runner,
             StartLoop(r) \/ ClaimFindsNothing(r) \/ ClaimDies(r) \/ Release(r)
      PROVE  JobsMatch'
  BY <1>1, <1>2, <1>8 DEF StartLoop, ClaimFindsNothing, ClaimDies, Release, At
<1>9. ASSUME NEW r \in Runner, ServeDone(r) \/ ServeFails(r) \/ FinishTask(r)
      PROVE  JobsMatch'
  <2>1. \/ proc' = [proc EXCEPT ![r].pc = "claiming", ![r].job = None]
        \/ Exit(r)
    BY <1>9 DEF ServeDone, ServeFails, FinishTask
  <2>2. "claiming" \in BusyStates <=> None # None
    OBVIOUS
  <2> QED BY <1>2, <1>3, <2>1, <2>2
<1>10. ASSUME NEW r \in Runner, Extract(r) PROVE JobsMatch'
  BY <1>1, <1>10 DEF Extract, RejectForeign, AcquireFinds, AcquireDefers,
     AcquireGrants, TaskFound, TaskDeferred, TaskGranted, ExtractionCancelled,
     ExtractionFails, PublishResult, ClaimCompleted, ClaimLost, At
<1>11. ASSUME NEW r \in Runner, Heartbeat(r) PROVE JobsMatch'
  BY <1>4, <1>11 DEF Heartbeat, procVars
<1>12. ASSUME NEW r \in Runner, Crash(r) PROVE JobsMatch'
  BY <1>2, <1>12 DEF Crash
<1>13. ASSUME NEW r \in Runner, NEW w \in Work,
              ImportTask(r, w) \/ ImportFact(r, w)
       PROVE  JobsMatch'
  BY <1>4, <1>13 DEF ImportTask, ImportFact, procVars
<1>14. CASE Tick
  BY <1>4, <1>14 DEF Tick, procVars
<1>15. CASE UNCHANGED vars
  BY <1>4, <1>15 DEF vars
<1>16. ASSUME NEW r \in Runner, RunnerStep(r) PROVE JobsMatch'
  BY <1>6, <1>7, <1>8, <1>9, <1>10, <1>16 DEF RunnerStep
<1> QED
  BY <1>5, <1>11, <1>12, <1>13, <1>14, <1>15, <1>16 DEF Next

(* Type correctness: whatever commands and runners do, in any number and   *)
(* order, every column and program counter keeps its type, and the         *)
(* counters of attempts and retry delays stay within their limits.         *)
THEOREM TypeCorrect == Spec => []TypeOK
<1>1. Init => TypeOK /\ JobsMatch
  <2>1. ASSUME Init PROVE QueueTypeOK
    <3>1. 0 \in 0..MaxAttempts /\ 0 \in 0..BackoffCap
      BY QueueAssumption
    <3>2. NoLease \in Leases /\ <<>> \in Seq(Work)
      BY NoLeaseType, EmptySeq
    <3> QED BY <2>1, <3>1, <3>2 DEF Init, QueueInit, QueueTypeOK
  <2>2. ASSUME Init PROVE /\ proc \in [Runner -> Processes]
                          /\ cmd \in [Cli -> Commands]
                          /\ commands \in 0..MaxCommands /\ faults \in 0..MaxFaults
    <3>1. Idle \in Commands
      BY DEF Idle, Commands, CommandStates, Operations
    <3>2. 0 \in 0..MaxCommands /\ 0 \in 0..MaxFaults
      BY RunnerAssumption
    <3> QED BY <2>2, <3>1, <3>2, OffType DEF Init
  <2>3. ASSUME Init PROVE JobsMatch
    BY <2>3 DEF Init, JobsMatch, Off, BusyStates
  <2> QED BY <2>1, <2>2, <2>3 DEF TypeOK
<1>2. TypeOK /\ JobsMatch /\ [Next]_vars => (TypeOK /\ JobsMatch)'
  BY TypeStep, JobsStep
<1> QED BY <1>1, <1>2, PTL DEF Spec

-----------------------------------------------------------------------------
(* The lease.  Methods other than adopt_runner, heartbeat_runner and       *)
(* release_runner_if_empty leave an active, fresh lease alone.             *)

LeaseKept == lease' = lease \/ ~(lease.state = "active" /\ Fresh)

LEMMA LeaseAge ==
  ASSUME QueueTypeOK
  PROVE  lease.age \in Nat /\ LeaseTimeout \in Nat
<1>1. LeaseTimeout \in Nat
  BY QueueAssumption
<1>2. lease.age \in 0..(LeaseTimeout + 1)
  BY DEF QueueTypeOK, Leases
<1> QED BY <1>1, <1>2

LEMMA NotFreshIfReplaced ==
  ASSUME QueueTypeOK, NEW t, NEW id
  PROVE  LeaseAfterEnqueue(t, id) = lease \/ ~Fresh
BY LeaseAge DEF LeaseAfterEnqueue, Stale, Fresh

LEMMA CommandsKeepLease ==
  ASSUME QueueTypeOK, NEW c \in Cli, CliStep(c),
         ~\E r \in Runner : CliSpawn(c, r)
  PROVE  LeaseKept /\ UNCHANGED proc
<1>1. UNCHANGED proc
  BY DEF CliStep, CliBegin, CliStatus, CliCancel, CommandStarts,
     CliImportFact, CliSchedule, CliConnectorSync, CliGitSync, CliPendingToken,
     CliClaimLaunch, CliClaimRefused, CliSpawnFails, CliClearLaunch, CliAborts,
     OnlyCmd, procVars
<1>2. ASSUME NEW w \in Work, NEW t \in Token,
             CliSchedule(c, w, t) \/ CliConnectorSync(c, w, t) \/ CliGitSync(c, w, t)
      PROVE  LeaseKept
  <2>1. lease' = lease \/ lease' = LeaseAfterEnqueue(t, Ident[c])
    BY <1>2 DEF CliSchedule, CliConnectorSync, CliGitSync, ScheduleTask, EnqueueWork
  <2> QED BY <2>1, NotFreshIfReplaced DEF LeaseKept
<1>3. ASSUME NEW t \in Token, CliClaimLaunch(c, t) PROVE LeaseKept
  BY <1>3 DEF CliClaimLaunch, ClaimRunnerLaunch, LeaseKept
<1>4. CASE CliClaimRefused(c)
  <2>1. lease' = lease \/ ~Fresh
    BY <1>4 DEF CliClaimRefused, ClaimRunnerLaunchRefused, queueVars
  <2> QED BY <1>1, <2>1 DEF LeaseKept
<1>5. CASE CliClearLaunch(c)
  <2>1. lease' = lease \/ lease.state = "launching"
    BY <1>5 DEF CliClearLaunch, ClearFailedLaunch
  <2> QED BY <1>1, <2>1 DEF LeaseKept
<1>6. ASSUME NEW w \in Work, CliCancel(c, w) \/ CliImportFact(c, w)
      PROVE  LeaseKept
  BY <1>6 DEF CliCancel, CancelWork, CliImportFact, StoreFact, LeaseKept
<1>7. ASSUME NEW op \in Operations,
             \/ CliBegin(c, op) \/ CliStatus(c) \/ CliPendingToken(c)
             \/ CliSpawnFails(c) \/ CliAborts(c)
      PROVE  LeaseKept
  BY <1>7 DEF CliBegin, CliStatus, CliPendingToken, CliSpawnFails, CliAborts,
     queueVars, LeaseKept
<1> QED
  BY <1>1, <1>2, <1>3, <1>4, <1>5, <1>6, <1>7 DEF CliStep, Operations

LEMMA RunnersKeepLease ==
  ASSUME NEW r \in Runner, RunnerStep(r), ~Adopt(r), ~Release(r)
  PROVE  lease' = lease /\ Live(r)
<1>1. CASE \/ StartLoop(r) \/ ClaimFindsNothing(r) \/ ClaimDies(r)
           \/ \E w \in Work : Claim(r, w)
  BY <1>1 DEF StartLoop, ClaimFindsNothing, ClaimDies, Claim, At, Live, ClaimThrows,
     ClaimNextWork, ClaimNothing, queueVars
<1>2. CASE ServeDone(r) \/ ServeFails(r) \/ FinishTask(r)
  BY <1>2 DEF ServeDone, ServeFails, FinishTask, CompleteWork, FailWork,
     FailWorkThrows, At, Live, queueVars
<1>3. CASE Extract(r)
  BY <1>3 DEF Extract, RejectForeign, AcquireFinds, AcquireDefers,
     AcquireGrants, TaskFound, TaskDeferred, TaskGranted, ExtractionCancelled,
     ExtractionFails, PublishResult, ClaimCompleted, ClaimLost, At, Live,
     SetTaskState, FailTask, StoreFact, queueVars
<1> QED BY <1>1, <1>2, <1>3 DEF RunnerStep

(* A step changes the program counter of the stepping runner only. *)
LEMMA OnlyOneMoves ==
  ASSUME TypeOK, NEW r \in Runner, RunnerStep(r) \/ Crash(r)
  PROVE  \A q \in Runner \ {r} : proc'[q] = proc[q]
<1>1. proc \in [Runner -> Processes]
  BY DEF TypeOK
<1>2. CASE Extract(r)
  <2>1. \E pc : Goto(r, pc)
    BY <1>2 DEF Extract, RejectForeign, AcquireFinds, AcquireDefers,
       AcquireGrants, TaskFound, TaskDeferred, TaskGranted, ExtractionCancelled,
       ExtractionFails, PublishResult, ClaimCompleted, ClaimLost
  <2> QED BY <1>1, <2>1 DEF Goto
<1>3. CASE RunnerStep(r) /\ ~Extract(r)
  BY <1>1, <1>3 DEF RunnerStep, Adopt, StartLoop, Claim, ClaimFindsNothing, ClaimDies,
     Release, ServeDone, ServeFails, FinishTask, Goto, Exit
<1>4. CASE Crash(r)
  BY <1>1, <1>4 DEF Crash, Exit
<1> QED BY <1>2, <1>3, <1>4

LEMMA LeaseStep ==
  ASSUME TimelyHeartbeats, TypeOK, LiveRunnerHoldsLease, [Next]_vars
  PROVE  LiveRunnerHoldsLease'
<1>0. /\ proc \in [Runner -> Processes] /\ QueueTypeOK
      /\ lease.age \in Nat /\ LeaseTimeout \in Nat
  BY LeaseAge DEF TypeOK
<1>1. ASSUME LeaseKept, \A q \in Runner : Live(q)' => Live(q)
      PROVE  LiveRunnerHoldsLease'
  BY <1>1 DEF LiveRunnerHoldsLease, LeaseKept, HoldsLease, Fresh
<1>2. ASSUME NEW c \in Cli, CliStep(c) PROVE LiveRunnerHoldsLease'
  <2>1. ASSUME NEW r \in Runner, CliSpawn(c, r) PROVE LiveRunnerHoldsLease'
    <3>1. \A q \in Runner : Live(q)' => Live(q) /\ q # r
      BY <1>0, <2>1 DEF CliSpawn, Live
    <3>2. ASSUME NEW q \in Runner, Live(q)' PROVE HoldsLease(q)' /\ Fresh'
      <4>1. HoldsLease(q) /\ Fresh /\ q # r
        BY <3>1, <3>2 DEF LiveRunnerHoldsLease
      <4>2. lease' = lease
        BY <2>1, <4>1 DEF CliSpawn, HoldsLease
      <4> QED BY <4>1, <4>2 DEF HoldsLease, Fresh
    <3> QED BY <3>2 DEF LiveRunnerHoldsLease
  <2>2. CASE ~\E r \in Runner : CliSpawn(c, r)
    BY <1>0, <1>1, <1>2, <2>2, CommandsKeepLease DEF Live
  <2> QED BY <2>1, <2>2
<1>3. ASSUME NEW r \in Runner, Adopt(r) PROVE LiveRunnerHoldsLease'
  <2>1. CASE AdoptRunner(r) /\ CanAdopt(proc[r].token, Ident[proc[r].cli])
    <3>1. \A q \in Runner : ~Live(q)
      BY <2>1 DEF LiveRunnerHoldsLease, HoldsLease, CanAdopt
    <3>2. \A q \in Runner : Live(q)' => q = r
      BY <1>3, <3>1, OnlyOneMoves DEF RunnerStep, Live
    <3>3. lease'.state = "active" /\ lease'.owner = r /\ lease'.age = 0
      BY <1>0, <2>1 DEF AdoptRunner, QueueTypeOK, Leases
    <3> QED BY <1>0, <3>2, <3>3 DEF LiveRunnerHoldsLease, HoldsLease, Fresh
  <2>2. CASE UNCHANGED queueVars /\ Exit(r)
    <3>1. \A q \in Runner : Live(q)' => Live(q)
      BY <1>0, <2>2 DEF Exit, Off, Live
    <3> QED BY <1>1, <2>2, <3>1 DEF LeaseKept, queueVars
  <2> QED BY <1>3, <2>1, <2>2 DEF Adopt
<1>4. ASSUME NEW r \in Runner, Release(r) PROVE LiveRunnerHoldsLease'
  <2>1. CASE ReleaseRunner(r) /\ Exit(r)
    <3>1. \A q \in Runner : Live(q) => q = r
      BY <2>1 DEF LiveRunnerHoldsLease, HoldsLease, ReleaseRunner
    <3>2. \A q \in Runner : ~Live(q)'
      BY <1>0, <2>1, <3>1 DEF Exit, Off, Live
    <3> QED BY <3>2 DEF LiveRunnerHoldsLease
  <2>2. CASE ReleaseRefused(r)
    <3>1. \A q \in Runner : Live(q)' => Live(q)
      BY <1>4, OnlyOneMoves DEF RunnerStep, Release, At, Live
    <3> QED BY <1>1, <2>2, <3>1 DEF LeaseKept, ReleaseRefused, queueVars
  <2> QED BY <1>4, <2>1, <2>2 DEF Release
<1>5. ASSUME NEW r \in Runner, RunnerStep(r), ~Adopt(r), ~Release(r)
      PROVE  LiveRunnerHoldsLease'
  <2>1. lease' = lease /\ Live(r)
    BY <1>5, RunnersKeepLease
  <2>2. \A q \in Runner : Live(q)' => Live(q)
    BY <1>5, <2>1, OnlyOneMoves DEF Live
  <2> QED BY <1>1, <2>1, <2>2 DEF LeaseKept
<1>6. ASSUME NEW r \in Runner, Heartbeat(r) PROVE LiveRunnerHoldsLease'
  <2>1. /\ lease'.state = lease.state /\ lease'.owner = lease.owner
        /\ lease'.age = 0
    BY <1>0, <1>6 DEF Heartbeat, HeartbeatRunner, LiveRunnerHoldsLease, QueueTypeOK, Leases
  <2> QED
    BY <1>0, <1>6, <2>1 DEF Heartbeat, procVars, LiveRunnerHoldsLease, HoldsLease,
       Fresh, Live
<1>7. ASSUME NEW r \in Runner, Crash(r) PROVE LiveRunnerHoldsLease'
  <2>1. \A q \in Runner : Live(q)' => Live(q)
    BY <1>0, <1>7 DEF Crash, Exit, Off, Live
  <2> QED BY <1>1, <1>7, <2>1 DEF Crash, LeaseKept, queueVars
<1>8. ASSUME NEW r \in Runner, NEW w \in Work,
             ImportTask(r, w) \/ ImportFact(r, w)
      PROVE  LiveRunnerHoldsLease'
  BY <1>1, <1>8 DEF ImportTask, ImportFact, ScheduleTaskQuietly, StoreFact, LeaseKept,
     procVars, Live
<1>9. CASE Tick
  <2>1. ASSUME NEW r \in Runner, Live(r)' PROVE HoldsLease(r)' /\ Fresh'
    <3>1. Live(r) /\ HoldsLease(r)
      BY <1>9, <2>1 DEF Tick, procVars, Live, LiveRunnerHoldsLease
    <3>2. lease.age < LeaseTimeout
      BY <1>9, <3>1 DEF Tick
    <3>3. AtMost(lease.age + 1, LeaseTimeout + 1) <= LeaseTimeout
      BY <1>0, <3>2 DEF AtMost
    <3>4. /\ lease'.state = lease.state /\ lease'.owner = lease.owner
          /\ lease'.age = AtMost(lease.age + 1, LeaseTimeout + 1)
      BY <1>0, <1>9, <3>1 DEF Tick, ClockTick, HoldsLease, QueueTypeOK, Leases
    <3> QED BY <3>1, <3>3, <3>4 DEF HoldsLease, Fresh
  <2> QED BY <2>1 DEF LiveRunnerHoldsLease
<1>10. CASE UNCHANGED vars
  BY <1>1, <1>10 DEF vars, LeaseKept, Live
<1> QED
  BY <1>2, <1>3, <1>4, <1>5, <1>6, <1>7, <1>8, <1>9, <1>10 DEF Next

(* The lease is held: as long as no live runner goes longer than           *)
(* LeaseTimeout without a heartbeat, a live runner owns the active, fresh  *)
(* lease, whatever the commands enqueue, recover or clear meanwhile.       *)
THEOREM LeaseHeld ==
  ASSUME TimelyHeartbeats
  PROVE  Spec => []LiveRunnerHoldsLease
<1>1. Init => LiveRunnerHoldsLease
  BY DEF Init, LiveRunnerHoldsLease, Live, Off
<1>2. TypeOK /\ LiveRunnerHoldsLease /\ [Next]_vars => LiveRunnerHoldsLease'
  BY LeaseStep
<1> QED BY <1>1, <1>2, TypeCorrect, PTL DEF Spec

(* At most one runner of a catalog is alive. *)
THEOREM OneRunner ==
  ASSUME TimelyHeartbeats
  PROVE  Spec => []AtMostOneRunner
<1>1. LiveRunnerHoldsLease => AtMostOneRunner
  BY DEF LiveRunnerHoldsLease, AtMostOneRunner, HoldsLease
<1> QED BY <1>1, LeaseHeld, PTL

-----------------------------------------------------------------------------
(* Serial execution.                                                       *)

(* A step that leaves the liveness and the job of every runner as they     *)
(* are is a stutter of SerialExecution.                                    *)
LEMMA SerialStutter ==
  ASSUME \A r \in Runner : (Live(r)' <=> Live(r)) /\ proc'[r].job = proc[r].job
  PROVE  UNCHANGED Serial!vars
<1>1. {r \in Runner : Live(r)}' = {r \in Runner : Live(r)}
  OBVIOUS
<1>2. [r \in Runner |-> proc[r].job]' = [r \in Runner |-> proc[r].job]
  OBVIOUS
<1> QED BY <1>1, <1>2 DEF Serial!vars

(* Every step of the queue is a step of SerialExecution or a stutter. *)
LEMMA SerialStep ==
  ASSUME TypeOK, JobsMatch, LiveRunnerHoldsLease, [Next]_vars
  PROVE  [Serial!Next]_(Serial!vars)
<1> DEFINE L == {q \in Runner : Live(q)}
           D == [q \in Runner |-> proc[q].job]
<1>0. proc \in [Runner -> Processes] /\ None \notin Work
  BY QueueAssumption DEF TypeOK
<1>1. ASSUME UNCHANGED proc PROVE UNCHANGED Serial!vars
  BY <1>1, SerialStutter DEF Live
<1>2. ASSUME NEW r \in Runner, Exit(r) PROVE Serial!Stop(r)
  <2>1. L' = L \ {r}
    BY <1>0, <1>2 DEF Exit, Off, Live
  <2>2. D' = [D EXCEPT ![r] = None]
    BY <1>0, <1>2 DEF Exit, Off
  <2> QED BY <2>1, <2>2 DEF Serial!Stop
<1>3. ASSUME NEW r \in Runner, NEW pc, Live(r), pc \notin {"off", "adopting"},
             proc' = [proc EXCEPT ![r].pc = pc, ![r].job = None]
      PROVE  Serial!End(r)
  <2>1. L' = L
    BY <1>0, <1>3 DEF Live, Processes
  <2>2. D' = [D EXCEPT ![r] = None]
    BY <1>0, <1>3 DEF Processes
  <2> QED BY <2>1, <2>2 DEF Serial!End
<1>4. ASSUME NEW r \in Runner, NEW pc, Live(r), pc \notin {"off", "adopting"},
             Goto(r, pc)
      PROVE  UNCHANGED Serial!vars
  <2>1. \A q \in Runner : (Live(q)' <=> Live(q)) /\ proc'[q].job = proc[q].job
    BY <1>0, <1>4 DEF Goto, Live, Processes
  <2> QED BY <2>1, SerialStutter
<1>5. ASSUME NEW c \in Cli, CliStep(c) PROVE UNCHANGED Serial!vars
  <2>1. ASSUME NEW r \in Runner, CliSpawn(c, r) PROVE UNCHANGED Serial!vars
    <3>1. proc[r].job = None
      BY <2>1 DEF CliSpawn, At, JobsMatch, BusyStates
    <3>2. \A q \in Runner : (Live(q)' <=> Live(q)) /\ proc'[q].job = proc[q].job
      BY <1>0, <2>1, <3>1 DEF CliSpawn, Live, At
    <3> QED BY <3>2, SerialStutter
  <2>2. CASE ~\E r \in Runner : CliSpawn(c, r)
    BY <1>1, <1>5, <2>2, CommandsKeepLease DEF TypeOK
  <2> QED BY <2>1, <2>2
<1>6. ASSUME NEW r \in Runner, Adopt(r) PROVE [Serial!Next]_(Serial!vars)
  <2>1. CASE /\ CanAdopt(proc[r].token, Ident[proc[r].cli])
             /\ proc' = [proc EXCEPT ![r].pc = "syncing", ![r].token = None]
    <3>1. L = {}
      BY <2>1 DEF LiveRunnerHoldsLease, HoldsLease, CanAdopt
    <3>2. L' = {r}
      BY <1>0, <2>1, <3>1 DEF Live, Processes
    <3>3. D' = D
      BY <1>0, <2>1 DEF Processes
    <3> QED BY <3>1, <3>2, <3>3 DEF Serial!Next, Serial!Start
  <2>2. CASE Exit(r)
    BY <1>2, <2>2 DEF Serial!Next
  <2> QED BY <1>6, <2>1, <2>2 DEF Adopt
<1>7. ASSUME NEW r \in Runner, NEW w \in Work, Claim(r, w) PROVE Serial!Begin(r, w)
  <2>1. Live(r) /\ HoldsLease(r) /\ proc[r].job = None
    BY <1>7 DEF Claim, ClaimNextWork, At, Live, JobsMatch, BusyStates
  <2>2. L = {r}
    BY <2>1 DEF LiveRunnerHoldsLease, HoldsLease
  <2>3. L' = {r}
    BY <1>0, <1>7, <2>2 DEF Claim, Live, Processes
  <2>4. D' = [D EXCEPT ![r] = w] /\ D[r] = None
    BY <1>0, <1>7, <2>1 DEF Claim, Processes
  <2> QED BY <2>2, <2>3, <2>4 DEF Serial!Begin
<1>8. ASSUME NEW r \in Runner,
             StartLoop(r) \/ ClaimFindsNothing(r) \/ Extract(r)
      PROVE  UNCHANGED Serial!vars
  BY <1>4, <1>8 DEF StartLoop, ClaimFindsNothing, Extract, RejectForeign,
     AcquireFinds, AcquireDefers, AcquireGrants, TaskFound, TaskDeferred,
     TaskGranted, ExtractionCancelled, ExtractionFails, PublishResult,
     ClaimCompleted, ClaimLost, At, Live
<1>9. ASSUME NEW r \in Runner, ClaimDies(r) \/ Release(r)
      PROVE  [Serial!Next]_(Serial!vars)
  <2>1. Live(r) /\ (Exit(r) \/ Goto(r, "claiming"))
    BY <1>9 DEF ClaimDies, Release, At, Live
  <2> QED BY <1>2, <1>4, <2>1 DEF Serial!Next
<1>10. ASSUME NEW r \in Runner, ServeDone(r) \/ ServeFails(r) \/ FinishTask(r)
       PROVE  Serial!Next
  <2>1. /\ Live(r)
        /\ \/ proc' = [proc EXCEPT ![r].pc = "claiming", ![r].job = None]
           \/ Exit(r)
    BY <1>10 DEF ServeDone, ServeFails, FinishTask, At, Live
  <2> QED BY <1>2, <1>3, <2>1 DEF Serial!Next
<1>11. ASSUME NEW r \in Runner, Crash(r) PROVE Serial!Next
  BY <1>2, <1>11 DEF Crash, Serial!Next
<1>12. ASSUME NEW r \in Runner,
              \/ Heartbeat(r)
              \/ \E w \in Work : ImportTask(r, w) \/ ImportFact(r, w)
       PROVE  UNCHANGED Serial!vars
  BY <1>1, <1>12 DEF Heartbeat, ImportTask, ImportFact, procVars
<1>13. CASE Tick
  BY <1>1, <1>13 DEF Tick, procVars
<1>14. CASE UNCHANGED vars
  BY <1>1, <1>14 DEF vars
<1>15. ASSUME NEW r \in Runner, RunnerStep(r)
       PROVE  [Serial!Next]_(Serial!vars)
  BY <1>6, <1>7, <1>8, <1>9, <1>10, <1>15 DEF RunnerStep, Serial!Next
<1> QED
  BY <1>5, <1>11, <1>12, <1>13, <1>14, <1>15 DEF Next

(* The queue implements serial execution: with timely heartbeats every     *)
(* behaviour of commands and runners is one of SerialExecution, in which   *)
(* one runner lives at a time and executes one item at a time.             *)
THEOREM ImplementsSerial ==
  ASSUME TimelyHeartbeats
  PROVE  Spec => SerialSpec
<1>1. Init => Serial!Init
  BY DEF Init, Off, Live, Serial!Init
<1>2. TypeOK /\ JobsMatch /\ LiveRunnerHoldsLease /\ [Next]_vars
        => [Serial!Next]_(Serial!vars)
  BY SerialStep
<1>3. Spec => []JobsMatch
  <2>1. Init => JobsMatch
    BY DEF Init, JobsMatch, Off, BusyStates
  <2>2. TypeOK /\ JobsMatch /\ [Next]_vars => JobsMatch'
    BY JobsStep
  <2> QED BY <2>1, <2>2, TypeCorrect, PTL DEF Spec
<1> QED
  BY <1>1, <1>2, <1>3, TypeCorrect, LeaseHeld, PTL DEF Spec, SerialSpec, Serial!Spec

-----------------------------------------------------------------------------
(* Fencing.  What is executed as an extraction is one, so that run_task's  *)
(* unguarded updates never touch an item of another kind.                  *)

ExtractionStates == BusyStates \ {"serving"}
JobKinds ==
  \A r \in Runner :
    /\ proc[r].pc = "serving" => proc[r].job \in Work \ Extraction
    /\ proc[r].pc \in ExtractionStates => proc[r].job \in Extraction

LEMMA JobKindsStep ==
  ASSUME TypeOK, JobKinds, [Next]_vars
  PROVE  JobKinds'
<1> USE DEF BusyStates, ExtractionStates
<1>0. proc \in [Runner -> Processes]
  BY DEF TypeOK
<1>1. ASSUME NEW r \in Runner, NEW pc, Goto(r, pc), pc # "serving",
             pc \in ExtractionStates => proc[r].pc \in ExtractionStates
      PROVE  JobKinds'
  BY <1>0, <1>1 DEF JobKinds, Goto, Processes, Extraction
<1>2. ASSUME NEW r \in Runner, Exit(r) PROVE JobKinds'
  BY <1>0, <1>2 DEF JobKinds, Exit, Off, Processes, Extraction
<1>3. ASSUME NEW r \in Runner,
             proc' = [proc EXCEPT ![r].pc = "claiming", ![r].job = None]
      PROVE  JobKinds'
  BY <1>0, <1>3 DEF JobKinds, Processes, Extraction
<1>4. ASSUME UNCHANGED proc PROVE JobKinds'
  BY <1>4 DEF JobKinds, Extraction
<1>5. ASSUME NEW c \in Cli, CliStep(c) PROVE JobKinds'
  <2>1. ASSUME NEW r \in Runner, CliSpawn(c, r) PROVE JobKinds'
    BY <1>0, <2>1 DEF CliSpawn, JobKinds, Processes, Extraction
  <2>2. CASE ~\E r \in Runner : CliSpawn(c, r)
    BY <1>4, <1>5, <2>2, CommandsKeepLease DEF TypeOK
  <2> QED BY <2>1, <2>2
<1>6. ASSUME NEW r \in Runner, Adopt(r) PROVE JobKinds'
  <2>1. CASE proc' = [proc EXCEPT ![r].pc = "syncing", ![r].token = None]
    BY <1>0, <2>1 DEF JobKinds, Processes, Extraction
  <2> QED BY <1>2, <1>6, <2>1 DEF Adopt
<1>7. ASSUME NEW r \in Runner, NEW w \in Work, Claim(r, w) PROVE JobKinds'
  <2>1. proc' = [proc EXCEPT ![r].pc = IF w \in Extraction THEN "acquiring" ELSE "serving",
                             ![r].job = w]
    BY <1>7 DEF Claim
  <2> QED BY <1>0, <2>1 DEF JobKinds, Processes, Extraction
<1>8. ASSUME NEW r \in Runner,
             StartLoop(r) \/ ClaimFindsNothing(r) \/ ClaimDies(r) \/ Release(r)
      PROVE  JobKinds'
  BY <1>1, <1>2, <1>8 DEF StartLoop, ClaimFindsNothing, ClaimDies, Release, At
<1>9. ASSUME NEW r \in Runner, ServeDone(r) \/ ServeFails(r) \/ FinishTask(r)
      PROVE  JobKinds'
  BY <1>2, <1>3, <1>9 DEF ServeDone, ServeFails, FinishTask
<1>10. ASSUME NEW r \in Runner, Extract(r) PROVE JobKinds'
  BY <1>1, <1>10 DEF Extract, RejectForeign, AcquireFinds, AcquireDefers,
     AcquireGrants, TaskFound, TaskDeferred, TaskGranted, ExtractionCancelled,
     ExtractionFails, PublishResult, ClaimCompleted, ClaimLost, At
<1>11. ASSUME NEW r \in Runner,
              \/ Heartbeat(r)
              \/ \E w \in Work : ImportTask(r, w) \/ ImportFact(r, w)
       PROVE  JobKinds'
  BY <1>4, <1>11 DEF Heartbeat, ImportTask, ImportFact, procVars
<1>12. ASSUME NEW r \in Runner, Crash(r) PROVE JobKinds'
  BY <1>2, <1>12 DEF Crash
<1>13. CASE Tick
  BY <1>4, <1>13 DEF Tick, procVars
<1>14. CASE UNCHANGED vars
  BY <1>4, <1>14 DEF vars
<1>15. ASSUME NEW r \in Runner, RunnerStep(r) PROVE JobKinds'
  BY <1>6, <1>7, <1>8, <1>9, <1>10, <1>15 DEF RunnerStep
<1> QED BY <1>5, <1>11, <1>12, <1>13, <1>14, <1>15 DEF Next

(* A step that makes no waiting row running and keeps the running rows. *)
LEMMA FencedQueue ==
  ASSUME QueueTypeOK, NEW w \in Work \ Extraction,
         \/ \E v \in Work : InsertRow(v)
         \/ \E v \in Work : RerunRow(v) \/ CancelWork(v)
         \/ \E v \in Extraction : \E s : SetTaskState(v, s)
         \/ \E v \in Extraction : FailTask(v)
         \/ \E v \in Extraction : \E o : CompleteWork(v, o)
         \/ \E v \in Extraction : \E evicted : StoreFact(v, evicted)
         \/ \E o, caps : ClaimNothing(o, caps)
         \/ UNCHANGED state
  PROVE  state[w] = "running" <=> state'[w] = "running"
<1>0. state \in [Work -> WorkStates]
  BY DEF QueueTypeOK
<1>1. CASE \E v \in Work : InsertRow(v)
  BY <1>0, <1>1 DEF InsertRow
<1>2. CASE \E v \in Work : RerunRow(v) \/ CancelWork(v)
  BY <1>0, <1>2 DEF RerunRow, CancelWork
<1>3. CASE \E v \in Extraction : \E s : SetTaskState(v, s)
  BY <1>0, <1>3 DEF SetTaskState
<1>4. CASE \E v \in Extraction : FailTask(v)
  BY <1>0, <1>4 DEF FailTask
<1>5. CASE \E v \in Extraction : \E o : CompleteWork(v, o)
  BY <1>0, <1>5 DEF CompleteWork
<1>6. CASE \E v \in Extraction : \E evicted : StoreFact(v, evicted)
  BY <1>0, <1>6 DEF StoreFact
<1>7. CASE \E o, caps : ClaimNothing(o, caps)
  <2>1. PropagatedState[w] = "running" <=> state[w] = "running"
    BY DEF PropagatedState
  <2>2. MarkedState(RunnableNow)[w] = "running" <=> state[w] = "running"
    BY <2>1 DEF MarkedState, RunnableNow, Runnable
  <2> QED BY <1>7, <2>1, <2>2 DEF ClaimNothing
<1> QED BY <1>1, <1>2, <1>3, <1>4, <1>5, <1>6, <1>7

LEMMA FencedStep ==
  ASSUME TypeOK, JobsMatch, JobKinds, NEW w \in Work \ Extraction, [Next]_vars
  PROVE  Fenced(w)
<1>0. /\ QueueTypeOK /\ state \in [Work -> WorkStates]
      /\ proc \in [Runner -> Processes] /\ None \notin Work
  BY QueueAssumption DEF TypeOK, QueueTypeOK
<1>1. ASSUME state[w] = "running" <=> state'[w] = "running" PROVE Fenced(w)
  BY <1>1 DEF Fenced
<1>2. ASSUME NEW c \in Cli, CliStep(c) PROVE Fenced(w)
  <2>1. ASSUME NEW t \in Token, CliClaimLaunch(c, t) PROVE Fenced(w)
    BY <1>0, <2>1 DEF CliClaimLaunch, ClaimRunnerLaunch, RecoveredState, Recovered, Fenced
  <2>2. CASE CliClaimRefused(c)
    BY <1>0, <2>2 DEF CliClaimRefused, ClaimRunnerLaunchRefused, RecoveredState,
       Recovered, Fenced, queueVars
  <2>3. ASSUME NEW v \in Work, NEW t \in Token,
               CliSchedule(c, v, t) \/ CliConnectorSync(c, v, t) \/ CliGitSync(c, v, t)
        PROVE  Fenced(w)
    <3>1. InsertRow(v) \/ RerunRow(v)
      BY <2>3 DEF CliSchedule, CliConnectorSync, CliGitSync, ScheduleTask, EnqueueWork
    <3> QED BY <1>0, <1>1, <3>1, FencedQueue
  <2>4. ASSUME NEW v \in Work, CliCancel(c, v) \/ CliImportFact(c, v)
        PROVE  Fenced(w)
    <3>1. CancelWork(v) \/ (v \in Extraction /\ \E evicted : StoreFact(v, evicted))
      BY <2>4 DEF CliCancel, CliImportFact
    <3> QED BY <1>0, <1>1, <3>1, FencedQueue
  <2>5. CASE \/ \E op \in Operations : CliBegin(c, op)
             \/ CliStatus(c) \/ CliPendingToken(c) \/ CliClearLaunch(c)
             \/ \E r \in Runner : CliSpawn(c, r)
             \/ CliSpawnFails(c) \/ CliAborts(c)
    <3>1. UNCHANGED state
      BY <2>5 DEF CliBegin, CliStatus, CliPendingToken, CliClearLaunch, CliSpawn,
         CliSpawnFails, CliAborts, ClearFailedLaunch, queueVars
    <3> QED BY <1>0, <1>1, <3>1, FencedQueue
  <2> QED BY <1>2, <2>1, <2>2, <2>3, <2>4, <2>5 DEF CliStep
<1>3. ASSUME NEW r \in Runner, NEW v \in Work, Claim(r, v) PROVE Fenced(w)
  <2>1. state[w] = "running" => state'[w] = "running"
    <3>1. PropagatedState[w] = "running" <=> state[w] = "running"
      BY DEF PropagatedState
    <3>2. ASSUME state[w] = "running"
          PROVE  MarkedState({u \in RunnableNow : Precedes(u, v)})[w] = "running"
      BY <3>1, <3>2 DEF MarkedState, RunnableNow, Runnable
    <3>3. MarkedState({u \in RunnableNow : Precedes(u, v)}) \in [Work -> WorkStates]
      BY <1>0, MarkedType
    <3> QED BY <1>3, <3>2, <3>3 DEF Claim, ClaimNextWork
  <2>2. HoldsLease(r) /\ At(r, "claiming")
    BY <1>3 DEF Claim, ClaimNextWork
  <2>3. proc'[r] # proc[r]
    <3>1. proc'[r].pc # "claiming"
      BY <1>0, <1>3 DEF Claim, Processes
    <3> QED BY <2>2, <3>1 DEF At
  <2> QED BY <2>1, <2>2, <2>3 DEF Fenced
<1>4. ASSUME NEW r \in Runner, ServeDone(r) \/ ServeFails(r) PROVE Fenced(w)
  <2>1. proc'[r] # proc[r]
    <3>1. proc'[r].pc # "serving"
      BY <1>0, <1>4 DEF ServeDone, ServeFails, Exit, Off, Processes
    <3> QED BY <1>4, <3>1 DEF ServeDone, ServeFails, At
  <2>2. \/ UNCHANGED state
        \/ RunsFor(proc[r].job, r) /\ \E s : state' = [state EXCEPT ![proc[r].job] = s]
                                  /\ s # "running"
    BY <1>4 DEF ServeDone, ServeFails, CompleteWork, FailWork, FailWorkThrows,
       StateAfterFailure, queueVars
  <2> QED BY <1>0, <1>4, <2>1, <2>2 DEF Fenced, RunsFor, ServeDone, ServeFails, At
<1>5. ASSUME NEW r \in Runner, Extract(r) PROVE Fenced(w)
  <2>1. proc[r].job \in Extraction
    BY <1>5 DEF Extract, RejectForeign, AcquireFinds, AcquireDefers,
       AcquireGrants, TaskFound, TaskDeferred, TaskGranted, ExtractionCancelled,
       ExtractionFails, PublishResult, ClaimCompleted, ClaimLost, At,
       JobKinds, ExtractionStates, BusyStates
  <2>2. \/ UNCHANGED state
        \/ \E s : SetTaskState(proc[r].job, s)
        \/ FailTask(proc[r].job)
        \/ \E evicted : StoreFact(proc[r].job, evicted)
    BY <1>5 DEF Extract, RejectForeign, AcquireFinds, AcquireDefers,
       AcquireGrants, TaskFound, TaskDeferred, TaskGranted, ExtractionCancelled,
       ExtractionFails, PublishResult, ClaimCompleted, ClaimLost, queueVars
  <2> QED BY <1>0, <1>1, <2>1, <2>2, FencedQueue
<1>6. ASSUME NEW r \in Runner, FinishTask(r) PROVE Fenced(w)
  <2>1. proc[r].job \in Extraction /\ CompleteWork(proc[r].job, r)
    BY <1>6 DEF FinishTask, At, JobKinds, ExtractionStates, BusyStates
  <2> QED BY <1>0, <1>1, <2>1, FencedQueue
<1>7. ASSUME NEW r \in Runner, ClaimFindsNothing(r) PROVE Fenced(w)
  BY <1>0, <1>1, <1>7, FencedQueue DEF ClaimFindsNothing
<1>8. ASSUME NEW r \in Runner,
             \/ Adopt(r) \/ StartLoop(r) \/ ClaimDies(r) \/ Release(r)
             \/ Heartbeat(r) \/ Crash(r)
      PROVE  Fenced(w)
  <2>1. UNCHANGED state
    BY <1>8 DEF Adopt, AdoptRunner, StartLoop, ClaimDies, ClaimThrows, Release,
       ReleaseRunner, ReleaseRefused, Heartbeat, HeartbeatRunner, Crash, queueVars
  <2> QED BY <1>0, <1>1, <2>1, FencedQueue
<1>9. ASSUME NEW r \in Runner, NEW v \in Work, ImportTask(r, v) \/ ImportFact(r, v)
      PROVE  Fenced(w)
  <2>1. InsertRow(v) \/ (v \in Extraction /\ \E evicted : StoreFact(v, evicted))
    BY <1>9 DEF ImportTask, ImportFact, ScheduleTaskQuietly
  <2> QED BY <1>0, <1>1, <2>1, FencedQueue
<1>10. CASE Tick \/ UNCHANGED vars
  <2>1. UNCHANGED state
    BY <1>10 DEF Tick, ClockTick, vars
  <2> QED BY <1>0, <1>1, <2>1, FencedQueue
<1>11. ASSUME NEW r \in Runner, RunnerStep(r) PROVE Fenced(w)
  BY <1>3, <1>4, <1>5, <1>6, <1>7, <1>8, <1>11 DEF RunnerStep
<1> QED BY <1>2, <1>8, <1>9, <1>10, <1>11 DEF Next

(* Fencing: an item that is no extraction is started by the lease holder   *)
(* only and leaves the running state by the hand of the process that runs  *)
(* it, or when no fresh lease is left.  No timely heartbeats are assumed:  *)
(* any number of superseded runners may still be at work.                  *)
THEOREM SyncWorkFenced == Spec => SyncWorkIsFenced
<1>1. Init => JobKinds
  BY DEF Init, JobKinds, Off, ExtractionStates, BusyStates
<1>2. TypeOK /\ JobKinds /\ [Next]_vars => JobKinds'
  BY JobKindsStep
<1>3. Init => JobsMatch
  BY DEF Init, JobsMatch, Off, BusyStates
<1>4. TypeOK /\ JobsMatch /\ [Next]_vars => JobsMatch'
  BY JobsStep
<1>5. TypeOK /\ JobsMatch /\ JobKinds /\ [Next]_vars =>
        [\A w \in Work \ Extraction : Fenced(w)]_vars
  BY FencedStep
<1> QED
  BY <1>1, <1>2, <1>3, <1>4, <1>5, TypeCorrect, PTL DEF Spec, SyncWorkIsFenced

-----------------------------------------------------------------------------
(* The rows: what happens to an extraction, to a retry and to work that a  *)
(* command leaves behind.  run_task updates its row by work id alone, so   *)
(* all of it rests on the lease: with timely heartbeats nobody but the one *)
(* live runner takes its row away from it.                                 *)

(* run_task is between the claim of the row and its last update of it.     *)
Working == {"acquiring", "found", "deferred", "granted", "extracting", "publishing"}

(* The row of the extraction a runner executes.                            *)
JobInv(r) ==
  LET w == proc[r].job
  IN  /\ proc[r].pc \in Working => state[w] \in {"running", "completed"}
      /\ proc[r].pc \in Working \ {"found"} => attempts[w] < MaxAttempts
      /\ proc[r].pc \in {"found", "publishing"} => w \in facts
      /\ proc[r].pc = "finishing" /\ state[w] = "running" => cancel[w]

(* A row by itself: a completed extraction has its result, and a row whose *)
(* attempts are used up is final.                                          *)
Final(w) == IF w \in Extraction THEN Settled ELSE {"failed", "cancelled"}
RowInv(w) ==
  /\ w \in Extraction /\ state[w] = "completed" => w \in facts
  /\ attempts[w] = MaxAttempts => state[w] \in Final(w)

ResultInv == (\A r \in Runner : JobInv(r)) /\ (\A w \in Work : RowInv(w))

QueueInv == TypeOK /\ JobsMatch /\ JobKinds /\ LiveRunnerHoldsLease /\ ResultInv

(* What a step may do to an extraction that the stepping process does not  *)
(* execute: complete it with a result, or move it while it is not settled  *)
(* and nobody executes it.                                                 *)
Bystander(w) ==
  /\ facts \subseteq facts'
  /\ attempts'[w] = attempts[w]
  /\ cancel[w] => cancel'[w]
  /\ \/ state'[w] = state[w]
     \/ state'[w] = "completed" /\ w \in facts'
     \/ /\ state[w] \notin Settled
        /\ state'[w] \notin {"completed", "running"}
        /\ state[w] = "running" => \A r \in Runner : ~Live(r)

(* A step that treats every row but those of own as a bystander's.         *)
Bystanders(own) ==
  /\ \A w \in Extraction \ own : Bystander(w)
  /\ \A w \in (Work \ Extraction) \ own : RowInv(w)'

FinalKept ==
  \A w \in Extraction :
    state[w] \in {"failed", "cancelled"} => state'[w] \in {state[w], "completed"}

-----------------------------------------------------------------------------
(* A bystander's row keeps what the invariant says of it and of its runner. *)
LEMMA BystanderKept ==
  ASSUME TypeOK, NEW w \in Extraction, Bystander(w), RowInv(w)
  PROVE  /\ RowInv(w)'
         /\ state[w] \in {"failed", "cancelled"} => state'[w] \in {state[w], "completed"}
         /\ \A r \in Runner :
              Live(r) /\ JobInv(r) /\ proc[r].job = w /\ proc'[r] = proc[r] => JobInv(r)'
<1>1. w \in Work /\ Final(w) = Settled /\ Final(w)' = Settled
  BY DEF Extraction, Final
<1>2. RowInv(w)'
  <2>1. state'[w] = "completed" => w \in facts'
    BY <1>1 DEF RowInv, Bystander
  <2>2. attempts'[w] = MaxAttempts => state'[w] \in Settled
    BY <1>1 DEF RowInv, Bystander
  <2>3. (w \in Extraction)' /\ Final(w)' = Settled
    BY <1>1 DEF Extraction
  <2> QED BY <2>1, <2>2, <2>3 DEF RowInv
<1>3. ASSUME NEW r \in Runner, Live(r), JobInv(r), proc[r].job = w, proc'[r] = proc[r]
      PROVE  JobInv(r)'
  <2>1. state[w] \in {"running", "completed"} => state'[w] \in {"running", "completed"}
    BY <1>3 DEF Bystander
  <2>2. state'[w] = "running" => state[w] = "running"
    BY DEF Bystander
  <2> QED BY <1>3, <2>1, <2>2 DEF JobInv, Bystander
<1> QED BY <1>2, <1>3 DEF Bystander

(* A step without own rows, in which runners stay where they are or leave  *)
(* run_task.                                                               *)
LEMMA KeptInv ==
  ASSUME QueueInv, Bystanders({}),
         \A r \in Runner : \/ proc'[r] = proc[r]
                           \/ proc'[r].pc \notin Working \cup {"finishing"}
  PROVE  ResultInv' /\ FinalKept
<1>1. \A w \in Extraction : Bystander(w) /\ RowInv(w)
  BY DEF QueueInv, ResultInv, Bystanders, Extraction
<1>2. \A w \in Work : RowInv(w)'
  BY <1>1, BystanderKept DEF QueueInv, Bystanders
<1>3. FinalKept
  BY <1>1, BystanderKept DEF QueueInv, FinalKept
<1>4. ASSUME NEW r \in Runner PROVE JobInv(r)'
  <2>1. CASE proc'[r].pc \notin Working \cup {"finishing"}
    BY <2>1 DEF JobInv, Working
  <2>2. CASE proc'[r] = proc[r] /\ proc[r].pc \in Working \cup {"finishing"}
    <3>1. Live(r) /\ proc[r].job \in Extraction /\ JobInv(r)
      BY <2>2 DEF QueueInv, ResultInv, Live, JobKinds, ExtractionStates, BusyStates, Working
    <3> QED BY <1>1, <2>2, <3>1, BystanderKept DEF QueueInv
  <2> QED BY <2>1, <2>2
<1> QED BY <1>2, <1>3, <1>4 DEF ResultInv

(* A step of the live runner r on the row w.                               *)
LEMMA OwnInv ==
  ASSUME QueueInv, NEW r \in Runner, Live(r), NEW w \in Work, Bystanders({w}),
         \A q \in Runner \ {r} : proc'[q] = proc[q],
         JobInv(r)', RowInv(w)',
         state[w] \in {"failed", "cancelled"} => state'[w] \in {state[w], "completed"}
  PROVE  ResultInv' /\ FinalKept
<1>1. \A u \in Extraction \ {w} : Bystander(u) /\ RowInv(u)
  BY DEF QueueInv, ResultInv, Bystanders, Extraction
<1>2. \A u \in Work : RowInv(u)'
  BY <1>1, BystanderKept DEF QueueInv, Bystanders
<1>3. FinalKept
  BY <1>1, BystanderKept DEF QueueInv, FinalKept
<1>4. ASSUME NEW q \in Runner \ {r} PROVE JobInv(q)'
  <2>1. ~Live(q)
    BY DEF QueueInv, LiveRunnerHoldsLease, HoldsLease
  <2> QED BY <2>1 DEF Live, JobInv, Working
<1> QED BY <1>2, <1>3, <1>4 DEF ResultInv

-----------------------------------------------------------------------------
(* What each method of the catalog does to the rows.                       *)

(* A method that only moves rows which are not settled.                    *)
LEMMA MovesRows ==
  ASSUME QueueInv, NEW own, UNCHANGED <<attempts, facts>>,
         \A u \in Work : cancel[u] => cancel'[u],
         \A u \in Work \ own :
           \/ state'[u] = state[u]
           \/ /\ state[u] \notin Settled
              /\ state'[u] \notin {"completed", "running"}
              /\ state[u] = "running" => \A r \in Runner : ~Live(r)
  PROVE  Bystanders(own)
<1>1. ASSUME NEW u \in Extraction \ own PROVE Bystander(u)
  BY DEF Bystander, Extraction
<1>2. ASSUME NEW u \in (Work \ Extraction) \ own PROVE RowInv(u)'
  <2>1. RowInv(u)
    BY DEF QueueInv, ResultInv
  <2>2. (u \notin Extraction)' /\ Final(u) = {"failed", "cancelled"}
        /\ Final(u)' = {"failed", "cancelled"}
    BY DEF Extraction, Final
  <2>3. attempts'[u] = MaxAttempts => state'[u] \in {"failed", "cancelled"}
    BY <2>1, <2>2 DEF RowInv
  <2> QED BY <2>2, <2>3 DEF RowInv
<1> QED BY <1>1, <1>2 DEF Bystanders

LEMMA InsertRowMoves ==
  ASSUME QueueInv, NEW w \in Work, InsertRow(w), UNCHANGED <<attempts, cancel, facts>>
  PROVE  Bystanders({})
<1>1. \A u \in Work : state'[u] = state[u] \/ (state[u] = "absent" /\ state'[u] = "pending")
  BY DEF InsertRow, QueueInv, TypeOK, QueueTypeOK
<1> QED BY <1>1, MovesRows

LEMMA EnqueueMoves ==
  ASSUME QueueInv, NEW w \in Work \ Extraction, NEW caps, NEW id, NEW t,
         EnqueueWork(w, caps, id, t)
  PROVE  Bystanders({})
<1>0. QueueTypeOK /\ MaxAttempts # 0
  BY QueueAssumption DEF QueueInv, TypeOK
<1>1. CASE state[w] = "absent"
  BY <1>1, InsertRowMoves DEF EnqueueWork
<1>2. CASE state[w] # "absent"
  <2>1. RerunRow(w) /\ UNCHANGED facts
    BY <1>2 DEF EnqueueWork
  <2>2. \A u \in Work \ {w} : /\ state'[u] = state[u] /\ attempts'[u] = attempts[u]
                              /\ cancel'[u] = cancel[u]
    BY <1>0, <2>1 DEF RerunRow, QueueTypeOK
  <2>3. RowInv(w)'
    <3>1. (w \notin Extraction)' /\ Final(w) = Final(w)' /\ RowInv(w)
      BY DEF Extraction, Final, QueueInv, ResultInv
    <3>2. attempts'[w] = MaxAttempts => state'[w] = state[w] /\ attempts'[w] = attempts[w]
      BY <1>0, <2>1 DEF RerunRow, QueueTypeOK
    <3> QED BY <3>1, <3>2 DEF RowInv
  <2>4. ASSUME NEW u \in Extraction PROVE Bystander(u)
    BY <2>1, <2>2 DEF Bystander, Extraction
  <2>5. ASSUME NEW u \in (Work \ Extraction) \ {w} PROVE RowInv(u)'
    <3>1. RowInv(u) /\ Final(u) = Final(u)' /\ (u \notin Extraction)'
      BY DEF QueueInv, ResultInv, Final, Extraction
    <3> QED BY <2>2, <3>1 DEF RowInv
  <2> QED BY <2>3, <2>4, <2>5 DEF Bystanders
<1> QED BY <1>1, <1>2

(* Completing a row never reschedules another extraction when nothing is   *)
(* evicted, because each completed one has its result.                     *)
LEMMA StoreFactMoves ==
  ASSUME QueueInv, NEW w \in Extraction, StoreFact(w, {})
  PROVE  Bystanders({})
<1>0. QueueTypeOK /\ w \in Work
  BY DEF QueueInv, TypeOK, Extraction
<1>1. facts' = facts \cup {w} /\ UNCHANGED <<attempts, cancel>>
  BY DEF StoreFact
<1>2. ASSUME NEW u \in Extraction PROVE Bystander(u)
  <2>1. u \in Work /\ (state[u] = "completed" => u \in facts)
    BY DEF QueueInv, ResultInv, RowInv, Extraction
  <2>2. state'[u] = IF u = w /\ state[w] # "absent" THEN "completed" ELSE state[u]
    BY <1>0, <1>1, <2>1 DEF StoreFact, QueueTypeOK
  <2> QED BY <1>1, <2>2 DEF Bystander
<1>3. ASSUME NEW u \in Work \ Extraction PROVE RowInv(u)'
  <2>1. RowInv(u) /\ Final(u) = Final(u)' /\ (u \notin Extraction)'
        /\ Final(u) = {"failed", "cancelled"}
    BY DEF QueueInv, ResultInv, Final, Extraction
  <2>2. state[u] \in {"failed", "cancelled"} => state'[u] = state[u]
    BY <1>0 DEF StoreFact, QueueTypeOK
  <2> QED BY <1>1, <2>1, <2>2 DEF RowInv
<1> QED BY <1>2, <1>3 DEF Bystanders

LEMMA MarkedMoves ==
  ASSUME NEW skipped, skipped \subseteq RunnableNow, NEW u \in Work
  PROVE  \/ MarkedState(skipped)[u] = state[u]
         \/ /\ state[u] \in Waiting
            /\ MarkedState(skipped)[u] \in {"failed", "waiting_for_credential"}
BY DEF MarkedState, PropagatedState, RunnableNow, Runnable

LEMMA ClaimNothingMoves ==
  ASSUME QueueInv, NEW o, NEW caps, ClaimNothing(o, caps)
  PROVE  Bystanders({})
<1>1. \A u \in Work : \/ state'[u] = state[u]
                      \/ state[u] \in Waiting /\ state'[u] \in {"failed", "waiting_for_credential"}
  BY MarkedMoves DEF ClaimNothing, PropagatedState
<1> QED BY <1>1, MovesRows DEF ClaimNothing

(* Recovery takes rows from nobody: without a fresh lease no runner lives. *)
LEMMA LaunchMoves ==
  ASSUME QueueInv, NEW caps,
         \/ ClaimRunnerLaunchRefused(caps)
         \/ \E id, t : ClaimRunnerLaunch(caps, id, t)
  PROVE  Bystanders({})
<1>1. CASE Fresh
  <2>1. UNCHANGED queueVars
    BY <1>1 DEF ClaimRunnerLaunchRefused, ClaimRunnerLaunch
  <2> QED BY <2>1, MovesRows DEF queueVars
<1>2. CASE ~Fresh
  <2>1. \A r \in Runner : ~Live(r)
    BY <1>2 DEF QueueInv, LiveRunnerHoldsLease
  <2>2. \A u \in Work :
          \/ RecoveredState[u] = state[u]
          \/ state[u] = "running" /\ RecoveredState[u] = "pending"
    BY DEF RecoveredState, Recovered
  <2>3. \A u \in Work :
          \/ state'[u] = state[u]
          \/ state[u] \notin Settled /\ state'[u] \notin {"completed", "running"}
    BY <1>2, <2>2 DEF ClaimRunnerLaunchRefused, ClaimRunnerLaunch
  <2>4. UNCHANGED <<attempts, facts, cancel>>
    BY <1>2 DEF ClaimRunnerLaunchRefused, ClaimRunnerLaunch
  <2> QED BY <2>1, <2>3, <2>4, MovesRows
<1> QED BY <1>1, <1>2

LEMMA CancelMoves ==
  ASSUME QueueInv, NEW w \in Work, CancelWork(w)
  PROVE  Bystanders({})
<1>0. QueueTypeOK
  BY DEF QueueInv, TypeOK
<1>1. \A u \in Work : cancel[u] => cancel'[u]
  BY <1>0 DEF CancelWork, QueueTypeOK
<1>2. \A u \in Work : \/ state'[u] = state[u]
                      \/ state[u] \notin Settled \cup {"running"} /\ state'[u] = "cancelled"
  BY <1>0 DEF CancelWork, QueueTypeOK
<1> QED BY <1>1, <1>2, MovesRows DEF CancelWork

(* An update of one row by its work id. *)
LEMMA UpdateMoves ==
  ASSUME QueueInv, NEW w \in Work, NEW s, state' = [state EXCEPT ![w] = s],
         UNCHANGED <<cancel, facts>>,
         \A u \in Work \ {w} : attempts'[u] = attempts[u]
  PROVE  Bystanders({w})
<1>0. QueueTypeOK
  BY DEF QueueInv, TypeOK
<1>1. \A u \in Work \ {w} : state'[u] = state[u]
  BY <1>0 DEF QueueTypeOK
<1>2. ASSUME NEW u \in Extraction \ {w} PROVE Bystander(u)
  BY <1>1 DEF Bystander, Extraction
<1>3. ASSUME NEW u \in (Work \ Extraction) \ {w} PROVE RowInv(u)'
  <2>1. RowInv(u) /\ Final(u) = Final(u)' /\ (u \notin Extraction)'
    BY DEF QueueInv, ResultInv, Final, Extraction
  <2> QED BY <1>1, <2>1 DEF RowInv
<1> QED BY <1>2, <1>3 DEF Bystanders

-----------------------------------------------------------------------------
(* Every step keeps the rows and their runner in order.                    *)

(* Commands execute no row.                                                *)
LEMMA CommandRows ==
  ASSUME ~Evicts, QueueInv, NEW c \in Cli, CliStep(c)
  PROVE  Bystanders({})
<1>1. ASSUME NEW w \in Work, NEW t \in Token, CliSchedule(c, w, t)
      PROVE  Bystanders({})
  BY <1>1, InsertRowMoves DEF CliSchedule, ScheduleTask
<1>2. ASSUME NEW w \in Work, NEW t \in Token,
             CliConnectorSync(c, w, t) \/ CliGitSync(c, w, t)
      PROVE  Bystanders({})
  <2>1. w \notin Extraction
    BY <1>2 DEF CliConnectorSync, CliGitSync, Connector, GitSync, Extraction
  <2> QED BY <1>2, <2>1, EnqueueMoves DEF CliConnectorSync, CliGitSync
<1>3. ASSUME NEW w \in Work, CliCancel(c, w) PROVE Bystanders({})
  BY <1>3, CancelMoves DEF CliCancel
<1>4. ASSUME NEW w \in Work, CliImportFact(c, w) PROVE Bystanders({})
  BY <1>4, StoreFactMoves DEF CliImportFact, Evictions
<1>5. CASE CliClaimRefused(c) \/ \E t \in Token : CliClaimLaunch(c, t)
  BY <1>5, LaunchMoves DEF CliClaimRefused, CliClaimLaunch
<1>6. CASE \/ \E op \in Operations : CliBegin(c, op)
           \/ CliStatus(c) \/ CliPendingToken(c) \/ CliClearLaunch(c)
           \/ \E r \in Runner : CliSpawn(c, r)
           \/ CliSpawnFails(c) \/ CliAborts(c)
  <2>1. UNCHANGED <<state, attempts, cancel, facts>>
    BY <1>6 DEF CliBegin, CliStatus, CliPendingToken, CliClearLaunch, CliSpawn,
       CliSpawnFails, CliAborts, ClearFailedLaunch, queueVars
  <2> QED BY <2>1, MovesRows
<1> QED BY <1>1, <1>2, <1>3, <1>4, <1>5, <1>6 DEF CliStep

(* run_task's steps are about the row of its runner, which nobody takes    *)
(* away between them.                                                      *)
LEMMA ExtractRows ==
  ASSUME ~Evicts, QueueInv, NEW r \in Runner, Extract(r) \/ FinishTask(r),
         NEW w \in Work, proc[r].job = w
  PROVE  ResultInv' /\ FinalKept
<1>0. /\ proc \in [Runner -> Processes] /\ QueueTypeOK
      /\ attempts[w] \in Nat /\ MaxAttempts \in Nat
  <2>1. attempts[w] \in 0..MaxAttempts
    BY DEF QueueInv, TypeOK, QueueTypeOK
  <2> QED BY <2>1, QueueAssumption DEF QueueInv, TypeOK
<1>1. proc[r].pc \in Working \cup {"finishing"}
  BY DEF Extract, RejectForeign, AcquireFinds, AcquireDefers, AcquireGrants,
     TaskFound, TaskDeferred, TaskGranted, ExtractionCancelled, ExtractionFails,
     PublishResult, ClaimCompleted, ClaimLost, FinishTask, At, Working
<1>2. Live(r) /\ w \in Extraction /\ JobInv(r) /\ RowInv(w)
  BY <1>1 DEF QueueInv, ResultInv, JobKinds, ExtractionStates, BusyStates, Working,
     Live, Extraction
<1>3. \A q \in Runner \ {r} : proc'[q] = proc[q]
  BY OnlyOneMoves DEF QueueInv, RunnerStep
<1>4. ASSUME NEW pc \in Working \cup {"finishing"}, Goto(r, pc)
      PROVE  proc'[r].pc = pc /\ proc'[r].job = w
  BY <1>0, <1>4 DEF Goto, Processes
<1>5. /\ (w \in Extraction)' /\ Final(w)' = Settled
  BY <1>2 DEF Final, Extraction
<1>6. ASSUME UNCHANGED queueVars, NEW pc \in Working \cup {"finishing"}, Goto(r, pc),
             pc \in Working => /\ state[w] \in {"running", "completed"}
                               /\ pc # "found" => attempts[w] < MaxAttempts
                               /\ pc \in {"found", "publishing"} => w \in facts,
             pc = "finishing" => cancel[w]
      PROVE  ResultInv' /\ FinalKept
  <2>1. Bystanders({w})
    BY <1>6, MovesRows DEF queueVars
  <2>2. JobInv(r)'
    BY <1>4, <1>6 DEF JobInv, queueVars, Working
  <2>3. RowInv(w)'
    BY <1>2, <1>5, <1>6 DEF RowInv, queueVars, Final
  <2> QED BY <1>2, <1>3, <1>6, <2>1, <2>2, <2>3, OwnInv DEF queueVars
<1>7. ASSUME NEW s \in WorkStates, SetTaskState(w, s), Goto(r, "finishing"),
             proc[r].pc \in Working, s # "running",
             s = "completed" => w \in facts,
             s \in Settled \/ proc[r].pc # "found"
      PROVE  ResultInv' /\ FinalKept
  <2>1. Bystanders({w})
    BY <1>2, <1>7, UpdateMoves DEF SetTaskState
  <2>2. state'[w] = s /\ UNCHANGED <<attempts, facts>>
    BY <1>0, <1>2, <1>7 DEF SetTaskState, QueueTypeOK
  <2>3. JobInv(r)'
    BY <1>4, <1>7, <2>2 DEF JobInv, Working
  <2>4. RowInv(w)'
    BY <1>0, <1>2, <1>5, <1>7, <2>2 DEF RowInv, JobInv
  <2> QED BY <1>2, <1>3, <1>7, <2>1, <2>3, <2>4, OwnInv DEF JobInv
<1>8. CASE RejectForeign(r)
  BY <1>7, <1>8 DEF RejectForeign, At, Working
<1>9. CASE AcquireFinds(r) \/ AcquireDefers(r) \/ AcquireGrants(r)
  BY <1>2, <1>6, <1>9 DEF AcquireFinds, AcquireDefers, AcquireGrants, At, Working,
     JobInv
<1>10. CASE TaskFound(r)
  BY <1>2, <1>7, <1>10 DEF TaskFound, At, Working, JobInv
<1>11. CASE TaskDeferred(r) \/ ClaimLost(r)
  BY <1>7, <1>11 DEF TaskDeferred, ClaimLost, At, Working
<1>12. CASE TaskGranted(r)
  <2>1. Bystanders({w})
    BY <1>2, <1>12, UpdateMoves DEF TaskGranted, SetTaskState
  <2>2. state'[w] = "running" /\ UNCHANGED <<attempts, facts>>
    BY <1>0, <1>2, <1>12 DEF TaskGranted, SetTaskState, QueueTypeOK
  <2>3. attempts[w] < MaxAttempts /\ state[w] \in {"running", "completed"}
    BY <1>2, <1>12 DEF TaskGranted, At, JobInv, Working
  <2>4. JobInv(r)'
    BY <1>4, <1>12, <2>2, <2>3 DEF TaskGranted, JobInv, Working
  <2>5. RowInv(w)'
    BY <1>0, <2>2, <2>3 DEF RowInv
  <2> QED BY <1>2, <1>3, <2>1, <2>3, <2>4, <2>5, OwnInv
<1>13. CASE ExtractionCancelled(r)
  BY <1>6, <1>13 DEF ExtractionCancelled, Working
<1>14. CASE ExtractionFails(r)
  <2>1. FailTask(w) /\ Goto(r, "finishing")
    BY <1>14 DEF ExtractionFails
  <2>2. /\ state'[w] = StateAfterFailure(w)
        /\ attempts'[w] = AtMost(attempts[w] + 1, MaxAttempts)
        /\ UNCHANGED <<cancel, facts>>
        /\ \A u \in Work \ {w} : attempts'[u] = attempts[u]
    BY <1>0, <1>2, <2>1 DEF FailTask, CountAttempt, QueueTypeOK
  <2>3. Bystanders({w})
    BY <1>2, <2>1, <2>2, UpdateMoves DEF FailTask
  <2>4. state[w] \in {"running", "completed"}
    BY <1>2, <1>14 DEF ExtractionFails, JobInv, Working
  <2>5. JobInv(r)'
    BY <1>4, <2>1, <2>2 DEF JobInv, Working, StateAfterFailure
  <2>6. RowInv(w)'
    BY <1>0, <1>5, <2>2 DEF RowInv, StateAfterFailure, AtMost
  <2> QED BY <1>2, <1>3, <2>3, <2>4, <2>5, <2>6, OwnInv
<1>15. CASE PublishResult(r)
  <2>1. StoreFact(w, {}) /\ Goto(r, "publishing") /\ proc[r].pc = "extracting"
    BY <1>15 DEF PublishResult, Evictions, At
  <2>2. Bystanders({}) /\ Bystanders({w})
    BY <1>2, <2>1, StoreFactMoves DEF Bystanders
  <2>3. w \in facts' /\ state'[w] = "completed" /\ attempts'[w] = attempts[w]
    BY <1>0, <1>2, <2>1 DEF StoreFact, QueueTypeOK, JobInv, Working
  <2>4. JobInv(r)'
    BY <1>2, <1>4, <2>1, <2>3 DEF JobInv, Working
  <2>5. RowInv(w)'
    BY <1>5, <2>3 DEF RowInv
  <2> QED BY <1>2, <1>3, <2>2, <2>3, <2>4, <2>5, OwnInv
<1>16. CASE ClaimCompleted(r)
  BY <1>2, <1>7, <1>16 DEF ClaimCompleted, At, Working, JobInv
<1>17. CASE FinishTask(r)
  <2>1. CompleteWork(w, r) /\ proc'[r].pc = "claiming" /\ proc[r].pc = "finishing"
    BY <1>0, <1>17 DEF FinishTask, At, Processes
  <2>2. UNCHANGED <<attempts, cancel, facts>>
    BY <2>1 DEF CompleteWork
  <2>3. JobInv(r)'
    BY <2>1 DEF JobInv, Working
  <2>4. state[w] = "running" => cancel[w]
    BY <1>2, <2>1 DEF JobInv
  <2>5. \/ UNCHANGED state
        \/ state[w] = "running" /\ state' = [state EXCEPT ![w] = "cancelled"]
    BY <2>1, <2>4 DEF CompleteWork, RunsFor
  <2>6. Bystanders({w})
    BY <1>2, <2>2, <2>5, UpdateMoves, MovesRows
  <2>7. state'[w] = state[w] \/ (state[w] = "running" /\ state'[w] = "cancelled")
    BY <1>0, <1>2, <2>5 DEF QueueTypeOK
  <2>8. RowInv(w)'
    BY <1>2, <1>5, <2>2, <2>7 DEF RowInv, Final
  <2> QED BY <1>2, <1>3, <2>3, <2>6, <2>7, <2>8, OwnInv
<1> QED
  BY <1>8, <1>9, <1>10, <1>11, <1>12, <1>13, <1>14, <1>15, <1>16, <1>17 DEF Extract

LEMMA ResultStep ==
  ASSUME ~Evicts, QueueInv, [Next]_vars
  PROVE  ResultInv' /\ FinalKept
<1>0. proc \in [Runner -> Processes] /\ QueueTypeOK
  BY DEF QueueInv, TypeOK
<1>1. ASSUME Bystanders({}), UNCHANGED proc PROVE ResultInv' /\ FinalKept
  BY <1>1, KeptInv
<1>2. ASSUME NEW r \in Runner, NEW pc, Goto(r, pc) \/ Exit(r), Bystanders({}),
             pc \notin Working \cup {"finishing"}
      PROVE  ResultInv' /\ FinalKept
  <2>1. \A q \in Runner : proc'[q] = proc[q] \/ proc'[q].pc \notin Working \cup {"finishing"}
    BY <1>0, <1>2 DEF Goto, Exit, Off, Processes, Working
  <2> QED BY <1>2, <2>1, KeptInv
<1>3. ASSUME NEW c \in Cli, CliStep(c) PROVE ResultInv' /\ FinalKept
  <2>1. Bystanders({})
    BY <1>3, CommandRows
  <2>2. \A r \in Runner : proc'[r] = proc[r] \/ proc'[r].pc = "adopting"
    <3>1. CASE \E r \in Runner : CliSpawn(c, r)
      BY <1>0, <3>1 DEF CliSpawn
    <3>2. CASE ~\E r \in Runner : CliSpawn(c, r)
      BY <1>0, <1>3, <3>2, CommandsKeepLease
    <3> QED BY <3>1, <3>2
  <2> QED BY <2>1, <2>2, KeptInv DEF Working
<1>4. ASSUME NEW r \in Runner, Adopt(r) PROVE ResultInv' /\ FinalKept
  <2>1. Bystanders({})
    <3>1. UNCHANGED <<state, attempts, cancel, facts>>
      BY <1>4 DEF Adopt, AdoptRunner, queueVars
    <3> QED BY <3>1, MovesRows
  <2>2. \A q \in Runner : proc'[q] = proc[q] \/ proc'[q].pc \in {"syncing", "off"}
    BY <1>0, <1>4 DEF Adopt, Exit, Off, Processes
  <2> QED BY <2>1, <2>2, KeptInv DEF Working
<1>5. ASSUME NEW r \in Runner, StartLoop(r) \/ ClaimDies(r) \/ Release(r)
      PROVE  ResultInv' /\ FinalKept
  <2>1. UNCHANGED <<state, attempts, cancel, facts>>
    BY <1>5 DEF StartLoop, ClaimDies, ClaimThrows, Release, ReleaseRunner,
       ReleaseRefused, queueVars
  <2>2. Bystanders({})
    BY <2>1, MovesRows
  <2> QED BY <1>2, <1>5, <2>2 DEF StartLoop, ClaimDies, Release, Working
<1>6. ASSUME NEW r \in Runner, ClaimFindsNothing(r) PROVE ResultInv' /\ FinalKept
  BY <1>2, <1>6, ClaimNothingMoves DEF ClaimFindsNothing, Working
<1>7. ASSUME NEW r \in Runner, NEW w \in Work, Claim(r, w)
      PROVE  ResultInv' /\ FinalKept
  <2> DEFINE skipped == {v \in RunnableNow : Precedes(v, w)}
  <2>1. /\ state' = [MarkedState(skipped) EXCEPT ![w] = "running"]
        /\ UNCHANGED <<attempts, cancel, facts>>
        /\ proc[r].pc = "claiming"
    BY <1>7 DEF Claim, ClaimNextWork, At
  <2>2. skipped \subseteq RunnableNow
    OBVIOUS
  <2>3. \A u \in Work \ {w} : state'[u] = MarkedState(skipped)[u]
    BY <2>1 DEF MarkedState
  <2> HIDE DEF skipped
  <2>4. Bystanders({w})
    <3>1. \A u \in Work \ {w} :
            state'[u] = state[u] \/ (state[u] \in Waiting
              /\ state'[u] \in {"failed", "waiting_for_credential"})
      BY <2>2, <2>3, MarkedMoves
    <3> QED BY <2>1, <3>1, MovesRows
  <2>5. state[w] \in Waiting /\ state'[w] = "running"
    <3>1. state'[w] = "running"
      BY <2>1 DEF MarkedState
    <3> QED BY <1>7, <3>1 DEF Claim, ClaimNextWork, IsNextWork, RunnableNow, Runnable,
              PropagatedState
  <2>6. attempts[w] < MaxAttempts /\ attempts[w] # MaxAttempts
    <3>1. attempts[w] \in 0..MaxAttempts /\ MaxAttempts \in Nat
      BY <1>0, QueueAssumption DEF QueueTypeOK
    <3>2. attempts[w] # MaxAttempts
      BY <2>5 DEF QueueInv, ResultInv, RowInv, Final
    <3> QED BY <3>1, <3>2
  <2>7. /\ proc'[r].pc \in {"acquiring", "serving"} /\ proc'[r].job = w
        /\ \A q \in Runner \ {r} : proc'[q] = proc[q]
    BY <1>0, <1>7 DEF Claim, Processes
  <2>8. JobInv(r)'
    BY <2>1, <2>5, <2>6, <2>7 DEF JobInv, Working
  <2>9. RowInv(w)'
    BY <2>1, <2>5, <2>6 DEF RowInv
  <2> QED BY <2>1, <2>4, <2>5, <2>7, <2>8, <2>9, OwnInv DEF Live
<1>8. ASSUME NEW r \in Runner, ServeDone(r) \/ ServeFails(r)
      PROVE  ResultInv' /\ FinalKept
  <2>1. PICK w \in Work \ Extraction : proc[r].job = w
    BY <1>8 DEF ServeDone, ServeFails, At, QueueInv, JobKinds
  <2>2. Live(r) /\ RowInv(w) /\ (w \notin Extraction)' /\ Final(w) = {"failed", "cancelled"}
        /\ Final(w)' = {"failed", "cancelled"} /\ attempts[w] \in Nat /\ MaxAttempts \in Nat
    <3>1. attempts[w] \in 0..MaxAttempts /\ MaxAttempts \in Nat
      BY <1>0, QueueAssumption DEF QueueTypeOK
    <3> QED
      BY <1>8, <3>1 DEF ServeDone, ServeFails, At, Live, QueueInv, ResultInv, Final, Extraction
  <2>3. proc'[r].pc \in {"claiming", "off"} /\ \A q \in Runner \ {r} : proc'[q] = proc[q]
    BY <1>0, <1>8 DEF ServeDone, ServeFails, Exit, Off, Processes
  <2>4. JobInv(r)'
    BY <2>3 DEF JobInv, Working
  <2>5. CASE CompleteWork(w, r)
    <3>1. \/ UNCHANGED state
          \/ state[w] = "running" /\ \E s : state' = [state EXCEPT ![w] = s]
      BY <2>5 DEF CompleteWork, RunsFor
    <3>2. Bystanders({w})
      BY <2>5, <3>1, UpdateMoves, MovesRows DEF CompleteWork
    <3>3. state'[w] = state[w] \/ state[w] = "running"
      BY <3>1
    <3>4. RowInv(w)'
      BY <2>2, <2>5, <3>3 DEF CompleteWork, RowInv
    <3> QED BY <2>2, <2>3, <2>4, <3>2, <3>3, <3>4, OwnInv
  <2>6. CASE FailWork(w, r)
    <3>1. /\ state[w] = "running"
          /\ state'[w] = IF cancel[w] THEN "cancelled" ELSE StateAfterFailure(w)
          /\ attempts'[w] = AtMost(attempts[w] + 1, MaxAttempts)
          /\ \A u \in Work \ {w} : attempts'[u] = attempts[u]
          /\ UNCHANGED <<cancel, facts>>
      BY <1>0, <2>6 DEF FailWork, RunsFor, CountAttempt, QueueTypeOK
    <3>2. Bystanders({w})
      BY <2>6, <3>1, UpdateMoves DEF FailWork
    <3>3. RowInv(w)'
      BY <2>2, <3>1 DEF RowInv, StateAfterFailure, AtMost
    <3> QED BY <2>2, <2>3, <2>4, <3>1, <3>2, <3>3, OwnInv
  <2>7. CASE UNCHANGED queueVars
    <3>1. Bystanders({})
      BY <2>7, MovesRows DEF queueVars
    <3> QED BY <2>3, <3>1, KeptInv DEF Working
  <2> QED BY <1>8, <2>1, <2>5, <2>6, <2>7 DEF ServeDone, ServeFails, FailWorkThrows
<1>9. ASSUME NEW r \in Runner, Extract(r) \/ FinishTask(r)
      PROVE  ResultInv' /\ FinalKept
  <2>1. proc[r].pc \in BusyStates
    BY <1>9 DEF Extract, RejectForeign, AcquireFinds, AcquireDefers, AcquireGrants,
       TaskFound, TaskDeferred, TaskGranted, ExtractionCancelled, ExtractionFails,
       PublishResult, ClaimCompleted, ClaimLost, FinishTask, At, BusyStates
  <2>2. proc[r].job \in Work
    BY <2>1, BusyJob DEF QueueInv
  <2> QED BY <1>9, <2>2, ExtractRows
<1>10. ASSUME NEW r \in Runner, Heartbeat(r) \/ Crash(r) PROVE ResultInv' /\ FinalKept
  <2>1. UNCHANGED <<state, attempts, cancel, facts>>
    BY <1>10 DEF Heartbeat, HeartbeatRunner, Crash, queueVars
  <2>2. Bystanders({})
    BY <2>1, MovesRows
  <2> QED BY <1>1, <1>2, <1>10, <2>2 DEF Heartbeat, Crash, procVars, Working
<1>11. ASSUME NEW r \in Runner, NEW w \in Work, ImportTask(r, w) \/ ImportFact(r, w)
       PROVE  ResultInv' /\ FinalKept
  <2>1. Bystanders({})
    BY <1>11, InsertRowMoves, StoreFactMoves
       DEF ImportTask, ImportFact, ScheduleTaskQuietly, Evictions
  <2> QED BY <1>1, <1>11, <2>1 DEF ImportTask, ImportFact, procVars
<1>12. CASE Tick \/ UNCHANGED vars
  <2>1. UNCHANGED <<state, attempts, cancel, facts, proc>>
    BY <1>12 DEF Tick, ClockTick, procVars, vars
  <2> QED BY <1>1, <2>1, MovesRows
<1>13. ASSUME NEW r \in Runner, RunnerStep(r) PROVE ResultInv' /\ FinalKept
  BY <1>4, <1>5, <1>6, <1>7, <1>8, <1>9, <1>13 DEF RunnerStep
<1> QED BY <1>3, <1>10, <1>11, <1>12, <1>13 DEF Next

-----------------------------------------------------------------------------
(* The theorems.  They assume that no live runner lets its lease go stale  *)
(* and that the fact cache evicts nothing, since a superseded runner and   *)
(* an eviction both take the row of an extraction away under run_task.     *)

LEMMA QueueInvariant ==
  ASSUME TimelyHeartbeats, ~Evicts
  PROVE  Spec => [](QueueInv) /\ [][FinalKept]_vars
<1>1. Init => JobsMatch /\ JobKinds /\ ResultInv
  <2> SUFFICES ASSUME Init PROVE JobsMatch /\ JobKinds /\ ResultInv
    OBVIOUS
  <2>1. JobsMatch /\ JobKinds /\ \A r \in Runner : JobInv(r)
    BY DEF Init, JobsMatch, JobKinds, JobInv, Working, Off, ExtractionStates, BusyStates
  <2>2. MaxAttempts # 0
    BY QueueAssumption
  <2>3. \A w \in Work : RowInv(w)
    BY <2>2 DEF Init, QueueInit, RowInv
  <2> QED BY <2>1, <2>3 DEF ResultInv
<1>2. TypeOK /\ JobsMatch /\ [Next]_vars => JobsMatch'
  BY JobsStep
<1>3. TypeOK /\ JobKinds /\ [Next]_vars => JobKinds'
  BY JobKindsStep
<1>4. QueueInv /\ [Next]_vars => ResultInv' /\ FinalKept
  BY ResultStep
<1>5. QueueInv <=> TypeOK /\ JobsMatch /\ JobKinds /\ LiveRunnerHoldsLease /\ ResultInv
  BY DEF QueueInv
<1> QED
  BY <1>1, <1>2, <1>3, <1>4, <1>5, TypeCorrect, LeaseHeld, PTL DEF Spec

(* A completed extraction has its result in the catalog: no path through   *)
(* run_task, complete_work, store_fact or recovery completes a row without *)
(* it, for every number of commands, runners, crashes and interleavings.   *)
THEOREM CompletedExtractionsHaveFacts ==
  ASSUME TimelyHeartbeats, ~Evicts
  PROVE  Spec => []CompletedHasFact
<1>1. QueueInv => CompletedHasFact
  BY DEF QueueInv, ResultInv, RowInv, CompletedHasFact, Extraction
<1> QED BY <1>1, QueueInvariant, PTL

(* Retries are bounded: a row that used its max_task_attempts is settled,  *)
(* whether fail_task or fail_work counted them.                            *)
THEOREM AttemptsEnd ==
  ASSUME TimelyHeartbeats, ~Evicts
  PROVE  Spec => []RetriesAreBounded
<1>1. QueueInv => RetriesAreBounded
  BY DEF QueueInv, ResultInv, RowInv, RetriesAreBounded, Final
<1> QED BY <1>1, QueueInvariant, PTL

(* A failed or cancelled extraction is not revived by the updates a runner *)
(* makes by work id: only a result completes it.                           *)
THEOREM FinalStatesStay ==
  ASSUME TimelyHeartbeats, ~Evicts
  PROVE  Spec => FinalStays
<1>1. FinalKept <=>
        \A w \in Extraction :
          state[w] \in {"failed", "cancelled"} => state'[w] \in {state[w], "completed"}
  BY DEF FinalKept
<1> QED BY <1>1, QueueInvariant, PTL DEF FinalStays

-----------------------------------------------------------------------------
(* No lost wakeup.  A row that could run at once has no retry delay, so it *)
(* never becomes runnable by the passing of time alone.                    *)

Prompt == {"absent", "pending", "running"}
DelayOK(w) == state[w] \in Prompt => delay[w] = 0
DelayInv ==
  /\ \A w \in Work : DelayOK(w)
  /\ \A r \in Runner : proc[r].pc \in Working => delay[proc[r].job] = 0

(* Without aborted commands and failed spawns a command that enqueued work *)
(* goes on until it has claimed a launch or found one.                     *)
Claiming(c) == cmd[c].pc \notin {"idle", "spawning"}
ReadyNow(w) == state[w] = "pending" /\ Runnable(state, w) /\ Credential[w] = None
WakeInv ==
  /\ \A c \in Cli : cmd[c].pc # "clearing"
  /\ (\E w \in Work : ReadyNow(w)) => lease.state # "none" \/ \E c \in Cli : Claiming(c)

WakeupInv == TypeOK /\ JobsMatch /\ LiveRunnerHoldsLease /\ DelayInv /\ WakeInv

(* A step that delays no row outside own that it makes ready.              *)
DelayKept(own) ==
  \A u \in Work \ own : DelayOK(u)' /\ (delay[u] = 0 => delay'[u] = 0)

LEMMA SameDelays ==
  ASSUME WakeupInv, NEW own, UNCHANGED delay,
         \A u \in Work \ own : \/ state'[u] = state[u]
                               \/ state'[u] \notin Prompt \/ state[u] \in Prompt
  PROVE  DelayKept(own)
BY DEF DelayKept, DelayOK, WakeupInv, DelayInv

LEMMA InsertRowPrompt ==
  ASSUME WakeupInv, NEW w \in Work, InsertRow(w), UNCHANGED delay
  PROVE  DelayKept({})
<1>1. \A u \in Work : state'[u] = state[u] \/ state[u] = "absent"
  BY DEF InsertRow, WakeupInv, TypeOK, QueueTypeOK
<1> QED BY <1>1, SameDelays DEF Prompt

LEMMA EnqueuePrompt ==
  ASSUME WakeupInv, NEW w \in Work, NEW caps, NEW id, NEW t, EnqueueWork(w, caps, id, t)
  PROVE  DelayKept({})
<1>1. CASE state[w] = "absent"
  BY <1>1, InsertRowPrompt DEF EnqueueWork
<1>2. CASE state[w] # "absent"
  <2>1. RerunRow(w) /\ QueueTypeOK
    BY <1>2 DEF EnqueueWork, WakeupInv, TypeOK
  <2>2. \A u \in Work : \/ state'[u] = state[u] /\ delay'[u] = delay[u]
                        \/ delay'[u] = 0
    BY <2>1 DEF RerunRow, QueueTypeOK
  <2> QED BY <2>2 DEF DelayKept, DelayOK, WakeupInv, DelayInv
<1> QED BY <1>1, <1>2

LEMMA StoreFactPrompt ==
  ASSUME WakeupInv, NEW w \in Work, NEW evicted, StoreFact(w, evicted)
  PROVE  DelayKept({})
<1>1. QueueTypeOK
  BY DEF WakeupInv, TypeOK
<1>2. \A u \in Work :
        \/ delay'[u] = 0
        \/ delay'[u] = delay[u] /\ state'[u] \in {state[u], "completed"}
  BY <1>1 DEF StoreFact, QueueTypeOK
<1> QED BY <1>2 DEF DelayKept, DelayOK, WakeupInv, DelayInv, Prompt

LEMMA LaunchPrompt ==
  ASSUME WakeupInv, NEW caps,
         \/ ClaimRunnerLaunchRefused(caps)
         \/ \E id, t : ClaimRunnerLaunch(caps, id, t)
  PROVE  DelayKept({})
<1>1. \A u \in Work : \/ state'[u] = state[u]
                      \/ state'[u] \notin Prompt \/ state[u] \in Prompt
  BY DEF ClaimRunnerLaunchRefused, ClaimRunnerLaunch, RecoveredState, Recovered, Prompt,
     queueVars
<1>2. UNCHANGED delay
  BY DEF ClaimRunnerLaunchRefused, ClaimRunnerLaunch, queueVars
<1> QED BY <1>1, <1>2, SameDelays

LEMMA UpdatePrompt ==
  ASSUME WakeupInv, NEW w \in Work, NEW s, state' = [state EXCEPT ![w] = s],
         \A u \in Work \ {w} : delay'[u] = delay[u]
  PROVE  DelayKept({w})
<1>1. \A u \in Work \ {w} : state'[u] = state[u]
  BY DEF WakeupInv, TypeOK, QueueTypeOK
<1> QED BY <1>1 DEF DelayKept, DelayOK, WakeupInv, DelayInv

(* Steps that leave every runner where it is, or take it out of run_task.  *)
LEMMA KeptDelays ==
  ASSUME WakeupInv, DelayKept({}),
         \A r \in Runner : proc'[r] = proc[r] \/ proc'[r].pc \notin Working
  PROVE  DelayInv'
<1>1. ASSUME NEW r \in Runner, proc'[r].pc \in Working PROVE delay'[proc'[r].job] = 0
  <2>1. proc'[r] = proc[r] /\ delay[proc[r].job] = 0
    BY <1>1 DEF WakeupInv, DelayInv
  <2>2. proc[r].job \in Work
    BY <1>1, <2>1, BusyJob DEF WakeupInv, Working, BusyStates
  <2> QED BY <2>1, <2>2 DEF DelayKept
<1> QED BY <1>1 DEF DelayKept, DelayInv

(* Steps of the live runner r on the row w.                                *)
LEMMA OwnDelays ==
  ASSUME WakeupInv, NEW r \in Runner, Live(r), NEW w \in Work, DelayKept({w}),
         \A q \in Runner \ {r} : proc'[q] = proc[q],
         proc'[r].pc \in Working => proc'[r].job = w /\ delay'[w] = 0,
         DelayOK(w)'
  PROVE  DelayInv'
<1>1. ASSUME NEW q \in Runner \ {r} PROVE proc'[q].pc \notin Working
  <2>1. ~Live(q)
    BY DEF WakeupInv, LiveRunnerHoldsLease, HoldsLease
  <2> QED BY <2>1 DEF Live, Working
<1>2. ASSUME NEW q \in Runner, proc'[q].pc \in Working PROVE delay'[proc'[q].job] = 0
  BY <1>1, <1>2
<1>3. \A u \in Work : DelayOK(u)'
  BY DEF DelayKept
<1> QED BY <1>2, <1>3 DEF DelayInv

LEMMA DelayStep ==
  ASSUME WakeupInv, [Next]_vars
  PROVE  DelayInv'
<1>0. proc \in [Runner -> Processes] /\ QueueTypeOK
  BY DEF WakeupInv, TypeOK
<1>1. ASSUME NEW c \in Cli, CliStep(c) PROVE DelayInv'
  <2>1. DelayKept({})
    <3>1. ASSUME NEW w \in Work, NEW t \in Token, CliSchedule(c, w, t)
          PROVE  DelayKept({})
      BY <3>1, InsertRowPrompt DEF CliSchedule, ScheduleTask
    <3>2. ASSUME NEW w \in Work, NEW t \in Token,
                 CliConnectorSync(c, w, t) \/ CliGitSync(c, w, t)
          PROVE  DelayKept({})
      BY <3>2, EnqueuePrompt DEF CliConnectorSync, CliGitSync
    <3>3. ASSUME NEW w \in Work, CliCancel(c, w) PROVE DelayKept({})
      <4>1. \A u \in Work : state'[u] = state[u] \/ state'[u] = "cancelled"
        BY <1>0, <3>3 DEF CliCancel, CancelWork, QueueTypeOK
      <4> QED BY <3>3, <4>1, SameDelays DEF CliCancel, CancelWork, Prompt
    <3>4. ASSUME NEW w \in Work, CliImportFact(c, w) PROVE DelayKept({})
      BY <3>4, StoreFactPrompt DEF CliImportFact
    <3>5. CASE CliClaimRefused(c) \/ \E t \in Token : CliClaimLaunch(c, t)
      BY <3>5, LaunchPrompt DEF CliClaimRefused, CliClaimLaunch
    <3>6. CASE \/ \E op \in Operations : CliBegin(c, op)
               \/ CliStatus(c) \/ CliPendingToken(c) \/ CliClearLaunch(c)
               \/ \E r \in Runner : CliSpawn(c, r)
               \/ CliSpawnFails(c) \/ CliAborts(c)
      <4>1. UNCHANGED <<state, delay>>
        BY <3>6 DEF CliBegin, CliStatus, CliPendingToken, CliClearLaunch, CliSpawn,
           CliSpawnFails, CliAborts, ClearFailedLaunch, queueVars
      <4> QED BY <4>1, SameDelays
    <3> QED BY <1>1, <3>1, <3>2, <3>3, <3>4, <3>5, <3>6 DEF CliStep
  <2>2. \A r \in Runner : proc'[r] = proc[r] \/ proc'[r].pc = "adopting"
    <3>1. CASE \E r \in Runner : CliSpawn(c, r)
      BY <1>0, <3>1 DEF CliSpawn
    <3>2. CASE ~\E r \in Runner : CliSpawn(c, r)
      BY <1>0, <1>1, <3>2, CommandsKeepLease
    <3> QED BY <3>1, <3>2
  <2> QED BY <2>1, <2>2, KeptDelays DEF Working
<1>2. ASSUME NEW r \in Runner, NEW pc, Goto(r, pc) \/ Exit(r), DelayKept({}),
             pc \notin Working
      PROVE  DelayInv'
  <2>1. \A q \in Runner : proc'[q] = proc[q] \/ proc'[q].pc \notin Working
    BY <1>0, <1>2 DEF Goto, Exit, Off, Processes, Working
  <2> QED BY <1>2, <2>1, KeptDelays
<1>3. ASSUME NEW r \in Runner,
             \/ Adopt(r) \/ StartLoop(r) \/ ClaimDies(r) \/ Release(r)
             \/ Heartbeat(r) \/ Crash(r)
      PROVE  DelayInv'
  <2>1. DelayKept({})
    <3>1. UNCHANGED <<state, delay>>
      BY <1>3 DEF Adopt, AdoptRunner, StartLoop, ClaimDies, ClaimThrows, Release,
         ReleaseRunner, ReleaseRefused, Heartbeat, HeartbeatRunner, Crash, queueVars
    <3> QED BY <3>1, SameDelays
  <2>2. \A q \in Runner : proc'[q] = proc[q] \/ proc'[q].pc \notin Working
    BY <1>0, <1>3 DEF Adopt, StartLoop, ClaimDies, Release, Heartbeat, Crash, procVars,
       Goto, Exit, Off, Processes, Working
  <2> QED BY <2>1, <2>2, KeptDelays
<1>4. ASSUME NEW r \in Runner, ClaimFindsNothing(r) PROVE DelayInv'
  <2>1. \A u \in Work : state'[u] = state[u] \/ state'[u] \notin Prompt
    BY <1>4, MarkedMoves DEF ClaimFindsNothing, ClaimNothing, PropagatedState, Prompt
  <2>2. UNCHANGED delay
    BY <1>4 DEF ClaimFindsNothing, ClaimNothing
  <2> QED BY <1>2, <1>4, <2>1, <2>2, SameDelays DEF ClaimFindsNothing, Working
<1>5. ASSUME NEW r \in Runner, NEW w \in Work, Claim(r, w) PROVE DelayInv'
  <2> DEFINE skipped == {v \in RunnableNow : Precedes(v, w)}
  <2>1. /\ state' = [MarkedState(skipped) EXCEPT ![w] = "running"]
        /\ UNCHANGED delay /\ Live(r)
    BY <1>5 DEF Claim, ClaimNextWork, At, Live
  <2>2. delay[w] = 0
    BY <1>5 DEF Claim, ClaimNextWork, IsNextWork, RunnableNow, Runnable
  <2>3. DelayKept({w})
    <3>1. skipped \subseteq RunnableNow
      OBVIOUS
    <3>2. \A u \in Work \ {w} : state'[u] = MarkedState(skipped)[u]
      BY <2>1 DEF MarkedState
    <3> HIDE DEF skipped
    <3>3. \A u \in Work \ {w} : state'[u] = state[u] \/ state'[u] \notin Prompt
      BY <3>1, <3>2, MarkedMoves DEF Prompt
    <3> QED BY <2>1, <3>3, SameDelays
  <2>4. proc'[r].job = w /\ \A q \in Runner \ {r} : proc'[q] = proc[q]
    BY <1>0, <1>5 DEF Claim, Processes
  <2> QED BY <2>1, <2>2, <2>3, <2>4, OwnDelays DEF DelayOK
<1>6. ASSUME NEW r \in Runner,
             ServeDone(r) \/ ServeFails(r) \/ Extract(r) \/ FinishTask(r)
      PROVE  DelayInv'
  <2>1. PICK w \in Work : proc[r].job = w
    <3>1. proc[r].pc \in BusyStates
      BY <1>6 DEF ServeDone, ServeFails, Extract, RejectForeign, AcquireFinds,
         AcquireDefers, AcquireGrants, TaskFound, TaskDeferred, TaskGranted,
         ExtractionCancelled, ExtractionFails, PublishResult, ClaimCompleted,
         ClaimLost, FinishTask, At, BusyStates
    <3> QED BY <3>1, BusyJob DEF WakeupInv
  <2>2. Live(r) /\ \A q \in Runner \ {r} : proc'[q] = proc[q]
    <3>1. Live(r)
      BY <1>6, RunnersKeepLease DEF ServeDone, ServeFails, Extract, RejectForeign,
         AcquireFinds, AcquireDefers, AcquireGrants, TaskFound, TaskDeferred,
         TaskGranted, ExtractionCancelled, ExtractionFails, PublishResult,
         ClaimCompleted, ClaimLost, FinishTask, At, Live
    <3> QED BY <1>6, <3>1, OnlyOneMoves DEF WakeupInv, RunnerStep
  <2>3. proc[r].pc \in Working => delay[w] = 0
    BY <2>1 DEF WakeupInv, DelayInv
  <2>4. ASSUME UNCHANGED <<state, delay>>,
               proc'[r].pc \in Working => proc[r].pc \in Working /\ proc'[r].job = w
        PROVE  DelayInv'
    <3>1. DelayKept({w}) /\ DelayKept({})
      BY <2>4, SameDelays
    <3> QED BY <2>2, <2>3, <2>4, <3>1, OwnDelays DEF DelayKept
  <2>5. ASSUME NEW s \in WorkStates, state' = [state EXCEPT ![w] = s],
               \A u \in Work \ {w} : delay'[u] = delay[u],
               s \in Prompt => delay'[w] = 0,
               proc'[r].pc \in Working => proc'[r].job = w /\ delay'[w] = 0
        PROVE  DelayInv'
    <3>1. DelayKept({w})
      BY <2>5, UpdatePrompt
    <3>2. DelayOK(w)'
      BY <1>0, <2>5 DEF DelayOK, QueueTypeOK
    <3> QED BY <2>2, <2>5, <3>1, <3>2, OwnDelays
  <2>6. CASE AcquireFinds(r) \/ AcquireDefers(r) \/ AcquireGrants(r) \/ ExtractionCancelled(r)
    <3>1. UNCHANGED <<state, delay>> /\ proc'[r].job = w
      BY <1>0, <2>1, <2>6 DEF AcquireFinds, AcquireDefers, AcquireGrants,
         ExtractionCancelled, Goto, Processes, queueVars
    <3>2. proc[r].pc \in Working
      BY <2>6 DEF AcquireFinds, AcquireDefers, AcquireGrants, ExtractionCancelled, At, Working
    <3> QED BY <2>4, <3>1, <3>2
  <2>7. CASE RejectForeign(r) \/ TaskFound(r) \/ TaskDeferred(r) \/ TaskGranted(r)
             \/ ClaimCompleted(r) \/ ClaimLost(r)
    <3>1. PICK s \in WorkStates : SetTaskState(w, s)
      BY <2>1, <2>7 DEF RejectForeign, TaskFound, TaskDeferred, TaskGranted,
         ClaimCompleted, ClaimLost
    <3>2. proc[r].pc \in Working /\ proc'[r].job = w
      BY <1>0, <2>1, <2>7 DEF RejectForeign, TaskFound, TaskDeferred, TaskGranted,
         ClaimCompleted, ClaimLost, At, Goto, Working, Processes
    <3> QED BY <2>3, <2>5, <3>1, <3>2 DEF SetTaskState
  <2>8. CASE ExtractionFails(r)
    <3>1. FailTask(w) /\ proc'[r].pc = "finishing"
      BY <1>0, <2>1, <2>8 DEF ExtractionFails, Goto, Processes
    <3>2. /\ state' = [state EXCEPT ![w] = StateAfterFailure(w)]
          /\ \A u \in Work \ {w} : delay'[u] = delay[u]
      BY <1>0, <3>1 DEF FailTask, CountAttempt, QueueTypeOK
    <3>3. StateAfterFailure(w) \in WorkStates \ Prompt
      BY DEF StateAfterFailure, Prompt
    <3> QED BY <2>5, <3>1, <3>2, <3>3 DEF Working
  <2>9. CASE PublishResult(r)
    <3>1. (\E evicted : StoreFact(w, evicted)) /\ proc[r].pc \in Working /\ proc'[r].job = w
      BY <1>0, <2>1, <2>9 DEF PublishResult, At, Goto, Working, Processes
    <3>2. DelayKept({})
      BY <3>1, StoreFactPrompt
    <3>3. DelayKept({w}) /\ DelayOK(w)' /\ delay'[w] = 0
      BY <2>3, <3>1, <3>2 DEF DelayKept
    <3> QED BY <2>2, <3>1, <3>3, OwnDelays
  <2>10. CASE ServeDone(r) \/ FinishTask(r)
    <3>1. CompleteWork(w, r) /\ proc'[r].pc = "claiming"
      BY <1>0, <2>1, <2>10 DEF ServeDone, FinishTask, Processes
    <3>2. CASE RunsFor(w, r)
      <4>1. \E s \in {"cancelled", "completed"} : state' = [state EXCEPT ![w] = s]
        BY <3>1, <3>2 DEF CompleteWork
      <4> QED BY <2>5, <3>1, <4>1 DEF CompleteWork, Prompt, Working
    <3>3. CASE ~RunsFor(w, r)
      BY <2>4, <3>1, <3>3 DEF CompleteWork, Working
    <3> QED BY <3>2, <3>3
  <2>11. CASE ServeFails(r)
    <3>1. proc'[r].pc \in {"claiming", "off"}
      BY <1>0, <2>11 DEF ServeFails, Exit, Off, Processes
    <3>2. CASE FailWork(w, r)
      <4>1. /\ \E s \in {"cancelled", "failed", "retry_wait"} : state' = [state EXCEPT ![w] = s]
            /\ \A u \in Work \ {w} : delay'[u] = delay[u]
        BY <1>0, <3>2 DEF FailWork, StateAfterFailure, CountAttempt, QueueTypeOK
      <4> QED BY <2>5, <3>1, <4>1 DEF Prompt, Working
    <3>3. CASE FailWorkThrows(w, r)
      BY <2>4, <3>1, <3>3 DEF FailWorkThrows, queueVars, Working
    <3> QED BY <2>1, <2>11, <3>2, <3>3 DEF ServeFails
  <2> QED BY <1>6, <2>6, <2>7, <2>8, <2>9, <2>10, <2>11 DEF Extract
<1>7. ASSUME NEW r \in Runner, NEW w \in Work, ImportTask(r, w) \/ ImportFact(r, w)
      PROVE  DelayInv'
  <2>1. DelayKept({}) /\ UNCHANGED proc
    BY <1>7, InsertRowPrompt, StoreFactPrompt
       DEF ImportTask, ImportFact, ScheduleTaskQuietly, procVars
  <2> QED BY <2>1, KeptDelays
<1>8. CASE Tick
  <2>1. UNCHANGED <<state, proc>> /\ \A u \in Work : delay[u] = 0 => delay'[u] = 0
    BY <1>8 DEF Tick, ClockTick, procVars
  <2>2. DelayKept({})
    BY <2>1 DEF DelayKept, DelayOK, WakeupInv, DelayInv
  <2> QED BY <2>1, <2>2, KeptDelays
<1>9. CASE UNCHANGED vars
  BY <1>9, SameDelays, KeptDelays DEF vars
<1>10. ASSUME NEW r \in Runner, RunnerStep(r) PROVE DelayInv'
  BY <1>3, <1>4, <1>5, <1>6, <1>10 DEF RunnerStep
<1> QED BY <1>1, <1>3, <1>7, <1>8, <1>9, <1>10 DEF Next

(* Nothing becomes ready without a lease or a claiming command: the final  *)
(* check of release_runner_if_empty is in the transaction that releases,   *)
(* and claim_runner_launch gives the lease up only after it looked.        *)
LEMMA WakeStep ==
  ASSUME FaultKinds \subseteq {"crash"}, WakeupInv, [Next]_vars
  PROVE  WakeInv'
<1>0. /\ proc \in [Runner -> Processes] /\ cmd \in [Cli -> Commands] /\ QueueTypeOK
      /\ \A c \in Cli : cmd[c].pc # "clearing"
  BY DEF WakeupInv, WakeInv, TypeOK
<1>1. ASSUME UNCHANGED cmd, lease'.state # "none" PROVE WakeInv'
  BY <1>0, <1>1 DEF WakeInv
<1>2. ASSUME UNCHANGED <<state, delay, cancel, cmd>>, lease'.state = lease.state
      PROVE  WakeInv'
  BY <1>2 DEF WakeupInv, WakeInv, ReadyNow, Runnable, Claiming
<1>3. ASSUME NEW c \in Cli, CliStep(c) PROVE WakeInv'
  <2>1. ASSUME NEW pc, NEW t, cmd' = [cmd EXCEPT ![c] = [pc |-> pc, token |-> t]],
               pc # "clearing", pc \notin {"idle", "spawning"} \/ lease'.state # "none"
        PROVE  WakeInv'
    <3>1. cmd'[c].pc = pc /\ \A d \in Cli \ {c} : cmd'[d] = cmd[d]
      BY <1>0, <2>1
    <3>2. \A d \in Cli : cmd'[d].pc # "clearing"
      BY <1>0, <2>1, <3>1
    <3>3. lease'.state # "none" \/ Claiming(c)'
      BY <2>1, <3>1 DEF Claiming
    <3> QED BY <3>2, <3>3 DEF WakeInv
  <2>2. ASSUME UNCHANGED cmd, Claiming(c) PROVE WakeInv'
    BY <1>0, <2>2 DEF WakeInv, Claiming
  <2>3. ASSUME NEW op \in Operations, CliBegin(c, op) PROVE WakeInv'
    BY <2>1, <2>3 DEF CliBegin, CommandStarts, CommandGoto, Operations
  <2>4. ASSUME NEW w \in Work, CliCancel(c, w) PROVE WakeInv'
    BY <2>1, <2>4 DEF CliCancel, CommandStarts, CommandGoto
  <2>5. CASE CliStatus(c)
    BY <2>1, <2>5 DEF CliStatus, CommandStarts, CommandGoto
  <2>6. ASSUME NEW w \in Work, NEW t \in Token, CliSchedule(c, w, t) PROVE WakeInv'
    BY <2>2, <2>6 DEF CliSchedule, procVars, Claiming
  <2>7. ASSUME NEW w \in Work, CliImportFact(c, w) PROVE WakeInv'
    BY <2>2, <2>7 DEF CliImportFact, procVars, Claiming
  <2>8. ASSUME NEW w \in Work, NEW t \in Token,
               CliConnectorSync(c, w, t) \/ CliGitSync(c, w, t)
        PROVE  WakeInv'
    BY <2>1, <2>8 DEF CliConnectorSync, CliGitSync, CommandGoto
  <2>9. CASE CliPendingToken(c)
    <3>1. CASE lease.state = "launching" /\ lease.identity = Ident[c]
      BY <2>1, <2>9, <3>1 DEF CliPendingToken, queueVars
    <3>2. CASE ~(lease.state = "launching" /\ lease.identity = Ident[c])
      BY <2>1, <2>9, <3>2 DEF CliPendingToken
    <3> QED BY <3>1, <3>2
  <2>10. ASSUME NEW t \in Token, CliClaimLaunch(c, t) PROVE WakeInv'
    <3>1. lease'.state = "launching"
      BY <2>10 DEF CliClaimLaunch, ClaimRunnerLaunch, Launching
    <3> QED BY <2>1, <2>10, <3>1 DEF CliClaimLaunch
  <2>11. CASE CliClaimRefused(c)
    <3>1. CASE Fresh
      BY <2>1, <2>11, <3>1 DEF CliClaimRefused, ClaimRunnerLaunchRefused, CommandGoto,
         Fresh, queueVars
    <3>2. CASE ~Fresh
      <4>1. /\ \A u \in Work : state'[u] = RecoveredState[u]
                               \/ state'[u] = "waiting_for_credential"
            /\ UNCHANGED <<delay, cancel>> /\ ~CanLaunch(Caps[c])
        BY <2>11, <3>2 DEF CliClaimRefused, ClaimRunnerLaunchRefused
      <4>2. \A u \in Work : state'[u] = "completed" => RecoveredState[u] = "completed"
        BY <4>1
      <4>3. ASSUME NEW u \in Work, ReadyNow(u)' PROVE FALSE
        <5>1. state'[u] = "pending" /\ Runnable(state, u)' /\ Compatible(u, Caps[c])
          BY <4>3 DEF ReadyNow, Compatible
        <5>2. RecoveredState[u] = "pending"
          BY <4>1, <5>1
        <5>3. \A d \in Deps[u] : RecoveredState[d] = "completed"
          BY <4>2, <5>1, QueueAssumption DEF Runnable
        <5>4. Runnable(RecoveredState, u)
          BY <4>1, <5>1, <5>2, <5>3 DEF Runnable
        <5> QED BY <4>1, <5>1, <5>4 DEF CanLaunch
      <4>4. \A d \in Cli : cmd'[d].pc # "clearing"
        BY <1>0, <2>11 DEF CliClaimRefused, CommandGoto
      <4> QED BY <4>3, <4>4 DEF WakeInv
    <3> QED BY <3>1, <3>2
  <2>12. ASSUME NEW r \in Runner, CliSpawn(c, r) PROVE WakeInv'
    <3>1. /\ UNCHANGED <<state, delay, cancel>> /\ cmd[c].pc = "spawning"
          /\ cmd'[c].pc = "idle" /\ \A d \in Cli \ {c} : cmd'[d] = cmd[d]
      BY <1>0, <2>12 DEF CliSpawn, CommandGoto
    <3>2. lease'.state = lease.state
      BY <1>0, <2>12 DEF CliSpawn, QueueTypeOK, Leases
    <3>3. \A d \in Cli : Claiming(d)' <=> Claiming(d)
      BY <3>1 DEF Claiming
    <3>4. \A d \in Cli : cmd'[d].pc # "clearing"
      BY <1>0, <3>1
    <3>5. \A u \in Work : ReadyNow(u)' <=> ReadyNow(u)
      BY <3>1 DEF ReadyNow, Runnable
    <3> QED BY <3>2, <3>3, <3>4, <3>5 DEF WakeupInv, WakeInv
  <2>13. CASE CliSpawnFails(c) \/ CliAborts(c) \/ CliClearLaunch(c)
    BY <1>0, <2>13 DEF CliSpawnFails, CliAborts, CliClearLaunch, Fault
  <2> QED
    BY <1>3, <2>3, <2>4, <2>5, <2>6, <2>7, <2>8, <2>9, <2>10, <2>11, <2>12, <2>13
       DEF CliStep
<1>4. ASSUME NEW r \in Runner, Live(r), UNCHANGED <<cmd, lease>> PROVE WakeInv'
  BY <1>1, <1>4 DEF WakeupInv, LiveRunnerHoldsLease, HoldsLease
<1>5. ASSUME NEW r \in Runner, Adopt(r) PROVE WakeInv'
  <2>1. CASE AdoptRunner(r)
    <3>1. lease'.state = "active"
      BY <1>0, <2>1 DEF AdoptRunner, QueueTypeOK, Leases
    <3> QED BY <1>1, <1>5, <3>1 DEF Adopt, OnlyProc
  <2>2. CASE UNCHANGED queueVars
    BY <1>2, <1>5, <2>2 DEF Adopt, OnlyProc, queueVars
  <2> QED BY <1>5, <2>1, <2>2 DEF Adopt
<1>6. ASSUME NEW r \in Runner, Release(r) PROVE WakeInv'
  <2>1. CASE ReleaseRunner(r)
    <3>1. UNCHANGED <<state, delay, cancel, cmd>> /\ DueWork = {}
      BY <1>6, <2>1 DEF Release, ReleaseRunner, OnlyProc
    <3>2. \A u \in Work : ~ReadyNow(u)'
      BY <3>1 DEF ReadyNow, DueWork, Runnable
    <3> QED BY <1>0, <3>1, <3>2 DEF WakeInv
  <2>2. CASE ReleaseRefused(r)
    BY <1>2, <1>6, <2>2 DEF Release, ReleaseRefused, OnlyProc, queueVars
  <2> QED BY <1>6, <2>1, <2>2 DEF Release
<1>7. ASSUME NEW r \in Runner, RunnerStep(r), ~Adopt(r), ~Release(r) PROVE WakeInv'
  <2>1. lease' = lease /\ Live(r)
    BY <1>7, RunnersKeepLease
  <2>2. UNCHANGED cmd
    BY <1>7 DEF RunnerStep, StartLoop, Claim, ClaimFindsNothing, ClaimDies, ServeDone,
       ServeFails, Extract, RejectForeign, AcquireFinds, AcquireDefers, AcquireGrants,
       TaskFound, TaskDeferred, TaskGranted, ExtractionCancelled, ExtractionFails,
       PublishResult, ClaimCompleted, ClaimLost, FinishTask, OnlyProc
  <2> QED BY <1>4, <2>1, <2>2
<1>8. ASSUME NEW r \in Runner, Heartbeat(r) PROVE WakeInv'
  <2>1. lease'.state = lease.state
    BY <1>0, <1>8 DEF Heartbeat, HeartbeatRunner, QueueTypeOK, Leases
  <2> QED BY <1>2, <1>8, <2>1 DEF Heartbeat, HeartbeatRunner, procVars
<1>9. ASSUME NEW r \in Runner, Crash(r) PROVE WakeInv'
  BY <1>2, <1>9 DEF Crash, queueVars
<1>10. ASSUME NEW r \in Runner, NEW w \in Work, ImportTask(r, w) \/ ImportFact(r, w)
       PROVE  WakeInv'
  <2>1. Live(r) /\ UNCHANGED <<cmd, lease>>
    BY <1>10 DEF ImportTask, ImportFact, ScheduleTaskQuietly, StoreFact, Synchronizing,
       At, Live, procVars
  <2> QED BY <1>4, <2>1
<1>11. CASE Tick
  <2>1. lease'.state = lease.state
    BY <1>0, <1>11 DEF Tick, ClockTick, QueueTypeOK, Leases
  <2>2. UNCHANGED <<state, cancel, cmd>>
    BY <1>11 DEF Tick, ClockTick, procVars
  <2>3. \A u \in Work : ReadyNow(u)' => ReadyNow(u)
    <3>1. \A u \in Work : state[u] = "pending" => delay[u] = 0
      BY DEF WakeupInv, DelayInv, DelayOK, Prompt
    <3> QED BY <2>2, <3>1 DEF ReadyNow, Runnable
  <2> QED BY <2>1, <2>2, <2>3 DEF WakeupInv, WakeInv, Claiming
<1>12. CASE UNCHANGED vars
  BY <1>2, <1>12 DEF vars
<1> QED
  BY <1>3, <1>5, <1>6, <1>7, <1>8, <1>9, <1>10, <1>11, <1>12 DEF Next

(* No lost wakeup: with timely heartbeats, and unless a command is aborted *)
(* or cannot spawn a runner, work without a credential that is ready to    *)
(* run has a lease or a command that will claim one, across every crash of *)
(* a runner.  Evictions are allowed.                                       *)
THEOREM NoWakeupIsLost ==
  ASSUME TimelyHeartbeats, FaultKinds \subseteq {"crash"}
  PROVE  Spec => []NoLostWakeup
<1>1. Init => JobsMatch /\ DelayInv /\ WakeInv
  BY DEF Init, QueueInit, JobsMatch, DelayInv, DelayOK, WakeInv, ReadyNow, Off, Idle,
     BusyStates, Working
<1>2. TypeOK /\ JobsMatch /\ [Next]_vars => JobsMatch'
  BY JobsStep
<1>3. WakeupInv /\ [Next]_vars => DelayInv' /\ WakeInv'
  BY DelayStep, WakeStep
<1>4. WakeupInv => NoLostWakeup
  BY DEF WakeupInv, WakeInv, ReadyNow, Claiming, NoLostWakeup
<1>5. WakeupInv <=> TypeOK /\ JobsMatch /\ LiveRunnerHoldsLease /\ DelayInv /\ WakeInv
  BY DEF WakeupInv
<1> QED
  BY <1>1, <1>2, <1>3, <1>4, <1>5, TypeCorrect, LeaseHeld, PTL DEF Spec

-----------------------------------------------------------------------------
(* Leaving the queue.  A row has one place in the queue, taken when it is  *)
(* inserted, and only rows that need a credential, or a task of another    *)
(* extractor, are marked as waiting for one.                               *)

FifoInv ==
  /\ \A i, j \in 1..Len(fifo) : fifo[i] = fifo[j] => i = j
  /\ \A i \in 1..Len(fifo) : state[fifo[i]] # "absent"
WaitInv ==
  \A w \in Work :
    state[w] = "waiting_for_credential" => Credential[w] # None \/ w \in Foreign

LookInv == FifoInv /\ WaitInv

(* Some row of every set of rows is preceded by none of the set, so        *)
(* claim_next_work finds a row whenever one can run.                       *)
LEMMA FirstRow ==
  ASSUME QueueTypeOK, FifoInv, NEW S \in SUBSET Work, S # {}
  PROVE  \E w \in S : \A v \in S \ {w} : ~Precedes(v, w)
<1> DEFINE T == IF S \ Maintenance # {} THEN S \ Maintenance ELSE S
<1>1. T # {} /\ T \subseteq S
  OBVIOUS
<1>2. ASSUME NEW w \in T, NEW v \in S, Precedes(v, w) PROVE v \in T /\ EnqueuedBefore(v, w)
  BY <1>2 DEF Precedes
<1>3. \E w \in T : \A v \in T : ~EnqueuedBefore(v, w)
  <2>1. fifo \in Seq(Work) /\ Len(fifo) \in Nat
    BY DEF QueueTypeOK
  <2>2. CASE \E w \in T : \A i \in 1..Len(fifo) : fifo[i] # w
    BY <2>2 DEF EnqueuedBefore
  <2>3. CASE \A w \in T : \E i \in 1..Len(fifo) : fifo[i] = w
    <3> DEFINE I == {i \in 1..Len(fifo) : fifo[i] \in T}
    <3>1. I \in SUBSET Nat /\ I # {}
      BY <1>1, <2>1, <2>3
    <3>2. PICK n \in I : \A m \in I : n <= m
      BY <3>1, LeastNumber
    <3>3. ASSUME NEW v \in T, EnqueuedBefore(v, fifo[n]) PROVE FALSE
      <4>1. PICK i, j \in 1..Len(fifo) : i < j /\ fifo[i] = v /\ fifo[j] = fifo[n]
        BY <3>3 DEF EnqueuedBefore
      <4>2. j = n /\ i \in I
        BY <3>2, <3>3, <4>1 DEF FifoInv
      <4> QED BY <2>1, <3>2, <4>1, <4>2
    <3> QED BY <3>2, <3>3
  <2> QED BY <2>2, <2>3
<1> QED BY <1>1, <1>2, <1>3

(* The lease holder gets nothing only when it can run nothing.             *)
LEMMA NothingToClaim ==
  ASSUME QueueTypeOK, FifoInv, NEW caps, ~\E w \in Work : IsNextWork(w, caps)
  PROVE  \A w \in RunnableNow : ~Compatible(w, caps)
<1> DEFINE S == {w \in RunnableNow : Compatible(w, caps)}
<1> SUFFICES ASSUME S # {} PROVE FALSE
  OBVIOUS
<1>1. S \in SUBSET Work
  BY DEF RunnableNow
<1>2. PICK w \in S : \A v \in S \ {w} : ~Precedes(v, w)
  BY <1>1, FirstRow
<1> QED BY <1>2 DEF IsNextWork, RunnableNow

LEMMA SameFifo ==
  ASSUME TypeOK, LookInv, UNCHANGED fifo,
         \A u \in Work : state[u] # "absent" => state'[u] # "absent",
         \A u \in Work : state'[u] = "waiting_for_credential" =>
           state[u] = "waiting_for_credential" \/ Credential[u] # None \/ u \in Foreign
  PROVE  LookInv'
<1>1. \A i \in 1..Len(fifo) : fifo[i] \in Work
  BY DEF TypeOK, QueueTypeOK
<1>2. FifoInv'
  BY <1>1 DEF LookInv, FifoInv
<1>3. WaitInv'
  BY DEF LookInv, WaitInv
<1> QED BY <1>2, <1>3 DEF LookInv

LEMMA InsertLook ==
  ASSUME TypeOK, LookInv, NEW w \in Work, InsertRow(w)
  PROVE  LookInv'
<1>1. fifo \in Seq(Work) /\ state \in [Work -> WorkStates] /\ Len(fifo) \in Nat
  BY DEF TypeOK, QueueTypeOK
<1>2. CASE state[w] = "absent"
  <2>1. fifo' = Append(fifo, w) /\ state' = [state EXCEPT ![w] = "pending"]
    BY <1>2 DEF InsertRow
  <2>2. /\ Len(fifo') = Len(fifo) + 1 /\ fifo'[Len(fifo) + 1] = w
        /\ \A i \in 1..Len(fifo) : fifo'[i] = fifo[i]
    BY <1>1, <2>1, AppendProperties
  <2>3. \A i \in 1..Len(fifo) : fifo[i] \in Work /\ fifo[i] # w
    BY <1>1, <1>2 DEF LookInv, FifoInv
  <2>4. \A i \in 1..Len(fifo') : i \in 1..Len(fifo) \/ i = Len(fifo) + 1
    BY <1>1, <2>2
  <2>5. ASSUME NEW i \in 1..Len(fifo'), NEW j \in 1..Len(fifo'), fifo'[i] = fifo'[j]
        PROVE  i = j
    BY <2>2, <2>3, <2>4, <2>5 DEF LookInv, FifoInv
  <2>6. ASSUME NEW i \in 1..Len(fifo') PROVE state'[fifo'[i]] # "absent"
    BY <1>1, <2>1, <2>2, <2>3, <2>4 DEF LookInv, FifoInv
  <2>7. WaitInv'
    BY <1>1, <2>1 DEF LookInv, WaitInv
  <2> QED BY <2>5, <2>6, <2>7 DEF LookInv, FifoInv
<1>3. CASE state[w] # "absent"
  BY <1>3, SameFifo DEF InsertRow
<1> QED BY <1>2, <1>3

LEMMA LookStep ==
  ASSUME TypeOK, JobsMatch, LookInv, [Next]_vars
  PROVE  LookInv'
<1>0. QueueTypeOK /\ proc \in [Runner -> Processes] /\ state \in [Work -> WorkStates]
  BY DEF TypeOK, QueueTypeOK
<1>1. ASSUME UNCHANGED <<state, fifo>> PROVE LookInv'
  BY <1>1, SameFifo
<1>2. ASSUME NEW w \in Work, NEW s \in WorkStates \ {"absent"}, UNCHANGED fifo,
             state' = [state EXCEPT ![w] = s],
             s = "waiting_for_credential" => w \in Foreign
      PROVE  LookInv'
  BY <1>0, <1>2, SameFifo
<1>3. ASSUME NEW w \in Work, NEW evicted, StoreFact(w, evicted) PROVE LookInv'
  <2>1. \A u \in Work : \/ state'[u] = state[u]
                        \/ state[u] # "absent" /\ state'[u] \in {"completed", "pending"}
    BY <1>0, <1>3 DEF StoreFact
  <2> QED BY <1>3, <2>1, SameFifo DEF StoreFact
<1>4. ASSUME NEW w \in Work, NEW caps, NEW id, NEW t, EnqueueWork(w, caps, id, t)
      PROVE  LookInv'
  <2>1. CASE state[w] = "absent"
    BY <1>4, <2>1, InsertLook DEF EnqueueWork
  <2>2. CASE state[w] # "absent"
    <3>1. UNCHANGED fifo /\ RerunRow(w)
      BY <1>4, <2>2 DEF EnqueueWork
    <3> QED BY <1>1, <1>2, <3>1 DEF RerunRow
  <2> QED BY <2>1, <2>2
<1>5. ASSUME NEW c \in Cli, CliStep(c) PROVE LookInv'
  <2>1. ASSUME NEW w \in Work, NEW t \in Token,
               CliSchedule(c, w, t) \/ CliConnectorSync(c, w, t) \/ CliGitSync(c, w, t)
        PROVE  LookInv'
    BY <1>4, <2>1, InsertLook DEF CliSchedule, CliConnectorSync, CliGitSync, ScheduleTask
  <2>2. ASSUME NEW w \in Work, CliCancel(c, w) PROVE LookInv'
    <3>1. UNCHANGED fifo /\ (UNCHANGED state \/ state' = [state EXCEPT ![w] = "cancelled"])
      BY <1>0, <2>2 DEF CliCancel, CancelWork
    <3> QED BY <1>1, <1>2, <3>1
  <2>3. ASSUME NEW w \in Work, CliImportFact(c, w) PROVE LookInv'
    BY <1>3, <2>3 DEF CliImportFact
  <2>4. CASE CliClaimRefused(c) \/ \E t \in Token : CliClaimLaunch(c, t)
    <3>1. UNCHANGED fifo
      BY <2>4 DEF CliClaimRefused, CliClaimLaunch, ClaimRunnerLaunchRefused,
         ClaimRunnerLaunch, queueVars
    <3>2. \A u \in Work :
            \/ state'[u] = state[u]
            \/ state[u] = "running" /\ state'[u] = "pending"
            \/ /\ state[u] # "absent"
               /\ Credential[u] # None /\ state'[u] = "waiting_for_credential"
      BY <2>4 DEF CliClaimRefused, CliClaimLaunch, ClaimRunnerLaunchRefused,
         ClaimRunnerLaunch, RecoveredState, Recovered, queueVars
    <3> QED BY <3>1, <3>2, SameFifo
  <2>5. CASE \/ \E op \in Operations : CliBegin(c, op)
             \/ CliStatus(c) \/ CliPendingToken(c) \/ CliClearLaunch(c)
             \/ \E r \in Runner : CliSpawn(c, r)
             \/ CliSpawnFails(c) \/ CliAborts(c)
    BY <1>1, <2>5 DEF CliBegin, CliStatus, CliPendingToken, CliClearLaunch, CliSpawn,
       CliSpawnFails, CliAborts, ClearFailedLaunch, queueVars
  <2> QED BY <1>5, <2>1, <2>2, <2>3, <2>4, <2>5 DEF CliStep
<1>6. ASSUME NEW r \in Runner,
             \/ Adopt(r) \/ StartLoop(r) \/ ClaimDies(r) \/ Release(r)
             \/ Heartbeat(r) \/ Crash(r)
      PROVE  LookInv'
  BY <1>1, <1>6 DEF Adopt, AdoptRunner, StartLoop, ClaimDies, ClaimThrows, Release,
     ReleaseRunner, ReleaseRefused, Heartbeat, HeartbeatRunner, Crash, queueVars
<1>7. ASSUME NEW skipped, skipped \subseteq RunnableNow,
             \A v \in skipped : Credential[v] # None
      PROVE  \A u \in Work :
               \/ MarkedState(skipped)[u] = state[u]
               \/ state[u] # "absent" /\ MarkedState(skipped)[u] = "failed"
               \/ state[u] # "absent" /\ Credential[u] # None
  BY <1>7 DEF MarkedState, PropagatedState, RunnableNow, Runnable
<1>8. ASSUME NEW r \in Runner, NEW w \in Work, Claim(r, w) PROVE LookInv'
  <2> DEFINE skipped == {v \in RunnableNow : Precedes(v, w)} \ {w}
  <2>1. \A v \in skipped : Credential[v] # None
    BY <1>8 DEF Claim, ClaimNextWork, IsNextWork, Compatible
  <2>2. skipped \subseteq RunnableNow /\ w \in RunnableNow
    BY <1>8 DEF Claim, ClaimNextWork, IsNextWork
  <2>3. /\ UNCHANGED fifo
        /\ \A u \in Work : state'[u] = IF u = w THEN "running" ELSE MarkedState(skipped)[u]
    BY <1>8 DEF Claim, ClaimNextWork, MarkedState
  <2> HIDE DEF skipped
  <2>4. \A u \in Work : \/ state'[u] = state[u]
                        \/ u = w \/ (state[u] # "absent" /\ state'[u] = "failed")
                        \/ state[u] # "absent" /\ Credential[u] # None
    BY <1>7, <2>1, <2>2, <2>3
  <2>5. MarkedState(skipped) \in [Work -> WorkStates]
    BY <1>0, MarkedType
  <2>6. \A u \in Work : state[u] # "absent" => state'[u] # "absent"
    <3>1. \A u \in Work : state[u] # "absent" => MarkedState(skipped)[u] # "absent"
      BY DEF MarkedState, PropagatedState
    <3> QED BY <2>3, <3>1
  <2> QED BY <2>3, <2>4, <2>6, SameFifo
<1>9. ASSUME NEW r \in Runner, ClaimFindsNothing(r) PROVE LookInv'
  <2>1. UNCHANGED fifo
    BY <1>9 DEF ClaimFindsNothing, ClaimNothing
  <2>2. CASE state' = PropagatedState
    BY <2>1, <2>2, SameFifo DEF PropagatedState
  <2>3. CASE state' = MarkedState(RunnableNow)
             /\ ~\E w \in Work : IsNextWork(w, Caps[proc[r].cli])
    <3>1. \A v \in RunnableNow : Credential[v] # None
      BY <1>0, <2>3, NothingToClaim DEF LookInv, Compatible
    <3>2. \A u \in Work : state[u] # "absent" => state'[u] # "absent"
      BY <2>3 DEF MarkedState, PropagatedState
    <3> QED BY <1>7, <2>1, <2>3, <3>1, <3>2, SameFifo
  <2> QED BY <1>9, <2>2, <2>3 DEF ClaimFindsNothing, ClaimNothing
<1>10. ASSUME NEW r \in Runner,
              ServeDone(r) \/ ServeFails(r) \/ Extract(r) \/ FinishTask(r)
       PROVE  LookInv'
  <2>1. PICK w \in Work : proc[r].job = w
    <3>1. proc[r].pc \in BusyStates
      BY <1>10 DEF ServeDone, ServeFails, Extract, RejectForeign, AcquireFinds,
         AcquireDefers, AcquireGrants, TaskFound, TaskDeferred, TaskGranted,
         ExtractionCancelled, ExtractionFails, PublishResult, ClaimCompleted,
         ClaimLost, FinishTask, At, BusyStates
    <3> QED BY <3>1, BusyJob
  <2>2. CASE AcquireFinds(r) \/ AcquireDefers(r) \/ AcquireGrants(r) \/ ExtractionCancelled(r)
    BY <1>1, <2>2 DEF AcquireFinds, AcquireDefers, AcquireGrants, ExtractionCancelled, queueVars
  <2>3. CASE RejectForeign(r) \/ TaskFound(r) \/ TaskDeferred(r) \/ TaskGranted(r)
             \/ ClaimCompleted(r) \/ ClaimLost(r)
    <3>1. \E s \in WorkStates \ {"absent"} :
            SetTaskState(w, s) /\ (s = "waiting_for_credential" => w \in Foreign)
      BY <2>1, <2>3 DEF RejectForeign, TaskFound, TaskDeferred, TaskGranted,
         ClaimCompleted, ClaimLost
    <3> QED BY <1>2, <3>1 DEF SetTaskState
  <2>4. CASE PublishResult(r)
    BY <1>3, <2>1, <2>4 DEF PublishResult
  <2>5. CASE ExtractionFails(r) \/ ServeFails(r) \/ ServeDone(r) \/ FinishTask(r)
    <3>1. /\ UNCHANGED fifo
          /\ \/ UNCHANGED state
             \/ \E s \in {"completed", "cancelled", "failed", "retry_wait"} :
                  state' = [state EXCEPT ![w] = s]
      BY <2>1, <2>5 DEF ExtractionFails, FailTask, ServeFails, FailWork, FailWorkThrows,
         StateAfterFailure, ServeDone, FinishTask, CompleteWork, queueVars
    <3> QED BY <1>1, <1>2, <3>1
  <2> QED BY <1>10, <2>2, <2>3, <2>4, <2>5 DEF Extract
<1>11. ASSUME NEW r \in Runner, NEW w \in Work, ImportTask(r, w) \/ ImportFact(r, w)
       PROVE  LookInv'
  BY <1>3, <1>11, InsertLook DEF ImportTask, ImportFact, ScheduleTaskQuietly
<1>12. CASE Tick \/ UNCHANGED vars
  BY <1>1, <1>12 DEF Tick, ClockTick, vars
<1>13. ASSUME NEW r \in Runner, RunnerStep(r) PROVE LookInv'
  BY <1>6, <1>8, <1>9, <1>10, <1>13 DEF RunnerStep
<1> QED BY <1>5, <1>6, <1>11, <1>12, <1>13 DEF Next

LEMMA LeavesStep ==
  ASSUME TypeOK, LookInv, NEW r \in Runner, [Next]_vars
  PROVE  LooksLast(r) /\ LeavesNothing(r)
<1>0. proc \in [Runner -> Processes] /\ QueueTypeOK
  BY DEF TypeOK
<1>1. ASSUME At(r, "claiming"), HoldsLease(r), proc'[r].pc = "draining"
      PROVE  ClaimFindsNothing(r)
  <2>1. proc'[r] # proc[r]
    BY <1>1 DEF At
  <2>2. ASSUME NEW c \in Cli, CliStep(c) PROVE FALSE
    <3>1. CASE \E q \in Runner : CliSpawn(c, q)
      BY <1>0, <1>1, <2>1, <3>1 DEF CliSpawn
    <3>2. CASE ~\E q \in Runner : CliSpawn(c, q)
      BY <1>0, <2>1, <2>2, <3>2, CommandsKeepLease
    <3> QED BY <3>1, <3>2
  <2>3. ASSUME NEW q \in Runner, RunnerStep(q) \/ Crash(q) PROVE q = r
    BY <2>1, <2>3, OnlyOneMoves
  <2>4. ~Crash(r)
    BY <1>0, <1>1 DEF Crash, Exit, Off
  <2>5. RunnerStep(r)
    BY <2>1, <2>2, <2>3, <2>4
       DEF Next, vars, Tick, Heartbeat, ImportTask, ImportFact, procVars
  <2>6. ~(Adopt(r) \/ StartLoop(r) \/ Release(r) \/ ServeDone(r) \/ ServeFails(r)
          \/ Extract(r) \/ FinishTask(r))
    BY <1>1 DEF Adopt, StartLoop, Release, ServeDone, ServeFails, Extract, RejectForeign,
       AcquireFinds, AcquireDefers, AcquireGrants, TaskFound, TaskDeferred, TaskGranted,
       ExtractionCancelled, ExtractionFails, PublishResult, ClaimCompleted, ClaimLost,
       FinishTask, At
  <2>7. ~ClaimDies(r) /\ \A w \in Work : ~Claim(r, w)
    BY <1>0, <1>1 DEF ClaimDies, Claim, Exit, Off, Processes
  <2> QED BY <2>5, <2>6, <2>7 DEF RunnerStep
<1>2. LooksLast(r)
  <2> SUFFICES ASSUME At(r, "claiming"), HoldsLease(r), proc'[r].pc = "draining",
                      NEW w \in Work, Runnable(state', w)
               PROVE  ~Compatible(w, Caps[proc[r].cli])
    BY DEF LooksLast
  <2>1. /\ ~\E v \in Work : IsNextWork(v, Caps[proc[r].cli])
        /\ state' = MarkedState(RunnableNow)
    BY <1>1 DEF ClaimFindsNothing, ClaimNothing
  <2>2. w \in RunnableNow
    <3>1. PropagatedState[w] \in Waiting
      BY <2>1 DEF Runnable, MarkedState, RunnableNow
    <3>2. \A d \in Deps[w] : PropagatedState[d] = "completed"
      BY <2>1, QueueAssumption DEF Runnable, MarkedState
    <3> QED BY <3>1, <3>2 DEF RunnableNow, Runnable
  <2> QED BY <1>0, <2>1, <2>2, NothingToClaim DEF LookInv
<1>3. LeavesNothing(r)
  <2> SUFFICES ASSUME At(r, "draining"), HoldsLease(r), lease' = NoLease,
                      proc'[r].pc = "off", NEW w \in Work, Runnable(state, w)
               PROVE  Credential[w] # None \/ w \in Foreign
    BY DEF LeavesNothing
  <2>1. lease' # lease /\ proc'[r] # proc[r]
    BY DEF HoldsLease, NoLease, At
  <2>2. ASSUME NEW c \in Cli, CliStep(c) PROVE FALSE
    <3>1. CASE \E q \in Runner : CliSpawn(c, q)
      BY <1>0, <2>1, <3>1 DEF CliSpawn, At
    <3>2. CASE ~\E q \in Runner : CliSpawn(c, q)
      BY <1>0, <2>1, <2>2, <3>2, CommandsKeepLease
    <3> QED BY <3>1, <3>2
  <2>3. ASSUME NEW q \in Runner, RunnerStep(q) \/ Crash(q) PROVE q = r
    BY <2>1, <2>3, OnlyOneMoves
  <2>4. ~Crash(r)
    BY <2>1 DEF Crash, queueVars
  <2>5. RunnerStep(r)
    BY <2>1, <2>2, <2>3, <2>4
       DEF Next, vars, Tick, Heartbeat, ImportTask, ImportFact, procVars
  <2>6. ReleaseRunner(r)
    <3>1. ~Adopt(r)
      BY DEF Adopt, At
    <3>2. Release(r)
      BY <2>1, <2>5, <3>1, RunnersKeepLease
    <3> QED BY <2>1, <3>2 DEF Release, ReleaseRefused, queueVars
  <2>7. state[w] = "waiting_for_credential"
    BY <2>6 DEF ReleaseRunner, DueWork, Runnable
  <2> QED BY <2>7 DEF LookInv, WaitInv
<1> QED BY <1>2, <1>3

(* A runner that leaves misses nothing: claim_next_work gives it nothing   *)
(* only when it can run nothing, and what is runnable when it deletes the  *)
(* lease needs a credential or another extractor.  No heartbeat is assumed *)
(* to be timely and every fault may happen.                                *)
THEOREM LeavingMissesNothing == Spec => ReleaseLeavesNothingReady
<1>1. Init => JobsMatch /\ LookInv
  BY DEF Init, QueueInit, JobsMatch, Off, BusyStates, LookInv, FifoInv, WaitInv
<1>2. TypeOK /\ JobsMatch /\ [Next]_vars => JobsMatch'
  BY JobsStep
<1>3. TypeOK /\ JobsMatch /\ LookInv /\ [Next]_vars => LookInv'
  BY LookStep
<1>4. TypeOK /\ LookInv /\ [Next]_vars
        => [\A r \in Runner : LooksLast(r) /\ LeavesNothing(r)]_vars
  BY LeavesStep
<1> QED
  BY <1>1, <1>2, <1>3, <1>4, TypeCorrect, PTL DEF Spec, ReleaseLeavesNothingReady
=============================================================================
