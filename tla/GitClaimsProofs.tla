--------------------------- MODULE GitClaimsProofs ---------------------------
(***************************************************************************)
(* Theorems about GitClaims, for any producers, processes, lease times and *)
(* faults.  A claim commit never changes but for the time it has left;     *)
(* a process that is about to take a claim over found it past its grace,   *)
(* and one that is about to end a claim found it to be its own.  The       *)
(* compare-and-swap push makes these findings still true of the ref.       *)
(***************************************************************************)
EXTENDS GitClaimsProperties, TLAPS

Commit == [by : Producer, state : {"processing", "completed"}, left : Int]
ProcessState == [pc : ProcessStates, why : {"sync", "acquire", "retry"},
                 oid : 0..Len(commits), result : 0..Len(results),
                 waited : 0..Lease + Grace + 1]

(* A push appends a commit and moves the ref to it; nothing else changes at *)
(* the remote.                                                              *)
LEMMA PushEffect ==
  ASSUME TypeOK, NEW x \in Process, NEW state \in {"processing", "completed"},
         NEW left \in Int, PushClaim(x, state, left)
  PROVE  /\ commits' \in Seq(Commit)
         /\ Len(commits') = Len(commits) + 1
         /\ claimRef' = Len(commits')
         /\ commits'[claimRef'].by = Home[x]
         /\ commits'[claimRef'].state = state /\ commits'[claimRef'].left = left
         /\ \A i \in 1..Len(commits) : commits'[i] = commits[i]
         /\ UNCHANGED <<results, resultRef>>
<1> DEFINE c == [by |-> Home[x], state |-> state, left |-> left]
<1>1. c \in Commit
  BY GitAssumption DEF Commit
<1>2. commits \in Seq(Commit)
  BY DEF TypeOK, Commit
<1>3. commits' = Append(commits, c) /\ claimRef' = Len(commits) + 1
  BY DEF PushClaim
<1> HIDE DEF c
<1>4. /\ Append(commits, c) \in Seq(Commit)
      /\ Len(Append(commits, c)) = Len(commits) + 1
      /\ \A i \in 1..Len(commits) : Append(commits, c)[i] = commits[i]
      /\ Append(commits, c)[Len(commits) + 1] = c
  BY <1>1, <1>2
<1> QED
  BY <1>3, <1>4 DEF c, PushClaim

(* Time only runs down.                                                     *)
LEMMA TickEffect ==
  ASSUME TypeOK, Tick
  PROVE  /\ commits' \in Seq(Commit)
         /\ Len(commits') = Len(commits)
         /\ \A i \in 1..Len(commits) :
              /\ commits'[i].by = commits[i].by
              /\ commits'[i].state = commits[i].state
              /\ commits[i].left < -Grace => commits'[i].left < -Grace
<1> DEFINE c(i) == IF commits[i].left >= -Grace
                     THEN [commits[i] EXCEPT !.left = @ - 1] ELSE commits[i]
<1>1. commits \in Seq(Commit) /\ Len(commits) \in Nat
  BY DEF TypeOK, Commit
<1>2. \A i \in 1..Len(commits) : commits[i] \in Commit
  BY <1>1
<1>3. ASSUME NEW i \in 1..Len(commits)
      PROVE  /\ c(i) \in Commit
             /\ c(i).by = commits[i].by
             /\ c(i).state = commits[i].state
             /\ commits[i].left < -Grace => c(i).left < -Grace
  <2>1. /\ commits[i] \in Commit
        /\ commits[i].left \in Int
        /\ Grace \in Nat
    BY <1>2, GitAssumption DEF Commit
  <2>2. CASE commits[i].left >= -Grace
    <3>1. c(i) = [commits[i] EXCEPT !.left = @ - 1]
      BY <2>2
    <3> QED
      BY <2>1, <2>2, <3>1 DEF Commit
  <2>3. CASE ~(commits[i].left >= -Grace)
    BY <2>1, <2>3
  <2> QED
    BY <2>2, <2>3
<1>4. commits' = [i \in 1..Len(commits) |-> c(i)]
  BY DEF Tick
<1> HIDE DEF c
<1>5. commits' \in Seq(Commit) /\ Len(commits') = Len(commits)
  BY <1>1, <1>3, <1>4
<1>6. \A i \in 1..Len(commits) : commits'[i] = c(i)
  BY <1>4
<1> QED
  BY <1>3, <1>5, <1>6

(* What a step leaves of the claim commits: they stay, and stay what they   *)
(* were but for the time left.                                              *)
CommitsKept ==
  /\ commits' \in Seq(Commit)
  /\ Len(commits) <= Len(commits')
  /\ \A i \in 1..Len(commits) :
       /\ commits'[i].by = commits[i].by
       /\ commits'[i].state = commits[i].state
       /\ commits[i].left < -Grace => commits'[i].left < -Grace

-----------------------------------------------------------------------------
(* Type correctness.                                                        *)

(* TypeOK in the parts that an action disturbs.                             *)
RemoteTyped ==
  /\ commits \in Seq(Commit)
  /\ results \in Seq(Producer)
  /\ claimRef \in 0..Len(commits)
  /\ resultRef \in 0..Len(results)
CatalogTyped ==
  /\ known \in [Producer -> 0..Len(commits)]
  /\ fact \in [Producer -> BOOLEAN]
  /\ imported \in [Producer -> SUBSET (0..Len(results))]
ProcessesTyped == proc \in [Process -> ProcessState]
FaultsTyped == faults \in 0..MaxFaults

LEMMA TypeParts ==
  TypeOK <=> RemoteTyped /\ CatalogTyped /\ ProcessesTyped /\ FaultsTyped
BY DEF TypeOK, RemoteTyped, CatalogTyped, ProcessesTyped, FaultsTyped, Commit,
       ProcessState

LEMMA TypePartsNext ==
  RemoteTyped' /\ CatalogTyped' /\ ProcessesTyped' /\ FaultsTyped' => TypeOK'
BY DEF TypeOK, RemoteTyped, CatalogTyped, ProcessesTyped, FaultsTyped, Commit,
       ProcessState

(* What the parts say of the process that takes a step.                     *)
LEMMA ProcessFacts ==
  ASSUME TypeOK, NEW x \in Process
  PROVE  /\ Home[x] \in Producer
         /\ Known(x) \in 0..Len(commits)
         /\ proc[x] \in ProcessState
         /\ Idle \in ProcessState
         /\ Len(commits) \in Nat /\ Len(results) \in Nat
         /\ 0 \in 0..Len(commits) /\ 0 \in 0..Len(results)
         /\ 0 \in 0..Lease + Grace + 1
<1>1. Home[x] \in Producer
  BY GitAssumption
<1>2. Len(commits) \in Nat /\ Len(results) \in Nat
  BY DEF TypeOK
<1>3. /\ 0 \in 0..Len(commits) /\ 0 \in 0..Len(results)
      /\ 0 \in 0..Lease + Grace + 1
  BY <1>2, GitAssumption
<1>4. Known(x) \in 0..Len(commits)
  BY <1>1 DEF TypeOK, Known
<1>5. proc[x] \in ProcessState
  BY DEF TypeOK, ProcessState
<1>6. Idle \in ProcessState
  BY <1>3 DEF Idle, ProcessState, ProcessStates,
           Extracting, Completing
<1> QED
  BY <1>1, <1>2, <1>3, <1>4, <1>5, <1>6

(* The ways a process changes its own state.                                *)
LEMMA ProcessSteps ==
  ASSUME TypeOK, NEW x \in Process
  PROVE  /\ \A v \in ProcessState :
              proc' = [proc EXCEPT ![x] = v] => proc' \in [Process -> ProcessState]
         /\ \A pc \in ProcessStates :
              Goto(x, pc) => proc' \in [Process -> ProcessState]
         /\ Return(x) => proc' \in [Process -> ProcessState]
         /\ AfterSync(x) => proc' \in [Process -> ProcessState]
         /\ \A why \in {"sync", "acquire", "retry"} :
              Snapshot(x, why) => proc' \in [Process -> ProcessState]
<1>1. proc \in [Process -> ProcessState]
  BY DEF TypeOK, ProcessState
<1>2. \A v \in ProcessState :
        proc' = [proc EXCEPT ![x] = v] => proc' \in [Process -> ProcessState]
  BY <1>1
<1>3. ASSUME NEW pc \in ProcessStates, Goto(x, pc)
      PROVE  proc' \in [Process -> ProcessState]
  BY <1>1, <1>3 DEF Goto, ProcessState
<1>4. Return(x) => proc' \in [Process -> ProcessState]
  BY <1>2, ProcessFacts DEF Return
<1>5. AfterSync(x) => proc' \in [Process -> ProcessState]
  <2>1. "acquiring" \in ProcessStates
    BY DEF ProcessStates
  <2> QED
    BY <1>3, <1>4, <2>1 DEF AfterSync
<1>6. ASSUME NEW why \in {"sync", "acquire", "retry"}, Snapshot(x, why)
      PROVE  proc' \in [Process -> ProcessState]
  <2> DEFINE v == [pc |-> "fetched", why |-> why, oid |-> claimRef,
                   result |-> resultRef, waited |-> 0]
  <2>1. v \in ProcessState
    <3>1. claimRef \in 0..Len(commits) /\ resultRef \in 0..Len(results)
      BY DEF TypeOK
    <3>2. "fetched" \in ProcessStates
      BY DEF ProcessStates
    <3> QED
      BY <3>1, <3>2, ProcessFacts DEF ProcessState
  <2>2. proc' = [proc EXCEPT ![x] = v]
    BY <1>6 DEF Snapshot
  <2> QED
    BY <1>2, <2>1, <2>2
<1> QED
  BY <1>2, <1>3, <1>4, <1>5, <1>6

(* A step that pushes nothing keeps the types when what it changes keeps    *)
(* them.                                                                    *)
LEMMA CatalogStep ==
  ASSUME TypeOK, NEW x \in Process, NEW oid \in 0..Len(commits), SetKnown(x, oid)
  PROVE  known' \in [Producer -> 0..Len(commits)]
BY ProcessFacts DEF TypeOK, SetKnown

LEMMA FaultStep ==
  ASSUME TypeOK
  PROVE  /\ NoFault => FaultsTyped'
         /\ UNCHANGED faults => FaultsTyped'
         /\ \A kind : Fault(kind) => FaultsTyped'
BY GitAssumption DEF TypeOK, FaultsTyped, NoFault, Fault

LEMMA RefreshStep ==
  ASSUME TypeOK, NEW x \in Process, Refresh(x)
  PROVE  known' \in [Producer -> 0..Len(commits)] /\ FaultsTyped'
<1>1. known \in [Producer -> 0..Len(commits)] /\ claimRef \in 0..Len(commits)
  BY DEF TypeOK
<1>2. (IF Accepted(Home[x], claimRef) THEN claimRef ELSE Known(x)) \in 0..Len(commits)
  BY <1>1, ProcessFacts
<1> QED
  BY <1>1, <1>2, CatalogStep, FaultStep DEF Refresh

(* The steps that leave the remote alone, or delete one of its refs.        *)
LEMMA TypeWithoutPush ==
  ASSUME TypeOK, NEW x \in Process,
         UNCHANGED <<commits, results>>,
         claimRef' \in {claimRef, 0}, resultRef' \in {resultRef, 0},
         known' \in [Producer -> 0..Len(commits)],
         fact' \in [Producer -> BOOLEAN],
         imported' \in [Producer -> SUBSET (0..Len(results))],
         proc' \in [Process -> ProcessState],
         FaultsTyped'
  PROVE  TypeOK' /\ CommitsKept
<1>1. CommitsKept
  BY DEF CommitsKept, TypeOK, Commit
<1>2. RemoteTyped'
  BY ProcessFacts DEF RemoteTyped, TypeOK, Commit
<1>3. CatalogTyped'
  BY DEF CatalogTyped
<1>4. ProcessesTyped'
  BY DEF ProcessesTyped, ProcessState
<1> QED
  BY <1>1, <1>2, <1>3, <1>4, TypePartsNext

(* The steps of a synchronization.                                          *)
LEMMA SyncType ==
  ASSUME TypeOK, NEW x \in Process,
         \/ Sync(x)
         \/ Acquire(x)
         \/ Retry(x)
         \/ Observe(x)
         \/ Import(x)
         \/ Prune(x)
         \/ NothingToPrune(x)
         \/ PruneResult(x)
  PROVE  TypeOK' /\ CommitsKept
<1>1. /\ known \in [Producer -> 0..Len(commits)]
      /\ fact \in [Producer -> BOOLEAN]
      /\ imported \in [Producer -> SUBSET (0..Len(results))]
      /\ proc \in [Process -> ProcessState]
      /\ proc[x] \in ProcessState
  BY ProcessFacts DEF TypeOK, ProcessState
<1>2. CASE Sync(x)
  <2>1. proc' \in [Process -> ProcessState]
    BY <1>2, ProcessSteps DEF Sync, ProcessStates, Extracting, Completing
  <2>2. FaultsTyped'
    BY <1>2, FaultStep DEF Sync
  <2> QED
    BY <1>1, <1>2, <2>1, <2>2, TypeWithoutPush DEF Sync, remoteVars, catalogVars
<1>3. CASE Acquire(x)
  <2>1. proc' \in [Process -> ProcessState]
    BY <1>3, ProcessSteps DEF Acquire, ProcessStates, Extracting, Completing
  <2>2. FaultsTyped'
    BY <1>3, FaultStep DEF Acquire
  <2> QED
    BY <1>1, <1>3, <2>1, <2>2, TypeWithoutPush DEF Acquire, remoteVars, catalogVars
<1>4. CASE Retry(x)
  <2>1. proc' \in [Process -> ProcessState]
    BY <1>4, ProcessSteps DEF Retry, ProcessStates, Extracting, Completing
  <2>2. FaultsTyped'
    BY <1>4, FaultStep DEF Retry
  <2> QED
    BY <1>1, <1>4, <2>1, <2>2, TypeWithoutPush DEF Retry, remoteVars, catalogVars
<1>5. CASE Observe(x)
  <2>1. proc' \in [Process -> ProcessState]
    BY <1>1, <1>5, ProcessFacts DEF Observe, ProcessState, ProcessStates,
           Extracting, Completing
  <2>2. FaultsTyped'
    BY <1>5, FaultStep DEF Observe
  <2>3. known' \in [Producer -> 0..Len(commits)]
    <3>1. (IF Accepted(Home[x], proc[x].oid) THEN proc[x].oid ELSE 0) \in 0..Len(commits)
      BY <1>1, ProcessFacts DEF ProcessState
    <3> QED
      BY <1>5, <3>1, CatalogStep DEF Observe
  <2> QED
    BY <1>1, <1>5, <2>1, <2>2, <2>3, TypeWithoutPush DEF Observe, remoteVars, catalogVars
<1>6. CASE Import(x)
  <2>1. proc' \in [Process -> ProcessState]
    BY <1>1, <1>6, ProcessFacts DEF Import, ProcessState, ProcessStates,
           Extracting, Completing
  <2>2. FaultsTyped'
    BY <1>6, FaultStep DEF Import
  <2>3. /\ fact' \in [Producer -> BOOLEAN]
        /\ imported' \in [Producer -> SUBSET (0..Len(results))]
    BY <1>1, <1>6, ProcessFacts DEF Import, ProcessState
  <2> QED
    BY <1>1, <1>6, <2>1, <2>2, <2>3, TypeWithoutPush DEF Import, remoteVars, catalogVars
<1>7. CASE Prune(x)
  <2>1. proc' \in [Process -> ProcessState]
    BY <1>7, ProcessSteps DEF Prune, ProcessStates, Extracting, Completing
  <2>2. FaultsTyped'
    BY <1>7, FaultStep DEF Prune
  <2> QED
    BY <1>1, <1>7, <2>1, <2>2, TypeWithoutPush DEF Prune, remoteVars, catalogVars
<1>8. CASE NothingToPrune(x)
  <2>1. proc' \in [Process -> ProcessState]
    BY <1>8, ProcessSteps DEF NothingToPrune, ProcessStates, Extracting, Completing
  <2>2. FaultsTyped'
    BY <1>8, FaultStep DEF NothingToPrune
  <2> QED
    BY <1>1, <1>8, <2>1, <2>2, TypeWithoutPush DEF NothingToPrune, remoteVars, catalogVars
<1>9. CASE PruneResult(x)
  <2>1. proc' \in [Process -> ProcessState]
    BY <1>9, ProcessSteps DEF PruneResult, ProcessStates, Extracting, Completing
  <2>2. FaultsTyped'
    BY <1>9, FaultStep DEF PruneResult
  <2>3. known' \in [Producer -> 0..Len(commits)]
    BY <1>1, <1>9, ProcessFacts, CatalogStep DEF PruneResult
  <2> QED
    BY <1>1, <1>9, <2>1, <2>2, <2>3, TypeWithoutPush DEF PruneResult, remoteVars, catalogVars
<1> QED
  BY <1>2, <1>3, <1>4, <1>5, <1>6, <1>7, <1>8, <1>9

(* The decision of acquire.                                                 *)
LEMMA AcquireType ==
  ASSUME TypeOK, NEW x \in Process,
         \/ AcquireFound(x)
         \/ AcquireOwn(x)
         \/ AcquireElsewhere(x)
         \/ AcquireFree(x)
         \/ Found(x)
         \/ ObserveOwn(x)
  PROVE  TypeOK' /\ CommitsKept
<1>1. /\ known \in [Producer -> 0..Len(commits)]
      /\ fact \in [Producer -> BOOLEAN]
      /\ imported \in [Producer -> SUBSET (0..Len(results))]
      /\ proc \in [Process -> ProcessState]
      /\ proc[x] \in ProcessState
  BY ProcessFacts DEF TypeOK, ProcessState
<1>2. CASE AcquireFound(x)
  <2>1. proc' \in [Process -> ProcessState]
    BY <1>2, ProcessSteps DEF AcquireFound, ProcessStates, Extracting, Completing
  <2>2. FaultsTyped'
    BY <1>2, FaultStep DEF AcquireFound
  <2> QED
    BY <1>1, <1>2, <2>1, <2>2, TypeWithoutPush DEF AcquireFound, remoteVars, catalogVars
<1>3. CASE AcquireOwn(x)
  <2>1. proc' \in [Process -> ProcessState]
    BY <1>3, ProcessSteps DEF AcquireOwn, ProcessStates, Extracting, Completing
  <2>2. FaultsTyped'
    BY <1>3, FaultStep DEF AcquireOwn
  <2> QED
    BY <1>1, <1>3, <2>1, <2>2, TypeWithoutPush DEF AcquireOwn, remoteVars, catalogVars
<1>4. CASE AcquireElsewhere(x)
  <2>1. proc' \in [Process -> ProcessState]
    BY <1>4, ProcessSteps DEF AcquireElsewhere, ProcessStates, Extracting, Completing
  <2>2. FaultsTyped'
    BY <1>4, FaultStep DEF AcquireElsewhere
  <2> QED
    BY <1>1, <1>4, <2>1, <2>2, TypeWithoutPush DEF AcquireElsewhere, remoteVars, catalogVars
<1>5. CASE AcquireFree(x)
  <2>1. proc' \in [Process -> ProcessState]
    BY <1>1, <1>5, ProcessFacts DEF AcquireFree, ProcessState, ProcessStates,
           Extracting, Completing
  <2>2. FaultsTyped'
    BY <1>5, FaultStep DEF AcquireFree
  <2> QED
    BY <1>1, <1>5, <2>1, <2>2, TypeWithoutPush DEF AcquireFree, remoteVars, catalogVars
<1>6. CASE Found(x)
  <2>1. proc' \in [Process -> ProcessState]
    BY <1>6, ProcessSteps DEF Found, ProcessStates, Extracting, Completing
  <2>2. FaultsTyped'
    BY <1>6, FaultStep DEF Found
  <2> QED
    BY <1>1, <1>6, <2>1, <2>2, TypeWithoutPush DEF Found, remoteVars, catalogVars
<1>7. CASE ObserveOwn(x)
  <2>1. proc' \in [Process -> ProcessState]
    <3>1. CASE At(x, "closed")
      BY <1>7, <3>1, ProcessSteps DEF ObserveOwn
    <3>2. CASE ~At(x, "closed")
      BY <1>1, <1>7, <3>2, ProcessFacts
         DEF ObserveOwn, ProcessState, ProcessStates, Extracting
    <3> QED
      BY <3>1, <3>2
  <2>2. FaultsTyped'
    BY <1>7, FaultStep DEF ObserveOwn
  <2>3. known' \in [Producer -> 0..Len(commits)]
    <3>1. proc[x].oid \in 0..Len(commits)
      BY <1>1 DEF ProcessState
    <3> QED
      BY <1>7, <3>1, CatalogStep DEF ObserveOwn
  <2> QED
    BY <1>1, <1>7, <2>1, <2>2, <2>3, TypeWithoutPush DEF ObserveOwn, remoteVars, catalogVars
<1> QED
  BY <1>2, <1>3, <1>4, <1>5, <1>6, <1>7

(* The extraction, what ends it, and faults.                                *)
LEMMA WorkType ==
  ASSUME TypeOK, NEW x \in Process,
         \/ Heartbeat(x)
         \/ Finish(x)
         \/ ExtractionFails(x)
         \/ LeaseLost(x)
         \/ StoreResult(x)
         \/ Crash(x)
  PROVE  TypeOK' /\ CommitsKept
<1>1. /\ known \in [Producer -> 0..Len(commits)]
      /\ fact \in [Producer -> BOOLEAN]
      /\ imported \in [Producer -> SUBSET (0..Len(results))]
      /\ proc \in [Process -> ProcessState]
      /\ proc[x] \in ProcessState
  BY ProcessFacts DEF TypeOK, ProcessState
<1>2. CASE Heartbeat(x)
  <2>1. proc' \in [Process -> ProcessState]
    BY <1>1, <1>2, ProcessFacts DEF Heartbeat, ProcessState, ProcessStates,
           Extracting, Completing
  <2>2. FaultsTyped'
    BY <1>2, RefreshStep DEF Heartbeat
  <2>3. known' \in [Producer -> 0..Len(commits)]
    BY <1>2, RefreshStep DEF Heartbeat
  <2> QED
    BY <1>1, <1>2, <2>1, <2>2, <2>3, TypeWithoutPush DEF Heartbeat, remoteVars, catalogVars
<1>3. CASE Finish(x)
  <2>1. proc' \in [Process -> ProcessState]
    BY <1>3, ProcessSteps DEF Finish, ProcessStates, Extracting, Completing
  <2>2. FaultsTyped'
    BY <1>3, RefreshStep DEF Finish
  <2>3. known' \in [Producer -> 0..Len(commits)]
    BY <1>3, RefreshStep DEF Finish
  <2> QED
    BY <1>1, <1>3, <2>1, <2>2, <2>3, TypeWithoutPush DEF Finish, remoteVars, catalogVars
<1>4. CASE ExtractionFails(x)
  <2>1. proc' \in [Process -> ProcessState]
    BY <1>4, ProcessSteps DEF ExtractionFails, ProcessStates, Extracting, Completing
  <2>2. FaultsTyped'
    BY <1>4, FaultStep DEF ExtractionFails
  <2> QED
    BY <1>1, <1>4, <2>1, <2>2, TypeWithoutPush DEF ExtractionFails, remoteVars, catalogVars
<1>5. CASE LeaseLost(x)
  <2>1. proc' \in [Process -> ProcessState]
    BY <1>5, ProcessSteps DEF LeaseLost, ProcessStates, Extracting, Completing
  <2>2. FaultsTyped'
    BY <1>5, FaultStep DEF LeaseLost
  <2> QED
    BY <1>1, <1>5, <2>1, <2>2, TypeWithoutPush DEF LeaseLost, remoteVars, catalogVars
<1>6. CASE StoreResult(x)
  <2>1. proc' \in [Process -> ProcessState]
    BY <1>1, <1>6, ProcessFacts DEF StoreResult, ProcessState, ProcessStates,
           Extracting, Completing
  <2>2. FaultsTyped'
    BY <1>6, FaultStep DEF StoreResult
  <2>3. /\ fact' \in [Producer -> BOOLEAN]
        /\ imported' \in [Producer -> SUBSET (0..Len(results))]
    BY <1>1, <1>6, ProcessFacts DEF StoreResult, ProcessState
  <2> QED
    BY <1>1, <1>6, <2>1, <2>2, <2>3, TypeWithoutPush DEF StoreResult, remoteVars, catalogVars
<1>7. CASE Crash(x)
  <2>1. proc' \in [Process -> ProcessState]
    <3>1. [Idle EXCEPT !.pc = "lost"] \in ProcessState
      BY ProcessFacts DEF ProcessState, ProcessStates
    <3> QED
      BY <1>7, <3>1, ProcessSteps DEF Crash
  <2>2. FaultsTyped'
    BY <1>7, FaultStep DEF Crash
  <2> QED
    BY <1>1, <1>7, <2>1, <2>2, TypeWithoutPush DEF Crash, remoteVars, catalogVars
<1> QED
  BY <1>2, <1>3, <1>4, <1>5, <1>6, <1>7

(* The steps that push a claim.                                             *)
LEMMA TypeWithPush ==
  ASSUME TypeOK, NEW x \in Process, NEW state \in {"processing", "completed"},
         NEW left \in Int, PushClaim(x, state, left),
         UNCHANGED catalogVars, FaultsTyped',
         \E pc \in ProcessStates :
           \/ proc' = [proc EXCEPT ![x].pc = pc, ![x].oid = claimRef']
           \/ Goto(x, pc) \/ Return(x)
  PROVE  TypeOK' /\ CommitsKept
<1>1. /\ commits' \in Seq(Commit)
      /\ Len(commits') = Len(commits) + 1
      /\ claimRef' = Len(commits')
      /\ \A i \in 1..Len(commits) : commits'[i] = commits[i]
      /\ UNCHANGED <<results, resultRef>>
  BY PushEffect
<1>2. Len(commits) \in Nat /\ 0..Len(commits) \subseteq 0..Len(commits')
  BY <1>1, ProcessFacts
<1>3. CommitsKept
  BY <1>1, <1>2 DEF CommitsKept
<1>4. RemoteTyped'
  BY <1>1, <1>2 DEF TypeOK, RemoteTyped
<1>5. CatalogTyped'
  BY <1>1, <1>2 DEF TypeOK, CatalogTyped, catalogVars
<1>6. ProcessesTyped'
  <2> DEFINE Next2 == [pc : ProcessStates, why : {"sync", "acquire", "retry"},
                       oid : 0..Len(commits'), result : 0..Len(results),
                       waited : 0..Lease + Grace + 1]
  <2>1. proc \in [Process -> Next2] /\ claimRef' \in 0..Len(commits')
    <3>1. claimRef' \in 0..Len(commits')
      BY <1>1, <1>2
    <3>2. proc \in [Process -> ProcessState]
      BY DEF TypeOK, ProcessState
    <3>3. \A v \in ProcessState : v \in Next2
      BY <1>2 DEF ProcessState
    <3> QED
      BY <3>1, <3>2, <3>3
  <2>2. proc' \in [Process -> Next2]
    <3>1. PICK pc \in ProcessStates :
            \/ proc' = [proc EXCEPT ![x].pc = pc, ![x].oid = claimRef']
            \/ Goto(x, pc) \/ Return(x)
      OBVIOUS
    <3>2. CASE proc' = [proc EXCEPT ![x].pc = pc, ![x].oid = claimRef']
      BY <2>1, <3>2
    <3>3. CASE Goto(x, pc)
      BY <2>1, <3>3 DEF Goto
    <3>4. CASE Return(x)
      <4>1. Idle \in Next2
        BY <1>2, ProcessFacts DEF ProcessState
      <4> HIDE DEF Next2
      <4> QED
        BY <2>1, <3>4, <4>1 DEF Return
    <3> QED
      BY <3>1, <3>2, <3>3, <3>4
  <2> QED
    BY <1>1, <2>2 DEF ProcessesTyped, ProcessState
<1> QED
  BY <1>3, <1>4, <1>5, <1>6, TypePartsNext

LEMMA PushType ==
  ASSUME TypeOK, NEW x \in Process, Claim(x) \/ Renew(x) \/ Close(x)
  PROVE  TypeOK' /\ CommitsKept
<1>1. /\ known \in [Producer -> 0..Len(commits)]
      /\ fact \in [Producer -> BOOLEAN]
      /\ imported \in [Producer -> SUBSET (0..Len(results))]
  BY DEF TypeOK
<1>2. LeaseLeft(x) \in Int /\ Retention \in Int
  BY ProcessFacts, GitAssumption DEF LeaseLeft, ProcessState
<1>3. {"claimed", "retrying", "working", "beaten", "closed"} \subseteq ProcessStates
  BY DEF ProcessStates, Extracting
<1>4. ASSUME NEW expected, PushFails(expected),
             (\E pc \in ProcessStates : Goto(x, pc)) \/ Return(x),
             UNCHANGED catalogVars
      PROVE  TypeOK' /\ CommitsKept
  <2>1. proc' \in [Process -> ProcessState]
    BY <1>4, ProcessSteps
  <2>2. FaultsTyped'
    BY <1>4, FaultStep DEF PushFails
  <2> QED
    BY <1>1, <1>4, <2>1, <2>2, TypeWithoutPush DEF PushFails, remoteVars, catalogVars
<1>5. ASSUME NEW expected, NEW state \in {"processing", "completed"},
             NEW left \in Int, PushUnheard(x, expected, state, left),
             (\E pc \in ProcessStates : Goto(x, pc)) \/ Return(x),
             UNCHANGED catalogVars
      PROVE  TypeOK' /\ CommitsKept
  <2>1. FaultsTyped' /\ PushClaim(x, state, left)
    BY <1>5, FaultStep DEF PushUnheard
  <2>2. "working" \in ProcessStates
    BY <1>3
  <2> QED
    BY <1>5, <2>1, <2>2, TypeWithPush
<1>6. ASSUME NEW state \in {"processing", "completed"}, NEW left \in Int,
             NEW pc \in ProcessStates, PushClaim(x, state, left), NoFault,
             proc' = [proc EXCEPT ![x].pc = pc, ![x].oid = claimRef'],
             UNCHANGED catalogVars
      PROVE  TypeOK' /\ CommitsKept
  BY <1>6, FaultStep, TypeWithPush
<1>7. CASE Claim(x)
  BY <1>2, <1>3, <1>4, <1>5, <1>6, <1>7 DEF Claim
<1>8. CASE Renew(x)
  <2>1. CASE ~Mine(x, Known(x)) /\ UNCHANGED <<remoteVars, faults>> /\ Goto(x, "working")
    <3>1. proc' \in [Process -> ProcessState]
      BY <1>3, <2>1, ProcessSteps
    <3>2. FaultsTyped'
      BY <2>1, FaultStep
    <3> QED
      BY <1>1, <1>8, <2>1, <3>1, <3>2, TypeWithoutPush
         DEF Renew, remoteVars, catalogVars
  <2> QED
    BY <1>2, <1>3, <1>4, <1>5, <1>6, <1>8, <2>1 DEF Renew
<1>9. CASE Close(x)
  BY <1>2, <1>3, <1>4, <1>5, <1>6, <1>9 DEF Close
<1> QED
  BY <1>7, <1>8, <1>9

(* The push of a result.                                                    *)
LEMMA ResultType ==
  ASSUME TypeOK, NEW x \in Process, PublishResult(x)
  PROVE  TypeOK' /\ CommitsKept
<1>1. /\ known \in [Producer -> 0..Len(commits)]
      /\ fact \in [Producer -> BOOLEAN]
      /\ imported \in [Producer -> SUBSET (0..Len(results))]
      /\ proc \in [Process -> ProcessState]
      /\ results \in Seq(Producer)
  BY DEF TypeOK, ProcessState
<1>2. CASE Return(x) /\ UNCHANGED remoteVars
  <2>1. FaultsTyped'
    BY <1>2, FaultStep DEF PublishResult
  <2> QED
    BY <1>1, <1>2, <2>1, ProcessSteps, TypeWithoutPush
       DEF PublishResult, remoteVars, catalogVars
<1>3. CASE PushResult(x)
  <2>1. /\ results' \in Seq(Producer)
        /\ Len(results') = Len(results) + 1
        /\ resultRef' = Len(results')
        /\ 0..Len(results) \subseteq 0..Len(results')
        /\ UNCHANGED <<commits, claimRef>>
    BY <1>1, <1>3, ProcessFacts DEF PushResult
  <2>2. RemoteTyped' /\ CommitsKept
    BY <2>1, ProcessFacts DEF RemoteTyped, CommitsKept, TypeOK, Commit
  <2>3. CatalogTyped'
    BY <1>1, <2>1 DEF CatalogTyped, PublishResult, catalogVars
  <2>4. FaultsTyped'
    BY FaultStep DEF PublishResult
  <2>5. ProcessesTyped'
    <3> DEFINE Next2 == [pc : ProcessStates, why : {"sync", "acquire", "retry"},
                         oid : 0..Len(commits), result : 0..Len(results'),
                         waited : 0..Lease + Grace + 1]
    <3>1. proc \in [Process -> Next2] /\ Idle \in Next2
      <4>1. \A v \in ProcessState : v \in Next2
        BY <2>1 DEF ProcessState
      <4> HIDE DEF Next2
      <4> QED
        BY <1>1, <4>1, ProcessFacts
    <3>2. Known(x) \in 0..Len(commits) /\ resultRef' \in 0..Len(results')
      BY <2>1, ProcessFacts
    <3>3. "publishing" \in ProcessStates
      BY DEF ProcessStates, Completing
    <3>4. proc' \in [Process -> Next2]
      <4>1. CASE proc' = [proc EXCEPT ![x].pc = "publishing", ![x].oid = Known(x),
                                      ![x].result = resultRef']
        BY <3>1, <3>2, <3>3, <4>1
      <4>2. CASE Return(x)
        <5> HIDE DEF Next2
        <5> QED
          BY <3>1, <4>2 DEF Return
      <4> QED
        BY <4>1, <4>2 DEF PublishResult
    <3> QED
      BY <2>1, <3>4 DEF ProcessesTyped, ProcessState
  <2> QED
    BY <2>2, <2>3, <2>4, <2>5, TypePartsNext
<1> QED
  BY <1>2, <1>3 DEF PublishResult

(* Evictions and time.                                                      *)
LEMMA EvictType ==
  ASSUME TypeOK, NEW p \in Producer, Evict(p)
  PROVE  TypeOK' /\ CommitsKept
BY GitAssumption DEF TypeOK, CommitsKept, Commit, Evict, remoteVars

LEMMA TickType ==
  ASSUME TypeOK, Tick
  PROVE  TypeOK' /\ CommitsKept
<1>1. CommitsKept /\ Len(commits') = Len(commits)
  BY TickEffect DEF CommitsKept, TypeOK
<1>2. proc' \in [Process -> ProcessState]
  <2>1. proc \in [Process -> ProcessState]
    BY DEF TypeOK, ProcessState
  <2>2. ASSUME NEW x \in Process
        PROVE  (IF Counting(x) /\ proc[x].waited <= Lease + Grace
                  THEN [proc[x] EXCEPT !.waited = @ + 1] ELSE proc[x])
               \in ProcessState
    <3>1. proc[x] \in ProcessState
      BY <2>1
    <3>2. CASE proc[x].waited <= Lease + Grace
      <4>1. proc[x].waited + 1 \in 0..Lease + Grace + 1
        BY <3>1, <3>2, GitAssumption DEF ProcessState
      <4>2. [proc[x] EXCEPT !.waited = @ + 1] \in ProcessState
        BY <3>1, <4>1 DEF ProcessState
      <4> QED
        BY <3>1, <4>2
    <3> QED
      BY <3>1, <3>2
  <2> QED
    BY <2>2 DEF Tick
<1>3. /\ RemoteTyped' /\ CatalogTyped' /\ FaultsTyped'
  BY <1>1 DEF CommitsKept, TypeOK, RemoteTyped, CatalogTyped, FaultsTyped, Tick,
              catalogVars
<1>4. ProcessesTyped'
  BY <1>1, <1>2 DEF ProcessesTyped, ProcessState, Tick
<1> QED
  BY <1>1, <1>3, <1>4, TypePartsNext

(* Every step keeps the types and the commits.                              *)
LEMMA TypeStep ==
  TypeOK /\ [Next]_vars => TypeOK' /\ CommitsKept
<1> SUFFICES ASSUME TypeOK, [Next]_vars PROVE TypeOK' /\ CommitsKept
  OBVIOUS
<1>1. ASSUME NEW x \in Process, Sync(x) \/ Acquire(x) \/ Step(x)
      PROVE  TypeOK' /\ CommitsKept
  BY <1>1, SyncType, AcquireType, WorkType, PushType, ResultType DEF Step
<1>2. ASSUME NEW x \in Process,
             Heartbeat(x) \/ Finish(x) \/ ExtractionFails(x) \/ Crash(x)
      PROVE  TypeOK' /\ CommitsKept
  BY <1>2, WorkType
<1>3. ASSUME NEW p \in Producer, Evict(p)
      PROVE  TypeOK' /\ CommitsKept
  BY <1>3, EvictType
<1>4. CASE Tick
  BY <1>4, TickType
<1>5. CASE UNCHANGED vars
  BY <1>5 DEF vars, TypeOK, CommitsKept, Commit
<1> QED
  BY <1>1, <1>2, <1>3, <1>4, <1>5 DEF Next

(* Every reachable state is well typed (git_coordination.cpp, the refs and  *)
(* the catalog tables they are copied to).                                  *)
THEOREM ClaimsTypeCorrect == Spec => []TypeOK
<1>1. Init => TypeOK
  BY GitAssumption DEF Init, TypeOK, Idle, ProcessStates
<1>2. TypeOK /\ [Next]_vars => TypeOK'
  BY TypeStep
<1> QED
  BY <1>1, <1>2, PTL DEF Spec

-----------------------------------------------------------------------------
(* A claim changes hands only after its expiry.                             *)

(* What a process knows of the claim it is about to replace: that its time  *)
(* is over, or that it is its own.                                          *)
Founded(x) ==
  /\ At(x, "claiming") /\ proc[x].oid # 0 => commits[proc[x].oid].left < -Grace
  /\ proc[x].pc \in {"publishing", "stored"} => Mine(x, proc[x].oid)
AllFounded == \A x \in Process : Founded(x)

(* How a step may lead to such a knowledge.                                 *)
KeepsFounded(x) ==
  \/ proc'[x].pc \notin {"claiming", "publishing", "stored"}
  \/ proc'[x].oid = proc[x].oid /\ proc'[x].pc = proc[x].pc
  \/ proc'[x].oid = proc[x].oid /\ At(x, "publishing") /\ proc'[x].pc = "stored"
  \/ /\ proc'[x].pc = "claiming"
     /\ proc'[x].oid # 0 => commits[proc'[x].oid].left < -Grace
     /\ proc'[x].oid \in 0..Len(commits)
  \/ /\ proc'[x].pc = "publishing"
     /\ Mine(x, proc'[x].oid)
     /\ proc'[x].oid \in 0..Len(commits)

LEMMA FoundedKept ==
  ASSUME TypeOK, AllFounded, CommitsKept, NEW x \in Process, KeepsFounded(x)
  PROVE  Founded(x)'
<1>1. proc[x].oid \in 0..Len(commits) /\ Founded(x)
  BY ProcessFacts DEF ProcessState, AllFounded
<1>2. \A i \in 0..Len(commits) : i # 0 =>
        /\ commits'[i].by = commits[i].by
        /\ commits[i].left < -Grace => commits'[i].left < -Grace
  BY ProcessFacts DEF CommitsKept
<1> QED
  BY <1>1, <1>2 DEF Founded, KeepsFounded, At, Mine

(* A process that does not take the step keeps what it knows.               *)
LEMMA OthersKept ==
  ASSUME TypeOK, NEW x \in Process, NEW y \in Process, y # x,
         \/ Sync(x) \/ Acquire(x) \/ Step(x)
         \/ Heartbeat(x) \/ Finish(x) \/ ExtractionFails(x) \/ Crash(x)
  PROVE  proc'[y] = proc[y]
<1>1. proc \in [Process -> ProcessState]
  BY DEF TypeOK, ProcessState
<1> QED
  BY <1>1 DEF Goto, Return, AfterSync, Snapshot, Sync, Acquire, Step, Heartbeat,
     Finish, ExtractionFails, Crash, Retry, Observe, Import, Prune,
     NothingToPrune, PruneResult, AcquireFound, AcquireOwn, AcquireElsewhere,
     AcquireFree, Claim, Found, ObserveOwn, Renew, LeaseLost, PublishResult,
     StoreResult, Close

(* The process that takes the step: it learns of an expiry in AcquireFree,  *)
(* and that a claim is its own in PublishResult.                            *)
LEMMA ActorFounded ==
  ASSUME TypeOK, NEW x \in Process,
         \/ Sync(x) \/ Acquire(x) \/ Step(x)
         \/ Heartbeat(x) \/ Finish(x) \/ ExtractionFails(x) \/ Crash(x)
  PROVE  KeepsFounded(x)
<1>1. proc \in [Process -> ProcessState] /\ Known(x) \in 0..Len(commits)
  BY ProcessFacts DEF TypeOK, ProcessState
<1>2. CASE AcquireFree(x)
  <2>1. proc'[x].pc = "claiming" /\ proc'[x].oid = Known(x)
    BY <1>1, <1>2 DEF AcquireFree, ProcessState
  <2>2. ASSUME Known(x) # 0 PROVE commits[Known(x)].left < -Grace
    <3>1. commits \in Seq(Commit) /\ Known(x) \in 1..Len(commits)
      BY <1>1, <2>2, ProcessFacts DEF TypeOK, Commit
    <3>2. commits[Known(x)].left \in Int
      <4>1. commits[Known(x)] \in Commit
        BY <3>1
      <4> QED
        BY <4>1 DEF Commit
    <3> QED
      BY <1>2, <2>2, <3>2, GitAssumption DEF AcquireFree, InForce
  <2> QED
    BY <1>1, <2>1, <2>2 DEF KeepsFounded
<1>3. CASE PublishResult(x)
  BY <1>1, <1>3 DEF PublishResult, KeepsFounded, Return, Idle, ProcessState
<1>4. CASE StoreResult(x)
  BY <1>1, <1>4 DEF StoreResult, KeepsFounded, At, ProcessState
<1>5. CASE Claim(x) \/ Renew(x) \/ Close(x) \/ ObserveOwn(x)
  BY <1>1, <1>5 DEF Claim, Renew, Close, ObserveOwn, KeepsFounded, Goto, Return,
     Idle, ProcessState
<1>6. CASE \/ Sync(x) \/ Acquire(x) \/ Retry(x) \/ Observe(x) \/ Import(x)
           \/ Prune(x) \/ NothingToPrune(x) \/ PruneResult(x)
  BY <1>1, <1>6 DEF Sync, Acquire, Retry, Observe, Import, Prune, NothingToPrune,
     PruneResult, AfterSync, Snapshot, KeepsFounded, Goto, Return, Idle,
     ProcessState
<1>7. CASE \/ AcquireFound(x) \/ AcquireOwn(x) \/ AcquireElsewhere(x) \/ Found(x)
           \/ LeaseLost(x) \/ Heartbeat(x) \/ Finish(x)
           \/ ExtractionFails(x) \/ Crash(x)
  BY <1>1, <1>7 DEF AcquireFound, AcquireOwn, AcquireElsewhere, Found, LeaseLost,
     Heartbeat, Finish, ExtractionFails, Crash, KeepsFounded, Goto, Return, Idle,
     ProcessState
<1> QED
  BY <1>2, <1>3, <1>4, <1>5, <1>6, <1>7 DEF Step

LEMMA FoundedStep ==
  TypeOK /\ AllFounded /\ [Next]_vars => AllFounded'
<1> SUFFICES ASSUME TypeOK, AllFounded, [Next]_vars, NEW y \in Process
             PROVE  Founded(y)'
  BY DEF AllFounded
<1>1. CommitsKept
  BY TypeStep
<1>2. KeepsFounded(y)
  <2>1. ASSUME NEW x \in Process,
               \/ Sync(x) \/ Acquire(x) \/ Step(x)
               \/ Heartbeat(x) \/ Finish(x) \/ ExtractionFails(x) \/ Crash(x)
        PROVE  KeepsFounded(y)
    <3>1. CASE x = y
      BY <2>1, <3>1, ActorFounded
    <3>2. CASE x # y
      BY <2>1, <3>2, OthersKept DEF KeepsFounded
    <3> QED
      BY <3>1, <3>2
  <2>2. CASE Tick
    <3>1. proc[y] \in ProcessState
      BY ProcessFacts
    <3>2. proc'[y].pc = proc[y].pc /\ proc'[y].oid = proc[y].oid
      BY <2>2, <3>1 DEF Tick, ProcessState
    <3> QED
      BY <3>2 DEF KeepsFounded
  <2>3. ASSUME NEW p \in Producer, Evict(p)
        PROVE  KeepsFounded(y)
    BY <2>3 DEF Evict, KeepsFounded
  <2>4. CASE UNCHANGED vars
    BY <2>4 DEF vars, KeepsFounded
  <2> QED
    BY <2>1, <2>2, <2>3, <2>4 DEF Next
<1> QED
  BY <1>1, <1>2, FoundedKept

(* What ClaimsChangeHandsWhenExpired says of one step.                      *)
OrderlyStep ==
  claimRef # 0 /\ claimRef' # claimRef /\ ~Completed(claimRef) =>
    /\ claimRef' # 0
    /\ \/ commits'[claimRef'].by = commits[claimRef].by
       \/ commits[claimRef].left < -Grace

LEMMA TakeoverStep ==
  TypeOK /\ AllFounded /\ [Next]_vars => OrderlyStep
<1> SUFFICES ASSUME TypeOK, AllFounded, [Next]_vars PROVE OrderlyStep
  OBVIOUS
<1>1. CASE UNCHANGED claimRef
  BY <1>1 DEF OrderlyStep
<1>2. ASSUME NEW x \in Process, Claim(x), claimRef' # claimRef
      PROVE  OrderlyStep
  <2>1. PushClaim(x, "processing", LeaseLeft(x)) /\ claimRef = proc[x].oid
    BY <1>2 DEF Claim, PushUnheard, PushFails, CanPush, remoteVars
  <2>2. claimRef' # 0
    BY <2>1, ProcessFacts DEF PushClaim
  <2> QED
    BY <1>2, <2>1, <2>2 DEF OrderlyStep, AllFounded, Founded, Claim
<1>3. ASSUME NEW x \in Process, NEW state \in {"processing", "completed"},
             NEW left \in Int, PushClaim(x, state, left), Mine(x, claimRef)
      PROVE  OrderlyStep
  <2>1. commits'[claimRef'].by = Home[x] /\ claimRef' # 0
    BY <1>3, PushEffect, ProcessFacts
  <2> QED
    BY <1>3, <2>1 DEF OrderlyStep, Mine
<1>4. ASSUME NEW x \in Process, Renew(x), claimRef' # claimRef
      PROVE  OrderlyStep
  <2>1. PushClaim(x, "processing", LeaseLeft(x)) /\ Mine(x, claimRef)
    BY <1>4 DEF Renew, PushUnheard, PushFails, CanPush, remoteVars
  <2>2. LeaseLeft(x) \in Int
    BY ProcessFacts, GitAssumption DEF LeaseLeft, ProcessState
  <2> QED
    BY <1>3, <2>1, <2>2
<1>5. ASSUME NEW x \in Process, Close(x), claimRef' # claimRef
      PROVE  OrderlyStep
  <2>1. PushClaim(x, "completed", Retention) /\ claimRef = proc[x].oid
    BY <1>5 DEF Close, PushUnheard, PushFails, CanPush, remoteVars
  <2>2. Mine(x, claimRef)
    BY <1>5, <2>1 DEF AllFounded, Founded, Close, At
  <2> QED
    BY <1>3, <2>1, <2>2, GitAssumption
<1>6. ASSUME NEW x \in Process, Prune(x), claimRef' # claimRef
      PROVE  OrderlyStep
  BY <1>6 DEF Prune, CanPush, Prunable, OrderlyStep
<1>7. ASSUME NEW x \in Process,
             \/ Sync(x) \/ Acquire(x) \/ Step(x)
             \/ Heartbeat(x) \/ Finish(x) \/ ExtractionFails(x) \/ Crash(x)
      PROVE  OrderlyStep
  <2>1. CASE Claim(x) \/ Renew(x) \/ Close(x) \/ Prune(x)
    BY <1>1, <1>2, <1>4, <1>5, <1>6, <2>1
  <2>2. CASE ~(Claim(x) \/ Renew(x) \/ Close(x) \/ Prune(x))
    BY <1>1, <1>7, <2>2 DEF Sync, Acquire, Step, Heartbeat, Finish,
       ExtractionFails, Crash, Retry, Observe, Import, NothingToPrune,
       PruneResult, AcquireFound, AcquireOwn, AcquireElsewhere, AcquireFree,
       Found, ObserveOwn, LeaseLost, PublishResult, PushResult, StoreResult,
       remoteVars
  <2> QED
    BY <2>1, <2>2
<1>8. CASE Tick \/ UNCHANGED vars \/ \E p \in Producer : Evict(p)
  BY <1>1, <1>8 DEF Tick, vars, Evict, remoteVars
<1> QED
  BY <1>7, <1>8 DEF Next

(* A claim in force is not taken away by another producer, whatever faults  *)
(* happen and however stale the copies are (git_coordination.cpp acquire,   *)
(* publish, sync).                                                          *)
THEOREM OrderlyTakeover == Spec => ClaimsChangeHandsWhenExpired
<1>1. Init => AllFounded
  BY DEF Init, AllFounded, Founded, At, Idle
<1>2. TypeOK /\ AllFounded /\ [Next]_vars => AllFounded'
  BY FoundedStep
<1>3. TypeOK /\ AllFounded /\ [Next]_vars => [OrderlyStep]_vars
  BY TakeoverStep
<1>4. Spec => []TypeOK
  BY ClaimsTypeCorrect
<1>5. Spec => [][OrderlyStep]_vars
  BY <1>1, <1>2, <1>3, <1>4, PTL DEF Spec
<1> QED
  BY <1>5 DEF ClaimsChangeHandsWhenExpired, OrderlyStep

-----------------------------------------------------------------------------
(* A completed claim has its result.  The result ref is deleted without a   *)
(* comparison, so the argument is about who may be deleting: a process      *)
(* begins to only when it removed a completed claim, and until it is done   *)
(* the old result keeps every other result from being pushed.               *)

NobodyPrunes == \A z \in Process : ~At(z, "pruning")
Backed ==
  /\ Completed(claimRef) => resultRef # 0 /\ NobodyPrunes
  /\ \A x \in Process :
       proc[x].pc \in {"publishing", "stored"} /\ proc[x].oid = claimRef =>
         resultRef # 0 /\ NobodyPrunes
  /\ \A x \in Process : At(x, "pruning") => resultRef # 0
  /\ \A x, y \in Process : At(x, "pruning") /\ At(y, "pruning") => x = y

(* A step of a process that is about neither a result nor a removal.        *)
Quiet(x) ==
  \/ proc'[x].pc \notin {"pruning", "publishing", "stored"}
  \/ proc'[x].oid = proc[x].oid /\ proc'[x].pc = proc[x].pc
  \/ proc'[x].oid = proc[x].oid /\ At(x, "publishing") /\ proc'[x].pc = "stored"

LEMMA BackedQuiet ==
  ASSUME TypeOK, CommitsKept, Backed, UNCHANGED <<claimRef, resultRef>>,
         \A x \in Process : Quiet(x)
  PROVE  Backed'
<1>1. Completed(claimRef)' <=> Completed(claimRef)
  BY ProcessFacts DEF Completed, CommitsKept, TypeOK
<1>2. NobodyPrunes => NobodyPrunes'
  BY DEF NobodyPrunes, Quiet, At
<1>3. \A x \in Process :
        At(x, "pruning")' => At(x, "pruning")
  BY DEF Quiet, At
<1>4. \A x \in Process :
        (proc[x].pc \in {"publishing", "stored"} /\ proc[x].oid = claimRef)' =>
          proc[x].pc \in {"publishing", "stored"} /\ proc[x].oid = claimRef
  BY DEF Quiet, At
<1> QED
  BY <1>1, <1>2, <1>3, <1>4 DEF Backed

(* A push of a claim: nobody names the new commit yet, and it is completed  *)
(* only by the process whose result is there.                               *)
LEMMA BackedPush ==
  ASSUME TypeOK, Backed, NEW x \in Process,
         NEW state \in {"processing", "completed"}, NEW left \in Int,
         PushClaim(x, state, left),
         state = "completed" => resultRef # 0 /\ NobodyPrunes,
         \A y \in Process : Quiet(y)
  PROVE  Backed'
<1>1. /\ claimRef' = Len(commits) + 1
      /\ UNCHANGED resultRef
      /\ commits'[claimRef'].state = state
  BY PushEffect DEF PushClaim
<1>2. NobodyPrunes => NobodyPrunes'
  BY DEF NobodyPrunes, Quiet, At
<1>3. \A y \in Process : At(y, "pruning")' => At(y, "pruning")
  BY DEF Quiet, At
<1>4. \A y \in Process :
        (proc[y].pc \in {"publishing", "stored"})' => proc'[y].oid # claimRef'
  <2>1. ASSUME NEW y \in Process, proc'[y].pc \in {"publishing", "stored"}
        PROVE  proc'[y].oid # claimRef'
    <3>1. proc'[y].oid = proc[y].oid
      BY <2>1 DEF Quiet
    <3>2. proc[y].oid \in 0..Len(commits) /\ Len(commits) \in Nat
      BY ProcessFacts DEF ProcessState
    <3> QED
      BY <1>1, <3>1, <3>2
  <2> QED
    BY <2>1
<1> QED
  BY <1>1, <1>2, <1>3, <1>4 DEF Backed, Completed

(* The steps of one process.                                                *)
LEMMA BackedActor ==
  ASSUME TypeOK, AllFounded, CommitsKept, Backed, NEW x \in Process,
         \/ Sync(x) \/ Acquire(x) \/ Step(x)
         \/ Heartbeat(x) \/ Finish(x) \/ ExtractionFails(x) \/ Crash(x)
  PROVE  Backed'
<1>1. proc \in [Process -> ProcessState]
  BY DEF TypeOK, ProcessState
<1>2. \A y \in Process : y # x => proc'[y] = proc[y]
  BY OthersKept
<1>3. Quiet(x) => \A y \in Process : Quiet(y)
  BY <1>2 DEF Quiet
<1>4. LeaseLeft(x) \in Int /\ Retention \in Int
  BY ProcessFacts, GitAssumption DEF LeaseLeft, ProcessState
<1>5. CASE Prune(x)
  <2>1. CASE UNCHANGED claimRef /\ proc'[x].pc # "pruning"
    <3>1. Quiet(x)
      BY <1>1, <1>5, <2>1 DEF Prune, AfterSync, Goto, Return, Idle, Quiet,
         ProcessState
    <3> QED
      BY <1>3, <1>5, <2>1, <3>1, BackedQuiet DEF Prune
  <2>2. CASE CanPush(Known(x)) /\ claimRef' = 0
    <3>1. Completed(claimRef)
      BY <1>5, <2>2 DEF Prune, CanPush, Prunable
    <3>2. resultRef' # 0 /\ NobodyPrunes
      BY <1>5, <3>1 DEF Backed, Prune
    <3>3. \A y \in Process : At(y, "pruning")' => y = x
      BY <1>2, <3>2 DEF NobodyPrunes, At
    <3>4. \A y \in Process :
            (proc[y].pc \in {"publishing", "stored"})' => proc'[y].oid # 0
      <4>1. AllFounded'
        BY FoundedStep DEF Next
      <4> QED
        BY <4>1 DEF AllFounded, Founded, Mine
    <3> QED
      BY <2>2, <3>2, <3>3, <3>4 DEF Backed, Completed
  <2> QED
    BY <1>1, <1>5, <2>1, <2>2 DEF Prune, AfterSync, Goto, Return, Idle, ProcessState
<1>6. CASE PruneResult(x)
  <2>1. At(x, "pruning") /\ UNCHANGED <<claimRef, commits>>
    BY <1>6 DEF PruneResult
  <2>2. Quiet(x) /\ proc'[x].pc # "pruning"
    BY <1>1, <1>6 DEF PruneResult, AfterSync, Goto, Return, Idle, Quiet, ProcessState
  <2>3. ~Completed(claimRef) /\ \A y \in Process :
          ~(proc[y].pc \in {"publishing", "stored"} /\ proc[y].oid = claimRef)
    BY <2>1 DEF Backed, NobodyPrunes
  <2>4. NobodyPrunes'
    BY <1>2, <2>1, <2>2 DEF Backed, NobodyPrunes, At
  <2>5. \A y \in Process :
          ~(proc[y].pc \in {"publishing", "stored"} /\ proc[y].oid = claimRef)'
    BY <1>2, <1>3, <2>1, <2>2, <2>3 DEF Quiet, At
  <2>6. ~Completed(claimRef)'
    BY <2>1, <2>3 DEF Completed
  <2> QED
    BY <2>4, <2>5, <2>6 DEF Backed, NobodyPrunes
<1>7. CASE Claim(x) \/ Renew(x)
  <2>1. Quiet(x)
    BY <1>1, <1>7 DEF Claim, Renew, Quiet, Goto, ProcessState
  <2>2. PushClaim(x, "processing", LeaseLeft(x)) \/ UNCHANGED <<claimRef, resultRef>>
    BY <1>7 DEF Claim, Renew, PushUnheard, PushFails, remoteVars
  <2> QED
    BY <1>3, <1>4, <2>1, <2>2, BackedPush, BackedQuiet
<1>8. CASE Close(x)
  <2>1. Quiet(x)
    BY <1>1, <1>8 DEF Close, Quiet, Return, Idle, ProcessState
  <2>2. \/ PushClaim(x, "completed", Retention) /\ claimRef = proc[x].oid
        \/ UNCHANGED <<claimRef, resultRef>>
    BY <1>8 DEF Close, CanPush, PushUnheard, PushFails, remoteVars
  <2>3. claimRef = proc[x].oid => resultRef # 0 /\ NobodyPrunes
    BY <1>8 DEF Close, At, Backed
  <2> QED
    BY <1>3, <1>4, <2>1, <2>2, <2>3, BackedPush, BackedQuiet
<1>9. CASE PublishResult(x)
  <2>1. CASE UNCHANGED remoteVars /\ Return(x)
    <3>1. Quiet(x)
      BY <1>1, <2>1 DEF Quiet, Return, Idle
    <3> QED
      BY <1>3, <2>1, <3>1, BackedQuiet DEF remoteVars
  <2>2. CASE PushResult(x)
    <3>1. resultRef = 0 /\ resultRef' # 0 /\ UNCHANGED <<commits, claimRef>>
      BY <2>2, ProcessFacts DEF PushResult
    <3>2. NobodyPrunes
      BY <3>1 DEF Backed, NobodyPrunes
    <3>3. proc'[x].pc # "pruning"
      BY <1>1, <1>9 DEF PublishResult, Return, Idle, At, ProcessState
    <3>4. NobodyPrunes'
      BY <1>2, <3>2, <3>3 DEF NobodyPrunes, At
    <3> QED
      BY <3>1, <3>4 DEF Backed, NobodyPrunes
  <2> QED
    BY <1>9, <2>1, <2>2 DEF PublishResult
<1>10. CASE ~(\/ Prune(x) \/ PruneResult(x) \/ Claim(x) \/ Renew(x)
              \/ Close(x) \/ PublishResult(x))
  <2>1. UNCHANGED <<claimRef, resultRef>>
    BY <1>10 DEF Sync, Acquire, Step, Heartbeat, Finish, ExtractionFails, Crash,
       Retry, Observe, Import, NothingToPrune, AcquireFound, AcquireOwn,
       AcquireElsewhere, AcquireFree, Found, ObserveOwn, LeaseLost, StoreResult,
       remoteVars
  <2>2. Quiet(x)
    <3>1. CASE \/ Sync(x) \/ Acquire(x) \/ Retry(x) \/ Observe(x) \/ Import(x)
               \/ NothingToPrune(x) \/ AcquireFree(x) \/ ObserveOwn(x)
               \/ StoreResult(x)
      BY <1>1, <3>1 DEF Sync, Acquire, Retry, Observe, Import, NothingToPrune,
         AcquireFree, ObserveOwn, StoreResult, AfterSync, Snapshot, Quiet, Goto,
         Return, Idle, At, ProcessState
    <3>2. CASE \/ AcquireFound(x) \/ AcquireOwn(x) \/ AcquireElsewhere(x)
               \/ Found(x) \/ LeaseLost(x) \/ Heartbeat(x) \/ Finish(x)
               \/ ExtractionFails(x) \/ Crash(x)
      BY <1>1, <3>2 DEF AcquireFound, AcquireOwn, AcquireElsewhere, Found,
         LeaseLost, Heartbeat, Finish, ExtractionFails, Crash, Quiet, Goto,
         Return, Idle, ProcessState
    <3> QED
      BY <1>10, <3>1, <3>2 DEF Step
  <2> QED
    BY <1>3, <2>1, <2>2, BackedQuiet
<1> QED
  BY <1>5, <1>6, <1>7, <1>8, <1>9, <1>10

LEMMA BackedStep ==
  TypeOK /\ AllFounded /\ Backed /\ [Next]_vars => Backed'
<1> SUFFICES ASSUME TypeOK, AllFounded, Backed, [Next]_vars PROVE Backed'
  OBVIOUS
<1>1. CommitsKept
  BY TypeStep
<1>2. ASSUME NEW x \in Process,
             \/ Sync(x) \/ Acquire(x) \/ Step(x)
             \/ Heartbeat(x) \/ Finish(x) \/ ExtractionFails(x) \/ Crash(x)
      PROVE  Backed'
  BY <1>1, <1>2, BackedActor
<1>3. CASE Tick \/ UNCHANGED vars \/ \E p \in Producer : Evict(p)
  <2>1. UNCHANGED <<claimRef, resultRef>>
    BY <1>3 DEF Tick, vars, Evict, remoteVars
  <2>2. ASSUME NEW y \in Process PROVE Quiet(y)
    <3>1. proc[y] \in ProcessState
      BY ProcessFacts
    <3> QED
      BY <1>3, <3>1 DEF Tick, vars, Evict, Quiet, ProcessState
  <2> QED
    BY <1>1, <2>1, <2>2, BackedQuiet
<1> QED
  BY <1>2, <1>3 DEF Next

-----------------------------------------------------------------------------
(* An extraction keeps its claim.  acquire resumes an extraction under a    *)
(* claim of its own that is in force, which may be about to end, and renews *)
(* it only a heartbeat interval later: the argument needs that two          *)
(* intervals are left.  It needs that heartbeats reach the remote, that two *)
(* intervals fit into lease and grace, and one process per catalog, which   *)
(* keeps the observed claim from changing under a heartbeat.                *)
ResumeInTime ==
  \A x \in Process :
    AcquireOwn(x) => 2 * HeartbeatPeriod - Grace <= commits[Known(x)].left

OnePerCatalog == \A x, y \in Process : Home[x] = Home[y] => x = y
BeatingWorkers ==
  /\ Prompt
  /\ "offline" \notin FaultKinds
  /\ 2 * HeartbeatPeriod <= Lease + Grace
  /\ OnePerCatalog

(* A claim that no other producer may take over: a processing claim in      *)
(* force.                                                                   *)
Holds(x, oid) ==
  /\ Mine(x, oid) /\ commits[oid].state = "processing"
  /\ commits[oid].left >= -Grace

(* What a worker read of its own claim is still so.                         *)
Reading == {"fetched", "observed", "imported", "pruning", "acquiring"}
Read(x) == IF At(x, "fetched") THEN proc[x].oid ELSE Known(x)

(* The heartbeat intervals that a claim must outlast yet.                   *)
Intervals(x) == IF At(x, "beating") THEN 1 ELSE 2

Claimed(x) ==
  /\ proc[x].pc \in Reading => proc[x].waited = 0
  /\ At(x, "claiming") \/ proc[x].pc \in Extracting => proc[x].waited <= HeartbeatPeriod
  /\ proc[x].pc \in {"fetched", "observed", "imported", "acquiring"} /\ Holds(x, Read(x)) =>
       claimRef = Read(x)
  /\ At(x, "beating") => Known(x) = claimRef
  /\ proc[x].pc \in Extracting =>
       /\ Mine(x, claimRef) /\ commits[claimRef].state = "processing"
       /\ Intervals(x) * HeartbeatPeriod - Grace <= commits[claimRef].left + proc[x].waited
AllClaimed == \A x \in Process : Claimed(x)

Acts(x) ==
  \/ Sync(x) \/ Acquire(x) \/ Step(x)
  \/ Heartbeat(x) \/ Finish(x) \/ ExtractionFails(x) \/ Crash(x)

(* The times are numbers, and an extraction under way holds its claim.      *)
LEMMA ClaimFacts ==
  ASSUME TypeOK, NEW oid \in 1..Len(commits)
  PROVE  commits[oid].by \in Producer /\ commits[oid].left \in Int
         /\ commits[oid].state \in {"processing", "completed"}
<1>1. commits \in Seq(Commit)
  BY DEF TypeOK, Commit
<1>2. commits[oid] \in Commit
  BY <1>1
<1> QED  BY <1>2 DEF Commit

LEMMA TimeFacts ==
  /\ Lease \in Nat /\ Grace \in Nat /\ HeartbeatPeriod \in Nat
  /\ 0 < HeartbeatPeriod /\ HeartbeatPeriod <= Lease
BY GitAssumption

LEMMA ExtractingHolds ==
  ASSUME TypeOK, NEW x \in Process, Claimed(x), proc[x].pc \in Extracting
  PROVE  Holds(x, claimRef) /\ claimRef \in 1..Len(commits)
<1>1. Mine(x, claimRef) /\ commits[claimRef].state = "processing"
      /\ claimRef \in 1..Len(commits)
  BY ProcessFacts DEF Claimed, Mine, TypeOK
<1>2. commits[claimRef].left \in Int
  BY <1>1, ClaimFacts
<1>3. proc[x].waited \in Nat /\ proc[x].waited <= HeartbeatPeriod
  BY ProcessFacts, TimeFacts DEF ProcessState, Claimed
<1>4. Intervals(x) * HeartbeatPeriod >= HeartbeatPeriod
      /\ Intervals(x) * HeartbeatPeriod \in Nat
  BY TimeFacts DEF Intervals
<1>5. Intervals(x) * HeartbeatPeriod - Grace <= commits[claimRef].left + proc[x].waited
  BY DEF Claimed
<1>6. commits[claimRef].left >= -Grace
  BY <1>2, <1>3, <1>4, <1>5, TimeFacts
<1> QED  BY <1>1, <1>6 DEF Holds

(* A claim that is held is left alone by the processes of other catalogs:   *)
(* they replace an expired claim, a claim of their own, or remove a         *)
(* completed one.                                                           *)
LEMMA CommitsStay ==
  ASSUME TypeOK, NEW y \in Process, Acts(y)
  PROVE  \A i \in 1..Len(commits) : commits'[i] = commits[i]
<1>1. LeaseLeft(y) \in Int /\ Retention \in Int
  BY ProcessFacts, GitAssumption DEF LeaseLeft, ProcessState
<1>2. CASE Claim(y) \/ Renew(y) \/ Close(y)
  <2>1. \/ PushClaim(y, "processing", LeaseLeft(y))
        \/ PushClaim(y, "completed", Retention)
        \/ UNCHANGED commits
    BY <1>2 DEF Claim, Renew, Close, PushUnheard, PushFails, remoteVars
  <2> QED  BY <1>1, <2>1, PushEffect
<1>3. CASE ~(Claim(y) \/ Renew(y) \/ Close(y))
  <2>1. UNCHANGED commits
    BY <1>3 DEF Acts, Sync, Acquire, Step, Heartbeat, Finish, ExtractionFails, Crash,
       Retry, Observe, Import, Prune, NothingToPrune, PruneResult, AcquireFound,
       AcquireOwn, AcquireElsewhere, AcquireFree, Found, ObserveOwn, LeaseLost,
       PublishResult, PushResult, StoreResult, remoteVars
  <2> QED  BY <2>1
<1> QED  BY <1>2, <1>3

LEMMA HeldStays ==
  ASSUME TypeOK, AllFounded, BeatingWorkers, NEW x \in Process, NEW y \in Process, y # x,
         Holds(x, claimRef), Acts(y)
  PROVE  claimRef' = claimRef
<1>1. Home[x] # Home[y]
  BY DEF BeatingWorkers, OnePerCatalog
<1>2. claimRef \in 1..Len(commits)
  BY ProcessFacts DEF Holds, Mine, TypeOK
<1>3. claimRef # 0 /\ commits[claimRef].by = Home[x] /\ ~Completed(claimRef)
  BY DEF Holds, Mine, Completed
<1>4. ~(commits[claimRef].left < -Grace)
  BY <1>2, ClaimFacts, TimeFacts DEF Holds
<1>5. CASE Claim(y)
  <2>1. claimRef # proc[y].oid
    BY <1>3, <1>4, <1>5 DEF AllFounded, Founded, Claim
  <2> QED  BY <1>5, <2>1 DEF Claim, PushUnheard, PushFails, CanPush, remoteVars
<1>6. CASE Renew(y)
  BY <1>1, <1>3, <1>6 DEF Renew, Mine, PushUnheard, PushFails, CanPush, remoteVars
<1>7. CASE Close(y)
  <2>1. claimRef # proc[y].oid
    BY <1>1, <1>3, <1>7 DEF AllFounded, Founded, Close, At, Mine
  <2> QED  BY <1>7, <2>1 DEF Close, PushUnheard, PushFails, CanPush, remoteVars
<1>8. CASE Prune(y)
  BY <1>3, <1>8 DEF Prune, Prunable, CanPush
<1>9. CASE ~(Claim(y) \/ Renew(y) \/ Close(y) \/ Prune(y))
  BY <1>9 DEF Acts, Sync, Acquire, Step, Heartbeat, Finish, ExtractionFails, Crash,
     Retry, Observe, Import, NothingToPrune, PruneResult, AcquireFound,
     AcquireOwn, AcquireElsewhere, AcquireFree, Found, ObserveOwn, LeaseLost,
     PublishResult, PushResult, StoreResult, remoteVars
<1> QED  BY <1>5, <1>6, <1>7, <1>8, <1>9

(* Nor do they change what this catalog observed.                           *)
LEMMA KnownStays ==
  ASSUME TypeOK, OnePerCatalog, NEW x \in Process, NEW y \in Process, y # x, Acts(y)
  PROVE  Known(x)' = Known(x)
<1>1. Home[x] # Home[y]
  BY DEF OnePerCatalog
<1>2. \A oid : SetKnown(y, oid) => known'[Home[x]] = known[Home[x]]
  BY <1>1, ProcessFacts DEF SetKnown, TypeOK
<1>3. UNCHANGED known \/ \E oid : SetKnown(y, oid)
  BY DEF Acts, Sync, Acquire, Step, Heartbeat, Finish, ExtractionFails, Crash,
     Retry, Observe, Import, Prune, NothingToPrune, PruneResult, AcquireFound,
     AcquireOwn, AcquireElsewhere, AcquireFree, Claim, Found, ObserveOwn, Renew,
     LeaseLost, PublishResult, StoreResult, Close, Refresh, catalogVars
<1> QED  BY <1>2, <1>3 DEF Known

LEMMA OthersClaimed ==
  ASSUME TypeOK, AllFounded, AllClaimed, BeatingWorkers,
         NEW x \in Process, NEW y \in Process, y # x, Acts(y)
  PROVE  Claimed(x)'
<1>1. proc'[x] = proc[x]
  BY OthersKept DEF Acts
<1>2. Known(x)' = Known(x) /\ Known(x) \in 0..Len(commits) /\ proc[x].oid \in 0..Len(commits)
  BY KnownStays, ProcessFacts DEF ProcessState, BeatingWorkers
<1>3. Claimed(x)
  BY DEF AllClaimed
<1>4. Read(x)' = Read(x) /\ Read(x) \in 0..Len(commits)
  BY <1>1, <1>2 DEF Read, At
<1>5. \A i \in 1..Len(commits) : commits'[i] = commits[i]
  BY CommitsStay
<1>6. Holds(x, Read(x))' => Holds(x, Read(x))
  <2> SUFFICES ASSUME Holds(x, Read(x))' PROVE Holds(x, Read(x))
    OBVIOUS
  <2>1. Read(x) \in 1..Len(commits)
    BY <1>4, ProcessFacts DEF Holds, Mine
  <2>2. commits'[Read(x)] = commits[Read(x)]
    BY <1>5, <2>1
  <2> QED  BY <1>4, <2>2 DEF Holds, Mine
<1>7. proc[x].pc \in {"fetched", "observed", "imported", "acquiring"}
      /\ Holds(x, Read(x))' => claimRef' = Read(x)'
  <2> SUFFICES ASSUME proc[x].pc \in {"fetched", "observed", "imported", "acquiring"},
                      Holds(x, Read(x))'
               PROVE  claimRef' = Read(x)'
    OBVIOUS
  <2>1. claimRef = Read(x) /\ Holds(x, claimRef)
    BY <1>3, <1>6 DEF Claimed
  <2> QED  BY <1>4, <2>1, HeldStays
<1>8. CASE proc[x].pc \in Extracting
  <2>1. Holds(x, claimRef) /\ claimRef \in 1..Len(commits)
    BY <1>3, <1>8, ExtractingHolds
  <2>2. claimRef' = claimRef
    BY <2>1, HeldStays
  <2>3. commits'[claimRef] = commits[claimRef]
    BY <1>5, <2>1
  <2> QED  BY <1>1, <1>2, <1>3, <1>7, <2>2, <2>3 DEF Claimed, Mine, Intervals, At
<1>9. CASE proc[x].pc \notin Extracting
  BY <1>1, <1>3, <1>7, <1>9 DEF Claimed, At, Extracting
<1> QED  BY <1>8, <1>9

(* The process that takes the step: it renews a claim before its time is    *)
(* over.                                                                    *)
LEMMA ActorClaimed ==
  ASSUME TypeOK, AllFounded, AllClaimed, BeatingWorkers, ResumeInTime,
         NEW x \in Process, Acts(x)
  PROVE  Claimed(x)'
<1>1. /\ proc \in [Process -> ProcessState] /\ proc[x] \in ProcessState
      /\ Known(x) \in 0..Len(commits) /\ known \in [Producer -> 0..Len(commits)]
      /\ Home[x] \in Producer /\ Len(commits) \in Nat
      /\ proc[x].waited \in Nat /\ proc[x].oid \in 0..Len(commits)
  <2>1. proc[x] \in ProcessState /\ Known(x) \in 0..Len(commits) /\ Home[x] \in Producer
        /\ Len(commits) \in Nat
    BY ProcessFacts
  <2>2. proc \in [Process -> ProcessState] /\ known \in [Producer -> 0..Len(commits)]
    BY DEF TypeOK, ProcessState
  <2>3. proc[x].waited \in Nat /\ proc[x].oid \in 0..Len(commits)
    BY <2>1, GitAssumption DEF ProcessState
  <2> QED  BY <2>1, <2>2, <2>3
<1>2. Claimed(x)
  BY DEF AllClaimed
<1>3. \A i \in 1..Len(commits) : commits'[i] = commits[i]
  BY CommitsStay
<1>4. \A i \in 0..Len(commits) : Holds(x, i)' => Holds(x, i)
  BY <1>1, <1>3 DEF Holds, Mine
<1>5. ASSUME proc'[x].pc \notin Reading \cup Extracting \cup {"claiming"}
      PROVE  Claimed(x)'
  BY <1>5 DEF Claimed, At, Reading, Extracting
<1>6. ASSUME proc'[x].pc \in {"observed", "imported", "pruning", "acquiring"},
             proc'[x].waited = 0,
             Holds(x, Known(x))' => claimRef' = Known(x)'
      PROVE  Claimed(x)'
  BY <1>6 DEF Claimed, At, Read, Extracting
<1>7. ASSUME proc[x].pc \in {"imported", "acquiring", "pruning"}, AfterSync(x),
             Holds(x, Known(x))' => claimRef' = Known(x)'
      PROVE  Claimed(x)'
  <2>1. CASE Goto(x, "acquiring")
    <3>1. proc'[x].pc = "acquiring" /\ proc'[x].waited = 0
      BY <1>1, <1>2, <1>7, <2>1 DEF Goto, Claimed, Reading, ProcessState
    <3> QED  BY <1>6, <1>7, <3>1
  <2>2. CASE Return(x)
    <3>1. proc'[x].pc = "idle"
      BY <1>1, <2>2 DEF Return, Idle
    <3> QED  BY <1>5, <3>1 DEF Reading, Extracting
  <2> QED  BY <1>7, <2>1, <2>2 DEF AfterSync
<1>8. CASE Sync(x) \/ Acquire(x) \/ Retry(x)
  <2>1. CASE Return(x)
    <3>1. proc'[x].pc = "idle"
      BY <1>1, <2>1 DEF Return, Idle
    <3> QED  BY <1>5, <3>1 DEF Reading, Extracting
  <2>2. CASE \E why : Snapshot(x, why)
    <3>1. proc'[x].pc = "fetched" /\ proc'[x].oid = claimRef /\ proc'[x].waited = 0
      BY <1>1, <2>2 DEF Snapshot
    <3>2. UNCHANGED claimRef
      BY <1>8 DEF Sync, Acquire, Retry, remoteVars
    <3> QED  BY <3>1, <3>2 DEF Claimed, At, Read, Extracting
  <2> QED  BY <1>8, <2>1, <2>2 DEF Sync, Acquire, Retry
<1>9. CASE Observe(x)
  <2>1. /\ At(x, "fetched") /\ UNCHANGED claimRef
        /\ Known(x)' = IF Accepted(Home[x], proc[x].oid) THEN proc[x].oid ELSE 0
    BY <1>1, <1>9 DEF Observe, SetKnown, Known, remoteVars
  <2>2. proc'[x].pc = "observed" /\ proc'[x].waited = 0
    BY <1>1, <1>2, <1>9, <2>1 DEF Observe, At, Claimed, Reading, ProcessState
  <2>3. ASSUME Holds(x, Known(x))' PROVE claimRef' = Known(x)'
    <3>1. Known(x)' = proc[x].oid /\ Holds(x, proc[x].oid)
      BY <1>1, <1>4, <2>1, <2>3 DEF Holds, Mine
    <3> QED  BY <1>2, <2>1, <3>1 DEF Claimed, Read, At
  <2> QED  BY <1>6, <2>2, <2>3
<1>10. CASE Import(x)
  <2>1. At(x, "observed") /\ UNCHANGED <<claimRef, known>>
    BY <1>10 DEF Import, remoteVars
  <2>2. proc'[x].pc = "imported" /\ proc'[x].waited = 0
    BY <1>1, <1>2, <1>10, <2>1 DEF Import, At, Claimed, Reading, ProcessState
  <2>3. Holds(x, Known(x))' => claimRef' = Known(x)'
    BY <1>1, <1>2, <1>4, <2>1 DEF Claimed, Read, At, Known
  <2> QED  BY <1>6, <2>2, <2>3
<1>11. CASE Prune(x)
  <2>1. At(x, "imported") /\ UNCHANGED known /\ Completed(Known(x))
    BY <1>11 DEF Prune, Prunable, catalogVars
  <2>2. ~Holds(x, Known(x))'
    BY <1>1, <1>4, <2>1 DEF Holds, Completed, Known
  <2>3. CASE AfterSync(x)
    BY <1>7, <2>1, <2>2, <2>3 DEF At
  <2>4. CASE Goto(x, "pruning")
    <3>1. proc'[x].pc = "pruning" /\ proc'[x].waited = 0
      BY <1>1, <1>2, <2>1, <2>4 DEF Goto, At, Claimed, Reading, ProcessState
    <3> QED  BY <1>6, <2>2, <3>1
  <2> QED  BY <1>11, <2>3, <2>4 DEF Prune
<1>12. CASE NothingToPrune(x)
  <2>1. At(x, "imported") /\ UNCHANGED <<claimRef, known>> /\ AfterSync(x)
    BY <1>12 DEF NothingToPrune, remoteVars, catalogVars
  <2>2. Holds(x, Known(x))' => claimRef' = Known(x)'
    BY <1>1, <1>2, <1>4, <2>1 DEF Claimed, Read, At, Known
  <2> QED  BY <1>7, <2>1, <2>2 DEF At
<1>13. CASE PruneResult(x)
  <2>1. At(x, "pruning") /\ AfterSync(x) /\ Known(x)' = 0
    BY <1>1, <1>13 DEF PruneResult, SetKnown, Known
  <2> QED  BY <1>7, <2>1 DEF At, Holds, Mine
<1>14. CASE AcquireOwn(x)
  <2>1. /\ At(x, "acquiring") /\ Mine(x, Known(x)) /\ InForce(Known(x)) /\ ~Completed(Known(x))
        /\ UNCHANGED <<claimRef, commits>>
    BY <1>14 DEF AcquireOwn, Undecided, remoteVars
  <2>2. Known(x) \in 1..Len(commits)
    BY <1>1, <2>1 DEF Mine
  <2>3. Holds(x, Known(x))
    BY <2>1, <2>2, ClaimFacts DEF Holds, Mine, InForce, Completed
  <2>4. claimRef = Known(x)
    BY <1>2, <2>1, <2>3 DEF Claimed, Read, At
  <2>5. proc'[x].pc = "working" /\ proc'[x].waited = 0
    BY <1>1, <1>2, <1>14, <2>1 DEF AcquireOwn, Goto, At, Claimed, Reading, ProcessState
  <2>6. 2 * HeartbeatPeriod - Grace <= commits[claimRef].left + 0
    BY <1>14, <2>2, <2>4, ClaimFacts, TimeFacts DEF ResumeInTime
  <2> QED
    BY <2>1, <2>3, <2>4, <2>5, <2>6, TimeFacts DEF Claimed, At, Holds, Mine, Intervals,
       Reading, Extracting
<1>15. CASE AcquireFree(x)
  <2>1. proc'[x].pc = "claiming" /\ proc'[x].waited = 0
    BY <1>1, <1>15 DEF AcquireFree, ProcessState
  <2> QED  BY <2>1, TimeFacts DEF Claimed, At, Reading, Extracting
<1>16. ASSUME PushClaim(x, "processing", LeaseLeft(x)),
              proc'[x].pc \in {"claimed", "beaten", "working"},
              proc'[x].waited = proc[x].waited, proc[x].waited <= HeartbeatPeriod
       PROVE  Claimed(x)'
  <2>1. LeaseLeft(x) = Lease - proc[x].waited /\ LeaseLeft(x) \in Int
    BY <1>1, TimeFacts DEF LeaseLeft
  <2>2. /\ claimRef' # 0 /\ commits'[claimRef'].by = Home[x]
        /\ commits'[claimRef'].state = "processing"
        /\ commits'[claimRef'].left = Lease - proc[x].waited
    BY <1>1, <1>16, <2>1, PushEffect
  <2>3. 2 * HeartbeatPeriod - Grace <= commits'[claimRef'].left + proc'[x].waited
    BY <1>1, <1>16, <2>2, TimeFacts DEF BeatingWorkers
  <2> QED
    BY <1>16, <2>2, <2>3 DEF Claimed, At, Mine, Intervals, Reading, Extracting
<1>17. CASE Claim(x)
  <2>1. At(x, "claiming") /\ proc[x].waited <= HeartbeatPeriod
    BY <1>2, <1>17 DEF Claim, Claimed
  <2>2. CASE Goto(x, "retrying")
    <3>1. proc'[x].pc = "retrying"
      BY <1>1, <2>2 DEF Goto
    <3> QED  BY <1>5, <3>1 DEF Reading, Extracting
  <2>3. CASE ~Goto(x, "retrying")
    <3>1. PushClaim(x, "processing", LeaseLeft(x))
          /\ proc'[x].pc = "claimed" /\ proc'[x].waited = proc[x].waited
      BY <1>1, <1>17, <2>3 DEF Claim, ProcessState
    <3> QED  BY <1>16, <2>1, <3>1
  <2> QED  BY <2>2, <2>3
<1>18. CASE ObserveOwn(x)
  <2>1. CASE At(x, "closed")
    <3>1. proc'[x].pc = "idle"
      BY <1>1, <1>18, <2>1 DEF ObserveOwn, Return, Idle
    <3> QED  BY <1>5, <3>1 DEF Reading, Extracting
  <2>2. CASE ~At(x, "closed")
    <3>1. proc[x].pc \in {"claimed", "beaten"} /\ UNCHANGED <<claimRef, commits>>
      BY <1>18, <2>2 DEF ObserveOwn, At, remoteVars
    <3>2. proc'[x].pc = "working" /\ proc'[x].waited = proc[x].waited
      BY <1>1, <1>18, <2>2 DEF ObserveOwn, ProcessState
    <3> QED
      BY <1>2, <3>1, <3>2 DEF Claimed, At, Mine, Intervals, Reading, Extracting
  <2> QED  BY <2>1, <2>2
<1>19. CASE Heartbeat(x)
  <2>1. /\ At(x, "working") /\ UNCHANGED <<claimRef, commits>>
        /\ proc'[x].pc = "beating" /\ proc'[x].waited = 0
    BY <1>1, <1>19 DEF Heartbeat, remoteVars, ProcessState
  <2>2. Mine(x, claimRef) /\ commits[claimRef].state = "processing"
        /\ 2 * HeartbeatPeriod - Grace <= commits[claimRef].left + proc[x].waited
        /\ proc[x].waited <= HeartbeatPeriod
    BY <1>2, <2>1 DEF Claimed, At, Intervals, Extracting
  <2>3. claimRef \in 1..Len(commits)
    BY <1>1, <2>2 DEF Mine, TypeOK
  <2>4. Accepted(Home[x], claimRef)
    BY <1>1, <2>2, GitAssumption DEF Accepted, Mine
  <2>5. Known(x)' = claimRef
    <3>1. ~Fault("offline")
      BY DEF Fault, BeatingWorkers
    <3>2. SetKnown(x, claimRef)
      BY <1>19, <2>4, <3>1 DEF Heartbeat, Refresh
    <3> QED  BY <1>1, <3>2 DEF SetKnown, Known
  <2>6. 1 * HeartbeatPeriod - Grace <= commits[claimRef].left + 0
    BY <1>1, <2>2, <2>3, ClaimFacts, TimeFacts
  <2> QED
    BY <2>1, <2>2, <2>5, <2>6, TimeFacts DEF Claimed, At, Mine, Intervals, Reading, Extracting
<1>20. CASE Renew(x)
  <2>1. At(x, "beating") /\ Known(x) = claimRef /\ Mine(x, claimRef)
        /\ proc[x].waited <= HeartbeatPeriod
    BY <1>2, <1>20 DEF Renew, Claimed, At, Extracting
  <2>2. PushClaim(x, "processing", LeaseLeft(x))
    BY <1>20, <2>1 DEF Renew, CanPush, PushUnheard, PushFails, Fault, BeatingWorkers
  <2>3. proc'[x].pc \in {"beaten", "working"} /\ proc'[x].waited = proc[x].waited
    BY <1>1, <1>20 DEF Renew, Goto, ProcessState
  <2> QED  BY <1>16, <2>1, <2>2, <2>3
<1>21. CASE \/ AcquireFound(x) \/ AcquireElsewhere(x) \/ Found(x) \/ Finish(x)
            \/ ExtractionFails(x) \/ Crash(x) \/ LeaseLost(x)
  <2>1. proc'[x].pc \in {"found", "idle", "completing", "lost"}
    BY <1>1, <1>21 DEF AcquireFound, AcquireElsewhere, Found, Finish, ExtractionFails,
       Crash, LeaseLost, Goto, Return, Idle, ProcessState
  <2> QED  BY <1>5, <2>1 DEF Reading, Extracting
<1>22. CASE PublishResult(x) \/ StoreResult(x) \/ Close(x)
  <2>1. proc'[x].pc \in {"publishing", "stored", "closed", "idle"}
    BY <1>1, <1>22 DEF PublishResult, StoreResult, Close, Return, Idle, ProcessState
  <2> QED  BY <1>5, <2>1 DEF Reading, Extracting
<1> QED
  BY <1>8, <1>9, <1>10, <1>11, <1>12, <1>13, <1>14, <1>15, <1>17, <1>18, <1>19, <1>20,
     <1>21, <1>22 DEF Acts, Step

(* Time runs down for the claim as it does for the worker, which beats      *)
(* before its interval is over.                                             *)
LEMMA TickClaimed ==
  ASSUME TypeOK, AllClaimed, BeatingWorkers, NEW x \in Process, Tick
  PROVE  Claimed(x)'
<1>1. /\ proc[x] \in ProcessState /\ proc \in [Process -> ProcessState]
      /\ Known(x) \in 0..Len(commits) /\ claimRef \in 0..Len(commits) /\ Len(commits) \in Nat
      /\ proc[x].waited \in Nat /\ proc[x].oid \in 0..Len(commits)
  BY ProcessFacts, GitAssumption DEF TypeOK, ProcessState
<1>2. Claimed(x) /\ UNCHANGED <<claimRef, known>>
  BY DEF AllClaimed, Tick, catalogVars
<1>3. /\ proc'[x].pc = proc[x].pc /\ proc'[x].oid = proc[x].oid
      /\ ~Counting(x) => proc'[x].waited = proc[x].waited
      /\ Counting(x) /\ proc[x].waited <= Lease + Grace => proc'[x].waited = proc[x].waited + 1
      /\ Counting(x) => proc[x].waited < HeartbeatPeriod
  BY <1>1 DEF Tick, ProcessState, BeatingWorkers
<1>4. \A i \in 1..Len(commits) :
        /\ commits'[i].by = commits[i].by /\ commits'[i].state = commits[i].state
        /\ commits[i].left < -Grace => commits'[i].left < -Grace
        /\ commits[i].left >= -Grace => commits'[i].left = commits[i].left - 1
        /\ commits'[i].left \in Int /\ commits[i].left \in Int
  <2> SUFFICES ASSUME NEW i \in 1..Len(commits)
               PROVE  /\ commits'[i].by = commits[i].by /\ commits'[i].state = commits[i].state
                      /\ commits[i].left < -Grace => commits'[i].left < -Grace
                      /\ commits[i].left >= -Grace => commits'[i].left = commits[i].left - 1
                      /\ commits'[i].left \in Int /\ commits[i].left \in Int
    OBVIOUS
  <2>1. commits \in Seq(Commit)
    BY DEF TypeOK, Commit
  <2>2. commits[i] \in Commit /\ commits[i].left \in Int
    BY <2>1, ClaimFacts
  <2>3. commits'[i] = IF commits[i].left >= -Grace THEN [commits[i] EXCEPT !.left = @ - 1]
                                                   ELSE commits[i]
    BY DEF Tick
  <2> QED  BY <2>2, <2>3, TimeFacts DEF Commit
<1>5. Read(x)' = Read(x) /\ Read(x) \in 0..Len(commits)
  BY <1>1, <1>2, <1>3 DEF Read, At, Known
<1>6. Holds(x, Read(x))' => Holds(x, Read(x))
  <2> SUFFICES ASSUME Holds(x, Read(x))' PROVE Holds(x, Read(x))
    OBVIOUS
  <2>1. Read(x) \in 1..Len(commits)
    BY <1>1, <1>5 DEF Holds, Mine
  <2>2. ~(commits[Read(x)].left < -Grace)
    BY <1>4, <1>5, <2>1, TimeFacts DEF Holds
  <2> QED  BY <1>4, <1>5, <2>1, <2>2, TimeFacts DEF Holds, Mine
<1>7. CASE proc[x].pc \in Extracting
  <2>1. Holds(x, claimRef) /\ claimRef \in 1..Len(commits)
    BY <1>2, <1>7, ExtractingHolds
  <2>2. Counting(x)
    BY <1>7 DEF Counting, BeatingWorkers
  <2>3. proc'[x].waited = proc[x].waited + 1 /\ proc'[x].waited <= HeartbeatPeriod
    BY <1>1, <1>3, <2>2, TimeFacts
  <2>4. commits'[claimRef].left = commits[claimRef].left - 1 /\ commits[claimRef].left \in Int
    BY <1>4, <2>1 DEF Holds
  <2>5. Intervals(x)' = Intervals(x) /\ Intervals(x) * HeartbeatPeriod \in Int
    BY <1>3, TimeFacts DEF Intervals, At
  <2>6. Intervals(x) * HeartbeatPeriod - Grace <= commits[claimRef].left + proc[x].waited
    BY <1>2, <1>7 DEF Claimed
  <2>7. (Intervals(x) * HeartbeatPeriod - Grace <= commits[claimRef].left + proc[x].waited)'
    BY <1>1, <1>2, <2>3, <2>4, <2>5, <2>6, TimeFacts
  <2>8. Mine(x, claimRef)' /\ (commits[claimRef].state = "processing")'
    BY <1>2, <1>4, <2>1 DEF Holds, Mine
  <2> QED
    BY <1>2, <1>3, <1>7, <2>3, <2>7, <2>8 DEF Claimed, At, Known, Extracting, Reading
<1>8. CASE proc[x].pc \in Reading
  <2>1. ~Counting(x)
    BY <1>8 DEF Counting, Reading, Extracting, Completing
  <2>2. proc[x].pc \in {"fetched", "observed", "imported", "acquiring"}
        /\ Holds(x, Read(x))' => claimRef' = Read(x)'
    BY <1>2, <1>5, <1>6 DEF Claimed
  <2> QED
    BY <1>2, <1>3, <1>8, <2>1, <2>2 DEF Claimed, At, Reading, Extracting
<1>9. CASE At(x, "claiming")
  <2>1. Counting(x)
    BY <1>9 DEF Counting, At
  <2>2. proc'[x].waited <= HeartbeatPeriod
    BY <1>1, <1>3, <2>1, TimeFacts
  <2> QED  BY <1>3, <1>9, <2>2 DEF Claimed, At, Reading, Extracting
<1>10. CASE proc[x].pc \notin Extracting \cup Reading \cup {"claiming"}
  BY <1>3, <1>10 DEF Claimed, At, Reading, Extracting
<1> QED  BY <1>7, <1>8, <1>9, <1>10 DEF At

LEMMA ClaimedStep ==
  ASSUME BeatingWorkers, TypeOK, AllFounded, AllClaimed, [Next]_vars, [ResumeInTime]_vars
  PROVE  AllClaimed'
<1>1. CASE UNCHANGED vars
  BY <1>1 DEF vars, AllClaimed, Claimed, Read, Known, Holds, Mine, Intervals, At
<1>2. ASSUME Next, ResumeInTime PROVE AllClaimed'
  <2>1. ASSUME NEW y \in Process, Acts(y) PROVE AllClaimed'
    <3>1. \A x \in Process : x = y => Claimed(x)'
      BY <1>2, <2>1, ActorClaimed
    <3>2. \A x \in Process : x # y => Claimed(x)'
      BY <2>1, OthersClaimed
    <3> QED  BY <3>1, <3>2 DEF AllClaimed
  <2>2. ASSUME Tick PROVE AllClaimed'
    BY <2>2, TickClaimed DEF AllClaimed
  <2>3. ASSUME NEW p \in Producer, Evict(p) PROVE AllClaimed'
    BY <2>3 DEF Evict, remoteVars, AllClaimed, Claimed, Read, Known, Holds, Mine,
       Intervals, At
  <2> QED  BY <1>2, <2>1, <2>2, <2>3 DEF Next, Acts
<1> QED  BY <1>1, <1>2

(* An extraction under way has its claim at the remote, through crashes,    *)
(* unheard pushes and failed extractions, if workers beat in time and none  *)
(* resumes under a claim that is about to end (git_coordination.cpp         *)
(* acquire, heartbeat, publish).                                            *)
THEOREM ExtractionsAreClaimed ==
  ASSUME BeatingWorkers
  PROVE  Spec /\ [][ResumeInTime]_vars => []ExtractionHasClaim
<1>1. Init => AllFounded /\ AllClaimed
  BY DEF Init, AllFounded, Founded, AllClaimed, Claimed, At, Idle, Reading, Extracting
<1>2. TypeOK /\ AllFounded /\ [Next]_vars => AllFounded'
  BY FoundedStep
<1>3. TypeOK /\ AllFounded /\ AllClaimed /\ [Next]_vars /\ [ResumeInTime]_vars => AllClaimed'
  BY ClaimedStep
<1>4. AllClaimed => ExtractionHasClaim
  BY DEF AllClaimed, Claimed, ExtractionHasClaim
<1>5. Spec => []TypeOK
  BY ClaimsTypeCorrect
<1> QED  BY <1>1, <1>2, <1>3, <1>4, <1>5, PTL DEF Spec

(* Two producers do not extract one task at once, for any number of them:   *)
(* each would have its claim at the one ref (git_coordination.cpp acquire). *)
THEOREM OneProducerAtATime ==
  ASSUME BeatingWorkers
  PROVE  Spec /\ [][ResumeInTime]_vars => []OneProducerExtracts
<1>1. ExtractionHasClaim => OneProducerExtracts
  BY DEF ExtractionHasClaim, OneProducerExtracts, Mine
<1>2. Spec /\ [][ResumeInTime]_vars => []ExtractionHasClaim
  BY ExtractionsAreClaimed
<1> QED  BY <1>1, <1>2, PTL

-----------------------------------------------------------------------------
(* A completed claim stays.  A heartbeat makes the claim of its producer    *)
(* processing again whatever state it was in: what it renews is never       *)
(* completed, because a worker that saw its own completed claim found its   *)
(* task done, and nobody else writes a claim in its name.                   *)
Fresh(x) ==
  /\ proc[x].pc \in {"fetched", "observed", "imported", "acquiring"} /\ Mine(x, claimRef) =>
       claimRef = Read(x)
  /\ At(x, "pruning") => ~Mine(x, claimRef)
  /\ At(x, "claiming") => ~Completed(proc[x].oid)
  /\ proc[x].pc \in {"claiming"} \cup Extracting \cup Completing =>
       ~(Mine(x, claimRef) /\ Completed(claimRef))
AllFresh == \A x \in Process : Fresh(x)

(* What a commit says of its producer and state is said for good.           *)
LEMMA CommitsSay ==
  ASSUME TypeOK, CommitsKept, NEW oid \in 0..Len(commits)
  PROVE  /\ Completed(oid)' <=> Completed(oid)
         /\ \A x \in Process : Mine(x, oid)' <=> Mine(x, oid)
         /\ \A p \in Producer : Accepted(p, oid)' <=> Accepted(p, oid)
<1>1. oid # 0 => /\ commits'[oid].by = commits[oid].by
                 /\ commits'[oid].state = commits[oid].state
  BY ProcessFacts DEF CommitsKept, TypeOK
<1> QED  BY <1>1 DEF Completed, Mine, Accepted

LEMMA FreshKept ==
  ASSUME TypeOK, CommitsKept, NEW x \in Process, Fresh(x),
         Mine(x, claimRef)' => claimRef' = claimRef,
         proc'[x].pc = proc[x].pc, proc'[x].oid = proc[x].oid, Known(x)' = Known(x)
  PROVE  Fresh(x)'
<1>1. /\ claimRef \in 0..Len(commits) /\ proc[x].oid \in 0..Len(commits)
  BY ProcessFacts DEF TypeOK, ProcessState
<1>2. Mine(x, claimRef)' => Mine(x, claimRef) /\ claimRef' = claimRef
  BY <1>1, CommitsSay DEF Mine
<1>3. Mine(x, claimRef)' /\ Completed(claimRef)' => Completed(claimRef)
  BY <1>1, CommitsSay DEF Completed
<1>4. Completed(proc[x].oid)' => Completed(proc[x].oid)
  BY <1>1, CommitsSay DEF Completed
<1>5. Read(x)' = Read(x)
  BY DEF Read, At
<1> QED  BY <1>2, <1>3, <1>4, <1>5 DEF Fresh, At

(* How a process moves the claim ref.                                       *)
LEMMA ClaimRefMoves ==
  ASSUME TypeOK, NEW y \in Process, Acts(y), claimRef' # claimRef
  PROVE  \/ Claim(y) /\ claimRef = proc[y].oid /\ PushClaim(y, "processing", LeaseLeft(y))
         \/ Renew(y) /\ claimRef = Known(y) /\ Mine(y, claimRef)
            /\ PushClaim(y, "processing", LeaseLeft(y))
         \/ Close(y) /\ claimRef = proc[y].oid /\ PushClaim(y, "completed", Retention)
         \/ Prune(y) /\ claimRef = Known(y) /\ claimRef' = 0
<1>1. CASE Claim(y)
  BY <1>1 DEF Claim, PushUnheard, PushFails, CanPush, remoteVars
<1>2. CASE Renew(y)
  BY <1>2 DEF Renew, PushUnheard, PushFails, CanPush, remoteVars
<1>3. CASE Close(y)
  BY <1>3 DEF Close, PushUnheard, PushFails, CanPush, remoteVars
<1>4. CASE Prune(y)
  BY <1>4 DEF Prune, CanPush
<1>5. CASE ~(Claim(y) \/ Renew(y) \/ Close(y) \/ Prune(y))
  BY <1>5 DEF Acts, Sync, Acquire, Step, Heartbeat, Finish, ExtractionFails, Crash,
     Retry, Observe, Import, NothingToPrune, PruneResult, AcquireFound,
     AcquireOwn, AcquireElsewhere, AcquireFree, Found, ObserveOwn, LeaseLost,
     PublishResult, PushResult, StoreResult, remoteVars
<1> QED  BY <1>1, <1>2, <1>3, <1>4, <1>5

(* The ref names a claim of the process that pushed it, or none.            *)
LEMMA MovedRef ==
  ASSUME TypeOK, NEW y \in Process, Acts(y), claimRef' # claimRef
  PROVE  claimRef' = 0 \/ commits'[claimRef'].by = Home[y]
<1>1. LeaseLeft(y) \in Int /\ Retention \in Int
  BY ProcessFacts, GitAssumption DEF LeaseLeft, ProcessState
<1> QED  BY <1>1, ClaimRefMoves, PushEffect

LEMMA OthersFresh ==
  ASSUME TypeOK, AllFresh, CommitsKept, OnePerCatalog,
         NEW x \in Process, NEW y \in Process, y # x, Acts(y)
  PROVE  Fresh(x)'
<1>1. proc'[x] = proc[x]
  BY OthersKept DEF Acts
<1>2. Known(x)' = Known(x)
  BY KnownStays
<1>3. Home[x] # Home[y]
  BY DEF OnePerCatalog
<1>4. Mine(x, claimRef)' => claimRef' = claimRef
  BY <1>3, MovedRef DEF Mine
<1> QED  BY <1>1, <1>2, <1>4, FreshKept DEF AllFresh

LEMMA ActorFresh ==
  ASSUME TypeOK, AllFresh, CommitsKept, NEW x \in Process, Acts(x)
  PROVE  Fresh(x)'
<1>1. /\ proc \in [Process -> ProcessState] /\ proc[x] \in ProcessState
      /\ Known(x) \in 0..Len(commits) /\ known \in [Producer -> 0..Len(commits)]
      /\ Home[x] \in Producer /\ claimRef \in 0..Len(commits)
      /\ proc[x].oid \in 0..Len(commits)
  BY ProcessFacts, GitAssumption DEF TypeOK, ProcessState
<1>2. Fresh(x)
  BY DEF AllFresh
<1> DEFINE Ends == {"idle", "lost", "found", "retrying", "closed"}
<1>3. ASSUME proc'[x].pc \in Ends PROVE Fresh(x)'
  BY <1>3 DEF Fresh, At, Extracting, Completing
<1>4. LeaseLeft(x) \in Int /\ Retention \in Int
  BY <1>1, GitAssumption DEF LeaseLeft, ProcessState
<1>5. ASSUME proc'[x].pc \in {"observed", "imported", "acquiring"},
             Mine(x, claimRef)' => claimRef' = Known(x)'
      PROVE  Fresh(x)'
  BY <1>5 DEF Fresh, At, Read, Extracting, Completing
<1>6. ASSUME AfterSync(x), Mine(x, claimRef)' => claimRef' = Known(x)'
      PROVE  Fresh(x)'
  <2>1. proc'[x].pc \in {"acquiring", "idle"}
    BY <1>1, <1>6 DEF AfterSync, Goto, Return, Idle, ProcessState
  <2> QED  BY <1>3, <1>5, <1>6, <2>1
<1>7. ASSUME UNCHANGED claimRef, proc[x].pc \in {"claiming"} \cup Extracting \cup Completing,
             proc'[x].pc \in Extracting \cup Completing \cup Ends
      PROVE  Fresh(x)'
  <2>1. CASE proc'[x].pc \in Ends
    BY <1>3, <2>1
  <2>2. CASE proc'[x].pc \in Extracting \cup Completing
    <3>1. ~(Mine(x, claimRef) /\ Completed(claimRef))'
      BY <1>1, <1>2, <1>7, CommitsSay DEF Fresh, Mine, Completed
    <3> QED  BY <2>2, <3>1 DEF Fresh, At, Extracting, Completing
  <2> QED  BY <1>7, <2>1, <2>2
<1>8. ASSUME PushClaim(x, "processing", LeaseLeft(x)), proc'[x].pc \in Extracting \cup Ends
      PROVE  Fresh(x)'
  <2>1. commits'[claimRef'].state = "processing"
    BY <1>4, <1>8, PushEffect
  <2> QED  BY <1>3, <1>8, <2>1 DEF Fresh, At, Completed, Extracting, Completing
<1>9. CASE Sync(x) \/ Acquire(x) \/ Retry(x)
  <2>1. UNCHANGED claimRef
    BY <1>9 DEF Sync, Acquire, Retry, remoteVars
  <2>2. CASE \E why : Snapshot(x, why)
    <3>1. proc'[x].pc = "fetched" /\ proc'[x].oid = claimRef
      BY <1>1, <2>2 DEF Snapshot
    <3> QED  BY <2>1, <3>1 DEF Fresh, At, Read, Extracting, Completing
  <2>3. CASE Return(x)
    BY <1>1, <1>3, <2>3 DEF Return, Idle
  <2> QED  BY <1>9, <2>2, <2>3 DEF Sync, Acquire, Retry
<1>10. CASE Observe(x)
  <2>1. /\ At(x, "fetched") /\ UNCHANGED <<claimRef, commits>> /\ proc'[x].pc = "observed"
        /\ Known(x)' = IF Accepted(Home[x], proc[x].oid) THEN proc[x].oid ELSE 0
    BY <1>1, <1>10 DEF Observe, SetKnown, Known, remoteVars, ProcessState
  <2>2. ASSUME Mine(x, claimRef)' PROVE claimRef' = Known(x)'
    <3>1. Mine(x, claimRef) /\ claimRef = proc[x].oid
      BY <1>2, <2>1, <2>2 DEF Fresh, Read, At, Mine
    <3>2. Accepted(Home[x], claimRef)
      BY <1>1, <3>1, GitAssumption DEF Accepted, Mine
    <3> QED  BY <2>1, <3>1, <3>2
  <2> QED  BY <1>5, <2>1, <2>2
<1>11. CASE Import(x) \/ NothingToPrune(x)
  <2>1. /\ proc[x].pc \in {"observed", "imported"} /\ UNCHANGED <<claimRef, commits, known>>
        /\ AfterSync(x) \/ proc'[x].pc = "imported"
    BY <1>1, <1>11 DEF Import, NothingToPrune, remoteVars, catalogVars, At, ProcessState
  <2>2. Mine(x, claimRef)' => claimRef' = Known(x)'
    BY <1>2, <2>1 DEF Fresh, Read, At, Mine, Known
  <2> QED  BY <1>5, <1>6, <2>1, <2>2
<1>12. CASE Prune(x)
  <2>1. At(x, "imported") /\ UNCHANGED <<commits, known>>
    BY <1>12 DEF Prune, catalogVars
  <2>2. CASE claimRef' = 0
    <3>1. ~Mine(x, claimRef)'
      BY <2>2 DEF Mine
    <3>2. CASE Goto(x, "pruning")
      <4>1. proc'[x].pc = "pruning"
        BY <1>1, <3>2 DEF Goto
      <4> QED  BY <3>1, <4>1 DEF Fresh, At, Extracting, Completing
    <3> QED  BY <1>6, <1>12, <3>1, <3>2 DEF Prune
  <2>3. CASE claimRef' # 0
    <3>1. UNCHANGED claimRef /\ AfterSync(x)
      BY <1>12, <2>3 DEF Prune
    <3>2. Mine(x, claimRef)' => claimRef' = Known(x)'
      BY <1>2, <2>1, <3>1 DEF Fresh, Read, At, Mine, Known
    <3> QED  BY <1>6, <3>1, <3>2
  <2> QED  BY <2>2, <2>3
<1>13. CASE PruneResult(x)
  <2>1. At(x, "pruning") /\ AfterSync(x) /\ UNCHANGED <<claimRef, commits>>
    BY <1>13 DEF PruneResult
  <2>2. ~Mine(x, claimRef)'
    BY <1>2, <2>1 DEF Fresh, Mine
  <2> QED  BY <1>6, <2>1, <2>2
<1>14. CASE AcquireOwn(x) \/ AcquireFree(x)
  <2>1. /\ At(x, "acquiring") /\ ~Completed(Known(x)) /\ UNCHANGED <<claimRef, commits>>
        /\ \/ proc'[x].pc = "working"
           \/ proc'[x].pc = "claiming" /\ proc'[x].oid = Known(x)
    BY <1>1, <1>14 DEF AcquireOwn, AcquireFree, Undecided, Goto, remoteVars, ProcessState
  <2>2. ~(Mine(x, claimRef) /\ Completed(claimRef))'
    BY <1>2, <2>1 DEF Fresh, Read, At, Mine, Completed
  <2>3. ~Completed(Known(x)) => (proc'[x].oid = Known(x) => ~Completed(proc[x].oid)')
    BY <2>1 DEF Completed
  <2> QED  BY <2>1, <2>2, <2>3 DEF Fresh, At, Extracting, Completing
<1>15. CASE Claim(x) \/ Renew(x)
  <2>1. /\ proc[x].pc \in {"claiming", "beating"}
        /\ proc'[x].pc \in {"claimed", "retrying", "beaten", "working"}
    BY <1>1, <1>15 DEF Claim, Renew, At, Goto, ProcessState
  <2>2. PushClaim(x, "processing", LeaseLeft(x)) \/ UNCHANGED claimRef
    BY <1>15 DEF Claim, Renew, PushUnheard, PushFails, remoteVars
  <2> QED  BY <1>7, <1>8, <2>1, <2>2 DEF Extracting
<1>16. CASE Close(x)
  BY <1>1, <1>3, <1>16 DEF Close, Return, Idle, ProcessState
<1>17. CASE ObserveOwn(x) \/ Heartbeat(x) \/ Finish(x) \/ PublishResult(x) \/ StoreResult(x)
  <2>1. UNCHANGED claimRef
    BY <1>17 DEF ObserveOwn, Heartbeat, Finish, PublishResult, PushResult, StoreResult, remoteVars
  <2>2. CASE ObserveOwn(x) /\ At(x, "closed")
    BY <1>1, <1>3, <2>2 DEF ObserveOwn, Return, Idle
  <2>3. CASE ~(ObserveOwn(x) /\ At(x, "closed"))
    <3>1. /\ proc[x].pc \in Extracting \cup Completing
          /\ proc'[x].pc \in Extracting \cup Completing \cup Ends
      BY <1>1, <1>17, <2>3 DEF ObserveOwn, Heartbeat, Finish, PublishResult, StoreResult, At,
         Goto, Return, Idle, Extracting, Completing, ProcessState
    <3> QED  BY <1>7, <2>1, <3>1
  <2> QED  BY <2>2, <2>3
<1>18. CASE \/ AcquireFound(x) \/ AcquireElsewhere(x) \/ Found(x) \/ ExtractionFails(x)
            \/ Crash(x) \/ LeaseLost(x)
  <2>1. proc'[x].pc \in {"found", "idle", "lost"}
    BY <1>1, <1>18 DEF AcquireFound, AcquireElsewhere, Found, ExtractionFails,
       Crash, LeaseLost, Goto, Return, Idle, ProcessState
  <2> QED  BY <1>3, <2>1
<1> QED
  BY <1>9, <1>10, <1>11, <1>12, <1>13, <1>14, <1>15, <1>16, <1>17, <1>18 DEF Acts, Step

LEMMA FreshStep ==
  ASSUME OnePerCatalog, TypeOK, AllFresh, [Next]_vars
  PROVE  AllFresh'
<1>1. CommitsKept
  BY TypeStep
<1>2. ASSUME NEW y \in Process, Acts(y) PROVE AllFresh'
  <2>1. \A x \in Process : x = y => Fresh(x)'
    BY <1>1, <1>2, ActorFresh
  <2>2. \A x \in Process : x # y => Fresh(x)'
    BY <1>1, <1>2, OthersFresh
  <2> QED  BY <2>1, <2>2 DEF AllFresh
<1>3. CASE Tick \/ UNCHANGED vars \/ \E p \in Producer : Evict(p)
  <2> SUFFICES ASSUME NEW x \in Process PROVE Fresh(x)'
    BY DEF AllFresh
  <2>1. UNCHANGED <<claimRef, known>>
    BY <1>3 DEF Tick, vars, Evict, remoteVars, catalogVars
  <2>2. proc'[x].pc = proc[x].pc /\ proc'[x].oid = proc[x].oid
    BY <1>3, ProcessFacts DEF Tick, vars, Evict, ProcessState
  <2> QED  BY <1>1, <2>1, <2>2, FreshKept DEF AllFresh, Known
<1> QED  BY <1>2, <1>3 DEF Next, Acts

(* What CompletedClaimStays says of one step.                               *)
CompletionStays ==
  Completed(claimRef) /\ claimRef' # claimRef =>
    claimRef' = 0 /\ commits[claimRef].left <= 0

LEMMA CompletionStep ==
  ASSUME TypeOK, AllFounded, AllFresh, [Next]_vars
  PROVE  CompletionStays
<1> SUFFICES ASSUME Completed(claimRef), claimRef' # claimRef
             PROVE  claimRef' = 0 /\ commits[claimRef].left <= 0
  BY DEF CompletionStays
<1>1. PICK y \in Process : Acts(y)
  BY DEF Next, Acts, Tick, Evict, vars, remoteVars
<1>2. CASE Claim(y) /\ claimRef = proc[y].oid
  BY <1>2 DEF Claim, AllFresh, Fresh
<1>3. CASE Renew(y) /\ Mine(y, claimRef)
  BY <1>3 DEF Renew, At, AllFresh, Fresh, Extracting
<1>4. CASE Close(y) /\ claimRef = proc[y].oid
  BY <1>4 DEF Close, At, AllFounded, Founded, AllFresh, Fresh, Completing
<1>5. CASE Prune(y) /\ claimRef = Known(y) /\ claimRef' = 0
  BY <1>5 DEF Prune, Prunable, Expired
<1> QED  BY <1>1, <1>2, <1>3, <1>4, <1>5, ClaimRefMoves

(* A completed claim is only ever removed, after its retention, if one      *)
(* process works on each catalog, and whatever else fails                   *)
(* (git_coordination.cpp heartbeat, acquire, sync).                         *)
THEOREM CompletionsStay ==
  ASSUME OnePerCatalog
  PROVE  Spec => CompletedClaimStays
<1>1. Init => AllFounded /\ AllFresh
  BY DEF Init, AllFounded, Founded, AllFresh, Fresh, At, Idle, Extracting, Completing
<1>2. TypeOK /\ AllFounded /\ [Next]_vars => AllFounded'
  BY FoundedStep
<1>3. TypeOK /\ AllFresh /\ [Next]_vars => AllFresh'
  BY FreshStep
<1>4. TypeOK /\ AllFounded /\ AllFresh /\ [Next]_vars => [CompletionStays]_vars
  BY CompletionStep
<1>5. Spec => []TypeOK
  BY ClaimsTypeCorrect
<1>6. Spec => [][CompletionStays]_vars
  BY <1>1, <1>2, <1>3, <1>4, <1>5, PTL DEF Spec
<1> QED  BY <1>6 DEF CompletedClaimStays, CompletionStays

-----------------------------------------------------------------------------
(* A found task has its fact.  A completed claim comes with a result of its *)
(* own producer, so a catalog that accepts the claim accepts the result;    *)
(* both are read at one moment, and the result is imported before the claim *)
(* is looked at.                                                            *)
Attributed ==
  /\ Completed(claimRef) => results[resultRef] = commits[claimRef].by
  /\ \A x \in Process :
       proc[x].pc \in {"publishing", "stored"} /\ proc[x].oid = claimRef =>
         results[resultRef] = Home[x]

(* What a catalog imported and trusts, it has.                              *)
ImportsAreFacts ==
  \A p \in Producer : \A r \in imported[p] :
    r # 0 /\ results[r] \in Trusted[p] => fact[p]

(* What a process has in hand when it will find the claim completed.        *)
Learnt(x) ==
  /\ At(x, "fetched") /\ Completed(proc[x].oid) =>
       proc[x].result # 0 /\ results[proc[x].result] = commits[proc[x].oid].by
  /\ At(x, "observed") /\ Completed(Known(x)) =>
       proc[x].result # 0 /\ results[proc[x].result] \in Trusted[Home[x]]
  /\ proc[x].pc \in {"imported", "acquiring"} /\ Completed(Known(x)) => fact[Home[x]]
AllLearnt == \A x \in Process : Learnt(x)

(* Results, too, are only added.                                            *)
ResultsKept ==
  /\ Len(results) \in Nat /\ Len(results) <= Len(results')
  /\ \A i \in 1..Len(results) : results'[i] = results[i]

LEMMA ResultMoves ==
  ASSUME TypeOK, NEW y \in Process, Acts(y)
  PROVE  \/ UNCHANGED <<results, resultRef>>
         \/ PruneResult(y) /\ UNCHANGED results /\ resultRef' = 0
         \/ PublishResult(y) /\ PushResult(y) /\ UNCHANGED <<commits, claimRef>>
            /\ resultRef = 0 /\ resultRef' \in 1..Len(results') /\ results'[resultRef'] = Home[y]
<1>1. CASE PublishResult(y) /\ PushResult(y)
  <2>1. results' = Append(results, Home[y]) /\ resultRef' = Len(results) + 1 /\ resultRef = 0
    BY <1>1 DEF PushResult
  <2>2. results \in Seq(Producer) /\ Home[y] \in Producer
    BY GitAssumption DEF TypeOK
  <2>3. resultRef' \in 1..Len(results') /\ results'[resultRef'] = Home[y]
    BY <2>1, <2>2
  <2> QED  BY <1>1, <2>1, <2>3 DEF PushResult
<1>2. CASE PublishResult(y) /\ ~PushResult(y)
  BY <1>2 DEF PublishResult, remoteVars
<1>3. CASE PruneResult(y)
  BY <1>3 DEF PruneResult
<1>4. CASE Claim(y) \/ Renew(y) \/ Close(y) \/ Prune(y)
  BY <1>4 DEF Claim, Renew, Close, Prune, PushUnheard, PushFails, PushClaim, remoteVars
<1>5. CASE ~(\/ PublishResult(y) \/ PruneResult(y) \/ Claim(y) \/ Renew(y) \/ Close(y)
             \/ Prune(y))
  BY <1>5 DEF Acts, Sync, Acquire, Step, Heartbeat, Finish, ExtractionFails, Crash,
     Retry, Observe, Import, NothingToPrune, AcquireFound, AcquireOwn,
     AcquireElsewhere, AcquireFree, Found, ObserveOwn, LeaseLost, StoreResult, remoteVars
<1> QED  BY <1>1, <1>2, <1>3, <1>4, <1>5

LEMMA ResultsStep ==
  ASSUME TypeOK, [Next]_vars
  PROVE  ResultsKept
<1>1. results \in Seq(Producer) /\ Len(results) \in Nat
  BY DEF TypeOK
<1>2. CASE UNCHANGED results
  BY <1>1, <1>2 DEF ResultsKept
<1>3. ASSUME NEW y \in Process, PushResult(y) PROVE ResultsKept
  <2>1. results' = Append(results, Home[y]) /\ Home[y] \in Producer
    BY <1>3, GitAssumption DEF PushResult
  <2> QED  BY <1>1, <2>1 DEF ResultsKept
<1>4. ASSUME NEW y \in Process, Acts(y) PROVE ResultsKept
  BY <1>2, <1>3, <1>4, ResultMoves
<1> QED  BY <1>2, <1>4 DEF Next, Acts, Tick, Evict, vars, remoteVars

(* A process publishes what it has pushed.                                  *)
LEMMA PublishingFrom ==
  ASSUME TypeOK, NEW y \in Process, Acts(y), proc'[y].pc \in {"publishing", "stored"}
  PROVE  \/ proc[y].pc \in {"publishing", "stored"} /\ proc'[y].oid = proc[y].oid
         \/ PushResult(y)
<1>1. proc \in [Process -> ProcessState] /\ proc[y] \in ProcessState
  BY ProcessFacts DEF TypeOK, ProcessState
<1>2. CASE PublishResult(y)
  BY <1>1, <1>2 DEF PublishResult, Return, Idle
<1>3. CASE StoreResult(y)
  BY <1>1, <1>3 DEF StoreResult, At, ProcessState
<1>4. CASE \/ Sync(y) \/ Acquire(y) \/ Retry(y) \/ Observe(y) \/ Import(y) \/ Prune(y)
           \/ NothingToPrune(y) \/ PruneResult(y)
  <2>1. proc'[y].pc \in {"fetched", "idle", "observed", "imported", "pruning", "acquiring"}
    BY <1>1, <1>4 DEF Sync, Acquire, Retry, Observe, Import, Prune, NothingToPrune, PruneResult,
       AfterSync, Snapshot, Goto, Return, Idle, ProcessState
  <2> QED  BY <2>1
<1>5. CASE \/ AcquireFound(y) \/ AcquireOwn(y) \/ AcquireElsewhere(y) \/ AcquireFree(y)
           \/ Claim(y) \/ Found(y) \/ ObserveOwn(y) \/ Renew(y)
  <2>1. proc'[y].pc \in {"found", "working", "idle", "claiming", "claimed", "retrying", "beaten"}
    BY <1>1, <1>5 DEF AcquireFound, AcquireOwn, AcquireElsewhere, AcquireFree, Claim, Found,
       ObserveOwn, Renew, Goto, Return, Idle, ProcessState
  <2> QED  BY <2>1
<1>6. CASE \/ LeaseLost(y) \/ Close(y) \/ Heartbeat(y) \/ Finish(y) \/ ExtractionFails(y)
           \/ Crash(y)
  <2>1. proc'[y].pc \in {"idle", "closed", "beating", "completing", "lost"}
    BY <1>1, <1>6 DEF LeaseLost, Close, Heartbeat, Finish, ExtractionFails, Crash, Goto,
       Return, Idle, ProcessState
  <2> QED  BY <2>1
<1> QED  BY <1>2, <1>3, <1>4, <1>5, <1>6 DEF Acts, Step

LEMMA AttributedActor ==
  ASSUME TypeOK, AllFounded, AllFounded', Backed, Attributed, CommitsKept, ResultsKept,
         NEW y \in Process, Acts(y)
  PROVE  Attributed'
<1>1. /\ claimRef \in 0..Len(commits) /\ Len(commits) \in Nat
      /\ resultRef \in 0..Len(results) /\ Len(results) \in Nat
      /\ \A x \in Process : proc[x].oid \in 0..Len(commits)
  BY ProcessFacts DEF TypeOK, ProcessState
<1>2. \A x \in Process : x # y => proc'[x] = proc[x]
  BY OthersKept DEF Acts
<1>3. LeaseLeft(y) \in Int /\ Retention \in Int
  BY ProcessFacts, GitAssumption DEF LeaseLeft, ProcessState
<1>4. ASSUME ~PushResult(y), NEW x \in Process, proc'[x].pc \in {"publishing", "stored"}
      PROVE  proc[x].pc \in {"publishing", "stored"} /\ proc'[x].oid = proc[x].oid
  BY <1>2, <1>4, PublishingFrom
<1>5. CASE PublishResult(y) /\ PushResult(y)
  <2>1. /\ resultRef = 0 /\ results'[resultRef'] = Home[y] /\ UNCHANGED <<commits, claimRef>>
    BY <1>5, ResultMoves DEF PushResult, PruneResult, At
  <2>2. ~Completed(claimRef)' /\ \A x \in Process :
          ~(proc[x].pc \in {"publishing", "stored"} /\ proc[x].oid = claimRef)
    BY <2>1 DEF Backed, Completed
  <2>3. ASSUME NEW x \in Process, proc'[x].pc \in {"publishing", "stored"},
               proc'[x].oid = claimRef'
        PROVE  results'[resultRef'] = Home[x]
    BY <1>2, <2>1, <2>2, <2>3
  <2> QED  BY <2>2, <2>3 DEF Attributed
<1>6. CASE PruneResult(y)
  <2>1. At(y, "pruning") /\ UNCHANGED <<commits, claimRef>> /\ ~PushResult(y)
    BY <1>6, <1>1 DEF PruneResult, PushResult
  <2>2. ~Completed(claimRef)' /\ \A x \in Process :
          ~(proc[x].pc \in {"publishing", "stored"} /\ proc[x].oid = claimRef)
    BY <2>1 DEF Backed, NobodyPrunes, Completed
  <2> QED  BY <1>4, <2>1, <2>2 DEF Attributed
<1>7. CASE UNCHANGED <<results, resultRef>>
  <2>1. ~PushResult(y)
    BY <1>1, <1>7 DEF PushResult
  <2>2. CASE UNCHANGED claimRef
    <3>1. Completed(claimRef)' => Completed(claimRef) /\ results[resultRef] = commits'[claimRef].by
      BY <1>1, CommitsSay, <2>2 DEF Attributed, Completed, CommitsKept
    <3> QED  BY <1>4, <1>7, <2>1, <2>2, <3>1 DEF Attributed
  <2>3. ASSUME NEW state \in {"processing", "completed"}, NEW left \in Int,
               PushClaim(y, state, left),
               state = "completed" => claimRef = proc[y].oid /\ At(y, "stored")
        PROVE  Attributed'
    <3>1. /\ claimRef' = Len(commits) + 1 /\ commits'[claimRef'].by = Home[y]
          /\ commits'[claimRef'].state = state
      BY <2>3, PushEffect DEF PushClaim
    <3>2. \A x \in Process : proc'[x].pc \in {"publishing", "stored"} => proc'[x].oid # claimRef'
      BY <1>1, <1>4, <2>1, <3>1
    <3>3. Completed(claimRef)' => results[resultRef] = Home[y]
      BY <2>3, <3>1 DEF Attributed, Completed, At
    <3> QED  BY <1>7, <3>1, <3>2, <3>3 DEF Attributed
  <2>4. CASE claimRef' = 0
    <3>1. \A x \in Process : proc'[x].pc \in {"publishing", "stored"} => proc'[x].oid # 0
      BY DEF AllFounded, Founded, Mine
    <3> QED  BY <2>4, <3>1 DEF Attributed, Completed
  <2> QED  BY <1>3, <2>2, <2>3, <2>4, ClaimRefMoves DEF Close
<1> QED  BY <1>5, <1>6, <1>7, ResultMoves

LEMMA AttributedStep ==
  ASSUME TypeOK, AllFounded, Backed, Attributed, [Next]_vars
  PROVE  Attributed'
<1>1. CommitsKept /\ ResultsKept /\ AllFounded'
  BY TypeStep, ResultsStep, FoundedStep
<1>2. ASSUME NEW y \in Process, Acts(y) PROVE Attributed'
  BY <1>1, <1>2, AttributedActor
<1>3. CASE Tick \/ UNCHANGED vars \/ \E p \in Producer : Evict(p)
  <2>1. UNCHANGED <<claimRef, results, resultRef>> /\ claimRef \in 0..Len(commits)
    BY <1>3 DEF Tick, vars, Evict, remoteVars, TypeOK
  <2>2. \A x \in Process : proc'[x].pc = proc[x].pc /\ proc'[x].oid = proc[x].oid
    BY <1>3, ProcessFacts DEF Tick, vars, Evict, ProcessState
  <2>3. Completed(claimRef)' => Completed(claimRef) /\ commits'[claimRef].by = commits[claimRef].by
    BY <1>1, <2>1, ProcessFacts DEF Completed, CommitsKept
  <2> QED  BY <2>1, <2>2, <2>3 DEF Attributed
<1> QED  BY <1>2, <1>3 DEF Next, Acts

(* A completed claim has its result at the remote, by its own producer,     *)
(* whatever is lost, repeated or delayed (git_coordination.cpp complete,    *)
(* sync).                                                                   *)
THEOREM CompletedClaimsAreBacked == Spec => []CompletedHasResult
<1>1. Init => AllFounded /\ Backed /\ Attributed
  BY DEF Init, AllFounded, Founded, Backed, Attributed, Completed, At, Idle
<1>2. TypeOK /\ AllFounded /\ [Next]_vars => AllFounded'
  BY FoundedStep
<1>3. TypeOK /\ AllFounded /\ Backed /\ [Next]_vars => Backed'
  BY BackedStep
<1>4. TypeOK /\ AllFounded /\ Backed /\ Attributed /\ [Next]_vars => Attributed'
  BY AttributedStep
<1>5. Backed /\ Attributed => CompletedHasResult
  BY DEF Backed, Attributed, CompletedHasResult
<1>6. Spec => []TypeOK
  BY ClaimsTypeCorrect
<1> QED
  BY <1>1, <1>2, <1>3, <1>4, <1>5, <1>6, PTL DEF Spec

LEMMA ImportsStep ==
  ASSUME ~Evicts, TypeOK, ImportsAreFacts, [Next]_vars
  PROVE  ImportsAreFacts' /\ \A p \in Producer : fact[p] => fact'[p]
<1>1. /\ fact \in [Producer -> BOOLEAN] /\ imported \in [Producer -> SUBSET (0..Len(results))]
      /\ ResultsKept
  BY ResultsStep DEF TypeOK
<1>2. \A p \in Producer : \A r \in imported[p] : r # 0 => results'[r] = results[r]
  BY <1>1 DEF ResultsKept
<1>3. CASE UNCHANGED <<fact, imported>>
  BY <1>2, <1>3 DEF ImportsAreFacts
<1>4. ASSUME NEW x \in Process, Import(x)
      PROVE  ImportsAreFacts' /\ \A p \in Producer : fact[p] => fact'[p]
  <2>1. Home[x] \in Producer /\ UNCHANGED results
    BY <1>4, GitAssumption DEF Import, remoteVars
  <2> DEFINE r == proc[x].result
             new == r # 0 /\ r \notin imported[Home[x]]
  <2>2. /\ fact' = [fact EXCEPT ![Home[x]] = @ \/ (new /\ results[r] \in Trusted[Home[x]])]
        /\ imported' = [imported EXCEPT ![Home[x]] = IF new THEN @ \cup {r} ELSE @]
    BY <1>4 DEF Import
  <2>3. \A p \in Producer : fact[p] => fact'[p]
    BY <1>1, <2>2
  <2>4. ASSUME NEW p \in Producer, NEW i \in imported'[p], i # 0, results[i] \in Trusted[p]
        PROVE  fact'[p]
    <3>1. CASE i \in imported[p]
      BY <2>3, <2>4, <3>1 DEF ImportsAreFacts
    <3>2. CASE i \notin imported[p]
      <4>1. p = Home[x] /\ new /\ i = r
        BY <1>1, <2>1, <2>2, <2>4, <3>2
      <4> QED  BY <1>1, <2>1, <2>2, <2>4, <4>1
    <3> QED  BY <3>1, <3>2
  <2> QED  BY <2>1, <2>3, <2>4 DEF ImportsAreFacts
<1>5. ASSUME NEW x \in Process, StoreResult(x)
      PROVE  ImportsAreFacts' /\ \A p \in Producer : fact[p] => fact'[p]
  <2>1. /\ Home[x] \in Producer /\ UNCHANGED results
        /\ fact' = [fact EXCEPT ![Home[x]] = TRUE]
        /\ imported' = [imported EXCEPT ![Home[x]] = @ \cup {proc[x].result}]
    BY <1>5, GitAssumption DEF StoreResult, remoteVars
  <2>2. \A p \in Producer : p # Home[x] => fact'[p] = fact[p] /\ imported'[p] = imported[p]
    BY <1>1, <2>1
  <2>3. fact'[Home[x]]
    BY <1>1, <2>1
  <2> QED  BY <2>1, <2>2, <2>3 DEF ImportsAreFacts
<1>6. ASSUME NEW x \in Process, Acts(x), ~Import(x), ~StoreResult(x)
      PROVE  UNCHANGED <<fact, imported>>
  BY <1>6 DEF Acts, Sync, Acquire, Step, Heartbeat, Finish, ExtractionFails, Crash,
     Retry, Observe, Prune, NothingToPrune, PruneResult, AcquireFound, AcquireOwn,
     AcquireElsewhere, AcquireFree, Claim, Found, ObserveOwn, Renew, LeaseLost,
     PublishResult, Close, catalogVars
<1>7. Tick \/ UNCHANGED vars => UNCHANGED <<fact, imported>>
  BY DEF Tick, vars, catalogVars
<1> QED  BY <1>3, <1>4, <1>5, <1>6, <1>7 DEF Next, Acts, Evict

LEMMA LearntKept ==
  ASSUME TypeOK, CommitsKept, ResultsKept, NEW x \in Process, Learnt(x),
         \A p \in Producer : fact[p] => fact'[p],
         proc'[x].pc = proc[x].pc, proc'[x].oid = proc[x].oid,
         proc'[x].result = proc[x].result, Known(x)' = Known(x)
  PROVE  Learnt(x)'
<1>1. /\ proc[x].oid \in 0..Len(commits) /\ Known(x) \in 0..Len(commits)
      /\ proc[x].result \in 0..Len(results) /\ Home[x] \in Producer
  BY ProcessFacts DEF ProcessState
<1>2. Completed(Known(x))' => Completed(Known(x))
  BY <1>1, CommitsSay DEF Completed
<1>3. Completed(proc[x].oid)' => /\ Completed(proc[x].oid)
                                 /\ commits'[proc[x].oid].by = commits[proc[x].oid].by
  BY <1>1, CommitsSay, ProcessFacts DEF Completed, CommitsKept
<1>4. proc[x].result # 0 => results'[proc[x].result] = results[proc[x].result]
  BY <1>1 DEF ResultsKept
<1> QED  BY <1>1, <1>2, <1>3, <1>4 DEF Learnt, At

LEMMA ActorLearns ==
  ASSUME TypeOK, Backed, Attributed, ImportsAreFacts, NEW x \in Process, Learnt(x),
         \A p \in Producer : fact[p] => fact'[p], Acts(x)
  PROVE  Learnt(x)'
<1>1. /\ proc \in [Process -> ProcessState] /\ proc[x] \in ProcessState
      /\ known \in [Producer -> 0..Len(commits)] /\ fact \in [Producer -> BOOLEAN]
      /\ Home[x] \in Producer
  BY ProcessFacts DEF TypeOK, ProcessState
<1> DEFINE Early == {"fetched", "observed", "imported", "acquiring"}
<1>2. ASSUME proc'[x].pc \notin Early PROVE Learnt(x)'
  BY <1>2 DEF Learnt, At
<1>3. ASSUME proc'[x].pc \in {"imported", "acquiring"}, Completed(Known(x))' => fact'[Home[x]]
      PROVE  Learnt(x)'
  BY <1>3 DEF Learnt, At
<1>4. ASSUME AfterSync(x), Completed(Known(x))' => fact'[Home[x]] PROVE Learnt(x)'
  <2>1. proc'[x].pc \in {"acquiring", "idle"}
    BY <1>1, <1>4 DEF AfterSync, Goto, Return, Idle, ProcessState
  <2> QED  BY <1>2, <1>3, <1>4, <2>1
<1>5. CASE Sync(x) \/ Acquire(x) \/ Retry(x)
  <2>1. UNCHANGED remoteVars
    BY <1>5 DEF Sync, Acquire, Retry
  <2>2. CASE \E why : Snapshot(x, why)
    <3>1. proc'[x].pc = "fetched" /\ proc'[x].oid = claimRef /\ proc'[x].result = resultRef
      BY <1>1, <2>2 DEF Snapshot
    <3> QED  BY <2>1, <3>1 DEF Learnt, At, Backed, Attributed, Completed, remoteVars
  <2>3. CASE Return(x)
    BY <1>1, <1>2, <2>3 DEF Return, Idle
  <2> QED  BY <1>5, <2>2, <2>3 DEF Sync, Acquire, Retry
<1>6. CASE Observe(x)
  <2>1. /\ At(x, "fetched") /\ UNCHANGED <<commits, results>> /\ proc'[x].pc = "observed"
        /\ proc'[x].result = proc[x].result
        /\ Known(x)' = IF Accepted(Home[x], proc[x].oid) THEN proc[x].oid ELSE 0
    BY <1>1, <1>6 DEF Observe, SetKnown, Known, remoteVars, ProcessState
  <2> QED  BY <2>1 DEF Learnt, At, Completed, Accepted
<1>7. CASE Import(x)
  <2>1. /\ At(x, "observed") /\ UNCHANGED <<commits, results, known>>
        /\ proc'[x].pc = "imported"
    BY <1>1, <1>7 DEF Import, remoteVars, ProcessState
  <2>2. ASSUME Completed(Known(x)) PROVE fact'[Home[x]]
    <3>1. proc[x].result # 0 /\ results[proc[x].result] \in Trusted[Home[x]]
      BY <2>1, <2>2 DEF Learnt
    <3>2. CASE proc[x].result \in imported[Home[x]]
      BY <1>1, <3>1, <3>2 DEF ImportsAreFacts
    <3>3. CASE proc[x].result \notin imported[Home[x]]
      BY <1>1, <1>7, <3>1, <3>3 DEF Import
    <3> QED  BY <3>2, <3>3
  <2> QED  BY <1>3, <2>1, <2>2 DEF Completed, Known
<1>8. CASE Prune(x) \/ NothingToPrune(x)
  <2>1. /\ At(x, "imported") /\ UNCHANGED <<commits, known, fact>>
        /\ AfterSync(x) \/ proc'[x].pc = "pruning"
    BY <1>1, <1>8 DEF Prune, NothingToPrune, remoteVars, catalogVars, Goto, ProcessState
  <2>2. Completed(Known(x))' => fact'[Home[x]]
    BY <2>1 DEF Learnt, At, Completed, Known
  <2> QED  BY <1>2, <1>4, <2>1, <2>2
<1>9. CASE PruneResult(x)
  <2>1. AfterSync(x) /\ Known(x)' = 0
    BY <1>1, <1>9 DEF PruneResult, SetKnown, Known
  <2> QED  BY <1>4, <2>1 DEF Completed
<1>10. CASE \/ AcquireFound(x) \/ AcquireOwn(x) \/ AcquireElsewhere(x) \/ AcquireFree(x)
            \/ Claim(x) \/ Found(x) \/ ObserveOwn(x) \/ Renew(x)
  <2>1. proc'[x].pc \in {"found", "working", "idle", "claiming", "claimed", "retrying", "beaten"}
    BY <1>1, <1>10 DEF AcquireFound, AcquireOwn, AcquireElsewhere, AcquireFree, Claim, Found,
       ObserveOwn, Renew, Goto, Return, Idle, ProcessState
  <2> QED  BY <1>2, <2>1
<1>11. CASE \/ LeaseLost(x) \/ Close(x) \/ Heartbeat(x) \/ Finish(x) \/ ExtractionFails(x)
            \/ Crash(x) \/ PublishResult(x) \/ StoreResult(x)
  <2>1. proc'[x].pc \in {"idle", "closed", "beating", "completing", "lost", "publishing", "stored"}
    BY <1>1, <1>11 DEF LeaseLost, Close, Heartbeat, Finish, ExtractionFails, Crash,
       PublishResult, StoreResult, Goto, Return, Idle, ProcessState
  <2> QED  BY <1>2, <2>1
<1> QED  BY <1>5, <1>6, <1>7, <1>8, <1>9, <1>10, <1>11 DEF Acts, Step

LEMMA LearntStep ==
  ASSUME OnePerCatalog, ~Evicts, TypeOK, Backed, Attributed, ImportsAreFacts, AllLearnt,
         [Next]_vars
  PROVE  AllLearnt'
<1>1. CommitsKept /\ ResultsKept /\ \A p \in Producer : fact[p] => fact'[p]
  BY TypeStep, ResultsStep, ImportsStep
<1> SUFFICES ASSUME NEW x \in Process PROVE Learnt(x)'
  BY DEF AllLearnt
<1>2. Learnt(x)
  BY DEF AllLearnt
<1>3. ASSUME Acts(x) PROVE Learnt(x)'
  BY <1>1, <1>2, <1>3, ActorLearns
<1>4. ASSUME NEW y \in Process, y # x, Acts(y) PROVE Learnt(x)'
  <2>1. proc'[x] = proc[x] /\ Known(x)' = Known(x)
    BY <1>4, OthersKept, KnownStays DEF Acts
  <2> QED  BY <1>1, <1>2, <2>1, LearntKept
<1>5. CASE Tick \/ UNCHANGED vars
  <2>1. UNCHANGED known
    BY <1>5 DEF Tick, vars, catalogVars
  <2>2. /\ proc'[x].pc = proc[x].pc /\ proc'[x].oid = proc[x].oid
        /\ proc'[x].result = proc[x].result
    BY <1>5, ProcessFacts DEF Tick, vars, ProcessState
  <2> QED  BY <1>1, <1>2, <2>1, <2>2, LearntKept DEF Known
<1> QED  BY <1>3, <1>4, <1>5 DEF Next, Acts, Evict

(* What FoundHasFact says of one step.                                      *)
FindsFact ==
  \A x \in Process : ~At(x, "found") /\ proc'[x].pc = "found" => fact'[Home[x]]

LEMMA FindingStep ==
  ASSUME TypeOK, AllLearnt, [Next]_vars
  PROVE  FindsFact
<1> SUFFICES ASSUME NEW x \in Process, ~At(x, "found"), proc'[x].pc = "found"
             PROVE  fact'[Home[x]]
  BY DEF FindsFact
<1>1. proc \in [Process -> ProcessState] /\ proc[x] \in ProcessState
  BY ProcessFacts DEF TypeOK, ProcessState
<1>2. CASE AcquireFound(x)
  BY <1>2 DEF AcquireFound, catalogVars, AllLearnt, Learnt, At
<1>3. ASSUME Acts(x), ~AcquireFound(x) PROVE FALSE
  <2>1. CASE \/ Sync(x) \/ Acquire(x) \/ Retry(x) \/ Observe(x) \/ Import(x) \/ Prune(x)
             \/ NothingToPrune(x) \/ PruneResult(x)
    BY <1>1, <2>1 DEF Sync, Acquire, Retry, Observe, Import, Prune, NothingToPrune, PruneResult,
       AfterSync, Snapshot, Goto, Return, Idle, ProcessState
  <2>2. CASE \/ AcquireOwn(x) \/ AcquireElsewhere(x) \/ AcquireFree(x)
             \/ Claim(x) \/ Found(x) \/ ObserveOwn(x) \/ Renew(x)
    BY <1>1, <2>2 DEF AcquireOwn, AcquireElsewhere, AcquireFree, Claim, Found,
       ObserveOwn, Renew, Goto, Return, Idle, ProcessState
  <2>3. CASE \/ LeaseLost(x) \/ Close(x) \/ Heartbeat(x) \/ Finish(x) \/ ExtractionFails(x)
             \/ Crash(x) \/ PublishResult(x) \/ StoreResult(x)
    BY <1>1, <2>3 DEF LeaseLost, Close, Heartbeat, Finish, ExtractionFails, Crash,
       PublishResult, StoreResult, Goto, Return, Idle, ProcessState
  <2> QED  BY <1>3, <2>1, <2>2, <2>3 DEF Acts, Step
<1>4. ASSUME NEW y \in Process, y # x, Acts(y) PROVE FALSE
  BY <1>4, OthersKept DEF Acts, At
<1>5. ASSUME Tick \/ UNCHANGED vars \/ \E p \in Producer : Evict(p) PROVE FALSE
  <2>1. CASE Tick
    <3>1. proc'[x].pc = proc[x].pc
      BY <1>1, <2>1 DEF Tick, ProcessState
    <3> QED  BY <3>1 DEF At
  <2>2. CASE UNCHANGED vars \/ \E p \in Producer : Evict(p)
    <3>1. UNCHANGED proc
      BY <2>2 DEF vars, Evict
    <3> QED  BY <3>1 DEF At
  <2> QED  BY <1>5, <2>1, <2>2
<1> QED  BY <1>2, <1>3, <1>4, <1>5 DEF Next, Acts

(* A worker that is told its task is completed has the fact, whichever      *)
(* producers a catalog trusts and whatever fails, if facts are not evicted  *)
(* meanwhile and one process works on each catalog (git_coordination.cpp    *)
(* sync, import_results, acquire).                                          *)
THEOREM FoundTasksHaveFacts ==
  ASSUME OnePerCatalog, ~Evicts
  PROVE  Spec => FoundHasFact
<1>1. Init => AllFounded /\ Backed /\ Attributed /\ ImportsAreFacts /\ AllLearnt
  BY DEF Init, AllFounded, Founded, Backed, Attributed, ImportsAreFacts, AllLearnt, Learnt,
     Completed, At, Idle
<1>2. TypeOK /\ AllFounded /\ [Next]_vars => AllFounded'
  BY FoundedStep
<1>3. TypeOK /\ AllFounded /\ Backed /\ [Next]_vars => Backed'
  BY BackedStep
<1>4. TypeOK /\ AllFounded /\ Backed /\ Attributed /\ [Next]_vars => Attributed'
  BY AttributedStep
<1>5. TypeOK /\ ImportsAreFacts /\ [Next]_vars => ImportsAreFacts'
  BY ImportsStep
<1>6. TypeOK /\ Backed /\ Attributed /\ ImportsAreFacts /\ AllLearnt /\ [Next]_vars => AllLearnt'
  BY LearntStep
<1>7. TypeOK /\ AllLearnt /\ [Next]_vars => [FindsFact]_vars
  BY FindingStep
<1>8. Spec => []TypeOK
  BY ClaimsTypeCorrect
<1>9. Spec => [][FindsFact]_vars
  BY <1>1, <1>2, <1>3, <1>4, <1>5, <1>6, <1>7, <1>8, PTL DEF Spec
<1> QED  BY <1>9 DEF FoundHasFact, FindsFact

-----------------------------------------------------------------------------
(* The task lease.  Claims and results are read as the lease of the task:   *)
(* a claim that moves is a lease that is granted, renewed, completed or     *)
(* forgotten, and the process that moved it says which.                     *)
Unchanging == Holder' = Holder /\ Done' = Done

LEMMA HolderKept ==
  ASSUME TypeOK, CommitsKept, UNCHANGED claimRef
  PROVE  Unchanging
<1>1. claimRef \in 0..Len(commits) /\ (claimRef # 0 => claimRef \in 1..Len(commits))
  BY ProcessFacts DEF TypeOK
<1>2. Done' = Done
  BY <1>1, CommitsSay DEF Done, Completed
<1>3. claimRef # 0 => commits'[claimRef].by = commits[claimRef].by
  BY <1>1 DEF CommitsKept
<1> QED  BY <1>2, <1>3 DEF Unchanging, Holder

LEMMA PublishedKept ==
  ASSUME TypeOK, ResultsKept, UNCHANGED resultRef
  PROVE  Published' = Published
<1>1. resultRef # 0 => resultRef \in 1..Len(results)
  BY DEF TypeOK
<1> QED  BY <1>1 DEF Published, ResultsKept

(* Nobody extracts but the holder of the claim, and it only under a claim   *)
(* that is neither completed nor past its grace.                            *)
NobodyExtracts == \A x \in Process : proc[x].pc \notin Extracting

LEMMA ExtractorsEmpty ==
  ASSUME NobodyExtracts
  PROVE  Extractors = {}
BY DEF NobodyExtracts, Extractors

LEMMA ExtractorAlone ==
  ASSUME TypeOK, AllClaimed, NEW y \in Process, proc[y].pc \in Extracting
  PROVE  Extractors = {Home[y]}
<1>1. \A x \in Process : proc[x].pc \in Extracting => Home[x] = commits[claimRef].by
  BY DEF AllClaimed, Claimed, Mine
<1> QED  BY <1>1 DEF Extractors

LEMMA NobodyElse ==
  ASSUME OnePerCatalog, TypeOK, AllClaimed, NEW y \in Process, Mine(y, claimRef)
  PROVE  \A x \in Process : x # y => proc[x].pc \notin Extracting
BY DEF AllClaimed, Claimed, Mine, OnePerCatalog

LEMMA NobodyUnder ==
  ASSUME TypeOK, AllClaimed,
         \/ claimRef = 0
         \/ Completed(claimRef)
         \/ commits[claimRef].left < -Grace
  PROVE  NobodyExtracts
<1> SUFFICES ASSUME NEW x \in Process, proc[x].pc \in Extracting PROVE FALSE
  BY DEF NobodyExtracts
<1>1. Holds(x, claimRef) /\ claimRef \in 1..Len(commits)
  BY ExtractingHolds DEF AllClaimed
<1>2. commits[claimRef].left \in Int
  BY <1>1, ClaimFacts
<1> QED  BY <1>1, <1>2, TimeFacts DEF Holds, Completed

LEMMA ExtractorsKept ==
  ASSUME \A x \in Process : proc'[x].pc \in Extracting <=> proc[x].pc \in Extracting
  PROVE  Extractors' = Extractors
BY DEF Extractors

(* What one process does to the extractors, when no other extracts.         *)
LEMMA ExtractorsOf ==
  ASSUME TypeOK, NEW y \in Process, Acts(y),
         \A x \in Process : x # y => proc[x].pc \notin Extracting
  PROVE  Extractors' = IF proc'[y].pc \in Extracting THEN {Home[y]} ELSE {}
<1>1. \A x \in Process : x # y => proc'[x].pc \notin Extracting
  BY OthersKept DEF Acts
<1> QED  BY <1>1 DEF Extractors

(* A process begins to extract in Claim and AcquireOwn, and a step that     *)
(* ends an extraction changes nothing else of the lease.                    *)
LEMMA ExtractionMoves ==
  ASSUME TypeOK, NEW y \in Process, Acts(y)
  PROVE  \/ proc'[y].pc \in Extracting <=> proc[y].pc \in Extracting
         \/ Claim(y) /\ claimRef' # claimRef
         \/ AcquireOwn(y) /\ At(y, "acquiring") /\ proc'[y].pc = "working"
         \/ /\ Finish(y) \/ ExtractionFails(y) \/ Crash(y)
            /\ proc[y].pc \in Extracting /\ proc'[y].pc \notin Extracting
<1>1. proc \in [Process -> ProcessState] /\ proc[y] \in ProcessState
  BY ProcessFacts DEF TypeOK, ProcessState
<1>2. CASE \/ Sync(y) \/ Acquire(y) \/ Retry(y) \/ Observe(y) \/ Import(y) \/ Prune(y)
           \/ NothingToPrune(y) \/ PruneResult(y)
  <2>1. proc'[y].pc \in {"fetched", "idle", "observed", "imported", "pruning", "acquiring"}
    BY <1>1, <1>2 DEF Sync, Acquire, Retry, Observe, Import, Prune, NothingToPrune,
       PruneResult, AfterSync, Snapshot, Goto, Return, Idle, ProcessState
  <2>2. proc[y].pc \in {"fetched", "idle", "observed", "imported", "pruning", "retrying"}
    BY <1>2 DEF Sync, Acquire, Retry, Observe, Import, Prune, NothingToPrune, PruneResult, At
  <2> QED  BY <2>1, <2>2 DEF Extracting
<1>3. CASE AcquireFound(y) \/ AcquireElsewhere(y) \/ AcquireFree(y) \/ Found(y)
  <2>1. proc[y].pc \in {"acquiring", "found"} /\ proc'[y].pc \in {"found", "idle", "claiming"}
    BY <1>1, <1>3 DEF AcquireFound, AcquireElsewhere, AcquireFree, Undecided, Found, At,
       Goto, Return, Idle, ProcessState
  <2> QED  BY <2>1 DEF Extracting
<1>4. CASE AcquireOwn(y)
  BY <1>1, <1>4 DEF AcquireOwn, Undecided, At, Goto, ProcessState
<1>5. CASE Claim(y)
  <2>1. CASE claimRef' # claimRef
    BY <1>5, <2>1
  <2>2. CASE claimRef' = claimRef
    <3>1. CASE \E state, left : PushClaim(y, state, left)
      <4>1. claimRef \in 0..Len(commits) /\ claimRef' = Len(commits) + 1 /\ Len(commits) \in Nat
        BY <3>1, ProcessFacts DEF PushClaim, TypeOK
      <4> QED  BY <2>2, <4>1
    <3>2. CASE ~\E state, left : PushClaim(y, state, left)
      <4>1. At(y, "claiming") /\ proc'[y].pc = "retrying"
        BY <1>1, <1>5, <3>2 DEF Claim, PushUnheard, Goto, ProcessState
      <4> QED  BY <4>1 DEF Extracting, At
    <3> QED  BY <3>1, <3>2
  <2> QED  BY <2>1, <2>2
<1>6. CASE ObserveOwn(y) \/ Renew(y) \/ Heartbeat(y)
  <2>1. \/ At(y, "closed") /\ proc'[y].pc = "idle"
        \/ proc[y].pc \in Extracting /\ proc'[y].pc \in {"working", "beating", "beaten"}
    BY <1>1, <1>6 DEF ObserveOwn, Renew, Heartbeat, At, Goto, Return, Idle, ProcessState, Extracting
  <2> QED  BY <2>1 DEF Extracting, At
<1>7. CASE Finish(y) \/ ExtractionFails(y) \/ Crash(y)
  <2>1. proc'[y].pc \in {"completing", "idle", "lost"}
    BY <1>1, <1>7 DEF Finish, ExtractionFails, Crash, Goto, Return, Idle, ProcessState
  <2> QED  BY <1>7, <2>1 DEF Extracting
<1>8. CASE LeaseLost(y) \/ PublishResult(y) \/ StoreResult(y) \/ Close(y)
  <2>1. /\ proc[y].pc \in {"completing", "publishing", "stored"}
        /\ proc'[y].pc \in {"idle", "publishing", "stored", "closed"}
    BY <1>1, <1>8 DEF LeaseLost, PublishResult, StoreResult, Close, At, Goto, Return, Idle,
       ProcessState
  <2> QED  BY <2>1 DEF Extracting
<1> QED  BY <1>2, <1>3, <1>4, <1>5, <1>6, <1>7, <1>8 DEF Acts, Step

(* The steps that move the claim ref. *)
LEMMA MoveIsLease ==
  ASSUME OnePerCatalog, TypeOK, AllFounded, AllClaimed, AllFresh, Backed, Attributed,
         CommitsKept, ResultsKept, NEW y \in Process, Acts(y), claimRef' # claimRef
  PROVE  [Task!Next]_(Task!vars)
<1>1. LeaseLeft(y) \in Int /\ Retention \in Int /\ Home[y] \in Producer
  BY ProcessFacts, GitAssumption DEF LeaseLeft, ProcessState
<1>2. proc \in [Process -> ProcessState] /\ proc[y] \in ProcessState /\ Len(commits) \in Nat
      /\ Fresh(y) /\ Claimed(y)
  <2>1. proc[y] \in ProcessState /\ Len(commits) \in Nat
    BY ProcessFacts
  <2>2. proc \in [Process -> ProcessState]
    BY DEF TypeOK, ProcessState
  <2>3. Fresh(y) /\ Claimed(y)
    BY DEF AllFresh, AllClaimed
  <2> QED  BY <2>1, <2>2, <2>3
<1>3. ASSUME NEW state \in {"processing", "completed"}, NEW left \in Int,
             PushClaim(y, state, left)
      PROVE  /\ Holder' = {Home[y]} /\ Published' = Published
             /\ Done' = (state = "completed")
  <2>1. /\ claimRef' # 0 /\ commits'[claimRef'].by = Home[y]
        /\ commits'[claimRef'].state = state /\ UNCHANGED <<results, resultRef>>
    BY <1>2, <1>3, PushEffect
  <2>2. Published' = Published
    BY <2>1, PublishedKept
  <2> QED  BY <2>1, <2>2 DEF Holder, Done, Completed
<1>4. CASE Claim(y) /\ claimRef = proc[y].oid /\ PushClaim(y, "processing", LeaseLeft(y))
  <2>1. At(y, "claiming") /\ ~Completed(claimRef)
        /\ (claimRef = 0 \/ commits[claimRef].left < -Grace)
    BY <1>2, <1>4 DEF Claim, Fresh, AllFounded, Founded, At
  <2>2. NobodyExtracts
    BY <2>1, NobodyUnder
  <2>3. Extractors = {} /\ Extractors' \in {{}, {Home[y]}}
    BY <2>2, ExtractorsEmpty, ExtractorsOf DEF NobodyExtracts
  <2>4. Holder' = {Home[y]} /\ Published' = Published /\ Done' = FALSE
    BY <1>1, <1>3, <1>4
  <2>5. Done = FALSE
    BY <2>1 DEF Done
  <2>6. Task!Grant(Home[y])
    BY <2>3, <2>4, <2>5 DEF Task!Grant
  <2> QED  BY <1>1, <2>6 DEF Task!Next
<1>5. CASE Renew(y) /\ Mine(y, claimRef) /\ PushClaim(y, "processing", LeaseLeft(y))
  <2>1. At(y, "beating") /\ proc'[y].pc \in {"beaten", "working"}
    BY <1>2, <1>5 DEF Renew, Goto, ProcessState
  <2>2. Holder = {Home[y]} /\ Done = FALSE
    BY <1>2, <1>5, <2>1 DEF Holder, Done, Mine, Claimed, Completed, Extracting, At
  <2>3. Holder' = {Home[y]} /\ Published' = Published /\ Done' = FALSE
    BY <1>1, <1>3, <1>5
  <2>4. Extractors = {Home[y]}
    BY <2>1, ExtractorAlone DEF At, Extracting
  <2>5. Extractors' = {Home[y]}
    BY <1>5, <2>1, NobodyElse, ExtractorsOf DEF Extracting
  <2>6. UNCHANGED Task!vars
    BY <2>2, <2>3, <2>4, <2>5 DEF Task!vars
  <2> QED  BY <2>6
<1>6. CASE Close(y) /\ claimRef = proc[y].oid /\ PushClaim(y, "completed", Retention)
  <2>1. At(y, "stored") /\ Mine(y, claimRef)
    BY <1>6 DEF Close, AllFounded, Founded, At
  <2>2. Done = FALSE /\ resultRef # 0 /\ results[resultRef] = Home[y]
    BY <1>2, <1>6, <2>1 DEF Done, Fresh, Completing, Backed, Attributed, At
  <2>3. NobodyExtracts
    BY <2>1, NobodyElse DEF NobodyExtracts, Extracting, At
  <2>4. proc'[y].pc \in {"closed", "idle"}
    BY <1>2, <1>6, <2>1 DEF Close, PushUnheard, PushFails, Return, Idle, ProcessState, At
  <2>5. Extractors = {} /\ Extractors' = {}
    BY <2>3, <2>4, ExtractorsEmpty, ExtractorsOf DEF NobodyExtracts, Extracting
  <2>6. Holder' = {Home[y]} /\ Published' = Published /\ Done' = TRUE
    BY <1>1, <1>3, <1>6
  <2>7. Holder = {Home[y]} /\ Published = {Home[y]}
    BY <2>1, <2>2 DEF Holder, Published, Mine
  <2>8. Task!Complete(Home[y])
    BY <2>2, <2>5, <2>6, <2>7 DEF Task!Complete
  <2> QED  BY <1>1, <2>8 DEF Task!Next
<1>7. CASE Prune(y) /\ claimRef = Known(y) /\ claimRef' = 0
  <2>1. At(y, "imported") /\ Completed(claimRef) /\ UNCHANGED <<results, resultRef>>
    BY <1>7 DEF Prune, Prunable
  <2>2. NobodyExtracts
    BY <2>1, NobodyUnder
  <2>3. proc'[y].pc \in {"pruning", "acquiring", "idle"}
    BY <1>2, <1>7 DEF Prune, AfterSync, Goto, Return, Idle, ProcessState
  <2>4. Extractors = {} /\ Extractors' = {}
    BY <2>2, <2>3, ExtractorsEmpty, ExtractorsOf DEF NobodyExtracts, Extracting
  <2>5. Holder' = {} /\ Done' = FALSE /\ Published' = Published
    BY <1>7, <2>1, PublishedKept DEF Holder, Done, Completed
  <2>6. Done = TRUE
    BY <2>1 DEF Done, Completed
  <2>7. Task!Forget
    BY <2>4, <2>5, <2>6 DEF Task!Forget
  <2> QED  BY <2>7 DEF Task!Next
<1> QED  BY <1>4, <1>5, <1>6, <1>7, ClaimRefMoves

(* The steps that leave it: results come and go, and extractions begin and  *)
(* end.                                                                     *)
LEMMA StayIsLease ==
  ASSUME OnePerCatalog, TypeOK, AllClaimed, Backed, CommitsKept, ResultsKept,
         NEW y \in Process, Acts(y), claimRef' = claimRef
  PROVE  [Task!Next]_(Task!vars)
<1>1. Unchanging /\ Home[y] \in Producer
  BY HolderKept, ProcessFacts
<1>2. proc \in [Process -> ProcessState] /\ proc[y] \in ProcessState /\ Claimed(y)
      /\ Known(y) \in 0..Len(commits)
  <2>1. proc[y] \in ProcessState /\ Known(y) \in 0..Len(commits)
    BY ProcessFacts
  <2>2. proc \in [Process -> ProcessState]
    BY DEF TypeOK, ProcessState
  <2>3. Claimed(y)
    BY DEF AllClaimed
  <2> QED  BY <2>1, <2>2, <2>3
<1>3. CASE PruneResult(y) /\ resultRef' = 0
  <2>1. At(y, "pruning") /\ proc'[y].pc \in {"acquiring", "idle"}
    BY <1>2, <1>3 DEF PruneResult, AfterSync, Goto, Return, Idle, ProcessState
  <2>2. Done = FALSE
    BY <2>1 DEF Done, Backed, NobodyPrunes
  <2>3. proc[y].pc \notin Extracting /\ proc'[y].pc \notin Extracting
    BY <2>1 DEF At, Extracting
  <2>4. Extractors' = Extractors
    <3>1. \A x \in Process : x # y => proc'[x] = proc[x]
      BY OthersKept DEF Acts
    <3> QED  BY <2>3, <3>1, ExtractorsKept
  <2>5. Published' = {}
    BY <1>3 DEF Published
  <2>6. Task!Discard
    BY <1>1, <2>2, <2>4, <2>5 DEF Task!Discard, Unchanging
  <2> QED  BY <2>6 DEF Task!Next
<1>4. CASE /\ PublishResult(y) /\ resultRef = 0
           /\ resultRef' \in 1..Len(results') /\ results'[resultRef'] = Home[y]
  <2>1. At(y, "completing") /\ proc'[y].pc \in {"publishing", "idle"}
    BY <1>2, <1>4 DEF PublishResult, Return, Idle, ProcessState
  <2>2. proc[y].pc \notin Extracting /\ proc'[y].pc \notin Extracting
    BY <2>1 DEF At, Extracting
  <2>3. Extractors' = Extractors
    <3>1. \A x \in Process : x # y => proc'[x] = proc[x]
      BY OthersKept DEF Acts
    <3> QED  BY <2>2, <3>1, ExtractorsKept
  <2>4. Published = {} /\ Published' = {Home[y]}
    BY <1>4 DEF Published
  <2>5. Task!Publish(Home[y])
    BY <1>1, <2>3, <2>4 DEF Task!Publish, Unchanging
  <2> QED  BY <1>1, <2>5 DEF Task!Next
<1>5. CASE UNCHANGED <<results, resultRef>>
  <2>1. Published' = Published
    BY <1>5, PublishedKept
  <2>2. CASE proc'[y].pc \in Extracting <=> proc[y].pc \in Extracting
    <3>1. \A x \in Process : x # y => proc'[x] = proc[x]
      BY OthersKept DEF Acts
    <3>2. Extractors' = Extractors
      BY <2>2, <3>1, ExtractorsKept
    <3>3. UNCHANGED Task!vars
      BY <1>1, <2>1, <3>2 DEF Task!vars, Unchanging
    <3> QED  BY <3>3
  <2>3. CASE AcquireOwn(y) /\ At(y, "acquiring") /\ proc'[y].pc = "working"
    <3>1. Mine(y, Known(y)) /\ InForce(Known(y)) /\ ~Completed(Known(y))
      BY <2>3 DEF AcquireOwn, Undecided
    <3>2. Known(y) \in 1..Len(commits)
      BY <1>2, <3>1 DEF Mine
    <3>3. Holds(y, Known(y))
      BY <3>1, <3>2, ClaimFacts DEF Holds, Mine, InForce, Completed
    <3>4. claimRef = Known(y)
      BY <1>2, <2>3, <3>3 DEF Claimed, Read, At
    <3>5. NobodyExtracts
      BY <2>3, <3>1, <3>4, NobodyElse DEF NobodyExtracts, Extracting, At
    <3>6. Extractors = {} /\ Extractors' = {Home[y]}
      BY <2>3, <3>5, ExtractorsEmpty, ExtractorsOf DEF NobodyExtracts, Extracting
    <3>7. Holder = {Home[y]} /\ Done = FALSE
      BY <3>1, <3>4 DEF Holder, Done, Mine
    <3>8. Task!Resume(Home[y])
      BY <1>1, <2>1, <3>6, <3>7 DEF Task!Resume, Unchanging
    <3> QED  BY <1>1, <3>8 DEF Task!Next
  <2>4. CASE proc[y].pc \in Extracting /\ proc'[y].pc \notin Extracting
    <3>1. Mine(y, claimRef)
      BY <1>2, <2>4 DEF Claimed
    <3>2. Extractors = {Home[y]} /\ Extractors' = {}
      BY <2>4, <3>1, ExtractorAlone, NobodyElse, ExtractorsOf
    <3>3. Task!Stop(Home[y])
      BY <1>1, <2>1, <3>2 DEF Task!Stop, Unchanging
    <3> QED  BY <1>1, <3>3 DEF Task!Next
  <2> QED  BY <2>2, <2>3, <2>4, ExtractionMoves
<1> QED  BY <1>3, <1>4, <1>5, ResultMoves

LEMMA LeaseStep ==
  ASSUME OnePerCatalog, TypeOK, AllFounded, AllClaimed, AllFresh, Backed, Attributed,
         [Next]_vars
  PROVE  [Task!Next]_(Task!vars)
<1>1. CommitsKept /\ ResultsKept
  BY TypeStep, ResultsStep
<1>2. ASSUME NEW y \in Process, Acts(y) PROVE [Task!Next]_(Task!vars)
  BY <1>1, <1>2, MoveIsLease, StayIsLease
<1>3. CASE Tick \/ UNCHANGED vars \/ \E p \in Producer : Evict(p)
  <2>1. UNCHANGED <<claimRef, resultRef>>
    BY <1>3 DEF Tick, vars, Evict, remoteVars
  <2>2. \A x \in Process : proc'[x].pc = proc[x].pc
    BY <1>3, ProcessFacts DEF Tick, vars, Evict, ProcessState
  <2>3. Unchanging /\ Published' = Published
    BY <1>1, <2>1, HolderKept, PublishedKept
  <2>4. Extractors' = Extractors
    BY <2>2, ExtractorsKept
  <2>5. UNCHANGED Task!vars
    BY <2>3, <2>4 DEF Task!vars, Unchanging
  <2> QED  BY <2>5
<1> QED  BY <1>2, <1>3 DEF Next, Acts

(* Claims and results implement the lease of the task, for any number of    *)
(* producers, their trust in each other, the faults and the lengths of      *)
(* lease, grace and retention, if workers beat in time and none resumes     *)
(* under a claim that is about to end (git_coordination.cpp acquire,        *)
(* heartbeat, complete, sync).                                              *)
THEOREM ImplementsTaskLease ==
  ASSUME BeatingWorkers
  PROVE  Spec /\ [][ResumeInTime]_vars => LeaseSpec
<1>1. OnePerCatalog
  BY DEF BeatingWorkers
<1>2. Init => AllFounded /\ AllClaimed /\ AllFresh
  BY DEF Init, AllFounded, Founded, AllClaimed, Claimed, AllFresh, Fresh, At, Idle, Reading,
     Extracting, Completing
<1>3. Init => Backed /\ Attributed
  BY DEF Init, Backed, Attributed, Completed, At, Idle
<1>4. Init => Task!Init
  BY DEF Init, Task!Init, Holder, Done, Extractors, Published, Completed, Idle, Extracting
<1>5. TypeOK /\ AllFounded /\ [Next]_vars => AllFounded'
  BY FoundedStep
<1>6. TypeOK /\ AllFounded /\ AllClaimed /\ [Next]_vars /\ [ResumeInTime]_vars => AllClaimed'
  BY ClaimedStep
<1>7. TypeOK /\ AllFresh /\ [Next]_vars => AllFresh'
  BY <1>1, FreshStep
<1>8. TypeOK /\ AllFounded /\ Backed /\ [Next]_vars => Backed'
  BY BackedStep
<1>9. TypeOK /\ AllFounded /\ Backed /\ Attributed /\ [Next]_vars => Attributed'
  BY AttributedStep
<1>10. TypeOK /\ AllFounded /\ AllClaimed /\ AllFresh /\ Backed /\ Attributed /\ [Next]_vars
         => [Task!Next]_(Task!vars)
  BY <1>1, LeaseStep
<1>11. Spec => []TypeOK
  BY ClaimsTypeCorrect
<1> QED
  BY <1>2, <1>3, <1>4, <1>5, <1>6, <1>7, <1>8, <1>9, <1>10, <1>11, PTL
  DEF Spec, LeaseSpec, Task!Spec
=============================================================================
