------------------------- MODULE GitClaimsProperties -------------------------
(***************************************************************************)
(* What must be true of the claims and results that producers share.       *)
(***************************************************************************)
EXTENDS GitClaims

(* Two producers do not extract the same task at the same time: a worker   *)
(* that beats in time keeps its claim through every race of takeovers and  *)
(* stale copies (git_coordination.cpp acquire, heartbeat, publish).        *)
OneProducerExtracts ==
  \A x, y \in Process :
    proc[x].pc \in Extracting /\ proc[y].pc \in Extracting => Home[x] = Home[y]

(* An extraction under way has its claim at the remote: "Before            *)
(* extraction, a VM must atomically create the corresponding" ref          *)
(* (docs/lineage-architecture.md:130).                                     *)
ExtractionHasClaim ==
  \A x \in Process : proc[x].pc \in Extracting => Mine(x, claimRef)

(* A claim that is in force is not taken away by another producer: it      *)
(* changes hands after its lease and grace have passed, although every     *)
(* process decides on a copy (git_coordination.cpp acquire, publish).      *)
ClaimsChangeHandsWhenExpired ==
  [][claimRef # 0 /\ claimRef' # claimRef /\ ~Completed(claimRef) =>
       /\ claimRef' # 0
       /\ \/ commits'[claimRef'].by = commits[claimRef].by
          \/ commits[claimRef].left < -Grace]_vars

(* A completed claim is only ever removed, and not before its retention    *)
(* has passed: it is how other producers learn that the work is done       *)
(* (git_coordination.cpp sync, heartbeat).                                 *)
CompletedClaimStays ==
  [][Completed(claimRef) /\ claimRef' # claimRef =>
       claimRef' = 0 /\ commits[claimRef].left <= 0]_vars

(* A completed claim has its result at the remote, by the producer of the  *)
(* claim, so that whoever accepts the claim accepts the result: it is      *)
(* pushed before the claim is marked complete and removed after it, "so a  *)
(* VM crash cannot hide a published fact"                                  *)
(* (docs/lineage-architecture.md:132-133).                                 *)
CompletedHasResult ==
  Completed(claimRef) => resultRef # 0 /\ results[resultRef] = commits[claimRef].by

(* A worker that is told its task is completed has the fact in its catalog *)
(* at that moment: a task that came back because of "reschedule evicted    *)
(* cache facts" (catalog.cpp:645) gets its fact back (git_coordination.cpp *)
(* acquire, worker.cpp run_task).                                          *)
FoundHasFact ==
  [][\A x \in Process :
       ~At(x, "found") /\ proc'[x].pc = "found" => fact'[Home[x]]]_vars

(* Claims and results as the lease of a task.                              *)
Holder == IF claimRef = 0 THEN {} ELSE {commits[claimRef].by}
Done == Completed(claimRef)
Extractors == {Home[x] : x \in {y \in Process : proc[y].pc \in Extracting}}
Published == IF resultRef = 0 THEN {} ELSE {results[resultRef]}

Task == INSTANCE TaskLease WITH
  holder <- Holder, done <- Done, extracting <- Extractors, result <- Published

(* Claims and results are a lease of the task: whatever copies the          *)
(* producers decide on, only one extracts and only under its lease, a       *)
(* completion names the producer whose result is published, no completed    *)
(* task is leased again, and no lease vanishes before its completion        *)
(* (git_coordination.cpp acquire, heartbeat, complete, sync).               *)
LeaseSpec == Task!Spec

(* Every catalog with a worker gets the fact, by its own extraction or by  *)
(* another's, although the machine that extracts may be lost: "Claims      *)
(* expire and are renewed or taken over" (docs/lineage-architecture.md:131).*)
EveryoneGetsTheFact == \A x \in Worker : <>(fact[Home[x]] \/ At(x, "lost"))

(* Result refs are temporary: "removed after the completion lease expires" *)
(* (docs/investigation-model.md:24).                                       *)
ResultsAreTemporary == resultRef # 0 ~> resultRef = 0
=============================================================================
