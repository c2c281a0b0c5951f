-------------------------------- MODULE Queries --------------------------------
(***************************************************************************)
(* The query algorithms.  They share no state, so that a behaviour is of   *)
(* one of them: commands of file.history in every order, or one of the     *)
(* others answering its cases one after the other.                         *)
(***************************************************************************)
EXTENDS FileHistory, HistoryStats, ChangeEvidence

CONSTANT Cases   \* algorithm -> what it is asked to answer

(* What a plan, a lineage, the statistics and the evidence are asked of.   *)
ASSUME CasesAssumption ==
  /\ {"plan", "lineage", "stats", "evidence"} \subseteq DOMAIN Cases
  /\ \A c \in Cases["plan"] : IsHistory(c.trees) /\ PullRequestsAreNamed(c.facts)
  /\ \A c \in Cases["lineage"] : IsBundle(c.before) /\ IsBundle(c.after)
  /\ \A c \in Cases["stats"] : AreBundles(c.bundles)
  /\ \A c \in Cases["evidence"] : AreViews(c.before) /\ AreViews(c.after)

VARIABLES focus, case

vars == <<fileHistory, focus, case>>
-----------------------------------------------------------------------------
Init ==
  /\ FileHistoryInit
  /\ focus \in {"file.history"} \cup DOMAIN Cases
  /\ case = None

Answer(f) ==
  focus = f /\ case = None /\ case' \in Cases[f] /\ UNCHANGED <<fileHistory, focus>>
Answered == case # None /\ case' = None /\ UNCHANGED <<fileHistory, focus>>

Next ==
  \/ focus = "file.history" /\ FileHistoryNext /\ UNCHANGED <<focus, case>>
  \/ \E f \in DOMAIN Cases : Answer(f)
  \/ Answered

Spec == Init /\ [][Next]_vars

On(f) == focus = f /\ case # None
-----------------------------------------------------------------------------
TypeOK == FileHistoryTypeOK

(* See PlanIsFaithful.                                                     *)
PlansAreFaithful ==
  On("plan") => \A start \in DOMAIN case.trees :
    PlanIsFaithful(PlanOf(case.trees, case.facts, start).units, case.trees, case.facts, start)

(* See EndpointsExist.                                                     *)
HistoriesFollowTheFile ==
  On("plan") => \A p \in Path :
    EndpointsExist(Walk(PlanOf(case.trees, case.facts, 0).units, p), case.trees, p)

(* See LineageIsConservative.                                              *)
LineagesAreConservative ==
  On("lineage") =>
    LineageIsConservative(Transition(case.before, case.after, case.assertions),
                          case.before, case.after, case.assertions)

(* See HistoriesAreCounted.                                                *)
StatisticsAreCounted ==
  On("stats") =>
    LET t == Transitions(case.bundles, case.assertions)
    IN HistoriesAreCounted(case.bundles, t, HistoryOf(case.bundles, t))

(* See EvidenceIsSound.                                                    *)
EvidencesAreSound ==
  On("evidence") => EvidenceIsSound(case.before, case.after, case.touched)

(* See InducedOnlyInContext.                                               *)
InducedUnderSameContext ==
  On("evidence") => InducedOnlyInContext(case.before, case.after, case.touched)

(* See AssertionsForceEdges.                                               *)
AcceptedAssertionsForceEdges ==
  On("lineage") => AssertionsForceEdges(case.before, case.after, case.assertions)
=============================================================================
