------------------------------ MODULE HistoryPlan ------------------------------
(***************************************************************************)
(* history.plan (src/history_plan.cpp): the commits of a first-parent walk *)
(* grouped into integration units by the pull requests they belong to.     *)
(* A commit is its position in the walk; trees[c] is what it contains and  *)
(* 0 is the revision before the first.  A fact is a line of the PR facts:  *)
(* [kind |-> "no_pr", commits] or [kind |-> "pr", pr, commits, compound].  *)
(***************************************************************************)
EXTENDS Integers, SequencesExt

CONSTANTS
  Path,
  SourcePath,  \* those with the suffix of a source file; BuildPath alike
  BuildPath,
  Absent,      \* content of a path that a tree does not have
  None

ASSUME PathAssumption == IsFiniteSet(Path) /\ None \notin Path

(* git diff --name-status -M (external): a path that is gone and one that  *)
(* is new with the same content are a rename.                              *)
Gone(before, after) == {p \in Path : before[p] # Absent /\ after[p] = Absent}
Renames(before, after) ==
  LET alike == {x \in Gone(before, after) \X Gone(after, before) : before[x[1]] = after[x[2]]}
      oneToOne(R) == \A x, y \in R : x # y => x[1] # y[1] /\ x[2] # y[2]
      pairings == {R \in SUBSET alike : oneToOne(R)}
  IN CHOOSE R \in pairings : \A S \in pairings : Cardinality(S) <= Cardinality(R)

NetChanges(before, after) ==
  LET R == Renames(before, after)
      change(status, path, old) == [status |-> status, path |-> path, old |-> old]
  IN {change("R", x[2], x[1]) : x \in R}
     \cup {change("D", p, None) : p \in Gone(before, after) \ {x[1] : x \in R}}
     \cup {change("A", p, None) : p \in Gone(after, before) \ {x[2] : x \in R}}
     \cup {change("M", p, None) : p \in
             {p \in Path : Absent \notin {before[p], after[p]} /\ before[p] # after[p]}}

(* read_pr_facts: the lines that name a commit; a commit that is said to   *)
(* have no pull request and has one is an error.                           *)
Matches(facts, c) == {i \in DOMAIN facts : facts[i].kind = "pr" /\ c \in facts[i].commits}
NoPr(facts, c) == \E i \in DOMAIN facts : facts[i].kind = "no_pr" /\ c \in facts[i].commits

GroupingStatus(facts, c) ==
  LET m == Matches(facts, c) IN
  IF m = {} THEN IF NoPr(facts, c) THEN "no_pr" ELSE "unknown"
  ELSE IF Cardinality(m) = 1 THEN "identified"
  ELSE IF \A i \in m : facts[i].compound THEN "compound" ELSE "ambiguous"

ExactPr(facts, c) ==
  LET m == Matches(facts, c) IN
  IF Cardinality(m) = 1 THEN facts[CHOOSE i \in m : TRUE].pr ELSE None

\* Mutated form: commits without an exact pull request are joined as well.
AddCommitLoosely(facts, units, c) ==
  IF units # << >> /\ Last(units).pr = ExactPr(facts, c)
  THEN [units EXCEPT ![Len(units)].commits = Append(@, c)]
  ELSE Append(units, [base |-> c - 1, commits |-> <<c>>, pr |-> ExactPr(facts, c),
                      status |-> GroupingStatus(facts, c)])

(* A commit extends the pending unit when both have exactly one pull       *)
(* request, the same; otherwise the pending unit is flushed.               *)
AddCommit(facts, units, c) ==
  LET pr == ExactPr(facts, c) IN
  IF units # << >> /\ pr # None /\ Last(units).pr = pr
  THEN [units EXCEPT ![Len(units)].commits = Append(@, c)]
  ELSE Append(units, [base |-> c - 1, commits |-> <<c>>, pr |-> pr,
                      status |-> GroupingStatus(facts, c)])

(* flush: the changes of a unit are those between its ends.                *)
Flush(trees, u) ==
  LET head == Last(u.commits)
      changes == NetChanges(trees[u.base], trees[head])
      touched == {ch.path : ch \in changes} \cup {ch.old : ch \in changes}
  IN [base |-> u.base, head |-> head, commits |-> u.commits, status |-> u.status, pr |-> u.pr,
      changes |-> changes, has_source |-> touched \cap SourcePath # {},
      has_build |-> touched \cap BuildPath # {}]

(* The commits after start, one after the other.                           *)
Grouped(facts, start, head) ==
  LET units[c \in start .. head] ==
        IF c = start THEN << >> ELSE AddCommit(facts, units[c - 1], c)
  IN units[head]

(* write_history_plan: the units of the commits after start, and what its  *)
(* summary counts; no plan is written from facts that contradict.          *)
PlanOf(trees, facts, start) ==
  LET head == Max(DOMAIN trees)
      grouped == Grouped(facts, start, head)
      units == [i \in DOMAIN grouped |-> Flush(trees, grouped[i])]
      named(s) == Cardinality({c \in start + 1 .. head : GroupingStatus(facts, c) = s})
  IN [units |-> units,
      counts |-> [s \in {"identified", "ambiguous", "compound", "no_pr", "unknown"} |-> named(s)],
      source_units |-> Cardinality({i \in DOMAIN units : units[i].has_source})]

(* A history is what the commits of a walk contain, from before the first. *)
IsHistory(trees) ==
  Max(DOMAIN trees) \in Nat /\ DOMAIN trees = 0 .. Max(DOMAIN trees)
PullRequestsAreNamed(facts) ==
  \A i \in DOMAIN facts : facts[i].kind = "pr" => facts[i].pr # None

Contradictory(facts) ==
  \E c \in UNION {facts[i].commits : i \in DOMAIN facts} :
    NoPr(facts, c) /\ Matches(facts, c) # {}
-----------------------------------------------------------------------------
(* What a plan promises: the units divide the walk, so that every commit   *)
(* is in one of them, in order; each starts where the one before it ended; *)
(* two commits in a row are in one unit exactly if each is in one pull     *)
(* request, the same; a path is listed if its content at the ends of the   *)
(* unit differs, whatever happened between.                                *)
PlanIsFaithful(units, trees, facts, start) ==
  LET head(i) == IF i = 0 THEN start ELSE units[i].head
      one(c) == Cardinality(Matches(facts, c)) = 1
  IN /\ head(Len(units)) = Max(DOMAIN trees)
     /\ \A i \in DOMAIN units :
          /\ units[i].base = head(i - 1) /\ units[i].base < units[i].head
          /\ units[i].commits = [k \in 1 .. units[i].head - units[i].base |-> units[i].base + k]
          /\ \A p \in Path : trees[units[i].base][p] # trees[units[i].head][p] <=>
               \E ch \in units[i].changes : p \in {ch.path, ch.old}
     /\ \A c \in start + 2 .. Max(DOMAIN trees) :
          (\E i \in DOMAIN units : {c - 1, c} \subseteq ToSet(units[i].commits))
            <=> one(c - 1) /\ one(c) /\ ExactPr(facts, c - 1) = ExactPr(facts, c)
=============================================================================
