------------------------------- MODULE MCQueries -------------------------------
(***************************************************************************)
(* The query algorithms for TLC: the cases they answer.                    *)
(***************************************************************************)
EXTENDS Queries, TLC

CONSTANTS pathA, pathB, q1, q2, src, hdr
-----------------------------------------------------------------------------
(* history.plan: every history of two files and three commits, with a few  *)
(* facts, and a few histories with every three lines of facts.             *)
Trees == [Path -> 0 .. 2]
pr(p, commits, compound) ==
  [kind |-> "pr", pr |-> p, commits |-> commits, compound |-> compound]
Lines == {[kind |-> "no_pr", commits |-> {2}]}
         \cup {pr("p", C, FALSE) : C \in {{1}, {2}, {1, 2}, {2, 3}, {1, 3}}}
         \cup {pr("q", {2}, FALSE), pr("p", {2}, TRUE), pr("q", {2, 3}, TRUE)}
Empty == [p \in Path |-> 0]
Walks == {<<x, y, z>> : x, y, z \in Trees}
AsTrees(w) == [c \in 0 .. 3 |-> IF c = 0 THEN Empty ELSE w[c]]
FewWalks == {<<x, x, y>> : x \in {Empty, [Empty EXCEPT ![pathA] = 1]},
                           y \in {Empty, [Empty EXCEPT ![pathB] = 1]}}
PlanCase(w, facts) ==
  [trees |-> AsTrees(w), facts |-> facts]
PlanCases ==
  {PlanCase(w, facts) : w \in Walks, facts \in {<< >>, <<pr("p", {1, 2}, FALSE)>>}}
  \cup {PlanCase(w, facts) : w \in FewWalks, facts \in
          {f \in UNION {[1 .. n -> Lines] : n \in 0 .. 3} : ~Contradictory(f)}}

(* lineage: two elements before and up to two after, of three identities   *)
(* and two shapes, under up to two assertions.                             *)
Element(id, shape, refs) ==
  [id |-> id, name |-> id, path |-> id % 2, interface |-> shape, implementation |-> 1,
   dependency |-> 1, refs |-> refs]
Before == {<<Element(i, x, {2}), Element(3 - i, y, {3})>> : i \in 1 .. 2, x, y \in 1 .. 2}
After == {<< >>} \cup {<<Element(i, x, {3})>> : i \in 1 .. 3, x \in 1 .. 2}
         \cup {<<Element(x[1], x[2], {3}), Element(x[3], x[4], {1})>> :
                 x \in {x \in (1 .. 3) \X (1 .. 2) \X (1 .. 3) \X (1 .. 2) : x[1] # x[3]}}
Assertions == [before : 1 .. 2, after : 1 .. 3, relation : {"same_element", "not_same_element"}]
LineageCases ==
  [before : Before, after : After, assertions : UNION {[1 .. n -> Assertions] : n \in 0 .. 2}]

(* history_stats: three bundles of at most two elements.                   *)
Bundles == {<< >>} \cup {<<Element(i, x, {})>> : i \in 1 .. 3, x \in 1 .. 2}
           \cup {<<Element(i, 1, {}), Element(j, 1, {})>> : i \in {1}, j \in {2, 3}}
StatsCases ==
  [bundles : [1 .. 3 -> Bundles],
   assertions : UNION {[1 .. n -> {s \in Assertions : s.relation = "same_element"}] : n \in 0 .. 1}]

(* change evidence: one unit in one or two variants, three elements.       *)
Graphs == {<<{2}, {3}, {}>>, <<{2}, {1}, {}>>, <<{2, 3}, {3}, {}>>, <<{}, {}, {}>>, <<{3}, {3}, {1}>>}
View(context, changed, graph) ==
  [context |-> context, files |-> {hdr}, dependents |-> graph,
   elements |-> [id \in 1 .. 3 |->
     [shape |-> [interface |-> IF id \in changed THEN 1 ELSE 0, implementation |-> 0],
      at |-> IF id = 1 THEN {<<src, "definition">>}
             ELSE IF id = 2 THEN {<<src, "definition">>, <<hdr, "declaration">>} ELSE {}]]]
EvidenceCases ==
  {[before |-> [k \in v |-> View(0, {}, g)],
    after |-> [k \in v |-> View(IF k[1] \in new THEN 1 ELSE 0, changed[k[1]], g)],
    touched |-> t] :
     v \in {{<<1, 1>>}, {<<1, 1>>, <<2, 1>>}}, g \in Graphs, new \in SUBSET {1, 2},
     changed \in [1 .. 2 -> SUBSET (1 .. 3)], t \in SUBSET {src, hdr}}
-----------------------------------------------------------------------------
MCHistory == (0 :> Empty) @@ (1 :> [Empty EXCEPT ![pathA] = 1]) @@ (2 :> [Empty EXCEPT ![pathB] = 1])
MCContext ==
  LET context(id, files, tu) ==
        [id |-> id, family |-> id, tu |-> tu, files |-> files, complete |-> TRUE]
  IN (1 :> {context("c", {pathA}, "t"), context("d", {pathA}, "t")})
     @@ (2 :> {context("c", {pathB}, "t")})
MCCases == [plan |-> PlanCases, lineage |-> LineageCases, stats |-> StatsCases,
            evidence |-> EvidenceCases]
MCFacts == << >>
MCCommitTime == <<5, 3>>
MCQueryPath == [q \in Query |-> pathB]
MCSince == [q \in Query |-> 0]
MCOtherSince == (q1 :> 0) @@ (q2 :> 1)
=============================================================================
