-------------------------------- MODULE Lineage --------------------------------
(***************************************************************************)
(* trace_transition (src/lineage.cpp): what became of each element between *)
(* two bundles of snapshots.  A bundle is a sequence of elements           *)
(* [id, name, path, interface, implementation, dependency, refs] in the    *)
(* order of their extraction; an assertion is [before, after, relation].   *)
(***************************************************************************)
EXTENDS Integers, SequencesExt

CONSTANT NoElement

(* What query.cpp makes of a snapshot: every id is in it once.             *)
IsBundle(bundle) ==
  /\ bundle = [i \in 1 .. Len(bundle) |-> bundle[i]] /\ Len(bundle) \in Nat
  /\ \A i, j \in DOMAIN bundle : bundle[i].id = bundle[j].id => i = j

Continuity(b, a) ==
  CASE b.name # a.name /\ b.path # a.path -> "moved_and_renamed"
    [] b.name # a.name /\ b.path = a.path -> "renamed"
    [] b.name = a.name /\ b.path # a.path -> "moved"
    [] b.name = a.name /\ b.path = a.path -> "same"

ContentChange(b, a) == {d \in {"interface", "implementation"} : b[d] # a[d]}

Shape(e) == <<e.interface, e.implementation, e.dependency>>

(* The last accepted assertion that an element is the same as another.     *)
Asserted(assertions, id) ==
  LET own == SelectSeq(assertions, LAMBDA s : s.before = id /\ s.relation = "same_element")
  IN IF own = << >> THEN NoElement ELSE Last(own).after

Vetoed(assertions, id, to) ==
  \E i \in DOMAIN assertions :
    assertions[i] = [before |-> id, after |-> to, relation |-> "not_same_element"]

(* after_by_id: where an id is first, or 0.                                *)
IndexOf(bundle, id) ==
  LET at == {i \in DOMAIN bundle : bundle[i].id = id} IN IF at = {} THEN 0 ELSE Min(at)

\* Mutated form: an element that was taken is taken again.
SuccessorReused(after, assertions, used, b) ==
  LET asserted == IndexOf(after, Asserted(assertions, b.id)) IN
  IF asserted # 0 THEN asserted ELSE IndexOf(after, b.id)

(* The successor of an element: the asserted one, else the one of the same *)
(* id, if no element before it took that already; 0 if there is none.      *)
Successor(after, assertions, used, b) ==
  LET free(i) == IF i \in used THEN 0 ELSE i
      asserted == free(IndexOf(after, Asserted(assertions, b.id)))
  IN IF asserted # 0 THEN asserted ELSE free(IndexOf(after, b.id))

Candidates(after, assertions, used, b) ==
  {i \in DOMAIN after : /\ i \notin used /\ Shape(after[i]) = Shape(b)
                        /\ ~Vetoed(assertions, b.id, after[i].id)}

(* What becomes of each element, in the order of the bundle: the index of  *)
(* its successor, which nothing after it can take.                         *)
Successors(before, after, assertions) ==
  LET to[k \in DOMAIN before] ==
        Successor(after, assertions, {to[j] : j \in 1 .. k - 1}, before[k])
  IN to

Fact(b, after, i) ==
  IF i = 0
  THEN [before |-> b.id, to |-> 0, continuity |-> "deleted_or_unresolved",
        content |-> {}, dependencies_changed |-> FALSE]
  ELSE [before |-> b.id, to |-> i, continuity |-> Continuity(b, after[i]),
        content |-> ContentChange(b, after[i]),
        dependencies_changed |-> b.dependency # after[i].dependency]

(* What is left for a review of an element that has no successor.          *)
Suggestions(b, after, assertions, used) ==
  LET open == Candidates(after, assertions, used, b) IN
  {[before |-> b.id, to |-> j,
    confidence |-> IF Cardinality(open) = 1 THEN "high" ELSE "ambiguous"] : j \in open}

(* Relations that survive a review: an element that lives on and refers to *)
(* an added one it did not refer to, or no longer to a removed one.        *)
Relations(before, after, facts, added) ==
  LET removed == {facts[k].before : k \in {k \in DOMAIN facts : facts[k].to = 0}}
      pairs == {<<before[IndexOf(before, facts[k].before)], after[facts[k].to]>> :
                  k \in {k \in DOMAIN facts : facts[k].to # 0}}
      changed(old, new, kind, ids) ==
        {[kind |-> kind, old |-> old.id, new |-> new.id, other |-> id] : id \in ids}
  IN UNION {changed(x[1], x[2], "extract", (x[2].refs \ x[1].refs) \cap {after[j].id : j \in added})
            \cup changed(x[1], x[2], "inline", (x[1].refs \ x[2].refs) \cap removed) : x \in pairs}

(* What no element became was added.                                       *)
Transition(before, after, assertions) ==
  LET to == Successors(before, after, assertions)
      facts == [k \in DOMAIN before |-> Fact(before[k], after, to[k])]
      lost == {k \in DOMAIN before : to[k] = 0}
      added == DOMAIN after \ {to[k] : k \in DOMAIN before}
  IN [facts |-> facts, added |-> added, partial |-> lost # {},
      candidates |-> UNION {Suggestions(before[k], after, assertions, {to[j] : j \in 1 .. k - 1}) :
                              k \in lost},
      relations |-> Relations(before, after, facts, added)]
-----------------------------------------------------------------------------
(* Lineage is never joined by guessing: no element has two predecessors,   *)
(* only identity or a review joins two, a vetoed pair is not proposed, and *)
(* a transition in which an element is lost is partial.  A review is       *)
(* passed over only for a target that an earlier element took.             *)
LineageIsConservative(t, before, after, assertions) ==
  LET joined == {k \in DOMAIN t.facts : t.facts[k].to # 0}
      said(k) == IndexOf(after, Asserted(assertions, t.facts[k].before))
  IN /\ Len(t.facts) = Len(before)
     /\ \A k, l \in joined : k # l => t.facts[k].to # t.facts[l].to
     /\ t.added = DOMAIN after \ {t.facts[k].to : k \in joined}
     /\ \A k \in joined : t.facts[k].to \in {said(k), IndexOf(after, t.facts[k].before)}
     /\ \A k \in DOMAIN t.facts : said(k) # 0 =>
          t.facts[k].to = said(k) \/ \E l \in joined : l < k /\ t.facts[l].to = said(k)
     /\ \A c \in t.candidates : /\ ~Vetoed(assertions, c.before, after[c.to].id)
                                /\ c.confidence = "high" =>
                                     \A d \in t.candidates : d.before = c.before => d = c
     /\ t.partial <=> joined # DOMAIN t.facts
     /\ \A r \in t.relations : r.kind = "extract" =>
          \A k \in joined : after[t.facts[k].to].id # r.other

(* "same_element forces a lineage edge" (docs/lineage-architecture.md:77). *)
(* Not so when an element before it in the bundle has taken the asserted   *)
(* target, by its id or by an assertion of its own.                        *)
AssertionsForceEdges(before, after, assertions) ==
  \A k \in DOMAIN before :
    LET i == IndexOf(after, Asserted(assertions, before[k].id))
    IN i # 0 => Transition(before, after, assertions).facts[k].to = i
=============================================================================
