----------------------------- MODULE ChangeEvidence -----------------------------
(***************************************************************************)
(* summarize_change_evidence (src/change_evidence.cpp): where the semantic *)
(* changes between two captured revisions come from.  A revision is a      *)
(* function from views <<variant, unit>> to [context, files, elements,     *)
(* dependents]: the files are those it includes; an element is [shape, at],*)
(* the fingerprints of its dimensions and the <<path, role>> it was        *)
(* observed at; dependents[id] are the elements that refer to id.          *)
(***************************************************************************)
EXTENDS Integers, FiniteSets, SequencesExt

CONSTANTS MaxInduced, MaxDepth   \* the budget's limits

ASSUME EvidenceAssumption == {MaxInduced, MaxDepth} \subseteq Nat

(* Variants, units and elements stand for their places in the order of     *)
(* their names; what refers to an element is known to the view.            *)
IsView(view) == LET ids == DOMAIN view.dependents IN
  /\ IsFiniteSet(ids) /\ ids \subseteq Nat /\ DOMAIN view.elements \subseteq ids
  /\ \A id \in ids : view.dependents[id] \subseteq ids
AreViews(views) ==
  /\ IsFiniteSet(DOMAIN views) /\ DOMAIN views \subseteq Nat \X Nat
  /\ \A key \in DOMAIN views : IsView(views[key])

InOrder(S, earlier) ==
  CHOOSE s \in [1 .. Cardinality(S) -> S] :
    ToSet(s) = S /\ \A i, j \in DOMAIN s : i < j => <<s[i], s[j]>> \in earlier
Ids(S) == InOrder(S, {p \in S \X S : p[1] < p[2]})
Keys(S) ==
  InOrder(S, {p \in S \X S : \/ p[1][1] < p[2][1]
                             \/ p[1][1] = p[2][1] /\ p[1][2] < p[2][2]})

Dimensions(b, a) == {d \in DOMAIN a.shape : b.shape[d] # a.shape[d]}

(* A fact is emitted once for an element, an origin and a unit, until the  *)
(* cap of the transition.                                                  *)
Emit(acc, f) ==
  LET seen == <<f.id, f.origin, f.key[2]>> IN
  IF seen \in acc.emitted THEN acc
  ELSE [emitted |-> acc.emitted \cup {seen},
        capped |-> acc.capped \/ Len(acc.facts) >= MaxInduced,
        facts |-> IF Len(acc.facts) >= MaxInduced THEN acc.facts ELSE Append(acc.facts, f)]

EmitAll(acc, facts) ==
  LET after[k \in 0 .. Len(facts)] == IF k = 0 THEN acc ELSE Emit(after[k - 1], facts[k])
  IN after[Len(facts)]

Roles(view, touched, id) == {x[2] : x \in {x \in view.elements[id].at : x[1] \in touched}}

(* What the two views of a key have changed, given the paths Git touched.  *)
Changes(before, after, touched) ==
  LET common == DOMAIN before.elements \cap DOMAIN after.elements IN
  [semantic |-> {id \in common : Dimensions(before.elements[id], after.elements[id]) # {}},
   own |-> {id \in common : Roles(after, touched, id) # {}},
   declared |-> {id \in common : Roles(after, touched, id) = {"declaration"}},
   files |-> after.files \cap touched,
   context |-> before.context # after.context]

Dims(before, after, ch, id) ==
  IF id \in ch.semantic THEN Dimensions(before.elements[id], after.elements[id]) ELSE {}

(* Each semantic change, by its own source, its context or its includes.   *)
OriginOf(after, ch, id) ==
  IF id \in ch.own
  THEN IF id \in ch.declared THEN "own_declaration" ELSE "direct_source"
  ELSE IF ch.context THEN "build_configuration"
  ELSE IF ch.files # {} THEN "confirmed_induced" ELSE "unattributed_semantic_change"

ChangeFacts(key, before, after, ch) ==
  LET ids == Ids(ch.semantic)
      fact(id) ==
        [id |-> id, origin |-> OriginOf(after, ch, id), key |-> key,
         dims |-> Dims(before, after, ch, id),
         causes |-> IF id \in ch.own \/ ch.files = {} THEN {} ELSE ch.files,
         depth |-> IF OriginOf(after, ch, id) = "confirmed_induced" THEN 1 ELSE 0]
  IN [i \in DOMAIN ids |-> fact(ids[i])]

\* Mutated form: every change is propagated.
RootsOfAll(after, ch) == ch.semantic

(* Changes of an element's own and those its includes induced propagate.   *)
Roots(after, ch) ==
  {id \in ch.semantic : OriginOf(after, ch, id)
                          \in {"own_declaration", "direct_source", "confirmed_induced"}}

(* A changed include exposes every element of the unit.                    *)
ExposureFacts(key, before, after, ch) ==
  LET ids == IF ch.files = {} THEN << >> ELSE Ids(DOMAIN after.elements \ ch.own)
      fact(id) ==
        [id |-> id,
         origin |-> IF id \in ch.semantic /\ ~ch.context
                    THEN "confirmed_induced" ELSE "upstream_exposure",
         key |-> key, dims |-> IF ch.context THEN {} ELSE Dims(before, after, ch, id),
         causes |-> ch.files, depth |-> 1]
  IN [i \in DOMAIN ids |-> fact(ids[i])]

(* What a <<root, element>> pair leads to: the element's dependents, in    *)
(* their order, that the root has not visited.                             *)
Unvisited(after, x, visited) ==
  LET ids == Ids({id \in after.dependents[x[2]] : <<x[1], id>> \notin visited})
  IN [i \in DOMAIN ids |-> <<x[1], ids[i]>>]

Discover(after, level, visited) ==
  LET found[k \in 0 .. Len(level)] ==
        IF k = 0 THEN << >>
        ELSE LET prev == found[k - 1]
             IN prev \o Unvisited(after, level[k], visited \cup ToSet(prev))
  IN found[Len(level)]

(* The references, breadth first from every root: the queue holds the      *)
(* pairs of one depth after those of the one before.                       *)
Search(after, roots) ==
  LET at[d \in 0 .. MaxDepth] ==
        IF d = 0
        THEN [level |-> [i \in DOMAIN Ids(roots) |-> <<Ids(roots)[i], Ids(roots)[i]>>],
              visited |-> {}]
        ELSE LET prev == at[d - 1]
                 new == Discover(after, prev.level, prev.visited)
             IN [level |-> new, visited |-> prev.visited \cup ToSet(new)]
  IN at

PropagatedFacts(key, before, after, ch) ==
  LET at == Search(after, Roots(after, ch))
      fact(x, d) ==
        [id |-> x[2],
         origin |-> IF x[2] \in ch.semantic THEN "confirmed_induced" ELSE "upstream_exposure",
         key |-> key, dims |-> Dims(before, after, ch, x[2]), causes |-> {x[1]}, depth |-> d]
      upTo[d \in 0 .. MaxDepth] ==
        IF d = 0 THEN << >>
        ELSE LET level == at[d].level
             IN upTo[d - 1] \o [i \in DOMAIN level |-> fact(level[i], d)]
  IN upTo[MaxDepth]

FactsOf(key, before, after, touched) ==
  LET ch == Changes(before, after, touched)
  IN ChangeFacts(key, before, after, ch) \o ExposureFacts(key, before, after, ch)
       \o PropagatedFacts(key, before, after, ch)

(* The facts of the views that both revisions have, in the keys' order.    *)
Evidence(before, after, touched) ==
  LET keys == Keys(DOMAIN before \cap DOMAIN after)
      upTo[k \in 0 .. Len(keys)] ==
        IF k = 0 THEN [emitted |-> {}, facts |-> << >>, capped |-> FALSE]
        ELSE EmitAll(upTo[k - 1], FactsOf(keys[k], before[keys[k]], after[keys[k]], touched))
  IN upTo[Len(keys)]
-----------------------------------------------------------------------------
(* The elements that are 1 to m references away from an id, for every m.   *)
Within(after, id) ==
  LET reach[m \in 0 .. MaxDepth] ==
        IF m = 0 THEN {} ELSE UNION {after.dependents[d] : d \in reach[m - 1] \cup {id}}
  IN reach

(* Uncapped evidence explains every change and invents none: an element    *)
(* that changed has a fact of its origin, another at most as exposure, to  *)
(* a touched include or along at most MaxDepth references from a change    *)
(* that propagates.  A fact is as deep as the shortest way from its cause. *)
(* The variants of a unit share the facts of the first that has them.      *)
EvidenceIsSound(before, after, touched) ==
  LET e == Evidence(before, after, touched)
      facts == ToSet(e.facts)
      views == DOMAIN before \cap DOMAIN after
      ch == [view \in views |-> Changes(before[view], after[view], touched)]
      way(f, r) == Within(after[f.key], r)[f.depth] \ Within(after[f.key], r)[f.depth - 1]
  IN /\ Len(e.facts) <= MaxInduced
     /\ ~e.capped => \A view \in views : \A id \in ch[view].semantic :
          \E f \in facts : /\ f.id = id /\ f.key[2] = view[2]
                           /\ f.origin = OriginOf(after[view], ch[view], id)
     /\ \A f \in facts :
          /\ f.origin # "upstream_exposure" => f.id \in ch[f.key].semantic
          /\ f.causes # {} /\ f.causes \cap touched = {} =>
               /\ f.depth \in 1 .. MaxDepth
               /\ \A r \in f.causes : f.id \in way(f, r) /\ r \in ch[f.key].semantic
                    /\ OriginOf(after[f.key], ch[f.key], r)
                          \notin {"build_configuration", "unattributed_semantic_change"}

(* "a dependent change is confirmed only by semantic fingerprints under    *)
(* the same context" (README.md:356, docs/v1-experiment.md:147).  Not so:  *)
(* propagation to dependents (269-271) does not ask for it, as that to the *)
(* includers of a changed file does (245).                                 *)
InducedOnlyInContext(before, after, touched) ==
  \A i \in DOMAIN Evidence(before, after, touched).facts :
    LET f == Evidence(before, after, touched).facts[i] IN
    f.origin = "confirmed_induced" => before[f.key].context = after[f.key].context
=============================================================================
