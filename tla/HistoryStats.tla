------------------------------ MODULE HistoryStats ------------------------------
(***************************************************************************)
(* element.history_stats and file.history_stats (src/query.cpp): the       *)
(* transitions between bundles in order, counted per historical element    *)
(* and per file.  Version v is the v-th bundle, transition v leads to the  *)
(* next; an element id stands for its place in the order of ids.           *)
(***************************************************************************)
EXTENDS Lineage

CONSTANT ElementId   \* the ids of all bundles: numbers

ASSUME ElementIdAssumption == ElementId \subseteq Nat

(* What the statistics are asked of: two bundles at least.                 *)
AreBundles(bundles) ==
  /\ Len(bundles) \in Nat \ {0, 1} /\ DOMAIN bundles = 1 .. Len(bundles)
  /\ \A v \in DOMAIN bundles :
       IsBundle(bundles[v]) /\ \A i \in DOMAIN bundles[v] : bundles[v][i].id \in ElementId

Transitions(bundles, assertions) ==
  [v \in 1 .. Len(bundles) - 1 |-> Transition(bundles[v], bundles[v + 1], assertions)]

(* The facts of a transition as pairs of ids, with what was seen of them.  *)
JoinedFacts(bundles, t, v) ==
  {[before |-> f.before, after |-> bundles[v + 1][f.to].id, continuity |-> f.continuity,
    content |-> f.content, dependencies_changed |-> f.dependencies_changed,
    path |-> bundles[v][IndexOf(bundles[v], f.before)].path,
    new_path |-> bundles[v + 1][f.to].path] : f \in {f \in ToSet(t[v].facts) : f.to # 0}}

Lost(t, v) == {f.before : f \in {f \in ToSet(t[v].facts) : f.to = 0}}
Found(bundles, t, v) == {bundles[v + 1][i].id : i \in t[v].added}

\* Mutated form: the roots of the two are not looked for.
UniteUnrooted(root, x, y) == [root EXCEPT ![Max({x, y})] = Min({x, y})]

(* unite: everything under the greater root goes under the smaller.        *)
Unite(root, x, y) ==
  LET low == Min({root[x], root[y]})  high == Max({root[x], root[y]})
  IN [id \in ElementId |-> IF root[id] = high THEN low ELSE root[id]]

(* The facts of one transition, in their order; those that join unite two. *)
UniteFacts(bundles, t, v, root) ==
  LET facts == t[v].facts
      after[k \in 0 .. Len(facts)] ==
        IF k = 0 THEN root
        ELSE IF facts[k].to = 0 THEN after[k - 1]
        ELSE Unite(after[k - 1], facts[k].before, bundles[v + 1][facts[k].to].id)
  IN after[Len(facts)]

(* The historical element of each id, after all transitions.               *)
HistoryOf(bundles, t) ==
  LET after[v \in 0 .. Len(t)] ==
        IF v = 0 THEN [id \in ElementId |-> id] ELSE UniteFacts(bundles, t, v, after[v - 1])
  IN after[Len(t)]

(* The row of a historical element: the versions that have it, and the     *)
(* transitions that could be and were seen to change it.                   *)
ElementRow(bundles, t, root, h) ==
  LET versions == {v \in DOMAIN bundles : \E i \in DOMAIN bundles[v] : root[bundles[v][i].id] = h}
      facts(v) == {f \in JoinedFacts(bundles, t, v) : root[f.before] = h}
  IN [versions |-> versions,
      observable |-> {v \in versions : v + 1 \in versions},
      changed |-> {v \in DOMAIN t : \E f \in facts(v) : f.content # {}},
      interface |-> {v \in DOMAIN t : \E f \in facts(v) : "interface" \in f.content},
      dependency |-> {v \in DOMAIN t : \E f \in facts(v) : f.dependencies_changed},
      moved |-> {v \in DOMAIN t : \E f \in facts(v) : f.continuity \in {"moved", "moved_and_renamed"}},
      unresolved |-> {v \in DOMAIN t :
        \E id \in Lost(t, v) \cup Found(bundles, t, v) : root[id] = h}]

(* The row of a file: a fact counts for the paths at both of its ends.     *)
FileRow(bundles, t, path) ==
  LET facts(v) == {f \in JoinedFacts(bundles, t, v) : path \in {f.path, f.new_path}}
      pathOf(v, id) == bundles[v][IndexOf(bundles[v], id)].path
  IN [observed |-> {v \in DOMAIN t : facts(v) # {}},
      changed |-> {v \in DOMAIN t : \E f \in facts(v) :
        f.content # {} \/ f.dependencies_changed \/ f.continuity # "same"},
      unresolved |-> {v \in DOMAIN t :
        \/ \E id \in Lost(t, v) : pathOf(v, id) = path
        \/ \E id \in Found(bundles, t, v) : pathOf(v + 1, id) = path}]
-----------------------------------------------------------------------------
(* Elements are of one history exactly if a chain of joined facts links    *)
(* them, in whatever order the facts were taken; a rate is a fraction of   *)
(* transitions at both ends of which the history was observed, so that no  *)
(* gap counts; a history that is nowhere lost or found is in every bundle; *)
(* and what is seen to change an element changes a file.                   *)
HistoriesAreCounted(bundles, t, root) ==
  LET facts == UNION {JoinedFacts(bundles, t, v) : v \in DOMAIN t}
      closed == {S \in SUBSET ElementId : \A f \in facts : f.before \in S <=> f.after \in S}
      linked(x, y) == \A S \in closed : x \in S <=> y \in S
      present == UNION {{root[bundles[v][i].id] : i \in DOMAIN bundles[v]} : v \in DOMAIN bundles}
  IN /\ \A x, y \in ElementId : root[x] = root[y] <=> linked(x, y)
     /\ \A h \in present : LET r == ElementRow(bundles, t, root, h) IN
          /\ r.changed \cup r.dependency \cup r.moved \subseteq r.observable
          /\ r.unresolved = {} => r.versions = DOMAIN bundles
     /\ \A f \in facts : LET r == FileRow(bundles, t, f.new_path) IN
          /\ r.changed \subseteq r.observed
          /\ ElementRow(bundles, t, root, root[f.before]).changed # {} =>
               \E g \in facts : /\ root[g.before] = root[f.before]
                                /\ FileRow(bundles, t, g.path).changed # {}
=============================================================================
