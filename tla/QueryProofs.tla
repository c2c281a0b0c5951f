------------------------------ MODULE QueryProofs ------------------------------
(***************************************************************************)
(* What the query algorithms answer, for every history, bundle and number  *)
(* of commands.                                                            *)
(***************************************************************************)
EXTENDS Queries, FoldLemmas, SequenceTheorems

(* The domain of a bundle is that of a sequence.                           *)
LEMMA BundleDomain ==
  ASSUME NEW b, IsBundle(b)
  PROVE  Len(b) \in Nat /\ DOMAIN b = 1 .. Len(b)
BY DEF IsBundle

-----------------------------------------------------------------------------
(* Lineage.  The recursion of the successors has a solution.               *)
SuccessorsAre(to, before, after, assertions) ==
  to = [k \in DOMAIN before |->
          Successor(after, assertions, {to[j] : j \in 1 .. k - 1}, before[k])]

LEMMA SuccessorsFollow ==
  ASSUME NEW before, IsBundle(before), NEW after, NEW assertions
  PROVE  SuccessorsAre(Successors(before, after, assertions), before, after, assertions)
<1> DEFINE Next1(to, k) == Successor(after, assertions, {to[j] : j \in 1 .. k - 1}, before[k])
           G == {m \in Nat : \E to : to = [k \in 1 .. m |-> Next1(to, k)]}
<1>1. 0 \in G
  <2>1. [k \in 1 .. 0 |-> 0] = [k \in 1 .. 0 |-> Next1([l \in 1 .. 0 |-> 0], k)]
    OBVIOUS
  <2> HIDE DEF Next1
  <2> QED  BY <2>1
<1>2. ASSUME NEW m \in Nat, m \in G PROVE m + 1 \in G
  <2>1. PICK to : to = [k \in 1 .. m |-> Next1(to, k)]
    BY <1>2
  <2> DEFINE jt == [k \in 1 .. m + 1 |-> Next1(to, k)]
  <2>2. \A k \in 1 .. m : jt[k] = to[k]
    <3> HIDE DEF Next1
    <3> QED  BY <2>1
  <2>3. ASSUME NEW k \in 1 .. m + 1 PROVE {jt[j] : j \in 1 .. k - 1} = {to[j] : j \in 1 .. k - 1}
    <3>1. \A j \in 1 .. k - 1 : j \in 1 .. m
      OBVIOUS
    <3> HIDE DEF jt
    <3> QED  BY <2>2, <3>1
  <2>4. \A k \in 1 .. m + 1 : Next1(jt, k) = Next1(to, k)
    <3> HIDE DEF jt
    <3> QED  BY <2>3
  <2>5. jt = [k \in 1 .. m + 1 |-> Next1(jt, k)]
    <3> HIDE DEF Next1
    <3> QED  BY <2>4
  <2> HIDE DEF jt, Next1
  <2> QED  BY <2>5, m + 1 \in Nat
<1>3. Len(before) \in G
  <2> HIDE DEF G
  <2> QED  BY <1>1, <1>2, NumberInduction, BundleDomain
<1>4. \E to : SuccessorsAre(to, before, after, assertions)
  BY <1>3, BundleDomain DEF SuccessorsAre
<1>5. Successors(before, after, assertions) =
        CHOOSE to : SuccessorsAre(to, before, after, assertions)
  BY DEF Successors, SuccessorsAre
<1> QED  BY <1>4, <1>5

(* Where an id is: at its place, or nowhere.                               *)
LEMMA IndexIsPlace ==
  ASSUME NEW b, IsBundle(b), NEW id
  PROVE  /\ IndexOf(b, id) \in Nat
         /\ IndexOf(b, id) # 0 => IndexOf(b, id) \in DOMAIN b /\ b[IndexOf(b, id)].id = id
<1> DEFINE at == {i \in DOMAIN b : b[i].id = id}
<1>1. CASE at = {}
  BY <1>1 DEF IndexOf
<1>2. CASE at # {}
  <2>1. at \in SUBSET Nat
    BY BundleDomain
  <2>2. PICK i \in at : \A j \in at : i <= j
    BY <1>2, <2>1, LeastNumber
  <2>3. Min(at) \in at
    BY <2>2, Zenon DEF Min
  <2> QED  BY <1>2, <2>1, <2>3, BundleDomain DEF IndexOf
<1> QED  BY <1>1, <1>2

(* A successor is the asserted element or the one of the same id, and one  *)
(* that was not taken; the asserted one is passed over only when taken.    *)
LEMMA SuccessorIsFree ==
  ASSUME NEW after, IsBundle(after), NEW assertions, NEW used, NEW b
  PROVE  LET i == Successor(after, assertions, used, b)
             said == IndexOf(after, Asserted(assertions, b.id)) IN
         /\ i \in Nat
         /\ i # 0 => i \in DOMAIN after /\ i \notin used
         /\ i # 0 => i \in {said, IndexOf(after, b.id)}
         /\ said # 0 => i = said \/ said \in used
<1>1. \A id : /\ IndexOf(after, id) \in Nat
              /\ IndexOf(after, id) # 0 => IndexOf(after, id) \in DOMAIN after
  BY IndexIsPlace
<1> QED  BY <1>1 DEF Successor

(* No element has two predecessors, and the rest of what a lineage         *)
(* promises (src/lineage.cpp): for every two bundles and every review.     *)
THEOREM LineageConserved ==
  ASSUME NEW before, IsBundle(before), NEW after, IsBundle(after), NEW assertions
  PROVE  LineageIsConservative(Transition(before, after, assertions), before, after, assertions)
<1> DEFINE to == Successors(before, after, assertions)
           t == Transition(before, after, assertions)
           joined == {k \in DOMAIN t.facts : t.facts[k].to # 0}
           said(k) == IndexOf(after, Asserted(assertions, before[k].id))
           used(k) == {to[j] : j \in 1 .. k - 1}
           lost == {k \in DOMAIN before : to[k] = 0}
<1>1. /\ Len(before) \in Nat /\ DOMAIN before = 1 .. Len(before)
      /\ Len(after) \in Nat /\ DOMAIN after = 1 .. Len(after)
  BY BundleDomain
<1>2. \A k \in DOMAIN before : to[k] = Successor(after, assertions, used(k), before[k])
  BY SuccessorsFollow DEF SuccessorsAre
<1>3. \A k \in DOMAIN before :
        /\ to[k] \in Nat
        /\ to[k] # 0 => /\ to[k] \in DOMAIN after /\ to[k] \notin used(k)
                        /\ to[k] \in {said(k), IndexOf(after, before[k].id)}
        /\ said(k) # 0 => to[k] = said(k) \/ said(k) \in used(k)
  <2> SUFFICES ASSUME NEW k \in DOMAIN before
               PROVE  /\ to[k] \in Nat
                      /\ to[k] # 0 => /\ to[k] \in DOMAIN after /\ to[k] \notin used(k)
                                      /\ to[k] \in {said(k), IndexOf(after, before[k].id)}
                      /\ said(k) # 0 => to[k] = said(k) \/ said(k) \in used(k)
    OBVIOUS
  <2> DEFINE i == Successor(after, assertions, used(k), before[k])
  <2>1. /\ i \in Nat
        /\ i # 0 => i \in DOMAIN after /\ i \notin used(k)
        /\ i # 0 => i \in {said(k), IndexOf(after, before[k].id)}
        /\ said(k) # 0 => i = said(k) \/ said(k) \in used(k)
    <3> HIDE DEF to, used
    <3> QED  BY SuccessorIsFree
  <2>2. to[k] = i
    BY <1>2
  <2> HIDE DEF to, used, said, i
  <2> QED  BY <2>1, <2>2
<1>4. /\ t.facts = [k \in DOMAIN before |-> Fact(before[k], after, to[k])]
      /\ t.added = DOMAIN after \ {to[k] : k \in DOMAIN before}
      /\ t.partial <=> lost # {}
      /\ t.candidates = UNION {Suggestions(before[k], after, assertions, used(k)) : k \in lost}
      /\ t.relations = Relations(before, after, t.facts, t.added)
  <2> HIDE DEF to
  <2>1. t = [facts |-> [k \in DOMAIN before |-> Fact(before[k], after, to[k])],
             added |-> DOMAIN after \ {to[k] : k \in DOMAIN before}, partial |-> lost # {},
             candidates |-> UNION {Suggestions(before[k], after, assertions, used(k)) : k \in lost},
             relations |-> Relations(before, after, [k \in DOMAIN before |-> Fact(before[k], after, to[k])],
                                     DOMAIN after \ {to[k] : k \in DOMAIN before})]
    BY DEF Transition, to
  <2> HIDE DEF t, lost
  <2> QED  BY <2>1
<1> HIDE DEF to, t
<1>5. /\ DOMAIN t.facts = DOMAIN before /\ Len(t.facts) = Len(before)
      /\ \A k \in DOMAIN before : t.facts[k].before = before[k].id /\ t.facts[k].to = to[k]
  BY <1>1, <1>4 DEF Fact
<1>6. joined = {k \in DOMAIN before : to[k] # 0}
  BY <1>5
<1> HIDE DEF joined
<1>7. \A k, l \in joined : k # l => to[k] # to[l]
  <2>1. \A k, l \in DOMAIN before : k < l => to[k] \in used(l)
    BY <1>1
  <2>2. \A k, l \in DOMAIN before : k < l \/ l < k \/ k = l
    BY <1>1
  <2> HIDE DEF used, said
  <2> QED  BY <1>3, <1>6, <2>1, <2>2
<1>8. t.added = DOMAIN after \ {to[k] : k \in joined}
  <2>1. 0 \notin DOMAIN after
    BY <1>1
  <2>2. \A x \in DOMAIN after : x \in {to[k] : k \in joined} <=> x \in {to[k] : k \in DOMAIN before}
    BY <1>6, <2>1
  <2> QED  BY <1>4, <2>2
<1>9. \A k \in DOMAIN before : said(k) # 0 =>
        to[k] = said(k) \/ \E l \in joined : l < k /\ to[l] = said(k)
  <2> SUFFICES ASSUME NEW k \in DOMAIN before, said(k) # 0, to[k] # said(k)
               PROVE  \E l \in joined : l < k /\ to[l] = said(k)
    OBVIOUS
  <2> HIDE DEF said
  <2>1. PICK l \in 1 .. k - 1 : to[l] = said(k)
    BY <1>3
  <2>2. l \in DOMAIN before /\ l < k
    BY <1>1
  <2> QED  BY <1>6, <2>1, <2>2
<1>10. \A c \in t.candidates :
         /\ ~Vetoed(assertions, c.before, after[c.to].id)
         /\ c.confidence = "high" => \A d \in t.candidates : d.before = c.before => d = c
  <2> SUFFICES ASSUME NEW c \in t.candidates
               PROVE  /\ ~Vetoed(assertions, c.before, after[c.to].id)
                      /\ c.confidence = "high" =>
                           \A d \in t.candidates : d.before = c.before => d = c
    OBVIOUS
  <2> DEFINE open(k) == Candidates(after, assertions, used(k), before[k])
             sure(k) == IF Cardinality(open(k)) = 1 THEN "high" ELSE "ambiguous"
  <2>1. \A x \in t.candidates : \E k \in lost : \E j \in open(k) :
          x = [before |-> before[k].id, to |-> j, confidence |-> sure(k)]
    <3> HIDE DEF used
    <3> QED  BY <1>4 DEF Suggestions
  <2>2. PICK k \in lost : \E j \in open(k) :
          c = [before |-> before[k].id, to |-> j, confidence |-> sure(k)]
    BY <2>1
  <2>3. \A l : IsFiniteSet(open(l))
    <3>1. IsFiniteSet(DOMAIN after)
      BY <1>1, FS_Interval
    <3>2. \A l : open(l) \subseteq DOMAIN after
      BY DEF Candidates
    <3> QED  BY <3>1, <3>2, FS_Subset
  <2>4. ~Vetoed(assertions, c.before, after[c.to].id)
    BY <2>2 DEF Candidates
  <2>5. ASSUME c.confidence = "high", NEW d \in t.candidates, d.before = c.before
        PROVE  d = c
    <3>1. PICK l \in lost : \E i \in open(l) :
            d = [before |-> before[l].id, to |-> i, confidence |-> sure(l)]
      BY <2>1
    <3> HIDE DEF open
    <3>2. before[l].id = before[k].id
      BY <2>2, <2>5, <3>1
    <3>3. l = k
      BY <3>2 DEF IsBundle
    <3>4. Cardinality(open(k)) = 1
      BY <2>2, <2>5
    <3>5. PICK x : open(k) = {x}
      BY <2>3, <3>4, FS_Singleton
    <3> QED  BY <2>2, <3>1, <3>3, <3>5
  <2> QED  BY <2>4, <2>5
<1>11. t.partial <=> joined # DOMAIN t.facts
  BY <1>4, <1>5, <1>6
<1>12. \A r \in t.relations : r.kind = "extract" =>
         \A k \in joined : after[to[k]].id # r.other
  <2> SUFFICES ASSUME NEW r \in t.relations, r.kind = "extract", NEW k \in joined,
                      after[to[k]].id = r.other
               PROVE  FALSE
    OBVIOUS
  <2>1. r.other \in {after[j].id : j \in t.added}
    BY <1>4 DEF Relations
  <2>2. PICK j \in t.added : after[j].id = r.other
    BY <2>1
  <2>3. j \in DOMAIN after /\ to[k] \in DOMAIN after
    BY <1>3, <1>4, <1>6
  <2>4. j = to[k]
    BY <2>2, <2>3 DEF IsBundle
  <2> QED  BY <1>8, <2>4
<1>13. \A k \in joined : to[k] \in {said(k), IndexOf(after, before[k].id)}
  <2> HIDE DEF said, used
  <2> QED  BY <1>3, <1>6
<1> QED
  <2>1. joined = {k \in DOMAIN t.facts : t.facts[k].to # 0}
    BY DEF joined
  <2>2. joined \subseteq DOMAIN before
    BY <1>6
  <2> DEFINE meant(k) == IndexOf(after, Asserted(assertions, t.facts[k].before))
  <2>3. \A k \in DOMAIN before : t.facts[k].to = to[k] /\ meant(k) = said(k)
    BY <1>5
  <2> HIDE DEF joined, said, meant
  <2>4. /\ \A k, l \in joined : k # l => t.facts[k].to # t.facts[l].to
        /\ t.added = DOMAIN after \ {t.facts[k].to : k \in joined}
    BY <1>7, <1>8, <2>2, <2>3
  <2>5. \A k \in joined : t.facts[k].to \in {meant(k), IndexOf(after, t.facts[k].before)}
    BY <1>5, <1>13, <2>2, <2>3
  <2>6. \A k \in DOMAIN t.facts : meant(k) # 0 =>
          t.facts[k].to = meant(k) \/ \E l \in joined : l < k /\ t.facts[l].to = meant(k)
    BY <1>5, <1>9, <2>2, <2>3
  <2>7. \A r \in t.relations : r.kind = "extract" =>
          \A k \in joined : after[t.facts[k].to].id # r.other
    BY <1>12, <2>2, <2>3
  <2>8. Len(t.facts) = Len(before)
    BY <1>5
  <2> QED
    <3> HIDE DEF Vetoed
    <3> QED  BY <1>10, <1>11, <2>4, <2>5, <2>6, <2>7, <2>8, Zenon
             DEF LineageIsConservative, meant, joined, t

-----------------------------------------------------------------------------
(* What Git lists.  A rename joins a path that is gone and a new one of    *)
(* the same content, each once.                                            *)
LEMMA RenamesPair ==
  ASSUME NEW before, NEW after
  PROVE  \A x \in Renames(before, after) :
           /\ x \in Gone(before, after) \X Gone(after, before)
           /\ before[x[1]] = after[x[2]]
<1> DEFINE alike == {x \in Gone(before, after) \X Gone(after, before) :
                       before[x[1]] = after[x[2]]}
           oneToOne(R) == \A x, y \in R : x # y => x[1] # y[1] /\ x[2] # y[2]
           pairings == {R \in SUBSET alike : oneToOne(R)}
           size == [R \in pairings |-> Cardinality(R)]
<1>1. IsFiniteSet(alike)
  <2>1. IsFiniteSet(Gone(before, after)) /\ IsFiniteSet(Gone(after, before))
    <3>1. Gone(before, after) \in SUBSET Path /\ Gone(after, before) \in SUBSET Path
      BY DEF Gone
    <3> QED  BY <3>1, PathAssumption, FS_Subset
  <2>2. IsFiniteSet(Gone(before, after) \X Gone(after, before))
    BY <2>1, FS_Product
  <2>3. alike \in SUBSET (Gone(before, after) \X Gone(after, before))
    OBVIOUS
  <2> HIDE DEF alike
  <2> QED  BY <2>2, <2>3, FS_Subset
<1> HIDE DEF alike
<1>2. IsFiniteSet(SUBSET alike) /\ \A R \in SUBSET alike : Cardinality(R) \in Nat
  BY <1>1, FS_SUBSET, FS_Subset, FS_CardinalityType
<1>3. IsFiniteSet(pairings) /\ {} \in pairings
  <2>1. pairings \in SUBSET (SUBSET alike) /\ {} \in pairings
    OBVIOUS
  <2> HIDE DEF pairings
  <2> QED  BY <1>2, <2>1, FS_Subset
<1>4. \A R \in pairings : size[R] \in Nat /\ size[R] = Cardinality(R)
  BY <1>2
<1> HIDE DEF pairings, size
<1>5. PICK M \in pairings : \A R \in pairings : size[R] <= size[M]
  BY <1>3, <1>4, HighestRanked
<1>6. \A R \in pairings : Cardinality(R) <= Cardinality(M)
  BY <1>4, <1>5
<1>7. Renames(before, after) =
        CHOOSE R \in pairings : \A S \in pairings : Cardinality(S) <= Cardinality(R)
  BY DEF Renames, pairings, alike
<1>8. Renames(before, after) \in pairings
  BY <1>5, <1>6, <1>7
<1>9. Renames(before, after) \subseteq alike
  BY <1>8 DEF pairings
<1> QED  BY <1>9 DEF alike

(* What a listed change says of the contents at both ends.                 *)
ChangeIsReal(ch, before, after) ==
  /\ ch.status \in {"R", "D", "A", "M"}
  /\ ch.path \in Path
  /\ ch.status = "R" => /\ ch.old \in Path
                        /\ before[ch.old] # Absent /\ after[ch.old] = Absent
                        /\ before[ch.path] = Absent /\ after[ch.path] # Absent
                        /\ before[ch.old] = after[ch.path]
  /\ ch.status # "R" => ch.old = None
  /\ ch.status = "D" => before[ch.path] # Absent /\ after[ch.path] = Absent
  /\ ch.status = "A" => before[ch.path] = Absent /\ after[ch.path] # Absent
  /\ ch.status = "M" => /\ before[ch.path] # Absent /\ after[ch.path] # Absent
                        /\ before[ch.path] # after[ch.path]

LEMMA ChangesAreReal ==
  ASSUME NEW before, NEW after, NEW ch \in NetChanges(before, after)
  PROVE  ChangeIsReal(ch, before, after)
<1> DEFINE R == Renames(before, after)
<1>1. \A x \in R : /\ x[1] \in Gone(before, after) /\ x[2] \in Gone(after, before)
                   /\ before[x[1]] = after[x[2]]
  BY RenamesPair
<1>2. \/ \E x \in R : ch = [status |-> "R", path |-> x[2], old |-> x[1]]
      \/ \E p \in Gone(before, after) : ch = [status |-> "D", path |-> p, old |-> None]
      \/ \E p \in Gone(after, before) : ch = [status |-> "A", path |-> p, old |-> None]
      \/ \E p \in Path : /\ Absent \notin {before[p], after[p]} /\ before[p] # after[p]
                         /\ ch = [status |-> "M", path |-> p, old |-> None]
  <2> HIDE DEF R
  <2> QED  BY DEF NetChanges, R
<1> HIDE DEF R
<1> QED  BY <1>1, <1>2 DEF ChangeIsReal, Gone

(* A path is listed if its contents differ; no added path is the target of *)
(* a rename as well.                                                       *)
LEMMA ChangesAreListed ==
  ASSUME NEW before, NEW after
  PROVE  /\ \A p \in Path : before[p] # after[p] <=>
              \E ch \in NetChanges(before, after) : p \in {ch.path, ch.old}
         /\ \A ch, d \in NetChanges(before, after) :
              ch.path = d.path /\ ch.status = "R" => d.status # "A"
<1> DEFINE R == Renames(before, after)
           N == NetChanges(before, after)
           mod == {p \in Path : Absent \notin {before[p], after[p]} /\ before[p] # after[p]}
<1>1. N = {[status |-> "R", path |-> x[2], old |-> x[1]] : x \in R}
          \cup {[status |-> "D", path |-> p, old |-> None] :
                  p \in Gone(before, after) \ {x[1] : x \in R}}
          \cup {[status |-> "A", path |-> p, old |-> None] :
                  p \in Gone(after, before) \ {x[2] : x \in R}}
          \cup {[status |-> "M", path |-> p, old |-> None] : p \in mod}
  BY DEF NetChanges
<1>2. \A ch \in N : ChangeIsReal(ch, before, after)
  BY ChangesAreReal
<1> HIDE DEF R, N
<1>3. ASSUME NEW p \in Path, before[p] # after[p]
      PROVE  \E ch \in N : p \in {ch.path, ch.old}
  <2>1. p \in Gone(before, after) \/ p \in Gone(after, before) \/ p \in mod
    BY <1>3 DEF Gone
  <2>2. CASE p \in mod
    <3>1. [status |-> "M", path |-> p, old |-> None] \in N
      BY <1>1, <2>2
    <3> QED  BY <3>1
  <2>3. CASE p \in Gone(before, after)
    <3>1. CASE p \in {x[1] : x \in R}
      <4>1. PICK x \in R : p = x[1]
        BY <3>1
      <4>2. [status |-> "R", path |-> x[2], old |-> x[1]] \in N
        BY <1>1
      <4> QED  BY <4>1, <4>2
    <3>2. CASE p \notin {x[1] : x \in R}
      <4>1. [status |-> "D", path |-> p, old |-> None] \in N
        BY <1>1, <2>3, <3>2
      <4> QED  BY <4>1
    <3> QED  BY <3>1, <3>2
  <2>4. CASE p \in Gone(after, before)
    <3>1. CASE p \in {x[2] : x \in R}
      <4>1. PICK x \in R : p = x[2]
        BY <3>1
      <4>2. [status |-> "R", path |-> x[2], old |-> x[1]] \in N
        BY <1>1
      <4> QED  BY <4>1, <4>2
    <3>2. CASE p \notin {x[2] : x \in R}
      <4>1. [status |-> "A", path |-> p, old |-> None] \in N
        BY <1>1, <2>4, <3>2
      <4> QED  BY <4>1
    <3> QED  BY <3>1, <3>2
  <2> QED  BY <2>1, <2>2, <2>3, <2>4
<1>4. ASSUME NEW p \in Path, NEW ch \in N, p \in {ch.path, ch.old}
      PROVE  before[p] # after[p]
  BY <1>2, <1>4, PathAssumption DEF ChangeIsReal
<1>5. ASSUME NEW ch \in N, NEW d \in N, ch.path = d.path, ch.status = "R", d.status = "A"
      PROVE  FALSE
  <2>1. PICK x \in R : ch = [status |-> "R", path |-> x[2], old |-> x[1]]
    BY <1>1, <1>5
  <2>2. d.path \notin {y[2] : y \in R}
    BY <1>1, <1>5
  <2> QED  BY <1>5, <2>1, <2>2
<1> QED  BY <1>3, <1>4, <1>5 DEF N

-----------------------------------------------------------------------------
(* The walk back.  Its recursion has a solution: the path at each place    *)
(* between the units.                                                      *)
PathsAre(at, units, path) ==
  at = [i \in 1 .. Len(units) + 1 |->
          IF i > Len(units) THEN path ELSE Step(units[i], at[i + 1]).before]

LEMMA WalkFollows ==
  ASSUME NEW units, Len(units) \in Nat, NEW path
  PROVE  \E at : /\ PathsAre(at, units, path)
                 /\ Walk(units, path) = [i \in DOMAIN units |-> Step(units[i], at[i + 1])]
<1> DEFINE n == Len(units)
           Found1(at, i) == IF i > n THEN path ELSE Step(units[i], at[i + 1]).before
           G == {m \in Nat : m <= n => \E at : at = [i \in n + 1 - m .. n + 1 |-> Found1(at, i)]}
<1>1. 0 \in G
  <2>1. \A i \in n + 1 - 0 .. n + 1 : i > n
    OBVIOUS
  <2>2. [i \in n + 1 - 0 .. n + 1 |-> path] =
          [i \in n + 1 - 0 .. n + 1 |-> Found1([j \in n + 1 - 0 .. n + 1 |-> path], i)]
    BY <2>1
  <2> HIDE DEF Found1
  <2> QED  BY <2>2
<1>2. ASSUME NEW m \in Nat, m \in G PROVE m + 1 \in G
  <2> SUFFICES ASSUME m + 1 <= n
               PROVE  \E at : at = [i \in n + 1 - (m + 1) .. n + 1 |-> Found1(at, i)]
    OBVIOUS
  <2>1. PICK at : at = [i \in n + 1 - m .. n + 1 |-> Found1(at, i)]
    BY <1>2
  <2> DEFINE bt == [i \in n + 1 - (m + 1) .. n + 1 |-> Found1(at, i)]
  <2>2. ASSUME NEW i \in n + 1 - m .. n + 1 PROVE bt[i] = at[i]
    <3> HIDE DEF Found1
    <3>1. i \in n + 1 - (m + 1) .. n + 1
      OBVIOUS
    <3>2. bt[i] = Found1(at, i)
      BY <3>1
    <3>3. at[i] = Found1(at, i)
      BY <2>1
    <3> QED  BY <3>2, <3>3
  <2>3. ASSUME NEW i \in n + 1 - (m + 1) .. n + 1 PROVE Found1(bt, i) = Found1(at, i)
    <3>1. i > n \/ i + 1 \in n + 1 - m .. n + 1
      OBVIOUS
    <3> HIDE DEF bt
    <3> QED  BY <2>2, <3>1
  <2>4. bt = [i \in n + 1 - (m + 1) .. n + 1 |-> Found1(bt, i)]
    <3> HIDE DEF Found1
    <3> QED  BY <2>3
  <2> HIDE DEF bt, Found1
  <2> QED  BY <2>4
<1>3. n \in G
  <2> HIDE DEF G
  <2> QED  BY <1>1, <1>2, NumberInduction
<1>4. \E at : PathsAre(at, units, path)
  <2>1. n + 1 - n = 1
    OBVIOUS
  <2> QED  BY <1>3, <2>1 DEF PathsAre
<1>5. Walk(units, path) =
        [i \in DOMAIN units |-> Step(units[i], (CHOOSE at : PathsAre(at, units, path))[i + 1])]
  BY DEF Walk, PathsAre
<1> HIDE DEF G
<1> QED  BY <1>4, <1>5

(* What a step says of the contents of its path at both ends of a unit     *)
(* whose changes are those that Git lists between them.                    *)
StepFollows(unit, path, trees) ==
  LET s == Step(unit, path)
      before == trees[unit.base][s.before]
      after == trees[unit.head][path] IN
  /\ s.unit = unit /\ s.after = path /\ s.before \in Path
  /\ s.touched =>
       /\ s.exists_before <=> before # Absent
       /\ (~ \E ch \in unit.changes : ch.old = path) => (s.exists_after <=> after # Absent)
  /\ ~s.touched => before = after
  /\ s.before # path => before = after

LEMMA StepIsReal ==
  ASSUME NEW trees, NEW unit, NEW path \in Path,
         unit.changes = NetChanges(trees[unit.base], trees[unit.head])
  PROVE  StepFollows(unit, path, trees)
<1> DEFINE N == unit.changes
           old == trees[unit.base]
           new == trees[unit.head]
           touching == {ch \in N : path \in {ch.path, ch.old}}
           own == {ch \in touching : ch.path = path}
           renamed == {ch \in own : ch.status = "R"}
           s == Step(unit, path)
           origin == IF renamed = {} THEN path ELSE (CHOOSE ch \in renamed : TRUE).old
<1>1. /\ s.unit = unit /\ s.after = path /\ s.before = origin
      /\ s.touched <=> touching # {}
      /\ s.exists_before <=> \A ch \in own : ch.status # "A"
      /\ s.exists_after <=> \A ch \in own : ch.status # "D"
  <2>1. s = [unit |-> unit, touched |-> touching # {}, after |-> path, before |-> origin,
             exists_before |-> \A ch \in own : ch.status # "A",
             exists_after |-> \A ch \in own : ch.status # "D"]
    BY DEF Step
  <2> HIDE DEF s, origin, touching, own, renamed
  <2> QED  BY <2>1
<1>2. \A ch \in N : ChangeIsReal(ch, old, new)
  BY ChangesAreReal
<1>3. /\ \A p \in Path : old[p] # new[p] <=> \E ch \in N : p \in {ch.path, ch.old}
      /\ \A ch, d \in N : ch.path = d.path /\ ch.status = "R" => d.status # "A"
  BY ChangesAreListed
<1> HIDE DEF N, s
<1>4. /\ origin \in Path
      /\ origin # path => old[origin] = new[path]
      /\ renamed # {} => old[origin] # Absent
      /\ renamed = {} => origin = path
  <2>1. CASE renamed = {}
    BY <2>1
  <2>2. CASE renamed # {}
    <3>1. PICK ch \in renamed : origin = ch.old
      BY <2>2
    <3>2. ch \in N /\ ch.path = path /\ ch.status = "R"
      OBVIOUS
    <3> HIDE DEF origin, renamed
    <3> QED  BY <1>2, <2>2, <3>1, <3>2 DEF ChangeIsReal
  <2> QED  BY <2>1, <2>2
<1> HIDE DEF origin
<1>5. (\A ch \in own : ch.status # "A") <=> old[origin] # Absent \/ touching = {}
  <2>1. CASE renamed # {}
    <3>1. PICK ch \in renamed : TRUE
      BY <2>1
    <3> QED  BY <1>3, <1>4, <2>1, <3>1
  <2>2. CASE renamed = {}
    <3>1. \A ch \in own : ch.status = "A" => old[path] = Absent
      BY <1>2 DEF ChangeIsReal
    <3>2. \A ch \in touching : ch.path # path \/ ch.status # "A" => old[path] # Absent
      BY <1>2, <2>2, PathAssumption DEF ChangeIsReal
    <3> HIDE DEF renamed
    <3> QED  BY <1>4, <2>2, <3>1, <3>2
  <2> QED  BY <2>1, <2>2
<1>6. ASSUME touching # {}, ~ \E ch \in N : ch.old = path
      PROVE  (\A ch \in own : ch.status # "D") <=> new[path] # Absent
  BY <1>2, <1>6 DEF ChangeIsReal
<1>7. touching = {} => origin = path /\ old[path] = new[path]
  BY <1>3, <1>4
<1> HIDE DEF touching, own, renamed
<1> QED  BY <1>1, <1>4, <1>5, <1>6, <1>7 DEF N, s, StepFollows

(* Units that list what Git lists between their ends.                      *)
ListsChanges(units, trees) ==
  /\ Len(units) \in Nat /\ DOMAIN units = 1 .. Len(units)
  /\ \A i \in DOMAIN units :
       units[i].changes = NetChanges(trees[units[i].base], trees[units[i].head])

(* The path that is followed is one of the repository's all the way.       *)
LEMMA WalkIsChain ==
  ASSUME NEW trees, NEW units, ListsChanges(units, trees), NEW path \in Path
  PROVE  \E at \in [1 .. Len(units) + 1 -> Path] :
           /\ at[Len(units) + 1] = path
           /\ DOMAIN Walk(units, path) = DOMAIN units
           /\ \A i \in DOMAIN units :
                /\ Walk(units, path)[i] = Step(units[i], at[i + 1])
                /\ Step(units[i], at[i + 1]).before = at[i]
<1> DEFINE n == Len(units)
<1>1. n \in Nat /\ DOMAIN units = 1 .. n
  BY DEF ListsChanges
<1>2. PICK at : /\ PathsAre(at, units, path)
                /\ Walk(units, path) = [i \in DOMAIN units |-> Step(units[i], at[i + 1])]
  BY <1>1, WalkFollows
<1>3. /\ at = [i \in 1 .. n + 1 |-> at[i]] /\ at[n + 1] = path
      /\ \A i \in 1 .. n : at[i] = Step(units[i], at[i + 1]).before
  BY <1>1, <1>2 DEF PathsAre
<1> DEFINE G == {m \in Nat : m <= n => at[n + 1 - m] \in Path}
<1>4. 0 \in G
  BY <1>1, <1>3
<1>5. ASSUME NEW m \in Nat, m \in G PROVE m + 1 \in G
  <2> SUFFICES ASSUME m + 1 <= n PROVE at[n + 1 - (m + 1)] \in Path
    OBVIOUS
  <2> DEFINE i == n + 1 - (m + 1)
  <2>1. i \in 1 .. n /\ i + 1 = n + 1 - m
    BY <1>1
  <2>2. at[i + 1] \in Path
    BY <1>1, <1>5, <2>1
  <2> HIDE DEF i
  <2>3. Step(units[i], at[i + 1]).before \in Path
    <3>1. units[i].changes = NetChanges(trees[units[i].base], trees[units[i].head])
      BY <1>1, <2>1 DEF ListsChanges
    <3>2. StepFollows(units[i], at[i + 1], trees)
      BY <2>2, <3>1, StepIsReal
    <3> QED  BY <3>2 DEF StepFollows
  <2>4. at[i] \in Path
    BY <1>3, <2>1, <2>3
  <2> QED  BY <2>4 DEF i
<1>6. \A i \in 1 .. n + 1 : at[i] \in Path
  <2>1. Nat \subseteq G
    <3> HIDE DEF G
    <3> QED  BY <1>4, <1>5, NumberInduction
  <2> TAKE i \in 1 .. n + 1
  <2>2. n + 1 - i \in Nat /\ n + 1 - i <= n /\ n + 1 - (n + 1 - i) = i
    BY <1>1
  <2> HIDE DEF n
  <2> QED  BY <2>1, <2>2
<1> QED
  <2>1. at \in [1 .. n + 1 -> Path]
    BY <1>3, <1>6
  <2> HIDE DEF G
  <2> QED  BY <1>1, <1>2, <1>3, <2>1

(* The endpoints of a history follow the content (src/file_history.cpp),   *)
(* through any number of units and renames.                                *)
THEOREM WalkFollowsContent ==
  ASSUME NEW trees, NEW units, ListsChanges(units, trees), NEW path \in Path
  PROVE  EndpointsExist(Walk(units, path), trees, path)
<1> DEFINE n == Len(units)
           steps == Walk(units, path)
<1>1. n \in Nat /\ DOMAIN units = 1 .. n
  BY DEF ListsChanges
<1>2. PICK at \in [1 .. n + 1 -> Path] :
        /\ at[n + 1] = path
        /\ DOMAIN steps = DOMAIN units
        /\ \A i \in DOMAIN units :
             /\ steps[i] = Step(units[i], at[i + 1])
             /\ Step(units[i], at[i + 1]).before = at[i]
  BY WalkIsChain
<1>3. Len(steps) = n
  <2>1. steps = [i \in 1 .. n |-> steps[i]]
    BY <1>1 DEF Walk
  <2> QED  BY <1>1, <1>2, <2>1
<1> HIDE DEF steps, n
<1> SUFFICES ASSUME NEW i \in DOMAIN steps
             PROVE  LET s == steps[i]
                        before == trees[s.unit.base][s.before]
                        after == trees[s.unit.head][s.after]
                    IN /\ s.after = IF i = Len(steps) THEN path ELSE steps[i + 1].before
                       /\ s.touched =>
                            /\ s.exists_before <=> before # Absent
                            /\ (~ \E ch \in s.unit.changes : ch.old = s.after) =>
                                  (s.exists_after <=> after # Absent)
                       /\ ~s.touched => before = after
                       /\ s.before # s.after => before = after
  BY DEF EndpointsExist, steps
<1>4. i \in 1 .. n /\ i + 1 \in 1 .. n + 1 /\ at[i + 1] \in Path
  BY <1>1, <1>2
<1>5. units[i].changes = NetChanges(trees[units[i].base], trees[units[i].head])
  BY <1>1, <1>4 DEF ListsChanges
<1> DEFINE s == Step(units[i], at[i + 1])
           before == trees[units[i].base][s.before]
           after == trees[units[i].head][at[i + 1]]
<1>6. /\ s.unit = units[i] /\ s.after = at[i + 1]
      /\ s.touched =>
           /\ s.exists_before <=> before # Absent
           /\ (~ \E ch \in units[i].changes : ch.old = at[i + 1]) =>
                 (s.exists_after <=> after # Absent)
      /\ ~s.touched => before = after
      /\ s.before # at[i + 1] => before = after
  <2>1. StepFollows(units[i], at[i + 1], trees)
    BY <1>4, <1>5, StepIsReal
  <2> QED  BY <2>1 DEF StepFollows
<1>7. steps[i] = s
  BY <1>1, <1>2, <1>4
<1>8. at[i + 1] = IF i = Len(steps) THEN path ELSE steps[i + 1].before
  <2>1. CASE i = n
    BY <1>2, <1>3, <2>1
  <2>2. CASE i # n
    <3>1. i + 1 \in 1 .. n
      BY <1>1, <1>4, <2>2
    <3>2. steps[i + 1].before = at[i + 1]
      BY <1>1, <1>2, <3>1
    <3> QED  BY <1>3, <2>2, <3>2
  <2> QED  BY <2>1, <2>2
<1> HIDE DEF s
<1> QED  BY <1>6, <1>7, <1>8

-----------------------------------------------------------------------------
(* The plan.  Its recursion has a solution: the units after each commit.   *)
GroupsAre(units, facts, start, head) ==
  units = [c \in start .. head |->
             IF c = start THEN << >> ELSE AddCommit(facts, units[c - 1], c)]

LEMMA GroupsFollow ==
  ASSUME NEW facts, NEW start \in Nat, NEW head \in Nat, start <= head
  PROVE  \E units : GroupsAre(units, facts, start, head)
                    /\ Grouped(facts, start, head) = units[head]
<1> DEFINE Next1(units, c) == IF c = start THEN << >> ELSE AddCommit(facts, units[c - 1], c)
           G == {m \in Nat : \E units : units = [c \in start .. start + m |-> Next1(units, c)]}
<1>1. 0 \in G
  <2>1. \A c \in start .. start + 0 : c = start
    OBVIOUS
  <2>2. [c \in start .. start + 0 |-> << >>] =
          [c \in start .. start + 0 |-> Next1([d \in start .. start + 0 |-> << >>], c)]
    BY <2>1
  <2> HIDE DEF Next1
  <2> QED  BY <2>2
<1>2. ASSUME NEW m \in Nat, m \in G PROVE m + 1 \in G
  <2>1. PICK units : units = [c \in start .. start + m |-> Next1(units, c)]
    BY <1>2
  <2> DEFINE more == [c \in start .. start + (m + 1) |-> Next1(units, c)]
  <2>2. ASSUME NEW c \in start .. start + m PROVE more[c] = units[c]
    <3> HIDE DEF Next1
    <3>1. c \in start .. start + (m + 1)
      OBVIOUS
    <3>2. more[c] = Next1(units, c)
      BY <3>1
    <3>3. units[c] = Next1(units, c)
      BY <2>1
    <3> QED  BY <3>2, <3>3
  <2>3. ASSUME NEW c \in start .. start + (m + 1) PROVE Next1(more, c) = Next1(units, c)
    <3>1. c = start \/ c - 1 \in start .. start + m
      OBVIOUS
    <3> HIDE DEF more
    <3> QED  BY <2>2, <3>1
  <2>4. more = [c \in start .. start + (m + 1) |-> Next1(more, c)]
    <3> HIDE DEF Next1
    <3> QED  BY <2>3
  <2> HIDE DEF more, Next1
  <2> QED  BY <2>4, m + 1 \in Nat
<1>3. head - start \in G
  <2>1. head - start \in Nat
    OBVIOUS
  <2> HIDE DEF G
  <2> QED  BY <1>1, <1>2, <2>1, NumberInduction
<1>4. \E units : GroupsAre(units, facts, start, head)
  <2>1. start + (head - start) = head
    OBVIOUS
  <2> QED  BY <1>3, <2>1 DEF GroupsAre
<1>5. Grouped(facts, start, head) = (CHOOSE units : GroupsAre(units, facts, start, head))[head]
  BY DEF Grouped, GroupsAre
<1> QED  BY <1>4, <1>5

(* One pull request is one that has a name.                                *)
LEMMA ExactIsNamed ==
  ASSUME NEW facts, PullRequestsAreNamed(facts), NEW c
  PROVE  Cardinality(Matches(facts, c)) = 1 <=> ExactPr(facts, c) # None
<1> DEFINE m == Matches(facts, c)
<1>1. CASE Cardinality(m) = 1
  <2>1. m # {}
    BY <1>1, FS_EmptySet
  <2>2. (CHOOSE i \in m : TRUE) \in m
    BY <2>1
  <2>3. \A i \in m : i \in DOMAIN facts /\ facts[i].kind = "pr"
    BY DEF Matches
  <2> HIDE DEF m
  <2> QED  BY <1>1, <2>2, <2>3 DEF ExactPr, PullRequestsAreNamed, m
<1>2. CASE Cardinality(m) # 1
  BY <1>2 DEF ExactPr
<1> QED  BY <1>1, <1>2

(* A pending unit: consecutive commits, of one pull request.               *)
UnitEnd(u) == u.base + Len(u.commits)
UnitOf(facts) ==
  [base : Nat, commits : Seq(Nat), pr : {ExactPr(facts, c) : c \in Nat},
   status : {GroupingStatus(facts, c) : c \in Nat}]
UnitIsRun(u, facts) ==
  /\ u \in UnitOf(facts) /\ u.commits # << >>
  /\ \A k \in 1 .. Len(u.commits) : u.commits[k] = u.base + k
  /\ \A c \in u.base + 1 .. UnitEnd(u) : ExactPr(facts, c) = u.pr

(* The units divide the commits from start to c.                           *)
EndOf(units, start, i) == IF i = 0 THEN start ELSE UnitEnd(units[i])
Together(units, c) ==
  \E i \in DOMAIN units : units[i].base + 1 <= c - 1 /\ c <= UnitEnd(units[i])
UnitsDivide(units, facts, start, c) ==
  /\ units \in Seq(UnitOf(facts)) /\ EndOf(units, start, Len(units)) = c
  /\ \A i \in 1 .. Len(units) :
       /\ UnitIsRun(units[i], facts)
       /\ units[i].base = EndOf(units, start, i - 1)
       /\ start <= units[i].base /\ UnitEnd(units[i]) <= c
  /\ \A d \in start + 2 .. c :
       Together(units, d) <=> /\ ExactPr(facts, d - 1) # None
                              /\ ExactPr(facts, d - 1) = ExactPr(facts, d)

LEMMA RunIsNumbered ==
  ASSUME NEW facts, NEW u, UnitIsRun(u, facts)
  PROVE  /\ u.base \in Nat /\ u.commits \in Seq(Nat) /\ Len(u.commits) \in Nat \ {0}
         /\ UnitEnd(u) \in Nat /\ u.base < UnitEnd(u)
<1>1. u.base \in Nat /\ u.commits \in Seq(Nat) /\ Len(u.commits) \in Nat
  BY DEF UnitIsRun, UnitOf
<1>2. Len(u.commits) # 0
  BY <1>1, EmptySeq DEF UnitIsRun
<1> QED  BY <1>1, <1>2 DEF UnitEnd

(* A commit that no unit takes starts one.                                 *)
LEMMA UnitStarts ==
  ASSUME NEW facts, NEW start \in Nat, NEW c \in Nat, start <= c,
         NEW units, UnitsDivide(units, facts, start, c),
         units = << >> \/ ExactPr(facts, c + 1) = None
                       \/ units[Len(units)].pr # ExactPr(facts, c + 1),
         NEW new, new = [base |-> c, commits |-> <<c + 1>>, pr |-> ExactPr(facts, c + 1),
                         status |-> GroupingStatus(facts, c + 1)]
  PROVE  UnitsDivide(Append(units, new), facts, start, c + 1)
<1> DEFINE n == Len(units)
           more == Append(units, new)
<1>1. units \in Seq(UnitOf(facts)) /\ n \in Nat /\ DOMAIN units = 1 .. n
  BY DEF UnitsDivide
<1>2. UnitIsRun(new, facts) /\ new.base = c /\ UnitEnd(new) = c + 1
  <2>1. new \in UnitOf(facts)
    <3>1. <<c + 1>> \in Seq(Nat) /\ c + 1 \in Nat
      OBVIOUS
    <3> QED  BY <3>1 DEF UnitOf
  <2>2. Len(<<c + 1>>) = 1 /\ <<c + 1>>[1] = c + 1 /\ <<c + 1>> # << >>
    OBVIOUS
  <2>3. new.base = c /\ new.commits = <<c + 1>> /\ new.pr = ExactPr(facts, c + 1)
    OBVIOUS
  <2>4. \A d \in c + 1 .. c + 1 : d = c + 1
    OBVIOUS
  <2>5. \A k \in 1 .. 1 : k = 1
    OBVIOUS
  <2> QED  BY <2>1, <2>2, <2>3, <2>4, <2>5 DEF UnitIsRun, UnitEnd
<1>3. /\ more \in Seq(UnitOf(facts)) /\ Len(more) = n + 1 /\ DOMAIN more = 1 .. n + 1
      /\ \A i \in 1 .. n : more[i] = units[i]
      /\ more[n + 1] = new
  <2>1. new \in UnitOf(facts)
    BY <1>2 DEF UnitIsRun
  <2> QED  BY <1>1, <2>1, AppendProperties
<1> HIDE DEF more, n
<1>4. /\ \A i \in 0 .. n : EndOf(more, start, i) = EndOf(units, start, i)
      /\ EndOf(more, start, n + 1) = c + 1
  BY <1>1, <1>2, <1>3 DEF EndOf
<1>5. ASSUME NEW i \in 1 .. n + 1
      PROVE  /\ UnitIsRun(more[i], facts)
             /\ more[i].base = EndOf(more, start, i - 1)
             /\ start <= more[i].base /\ UnitEnd(more[i]) <= c + 1
  <2>1. CASE i = n + 1
    <3>1. EndOf(units, start, n) = c
      BY DEF UnitsDivide, n
    <3>2. n \in 0 .. n /\ i - 1 = n
      BY <1>1, <2>1
    <3> QED  BY <1>2, <1>3, <1>4, <2>1, <3>1, <3>2
  <2>2. CASE i \in 1 .. n
    <3>1. /\ UnitIsRun(units[i], facts)
          /\ units[i].base = EndOf(units, start, i - 1)
          /\ start <= units[i].base /\ UnitEnd(units[i]) <= c
      BY <2>2 DEF UnitsDivide, n
    <3>2. i - 1 \in 0 .. n
      BY <1>1, <2>2
    <3>3. UnitEnd(units[i]) <= c + 1
      BY <3>1, RunIsNumbered
    <3> QED  BY <1>3, <1>4, <2>2, <3>1, <3>2, <3>3
  <2> QED  BY <1>1, <2>1, <2>2
<1>6. ASSUME NEW d \in start + 2 .. c PROVE Together(more, d) <=> Together(units, d)
  <2>1. ~(c + 1 <= d - 1)
    OBVIOUS
  <2>2. \A i \in 1 .. n : i \in 1 .. n + 1
    BY <1>1
  <2>3. \A i \in 1 .. n + 1 : i \in 1 .. n \/ i = n + 1
    BY <1>1
  <2> QED  BY <1>1, <1>2, <1>3, <2>1, <2>2, <2>3 DEF Together
<1>7. ~Together(more, c + 1)
  <2>1. \A i \in 1 .. n : UnitEnd(units[i]) \in Nat /\ UnitEnd(units[i]) <= c
    BY RunIsNumbered DEF UnitsDivide, n
  <2>2. \A i \in 1 .. n + 1 : i \in 1 .. n \/ i = n + 1
    BY <1>1
  <2>3. ~(c + 1 <= (c + 1) - 1) /\ \A e \in Nat : e <= c => ~(c + 1 <= e)
    OBVIOUS
  <2> QED  BY <1>2, <1>3, <2>1, <2>2, <2>3 DEF Together
<1>8. c >= start + 1 =>
        ExactPr(facts, c) = None \/ ExactPr(facts, c) # ExactPr(facts, c + 1)
  <2> SUFFICES ASSUME c >= start + 1 
               PROVE  ExactPr(facts, c) = None \/ ExactPr(facts, c) # ExactPr(facts, c + 1)
    OBVIOUS
  <2>1. n # 0 /\ UnitEnd(units[n]) = c
    BY <1>1 DEF UnitsDivide, EndOf, n
  <2>2. UnitIsRun(units[n], facts)
    BY <1>1, <2>1 DEF UnitsDivide, n
  <2>3. units[n].base \in Nat /\ units[n].base < c
    BY <2>1, <2>2, RunIsNumbered
  <2>4. c \in units[n].base + 1 .. c
    BY <2>3
  <2>5. units[n].pr = ExactPr(facts, c)
    BY <2>1, <2>2, <2>4 DEF UnitIsRun
  <2>6. units # << >>
    BY <1>1, <2>1 DEF n
  <2> QED  BY <2>5, <2>6 DEF n
<1>9. ASSUME NEW d \in start + 2 .. c + 1
      PROVE  Together(more, d) <=> /\ ExactPr(facts, d - 1) # None
                                   /\ ExactPr(facts, d - 1) = ExactPr(facts, d)
  <2>1. CASE d = c + 1
    <3>1. d - 1 = c /\ c >= start + 1
      BY <2>1
    <3> QED  BY <1>7, <1>8, <2>1, <3>1
  <2>2. CASE d # c + 1
    <3>1. d \in start + 2 .. c
      BY <2>2
    <3> QED  BY <1>6, <3>1 DEF UnitsDivide
  <2> QED  BY <2>1, <2>2
<1> QED  BY <1>3, <1>4, <1>5, <1>9 DEF UnitsDivide, more

(* A commit of the pull request of the last unit extends that.             *)
LEMMA UnitGrows ==
  ASSUME NEW facts, NEW start \in Nat, NEW c \in Nat, start <= c,
         NEW units, UnitsDivide(units, facts, start, c),
         units # << >>, ExactPr(facts, c + 1) # None,
         units[Len(units)].pr = ExactPr(facts, c + 1),
         NEW more, more = [units EXCEPT ![Len(units)].commits = Append(@, c + 1)]
  PROVE  UnitsDivide(more, facts, start, c + 1)
<1> DEFINE n == Len(units)
           last == units[n]
           new == [last EXCEPT !.commits = Append(@, c + 1)]
<1>1. units \in Seq(UnitOf(facts)) /\ n \in Nat \ {0} /\ DOMAIN units = 1 .. n
  BY EmptySeq DEF UnitsDivide
<1>2. /\ UnitIsRun(last, facts) /\ last.base = EndOf(units, start, n - 1)
      /\ start <= last.base /\ UnitEnd(last) = c
  <2>1. n \in 1 .. n
    BY <1>1
  <2>2. /\ UnitIsRun(last, facts) /\ last.base = EndOf(units, start, n - 1)
        /\ start <= last.base
    BY <2>1 DEF UnitsDivide
  <2>3. EndOf(units, start, n) = UnitEnd(last)
    BY <1>1 DEF EndOf
  <2>4. EndOf(units, start, n) = c
    BY DEF UnitsDivide
  <2> QED  BY <2>2, <2>3, <2>4
<1>3. /\ last.base \in Nat /\ last.commits \in Seq(Nat)
      /\ Len(last.commits) \in Nat \ {0} /\ last.base < c
      /\ last.base + Len(last.commits) = c
  BY <1>2, RunIsNumbered DEF UnitEnd
<1> HIDE DEF last
<1>4. UnitIsRun(new, facts) /\ new.base = last.base /\ UnitEnd(new) = c + 1
  <2> DEFINE l == Len(last.commits)
             cs == Append(last.commits, c + 1)
  <2>1. /\ cs \in Seq(Nat) /\ cs # << >> /\ Len(cs) = l + 1
        /\ \A k \in 1 .. l : cs[k] = last.commits[k]
        /\ cs[l + 1] = c + 1
    BY <1>3, AppendProperties
  <2> HIDE DEF cs
  <2>2. last \in UnitOf(facts)
    BY <1>2 DEF UnitIsRun
  <2>3. new = [last EXCEPT !.commits = cs]
    BY DEF cs
  <2>4. /\ new \in UnitOf(facts) /\ new.base = last.base
        /\ new.commits = cs /\ new.pr = last.pr
    BY <2>1, <2>2, <2>3 DEF UnitOf
  <2> HIDE DEF new
  <2>5. UnitEnd(new) = c + 1
    <3>1. UnitEnd(new) = last.base + (l + 1)
      BY <2>1, <2>4 DEF UnitEnd
    <3>2. last.base + l = c /\ l \in Nat /\ last.base \in Nat
      BY <1>3
    <3> HIDE DEF l
    <3> QED  BY <3>1, <3>2
  <2>6. \A k \in 1 .. l + 1 : cs[k] = last.base + k
    <3>1. \A k \in 1 .. l + 1 : k \in 1 .. l \/ k = l + 1
      BY <1>3
    <3>2. \A k \in 1 .. l : last.commits[k] = last.base + k
      BY <1>2 DEF UnitIsRun
    <3>3. last.base + (l + 1) = c + 1
      BY <1>3
    <3> QED  BY <2>1, <3>1, <3>2, <3>3
  <2>7. \A d \in last.base + 1 .. c + 1 : ExactPr(facts, d) = last.pr
    <3>1. \A d \in last.base + 1 .. c + 1 : d \in last.base + 1 .. c \/ d = c + 1
      BY <1>3
    <3>2. last.pr = ExactPr(facts, c + 1)
      BY DEF last
    <3>3. \A d \in last.base + 1 .. c : ExactPr(facts, d) = last.pr
      BY <1>2 DEF UnitIsRun
    <3> QED  BY <3>1, <3>2, <3>3
  <2> QED  BY <2>1, <2>4, <2>5, <2>6, <2>7 DEF UnitIsRun
<1>5. /\ more \in Seq(UnitOf(facts)) /\ Len(more) = n /\ DOMAIN more = 1 .. n
      /\ \A i \in 1 .. n : i # n => more[i] = units[i]
      /\ more[n] = new
  <2>1. new \in UnitOf(facts)
    BY <1>4 DEF UnitIsRun
  <2>2. more = [units EXCEPT ![n] = new]
    BY DEF last
  <2>3. n \in 1 .. Len(units)
    BY <1>1
  <2> HIDE DEF new, n
  <2>4. /\ [units EXCEPT ![n] = new] \in Seq(UnitOf(facts))
        /\ Len([units EXCEPT ![n] = new]) = Len(units)
        /\ \A j \in 1 .. Len(units) :
             [units EXCEPT ![n] = new][j] = IF j = n THEN new ELSE units[j]
    BY <1>1, <2>1, <2>3, ExceptSeq
  <2> QED  BY <1>1, <2>2, <2>3, <2>4 DEF n
<1> HIDE DEF new, n
<1>6. /\ \A i \in 0 .. n - 1 : EndOf(more, start, i) = EndOf(units, start, i)
      /\ EndOf(more, start, n) = c + 1
  <2>1. \A i \in 0 .. n - 1 : i = 0 \/ (i \in 1 .. n /\ i # n)
    BY <1>1
  <2>2. \A i \in 0 .. n - 1 : EndOf(more, start, i) = EndOf(units, start, i)
    BY <1>5, <2>1 DEF EndOf
  <2>3. EndOf(more, start, n) = c + 1
    BY <1>1, <1>4, <1>5 DEF EndOf
  <2> QED  BY <2>2, <2>3
<1>7. ASSUME NEW i \in 1 .. n
      PROVE  /\ UnitIsRun(more[i], facts)
             /\ more[i].base = EndOf(more, start, i - 1)
             /\ start <= more[i].base /\ UnitEnd(more[i]) <= c + 1
  <2>1. i - 1 \in 0 .. n - 1
    BY <1>1
  <2>2. CASE i = n
    <3>1. more[i] = new /\ c + 1 <= c + 1
      BY <1>5, <2>2
    <3>2. last.base = EndOf(more, start, i - 1)
      BY <1>2, <1>6, <2>1, <2>2
    <3> QED  BY <1>2, <1>4, <3>1, <3>2
  <2>3. CASE i # n
    <3>1. /\ UnitIsRun(units[i], facts)
          /\ units[i].base = EndOf(units, start, i - 1)
          /\ start <= units[i].base /\ UnitEnd(units[i]) <= c
      BY DEF UnitsDivide, n
    <3>2. UnitEnd(units[i]) <= c + 1
      BY <3>1, RunIsNumbered
    <3> QED  BY <1>5, <1>6, <2>1, <2>3, <3>1, <3>2
  <2> QED  BY <2>2, <2>3
<1>8. ASSUME NEW d \in start + 2 .. c PROVE Together(more, d) <=> Together(units, d)
  <2>1. d <= c /\ d <= c + 1
    OBVIOUS
  <2>2. n \in 1 .. n
    BY <1>1
  <2>3. UnitEnd(units[n]) = c /\ units[n].base = more[n].base /\ UnitEnd(more[n]) = c + 1
    BY <1>2, <1>4, <1>5 DEF last
  <2> QED  BY <1>1, <1>5, <2>1, <2>2, <2>3 DEF Together
<1>9. ASSUME NEW d \in start + 2 .. c + 1
      PROVE  Together(more, d) <=> /\ ExactPr(facts, d - 1) # None
                                   /\ ExactPr(facts, d - 1) = ExactPr(facts, d)
  <2>1. CASE d = c + 1
    <3>1. c \in last.base + 1 .. c /\ d - 1 = c /\ last.base + 1 <= c /\ c + 1 <= c + 1
      BY <1>3, <2>1
    <3>2. ExactPr(facts, c) = last.pr /\ last.pr = ExactPr(facts, c + 1)
      BY <1>2, <3>1 DEF UnitIsRun, last, n
    <3>3. n \in 1 .. n
      BY <1>1
    <3>4. Together(more, c + 1)
      BY <1>4, <1>5, <2>1, <3>1, <3>3 DEF Together
    <3> QED  BY <2>1, <3>1, <3>2, <3>4
  <2>2. CASE d # c + 1
    <3>1. d \in start + 2 .. c
      BY <2>2
    <3> QED  BY <1>8, <3>1 DEF UnitsDivide
  <2> QED  BY <2>1, <2>2
<1> QED  BY <1>5, <1>6, <1>7, <1>9 DEF UnitsDivide

LEMMA AddCommitDivides ==
  ASSUME NEW facts, NEW start \in Nat, NEW c \in Nat, start <= c,
         NEW units, UnitsDivide(units, facts, start, c)
  PROVE  UnitsDivide(AddCommit(facts, units, c + 1), facts, start, c + 1)
<1> DEFINE pr == ExactPr(facts, c + 1)
           new == [base |-> c, commits |-> <<c + 1>>, pr |-> pr,
                   status |-> GroupingStatus(facts, c + 1)]
<1>1. CASE units # << >> /\ pr # None /\ Last(units).pr = pr
  <2>1. AddCommit(facts, units, c + 1) =
          [units EXCEPT ![Len(units)].commits = Append(@, c + 1)]
    BY <1>1 DEF AddCommit
  <2>2. units[Len(units)].pr = pr
    BY <1>1 DEF Last
  <2> QED  BY <1>1, <2>1, <2>2, UnitGrows
<1>2. CASE ~(units # << >> /\ pr # None /\ Last(units).pr = pr)
  <2>1. (c + 1) - 1 = c
    OBVIOUS
  <2>2. AddCommit(facts, units, c + 1) = Append(units, new)
    BY <1>2, <2>1 DEF AddCommit
  <2>3. units = << >> \/ pr = None \/ units[Len(units)].pr # pr
    BY <1>2 DEF Last
  <2> QED  BY <2>2, <2>3, UnitStarts
<1> QED  BY <1>1, <1>2

LEMMA GroupsDivide ==
  ASSUME NEW facts, NEW start \in Nat, NEW head \in Nat, start <= head
  PROVE  UnitsDivide(Grouped(facts, start, head), facts, start, head)
<1>1. PICK units : GroupsAre(units, facts, start, head)
                   /\ Grouped(facts, start, head) = units[head]
  BY GroupsFollow
<1> DEFINE G == {m \in Nat : start + m <= head => UnitsDivide(units[start + m], facts, start, start + m)}
<1>2. 0 \in G
  <2>1. units[start] = << >>
    BY <1>1 DEF GroupsAre
  <2>2. << >> \in Seq(UnitOf(facts)) /\ Len(<< >>) = 0
    OBVIOUS
  <2>3. 1 .. 0 = {} /\ start + 2 .. start = {} /\ start + 0 = start
    OBVIOUS
  <2>4. UnitsDivide(<< >>, facts, start, start)
    BY <2>2, <2>3 DEF UnitsDivide, EndOf
  <2> QED  BY <2>1, <2>3, <2>4
<1>3. ASSUME NEW m \in Nat, m \in G PROVE m + 1 \in G
  <2> SUFFICES ASSUME start + (m + 1) <= head
               PROVE  UnitsDivide(units[start + (m + 1)], facts, start, start + (m + 1))
    OBVIOUS
  <2> DEFINE c == start + m
  <2>1. /\ c \in Nat /\ start <= c /\ start + (m + 1) = c + 1
        /\ c + 1 \in start .. head /\ c + 1 # start /\ (c + 1) - 1 = c /\ c <= head
    OBVIOUS
  <2>2. UnitsDivide(units[c], facts, start, c)
    BY <1>3, <2>1
  <2> HIDE DEF c
  <2>3. units[c + 1] = AddCommit(facts, units[c], c + 1)
    BY <1>1, <2>1 DEF GroupsAre
  <2>4. UnitsDivide(AddCommit(facts, units[c], c + 1), facts, start, c + 1)
    BY <2>1, <2>2, AddCommitDivides
  <2> QED  BY <2>1, <2>3, <2>4
<1>4. head - start \in G
  <2>1. head - start \in Nat
    OBVIOUS
  <2> HIDE DEF G
  <2> QED  BY <1>2, <1>3, <2>1, NumberInduction
<1> QED  BY <1>1, <1>4

(* The plan that history.plan writes (src/history_plan.cpp) is faithful,   *)
(* for walks of any length and any pull requests.                          *)
LEMMA PlanUnits ==
  ASSUME NEW trees, IsHistory(trees), NEW facts, NEW start \in DOMAIN trees
  PROVE  LET units == PlanOf(trees, facts, start).units
             grouped == Grouped(facts, start, Max(DOMAIN trees)) IN
         /\ UnitsDivide(grouped, facts, start, Max(DOMAIN trees))
         /\ Len(units) = Len(grouped) /\ Len(units) \in Nat
         /\ DOMAIN units = 1 .. Len(units)
         /\ \A i \in DOMAIN units :
              /\ units[i].base = grouped[i].base /\ units[i].base \in DOMAIN trees
              /\ units[i].head = UnitEnd(grouped[i]) /\ units[i].head \in DOMAIN trees
              /\ units[i].base < units[i].head
              /\ units[i].commits = grouped[i].commits
              /\ units[i].changes = NetChanges(trees[units[i].base], trees[units[i].head])
<1> DEFINE head == Max(DOMAIN trees)
           grouped == Grouped(facts, start, head)
           units == PlanOf(trees, facts, start).units
<1>1. head \in Nat /\ DOMAIN trees = 0 .. head /\ start \in Nat /\ start <= head
  BY DEF IsHistory
<1>2. UnitsDivide(grouped, facts, start, head)
  BY <1>1, GroupsDivide
<1>3. units = [i \in DOMAIN grouped |-> Flush(trees, grouped[i])]
  BY DEF PlanOf
<1> HIDE DEF units, grouped, head
<1>4. grouped \in Seq(UnitOf(facts)) /\ Len(grouped) \in Nat /\ DOMAIN grouped = 1 .. Len(grouped)
  BY <1>2 DEF UnitsDivide
<1>5. Len(units) = Len(grouped) /\ DOMAIN units = 1 .. Len(grouped)
  BY <1>3, <1>4
<1>6. ASSUME NEW i \in DOMAIN units
      PROVE  /\ units[i].base = grouped[i].base /\ units[i].base \in DOMAIN trees
             /\ units[i].head = UnitEnd(grouped[i]) /\ units[i].head \in DOMAIN trees
             /\ units[i].base < units[i].head
             /\ units[i].commits = grouped[i].commits
             /\ units[i].changes = NetChanges(trees[units[i].base], trees[units[i].head])
  <2> DEFINE u == grouped[i]
  <2>1. UnitIsRun(u, facts) /\ start <= u.base /\ UnitEnd(u) <= head
    BY <1>2, <1>5 DEF UnitsDivide
  <2>2. /\ u.base \in Nat /\ Len(u.commits) \in Nat \ {0} /\ UnitEnd(u) \in Nat
        /\ u.base < UnitEnd(u)
    BY <2>1, RunIsNumbered
  <2>3. Last(u.commits) = UnitEnd(u)
    <3>1. Len(u.commits) \in 1 .. Len(u.commits)
      BY <2>2
    <3> QED  BY <2>1, <3>1 DEF Last, UnitIsRun, UnitEnd
  <2> HIDE DEF u
  <2>4. units[i] = Flush(trees, u)
    BY <1>3, <1>4, <1>5 DEF u
  <2>5. /\ units[i].base = u.base /\ units[i].head = UnitEnd(u)
        /\ units[i].commits = u.commits
        /\ units[i].changes = NetChanges(trees[u.base], trees[UnitEnd(u)])
    BY <2>3, <2>4 DEF Flush
  <2>6. u.base \in DOMAIN trees /\ UnitEnd(u) \in DOMAIN trees
    BY <1>1, <2>1, <2>2
  <2> QED  BY <2>2, <2>5, <2>6 DEF u
<1> QED  BY <1>2, <1>4, <1>5, <1>6 DEF units, grouped, head

THEOREM PlanFaithful ==
  ASSUME NEW trees, IsHistory(trees), NEW facts, PullRequestsAreNamed(facts),
         NEW start \in DOMAIN trees
  PROVE  PlanIsFaithful(PlanOf(trees, facts, start).units, trees, facts, start)
<1> DEFINE units == PlanOf(trees, facts, start).units
           head == Max(DOMAIN trees)
           grouped == Grouped(facts, start, head)
           end(i) == IF i = 0 THEN start ELSE units[i].head
           one(c) == Cardinality(Matches(facts, c)) = 1
           n == Len(units)
<1>1. /\ UnitsDivide(grouped, facts, start, head)
      /\ n = Len(grouped) /\ n \in Nat /\ DOMAIN units = 1 .. n
      /\ \A i \in DOMAIN units :
           /\ units[i].base = grouped[i].base /\ units[i].head = UnitEnd(grouped[i])
           /\ units[i].base < units[i].head
           /\ units[i].commits = grouped[i].commits
           /\ units[i].changes = NetChanges(trees[units[i].base], trees[units[i].head])
  BY PlanUnits
<1> HIDE DEF units, grouped, n
<1>2. \A i \in 0 .. n : end(i) = EndOf(grouped, start, i)
  BY <1>1 DEF EndOf
<1>3. end(n) = head
  BY <1>1, <1>2 DEF UnitsDivide
<1>4. ASSUME NEW i \in DOMAIN units
      PROVE  /\ units[i].base = end(i - 1)
             /\ units[i].commits = [k \in 1 .. units[i].head - units[i].base |-> units[i].base + k]
             /\ ToSet(units[i].commits) = units[i].base + 1 .. units[i].head
             /\ units[i].base \in Nat /\ units[i].head \in Nat
  <2>1. UnitIsRun(grouped[i], facts) /\ grouped[i].base = EndOf(grouped, start, i - 1)
    BY <1>1 DEF UnitsDivide
  <2>2. i - 1 \in 0 .. n
    BY <1>1
  <2> DEFINE u == grouped[i]  l == Len(u.commits)
  <2>3. /\ u.base \in Nat /\ u.commits \in Seq(Nat) /\ l \in Nat
        /\ UnitEnd(u) = u.base + l
        /\ \A k \in 1 .. l : u.commits[k] = u.base + k
    BY <2>1, RunIsNumbered DEF UnitIsRun, UnitEnd
  <2>4. units[i].base = u.base /\ units[i].head = u.base + l /\ units[i].commits = u.commits
    BY <1>1, <2>3
  <2> HIDE DEF u
  <2>5. u.commits = [k \in 1 .. l |-> u.base + k] /\ (u.base + l) - u.base = l
    <3>1. u.commits = [k \in 1 .. l |-> u.commits[k]]
      BY <2>3
    <3>2. (u.base + l) - u.base = l
      BY <2>3
    <3> HIDE DEF l
    <3> QED  BY <2>3, <3>1, <3>2
  <2> HIDE DEF l
  <2>6. ToSet(u.commits) = u.base + 1 .. u.base + l
    <3>1. ToSet(u.commits) = {u.base + k : k \in 1 .. l}
      BY <2>5 DEF ToSet
    <3>2. \A x \in u.base + 1 .. u.base + l : x - u.base \in 1 .. l /\ x = u.base + (x - u.base)
      BY <2>3
    <3>3. \A k \in 1 .. l : u.base + k \in u.base + 1 .. u.base + l
      BY <2>3
    <3> QED  BY <3>1, <3>2, <3>3
  <2>7. units[i].commits = [k \in 1 .. units[i].head - units[i].base |-> units[i].base + k]
    BY <2>4, <2>5
  <2>8. ToSet(units[i].commits) = units[i].base + 1 .. units[i].head
    BY <2>4, <2>6
  <2>9. units[i].base \in Nat /\ units[i].head \in Nat
    BY <2>3, <2>4
  <2>10. units[i].base = end(i - 1)
    BY <1>2, <2>1, <2>2, <2>4 DEF u
  <2> QED  BY <2>7, <2>8, <2>9, <2>10
<1>5. \A i \in DOMAIN units : \A p \in Path :
        trees[units[i].base][p] # trees[units[i].head][p] <=>
          \E ch \in units[i].changes : p \in {ch.path, ch.old}
  BY <1>1, ChangesAreListed
<1>6. ASSUME NEW c \in start + 2 .. head
      PROVE  (\E i \in DOMAIN units : {c - 1, c} \subseteq ToSet(units[i].commits))
               <=> one(c - 1) /\ one(c) /\ ExactPr(facts, c - 1) = ExactPr(facts, c)
  <2>1. head \in Nat /\ start \in Nat
    BY DEF IsHistory
  <2>2. c \in Nat /\ c - 1 \in Nat
    BY <2>1
  <2>3. \A i \in DOMAIN units : {c - 1, c} \subseteq ToSet(units[i].commits) <=>
                                  units[i].base + 1 <= c - 1 /\ c <= units[i].head
    <3> TAKE i \in DOMAIN units
    <3> DEFINE b == units[i].base  h == units[i].head  s == ToSet(units[i].commits)
    <3>1. s = b + 1 .. h /\ b \in Nat /\ h \in Nat
      BY <1>4
    <3> HIDE DEF b, h, s
    <3>2. {c - 1, c} \subseteq s <=> b + 1 <= c - 1 /\ c <= h
      BY <2>2, <3>1
    <3> QED  BY <3>2 DEF b, h, s
  <2>4. DOMAIN grouped = DOMAIN units
    BY <1>1 DEF UnitsDivide
  <2>5. (\E i \in DOMAIN units : {c - 1, c} \subseteq ToSet(units[i].commits))
          <=> Together(grouped, c)
    BY <1>1, <2>3, <2>4 DEF Together
  <2>6. Together(grouped, c) <=> /\ ExactPr(facts, c - 1) # None
                                 /\ ExactPr(facts, c - 1) = ExactPr(facts, c)
    BY <1>1 DEF UnitsDivide
  <2>7. \A d : one(d) <=> ExactPr(facts, d) # None
    BY ExactIsNamed
  <2> HIDE DEF one
  <2> QED  BY <2>5, <2>6, <2>7
<1>7. \A i \in DOMAIN units : units[i].base < units[i].head
  BY <1>1
<1> QED  BY <1>3, <1>4, <1>5, <1>6, <1>7 DEF PlanIsFaithful, units, n

-----------------------------------------------------------------------------
(* file.history.  Its plan lists what Git lists.                           *)
LEMMA PlanListsChanges ==
  ASSUME NEW trees, IsHistory(trees), NEW facts, NEW start \in DOMAIN trees
  PROVE  ListsChanges(PlanOf(trees, facts, start).units, trees)
BY PlanUnits DEF ListsChanges

Units == PlanOf(History, PrFacts, 0).units
Steps(q) == Selected(Units, QueryPath[q], QuerySince[q])

(* The path of the file at each revision.                                  *)
Follows(P, path) ==
  /\ P \in [DOMAIN History -> Path] /\ P[Max(DOMAIN History)] = path
  /\ \A i \in DOMAIN Units : LET s == Walk(Units, path)[i] IN
       /\ s.unit = Units[i]
       /\ s.before = P[Units[i].base] /\ s.after = P[Units[i].head]

(* The ends of the units are in order, so that none has two paths.         *)
LEMMA EndsAscend ==
  ASSUME NEW facts, NEW start \in Nat, NEW head \in Nat,
         NEW units, UnitsDivide(units, facts, start, head)
  PROVE  \A i, j \in 0 .. Len(units) :
           i < j => /\ EndOf(units, start, i) \in Nat /\ EndOf(units, start, j) \in Nat
                    /\ EndOf(units, start, i) < EndOf(units, start, j)
<1> DEFINE n == Len(units)
           e(i) == EndOf(units, start, i)
           G == {d \in Nat : \A i \in 0 .. n : i + d <= n => d = 0 \/ e(i) < e(i + d)}
<1>1. n \in Nat
  BY DEF UnitsDivide
<1>2. \A i \in 0 .. n : e(i) \in Nat
  <2>1. \A i \in 0 .. n : i = 0 \/ i \in 1 .. n
    BY <1>1
  <2>2. \A i \in 1 .. n : UnitEnd(units[i]) \in Nat
    BY RunIsNumbered DEF UnitsDivide
  <2> QED  BY <2>1, <2>2 DEF EndOf
<1>3. \A i \in 1 .. n : e(i - 1) < e(i)
  <2> TAKE i \in 1 .. n
  <2>1. UnitIsRun(units[i], facts) /\ units[i].base = e(i - 1)
    BY DEF UnitsDivide
  <2>2. units[i].base < UnitEnd(units[i])
    BY <2>1, RunIsNumbered
  <2>3. e(i) = UnitEnd(units[i])
    BY <1>1 DEF EndOf
  <2> HIDE DEF e
  <2> QED  BY <2>1, <2>2, <2>3
<1> HIDE DEF e, n
<1>4. 0 \in G
  OBVIOUS
<1>5. ASSUME NEW d \in Nat, d \in G PROVE d + 1 \in G
  <2> SUFFICES ASSUME NEW i \in 0 .. n, i + (d + 1) <= n PROVE e(i) < e(i + (d + 1))
    OBVIOUS
  <2> DEFINE k == i + (d + 1)
  <2>1. k \in 1 .. n /\ k - 1 = i + d /\ i + d \in 0 .. n /\ i + d <= n /\ k \in 0 .. n
    BY <1>1
  <2>2. e(i + d) < e(k)
    BY <1>3, <2>1
  <2>3. d = 0 \/ e(i) < e(i + d)
    BY <1>5, <2>1
  <2>4. d = 0 => i + d = i
    OBVIOUS
  <2>5. e(i) \in Nat /\ e(i + d) \in Nat /\ e(k) \in Nat
    BY <1>2, <2>1
  <2> HIDE DEF k
  <2>6. e(i) < e(k)
    BY <2>2, <2>3, <2>4, <2>5
  <2> QED  BY <2>6 DEF k
<1>6. Nat \subseteq G
  <2> HIDE DEF G
  <2> QED  BY <1>4, <1>5, NumberInduction
<1>7. ASSUME NEW i \in 0 .. n, NEW j \in 0 .. n, i < j PROVE e(i) < e(j)
  <2>1. j - i \in Nat /\ i + (j - i) = j /\ j - i # 0 /\ j <= n
    BY <1>1, <1>7
  <2>2. j - i \in G
    BY <1>6, <2>1
  <2>3. i + (j - i) <= n => j - i = 0 \/ e(i) < e(i + (j - i))
    BY <2>2
  <2> QED  BY <2>1, <2>3
<1> QED  BY <1>2, <1>7 DEF e, n

LEMMA HistoryHasPaths ==
  ASSUME NEW path \in Path
  PROVE  \E P : Follows(P, path)
<1> DEFINE n == Len(Units)
           last == Max(DOMAIN History)
           grouped == Grouped(PrFacts, 0, last)
           e(i) == EndOf(grouped, 0, i)
<1>1. IsHistory(History) /\ last \in Nat /\ DOMAIN History = 0 .. last /\ 0 \in DOMAIN History
  BY FileHistoryAssumption DEF IsHistory
<1>2. /\ UnitsDivide(grouped, PrFacts, 0, last)
      /\ n = Len(grouped) /\ n \in Nat /\ DOMAIN Units = 1 .. n
      /\ \A i \in DOMAIN Units :
           /\ Units[i].base = grouped[i].base /\ Units[i].base \in DOMAIN History
           /\ Units[i].head = UnitEnd(grouped[i]) /\ Units[i].head \in DOMAIN History
  BY <1>1, PlanUnits DEF Units
<1>3. PICK at \in [1 .. n + 1 -> Path] :
        /\ at[n + 1] = path
        /\ \A i \in DOMAIN Units :
             /\ Walk(Units, path)[i] = Step(Units[i], at[i + 1])
             /\ Step(Units[i], at[i + 1]).before = at[i]
  <2>1. ListsChanges(Units, History)
    BY <1>1, PlanListsChanges DEF Units
  <2> QED  BY <2>1, WalkIsChain
<1> HIDE DEF n, last, grouped
<1>4. \A i, j \in 0 .. n : i < j => e(i) # e(j)
  <2>1. \A i, j \in 0 .. Len(grouped) :
          i < j => e(i) \in Nat /\ e(j) \in Nat /\ e(i) < e(j)
    BY <1>1, <1>2, 0 \in Nat, EndsAscend
  <2> HIDE DEF e
  <2> QED  BY <1>2, <2>1
<1>5. \A i, j \in 0 .. n : e(i) = e(j) => i = j
  BY <1>2, <1>4
<1>6. /\ e(n) = last
      /\ \A i \in 1 .. n : Units[i].base = e(i - 1) /\ Units[i].head = e(i)
  <2>1. e(n) = last /\ \A i \in 1 .. n : grouped[i].base = e(i - 1)
    BY <1>2 DEF UnitsDivide
  <2>2. \A i \in 1 .. n : e(i) = UnitEnd(grouped[i])
    BY <1>2 DEF EndOf
  <2> HIDE DEF e
  <2> QED  BY <1>2, <2>1, <2>2
<1> HIDE DEF e
<1> DEFINE place(r) == CHOOSE i \in 0 .. n : e(i) = r
           P == [r \in DOMAIN History |-> IF \E i \in 0 .. n : e(i) = r THEN at[place(r) + 1] ELSE path]
<1>7. ASSUME NEW i \in 0 .. n, e(i) \in DOMAIN History PROVE P[e(i)] = at[i + 1]
  <2>1. place(e(i)) = i
    BY <1>5
  <2> QED  BY <1>7, <2>1
<1>8. P \in [DOMAIN History -> Path]
  <2>1. ASSUME NEW r \in DOMAIN History, NEW i \in 0 .. n, e(i) = r
        PROVE  at[place(r) + 1] \in Path
    <3>1. place(r) \in 0 .. n
      BY <2>1
    <3>2. place(r) + 1 \in 1 .. n + 1
      BY <1>2, <3>1
    <3> HIDE DEF place
    <3> QED  BY <3>2
  <2> HIDE DEF place
  <2> QED  BY <2>1
<1> HIDE DEF P
<1>9. P[last] = path
  <2>1. n \in 0 .. n /\ last \in DOMAIN History
    BY <1>1, <1>2
  <2> QED  BY <1>3, <1>6, <1>7, <2>1
<1>10. ASSUME NEW i \in DOMAIN Units
       PROVE  LET s == Walk(Units, path)[i] IN
              s.unit = Units[i] /\ s.before = P[Units[i].base] /\ s.after = P[Units[i].head]
  <2>1. i \in 1 .. n /\ i - 1 \in 0 .. n /\ i \in 0 .. n /\ (i - 1) + 1 = i
    BY <1>2
  <2>2. Walk(Units, path)[i] = Step(Units[i], at[i + 1]) /\ Step(Units[i], at[i + 1]).before = at[i]
    BY <1>3
  <2>3. Step(Units[i], at[i + 1]).unit = Units[i] /\ Step(Units[i], at[i + 1]).after = at[i + 1]
    BY DEF Step
  <2>4. P[Units[i].base] = at[i] /\ P[Units[i].head] = at[i + 1]
    BY <1>2, <1>6, <1>7, <2>1
  <2> QED  BY <2>2, <2>3, <2>4
<1>11. Follows(P, path)
  BY <1>8, <1>9, <1>10 DEF Follows, last
<1> QED  BY <1>11

(* An end of a history: the path of its revision, and tasks of that.       *)
EndFollows(e, P) ==
  /\ e.rev \in DOMAIN History /\ e.path = P[e.rev]
  /\ TasksOf(e) \subseteq Task
  /\ \A t \in TasksOf(e) : t[1] = e.rev

LEMMA EndsFollow ==
  ASSUME NEW path, NEW since, NEW P, Follows(P, path),
         NEW steps, steps \in {<< >>, Selected(Units, path, since)},
         NEW e, e \in Ends(steps, path)
  PROVE  EndFollows(e, P)
<1> SUFFICES /\ e.rev \in DOMAIN History /\ e.path = P[e.rev]
             /\ TasksOf(e) \subseteq Task
             /\ \A t \in TasksOf(e) : t[1] = e.rev
  BY DEF EndFollows
<1> DEFINE last == Max(DOMAIN History)
           end(rev, p, others) ==
             [rev |-> rev, path |-> p, contexts |-> EndpointContexts(p, rev, others)]
           Placed(others) == /\ e = end(e.rev, e.path, others)
                             /\ e.rev \in DOMAIN History /\ e.path = P[e.rev]
                             /\ e.rev # 0 \/ (others = {} /\ DOMAIN Context = {})
<1>1. last \in Nat /\ DOMAIN History = 0 .. last /\ 0 \in DOMAIN History
      /\ DOMAIN Context = DOMAIN History \ {0}
  BY FileHistoryAssumption DEF IsHistory
<1>2. \A i \in DOMAIN Units : /\ Units[i].base \in DOMAIN History
                              /\ Units[i].head \in DOMAIN History \ {0}
  <2>1. \A i \in DOMAIN Units : /\ Units[i].base \in DOMAIN History
                                /\ Units[i].head \in DOMAIN History
                                /\ Units[i].base < Units[i].head
    BY <1>1, FileHistoryAssumption, PlanUnits DEF Units
  <2> QED  BY <1>1, <2>1
<1>3. ASSUME NEW i \in DOMAIN steps
      PROVE  /\ i \in DOMAIN Units /\ steps[i].unit = Units[i]
             /\ steps[i].before = P[Units[i].base] /\ steps[i].after = P[Units[i].head]
  <2>1. steps = Selected(Units, path, since)
    OBVIOUS
  <2>2. i \in DOMAIN Walk(Units, path) /\ steps[i] = Walk(Units, path)[i]
    BY <2>1 DEF Selected
  <2>3. i \in DOMAIN Units
    BY <2>2 DEF Walk
  <2> QED  BY <2>2, <2>3 DEF Follows
<1>4. \/ \E i \in DOMAIN steps : \E others :
           /\ steps[i].unit.base # 0
           /\ e = end(steps[i].unit.base, steps[i].before, others)
      \/ \E i \in DOMAIN steps : \E others :
           e = end(steps[i].unit.head, steps[i].after, others)
      \/ e = end(last, path, {})
  <2> DEFINE tus(p, rev) == IF path \in HeaderPath THEN TusOf(p, rev) ELSE {}
             early(s) == IF s.exists_before /\ s.unit.base # 0
                         THEN {end(s.unit.base, s.before, tus(s.after, s.unit.head))} ELSE {}
             late(s) == IF s.exists_after
                        THEN {end(s.unit.head, s.after, tus(s.before, s.unit.base))} ELSE {}
             Both == {early(steps[i]) \cup late(steps[i]) : i \in DOMAIN steps}
  <2>1. e \in {end(last, path, {})} \cup UNION Both
    BY DEF Ends
  <2> HIDE DEF early, late, end
  <2>2. \/ \E i \in DOMAIN steps : e \in early(steps[i])
        \/ \E i \in DOMAIN steps : e \in late(steps[i])
        \/ e = end(last, path, {})
    <3>1. CASE e = end(last, path, {})
      BY <3>1
    <3>2. CASE e # end(last, path, {})
      <4>0. e \in UNION Both
        <5> HIDE DEF Both
        <5> QED  BY <2>1, <3>2
      <4>1. PICK X \in Both : e \in X
        <5> HIDE DEF Both
        <5> QED  BY <4>0
      <4>2. PICK i \in DOMAIN steps : X = early(steps[i]) \cup late(steps[i])
        BY <4>1, Zenon
      <4>3. e \in early(steps[i]) \/ e \in late(steps[i])
        BY <4>1, <4>2, Zenon
      <4> QED  BY <4>3, Zenon
    <3> QED  BY <3>1, <3>2
  <2>3. ASSUME NEW i \in DOMAIN steps, e \in early(steps[i])
        PROVE  \E others : /\ steps[i].unit.base # 0
                           /\ e = end(steps[i].unit.base, steps[i].before, others)
    BY <2>3 DEF early
  <2>4. ASSUME NEW i \in DOMAIN steps, e \in late(steps[i])
        PROVE  \E others : e = end(steps[i].unit.head, steps[i].after, others)
    BY <2>4 DEF late
  <2> QED  BY <2>2, <2>3, <2>4
<1> HIDE DEF last
<1>5. \E others : Placed(others)
  <2>1. ASSUME NEW i \in DOMAIN steps, NEW others, steps[i].unit.base # 0,
               e = end(steps[i].unit.base, steps[i].before, others)
        PROVE  Placed(others)
    BY <1>2, <1>3, <2>1
  <2>2. ASSUME NEW i \in DOMAIN steps, NEW others,
               e = end(steps[i].unit.head, steps[i].after, others)
        PROVE  Placed(others)
    BY <1>2, <1>3, <2>2
  <2>3. ASSUME e = end(last, path, {}) PROVE Placed({})
    <3>1. e.rev = last /\ e.path = path /\ P[last] = path /\ last \in DOMAIN History
      BY <1>1, <2>3 DEF Follows, last
    <3>2. last = 0 => DOMAIN Context = {}
      BY <1>1
    <3> QED  BY <2>3, <3>1, <3>2
  <2> HIDE DEF end, Placed
  <2> QED  BY <1>4, <2>1, <2>2, <2>3
<1>6. PICK others : Placed(others)
  BY <1>5
<1>7. e.contexts = EndpointContexts(e.path, e.rev, others)
  BY <1>6
<1>8. CASE e.rev # 0
  <2>1. e.rev \in DOMAIN Context
    BY <1>1, <1>6, <1>8
  <2>2. \A p : ContextsOf(p, e.rev) \subseteq Context[e.rev]
    BY <1>8 DEF ContextsOf
  <2>3. e.contexts \subseteq Context[e.rev]
    BY <1>7, <2>2 DEF EndpointContexts
  <2>4. TasksOf(e) \subseteq {<<e.rev, c.id>> : c \in Context[e.rev]}
    BY <2>3 DEF TasksOf
  <2>5. {<<e.rev, c.id>> : c \in Context[e.rev]} \subseteq Task
    BY <2>1 DEF Task
  <2> QED  BY <1>6, <2>4, <2>5
<1>9. CASE e.rev = 0
  <2>1. others = {} /\ DOMAIN Context = {}
    BY <1>6, <1>9
  <2>2. ContextsOf(e.path, e.rev) = {}
    BY <1>9, <2>1 DEF ContextsOf
  <2>3. e.contexts = {}
    BY <1>7, <2>1, <2>2 DEF EndpointContexts
  <2> QED  BY <1>6, <2>3 DEF TasksOf
<1> QED  BY <1>8, <1>9

(* The type of a command and of a task, with what a command has read.      *)
QueryStates ==
  [pc : {"start", "removed", "written", "read", "planned", "scheduled", "counted", "listed",
         "answered"},
   units : {<< >>} \cup {Steps(q) : q \in Query},
   pending : {0} \cup {Cardinality(S) : S \in SUBSET Task},
   open : SUBSET [task : Task, state : {"absent", "pending", "done", "failed", "quarantined"}],
   answer : {None, "partial", "complete"},
   complete : SUBSET (DOMAIN Units)]
RowStates ==
  [state : {"absent", "pending", "done", "failed", "quarantined"}, path : Path \cup {None}]

HistoryTypeInv ==
  /\ planFile \in BOOLEAN /\ link \subseteq Task \X {Request(q) : q \in Query}
  /\ query \in [Query -> QueryStates] /\ work \in [Task -> RowStates]
  /\ \A q \in Query : /\ query[q].units \in {<< >>, Steps(q)}
                      /\ query[q].complete \subseteq DOMAIN query[q].units
                      /\ query[q].pc # "answered" => query[q].complete = {}
  /\ \A t \in Task : work[t].path = None <=> work[t].state = "absent"
  /\ \A l \in link : work[l[1]].state # "absent"

LEMMA HistoryTypeInit ==
  ASSUME FileHistoryInit PROVE HistoryTypeInv
<1> USE DEF FileHistoryInit, HistoryTypeInv, QueryStates, RowStates
<1>1. query \in [Query -> QueryStates]
  OBVIOUS
<1>2. work \in [Task -> RowStates]
  OBVIOUS
<1> QED  BY <1>1, <1>2

(* What each step of a command does to it.                                 *)
LEMMA SameTasks ==
  ASSUME HistoryTypeInv, UNCHANGED <<work, link>>, planFile' \in BOOLEAN,
         NEW q \in Query, NEW new \in QueryStates, query' = [query EXCEPT ![q] = new],
         new.units \in {<< >>, Steps(q)}, new.complete \subseteq DOMAIN new.units,
         new.pc # "answered" => new.complete = {}
  PROVE  HistoryTypeInv'
<1> USE DEF HistoryTypeInv
<1>1. query' \in [Query -> QueryStates]
  OBVIOUS
<1>2. \A r \in Query : query'[r] = IF r = q THEN new ELSE query[r]
  OBVIOUS
<1>3. \A r \in Query : /\ query'[r].units \in {<< >>, Steps(r)}
                       /\ query'[r].complete \subseteq DOMAIN query'[r].units
                       /\ query'[r].pc # "answered" => query'[r].complete = {}
  <2> HIDE DEF QueryStates
  <2> QED  BY <1>2
<1> QED  BY <1>1, <1>3

(* A command that only goes on, to a place before its answer.              *)
LEMMA GoesOn ==
  ASSUME HistoryTypeInv, UNCHANGED <<work, link>>, planFile' \in BOOLEAN,
         NEW q \in Query, query[q].pc # "answered",
         NEW to \in {"removed", "written", "planned", "scheduled"},
         query' = [query EXCEPT ![q].pc = to]
  PROVE  HistoryTypeInv'
<1> DEFINE new == [query[q] EXCEPT !.pc = to]
<1>1. query[q] \in QueryStates
  BY DEF HistoryTypeInv
<1>2. new \in QueryStates /\ new.units = query[q].units /\ new.complete = query[q].complete
  BY <1>1 DEF QueryStates
<1>3. new.units \in {<< >>, Steps(q)} /\ new.complete = {}
  BY <1>2 DEF HistoryTypeInv
<1>4. query' = [query EXCEPT ![q] = new]
  OBVIOUS
<1> HIDE DEF new
<1> QED  BY <1>2, <1>3, <1>4, SameTasks

LEMMA StepsArePlaces ==
  ASSUME NEW q PROVE DOMAIN Steps(q) \subseteq DOMAIN Units
BY DEF Steps, Selected, Walk

LEMMA ReadPlanTypes ==
  ASSUME HistoryTypeInv, NEW q \in Query, ReadPlan(q) PROVE HistoryTypeInv'
<1> DEFINE units == IF planFile THEN Steps(q) ELSE << >>
           new == [query[q] EXCEPT !.pc = "read", !.units = units]
<1>1. query[q] \in QueryStates /\ query[q].complete = {}
  BY DEF HistoryTypeInv, ReadPlan
<1>2. units \in {<< >>, Steps(q)}
  OBVIOUS
<1>3. query' = [query EXCEPT ![q] = new]
  BY DEF ReadPlan, Steps, Units
<1> HIDE DEF units
<1>4. new \in QueryStates /\ new.units = units /\ new.complete = {}
  BY <1>1, <1>2 DEF QueryStates
<1>5. UNCHANGED <<work, link>> /\ planFile' \in BOOLEAN
  BY DEF ReadPlan, HistoryTypeInv
<1> HIDE DEF new
<1> QED  BY <1>2, <1>3, <1>4, <1>5, SameTasks

(* The tasks of a request.                                                 *)
LEMMA OpenAreTasks ==
  ASSUME NEW q PROVE Linked(q) \subseteq Task /\ Open(q) \subseteq Linked(q)
BY DEF Linked, Open

LEMMA ReadsTypes ==
  ASSUME HistoryTypeInv, NEW q \in Query, CountPending(q) \/ ListOpen(q) PROVE HistoryTypeInv'
<1>1. /\ query[q] \in QueryStates /\ query[q].complete = {}
      /\ query[q].units \in {<< >>, Steps(q)}
  BY DEF HistoryTypeInv, CountPending, ListOpen
<1>2. UNCHANGED <<work, link>> /\ planFile' \in BOOLEAN
  BY DEF CountPending, ListOpen, HistoryTypeInv
<1>3. CASE CountPending(q)
  <2> DEFINE new == [query[q] EXCEPT !.pc = "counted", !.pending = Cardinality(Open(q))]
  <2>1. Open(q) \in SUBSET Task
    BY OpenAreTasks
  <2>2. /\ new \in QueryStates /\ new.units = query[q].units
        /\ new.complete = query[q].complete
    BY <1>1, <2>1 DEF QueryStates
  <2>3. query' = [query EXCEPT ![q] = new]
    BY <1>3 DEF CountPending
  <2> HIDE DEF new
  <2> QED  BY <1>1, <1>2, <2>2, <2>3, SameTasks
<1>4. CASE ListOpen(q)
  <2> DEFINE open == {[task |-> t, state |-> work[t].state] : t \in Open(q)}
             new == [query[q] EXCEPT !.pc = "listed", !.open = open]
  <2>1. open \in SUBSET [task : Task,
                         state : {"absent", "pending", "done", "failed", "quarantined"}]
    BY OpenAreTasks DEF HistoryTypeInv, RowStates
  <2>2. query' = [query EXCEPT ![q] = new]
    BY <1>4 DEF ListOpen
  <2> HIDE DEF open
  <2>3. /\ new \in QueryStates /\ new.units = query[q].units
        /\ new.complete = query[q].complete
    BY <1>1, <2>1 DEF QueryStates
  <2> HIDE DEF new
  <2> QED  BY <1>1, <1>2, <2>2, <2>3, SameTasks
<1> QED  BY <1>3, <1>4

LEMMA AnswerTypes ==
  ASSUME HistoryTypeInv, NEW q \in Query, Aggregate(q) PROVE HistoryTypeInv'
<1> DEFINE steps == query[q].units
           ready(s) == /\ s.exists_before => Ready(q, s.unit.base, s.before)
                       /\ s.exists_after => Ready(q, s.unit.head, s.after)
           complete == {i \in DOMAIN steps : ready(steps[i])}
           answers == {None, "partial", "complete"}
<1>1. query[q] \in QueryStates /\ steps \in {<< >>, Steps(q)}
  BY DEF HistoryTypeInv
<1>2. \E answer \in answers :
        query' = [query EXCEPT ![q] = [query[q] EXCEPT !.pc = "answered", !.pending = 0,
                    !.open = {}, !.answer = answer, !.complete = complete]]
  BY Zenon DEF Aggregate
<1>3. PICK answer \in answers :
        query' = [query EXCEPT ![q] = [query[q] EXCEPT !.pc = "answered", !.pending = 0,
                    !.open = {}, !.answer = answer, !.complete = complete]]
  BY <1>2
<1>4. complete \subseteq DOMAIN steps /\ complete \subseteq DOMAIN Units
  BY <1>1, StepsArePlaces
<1> HIDE DEF complete, steps
<1> DEFINE new == [query[q] EXCEPT !.pc = "answered", !.pending = 0, !.open = {},
                                   !.answer = answer, !.complete = complete]
<1>5. /\ new \in QueryStates /\ new.units = query[q].units
      /\ new.complete = complete /\ new.pc = "answered"
  BY <1>1, <1>4 DEF QueryStates
<1>6. UNCHANGED <<work, link>> /\ planFile' \in BOOLEAN
  BY DEF Aggregate, HistoryTypeInv
<1>7. query' = [query EXCEPT ![q] = new]
  BY <1>3
<1> HIDE DEF new
<1> QED  BY <1>1, <1>4, <1>5, <1>6, <1>7, SameTasks DEF steps

LEMMA RepeatTypes ==
  ASSUME HistoryTypeInv, NEW q \in Query, Repeat(q) PROVE HistoryTypeInv'
<1> DEFINE new == [query[q] EXCEPT !.pc = "start", !.units = << >>, !.answer = None,
                                   !.complete = {}]
<1>1. query[q] \in QueryStates
  BY DEF HistoryTypeInv
<1>2. new \in QueryStates /\ new.units = << >> /\ new.complete = {}
  BY <1>1 DEF QueryStates
<1>3. query' = [query EXCEPT ![q] = new]
  BY DEF Repeat
<1>4. UNCHANGED <<work, link>> /\ planFile' \in BOOLEAN
  BY DEF Repeat, HistoryTypeInv
<1> HIDE DEF new
<1> QED  BY <1>2, <1>3, <1>4, SameTasks

(* The rows that a command schedules: the tasks of its ends, each with the *)
(* path of its revision.                                                   *)
EndTasks(q) == UNION {TasksOf(e) : e \in Ends(query[q].units, QueryPath[q])}
MissingTasks(q) == {t \in EndTasks(q) : work[t].state \notin {"done", "failed"}}

LEMMA EndTasksFollow ==
  ASSUME HistoryTypeInv, NEW q \in Query, NEW P, Follows(P, QueryPath[q]),
         NEW e \in Ends(query[q].units, QueryPath[q])
  PROVE  /\ e.rev \in DOMAIN History /\ e.path = P[e.rev] /\ e.path \in Path
         /\ TasksOf(e) \subseteq Task
         /\ \A t \in TasksOf(e) : t[1] = e.rev
<1>1. PICK path, since, steps :
        path = QueryPath[q] /\ since = QuerySince[q] /\ steps = query[q].units
  OBVIOUS
<1>4. Follows(P, path) /\ e \in Ends(steps, path)
  BY <1>1
<1>5. steps \in {<< >>, Selected(Units, path, since)}
  BY <1>1 DEF HistoryTypeInv, Steps
<1>2. EndFollows(e, P)
  BY <1>4, <1>5, EndsFollow, Zenon
<1>3. P \in [DOMAIN History -> Path]
  BY DEF Follows
<1> QED  BY <1>2, <1>3 DEF EndFollows

LEMMA ScheduledRows ==
  ASSUME HistoryTypeInv, NEW q \in Query, NEW P, Follows(P, QueryPath[q]), Schedule(q)
  PROVE  /\ MissingTasks(q) \subseteq Task /\ \A t \in MissingTasks(q) : P[t[1]] \in Path
         /\ work' = [t \in Task |-> IF t \in MissingTasks(q) /\ work[t].state = "absent"
                                    THEN [state |-> "pending", path |-> P[t[1]]] ELSE work[t]]
         /\ link' = link \cup (MissingTasks(q) \X {Request(q)})
         /\ UNCHANGED planFile
         /\ query[q].pc = "planned" /\ query' = [query EXCEPT ![q].pc = "scheduled"]
<1> DEFINE ends == Ends(query[q].units, QueryPath[q])
           path(t) == (CHOOSE e \in ends : t \in TasksOf(e)).path
<1>1. \A e \in ends : /\ e.path = P[e.rev] /\ e.path \in Path /\ TasksOf(e) \subseteq Task
                      /\ \A t \in TasksOf(e) : t[1] = e.rev
  BY EndTasksFollow
<1>2. /\ work' = [t \in Task |-> IF t \in MissingTasks(q) /\ work[t].state = "absent"
                                 THEN Row(path(t)) ELSE work[t]]
      /\ link' = link \cup (MissingTasks(q) \X {Request(q)})
      /\ UNCHANGED planFile
      /\ query[q].pc = "planned" /\ query' = [query EXCEPT ![q].pc = "scheduled"]
  BY DEF Schedule, MissingTasks, EndTasks, At
<1> HIDE DEF ends
<1>3. \A t \in MissingTasks(q) : t \in Task /\ path(t) = P[t[1]] /\ path(t) \in Path
  <2> TAKE t \in MissingTasks(q)
  <2>1. \E e \in ends : t \in TasksOf(e)
    BY DEF MissingTasks, EndTasks, ends
  <2> DEFINE e == CHOOSE e \in ends : t \in TasksOf(e)
  <2>2. e \in ends /\ t \in TasksOf(e)
    BY <2>1
  <2>3. path(t) = e.path
    OBVIOUS
  <2> HIDE DEF e, path
  <2> QED  BY <1>1, <2>2, <2>3
<1> HIDE DEF path
<1> QED  BY <1>2, <1>3 DEF Row

LEMMA ScheduleTypes ==
  ASSUME HistoryTypeInv, NEW q \in Query, Schedule(q) PROVE HistoryTypeInv'
<1>1. QueryPath[q] \in Path
  BY FileHistoryAssumption
<1>2. PICK P : Follows(P, QueryPath[q])
  BY <1>1, HistoryHasPaths
<1> DEFINE missing == MissingTasks(q)
<1>3. /\ missing \subseteq Task /\ \A t \in missing : P[t[1]] \in Path
      /\ work' = [t \in Task |-> IF t \in missing /\ work[t].state = "absent"
                                 THEN [state |-> "pending", path |-> P[t[1]]] ELSE work[t]]
      /\ link' = link \cup (missing \X {Request(q)})
      /\ UNCHANGED planFile
      /\ query[q].pc = "planned" /\ query' = [query EXCEPT ![q].pc = "scheduled"]
  BY <1>2, ScheduledRows
<1> HIDE DEF missing
<1>4. /\ query' \in [Query -> QueryStates]
      /\ \A r \in Query : /\ query'[r].units \in {<< >>, Steps(r)}
                          /\ query'[r].complete \subseteq DOMAIN query'[r].units
                          /\ query'[r].pc # "answered" => query'[r].complete = {}
  <2> DEFINE new == [query[q] EXCEPT !.pc = "scheduled"]
  <2>1. query[q] \in QueryStates
    BY DEF HistoryTypeInv
  <2>2. new \in QueryStates /\ new.units = query[q].units /\ new.complete = query[q].complete
    BY <2>1 DEF QueryStates
  <2>3. query' = [query EXCEPT ![q] = new]
    BY <1>3
  <2> HIDE DEF new
  <2>4. query' \in [Query -> QueryStates] /\ \A r \in Query : query'[r] = IF r = q THEN new ELSE query[r]
    BY <2>2, <2>3 DEF HistoryTypeInv
  <2>5. query[q].complete = {}
    BY <1>3 DEF HistoryTypeInv
  <2> QED  BY <2>2, <2>4, <2>5 DEF HistoryTypeInv
<1>5. /\ work' \in [Task -> RowStates]
      /\ \A t \in Task : work'[t].path = None <=> work'[t].state = "absent"
  <2>1. ASSUME NEW t \in Task
        PROVE  work'[t] \in RowStates /\ (work'[t].path = None <=> work'[t].state = "absent")
    <3>1. CASE t \in missing /\ work[t].state = "absent"
      <4>1. work'[t] = [state |-> "pending", path |-> P[t[1]]] /\ P[t[1]] \in Path
        BY <1>3, <3>1
      <4> QED  BY <4>1, PathAssumption DEF RowStates
    <3>2. CASE ~(t \in missing /\ work[t].state = "absent")
      <4>1. work'[t] = work[t]
        BY <1>3, <3>2
      <4> QED  BY <4>1 DEF HistoryTypeInv
    <3> QED  BY <3>1, <3>2
  <2> QED  BY <1>3, <2>1
<1>6. /\ link' \subseteq Task \X {Request(r) : r \in Query}
      /\ \A l \in link' : work'[l[1]].state # "absent"
  <2>1. \A t \in Task : work[t].state # "absent" \/ t \in missing => work'[t].state # "absent"
    BY <1>3
  <2>2. \A l \in link : l[1] \in Task /\ work[l[1]].state # "absent"
    BY DEF HistoryTypeInv
  <2>3. link' \subseteq Task \X {Request(r) : r \in Query}
    BY <1>3 DEF HistoryTypeInv
  <2> QED  BY <1>3, <2>1, <2>2, <2>3
<1>7. planFile' \in BOOLEAN
  BY <1>3 DEF HistoryTypeInv
<1>8. {Request(r) : r \in Query}' = {Request(r) : r \in Query}
  BY DEF Request
<1> QED  BY <1>4, <1>5, <1>6, <1>7 DEF HistoryTypeInv

(* The runner and the eviction change the state of a row that is there.    *)
LEMMA TaskTypes ==
  ASSUME HistoryTypeInv, NEW t \in Task, EndTask(t) \/ EvictFact(t) PROVE HistoryTypeInv'
<1>1. PICK s \in {"pending", "done", "failed", "quarantined"} :
        work' = [work EXCEPT ![t].state = s]
  BY DEF EndTask, EvictFact
<1>2. work[t].state # "absent" /\ UNCHANGED <<planFile, query, link>>
  BY DEF EndTask, EvictFact
<1>3. /\ work' \in [Task -> RowStates]
      /\ work'[t].state = s /\ work'[t].path = work[t].path
      /\ \A u \in Task : u # t => work'[u] = work[u]
  BY <1>1 DEF HistoryTypeInv, RowStates
<1>4. \A u \in Task : work'[u].path = None <=> work'[u].state = "absent"
  BY <1>2, <1>3 DEF HistoryTypeInv
<1>5. \A l \in link : l[1] \in Task /\ work'[l[1]].state # "absent"
  BY <1>3 DEF HistoryTypeInv
<1> QED  BY <1>2, <1>3, <1>4, <1>5 DEF HistoryTypeInv

LEMMA HistoryTypeStep ==
  ASSUME HistoryTypeInv, FileHistoryNext \/ UNCHANGED fileHistory PROVE HistoryTypeInv'
<1>1. CASE UNCHANGED fileHistory
  BY <1>1 DEF fileHistory, HistoryTypeInv
<1>2. ASSUME NEW t \in Task, EndTask(t) \/ EvictFact(t) PROVE HistoryTypeInv'
  BY <1>2, TaskTypes
<1>3. ASSUME NEW q \in Query, RemovePlan(q) \/ RenamePlan(q) \/ DeletePlan(q)
      PROVE  HistoryTypeInv'
  BY <1>3, GoesOn DEF RemovePlan, RenamePlan, DeletePlan, At
<1>4. ASSUME NEW q \in Query, ReadPlan(q) \/ Schedule(q) \/ CountPending(q) \/ ListOpen(q)
                              \/ Aggregate(q) \/ Repeat(q)
      PROVE  HistoryTypeInv'
  BY <1>4, ReadPlanTypes, ScheduleTypes, ReadsTypes, AnswerTypes, RepeatTypes
<1> QED  BY <1>1, <1>2, <1>3, <1>4 DEF FileHistoryNext

(* The types, for the commands and for the other algorithms.               *)
LEMMA HistoryTypeHolds ==
  ASSUME HistoryTypeInv PROVE FileHistoryTypeOK
<1>1. ASSUME NEW q \in Query
      PROVE  /\ query[q].pc \in {"start", "removed", "written", "read", "planned", "scheduled",
                                 "counted", "listed", "answered"}
             /\ \A o \in query[q].open : o.task \in Task
             /\ query[q].answer \in {None, "partial", "complete"}
             /\ query[q].complete \subseteq DOMAIN query[q].units
  BY DEF HistoryTypeInv, QueryStates
<1>2. ASSUME NEW t \in Task
      PROVE  /\ work[t].state \in {"absent", "pending", "done", "failed", "quarantined"}
             /\ work[t].path \in Path \cup {None}
             /\ work[t].path = None <=> work[t].state = "absent"
  BY DEF HistoryTypeInv, RowStates
<1> QED  BY <1>1, <1>2 DEF HistoryTypeInv, FileHistoryTypeOK

CaseInv == case = None \/ (focus \in DOMAIN Cases /\ case \in Cases[focus])

QueryInv == HistoryTypeInv /\ CaseInv

LEMMA QueryInvHolds == Spec => []QueryInv
<1>1. Init => QueryInv
  BY HistoryTypeInit DEF Init, QueryInv, CaseInv
<1>2. QueryInv /\ [Next]_vars => QueryInv'
  <2> SUFFICES ASSUME QueryInv, [Next]_vars PROVE QueryInv'
    OBVIOUS
  <2>1. CASE UNCHANGED vars
    <3>1. UNCHANGED fileHistory /\ UNCHANGED <<focus, case>>
      BY <2>1 DEF vars
    <3> QED  BY <3>1, HistoryTypeStep DEF QueryInv, CaseInv
  <2>2. CASE FileHistoryNext /\ UNCHANGED <<focus, case>>
    BY <2>2, HistoryTypeStep DEF QueryInv, CaseInv
  <2>3. ASSUME NEW f \in DOMAIN Cases, Answer(f) PROVE QueryInv'
    BY <2>3, HistoryTypeStep DEF QueryInv, CaseInv, Answer
  <2>4. CASE Answered
    BY <2>4, HistoryTypeStep DEF QueryInv, CaseInv, Answered
  <2> QED  BY <2>1, <2>2, <2>3, <2>4 DEF Next
<1> QED  BY <1>1, <1>2, PTL DEF Spec

(* The plans, rows, links and answers of the commands have their types: an *)
(* answer is of units that were read, a row has a requested file exactly   *)
(* when it is there, and nothing is linked that was not scheduled.         *)
THEOREM QueryTypeCorrect == Spec => []TypeOK
<1>1. QueryInv => TypeOK
  BY HistoryTypeHolds DEF QueryInv, TypeOK
<1> QED  BY <1>1, QueryInvHolds, PTL

(* write_history_plan divides every history, from every start, into units  *)
(* that name each mainline commit once and a pull request where, and only  *)
(* where, its run of commits is known, with the changes the trees show.    *)
THEOREM PlansAlwaysFaithful == Spec => []PlansAreFaithful
<1>1. QueryInv => PlansAreFaithful
  <2> SUFFICES ASSUME QueryInv, On("plan"), NEW start \in DOMAIN case.trees
               PROVE  PlanIsFaithful(PlanOf(case.trees, case.facts, start).units, case.trees,
                                     case.facts, start)
    BY DEF PlansAreFaithful
  <2>1. case \in Cases["plan"]
    BY DEF QueryInv, CaseInv, On
  <2>2. IsHistory(case.trees) /\ PullRequestsAreNamed(case.facts)
    BY <2>1, CasesAssumption
  <2> QED  BY <2>2, PlanFaithful
<1> QED  BY <1>1, QueryInvHolds, PTL

(* plan_file_history, walking back from the head over the units of such a  *)
(* plan, follows the content of the file through every rename.             *)
THEOREM HistoriesAlwaysFollow == Spec => []HistoriesFollowTheFile
<1>1. QueryInv => HistoriesFollowTheFile
  <2> SUFFICES ASSUME QueryInv, On("plan"), NEW p \in Path
               PROVE  EndpointsExist(Walk(PlanOf(case.trees, case.facts, 0).units, p),
                                     case.trees, p)
    BY DEF HistoriesFollowTheFile
  <2>1. case \in Cases["plan"]
    BY DEF QueryInv, CaseInv, On
  <2>2. IsHistory(case.trees) /\ 0 \in DOMAIN case.trees
    BY <2>1, CasesAssumption DEF IsHistory
  <2>3. ListsChanges(PlanOf(case.trees, case.facts, 0).units, case.trees)
    BY <2>2, PlanListsChanges
  <2> QED  BY <2>3, WalkFollowsContent
<1> QED  BY <1>1, QueryInvHolds, PTL

(* infer_lineage accounts for every entity of both bundles exactly once,   *)
(* whatever the bundles hold and whatever has been asserted about them.    *)
THEOREM LineagesAlwaysConservative == Spec => []LineagesAreConservative
<1>1. QueryInv => LineagesAreConservative
  <2> SUFFICES ASSUME QueryInv, On("lineage")
               PROVE  LineageIsConservative(Transition(case.before, case.after, case.assertions),
                                            case.before, case.after, case.assertions)
    BY DEF LineagesAreConservative
  <2>1. case \in Cases["lineage"]
    BY DEF QueryInv, CaseInv, On
  <2>2. IsBundle(case.before) /\ IsBundle(case.after)
    BY <2>1, CasesAssumption
  <2> QED  BY <2>2, LineageConserved
<1> QED  BY <1>1, QueryInvHolds, PTL

(* Commands that ask for the same share every row and every link: a row    *)
(* has the path of its revision and is linked to what they all ask for,    *)
(* and from its scheduling on the tasks of a command are all there.        *)
OneRequest == \A q, r \in Query : Request(q) = Request(r)

PathAt == CHOOSE P : \A q \in Query : Follows(P, QueryPath[q])

RowsFollow ==
  \A t \in Task : work[t].state # "absent" =>
    work[t].path = PathAt[t[1]] /\ \A q \in Query : <<t, Request(q)>> \in link

AllScheduled ==
  \A q \in Query : query[q].pc \in {"scheduled", "counted", "listed"} =>
    \A t \in EndTasks(q) : work[t].state # "absent"

WholeInv == RowsFollow /\ AllScheduled

LEMMA PathsAgree ==
  ASSUME OneRequest, NEW q \in Query PROVE Follows(PathAt, QueryPath[q])
<1>1. QueryPath[q] \in Path
  BY FileHistoryAssumption
<1>2. PICK P : Follows(P, QueryPath[q])
  BY <1>1, HistoryHasPaths
<1>3. \A r \in Query : QueryPath[r] = QueryPath[q]
  BY DEF OneRequest, Request
<1>4. \A r \in Query : Follows(P, QueryPath[r])
  BY <1>2, <1>3
<1>5. \A r \in Query : Follows(PathAt, QueryPath[r])
  BY <1>4, Zenon DEF PathAt
<1> QED  BY <1>5

LEMMA RowsStay ==
  ASSUME HistoryTypeInv, WholeInv, NEW q \in Query, NEW new,
         UNCHANGED <<work, link>>, query' = [query EXCEPT ![q] = new],
         new.pc \in {"scheduled", "counted", "listed"} =>
           new.units = query[q].units /\ query[q].pc \in {"scheduled", "counted", "listed"}
  PROVE  WholeInv'
<1>1. RowsFollow'
  BY DEF WholeInv, RowsFollow
<1>2. \A r \in Query : query'[r] = IF r = q THEN new ELSE query[r]
  BY DEF HistoryTypeInv
<1>3. ASSUME NEW r \in Query, query'[r].pc \in {"scheduled", "counted", "listed"}
      PROVE  \A t \in EndTasks(r)' : work'[t].state # "absent"
  <2>1. query'[r].units = query[r].units /\ query[r].pc \in {"scheduled", "counted", "listed"}
    BY <1>2, <1>3
  <2>2. EndTasks(r)' = EndTasks(r)
    BY <2>1 DEF EndTasks
  <2> QED  BY <2>1, <2>2 DEF WholeInv, AllScheduled
<1> QED  BY <1>1, <1>3 DEF WholeInv, AllScheduled

LEMMA ScheduleIsWhole ==
  ASSUME HistoryTypeInv, OneRequest, WholeInv, NEW q \in Query, Schedule(q) PROVE WholeInv'
<1> DEFINE missing == MissingTasks(q)
<1>1. /\ missing \subseteq Task
      /\ work' = [t \in Task |-> IF t \in missing /\ work[t].state = "absent"
                                 THEN [state |-> "pending", path |-> PathAt[t[1]]] ELSE work[t]]
      /\ link' = link \cup (missing \X {Request(q)})
      /\ query' = [query EXCEPT ![q].pc = "scheduled"]
  BY PathsAgree, ScheduledRows
<1>2. missing = {t \in EndTasks(q) : work[t].state \notin {"done", "failed"}}
  BY DEF MissingTasks
<1> HIDE DEF missing
<1>3. RowsFollow'
  <2>1. ASSUME NEW t \in Task, work'[t].state # "absent"
        PROVE  work'[t].path = PathAt[t[1]] /\ \A r \in Query : <<t, Request(r)>> \in link'
    <3>1. CASE t \in missing /\ work[t].state = "absent"
      <4>1. work'[t].path = PathAt[t[1]] /\ <<t, Request(q)>> \in link'
        BY <1>1, <3>1
      <4> QED  BY <4>1 DEF OneRequest
    <3>2. CASE ~(t \in missing /\ work[t].state = "absent")
      <4>1. work'[t] = work[t] /\ link \subseteq link'
        BY <1>1, <3>2
      <4> QED  BY <2>1, <4>1 DEF WholeInv, RowsFollow
    <3> QED  BY <3>1, <3>2
  <2>2. \A r \in Query : Request(r)' = Request(r)
    BY DEF Request
  <2> QED  BY <2>1, <2>2 DEF RowsFollow
<1>4. \A t \in Task : work[t].state # "absent" \/ t \in missing => work'[t].state # "absent"
  BY <1>1
<1>5. /\ \A r \in Query : query'[r].units = query[r].units
      /\ \A r \in Query : r # q => query'[r] = query[r]
  BY <1>1 DEF HistoryTypeInv, QueryStates
<1>6. \A r \in Query : EndTasks(r)' = EndTasks(r) /\ EndTasks(r) \subseteq Task
  <2> SUFFICES ASSUME NEW r \in Query
               PROVE  EndTasks(r)' = EndTasks(r) /\ EndTasks(r) \subseteq Task
    OBVIOUS
  <2>1. EndTasks(r)' = EndTasks(r)
    BY <1>5 DEF EndTasks
  <2>2. \A e \in Ends(query[r].units, QueryPath[r]) : TasksOf(e) \subseteq Task
    BY PathsAgree, EndTasksFollow
  <2> QED  BY <2>1, <2>2 DEF EndTasks
<1>7. ASSUME NEW r \in Query, query'[r].pc \in {"scheduled", "counted", "listed"},
             NEW t \in EndTasks(r)
      PROVE  work'[t].state # "absent"
  <2>1. CASE r = q
    <3>1. t \in missing \/ work[t].state \in {"done", "failed"}
      BY <1>2, <1>7, <2>1
    <3> QED  BY <1>4, <1>6, <3>1
  <2>2. CASE r # q
    <3>1. work[t].state # "absent"
      BY <1>5, <1>7, <2>2 DEF WholeInv, AllScheduled
    <3> QED  BY <1>4, <1>6, <3>1
  <2> QED  BY <2>1, <2>2
<1> QED  BY <1>3, <1>6, <1>7 DEF WholeInv, AllScheduled

LEMMA WholeStep ==
  ASSUME HistoryTypeInv, OneRequest, WholeInv, FileHistoryNext \/ UNCHANGED fileHistory
  PROVE  WholeInv'
<1>1. CASE UNCHANGED fileHistory
  BY <1>1 DEF fileHistory, WholeInv, RowsFollow, AllScheduled, EndTasks
<1>2. ASSUME NEW t \in Task, EndTask(t) \/ EvictFact(t) PROVE WholeInv'
  <2>1. PICK s \in {"pending", "done", "failed", "quarantined"} :
          work' = [work EXCEPT ![t].state = s]
    BY <1>2 DEF EndTask, EvictFact
  <2>2. work[t].state # "absent" /\ UNCHANGED <<query, link>>
    BY <1>2 DEF EndTask, EvictFact
  <2>3. \A u \in Task : /\ work'[u].path = work[u].path
                        /\ work'[u].state = "absent" <=> work[u].state = "absent"
    BY <2>1, <2>2 DEF HistoryTypeInv, RowStates
  <2>4. RowsFollow'
    BY <2>2, <2>3 DEF WholeInv, RowsFollow
  <2>5. \A q \in Query : EndTasks(q)' = EndTasks(q) /\ EndTasks(q) \subseteq Task
    <3> SUFFICES ASSUME NEW q \in Query
                 PROVE  EndTasks(q)' = EndTasks(q) /\ EndTasks(q) \subseteq Task
      OBVIOUS
    <3>1. EndTasks(q)' = EndTasks(q)
      BY <2>2 DEF EndTasks
    <3>2. \A e \in Ends(query[q].units, QueryPath[q]) : TasksOf(e) \subseteq Task
      BY PathsAgree, EndTasksFollow
    <3> QED  BY <3>1, <3>2 DEF EndTasks
  <2>6. AllScheduled'
    BY <2>2, <2>3, <2>5 DEF WholeInv, AllScheduled
  <2> QED  BY <2>4, <2>6 DEF WholeInv
<1>3. ASSUME NEW q \in Query, Schedule(q) PROVE WholeInv'
  BY <1>3, ScheduleIsWhole
<1>4. ASSUME NEW q \in Query,
             \/ RemovePlan(q) \/ RenamePlan(q) \/ ReadPlan(q) \/ DeletePlan(q)
             \/ CountPending(q) \/ ListOpen(q) \/ Aggregate(q) \/ Repeat(q)
      PROVE  WholeInv'
  <2>a. UNCHANGED <<work, link>>
    BY <1>4 DEF RemovePlan, RenamePlan, ReadPlan, DeletePlan, CountPending, ListOpen,
                Aggregate, Repeat
  <2>b. \E v : query' = [query EXCEPT ![q] = v]
    <3>1. CASE ReadPlan(q) \/ Repeat(q)
      BY <3>1 DEF ReadPlan, Repeat
    <3>2. CASE Aggregate(q)
      BY <3>2, Zenon DEF Aggregate
    <3>3. CASE CountPending(q) \/ ListOpen(q)
      BY <3>3 DEF CountPending, ListOpen
    <3>4. CASE RemovePlan(q) \/ RenamePlan(q) \/ DeletePlan(q)
      BY <3>4 DEF RemovePlan, RenamePlan, DeletePlan, At
    <3> QED  BY <1>4, <3>1, <3>2, <3>3, <3>4
  <2>1. query[q] \in QueryStates /\ query' = [query EXCEPT ![q] = query'[q]]
        /\ UNCHANGED <<work, link>>
    BY <2>a, <2>b DEF HistoryTypeInv
  <2>2. query'[q].pc \in {"scheduled", "counted", "listed"} =>
          query'[q].units = query[q].units /\ query[q].pc \in {"scheduled", "counted", "listed"}
    <3>1. CASE CountPending(q) \/ ListOpen(q)
      BY <2>1, <3>1 DEF QueryStates, HistoryTypeInv, CountPending, ListOpen
    <3>2. CASE ReadPlan(q) \/ Repeat(q)
      BY <2>1, <3>2 DEF QueryStates, HistoryTypeInv, ReadPlan, Repeat
    <3>3. CASE RemovePlan(q) \/ RenamePlan(q) \/ DeletePlan(q)
      BY <2>1, <3>3 DEF QueryStates, HistoryTypeInv, RemovePlan, RenamePlan, DeletePlan, At
    <3>4. CASE Aggregate(q)
      <4>1. \E a, c : query' = [query EXCEPT ![q] = [query[q] EXCEPT !.pc = "answered",
                                   !.pending = 0, !.open = {}, !.answer = a, !.complete = c]]
        BY <3>4, Zenon DEF Aggregate
      <4>2. PICK a, c : query' = [query EXCEPT ![q] = [query[q] EXCEPT !.pc = "answered",
                                    !.pending = 0, !.open = {}, !.answer = a, !.complete = c]]
        BY <4>1
      <4>3. query'[q].pc = "answered"
        BY <2>1, <4>2 DEF HistoryTypeInv, QueryStates
      <4> QED  BY <4>3
    <3> QED  BY <1>4, <3>1, <3>2, <3>3, <3>4
  <2>3. PICK new : new = query'[q]
    OBVIOUS
  <2> QED  BY <2>1, <2>2, <2>3, RowsStay
<1> QED  BY <1>1, <1>2, <1>3, <1>4 DEF FileHistoryNext

(* The ends of one unit of a history are ends of the history.              *)
LEMMA UnitEndsAreEnds ==
  ASSUME NEW steps, NEW i \in DOMAIN steps, NEW path
  PROVE  Ends(<<steps[i]>>, path) \subseteq Ends(steps, path)
<1> DEFINE tus(p, rev) == IF path \in HeaderPath THEN TusOf(p, rev) ELSE {}
           end(rev, p, others) ==
             [rev |-> rev, path |-> p, contexts |-> EndpointContexts(p, rev, others)]
           unitEnds(s) ==
             (IF s.exists_before /\ s.unit.base # 0
              THEN {end(s.unit.base, s.before, tus(s.after, s.unit.head))} ELSE {})
             \cup (IF s.exists_after
                   THEN {end(s.unit.head, s.after, tus(s.before, s.unit.base))} ELSE {})
           first == {end(Max(DOMAIN History), path, {})}
           one == <<steps[i]>>
<1>1. /\ Ends(steps, path) = first \cup UNION {unitEnds(steps[j]) : j \in DOMAIN steps}
      /\ Ends(one, path) = first \cup UNION {unitEnds(one[j]) : j \in DOMAIN one}
  BY Zenon DEF Ends
<1>2. DOMAIN one = {1} /\ one[1] = steps[i]
  OBVIOUS
<1>3. {unitEnds(one[j]) : j \in DOMAIN one} \subseteq {unitEnds(steps[j]) : j \in DOMAIN steps}
  <2> HIDE DEF unitEnds, one
  <2> QED  BY <1>2
<1>4. ASSUME NEW A, NEW B, A \subseteq B PROVE first \cup UNION A \subseteq first \cup UNION B
  BY <1>4
<1> DEFINE ofOne == {unitEnds(one[j]) : j \in DOMAIN one}
           ofAll == {unitEnds(steps[j]) : j \in DOMAIN steps}
<1>5. Ends(steps, path) = first \cup UNION ofAll /\ Ends(one, path) = first \cup UNION ofOne
  BY <1>1
<1> HIDE DEF ofOne, ofAll, first
<1> QED  BY <1>3, <1>4, <1>5 DEF ofOne, ofAll

(* A command answers.                                                      *)
LEMMA AnswerIsWhole ==
  ASSUME HistoryTypeInv, OneRequest, WholeInv, NEW q \in Query, Aggregate(q),
         NEW i \in query'[q].complete, NEW t \in Expected(q, query[q].units[i])
  PROVE  \/ work[t].state = "done"
         \/ work[t].state \notin {"absent", "failed"} /\ ~ \E o \in query[q].open : o.task = t
<1> DEFINE steps == query[q].units
           s == steps[i]
           path == QueryPath[q]
<1>1. /\ i \in DOMAIN steps
      /\ s.exists_before => Ready(q, s.unit.base, s.before)
      /\ s.exists_after => Ready(q, s.unit.head, s.after)
  <2> DEFINE ready(x) == /\ x.exists_before => Ready(q, x.unit.base, x.before)
                         /\ x.exists_after => Ready(q, x.unit.head, x.after)
             complete == {j \in DOMAIN steps : ready(steps[j])}
  <2>1. \E a : query' = [query EXCEPT ![q] = [query[q] EXCEPT !.pc = "answered", !.pending = 0,
                           !.open = {}, !.answer = a, !.complete = complete]]
    BY Zenon DEF Aggregate
  <2> HIDE DEF complete, steps
  <2>2. query'[q].complete = complete
    BY <2>1 DEF HistoryTypeInv, QueryStates
  <2>3. i \in complete
    BY <2>2
  <2> QED  BY <2>3 DEF complete
<1>2. PICK e \in Ends(<<s>>, path) :
        /\ t \in TasksOf(e)
        /\ \/ s.exists_before /\ <<e.rev, e.path>> = <<s.unit.base, s.before>>
           \/ s.exists_after /\ <<e.rev, e.path>> = <<s.unit.head, s.after>>
  BY DEF Expected
<1>3. Ready(q, e.rev, e.path)
  <2>1. CASE s.exists_before /\ <<e.rev, e.path>> = <<s.unit.base, s.before>>
    <3>1. e.rev = s.unit.base /\ e.path = s.before /\ Ready(q, s.unit.base, s.before)
      BY <1>1, <2>1
    <3> HIDE DEF s
    <3> QED  BY <3>1
  <2>2. CASE s.exists_after /\ <<e.rev, e.path>> = <<s.unit.head, s.after>>
    <3>1. e.rev = s.unit.head /\ e.path = s.after /\ Ready(q, s.unit.head, s.after)
      BY <1>1, <2>2
    <3> HIDE DEF s
    <3> QED  BY <3>1
  <2> QED  BY <1>2, <2>1, <2>2
<1>4. e \in Ends(steps, path)
  BY <1>1, <1>2, UnitEndsAreEnds
<1> HIDE DEF s
<1>5. /\ e.path = PathAt[e.rev] /\ TasksOf(e) \subseteq Task
      /\ \A u \in TasksOf(e) : u[1] = e.rev
  BY <1>4, PathsAgree, EndTasksFollow
<1>6. t \in Task /\ t[1] = e.rev
  BY <1>2, <1>5
<1>7. work[t].state # "absent"
  <2>1. t \in EndTasks(q)
    BY <1>2, <1>4 DEF EndTasks
  <2>2. query[q].pc = "listed"
    BY DEF Aggregate
  <2> QED  BY <2>1, <2>2 DEF WholeInv, AllScheduled
<1>8. work[t].path = e.path /\ t \in Linked(q)
  BY <1>5, <1>6, <1>7 DEF WholeInv, RowsFollow, Linked
<1>9. Key(t) = <<e.rev, e.path>>
  BY <1>6, <1>8 DEF Key
<1>10. Key(t) \notin Unavailable(q)
  BY <1>3, <1>9 DEF Ready
<1>11. work[t].state # "failed"
  BY <1>8, <1>10 DEF Unavailable
<1>12. ~ \E o \in query[q].open : o.task = t
  BY <1>10 DEF Unavailable
<1> QED  BY <1>7, <1>11, <1>12

(* aggregate_analysis calls a transition complete only when the element    *)
(* facts of every context of its ends are in it, for commands that all ask *)
(* for one path since one time: an endpoint is joined by revision and      *)
(* path, so that the rows of another request could stand for it.           *)
THEOREM CompleteMeansWhole ==
  ASSUME OneRequest PROVE Spec => CompleteTransitionsAreWhole
<1> DEFINE Step1 == \A q \in Query : query[q].pc = "listed" /\ query'[q].pc = "answered" =>
             \A i \in query'[q].complete : \A t \in Expected(q, query[q].units[i]) :
               \/ work[t].state = "done"
               \/ work[t].state \notin {"absent", "failed"}
                  /\ ~ \E o \in query[q].open : o.task = t
<1>1. Init => WholeInv
  BY DEF Init, FileHistoryInit, WholeInv, RowsFollow, AllScheduled
<1>2. QueryInv /\ WholeInv /\ [Next]_vars => WholeInv'
  <2> SUFFICES ASSUME QueryInv, WholeInv, [Next]_vars PROVE WholeInv'
    OBVIOUS
  <2>1. FileHistoryNext \/ UNCHANGED fileHistory
    BY DEF Next, vars, Answer, Answered
  <2> QED  BY <2>1, WholeStep DEF QueryInv
<1>3. QueryInv /\ WholeInv /\ [Next]_vars => [Step1]_fileHistory
  <2> SUFFICES ASSUME QueryInv, WholeInv, [Next]_vars, fileHistory' # fileHistory,
                      NEW q \in Query, query[q].pc = "listed", query'[q].pc = "answered"
               PROVE  Aggregate(q)
    BY AnswerIsWhole DEF QueryInv
  <2>1. FileHistoryNext
    BY DEF Next, vars, Answer, Answered
  <2>2. query \in [Query -> QueryStates]
    BY DEF QueryInv, HistoryTypeInv
  <2>3. ASSUME NEW t \in Task, EndTask(t) \/ EvictFact(t) PROVE FALSE
    BY <2>3 DEF EndTask, EvictFact
  <2>4. ASSUME NEW r \in Query, RemovePlan(r) \/ RenamePlan(r) \/ DeletePlan(r) \/ Schedule(r)
        PROVE  FALSE
    BY <2>2, <2>4 DEF RemovePlan, RenamePlan, DeletePlan, Schedule, At, QueryStates
  <2>5. ASSUME NEW r \in Query, ReadPlan(r) \/ CountPending(r) \/ ListOpen(r) \/ Repeat(r)
        PROVE  FALSE
    BY <2>2, <2>5 DEF ReadPlan, CountPending, ListOpen, Repeat, QueryStates
  <2>6. ASSUME NEW r \in Query, Aggregate(r) PROVE r = q
    <3>1. \E v : query' = [query EXCEPT ![r] = v]
      BY <2>6, Zenon DEF Aggregate
    <3> QED  BY <2>2, <3>1
  <2> QED  BY <2>1, <2>3, <2>4, <2>5, <2>6 DEF FileHistoryNext
<1>4. Spec => []WholeInv
  BY <1>1, <1>2, QueryInvHolds, PTL DEF Spec
<1>5. Spec => [][Step1]_fileHistory
  BY <1>3, <1>4, QueryInvHolds, PTL DEF Spec
<1> QED  BY <1>5 DEF CompleteTransitionsAreWhole

-----------------------------------------------------------------------------
(* Statistics.  A repeated step has all its results.                       *)
StepsFrom(f, n, S, a, g) ==
  f \in [0 .. n -> S] /\ f[0] = a /\ \A k \in 1 .. n : f[k] = g[k][f[k - 1]]

LEMMA StepsExist ==
  ASSUME NEW n \in Nat, NEW S, NEW a \in S, NEW g \in [1 .. n -> [S -> S]]
  PROVE  \E f : StepsFrom(f, n, S, a, g)
<1> DEFINE Some(m) == \E f \in [0 .. m -> S] : f[0] = a /\ \A k \in 1 .. m : f[k] = g[k][f[k - 1]]
           G == {m \in Nat : m <= n => Some(m)}
<1>1. 0 \in G
  <2> DEFINE f == [k \in 0 .. 0 |-> a]
  <2>1. f \in [0 .. 0 -> S] /\ f[0] = a
    OBVIOUS
  <2>2. \A k \in 1 .. 0 : f[k] = g[k][f[k - 1]]
    OBVIOUS
  <2> HIDE DEF f
  <2>3. Some(0)
    BY <2>1, <2>2, Zenon
  <2> HIDE DEF Some
  <2> QED  BY <2>3
<1>2. ASSUME NEW m \in Nat, m \in G PROVE m + 1 \in G
  <2>1. CASE ~(m + 1 <= n)
    BY <2>1
  <2>2. CASE m + 1 <= n
    <3>1. PICK f \in [0 .. m -> S] : f[0] = a /\ \A k \in 1 .. m : f[k] = g[k][f[k - 1]]
      BY <1>2, <2>2
    <3> DEFINE h == [k \in 0 .. m + 1 |-> IF k <= m THEN f[k] ELSE g[m + 1][f[m]]]
    <3>2. m \in 0 .. m /\ f[m] \in S /\ g[m + 1] \in [S -> S]
      BY <2>2, <3>1
    <3>3. h \in [0 .. m + 1 -> S] /\ h[0] = a
      BY <3>1, <3>2
    <3>4. ASSUME NEW k \in 1 .. m + 1 PROVE h[k] = g[k][h[k - 1]]
      <4>1. k - 1 \in 0 .. m /\ h[k - 1] = f[k - 1]
        OBVIOUS
      <4>2. CASE k <= m
        <5>1. h[k] = f[k] /\ k \in 1 .. m
          BY <4>2
        <5> HIDE DEF h
        <5> QED  BY <3>1, <4>1, <5>1
      <4>3. CASE ~(k <= m)
        <5>1. k = m + 1 /\ h[k] = g[m + 1][f[m]] /\ k - 1 = m
          BY <4>3
        <5> HIDE DEF h
        <5> QED  BY <4>1, <5>1
      <4> QED  BY <4>2, <4>3
    <3> HIDE DEF h
    <3>5. Some(m + 1)
      BY <3>3, <3>4
    <3> QED  BY <3>5
  <2> QED  BY <2>1, <2>2
<1>3. n \in G
  <2> HIDE DEF G
  <2> QED  BY <1>1, <1>2, NumberInduction
<1> QED  BY <1>3 DEF StepsFrom

(* What a transition says of its bundles.                                  *)
TransitionIs(t, before, after) ==
  /\ Len(t.facts) \in Nat /\ DOMAIN t.facts = 1 .. Len(t.facts) /\ DOMAIN t.facts = DOMAIN before
  /\ 0 \notin DOMAIN after /\ t.added \subseteq DOMAIN after
  /\ \A k \in DOMAIN before : t.facts[k].before = before[k].id
                              /\ (t.facts[k].to = 0 \/ t.facts[k].to \in DOMAIN after)
  /\ \A i \in DOMAIN after : i \in t.added \/ \E k \in DOMAIN before : t.facts[k].to = i

LEMMA TransitionHolds ==
  ASSUME NEW before, IsBundle(before), NEW after, IsBundle(after), NEW assertions
  PROVE  TransitionIs(Transition(before, after, assertions), before, after)
<1> DEFINE to == Successors(before, after, assertions)
           used(k) == {to[j] : j \in 1 .. k - 1}
           t == Transition(before, after, assertions)
<1>1. /\ Len(before) \in Nat /\ DOMAIN before = 1 .. Len(before)
      /\ Len(after) \in Nat /\ DOMAIN after = 1 .. Len(after)
  BY BundleDomain
<1>2. \A k \in DOMAIN before : to[k] = Successor(after, assertions, used(k), before[k])
  BY SuccessorsFollow DEF SuccessorsAre
<1>3. \A k \in DOMAIN before : to[k] = 0 \/ to[k] \in DOMAIN after
  <2> SUFFICES ASSUME NEW k \in DOMAIN before PROVE to[k] = 0 \/ to[k] \in DOMAIN after
    OBVIOUS
  <2> DEFINE i == Successor(after, assertions, used(k), before[k])
  <2>1. i # 0 => i \in DOMAIN after
    <3> HIDE DEF to, used
    <3> QED  BY SuccessorIsFree
  <2>2. to[k] = i
    BY <1>2
  <2> HIDE DEF to, used, i
  <2> QED  BY <2>1, <2>2
<1>4. /\ t.facts = [k \in DOMAIN before |-> Fact(before[k], after, to[k])]
      /\ t.added = DOMAIN after \ {to[k] : k \in DOMAIN before}
  <2> HIDE DEF to
  <2> DEFINE lost == {k \in DOMAIN before : to[k] = 0}
             facts == [k \in DOMAIN before |-> Fact(before[k], after, to[k])]
             added == DOMAIN after \ {to[k] : k \in DOMAIN before}
             sugg == UNION {Suggestions(before[k], after, assertions, used(k)) : k \in lost}
  <2>1. t = [facts |-> facts, added |-> added, partial |-> lost # {}, candidates |-> sugg,
             relations |-> Relations(before, after, facts, added)]
    BY DEF Transition, to
  <2> HIDE DEF t, lost, facts, added, sugg
  <2>2. t.facts = facts /\ t.added = added
    BY <2>1
  <2> QED  BY <2>2 DEF facts, added
<1> HIDE DEF to, t
<1>5. /\ DOMAIN t.facts = DOMAIN before /\ Len(t.facts) = Len(before)
      /\ \A k \in DOMAIN before : t.facts[k].before = before[k].id /\ t.facts[k].to = to[k]
  BY <1>1, <1>4 DEF Fact
<1>6. \A i \in DOMAIN after : i \in t.added \/ \E k \in DOMAIN before : t.facts[k].to = i
  BY <1>4, <1>5
<1>7. 0 \notin DOMAIN after /\ t.added \subseteq DOMAIN after
  BY <1>1, <1>4
<1> QED  BY <1>1, <1>3, <1>5, <1>6, <1>7 DEF TransitionIs, t

(* The transitions of the bundles.                                         *)
TransitionsAre(t, bundles) ==
  /\ AreBundles(bundles)
  /\ Len(t) \in Nat /\ DOMAIN t = 1 .. Len(t) /\ Len(bundles) = Len(t) + 1
  /\ \A v \in DOMAIN t : v \in DOMAIN bundles /\ v + 1 \in DOMAIN bundles
                         /\ TransitionIs(t[v], bundles[v], bundles[v + 1])

LEMMA TransitionsHold ==
  ASSUME NEW bundles, AreBundles(bundles), NEW assertions
  PROVE  TransitionsAre(Transitions(bundles, assertions), bundles)
<1> DEFINE n == Len(bundles) - 1
           t == Transitions(bundles, assertions)
<1>1. n \in Nat /\ DOMAIN bundles = 1 .. n + 1
  BY DEF AreBundles
<1>2. t = [v \in 1 .. n |-> Transition(bundles[v], bundles[v + 1], assertions)]
  BY DEF Transitions
<1> HIDE DEF t
<1>3. DOMAIN t = 1 .. n /\ Len(t) = n
  <2> HIDE DEF n
  <2> QED  BY <1>1, <1>2
<1>4. ASSUME NEW v \in 1 .. n
      PROVE  v \in DOMAIN bundles /\ v + 1 \in DOMAIN bundles
             /\ TransitionIs(t[v], bundles[v], bundles[v + 1])
  <2>1. v \in DOMAIN bundles /\ v + 1 \in DOMAIN bundles
    <3> HIDE DEF n
    <3> QED  BY <1>1
  <2>2. IsBundle(bundles[v]) /\ IsBundle(bundles[v + 1])
    BY <2>1 DEF AreBundles
  <2>3. t[v] = Transition(bundles[v], bundles[v + 1], assertions)
    BY <1>2
  <2> QED  BY <2>1, <2>2, <2>3, TransitionHolds
<1> QED  BY <1>1, <1>3, <1>4 DEF TransitionsAre, t

(* The roots are the components of the pairs that were united.             *)
ClosedUnder(S, P) == \A p \in P : p[1] \in S <=> p[2] \in S
LinkedBy(P, x, y) == \A S \in SUBSET ElementId : ClosedUnder(S, P) => (x \in S <=> y \in S)

Components(root, P) ==
  /\ root \in [ElementId -> ElementId]
  /\ \A p \in P : root[p[1]] = root[p[2]]
  /\ \A x, y \in ElementId : root[x] = root[y] => LinkedBy(P, x, y)

LEMMA LeastAndGreatest ==
  ASSUME NEW a \in Nat, NEW b \in Nat
  PROVE  \/ Min({a, b}) = a /\ Max({a, b}) = b
         \/ Min({a, b}) = b /\ Max({a, b}) = a
<1>1. \E m \in {a, b} : \A x \in {a, b} : m <= x
  OBVIOUS
<1>2. \E m \in {a, b} : \A x \in {a, b} : m >= x
  OBVIOUS
<1> DEFINE low == CHOOSE m \in {a, b} : \A x \in {a, b} : m <= x
           high == CHOOSE m \in {a, b} : \A x \in {a, b} : m >= x
<1>3. low \in {a, b} /\ \A x \in {a, b} : low <= x
  BY <1>1
<1>4. high \in {a, b} /\ \A x \in {a, b} : high >= x
  BY <1>2
<1>5. Min({a, b}) = low /\ Max({a, b}) = high
  BY Zenon DEF Min, Max
<1> HIDE DEF low, high
<1> QED  BY <1>3, <1>4, <1>5

LEMMA UniteJoins ==
  ASSUME NEW root, NEW P, P \subseteq ElementId \X ElementId, Components(root, P),
         NEW x \in ElementId, NEW y \in ElementId
  PROVE  Components(Unite(root, x, y), P \cup {<<x, y>>})
<1> DEFINE low == Min({root[x], root[y]})
           high == Max({root[x], root[y]})
           new == Unite(root, x, y)
           Q == P \cup {<<x, y>>}
<1>1. root[x] \in ElementId /\ root[y] \in ElementId /\ ElementId \subseteq Nat
  BY ElementIdAssumption DEF Components
<1>2. \/ low = root[x] /\ high = root[y]
      \/ low = root[y] /\ high = root[x]
  BY <1>1, LeastAndGreatest
<1>3. new = [id \in ElementId |-> IF root[id] = high THEN low ELSE root[id]]
  BY DEF Unite
<1> HIDE DEF low, high, new
<1>4. new \in [ElementId -> ElementId]
  BY <1>1, <1>2, <1>3 DEF Components
<1>5. \A p \in Q : new[p[1]] = new[p[2]]
  <2>1. new[x] = low /\ new[y] = low
    BY <1>2, <1>3
  <2>2. ASSUME NEW p \in P PROVE new[p[1]] = new[p[2]]
    BY <1>3 DEF Components
  <2> QED  BY <2>1, <2>2
<1>6. ASSUME NEW a \in ElementId, NEW b \in ElementId, LinkedBy(P, a, b) PROVE LinkedBy(Q, a, b)
  <2>1. \A S \in SUBSET ElementId : ClosedUnder(S, Q) => ClosedUnder(S, P)
    BY DEF ClosedUnder
  <2> QED  BY <1>6, <2>1 DEF LinkedBy
<1>7. LinkedBy(Q, x, y)
  <2>1. <<x, y>> \in Q /\ <<x, y>>[1] = x /\ <<x, y>>[2] = y
    OBVIOUS
  <2>2. ASSUME NEW S, ClosedUnder(S, Q) PROVE x \in S <=> y \in S
    <3> HIDE DEF Q
    <3> QED  BY <2>1, <2>2 DEF ClosedUnder
  <2> QED  BY <2>2 DEF LinkedBy
<1>8. ASSUME NEW a \in ElementId, NEW b \in ElementId, new[a] = new[b] PROVE LinkedBy(Q, a, b)
  <2>1. CASE root[a] = root[b]
    BY <1>6, <2>1 DEF Components
  <2>2. CASE root[a] = root[x] /\ root[b] = root[y]
    <3>1. LinkedBy(Q, a, x) /\ LinkedBy(Q, b, y)
      BY <1>6, <2>2 DEF Components
    <3> QED  BY <1>7, <3>1 DEF LinkedBy
  <2>3. CASE root[a] = root[y] /\ root[b] = root[x]
    <3>1. LinkedBy(Q, a, y) /\ LinkedBy(Q, b, x)
      BY <1>6, <2>3 DEF Components
    <3> QED  BY <1>7, <3>1 DEF LinkedBy
  <2> QED  BY <1>2, <1>3, <1>8, <2>1, <2>2, <2>3
<1> QED  BY <1>4, <1>5, <1>8 DEF Components, new, Q

(* What the facts of a transition join.                                    *)
PairOf(bundles, t, v, k) == <<t[v].facts[k].before, bundles[v + 1][t[v].facts[k].to].id>>
Joining(t, v, n) == {k \in 1 .. n : t[v].facts[k].to # 0}
PairsTo(bundles, t, v, n) == {PairOf(bundles, t, v, k) : k \in Joining(t, v, n)}
PairsOf(bundles, t, v) == PairsTo(bundles, t, v, Len(t[v].facts))
AllPairs(bundles, t, n) == UNION {PairsOf(bundles, t, v) : v \in 1 .. n}

LEMMA PairsAreIds ==
  ASSUME NEW bundles, NEW t, TransitionsAre(t, bundles), NEW v \in DOMAIN t
  PROVE  /\ \A k \in DOMAIN t[v].facts : t[v].facts[k].before \in ElementId
         /\ \A k \in DOMAIN t[v].facts :
              t[v].facts[k].to # 0 => PairOf(bundles, t, v, k) \in ElementId \X ElementId
         /\ PairsOf(bundles, t, v) \subseteq ElementId \X ElementId
<1>1. /\ v \in DOMAIN bundles /\ v + 1 \in DOMAIN bundles
      /\ TransitionIs(t[v], bundles[v], bundles[v + 1])
  BY DEF TransitionsAre
<1>2. /\ \A k \in DOMAIN bundles[v] : bundles[v][k].id \in ElementId
      /\ \A k \in DOMAIN bundles[v + 1] : bundles[v + 1][k].id \in ElementId
  BY <1>1 DEF TransitionsAre, AreBundles
<1>3. \A k \in DOMAIN t[v].facts : t[v].facts[k].before \in ElementId
  BY <1>1, <1>2 DEF TransitionIs
<1>4. \A k \in DOMAIN t[v].facts :
        t[v].facts[k].to # 0 => PairOf(bundles, t, v, k) \in ElementId \X ElementId
  BY <1>1, <1>2, <1>3 DEF TransitionIs, PairOf
<1>5. PairsOf(bundles, t, v) \subseteq ElementId \X ElementId
  <2>1. \A k \in Joining(t, v, Len(t[v].facts)) :
          k \in DOMAIN t[v].facts /\ t[v].facts[k].to # 0
    BY <1>1 DEF TransitionIs, Joining
  <2> QED  BY <1>4, <2>1 DEF PairsOf, PairsTo
<1> QED  BY <1>3, <1>4, <1>5

(* Uniting the facts of a transition, one after the other.                 *)
LEMMA FactsJoin ==
  ASSUME NEW bundles, NEW t, TransitionsAre(t, bundles), NEW v \in DOMAIN t, NEW root, NEW P,
         P \subseteq ElementId \X ElementId, Components(root, P)
  PROVE  Components(UniteFacts(bundles, t, v, root), P \cup PairsOf(bundles, t, v))
<1> DEFINE facts == t[v].facts
           n == Len(facts)
           Rootings == [ElementId -> ElementId]
           step(r, k) == IF facts[k].to = 0 THEN r
                         ELSE Unite(r, facts[k].before, bundles[v + 1][facts[k].to].id)
           Are(f) == f = [k \in 0 .. n |-> IF k = 0 THEN root ELSE step(f[k - 1], k)]
<1>1. n \in Nat /\ DOMAIN facts = 1 .. n
  BY DEF TransitionsAre, TransitionIs
<1>2. /\ \A k \in 1 .. n : facts[k].before \in ElementId
      /\ \A k \in 1 .. n : facts[k].to # 0 =>
           PairOf(bundles, t, v, k) \in ElementId \X ElementId
  BY <1>1, PairsAreIds
<1>3. \A k \in 1 .. n : facts[k].to # 0 => bundles[v + 1][facts[k].to].id \in ElementId
  BY <1>2 DEF PairOf
<1>4. root \in Rootings
  BY DEF Components
<1>5. ASSUME NEW r \in Rootings, NEW x \in ElementId, NEW y \in ElementId
      PROVE  Unite(r, x, y) \in Rootings
  <2> DEFINE low == Min({r[x], r[y]})
             high == Max({r[x], r[y]})
  <2>1. r[x] \in ElementId /\ r[y] \in ElementId /\ ElementId \subseteq Nat
    BY ElementIdAssumption
  <2>2. low \in ElementId
    BY <2>1, LeastAndGreatest
  <2>3. Unite(r, x, y) = [id \in ElementId |-> IF r[id] = high THEN low ELSE r[id]]
    BY DEF Unite
  <2> HIDE DEF low, high
  <2> QED  BY <2>2, <2>3
<1> HIDE DEF n, facts
<1>6. ASSUME NEW r \in Rootings, NEW k \in 1 .. n PROVE step(r, k) \in Rootings
  BY <1>2, <1>3, <1>5, <1>6
<1> HIDE DEF Rootings
<1>7. \E f \in [0 .. n -> Rootings] : f[0] = root /\ \A k \in 1 .. n : f[k] = step(f[k - 1], k)
  <2> DEFINE g == [k \in 1 .. n |-> [r \in Rootings |-> step(r, k)]]
  <2> HIDE DEF step
  <2>1. g \in [1 .. n -> [Rootings -> Rootings]]
    BY <1>6
  <2>2. \A k \in 1 .. n : \A r \in Rootings : g[k][r] = step(r, k)
    OBVIOUS
  <2> HIDE DEF g
  <2>a. PICK f : StepsFrom(f, n, Rootings, root, g)
    BY <1>1, <1>4, <2>1, StepsExist
  <2>3. f \in [0 .. n -> Rootings] /\ f[0] = root /\ \A k \in 1 .. n : f[k] = g[k][f[k - 1]]
    BY <2>a DEF StepsFrom
  <2>4. \A k \in 1 .. n : k - 1 \in 0 .. n
    BY <1>1
  <2>5. \A k \in 1 .. n : f[k] = step(f[k - 1], k)
    BY <2>2, <2>3, <2>4
  <2> QED  BY <2>3, <2>5
<1> HIDE DEF step
<1>8. \E f : Are(f)
  <2>1. PICK f \in [0 .. n -> Rootings] : f[0] = root /\ \A k \in 1 .. n : f[k] = step(f[k - 1], k)
    BY <1>7
  <2>2. \A k \in 0 .. n : f[k] = IF k = 0 THEN root ELSE step(f[k - 1], k)
    BY <1>1, <2>1
  <2>3. f = [k \in 0 .. n |-> f[k]]
    OBVIOUS
  <2>4. Are(f)
    BY <2>2, <2>3
  <2> QED  BY <2>4
<1> DEFINE after == CHOOSE f : Are(f)
<1>9. Are(after)
  <2> HIDE DEF Are
  <2> QED  BY <1>8
<1>10. UniteFacts(bundles, t, v, root) = after[n]
  BY DEF UniteFacts, n, facts, step
<1> HIDE DEF after
<1>11. after[0] = root /\ \A k \in 1 .. n : after[k] = step(after[k - 1], k)
  <2>1. \A k \in 0 .. n : after[k] = IF k = 0 THEN root ELSE step(after[k - 1], k)
    BY <1>9
  <2>2. 0 \in 0 .. n /\ \A k \in 1 .. n : k \in 0 .. n /\ k # 0
    BY <1>1
  <2> QED  BY <2>1, <2>2
<1> DEFINE Pairs(k) == P \cup PairsTo(bundles, t, v, k)
           G == {k \in Nat : k <= n => Components(after[k], Pairs(k))}
<1>12. 0 \in G
  <2>1. Pairs(0) = P
    BY DEF PairsTo, Joining
  <2> HIDE DEF Pairs
  <2> QED  BY <1>11, <2>1
<1>13. ASSUME NEW k \in Nat, k \in G PROVE k + 1 \in G
  <2> SUFFICES ASSUME k + 1 <= n PROVE Components(after[k + 1], Pairs(k + 1))
    OBVIOUS
  <2>1. k + 1 \in 1 .. n /\ Components(after[k], Pairs(k)) /\ (k + 1) - 1 = k
    BY <1>1, <1>13
  <2>2. after[k + 1] = step(after[k], k + 1)
    BY <1>11, <2>1
  <2>3. Pairs(k) \subseteq ElementId \X ElementId
    <3>1. \A j \in Joining(t, v, k) : PairOf(bundles, t, v, j) \in ElementId \X ElementId
      BY <1>1, <1>2, <2>1 DEF Joining, facts
    <3> QED  BY <3>1 DEF PairsTo
  <2>4. CASE facts[k + 1].to = 0
    <3>1. Joining(t, v, k + 1) = Joining(t, v, k)
      BY <2>1, <2>4 DEF Joining, facts
    <3>2. after[k + 1] = after[k]
      BY <2>2, <2>4 DEF step
    <3> QED  BY <2>1, <3>1, <3>2 DEF PairsTo
  <2>5. CASE facts[k + 1].to # 0
    <3>1. Joining(t, v, k + 1) = Joining(t, v, k) \cup {k + 1}
      BY <2>1, <2>5 DEF Joining, facts
    <3>2. Pairs(k + 1) = Pairs(k) \cup {PairOf(bundles, t, v, k + 1)}
      BY <3>1 DEF PairsTo
    <3> DEFINE x == facts[k + 1].before
               y == bundles[v + 1][facts[k + 1].to].id
    <3>3. x \in ElementId /\ y \in ElementId /\ PairOf(bundles, t, v, k + 1) = <<x, y>>
      BY <1>2, <1>3, <2>1, <2>5 DEF PairOf, facts
    <3>4. after[k + 1] = Unite(after[k], x, y)
      BY <2>2, <2>5 DEF step
    <3> HIDE DEF Pairs, x, y
    <3> QED  BY <2>1, <2>3, <3>2, <3>3, <3>4, UniteJoins
  <2> QED  BY <2>4, <2>5
<1>14. n \in G
  <2> HIDE DEF G
  <2> QED  BY <1>1, <1>12, <1>13, NumberInduction
<1>15. Components(after[n], Pairs(n))
  BY <1>1, <1>14
<1>16. Pairs(n) = P \cup PairsOf(bundles, t, v)
  BY DEF PairsOf, n, facts
<1> HIDE DEF Pairs, G
<1> QED  BY <1>10, <1>15, <1>16

(* And those of every transition: in whatever order they are taken, the    *)
(* roots are the components of what is joined.                             *)
LEMMA HistoriesAreComponents ==
  ASSUME NEW bundles, NEW t, TransitionsAre(t, bundles)
  PROVE  Components(HistoryOf(bundles, t), AllPairs(bundles, t, Len(t)))
<1> DEFINE n == Len(t)
           Rootings == [ElementId -> ElementId]
           first == [id \in ElementId |-> id]
           step(r, v) == UniteFacts(bundles, t, v, r)
           Are(f) == f = [v \in 0 .. n |-> IF v = 0 THEN first ELSE step(f[v - 1], v)]
           Good(r, v) == Components(r, AllPairs(bundles, t, v))
<1>1. n \in Nat /\ DOMAIN t = 1 .. n
  BY DEF TransitionsAre
<1>2. ASSUME NEW v \in 1 .. n, NEW P, P \subseteq ElementId \X ElementId, NEW r,
             Components(r, P)
      PROVE  Components(step(r, v), P \cup PairsOf(bundles, t, v))
  BY <1>1, <1>2, FactsJoin
<1>3. \A v \in 0 .. n : AllPairs(bundles, t, v) \subseteq ElementId \X ElementId
  <2>1. \A v \in 1 .. n : PairsOf(bundles, t, v) \subseteq ElementId \X ElementId
    BY <1>1, PairsAreIds
  <2>2. \A v \in 0 .. n : 1 .. v \subseteq 1 .. n
    BY <1>1
  <2> QED  BY <2>1, <2>2 DEF AllPairs
<1> HIDE DEF n, step
<1>4. ASSUME NEW v \in 1 .. n, NEW r, Good(r, v - 1) PROVE Good(step(r, v), v)
  <2>1. v - 1 \in 0 .. n /\ 1 .. v = (1 .. v - 1) \cup {v}
    BY <1>1
  <2>2. AllPairs(bundles, t, v) = AllPairs(bundles, t, v - 1) \cup PairsOf(bundles, t, v)
    BY <2>1 DEF AllPairs
  <2>3. AllPairs(bundles, t, v - 1) \subseteq ElementId \X ElementId
    BY <1>3, <2>1
  <2> QED  BY <1>2, <1>4, <2>2, <2>3
<1>5. Good(first, 0)
  <2>1. AllPairs(bundles, t, 0) = {}
    BY DEF AllPairs
  <2>2. Components(first, {})
    BY DEF Components, LinkedBy
  <2> QED  BY <2>1, <2>2
<1> HIDE DEF first, Good
<1> DEFINE G == {v \in Nat : v <= n => \E f : /\ f = [u \in 0 .. v |-> f[u]]
                                             /\ f[0] = first
                                             /\ \A u \in 1 .. v : f[u] = step(f[u - 1], u)}
<1>6. 0 \in G
  <2> DEFINE f == [u \in 0 .. 0 |-> first]
  <2>1. f = [u \in 0 .. 0 |-> f[u]] /\ f[0] = first
    OBVIOUS
  <2>2. \A u \in 1 .. 0 : f[u] = step(f[u - 1], u)
    OBVIOUS
  <2> HIDE DEF f
  <2> QED  BY <2>1, <2>2
<1>7. ASSUME NEW v \in Nat, v \in G PROVE v + 1 \in G
  <2> SUFFICES ASSUME v + 1 <= n
               PROVE  \E f : /\ f = [u \in 0 .. v + 1 |-> f[u]]
                             /\ f[0] = first
                             /\ \A u \in 1 .. v + 1 : f[u] = step(f[u - 1], u)
    OBVIOUS
  <2>1. v <= n
    BY <1>1
  <2>2. PICK f : /\ f = [u \in 0 .. v |-> f[u]]
                 /\ f[0] = first
                 /\ \A u \in 1 .. v : f[u] = step(f[u - 1], u)
    BY <1>7, <2>1
  <2> DEFINE h == [u \in 0 .. v + 1 |-> IF u <= v THEN f[u] ELSE step(f[v], v + 1)]
  <2>3. h = [u \in 0 .. v + 1 |-> h[u]] /\ h[0] = first
    BY <2>2
  <2>4. ASSUME NEW u \in 1 .. v + 1 PROVE h[u] = step(h[u - 1], u)
    <3>1. h[u - 1] = f[u - 1]
      OBVIOUS
    <3>2. CASE u <= v
      <4>1. h[u] = f[u] /\ u \in 1 .. v
        BY <3>2
      <4> HIDE DEF h
      <4> QED  BY <2>2, <3>1, <4>1
    <3>3. CASE ~(u <= v)
      <4>1. u = v + 1 /\ u - 1 = v /\ h[u] = step(f[v], v + 1)
        BY <3>3
      <4> HIDE DEF h
      <4> QED  BY <3>1, <4>1
    <3> QED  BY <3>2, <3>3
  <2> HIDE DEF h
  <2> QED  BY <2>3, <2>4
<1>8. n \in G
  <2> HIDE DEF G
  <2> QED  BY <1>1, <1>6, <1>7, NumberInduction
<1>9. \E f : Are(f)
  <2>1. PICK f : /\ f = [u \in 0 .. n |-> f[u]]
                 /\ f[0] = first
                 /\ \A u \in 1 .. n : f[u] = step(f[u - 1], u)
    BY <1>1, <1>8
  <2>2. \A v \in 0 .. n : f[v] = IF v = 0 THEN first ELSE step(f[v - 1], v)
    BY <1>1, <2>1
  <2>3. Are(f)
    BY <2>1, <2>2
  <2> QED  BY <2>3
<1> DEFINE after == CHOOSE f : Are(f)
<1>10. Are(after)
  <2> HIDE DEF Are
  <2> QED  BY <1>9
<1>11. HistoryOf(bundles, t) = after[n]
  BY DEF HistoryOf, n, step, first
<1> HIDE DEF after
<1>12. after[0] = first /\ \A v \in 1 .. n : after[v] = step(after[v - 1], v)
  <2>1. \A v \in 0 .. n : after[v] = IF v = 0 THEN first ELSE step(after[v - 1], v)
    BY <1>10
  <2>2. 0 \in 0 .. n /\ \A v \in 1 .. n : v \in 0 .. n /\ v # 0
    BY <1>1
  <2> QED  BY <2>1, <2>2
<1> DEFINE H == {v \in Nat : v <= n => Good(after[v], v)}
<1>13. 0 \in H
  BY <1>5, <1>12
<1>14. ASSUME NEW v \in Nat, v \in H PROVE v + 1 \in H
  <2> SUFFICES ASSUME v + 1 <= n PROVE Good(after[v + 1], v + 1)
    OBVIOUS
  <2>1. v + 1 \in 1 .. n /\ (v + 1) - 1 = v /\ Good(after[v], v)
    BY <1>1, <1>14
  <2> QED  BY <1>4, <1>12, <2>1
<1>15. n \in H
  <2> HIDE DEF H
  <2> QED  BY <1>1, <1>13, <1>14, NumberInduction
<1>16. Good(after[n], n)
  BY <1>1, <1>15
<1> QED  BY <1>11, <1>16 DEF Good, n

(* The facts that join, and the elements of a history in the versions.     *)
LEMMA JoinedFactsAre ==
  ASSUME NEW bundles, NEW t, TransitionsAre(t, bundles), NEW v \in DOMAIN t
  PROVE  /\ \A f \in JoinedFacts(bundles, t, v) : \E k \in Joining(t, v, Len(t[v].facts)) :
              PairOf(bundles, t, v, k) = <<f.before, f.after>>
         /\ \A p \in PairsOf(bundles, t, v) : \E f \in JoinedFacts(bundles, t, v) :
              f.before = p[1] /\ f.after = p[2]
<1> DEFINE seen == {f \in ToSet(t[v].facts) : f.to # 0}
           joined(f) ==
             [before |-> f.before, after |-> bundles[v + 1][f.to].id, continuity |-> f.continuity,
              content |-> f.content, dependencies_changed |-> f.dependencies_changed,
              path |-> bundles[v][IndexOf(bundles[v], f.before)].path,
              new_path |-> bundles[v + 1][f.to].path]
           n == Len(t[v].facts)
<1>1. n \in Nat /\ DOMAIN t[v].facts = 1 .. n
  BY DEF TransitionsAre, TransitionIs
<1>2. ToSet(t[v].facts) = {t[v].facts[k] : k \in DOMAIN t[v].facts}
  BY DEF ToSet
<1>3. JoinedFacts(bundles, t, v) = {joined(f) : f \in seen}
  BY DEF JoinedFacts
<1>4. \A f : joined(f).before = f.before /\ joined(f).after = bundles[v + 1][f.to].id
  OBVIOUS
<1> HIDE DEF joined, n
<1>5. ASSUME NEW f \in JoinedFacts(bundles, t, v)
      PROVE  \E k \in Joining(t, v, n) : PairOf(bundles, t, v, k) = <<f.before, f.after>>
  <2>1. PICK g \in seen : f = joined(g)
    BY <1>3
  <2>2. PICK k \in DOMAIN t[v].facts : g = t[v].facts[k] /\ t[v].facts[k].to # 0
    BY <1>2, <2>1
  <2>3. k \in Joining(t, v, n)
    BY <1>1, <2>2 DEF Joining
  <2> QED  BY <1>4, <2>1, <2>2, <2>3 DEF PairOf
<1>6. ASSUME NEW p \in PairsOf(bundles, t, v)
      PROVE  \E f \in JoinedFacts(bundles, t, v) : f.before = p[1] /\ f.after = p[2]
  <2>1. PICK k \in Joining(t, v, n) : p = PairOf(bundles, t, v, k)
    BY DEF PairsOf, PairsTo, n
  <2>2. k \in DOMAIN t[v].facts /\ t[v].facts[k].to # 0
    BY <1>1, <2>1 DEF Joining
  <2>3. t[v].facts[k] \in seen
    BY <1>2, <2>2
  <2>4. joined(t[v].facts[k]) \in JoinedFacts(bundles, t, v)
    BY <1>3, <2>3
  <2> QED  BY <1>4, <2>1, <2>4 DEF PairOf
<1> QED  BY <1>5, <1>6 DEF n

(* A fact joins an element of one version and an element of the next, of   *)
(* one history; whatever is not joined is lost or found.                   *)
Versions(bundles, root, h) ==
  {v \in DOMAIN bundles : \E i \in DOMAIN bundles[v] : root[bundles[v][i].id] = h}

LEMMA FactsAreObserved ==
  ASSUME NEW bundles, NEW t, TransitionsAre(t, bundles), NEW v \in DOMAIN t,
         NEW root, Components(root, AllPairs(bundles, t, Len(t))),
         NEW f \in JoinedFacts(bundles, t, v)
  PROVE  /\ v \in Versions(bundles, root, root[f.before])
         /\ v + 1 \in Versions(bundles, root, root[f.before])
         /\ root[f.after] = root[f.before]
<1>1. PICK k \in Joining(t, v, Len(t[v].facts)) :
        PairOf(bundles, t, v, k) = <<f.before, f.after>>
  BY JoinedFactsAre
<1>2. /\ v \in DOMAIN bundles /\ v + 1 \in DOMAIN bundles
      /\ TransitionIs(t[v], bundles[v], bundles[v + 1])
      /\ DOMAIN t = 1 .. Len(t)
  BY DEF TransitionsAre
<1>3. k \in DOMAIN bundles[v] /\ t[v].facts[k].to \in DOMAIN bundles[v + 1]
  BY <1>2 DEF TransitionIs, Joining
<1>4. f.before = bundles[v][k].id /\ f.after = bundles[v + 1][t[v].facts[k].to].id
  BY <1>1, <1>2, <1>3 DEF TransitionIs, PairOf
<1>5. <<f.before, f.after>> \in AllPairs(bundles, t, Len(t))
  BY <1>1, <1>2 DEF AllPairs, PairsOf, PairsTo
<1>6. root[f.after] = root[f.before]
  BY <1>5 DEF Components
<1> QED  BY <1>2, <1>3, <1>4, <1>6 DEF Versions

LEMMA UnresolvedElse ==
  ASSUME NEW bundles, NEW t, TransitionsAre(t, bundles), NEW v \in DOMAIN t,
         NEW root, Components(root, AllPairs(bundles, t, Len(t))), NEW h,
         ~ \E id \in Lost(t, v) \cup Found(bundles, t, v) : root[id] = h
  PROVE  v \in Versions(bundles, root, h) <=> v + 1 \in Versions(bundles, root, h)
<1>1. /\ v \in DOMAIN bundles /\ v + 1 \in DOMAIN bundles
      /\ TransitionIs(t[v], bundles[v], bundles[v + 1])
      /\ DOMAIN t = 1 .. Len(t)
  BY DEF TransitionsAre
<1>2. \A k \in DOMAIN bundles[v] : t[v].facts[k].to # 0 =>
        root[bundles[v][k].id] = root[bundles[v + 1][t[v].facts[k].to].id]
  <2> SUFFICES ASSUME NEW k \in DOMAIN bundles[v], t[v].facts[k].to # 0
               PROVE  root[bundles[v][k].id] = root[bundles[v + 1][t[v].facts[k].to].id]
    OBVIOUS
  <2>1. k \in Joining(t, v, Len(t[v].facts))
    BY <1>1 DEF Joining, TransitionIs
  <2>2. PairOf(bundles, t, v, k) \in AllPairs(bundles, t, Len(t))
    <3>1. PairOf(bundles, t, v, k) \in PairsOf(bundles, t, v)
      BY <2>1 DEF PairsOf, PairsTo
    <3> QED  BY <1>1, <3>1 DEF AllPairs
  <2>3. PairOf(bundles, t, v, k) = <<bundles[v][k].id, bundles[v + 1][t[v].facts[k].to].id>>
    BY <1>1 DEF PairOf, TransitionIs
  <2> QED  BY <2>2, <2>3 DEF Components
<1>3. ASSUME NEW i \in DOMAIN bundles[v], root[bundles[v][i].id] = h
      PROVE  v + 1 \in Versions(bundles, root, h)
  <2>1. CASE t[v].facts[i].to = 0
    <3>1. t[v].facts[i] \in ToSet(t[v].facts) /\ t[v].facts[i].before = bundles[v][i].id
      BY <1>1 DEF TransitionIs, ToSet
    <3>2. bundles[v][i].id \in Lost(t, v)
      BY <2>1, <3>1 DEF Lost
    <3> QED  BY <1>3, <3>2
  <2>2. CASE t[v].facts[i].to # 0
    <3>1. t[v].facts[i].to \in DOMAIN bundles[v + 1]
      BY <1>1, <2>2 DEF TransitionIs
    <3> QED  BY <1>1, <1>2, <1>3, <2>2, <3>1 DEF Versions
  <2> QED  BY <2>1, <2>2
<1>4. ASSUME NEW i \in DOMAIN bundles[v + 1], root[bundles[v + 1][i].id] = h
      PROVE  v \in Versions(bundles, root, h)
  <2>1. CASE i \in t[v].added
    <3>1. bundles[v + 1][i].id \in Found(bundles, t, v)
      BY <2>1 DEF Found
    <3> QED  BY <1>4, <3>1
  <2>2. CASE i \notin t[v].added
    <3>1. PICK k \in DOMAIN bundles[v] : t[v].facts[k].to = i /\ i # 0
      BY <1>1, <2>2 DEF TransitionIs
    <3> QED  BY <1>1, <1>2, <1>4, <3>1 DEF Versions
  <2> QED  BY <2>1, <2>2
<1> QED  BY <1>1, <1>3, <1>4 DEF Versions

(* A set of versions with each one's neighbours is empty or has them all.  *)
LEMMA NoVersionMissing ==
  ASSUME NEW n \in Nat, NEW V \in SUBSET (1 .. n + 1), NEW w \in V,
         \A v \in 1 .. n : v \in V <=> v + 1 \in V
  PROVE  V = 1 .. n + 1
<1> DEFINE Up == {d \in Nat : w + d <= n + 1 => w + d \in V}
           Down == {d \in Nat : w - d >= 1 => w - d \in V}
<1>1. w \in Nat /\ w \in 1 .. n + 1
  OBVIOUS
<1>2. Nat \subseteq Up
  <2>1. 0 \in Up
    BY <1>1
  <2>2. ASSUME NEW d \in Nat, d \in Up PROVE d + 1 \in Up
    <3> SUFFICES ASSUME w + (d + 1) <= n + 1 PROVE w + (d + 1) \in V
      OBVIOUS
    <3>1. w + d \in V /\ w + d \in 1 .. n /\ w + (d + 1) = (w + d) + 1
      BY <1>1, <2>2
    <3> QED  BY <3>1
  <2> HIDE DEF Up
  <2> QED  BY <2>1, <2>2, NumberInduction
<1>3. Nat \subseteq Down
  <2>1. 0 \in Down
    BY <1>1
  <2>2. ASSUME NEW d \in Nat, d \in Down PROVE d + 1 \in Down
    <3> SUFFICES ASSUME w - (d + 1) >= 1 PROVE w - (d + 1) \in V
      OBVIOUS
    <3>1. w - d \in V /\ w - (d + 1) \in 1 .. n /\ (w - (d + 1)) + 1 = w - d
      BY <1>1, <2>2
    <3> QED  BY <3>1
  <2> HIDE DEF Down
  <2> QED  BY <2>1, <2>2, NumberInduction
<1>4. ASSUME NEW v \in 1 .. n + 1 PROVE v \in V
  <2>1. CASE v >= w
    <3>1. v - w \in Nat /\ w + (v - w) = v
      BY <1>1, <2>1
    <3> QED  BY <1>2, <3>1
  <2>2. CASE ~(v >= w)
    <3>1. w - v \in Nat /\ w - (w - v) = v
      BY <1>1, <2>2
    <3> QED  BY <1>3, <3>1
  <2> QED  BY <2>1, <2>2
<1> QED  BY <1>4

(* The statistics of every sequence of bundles, under every review.        *)
THEOREM StatisticsCount ==
  ASSUME NEW bundles, NEW t, TransitionsAre(t, bundles)
  PROVE  HistoriesAreCounted(bundles, t, HistoryOf(bundles, t))
<1> DEFINE root == HistoryOf(bundles, t)
           n == Len(t)
           P == AllPairs(bundles, t, n)
           facts == UNION {JoinedFacts(bundles, t, v) : v \in DOMAIN t}
           closed == {S \in SUBSET ElementId : \A f \in facts : f.before \in S <=> f.after \in S}
           linked(x, y) == \A S \in closed : x \in S <=> y \in S
           present == UNION {{root[bundles[v][i].id] : i \in DOMAIN bundles[v]} : v \in DOMAIN bundles}
           ofHistory(h, v) == {f \in JoinedFacts(bundles, t, v) : root[f.before] = h}
<1>1. /\ n \in Nat /\ DOMAIN t = 1 .. n /\ DOMAIN bundles = 1 .. n + 1
      /\ \A v \in 1 .. n : v \in DOMAIN bundles /\ v + 1 \in DOMAIN bundles
  BY DEF TransitionsAre, AreBundles
<1>2. Components(root, P)
  BY HistoriesAreComponents
<1> HIDE DEF root, n
<1>3. \A S \in SUBSET ElementId : S \in closed <=> ClosedUnder(S, P)
  <2>1. ASSUME NEW v \in DOMAIN t, NEW f \in JoinedFacts(bundles, t, v)
        PROVE  <<f.before, f.after>> \in P
    <3>1. <<f.before, f.after>> \in PairsOf(bundles, t, v)
      BY JoinedFactsAre DEF PairsOf, PairsTo
    <3> QED  BY <1>1, <3>1 DEF AllPairs
  <2>2. ASSUME NEW p \in P PROVE \E f \in facts : f.before = p[1] /\ f.after = p[2]
    <3>1. PICK v \in 1 .. n : p \in PairsOf(bundles, t, v)
      BY DEF AllPairs
    <3>2. PICK f \in JoinedFacts(bundles, t, v) : f.before = p[1] /\ f.after = p[2]
      BY <1>1, <3>1, JoinedFactsAre
    <3> QED  BY <1>1, <3>2
  <2>3. \A f \in facts : <<f.before, f.after>> \in P
    BY <2>1
  <2> HIDE DEF P, facts
  <2>4. ASSUME NEW S \in SUBSET ElementId, S \in closed PROVE ClosedUnder(S, P)
    BY <2>2, <2>4 DEF ClosedUnder
  <2>5. ASSUME NEW S \in SUBSET ElementId, ClosedUnder(S, P) PROVE S \in closed
    <3>1. ASSUME NEW f \in facts PROVE f.before \in S <=> f.after \in S
      <4>1. <<f.before, f.after>> \in P
        BY <2>3
      <4>2. <<f.before, f.after>>[1] \in S <=> <<f.before, f.after>>[2] \in S
        BY <2>5, <4>1 DEF ClosedUnder
      <4> QED  BY <4>2
    <3> QED  BY <3>1
  <2> QED  BY <2>4, <2>5
<1>4. \A x, y \in ElementId : root[x] = root[y] <=> linked(x, y)
  <2> SUFFICES ASSUME NEW x \in ElementId, NEW y \in ElementId
               PROVE  root[x] = root[y] <=> linked(x, y)
    OBVIOUS
  <2> HIDE DEF P, facts
  <2>1. linked(x, y) <=> LinkedBy(P, x, y)
    <3>1. closed \subseteq SUBSET ElementId
      OBVIOUS
    <3> HIDE DEF closed
    <3> QED  BY <1>3, <3>1 DEF LinkedBy
  <2> HIDE DEF linked
  <2>2. root[x] = root[y] => LinkedBy(P, x, y)
    BY <1>2 DEF Components
  <2>3. LinkedBy(P, x, y) => root[x] = root[y]
    <3> DEFINE S == {id \in ElementId : root[id] = root[x]}
    <3>1. P \subseteq ElementId \X ElementId
      <4>1. \A v \in 1 .. n : PairsOf(bundles, t, v) \subseteq ElementId \X ElementId
        BY <1>1, PairsAreIds
      <4> QED  BY <4>1 DEF P, AllPairs
    <3>2. ClosedUnder(S, P)
      BY <1>2, <3>1 DEF ClosedUnder, Components
    <3>3. x \in S /\ S \in SUBSET ElementId
      OBVIOUS
    <3> HIDE DEF S
    <3>4. LinkedBy(P, x, y) => y \in S
      BY <3>2, <3>3 DEF LinkedBy
    <3> QED  BY <3>4 DEF S
  <2> QED  BY <2>1, <2>2, <2>3
<1> HIDE DEF closed, linked
<1>5. ASSUME NEW h
      PROVE  LET r == ElementRow(bundles, t, root, h) IN
             /\ r.versions = Versions(bundles, root, h)
             /\ r.observable = {v \in Versions(bundles, root, h) : v + 1 \in Versions(bundles, root, h)}
             /\ r.changed = {v \in DOMAIN t : \E f \in ofHistory(h, v) : f.content # {}}
             /\ r.dependency = {v \in DOMAIN t : \E f \in ofHistory(h, v) : f.dependencies_changed}
             /\ r.moved = {v \in DOMAIN t : \E f \in ofHistory(h, v) :
                             f.continuity \in {"moved", "moved_and_renamed"}}
             /\ r.unresolved = {v \in DOMAIN t :
                  \E id \in Lost(t, v) \cup Found(bundles, t, v) : root[id] = h}
  BY DEF ElementRow, Versions
<1>6. ASSUME NEW h PROVE LET r == ElementRow(bundles, t, root, h) IN
                         r.changed \cup r.dependency \cup r.moved \subseteq r.observable
  <2>1. \A v \in DOMAIN t : \A f \in ofHistory(h, v) :
          v \in Versions(bundles, root, h) /\ v + 1 \in Versions(bundles, root, h)
    BY <1>2, FactsAreObserved DEF n
  <2> HIDE DEF ofHistory
  <2>2. LET r == ElementRow(bundles, t, root, h) IN
        \A v \in r.changed \cup r.dependency \cup r.moved :
          v \in DOMAIN t /\ \E f \in ofHistory(h, v) : TRUE
    BY <1>5
  <2> QED  BY <1>5, <2>1, <2>2
<1>7. ASSUME NEW h \in present
      PROVE  LET r == ElementRow(bundles, t, root, h) IN
             r.unresolved = {} => r.versions = DOMAIN bundles
  <2> DEFINE V == Versions(bundles, root, h)
  <2> SUFFICES ASSUME {v \in DOMAIN t :
                         \E id \in Lost(t, v) \cup Found(bundles, t, v) : root[id] = h} = {}
               PROVE  V = DOMAIN bundles
    BY <1>5
  <2>1. PICK w \in DOMAIN bundles : \E i \in DOMAIN bundles[w] : root[bundles[w][i].id] = h
    OBVIOUS
  <2>2. w \in V /\ V \in SUBSET (1 .. n + 1)
    BY <1>1, <2>1 DEF Versions
  <2>3. \A v \in 1 .. n : ~ \E id \in Lost(t, v) \cup Found(bundles, t, v) : root[id] = h
    BY <1>1
  <2>4. \A v \in 1 .. n : v \in V <=> v + 1 \in V
    BY <1>1, <1>2, <2>3, UnresolvedElse DEF n
  <2> HIDE DEF V
  <2> QED  BY <1>1, <2>2, <2>4, NoVersionMissing
<1>8. ASSUME NEW path
      PROVE  FileRow(bundles, t, path).changed \subseteq FileRow(bundles, t, path).observed
  BY DEF FileRow
<1>9. ASSUME NEW h, ElementRow(bundles, t, root, h).changed # {}
      PROVE  \E g \in facts : root[g.before] = h /\ FileRow(bundles, t, g.path).changed # {}
  <2>1. PICK v \in DOMAIN t : \E f \in ofHistory(h, v) : f.content # {}
    BY <1>5, <1>9
  <2>2. PICK g \in JoinedFacts(bundles, t, v) : root[g.before] = h /\ g.content # {}
    BY <2>1
  <2>3. FileRow(bundles, t, g.path).changed =
          {u \in DOMAIN t : \E f \in {f \in JoinedFacts(bundles, t, u) : g.path \in {f.path, f.new_path}} :
             f.content # {} \/ f.dependencies_changed \/ f.continuity # "same"}
    BY DEF FileRow
  <2>4. v \in FileRow(bundles, t, g.path).changed
    BY <2>2, <2>3
  <2> QED  BY <2>2, <2>4
<1>10. \A h \in present : LET r == ElementRow(bundles, t, root, h) IN
         /\ r.changed \cup r.dependency \cup r.moved \subseteq r.observable
         /\ r.unresolved = {} => r.versions = DOMAIN bundles
  BY <1>6, <1>7
<1>11. \A f \in facts : LET r == FileRow(bundles, t, f.new_path) IN
         /\ r.changed \subseteq r.observed
         /\ ElementRow(bundles, t, root, root[f.before]).changed # {} =>
              \E g \in facts : /\ root[g.before] = root[f.before]
                               /\ FileRow(bundles, t, g.path).changed # {}
  BY <1>8, <1>9
<1> HIDE DEF facts, present
<1> QED  BY <1>4, <1>10, <1>11, Zenon
         DEF HistoriesAreCounted, facts, closed, linked, present, root

(* element.history_stats and file.history_stats, asked of any bundles      *)
(* under any review, count along the chains of facts: histories are their  *)
(* components, rates are of transitions seen at both ends, and a history   *)
(* that is nowhere lost or found is in every bundle.                       *)
THEOREM StatisticsAlwaysCounted == Spec => []StatisticsAreCounted
<1>1. QueryInv => StatisticsAreCounted
  <2> SUFFICES ASSUME QueryInv, On("stats")
               PROVE  LET t == Transitions(case.bundles, case.assertions)
                      IN HistoriesAreCounted(case.bundles, t, HistoryOf(case.bundles, t))
    BY DEF StatisticsAreCounted
  <2>1. case \in Cases["stats"]
    BY DEF QueryInv, CaseInv, On
  <2>2. AreBundles(case.bundles)
    BY <2>1, CasesAssumption
  <2>3. TransitionsAre(Transitions(case.bundles, case.assertions), case.bundles)
    BY <2>2, TransitionsHold
  <2> QED  BY <2>3, StatisticsCount
<1> QED  BY <1>1, QueryInvHolds, PTL

-----------------------------------------------------------------------------
(* Change evidence.  Lists, and what they list.                            *)
IsList(s) == s \in Seq(ToSet(s))

LEMMA ListIs ==
  ASSUME NEW n \in Nat, NEW s, DOMAIN s = 1 .. n, s = [i \in 1 .. n |-> s[i]]
  PROVE  IsList(s) /\ Len(s) = n
<1>1. s \in [1 .. n -> ToSet(s)]
  BY DEF ToSet
<1>2. s \in Seq(ToSet(s))
  BY <1>1, SeqDef
<1> QED  BY <1>1, <1>2 DEF IsList

LEMMA ListDomain ==
  ASSUME NEW s, IsList(s)
  PROVE  Len(s) \in Nat /\ DOMAIN s = 1 .. Len(s) /\ \A i \in 1 .. Len(s) : s[i] \in ToSet(s)
BY DEF IsList, ToSet

LEMMA ListOf ==
  ASSUME NEW S, NEW s \in Seq(S) PROVE IsList(s) /\ ToSet(s) \subseteq S
<1>1. Len(s) \in Nat /\ DOMAIN s = 1 .. Len(s) /\ s = [i \in 1 .. Len(s) |-> s[i]]
  OBVIOUS
<1>2. ToSet(s) \subseteq S
  BY <1>1 DEF ToSet
<1>3. IsList(s)
  BY <1>1, ListIs
<1> QED  BY <1>2, <1>3

LEMMA ListIn ==
  ASSUME NEW S, NEW s, IsList(s), ToSet(s) \subseteq S PROVE s \in Seq(S)
<1>1. /\ Len(s) \in Nat /\ DOMAIN s = 1 .. Len(s)
      /\ \A i \in 1 .. Len(s) : s[i] \in S
  BY ListDomain
<1>2. s = [i \in 1 .. Len(s) |-> s[i]]
  BY DEF IsList
<1>3. s \in [1 .. Len(s) -> S]
  BY <1>1, <1>2
<1> QED  BY <1>1, <1>3, SeqDef

LEMMA EmptyList == IsList(<< >>) /\ ToSet(<< >>) = {} /\ Len(<< >>) = 0
<1> DEFINE e == << >>
<1>1. e \in Seq(Nat) /\ Len(e) = 0 /\ DOMAIN e = {}
  OBVIOUS
<1> HIDE DEF e
<1>2. IsList(e)
  BY <1>1, ListOf
<1>3. IsList(e) /\ ToSet(e) = {} /\ Len(e) = 0
  BY <1>1, <1>2 DEF ToSet
<1> QED  BY <1>3 DEF e

LEMMA ListsJoined ==
  ASSUME NEW s, IsList(s), NEW t, IsList(t)
  PROVE  IsList(s \o t) /\ ToSet(s \o t) = ToSet(s) \cup ToSet(t)
<1> DEFINE S == ToSet(s) \cup ToSet(t)
           m == Len(s)
           n == Len(t)
           u == s \o t
<1>1. /\ m \in Nat /\ DOMAIN s = 1 .. m /\ n \in Nat /\ DOMAIN t = 1 .. n
      /\ s \in Seq(S) /\ t \in Seq(S)
  <2>1. s \in Seq(ToSet(s)) /\ t \in Seq(ToSet(t))
    BY DEF IsList
  <2> QED  BY <2>1, ListDomain
<1> HIDE DEF S
<1>2. /\ u \in Seq(S) /\ Len(u) = m + n
      /\ \A i \in 1 .. m + n : u[i] = IF i <= m THEN s[i] ELSE t[i - m]
  BY <1>1, ConcatProperties
<1>3. DOMAIN u = 1 .. m + n
  BY <1>1, <1>2
<1> HIDE DEF u, m, n
<1>4. IsList(u)
  BY <1>2, ListOf
<1>5. ASSUME NEW x PROVE x \in ToSet(u) <=> x \in ToSet(s) \/ x \in ToSet(t)
  <2>1. ASSUME x \in ToSet(u) PROVE x \in ToSet(s) \/ x \in ToSet(t)
    <3>1. PICK i \in 1 .. m + n : x = u[i]
      BY <1>3, <2>1 DEF ToSet
    <3>2. CASE i <= m
      BY <1>1, <1>2, <3>1, <3>2 DEF ToSet
    <3>3. CASE ~(i <= m)
      <4>1. i - m \in 1 .. n
        BY <1>1, <3>1, <3>3
      <4> QED  BY <1>1, <1>2, <3>1, <3>3, <4>1 DEF ToSet
    <3> QED  BY <3>2, <3>3
  <2>2. ASSUME x \in ToSet(s) PROVE x \in ToSet(u)
    <3>1. PICK i \in 1 .. m : x = s[i]
      BY <1>1, <2>2 DEF ToSet
    <3>2. i \in 1 .. m + n /\ i <= m
      BY <1>1, <3>1
    <3>3. u[i] = x
      BY <1>2, <3>1, <3>2
    <3> QED  BY <1>3, <3>2, <3>3 DEF ToSet
  <2>3. ASSUME x \in ToSet(t) PROVE x \in ToSet(u)
    <3>1. PICK i \in 1 .. n : x = t[i]
      BY <1>1, <2>3 DEF ToSet
    <3>2. i + m \in 1 .. m + n /\ ~(i + m <= m) /\ (i + m) - m = i
      BY <1>1, <3>1
    <3>3. u[i + m] = x
      BY <1>2, <3>1, <3>2
    <3> QED  BY <1>3, <3>2, <3>3 DEF ToSet
  <2> QED  BY <2>1, <2>2, <2>3
<1> QED  BY <1>4, <1>5 DEF u

(* The greatest of a finite set, and its members in their order.           *)
Orders(earlier, S) ==
  /\ \A x, y \in S : x # y => <<x, y>> \in earlier \/ <<y, x>> \in earlier
  /\ \A x, y, z \in S : <<x, y>> \in earlier /\ <<y, z>> \in earlier => <<x, z>> \in earlier

LEMMA LastOfAll ==
  ASSUME NEW S, IsFiniteSet(S), NEW earlier, Orders(earlier, S), NEW T \in SUBSET S, T # {}
  PROVE  \E m \in T : \A x \in T : x # m => <<x, m>> \in earlier
<1> DEFINE Greatest(s) == \E m \in s : \A x \in s : x # m => <<x, m>> \in earlier
           G == {s \in SUBSET S : s # {} => Greatest(s)}
<1>1. {} \in G
  OBVIOUS
<1>2. ASSUME NEW s \in SUBSET S, s # {}, \A x \in s : s \ {x} \in G PROVE s \in G
  <2>1. PICK x \in s : TRUE
    BY <1>2
  <2>2. CASE s \ {x} = {}
    <3>1. \A y \in s : y = x
      BY <2>2
    <3> QED  BY <2>1, <3>1
  <2>3. CASE s \ {x} # {}
    <3>1. PICK m \in s \ {x} : \A y \in s \ {x} : y # m => <<y, m>> \in earlier
      BY <1>2, <2>1, <2>3
    <3>2. <<m, x>> \in earlier \/ <<x, m>> \in earlier
      BY <2>1, <3>1 DEF Orders
    <3>3. CASE <<x, m>> \in earlier
      <4>1. \A y \in s : y # m => <<y, m>> \in earlier
        BY <3>1, <3>3
      <4> QED  BY <3>1, <4>1
    <3>4. CASE <<m, x>> \in earlier
      <4>1. \A y \in s : y # x => <<y, x>> \in earlier
        BY <2>1, <3>1, <3>4 DEF Orders
      <4> QED  BY <2>1, <4>1
    <3> QED  BY <3>2, <3>3, <3>4
  <2> QED  BY <2>2, <2>3
<1> HIDE DEF G
<1>3. T \in G
  BY <1>1, <1>2, SubsetInduction
<1> QED  BY <1>3 DEF G

LEMMA OrderedLists ==
  ASSUME NEW S, IsFiniteSet(S), NEW earlier, Orders(earlier, S)
  PROVE  IsList(InOrder(S, earlier)) /\ ToSet(InOrder(S, earlier)) = S
<1> DEFINE Lists(s, T) ==
             /\ ToSet(s) = T
             /\ \A i, j \in DOMAIN s : i < j => <<s[i], s[j]>> \in earlier
           G == {T \in SUBSET S : \E s \in [1 .. Cardinality(T) -> T] : Lists(s, T)}
<1>1. {} \in G
  <2>1. Cardinality({}) = 0
    BY FS_EmptySet
  <2> DEFINE s == [i \in 1 .. 0 |-> i]
  <2>2. s \in [1 .. 0 -> {}] /\ DOMAIN s = {}
    OBVIOUS
  <2>3. ToSet(s) = {}
    BY <2>2 DEF ToSet
  <2> HIDE DEF s
  <2> QED  BY <2>1, <2>2, <2>3
<1>2. ASSUME NEW T \in SUBSET S, T # {}, \A x \in T : T \ {x} \in G PROVE T \in G
  <2>1. PICK m \in T : \A x \in T : x # m => <<x, m>> \in earlier
    BY <1>2, LastOfAll
  <2> DEFINE R == T \ {m}
             n == Cardinality(T)
  <2>2. /\ IsFiniteSet(T) /\ n \in Nat \ {0} /\ Cardinality(R) = n - 1
    <3>1. IsFiniteSet(T)
      BY FS_Subset
    <3> QED  BY <2>1, <3>1, FS_CardinalityType, FS_RemoveElement, FS_EmptySet
  <2>3. PICK r \in [1 .. n - 1 -> R] : Lists(r, R)
    BY <1>2, <2>1, <2>2
  <2> HIDE DEF n
  <2> DEFINE s == [i \in 1 .. n |-> IF i = n THEN m ELSE r[i]]
  <2>4. \A i \in 1 .. n : i # n => i \in 1 .. n - 1
    BY <2>2
  <2>5. s \in [1 .. n -> T] /\ DOMAIN s = 1 .. n
    BY <2>1, <2>3, <2>4
  <2>6. n \in 1 .. n /\ s[n] = m /\ \A i \in 1 .. n - 1 : i \in 1 .. n /\ i # n /\ s[i] = r[i]
    BY <2>2
  <2> HIDE DEF s
  <2>7. ToSet(s) = T
    <3>1. ASSUME NEW x \in T PROVE x \in ToSet(s)
      <4>1. CASE x = m
        BY <2>5, <2>6, <4>1 DEF ToSet
      <4>2. CASE x # m
        <5>1. x \in ToSet(r)
          BY <2>3, <4>2
        <5>2. PICK i \in 1 .. n - 1 : x = r[i]
          BY <2>3, <5>1 DEF ToSet
        <5> QED  BY <2>5, <2>6, <5>2 DEF ToSet
      <4> QED  BY <4>1, <4>2
    <3>2. ToSet(s) \subseteq T
      BY <2>5 DEF ToSet
    <3> QED  BY <3>1, <3>2
  <2>8. ASSUME NEW i \in DOMAIN s, NEW j \in DOMAIN s, i < j PROVE <<s[i], s[j]>> \in earlier
    <3>1. i \in 1 .. n - 1
      BY <2>2, <2>5, <2>8
    <3>2. s[i] = r[i] /\ r[i] \in T /\ r[i] # m
      BY <2>3, <2>6, <3>1
    <3>3. CASE j = n
      BY <2>1, <2>6, <3>2, <3>3
    <3>4. CASE j # n
      <4>1. j \in 1 .. n - 1
        BY <2>4, <2>5, <3>4
      <4> QED  BY <2>3, <2>6, <2>8, <3>1, <3>2, <4>1
    <3> QED  BY <3>3, <3>4
  <2>9. \E q \in [1 .. n -> T] : Lists(q, T)
    BY <2>5, <2>7, <2>8
  <2> HIDE DEF Lists
  <2> QED  BY <2>9 DEF n
<1>3. S \in G
  <2> HIDE DEF G
  <2> QED  BY <1>1, <1>2, SubsetInduction
<1> DEFINE s == InOrder(S, earlier)
<1>4. s \in [1 .. Cardinality(S) -> S] /\ Lists(s, S)
  BY <1>3 DEF InOrder
<1>5. Cardinality(S) \in Nat
  BY FS_CardinalityType
<1> HIDE DEF s
<1>6. IsList(s)
  BY <1>4, <1>5, ListIs
<1> QED  BY <1>4, <1>6 DEF s

LEMMA IdsAreListed ==
  ASSUME NEW S \in SUBSET Nat, IsFiniteSet(S)
  PROVE  IsList(Ids(S)) /\ ToSet(Ids(S)) = S
<1> DEFINE earlier == {p \in S \X S : p[1] < p[2]}
<1>1. \A x, y \in S : <<x, y>> \in earlier <=> x < y
  OBVIOUS
<1> HIDE DEF earlier
<1>2. Orders(earlier, S)
  BY <1>1 DEF Orders
<1>3. Ids(S) = InOrder(S, earlier)
  BY DEF Ids, earlier
<1> QED  BY <1>2, <1>3, OrderedLists

LEMMA KeysAreListed ==
  ASSUME NEW S \in SUBSET (Nat \X Nat), IsFiniteSet(S)
  PROVE  IsList(Keys(S)) /\ ToSet(Keys(S)) = S
<1> DEFINE Less(x, y) == x[1] < y[1] \/ (x[1] = y[1] /\ x[2] < y[2])
           earlier == {p \in S \X S : Less(p[1], p[2])}
<1>1. \A x, y \in S : <<x, y>> \in earlier <=> Less(x, y)
  <2> HIDE DEF Less
  <2> QED  OBVIOUS
<1>2. ASSUME NEW x \in S PROVE x[1] \in Nat /\ x[2] \in Nat /\ x = <<x[1], x[2]>>
  <2>1. x \in Nat \X Nat
    OBVIOUS
  <2> QED  BY <2>1
<1>4. Keys(S) = InOrder(S, earlier)
  BY DEF Keys
<1> HIDE DEF earlier
<1>3. Orders(earlier, S)
  <2>1. ASSUME NEW x \in S, NEW y \in S, x # y
        PROVE  <<x, y>> \in earlier \/ <<y, x>> \in earlier
    <3>1. x[1] # y[1] \/ x[2] # y[2]
      BY <1>2, <2>1
    <3> QED  BY <1>1, <1>2, <3>1
  <2>2. ASSUME NEW x \in S, NEW y \in S, NEW z \in S,
               <<x, y>> \in earlier, <<y, z>> \in earlier
        PROVE  <<x, z>> \in earlier
    BY <1>1, <1>2, <2>2
  <2> QED  BY <2>1, <2>2 DEF Orders
<1> QED  BY <1>3, <1>4, OrderedLists

(* A list made of another, one for one.                                    *)
LEMMA ListMapped ==
  ASSUME NEW s, IsList(s), NEW t, t = [i \in DOMAIN s |-> t[i]]
  PROVE  IsList(t) /\ ToSet(t) = {t[i] : i \in DOMAIN s}
<1>1. Len(s) \in Nat /\ DOMAIN s = 1 .. Len(s)
  BY ListDomain
<1>2. DOMAIN t = DOMAIN s
  OBVIOUS
<1>3. ToSet(t) = {t[i] : i \in DOMAIN s}
  BY <1>2 DEF ToSet
<1>4. DOMAIN t = 1 .. Len(s) /\ t = [i \in 1 .. Len(s) |-> t[i]]
  BY <1>1, <1>2
<1> QED  BY <1>1, <1>3, <1>4, ListIs

(* The elements within m references, for growing m.                        *)
Ways(w, view, id) ==
  /\ w \in [0 .. MaxDepth -> SUBSET (DOMAIN view.dependents)]
  /\ w[0] = {}
  /\ \A m \in 1 .. MaxDepth : w[m] = UNION {view.dependents[d] : d \in w[m - 1] \cup {id}}

LEMMA WithinHolds ==
  ASSUME NEW view, IsView(view), NEW id \in DOMAIN view.dependents
  PROVE  Ways(Within(view, id), view, id)
<1> DEFINE D == DOMAIN view.dependents
           S == SUBSET D
           next(X) == UNION {view.dependents[d] : d \in X \cup {id}}
           Are(f) == f = [m \in 0 .. MaxDepth |-> IF m = 0 THEN {} ELSE next(f[m - 1])]
<1>1. MaxDepth \in Nat
  BY EvidenceAssumption
<1>2. ASSUME NEW X \in S PROVE next(X) \in S
  <2>1. \A d \in D : view.dependents[d] \subseteq D
    BY DEF IsView
  <2> QED  BY <2>1
<1>3. \E f \in [0 .. MaxDepth -> S] : f[0] = {} /\ \A m \in 1 .. MaxDepth : f[m] = next(f[m - 1])
  <2> DEFINE g == [m \in 1 .. MaxDepth |-> [X \in S |-> next(X)]]
  <2>1. {} \in S
    OBVIOUS
  <2> HIDE DEF next, S
  <2>2. g \in [1 .. MaxDepth -> [S -> S]]
    BY <1>2
  <2>3. \A m \in 1 .. MaxDepth : \A X \in S : g[m][X] = next(X)
    OBVIOUS
  <2> HIDE DEF g
  <2>4. PICK f : StepsFrom(f, MaxDepth, S, {}, g)
    BY <1>1, <2>1, <2>2, StepsExist
  <2>5. /\ f \in [0 .. MaxDepth -> S] /\ f[0] = {}
        /\ \A m \in 1 .. MaxDepth : f[m] = g[m][f[m - 1]]
    BY <2>4 DEF StepsFrom
  <2>6. \A m \in 1 .. MaxDepth : m - 1 \in 0 .. MaxDepth
    BY <1>1
  <2>7. \A m \in 1 .. MaxDepth : f[m] = next(f[m - 1])
    BY <2>3, <2>5, <2>6
  <2> QED  BY <2>5, <2>7
<1> HIDE DEF next, S
<1>4. PICK f \in [0 .. MaxDepth -> S] :
        f[0] = {} /\ \A m \in 1 .. MaxDepth : f[m] = next(f[m - 1])
  BY <1>3
<1>5. Are(f)
  <2>1. \A m \in 0 .. MaxDepth : f[m] = IF m = 0 THEN {} ELSE next(f[m - 1])
    BY <1>1, <1>4
  <2>2. f = [m \in 0 .. MaxDepth |-> f[m]]
    BY <1>4
  <2> QED  BY <2>1, <2>2
<1> DEFINE w == CHOOSE h : Are(h)
<1>6. Are(w)
  <2> HIDE DEF Are
  <2> QED  BY <1>5
<1>7. Within(view, id) = w
  BY DEF Within, next
<1> HIDE DEF w
<1>8. w[0] = {} /\ \A m \in 1 .. MaxDepth : w[m] = next(w[m - 1])
  <2>1. \A m \in 0 .. MaxDepth : w[m] = IF m = 0 THEN {} ELSE next(w[m - 1])
    BY <1>6
  <2>2. 0 \in 0 .. MaxDepth /\ \A m \in 1 .. MaxDepth : m \in 0 .. MaxDepth /\ m # 0
    BY <1>1
  <2> QED  BY <2>1, <2>2
<1>9. \A m \in 0 .. MaxDepth : w[m] \in S
  <2> DEFINE G == {m \in Nat : m <= MaxDepth => w[m] \in S}
  <2>1. 0 \in G
    BY <1>8 DEF S
  <2>2. ASSUME NEW m \in Nat, m \in G PROVE m + 1 \in G
    <3> SUFFICES ASSUME m + 1 <= MaxDepth PROVE w[m + 1] \in S
      OBVIOUS
    <3>1. m + 1 \in 1 .. MaxDepth /\ (m + 1) - 1 = m /\ w[m] \in S
      BY <1>1, <2>2
    <3>2. w[m + 1] = next(w[m])
      BY <1>8, <3>1
    <3> QED  BY <1>2, <3>1, <3>2
  <2> HIDE DEF G
  <2>3. Nat \subseteq G
    BY <2>1, <2>2, NumberInduction
  <2> QED  BY <1>1, <2>3 DEF G
<1>10. w \in [0 .. MaxDepth -> S]
  <2>1. w = [m \in 0 .. MaxDepth |-> w[m]]
    BY <1>6
  <2> QED  BY <1>9, <2>1
<1> QED  BY <1>7, <1>8, <1>10 DEF Ways, next, S

(* What a set of <<root, element>> pairs leads to.                         *)
Led(view, P) == UNION {{p[1]} \X view.dependents[p[2]] : p \in P}
Pairs(view) == (DOMAIN view.dependents) \X (DOMAIN view.dependents)

Discovers(new, view, P, seen) ==
  new \in Seq(Pairs(view)) /\ ToSet(new) = Led(view, P) \ seen

LEMMA OneDiscovers ==
  ASSUME NEW view, IsView(view), NEW x \in Pairs(view), NEW seen
  PROVE  Discovers(Unvisited(view, x, seen), view, {x}, seen)
<1> DEFINE D == DOMAIN view.dependents
           S == {id \in view.dependents[x[2]] : <<x[1], id>> \notin seen}
           new == Ids(S)
           t == [i \in DOMAIN new |-> <<x[1], new[i]>>]
<1>1. x[1] \in D /\ x[2] \in D /\ view.dependents[x[2]] \subseteq D
  BY DEF Pairs, IsView
<1>2. IsFiniteSet(D) /\ D \subseteq Nat
  BY DEF IsView
<1>3. S \in SUBSET Nat /\ IsFiniteSet(S)
  BY <1>1, <1>2, FS_Subset
<1>4. Unvisited(view, x, seen) = t
  BY DEF Unvisited
<1>5. \A id : id \in S <=> id \in view.dependents[x[2]] /\ <<x[1], id>> \notin seen
  OBVIOUS
<1> HIDE DEF S
<1>6. IsList(new) /\ ToSet(new) = S
  BY <1>3, IdsAreListed
<1> HIDE DEF new
<1>7. \A i \in DOMAIN new : t[i] = <<x[1], new[i]>>
  OBVIOUS
<1>8. IsList(t) /\ ToSet(t) = {t[i] : i \in DOMAIN new}
  <2>1. t = [i \in DOMAIN new |-> t[i]]
    OBVIOUS
  <2> HIDE DEF t
  <2> QED  BY <1>6, <2>1, ListMapped
<1> HIDE DEF t
<1>9. S = {new[i] : i \in DOMAIN new}
  BY <1>6 DEF ToSet
<1>10. \A p \in ToSet(t) : \E id \in S : p = <<x[1], id>>
  BY <1>7, <1>8, <1>9
<1>11. \A id \in S : <<x[1], id>> \in ToSet(t)
  <2>1. \A id \in S : \E i \in DOMAIN new : id = new[i] /\ t[i] = <<x[1], id>>
    BY <1>7, <1>9
  <2> QED  BY <1>8, <2>1
<1>12. Led(view, {x}) = {x[1]} \X view.dependents[x[2]]
  BY DEF Led
<1>13. \A p \in Led(view, {x}) : \E id \in view.dependents[x[2]] : p = <<x[1], id>>
  BY <1>12
<1>14. \A id \in view.dependents[x[2]] : <<x[1], id>> \in Led(view, {x})
  BY <1>12
<1>15. \A p \in Led(view, {x}) \ seen : p \in ToSet(t)
  <2> SUFFICES ASSUME NEW id \in view.dependents[x[2]], <<x[1], id>> \notin seen
               PROVE  <<x[1], id>> \in ToSet(t)
    BY <1>13
  <2>1. id \in S
    BY <1>5
  <2> QED  BY <1>11, <2>1
<1>16. \A p \in ToSet(t) : p \in Led(view, {x}) \ seen /\ p \in Pairs(view)
  <2>1. \A id \in S : id \in D /\ <<x[1], id>> \in Led(view, {x}) /\ <<x[1], id>> \notin seen
    BY <1>1, <1>5, <1>14
  <2>2. \A id \in S : <<x[1], id>> \in Pairs(view)
    BY <1>1, <2>1 DEF Pairs
  <2> QED  BY <1>10, <2>1, <2>2
<1>17. t \in Seq(Pairs(view))
  <2>1. ToSet(t) \subseteq Pairs(view)
    BY <1>16
  <2> QED  BY <1>8, <2>1, ListIn
<1>18. ToSet(t) = Led(view, {x}) \ seen
  BY <1>15, <1>16
<1> QED  BY <1>4, <1>17, <1>18 DEF Discovers

LEMMA LevelDiscovers ==
  ASSUME NEW view, IsView(view), NEW level \in Seq(Pairs(view)), NEW visited
  PROVE  Discovers(Discover(view, level, visited), view, ToSet(level), visited)
<1> DEFINE n == Len(level)
           S == Seq(Pairs(view))
           next(prev, k) == prev \o Unvisited(view, level[k], visited \cup ToSet(prev))
           Are(f) == f = [k \in 0 .. n |-> IF k = 0 THEN << >> ELSE next(f[k - 1], k)]
           led(k) == Led(view, {level[k]})
<1>1. n \in Nat /\ DOMAIN level = 1 .. n /\ \A k \in 1 .. n : level[k] \in Pairs(view)
  OBVIOUS
<1> HIDE DEF n
<1>2. ASSUME NEW prev \in S, NEW k \in 1 .. n
      PROVE  next(prev, k) \in S /\ ToSet(next(prev, k)) = ToSet(prev) \cup (led(k) \ visited)
  <2> DEFINE x == level[k]
             seen == visited \cup ToSet(prev)
             new == Unvisited(view, x, seen)
  <2>1. x \in Pairs(view)
    BY <1>1
  <2> HIDE DEF x, seen
  <2>2. Discovers(new, view, {x}, seen)
    BY <2>1, OneDiscovers
  <2> HIDE DEF new
  <2>3. IsList(prev) /\ ToSet(prev) \subseteq Pairs(view) /\ IsList(new)
        /\ ToSet(new) \subseteq Pairs(view)
    BY <2>2, ListOf DEF Discovers
  <2>4. IsList(prev \o new) /\ ToSet(prev \o new) = ToSet(prev) \cup ToSet(new)
    BY <2>3, ListsJoined
  <2>5. ToSet(prev \o new) = ToSet(prev) \cup (Led(view, {x}) \ visited)
    BY <2>2, <2>4 DEF seen, Discovers
  <2>6. ToSet(prev \o new) \subseteq Pairs(view)
    BY <2>3, <2>4
  <2>7. prev \o new \in S
    BY <2>4, <2>6, ListIn
  <2>8. next(prev, k) = prev \o new
    BY DEF new, x, seen
  <2> HIDE DEF next
  <2> QED  BY <2>5, <2>7, <2>8 DEF x
<1> HIDE DEF S
<1>3. << >> \in S
  BY DEF S
<1> HIDE DEF next
<1>4. \E f \in [0 .. n -> S] : f[0] = << >> /\ \A k \in 1 .. n : f[k] = next(f[k - 1], k)
  <2> DEFINE g == [k \in 1 .. n |-> [s \in S |-> next(s, k)]]
  <2>1. g \in [1 .. n -> [S -> S]]
    BY <1>2
  <2>2. \A k \in 1 .. n : \A s \in S : g[k][s] = next(s, k)
    OBVIOUS
  <2> HIDE DEF g
  <2> DEFINE e == << >>
  <2>3. e \in S
    BY <1>3
  <2> HIDE DEF e
  <2>4. PICK f : StepsFrom(f, n, S, e, g)
    BY <1>1, <2>1, <2>3, StepsExist
  <2>5. f \in [0 .. n -> S] /\ f[0] = e /\ \A k \in 1 .. n : f[k] = g[k][f[k - 1]]
    BY <2>4 DEF StepsFrom
  <2>6. \A k \in 1 .. n : k - 1 \in 0 .. n
    BY <1>1
  <2>7. \A k \in 1 .. n : f[k] = next(f[k - 1], k)
    BY <2>2, <2>5, <2>6
  <2> QED  BY <2>5, <2>7 DEF e
<1>5. \E f : Are(f)
  <2>1. PICK f \in [0 .. n -> S] : f[0] = << >> /\ \A k \in 1 .. n : f[k] = next(f[k - 1], k)
    BY <1>4
  <2>2. \A k \in 0 .. n : f[k] = IF k = 0 THEN << >> ELSE next(f[k - 1], k)
    BY <1>1, <2>1
  <2>3. f = [k \in 0 .. n |-> f[k]]
    BY <2>1
  <2>4. Are(f)
    BY <2>2, <2>3
  <2> QED  BY <2>4
<1> DEFINE found == CHOOSE f : Are(f)
<1>6. Are(found)
  <2> HIDE DEF Are
  <2> QED  BY <1>5
<1>7. Discover(view, level, visited) = found[n]
  BY DEF Discover, next, n
<1> HIDE DEF found
<1>8. found[0] = << >> /\ \A k \in 1 .. n : found[k] = next(found[k - 1], k)
  <2>1. \A k \in 0 .. n : found[k] = IF k = 0 THEN << >> ELSE next(found[k - 1], k)
    BY <1>6
  <2>2. 0 \in 0 .. n /\ \A k \in 1 .. n : k \in 0 .. n /\ k # 0
    BY <1>1
  <2> QED  BY <2>1, <2>2
<1> DEFINE Ledto(k) == UNION {led(j) : j \in 1 .. k}
           G == {k \in Nat : k <= n => found[k] \in S /\ ToSet(found[k]) = Ledto(k) \ visited}
<1> HIDE DEF led
<1>9. 0 \in G
  <2>1. Ledto(0) = {}
    OBVIOUS
  <2>2. ToSet(found[0]) = {} /\ found[0] \in S
    BY <1>3, <1>8, EmptyList
  <2> HIDE DEF Ledto
  <2> QED  BY <2>1, <2>2
<1>10. ASSUME NEW k \in Nat, k \in G PROVE k + 1 \in G
  <2> SUFFICES ASSUME k + 1 <= n
               PROVE  found[k + 1] \in S /\ ToSet(found[k + 1]) = Ledto(k + 1) \ visited
    OBVIOUS
  <2>1. k + 1 \in 1 .. n /\ (k + 1) - 1 = k /\ found[k] \in S
        /\ ToSet(found[k]) = Ledto(k) \ visited
    BY <1>1, <1>10
  <2>2. found[k + 1] = next(found[k], k + 1)
    BY <1>8, <2>1
  <2>3. 1 .. k + 1 = (1 .. k) \cup {k + 1}
    OBVIOUS
  <2>4. Ledto(k + 1) = Ledto(k) \cup led(k + 1)
    BY <2>3
  <2> HIDE DEF Ledto
  <2> QED  BY <1>2, <2>1, <2>2, <2>4
<1>11. n \in G
  <2> HIDE DEF G
  <2> QED  BY <1>1, <1>9, <1>10, NumberInduction
<1>12. Ledto(n) = Led(view, ToSet(level))
  <2>1. ToSet(level) = {level[k] : k \in 1 .. n}
    BY <1>1 DEF ToSet
  <2> QED  BY <2>1 DEF Led, led
<1> HIDE DEF Ledto
<1> QED  BY <1>1, <1>7, <1>11, <1>12 DEF S, Discovers

LEMMA WaysGrow ==
  ASSUME NEW view, NEW id, NEW w, Ways(w, view, id), NEW m \in 1 .. MaxDepth
  PROVE  w[m - 1] \subseteq w[m]
<1> DEFINE G == {k \in Nat : k + 1 <= MaxDepth => w[k] \subseteq w[k + 1]}
<1>1. MaxDepth \in Nat
  BY EvidenceAssumption
<1>2. 0 \in G
  BY DEF Ways
<1>3. ASSUME NEW k \in Nat, k \in G PROVE k + 1 \in G
  <2> SUFFICES ASSUME (k + 1) + 1 <= MaxDepth PROVE w[k + 1] \subseteq w[(k + 1) + 1]
    OBVIOUS
  <2>1. /\ k + 1 \in 1 .. MaxDepth /\ (k + 1) - 1 = k /\ w[k] \subseteq w[k + 1]
        /\ (k + 1) + 1 \in 1 .. MaxDepth /\ ((k + 1) + 1) - 1 = k + 1
    BY <1>1, <1>3
  <2>2. /\ w[k + 1] = UNION {view.dependents[d] : d \in w[k] \cup {id}}
        /\ w[(k + 1) + 1] = UNION {view.dependents[d] : d \in w[k + 1] \cup {id}}
    BY <2>1 DEF Ways
  <2> QED  BY <2>1, <2>2
<1>4. m - 1 \in G
  <2>1. m - 1 \in Nat
    BY <1>1
  <2> HIDE DEF G
  <2> QED  BY <1>2, <1>3, <2>1, NumberInduction
<1> QED  BY <1>1, <1>4

(* The levels of a search.                                                 *)
SearchIs(at, view, roots) ==
  /\ \A d \in 0 .. MaxDepth : /\ at[d].level \in Seq(Pairs(view))
                              /\ at[d].visited \subseteq Pairs(view)
  /\ ToSet(at[0].level) = {<<r, r>> : r \in roots} /\ at[0].visited = {}
  /\ \A d \in 1 .. MaxDepth :
       /\ Discovers(at[d].level, view, ToSet(at[d - 1].level), at[d - 1].visited)
       /\ at[d].visited = at[d - 1].visited \cup ToSet(at[d].level)

LEMMA SearchHolds ==
  ASSUME NEW view, IsView(view), NEW roots \in SUBSET DOMAIN view.dependents
  PROVE  SearchIs(Search(view, roots), view, roots)
<1> DEFINE S == [level : Seq(Pairs(view)), visited : SUBSET Pairs(view)]
           found(s) == Discover(view, s.level, s.visited)
           first == [level |-> [i \in DOMAIN Ids(roots) |-> <<Ids(roots)[i], Ids(roots)[i]>>],
                     visited |-> {}]
           next(s) == [level |-> found(s), visited |-> s.visited \cup ToSet(found(s))]
           Are(f) == f = [d \in 0 .. MaxDepth |-> IF d = 0 THEN first ELSE next(f[d - 1])]
<1>1. MaxDepth \in Nat
  BY EvidenceAssumption
<1>2. first \in S /\ ToSet(first.level) = {<<r, r>> : r \in roots} /\ first.visited = {}
  <2> DEFINE ids == Ids(roots)
             t == [i \in DOMAIN ids |-> <<ids[i], ids[i]>>]
  <2>1. IsList(ids) /\ ToSet(ids) = roots
    <3>1. roots \in SUBSET Nat /\ IsFiniteSet(roots)
      BY FS_Subset DEF IsView
    <3> QED  BY <3>1, IdsAreListed
  <2> HIDE DEF ids
  <2>2. \A i \in DOMAIN ids : t[i] = <<ids[i], ids[i]>>
    OBVIOUS
  <2>3. IsList(t) /\ ToSet(t) = {t[i] : i \in DOMAIN ids}
    <3>1. t = [i \in DOMAIN ids |-> t[i]]
      OBVIOUS
    <3> HIDE DEF t
    <3> QED  BY <2>1, <3>1, ListMapped
  <2>4. first = [level |-> t, visited |-> {}]
    BY DEF ids
  <2> HIDE DEF t
  <2>5. roots = {ids[i] : i \in DOMAIN ids}
    BY <2>1 DEF ToSet
  <2>6. ToSet(t) = {<<r, r>> : r \in roots}
    BY <2>2, <2>3, <2>5
  <2>7. ToSet(t) \subseteq Pairs(view)
    BY <2>6 DEF Pairs
  <2>8. t \in Seq(Pairs(view))
    BY <2>3, <2>7, ListIn
  <2> HIDE DEF first
  <2> QED  BY <2>4, <2>6, <2>8
<1>3. ASSUME NEW s \in S
      PROVE  next(s) \in S /\ Discovers(found(s), view, ToSet(s.level), s.visited)
  <2>1. s.level \in Seq(Pairs(view)) /\ s.visited \subseteq Pairs(view)
    OBVIOUS
  <2>2. Discovers(found(s), view, ToSet(s.level), s.visited)
    BY <2>1, LevelDiscovers
  <2> HIDE DEF found
  <2>3. found(s) \in Seq(Pairs(view))
    BY <2>2 DEF Discovers
  <2>4. ToSet(found(s)) \subseteq Pairs(view)
    BY <2>3, ListOf
  <2> QED  BY <2>1, <2>2, <2>3, <2>4
<1> HIDE DEF first
<1>4. \A s : next(s).level = found(s) /\ next(s).visited = s.visited \cup ToSet(found(s))
  OBVIOUS
<1> HIDE DEF next
<1>5. \E f \in [0 .. MaxDepth -> S] :
        f[0] = first /\ \A d \in 1 .. MaxDepth : f[d] = next(f[d - 1])
  <2> DEFINE g == [d \in 1 .. MaxDepth |-> [s \in S |-> next(s)]]
  <2> HIDE DEF S
  <2>1. g \in [1 .. MaxDepth -> [S -> S]]
    BY <1>3
  <2>2. \A d \in 1 .. MaxDepth : \A s \in S : g[d][s] = next(s)
    OBVIOUS
  <2> HIDE DEF g
  <2>3. PICK f : StepsFrom(f, MaxDepth, S, first, g)
    BY <1>1, <1>2, <2>1, StepsExist
  <2>4. /\ f \in [0 .. MaxDepth -> S] /\ f[0] = first
        /\ \A d \in 1 .. MaxDepth : f[d] = g[d][f[d - 1]]
    BY <2>3 DEF StepsFrom
  <2>5. \A d \in 1 .. MaxDepth : d - 1 \in 0 .. MaxDepth
    BY <1>1
  <2>6. \A d \in 1 .. MaxDepth : f[d] = next(f[d - 1])
    BY <2>2, <2>4, <2>5
  <2> QED  BY <2>4, <2>6
<1> HIDE DEF S
<1>6. \E f : Are(f)
  <2>1. PICK f \in [0 .. MaxDepth -> S] :
          f[0] = first /\ \A d \in 1 .. MaxDepth : f[d] = next(f[d - 1])
    BY <1>5
  <2>2. \A d \in 0 .. MaxDepth : f[d] = IF d = 0 THEN first ELSE next(f[d - 1])
    BY <1>1, <2>1
  <2>3. f = [d \in 0 .. MaxDepth |-> f[d]]
    BY <2>1
  <2>4. Are(f)
    BY <2>2, <2>3
  <2> QED  BY <2>4
<1> DEFINE at == CHOOSE f : Are(f)
<1>7. Are(at)
  <2> HIDE DEF Are
  <2> QED  BY <1>6
<1>8. Search(view, roots) = at
  BY DEF Search, first, next
<1> HIDE DEF at
<1>9. at[0] = first /\ \A d \in 1 .. MaxDepth : at[d] = next(at[d - 1])
  <2>1. \A d \in 0 .. MaxDepth : at[d] = IF d = 0 THEN first ELSE next(at[d - 1])
    BY <1>7
  <2>2. 0 \in 0 .. MaxDepth /\ \A d \in 1 .. MaxDepth : d \in 0 .. MaxDepth /\ d # 0
    BY <1>1
  <2> QED  BY <2>1, <2>2
<1>10. \A d \in 0 .. MaxDepth : at[d] \in S
  <2> DEFINE G == {d \in Nat : d <= MaxDepth => at[d] \in S}
  <2>1. 0 \in G
    BY <1>2, <1>9
  <2>2. ASSUME NEW d \in Nat, d \in G PROVE d + 1 \in G
    <3> SUFFICES ASSUME d + 1 <= MaxDepth PROVE at[d + 1] \in S
      OBVIOUS
    <3>1. d + 1 \in 1 .. MaxDepth /\ (d + 1) - 1 = d /\ at[d] \in S
      BY <1>1, <2>2
    <3>2. at[d + 1] = next(at[d])
      BY <1>9, <3>1
    <3> QED  BY <1>3, <3>1, <3>2
  <2> HIDE DEF G
  <2>3. Nat \subseteq G
    BY <2>1, <2>2, NumberInduction
  <2> QED  BY <1>1, <2>3 DEF G
<1>11. ASSUME NEW d \in 1 .. MaxDepth
       PROVE  /\ Discovers(at[d].level, view, ToSet(at[d - 1].level), at[d - 1].visited)
              /\ at[d].visited = at[d - 1].visited \cup ToSet(at[d].level)
  <2>1. at[d - 1] \in S /\ at[d] = next(at[d - 1])
    BY <1>1, <1>9, <1>10
  <2> DEFINE s == at[d - 1]
  <2>2. Discovers(found(s), view, ToSet(s.level), s.visited)
    BY <1>3, <2>1
  <2>3. at[d].level = found(s) /\ at[d].visited = s.visited \cup ToSet(found(s))
    BY <1>4, <2>1
  <2> HIDE DEF found
  <2> QED  BY <2>2, <2>3
<1>12. \A d \in 0 .. MaxDepth : at[d].level \in Seq(Pairs(view))
                                /\ at[d].visited \subseteq Pairs(view)
  BY <1>10 DEF S
<1> QED  BY <1>2, <1>8, <1>9, <1>11, <1>12 DEF SearchIs

(* Breadth first finds the shortest ways.                                  *)
LEMMA LevelsAreWays ==
  ASSUME NEW view, IsView(view), NEW roots \in SUBSET DOMAIN view.dependents,
         NEW at, SearchIs(at, view, roots), NEW depth \in 1 .. MaxDepth,
         NEW x \in ToSet(at[depth].level)
  PROVE  /\ x[1] \in roots
         /\ x[2] \in Within(view, x[1])[depth] \ Within(view, x[1])[depth - 1]
<1> DEFINE w(r) == Within(view, r)
           Visits(d) == \A r, y : <<r, y>> \in at[d].visited <=> r \in roots /\ y \in w(r)[d]
           Reaches(d) ==
             \A r, y : <<r, y>> \in ToSet(at[d].level) <=>
               r \in roots /\ IF d = 0 THEN y = r ELSE y \in w(r)[d] \ w(r)[d - 1]
           G == {d \in Nat : d <= MaxDepth => Visits(d) /\ Reaches(d)}
<1>1. MaxDepth \in Nat
  BY EvidenceAssumption
<1>2. \A r \in roots : Ways(w(r), view, r)
  BY WithinHolds
<1> HIDE DEF w
<1>3. 0 \in G
  <2>1. Visits(0)
    BY <1>2 DEF SearchIs, Ways
  <2>2. Reaches(0)
    BY DEF SearchIs
  <2> QED  BY <2>1, <2>2
<1>4. ASSUME NEW d \in Nat, d \in G PROVE d + 1 \in G
  <2> SUFFICES ASSUME d + 1 <= MaxDepth PROVE Visits(d + 1) /\ Reaches(d + 1)
    OBVIOUS
  <2>1. d + 1 \in 1 .. MaxDepth /\ (d + 1) - 1 = d /\ Visits(d) /\ Reaches(d)
    BY <1>1, <1>4
  <2>2. /\ ToSet(at[d + 1].level) = Led(view, ToSet(at[d].level)) \ at[d].visited
        /\ at[d + 1].visited = at[d].visited \cup ToSet(at[d + 1].level)
    BY <2>1 DEF SearchIs, Discovers
  <2>3. ToSet(at[d].level) \subseteq Pairs(view)
    <3>1. at[d].level \in Seq(Pairs(view))
      <4>1. d \in 0 .. MaxDepth
        BY <1>1, <2>1
      <4> QED  BY <4>1 DEF SearchIs
    <3> QED  BY <3>1, ListOf
  <2>4. ASSUME NEW r, NEW y
        PROVE  <<r, y>> \in ToSet(at[d + 1].level) <=>
                 r \in roots /\ y \in w(r)[d + 1] \ w(r)[d]
    <3>1. ASSUME <<r, y>> \in ToSet(at[d + 1].level)
          PROVE  r \in roots /\ y \in w(r)[d + 1] /\ y \notin w(r)[d]
      <4>1. <<r, y>> \in Led(view, ToSet(at[d].level)) /\ <<r, y>> \notin at[d].visited
        BY <2>2, <3>1
      <4>2. PICK p \in ToSet(at[d].level) : <<r, y>> \in {p[1]} \X view.dependents[p[2]]
        BY <4>1 DEF Led
      <4>3. p[1] = r /\ y \in view.dependents[p[2]] /\ p = <<p[1], p[2]>>
        BY <2>3, <4>2 DEF Pairs
      <4>4. r \in roots /\ p[2] \in w(r)[d] \cup {r}
        BY <2>1, <4>2, <4>3
      <4>5. w(r)[d + 1] = UNION {view.dependents[e] : e \in w(r)[d] \cup {r}}
        BY <1>2, <2>1, <4>4 DEF Ways
      <4> QED  BY <2>1, <4>1, <4>3, <4>4, <4>5
    <3>2. ASSUME r \in roots, y \in w(r)[d + 1], y \notin w(r)[d]
          PROVE  <<r, y>> \in ToSet(at[d + 1].level)
      <4>1. w(r)[d + 1] = UNION {view.dependents[e] : e \in w(r)[d] \cup {r}}
        BY <1>2, <2>1, <3>2 DEF Ways
      <4>2. PICK e \in w(r)[d] \cup {r} : y \in view.dependents[e]
        BY <3>2, <4>1
      <4>3. <<r, e>> \in ToSet(at[d].level)
        <5>1. CASE d = 0
          <6>1. w(r)[0] = {}
            BY <1>2, <3>2 DEF Ways
          <6>2. e = r
            BY <4>2, <5>1, <6>1
          <6> QED  BY <2>1, <3>2, <5>1, <6>2
        <5>2. CASE d # 0
          <6>1. d \in 1 .. MaxDepth
            BY <1>1, <2>1, <5>2
          <6>2. w(r)[d] = UNION {view.dependents[f] : f \in w(r)[d - 1] \cup {r}}
            BY <1>2, <3>2, <6>1 DEF Ways
          <6>3. e \notin w(r)[d - 1] /\ e # r
            BY <3>2, <4>2, <6>2
          <6>4. e \in w(r)[d]
            BY <4>2, <6>3
          <6> QED  BY <2>1, <3>2, <5>2, <6>3, <6>4
        <5> QED  BY <5>1, <5>2
      <4>4. <<r, y>> \in {<<r, e>>[1]} \X view.dependents[<<r, e>>[2]]
        BY <4>2
      <4>5. <<r, y>> \in Led(view, ToSet(at[d].level))
        BY <4>3, <4>4 DEF Led
      <4>6. <<r, y>> \notin at[d].visited
        BY <2>1, <3>2
      <4> QED  BY <2>2, <4>5, <4>6
    <3> QED  BY <3>1, <3>2
  <2>5. Reaches(d + 1)
    <3>1. d + 1 # 0
      BY <1>4
    <3> QED  BY <2>1, <2>4, <3>1
  <2>6. ASSUME NEW r, NEW y
        PROVE  <<r, y>> \in at[d + 1].visited <=> r \in roots /\ y \in w(r)[d + 1]
    <3>1. <<r, y>> \in at[d + 1].visited <=>
            r \in roots /\ (y \in w(r)[d] \/ y \in w(r)[d + 1])
      BY <2>1, <2>2, <2>4
    <3>2. r \in roots => w(r)[d] \subseteq w(r)[d + 1]
      <4> SUFFICES ASSUME r \in roots PROVE w(r)[d] \subseteq w(r)[d + 1]
        OBVIOUS
      <4> DEFINE v == w(r)
      <4>1. Ways(v, view, r)
        BY <1>2
      <4> HIDE DEF v
      <4>2. v[(d + 1) - 1] \subseteq v[d + 1]
        BY <2>1, <4>1, WaysGrow
      <4> QED  BY <2>1, <4>2 DEF v
    <3> QED  BY <3>1, <3>2
  <2> QED  BY <2>5, <2>6
<1>5. depth \in G
  <2>1. depth \in Nat
    BY <1>1
  <2> HIDE DEF G
  <2> QED  BY <1>3, <1>4, <2>1, NumberInduction
<1>6. Reaches(depth) /\ depth # 0
  BY <1>1, <1>5
<1>7. x = <<x[1], x[2]>>
  <2>1. at[depth].level \in Seq(Pairs(view))
    <3>1. depth \in 0 .. MaxDepth
      BY <1>1
    <3> QED  BY <3>1 DEF SearchIs
  <2>2. x \in Pairs(view)
    BY <2>1, ListOf
  <2> QED  BY <2>2 DEF Pairs
<1>8. <<x[1], x[2]>> \in ToSet(at[depth].level)
  BY <1>7
<1> QED  BY <1>6, <1>8 DEF w

(* What holds of every fact of a view.                                     *)
Backed(f, key, before, after, touched) ==
  LET ch == Changes(before, after, touched) IN
  /\ f.key = key
  /\ f.origin # "upstream_exposure" => f.id \in ch.semantic
  /\ f.causes # {} /\ f.causes \cap touched = {} =>
       /\ f.depth \in 1 .. MaxDepth
       /\ \A r \in f.causes :
            /\ f.id \in Within(after, r)[f.depth] \ Within(after, r)[f.depth - 1]
            /\ r \in ch.semantic
            /\ OriginOf(after, ch, r) \notin {"build_configuration", "unattributed_semantic_change"}

Backs(s, key, before, after, touched) ==
  IsList(s) /\ \A f \in ToSet(s) : Backed(f, key, before, after, touched)

(* Every change of a view has its fact.                                    *)
Explains(s, key, after, ch) ==
  \A id \in ch.semantic : \E f \in ToSet(s) :
    f.id = id /\ f.key = key /\ f.origin = OriginOf(after, ch, id)

LEMMA SemanticIds ==
  ASSUME NEW before, NEW after, IsView(after), NEW touched
  PROVE  LET ch == Changes(before, after, touched) IN
         /\ ch.semantic \subseteq DOMAIN after.elements
         /\ DOMAIN after.elements \subseteq DOMAIN after.dependents
         /\ DOMAIN after.elements \in SUBSET Nat /\ IsFiniteSet(DOMAIN after.elements)
         /\ ch.files \subseteq touched
<1>1. /\ DOMAIN after.elements \subseteq DOMAIN after.dependents
      /\ DOMAIN after.dependents \subseteq Nat /\ IsFiniteSet(DOMAIN after.dependents)
  BY DEF IsView
<1>2. DOMAIN after.elements \in SUBSET Nat /\ IsFiniteSet(DOMAIN after.elements)
  BY <1>1, FS_Subset
<1> QED  BY <1>1, <1>2 DEF Changes

LEMMA ChangesListed ==
  ASSUME NEW before, NEW after, IsView(after), NEW touched, NEW key
  PROVE  LET ch == Changes(before, after, touched)
             s == ChangeFacts(key, before, after, ch)
         IN Backs(s, key, before, after, touched) /\ Explains(s, key, after, ch)
<1> DEFINE ch == Changes(before, after, touched)
           ids == Ids(ch.semantic)
           s == ChangeFacts(key, before, after, ch)
<1>1. ch.semantic \in SUBSET Nat /\ IsFiniteSet(ch.semantic) /\ ch.files \subseteq touched
  <2>1. /\ ch.semantic \subseteq DOMAIN after.elements
        /\ DOMAIN after.elements \in SUBSET Nat /\ IsFiniteSet(DOMAIN after.elements)
        /\ ch.files \subseteq touched
    BY SemanticIds
  <2> HIDE DEF ch
  <2> QED  BY <2>1, FS_Subset
<1> SUFFICES Backs(s, key, before, after, touched) /\ Explains(s, key, after, ch)
  OBVIOUS
<1>a. Changes(before, after, touched) = ch
  OBVIOUS
<1> HIDE DEF ch
<1>2. IsList(ids) /\ ToSet(ids) = ch.semantic
  BY <1>1, IdsAreListed
<1>3. /\ DOMAIN s = DOMAIN ids /\ s = [i \in DOMAIN ids |-> s[i]]
      /\ \A i \in DOMAIN ids :
           /\ s[i].id = ids[i] /\ s[i].key = key
           /\ s[i].origin = OriginOf(after, ch, ids[i])
           /\ s[i].causes = {} \/ s[i].causes = ch.files
  BY DEF ChangeFacts
<1> HIDE DEF s, ids
<1>4. IsList(s) /\ ToSet(s) = {s[i] : i \in DOMAIN ids}
  BY <1>2, <1>3, ListMapped
<1>5. Explains(s, key, after, ch)
  <2>1. ch.semantic = {ids[i] : i \in DOMAIN ids}
    BY <1>2 DEF ToSet
  <2> QED  BY <1>3, <1>4, <2>1 DEF Explains
<1>6. ASSUME NEW f \in ToSet(s) PROVE Backed(f, key, before, after, touched)
  <2>1. PICK i \in DOMAIN ids : f = s[i]
    BY <1>4
  <2>2. ids[i] \in ch.semantic
    BY <1>2 DEF ToSet
  <2>3. f.causes = {} \/ f.causes \cap touched = f.causes
    BY <1>1, <1>3, <2>1
  <2> QED  BY <1>a, <1>3, <2>1, <2>2, <2>3 DEF Backed
<1> QED  BY <1>4, <1>5, <1>6 DEF Backs

LEMMA ExposuresListed ==
  ASSUME NEW before, NEW after, IsView(after), NEW touched, NEW key
  PROVE  Backs(ExposureFacts(key, before, after, Changes(before, after, touched)),
               key, before, after, touched)
<1> DEFINE ch == Changes(before, after, touched)
           S == DOMAIN after.elements \ ch.own
           ids == IF ch.files = {} THEN << >> ELSE Ids(S)
           s == ExposureFacts(key, before, after, ch)
<1>1. S \in SUBSET Nat /\ IsFiniteSet(S) /\ ch.files \subseteq touched
  <2>1. /\ DOMAIN after.elements \in SUBSET Nat /\ IsFiniteSet(DOMAIN after.elements)
        /\ ch.files \subseteq touched
    BY SemanticIds
  <2>2. S \subseteq DOMAIN after.elements
    OBVIOUS
  <2> HIDE DEF ch, S
  <2> QED  BY <2>1, <2>2, FS_Subset
<1>a. Changes(before, after, touched) = ch
  OBVIOUS
<1>2. IsList(ids)
  <2> HIDE DEF ch, S
  <2> QED  BY <1>1, IdsAreListed, EmptyList
<1> HIDE DEF ch
<1>3. /\ s = [i \in DOMAIN ids |-> s[i]]
      /\ \A i \in DOMAIN ids :
           /\ s[i].key = key /\ s[i].causes = ch.files
           /\ s[i].origin # "upstream_exposure" => s[i].id \in ch.semantic
  BY DEF ExposureFacts
<1> HIDE DEF s, ids
<1>4. IsList(s) /\ ToSet(s) = {s[i] : i \in DOMAIN ids}
  BY <1>2, <1>3, ListMapped
<1>5. ASSUME NEW f \in ToSet(s) PROVE Backed(f, key, before, after, touched)
  <2>1. PICK i \in DOMAIN ids : f = s[i]
    BY <1>4
  <2>2. f.causes \cap touched = f.causes
    BY <1>1, <1>3, <2>1
  <2> QED  BY <1>a, <1>3, <2>1, <2>2 DEF Backed
<1> QED  BY <1>a, <1>4, <1>5 DEF Backs, s

LEMMA PropagationListed ==
  ASSUME NEW before, NEW after, IsView(after), NEW touched, NEW key
  PROVE  Backs(PropagatedFacts(key, before, after, Changes(before, after, touched)),
               key, before, after, touched)
<1> DEFINE ch == Changes(before, after, touched)
           roots == Roots(after, ch)
           at == Search(after, roots)
           fact(x, d) ==
             [id |-> x[2],
              origin |-> IF x[2] \in ch.semantic THEN "confirmed_induced" ELSE "upstream_exposure",
              key |-> key, dims |-> Dims(before, after, ch, x[2]), causes |-> {x[1]}, depth |-> d]
           FoundAt(d) == {fact(x, d) : x \in ToSet(at[d].level)}
           F == UNION {FoundAt(d) : d \in 1 .. MaxDepth}
           found(d) == LET level == at[d].level IN [i \in DOMAIN level |-> fact(level[i], d)]
           e == << >>
           Are(f) == f = [d \in 0 .. MaxDepth |->
                            IF d = 0 THEN e ELSE f[d - 1] \o found(d)]
<1>1. MaxDepth \in Nat
  BY EvidenceAssumption
<1>a. Changes(before, after, touched) = ch
  OBVIOUS
<1>2. /\ roots \in SUBSET DOMAIN after.dependents /\ roots \subseteq ch.semantic
      /\ \A r \in roots : OriginOf(after, ch, r)
           \notin {"build_configuration", "unattributed_semantic_change"}
  <2>1. /\ ch.semantic \subseteq DOMAIN after.elements
        /\ DOMAIN after.elements \subseteq DOMAIN after.dependents
    BY SemanticIds
  <2> HIDE DEF ch
  <2> QED  BY <2>1 DEF Roots
<1> HIDE DEF ch
<1>3. SearchIs(at, after, roots)
  BY <1>2, SearchHolds
<1>4. PropagatedFacts(key, before, after, ch) = (CHOOSE f : Are(f))[MaxDepth]
  BY DEF PropagatedFacts
<1> HIDE DEF roots
<1> HIDE DEF at
<1>5. ASSUME NEW d \in 1 .. MaxDepth PROVE found(d) \in Seq(F)
  <2> DEFINE level == at[d].level
             t == [i \in DOMAIN level |-> fact(level[i], d)]
  <2>1. IsList(level)
    <3>1. level \in Seq(Pairs(after))
      BY <1>1, <1>3 DEF SearchIs
    <3> QED  BY <3>1, ListOf
  <2>2. \A i \in DOMAIN level : level[i] \in ToSet(level)
    BY DEF ToSet
  <2>3. found(d) = t
    OBVIOUS
  <2>4. t = [i \in DOMAIN level |-> t[i]] /\ \A i \in DOMAIN level : t[i] = fact(level[i], d)
    OBVIOUS
  <2> HIDE DEF t, fact
  <2>5. IsList(t) /\ ToSet(t) = {t[i] : i \in DOMAIN level}
    <3> HIDE DEF level
    <3> QED  BY <2>1, <2>4, ListMapped
  <2>6. ToSet(t) \subseteq FoundAt(d)
    BY <2>2, <2>4, <2>5
  <2>7. ToSet(t) \subseteq F
    BY <2>6
  <2> HIDE DEF F
  <2> QED  BY <2>3, <2>5, <2>7, ListIn
<1>6. ASSUME NEW f \in F PROVE Backed(f, key, before, after, touched)
  <2>1. PICK d \in 1 .. MaxDepth : f \in FoundAt(d)
    OBVIOUS
  <2>2. PICK x \in ToSet(at[d].level) : f = fact(x, d)
    BY <2>1
  <2>3. /\ f.id = x[2] /\ f.key = key /\ f.causes = {x[1]} /\ f.depth = d
        /\ f.origin # "upstream_exposure" => f.id \in ch.semantic
    BY <2>2
  <2>4. /\ x[1] \in roots
        /\ x[2] \in Within(after, x[1])[d] \ Within(after, x[1])[d - 1]
    BY <1>2, <1>3, LevelsAreWays
  <2> QED  BY <1>a, <1>2, <2>3, <2>4 DEF Backed
<1>b. e \in Seq(F)
  OBVIOUS
<1> HIDE DEF F, found, e
<1>7. \E f \in [0 .. MaxDepth -> Seq(F)] :
        f[0] = e /\ \A d \in 1 .. MaxDepth : f[d] = f[d - 1] \o found(d)
  <2> DEFINE S == Seq(F)
             g == [d \in 1 .. MaxDepth |-> [s \in S |-> s \o found(d)]]
  <2>1. g \in [1 .. MaxDepth -> [S -> S]] /\ e \in S
    BY <1>5, <1>b
  <2>2. \A d \in 1 .. MaxDepth : \A s \in S : g[d][s] = s \o found(d)
    OBVIOUS
  <2> HIDE DEF g, S
  <2>3. PICK f : StepsFrom(f, MaxDepth, S, e, g)
    BY <1>1, <2>1, StepsExist
  <2>4. f \in [0 .. MaxDepth -> S] /\ f[0] = e /\ \A d \in 1 .. MaxDepth : f[d] = g[d][f[d - 1]]
    BY <2>3 DEF StepsFrom
  <2>5. \A d \in 1 .. MaxDepth : d - 1 \in 0 .. MaxDepth
    BY <1>1
  <2>6. \A d \in 1 .. MaxDepth : f[d] = f[d - 1] \o found(d)
    BY <2>2, <2>4, <2>5
  <2> QED  BY <2>4, <2>6 DEF S
<1>8. \E f : Are(f)
  <2>1. PICK f \in [0 .. MaxDepth -> Seq(F)] :
          f[0] = e /\ \A d \in 1 .. MaxDepth : f[d] = f[d - 1] \o found(d)
    BY <1>7
  <2> DEFINE next(t, d) == t \o found(d)
  <2>2. \A d \in 0 .. MaxDepth : f[d] = IF d = 0 THEN e ELSE next(f[d - 1], d)
    <3>1. f[0] = e /\ \A d \in 1 .. MaxDepth : f[d] = next(f[d - 1], d)
      BY <2>1
    <3> HIDE DEF next
    <3> QED  BY <1>1, <3>1
  <2>3. f = [d \in 0 .. MaxDepth |-> f[d]]
    BY <2>1
  <2>4. Are(f)
    BY <2>2, <2>3
  <2> QED  BY <2>4
<1> DEFINE upTo == CHOOSE f : Are(f)
<1>9. Are(upTo)
  <2> HIDE DEF Are
  <2> QED  BY <1>8
<1> HIDE DEF upTo
<1>10. upTo[0] = e /\ \A d \in 1 .. MaxDepth : upTo[d] = upTo[d - 1] \o found(d)
  <2>1. \A d \in 0 .. MaxDepth : upTo[d] = IF d = 0 THEN e ELSE upTo[d - 1] \o found(d)
    BY <1>9
  <2>2. 0 \in 0 .. MaxDepth /\ \A d \in 1 .. MaxDepth : d \in 0 .. MaxDepth /\ d # 0
    BY <1>1
  <2> QED  BY <2>1, <2>2
<1> DEFINE G == {d \in Nat : d <= MaxDepth => upTo[d] \in Seq(F)}
<1>11. 0 \in G
  BY <1>10, <1>b
<1>12. ASSUME NEW d \in Nat, d \in G PROVE d + 1 \in G
  <2> SUFFICES ASSUME d + 1 <= MaxDepth PROVE upTo[d + 1] \in Seq(F)
    OBVIOUS
  <2>1. d + 1 \in 1 .. MaxDepth /\ (d + 1) - 1 = d /\ upTo[d] \in Seq(F)
    BY <1>1, <1>12
  <2>2. upTo[d + 1] = upTo[d] \o found(d + 1) /\ found(d + 1) \in Seq(F)
    BY <1>5, <1>10, <2>1
  <2> QED  BY <2>1, <2>2, ConcatProperties
<1>13. upTo[MaxDepth] \in Seq(F)
  <2>1. MaxDepth \in G
    <3> HIDE DEF G
    <3> QED  BY <1>1, <1>11, <1>12, NumberInduction
  <2> QED  BY <1>1, <2>1
<1> DEFINE s == PropagatedFacts(key, before, after, ch)
<1>14. s = upTo[MaxDepth]
  BY <1>4 DEF upTo
<1> HIDE DEF s
<1>15. IsList(s) /\ ToSet(s) \subseteq F
  BY <1>13, <1>14, ListOf
<1> QED  BY <1>a, <1>6, <1>15 DEF Backs, s

(* What is emitted: one mark per element, origin and unit.                 *)
Mark(f) == <<f.id, f.origin, f.key[2]>>

Accounted(acc) ==
  /\ Len(acc.facts) <= MaxInduced
  /\ ~acc.capped => \A m \in acc.emitted : \E f \in ToSet(acc.facts) : Mark(f) = m

Emissions(F) == [emitted : SUBSET {Mark(f) : f \in F}, capped : BOOLEAN, facts : Seq(F)]
Accounts(F) == {acc \in Emissions(F) : Accounted(acc)}

LEMMA EmitAccounts ==
  ASSUME NEW F, NEW f \in F, NEW acc \in Accounts(F)
  PROVE  /\ Emit(acc, f) \in Accounts(F)
         /\ Emit(acc, f).emitted = acc.emitted \cup {Mark(f)}
<1> DEFINE more == [emitted |-> acc.emitted \cup {Mark(f)},
                    capped |-> acc.capped \/ Len(acc.facts) >= MaxInduced,
                    facts |-> IF Len(acc.facts) >= MaxInduced THEN acc.facts
                              ELSE Append(acc.facts, f)]
<1>1. /\ acc.emitted \subseteq {Mark(g) : g \in F} /\ acc.capped \in BOOLEAN
      /\ acc.facts \in Seq(F) /\ Len(acc.facts) \in Nat /\ MaxInduced \in Nat
      /\ acc \in Emissions(F) /\ Accounted(acc)
  BY EvidenceAssumption DEF Accounts, Emissions
<1>2. Emit(acc, f) = IF Mark(f) \in acc.emitted THEN acc ELSE more
  BY DEF Emit, Mark
<1>3. CASE Mark(f) \in acc.emitted
  BY <1>2, <1>3
<1>4. CASE Mark(f) \notin acc.emitted
  <2>1. Append(acc.facts, f) \in Seq(F) /\ Len(Append(acc.facts, f)) = Len(acc.facts) + 1
    BY <1>1, AppendProperties
  <2>2. /\ more.emitted = acc.emitted \cup {Mark(f)}
        /\ more.capped = (acc.capped \/ Len(acc.facts) >= MaxInduced)
        /\ more.facts = IF Len(acc.facts) >= MaxInduced THEN acc.facts ELSE Append(acc.facts, f)
    OBVIOUS
  <2>3. more \in Emissions(F)
    <3>1. more.emitted \in SUBSET {Mark(g) : g \in F}
      BY <1>1
    <3>2. more.facts \in Seq(F) /\ more.capped \in BOOLEAN
      BY <1>1, <2>1
    <3>3. more = [emitted |-> more.emitted, capped |-> more.capped, facts |-> more.facts]
      OBVIOUS
    <3> HIDE DEF more
    <3> QED  BY <3>1, <3>2, <3>3 DEF Emissions
  <2> HIDE DEF more
  <2>4. Accounted(more)
    <3>1. Len(more.facts) <= MaxInduced
      BY <1>1, <2>1, <2>2 DEF Accounted
    <3>2. ASSUME ~more.capped, NEW m \in more.emitted
          PROVE  \E g \in ToSet(more.facts) : Mark(g) = m
      <4>1. ~acc.capped /\ more.facts = Append(acc.facts, f)
        BY <1>1, <2>2, <3>2
      <4>2. IsList(acc.facts) /\ IsList(<<f>>) /\ ToSet(<<f>>) = {f}
        <5>1. <<f>> \in Seq({f}) /\ DOMAIN <<f>> = {1} /\ <<f>>[1] = f
          OBVIOUS
        <5>2. ToSet(<<f>>) = {f}
          BY <5>1 DEF ToSet
        <5> QED  BY <1>1, <5>1, <5>2, ListOf
      <4>3. Append(acc.facts, f) = acc.facts \o <<f>>
        BY <1>1, AppendIsConcat
      <4>4. ToSet(more.facts) = ToSet(acc.facts) \cup {f}
        BY <4>1, <4>2, <4>3, ListsJoined
      <4> QED  BY <1>1, <2>2, <3>2, <4>1, <4>4 DEF Accounted
    <3> QED  BY <3>1, <3>2 DEF Accounted
  <2> QED  BY <1>2, <1>4, <2>2, <2>3, <2>4 DEF Accounts
<1> QED  BY <1>3, <1>4

Marked(e, acc, s) == acc.emitted \subseteq e.emitted /\ \A f \in ToSet(s) : Mark(f) \in e.emitted

LEMMA EmitAllAccounts ==
  ASSUME NEW F, NEW s, IsList(s), ToSet(s) \subseteq F, NEW acc \in Accounts(F)
  PROVE  EmitAll(acc, s) \in Accounts(F) /\ Marked(EmitAll(acc, s), acc, s)
<1> DEFINE n == Len(s)
           S == Accounts(F)
           next(a, k) == Emit(a, s[k])
           Are(h) == h = [k \in 0 .. n |-> IF k = 0 THEN acc ELSE next(h[k - 1], k)]
<1>1. n \in Nat /\ DOMAIN s = 1 .. n /\ \A k \in 1 .. n : s[k] \in F
  BY ListDomain
<1>2. ASSUME NEW k \in 1 .. n, NEW a \in S
      PROVE  next(a, k) \in S /\ next(a, k).emitted = a.emitted \cup {Mark(s[k])}
  BY <1>1, EmitAccounts
<1>3. EmitAll(acc, s) = (CHOOSE h : Are(h))[n]
  BY DEF EmitAll
<1> HIDE DEF next, S, n
<1>4. acc \in S
  BY DEF S
<1>5. \E h \in [0 .. n -> S] : h[0] = acc /\ \A k \in 1 .. n : h[k] = next(h[k - 1], k)
  <2> DEFINE g == [k \in 1 .. n |-> [a \in S |-> next(a, k)]]
  <2>1. g \in [1 .. n -> [S -> S]]
    BY <1>2
  <2>2. \A k \in 1 .. n : \A a \in S : g[k][a] = next(a, k)
    OBVIOUS
  <2> HIDE DEF g
  <2>3. PICK h : StepsFrom(h, n, S, acc, g)
    BY <1>1, <1>4, <2>1, StepsExist
  <2>4. h \in [0 .. n -> S] /\ h[0] = acc /\ \A k \in 1 .. n : h[k] = g[k][h[k - 1]]
    BY <2>3 DEF StepsFrom
  <2>5. \A k \in 1 .. n : k - 1 \in 0 .. n
    BY <1>1
  <2>6. \A k \in 1 .. n : h[k] = next(h[k - 1], k)
    BY <2>2, <2>4, <2>5
  <2> QED  BY <2>4, <2>6
<1>6. \E h : Are(h)
  <2>1. PICK h \in [0 .. n -> S] : h[0] = acc /\ \A k \in 1 .. n : h[k] = next(h[k - 1], k)
    BY <1>5
  <2>2. \A k \in 0 .. n : h[k] = IF k = 0 THEN acc ELSE next(h[k - 1], k)
    BY <1>1, <2>1
  <2>3. h = [k \in 0 .. n |-> h[k]]
    BY <2>1
  <2>4. Are(h)
    BY <2>2, <2>3
  <2> QED  BY <2>4
<1> DEFINE h == CHOOSE x : Are(x)
<1>7. Are(h)
  <2> HIDE DEF Are
  <2> QED  BY <1>6
<1> HIDE DEF h
<1>8. h[0] = acc /\ \A k \in 1 .. n : h[k] = next(h[k - 1], k)
  <2>1. \A k \in 0 .. n : h[k] = IF k = 0 THEN acc ELSE next(h[k - 1], k)
    BY <1>7
  <2>2. 0 \in 0 .. n /\ \A k \in 1 .. n : k \in 0 .. n /\ k # 0
    BY <1>1
  <2> QED  BY <2>1, <2>2
<1> DEFINE Done(k) ==
             /\ h[k] \in S /\ acc.emitted \subseteq h[k].emitted
             /\ \A i \in 1 .. k : Mark(s[i]) \in h[k].emitted
           G == {k \in Nat : k <= n => Done(k)}
<1>9. 0 \in G
  BY <1>4, <1>8
<1>10. ASSUME NEW k \in Nat, k \in G PROVE k + 1 \in G
  <2> SUFFICES ASSUME k + 1 <= n PROVE Done(k + 1)
    OBVIOUS
  <2>1. k + 1 \in 1 .. n /\ (k + 1) - 1 = k /\ Done(k)
    BY <1>1, <1>10
  <2>2. h[k + 1] = next(h[k], k + 1)
    BY <1>8, <2>1
  <2>3. h[k + 1] \in S /\ h[k + 1].emitted = h[k].emitted \cup {Mark(s[k + 1])}
    BY <1>2, <2>1, <2>2
  <2>4. \A i \in 1 .. k + 1 : i \in 1 .. k \/ i = k + 1
    OBVIOUS
  <2> QED  BY <2>1, <2>3, <2>4
<1>11. n \in G
  <2> HIDE DEF G
  <2> QED  BY <1>1, <1>9, <1>10, NumberInduction
<1>12. Done(n)
  BY <1>1, <1>11
<1>13. \A f \in ToSet(s) : Mark(f) \in h[n].emitted
  BY <1>1, <1>12 DEF ToSet
<1> QED  BY <1>3, <1>12, <1>13 DEF h, S, Marked

LEMMA NothingEmitted ==
  ASSUME NEW F
  PROVE  [emitted |-> {}, facts |-> << >>, capped |-> FALSE] \in Accounts(F)
<1> DEFINE e == << >>
           acc == [emitted |-> {}, facts |-> e, capped |-> FALSE]
<1>1. e \in Seq(F) /\ Len(e) = 0
  OBVIOUS
<1> HIDE DEF e
<1>2. acc \in Emissions(F)
  BY <1>1 DEF Emissions
<1>3. Accounted(acc)
  BY <1>1, EvidenceAssumption DEF Accounted
<1>4. acc \in Accounts(F)
  BY <1>2, <1>3 DEF Accounts
<1> QED  BY <1>4 DEF e

LEMMA FactsListed ==
  ASSUME NEW before, NEW after, IsView(after), NEW touched, NEW key
  PROVE  LET s == FactsOf(key, before, after, touched)
         IN /\ Backs(s, key, before, after, touched)
            /\ Explains(s, key, after, Changes(before, after, touched))
<1> DEFINE ch == Changes(before, after, touched)
           a == ChangeFacts(key, before, after, ch)
           b == ExposureFacts(key, before, after, ch)
           c == PropagatedFacts(key, before, after, ch)
           s == FactsOf(key, before, after, touched)
<1>1. /\ Backs(a, key, before, after, touched) /\ Explains(a, key, after, ch)
      /\ Backs(b, key, before, after, touched)
      /\ Backs(c, key, before, after, touched)
  BY ChangesListed, ExposuresListed, PropagationListed
<1>2. s = a \o b \o c
  BY DEF FactsOf
<1> HIDE DEF a, b, c, s
<1>3. IsList(s) /\ ToSet(s) = (ToSet(a) \cup ToSet(b)) \cup ToSet(c)
  <2> DEFINE ab == a \o b
  <2>1. IsList(a) /\ IsList(b) /\ IsList(c)
    BY <1>1 DEF Backs
  <2>2. IsList(ab) /\ ToSet(ab) = ToSet(a) \cup ToSet(b)
    BY <2>1, ListsJoined
  <2>3. s = ab \o c
    BY <1>2
  <2> HIDE DEF ab
  <2>4. IsList(s) /\ ToSet(s) = ToSet(ab) \cup ToSet(c)
    BY <2>1, <2>2, <2>3, ListsJoined
  <2> QED  BY <2>2, <2>4
<1> HIDE DEF ch
<1>4. Backs(s, key, before, after, touched)
  BY <1>1, <1>3 DEF Backs
<1>5. Explains(s, key, after, ch)
  BY <1>1, <1>3 DEF Explains
<1> QED  BY <1>4, <1>5 DEF s, ch

LEMMA EvidenceAccounts ==
  ASSUME NEW before, AreViews(before), NEW after, AreViews(after), NEW touched
  PROVE  LET e == Evidence(before, after, touched)
             views == DOMAIN before \cap DOMAIN after
             facts(key) == FactsOf(key, before[key], after[key], touched)
         IN /\ e \in Accounts(UNION {ToSet(facts(key)) : key \in views})
            /\ \A key \in views : \A f \in ToSet(facts(key)) : Mark(f) \in e.emitted
<1> DEFINE views == DOMAIN before \cap DOMAIN after
           facts(key) == FactsOf(key, before[key], after[key], touched)
           F == UNION {ToSet(facts(key)) : key \in views}
           keys == Keys(views)
           n == Len(keys)
           S == Accounts(F)
           first == [emitted |-> {}, facts |-> << >>, capped |-> FALSE]
           next(a, k) == EmitAll(a, facts(keys[k]))
           Are(h) == h = [k \in 0 .. n |-> IF k = 0 THEN first ELSE next(h[k - 1], k)]
<1>1. IsList(keys) /\ ToSet(keys) = views
  <2>1. views \in SUBSET (Nat \X Nat) /\ IsFiniteSet(views)
    <3>1. DOMAIN before \subseteq Nat \X Nat /\ IsFiniteSet(DOMAIN before)
      BY DEF AreViews
    <3> QED  BY <3>1, FS_Subset
  <2> HIDE DEF views
  <2> QED  BY <2>1, KeysAreListed
<1>2. ASSUME NEW key \in views PROVE IsList(facts(key))
  <2>1. IsView(after[key])
    BY DEF AreViews
  <2> HIDE DEF views
  <2>2. Backs(facts(key), key, before[key], after[key], touched)
    BY <2>1, FactsListed
  <2> QED  BY <2>2 DEF Backs
<1>3. Evidence(before, after, touched) = (CHOOSE h : Are(h))[n]
  BY DEF Evidence
<1> HIDE DEF keys, facts, views
<1>4. n \in Nat /\ DOMAIN keys = 1 .. n /\ \A k \in 1 .. n : keys[k] \in views
  BY <1>1, ListDomain
<1> HIDE DEF n
<1>5. ASSUME NEW k \in 1 .. n, NEW a \in S
      PROVE  next(a, k) \in S /\ Marked(next(a, k), a, facts(keys[k]))
  <2>1. IsList(facts(keys[k])) /\ ToSet(facts(keys[k])) \subseteq F
    BY <1>2, <1>4
  <2> HIDE DEF F
  <2> QED  BY <2>1, EmitAllAccounts
<1>6. first \in S
  <2> HIDE DEF F
  <2> QED  BY NothingEmitted
<1> HIDE DEF next, S, first
<1>7. \E h \in [0 .. n -> S] : h[0] = first /\ \A k \in 1 .. n : h[k] = next(h[k - 1], k)
  <2> DEFINE g == [k \in 1 .. n |-> [a \in S |-> next(a, k)]]
  <2>1. g \in [1 .. n -> [S -> S]]
    BY <1>5
  <2>2. \A k \in 1 .. n : \A a \in S : g[k][a] = next(a, k)
    OBVIOUS
  <2> HIDE DEF g
  <2>3. PICK h : StepsFrom(h, n, S, first, g)
    BY <1>4, <1>6, <2>1, StepsExist
  <2>4. h \in [0 .. n -> S] /\ h[0] = first /\ \A k \in 1 .. n : h[k] = g[k][h[k - 1]]
    BY <2>3 DEF StepsFrom
  <2>5. \A k \in 1 .. n : k - 1 \in 0 .. n
    BY <1>4
  <2>6. \A k \in 1 .. n : h[k] = next(h[k - 1], k)
    BY <2>2, <2>4, <2>5
  <2> QED  BY <2>4, <2>6
<1>8. \E h : Are(h)
  <2>1. PICK h \in [0 .. n -> S] : h[0] = first /\ \A k \in 1 .. n : h[k] = next(h[k - 1], k)
    BY <1>7
  <2>2. \A k \in 0 .. n : h[k] = IF k = 0 THEN first ELSE next(h[k - 1], k)
    BY <1>4, <2>1
  <2>3. h = [k \in 0 .. n |-> h[k]]
    BY <2>1
  <2>4. Are(h)
    BY <2>2, <2>3
  <2> QED  BY <2>4
<1> DEFINE h == CHOOSE x : Are(x)
<1>9. Are(h)
  <2> HIDE DEF Are
  <2> QED  BY <1>8
<1> HIDE DEF h
<1>10. h[0] = first /\ \A k \in 1 .. n : h[k] = next(h[k - 1], k)
  <2>1. \A k \in 0 .. n : h[k] = IF k = 0 THEN first ELSE next(h[k - 1], k)
    BY <1>9
  <2>2. 0 \in 0 .. n /\ \A k \in 1 .. n : k \in 0 .. n /\ k # 0
    BY <1>4
  <2> QED  BY <2>1, <2>2
<1> DEFINE Done(k) ==
             /\ h[k] \in S
             /\ \A i \in 1 .. k : \A f \in ToSet(facts(keys[i])) : Mark(f) \in h[k].emitted
           G == {k \in Nat : k <= n => Done(k)}
<1>11. 0 \in G
  BY <1>6, <1>10
<1>12. ASSUME NEW k \in Nat, k \in G PROVE k + 1 \in G
  <2> SUFFICES ASSUME k + 1 <= n PROVE Done(k + 1)
    OBVIOUS
  <2>1. k + 1 \in 1 .. n /\ (k + 1) - 1 = k /\ Done(k)
    BY <1>4, <1>12
  <2>2. h[k + 1] = next(h[k], k + 1)
    BY <1>10, <2>1
  <2>3. /\ h[k + 1] \in S /\ h[k].emitted \subseteq h[k + 1].emitted
        /\ \A f \in ToSet(facts(keys[k + 1])) : Mark(f) \in h[k + 1].emitted
    BY <1>5, <2>1, <2>2 DEF Marked
  <2>4. \A i \in 1 .. k + 1 : i \in 1 .. k \/ i = k + 1
    OBVIOUS
  <2> QED  BY <2>1, <2>3, <2>4
<1>13. n \in G
  <2> HIDE DEF G
  <2> QED  BY <1>4, <1>11, <1>12, NumberInduction
<1>14. Done(n)
  BY <1>4, <1>13
<1>15. \A key \in views : \A f \in ToSet(facts(key)) : Mark(f) \in h[n].emitted
  <2>1. \A key \in views : \E k \in 1 .. n : key = keys[k]
    BY <1>1, <1>4 DEF ToSet
  <2> QED  BY <1>14, <2>1
<1> QED  BY <1>3, <1>14, <1>15 DEF h, S, facts, views

(* Evidence is sound for every pair of revisions and every set of touched  *)
(* paths (summarize_change_evidence, src/change_evidence.cpp:154-287).     *)
THEOREM EvidenceSound ==
  ASSUME NEW before, AreViews(before), NEW after, AreViews(after), NEW touched
  PROVE  EvidenceIsSound(before, after, touched)
<1> DEFINE e == Evidence(before, after, touched)
           views == DOMAIN before \cap DOMAIN after
           facts(key) == FactsOf(key, before[key], after[key], touched)
           F == UNION {ToSet(facts(key)) : key \in views}
           ch == [view \in views |-> Changes(before[view], after[view], touched)]
           way(f, r) == Within(after[f.key], r)[f.depth] \ Within(after[f.key], r)[f.depth - 1]
<1>1. /\ e \in Accounts(F)
      /\ \A key \in views : \A f \in ToSet(facts(key)) : Mark(f) \in e.emitted
  BY EvidenceAccounts
<1>2. ASSUME NEW key \in views
      PROVE  /\ Backs(facts(key), key, before[key], after[key], touched)
             /\ Explains(facts(key), key, after[key], ch[key])
  <2>1. IsView(after[key])
    BY DEF AreViews
  <2>2. ch[key] = Changes(before[key], after[key], touched)
    OBVIOUS
  <2> HIDE DEF views, ch
  <2> QED  BY <2>1, <2>2, FactsListed
<1>3. \A key \in views : ch[key] = Changes(before[key], after[key], touched)
  OBVIOUS
<1> HIDE DEF e, facts, ch, views
<1>4. e.facts \in Seq(F) /\ Accounted(e)
  BY <1>1 DEF Accounts, Emissions
<1>5. ASSUME NEW f \in ToSet(e.facts)
      PROVE  f.key \in views /\ Backed(f, f.key, before[f.key], after[f.key], touched)
  <2>1. f \in F
    <3> HIDE DEF F
    <3> QED  BY <1>4, ListOf
  <2>2. PICK key \in views : f \in ToSet(facts(key))
    BY <2>1
  <2>3. Backed(f, key, before[key], after[key], touched)
    BY <1>2, <2>2 DEF Backs
  <2>4. f.key = key
    BY <2>3 DEF Backed
  <2> QED  BY <2>3, <2>4
<1>6. ASSUME ~e.capped, NEW view \in views, NEW id \in ch[view].semantic
      PROVE  \E f \in ToSet(e.facts) :
               /\ f.id = id /\ f.key[2] = view[2]
               /\ f.origin = OriginOf(after[view], ch[view], id)
  <2>1. PICK f \in ToSet(facts(view)) :
          f.id = id /\ f.key = view /\ f.origin = OriginOf(after[view], ch[view], id)
    BY <1>2 DEF Explains
  <2>2. Mark(f) \in e.emitted
    BY <1>1
  <2>3. PICK g \in ToSet(e.facts) : Mark(g) = Mark(f)
    BY <1>4, <1>6, <2>2 DEF Accounted
  <2>4. g.id = f.id /\ g.origin = f.origin /\ g.key[2] = f.key[2]
    BY <2>3 DEF Mark
  <2> QED  BY <2>1, <2>4
<1>7. ASSUME NEW f \in ToSet(e.facts)
      PROVE  /\ f.origin # "upstream_exposure" => f.id \in ch[f.key].semantic
             /\ f.causes # {} /\ f.causes \cap touched = {} =>
                  /\ f.depth \in 1 .. MaxDepth
                  /\ \A r \in f.causes : f.id \in way(f, r) /\ r \in ch[f.key].semantic
                       /\ OriginOf(after[f.key], ch[f.key], r)
                             \notin {"build_configuration", "unattributed_semantic_change"}
  BY <1>3, <1>5 DEF Backed
<1>8. Len(e.facts) <= MaxInduced
  BY <1>4 DEF Accounted
<1> HIDE DEF way
<1> QED  BY <1>6, <1>7, <1>8 DEF EvidenceIsSound, e, ch, views, way

(* Over every pair of revisions of its cases, query plan's evidence        *)
(* explains every change and invents none.                                 *)
THEOREM EvidencesAlwaysSound == Spec => []EvidencesAreSound
<1>1. QueryInv => EvidencesAreSound
  <2> SUFFICES ASSUME QueryInv, On("evidence")
               PROVE  EvidenceIsSound(case.before, case.after, case.touched)
    BY DEF EvidencesAreSound
  <2>1. case \in Cases["evidence"]
    BY DEF QueryInv, CaseInv, On
  <2>2. AreViews(case.before) /\ AreViews(case.after)
    BY <2>1, CasesAssumption
  <2> QED  BY <2>2, EvidenceSound
<1> QED  BY <1>1, QueryInvHolds, PTL
===============================================================================
