------------------------------ MODULE FoldLemmas ------------------------------
(***************************************************************************)
(* Induction over numbers and finite sets in a form that the provers can   *)
(* use (the hypothesis is a set, not a predicate), and what it says of the *)
(* sums and orders that the models are built from.                         *)
(***************************************************************************)
EXTENDS LeastRecentlyUsed, FiniteSetsExt, Functions, FiniteSetTheorems, WellFoundedInduction, TLAPS

(* A set of natural numbers has a least element.                           *)
LEMMA LeastNumber ==
  ASSUME NEW T \in SUBSET Nat, T # {}
  PROVE  \E n \in T : \A m \in T : n <= m
<1>1. PICK n \in T : \A m \in T : ~(<<m, n>> \in OpToRel(<, Nat))
  BY NatLessThanWellFounded, WFMin
<1>2. \A m \in T : ~(m < n)
  BY <1>1 DEF OpToRel
<1> QED  BY <1>2

(* The largest of a bounded set of numbers.                                *)
LEMMA LargestOf ==
  ASSUME NEW S \in SUBSET Nat, S # {}, NEW n \in Nat, \A m \in S : m <= n
  PROVE  Max(S) \in S /\ \A m \in S : m <= Max(S)
<1> DEFINE T == {n - m : m \in S}
<1>1. T \in SUBSET Nat /\ T # {}
  <2>1. \A m \in S : n - m \in Nat
    OBVIOUS
  <2> QED  BY <2>1
<1>2. PICK k \in T : \A j \in T : k <= j
  BY <1>1, LeastNumber
<1>3. PICK x \in S : k = n - x
  BY <1>2
<1>4. \A m \in S : x >= m
  BY <1>2, <1>3
<1>5. \E y \in S : \A m \in S : y >= m
  BY <1>3, <1>4
<1>6. Max(S) \in S /\ \A m \in S : Max(S) >= m
  BY <1>5, Zenon DEF Max
<1> QED  BY <1>6

(* Induction over the natural numbers.                                     *)
LEMMA NumberInduction ==
  ASSUME NEW G, 0 \in G, \A n \in Nat : n \in G => n + 1 \in G
  PROVE  Nat \subseteq G
<1> SUFFICES ASSUME Nat \ G # {} PROVE FALSE
  OBVIOUS
<1>1. PICK n \in Nat \ G : \A m \in Nat \ G : n <= m
  BY LeastNumber
<1>2. n - 1 \in Nat /\ ~(n <= n - 1)
  BY <1>1
<1>3. n - 1 \in G
  BY <1>1, <1>2
<1> QED  BY <1>1, <1>2, <1>3

(* Induction over the subsets of a finite set.                             *)
LEMMA SubsetInduction ==
  ASSUME NEW S, IsFiniteSet(S), NEW G, {} \in G,
         \A s \in SUBSET S : s # {} /\ (\A x \in s : s \ {x} \in G) => s \in G
  PROVE  SUBSET S \subseteq G
<1> SUFFICES ASSUME (SUBSET S) \ G # {} PROVE FALSE
  OBVIOUS
<1> DEFINE T == {Cardinality(s) : s \in (SUBSET S) \ G}
<1>1. \A s \in SUBSET S : IsFiniteSet(s) /\ Cardinality(s) \in Nat
  BY FS_Subset, FS_CardinalityType
<1>2. T \in SUBSET Nat /\ T # {}
  BY <1>1
<1>3. PICK n \in T : \A m \in T : n <= m
  BY <1>2, LeastNumber
<1>4. PICK s \in (SUBSET S) \ G : n = Cardinality(s)
  BY <1>3
<1>5. ASSUME NEW x \in s PROVE s \ {x} \in G
  <2>1. Cardinality(s \ {x}) = Cardinality(s) - 1
    BY <1>1, FS_RemoveElement
  <2>2. Cardinality(s) \in Nat
    BY <1>1
  <2>3. ~(n <= Cardinality(s \ {x}))
    BY <1>4, <2>1, <2>2
  <2>4. Cardinality(s \ {x}) \notin T
    BY <1>3, <2>3
  <2> QED  BY <2>4
<1>6. s \in SUBSET S /\ s # {} /\ s \notin G
  BY <1>4
<1> HIDE DEF T
<1> QED  BY <1>5, <1>6

(* A finite set of ranked things has one of the highest rank.              *)
LEMMA HighestRanked ==
  ASSUME NEW S, IsFiniteSet(S), S # {}, NEW f, \A x \in S : f[x] \in Nat
  PROVE  \E m \in S : \A x \in S : f[x] <= f[m]
<1> DEFINE G == {s \in SUBSET S : s = {} \/ \E m \in s : \A x \in s : f[x] <= f[m]}
<1>1. {} \in G
  OBVIOUS
<1>2. ASSUME NEW s \in SUBSET S, s # {}, \A x \in s : s \ {x} \in G PROVE s \in G
  <2>1. PICK y \in s : TRUE
    BY <1>2
  <2>2. CASE s \ {y} = {}
    BY <2>1, <2>2
  <2>3. CASE s \ {y} # {}
    <3>1. PICK m \in s \ {y} : \A x \in s \ {y} : f[x] <= f[m]
      BY <1>2, <2>1, <2>3
    <3>2. f[y] \in Nat /\ f[m] \in Nat /\ \A x \in s : f[x] \in Nat
      BY <2>1, <3>1
    <3>3. CASE f[y] <= f[m]
      BY <3>1, <3>3
    <3>4. CASE f[m] <= f[y]
      BY <2>1, <3>1, <3>2, <3>4
    <3> QED  BY <3>2, <3>3, <3>4
  <2> QED  BY <2>2, <2>3
<1> HIDE DEF G
<1>3. S \in G
  BY <1>1, <1>2, SubsetInduction
<1> QED  BY <1>3 DEF G

-----------------------------------------------------------------------------
(* Sums.  The library sums by a choice of elements; SumStep is its step.   *)
Chosen(s) == CHOOSE x \in s : TRUE
SumStep(f, it, s) == IF s = {} THEN 0 ELSE f[Chosen(s)] + it[s \ {Chosen(s)}]
SumsOver(f, S, it) == it = [s \in SUBSET S |-> SumStep(f, it, s)]

(* The recursion of the library's sum has a solution.                      *)
LEMMA SumsExist ==
  ASSUME NEW f, NEW S, IsFiniteSet(S)
  PROVE  \E it : SumsOver(f, S, it)
<1> DEFINE Small(n) == {s \in SUBSET S : Cardinality(s) <= n}
           G == {n \in Nat : \E it : it = [s \in Small(n) |-> SumStep(f, it, s)]}
<1>1. \A s \in SUBSET S : IsFiniteSet(s) /\ Cardinality(s) \in Nat
  BY FS_Subset, FS_CardinalityType
<1>2. 0 \in G
  <2>1. \A s \in Small(0) : s = {}
    BY <1>1, FS_EmptySet
  <2>2. [s \in Small(0) |-> 0] = [s \in Small(0) |-> SumStep(f, [t \in Small(0) |-> 0], s)]
    BY <2>1 DEF SumStep
  <2> QED  BY <2>2
<1>3. ASSUME NEW n \in Nat, n \in G PROVE n + 1 \in G
  <2>1. PICK it : it = [s \in Small(n) |-> SumStep(f, it, s)]
    BY <1>3
  <2> DEFINE jt == [s \in Small(n + 1) |-> SumStep(f, it, s)]
  <2>2. ASSUME NEW s \in Small(n + 1), s # {} PROVE s \ {Chosen(s)} \in Small(n)
    <3>1. Chosen(s) \in s
      BY <2>2 DEF Chosen
    <3>2. Cardinality(s \ {Chosen(s)}) = Cardinality(s) - 1
      BY <1>1, <3>1, FS_RemoveElement
    <3>3. Cardinality(s) \in Nat /\ Cardinality(s) <= n + 1
      BY <1>1
    <3> QED  BY <3>2, <3>3
  <2>3. ASSUME NEW s \in Small(n) PROVE s \in Small(n + 1) /\ jt[s] = it[s]
    <3>1. s \in Small(n + 1)
      BY <1>1
    <3> QED  BY <3>1, <2>1
  <2>4. ASSUME NEW s \in Small(n + 1) PROVE jt[s] = SumStep(f, jt, s)
    BY <2>2, <2>3 DEF SumStep
  <2>5. jt = [s \in Small(n + 1) |-> SumStep(f, jt, s)]
    BY <2>4
  <2> HIDE DEF jt
  <2>6. \E kt : kt = [s \in Small(n + 1) |-> SumStep(f, kt, s)]
    BY <2>5
  <2> QED  BY <2>6, n + 1 \in Nat
<1>4. Cardinality(S) \in G
  BY <1>1, <1>2, <1>3, NumberInduction
<1>5. Small(Cardinality(S)) = SUBSET S
  BY FS_Subset
<1> QED  BY <1>4, <1>5 DEF SumsOver

(* The library's sum over a finite set is one that solves the recursion.   *)
LEMMA SumIsSolution ==
  ASSUME NEW f, NEW S, IsFiniteSet(S)
  PROVE  \E it : SumsOver(f, S, it) /\ SumFunctionOnSet(f, S) = it[S]
<1>1. SumFunctionOnSet(f, S) =
        (CHOOSE it : it = [s \in SUBSET S |-> SumStep(f, it, s)])[S]
  BY DEF SumFunctionOnSet, FoldFunctionOnSet, MapThenFoldSet, SumStep, Chosen
<1> DEFINE it == CHOOSE it : it = [s \in SUBSET S |-> SumStep(f, it, s)]
<1>2. it = [s \in SUBSET S |-> SumStep(f, it, s)]
  BY SumsExist DEF SumsOver
<1> QED  BY <1>1, <1>2 DEF SumsOver

(* Solutions agree where their functions do.                               *)
LEMMA SumsAgree ==
  ASSUME NEW S, IsFiniteSet(S), NEW T \in SUBSET S, NEW f, NEW g,
         \A x \in T : f[x] = g[x],
         NEW it, SumsOver(f, S, it), NEW jt, SumsOver(g, T, jt)
  PROVE  \A s \in SUBSET T : it[s] = jt[s]
<1> DEFINE G == {s \in SUBSET T : it[s] = jt[s]}
<1>1. \A s \in SUBSET T : it[s] = SumStep(f, it, s) /\ jt[s] = SumStep(g, jt, s)
  BY DEF SumsOver
<1>2. {} \in G
  BY <1>1 DEF SumStep
<1>3. ASSUME NEW s \in SUBSET T, s # {}, \A x \in s : s \ {x} \in G
      PROVE  s \in G
  <2>1. Chosen(s) \in s
    BY <1>3 DEF Chosen
  <2>2. it[s \ {Chosen(s)}] = jt[s \ {Chosen(s)}] /\ f[Chosen(s)] = g[Chosen(s)]
    BY <1>3, <2>1
  <2> QED  BY <1>1, <2>2 DEF SumStep
<1>4. SUBSET T \subseteq G
  <2> HIDE DEF G
  <2> QED  BY <1>2, <1>3, FS_Subset, SubsetInduction
<1> QED  BY <1>4

(* The sum of equal functions is the same.                                 *)
LEMMA SumSame ==
  ASSUME NEW S, IsFiniteSet(S), NEW f, NEW g, \A x \in S : f[x] = g[x]
  PROVE  SumFunctionOnSet(f, S) = SumFunctionOnSet(g, S)
<1>1. PICK it : SumsOver(f, S, it) /\ SumFunctionOnSet(f, S) = it[S]
  BY SumIsSolution
<1>2. PICK jt : SumsOver(g, S, jt) /\ SumFunctionOnSet(g, S) = jt[S]
  BY SumIsSolution
<1>3. \A s \in SUBSET S : it[s] = jt[s]
  BY <1>1, <1>2, SumsAgree
<1> QED  BY <1>1, <1>2, <1>3

(* The sum of nothing is 0.                                                *)
LEMMA SumEmpty ==
  ASSUME NEW f PROVE SumFunctionOnSet(f, {}) = 0
<1>1. PICK it : SumsOver(f, {}, it) /\ SumFunctionOnSet(f, {}) = it[{}]
  BY SumIsSolution, FS_EmptySet
<1> QED  BY <1>1 DEF SumsOver, SumStep

(* The sum over a set is the chosen element and the sum over the others.   *)
LEMMA SumChosen ==
  ASSUME NEW f, NEW S, IsFiniteSet(S), S # {}
  PROVE  /\ Chosen(S) \in S
         /\ SumFunctionOnSet(f, S) =
              f[Chosen(S)] + SumFunctionOnSet(f, S \ {Chosen(S)})
<1> DEFINE T == S \ {Chosen(S)}
<1>1. IsFiniteSet(T)
  BY FS_RemoveElement
<1>2. PICK it : SumsOver(f, S, it) /\ SumFunctionOnSet(f, S) = it[S]
  BY SumIsSolution
<1>3. PICK jt : SumsOver(f, T, jt) /\ SumFunctionOnSet(f, T) = jt[T]
  BY <1>1, SumIsSolution
<1>4. it[T] = jt[T]
  BY <1>2, <1>3, SumsAgree
<1>5. it[S] = f[Chosen(S)] + it[T]
  BY <1>2 DEF SumsOver, SumStep
<1> QED  BY <1>2, <1>3, <1>4, <1>5 DEF Chosen

(* A sum of natural numbers is a natural number.                           *)
LEMMA SumType ==
  ASSUME NEW S, IsFiniteSet(S), NEW f, \A x \in S : f[x] \in Nat
  PROVE  SumFunctionOnSet(f, S) \in Nat
<1> DEFINE G == {s \in SUBSET S : SumFunctionOnSet(f, s) \in Nat}
<1>1. {} \in G
  BY SumEmpty
<1>2. ASSUME NEW s \in SUBSET S, s # {}, \A x \in s : s \ {x} \in G
      PROVE  s \in G
  <2>1. IsFiniteSet(s)
    BY FS_Subset
  <2>2. /\ Chosen(s) \in s
        /\ SumFunctionOnSet(f, s) =
             f[Chosen(s)] + SumFunctionOnSet(f, s \ {Chosen(s)})
    BY <1>2, <2>1, SumChosen
  <2>3. f[Chosen(s)] \in Nat /\ SumFunctionOnSet(f, s \ {Chosen(s)}) \in Nat
    BY <1>2, <2>2
  <2> QED  BY <2>2, <2>3
<1>3. SUBSET S \subseteq G
  <2> HIDE DEF G
  <2> QED  BY <1>1, <1>2, SubsetInduction
<1> QED  BY <1>3

(* Any element may be taken out of a sum.                                  *)
LEMMA SumElement ==
  ASSUME NEW S, IsFiniteSet(S), NEW f, \A x \in S : f[x] \in Nat, NEW y \in S
  PROVE  SumFunctionOnSet(f, S) = f[y] + SumFunctionOnSet(f, S \ {y})
<1> DEFINE Sum(s) == SumFunctionOnSet(f, s)
           G == {s \in SUBSET S : \A x \in s : Sum(s) = f[x] + Sum(s \ {x})}
<1>1. {} \in G
  OBVIOUS
<1>2. ASSUME NEW s \in SUBSET S, s # {}, \A x \in s : s \ {x} \in G
      PROVE  s \in G
  <2> DEFINE z == Chosen(s)
  <2>1. \A t \in SUBSET s : IsFiniteSet(t) /\ Sum(t) \in Nat
    BY FS_Subset, SumType
  <2>2. z \in s /\ Sum(s) = f[z] + Sum(s \ {z})
    BY <1>2, <2>1, SumChosen
  <2>3. ASSUME NEW x \in s, x # z PROVE Sum(s) = f[x] + Sum(s \ {x})
    <3>1. Sum(s \ {z}) = f[x] + Sum((s \ {z}) \ {x})
      BY <1>2, <2>2, <2>3
    <3>2. Sum(s \ {x}) = f[z] + Sum((s \ {x}) \ {z})
      BY <1>2, <2>2, <2>3
    <3>3. (s \ {z}) \ {x} = (s \ {x}) \ {z}
      OBVIOUS
    <3>4. f[x] \in Nat /\ f[z] \in Nat /\ Sum((s \ {x}) \ {z}) \in Nat
      BY <2>1, <2>2
    <3> HIDE DEF z, Sum
    <3> QED  BY <2>2, <3>1, <3>2, <3>3, <3>4
  <2>4. \A x \in s : Sum(s) = f[x] + Sum(s \ {x})
    BY <2>2, <2>3
  <2> QED  BY <2>4
<1>3. SUBSET S \subseteq G
  <2> HIDE DEF G
  <2> QED  BY <1>1, <1>2, SubsetInduction
<1> QED  BY <1>3

(* A sum may be split.                                                     *)
LEMMA SumSplit ==
  ASSUME NEW S, IsFiniteSet(S), NEW f, \A x \in S : f[x] \in Nat,
         NEW K \in SUBSET S
  PROVE  /\ SumFunctionOnSet(f, S) =
              SumFunctionOnSet(f, S \ K) + SumFunctionOnSet(f, K)
         /\ SumFunctionOnSet(f, K) \in Nat
         /\ SumFunctionOnSet(f, S \ K) \in Nat
<1> DEFINE Sum(s) == SumFunctionOnSet(f, s)
           G == {s \in SUBSET K : Sum(S) = Sum(S \ s) + Sum(s)}
<1>1. \A s \in SUBSET S : IsFiniteSet(s) /\ Sum(s) \in Nat
  BY FS_Subset, SumType
<1>2. {} \in G
  <2>1. S \ {} = S /\ Sum({}) = 0 /\ Sum(S) \in Nat
    BY <1>1, SumEmpty
  <2> HIDE DEF Sum
  <2> QED  BY <2>1
<1>3. ASSUME NEW s \in SUBSET K, s # {}, \A x \in s : s \ {x} \in G
      PROVE  s \in G
  <2>1. PICK x \in s : TRUE
    BY <1>3
  <2>2. Sum(S) = Sum(S \ (s \ {x})) + Sum(s \ {x})
    BY <1>3
  <2>3. Sum(s) = f[x] + Sum(s \ {x})
    BY <1>1, SumElement
  <2>4. Sum(S \ (s \ {x})) = f[x] + Sum((S \ (s \ {x})) \ {x})
    <3>1. S \ (s \ {x}) \in SUBSET S /\ x \in S \ (s \ {x})
      OBVIOUS
    <3> QED  BY <1>1, <3>1, SumElement
  <2>5. (S \ (s \ {x})) \ {x} = S \ s
    BY <2>1
  <2>6. f[x] \in Nat /\ Sum(s \ {x}) \in Nat /\ Sum(S \ s) \in Nat
    BY <1>1
  <2> HIDE DEF Sum
  <2>7. Sum(S) = Sum(S \ s) + Sum(s)
    BY <2>2, <2>3, <2>4, <2>5, <2>6
  <2> QED  BY <2>7
<1>4. SUBSET K \subseteq G
  <2> HIDE DEF G
  <2>1. IsFiniteSet(K)
    BY FS_Subset
  <2> QED  BY <1>2, <1>3, <2>1, SubsetInduction
<1> QED  BY <1>1, <1>4

(* A sum does not exceed the sum of larger numbers.                        *)
LEMMA SumBounded ==
  ASSUME NEW S, IsFiniteSet(S), NEW f, NEW g,
         \A x \in S : f[x] \in Nat /\ g[x] \in Nat /\ f[x] <= g[x]
  PROVE  SumFunctionOnSet(f, S) <= SumFunctionOnSet(g, S)
<1> DEFINE G == {s \in SUBSET S : SumFunctionOnSet(f, s) <= SumFunctionOnSet(g, s)}
<1>1. {} \in G
  BY SumEmpty
<1>2. ASSUME NEW s \in SUBSET S, s # {}, \A x \in s : s \ {x} \in G
      PROVE  s \in G
  <2>1. PICK x \in s : TRUE
    BY <1>2
  <2>2. \A t \in SUBSET s : /\ IsFiniteSet(t)
                            /\ SumFunctionOnSet(f, t) \in Nat
                            /\ SumFunctionOnSet(g, t) \in Nat
    BY FS_Subset, SumType
  <2>3. /\ SumFunctionOnSet(f, s) = f[x] + SumFunctionOnSet(f, s \ {x})
        /\ SumFunctionOnSet(g, s) = g[x] + SumFunctionOnSet(g, s \ {x})
    BY <2>2, SumElement
  <2>4. /\ SumFunctionOnSet(f, s \ {x}) <= SumFunctionOnSet(g, s \ {x})
        /\ SumFunctionOnSet(f, s \ {x}) \in Nat
        /\ SumFunctionOnSet(g, s \ {x}) \in Nat
    BY <1>2, <2>2
  <2>5. f[x] \in Nat /\ g[x] \in Nat /\ f[x] <= g[x]
    OBVIOUS
  <2>6. SumFunctionOnSet(f, s) <= SumFunctionOnSet(g, s)
    BY <2>3, <2>4, <2>5
  <2> QED  BY <2>6
<1>3. SUBSET S \subseteq G
  <2> HIDE DEF G
  <2> QED  BY <1>1, <1>2, SubsetInduction
<1> QED  BY <1>3

-----------------------------------------------------------------------------
(* Of a set of finite sets there is one with the fewest elements.          *)
LEMMA FewestIsOne ==
  ASSUME NEW Ks, Ks # {}, \A K \in Ks : Cardinality(K) \in Nat
  PROVE  Fewest(Ks) \in Ks
<1> DEFINE T == {Cardinality(K) : K \in Ks}
<1>1. T \in SUBSET Nat /\ T # {}
  OBVIOUS
<1>2. PICK n \in T : \A m \in T : n <= m
  BY <1>1, LeastNumber
<1>3. \E K \in Ks : \A L \in Ks : Cardinality(K) <= Cardinality(L)
  BY <1>2
<1> QED  BY <1>3 DEF Fewest

(* An order of use stays one when things are removed or used.              *)
LEMMA RestIsOrdered ==
  ASSUME NEW order, NEW S, OrdersUse(order, S), NEW T \in SUBSET S
  PROVE  OrdersUse(OrderWithin(order, T), T)
<1> DEFINE new == OrderWithin(order, T)
<1>1. \A x, y \in T : <<x, y>> \in new <=> <<x, y>> \in order
  BY DEF OrderWithin
<1>2. new \subseteq T \X T
  BY DEF OrderWithin, OrdersUse
<1>3. \A x, y \in T : <<x, y>> \in new <=> x # y /\ <<y, x>> \notin new
  BY <1>1 DEF OrdersUse
<1>4. \A x, y, z \in T : <<x, y>> \in new /\ <<y, z>> \in new => <<x, z>> \in new
  BY <1>1 DEF OrdersUse
<1> QED  BY <1>2, <1>3, <1>4 DEF OrdersUse

LEMMA UseIsOrdered ==
  ASSUME NEW order, NEW S, OrdersUse(order, S), NEW T \in SUBSET S, NEW x
  PROVE  OrdersUse(OrderAfterUse(order, T, x), T \cup {x})
<1> DEFINE rest == T \ {x}
           new == OrderAfterUse(order, T, x)
<1>1. T \cup {x} = rest \cup {x} /\ x \notin rest
  OBVIOUS
<1>2. OrdersUse(OrderWithin(order, rest), rest)
  BY RestIsOrdered
<1>3. /\ \A y, z \in rest : <<y, z>> \in new <=> <<y, z>> \in OrderWithin(order, rest)
      /\ \A y \in rest : <<y, x>> \in new
      /\ \A y \in rest \cup {x} : <<x, y>> \notin new
  BY DEF OrderAfterUse, OrderWithin
<1>4. new \subseteq (T \cup {x}) \X (T \cup {x})
  BY <1>2 DEF OrderAfterUse, OrdersUse
<1> HIDE DEF new, rest
<1>5. \A y, z \in rest \cup {x} : <<y, z>> \in new <=> y # z /\ <<z, y>> \notin new
  BY <1>1, <1>2, <1>3 DEF OrdersUse
<1>6. \A y, z, w \in rest \cup {x} :
        <<y, z>> \in new /\ <<z, w>> \in new => <<y, w>> \in new
  BY <1>1, <1>2, <1>3 DEF OrdersUse
<1> QED  BY <1>1, <1>4, <1>5, <1>6 DEF OrdersUse, new
===============================================================================
