--------------------------- MODULE LeastRecentlyUsed ---------------------------
(***************************************************************************)
(* How the caches and the pool of workspaces make room: they remove what   *)
(* was used least recently, one after the other, until enough is free.     *)
(* An order of use is a set of pairs, what was used earlier first.         *)
(***************************************************************************)
EXTENDS Integers, FiniteSets

OrdersUse(order, S) ==
  /\ order \subseteq S \X S
  /\ \A x, y \in S : <<x, y>> \in order <=> x # y /\ <<y, x>> \notin order
  /\ \A x, y, z \in S : <<x, y>> \in order /\ <<y, z>> \in order => <<x, z>> \in order

\* The order of what is left, and that order once x was used.
OrderWithin(order, S) == {pair \in order : {pair[1], pair[2]} \subseteq S}
OrderAfterUse(order, S, x) == OrderWithin(order, S \ {x}) \cup ((S \ {x}) \X {x})

\* What may be removed from S: with a thing everything used before it.
OldestOf(S, order) ==
  {K \in SUBSET S : \A x \in K, y \in S : <<y, x>> \in order => y \in K}

Fewest(Ks) == CHOOSE K \in Ks : \A L \in Ks : Cardinality(K) <= Cardinality(L)
=============================================================================
