----------------------------- MODULE Bicliques -----------------------------
(***************************************************************************)
(* Bipartite graphs as the finders see them, and what they look for.       *)
(*                                                                         *)
(* A graph is the function from the ids of R, 0 .. n-1, to the sets of L   *)
(* ids adjacent to them (r_adj_lists_).  After Reorder the adjacency lists *)
(* are sorted by id, so a set stands for a list and "<" for its order.     *)
(***************************************************************************)
EXTENDS Integers, FiniteSets

\* The L vertices adjacent to all of S, and the R vertices adjacent to all of T.
CommonL(G, S) == {l \in UNION {G[r] : r \in S} : \A r \in S : l \in G[r]}
CommonR(G, T) == {r \in DOMAIN G : T \subseteq G[r]}

\* What every finder enumerates: the pairs of vertex sets that are complete to
\* each other and cannot be extended on either side, above both thresholds.
MaximalBicliques(G, min_l, min_r) ==
  LET closed == {CommonL(G, S) : S \in (SUBSET DOMAIN G) \ {{}}} \ {{}}
  IN  {b \in {<<T, CommonR(G, T)>> : T \in closed} :
         Cardinality(b[1]) >= min_l /\ Cardinality(b[2]) >= min_r}

----------------------------------------------------------------------------
\* std::sort: the elements of S from the least up, for a strict total order.
SortedBy(S, less(_, _)) ==
  [i \in 1 .. Cardinality(S) |->
     CHOOSE x \in S : Cardinality({y \in S : less(y, x)}) = i - 1]

\* operator< of std::vector<int> on the lists of two sets of one size.
ListLess(S, T) ==
  LET differ == (S \ T) \cup (T \ S)
  IN  \E x \in differ : x \in S /\ \A y \in differ : x <= y

\* The order Reorder(RInc) sorts R by: size, then list.
RIncLess(S, T) ==
  \/ Cardinality(S) < Cardinality(T)
  \/ Cardinality(S) = Cardinality(T) /\ ListLess(S, T)

\* The graphs Reorder(RInc) leaves: no vertex of R comes before an earlier one.
\* Vertices with equal lists are adjacent.
Ordered(G) == \A u, v \in DOMAIN G : u < v => ~RIncLess(G[v], G[u])
=============================================================================
