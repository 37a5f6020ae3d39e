---------------------------- MODULE MCParAdaMBE ----------------------------
(* ParAdaMBE on every graph of a given size, up to the order of L, which    *)
(* MCFinders varies.                                                       *)
EXTENDS ParAdaMBE

CONSTANTS
  LSize,          \* the number of L vertices; R has RSize
  NNs,            \* the values of NN
  LargeTwins      \* whether two vertices may share a list of more than NN

\* Every L vertex has a neighbor, and L is in order of degree.
Graphs ==
  LET Ls == 0 .. LSize - 1
      Lists == (SUBSET Ls) \ {{}}
      Degree(G, l) == Cardinality(CommonR(G, {l}))
  IN  {G \in [0 .. RSize - 1 -> Lists] :
         /\ Ordered(G)
         /\ \A l \in Ls : Degree(G, l) > 0
         /\ \A l \in Ls \ {0} : Degree(G, l - 1) <= Degree(G, l)}

HasLargeTwins ==
  \E r \in DOMAIN graph_ : /\ r > 0 /\ graph_[r] = graph_[r - 1]
                           /\ Cardinality(graph_[r]) > NN

Init ==
  /\ graph_ \in Graphs
  /\ NN \in NNs
  /\ min_l_size_ = 1
  /\ min_r_size_ = 1
  /\ HasLargeTwins => LargeTwins
  /\ InitState

\* The workers are interchangeable; the main thread is not one of them.
WorkerSymmetry == Permutations(Threads \ {Main})

Spec == Init /\ [][Next]_vars
=============================================================================
