------------------------------ MODULE Prune1H ------------------------------
(***************************************************************************)
(* The loop of BiGraph::Prune1H.  Instead of removing vertices it counts   *)
(* down the degrees of their neighbors; a vertex is a seed from when its   *)
(* degree is too low until the loop has gone through its list.             *)
(*                                                                         *)
(* The seeds are sets although the code has vectors: NoSecondPush says     *)
(* that nothing is pushed twice, and their order makes no difference.      *)
(***************************************************************************)
EXTENDS Inputs

VARIABLES
  l_adj_lists_,                  \* L's lists, where graph_ is R's
  l_degree, r_degree,            \* the degrees, counted down
  l_pruned_seed, r_pruned_seed,
  l_done, r_done,                \* the vertices that were seeds; history
  turn                           \* the loop is at "l" or "r", or has "ended";
                                 \* "none" outside Prune1H

\* main passes lb and rb: how many vertices of L one of R must have, and how
\* many of R one of L.  They are at least 1, the value min_neighbors_of_l_ and
\* min_neighbors_of_r_ begin with, so that these become equal to them.
min_neighbors_of_l == min_l_size_
min_neighbors_of_r == min_r_size_

r_adj_lists_ == graph_
Ls == DOMAIN l_adj_lists_
Rs == DOMAIN r_adj_lists_

graphVars == <<l_adj_lists_, graph_, min_l_size_, min_r_size_>>
pruneVars == <<l_degree, r_degree, l_pruned_seed, r_pruned_seed,
               l_done, r_done, turn>>

\* Both sides' lists have the same edges.
Mirrored ==
  /\ l_adj_lists_ \in [Ls -> SUBSET Rs]
  /\ r_adj_lists_ \in [Rs -> SUBSET Ls]
  /\ \A l \in Ls, r \in Rs :
       r \in l_adj_lists_[l] <=> l \in r_adj_lists_[r]

\* The degrees and the first seeds.
Degrees(lists) == [x \in DOMAIN lists |-> Cardinality(lists[x])]
Seeds(lists, bound) == {x \in DOMAIN lists : Cardinality(lists[x]) < bound}
FirstTurn == IF Seeds(l_adj_lists_, min_neighbors_of_r) = {} THEN "r" ELSE "l"

Begin ==
  /\ l_degree = Degrees(l_adj_lists_)
  /\ r_degree = Degrees(r_adj_lists_)
  /\ l_pruned_seed = Seeds(l_adj_lists_, min_neighbors_of_r)
  /\ r_pruned_seed = Seeds(r_adj_lists_, min_neighbors_of_l)
  /\ l_done = {}
  /\ r_done = {}
  /\ turn = FirstTurn

\* (mutant) Every neighbor below the bound is pushed, not only those that just
\* fell.
NewRAgain(l) == {r \in l_adj_lists_[l] : r_degree[r] - 1 <= min_neighbors_of_l - 1}

\* (mutant) A neighbor is pushed one too early.
NewREarly(l) == {r \in l_adj_lists_[l] : r_degree[r] - 1 = min_neighbors_of_l}

\* The neighbors of a seed whose degrees fall below the bound with this seed.
NewR(l) == {r \in l_adj_lists_[l] : r_degree[r] - 1 = min_neighbors_of_l - 1}
NewL(r) == {l \in r_adj_lists_[r] : l_degree[l] - 1 = min_neighbors_of_r - 1}

\* The loop goes through the list of the seed l.
PruneL(l) ==
  /\ turn = "l"
  /\ l_pruned_seed' = l_pruned_seed \ {l}
  /\ l_done' = l_done \cup {l}
  /\ r_degree' = [r \in DOMAIN r_degree |->
                    IF r \in l_adj_lists_[l] THEN r_degree[r] - 1 ELSE r_degree[r]]
  /\ r_pruned_seed' = r_pruned_seed \cup NewR(l)
  /\ turn' = IF l_pruned_seed' = {} THEN "r" ELSE "l"
  /\ UNCHANGED <<l_degree, r_done>>

PruneR(r) ==
  /\ turn = "r"
  /\ r_pruned_seed' = r_pruned_seed \ {r}
  /\ r_done' = r_done \cup {r}
  /\ l_degree' = [l \in DOMAIN l_degree |->
                    IF l \in r_adj_lists_[r] THEN l_degree[l] - 1 ELSE l_degree[l]]
  /\ l_pruned_seed' = l_pruned_seed \cup NewL(r)
  /\ turn' = IF r_pruned_seed' = {} THEN "l" ELSE "r"
  /\ UNCHANGED <<r_degree, l_done>>

EndLoop ==
  /\ turn # "ended"
  /\ l_pruned_seed = {} /\ r_pruned_seed = {}
  /\ turn' = "ended"
  /\ UNCHANGED <<l_degree, r_degree, l_pruned_seed, r_pruned_seed, l_done, r_done>>

PruneStep ==
  /\ \/ \E l \in l_pruned_seed : PruneL(l)
     \/ \E r \in r_pruned_seed : PruneR(r)
     \/ EndLoop
  /\ UNCHANGED graphVars

\* The vertices that stay: "l_degree[i] >= min_neighbors_of_r_".
LKept == {l \in DOMAIN l_degree : l_degree[l] >= min_neighbors_of_r}
RKept == {r \in DOMAIN r_degree : r_degree[r] >= min_neighbors_of_l}

\* Prune1H is called on any graph.
PruneInit ==
  /\ Mirrored
  /\ IsFiniteSet(Ls) /\ IsFiniteSet(Rs)
  /\ min_neighbors_of_l \in Nat \ {0} /\ min_neighbors_of_r \in Nat \ {0}
  /\ Begin

PruneSpec == PruneInit /\ [][PruneStep]_<<graphVars, pruneVars>>

----------------------------------------------------------------------------
\* No vertex is pushed on a vector of seeds it is on or has been on, which
\* would count its neighbors' degrees down twice.
NoSecondPush ==
  /\ turn = "l" => \A l \in l_pruned_seed :
                     NewR(l) \cap (r_pruned_seed \cup r_done) = {}
  /\ turn = "r" => \A r \in r_pruned_seed :
                     NewL(r) \cap (l_pruned_seed \cup l_done) = {}

P == INSTANCE Peel WITH
       l_lists <- l_adj_lists_, r_lists <- r_adj_lists_,
       min_l <- min_neighbors_of_l, min_r <- min_neighbors_of_r,
       l_left <- Ls \ l_done,
       r_left <- Rs \ r_done,
       ended <- turn = "ended"

\* The loop removes only vertices that have too few neighbors left, and ends
\* when no vertex has.
Peels == [][turn # "none" /\ turn' # "none" => [P!PeelNext]_(P!peelVars)]_<<graphVars, pruneVars>>

\* The degrees the loop leaves tell the vertices that were removed from the
\* others.
KeptExactly ==
  turn = "ended" =>
    /\ LKept = Ls \ l_done
    /\ RKept = Rs \ r_done

\* No vertex of a biclique above the thresholds is removed.
BicliquesKept ==
  turn = "ended" =>
    \A A \in SUBSET Ls, B \in SUBSET Rs :
      /\ \A l \in A : B \subseteq l_adj_lists_[l]
      /\ Cardinality(A) >= min_neighbors_of_l
      /\ Cardinality(B) >= min_neighbors_of_r
      => A \subseteq LKept /\ B \subseteq RKept
=============================================================================
