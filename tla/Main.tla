-------------------------------- MODULE Main --------------------------------
(***************************************************************************)
(* main.cpp's ExpFinderTest and the operations of BiGraph it calls: a file *)
(* is loaded, pruned, the sides are swapped so that R suits the finders, R *)
(* is put in order, and a finder runs.  The graph is graph_ (R's lists)    *)
(* with l_adj_lists_; lb and rb are min_l_size_ and min_r_size_, which the *)
(* finder's setup() makes of them.                                         *)
(***************************************************************************)
EXTENDS Finders, Prune1H

CONSTANTS
  NNs,          \* the values of NN the program is compiled for
  DegreeRatio   \* the 100 in "GetLDegree() > GetRDegree()*100"

\* A bitset fits in a word; see AdaMBEWide.cfg for what happens otherwise.
ASSUME WidthAssumption == WordBits \in Nat /\ NNs \subseteq 0 .. WordBits

VARIABLES
  input,                 \* the file: the list of each line, lines from 0
  order,                 \* the option "-o"
  l_degree_, r_degree_   \* the largest degrees, as they were when loaded

bigraphVars == <<l_adj_lists_, l_degree_, r_degree_>>
mainVars == <<input, order, bigraphVars, pruneVars>>
searchVars == <<finder, NN, wanted, cur_v_, stack, heap, found, maximal_nodes_>>
allVars == <<vars, mainVars>>

----------------------------------------------------------------------------
(* BiGraph.                                                                *)

Identity(n) == [x \in 0 .. n - 1 |-> x]

\* The ids 0, 1, ... given to the elements of S, from the least.
Ranked(S) == [k \in 0 .. Cardinality(S) - 1 |-> SortedBy(S, <)[k + 1]]

\* The lists of the other side.
Mirror(lists, ids) == [x \in ids |-> {y \in DOMAIN lists : x \in lists[y]}]

\* The file as R's lists, of its lines.
FileIds == UNION {input[l] : l \in DOMAIN input}
FileGraph == Mirror(input, FileIds)

\* No id of R is left out.
GapFree == FileIds = 0 .. Cardinality(FileIds) - 1

LargestDegree(lists) == Max({Cardinality(lists[x]) : x \in DOMAIN lists})

\* The constructor.  R's vertices are renumbered without gaps, L's lists keep
\* the file's numbers: the lines that would rebuild them compare r_valid with
\* the size they have just made r_valid.
Load ==
  /\ status = "start"
  /\ l_adj_lists_' = input
  /\ l_map_' = Identity(Cardinality(DOMAIN input))
  /\ r_map_' = Ranked(FileIds)
  /\ graph_' = [r \in DOMAIN r_map_' |-> {l \in DOMAIN input : r_map_'[r] \in input[l]}]
  /\ l_degree_' = LargestDegree(input)
  /\ r_degree_' = LargestDegree(graph_')
  /\ status' = "loaded"
  /\ UNCHANGED <<searchVars, min_l_size_, min_r_size_, transposed,
                 input, order, pruneVars>>

\* (mutant) main does not swap the thresholds.
TransposeKeepsBounds ==
  /\ l_adj_lists_' = graph_ /\ graph_' = l_adj_lists_
  /\ l_map_' = r_map_ /\ r_map_' = l_map_
  /\ l_degree_' = r_degree_ /\ r_degree_' = l_degree_
  /\ UNCHANGED <<min_l_size_, min_r_size_>>
  /\ transposed' = ~transposed

\* Transpose, and main's swap of lb and rb.
Transpose ==
  /\ l_adj_lists_' = graph_ /\ graph_' = l_adj_lists_
  /\ l_map_' = r_map_ /\ r_map_' = l_map_
  /\ l_degree_' = r_degree_ /\ r_degree_' = l_degree_
  /\ min_l_size_' = min_r_size_ /\ min_r_size_' = min_l_size_
  /\ transposed' = ~transposed

\* The orders of R that std::sort may leave: "-o 1" (Rand) none but the one it
\* has, "-o 2" (RInc) by size and list, "-o 3" (UC, which the switch takes for
\* its case 3) the larger lists first.
Orders(op) ==
  LET Less(S, T) ==
        IF op = 2 THEN RIncLess(S, T)
        ELSE \/ Cardinality(S) > Cardinality(T)
             \/ Cardinality(S) = Cardinality(T) /\ ListLess(S, T)
      MayFollow(p, i, j) == ~Less(graph_[p[j]], graph_[p[i]])
  IN  IF op = 1 THEN {Identity(Cardinality(Rs))}
      ELSE {p \in Bijection(Rs, Rs) : \A i, j \in Rs : i < j => MayFollow(p, i, j)}

\* (mutant) L's lists keep the old numbers.
RenumberOneSide(reorder_map) ==
  /\ graph_' = [r \in Rs |-> graph_[reorder_map[r]]]
  /\ r_map_' = [r \in Rs |-> r_map_[reorder_map[r]]]
  /\ UNCHANGED l_adj_lists_

\* Reorder's end: R's vertices get the places reorder_map gives them, and L's
\* lists are built anew.
Renumber(reorder_map) ==
  /\ graph_' = [r \in Rs |-> graph_[reorder_map[r]]]
  /\ r_map_' = [r \in Rs |-> r_map_[reorder_map[r]]]
  /\ l_adj_lists_' = Mirror(graph_', Ls)

----------------------------------------------------------------------------
(* ExpFinderTest.                                                          *)

BeginPrune ==
  /\ status = "loaded" /\ (min_l_size_ # 1 \/ min_r_size_ # 1)
  /\ l_degree' = Degrees(l_adj_lists_)
  /\ r_degree' = Degrees(graph_)
  /\ l_pruned_seed' = Seeds(l_adj_lists_, min_r_size_)
  /\ r_pruned_seed' = Seeds(graph_, min_l_size_)
  /\ turn' = FirstTurn
  /\ status' = "pruning"
  /\ UNCHANGED <<graph_, min_l_size_, min_r_size_, mapVars, searchVars,
                 input, order, bigraphVars, l_done, r_done>>

Prune ==
  /\ status = "pruning" /\ PruneStep
  /\ UNCHANGED <<mapVars, searchVars, status, input, order, l_degree_, r_degree_>>

\* The vertices that stay are numbered without gaps, in their order; the
\* largest degrees are left as they were.
EndPrune ==
  /\ status = "pruning" /\ turn = "ended"
  /\ LET l_old == Ranked(LKept)
         r_old == Ranked(RKept)
     IN  /\ l_map_' = [l \in DOMAIN l_old |-> l_map_[l_old[l]]]
         /\ r_map_' = [r \in DOMAIN r_old |-> r_map_[r_old[r]]]
         /\ l_adj_lists_' = [l \in DOMAIN l_old |->
                               {r \in DOMAIN r_old : r_old[r] \in l_adj_lists_[l_old[l]]}]
         /\ graph_' = Mirror(l_adj_lists_', DOMAIN r_old)
  /\ l_degree' = <<>> /\ r_degree' = <<>> /\ l_done' = {} /\ r_done' = {}
  /\ turn' = "none"
  /\ status' = "pruned"
  /\ UNCHANGED <<searchVars, min_l_size_, min_r_size_, transposed, input, order,
                 l_degree_, r_degree_, l_pruned_seed, r_pruned_seed>>

Pruned == status = "pruned" \/ (status = "loaded" /\ min_l_size_ = 1 /\ min_r_size_ = 1)

Swaps(condition) == IF condition THEN Transpose
                    ELSE UNCHANGED <<graph_, min_l_size_, min_r_size_, mapVars, bigraphVars>>

\* "lb < rb || G->GetLSize() < G->GetRSize()"
ChooseSides ==
  /\ Pruned
  /\ Swaps(min_l_size_ < min_r_size_ \/ Cardinality(Ls) < Cardinality(Rs))
  /\ status' = "sided"
  /\ UNCHANGED <<searchVars, input, order, pruneVars>>

\* "G->GetLDegree() > G->GetRDegree()*100"
ChooseDegrees ==
  /\ status = "sided"
  /\ Swaps(l_degree_ > r_degree_ * DegreeRatio)
  /\ status' = "oriented"
  /\ UNCHANGED <<searchVars, input, order, pruneVars>>

Reorder ==
  /\ status = "oriented"
  /\ \E p \in Orders(order) : Renumber(p)
  /\ status' = "ordered"
  /\ UNCHANGED <<searchVars, min_l_size_, min_r_size_, l_map_, transposed,
                 input, order, l_degree_, r_degree_, pruneVars>>

\* Execute's own Reorder, which four finders call: AdaMBE's again in the order
\* of "-o", the others' in increasing order.
OwnOrder(name) == IF name \in {"iMBEA", "DSB", "NC"} THEN 2
                  ELSE IF name = "AdaMBE" THEN order ELSE 1

Start(name) ==
  /\ status = "ordered"
  /\ finder' = name
  /\ NN' \in (IF name \in {"AdaMBE", "DSB"} THEN NNs ELSE {0})
  /\ \E p \in Orders(OwnOrder(name)) : Renumber(p)
  /\ status' = "runs"
  /\ UNCHANGED <<min_l_size_, min_r_size_, l_map_, transposed, wanted,
                 cur_v_, stack, heap, found, maximal_nodes_,
                 input, order, l_degree_, r_degree_, pruneVars>>

\* The options are read; what they and the file ask for.
StartUp ==
  /\ wanted = MaximalBicliques(FileGraph, min_l_size_, min_r_size_)
  /\ l_adj_lists_ = <<>> /\ graph_ = <<>> /\ l_map_ = <<>> /\ r_map_ = <<>>
  /\ l_degree_ = 0 /\ r_degree_ = 0
  /\ l_degree = <<>> /\ r_degree = <<>>
  /\ l_pruned_seed = {} /\ r_pruned_seed = {} /\ l_done = {} /\ r_done = {}
  /\ turn = "none"
  /\ transposed = FALSE /\ finder = "none" /\ NN = 0
  /\ StartState
  /\ status = "start"

SetUp == \/ Load \/ BeginPrune \/ Prune \/ EndPrune
         \/ ChooseSides \/ ChooseDegrees \/ Reorder

Run == Next /\ UNCHANGED mainVars

----------------------------------------------------------------------------
\* Every edge of the graph is one of the file between the vertices its ends
\* are mapped to, in both sides' lists, and every edge of the file between
\* vertices that are left is there, whatever was pruned, swapped and renumbered.
\* (PMBE's search works on a copy that has no part in this.)
SameEdges ==
  status # "start" /\ finder # "PMBE" =>
    LET InFile(l, r) == IF transposed THEN l_map_[l] \in input[r_map_[r]]
                                      ELSE r_map_[r] \in input[l_map_[l]]
    IN  \A l \in Ls, r \in Rs : /\ InFile(l, r) <=> l \in graph_[r]
                                /\ InFile(l, r) <=> r \in l_adj_lists_[l]

\* "all the adjlists stores logic id": L's lists hold ids of R and R's of L.
LogicIds ==
  status # "start" =>
    /\ UNION {l_adj_lists_[l] : l \in Ls} \subseteq Rs
    /\ UNION {graph_[r] : r \in Rs} \subseteq Ls
=============================================================================
