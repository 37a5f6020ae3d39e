----------------------------- MODULE MCFinders -----------------------------
(* The serial finders on every small graph in Reorder's order, each finder   *)
(* from where main.cpp calls Execute, with every way to compile it.          *)
EXTENDS Finders

CONSTANTS
  FindersRun,    \* the finders to run
  Wider,         \* those of them to run with one L vertex more as well,
  WiderList,     \* and then the least length of a list
  LSize,         \* the number of L vertices; not all need have neighbors
  RSizes,        \* the numbers of R vertices
  Long,          \* the finders to run with long lists as well
  LongSize,      \* then, the number of L vertices,
  LongRSize,     \* that of R vertices,
  LongList,      \* and the least length of a list
  NNs,           \* the values of NN
  MinLs, MinRs,  \* the values of the thresholds
  Order          \* Reorder's argument, "RInc" or "Rand"

GraphsOf(Ls, sizes, least) ==
  LET Lists == {S \in SUBSET Ls : Cardinality(S) >= least}
      InOrder(G) == Order = "RInc" => Ordered(G)
  IN  UNION {{G \in [0 .. n - 1 -> Lists] : InOrder(G)} : n \in sizes}

Identity(S) == [x \in S |-> x]

Init ==
  /\ finder \in FindersRun
  /\ \/ /\ \/ graph_ \in GraphsOf(0 .. LSize - 1, RSizes, 1)
           \/ /\ finder \in Wider
              /\ graph_ \in GraphsOf(0 .. LSize, RSizes, WiderList)
        /\ NN \in (IF finder \in {"AdaMBE", "DSB"} THEN NNs ELSE {0})
     \/ /\ finder \in Long
        /\ graph_ \in GraphsOf(0 .. LongSize - 1, {LongRSize}, LongList)
        /\ NN = 1
  /\ min_l_size_ \in MinLs
  /\ min_r_size_ \in MinRs
  /\ l_map_ = Identity(UNION {graph_[r] : r \in DOMAIN graph_})
  /\ r_map_ = Identity(DOMAIN graph_)
  /\ transposed = FALSE
  /\ wanted = MaximalBicliques(graph_, min_l_size_, min_r_size_)
  /\ StartState
  /\ status = "runs"

SafetySpec == Init /\ [][Next]_vars

----------------------------------------------------------------------------
(* The finders' invariants, by the names the configurations use.             *)

\* See AdaDSB: pruning leaves a witness of every extension.
Witnessed == DSB!Witnessed

\* See AdaNC: a shared Node is right for every activation that has it.
NodesCurrent == NC!NodesCurrent

\* See PMBE: a range lists what is contained in its vertex, and each contained
\* vertex is in one range.
RangesContained == PMBE!RangesContained
=============================================================================
