------------------------------- MODULE Inputs -------------------------------
(***************************************************************************)
(* What BiGraph and the finders work on.                                   *)
(***************************************************************************)
EXTENDS Bicliques

VARIABLES
  graph_,       \* the lists of R's vertices
  min_l_size_,  \* the thresholds: main's lb and rb, which the finder's setup()
  min_r_size_   \* stores
=============================================================================
