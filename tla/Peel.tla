-------------------------------- MODULE Peel --------------------------------
(***************************************************************************)
(* What Prune1H is for: vertices with too few neighbors left to be in a    *)
(* biclique above the thresholds are removed, one after the other, until   *)
(* no vertex that is left has too few.                                     *)
(***************************************************************************)
EXTENDS Integers, FiniteSets

VARIABLES
  l_lists, r_lists,  \* the neighbors of each vertex of L and of R
  min_l, min_r,      \* the thresholds
  l_left, r_left,    \* the vertices that are left
  ended

peelVars == <<l_lists, r_lists, min_l, min_r, l_left, r_left, ended>>

FewOfR(l) == Cardinality(l_lists[l] \cap r_left) < min_r
FewOfL(r) == Cardinality(r_lists[r] \cap l_left) < min_l

PeelInit ==
  /\ l_left = DOMAIN l_lists
  /\ r_left = DOMAIN r_lists
  /\ ended = FALSE

PeelL ==
  /\ ~ended
  /\ \E l \in l_left : FewOfR(l) /\ l_left' = l_left \ {l}
  /\ UNCHANGED <<l_lists, r_lists, min_l, min_r, r_left, ended>>

PeelR ==
  /\ ~ended
  /\ \E r \in r_left : FewOfL(r) /\ r_left' = r_left \ {r}
  /\ UNCHANGED <<l_lists, r_lists, min_l, min_r, l_left, ended>>

End ==
  /\ ~ended
  /\ \A l \in l_left : ~FewOfR(l)
  /\ \A r \in r_left : ~FewOfL(r)
  /\ ended' = TRUE
  /\ UNCHANGED <<l_lists, r_lists, min_l, min_r, l_left, r_left>>

PeelNext == PeelL \/ PeelR \/ End
=============================================================================
