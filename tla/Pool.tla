-------------------------------- MODULE Pool --------------------------------
(***************************************************************************)
(* What a work list promises: what is put in is taken out once.            *)
(***************************************************************************)
VARIABLES
  inside,  \* the items put in and not taken out yet
  taken    \* the items taken out

poolVars == <<inside, taken>>

PoolInit == inside = {} /\ taken = {}

\* New items are put in; nothing that is inside is lost.
Put ==
  /\ inside \subseteq inside' /\ inside' # inside
  /\ inside' \cap taken = {}
  /\ UNCHANGED taken

TakeOut ==
  \E x \in inside : inside' = inside \ {x} /\ taken' = taken \cup {x}

PoolNext == Put \/ TakeOut

PoolSpec == PoolInit /\ [][PoolNext]_poolVars
=============================================================================
