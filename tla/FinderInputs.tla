---------------------------- MODULE FinderInputs ----------------------------
(***************************************************************************)
(* What the finders work on, what they count, and their bitsets.           *)
(***************************************************************************)
EXTENDS Inputs, Sequences, SequencesExt

CONSTANT WordBits   \* the width of 1LLU, 64

VARIABLE NN   \* the size of bitset_t, chosen when the finder is compiled

inputVars == <<graph_, NN, min_l_size_, min_r_size_>>

\* What a node adds to the result: its biclique, if R is large enough.  The L
\* side is large enough because smaller candidates are not kept.
Result(L, R) == IF Cardinality(R) >= min_r_size_ THEN {<<L, R>>} ELSE {}

----------------------------------------------------------------------------
(* Bitsets.                                                                *)

Positions(ids) == 0 .. Len(ids) - 1

Vertices(ids, bs) == {ids[p + 1] : p \in bs}

\* A bitset filled with set(li) alone, as C_bs is.
Bits(ids, r) == {p \in Positions(ids) : ids[p + 1] \in graph_[r]}

\* A bitset made by bitset_t(1LLU << li) for the first position and by set(li)
\* for the others: the processor takes the shift count modulo WordBits.
ShiftedBits(ids, r) ==
  LET bs == Bits(ids, r)
  IN  (bs \ {Min(bs)}) \cup {Min(bs) % WordBits}
=============================================================================
