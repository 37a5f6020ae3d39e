------------------------------ MODULE Utility ------------------------------
(***************************************************************************)
(* Operations on sequences of ids (Utility.cpp).  Their arguments should   *)
(* be sorted; what they return if they are not is what the code returns.   *)
(***************************************************************************)
EXTENDS Integers, Sequences

\* The elements of v0 that are not in v1, by a merge of the two.
seq_except(v0, v1) ==
  LET from[i \in 1 .. Len(v0) + 1, j \in 1 .. Len(v1) + 1] ==
        IF i > Len(v0) THEN <<>>
        ELSE IF j > Len(v1) \/ v0[i] < v1[j] THEN <<v0[i]>> \o from[i + 1, j]
        ELSE IF v0[i] = v1[j] THEN from[i + 1, j + 1]
        ELSE from[i, j + 1]
  IN  from[1, 1]
=============================================================================
