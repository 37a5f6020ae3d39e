-------------------------------- MODULE MBEA --------------------------------
(***************************************************************************)
(* MbeaFinder and ImbeaFinder (BaselineFinder.cpp): L and R of a node, the *)
(* candidates P still to be added to R, and the vertices Q that have been. *)
(* P's back is its next candidate.  The two differ in the order of P and   *)
(* in what they move from P to Q.                                          *)
(***************************************************************************)
EXTENDS Finder, Utility

Mine == finder \in {"MBEA", "iMBEA"}

Common(f, r) == f.L \cap graph_[r]

----------------------------------------------------------------------------
(* Execute.                                                                *)

\* No vertex before v has all of its neighbors.
RootMaximal(v) == \A y \in CommonR(graph_, graph_[v]) : y >= v

Root(v) ==
  LET L     == graph_[v]
      Nc(r) == Cardinality(L \cap graph_[r])
      near  == {r \in DOMAIN graph_ : L \cap graph_[r] # {}} \ CommonR(graph_, L)
      kept  == {r \in near : Nc(r) >= min_l_size_}
      Before(a, b) == IF finder = "iMBEA" /\ Nc(a) # Nc(b) THEN Nc(a) > Nc(b)
                                                           ELSE a > b
  IN  [L |-> L, R |-> CommonR(graph_, L),
       P |-> SortedBy({r \in kept : r > v}, Before),
       Q |-> {r \in kept : r < v}]

SkipRoot ==
  /\ Mine /\ AtRoot(finder)
  /\ Cardinality(graph_[cur_v_]) < min_l_size_ \/ ~RootMaximal(cur_v_)
  /\ NextRoot

ExpandRoot ==
  /\ Mine /\ AtRoot(finder)
  /\ Cardinality(graph_[cur_v_]) >= min_l_size_ /\ RootMaximal(cur_v_)
  /\ Count(graph_[cur_v_], Root(cur_v_).R)
  /\ Enter(<<Root(cur_v_)>>)
  /\ UNCHANGED <<fixed, cur_v_, heap>>

----------------------------------------------------------------------------
(* biclique_find: the candidate at the back of P in the frame f.           *)

x(f) == Last(f.P)
L_prime(f) == Common(f, x(f))
Nc(f, r) == Cardinality(L_prime(f) \cap graph_[r])
Full(f, r) == L_prime(f) \subseteq graph_[r]

IsMaximal(f) == \A q \in f.Q : ~Full(f, q)

R_prime(f) == f.R \cup {p \in ToSet(f.P) : Full(f, p)}

Q_prime(f) == {q \in f.Q : Nc(f, q) >= min_l_size_}

\* The candidates of the child: MBEA leaves them in their order, iMBEA sorts
\* them by Nc alone, which std::sort may do in several ways.
P_primes(f) ==
  LET Kept(p) == ~Full(f, p) /\ Nc(f, p) >= min_l_size_
      kept == SelectSeq(Front(f.P), Kept)
      n == Len(kept)
  IN  IF finder = "MBEA" THEN {kept}
      ELSE {[k \in 1 .. n |-> kept[p[k]]] :
              p \in {p \in Permutations(1 .. n) : \A i \in 1 .. n - 1 :
                       Nc(f, kept[p[i]]) >= Nc(f, kept[p[i + 1]])}}

\* The candidates that add nothing outside L_prime, x(f) first: C.
Absorbed(f) ==
  LET Inside(p) == Common(f, p) = L_prime(f)
  IN  <<x(f)>> \o SelectSeq(Front(f.P), Inside)

\* (mutant) x(f) is left out of Q.
AfterForgets(f) == [f EXCEPT !.P = Front(@)]

\* The frame after a candidate that was expanded.  iMBEA's P is in no order of
\* ids, which is what seq_except needs.
After(f) ==
  IF finder = "MBEA" THEN [f EXCEPT !.P = Front(@), !.Q = @ \cup {x(f)}]
  ELSE [f EXCEPT !.P = seq_except(Front(@), Absorbed(f)),
                 !.Q = @ \cup ToSet(Absorbed(f))]

OnCandidate == Mine /\ Active(finder) /\ Top.P # <<>>

Small(f) == Cardinality(L_prime(f)) < min_l_size_
Expands(f) == ~Small(f) /\ IsMaximal(f)

\* MBEA remembers a candidate that was not maximal, iMBEA forgets it; neither
\* forgets one that is too small.
PassCandidate ==
  /\ OnCandidate /\ ~Expands(Top)
  /\ Continue([Top EXCEPT !.P = Front(@),
                          !.Q = IF finder = "MBEA" \/ Small(Top)
                                THEN @ \cup {x(Top)} ELSE @])
  /\ Uncounted
  /\ UNCHANGED <<fixed, cur_v_, heap>>

\* The node is counted after its subtree, if that is entered at all.
Maximal ==
  /\ OnCandidate /\ Expands(Top)
  /\ \E P \in P_primes(Top) :
       IF P # <<>> /\ Cardinality(R_prime(Top)) + Len(P) >= min_r_size_
       THEN /\ Call(After(Top), [L |-> L_prime(Top), R |-> R_prime(Top),
                                 P |-> P, Q |-> Q_prime(Top)])
            /\ Uncounted
       ELSE Continue(After(Top)) /\ Count(L_prime(Top), R_prime(Top))
  /\ UNCHANGED <<fixed, cur_v_, heap>>

Return ==
  /\ Mine /\ Active(finder) /\ Top.P = <<>>
  /\ Pop
  /\ IF Len(stack) > 1 THEN Count(Top.L, Top.R) ELSE Uncounted
  /\ UNCHANGED heap

Step == \/ SkipRoot \/ ExpandRoot
        \/ PassCandidate \/ Maximal \/ Return
=============================================================================
