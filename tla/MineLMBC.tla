------------------------------ MODULE MineLMBC ------------------------------
(***************************************************************************)
(* MineLMBCFinder and FmbeFinder (BaselineFinder.cpp), and the search      *)
(* BicliqueFinder::MineLMBC that they share: R is X, L is GamaX, and the   *)
(* candidates are tailX.  A node is maximal if the vertices that close it  *)
(* are all still in tailX.                                                 *)
(*                                                                         *)
(* tailX is sorted on entry by how many vertices of GamaX a candidate is   *)
(* adjacent to, then by id, and used from the back: a set stands for it,   *)
(* and IsBack says which candidate is next.                                *)
(***************************************************************************)
EXTENDS Finder

Mine == finder \in {"LMBC", "FMBE"}

\* A call of MineLMBC.  It returns at once if the thresholds are out of reach.
MineLMBC(X, GamaX, tailX) ==
  LET kept == {v \in tailX : Cardinality(GamaX \cap graph_[v]) >= min_l_size_}
  IN  [X |-> X, GamaX |-> GamaX,
       tailX |-> IF Cardinality(X) + Cardinality(kept) < min_r_size_ THEN {}
                 ELSE kept]

----------------------------------------------------------------------------
(* Execute.                                                                *)

RootLMBC ==
  MineLMBC({},
           {l \in UNION {graph_[r] : r \in DOMAIN graph_} :
              Cardinality(CommonR(graph_, {l})) >= min_r_size_},
           {r \in DOMAIN graph_ : Cardinality(graph_[r]) >= min_l_size_})

\* FMBE's candidates at the root i come after it in the order of degree.
RootFMBE(i) ==
  LET Degree(r) == Cardinality(graph_[r])
  IN  MineLMBC({i}, graph_[i],
               {y \in DOMAIN graph_ :
                  /\ graph_[y] \cap graph_[i] # {}
                  /\ \/ Degree(y) > Degree(i)
                     \/ Degree(y) = Degree(i) /\ y > i})

Root ==
  /\ Mine /\ AtRoot(finder)
  /\ IF finder = "FMBE" /\ Cardinality(graph_[cur_v_]) < min_l_size_
     THEN NextRoot
     ELSE /\ Enter(<<IF finder = "FMBE" THEN RootFMBE(cur_v_) ELSE RootLMBC>>)
          /\ Uncounted
          /\ UNCHANGED <<fixed, cur_v_, heap>>

----------------------------------------------------------------------------
(* MineLMBC: the candidate at the back of tailX in the frame f.            *)

Nc(f, v) == f.GamaX \cap graph_[v]

IsBack(f, v) ==
  \A u \in f.tailX \ {v} :
    \/ Cardinality(Nc(f, v)) < Cardinality(Nc(f, u))
    \/ Cardinality(Nc(f, v)) = Cardinality(Nc(f, u)) /\ v < u

Y(f, v) == CommonR(graph_, Nc(f, v))

IsMaximal(f, v) == Y(f, v) \ f.X \subseteq f.tailX

InReach(f) == Cardinality(f.X) + Cardinality(f.tailX) >= min_r_size_

Without(f, v) == [f EXCEPT !.tailX = @ \ {v}]

\* (mutant) Only a candidate that was expanded is taken from the back.
PassCandidateStays ==
  /\ Mine /\ Active(finder)
  /\ \E v \in Top.tailX : IsBack(Top, v) /\ ~(InReach(Top) /\ IsMaximal(Top, v))
  /\ UNCHANGED vars

\* Not enough candidates are left, or the node is not maximal.
PassCandidate ==
  /\ Mine /\ Active(finder)
  /\ \E v \in Top.tailX :
       /\ IsBack(Top, v) /\ ~(InReach(Top) /\ IsMaximal(Top, v))
       /\ Continue(Without(Top, v))
  /\ Uncounted
  /\ UNCHANGED <<fixed, cur_v_, heap>>

MaximalCandidate ==
  /\ Mine /\ Active(finder)
  /\ \E v \in Top.tailX :
       /\ IsBack(Top, v) /\ InReach(Top) /\ IsMaximal(Top, v)
       /\ Count(Nc(Top, v), Y(Top, v))
       /\ Call(Without(Top, v),
               MineLMBC(Y(Top, v), Nc(Top, v), Top.tailX \ Y(Top, v)))
  /\ UNCHANGED <<fixed, cur_v_, heap>>

\* FMBE's root is not a node of MineLMBC: its biclique is counted after the
\* subtree if no other vertex closes it, whatever min_r_size_ is.
RootAlone ==
  /\ finder = "FMBE" /\ Len(stack) = 1
  /\ min_l_size_ = 1 /\ CommonR(graph_, graph_[cur_v_]) = {cur_v_}

Return ==
  /\ Mine /\ Active(finder) /\ Top.tailX = {}
  /\ Pop
  /\ IF RootAlone
     THEN /\ found' = found \cup InInput({<<graph_[cur_v_], {cur_v_}>>})
          /\ maximal_nodes_' = maximal_nodes_ + 1
     ELSE Uncounted
  /\ UNCHANGED heap

Step == Root \/ PassCandidate \/ MaximalCandidate \/ Return
=============================================================================
