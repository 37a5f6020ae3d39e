-------------------------------- MODULE PMBE --------------------------------
(***************************************************************************)
(* PmbeFinder (BaselineFinder.cpp): its graph's R is renumbered so that a  *)
(* vertex comes after those whose lists lie inside its list, and the ids   *)
(* of some of those, a range, are kept with it (range_index_, in heap).    *)
(* Candidates are taken from the back; one in the range of a candidate     *)
(* taken before is passed over, as that one closes its node.               *)
(***************************************************************************)
EXTENDS Finder

----------------------------------------------------------------------------
(* PmbeBiGraph's constructor.                                              *)

\* i is a parent of j in the graph of containment: nc == r_adj_lists_[j].size().
Includes(i, j) ==
  /\ i # j /\ graph_[j] \subseteq graph_[i]
  /\ graph_[i] = graph_[j] => i < j

n == Cardinality(DOMAIN graph_)

\* q is the order in which the vertices pass through ready_q, from 0.  A vertex
\* is pushed when its last parent is popped, -1 if it has none.
Pushed(q, j) == Max({-1} \cup {k \in DOMAIN q : Includes(q[k], j)})

\* Those pushed at one time are pushed with the smaller lists first; lists of
\* one size come in any order, as std::sort leaves it open.
ready_q ==
  {q \in Permutations(DOMAIN graph_) :
     \A i, k \in DOMAIN q : i < k =>
       \/ Pushed(q, q[i]) < Pushed(q, q[k])
       \/ /\ Pushed(q, q[i]) = Pushed(q, q[k])
          /\ Cardinality(graph_[q[i]]) <= Cardinality(graph_[q[k]])}

PushedUntil(q, k) == Cardinality({j \in DOMAIN q : Pushed(q, j) <= k})

\* The last popped gets the id 0.
rename_map(q) == [id \in DOMAIN q |-> q[n - 1 - id]]

\* (mutant) The range is one id too long.
RangeTooLong(q) ==
  [id \in DOMAIN q |-> <<n - PushedUntil(q, n - 1 - id),
                         n - PushedUntil(q, n - 2 - id)>>]

\* The ids that those pushed when a vertex was popped will get.
range_index_(q) ==
  [id \in DOMAIN q |-> <<n - PushedUntil(q, n - 1 - id),
                         n - PushedUntil(q, n - 2 - id) - 1>>]

BuildGraph ==
  /\ AtRoot("PMBE") /\ heap = <<>>
  /\ \E q \in ready_q :
       /\ graph_' = [id \in DOMAIN q |-> graph_[rename_map(q)[id]]]
       /\ r_map_' = [id \in DOMAIN q |-> r_map_[rename_map(q)[id]]]
       /\ heap' = range_index_(q)
  /\ Uncounted
  /\ UNCHANGED <<NN, min_l_size_, min_r_size_, finder, l_map_, transposed,
                 wanted, cur_v_, stack, status>>

----------------------------------------------------------------------------
(* Execute.                                                                *)

RootMaximal(v) == Min(CommonR(graph_, graph_[v])) >= v

Root(v) ==
  LET L == graph_[v]
  IN  [L |-> L, R |-> CommonR(graph_, L),
       C |-> {y \in DOMAIN graph_ : /\ y > v /\ L \cap graph_[y] # {}
                                    /\ ~(L \subseteq graph_[y])},
       ex_q |-> <<>>]

SkipRoot ==
  /\ AtRoot("PMBE") /\ heap # <<>>
  /\ Cardinality(graph_[cur_v_]) < min_l_size_ \/ ~RootMaximal(cur_v_)
  /\ NextRoot

ExpandRoot ==
  /\ AtRoot("PMBE") /\ heap # <<>>
  /\ Cardinality(graph_[cur_v_]) >= min_l_size_ /\ RootMaximal(cur_v_)
  /\ Count(graph_[cur_v_], Root(cur_v_).R)
  /\ Enter(<<Root(cur_v_)>>)
  /\ UNCHANGED <<fixed, cur_v_, heap>>

----------------------------------------------------------------------------
(* biclique_find: the candidate at the back of C in the frame f.           *)

x(f) == Max(f.C)
L_prime(f) == f.L \cap graph_[x(f)]
R_prime(f) == CommonR(graph_, L_prime(f))

\* The queue of ranges with that of x(f), without those x(f) has left behind.
ex_q(f) ==
  LET p == heap[x(f)]
      q == IF p[1] <= p[2] THEN Append(f.ex_q, p) ELSE f.ex_q
      reached == {k \in DOMAIN q : q[k][1] <= x(f)}
  IN  IF reached = {} THEN <<>> ELSE SubSeq(q, Min(reached), Len(q))

PassedOver(f) == ex_q(f) # <<>> /\ ex_q(f)[1][2] >= x(f)

IsMaximal(f) == R_prime(f) \ f.R \subseteq f.C

C_prime(f) ==
  {c \in f.C \ {x(f)} : /\ L_prime(f) \cap graph_[c] # {}
                        /\ ~(L_prime(f) \subseteq graph_[c])}

After(f) == [f EXCEPT !.C = @ \ {x(f)}, !.ex_q = ex_q(f)]

OnCandidate == Active("PMBE") /\ Top.C # {}

Expands(f) == ~PassedOver(f) /\ Cardinality(L_prime(f)) >= min_l_size_

PassCandidate ==
  /\ OnCandidate /\ ~(Expands(Top) /\ IsMaximal(Top))
  /\ Continue(After(Top))
  /\ Uncounted
  /\ UNCHANGED <<fixed, cur_v_, heap>>

\* The node is counted after its subtree, if that is entered at all.
Maximal ==
  /\ OnCandidate /\ Expands(Top) /\ IsMaximal(Top)
  /\ IF C_prime(Top) # {} /\ Cardinality(R_prime(Top))
                               + Cardinality(C_prime(Top)) >= min_r_size_
     THEN /\ Call(After(Top), [L |-> L_prime(Top), R |-> R_prime(Top),
                               C |-> C_prime(Top), ex_q |-> <<>>])
          /\ Uncounted
     ELSE Continue(After(Top)) /\ Count(L_prime(Top), R_prime(Top))
  /\ UNCHANGED <<fixed, cur_v_, heap>>

Return ==
  /\ Active("PMBE") /\ Top.C = {}
  /\ Pop
  /\ IF Len(stack) > 1 THEN Count(Top.L, Top.R) ELSE Uncounted
  /\ UNCHANGED heap

Step == \/ BuildGraph \/ SkipRoot \/ ExpandRoot
        \/ PassCandidate \/ Maximal \/ Return

----------------------------------------------------------------------------
\* The ranges keep what they are for: a vertex listed in the range of another
\* comes before it and has no neighbor the other does not have, and a vertex
\* with neighbors inside another's is in exactly one range.
RangesContained ==
  finder = "PMBE" /\ heap # <<>> =>
    LET InRange(u, v) == heap[v][1] <= u /\ u <= heap[v][2]
    IN  \A u \in DOMAIN graph_ :
          /\ \A v \in DOMAIN graph_ :
               InRange(u, v) => u < v /\ graph_[u] \subseteq graph_[v]
          /\ (\E v \in DOMAIN graph_ \ {u} : graph_[u] \subseteq graph_[v] /\ v > u)
               => \E v \in DOMAIN graph_ : InRange(u, v) /\
                    \A w \in DOMAIN graph_ : InRange(u, w) => w = v
=============================================================================
