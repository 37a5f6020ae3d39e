------------------------------- MODULE AdaDSB -------------------------------
(***************************************************************************)
(* AdaMBEFinder_DSB (AdaFinder.cpp): dynamic subgraphs on bitsets only.    *)
(*                                                                         *)
(* A set frame has the entries of P_Q: a vertex and how many vertices of L *)
(* it is adjacent to; first = -1 marks an entry pruned.  A bit frame has   *)
(* the entries of P_Q_bs, which forget their vertex; {} marks one pruned.  *)
(* Both kinds keep the vertices before p_start as witnesses.  All bitsets  *)
(* here are filled bit by bit and never wider than L, so that the set of   *)
(* L vertices stands for a bitset.                                         *)
(***************************************************************************)
EXTENDS Finder

ByFirst(a, b) == a.first < b.first

\* The bitset functions do not have R.  They count L unconditionally; the
\* biclique they mean is the one L determines.
CountBits(L) ==
  /\ found' = found \cup InInput({<<L, CommonR(graph_, L)>>})
  /\ maximal_nodes_' = maximal_nodes_ + 1

----------------------------------------------------------------------------
(* The two kinds of root.  Near(v) includes v and the vertices before it.  *)

Near(v) == {r \in DOMAIN graph_ : graph_[r] \cap graph_[v] # {}}

SetRoot(v) ==
  LET L == graph_[v]
      full == {r \in Near(v) : L \subseteq graph_[r]}
      entries == {[first |-> r, second |-> Cardinality(L \cap graph_[r])] :
                    r \in Near(v) \ full}
      kept == {e \in entries : e.second >= min_l_size_}
  IN  [mode |-> "set",
       L    |-> L,
       R    |-> full,
       PQ   |-> SortedBy(kept, ByFirst),
       pid  |-> Cardinality({e \in kept : e.first < v}) + 1]

BitRoot(v) ==
  LET L == graph_[v]
      kept == {r \in Near(v) : ~(L \subseteq graph_[r])}
      firsts == SortedBy(kept, <)
  IN  [mode |-> "bit",
       L    |-> L,
       PQ   |-> [k \in DOMAIN firsts |-> L \cap graph_[firsts[k]]],
       pid  |-> Cardinality({r \in kept : r < v}) + 1]

SkipRoot == AtRoot("DSB") /\ Skipped(cur_v_) /\ NextRoot

ExpandSetRoot ==
  /\ AtRoot("DSB") /\ ~Skipped(cur_v_)
  /\ Cardinality(graph_[cur_v_]) > NN
  /\ Enter(<<SetRoot(cur_v_)>>)
  /\ Count(graph_[cur_v_], SetRoot(cur_v_).R)
  /\ UNCHANGED <<fixed, cur_v_, heap>>

ExpandBitRoot ==
  /\ AtRoot("DSB") /\ ~Skipped(cur_v_)
  /\ Cardinality(graph_[cur_v_]) <= NN
  /\ Enter(<<BitRoot(cur_v_)>>)
  /\ CountBits(graph_[cur_v_])
  /\ UNCHANGED <<fixed, cur_v_, heap>>

----------------------------------------------------------------------------
(* biclique_find on vertex sets: the entry at pid of the frame f.          *)

L_prime(f) == f.L \cap graph_[f.PQ[f.pid].first]

\* What entry i has in common with L_prime; LN[i] is its size.
LN(f, i) ==
  IF f.PQ[i].first < 0 THEN {} ELSE L_prime(f) \cap graph_[f.PQ[i].first]

Covers(f, i) == LN(f, i) = L_prime(f)

IsMaximal(f) == \A i \in 1 .. f.pid - 1 : ~Covers(f, i)

R_prime(f) == f.R \cup {f.PQ[i].first : i \in {j \in DOMAIN f.PQ : Covers(f, j)}}

\* The entries handed to the child, in order, and where the child starts.
Kept(f) == {i \in DOMAIN f.PQ : /\ ~Covers(f, i)
                                /\ Cardinality(LN(f, i)) >= min_l_size_}
StartPrime(f) == Cardinality({i \in Kept(f) : i < f.pid}) + 1

\* (mutant) The entry at pid is pruned with the others.
PrunedSelf(f) ==
  [f EXCEPT !.pid = @ + 1,
            !.PQ = [i \in DOMAIN @ |->
                      IF Cardinality(LN(f, i)) = @[i].second
                      THEN [@[i] EXCEPT !.first = -1] ELSE @[i]]]

\* The frame after the entry: the other entries whose vertices of L are all in
\* L_prime are pruned, before pid and after it, whether L_prime was maximal or
\* not.
Pruned(f) ==
  [f EXCEPT !.pid = @ + 1,
            !.PQ = [i \in DOMAIN @ |->
                      IF i # f.pid /\ Cardinality(LN(f, i)) = @[i].second
                      THEN [@[i] EXCEPT !.first = -1] ELSE @[i]]]

SetChild(f) ==
  LET order == SortedBy(Kept(f), <)
  IN  [mode |-> "set",
       L    |-> L_prime(f),
       R    |-> R_prime(f),
       PQ   |-> [k \in DOMAIN order |->
                   [first  |-> f.PQ[order[k]].first,
                    second |-> Cardinality(LN(f, order[k]))]],
       pid  |-> StartPrime(f)]

BitChild(f) ==
  LET order == SortedBy(Kept(f), <)
  IN  [mode |-> "bit",
       L    |-> L_prime(f),
       PQ   |-> [k \in DOMAIN order |-> LN(f, order[k])],
       pid  |-> StartPrime(f)]

Unfinished(f) == f.pid <= Len(f.PQ)

OnSet == Active("DSB") /\ Top.mode = "set" /\ Unfinished(Top)

SkipEntry ==
  /\ OnSet /\ Top.PQ[Top.pid].first < 0
  /\ Continue([Top EXCEPT !.pid = @ + 1])
  /\ Uncounted
  /\ UNCHANGED <<fixed, cur_v_, heap>>

\* L_prime is at least min_l_size_, as the entry would not be in P_Q otherwise:
\* it takes one of the code's two branches.
SetEntry ==
  /\ OnSet /\ Top.PQ[Top.pid].first >= 0
  /\ IF IsMaximal(Top)
     THEN /\ Call(Pruned(Top), IF Cardinality(L_prime(Top)) > NN
                               THEN SetChild(Top) ELSE BitChild(Top))
          /\ Count(L_prime(Top), R_prime(Top))
     ELSE Continue(Pruned(Top)) /\ Uncounted
  /\ UNCHANGED <<fixed, cur_v_, heap>>

----------------------------------------------------------------------------
(* biclique_find on bitsets: the entry at pid of the frame f.              *)

cur_L_bs(f) == f.L \cap f.PQ[f.pid]

BitMaximal(f) == \A i \in 1 .. f.pid - 1 : ~(cur_L_bs(f) \subseteq f.PQ[i])

BitEntryChild(f) ==
  LET kept == {i \in DOMAIN f.PQ : /\ ~(cur_L_bs(f) \subseteq f.PQ[i])
                                   /\ cur_L_bs(f) \cap f.PQ[i] # {}}
      order == SortedBy(kept, <)
  IN  [mode |-> "bit",
       L    |-> cur_L_bs(f),
       PQ   |-> [k \in DOMAIN order |-> cur_L_bs(f) \cap f.PQ[order[k]]],
       pid  |-> Cardinality({i \in kept : i < f.pid}) + 1]

BitPruned(f) ==
  [f EXCEPT !.pid = @ + 1,
            !.PQ = [i \in DOMAIN @ |->
                      IF i # f.pid /\ @[i] \subseteq cur_L_bs(f)
                      THEN {} ELSE @[i]]]

OnBit == Active("DSB") /\ Top.mode = "bit" /\ Unfinished(Top)

SkipEmpty ==
  /\ OnBit /\ cur_L_bs(Top) = {}
  /\ Continue([Top EXCEPT !.pid = @ + 1])
  /\ Uncounted
  /\ UNCHANGED <<fixed, cur_v_, heap>>

BitEntry ==
  /\ OnBit /\ cur_L_bs(Top) # {}
  /\ IF BitMaximal(Top) THEN Call(BitPruned(Top), BitEntryChild(Top))
                        ELSE Continue(BitPruned(Top))
  /\ Uncounted
  /\ UNCHANGED <<fixed, cur_v_, heap>>

----------------------------------------------------------------------------
\* A bitset activation counts the node it has called biclique_find for when
\* the call returns; the other callers have counted it before.
CountsOnReturn == Len(stack) > 1 /\ stack[Len(stack) - 1].mode = "bit"

Return ==
  /\ Active("DSB") /\ ~Unfinished(Top)
  /\ Pop
  /\ UNCHANGED heap
  /\ IF CountsOnReturn THEN CountBits(Top.L) ELSE Uncounted

Step == \/ SkipRoot \/ ExpandSetRoot \/ ExpandBitRoot
        \/ SkipEntry \/ SetEntry \/ SkipEmpty \/ BitEntry \/ Return

----------------------------------------------------------------------------
\* A vertex that would make the biclique of an activation's L larger is always
\* betrayed by a witness: whatever part of L an unpruned later entry leads to,
\* a vertex adjacent to all of it that comes before it is still represented
\* before it, although witnesses are pruned on the way.
Witnessed ==
  finder = "DSB" => \A k \in DOMAIN stack :
    LET f == stack[k]
    IN  f.mode = "set" =>
          \A i \in f.pid .. Len(f.PQ) : f.PQ[i].first >= 0 =>
            LET T == f.L \cap graph_[f.PQ[i].first]
            IN  (\E r \in CommonR(graph_, T) : r < f.PQ[i].first /\ r \notin f.R)
                  => \E j \in 1 .. i - 1 :
                       f.PQ[j].first >= 0 /\ T \subseteq graph_[f.PQ[j].first]
=============================================================================
