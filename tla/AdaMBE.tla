------------------------------- MODULE AdaMBE -------------------------------
(***************************************************************************)
(* AdaMBEFinder (AdaFinder.cpp): enumeration that walks the candidates of  *)
(* large nodes as vertex sets and those of small nodes as bitsets.         *)
(***************************************************************************)
EXTENDS OnePass, Finder

SkipRoot == AtRoot("AdaMBE") /\ Skipped(cur_v_) /\ NextRoot

ExpandSetRoot ==
  /\ AtRoot("AdaMBE") /\ ~Skipped(cur_v_)
  /\ Cardinality(graph_[cur_v_]) > NN
  /\ Enter(<<SetRoot(cur_v_)>>)
  /\ Count(graph_[cur_v_], SetRoot(cur_v_).R)
  /\ UNCHANGED <<fixed, cur_v_, heap>>

ExpandBitRoot ==
  /\ AtRoot("AdaMBE") /\ ~Skipped(cur_v_)
  /\ Cardinality(graph_[cur_v_]) <= NN
  /\ Enter(<<BitRoot(cur_v_)>>)
  /\ Count(graph_[cur_v_], BitRoot(cur_v_).R)
  /\ UNCHANGED <<fixed, cur_v_, heap>>

----------------------------------------------------------------------------
(* biclique_find.                                                          *)

OnSet == Active("AdaMBE") /\ Top.mode = "set" /\ Unfinished(Top)
OnBit == Active("AdaMBE") /\ Top.mode = "bit" /\ Unfinished(Top)

SkipCandidate ==
  /\ OnSet /\ Candidate(Top).first < 0
  /\ Continue([Top EXCEPT !.i = @ + 1])
  /\ Uncounted
  /\ UNCHANGED <<fixed, cur_v_, heap>>

\* A candidate with more than NN vertices.
LargeCandidate ==
  /\ OnSet /\ Candidate(Top).first >= 0
  /\ Cardinality(Candidate(Top).L) > NN
  /\ IF IsMaximal(Top)
     THEN /\ Call(Consumed(Top), SetChild(Top))
          /\ Count(SetChild(Top).L, SetChild(Top).R)
     ELSE Continue(Consumed(Top)) /\ Uncounted
  /\ UNCHANGED <<fixed, cur_v_, heap>>

\* A candidate that fits in a bitset.
SmallCandidate ==
  /\ OnSet /\ Candidate(Top).first >= 0
  /\ Cardinality(Candidate(Top).L) <= NN
  /\ LET next == [Top EXCEPT !.i = @ + 1]
     IN  IF IsMaximalSmall(Top)
         THEN /\ Call(next, BitChild(Top))
              /\ Count(Candidate(Top).L, BitChild(Top).R)
         ELSE Continue(next) /\ Uncounted
  /\ UNCHANGED <<fixed, cur_v_, heap>>

\* The bitset activation's entry at c_start.
Entry ==
  /\ OnBit
  /\ IF Witnesses(Top).is_maximal
     THEN /\ Call(BitConsumed(Top), BitEntryChild(Top))
          /\ Count(Vertices(Top.ids, Witnesses(Top).L_prime),
                   BitEntryChild(Top).R)
     ELSE Continue(BitConsumed(Top)) /\ Uncounted
  /\ UNCHANGED <<fixed, cur_v_, heap>>

Return ==
  /\ Active("AdaMBE") /\ ~Unfinished(Top)
  /\ Pop
  /\ Uncounted
  /\ UNCHANGED heap

Step == \/ SkipRoot \/ ExpandSetRoot \/ ExpandBitRoot
        \/ SkipCandidate \/ LargeCandidate \/ SmallCandidate \/ Entry \/ Return

----------------------------------------------------------------------------
\* Every activation on vertex sets, the bitset ones left aside, works on a biclique
\* closed on the R side, and what it has left to do lies inside its L side.
FramesClosed ==
  finder = "AdaMBE" => \A k \in DOMAIN stack :
    LET f == stack[k]
    IN  f.mode = "set" =>
          /\ f.R = CommonR(graph_, f.L)
          /\ \A ci \in f.i .. Len(f.C) : f.C[ci].first >= 0 =>
               f.C[ci].L = f.L \cap graph_[f.C[ci].first]

\* The vertex, candidate or node that is up next.
RootIsNext == AtRoot("AdaMBE") /\ ~Skipped(cur_v_)
CandidateIsNext == OnSet /\ Candidate(Top).first >= 0
IsSmall(S) == Cardinality(S) <= NN

Entries(C) ==
  [k \in DOMAIN C |-> [first |-> C[k].first, second |-> List(C[k].L)]]

BitEntries(ids, C) ==
  [k \in DOMAIN C |-> [first |-> C[k].first, bs |-> AsBits(ids, C[k].second)]]

\* The one pass over the neighbors computes the intersections AdaNodes states,
\* as sorted lists: those of a root, of a small candidate in the order the
\* vertices are met, and of a large candidate, where it hands on and marks as
\* done with exactly the candidates it should.
ListsExact ==
  /\ RootIsNext /\ ~IsSmall(graph_[cur_v_]) =>
       SortSeq(Kept(CollectSetRoot(cur_v_, Clean).C,
                    Cardinality(graph_[cur_v_])), ByFirst)
         = Entries(SetRoot(cur_v_).C)
  /\ RootIsNext /\ IsSmall(graph_[cur_v_]) =>
       BitEntries(List(graph_[cur_v_]),
                  SortSeq(Kept(CollectBitRoot(cur_v_, Clean).C,
                               Cardinality(graph_[cur_v_])), ByFirst))
         = BitRoot(cur_v_).QC
  /\ CandidateIsNext /\ IsSmall(Candidate(Top).L) =>
       BitEntries(List(Candidate(Top).L),
                  Kept(CollectBitChild(Top, Clean).C,
                       Cardinality(Candidate(Top).L)))
         = SubSeq(BitChild(Top).QC, 1, BitChild(Top).c_start - 1)
  /\ CandidateIsNext /\ ~IsSmall(Candidate(Top).L) =>
       /\ IsMaximal(Top) => C_prime(Top, Clean) = Entries(SetChild(Top).C)
       /\ \A ci \in Live(Top) :
            ci \in Marked(Top, Clean) <=> Consumed(Top).C[ci] = Dropped

\* Whoever finds the buffers clean leaves them clean, before it calls the
\* search again, which uses the same buffers, and when it returns, where the
\* next to acquire the index does.
ScratchClean ==
  /\ RootIsNext =>
       Reset(IF IsSmall(graph_[cur_v_]) THEN CollectBitRoot(cur_v_, Clean)
                                        ELSE CollectSetRoot(cur_v_, Clean),
             Cardinality(graph_[cur_v_])) = Clean.idx_buf_
  /\ CandidateIsNext /\ IsSmall(Candidate(Top).L) =>
       Reset(CollectBitChild(Top, Clean), Cardinality(Candidate(Top).L))
         = Clean.idx_buf_
  /\ CandidateIsNext /\ ~IsSmall(Candidate(Top).L) =>
       Scratch2d(Top, Clean) = Clean.global_2d_buf_
=============================================================================
