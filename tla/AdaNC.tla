-------------------------------- MODULE AdaNC --------------------------------
(***************************************************************************)
(* AdaMBEFinder_NC (AdaFinder.cpp): cached local neighbors only.           *)
(*                                                                         *)
(* Candidates are Nodes on the heap, and an activation's C has pointers to *)
(* them: a child may be handed the very Node its parent has.  A Node whose *)
(* R is not empty has been used up, by whichever activation came first.    *)
(* heap is the sequence of the Nodes that exist, oldest first; C has       *)
(* indices into it.                                                        *)
(***************************************************************************)
EXTENDS Finder

\* R tells only whether a Node is used up; what it holds for a node that is
\* being expanded is in the frame.
NewNode(vc, L) == [vc |-> vc, L |-> L, used |-> FALSE]

ByVc(a, b) == a.vc < b.vc

----------------------------------------------------------------------------
(* Execute: only vertices after v are looked at.                           *)

After(v) == {r \in DOMAIN graph_ : r > v /\ graph_[r] \cap graph_[v] # {}}

RootR(v) == {v} \cup {r \in After(v) : graph_[v] \subseteq graph_[r]}

RootNodes(v) ==
  LET all == {NewNode(r, graph_[v] \cap graph_[r]) : r \in After(v) \ RootR(v)}
  IN  SortedBy({node \in all : Cardinality(node.L) >= min_l_size_}, ByVc)

SkipRoot == AtRoot("NC") /\ Skipped(cur_v_) /\ NextRoot

ExpandRoot ==
  /\ AtRoot("NC") /\ ~Skipped(cur_v_)
  /\ Count(graph_[cur_v_], RootR(cur_v_))
  /\ heap' = RootNodes(cur_v_)
  /\ Enter(<<[L |-> graph_[cur_v_], R |-> RootR(cur_v_),
              C |-> [k \in DOMAIN heap' |-> k], i |-> 1, created |-> 0]>>)
  /\ UNCHANGED <<fixed, cur_v_>>

----------------------------------------------------------------------------
(* biclique_find: the candidate at i of the frame f.                       *)

Candidate(f) == heap[f.C[f.i]]

\* The later candidates that are not used up; the others are not looked at.
Open(f) == {ci \in f.i + 1 .. Len(f.C) : ~heap[f.C[ci]].used}

\* global_2d_buf_[ci]: what a later candidate has of the candidate's list.
Local(f, ci) == Candidate(f).L \cap graph_[heap[f.C[ci]].vc]

Whole(f, ci) == Cardinality(Local(f, ci)) = Cardinality(heap[f.C[ci]].L)

\* Q after the vertices up to l.
Q(f, l) ==
  {r \in 0 .. Candidate(f).vc - 1 :
     r \notin f.R /\ \A x \in Candidate(f).L : x <= l => x \in graph_[r]}

last_l(f) ==
  IF Q(f, Min(Candidate(f).L)) = {} THEN -1
  ELSE Min({l \in Candidate(f).L : Q(f, l) = {}})

IsMaximal(f) == Q(f, Max(Candidate(f).L)) = {}

\* The later candidates adjacent to the whole list: they go into R.
Full(f) == {ci \in Open(f) : Local(f, ci) = Candidate(f).L}

R_prime(f) == f.R \cup {Candidate(f).vc} \cup {heap[f.C[ci]].vc : ci \in Full(f)}

\* Those handed to the child.
Handed(f) ==
  {ci \in Open(f) \ Full(f) : /\ Cardinality(Local(f, ci)) >= min_l_size_
                              /\ Max(Local(f, ci)) >= last_l(f)}

\* (mutant) A Node is shared although its list is longer than what is left.
CutNever(f) == {ci \in Handed(f) : Local(f, ci) = {}}

\* Those of them that get a Node of their own; the others are handed on with
\* the Node they have, as it lists nothing else.
Cut(f) == {ci \in Handed(f) : ~Whole(f, ci)}

\* The Nodes used up by a maximal candidate: itself and those of Full that have
\* nothing outside it.  The ones handed on stay open, and are used up by the
\* child.
Used(f) == {f.C[f.i]} \cup {f.C[ci] : ci \in {j \in Full(f) : Whole(f, j)}}

UsedNotMaximal(f) ==
  {f.C[f.i]} \cup {f.C[ci] : ci \in {j \in Open(f) : Whole(f, j)}}

WithUsed(S) == [n \in DOMAIN heap |->
                  IF n \in S THEN [heap[n] EXCEPT !.used = TRUE] ELSE heap[n]]

CutNodes(f) ==
  LET order == SortedBy(Cut(f), <)
  IN  [k \in DOMAIN order |->
         NewNode(heap[f.C[order[k]]].vc, Local(f, order[k]))]

\* C_prime: the new Nodes are numbered after those that exist.
Child(f) ==
  LET Pointer(ci) == IF ci \in Cut(f)
                     THEN Len(heap) + Cardinality({d \in Cut(f) : d <= ci})
                     ELSE f.C[ci]
      order == SortedBy(Handed(f), <)
  IN  [L |-> Candidate(f).L, R |-> R_prime(f),
       C |-> [k \in DOMAIN order |-> Pointer(order[k])],
       i |-> 1, created |-> 0]

\* The frame goes on with the next candidate; created is the number of Nodes
\* in its create_node_ptrs.
Advanced(f, n) == [f EXCEPT !.i = @ + 1, !.created = @ + n]

Unfinished(f) == f.i <= Len(f.C)

On == Active("NC") /\ Unfinished(Top)

\* Used up by an earlier sibling, or by the activation below one; or too small.
Passed(node) == node.used \/ Cardinality(node.L) < min_l_size_

SkipNode ==
  /\ On /\ Passed(Candidate(Top))
  /\ Continue(Advanced(Top, 0))
  /\ Uncounted
  /\ UNCHANGED <<fixed, cur_v_, heap>>

MaximalNode ==
  /\ On /\ ~Passed(Candidate(Top)) /\ IsMaximal(Top)
  /\ Count(Candidate(Top).L, R_prime(Top))
  /\ heap' = WithUsed(Used(Top)) \o CutNodes(Top)
  /\ Call(Advanced(Top, Len(CutNodes(Top))), Child(Top))
  /\ UNCHANGED <<fixed, cur_v_>>

NonMaximalNode ==
  /\ On /\ ~Passed(Candidate(Top)) /\ ~IsMaximal(Top)
  /\ heap' = WithUsed(UsedNotMaximal(Top))
  /\ Continue(Advanced(Top, 0))
  /\ Uncounted
  /\ UNCHANGED <<fixed, cur_v_>>

\* The Nodes the activation has created are deleted; after the outermost,
\* Execute deletes the root's.
Return ==
  /\ Active("NC") /\ ~Unfinished(Top)
  /\ Pop
  /\ heap' = IF Len(stack) = 1 THEN <<>>
              ELSE SubSeq(heap, 1, Len(heap) - Top.created)
  /\ Uncounted

Step == \/ SkipRoot \/ ExpandRoot
        \/ SkipNode \/ MaximalNode \/ NonMaximalNode \/ Return

----------------------------------------------------------------------------
\* Whoever uses up or shares a Node, every activation finds in it exactly its
\* own part of L, and no activation has a pointer to a Node that was deleted.
NodesCurrent ==
  finder = "NC" => \A k \in DOMAIN stack :
    LET f == stack[k]
    IN  \A ci \in f.i .. Len(f.C) :
          /\ f.C[ci] \in DOMAIN heap
          /\ ~heap[f.C[ci]].used =>
               heap[f.C[ci]].L = f.L \cap graph_[heap[f.C[ci]].vc]
=============================================================================
