------------------------------ MODULE AdaNodes ------------------------------
(***************************************************************************)
(* The nodes of AdaMBE's enumeration tree and how one is expanded.  The    *)
(* serial finder (AdaFinder.cpp) and the parallel one (ParAdaFinder.cpp)   *)
(* run the same code on different schedules; this module has the code,     *)
(* AdaMBE and ParAdaMBE the schedules.                                     *)
(*                                                                         *)
(* A frame is an activation of biclique_find.  In a set frame L, R and the *)
(* entries of C hold vertex ids; in a bit frame an L side is a bitset over *)
(* the positions of the list `ids`, at most NN bits.  A candidate whose    *)
(* `first` the code sets to -1 and whose list it clears is Dropped.        *)
(*                                                                         *)
(* Positions and indices count from 0 in bitsets, as in the code, and from *)
(* 1 in sequences, as in TLA+.                                             *)
(***************************************************************************)
EXTENDS FinderInputs

Dropped == [first |-> -1, L |-> {}]

ByFirst(a, b) == a.first < b.first

\* Vertices in increasing order, and candidates by their vertices.
List(S) == SortedBy(S, <)
Sorted(C) == SortedBy(C, ByFirst)

----------------------------------------------------------------------------
(* The two kinds of root, Execute's loop body.                             *)

\* The vertices after v that share a neighbor with it.
After(v) == {r \in DOMAIN graph_ : r > v /\ graph_[r] \cap graph_[v] # {}}

\* NeighborsR(v).size() > NN: only vertices after v are looked at.
SetRoot(v) ==
  LET L    == graph_[v]
      full == {r \in After(v) : L \subseteq graph_[r]}
      C    == {[first |-> r, L |-> L \cap graph_[r]] : r \in After(v) \ full}
  IN  [mode |-> "set",
       L    |-> L,
       R    |-> {v} \cup full,
       C    |-> Sorted({c \in C : Cardinality(c.L) >= min_l_size_}),
       i    |-> 1]

\* Otherwise every vertex that shares a neighbor gets a bitset; those before v
\* stay in Q_C, below c_start, as witnesses of non-maximality.
BitRoot(v) ==
  LET ids  == List(graph_[v])
      near == {r \in DOMAIN graph_ : graph_[r] \cap graph_[v] # {}}
      full == {r \in near : ShiftedBits(ids, r) = Positions(ids)}
      kept == {r \in near \ full :
                 Cardinality(ShiftedBits(ids, r)) >= min_l_size_}
  IN  [mode    |-> "bit",
       ids     |-> ids,
       R       |-> full,
       QC      |-> Sorted({[first |-> r, bs |-> ShiftedBits(ids, r)] :
                             r \in kept}),
       c_start |-> Cardinality({r \in kept : r < v}) + 1]

----------------------------------------------------------------------------
(* biclique_find on vertex sets: one candidate of the frame f.             *)

Candidate(f) == f.C[f.i]

Live(f) == {ci \in f.i + 1 .. Len(f.C) : f.C[ci].first >= 0}

\* The part of candidate ci's list inside the current candidate's list.
Overlap(f, ci) == Candidate(f).L \cap graph_[f.C[ci].first]

\* Q after the vertices up to l: what is adjacent to all of them, comes before
\* the candidate and is not in R.
Q(f, l) ==
  {r \in 0 .. Candidate(f).first - 1 :
     r \notin f.R /\ \A x \in Candidate(f).L : x <= l => x \in graph_[r]}

\* The vertex at which Q became empty; -1 if it was empty from the first.
last_l(f) ==
  IF Q(f, Min(Candidate(f).L)) = {} THEN -1
  ELSE Min({l \in Candidate(f).L : Q(f, l) = {}})

IsMaximal(f) == Q(f, Max(Candidate(f).L)) = {}

\* The frame after a large candidate: it and the candidates whose lists lie
\* inside its list are done with, maximal or not.
Consumed(f) ==
  [f EXCEPT !.i = @ + 1,
            !.C = [ci \in DOMAIN @ |->
                     IF ci >= f.i /\ @[ci].L \subseteq Candidate(f).L
                     THEN Dropped ELSE @[ci]]]

\* (mutant) R_prime misses the candidates adjacent to all of L_prime.
SetChildOpen(f) ==
  LET kept == {ci \in Live(f) : Cardinality(Overlap(f, ci)) >= min_l_size_}
  IN  [mode |-> "set",
       L    |-> Candidate(f).L,
       R    |-> f.R \cup {Candidate(f).first},
       C    |-> Sorted({[first |-> f.C[ci].first, L |-> Overlap(f, ci)] :
                          ci \in kept}),
       i    |-> 1]

\* The activation for a large maximal candidate.  A candidate that overlaps
\* it only before last_l has a vertex of Q in common there, so that nothing
\* below it is maximal.
SetChild(f) ==
  LET L_prime == Candidate(f).L
      full == {ci \in Live(f) : Overlap(f, ci) = L_prime}
      kept == {ci \in Live(f) \ full :
                 /\ Cardinality(Overlap(f, ci)) >= min_l_size_
                 /\ Max(Overlap(f, ci)) >= last_l(f)}
  IN  [mode |-> "set",
       L    |-> L_prime,
       R    |-> f.R \cup {Candidate(f).first} \cup {f.C[ci].first : ci \in full},
       C    |-> Sorted({[first |-> f.C[ci].first, L |-> Overlap(f, ci)] :
                          ci \in kept}),
       i    |-> 1]

\* At most NN vertices are left: the subtree is enumerated on bitsets.  The
\* vertices before the candidate are found through its list, in the order they
\* are met there; those adjacent to the whole list are only counted.
Before(f) ==
  {r \in 0 .. Candidate(f).first - 1 : graph_[r] \cap Candidate(f).L # {}}

\* r_size_before_vc common neighbors come before the candidate; the ones R has
\* are in R's first places, as R is sorted.
IsMaximalSmall(f) ==
  LET ids  == List(Candidate(f).L)
      r_size_before_vc ==
        Cardinality({r \in Before(f) : ShiftedBits(ids, r) = Positions(ids)})
  IN  Cardinality({r \in f.R : r < Candidate(f).first}) >= r_size_before_vc

\* The order they are met in: by the first neighbor in the list, then by id.
MetBefore(ids, a, b) ==
  LET pa == Min(Bits(ids, a.first))
      pb == Min(Bits(ids, b.first))
  IN  pa < pb \/ (pa = pb /\ a.first < b.first)

AsMet(ids, E) == SortedBy(E, LAMBDA a, b : MetBefore(ids, a, b))

BitChild(f) ==
  LET ids  == List(Candidate(f).L)
      pre  == {[first |-> r, bs |-> ShiftedBits(ids, r)] : r \in Before(f)}
      post == {[first |-> f.C[ci].first, bs |-> Bits(ids, f.C[ci].first)] :
                 ci \in Live(f)}
      full == {e \in post : e.bs = Positions(ids)}
      Kept(e) == Cardinality(e.bs) >= min_l_size_ /\ e.bs # Positions(ids)
      earlier == AsMet(ids, {e \in pre : Kept(e)})
  IN  [mode    |-> "bit",
       ids     |-> ids,
       R       |-> f.R \cup {Candidate(f).first} \cup {e.first : e \in full},
       QC      |-> earlier \o Sorted({e \in post : Kept(e)}),
       c_start |-> Len(earlier) + 1]

----------------------------------------------------------------------------
(* biclique_find on bitsets: the entry at c_start of the frame f.          *)

\* The entry's L_prime meets the entry j before it, which shows that L_prime is
\* not maximal and widens it if it includes it, and is cleared if it lies inside.
MeetWitness(f, acc, j) ==
  LET e  == f.QC[j]
      bs == acc.L_prime \cap e.bs
  IN  [L_prime    |-> IF bs = acc.L_prime THEN e.bs ELSE acc.L_prime,
       is_maximal |-> acc.is_maximal /\ bs # acc.L_prime,
       cleared    |-> IF e.bs = bs THEN acc.cleared \cup {j} ELSE acc.cleared,
       kept       |-> IF bs # acc.L_prime /\ Cardinality(bs) >= min_l_size_
                      THEN Append(acc.kept, [e EXCEPT !.bs = bs])
                      ELSE acc.kept]

\* The entries before c_start, in order.
Witnesses(f) ==
  LET met[j \in 0 .. f.c_start - 1] ==
        IF j = 0 THEN [L_prime |-> f.QC[f.c_start].bs, is_maximal |-> TRUE,
                       cleared |-> {}, kept |-> <<>>]
                 ELSE MeetWitness(f, met[j - 1], j)
  IN  met[f.c_start - 1]

\* The activation for a maximal entry, whose L_prime no witness has widened.
BitEntryChild(f) ==
  LET w == Witnesses(f)
      later == {[e EXCEPT !.bs = @ \cap w.L_prime] :
                  e \in {f.QC[j] : j \in f.c_start + 1 .. Len(f.QC)}}
      full == {e \in later : e.bs = w.L_prime}
      kept == {e \in later \ full : Cardinality(e.bs) >= min_l_size_}
  IN  [mode    |-> "bit",
       ids     |-> f.ids,
       R       |-> f.R \cup {f.QC[f.c_start].first} \cup {e.first : e \in full},
       QC      |-> w.kept \o Sorted(kept),
       c_start |-> Len(w.kept) + 1]

\* The frame after the entry: it stays, widened, as a witness; the entries it
\* absorbs are compacted away.
BitConsumed(f) ==
  LET w == Witnesses(f)
      gone == w.cleared \cup {j \in f.c_start + 1 .. Len(f.QC) :
                                f.QC[j].bs \subseteq w.L_prime}
      QC == [f.QC EXCEPT ![f.c_start].bs = w.L_prime]
      stay == List(DOMAIN QC \ gone)
  IN  [f EXCEPT !.QC = [k \in DOMAIN stay |-> QC[stay[k]]],
                !.c_start = Cardinality({j \in DOMAIN QC \ gone :
                                           j <= f.c_start}) + 1]

\* A frame has more to do: "i < C.size()", "c_start < Q_C.size()".
Unfinished(f) == IF f.mode = "set" THEN f.i <= Len(f.C)
                                   ELSE f.c_start <= Len(f.QC)
=============================================================================
