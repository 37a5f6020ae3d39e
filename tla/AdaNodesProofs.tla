--------------------------- MODULE AdaNodesProofs ---------------------------
(***************************************************************************)
(* Proofs about AdaNodes, for any graph, thresholds and value of NN that   *)
(* fits in a word: what an activation of biclique_find knows of its node,  *)
(* and that its steps share out what is to be found below it.              *)
(***************************************************************************)
EXTENDS AdaNodes, BicliquesProofs

\* What the finders work on: the graph of BiGraph, and bitsets within a word.
InputOK ==
  /\ IsGraph(graph_)
  /\ min_l_size_ \in Nat \ {0}
  /\ NN \in Nat /\ WordBits \in Nat /\ NN <= WordBits

----------------------------------------------------------------------------
(* Sorted lists.                                                           *)

\* What List, Sorted and AsMet give has a place for each element.
LEMMA ListForm ==
  ASSUME NEW n, NEW S, NEW s,
         s = [i \in 1 .. n |->
                CHOOSE x \in S : Cardinality({y \in S : y < x}) = i - 1]
  PROVE  s = [i \in 1 .. n |-> s[i]]
OBVIOUS

\* The same of Sorted.
LEMMA SortedForm ==
  ASSUME NEW n, NEW S, NEW s,
         s = [i \in 1 .. n |->
                CHOOSE x \in S :
                  Cardinality({y \in S : y.first < x.first}) = i - 1]
  PROVE  s = [i \in 1 .. n |-> s[i]]
OBVIOUS

\* The same of AsMet.
LEMMA AsMetForm ==
  ASSUME NEW n, NEW S, NEW ids, NEW s,
         s = [i \in 1 .. n |->
                CHOOSE x \in S :
                  Cardinality({y \in S : MetBefore(ids, y, x)}) = i - 1]
  PROVE  s = [i \in 1 .. n |-> s[i]]
OBVIOUS

\* List(S) lists S in increasing order.
LEMMA ListSorts ==
  ASSUME NEW S, S \subseteq Nat, IsFiniteSet(S)
  PROVE  /\ Lists(List(S), S)
         /\ \A i, j \in 1 .. Len(List(S)) : i < j => List(S)[i] < List(S)[j]
<1> DEFINE n == Cardinality(S)
           s == List(S)
           lt == {p \in S \X S : p[1] < p[2]}
<1>1. \A x \in S : x \in Int
  OBVIOUS
<1>2. \A x, y \in S : <<x, y>> \in lt <=> x < y
  OBVIOUS
<1>3. \A x \in S : {y \in S : <<y, x>> \in lt} = {y \in S : y < x}
  BY <1>2
<1>4. s = [i \in 1 .. n |->
             CHOOSE x \in S : Cardinality({y \in S : y < x}) = i - 1]
  BY DEF List, SortedBy
<1>0. n = Cardinality(S)
  OBVIOUS
<1> HIDE DEF n, s
<1>5. s = [i \in 1 .. n |-> s[i]]
  BY <1>4, ListForm DEF s
<1>6. \A i \in 1 .. n :
        (\E x \in S : Cardinality({y \in S : y < x}) = i - 1)
          => s[i] \in S /\ Cardinality({y \in S : y < s[i]}) = i - 1
  BY <1>4
<1>7. \A i \in 1 .. n :
        (\E x \in S : Cardinality({y \in S : <<y, x>> \in lt}) = i - 1)
          => /\ s[i] \in S
             /\ Cardinality({y \in S : <<y, s[i]>> \in lt}) = i - 1
  BY <1>3, <1>6
<1> HIDE DEF lt
<1>a. \A x \in S : <<x, x>> \notin lt
  BY <1>1, <1>2
<1>b. \A x, y \in S : x # y => <<x, y>> \in lt \/ <<y, x>> \in lt
  BY <1>1, <1>2
<1>c. \A x, y, z \in S : <<x, y>> \in lt /\ <<y, z>> \in lt => <<x, z>> \in lt
  BY <1>1, <1>2
<1>8. Lists(s, S) /\ Ascending(s, lt)
  BY <1>0, <1>5, <1>7, <1>a, <1>b, <1>c, InOrder
<1>9. \A i, j \in 1 .. Len(s) : i < j => <<s[i], s[j]>> \in lt
  BY <1>8 DEF Ascending
<1>10. \A i \in 1 .. Len(s) : s[i] \in S
  BY <1>8 DEF Lists
<1>11. \A i, j \in 1 .. Len(s) : i < j => s[i] < s[j]
  BY <1>2, <1>9, <1>10
<1> QED BY <1>8, <1>11 DEF s

\* Sorted(E) lists E in the order of the vertices.
LEMMA SortedSorts ==
  ASSUME NEW S, IsFiniteSet(S), \A x \in S : x.first \in Int,
         \A x, y \in S : x.first = y.first => x = y
  PROVE  /\ Lists(Sorted(S), S)
         /\ \A i, j \in 1 .. Len(Sorted(S)) :
              i < j => Sorted(S)[i].first < Sorted(S)[j].first
<1> DEFINE n == Cardinality(S)
           s == Sorted(S)
           lt == {p \in S \X S : p[1].first < p[2].first}
<1>1. \A x \in S : x.first \in Int
  OBVIOUS
<1>2. \A x, y \in S : <<x, y>> \in lt <=> x.first < y.first
  OBVIOUS
<1>3. \A x \in S : {y \in S : <<y, x>> \in lt} = {y \in S : y.first < x.first}
  BY <1>2
<1>4. s = [i \in 1 .. n |->
             CHOOSE x \in S : Cardinality({y \in S : y.first < x.first}) = i - 1]
  BY DEF Sorted, SortedBy, ByFirst
<1>0. n = Cardinality(S)
  OBVIOUS
<1> HIDE DEF n, s
<1>5. s = [i \in 1 .. n |-> s[i]]
  BY <1>4, SortedForm DEF s
<1>6. \A i \in 1 .. n :
        (\E x \in S : Cardinality({y \in S : y.first < x.first}) = i - 1)
          => /\ s[i] \in S
             /\ Cardinality({y \in S : y.first < s[i].first}) = i - 1
  BY <1>4
<1>7. \A i \in 1 .. n :
        (\E x \in S : Cardinality({y \in S : <<y, x>> \in lt}) = i - 1)
          => /\ s[i] \in S
             /\ Cardinality({y \in S : <<y, s[i]>> \in lt}) = i - 1
  BY <1>3, <1>6
<1> HIDE DEF lt
<1>a. \A x \in S : <<x, x>> \notin lt
  BY <1>1, <1>2
<1>b. \A x, y \in S : x # y => <<x, y>> \in lt \/ <<y, x>> \in lt
  BY <1>1, <1>2
<1>c. \A x, y, z \in S : <<x, y>> \in lt /\ <<y, z>> \in lt => <<x, z>> \in lt
  BY <1>1, <1>2
<1>8. Lists(s, S) /\ Ascending(s, lt)
  BY <1>0, <1>5, <1>7, <1>a, <1>b, <1>c, InOrder
<1>9. \A i, j \in 1 .. Len(s) : i < j => <<s[i], s[j]>> \in lt
  BY <1>8 DEF Ascending
<1>10. \A i \in 1 .. Len(s) : s[i] \in S
  BY <1>8 DEF Lists
<1>11. \A i, j \in 1 .. Len(s) : i < j => s[i].first < s[j].first
  BY <1>2, <1>9, <1>10
<1> QED BY <1>8, <1>11 DEF s

\* AsMet(ids, E) lists E.
LEMMA AsMetLists ==
  ASSUME NEW S, IsFiniteSet(S), \A x \in S : x.first \in Int,
         \A x, y \in S : x.first = y.first => x = y,
         NEW ids, \A x \in S : Min(Bits(ids, x.first)) \in Int
  PROVE  Lists(AsMet(ids, S), S)
<1> DEFINE n == Cardinality(S)
           s == AsMet(ids, S)
           lt == {p \in S \X S : MetBefore(ids, p[1], p[2])}
<1>1. \A x, y \in S : <<x, y>> \in lt <=> MetBefore(ids, x, y)
  OBVIOUS
<1>2. \A x \in S : {y \in S : <<y, x>> \in lt} = {y \in S : MetBefore(ids, y, x)}
  BY <1>1
<1>3. s = [i \in 1 .. n |->
             CHOOSE x \in S :
               Cardinality({y \in S : MetBefore(ids, y, x)}) = i - 1]
  BY DEF AsMet, SortedBy
<1>0. n = Cardinality(S)
  OBVIOUS
<1> HIDE DEF n, s
<1>4. s = [i \in 1 .. n |-> s[i]]
  BY <1>3, AsMetForm DEF s
<1>5. \A i \in 1 .. n :
        (\E x \in S : Cardinality({y \in S : MetBefore(ids, y, x)}) = i - 1)
          => /\ s[i] \in S
             /\ Cardinality({y \in S : MetBefore(ids, y, s[i])}) = i - 1
  BY <1>3
<1>6. \A i \in 1 .. n :
        (\E x \in S : Cardinality({y \in S : <<y, x>> \in lt}) = i - 1)
          => /\ s[i] \in S
             /\ Cardinality({y \in S : <<y, s[i]>> \in lt}) = i - 1
  BY <1>2, <1>5
<1> HIDE DEF lt
<1>7. \A x \in S : <<x, x>> \notin lt
  BY <1>1 DEF MetBefore
<1>8. \A x, y \in S : x # y => <<x, y>> \in lt \/ <<y, x>> \in lt
  BY <1>1 DEF MetBefore
<1>9. \A x, y, z \in S : <<x, y>> \in lt /\ <<y, z>> \in lt => <<x, z>> \in lt
  BY <1>1 DEF MetBefore
<1>10. Lists(s, S) /\ Ascending(s, lt)
  BY <1>0, <1>4, <1>6, <1>7, <1>8, <1>9, InOrder
<1> QED BY <1>10 DEF s

----------------------------------------------------------------------------
(* Bitsets.                                                                *)

\* Each vertex has one position.
Distinct(ids) ==
  /\ ids \in Seq(Nat)
  /\ \A i, j \in 1 .. Len(ids) : ids[i] = ids[j] => i = j

\* Bitsets over the positions and sets of the vertices correspond.
LEMMA Corresponds ==
  ASSUME NEW ids, Distinct(ids), NEW a, NEW b,
         a \subseteq Positions(ids), b \subseteq Positions(ids)
  PROVE  /\ Vertices(ids, a) \subseteq Range(ids)
         /\ a \subseteq b <=> Vertices(ids, a) \subseteq Vertices(ids, b)
         /\ a = b <=> Vertices(ids, a) = Vertices(ids, b)
         /\ Vertices(ids, a \cap b) = Vertices(ids, a) \cap Vertices(ids, b)
         /\ Vertices(ids, Positions(ids)) = Range(ids)
<1>1. Len(ids) \in Nat /\ DOMAIN ids = 1 .. Len(ids)
  BY LenProperties DEF Distinct
<1>2. \A p \in Positions(ids) : p + 1 \in 1 .. Len(ids) /\ p \in Nat
  BY <1>1 DEF Positions
<1>3. \A p, q \in Positions(ids) : ids[p + 1] = ids[q + 1] => p = q
  <2> TAKE p, q \in Positions(ids)
  <2>1. ids[p + 1] = ids[q + 1] => p + 1 = q + 1
    BY <1>2 DEF Distinct
  <2> QED BY <1>2, <2>1
<1>4. \A c : \A x : x \in Vertices(ids, c) <=> \E p \in c : x = ids[p + 1]
  BY DEF Vertices
<1>5. \A c \in SUBSET Positions(ids), p \in Positions(ids) :
        ids[p + 1] \in Vertices(ids, c) <=> p \in c
  BY <1>3, <1>4
<1>6. Vertices(ids, a) \subseteq Range(ids)
  BY <1>1, <1>2, <1>4 DEF Range
<1>7. a \subseteq b <=> Vertices(ids, a) \subseteq Vertices(ids, b)
  BY <1>4, <1>5
<1>8. a = b <=> Vertices(ids, a) = Vertices(ids, b)
  BY <1>5
<1>9. Vertices(ids, a \cap b) = Vertices(ids, a) \cap Vertices(ids, b)
  BY <1>4, <1>5
<1>10. Vertices(ids, Positions(ids)) = Range(ids)
  <2>1. \A i \in 1 .. Len(ids) : i - 1 \in Positions(ids) /\ (i - 1) + 1 = i
    BY <1>1 DEF Positions
  <2> QED BY <1>1, <1>2, <1>4, <2>1 DEF Range
<1> QED BY <1>6, <1>7, <1>8, <1>9, <1>10

\* A bitset counts its vertices.
LEMMA VertexCount ==
  ASSUME NEW ids, Distinct(ids), NEW a, a \subseteq Positions(ids)
  PROVE  IsFiniteSet(a) /\ Cardinality(Vertices(ids, a)) = Cardinality(a)
<1>1. Len(ids) \in Nat
  BY LenProperties DEF Distinct
<1>2. \A p \in Positions(ids) : p + 1 \in 1 .. Len(ids) /\ p \in Nat
  BY <1>1 DEF Positions
<1>3. \A p, q \in Positions(ids) : ids[p + 1] = ids[q + 1] => p = q
  <2> TAKE p, q \in Positions(ids)
  <2>1. ids[p + 1] = ids[q + 1] => p + 1 = q + 1
    BY <1>2 DEF Distinct
  <2> QED BY <1>2, <2>1
<1>4. IsFiniteSet(a)
  BY <1>1, Interval, FS_Subset DEF Positions
<1> DEFINE h == [p \in a |-> ids[p + 1]]
<1>5. h \in Bijection(a, Vertices(ids, a))
  BY <1>3, Fun_IsBij DEF Vertices
<1> QED BY <1>4, <1>5, FS_Bijection, Fun_ExistsBij

\* A vertex's bitset has its neighbors, and shifting 1LLU makes no difference
\* as long as the positions are within a word.
LEMMA BitsOfList ==
  ASSUME InputOK, NEW ids, Distinct(ids), NEW r,
         Range(ids) \cap graph_[r] # {}, Len(ids) <= NN
  PROVE  /\ ShiftedBits(ids, r) = Bits(ids, r)
         /\ Min(Bits(ids, r)) \in Bits(ids, r)
<1>1. Len(ids) \in Nat /\ DOMAIN ids = 1 .. Len(ids)
  BY LenProperties DEF Distinct
<1>2. Bits(ids, r) \subseteq Nat /\ Bits(ids, r) \subseteq 0 .. Len(ids) - 1
  BY <1>1 DEF Bits, Positions
<1>3. PICK i \in 1 .. Len(ids) : ids[i] \in graph_[r]
  BY <1>1 DEF Range
<1>4. i - 1 \in Positions(ids) /\ (i - 1) + 1 = i
  BY <1>1 DEF Positions
<1>5. Bits(ids, r) # {}
  BY <1>3, <1>4 DEF Bits
<1>6. Min(Bits(ids, r)) \in Bits(ids, r)
  BY <1>2, <1>5, MinOfNats
<1>7. Min(Bits(ids, r)) \in Nat /\ Min(Bits(ids, r)) < WordBits /\ WordBits \in Nat
  BY <1>1, <1>2, <1>6 DEF InputOK
<1>8. Min(Bits(ids, r)) % WordBits = Min(Bits(ids, r))
  BY <1>7
<1> QED BY <1>6, <1>8 DEF ShiftedBits

\* A bitset filled with set(li) has the neighbors of its vertex among the ids.
LEMMA BitsAreNeighbors ==
  ASSUME NEW ids, Distinct(ids), NEW r
  PROVE  /\ Bits(ids, r) \subseteq Positions(ids)
         /\ Vertices(ids, Bits(ids, r)) = Range(ids) \cap graph_[r]
<1>1. Len(ids) \in Nat /\ DOMAIN ids = 1 .. Len(ids)
  BY LenProperties DEF Distinct
<1>2. \A p \in Positions(ids) : p + 1 \in 1 .. Len(ids)
  BY <1>1 DEF Positions
<1>3. \A i \in 1 .. Len(ids) : i - 1 \in Positions(ids) /\ (i - 1) + 1 = i
  BY <1>1 DEF Positions
<1>4. \A x : x \in Vertices(ids, Bits(ids, r))
               <=> \E p \in Positions(ids) : x = ids[p + 1] /\ x \in graph_[r]
  BY DEF Vertices, Bits
<1>5. \A x : x \in Range(ids) <=> \E i \in 1 .. Len(ids) : x = ids[i]
  BY <1>1 DEF Range
<1>6. \A x : x \in Vertices(ids, Bits(ids, r)) <=> x \in Range(ids) \cap graph_[r]
  BY <1>2, <1>3, <1>4, <1>5
<1> QED BY <1>6 DEF Bits

----------------------------------------------------------------------------
(* Frames.                                                                 *)

\* The candidates of a set frame that are not done with, and of a bit frame.
Ahead(f) == {ci \in f.i .. Len(f.C) : f.C[ci].first >= 0}
SetRest(f) == {f.C[ci].first : ci \in Ahead(f)}
BitRest(f) == {f.QC[j].first : j \in f.c_start .. Len(f.QC)}
Rest(f) == IF f.mode = "set" THEN SetRest(f) ELSE BitRest(f)

\* The L side of a frame, which a bit frame has only by its bits.
LSide(f) == CommonL(graph_, f.R)

SetEntry == [first : DOMAIN graph_ \cup {-1}, L : SUBSET Nat]
BitEntry == [first : DOMAIN graph_, bs : SUBSET Nat]

\* The entry e is a candidate for extending R.
IsCandidate(L, R, e) ==
  /\ e.first \in DOMAIN graph_ \ R
  /\ e.L = L \cap graph_[e.first]
  /\ Cardinality(e.L) >= min_l_size_

\* An activation of biclique_find on vertex sets is at a maximal biclique, has
\* its candidates in order, and forgets nothing that could extend it.
SetFrame(f) ==
  /\ f \in [mode : {"set"}, L : SUBSET Nat, R : SUBSET DOMAIN graph_,
            C : Seq(SetEntry), i : Nat]
  /\ Node(graph_, f.L, f.R)
  /\ f.i \in 1 .. Len(f.C) + 1
  /\ \A ci \in Ahead(f) : IsCandidate(f.L, f.R, f.C[ci])
  /\ \A ci, cj \in Ahead(f) : ci < cj => f.C[ci].first < f.C[cj].first
  /\ Covered(graph_, min_l_size_, f.L, f.R, SetRest(f))

----------------------------------------------------------------------------
(* An activation on vertex sets.                                           *)

\* The graph's vertices are numbered from 0.
LEMMA VerticesBelow ==
  ASSUME InputOK
  PROVE  /\ DOMAIN graph_ \subseteq Nat
         /\ \A c \in DOMAIN graph_ : 0 .. c - 1 \subseteq DOMAIN graph_
         /\ FiniteLists(graph_) /\ \A r \in DOMAIN graph_ : graph_[r] \subseteq Nat
BY DEF InputOK, IsGraph, FiniteLists

\* The candidate is the first of the vertices that remain.
LEMMA SetUpNext ==
  ASSUME InputOK, NEW f, SetFrame(f), Unfinished(f), Candidate(f).first >= 0
  PROVE  /\ UpNext(graph_, min_l_size_, f.L, f.R, SetRest(f), Candidate(f).first)
         /\ Candidate(f).L = f.L \cap graph_[Candidate(f).first]
         /\ Candidate(f).first \in DOMAIN graph_ \ f.R
         /\ f.i \in Ahead(f)
<1> DEFINE c == Candidate(f).first
<1>1. /\ f.mode = "set" /\ f.C \in Seq(SetEntry) /\ f.i \in 1 .. Len(f.C) + 1
      /\ Node(graph_, f.L, f.R)
      /\ Covered(graph_, min_l_size_, f.L, f.R, SetRest(f))
  BY DEF SetFrame
<1>2. Len(f.C) \in Nat
  BY <1>1, LenProperties
<1>3. f.i \in 1 .. Len(f.C)
  BY <1>1, <1>2 DEF Unfinished
<1>4. f.i \in Ahead(f)
  BY <1>2, <1>3 DEF Ahead, Candidate
<1>5. IsCandidate(f.L, f.R, Candidate(f))
  BY <1>4 DEF SetFrame, Candidate
<1>6. c \in DOMAIN graph_ \ f.R /\ Candidate(f).L = f.L \cap graph_[c]
      /\ Cardinality(f.L \cap graph_[c]) >= min_l_size_
  BY <1>5 DEF IsCandidate
<1>7. \A ci \in Ahead(f) : ci \in f.i .. Len(f.C)
  BY DEF Ahead
<1>8. \A ci \in Ahead(f) : ci # f.i => c < f.C[ci].first
  BY <1>2, <1>3, <1>4, <1>7 DEF SetFrame, Candidate
<1>9. c \in SetRest(f)
  BY <1>4 DEF SetRest, Candidate
<1>10. \A s \in SetRest(f) \ {c} : c < s
  BY <1>8 DEF SetRest, Candidate
<1>11. SetRest(f) \subseteq DOMAIN graph_ \ f.R
  BY DEF SetRest, SetFrame, IsCandidate
<1>12. DOMAIN graph_ \subseteq Nat /\ FiniteLists(graph_)
       /\ min_l_size_ \in Nat \ {0}
  BY VerticesBelow DEF InputOK
<1> QED BY <1>1, <1>4, <1>6, <1>9, <1>10, <1>11, <1>12 DEF UpNext

\* What is left of a set frame without candidates: nothing.
LEMMA SetNoneLeft ==
  ASSUME NEW f, SetFrame(f), ~Unfinished(f)
  PROVE  SetRest(f) = {}
<1>1. f.C \in Seq(SetEntry) /\ f.i \in 1 .. Len(f.C) + 1 /\ f.mode = "set"
  BY DEF SetFrame
<1>2. Len(f.C) \in Nat
  BY <1>1, LenProperties
<1>3. Ahead(f) = {}
  BY <1>1, <1>2 DEF Ahead, Unfinished
<1> QED BY <1>3 DEF SetRest

\* The vertices of Q at the list's last vertex are those before the candidate,
\* not in R, that are adjacent to the whole list.
LEMMA MaximalIsNotHidden ==
  ASSUME InputOK, NEW f, SetFrame(f), Unfinished(f), Candidate(f).first >= 0
  PROVE  IsMaximal(f)
           <=> ~Hidden(graph_, f.R, Candidate(f).first, Candidate(f).L)
<1> DEFINE c == Candidate(f).first
           L_prime == Candidate(f).L
<1>1. UpNext(graph_, min_l_size_, f.L, f.R, SetRest(f), c)
      /\ L_prime = f.L \cap graph_[c] /\ c \in DOMAIN graph_
  BY SetUpNext
<1>2. IsFiniteSet(L_prime) /\ L_prime # {}
  BY <1>1, Finite
<1>3. L_prime \subseteq Nat
  BY <1>1 DEF SetFrame
<1>4. Max(L_prime) \in L_prime /\ \A x \in L_prime : x <= Max(L_prime)
  BY <1>2, <1>3, MaxOfNats
<1>5. \A r : r \in Q(f, Max(L_prime))
               <=> r \in 0 .. c - 1 /\ r \notin f.R /\ L_prime \subseteq graph_[r]
  BY <1>4 DEF Q
<1>6. \A r : r \in 0 .. c - 1 <=> r \in DOMAIN graph_ /\ r < c
  <2>1. DOMAIN graph_ \subseteq Nat /\ 0 .. c - 1 \subseteq DOMAIN graph_
    BY <1>1, VerticesBelow
  <2> QED BY <1>1, <2>1
<1> HIDE DEF c, L_prime
<1>7. Q(f, Max(L_prime)) = {} <=> ~Hidden(graph_, f.R, c, L_prime)
  BY <1>5, <1>6 DEF Hidden
<1> QED BY <1>7 DEF IsMaximal, c, L_prime

\* The frame g goes on where f is, with some of the candidates dropped.
GoesOn(f, g) ==
  /\ g \in [mode : {"set"}, L : SUBSET Nat, R : SUBSET DOMAIN graph_,
            C : Seq(SetEntry), i : Nat]
  /\ g.L = f.L /\ g.R = f.R /\ g.i = f.i + 1 /\ Len(g.C) = Len(f.C)
  /\ \A ci \in f.i + 1 .. Len(f.C) : g.C[ci].first >= 0 => g.C[ci] = f.C[ci]

\* It is a frame if nothing is forgotten.
LEMMA SetAdvance ==
  ASSUME NEW f, SetFrame(f), Unfinished(f), NEW g, GoesOn(f, g)
  PROVE  /\ Ahead(g) \subseteq Ahead(f) \ {f.i}
         /\ \A ci \in Ahead(g) : g.C[ci] = f.C[ci]
         /\ SetRest(g) = {f.C[ci].first : ci \in Ahead(g)}
         /\ Covered(graph_, min_l_size_, f.L, f.R, SetRest(g)) => SetFrame(g)
<1>1. /\ f.i \in 1 .. Len(f.C) + 1 /\ f.C \in Seq(SetEntry) /\ f.mode = "set"
      /\ Node(graph_, f.L, f.R)
  BY DEF SetFrame
<1>2. Len(f.C) \in Nat /\ f.i \in 1 .. Len(f.C)
  BY <1>1, LenProperties DEF Unfinished
<1>3. g.L = f.L /\ g.R = f.R /\ g.i = f.i + 1 /\ Len(g.C) = Len(f.C)
  BY DEF GoesOn
<1>4. \A ci \in Ahead(g) : ci \in f.i + 1 .. Len(f.C) /\ g.C[ci].first >= 0
  BY <1>3 DEF Ahead
<1>5. \A ci \in Ahead(g) : g.C[ci] = f.C[ci]
  BY <1>4 DEF GoesOn
<1>6. \A ci \in Ahead(g) : ci \in Ahead(f) /\ ci # f.i
  BY <1>2, <1>4, <1>5 DEF Ahead
<1>7. SetRest(g) = {f.C[ci].first : ci \in Ahead(g)}
  BY <1>5 DEF SetRest
<1>8. g.i \in 1 .. Len(g.C) + 1
  BY <1>2, <1>3
<1>9. \A ci \in Ahead(g) : IsCandidate(g.L, g.R, g.C[ci])
  BY <1>3, <1>5, <1>6 DEF SetFrame
<1>10. \A ci, cj \in Ahead(g) : ci < cj => g.C[ci].first < g.C[cj].first
  BY <1>5, <1>6 DEF SetFrame
<1>11. ASSUME Covered(graph_, min_l_size_, f.L, f.R, SetRest(g))
       PROVE  SetFrame(g)
  BY <1>1, <1>3, <1>8, <1>9, <1>10, <1>11 DEF SetFrame, GoesOn
<1> QED BY <1>5, <1>6, <1>7, <1>11

\* A candidate that is done with already is passed over.
LEMMA SetSkip ==
  ASSUME NEW f, SetFrame(f), Unfinished(f), ~(Candidate(f).first >= 0)
  PROVE  LET g == [f EXCEPT !.i = @ + 1]
         IN  SetFrame(g) /\ g.R = f.R /\ SetRest(g) = SetRest(f)
<1> DEFINE g == [f EXCEPT !.i = @ + 1]
<1>1. /\ f \in [mode : {"set"}, L : SUBSET Nat, R : SUBSET DOMAIN graph_,
                C : Seq(SetEntry), i : Nat]
      /\ Covered(graph_, min_l_size_, f.L, f.R, SetRest(f))
  BY DEF SetFrame
<1>2. /\ g \in [mode : {"set"}, L : SUBSET Nat, R : SUBSET DOMAIN graph_,
                C : Seq(SetEntry), i : Nat]
      /\ g.L = f.L /\ g.R = f.R /\ g.i = f.i + 1 /\ g.C = f.C
  BY <1>1
<1> HIDE DEF g
<1>3. GoesOn(f, g)
  BY <1>2 DEF GoesOn
<1>4. Len(f.C) \in Nat /\ f.i \in Nat
  BY <1>1, LenProperties
<1>5. Ahead(g) = Ahead(f)
  BY <1>2, <1>4 DEF Ahead, Candidate
<1>6. SetRest(g) = SetRest(f)
  BY <1>2, <1>5 DEF SetRest
<1> QED BY <1>1, <1>2, <1>3, <1>6, SetAdvance DEF g

\* What is left of a frame whose candidate is done with and what goes with it.
LEMMA SetRemains ==
  ASSUME InputOK, NEW f, SetFrame(f), Unfinished(f), Candidate(f).first >= 0,
         NEW g, GoesOn(f, g),
         \A ci \in Ahead(f) : ci # f.i /\ ci \notin Ahead(g) =>
           f.C[ci].L \subseteq Candidate(f).L
  PROVE  /\ SetFrame(g)
         /\ Remains(graph_, f.L, f.R, SetRest(f), Candidate(f).first, SetRest(g))
<1> DEFINE c == Candidate(f).first
<1>1. /\ UpNext(graph_, min_l_size_, f.L, f.R, SetRest(f), c)
      /\ Candidate(f).L = f.L \cap graph_[c]
  BY SetUpNext
<1>2. /\ Ahead(g) \subseteq Ahead(f) \ {f.i}
      /\ SetRest(g) = {f.C[ci].first : ci \in Ahead(g)}
      /\ Covered(graph_, min_l_size_, f.L, f.R, SetRest(g)) => SetFrame(g)
  BY SetAdvance
<1>3. \A ci, cj \in Ahead(f) : f.C[ci].first = f.C[cj].first => ci = cj
  <2>1. \A ci \in Ahead(f) : ci \in Int /\ f.C[ci].first \in Int
    BY VerticesBelow DEF Ahead, SetFrame, IsCandidate
  <2>2. \A ci, cj \in Ahead(f) : ci < cj => f.C[ci].first < f.C[cj].first
    BY DEF SetFrame
  <2> QED BY <2>1, <2>2
<1>4. f.i \in Ahead(f)
  BY SetUpNext
<1>5. SetRest(g) \subseteq SetRest(f) \ {c}
  BY <1>2, <1>3, <1>4 DEF SetRest, Candidate
<1>6. ASSUME NEW r \in SetRest(f) \ SetRest(g)
      PROVE  f.L \cap graph_[r] \subseteq graph_[c]
  <2>1. PICK ci \in Ahead(f) : r = f.C[ci].first
    BY DEF SetRest
  <2>2. ci \notin Ahead(g)
    BY <1>2, <2>1
  <2>3. f.C[ci].L = f.L \cap graph_[r]
    BY <2>1 DEF SetFrame, IsCandidate
  <2> QED BY <1>1, <2>2, <2>3 DEF Candidate
<1>7. Remains(graph_, f.L, f.R, SetRest(f), c, SetRest(g))
  BY <1>5, <1>6 DEF Remains
<1> QED BY <1>1, <1>2, <1>7, RemainsCovered

\* The candidate alone is done with.
LEMMA SetPast ==
  ASSUME InputOK, NEW f, SetFrame(f), Unfinished(f), Candidate(f).first >= 0
  PROVE  LET g == [f EXCEPT !.i = @ + 1]
         IN  /\ SetFrame(g) /\ g.R = f.R
             /\ Remains(graph_, f.L, f.R, SetRest(f), Candidate(f).first,
                        SetRest(g))
<1> DEFINE g == [f EXCEPT !.i = @ + 1]
<1>1. f \in [mode : {"set"}, L : SUBSET Nat, R : SUBSET DOMAIN graph_,
             C : Seq(SetEntry), i : Nat]
  BY DEF SetFrame
<1>2. /\ g \in [mode : {"set"}, L : SUBSET Nat, R : SUBSET DOMAIN graph_,
                C : Seq(SetEntry), i : Nat]
      /\ g.L = f.L /\ g.R = f.R /\ g.i = f.i + 1 /\ g.C = f.C
  BY <1>1
<1> HIDE DEF g
<1>3. GoesOn(f, g)
  BY <1>2 DEF GoesOn
<1>4. Len(f.C) \in Nat /\ f.i \in Nat
  BY <1>1, LenProperties
<1>5. \A ci \in Ahead(f) : ci # f.i => ci \in Ahead(g)
  BY <1>2, <1>4 DEF Ahead
<1> QED BY <1>2, <1>3, <1>5, SetRemains DEF g

\* A large candidate is done with, and the candidates inside it with it.
LEMMA SetConsumed ==
  ASSUME InputOK, NEW f, SetFrame(f), Unfinished(f), Candidate(f).first >= 0
  PROVE  LET g == Consumed(f)
         IN  /\ SetFrame(g) /\ g.R = f.R
             /\ Remains(graph_, f.L, f.R, SetRest(f), Candidate(f).first,
                        SetRest(g))
<1> DEFINE g == Consumed(f)
           gone(ci) == ci >= f.i /\ f.C[ci].L \subseteq Candidate(f).L
           C2 == [ci \in DOMAIN f.C |-> IF gone(ci) THEN Dropped ELSE f.C[ci]]
<1>1. f \in [mode : {"set"}, L : SUBSET Nat, R : SUBSET DOMAIN graph_,
             C : Seq(SetEntry), i : Nat]
  BY DEF SetFrame
<1>2. g = [f EXCEPT !.i = @ + 1, !.C = C2]
  BY <1>1 DEF Consumed
<1>3. Len(f.C) \in Nat /\ DOMAIN f.C = 1 .. Len(f.C) /\ f.i \in Nat
      /\ f.C \in [1 .. Len(f.C) -> SetEntry]
  BY <1>1, LenProperties
<1>4. Dropped \in SetEntry /\ ~(Dropped.first >= 0)
  BY DEF Dropped, SetEntry
<1>5. C2 \in [1 .. Len(f.C) -> SetEntry]
  BY <1>3, <1>4
<1>6. C2 \in Seq(SetEntry) /\ Len(C2) = Len(f.C)
  BY <1>3, <1>5, IsSequence
<1>7. \A ci \in 1 .. Len(f.C) : C2[ci] = IF gone(ci) THEN Dropped ELSE f.C[ci]
  BY <1>3
<1> HIDE DEF C2, g
<1>8. /\ g \in [mode : {"set"}, L : SUBSET Nat, R : SUBSET DOMAIN graph_,
                C : Seq(SetEntry), i : Nat]
      /\ g.L = f.L /\ g.R = f.R /\ g.i = f.i + 1 /\ g.C = C2
  <2>1. C2 \in Seq(SetEntry) /\ f.i + 1 \in Nat
    BY <1>3, <1>6
  <2>2. g = [f EXCEPT !.i = f.i + 1, !.C = C2]
    BY <1>2
  <2> QED BY <1>1, <2>1, <2>2
<1>9. \A ci \in f.i + 1 .. Len(f.C) : ci \in 1 .. Len(f.C)
  BY <1>3
<1>10. GoesOn(f, g)
  BY <1>4, <1>6, <1>7, <1>8, <1>9 DEF GoesOn
<1>11. \A ci \in Ahead(f) : ci # f.i /\ ci \notin Ahead(g) =>
         f.C[ci].L \subseteq Candidate(f).L
  <2> TAKE ci \in Ahead(f)
  <2> HAVE ci # f.i /\ ci \notin Ahead(g)
  <2>1. ci \in f.i .. Len(f.C) /\ f.C[ci].first >= 0 /\ f.i \in 1 .. Len(f.C) + 1
    BY DEF Ahead, SetFrame
  <2>2. ci \in 1 .. Len(f.C) /\ ci \in f.i + 1 .. Len(f.C)
    BY <1>3, <2>1
  <2>3. ~(C2[ci].first >= 0)
    BY <1>6, <1>8, <2>2 DEF Ahead
  <2> QED BY <1>7, <2>1, <2>2, <2>3
<1> QED BY <1>8, <1>10, <1>11, SetRemains DEF g

\* One entry for each of some vertices: sorted, they are a list in the order of
\* the vertices.
LEMMA SortedEntries ==
  ASSUME InputOK, NEW E, \A e \in E : e.first \in DOMAIN graph_,
         \A d, e \in E : d.first = e.first => d = e
  PROVE  /\ IsFiniteSet(E) /\ Lists(Sorted(E), E)
         /\ Sorted(E) \in Seq(E) /\ Len(Sorted(E)) = Cardinality(E)
         /\ \A i \in 1 .. Len(Sorted(E)) : Sorted(E)[i] \in E
         /\ \A e \in E : \E i \in 1 .. Len(Sorted(E)) : Sorted(E)[i] = e
         /\ \A i, j \in 1 .. Len(Sorted(E)) :
              i < j => Sorted(E)[i].first < Sorted(E)[j].first
<1> DEFINE h == [e \in E |-> e.first]
<1>1. h \in Injection(E, DOMAIN graph_)
  <2>1. h \in [E -> DOMAIN graph_]
    OBVIOUS
  <2>2. \A d, e \in E : h[d] = h[e] => d = e
    OBVIOUS
  <2> QED BY <2>1, <2>2, Fun_IsInj
<1>2. IsFiniteSet(DOMAIN graph_)
  <2>1. PICK n \in Nat : DOMAIN graph_ = 0 .. n - 1
    BY DEF InputOK, IsGraph
  <2> QED BY <2>1, Interval
<1>3. IsFiniteSet(E)
  BY <1>1, <1>2, FS_Injection
<1>4. \A e \in E : e.first \in Int
  BY VerticesBelow
<1>5. /\ Lists(Sorted(E), E)
      /\ \A i, j \in 1 .. Len(Sorted(E)) :
           i < j => Sorted(E)[i].first < Sorted(E)[j].first
  BY <1>3, <1>4, SortedSorts
<1>6. \A i \in 1 .. Len(Sorted(E)) : Sorted(E)[i] \in E
  BY <1>5, ElementOfSeq DEF Lists
<1> QED BY <1>3, <1>5, <1>6 DEF Lists

\* The new activation on the candidates E.
LEMMA NewSetFrame ==
  ASSUME InputOK, NEW L, L \subseteq Nat, NEW R, R \subseteq DOMAIN graph_,
         Node(graph_, L, R),
         NEW E, E \subseteq SetEntry, \A e \in E : IsCandidate(L, R, e),
         Covered(graph_, min_l_size_, L, R, {e.first : e \in E}),
         NEW f, f = [mode |-> "set", L |-> L, R |-> R, C |-> Sorted(E), i |-> 1]
  PROVE  SetFrame(f) /\ SetRest(f) = {e.first : e \in E}
<1>1. \A e \in E : /\ e.first \in DOMAIN graph_ /\ e.first \in Nat
                   /\ e = [first |-> e.first, L |-> L \cap graph_[e.first]]
  BY VerticesBelow DEF IsCandidate, SetEntry
<1>2. \A d, e \in E : d.first = e.first => d = e
  BY <1>1
<1>3. /\ Sorted(E) \in Seq(E)
      /\ \A i \in 1 .. Len(Sorted(E)) : Sorted(E)[i] \in E
      /\ \A e \in E : \E i \in 1 .. Len(Sorted(E)) : Sorted(E)[i] = e
      /\ \A i, j \in 1 .. Len(Sorted(E)) :
           i < j => Sorted(E)[i].first < Sorted(E)[j].first
  BY <1>1, <1>2, SortedEntries
<1>4. Sorted(E) \in Seq(SetEntry) /\ Len(Sorted(E)) \in Nat
  BY <1>3, SeqMonotonic, LenProperties
<1> DEFINE C == Sorted(E)
<1> HIDE DEF C
<1>5. /\ f \in [mode : {"set"}, L : SUBSET Nat, R : SUBSET DOMAIN graph_,
                C : Seq(SetEntry), i : Nat]
      /\ f.L = L /\ f.R = R /\ f.C = C /\ f.i = 1
  BY <1>4 DEF C
<1>6. Ahead(f) = 1 .. Len(C)
  BY <1>1, <1>3, <1>5 DEF Ahead, C
<1>7. f.i \in 1 .. Len(f.C) + 1
  BY <1>4, <1>5 DEF C
<1>8. \A ci \in Ahead(f) : IsCandidate(f.L, f.R, f.C[ci])
  BY <1>3, <1>5, <1>6 DEF C
<1>9. \A ci, cj \in Ahead(f) : ci < cj => f.C[ci].first < f.C[cj].first
  BY <1>3, <1>5, <1>6 DEF C
<1>10. SetRest(f) = {e.first : e \in E}
  BY <1>3, <1>5, <1>6 DEF SetRest, C
<1> QED BY <1>5, <1>7, <1>8, <1>9, <1>10 DEF SetFrame

\* The candidates after the current one.
LEMMA LiveAhead ==
  ASSUME InputOK, NEW f, SetFrame(f), Unfinished(f), Candidate(f).first >= 0
  PROVE  Live(f) = Ahead(f) \ {f.i}
<1>1. f.i \in Nat /\ Len(f.C) \in Nat
  BY LenProperties DEF SetFrame
<1> QED BY <1>1 DEF Live, Ahead

\* A candidate whose list ends before last_l has a vertex of Q in common there.
LEMMA EndsBeforeLast ==
  ASSUME InputOK, NEW f, SetFrame(f), Unfinished(f), Candidate(f).first >= 0,
         IsMaximal(f), NEW S, S \subseteq Candidate(f).L, S # {},
         ~(Max(S) >= last_l(f))
  PROVE  Hidden(graph_, f.R, Candidate(f).first, S)
<1> DEFINE c == Candidate(f).first
           L_prime == Candidate(f).L
           Empty == {l \in L_prime : Q(f, l) = {}}
<1>1. UpNext(graph_, min_l_size_, f.L, f.R, SetRest(f), c)
      /\ L_prime = f.L \cap graph_[c] /\ c \in DOMAIN graph_
  BY SetUpNext
<1>2. IsFiniteSet(L_prime) /\ L_prime # {}
  BY <1>1, Finite
<1>3. L_prime \subseteq Nat
  BY <1>1 DEF SetFrame
<1>4. Max(L_prime) \in L_prime
  BY <1>2, <1>3, MaxOfNats
<1>5. Max(L_prime) \in Empty
  BY <1>4 DEF IsMaximal
<1>6. Min(Empty) \in Empty /\ \A y \in Empty : Min(Empty) <= y
  <2>1. Empty \subseteq Nat /\ Empty # {}
    BY <1>3, <1>5
  <2> HIDE DEF Empty
  <2> QED BY <2>1, MinOfNats
<1>7. IsFiniteSet(S) /\ S \subseteq Nat
  BY <1>2, <1>3, FS_Subset
<1>8. Max(S) \in S /\ \A y \in S : y <= Max(S)
  BY <1>7, MaxOfNats
<1>9. last_l(f) = Min(Empty)
  <2>1. Max(S) \in Nat
    BY <1>7, <1>8
  <2> QED BY <2>1 DEF last_l
<1>10. Max(S) \notin Empty
  <2>1. Max(S) \in Nat /\ Min(Empty) \in Nat
    BY <1>3, <1>6, <1>7, <1>8
  <2> QED BY <1>6, <1>9, <2>1
<1>11. Q(f, Max(S)) # {}
  BY <1>8, <1>10
<1>12. PICK r \in 0 .. c - 1 :
         r \notin f.R /\ \A x \in L_prime : x <= Max(S) => x \in graph_[r]
  BY <1>11 DEF Q
<1>13. S \subseteq graph_[r]
  BY <1>8, <1>12
<1>14. r \in DOMAIN graph_ /\ r < c
  <2>1. 0 .. c - 1 \subseteq DOMAIN graph_ /\ c \in Nat
    BY <1>1, VerticesBelow
  <2> QED BY <2>1
<1> QED BY <1>12, <1>13, <1>14 DEF Hidden

\* The activation for a large maximal candidate inherits the candidates.
LEMMA SetChildFrame ==
  ASSUME InputOK, NEW f, SetFrame(f), Unfinished(f), Candidate(f).first >= 0,
         IsMaximal(f)
  PROVE  LET h == SetChild(f)
             c == Candidate(f).first
         IN  /\ SetFrame(h)
             /\ h.L = f.L \cap graph_[c]
             /\ h.R = f.R \cup {r \in SetRest(f) : f.L \cap graph_[c] \subseteq graph_[r]}
             /\ Inherited(graph_, min_l_size_, f.L, f.R, SetRest(f), c, SetRest(h))
<1> DEFINE h == SetChild(f)
           c == Candidate(f).first
           L_prime == f.L \cap graph_[c]
           R_prime == f.R \cup {r \in SetRest(f) : L_prime \subseteq graph_[r]}
           full == {ci \in Live(f) : Overlap(f, ci) = L_prime}
           kept == {ci \in Live(f) \ full :
                      /\ Cardinality(Overlap(f, ci)) >= min_l_size_
                      /\ Max(Overlap(f, ci)) >= last_l(f)}
           E == {[first |-> f.C[ci].first, L |-> Overlap(f, ci)] : ci \in kept}
           Rest_prime == {e.first : e \in E}
<1>1. /\ UpNext(graph_, min_l_size_, f.L, f.R, SetRest(f), c)
      /\ Candidate(f).L = L_prime /\ c \in DOMAIN graph_ \ f.R /\ f.i \in Ahead(f)
  BY SetUpNext
<1>2. ~Hidden(graph_, f.R, c, L_prime)
  BY <1>1, MaximalIsNotHidden
<1>3. Live(f) = Ahead(f) \ {f.i}
  BY LiveAhead
<1>4. \A ci \in Ahead(f) : /\ f.C[ci].first \in DOMAIN graph_ \ f.R
                           /\ f.C[ci].first \in SetRest(f)
                           /\ Overlap(f, ci) = L_prime \cap graph_[f.C[ci].first]
  BY <1>1 DEF SetFrame, IsCandidate, SetRest, Overlap
<1>5. f.R \cup {c} \cup {f.C[ci].first : ci \in full} = R_prime
  <2>1. \A r \in SetRest(f) : \E ci \in Ahead(f) : r = f.C[ci].first
    BY DEF SetRest
  <2>2. ASSUME NEW r \in R_prime, r \notin f.R, r # c
        PROVE  r \in {f.C[ci].first : ci \in full}
    <3>1. PICK ci \in Ahead(f) : r = f.C[ci].first
      BY <2>1, <2>2
    <3>2. ci \in Live(f)
      BY <1>3, <2>2, <3>1 DEF Candidate
    <3>3. Overlap(f, ci) = L_prime
      BY <1>4, <2>2, <3>1
    <3> QED BY <3>1, <3>2, <3>3
  <2>3. c \in R_prime
    BY <1>1, <1>4 DEF Candidate
  <2>4. ASSUME NEW ci \in full PROVE f.C[ci].first \in R_prime
    BY <1>3, <1>4
  <2> QED BY <2>2, <2>3, <2>4
<1>6. h = [mode |-> "set", L |-> L_prime, R |-> R_prime, C |-> Sorted(E), i |-> 1]
  <2>1. h = [mode |-> "set", L |-> L_prime,
             R |-> f.R \cup {c} \cup {f.C[ci].first : ci \in full},
             C |-> Sorted(E), i |-> 1]
    BY <1>1 DEF SetChild
  <2> HIDE DEF h, E, full, R_prime
  <2> QED BY <1>5, <2>1
<1>7. \A ci \in kept : /\ ci \in Ahead(f) /\ Overlap(f, ci) # L_prime
                       /\ Cardinality(Overlap(f, ci)) >= min_l_size_
  BY <1>3
<1>8. L_prime \subseteq Nat /\ R_prime \subseteq DOMAIN graph_
  BY <1>4, <1>5, <1>1, <1>3 DEF SetFrame, SetRest
<1>9. Node(graph_, L_prime, R_prime)
  BY <1>1, <1>2, Child
<1>10. \A ci \in kept : ~(L_prime \subseteq graph_[f.C[ci].first])
  BY <1>4, <1>7
<1> HIDE DEF h, kept
<1>11. E \subseteq SetEntry
  BY <1>4, <1>7, <1>8 DEF SetEntry
<1>12. \A e \in E : IsCandidate(L_prime, R_prime, e)
  <2> TAKE e \in E
  <2>1. PICK ci \in kept :
          e = [first |-> f.C[ci].first, L |-> Overlap(f, ci)]
    OBVIOUS
  <2>2. e.first = f.C[ci].first /\ e.L = L_prime \cap graph_[e.first]
        /\ Cardinality(e.L) >= min_l_size_
    BY <1>4, <1>7, <2>1
  <2>3. e.first \in DOMAIN graph_ \ R_prime
    BY <1>4, <1>7, <1>10, <2>2
  <2> QED BY <2>2, <2>3 DEF IsCandidate
<1>13. \A r : r \in Rest_prime <=> \E ci \in kept : r = f.C[ci].first
  <2>1. ASSUME NEW r \in Rest_prime PROVE \E ci \in kept : r = f.C[ci].first
    OBVIOUS
  <2>2. ASSUME NEW ci \in kept PROVE f.C[ci].first \in Rest_prime
    <3>1. [first |-> f.C[ci].first, L |-> Overlap(f, ci)] \in E
      OBVIOUS
    <3>2. [first |-> f.C[ci].first, L |-> Overlap(f, ci)].first = f.C[ci].first
      OBVIOUS
    <3> HIDE DEF E
    <3> QED BY <3>1, <3>2
  <2> HIDE DEF Rest_prime
  <2> QED BY <2>1, <2>2
<1> HIDE DEF E
<1>14. Rest_prime \subseteq {r \in SetRest(f) : ~(L_prime \subseteq graph_[r])}
  BY <1>4, <1>7, <1>10, <1>13
<1>15. ASSUME NEW r \in SetRest(f),
              Cardinality(L_prime \cap graph_[r]) >= min_l_size_,
              ~(L_prime \subseteq graph_[r]), r \notin Rest_prime
       PROVE  Hidden(graph_, f.R, c, L_prime \cap graph_[r])
  <2>1. PICK ci \in Ahead(f) : r = f.C[ci].first
    BY DEF SetRest
  <2>2. ci # f.i
    BY <1>15, <2>1 DEF Candidate
  <2>3. Overlap(f, ci) = L_prime \cap graph_[r]
    BY <1>4, <2>1
  <2>4. ci \in Live(f) \ full
    BY <1>3, <1>15, <2>1, <2>2, <2>3
  <2>5. ~(Max(L_prime \cap graph_[r]) >= last_l(f))
    BY <1>13, <1>15, <2>1, <2>3, <2>4 DEF kept
  <2>6. L_prime \cap graph_[r] # {}
    <3>1. IsFiniteSet(L_prime) /\ min_l_size_ \in Nat \ {0}
      BY <1>1, Finite DEF InputOK
    <3>2. IsFiniteSet(L_prime \cap graph_[r])
      BY <3>1, FS_Intersection
    <3> QED BY <1>15, <3>1, <3>2, Inhabited
  <2> QED BY <1>1, <2>5, <2>6, EndsBeforeLast
<1>16. Inherited(graph_, min_l_size_, f.L, f.R, SetRest(f), c, Rest_prime)
  BY <1>14, <1>15 DEF Inherited
<1>17. Covered(graph_, min_l_size_, L_prime, R_prime, Rest_prime)
  BY <1>1, <1>2, <1>16, ChildCovered
<1>18. SetFrame(h) /\ SetRest(h) = Rest_prime
  BY <1>6, <1>8, <1>9, <1>11, <1>12, <1>17, NewSetFrame
<1>19. h.L = L_prime /\ h.R = R_prime
  BY <1>6
<1> QED BY <1>16, <1>18, <1>19 DEF h

\* A vertex that is expanded and the vertices adjacent to its whole list.
LEMMA RootSides ==
  ASSUME InputOK, Ordered(graph_), NEW v \in DOMAIN graph_,
         ~Passed(graph_, min_l_size_, v)
  PROVE  /\ Node(graph_, graph_[v], CommonR(graph_, graph_[v]))
         /\ v \in CommonR(graph_, graph_[v])
         /\ \A r \in CommonR(graph_, graph_[v]) : v <= r
         /\ graph_[v] \subseteq Nat /\ IsFiniteSet(graph_[v]) /\ graph_[v] # {}
         /\ \A r \in DOMAIN graph_ :
              Cardinality(graph_[v] \cap graph_[r]) >= min_l_size_
                => graph_[v] \cap graph_[r] # {}
         /\ CommonR(graph_, graph_[v])
              = {r \in DOMAIN graph_ : graph_[v] \subseteq graph_[r]}
<1>1. /\ Node(graph_, graph_[v], CommonR(graph_, graph_[v]))
      /\ v \in CommonR(graph_, graph_[v])
      /\ \A r \in CommonR(graph_, graph_[v]) : v <= r
  BY Root DEF InputOK
<1>2. graph_[v] \subseteq Nat /\ IsFiniteSet(graph_[v])
  BY VerticesBelow DEF FiniteLists
<1>3. graph_[v] # {}
  BY <1>1 DEF Node, Closed
<1>4. ASSUME NEW r \in DOMAIN graph_,
             Cardinality(graph_[v] \cap graph_[r]) >= min_l_size_
      PROVE  graph_[v] \cap graph_[r] # {}
  <2>1. IsFiniteSet(graph_[v] \cap graph_[r]) /\ min_l_size_ \in Nat \ {0}
    BY <1>2, FS_Intersection DEF InputOK
  <2> QED BY <1>4, <2>1, Inhabited
<1> QED BY <1>1, <1>2, <1>3, <1>4 DEF CommonR

\* E has what each of the vertices S has in common with L, if it is enough.
InCommon(E, S, L) ==
  /\ \A e \in E : /\ e = [first |-> e.first, L |-> e.L] /\ e.first \in S
                  /\ e.L = L \cap graph_[e.first]
                  /\ Cardinality(e.L) >= min_l_size_
  /\ \A r \in S : Cardinality(L \cap graph_[r]) >= min_l_size_ =>
       \E e \in E : e.first = r

\* That is how the lists of candidates are made.
LEMMA EnoughInCommon ==
  ASSUME NEW S, NEW L, NEW E,
         E = {c \in {[first |-> r, L |-> L \cap graph_[r]] : r \in S} :
                Cardinality(c.L) >= min_l_size_}
  PROVE  InCommon(E, S, L)
<1> DEFINE Entry(r) == [first |-> r, L |-> L \cap graph_[r]]
<1>1. \A r : Entry(r).first = r /\ Entry(r).L = L \cap graph_[r]
             /\ Entry(r) = [first |-> Entry(r).first, L |-> Entry(r).L]
  OBVIOUS
<1> HIDE DEF Entry
<1>2. E = {c \in {Entry(r) : r \in S} : Cardinality(c.L) >= min_l_size_}
  BY DEF Entry
<1>3. ASSUME NEW e \in E
      PROVE  /\ e = [first |-> e.first, L |-> e.L] /\ e.first \in S
             /\ e.L = L \cap graph_[e.first]
             /\ Cardinality(e.L) >= min_l_size_
  <2>1. PICK r \in S : e = Entry(r)
    BY <1>2
  <2> QED BY <1>1, <1>2, <2>1
<1>4. ASSUME NEW r \in S, Cardinality(L \cap graph_[r]) >= min_l_size_
      PROVE  \E e \in E : e.first = r
  <2>1. Entry(r) \in E
    BY <1>1, <1>2, <1>4
  <2> QED BY <1>1, <2>1
<1> QED BY <1>3, <1>4 DEF InCommon

\* The activation for a large vertex.
LEMMA SetRootFrame ==
  ASSUME InputOK, Ordered(graph_), NEW v \in DOMAIN graph_,
         ~Passed(graph_, min_l_size_, v)
  PROVE  LET f == SetRoot(v)
         IN  /\ SetFrame(f)
             /\ f.L = graph_[v] /\ f.R = CommonR(graph_, graph_[v])
             /\ RootRest(graph_, min_l_size_, v, SetRest(f))
<1> DEFINE f == SetRoot(v)
           L == graph_[v]
           R == CommonR(graph_, L)
           full == {r \in After(v) : L \subseteq graph_[r]}
           C == {[first |-> r, L |-> L \cap graph_[r]] : r \in After(v) \ full}
           E == {c \in C : Cardinality(c.L) >= min_l_size_}
           Rest_v == {e.first : e \in E}
<1>1. /\ Node(graph_, L, R) /\ v \in R /\ L \subseteq Nat /\ L # {}
      /\ \A r \in R : v <= r
      /\ \A r \in DOMAIN graph_ :
              Cardinality(L \cap graph_[r]) >= min_l_size_ => L \cap graph_[r] # {}
      /\ R = {r \in DOMAIN graph_ : L \subseteq graph_[r]}
  BY RootSides
<1>2. \A r : r \in After(v) <=> r \in DOMAIN graph_ /\ r > v /\ L \cap graph_[r] # {}
  BY DEF After
<1>3. {v} \cup full = R
  <2>1. \A r \in DOMAIN graph_ : r \in Nat
    BY VerticesBelow
  <2>2. \A r \in R : r # v => r \in full
    BY <1>1, <1>2, <2>1
  <2>3. \A r \in full : r \in R
    BY <1>1, <1>2
  <2> QED BY <1>1, <2>2, <2>3
<1>4. f = [mode |-> "set", L |-> L, R |-> R, C |-> Sorted(E), i |-> 1]
  <2>1. f = [mode |-> "set", L |-> L, R |-> {v} \cup full, C |-> Sorted(E), i |-> 1]
    BY DEF SetRoot
  <2> HIDE DEF f, E, full, R
  <2> QED BY <1>3, <2>1
<1>a. InCommon(E, After(v) \ full, L)
  <2>1. E = {c \in {[first |-> r, L |-> L \cap graph_[r]] : r \in After(v) \ full} :
               Cardinality(c.L) >= min_l_size_}
    OBVIOUS
  <2> HIDE DEF E, L, full
  <2> QED BY <2>1, EnoughInCommon
<1>5. /\ \A e \in E : /\ e = [first |-> e.first, L |-> e.L]
                      /\ e.first \in After(v) \ full
                      /\ e.L = L \cap graph_[e.first]
                      /\ Cardinality(e.L) >= min_l_size_
      /\ \A r \in After(v) \ full : Cardinality(L \cap graph_[r]) >= min_l_size_ =>
           \E e \in E : e.first = r
  BY <1>a DEF InCommon
<1> HIDE DEF E, f
<1>6. E \subseteq SetEntry
  <2>1. \A e \in E : e.first \in DOMAIN graph_ /\ e.L \subseteq Nat
    BY <1>1, <1>2, <1>5
  <2> QED BY <1>5, <2>1 DEF SetEntry
<1>7. \A e \in E : IsCandidate(L, R, e)
  <2> TAKE e \in E
  <2>1. e.first \in DOMAIN graph_ \ R
    BY <1>1, <1>2, <1>5
  <2> QED BY <1>5, <2>1 DEF IsCandidate
<1>8. \A r : r \in Rest_v <=> /\ r \in After(v) \ full
                              /\ Cardinality(L \cap graph_[r]) >= min_l_size_
  BY <1>5
<1> HIDE DEF Rest_v
<1>9. RootRest(graph_, min_l_size_, v, Rest_v)
  <2>1. Rest_v \subseteq {r \in DOMAIN graph_ : v < r /\ ~(L \subseteq graph_[r])}
    <3>1. \A r \in DOMAIN graph_ : r > v <=> v < r
      BY VerticesBelow
    <3> QED BY <1>2, <1>8, <3>1
  <2>2. ASSUME NEW r \in DOMAIN graph_, v < r,
               Cardinality(L \cap graph_[r]) >= min_l_size_,
               ~(L \subseteq graph_[r])
        PROVE  r \in Rest_v
    <3>1. r > v
      BY <2>2, VerticesBelow
    <3>2. r \in After(v) \ full
      BY <1>1, <1>2, <2>2, <3>1
    <3> QED BY <1>8, <2>2, <3>2
  <2> QED BY <2>1, <2>2 DEF RootRest
<1>10. Covered(graph_, min_l_size_, L, R, Rest_v)
  BY <1>1, <1>9, RootCovered DEF InputOK
<1>11. R \subseteq DOMAIN graph_
  BY <1>1
<1>12. SetFrame(f) /\ SetRest(f) = Rest_v
  <2> HIDE DEF L, R
  <2> QED BY <1>1, <1>4, <1>6, <1>7, <1>10, <1>11, NewSetFrame DEF Rest_v
<1>13. f.L = L /\ f.R = R
  BY <1>4
<1> QED BY <1>9, <1>12, <1>13 DEF f

\* If what is in D comes before what is not, D is the beginning of s.
LEMMA Beginning ==
  ASSUME NEW S, NEW s, Lists(s, S), NEW D, D \subseteq S,
         \A i, j \in 1 .. Len(s) : i < j /\ s[j] \in D => s[i] \in D
  PROVE  /\ Cardinality(D) \in 0 .. Len(s)
         /\ \A i \in 1 .. Len(s) : s[i] \in D <=> i <= Cardinality(D)
<1> DEFINE A == {i \in 1 .. Len(s) : s[i] \in D}
           h == [i \in A |-> s[i]]
<1>1. /\ Len(s) \in Nat
      /\ \A x \in S : \E i \in 1 .. Len(s) : s[i] = x
      /\ \A i, j \in 1 .. Len(s) : s[i] = s[j] => i = j
  BY LenProperties DEF Lists
<1>2. IsFiniteSet(A) /\ A \subseteq Nat /\ A \subseteq 1 .. Len(s)
  <2>1. IsFiniteSet(1 .. Len(s))
    BY <1>1, FS_Interval
  <2> QED BY <1>1, <2>1, FS_Subset
<1>3. Cardinality(D) = Cardinality(A)
  <2>1. h \in Bijection(A, D)
    BY <1>1, Fun_IsBij
  <2> QED BY <1>2, <2>1, FS_Bijection, Fun_ExistsBij
<1>4. \E m \in 0 .. Len(s) : A = 1 .. m
  <2>1. CASE A = {}
    BY <1>1, <2>1
  <2>2. CASE A # {}
    <3>1. Max(A) \in A /\ \A i \in A : i <= Max(A)
      <4> HIDE DEF A
      <4> QED BY <1>2, <2>2, MaxOfNats
    <3> DEFINE m == Max(A)
    <3>2. m \in 1 .. Len(s) /\ s[m] \in D /\ m \in Nat
      BY <1>1, <3>1
    <3>3. \A i \in A : i \in 1 .. m
      BY <1>1, <3>1
    <3>4. \A i \in 1 .. m : i \in A
      <4> HIDE DEF m
      <4>1. \A i \in 1 .. m : i \in 1 .. Len(s) /\ (i < m \/ i = m)
        BY <1>1, <3>2
      <4> QED BY <3>2, <4>1
    <3>5. A = 1 .. m
      BY <3>3, <3>4
    <3> QED BY <1>1, <3>2, <3>5
  <2> QED BY <2>1, <2>2
<1>5. PICK m \in 0 .. Len(s) : A = 1 .. m
  BY <1>4
<1>6. Cardinality(A) = m
  <2>1. m \in Nat
    BY <1>1
  <2>2. Cardinality(1 .. m) = m
    BY <2>1, FS_Interval
  <2> HIDE DEF A
  <2> QED BY <1>5, <2>2
<1>7. \A i \in 1 .. Len(s) : s[i] \in D <=> i <= m
  <2> TAKE i \in 1 .. Len(s)
  <2>1. s[i] \in D <=> i \in 1 .. m
    BY <1>5
  <2> QED BY <1>1, <2>1
<1> QED BY <1>3, <1>6, <1>7

\* What ids can say of the neighbors in L.
BitsOver(ids, L) ==
  \A r : /\ Bits(ids, r) \subseteq Positions(ids)
         /\ Vertices(ids, Bits(ids, r)) = L \cap graph_[r]
         /\ Cardinality(Bits(ids, r)) = Cardinality(L \cap graph_[r])
         /\ Bits(ids, r) = Positions(ids) <=> L \subseteq graph_[r]

\* The bitsets over the sorted list of L.
LEMMA ListBits ==
  ASSUME InputOK, NEW L, L \subseteq Nat, IsFiniteSet(L),
         NEW ids, ids = List(L)
  PROVE  /\ Distinct(ids) /\ Range(ids) = L /\ Len(ids) = Cardinality(L)
         /\ BitsOver(ids, L)
         /\ \A r : Cardinality(L) <= NN /\ L \cap graph_[r] # {} =>
              /\ ShiftedBits(ids, r) = Bits(ids, r)
              /\ Min(Bits(ids, r)) \in Nat
<1>1. Lists(ids, L)
  BY ListSorts
<1>2. ids \in Seq(Nat) /\ Len(ids) = Cardinality(L) /\ Len(ids) \in Nat
  BY <1>1, SeqMonotonic, LenProperties DEF Lists
<1>3. Distinct(ids)
  BY <1>1, <1>2 DEF Distinct, Lists
<1>4. Range(ids) = L
  <2>1. DOMAIN ids = 1 .. Len(ids) /\ \A i \in 1 .. Len(ids) : ids[i] \in L
    BY <1>1, LenProperties, ElementOfSeq DEF Lists
  <2>2. \A x \in L : \E i \in 1 .. Len(ids) : ids[i] = x
    BY <1>1 DEF Lists
  <2> QED BY <2>1, <2>2 DEF Range
<1>5. \A r : /\ Bits(ids, r) \subseteq Positions(ids)
             /\ Vertices(ids, Bits(ids, r)) = L \cap graph_[r]
  BY <1>3, <1>4, BitsAreNeighbors
<1>6. ASSUME NEW r
      PROVE  /\ Cardinality(Bits(ids, r)) = Cardinality(L \cap graph_[r])
             /\ Bits(ids, r) = Positions(ids) <=> L \subseteq graph_[r]
  <2> DEFINE a == Bits(ids, r)
             b == Positions(ids)
  <2>0. a \subseteq Positions(ids) /\ b \subseteq Positions(ids)
        /\ Vertices(ids, a) = L \cap graph_[r]
    BY <1>5
  <2> HIDE DEF a, b
  <2>1. a = b <=> Vertices(ids, a) = Vertices(ids, b)
    BY <1>3, <2>0, Corresponds
  <2>2. Cardinality(Vertices(ids, a)) = Cardinality(a)
    BY <1>3, <2>0, VertexCount
  <2>3. Vertices(ids, b) = L
    BY <1>3, <1>4, <2>0, Corresponds DEF b
  <2> QED BY <2>0, <2>1, <2>2, <2>3 DEF a, b
<1>8. ASSUME NEW r, Cardinality(L) <= NN, L \cap graph_[r] # {}
      PROVE  ShiftedBits(ids, r) = Bits(ids, r) /\ Min(Bits(ids, r)) \in Nat
  <2>1. /\ ShiftedBits(ids, r) = Bits(ids, r)
        /\ Min(Bits(ids, r)) \in Bits(ids, r)
    BY <1>2, <1>3, <1>4, <1>8, BitsOfList
  <2>2. Positions(ids) \subseteq Nat
    BY <1>2 DEF Positions
  <2> QED BY <1>5, <2>1, <2>2
<1>9. BitsOver(ids, L)
  BY <1>5, <1>6 DEF BitsOver
<1> QED BY <1>2, <1>3, <1>4, <1>8, <1>9

----------------------------------------------------------------------------
(* An activation on bitsets.                                               *)

\* The entry e is a candidate for extending R.
IsBitCandidate(ids, L, R, e) ==
  /\ e.first \in DOMAIN graph_ \ R
  /\ Vertices(ids, e.bs) = L \cap graph_[e.first]
  /\ Cardinality(e.bs) >= min_l_size_

\* The entry e is what a vertex before the candidates shows of itself.
IsWitness(ids, L, R, Rest_, e) ==
  \E q \in DOMAIN graph_ \ R : /\ \A s \in Rest_ : q < s
                               /\ Vertices(ids, e.bs) = L \cap graph_[q]

\* An activation of biclique_find on bitsets is at a maximal biclique, has its
\* candidates in order, and before them a witness for each vertex that is left
\* out and could extend it.
BitFrame(f) ==
  /\ f \in [mode : {"bit"}, ids : Seq(Nat), R : SUBSET DOMAIN graph_,
            QC : Seq(BitEntry), c_start : Nat]
  /\ Distinct(f.ids)
  /\ Node(graph_, LSide(f), f.R) /\ LSide(f) \subseteq Range(f.ids)
  /\ f.c_start \in 1 .. Len(f.QC) + 1
  /\ \A j \in 1 .. Len(f.QC) : f.QC[j].bs \subseteq Positions(f.ids)
  /\ \A j \in f.c_start .. Len(f.QC) :
       IsBitCandidate(f.ids, LSide(f), f.R, f.QC[j])
  /\ \A j, k \in f.c_start .. Len(f.QC) :
       j < k => f.QC[j].first < f.QC[k].first
  /\ \A j \in 1 .. f.c_start - 1 :
       IsWitness(f.ids, LSide(f), f.R, BitRest(f), f.QC[j])
  /\ \A r \in DOMAIN graph_ \ f.R :
       Cardinality(LSide(f) \cap graph_[r]) >= min_l_size_ =>
         \/ r \in BitRest(f)
         \/ \E j \in 1 .. f.c_start - 1 :
              LSide(f) \cap graph_[r] \subseteq Vertices(f.ids, f.QC[j].bs)

\* With its witnesses it forgets nothing.
LEMMA BitCovered ==
  ASSUME NEW f, BitFrame(f)
  PROVE  Covered(graph_, min_l_size_, LSide(f), f.R, BitRest(f))
<1> SUFFICES ASSUME NEW r \in DOMAIN graph_ \ f.R, r \notin BitRest(f),
                    Cardinality(LSide(f) \cap graph_[r]) >= min_l_size_
             PROVE  \E q \in DOMAIN graph_ \ f.R :
                      /\ \A s \in BitRest(f) : q < s
                      /\ LSide(f) \cap graph_[r] \subseteq graph_[q]
  BY DEF Covered
<1>1. PICK j \in 1 .. f.c_start - 1 :
        LSide(f) \cap graph_[r] \subseteq Vertices(f.ids, f.QC[j].bs)
  BY DEF BitFrame
<1>2. IsWitness(f.ids, LSide(f), f.R, BitRest(f), f.QC[j])
  BY <1>1 DEF BitFrame
<1> QED BY <1>1, <1>2 DEF IsWitness

\* The entry at c_start is the first of the vertices that remain.
LEMMA BitUpNext ==
  ASSUME InputOK, NEW f, BitFrame(f), Unfinished(f)
  PROVE  LET e == f.QC[f.c_start]
         IN  /\ UpNext(graph_, min_l_size_, LSide(f), f.R, BitRest(f), e.first)
             /\ IsBitCandidate(f.ids, LSide(f), f.R, e)
             /\ e \in BitEntry /\ e.bs \subseteq Positions(f.ids)
             /\ f.c_start \in 1 .. Len(f.QC) /\ Len(f.QC) \in Nat
<1> DEFINE e == f.QC[f.c_start]
           c == e.first
<1>1. /\ f.mode = "bit" /\ f.QC \in Seq(BitEntry)
      /\ f.c_start \in 1 .. Len(f.QC) + 1
      /\ Node(graph_, LSide(f), f.R)
  BY DEF BitFrame
<1>2. Len(f.QC) \in Nat /\ f.c_start \in 1 .. Len(f.QC)
  BY <1>1, LenProperties DEF Unfinished
<1>3. e \in BitEntry /\ e.bs \subseteq Positions(f.ids)
  <2>1. e \in BitEntry
    BY <1>1, <1>2, ElementOfSeq
  <2>2. e.bs \subseteq Positions(f.ids)
    BY <1>2 DEF BitFrame
  <2> QED BY <2>1, <2>2
<1>4. f.c_start \in f.c_start .. Len(f.QC)
  BY <1>2
<1>5. IsBitCandidate(f.ids, LSide(f), f.R, e)
  BY <1>4 DEF BitFrame
<1>6. Cardinality(LSide(f) \cap graph_[c]) >= min_l_size_ /\ c \in DOMAIN graph_ \ f.R
  <2>1. Distinct(f.ids)
    BY DEF BitFrame
  <2>2. Cardinality(Vertices(f.ids, e.bs)) = Cardinality(e.bs)
    BY <1>3, <2>1, VertexCount
  <2> QED BY <1>5, <2>2 DEF IsBitCandidate
<1>7. c \in BitRest(f)
  BY <1>4 DEF BitRest
<1>8. \A s \in BitRest(f) \ {c} : c < s
  <2> TAKE s \in BitRest(f) \ {c}
  <2>1. PICK j \in f.c_start .. Len(f.QC) : s = f.QC[j].first
    BY DEF BitRest
  <2>2. f.c_start < j
    BY <1>2, <2>1
  <2> QED BY <1>4, <2>1, <2>2 DEF BitFrame
<1>9. BitRest(f) \subseteq DOMAIN graph_ \ f.R
  BY DEF BitRest, BitFrame, IsBitCandidate
<1>10. DOMAIN graph_ \subseteq Nat /\ FiniteLists(graph_)
       /\ min_l_size_ \in Nat \ {0}
  BY VerticesBelow DEF InputOK
<1>11. UpNext(graph_, min_l_size_, LSide(f), f.R, BitRest(f), c)
  BY <1>1, <1>6, <1>7, <1>8, <1>9, <1>10, BitCovered DEF UpNext
<1> QED BY <1>2, <1>3, <1>5, <1>11

\* What is left of a bit frame without candidates: nothing.
LEMMA BitNoneLeft ==
  ASSUME NEW f, BitFrame(f), ~Unfinished(f)
  PROVE  BitRest(f) = {}
<1>1. f.QC \in Seq(BitEntry) /\ f.c_start \in 1 .. Len(f.QC) + 1 /\ f.mode = "bit"
  BY DEF BitFrame
<1>2. Len(f.QC) \in Nat
  BY <1>1, LenProperties
<1>3. f.c_start .. Len(f.QC) = {}
  BY <1>1, <1>2 DEF Unfinished
<1> QED BY <1>3 DEF BitRest

\* The activation for a small vertex.
LEMMA BitRootFrame ==
  ASSUME InputOK, Ordered(graph_), NEW v \in DOMAIN graph_,
         ~Passed(graph_, min_l_size_, v), Cardinality(graph_[v]) <= NN
  PROVE  LET f == BitRoot(v)
         IN  /\ BitFrame(f)
             /\ LSide(f) = graph_[v] /\ f.R = CommonR(graph_, graph_[v])
             /\ RootRest(graph_, min_l_size_, v, BitRest(f))
<1> DEFINE f == BitRoot(v)
           L == graph_[v]
           R == CommonR(graph_, L)
           ids  == List(L)
           near == {r \in DOMAIN graph_ : graph_[r] \cap L # {}}
           full == {r \in near : ShiftedBits(ids, r) = Positions(ids)}
           kept == {r \in near \ full :
                      Cardinality(ShiftedBits(ids, r)) >= min_l_size_}
           Entry(r) == [first |-> r, bs |-> ShiftedBits(ids, r)]
           E == {Entry(r) : r \in kept}
           D == {e \in E : e.first < v}
           below == {r \in kept : r < v}
           n == Cardinality(below)
           QC == Sorted(E)
<1>1. /\ Node(graph_, L, R) /\ v \in R /\ L \subseteq Nat /\ L # {}
      /\ IsFiniteSet(L)
      /\ \A r \in DOMAIN graph_ :
              Cardinality(L \cap graph_[r]) >= min_l_size_ => L \cap graph_[r] # {}
      /\ R = {r \in DOMAIN graph_ : L \subseteq graph_[r]}
  BY RootSides
<1>2. f = [mode |-> "bit", ids |-> ids, R |-> full, QC |-> QC, c_start |-> n + 1]
  BY DEF BitRoot
<1> HIDE DEF L, ids, f
<1>3. Distinct(ids) /\ Range(ids) = L
  BY <1>1, ListBits DEF ids
<1>4. \A r : /\ Bits(ids, r) \subseteq Positions(ids)
             /\ Vertices(ids, Bits(ids, r)) = L \cap graph_[r]
             /\ Cardinality(Bits(ids, r)) = Cardinality(L \cap graph_[r])
             /\ Bits(ids, r) = Positions(ids) <=> L \subseteq graph_[r]
  <2>1. BitsOver(ids, L)
    BY <1>1, ListBits DEF ids
  <2> QED BY <2>1 DEF BitsOver
<1>5. \A r \in near : ShiftedBits(ids, r) = Bits(ids, r)
  <2>1. Cardinality(L) <= NN
    BY DEF L
  <2>2. \A r \in near : L \cap graph_[r] # {}
    OBVIOUS
  <2> QED BY <1>1, <2>1, <2>2, ListBits DEF ids
<1>6. full = R
  BY <1>1, <1>4, <1>5
<1>7. \A r : r \in kept <=> /\ r \in DOMAIN graph_ \ R
                            /\ Cardinality(L \cap graph_[r]) >= min_l_size_
  BY <1>1, <1>4, <1>5, <1>6
<1>8. \A r \in kept : /\ Entry(r).first = r /\ Entry(r).bs = Bits(ids, r)
                      /\ r \in DOMAIN graph_ /\ r \in Nat
  BY <1>5, <1>7, VerticesBelow
<1> HIDE DEF near, full, kept, R
<1>9. \A e \in E : /\ e.first \in kept /\ e = Entry(e.first)
                   /\ e.bs = Bits(ids, e.first)
  BY <1>8
<1>10. \A r \in kept : Entry(r) \in E
  OBVIOUS
<1> HIDE DEF Entry, E
<1>11. /\ Lists(QC, E)
       /\ \A i \in 1 .. Len(QC) : QC[i] \in E
       /\ \A e \in E : \E i \in 1 .. Len(QC) : QC[i] = e
       /\ \A i, j \in 1 .. Len(QC) : i < j => QC[i].first < QC[j].first
  <2>1. \A e \in E : e.first \in DOMAIN graph_
    BY <1>8, <1>9
  <2>2. \A d, e \in E : d.first = e.first => d = e
    BY <1>9
  <2> QED BY <2>1, <2>2, SortedEntries
<1> HIDE DEF QC
<1>12. n = Cardinality(D)
  <2> DEFINE h == [r \in below |-> Entry(r)]
  <2>1. h \in Bijection(below, D)
    <3>1. h \in [below -> D]
      BY <1>8, <1>10
    <3>2. \A r, s \in below : h[r] = h[s] => r = s
      BY <1>8
    <3>3. \A e \in D : \E r \in below : h[r] = e
      BY <1>9
    <3> HIDE DEF h, D, below
    <3> QED BY <3>1, <3>2, <3>3, Fun_IsBij
  <2>2. IsFiniteSet(below)
    <3>1. below \subseteq 0 .. v - 1
      BY <1>8, VerticesBelow
    <3>2. IsFiniteSet(0 .. v - 1)
      BY VerticesBelow, Interval
    <3> QED BY <3>1, <3>2, FS_Subset
  <2> HIDE DEF h, D, below
  <2> QED BY <2>1, <2>2, FS_Bijection, Fun_ExistsBij DEF n
<1> HIDE DEF n, below
<1>13. n \in 0 .. Len(QC) /\ \A i \in 1 .. Len(QC) : QC[i].first < v <=> i <= n
  <2>1. \A i, j \in 1 .. Len(QC) : i < j /\ QC[j] \in D => QC[i] \in D
    <3>1. \A e \in E : e.first \in Int /\ v \in Int
      BY <1>8, <1>9, VerticesBelow
    <3> QED BY <1>11, <3>1
  <2>2. D \subseteq E
    OBVIOUS
  <2>3. \A i \in 1 .. Len(QC) : QC[i] \in D <=> QC[i].first < v
    BY <1>11
  <2> HIDE DEF D
  <2>4. /\ Cardinality(D) \in 0 .. Len(QC)
        /\ \A i \in 1 .. Len(QC) : QC[i] \in D <=> i <= Cardinality(D)
    BY <1>11, <2>1, <2>2, Beginning
  <2> QED BY <1>12, <2>3, <2>4
<1> HIDE DEF D
<1>14. QC \in Seq(BitEntry) /\ Len(QC) \in Nat
  <2>1. \A e \in E : e \in BitEntry
    <3>1. Len(ids) \in Nat
      BY <1>3, LenProperties DEF Distinct
    <3>2. \A r \in kept : Entry(r) \in BitEntry
      <4>1. \A r : Bits(ids, r) \subseteq Nat
        BY <1>4, <3>1 DEF Positions
      <4> QED BY <1>5, <1>8, <4>1 DEF BitEntry, Entry
    <3> QED BY <1>9, <3>2
  <2>2. E \subseteq BitEntry
    BY <2>1
  <2> QED BY <1>11, <2>2, SeqMonotonic, LenProperties DEF Lists
<1>15. /\ f \in [mode : {"bit"}, ids : Seq(Nat), R : SUBSET DOMAIN graph_,
                 QC : Seq(BitEntry), c_start : Nat]
       /\ f.ids = ids /\ f.R = R /\ f.QC = QC /\ f.c_start = n + 1
  <2>1. R \subseteq DOMAIN graph_ /\ n + 1 \in Nat /\ ids \in Seq(Nat)
    BY <1>1, <1>3, <1>13 DEF Distinct
  <2> QED BY <1>2, <1>6, <1>14, <2>1
<1>16. LSide(f) = L
  BY <1>1, <1>15 DEF LSide, Node, Closed
<1>17. \A i \in 1 .. Len(QC) : /\ QC[i].first \in kept
                               /\ QC[i].bs = Bits(ids, QC[i].first)
  BY <1>9, <1>11
<1>18. \A j : j \in n + 1 .. Len(QC) <=> j \in 1 .. Len(QC) /\ ~(QC[j].first < v)
  BY <1>13, <1>14
<1>19. \A r : r \in BitRest(f) <=> r \in kept /\ ~(r < v)
  <2> TAKE r
  <2>1. r \in BitRest(f) <=> \E j \in n + 1 .. Len(QC) : r = QC[j].first
    BY <1>15 DEF BitRest
  <2>2. ASSUME r \in kept, ~(r < v)
        PROVE  \E j \in n + 1 .. Len(QC) : r = QC[j].first
    <3>1. Entry(r) \in E /\ Entry(r).first = r
      BY <1>8, <1>10, <2>2
    <3> QED BY <1>11, <1>18, <2>2, <3>1
  <2> QED BY <1>17, <1>18, <2>1, <2>2
<1>20. v \notin kept
  BY <1>1, <1>7
<1>21. \A r \in BitRest(f) : v < r
  BY <1>8, <1>19, <1>20, VerticesBelow
<1>22. f.c_start \in 1 .. Len(f.QC) + 1
  BY <1>13, <1>14, <1>15
<1>23. \A j \in 1 .. Len(f.QC) : f.QC[j].bs \subseteq Positions(f.ids)
  BY <1>4, <1>15, <1>17
<1>24. \A j \in f.c_start .. Len(f.QC) :
         IsBitCandidate(f.ids, LSide(f), f.R, f.QC[j])
  <2>1. \A j \in 1 .. Len(QC) : IsBitCandidate(ids, L, R, QC[j])
    BY <1>4, <1>7, <1>17 DEF IsBitCandidate
  <2> QED BY <1>15, <1>16, <1>18, <2>1
<1>25. \A j, k \in f.c_start .. Len(f.QC) : j < k => f.QC[j].first < f.QC[k].first
  BY <1>11, <1>15, <1>18
<1>26. ASSUME NEW j \in 1 .. f.c_start - 1
       PROVE  IsWitness(f.ids, LSide(f), f.R, BitRest(f), f.QC[j])
  <2>1. j \in 1 .. Len(QC) /\ j <= n
    BY <1>13, <1>14, <1>15, <1>26
  <2>2. QC[j].first \in DOMAIN graph_ \ R /\ QC[j].first < v
        /\ Vertices(ids, QC[j].bs) = L \cap graph_[QC[j].first]
    BY <1>4, <1>7, <1>13, <1>17, <2>1
  <2>3. \A s \in BitRest(f) : QC[j].first < s
    <3>1. \A s \in BitRest(f) : s \in Nat
      BY <1>8, <1>19
    <3> QED BY <1>21, <2>2, <3>1, VerticesBelow
  <2> QED BY <1>15, <1>16, <2>2, <2>3 DEF IsWitness
<1>27. ASSUME NEW r \in DOMAIN graph_ \ f.R, r \notin BitRest(f),
              Cardinality(LSide(f) \cap graph_[r]) >= min_l_size_
       PROVE  \E j \in 1 .. f.c_start - 1 :
                LSide(f) \cap graph_[r] \subseteq Vertices(f.ids, f.QC[j].bs)
  <2>1. r \in kept /\ r < v
    BY <1>7, <1>15, <1>16, <1>19, <1>27
  <2>2. Entry(r) \in E /\ Entry(r).first = r
    BY <1>8, <1>10, <2>1
  <2>3. PICK j \in 1 .. Len(QC) : QC[j].first = r
    BY <1>11, <2>2
  <2>4. j \in 1 .. f.c_start - 1
    BY <1>13, <1>14, <1>15, <2>1, <2>3
  <2>5. Vertices(ids, QC[j].bs) = L \cap graph_[r]
    BY <1>4, <1>17, <2>3
  <2> QED BY <1>15, <1>16, <2>4, <2>5
<1>28. BitFrame(f)
  <2>1. Node(graph_, LSide(f), f.R) /\ LSide(f) \subseteq Range(f.ids)
        /\ Distinct(f.ids)
    BY <1>1, <1>3, <1>15, <1>16
  <2> QED BY <1>15, <1>22, <1>23, <1>24, <1>25, <1>26, <1>27, <2>1 DEF BitFrame
<1>29. RootRest(graph_, min_l_size_, v, BitRest(f))
  <2>1. BitRest(f) \subseteq {r \in DOMAIN graph_ : v < r /\ ~(L \subseteq graph_[r])}
    BY <1>1, <1>7, <1>19, <1>21
  <2>2. ASSUME NEW r \in DOMAIN graph_, v < r,
               Cardinality(L \cap graph_[r]) >= min_l_size_,
               ~(L \subseteq graph_[r])
        PROVE  r \in BitRest(f)
    <3>1. r \in kept
      BY <1>1, <1>7, <2>2
    <3>2. ~(r < v)
      BY <2>2, VerticesBelow
    <3> QED BY <1>19, <3>1, <3>2
  <2> QED BY <2>1, <2>2 DEF RootRest, L
<1> QED BY <1>15, <1>16, <1>28, <1>29 DEF f, L, R

\* The type of an activation on bitsets.
LEMMA BitRecord ==
  ASSUME NEW ids \in Seq(Nat), NEW R \in SUBSET DOMAIN graph_,
         NEW QC \in Seq(BitEntry), NEW m \in Nat,
         NEW f, f = [mode |-> "bit", ids |-> ids, R |-> R, QC |-> QC,
                     c_start |-> m]
  PROVE  f \in [mode : {"bit"}, ids : Seq(Nat), R : SUBSET DOMAIN graph_,
                QC : Seq(BitEntry), c_start : Nat]
OBVIOUS

\* W has the witnesses, and E the candidates with the vertices Rest_, of a new
\* activation.
AreWitnesses(ids, L, R, Rest_, W) ==
  /\ W \in Seq(BitEntry)
  /\ \A j \in 1 .. Len(W) : W[j].bs \subseteq Positions(ids)
  /\ \A j \in 1 .. Len(W) : IsWitness(ids, L, R, Rest_, W[j])
  /\ \A r \in DOMAIN graph_ \ R :
       Cardinality(L \cap graph_[r]) >= min_l_size_ =>
         \/ r \in Rest_
         \/ \E j \in 1 .. Len(W) :
              L \cap graph_[r] \subseteq Vertices(ids, W[j].bs)

AreCandidates(ids, L, R, Rest_, E) ==
  /\ E \subseteq BitEntry
  /\ \A e \in E : e.bs \subseteq Positions(ids) /\ IsBitCandidate(ids, L, R, e)
  /\ Rest_ = {e.first : e \in E}

\* The new activation.
NewBits(ids, R, W, E) ==
  [mode |-> "bit", ids |-> ids, R |-> R, QC |-> W \o Sorted(E),
   c_start |-> Len(W) + 1]

\* It is a frame.
LEMMA NewBitFrame ==
  ASSUME InputOK, NEW ids, Distinct(ids), NEW R, R \subseteq DOMAIN graph_,
         NEW L, Node(graph_, L, R), L \subseteq Range(ids),
         NEW Rest_E, NEW W, AreWitnesses(ids, L, R, Rest_E, W),
         NEW E, AreCandidates(ids, L, R, Rest_E, E),
         NEW f, f = NewBits(ids, R, W, E)
  PROVE  BitFrame(f) /\ LSide(f) = L /\ f.R = R /\ BitRest(f) = Rest_E
<1>a. /\ W \in Seq(BitEntry)
      /\ \A j \in 1 .. Len(W) : W[j].bs \subseteq Positions(ids)
  BY DEF AreWitnesses
<1>b. \A j \in 1 .. Len(W) : IsWitness(ids, L, R, Rest_E, W[j])
  BY DEF AreWitnesses
<1>c. \A r \in DOMAIN graph_ \ R :
           Cardinality(L \cap graph_[r]) >= min_l_size_ =>
             \/ r \in Rest_E
             \/ \E j \in 1 .. Len(W) :
                  L \cap graph_[r] \subseteq Vertices(ids, W[j].bs)
  BY DEF AreWitnesses
<1>d. /\ E \subseteq BitEntry
      /\ \A e \in E : e.bs \subseteq Positions(ids) /\ IsBitCandidate(ids, L, R, e)
      /\ Rest_E = {e.first : e \in E}
  BY DEF AreCandidates
<1> DEFINE S == Sorted(E)
           QC == W \o S
           n == Len(W)
<1>1. \A e \in E : /\ e.first \in DOMAIN graph_
                   /\ e = [first |-> e.first, bs |-> e.bs]
                   /\ Vertices(ids, e.bs) = L \cap graph_[e.first]
  BY <1>d DEF IsBitCandidate, BitEntry
<1>2. ASSUME NEW d \in E, NEW e \in E, d.first = e.first
      PROVE  d = e
  <2> DEFINE a == d.bs
             b == e.bs
  <2>1. Vertices(ids, a) = Vertices(ids, b)
    BY <1>1, <1>2
  <2>2. a \subseteq Positions(ids) /\ b \subseteq Positions(ids)
    BY <1>d
  <2>3. d = [first |-> d.first, bs |-> a] /\ e = [first |-> e.first, bs |-> b]
    BY <1>1
  <2> HIDE DEF a, b
  <2>4. a = b
    BY <2>1, <2>2, Corresponds
  <2> QED BY <1>2, <2>3, <2>4
<1>3. /\ S \in Seq(E)
      /\ \A i \in 1 .. Len(S) : S[i] \in E
      /\ \A e \in E : \E i \in 1 .. Len(S) : S[i] = e
      /\ \A i, j \in 1 .. Len(S) : i < j => S[i].first < S[j].first
  BY <1>1, <1>2, SortedEntries
<1>4. S \in Seq(BitEntry)
  BY <1>d, <1>3, SeqMonotonic
<1>5. n \in Nat /\ Len(S) \in Nat
  BY <1>a, <1>4, LenProperties
<1>6. /\ QC \in Seq(BitEntry) /\ Len(QC) = n + Len(S)
      /\ \A i \in 1 .. n + Len(S) : QC[i] = IF i <= n THEN W[i] ELSE S[i - n]
  <2> HIDE DEF S
  <2> QED BY <1>a, <1>4, ConcatProperties
<1> HIDE DEF S, QC
<1>7. \A i \in 1 .. n : i \in 1 .. Len(QC) /\ QC[i] = W[i]
  BY <1>5, <1>6
<1>8. \A i \in n + 1 .. Len(QC) : i - n \in 1 .. Len(S) /\ QC[i] = S[i - n]
                                  /\ i \in Int
  BY <1>5, <1>6
<1>9. \A i \in 1 .. Len(S) : n + i \in n + 1 .. Len(QC) /\ (n + i) - n = i
  BY <1>5, <1>6
<1>10. /\ f \in [mode : {"bit"}, ids : Seq(Nat), R : SUBSET DOMAIN graph_,
                 QC : Seq(BitEntry), c_start : Nat]
       /\ f.ids = ids /\ f.R = R /\ f.QC = QC /\ f.c_start = n + 1
  <2>1. ids \in Seq(Nat) /\ n + 1 \in Nat
    BY <1>5 DEF Distinct
  <2>2. f = [mode |-> "bit", ids |-> ids, R |-> R, QC |-> QC, c_start |-> n + 1]
    BY DEF QC, S, NewBits
  <2>3. QC \in Seq(BitEntry)
    BY <1>6
  <2> DEFINE m == n + 1
  <2> HIDE DEF m, n
  <2>4. f.ids = ids /\ f.R = R /\ f.QC = QC /\ f.c_start = m
    BY <2>2 DEF m
  <2>5. f \in [mode : {"bit"}, ids : Seq(Nat), R : SUBSET DOMAIN graph_,
               QC : Seq(BitEntry), c_start : Nat]
    <3>1. m \in Nat /\ f = [mode |-> "bit", ids |-> ids, R |-> R, QC |-> QC,
                           c_start |-> m]
      BY <2>1, <2>2 DEF m
    <3> QED BY <2>1, <2>3, <3>1, BitRecord
  <2> QED BY <2>4, <2>5 DEF m
<1>11. LSide(f) = L
  BY <1>10 DEF LSide, Node, Closed
<1>12. BitRest(f) = Rest_E
  <2>1. \A r : r \in BitRest(f) <=> \E j \in n + 1 .. Len(QC) : r = QC[j].first
    BY <1>10 DEF BitRest
  <2>2. \A r \in BitRest(f) : r \in Rest_E
    BY <1>d, <1>3, <1>8, <2>1
  <2>3. ASSUME NEW e \in E PROVE e.first \in BitRest(f)
    <3>1. PICK i \in 1 .. Len(S) : S[i] = e
      BY <1>3
    <3>2. n + i \in n + 1 .. Len(QC) /\ QC[n + i] = e
      BY <1>8, <1>9, <3>1
    <3> QED BY <2>1, <3>2
  <2> QED BY <1>d, <2>2, <2>3
<1>13. f.c_start \in 1 .. Len(f.QC) + 1
  BY <1>5, <1>6, <1>10
<1>14. \A j \in 1 .. Len(f.QC) : f.QC[j].bs \subseteq Positions(f.ids)
  <2> SUFFICES ASSUME NEW j \in 1 .. Len(QC)
               PROVE  QC[j].bs \subseteq Positions(ids)
    BY <1>10
  <2>1. j \in 1 .. n \/ j \in n + 1 .. Len(QC)
    BY <1>5, <1>6
  <2> QED BY <1>a, <1>d, <1>3, <1>7, <1>8, <2>1
<1>15. \A j \in f.c_start .. Len(f.QC) :
         IsBitCandidate(f.ids, LSide(f), f.R, f.QC[j])
  <2> SUFFICES ASSUME NEW j \in n + 1 .. Len(QC)
               PROVE  IsBitCandidate(ids, L, R, QC[j])
    BY <1>10, <1>11
  <2>1. QC[j] \in E
    BY <1>3, <1>8
  <2> QED BY <1>d, <2>1
<1>16. \A j, k \in f.c_start .. Len(f.QC) : j < k => f.QC[j].first < f.QC[k].first
  <2> SUFFICES ASSUME NEW j \in n + 1 .. Len(QC), NEW k \in n + 1 .. Len(QC), j < k
               PROVE  QC[j].first < QC[k].first
    BY <1>10
  <2>1. j - n < k - n
    BY <1>5, <1>8
  <2> QED BY <1>3, <1>8, <2>1
<1>17. \A j \in 1 .. f.c_start - 1 :
         IsWitness(f.ids, LSide(f), f.R, BitRest(f), f.QC[j])
  <2>1. f.c_start - 1 = n
    BY <1>5, <1>10
  <2> QED BY <1>b, <1>7, <1>10, <1>11, <1>12, <2>1
<1>18. \A r \in DOMAIN graph_ \ f.R :
         Cardinality(LSide(f) \cap graph_[r]) >= min_l_size_ =>
           \/ r \in BitRest(f)
           \/ \E j \in 1 .. f.c_start - 1 :
                LSide(f) \cap graph_[r] \subseteq Vertices(f.ids, f.QC[j].bs)
  <2>1. f.c_start - 1 = n
    BY <1>5, <1>10
  <2> QED BY <1>c, <1>7, <1>10, <1>11, <1>12, <2>1
<1>19. Node(graph_, LSide(f), f.R) /\ LSide(f) \subseteq Range(f.ids)
       /\ Distinct(f.ids)
  BY <1>10, <1>11
<1>20. BitFrame(f)
  BY <1>10, <1>13, <1>14, <1>15, <1>16, <1>17, <1>18, <1>19 DEF BitFrame
<1> QED BY <1>10, <1>11, <1>12, <1>20

\* The vertices before a small candidate that are adjacent to its whole list.
LEMMA BeforeInBits ==
  ASSUME InputOK, NEW f, SetFrame(f), Unfinished(f), Candidate(f).first >= 0,
         Cardinality(Candidate(f).L) <= NN,
         NEW ids, ids = List(Candidate(f).L)
  PROVE  /\ Distinct(ids) /\ Range(ids) = Candidate(f).L
         /\ BitsOver(ids, Candidate(f).L)
         /\ \A r \in Before(f) : /\ ShiftedBits(ids, r) = Bits(ids, r)
                                 /\ Min(Bits(ids, r)) \in Nat
         /\ \A r : r \in Before(f) <=> /\ r \in DOMAIN graph_
                                       /\ r < Candidate(f).first
                                       /\ Candidate(f).L \cap graph_[r] # {}
<1> DEFINE c == Candidate(f).first
           L_prime == Candidate(f).L
<1>1. UpNext(graph_, min_l_size_, f.L, f.R, SetRest(f), c)
      /\ L_prime = f.L \cap graph_[c] /\ c \in DOMAIN graph_
  BY SetUpNext
<1>2. IsFiniteSet(L_prime) /\ L_prime \subseteq Nat
  BY <1>1, Finite DEF SetFrame
<1>3. \A r : r \in Before(f) <=> r \in DOMAIN graph_ /\ r < c
                                 /\ L_prime \cap graph_[r] # {}
  <2>1. DOMAIN graph_ \subseteq Nat /\ 0 .. c - 1 \subseteq DOMAIN graph_
    BY <1>1, VerticesBelow
  <2>2. \A r : r \in 0 .. c - 1 <=> r \in DOMAIN graph_ /\ r < c
    BY <1>1, <2>1
  <2> QED BY <2>2 DEF Before
<1>4. Distinct(ids) /\ Range(ids) = L_prime
  BY <1>2, ListBits
<1>5. BitsOver(ids, L_prime)
  BY <1>2, ListBits
<1>6. \A r : L_prime \cap graph_[r] # {} =>
               ShiftedBits(ids, r) = Bits(ids, r) /\ Min(Bits(ids, r)) \in Nat
  BY <1>2, ListBits
<1> QED BY <1>3, <1>4, <1>5, <1>6

\* R has all of them, if it has as many: nothing hides what the candidate
\* leaves.
LEMMA SmallIsNotHidden ==
  ASSUME InputOK, NEW f, SetFrame(f), Unfinished(f), Candidate(f).first >= 0,
         Cardinality(Candidate(f).L) <= NN
  PROVE  IsMaximalSmall(f)
           <=> ~Hidden(graph_, f.R, Candidate(f).first, Candidate(f).L)
<1> DEFINE c == Candidate(f).first
           L_prime == Candidate(f).L
           ids == List(L_prime)
           common == {r \in Before(f) : ShiftedBits(ids, r) = Positions(ids)}
           had == {r \in f.R : r < c}
<1>1. UpNext(graph_, min_l_size_, f.L, f.R, SetRest(f), c)
      /\ L_prime = f.L \cap graph_[c] /\ c \in DOMAIN graph_
  BY SetUpNext
<1>2. L_prime # {}
  BY <1>1, Finite
<1>3. IsMaximalSmall(f) <=> Cardinality(had) >= Cardinality(common)
  BY DEF IsMaximalSmall
<1> HIDE DEF ids
<1>4. \A r : r \in common <=> /\ r \in DOMAIN graph_ /\ r < c
                              /\ L_prime \subseteq graph_[r]
  <2>1. \A r : Bits(ids, r) = Positions(ids) <=> L_prime \subseteq graph_[r]
    BY BeforeInBits DEF ids, BitsOver
  <2>2. \A r \in Before(f) : ShiftedBits(ids, r) = Bits(ids, r)
    BY BeforeInBits DEF ids
  <2>3. \A r : r \in Before(f) <=> /\ r \in DOMAIN graph_ /\ r < c
                                   /\ L_prime \cap graph_[r] # {}
    BY BeforeInBits DEF ids
  <2> QED BY <1>2, <2>1, <2>2, <2>3
<1>5. \A r \in f.R : r \in DOMAIN graph_ /\ f.L \subseteq graph_[r]
  BY NodeSides DEF SetFrame
<1>6. had \subseteq common
  BY <1>1, <1>4, <1>5
<1>7. IsFiniteSet(common)
  <2>1. common \subseteq 0 .. c - 1 /\ c \in Nat
    BY <1>1, <1>4, VerticesBelow
  <2>2. IsFiniteSet(0 .. c - 1)
    BY <2>1, Interval
  <2> HIDE DEF common
  <2> QED BY <2>1, <2>2, FS_Subset
<1>8. Cardinality(had) >= Cardinality(common) <=> common \subseteq had
  <2> HIDE DEF had, common
  <2>1. /\ Cardinality(had) \in Nat /\ Cardinality(common) \in Nat
        /\ Cardinality(had) <= Cardinality(common)
        /\ Cardinality(common) = Cardinality(had) => common = had
    BY <1>6, <1>7, FS_Subset, FS_CardinalityType
  <2>2. common \subseteq had => common = had
    BY <1>6
  <2> QED BY <2>1, <2>2
<1>9. common \subseteq had <=> ~Hidden(graph_, f.R, c, L_prime)
  BY <1>4 DEF Hidden
<1> QED BY <1>3, <1>8, <1>9

\* The activation for a small maximal candidate.
LEMMA BitChildFrame ==
  ASSUME InputOK, NEW f, SetFrame(f), Unfinished(f), Candidate(f).first >= 0,
         Cardinality(Candidate(f).L) <= NN, IsMaximalSmall(f)
  PROVE  LET h == BitChild(f)
             c == Candidate(f).first
         IN  /\ BitFrame(h)
             /\ LSide(h) = f.L \cap graph_[c]
             /\ h.R = f.R \cup {r \in SetRest(f) : f.L \cap graph_[c] \subseteq graph_[r]}
             /\ Inherited(graph_, min_l_size_, f.L, f.R, SetRest(f), c, BitRest(h))
<1> DEFINE h == BitChild(f)
           c == Candidate(f).first
           L_prime == f.L \cap graph_[c]
           R_prime == f.R \cup {r \in SetRest(f) : L_prime \subseteq graph_[r]}
           ids == List(L_prime)
           Entry(r) == [first |-> r, bs |-> Bits(ids, r)]
           Kept(e) == Cardinality(e.bs) >= min_l_size_ /\ e.bs # Positions(ids)
           pre == {[first |-> r, bs |-> ShiftedBits(ids, r)] : r \in Before(f)}
           post == {[first |-> f.C[ci].first, bs |-> Bits(ids, f.C[ci].first)] :
                      ci \in Live(f)}
           full == {e \in post : e.bs = Positions(ids)}
           P == {e \in pre : Kept(e)}
           E == {e \in post : Kept(e)}
           W == AsMet(ids, P)
           Good(r) == /\ Cardinality(L_prime \cap graph_[r]) >= min_l_size_
                      /\ ~(L_prime \subseteq graph_[r])
           Rest_E == {e.first : e \in E}
<1>1. /\ UpNext(graph_, min_l_size_, f.L, f.R, SetRest(f), c)
      /\ Candidate(f).L = L_prime /\ c \in DOMAIN graph_ \ f.R /\ f.i \in Ahead(f)
  BY SetUpNext
<1>2. ~Hidden(graph_, f.R, c, L_prime)
  BY <1>1, SmallIsNotHidden
<1>3. Node(graph_, L_prime, R_prime)
  BY <1>1, <1>2, Child
<1>d. c \in R_prime
  BY <1>1 DEF UpNext
<1>4. h = [mode |-> "bit", ids |-> ids,
           R |-> f.R \cup {c} \cup {e.first : e \in full},
           QC |-> W \o Sorted(E), c_start |-> Len(W) + 1]
  BY <1>1 DEF BitChild
<1> HIDE DEF ids, h
<1>5. /\ Distinct(ids) /\ Range(ids) = L_prime /\ BitsOver(ids, L_prime)
      /\ \A r \in Before(f) : /\ ShiftedBits(ids, r) = Bits(ids, r)
                              /\ Min(Bits(ids, r)) \in Nat
      /\ \A r : r \in Before(f) <=> /\ r \in DOMAIN graph_ /\ r < c
                                    /\ L_prime \cap graph_[r] # {}
  BY <1>1, BeforeInBits DEF ids
<1>6. \A r : /\ Bits(ids, r) \subseteq Positions(ids)
             /\ Vertices(ids, Bits(ids, r)) = L_prime \cap graph_[r]
             /\ Cardinality(Bits(ids, r)) = Cardinality(L_prime \cap graph_[r])
             /\ Bits(ids, r) = Positions(ids) <=> L_prime \subseteq graph_[r]
  BY <1>5 DEF BitsOver
<1>7. /\ \A r \in SetRest(f) \ {c} : \E ci \in Live(f) : f.C[ci].first = r
      /\ \A ci \in Live(f) : f.C[ci].first \in SetRest(f) \ {c}
  <2>1. Live(f) = Ahead(f) \ {f.i}
    BY LiveAhead
  <2>2. \A ci \in Ahead(f) \ {f.i} : f.i < ci
    <3>1. f.i \in Nat
      BY DEF SetFrame
    <3> QED BY <3>1 DEF Ahead
  <2>3. \A ci \in Ahead(f) \ {f.i} : c < f.C[ci].first
    BY <1>1, <2>2 DEF SetFrame, Candidate
  <2>4. \A r \in SetRest(f) \ {c} : \E ci \in Ahead(f) \ {f.i} : f.C[ci].first = r
    BY DEF SetRest, Candidate
  <2>5. c \in Nat
    BY <1>1, VerticesBelow
  <2>6. \A ci \in Ahead(f) : f.C[ci].first \in SetRest(f)
    BY DEF SetRest
  <2> HIDE DEF c
  <2> QED BY <2>1, <2>3, <2>4, <2>5, <2>6
<1>8. pre = {Entry(r) : r \in Before(f)}
  BY <1>5
<1>9. post = {Entry(r) : r \in SetRest(f) \ {c}}
  BY <1>7
<1>10. \A r : Entry(r).first = r /\ Entry(r).bs = Bits(ids, r)
  OBVIOUS
<1>11. \A r : Kept(Entry(r)) <=> Good(r)
  BY <1>6
<1> HIDE DEF pre, post, Entry
<1>12. \A e \in P : e = Entry(e.first) /\ e.first \in Before(f) /\ Good(e.first)
  BY <1>8, <1>10, <1>11
<1>13. \A r \in Before(f) : Good(r) => Entry(r) \in P
  BY <1>8, <1>11
<1>14. \A e \in E : /\ e = Entry(e.first) /\ e.first \in SetRest(f) \ {c}
                    /\ Good(e.first)
  BY <1>9, <1>10, <1>11
<1>15. \A r \in SetRest(f) \ {c} : Good(r) => Entry(r) \in E
  BY <1>9, <1>11
<1>16. {e.first : e \in full} = {r \in SetRest(f) \ {c} : L_prime \subseteq graph_[r]}
  BY <1>6, <1>9, <1>10
<1>17. f.R \cup {c} \cup {e.first : e \in full} = R_prime
  <2>1. c \in SetRest(f) /\ L_prime \subseteq graph_[c]
    BY <1>1 DEF UpNext
  <2> HIDE DEF full, L_prime
  <2> QED BY <1>16, <2>1
<1> HIDE DEF P, E, full
<1>18. /\ \A r \in R_prime : r \in DOMAIN graph_ /\ L_prime \subseteq graph_[r]
       /\ \A r \in DOMAIN graph_ : L_prime \subseteq graph_[r] => r \in R_prime
       /\ R_prime \subseteq DOMAIN graph_
  BY <1>3, NodeSides
<1>19. SetRest(f) \subseteq DOMAIN graph_ \ f.R /\ \A s \in SetRest(f) \ {c} : c < s
  BY <1>1 DEF UpNext
<1>20. Lists(W, P)
  <2>1. \A e \in P : e.first \in DOMAIN graph_ /\ e.first \in Int
                     /\ Min(Bits(ids, e.first)) \in Int
    <3> TAKE e \in P
    <3> DEFINE q == e.first
    <3>1. q \in Before(f)
      BY <1>12
    <3> HIDE DEF q
    <3>2. q \in DOMAIN graph_ /\ Min(Bits(ids, q)) \in Nat
      BY <1>5, <3>1
    <3>3. q \in Nat
      BY <3>2, VerticesBelow
    <3> QED BY <3>2, <3>3 DEF q
  <2>2. \A d, e \in P : d.first = e.first => d = e
    BY <1>12
  <2>3. IsFiniteSet(P)
    BY <2>1, <2>2, SortedEntries
  <2> QED BY <2>1, <2>2, <2>3, AsMetLists
<1> HIDE DEF W
<1>21. /\ W \in Seq(P)
       /\ \A j \in 1 .. Len(W) : W[j] \in P
       /\ \A e \in P : \E j \in 1 .. Len(W) : W[j] = e
  BY <1>20, ElementOfSeq DEF Lists
<1>22. \A r \in DOMAIN graph_ : Entry(r) \in BitEntry
  <2>1. Positions(ids) \subseteq Nat
    <3>1. Len(ids) \in Nat
      BY <1>5, LenProperties DEF Distinct
    <3> QED BY <3>1 DEF Positions
  <2> QED BY <1>6, <2>1 DEF Entry, BitEntry
<1>23. W \in Seq(BitEntry)
  <2>1. P \subseteq BitEntry
    BY <1>5, <1>12, <1>22
  <2> QED BY <1>21, <2>1, SeqMonotonic
<1>24. \A j \in 1 .. Len(W) : W[j].bs \subseteq Positions(ids)
  <2> TAKE j \in 1 .. Len(W)
  <2>1. W[j] = Entry(W[j].first)
    BY <1>12, <1>21
  <2>2. W[j].bs = Bits(ids, W[j].first)
    BY <1>10, <2>1
  <2> QED BY <1>6, <2>2
<1>25. E \subseteq BitEntry
  BY <1>14, <1>19, <1>22
<1>26. \A e \in E : /\ e.bs \subseteq Positions(ids)
                    /\ IsBitCandidate(ids, L_prime, R_prime, e)
  <2> TAKE e \in E
  <2>1. e.bs = Bits(ids, e.first) /\ e.first \in DOMAIN graph_ /\ Good(e.first)
    BY <1>10, <1>14, <1>19
  <2>2. e.first \notin R_prime
    BY <1>18, <2>1
  <2> QED BY <1>6, <2>1, <2>2 DEF IsBitCandidate
<1>27. \A j \in 1 .. Len(W) : IsWitness(ids, L_prime, R_prime, Rest_E, W[j])
  <2> TAKE j \in 1 .. Len(W)
  <2> DEFINE q == W[j].first
  <2>1. /\ W[j].bs = Bits(ids, q) /\ q \in DOMAIN graph_ /\ q < c /\ Good(q)
    BY <1>5, <1>10, <1>12, <1>21
  <2>2. q \notin R_prime
    BY <1>18, <2>1
  <2>3. \A s \in Rest_E : q < s
    <3>1. \A s \in Rest_E : c < s /\ s \in Nat
      BY <1>14, <1>19, VerticesBelow
    <3>2. q \in Nat /\ c \in Nat
      BY <1>1, <2>1, VerticesBelow
    <3> HIDE DEF q, c, Rest_E
    <3> QED BY <2>1, <3>1, <3>2
  <2>4. Vertices(ids, W[j].bs) = L_prime \cap graph_[q]
    BY <1>6, <2>1
  <2> QED BY <2>1, <2>2, <2>3, <2>4 DEF IsWitness
<1>28. ASSUME NEW r \in DOMAIN graph_ \ R_prime, r \notin Rest_E,
              Cardinality(L_prime \cap graph_[r]) >= min_l_size_
       PROVE  \E j \in 1 .. Len(W) :
                L_prime \cap graph_[r] \subseteq Vertices(ids, W[j].bs)
  <2>1. Good(r) /\ r # c /\ r \notin f.R
    BY <1>d, <1>18, <1>28
  <2>2. r \notin SetRest(f)
    BY <1>10, <1>15, <1>28, <2>1
  <2> DEFINE A == L_prime \cap graph_[r]
             B == f.L \cap graph_[r]
  <2>3. IsFiniteSet(A) /\ IsFiniteSet(B) /\ A \subseteq B /\ min_l_size_ \in Nat \ {0}
    <3>1. \A s \in DOMAIN graph_ : IsFiniteSet(f.L \cap graph_[s])
      BY <1>1, Finite
    <3>2. A \subseteq B /\ IsFiniteSet(B)
      BY <3>1
    <3> HIDE DEF A, B
    <3> QED BY <3>2, FS_Subset DEF InputOK
  <2>4. Cardinality(A) >= min_l_size_
    BY <1>28
  <2> HIDE DEF A, B
  <2>5. Cardinality(B) >= min_l_size_ /\ A # {}
    BY <2>3, <2>4, Smaller, Inhabited
  <2>6. PICK q \in DOMAIN graph_ \ f.R : /\ \A s \in SetRest(f) : q < s
                                         /\ B \subseteq graph_[q]
    BY <1>1, <2>1, <2>2, <2>5 DEF UpNext, Covered, B
  <2>7. q < c
    BY <1>1, <2>6 DEF UpNext
  <2> DEFINE D == L_prime \cap graph_[q]
  <2>8. A \subseteq D
    BY <2>3, <2>6 DEF A, B
  <2>9. q \in Before(f)
    BY <1>5, <2>5, <2>6, <2>7, <2>8
  <2>10. ~(L_prime \subseteq graph_[q])
    BY <1>2, <2>6, <2>7 DEF Hidden
  <2>11. Cardinality(D) >= min_l_size_
    <3>1. IsFiniteSet(D)
      <4>1. IsFiniteSet(f.L \cap graph_[q])
        BY <1>1, <2>6, Finite
      <4>2. D \subseteq f.L \cap graph_[q]
        OBVIOUS
      <4> QED BY <4>1, <4>2, FS_Subset
    <3> HIDE DEF D
    <3> QED BY <2>3, <2>4, <2>8, <3>1, Smaller
  <2>12. Entry(q) \in P
    BY <1>13, <2>9, <2>10, <2>11
  <2>13. PICK j \in 1 .. Len(W) : W[j] = Entry(q)
    BY <1>21, <2>12
  <2>14. Vertices(ids, W[j].bs) = D
    BY <1>6, <1>10, <2>13
  <2> QED BY <2>8, <2>14 DEF A
<1>29. h = NewBits(ids, R_prime, W, E)
  BY <1>4, <1>17 DEF NewBits
<1>30. L_prime \subseteq Range(ids)
  BY <1>5
<1>31. Rest_E \subseteq {r \in SetRest(f) : ~(L_prime \subseteq graph_[r])}
  BY <1>14
<1>32. \A r \in SetRest(f) : Cardinality(L_prime \cap graph_[r]) >= min_l_size_ =>
         L_prime \subseteq graph_[r] \/ r \in Rest_E
  BY <1>10, <1>15
<1>a. Rest_E = {e.first : e \in E}
  OBVIOUS
<1>b. \A r \in DOMAIN graph_ \ R_prime :
           Cardinality(L_prime \cap graph_[r]) >= min_l_size_ =>
             \/ r \in Rest_E
             \/ \E j \in 1 .. Len(W) :
                  L_prime \cap graph_[r] \subseteq Vertices(ids, W[j].bs)
  BY <1>28
<1>c. R_prime \subseteq DOMAIN graph_
  BY <1>18
<1>e. Distinct(ids)
  BY <1>5
<1> HIDE DEF Rest_E, R_prime, L_prime
<1>33. AreWitnesses(ids, L_prime, R_prime, Rest_E, W)
  BY <1>23, <1>24, <1>27, <1>b DEF AreWitnesses
<1>f. AreCandidates(ids, L_prime, R_prime, Rest_E, E)
  BY <1>25, <1>26, <1>a DEF AreCandidates
<1>34. BitFrame(h) /\ LSide(h) = L_prime /\ h.R = R_prime /\ BitRest(h) = Rest_E
  BY <1>3, <1>29, <1>30, <1>33, <1>c, <1>e, <1>f, NewBitFrame
<1>35. Inherited(graph_, min_l_size_, f.L, f.R, SetRest(f), c, BitRest(h))
  BY <1>31, <1>32, <1>34 DEF Inherited, L_prime
<1> QED BY <1>34, <1>35 DEF h, L_prime, R_prime

----------------------------------------------------------------------------
(* The witnesses that an entry meets.                                      *)

\* The function that Witnesses defines, up to n.
Unmet(f) == [L_prime |-> f.QC[f.c_start].bs, is_maximal |-> TRUE,
             cleared |-> {}, kept |-> <<>>]
IsMet(f, n, met) ==
  met = [j \in 0 .. n |-> IF j = 0 THEN Unmet(f) ELSE MeetWitness(f, met[j - 1], j)]

\* There is such a function.
LEMMA MetExists ==
  ASSUME NEW f, NEW n \in Nat
  PROVE  \E met : IsMet(f, n, met)
<1> DEFINE Fails == {k \in Nat : ~\E met : IsMet(f, k, met)}
<1> SUFFICES ASSUME Fails # {} PROVE FALSE
  OBVIOUS
<1> DEFINE m == Min(Fails)
<1>1. m \in Fails /\ \A k \in Fails : m <= k
  <2> HIDE DEF Fails
  <2>1. Fails \subseteq Nat
    BY DEF Fails
  <2> QED BY <2>1, MinOfNats
<1> HIDE DEF m
<1>2. m \in Nat /\ ~\E met : IsMet(f, m, met)
  BY <1>1
<1>3. CASE m = 0
  <2> DEFINE met == [j \in 0 .. 0 |-> Unmet(f)]
  <2>1. met = [j \in 0 .. 0 |->
                 IF j = 0 THEN Unmet(f) ELSE MeetWitness(f, met[j - 1], j)]
    OBVIOUS
  <2> QED BY <1>2, <1>3, <2>1 DEF IsMet
<1>4. CASE m > 0
  <2>1. m - 1 \in Nat /\ ~(m <= m - 1)
    BY <1>2, <1>4
  <2>2. PICK old : IsMet(f, m - 1, old)
    BY <1>1, <2>1
  <2> DEFINE met == [j \in 0 .. m |->
                       IF j = m THEN MeetWitness(f, old[m - 1], m) ELSE old[j]]
             Next(j) == IF j = 0 THEN Unmet(f) ELSE MeetWitness(f, met[j - 1], j)
  <2>3. \A j \in 0 .. m - 1 :
          old[j] = IF j = 0 THEN Unmet(f) ELSE MeetWitness(f, old[j - 1], j)
    BY <2>2 DEF IsMet
  <2>4. \A j \in 0 .. m : (j \in 0 .. m - 1 \/ j = m)
                          /\ (j > 0 => j - 1 \in 0 .. m - 1 /\ j - 1 # m)
    BY <1>2
  <2>5. \A j \in 0 .. m - 1 : met[j] = old[j] /\ j # m /\ j \in 0 .. m
    BY <1>2
  <2>6. met[m] = MeetWitness(f, old[m - 1], m)
    BY <1>2
  <2>7. DOMAIN met = 0 .. m /\ met = [j \in 0 .. m |-> met[j]]
    OBVIOUS
  <2> HIDE DEF met
  <2>8. ASSUME NEW j \in 0 .. m
        PROVE  met[j] = Next(j)
    <3>1. CASE j = 0
      <4>1. j \in 0 .. m - 1
        BY <1>4, <2>1, <3>1
      <4> QED BY <2>3, <2>5, <3>1, <4>1
    <3>2. CASE j # 0
      <4>1. j > 0 /\ j - 1 \in 0 .. m - 1
        BY <2>4, <3>2
      <4>2. met[j - 1] = old[j - 1]
        BY <2>5, <4>1
      <4>3. CASE j = m
        BY <2>6, <3>2, <4>2, <4>3
      <4>4. CASE j # m
        <5>1. j \in 0 .. m - 1
          BY <2>4, <4>4
        <5>2. met[j] = MeetWitness(f, old[j - 1], j)
          BY <2>3, <2>5, <3>2, <5>1
        <5> QED BY <3>2, <4>2, <5>2
      <4> QED BY <4>3, <4>4
    <3> QED BY <3>1, <3>2
  <2>9. met = [j \in 0 .. m |-> Next(j)]
    <3> HIDE DEF Next
    <3> QED BY <2>7, <2>8
  <2>10. IsMet(f, m, met)
    BY <2>9 DEF IsMet
  <2> QED BY <1>2, <2>10
<1> QED BY <1>2, <1>3, <1>4

\* Witnesses is its last value.
LEMMA WitnessesMet ==
  ASSUME NEW f, f.c_start \in Nat \ {0}
  PROVE  \E met : /\ IsMet(f, f.c_start - 1, met)
                  /\ Witnesses(f) = met[f.c_start - 1]
<1> DEFINE n == f.c_start - 1
           met == CHOOSE met : IsMet(f, n, met)
<1>1. n \in Nat
  OBVIOUS
<1>2. IsMet(f, n, met)
  <2> HIDE DEF n
  <2>1. \E g : IsMet(f, n, g)
    BY <1>1, MetExists
  <2> QED BY <2>1
<1>3. Witnesses(f) = met[n]
  BY DEF Witnesses, IsMet, Unmet
<1> QED BY <1>2, <1>3

\* What is known when the first k witnesses are met.  The list of those that
\* stay in the activation below is of interest only if there is one.
KeptSoFar(f, k, kept) ==
  LET first == f.QC[f.c_start].bs
  IN  /\ kept \in Seq(BitEntry)
      /\ \A i \in 1 .. Len(kept) : \E j \in 1 .. k :
           kept[i].bs = first \cap f.QC[j].bs
      /\ \A j \in 1 .. k : Cardinality(first \cap f.QC[j].bs) >= min_l_size_ =>
           \E i \in 1 .. Len(kept) : kept[i].bs = first \cap f.QC[j].bs

MetSoFar(f, k, acc) ==
  LET first == f.QC[f.c_start].bs
  IN  /\ first \subseteq acc.L_prime
      /\ \/ acc.L_prime = first
         \/ \E j \in 1 .. k : acc.L_prime = f.QC[j].bs
      /\ acc.is_maximal <=> \A j \in 1 .. k : ~(first \subseteq f.QC[j].bs)
      /\ acc.is_maximal => acc.L_prime = first /\ KeptSoFar(f, k, acc.kept)
      /\ acc.cleared \subseteq 1 .. k
      /\ \A j \in acc.cleared : f.QC[j].bs \subseteq acc.L_prime

\* The list of the next, if it is kept.
LEMMA KeepsNext ==
  ASSUME NEW f, f.QC \in Seq(BitEntry), NEW k \in Nat \ {0}, k \in 1 .. Len(f.QC),
         NEW kept, KeptSoFar(f, k - 1, kept),
         NEW bs, bs = f.QC[f.c_start].bs \cap f.QC[k].bs,
         NEW new, new = (IF Cardinality(bs) >= min_l_size_
                         THEN Append(kept, [f.QC[k] EXCEPT !.bs = bs])
                         ELSE kept)
  PROVE  KeptSoFar(f, k, new)
<1> DEFINE first == f.QC[f.c_start].bs
           e == [f.QC[k] EXCEPT !.bs = bs]
<1>1. /\ kept \in Seq(BitEntry) /\ Len(kept) \in Nat
      /\ \A i \in 1 .. Len(kept) : \E j \in 1 .. k - 1 :
           kept[i].bs = first \cap f.QC[j].bs
      /\ \A j \in 1 .. k - 1 : Cardinality(first \cap f.QC[j].bs) >= min_l_size_ =>
           \E i \in 1 .. Len(kept) : kept[i].bs = first \cap f.QC[j].bs
  BY LenProperties DEF KeptSoFar
<1>2. f.QC[k] \in BitEntry
  BY ElementOfSeq
<1>3. e \in BitEntry /\ e.bs = bs
  <2>1. bs \subseteq Nat
    BY <1>2 DEF BitEntry
  <2> QED BY <1>2, <2>1 DEF BitEntry
<1>4. \A j \in 1 .. k : j \in 1 .. k - 1 \/ j = k
  OBVIOUS
<1>5. \A j \in 1 .. k - 1 : j \in 1 .. k
  OBVIOUS
<1>6. bs = first \cap f.QC[k].bs /\ k \in 1 .. k
  OBVIOUS
<1> HIDE DEF first, e
<1>7. CASE Cardinality(bs) >= min_l_size_
  <2>1. new = Append(kept, e)
    BY <1>7 DEF e
  <2>2. /\ new \in Seq(BitEntry) /\ Len(new) = Len(kept) + 1
        /\ \A i \in 1 .. Len(kept) : new[i] = kept[i]
        /\ new[Len(kept) + 1] = e
    BY <1>1, <1>3, <2>1, AppendProperties
  <2>3. \A i \in 1 .. Len(new) : i \in 1 .. Len(kept) \/ i = Len(kept) + 1
    BY <1>1, <2>2
  <2>4. \A i \in 1 .. Len(kept) : i \in 1 .. Len(new)
    BY <1>1, <2>2
  <2>5. Len(kept) + 1 \in 1 .. Len(new)
    BY <1>1, <2>2
  <2>6. \A i \in 1 .. Len(new) : \E j \in 1 .. k : new[i].bs = first \cap f.QC[j].bs
    <3> TAKE i \in 1 .. Len(new)
    <3>1. CASE i \in 1 .. Len(kept)
      BY <1>1, <1>5, <2>2, <3>1
    <3>2. CASE i = Len(kept) + 1
      BY <1>3, <1>6, <2>2, <3>2
    <3> QED BY <2>3, <3>1, <3>2
  <2>7. ASSUME NEW j \in 1 .. k, Cardinality(first \cap f.QC[j].bs) >= min_l_size_
        PROVE  \E i \in 1 .. Len(new) : new[i].bs = first \cap f.QC[j].bs
    <3>1. CASE j \in 1 .. k - 1
      BY <1>1, <2>2, <2>4, <2>7, <3>1
    <3>2. CASE j = k
      BY <1>3, <1>6, <2>2, <2>5, <3>2
    <3> QED BY <1>4, <3>1, <3>2
  <2> QED BY <2>2, <2>6, <2>7 DEF KeptSoFar, first
<1>8. CASE ~(Cardinality(bs) >= min_l_size_)
  <2>1. new = kept
    BY <1>8
  <2>2. \A i \in 1 .. Len(new) : \E j \in 1 .. k : new[i].bs = first \cap f.QC[j].bs
    BY <1>1, <1>5, <2>1
  <2>3. \A j \in 1 .. k : Cardinality(first \cap f.QC[j].bs) >= min_l_size_ =>
           \E i \in 1 .. Len(new) : new[i].bs = first \cap f.QC[j].bs
    BY <1>1, <1>4, <1>6, <1>8, <2>1
  <2> QED BY <1>1, <2>1, <2>2, <2>3 DEF KeptSoFar, first
<1> QED BY <1>7, <1>8

\* One more is met.
LEMMA MeetsNext ==
  ASSUME NEW f, f.QC \in Seq(BitEntry), NEW k \in Nat \ {0}, k \in 1 .. Len(f.QC),
         NEW old, MetSoFar(f, k - 1, old)
  PROVE  MetSoFar(f, k, MeetWitness(f, old, k))
<1> DEFINE first == f.QC[f.c_start].bs
           e == f.QC[k]
           bs == old.L_prime \cap e.bs
           new == MeetWitness(f, old, k)
<1>1. /\ first \subseteq old.L_prime
      /\ \/ old.L_prime = first
         \/ \E j \in 1 .. k - 1 : old.L_prime = f.QC[j].bs
      /\ old.is_maximal <=> \A j \in 1 .. k - 1 : ~(first \subseteq f.QC[j].bs)
      /\ old.is_maximal => old.L_prime = first /\ KeptSoFar(f, k - 1, old.kept)
      /\ old.cleared \subseteq 1 .. k - 1
      /\ \A j \in old.cleared : f.QC[j].bs \subseteq old.L_prime
  BY DEF MetSoFar
<1>2. /\ new.L_prime = IF bs = old.L_prime THEN e.bs ELSE old.L_prime
      /\ new.is_maximal <=> old.is_maximal /\ bs # old.L_prime
      /\ new.cleared = IF e.bs = bs THEN old.cleared \cup {k} ELSE old.cleared
      /\ new.kept = IF bs # old.L_prime /\ Cardinality(bs) >= min_l_size_
                    THEN Append(old.kept, [e EXCEPT !.bs = bs])
                    ELSE old.kept
  BY DEF MeetWitness
<1>3. \A j : j \in 1 .. k <=> j \in 1 .. k - 1 \/ j = k
  OBVIOUS
<1> HIDE DEF first, new
<1>4. bs = old.L_prime <=> old.L_prime \subseteq e.bs
  OBVIOUS
<1>5. first \subseteq new.L_prime
  BY <1>1, <1>2
<1>6. new.L_prime = first \/ \E j \in 1 .. k : new.L_prime = f.QC[j].bs
  BY <1>1, <1>2, <1>3
<1>7. new.is_maximal <=> \A j \in 1 .. k : ~(first \subseteq f.QC[j].bs)
  <2>1. new.is_maximal <=> old.is_maximal /\ ~(first \subseteq e.bs)
    BY <1>1, <1>2, <1>4
  <2> QED BY <1>1, <1>3, <2>1
<1>8. ASSUME new.is_maximal
      PROVE  new.L_prime = first /\ KeptSoFar(f, k, new.kept)
  <2>1. old.is_maximal /\ bs # old.L_prime /\ old.L_prime = first
        /\ KeptSoFar(f, k - 1, old.kept)
    BY <1>1, <1>2, <1>8
  <2>2. new.L_prime = first
    BY <1>2, <2>1
  <2> DEFINE kept == old.kept
             kept2 == new.kept
             both == f.QC[f.c_start].bs \cap f.QC[k].bs
  <2>3. kept2 = IF Cardinality(both) >= min_l_size_
                THEN Append(kept, [f.QC[k] EXCEPT !.bs = both]) ELSE kept
    BY <1>2, <2>1 DEF first
  <2>4. KeptSoFar(f, k - 1, kept)
    BY <2>1
  <2>5. both = f.QC[f.c_start].bs \cap f.QC[k].bs
    OBVIOUS
  <2> HIDE DEF kept, kept2, both
  <2>6. KeptSoFar(f, k, kept2)
    BY <2>3, <2>4, <2>5, KeepsNext
  <2> QED BY <2>2, <2>6 DEF kept2
<1>9. new.cleared \subseteq 1 .. k
  BY <1>1, <1>2, <1>3
<1>10. \A j \in new.cleared : f.QC[j].bs \subseteq new.L_prime
  <2>1. old.L_prime \subseteq new.L_prime
    BY <1>2
  <2>2. e.bs = bs => e.bs \subseteq new.L_prime
    BY <1>2
  <2>3. \A j \in new.cleared : j \in old.cleared \/ (j = k /\ e.bs = bs)
    BY <1>2
  <2> QED BY <1>1, <2>1, <2>2, <2>3
<1> QED BY <1>5, <1>6, <1>7, <1>8, <1>9, <1>10 DEF MetSoFar, first, new

\* So what is known in the end.
LEMMA MetAll ==
  ASSUME NEW f, f.QC \in Seq(BitEntry), f.c_start \in 1 .. Len(f.QC)
  PROVE  MetSoFar(f, f.c_start - 1, Witnesses(f))
<1> DEFINE n == f.c_start - 1
<1>1. n \in Nat /\ f.c_start \in Nat \ {0} /\ Len(f.QC) \in Nat
  BY LenProperties
<1>2. PICK met : IsMet(f, n, met) /\ Witnesses(f) = met[n]
  BY <1>1, WitnessesMet
<1>3. \A j \in 0 .. n :
        met[j] = IF j = 0 THEN Unmet(f) ELSE MeetWitness(f, met[j - 1], j)
  BY <1>2 DEF IsMet
<1>4. \A k \in 0 .. n : MetSoFar(f, k, met[k])
  <2> DEFINE Fails == {k \in 0 .. n : ~MetSoFar(f, k, met[k])}
             m == Min(Fails)
  <2> SUFFICES ASSUME Fails # {} PROVE FALSE
    OBVIOUS
  <2>1. m \in Fails /\ \A k \in Fails : m <= k
    <3>1. Fails \subseteq Nat
      BY <1>1
    <3> HIDE DEF Fails
    <3> QED BY <3>1, MinOfNats
  <2> HIDE DEF m
  <2>2. m \in 0 .. n /\ ~MetSoFar(f, m, met[m])
    BY <2>1
  <2>3. CASE m = 0
    <3>1. met[0] = Unmet(f)
      BY <1>3, <2>2, <2>3
    <3>2. KeptSoFar(f, 0, <<>>)
      <4>1. <<>> \in Seq(BitEntry) /\ Len(<<>>) = 0
        OBVIOUS
      <4>2. 1 .. 0 = {}
        OBVIOUS
      <4> QED BY <4>1, <4>2 DEF KeptSoFar
    <3>3. MetSoFar(f, 0, Unmet(f))
      <4> DEFINE acc == Unmet(f)
      <4>1. /\ acc.L_prime = f.QC[f.c_start].bs /\ acc.is_maximal = TRUE
            /\ acc.cleared = {} /\ acc.kept = <<>>
        BY DEF Unmet
      <4>2. 1 .. 0 = {}
        OBVIOUS
      <4> HIDE DEF acc
      <4>3. MetSoFar(f, 0, acc)
        BY <3>2, <4>1, <4>2 DEF MetSoFar
      <4> QED BY <4>3 DEF acc
    <3> QED BY <2>2, <2>3, <3>1, <3>3
  <2>4. CASE m # 0
    <3>1. m \in Nat \ {0} /\ m - 1 \in 0 .. n /\ ~(m <= m - 1) /\ m \in 1 .. Len(f.QC)
      BY <1>1, <2>2, <2>4
    <3>2. MetSoFar(f, m - 1, met[m - 1])
      BY <2>1, <3>1
    <3>3. met[m] = MeetWitness(f, met[m - 1], m)
      BY <1>3, <2>2, <2>4
    <3> DEFINE old == met[m - 1]
    <3>4. MetSoFar(f, m - 1, old)
      BY <3>2
    <3> HIDE DEF old
    <3>5. MetSoFar(f, m, MeetWitness(f, old, m))
      BY <3>1, <3>4, MeetsNext
    <3> QED BY <2>2, <3>3, <3>5 DEF old
  <2> QED BY <2>3, <2>4
<1>5. n \in 0 .. n
  BY <1>1
<1> QED BY <1>2, <1>4, <1>5

----------------------------------------------------------------------------
(* The steps of an activation on bitsets.                                  *)

\* What is known of the entry at c_start once its witnesses are met: c_bs is its
\* bitset, L_prime what it is widened to.
LEMMA EntryMet ==
  ASSUME InputOK, NEW f, BitFrame(f), Unfinished(f)
  PROVE  LET e == f.QC[f.c_start]
             w == Witnesses(f)
         IN  /\ MetSoFar(f, f.c_start - 1, w)
             /\ w.L_prime \subseteq Positions(f.ids)
             /\ Vertices(f.ids, e.bs) = LSide(f) \cap graph_[e.first]
             /\ \A j \in 1 .. f.c_start - 1 :
                  j \in 1 .. Len(f.QC) /\ j # f.c_start /\ j < f.c_start
<1> DEFINE e == f.QC[f.c_start]
           w == Witnesses(f)
<1>1. /\ IsBitCandidate(f.ids, LSide(f), f.R, e) /\ e.bs \subseteq Positions(f.ids)
      /\ f.c_start \in 1 .. Len(f.QC) /\ Len(f.QC) \in Nat
  BY BitUpNext
<1>2. f.QC \in Seq(BitEntry)
        /\ \A j \in 1 .. Len(f.QC) : f.QC[j].bs \subseteq Positions(f.ids)
  BY DEF BitFrame
<1>3. MetSoFar(f, f.c_start - 1, w)
  BY <1>1, <1>2, MetAll
<1>4. \A j \in 1 .. f.c_start - 1 :
        j \in 1 .. Len(f.QC) /\ j # f.c_start /\ j < f.c_start
  BY <1>1
<1> HIDE DEF w
<1>5. w.L_prime = e.bs \/ \E j \in 1 .. f.c_start - 1 : w.L_prime = f.QC[j].bs
  BY <1>3 DEF MetSoFar
<1>6. w.L_prime \subseteq Positions(f.ids)
  BY <1>1, <1>2, <1>4, <1>5
<1> QED BY <1>1, <1>3, <1>4, <1>6 DEF IsBitCandidate, w

\* The witnesses show all that hides what the entry leaves.
LEMMA EntryNotHidden ==
  ASSUME InputOK, NEW f, BitFrame(f), Unfinished(f)
  PROVE  LET c == f.QC[f.c_start].first
         IN  Witnesses(f).is_maximal
               <=> ~Hidden(graph_, f.R, c, LSide(f) \cap graph_[c])
<1> DEFINE e == f.QC[f.c_start]
           c == e.first
           L == LSide(f)
           ids == f.ids
<1>1. /\ UpNext(graph_, min_l_size_, L, f.R, BitRest(f), c)
      /\ e.bs \subseteq Positions(ids)
  BY BitUpNext
<1>2. /\ MetSoFar(f, f.c_start - 1, Witnesses(f))
      /\ Vertices(ids, e.bs) = L \cap graph_[c]
      /\ \A j \in 1 .. f.c_start - 1 : j \in 1 .. Len(f.QC)
  BY EntryMet
<1>3. Distinct(ids) /\ \A j \in 1 .. Len(f.QC) : f.QC[j].bs \subseteq Positions(ids)
  BY DEF BitFrame
<1>4. Witnesses(f).is_maximal
        <=> \A j \in 1 .. f.c_start - 1 : ~(e.bs \subseteq f.QC[j].bs)
  BY <1>2 DEF MetSoFar
<1>5. ASSUME NEW j \in 1 .. f.c_start - 1
      PROVE  e.bs \subseteq f.QC[j].bs
               <=> L \cap graph_[c] \subseteq Vertices(ids, f.QC[j].bs)
  <2> DEFINE a == e.bs
             b == f.QC[j].bs
  <2>1. a \subseteq Positions(ids) /\ b \subseteq Positions(ids)
    BY <1>1, <1>2, <1>3
  <2>2. Vertices(ids, a) = L \cap graph_[c]
    BY <1>2
  <2> HIDE DEF a, b, ids, L, c
  <2>3. a \subseteq b <=> Vertices(ids, a) \subseteq Vertices(ids, b)
    BY <1>3, <2>1, Corresponds
  <2> QED BY <2>2, <2>3 DEF a, b
<1>6. ASSUME NEW j \in 1 .. f.c_start - 1, e.bs \subseteq f.QC[j].bs
      PROVE  Hidden(graph_, f.R, c, L \cap graph_[c])
  <2>1. IsWitness(ids, L, f.R, BitRest(f), f.QC[j])
    BY DEF BitFrame
  <2>2. PICK q \in DOMAIN graph_ \ f.R :
          /\ \A s \in BitRest(f) : q < s
          /\ Vertices(ids, f.QC[j].bs) = L \cap graph_[q]
    BY <2>1 DEF IsWitness
  <2>3. q < c
    BY <1>1, <2>2 DEF UpNext
  <2>4. L \cap graph_[c] \subseteq graph_[q]
    BY <1>5, <1>6, <2>2
  <2> QED BY <2>3, <2>4 DEF Hidden
<1>7. ASSUME Hidden(graph_, f.R, c, L \cap graph_[c])
      PROVE  \E j \in 1 .. f.c_start - 1 : e.bs \subseteq f.QC[j].bs
  <2>1. PICK q \in DOMAIN graph_ \ f.R : q < c /\ L \cap graph_[c] \subseteq graph_[q]
    BY <1>7 DEF Hidden
  <2> DEFINE A == L \cap graph_[c]
             B == L \cap graph_[q]
  <2>2. Cardinality(B) >= min_l_size_
    <3>1. IsFiniteSet(B) /\ A \subseteq B
      BY <1>1, <2>1, Finite
    <3>2. Cardinality(A) >= min_l_size_ /\ min_l_size_ \in Nat
      BY <1>1 DEF UpNext
    <3> HIDE DEF A, B
    <3> QED BY <3>1, <3>2, Smaller
  <2>3. q \notin BitRest(f)
    <3>1. q \in Nat /\ c \in Nat
      BY <1>1, <2>1 DEF UpNext
    <3>2. \A s \in BitRest(f) \ {c} : c < s
      BY <1>1 DEF UpNext
    <3> HIDE DEF c
    <3> QED BY <2>1, <3>1, <3>2
  <2>4. PICK j \in 1 .. f.c_start - 1 : B \subseteq Vertices(ids, f.QC[j].bs)
    BY <2>2, <2>3 DEF BitFrame
  <2>5. A \subseteq B
    BY <2>1
  <2>6. e.bs \subseteq f.QC[j].bs
    <3>1. L \cap graph_[c] \subseteq Vertices(ids, f.QC[j].bs)
      BY <2>4, <2>5
    <3> QED BY <1>5, <3>1
  <2> QED BY <2>6
<1> QED BY <1>4, <1>6, <1>7

\* The activation for a maximal entry.
LEMMA BitEntryChildFrame ==
  ASSUME InputOK, NEW f, BitFrame(f), Unfinished(f), Witnesses(f).is_maximal
  PROVE  LET h == BitEntryChild(f)
             c == f.QC[f.c_start].first
         IN  /\ BitFrame(h)
             /\ LSide(h) = LSide(f) \cap graph_[c]
             /\ h.R = f.R \cup {r \in BitRest(f) :
                                  LSide(f) \cap graph_[c] \subseteq graph_[r]}
             /\ Inherited(graph_, min_l_size_, LSide(f), f.R, BitRest(f), c,
                          BitRest(h))
             /\ Vertices(f.ids, Witnesses(f).L_prime) = LSide(f) \cap graph_[c]
<1> DEFINE h == BitEntryChild(f)
           c == f.QC[f.c_start].first
           c_bs == f.QC[f.c_start].bs
           w == Witnesses(f)
           L == LSide(f)
           L_prime == L \cap graph_[c]
           R_prime == f.R \cup {r \in BitRest(f) : L_prime \subseteq graph_[r]}
           ids == f.ids
           Entry(e) == [e EXCEPT !.bs = @ \cap c_bs]
           later == {Entry(e) : e \in {f.QC[j] : j \in f.c_start + 1 .. Len(f.QC)}}
           full == {e \in later : e.bs = c_bs}
           E == {e \in later \ full : Cardinality(e.bs) >= min_l_size_}
           W == w.kept
           Rest_E == {e.first : e \in E}
<1>1. /\ UpNext(graph_, min_l_size_, L, f.R, BitRest(f), c)
      /\ c_bs \subseteq Positions(ids)
      /\ f.c_start \in 1 .. Len(f.QC) /\ Len(f.QC) \in Nat
  BY BitUpNext
<1>2. /\ MetSoFar(f, f.c_start - 1, w)
      /\ Vertices(ids, c_bs) = L_prime
      /\ \A j \in 1 .. f.c_start - 1 : j \in 1 .. Len(f.QC)
  BY EntryMet
<1>3. ~Hidden(graph_, f.R, c, L_prime)
  BY EntryNotHidden
<1>4. w.L_prime = c_bs /\ KeptSoFar(f, f.c_start - 1, W)
        /\ \A j \in 1 .. f.c_start - 1 : ~(c_bs \subseteq f.QC[j].bs)
  BY <1>2 DEF MetSoFar
<1>5. h = NewBits(ids, f.R \cup {c} \cup {e.first : e \in full}, W, E)
  BY <1>4 DEF BitEntryChild, NewBits
<1> HIDE DEF h, w, W
<1>6. /\ f.QC \in Seq(BitEntry) /\ Distinct(ids)
      /\ \A j \in 1 .. Len(f.QC) : /\ f.QC[j].bs \subseteq Positions(ids)
                                   /\ f.QC[j] \in BitEntry
      /\ Node(graph_, L, f.R) /\ L \subseteq Range(ids)
  BY ElementOfSeq DEF BitFrame
<1>7. Node(graph_, L_prime, R_prime)
  BY <1>1, <1>3, Child
<1>8. c \in R_prime /\ c \in BitRest(f) /\ L_prime \subseteq graph_[c]
  BY <1>1 DEF UpNext
<1>9. /\ \A r \in R_prime : r \in DOMAIN graph_ /\ L_prime \subseteq graph_[r]
      /\ \A r \in DOMAIN graph_ : L_prime \subseteq graph_[r] => r \in R_prime
      /\ R_prime \subseteq DOMAIN graph_
  BY <1>7, NodeSides
<1>10. ASSUME NEW a, a \subseteq Positions(ids)
       PROVE  /\ Vertices(ids, a \cap c_bs) = Vertices(ids, a) \cap L_prime
              /\ a \cap c_bs \subseteq Positions(ids)
              /\ a \cap c_bs = c_bs <=> L_prime \subseteq Vertices(ids, a)
              /\ Cardinality(a \cap c_bs) = Cardinality(Vertices(ids, a) \cap L_prime)
  <2> DEFINE b == c_bs
             d == a \cap b
             I == ids
  <2>1. b \subseteq Positions(I) /\ d \subseteq Positions(I) /\ Vertices(I, b) = L_prime
        /\ d = a \cap b /\ Distinct(I)
    BY <1>1, <1>2, <1>6
  <2> HIDE DEF b, d, I, L_prime
  <2>2. Vertices(I, a \cap b) = Vertices(I, a) \cap Vertices(I, b)
    BY <1>10, <2>1, Corresponds DEF I
  <2>3. b \subseteq a <=> Vertices(I, b) \subseteq Vertices(I, a)
    BY <1>10, <2>1, Corresponds DEF I
  <2>4. Cardinality(Vertices(I, d)) = Cardinality(d)
    BY <2>1, VertexCount
  <2>5. d = b <=> b \subseteq a
    BY <2>1
  <2> QED BY <2>1, <2>2, <2>3, <2>4, <2>5 DEF d, b, I
\* What is known of the entries after c_start.
<1> DEFINE Shows(e, r) == /\ e.first = r /\ e \in BitEntry
                          /\ e.bs \subseteq Positions(ids)
                          /\ Vertices(ids, e.bs) = L_prime \cap graph_[r]
                          /\ e.bs = c_bs <=> L_prime \subseteq graph_[r]
                          /\ Cardinality(e.bs) = Cardinality(L_prime \cap graph_[r])
<1>11. ASSUME NEW j \in f.c_start + 1 .. Len(f.QC)
       PROVE  /\ f.QC[j].first \in BitRest(f) \ {c}
              /\ Shows(Entry(f.QC[j]), f.QC[j].first)
  <2> DEFINE e == f.QC[j]
             r == e.first
             a == e.bs
  <2>1. j \in f.c_start .. Len(f.QC) /\ f.c_start < j /\ j \in 1 .. Len(f.QC)
        /\ f.c_start \in f.c_start .. Len(f.QC)
    BY <1>1
  <2>2. IsBitCandidate(ids, L, f.R, e) /\ c < r
    BY <2>1 DEF BitFrame
  <2>3. r \in BitRest(f)
    BY <2>1 DEF BitRest
  <2>4. c \in Nat /\ r \in DOMAIN graph_ /\ r \in Nat
    BY <1>1, <2>2 DEF UpNext, IsBitCandidate
  <2>5. r # c
    <3> HIDE DEF r, c
    <3> QED BY <2>2, <2>4
  <2>6. Vertices(ids, a) = L \cap graph_[r] /\ a \subseteq Positions(ids) /\ e \in BitEntry
    BY <1>6, <2>1, <2>2 DEF IsBitCandidate
  <2>7. Vertices(ids, a) \cap L_prime = L_prime \cap graph_[r]
    BY <2>6
  <2>8. L_prime \subseteq Vertices(ids, a) <=> L_prime \subseteq graph_[r]
    BY <2>6
  <2>9. a \cap c_bs \subseteq Nat
    BY <2>6 DEF BitEntry
  <2>10. Entry(e) \in BitEntry /\ Entry(e).first = r /\ Entry(e).bs = a \cap c_bs
    <3> DEFINE d == a \cap c_bs
    <3>1. Entry(e) = [e EXCEPT !.bs = d]
      BY <2>6 DEF BitEntry
    <3>2. d \subseteq Nat
      BY <2>9
    <3> HIDE DEF d, Entry
    <3>3. Entry(e) \in BitEntry /\ Entry(e).first = r /\ Entry(e).bs = d
      BY <2>6, <3>1, <3>2 DEF BitEntry
    <3> QED BY <3>3 DEF d
  <2> DEFINE d == Entry(e)
  <2> HIDE DEF Entry, d
  <2>11. Shows(d, r)
    <3> HIDE DEF L_prime, c_bs, a, r, ids
    <3>1. d \in BitEntry /\ d.first = r /\ d.bs = a \cap c_bs
      BY <2>10 DEF d
    <3>2. /\ Vertices(ids, a \cap c_bs) = Vertices(ids, a) \cap L_prime
          /\ a \cap c_bs \subseteq Positions(ids)
          /\ a \cap c_bs = c_bs <=> L_prime \subseteq Vertices(ids, a)
          /\ Cardinality(a \cap c_bs) = Cardinality(Vertices(ids, a) \cap L_prime)
      BY <1>10, <2>6
    <3>3. d.bs \subseteq Positions(ids)
          /\ Vertices(ids, d.bs) = L_prime \cap graph_[r]
      BY <2>7, <3>1, <3>2
    <3>4. d.bs = c_bs <=> L_prime \subseteq graph_[r]
      BY <2>8, <3>1, <3>2
    <3>5. Cardinality(d.bs) = Cardinality(L_prime \cap graph_[r])
      BY <2>7, <3>1, <3>2
    <3> QED BY <3>1, <3>3, <3>4, <3>5
  <2> QED BY <2>3, <2>5, <2>11 DEF d
<1>12. \A r \in BitRest(f) \ {c} : \E j \in f.c_start + 1 .. Len(f.QC) : f.QC[j].first = r
  <2> TAKE r \in BitRest(f) \ {c}
  <2>1. PICK j \in f.c_start .. Len(f.QC) : f.QC[j].first = r
    BY DEF BitRest
  <2>2. j # f.c_start
    BY <2>1
  <2> QED BY <1>1, <2>1, <2>2
<1>13. \A e \in later : /\ e.first \in BitRest(f) \ {c} /\ Shows(e, e.first)
  <2> TAKE e \in later
  <2>1. PICK j \in f.c_start + 1 .. Len(f.QC) : e = Entry(f.QC[j])
    OBVIOUS
  <2> HIDE DEF Entry
  <2> QED BY <1>11, <2>1
<1>14. \A r \in BitRest(f) \ {c} : \E e \in later : Shows(e, r)
  <2> TAKE r \in BitRest(f) \ {c}
  <2>1. PICK j \in f.c_start + 1 .. Len(f.QC) : f.QC[j].first = r
    BY <1>12
  <2>2. Entry(f.QC[j]) \in later
    OBVIOUS
  <2> HIDE DEF Entry, later
  <2> QED BY <1>11, <2>1, <2>2
<1> HIDE DEF later, c_bs
<1>15. {e.first : e \in full} = {r \in BitRest(f) \ {c} : L_prime \subseteq graph_[r]}
  <2>1. \A e \in full : e.first \in BitRest(f) \ {c} /\ L_prime \subseteq graph_[e.first]
    BY <1>13
  <2>2. ASSUME NEW r \in BitRest(f) \ {c}, L_prime \subseteq graph_[r]
        PROVE  \E e \in full : e.first = r
    BY <1>14, <2>2
  <2> HIDE DEF full, L_prime, c
  <2> QED BY <2>1, <2>2
<1>16. f.R \cup {c} \cup {e.first : e \in full} = R_prime
  <2> HIDE DEF full, L_prime, c
  <2> QED BY <1>8, <1>15
<1>17. \A e \in E : /\ e.first \in BitRest(f) \ {c} /\ Shows(e, e.first)
                    /\ ~(L_prime \subseteq graph_[e.first])
                    /\ Cardinality(e.bs) >= min_l_size_
  BY <1>13
<1>18. \A r \in BitRest(f) \ {c} :
         /\ ~(L_prime \subseteq graph_[r])
         /\ Cardinality(L_prime \cap graph_[r]) >= min_l_size_
         => r \in Rest_E
  BY <1>14
<1> HIDE DEF E, full
<1>19. BitRest(f) \subseteq DOMAIN graph_ \ f.R
  BY <1>1 DEF UpNext
<1>20. AreCandidates(ids, L_prime, R_prime, Rest_E, E)
  <2>1. E \subseteq BitEntry
    BY <1>17
  <2>2. \A e \in E : e.bs \subseteq Positions(ids) /\ IsBitCandidate(ids, L_prime, R_prime, e)
    <3> TAKE e \in E
    <3>1. e.first \in DOMAIN graph_ \ R_prime
      BY <1>9, <1>17, <1>19
    <3>2. /\ e.bs \subseteq Positions(ids)
          /\ Vertices(ids, e.bs) = L_prime \cap graph_[e.first]
          /\ Cardinality(e.bs) >= min_l_size_
      BY <1>17
    <3> HIDE DEF R_prime, L_prime, ids
    <3> QED BY <3>1, <3>2 DEF IsBitCandidate
  <2> HIDE DEF R_prime, L_prime, ids
  <2> QED BY <2>1, <2>2 DEF AreCandidates
\* What is known of the witnesses that are kept.
<1>21. /\ W \in Seq(BitEntry)
       /\ \A i \in 1 .. Len(W) : \E j \in 1 .. f.c_start - 1 :
            W[i].bs = f.QC[j].bs \cap c_bs
       /\ \A j \in 1 .. f.c_start - 1 :
            Cardinality(f.QC[j].bs \cap c_bs) >= min_l_size_ =>
              \E i \in 1 .. Len(W) : W[i].bs = f.QC[j].bs \cap c_bs
  <2>1. \A j : f.QC[j].bs \cap c_bs = c_bs \cap f.QC[j].bs
    OBVIOUS
  <2>2. /\ W \in Seq(BitEntry)
        /\ \A i \in 1 .. Len(W) : \E j \in 1 .. f.c_start - 1 :
             W[i].bs = c_bs \cap f.QC[j].bs
        /\ \A j \in 1 .. f.c_start - 1 :
             Cardinality(c_bs \cap f.QC[j].bs) >= min_l_size_ =>
               \E i \in 1 .. Len(W) : W[i].bs = c_bs \cap f.QC[j].bs
    BY <1>4 DEF KeptSoFar, c_bs
  <2> QED BY <2>1, <2>2
<1>22. ASSUME NEW i \in 1 .. Len(W)
       PROVE  /\ W[i].bs \subseteq Positions(ids)
              /\ IsWitness(ids, L_prime, R_prime, Rest_E, W[i])
  <2>1. PICK j \in 1 .. f.c_start - 1 : W[i].bs = f.QC[j].bs \cap c_bs
    BY <1>21
  <2> DEFINE a == f.QC[j].bs
  <2>2. IsWitness(ids, L, f.R, BitRest(f), f.QC[j])
    BY DEF BitFrame
  <2>3. PICK q \in DOMAIN graph_ \ f.R : /\ \A s \in BitRest(f) : q < s
                                         /\ Vertices(ids, a) = L \cap graph_[q]
    BY <2>2 DEF IsWitness
  <2>4. a \subseteq Positions(ids)
    BY <1>2, <1>6
  <2>5. Vertices(ids, W[i].bs) = L_prime \cap graph_[q]
    <3>1. Vertices(ids, a \cap c_bs) = Vertices(ids, a) \cap L_prime
      BY <1>10, <2>4
    <3> QED BY <2>1, <2>3, <3>1
  <2>6. q \notin BitRest(f)
    <3>1. q \in Nat
      BY VerticesBelow
    <3> QED BY <2>3, <3>1
  <2>7. q \notin R_prime
    BY <2>6
  <2>8. \A s \in Rest_E : q < s
    BY <1>17, <2>3
  <2>9. W[i].bs \subseteq Positions(ids)
    BY <2>1, <2>4
  <2> QED BY <2>5, <2>7, <2>8, <2>9 DEF IsWitness
<1>23. ASSUME NEW r \in DOMAIN graph_ \ R_prime, r \notin Rest_E,
              Cardinality(L_prime \cap graph_[r]) >= min_l_size_
       PROVE  \E i \in 1 .. Len(W) :
                L_prime \cap graph_[r] \subseteq Vertices(ids, W[i].bs)
  <2>1. r \notin f.R /\ r # c /\ ~(L_prime \subseteq graph_[r])
    BY <1>8, <1>9, <1>23
  <2>2. r \notin BitRest(f)
    BY <1>18, <1>23, <2>1
  <2> DEFINE A == L_prime \cap graph_[r]
             B == L \cap graph_[r]
  <2>3. IsFiniteSet(B) /\ A \subseteq B /\ min_l_size_ \in Nat
    <3>1. \A s \in DOMAIN graph_ : IsFiniteSet(L \cap graph_[s])
      BY <1>1, Finite
    <3> QED BY <3>1 DEF InputOK
  <2>4. Cardinality(A) >= min_l_size_
    BY <1>23
  <2>5. Cardinality(B) >= min_l_size_
    <3> HIDE DEF A, B
    <3> QED BY <2>3, <2>4, Smaller
  <2>6. PICK j \in 1 .. f.c_start - 1 : B \subseteq Vertices(ids, f.QC[j].bs)
    BY <2>1, <2>2, <2>5 DEF BitFrame
  <2> DEFINE a == f.QC[j].bs
             D == Vertices(ids, a) \cap L_prime
  <2>7. a \subseteq Positions(ids)
    BY <1>2, <1>6
  <2>8. /\ Vertices(ids, a \cap c_bs) = D /\ Cardinality(a \cap c_bs) = Cardinality(D)
    BY <1>10, <2>7
  <2>9. A \subseteq D
    BY <2>3, <2>6
  <2>10. IsFiniteSet(D)
    <3>1. IsFiniteSet(L \cap graph_[c]) /\ D \subseteq L \cap graph_[c]
      BY <1>1, Finite
    <3> QED BY <3>1, FS_Subset
  <2>11. Cardinality(D) >= min_l_size_
    <3> HIDE DEF A, D
    <3> QED BY <2>3, <2>4, <2>9, <2>10, Smaller
  <2>12. PICK i \in 1 .. Len(W) : W[i].bs = a \cap c_bs
    BY <1>21, <2>8, <2>11
  <2> QED BY <2>8, <2>9, <2>12
<1>24. AreWitnesses(ids, L_prime, R_prime, Rest_E, W)
  <2> HIDE DEF R_prime, L_prime, ids, Rest_E
  <2> QED BY <1>21, <1>22, <1>23 DEF AreWitnesses
<1>25. Rest_E \subseteq {r \in BitRest(f) : ~(L_prime \subseteq graph_[r])}
  BY <1>17
<1>26. \A r \in BitRest(f) : Cardinality(L_prime \cap graph_[r]) >= min_l_size_ =>
         L_prime \subseteq graph_[r] \/ r \in Rest_E
  BY <1>8, <1>18
<1>27. R_prime \subseteq DOMAIN graph_
  BY <1>9
<1>28. Distinct(ids)
  BY <1>6
<1>29. L_prime \subseteq Range(ids)
  BY <1>6
<1>30. h = NewBits(ids, R_prime, W, E)
  BY <1>5, <1>16
<1> HIDE DEF Rest_E, R_prime, L_prime, ids
<1>31. BitFrame(h) /\ LSide(h) = L_prime /\ h.R = R_prime /\ BitRest(h) = Rest_E
  BY <1>7, <1>20, <1>24, <1>27, <1>28, <1>29, <1>30, NewBitFrame
<1>32. Inherited(graph_, min_l_size_, L, f.R, BitRest(f), c, BitRest(h))
  BY <1>25, <1>26, <1>31 DEF Inherited, L_prime
<1>33. Vertices(ids, w.L_prime) = L_prime
  BY <1>2, <1>4
<1> QED BY <1>31, <1>32, <1>33 DEF h, L_prime, R_prime, w, ids

\* The activation after an entry.
LEMMA BitConsumedFrame ==
  ASSUME InputOK, NEW f, BitFrame(f), Unfinished(f)
  PROVE  LET g == BitConsumed(f)
         IN  /\ BitFrame(g) /\ g.R = f.R
             /\ Remains(graph_, LSide(f), f.R, BitRest(f),
                        f.QC[f.c_start].first, BitRest(g))
<1> DEFINE g == BitConsumed(f)
           cs == f.c_start
           c == f.QC[cs].first
           c_bs == f.QC[cs].bs
           w == Witnesses(f)
           L == LSide(f)
           ids == f.ids
           L_prime == w.L_prime
           gone == w.cleared \cup {j \in cs + 1 .. Len(f.QC) :
                                     f.QC[j].bs \subseteq L_prime}
           QC == [f.QC EXCEPT ![cs].bs = L_prime]
           S == DOMAIN QC \ gone
           stay == List(S)
           D == {j \in S : j <= cs}
           n == Cardinality(D)
           C2 == [k \in DOMAIN stay |-> QC[stay[k]]]
<1>1. /\ UpNext(graph_, min_l_size_, L, f.R, BitRest(f), c)
      /\ IsBitCandidate(ids, L, f.R, f.QC[cs])
      /\ c_bs \subseteq Positions(ids)
      /\ cs \in 1 .. Len(f.QC) /\ Len(f.QC) \in Nat
  BY BitUpNext
<1>2. /\ MetSoFar(f, cs - 1, w)
      /\ L_prime \subseteq Positions(ids)
      /\ Vertices(ids, c_bs) = L \cap graph_[c]
      /\ \A j \in 1 .. cs - 1 : j \in 1 .. Len(f.QC) /\ j # cs /\ j < cs
  BY EntryMet
<1>3. /\ f \in [mode : {"bit"}, ids : Seq(Nat), R : SUBSET DOMAIN graph_,
                QC : Seq(BitEntry), c_start : Nat]
      /\ f.QC \in Seq(BitEntry) /\ Distinct(ids)
      /\ \A j \in 1 .. Len(f.QC) : /\ f.QC[j].bs \subseteq Positions(ids)
                                   /\ f.QC[j] \in BitEntry
      /\ Node(graph_, L, f.R) /\ L \subseteq Range(ids)
  BY ElementOfSeq DEF BitFrame
<1>4. g = [f EXCEPT !.QC = C2, !.c_start = n + 1]
  BY DEF BitConsumed
<1> HIDE DEF g, w, L, ids
<1>5. /\ c_bs \subseteq L_prime
      /\ L_prime = c_bs \/ \E j \in 1 .. cs - 1 : L_prime = f.QC[j].bs
      /\ w.cleared \subseteq 1 .. cs - 1
      /\ \A j \in w.cleared : f.QC[j].bs \subseteq L_prime
  BY <1>2 DEF MetSoFar
<1> HIDE DEF L_prime, cs
<1>6. DOMAIN f.QC = 1 .. Len(f.QC)
  BY <1>3
<1>7. /\ DOMAIN QC = 1 .. Len(f.QC)
      /\ \A j \in 1 .. Len(f.QC) : j # cs => QC[j] = f.QC[j]
      /\ QC[cs] = [f.QC[cs] EXCEPT !.bs = L_prime]
  BY <1>1, <1>6
<1>8. Positions(ids) \subseteq Nat
  <2>1. Len(ids) \in Nat
    BY <1>3, LenProperties DEF Distinct
  <2> QED BY <2>1 DEF Positions
<1>9. QC[cs] \in BitEntry /\ QC[cs].first = c /\ QC[cs].bs = L_prime
  <2>1. f.QC[cs] \in BitEntry /\ L_prime \subseteq Nat
    BY <1>1, <1>2, <1>3, <1>8
  <2> QED BY <1>7, <2>1 DEF BitEntry
<1> HIDE DEF QC
<1>10. \A j \in 1 .. Len(f.QC) : /\ QC[j] \in BitEntry
                                 /\ QC[j].bs \subseteq Positions(ids)
                                 /\ QC[j].first = f.QC[j].first
  <2> TAKE j \in 1 .. Len(f.QC)
  <2>1. CASE j = cs
    BY <1>2, <1>9, <2>1
  <2>2. CASE j # cs
    BY <1>3, <1>7, <2>2
  <2> QED BY <2>1, <2>2
<1>11. /\ gone \subseteq 1 .. Len(f.QC) /\ cs \notin gone
       /\ \A j \in gone : f.QC[j].bs \subseteq L_prime
  <2>1. \A j \in w.cleared : j \in 1 .. Len(f.QC) /\ j # cs
    BY <1>2, <1>5
  <2>2. \A j \in cs + 1 .. Len(f.QC) : j \in 1 .. Len(f.QC) /\ j # cs
    BY <1>1
  <2> QED BY <1>5, <2>1, <2>2
<1> HIDE DEF gone
<1>12. \A j : j \in S <=> j \in 1 .. Len(f.QC) /\ j \notin gone
  BY <1>7
<1>13. S \subseteq Nat /\ IsFiniteSet(S)
  <2>1. S \subseteq 1 .. Len(f.QC)
    BY <1>12
  <2>2. IsFiniteSet(1 .. Len(f.QC))
    BY <1>1, FS_Interval
  <2>3. S \subseteq Nat
    BY <2>1
  <2> HIDE DEF S
  <2>4. IsFiniteSet(S)
    BY <2>1, <2>2, FS_Subset
  <2> QED BY <2>3, <2>4
<1> HIDE DEF S
<1>14. /\ Lists(stay, S)
       /\ \A i, j \in 1 .. Len(stay) : i < j => stay[i] < stay[j]
  BY <1>13, ListSorts
<1> HIDE DEF stay
<1>15. /\ Len(stay) \in Nat /\ DOMAIN stay = 1 .. Len(stay)
       /\ \A k \in 1 .. Len(stay) : /\ stay[k] \in S /\ stay[k] \in 1 .. Len(f.QC)
                                    /\ stay[k] \in Nat
       /\ \A j \in S : \E k \in 1 .. Len(stay) : stay[k] = j
  <2>1. stay \in Seq(S)
    BY <1>14 DEF Lists
  <2>2. \A k \in 1 .. Len(stay) : stay[k] \in S
    BY <2>1, ElementOfSeq
  <2> QED BY <1>12, <1>13, <1>14, <2>1, <2>2, LenProperties DEF Lists
<1>16. /\ n \in 0 .. Len(stay) /\ n \in Nat
       /\ \A k \in 1 .. Len(stay) : stay[k] <= cs <=> k <= n
  <2>1. D \subseteq S
    OBVIOUS
  <2>2. cs \in Nat
    BY <1>1
  <2>3. \A i, j \in 1 .. Len(stay) : i < j /\ stay[j] \in D => stay[i] \in D
    BY <1>14, <1>15, <2>2
  <2>4. \A k \in 1 .. Len(stay) : stay[k] \in D <=> stay[k] <= cs
    BY <1>15
  <2> HIDE DEF D
  <2>5. /\ Cardinality(D) \in 0 .. Len(stay)
        /\ \A k \in 1 .. Len(stay) : stay[k] \in D <=> k <= Cardinality(D)
    BY <1>14, <2>1, <2>3, Beginning
  <2> QED BY <1>15, <2>4, <2>5
<1> HIDE DEF n, D
<1>17. /\ C2 \in Seq(BitEntry) /\ Len(C2) = Len(stay)
       /\ \A k \in 1 .. Len(stay) : C2[k] = QC[stay[k]]
  <2> DEFINE m == Len(stay)
  <2>1. C2 \in [1 .. m -> BitEntry] /\ m \in Nat
    BY <1>10, <1>15
  <2>2. \A k \in 1 .. Len(stay) : C2[k] = QC[stay[k]]
    BY <1>15
  <2> HIDE DEF m, C2
  <2>3. C2 \in Seq(BitEntry) /\ Len(C2) = m
    BY <2>1, IsSequence
  <2> QED BY <2>2, <2>3 DEF m
<1> HIDE DEF C2
<1>18. /\ g \in [mode : {"bit"}, ids : Seq(Nat), R : SUBSET DOMAIN graph_,
                 QC : Seq(BitEntry), c_start : Nat]
       /\ g.ids = ids /\ g.R = f.R /\ g.QC = C2 /\ g.c_start = n + 1
  <2> DEFINE m == n + 1
  <2>1. m \in Nat
    BY <1>16
  <2> HIDE DEF m
  <2>2. g.ids = f.ids /\ g.R = f.R /\ g.QC = C2 /\ g.c_start = m
    BY <1>3, <1>4 DEF m
  <2>3. g = [f EXCEPT !.QC = C2, !.c_start = m]
    BY <1>4 DEF m
  <2>4. g \in [mode : {"bit"}, ids : Seq(Nat), R : SUBSET DOMAIN graph_,
               QC : Seq(BitEntry), c_start : Nat]
    BY <1>3, <1>17, <2>1, <2>3
  <2> QED BY <2>2, <2>4 DEF m, ids
<1>19. LSide(g) = L
  BY <1>18 DEF LSide, L
\* The entries of g.
<1>20. \A k \in 1 .. n : k \in 1 .. Len(stay) /\ stay[k] <= cs
  BY <1>15, <1>16
<1>21. \A k \in n + 1 .. Len(stay) :
         k \in 1 .. Len(stay) /\ stay[k] \in cs + 1 .. Len(f.QC)
  <2> TAKE k \in n + 1 .. Len(stay)
  <2>1. k \in 1 .. Len(stay) /\ ~(k <= n)
    BY <1>15, <1>16
  <2> QED BY <1>1, <1>15, <1>16, <2>1
<1>22. \A j \in S : /\ j <= cs => \E k \in 1 .. n : stay[k] = j
                    /\ ~(j <= cs) => \E k \in n + 1 .. Len(stay) : stay[k] = j
  <2> TAKE j \in S
  <2>1. PICK k \in 1 .. Len(stay) : stay[k] = j
    BY <1>15
  <2>2. j <= cs <=> k <= n
    BY <1>16, <2>1
  <2> QED BY <1>15, <1>16, <2>1, <2>2
<1>23. \A j \in cs + 1 .. Len(f.QC) :
         /\ j \in cs .. Len(f.QC) /\ j \in 1 .. Len(f.QC) /\ j # cs /\ ~(j <= cs)
         /\ QC[j] = f.QC[j]
  <2> TAKE j \in cs + 1 .. Len(f.QC)
  <2>1. j \in cs .. Len(f.QC) /\ j \in 1 .. Len(f.QC) /\ j # cs /\ ~(j <= cs)
    BY <1>1
  <2> QED BY <1>7, <2>1
<1>24. cs \in S /\ cs \in cs .. Len(f.QC) /\ cs <= cs
  BY <1>1, <1>11, <1>12
<1>25. /\ \A j \in cs .. Len(f.QC) : IsBitCandidate(ids, L, f.R, f.QC[j])
       /\ \A i, j \in cs .. Len(f.QC) : i < j => f.QC[i].first < f.QC[j].first
       /\ \A j \in 1 .. cs - 1 : IsWitness(ids, L, f.R, BitRest(f), f.QC[j])
       /\ \A r \in DOMAIN graph_ \ f.R : Cardinality(L \cap graph_[r]) >= min_l_size_ =>
            \/ r \in BitRest(f)
            \/ \E j \in 1 .. cs - 1 :
                 L \cap graph_[r] \subseteq Vertices(ids, f.QC[j].bs)
  BY DEF BitFrame, L, ids, cs
<1>26. \A r : r \in BitRest(f) <=> \E j \in cs .. Len(f.QC) : r = f.QC[j].first
  BY DEF BitRest, cs
<1>27. \A r : r \in BitRest(g) <=> \E k \in n + 1 .. Len(stay) : r = f.QC[stay[k]].first
  <2>1. \A k \in n + 1 .. Len(stay) : C2[k].first = f.QC[stay[k]].first
    BY <1>10, <1>15, <1>17, <1>21
  <2>2. \A r : r \in BitRest(g) <=> \E k \in n + 1 .. Len(stay) : r = C2[k].first
    BY <1>17, <1>18 DEF BitRest
  <2> QED BY <2>1, <2>2
<1>28. c \in Nat /\ c \in BitRest(f) /\ BitRest(f) \subseteq DOMAIN graph_ \ f.R
       /\ \A s \in BitRest(f) \ {c} : c < s
  BY <1>1 DEF UpNext
<1>29. BitRest(g) \subseteq BitRest(f) \ {c}
  <2> SUFFICES ASSUME NEW k \in n + 1 .. Len(stay)
               PROVE  f.QC[stay[k]].first \in BitRest(f) \ {c}
    BY <1>27
  <2> DEFINE r == f.QC[stay[k]].first
  <2>1. stay[k] \in cs .. Len(f.QC) /\ cs < stay[k]
    BY <1>1, <1>21
  <2>2. r \in BitRest(f) /\ c < r
    BY <1>24, <1>25, <1>26, <2>1
  <2>3. r \in Nat
    BY <1>28, <2>2, VerticesBelow
  <2>4. r # c
    <3> HIDE DEF r, c
    <3> QED BY <1>28, <2>2, <2>3
  <2> QED BY <2>2, <2>4
<1>30. \A s \in BitRest(g) : c < s
  BY <1>28, <1>29
\* What has gone lies inside L_prime, which a vertex up to c shows of itself.
<1>31. ASSUME NEW j \in 1 .. Len(f.QC), f.QC[j].bs \subseteq L_prime
       PROVE  Vertices(ids, f.QC[j].bs) \subseteq Vertices(ids, L_prime)
  <2> DEFINE a == f.QC[j].bs
  <2>1. a \subseteq Positions(ids) /\ a \subseteq L_prime
    BY <1>3, <1>31
  <2> HIDE DEF a
  <2>2. a \subseteq L_prime <=> Vertices(ids, a) \subseteq Vertices(ids, L_prime)
    BY <1>2, <1>3, <2>1, Corresponds
  <2> QED BY <2>1, <2>2 DEF a
<1>32. PICK q \in DOMAIN graph_ \ f.R :
         /\ q = c \/ q < c
         /\ Vertices(ids, L_prime) = L \cap graph_[q]
         /\ \A s \in BitRest(g) : q < s
  <2>1. CASE L_prime = c_bs
    BY <1>2, <1>28, <1>30, <2>1
  <2>2. ASSUME NEW j \in 1 .. cs - 1, L_prime = f.QC[j].bs
        PROVE  \E q \in DOMAIN graph_ \ f.R :
                 /\ q < c
                 /\ Vertices(ids, L_prime) = L \cap graph_[q]
                 /\ \A s \in BitRest(g) : q < s
    <3>1. IsWitness(ids, L, f.R, BitRest(f), f.QC[j])
      BY <1>25
    <3>2. PICK q \in DOMAIN graph_ \ f.R :
            /\ \A s \in BitRest(f) : q < s
            /\ Vertices(ids, f.QC[j].bs) = L \cap graph_[q]
      BY <3>1 DEF IsWitness
    <3> QED BY <1>28, <1>29, <2>2, <3>2
  <2>3. L_prime = c_bs \/ \E j \in 1 .. cs - 1 : L_prime = f.QC[j].bs
    BY <1>5
  <2> HIDE DEF c
  <2> QED BY <2>1, <2>2, <2>3
<1>33. f.QC[cs].bs \subseteq L_prime
  BY <1>5
<1> HIDE DEF c, c_bs
<1>34. g.c_start \in 1 .. Len(g.QC) + 1
  BY <1>15, <1>16, <1>17, <1>18
<1>35. \A k \in 1 .. Len(g.QC) : g.QC[k].bs \subseteq Positions(g.ids)
  <2> SUFFICES ASSUME NEW k \in 1 .. Len(stay)
               PROVE  C2[k].bs \subseteq Positions(ids)
    BY <1>17, <1>18
  <2> QED BY <1>10, <1>15, <1>17
<1>36. \A k \in g.c_start .. Len(g.QC) :
         IsBitCandidate(g.ids, LSide(g), g.R, g.QC[k])
  <2> SUFFICES ASSUME NEW k \in n + 1 .. Len(stay)
               PROVE  IsBitCandidate(ids, L, f.R, C2[k])
    BY <1>17, <1>18, <1>19
  <2>1. stay[k] \in cs .. Len(f.QC) /\ C2[k] = f.QC[stay[k]]
    BY <1>17, <1>21, <1>23
  <2> QED BY <1>25, <2>1
<1>37. \A k, l \in g.c_start .. Len(g.QC) : k < l => g.QC[k].first < g.QC[l].first
  <2> SUFFICES ASSUME NEW k \in n + 1 .. Len(stay), NEW l \in n + 1 .. Len(stay),
                      k < l
               PROVE  C2[k].first < C2[l].first
    BY <1>17, <1>18
  <2>1. stay[k] \in cs .. Len(f.QC) /\ C2[k] = f.QC[stay[k]]
    BY <1>17, <1>21, <1>23
  <2>2. stay[l] \in cs .. Len(f.QC) /\ C2[l] = f.QC[stay[l]]
    BY <1>17, <1>21, <1>23
  <2>3. stay[k] < stay[l]
    BY <1>14, <1>21
  <2> QED BY <1>25, <2>1, <2>2, <2>3
<1>38. \A k \in 1 .. g.c_start - 1 :
         IsWitness(g.ids, LSide(g), g.R, BitRest(g), g.QC[k])
  <2> SUFFICES ASSUME NEW k \in 1 .. n
               PROVE  IsWitness(ids, L, f.R, BitRest(g), C2[k])
    <3>1. g.c_start - 1 = n
      BY <1>16, <1>18
    <3> QED BY <1>18, <1>19, <3>1
  <2>1. k \in 1 .. Len(stay) /\ stay[k] \in 1 .. Len(f.QC) /\ stay[k] <= cs
        /\ C2[k] = QC[stay[k]]
    BY <1>15, <1>17, <1>20
  <2>2. CASE stay[k] = cs
    <3>1. C2[k].bs = L_prime
      BY <1>9, <2>1, <2>2
    <3> QED BY <1>32, <3>1 DEF IsWitness
  <2>3. CASE stay[k] # cs
    <3>1. stay[k] \in 1 .. cs - 1
      BY <1>1, <2>1, <2>3
    <3>2. C2[k] = f.QC[stay[k]]
      BY <1>7, <2>1, <2>3
    <3>3. IsWitness(ids, L, f.R, BitRest(f), C2[k])
      BY <1>25, <3>1, <3>2
    <3> QED BY <1>29, <3>3 DEF IsWitness
  <2> QED BY <2>2, <2>3
<1>39. ASSUME NEW r \in DOMAIN graph_ \ f.R, r \notin BitRest(g),
              Cardinality(L \cap graph_[r]) >= min_l_size_
       PROVE  \E k \in 1 .. n : L \cap graph_[r] \subseteq Vertices(ids, C2[k].bs)
  <2> DEFINE A == L \cap graph_[r]
  <2>1. ASSUME NEW j \in 1 .. Len(f.QC), f.QC[j].bs \subseteq L_prime,
               A \subseteq Vertices(ids, f.QC[j].bs)
        PROVE  \E k \in 1 .. n : A \subseteq Vertices(ids, C2[k].bs)
    <3>1. PICK k \in 1 .. n : stay[k] = cs
      BY <1>22, <1>24
    <3>2. C2[k].bs = L_prime
      BY <1>9, <1>17, <1>20, <3>1
    <3>3. A \subseteq Vertices(ids, L_prime)
      BY <1>31, <2>1
    <3> QED BY <3>2, <3>3
  <2>2. ASSUME NEW j \in 1 .. cs - 1, A \subseteq Vertices(ids, f.QC[j].bs)
        PROVE  \E k \in 1 .. n : A \subseteq Vertices(ids, C2[k].bs)
    <3>1. j \in 1 .. Len(f.QC) /\ j # cs /\ j <= cs
      BY <1>1, <1>2
    <3>2. CASE j \in gone
      BY <1>11, <2>1, <2>2, <3>1, <3>2
    <3>3. CASE j \notin gone
      <4>1. PICK k \in 1 .. n : stay[k] = j
        BY <1>12, <1>22, <3>1, <3>3
      <4>2. C2[k] = f.QC[j]
        BY <1>7, <1>17, <1>20, <3>1, <4>1
      <4> QED BY <2>2, <4>2
    <3> QED BY <3>2, <3>3
  <2>3. ASSUME NEW j \in cs .. Len(f.QC), r = f.QC[j].first
        PROVE  \E k \in 1 .. n : A \subseteq Vertices(ids, C2[k].bs)
    <3>1. j \in 1 .. Len(f.QC) /\ (j = cs \/ j \in cs + 1 .. Len(f.QC))
      BY <1>1
    <3>2. A \subseteq Vertices(ids, f.QC[j].bs)
      BY <1>25, <2>3 DEF IsBitCandidate
    <3>3. CASE j = cs
      BY <1>33, <2>1, <3>1, <3>2, <3>3
    <3>4. CASE j \in gone
      BY <1>11, <2>1, <3>1, <3>2, <3>4
    <3>5. ASSUME j \in cs + 1 .. Len(f.QC), j \notin gone
          PROVE  FALSE
      <4>1. PICK k \in n + 1 .. Len(stay) : stay[k] = j
        BY <1>12, <1>22, <1>23, <3>5
      <4> QED BY <1>27, <1>39, <2>3, <4>1
    <3> QED BY <3>1, <3>3, <3>4, <3>5
  <2>4. r \in BitRest(f) \/ \E j \in 1 .. cs - 1 : A \subseteq Vertices(ids, f.QC[j].bs)
    BY <1>25, <1>39
  <2> HIDE DEF A
  <2>5. \E k \in 1 .. n : A \subseteq Vertices(ids, C2[k].bs)
    BY <1>26, <2>2, <2>3, <2>4
  <2> QED BY <2>5 DEF A
<1>40. \A r \in DOMAIN graph_ \ g.R :
         Cardinality(LSide(g) \cap graph_[r]) >= min_l_size_ =>
           \/ r \in BitRest(g)
           \/ \E k \in 1 .. g.c_start - 1 :
                LSide(g) \cap graph_[r] \subseteq Vertices(g.ids, g.QC[k].bs)
  <2>1. g.c_start - 1 = n
    BY <1>16, <1>18
  <2> QED BY <1>18, <1>19, <1>39, <2>1
<1>41. Node(graph_, LSide(g), g.R) /\ LSide(g) \subseteq Range(g.ids)
       /\ Distinct(g.ids)
  BY <1>3, <1>18, <1>19
<1>42. BitFrame(g)
  BY <1>18, <1>34, <1>35, <1>36, <1>37, <1>38, <1>40, <1>41 DEF BitFrame
<1>43. ASSUME NEW r \in BitRest(f) \ BitRest(g)
       PROVE  L \cap graph_[r] \subseteq graph_[c] \/ Hidden(graph_, f.R, c, L \cap graph_[r])
  <2>1. PICK j \in cs .. Len(f.QC) : r = f.QC[j].first
    BY <1>26
  <2>2. j \in 1 .. Len(f.QC) /\ (j = cs \/ j \in cs + 1 .. Len(f.QC))
    BY <1>1
  <2>3. Vertices(ids, f.QC[j].bs) = L \cap graph_[r]
    BY <1>25, <2>1 DEF IsBitCandidate
  <2>4. f.QC[j].bs \subseteq L_prime
    <3>1. CASE j = cs
      BY <1>33, <3>1
    <3>2. CASE j \in gone
      BY <1>11, <3>2
    <3>3. ASSUME j \in cs + 1 .. Len(f.QC), j \notin gone
          PROVE  FALSE
      <4>1. PICK k \in n + 1 .. Len(stay) : stay[k] = j
        BY <1>12, <1>22, <1>23, <3>3
      <4> QED BY <1>27, <2>1, <4>1
    <3> QED BY <2>2, <3>1, <3>2, <3>3
  <2>5. L \cap graph_[r] \subseteq graph_[q]
    BY <1>31, <1>32, <2>2, <2>3, <2>4
  <2> QED BY <1>32, <2>5 DEF Hidden
<1>44. Remains(graph_, L, f.R, BitRest(f), c, BitRest(g))
  BY <1>29, <1>43 DEF Remains
<1> QED BY <1>18, <1>42, <1>44 DEF g, L, c, cs

----------------------------------------------------------------------------
(* What a step of an activation does to what is to be found below it.      *)

\* An activation is at a maximal biclique and forgets nothing below it.
Frame(f) == SetFrame(f) \/ BitFrame(f)

\* The L sides of the maximal bicliques that are to be found below it.
Below(f) == Todo(graph_, min_l_size_, LSide(f), f.R, Rest(f))

\* The activation goes on as g, and nothing is found.
PassesOver(f, g) ==
  /\ Frame(g) /\ g.R = f.R
  /\ Below(g) = Below(f) /\ Rest(g) \subseteq Rest(f)

\* The activation goes on as g, and the biclique with the L side T is found, at
\* which the activation h is: each biclique below f but T is to be found by one
\* of the two.
Splits(f, g, h, T) ==
  /\ Frame(g) /\ g.R = f.R /\ Rest(g) \subseteq Rest(f)
  /\ Frame(h) /\ f.R \subseteq h.R /\ h.R \cup Rest(h) \subseteq f.R \cup Rest(f)
  /\ h.R = CommonR(graph_, T)
  /\ Below(f) = Below(g) \cup Below(h) \cup {T}
  /\ Below(g) \cap Below(h) = {} /\ T \notin Below(g) /\ T \notin Below(h)

\* The root v is expanded by h: the bicliques with no vertex before v are those
\* with no vertex up to v, those below h, and h's own.
Opens(v, h) ==
  /\ Frame(h) /\ h.R = CommonR(graph_, graph_[v])
  /\ v \in h.R /\ \A r \in h.R \cup Rest(h) : v <= r
  /\ LET here  == TodoFrom(graph_, min_l_size_, v)
         after == TodoFrom(graph_, min_l_size_, v + 1)
     IN  /\ here = after \cup Below(h) \cup {graph_[v]}
         /\ after \cap Below(h) = {}
         /\ graph_[v] \notin after /\ graph_[v] \notin Below(h)

\* The L side of an activation on vertex sets is its L.
LEMMA SetSides ==
  ASSUME NEW f, SetFrame(f)
  PROVE  f.mode = "set" /\ LSide(f) = f.L /\ Rest(f) = SetRest(f)
BY DEF SetFrame, LSide, Rest, Node, Closed

\* An activation on bitsets.
LEMMA BitSides ==
  ASSUME NEW f, BitFrame(f)
  PROVE  f.mode = "bit" /\ Rest(f) = BitRest(f)
BY DEF BitFrame, Rest

\* A hidden candidate is passed over.
LEMMA HiddenPasses ==
  ASSUME NEW f, NEW g, Frame(g), g.R = f.R, NEW c,
         UpNext(graph_, min_l_size_, LSide(f), f.R, Rest(f), c),
         Remains(graph_, LSide(f), f.R, Rest(f), c, Rest(g)),
         Hidden(graph_, f.R, c, LSide(f) \cap graph_[c])
  PROVE  PassesOver(f, g)
<1>1. Todo(graph_, min_l_size_, LSide(f), f.R, Rest(g))
        = Todo(graph_, min_l_size_, LSide(f), f.R, Rest(f))
  BY TodoHidden
<1>2. LSide(g) = LSide(f)
  BY DEF LSide
<1>3. Rest(g) \subseteq Rest(f)
  BY DEF Remains
<1> QED BY <1>1, <1>2, <1>3 DEF PassesOver, Below

\* A candidate that is not hidden makes an activation.
LEMMA OpenSplits ==
  ASSUME NEW f, NEW g, Frame(g), g.R = f.R, NEW c,
         UpNext(graph_, min_l_size_, LSide(f), f.R, Rest(f), c),
         Remains(graph_, LSide(f), f.R, Rest(f), c, Rest(g)),
         ~Hidden(graph_, f.R, c, LSide(f) \cap graph_[c]),
         NEW h, Frame(h), LSide(h) = LSide(f) \cap graph_[c],
         h.R = f.R \cup {r \in Rest(f) : LSide(f) \cap graph_[c] \subseteq graph_[r]},
         Inherited(graph_, min_l_size_, LSide(f), f.R, Rest(f), c, Rest(h))
  PROVE  Splits(f, g, h, LSide(h))
<1> DEFINE L == LSide(f)
           R == f.R
           L_prime == L \cap graph_[c]
           R_prime == R \cup {r \in Rest(f) : L_prime \subseteq graph_[r]}
           here  == Todo(graph_, min_l_size_, L, R, Rest(f))
           after == Todo(graph_, min_l_size_, L, R, Rest(g))
           below == Todo(graph_, min_l_size_, L_prime, R_prime, Rest(h))
<1>1. /\ here = after \cup below \cup {L_prime}
      /\ after \cap below = {}
      /\ L_prime \notin after /\ L_prime \notin below
  <2> DEFINE A == Rest(f)
             B == Rest(g)
             C == Rest(h)
  <2>1. UpNext(graph_, min_l_size_, L, R, A, c)
    OBVIOUS
  <2>2. Remains(graph_, L, R, A, c, B)
    OBVIOUS
  <2>3. ~Hidden(graph_, R, c, L \cap graph_[c])
    OBVIOUS
  <2>4. Inherited(graph_, min_l_size_, L, R, A, c, C)
    OBVIOUS
  <2> HIDE DEF A, B, C, L, R
  <2>5. SharedOut(graph_, min_l_size_, L, R, A, c, B, C)
    BY <2>1, <2>2, <2>3, <2>4, TodoSplit
  <2> QED BY <2>5 DEF SharedOut, A, B, C
<1>2. LSide(g) = L
  BY DEF LSide
<1>3. Rest(g) \subseteq Rest(f) /\ Rest(h) \subseteq Rest(f)
  BY DEF Remains, Inherited
<1>4. R_prime = CommonR(graph_, L_prime)
  <2>1. Node(graph_, L_prime, R_prime)
    BY Child
  <2> QED BY <2>1 DEF Node
<1>5. R \subseteq R_prime /\ R_prime \cup Rest(h) \subseteq R \cup Rest(f)
  BY <1>3
<1>6. Below(f) = here /\ Below(g) = after /\ Below(h) = below
  BY <1>2 DEF Below
<1> QED BY <1>1, <1>3, <1>4, <1>5, <1>6 DEF Splits

\* A candidate that the code has marked is passed over.
THEOREM SkipPasses ==
  ASSUME InputOK, NEW f, SetFrame(f), Unfinished(f), ~(Candidate(f).first >= 0)
  PROVE  PassesOver(f, [f EXCEPT !.i = @ + 1])
<1> DEFINE g == [f EXCEPT !.i = @ + 1]
<1>1. SetFrame(g) /\ g.R = f.R /\ SetRest(g) = SetRest(f)
  BY SetSkip
<1> HIDE DEF g
<1>2. Rest(f) = SetRest(f) /\ Rest(g) = SetRest(g)
  BY <1>1, SetSides
<1>3. LSide(g) = LSide(f)
  BY <1>1 DEF LSide
<1>4. PassesOver(f, g)
  BY <1>1, <1>2, <1>3 DEF PassesOver, Below, Frame
<1> QED BY <1>4 DEF g

\* A large candidate: the vertex Q is empty at is found where the candidate is
\* not hidden, and then the bicliques below the activation are shared out.
THEOREM LargeSplits ==
  ASSUME InputOK, NEW f, SetFrame(f), Unfinished(f), Candidate(f).first >= 0
  PROVE  /\ IsMaximal(f) =>
              /\ Splits(f, Consumed(f), SetChild(f), SetChild(f).L)
              /\ LSide(SetChild(f)) = SetChild(f).L
         /\ ~IsMaximal(f) => PassesOver(f, Consumed(f))
<1> DEFINE c == Candidate(f).first
           g == Consumed(f)
           h == SetChild(f)
<1>1. UpNext(graph_, min_l_size_, f.L, f.R, SetRest(f), c)
      /\ Candidate(f).L = f.L \cap graph_[c]
  BY SetUpNext
<1>2. IsMaximal(f) <=> ~Hidden(graph_, f.R, c, f.L \cap graph_[c])
  BY <1>1, MaximalIsNotHidden
<1>3. /\ SetFrame(g) /\ g.R = f.R
      /\ Remains(graph_, f.L, f.R, SetRest(f), c, SetRest(g))
  BY SetConsumed
<1> HIDE DEF g, c
<1>4. LSide(f) = f.L /\ Rest(f) = SetRest(f) /\ Rest(g) = SetRest(g) /\ Frame(g)
  BY <1>3, SetSides DEF Frame
<1>5. UpNext(graph_, min_l_size_, LSide(f), f.R, Rest(f), c)
  BY <1>1, <1>4
<1>6. Remains(graph_, LSide(f), f.R, Rest(f), c, Rest(g))
  BY <1>3, <1>4
<1>7. ASSUME ~IsMaximal(f) PROVE PassesOver(f, g)
  <2>1. Hidden(graph_, f.R, c, LSide(f) \cap graph_[c])
    BY <1>2, <1>4, <1>7
  <2> QED BY <1>3, <1>4, <1>5, <1>6, <2>1, HiddenPasses
<1>8. ASSUME IsMaximal(f)
      PROVE  Splits(f, g, h, h.L) /\ LSide(h) = h.L
  <2>1. ~Hidden(graph_, f.R, c, LSide(f) \cap graph_[c])
    BY <1>2, <1>4, <1>8
  <2>2. /\ SetFrame(h) /\ h.L = f.L \cap graph_[c]
        /\ h.R = f.R \cup {r \in SetRest(f) : f.L \cap graph_[c] \subseteq graph_[r]}
        /\ Inherited(graph_, min_l_size_, f.L, f.R, SetRest(f), c, SetRest(h))
    BY <1>8, SetChildFrame DEF c
  <2> HIDE DEF h
  <2>3. LSide(h) = h.L /\ Rest(h) = SetRest(h) /\ Frame(h)
    BY <2>2, SetSides DEF Frame
  <2>4. LSide(h) = LSide(f) \cap graph_[c]
    BY <1>4, <2>2, <2>3
  <2>5. h.R = f.R \cup {r \in Rest(f) : LSide(f) \cap graph_[c] \subseteq graph_[r]}
    BY <1>4, <2>2
  <2>6. Inherited(graph_, min_l_size_, LSide(f), f.R, Rest(f), c, Rest(h))
    BY <1>4, <2>2, <2>3
  <2>7. Splits(f, g, h, LSide(h))
    BY <1>3, <1>4, <1>5, <1>6, <2>1, <2>3, <2>4, <2>5, <2>6, OpenSplits
  <2> QED BY <2>3, <2>7
<1> QED BY <1>7, <1>8 DEF g, h

\* A candidate that fits in a bitset: counting the common neighbors before it
\* shows whether it is hidden, and the activation on bitsets has its share.
THEOREM SmallSplits ==
  ASSUME InputOK, NEW f, SetFrame(f), Unfinished(f), Candidate(f).first >= 0,
         Cardinality(Candidate(f).L) <= NN
  PROVE  LET g == [f EXCEPT !.i = @ + 1]
         IN  /\ IsMaximalSmall(f) => Splits(f, g, BitChild(f), Candidate(f).L)
             /\ ~IsMaximalSmall(f) => PassesOver(f, g)
<1> DEFINE c == Candidate(f).first
           g == [f EXCEPT !.i = @ + 1]
           h == BitChild(f)
<1>1. UpNext(graph_, min_l_size_, f.L, f.R, SetRest(f), c)
      /\ Candidate(f).L = f.L \cap graph_[c]
  BY SetUpNext
<1>2. IsMaximalSmall(f) <=> ~Hidden(graph_, f.R, c, f.L \cap graph_[c])
  BY <1>1, SmallIsNotHidden
<1>3. /\ SetFrame(g) /\ g.R = f.R
      /\ Remains(graph_, f.L, f.R, SetRest(f), c, SetRest(g))
  BY SetPast
<1> HIDE DEF g, c
<1>4. LSide(f) = f.L /\ Rest(f) = SetRest(f) /\ Rest(g) = SetRest(g) /\ Frame(g)
  BY <1>3, SetSides DEF Frame
<1>5. UpNext(graph_, min_l_size_, LSide(f), f.R, Rest(f), c)
  BY <1>1, <1>4
<1>6. Remains(graph_, LSide(f), f.R, Rest(f), c, Rest(g))
  BY <1>3, <1>4
<1>7. ASSUME ~IsMaximalSmall(f) PROVE PassesOver(f, g)
  <2>1. Hidden(graph_, f.R, c, LSide(f) \cap graph_[c])
    BY <1>2, <1>4, <1>7
  <2> QED BY <1>3, <1>4, <1>5, <1>6, <2>1, HiddenPasses
<1>8. ASSUME IsMaximalSmall(f)
      PROVE  Splits(f, g, h, Candidate(f).L)
  <2>1. ~Hidden(graph_, f.R, c, LSide(f) \cap graph_[c])
    BY <1>2, <1>4, <1>8
  <2>2. /\ BitFrame(h) /\ LSide(h) = f.L \cap graph_[c]
        /\ h.R = f.R \cup {r \in SetRest(f) : f.L \cap graph_[c] \subseteq graph_[r]}
        /\ Inherited(graph_, min_l_size_, f.L, f.R, SetRest(f), c, BitRest(h))
    BY <1>8, BitChildFrame DEF c
  <2> HIDE DEF h
  <2>3. Rest(h) = BitRest(h) /\ Frame(h)
    BY <2>2, BitSides DEF Frame
  <2>4. LSide(h) = LSide(f) \cap graph_[c]
    BY <1>4, <2>2
  <2>5. h.R = f.R \cup {r \in Rest(f) : LSide(f) \cap graph_[c] \subseteq graph_[r]}
    BY <1>4, <2>2
  <2>6. Inherited(graph_, min_l_size_, LSide(f), f.R, Rest(f), c, Rest(h))
    BY <1>4, <2>2, <2>3
  <2>7. Splits(f, g, h, LSide(h))
    BY <1>3, <1>4, <1>5, <1>6, <2>1, <2>3, <2>4, <2>5, <2>6, OpenSplits
  <2> QED BY <1>1, <2>2, <2>7
<1> QED BY <1>7, <1>8 DEF g, h

\* An entry of an activation on bitsets: its witnesses show whether it is hidden,
\* and nothing is lost with the entries that are compacted away.
THEOREM EntrySplits ==
  ASSUME InputOK, NEW f, BitFrame(f), Unfinished(f)
  PROVE  LET T == Vertices(f.ids, Witnesses(f).L_prime)
         IN  /\ Witnesses(f).is_maximal =>
                  Splits(f, BitConsumed(f), BitEntryChild(f), T)
             /\ ~Witnesses(f).is_maximal => PassesOver(f, BitConsumed(f))
<1> DEFINE c == f.QC[f.c_start].first
           g == BitConsumed(f)
           h == BitEntryChild(f)
           T == Vertices(f.ids, Witnesses(f).L_prime)
<1>1. UpNext(graph_, min_l_size_, LSide(f), f.R, BitRest(f), c)
  BY BitUpNext
<1>2. Witnesses(f).is_maximal <=> ~Hidden(graph_, f.R, c, LSide(f) \cap graph_[c])
  BY EntryNotHidden
<1>3. /\ BitFrame(g) /\ g.R = f.R
      /\ Remains(graph_, LSide(f), f.R, BitRest(f), c, BitRest(g))
  BY BitConsumedFrame
<1> HIDE DEF g, c
<1>4. Rest(f) = BitRest(f) /\ Rest(g) = BitRest(g) /\ Frame(g)
  BY <1>3, BitSides DEF Frame
<1>5. UpNext(graph_, min_l_size_, LSide(f), f.R, Rest(f), c)
  BY <1>1, <1>4
<1>6. Remains(graph_, LSide(f), f.R, Rest(f), c, Rest(g))
  BY <1>3, <1>4
<1>7. ASSUME ~Witnesses(f).is_maximal PROVE PassesOver(f, g)
  <2>1. Hidden(graph_, f.R, c, LSide(f) \cap graph_[c])
    BY <1>2, <1>7
  <2> QED BY <1>3, <1>4, <1>5, <1>6, <2>1, HiddenPasses
<1>8. ASSUME Witnesses(f).is_maximal
      PROVE  Splits(f, g, h, T)
  <2>1. ~Hidden(graph_, f.R, c, LSide(f) \cap graph_[c])
    BY <1>2, <1>8
  <2>2. /\ BitFrame(h) /\ LSide(h) = LSide(f) \cap graph_[c]
        /\ h.R = f.R \cup {r \in BitRest(f) :
                             LSide(f) \cap graph_[c] \subseteq graph_[r]}
        /\ Inherited(graph_, min_l_size_, LSide(f), f.R, BitRest(f), c, BitRest(h))
        /\ T = LSide(f) \cap graph_[c]
    BY <1>8, BitEntryChildFrame DEF c
  <2> HIDE DEF h, T
  <2>3. Rest(h) = BitRest(h) /\ Frame(h)
    BY <2>2, BitSides DEF Frame
  <2>4. LSide(h) = LSide(f) \cap graph_[c]
    BY <2>2
  <2>5. h.R = f.R \cup {r \in Rest(f) : LSide(f) \cap graph_[c] \subseteq graph_[r]}
    BY <1>4, <2>2
  <2>6. Inherited(graph_, min_l_size_, LSide(f), f.R, Rest(f), c, Rest(h))
    BY <1>4, <2>2, <2>3
  <2>7. Splits(f, g, h, LSide(h))
    BY <1>3, <1>4, <1>5, <1>6, <2>1, <2>3, <2>4, <2>5, <2>6, OpenSplits
  <2> QED BY <2>2, <2>7
<1> QED BY <1>7, <1>8 DEF g, h, T

\* A root that Execute expands, on either kind of list.
LEMMA RootOpens ==
  ASSUME InputOK, Ordered(graph_), NEW v \in DOMAIN graph_,
         ~Passed(graph_, min_l_size_, v),
         NEW h, Frame(h), LSide(h) = graph_[v], h.R = CommonR(graph_, graph_[v]),
         RootRest(graph_, min_l_size_, v, Rest(h))
  PROVE  Opens(v, h)
<1> DEFINE here  == TodoFrom(graph_, min_l_size_, v)
           after == TodoFrom(graph_, min_l_size_, v + 1)
           R == CommonR(graph_, graph_[v])
           below == Todo(graph_, min_l_size_, graph_[v], R, Rest(h))
<1>1. IsGraph(graph_) /\ min_l_size_ \in Nat \ {0}
  BY DEF InputOK
<1>2. /\ here = after \cup below \cup {graph_[v]}
      /\ after \cap below = {}
      /\ graph_[v] \notin after /\ graph_[v] \notin below
  BY <1>1, RootSplit
<1>3. v \in R /\ \A r \in R : v <= r
  BY <1>1, Root
<1>4. Below(h) = below
  BY DEF Below
<1>5. \A r \in Rest(h) : v <= r
  <2>1. \A r \in Rest(h) : r \in Nat /\ v < r
    BY VerticesBelow DEF RootRest
  <2> QED BY <2>1, VerticesBelow
<1> QED BY <1>2, <1>3, <1>4, <1>5 DEF Opens

\* The roots of Execute.
THEOREM RootsOpen ==
  ASSUME InputOK, Ordered(graph_), NEW v \in DOMAIN graph_,
         ~Passed(graph_, min_l_size_, v)
  PROVE  /\ Opens(v, SetRoot(v))
         /\ Cardinality(graph_[v]) <= NN => Opens(v, BitRoot(v))
<1>1. Opens(v, SetRoot(v))
  <2> DEFINE f == SetRoot(v)
  <2>1. /\ SetFrame(f)
        /\ f.L = graph_[v] /\ f.R = CommonR(graph_, graph_[v])
        /\ RootRest(graph_, min_l_size_, v, SetRest(f))
    BY SetRootFrame
  <2> HIDE DEF f
  <2>2. Frame(f) /\ LSide(f) = graph_[v] /\ Rest(f) = SetRest(f)
    BY <2>1, SetSides DEF Frame
  <2>3. RootRest(graph_, min_l_size_, v, Rest(f))
    BY <2>1, <2>2
  <2>4. Opens(v, f)
    BY <2>1, <2>2, <2>3, RootOpens
  <2> QED BY <2>4 DEF f
<1>2. ASSUME Cardinality(graph_[v]) <= NN
      PROVE  Opens(v, BitRoot(v))
  <2> DEFINE f == BitRoot(v)
  <2>1. /\ BitFrame(f)
        /\ LSide(f) = graph_[v] /\ f.R = CommonR(graph_, graph_[v])
        /\ RootRest(graph_, min_l_size_, v, BitRest(f))
    BY <1>2, BitRootFrame
  <2> HIDE DEF f
  <2>2. Frame(f) /\ Rest(f) = BitRest(f)
    BY <2>1, BitSides DEF Frame
  <2>3. RootRest(graph_, min_l_size_, v, Rest(f))
    BY <2>1, <2>2
  <2>4. Opens(v, f)
    BY <2>1, <2>2, <2>3, RootOpens
  <2> QED BY <2>4 DEF f
<1> QED BY <1>1, <1>2

\* An activation returns when nothing is left below it.
THEOREM ReturnEmpty ==
  ASSUME NEW f, Frame(f), ~Unfinished(f)
  PROVE  Below(f) = {}
<1>1. Node(graph_, LSide(f), f.R)
  BY SetSides DEF Frame, SetFrame, BitFrame
<1>2. Rest(f) = {}
  <2>1. CASE SetFrame(f)
    BY <2>1, SetSides, SetNoneLeft
  <2>2. CASE BitFrame(f)
    BY <2>2, BitSides, BitNoneLeft
  <2> QED BY <2>1, <2>2 DEF Frame
<1>3. Todo(graph_, min_l_size_, LSide(f), f.R, {}) = {}
  BY <1>1, TodoEmpty
<1> QED BY <1>2, <1>3 DEF Below

----------------------------------------------------------------------------
(* The stack of activations.                                               *)

\* What stands on a stack is a sequence, of whatever records.
IsStack(s) == Len(s) \in Nat /\ s = [k \in 1 .. Len(s) |-> s[k]]

\* Every activation on the stack is at a node.
Activations(s) == IsStack(s) /\ \A k \in 1 .. Len(s) : Frame(s[k])

\* No biclique is to be found by two of them.
Apart(s) ==
  \A j, k \in 1 .. Len(s) : j # k => Below(s[j]) \cap Below(s[k]) = {}

\* What is to be found by the activations on the stack.
Belows(s) == UNION {Below(s[k]) : k \in 1 .. Len(s)}

\* The stack t is s with the last element replaced by g; with h put on it.
TopReplaced(s, g, t) ==
  /\ IsStack(t) /\ Len(t) = Len(s) /\ Len(s) \in 1 .. Len(s)
  /\ t[Len(s)] = g
  /\ \A k \in 1 .. Len(s) : k # Len(s) => t[k] = s[k]

PutOn(s, h, t) ==
  /\ IsStack(t) /\ Len(t) = Len(s) + 1 /\ t[Len(s) + 1] = h
  /\ \A k \in 1 .. Len(s) : t[k] = s[k]

\* An activation goes on.
LEMMA Replaced ==
  ASSUME NEW s, IsStack(s), Len(s) # 0, NEW g, NEW t, t = [s EXCEPT ![Len(s)] = g]
  PROVE  TopReplaced(s, g, t)
<1> DEFINE n == Len(s)
           S == {s[k] : k \in 1 .. n} \cup {g}
<1>1. n \in Nat /\ n \in 1 .. n /\ s = [k \in 1 .. n |-> s[k]]
  BY DEF IsStack
<1> HIDE DEF n
<1>2. t = [k \in 1 .. n |-> IF k = n THEN g ELSE s[k]]
  BY <1>1 DEF n
<1>3. t \in [1 .. n -> S]
  BY <1>2
<1>4. Len(t) = n
  BY <1>1, <1>3, IsSequence
<1>5. t = [k \in 1 .. n |-> t[k]]
  BY <1>3
<1>6. t[n] = g /\ \A k \in 1 .. n : k # n => t[k] = s[k]
  BY <1>1, <1>2
<1> QED BY <1>1, <1>4, <1>5, <1>6 DEF TopReplaced, IsStack, n

\* An activation calls the search.
LEMMA Pushed ==
  ASSUME NEW s, IsStack(s), NEW h, NEW t, t = Append(s, h)
  PROVE  PutOn(s, h, t)
<1> DEFINE n == Len(s)
           S == {s[k] : k \in 1 .. n} \cup {h}
<1>1. n \in Nat /\ s = [k \in 1 .. n |-> s[k]]
  BY DEF IsStack
<1> HIDE DEF n
<1>2. s \in [1 .. n -> S]
  BY <1>1
<1>3. s \in Seq(S) /\ Len(s) = n
  BY <1>1, <1>2, IsSequence
<1>4. t \in Seq(S) /\ Len(t) = n + 1 /\ t[n + 1] = h
      /\ \A k \in 1 .. n : t[k] = s[k]
  BY <1>3, AppendProperties
<1>5. t = [k \in 1 .. Len(t) |-> t[k]]
  <2>1. t \in [1 .. Len(t) -> S]
    BY <1>4, LenProperties
  <2> QED BY <2>1
<1> QED BY <1>1, <1>4, <1>5 DEF PutOn, IsStack, n

\* An activation returns.
LEMMA Popped ==
  ASSUME NEW s, IsStack(s), Len(s) # 0, NEW t, t = Front(s)
  PROVE  /\ IsStack(t) /\ Len(t) = Len(s) - 1
         /\ \A k \in 1 .. Len(s) - 1 : t[k] = s[k]
<1> DEFINE n == Len(s)
           S == {s[k] : k \in 1 .. n}
<1>1. n \in Nat /\ s = [k \in 1 .. n |-> s[k]] /\ n - 1 \in Nat
  BY DEF IsStack
<1> HIDE DEF n
<1>2. s \in [1 .. n -> S]
  BY <1>1
<1>3. s \in Seq(S) /\ Len(s) = n
  BY <1>1, <1>2, IsSequence
<1>4. t = SubSeq(s, 1, n - 1)
  BY DEF Front, n
<1> DEFINE m == n - 1
<1>5. m \in Int /\ \A k \in 1 .. m : s[k] \in S
  BY <1>1
<1> HIDE DEF m, S
<1>6. /\ t \in Seq(S) /\ Len(t) = IF 1 <= m THEN m - 1 + 1 ELSE 0
      /\ \A k \in 1 .. m - 1 + 1 : t[k] = s[1 + k - 1]
  <2>1. t = SubSeq(s, 1, m)
    BY <1>4 DEF m
  <2> QED BY <1>5, <2>1, SubSeqProperties
<1>7. Len(t) = n - 1
  BY <1>1, <1>6 DEF m
<1>8. t = [k \in 1 .. Len(t) |-> t[k]]
  BY <1>6, LenProperties
<1>9. \A k \in 1 .. n - 1 : t[k] = s[k]
  <2> TAKE k \in 1 .. n - 1
  <2>1. k \in 1 .. m - 1 + 1 /\ 1 + k - 1 = k
    BY <1>1 DEF m
  <2> QED BY <1>6, <2>1
<1> QED BY <1>1, <1>7, <1>8, <1>9 DEF IsStack, n


\* The last activation passes over a candidate.
LEMMA StackPasses ==
  ASSUME NEW s, Activations(s), Apart(s), Len(s) # 0,
         NEW g, PassesOver(s[Len(s)], g), NEW t, TopReplaced(s, g, t)
  PROVE  Activations(t) /\ Apart(t) /\ Belows(t) = Belows(s)
<1> DEFINE n == Len(s)
<1>1. /\ IsStack(t) /\ Len(t) = n /\ n \in 1 .. n /\ t[n] = g
      /\ \A k \in 1 .. n : k # n => t[k] = s[k]
  BY DEF TopReplaced
<1>2. Frame(g) /\ Below(g) = Below(s[n])
  BY DEF PassesOver
<1> HIDE DEF n
<1>3. \A k \in 1 .. n : Frame(t[k])
  <2> TAKE k \in 1 .. n
  <2>1. CASE k = n
    BY <1>1, <1>2, <2>1
  <2>2. CASE k # n
    BY <1>1, <2>2 DEF Activations, n
  <2> QED BY <2>1, <2>2
<1>4. \A k \in 1 .. n : Below(t[k]) = Below(s[k])
  <2> TAKE k \in 1 .. n
  <2> QED BY <1>1, <1>2
<1>5. Apart(t)
  BY <1>1, <1>4 DEF Apart, n
<1>6. Belows(t) = Belows(s)
  BY <1>1, <1>4 DEF Belows, n
<1> QED BY <1>1, <1>3, <1>5, <1>6 DEF Activations, n

\* The stack t has T's biclique less to find than the stack s.
FindsOne(s, t, T) ==
  /\ Activations(t) /\ Apart(t)
  /\ T \in Belows(s) /\ Belows(t) = Belows(s) \ {T}

\* The last activation finds a biclique and calls the search on it.
LEMMA StackSplits ==
  ASSUME NEW s, Activations(s), Apart(s), Len(s) # 0,
         NEW g, NEW h, NEW T, Splits(s[Len(s)], g, h, T),
         NEW u, TopReplaced(s, g, u), NEW t, PutOn(u, h, t)
  PROVE  FindsOne(s, t, T)
<1> DEFINE n == Len(s)
           f == s[n]
<1>1. IsStack(s) /\ n \in Nat
  BY DEF Activations, IsStack
<1>2. /\ IsStack(u) /\ Len(u) = n /\ n \in 1 .. n /\ u[n] = g
      /\ \A k \in 1 .. n : k # n => u[k] = s[k]
  BY DEF TopReplaced
<1>4. /\ IsStack(t) /\ Len(t) = n + 1 /\ t[n + 1] = h
      /\ \A k \in 1 .. n : t[k] = u[k]
  BY <1>2 DEF PutOn
<1> HIDE DEF n
<1>5. t[n] = g /\ t[n + 1] = h /\ \A k \in 1 .. n : k # n => t[k] = s[k]
  BY <1>2, <1>4
<1>6. /\ Frame(g) /\ Frame(h)
      /\ Below(f) = Below(g) \cup Below(h) \cup {T}
      /\ Below(g) \cap Below(h) = {} /\ T \notin Below(g) /\ T \notin Below(h)
  BY DEF Splits, n
<1>7. \A k \in 1 .. n : Frame(s[k])
  BY DEF Activations, n
<1>8. \A k \in 1 .. n + 1 : k = n + 1 \/ k = n \/ (k \in 1 .. n /\ k # n)
  BY <1>1
<1>9. \A k \in 1 .. n + 1 : Frame(t[k])
  BY <1>5, <1>6, <1>7, <1>8
<1>10. \A j, k \in 1 .. n : j # k => Below(s[j]) \cap Below(s[k]) = {}
  BY DEF Apart, n
<1>11. \A k \in 1 .. n : k # n => Below(t[k]) \cap Below(f) = {}
  BY <1>2, <1>5, <1>10
<1>12. Apart(t)
  <2> SUFFICES ASSUME NEW j \in 1 .. n + 1, NEW k \in 1 .. n + 1, j # k
               PROVE  Below(t[j]) \cap Below(t[k]) = {}
    BY <1>4 DEF Apart
  <2>1. CASE j \in 1 .. n /\ j # n /\ k \in 1 .. n /\ k # n
    BY <1>5, <1>10, <2>1
  <2>2. CASE j \in 1 .. n /\ j # n /\ k \in {n, n + 1}
    <3>1. Below(t[k]) \subseteq Below(f)
      BY <1>5, <1>6, <2>2
    <3> QED BY <1>11, <2>2, <3>1
  <2>3. CASE j \in {n, n + 1} /\ k \in 1 .. n /\ k # n
    <3>1. Below(t[j]) \subseteq Below(f)
      BY <1>5, <1>6, <2>3
    <3> QED BY <1>11, <2>3, <3>1
  <2>4. CASE j \in {n, n + 1} /\ k \in {n, n + 1}
    <3>1. Below(g) \cap Below(h) = {}
      BY <1>6
    <3>2. (j = n /\ k = n + 1) \/ (j = n + 1 /\ k = n)
      BY <2>4
    <3>3. Below(t[n]) = Below(g) /\ Below(t[n + 1]) = Below(h)
      BY <1>5
    <3> QED BY <3>1, <3>2, <3>3
  <2> QED BY <1>8, <2>1, <2>2, <2>3, <2>4
<1>13. T \in Belows(s)
  BY <1>2, <1>6 DEF Belows, n
<1>14. Belows(t) = Belows(s) \ {T}
  <2>1. \A x : x \in Belows(t) <=> \E k \in 1 .. n + 1 : x \in Below(t[k])
    BY <1>4 DEF Belows
  <2>2. \A x : x \in Belows(s) <=> \E k \in 1 .. n : x \in Below(s[k])
    BY DEF Belows, n
  <2>3. n \in 1 .. n + 1 /\ n + 1 \in 1 .. n + 1
        /\ \A k \in 1 .. n : k \in 1 .. n + 1
    BY <1>1, <1>2
  <2>4. ASSUME NEW x \in Belows(t) PROVE x \in Belows(s) /\ x # T
    <3>1. PICK k \in 1 .. n + 1 : x \in Below(t[k])
      BY <2>1
    <3>2. CASE k \in 1 .. n /\ k # n
      BY <1>5, <1>6, <1>11, <2>2, <3>1, <3>2
    <3>3. CASE k \in {n, n + 1}
      BY <1>2, <1>5, <1>6, <2>2, <3>1, <3>3
    <3> QED BY <1>8, <3>2, <3>3
  <2>5. ASSUME NEW x \in Belows(s), x # T PROVE x \in Belows(t)
    <3>1. PICK k \in 1 .. n : x \in Below(s[k])
      BY <2>2
    <3>2. CASE k = n
      BY <1>5, <1>6, <2>1, <2>3, <2>5, <3>1, <3>2
    <3>3. CASE k # n
      BY <1>5, <2>1, <2>3, <3>1, <3>3
    <3> QED BY <3>2, <3>3
  <2> QED BY <2>4, <2>5
<1> QED BY <1>4, <1>9, <1>12, <1>13, <1>14 DEF Activations, FindsOne

\* The last activation, below which nothing is left, returns.
LEMMA StackReturns ==
  ASSUME NEW s, Activations(s), Apart(s), Len(s) # 0,
         Below(s[Len(s)]) = {}, NEW t, t = Front(s)
  PROVE  Activations(t) /\ Apart(t) /\ Belows(t) = Belows(s)
<1> DEFINE n == Len(s)
<1>1. IsStack(s) /\ n \in Nat
  BY DEF Activations, IsStack
<1>2. /\ IsStack(t) /\ Len(t) = n - 1
      /\ \A k \in 1 .. n - 1 : t[k] = s[k]
  BY <1>1, Popped
<1> HIDE DEF n
<1>3. n # 0
  BY DEF n
<1>4. \A k : k \in 1 .. n <=> k = n \/ k \in 1 .. n - 1
  BY <1>1, <1>3
<1>5. Activations(t)
  BY <1>2, <1>4 DEF Activations, n
<1>6. Apart(t)
  BY <1>2, <1>4 DEF Apart, n
<1>7. Belows(t) = Belows(s)
  <2>1. \A x : x \in Belows(t) <=> \E k \in 1 .. n - 1 : x \in Below(s[k])
    BY <1>2 DEF Belows
  <2>2. \A x : x \in Belows(s) <=> \E k \in 1 .. n : x \in Below(s[k])
    BY DEF Belows, n
  <2>3. Below(s[n]) = {}
    BY DEF n
  <2> QED BY <1>4, <2>1, <2>2, <2>3
<1> QED BY <1>5, <1>6, <1>7

\* A stack with one activation, and one with none.
LEMMA OneActivation ==
  ASSUME NEW h
  PROVE  /\ IsStack(<<h>>) /\ Len(<<h>>) = 1 /\ <<h>>[1] = h
         /\ Frame(h) => Activations(<<h>>)
         /\ Apart(<<h>>) /\ Belows(<<h>>) = Below(h)
<1> DEFINE t == <<h>>
<1>1. Len(t) = 1 /\ t[1] = h /\ t = [k \in 1 .. 1 |-> t[k]]
  OBVIOUS
<1> HIDE DEF t
<1>2. \A k : k \in 1 .. 1 <=> k = 1
  OBVIOUS
<1>3. IsStack(t)
  BY <1>1 DEF IsStack
<1>4. Frame(h) => Activations(t)
  BY <1>1, <1>2, <1>3 DEF Activations
<1>5. Apart(t) /\ Belows(t) = Below(h)
  BY <1>1, <1>2 DEF Apart, Belows
<1> QED BY <1>1, <1>3, <1>4, <1>5 DEF t

\* The call stack before the search is called.
LEMMA EmptyStack ==
  /\ Len(<<>>) = 0 /\ IsStack(<<>>)
  /\ Activations(<<>>) /\ Apart(<<>>) /\ Belows(<<>>) = {}
  /\ \A s : IsStack(s) /\ s # <<>> => Len(s) # 0
<1>1. Len(<<>>) = 0 /\ <<>> = [k \in 1 .. 0 |-> <<>>[k]]
  OBVIOUS
<1>2. ASSUME NEW s, IsStack(s), Len(s) = 0 PROVE s = <<>>
  <2>1. s = [k \in 1 .. 0 |-> s[k]]
    BY <1>2 DEF IsStack
  <2> QED BY <2>1
<1>3. 1 .. 0 = {}
  OBVIOUS
<1> QED BY <1>1, <1>2, <1>3 DEF IsStack, Activations, Apart, Belows

\* An activation that goes on, as another implementation writes it.
LEMMA FrontReplaced ==
  ASSUME NEW s, IsStack(s), Len(s) # 0, NEW g, NEW t, t = Append(Front(s), g)
  PROVE  TopReplaced(s, g, t)
<1> DEFINE r == Front(s)
           n == Len(s)
<1>1. /\ IsStack(r) /\ Len(r) = n - 1
      /\ \A k \in 1 .. n - 1 : r[k] = s[k]
  BY Popped
<1> HIDE DEF r
<1>2. t = Append(r, g)
  BY DEF r
<1>3. PutOn(r, g, t)
  BY <1>1, <1>2, Pushed
<1>4. n \in Nat /\ n # 0
  BY DEF IsStack
<1>5. \A k \in 1 .. n : k # n => k \in 1 .. n - 1
  BY <1>4
<1>6. Len(r) + 1 = n /\ n \in 1 .. n
  BY <1>1, <1>4
<1>7. IsStack(t) /\ Len(t) = n /\ t[n] = g
  BY <1>3, <1>6 DEF PutOn
<1>8. \A k \in 1 .. n : k # n => t[k] = s[k]
  BY <1>1, <1>3, <1>5 DEF PutOn
<1> QED BY <1>6, <1>7, <1>8 DEF TopReplaced

\* A call, written as a concatenation.
LEMMA ConcatPushed ==
  ASSUME NEW s, IsStack(s), NEW h, NEW t, t = s \o <<h>>
  PROVE  PutOn(s, h, t)
<1> DEFINE S == {s[k] : k \in 1 .. Len(s)} \cup {h}
<1>1. s \in Seq(S)
  <2>1. s \in [1 .. Len(s) -> S] /\ Len(s) \in Nat
    BY DEF IsStack
  <2> QED BY <2>1, IsSequence
<1>2. h \in S
  OBVIOUS
<1> HIDE DEF S
<1>3. t = Append(s, h)
  BY <1>1, <1>2, AppendIsConcat
<1> QED BY <1>3, Pushed

\* An input that stays the same leaves the nodes of the graph as they are.
LEMMA FrameKept ==
  ASSUME UNCHANGED inputVars, NEW f
  PROVE  (Frame(f)' <=> Frame(f)) /\ Below(f)' = Below(f)
BY DEF inputVars, Frame, SetFrame, BitFrame, IsCandidate, IsBitCandidate,
       IsWitness, SetEntry, BitEntry, LSide, Below

\* So they are for all activations of a stack.
LEMMA ActivationsKept ==
  ASSUME UNCHANGED inputVars, NEW s
  PROVE  /\ Activations(s)' <=> Activations(s)
         /\ Apart(s)' <=> Apart(s)
         /\ Belows(s)' = Belows(s)
<1>1. \A f : (Frame(f)' <=> Frame(f)) /\ Below(f)' = Below(f)
  BY FrameKept
<1>2. Activations(s)' <=> Activations(s)
  BY <1>1 DEF Activations
<1>3. Apart(s)' <=> Apart(s)
  BY <1>1 DEF Apart
<1>4. Belows(s)' = Belows(s)
  BY <1>1 DEF Belows
<1> QED BY <1>2, <1>3, <1>4

----------------------------------------------------------------------------
(* What is counted.                                                        *)

\* The maximal biclique with the L side T, and those of S that are counted.
Biclique(T) == <<T, CommonR(graph_, T)>>
Counted(S) == {T \in S : Cardinality(CommonR(graph_, T)) >= min_r_size_}

\* The L sides of all maximal bicliques with enough vertices of L.
All == TodoFrom(graph_, min_l_size_, 0)

\* They are what is counted if all is found.
LEMMA AllCounted ==
  ASSUME InputOK
  PROVE  MaximalBicliques(graph_, min_l_size_, min_r_size_)
           = {Biclique(T) : T \in Counted(All)}
<1> DEFINE M == MaximalBicliques(graph_, min_l_size_, min_r_size_)
<1>1. PICK n \in Nat : DOMAIN graph_ = 0 .. n - 1
  BY DEF InputOK, IsGraph
<1>2. \A T : T \in All <=> Closed(graph_, T) /\ Cardinality(T) >= min_l_size_
  BY <1>1, TodoEnds DEF All
<1>3. \A b : b \in M <=> \E T \in Counted(All) : b = Biclique(T)
  <2> TAKE b
  <2>1. b \in M <=> \E T : /\ Closed(graph_, T) /\ b = <<T, CommonR(graph_, T)>>
                           /\ Cardinality(T) >= min_l_size_
                           /\ Cardinality(CommonR(graph_, T)) >= min_r_size_
    BY InMaximalBicliques
  <2> QED BY <1>2, <2>1 DEF Counted, Biclique
<1> QED BY <1>3

\* They include those that begin with v or later.
LEMMA FromAll ==
  ASSUME InputOK, NEW v \in Nat
  PROVE  TodoFrom(graph_, min_l_size_, v) \subseteq All
<1>1. PICK m \in Nat : DOMAIN graph_ = 0 .. m - 1
  BY DEF InputOK, IsGraph
<1>2. \A T : \A r \in CommonR(graph_, T) : r \in 0 .. m - 1
  BY <1>1, InCommonR
<1>3. \A T : \A r \in CommonR(graph_, T) : v <= r => 0 <= r
  BY <1>2
<1> QED BY <1>3 DEF All, TodoFrom
=============================================================================
