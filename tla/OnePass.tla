------------------------------ MODULE OnePass ------------------------------
(***************************************************************************)
(* How AdaMBE and ParAdaMBE compute the lists AdaNodes states as sets: in  *)
(* one pass over the neighbors of an L side, in scratch buffers that       *)
(* outlive it.  idx_buf_ tells for a vertex of R where its list is being   *)
(* built; global_2d_buf_ takes a candidate's new list where id_array, the  *)
(* length of the part shared with its old list, no longer describes it.    *)
(* The serial finder has one of each, the parallel one a pair for each     *)
(* index, which whoever acquires the index next relies on being clean.     *)
(***************************************************************************)
EXTENDS AdaNodes

\* Nothing is left in the buffers: idx_buf_ is -1, global_2d_buf_ is empty.
Clean ==
  [idx_buf_       |-> [r \in DOMAIN graph_ |-> -1],
   global_2d_buf_ |-> [ci \in 1 .. Cardinality(DOMAIN graph_) |-> <<>>]]

----------------------------------------------------------------------------
(* idx_buf_: collecting the lists of the vertices met.                     *)

\* The vertices of S adjacent to the l-th vertex of L, each with that vertex, in
\* the order of their ids or the reverse.
VisitsTo(S, L, l, rising) ==
  LET met == List({r \in S : L[l] \in graph_[r]})
      visits == [k \in DOMAIN met |-> [r |-> met[k], l |-> L[l]]]
  IN  IF rising THEN visits ELSE Reverse(visits)

Visits(S, L, rising) ==
  FlattenSeq([l \in DOMAIN L |-> VisitsTo(S, L, l, rising)])

\* One neighbor met: it starts a list or its list, which idx_buf_ finds, grows.
Meet(acc, met) ==
  IF acc.idx_buf_[met.r] < 0
  THEN [idx_buf_ |-> [acc.idx_buf_ EXCEPT ![met.r] = Len(acc.C)],
        C |-> Append(acc.C, [first |-> met.r, second |-> <<met.l>>])]
  ELSE [acc EXCEPT !.C[acc.idx_buf_[met.r] + 1].second = Append(@, met.l)]

Collect(idx_buf_, visits) ==
  FoldLeft(Meet, [idx_buf_ |-> idx_buf_, C |-> <<>>], visits)

\* (mutant) Only the entries that are kept are reset.
ResetKept(collected, whole) ==
  [r \in DOMAIN collected.idx_buf_ |->
     IF \E e \in Range(collected.C) : e.first = r /\ Len(e.second) < whole
     THEN -1 ELSE collected.idx_buf_[r]]

\* The loop over the entries resets each, whether it is kept or not; `whole` is
\* the size of the L side, which it compares their lists with.
Reset(collected, whole) ==
  [r \in DOMAIN collected.idx_buf_ |->
     IF \E e \in Range(collected.C) : e.first = r
     THEN -1 ELSE collected.idx_buf_[r]]

\* A list as a bitset over the positions of ids.
AsBits(ids, second) == {p \in Positions(ids) : ids[p + 1] \in Range(second)}

\* The three places: a large root looks down from the last neighbor to the
\* root, a small root at all of them, a small candidate at those before it.
CollectSetRoot(v, buf) ==
  Collect(buf.idx_buf_,
          Visits({r \in DOMAIN graph_ : r > v}, List(graph_[v]), FALSE))

CollectBitRoot(v, buf) ==
  Collect(buf.idx_buf_, Visits(DOMAIN graph_, List(graph_[v]), TRUE))

CollectBitChild(f, buf) ==
  Collect(buf.idx_buf_,
          Visits(0 .. Candidate(f).first - 1, List(Candidate(f).L), TRUE))

\* What is left of an entry list once entries that cover the whole L side or
\* too little of it are taken out.
Kept(C, whole) ==
  SelectSeq(C, LAMBDA e : Len(e.second) # whole /\ Len(e.second) >= min_l_size_)

----------------------------------------------------------------------------
(* id_array and global_2d_buf_: intersecting the candidates' lists.        *)

\* (mutant) What the lists share is not copied.
MatchForgets(list, a, l) ==
  CASE a.id_array < 0 -> [a EXCEPT !.buf = Append(@, l)]
    [] a.id_array >= 0 /\ list[a.id_array + 1] = l ->
         [a EXCEPT !.id_array = @ + 1]
    [] OTHER -> [id_array |-> -1, buf |-> Append(a.buf, l)]

\* Candidate ci is adjacent to l: as long as its list and L_prime agree,
\* id_array counts; at the first vertex left out what they share is copied.
Match(list, a, l) ==
  CASE a.id_array < 0 -> [a EXCEPT !.buf = Append(@, l)]
    [] a.id_array >= 0 /\ list[a.id_array + 1] = l ->
         [a EXCEPT !.id_array = @ + 1]
    [] OTHER -> [id_array |-> -1,
                 buf |-> a.buf \o SubSeq(list, 1, a.id_array) \o <<l>>]

\* After the whole of L_prime.
Matched(f, ci, buf) ==
  FoldLeft(LAMBDA a, l : Match(List(f.C[ci].L), a, l),
           [id_array |-> 0, buf |-> buf.global_2d_buf_[ci]],
           List(IF f.C[ci].first < 0 THEN {} ELSE Overlap(f, ci)))

\* id_array or global_2d_buf_ has the length of L_prime: ci goes into R_prime.
Covers(f, a) ==
  Cardinality(Candidate(f).L) \in {a.id_array, Len(a.buf)}

\* The list handed to the child: ci's own, the start of it, or the buffer.
Handed(f, ci, a) ==
  IF a.id_array < 0 THEN a.buf ELSE SubSeq(List(f.C[ci].L), 1, a.id_array)

C_prime(f, buf) ==
  LET new == [ci \in Live(f) |-> Matched(f, ci, buf)]
      Hands(ci) ==
        LET list == Handed(f, ci, new[ci])
        IN  /\ ~Covers(f, new[ci])
            /\ \/ new[ci].id_array = Cardinality(f.C[ci].L)
               \/ Len(list) >= min_l_size_
            /\ list # <<>> /\ Last(list) >= last_l(f)
  IN  [k \in 1 .. Cardinality({ci \in Live(f) : Hands(ci)}) |->
         LET ci == List({c \in Live(f) : Hands(c)})[k]
         IN  [first |-> f.C[ci].first, second |-> Handed(f, ci, new[ci])]]

\* The candidates marked -1: those whose own list id_array has come to the end
\* of, maximal or not.
Marked(f, buf) ==
  {ci \in Live(f) :
     Matched(f, ci, buf).id_array = Cardinality(f.C[ci].L)}

\* (mutant) A candidate that is not maximal leaves the buffers as they are.
Scratch2dKept(f, buf) ==
  [ci \in DOMAIN buf.global_2d_buf_ |->
     IF ci \in Live(f) THEN IF IsMaximal(f) THEN <<>>
                                            ELSE Matched(f, ci, buf).buf
                       ELSE buf.global_2d_buf_[ci]]

\* A maximal candidate's loop clears the buffers of the live candidates, the
\* other loop those of all that follow.
Scratch2d(f, buf) ==
  [ci \in DOMAIN buf.global_2d_buf_ |->
     IF IF IsMaximal(f) THEN ci \in Live(f) ELSE ci \in f.i + 1 .. Len(f.C)
     THEN <<>> ELSE buf.global_2d_buf_[ci]]
=============================================================================
