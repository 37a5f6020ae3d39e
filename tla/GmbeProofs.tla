----------------------------- MODULE GmbeProofs -----------------------------
(***************************************************************************)
(* Proofs about GMBE's tasks and its kernel, for any number of blocks and  *)
(* consumers, lists of any size and any bounds of what is large, on every  *)
(* graph.                                                                  *)
(*                                                                         *)
(* The kernel's invariant KInv keeps two accounts.  For each counter, how  *)
(* many tasks it should stand for.  For each maximal biclique, how many    *)
(* parties have it to find: a vertex nobody has claimed, the list of large *)
(* tasks, the lists of tiny ones and the warps; together with whether it   *)
(* was counted they are always one.                                        *)
(***************************************************************************)
EXTENDS GmbeKernel, BicliquesProofs

----------------------------------------------------------------------------
(* Sums, and elements of a sequence counted.                               *)

\* SumOf counts pairs: a summand n at x has n of them.
Tokens(x, n) == {x} \X (1 .. n)

\* A summand's pairs are as many as it says.
LEMMA TokensOf ==
  ASSUME NEW x, NEW n \in Nat
  PROVE  IsFiniteSet(Tokens(x, n)) /\ Cardinality(Tokens(x, n)) = n
<1>1. IsFiniteSet({x}) /\ Cardinality({x}) = 1
  BY FS_Singleton
<1>2. IsFiniteSet(1 .. n) /\ Cardinality(1 .. n) = n
  BY FS_Interval
<1> DEFINE A == {x}
           B == 1 .. n
<1>3. IsFiniteSet(A) /\ Cardinality(A) = 1 /\ IsFiniteSet(B) /\ Cardinality(B) = n
  BY <1>1, <1>2
<1> HIDE DEF A, B
<1>4. IsFiniteSet(A \X B) /\ Cardinality(A \X B) = Cardinality(A) * Cardinality(B)
  BY <1>3, FS_Product
<1>5. Tokens(x, n) = A \X B
  BY DEF Tokens, A, B
<1> QED BY <1>3, <1>4, <1>5

\* A sum of finitely many natural numbers is one, the number of all pairs.
LEMMA AllTokens ==
  ASSUME NEW S, IsFiniteSet(S), NEW f \in [S -> Nat]
  PROVE  /\ IsFiniteSet(UNION {Tokens(x, f[x]) : x \in S})
         /\ SumOf(f) = Cardinality(UNION {Tokens(x, f[x]) : x \in S})
         /\ SumOf(f) \in Nat
<1> DEFINE P == {Tokens(x, f[x]) : x \in S}
           g == [x \in S |-> Tokens(x, f[x])]
<1>1. g \in Surjection(S, P)
  BY DEF Surjection
<1>2. IsFiniteSet(P)
  <2> HIDE DEF g, P
  <2> QED BY <1>1, FS_Surjection
<1>3. \A p \in P : IsFiniteSet(p)
  BY TokensOf
<1>4. IsFiniteSet(UNION P)
  <2> HIDE DEF P
  <2> QED BY <1>2, <1>3, FS_UNION
<1>5. SumOf(f) = Cardinality(UNION P)
  BY DEF SumOf, Tokens
<1> QED BY <1>4, <1>5, FS_CardinalityType

\* A sum is what it is without one summand, and that.
LEMMA SumApart ==
  ASSUME NEW S, IsFiniteSet(S), NEW f \in [S -> Nat], NEW x \in S
  PROVE  /\ IsFiniteSet(UNION {Tokens(y, f[y]) : y \in S \ {x}})
         /\ SumOf(f) = Cardinality(UNION {Tokens(y, f[y]) : y \in S \ {x}}) + f[x]
<1> DEFINE A == UNION {Tokens(y, f[y]) : y \in S}
           B == UNION {Tokens(y, f[y]) : y \in S \ {x}}
           T == Tokens(x, f[x])
<1>1. IsFiniteSet(A) /\ SumOf(f) = Cardinality(A)
  BY AllTokens
<1>2. A = B \cup T
  OBVIOUS
<1>3. B \cap T = {}
  <2> SUFFICES ASSUME NEW p \in B, p \in T PROVE FALSE
    OBVIOUS
  <2>1. PICK y \in S \ {x} : p \in Tokens(y, f[y])
    OBVIOUS
  <2>2. p[1] = y /\ p[1] = x
    BY <2>1 DEF Tokens
  <2> QED BY <2>2
<1>4. f[x] \in Nat
  OBVIOUS
<1>5. IsFiniteSet(T) /\ Cardinality(T) = f[x]
  BY <1>4, TokensOf
<1>6. IsFiniteSet(B)
  BY <1>1, <1>2, FS_Subset
<1>7. Cardinality(A) = Cardinality(B) + Cardinality(T) - Cardinality(B \cap T)
  <2> HIDE DEF A, B, T
  <2> QED BY <1>2, <1>5, <1>6, FS_Union
<1>8. Cardinality(B) \in Nat
  BY <1>6, FS_CardinalityType
<1> HIDE DEF A, B, T
<1>9. SumOf(f) = Cardinality(B) + f[x]
  BY <1>1, <1>3, <1>4, <1>5, <1>7, <1>8, FS_EmptySet
<1> QED BY <1>6, <1>9 DEF B

\* If one summand changes, the sum does by as much.
LEMMA SumChanges ==
  ASSUME NEW S, IsFiniteSet(S), NEW f \in [S -> Nat], NEW g \in [S -> Nat],
         NEW x \in S, \A y \in S \ {x} : g[y] = f[y]
  PROVE  /\ SumOf(f) \in Nat /\ SumOf(g) \in Nat
         /\ SumOf(g) = SumOf(f) - f[x] + g[x]
         /\ f[x] <= SumOf(f)
<1> DEFINE B == UNION {Tokens(y, f[y]) : y \in S \ {x}}
           C == UNION {Tokens(y, g[y]) : y \in S \ {x}}
<1>1. IsFiniteSet(B) /\ SumOf(f) = Cardinality(B) + f[x]
  BY SumApart
<1>2. SumOf(g) = Cardinality(C) + g[x]
  BY SumApart
<1>3. B = C
  OBVIOUS
<1>4. Cardinality(B) \in Nat /\ f[x] \in Nat /\ g[x] \in Nat
  BY <1>1, FS_CardinalityType
<1> HIDE DEF B, C
<1> QED BY <1>1, <1>2, <1>3, <1>4

\* A sum is zero if all its summands are.
LEMMA SumZero ==
  ASSUME NEW S, IsFiniteSet(S), NEW f \in [S -> Nat]
  PROVE  SumOf(f) = 0 <=> \A x \in S : f[x] = 0
<1>1. ASSUME \A x \in S : f[x] = 0 PROVE SumOf(f) = 0
  <2>1. \A x \in S : Tokens(x, f[x]) = {}
    BY <1>1 DEF Tokens
  <2>2. UNION {Tokens(x, f[x]) : x \in S} = {}
    BY <2>1
  <2> QED BY <2>2, AllTokens, FS_EmptySet
<1>2. ASSUME SumOf(f) = 0, NEW x \in S PROVE f[x] = 0
  <2>1. f[x] \in Nat /\ f[x] <= SumOf(f)
    BY SumChanges
  <2> QED BY <1>2, <2>1
<1> QED BY <1>1, <1>2

\* A sum of one has a single summand that is not zero.
LEMMA SumOne ==
  ASSUME NEW S, IsFiniteSet(S), NEW f \in [S -> Nat], SumOf(f) = 1
  PROVE  \E x \in S : f[x] = 1 /\ \A y \in S \ {x} : f[y] = 0
<1>1. PICK x \in S : f[x] # 0
  BY SumZero
<1> DEFINE g == [y \in S |-> IF y = x THEN 0 ELSE f[y]]
<1>2. g \in [S -> Nat] /\ g[x] = 0 /\ \A y \in S \ {x} : g[y] = f[y]
  OBVIOUS
<1>3. f[x] \in Nat
  OBVIOUS
<1> HIDE DEF g
<1>4. SumOf(g) \in Nat /\ SumOf(g) = SumOf(f) - f[x] + g[x] /\ f[x] <= SumOf(f)
  BY <1>2, SumChanges
<1>5. f[x] = 1 /\ SumOf(g) = 0
  BY <1>1, <1>2, <1>3, <1>4
<1>6. \A y \in S : g[y] = 0
  BY <1>2, <1>5, SumZero
<1> QED BY <1>2, <1>5, <1>6

\* How many elements of q are in S.
CountIn(q, S) == Cardinality({i \in 1 .. Len(q) : q[i] \in S})

\* The count is a natural number, zero if no element is in S.
LEMMA CountType ==
  ASSUME NEW X, NEW q \in Seq(X), NEW S
  PROVE  /\ IsFiniteSet({i \in 1 .. Len(q) : q[i] \in S})
         /\ CountIn(q, S) \in Nat
         /\ CountIn(q, S) = 0 <=> \A i \in 1 .. Len(q) : q[i] \notin S
<1> DEFINE I == {i \in 1 .. Len(q) : q[i] \in S}
<1>1. IsFiniteSet(1 .. Len(q))
  BY FS_Interval
<1>2. IsFiniteSet(I)
  BY <1>1, FS_Subset
<1>3. Cardinality(I) \in Nat /\ (Cardinality(I) = 0 <=> I = {})
  BY <1>2, FS_CardinalityType, FS_EmptySet
<1> QED BY <1>2, <1>3 DEF CountIn

\* The empty sequence has none.
LEMMA CountEmpty == ASSUME NEW S PROVE CountIn(<<>>, S) = 0
<1>1. {i \in 1 .. Len(<<>>) : <<>>[i] \in S} = {}
  OBVIOUS
<1> QED BY <1>1, FS_EmptySet DEF CountIn

\* A sequence of one has that one.
LEMMA CountSingle ==
  ASSUME NEW x, NEW S
  PROVE  CountIn(<<x>>, S) = IF x \in S THEN 1 ELSE 0
<1> DEFINE I == {i \in 1 .. Len(<<x>>) : <<x>>[i] \in S}
<1>1. I = IF x \in S THEN {1} ELSE {}
  OBVIOUS
<1> HIDE DEF I
<1>2. Cardinality(I) = IF x \in S THEN 1 ELSE 0
  BY <1>1, FS_EmptySet, FS_Singleton
<1> QED BY <1>2 DEF CountIn, I

\* Two sequences one after the other have what both have.
LEMMA CountConcat ==
  ASSUME NEW X, NEW q \in Seq(X), NEW r \in Seq(X), NEW S
  PROVE  CountIn(q \o r, S) = CountIn(q, S) + CountIn(r, S)
<1> DEFINE m == Len(q)
           n == Len(r)
           A == {i \in 1 .. m : q[i] \in S}
           B == {i \in 1 .. n : r[i] \in S}
           C == {i \in 1 .. m + n : i > m /\ r[i - m] \in S}
           I == {i \in 1 .. Len(q \o r) : (q \o r)[i] \in S}
           f == [i \in B |-> i + m]
<1>1. m \in Nat /\ n \in Nat
  OBVIOUS
<1>2. /\ Len(q \o r) = m + n
      /\ \A i \in 1 .. m + n : (q \o r)[i] = IF i <= m THEN q[i] ELSE r[i - m]
  BY ConcatProperties
<1> HIDE DEF m, n
<1>3. I = A \cup C /\ A \cap C = {}
  BY <1>1, <1>2, SMTT(30)
<1>4. f \in Bijection(B, C)
  <2>1. f \in [B -> C]
    BY <1>1
  <2>2. \A i, j \in B : f[i] = f[j] => i = j
    BY <1>1
  <2>3. \A k \in C : \E i \in B : f[i] = k
    <3> SUFFICES ASSUME NEW k \in C PROVE \E i \in B : f[i] = k
      OBVIOUS
    <3>1. k - m \in B /\ f[k - m] = k
      BY <1>1
    <3> QED BY <3>1
  <2> HIDE DEF f, B, C
  <2> QED BY <2>1, <2>2, <2>3 DEF Bijection, Injection, Surjection, IsInjective
<1>5. IsFiniteSet(A) /\ IsFiniteSet(B)
  BY CountType DEF m, n
<1>6. IsFiniteSet(C) /\ Cardinality(C) = Cardinality(B)
  <2> HIDE DEF B, C, f
  <2> QED BY <1>4, <1>5, FS_Bijection DEF ExistsBijection
<1>7. Cardinality(I) = Cardinality(A) + Cardinality(C)
  <2> HIDE DEF A, B, C, I
  <2>1. Cardinality(A) \in Nat /\ Cardinality(C) \in Nat
    BY <1>5, <1>6, FS_CardinalityType
  <2>2. Cardinality(A \cup C) = Cardinality(A) + Cardinality(C) - Cardinality(A \cap C)
    BY <1>5, <1>6, FS_Union
  <2>3. Cardinality(A \cap C) = 0
    BY <1>3, FS_EmptySet
  <2> QED BY <1>3, <2>1, <2>2, <2>3
<1>8. CountIn(q \o r, S) = Cardinality(I) /\ CountIn(q, S) = Cardinality(A)
      /\ CountIn(r, S) = Cardinality(B)
  BY DEF CountIn, m, n
<1> HIDE DEF A, B, C, I, f
<1> QED BY <1>6, <1>7, <1>8

\* An element more at the end.
LEMMA CountAppend ==
  ASSUME NEW X, NEW q \in Seq(X), NEW x \in X, NEW S
  PROVE  /\ Append(q, x) \in Seq(X) /\ Len(Append(q, x)) = Len(q) + 1
         /\ CountIn(Append(q, x), S) = CountIn(q, S) + (IF x \in S THEN 1 ELSE 0)
<1>1. Append(q, x) = q \o <<x>>
  BY AppendIsConcat
<1>2. <<x>> \in Seq(X)
  OBVIOUS
<1>3. CountIn(q \o <<x>>, S) = CountIn(q, S) + CountIn(<<x>>, S)
  BY <1>2, CountConcat
<1> QED BY <1>1, <1>3, CountSingle, AppendProperties

\* An element less at the front.
LEMMA CountTail ==
  ASSUME NEW X, NEW q \in Seq(X), q # <<>>, NEW S
  PROVE  /\ Head(q) \in X /\ Tail(q) \in Seq(X) /\ Len(Tail(q)) = Len(q) - 1
         /\ CountIn(q, S) = CountIn(Tail(q), S) + (IF Head(q) \in S THEN 1 ELSE 0)
<1>1. Head(q) \in X /\ Tail(q) \in Seq(X) /\ Len(Tail(q)) = Len(q) - 1
  BY HeadTailProperties
<1>2. q = <<Head(q)>> \o Tail(q)
  <2>1. /\ Len(<<Head(q)>> \o Tail(q)) = 1 + Len(Tail(q))
        /\ <<Head(q)>> \o Tail(q) \in Seq(X)
        /\ \A i \in 1 .. 1 + Len(Tail(q)) :
             (<<Head(q)>> \o Tail(q))[i]
               = IF i <= 1 THEN <<Head(q)>>[i] ELSE Tail(q)[i - 1]
    BY <1>1, ConcatProperties
  <2>2. \A i \in 1 .. Len(Tail(q)) : Tail(q)[i] = q[i + 1]
    BY HeadTailProperties
  <2> QED BY <1>1, <2>1, <2>2, SeqEqual
<1>3. <<Head(q)>> \in Seq(X)
  BY <1>1
<1> DEFINE h == <<Head(q)>>
           t == Tail(q)
<1>6. h \in Seq(X) /\ t \in Seq(X) /\ q = h \o t
  BY <1>1, <1>2, <1>3
<1>4. CountIn(q, S) = CountIn(h, S) + CountIn(t, S)
  <2> HIDE DEF h, t
  <2>1. CountIn(h \o t, S) = CountIn(h, S) + CountIn(t, S)
    BY <1>6, CountConcat
  <2> QED BY <1>6, <2>1
<1>5. CountIn(Tail(q), S) \in Nat
  BY <1>1, CountType
<1> QED BY <1>1, <1>4, <1>5, CountSingle

\* A sequence cut in two, as a divider's buffer is when it hands out what fits.
LEMMA CountSplit ==
  ASSUME NEW X, NEW q \in Seq(X), NEW p \in 0 .. Len(q), NEW S
  PROVE  /\ SubSeq(q, 1, p) \in Seq(X) /\ Len(SubSeq(q, 1, p)) = p
         /\ SubSeq(q, p + 1, Len(q)) \in Seq(X)
         /\ Len(SubSeq(q, p + 1, Len(q))) = Len(q) - p
         /\ CountIn(SubSeq(q, 1, p), S) + CountIn(SubSeq(q, p + 1, Len(q)), S)
              = CountIn(q, S)
<1>1. Len(q) \in Nat /\ p \in Nat /\ \A i \in 1 .. Len(q) : q[i] \in X
  OBVIOUS
<1>2. SubSeq(q, 1, p) \in Seq(X) /\ Len(SubSeq(q, 1, p)) = p
  BY <1>1, SubSeqProperties
<1>3. /\ SubSeq(q, p + 1, Len(q)) \in Seq(X)
      /\ Len(SubSeq(q, p + 1, Len(q))) = Len(q) - p
  BY <1>1, SubSeqProperties
<1>4. SubSeq(q, 1, p) \o SubSeq(q, p + 1, Len(q)) = q
  <2>1. 1 \in 1 .. Len(q) + 1 /\ p \in 1 - 1 .. Len(q) /\ Len(q) \in p .. Len(q)
    BY <1>1
  <2>2. SubSeq(q, 1, p) \o SubSeq(q, p + 1, Len(q)) = SubSeq(q, 1, Len(q))
    BY <2>1, ConcatAdjacentSubSeq
  <2> QED BY <2>2, SubSeqFull
<1> DEFINE h == SubSeq(q, 1, p)
           t == SubSeq(q, p + 1, Len(q))
<1>5. h \in Seq(X) /\ t \in Seq(X) /\ q = h \o t
  BY <1>2, <1>3, <1>4
<1>6. CountIn(q, S) = CountIn(h, S) + CountIn(t, S)
  <2> HIDE DEF h, t
  <2>1. CountIn(h \o t, S) = CountIn(h, S) + CountIn(t, S)
    BY <1>5, CountConcat
  <2> QED BY <1>5, <2>1
<1> QED BY <1>2, <1>3, <1>6

----------------------------------------------------------------------------
(* Tasks and their subtrees.                                               *)

\* GMBE's graphs: the vertices of V are numbered from 0 and have neighbors.
KernelGraph ==
  /\ \E n \in Nat : DOMAIN graph = 0 .. n - 1
  /\ \A r \in DOMAIN graph : IsFiniteSet(graph[r]) /\ graph[r] # {}

V == DOMAIN graph
All == MaximalBicliques(graph, 1, 1)

\* What the tasks that come up have in common: the vertices of U left, the last
\* vertex above the others, and if it is maximal its own biclique in its subtree.
IsTask(p) ==
  /\ p \in Seq(V) /\ Len(p) > 0
  /\ LVertices(p) # {}
  /\ \A k \in 1 .. Len(p) : p[k] <= Last(p)
  /\ IsMaximal(p) => InSubtree(Own(p), p)

\* The vertices of V are numbers, finitely many.
LEMMA VNumbers ==
  ASSUME KernelGraph
  PROVE  V \subseteq Nat /\ IsFiniteSet(V) /\ V = 0 .. V_size - 1 /\ V_size \in Nat
<1>1. PICK n \in Nat : V = 0 .. n - 1
  BY DEF KernelGraph, V
<1>2. IsFiniteSet(V) /\ Cardinality(V) = n
  BY <1>1, Interval
<1> QED BY <1>1, <1>2 DEF V_size, V

\* LVertices, element by element.
LEMMA InLVertices ==
  ASSUME NEW p \in Seq(V), Len(p) > 0, NEW u
  PROVE  u \in LVertices(p) <=> \A k \in 1 .. Len(p) : u \in graph[p[k]]
<1>1. ToSet(p) # {} /\ ToSet(p) = {p[k] : k \in 1 .. Len(p)}
  BY DEF ToSet
<1>2. u \in CommonL(graph, ToSet(p)) <=> \A r \in ToSet(p) : u \in graph[r]
  BY <1>1, InCommonL
<1> QED BY <1>1, <1>2 DEF LVertices

\* RVertices, element by element.
LEMMA InRVertices ==
  ASSUME NEW L, NEW r
  PROVE  r \in RVertices(L) <=> r \in V /\ L \subseteq graph[r]
BY InCommonR DEF RVertices, V

\* A maximal biclique: two sets, neither empty, each all that is adjacent to all of
\* the other.
LEMMA InAll ==
  ASSUME KernelGraph, NEW b \in All
  PROVE  /\ b[1] # {} /\ b[2] # {} /\ b = <<b[1], b[2]>>
         /\ \A r : r \in b[2] <=> r \in V /\ b[1] \subseteq graph[r]
         /\ \A u : u \in b[1] <=> \A r \in b[2] : u \in graph[r]
<1>1. PICK T : Closed(graph, T) /\ b = <<T, CommonR(graph, T)>>
  BY InMaximalBicliques DEF All
<1>2. CommonR(graph, T) # {} /\ T # {} /\ CommonL(graph, CommonR(graph, T)) = T
  BY <1>1 DEF Closed
<1>3. \A r : r \in CommonR(graph, T) <=> r \in V /\ T \subseteq graph[r]
  BY InCommonR DEF V
<1>4. \A u : u \in T <=> \A r \in CommonR(graph, T) : u \in graph[r]
  BY <1>2, InCommonL
<1> QED BY <1>1, <1>2, <1>3, <1>4

\* The own biclique of a task is one if vertices of U are left.
LEMMA OwnInAll ==
  ASSUME KernelGraph, NEW p \in Seq(V), Len(p) > 0, LVertices(p) # {}
  PROVE  Own(p) \in All
<1> DEFINE L == LVertices(p)
           R == RVertices(L)
<1>1. ToSet(p) \subseteq V /\ ToSet(p) # {}
  <2>1. DOMAIN p = 1 .. Len(p) /\ 1 \in 1 .. Len(p) /\ \A k \in 1 .. Len(p) : p[k] \in V
    OBVIOUS
  <2> QED BY <2>1 DEF ToSet
<1>2. Closed(graph, L)
  BY <1>1, CommonLClosed DEF LVertices, V
<1>3. PICK r \in R : r \in V /\ L \subseteq graph[r]
  BY <1>2, InRVertices DEF Closed, RVertices
<1>4. IsFiniteSet(L) /\ IsFiniteSet(R)
  <2>1. IsFiniteSet(graph[r])
    BY <1>3 DEF KernelGraph, V
  <2>2. R \subseteq V
    BY InRVertices
  <2> QED BY <1>3, <2>1, <2>2, VNumbers, FS_Subset
<1>5. Cardinality(L) >= 1 /\ Cardinality(R) >= 1
  BY <1>3, <1>4, FS_EmptySet, FS_CardinalityType
<1>6. Own(p) = <<L, CommonR(graph, L)>> /\ R = CommonR(graph, L)
  BY DEF Own, RVertices
<1> QED BY <1>2, <1>5, <1>6, InMaximalBicliques DEF All

\* The graph has finitely many maximal bicliques.
LEMMA AllFinite == KernelGraph => IsFiniteSet(All)
<1> SUFFICES ASSUME KernelGraph PROVE IsFiniteSet(All)
  OBVIOUS
<1> DEFINE f == [S \in SUBSET V |-> <<CommonL(graph, S), CommonR(graph, CommonL(graph, S))>>]
           I == {f[S] : S \in SUBSET V}
<1>1. f \in Surjection(SUBSET V, I)
  BY DEF Surjection
<1>2. IsFiniteSet(SUBSET V)
  BY VNumbers, FS_SUBSET
<1>3. IsFiniteSet(I)
  <2> HIDE DEF f, I
  <2> QED BY <1>1, <1>2, FS_Surjection
<1>4. All \subseteq I
  <2> SUFFICES ASSUME NEW b \in All PROVE b \in I
    OBVIOUS
  <2>1. PICK T : Closed(graph, T) /\ b = <<T, CommonR(graph, T)>>
    BY InMaximalBicliques DEF All
  <2>2. CommonR(graph, T) \in SUBSET V /\ CommonL(graph, CommonR(graph, T)) = T
    BY <2>1 DEF Closed, CommonR, V
  <2>3. b = f[CommonR(graph, T)]
    BY <2>1, <2>2
  <2> QED BY <2>2, <2>3
<1> QED BY <1>3, <1>4, FS_Subset

\* What is before the k-th vertex of a path: the R of the path so far.
Before(p, k) == IF k = 1 THEN {} ELSE RVertices(LVertices(SubSeq(p, 1, k - 1)))

\* InSubtree, with Min by what it is.
LEMMA Inside ==
  ASSUME KernelGraph, NEW b, b[2] \in SUBSET V, NEW p \in Seq(V)
  PROVE  InSubtree(b, p) <=>
           \A k \in 1 .. Len(p) : /\ p[k] \in b[2] \ Before(p, k)
                                  /\ \A r \in b[2] \ Before(p, k) : p[k] <= r
<1> DEFINE D(k) == b[2] \ Before(p, k)
<1>1. \A k \in 1 .. Len(p) : p[k] \in Nat
  BY VNumbers
<1>2. \A k : D(k) \subseteq Nat
  BY VNumbers
<1>3. \A k : D(k) # {} => Min(D(k)) \in D(k) /\ \A y \in D(k) : Min(D(k)) <= y
  BY <1>2, MinOfNats
<1>4. InSubtree(b, p)
        <=> \A k \in 1 .. Len(p) : D(k) # {} /\ Min(D(k)) = p[k]
  BY DEF InSubtree, Before
<1> HIDE DEF D
<1>5. ASSUME NEW k \in 1 .. Len(p)
      PROVE  D(k) # {} /\ Min(D(k)) = p[k]
               <=> p[k] \in D(k) /\ \A r \in D(k) : p[k] <= r
  <2>1. D(k) # {} => Min(D(k)) \in D(k) /\ Min(D(k)) \in Nat
    BY <1>2, <1>3
  <2> QED BY <1>1, <1>3, <2>1
<1>6. InSubtree(b, p)
        <=> \A k \in 1 .. Len(p) : p[k] \in D(k) /\ \A r \in D(k) : p[k] <= r
  BY <1>4, <1>5
<1> QED BY <1>6 DEF D

\* The path p with c after it.
LEMMA Longer ==
  ASSUME NEW p \in Seq(V), Len(p) > 0, NEW c \in V
  PROVE  /\ Append(p, c) \in Seq(V) /\ Len(Append(p, c)) = Len(p) + 1
         /\ Last(Append(p, c)) = c /\ Front(Append(p, c)) = p
         /\ \A k \in 1 .. Len(p) : Append(p, c)[k] = p[k]
         /\ Append(p, c)[Len(p) + 1] = c
         /\ LVertices(Append(p, c)) = LVertices(p) \cap graph[c]
         /\ \A k \in 1 .. Len(p) : Before(Append(p, c), k) = Before(p, k)
         /\ Before(Append(p, c), Len(p) + 1) = RVertices(LVertices(p))
<1> DEFINE q == Append(p, c)
<1>0. Len(p) \in Nat
  OBVIOUS
<1>1. /\ q \in Seq(V) /\ Len(q) = Len(p) + 1
      /\ \A k \in 1 .. Len(p) : q[k] = p[k]
      /\ q[Len(p) + 1] = c
  BY AppendProperties
<1>2. \A k \in 1 .. Len(p) : SubSeq(q, 1, k) = SubSeq(p, 1, k)
  <2> SUFFICES ASSUME NEW k \in 1 .. Len(p) PROVE SubSeq(q, 1, k) = SubSeq(p, 1, k)
    OBVIOUS
  <2>1. /\ SubSeq(q, 1, k) \in Seq(V) /\ Len(SubSeq(q, 1, k)) = k
        /\ \A i \in 1 .. k : SubSeq(q, 1, k)[i] = q[i]
    <3>1. \A i \in 1 .. k : q[i] \in V
      BY <1>1
    <3> QED BY <1>0, <3>1, SubSeqProperties
  <2>2. /\ SubSeq(p, 1, k) \in Seq(V) /\ Len(SubSeq(p, 1, k)) = k
        /\ \A i \in 1 .. k : SubSeq(p, 1, k)[i] = p[i]
    <3>1. \A i \in 1 .. k : p[i] \in V
      BY <1>0
    <3> QED BY <1>0, <3>1, SubSeqProperties
  <2>3. \A i \in 1 .. k : q[i] = p[i]
    BY <1>1, <1>0
  <2> QED BY <2>1, <2>2, <2>3, SeqEqual
<1>3. SubSeq(p, 1, Len(p)) = p
  BY SubSeqFull
<1>4. Front(q) = p /\ Last(q) = c
  BY <1>0, <1>1, <1>2, <1>3 DEF Front, Last
<1>5. LVertices(q) = LVertices(p) \cap graph[c]
  <2>1. \A u : u \in LVertices(q) <=> \A k \in 1 .. Len(q) : u \in graph[q[k]]
    <3>1. Len(q) > 0 /\ q \in Seq(V)
      BY <1>0, <1>1
    <3> HIDE DEF q
    <3> QED BY <3>1, InLVertices
  <2>2. \A u : u \in LVertices(p) <=> \A k \in 1 .. Len(p) : u \in graph[p[k]]
    BY InLVertices
  <2> HIDE DEF q
  <2>3. \A u : u \in LVertices(q) <=> u \in LVertices(p) /\ u \in graph[c]
    BY <1>0, <1>1, <2>1, <2>2
  <2> QED BY <2>3
<1>6. \A k \in 1 .. Len(p) : Before(q, k) = Before(p, k)
  <2> SUFFICES ASSUME NEW k \in 1 .. Len(p), k # 1 PROVE Before(q, k) = Before(p, k)
    BY DEF Before
  <2>1. SubSeq(q, 1, k - 1) = SubSeq(p, 1, k - 1)
    BY <1>0, <1>2
  <2> QED BY <2>1 DEF Before
<1>7. Before(q, Len(p) + 1) = RVertices(LVertices(p))
  <2>1. (Len(p) + 1) - 1 = Len(p) /\ Len(p) + 1 # 1 /\ Len(p) \in 1 .. Len(p)
    BY <1>0
  <2> QED BY <1>2, <1>3, <2>1 DEF Before
<1> QED BY <1>1, <1>4, <1>5, <1>6, <1>7

\* A path's own vertices are in its R.
LEMMA OwnVertices ==
  ASSUME NEW p \in Seq(V), Len(p) > 0, NEW k \in 1 .. Len(p)
  PROVE  p[k] \in RVertices(LVertices(p))
<1>1. p[k] \in V
  OBVIOUS
<1>2. LVertices(p) \subseteq graph[p[k]]
  BY InLVertices
<1> QED BY <1>1, <1>2, InRVertices

\* The vertices of S before v; binary_search counts them.
Below(v, S) == {x \in S : x < v}

\* Of two positions in a list the later one is the greater vertex's.
LEMMA BelowGrows ==
  ASSUME NEW S, S \subseteq Nat, IsFiniteSet(S), NEW c \in S, NEW l \in Nat, c # l
  PROVE  /\ Cardinality(Below(c, S)) \in Nat /\ Cardinality(Below(l, S)) \in Nat
         /\ Cardinality(Below(c, S)) >= Cardinality(Below(l, S)) <=> c > l
<1> DEFINE A == Below(c, S)
           B == Below(l, S)
<1>1. IsFiniteSet(A) /\ IsFiniteSet(B)
  <2>1. A \subseteq S /\ B \subseteq S
    BY DEF Below
  <2> HIDE DEF A, B
  <2> QED BY <2>1, FS_Subset
<1>2. Cardinality(A) \in Nat /\ Cardinality(B) \in Nat
  <2> HIDE DEF A, B
  <2> QED BY <1>1, FS_CardinalityType
<1>3. c \in Nat /\ \A x \in S : x \in Nat
  OBVIOUS
<1>4. CASE c > l
  <2>1. B \subseteq A
    <3>1. \A x \in S : x < l => x < c
      BY <1>3, <1>4
    <3> QED BY <3>1 DEF Below
  <2> HIDE DEF A, B
  <2>2. Cardinality(B) <= Cardinality(A)
    BY <1>1, <2>1, FS_Subset
  <2> QED BY <1>2, <1>4, <2>2 DEF A, B
<1>5. CASE c < l
  <2>1. A \subseteq B /\ c \in B /\ c \notin A
    <3>1. \A x \in S : x < c => x < l
      BY <1>3, <1>5
    <3>2. ~ (c < c)
      BY <1>3
    <3> QED BY <1>5, <3>1, <3>2 DEF Below
  <2> HIDE DEF A, B
  <2>2. Cardinality(A) <= Cardinality(B) /\ Cardinality(A) # Cardinality(B)
    BY <1>1, <2>1, FS_Subset
  <2>3. ~ (Cardinality(A) >= Cardinality(B))
    BY <1>2, <2>2
  <2> QED BY <1>2, <1>3, <1>5, <2>3 DEF A, B
<1> QED BY <1>3, <1>4, <1>5

\* AllNeighbors, CVertices and Later, element by element: next_id is where the
\* candidates after the last vertex begin.
LEMMA InLater ==
  ASSUME KernelGraph, NEW p \in Seq(V), Len(p) > 0, NEW c
  PROVE  c \in Later(p) <=> /\ c \in V /\ graph[c] \cap LVertices(p) # {}
                            /\ c \notin RVertices(LVertices(p)) /\ c > Last(p)
<1> DEFINE L == LVertices(p)
           A == AllNeighbors(L)
           R == RVertices(L)
           C == CVertices(L)
           l == Last(p)
<1>1. \A x : x \in A <=> x \in V /\ graph[x] \cap L # {}
  BY DEF AllNeighbors, V
<1>2. C = A \ R
  BY DEF CVertices
<1>3. A \subseteq Nat /\ IsFiniteSet(A)
  <2>1. A \subseteq V
    BY <1>1
  <2> QED BY <2>1, VNumbers, FS_Subset
<1>4. l \in R /\ l \in Nat
  <2>1. Len(p) \in 1 .. Len(p) /\ l = p[Len(p)]
    BY DEF Last
  <2>2. l \in R /\ l \in V
    BY <2>1, OwnVertices
  <2> QED BY <2>2, VNumbers
<1>5. c \in Later(p) <=> c \in C /\ binary_search(c, C) >= next_id(p)
  BY DEF Later
<1>6. next_id(p) = binary_search(l, A) - binary_search(l, R)
  BY DEF next_id
<1>7. CASE L = {}
  BY <1>1, <1>2, <1>5, <1>7
<1>8. CASE L # {} /\ c \notin C
  BY <1>1, <1>2, <1>5, <1>8
<1>9. CASE L # {} /\ c \in C
  <2>1. R \subseteq A
    <3>1. \A r : r \in R => r \in V /\ L \subseteq graph[r]
      BY InRVertices
    <3> QED BY <1>1, <1>9, <3>1
  <2> HIDE DEF L, A, R, C, l
  <2>2. l \in A /\ c # l /\ c \in A
    BY <1>2, <1>4, <1>9, <2>1
  <2>3. IsFiniteSet(C) /\ IsFiniteSet(R) /\ C \subseteq Nat
    BY <1>2, <1>3, <2>1, FS_Subset
  <2>4. /\ binary_search(l, A) = Cardinality(Below(l, A))
        /\ binary_search(l, R) = Cardinality(Below(l, R))
        /\ binary_search(c, C) = Cardinality(Below(c, C))
    BY <1>4, <1>9, <2>2 DEF binary_search, Below
  <2>5. Cardinality(Below(l, A)) = Cardinality(Below(l, C)) + Cardinality(Below(l, R))
    <3> DEFINE X == Below(l, C)
               Y == Below(l, R)
    <3>1. Below(l, A) = X \cup Y /\ X \cap Y = {} /\ X \subseteq C /\ Y \subseteq R
      BY <1>2, <2>1 DEF Below
    <3> HIDE DEF X, Y
    <3>2. IsFiniteSet(X) /\ IsFiniteSet(Y)
      BY <2>3, <3>1, FS_Subset
    <3>3. Cardinality(X) \in Nat /\ Cardinality(Y) \in Nat /\ Cardinality({}) = 0
      BY <3>2, FS_CardinalityType, FS_EmptySet
    <3>4. Cardinality(X \cup Y)
            = Cardinality(X) + Cardinality(Y) - Cardinality(X \cap Y)
      BY <3>2, FS_Union
    <3>5. Cardinality(X \cup Y) = Cardinality(X) + Cardinality(Y)
      <4>1. Cardinality(X \cap Y) = 0
        BY <3>1, <3>3
      <4> QED BY <3>3, <3>4, <4>1
    <3>6. Cardinality(Below(l, A)) = Cardinality(X) + Cardinality(Y)
      BY <3>1, <3>5
    <3> QED BY <3>6 DEF X, Y
  <2>6. Cardinality(Below(l, R)) \in Nat
    <3>1. Below(l, R) \subseteq R
      BY DEF Below
    <3> QED BY <2>3, <3>1, FS_Subset, FS_CardinalityType
  <2>7. /\ Cardinality(Below(c, C)) \in Nat /\ Cardinality(Below(l, C)) \in Nat
        /\ Cardinality(Below(c, C)) >= Cardinality(Below(l, C)) <=> c > l
    BY <1>4, <1>9, <2>2, <2>3, BelowGrows
  <2>8. next_id(p) = Cardinality(Below(l, C))
    BY <1>6, <2>4, <2>5, <2>6, <2>7
  <2>9. c \in Later(p) <=> c > l
    BY <1>5, <1>9, <2>4, <2>7, <2>8
  <2> QED BY <1>1, <1>2, <1>9, <2>2, <2>9 DEF L, R, l
<1> QED BY <1>7, <1>8, <1>9

\* What a biclique of a path's subtree has: the path's vertices, and all of the
\* path's R; the path has more of U.
LEMMA SubtreeHas ==
  ASSUME KernelGraph, NEW b \in All, NEW p \in Seq(V), Len(p) > 0, InSubtree(b, p)
  PROVE  /\ \A k \in 1 .. Len(p) : p[k] \in b[2]
         /\ b[1] \subseteq LVertices(p)
         /\ RVertices(LVertices(p)) \subseteq b[2]
         /\ Last(p) \in b[2] \ Before(p, Len(p))
         /\ \A r \in b[2] \ Before(p, Len(p)) : Last(p) <= r
         /\ Before(p, Len(p)) \subseteq RVertices(LVertices(p))
<1>0. Len(p) \in Nat /\ Len(p) \in 1 .. Len(p)
  OBVIOUS
<1>1. /\ b = <<b[1], b[2]>> /\ b[2] \in SUBSET V
      /\ \A r : r \in b[2] <=> r \in V /\ b[1] \subseteq graph[r]
  BY InAll
<1>2. \A k \in 1 .. Len(p) : /\ p[k] \in b[2] \ Before(p, k)
                             /\ \A r \in b[2] \ Before(p, k) : p[k] <= r
  BY <1>1, Inside
<1>3. b[1] \subseteq LVertices(p)
  <2>1. \A k \in 1 .. Len(p) : b[1] \subseteq graph[p[k]]
    BY <1>1, <1>2
  <2> QED BY <2>1, InLVertices
<1>4. RVertices(LVertices(p)) \subseteq b[2]
  BY <1>1, <1>3, InRVertices
<1>5. Before(p, Len(p)) \subseteq RVertices(LVertices(p))
  <2> SUFFICES ASSUME Len(p) # 1
               PROVE  RVertices(LVertices(Front(p))) \subseteq RVertices(LVertices(p))
    BY DEF Before, Front
  <2>1. /\ Front(p) \in Seq(V) /\ Len(Front(p)) = Len(p) - 1
        /\ \A k \in 1 .. Len(p) - 1 : Front(p)[k] = p[k]
    <3>1. \A k \in 1 .. Len(p) - 1 : p[k] \in V
      BY <1>0
    <3> DEFINE n == Len(p) - 1
    <3>2. n \in Int /\ n >= 0 /\ n - 1 + 1 = n /\ \A k \in 1 .. n : 1 + k - 1 = k
      BY <1>0
    <3> HIDE DEF n
    <3>3. /\ SubSeq(p, 1, n) \in Seq(V)
          /\ Len(SubSeq(p, 1, n)) = IF 1 <= n THEN n - 1 + 1 ELSE 0
          /\ \A k \in 1 .. n - 1 + 1 : SubSeq(p, 1, n)[k] = p[1 + k - 1]
      BY <3>1, <3>2, SubSeqProperties DEF n
    <3>4. /\ SubSeq(p, 1, n) \in Seq(V) /\ Len(SubSeq(p, 1, n)) = n
          /\ \A k \in 1 .. n : SubSeq(p, 1, n)[k] = p[k]
      BY <3>2, <3>3
    <3> QED BY <3>4 DEF Front, n
  <2>2. LVertices(p) \subseteq LVertices(Front(p))
    <3> SUFFICES ASSUME NEW u \in LVertices(p) PROVE u \in LVertices(Front(p))
      OBVIOUS
    <3>1. \A k \in 1 .. Len(p) : u \in graph[p[k]]
      BY InLVertices
    <3>2. Len(Front(p)) > 0 /\ \A k \in 1 .. Len(Front(p)) : u \in graph[Front(p)[k]]
      BY <1>0, <2>1, <3>1
    <3> QED BY <2>1, <3>2, InLVertices
  <2> QED BY <2>2, InRVertices
<1> QED BY <1>0, <1>2, <1>3, <1>4, <1>5 DEF Last

\* A biclique is in the subtree of one root, that of its first vertex.
LEMMA RootHas ==
  ASSUME KernelGraph, NEW b \in All, NEW r \in V
  PROVE  /\ Min(b[2]) \in V
         /\ InSubtree(b, <<r>>) <=> r = Min(b[2])
<1>1. b[2] # {} /\ b[2] \subseteq V /\ b[2] \subseteq Nat
  BY InAll, VNumbers
<1>2. Min(b[2]) \in b[2]
  BY <1>1, MinOfNats
<1>3. InSubtree(b, <<r>>) <=> b[2] \ {} # {} /\ Min(b[2] \ {}) = r
  BY DEF InSubtree
<1> QED BY <1>1, <1>2, <1>3

\* A biclique is in a child's subtree if it is in the node's and the child's
\* vertex is the first that the node's R has not.
LEMMA ChildHas ==
  ASSUME KernelGraph, NEW b \in All, NEW p \in Seq(V), Len(p) > 0, NEW c \in V
  PROVE  InSubtree(b, Append(p, c)) <=>
           /\ InSubtree(b, p)
           /\ c \in b[2] \ RVertices(LVertices(p))
           /\ \A r \in b[2] \ RVertices(LVertices(p)) : c <= r
<1> DEFINE q == Append(p, c)
           Here(s, k) == /\ s[k] \in b[2] \ Before(s, k)
                         /\ \A r \in b[2] \ Before(s, k) : s[k] <= r
<1>0. Len(p) \in Nat
  OBVIOUS
<1>1. /\ q \in Seq(V) /\ Len(q) = Len(p) + 1 /\ q[Len(p) + 1] = c
      /\ \A k \in 1 .. Len(p) : q[k] = p[k] /\ Before(q, k) = Before(p, k)
      /\ Before(q, Len(p) + 1) = RVertices(LVertices(p))
  BY Longer
<1>2. b = <<b[1], b[2]>> /\ b[2] \in SUBSET V
  BY InAll
<1>3. InSubtree(b, p) <=> \A k \in 1 .. Len(p) : Here(p, k)
  BY <1>2, Inside
<1> HIDE DEF q
<1>4. InSubtree(b, q) <=> \A k \in 1 .. Len(q) : Here(q, k)
  BY <1>1, <1>2, Inside
<1>5. \A k \in 1 .. Len(p) : Here(q, k) <=> Here(p, k)
  BY <1>1
<1>6. Here(q, Len(p) + 1) <=> /\ c \in b[2] \ RVertices(LVertices(p))
                              /\ \A r \in b[2] \ RVertices(LVertices(p)) : c <= r
  BY <1>1
<1> HIDE DEF Here
<1>7. (\A k \in 1 .. Len(q) : Here(q, k))
        <=> (\A k \in 1 .. Len(p) : Here(q, k)) /\ Here(q, Len(p) + 1)
  BY <1>0, <1>1
<1>8. InSubtree(b, q) <=> InSubtree(b, p) /\ Here(q, Len(p) + 1)
  BY <1>3, <1>4, <1>5, <1>7
<1> QED BY <1>6, <1>8 DEF q

\* The bicliques of a subtree but the node's own are shared out among those of
\* the children.
LEMMA ChildrenHave ==
  ASSUME KernelGraph, NEW b \in All, NEW p \in Seq(V), Len(p) > 0
  PROVE  /\ \A c \in Later(p) : InSubtree(b, Append(p, c)) =>
                InSubtree(b, p) /\ b # Own(p)
         /\ \A c, d \in Later(p) :
              InSubtree(b, Append(p, c)) /\ InSubtree(b, Append(p, d)) => c = d
         /\ InSubtree(b, p) /\ b # Own(p) =>
              \E c \in Later(p) : InSubtree(b, Append(p, c))
<1> DEFINE L == LVertices(p)
           R == RVertices(L)
<1>1. \A c \in Later(p) : c \in V /\ c \in Nat
  BY InLater, VNumbers
<1>2. \A c \in V : InSubtree(b, Append(p, c)) <=>
                      InSubtree(b, p) /\ c \in b[2] \ R /\ \A r \in b[2] \ R : c <= r
  BY ChildHas
<1>3. Own(p) = <<L, R>>
  BY DEF Own
<1>4. ASSUME b = Own(p) PROVE b[2] \ R = {}
  BY <1>3, <1>4
<1>5. ASSUME InSubtree(b, p), b # Own(p)
      PROVE  \E c \in Later(p) : InSubtree(b, Append(p, c))
  <2>1. /\ b[1] \subseteq L /\ R \subseteq b[2] /\ Before(p, Len(p)) \subseteq R
        /\ Last(p) \in b[2] /\ \A r \in b[2] \ Before(p, Len(p)) : Last(p) <= r
        /\ \A k \in 1 .. Len(p) : p[k] \in b[2]
    BY <1>5, SubtreeHas
  <2>2. /\ b[1] # {} /\ b = <<b[1], b[2]>> /\ b[2] \subseteq V
        /\ \A r : r \in b[2] <=> r \in V /\ b[1] \subseteq graph[r]
        /\ \A u : u \in b[1] <=> \A r \in b[2] : u \in graph[r]
    BY InAll
  <2>3. b[2] \ R # {}
    <3> SUFFICES ASSUME b[2] \subseteq R PROVE FALSE
      OBVIOUS
    <3>1. b[2] = R
      BY <2>1
    <3>2. \A u \in L : \A r \in R : u \in graph[r]
      BY InRVertices
    <3>3. b[1] = L
      BY <2>1, <2>2, <3>1, <3>2
    <3> QED BY <1>3, <1>5, <2>2, <3>1, <3>3
  <2> DEFINE c == Min(b[2] \ R)
  <2>4. c \in b[2] \ R /\ \A r \in b[2] \ R : c <= r
    <3>1. b[2] \ R \subseteq Nat
      BY <2>2, VNumbers
    <3> HIDE DEF R
    <3> QED BY <2>3, <3>1, MinOfNats
  <2> HIDE DEF c
  <2>5. c \in V /\ graph[c] \cap L # {} /\ c \notin R
    BY <2>1, <2>2, <2>4
  <2>6. c > Last(p)
    <3>1. Last(p) <= c
      BY <2>1, <2>4
    <3>2. Last(p) \in R
      BY OwnVertices DEF Last
    <3>3. Last(p) # c /\ Last(p) \in Nat /\ c \in Nat
      BY <2>1, <2>2, <2>4, <3>2, VNumbers
    <3> QED BY <3>1, <3>3
  <2>7. c \in Later(p)
    BY <2>5, <2>6, InLater
  <2> QED BY <1>2, <1>5, <2>4, <2>5, <2>7
<1> HIDE DEF R
<1>6. \A c, d \in Later(p) :
        InSubtree(b, Append(p, c)) /\ InSubtree(b, Append(p, d)) => c = d
  <2> SUFFICES ASSUME NEW c \in Later(p), NEW d \in Later(p),
                      InSubtree(b, Append(p, c)), InSubtree(b, Append(p, d))
               PROVE  c = d
    OBVIOUS
  <2>1. c <= d /\ d <= c /\ c \in Nat /\ d \in Nat
    BY <1>1, <1>2
  <2> QED BY <2>1
<1> QED BY <1>1, <1>2, <1>4, <1>5, <1>6

\* A node that is not maximal has nothing in its subtree.
LEMMA NothingBelow ==
  ASSUME KernelGraph, NEW b \in All, NEW p \in Seq(V), Len(p) > 0, ~IsMaximal(p)
  PROVE  ~InSubtree(b, p)
<1> SUFFICES ASSUME InSubtree(b, p) PROVE FALSE
  OBVIOUS
<1>0. /\ Len(p) \in Nat /\ Last(p) \in V /\ Last(p) = p[Len(p)]
      /\ Len(p) = 1 \/ Len(p) > 1
  <2>1. Len(p) \in Nat /\ p[Len(p)] \in V
    OBVIOUS
  <2>2. Len(p) = 1 \/ Len(p) > 1
    <3>1. \A n \in Nat : n > 0 => n = 1 \/ n > 1
      OBVIOUS
    <3> QED BY <2>1, <3>1
  <2> QED BY <2>1, <2>2 DEF Last
<1>1. /\ RVertices(LVertices(p)) \subseteq b[2]
      /\ \A r \in b[2] \ Before(p, Len(p)) : Last(p) <= r
  BY SubtreeHas
<1>2. Before(p, Len(p)) = IF Len(p) > 1 THEN RVertices(LVertices(Front(p))) ELSE {}
  <2>1. Len(p) > 1 <=> ~(Len(p) = 1)
    BY <1>0
  <2> QED BY <2>1 DEF Before, Front
<1>3. PICK r \in RVertices(LVertices(p)) : r < Last(p) /\ r \notin Before(p, Len(p))
  <2>0. \A r \in RVertices(LVertices(p)) : r \in Int /\ Last(p) \in Int
    BY <1>0, InRVertices, VNumbers
  <2>1. CASE Len(p) > 1
    BY <1>2, <2>1 DEF IsMaximal
  <2>2. CASE ~(Len(p) > 1)
    <3>1. Len(p) = 1
      BY <1>0, <2>2
    <3>2. Last(p) = p[1]
      BY <1>0, <3>1
    <3> QED BY <1>2, <2>0, <2>2, <3>2 DEF IsMaximal
  <2> QED BY <2>1, <2>2
<1> QED BY <1>0, <1>1, <1>3, InRVertices, VNumbers

\* A root is a task.
LEMMA RootIsTask ==
  ASSUME KernelGraph, NEW r \in V
  PROVE  IsTask(<<r>>)
<1> DEFINE p == <<r>>
<1>1. p \in Seq(V) /\ Len(p) = 1 /\ p[1] = r /\ Last(p) = r
  BY DEF Last
<1>2. r \in Nat
  BY VNumbers
<1>3. LVertices(p) # {}
  <2>1. PICK u \in graph[r] : TRUE
    BY DEF KernelGraph, V
  <2>2. \A k \in 1 .. Len(p) : u \in graph[p[k]]
    BY <1>1, <2>1
  <2>3. Len(p) > 0
    BY <1>1
  <2> HIDE DEF p
  <2>4. u \in LVertices(p)
    BY <1>1, <2>2, <2>3, InLVertices
  <2> QED BY <2>4
<1>4. ASSUME IsMaximal(p) PROVE InSubtree(Own(p), p)
  <2>1. r \in RVertices(LVertices(p)) /\ RVertices(LVertices(p)) \in SUBSET V
    <3>1. 1 \in 1 .. Len(p) /\ Len(p) > 0
      BY <1>1
    <3> HIDE DEF p
    <3> QED BY <1>1, <3>1, OwnVertices, InRVertices
  <2>2. \A s \in RVertices(LVertices(p)) : r <= s
    <3>1. \A s \in RVertices(LVertices(p)) : s >= r
      BY <1>1, <1>4 DEF IsMaximal
    <3>2. \A s \in RVertices(LVertices(p)) : s \in Nat
      BY <2>1, VNumbers
    <3> QED BY <1>2, <3>1, <3>2
  <2>3. \A k \in 1 .. Len(p) : k = 1 /\ p[k] = r /\ Before(p, k) = {}
    BY <1>1 DEF Before
  <2>4. Own(p)[2] = RVertices(LVertices(p))
    BY DEF Own
  <2> HIDE DEF p
  <2> QED BY <1>1, <2>1, <2>2, <2>3, <2>4, Inside
<1> QED BY <1>1, <1>2, <1>3, <1>4 DEF IsTask

\* The children of a maximal node are tasks.
LEMMA ChildIsTask ==
  ASSUME KernelGraph, NEW p, IsTask(p), IsMaximal(p), NEW c \in Later(p)
  PROVE  IsTask(Append(p, c))
<1> DEFINE q == Append(p, c)
           R == RVertices(LVertices(p))
           S == RVertices(LVertices(q))
<1>1. /\ p \in Seq(V) /\ Len(p) > 0 /\ Len(p) \in Nat
      /\ \A k \in 1 .. Len(p) : p[k] <= Last(p) /\ p[k] \in V
      /\ InSubtree(Own(p), p)
  BY DEF IsTask
<1>2. c \in V /\ graph[c] \cap LVertices(p) # {} /\ c \notin R /\ c > Last(p)
  BY <1>1, InLater
<1>3. /\ q \in Seq(V) /\ Len(q) = Len(p) + 1 /\ q[Len(p) + 1] = c
      /\ \A k \in 1 .. Len(p) : q[k] = p[k] /\ Before(q, k) = Before(p, k)
      /\ Before(q, Len(p) + 1) = R
      /\ LVertices(q) = LVertices(p) \cap graph[c] /\ Last(q) = c /\ Front(q) = p
  BY <1>1, <1>2, Longer
<1>4. Last(p) \in Nat /\ c \in Nat /\ \A k \in 1 .. Len(p) : p[k] \in Nat
  BY <1>1, <1>2, VNumbers DEF Last
<1>5. \A k \in 1 .. Len(q) : q[k] <= Last(q)
  BY <1>1, <1>2, <1>3, <1>4
<1>6. R \subseteq S /\ S \in SUBSET V /\ R \in SUBSET V
  BY <1>3, InRVertices
<1>7. ASSUME IsMaximal(q) PROVE InSubtree(Own(q), q)
  <2>1. \A r \in S : r < c => r \in R
    <3>1. Len(q) > 1
      BY <1>1, <1>3
    <3> QED BY <1>3, <1>7, <3>1 DEF IsMaximal
  <2>2. \A k \in 1 .. Len(p) : p[k] \in R \ Before(p, k)
                               /\ \A r \in R \ Before(p, k) : p[k] <= r
    <3>1. Own(p)[2] = R
      BY DEF Own
    <3> HIDE DEF R
    <3> QED BY <1>1, <1>6, <3>1, Inside
  <2>3. \A r \in S \ R : c <= r
    <3>1. \A r \in S : r \in Nat
      BY <1>6, VNumbers
    <3> QED BY <1>4, <2>1, <3>1
  <2>4. c \in S
    <3>1. Len(q) \in 1 .. Len(q) /\ Len(q) > 0 /\ q[Len(q)] = c
      BY <1>1, <1>3
    <3> HIDE DEF q
    <3> QED BY <1>3, <3>1, OwnVertices
  <2> HIDE DEF q, R, S
  <2>5. ASSUME NEW k \in 1 .. Len(q)
        PROVE  q[k] \in S \ Before(q, k) /\ \A r \in S \ Before(q, k) : q[k] <= r
    <3>1. CASE k = Len(p) + 1
      BY <1>2, <1>3, <2>3, <2>4, <3>1 DEF R
    <3>2. CASE k \in 1 .. Len(p)
      <4>1. q[k] = p[k] /\ Before(q, k) = Before(p, k)
        BY <1>3, <3>2
      <4>2. p[k] <= Last(p) /\ p[k] \in Nat
        BY <1>1, <1>4, <3>2
      <4>3. p[k] <= c
        BY <1>2, <1>4, <4>2
      <4>4. ASSUME NEW r \in S \ Before(p, k) PROVE p[k] <= r
        <5>1. CASE r \in R
          BY <2>2, <3>2, <5>1
        <5>2. CASE r \notin R
          <6>1. c <= r /\ r \in Nat
            BY <1>6, <2>3, <5>2, VNumbers
          <6> QED BY <1>4, <4>2, <4>3, <6>1
        <5> QED BY <5>1, <5>2
      <4> QED BY <1>6, <2>2, <3>2, <4>1, <4>4
    <3> QED BY <1>1, <1>3, <3>1, <3>2
  <2>6. Own(q)[2] = S
    BY DEF Own, S
  <2> QED BY <1>3, <1>6, <2>5, <2>6, Inside
<1>8. LVertices(q) # {} /\ Len(q) > 0
  BY <1>1, <1>2, <1>3
<1> HIDE DEF q
<1> QED BY <1>3, <1>5, <1>7, <1>8 DEF IsTask, q

----------------------------------------------------------------------------
(* The kernel's inductive invariant.                                       *)

Tasks == {p \in Seq(V) : IsTask(p)}
Maximals == {p \in Tasks : IsMaximal(p)}

\* The tasks that b is to be found by, and the tasks put aside that it is.
TasksOf(b) == {p \in Seq(V) : InSubtree(b, p)}
AsideOf(b) == {p \in Seq(V) : InSubtree(b, p) /\ b # Own(p)}

Places == {"look", "claim", "claimed", "task", "push", "pushed", "vertex", "flush",
           "divided", "hand", "readLarge", "readTiny", "left"}

States == [at : Places, tt : Seq(V), tiny : BOOLEAN, tiny_buffer : Seq(Seq(V)),
           lgc : Nat, llc : Nat, ltc : Nat]

\* What a warp has where it is.
WarpOK(s) ==
  /\ s.at \in {"claimed", "task"} => s.tt \in Tasks
  /\ s.at = "claimed" => ~s.tiny
  /\ s.at = "push" => s.tt \in Maximals
  /\ s.tiny_buffer \in Seq(Tasks)
  /\ s.at \notin {"divided", "hand"} => s.tiny_buffer = <<>>
  /\ s.at \in {"flush", "readLarge", "readTiny", "left"} => processing_vertex >= V_size
  /\ s.at \in {"readLarge", "readTiny", "left"} => s.lgc = 0 /\ s.llc = 0 /\ s.ltc = 0

\* How many parties there are that will find b: the vertices nobody has claimed,
\* the lists, and a warp in the state s.
Unclaimed(b) == IF Min(b[2]) < V_size - processing_vertex THEN 1 ELSE 0
LargeHas(b) == CountIn(global_large_worklist, AsideOf(b))
ListsHave(b) ==
  SumOf([k \in Blocks |-> CountIn(local_tiny_worklist[k], TasksOf(b))])
Waiting(b) == Unclaimed(b) + LargeHas(b) + ListsHave(b)
Brings(b, s) ==
  IF s.at \in {"claimed", "task"} THEN (IF s.tt \in TasksOf(b) THEN 1 ELSE 0)
  ELSE IF s.at = "push" THEN (IF s.tt \in AsideOf(b) THEN 1 ELSE 0)
  ELSE CountIn(s.tiny_buffer, TasksOf(b))

SumRoots == SumOf([x \in Warps |-> RootsOf(warp[x])])
SumLarge == SumOf([x \in Warps |-> LargeOf(warp[x])])
SumUncounted == SumOf([x \in Warps |-> UncountedOf(warp[x])])
SumTiny == SumOf([x \in Warps |-> TinyOf(warp[x])])
SumBrings(b) == SumOf([x \in Warps |-> Brings(b, warp[x])])
SumLists == SumOf([k \in Blocks |-> Len(local_tiny_worklist[k])])

Counted(b) == IF b \in found THEN 1 ELSE 0

Typed ==
  /\ KernelGraph /\ wanted = All
  /\ processing_vertex \in Nat
  /\ global_large_worklist \in Seq(Maximals)
  /\ local_tiny_worklist \in [Blocks -> Seq(Tasks)]
  /\ warp \in [Warps -> States] /\ \A x \in Warps : WarpOK(warp[x])
  /\ found \subseteq All /\ maximal_bicliques = Cardinality(found)

Counters ==
  /\ global_count = SumRoots
  /\ large_count = Len(global_large_worklist) + SumLarge - SumUncounted
  /\ tiny_count = SumLists + SumTiny

\* Each biclique has been found or has one party that will find it.
Shared == \A b \in All : Waiting(b) + SumBrings(b) + Counted(b) = 1

\* Whoever read zero last read it when nobody else had anything.
Leaving == {"readTiny", "left"}
NoneWaits ==
  /\ (\A x \in Warps : warp[x].at \in Leaving) => global_large_worklist = <<>>
  /\ (\A x \in Warps : warp[x].at = "left") =>
       \A k \in Blocks : local_tiny_worklist[k] = <<>>

KInv == Typed /\ Counters /\ Shared /\ NoneWaits

\* There are warps and blocks, finitely many, and a warp's first part is its block.
LEMMA WarpsFinite ==
  /\ IsFiniteSet(Warps) /\ IsFiniteSet(Blocks) /\ Warps # {} /\ Blocks # {}
  /\ \A w \in Warps : w[1] \in Blocks
<1>1. IsFiniteSet(Blocks) /\ Blocks # {} /\ Consumers \in Nat
  BY KernelAssumption
<1> DEFINE C == 0 .. Consumers
<1>2. IsFiniteSet(C) /\ 0 \in C
  BY <1>1, FS_Interval
<1>3. Warps = Blocks \X C
  BY DEF Warps
<1> HIDE DEF C
<1>4. IsFiniteSet(Warps)
  BY <1>1, <1>2, <1>3, FS_Product
<1>5. \A w \in Warps : w[1] \in Blocks
  BY <1>3
<1>6. Warps # {}
  <2>1. PICK k \in Blocks : TRUE
    BY <1>1
  <2>2. <<k, 0>> \in Warps
    BY <1>2, <1>3
  <2> QED BY <2>2
<1> QED BY <1>1, <1>4, <1>5, <1>6

\* No step changes the graph.
LEMMA GraphStays ==
  ASSUME graph' = graph
  PROVE  /\ V' = V /\ All' = All /\ V_size' = V_size /\ KernelGraph' = KernelGraph
         /\ Tasks' = Tasks /\ Maximals' = Maximals
         /\ \A b : TasksOf(b)' = TasksOf(b) /\ AsideOf(b)' = AsideOf(b)
<1>1. V' = V /\ All' = All /\ V_size' = V_size /\ KernelGraph' = KernelGraph
  BY DEF V, All, V_size, KernelGraph
<1>2. \A p : LVertices(p)' = LVertices(p)
  BY DEF LVertices
<1>3. \A L : RVertices(L)' = RVertices(L)
  BY DEF RVertices
<1>4. \A p : Own(p)' = Own(p) /\ IsMaximal(p)' = IsMaximal(p)
  BY DEF Own, IsMaximal, RVertices, LVertices
<1>5. \A b, p : InSubtree(b, p)' = InSubtree(b, p)
  BY DEF InSubtree, RVertices, LVertices
<1>6. \A p : IsTask(p)' = IsTask(p)
  BY DEF IsTask, InSubtree, Own, IsMaximal, RVertices, LVertices, V
<1>7. Tasks' = Tasks
  BY <1>1, <1>6 DEF Tasks
<1>8. Maximals' = Maximals
  BY <1>4, <1>7 DEF Maximals
<1>9. \A b : TasksOf(b)' = TasksOf(b)
  BY <1>1, <1>5 DEF TasksOf
<1>10. \A b : AsideOf(b)' = AsideOf(b)
  BY <1>1, <1>4, <1>5 DEF AsideOf
<1> QED BY <1>1, <1>7, <1>8, <1>9, <1>10

\* The numbers of a warp are natural numbers.
LEMMA SharesType ==
  ASSUME NEW s \in States, NEW b
  PROVE  /\ RootsOf(s) \in Nat /\ LargeOf(s) \in Nat /\ UncountedOf(s) \in Nat
         /\ TinyOf(s) \in Nat /\ Brings(b, s) \in Nat
<1>1. /\ s.lgc \in Nat /\ s.llc \in Nat /\ s.ltc \in Nat
      /\ s.tiny_buffer \in Seq(Seq(V))
  BY DEF States
<1>2. Len(s.tiny_buffer) \in Nat
  BY <1>1
<1>3. CountIn(s.tiny_buffer, TasksOf(b)) \in Nat
  BY <1>1, CountType
<1> DEFINE root == IF InHand(s) /\ ~s.tiny THEN 1 ELSE 0
           divides == IF s.at \in {"divided", "hand"} THEN 1 ELSE 0
           tiny == IF InHand(s) /\ s.tiny THEN 1
                   ELSE IF s.at = "hand" THEN Len(s.tiny_buffer) ELSE 0
<1>4. root \in Nat /\ divides \in Nat /\ tiny \in Nat /\ UncountedOf(s) \in Nat
  BY <1>2 DEF UncountedOf
<1>8. /\ RootsOf(s) = s.lgc + root /\ LargeOf(s) = s.llc + divides
      /\ TinyOf(s) = s.ltc + tiny
  BY DEF RootsOf, LargeOf, TinyOf
<1> HIDE DEF root, divides, tiny
<1>5. RootsOf(s) \in Nat /\ LargeOf(s) \in Nat /\ UncountedOf(s) \in Nat
  BY <1>1, <1>4, <1>8, SMTT(30)
<1>6. TinyOf(s) \in Nat
  BY <1>1, <1>4, <1>8
<1>7. Brings(b, s) \in Nat
  BY <1>3 DEF Brings
<1> QED BY <1>5, <1>6, <1>7

\* How the sums change when one warp does.
LEMMA SumsMove ==
  ASSUME warp \in [Warps -> States], graph' = graph,
         NEW w \in Warps, NEW s \in States, Become(w, s)
  PROVE  /\ warp' \in [Warps -> States]
         /\ \A x \in Warps : warp'[x] = IF x = w THEN s ELSE warp[x]
         /\ SumRoots \in Nat /\ SumLarge \in Nat /\ SumUncounted \in Nat /\ SumTiny \in Nat
         /\ SumRoots' = SumRoots - RootsOf(warp[w]) + RootsOf(s)
         /\ SumLarge' = SumLarge - LargeOf(warp[w]) + LargeOf(s)
         /\ SumUncounted' = SumUncounted - UncountedOf(warp[w]) + UncountedOf(s)
         /\ SumTiny' = SumTiny - TinyOf(warp[w]) + TinyOf(s)
         /\ \A b : /\ SumBrings(b) \in Nat
                    /\ SumBrings(b)' = SumBrings(b) - Brings(b, warp[w]) + Brings(b, s)
<1>1. /\ warp' \in [Warps -> States]
      /\ \A x \in Warps : warp'[x] = IF x = w THEN s ELSE warp[x]
  BY DEF Become
<1>2. IsFiniteSet(Warps)
  BY WarpsFinite
<1>3. \A x \in Warps : warp[x] \in States /\ warp'[x] \in States
  BY <1>1
<1>4. SumRoots \in Nat /\ SumRoots' = SumRoots - RootsOf(warp[w]) + RootsOf(s)
  <2> DEFINE f == [x \in Warps |-> RootsOf(warp[x])]
             g == [x \in Warps |-> RootsOf(warp'[x])]
  <2>1. /\ f \in [Warps -> Nat] /\ g \in [Warps -> Nat] /\ f[w] = RootsOf(warp[w])
        /\ g[w] = RootsOf(s) /\ \A y \in Warps \ {w} : g[y] = f[y]
    BY <1>1, <1>3, SharesType
  <2>2. SumRoots = SumOf(f) /\ SumRoots' = SumOf(g)
    BY DEF SumRoots, SumOf, RootsOf, InHand
  <2> HIDE DEF f, g
  <2> QED BY <1>2, <2>1, <2>2, SumChanges
<1>5. SumLarge \in Nat /\ SumLarge' = SumLarge - LargeOf(warp[w]) + LargeOf(s)
  <2> DEFINE f == [x \in Warps |-> LargeOf(warp[x])]
             g == [x \in Warps |-> LargeOf(warp'[x])]
  <2>1. /\ f \in [Warps -> Nat] /\ g \in [Warps -> Nat] /\ f[w] = LargeOf(warp[w])
        /\ g[w] = LargeOf(s) /\ \A y \in Warps \ {w} : g[y] = f[y]
    BY <1>1, <1>3, SharesType
  <2>2. SumLarge = SumOf(f) /\ SumLarge' = SumOf(g)
    BY DEF SumLarge, SumOf, LargeOf
  <2> HIDE DEF f, g
  <2> QED BY <1>2, <2>1, <2>2, SumChanges
<1>6. /\ SumUncounted \in Nat
      /\ SumUncounted' = SumUncounted - UncountedOf(warp[w]) + UncountedOf(s)
  <2> DEFINE f == [x \in Warps |-> UncountedOf(warp[x])]
             g == [x \in Warps |-> UncountedOf(warp'[x])]
  <2>1. /\ f \in [Warps -> Nat] /\ g \in [Warps -> Nat] /\ f[w] = UncountedOf(warp[w])
        /\ g[w] = UncountedOf(s) /\ \A y \in Warps \ {w} : g[y] = f[y]
    BY <1>1, <1>3, SharesType
  <2>2. SumUncounted = SumOf(f) /\ SumUncounted' = SumOf(g)
    BY DEF SumUncounted, SumOf, UncountedOf
  <2> HIDE DEF f, g
  <2> QED BY <1>2, <2>1, <2>2, SumChanges
<1>7. SumTiny \in Nat /\ SumTiny' = SumTiny - TinyOf(warp[w]) + TinyOf(s)
  <2> DEFINE f == [x \in Warps |-> TinyOf(warp[x])]
             g == [x \in Warps |-> TinyOf(warp'[x])]
  <2>1. /\ f \in [Warps -> Nat] /\ g \in [Warps -> Nat] /\ f[w] = TinyOf(warp[w])
        /\ g[w] = TinyOf(s) /\ \A y \in Warps \ {w} : g[y] = f[y]
    BY <1>1, <1>3, SharesType
  <2>2. SumTiny = SumOf(f) /\ SumTiny' = SumOf(g)
    BY DEF SumTiny, SumOf, TinyOf, InHand
  <2> HIDE DEF f, g
  <2> QED BY <1>2, <2>1, <2>2, SumChanges
<1>8. ASSUME NEW b
      PROVE  /\ SumBrings(b) \in Nat
             /\ SumBrings(b)' = SumBrings(b) - Brings(b, warp[w]) + Brings(b, s)
  <2> DEFINE f == [x \in Warps |-> Brings(b, warp[x])]
             g == [x \in Warps |-> Brings(b, warp'[x])]
  <2>1. /\ f \in [Warps -> Nat] /\ g \in [Warps -> Nat] /\ f[w] = Brings(b, warp[w])
        /\ g[w] = Brings(b, s) /\ \A y \in Warps \ {w} : g[y] = f[y]
    BY <1>1, <1>3, SharesType
  <2>2. SumBrings(b) = SumOf(f) /\ SumBrings(b)' = SumOf(g)
    <3>1. TasksOf(b)' = TasksOf(b) /\ AsideOf(b)' = AsideOf(b)
      BY GraphStays
    <3> QED BY <3>1 DEF SumBrings, SumOf, Brings, CountIn
  <2> HIDE DEF f, g
  <2> QED BY <1>2, <2>1, <2>2, SumChanges
<1> QED BY <1>1, <1>4, <1>5, <1>6, <1>7, <1>8

\* What waits and what is counted.
LEMMA WaitingType ==
  ASSUME Typed, NEW b
  PROVE  /\ Waiting(b) \in Nat /\ Counted(b) \in Nat
         /\ LargeHas(b) \in Nat /\ ListsHave(b) \in Nat /\ Unclaimed(b) \in Nat
         /\ Len(global_large_worklist) \in Nat /\ SumLists \in Nat
<1>1. LargeHas(b) \in Nat
  BY CountType DEF Typed, LargeHas
<1>2. ListsHave(b) \in Nat
  <2> DEFINE f == [k \in Blocks |-> CountIn(local_tiny_worklist[k], TasksOf(b))]
  <2>1. f \in [Blocks -> Nat]
    BY CountType DEF Typed
  <2> HIDE DEF f
  <2>2. SumOf(f) \in Nat
    BY <2>1, WarpsFinite, AllTokens
  <2> QED BY <2>2 DEF f, ListsHave
<1>3. SumLists \in Nat
  <2> DEFINE f == [k \in Blocks |-> Len(local_tiny_worklist[k])]
  <2>1. f \in [Blocks -> Nat]
    BY DEF Typed
  <2> HIDE DEF f
  <2>2. SumOf(f) \in Nat
    BY <2>1, WarpsFinite, AllTokens
  <2> QED BY <2>2 DEF f, SumLists
<1>4. Unclaimed(b) \in Nat /\ Counted(b) \in Nat
  BY DEF Unclaimed, Counted
<1>5. Len(global_large_worklist) \in Nat
  BY DEF Typed
<1>6. Waiting(b) \in Nat
  BY <1>1, <1>2, <1>4 DEF Waiting
<1> QED BY <1>1, <1>2, <1>3, <1>4, <1>5, <1>6

\* A step of the warp w to the state s, whatever else it changes.
Steps(w, s) ==
  /\ UNCHANGED fixed /\ w \in Warps /\ s \in States /\ Become(w, s)
  /\ WarpOK(s)'
  /\ processing_vertex' \in Nat /\ processing_vertex <= processing_vertex'
  /\ global_large_worklist' \in Seq(Maximals)
  /\ local_tiny_worklist' \in [Blocks -> Seq(Tasks)]
  /\ found' \subseteq All /\ maximal_bicliques' = Cardinality(found')

\* A step of w to s keeps the types if s has what it should where it is.
LEMMA TypesKept ==
  ASSUME Typed, NEW w, NEW s, Steps(w, s)
  PROVE  Typed'
<1>1. /\ graph' = graph /\ wanted' = wanted /\ w \in Warps /\ s \in States /\ Become(w, s)
      /\ WarpOK(s)'
      /\ processing_vertex' \in Nat /\ processing_vertex <= processing_vertex'
      /\ global_large_worklist' \in Seq(Maximals)
      /\ local_tiny_worklist' \in [Blocks -> Seq(Tasks)]
      /\ found' \subseteq All /\ maximal_bicliques' = Cardinality(found')
  BY DEF Steps, fixed
<1>2. /\ V' = V /\ All' = All /\ V_size' = V_size /\ KernelGraph' = KernelGraph
      /\ Tasks' = Tasks /\ Maximals' = Maximals /\ States' = States
  BY <1>1, GraphStays DEF States
<1>3. /\ KernelGraph /\ wanted = All /\ processing_vertex \in Nat
      /\ warp \in [Warps -> States] /\ \A x \in Warps : WarpOK(warp[x])
  BY DEF Typed
<1>4. /\ warp' \in [Warps -> States]
      /\ \A x \in Warps : warp'[x] = IF x = w THEN s ELSE warp[x]
  BY <1>1, <1>3, SumsMove
<1>5. ASSUME NEW x \in Warps PROVE WarpOK(warp[x])'
  <2>1. CASE x = w
    BY <1>1, <1>4, <2>1 DEF WarpOK
  <2>2. CASE x # w
    <3>1. V_size \in Nat
      BY <1>3, VNumbers
    <3>2. WarpOK(warp[x]) /\ warp'[x] = warp[x]
      BY <1>3, <1>4, <2>2
    <3>3. processing_vertex >= V_size => processing_vertex' >= V_size
      BY <1>1, <1>3, <3>1
    <3> QED BY <1>2, <3>2, <3>3 DEF WarpOK
  <2> QED BY <2>1, <2>2
<1> QED BY <1>1, <1>2, <1>3, <1>4, <1>5 DEF Typed

\* The invariant is kept by a step of w to s that keeps the account: each counter
\* changes as what the lists and w have of its tasks, and for each biclique that one
\* party less is to find it one more is counted, or another has it.
LEMMA Kept ==
  ASSUME KInv, NEW w, NEW s, Steps(w, s),
         global_count' = global_count - RootsOf(warp[w]) + RootsOf(s),
         large_count' = large_count + Len(global_large_worklist')
                          - Len(global_large_worklist) + LargeOf(s) - LargeOf(warp[w])
                          - UncountedOf(s) + UncountedOf(warp[w]),
         tiny_count' = tiny_count + SumLists' - SumLists + TinyOf(s) - TinyOf(warp[w]),
         \A b \in All : Waiting(b)' + Brings(b, s) + Counted(b)'
                          = Waiting(b) + Brings(b, warp[w]) + Counted(b),
         s.at \in Leaving /\ (\A x \in Warps \ {w} : warp[x].at \in Leaving) =>
           global_large_worklist' = <<>>,
         s.at = "left" /\ (\A x \in Warps \ {w} : warp[x].at = "left") =>
           \A k \in Blocks : local_tiny_worklist'[k] = <<>>
  PROVE  KInv'
<1>1. Typed /\ Counters /\ Shared /\ NoneWaits
  BY DEF KInv
<1>2. Typed'
  BY <1>1, TypesKept
<1>3. /\ graph' = graph /\ w \in Warps /\ s \in States /\ Become(w, s)
      /\ warp \in [Warps -> States]
  BY <1>1 DEF Steps, fixed, Typed
<1>4. /\ \A x \in Warps : warp'[x] = IF x = w THEN s ELSE warp[x]
      /\ SumRoots \in Nat /\ SumLarge \in Nat /\ SumUncounted \in Nat /\ SumTiny \in Nat
      /\ SumRoots' = SumRoots - RootsOf(warp[w]) + RootsOf(s)
      /\ SumLarge' = SumLarge - LargeOf(warp[w]) + LargeOf(s)
      /\ SumUncounted' = SumUncounted - UncountedOf(warp[w]) + UncountedOf(s)
      /\ SumTiny' = SumTiny - TinyOf(warp[w]) + TinyOf(s)
      /\ \A b : /\ SumBrings(b) \in Nat
                 /\ SumBrings(b)' = SumBrings(b) - Brings(b, warp[w]) + Brings(b, s)
  BY <1>3, SumsMove
<1>5. warp[w] \in States
  BY <1>3
<1>6. Counters'
  <2>1. /\ RootsOf(s) \in Nat /\ LargeOf(s) \in Nat /\ UncountedOf(s) \in Nat
        /\ TinyOf(s) \in Nat
        /\ RootsOf(warp[w]) \in Nat /\ LargeOf(warp[w]) \in Nat
        /\ UncountedOf(warp[w]) \in Nat /\ TinyOf(warp[w]) \in Nat
    BY <1>3, <1>5, SharesType
  <2>2. /\ Len(global_large_worklist) \in Nat /\ SumLists \in Nat
    BY <1>1, WaitingType
  <2>3. Len(global_large_worklist') \in Nat /\ SumLists' \in Nat
    <3>1. Len(global_large_worklist') \in Nat
      BY DEF Steps
    <3>2. (Typed => SumLists \in Nat)'
      BY WaitingType, PTL
    <3> QED BY <1>2, <3>1, <3>2
  <2>4. /\ global_count = SumRoots
        /\ large_count = Len(global_large_worklist) + SumLarge - SumUncounted
        /\ tiny_count = SumLists + SumTiny
    BY <1>1 DEF Counters
  <2>5. /\ global_count' = SumRoots'
        /\ large_count' = Len(global_large_worklist') + SumLarge' - SumUncounted'
        /\ tiny_count' = SumLists' + SumTiny'
    <3>1. global_count' = SumRoots'
      BY <1>4, <2>1, <2>4
    <3>2. large_count' = Len(global_large_worklist') + SumLarge' - SumUncounted'
      <4>1. large_count' = large_count + Len(global_large_worklist')
              - Len(global_large_worklist) + LargeOf(s) - LargeOf(warp[w])
              - UncountedOf(s) + UncountedOf(warp[w])
        OBVIOUS
      <4>2. /\ SumLarge \in Nat /\ SumUncounted \in Nat
            /\ SumLarge' = SumLarge - LargeOf(warp[w]) + LargeOf(s)
            /\ SumUncounted' = SumUncounted - UncountedOf(warp[w]) + UncountedOf(s)
        BY <1>4
      <4> DEFINE c == large_count
                 cc == large_count'
                 l == Len(global_large_worklist)
                 ll == Len(global_large_worklist')
                 a == SumLarge
                 aa == SumLarge'
                 u == SumUncounted
                 uu == SumUncounted'
                 x == LargeOf(warp[w])
                 y == LargeOf(s)
                 p == UncountedOf(warp[w])
                 q == UncountedOf(s)
      <4>3. /\ l \in Int /\ ll \in Int /\ a \in Int /\ u \in Int /\ x \in Int /\ y \in Int
            /\ p \in Int /\ q \in Int
        BY <2>1, <2>2, <2>3, <4>2
      <4>4. c = l + a - u /\ cc = c + ll - l + y - x - q + p /\ aa = a - x + y
            /\ uu = u - p + q
        BY <2>4, <4>1, <4>2
      <4> HIDE DEF c, cc, l, ll, a, aa, u, uu, x, y, p, q
      <4>5. cc = ll + aa - uu
        BY ONLY <4>3, <4>4
      <4> QED BY <4>5 DEF cc, ll, aa, uu
    <3>3. tiny_count' = SumLists' + SumTiny'
      <4>1. tiny_count' = tiny_count + SumLists' - SumLists + TinyOf(s) - TinyOf(warp[w])
        OBVIOUS
      <4>2. SumTiny \in Nat /\ SumTiny' = SumTiny - TinyOf(warp[w]) + TinyOf(s)
        BY <1>4
      <4> DEFINE c == tiny_count
                 cc == tiny_count'
                 l == SumLists
                 ll == SumLists'
                 a == SumTiny
                 aa == SumTiny'
                 x == TinyOf(warp[w])
                 y == TinyOf(s)
      <4>3. l \in Int /\ ll \in Int /\ a \in Int /\ x \in Int /\ y \in Int
        BY <2>1, <2>2, <2>3, <4>2
      <4>4. c = l + a /\ cc = c + ll - l + y - x /\ aa = a - x + y
        BY <2>4, <4>1, <4>2
      <4> HIDE DEF c, cc, l, ll, a, aa, x, y
      <4>5. cc = ll + aa
        BY ONLY <4>3, <4>4
      <4> QED BY <4>5 DEF cc, ll, aa
    <3> QED BY <3>1, <3>2, <3>3
  <2> QED BY <2>5 DEF Counters
<1>7. Shared'
  <2>1. All' = All
    BY <1>3, GraphStays
  <2>2. ASSUME NEW b \in All
        PROVE  Waiting(b)' + SumBrings(b)' + Counted(b)' = 1
    <3>1. Waiting(b) + SumBrings(b) + Counted(b) = 1
      BY <1>1 DEF Shared
    <3>2. Waiting(b) \in Nat /\ Counted(b) \in Nat
      BY <1>1, WaitingType
    <3>3. Waiting(b)' \in Nat /\ Counted(b)' \in Nat
      <4>1. (Typed => Waiting(b) \in Nat /\ Counted(b) \in Nat)'
        BY WaitingType, PTL
      <4> QED BY <1>2, <4>1
    <3>4. Brings(b, s) \in Nat /\ Brings(b, warp[w]) \in Nat
      BY <1>3, <1>5, SharesType
    <3>5. /\ SumBrings(b) \in Nat
          /\ SumBrings(b)' = SumBrings(b) - Brings(b, warp[w]) + Brings(b, s)
      BY <1>4
    <3>6. Waiting(b)' + Brings(b, s) + Counted(b)'
            = Waiting(b) + Brings(b, warp[w]) + Counted(b)
      OBVIOUS
    <3> QED BY ONLY <3>1, <3>2, <3>3, <3>4, <3>5, <3>6
  <2> QED BY <2>1, <2>2 DEF Shared
<1>8. NoneWaits'
  BY <1>3, <1>4 DEF NoneWaits
<1> QED BY <1>2, <1>6, <1>7, <1>8 DEF KInv

\* What a warp has after it has gone on to a: what it had, but for where it is.
LEMMA Goes ==
  ASSUME NEW s \in States, NEW a \in Places
  PROVE  LET t == [s EXCEPT !.at = a]
         IN  /\ t \in States /\ t.at = a /\ t.tt = s.tt /\ (t.tiny <=> s.tiny)
             /\ t.tiny_buffer = s.tiny_buffer
             /\ t.lgc = s.lgc /\ t.llc = s.llc /\ t.ltc = s.ltc
BY DEF States

\* What a warp has after it has taken off its roots.
LEMMA ZeroRoot ==
  ASSUME NEW s \in States
  PROVE  LET t == [s EXCEPT !.lgc = 0]
         IN  /\ t \in States /\ t.at = s.at /\ t.tt = s.tt /\ (t.tiny <=> s.tiny)
             /\ t.tiny_buffer = s.tiny_buffer
             /\ t.lgc = 0 /\ t.llc = s.llc /\ t.ltc = s.ltc
BY DEF States

\* The same of its large tasks.
LEMMA ZeroLarge ==
  ASSUME NEW s \in States
  PROVE  LET t == [s EXCEPT !.llc = 0]
         IN  /\ t \in States /\ t.at = s.at /\ t.tt = s.tt /\ (t.tiny <=> s.tiny)
             /\ t.tiny_buffer = s.tiny_buffer
             /\ t.lgc = s.lgc /\ t.llc = 0 /\ t.ltc = s.ltc
BY DEF States

\* The same of its tiny tasks.
LEMMA ZeroTiny ==
  ASSUME NEW s \in States
  PROVE  LET t == [s EXCEPT !.ltc = 0]
         IN  /\ t \in States /\ t.at = s.at /\ t.tt = s.tt /\ (t.tiny <=> s.tiny)
             /\ t.tiny_buffer = s.tiny_buffer
             /\ t.lgc = s.lgc /\ t.llc = s.llc /\ t.ltc = 0
BY DEF States

\* The parts of Waiting and Counted that a step leaves alone.
LEMMA Same ==
  ASSUME graph' = graph, NEW b
  PROVE  /\ processing_vertex' = processing_vertex => Unclaimed(b)' = Unclaimed(b)
         /\ global_large_worklist' = global_large_worklist => LargeHas(b)' = LargeHas(b)
         /\ local_tiny_worklist' = local_tiny_worklist =>
              ListsHave(b)' = ListsHave(b) /\ SumLists' = SumLists
         /\ found' = found => Counted(b)' = Counted(b)
<1>1. V_size' = V_size /\ TasksOf(b)' = TasksOf(b) /\ AsideOf(b)' = AsideOf(b)
  BY GraphStays
<1>2. processing_vertex' = processing_vertex => Unclaimed(b)' = Unclaimed(b)
  BY <1>1 DEF Unclaimed
<1>3. global_large_worklist' = global_large_worklist => LargeHas(b)' = LargeHas(b)
  BY <1>1 DEF LargeHas, CountIn
<1>4. local_tiny_worklist' = local_tiny_worklist =>
        ListsHave(b)' = ListsHave(b) /\ SumLists' = SumLists
  BY <1>1 DEF ListsHave, SumLists, SumOf, CountIn
<1>5. found' = found => Counted(b)' = Counted(b)
  BY DEF Counted
<1> QED BY <1>2, <1>3, <1>4, <1>5

\* What a warp has stays right.
LEMMA OKStays ==
  ASSUME graph' = graph, NEW s, WarpOK(s),
         processing_vertex' = processing_vertex
           \/ s.at \notin {"flush", "readLarge", "readTiny", "left"}
  PROVE  WarpOK(s)'
<1>1. V_size' = V_size /\ Tasks' = Tasks /\ Maximals' = Maximals
  BY GraphStays
<1> QED BY <1>1 DEF WarpOK

\* The counters and the sums are numbers; large_count may be -1.
LEMMA CountersType ==
  ASSUME KInv
  PROVE  /\ global_count \in Nat /\ large_count \in Int /\ tiny_count \in Nat
         /\ SumRoots \in Nat /\ SumLarge \in Nat /\ SumUncounted \in Nat /\ SumTiny \in Nat
<1>0. \A x \in Warps : warp[x] \in States
  BY DEF KInv, Typed
<1>1. SumRoots \in Nat
  <2> DEFINE f == [x \in Warps |-> RootsOf(warp[x])]
  <2>1. f \in [Warps -> Nat]
    BY <1>0, SharesType
  <2> HIDE DEF f
  <2>2. SumOf(f) \in Nat
    BY <2>1, WarpsFinite, AllTokens
  <2> QED BY <2>2 DEF f, SumRoots
<1>2. SumLarge \in Nat
  <2> DEFINE f == [x \in Warps |-> LargeOf(warp[x])]
  <2>1. f \in [Warps -> Nat]
    BY <1>0, SharesType
  <2> HIDE DEF f
  <2>2. SumOf(f) \in Nat
    BY <2>1, WarpsFinite, AllTokens
  <2> QED BY <2>2 DEF f, SumLarge
<1>3. SumUncounted \in Nat
  <2> DEFINE f == [x \in Warps |-> UncountedOf(warp[x])]
  <2>1. f \in [Warps -> Nat]
    BY <1>0, SharesType
  <2> HIDE DEF f
  <2>2. SumOf(f) \in Nat
    BY <2>1, WarpsFinite, AllTokens
  <2> QED BY <2>2 DEF f, SumUncounted
<1>4. SumTiny \in Nat
  <2> DEFINE f == [x \in Warps |-> TinyOf(warp[x])]
  <2>1. f \in [Warps -> Nat]
    BY <1>0, SharesType
  <2> HIDE DEF f
  <2>2. SumOf(f) \in Nat
    BY <2>1, WarpsFinite, AllTokens
  <2> QED BY <2>2 DEF f, SumTiny
<1>5. SumLists \in Nat /\ Len(global_large_worklist) \in Nat
  BY WaitingType DEF KInv
<1>6. /\ global_count = SumRoots
      /\ large_count = Len(global_large_worklist) + SumLarge - SumUncounted
      /\ tiny_count = SumLists + SumTiny
  BY DEF KInv, Counters
<1> QED BY ONLY <1>1, <1>2, <1>3, <1>4, <1>5, <1>6

\* Kept, for a step that leaves the lists and the result alone.
LEMMA Quiet ==
  ASSUME KInv, NEW w \in Warps, NEW s \in States, Become(w, s),
         UNCHANGED <<fixed, lists, result>>,
         processing_vertex' \in Nat, processing_vertex <= processing_vertex',
         WarpOK(s)',
         global_count' = global_count - RootsOf(warp[w]) + RootsOf(s),
         large_count' = large_count + LargeOf(s) - LargeOf(warp[w])
                          - UncountedOf(s) + UncountedOf(warp[w]),
         tiny_count' = tiny_count + TinyOf(s) - TinyOf(warp[w]),
         \A b \in All : Unclaimed(b)' + Brings(b, s) = Unclaimed(b) + Brings(b, warp[w]),
         s.at \in Leaving /\ (\A x \in Warps \ {w} : warp[x].at \in Leaving) =>
           global_large_worklist = <<>>,
         s.at = "left" /\ (\A x \in Warps \ {w} : warp[x].at = "left") =>
           \A k \in Blocks : local_tiny_worklist[k] = <<>>
  PROVE  KInv'
<1>1. /\ graph' = graph /\ global_large_worklist' = global_large_worklist
      /\ local_tiny_worklist' = local_tiny_worklist
      /\ found' = found /\ maximal_bicliques' = maximal_bicliques
  BY DEF fixed, lists, result
<1>2. Typed /\ Counters
  BY DEF KInv
<1>3. Steps(w, s)
  BY <1>1, <1>2 DEF Steps, Typed
<1>4. SumLists' = SumLists /\ SumLists \in Nat /\ Len(global_large_worklist) \in Nat
  BY <1>1, <1>2, Same, WaitingType
<1>5. /\ SumLarge \in Nat /\ SumUncounted \in Nat /\ SumTiny \in Nat
      /\ warp \in [Warps -> States]
  BY <1>1, <1>2, SumsMove DEF Typed
<1>6. /\ LargeOf(s) \in Nat /\ UncountedOf(s) \in Nat /\ TinyOf(s) \in Nat
      /\ LargeOf(warp[w]) \in Nat /\ UncountedOf(warp[w]) \in Nat /\ TinyOf(warp[w]) \in Nat
  BY <1>5, SharesType
<1>7. large_count \in Int /\ tiny_count \in Int
  BY <1>2, <1>4, <1>5 DEF Counters
<1>8. large_count' = large_count + Len(global_large_worklist')
                          - Len(global_large_worklist) + LargeOf(s) - LargeOf(warp[w])
                          - UncountedOf(s) + UncountedOf(warp[w])
  BY <1>1, <1>4, <1>6, <1>7
<1>9. tiny_count' = tiny_count + SumLists' - SumLists + TinyOf(s) - TinyOf(warp[w])
  BY <1>4, <1>6, <1>7
<1>10. ASSUME NEW b \in All
       PROVE  Waiting(b)' + Brings(b, s) + Counted(b)'
                = Waiting(b) + Brings(b, warp[w]) + Counted(b)
  <2>1. LargeHas(b)' = LargeHas(b) /\ ListsHave(b)' = ListsHave(b) /\ Counted(b)' = Counted(b)
    BY <1>1, Same
  <2>2. LargeHas(b) \in Nat /\ ListsHave(b) \in Nat /\ Counted(b) \in Nat /\ Unclaimed(b) \in Nat
    BY <1>2, WaitingType
  <2>3. Unclaimed(b)' \in Nat
    BY DEF Unclaimed
  <2>4. Brings(b, s) \in Nat /\ Brings(b, warp[w]) \in Nat
    BY <1>5, SharesType
  <2>5. Unclaimed(b)' + Brings(b, s) = Unclaimed(b) + Brings(b, warp[w])
    OBVIOUS
  <2>6. /\ Waiting(b)' = Unclaimed(b)' + LargeHas(b)' + ListsHave(b)'
        /\ Waiting(b) = Unclaimed(b) + LargeHas(b) + ListsHave(b)
    BY DEF Waiting
  <2> QED BY ONLY <2>1, <2>2, <2>3, <2>4, <2>5, <2>6
<1> QED BY <1>1, <1>3, <1>8, <1>9, <1>10, Kept

\* Where a warp has nothing in its hands.
Walking == {"look", "vertex", "claim", "flush", "readLarge", "readTiny", "left"}

\* Where a warp looks for work it has none in its hands.
LEMMA Empty ==
  ASSUME NEW s \in States, s.at \in Walking, NEW b
  PROVE  /\ RootsOf(s) = s.lgc /\ LargeOf(s) = s.llc /\ TinyOf(s) = s.ltc
         /\ UncountedOf(s) = 0 /\ (s.tiny_buffer = <<>> => Brings(b, s) = 0)
<1>1. s.lgc \in Nat /\ s.llc \in Nat /\ s.ltc \in Nat
  BY DEF States
<1>2. ~InHand(s) /\ s.at \notin {"claimed", "task", "push", "divided", "hand", "pushed"}
  BY DEF Walking, InHand
<1>3. RootsOf(s) = s.lgc /\ LargeOf(s) = s.llc
  BY <1>1, <1>2 DEF RootsOf, LargeOf
<1>4. TinyOf(s) = s.ltc /\ UncountedOf(s) = 0
  BY <1>1, <1>2 DEF TinyOf, UncountedOf
<1>5. ASSUME s.tiny_buffer = <<>> PROVE Brings(b, s) = 0
  <2>1. Brings(b, s) = CountIn(s.tiny_buffer, TasksOf(b))
    BY <1>2 DEF Brings
  <2> QED BY <1>5, <2>1, CountEmpty
<1> QED BY <1>3, <1>4, <1>5

\* The invariant is kept by a step with empty hands.
LEMMA Walks ==
  ASSUME KInv, NEW w \in Warps, NEW a \in Walking, warp[w].at \in Walking, Go(w, a),
         UNCHANGED <<fixed, counters, lists, result>>,
         processing_vertex' \in Nat, processing_vertex <= processing_vertex',
         \A b \in All : Unclaimed(b)' = Unclaimed(b),
         a \in {"flush", "readLarge", "readTiny", "left"} => processing_vertex' >= V_size,
         a \in {"readLarge", "readTiny", "left"} =>
           warp[w].lgc = 0 /\ warp[w].llc = 0 /\ warp[w].ltc = 0,
         a \in Leaving /\ (\A x \in Warps \ {w} : warp[x].at \in Leaving) =>
           global_large_worklist = <<>>,
         a = "left" /\ (\A x \in Warps \ {w} : warp[x].at = "left") =>
           \A k \in Blocks : local_tiny_worklist[k] = <<>>
  PROVE  KInv'
<1>0. PICK s : s = [warp[w] EXCEPT !.at = a]
  OBVIOUS
<1>1. warp[w] \in States /\ WarpOK(warp[w]) /\ graph' = graph /\ Typed /\ Counters
  BY DEF KInv, Typed, fixed
<1>2. a \in Places
  BY DEF Walking, Places
<1>3. /\ s \in States /\ s.at = a /\ s.tiny_buffer = warp[w].tiny_buffer
      /\ s.lgc = warp[w].lgc /\ s.llc = warp[w].llc /\ s.ltc = warp[w].ltc
  BY <1>0, <1>1, <1>2, Goes
<1>4. Become(w, s)
  BY <1>0 DEF Go
<1>5. warp[w].tiny_buffer = <<>> /\ warp[w].tiny_buffer \in Seq(Tasks)
  BY <1>1 DEF WarpOK, Walking
<1>6. WarpOK(s)'
  <2>1. V_size' = V_size /\ Tasks' = Tasks
    BY <1>1, GraphStays
  <2>2. a \notin {"claimed", "task", "push"}
    BY DEF Walking
  <2> QED BY <1>3, <1>5, <2>1, <2>2 DEF WarpOK
<1>7. /\ RootsOf(s) = RootsOf(warp[w]) /\ LargeOf(s) = LargeOf(warp[w])
      /\ TinyOf(s) = TinyOf(warp[w])
      /\ UncountedOf(s) = 0 /\ UncountedOf(warp[w]) = 0
      /\ \A b : Brings(b, s) = 0 /\ Brings(b, warp[w]) = 0
  BY <1>1, <1>3, <1>5, Empty
<1>8. /\ global_count' = global_count /\ large_count' = large_count
      /\ tiny_count' = tiny_count
  BY DEF counters
<1>9. /\ global_count' = global_count - RootsOf(warp[w]) + RootsOf(s)
      /\ large_count' = large_count + LargeOf(s) - LargeOf(warp[w])
                          - UncountedOf(s) + UncountedOf(warp[w])
      /\ tiny_count' = tiny_count + TinyOf(s) - TinyOf(warp[w])
  <2>1. /\ global_count \in Int /\ large_count \in Int /\ tiny_count \in Int
    BY CountersType
  <2>2. RootsOf(s) \in Nat /\ LargeOf(s) \in Nat /\ TinyOf(s) \in Nat
    BY <1>3, SharesType
  <2> QED BY <1>7, <1>8, <2>1, <2>2
<1>10. \A b \in All : Unclaimed(b)' + Brings(b, s) = Unclaimed(b) + Brings(b, warp[w])
  BY <1>7
<1> QED BY <1>3, <1>4, <1>6, <1>9, <1>10, Quiet

\* Steps that only look at a list or at processing_vertex.
LEMMA LooksKeep ==
  ASSUME KInv, NEW w \in Warps,
         FindNoTiny(w) \/ LookForVertex(w) \/ FindNoLarge(w) \/ LookForEnd(w)
  PROVE  KInv'
<1>1. UNCHANGED <<fixed, processing_vertex, counters, lists, result>>
      /\ warp[w].at \in {"look", "vertex"}
  BY DEF FindNoTiny, LookForVertex, FindNoLarge, LookForEnd
<1>2. PICK a \in {"look", "vertex", "claim", "flush"} :
        Go(w, a) /\ (a = "flush" => ~(processing_vertex < V_size))
  <2>1. CASE FindNoTiny(w) \/ FindNoLarge(w)
    BY <2>1 DEF FindNoTiny, FindNoLarge
  <2>2. CASE LookForVertex(w)
    BY <2>2 DEF LookForVertex
  <2>3. CASE LookForEnd(w)
    BY <2>3 DEF LookForEnd
  <2> QED BY <2>1, <2>2, <2>3
<1>3. graph' = graph /\ processing_vertex' = processing_vertex
  BY <1>1 DEF fixed
<1>4. processing_vertex \in Nat /\ V_size \in Nat /\ V_size' = V_size
  BY <1>3, VNumbers, GraphStays DEF KInv, Typed
<1>5. \A b \in All : Unclaimed(b)' = Unclaimed(b)
  BY <1>3, Same
<1>6. a \in Walking /\ warp[w].at \in Walking /\ a \notin Leaving
      /\ a \notin {"readLarge", "readTiny", "left"}
  BY <1>1, <1>2 DEF Walking, Leaving
<1>7. a = "flush" => processing_vertex' >= V_size
  BY <1>2, <1>3, <1>4
<1> QED BY <1>1, <1>2, <1>3, <1>4, <1>5, <1>6, <1>7, Walks DEF Leaving

\* The claim that found no vertex.
LEMMA ClaimsNone ==
  ASSUME KInv, NEW w \in Warps, ClaimVertex(w), ~(V_size - 1 - processing_vertex >= 0)
  PROVE  KInv'
<1>1. /\ UNCHANGED <<fixed, counters, lists, result>> /\ warp[w].at = "claim"
      /\ processing_vertex' = processing_vertex + 1 /\ Go(w, "look")
  BY DEF ClaimVertex
<1>2. graph' = graph /\ KernelGraph
  BY <1>1 DEF fixed, KInv, Typed
<1>3. processing_vertex \in Nat /\ V_size \in Nat /\ V_size' = V_size
  BY <1>2, VNumbers, GraphStays DEF KInv, Typed
<1>4. \A b \in All : Unclaimed(b)' = Unclaimed(b)
  <2> SUFFICES ASSUME NEW b \in All PROVE Unclaimed(b)' = Unclaimed(b)
    OBVIOUS
  <2>1. PICK m : m = Min(b[2])
    OBVIOUS
  <2>2. m \in Nat
    <3>1. b[2] # {} /\ b[2] \subseteq Nat
      BY <1>2, InAll, VNumbers
    <3> QED BY <2>1, <3>1, MinOfNats
  <2>3. ~(m < V_size - processing_vertex) /\ ~(m < V_size - (processing_vertex + 1))
    BY <1>3, <2>2
  <2> QED BY <1>1, <1>3, <2>1, <2>3 DEF Unclaimed
<1>5. warp[w].at \in Walking /\ "look" \in Walking /\ "look" \notin Leaving
  BY <1>1 DEF Walking, Leaving
<1> QED BY <1>1, <1>3, <1>4, <1>5, Walks DEF Leaving

\* The reads of the counters.  Whoever passes the second last has seen no large
\* task, whoever passes the third last no tiny one.
LEMMA ReadsKeep ==
  ASSUME KInv, NEW w \in Warps, ReadGlobal(w) \/ ReadLarge(w) \/ ReadTiny(w)
  PROVE  KInv'
<1>1. /\ UNCHANGED <<fixed, processing_vertex, counters, lists, result>>
      /\ warp[w].at \in {"flush", "readLarge", "readTiny"}
  BY DEF ReadGlobal, ReadLarge, ReadTiny, Read
<1>2. PICK a \in {"look", "readLarge", "readTiny", "left"} :
        /\ Go(w, a)
        /\ a # "look" => warp[w].lgc = 0 /\ warp[w].llc = 0 /\ warp[w].ltc = 0
        /\ a = "readTiny" => warp[w].at = "readLarge" /\ large_count = 0
        /\ a = "left" => warp[w].at = "readTiny" /\ tiny_count = 0
  <2>0. WarpOK(warp[w])
    BY DEF KInv, Typed
  <2>1. CASE ReadGlobal(w)
    BY <2>1 DEF ReadGlobal, Read
  <2>2. CASE ReadLarge(w)
    BY <2>0, <2>2 DEF ReadLarge, Read, WarpOK
  <2>3. CASE ReadTiny(w)
    BY <2>0, <2>3 DEF ReadTiny, Read, WarpOK
  <2> QED BY <2>1, <2>2, <2>3
<1>3. graph' = graph /\ processing_vertex' = processing_vertex /\ Typed /\ NoneWaits
  BY <1>1 DEF fixed, KInv
<1>4. processing_vertex \in Nat /\ V_size \in Nat
      /\ processing_vertex >= V_size
      /\ \A x \in Warps : warp[x] \in States /\ WarpOK(warp[x])
  BY <1>1, <1>3, VNumbers DEF Typed, WarpOK
<1>5. \A b \in All : Unclaimed(b)' = Unclaimed(b)
  BY <1>3, Same
<1>6. a \in Walking /\ warp[w].at \in Walking /\ (a # "look" => a \in {"readLarge", "readTiny", "left"})
  BY <1>1, <1>2 DEF Walking
<1>7. ASSUME a \in Leaving, \A x \in Warps \ {w} : warp[x].at \in Leaving
      PROVE  global_large_worklist = <<>>
  <2>1. CASE a = "left"
    BY <1>2, <1>3, <1>7, <2>1 DEF NoneWaits, Leaving
  <2>2. CASE a = "readTiny"
    <3>1. \A x \in Warps : warp[x].at \in {"readLarge", "readTiny", "left"}
      BY <1>2, <1>7, <2>2 DEF Leaving
    <3>2. \A x \in Warps : LargeOf(warp[x]) = 0 /\ UncountedOf(warp[x]) = 0
      <4> SUFFICES ASSUME NEW x \in Warps
                   PROVE  LargeOf(warp[x]) = 0 /\ UncountedOf(warp[x]) = 0
        OBVIOUS
      <4>1. warp[x] \in States /\ warp[x].at \in Walking /\ warp[x].llc = 0
        BY <1>4, <3>1 DEF Walking, WarpOK
      <4> QED BY <4>1, Empty
    <3>3. SumLarge = 0 /\ SumUncounted = 0
      <4> DEFINE f == [x \in Warps |-> LargeOf(warp[x])]
                 g == [x \in Warps |-> UncountedOf(warp[x])]
      <4>1. /\ f \in [Warps -> Nat] /\ g \in [Warps -> Nat]
            /\ \A x \in Warps : f[x] = 0 /\ g[x] = 0
        BY <3>2
      <4>2. SumLarge = SumOf(f) /\ SumUncounted = SumOf(g)
        BY DEF SumLarge, SumUncounted
      <4> HIDE DEF f, g
      <4> QED BY <4>1, <4>2, WarpsFinite, SumZero
    <3>4. large_count = Len(global_large_worklist) + SumLarge - SumUncounted
      BY DEF KInv, Counters
    <3>5. Len(global_large_worklist) \in Nat
      BY <1>3, WaitingType
    <3>6. Len(global_large_worklist) = 0
      BY <1>2, <2>2, <3>3, <3>4, <3>5
    <3> QED BY <1>3, <3>6 DEF Typed
  <2> QED BY <1>7, <2>1, <2>2 DEF Leaving
<1>8. ASSUME a = "left", \A x \in Warps \ {w} : warp[x].at = "left"
      PROVE  \A k \in Blocks : local_tiny_worklist[k] = <<>>
  <2>1. \A x \in Warps : warp[x].at \in {"readTiny", "left"}
    BY <1>2, <1>8
  <2>2. \A x \in Warps : TinyOf(warp[x]) = 0
    <3> SUFFICES ASSUME NEW x \in Warps PROVE TinyOf(warp[x]) = 0
      OBVIOUS
    <3>1. warp[x] \in States /\ warp[x].at \in Walking /\ warp[x].ltc = 0
      BY <1>4, <2>1 DEF Walking, WarpOK
    <3> QED BY <3>1, Empty
  <2>3. SumTiny = 0
    <3> DEFINE f == [x \in Warps |-> TinyOf(warp[x])]
    <3>1. f \in [Warps -> Nat] /\ \A x \in Warps : f[x] = 0
      BY <2>2
    <3>2. SumTiny = SumOf(f)
      BY DEF SumTiny
    <3> HIDE DEF f
    <3> QED BY <3>1, <3>2, WarpsFinite, SumZero
  <2>4. tiny_count = SumLists + SumTiny /\ SumLists \in Nat
    BY <1>3, WaitingType DEF KInv, Counters
  <2>5. SumLists = 0
    BY <1>2, <1>8, <2>3, <2>4
  <2>6. \A k \in Blocks : Len(local_tiny_worklist[k]) = 0
    <3> DEFINE f == [k \in Blocks |-> Len(local_tiny_worklist[k])]
    <3>1. f \in [Blocks -> Nat] /\ SumLists = SumOf(f)
      BY <1>3 DEF Typed, SumLists
    <3> HIDE DEF f
    <3>2. \A k \in Blocks : f[k] = 0
      BY <2>5, <3>1, WarpsFinite, SumZero
    <3> QED BY <3>2 DEF f
  <2> QED BY <1>3, <2>6 DEF Typed
<1>9. processing_vertex' \in Nat /\ processing_vertex <= processing_vertex'
      /\ processing_vertex' >= V_size
  BY <1>3, <1>4
<1>10. Go(w, a) /\ UNCHANGED <<fixed, counters, lists, result>>
       /\ (a \in {"readLarge", "readTiny", "left"} =>
             warp[w].lgc = 0 /\ warp[w].llc = 0 /\ warp[w].ltc = 0)
  BY <1>1, <1>2
<1> QED BY <1>5, <1>6, <1>7, <1>8, <1>9, <1>10, Walks

\* What a warp has of the counters when it has done its task.
LEMMA Does ==
  ASSUME KInv, NEW w \in Warps, warp[w].at \in {"task", "push", "pushed"}, Done(w),
         graph' = graph
  PROVE  \E s \in States :
           /\ Become(w, s) /\ s.at = "look" /\ s.tiny_buffer = <<>> /\ WarpOK(s)'
           /\ RootsOf(s) = RootsOf(warp[w]) /\ LargeOf(s) = LargeOf(warp[w])
           /\ TinyOf(s) = TinyOf(warp[w]) /\ UncountedOf(s) = 0
           /\ \A b : Brings(b, s) = 0
<1>1. warp[w] \in States /\ WarpOK(warp[w])
  BY DEF KInv, Typed
<1>2. /\ warp[w].lgc \in Nat /\ warp[w].llc \in Nat /\ warp[w].ltc \in Nat
      /\ warp[w].lgc + 1 \in Nat /\ warp[w].ltc + 1 \in Nat
      /\ "look" \in Places
  BY <1>1 DEF States, Places
<1>3. InHand(warp[w]) /\ warp[w].at \notin {"divided", "hand"}
  BY DEF InHand
<1>4. warp[w].tiny_buffer = <<>> /\ warp[w].tiny_buffer \in Seq(Tasks)
  BY <1>1, <1>3 DEF WarpOK
<1>5. /\ LargeOf(warp[w]) = warp[w].llc
      /\ warp[w].tiny => RootsOf(warp[w]) = warp[w].lgc /\ TinyOf(warp[w]) = warp[w].ltc + 1
      /\ ~warp[w].tiny => RootsOf(warp[w]) = warp[w].lgc + 1 /\ TinyOf(warp[w]) = warp[w].ltc
  BY <1>2, <1>3 DEF LargeOf, RootsOf, TinyOf
<1>6. ASSUME NEW s \in States, s.at = "look", s.tiny_buffer = <<>>
      PROVE  /\ WarpOK(s)'
             /\ RootsOf(s) = s.lgc /\ LargeOf(s) = s.llc /\ TinyOf(s) = s.ltc
             /\ UncountedOf(s) = 0 /\ \A b : Brings(b, s) = 0
  <2>1. Tasks' = Tasks
    BY GraphStays
  <2>2. WarpOK(s)'
    BY <1>4, <1>6, <2>1 DEF WarpOK
  <2>3. s.at \in Walking
    BY <1>6 DEF Walking
  <2> QED BY <1>6, <2>2, <2>3, Empty
<1>7. CASE warp[w].tiny
  <2>0. PICK n \in Nat : n = warp[w].ltc + 1
    BY <1>2
  <2>1. PICK s : s = [warp[w] EXCEPT !.at = "look", !.ltc = n]
    OBVIOUS
  <2>2. /\ s \in States /\ s.at = "look" /\ s.tiny_buffer = <<>>
        /\ s.lgc = warp[w].lgc /\ s.llc = warp[w].llc /\ s.ltc = warp[w].ltc + 1
    BY <1>1, <1>2, <1>4, <2>0, <2>1 DEF States
  <2>3. Become(w, s)
    BY <1>7, <2>0, <2>1 DEF Done
  <2> QED BY <1>5, <1>6, <1>7, <2>2, <2>3
<1>8. CASE ~warp[w].tiny
  <2>0. PICK n \in Nat : n = warp[w].lgc + 1
    BY <1>2
  <2>1. PICK s : s = [warp[w] EXCEPT !.at = "look", !.lgc = n]
    OBVIOUS
  <2>2. /\ s \in States /\ s.at = "look" /\ s.tiny_buffer = <<>>
        /\ s.lgc = warp[w].lgc + 1 /\ s.llc = warp[w].llc /\ s.ltc = warp[w].ltc
    BY <1>1, <1>2, <1>4, <2>0, <2>1 DEF States
  <2>3. Become(w, s)
    BY <1>8, <2>0, <2>1 DEF Done
  <2> QED BY <1>5, <1>6, <1>8, <2>2, <2>3
<1> QED BY <1>7, <1>8

\* A large task is counted.
LEMMA CountLargeKeeps == ASSUME KInv, NEW w \in Warps, CountLarge(w) PROVE KInv'
<1>1. /\ warp[w].at = "pushed" /\ large_count' = large_count + 1 /\ Done(w)
      /\ UNCHANGED <<fixed, processing_vertex, global_count, tiny_count, lists, result>>
  BY DEF CountLarge
<1>2. graph' = graph /\ processing_vertex' = processing_vertex
      /\ processing_vertex \in Nat /\ warp[w] \in States /\ WarpOK(warp[w])
  BY <1>1 DEF fixed, KInv, Typed
<1>3. PICK s \in States :
        /\ Become(w, s) /\ s.at = "look" /\ s.tiny_buffer = <<>> /\ WarpOK(s)'
        /\ RootsOf(s) = RootsOf(warp[w]) /\ LargeOf(s) = LargeOf(warp[w])
        /\ TinyOf(s) = TinyOf(warp[w]) /\ UncountedOf(s) = 0
        /\ \A b : Brings(b, s) = 0
  BY <1>1, <1>2, Does
<1>4. /\ RootsOf(s) \in Nat /\ LargeOf(s) \in Nat /\ TinyOf(s) \in Nat
      /\ global_count \in Nat /\ large_count \in Int /\ tiny_count \in Nat
  BY SharesType, CountersType
<1>5. UncountedOf(warp[w]) = 1
  BY <1>1 DEF UncountedOf
<1>6. \A b \in All : Unclaimed(b)' + Brings(b, s) = Unclaimed(b) + Brings(b, warp[w])
  <2>1. \A b : Brings(b, warp[w]) = CountIn(warp[w].tiny_buffer, TasksOf(b))
    BY <1>1 DEF Brings
  <2>2. warp[w].tiny_buffer = <<>>
    BY <1>1, <1>2 DEF WarpOK
  <2>3. \A b : Brings(b, warp[w]) = 0
    BY <2>1, <2>2, CountEmpty
  <2> QED BY <1>2, <1>3, <2>3, Same
<1>7. global_count' = global_count - RootsOf(warp[w]) + RootsOf(s)
  BY <1>1, <1>3, <1>4
<1>8. large_count' = large_count + LargeOf(s) - LargeOf(warp[w])
                          - UncountedOf(s) + UncountedOf(warp[w])
  BY <1>1, <1>3, <1>4, <1>5
<1>9. tiny_count' = tiny_count + TinyOf(s) - TinyOf(warp[w])
  BY <1>1, <1>3, <1>4
<1> QED BY <1>1, <1>2, <1>3, <1>6, <1>7, <1>8, <1>9, Quiet DEF Leaving

\* A root is counted.
LEMMA CountVertexKeeps == ASSUME KInv, NEW w \in Warps, CountVertex(w) PROVE KInv'
<1>1. /\ warp[w].at = "claimed" /\ global_count' = global_count + 1 /\ Go(w, "task")
      /\ UNCHANGED <<fixed, processing_vertex, large_count, tiny_count, lists, result>>
  BY DEF CountVertex
<1>2. graph' = graph /\ processing_vertex' = processing_vertex
      /\ processing_vertex \in Nat /\ warp[w] \in States /\ WarpOK(warp[w])
  BY <1>1 DEF fixed, KInv, Typed
<1>3. PICK s : s = [warp[w] EXCEPT !.at = "task"]
  OBVIOUS
<1>4. /\ s \in States /\ s.at = "task" /\ s.tt = warp[w].tt /\ (s.tiny <=> warp[w].tiny)
      /\ s.tiny_buffer = warp[w].tiny_buffer
      /\ s.lgc = warp[w].lgc /\ s.llc = warp[w].llc /\ s.ltc = warp[w].ltc
  <2>1. "task" \in Places
    BY DEF Places
  <2> QED BY <1>2, <1>3, <2>1, Goes
<1>5. Become(w, s)
  BY <1>1, <1>3 DEF Go
<1>6. WarpOK(s)'
  <2>1. WarpOK(s)
    BY <1>1, <1>2, <1>4 DEF WarpOK
  <2> QED BY <1>2, <2>1, OKStays
<1>7. s.lgc \in Nat /\ s.llc \in Nat /\ s.ltc \in Nat /\ ~s.tiny
  BY <1>1, <1>2, <1>4 DEF States, WarpOK
<1>8. /\ RootsOf(s) = s.lgc + 1 /\ RootsOf(warp[w]) = s.lgc
      /\ LargeOf(s) = s.llc /\ LargeOf(warp[w]) = s.llc
      /\ TinyOf(s) = s.ltc /\ TinyOf(warp[w]) = s.ltc
      /\ UncountedOf(s) = 0 /\ UncountedOf(warp[w]) = 0
  BY <1>1, <1>4, <1>7 DEF RootsOf, LargeOf, TinyOf, UncountedOf, InHand
<1>9. /\ global_count \in Nat /\ large_count \in Int /\ tiny_count \in Nat
  BY CountersType
<1>10. \A b \in All : Unclaimed(b)' + Brings(b, s) = Unclaimed(b) + Brings(b, warp[w])
  <2>1. \A b : Brings(b, s) = Brings(b, warp[w])
    BY <1>1, <1>4 DEF Brings
  <2> QED BY <1>2, <2>1, Same
<1>11. global_count' = global_count - RootsOf(warp[w]) + RootsOf(s)
  BY <1>1, <1>7, <1>8, <1>9
<1>12. large_count' = large_count + LargeOf(s) - LargeOf(warp[w])
                          - UncountedOf(s) + UncountedOf(warp[w])
  BY <1>1, <1>7, <1>8, <1>9
<1>13. tiny_count' = tiny_count + TinyOf(s) - TinyOf(warp[w])
  BY <1>1, <1>7, <1>8, <1>9
<1> QED BY <1>1, <1>2, <1>4, <1>5, <1>6, <1>10, <1>11, <1>12, <1>13, Quiet DEF Leaving

\* The tasks in a divider's buffer are counted.
LEMMA CountTinyKeeps == ASSUME KInv, NEW w \in Warps, CountTiny(w) PROVE KInv'
<1>1. /\ warp[w].at = "divided" /\ Go(w, "hand")
      /\ tiny_count' = tiny_count + Len(warp[w].tiny_buffer)
      /\ UNCHANGED <<fixed, processing_vertex, global_count, large_count, lists, result>>
  BY DEF CountTiny
<1>2. graph' = graph /\ processing_vertex' = processing_vertex
      /\ processing_vertex \in Nat /\ warp[w] \in States /\ WarpOK(warp[w])
  BY <1>1 DEF fixed, KInv, Typed
<1>3. PICK s : s = [warp[w] EXCEPT !.at = "hand"]
  OBVIOUS
<1>4. /\ s \in States /\ s.at = "hand" /\ s.tiny_buffer = warp[w].tiny_buffer
      /\ s.lgc = warp[w].lgc /\ s.llc = warp[w].llc /\ s.ltc = warp[w].ltc
  <2>1. "hand" \in Places
    BY DEF Places
  <2> QED BY <1>2, <1>3, <2>1, Goes
<1>5. Become(w, s)
  BY <1>1, <1>3 DEF Go
<1>6. WarpOK(s)'
  <2>1. WarpOK(s)
    BY <1>1, <1>2, <1>4 DEF WarpOK
  <2> QED BY <1>2, <2>1, OKStays
<1>7. s.lgc \in Nat /\ s.llc \in Nat /\ s.ltc \in Nat /\ Len(s.tiny_buffer) \in Nat
  BY <1>1, <1>2, <1>4 DEF States
<1>8. /\ RootsOf(s) = s.lgc /\ RootsOf(warp[w]) = s.lgc
      /\ LargeOf(s) = s.llc + 1 /\ LargeOf(warp[w]) = s.llc + 1
      /\ TinyOf(s) = s.ltc + Len(s.tiny_buffer) /\ TinyOf(warp[w]) = s.ltc
      /\ UncountedOf(s) = 0 /\ UncountedOf(warp[w]) = 0
  BY <1>1, <1>4, <1>7 DEF RootsOf, LargeOf, TinyOf, UncountedOf, InHand
<1>9. /\ global_count \in Nat /\ large_count \in Int /\ tiny_count \in Nat
  BY CountersType
<1>10. \A b \in All : Unclaimed(b)' + Brings(b, s) = Unclaimed(b) + Brings(b, warp[w])
  <2>1. \A b : Brings(b, s) = Brings(b, warp[w])
    BY <1>1, <1>4 DEF Brings
  <2> QED BY <1>2, <2>1, Same
<1>11. global_count' = global_count - RootsOf(warp[w]) + RootsOf(s)
  BY <1>1, <1>7, <1>8, <1>9
<1>12. large_count' = large_count + LargeOf(s) - LargeOf(warp[w])
                          - UncountedOf(s) + UncountedOf(warp[w])
  BY <1>1, <1>7, <1>8, <1>9
<1>13. tiny_count' = tiny_count + TinyOf(s) - TinyOf(warp[w])
  <2>1. PICK n \in Nat : n = Len(s.tiny_buffer)
    BY <1>7
  <2>2. tiny_count' = tiny_count + n /\ TinyOf(s) = s.ltc + n
    BY <1>1, <1>4, <1>8, <2>1
  <2> QED BY <1>7, <1>8, <1>9, <2>2
<1> QED BY <1>1, <1>2, <1>4, <1>5, <1>6, <1>10, <1>11, <1>12, <1>13, Quiet DEF Leaving

\* A warp takes off what it has done.
LEMMA FlushKeeps ==
  ASSUME KInv, NEW w \in Warps, FlushTiny(w) \/ FlushVertices(w) \/ FlushLarge(w)
  PROVE  KInv'
<1>1. warp[w].at = "flush" /\ UNCHANGED <<fixed, processing_vertex, lists, result>>
  BY DEF FlushTiny, FlushVertices, FlushLarge
<1>2. graph' = graph /\ processing_vertex' = processing_vertex
      /\ processing_vertex \in Nat /\ warp[w] \in States /\ WarpOK(warp[w])
  BY <1>1 DEF fixed, KInv, Typed
<1>3. warp[w].lgc \in Nat /\ warp[w].llc \in Nat /\ warp[w].ltc \in Nat
  BY <1>2 DEF States
<1>4. warp[w].tiny_buffer = <<>> /\ warp[w].at \in Walking
  BY <1>1, <1>2 DEF WarpOK, Walking
<1>5. PICK s \in States :
        /\ Become(w, s) /\ s.at = "flush" /\ s.tiny_buffer = <<>>
        /\ global_count' = global_count - warp[w].lgc + s.lgc
        /\ large_count' = large_count + s.llc - warp[w].llc
        /\ tiny_count' = tiny_count + s.ltc - warp[w].ltc
  <2>0. /\ global_count \in Nat /\ large_count \in Int /\ tiny_count \in Nat
    BY CountersType
  <2>1. CASE FlushTiny(w)
    <3>1. PICK s : s = [warp[w] EXCEPT !.ltc = 0]
      OBVIOUS
    <3>2. /\ s \in States /\ s.at = "flush" /\ s.tiny_buffer = <<>>
          /\ s.lgc = warp[w].lgc /\ s.llc = warp[w].llc /\ s.ltc = 0
      BY <1>1, <1>2, <1>4, <3>1, ZeroTiny
    <3>3. /\ Become(w, s) /\ tiny_count' = tiny_count - warp[w].ltc
          /\ global_count' = global_count /\ large_count' = large_count
      BY <2>1, <3>1 DEF FlushTiny
    <3> QED BY <1>3, <2>0, <3>2, <3>3
  <2>2. CASE FlushVertices(w)
    <3>1. PICK s : s = [warp[w] EXCEPT !.lgc = 0]
      OBVIOUS
    <3>2. /\ s \in States /\ s.at = "flush" /\ s.tiny_buffer = <<>>
          /\ s.lgc = 0 /\ s.llc = warp[w].llc /\ s.ltc = warp[w].ltc
      BY <1>1, <1>2, <1>4, <3>1, ZeroRoot
    <3>3. /\ Become(w, s) /\ global_count' = global_count - warp[w].lgc
          /\ tiny_count' = tiny_count /\ large_count' = large_count
      BY <2>2, <3>1 DEF FlushVertices
    <3> QED BY <1>3, <2>0, <3>2, <3>3
  <2>3. CASE FlushLarge(w)
    <3>1. PICK s : s = [warp[w] EXCEPT !.llc = 0]
      OBVIOUS
    <3>2. /\ s \in States /\ s.at = "flush" /\ s.tiny_buffer = <<>>
          /\ s.lgc = warp[w].lgc /\ s.llc = 0 /\ s.ltc = warp[w].ltc
      BY <1>1, <1>2, <1>4, <3>1, ZeroLarge
    <3>3. /\ Become(w, s) /\ large_count' = large_count - warp[w].llc
          /\ tiny_count' = tiny_count /\ global_count' = global_count
      BY <2>3, <3>1 DEF FlushLarge
    <3> QED BY <1>3, <2>0, <3>2, <3>3
  <2> QED BY <2>1, <2>2, <2>3
<1>6. /\ RootsOf(s) = s.lgc /\ LargeOf(s) = s.llc /\ TinyOf(s) = s.ltc
      /\ RootsOf(warp[w]) = warp[w].lgc /\ LargeOf(warp[w]) = warp[w].llc
      /\ TinyOf(warp[w]) = warp[w].ltc
      /\ UncountedOf(s) = 0 /\ UncountedOf(warp[w]) = 0
      /\ \A b : Brings(b, s) = 0 /\ Brings(b, warp[w]) = 0
  BY <1>1, <1>2, <1>4, <1>5, Empty DEF Walking
<1>7. WarpOK(s)'
  <2>1. s.tiny_buffer \in Seq(Tasks)
    BY <1>2, <1>4, <1>5 DEF WarpOK
  <2>2. WarpOK(s)
    BY <1>1, <1>2, <1>5, <2>1 DEF WarpOK
  <2> QED BY <1>2, <2>2, OKStays
<1>8. \A b \in All : Unclaimed(b)' + Brings(b, s) = Unclaimed(b) + Brings(b, warp[w])
  BY <1>2, <1>6, Same
<1>9. large_count \in Int /\ s.llc \in Nat
  BY CountersType DEF States
<1>10. /\ global_count' = global_count - RootsOf(warp[w]) + RootsOf(s)
       /\ tiny_count' = tiny_count + TinyOf(s) - TinyOf(warp[w])
  BY <1>5, <1>6
<1>11. large_count' = large_count + LargeOf(s) - LargeOf(warp[w])
                          - UncountedOf(s) + UncountedOf(warp[w])
  BY <1>3, <1>5, <1>6, <1>9
<1> QED BY <1>1, <1>2, <1>5, <1>7, <1>8, <1>10, <1>11, Quiet DEF Leaving

\* A vertex is claimed: the root of the bicliques it is the first vertex of.
LEMMA ClaimsOne ==
  ASSUME KInv, NEW w \in Warps, ClaimVertex(w), V_size - 1 - processing_vertex >= 0
  PROVE  KInv'
<1>1. /\ UNCHANGED <<fixed, counters, lists, result>> /\ warp[w].at = "claim"
      /\ processing_vertex' = processing_vertex + 1
  BY DEF ClaimVertex
<1>2. /\ graph' = graph /\ KernelGraph /\ processing_vertex \in Nat
      /\ warp[w] \in States /\ WarpOK(warp[w])
  BY <1>1 DEF fixed, KInv, Typed
<1>3. V_size \in Nat /\ V_size' = V_size /\ V = 0 .. V_size - 1
  BY <1>2, VNumbers, GraphStays
<1>4. PICK r : r = V_size - 1 - processing_vertex
  OBVIOUS
<1>5. r \in V /\ r \in Nat
  BY <1>2, <1>3, <1>4
<1>6. <<r>> \in Seq(V) /\ <<r>> \in Tasks
  BY <1>2, <1>5, RootIsTask DEF Tasks
<1>7. PICK s : s = [warp[w] EXCEPT !.at = "claimed", !.tt = <<r>>, !.tiny = FALSE]
  OBVIOUS
<1>8. /\ s \in States /\ s.at = "claimed" /\ s.tt = <<r>> /\ ~s.tiny
      /\ s.tiny_buffer = warp[w].tiny_buffer
      /\ s.lgc = warp[w].lgc /\ s.llc = warp[w].llc /\ s.ltc = warp[w].ltc
  <2>1. "claimed" \in Places
    BY DEF Places
  <2> QED BY <1>2, <1>6, <1>7, <2>1 DEF States
<1>9. Become(w, s)
  BY <1>4, <1>7 DEF ClaimVertex
<1>10. warp[w].tiny_buffer = <<>> /\ warp[w].at \in Walking
  BY <1>1, <1>2 DEF WarpOK, Walking
<1>11. WarpOK(s)'
  <2>1. WarpOK(s)
    BY <1>1, <1>2, <1>6, <1>8, <1>10 DEF WarpOK
  <2> QED BY <1>2, <1>8, <2>1, OKStays
<1>12. s.lgc \in Nat /\ s.llc \in Nat /\ s.ltc \in Nat
  BY <1>8 DEF States
<1>13. /\ RootsOf(s) = s.lgc /\ RootsOf(warp[w]) = s.lgc
       /\ LargeOf(s) = s.llc /\ LargeOf(warp[w]) = s.llc
       /\ TinyOf(s) = s.ltc /\ TinyOf(warp[w]) = s.ltc
       /\ UncountedOf(s) = 0 /\ UncountedOf(warp[w]) = 0
  BY <1>1, <1>8, <1>12 DEF RootsOf, LargeOf, TinyOf, UncountedOf, InHand
<1>14. /\ global_count \in Nat /\ large_count \in Int /\ tiny_count \in Nat
       /\ global_count' = global_count /\ large_count' = large_count
       /\ tiny_count' = tiny_count
  BY <1>1, CountersType DEF counters
<1>15. ASSUME NEW b \in All
       PROVE  Unclaimed(b)' + Brings(b, s) = Unclaimed(b) + Brings(b, warp[w])
  <2>1. PICK m : m = Min(b[2])
    OBVIOUS
  <2>2. m \in V /\ m \in Nat /\ (InSubtree(b, <<r>>) <=> r = m)
    BY <1>2, <1>3, <1>5, <2>1, RootHas
  <2>3. Unclaimed(b) = IF m < V_size - processing_vertex THEN 1 ELSE 0
    BY <2>1 DEF Unclaimed
  <2>4. Unclaimed(b)' = IF m < V_size - (processing_vertex + 1) THEN 1 ELSE 0
    BY <1>1, <1>3, <2>1 DEF Unclaimed
  <2>5. Brings(b, s) = IF r = m THEN 1 ELSE 0
    BY <1>6, <1>8, <2>2 DEF Brings, TasksOf
  <2>6. Brings(b, warp[w]) = 0
    BY <1>2, <1>10, Empty
  <2>7. CASE m = r
    BY <1>2, <1>3, <1>4, <2>2, <2>3, <2>4, <2>5, <2>6, <2>7
  <2>8. CASE m # r
    <3>1. m < V_size - processing_vertex <=> m < V_size - (processing_vertex + 1)
      BY <1>2, <1>3, <1>4, <2>2, <2>8
    <3> QED BY <2>3, <2>4, <2>5, <2>6, <2>8, <3>1
  <2> QED BY <2>7, <2>8
<1>16. global_count' = global_count - RootsOf(warp[w]) + RootsOf(s)
  BY <1>12, <1>13, <1>14
<1>17. large_count' = large_count + LargeOf(s) - LargeOf(warp[w])
                          - UncountedOf(s) + UncountedOf(warp[w])
  BY <1>12, <1>13, <1>14
<1>18. tiny_count' = tiny_count + TinyOf(s) - TinyOf(warp[w])
  BY <1>12, <1>13, <1>14
<1>19. processing_vertex' \in Nat /\ processing_vertex <= processing_vertex'
  BY <1>1, <1>2
<1> QED BY <1>1, <1>8, <1>9, <1>11, <1>15, <1>16, <1>17, <1>18, <1>19, Quiet DEF Leaving

\* What the warp that is to find them counts, nobody has counted.
LEMMA Finds ==
  ASSUME KInv, NEW w \in Warps, NEW B, B \subseteq All, CountAll(B),
         \A b \in B : Brings(b, warp[w]) = 1
  PROVE  /\ found' \subseteq All /\ maximal_bicliques' = Cardinality(found')
         /\ \A b : Counted(b)' = Counted(b) + (IF b \in B THEN 1 ELSE 0)
<1>1. /\ KernelGraph /\ found \subseteq All /\ maximal_bicliques = Cardinality(found)
      /\ warp \in [Warps -> States]
  BY DEF KInv, Typed
<1>2. /\ found' = found \cup B
      /\ maximal_bicliques' = maximal_bicliques + Cardinality(B)
  BY DEF CountAll
<1>3. ASSUME NEW b \in B PROVE b \notin found
  <2> DEFINE f == [x \in Warps |-> Brings(b, warp[x])]
  <2>1. f \in [Warps -> Nat] /\ f[w] = 1
    BY <1>1, <1>3, SharesType
  <2>2. SumBrings(b) = SumOf(f)
    BY DEF SumBrings
  <2> HIDE DEF f
  <2>3. SumBrings(b) \in Nat /\ 1 <= SumBrings(b)
    BY <2>1, <2>2, WarpsFinite, SumChanges
  <2>4. Waiting(b) + SumBrings(b) + Counted(b) = 1
    BY <1>3 DEF KInv, Shared
  <2>5. Waiting(b) \in Nat /\ Counted(b) \in Nat
    BY WaitingType DEF KInv
  <2>6. Counted(b) = 0
    BY ONLY <2>3, <2>4, <2>5
  <2> QED BY <2>6 DEF Counted
<1>4. found \cap B = {}
  BY <1>3
<1>5. IsFiniteSet(found) /\ IsFiniteSet(B)
  BY <1>1, AllFinite, FS_Subset
<1>6. Cardinality(found \cup B)
        = Cardinality(found) + Cardinality(B) - Cardinality(found \cap B)
  BY <1>5, FS_Union
<1>7. Cardinality(found \cap B) = 0
  BY <1>4, FS_EmptySet
<1>8. Cardinality(found) \in Nat /\ Cardinality(B) \in Nat
  BY <1>5, FS_CardinalityType
<1>9. maximal_bicliques' = Cardinality(found')
  BY <1>1, <1>2, <1>6, <1>7, <1>8
<1>10. ASSUME NEW b PROVE Counted(b)' = Counted(b) + (IF b \in B THEN 1 ELSE 0)
  <2>1. Counted(b)' = IF b \in found \/ b \in B THEN 1 ELSE 0
    BY <1>2 DEF Counted
  <2>2. Counted(b) = IF b \in found THEN 1 ELSE 0
    BY DEF Counted
  <2> QED BY <1>3, <2>1, <2>2
<1> QED BY <1>1, <1>2, <1>9, <1>10

\* What the step of one warp leaves alone, of a biclique and of the counters.
LEMMA Stays ==
  ASSUME KInv, graph' = graph, NEW b,
         UNCHANGED <<processing_vertex, lists>>
  PROVE  /\ Waiting(b)' = Waiting(b) /\ Waiting(b) \in Nat
         /\ SumLists' = SumLists /\ SumLists \in Nat
         /\ Len(global_large_worklist') = Len(global_large_worklist)
         /\ Len(global_large_worklist) \in Nat
         /\ processing_vertex' = processing_vertex /\ processing_vertex \in Nat
         /\ global_large_worklist' \in Seq(Maximals)
         /\ local_tiny_worklist' \in [Blocks -> Seq(Tasks)]
<1>1. /\ processing_vertex' = processing_vertex
      /\ global_large_worklist' = global_large_worklist
      /\ local_tiny_worklist' = local_tiny_worklist
  BY DEF lists
<1>2. Unclaimed(b)' = Unclaimed(b) /\ LargeHas(b)' = LargeHas(b)
      /\ ListsHave(b)' = ListsHave(b) /\ SumLists' = SumLists
  BY <1>1, Same
<1>3. Waiting(b)' = Waiting(b)
  BY <1>2 DEF Waiting
<1>4. Typed
  BY DEF KInv
<1> QED BY <1>1, <1>2, <1>3, <1>4, WaitingType DEF Typed

\* A warp has found what its task stood for.
LEMMA Finishes ==
  ASSUME KInv, NEW w \in Warps, warp[w].at \in {"task", "push"},
         NEW B, B \subseteq All, CountAll(B), Done(w),
         \A b \in All : Brings(b, warp[w]) = IF b \in B THEN 1 ELSE 0,
         UNCHANGED <<fixed, processing_vertex, counters, lists>>
  PROVE  KInv'
<1>1. /\ graph' = graph /\ global_count' = global_count /\ large_count' = large_count
      /\ tiny_count' = tiny_count
  BY DEF fixed, counters
<1>2. /\ found' \subseteq All /\ maximal_bicliques' = Cardinality(found')
      /\ \A b : Counted(b)' = Counted(b) + (IF b \in B THEN 1 ELSE 0)
  BY Finds
<1>3. PICK s \in States :
        /\ Become(w, s) /\ s.at = "look" /\ s.tiny_buffer = <<>> /\ WarpOK(s)'
        /\ RootsOf(s) = RootsOf(warp[w]) /\ LargeOf(s) = LargeOf(warp[w])
        /\ TinyOf(s) = TinyOf(warp[w]) /\ UncountedOf(s) = 0
        /\ \A b : Brings(b, s) = 0
  BY <1>1, Does
<1>4. /\ Len(global_large_worklist') = Len(global_large_worklist)
      /\ Len(global_large_worklist) \in Nat
      /\ SumLists' = SumLists /\ SumLists \in Nat
      /\ processing_vertex' = processing_vertex /\ processing_vertex \in Nat
      /\ global_large_worklist' \in Seq(Maximals)
      /\ local_tiny_worklist' \in [Blocks -> Seq(Tasks)]
      /\ \A b : Waiting(b)' = Waiting(b) /\ Waiting(b) \in Nat
  BY <1>1, Stays
<1>5. Steps(w, s)
  BY <1>2, <1>3, <1>4 DEF Steps
<1>6. /\ RootsOf(s) \in Nat /\ LargeOf(s) \in Nat /\ TinyOf(s) \in Nat
      /\ global_count \in Nat /\ large_count \in Int /\ tiny_count \in Nat
  BY SharesType, CountersType
<1>7. UncountedOf(warp[w]) = 0
  BY DEF UncountedOf
<1>8. global_count' = global_count - RootsOf(warp[w]) + RootsOf(s)
  BY <1>1, <1>3, <1>6
<1>9. large_count' = large_count + Len(global_large_worklist')
                          - Len(global_large_worklist) + LargeOf(s) - LargeOf(warp[w])
                          - UncountedOf(s) + UncountedOf(warp[w])
  <2>1. PICK n \in Nat : n = Len(global_large_worklist)
    BY <1>4
  <2> QED BY <1>1, <1>3, <1>4, <1>6, <1>7, <2>1
<1>10. tiny_count' = tiny_count + SumLists' - SumLists + TinyOf(s) - TinyOf(warp[w])
  BY <1>1, <1>3, <1>4, <1>6
<1>11. ASSUME NEW b \in All
       PROVE  Waiting(b)' + Brings(b, s) + Counted(b)'
                = Waiting(b) + Brings(b, warp[w]) + Counted(b)
  <2>1. Counted(b) \in Nat /\ Waiting(b) \in Nat
    BY WaitingType DEF KInv
  <2>2. Waiting(b)' = Waiting(b) /\ Brings(b, s) = 0
    BY <1>3, <1>4
  <2>3. Brings(b, warp[w]) = IF b \in B THEN 1 ELSE 0
    OBVIOUS
  <2>4. Counted(b)' = Counted(b) + (IF b \in B THEN 1 ELSE 0)
    BY <1>2
  <2> QED BY ONLY <2>1, <2>2, <2>3, <2>4
<1> QED BY <1>3, <1>5, <1>8, <1>9, <1>10, <1>11, Kept DEF Leaving

\* A task, or one put aside, is done at once.
LEMMA DoKeeps == ASSUME KInv, NEW w \in Warps, DoTask(w) \/ DoAside(w) PROVE KInv'
<1>0. warp[w] \in States /\ warp[w].tt \in Seq(V)
  BY DEF KInv, Typed, States
<1>1. CASE DoTask(w)
  <2>1. PICK B : B = Subtree(warp[w].tt)
    OBVIOUS
  <2>2. /\ warp[w].at = "task" /\ CountAll(B) /\ Done(w)
        /\ UNCHANGED <<fixed, processing_vertex, counters, lists>>
    BY <1>1, <2>1 DEF DoTask
  <2>3. B = {b \in All : InSubtree(b, warp[w].tt)}
    BY <2>1 DEF Subtree, All
  <2>4. \A b \in All : Brings(b, warp[w]) = IF b \in B THEN 1 ELSE 0
    BY <1>0, <2>2, <2>3 DEF Brings, TasksOf
  <2> QED BY <2>2, <2>3, <2>4, Finishes
<1>2. CASE DoAside(w)
  <2>1. PICK B : B = Subtree(warp[w].tt) \ {Own(warp[w].tt)}
    OBVIOUS
  <2>2. /\ warp[w].at = "push" /\ CountAll(B) /\ Done(w)
        /\ UNCHANGED <<fixed, processing_vertex, counters, lists>>
    BY <1>2, <2>1 DEF DoAside
  <2>3. B = {b \in All : InSubtree(b, warp[w].tt) /\ b # Own(warp[w].tt)}
    BY <2>1 DEF Subtree, All
  <2>4. \A b \in All : Brings(b, warp[w]) = IF b \in B THEN 1 ELSE 0
    BY <1>0, <2>2, <2>3 DEF Brings, AsideOf
  <2> QED BY <2>2, <2>3, <2>4, Finishes
<1> QED BY <1>1, <1>2

\* A large task is put aside: its own biclique is counted and in its subtree.
LEMMA PutAsideKeeps == ASSUME KInv, NEW w \in Warps, PutAside(w) PROVE KInv'
<1>1. PICK p : p = warp[w].tt
  OBVIOUS
<1>2. PICK own : own = Own(p)
  OBVIOUS
<1>3. /\ warp[w].at = "task" /\ IsMaximal(p) /\ CountAll({own}) /\ Go(w, "push")
      /\ UNCHANGED <<fixed, processing_vertex, counters, lists>>
  BY <1>1, <1>2 DEF PutAside, Divides
<1>4. /\ graph' = graph /\ global_count' = global_count /\ large_count' = large_count
      /\ tiny_count' = tiny_count /\ KernelGraph
      /\ warp[w] \in States /\ WarpOK(warp[w])
  BY <1>3 DEF fixed, counters, KInv, Typed
<1>5. /\ p \in Tasks /\ p \in Maximals /\ p \in Seq(V) /\ Len(p) > 0 /\ LVertices(p) # {}
      /\ InSubtree(own, p)
  BY <1>1, <1>2, <1>3, <1>4 DEF WarpOK, Tasks, Maximals, IsTask
<1>6. own \in All
  BY <1>2, <1>4, <1>5, OwnInAll
<1>7. \A b : Brings(b, warp[w]) = IF InSubtree(b, p) THEN 1 ELSE 0
  BY <1>1, <1>3, <1>5 DEF Brings, TasksOf
<1>8. /\ found' \subseteq All /\ maximal_bicliques' = Cardinality(found')
      /\ \A b : Counted(b)' = Counted(b) + (IF b \in {own} THEN 1 ELSE 0)
  <2>1. PICK B : B = {own}
    OBVIOUS
  <2>2. B \subseteq All /\ CountAll(B) /\ \A b \in B : Brings(b, warp[w]) = 1
    BY <1>3, <1>5, <1>6, <1>7, <2>1
  <2>3. /\ found' \subseteq All /\ maximal_bicliques' = Cardinality(found')
        /\ \A b : Counted(b)' = Counted(b) + (IF b \in B THEN 1 ELSE 0)
    BY <2>2, Finds
  <2> QED BY <2>1, <2>3
<1>9. PICK s : s = [warp[w] EXCEPT !.at = "push"]
  OBVIOUS
<1>10. /\ s \in States /\ s.at = "push" /\ s.tt = p /\ (s.tiny <=> warp[w].tiny)
       /\ s.tiny_buffer = warp[w].tiny_buffer
       /\ s.lgc = warp[w].lgc /\ s.llc = warp[w].llc /\ s.ltc = warp[w].ltc
  <2>1. "push" \in Places
    BY DEF Places
  <2> QED BY <1>1, <1>4, <1>9, <2>1, Goes
<1>11. Become(w, s)
  BY <1>3, <1>9 DEF Go
<1>12. WarpOK(s)'
  <2>1. WarpOK(s)
    BY <1>3, <1>4, <1>5, <1>10 DEF WarpOK
  <2> QED BY <1>4, <1>10, <2>1, OKStays
<1>13. /\ Len(global_large_worklist') = Len(global_large_worklist)
       /\ Len(global_large_worklist) \in Nat
       /\ SumLists' = SumLists /\ SumLists \in Nat
       /\ processing_vertex' = processing_vertex /\ processing_vertex \in Nat
       /\ global_large_worklist' \in Seq(Maximals)
       /\ local_tiny_worklist' \in [Blocks -> Seq(Tasks)]
       /\ \A b : Waiting(b)' = Waiting(b) /\ Waiting(b) \in Nat
  BY <1>3, <1>4, Stays
<1>14. Steps(w, s)
  BY <1>3, <1>8, <1>10, <1>11, <1>12, <1>13 DEF Steps
<1>15. /\ RootsOf(s) = RootsOf(warp[w]) /\ LargeOf(s) = LargeOf(warp[w])
       /\ TinyOf(s) = TinyOf(warp[w]) /\ UncountedOf(s) = 0 /\ UncountedOf(warp[w]) = 0
  BY <1>3, <1>10 DEF RootsOf, LargeOf, TinyOf, UncountedOf, InHand
<1>16. /\ RootsOf(s) \in Nat /\ LargeOf(s) \in Nat /\ TinyOf(s) \in Nat
       /\ global_count \in Nat /\ large_count \in Int /\ tiny_count \in Nat
  BY <1>10, SharesType, CountersType
<1>17. global_count' = global_count - RootsOf(warp[w]) + RootsOf(s)
  BY <1>4, <1>15, <1>16
<1>18. large_count' = large_count + Len(global_large_worklist')
                          - Len(global_large_worklist) + LargeOf(s) - LargeOf(warp[w])
                          - UncountedOf(s) + UncountedOf(warp[w])
  <2>1. PICK n \in Nat : n = Len(global_large_worklist)
    BY <1>13
  <2> QED BY <1>4, <1>13, <1>15, <1>16, <2>1
<1>19. tiny_count' = tiny_count + SumLists' - SumLists + TinyOf(s) - TinyOf(warp[w])
  BY <1>4, <1>13, <1>15, <1>16
<1>20. ASSUME NEW b \in All
       PROVE  Waiting(b)' + Brings(b, s) + Counted(b)'
                = Waiting(b) + Brings(b, warp[w]) + Counted(b)
  <2>1. Counted(b) \in Nat /\ Waiting(b) \in Nat
    BY WaitingType DEF KInv
  <2>2. Waiting(b)' = Waiting(b)
    BY <1>13
  <2>3. Brings(b, s) = IF InSubtree(b, p) /\ b # own THEN 1 ELSE 0
    BY <1>2, <1>5, <1>10 DEF Brings, AsideOf
  <2>4. Brings(b, warp[w]) = IF InSubtree(b, p) THEN 1 ELSE 0
    BY <1>7
  <2>5. Counted(b)' = Counted(b) + (IF b = own THEN 1 ELSE 0)
    BY <1>8
  <2>6. b = own => InSubtree(b, p)
    BY <1>5
  <2> QED BY ONLY <2>1, <2>2, <2>3, <2>4, <2>5, <2>6
<1> QED BY <1>10, <1>14, <1>17, <1>18, <1>19, <1>20, Kept DEF Leaving

\* The list of one block changes.
LEMMA ListMoves ==
  ASSUME Typed, graph' = graph, NEW k \in Blocks, NEW q \in Seq(Tasks),
         local_tiny_worklist' = [local_tiny_worklist EXCEPT ![k] = q]
  PROVE  /\ local_tiny_worklist' \in [Blocks -> Seq(Tasks)]
         /\ SumLists \in Nat
         /\ SumLists' = SumLists - Len(local_tiny_worklist[k]) + Len(q)
         /\ \A b : /\ ListsHave(b) \in Nat
                   /\ ListsHave(b)' = ListsHave(b)
                                        - CountIn(local_tiny_worklist[k], TasksOf(b))
                                        + CountIn(q, TasksOf(b))
<1>1. /\ local_tiny_worklist \in [Blocks -> Seq(Tasks)]
      /\ local_tiny_worklist' \in [Blocks -> Seq(Tasks)]
      /\ \A j \in Blocks : local_tiny_worklist'[j] = IF j = k THEN q
                                                     ELSE local_tiny_worklist[j]
  BY DEF Typed
<1>2. /\ SumLists \in Nat
      /\ SumLists' = SumLists - Len(local_tiny_worklist[k]) + Len(q)
  <2> DEFINE f == [j \in Blocks |-> Len(local_tiny_worklist[j])]
             g == [j \in Blocks |-> Len(local_tiny_worklist'[j])]
  <2>1. /\ f \in [Blocks -> Nat] /\ g \in [Blocks -> Nat]
        /\ f[k] = Len(local_tiny_worklist[k]) /\ g[k] = Len(q)
        /\ \A j \in Blocks \ {k} : g[j] = f[j]
    BY <1>1
  <2>2. SumLists = SumOf(f) /\ SumLists' = SumOf(g)
    BY DEF SumLists, SumOf
  <2> HIDE DEF f, g
  <2>3. /\ SumOf(f) \in Nat /\ SumOf(g) = SumOf(f) - f[k] + g[k]
    <3>1. /\ f \in [Blocks -> Nat] /\ g \in [Blocks -> Nat] /\ IsFiniteSet(Blocks)
          /\ \A j \in Blocks \ {k} : g[j] = f[j]
      BY <2>1, WarpsFinite
    <3> QED BY ONLY <3>1, k \in Blocks, SumChanges
  <2>4. PICK m, n : m = Len(local_tiny_worklist[k]) /\ n = Len(q)
    OBVIOUS
  <2>5. SumLists \in Nat /\ SumLists' = SumLists - m + n
    BY <2>1, <2>2, <2>3, <2>4
  <2> QED BY <2>4, <2>5
<1>3. ASSUME NEW b
      PROVE  /\ ListsHave(b) \in Nat
             /\ ListsHave(b)' = ListsHave(b) - CountIn(local_tiny_worklist[k], TasksOf(b))
                                  + CountIn(q, TasksOf(b))
  <2> DEFINE f == [j \in Blocks |-> CountIn(local_tiny_worklist[j], TasksOf(b))]
             g == [j \in Blocks |-> CountIn(local_tiny_worklist'[j], TasksOf(b))]
  <2>1. \A j \in Blocks : /\ CountIn(local_tiny_worklist[j], TasksOf(b)) \in Nat
                          /\ CountIn(local_tiny_worklist'[j], TasksOf(b)) \in Nat
    BY <1>1, CountType
  <2>2. /\ f \in [Blocks -> Nat] /\ g \in [Blocks -> Nat]
        /\ f[k] = CountIn(local_tiny_worklist[k], TasksOf(b)) /\ g[k] = CountIn(q, TasksOf(b))
        /\ \A j \in Blocks \ {k} : g[j] = f[j]
    BY <1>1, <2>1
  <2>3. ListsHave(b) = SumOf(f) /\ ListsHave(b)' = SumOf(g)
    <3>1. TasksOf(b)' = TasksOf(b)
      BY GraphStays
    <3> QED BY <3>1 DEF ListsHave, SumOf, CountIn
  <2> HIDE DEF f, g
  <2>4. SumOf(f) \in Nat /\ SumOf(g) = SumOf(f) - f[k] + g[k]
    <3>1. /\ f \in [Blocks -> Nat] /\ g \in [Blocks -> Nat] /\ IsFiniteSet(Blocks)
          /\ \A j \in Blocks \ {k} : g[j] = f[j]
      BY <2>2, WarpsFinite
    <3> QED BY ONLY <3>1, k \in Blocks, SumChanges
  <2> QED BY <2>2, <2>3, <2>4
<1> QED BY <1>1, <1>2, <1>3

\* A task put aside is pushed.
LEMMA PushLargeKeeps == ASSUME KInv, NEW w \in Warps, PushLarge(w) PROVE KInv'
<1>1. PICK p : p = warp[w].tt
  OBVIOUS
<1>2. /\ warp[w].at = "push" /\ Go(w, "pushed")
      /\ global_large_worklist' = Append(global_large_worklist, p)
      /\ UNCHANGED <<fixed, processing_vertex, counters, local_tiny_worklist, result>>
  BY <1>1 DEF PushLarge
<1>3. /\ graph' = graph /\ processing_vertex' = processing_vertex
      /\ global_count' = global_count /\ large_count' = large_count
      /\ tiny_count' = tiny_count /\ found' = found
      /\ maximal_bicliques' = maximal_bicliques
      /\ local_tiny_worklist' = local_tiny_worklist
      /\ Typed /\ warp[w] \in States /\ WarpOK(warp[w])
  BY <1>2 DEF fixed, counters, result, KInv, Typed
<1>4. p \in Maximals /\ global_large_worklist \in Seq(Maximals) /\ p \in Seq(V)
  BY <1>1, <1>2, <1>3 DEF WarpOK, Typed, Maximals, Tasks
<1>5. /\ global_large_worklist' \in Seq(Maximals)
      /\ Len(global_large_worklist') = Len(global_large_worklist) + 1
      /\ \A b : LargeHas(b)' = LargeHas(b) + (IF p \in AsideOf(b) THEN 1 ELSE 0)
  <2>1. \A S : CountIn(Append(global_large_worklist, p), S)
                 = CountIn(global_large_worklist, S) + (IF p \in S THEN 1 ELSE 0)
    BY <1>4, CountAppend
  <2>2. \A b : LargeHas(b)' = CountIn(Append(global_large_worklist, p), AsideOf(b))
    <3>1. \A b : AsideOf(b)' = AsideOf(b)
      BY <1>3, GraphStays
    <3> QED BY <1>2, <3>1 DEF LargeHas, CountIn
  <2> QED BY <1>2, <1>4, <2>1, <2>2, CountAppend DEF LargeHas
<1>6. PICK s : s = [warp[w] EXCEPT !.at = "pushed"]
  OBVIOUS
<1>7. /\ s \in States /\ s.at = "pushed" /\ s.tt = p /\ (s.tiny <=> warp[w].tiny)
      /\ s.tiny_buffer = warp[w].tiny_buffer
      /\ s.lgc = warp[w].lgc /\ s.llc = warp[w].llc /\ s.ltc = warp[w].ltc
  <2>1. "pushed" \in Places
    BY DEF Places
  <2> QED BY <1>1, <1>3, <1>6, <2>1, Goes
<1>8. Become(w, s)
  BY <1>2, <1>6 DEF Go
<1>9. s.tiny_buffer = <<>> /\ s.tiny_buffer \in Seq(Tasks)
  BY <1>2, <1>3, <1>7 DEF WarpOK
<1>10. WarpOK(s)'
  <2>1. WarpOK(s)
    BY <1>7, <1>9 DEF WarpOK
  <2> QED BY <1>3, <2>1, OKStays
<1>11. Steps(w, s)
  BY <1>2, <1>3, <1>5, <1>7, <1>8, <1>10 DEF Steps, Typed
<1>12. /\ RootsOf(s) = RootsOf(warp[w]) /\ LargeOf(s) = LargeOf(warp[w])
       /\ TinyOf(s) = TinyOf(warp[w]) /\ UncountedOf(s) = 1 /\ UncountedOf(warp[w]) = 0
  BY <1>2, <1>7 DEF RootsOf, LargeOf, TinyOf, UncountedOf, InHand
<1>13. /\ RootsOf(s) \in Nat /\ LargeOf(s) \in Nat /\ TinyOf(s) \in Nat
       /\ global_count \in Nat /\ large_count \in Int /\ tiny_count \in Nat
       /\ SumLists' = SumLists /\ SumLists \in Nat /\ Len(global_large_worklist) \in Nat
  BY <1>3, <1>7, SharesType, CountersType, Same, WaitingType
<1>14. global_count' = global_count - RootsOf(warp[w]) + RootsOf(s)
  BY <1>3, <1>12, <1>13
<1>15. large_count' = large_count + Len(global_large_worklist')
                          - Len(global_large_worklist) + LargeOf(s) - LargeOf(warp[w])
                          - UncountedOf(s) + UncountedOf(warp[w])
  <2>1. PICK n \in Nat : n = Len(global_large_worklist)
    BY <1>13
  <2>2. Len(global_large_worklist') = n + 1
    BY <1>5, <2>1
  <2> QED BY ONLY <1>3, <1>12, <1>13, <2>1, <2>2
<1>16. tiny_count' = tiny_count + SumLists' - SumLists + TinyOf(s) - TinyOf(warp[w])
  BY <1>3, <1>12, <1>13
<1>17. ASSUME NEW b \in All
       PROVE  Waiting(b)' + Brings(b, s) + Counted(b)'
                = Waiting(b) + Brings(b, warp[w]) + Counted(b)
  <2>1. /\ Unclaimed(b) \in Nat /\ LargeHas(b) \in Nat /\ ListsHave(b) \in Nat
        /\ Counted(b) \in Nat
    BY <1>3, WaitingType
  <2>2. /\ Unclaimed(b)' = Unclaimed(b) /\ ListsHave(b)' = ListsHave(b)
        /\ Counted(b)' = Counted(b)
    BY <1>3, Same
  <2>3. LargeHas(b)' = LargeHas(b) + (IF p \in AsideOf(b) THEN 1 ELSE 0)
    BY <1>5
  <2>4. Brings(b, warp[w]) = IF p \in AsideOf(b) THEN 1 ELSE 0
    BY <1>1, <1>2 DEF Brings
  <2>5. Brings(b, s) = 0
    <3>1. Brings(b, s) = CountIn(s.tiny_buffer, TasksOf(b))
      BY <1>7 DEF Brings
    <3> QED BY <1>9, <3>1, CountEmpty
  <2>6. /\ Waiting(b)' = Unclaimed(b)' + LargeHas(b)' + ListsHave(b)'
        /\ Waiting(b) = Unclaimed(b) + LargeHas(b) + ListsHave(b)
    BY DEF Waiting
  <2> QED BY ONLY <2>1, <2>2, <2>3, <2>4, <2>5, <2>6
<1> QED BY <1>7, <1>11, <1>14, <1>15, <1>16, <1>17, Kept DEF Leaving

\* A tiny task is taken.
LEMMA TakeTinyKeeps == ASSUME KInv, NEW w \in Warps, TakeTiny(w) PROVE KInv'
<1>1. PICK k, list : k = w[1] /\ list = local_tiny_worklist[k]
  OBVIOUS
<1>2. PICK p, rest : p = Head(list) /\ rest = Tail(list)
  OBVIOUS
<1>3. PICK s : s = [warp[w] EXCEPT !.at = "task", !.tt = p, !.tiny = TRUE]
  OBVIOUS
<1>4. /\ warp[w].at = "look" /\ list # <<>> /\ Become(w, s)
      /\ local_tiny_worklist' = [local_tiny_worklist EXCEPT ![k] = rest]
      /\ UNCHANGED <<fixed, processing_vertex, counters, global_large_worklist, result>>
  BY <1>1, <1>2, <1>3 DEF TakeTiny
<1>5. /\ graph' = graph /\ processing_vertex' = processing_vertex
      /\ global_count' = global_count /\ large_count' = large_count
      /\ tiny_count' = tiny_count /\ found' = found
      /\ maximal_bicliques' = maximal_bicliques
      /\ global_large_worklist' = global_large_worklist
      /\ Typed /\ warp[w] \in States /\ WarpOK(warp[w])
  BY <1>4 DEF fixed, counters, result, KInv, Typed
<1>6. k \in Blocks /\ list \in Seq(Tasks)
  BY <1>1, <1>5, WarpsFinite DEF Typed
<1>7. /\ p \in Tasks /\ rest \in Seq(Tasks) /\ Len(rest) = Len(list) - 1 /\ Len(list) \in Nat
      /\ \A S : CountIn(list, S) = CountIn(rest, S) + (IF p \in S THEN 1 ELSE 0)
  BY <1>2, <1>4, <1>6, CountTail
<1>8. p \in Seq(V)
  BY <1>7 DEF Tasks
<1>9. /\ s \in States /\ s.at = "task" /\ s.tt = p /\ s.tiny
      /\ s.tiny_buffer = warp[w].tiny_buffer
      /\ s.lgc = warp[w].lgc /\ s.llc = warp[w].llc /\ s.ltc = warp[w].ltc
  <2>1. "task" \in Places
    BY DEF Places
  <2> QED BY <1>3, <1>5, <1>8, <2>1 DEF States
<1>10. s.tiny_buffer = <<>> /\ s.tiny_buffer \in Seq(Tasks)
  BY <1>4, <1>5, <1>9 DEF WarpOK
<1>11. WarpOK(s)'
  <2>1. WarpOK(s)
    BY <1>7, <1>9, <1>10 DEF WarpOK
  <2> QED BY <1>5, <2>1, OKStays
<1>12. /\ local_tiny_worklist' \in [Blocks -> Seq(Tasks)] /\ SumLists \in Nat
       /\ SumLists' = SumLists - Len(list) + Len(rest)
       /\ \A b : /\ ListsHave(b) \in Nat
                 /\ ListsHave(b)' = ListsHave(b) - CountIn(list, TasksOf(b))
                                      + CountIn(rest, TasksOf(b))
  BY <1>1, <1>4, <1>5, <1>6, <1>7, ListMoves
<1>13. Steps(w, s)
  BY <1>4, <1>5, <1>9, <1>11, <1>12 DEF Steps, Typed
<1>14. s.lgc \in Nat /\ s.llc \in Nat /\ s.ltc \in Nat
  BY <1>9 DEF States
<1>15. /\ RootsOf(s) = s.lgc /\ RootsOf(warp[w]) = s.lgc
       /\ LargeOf(s) = s.llc /\ LargeOf(warp[w]) = s.llc
       /\ TinyOf(s) = s.ltc + 1 /\ TinyOf(warp[w]) = s.ltc
       /\ UncountedOf(s) = 0 /\ UncountedOf(warp[w]) = 0
  BY <1>4, <1>9, <1>14 DEF RootsOf, LargeOf, TinyOf, UncountedOf, InHand
<1>16. /\ global_count \in Nat /\ large_count \in Int /\ tiny_count \in Nat
       /\ Len(global_large_worklist) \in Nat
       /\ Len(global_large_worklist') = Len(global_large_worklist)
  BY <1>5, CountersType, WaitingType
<1>17. global_count' = global_count - RootsOf(warp[w]) + RootsOf(s)
  BY <1>5, <1>14, <1>15, <1>16
<1>18. large_count' = large_count + Len(global_large_worklist')
                          - Len(global_large_worklist) + LargeOf(s) - LargeOf(warp[w])
                          - UncountedOf(s) + UncountedOf(warp[w])
  <2>1. PICK n \in Nat : n = Len(global_large_worklist)
    BY <1>16
  <2> QED BY <1>5, <1>14, <1>15, <1>16, <2>1
<1>19. tiny_count' = tiny_count + SumLists' - SumLists + TinyOf(s) - TinyOf(warp[w])
  <2>1. PICK n \in Nat : n = Len(list)
    BY <1>7
  <2>2. Len(rest) = n - 1
    BY <1>7, <2>1
  <2>3. PICK a \in Nat, t \in Nat, l \in Nat : a = SumLists /\ t = tiny_count /\ l = s.ltc
    BY <1>12, <1>14, <1>16
  <2>4. SumLists' = a - 1
    BY <1>12, <2>1, <2>2, <2>3
  <2>5. tiny_count' = t /\ TinyOf(s) = l + 1 /\ TinyOf(warp[w]) = l
    BY <1>5, <1>15, <2>3
  <2>6. t = t + (a - 1) - a + (l + 1) - l
    BY ONLY a \in Nat, t \in Nat, l \in Nat
  <2> QED BY <2>3, <2>4, <2>5, <2>6
<1>20. ASSUME NEW b \in All
       PROVE  Waiting(b)' + Brings(b, s) + Counted(b)'
                = Waiting(b) + Brings(b, warp[w]) + Counted(b)
  <2>1. /\ Unclaimed(b) \in Nat /\ LargeHas(b) \in Nat /\ ListsHave(b) \in Nat
        /\ Counted(b) \in Nat
    BY <1>5, WaitingType
  <2>2. /\ Unclaimed(b)' = Unclaimed(b) /\ LargeHas(b)' = LargeHas(b)
        /\ Counted(b)' = Counted(b)
    BY <1>5, Same
  <2>3. PICK x, y : x = CountIn(list, TasksOf(b)) /\ y = CountIn(rest, TasksOf(b))
    OBVIOUS
  <2>4. ListsHave(b)' = ListsHave(b) - x + y
    BY <1>12, <2>3
  <2>5. x = y + (IF p \in TasksOf(b) THEN 1 ELSE 0) /\ y \in Nat
    BY <1>7, <2>3, CountType
  <2>6. Brings(b, s) = IF p \in TasksOf(b) THEN 1 ELSE 0
    BY <1>9 DEF Brings
  <2>7. Brings(b, warp[w]) = 0
    <3>1. Brings(b, warp[w]) = CountIn(warp[w].tiny_buffer, TasksOf(b))
      BY <1>4 DEF Brings
    <3> QED BY <1>9, <1>10, <3>1, CountEmpty
  <2>8. /\ Waiting(b)' = Unclaimed(b)' + LargeHas(b)' + ListsHave(b)'
        /\ Waiting(b) = Unclaimed(b) + LargeHas(b) + ListsHave(b)
    BY DEF Waiting
  <2> QED BY ONLY <2>1, <2>2, <2>4, <2>5, <2>6, <2>7, <2>8
<1> QED BY <1>9, <1>13, <1>17, <1>18, <1>19, <1>20, Kept DEF Leaving

\* What is listed by how many elements are less is listed once each.
LEMMA RanksList ==
  ASSUME NEW S, S \subseteq Nat, IsFiniteSet(S),
         NEW s, s = [i \in 1 .. Cardinality(S) |->
                       CHOOSE x \in S : Cardinality({y \in S : y < x}) = i - 1]
  PROVE  Lists(s, S)
<1> DEFINE n == Cardinality(S)
           lt == {x \in S \X S : x[1] < x[2]}
<1>1. \A x \in S : x \in Int
  OBVIOUS
<1>2. \A x, y \in S : <<x, y>> \in lt <=> x < y
  OBVIOUS
<1>3. \A x \in S : {y \in S : <<y, x>> \in lt} = {y \in S : y < x}
  BY <1>2
<1>4. s = [i \in 1 .. n |->
             CHOOSE x \in S : Cardinality({y \in S : y < x}) = i - 1]
  OBVIOUS
<1>0. n = Cardinality(S)
  OBVIOUS
<1> HIDE DEF n
<1>5. s = [i \in 1 .. n |-> s[i]]
  BY <1>4
<1>6. \A i \in 1 .. n :
        (\E x \in S : Cardinality({y \in S : y < x}) = i - 1)
          => s[i] \in S /\ Cardinality({y \in S : y < s[i]}) = i - 1
  BY <1>4
<1>7. \A i \in 1 .. n :
        (\E x \in S : Cardinality({y \in S : <<y, x>> \in lt}) = i - 1)
          => /\ s[i] \in S
             /\ Cardinality({y \in S : <<y, s[i]>> \in lt}) = i - 1
  BY <1>3, <1>6
<1> HIDE DEF lt
<1>a. \A x \in S : <<x, x>> \notin lt
  BY <1>1, <1>2
<1>b. \A x, y \in S : x # y => <<x, y>> \in lt \/ <<y, x>> \in lt
  BY <1>1, <1>2
<1>c. \A x, y, z \in S : <<x, y>> \in lt /\ <<y, z>> \in lt => <<x, z>> \in lt
  BY <1>1, <1>2
<1>8. Lists(s, S) /\ Ascending(s, lt)
  BY ONLY IsFiniteSet(S), <1>0, <1>5, <1>7, <1>a, <1>b, <1>c, InOrder
<1> QED BY <1>8

\* So LaterList lists the candidates.
LEMMA LaterSorts ==
  ASSUME NEW p, Later(p) \subseteq Nat, IsFiniteSet(Later(p))
  PROVE  Lists(LaterList(p), Later(p))
<1>1. PICK S, s : S = Later(p) /\ s = LaterList(p)
  OBVIOUS
<1>2. s = [i \in 1 .. Cardinality(S) |->
             CHOOSE x \in S : Cardinality({y \in S : y < x}) = i - 1]
  BY <1>1 DEF LaterList, SortedBy
<1>3. S \subseteq Nat /\ IsFiniteSet(S)
  BY <1>1
<1>4. Lists(s, S)
  BY <1>2, <1>3, RanksList
<1> QED BY <1>1, <1>4

\* What a large task is divided into: each biclique of its subtree but its own is
\* in the subtree of one part.
LEMMA Divided ==
  ASSUME KernelGraph, NEW p \in Maximals, NEW q,
         q = [i \in 1 .. Cardinality(Later(p)) |-> Append(p, LaterList(p)[i])]
  PROVE  /\ q \in Seq(Tasks)
         /\ \A b \in All : CountIn(q, TasksOf(b)) = IF p \in AsideOf(b) THEN 1 ELSE 0
<1> DEFINE S == Later(p)
           n == Cardinality(S)
           s == LaterList(p)
<1>1. S \subseteq V /\ S \subseteq Nat /\ IsFiniteSet(S)
  <2>1. S \subseteq V
    BY DEF Later, CVertices, AllNeighbors, V
  <2> QED BY <2>1, VNumbers, FS_Subset
<1>2. Lists(s, S)
  BY <1>1, LaterSorts
<1>3. n \in Nat
  BY <1>1, FS_CardinalityType
<1>4. p \in Seq(V) /\ Len(p) > 0 /\ IsTask(p) /\ IsMaximal(p)
  BY DEF Maximals, Tasks, IsTask
<1>5. q = [i \in 1 .. n |-> Append(p, s[i])]
  OBVIOUS
<1>0. S = Later(p)
  OBVIOUS
<1> HIDE DEF S, n, s
<1>6. /\ \A i \in 1 .. n : s[i] \in S
      /\ \A c \in S : \E i \in 1 .. n : s[i] = c
      /\ \A i, j \in 1 .. n : s[i] = s[j] => i = j
  BY <1>2 DEF Lists, n
<1>7. \A c \in S : Append(p, c) \in Tasks /\ Append(p, c) \in Seq(V)
  <2> SUFFICES ASSUME NEW c \in S PROVE Append(p, c) \in Tasks /\ Append(p, c) \in Seq(V)
    OBVIOUS
  <2>1. IsTask(Append(p, c))
    BY <1>0, <1>4, ChildIsTask
  <2>2. Append(p, c) \in Seq(V)
    BY <1>1, <1>4
  <2> QED BY <2>1, <2>2 DEF Tasks
<1>8. q \in Seq(Tasks) /\ Len(q) = n /\ \A i \in 1 .. n : q[i] = Append(p, s[i])
  <2>0. \A i \in 1 .. n : Append(p, s[i]) \in Tasks
    BY <1>6, <1>7
  <2>1. q \in [1 .. n -> Tasks]
    BY <1>5, <2>0
  <2> QED BY <1>3, <1>5, <2>1, IsSequence
<1>9. ASSUME NEW b \in All
      PROVE  CountIn(q, TasksOf(b)) = IF p \in AsideOf(b) THEN 1 ELSE 0
  <2>1. /\ \A c \in S : InSubtree(b, Append(p, c)) =>
             InSubtree(b, p) /\ b # Own(p)
        /\ \A c, d \in S :
             InSubtree(b, Append(p, c)) /\ InSubtree(b, Append(p, d)) => c = d
        /\ InSubtree(b, p) /\ b # Own(p) =>
             \E c \in S : InSubtree(b, Append(p, c))
    BY <1>0, <1>4, ChildrenHave
  <2> DEFINE I == {i \in 1 .. n : q[i] \in TasksOf(b)}
  <2>2. CountIn(q, TasksOf(b)) = Cardinality(I)
    BY <1>8 DEF CountIn
  <2>3. \A i \in 1 .. n : i \in I <=> InSubtree(b, Append(p, s[i]))
    <3> SUFFICES ASSUME NEW i \in 1 .. n
                 PROVE  i \in I <=> InSubtree(b, Append(p, s[i]))
      OBVIOUS
    <3>1. s[i] \in S
      BY <1>6
    <3>2. Append(p, s[i]) \in Seq(V) /\ q[i] = Append(p, s[i])
      BY <1>7, <1>8, <3>1
    <3> QED BY <3>2 DEF TasksOf
  <2>4. p \in AsideOf(b) <=> InSubtree(b, p) /\ b # Own(p)
    BY <1>4 DEF AsideOf
  <2>5. I \subseteq 1 .. n
    OBVIOUS
  <2> HIDE DEF I
  <2>6. CASE p \in AsideOf(b)
    <3>1. PICK c \in S : InSubtree(b, Append(p, c))
      BY <2>1, <2>4, <2>6
    <3>2. PICK i \in 1 .. n : s[i] = c
      BY <1>6
    <3>3. i \in I
      BY <2>3, <3>1, <3>2
    <3>4. ASSUME NEW j \in I PROVE j = i
      <4>1. j \in 1 .. n /\ InSubtree(b, Append(p, s[j])) /\ s[j] \in S
        BY <1>6, <2>3, <2>5
      <4>2. s[j] = c
        BY <2>1, <3>1, <4>1
      <4> QED BY <1>6, <3>2, <4>1, <4>2
    <3>5. I = {i}
      BY <3>3, <3>4
    <3> QED BY <2>2, <2>6, <3>5, FS_Singleton
  <2>7. CASE p \notin AsideOf(b)
    <3>1. I = {}
      BY <1>6, <2>1, <2>3, <2>4, <2>5, <2>7
    <3> QED BY <2>2, <2>7, <3>1, FS_EmptySet
  <2> QED BY <2>6, <2>7
<1> QED BY <1>8, <1>9

\* A large task is taken and divided.
LEMMA TakeLargeKeeps == ASSUME KInv, NEW w \in Warps, TakeLarge(w) PROVE KInv'
<1>1. PICK list : list = global_large_worklist
  OBVIOUS
<1>2. PICK p, rest : p = Head(list) /\ rest = Tail(list)
  OBVIOUS
<1>3. PICK q : q = [i \in 1 .. Cardinality(Later(p)) |->
                      Append(p, LaterList(p)[i])]
  OBVIOUS
<1>4. PICK s : s = [warp[w] EXCEPT !.at = "divided", !.tiny_buffer = q]
  OBVIOUS
<1>5. /\ warp[w].at = "look" /\ list # <<>> /\ Become(w, s)
      /\ global_large_worklist' = rest
      /\ UNCHANGED <<fixed, processing_vertex, counters, local_tiny_worklist, result>>
  BY <1>1, <1>2, <1>3, <1>4 DEF TakeLarge
<1>6. /\ graph' = graph /\ processing_vertex' = processing_vertex
      /\ global_count' = global_count /\ large_count' = large_count
      /\ tiny_count' = tiny_count /\ found' = found
      /\ maximal_bicliques' = maximal_bicliques
      /\ local_tiny_worklist' = local_tiny_worklist
      /\ Typed /\ KernelGraph /\ warp[w] \in States /\ WarpOK(warp[w])
  BY <1>5 DEF fixed, counters, result, KInv, Typed
<1>7. list \in Seq(Maximals)
  BY <1>1, <1>6 DEF Typed
<1>8. /\ p \in Maximals /\ rest \in Seq(Maximals) /\ Len(rest) = Len(list) - 1
      /\ Len(list) \in Nat
      /\ \A S : CountIn(list, S) = CountIn(rest, S) + (IF p \in S THEN 1 ELSE 0)
  BY <1>2, <1>5, <1>7, CountTail
<1>9. /\ q \in Seq(Tasks)
      /\ \A b \in All : CountIn(q, TasksOf(b)) = IF p \in AsideOf(b) THEN 1 ELSE 0
  BY <1>3, <1>6, <1>8, Divided
<1>10. q \in Seq(Seq(V))
  <2>1. \A t \in Tasks : t \in Seq(V)
    BY DEF Tasks
  <2> QED BY <1>9, <2>1
<1>11. /\ s \in States /\ s.at = "divided" /\ s.tiny_buffer = q
       /\ s.lgc = warp[w].lgc /\ s.llc = warp[w].llc /\ s.ltc = warp[w].ltc
  <2>1. "divided" \in Places
    BY DEF Places
  <2> QED BY <1>4, <1>6, <1>10, <2>1 DEF States
<1>12. WarpOK(s)'
  <2>1. WarpOK(s)
    BY <1>9, <1>11 DEF WarpOK
  <2> QED BY <1>6, <2>1, OKStays
<1>13. Steps(w, s)
  BY <1>5, <1>6, <1>8, <1>11, <1>12 DEF Steps, Typed
<1>14. s.lgc \in Nat /\ s.llc \in Nat /\ s.ltc \in Nat
  BY <1>11 DEF States
<1>15. /\ RootsOf(s) = s.lgc /\ RootsOf(warp[w]) = s.lgc
       /\ LargeOf(s) = s.llc + 1 /\ LargeOf(warp[w]) = s.llc
       /\ TinyOf(s) = s.ltc /\ TinyOf(warp[w]) = s.ltc
       /\ UncountedOf(s) = 0 /\ UncountedOf(warp[w]) = 0
  BY <1>5, <1>11, <1>14 DEF RootsOf, LargeOf, TinyOf, UncountedOf, InHand
<1>16. /\ global_count \in Nat /\ large_count \in Int /\ tiny_count \in Nat
       /\ SumLists' = SumLists /\ SumLists \in Nat
  BY <1>6, CountersType, WaitingType, Same
<1>17. global_count' = global_count - RootsOf(warp[w]) + RootsOf(s)
  BY <1>6, <1>14, <1>15, <1>16
<1>18. large_count' = large_count + Len(global_large_worklist')
                          - Len(global_large_worklist) + LargeOf(s) - LargeOf(warp[w])
                          - UncountedOf(s) + UncountedOf(warp[w])
  <2>1. PICK n \in Nat : n = Len(global_large_worklist)
    BY <1>1, <1>8
  <2>2. PICK m \in Int : m = Len(global_large_worklist') /\ m = n - 1
    BY <1>1, <1>5, <1>8, <2>1
  <2> QED BY <1>6, <1>14, <1>15, <1>16, <2>1, <2>2
<1>19. tiny_count' = tiny_count + SumLists' - SumLists + TinyOf(s) - TinyOf(warp[w])
  BY <1>6, <1>14, <1>15, <1>16
<1>20. ASSUME NEW b \in All
       PROVE  Waiting(b)' + Brings(b, s) + Counted(b)'
                = Waiting(b) + Brings(b, warp[w]) + Counted(b)
  <2>1. /\ Unclaimed(b) \in Nat /\ LargeHas(b) \in Nat /\ ListsHave(b) \in Nat
        /\ Counted(b) \in Nat
    BY <1>6, WaitingType
  <2>2. /\ Unclaimed(b)' = Unclaimed(b) /\ ListsHave(b)' = ListsHave(b)
        /\ Counted(b)' = Counted(b)
    BY <1>6, Same
  <2>3. LargeHas(b) = LargeHas(b)' + (IF p \in AsideOf(b) THEN 1 ELSE 0)
    <3>1. AsideOf(b)' = AsideOf(b)
      BY <1>6, GraphStays
    <3>2. LargeHas(b)' = CountIn(rest, AsideOf(b))
      BY <1>5, <3>1 DEF LargeHas, CountIn
    <3>3. LargeHas(b) = CountIn(list, AsideOf(b))
      BY <1>1 DEF LargeHas
    <3> QED BY <1>8, <3>2, <3>3
  <2>4. LargeHas(b)' \in Nat
    <3>1. (Typed => LargeHas(b) \in Nat)'
      BY WaitingType, PTL
    <3>2. Typed'
      BY <1>6, <1>13, TypesKept
    <3> QED BY <3>1, <3>2
  <2>5. Brings(b, s) = IF p \in AsideOf(b) THEN 1 ELSE 0
    <3>1. Brings(b, s) = CountIn(q, TasksOf(b))
      BY <1>11 DEF Brings
    <3> QED BY <1>9, <3>1
  <2>6. Brings(b, warp[w]) = 0
    <3>1. warp[w].tiny_buffer = <<>>
      BY <1>5, <1>6 DEF WarpOK
    <3>2. Brings(b, warp[w]) = CountIn(warp[w].tiny_buffer, TasksOf(b))
      BY <1>5 DEF Brings
    <3> QED BY <3>1, <3>2, CountEmpty
  <2>7. /\ Waiting(b)' = Unclaimed(b)' + LargeHas(b)' + ListsHave(b)'
        /\ Waiting(b) = Unclaimed(b) + LargeHas(b) + ListsHave(b)
    BY DEF Waiting
  <2> QED BY ONLY <2>1, <2>2, <2>3, <2>4, <2>5, <2>6, <2>7
<1> QED BY <1>11, <1>13, <1>17, <1>18, <1>19, <1>20, Kept DEF Leaving

\* The lesser of two numbers.
LEMMA MinOfTwo ==
  ASSUME NEW x \in Int, NEW y \in Int
  PROVE  Min({x, y}) \in {x, y} /\ Min({x, y}) <= x /\ Min({x, y}) <= y
<1>1. \E m \in {x, y} : \A z \in {x, y} : m <= z
  <2>1. CASE x <= y
    BY <2>1
  <2>2. CASE y <= x
    BY <2>2
  <2> QED BY <2>1, <2>2
<1> QED BY <1>1 DEF Min

\* Tiny tasks are handed out.
LEMMA HandOutKeeps == ASSUME KInv, NEW w \in Warps, HandOut(w) PROVE KInv'
<1>1. PICK k, list, buffer : /\ k = w[1] /\ list = local_tiny_worklist[k]
                             /\ buffer = warp[w].tiny_buffer
  OBVIOUS
<1>2. PICK n : n = Min({TinySize - 1 - Len(list), Len(buffer)})
  OBVIOUS
<1>3. PICK h, rest : /\ h = SubSeq(buffer, 1, n)
                     /\ rest = SubSeq(buffer, n + 1, Len(buffer))
  OBVIOUS
<1>4. /\ warp[w].at = "hand" /\ n > 0
      /\ local_tiny_worklist' = [local_tiny_worklist EXCEPT ![k] = list \o h]
      /\ Become(w, IF rest # <<>> THEN [warp[w] EXCEPT !.tiny_buffer = rest]
                   ELSE [warp[w] EXCEPT !.at = "look", !.tiny_buffer = <<>>,
                                        !.llc = @ + 1])
      /\ UNCHANGED <<fixed, processing_vertex, counters, global_large_worklist, result>>
  BY <1>1, <1>2, <1>3 DEF HandOut
<1>5. /\ graph' = graph /\ processing_vertex' = processing_vertex
      /\ global_count' = global_count /\ large_count' = large_count
      /\ tiny_count' = tiny_count /\ found' = found
      /\ maximal_bicliques' = maximal_bicliques
      /\ global_large_worklist' = global_large_worklist
      /\ Typed /\ warp[w] \in States /\ WarpOK(warp[w])
  BY <1>4 DEF fixed, counters, result, KInv, Typed
<1>6. /\ k \in Blocks /\ list \in Seq(Tasks) /\ buffer \in Seq(Tasks)
      /\ Len(list) \in Nat /\ Len(buffer) \in Nat
  BY <1>1, <1>5, WarpsFinite DEF Typed, WarpOK
<1>7. n \in 0 .. Len(buffer)
  <2>1. TinySize - 1 - Len(list) \in Int
    BY <1>6, KernelAssumption
  <2>2. PICK x \in Int : x = TinySize - 1 - Len(list)
    BY <2>1
  <2>3. PICK y \in Nat : y = Len(buffer)
    BY <1>6
  <2>4. n \in {x, y} /\ n <= y
    <3>1. n = Min({x, y})
      BY <1>2, <2>2, <2>3
    <3>2. y \in Int
      OBVIOUS
    <3>3. Min({x, y}) \in {x, y} /\ Min({x, y}) <= y
      BY ONLY <3>2, x \in Int, MinOfTwo
    <3> QED BY <3>1, <3>3
  <2> QED BY <1>4, <2>3, <2>4
<1>8. /\ h \in Seq(Tasks) /\ rest \in Seq(Tasks)
      /\ Len(h) = n /\ Len(rest) = Len(buffer) - n
      /\ \A S : CountIn(h, S) + CountIn(rest, S) = CountIn(buffer, S)
  BY <1>3, <1>6, <1>7, CountSplit
<1>9. /\ list \o h \in Seq(Tasks) /\ Len(list \o h) = Len(list) + n
      /\ \A S : CountIn(list \o h, S) = CountIn(list, S) + CountIn(h, S)
  <2>1. list \o h \in Seq(Tasks) /\ Len(list \o h) = Len(list) + Len(h)
    BY <1>6, <1>8, ConcatProperties
  <2>2. \A S : CountIn(list \o h, S) = CountIn(list, S) + CountIn(h, S)
    BY <1>6, <1>8, CountConcat
  <2> QED BY <1>8, <2>1, <2>2
<1>10. warp[w].lgc \in Nat /\ warp[w].llc \in Nat /\ warp[w].ltc \in Nat
  BY <1>5 DEF States
<1>11. rest \in Seq(Seq(V)) /\ <<>> \in Seq(Seq(V))
  <2>1. \A t \in Tasks : t \in Seq(V)
    BY DEF Tasks
  <2> QED BY <1>8, <2>1
<1>12. PICK s \in States :
         /\ Become(w, s) /\ s.tiny_buffer = rest
         /\ s.lgc = warp[w].lgc /\ s.ltc = warp[w].ltc
         /\ \/ s.at = "hand" /\ s.llc = warp[w].llc
            \/ s.at = "look" /\ s.llc = warp[w].llc + 1 /\ rest = <<>>
  <2>1. CASE rest # <<>>
    <3>1. PICK s : s = [warp[w] EXCEPT !.tiny_buffer = rest]
      OBVIOUS
    <3>2. /\ s \in States /\ s.tiny_buffer = rest /\ s.at = "hand"
          /\ s.lgc = warp[w].lgc /\ s.ltc = warp[w].ltc /\ s.llc = warp[w].llc
      BY <1>4, <1>5, <1>11, <3>1 DEF States
    <3>3. Become(w, s)
      BY <1>4, <2>1, <3>1
    <3> QED BY <3>2, <3>3
  <2>2. CASE rest = <<>>
    <3>1. PICK m \in Nat : m = warp[w].llc + 1
      BY <1>10
    <3>2. PICK s : s = [warp[w] EXCEPT !.at = "look", !.tiny_buffer = <<>>, !.llc = m]
      OBVIOUS
    <3>3. "look" \in Places
      BY DEF Places
    <3>4. /\ s \in States /\ s.tiny_buffer = <<>> /\ s.at = "look"
          /\ s.lgc = warp[w].lgc /\ s.ltc = warp[w].ltc /\ s.llc = m
      BY <1>5, <1>11, <3>2, <3>3 DEF States
    <3>5. Become(w, s)
      BY <1>4, <2>2, <3>1, <3>2
    <3> QED BY <2>2, <3>1, <3>4, <3>5
  <2> QED BY <2>1, <2>2
<1>13. WarpOK(s)'
  <2>1. WarpOK(s)
    BY <1>8, <1>12 DEF WarpOK
  <2> QED BY <1>5, <2>1, OKStays
<1>14. /\ local_tiny_worklist' \in [Blocks -> Seq(Tasks)] /\ SumLists \in Nat
       /\ SumLists' = SumLists - Len(list) + Len(list \o h)
       /\ \A b : /\ ListsHave(b) \in Nat
                 /\ ListsHave(b)' = ListsHave(b) - CountIn(list, TasksOf(b))
                                      + CountIn(list \o h, TasksOf(b))
  <2>1. PICK q \in Seq(Tasks) : q = list \o h
    BY <1>9
  <2>2. local_tiny_worklist' = [local_tiny_worklist EXCEPT ![k] = q]
    BY <1>4, <2>1
  <2>3. /\ local_tiny_worklist' \in [Blocks -> Seq(Tasks)] /\ SumLists \in Nat
        /\ SumLists' = SumLists - Len(local_tiny_worklist[k]) + Len(q)
        /\ \A b : /\ ListsHave(b) \in Nat
                  /\ ListsHave(b)' = ListsHave(b)
                                       - CountIn(local_tiny_worklist[k], TasksOf(b))
                                       + CountIn(q, TasksOf(b))
    BY <1>5, <1>6, <2>2, ListMoves
  <2>4. local_tiny_worklist[k] = list
    BY <1>1
  <2> QED BY <2>1, <2>3, <2>4
<1>15. Steps(w, s)
  BY <1>4, <1>5, <1>12, <1>13, <1>14 DEF Steps, Typed
<1>16. /\ RootsOf(s) = s.lgc /\ RootsOf(warp[w]) = s.lgc
       /\ LargeOf(s) = warp[w].llc + 1 /\ LargeOf(warp[w]) = warp[w].llc + 1
       /\ UncountedOf(s) = 0 /\ UncountedOf(warp[w]) = 0
  BY <1>4, <1>10, <1>12 DEF RootsOf, LargeOf, UncountedOf, InHand
<1>17. TinyOf(s) = s.ltc + Len(rest) /\ TinyOf(warp[w]) = s.ltc + Len(buffer)
  <2>1. rest = <<>> => Len(rest) = 0
    OBVIOUS
  <2> QED BY <1>1, <1>4, <1>10, <1>12, <2>1 DEF TinyOf, InHand
<1>18. /\ global_count \in Nat /\ large_count \in Int /\ tiny_count \in Nat
       /\ Len(global_large_worklist) \in Nat
       /\ Len(global_large_worklist') = Len(global_large_worklist)
  BY <1>5, CountersType, WaitingType
<1>19. global_count' = global_count - RootsOf(warp[w]) + RootsOf(s)
  BY <1>5, <1>10, <1>12, <1>16, <1>18
<1>20. large_count' = large_count + Len(global_large_worklist')
                          - Len(global_large_worklist) + LargeOf(s) - LargeOf(warp[w])
                          - UncountedOf(s) + UncountedOf(warp[w])
  <2>1. PICK m \in Nat : m = Len(global_large_worklist)
    BY <1>18
  <2> QED BY <1>5, <1>10, <1>16, <1>18, <2>1
<1>21. tiny_count' = tiny_count + SumLists' - SumLists + TinyOf(s) - TinyOf(warp[w])
  <2>1. PICK x, y, z, v : /\ x = Len(list) /\ y = Len(buffer) /\ z = Len(rest)
                          /\ v = Len(list \o h)
    OBVIOUS
  <2>2. x \in Nat /\ y \in Nat /\ n \in Nat /\ z = y - n /\ v = x + n
    BY <1>6, <1>7, <1>8, <1>9, <2>1
  <2>3. SumLists' = SumLists - x + v /\ SumLists \in Nat
    BY <1>14, <2>1
  <2>4. PICK m \in Int : m = SumLists' /\ m = SumLists + n
    BY <2>2, <2>3
  <2>5. TinyOf(s) = s.ltc + z /\ TinyOf(warp[w]) = s.ltc + y /\ s.ltc \in Nat
    BY <1>10, <1>12, <1>17, <2>1
  <2>6. PICK l \in Nat : l = s.ltc
    BY <2>5
  <2>7. PICK t \in Int, tt \in Int : /\ t = TinyOf(warp[w]) /\ tt = TinyOf(s)
                                   /\ t = l + y /\ tt = l + y - n
    BY <2>2, <2>5, <2>6
  <2>8. tiny_count' = tiny_count /\ tiny_count \in Nat
    BY <1>5, <1>18
  <2> QED BY ONLY <2>2, <2>3, <2>4, <2>6, <2>7, <2>8
<1>22. ASSUME NEW b \in All
       PROVE  Waiting(b)' + Brings(b, s) + Counted(b)'
                = Waiting(b) + Brings(b, warp[w]) + Counted(b)
  <2>1. /\ Unclaimed(b) \in Nat /\ LargeHas(b) \in Nat /\ ListsHave(b) \in Nat
        /\ Counted(b) \in Nat
    BY <1>5, WaitingType
  <2>2. /\ Unclaimed(b)' = Unclaimed(b) /\ LargeHas(b)' = LargeHas(b)
        /\ Counted(b)' = Counted(b)
    BY <1>5, Same
  <2>3. PICK x, y, z, v : /\ x = CountIn(list, TasksOf(b)) /\ y = CountIn(buffer, TasksOf(b))
                          /\ z = CountIn(rest, TasksOf(b)) /\ v = CountIn(h, TasksOf(b))
    OBVIOUS
  <2>4. x \in Nat /\ y \in Nat /\ z \in Nat /\ v \in Nat /\ v + z = y
    BY <1>6, <1>8, <2>3, CountType
  <2>5. ListsHave(b)' = ListsHave(b) - x + (x + v)
    BY <1>9, <1>14, <2>3
  <2>6. Brings(b, s) = z
    BY <1>12, <2>3 DEF Brings
  <2>7. Brings(b, warp[w]) = y
    BY <1>1, <1>4, <2>3 DEF Brings
  <2>8. /\ Waiting(b)' = Unclaimed(b)' + LargeHas(b)' + ListsHave(b)'
        /\ Waiting(b) = Unclaimed(b) + LargeHas(b) + ListsHave(b)
    BY DEF Waiting
  <2> QED BY ONLY <2>1, <2>2, <2>4, <2>5, <2>6, <2>7, <2>8
<1> QED BY <1>12, <1>15, <1>19, <1>20, <1>21, <1>22, Kept DEF Leaving

----------------------------------------------------------------------------
\* The kernel from its start.
KernelSpec == (KernelGraph /\ StartState) /\ [][Next]_vars

\* A sum of zeros.
LEMMA Zeros ==
  ASSUME NEW S, IsFiniteSet(S)
  PROVE  SumOf([x \in S |-> 0]) = 0
<1> DEFINE f == [x \in S |-> 0]
<1>1. f \in [S -> Nat] /\ \A x \in S : f[x] = 0
  OBVIOUS
<1> HIDE DEF f
<1>2. SumOf(f) = 0
  BY <1>1, SumZero
<1> QED BY <1>2 DEF f

\* Idle warps have nothing.
LEMMA IdleHas ==
  ASSUME NEW b
  PROVE  /\ Idle \in States /\ Idle.at = "look" /\ Idle.tiny_buffer = <<>>
         /\ Idle.lgc = 0 /\ Idle.llc = 0 /\ Idle.ltc = 0
         /\ RootsOf(Idle) = 0 /\ LargeOf(Idle) = 0 /\ UncountedOf(Idle) = 0
         /\ TinyOf(Idle) = 0 /\ Brings(b, Idle) = 0
<1>1. /\ Idle \in States /\ Idle.at = "look" /\ Idle.tiny_buffer = <<>>
      /\ Idle.lgc = 0 /\ Idle.llc = 0 /\ Idle.ltc = 0
  BY DEF Idle, States, Places
<1>2. Idle.at \in Walking
  BY <1>1 DEF Walking
<1> QED BY <1>1, <1>2, Empty

\* The invariant holds at the start.
LEMMA KInvInit == KernelGraph /\ StartState => KInv
<1> SUFFICES ASSUME KernelGraph, StartState PROVE KInv
  OBVIOUS
<1>1. /\ processing_vertex = 0
      /\ global_count = 0 /\ large_count = 0 /\ tiny_count = 0
      /\ global_large_worklist = <<>>
      /\ local_tiny_worklist = [k \in Blocks |-> <<>>]
      /\ warp = [w \in Warps |-> Idle]
      /\ maximal_bicliques = 0 /\ found = {} /\ wanted = All
  BY DEF StartState, All
<1>2. \A x \in Warps : warp[x] = Idle
  BY <1>1
<1>3. WarpOK(Idle)
  <2>1. Idle.tiny_buffer \in Seq(Tasks)
    <3>1. Idle.tiny_buffer = <<>>
      BY IdleHas
    <3> QED BY <3>1
  <2> QED BY <2>1, IdleHas DEF WarpOK
<1>4. Typed
  <2>1. warp \in [Warps -> States]
    BY <1>1, IdleHas
  <2>2. \A x \in Warps : WarpOK(warp[x])
    BY <1>2, <1>3
  <2>3. maximal_bicliques = Cardinality(found)
    BY <1>1, FS_EmptySet
  <2> QED BY <1>1, <2>1, <2>2, <2>3 DEF Typed
<1>5. IsFiniteSet(Warps) /\ IsFiniteSet(Blocks)
  BY WarpsFinite
<1>6. /\ [x \in Warps |-> RootsOf(warp[x])] = [x \in Warps |-> 0]
      /\ [x \in Warps |-> LargeOf(warp[x])] = [x \in Warps |-> 0]
      /\ [x \in Warps |-> UncountedOf(warp[x])] = [x \in Warps |-> 0]
      /\ [x \in Warps |-> TinyOf(warp[x])] = [x \in Warps |-> 0]
  BY <1>2, IdleHas
<1>7. SumRoots = 0 /\ SumLarge = 0 /\ SumUncounted = 0 /\ SumTiny = 0
  BY <1>5, <1>6, Zeros DEF SumRoots, SumLarge, SumUncounted, SumTiny
<1>8. SumLists = 0
  <2>1. [k \in Blocks |-> Len(local_tiny_worklist[k])] = [k \in Blocks |-> 0]
    BY <1>1
  <2> QED BY <1>5, <2>1, Zeros DEF SumLists
<1>9. Counters
  <2>1. Len(global_large_worklist) = 0
    BY <1>1
  <2> QED BY <1>1, <1>7, <1>8, <2>1 DEF Counters
<1>10. ASSUME NEW b \in All PROVE Waiting(b) + SumBrings(b) + Counted(b) = 1
  <2>1. SumBrings(b) = 0
    <3>1. [x \in Warps |-> Brings(b, warp[x])] = [x \in Warps |-> 0]
      BY <1>2, IdleHas
    <3> QED BY <1>5, <3>1, Zeros DEF SumBrings
  <2>2. LargeHas(b) = 0
    BY <1>1, CountEmpty DEF LargeHas
  <2>3. ListsHave(b) = 0
    <3>1. [k \in Blocks |-> CountIn(local_tiny_worklist[k], TasksOf(b))]
            = [k \in Blocks |-> 0]
      BY <1>1, CountEmpty
    <3> QED BY <1>5, <3>1, Zeros DEF ListsHave
  <2>4. Unclaimed(b) = 1
    <3>1. PICK r \in V : TRUE
      BY InAll
    <3>2. Min(b[2]) \in V
      BY <3>1, RootHas
    <3>3. PICK m : m = Min(b[2])
      OBVIOUS
    <3>4. V_size \in Nat /\ m \in 0 .. V_size - 1
      BY <3>2, <3>3, VNumbers
    <3>5. m < V_size - processing_vertex
      BY <1>1, <3>4
    <3> QED BY <3>3, <3>5 DEF Unclaimed
  <2>5. Counted(b) = 0
    BY <1>1 DEF Counted
  <2> QED BY <2>1, <2>2, <2>3, <2>4, <2>5 DEF Waiting
<1>11. NoneWaits
  BY <1>1 DEF NoneWaits
<1> QED BY <1>4, <1>9, <1>10, <1>11 DEF KInv, Shared

\* It is kept by a step that changes nothing.
LEMMA KInvStutters == ASSUME KInv, UNCHANGED vars PROVE KInv'
<1>1. /\ graph' = graph /\ wanted' = wanted /\ processing_vertex' = processing_vertex
      /\ global_count' = global_count /\ large_count' = large_count
      /\ tiny_count' = tiny_count
      /\ global_large_worklist' = global_large_worklist
      /\ local_tiny_worklist' = local_tiny_worklist /\ warp' = warp
      /\ maximal_bicliques' = maximal_bicliques /\ found' = found
  BY DEF vars, fixed, counters, lists, result
<1>2. /\ V' = V /\ All' = All /\ KernelGraph' = KernelGraph
      /\ Tasks' = Tasks /\ Maximals' = Maximals /\ States' = States
      /\ \A b : TasksOf(b)' = TasksOf(b) /\ AsideOf(b)' = AsideOf(b)
  BY <1>1, GraphStays DEF States
<1>3. \A x \in Warps : WarpOK(warp[x])'
  <2> SUFFICES ASSUME NEW x \in Warps PROVE WarpOK(warp[x])'
    OBVIOUS
  <2>1. PICK s : s = warp[x]
    OBVIOUS
  <2>2. WarpOK(s)
    BY <2>1 DEF KInv, Typed
  <2>3. WarpOK(s)'
    BY <1>1, <2>2, OKStays
  <2>4. warp[x]' = s
    BY <1>1, <2>1
  <2> QED BY <2>3, <2>4 DEF WarpOK
<1>4. Typed'
  BY <1>1, <1>2, <1>3 DEF KInv, Typed
<1>5. /\ SumRoots' = SumRoots /\ SumLarge' = SumLarge /\ SumUncounted' = SumUncounted
      /\ SumTiny' = SumTiny /\ SumLists' = SumLists
  BY <1>1 DEF SumRoots, SumLarge, SumUncounted, SumTiny, SumLists, SumOf, RootsOf, LargeOf,
              UncountedOf, TinyOf, InHand
<1>6. Counters'
  BY <1>1, <1>5 DEF KInv, Counters
<1>7. \A b : SumBrings(b)' = SumBrings(b) /\ Waiting(b)' = Waiting(b)
             /\ Counted(b)' = Counted(b)
  <2> SUFFICES ASSUME NEW b
               PROVE  SumBrings(b)' = SumBrings(b) /\ Waiting(b)' = Waiting(b)
                      /\ Counted(b)' = Counted(b)
    OBVIOUS
  <2>1. SumBrings(b)' = SumBrings(b)
    <3>1. \A x \in Warps : Brings(b, warp'[x]) = Brings(b, warp[x])
      BY <1>1
    <3>2. SumBrings(b)' = SumOf([x \in Warps |-> Brings(b, warp'[x])])
      <4>1. TasksOf(b)' = TasksOf(b) /\ AsideOf(b)' = AsideOf(b)
        BY <1>2
      <4> QED BY ONLY <4>1 DEF SumBrings, SumOf, Brings, CountIn
    <3>3. [x \in Warps |-> Brings(b, warp'[x])] = [x \in Warps |-> Brings(b, warp[x])]
      BY <3>1
    <3> QED BY <3>2, <3>3 DEF SumBrings
  <2>2. Waiting(b)' = Waiting(b) /\ Counted(b)' = Counted(b)
    BY <1>1, Same DEF Waiting
  <2> QED BY <2>1, <2>2
<1>8. Shared'
  BY <1>2, <1>7 DEF KInv, Shared
<1>9. NoneWaits'
  BY <1>1 DEF KInv, NoneWaits
<1> QED BY <1>4, <1>6, <1>8, <1>9 DEF KInv

\* It is kept by every step.
LEMMA KInvStep == KInv /\ [Next]_vars => KInv'
<1> SUFFICES ASSUME KInv, [Next]_vars PROVE KInv'
  OBVIOUS
<1>1. CASE UNCHANGED vars
  BY <1>1, KInvStutters
<1>2. ASSUME NEW w \in ConsumerWarps, Consumer(w) PROVE KInv'
  <2>1. w \in Warps
    BY DEF ConsumerWarps
  <2>2. CASE FindNoTiny(w) \/ LookForVertex(w)
    BY <2>1, <2>2, LooksKeep
  <2>3. CASE ClaimVertex(w)
    BY <2>1, <2>3, ClaimsNone, ClaimsOne
  <2>4. CASE DoTask(w) \/ DoAside(w)
    BY <2>1, <2>4, DoKeeps
  <2>5. CASE FlushTiny(w) \/ FlushVertices(w)
    BY <2>1, <2>5, FlushKeeps
  <2>6. CASE ReadGlobal(w) \/ ReadLarge(w) \/ ReadTiny(w)
    BY <2>1, <2>6, ReadsKeep
  <2>7. CASE TakeTiny(w)
    BY <2>1, <2>7, TakeTinyKeeps
  <2>8. CASE CountVertex(w)
    BY <2>1, <2>8, CountVertexKeeps
  <2>9. CASE PutAside(w)
    BY <2>1, <2>9, PutAsideKeeps
  <2>10. CASE PushLarge(w)
    BY <2>1, <2>10, PushLargeKeeps
  <2>11. CASE CountLarge(w)
    BY <2>1, <2>11, CountLargeKeeps
  <2> QED BY <1>2, <2>2, <2>3, <2>4, <2>5, <2>6, <2>7, <2>8, <2>9, <2>10, <2>11
      DEF Consumer
<1>3. ASSUME NEW w \in Dividers, Divider(w) PROVE KInv'
  <2>1. w \in Warps
    BY KernelAssumption DEF Dividers, Warps
  <2>2. CASE FindNoLarge(w) \/ LookForEnd(w)
    BY <2>1, <2>2, LooksKeep
  <2>3. CASE FlushLarge(w)
    BY <2>1, <2>3, FlushKeeps
  <2>4. CASE ReadGlobal(w) \/ ReadLarge(w) \/ ReadTiny(w)
    BY <2>1, <2>4, ReadsKeep
  <2>5. CASE TakeLarge(w)
    BY <2>1, <2>5, TakeLargeKeeps
  <2>6. CASE CountTiny(w)
    BY <2>1, <2>6, CountTinyKeeps
  <2>7. CASE HandOut(w)
    BY <2>1, <2>7, HandOutKeeps
  <2> QED BY <1>3, <2>2, <2>3, <2>4, <2>5, <2>6, <2>7 DEF Divider
<1> QED BY <1>1, <1>2, <1>3 DEF Next

\* The kernel's invariant: the types, what warps have where they are, the two accounts,
\* and that the list of large tasks is empty when all warps have read zero in the first
\* two counters, and the lists of tiny ones when all have left.
THEOREM KernelInvariant == KernelSpec => []KInv
BY KInvInit, KInvStep, PTL DEF KernelSpec

\* global_count, large_count and tiny_count each stand for exactly the tasks of their
\* kind that wait, are in a warp's hands, or are done and not taken off yet, although
\* large tasks are counted after they were pushed and all are taken off late.
THEOREM CountersAgree == KernelSpec => []CountersExact
<1>1. KInv => CountersExact
  BY DEF KInv, Counters, CountersExact, SumRoots, SumLarge, SumUncounted, SumTiny, SumLists
<1> QED BY <1>1, KernelInvariant, PTL

\* If all warps have left, all maximal bicliques were found and counted once, although
\* each warp read the three counters one after the other while tasks changed from one
\* kind to another.
THEOREM EndsExactly == KernelSpec => []EndedExact
<1>1. ASSUME KInv, Ended PROVE found = wanted /\ maximal_bicliques = Cardinality(wanted)
  <2>1. /\ KernelGraph /\ wanted = All /\ found \subseteq All
        /\ maximal_bicliques = Cardinality(found) /\ processing_vertex \in Nat
        /\ \A x \in Warps : warp[x] \in States /\ WarpOK(warp[x]) /\ warp[x].at = "left"
    BY <1>1 DEF KInv, Typed, Ended
  <2>2. PICK w \in Warps : TRUE
    BY WarpsFinite
  <2>3. processing_vertex >= V_size
    BY <2>1, <2>2 DEF WarpOK
  <2>4. global_large_worklist = <<>> /\ \A k \in Blocks : local_tiny_worklist[k] = <<>>
    BY <1>1, <2>1 DEF KInv, NoneWaits, Leaving
  <2>5. ASSUME NEW b \in All PROVE b \in found
    <3>1. \A x \in Warps : Brings(b, warp[x]) = 0
      BY <2>1, Empty DEF Walking, WarpOK
    <3>2. SumBrings(b) = 0
      <4>1. [x \in Warps |-> Brings(b, warp[x])] = [x \in Warps |-> 0]
        BY <3>1
      <4> QED BY <4>1, WarpsFinite, Zeros DEF SumBrings
    <3>3. LargeHas(b) = 0
      BY <2>4, CountEmpty DEF LargeHas
    <3>4. ListsHave(b) = 0
      <4>1. [k \in Blocks |-> CountIn(local_tiny_worklist[k], TasksOf(b))]
              = [k \in Blocks |-> 0]
        BY <2>4, CountEmpty
      <4> QED BY <4>1, WarpsFinite, Zeros DEF ListsHave
    <3>5. Unclaimed(b) = 0
      <4>1. PICK m : m = Min(b[2])
        OBVIOUS
      <4>2. m \in Nat
        <5>1. b[2] # {} /\ b[2] \subseteq Nat
          BY <2>1, InAll, VNumbers
        <5> QED BY <4>1, <5>1, MinOfNats
      <4>3. V_size \in Nat
        BY <2>1, VNumbers
      <4>4. ~(m < V_size - processing_vertex)
        BY <2>1, <2>3, <4>2, <4>3
      <4> QED BY <4>1, <4>4 DEF Unclaimed
    <3>6. Waiting(b) + SumBrings(b) + Counted(b) = 1
      BY <1>1 DEF KInv, Shared
    <3>7. Counted(b) \in Nat
      BY DEF Counted
    <3>8. Counted(b) = 1
      BY <3>2, <3>3, <3>4, <3>5, <3>6, <3>7 DEF Waiting
    <3> QED BY <3>8 DEF Counted
  <2>6. found = All
    BY <2>1, <2>5
  <2> QED BY <2>1, <2>6
<1>2. KInv => EndedExact
  BY <1>1 DEF EndedExact
<1> QED BY <1>2, KernelInvariant, PTL

\* The own bicliques of tasks put aside have been counted, and no consumer divides.
Aside ==
  /\ \A i \in 1 .. Len(global_large_worklist) : Own(global_large_worklist[i]) \in found
  /\ \A x \in Warps : warp[x].at = "push" => Own(warp[x].tt) \in found
  /\ \A x \in ConsumerWarps : warp[x].at \notin {"divided", "hand"}

\* Aside is kept by a step that puts aside only what it counts.
LEMMA AsideKept ==
  ASSUME Typed, Aside, UNCHANGED fixed, NEW w \in Warps, NEW s, Become(w, s),
         found \subseteq found', s.at = "push" => Own(s.tt) \in found',
         w \in ConsumerWarps => s.at \notin {"divided", "hand"},
         \A i \in 1 .. Len(global_large_worklist') : Own(global_large_worklist'[i]) \in found'
  PROVE  Aside'
<1>1. \A x \in Warps : warp'[x] = IF x = w THEN s ELSE warp[x]
  BY DEF Become, Typed
<1>2. graph' = graph
  BY DEF fixed
<1>3. \A x \in Warps : warp'[x].at = "push" => Own(warp'[x].tt) \in found'
  BY <1>1 DEF Aside
<1>4. \A x \in ConsumerWarps : x \in Warps
  BY DEF ConsumerWarps
<1>5. \A x \in ConsumerWarps : warp'[x].at \notin {"divided", "hand"}
  BY <1>1, <1>4 DEF Aside
<1>6. (\A i \in 1 .. Len(global_large_worklist) : Own(global_large_worklist[i]) \in found)'
  BY <1>2 DEF Own, LVertices, RVertices
<1>7. (\A x \in Warps : warp[x].at = "push" => Own(warp[x].tt) \in found)'
  BY <1>2, <1>3 DEF Own, LVertices, RVertices, Warps
<1>8. (\A x \in ConsumerWarps : warp[x].at \notin {"divided", "hand"})'
  BY <1>5 DEF ConsumerWarps, Warps, Dividers
<1> QED BY <1>6, <1>7, <1>8 DEF Aside

\* Most steps leave the list of large tasks alone and put nothing aside.
LEMMA AsideQuiet ==
  ASSUME Typed, Aside, UNCHANGED fixed, NEW w \in Warps, NEW s, Become(w, s),
         found \subseteq found', s.at # "push",
         w \in ConsumerWarps => s.at \notin {"divided", "hand"},
         global_large_worklist' = global_large_worklist
  PROVE  Aside'
<1>1. \A i \in 1 .. Len(global_large_worklist') : Own(global_large_worklist'[i]) \in found'
  BY DEF Aside
<1> QED BY <1>1, AsideKept

\* A warp that has done its task looks for another.
LEMMA DoneAt ==
  ASSUME NEW w, Done(w), warp[w] \in States
  PROVE  \E s : Become(w, s) /\ s.at = "look"
<1>1. PICK s : s = IF warp[w].tiny THEN [warp[w] EXCEPT !.at = "look", !.ltc = @ + 1]
                   ELSE [warp[w] EXCEPT !.at = "look", !.lgc = @ + 1]
  OBVIOUS
<1>2. s.at = "look"
  BY <1>1 DEF States
<1>3. Become(w, s)
  BY <1>1 DEF Done
<1> QED BY <1>2, <1>3

\* A warp that has gone on to a has its task still.
LEMMA GoneAt ==
  ASSUME NEW w, NEW a, Go(w, a), warp[w] \in States
  PROVE  \E s : Become(w, s) /\ s.at = a /\ s.tt = warp[w].tt
<1>1. PICK s : s = [warp[w] EXCEPT !.at = a]
  OBVIOUS
<1>2. s.at = a /\ s.tt = warp[w].tt
  BY <1>1 DEF States
<1> QED BY <1>1, <1>2 DEF Go

\* Steps of a warp that only looks, reads or counts keep Aside.
LEMMA AsideLooks ==
  ASSUME Typed, Aside, NEW w \in Warps,
         \/ FindNoTiny(w) \/ LookForVertex(w) \/ FindNoLarge(w) \/ LookForEnd(w)
         \/ CountVertex(w) \/ ReadGlobal(w) \/ ReadLarge(w) \/ ReadTiny(w)
  PROVE  Aside'
<1>1. warp[w] \in States
  BY DEF Typed
<1>2. UNCHANGED <<fixed, lists, result>>
  BY DEF FindNoTiny, LookForVertex, FindNoLarge, LookForEnd, CountVertex,
         ReadGlobal, ReadLarge, ReadTiny, Read
<1>3. \E a \in {"look", "vertex", "claim", "flush", "task", "readLarge", "readTiny", "left"} :
        Go(w, a)
  <2>1. CASE FindNoTiny(w) \/ FindNoLarge(w)
    BY <2>1 DEF FindNoTiny, FindNoLarge
  <2>2. CASE LookForVertex(w) \/ LookForEnd(w)
    BY <2>2 DEF LookForVertex, LookForEnd
  <2>3. CASE CountVertex(w)
    BY <2>3 DEF CountVertex
  <2>4. CASE ReadGlobal(w) \/ ReadLarge(w) \/ ReadTiny(w)
    BY <2>4 DEF ReadGlobal, ReadLarge, ReadTiny, Read
  <2> QED BY <2>1, <2>2, <2>3, <2>4
<1>4. PICK s : Become(w, s) /\ s.at \notin {"push", "divided", "hand"}
  BY <1>1, <1>3, GoneAt
<1> QED BY <1>2, <1>4, AsideQuiet DEF lists, result

\* A consumer's steps keep it: it counts the own biclique before it pushes the task.
LEMMA AsideConsumes ==
  ASSUME Typed, Aside, NEW w \in ConsumerWarps, Consumer(w)
  PROVE  Aside'
<1>1. w \in Warps /\ warp[w] \in States
  BY DEF Typed, ConsumerWarps
<1>2. CASE DoTask(w) \/ DoAside(w) \/ CountLarge(w)
  <2>1. Done(w) /\ UNCHANGED fixed /\ found \subseteq found'
        /\ global_large_worklist' = global_large_worklist
    BY <1>2 DEF DoTask, DoAside, CountLarge, CountAll, lists, result
  <2>2. PICK s : Become(w, s) /\ s.at = "look"
    BY <1>1, <2>1, DoneAt
  <2> QED BY <1>1, <2>1, <2>2, AsideQuiet
<1>3. CASE TakeTiny(w)
  <2>1. PICK s : s = [warp[w] EXCEPT !.at = "task", !.tt = Head(local_tiny_worklist[w[1]]),
                                     !.tiny = TRUE]
    OBVIOUS
  <2>2. s.at = "task"
    BY <1>1, <2>1 DEF States
  <2>3. Become(w, s) /\ UNCHANGED <<fixed, global_large_worklist, result>>
    BY <1>3, <2>1 DEF TakeTiny
  <2> QED BY <1>1, <2>2, <2>3, AsideQuiet DEF result
<1>4. CASE ClaimVertex(w)
  <2>1. PICK s : s = [warp[w] EXCEPT !.at = "claimed",
                                     !.tt = <<V_size - 1 - processing_vertex>>,
                                     !.tiny = FALSE]
    OBVIOUS
  <2>2. s.at = "claimed"
    BY <1>1, <2>1 DEF States
  <2>3. UNCHANGED <<fixed, lists, result>> /\ (Become(w, s) \/ Go(w, "look"))
    BY <1>4, <2>1 DEF ClaimVertex
  <2>4. \E t : Become(w, t) /\ t.at \in {"claimed", "look"}
    BY <1>1, <2>2, <2>3, GoneAt
  <2>5. PICK t : Become(w, t) /\ t.at \in {"claimed", "look"}
    BY <2>4
  <2> QED BY <1>1, <2>3, <2>5, AsideQuiet DEF lists, result
<1>5. CASE FlushTiny(w) \/ FlushVertices(w)
  <2>1. PICK s, t : s = [warp[w] EXCEPT !.ltc = 0] /\ t = [warp[w] EXCEPT !.lgc = 0]
    OBVIOUS
  <2>2. warp[w].at = "flush" /\ UNCHANGED <<fixed, lists, result>>
        /\ (Become(w, s) \/ Become(w, t))
    BY <1>5, <2>1 DEF FlushTiny, FlushVertices
  <2>3. s.at = "flush" /\ t.at = "flush"
    BY <1>1, <2>1, <2>2 DEF States
  <2>4. PICK u : Become(w, u) /\ u.at = "flush"
    BY <2>2, <2>3
  <2> QED BY <1>1, <2>2, <2>4, AsideQuiet DEF lists, result
<1>6. CASE PutAside(w)
  <2>1. /\ Go(w, "push") /\ UNCHANGED fixed /\ global_large_worklist' = global_large_worklist
        /\ found' = found \cup {Own(warp[w].tt)}
    BY <1>6 DEF PutAside, CountAll, lists
  <2>2. PICK s : Become(w, s) /\ s.at = "push" /\ s.tt = warp[w].tt
    BY <1>1, <2>1, GoneAt
  <2>3. \A i \in 1 .. Len(global_large_worklist') :
          Own(global_large_worklist'[i]) \in found'
    BY <2>1 DEF Aside
  <2>4. Own(s.tt) \in found' /\ found \subseteq found'
    BY <2>1, <2>2
  <2> QED BY <1>1, <2>1, <2>2, <2>3, <2>4, AsideKept
<1>7. CASE PushLarge(w)
  <2>1. PICK p : p = warp[w].tt
    OBVIOUS
  <2>2. /\ Go(w, "pushed") /\ UNCHANGED <<fixed, result>> /\ warp[w].at = "push"
        /\ global_large_worklist' = Append(global_large_worklist, p)
    BY <1>7, <2>1 DEF PushLarge
  <2>3. Own(p) \in found /\ found' = found
    BY <1>1, <2>1, <2>2 DEF Aside, result
  <2>4. PICK s : Become(w, s) /\ s.at = "pushed"
    BY <1>1, <2>2, GoneAt
  <2>5. \A i \in 1 .. Len(global_large_worklist') :
          Own(global_large_worklist'[i]) \in found'
    <3>1. global_large_worklist \in Seq(Maximals)
      BY DEF Typed
    <3>2. /\ Len(global_large_worklist') = Len(global_large_worklist) + 1
          /\ Len(global_large_worklist) \in Nat
          /\ \A i \in 1 .. Len(global_large_worklist) :
               global_large_worklist'[i] = global_large_worklist[i]
          /\ global_large_worklist'[Len(global_large_worklist) + 1] = p
      BY <2>2, <3>1
    <3> SUFFICES ASSUME NEW i \in 1 .. Len(global_large_worklist')
                 PROVE  Own(global_large_worklist'[i]) \in found'
      OBVIOUS
    <3>3. i \in 1 .. Len(global_large_worklist) \/ i = Len(global_large_worklist) + 1
      BY <3>2
    <3> QED BY <2>3, <3>2, <3>3 DEF Aside
  <2> QED BY <1>1, <2>2, <2>3, <2>4, <2>5, AsideKept
<1>8. CASE \/ FindNoTiny(w) \/ LookForVertex(w) \/ CountVertex(w)
           \/ ReadGlobal(w) \/ ReadLarge(w) \/ ReadTiny(w)
  BY <1>1, <1>8, AsideLooks
<1> QED BY <1>2, <1>3, <1>4, <1>5, <1>6, <1>7, <1>8 DEF Consumer

\* A divider's steps keep it.
LEMMA AsideDivides ==
  ASSUME Typed, Aside, NEW w \in Dividers, Divider(w)
  PROVE  Aside'
<1>1. w \in Warps /\ warp[w] \in States /\ w \notin ConsumerWarps
  <2>1. w \in Warps
    <3>1. 0 \in 0 .. Consumers
      BY KernelAssumption
    <3> QED BY <3>1 DEF Dividers, Warps
  <2>2. w \notin ConsumerWarps
    BY DEF ConsumerWarps
  <2> QED BY <2>1, <2>2 DEF Typed
<1>2. CASE TakeLarge(w)
  <2>1. PICK s : s = [warp[w] EXCEPT !.at = "divided",
                        !.tiny_buffer = [i \in 1 .. Cardinality(Later(Head(global_large_worklist))) |->
                          Append(Head(global_large_worklist),
                                 LaterList(Head(global_large_worklist))[i])]]
    OBVIOUS
  <2>2. s.at = "divided"
    BY <1>1, <2>1 DEF States
  <2>3. /\ Become(w, s) /\ UNCHANGED <<fixed, result>> /\ global_large_worklist # <<>>
        /\ global_large_worklist' = Tail(global_large_worklist)
    BY <1>2, <2>1 DEF TakeLarge
  <2>4. \A i \in 1 .. Len(global_large_worklist') :
          Own(global_large_worklist'[i]) \in found'
    <3>1. global_large_worklist \in Seq(Maximals) /\ found' = found
      BY <2>3 DEF Typed, result
    <3>2. /\ Len(global_large_worklist') = Len(global_large_worklist) - 1
          /\ Len(global_large_worklist) \in Nat
          /\ \A i \in 1 .. Len(global_large_worklist) - 1 :
               global_large_worklist'[i] = global_large_worklist[i + 1]
      BY <2>3, <3>1
    <3>3. \A i \in 1 .. Len(global_large_worklist) - 1 :
            i + 1 \in 1 .. Len(global_large_worklist)
      BY <3>2
    <3> QED BY <3>1, <3>2, <3>3 DEF Aside
  <2> QED BY <1>1, <2>2, <2>3, <2>4, AsideKept DEF result
<1>3. CASE CountTiny(w)
  <2>1. Go(w, "hand") /\ UNCHANGED <<fixed, lists, result>>
    BY <1>3 DEF CountTiny
  <2>2. PICK s : Become(w, s) /\ s.at = "hand"
    BY <1>1, <2>1, GoneAt
  <2> QED BY <1>1, <2>1, <2>2, AsideQuiet DEF lists, result
<1>4. CASE HandOut(w)
  <2>1. PICK rest : rest = SubSeq(warp[w].tiny_buffer,
            Min({TinySize - 1 - Len(local_tiny_worklist[w[1]]), Len(warp[w].tiny_buffer)}) + 1,
            Len(warp[w].tiny_buffer))
    OBVIOUS
  <2>2. PICK s, t : /\ s = [warp[w] EXCEPT !.tiny_buffer = rest]
                    /\ t = [warp[w] EXCEPT !.at = "look", !.tiny_buffer = <<>>, !.llc = @ + 1]
    OBVIOUS
  <2>3. warp[w].at = "hand" /\ UNCHANGED <<fixed, global_large_worklist, result>>
        /\ (Become(w, s) \/ Become(w, t))
    BY <1>4, <2>1, <2>2 DEF HandOut
  <2>4. s.at = "hand" /\ t.at = "look"
    BY <1>1, <2>2, <2>3 DEF States
  <2>5. PICK u : Become(w, u) /\ u.at \in {"hand", "look"}
    BY <2>3, <2>4
  <2> QED BY <1>1, <2>3, <2>5, AsideQuiet DEF result
<1>5. CASE FlushLarge(w)
  <2>1. PICK s : s = [warp[w] EXCEPT !.llc = 0]
    OBVIOUS
  <2>2. warp[w].at = "flush" /\ UNCHANGED <<fixed, lists, result>> /\ Become(w, s)
    BY <1>5, <2>1 DEF FlushLarge
  <2>3. s.at = "flush"
    BY <1>1, <2>1, <2>2 DEF States
  <2> QED BY <1>1, <2>2, <2>3, AsideQuiet DEF lists, result
<1>6. CASE FindNoLarge(w) \/ LookForEnd(w) \/ ReadGlobal(w) \/ ReadLarge(w) \/ ReadTiny(w)
  BY <1>1, <1>6, AsideLooks
<1> QED BY <1>2, <1>3, <1>4, <1>5, <1>6 DEF Divider

\* Aside holds throughout.
LEMMA AsideCounted == KernelSpec => []Aside
<1>1. KernelGraph /\ StartState => Aside
  <2> SUFFICES ASSUME StartState PROVE Aside
    OBVIOUS
  <2>1. Len(global_large_worklist) = 0 /\ \A x \in Warps : warp[x] = Idle
    BY DEF StartState
  <2>2. \A x \in ConsumerWarps : x \in Warps
    BY DEF ConsumerWarps
  <2>3. Idle.at = "look"
    BY DEF Idle
  <2> QED BY <2>1, <2>2, <2>3 DEF Aside
<1>2. KInv /\ Aside /\ [Next]_vars => Aside'
  <2> SUFFICES ASSUME KInv, Aside, [Next]_vars PROVE Aside'
    OBVIOUS
  <2>1. Typed
    BY DEF KInv
  <2>2. CASE UNCHANGED vars
    BY <2>2 DEF Aside, vars, fixed, lists, result, Own, LVertices, RVertices
  <2>3. CASE Next
    BY <2>1, <2>2, <2>3, AsideConsumes, AsideDivides DEF Next
  <2> QED BY <2>2, <2>3
<1> QED BY <1>1, <1>2, KernelInvariant, PTL DEF KernelSpec

\* The tasks that a biclique is in the subtree of, by where they are.
ByVertex(b) ==
  {<<"vertex", 0, <<v>> >> : v \in {u \in V : u < V_size - processing_vertex
                                              /\ InSubtree(b, <<u>>)}}
ByLarge(b) ==
  {<<"large", i, global_large_worklist[i]>> :
     i \in {j \in 1 .. Len(global_large_worklist) :
              InSubtree(b, global_large_worklist[j])}}
ByTiny(b) ==
  UNION {{<<"tiny", <<k, i>>, local_tiny_worklist[k][i]>> :
            i \in {j \in 1 .. Len(local_tiny_worklist[k]) :
                     InSubtree(b, local_tiny_worklist[k][j])}} : k \in Blocks}
Holds(s) == s.at \in {"claimed", "task", "push"}
ByHolder(b) ==
  {<<"held", w, warp[w].tt>> : w \in {x \in Warps : Holds(warp[x])
                                                    /\ InSubtree(b, warp[x].tt)}}
ByDivider(b) ==
  UNION {{<<"buffer", <<w, i>>, warp[w].tiny_buffer[i]>> :
            i \in {j \in 1 .. Len(warp[w].tiny_buffer) :
                     InSubtree(b, warp[w].tiny_buffer[j])}} : w \in Dividers}

\* The tasks outstanding that have it in their subtree are these.
LEMMA OutstandingParts ==
  ASSUME Typed, NEW b
  PROVE  {o \in Outstanding : InSubtree(b, o[3])}
           = ByVertex(b) \cup ByLarge(b) \cup ByTiny(b) \cup ByHolder(b) \cup ByDivider(b)
<1>1. \A w \in Dividers : w \in Warps
  <2>1. 0 \in 0 .. Consumers
    BY KernelAssumption
  <2> QED BY <2>1 DEF Dividers, Warps
<1>2. /\ DOMAIN global_large_worklist = 1 .. Len(global_large_worklist)
      /\ \A k \in Blocks : DOMAIN local_tiny_worklist[k] = 1 .. Len(local_tiny_worklist[k])
      /\ \A w \in Dividers : DOMAIN warp[w].tiny_buffer = 1 .. Len(warp[w].tiny_buffer)
  <2>1. \A X : \A q \in Seq(X) : DOMAIN q = 1 .. Len(q)
    OBVIOUS
  <2>2. /\ global_large_worklist \in Seq(Maximals)
        /\ \A k \in Blocks : local_tiny_worklist[k] \in Seq(Tasks)
        /\ \A w \in Dividers : warp[w].tiny_buffer \in Seq(Tasks)
    BY <1>1 DEF Typed, WarpOK
  <2> QED BY <2>1, <2>2
<1>3. {o \in UnclaimedVertices : InSubtree(b, o[3])} = ByVertex(b)
  <2>1. \A o : o \in UnclaimedVertices
                 <=> \E v \in V : v < V_size - processing_vertex /\ o = <<"vertex", 0, <<v>> >>
    BY DEF UnclaimedVertices, V
  <2>2. \A o : o \in ByVertex(b)
                 <=> \E v \in V : /\ v < V_size - processing_vertex /\ InSubtree(b, <<v>>)
                                  /\ o = <<"vertex", 0, <<v>> >>
    BY DEF ByVertex
  <2>3. ASSUME NEW o, o \in UnclaimedVertices, InSubtree(b, o[3]) PROVE o \in ByVertex(b)
    <3>1. PICK v \in V : v < V_size - processing_vertex /\ o = <<"vertex", 0, <<v>> >>
      BY <2>1, <2>3
    <3>2. o[3] = <<v>>
      BY <3>1
    <3> QED BY <2>2, <2>3, <3>1, <3>2
  <2>4. ASSUME NEW o, o \in ByVertex(b) PROVE o \in UnclaimedVertices /\ InSubtree(b, o[3])
    <3>1. PICK v \in V : /\ v < V_size - processing_vertex /\ InSubtree(b, <<v>>)
                         /\ o = <<"vertex", 0, <<v>> >>
      BY <2>2, <2>4
    <3>2. o[3] = <<v>>
      BY <3>1
    <3> QED BY <2>1, <3>1, <3>2
  <2> QED BY <2>3, <2>4
<1>4. {o \in HeldTasks : InSubtree(b, o[3])} = ByHolder(b)
  BY DEF HeldTasks, ByHolder, Holds
<1>5. {o \in LargeTasks : InSubtree(b, o[3])} = ByLarge(b)
  BY <1>2, SMTT(30) DEF LargeTasks, ByLarge
<1>6. {o \in TinyTasks : InSubtree(b, o[3])} = ByTiny(b)
  BY <1>2, SMTT(30) DEF TinyTasks, ByTiny
<1>7. {o \in BufferedTasks : InSubtree(b, o[3])} = ByDivider(b)
  BY <1>2, SMTT(30) DEF BufferedTasks, ByDivider
<1> QED BY <1>3, <1>4, <1>5, <1>6, <1>7 DEF Outstanding

\* The one of a sequence that a count of one counts.
LEMMA CountOnly ==
  ASSUME NEW X, NEW q \in Seq(X), NEW S, CountIn(q, S) = 1
  PROVE  \E i \in 1 .. Len(q) : q[i] \in S /\ \A j \in 1 .. Len(q) : q[j] \in S => j = i
<1>1. PICK I : I = {i \in 1 .. Len(q) : q[i] \in S}
  OBVIOUS
<1>2. IsFiniteSet(I) /\ Cardinality(I) = 1
  BY <1>1, CountType DEF CountIn
<1>3. PICK i : I = {i}
  BY <1>2, FS_Singleton
<1>4. i \in 1 .. Len(q) /\ q[i] \in S
  BY <1>1, <1>3
<1>5. \A j \in 1 .. Len(q) : q[j] \in S => j = i
  BY <1>1, <1>3
<1> QED BY <1>4, <1>5

\* One vertex has it or none, as Unclaimed says.
LEMMA OneByVertex ==
  ASSUME Typed, NEW b \in All
  PROVE  /\ Unclaimed(b) = 0 => ByVertex(b) = {}
         /\ Unclaimed(b) = 1 => \E o : ByVertex(b) = {o}
<1>1. \A v \in V : InSubtree(b, <<v>>) <=> v = Min(b[2])
  BY RootHas DEF Typed
<1>2. PICK m : m = Min(b[2])
  OBVIOUS
<1>3. m \in V
  <2>1. b[2] # {} /\ b[2] \subseteq V /\ b[2] \subseteq Nat
    BY InAll, VNumbers DEF Typed
  <2> QED BY <1>2, <2>1, MinOfNats
<1>4. PICK o : o = <<"vertex", 0, <<m>> >>
  OBVIOUS
<1>5. CASE m < V_size - processing_vertex
  <2>1. ByVertex(b) = {o}
    BY <1>1, <1>2, <1>3, <1>4, <1>5 DEF ByVertex
  <2>2. Unclaimed(b) = 1
    BY <1>2, <1>5 DEF Unclaimed
  <2>3. Unclaimed(b) # 0
    BY <2>2
  <2> QED BY <2>1, <2>3
<1>6. CASE ~(m < V_size - processing_vertex)
  <2>1. ByVertex(b) = {}
    BY <1>1, <1>2, <1>3, <1>6 DEF ByVertex
  <2>2. Unclaimed(b) = 0
    BY <1>2, <1>6 DEF Unclaimed
  <2>3. Unclaimed(b) # 1
    BY <2>2
  <2> QED BY <2>1, <2>3
<1> QED BY <1>5, <1>6

\* One large task of the list has it or none, as LargeHas says.
LEMMA OneByLarge ==
  ASSUME Typed, Aside, NEW b \in All, b \notin found
  PROVE  /\ LargeHas(b) = 0 => ByLarge(b) = {}
         /\ LargeHas(b) = 1 => \E o : ByLarge(b) = {o}
<1>1. PICK q : q = global_large_worklist
  OBVIOUS
<1>2. q \in Seq(Maximals)
  BY <1>1 DEF Typed
<1>3. \A i \in 1 .. Len(q) : InSubtree(b, q[i]) <=> q[i] \in AsideOf(b)
  <2> SUFFICES ASSUME NEW i \in 1 .. Len(q)
               PROVE  InSubtree(b, q[i]) <=> q[i] \in AsideOf(b)
    OBVIOUS
  <2>1. q[i] \in Maximals
    BY <1>2
  <2>2. q[i] \in Seq(V) /\ Own(q[i]) # b
    BY <1>1, <2>1 DEF Aside, Maximals, Tasks
  <2> QED BY <2>2 DEF AsideOf
<1>4. ByLarge(b) = {<<"large", i, q[i]>> : i \in {j \in 1 .. Len(q) : q[j] \in AsideOf(b)}}
  BY <1>1, <1>3 DEF ByLarge
<1>5. LargeHas(b) = CountIn(q, AsideOf(b))
  BY <1>1 DEF LargeHas
<1>6. CASE LargeHas(b) = 0
  <2>1. \A i \in 1 .. Len(q) : q[i] \notin AsideOf(b)
    BY <1>2, <1>5, <1>6, CountType
  <2>2. ByLarge(b) = {}
    BY <1>4, <2>1
  <2> QED BY <1>6, <2>2
<1>7. CASE LargeHas(b) = 1
  <2>0. CountIn(q, AsideOf(b)) = 1
    BY <1>5, <1>7
  <2>1. PICK i \in 1 .. Len(q) : /\ q[i] \in AsideOf(b)
                                 /\ \A j \in 1 .. Len(q) : q[j] \in AsideOf(b) => j = i
    BY <1>2, <2>0, CountOnly
  <2>2. PICK o : o = <<"large", i, q[i]>>
    OBVIOUS
  <2>3. ByLarge(b) = {o}
    BY <1>4, <2>1, <2>2
  <2>4. LargeHas(b) # 0
    BY <1>7
  <2> QED BY <2>3, <2>4
<1> QED BY <1>6, <1>7

\* One tiny task of one block has it or none, as ListsHave says.
LEMMA OneByTiny ==
  ASSUME Typed, NEW b
  PROVE  /\ ListsHave(b) = 0 => ByTiny(b) = {}
         /\ ListsHave(b) = 1 => \E o : ByTiny(b) = {o}
<1>1. PICK q : q = local_tiny_worklist
  OBVIOUS
<1>2. \A k \in Blocks : q[k] \in Seq(Tasks)
  BY <1>1 DEF Typed
<1>3. \A k \in Blocks : \A i \in 1 .. Len(q[k]) : InSubtree(b, q[k][i]) <=> q[k][i] \in TasksOf(b)
  <2> SUFFICES ASSUME NEW k \in Blocks, NEW i \in 1 .. Len(q[k])
               PROVE  InSubtree(b, q[k][i]) <=> q[k][i] \in TasksOf(b)
    OBVIOUS
  <2>1. q[k][i] \in Tasks
    BY <1>2
  <2> QED BY <2>1 DEF Tasks, TasksOf
<1>4. PICK f : f = [k \in Blocks |-> CountIn(q[k], TasksOf(b))]
  OBVIOUS
<1>5. f \in [Blocks -> Nat] /\ ListsHave(b) = SumOf(f)
  BY <1>1, <1>2, <1>4, CountType DEF ListsHave
<1>6. \A k \in Blocks : f[k] = 0 => \A i \in 1 .. Len(q[k]) : ~InSubtree(b, q[k][i])
  BY <1>2, <1>3, <1>4, CountType
<1>7. CASE ListsHave(b) = 0
  <2>1. \A k \in Blocks : f[k] = 0
    BY <1>5, <1>7, SumZero, WarpsFinite
  <2>2. \A o \in ByTiny(b) : FALSE
    BY <1>1, <1>6, <2>1 DEF ByTiny
  <2> QED BY <1>7, <2>2
<1>8. CASE ListsHave(b) = 1
  <2>0. SumOf(f) = 1 /\ IsFiniteSet(Blocks)
    BY <1>5, <1>8, WarpsFinite
  <2>1. PICK k \in Blocks : f[k] = 1 /\ \A y \in Blocks \ {k} : f[y] = 0
    BY <1>5, <2>0, SumOne
  <2>2. CountIn(q[k], TasksOf(b)) = 1
    BY <1>4, <2>1
  <2>3. PICK i \in 1 .. Len(q[k]) :
          /\ q[k][i] \in TasksOf(b)
          /\ \A j \in 1 .. Len(q[k]) : q[k][j] \in TasksOf(b) => j = i
    BY <1>2, <2>2, CountOnly
  <2>4. PICK o : o = <<"tiny", <<k, i>>, q[k][i]>>
    OBVIOUS
  <2>5. o \in ByTiny(b)
    BY <1>1, <1>3, <2>3, <2>4 DEF ByTiny
  <2>6. \A p \in ByTiny(b) : p = o
    <3> SUFFICES ASSUME NEW p \in ByTiny(b) PROVE p = o
      OBVIOUS
    <3>0. PICK y \in Blocks : \E j \in 1 .. Len(q[y]) :
            InSubtree(b, q[y][j]) /\ p = <<"tiny", <<y, j>>, q[y][j]>>
      BY <1>1 DEF ByTiny
    <3>1. PICK j \in 1 .. Len(q[y]) :
            InSubtree(b, q[y][j]) /\ p = <<"tiny", <<y, j>>, q[y][j]>>
      BY <3>0
    <3>2. y = k
      BY <1>6, <2>1, <3>1
    <3>3. j = i
      BY <1>3, <2>3, <3>1, <3>2
    <3>4. p = <<"tiny", <<k, i>>, q[k][i]>>
      BY <3>1, <3>2, <3>3, Zenon
    <3> QED BY <2>4, <3>4
  <2>7. ByTiny(b) = {o}
    BY <2>5, <2>6
  <2>8. ListsHave(b) # 0
    BY <1>8
  <2> QED BY <2>7, <2>8
<1> QED BY <1>7, <1>8

\* One warp has it, in its hands or in its buffer, or none does, as SumBrings says.
LEMMA OneByWarp ==
  ASSUME Typed, Aside, NEW b \in All, b \notin found
  PROVE  /\ SumBrings(b) = 0 => ByHolder(b) \cup ByDivider(b) = {}
         /\ SumBrings(b) = 1 => \E o : ByHolder(b) \cup ByDivider(b) = {o}
<1>1. \A x \in Warps : warp[x] \in States /\ WarpOK(warp[x])
  BY DEF Typed
<1>2. ASSUME NEW x \in Warps, Holds(warp[x])
      PROVE  /\ warp[x].tiny_buffer = <<>>
             /\ Brings(b, warp[x]) = IF InSubtree(b, warp[x].tt) THEN 1 ELSE 0
  <2>1. warp[x].tiny_buffer = <<>>
    BY <1>1, <1>2 DEF WarpOK, Holds
  <2>2. warp[x].tt \in Seq(V)
    BY <1>1 DEF States
  <2>3. CASE warp[x].at \in {"claimed", "task"}
    BY <2>1, <2>2, <2>3 DEF Brings, TasksOf
  <2>4. CASE warp[x].at = "push"
    <3>1. Own(warp[x].tt) # b
      BY <2>4 DEF Aside
    <3> QED BY <2>1, <2>2, <2>4, <3>1 DEF Brings, AsideOf
  <2> QED BY <1>2, <2>3, <2>4 DEF Holds
<1>3. ASSUME NEW x \in Warps, ~Holds(warp[x])
      PROVE  /\ warp[x].tiny_buffer \in Seq(Tasks)
             /\ Brings(b, warp[x]) = CountIn(warp[x].tiny_buffer, TasksOf(b))
             /\ \A i \in 1 .. Len(warp[x].tiny_buffer) :
                  InSubtree(b, warp[x].tiny_buffer[i])
                    <=> warp[x].tiny_buffer[i] \in TasksOf(b)
  <2>1. warp[x].tiny_buffer \in Seq(Tasks)
    BY <1>1 DEF WarpOK
  <2>2. Brings(b, warp[x]) = CountIn(warp[x].tiny_buffer, TasksOf(b))
    BY <1>3 DEF Brings, Holds
  <2>3. \A i \in 1 .. Len(warp[x].tiny_buffer) : warp[x].tiny_buffer[i] \in Tasks
    BY <2>1
  <2> QED BY <2>1, <2>2, <2>3 DEF Tasks, TasksOf
<1>4. \A w \in Dividers : w \in Warps
  <2>1. 0 \in 0 .. Consumers
    BY KernelAssumption
  <2> QED BY <2>1 DEF Dividers, Warps
<1>5. ASSUME NEW x \in Warps, Brings(b, warp[x]) = 0
      PROVE  /\ Holds(warp[x]) => ~InSubtree(b, warp[x].tt)
             /\ \A i \in 1 .. Len(warp[x].tiny_buffer) :
                  ~InSubtree(b, warp[x].tiny_buffer[i])
  <2>1. CASE Holds(warp[x])
    <3>1. warp[x].tiny_buffer = <<>> /\ ~InSubtree(b, warp[x].tt)
      BY <1>2, <1>5, <2>1
    <3> QED BY <3>1
  <2>2. CASE ~Holds(warp[x])
    BY <1>3, <1>5, <2>2, CountType
  <2> QED BY <2>1, <2>2
<1>6. PICK f : f = [x \in Warps |-> Brings(b, warp[x])]
  OBVIOUS
<1>7. f \in [Warps -> Nat] /\ SumBrings(b) = SumOf(f)
  BY <1>1, <1>6, SharesType DEF SumBrings
<1>8. CASE SumBrings(b) = 0
  <2>1. \A x \in Warps : f[x] = 0
    BY <1>7, <1>8, SumZero, WarpsFinite
  <2>2. \A x \in Warps : Brings(b, warp[x]) = 0
    BY <1>6, <2>1
  <2>3. ByHolder(b) = {}
    BY <1>5, <2>2 DEF ByHolder
  <2>4. \A o \in ByDivider(b) : FALSE
    BY <1>4, <1>5, <2>2 DEF ByDivider
  <2> QED BY <1>8, <2>3, <2>4
<1>9. CASE SumBrings(b) = 1
  <2>0. SumOf(f) = 1 /\ IsFiniteSet(Warps)
    BY <1>7, <1>9, WarpsFinite
  <2>1. PICK x \in Warps : f[x] = 1 /\ \A y \in Warps \ {x} : f[y] = 0
    BY <1>7, <2>0, SumOne
  <2>2. Brings(b, warp[x]) = 1 /\ \A y \in Warps \ {x} : Brings(b, warp[y]) = 0
    BY <1>6, <2>1
  <2>3. \A p \in ByHolder(b) :
          p = <<"held", x, warp[x].tt>> /\ Holds(warp[x]) /\ InSubtree(b, warp[x].tt)
    BY <1>5, <2>2 DEF ByHolder
  <2>4. \A p \in ByDivider(b) : \E i \in 1 .. Len(warp[x].tiny_buffer) :
          /\ InSubtree(b, warp[x].tiny_buffer[i])
          /\ p = <<"buffer", <<x, i>>, warp[x].tiny_buffer[i]>>
    <3> SUFFICES ASSUME NEW p \in ByDivider(b)
                 PROVE  \E i \in 1 .. Len(warp[x].tiny_buffer) :
                          /\ InSubtree(b, warp[x].tiny_buffer[i])
                          /\ p = <<"buffer", <<x, i>>, warp[x].tiny_buffer[i]>>
      OBVIOUS
    <3>0. PICK y \in Dividers : \E i \in 1 .. Len(warp[y].tiny_buffer) :
            /\ InSubtree(b, warp[y].tiny_buffer[i])
            /\ p = <<"buffer", <<y, i>>, warp[y].tiny_buffer[i]>>
      BY DEF ByDivider
    <3>1. PICK i \in 1 .. Len(warp[y].tiny_buffer) :
            /\ InSubtree(b, warp[y].tiny_buffer[i])
            /\ p = <<"buffer", <<y, i>>, warp[y].tiny_buffer[i]>>
      BY <3>0
    <3>2. y = x
      BY <1>4, <1>5, <2>2, <3>1
    <3> QED BY <3>1, <3>2
  <2>5. CASE Holds(warp[x])
    <3>1. warp[x].tiny_buffer = <<>> /\ InSubtree(b, warp[x].tt)
      BY <1>2, <2>2, <2>5
    <3>2. ByDivider(b) = {}
      BY <2>4, <3>1
    <3>3. PICK o : o = <<"held", x, warp[x].tt>>
      OBVIOUS
    <3>4. o \in ByHolder(b)
      BY <2>5, <3>1, <3>3 DEF ByHolder
    <3>5. \A p \in ByHolder(b) : p = o
      BY <2>3, <3>3
    <3> QED BY <1>9, <3>2, <3>4, <3>5
  <2>6. CASE ~Holds(warp[x])
    <3>1. PICK q : q = warp[x].tiny_buffer
      OBVIOUS
    <3>2. q \in Seq(Tasks) /\ CountIn(q, TasksOf(b)) = 1
      BY <1>3, <2>2, <2>6, <3>1
    <3>3. PICK i \in 1 .. Len(q) :
            /\ q[i] \in TasksOf(b)
            /\ \A j \in 1 .. Len(q) : q[j] \in TasksOf(b) => j = i
      BY <3>2, CountOnly
    <3>4. \A j \in 1 .. Len(q) : InSubtree(b, q[j]) <=> j = i
      BY <1>3, <2>6, <3>1, <3>3
    <3>5. x \in Dividers
      <4>1. q # <<>>
        BY <3>2, CountEmpty
      <4>2. warp[x].at \in {"divided", "hand"}
        BY <1>1, <3>1, <4>1 DEF WarpOK
      <4> QED BY <4>2 DEF Aside, ConsumerWarps
    <3>6. PICK o : o = <<"buffer", <<x, i>>, q[i]>>
      OBVIOUS
    <3>7. o \in ByDivider(b)
      BY <3>1, <3>3, <3>4, <3>5, <3>6 DEF ByDivider
    <3>8. \A p \in ByDivider(b) : p = o
      BY <2>4, <3>1, <3>4, <3>6
    <3>9. ByHolder(b) = {}
      BY <2>3, <2>6
    <3> QED BY <1>9, <3>7, <3>8, <3>9
  <2> QED BY <2>5, <2>6
<1> QED BY <1>8, <1>9

\* A biclique that is not counted has one of all these.
LEMMA OneOutstanding ==
  ASSUME KInv, Aside, NEW b \in All, b \notin found
  PROVE  Cardinality({o \in Outstanding : InSubtree(b, o[3])}) = 1
<1>1. Typed /\ Waiting(b) + SumBrings(b) + Counted(b) = 1
  BY DEF KInv, Shared
<1>2. /\ Unclaimed(b) \in Nat /\ LargeHas(b) \in Nat /\ ListsHave(b) \in Nat
      /\ SumBrings(b) \in Nat
  <2>1. PICK f : f = [x \in Warps |-> Brings(b, warp[x])]
    OBVIOUS
  <2>2. f \in [Warps -> Nat]
    BY <1>1, <2>1, SharesType DEF Typed
  <2>3. SumOf(f) \in Nat
    BY <2>2, WarpsFinite, AllTokens
  <2> QED BY <1>1, <2>1, <2>3, WaitingType DEF SumBrings
<1>3. Counted(b) = 0
  BY DEF Counted
<1>4. PICK u, l, t, s : u = Unclaimed(b) /\ l = LargeHas(b) /\ t = ListsHave(b)
                        /\ s = SumBrings(b)
  OBVIOUS
<1>5. \/ u = 1 /\ l = 0 /\ t = 0 /\ s = 0
      \/ u = 0 /\ l = 1 /\ t = 0 /\ s = 0
      \/ u = 0 /\ l = 0 /\ t = 1 /\ s = 0
      \/ u = 0 /\ l = 0 /\ t = 0 /\ s = 1
  <2>1. u \in Nat /\ l \in Nat /\ t \in Nat /\ s \in Nat /\ u + l + t + s = 1
    BY <1>1, <1>2, <1>3, <1>4 DEF Waiting
  <2> QED BY ONLY <2>1
<1>6. PICK O : O = {o \in Outstanding : InSubtree(b, o[3])}
  OBVIOUS
<1>7. O = ByVertex(b) \cup ByLarge(b) \cup ByTiny(b) \cup (ByHolder(b) \cup ByDivider(b))
  BY <1>1, <1>6, OutstandingParts
<1>8. /\ u = 0 => ByVertex(b) = {}
      /\ u = 1 => \E o : ByVertex(b) = {o}
      /\ l = 0 => ByLarge(b) = {}
      /\ l = 1 => \E o : ByLarge(b) = {o}
      /\ t = 0 => ByTiny(b) = {}
      /\ t = 1 => \E o : ByTiny(b) = {o}
      /\ s = 0 => ByHolder(b) \cup ByDivider(b) = {}
      /\ s = 1 => \E o : ByHolder(b) \cup ByDivider(b) = {o}
  BY <1>1, <1>4, OneByVertex, OneByLarge, OneByTiny, OneByWarp
<1>9. \E o : O = {o}
  BY <1>5, <1>7, <1>8
<1> QED BY <1>6, <1>9, FS_Singleton

\* So NothingLost follows from the two invariants.
LEMMA NothingLostNow == ASSUME KInv, Aside PROVE NothingLost
<1>1. wanted = All /\ maximal_bicliques = Cardinality(found)
  BY DEF KInv, Typed
<1> QED BY <1>1, OneOutstanding DEF NothingLost

\* No biclique is lost on the way between the lists, and none is with two warps that
\* will count it: one that is not counted is in the subtree of exactly one outstanding
\* task, and maximal_bicliques is the number of those that are, whatever the sizes of
\* the lists, so also when a consumer does a task it wanted to put aside and a divider
\* hands out its tasks a few at a time.
THEOREM NothingIsLost == KernelSpec => []NothingLost
<1>1. KInv /\ Aside => NothingLost
  BY NothingLostNow
<1> QED BY <1>1, KernelInvariant, AsideCounted, PTL

----------------------------------------------------------------------------
(* Tasks share out the bicliques.                                          *)

\* Each biclique is in the subtree of exactly one root.
LEMMA RootsShare ==
  ASSUME KernelGraph, NEW b \in All
  PROVE  Cardinality({p \in Roots : InSubtree(b, p)}) = 1
<1>1. PICK m : m = Min(b[2])
  OBVIOUS
<1>2. m \in V
  <2>1. b[2] # {} /\ b[2] \subseteq V /\ b[2] \subseteq Nat
    BY InAll, VNumbers
  <2> QED BY <1>1, <2>1, MinOfNats
<1>3. \A v \in V : InSubtree(b, <<v>>) <=> v = m
  BY <1>1, RootHas
<1>4. PICK P : P = {p \in Roots : InSubtree(b, p)}
  OBVIOUS
<1>5. <<m>> \in P
  BY <1>2, <1>3, <1>4 DEF Roots, V
<1>6. \A p \in P : p = <<m>>
  BY <1>3, <1>4 DEF Roots, V
<1>7. P = {<<m>>}
  BY <1>5, <1>6
<1> QED BY <1>4, <1>7, FS_Singleton

\* A biclique of a maximal task is its own or in the subtree of one of its children.
LEMMA ChildrenShare ==
  ASSUME KernelGraph, NEW b \in All, NEW p, IsTask(p), IsMaximal(p)
  PROVE  Cardinality({q \in LargeToTiny(p) : InSubtree(b, q)})
             + (IF b = Own(p) THEN 1 ELSE 0)
           = IF InSubtree(b, p) THEN 1 ELSE 0
<1>1. p \in Seq(V) /\ Len(p) > 0 /\ InSubtree(Own(p), p)
  BY DEF IsTask
<1>2. PICK Q : Q = {q \in LargeToTiny(p) : InSubtree(b, q)}
  OBVIOUS
<1>3. \A q \in Q : \E c \in Later(p) : q = Append(p, c) /\ InSubtree(b, Append(p, c))
  BY <1>2 DEF LargeToTiny
<1>4. CASE InSubtree(b, p) /\ b # Own(p)
  <2>1. PICK c \in Later(p) : InSubtree(b, Append(p, c))
    BY <1>1, <1>4, ChildrenHave
  <2>2. PICK o : o = Append(p, c)
    OBVIOUS
  <2>3. o \in Q
    BY <1>2, <2>1, <2>2 DEF LargeToTiny
  <2>4. \A q \in Q : q = o
    <3> SUFFICES ASSUME NEW q \in Q PROVE q = o
      OBVIOUS
    <3>1. PICK d \in Later(p) : q = Append(p, d) /\ InSubtree(b, Append(p, d))
      BY <1>3
    <3>2. c = d
      BY <1>1, <2>1, <3>1, ChildrenHave
    <3> QED BY <2>2, <3>1, <3>2
  <2>5. Q = {o}
    BY <2>3, <2>4
  <2>6. Cardinality(Q) = 1
    BY <2>5, FS_Singleton
  <2> QED BY <1>2, <1>4, <2>6
<1>5. CASE ~InSubtree(b, p) \/ b = Own(p)
  <2>1. \A q \in Q : FALSE
    <3> SUFFICES ASSUME NEW q \in Q PROVE FALSE
      OBVIOUS
    <3>1. PICK d \in Later(p) : q = Append(p, d) /\ InSubtree(b, Append(p, d))
      BY <1>3
    <3> QED BY <1>1, <1>5, <3>1, ChildrenHave
  <2>2. Q = {}
    BY <2>1
  <2>3. Cardinality(Q) = 0
    BY <2>2, FS_EmptySet
  <2> QED BY <1>1, <1>2, <1>5, <2>3
<1> QED BY <1>4, <1>5

\* What the maximal tasks of S with more than one vertex of U are divided into.
DividedOf(S) ==
  UNION {LargeToTiny(p) : p \in {q \in S : IsMaximal(q) /\ Cardinality(LVertices(q)) > 1}}

\* The tasks of each length are made of those of the length before.
LEMMA LengthByLength ==
  TasksOfLength = [k \in 1 .. MaxPath |->
                     IF k = 1 THEN Roots ELSE DividedOf(TasksOfLength[k - 1])]
<1> DEFINE two == DividedOf(Roots)
           three == DividedOf(two)
           four == DividedOf(three)
           g == [k \in 1 .. 4 |->
                   IF k = 1 THEN Roots ELSE IF k = 2 THEN two
                   ELSE IF k = 3 THEN three ELSE four]
           Fits(f) == f = [k \in 1 .. 4 |-> IF k = 1 THEN Roots ELSE DividedOf(f[k - 1])]
<1>1. Fits(g)
  <2>1. g[1] = Roots /\ g[2] = two /\ g[3] = three /\ g[4] = four
    OBVIOUS
  <2>2. \A k \in 1 .. 4 : k = 1 \/ k = 2 \/ k = 3 \/ k = 4
    OBVIOUS
  <2>3. \A k \in 1 .. 4 : g[k] = IF k = 1 THEN Roots ELSE DividedOf(g[k - 1])
    <3> SUFFICES ASSUME NEW k \in 1 .. 4
                 PROVE  g[k] = IF k = 1 THEN Roots ELSE DividedOf(g[k - 1])
      OBVIOUS
    <3> HIDE DEF g
    <3>1. CASE k = 1 BY <3>1, <2>1
    <3>2. CASE k = 2 BY <3>2, <2>1
    <3>3. CASE k = 3 BY <3>3, <2>1
    <3>4. CASE k = 4 BY <3>4, <2>1
    <3> QED BY <2>2, <3>1, <3>2, <3>3, <3>4
  <2>4. DOMAIN g = 1 .. 4
    OBVIOUS
  <2>5. g = [k \in 1 .. 4 |-> g[k]]
    OBVIOUS
  <2> HIDE DEF g
  <2> QED BY <2>3, <2>5
<1>2. TasksOfLength = CHOOSE f : Fits(f)
  BY DEF TasksOfLength, DividedOf, MaxPath
<1>3. \E f : Fits(f)
  BY <1>1
<1> HIDE DEF Fits
<1>4. Fits(TasksOfLength)
  BY <1>2, <1>3
<1> USE DEF Fits
<1> QED BY <1>4 DEF MaxPath

\* IsTask holds of all tasks that come up: of the roots, and of what maximal tasks
\* are divided into.
LEMMA AllAreTasks ==
  ASSUME KernelGraph, NEW k \in 1 .. MaxPath, NEW p \in TasksOfLength[k]
  PROVE  IsTask(p)
<1> DEFINE AreTasks(S) == \A q \in S : IsTask(q)
<1>1. AreTasks(TasksOfLength[1])
  BY LengthByLength, RootIsTask DEF Roots, V, MaxPath
<1>2. ASSUME NEW S, AreTasks(S) PROVE AreTasks(DividedOf(S))
  <2> SUFFICES ASSUME NEW q \in DividedOf(S) PROVE IsTask(q)
    OBVIOUS
  <2>1. PICK o \in S : IsMaximal(o) /\ q \in LargeToTiny(o)
    BY DEF DividedOf
  <2>2. PICK c \in Later(o) : q = Append(o, c)
    BY <2>1 DEF LargeToTiny
  <2>3. IsTask(o)
    BY <1>2
  <2>4. IsTask(Append(o, c))
    BY <2>1, <2>3, ChildIsTask
  <2> QED BY <2>2, <2>4
<1>3. \A n \in 2 .. 4 : TasksOfLength[n] = DividedOf(TasksOfLength[n - 1])
  BY LengthByLength DEF MaxPath
<1> HIDE DEF AreTasks
<1>4. AreTasks(TasksOfLength[2])
  BY <1>1, <1>2, <1>3
<1>5. AreTasks(TasksOfLength[3])
  BY <1>4, <1>2, <1>3
<1>6. AreTasks(TasksOfLength[4])
  BY <1>5, <1>2, <1>3
<1>7. k = 1 \/ k = 2 \/ k = 3 \/ k = 4
  BY DEF MaxPath
<1>8. AreTasks(TasksOfLength[k])
  BY <1>1, <1>4, <1>5, <1>6, <1>7
<1> QED BY <1>8 DEF AreTasks

\* TasksShareOut says nothing of the kernel's state: it holds of every graph.
LEMMA TasksShareNow ==
  ASSUME KernelGraph
  PROVE  TasksShareOut
<1>1. ASSUME NEW b \in All
      PROVE  Cardinality({p \in Roots : InSubtree(b, p)}) = 1
  BY <1>1, RootsShare
<1>2. ASSUME NEW b \in All, NEW k \in 1 .. MaxPath, NEW p \in TasksOfLength[k],
             ~IsMaximal(p)
      PROVE  ~InSubtree(b, p)
  <2>1. IsTask(p)
    BY <1>2, AllAreTasks
  <2>2. p \in Seq(V) /\ Len(p) > 0
    BY <2>1 DEF IsTask
  <2> QED BY <1>2, <2>1, <2>2, NothingBelow
<1>3. ASSUME NEW b \in All, NEW k \in 1 .. MaxPath, NEW p \in TasksOfLength[k],
             IsMaximal(p)
      PROVE  Cardinality({q \in LargeToTiny(p) : InSubtree(b, q)})
                 + (IF b = Own(p) THEN 1 ELSE 0)
               = (IF InSubtree(b, p) THEN 1 ELSE 0)
  <2>1. IsTask(p)
    BY <1>3, AllAreTasks
  <2> QED BY <1>3, <2>1, ChildrenShare
<1> QED BY <1>1, <1>2, <1>3 DEF TasksShareOut, All

\* The roots share out all maximal bicliques, a task that is not maximal stands for
\* none, and a maximal task's own biclique and the children LargeToTiny gives share
\* out its subtree: each biclique is with exactly one of them, however the kernel's
\* warps come by the task.
THEOREM TasksShare == KernelSpec => []TasksShareOut
<1>1. KInv => TasksShareOut
  BY TasksShareNow DEF KInv, Typed
<1> QED BY <1>1, KernelInvariant, PTL
=============================================================================
