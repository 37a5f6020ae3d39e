--------------------------- MODULE BicliquesProofs ---------------------------
(***************************************************************************)
(* Lemmas about the operators of Bicliques, the order of an enumeration of *)
(* maximal bicliques, and what becomes of them when a graph is pruned and  *)
(* renumbered, for any graph.                                              *)
(***************************************************************************)
EXTENDS Bicliques, SequencesExt, FiniteSetTheorems, FunctionTheorems,
        SequenceTheorems, TLAPS

----------------------------------------------------------------------------
(* The least and the greatest of a set of numbers.                         *)

\* A non-empty set of natural numbers has a least element, and Min is it.
LEMMA MinOfNats ==
  ASSUME NEW S, S \subseteq Nat, S # {}
  PROVE  Min(S) \in S /\ \A y \in S : Min(S) <= y
<1> DEFINE below == OpToRel(<, Nat)
<1>1. PICK x \in S : \A y \in S : ~(<<y, x>> \in below)
  <2> HIDE DEF below
  <2> QED BY NatLessThanWellFounded, WFMin DEF below
<1>2. \A y \in S : <<y, x>> \in below <=> y < x
  BY DEF OpToRel
<1>3. \A y \in S : ~(y < x) /\ y \in Nat /\ x \in Nat
  <2> HIDE DEF below
  <2> QED BY <1>1, <1>2
<1>4. \A y \in S : x <= y
  BY <1>3
<1> QED BY <1>4 DEF Min

\* A non-empty finite set of natural numbers has a greatest element: the one
\* with the fewest above it.  Max is it.
LEMMA MaxOfNats ==
  ASSUME NEW S, S \subseteq Nat, IsFiniteSet(S), S # {}
  PROVE  Max(S) \in S /\ \A y \in S : y <= Max(S)
<1> DEFINE Above(x) == {y \in S : y > x}
           A == {Cardinality(Above(x)) : x \in S}
<1>0. \A x \in S : x \in Nat
  OBVIOUS
<1>1. \A x \in S : IsFiniteSet(Above(x)) /\ Cardinality(Above(x)) \in Nat
  BY FS_Subset, FS_CardinalityType
<1>2. A \subseteq Nat /\ A # {}
  BY <1>1
<1>3. Min(A) \in A /\ \A y \in A : Min(A) <= y
  <2> HIDE DEF A
  <2> QED BY <1>2, MinOfNats
<1>4. PICK x \in S : Cardinality(Above(x)) = Min(A)
  BY <1>3
<1>5. \A y \in S : y <= x
  <2> SUFFICES ASSUME NEW y \in S, y > x PROVE FALSE
    BY <1>0
  <2>0. \A z \in S : z > y => z > x
    BY <1>0
  <2>a. Above(y) \subseteq Above(x)
    BY <2>0
  <2>b. y \in Above(x)
    OBVIOUS
  <2>c. y \notin Above(y)
    BY <1>0
  <2>1. Above(y) \subseteq Above(x) /\ y \in Above(x) /\ y \notin Above(y)
    BY <2>a, <2>b, <2>c
  <2>2. Cardinality(Above(y)) <= Cardinality(Above(x))
        /\ Cardinality(Above(y)) # Cardinality(Above(x))
    <3> HIDE DEF Above
    <3> QED BY <1>1, <2>1, FS_Subset
  <2>3. Min(A) <= Cardinality(Above(y))
    BY <1>3
  <2> HIDE DEF A, Above
  <2> QED BY <1>1, <1>4, <2>2, <2>3
<1> QED BY <1>0, <1>5 DEF Max

----------------------------------------------------------------------------
(* SortedBy.                                                               *)

\* The numbers below n.
LEMMA Interval ==
  ASSUME NEW n \in Nat
  PROVE  IsFiniteSet(0 .. n - 1) /\ Cardinality(0 .. n - 1) = n
BY FS_Interval

\* A function on the numbers up to n is a sequence.
LEMMA IsSequence ==
  ASSUME NEW S, NEW n \in Nat, NEW s \in [1 .. n -> S]
  PROVE  s \in Seq(S) /\ Len(s) = n
<1>1. s \in Seq(S)
  OBVIOUS
<1>2. DOMAIN s = 1 .. n
  OBVIOUS
<1> QED BY <1>1, <1>2, LenProperties

\* The sequence s lists the elements of S, each once.
Lists(s, S) ==
  /\ s \in Seq(S) /\ Len(s) = Cardinality(S)
  /\ \A x \in S : \E i \in 1 .. Len(s) : s[i] = x
  /\ \A i, j \in 1 .. Len(s) : s[i] = s[j] => i = j

\* The elements of s stand in the order lt.
Ascending(s, lt) == \A i, j \in 1 .. Len(s) : i < j => <<s[i], s[j]>> \in lt

\* If s has at each place i the element of the finite set S with i - 1 others
\* before it, in a strict total order lt, then s lists S in that order.
LEMMA InOrder ==
  ASSUME NEW S, IsFiniteSet(S), NEW lt,
         \A x \in S : <<x, x>> \notin lt,
         \A x, y \in S : x # y => <<x, y>> \in lt \/ <<y, x>> \in lt,
         \A x, y, z \in S : <<x, y>> \in lt /\ <<y, z>> \in lt => <<x, z>> \in lt,
         NEW n, n = Cardinality(S), NEW s, s = [i \in 1 .. n |-> s[i]],
         \A i \in 1 .. n :
           (\E x \in S : Cardinality({y \in S : <<y, x>> \in lt}) = i - 1)
             => /\ s[i] \in S
                /\ Cardinality({y \in S : <<y, s[i]>> \in lt}) = i - 1
  PROVE  Lists(s, S) /\ Ascending(s, lt)
<1> DEFINE Below(x) == {y \in S : <<y, x>> \in lt}
           rank == [x \in S |-> Cardinality(Below(x))]
<1>0. n \in Nat
  BY FS_CardinalityType
<1>1. \A x \in S : /\ IsFiniteSet(Below(x)) /\ Cardinality(Below(x)) \in Nat
                   /\ Cardinality(Below(x)) < n
  <2> SUFFICES ASSUME NEW x \in S
               PROVE  /\ IsFiniteSet(Below(x)) /\ Cardinality(Below(x)) \in Nat
                      /\ Cardinality(Below(x)) < n
    OBVIOUS
  <2>1. Below(x) \subseteq S /\ Below(x) # S
    OBVIOUS
  <2> HIDE DEF Below
  <2>2. IsFiniteSet(Below(x)) /\ Cardinality(Below(x)) \in Nat
        /\ Cardinality(Below(x)) <= n /\ Cardinality(Below(x)) # n
    BY <2>1, FS_Subset, FS_CardinalityType
  <2> QED BY <1>0, <2>2
<1>2. \A x, y \in S : <<x, y>> \in lt => Cardinality(Below(x)) < Cardinality(Below(y))
  <2> SUFFICES ASSUME NEW x \in S, NEW y \in S, <<x, y>> \in lt
               PROVE  Cardinality(Below(x)) < Cardinality(Below(y))
    OBVIOUS
  <2>1. Below(x) \subseteq Below(y) /\ x \in Below(y) /\ x \notin Below(x)
    OBVIOUS
  <2> HIDE DEF Below
  <2>2. Cardinality(Below(x)) <= Cardinality(Below(y))
        /\ Cardinality(Below(x)) # Cardinality(Below(y))
    BY <1>1, <2>1, FS_Subset
  <2> QED BY <1>1, <2>2
<1>3. \A i \in 1 .. n : (\E x \in S : Cardinality(Below(x)) = i - 1)
                        => s[i] \in S /\ Cardinality(Below(s[i])) = i - 1
  OBVIOUS
<1> HIDE DEF Below
<1>4. rank \in [S -> 0 .. n - 1]
  BY <1>0, <1>1
<1>5. \A x, y \in S : <<x, y>> \in lt => rank[x] < rank[y]
  BY <1>2
<1>6. \A x \in S : rank[x] = Cardinality(Below(x))
  OBVIOUS
<1> HIDE DEF rank
<1>7. \A x, y \in S : rank[x] = rank[y] => x = y
  <2> SUFFICES ASSUME NEW x \in S, NEW y \in S, rank[x] = rank[y], x # y
               PROVE  FALSE
    OBVIOUS
  <2>1. rank[x] < rank[y] \/ rank[y] < rank[x]
    BY <1>5
  <2>2. rank[x] \in Int /\ rank[y] \in Int
    BY <1>4
  <2> QED BY <2>1, <2>2
<1>8. IsFiniteSet(0 .. n - 1) /\ Cardinality(0 .. n - 1) = n
  BY <1>0, Interval
<1>9. rank \in Injection(S, 0 .. n - 1)
  BY <1>4, <1>7, Fun_IsInj
<1>10. rank \in Surjection(S, 0 .. n - 1)
  BY <1>8, <1>9, FS_Injection
<1>a. \A k \in 0 .. n - 1 : \E x \in S : rank[x] = k
  BY <1>10 DEF Surjection
<1>11. \A i \in 1 .. n : s[i] \in S /\ rank[s[i]] = i - 1
  <2> TAKE i \in 1 .. n
  <2>0. i - 1 \in 0 .. n - 1
    BY <1>0
  <2>1. \E x \in S : rank[x] = i - 1
    BY <1>a, <2>0
  <2>2. \E x \in S : Cardinality(Below(x)) = i - 1
    BY <1>6, <2>1
  <2>3. s[i] \in S /\ Cardinality(Below(s[i])) = i - 1
    BY <1>3, <2>2
  <2> QED BY <1>6, <2>3
<1>12. \A x \in S : \E i \in 1 .. n : s[i] = x
  <2> TAKE x \in S
  <2>1. rank[x] + 1 \in 1 .. n /\ (rank[x] + 1) - 1 = rank[x]
    BY <1>0, <1>4
  <2>2. s[rank[x] + 1] \in S /\ rank[s[rank[x] + 1]] = rank[x]
    BY <1>11, <2>1
  <2>3. s[rank[x] + 1] = x
    BY <1>7, <2>2
  <2> QED BY <2>1, <2>3
<1>13. \A i, j \in 1 .. n : i < j => <<s[i], s[j]>> \in lt
  <2> SUFFICES ASSUME NEW i \in 1 .. n, NEW j \in 1 .. n, i < j
               PROVE  <<s[i], s[j]>> \in lt
    OBVIOUS
  <2>1. i \in Int /\ j \in Int
    BY <1>0
  <2>2. s[i] \in S /\ s[j] \in S /\ rank[s[i]] = i - 1 /\ rank[s[j]] = j - 1
    BY <1>11
  <2>3. s[i] # s[j] /\ ~(rank[s[j]] < rank[s[i]])
    BY <2>1, <2>2
  <2> QED BY <1>5, <2>2, <2>3
<1>14. s = [i \in 1 .. n |-> s[i]]
  OBVIOUS
<1>15. s \in [1 .. n -> S]
  BY <1>11, <1>14
<1>16. s \in Seq(S) /\ Len(s) = n
  BY <1>0, <1>15, IsSequence
<1>17. \A i, j \in 1 .. n : s[i] = s[j] => i = j
  <2> SUFFICES ASSUME NEW i \in 1 .. n, NEW j \in 1 .. n, s[i] = s[j]
               PROVE  i = j
    OBVIOUS
  <2>1. i \in Int /\ j \in Int
    BY <1>0
  <2>2. i - 1 = j - 1
    BY <1>11
  <2> QED BY <2>1, <2>2
<1> QED BY <1>12, <1>13, <1>16, <1>17 DEF Lists, Ascending

----------------------------------------------------------------------------
(* Closed sets: the L sides of maximal bicliques.                          *)

\* The adjacency lists are finite.
FiniteLists(G) == \A r \in DOMAIN G : IsFiniteSet(G[r])

\* T is all that is adjacent to all that is adjacent to T.
Closed(G, T) ==
  T # {} /\ CommonR(G, T) # {} /\ CommonL(G, CommonR(G, T)) = T

\* L and R are the sides of a maximal biclique.
Node(G, L, R) == Closed(G, L) /\ R = CommonR(G, L)

\* CommonL of a non-empty set, element by element.
LEMMA InCommonL ==
  ASSUME NEW G, NEW S, S # {}, NEW l
  PROVE  l \in CommonL(G, S) <=> \A r \in S : l \in G[r]
BY DEF CommonL

\* CommonR, element by element.
LEMMA InCommonR ==
  ASSUME NEW G, NEW T, NEW r
  PROVE  r \in CommonR(G, T) <=> r \in DOMAIN G /\ T \subseteq G[r]
BY DEF CommonR

\* CommonL of any non-empty set of vertices is closed, if there is any.
LEMMA CommonLClosed ==
  ASSUME NEW G, NEW S, S \subseteq DOMAIN G, S # {}, CommonL(G, S) # {}
  PROVE  Closed(G, CommonL(G, S))
<1> DEFINE T == CommonL(G, S)
<1>1. \A l : l \in T <=> \A r \in S : l \in G[r]
  BY InCommonL
<1> HIDE DEF T
<1>2. \A r : r \in CommonR(G, T) <=> r \in DOMAIN G /\ T \subseteq G[r]
  BY InCommonR
<1>3. S \subseteq CommonR(G, T)
  BY <1>1, <1>2
<1>4. \A l : l \in CommonL(G, CommonR(G, T))
               <=> \A r \in CommonR(G, T) : l \in G[r]
  BY <1>3, InCommonL
<1>5. CommonL(G, CommonR(G, T)) = T
  BY <1>1, <1>2, <1>3, <1>4
<1> QED BY <1>3, <1>5 DEF Closed, T

\* MaximalBicliques is made of the closed sets above the thresholds.
LEMMA InMaximalBicliques ==
  ASSUME NEW G, NEW min_l, NEW min_r, NEW b
  PROVE  b \in MaximalBicliques(G, min_l, min_r)
           <=> \E T : /\ Closed(G, T) /\ b = <<T, CommonR(G, T)>>
                      /\ Cardinality(T) >= min_l
                      /\ Cardinality(CommonR(G, T)) >= min_r
<1> DEFINE closed == {CommonL(G, S) : S \in (SUBSET DOMAIN G) \ {{}}} \ {{}}
<1>1. \A T : T \in closed <=> Closed(G, T)
  <2> TAKE T
  <2>1. T \in closed => Closed(G, T)
    BY CommonLClosed
  <2>2. CommonR(G, T) \in SUBSET DOMAIN G
    BY DEF CommonR
  <2>3. Closed(G, T) => T \in closed
    BY <2>2 DEF Closed
  <2> QED BY <2>1, <2>3
<1>2. MaximalBicliques(G, min_l, min_r)
        = {p \in {<<T, CommonR(G, T)>> : T \in closed} :
             Cardinality(p[1]) >= min_l /\ Cardinality(p[2]) >= min_r}
  BY DEF MaximalBicliques
<1> HIDE DEF closed
<1>3. b \in MaximalBicliques(G, min_l, min_r)
        <=> \E T \in closed : /\ b = <<T, CommonR(G, T)>>
                              /\ Cardinality(T) >= min_l
                              /\ Cardinality(CommonR(G, T)) >= min_r
  BY <1>2
<1> QED BY <1>1, <1>3

\* What is smaller than a closed set has more neighbors in common.
LEMMA SmallerHasMore ==
  ASSUME NEW G, NEW L, NEW R, Node(G, L, R), NEW T, Closed(G, T), T \subseteq L
  PROVE  /\ R \subseteq CommonR(G, T)
         /\ CommonR(G, T) \subseteq R => T = L
<1>1. R = CommonR(G, L) /\ CommonL(G, R) = L
  BY DEF Node, Closed
<1>2. R \subseteq CommonR(G, T)
  BY <1>1, InCommonR
<1> QED BY <1>1, <1>2 DEF Closed

----------------------------------------------------------------------------
(* What is below a node of the enumeration tree.                           *)

\* The maximal bicliques below the node (L, R) that a finder still finds if it
\* goes on with the candidates Rest: they add nothing to R but candidates.
Todo(G, min_l, L, R, Rest) ==
  {T \in SUBSET L : /\ Closed(G, T) /\ T # L /\ Cardinality(T) >= min_l
                    /\ CommonR(G, T) \ R \subseteq Rest}

\* Nothing that could extend R is forgotten: it is a candidate, or it shows of
\* some vertex before the candidates, not in R, whatever it shows of itself.
Covered(G, min_l, L, R, Rest) ==
  \A r \in DOMAIN G \ R : Cardinality(L \cap G[r]) >= min_l =>
    \/ r \in Rest
    \/ \E q \in DOMAIN G \ R : /\ \A s \in Rest : q < s
                               /\ L \cap G[r] \subseteq G[q]

\* The candidate c of a node, the first of Rest, is up.
UpNext(G, min_l, L, R, Rest, c) ==
  /\ DOMAIN G \subseteq Nat /\ FiniteLists(G) /\ min_l \in Nat \ {0}
  /\ Node(G, L, R) /\ Covered(G, min_l, L, R, Rest)
  /\ Rest \subseteq DOMAIN G \ R
  /\ c \in Rest /\ \A s \in Rest \ {c} : c < s
  /\ Cardinality(L \cap G[c]) >= min_l

\* A vertex before c shows that what c leaves is not maximal.
Hidden(G, R, c, S) == \E q \in DOMAIN G \ R : q < c /\ S \subseteq G[q]

\* A subset of a finite list is no larger.
LEMMA Smaller ==
  ASSUME NEW S, NEW T, IsFiniteSet(S), T \subseteq S, NEW m \in Nat,
         Cardinality(T) >= m
  PROVE  Cardinality(S) >= m
<1>1. Cardinality(T) \in Nat /\ Cardinality(S) \in Nat
      /\ Cardinality(T) <= Cardinality(S)
  BY FS_Subset, FS_CardinalityType
<1> QED BY <1>1

\* A large enough set has an element.
LEMMA Inhabited ==
  ASSUME NEW S, IsFiniteSet(S), NEW m \in Nat \ {0}, Cardinality(S) >= m
  PROVE  S # {}
BY FS_EmptySet

\* The sides of a node, and what is common to a part of its L side.
LEMMA NodeSides ==
  ASSUME NEW G, NEW L, NEW R, Node(G, L, R)
  PROVE  /\ L # {} /\ R # {} /\ R \subseteq DOMAIN G
         /\ \A r \in R : L \subseteq G[r]
         /\ \A l : l \in L <=> \A r \in R : l \in G[r]
         /\ \A r \in DOMAIN G : L \subseteq G[r] => r \in R
<1>1. L # {} /\ R # {} /\ CommonL(G, R) = L /\ R = CommonR(G, L)
  BY DEF Node, Closed
<1>2. \A r : r \in R <=> r \in DOMAIN G /\ L \subseteq G[r]
  BY <1>1, InCommonR
<1>3. \A l : l \in L <=> \A r \in R : l \in G[r]
  BY <1>1, InCommonL
<1> QED BY <1>1, <1>2, <1>3

\* The node's lists are finite, and what the candidate leaves is not empty.
LEMMA Finite ==
  ASSUME NEW G, NEW min_l, NEW L, NEW R, NEW Rest, NEW c,
         UpNext(G, min_l, L, R, Rest, c)
  PROVE  /\ IsFiniteSet(L) /\ L \cap G[c] # {} /\ c \in DOMAIN G /\ c \notin R
         /\ \A r \in DOMAIN G : IsFiniteSet(L \cap G[r])
<1>1. Node(G, L, R) /\ FiniteLists(G) /\ min_l \in Nat \ {0}
      /\ c \in DOMAIN G /\ c \notin R /\ Cardinality(L \cap G[c]) >= min_l
  BY DEF UpNext
<1>2. PICK r \in R : r \in DOMAIN G /\ L \subseteq G[r]
  BY <1>1, NodeSides
<1>3. IsFiniteSet(L)
  BY <1>1, <1>2, FS_Subset DEF FiniteLists
<1>4. \A S : IsFiniteSet(L \cap S)
  BY <1>3, FS_Intersection
<1> QED BY <1>1, <1>3, <1>4, Inhabited

\* A maximal candidate extends R by itself and the candidates that cover its
\* list, and by nothing else: the child is a node.
LEMMA Child ==
  ASSUME NEW G, NEW min_l, NEW L, NEW R, NEW Rest, NEW c,
         UpNext(G, min_l, L, R, Rest, c),
         ~Hidden(G, R, c, L \cap G[c])
  PROVE  LET R_prime == R \cup {r \in Rest : L \cap G[c] \subseteq G[r]}
         IN  /\ Node(G, L \cap G[c], R_prime)
             /\ c \in R_prime
             /\ \A r \in Rest \ R_prime : c < r
<1> DEFINE L_prime == L \cap G[c]
           R_prime == R \cup {r \in Rest : L_prime \subseteq G[r]}
<1>1. /\ Node(G, L, R) /\ min_l \in Nat \ {0} /\ Rest \subseteq DOMAIN G \ R
      /\ c \in Rest /\ \A s \in Rest \ {c} : c < s
      /\ Cardinality(L_prime) >= min_l
      /\ Covered(G, min_l, L, R, Rest) /\ DOMAIN G \subseteq Nat
  BY DEF UpNext
<1>2. /\ L_prime # {} /\ c \in DOMAIN G /\ c \notin R
      /\ \A r \in DOMAIN G : IsFiniteSet(L \cap G[r])
  BY Finite
<1>3. /\ R # {} /\ R \subseteq DOMAIN G /\ \A r \in R : L \subseteq G[r]
      /\ \A l : l \in L <=> \A r \in R : l \in G[r]
  BY <1>1, NodeSides
<1>4. c \in R_prime
  BY <1>1
<1>5. \A r \in R_prime : r \in DOMAIN G /\ L_prime \subseteq G[r]
  BY <1>1, <1>3
<1>6. ASSUME NEW r \in DOMAIN G, L_prime \subseteq G[r]
      PROVE  r \in R_prime
  <2> SUFFICES ASSUME r \notin R, r \notin Rest PROVE FALSE
    BY <1>6
  <2>1. Cardinality(L \cap G[r]) >= min_l
    <3>1. L_prime \subseteq L \cap G[r] /\ IsFiniteSet(L \cap G[r]) /\ min_l \in Nat
      BY <1>1, <1>2, <1>6
    <3> HIDE DEF L_prime
    <3> QED BY <1>1, <3>1, Smaller
  <2>2. PICK q \in DOMAIN G \ R : (\A s \in Rest : q < s) /\ L \cap G[r] \subseteq G[q]
    BY <1>1, <1>6, <2>1 DEF Covered
  <2>3. q < c /\ L_prime \subseteq G[q]
    BY <1>1, <1>6, <2>2
  <2> QED BY <2>3 DEF Hidden
<1> HIDE DEF R_prime
<1>7. R_prime = CommonR(G, L_prime)
  <2> HIDE DEF L_prime
  <2> QED BY <1>5, <1>6, InCommonR DEF CommonR
<1>8. \A l : l \in CommonL(G, R_prime) <=> \A r \in R_prime : l \in G[r]
  BY <1>4, InCommonL
<1>9. R \subseteq R_prime
  BY DEF R_prime
<1>10. CommonL(G, R_prime) = L_prime
  BY <1>3, <1>4, <1>5, <1>8, <1>9
<1>11. Node(G, L_prime, R_prime)
  BY <1>2, <1>4, <1>7, <1>10 DEF Node, Closed
<1>12. \A r \in Rest \ R_prime : c < r
  BY <1>1, <1>4
<1> QED BY <1>4, <1>11, <1>12 DEF R_prime

\* The candidates of the child: none is left out that could extend it, except
\* those whose list is within that of a vertex that hides what they leave.
Inherited(G, min_l, L, R, Rest, c, Rest_prime) ==
  /\ Rest_prime \subseteq {r \in Rest : ~(L \cap G[c] \subseteq G[r])}
  /\ \A r \in Rest : Cardinality(L \cap G[c] \cap G[r]) >= min_l =>
       \/ L \cap G[c] \subseteq G[r]
       \/ r \in Rest_prime
       \/ Hidden(G, R, c, L \cap G[c] \cap G[r])

\* The child forgets nothing either.
LEMMA ChildCovered ==
  ASSUME NEW G, NEW min_l, NEW L, NEW R, NEW Rest, NEW c, NEW Rest_prime,
         UpNext(G, min_l, L, R, Rest, c),
         ~Hidden(G, R, c, L \cap G[c]),
         Inherited(G, min_l, L, R, Rest, c, Rest_prime)
  PROVE  Covered(G, min_l, L \cap G[c],
                 R \cup {r \in Rest : L \cap G[c] \subseteq G[r]}, Rest_prime)
<1> DEFINE L_prime == L \cap G[c]
           R_prime == R \cup {r \in Rest : L_prime \subseteq G[r]}
<1>1. /\ Node(G, L, R) /\ min_l \in Nat \ {0} /\ Rest \subseteq DOMAIN G \ R
      /\ c \in Rest /\ \A s \in Rest \ {c} : c < s
      /\ Covered(G, min_l, L, R, Rest) /\ DOMAIN G \subseteq Nat
  BY DEF UpNext
<1>2. /\ c \in DOMAIN G /\ \A r \in DOMAIN G : IsFiniteSet(L \cap G[r])
  BY Finite
<1>3. c \in R_prime /\ \A s \in Rest_prime : c < s /\ s \in DOMAIN G
  BY <1>1 DEF Inherited
<1>4. \A q \in DOMAIN G \ R : q < c => ~(L_prime \subseteq G[q])
  BY DEF Hidden
<1>5. \A q \in DOMAIN G \ R : q < c => q \notin R_prime
  BY <1>4
<1>6. ASSUME NEW q \in DOMAIN G \ R, q < c
      PROVE  q \in DOMAIN G \ R_prime /\ \A s \in Rest_prime : q < s
  <2>1. \A s \in Rest_prime : s \in Nat /\ c \in Nat /\ q \in Nat /\ c < s
    BY <1>1, <1>2, <1>3
  <2> QED BY <1>5, <1>6, <2>1
<1> SUFFICES ASSUME NEW r \in DOMAIN G \ R_prime, r \notin Rest_prime,
                    Cardinality(L_prime \cap G[r]) >= min_l
             PROVE  \E q \in DOMAIN G \ R_prime :
                      (\A s \in Rest_prime : q < s) /\ L_prime \cap G[r] \subseteq G[q]
  BY DEF Covered
<1>7. r \in DOMAIN G \ R
  OBVIOUS
<1>8. CASE r < c
  BY <1>6, <1>7, <1>8
<1>9. CASE ~(r < c)
  <2>1. Cardinality(L \cap G[r]) >= min_l
    <3>1. L_prime \cap G[r] \subseteq L \cap G[r] /\ IsFiniteSet(L \cap G[r])
          /\ min_l \in Nat
      BY <1>1, <1>2
    <3> QED BY <3>1, Smaller
  <2>2. r \in Rest \/ \E q \in DOMAIN G \ R : (\A s \in Rest : q < s)
                                              /\ L \cap G[r] \subseteq G[q]
    BY <1>1, <1>7, <2>1 DEF Covered
  <2>3. CASE r \in Rest
    <3>1. Hidden(G, R, c, L_prime \cap G[r])
      BY <2>3 DEF Inherited
    <3>2. PICK q \in DOMAIN G \ R : q < c /\ L_prime \cap G[r] \subseteq G[q]
      BY <3>1 DEF Hidden
    <3> QED BY <1>6, <3>2
  <2>4. CASE \E q \in DOMAIN G \ R : (\A s \in Rest : q < s) /\ L \cap G[r] \subseteq G[q]
    <3>1. PICK q \in DOMAIN G \ R : q < c /\ L \cap G[r] \subseteq G[q]
      BY <1>1, <2>4
    <3> QED BY <1>6, <3>1
  <2> QED BY <2>2, <2>3, <2>4
<1> QED BY <1>8, <1>9

\* The candidates after c is done with: those are left out that show no more of
\* themselves than c does, or than a vertex that hides what c leaves.
Remains(G, L, R, Rest, c, Rest2) ==
  /\ Rest2 \subseteq Rest \ {c}
  /\ \A r \in Rest \ Rest2 :
       L \cap G[r] \subseteq G[c] \/ Hidden(G, R, c, L \cap G[r])

\* The node still forgets nothing.
LEMMA RemainsCovered ==
  ASSUME NEW G, NEW min_l, NEW L, NEW R, NEW Rest, NEW c, NEW Rest2,
         UpNext(G, min_l, L, R, Rest, c), Remains(G, L, R, Rest, c, Rest2)
  PROVE  Covered(G, min_l, L, R, Rest2)
<1>1. /\ Rest \subseteq DOMAIN G \ R /\ DOMAIN G \subseteq Nat
      /\ c \in Rest /\ \A s \in Rest \ {c} : c < s
      /\ Covered(G, min_l, L, R, Rest)
  BY DEF UpNext
<1>2. Rest2 \subseteq Rest \ {c}
  BY DEF Remains
<1>3. ASSUME NEW q \in DOMAIN G \ R, q <= c, NEW s \in Rest2
      PROVE  q < s
  <2>1. c < s /\ c \in Nat /\ s \in Nat /\ q \in Nat
    BY <1>1, <1>2
  <2> QED BY <1>3, <2>1
<1> SUFFICES ASSUME NEW r \in DOMAIN G \ R, r \notin Rest2,
                    Cardinality(L \cap G[r]) >= min_l
             PROVE  \E q \in DOMAIN G \ R :
                      (\A s \in Rest2 : q < s) /\ L \cap G[r] \subseteq G[q]
  BY DEF Covered
<1>4. CASE r \in Rest
  <2>1. L \cap G[r] \subseteq G[c] \/ Hidden(G, R, c, L \cap G[r])
    BY <1>4 DEF Remains
  <2>2. PICK q \in DOMAIN G \ R : (q < c \/ q = c) /\ L \cap G[r] \subseteq G[q]
    BY <1>1, <2>1 DEF Hidden
  <2>3. q <= c
    BY <1>1, <2>2
  <2> QED BY <1>3, <2>2, <2>3
<1>5. CASE r \notin Rest
  <2>1. PICK q \in DOMAIN G \ R : (\A s \in Rest : q < s) /\ L \cap G[r] \subseteq G[q]
    BY <1>5 DEF UpNext, Covered
  <2> QED BY <1>2, <2>1
<1> QED BY <1>4, <1>5

\* Whoever is not found below the candidate c is not adjacent to c.
LEMMA TodoRemains ==
  ASSUME NEW G, NEW min_l, NEW L, NEW R, NEW Rest, NEW c, NEW Rest2,
         UpNext(G, min_l, L, R, Rest, c), Remains(G, L, R, Rest, c, Rest2)
  PROVE  \A T : T \in Todo(G, min_l, L, R, Rest2)
                  <=> T \in Todo(G, min_l, L, R, Rest) /\ c \notin CommonR(G, T)
<1>1. /\ Rest \subseteq DOMAIN G \ R /\ DOMAIN G \subseteq Nat
      /\ c \in Rest /\ \A s \in Rest \ {c} : c < s
  BY DEF UpNext
<1>2. Rest2 \subseteq Rest \ {c}
  BY DEF Remains
<1> TAKE T
<1>3. ASSUME T \in Todo(G, min_l, L, R, Rest2)
      PROVE  T \in Todo(G, min_l, L, R, Rest) /\ c \notin CommonR(G, T)
  BY <1>1, <1>2, <1>3 DEF Todo
<1>4. ASSUME T \in Todo(G, min_l, L, R, Rest), c \notin CommonR(G, T)
      PROVE  T \in Todo(G, min_l, L, R, Rest2)
  <2> SUFFICES ASSUME NEW r \in CommonR(G, T) \ R, r \notin Rest2 PROVE FALSE
    BY <1>4 DEF Todo
  <2>1. r \in Rest /\ r \in DOMAIN G /\ T \subseteq G[r] /\ T \subseteq L
        /\ CommonR(G, T) \ R \subseteq Rest
    BY <1>4, InCommonR DEF Todo
  <2>2. ~(T \subseteq G[c])
    BY <1>1, <1>4, InCommonR
  <2>3. Hidden(G, R, c, L \cap G[r])
    BY <2>1, <2>2 DEF Remains
  <2>4. PICK q \in DOMAIN G \ R : q < c /\ L \cap G[r] \subseteq G[q]
    BY <2>3 DEF Hidden
  <2>5. q \in Rest
    BY <2>1, <2>4, InCommonR
  <2>6. q \in Nat /\ c \in Nat
    BY <1>1
  <2> QED BY <1>1, <2>4, <2>5, <2>6
<1> QED BY <1>3, <1>4

\* Below a candidate that is not maximal there is nothing to find.
LEMMA NothingHidden ==
  ASSUME NEW G, NEW min_l, NEW L, NEW R, NEW Rest, NEW c,
         UpNext(G, min_l, L, R, Rest, c),
         NEW T \in Todo(G, min_l, L, R, Rest), c \in CommonR(G, T),
         NEW S, T \subseteq S, Hidden(G, R, c, S)
  PROVE  FALSE
<1>1. /\ Rest \subseteq DOMAIN G \ R /\ DOMAIN G \subseteq Nat
      /\ c \in Rest /\ \A s \in Rest \ {c} : c < s
  BY DEF UpNext
<1>2. PICK q \in DOMAIN G \ R : q < c /\ S \subseteq G[q]
  BY DEF Hidden
<1>3. q \in Rest
  BY <1>2, InCommonR DEF Todo
<1>4. q \in Nat /\ c \in Nat
  BY <1>1
<1> QED BY <1>1, <1>2, <1>3, <1>4

\* What is left below the node after the candidate c, if c is not maximal.
LEMMA TodoHidden ==
  ASSUME NEW G, NEW min_l, NEW L, NEW R, NEW Rest, NEW c, NEW Rest2,
         UpNext(G, min_l, L, R, Rest, c), Remains(G, L, R, Rest, c, Rest2),
         Hidden(G, R, c, L \cap G[c])
  PROVE  Todo(G, min_l, L, R, Rest2) = Todo(G, min_l, L, R, Rest)
<1>1. ASSUME NEW T \in Todo(G, min_l, L, R, Rest)
      PROVE  c \notin CommonR(G, T)
  <2> SUFFICES ASSUME c \in CommonR(G, T) PROVE FALSE
    OBVIOUS
  <2>1. T \subseteq L \cap G[c]
    BY InCommonR DEF Todo
  <2> QED BY <2>1, NothingHidden
<1> QED BY <1>1, TodoRemains

\* What is to be found below the node is what c leaves, what is below the child,
\* and what remains below the node; nothing is there twice.
SharedOut(G, min_l, L, R, Rest, c, Rest2, Rest_prime) ==
  LET L_prime == L \cap G[c]
      R_prime == R \cup {r \in Rest : L_prime \subseteq G[r]}
      here  == Todo(G, min_l, L, R, Rest)
      after == Todo(G, min_l, L, R, Rest2)
      below == Todo(G, min_l, L_prime, R_prime, Rest_prime)
  IN  /\ here = after \cup below \cup {L_prime}
      /\ after \cap below = {}
      /\ L_prime \notin after /\ L_prime \notin below

\* So it is if c is maximal.
LEMMA TodoSplit ==
  ASSUME NEW G, NEW min_l, NEW L, NEW R, NEW Rest, NEW c, NEW Rest2,
         NEW Rest_prime,
         UpNext(G, min_l, L, R, Rest, c), Remains(G, L, R, Rest, c, Rest2),
         ~Hidden(G, R, c, L \cap G[c]),
         Inherited(G, min_l, L, R, Rest, c, Rest_prime)
  PROVE  SharedOut(G, min_l, L, R, Rest, c, Rest2, Rest_prime)
<1> DEFINE L_prime == L \cap G[c]
           R_prime == R \cup {r \in Rest : L_prime \subseteq G[r]}
           here  == Todo(G, min_l, L, R, Rest)
           after == Todo(G, min_l, L, R, Rest2)
           below == Todo(G, min_l, L_prime, R_prime, Rest_prime)
<1>1. /\ Rest \subseteq DOMAIN G \ R /\ DOMAIN G \subseteq Nat
      /\ c \in Rest /\ \A s \in Rest \ {c} : c < s
      /\ Node(G, L, R) /\ Cardinality(L_prime) >= min_l /\ min_l \in Nat \ {0}
  BY DEF UpNext
<1>2. Node(G, L_prime, R_prime) /\ c \in R_prime
  BY Child
<1>3. CommonR(G, L_prime) = R_prime /\ Closed(G, L_prime)
  BY <1>2 DEF Node
<1>4. \A r \in DOMAIN G : IsFiniteSet(L \cap G[r])
  BY Finite
<1>5. \A T : T \in after <=> T \in here /\ c \notin CommonR(G, T)
  BY TodoRemains
<1>6. Rest_prime \subseteq Rest
  BY DEF Inherited
<1>7. L_prime \in here
  <2>1. L_prime # L
    BY <1>1, <1>2, <1>3 DEF Node
  <2>2. R_prime \ R \subseteq Rest
    OBVIOUS
  <2> QED BY <1>1, <1>3, <2>1, <2>2 DEF Todo
<1>8. ASSUME NEW T \in below PROVE T \in here /\ c \in CommonR(G, T) /\ T # L_prime
  <2>1. /\ T \subseteq L_prime /\ Closed(G, T) /\ T # L_prime
        /\ Cardinality(T) >= min_l /\ CommonR(G, T) \ R_prime \subseteq Rest_prime
    BY <1>8 DEF Todo
  <2>2. R_prime \subseteq CommonR(G, T)
    BY <1>2, <2>1, SmallerHasMore
  <2>3. CommonR(G, T) \ R \subseteq Rest
    BY <1>6, <2>1
  <2>4. T # L
    BY <2>1
  <2> QED BY <1>2, <2>1, <2>2, <2>3, <2>4 DEF Todo
<1>9. ASSUME NEW T \in here, c \in CommonR(G, T), T # L_prime PROVE T \in below
  <2>1. /\ T \subseteq L /\ Closed(G, T)
        /\ Cardinality(T) >= min_l /\ CommonR(G, T) \ R \subseteq Rest
    BY <1>9 DEF Todo
  <2>2. T \subseteq L_prime
    BY <1>9, <2>1, InCommonR
  <2> SUFFICES ASSUME NEW r \in CommonR(G, T) \ R_prime PROVE r \in Rest_prime
    BY <1>9, <2>1, <2>2 DEF Todo
  <2>3. r \in Rest /\ r \in DOMAIN G /\ T \subseteq G[r] /\ ~(L_prime \subseteq G[r])
    BY <2>1, InCommonR
  <2>4. T \subseteq L_prime \cap G[r]
    BY <2>2, <2>3
  <2>5. Cardinality(L_prime \cap G[r]) >= min_l
    <3>1. IsFiniteSet(L_prime \cap G[r]) /\ min_l \in Nat
      BY <1>1, <1>4, <2>3, FS_Intersection
    <3> QED BY <2>1, <2>4, <3>1, Smaller
  <2>6. ~Hidden(G, R, c, L_prime \cap G[r])
    BY <1>9, <2>4, NothingHidden
  <2> QED BY <2>3, <2>5, <2>6 DEF Inherited
<1> HIDE DEF here, after, below
<1>10. c \in CommonR(G, L_prime)
  BY <1>2, <1>3
<1>11. here = after \cup below \cup {L_prime}
  BY <1>5, <1>7, <1>8, <1>9
<1>12. after \cap below = {} /\ L_prime \notin after /\ L_prime \notin below
  BY <1>5, <1>8, <1>10
<1> QED BY <1>11, <1>12 DEF SharedOut, here, after, below, L_prime, R_prime

\* Nothing is left below a node without candidates.
LEMMA TodoEmpty ==
  ASSUME NEW G, NEW min_l, NEW L, NEW R, Node(G, L, R)
  PROVE  Todo(G, min_l, L, R, {}) = {}
BY SmallerHasMore DEF Todo

----------------------------------------------------------------------------
(* The roots.                                                              *)

\* A graph with ids as the finders have it.
IsGraph(G) ==
  /\ \E n \in Nat : DOMAIN G = 0 .. n - 1
  /\ \A r \in DOMAIN G : G[r] \subseteq Nat /\ IsFiniteSet(G[r])

\* The maximal bicliques no vertex of which comes before v.
TodoFrom(G, min_l, v) ==
  {T \in SUBSET UNION {G[r] : r \in DOMAIN G} :
     /\ Closed(G, T) /\ Cardinality(T) >= min_l
     /\ \A r \in CommonR(G, T) : v <= r}

\* Execute does not expand the vertex v.
Passed(G, min_l, v) ==
  Cardinality(G[v]) < min_l \/ (v > 0 /\ G[v - 1] = G[v])

\* Two lists are equal or one is before the other.
LEMMA ListOrder ==
  ASSUME NEW S, NEW T, S \subseteq Nat, T \subseteq Nat, S # T
  PROVE  ListLess(S, T) \/ ListLess(T, S)
<1> DEFINE differ == (S \ T) \cup (T \ S)
<1>1. differ \subseteq Nat /\ differ # {}
  OBVIOUS
<1>2. differ = (T \ S) \cup (S \ T)
  OBVIOUS
<1>3. PICK x \in differ : \A y \in differ : x <= y
  <2> HIDE DEF differ
  <2> QED BY <1>1, MinOfNats
<1>4. CASE x \in S
  BY <1>3, <1>4 DEF ListLess
<1>5. CASE x \in T
  <2>1. ListLess(T, S) <=> \E z \in differ : z \in T /\ \A y \in differ : z <= y
    BY <1>2 DEF ListLess
  <2> QED BY <1>3, <1>5, <2>1
<1> QED BY <1>3, <1>4, <1>5

\* In the order of Reorder a vertex that has all neighbors of a later one has
\* the same, and so has whatever is between them.
LEMMA NoneEarlier ==
  ASSUME NEW G, IsGraph(G), Ordered(G), NEW u \in DOMAIN G, NEW v \in DOMAIN G,
         u < v, G[v] \subseteq G[u]
  PROVE  v > 0 /\ v - 1 \in DOMAIN G /\ G[v - 1] = G[v]
<1>0. PICK n \in Nat : DOMAIN G = 0 .. n - 1
  BY DEF IsGraph
<1>1. /\ u \in Nat /\ v \in Nat /\ v > 0 /\ v - 1 \in DOMAIN G
      /\ u <= v - 1 /\ v - 1 < v
  BY <1>0
<1>2. \A r \in DOMAIN G : G[r] \subseteq Nat /\ IsFiniteSet(G[r])
                          /\ Cardinality(G[r]) \in Nat
  BY FS_CardinalityType DEF IsGraph
<1>3. \A r, s \in DOMAIN G : r < s => ~RIncLess(G[s], G[r])
  BY DEF Ordered
<1>4. G[v] = G[u]
  <2>1. ~(Cardinality(G[v]) < Cardinality(G[u]))
    BY <1>3 DEF RIncLess
  <2>2. Cardinality(G[v]) <= Cardinality(G[u])
        /\ (Cardinality(G[v]) = Cardinality(G[u]) => G[v] = G[u])
    BY <1>2, FS_Subset
  <2> QED BY <1>2, <2>1, <2>2
<1>5. ~RIncLess(G[v], G[v - 1])
  BY <1>1, <1>3
<1>6. ~RIncLess(G[v - 1], G[v])
  <2>1. CASE u = v - 1
    BY <1>4, <1>5, <2>1
  <2>2. CASE u < v - 1
    BY <1>1, <1>3, <1>4, <2>2
  <2> QED BY <1>1, <2>1, <2>2
<1>7. Cardinality(G[v - 1]) = Cardinality(G[v])
  BY <1>1, <1>2, <1>5, <1>6 DEF RIncLess
<1>8. ~ListLess(G[v - 1], G[v]) /\ ~ListLess(G[v], G[v - 1])
  BY <1>5, <1>6, <1>7 DEF RIncLess
<1>9. G[v - 1] = G[v]
  BY <1>1, <1>2, <1>8, ListOrder
<1> QED BY <1>1, <1>9

\* A closed set that is wanted is a set of the graph's vertices.
LEMMA ClosedInside ==
  ASSUME NEW G, NEW T, Closed(G, T)
  PROVE  T \subseteq UNION {G[r] : r \in DOMAIN G}
<1>1. PICK r : r \in CommonR(G, T)
  BY DEF Closed
<1> QED BY <1>1, InCommonR

\* The vertex v is not expanded: no wanted biclique begins with it.
LEMMA RootPassed ==
  ASSUME NEW G, IsGraph(G), NEW min_l \in Nat \ {0}, NEW v \in DOMAIN G,
         Passed(G, min_l, v)
  PROVE  TodoFrom(G, min_l, v + 1) = TodoFrom(G, min_l, v)
<1>0. PICK n \in Nat : DOMAIN G = 0 .. n - 1
  BY DEF IsGraph
<1>1. v \in Nat
  BY <1>0
<1>2. ASSUME NEW T, T \in TodoFrom(G, min_l, v)
      PROVE  v \notin CommonR(G, T)
  <2> SUFFICES ASSUME v \in CommonR(G, T) PROVE FALSE
    OBVIOUS
  <2>1. T \subseteq G[v] /\ Cardinality(T) >= min_l
        /\ \A r \in CommonR(G, T) : v <= r
    BY <1>2, InCommonR DEF TodoFrom
  <2>2. Cardinality(G[v]) >= min_l
    BY <2>1, Smaller DEF IsGraph
  <2>3. IsFiniteSet(G[v]) /\ Cardinality(G[v]) \in Nat
    BY FS_CardinalityType DEF IsGraph
  <2>4. v > 0 /\ G[v - 1] = G[v]
    BY <2>2, <2>3 DEF Passed
  <2>5. v - 1 \in DOMAIN G /\ ~(v <= v - 1)
    BY <1>0, <1>1, <2>4
  <2>6. v - 1 \in CommonR(G, T)
    BY <2>1, <2>4, <2>5, InCommonR
  <2> QED BY <2>1, <2>5, <2>6
<1>3. \A T : \A r \in CommonR(G, T) : r \in Nat
  BY <1>0, InCommonR
<1>4. ASSUME NEW T, T \in TodoFrom(G, min_l, v)
      PROVE  \A r \in CommonR(G, T) : v + 1 <= r
  <2> TAKE r \in CommonR(G, T)
  <2>1. v <= r /\ r # v /\ r \in Nat
    BY <1>2, <1>3, <1>4 DEF TodoFrom
  <2> QED BY <1>1, <2>1
<1>5. ASSUME NEW T, T \in TodoFrom(G, min_l, v + 1)
      PROVE  \A r \in CommonR(G, T) : v <= r
  <2> TAKE r \in CommonR(G, T)
  <2>1. v + 1 <= r /\ r \in Nat
    BY <1>3, <1>5 DEF TodoFrom
  <2> QED BY <1>1, <2>1
<1> QED BY <1>4, <1>5 DEF TodoFrom

\* The candidates of the root v: none of the vertices after v is left out.
RootRest(G, min_l, v, Rest) ==
  /\ Rest \subseteq {r \in DOMAIN G : v < r /\ ~(G[v] \subseteq G[r])}
  /\ \A r \in DOMAIN G : v < r /\ Cardinality(G[v] \cap G[r]) >= min_l =>
       r \in Rest \/ G[v] \subseteq G[r]

\* The vertex v is expanded: it is the first of its node, which forgets nothing.
LEMMA Root ==
  ASSUME NEW G, IsGraph(G), Ordered(G), NEW min_l \in Nat \ {0},
         NEW v \in DOMAIN G, ~Passed(G, min_l, v)
  PROVE  /\ Node(G, G[v], CommonR(G, G[v]))
         /\ v \in CommonR(G, G[v])
         /\ \A r \in CommonR(G, G[v]) : v <= r
<1>0. PICK n \in Nat : DOMAIN G = 0 .. n - 1
  BY DEF IsGraph
<1>1. IsFiniteSet(G[v]) /\ Cardinality(G[v]) \in Nat
  BY FS_CardinalityType DEF IsGraph
<1>2. G[v] # {}
  BY <1>1, Inhabited DEF Passed
<1>3. G[v] = CommonL(G, {v})
  BY InCommonL
<1>4. Closed(G, G[v])
  BY <1>2, <1>3, CommonLClosed
<1>5. \A r \in CommonR(G, G[v]) : r \in DOMAIN G /\ G[v] \subseteq G[r]
  BY InCommonR
<1>6. \A r \in CommonR(G, G[v]) : ~(r < v)
  BY <1>5, NoneEarlier DEF Passed
<1>7. \A r \in CommonR(G, G[v]) : v <= r
  BY <1>0, <1>5, <1>6
<1> QED BY <1>4, <1>7, InCommonR DEF Node

\* The vertices before v that could extend the root come before its candidates.
LEMMA RootCovered ==
  ASSUME NEW G, IsGraph(G), NEW min_l \in Nat \ {0},
         NEW v \in DOMAIN G, v \in CommonR(G, G[v]),
         NEW Rest, RootRest(G, min_l, v, Rest)
  PROVE  Covered(G, min_l, G[v], CommonR(G, G[v]), Rest)
<1>0. PICK n \in Nat : DOMAIN G = 0 .. n - 1
  BY DEF IsGraph
<1> SUFFICES ASSUME NEW r \in DOMAIN G \ CommonR(G, G[v]), r \notin Rest,
                    Cardinality(G[v] \cap G[r]) >= min_l
             PROVE  \A s \in Rest : r < s
  BY DEF Covered
<1>1. ~(v < r) /\ r # v
  BY InCommonR DEF RootRest
<1> TAKE s \in Rest
<1>2. v < s /\ s \in DOMAIN G
  BY DEF RootRest
<1> QED BY <1>0, <1>1, <1>2

\* What begins with v or later is what begins later, what v leaves, and what is
\* below it; nothing is there twice.
LEMMA RootSplit ==
  ASSUME NEW G, IsGraph(G), Ordered(G), NEW min_l \in Nat \ {0},
         NEW v \in DOMAIN G, ~Passed(G, min_l, v),
         NEW Rest, RootRest(G, min_l, v, Rest)
  PROVE  LET here  == TodoFrom(G, min_l, v)
             after == TodoFrom(G, min_l, v + 1)
             below == Todo(G, min_l, G[v], CommonR(G, G[v]), Rest)
         IN  /\ here = after \cup below \cup {G[v]}
             /\ after \cap below = {}
             /\ G[v] \notin after /\ G[v] \notin below
<1> DEFINE here  == TodoFrom(G, min_l, v)
           after == TodoFrom(G, min_l, v + 1)
           below == Todo(G, min_l, G[v], CommonR(G, G[v]), Rest)
<1>0. PICK n \in Nat : DOMAIN G = 0 .. n - 1
  BY DEF IsGraph
<1>1. /\ Node(G, G[v], CommonR(G, G[v])) /\ v \in CommonR(G, G[v])
      /\ \A r \in CommonR(G, G[v]) : v <= r
  BY Root
<1>2. Cardinality(G[v]) >= min_l /\ \A r \in DOMAIN G : IsFiniteSet(G[r])
  <2>1. IsFiniteSet(G[v]) /\ Cardinality(G[v]) \in Nat
    BY FS_CardinalityType DEF IsGraph
  <2> QED BY <2>1 DEF Passed, IsGraph
<1>3. \A T : \A r \in CommonR(G, T) : r \in DOMAIN G /\ r \in Nat
  BY <1>0, InCommonR
<1>4. \A T : T \in after => T \in here /\ v \notin CommonR(G, T)
  <2> SUFFICES ASSUME NEW T \in after
               PROVE  T \in here /\ v \notin CommonR(G, T)
    OBVIOUS
  <2>1. \A r \in CommonR(G, T) : v + 1 <= r /\ r \in Nat
    BY <1>3 DEF TodoFrom
  <2>2. \A r \in CommonR(G, T) : v <= r /\ r # v
    BY <1>0, <2>1
  <2> QED BY <2>2 DEF TodoFrom
<1>5. \A T : T \in here /\ v \notin CommonR(G, T) => T \in after
  <2> SUFFICES ASSUME NEW T \in here, v \notin CommonR(G, T)
               PROVE  T \in after
    OBVIOUS
  <2>1. \A r \in CommonR(G, T) : v <= r /\ r \in Nat /\ r # v
    BY <1>3 DEF TodoFrom
  <2>2. \A r \in CommonR(G, T) : v + 1 <= r
    BY <1>0, <2>1
  <2> QED BY <2>2 DEF TodoFrom
<1>6. G[v] \in here
  BY <1>1, <1>2 DEF TodoFrom, Node
<1>7. ASSUME NEW T \in below
      PROVE  T \in here /\ v \in CommonR(G, T) /\ T # G[v]
  <2>1. /\ T \subseteq G[v] /\ Closed(G, T) /\ T # G[v]
        /\ Cardinality(T) >= min_l
        /\ CommonR(G, T) \ CommonR(G, G[v]) \subseteq Rest
    BY <1>7 DEF Todo
  <2>2. CommonR(G, G[v]) \subseteq CommonR(G, T)
    BY <1>1, <2>1, SmallerHasMore
  <2>3. \A r \in Rest : v < r
    BY DEF RootRest
  <2>4. \A r \in CommonR(G, T) : v <= r
    BY <1>0, <1>1, <1>3, <2>1, <2>3
  <2> QED BY <1>1, <2>1, <2>2, <2>4, ClosedInside DEF TodoFrom
<1>8. ASSUME NEW T \in here, v \in CommonR(G, T), T # G[v] PROVE T \in below
  <2>1. /\ Closed(G, T) /\ Cardinality(T) >= min_l /\ T \subseteq G[v]
        /\ \A r \in CommonR(G, T) : v <= r
    BY <1>8, InCommonR DEF TodoFrom
  <2> SUFFICES ASSUME NEW r \in CommonR(G, T) \ CommonR(G, G[v]) PROVE r \in Rest
    BY <1>8, <2>1 DEF Todo
  <2>2. r \in DOMAIN G /\ T \subseteq G[r] /\ ~(G[v] \subseteq G[r])
    BY InCommonR
  <2>3. v < r
    BY <1>0, <1>1, <2>1, <2>2
  <2>4. T \subseteq G[v] \cap G[r] /\ IsFiniteSet(G[v] \cap G[r])
    BY <1>2, <2>1, <2>2, FS_Intersection
  <2>5. Cardinality(G[v] \cap G[r]) >= min_l
    BY <2>1, <2>4, Smaller
  <2> QED BY <2>2, <2>3, <2>5 DEF RootRest
<1> HIDE DEF here, after, below
<1>9. here = after \cup below \cup {G[v]}
  BY <1>4, <1>5, <1>6, <1>7, <1>8
<1>10. after \cap below = {} /\ G[v] \notin after /\ G[v] \notin below
  BY <1>1, <1>4, <1>7
<1> QED BY <1>9, <1>10 DEF here, after, below

\* At the beginning all wanted bicliques are to be found, at the end none.
LEMMA TodoEnds ==
  ASSUME NEW G, NEW n \in Nat, DOMAIN G = 0 .. n - 1, NEW min_l
  PROVE  /\ \A T : T \in TodoFrom(G, min_l, 0)
                     <=> Closed(G, T) /\ Cardinality(T) >= min_l
         /\ TodoFrom(G, min_l, n) = {}
<1>1. \A T : \A r \in CommonR(G, T) : r \in 0 .. n - 1
  BY InCommonR
<1>2. \A T : \A r \in CommonR(G, T) : 0 <= r /\ ~(n <= r)
  BY <1>1
<1>3. \A T : Closed(G, T) => CommonR(G, T) # {}
  BY DEF Closed
<1> QED BY <1>2, <1>3, ClosedInside DEF TodoFrom

----------------------------------------------------------------------------
(* A graph and what is left of it, renumbered.                             *)

\* The set S, renamed by f.
Image(f, S) == {f[x] : x \in S}

\* T and S are the sides of a maximal biclique above the thresholds.
IsMaximalBiclique(G, min_l, min_r, T, S) ==
  /\ T # {} /\ S # {}
  /\ S = CommonR(G, T) /\ T = CommonL(G, S)
  /\ Cardinality(T) >= min_l /\ Cardinality(S) >= min_r

\* MaximalBicliques is made of those.
LEMMA AreMaximal ==
  ASSUME NEW G, NEW min_l, NEW min_r, NEW b
  PROVE  b \in MaximalBicliques(G, min_l, min_r)
           <=> \E T, S : b = <<T, S>> /\ IsMaximalBiclique(G, min_l, min_r, T, S)
<1>1. b \in MaximalBicliques(G, min_l, min_r)
        <=> \E T : /\ Closed(G, T) /\ b = <<T, CommonR(G, T)>>
                   /\ Cardinality(T) >= min_l
                   /\ Cardinality(CommonR(G, T)) >= min_r
  BY InMaximalBicliques
<1> QED BY <1>1 DEF IsMaximalBiclique, Closed

\* Exchanging the sides exchanges those of the bicliques.
LEMMA Exchanged ==
  ASSUME NEW F, NEW G,
         \A x \in DOMAIN F : F[x] \subseteq DOMAIN G,
         \A y \in DOMAIN G : G[y] \subseteq DOMAIN F,
         \A x \in DOMAIN F, y \in DOMAIN G : y \in F[x] <=> x \in G[y],
         NEW a, NEW c, NEW T, NEW S, IsMaximalBiclique(F, a, c, T, S)
  PROVE  IsMaximalBiclique(G, c, a, S, T)
<1>1. /\ T # {} /\ S # {}
      /\ \A x : x \in S <=> x \in DOMAIN F /\ T \subseteq F[x]
      /\ \A y : y \in T <=> \A x \in S : y \in F[x]
  BY InCommonL, InCommonR DEF IsMaximalBiclique
<1>2. S \subseteq DOMAIN F /\ T \subseteq DOMAIN G
  BY <1>1
<1>3. \A y : y \in CommonR(G, S) <=> y \in DOMAIN G /\ S \subseteq G[y]
  BY InCommonR
<1>4. \A x : x \in CommonL(G, T) <=> \A y \in T : x \in G[y]
  BY <1>1, InCommonL
<1>5. T = CommonR(G, S)
  BY <1>1, <1>2, <1>3
<1>6. S = CommonL(G, T)
  <2>1. \A x : x \in CommonL(G, T) => x \in DOMAIN F
    BY <1>1, <1>2, <1>4
  <2> QED BY <1>1, <1>2, <1>4, <2>1
<1> QED BY <1>1, <1>5, <1>6 DEF IsMaximalBiclique

\* Renaming one to one keeps the number.
LEMMA ImageCardinality ==
  ASSUME NEW f, NEW S, IsFiniteSet(S), \A x, y \in S : f[x] = f[y] => x = y
  PROVE  IsFiniteSet(Image(f, S)) /\ Cardinality(Image(f, S)) = Cardinality(S)
<1> DEFINE g == [x \in S |-> f[x]]
<1>1. g \in [S -> Image(f, S)]
  BY DEF Image
<1>2. \A x, y \in S : g[x] = g[y] => x = y
  OBVIOUS
<1>3. \A t \in Image(f, S) : \E x \in S : g[x] = t
  BY DEF Image
<1>4. g \in Bijection(S, Image(f, S))
  <2> HIDE DEF g
  <2> QED BY <1>1, <1>2, <1>3, Fun_IsBij
<1>5. ExistsBijection(S, Image(f, S))
  BY <1>4, Fun_ExistsBij
<1> QED BY <1>5, FS_Bijection

\* What is left of the graph F: the vertices D of L and those of G's domain,
\* renumbered; lm and rm say whom of F they stand for.
Left(G, D, F, lm, rm) ==
  /\ \A r \in DOMAIN G : G[r] \subseteq D /\ rm[r] \in DOMAIN F
  /\ \A x, y \in D : lm[x] = lm[y] => x = y
  /\ \A r, s \in DOMAIN G : rm[r] = rm[s] => r = s
  /\ \A x \in D, r \in DOMAIN G : x \in G[r] <=> lm[x] \in F[rm[r]]

\* A and B are the sides of a biclique of F above the thresholds.
IsBiclique(F, min_l, min_r, A, B) ==
  /\ B \subseteq DOMAIN F /\ \A r \in B : A \subseteq F[r]
  /\ Cardinality(A) >= min_l /\ Cardinality(B) >= min_r

\* Nothing is lost: all bicliques of F are between vertices that are left.
NoneLost(F, min_l, min_r, A, B) ==
  \A T, S : IsBiclique(F, min_l, min_r, T, S) => T \subseteq A /\ S \subseteq B

\* The graph is finite.
FiniteGraph(F) == IsFiniteSet(DOMAIN F) /\ \A r \in DOMAIN F : IsFiniteSet(F[r])

\* The sides of a biclique are finite and have elements.
LEMMA BicliqueSides ==
  ASSUME NEW F, FiniteGraph(F), NEW min_l \in Nat \ {0}, NEW min_r \in Nat \ {0},
         NEW T, NEW S, IsBiclique(F, min_l, min_r, T, S)
  PROVE  IsFiniteSet(T) /\ IsFiniteSet(S) /\ T # {} /\ S # {}
<1>1. IsFiniteSet(S) /\ Cardinality(S) >= min_r
  BY FS_Subset DEF FiniteGraph, IsBiclique
<1>2. S # {}
  BY <1>1, Inhabited
<1>3. IsFiniteSet(T) /\ Cardinality(T) >= min_l
  BY <1>2, FS_Subset DEF FiniteGraph, IsBiclique
<1>4. T # {}
  BY <1>3, Inhabited
<1> QED BY <1>1, <1>2, <1>3, <1>4

\* The finiteness of what is left.
LEMMA LeftFinite ==
  ASSUME NEW G, NEW D, NEW F, NEW lm, NEW rm, Left(G, D, F, lm, rm), FiniteGraph(F)
  PROVE  FiniteGraph(G)
<1>1. IsFiniteSet(DOMAIN G)
  <2> DEFINE g == [r \in DOMAIN G |-> rm[r]]
  <2>1. g \in [DOMAIN G -> DOMAIN F] /\ \A r, s \in DOMAIN G : g[r] = g[s] => r = s
    BY DEF Left
  <2>2. g \in Injection(DOMAIN G, DOMAIN F)
    <3> HIDE DEF g
    <3> QED BY <2>1, Fun_IsInj
  <2> QED BY <2>2, FS_Injection DEF FiniteGraph
<1>2. ASSUME NEW r \in DOMAIN G PROVE IsFiniteSet(G[r])
  <2> DEFINE g == [x \in G[r] |-> lm[x]]
  <2>1. g \in [G[r] -> F[rm[r]]] /\ \A x, y \in G[r] : g[x] = g[y] => x = y
    BY DEF Left
  <2>2. g \in Injection(G[r], F[rm[r]])
    <3> HIDE DEF g
    <3> QED BY <2>1, Fun_IsInj
  <2>3. IsFiniteSet(F[rm[r]])
    BY DEF Left, FiniteGraph
  <2> QED BY <2>2, <2>3, FS_Injection
<1> QED BY <1>1, <1>2 DEF FiniteGraph

\* A biclique of what is left is one of F.
LEMMA LeftBiclique ==
  ASSUME NEW G, NEW D, NEW F, NEW lm, NEW rm, Left(G, D, F, lm, rm), FiniteGraph(F),
         NEW min_l \in Nat \ {0}, NEW min_r \in Nat \ {0},
         NEW T, NEW S, IsBiclique(G, min_l, min_r, T, S)
  PROVE  /\ IsBiclique(F, min_l, min_r, Image(lm, T), Image(rm, S))
         /\ T \subseteq D /\ S \subseteq DOMAIN G
<1>1. IsFiniteSet(T) /\ IsFiniteSet(S) /\ S # {}
  BY LeftFinite, BicliqueSides
<1>2. S \subseteq DOMAIN G /\ T \subseteq D /\ \A r \in S : T \subseteq G[r]
  BY <1>1 DEF IsBiclique, Left
<1>3. Cardinality(Image(lm, T)) = Cardinality(T)
  BY <1>1, <1>2, ImageCardinality DEF Left
<1>4. Cardinality(Image(rm, S)) = Cardinality(S)
  BY <1>1, <1>2, ImageCardinality DEF Left
<1>5. Image(rm, S) \subseteq DOMAIN F /\ \A r \in Image(rm, S) : Image(lm, T) \subseteq F[r]
  BY <1>2 DEF Left, Image
<1> QED BY <1>2, <1>3, <1>4, <1>5 DEF IsBiclique

\* A biclique of F between vertices that are left is one of what is left.
LEMMA BicliqueLeft ==
  ASSUME NEW G, NEW D, NEW F, NEW lm, NEW rm, Left(G, D, F, lm, rm), FiniteGraph(F),
         NEW min_l \in Nat \ {0}, NEW min_r \in Nat \ {0},
         NEW A, NEW B, IsBiclique(F, min_l, min_r, A, B),
         A \subseteq Image(lm, D), B \subseteq Image(rm, DOMAIN G),
         NEW T, T = {x \in D : lm[x] \in A}, NEW S, S = {r \in DOMAIN G : rm[r] \in B}
  PROVE  /\ IsBiclique(G, min_l, min_r, T, S)
         /\ A = Image(lm, T) /\ B = Image(rm, S)
<1>1. A = Image(lm, T) /\ B = Image(rm, S)
  BY DEF Image
<1>2. S \subseteq DOMAIN G /\ \A r \in S : T \subseteq G[r]
  BY DEF Left, IsBiclique
<1>3. IsFiniteSet(A) /\ IsFiniteSet(B) /\ A # {} /\ B # {}
  BY BicliqueSides
<1>4. IsFiniteSet(S) /\ FiniteGraph(G)
  BY <1>2, LeftFinite, FS_Subset DEF FiniteGraph
<1>5. S # {}
  BY <1>1, <1>3 DEF Image
<1>6. IsFiniteSet(T)
  BY <1>2, <1>4, <1>5, FS_Subset DEF FiniteGraph
<1>7. Cardinality(Image(lm, T)) = Cardinality(T)
  BY <1>6, ImageCardinality DEF Left
<1>8. Cardinality(Image(rm, S)) = Cardinality(S)
  BY <1>4, ImageCardinality DEF Left
<1> QED BY <1>1, <1>2, <1>7, <1>8 DEF IsBiclique

\* The sides of a maximal biclique are complete to each other.
LEMMA MaximalIsBiclique ==
  ASSUME NEW F, NEW a, NEW c, NEW T, NEW S, IsMaximalBiclique(F, a, c, T, S)
  PROVE  IsBiclique(F, a, c, T, S)
<1>1. S \subseteq DOMAIN F /\ \A r \in S : T \subseteq F[r]
  BY InCommonR DEF IsMaximalBiclique
<1> QED BY <1>1 DEF IsMaximalBiclique, IsBiclique

\* A biclique is maximal if no vertex can be added on either side.
LEMMA CannotGrow ==
  ASSUME NEW F, NEW a, NEW c, NEW T, NEW S, IsBiclique(F, a, c, T, S), T # {}, S # {},
         \A r \in DOMAIN F : T \subseteq F[r] => r \in S,
         \A x : (\A r \in S : x \in F[r]) => x \in T
  PROVE  IsMaximalBiclique(F, a, c, T, S)
<1>1. S = CommonR(F, T)
  BY InCommonR DEF IsBiclique
<1>2. T = CommonL(F, S)
  BY InCommonL DEF IsBiclique
<1> QED BY <1>1, <1>2 DEF IsMaximalBiclique, IsBiclique

\* One more vertex makes a side no smaller.
LEMMA OneMore ==
  ASSUME NEW S, IsFiniteSet(S), NEW m \in Nat, Cardinality(S) >= m, NEW x
  PROVE  Cardinality(S \cup {x}) >= m
<1>1. IsFiniteSet(S \cup {x}) /\ S \subseteq S \cup {x}
  BY FS_AddElement
<1> QED BY <1>1, Smaller

\* A biclique that is maximal in what is left is maximal in F.
LEMMA LeftMaximal ==
  ASSUME NEW G, NEW D, NEW F, NEW lm, NEW rm, Left(G, D, F, lm, rm), FiniteGraph(F),
         NEW min_l \in Nat \ {0}, NEW min_r \in Nat \ {0},
         NoneLost(F, min_l, min_r, Image(lm, D), Image(rm, DOMAIN G)),
         NEW T, NEW S, IsMaximalBiclique(G, min_l, min_r, T, S)
  PROVE  IsMaximalBiclique(F, min_l, min_r, Image(lm, T), Image(rm, S))
<1> DEFINE A == Image(lm, T)
           B == Image(rm, S)
<1>1. IsBiclique(G, min_l, min_r, T, S)
  BY MaximalIsBiclique
<1>2. IsBiclique(F, min_l, min_r, A, B) /\ T \subseteq D /\ S \subseteq DOMAIN G
  BY <1>1, LeftBiclique
<1>3. IsFiniteSet(A) /\ IsFiniteSet(B) /\ A # {} /\ B # {}
  BY <1>2, BicliqueSides
<1>4. /\ \A r : r \in S <=> r \in DOMAIN G /\ T \subseteq G[r]
      /\ \A x : x \in T <=> \A r \in S : x \in G[r]
  BY InCommonL, InCommonR DEF IsMaximalBiclique
<1>5. ASSUME NEW q \in DOMAIN F, A \subseteq F[q] PROVE q \in B
  <2>1. IsBiclique(F, min_l, min_r, A, B \cup {q})
    <3>1. Cardinality(B \cup {q}) >= min_r
      BY <1>2, <1>3, OneMore DEF IsBiclique
    <3> QED BY <1>2, <1>5, <3>1 DEF IsBiclique
  <2>2. q \in Image(rm, DOMAIN G)
    BY <2>1 DEF NoneLost
  <2>3. PICK r \in DOMAIN G : q = rm[r]
    BY <2>2 DEF Image
  <2>4. \A x \in T : lm[x] \in F[rm[r]]
    BY <1>5, <2>3 DEF Image
  <2>5. T \subseteq G[r]
    BY <1>2, <2>4 DEF Left
  <2> QED BY <1>4, <2>3, <2>5 DEF Image
<1>6. ASSUME NEW y, \A q \in B : y \in F[q] PROVE y \in A
  <2>1. IsBiclique(F, min_l, min_r, A \cup {y}, B)
    <3>1. Cardinality(A \cup {y}) >= min_l
      BY <1>2, <1>3, OneMore DEF IsBiclique
    <3> QED BY <1>2, <1>6, <3>1 DEF IsBiclique
  <2>2. y \in Image(lm, D)
    BY <2>1 DEF NoneLost
  <2>3. PICK x \in D : y = lm[x]
    BY <2>2 DEF Image
  <2>4. \A r \in S : lm[x] \in F[rm[r]]
    BY <1>6, <2>3 DEF Image
  <2>5. \A r \in S : x \in G[r]
    BY <1>2, <2>4 DEF Left
  <2> QED BY <1>4, <2>3, <2>5 DEF Image
<1> HIDE DEF A, B
<1> QED BY <1>2, <1>3, <1>5, <1>6, CannotGrow DEF A, B

\* A maximal biclique of F comes from one of what is left.
LEMMA MaximalLeft ==
  ASSUME NEW G, NEW D, NEW F, NEW lm, NEW rm, Left(G, D, F, lm, rm), FiniteGraph(F),
         NEW min_l \in Nat \ {0}, NEW min_r \in Nat \ {0},
         NoneLost(F, min_l, min_r, Image(lm, D), Image(rm, DOMAIN G)),
         NEW A, NEW B, IsMaximalBiclique(F, min_l, min_r, A, B)
  PROVE  \E T, S : /\ IsMaximalBiclique(G, min_l, min_r, T, S)
                   /\ A = Image(lm, T) /\ B = Image(rm, S)
<1> DEFINE T == {x \in D : lm[x] \in A}
           S == {r \in DOMAIN G : rm[r] \in B}
<1>0. T = {x \in D : lm[x] \in A} /\ S = {r \in DOMAIN G : rm[r] \in B}
  OBVIOUS
<1> HIDE DEF T, S
<1>1. IsBiclique(F, min_l, min_r, A, B)
  BY MaximalIsBiclique
<1>2. A \subseteq Image(lm, D) /\ B \subseteq Image(rm, DOMAIN G)
  BY <1>1 DEF NoneLost
<1>3. /\ IsBiclique(G, min_l, min_r, T, S)
      /\ A = Image(lm, T) /\ B = Image(rm, S)
  BY <1>0, <1>1, <1>2, BicliqueLeft
<1>4. T # {} /\ S # {}
  BY <1>3 DEF IsMaximalBiclique, Image
<1>5. /\ \A q : q \in B <=> q \in DOMAIN F /\ A \subseteq F[q]
      /\ \A y : y \in A <=> \A q \in B : y \in F[q]
  BY InCommonL, InCommonR DEF IsMaximalBiclique
<1>6. ASSUME NEW r \in DOMAIN G, T \subseteq G[r] PROVE r \in S
  <2>1. A \subseteq F[rm[r]] /\ rm[r] \in DOMAIN F
    BY <1>0, <1>3, <1>6 DEF Left, Image
  <2> QED BY <1>0, <1>5, <2>1
<1>7. ASSUME NEW x, \A r \in S : x \in G[r] PROVE x \in T
  <2>1. x \in D
    BY <1>0, <1>4, <1>7 DEF Left
  <2>2. \A q \in B : lm[x] \in F[q]
    BY <1>0, <1>3, <1>7, <2>1 DEF Left, Image
  <2> QED BY <1>0, <1>5, <2>1, <2>2
<1>8. IsMaximalBiclique(G, min_l, min_r, T, S)
  BY <1>3, <1>4, <1>6, <1>7, CannotGrow
<1> QED BY <1>3, <1>8
=============================================================================
