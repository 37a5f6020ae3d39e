----------------------------- MODULE MainProofs -----------------------------
(***************************************************************************)
(* Proofs about the program, from the file to the number it prints, for    *)
(* files, thresholds and options of any size, in three parts:              *)
(*                                                                         *)
(*  - AdaMBE finds each maximal biclique above the thresholds once, counts *)
(*    it once and finds nothing else, for any graph in Reorder's order and *)
(*    any value of NN that fits in a word.  AdaNodesProofs has what one    *)
(*    step of an activation does; here are the stack, Execute's loop and   *)
(*    the counter.                                                         *)
(*  - Prune1H: a vertex's degree is the number of its neighbors the loop   *)
(*    has not been through yet, and the vertices whose degree is too low   *)
(*    are those that are or were seeds.                                    *)
(*  - main: what is loaded, pruned, swapped and put in order remains the   *)
(*    part of the file in which all bicliques asked for are, with maps     *)
(*    that lead back; so any finder starts on that, and what AdaMBE counts *)
(*    are the maximal bicliques of the file.                               *)
(***************************************************************************)
EXTENDS Main, AdaNodesProofs

----------------------------------------------------------------------------
(* What is counted, and what is left to be found.                          *)

\* Ids of L and R are of different vertices of the input.
MapsOK ==
  /\ \A x, y \in UNION {graph_[r] : r \in DOMAIN graph_} :
       l_map_[x] = l_map_[y] => x = y
  /\ \A u, v \in DOMAIN graph_ : r_map_[u] = r_map_[v] => u = v

\* A biclique of the graph as one of the input.
Sides(b) == <<{l_map_[x] : x \in b[1]}, {r_map_[x] : x \in b[2]}>>
Converted(b) == IF transposed THEN <<Sides(b)[2], Sides(b)[1]>> ELSE Sides(b)

\* The bicliques of S that are counted, as bicliques of the input.
Known(S) == {Converted(Biclique(T)) : T \in Counted(S)}

\* InInput converts one by one.
LEMMA Conversion ==
  ASSUME NEW B
  PROVE  InInput(B) = {Converted(b) : b \in B}
BY DEF InInput, Converted, Sides

\* The L side of a biclique of the input tells which it is.
LEMMA ConvertedOnce ==
  ASSUME MapsOK, NEW T \in All, NEW U \in All,
         Converted(Biclique(T)) = Converted(Biclique(U))
  PROVE  T = U
<1>1. T \subseteq UNION {graph_[r] : r \in DOMAIN graph_}
      /\ U \subseteq UNION {graph_[r] : r \in DOMAIN graph_}
  BY DEF All, TodoFrom
<1>2. Sides(Biclique(T))[1] = Sides(Biclique(U))[1]
  BY DEF Converted, Sides
<1>3. {l_map_[x] : x \in T} = {l_map_[x] : x \in U}
  BY <1>2 DEF Sides, Biclique
<1>4. ASSUME NEW x \in T PROVE x \in U
  <2>1. PICK y \in U : l_map_[y] = l_map_[x]
    BY <1>3
  <2> QED BY <1>1, <2>1 DEF MapsOK
<1>5. ASSUME NEW x \in U PROVE x \in T
  <2>1. PICK y \in T : l_map_[y] = l_map_[x]
    BY <1>3
  <2> QED BY <1>1, <2>1 DEF MapsOK
<1> QED BY <1>4, <1>5

\* What the input asks for is known when all is found.
LEMMA WantedIsAll ==
  ASSUME InputOK
  PROVE  InInput(MaximalBicliques(graph_, min_l_size_, min_r_size_)) = Known(All)
<1> DEFINE M == MaximalBicliques(graph_, min_l_size_, min_r_size_)
<1>1. M = {Biclique(T) : T \in Counted(All)}
  BY AllCounted
<1>2. InInput(M) = {Converted(b) : b \in M}
  BY Conversion
<1> QED BY <1>1, <1>2 DEF Known

\* One wanted biclique more is found and counted, or none.
Counts(f0, n0, f1, n1) ==
  \/ f1 = f0 /\ n1 = n0
  \/ (\E b \in wanted \ f0 : f1 = f0 \cup {b}) /\ n1 = n0 + 1

\* The bicliques f, n in number, are those known when Due is still to be found.
Settled(Due, f, n) ==
  /\ f = Known(All \ Due)
  /\ IsFiniteSet(f) /\ n = Cardinality(f)

\* The biclique with the L side T is counted: one more if R is large enough.
LEMMA Counting ==
  ASSUME MapsOK, wanted = Known(All),
         NEW Due, NEW Due2, NEW T, T \in Due, T \in All, Due2 = Due \ {T},
         NEW f0, NEW n0, Settled(Due, f0, n0),
         NEW R, R = CommonR(graph_, T),
         NEW f1, f1 = f0 \cup InInput(Result(T, R)),
         NEW n1, n1 = n0 + Cardinality(Result(T, R))
  PROVE  Settled(Due2, f1, n1) /\ Counts(f0, n0, f1, n1)
<1>0. f0 = Known(All \ Due) /\ IsFiniteSet(f0) /\ n0 = Cardinality(f0)
  BY DEF Settled
<1>1. All \ Due2 = (All \ Due) \cup {T}
  OBVIOUS
<1>2. CASE T \in Counted({T})
  <2>1. Result(T, R) = {Biclique(T)}
    BY <1>2 DEF Counted, Result, Biclique
  <2> DEFINE b == Converted(Biclique(T))
  <2>2. InInput(Result(T, R)) = {b}
    BY <2>1, Conversion
  <2>3. Counted(All \ Due2) = Counted(All \ Due) \cup {T}
    BY <1>1, <1>2 DEF Counted
  <2>4. f1 = Known(All \ Due2)
    BY <1>0, <2>2, <2>3 DEF Known
  <2>5. b \notin f0
    <3>1. \A U \in All \ Due : Converted(Biclique(U)) # b
      BY ConvertedOnce
    <3> QED BY <1>0, <3>1 DEF Known, Counted
  <2>6. b \in wanted
    BY <1>2 DEF Known, Counted
  <2>7. n1 = n0 + 1
    BY <2>1, FS_Singleton
  <2>8. IsFiniteSet(f1) /\ Cardinality(f1) = Cardinality(f0) + 1
    BY <1>0, <2>2, <2>5, FS_AddElement
  <2> HIDE DEF b
  <2> QED BY <1>0, <2>2, <2>4, <2>5, <2>6, <2>7, <2>8 DEF Counts, Settled
<1>3. CASE T \notin Counted({T})
  <2>1. Result(T, R) = {}
    BY <1>3 DEF Counted, Result
  <2>2. InInput(Result(T, R)) = {}
    BY <2>1, Conversion
  <2>3. Counted(All \ Due2) = Counted(All \ Due)
    BY <1>1, <1>3 DEF Counted
  <2>4. n0 \in Nat
    BY <1>0, FS_CardinalityType
  <2>5. n1 = n0
    BY <2>1, <2>4, FS_EmptySet
  <2> QED BY <1>0, <2>2, <2>3, <2>5 DEF Known, Counts, Settled
<1> QED BY <1>2, <1>3

----------------------------------------------------------------------------
(* The stack of activations.                                               *)

\* Every activation on the stack s is at a node of the subtree of v.
Rooted(f, v) == v \in f.R /\ \A r \in f.R \cup Rest(f) : v <= r
Frames(s, v) == Activations(s) /\ \A k \in 1 .. Len(s) : Rooted(s[k], v)

\* What is to be found by the roots Execute has not come to, and by the stack.
Roofs(s, v) == TodoFrom(graph_, min_l_size_, IF Len(s) = 0 THEN v ELSE v + 1)
Pending(s, v) == Roofs(s, v) \cup Belows(s)

\* Nothing below an activation of v's subtree is left to a later root.
LEMMA BelowHas ==
  ASSUME InputOK, NEW f, Frame(f), NEW v \in Nat, Rooted(f, v), NEW T \in Below(f)
  PROVE  /\ T \in TodoFrom(graph_, min_l_size_, v)
         /\ T \notin TodoFrom(graph_, min_l_size_, v + 1)
<1>1. PICK L : Node(graph_, L, f.R) /\ L = LSide(f)
  BY SetSides DEF Frame, SetFrame, BitFrame
<1>2. /\ T \subseteq LSide(f) /\ Closed(graph_, T) /\ Cardinality(T) >= min_l_size_
      /\ CommonR(graph_, T) \ f.R \subseteq Rest(f)
  BY DEF Below, Todo
<1>3. f.R \subseteq CommonR(graph_, T)
  BY <1>1, <1>2, SmallerHasMore
<1>4. v \in f.R /\ \A r \in CommonR(graph_, T) : v <= r
  BY <1>2 DEF Rooted
<1>5. ~(v + 1 <= v)
  OBVIOUS
<1> QED BY <1>2, <1>3, <1>4, <1>5, ClosedInside DEF TodoFrom

\* The last activation passes over a candidate.
LEMMA Passing ==
  ASSUME NEW s, NEW v, Frames(s, v), Apart(s), Len(s) # 0,
         NEW g, PassesOver(s[Len(s)], g), NEW t, t = [s EXCEPT ![Len(s)] = g]
  PROVE  /\ Frames(t, v) /\ Apart(t)
         /\ Pending(t, v) = Pending(s, v)
<1> DEFINE n == Len(s)
<1>1. Activations(s) /\ IsStack(s)
  BY DEF Frames, Activations
<1>2. TopReplaced(s, g, t)
  BY <1>1, Replaced
<1>3. Activations(t) /\ Apart(t) /\ Belows(t) = Belows(s)
  BY <1>1, <1>2, StackPasses
<1>4. /\ Len(t) = n /\ n \in 1 .. n /\ t[n] = g
      /\ \A k \in 1 .. n : k # n => t[k] = s[k]
  BY <1>2 DEF TopReplaced
<1>5. g.R = s[n].R /\ Rest(g) \subseteq Rest(s[n])
  BY DEF PassesOver
<1> HIDE DEF n
<1>6. \A k \in 1 .. n : Rooted(s[k], v)
  BY DEF Frames, n
<1>7. \A k \in 1 .. n : Rooted(t[k], v)
  <2> TAKE k \in 1 .. n
  <2>1. CASE k = n
    BY <1>4, <1>5, <1>6, <2>1 DEF Rooted
  <2>2. CASE k # n
    BY <1>4, <1>6, <2>2
  <2> QED BY <2>1, <2>2
<1>8. Roofs(t, v) = Roofs(s, v)
  BY <1>4 DEF Roofs, n
<1> QED BY <1>3, <1>4, <1>7, <1>8 DEF Frames, Pending

\* From the stack s, what is to be found in the subtree of v and later becomes
\* what is from t and the biclique with the L side T.
Takes(s, t, v, T) ==
  /\ Frames(t, v) /\ Apart(t)
  /\ T \in Pending(s, v) /\ T \in All
  /\ Pending(t, v) = Pending(s, v) \ {T}

\* The last activation finds a biclique and calls the search on it.
LEMMA Splitting ==
  ASSUME InputOK, NEW s, NEW v \in Nat, Frames(s, v), Apart(s), Len(s) # 0,
         NEW g, NEW h, NEW T, Splits(s[Len(s)], g, h, T),
         NEW t, t = Append([s EXCEPT ![Len(s)] = g], h)
  PROVE  Takes(s, t, v, T)
<1> DEFINE n == Len(s)
           u == [s EXCEPT ![Len(s)] = g]
           f == s[n]
<1>1. Activations(s) /\ IsStack(s) /\ n \in Nat
  BY DEF Frames, Activations, IsStack
<1>2. t = Append(u, h)
  OBVIOUS
<1>3. TopReplaced(s, g, u)
  BY <1>1, Replaced
<1> HIDE DEF u
<1>4. PutOn(u, h, t)
  BY <1>2, <1>3, Pushed DEF TopReplaced
<1>5. FindsOne(s, t, T)
  BY <1>1, <1>3, <1>4, StackSplits
<1>6. /\ Activations(t) /\ Apart(t)
      /\ T \in Belows(s) /\ Belows(t) = Belows(s) \ {T}
  BY <1>5 DEF FindsOne
<1>7. /\ Len(t) = n + 1 /\ n \in 1 .. n /\ t[n] = g /\ t[n + 1] = h
      /\ \A k \in 1 .. n : k # n => t[k] = s[k]
  BY <1>3, <1>4 DEF TopReplaced, PutOn
<1> HIDE DEF n
<1>8. /\ g.R = f.R /\ Rest(g) \subseteq Rest(f)
      /\ f.R \subseteq h.R /\ h.R \cup Rest(h) \subseteq f.R \cup Rest(f)
      /\ T \in Below(f)
  BY DEF Splits, n
<1>9. \A k \in 1 .. n : Frame(s[k]) /\ Rooted(s[k], v)
  BY DEF Frames, Activations, n
<1>10. Rooted(g, v) /\ Rooted(h, v)
  BY <1>7, <1>8, <1>9 DEF Rooted
<1>11. \A k \in 1 .. n + 1 : k = n + 1 \/ k = n \/ (k \in 1 .. n /\ k # n)
  BY <1>1
<1>12. \A k \in 1 .. n + 1 : Rooted(t[k], v)
  BY <1>7, <1>9, <1>10, <1>11
<1>13. /\ T \in TodoFrom(graph_, min_l_size_, v)
       /\ T \notin TodoFrom(graph_, min_l_size_, v + 1)
  <2>1. Frame(f) /\ Rooted(f, v) /\ T \in Below(f)
    BY <1>7, <1>8, <1>9
  <2> HIDE DEF f
  <2> QED BY <2>1, BelowHas
<1>14. Roofs(s, v) = TodoFrom(graph_, min_l_size_, v + 1)
       /\ Roofs(t, v) = TodoFrom(graph_, min_l_size_, v + 1)
  BY <1>1, <1>7 DEF Roofs, n
<1>15. T \in All
  BY <1>13, FromAll
<1>16. T \in Pending(s, v) /\ Pending(t, v) = Pending(s, v) \ {T}
  BY <1>6, <1>13, <1>14 DEF Pending
<1> QED BY <1>6, <1>7, <1>12, <1>15, <1>16 DEF Frames, Takes

\* Execute calls the search on the root v.
LEMMA Opening ==
  ASSUME InputOK, NEW v \in Nat, NEW h, Opens(v, h)
  PROVE  Takes(<<>>, <<h>>, v, graph_[v])
<1> DEFINE t == <<h>>
           T == graph_[v]
           here  == TodoFrom(graph_, min_l_size_, v)
           after == TodoFrom(graph_, min_l_size_, v + 1)
<1>1. Len(<<>>) = 0 /\ Belows(<<>>) = {}
  BY EmptyStack
<1>2. /\ Frame(h) /\ Rooted(h, v)
      /\ here = after \cup Below(h) \cup {T}
      /\ after \cap Below(h) = {}
      /\ T \notin after /\ T \notin Below(h)
  BY DEF Opens, Rooted
<1>3. /\ Len(t) = 1 /\ t[1] = h /\ Activations(t) /\ Apart(t)
      /\ Belows(t) = Below(h)
  BY <1>2, OneActivation
<1> HIDE DEF t
<1>4. \A k : k \in 1 .. 1 <=> k = 1
  OBVIOUS
<1>5. Frames(t, v)
  BY <1>2, <1>3, <1>4 DEF Frames
<1>8. Roofs(t, v) = after /\ Roofs(<<>>, v) = here
  BY <1>1, <1>3 DEF Roofs
<1>9. T \in Pending(<<>>, v) /\ Pending(t, v) = Pending(<<>>, v) \ {T}
  BY <1>1, <1>2, <1>3, <1>8 DEF Pending
<1>10. T \in All
  BY <1>2, FromAll
<1> QED BY <1>3, <1>5, <1>9, <1>10 DEF t, Takes

\* The last activation, below which nothing is left, returns.
LEMMA Returning ==
  ASSUME NEW s, NEW v \in Nat, Frames(s, v), Apart(s), Len(s) # 0,
         Below(s[Len(s)]) = {}, NEW t, t = Front(s),
         NEW w, w = IF Len(s) = 1 THEN v + 1 ELSE v
  PROVE  Frames(t, w) /\ Apart(t) /\ Pending(t, w) = Pending(s, v)
<1> DEFINE n == Len(s)
<1>1. Activations(s) /\ IsStack(s) /\ n \in Nat
  BY DEF Frames, Activations, IsStack
<1>2. Len(t) = n - 1 /\ \A k \in 1 .. n - 1 : t[k] = s[k]
  BY <1>1, Popped
<1>3. Activations(t) /\ Apart(t) /\ Belows(t) = Belows(s)
  BY <1>1, StackReturns
<1> HIDE DEF n
<1>4. n # 0 /\ w = IF n = 1 THEN v + 1 ELSE v
  BY DEF n
<1>5. Frames(t, w)
  <2>1. CASE n = 1
    <3>1. 1 .. n - 1 = {}
      BY <2>1
    <3> QED BY <1>2, <1>3, <3>1 DEF Frames
  <2>2. CASE n # 1
    <3>1. \A k \in 1 .. n - 1 : k \in 1 .. n
      BY <1>1
    <3> QED BY <1>2, <1>3, <1>4, <2>2, <3>1 DEF Frames, n
  <2> QED BY <2>1, <2>2
<1>6. Roofs(t, w) = Roofs(s, v)
  BY <1>1, <1>2, <1>4 DEF Roofs, n
<1> QED BY <1>3, <1>5, <1>6 DEF Pending

----------------------------------------------------------------------------
(* The specification, and its inductive invariant.                         *)

\* AdaMBE is called on a graph that BiGraph and Reorder have made.
AdaInit ==
  /\ finder = "AdaMBE"
  /\ InputOK /\ Ordered(graph_) /\ MapsOK
  /\ wanted = InInput(MaximalBicliques(graph_, min_l_size_, min_r_size_))
  /\ StartState
  /\ status = "runs"

AdaSpec == AdaInit /\ [][Next]_vars

InputsOK ==
  /\ finder = "AdaMBE"
  /\ InputOK /\ Ordered(graph_) /\ MapsOK
  /\ wanted = Known(All)

\* Each biclique is counted, is to be found below one activation, or has a root
\* to which Execute has not come.  At EXIT_TIME the last call is missing.
Core ==
  /\ InputsOK
  /\ status \in {"runs", "finished", "expired"}
  /\ cur_v_ \in Nat
  /\ Frames(stack, cur_v_) /\ Apart(stack)
  /\ found \subseteq wanted /\ IsFiniteSet(found)
  /\ maximal_nodes_ = Cardinality(found)
  /\ status # "expired" => found = Known(All \ Pending(stack, cur_v_))
  /\ status = "finished" => found = wanted

IInv == Core /\ RootsComplete

\* An input that stays the same leaves what is to be found as it is.
LEMMA StackKept ==
  ASSUME UNCHANGED inputVars, NEW s, NEW v
  PROVE  /\ Frames(s, v)' <=> Frames(s, v)
         /\ Apart(s)' <=> Apart(s)
         /\ Pending(s, v)' = Pending(s, v)
<1>1. /\ Activations(s)' <=> Activations(s)
      /\ Apart(s)' <=> Apart(s)
      /\ Belows(s)' = Belows(s)
  BY ActivationsKept
<1>2. Frames(s, v)' <=> Frames(s, v)
  BY <1>1 DEF Frames
<1>3. Roofs(s, v)' = Roofs(s, v)
  BY DEF Roofs, inputVars
<1> QED BY <1>1, <1>2, <1>3 DEF Pending

\* What is known by what has been found stays the same.
LEMMA KnownKept ==
  ASSUME UNCHANGED fixed, NEW S
  PROVE  Known(S)' = Known(S) /\ All' = All
BY DEF fixed, inputVars, mapVars, Known, Counted, Converted, Sides, Biclique, All

\* The input stays as it is required to be.
LEMMA InputsKept ==
  ASSUME InputsOK, UNCHANGED fixed
  PROVE  InputsOK'
<1>1. (InputOK /\ Ordered(graph_) /\ MapsOK)'
  BY DEF InputsOK, fixed, inputVars, mapVars, InputOK, MapsOK
<1>2. Known(All)' = Known(All)
  BY KnownKept DEF fixed, inputVars, mapVars, Known, Counted, Converted, Sides,
                   Biclique, All
<1>3. finder' = "AdaMBE" /\ wanted' = wanted
  BY DEF fixed, InputsOK
<1> QED BY <1>1, <1>2, <1>3 DEF InputsOK

\* What a step of Execute does: it may count one biclique more, and may find
\* that EXIT_TIME has passed.
Goes ==
  /\ Core' /\ UNCHANGED fixed
  /\ status' \in {"runs", "expired"}
  /\ status' = "expired" => cur_v_' = cur_v_
  /\ Counts(found, maximal_nodes_, found', maximal_nodes_')

\* A step that counts nothing leaves all to be found.
LEMMA GoesUncounted ==
  ASSUME Core, status = "runs", UNCHANGED fixed, Uncounted, status' = "runs",
         cur_v_' \in Nat, Frames(stack', cur_v_'), Apart(stack'),
         Pending(stack', cur_v_') = Pending(stack, cur_v_)
  PROVE  Goes
<1>1. UNCHANGED inputVars
  BY DEF fixed
<1>2. \A s, v : /\ Frames(s, v)' <=> Frames(s, v)
                /\ Apart(s)' <=> Apart(s)
                /\ Pending(s, v)' = Pending(s, v)
  BY <1>1, StackKept
<1>3. Frames(stack, cur_v_)' /\ Apart(stack)'
      /\ Pending(stack, cur_v_)' = Pending(stack, cur_v_)
  BY <1>2
<1>4. \A S : Known(S)' = Known(S) /\ All' = All
  BY KnownKept
<1>5. Known(All \ Pending(stack, cur_v_))' = Known(All \ Pending(stack, cur_v_))
  BY <1>3, <1>4
<1>6. InputsOK'
  BY InputsKept DEF Core
<1>7. found' = found /\ maximal_nodes_' = maximal_nodes_ /\ wanted' = wanted
  BY DEF Uncounted, fixed
<1>8. Core'
  BY <1>3, <1>5, <1>6, <1>7 DEF Core
<1> QED BY <1>7, <1>8 DEF Goes, Counts

\* A step that counts the biclique with the L side T and calls the search, which
\* puts the stack s where EXIT_TIME has not passed.
LEMMA GoesCounted ==
  ASSUME Core, status = "runs", UNCHANGED fixed, cur_v_' = cur_v_,
         NEW T, NEW R, R = CommonR(graph_, T), Count(T, R),
         NEW s, Enter(s), Takes(stack, s, cur_v_, T)
  PROVE  Goes
<1> DEFINE Due == Pending(stack, cur_v_)
           Due2 == Pending(s, cur_v_)
<1>0. /\ T \in Due /\ T \in All /\ Due2 = Due \ {T}
      /\ Frames(s, cur_v_) /\ Apart(s)
  BY DEF Takes
<1>1. UNCHANGED inputVars
  BY DEF fixed
<1>2. \A t, v : /\ Frames(t, v)' <=> Frames(t, v)
                /\ Apart(t)' <=> Apart(t)
                /\ Pending(t, v)' = Pending(t, v)
  BY <1>1, StackKept
<1>3. \A S : Known(S)' = Known(S) /\ All' = All
  BY KnownKept
<1>4. InputsOK' /\ wanted' = wanted
  BY InputsKept DEF Core, fixed
<1>5. /\ found' = Known(All \ Due2) /\ IsFiniteSet(found')
      /\ maximal_nodes_' = Cardinality(found')
      /\ Counts(found, maximal_nodes_, found', maximal_nodes_')
  <2>1. MapsOK /\ wanted = Known(All) /\ Settled(Due, found, maximal_nodes_)
    BY DEF Core, InputsOK, Settled
  <2>2. /\ found' = found \cup InInput(Result(T, R))
        /\ maximal_nodes_' = maximal_nodes_ + Cardinality(Result(T, R))
    BY DEF Count
  <2>3. T \in Due /\ T \in All /\ Due2 = Due \ {T}
    BY <1>0
  <2>5. R = CommonR(graph_, T)
    OBVIOUS
  <2> HIDE DEF Due, Due2
  <2>4. /\ Settled(Due2, found', maximal_nodes_')
        /\ Counts(found, maximal_nodes_, found', maximal_nodes_')
    BY ONLY <2>1, <2>2, <2>3, <2>5, Counting
  <2> QED BY <2>4 DEF Settled
<1>6. found' \subseteq wanted'
  <2>1. found \subseteq wanted
    BY DEF Core
  <2> QED BY <1>4, <1>5, <2>1 DEF Counts
<1>7. CASE stack' = s /\ UNCHANGED status
  <2>1. Frames(stack, cur_v_)' /\ Apart(stack)' /\ Pending(stack, cur_v_)' = Due2
    BY <1>0, <1>2, <1>7
  <2>2. Known(All \ Pending(stack, cur_v_))' = Known(All \ Due2)
    BY <1>3, <2>1
  <2>3. Core'
    BY <1>4, <1>5, <1>6, <1>7, <2>1, <2>2 DEF Core
  <2> QED BY <1>5, <1>7, <2>3 DEF Goes
<1>8. CASE status' = "expired" /\ UNCHANGED stack
  <2>1. Frames(stack, cur_v_) /\ Apart(stack)
    BY DEF Core
  <2>2. Frames(stack, cur_v_)' /\ Apart(stack)'
    BY <1>2, <1>8, <2>1
  <2>3. Core'
    BY <1>4, <1>5, <1>6, <1>8, <2>2 DEF Core
  <2> QED BY <1>5, <1>8, <2>3 DEF Goes
<1> QED BY <1>7, <1>8 DEF Enter

----------------------------------------------------------------------------
(* The steps of Execute and of biclique_find.                              *)

\* Execute passes over a vertex.
LEMMA SkipRootGoes == Core /\ SkipRoot => Goes
<1> SUFFICES ASSUME Core, SkipRoot PROVE Goes
  OBVIOUS
<1>1. /\ InputOK /\ cur_v_ \in Nat /\ cur_v_ \in DOMAIN graph_
      /\ status = "runs" /\ stack = <<>>
      /\ Skipped(cur_v_)
      /\ cur_v_' = cur_v_ + 1 /\ Uncounted
      /\ UNCHANGED <<fixed, stack, heap, status>>
  BY DEF Core, InputsOK, SkipRoot, AtRoot, NextRoot, Roots
<1>2. Passed(graph_, min_l_size_, cur_v_)
  BY <1>1 DEF Skipped, Passed
<1>3. IsGraph(graph_) /\ min_l_size_ \in Nat \ {0}
  BY <1>1 DEF InputOK
<1>4. TodoFrom(graph_, min_l_size_, cur_v_ + 1) = TodoFrom(graph_, min_l_size_, cur_v_)
  BY <1>1, <1>2, <1>3, RootPassed
<1>5. 1 .. 0 = {}
  OBVIOUS
<1>6. Frames(<<>>, cur_v_ + 1) /\ Apart(<<>>)
  BY <1>5, EmptyStack DEF Frames, Apart
<1>7. Pending(<<>>, cur_v_ + 1) = Pending(<<>>, cur_v_)
  BY <1>4, EmptyStack DEF Pending, Roofs
<1>8. /\ cur_v_' \in Nat /\ Frames(stack', cur_v_') /\ Apart(stack')
      /\ Pending(stack', cur_v_') = Pending(stack, cur_v_)
  BY <1>1, <1>6, <1>7
<1>9. UNCHANGED fixed /\ status' = "runs"
  BY <1>1
<1> QED BY <1>1, <1>8, <1>9, GoesUncounted

\* Execute counts a vertex's biclique and calls the search on it.
LEMMA OpenGoes ==
  ASSUME Core, status = "runs", stack = <<>>, UNCHANGED fixed, cur_v_' = cur_v_,
         NEW h, Opens(cur_v_, h), Enter(<<h>>), Count(graph_[cur_v_], h.R)
  PROVE  Goes
<1> DEFINE v == cur_v_
           T == graph_[v]
           R == h.R
           s == <<h>>
<1>1. InputOK /\ v \in Nat
  BY DEF Core, InputsOK
<1>2. Opens(v, h)
  OBVIOUS
<1>3. R = CommonR(graph_, T)
  BY DEF Opens
<1> HIDE DEF v
<1>4. Takes(<<>>, <<h>>, v, graph_[v])
  BY <1>1, <1>2, Opening
<1>5. Takes(stack, s, cur_v_, T)
  BY <1>4 DEF v
<1>6. Count(T, R) /\ Enter(s)
  BY DEF v
<1> HIDE DEF T, R, s
<1> QED BY <1>3, <1>5, <1>6, GoesCounted

\* Execute expands a vertex with more than NN neighbors.
LEMMA ExpandSetRootGoes == Core /\ ExpandSetRoot => Goes
<1> SUFFICES ASSUME Core, ExpandSetRoot PROVE Goes
  OBVIOUS
<1> DEFINE h == SetRoot(cur_v_)
<1>1. /\ InputOK /\ Ordered(graph_) /\ cur_v_ \in DOMAIN graph_
      /\ status = "runs" /\ stack = <<>>
      /\ ~Passed(graph_, min_l_size_, cur_v_)
  BY DEF Core, InputsOK, ExpandSetRoot, AtRoot, Roots, Skipped, Passed
<1>2. UNCHANGED fixed /\ cur_v_' = cur_v_ /\ Enter(<<h>>) /\ Count(graph_[cur_v_], h.R)
  BY DEF ExpandSetRoot
<1>3. Opens(cur_v_, h)
  BY <1>1, RootsOpen
<1> HIDE DEF h
<1> QED BY <1>1, <1>2, <1>3, OpenGoes

\* Execute expands a vertex whose neighbors fit in a bitset.
LEMMA ExpandBitRootGoes == Core /\ ExpandBitRoot => Goes
<1> SUFFICES ASSUME Core, ExpandBitRoot PROVE Goes
  OBVIOUS
<1> DEFINE h == BitRoot(cur_v_)
<1>1. /\ InputOK /\ Ordered(graph_) /\ cur_v_ \in DOMAIN graph_
      /\ status = "runs" /\ stack = <<>>
      /\ ~Passed(graph_, min_l_size_, cur_v_)
      /\ Cardinality(graph_[cur_v_]) <= NN
  BY DEF Core, InputsOK, ExpandBitRoot, AtRoot, Roots, Skipped, Passed
<1>2. UNCHANGED fixed /\ cur_v_' = cur_v_ /\ Enter(<<h>>) /\ Count(graph_[cur_v_], h.R)
  BY DEF ExpandBitRoot
<1>3. Opens(cur_v_, h)
  BY <1>1, RootsOpen
<1> HIDE DEF h
<1> QED BY <1>1, <1>2, <1>3, OpenGoes

\* An activation passes over a candidate.
LEMMA PassGoes ==
  ASSUME Core, status = "runs", stack # <<>>, UNCHANGED <<fixed, cur_v_>>,
         NEW g, PassesOver(Top, g), Continue(g), Uncounted
  PROVE  Goes
<1> DEFINE s == stack
           v == cur_v_
           t == [s EXCEPT ![Len(s)] = g]
<1>1. Frames(s, v) /\ Apart(s) /\ v \in Nat /\ Len(s) # 0
  BY EmptyStack DEF Core, Frames, Activations
<1>2. PassesOver(s[Len(s)], g)
  BY DEF Top
<1>3. stack' = t /\ status' = "runs"
  BY DEF Continue
<1> HIDE DEF s, v
<1>4. Frames(t, v) /\ Apart(t) /\ Pending(t, v) = Pending(s, v)
  BY <1>1, <1>2, Passing
<1>5. /\ cur_v_' \in Nat /\ Frames(stack', cur_v_') /\ Apart(stack')
      /\ Pending(stack', cur_v_') = Pending(stack, cur_v_)
  BY <1>1, <1>3, <1>4 DEF s, v
<1>6. UNCHANGED fixed
  OBVIOUS
<1> QED BY <1>3, <1>5, <1>6, GoesUncounted

\* An activation counts a biclique and calls the search on it.
LEMMA SplitGoes ==
  ASSUME Core, status = "runs", stack # <<>>, UNCHANGED <<fixed, cur_v_>>,
         NEW g, NEW h, NEW T, Splits(Top, g, h, T), Call(g, h), Count(T, h.R)
  PROVE  Goes
<1> DEFINE s == stack
           v == cur_v_
           t == Append([s EXCEPT ![Len(s)] = g], h)
           R == h.R
<1>1. Frames(s, v) /\ Apart(s) /\ v \in Nat /\ Len(s) # 0 /\ InputOK
  BY EmptyStack DEF Core, Frames, Activations, InputsOK
<1>2. Splits(s[Len(s)], g, h, T)
  BY DEF Top
<1>3. Enter(t) /\ Count(T, R) /\ R = CommonR(graph_, T)
  BY DEF Call, Splits
<1>0. t = Append([s EXCEPT ![Len(s)] = g], h)
  OBVIOUS
<1> HIDE DEF s, v, t
<1>4. Takes(s, t, v, T)
  BY <1>0, <1>1, <1>2, Splitting
<1> HIDE DEF R
<1>5. Takes(stack, t, cur_v_, T)
  BY <1>4 DEF s, v
<1>6. UNCHANGED fixed /\ cur_v_' = cur_v_
  OBVIOUS
<1> QED BY <1>3, <1>5, <1>6, GoesCounted

\* The activation on top, by its kind.
LEMMA TopIs ==
  ASSUME Core, stack # <<>>
  PROVE  /\ InputOK /\ Frame(Top)
         /\ Top.mode = "set" => SetFrame(Top)
         /\ Top.mode = "bit" => BitFrame(Top)
<1>1. Frames(stack, cur_v_) /\ Len(stack) # 0 /\ Len(stack) \in Nat /\ InputOK
  BY EmptyStack DEF Core, Frames, Activations, InputsOK, IsStack
<1>2. Frame(stack[Len(stack)])
  BY <1>1 DEF Frames, Activations
<1> QED BY <1>1, <1>2, SetSides, BitSides DEF Top, Frame

\* The search passes over a candidate that is marked.
LEMMA SkipCandidateGoes == Core /\ SkipCandidate => Goes
<1> SUFFICES ASSUME Core, SkipCandidate PROVE Goes
  OBVIOUS
<1> DEFINE f == Top
           g == [f EXCEPT !.i = @ + 1]
<1>1. /\ status = "runs" /\ stack # <<>> /\ Unfinished(f) /\ f.mode = "set"
      /\ Candidate(f).first < 0
      /\ Continue(g) /\ Uncounted /\ UNCHANGED <<fixed, cur_v_>>
  BY DEF SkipCandidate, OnSet, Active
<1>2. InputOK /\ SetFrame(f)
  BY <1>1, TopIs
<1>3. PassesOver(f, g)
  <2>1. ~(Candidate(f).first >= 0)
    <3>1. f.C \in Seq(SetEntry) /\ f.i \in 1 .. Len(f.C)
      BY <1>1, <1>2 DEF SetFrame, Unfinished
    <3>2. Candidate(f) \in SetEntry
      BY <3>1, ElementOfSeq DEF Candidate
    <3>3. DOMAIN graph_ \subseteq Int
      BY <1>2 DEF InputOK, IsGraph
    <3> QED BY <1>1, <3>2, <3>3 DEF SetEntry
  <2> HIDE DEF f
  <2> QED BY <1>1, <1>2, <2>1, SkipPasses
<1> HIDE DEF g
<1> QED BY <1>1, <1>3, PassGoes

\* The search tries a large candidate.
LEMMA LargeCandidateGoes == Core /\ LargeCandidate => Goes
<1> SUFFICES ASSUME Core, LargeCandidate PROVE Goes
  OBVIOUS
<1> DEFINE f == Top
           g == Consumed(f)
           h == SetChild(f)
           T == h.L
<1>1. /\ status = "runs" /\ stack # <<>> /\ Unfinished(f) /\ f.mode = "set"
      /\ Candidate(f).first >= 0
      /\ UNCHANGED <<fixed, cur_v_>>
      /\ IF IsMaximal(f) THEN Call(g, h) /\ Count(T, h.R)
                         ELSE Continue(g) /\ Uncounted
  BY DEF LargeCandidate, OnSet, Active
<1>2. InputOK /\ SetFrame(f)
  BY <1>1, TopIs
<1>3. /\ IsMaximal(f) => Splits(f, g, h, T)
      /\ ~IsMaximal(f) => PassesOver(f, g)
  <2> HIDE DEF f
  <2> QED BY <1>1, <1>2, LargeSplits
<1> HIDE DEF g, h
<1>4. CASE IsMaximal(f)
  <2> HIDE DEF T
  <2> QED BY <1>1, <1>3, <1>4, SplitGoes
<1>5. CASE ~IsMaximal(f)
  BY <1>1, <1>3, <1>5, PassGoes
<1> QED BY <1>4, <1>5

\* The search tries a candidate that fits in a bitset.
LEMMA SmallCandidateGoes == Core /\ SmallCandidate => Goes
<1> SUFFICES ASSUME Core, SmallCandidate PROVE Goes
  OBVIOUS
<1> DEFINE f == Top
           g == [f EXCEPT !.i = @ + 1]
           h == BitChild(f)
           T == Candidate(f).L
<1>1. /\ status = "runs" /\ stack # <<>> /\ Unfinished(f) /\ f.mode = "set"
      /\ Candidate(f).first >= 0 /\ Cardinality(Candidate(f).L) <= NN
      /\ UNCHANGED <<fixed, cur_v_>>
      /\ IF IsMaximalSmall(f) THEN Call(g, h) /\ Count(T, h.R)
                              ELSE Continue(g) /\ Uncounted
  BY DEF SmallCandidate, OnSet, Active
<1>2. InputOK /\ SetFrame(f)
  BY <1>1, TopIs
<1>3. /\ IsMaximalSmall(f) => Splits(f, g, h, T)
      /\ ~IsMaximalSmall(f) => PassesOver(f, g)
  <2> HIDE DEF f
  <2> QED BY <1>1, <1>2, SmallSplits
<1> HIDE DEF g, h, T
<1>4. CASE IsMaximalSmall(f)
  BY <1>1, <1>3, <1>4, SplitGoes
<1>5. CASE ~IsMaximalSmall(f)
  BY <1>1, <1>3, <1>5, PassGoes
<1> QED BY <1>4, <1>5

\* The search tries an entry of an activation on bitsets.
LEMMA EntryGoes == Core /\ Entry => Goes
<1> SUFFICES ASSUME Core, Entry PROVE Goes
  OBVIOUS
<1> DEFINE f == Top
           g == BitConsumed(f)
           h == BitEntryChild(f)
           T == Vertices(f.ids, Witnesses(f).L_prime)
<1>1. /\ status = "runs" /\ stack # <<>> /\ Unfinished(f) /\ f.mode = "bit"
      /\ UNCHANGED <<fixed, cur_v_>>
      /\ IF Witnesses(f).is_maximal THEN Call(g, h) /\ Count(T, h.R)
                                    ELSE Continue(g) /\ Uncounted
  BY DEF Entry, OnBit, Active
<1>2. InputOK /\ BitFrame(f)
  BY <1>1, TopIs
<1>3. /\ Witnesses(f).is_maximal => Splits(f, g, h, T)
      /\ ~Witnesses(f).is_maximal => PassesOver(f, g)
  <2> HIDE DEF f
  <2> QED BY <1>1, <1>2, EntrySplits
<1> HIDE DEF g, h, T
<1>4. CASE Witnesses(f).is_maximal
  BY <1>1, <1>3, <1>4, SplitGoes
<1>5. CASE ~Witnesses(f).is_maximal
  BY <1>1, <1>3, <1>5, PassGoes
<1> QED BY <1>4, <1>5

\* An activation returns to the one below it, or to Execute.
LEMMA ReturnGoes == Core /\ Return => Goes
<1> SUFFICES ASSUME Core, Return PROVE Goes
  OBVIOUS
<1> DEFINE s == stack
           v == cur_v_
           t == Front(s)
           w == IF Len(s) = 1 THEN v + 1 ELSE v
<1>1. /\ status = "runs" /\ stack # <<>> /\ ~Unfinished(Top)
      /\ stack' = t /\ cur_v_' = w /\ UNCHANGED <<fixed, status>> /\ Uncounted
  BY DEF Return, Active, Pop
<1>2. Frames(s, v) /\ Apart(s) /\ v \in Nat /\ Len(s) # 0
  BY <1>1, EmptyStack DEF Core, Frames, Activations
<1>3. Below(s[Len(s)]) = {}
  BY <1>1, TopIs, ReturnEmpty DEF Top
<1> HIDE DEF s, v
<1>4. Frames(t, w) /\ Apart(t) /\ Pending(t, w) = Pending(s, v)
  BY <1>2, <1>3, Returning
<1>5. /\ cur_v_' \in Nat /\ Frames(stack', cur_v_') /\ Apart(stack')
      /\ Pending(stack', cur_v_') = Pending(stack, cur_v_)
  <2>1. w \in Nat
    BY <1>2
  <2> HIDE DEF w, t
  <2>2. stack' = t /\ cur_v_' = w
    BY <1>1
  <2> QED BY <1>4, <2>1, <2>2 DEF s, v
<1>6. UNCHANGED fixed /\ status' = "runs"
  BY <1>1
<1> QED BY <1>1, <1>5, <1>6, GoesUncounted

----------------------------------------------------------------------------
(* The invariant.                                                          *)

\* The other finders' steps are not AdaMBE's.
LEMMA OnlyAdaMBE == finder = "AdaMBE" /\ Next => Finish \/ Step \/ Stopped
BY DEF Next, Execute, AtRoot, Active,
       DSB!Step, DSB!SkipRoot, DSB!ExpandSetRoot, DSB!ExpandBitRoot,
       DSB!SkipEntry, DSB!SetEntry, DSB!SkipEmpty, DSB!BitEntry, DSB!Return,
       DSB!OnSet, DSB!OnBit, DSB!AtRoot, DSB!Active,
       NC!Step, NC!SkipRoot, NC!ExpandRoot, NC!SkipNode, NC!MaximalNode,
       NC!NonMaximalNode, NC!Return, NC!On, NC!AtRoot, NC!Active,
       MBEA!Step, MBEA!SkipRoot, MBEA!ExpandRoot, MBEA!PassCandidate,
       MBEA!Maximal, MBEA!Return, MBEA!OnCandidate, MBEA!Mine,
       LMBC!Step, LMBC!Root, LMBC!PassCandidate, LMBC!PassCandidateStays,
       LMBC!MaximalCandidate, LMBC!Return, LMBC!Mine,
       PMBE!Step, PMBE!BuildGraph, PMBE!SkipRoot, PMBE!ExpandRoot,
       PMBE!PassCandidate, PMBE!Maximal, PMBE!Return, PMBE!OnCandidate,
       PMBE!AtRoot, PMBE!Active

\* Each step of AdaMBE keeps the account.
LEMMA StepGoes == Core /\ Step => Goes
BY SkipRootGoes, ExpandSetRootGoes, ExpandBitRootGoes, SkipCandidateGoes,
   LargeCandidateGoes, SmallCandidateGoes, EntryGoes, ReturnGoes DEF Step

\* Only the end is noted.
LEMMA CoreKept ==
  ASSUME Core, UNCHANGED <<fixed, cur_v_, stack, found, maximal_nodes_>>,
         status' = status \/ (status # "expired" /\ status' = "finished" /\ found = wanted)
  PROVE  Core'
<1>1. UNCHANGED inputVars
  BY DEF fixed
<1>2. \A s, v : /\ Frames(s, v)' <=> Frames(s, v)
                /\ Apart(s)' <=> Apart(s)
                /\ Pending(s, v)' = Pending(s, v)
  BY <1>1, StackKept
<1>3. (Frames(stack, cur_v_)' <=> Frames(stack, cur_v_))
      /\ (Apart(stack)' <=> Apart(stack))
      /\ Pending(stack, cur_v_)' = Pending(stack, cur_v_)
  BY <1>2
<1>4. \A S : Known(S)' = Known(S) /\ All' = All
  BY KnownKept
<1>5. Known(All \ Pending(stack, cur_v_))' = Known(All \ Pending(stack, cur_v_))
  BY <1>3, <1>4
<1>6. InputsOK' /\ wanted' = wanted
  BY InputsKept DEF Core, fixed
<1> QED BY <1>3, <1>5, <1>6 DEF Core

\* When Execute has left the last vertex behind, all is found.
LEMMA NoneLeft ==
  ASSUME Core, Finish
  PROVE  found = wanted
<1>1. PICK n \in Nat : DOMAIN graph_ = 0 .. n - 1
  BY DEF Core, InputsOK, InputOK, IsGraph
<1>2. cur_v_ = n /\ stack = <<>> /\ status = "runs"
  <2>1. Cardinality(0 .. n - 1) = n
    BY Interval
  <2> QED BY <1>1, <2>1 DEF Finish, Roots, Core, InputsOK
<1>3. TodoFrom(graph_, min_l_size_, n) = {}
  BY <1>1, TodoEnds
<1>4. 1 .. 0 = {}
  OBVIOUS
<1>5. Pending(stack, cur_v_) = {}
  BY <1>2, <1>3, <1>4, EmptyStack DEF Pending, Roofs, Belows
<1>6. found = Known(All \ {})
  BY <1>2, <1>5 DEF Core
<1> QED BY <1>6 DEF Core, InputsOK

\* What is to be found has no vertex that Execute has left behind.
LEMMA CoreComplete == Core /\ status # "expired" => RootsComplete
<1> SUFFICES ASSUME Core, status # "expired", NEW b \in wanted,
                    NEW u \in DOMAIN graph_, u < cur_v_,
                    r_map_[u] \in (IF transposed THEN b[1] ELSE b[2])
             PROVE  b \in found
  BY DEF RootsComplete
<1>1. /\ InputOK /\ MapsOK /\ wanted = Known(All)
      /\ Frames(stack, cur_v_) /\ cur_v_ \in Nat
      /\ found = Known(All \ Pending(stack, cur_v_))
  BY DEF Core, InputsOK
<1>2. PICK T \in Counted(All) : b = Converted(Biclique(T))
  BY <1>1 DEF Known
<1>3. (IF transposed THEN b[1] ELSE b[2]) = {r_map_[x] : x \in CommonR(graph_, T)}
  BY <1>2 DEF Converted, Sides, Biclique
<1>4. u \in CommonR(graph_, T)
  <2>1. PICK x \in CommonR(graph_, T) : r_map_[x] = r_map_[u]
    BY <1>3
  <2>2. x \in DOMAIN graph_
    BY InCommonR
  <2> QED BY <1>1, <2>1, <2>2 DEF MapsOK
<1>5. u \in Nat
  BY <1>1 DEF InputOK, IsGraph
<1>6. T \notin TodoFrom(graph_, min_l_size_, cur_v_)
      /\ T \notin TodoFrom(graph_, min_l_size_, cur_v_ + 1)
  <2>1. ~(cur_v_ <= u) /\ ~(cur_v_ + 1 <= u)
    BY <1>1, <1>5
  <2> QED BY <1>4, <2>1 DEF TodoFrom
<1>7. T \notin Roofs(stack, cur_v_)
  BY <1>6 DEF Roofs
<1>8. T \notin Belows(stack)
  <2> SUFFICES ASSUME NEW k \in 1 .. Len(stack), T \in Below(stack[k])
               PROVE  FALSE
    BY DEF Belows
  <2> DEFINE f == stack[k]
             v == cur_v_
  <2>1. Frame(f) /\ Rooted(f, v)
    BY <1>1 DEF Frames, Activations
  <2>2. InputOK /\ v \in Nat /\ T \in Below(f)
    BY <1>1
  <2> HIDE DEF f, v
  <2>3. T \in TodoFrom(graph_, min_l_size_, v)
    BY <2>1, <2>2, BelowHas
  <2> QED BY <1>6, <2>3 DEF v
<1>9. T \in Counted(All \ Pending(stack, cur_v_))
  BY <1>7, <1>8 DEF Pending, Counted
<1> QED BY <1>1, <1>2, <1>9 DEF Known

\* At the beginning everything is to be found.
LEMMA InitIInv == AdaInit => IInv
<1> SUFFICES ASSUME AdaInit PROVE IInv
  OBVIOUS
<1>1. InputsOK
  BY WantedIsAll DEF AdaInit, InputsOK
<1>2. /\ status = "runs" /\ cur_v_ = 0 /\ stack = <<>>
      /\ found = {} /\ maximal_nodes_ = 0
  BY DEF AdaInit, StartState
<1>3. 1 .. 0 = {}
  OBVIOUS
<1>4. Frames(<<>>, 0) /\ Apart(<<>>)
  BY <1>3, EmptyStack DEF Frames, Apart
<1>5. Pending(<<>>, 0) = All
  BY <1>3, EmptyStack DEF Pending, Roofs, Belows, All
<1>6. Known(All \ All) = {}
  BY DEF Known, Counted
<1>7. IsFiniteSet({}) /\ Cardinality({}) = 0
  BY FS_EmptySet
<1>8. Core
  BY <1>1, <1>2, <1>4, <1>5, <1>6, <1>7 DEF Core
<1> QED BY <1>2, <1>8, CoreComplete DEF IInv

\* A step of the program: the end, a step of the search, or none.
LEMMA NextCore ==
  ASSUME Core, [Next]_vars
  PROVE  /\ Core'
         /\ \/ status = "runs" /\ Goes
            \/ Finish /\ found = wanted
            \/ UNCHANGED vars
<1>0. finder = "AdaMBE"
  BY DEF Core, InputsOK
<1>1. CASE Finish
  <2>1. found = wanted
    BY <1>1, NoneLeft
  <2>2. /\ UNCHANGED <<fixed, cur_v_, stack, found, maximal_nodes_>>
        /\ status # "expired" /\ status' = "finished"
    BY <1>1 DEF Finish, Uncounted
  <2>3. Core'
    BY <2>1, <2>2, CoreKept
  <2> QED BY <1>1, <2>1, <2>3
<1>2. CASE Step
  <2>1. Goes
    BY <1>2, StepGoes
  <2>2. status = "runs"
    BY <1>2 DEF Step, SkipRoot, ExpandSetRoot, ExpandBitRoot, SkipCandidate,
                LargeCandidate, SmallCandidate, Entry, Return, AtRoot, OnSet,
                OnBit, Active
  <2> QED BY <2>1, <2>2 DEF Goes
<1>3. CASE UNCHANGED vars
  <2>1. UNCHANGED <<fixed, cur_v_, stack, found, maximal_nodes_>> /\ status' = status
    BY <1>3 DEF vars
  <2> QED BY <1>3, <2>1, CoreKept
<1> QED BY <1>0, <1>1, <1>2, <1>3, OnlyAdaMBE DEF Stopped

\* At EXIT_TIME the vertices left behind stay complete.
LEMMA NextIInv == IInv /\ [Next]_vars => IInv'
<1>1. (Core /\ status # "expired" => RootsComplete)'
  BY CoreComplete, PTL
<1> SUFFICES ASSUME IInv, [Next]_vars PROVE IInv'
  OBVIOUS
<1>2. Core'
  BY NextCore DEF IInv
<1>3. CASE status' # "expired"
  BY <1>1, <1>2, <1>3 DEF IInv
<1>4. CASE status' = "expired"
  <2>1. (status = "runs" /\ Goes) \/ UNCHANGED vars
    BY <1>4, NextCore DEF IInv, Finish
  <2>2. /\ UNCHANGED fixed /\ cur_v_' = cur_v_
        /\ found \subseteq found'
    BY <1>4, <2>1 DEF Goes, Counts, vars
  <2>3. RootsComplete'
    BY <2>2 DEF IInv, RootsComplete, fixed, inputVars, mapVars
  <2> QED BY <1>2, <2>3 DEF IInv
<1> QED BY <1>3, <1>4

----------------------------------------------------------------------------
(* The theorems.                                                           *)

\* Each biclique is counted, or to be found below one activation or from a later
\* root: the account that AdaMBE keeps.
THEOREM EachFoundOnce == AdaSpec => []IInv
<1>1. AdaInit => IInv
  BY InitIInv
<1>2. IInv /\ [Next]_vars => IInv'
  BY NextIInv
<1> QED BY <1>1, <1>2, PTL DEF AdaSpec

\* RootsComplete: a vertex Execute has left behind is in no biclique that is
\* still to come.
THEOREM LeavesNone == AdaSpec => []RootsComplete
<1>1. IInv => RootsComplete
  BY DEF IInv
<1> QED BY <1>1, EachFoundOnce, PTL

\* FramesClosed: the activations on vertex sets work on bicliques closed on the R
\* side, and what they have left to do lies inside their L sides.
THEOREM FramesClose == AdaSpec => []FramesClosed
<1>1. IInv => FramesClosed
  <2> SUFFICES ASSUME IInv, NEW k \in DOMAIN stack, stack[k].mode = "set"
               PROVE  LET f == stack[k]
                      IN  /\ f.R = CommonR(graph_, f.L)
                          /\ \A ci \in f.i .. Len(f.C) : f.C[ci].first >= 0 =>
                               f.C[ci].L = f.L \cap graph_[f.C[ci].first]
    BY DEF FramesClosed
  <2> DEFINE f == stack[k]
  <2>1. Frame(f) /\ f.mode = "set"
    BY DEF IInv, Core, Frames, Activations, IsStack
  <2> HIDE DEF f
  <2>2. SetFrame(f)
    BY <2>1, BitSides DEF Frame
  <2>3. f.R = CommonR(graph_, f.L)
    BY <2>2 DEF SetFrame, Node
  <2>4. \A ci \in f.i .. Len(f.C) : f.C[ci].first >= 0 =>
          f.C[ci].L = f.L \cap graph_[f.C[ci].first]
    BY <2>2 DEF SetFrame, Ahead, IsCandidate
  <2> QED BY <2>3, <2>4 DEF f
<1> QED BY <1>1, EachFoundOnce, PTL

\* CountExact: when Execute returns, the number printed as the result is the
\* number of the maximal bicliques above the thresholds.
THEOREM CountsAll == AdaSpec => []CountExact
<1>1. IInv => CountExact
  BY DEF IInv, Core, CountExact
<1> QED BY <1>1, EachFoundOnce, PTL

\* A step counts one wanted biclique more, ends the search when all are counted,
\* or leaves the account as it is.
LEMMA EnumStep == IInv /\ [Next]_vars => [Enum!EnumNext]_(Enum!enumVars)
<1> SUFFICES ASSUME IInv, [Next]_vars PROVE [Enum!EnumNext]_(Enum!enumVars)
  OBVIOUS
<1>1. \/ status = "runs" /\ Goes
      \/ Finish /\ found = wanted
      \/ UNCHANGED vars
  BY NextCore DEF IInv
<1>2. CASE status = "runs" /\ Goes
  <2>1. /\ wanted' = wanted /\ status # "finished" /\ status' # "finished"
        /\ Counts(found, maximal_nodes_, found', maximal_nodes_')
    BY <1>2 DEF Goes, fixed
  <2> QED BY <2>1 DEF Counts, Enum!EnumNext, Enum!Report, Enum!enumVars
<1>3. CASE Finish /\ found = wanted
  BY <1>3 DEF Finish, Uncounted, fixed, Enum!EnumNext, Enum!Finish, Enum!enumVars
<1>4. CASE UNCHANGED vars
  BY <1>4 DEF vars, fixed, Enum!enumVars
<1> QED BY <1>1, <1>2, <1>3, <1>4

\* Enumerates: AdaMBE implements MBEnum.  It counts each wanted biclique once and
\* nothing else, and returns only when all are counted.
THEOREM AdaMBEEnumerates == AdaSpec => Enumerates
<1>1. AdaInit => Enum!EnumInit
  BY DEF AdaInit, StartState, Enum!EnumInit
<1> QED BY <1>1, EnumStep, EachFoundOnce, PTL DEF AdaSpec, Enumerates

-----------------------------------------------------------------------------
(* Prune1H.                                                                *)

loopVars == <<graphVars, pruneVars>>

USE DEF r_adj_lists_, min_neighbors_of_l, min_neighbors_of_r

Pruneable ==
  /\ Mirrored
  /\ IsFiniteSet(Ls) /\ IsFiniteSet(Rs)
  /\ min_neighbors_of_l \in Nat /\ min_neighbors_of_r \in Nat

PruneTypes ==
  /\ l_degree \in [Ls -> Int] /\ r_degree \in [Rs -> Int]
  /\ l_pruned_seed \subseteq Ls /\ r_pruned_seed \subseteq Rs
  /\ l_done \subseteq Ls /\ r_done \subseteq Rs
  /\ turn \in {"l", "r", "ended"}

\* The degrees count the neighbors that were not seeds the loop has done.
DegreesExact ==
  /\ \A l \in Ls : l_degree[l] = Cardinality(l_adj_lists_[l] \ r_done)
  /\ \A r \in Rs : r_degree[r] = Cardinality(r_adj_lists_[r] \ l_done)

\* The vertices whose degree is too low are the seeds, those to come and,
\* apart from them, those that are done.
SeedsExact ==
  /\ l_pruned_seed \cap l_done = {}
  /\ r_pruned_seed \cap r_done = {}
  /\ l_pruned_seed \cup l_done = {l \in Ls : l_degree[l] < min_neighbors_of_r}
  /\ r_pruned_seed \cup r_done = {r \in Rs : r_degree[r] < min_neighbors_of_l}

EndedClean == turn = "ended" => l_pruned_seed = {} /\ r_pruned_seed = {}

PruneInv == Pruneable /\ PruneTypes /\ DegreesExact /\ SeedsExact /\ EndedClean

----------------------------------------------------------------------------
\* Counting down: what is left of a list when one more element is done.
LEMMA OneDone ==
  ASSUME NEW S, IsFiniteSet(S), NEW D, NEW x, x \notin D
  PROVE  Cardinality(S \ (D \cup {x}))
           = IF x \in S THEN Cardinality(S \ D) - 1 ELSE Cardinality(S \ D)
<1>1. IsFiniteSet(S \ D)
  BY FS_Difference
<1>2. S \ (D \cup {x}) = (S \ D) \ {x} /\ (x \in S \ D <=> x \in S)
  OBVIOUS
<1> QED BY <1>1, <1>2, FS_RemoveElement

\* The lists are finite, and so is what is left of them.
LEMMA ListsFinite ==
  ASSUME Pruneable, NEW D
  PROVE  /\ \A l \in Ls : /\ IsFiniteSet(l_adj_lists_[l])
                          /\ Cardinality(l_adj_lists_[l] \ D) \in Nat
         /\ \A r \in Rs : /\ IsFiniteSet(r_adj_lists_[r])
                          /\ Cardinality(r_adj_lists_[r] \ D) \in Nat
<1>1. ASSUME NEW l \in Ls
      PROVE  /\ IsFiniteSet(l_adj_lists_[l])
             /\ Cardinality(l_adj_lists_[l] \ D) \in Nat
  <2>1. l_adj_lists_[l] \in SUBSET Rs /\ IsFiniteSet(Rs)
    BY DEF Pruneable, Mirrored, Ls, Rs
  <2>2. IsFiniteSet(l_adj_lists_[l])
    BY <2>1, FS_Subset
  <2> QED BY <2>2, FS_Difference, FS_CardinalityType
<1>2. ASSUME NEW r \in Rs
      PROVE  /\ IsFiniteSet(r_adj_lists_[r])
             /\ Cardinality(r_adj_lists_[r] \ D) \in Nat
  <2>1. r_adj_lists_[r] \in SUBSET Ls /\ IsFiniteSet(Ls)
    BY DEF Pruneable, Mirrored, Ls, Rs
  <2>2. IsFiniteSet(r_adj_lists_[r])
    BY <2>1, FS_Subset
  <2> QED BY <2>2, FS_Difference, FS_CardinalityType
<1> QED BY <1>1, <1>2

----------------------------------------------------------------------------
\* The degrees and the seeds Prune1H starts with are right.
LEMMA PruneInitInv == PruneInit => PruneInv
<1> SUFFICES ASSUME PruneInit PROVE PruneInv
  OBVIOUS
<1>1. Pruneable
  BY DEF PruneInit, Pruneable, Ls, Rs
<1>2. /\ \A l \in Ls : /\ l_adj_lists_[l] \ {} = l_adj_lists_[l]
                       /\ Cardinality(l_adj_lists_[l]) \in Nat
      /\ \A r \in Rs : /\ r_adj_lists_[r] \ {} = r_adj_lists_[r]
                       /\ Cardinality(r_adj_lists_[r]) \in Nat
  <2>1. /\ \A l \in Ls : l_adj_lists_[l] \ {} = l_adj_lists_[l]
        /\ \A r \in Rs : r_adj_lists_[r] \ {} = r_adj_lists_[r]
    OBVIOUS
  <2> QED BY <1>1, <2>1, ListsFinite
<1>3. /\ l_degree = [l \in Ls |-> Cardinality(l_adj_lists_[l])]
      /\ r_degree = [r \in Rs |-> Cardinality(r_adj_lists_[r])]
      /\ l_pruned_seed = {l \in Ls : Cardinality(l_adj_lists_[l]) < min_neighbors_of_r}
      /\ r_pruned_seed = {r \in Rs : Cardinality(r_adj_lists_[r]) < min_neighbors_of_l}
      /\ l_done = {} /\ r_done = {} /\ turn \in {"l", "r"}
  BY DEF PruneInit, Begin, Degrees, Seeds, FirstTurn, Ls, Rs
<1>4. PruneTypes
  BY <1>2, <1>3 DEF PruneTypes
<1>5. DegreesExact
  BY <1>2, <1>3 DEF DegreesExact
<1>6. SeedsExact
  BY <1>3 DEF SeedsExact
<1>7. EndedClean
  BY <1>3 DEF EndedClean
<1> QED BY <1>1, <1>4, <1>5, <1>6, <1>7 DEF PruneInv

\* A seed's neighbors lose one of their degree: those that fall below the
\* bound are seeds from then on.
LEMMA PruneLInv ==
  ASSUME PruneInv, NEW l \in l_pruned_seed, PruneL(l), UNCHANGED graphVars
  PROVE  PruneInv'
<1> USE DEF graphVars
<1>1. Pruneable' /\ Ls' = Ls /\ Rs' = Rs
  BY DEF PruneInv, Pruneable, Mirrored, Ls, Rs
<1>2. /\ l \in Ls /\ l \notin l_done /\ l_adj_lists_[l] \subseteq Rs
      /\ \A r \in Rs : r \in l_adj_lists_[l] <=> l \in r_adj_lists_[r]
  BY DEF PruneInv, Pruneable, PruneTypes, SeedsExact, Mirrored, Ls, Rs
<1>3. PruneTypes'
  <2>1. r_degree' \in [Rs -> Int]
    BY DEF PruneInv, PruneTypes, PruneL
  <2> QED BY <1>1, <1>2, <2>1 DEF PruneInv, PruneTypes, PruneL, NewR
<1>4. DegreesExact'
  <2>1. \A k \in Ls : l_degree'[k] = Cardinality(l_adj_lists_'[k] \ r_done')
    BY DEF PruneInv, DegreesExact, PruneL
  <2>2. ASSUME NEW r \in Rs
        PROVE  r_degree'[r] = Cardinality(r_adj_lists_'[r] \ l_done')
    <3>1. IsFiniteSet(r_adj_lists_[r])
      BY ListsFinite DEF PruneInv
    <3>2. Cardinality(r_adj_lists_[r] \ (l_done \cup {l}))
            = IF l \in r_adj_lists_[r] THEN Cardinality(r_adj_lists_[r] \ l_done) - 1
                                       ELSE Cardinality(r_adj_lists_[r] \ l_done)
      BY <1>2, <3>1, OneDone
    <3>3. r_degree[r] = Cardinality(r_adj_lists_[r] \ l_done)
      BY DEF PruneInv, DegreesExact
    <3>4. r_degree'[r] = IF r \in l_adj_lists_[l] THEN r_degree[r] - 1 ELSE r_degree[r]
      BY DEF PruneInv, PruneTypes, PruneL
    <3> QED BY <1>2, <3>2, <3>3, <3>4 DEF PruneL
  <2> QED BY <1>1, <2>1, <2>2 DEF DegreesExact
<1>5. SeedsExact'
  <2>1. \A r \in Rs : r_degree[r] \in Int
    BY DEF PruneInv, PruneTypes
  <2>2. \A r \in Rs : r \in r_pruned_seed \cup r_done <=> r_degree[r] < min_neighbors_of_l
    BY DEF PruneInv, PruneTypes, SeedsExact
  <2>3. /\ \A r \in Rs : r_degree'[r] = IF r \in l_adj_lists_[l] THEN r_degree[r] - 1
                                                                 ELSE r_degree[r]
        /\ r_pruned_seed' = r_pruned_seed \cup NewR(l) /\ r_done' = r_done
    BY DEF PruneInv, PruneTypes, PruneL
  <2>4. min_neighbors_of_l \in Int /\ min_neighbors_of_l' = min_neighbors_of_l
    BY DEF PruneInv, Pruneable
  <2>5. \A r \in Rs : r \in r_pruned_seed' \cup r_done' <=> r_degree'[r] < min_neighbors_of_l
    BY <1>2, <2>1, <2>2, <2>3, <2>4 DEF NewR
  <2>6. r_pruned_seed' \cap r_done' = {}
    BY <1>2, <2>1, <2>2, <2>3, <2>4 DEF NewR, PruneInv, SeedsExact
  <2>7. /\ l_pruned_seed' \cap l_done' = {}
        /\ l_pruned_seed' \cup l_done' = {k \in Ls' : l_degree'[k] < min_neighbors_of_r'}
    BY <1>1 DEF PruneInv, SeedsExact, PruneL
  <2> QED BY <1>1, <1>3, <2>4, <2>5, <2>6, <2>7 DEF SeedsExact, PruneTypes
<1>6. EndedClean'
  BY DEF PruneL, EndedClean
<1> QED BY <1>1, <1>3, <1>4, <1>5, <1>6 DEF PruneInv

\* The same with the sides exchanged.
LEMMA PruneRInv ==
  ASSUME PruneInv, NEW r \in r_pruned_seed, PruneR(r), UNCHANGED graphVars
  PROVE  PruneInv'
<1> USE DEF graphVars
<1>1. Pruneable' /\ Rs' = Rs /\ Ls' = Ls
  BY DEF PruneInv, Pruneable, Mirrored, Rs, Ls
<1>2. /\ r \in Rs /\ r \notin r_done /\ r_adj_lists_[r] \subseteq Ls
      /\ \A l \in Ls : l \in r_adj_lists_[r] <=> r \in l_adj_lists_[l]
  BY DEF PruneInv, Pruneable, PruneTypes, SeedsExact, Mirrored, Rs, Ls
<1>3. PruneTypes'
  <2>1. l_degree' \in [Ls -> Int]
    BY DEF PruneInv, PruneTypes, PruneR
  <2> QED BY <1>1, <1>2, <2>1 DEF PruneInv, PruneTypes, PruneR, NewL
<1>4. DegreesExact'
  <2>1. \A k \in Rs : r_degree'[k] = Cardinality(r_adj_lists_'[k] \ l_done')
    BY DEF PruneInv, DegreesExact, PruneR
  <2>2. ASSUME NEW l \in Ls
        PROVE  l_degree'[l] = Cardinality(l_adj_lists_'[l] \ r_done')
    <3>1. IsFiniteSet(l_adj_lists_[l])
      BY ListsFinite DEF PruneInv
    <3>2. Cardinality(l_adj_lists_[l] \ (r_done \cup {r}))
            = IF r \in l_adj_lists_[l] THEN Cardinality(l_adj_lists_[l] \ r_done) - 1
                                       ELSE Cardinality(l_adj_lists_[l] \ r_done)
      BY <1>2, <3>1, OneDone
    <3>3. l_degree[l] = Cardinality(l_adj_lists_[l] \ r_done)
      BY DEF PruneInv, DegreesExact
    <3>4. l_degree'[l] = IF l \in r_adj_lists_[r] THEN l_degree[l] - 1 ELSE l_degree[l]
      BY DEF PruneInv, PruneTypes, PruneR
    <3> QED BY <1>2, <3>2, <3>3, <3>4 DEF PruneR
  <2> QED BY <1>1, <2>1, <2>2 DEF DegreesExact
<1>5. SeedsExact'
  <2>1. \A l \in Ls : l_degree[l] \in Int
    BY DEF PruneInv, PruneTypes
  <2>2. \A l \in Ls : l \in l_pruned_seed \cup l_done <=> l_degree[l] < min_neighbors_of_r
    BY DEF PruneInv, PruneTypes, SeedsExact
  <2>3. /\ \A l \in Ls : l_degree'[l] = IF l \in r_adj_lists_[r] THEN l_degree[l] - 1
                                                                 ELSE l_degree[l]
        /\ l_pruned_seed' = l_pruned_seed \cup NewL(r) /\ l_done' = l_done
    BY DEF PruneInv, PruneTypes, PruneR
  <2>4. min_neighbors_of_r \in Int /\ min_neighbors_of_r' = min_neighbors_of_r
    BY DEF PruneInv, Pruneable
  <2>5. \A l \in Ls : l \in l_pruned_seed' \cup l_done' <=> l_degree'[l] < min_neighbors_of_r
    BY <1>2, <2>1, <2>2, <2>3, <2>4 DEF NewL
  <2>6. l_pruned_seed' \cap l_done' = {}
    BY <1>2, <2>1, <2>2, <2>3, <2>4 DEF NewL, PruneInv, SeedsExact
  <2>7. /\ r_pruned_seed' \cap r_done' = {}
        /\ r_pruned_seed' \cup r_done' = {k \in Rs' : r_degree'[k] < min_neighbors_of_l'}
    BY <1>1 DEF PruneInv, SeedsExact, PruneR
  <2> QED BY <1>1, <1>3, <2>4, <2>5, <2>6, <2>7 DEF SeedsExact, PruneTypes
<1>6. EndedClean'
  BY DEF PruneR, EndedClean
<1> QED BY <1>1, <1>3, <1>4, <1>5, <1>6 DEF PruneInv

\* The loop ends only without seeds.
LEMMA PruneStepInv == PruneInv /\ [PruneStep]_loopVars => PruneInv'
<1> SUFFICES ASSUME PruneInv, [PruneStep]_loopVars PROVE PruneInv'
  OBVIOUS
<1>1. ASSUME NEW l \in l_pruned_seed, PruneL(l), UNCHANGED graphVars PROVE PruneInv'
  BY <1>1, PruneLInv
<1>2. ASSUME NEW r \in r_pruned_seed, PruneR(r), UNCHANGED graphVars PROVE PruneInv'
  BY <1>2, PruneRInv
<1>3. CASE EndLoop /\ UNCHANGED graphVars
  <2> USE <1>3 DEF EndLoop, graphVars
  <2>1. Pruneable' /\ Ls' = Ls /\ Rs' = Rs
    BY DEF PruneInv, Pruneable, Mirrored, Ls, Rs
  <2>2. PruneTypes' /\ DegreesExact' /\ SeedsExact' /\ EndedClean'
    BY <2>1 DEF PruneInv, PruneTypes, DegreesExact, SeedsExact, EndedClean
  <2> QED BY <2>1, <2>2 DEF PruneInv
<1>4. CASE UNCHANGED loopVars
  BY <1>4 DEF loopVars, graphVars, pruneVars, PruneInv, Pruneable, Mirrored, Ls, Rs,
              PruneTypes, DegreesExact, SeedsExact, EndedClean
<1> QED BY <1>1, <1>2, <1>3, <1>4 DEF PruneStep

\* While Prune1H runs, the degrees count the neighbors it has not been through,
\* and exactly the vertices whose degree is too low are or were seeds.
THEOREM DegreesCounted == PruneSpec => []PruneInv
BY PruneInitInv, PruneStepInv, PTL DEF PruneSpec, loopVars

----------------------------------------------------------------------------
\* A neighbor that falls below the bound was at the bound, so it is no seed
\* and never was one.
LEMMA OnePush == PruneInv => NoSecondPush
<1> SUFFICES ASSUME PruneInv PROVE NoSecondPush
  OBVIOUS
<1>1. ASSUME NEW l \in l_pruned_seed
      PROVE  NewR(l) \cap (r_pruned_seed \cup r_done) = {}
  BY DEF NewR, PruneInv, Pruneable, PruneTypes, SeedsExact
<1>2. ASSUME NEW r \in r_pruned_seed
      PROVE  NewL(r) \cap (l_pruned_seed \cup l_done) = {}
  BY DEF NewL, PruneInv, Pruneable, PruneTypes, SeedsExact
<1> QED BY <1>1, <1>2 DEF NoSecondPush

\* NoSecondPush: no vertex is pushed on a vector of seeds twice.
THEOREM PushedOnce == PruneSpec => []NoSecondPush
BY OnePush, DegreesCounted, PTL

\* When the loop has ended the degrees tell the vertices that were removed
\* from those that stay.
LEMMA KeptFromInv == PruneInv => KeptExactly
<1> SUFFICES ASSUME PruneInv, turn = "ended" 
             PROVE  LKept = Ls \ l_done /\ RKept = Rs \ r_done
  BY DEF KeptExactly
<1>1. /\ \A l \in Ls : l \in l_done <=> l_degree[l] < min_neighbors_of_r
      /\ \A r \in Rs : r \in r_done <=> r_degree[r] < min_neighbors_of_l
  BY DEF PruneInv, SeedsExact, EndedClean
<1>2. /\ \A l \in Ls : l_degree[l] \in Int
      /\ \A r \in Rs : r_degree[r] \in Int
      /\ DOMAIN l_degree = Ls /\ DOMAIN r_degree = Rs
      /\ min_neighbors_of_l \in Int /\ min_neighbors_of_r \in Int
  BY DEF PruneInv, Pruneable, PruneTypes
<1> QED BY <1>1, <1>2 DEF LKept, RKept

\* KeptExactly holds always: what is removed is what the degrees say.
THEOREM RemovedExactly == PruneSpec => []KeptExactly
BY DegreesCounted, KeptFromInv, PTL

----------------------------------------------------------------------------
\* The vertex sets A and B are a biclique above the thresholds.
Above(A, B) ==
  /\ A \subseteq Ls /\ B \subseteq Rs
  /\ \A l \in A : B \subseteq l_adj_lists_[l]
  /\ Cardinality(A) >= min_neighbors_of_l
  /\ Cardinality(B) >= min_neighbors_of_r

NoneDone == \A A, B : Above(A, B) => A \cap l_done = {} /\ B \cap r_done = {}

\* As long as no vertex of a biclique is done, none of them is a seed: it has
\* the whole other side for neighbors.
LEMMA NoneSeeds ==
  ASSUME PruneInv, NoneDone, NEW A, NEW B, Above(A, B)
  PROVE  A \cap l_pruned_seed = {} /\ B \cap r_pruned_seed = {}
<1>1. ASSUME NEW l \in A PROVE l \notin l_pruned_seed
  <2>1. l \in Ls /\ B \subseteq l_adj_lists_[l] \ r_done
    BY DEF Above, NoneDone
  <2>2. IsFiniteSet(l_adj_lists_[l] \ r_done)
    BY <2>1, ListsFinite, FS_Difference DEF PruneInv
  <2>3. /\ Cardinality(B) <= Cardinality(l_adj_lists_[l] \ r_done)
        /\ Cardinality(B) \in Nat /\ Cardinality(l_adj_lists_[l] \ r_done) \in Nat
    BY <2>1, <2>2, FS_Subset, FS_CardinalityType
  <2>4. min_neighbors_of_r \in Nat /\ Cardinality(B) >= min_neighbors_of_r
    BY DEF PruneInv, Pruneable, Above
  <2>5. ~(l_degree[l] < min_neighbors_of_r)
    BY <2>1, <2>3, <2>4 DEF PruneInv, DegreesExact
  <2> QED BY <2>5 DEF PruneInv, SeedsExact
<1>2. ASSUME NEW r \in B PROVE r \notin r_pruned_seed
  <2>1. r \in Rs /\ A \subseteq r_adj_lists_[r] \ l_done
    BY DEF Above, NoneDone, PruneInv, Pruneable, Mirrored
  <2>2. IsFiniteSet(r_adj_lists_[r] \ l_done)
    BY <2>1, ListsFinite, FS_Difference DEF PruneInv
  <2>3. /\ Cardinality(A) <= Cardinality(r_adj_lists_[r] \ l_done)
        /\ Cardinality(A) \in Nat /\ Cardinality(r_adj_lists_[r] \ l_done) \in Nat
    BY <2>1, <2>2, FS_Subset, FS_CardinalityType
  <2>4. min_neighbors_of_l \in Nat /\ Cardinality(A) >= min_neighbors_of_l
    BY DEF PruneInv, Pruneable, Above
  <2>5. ~(r_degree[r] < min_neighbors_of_l)
    BY <2>1, <2>3, <2>4 DEF PruneInv, DegreesExact
  <2> QED BY <2>5 DEF PruneInv, SeedsExact
<1> QED BY <1>1, <1>2

\* So none of them is ever done.
LEMMA NoneDoneStep == PruneInv /\ NoneDone /\ [PruneStep]_loopVars => NoneDone'
<1> SUFFICES ASSUME PruneInv, NoneDone, [PruneStep]_loopVars,
                    NEW A, NEW B, Above(A, B)'
             PROVE  A \cap l_done' = {} /\ B \cap r_done' = {}
  BY DEF NoneDone
<1>1. UNCHANGED graphVars
  BY DEF PruneStep, loopVars
<1>2. Above(A, B)
  BY <1>1 DEF Above, graphVars, Ls, Rs
<1>3. /\ A \cap l_done = {} /\ B \cap r_done = {}
      /\ A \cap l_pruned_seed = {} /\ B \cap r_pruned_seed = {}
  BY <1>2, NoneSeeds DEF NoneDone
<1> DEFINE OnlySeeds == /\ l_done' \subseteq l_done \cup l_pruned_seed
                        /\ r_done' \subseteq r_done \cup r_pruned_seed
<1>4. OnlySeeds
  <2>1. ASSUME NEW l \in l_pruned_seed, PruneL(l) PROVE OnlySeeds
    BY <2>1 DEF PruneL
  <2>2. ASSUME NEW r \in r_pruned_seed, PruneR(r) PROVE OnlySeeds
    BY <2>2 DEF PruneR
  <2>3. CASE EndLoop
    BY <2>3 DEF EndLoop
  <2>4. CASE UNCHANGED loopVars
    BY <2>4 DEF loopVars, pruneVars
  <2> QED BY <2>1, <2>2, <2>3, <2>4 DEF PruneStep
<1> QED BY <1>3, <1>4

\* What is done is in no biclique above the thresholds, so those are left.
LEMMA NothingRemoved == PruneInv /\ NoneDone => BicliquesKept
<1> SUFFICES ASSUME PruneInv, NoneDone, turn = "ended",
                    NEW A \in SUBSET Ls, NEW B \in SUBSET Rs, Above(A, B)
             PROVE  A \subseteq LKept /\ B \subseteq RKept
  BY DEF BicliquesKept, Above
<1> QED BY KeptFromInv DEF KeptExactly, NoneDone

\* Prune1H removes no vertex of a biclique above the thresholds.
THEOREM KeepsBicliques == PruneSpec => []BicliquesKept
<1>1. PruneInit => NoneDone
  BY DEF PruneInit, Begin, NoneDone
<1>2. PruneInv /\ NoneDone /\ [PruneStep]_loopVars => NoneDone'
  BY NoneDoneStep
<1>3. PruneSpec => []NoneDone
  BY <1>1, <1>2, DegreesCounted, PTL DEF PruneSpec, loopVars
<1> QED BY <1>3, NothingRemoved, DegreesCounted, PTL

----------------------------------------------------------------------------
\* What is left of a list, as the code counts it and as Peel says it.
LEMMA LeftOf ==
  ASSUME Pruneable
  PROVE  /\ \A l \in Ls : l_adj_lists_[l] \cap (Rs \ r_done) = l_adj_lists_[l] \ r_done
         /\ \A r \in Rs : r_adj_lists_[r] \cap (Ls \ l_done) = r_adj_lists_[r] \ l_done
BY DEF Pruneable, Mirrored

\* Peel counts as the code does.
LEMMA SameCardinality == ASSUME NEW S PROVE P!Cardinality(S) = Cardinality(S)
BY DEF P!Cardinality, Cardinality

\* Prune1H starts with the whole graph.
LEMMA PeelStarts == PruneInit => P!PeelInit
BY DEF PruneInit, Begin, FirstTurn, P!PeelInit, Ls, Rs

\* A step of the loop removes a vertex with too few neighbors left, or ends it
\* when no vertex left has too few.
LEMMA PeelsStep == PruneInv /\ [PruneStep]_loopVars => [P!PeelNext]_(P!peelVars)
<1> SUFFICES ASSUME PruneInv, [PruneStep]_loopVars PROVE [P!PeelNext]_(P!peelVars)
  OBVIOUS
<1> DEFINE FewR(l) == Cardinality(l_adj_lists_[l] \cap (Rs \ r_done)) < min_neighbors_of_r
           FewL(r) == Cardinality(r_adj_lists_[r] \cap (Ls \ l_done)) < min_neighbors_of_l
<1>0. /\ \A l \in l_pruned_seed : l \in Ls \ l_done /\ FewR(l)
      /\ \A r \in r_pruned_seed : r \in Rs \ r_done /\ FewL(r)
      /\ \A l \in Ls \ l_done : FewR(l) => l \in l_pruned_seed
      /\ \A r \in Rs \ r_done : FewL(r) => r \in r_pruned_seed
  <2>1. /\ \A l \in Ls : Cardinality(l_adj_lists_[l] \cap (Rs \ r_done)) = l_degree[l]
        /\ \A r \in Rs : Cardinality(r_adj_lists_[r] \cap (Ls \ l_done)) = r_degree[r]
    BY LeftOf DEF PruneInv, DegreesExact
  <2> QED BY <2>1 DEF PruneInv, PruneTypes, SeedsExact
<1>1. ASSUME NEW l \in l_pruned_seed, PruneL(l), UNCHANGED graphVars
      PROVE  P!PeelL
  <2>1. turn = "l" /\ turn' # "ended" /\ UNCHANGED <<graphVars, r_done>>
    BY <1>1 DEF PruneL
  <2>2. l \in Ls \ l_done /\ FewR(l) /\ (Ls \ l_done)' = (Ls \ l_done) \ {l}
    BY <1>0, <1>1 DEF PruneL, graphVars, Ls
  <2>3. P!FewOfR(l)
    BY <2>2, SameCardinality DEF P!FewOfR
  <2> QED BY <2>1, <2>2, <2>3 DEF P!PeelL, graphVars, Ls, Rs
<1>2. ASSUME NEW r \in r_pruned_seed, PruneR(r), UNCHANGED graphVars
      PROVE  P!PeelR
  <2>1. turn = "r" /\ turn' # "ended" /\ UNCHANGED <<graphVars, l_done>>
    BY <1>2 DEF PruneR
  <2>2. r \in Rs \ r_done /\ FewL(r) /\ (Rs \ r_done)' = (Rs \ r_done) \ {r}
    BY <1>0, <1>2 DEF PruneR, graphVars, Rs
  <2>3. P!FewOfL(r)
    BY <2>2, SameCardinality DEF P!FewOfL
  <2> QED BY <2>1, <2>2, <2>3 DEF P!PeelR, graphVars, Ls, Rs
<1>3. ASSUME EndLoop, UNCHANGED graphVars PROVE P!End
  <2>1. /\ \A l \in Ls \ l_done : ~FewR(l)
        /\ \A r \in Rs \ r_done : ~FewL(r)
    BY <1>0, <1>3 DEF EndLoop
  <2>2. /\ \A l \in Ls \ l_done : ~P!FewOfR(l)
        /\ \A r \in Rs \ r_done : ~P!FewOfL(r)
    BY <2>1, SameCardinality DEF P!FewOfR, P!FewOfL
  <2> QED BY <1>3, <2>2 DEF EndLoop, P!End, graphVars, Ls, Rs
<1>4. CASE UNCHANGED loopVars
  BY <1>4 DEF loopVars, graphVars, pruneVars, P!peelVars, Ls, Rs
<1> QED BY <1>1, <1>2, <1>3, <1>4 DEF PruneStep, P!PeelNext

\* Each time the loop goes through a seed's list it removes a vertex with too
\* few neighbors left, and when it ends no vertex left has too few.
THEOREM PeelsOff == PruneSpec => Peels
<1>1. PruneInv /\ [PruneStep]_loopVars
        => [turn # "none" /\ turn' # "none" => [P!PeelNext]_(P!peelVars)]_loopVars
  BY PeelsStep
<1> QED BY <1>1, DegreesCounted, PTL DEF PruneSpec, Peels, loopVars

----------------------------------------------------------------------------
(* The graph and the file.                                                 *)

\* The lists la and ra are what is left of the file, which is F with L's ids
\* LS: the sides are numbered from 0, both have the same edges, the maps lm and
\* rm lead back to the file, and no biclique above the thresholds is lost.
Fits(la, ra, lm, rm, F, LS, min_l, min_r) ==
  /\ \E m, n \in Nat : DOMAIN la = 0 .. m - 1 /\ DOMAIN ra = 0 .. n - 1
  /\ la \in [DOMAIN la -> SUBSET DOMAIN ra] /\ ra \in [DOMAIN ra -> SUBSET DOMAIN la]
  /\ \A l \in DOMAIN la, r \in DOMAIN ra : r \in la[l] <=> l \in ra[r]
  /\ \A l \in DOMAIN la : lm[l] \in LS
  /\ Left(ra, DOMAIN la, F, lm, rm)
  /\ NoneLost(F, min_l, min_r, Image(lm, DOMAIN la), Image(rm, DOMAIN ra))

\* F and G are the two sides' lists of one graph.
OfOneGraph(F, G) ==
  /\ \A x \in DOMAIN F : F[x] \subseteq DOMAIN G
  /\ \A y \in DOMAIN G : G[y] \subseteq DOMAIN F
  /\ \A x \in DOMAIN F, y \in DOMAIN G : y \in F[x] <=> x \in G[y]

\* The sides are swapped.
LEMMA FitsTurned ==
  ASSUME NEW la, NEW ra, NEW lm, NEW rm, NEW F, NEW G, OfOneGraph(F, G),
         NEW a \in Nat \ {0}, NEW c \in Nat \ {0}, FiniteGraph(G),
         Fits(la, ra, lm, rm, F, DOMAIN G, a, c)
  PROVE  Fits(ra, la, rm, lm, G, DOMAIN F, c, a)
<1>1. /\ \E m, n \in Nat : DOMAIN la = 0 .. m - 1 /\ DOMAIN ra = 0 .. n - 1
      /\ la \in [DOMAIN la -> SUBSET DOMAIN ra] /\ ra \in [DOMAIN ra -> SUBSET DOMAIN la]
      /\ \A l \in DOMAIN la, r \in DOMAIN ra : r \in la[l] <=> l \in ra[r]
      /\ \A l \in DOMAIN la : lm[l] \in DOMAIN G
      /\ Left(ra, DOMAIN la, F, lm, rm)
      /\ NoneLost(F, a, c, Image(lm, DOMAIN la), Image(rm, DOMAIN ra))
  BY DEF Fits
<1>2. \A r \in DOMAIN ra : rm[r] \in DOMAIN F
  BY <1>1 DEF Left
<1>3. Left(la, DOMAIN ra, G, rm, lm)
  <2>1. \A l \in DOMAIN la : la[l] \subseteq DOMAIN ra /\ lm[l] \in DOMAIN G
    BY <1>1
  <2>2. \A l \in DOMAIN la, r \in DOMAIN ra : r \in la[l] <=> rm[r] \in G[lm[l]]
    BY <1>1, <1>2 DEF Left, OfOneGraph
  <2> QED BY <1>1, <2>1, <2>2 DEF Left
<1>4. NoneLost(G, c, a, Image(rm, DOMAIN ra), Image(lm, DOMAIN la))
  <2> SUFFICES ASSUME NEW T, NEW S, IsBiclique(G, c, a, T, S)
               PROVE  T \subseteq Image(rm, DOMAIN ra) /\ S \subseteq Image(lm, DOMAIN la)
    BY DEF NoneLost
  <2>1. S # {}
    BY BicliqueSides
  <2>2. T \subseteq DOMAIN F /\ S \subseteq DOMAIN G
    BY <2>1 DEF IsBiclique, OfOneGraph
  <2>3. \A x \in T : S \subseteq F[x]
    BY <2>2 DEF IsBiclique, OfOneGraph
  <2>4. IsBiclique(F, a, c, S, T)
    BY <2>2, <2>3 DEF IsBiclique
  <2> QED BY <1>1, <2>4 DEF NoneLost
<1> QED BY <1>1, <1>2, <1>3, <1>4 DEF Fits

\* R is renumbered.
LEMMA FitsRenumbered ==
  ASSUME NEW la, NEW ra, NEW lm, NEW rm, NEW F, NEW LS, NEW a, NEW c,
         Fits(la, ra, lm, rm, F, LS, a, c),
         NEW p \in Bijection(DOMAIN ra, DOMAIN ra),
         NEW ra2, ra2 = [r \in DOMAIN ra |-> ra[p[r]]],
         NEW rm2, rm2 = [r \in DOMAIN ra |-> rm[p[r]]],
         NEW la2, la2 = Mirror(ra2, DOMAIN la)
  PROVE  Fits(la2, ra2, lm, rm2, F, LS, a, c)
<1>1. /\ \E m, n \in Nat : DOMAIN la = 0 .. m - 1 /\ DOMAIN ra = 0 .. n - 1
      /\ ra \in [DOMAIN ra -> SUBSET DOMAIN la]
      /\ \A l \in DOMAIN la : lm[l] \in LS
      /\ Left(ra, DOMAIN la, F, lm, rm)
      /\ NoneLost(F, a, c, Image(lm, DOMAIN la), Image(rm, DOMAIN ra))
  BY DEF Fits
<1>2. /\ \A r \in DOMAIN ra : p[r] \in DOMAIN ra
      /\ \A r, s \in DOMAIN ra : p[r] = p[s] => r = s
      /\ \A s \in DOMAIN ra : \E r \in DOMAIN ra : p[r] = s
  BY Fun_BijectionProperties
<1>3. /\ DOMAIN ra2 = DOMAIN ra /\ DOMAIN la2 = DOMAIN la
      /\ ra2 \in [DOMAIN ra -> SUBSET DOMAIN la]
      /\ la2 \in [DOMAIN la -> SUBSET DOMAIN ra]
      /\ \A l \in DOMAIN la, r \in DOMAIN ra : r \in la2[l] <=> l \in ra2[r]
  <2>1. DOMAIN ra2 = DOMAIN ra
    OBVIOUS
  <2>2. \A r \in DOMAIN ra : ra[p[r]] \in SUBSET DOMAIN la
    BY <1>1, <1>2
  <2>3. ra2 \in [DOMAIN ra -> SUBSET DOMAIN la]
    BY <2>2
  <2>4. la2 = [x \in DOMAIN la |-> {y \in DOMAIN ra : x \in ra2[y]}]
    BY <2>1 DEF Mirror
  <2> QED BY <2>1, <2>3, <2>4
<1>4. \A r \in DOMAIN ra : ra2[r] = ra[p[r]] /\ rm2[r] = rm[p[r]]
  OBVIOUS
<1>5. Left(ra2, DOMAIN la, F, lm, rm2)
  <2>1. /\ \A r \in DOMAIN ra : ra[r] \subseteq DOMAIN la /\ rm[r] \in DOMAIN F
        /\ \A x, y \in DOMAIN la : lm[x] = lm[y] => x = y
        /\ \A r, s \in DOMAIN ra : rm[r] = rm[s] => r = s
        /\ \A x \in DOMAIN la, r \in DOMAIN ra : x \in ra[r] <=> lm[x] \in F[rm[r]]
    BY <1>1 DEF Left
  <2>2. \A r \in DOMAIN ra : ra2[r] \subseteq DOMAIN la /\ rm2[r] \in DOMAIN F
    BY <1>2, <1>4, <2>1
  <2>3. \A r, s \in DOMAIN ra : rm2[r] = rm2[s] => r = s
    BY <1>2, <1>4, <2>1
  <2>4. \A x \in DOMAIN la, r \in DOMAIN ra : x \in ra2[r] <=> lm[x] \in F[rm2[r]]
    BY <1>2, <1>4, <2>1
  <2> QED BY <1>3, <2>1, <2>2, <2>3, <2>4 DEF Left
<1>6. Image(rm2, DOMAIN ra) = Image(rm, DOMAIN ra)
  <2>1. \A r \in DOMAIN ra : rm2[r] \in Image(rm, DOMAIN ra)
    BY <1>2, <1>4 DEF Image
  <2>2. ASSUME NEW s \in DOMAIN ra PROVE rm[s] \in Image(rm2, DOMAIN ra)
    <3>1. PICK r \in DOMAIN ra : p[r] = s
      BY <1>2
    <3> QED BY <1>4, <3>1 DEF Image
  <2> QED BY <2>1, <2>2 DEF Image
<1> QED BY <1>1, <1>3, <1>5, <1>6 DEF Fits

\* Ranked numbers the elements of a set of numbers from 0.
LEMMA RankedNumbers ==
  ASSUME NEW S, S \subseteq Nat, IsFiniteSet(S)
  PROVE  /\ Cardinality(S) \in Nat
         /\ DOMAIN Ranked(S) = 0 .. Cardinality(S) - 1
         /\ \A k \in DOMAIN Ranked(S) : Ranked(S)[k] \in S
         /\ \A j, k \in DOMAIN Ranked(S) : Ranked(S)[j] = Ranked(S)[k] => j = k
         /\ \A x \in S : \E k \in DOMAIN Ranked(S) : Ranked(S)[k] = x
<1> DEFINE n == Cardinality(S)
           s == List(S)
<1>1. n \in Nat
  BY FS_CardinalityType
<1>2. Lists(s, S)
  BY ListSorts
<1>3. Ranked(S) = [k \in 0 .. n - 1 |-> s[k + 1]]
  BY DEF Ranked, List
<1>0. n = Cardinality(S)
  OBVIOUS
<1> HIDE DEF n, s
<1>4. /\ Len(s) = n /\ \A i \in 1 .. n : s[i] \in S
      /\ \A x \in S : \E i \in 1 .. n : s[i] = x
      /\ \A i, j \in 1 .. n : s[i] = s[j] => i = j
  BY <1>0, <1>2 DEF Lists
<1>5. \A k \in 0 .. n - 1 : k + 1 \in 1 .. n
  BY <1>1
<1>6. DOMAIN Ranked(S) = 0 .. n - 1 /\ \A k \in 0 .. n - 1 : Ranked(S)[k] = s[k + 1]
  BY <1>3
<1>7. \A j, k \in 0 .. n - 1 : s[j + 1] = s[k + 1] => j = k
  <2> TAKE j, k \in 0 .. n - 1
  <2>1. s[j + 1] = s[k + 1] => j + 1 = k + 1
    BY <1>4, <1>5
  <2> QED BY <1>1, <2>1
<1>8. \A x \in S : \E k \in 0 .. n - 1 : s[k + 1] = x
  <2> TAKE x \in S
  <2>1. PICK i \in 1 .. n : s[i] = x
    BY <1>4
  <2>2. i - 1 \in 0 .. n - 1 /\ (i - 1) + 1 = i
    BY <1>1
  <2> QED BY <2>1, <2>2
<1> QED BY <1>0, <1>1, <1>4, <1>5, <1>6, <1>7, <1>8

\* Numbers without gaps keep their places.
LEMMA RankedInterval ==
  ASSUME NEW n \in Nat
  PROVE  Ranked(0 .. n - 1) = Identity(n)
<1> DEFINE S == 0 .. n - 1
<1>1. IsFiniteSet(S) /\ Cardinality(S) = n
  BY Interval
<1>2. \A x \in S : Cardinality({y \in S : y < x}) = x
  <2> TAKE x \in S
  <2>1. {y \in S : y < x} = 0 .. x - 1 /\ x \in Nat
    OBVIOUS
  <2> QED BY <2>1, Interval
<1>3. \A k \in S : Ranked(S)[k] = CHOOSE x \in S : Cardinality({y \in S : y < x}) = (k + 1) - 1
  <2>1. Ranked(S) = [k \in S |-> List(S)[k + 1]]
    BY <1>1 DEF Ranked, List
  <2>2. List(S) = [i \in 1 .. n |->
                    CHOOSE x \in S : Cardinality({y \in S : y < x}) = i - 1]
    BY <1>1 DEF List, SortedBy
  <2>3. \A k \in S : k + 1 \in 1 .. n
    OBVIOUS
  <2> HIDE DEF S
  <2> QED BY <2>1, <2>2, <2>3
<1>4. ASSUME NEW k \in S PROVE Ranked(S)[k] = k
  <2>1. (k + 1) - 1 = k
    OBVIOUS
  <2>2. \E x \in S : Cardinality({y \in S : y < x}) = k
    BY <1>2
  <2>3. /\ Ranked(S)[k] \in S
        /\ Cardinality({y \in S : y < Ranked(S)[k]}) = k
    BY <1>3, <2>1, <2>2
  <2> QED BY <1>2, <2>3
<1>5. Ranked(S) = [k \in S |-> Ranked(S)[k]]
  BY <1>1 DEF Ranked
<1> QED BY <1>4, <1>5 DEF Identity

\* Of the lists la and ra the vertices LK and RK are kept, renumbered.
Keeps(LK, RK, la, lm, rm, la2, ra2, lm2, rm2) ==
  LET lo == Ranked(LK)
      ro == Ranked(RK)
  IN  /\ lm2 = [l \in DOMAIN lo |-> lm[lo[l]]]
      /\ rm2 = [r \in DOMAIN ro |-> rm[ro[r]]]
      /\ la2 = [l \in DOMAIN lo |-> {r \in DOMAIN ro : ro[r] \in la[lo[l]]}]
      /\ ra2 = Mirror(la2, DOMAIN ro)

\* Nothing is lost if those hold every biclique above the thresholds.
LEMMA FitsPruned ==
  ASSUME NEW la, NEW ra, NEW lm, NEW rm, NEW F, FiniteGraph(F), NEW LS,
         NEW a \in Nat \ {0}, NEW c \in Nat \ {0},
         Fits(la, ra, lm, rm, F, LS, a, c),
         NEW LK, NEW RK, LK \subseteq DOMAIN la, RK \subseteq DOMAIN ra,
         NoneLost(ra, a, c, LK, RK),
         NEW la2, NEW ra2, NEW lm2, NEW rm2,
         Keeps(LK, RK, la, lm, rm, la2, ra2, lm2, rm2)
  PROVE  Fits(la2, ra2, lm2, rm2, F, LS, a, c)
<1> DEFINE lo == Ranked(LK)
           ro == Ranked(RK)
<1>0. /\ lo = Ranked(LK) /\ ro = Ranked(RK)
      /\ lm2 = [l \in DOMAIN lo |-> lm[lo[l]]]
      /\ rm2 = [r \in DOMAIN ro |-> rm[ro[r]]]
      /\ la2 = [l \in DOMAIN lo |-> {r \in DOMAIN ro : ro[r] \in la[lo[l]]}]
      /\ ra2 = Mirror(la2, DOMAIN ro)
  BY DEF Keeps
<1> HIDE DEF lo, ro
<1>1. /\ \E m, n \in Nat : DOMAIN la = 0 .. m - 1 /\ DOMAIN ra = 0 .. n - 1
      /\ \A l \in DOMAIN la, r \in DOMAIN ra : r \in la[l] <=> l \in ra[r]
      /\ \A l \in DOMAIN la : lm[l] \in LS
      /\ Left(ra, DOMAIN la, F, lm, rm)
      /\ NoneLost(F, a, c, Image(lm, DOMAIN la), Image(rm, DOMAIN ra))
  BY DEF Fits
<1>2. LK \subseteq Nat /\ IsFiniteSet(LK) /\ RK \subseteq Nat /\ IsFiniteSet(RK)
  <2>1. PICK m \in Nat, n \in Nat : DOMAIN la = 0 .. m - 1 /\ DOMAIN ra = 0 .. n - 1
    BY <1>1
  <2>2. IsFiniteSet(DOMAIN la) /\ IsFiniteSet(DOMAIN ra)
    BY <2>1, Interval
  <2>3. DOMAIN la \subseteq Nat /\ DOMAIN ra \subseteq Nat
    BY <2>1
  <2>4. IsFiniteSet(LK) /\ IsFiniteSet(RK)
    BY <2>2, FS_Subset
  <2> QED BY <2>3, <2>4
<1>3. /\ \A k \in DOMAIN lo : lo[k] \in LK
      /\ \A j, k \in DOMAIN lo : lo[j] = lo[k] => j = k
      /\ \A x \in LK : \E k \in DOMAIN lo : lo[k] = x
      /\ DOMAIN lo = 0 .. Cardinality(LK) - 1 /\ Cardinality(LK) \in Nat
  BY <1>0, <1>2, RankedNumbers
<1>4. /\ \A k \in DOMAIN ro : ro[k] \in RK
      /\ \A j, k \in DOMAIN ro : ro[j] = ro[k] => j = k
      /\ \A x \in RK : \E k \in DOMAIN ro : ro[k] = x
      /\ DOMAIN ro = 0 .. Cardinality(RK) - 1 /\ Cardinality(RK) \in Nat
  BY <1>0, <1>2, RankedNumbers
<1>5. /\ DOMAIN la2 = DOMAIN lo /\ DOMAIN ra2 = DOMAIN ro
      /\ la2 \in [DOMAIN lo -> SUBSET DOMAIN ro]
      /\ ra2 \in [DOMAIN ro -> SUBSET DOMAIN lo]
      /\ \A l \in DOMAIN lo, r \in DOMAIN ro : r \in la2[l] <=> l \in ra2[r]
  BY <1>0 DEF Mirror
<1>6. \A l \in DOMAIN lo, r \in DOMAIN ro : l \in ra2[r] <=> lo[l] \in ra[ro[r]]
  BY <1>0, <1>1, <1>3, <1>4 DEF Mirror
<1>7. /\ \A l \in DOMAIN lo : lm2[l] = lm[lo[l]]
      /\ \A r \in DOMAIN ro : rm2[r] = rm[ro[r]]
  BY <1>0
<1>8. Left(ra2, DOMAIN lo, F, lm2, rm2)
  <2>1. /\ \A r \in DOMAIN ro : ra2[r] \subseteq DOMAIN lo /\ rm2[r] \in DOMAIN F
        /\ \A x \in DOMAIN lo, r \in DOMAIN ro : x \in ra2[r] <=> lm2[x] \in F[rm2[r]]
    <3>1. /\ \A r \in DOMAIN ra : rm[r] \in DOMAIN F
          /\ \A x \in DOMAIN la, r \in DOMAIN ra : x \in ra[r] <=> lm[x] \in F[rm[r]]
      BY <1>1 DEF Left
    <3>2. /\ \A l \in DOMAIN lo : lo[l] \in DOMAIN la
          /\ \A r \in DOMAIN ro : ro[r] \in DOMAIN ra
      BY <1>3, <1>4
    <3>3. \A r \in DOMAIN ro : ra2[r] \subseteq DOMAIN lo
      BY <1>5
    <3>4. \A r \in DOMAIN ro : rm2[r] \in DOMAIN F
      BY <1>7, <3>1, <3>2
    <3> QED BY <1>6, <1>7, <3>1, <3>2, <3>3, <3>4
  <2>2. \A x, y \in DOMAIN lo : lm2[x] = lm2[y] => x = y
    BY <1>1, <1>3, <1>7 DEF Left
  <2>3. \A r, s \in DOMAIN ro : rm2[r] = rm2[s] => r = s
    BY <1>1, <1>4, <1>7 DEF Left
  <2> QED BY <1>5, <2>1, <2>2, <2>3 DEF Left
<1>9. NoneLost(F, a, c, Image(lm2, DOMAIN lo), Image(rm2, DOMAIN ro))
  <2> SUFFICES ASSUME NEW A, NEW B, IsBiclique(F, a, c, A, B)
               PROVE  A \subseteq Image(lm2, DOMAIN lo) /\ B \subseteq Image(rm2, DOMAIN ro)
    BY DEF NoneLost
  <2> DEFINE T == {x \in DOMAIN la : lm[x] \in A}
             S == {r \in DOMAIN ra : rm[r] \in B}
  <2>0. T = {x \in DOMAIN la : lm[x] \in A} /\ S = {r \in DOMAIN ra : rm[r] \in B}
    OBVIOUS
  <2> HIDE DEF T, S
  <2>1. A \subseteq Image(lm, DOMAIN la) /\ B \subseteq Image(rm, DOMAIN ra)
    BY <1>1 DEF NoneLost
  <2>2. IsBiclique(ra, a, c, T, S) /\ A = Image(lm, T) /\ B = Image(rm, S)
    <3> DEFINE D == DOMAIN la
    <3>1. Left(ra, D, F, lm, rm) /\ A \subseteq Image(lm, D) /\ T = {x \in D : lm[x] \in A}
      BY <1>1, <2>0, <2>1
    <3> HIDE DEF D
    <3> QED BY <2>0, <2>1, <3>1, BicliqueLeft
  <2>3. T \subseteq LK /\ S \subseteq RK
    BY <2>2 DEF NoneLost
  <2>4. A \subseteq Image(lm2, DOMAIN lo)
    BY <1>3, <1>7, <2>2, <2>3 DEF Image
  <2>5. B \subseteq Image(rm2, DOMAIN ro)
    BY <1>4, <1>7, <2>2, <2>3 DEF Image
  <2> QED BY <2>4, <2>5
<1>10. \A l \in DOMAIN lo : lm2[l] \in LS
  BY <1>1, <1>3, <1>7
<1>11. \E m, n \in Nat : DOMAIN la2 = 0 .. m - 1 /\ DOMAIN ra2 = 0 .. n - 1
  <2> DEFINE m == Cardinality(LK)
             n == Cardinality(RK)
  <2>1. m \in Nat /\ n \in Nat /\ DOMAIN la2 = 0 .. m - 1 /\ DOMAIN ra2 = 0 .. n - 1
    BY <1>3, <1>4, <1>5
  <2> HIDE DEF m, n
  <2> QED BY <2>1
<1>12. /\ la2 \in [DOMAIN la2 -> SUBSET DOMAIN ra2] /\ ra2 \in [DOMAIN ra2 -> SUBSET DOMAIN la2]
       /\ \A l \in DOMAIN la2, r \in DOMAIN ra2 : r \in la2[l] <=> l \in ra2[r]
       /\ \A l \in DOMAIN la2 : lm2[l] \in LS
  BY <1>5, <1>10
<1>13. /\ Left(ra2, DOMAIN la2, F, lm2, rm2)
       /\ NoneLost(F, a, c, Image(lm2, DOMAIN la2), Image(rm2, DOMAIN ra2))
  <2>1. DOMAIN la2 = DOMAIN lo /\ DOMAIN ra2 = DOMAIN ro
    BY <1>5
  <2> QED BY ONLY <1>8, <1>9, <2>1
<1> QED BY ONLY <1>11, <1>12, <1>13 DEF Fits

----------------------------------------------------------------------------
(* The program.                                                            *)

\* The lines of the file have ids, none of which is left out.
FileOK ==
  /\ \E m, n \in Nat : input \in [0 .. m - 1 -> (SUBSET (0 .. n - 1)) \ {{}}]
  /\ GapFree

ProgramInit ==
  /\ FileOK /\ min_l_size_ \in Nat \ {0} /\ min_r_size_ \in Nat \ {0}
  /\ StartUp

\* The program with any finder and options.
ProgramNext == SetUp \/ (\E name \in AllFinders : Start(name)) \/ Run
Program == ProgramInit /\ [][ProgramNext]_allVars

\* The program with AdaMBE, in the order AdaMBE needs.
AdaProgramNext == SetUp \/ Start("AdaMBE") \/ Run
AdaProgram == ProgramInit /\ order = 2 /\ [][AdaProgramNext]_allVars

\* The file as lists of the side that is R now, and of the one that is L.
FileR == IF transposed THEN input ELSE FileGraph
FileL == IF transposed THEN FileGraph ELSE input

\* The graph is what is left of the file, and nothing that is asked for is lost.
Faithful ==
  Fits(l_adj_lists_, graph_, l_map_, r_map_, FileR, DOMAIN FileL,
       min_l_size_, min_r_size_)

\* What the options ask for, of a file whose sides may have been swapped.
Turned(b) == IF transposed THEN <<b[2], b[1]>> ELSE b
Asked == wanted = {Turned(b) : b \in MaximalBicliques(FileR, min_l_size_, min_r_size_)}

Settings ==
  /\ FileOK /\ min_l_size_ \in Nat \ {0} /\ min_r_size_ \in Nat \ {0}
  /\ transposed \in BOOLEAN

SettingUp == {"start", "loaded", "pruning", "pruned", "sided", "oriented", "ordered"}
Running == {"runs", "finished", "expired"}

Pruning == IF status = "pruning" THEN PruneInv /\ NoneDone
                                      ELSE turn = "none" /\ l_done = {} /\ r_done = {}

ProgramInv ==
  /\ Settings /\ Pruning
  /\ status \in SettingUp \cup Running
  /\ status \in SettingUp => finder = "none" /\ StartState /\ Asked
  /\ status = "start" => ~transposed
  /\ status = "start" \/ finder = "PMBE" \/ Faithful

----------------------------------------------------------------------------
\* The two sides of a file.
LEMMA FileSides ==
  ASSUME FileOK
  PROVE  /\ \E m \in Nat : DOMAIN input = 0 .. m - 1
         /\ Cardinality(FileIds) \in Nat /\ FileIds = 0 .. Cardinality(FileIds) - 1
         /\ DOMAIN FileGraph = FileIds
         /\ OfOneGraph(input, FileGraph) /\ OfOneGraph(FileGraph, input)
         /\ FiniteGraph(input) /\ FiniteGraph(FileGraph)
<1>1. PICK m \in Nat, n \in Nat : input \in [0 .. m - 1 -> (SUBSET (0 .. n - 1)) \ {{}}]
  BY DEF FileOK
<1>2. /\ IsFiniteSet(0 .. m - 1) /\ IsFiniteSet(0 .. n - 1)
      /\ DOMAIN input = 0 .. m - 1 /\ \A l \in DOMAIN input : input[l] \in SUBSET (0 .. n - 1)
  BY <1>1, Interval
<1>3. FiniteGraph(input)
  BY <1>2, FS_Subset DEF FiniteGraph
<1>4. FileIds \in SUBSET (0 .. n - 1)
  BY <1>2 DEF FileIds
<1>5. IsFiniteSet(FileIds) /\ Cardinality(FileIds) \in Nat
  BY <1>2, <1>4, FS_Subset, FS_CardinalityType
<1>6. /\ DOMAIN FileGraph = FileIds
      /\ \A r \in FileIds : FileGraph[r] = {l \in DOMAIN input : r \in input[l]}
  BY DEF FileGraph, Mirror
<1>7. FiniteGraph(FileGraph)
  <2>1. \A r \in FileIds : FileGraph[r] \in SUBSET (0 .. m - 1)
    BY <1>2, <1>6
  <2> QED BY <1>2, <1>5, <1>6, <2>1, FS_Subset DEF FiniteGraph
<1>8. \A l \in DOMAIN input : input[l] \subseteq FileIds
  BY DEF FileIds
<1> QED BY <1>2, <1>3, <1>5, <1>6, <1>7, <1>8 DEF FileOK, GapFree, OfOneGraph

\* The same of the sides as they are now.
LEMMA SidesNow ==
  ASSUME FileOK
  PROVE  OfOneGraph(FileR, FileL) /\ FiniteGraph(FileR) /\ FiniteGraph(FileL)
BY FileSides DEF FileR, FileL

\* What the file has stays the same.
LEMMA FileKept ==
  ASSUME UNCHANGED <<input, transposed, min_l_size_, min_r_size_, wanted>>
  PROVE  /\ (Settings <=> Settings') /\ (Asked <=> Asked')
         /\ UNCHANGED <<FileR, FileL, FileGraph>>
<1>1. UNCHANGED <<FileR, FileL, FileGraph>>
  BY DEF FileGraph, FileIds, Mirror, FileR, FileL
<1> QED BY <1>1 DEF Settings, FileOK, GapFree, FileIds, Asked, Turned

\* The graph stays the same.
LEMMA FaithfulKept ==
  ASSUME Faithful, UNCHANGED <<input, transposed, min_l_size_, min_r_size_, wanted,
                               l_adj_lists_, graph_, l_map_, r_map_>>
  PROVE  Faithful'
BY FileKept DEF Faithful

----------------------------------------------------------------------------
(* The steps that set the finder up.                                       *)

\* The file is loaded as it is.
LEMMA LoadFits == ProgramInv /\ Load => ProgramInv'
<1> SUFFICES ASSUME ProgramInv, Load PROVE ProgramInv'
  OBVIOUS
<1> USE DEF Load, pruneVars, searchVars
<1>1. status = "start" /\ ~transposed /\ transposed' = transposed /\ FileOK
  BY DEF ProgramInv, Settings
<1>2. PICK m \in Nat : DOMAIN input = 0 .. m - 1
  BY <1>1, FileSides
<1> DEFINE n == Cardinality(FileIds)
<1>3. n \in Nat /\ FileIds = 0 .. n - 1
  BY <1>1, FileSides
<1> HIDE DEF n
<1>4. l_map_' = [x \in 0 .. m - 1 |-> x] /\ r_map_' = [x \in 0 .. n - 1 |-> x]
  <2>1. Cardinality(0 .. m - 1) = m
    BY Interval
  <2>2. Ranked(0 .. n - 1) = Identity(n)
    BY <1>3, RankedInterval
  <2> QED BY <1>2, <1>3, <2>1, <2>2 DEF Identity
<1>5. /\ l_adj_lists_' = input
      /\ graph_' = [r \in 0 .. n - 1 |-> {l \in DOMAIN input : r \in input[l]}]
  BY <1>4
<1>6. FileR' = FileGraph /\ FileL' = input /\ FileGraph = graph_'
  <2>1. FileGraph = [r \in 0 .. n - 1 |-> {l \in DOMAIN input : r \in input[l]}]
    BY <1>3 DEF FileGraph, Mirror
  <2>2. UNCHANGED FileGraph
    BY DEF FileGraph, FileIds, Mirror
  <2> QED BY <1>1, <1>5, <2>1, <2>2 DEF FileR, FileL
<1>7. Faithful'
  <2> DEFINE la == l_adj_lists_'
             ra == graph_'
             lm == l_map_'
             rm == r_map_'
  <2>1. DOMAIN la = 0 .. m - 1 /\ DOMAIN ra = 0 .. n - 1
    BY <1>2, <1>5
  <2>2. /\ \A x \in 0 .. m - 1 : lm[x] = x
        /\ \A x \in 0 .. n - 1 : rm[x] = x
    BY <1>4
  <2>3. /\ la \in [DOMAIN la -> SUBSET DOMAIN ra] /\ ra \in [DOMAIN ra -> SUBSET DOMAIN la]
        /\ \A l \in DOMAIN la, r \in DOMAIN ra : r \in la[l] <=> l \in ra[r]
    <3>1. \A l \in DOMAIN input : input[l] \subseteq 0 .. n - 1
      BY <1>3 DEF FileIds
    <3>2. la = input /\ input \in [DOMAIN input -> SUBSET (0 .. n - 1)]
      <4>1. input = [l \in DOMAIN input |-> input[l]]
        BY <1>1 DEF FileOK
      <4> QED BY <1>5, <3>1, <4>1
    <3>3. \A r \in 0 .. n - 1 : ra[r] = {l \in DOMAIN input : r \in input[l]}
      BY <1>5
    <3>4. ra \in [0 .. n - 1 -> SUBSET DOMAIN input]
      BY <1>5
    <3> QED BY <2>1, <3>2, <3>3, <3>4
  <2>4. Left(ra, DOMAIN la, FileR', lm, rm)
    BY <1>6, <2>1, <2>2, <2>3 DEF Left
  <2>5. Image(lm, DOMAIN la) = DOMAIN input /\ Image(rm, DOMAIN ra) = 0 .. n - 1
    BY <1>2, <2>1, <2>2 DEF Image
  <2>6. NoneLost(FileR', min_l_size_', min_r_size_', Image(lm, DOMAIN la), Image(rm, DOMAIN ra))
    <3> SUFFICES ASSUME NEW T, NEW S, IsBiclique(FileGraph, min_l_size_, min_r_size_, T, S)
                 PROVE  T \subseteq DOMAIN input /\ S \subseteq DOMAIN FileGraph
      BY <1>6, <2>1, <2>5 DEF NoneLost
    <3>1. S # {}
      BY <1>1, FileSides, BicliqueSides DEF ProgramInv, Settings
    <3> QED BY <1>1, <3>1, FileSides DEF IsBiclique, OfOneGraph
  <2>7. \A l \in DOMAIN la : lm[l] \in DOMAIN FileL'
    BY <1>2, <1>6, <2>1, <2>2
  <2> HIDE DEF la, ra, lm, rm
  <2>9. \E k, j \in Nat : DOMAIN la = 0 .. k - 1 /\ DOMAIN ra = 0 .. j - 1
    BY <1>3, <2>1
  <2>8. Fits(la, ra, lm, rm, FileR', DOMAIN FileL', min_l_size_', min_r_size_')
    BY ONLY <2>3, <2>4, <2>6, <2>7, <2>9 DEF Fits
  <2> QED BY <2>8 DEF Faithful, la, ra, lm, rm
<1>8. Settings' /\ Asked'
  <2>1. Settings /\ Asked
    BY <1>1 DEF ProgramInv, SettingUp
  <2> QED BY <2>1, FileKept
<1>9. StartState' /\ finder' = "none" /\ Pruning'
  BY <1>1 DEF ProgramInv, StartState, Pruning, SettingUp
<1> QED BY <1>7, <1>8, <1>9 DEF ProgramInv, SettingUp

\* At first no vertex is done.
LEMMA PruneInitNone == PruneInit => NoneDone
BY DEF PruneInit, Begin, NoneDone

\* Prune1H begins on a graph it can work on.
LEMMA BeginPruneGoes == ProgramInv /\ BeginPrune => ProgramInv'
<1>1. (PruneInit => PruneInv /\ NoneDone)'
  BY PruneInitInv, PruneInitNone, PTL
<1> SUFFICES ASSUME ProgramInv, BeginPrune PROVE ProgramInv'
  OBVIOUS
<1> USE DEF BeginPrune, mapVars, searchVars, bigraphVars
<1>2. status = "loaded" /\ status' = "pruning" /\ Settings /\ Faithful
  BY DEF ProgramInv, SettingUp
<1>3. Settings' /\ Asked' /\ Faithful' /\ finder' = "none" /\ StartState'
  BY <1>2, FileKept, FaithfulKept DEF ProgramInv, SettingUp, StartState
<1>4. PruneInit'
  <2>1. PICK m \in Nat, n \in Nat : Ls = 0 .. m - 1 /\ Rs = 0 .. n - 1
    BY <1>2 DEF Faithful, Fits, Ls, Rs
  <2>2. IsFiniteSet(Ls) /\ IsFiniteSet(Rs)
    BY <2>1, Interval
  <2>3. Mirrored
    BY <1>2 DEF Faithful, Fits, Mirrored, Ls, Rs
  <2>4. Ls' = Ls /\ Rs' = Rs /\ Mirrored'
    BY <2>3 DEF Ls, Rs, Mirrored
  <2>5. l_done = {} /\ r_done = {}
    BY <1>2 DEF ProgramInv, Pruning
  <2>6. Begin'
    BY <2>5 DEF Begin, Degrees, Seeds, FirstTurn
  <2>7. min_l_size_' \in Nat \ {0} /\ min_r_size_' \in Nat \ {0}
    BY <1>2 DEF Settings
  <2> QED BY <2>2, <2>4, <2>6, <2>7 DEF PruneInit
<1> QED BY <1>1, <1>2, <1>3, <1>4 DEF ProgramInv, SettingUp, Pruning

\* Prune1H goes on.
LEMMA PruneGoes == ProgramInv /\ Prune => ProgramInv'
<1> SUFFICES ASSUME ProgramInv, Prune PROVE ProgramInv'
  OBVIOUS
<1>1. /\ status = "pruning" /\ status' = status /\ PruneStep
      /\ UNCHANGED <<input, transposed, min_l_size_, min_r_size_, wanted,
                     l_adj_lists_, graph_, l_map_, r_map_, searchVars>>
  BY DEF Prune, PruneStep, graphVars, mapVars, searchVars
<1>2. Settings' /\ Asked' /\ Faithful' /\ finder' = "none" /\ StartState'
  BY <1>1, FileKept, FaithfulKept DEF ProgramInv, SettingUp, StartState, searchVars
<1>3. PruneInv' /\ NoneDone'
  BY <1>1, PruneStepInv, NoneDoneStep DEF ProgramInv, Pruning
<1> QED BY <1>1, <1>2, <1>3 DEF ProgramInv, SettingUp, Pruning

\* The bicliques of the graph that are above the thresholds stay.
LEMMA KeptAll ==
  ASSUME Settings, Faithful, PruneInv, NoneDone, turn = "ended"
  PROVE  NoneLost(graph_, min_l_size_, min_r_size_, LKept, RKept)
<1> SUFFICES ASSUME NEW T, NEW S, IsBiclique(graph_, min_l_size_, min_r_size_, T, S)
             PROVE  T \subseteq LKept /\ S \subseteq RKept
  BY DEF NoneLost
<1>1. /\ Mirrored /\ Left(graph_, Ls, FileR, l_map_, r_map_)
      /\ FiniteGraph(FileR)
  BY SidesNow DEF Faithful, Fits, Mirrored, Ls, Rs, Settings
<1>2. FiniteGraph(graph_)
  BY <1>1, LeftFinite
<1>3. S # {}
  BY <1>2, BicliqueSides DEF Settings
<1>4. T \subseteq Ls /\ S \subseteq Rs /\ \A r \in S : T \subseteq graph_[r]
  BY <1>1, <1>3 DEF IsBiclique, Mirrored, Rs
<1>5. Above(T, S)
  BY <1>1, <1>4 DEF Above, IsBiclique, Mirrored
<1>6. T \cap l_done = {} /\ S \cap r_done = {}
  BY <1>5 DEF NoneDone
<1> QED BY <1>4, <1>6, KeptFromInv DEF KeptExactly

\* What Prune1H keeps is renumbered.
LEMMA EndPruneFits == ProgramInv /\ EndPrune => ProgramInv'
<1> SUFFICES ASSUME ProgramInv, EndPrune PROVE ProgramInv'
  OBVIOUS
<1>1. /\ status = "pruning" /\ turn = "ended" /\ status' = "pruned"
      /\ l_done' = {} /\ r_done' = {} /\ turn' = "none"
      /\ UNCHANGED <<input, transposed, min_l_size_, min_r_size_, wanted, searchVars>>
  BY DEF EndPrune, searchVars
<1>2. Settings' /\ Asked' /\ finder' = "none" /\ StartState' /\ Pruning'
  BY <1>1, FileKept DEF ProgramInv, SettingUp, StartState, searchVars, Pruning
<1>3. Settings /\ Faithful /\ PruneInv /\ NoneDone
  BY <1>1 DEF ProgramInv, SettingUp, Pruning
<1>4. NoneLost(graph_, min_l_size_, min_r_size_, LKept, RKept)
  BY <1>1, <1>3, KeptAll
<1>5. LKept \subseteq Ls /\ RKept \subseteq Rs
  BY <1>3 DEF PruneInv, PruneTypes, LKept, RKept
<1>6. Keeps(LKept, RKept, l_adj_lists_, l_map_, r_map_,
            l_adj_lists_', graph_', l_map_', r_map_')
  BY DEF EndPrune, Keeps
<1>7. FileR' = FileR /\ FileL' = FileL /\ FiniteGraph(FileR)
  BY <1>1, <1>3, FileKept, SidesNow DEF Settings
<1>8. /\ Fits(l_adj_lists_, graph_, l_map_, r_map_, FileR, DOMAIN FileL, min_l_size_, min_r_size_)
      /\ min_l_size_ \in Nat \ {0} /\ min_r_size_ \in Nat \ {0}
      /\ LKept \subseteq DOMAIN l_adj_lists_ /\ RKept \subseteq DOMAIN graph_
  BY <1>3, <1>5 DEF Faithful, Settings, Ls, Rs
<1>9. Fits(l_adj_lists_', graph_', l_map_', r_map_', FileR, DOMAIN FileL, min_l_size_, min_r_size_)
  BY <1>4, <1>6, <1>7, <1>8, FitsPruned
<1>10. Faithful'
  BY <1>1, <1>7, <1>9 DEF Faithful
<1> QED BY <1>1, <1>2, <1>10 DEF ProgramInv, SettingUp

\* The sides are swapped, and the thresholds with them.
LEMMA TransposeFits ==
  ASSUME Settings, Faithful, Asked, Transpose, UNCHANGED <<input, wanted>>
  PROVE  Settings' /\ Faithful' /\ Asked'
<1> USE DEF Transpose
<1>1. FileR' = FileL /\ FileL' = FileR
  BY DEF FileR, FileL, FileGraph, FileIds, Mirror, Settings
<1>2. Settings'
  BY DEF Settings, FileOK, GapFree, FileIds
<1>3. OfOneGraph(FileR, FileL) /\ OfOneGraph(FileL, FileR)
      /\ FiniteGraph(FileR) /\ FiniteGraph(FileL)
  BY FileSides DEF FileR, FileL, Settings
<1>4. min_l_size_ \in Nat \ {0} /\ min_r_size_ \in Nat \ {0}
  BY DEF Settings
<1>5. Fits(l_adj_lists_, graph_, l_map_, r_map_, FileR, DOMAIN FileL, min_l_size_, min_r_size_)
  BY DEF Faithful
<1>6. Fits(graph_, l_adj_lists_, r_map_, l_map_, FileL, DOMAIN FileR, min_r_size_, min_l_size_)
  BY <1>3, <1>4, <1>5, FitsTurned
<1>7. Faithful'
  BY <1>1, <1>6 DEF Faithful
<1>8. \A T, S : IsMaximalBiclique(FileR, min_l_size_, min_r_size_, T, S)
                <=> IsMaximalBiclique(FileL, min_r_size_, min_l_size_, S, T)
  BY <1>3, Exchanged DEF OfOneGraph
<1> DEFINE M == MaximalBicliques(FileR, min_l_size_, min_r_size_)
           N == MaximalBicliques(FileL, min_r_size_, min_l_size_)
           Turn(t, b) == IF t THEN <<b[2], b[1]>> ELSE b
<1>9. /\ \A b : b \in M <=> \E T, S : b = <<T, S>>
                               /\ IsMaximalBiclique(FileR, min_l_size_, min_r_size_, T, S)
      /\ \A b : b \in N <=> \E S, T : b = <<S, T>>
                               /\ IsMaximalBiclique(FileL, min_r_size_, min_l_size_, S, T)
  BY AreMaximal
<1>10. wanted = {Turn(transposed, b) : b \in M}
  BY DEF Asked, Turned
<1>11. Asked' <=> wanted = {Turn(~transposed, b) : b \in N}
  BY <1>1 DEF Asked, Turned
<1> HIDE DEF M, N
<1>12. {Turn(transposed, b) : b \in M} \subseteq {Turn(~transposed, b) : b \in N}
  <2> SUFFICES ASSUME NEW b \in M PROVE \E d \in N : Turn(transposed, b) = Turn(~transposed, d)
    OBVIOUS
  <2>1. PICK T, S : b = <<T, S>> /\ IsMaximalBiclique(FileR, min_l_size_, min_r_size_, T, S)
    BY <1>9
  <2>2. <<S, T>> \in N
    BY <1>8, <1>9, <2>1
  <2>3. Turn(transposed, b) = Turn(~transposed, <<S, T>>)
    BY <2>1
  <2> QED BY <2>2, <2>3
<1>13. {Turn(~transposed, b) : b \in N} \subseteq {Turn(transposed, b) : b \in M}
  <2> SUFFICES ASSUME NEW d \in N PROVE \E b \in M : Turn(transposed, b) = Turn(~transposed, d)
    OBVIOUS
  <2>1. PICK S, T : d = <<S, T>> /\ IsMaximalBiclique(FileL, min_r_size_, min_l_size_, S, T)
    BY <1>9
  <2>2. <<T, S>> \in M
    BY <1>8, <1>9, <2>1
  <2>3. Turn(transposed, <<T, S>>) = Turn(~transposed, d)
    BY <2>1
  <2> QED BY <2>2, <2>3
<1> QED BY <1>2, <1>7, <1>10, <1>11, <1>12, <1>13

\* ChooseSides and ChooseDegrees.
LEMMA SwapsGoes ==
  ASSUME ProgramInv, status \in SettingUp \ {"start", "pruning"}, NEW cond, Swaps(cond),
         UNCHANGED <<searchVars, input, pruneVars>>,
         status' \in SettingUp \ {"start", "pruning"}
  PROVE  ProgramInv'
<1>1. UNCHANGED <<input, wanted>> /\ finder' = "none" /\ StartState'
  BY DEF searchVars, ProgramInv, StartState
<1>2. Settings /\ Asked /\ Faithful
  BY DEF ProgramInv
<1>3. Settings' /\ Faithful' /\ Asked'
  <2>1. CASE Transpose
    BY <1>1, <1>2, <2>1, TransposeFits
  <2>2. CASE UNCHANGED <<graph_, min_l_size_, min_r_size_, mapVars, bigraphVars>>
    BY <1>1, <1>2, <2>2, FileKept, FaithfulKept DEF mapVars, bigraphVars
  <2> QED BY <2>1, <2>2 DEF Swaps
<1>4. Pruning'
  BY DEF pruneVars, ProgramInv, Pruning
<1> QED BY <1>1, <1>3, <1>4 DEF ProgramInv

LEMMA ChoosesGo == ProgramInv /\ (ChooseSides \/ ChooseDegrees) => ProgramInv'
<1> SUFFICES ASSUME ProgramInv, ChooseSides \/ ChooseDegrees PROVE ProgramInv'
  OBVIOUS
<1>1. PICK cond : Swaps(cond)
  BY DEF ChooseSides, ChooseDegrees
<1>2. /\ status \in SettingUp \ {"start", "pruning"}
      /\ status' \in SettingUp \ {"start", "pruning"}
      /\ UNCHANGED <<searchVars, input, pruneVars>>
  BY DEF ChooseSides, ChooseDegrees, Pruned, SettingUp
<1> QED BY <1>1, <1>2, SwapsGoes

\* Orders are orders of R.
LEMMA OrdersOfR ==
  ASSUME Faithful, NEW op, NEW p \in Orders(op)
  PROVE  /\ p \in Bijection(Rs, Rs)
         /\ op = 2 => \A i, j \in Rs : i < j => ~RIncLess(graph_[p[j]], graph_[p[i]])
<1>1. PICK m \in Nat, n \in Nat : Rs = 0 .. n - 1
  BY DEF Faithful, Fits, Rs
<1>2. CASE op = 1
  <2>1. p = [x \in Rs |-> x]
    BY <1>1, <1>2, Interval DEF Orders, Identity
  <2>2. p \in [Rs -> Rs] /\ (\A x, y \in Rs : p[x] = p[y] => x = y)
        /\ \A x \in Rs : \E y \in Rs : p[y] = x
    BY <2>1
  <2> QED BY <1>2, <2>2, Fun_IsBij
<1>3. CASE op = 2
  BY <1>3 DEF Orders
<1>4. CASE op \notin {1, 2}
  BY <1>4 DEF Orders
<1> QED BY <1>2, <1>3, <1>4

\* Putting R in order keeps the edges.
LEMMA RenumberFits ==
  ASSUME ProgramInv, status \in SettingUp \ {"start", "pruning"},
         NEW op, NEW p \in Orders(op), Renumber(p),
         UNCHANGED <<min_l_size_, min_r_size_, l_map_, transposed, wanted, input>>
  PROVE  /\ Settings' /\ Faithful' /\ Asked'
         /\ op = 2 => Ordered(graph_)'
<1>1. Settings /\ Asked /\ Faithful
  BY DEF ProgramInv
<1>2. /\ p \in Bijection(Rs, Rs)
      /\ op = 2 => \A i, j \in Rs : i < j => ~RIncLess(graph_[p[j]], graph_[p[i]])
  BY <1>1, OrdersOfR
<1>3. /\ Settings' /\ Asked' /\ FileR' = FileR /\ FileL' = FileL
  BY <1>1, FileKept
<1>4. /\ graph_' = [r \in DOMAIN graph_ |-> graph_[p[r]]]
      /\ r_map_' = [r \in DOMAIN graph_ |-> r_map_[p[r]]]
      /\ l_adj_lists_' = Mirror(graph_', DOMAIN l_adj_lists_)
  BY DEF Renumber, Rs, Ls
<1>5. Fits(l_adj_lists_', graph_', l_map_, r_map_', FileR, DOMAIN FileL, min_l_size_, min_r_size_)
  BY <1>1, <1>2, <1>4, FitsRenumbered DEF Faithful, Rs
<1>6. Faithful'
  BY <1>3, <1>5 DEF Faithful
<1>7. op = 2 => Ordered(graph_)'
  BY <1>2, <1>4 DEF Ordered, Rs
<1> QED BY <1>3, <1>6, <1>7

LEMMA ReorderGoes == ProgramInv /\ Reorder => ProgramInv'
<1> SUFFICES ASSUME ProgramInv, Reorder PROVE ProgramInv'
  OBVIOUS
<1>1. PICK p \in Orders(order) : Renumber(p)
  BY DEF Reorder
<1>2. /\ status \in SettingUp \ {"start", "pruning"} /\ status' = "ordered"
      /\ UNCHANGED <<min_l_size_, min_r_size_, l_map_, transposed, input, searchVars, pruneVars>>
  BY DEF Reorder, SettingUp
<1>3. Settings' /\ Faithful' /\ Asked'
  BY <1>1, <1>2, RenumberFits DEF searchVars
<1>4. finder' = "none" /\ StartState' /\ Pruning'
  BY <1>2 DEF searchVars, pruneVars, StartState, ProgramInv, Pruning
<1> QED BY <1>2, <1>3, <1>4 DEF ProgramInv, SettingUp

\* The finder begins with what Reorder leaves.
LEMMA StartGoes ==
  ASSUME ProgramInv, NEW name, Start(name)
  PROVE  /\ ProgramInv' /\ Faithful' /\ Asked' /\ StartState'
         /\ status' = "runs" /\ finder' = name
         /\ OwnOrder(name) = 2 => Ordered(graph_)'
<1>1. PICK p \in Orders(OwnOrder(name)) : Renumber(p)
  BY DEF Start
<1>2. /\ status \in SettingUp \ {"start", "pruning"} /\ status' = "runs" /\ finder' = name
      /\ UNCHANGED <<min_l_size_, min_r_size_, l_map_, transposed, input, wanted,
                     cur_v_, stack, heap, found, maximal_nodes_, pruneVars>>
  BY DEF Start, SettingUp
<1>3. Settings' /\ Faithful' /\ Asked' /\ (OwnOrder(name) = 2 => Ordered(graph_)')
  BY <1>1, <1>2, RenumberFits
<1>4. StartState' /\ Pruning'
  BY <1>2 DEF pruneVars, StartState, ProgramInv, Pruning
<1> QED BY <1>2, <1>3, <1>4 DEF ProgramInv, Running, SettingUp

----------------------------------------------------------------------------
(* The finders.                                                            *)

\* Nothing but PMBE's construction of its graph touches the graph; the search
\* begins and ends as the status says.
LEMMA FindersKeep ==
  ASSUME Next
  PROVE  /\ status \in Running /\ status' \in Running /\ finder' = finder
         /\ finder # "PMBE" => UNCHANGED fixed
         /\ UNCHANGED <<min_l_size_, min_r_size_, transposed, wanted>>
<1> DEFINE Steady == /\ status = "runs" /\ status' \in {"runs", "expired"}
                     /\ UNCHANGED fixed
<1> USE DEF AtRoot, Active, NextRoot, Enter, Continue, Call, Pop
<1>1. Step => Steady
  BY DEF Step, SkipRoot, ExpandSetRoot, ExpandBitRoot, SkipCandidate, LargeCandidate,
         SmallCandidate, Entry, Return, OnSet, OnBit
<1>2. DSB!Step => Steady
  BY DEF DSB!Step, DSB!SkipRoot, DSB!ExpandSetRoot, DSB!ExpandBitRoot,
         DSB!SkipEntry, DSB!SetEntry, DSB!SkipEmpty, DSB!BitEntry, DSB!Return,
         DSB!OnSet, DSB!OnBit, DSB!AtRoot, DSB!Active, DSB!NextRoot, DSB!Enter,
         DSB!Continue, DSB!Call, DSB!Pop, DSB!fixed, fixed, inputVars, DSB!inputVars,
         mapVars, DSB!mapVars
<1>3. NC!Step => Steady
  BY DEF NC!Step, NC!SkipRoot, NC!ExpandRoot, NC!SkipNode, NC!MaximalNode,
         NC!NonMaximalNode, NC!Return, NC!On, NC!AtRoot, NC!Active, NC!NextRoot, NC!Enter,
         NC!Continue, NC!Call, NC!Pop, NC!fixed, fixed, inputVars, NC!inputVars,
         mapVars, NC!mapVars
<1>4. MBEA!Step => Steady
  BY DEF MBEA!Step, MBEA!SkipRoot, MBEA!ExpandRoot, MBEA!PassCandidate,
         MBEA!Maximal, MBEA!Return, MBEA!OnCandidate, MBEA!AtRoot, MBEA!Active,
         MBEA!NextRoot, MBEA!Enter,
         MBEA!Continue, MBEA!Call, MBEA!Pop, MBEA!fixed, fixed, inputVars, MBEA!inputVars,
         mapVars, MBEA!mapVars
<1>5. LMBC!Step => Steady
  BY DEF LMBC!Step, LMBC!Root, LMBC!PassCandidate, LMBC!MaximalCandidate, LMBC!Return,
         LMBC!AtRoot, LMBC!Active, LMBC!NextRoot, LMBC!Enter,
         LMBC!Continue, LMBC!Call, LMBC!Pop, LMBC!fixed, fixed, inputVars, LMBC!inputVars,
         mapVars, LMBC!mapVars
<1>6. PMBE!Step => Steady \/ (PMBE!BuildGraph /\ finder = "PMBE")
  BY DEF PMBE!Step, PMBE!SkipRoot, PMBE!ExpandRoot, PMBE!BuildGraph,
         PMBE!PassCandidate, PMBE!Maximal, PMBE!Return, PMBE!OnCandidate,
         PMBE!AtRoot, PMBE!Active, PMBE!NextRoot, PMBE!Enter,
         PMBE!Continue, PMBE!Call, PMBE!Pop, PMBE!fixed, fixed, inputVars, PMBE!inputVars,
         mapVars, PMBE!mapVars
<1>7. CASE Steady
  BY <1>7 DEF Running, fixed, inputVars, mapVars
<1>8. CASE PMBE!BuildGraph /\ finder = "PMBE"
  BY <1>8 DEF PMBE!BuildGraph, PMBE!AtRoot, Running
<1>9. CASE Finish
  BY <1>9 DEF Finish, Running, fixed, inputVars, mapVars
<1>10. CASE Stopped
  BY <1>10 DEF Stopped, vars, Running, fixed, inputVars, mapVars
<1> QED BY <1>1, <1>2, <1>3, <1>4, <1>5, <1>6, <1>7, <1>8, <1>9, <1>10 DEF Next, Execute

LEMMA RunGoes == ProgramInv /\ Run => ProgramInv'
<1> SUFFICES ASSUME ProgramInv, Run PROVE ProgramInv'
  OBVIOUS
<1>1. Next /\ UNCHANGED mainVars
  BY DEF Run
<1>2. /\ status \in Running /\ status' \in Running /\ finder' = finder
      /\ finder # "PMBE" => UNCHANGED fixed
      /\ UNCHANGED <<min_l_size_, min_r_size_, transposed, wanted>>
  BY <1>1, FindersKeep
<1>3. Settings'
  BY <1>1, <1>2, FileKept DEF ProgramInv, mainVars
<1>4. Pruning'
  BY <1>1, <1>2 DEF ProgramInv, Pruning, mainVars, pruneVars, Running
<1>5. finder # "PMBE" => Faithful'
  <2> SUFFICES ASSUME finder # "PMBE" PROVE Faithful'
    OBVIOUS
  <2>1. Faithful
    BY <1>2 DEF ProgramInv, Running
  <2> QED BY <1>1, <1>2, <2>1, FaithfulKept DEF mainVars, bigraphVars, fixed, inputVars, mapVars
<1> QED BY <1>2, <1>3, <1>4, <1>5 DEF ProgramInv, Running, SettingUp

\* At the beginning, before there is a graph.
LEMMA ProgramInitInv == ProgramInit => ProgramInv
<1> SUFFICES ASSUME ProgramInit PROVE ProgramInv
  OBVIOUS
<1>1. Settings /\ Pruning /\ status = "start" /\ ~transposed /\ finder = "none" /\ StartState
  BY DEF ProgramInit, StartUp, Settings, Pruning
<1>2. Asked
  BY DEF ProgramInit, StartUp, Asked, Turned, FileR
<1> QED BY <1>1, <1>2 DEF ProgramInv, SettingUp

LEMMA ProgramNextInv == ProgramInv /\ [ProgramNext]_allVars => ProgramInv'
<1> SUFFICES ASSUME ProgramInv, [ProgramNext]_allVars PROVE ProgramInv'
  OBVIOUS
<1>1. CASE SetUp
  BY <1>1, LoadFits, BeginPruneGoes, PruneGoes, EndPruneFits, ChoosesGo, ReorderGoes DEF SetUp
<1>2. ASSUME NEW name \in AllFinders, Start(name) PROVE ProgramInv'
  BY <1>2, StartGoes
<1>3. CASE Run
  BY <1>3, RunGoes
<1>4. CASE UNCHANGED allVars
  <2>1. UNCHANGED <<input, transposed, min_l_size_, min_r_size_, wanted, l_adj_lists_, graph_,
                   l_map_, r_map_, pruneVars, status, finder, cur_v_, stack, heap, found,
                   maximal_nodes_>>
    BY <1>4 DEF allVars, vars, mainVars, fixed, inputVars, mapVars, bigraphVars
  <2>2. (Settings <=> Settings') /\ (Asked <=> Asked') /\ (Faithful => Faithful')
    BY <2>1, FileKept, FaithfulKept
  <2>3. StartState => StartState'
    BY <2>1 DEF StartState
  <2>4. Pruning => Pruning'
    <3>1. UNCHANGED loopVars
      BY <2>1 DEF loopVars, graphVars
    <3>2. PruneInv /\ NoneDone => PruneInv' /\ NoneDone'
      BY <3>1, PruneStepInv, NoneDoneStep
    <3> QED BY <2>1, <3>2 DEF Pruning, pruneVars
  <2> QED BY <2>1, <2>2, <2>3, <2>4 DEF ProgramInv
<1> QED BY <1>1, <1>2, <1>3, <1>4 DEF ProgramNext

----------------------------------------------------------------------------
(* What holds of every file, all options and every finder.                 *)

\* Loading, pruning, swapping, ordering and running a finder keep the account
\* of what the graph has to do with the file.
THEOREM FileIsKept == Program => []ProgramInv
BY ProgramInitInv, ProgramNextInv, PTL DEF Program

\* What Fits says of single vertices.
LEMMA VerticesFit ==
  ASSUME Faithful
  PROVE  /\ \A l \in Ls : l_adj_lists_[l] \subseteq Rs /\ l_map_[l] \in DOMAIN FileL
         /\ \A r \in Rs : graph_[r] \subseteq Ls /\ r_map_[r] \in DOMAIN FileR
         /\ \A l \in Ls, r \in Rs : /\ r \in l_adj_lists_[l] <=> l \in graph_[r]
                                    /\ l \in graph_[r] <=> l_map_[l] \in FileR[r_map_[r]]
<1>1. /\ l_adj_lists_ \in [Ls -> SUBSET Rs] /\ graph_ \in [Rs -> SUBSET Ls]
      /\ \A l \in Ls, r \in Rs : r \in l_adj_lists_[l] <=> l \in graph_[r]
      /\ \A l \in Ls : l_map_[l] \in DOMAIN FileL
      /\ Left(graph_, Ls, FileR, l_map_, r_map_)
  <2>1. /\ l_adj_lists_ \in [DOMAIN l_adj_lists_ -> SUBSET DOMAIN graph_]
        /\ graph_ \in [DOMAIN graph_ -> SUBSET DOMAIN l_adj_lists_]
        /\ \A l \in DOMAIN l_adj_lists_, r \in DOMAIN graph_ : r \in l_adj_lists_[l] <=> l \in graph_[r]
        /\ \A l \in DOMAIN l_adj_lists_ : l_map_[l] \in DOMAIN FileL
        /\ Left(graph_, DOMAIN l_adj_lists_, FileR, l_map_, r_map_)
    BY DEF Faithful, Fits
  <2>2. Ls = DOMAIN l_adj_lists_ /\ Rs = DOMAIN graph_
    BY Zenon DEF Ls, Rs, r_adj_lists_
  <2> QED BY ONLY <2>1, <2>2, Zenon
<1>2. /\ \A r \in Rs : r_map_[r] \in DOMAIN FileR
      /\ \A l \in Ls, r \in Rs : l \in graph_[r] <=> l_map_[l] \in FileR[r_map_[r]]
  BY <1>1 DEF Left, Rs
<1> QED BY <1>1, <1>2

\* SameEdges: whatever Load, Prune1H, Transpose and Reorder have done, the edges
\* of the graph are those of the file between the vertices that are left.
THEOREM EdgesOfFile == Program => []SameEdges
<1>1. ProgramInv => SameEdges
  <2> SUFFICES ASSUME ProgramInv, status # "start", finder # "PMBE",
                      NEW l \in Ls, NEW r \in Rs
               PROVE  LET InFile == IF transposed THEN l_map_[l] \in input[r_map_[r]]
                                                  ELSE r_map_[r] \in input[l_map_[l]]
                      IN  (InFile <=> l \in graph_[r]) /\ (InFile <=> r \in l_adj_lists_[l])
    BY DEF SameEdges
  <2>1. /\ l \in graph_[r] <=> l_map_[l] \in FileR[r_map_[r]]
        /\ r \in l_adj_lists_[l] <=> l \in graph_[r]
        /\ l_map_[l] \in DOMAIN FileL /\ r_map_[r] \in DOMAIN FileR
    BY VerticesFit DEF ProgramInv
  <2>2. CASE transposed
    BY <2>1, <2>2 DEF FileR
  <2>3. CASE ~transposed
    <3>1. l_map_[l] \in DOMAIN input /\ r_map_[r] \in FileIds
      BY <2>1, <2>3 DEF FileR, FileL, FileGraph, Mirror
    <3>2. FileR[r_map_[r]] = {k \in DOMAIN input : r_map_[r] \in input[k]}
      BY <2>3, <3>1 DEF FileR, FileGraph, Mirror
    <3> QED BY <2>1, <2>3, <3>1, <3>2
  <2> QED BY <2>2, <2>3
<1> QED BY <1>1, FileIsKept, PTL

\* LogicIds, in a file without gaps: the lists hold ids of the other side, until
\* PMBE builds a graph of its own.
THEOREM NoGapsNoStrangers == Program => [](finder # "PMBE" => LogicIds)
<1>1. ProgramInv => (finder # "PMBE" => LogicIds)
  BY VerticesFit DEF ProgramInv, LogicIds
<1> QED BY <1>1, FileIsKept, PTL

\* NoSecondPush, of Prune1H as main calls it.
THEOREM MainPushesOnce == Program => []NoSecondPush
<1>1. ProgramInv => NoSecondPush
  BY OnePush DEF ProgramInv, Pruning, NoSecondPush
<1> QED BY <1>1, FileIsKept, PTL

\* BicliquesKept, of Prune1H as main calls it: pruning loses no biclique above
\* the thresholds.
THEOREM MainKeepsBicliques == Program => []BicliquesKept
<1>1. ProgramInv => BicliquesKept
  BY NothingRemoved DEF ProgramInv, Pruning, BicliquesKept
<1> QED BY <1>1, FileIsKept, PTL

\* Peels: Prune1H as main calls it removes only vertices with too few neighbors
\* left, until none has.
THEOREM MainPeels == Program => Peels
<1>1. ProgramInv /\ [ProgramNext]_allVars
        => (turn # "none" /\ turn' # "none" => [P!PeelNext]_(P!peelVars))
  <2> SUFFICES ASSUME ProgramInv, [ProgramNext]_allVars, turn # "none", turn' # "none"
               PROVE  [P!PeelNext]_(P!peelVars)
    OBVIOUS
  <2>1. status = "pruning" /\ PruneInv
    BY DEF ProgramInv, Pruning
  <2>2. PruneStep \/ UNCHANGED allVars
    <3>1. ~Run
      BY <2>1, FindersKeep DEF Run, Running
    <3>2. \A name \in AllFinders : ~Start(name)
      BY <2>1 DEF Start
    <3>3. ~(Load \/ BeginPrune \/ EndPrune \/ ChooseSides \/ ChooseDegrees \/ Reorder)
      BY <2>1 DEF Load, BeginPrune, EndPrune, ChooseSides, ChooseDegrees, Reorder, Pruned
    <3> QED BY <3>1, <3>2, <3>3 DEF ProgramNext, SetUp, Prune
  <2>3. [PruneStep]_loopVars
    <3>1. CASE UNCHANGED allVars
      <4>1. UNCHANGED <<graph_, l_adj_lists_, min_l_size_, min_r_size_, pruneVars>>
        BY <3>1 DEF allVars, vars, mainVars, fixed, inputVars, bigraphVars
      <4> QED BY <4>1 DEF loopVars, graphVars
    <3> QED BY <2>2, <3>1
  <2> QED BY <2>1, <2>3, PeelsStep
<1>2. ProgramInv /\ [ProgramNext]_allVars
        => [turn # "none" /\ turn' # "none" => [P!PeelNext]_(P!peelVars)]_loopVars
  BY <1>1
<1> QED BY <1>2, FileIsKept, PTL DEF Program, Peels, loopVars

----------------------------------------------------------------------------
(* The program with AdaMBE.                                                *)

\* What the file asks for is what the graph has, by other names.
LEMMA AskedOfGraph ==
  ASSUME Settings, Faithful, Asked
  PROVE  wanted = InInput(MaximalBicliques(graph_, min_l_size_, min_r_size_))
<1> DEFINE M == MaximalBicliques(graph_, min_l_size_, min_r_size_)
           N == MaximalBicliques(FileR, min_l_size_, min_r_size_)
           Renamed(b) == <<Image(l_map_, b[1]), Image(r_map_, b[2])>>
<1>1. /\ Left(graph_, Ls, FileR, l_map_, r_map_) /\ FiniteGraph(FileR)
      /\ NoneLost(FileR, min_l_size_, min_r_size_, Image(l_map_, Ls), Image(r_map_, DOMAIN graph_))
      /\ min_l_size_ \in Nat \ {0} /\ min_r_size_ \in Nat \ {0}
  BY SidesNow DEF Faithful, Fits, Settings, Ls
<1>2. /\ \A b : b \in M <=> \E T, S : b = <<T, S>>
                               /\ IsMaximalBiclique(graph_, min_l_size_, min_r_size_, T, S)
      /\ \A b : b \in N <=> \E T, S : b = <<T, S>>
                               /\ IsMaximalBiclique(FileR, min_l_size_, min_r_size_, T, S)
  BY AreMaximal
<1>3. \A b : Converted(b) = Turned(Renamed(b))
  BY DEF Converted, Sides, Turned, Image
<1>4. InInput(M) = {Converted(b) : b \in M}
  BY Conversion
<1>5. wanted = {Turned(b) : b \in N}
  BY DEF Asked
<1> HIDE DEF M, N
<1>6. ASSUME NEW b \in M PROVE Renamed(b) \in N
  <2>1. PICK T, S : b = <<T, S>> /\ IsMaximalBiclique(graph_, min_l_size_, min_r_size_, T, S)
    BY <1>2
  <2>2. IsMaximalBiclique(FileR, min_l_size_, min_r_size_, Image(l_map_, T), Image(r_map_, S))
    BY <1>1, <2>1, LeftMaximal
  <2> QED BY <1>2, <2>1, <2>2
<1>7. ASSUME NEW d \in N PROVE \E b \in M : d = Renamed(b)
  <2>1. PICK A, B : d = <<A, B>> /\ IsMaximalBiclique(FileR, min_l_size_, min_r_size_, A, B)
    BY <1>2
  <2>2. PICK T, S : /\ IsMaximalBiclique(graph_, min_l_size_, min_r_size_, T, S)
                    /\ A = Image(l_map_, T) /\ B = Image(r_map_, S)
    BY <1>1, <2>1, MaximalLeft
  <2>3. <<T, S>> \in M
    BY <1>2, <2>2
  <2> QED BY <2>1, <2>2, <2>3
<1> HIDE DEF Renamed
<1>8. \A d : d \in wanted <=> \E b \in M : d = Turned(Renamed(b))
  BY <1>5, <1>6, <1>7
<1>9. \A d : d \in InInput(M) <=> \E b \in M : d = Turned(Renamed(b))
  BY <1>3, <1>4
<1> QED BY <1>8, <1>9 DEF M

\* The graph has the form the finders need, and the maps tell its vertices apart.
LEMMA GraphOfFile ==
  ASSUME Settings, Faithful
  PROVE  MapsOK /\ IsGraph(graph_)
<1>1. /\ Left(graph_, Ls, FileR, l_map_, r_map_) /\ FiniteGraph(FileR)
      /\ \E m, n \in Nat : Ls = 0 .. m - 1 /\ DOMAIN graph_ = 0 .. n - 1
      /\ \A r \in DOMAIN graph_ : graph_[r] \subseteq Ls
  BY SidesNow DEF Faithful, Fits, Settings, Ls
<1>2. FiniteGraph(graph_)
  BY <1>1, LeftFinite
<1>3. Ls \subseteq Nat
  BY <1>1
<1>4. IsGraph(graph_)
  BY <1>1, <1>2, <1>3 DEF IsGraph, FiniteGraph
<1>5. UNION {graph_[r] : r \in DOMAIN graph_} \subseteq Ls
  BY <1>1
<1> QED BY <1>1, <1>4, <1>5 DEF MapsOK, Left

\* Set up in increasing order, AdaMBE has what it needs.
LEMMA AdaMBEStarts ==
  ASSUME ProgramInv, order = 2, Start("AdaMBE")
  PROVE  AdaInit'
<1>1. /\ Settings' /\ Faithful' /\ Asked' /\ StartState' /\ Ordered(graph_)'
      /\ status' = "runs" /\ finder' = "AdaMBE"
  BY StartGoes DEF OwnOrder, ProgramInv
<1>2. NN' \in NNs
  BY DEF Start
<1>3. (Settings /\ Faithful /\ Asked
        => wanted = InInput(MaximalBicliques(graph_, min_l_size_, min_r_size_)))'
  BY AskedOfGraph, PTL
<1>4. (Settings /\ Faithful => MapsOK /\ IsGraph(graph_))'
  BY GraphOfFile, PTL
<1>5. InputOK'
  BY <1>1, <1>2, <1>4, WidthAssumption DEF InputOK, Settings
<1> QED BY <1>1, <1>3, <1>4, <1>5 DEF AdaInit

\* Setting up does not touch the search.
LEMMA SetUpKeeps ==
  ASSUME ProgramInv, SetUp
  PROVE  /\ status \in SettingUp /\ status' \in SettingUp
         /\ UNCHANGED <<searchVars, order>>
BY DEF SetUp, Load, BeginPrune, Prune, EndPrune, ChooseSides, ChooseDegrees, Reorder,
       Pruned, SettingUp

\* While AdaMBE runs, its account of the bicliques is right.
AdaProgramInv ==
  /\ ProgramInv /\ order = 2
  /\ status \in Running => IInv

LEMMA AdaProgramInitInv == ProgramInit /\ order = 2 => AdaProgramInv
BY ProgramInitInv DEF AdaProgramInv, ProgramInit, StartUp, Running

LEMMA AdaProgramNextInv ==
  AdaProgramInv /\ [AdaProgramNext]_allVars => AdaProgramInv'
<1>1. (AdaInit => IInv)'
  BY InitIInv, PTL
<1> SUFFICES ASSUME AdaProgramInv, [AdaProgramNext]_allVars PROVE AdaProgramInv'
  OBVIOUS
<1>2. ProgramInv'
  <2>1. [ProgramNext]_allVars
    BY DEF AdaProgramNext, ProgramNext, AllFinders
  <2> QED BY <2>1, ProgramNextInv DEF AdaProgramInv
<1>3. CASE SetUp
  BY <1>2, <1>3, SetUpKeeps DEF AdaProgramInv, Running, SettingUp
<1>4. CASE Start("AdaMBE")
  <2>1. AdaInit' /\ order' = order
    BY <1>4, AdaMBEStarts DEF AdaProgramInv, Start
  <2> QED BY <1>1, <1>2, <2>1 DEF AdaProgramInv
<1>5. CASE Run
  <2>1. IInv'
    BY <1>5, FindersKeep, NextIInv DEF AdaProgramInv, Run
  <2> QED BY <1>2, <1>5, <2>1 DEF AdaProgramInv, Run, mainVars
<1>6. CASE UNCHANGED allVars
  <2>1. UNCHANGED vars /\ UNCHANGED <<order, status>>
    BY <1>6 DEF allVars, mainVars, vars
  <2>2. status \in Running => IInv'
    BY <2>1, NextIInv DEF AdaProgramInv
  <2> QED BY <1>2, <2>1, <2>2 DEF AdaProgramInv
<1> QED BY <1>3, <1>4, <1>5, <1>6 DEF AdaProgramNext

\* From the file to the last step of the search AdaMBE's account is right.
THEOREM AdaMBEOnFiles == AdaProgram => []AdaProgramInv
BY AdaProgramInitInv, AdaProgramNextInv, PTL DEF AdaProgram

\* CountExact, from the file: the number the program prints is that of the maximal
\* bicliques above "-x" and "-y" in the file.
THEOREM FileCounted == AdaProgram => []CountExact
<1>1. AdaProgramInv => CountExact
  BY DEF AdaProgramInv, IInv, Core, CountExact, Running
<1> QED BY <1>1, AdaMBEOnFiles, PTL

\* Enumerates, from the file: the program counts each maximal biclique of the file
\* above "-x" and "-y" once, by the file's ids, and nothing else.
THEOREM FileEnumerated == AdaProgram => Enumerates
<1>1. ProgramInit => Enum!EnumInit
  BY DEF ProgramInit, StartUp, StartState, Enum!EnumInit
<1>2. AdaProgramInv /\ [AdaProgramNext]_allVars => [Enum!EnumNext]_(Enum!enumVars)
  <2> SUFFICES ASSUME AdaProgramInv, [AdaProgramNext]_allVars
               PROVE  [Enum!EnumNext]_(Enum!enumVars)
    OBVIOUS
  <2>1. CASE SetUp
    BY <2>1, SetUpKeeps DEF AdaProgramInv, searchVars, SettingUp, Enum!enumVars
  <2>2. CASE Start("AdaMBE")
    BY <2>2 DEF Start, Enum!enumVars
  <2>3. CASE Run
    <3>1. IInv
      BY <2>3, FindersKeep DEF AdaProgramInv, Run
    <3> QED BY <2>3, <3>1, EnumStep DEF Run
  <2>4. CASE UNCHANGED allVars
    BY <2>4 DEF allVars, vars, fixed, Enum!enumVars
  <2> QED BY <2>1, <2>2, <2>3, <2>4 DEF AdaProgramNext
<1> QED BY <1>1, <1>2, AdaMBEOnFiles, PTL DEF AdaProgram, Enumerates
=============================================================================
