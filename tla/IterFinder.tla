----------------------------- MODULE IterFinder -----------------------------
(***************************************************************************)
(* How a warp of GMBE does a task itself: IterFinderWithMultipleVertex and *)
(* the iterative search IterProcess with finder_push and finder_pop.       *)
(*                                                                         *)
(* There is no stack of nodes.  Each vertex of U has the level of the      *)
(* deepest node on the path it belongs to (L_level); each candidate has in *)
(* one int its level, above the half of the bits, and its number of        *)
(* neighbors in the current L, below (C_level_neighbors).                  *)
(*                                                                         *)
(* Candidates are numbered from 1 here.  The lanes of the warp run in step *)
(* and share the candidates in turn.                                       *)
(***************************************************************************)
EXTENDS GmbeTasks

CONSTANTS
  Half,      \* 2^16, what the lower half of an int holds
  warpSize   \* the number of lanes, 32

VARIABLES
  tt,                 \* the task
  at,                 \* "start", "search" or "returned"
  L_level,            \* the level of each vertex of the task's L
  C_vertices,         \* the candidates
  C_level_neighbors,
  exe_stack,          \* per level, the candidate to go on from
  local_mb_counter,
  found,              \* the bicliques counted; history
  wanted              \* those of the task's subtree; history, set by Init

searchVars == <<L_level, C_vertices, C_level_neighbors, exe_stack>>
fixed == <<graph, tt, wanted>>
vars == <<fixed, at, searchVars, local_mb_counter, found>>

----------------------------------------------------------------------------
(* The packed ints, 32 bits with sign.                                     *)

Wrap(x) ==
  LET sign == Half * (Half \div 2)
  IN  ((x + sign) % (2 * sign)) - sign
Pack(lev, n) == Wrap(lev * Half + n)
Level(x) == x \div Half
Neighbors(x) == x % Half

Unused == (Half \div 2) - 1   \* 0x7fff, the level of a candidate not in any R
Restored == (Half \div 4) - 1 \* 0x3fff, marks what finder_pop has counted up

\* level is the length of exe_stack.
level == Len(exe_stack)

Lane(i) == (i - 1) % warpSize

\* The number of neighbors of candidate i in S.
In(i, S) == Cardinality(graph[C_vertices[i]] \cap S)

Cids == 1 .. Len(C_vertices)

AtLevel(n) == {u \in DOMAIN L_level : L_level[u] = n}

----------------------------------------------------------------------------
(* finder_push of candidate cid.                                           *)

\* Its L: what it has of the L of the level below.
PushedL(cid) == AtLevel(level - 1) \cap graph[C_vertices[cid]]

\* The sizes of the L below and of its own, in the halves of one int.
Sizes(cid) == Pack(Cardinality(AtLevel(level - 1)), Cardinality(PushedL(cid)))

\* (mutant) The neighbors of the smaller side are counted, from zero or not.
PushedCountsKept(cid) ==
  LET recompute == Level(Sizes(cid)) > 2 * Neighbors(Sizes(cid))
      victims == IF recompute THEN PushedL(cid)
                 ELSE AtLevel(level - 1) \ PushedL(cid)
      c == C_level_neighbors
  IN  [i \in Cids |->
         IF recompute THEN Wrap(c[i] + In(i, victims))
         ELSE Wrap(c[i] - In(i, victims))]

\* The candidates' neighbors are counted anew in its L if that is less than
\* half, and counted down otherwise.
PushedCounts(cid) ==
  LET recompute == Level(Sizes(cid)) > 2 * Neighbors(Sizes(cid))
      victims == IF recompute THEN PushedL(cid)
                 ELSE AtLevel(level - 1) \ PushedL(cid)
      c == C_level_neighbors
  IN  [i \in Cids |->
         IF recompute THEN Wrap(c[i] - Neighbors(c[i]) + In(i, victims))
         ELSE Wrap(c[i] - In(i, victims))]

\* A candidate before cid that covers its L and belongs to no R on the path.
CoversBefore(i, cid, c) ==
  /\ i < cid /\ Level(c[i]) >= level
  /\ Neighbors(c[i]) = Neighbors(Sizes(cid))

IsMaximalPush(cid, c) == ~\E i \in Cids : CoversBefore(i, cid, c)

\* What covers its L joins its R.  A lane stops where it finds a witness.
PushedC(cid) ==
  LET c == PushedCounts(cid)
      Stopped(i) == \E j \in 1 .. i : Lane(j) = Lane(i) /\ CoversBefore(j, cid, c)
  IN  [i \in Cids |->
         IF /\ Neighbors(c[i]) = Neighbors(Sizes(cid))
            /\ Level(c[i]) > level /\ ~Stopped(i)
         THEN Pack(level, Neighbors(c[i])) ELSE c[i]]

----------------------------------------------------------------------------
(* finder_pop of candidate cid at level lev.                               *)

\* x counted up n times, each time marked if it has the level lev or above.
CountedUp(x, n, lev) ==
  LET up[k \in 0 .. n] ==
        IF k = 0 THEN x
        ELSE LET y == Wrap(up[k - 1] + 1)
             IN  IF Level(y) >= lev THEN Pack(Restored, Neighbors(y)) ELSE y
  IN  up[n]

\* (mutant) cid itself is pruned with what it covers.
PoppedCSelf(c, cid, lev, rest) ==
  LET up == [i \in Cids |-> CountedUp(c[i], In(i, rest), lev)]
  IN  [i \in Cids |->
         IF Level(up[i]) < lev THEN up[i]
         ELSE Pack(IF Level(up[i]) = Restored THEN Unused ELSE lev - 1,
                   Neighbors(up[i]))]

\* The neighbors of the L below that were not in cid's are counted again.  A
\* candidate that has none of them, being inside cid's, is pruned at the level
\* below (PRUNE_EN); the others and cid itself are unused again.
PoppedC(c, cid, lev, rest) ==
  LET up == [i \in Cids |-> CountedUp(c[i], In(i, rest), lev)]
  IN  [i \in Cids |->
         IF Level(up[i]) < lev THEN up[i]
         ELSE Pack(IF Level(up[i]) = Restored \/ i = cid THEN Unused ELSE lev - 1,
                   Neighbors(up[i]))]

PoppedL(levels, lev) == [u \in DOMAIN levels |->
                          IF levels[u] >= lev THEN lev - 1 ELSE levels[u]]

\* finder_pop after the vertices of U have the levels given.
Pop(levels, c, cid, lev) ==
  /\ C_level_neighbors' =
       PoppedC(c, cid, lev, {u \in DOMAIN levels : levels[u] = lev - 1})
  /\ L_level' = PoppedL(levels, lev)

----------------------------------------------------------------------------
(* IterFinderWithMultipleVertex, of a task too small or in no time to be   *)
(* divided; see GmbeKernel for the others.                                 *)

Start ==
  /\ at = "start" /\ IsMaximal(tt)
  /\ local_mb_counter' = local_mb_counter + 1
  /\ found' = found \cup {Own(tt)}
  /\ at' = "search"
  /\ LET L == LVertices(tt)
     IN  IF Cardinality(L) > 1
         THEN LET C == SetToSortSeq(CVertices(L), <)
              IN  /\ L_level' = [u \in L |-> 0]
                  /\ C_vertices' = C
                  /\ C_level_neighbors' =
                       [i \in 1 .. Len(C) |->
                          Pack(Unused, Cardinality(graph[C[i]] \cap L))]
                  /\ exe_stack' = <<next_id(tt) + 1>>
         ELSE UNCHANGED searchVars
  /\ UNCHANGED fixed

StartNotMaximal ==
  /\ at = "start" /\ ~IsMaximal(tt)
  /\ at' = "returned"
  /\ UNCHANGED <<fixed, searchVars, local_mb_counter, found>>

\* IterProcess looks for a candidate that is in no R of the path, was not pruned
\* and has neighbors left.
Usable == {i \in Cids : /\ i >= Last(exe_stack)
                        /\ Level(C_level_neighbors[i]) > level - 1
                        /\ Neighbors(C_level_neighbors[i]) # 0}

InSearch == at = "search" /\ level > 0 /\ UNCHANGED <<fixed, at, C_vertices>>

\* The biclique with the L pushed is counted.
CountPushed(L) ==
  /\ local_mb_counter' = local_mb_counter + 1
  /\ found' = found \cup {<<L, RVertices(L)>>}

\* The next candidate is pushed.  It stays if its node is maximal and may have
\* children, and is popped at once otherwise.
Push ==
  /\ InSearch /\ Usable # {}
  /\ LET cid == Min(Usable)
         L == PushedL(cid)
         c == PushedC(cid)
         is_maximal == IsMaximalPush(cid, PushedCounts(cid))
         levels == [u \in DOMAIN L_level |-> IF u \in L THEN level ELSE L_level[u]]
     IN  /\ IF is_maximal THEN CountPushed(L)
            ELSE UNCHANGED <<local_mb_counter, found>>
         /\ IF is_maximal /\ Neighbors(c[cid]) > 1
            THEN /\ L_level' = levels
                 /\ C_level_neighbors' = c
                 /\ exe_stack' = [exe_stack EXCEPT ![level] = cid] \o <<cid + 1>>
            ELSE /\ Pop(levels, c, cid, level)
                 /\ exe_stack' = [exe_stack EXCEPT ![level] = cid + 1]

\* No candidate is left at this level: the node it extends is popped.
Backtrack ==
  /\ InSearch /\ Usable = {}
  /\ LET lev == level - 1
     IN  IF lev > 0
         THEN /\ Pop(L_level, C_level_neighbors, exe_stack[lev], lev)
              /\ exe_stack' = [Front(exe_stack) EXCEPT ![lev] = @ + 1]
         ELSE /\ exe_stack' = <<>>
              /\ UNCHANGED <<L_level, C_level_neighbors>>
  /\ UNCHANGED <<local_mb_counter, found>>

Return ==
  /\ at = "search" /\ level = 0
  /\ at' = "returned"
  /\ UNCHANGED <<fixed, searchVars, local_mb_counter, found>>

Returned == at = "returned" /\ UNCHANGED vars

Next == Start \/ StartNotMaximal \/ Push \/ Backtrack \/ Return \/ Returned

StartState ==
  /\ at = "start"
  /\ L_level = <<>> /\ C_vertices = <<>> /\ C_level_neighbors = <<>>
  /\ exe_stack = <<>>
  /\ local_mb_counter = 0 /\ found = {}
  /\ wanted = Subtree(tt)

----------------------------------------------------------------------------
\* While it looks for a candidate, each count is the number of neighbors in the
\* L of the path: counting down, counting anew and counting up again agree.
CountsCurrent ==
  at = "search" /\ level > 0 =>
    \A i \in Cids :
      Neighbors(C_level_neighbors[i])
        = In(i, {u \in DOMAIN L_level : L_level[u] >= level - 1})

Enum == INSTANCE MBEnum WITH
          todo <- wanted, reported <- found, count <- local_mb_counter,
          finished <- at = "returned"

\* A warp that does a task itself counts each biclique of the task's subtree
\* once and nothing else, and returns when all are counted.
DoesTask == Enum!EnumSpec

\* Once the warp has returned, the whole subtree is counted, for lists of any
\* length the buffers hold (the code complains above MAX_DEGREE_BOUND only).
SubtreeDone == at = "returned" => found = wanted
=============================================================================
