----------------------------- MODULE GmbeTasks -----------------------------
(***************************************************************************)
(* The tasks of GMBE, the GPU finder in baselines/MBE-GPU: a task is the   *)
(* path from a root to a node, up to four vertices of V, and stands for    *)
(* the subtree below the node.                                             *)
(*                                                                         *)
(* CSRBiGraph's V is the side tasks are made of, with lists row_offset and *)
(* column_indices; U has the lists rev_row_offset and rev_column_indices.  *)
(***************************************************************************)
EXTENDS Bicliques, Sequences, SequencesExt, FiniteSetsExt

VARIABLE graph   \* the lists of V's vertices

MaxPath == 4   \* the length of LongTask::vertices

\* get_common_neighbors, of vertices of V and of vertices of U.
LVertices(tt) == CommonL(graph, ToSet(tt))
RVertices(L) == CommonR(graph, L)

\* get_all_neighbors, with R among them.
AllNeighbors(L) == {c \in DOMAIN graph : graph[c] \cap L # {}}

\* What can extend the node's R.
CVertices(L) == AllNeighbors(L) \ RVertices(L)

\* Where v is in the ascending list of S.
binary_search(v, S) == IF v \in S THEN Cardinality({x \in S : x < v}) ELSE -1

\* (mutant) R is not taken off.
next_id_all(tt) == binary_search(Last(tt), AllNeighbors(LVertices(tt)))

\* Where the candidates after the task's last vertex, which is in R, begin once R
\* is taken off.
next_id(tt) ==
  LET L == LVertices(tt)
  IN  binary_search(Last(tt), AllNeighbors(L)) - binary_search(Last(tt), RVertices(L))

\* The candidates from next_id on.
Later(tt) ==
  LET C == CVertices(LVertices(tt))
      first == next_id(tt)
  IN  {c \in C : binary_search(c, C) >= first}

\* The task's R has no vertex before the last one that its parent's R has not;
\* a root is its first vertex.
IsMaximal(tt) ==
  IF Len(tt) > 1
  THEN \A r \in RVertices(LVertices(tt)) :
         r < Last(tt) => r \in RVertices(LVertices(Front(tt)))
  ELSE \A r \in RVertices(LVertices(tt)) : r >= tt[1]

\* (mutant) The candidates start at the last vertex of the parent.
LargeToTinyAll(tt) ==
  {Append(tt, c) : c \in CVertices(LVertices(tt))}

\* A task for each later candidate.
LargeToTiny(tt) == {Append(tt, c) : c \in Later(tt)}

\* The work of the node: the task's own biclique.
Own(tt) == <<LVertices(tt), RVertices(LVertices(tt))>>

----------------------------------------------------------------------------
(* What a task stands for.                                                 *)

\* A biclique is in the task's subtree: its first vertices, each the least outside
\* the R of the path before it, are the task's.
InSubtree(b, tt) ==
  \A k \in 1 .. Len(tt) :
    LET before == IF k = 1 THEN {} ELSE RVertices(LVertices(SubSeq(tt, 1, k - 1)))
    IN  b[2] \ before # {} /\ Min(b[2] \ before) = tt[k]

Subtree(tt) == {b \in MaximalBicliques(graph, 1, 1) : InSubtree(b, tt)}

Roots == {<<v>> : v \in DOMAIN graph}

\* The tasks of a length that can come up: a root, or a child of a node that is
\* maximal and has more than one vertex of U.
TasksOfLength[k \in 1 .. MaxPath] ==
  IF k = 1 THEN Roots
  ELSE UNION {LargeToTiny(tt) : tt \in {p \in TasksOfLength[k - 1] :
                IsMaximal(p) /\ Cardinality(LVertices(p)) > 1}}

\* The roots share out all maximal bicliques, a task that is not maximal stands for
\* none, and of each other task that can come up the own biclique and the tasks it is
\* divided into share out the subtree.
TasksShareOut ==
  LET Shares(b, tasks) == Cardinality({p \in tasks : InSubtree(b, p)})
  IN  \A b \in MaximalBicliques(graph, 1, 1) :
        /\ Shares(b, Roots) = 1
        /\ \A k \in 1 .. MaxPath : \A tt \in TasksOfLength[k] :
             IF ~IsMaximal(tt) THEN ~InSubtree(b, tt)
             ELSE Shares(b, LargeToTiny(tt)) + (IF b = Own(tt) THEN 1 ELSE 0)
                    = (IF InSubtree(b, tt) THEN 1 ELSE 0)
============================================================================
