---------------------------- MODULE MCIterFinder ----------------------------
(* Every task of every small graph.  Permuting U changes nothing, so U is in *)
(* the order of its lists.                                                   *)
EXTENDS IterFinder

CONSTANTS
  USize, VSize,  \* the numbers of vertices of U and V
  Most           \* the most vertices of V a vertex of U is not adjacent to

V == 0 .. VSize - 1

\* The sequences of k lists in which none is less than the one before it.
InOrder[k \in 0 .. USize] ==
  IF k = 0 THEN {<<>>}
  ELSE {Append(p[1], p[2]) : p \in
         {q \in InOrder[k - 1] \X {S \in SUBSET V : Cardinality(V \ S) <= Most} :
            k > 1 => ~RIncLess(q[2], Last(q[1]))}}

Graphs ==
  LET FromLists(s) == [v \in V |-> {u \in 1 .. USize : v \in s[u]}]
  IN  {G \in {FromLists(s) : s \in InOrder[USize]} :
         \A v \in V : G[v] # {}}

Init ==
  /\ graph \in Graphs
  /\ tt \in UNION {TasksOfLength[k] : k \in 1 .. MaxPath}
  /\ StartState

Spec == Init /\ [][Next]_vars /\ WF_vars(Next)
=============================================================================
