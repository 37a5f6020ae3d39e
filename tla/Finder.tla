------------------------------- MODULE Finder -------------------------------
(***************************************************************************)
(* What the serial finders have in common: Execute's loop over the         *)
(* vertices of R, the call stack, the counter, and what they must achieve. *)
(* Each finder adds how a root and a candidate are expanded.               *)
(*                                                                         *)
(* The stack is the C++ call stack of the recursive search, outermost      *)
(* activation first.                                                       *)
(***************************************************************************)
EXTENDS FinderInputs

VARIABLES
  finder,          \* the finder main.cpp has made
  l_map_, r_map_,  \* the ids in the input of the vertices of L and of R
  transposed,      \* L and R are the input's R and L; history, not in the code
  wanted,          \* what the input asks for; history, not in the code
  cur_v_,          \* the vertex of R whose subtree is being enumerated
  stack,           \* the activations of the recursive search
  heap,            \* what the finder keeps outside them
  found,           \* the bicliques counted so far; history
  maximal_nodes_,  \* the counter printed as the result
  status           \* "runs", "finished", or "expired" by EXIT_TIME; see Main

mapVars == <<l_map_, r_map_, transposed>>
fixed == <<inputVars, finder, mapVars, wanted>>
vars == <<fixed, cur_v_, stack, heap, found, maximal_nodes_, status>>

Top == stack[Len(stack)]

\* A set of bicliques of the graph as bicliques of the input (ConvertIdVector).
InInput(B) ==
  LET Ids(map, S) == {map[x] : x \in S}
      Sides(b) == <<Ids(l_map_, b[1]), Ids(r_map_, b[2])>>
  IN  {IF transposed THEN <<Sides(b)[2], Sides(b)[1]>> ELSE Sides(b) : b \in B}

\* The node (L, R) is counted if it meets the thresholds.
Count(L, R) ==
  /\ found' = found \cup InInput(Result(L, R))
  /\ maximal_nodes_' = maximal_nodes_ + Cardinality(Result(L, R))

Uncounted == UNCHANGED <<found, maximal_nodes_>>

\* The recursive search is entered.  If EXIT_TIME has passed it prints what has
\* been counted so far and exits; otherwise the stack is s.
Enter(s) ==
  \/ stack' = s /\ UNCHANGED status
  \/ status' = "expired" /\ UNCHANGED stack

\* The top activation goes on as f; a call puts g above it.
Continue(f) ==
  stack' = [stack EXCEPT ![Len(stack)] = f] /\ UNCHANGED status
Call(f, g) == Enter(Append([stack EXCEPT ![Len(stack)] = f], g))

\* The finder is constructed and its setup() has run.
StartState ==
  /\ cur_v_ = 0
  /\ stack = <<>>
  /\ heap = <<>>
  /\ found = {}
  /\ maximal_nodes_ = 0

----------------------------------------------------------------------------
(* Execute.                                                                *)

\* MineLMBCFinder has one root, the empty set; the others have R's vertices.
Roots == IF finder = "LMBC" THEN {0} ELSE DOMAIN graph_

AtRoot(name) ==
  /\ status = "runs" /\ finder = name
  /\ stack = <<>> /\ cur_v_ \in Roots

\* The root is not expanded.
NextRoot ==
  /\ cur_v_' = cur_v_ + 1
  /\ Uncounted
  /\ UNCHANGED <<fixed, stack, heap, status>>

\* A vertex with too few neighbors, or with those of its predecessor.
Skipped(v) ==
  \/ Cardinality(graph_[v]) < min_l_size_
  \/ v > 0 /\ graph_[v - 1] = graph_[v]

Finish ==
  /\ status = "runs" /\ stack = <<>> /\ cur_v_ = Cardinality(Roots)
  /\ status' = "finished"
  /\ Uncounted
  /\ UNCHANGED <<fixed, cur_v_, stack, heap>>

----------------------------------------------------------------------------
(* Returning from the recursive search, and the end.                       *)

Active(name) == status = "runs" /\ finder = name /\ stack # <<>>

\* An activation returns; after the outermost, Execute takes the next vertex.
Pop ==
  /\ stack' = Front(stack)
  /\ cur_v_' = IF Len(stack) = 1 THEN cur_v_ + 1 ELSE cur_v_
  /\ UNCHANGED <<fixed, status>>

Stopped == status \in {"finished", "expired"} /\ UNCHANGED vars

----------------------------------------------------------------------------
\* A biclique is found in the subtree of its first vertex of R: when Execute
\* has left a vertex behind, every biclique that has it has been found.
RootsComplete ==
  finder # "LMBC" =>
    \A b \in wanted :
      (\E v \in DOMAIN graph_ :
         v < cur_v_ /\ r_map_[v] \in (IF transposed THEN b[1] ELSE b[2]))
      => b \in found

Enum == INSTANCE MBEnum WITH
          todo <- wanted, reported <- found, count <- maximal_nodes_,
          finished <- status = "finished"

\* A finder counts each wanted maximal biclique once and nothing else, so
\* that a result printed at EXIT_TIME is a lower bound, and Execute returns
\* only when all are counted.
Enumerates == Enum!EnumInit /\ [][Enum!EnumNext]_(Enum!enumVars)

\* The number Execute leaves behind is the number of wanted maximal bicliques.
CountExact ==
  status = "finished" => maximal_nodes_ = Cardinality(wanted)

\* The enumeration comes to an end: no activation stays on the stack forever.
Terminates == <>(status \in {"finished", "expired"})
=============================================================================
