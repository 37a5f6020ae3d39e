------------------------------- MODULE MBEnum -------------------------------
(***************************************************************************)
(* What a maximal biclique finder promises: from a graph and two           *)
(* thresholds it reports each maximal biclique above the thresholds once,  *)
(* and nothing else, and finishes when all of them are reported.           *)
(***************************************************************************)
EXTENDS Integers, FiniteSets

VARIABLES
  todo,      \* the bicliques to report, fixed by the input
  reported,  \* the bicliques reported
  count,     \* the number of reports, printed as the result
  finished   \* finish() was called

enumVars == <<todo, reported, count, finished>>

EnumInit ==
  /\ reported = {}
  /\ count = 0
  /\ finished = FALSE

Report ==
  /\ ~finished
  /\ \E b \in todo \ reported : reported' = reported \cup {b}
  /\ count' = count + 1
  /\ UNCHANGED <<todo, finished>>

Finish ==
  /\ ~finished
  /\ reported = todo
  /\ finished' = TRUE
  /\ UNCHANGED <<todo, reported, count>>

EnumNext == Report \/ Finish

EnumSpec == EnumInit /\ [][EnumNext]_enumVars /\ WF_enumVars(EnumNext)
=============================================================================
