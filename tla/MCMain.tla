------------------------------- MODULE MCMain -------------------------------
(* The whole program with a serial finder on every small file.               *)
EXTENDS Main

CONSTANTS
  Lines, Items,     \* the numbers of lines and of R ids in the file
  Gaps,             \* ids may be missing in the file
  Bounds,           \* the values of "-x" and "-y"
  OrdersRun,        \* the values of "-o"
  FindersRun,       \* the finders to run
  AsDocumented      \* with all options, those included that do not work

Files ==
  UNION {[0 .. m - 1 -> (SUBSET (0 .. n - 1)) \ {{}}] : m \in Lines, n \in Items}

Init ==
  /\ input \in Files /\ (Gaps \/ GapFree)
  /\ min_l_size_ \in Bounds /\ min_r_size_ \in Bounds
  /\ order \in OrdersRun
  /\ StartUp

\* What works: AdaMBE needs the increasing order, DSB has no thresholds, and
\* FMBE none that differ in being 1.
Works(name) ==
  CASE name = "AdaMBE" -> order = 2
    [] name = "DSB" -> min_l_size_ = 1 /\ min_r_size_ = 1
    [] name = "FMBE" -> min_l_size_ = 1 <=> min_r_size_ = 1
    [] OTHER -> TRUE

StartFinder ==
  \E name \in FindersRun : (AsDocumented \/ Works(name)) /\ Start(name)

MainNext == SetUp \/ StartFinder \/ Run

SafetySpec == Init /\ [][MainNext]_allVars

\* The program keeps running.
Spec == SafetySpec /\ WF_allVars(MainNext)
=============================================================================
