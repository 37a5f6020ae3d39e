---------------------------- MODULE MCGmbeKernel ----------------------------
(* The kernel on graphs whose roots are large and whose tiny tasks can be.   *)
EXTENDS GmbeKernel

\* A root and a tiny task are large, the other roots are not maximal; or two
\* roots are large, so that one may find the list full.
Graphs ==
  {0 :> {0, 1, 2} @@ 1 :> {1, 2} @@ 2 :> {2},
   0 :> {0, 1} @@ 1 :> {1, 2} @@ 2 :> {2, 3}}

Init == graph \in Graphs /\ StartState

SafetySpec == Init /\ [][Next]_vars

\* The blocks are all resident (MAX_BLOCKS is the number of multiprocessors) and
\* the device runs each of their warps.
Spec ==
  /\ SafetySpec
  /\ \A w \in ConsumerWarps : WF_vars(Consumer(w))
  /\ \A w \in Dividers : WF_vars(Divider(w))
=============================================================================
