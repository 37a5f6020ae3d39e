------------------------------ MODULE Finders ------------------------------
(***************************************************************************)
(* The serial finders of main.cpp's switch on finder_sel: AdaMBE and those *)
(* it is compared with.  ParAdaMBE, the parallel one, has a state of its   *)
(* own.                                                                    *)
(***************************************************************************)
EXTENDS AdaMBE

DSB  == INSTANCE AdaDSB
NC   == INSTANCE AdaNC
MBEA == INSTANCE MBEA
LMBC == INSTANCE MineLMBC
PMBE == INSTANCE PMBE

AllFinders == {"LMBC", "MBEA", "iMBEA", "FMBE", "PMBE", "DSB", "NC", "AdaMBE"}

Execute == \/ Finish
           \/ Step \/ DSB!Step \/ NC!Step
           \/ MBEA!Step \/ LMBC!Step \/ PMBE!Step

Next == Execute \/ Stopped
=============================================================================
