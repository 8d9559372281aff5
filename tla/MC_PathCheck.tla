---------------------------- MODULE MC_PathCheck ----------------------------
(* Constants for model checking PathCheck.                                 *)
EXTENDS PathCheck

const_Prio == [p \in 1..NPaths |-> NPaths - p]
const_Immediate == IMMEDIATE
const_Manual == MANUAL
=============================================================================
