------------------------------- MODULE MC_Maps -------------------------------
(* Constants for model checking Maps.                                      *)
EXTENDS Maps, TLC

const_Sym == Permutations(Devs) \cup Permutations(Wwids)
=============================================================================
