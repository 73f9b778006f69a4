-------------------------- MODULE MCForeignFunctions --------------------------
(* Small instances of ForeignFunctions: a program that calls the one foreign  *)
(* function and one that calls none.                                          *)
EXTENDS ForeignFunctions, TLC

CONSTANTS caller, plain, w

MCCalls(d) == IF d = caller THEN {w} ELSE {}

Symmetry == Permutations(Threads) \cup Permutations(Functions)
=============================================================================
