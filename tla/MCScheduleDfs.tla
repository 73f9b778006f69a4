---------------------------- MODULE MCScheduleDfs ----------------------------
(* Every graph on the nodes of the instance whose nodes have at most MaxDeps  *)
(* dependencies.                                                              *)
EXTENDS ScheduleDfs

CONSTANT MaxDeps

MCGraphs == [Nodes -> {S \in SUBSET Nodes : Cardinality(S) <= MaxDeps}]

=============================================================================
