-------------------------- MODULE MCDependencyGraph ---------------------------
(* Four names, lists of at most two dependencies, a pipeline may depend on   *)
(* itself and on a name that gets no node.                                   *)
EXTENDS DependencyGraph, TLC

MCDepLists == {D \in SUBSET Names : Cardinality(D) <= 2}
MCSymmetry == Permutations(Names)
===============================================================================
