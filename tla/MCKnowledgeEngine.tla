-------------------------- MODULE MCKnowledgeEngine --------------------------
(***************************************************************************)
(* Model checking of KnowledgeEngine: a path of three nodes, one or two    *)
(* facts along it that share the middle one, and one linking triple.       *)
(***************************************************************************)
EXTENDS KnowledgeEngine, TLC

CONSTANTS n1, n2, n3, t1, t2, l1

MCNode == {n1, n2, n3}
MCEnds == [t \in Triple |-> CASE t = t1 -> <<n1, n2>> [] t = t2 -> <<n2, n3>> [] t = l1 -> <<n1, n3>>]
Symmetry == Permutations(Caller) \cup Permutations(Source)
=============================================================================
