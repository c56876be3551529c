----------------------------- MODULE MCServing -----------------------------
(***************************************************************************)
(* Model checking of Serving: two requests, two nodes, a triple between    *)
(* them and one from the first to itself, so that the graph has no node,   *)
(* one or two.                                                             *)
(***************************************************************************)
EXTENDS Serving, TLC

CONSTANTS x, y

MCNode == {x, y}
MCLink == {<<x, y>>, <<x, x>>}
Alike == Permutations(Caller)

(***************************************************************************)
(* No request reads what was reported, and two that only read do not meet: *)
(* what is reported is followed to the end on an empty graph, by one       *)
(* recomputation or from outside, and the requests until something has     *)
(* failed, with at most one that only reads.                               *)
(***************************************************************************)
Busy == {c \in Caller : job[c].at # "idle"}
Reading == {c \in Busy : job[c].op \notin Recompute}
Outside == \E i \in DOMAIN log : log[i].about # "embeddings"

Apart ==
    /\ log # <<>> => nodes = {} /\ vectors.of = {} /\ Reading = {} /\ Cardinality(Busy) < 2
    /\ Outside => Busy = {}
    /\ Cardinality(Reading) < 2
=============================================================================
