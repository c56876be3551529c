------------------------------ MODULE MCLibrary ------------------------------
(***************************************************************************)
(* Model checking of Library, and beside it of the components that are     *)
(* recursive algorithms first: the index of vectors and the algorithms on  *)
(* the graph.  These share no state with Library's either: a behaviour     *)
(* that follows one of them (algorithm) leaves Library as it begins.  With *)
(* the values of the constants that are functions, sequences and tuples.   *)
(***************************************************************************)
EXTENDS Library, TLC

CONSTANTS
    Nodes, MaxChanges, Vector, TopLevel, M, M0, EfConstruction, EfSearch,   \* index
    Vertex, PathDepth, MaxPaths, Iterations, MaxEdges,                      \* graph
    t, u, v, x, y, z, ann, why

VARIABLES
    algorithm,      \* what a behaviour follows instead of Library, or None
    layers, entry, changes,
    edges

Index == INSTANCE Hnsw WITH nodes <- layers

Graph == INSTANCE GraphAlgorithms WITH
    Node <- Vertex, MaxDepth <- PathDepth, Damping <- <<1, 2>>

ASSUME IndexAssumption == Index!HnswAssumption

indexVars == <<layers, entry, changes>>

MCInit ==
    /\ Init /\ Index!Init /\ Graph!Init
    /\ algorithm \in {None, "index", "graph"}
    /\ algorithm # None => part = "reads"

MCNext ==
    /\ UNCHANGED algorithm
    /\ \/ algorithm = None /\ Next /\ UNCHANGED <<indexVars, edges>>
       \/ algorithm = "index" /\ Index!Next /\ UNCHANGED <<vars, edges>>
       \/ algorithm = "graph" /\ Graph!Next /\ UNCHANGED <<vars, indexVars>>

MCSpec == MCInit /\ [][MCNext]_<<algorithm, vars, indexVars, edges>>

(* As long as no limit of the index is reached, a search is exact. *)
SearchExact == algorithm = "index" => Index!TypeOK /\ Index!SearchExact

(* The algorithms on the graph give what their definitions say. *)
GraphRight == algorithm = "graph" => Graph!GraphRight

-----------------------------------------------------------------------------

MCThreshold == "node2vec" :> 1 @@ "spectral" :> 1

MCPgEnds == t :> <<x, y>> @@ u :> <<y, y>>
MCListing == {<<t>>, <<t, u>>}

MCReadEnds == t :> <<x, y>> @@ u :> <<y, z>> @@ v :> <<y, x>>
MCEdge == <<u, t>> :> v

MCFact == {<<x, "is", y>>, <<x, "is", z>>}
MCRevocable == {<<x, "is", y>>, <<<<x, "is", y>>, "shareable_with", ann>>}
MCContested == {<<<<x, "is", y>>, <<x, "is", z>>>>}

told(triple, signal) == [triple |-> triple, signal |-> signal]
MCGiven == {<<told(t, "cited")>>, <<told(u, "misleading"), told(t, "ignored")>>,
            <<told(u, "relevant"), told(u, "ignored")>>}

MCPreset == {[share |-> <<34, 33, 33>>, of |-> 100, updates |-> 0],
             [share |-> <<2, 3, 5>>, of |-> 10, updates |-> 0]}
MCAttribution == {t :> (1 :> 2), t :> (2 :> 1 @@ 3 :> 1) @@ u :> (1 :> -1)}
MCSimilarity == {-1, 0, 2}
MCRate == <<1, 2>>
MCLeastShare == <<1, 20>>

MCRecency == 0 :> 100 @@ 1 :> 14
MCActivation == 1 :> 29 @@ 2 :> 46

Alike == UNION {Permutations(S) : S \in {Node, Worker, Caller}}
=============================================================================
