-------------------------------- MODULE Hnsw --------------------------------
(***************************************************************************)
(* The approximate nearest-neighbour index (engine/src/embeddings/hnsw.rs) *)
(* that answers every similarity search: a graph on each of several        *)
(* layers, the node's own links on each layer it belongs to.  Links are    *)
(* set when a node is inserted or updated, and cut to the nearest few      *)
(* afterwards, on one side only; a removed node stays in the graph.        *)
(*                                                                         *)
(* A vector is a position on an arc, where the cosine falls with the       *)
(* distance.  Of two nodes at the same distance the code takes the one its *)
(* heap happens to have in front, here the smaller.                        *)
(***************************************************************************)
EXTENDS Integers, Sequences, FiniteSets

CONSTANTS
    Nodes,          \* bound: how many nodes there may be
    MaxChanges,     \* bound: updates and removals
    Vector,         \* positions on the arc
    TopLevel,       \* the highest level a node may draw (16)
    M,              \* max_connections
    M0,             \* max_connections_layer0
    EfConstruction, \* ef_construction
    EfSearch        \* ef_search

HnswAssumption ==
    /\ Vector \subseteq Nat
    /\ {Nodes, MaxChanges, TopLevel} \subseteq Nat
    /\ {M, M0, EfConstruction, EfSearch} \subseteq Nat \ {0}

VARIABLES
    nodes,      \* HnswIndex.nodes
    entry,      \* HnswIndex.entry_point: at most one
    changes     \* history: how many updates and removals there were

vars == <<nodes, entry, changes>>

Number == 1..Nodes
Level == 0..TopLevel
MaxLinks(layer) == IF layer = 0 THEN M0 ELSE M

(***************************************************************************)
(* A link on a layer leads to a node of that layer, there are no more of   *)
(* them than the configuration allows, and the search starts at the top.   *)
(***************************************************************************)
TypeOK ==
    /\ Len(nodes) <= Nodes
    /\ \A n \in DOMAIN nodes :
        /\ nodes[n].at \in Vector /\ nodes[n].deleted \in BOOLEAN
        /\ nodes[n].level \in Level /\ DOMAIN nodes[n].links = 0..nodes[n].level
        /\ \A layer \in 0..nodes[n].level :
            /\ nodes[n].links[layer] \subseteq {m \in DOMAIN nodes : nodes[m].level >= layer}
            /\ Cardinality(nodes[n].links[layer]) <= MaxLinks(layer)
    /\ entry \subseteq DOMAIN nodes /\ Cardinality(entry) = (IF nodes = <<>> THEN 0 ELSE 1)
    /\ \A e \in entry, n \in DOMAIN nodes : nodes[n].level <= nodes[e].level
    /\ changes \in 0..MaxChanges

Init == nodes = <<>> /\ entry = {} /\ changes = 0

-----------------------------------------------------------------------------
(* The index ix as an operation is changing it.                            *)
Gap(v, w) == IF v < w THEN w - v ELSE v - w
Nearer(ix, v, x, y) == Gap(v, ix[x].at) < Gap(v, ix[y].at) \/ (Gap(v, ix[x].at) = Gap(v, ix[y].at) /\ x < y)
Nearest(ix, v, S, k) == {x \in S : Cardinality({y \in S : Nearer(ix, v, y, x)}) < k}
First(ix, v, S) == CHOOSE x \in S : \A y \in S : ~Nearer(ix, v, y, x)
Links(ix, n, layer) == IF layer <= ix[n].level THEN ix[n].links[layer] ELSE {}

(* Towards v on one layer as long as a neighbour is closer. *)
RECURSIVE Greedy(_, _, _, _)
Greedy(ix, v, n, layer) ==
    LET closer == {m \in Links(ix, n, layer) : Gap(v, ix[m].at) < Gap(v, ix[n].at)} IN
    IF closer = {} THEN n ELSE Greedy(ix, v, First(ix, v, closer), layer)

RECURSIVE Descend(_, _, _, _, _)
Descend(ix, v, n, from, to) ==
    IF from < to THEN n ELSE Descend(ix, v, Greedy(ix, v, n, from), from - 1, to)

(* Best first; of what is found the ef nearest are kept, and the search is *)
(* over when the next is farther than all of them.                         *)
RECURSIVE Explore(_, _, _, _, _, _, _)
Explore(ix, v, todo, seen, best, ef, layer) ==
    LET n == First(ix, v, todo)
        fresh == Links(ix, n, layer) \ seen
        full == Cardinality(best) >= ef
        kept == Nearest(ix, v, best \cup fresh, IF full THEN Cardinality(best) ELSE ef)
    IN IF todo = {} \/ (full /\ \A b \in best : Gap(v, ix[b].at) < Gap(v, ix[n].at)) THEN best
       ELSE Explore(ix, v, (todo \ {n}) \cup (fresh \cap kept), seen \cup fresh, kept, ef, layer)

SearchLayer(ix, v, starts, ef, layer) == Explore(ix, v, starts, starts, starts, ef, layer)

-----------------------------------------------------------------------------
(* The nodes that n let go of let go of n; those it chooses get a link to  *)
(* n, and keep the nearest ones when that makes too many.                  *)
Leave(ix, n, layer) ==
    [m \in DOMAIN ix |-> IF m \in Links(ix, n, layer) /\ layer <= ix[m].level
                         THEN [ix[m] EXCEPT !.links[layer] = @ \ {n}] ELSE ix[m]]

Join_OneWay(ix, n, layer, chosen) ==        \* mutant: only the new node gets its links
    [ix EXCEPT ![n].links[layer] = chosen]

Join(ix, n, layer, chosen) ==
    [m \in DOMAIN ix |->
        IF m = n THEN [ix[m] EXCEPT !.links[layer] = chosen]
        ELSE IF m \in chosen /\ layer <= ix[m].level
        THEN [ix[m] EXCEPT !.links[layer] = Nearest(ix, ix[m].at, @ \cup {n}, MaxLinks(layer))]
        ELSE ix[m]]

(* From layer to layer 0.  An update may find the node itself among its    *)
(* nearest, and links it to itself.                                        *)
RECURSIVE Connect(_, _, _, _, _)
Connect(ix, n, layer, starts, near) ==
    IF layer < 0 THEN ix
    ELSE LET found == SearchLayer(ix, ix[n].at, starts, EfConstruction, layer)
             chosen == Nearest(ix, ix[n].at, found, MaxLinks(layer))
         IN Connect(Join(Leave(ix, n, layer), n, layer, chosen), n, layer - 1,
                    IF chosen = {} THEN {near} ELSE chosen, near)

Top == IF entry = {} THEN 0 ELSE nodes[CHOOSE e \in entry : TRUE].level

Linked(ix, n) ==
    LET near == Descend(ix, ix[n].at, CHOOSE e \in entry : TRUE, Top, ix[n].level + 1)
        layer == IF ix[n].level < Top THEN ix[n].level ELSE Top
    IN Connect(ix, n, layer, {near}, near)

Active(ix) == {n \in DOMAIN ix : ~ix[n].deleted}

Insert(v, level) ==
    /\ Len(nodes) < Nodes
    /\ LET n == Len(nodes) + 1
           ix == Append(nodes, [at |-> v, level |-> level, links |-> [l \in 0..level |-> {}], deleted |-> FALSE])
       IN /\ nodes' = IF entry = {} THEN ix ELSE Linked(ix, n)
          /\ entry' = IF entry = {} \/ level > Top THEN {n} ELSE entry
    /\ UNCHANGED changes

(* With no other node left there is nothing to link. *)
Update(n, v) ==
    /\ n \in DOMAIN nodes /\ changes < MaxChanges
    /\ changes' = changes + 1
    /\ LET ix == [nodes EXCEPT ![n].at = v, ![n].deleted = FALSE] IN
       nodes' = IF Cardinality(Active(ix)) < 2 THEN ix ELSE Linked(ix, n)
    /\ UNCHANGED entry

Remove(n) ==
    /\ n \in DOMAIN nodes /\ changes < MaxChanges
    /\ changes' = changes + 1
    /\ nodes' = [nodes EXCEPT ![n].deleted = TRUE]
    /\ UNCHANGED entry

Search(v, k) ==
    IF entry = {} \/ k = 0 THEN {}
    ELSE LET near == Descend(nodes, v, CHOOSE e \in entry : TRUE, Top, 1)
             found == SearchLayer(nodes, v, {near}, IF k < EfSearch THEN EfSearch ELSE k, 0)
         IN Nearest(nodes, v, found \cap Active(nodes), k)

Next ==
    \/ \E v \in Vector, level \in Level : Insert(v, level)
    \/ \E n \in Number, v \in Vector : Update(n, v)
    \/ \E n \in Number : Remove(n)

Spec == Init /\ [][Next]_vars

-----------------------------------------------------------------------------
(***************************************************************************)
(* As long as there are no more nodes, removed ones included, than a node  *)
(* keeps links and a search candidates, the index is exact: whatever was   *)
(* inserted, moved, removed and put back before, a search finds the        *)
(* nearest of the nodes that are there, and as many as are asked for.      *)
(***************************************************************************)
Small == \A bound \in {M0, EfConstruction, EfSearch} : Cardinality(DOMAIN nodes) <= bound

SearchExact ==
    Small => \A v \in Vector, k \in 0..Nodes :
                Search(v, k) = Nearest(nodes, v, Active(nodes), k)
=============================================================================
