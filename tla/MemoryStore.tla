----------------------------- MODULE MemoryStore -----------------------------
(***************************************************************************)
(* The in-memory store (engine/src/storage/memory.rs): five maps, each     *)
(* behind a lock of its own.  A call that needs two maps takes two locks   *)
(* one after the other, so each operator below is what happens under ONE   *)
(* lock; delete_triple and insert_source are therefore two operators each. *)
(* A module that EXTENDS this one says who calls them, and in what order.  *)
(*                                                                         *)
(* Nodes and triples are content addressed (models/triple.rs): the ids of  *)
(* a triple's subject and object are a function of the triple, and         *)
(* creating a node twice creates the same node, so the two node maps are   *)
(* one set.  Weights are natural numbers; Full is 1.0.                     *)
(***************************************************************************)
EXTENDS Integers, FiniteSets

CONSTANTS
    Triple,     \* ids of triples
    Node,       \* ids of nodes
    Ends,       \* Ends[t]: the subject and the object of triple t
    Source,     \* ids of provenance records
    MaxWeight,  \* weights are capped here (feedback's ceiling, 10.0)
    Full,       \* weight of a new or touched triple (1.0)
    Absent      \* "not in the map"

ASSUME StoreAssumption ==
    /\ IsFiniteSet(Triple) /\ IsFiniteSet(Node)
    /\ Ends \in [Triple -> Node \X Node]
    /\ MaxWeight \in Nat
    /\ Full \in 1..MaxWeight
    /\ Absent \notin Nat

Weight == 0..MaxWeight
Stored == Weight \cup {Absent}

VARIABLES
    triples,    \* id -> local_weight, or Absent
    nodes,      \* ids of the nodes that exist
    sources,    \* ids of the sources that exist
    links       \* triple_sources: <<triple, source>> pairs

store == <<triples, nodes, sources, links>>

StoreTypeOK ==
    /\ triples \in [Triple -> Stored]
    /\ nodes \in SUBSET Node
    /\ sources \in SUBSET Source
    /\ links \in SUBSET (Triple \X Source)

StoreInit ==
    /\ triples = [t \in Triple |-> Absent]
    /\ nodes = {}
    /\ sources = {}
    /\ links = {}

Present == {t \in Triple : triples[t] # Absent}
Scaled(w) == w \div 2       \* any factor of at most one half

-----------------------------------------------------------------------------
(* find_or_create_node: a node that is there is left as it is. *)
FindOrCreateNode(n) ==
    /\ nodes' = nodes \cup {n}
    /\ UNCHANGED <<triples, sources, links>>

(* insert_triple and update_triple do the same: the copy given is stored,  *)
(* whether or not the id was there.                                        *)
PutTriple(t, w) ==
    /\ triples' = [triples EXCEPT ![t] = w]
    /\ UNCHANGED <<nodes, sources, links>>

TouchTriple(t) ==
    /\ triples' = IF t \in Present THEN [triples EXCEPT ![t] = Full] ELSE triples
    /\ UNCHANGED <<nodes, sources, links>>

(* delete_triple: the record under one lock, its links under another. *)
RemoveTriple(t) ==
    /\ triples' = [triples EXCEPT ![t] = Absent]
    /\ UNCHANGED <<nodes, sources, links>>

RemoveLinks(t) ==
    /\ links' = {l \in links : l[1] # t}
    /\ UNCHANGED <<triples, nodes, sources>>

(* insert_source: likewise; the triples it names need not be stored. *)
PutSource(s) ==
    /\ sources' = sources \cup {s}
    /\ UNCHANGED <<triples, nodes, links>>

AddLinks(s, ts) ==
    /\ links' = links \cup (ts \X {s})
    /\ UNCHANGED <<triples, nodes, sources>>

Decay ==
    /\ triples' = [t \in Triple |-> IF t \in Present THEN Scaled(triples[t]) ELSE Absent]
    /\ UNCHANGED <<nodes, sources, links>>

(* evict_below_weight: only the triples map is touched. *)
Evict(threshold) ==
    /\ triples' = [t \in Triple |-> IF t \in Present /\ triples[t] < threshold
                                    THEN Absent ELSE triples[t]]
    /\ UNCHANGED <<nodes, sources, links>>
=============================================================================
