------------------------------ MODULE WorkingSet ------------------------------
(***************************************************************************)
(* The working set of a conversation (engine/src/context/working_set.rs)   *)
(* from turn to turn, and the choice the assembler makes of it             *)
(* (engine/src/context/assembler.rs).  Nodes, triples and threads carry a  *)
(* score; what is weak goes at the end of a turn.  How a query fills a set *)
(* is in Serving; here nodes and triples are added in any order.           *)
(*                                                                         *)
(* Confidence, recency and activation are whole hundredths, the last two   *)
(* given by tables; a combined score is in tenths of that.  The number of  *)
(* the turn is left out.                                                   *)
(***************************************************************************)
EXTENDS Naturals, Sequences, FiniteSets, Functions

CONSTANTS
    Node, Thread, None,
    Ends,           \* the two nodes of each triple: a function
    Confidence,     \* what a node or a triple may be added with
    Recency,        \* per age, falling
    Activation,     \* per count, rising
    Threshold,      \* what the caller of a turn may prune with
    MostTriples, MostNodes,     \* what an assembly may ask for
    MaxItems        \* bound: nodes and triples at one time

VARIABLES
    nodes, triples, \* the score of each, or None
    threads         \* of each its score and status, or None

vars == <<nodes, triples, threads>>

Triple == DOMAIN Ends
Score == [confidence : Confidence \cup {80}, age : DOMAIN Recency,
          count : DOMAIN Activation, combined : Nat]
Topic == [score : Score, status : {"active", "dormant", "resolved"}]
Present(table) == {x \in DOMAIN table : table[x] # None}

(* The tables give the freshest its recency and the first its activation.  *)
WorkingSetAssumption ==
    /\ Ends \in [DOMAIN Ends -> Node \X Node] /\ IsFiniteSet(DOMAIN Ends)
    /\ Confidence \cup Threshold \subseteq Nat /\ MostTriples \cup MostNodes \subseteq Nat
    /\ DOMAIN Recency \subseteq Nat /\ Recency \in [DOMAIN Recency -> Nat] /\ 0 \in DOMAIN Recency
    /\ \A i, j \in DOMAIN Recency : i <= j => Recency[i] >= Recency[j]
    /\ DOMAIN Activation \subseteq Nat /\ Activation \in [DOMAIN Activation -> Nat] /\ 1 \in DOMAIN Activation
    /\ \A i, j \in DOMAIN Activation : i <= j => Activation[i] <= Activation[j]
    /\ None \notin Score /\ None \notin Topic

TypeOK ==
    /\ nodes \in [Node -> Score \cup {None}]
    /\ triples \in [Triple -> Score \cup {None}]
    /\ threads \in [Thread -> Topic \cup {None}]

Init ==
    /\ nodes = [n \in Node |-> None] /\ triples = [t \in Triple |-> None]
    /\ threads = [h \in Thread |-> None]

-----------------------------------------------------------------------------
(* Scores.  A new one has its confidence as combined score, and the other   *)
(* parts enter when it is first recomputed.                                 *)

New(confidence) ==
    [confidence |-> confidence, age |-> 0, count |-> 1, combined |-> 10 * confidence]

Recomputed(s) ==
    [s EXCEPT !.combined =
        5 * s.confidence + 3 * Recency[s.age] + 2 * Activation[s.count]]

Activated(s) == Recomputed([s EXCEPT !.count = @ + 1, !.age = 0])

HasRoom == Cardinality(Present(nodes)) + Cardinality(Present(triples)) < MaxItems
Activable(s) == s.count + 1 \in DOMAIN Activation

Added(table, x, confidence) ==
    [table EXCEPT ![x] = IF @ = None THEN New(confidence) ELSE Activated(@)]

AddNode(n, confidence) ==
    /\ IF nodes[n] = None THEN HasRoom ELSE Activable(nodes[n])
    /\ nodes' = Added(nodes, n, confidence)
    /\ UNCHANGED <<triples, threads>>

AddTriple(t, confidence) ==
    /\ IF triples[t] = None THEN HasRoom ELSE Activable(triples[t])
    /\ triples' = Added(triples, t, confidence)
    /\ UNCHANGED <<nodes, threads>>

(* Nodes that are not there are passed over. *)
ActivateNodes(S) ==
    /\ S \cap Present(nodes) # {}
    /\ \A n \in S \cap Present(nodes) : Activable(nodes[n])
    /\ nodes' = [n \in Node |-> IF n \in S \cap Present(nodes) THEN Activated(nodes[n]) ELSE nodes[n]]
    /\ UNCHANGED <<triples, threads>>

AddThread(h) ==
    /\ threads[h] = None
    /\ threads' = [threads EXCEPT ![h] = [score |-> New(80), status |-> "active"]]
    /\ UNCHANGED <<nodes, triples>>

ResolveThread(h) ==
    /\ threads[h] # None
    /\ threads' = [threads EXCEPT ![h].status = "resolved"]
    /\ UNCHANGED <<nodes, triples>>

(* Time passes: the scores keep what they were computed to. *)
Aged(s) == [s EXCEPT !.age = @ + 1]

Tick ==
    /\ \A s \in {nodes[n] : n \in Present(nodes)} \cup {triples[t] : t \in Present(triples)}
            \cup {threads[h].score : h \in Present(threads)} : s.age + 1 \in DOMAIN Recency
    /\ nodes' = [n \in Node |-> IF nodes[n] = None THEN None ELSE Aged(nodes[n])]
    /\ triples' = [t \in Triple |-> IF triples[t] = None THEN None ELSE Aged(triples[t])]
    /\ threads' = [h \in Thread |-> IF threads[h] = None THEN None
                                    ELSE [threads[h] EXCEPT !.score = Aged(@)]]

Pruned_Stale(table, threshold) ==
    [x \in DOMAIN table |->
        IF table[x] = None \/ table[x].combined < threshold THEN None
        ELSE Recomputed(table[x])]

(* What a turn leaves of a table: recomputed first, and then tested. *)
Pruned(table, threshold) ==
    [x \in DOMAIN table |->
        IF table[x] = None \/ Recomputed(table[x]).combined < threshold THEN None
        ELSE Recomputed(table[x])]

(* A thread falls dormant with its recency, and goes once resolved and weak. *)
Turned(thread, threshold) ==
    LET score == Recomputed(thread.score)
        status == IF thread.status = "active" /\ Recency[score.age] < 30 THEN "dormant"
                  ELSE thread.status
    IN IF status = "resolved" /\ score.combined < threshold THEN None
       ELSE [score |-> score, status |-> status]

UpdateTurn(threshold) ==
    /\ nodes' = Pruned(nodes, threshold)
    /\ triples' = Pruned(triples, threshold)
    /\ threads' = [h \in Thread |-> IF threads[h] = None THEN None
                                    ELSE Turned(threads[h], threshold)]

Next ==
    \/ \E c \in Confidence :
           \/ \E n \in Node : AddNode(n, c)
           \/ \E t \in Triple : AddTriple(t, c)
    \/ \E S \in SUBSET Node : ActivateNodes(S)
    \/ \E h \in Thread : AddThread(h) \/ ResolveThread(h)
    \/ Tick
    \/ \E threshold \in Threshold : UpdateTurn(threshold)

Spec == Init /\ [][Next]_vars

-----------------------------------------------------------------------------
(* The assembler's choice where the query node q has no embedding: the      *)
(* nearer and the stronger first, so many triples, and their nodes until    *)
(* there are enough.  Of equal scores any may come first.                   *)

Proximity(t, q) ==
    IF q \in {Ends[t][1], Ends[t][2]} THEN 4
    ELSE IF {Ends[t][1], Ends[t][2]} \cap Present(nodes) # {} THEN 2 ELSE 1

Relevance(t, q) == Proximity(t, q) * triples[t].combined

Orders == Bijection(1 .. Cardinality(Present(triples)), Present(triples))

Ranked_Upwards(q) ==
    {s \in Orders : \A i, j \in DOMAIN s : i <= j => Relevance(s[i], q) <= Relevance(s[j], q)}

Ranked(q) ==
    {s \in Orders : \A i, j \in DOMAIN s : i <= j => Relevance(s[i], q) >= Relevance(s[j], q)}

Listed(s, maxTriples) == {i \in DOMAIN s : i <= maxTriples}

(* The nodes of the first n triples. *)
Named(s, n) == UNION {{Ends[s[i]][1], Ends[s[i]][2]} : i \in Listed(s, n)}

(* Full is tested after a triple's two nodes were added. *)
NodesOf(s, most, q, maxNodes) ==
    LET taken == {i \in Listed(s, most) : i = 1 \/ Cardinality(Named(s, i - 1)) < maxNodes}
        chosen == UNION {{Ends[s[i]][1], Ends[s[i]][2]} : i \in taken}
    IN IF Cardinality(chosen) < maxNodes THEN chosen \cup {q} ELSE chosen

Degree(s, most, n) ==
    Cardinality({i \in Listed(s, most) : Ends[s[i]][1] = n})
    + Cardinality({i \in Listed(s, most) : Ends[s[i]][2] = n})

-----------------------------------------------------------------------------
(***************************************************************************)
(* A turn lets the weakest go: what is at least as sure, as fresh and as   *)
(* often named as something of its kind that stays, stays too.  A thread   *)
(* leaves only when it is resolved, and none wakes again.                  *)
(***************************************************************************)
Outweighs(s, r) == s.confidence >= r.confidence /\ s.age <= r.age /\ s.count >= r.count

WeakestStay(table, later) ==
    \A x, y \in Present(table) :
        later[x] = None /\ later[y] # None => ~Outweighs(table[x], table[y])

WeakestGo == [][
    /\ WeakestStay(nodes, nodes') /\ WeakestStay(triples, triples')
    /\ \A h \in Present(threads) :
           /\ threads'[h] = None => threads[h].status = "resolved"
           /\ threads'[h] # None /\ threads'[h].status = "active" => threads[h].status = "active"
    ]_vars

(***************************************************************************)
(* A context that may name two nodes per triple it may list, as the        *)
(* default one (50 and 100), names both ends of every triple it lists and  *)
(* no more nodes than it may; one that may name more names the query node  *)
(* too; and in any context, no triple left out stands as close to the      *)
(* query and higher in the set than one listed.                            *)
(***************************************************************************)
ContextCovers ==
    \A q \in Present(nodes) : \A s \in Ranked(q), most \in MostTriples, maxNodes \in MostNodes :
        LET listed == {s[i] : i \in Listed(s, most)}
            named == NodesOf(s, most, q, maxNodes)
        IN
        /\ maxNodes >= 2 * most =>
               /\ \A n \in Node : Degree(s, most, n) > 0 => n \in named
               /\ Cardinality(named) <= maxNodes
        /\ maxNodes > 2 * most => q \in named
        /\ \A t \in listed, u \in Present(triples) \ listed :
               ~(Proximity(u, q) >= Proximity(t, q) /\ triples[u].combined > triples[t].combined)
=============================================================================
