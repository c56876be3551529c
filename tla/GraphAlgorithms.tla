--------------------------- MODULE GraphAlgorithms ---------------------------
(***************************************************************************)
(* The graph the engine builds of its triples, and what it computes on it: *)
(* shortest paths, distinct paths, betweenness, PageRank and               *)
(* the confidence of a triple (engine/src/graph).  The algorithms are      *)
(* translated with their queues and stacks, and compared with definitions  *)
(* that have none, on every graph of up to MaxEdges triples.               *)
(*                                                                         *)
(* The triples are edges in the order they are added; two with the same    *)
(* ends are parallel, one may be a loop.  Numbers are fractions, written   *)
(* as a numerator over a denominator all nodes share.                      *)
(***************************************************************************)
EXTENDS Integers, Sequences, SequencesExt, FiniteSetsExt, Functions

CONSTANTS
    Node, None,
    MaxDepth,       \* the depth of a search for distinct paths (5)
    MaxPaths,       \* the paths that count for the confidence (10)
    Damping,        \* of PageRank, a pair <<numerator, denominator>> (0.85)
    Iterations,     \* of PageRank (20 and 50)
    MaxEdges        \* bound: the edges of a graph

VARIABLE edges      \* the triples' ends, in the order they are added

vars == edges

Known == UNION {{edges[i][1], edges[i][2]} : i \in DOMAIN edges}

Init == edges = <<>>

AddTriple(a, b) ==
    /\ Len(edges) < MaxEdges
    /\ edges' = Append(edges, <<a, b>>)

Next == \E a, b \in Node : AddTriple(a, b)

Spec == Init /\ [][Next]_vars

-----------------------------------------------------------------------------
(* Neighbours, newest edge first; of parallel edges, one for each. *)

Outgoing(n) ==
    LET out == SelectSeq(Reverse(edges), LAMBDA e : e[1] = n)
    IN [i \in DOMAIN out |-> out[i][2]]
Incoming(n) ==
    LET in == SelectSeq(Reverse(edges), LAMBDA e : e[2] = n)
    IN [i \in DOMAIN in |-> in[i][1]]
Neighbors(n) == Outgoing(n) \o Incoming(n)

-----------------------------------------------------------------------------
(* Breadth-first search with a parent for every node but the first. *)

RECURSIVE Walk(_, _, _)
Walk(queue, parent, to) ==
    IF queue = <<>> \/ Head(queue) = to THEN [found |-> queue # <<>>, parent |-> parent]
    ELSE LET at == Head(queue)
             fresh == SelectSeq(Outgoing(at), LAMBDA n : n \notin DOMAIN parent)
             new == ToSet(fresh)
             once == SetToSortSeq(new, LAMBDA m, n :
                         SelectInSeq(fresh, LAMBDA x : x = m) < SelectInSeq(fresh, LAMBDA x : x = n))
         IN Walk(Tail(queue) \o once,
                 [n \in DOMAIN parent \cup new |-> IF n \in new THEN at ELSE parent[n]], to)

(* The first node is its own parent, where the path ends. *)
RECURSIVE Back(_, _)
Back(n, parent) == IF parent[n] = n THEN <<n>> ELSE Append(Back(parent[n], parent), n)

ShortestPath(from, to) ==
    IF {from, to} \subseteq Known
    THEN LET walk == Walk(<<from>>, [n \in {from} |-> n], to)
         IN IF walk.found THEN <<Back(to, walk.parent)>> ELSE <<>>
    ELSE <<>>

(* Depth-first search with a stack of nodes, what was passed, and depths. *)
RECURSIVE Search(_, _, _)

Search_TooShallow(stack, to, most) ==
    IF stack = <<>> THEN 0
    ELSE LET top == Last(stack)
             rest == Front(stack)
             passed == top.passed \cup {top.node}
             onward == SelectSeq(Outgoing(top.node), LAMBDA n : n \notin passed)
         IN IF top.depth >= most THEN Search(rest, to, most)
            ELSE IF top.node = to THEN 1 + Search(rest, to, most)
            ELSE Search(rest \o [i \in DOMAIN onward |->
                            [node |-> onward[i], passed |-> passed, depth |-> top.depth + 1]],
                        to, most)

Search(stack, to, most) ==
    IF stack = <<>> THEN 0
    ELSE LET top == Last(stack)
             rest == Front(stack)
             passed == top.passed \cup {top.node}
             onward == SelectSeq(Outgoing(top.node), LAMBDA n : n \notin passed)
         IN IF top.depth > most THEN Search(rest, to, most)
            ELSE IF top.node = to THEN 1 + Search(rest, to, most)
            ELSE Search(rest \o [i \in DOMAIN onward |->
                            [node |-> onward[i], passed |-> passed, depth |-> top.depth + 1]],
                        to, most)

CountDistinctPaths(from, to, most) ==
    IF {from, to} \subseteq Known
    THEN Search(<<[node |-> from, passed |-> {}, depth |-> 0]>>, to, most)
    ELSE 0

-----------------------------------------------------------------------------
(* Betweenness: all shortest paths from one node, found breadth first. *)

RECURSIVE Spread(_, _, _)
Spread(queue, dist, paths) ==
    IF queue = <<>> THEN paths
    ELSE LET at == Head(queue)
             next == FoldLeft(LAMBDA s, n :
                 LET first == n \notin DOMAIN s.dist
                     d == IF first THEN [m \in DOMAIN s.dist \cup {n} |->
                                            IF m = n THEN s.dist[at] + 1 ELSE s.dist[m]]
                          ELSE s.dist
                     longer == [i \in DOMAIN s.paths[at] |-> Append(s.paths[at][i], n)]
                 IN [queue |-> IF first THEN Append(s.queue, n) ELSE s.queue,
                     dist |-> d,
                     paths |-> IF d[n] = d[at] + 1 THEN [s.paths EXCEPT ![n] = @ \o longer]
                               ELSE s.paths],
                 [queue |-> Tail(queue), dist |-> dist, paths |-> paths], Outgoing(at))
         IN Spread(next.queue, next.dist, next.paths)

PathsFrom(source) ==
    Spread(<<source>>, [n \in {source} |-> 0],
           [n \in Known |-> IF n = source THEN <<<<source>>>> ELSE <<>>])

Inner(path) == SubSeq(path, 2, Len(path) - 1)

(* Of the shortest paths between two nodes, how many and how many through n. *)
Passing(paths, n) == Len(SelectSeq(paths, LAMBDA p : n \in ToSet(Inner(p))))

(* The score of a node is the sum of these fractions over all pairs, over   *)
(* the number of pairs of other nodes.                                      *)
Betweenness(n) ==
    UNION {LET paths == PathsFrom(s) IN
           {<<s, t, Passing(paths[t], n), Len(paths[t])>> :
               t \in {x \in Known \ {s} : paths[x] # <<>>}} : s \in Known}

-----------------------------------------------------------------------------
(* PageRank.  The denominator grows with each round by what any node may    *)
(* have to divide by: the out-degrees of all of them.                       *)

Degree(n) == Len(Outgoing(n))
Shares == FoldFunction(LAMBDA x, y : x * y, 1,
              [n \in Known |-> IF Degree(n) = 0 THEN 1 ELSE Degree(n)])

RankOf(round) ==
    Cardinality(Known) * (IF round = 0 THEN 1 ELSE (Damping[2] * Shares) ^ round)

RECURSIVE Rank(_)
Rank(round) ==
    IF round = 0 THEN [n \in Known |-> 1]
    ELSE LET was == Rank(round - 1)
             term == (Damping[2] - Damping[1]) * (RankOf(round) \div (Cardinality(Known) * Damping[2]))
             Passed(n) == FoldLeft(LAMBDA sum, m : sum + (was[m] * Shares) \div Degree(m), 0, Incoming(n))
         IN FoldSet(LAMBDA n, new : n :> (term + Damping[1] * Passed(n)) @@ new, <<>>, Known)

PageRank == [share |-> Rank(Iterations), of |-> RankOf(Iterations)]

-----------------------------------------------------------------------------
(* Confidence of the triple between two nodes.  The diversity is in parts   *)
(* of 2 * MaxPaths: of the paths from the node one looks from, and where    *)
(* there is none, of the neighbours of the ends.                            *)

SourceReliability(sources) == Min({sources, 10})

PathDiversity(from, a, b) ==
    IF from = None THEN Min({Len(Neighbors(a)) + Len(Neighbors(b)), 2 * MaxPaths})
    ELSE 2 * Min({CountDistinctPaths(from, a, MaxDepth) + CountDistinctPaths(from, b, MaxDepth),
                  MaxPaths})

(* 0.5, 0.3 and 0.2 of the parts, over 20 * MaxPaths * ranks.of. *)
Combined(reliability, diversity, centralities, of) ==
    reliability * MaxPaths * of + 3 * diversity * of + 2 * centralities * MaxPaths

ComputeConfidence(ranks, from, a, b, sources) ==
    Combined(SourceReliability(sources), PathDiversity(from, a, b),
             ranks.share[a] + ranks.share[b], ranks.of)

-----------------------------------------------------------------------------
(* The fused score of a triple (engine/src/query/fusion.rs): five signals,  *)
(* each brought to 0 .. 80, weighed in hundredths.  A similarity is in      *)
(* tenths, an age in half-lives, less than nothing if it lies ahead.        *)

Weights == [standard |-> <<35, 25, 20, 10, 10>>, verification |-> <<15, 40, 15, 10, 20>>,
            exploration |-> <<50, 15, 10, 15, 10>>]

Valid(w) == FoldLeft(LAMBDA x, y : x + y, 0, w) \in 99 .. 101

NormalizeSimilarity(s) == IF s < -10 THEN 0 ELSE 4 * Min({s + 10, 20})
NormalizeRecency(age) == IF age < 0 THEN 80 ELSE 80 \div (2 ^ age)
NormalizeGraphDistance(hops) == IF hops >= 10 THEN 0 ELSE 80 - 8 * hops
NormalizeSourceCount(n) == 8 * Min({n, 10})

FusedScore(w, s) ==
    w[1] * NormalizeSimilarity(s.similarity) + w[2] * s.confidence
    + w[3] * NormalizeRecency(s.age) + w[4] * NormalizeGraphDistance(s.hops)
    + w[5] * NormalizeSourceCount(s.sources)

(* The positions of a batch, best score first. *)
ScoreBatch(w, batch) ==
    {order \in SetToSeqs(DOMAIN batch) : \A i \in 1 .. Len(order) - 1 :
        FusedScore(w, batch[order[i]]) >= FusedScore(w, batch[order[i + 1]])}

-----------------------------------------------------------------------------
(* The reference: a path is a sequence of edges without a node twice. *)

Routes(from, to, most) ==
    {r \in UNION {[1 .. k -> DOMAIN edges] : k \in 1 .. most} :
        /\ edges[r[1]][1] = from /\ edges[r[Len(r)]][2] = to
        /\ \A i \in 1 .. Len(r) - 1 : edges[r[i]][2] = edges[r[i + 1]][1]
        /\ Cardinality({from} \cup {edges[r[i]][2] : i \in DOMAIN r}) = Len(r) + 1}

Distance(from, to) ==
    IF from = to THEN 0 ELSE Min({Len(r) : r \in Routes(from, to, Cardinality(Node) - 1)})
Shortest(from, to) ==
    {r \in Routes(from, to, Cardinality(Node) - 1) : Len(r) = Distance(from, to)}
Reaches(from, to) == from = to \/ Routes(from, to, Cardinality(Node) - 1) # {}

(***************************************************************************)
(* A shortest path is found where there is one, follows the edges and has  *)
(* the length of the distance.                                             *)
(***************************************************************************)
PathsShortest ==
    \A from, to \in Known :
        LET found == ShortestPath(from, to) IN
        /\ (found # <<>>) = Reaches(from, to)
        /\ found # <<>> =>
               /\ Len(found[1]) = Distance(from, to) + 1
               /\ \A i \in 1 .. Len(found[1]) - 1 :
                      <<found[1][i], found[1][i + 1]>> \in ToSet(edges)

(* Every route of at most that depth is counted once, a parallel edge makes *)
(* another, and the betweenness counts the shortest of them.                *)
PathsCounted ==
    /\ \A from, to \in Known, most \in 0 .. MaxDepth :
           CountDistinctPaths(from, to, most) =
               IF from = to THEN 1 ELSE Cardinality(Routes(from, to, most))
    /\ \A n \in Known : \A <<s, t, through, all>> \in Betweenness(n) :
           /\ all = Cardinality(Shortest(s, t))
           /\ through = Cardinality({r \in Shortest(s, t) : n \notin {s, t}
                  /\ n \in {edges[r[i]][2] : i \in DOMAIN r}})

(* Ranks add up to at most one, to one exactly if every node has an edge    *)
(* out; and a confidence is between nothing and one.                        *)
RanksBounded ==
    LET ranks == PageRank
        sum == FoldFunction(LAMBDA x, y : x + y, 0, ranks.share)
    IN
    edges # <<>> =>
        /\ sum <= ranks.of
        /\ (\A n \in Known : Degree(n) > 0) => sum = ranks.of
        /\ \A from \in Known \cup {None}, a, b \in Known, sources \in {0, 11} :
               ComputeConfidence(ranks, from, a, b, sources) <= 20 * MaxPaths * ranks.of

(***************************************************************************)
(* In a fused ranking nothing comes before what is nearer and in no        *)
(* respect worse, whichever the weights; scores are at most a hundredth    *)
(* above one.  The signals of a batch are taken from the graph: one entry  *)
(* per node, as far as the node is from where one looks.                   *)
(***************************************************************************)
Signals(from, n) ==
    [similarity |-> IF n = from THEN 11 ELSE Len(Neighbors(n)) - 10, age |-> Degree(n) - 1,
     confidence |-> 8 * SourceReliability(Degree(n)), sources |-> 3 * Len(Incoming(n)),
     hops |-> IF Reaches(from, n) THEN Distance(from, n) ELSE 10]

NoWorse(s, r) ==
    /\ s.similarity >= r.similarity /\ s.confidence >= r.confidence /\ s.age <= r.age
    /\ s.hops < r.hops /\ s.sources >= r.sources

RankingsFair ==
    \A from \in Known :
        LET batch == [n \in Known |-> Signals(from, n)] IN
        \A w \in {Weights[k] : k \in DOMAIN Weights} : Valid(w) /\ \A order \in ScoreBatch(w, batch) :
            /\ \A i, j \in DOMAIN order : i < j => ~NoWorse(batch[order[j]], batch[order[i]])
            /\ \A n \in Known : FusedScore(w, batch[n]) <= 80 * 101

GraphRight == PathsShortest /\ PathsCounted /\ RanksBounded /\ RankingsFair
=============================================================================
