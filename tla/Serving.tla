------------------------------ MODULE Serving ------------------------------
(***************************************************************************)
(* How the engine answers while its parts fail and its vectors are         *)
(* replaced (engine/src/engine.rs, resilience, embeddings/memory.rs, the   *)
(* search handlers, budget/tiered.rs, context/assembler.rs and             *)
(* query/combined.rs).  Recomputing reads the whole graph, works for as    *)
(* long as it takes, and then replaces the store of vectors under its      *)
(* write lock; requests read the vectors under the read lock and the       *)
(* triple store without any.  A call of the triple store may fail.         *)
(*                                                                         *)
(* A triple is the pair of its ends.  A vector is its node: of the numbers *)
(* in it only the dimension is kept.  The results of a request are counted *)
(* where only the calls made for them matter.  No store removes a node.    *)
(***************************************************************************)
EXTENDS Integers, Sequences, FiniteSets

CONSTANTS
    Node,
    Link,           \* the triples there may be: <<subject, object>>
    Caller,         \* requests at the same time
    Op,             \* the operations asked for
    Dims,           \* dimensions asked for
    Limit,          \* results asked for
    Outages,        \* may a call of the triple store fail?
    Forced,         \* the levels an operator sets
    MaxReports      \* bound: successes, failures and levels set

Recompute == {"spectral", "node2vec"}
Component == {"embeddings", "storage", "graph"}
Level == {"Full", "Cold", "Minimal", "Offline"}

ASSUME ServingAssumption ==
    /\ IsFiniteSet(Node) /\ Node # {}
    /\ Link \subseteq Node \X Node
    /\ Op \subseteq Recompute \cup
            {"search", "mcp_search", "tiered", "resilient", "neighbors", "assemble", "combined"}
    /\ Dims \subseteq Nat \ {0} /\ {Limit, MaxReports} \subseteq Nat \ {0}
    /\ Outages \in BOOLEAN /\ Forced \subseteq Level

VARIABLES
    nodes,      \* the nodes in the triple store
    links,      \* the triples in it
    vectors,    \* ValenceEngine.embeddings: the nodes that have one, and the dimension
    status,     \* DegradationState.components: failing?, successes (3: three or more), entry?
    level,      \* DegradationState.level
    job,        \* per caller: its request
    log         \* history: what was reported and set, as far as it changed anything

store == <<nodes, links>>
health == <<status, level, log>>
vars == <<store, vectors, health, job>>

Idle == [op |-> "none", at |-> "idle", node |-> CHOOSE n \in Node : TRUE, dim |-> 1, short |-> FALSE,
         view |-> {}, todo |-> 0, width |-> 0, found |-> {}, ok |-> FALSE, flagged |-> FALSE,
         failed |-> FALSE, saw |-> FALSE, old |-> FALSE, mixed |-> FALSE, had |-> {}, always |-> {}]

Site == {"idle", "view", "install", "report", "find", "target", "has", "vectors", "full", "cold",
         "minimal", "near", "get", "around", "resolve", "widen", "weigh", "sure", "expand", "again", "score", "scoring",
         "rank", "done"}

TypeOK ==
    /\ nodes \in SUBSET Node /\ links \in SUBSET Link
    /\ vectors.of \in SUBSET Node /\ vectors.dim \in Nat
    /\ (vectors.dim = 0) = (vectors.of = {})
    /\ status \in [Component -> [failing : BOOLEAN, successes : 0..3, entry : BOOLEAN]]
    /\ level \in Level
    /\ \A c \in Caller :
        /\ job[c].op \in Op \cup {"none"} /\ job[c].at \in Site /\ job[c].node \in Node
        /\ {job[c].todo, job[c].width} \subseteq 0..(Limit + 2 * Cardinality(Node)) /\ job[c].dim \in Dims \cup {1}
        /\ job[c].view \subseteq Link /\ job[c].found \subseteq Link /\ job[c].always \subseteq Link
        /\ job[c].had \subseteq Node
        /\ {job[c].short, job[c].ok, job[c].flagged, job[c].failed, job[c].saw,
            job[c].old, job[c].mixed} \subseteq BOOLEAN

(* The store made of computed vectors: all have the same dimension. *)
FromEmbeddings(S, d) == [of |-> S, dim |-> d]

Init ==
    /\ nodes = {} /\ links = {}
    /\ vectors = FromEmbeddings({}, 0)
    /\ status = [x \in Component |-> [failing |-> FALSE, successes |-> 0, entry |-> FALSE]]
    /\ level = "Full"
    /\ job = [c \in Caller |-> Idle]
    /\ log = <<>>

-----------------------------------------------------------------------------
(* The degradation state.                                                  *)
LevelOf(s) ==
    IF s["storage"].failing THEN "Offline"
    ELSE IF s["embeddings"].failing /\ s["graph"].failing THEN "Minimal"
    ELSE IF s["embeddings"].failing THEN "Cold"
    ELSE "Full"

ComponentFailure_Keeps(x) ==        \* mutant: the successes before it still count
    [status EXCEPT ![x] = [@ EXCEPT !.failing = TRUE, !.entry = TRUE]]
ComponentFailure(x) == [status EXCEPT ![x] = [failing |-> TRUE, successes |-> 0, entry |-> TRUE]]

ComponentSuccess(x) ==
    LET n == IF status[x].successes < 3 THEN status[x].successes + 1 ELSE 3 IN
    [status EXCEPT ![x].successes = n, ![x].failing = @ /\ n < 3]

Noted(about, ok) == log' = Append(log, [about |-> about, ok |-> ok])

RecordFailure(x) ==
    /\ Len(log) < MaxReports
    /\ status' = ComponentFailure(x)
    /\ level' = LevelOf(status')
    /\ Noted(x, FALSE)

(* A component nobody has reported as failing is not kept. *)
RecordSuccess(x) ==
    IF ~status[x].entry THEN UNCHANGED health
    ELSE /\ Len(log) < MaxReports
         /\ status' = ComponentSuccess(x)
         /\ level' = LevelOf(status')
         /\ Noted(x, TRUE)

(* POST /resilience/reset: the components stay as they are. *)
SetLevel(l) ==
    /\ Len(log) < MaxReports
    /\ level' = l
    /\ Noted("level", TRUE)
    /\ UNCHANGED <<store, vectors, status, job>>

(* The library's callers report what the engine does not. *)
Report(x) ==
    /\ RecordFailure(x) \/ RecordSuccess(x)
    /\ UNCHANGED <<store, vectors, job>>

-----------------------------------------------------------------------------
Lesser(a, b) == IF a < b THEN a ELSE b
EndsOf(ls) == {l[1] : l \in ls} \cup {l[2] : l \in ls}
Touching(n) == {l \in links : n \in {l[1], l[2]}}
Hood(n) == {n} \cup EndsOf(Touching(n))
TwoHops(n) == UNION {Hood(m) : m \in Hood(n)}

Become(c, r) == job' = [job EXCEPT ![c] = r]
Go(c, at) == Become(c, [job[c] EXCEPT !.at = at])
Done(c, r) == Become(c, [r EXCEPT !.at = "done"])
Answer(c, ok) == Done(c, [job[c] EXCEPT !.ok = ok])

(* A call of the triple store fails, and the request with it. *)
Fault(c) == Outages /\ Done(c, [job[c] EXCEPT !.failed = TRUE])
Quietly == UNCHANGED <<store, vectors, health>>

Start(op) == IF op \in Recompute THEN "view" ELSE IF op = "neighbors" THEN "full" ELSE "find"

Begin(c) ==
    /\ job[c].at = "idle"
    /\ \E op \in Op, n \in Node, d \in Dims \cup {1}, short \in BOOLEAN :
        /\ op # "node2vec" => ~short
        /\ IF op \in Recompute THEN d \in Dims ELSE d = 1
        /\ op \in Recompute => n = Idle.node
        /\ Become(c, [Idle EXCEPT !.op = op, !.at = Start(op), !.node = n, !.dim = d, !.short = short,
                                  !.had = IF op \in Recompute /\ Cardinality(EndsOf(links)) > 1
                                          THEN vectors.of \cap EndsOf(links) ELSE {},
                                  !.always = IF op \in {"neighbors", "resilient"} THEN Touching(n) ELSE {}])
    /\ Quietly

Close(c) == job[c].at = "done" /\ Become(c, Idle) /\ Quietly

-----------------------------------------------------------------------------
(* Recomputing the vectors.                                                *)
View_Defaults(c) ==         \* mutant: an unreadable graph counts as an empty one
    /\ job[c].at = "view"
    /\ \/ Become(c, [job[c] EXCEPT !.view = links, !.at = "install"])
       \/ Outages /\ Become(c, [job[c] EXCEPT !.view = {}, !.at = "install", !.failed = TRUE])
    /\ Quietly

View(c) ==
    /\ job[c].at = "view"
    /\ \/ Become(c, [job[c] EXCEPT !.view = links, !.at = "install"])
       \/ job[c].op = "node2vec" /\ Fault(c)
       \/ job[c].op = "spectral" /\ Outages
          /\ Become(c, [job[c] EXCEPT !.failed = TRUE, !.at = "report"])
    /\ Quietly

ReportFailure(c) ==
    /\ job[c].at = "report"
    /\ RecordFailure("embeddings")
    /\ Answer(c, FALSE)
    /\ UNCHANGED <<store, vectors>>

(* Spectral: at most one dimension less than there are nodes. *)
Spectral(j) ==
    LET dim == Lesser(j.dim, Cardinality(EndsOf(j.view)) - 1) IN
    IF dim < 1 THEN FromEmbeddings({}, 0) ELSE FromEmbeddings(EndsOf(j.view), dim)

(* Node2Vec: walks that stay where they start teach nothing. *)
Walked(j) ==
    IF j.short \/ j.view = {} THEN FromEmbeddings({}, 0)
    ELSE FromEmbeddings(EndsOf(j.view), j.dim)

(* A read guard on the vectors that is held across calls of the store. *)
Guarded_LetsGo == {"weigh"}     \* mutant: the assembler takes its guard per triple
Guarded == {"weigh", "scoring"}
Free == \A c \in Caller : job[c].at \notin Guarded

(* Success is reported before the write guard is dropped. *)
Install(c) ==
    /\ job[c].at = "install" /\ Free
    /\ vectors' = IF job[c].op = "spectral" THEN Spectral(job[c]) ELSE Walked(job[c])
    /\ IF job[c].op = "spectral" THEN RecordSuccess("embeddings") ELSE UNCHANGED health
    /\ job' = [d \in Caller |-> IF d = c THEN [job[c] EXCEPT !.at = "done", !.ok = TRUE]
                                ELSE [job[d] EXCEPT !.old = job[d].saw]]
    /\ UNCHANGED store

-----------------------------------------------------------------------------
(* A request reads vectors: is what it read before from the same ones?     *)
Looked(r) == [r EXCEPT !.saw = TRUE, !.mixed = @ \/ r.old]

Nearest == 1..Lesser(Limit, Cardinality(vectors.of))

(* Looking up the node asked for. *)
Found == [op \in Op |-> IF op = "resilient" THEN "has" ELSE IF op = "combined" THEN "target" ELSE "vectors"]

Find(c) ==
    /\ job[c].at = "find"
    /\ \/ job[c].node \in nodes /\ Go(c, Found[job[c].op])
       \/ job[c].node \notin nodes /\ Answer(c, job[c].op = "resilient")
       \/ IF job[c].op = "resilient"
          THEN Outages /\ Done(c, [job[c] EXCEPT !.failed = TRUE, !.ok = TRUE, !.flagged = TRUE])
          ELSE Fault(c)
    /\ Quietly

(* The search handlers, tier 1, and the choice of a working set: the vector *)
(* and its neighbours are read under one guard.                             *)
Vectors(c) ==
    LET j == job[c] IN
    /\ j.at = "vectors"
    /\ IF j.node \in vectors.of
       THEN \E n \in Nearest :
                Become(c, [Looked(j) EXCEPT !.todo = n, !.width = n,
                                            !.at = IF j.op = "assemble" THEN "expand" ELSE "resolve"])
       ELSE CASE j.op = "search"   -> Become(c, [j EXCEPT !.flagged = TRUE, !.at = "around"])
              [] j.op = "assemble" -> Become(c, [j EXCEPT !.todo = 1, !.at = "expand"])
              [] OTHER             -> Answer(c, FALSE)
    /\ Quietly

(* The cold search and the candidates: two hops around the node. *)
Around(c) ==
    /\ job[c].at = "around"
    /\ LET near == Cardinality(TwoHops(job[c].node)) IN
       \/ job[c].op = "search" /\ Become(c, [job[c] EXCEPT !.at = "resolve", !.todo = Lesser(Limit, near)])
       \/ job[c].op = "combined" /\ Become(c, [job[c] EXCEPT !.at = "rank", !.todo = near])
       \/ Fault(c)
    /\ Quietly

(* The record, and for a search the confidence, of each result. *)
Resolve(c) ==
    /\ job[c].at = "resolve"
    /\ \/ job[c].todo > 0 /\ (Become(c, [job[c] EXCEPT !.todo = @ - 1]) \/ Fault(c))
       \/ job[c].todo = 0 /\ Answer(c, TRUE)
       \/ job[c].todo = 0 /\ job[c].op = "tiered"
          /\ Become(c, [job[c] EXCEPT !.at = "widen", !.todo = Lesser(job[c].width, 5)])
    /\ Quietly

-----------------------------------------------------------------------------
(* Tiers 2 and 3, unless the budget is used up or the first result is      *)
(* similar enough.                                                         *)
Widen(c) ==
    /\ job[c].at = "widen"
    /\ \/ job[c].todo > 0 /\ (Fault(c) \/ \E n \in 0..Limit :
            Become(c, [job[c] EXCEPT !.at = "weigh", !.todo = @ - 1, !.width = n]))
       \/ job[c].todo = 0 /\ Answer(c, TRUE)
       \/ job[c].todo = 0 /\ Go(c, "sure")
    /\ Quietly

(* A neighbour whose record cannot be read is left out. *)
Weigh(c) ==
    /\ job[c].at = "weigh"
    /\ \/ job[c].width > 0 /\ Become(c, [Looked(job[c]) EXCEPT !.width = @ - 1])
       \/ job[c].width > 0 /\ Outages /\ Become(c, [job[c] EXCEPT !.width = @ - 1, !.failed = TRUE])
       \/ job[c].width = 0 /\ Go(c, "widen")
    /\ Quietly

Sure(c) == job[c].at = "sure" /\ (Answer(c, TRUE) \/ Fault(c)) /\ Quietly

-----------------------------------------------------------------------------
(* Resilient retrieval: as good an answer as can be had, never an error.    *)
Cut(ls) == {S \in SUBSET ls : Cardinality(S) = Lesser(Limit, Cardinality(ls))}

Neighbours(c, flagged) ==
    \E S \in Cut(Touching(job[c].node)) :
        Done(c, [job[c] EXCEPT !.found = S, !.ok = TRUE, !.flagged = flagged])

(* A failed read of the neighbours is tried again one level down. *)
Lower(c, at) == Outages /\ Become(c, [job[c] EXCEPT !.failed = TRUE, !.at = at])
GiveUp(c) == Outages /\ Done(c, [job[c] EXCEPT !.failed = TRUE, !.ok = TRUE, !.flagged = TRUE])

Full(c) ==
    /\ job[c].at = "full"
    /\ IF vectors.of = {} THEN Go(c, "cold") ELSE Become(c, [job[c] EXCEPT !.saw = TRUE, !.at = "near"])
    /\ Quietly

Has(c) ==
    /\ job[c].at = "has"
    /\ Go(c, IF vectors.of = {} THEN "cold" ELSE "get")
    /\ Quietly

Get(c) ==
    /\ job[c].at = "get"
    /\ IF job[c].node \in vectors.of THEN Become(c, [job[c] EXCEPT !.saw = TRUE, !.at = "near"]) ELSE Go(c, "cold")
    /\ Quietly

Near(c) ==
    /\ job[c].at = "near"
    /\ Neighbours(c, FALSE) \/ Lower(c, "cold")
    /\ Quietly

Cold_Unflagged(c) ==        \* mutant: what the second attempt finds is a plain answer
    /\ job[c].at = "cold"
    /\ \/ Neighbours(c, FALSE)
       \/ job[c].op = "neighbors" /\ Lower(c, "minimal")
       \/ job[c].op = "resilient" /\ GiveUp(c)
    /\ Quietly

Cold(c) ==
    /\ job[c].at = "cold"
    /\ \/ Neighbours(c, TRUE)
       \/ job[c].op = "neighbors" /\ Lower(c, "minimal")
       \/ job[c].op = "resilient" /\ GiveUp(c)
    /\ Quietly

Minimal(c) ==
    /\ job[c].at = "minimal"
    /\ Neighbours(c, TRUE) \/ GiveUp(c)
    /\ Quietly

-----------------------------------------------------------------------------
(* Assembling a context: the working set first, then its scores, which may *)
(* be by newer vectors than the set was chosen by.                         *)
Expand(c) ==
    /\ job[c].at = "expand"
    /\ \/ job[c].todo > 0 /\ (Become(c, [job[c] EXCEPT !.todo = @ - 1]) \/ Fault(c))
       \/ Go(c, "again")        \* all of them, or the budget used up
    /\ Quietly

Again(c) == job[c].at = "again" /\ (Go(c, "score") \/ Fault(c)) /\ Quietly

Score(c) ==
    /\ job[c].at = "score"
    /\ \E n \in 0..Limit :
        Become(c, [job[c] EXCEPT !.at = "scoring", !.todo = n, !.flagged = job[c].node \notin vectors.of,
                                 !.saw = TRUE, !.old = FALSE])
    /\ Quietly

Scoring(c) ==
    /\ job[c].at = "scoring"
    /\ \/ job[c].todo > 0 /\ (Fault(c) \/ Become(c, [Looked(job[c]) EXCEPT !.todo = @ - 1]))
       \/ job[c].todo = 0 /\ Answer(c, TRUE)
    /\ Quietly

-----------------------------------------------------------------------------
(* "Connected and similar": every candidate takes its own guard.           *)
Target(c) ==
    /\ job[c].at = "target"
    /\ \/ \E n \in Node : IF n \in nodes THEN Go(c, "around") ELSE Answer(c, FALSE)
       \/ Fault(c)
    /\ Quietly

Rank(c) ==
    /\ job[c].at = "rank"
    /\ \/ job[c].todo > 0 /\ (Fault(c) \/ Become(c, [Looked(job[c]) EXCEPT !.todo = @ - 1]))
       \/ job[c].todo = 0 /\ Answer(c, TRUE)
    /\ Quietly

-----------------------------------------------------------------------------
(* The store's other callers.                                              *)
Insert(l) ==
    /\ links' = links \cup {l} /\ nodes' = nodes \cup {l[1], l[2]}
    /\ UNCHANGED <<vectors, health, job>>

Evict(l) ==
    /\ links' = links \ {l}
    /\ job' = [c \in Caller |-> [job[c] EXCEPT
                    !.had = IF Cardinality(EndsOf(links')) > 1 THEN @ \cap EndsOf(links') ELSE {},
                    !.always = @ \cap links']]
    /\ UNCHANGED <<nodes, vectors, health>>

Request(c) ==
    \/ View(c) \/ ReportFailure(c) \/ Install(c)
    \/ Find(c) \/ Vectors(c) \/ Around(c) \/ Resolve(c) \/ Widen(c) \/ Weigh(c) \/ Sure(c)
    \/ Full(c) \/ Has(c) \/ Get(c) \/ Near(c) \/ Cold(c) \/ Minimal(c)
    \/ Expand(c) \/ Again(c) \/ Score(c) \/ Scoring(c) \/ Target(c) \/ Rank(c)

Next ==
    \/ \E c \in Caller : Begin(c) \/ Request(c) \/ Close(c)
    \/ \E l \in Link : Insert(l) \/ Evict(l)
    \/ \E x \in Component : Report(x)
    \/ \E l \in Forced : SetLevel(l)

Spec == Init /\ [][Next]_vars

-----------------------------------------------------------------------------
Answered(c) == job[c].at = "done" /\ job[c].ok

(***************************************************************************)
(* What resilient retrieval does not flag as a fallback is no fallback: no *)
(* call made for it failed, vectors were there, and it holds every triple  *)
(* of the node that was stored all the time, unless the limit cut it; and  *)
(* it never answers with an error.                                         *)
(***************************************************************************)
AnswersHonest ==
    \A c \in Caller : job[c].op \in {"neighbors", "resilient"} /\ job[c].at = "done" =>
        /\ job[c].ok
        /\ ~job[c].flagged /\ (job[c].op = "neighbors" \/ job[c].saw) =>
            /\ ~job[c].failed /\ job[c].saw
            /\ job[c].always \subseteq job[c].found \/ Cardinality(job[c].found) = Limit

(* Every variable keeps its type, and an answer says when it is a fallback. *)
AnswersSound == TypeOK /\ AnswersHonest

(***************************************************************************)
(* A context, a search and its like rank by the vectors of one computation *)
(* however many calls of the store come in between; a tiered retrieval and *)
(* a combined query may mix two.                                           *)
(***************************************************************************)
OneRanking == \A c \in Caller : job[c].op \notin {"tiered", "combined"} => ~job[c].mixed

(***************************************************************************)
(* Recomputing costs no node the vector it had when the request came in,   *)
(* as long as the node stays in a graph of two nodes or more: neither an   *)
(* unreadable graph nor another computation in between does.               *)
(***************************************************************************)
NothingTakenBack ==
    [][\A c \in Caller :
        job[c].op \in Recompute /\ job[c].at # "done" /\ job'[c].at = "done" /\ ~job[c].short
            => job[c].had \cap vectors.of \subseteq vectors'.of]_vars

(***************************************************************************)
(* A component is degraded from a failure until three successes in a row,  *)
(* and the level is Full only if neither the store nor the vectors are,    *)
(* unless an operator has set it since.                                    *)
(***************************************************************************)
Failures(x) == {i \in DOMAIN log : log[i] = [about |-> x, ok |-> FALSE]}
Degraded(x) ==
    \E i \in Failures(x) : \A S \in SUBSET ((i + 1)..Len(log)) :
        (\A k \in S : log[k] = [about |-> x, ok |-> TRUE]) => Cardinality(S) < 3
LevelSet == log # <<>> /\ log[Len(log)].about = "level"

DegradedUntilThree ==
    /\ \A x \in Component : status[x].failing = Degraded(x)
    /\ LevelSet \/ (level = "Full") = ~(Degraded("storage") \/ Degraded("embeddings"))
=============================================================================
