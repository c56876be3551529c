-------------------------------- MODULE Reads --------------------------------
(***************************************************************************)
(* The read requests of the HTTP and MCP servers (engine/src/api/mod.rs,   *)
(* engine/src/mcp/tools.rs) while triples are inserted, superseded and     *)
(* removed.  A handler takes no lock of its own: each call of the store is *)
(* a step, and between two of them anything may change.  A handler is the  *)
(* sequence of its calls (Plan):                                           *)
(*   get      a copy of the triple the path names, not found if none;      *)
(*   subject, object   the node a parameter names;                         *)
(*   fetch    the triples that answer the request, as copies;              *)
(*   dress    for each of them, its nodes and its sources.                 *)
(*                                                                         *)
(* The store is the one of the default mode: its calls are atomic here,    *)
(* SledStore has them step by step.  Names, weights, and the layout of a   *)
(* reply are left out; the searches are in Serving and Hnsw.               *)
(***************************************************************************)
EXTENDS Naturals, Sequences, FiniteSets

CONSTANTS
    Client, Node, None,
    Ends,           \* the subject and object of each triple: a function
    Trusts,         \* the triples whose predicate is "trusts"
    Edge,           \* the triple that says one triple supersedes another
    Depth,          \* the depths clients ask for
    MaxDepth,       \* the depth above which HTTP refuses (10)
    PerNode,        \* the triples explore takes of one node (3)
    MaxWrites       \* bound: writes of triples

VARIABLES
    nodes, triples, \* what is stored
    writing,        \* the triples the writer has yet to insert, and where it is
    writes,         \* how many it began
    request,        \* what each client asked, or None
    stable          \* history: the triples stored ever since it asked

store == <<nodes, triples>>
vars == <<store, writing, writes, request, stable>>

Triple == DOMAIN Ends
Plan == [
    query |-> <<"subject", "object", "fetch", "dress">>,
    neighbors |-> <<"subject", "fetch", "dress">>,
    detail |-> <<"get", "dress">>,
    sources |-> <<"fetch">>,
    explain |-> <<"get", "subject", "view">>,
    trust |-> <<"view", "subject", "fetch", "dress">>,
    explore |-> <<"fetch", "dress">>,
    stats |-> <<"view", "fetch">>,
    sign |-> <<"get">>,
    verify |-> <<"get">> ]
Op == DOMAIN Plan

ReadsAssumption ==
    /\ None \notin Node \cup Triple
    /\ \A t \in Triple : Ends[t] \in Node \X Node
    /\ \A e \in DOMAIN Edge : Edge[e] \in Triple

(* What a handler keeps: the nodes it resolved, the triples it fetched, the *)
(* ones it has yet to dress, and how it ended.                              *)
Asking(op, s, o, t, depth) ==
    [op |-> op, s |-> s, o |-> o, t |-> t, depth |-> depth, plan |-> Plan[op],
     subject |-> None, object |-> None, found |-> {}, left |-> {}, ended |-> "no"]

TypeOK ==
    /\ nodes \subseteq Node /\ triples \subseteq Triple
    /\ \A c \in Client : request[c] # None =>
           /\ request[c].left \subseteq request[c].found
           /\ request[c].found \subseteq Triple
           /\ request[c].ended \in {"no", "ok", "not found", "refused", "failed"}

Init ==
    /\ nodes = {} /\ triples = {} /\ writing = <<>> /\ writes = 0
    /\ request = [c \in Client |-> None]
    /\ stable = [c \in Client |-> {}]

-----------------------------------------------------------------------------
Steps_TripleFirst(t) ==
    <<[node |-> Ends[t][1], triple |-> None], [node |-> None, triple |-> t],
      [node |-> Ends[t][2], triple |-> None]>>

(* Writers: the two nodes of a triple, and then the triple. *)
Steps(t) == <<[node |-> Ends[t][1], triple |-> None], [node |-> Ends[t][2], triple |-> None],
              [node |-> None, triple |-> t]>>

Begins(steps) ==
    /\ writing = <<>> /\ writes < MaxWrites
    /\ writing' = steps /\ writes' = writes + 1
    /\ UNCHANGED <<store, request, stable>>

InsertTriples(t) == Begins(Steps(t))

(* The old triple must be there, and is left as it is. *)
SupersedeTriple(old, new) ==
    /\ old \in triples /\ <<new, old>> \in DOMAIN Edge
    /\ Begins(Steps(new) \o Steps(Edge[<<new, old>>]))

WriteNext ==
    /\ writing # <<>>
    /\ nodes' = nodes \cup ({Head(writing).node} \ {None})
    /\ triples' = triples \cup ({Head(writing).triple} \ {None})
    /\ writing' = Tail(writing)
    /\ UNCHANGED <<writes, request, stable>>

(* Deleted, evicted by maintenance, or decayed away; the nodes stay. *)
Remove(t) ==
    /\ t \in triples
    /\ triples' = triples \ {t}
    /\ stable' = [c \in Client |-> stable[c] \ {t}]
    /\ UNCHANGED <<nodes, writing, writes, request>>

-----------------------------------------------------------------------------
(* Requests. *)

Asks(c, op, s, o, t, depth) ==
    /\ request[c] = None
    /\ request' = [request EXCEPT ![c] = Asking(op, s, o, t, depth)]
    /\ stable' = [stable EXCEPT ![c] = triples]
    /\ UNCHANGED <<store, writing, writes>>

QueryTriples(c, s, o) == Asks(c, "query", s, o, None, 0)
GetNeighbors(c, n, depth) == depth \in 1 .. MaxDepth /\ Asks(c, "neighbors", n, None, None, depth)
GetTripleDetail(c, t) == Asks(c, "detail", None, None, t, 0)
GetTripleSources(c, t) == Asks(c, "sources", None, None, t, 0)
ExplainConfidence(c, t, n) == Asks(c, "explain", n, None, t, 0)
QueryTrust(c, n) == Asks(c, "trust", n, None, None, 0)
Explore(c) == Asks(c, "explore", None, None, None, 0)
GetStats(c) == Asks(c, "stats", None, None, None, 0)
SignTriple(c, t) == Asks(c, "sign", None, None, t, 0)
VerifyTriple(c, t) == Asks(c, "verify", None, None, t, 0)

Now(c, step) ==
    /\ request[c] # None /\ request[c].ended = "no" /\ request[c].plan # <<>>
    /\ Head(request[c].plan) = step
    /\ UNCHANGED <<store, writing, writes, stable>>

(* A step is done, and with it some fields change; or the handler returns. *)
Past(c, r) == request' = [request EXCEPT ![c] = [r EXCEPT !.plan = Tail(r.plan)]]
Returns(c, how) == request' = [request EXCEPT ![c].ended = how]

Found(c, found) == Past(c, [request[c] EXCEPT !.found = found, !.left = found])

(* The triple is kept as a copy: what follows answers with it. *)
Get(c) ==
    /\ Now(c, "get")
    /\ IF request[c].t \in triples THEN Found(c, {request[c].t}) ELSE Returns(c, "not found")

(* A query drops a filter that names no node; neighbors and trust refuse. *)
FindSubject(c) ==
    /\ Now(c, "subject")
    /\ IF request[c].s \in nodes THEN Past(c, [request[c] EXCEPT !.subject = request[c].s])
       ELSE IF request[c].op \in {"neighbors", "trust"} THEN Returns(c, "not found")
       ELSE Past(c, request[c])

FindObject(c) ==
    /\ Now(c, "object")
    /\ Past(c, IF request[c].o \in nodes THEN [request[c] EXCEPT !.object = request[c].o]
               ELSE request[c])

(* The graph is read as a whole, or counted; what is computed on it does    *)
(* not fail.                                                                *)
View(c) == Now(c, "view") /\ Past(c, request[c])

(* The triples a walk from the node comes to, each at a node of the last. *)
At(n, t) == n \in {Ends[t][1], Ends[t][2]}
Near(S, n, depth) ==
    {t \in S : \E d \in 1 .. depth : \E walk \in [1 .. d -> S] :
        /\ At(n, walk[1]) /\ walk[d] = t
        /\ \A i \in 1 .. d - 1 : At(Ends[walk[i]][1], walk[i + 1]) \/ At(Ends[walk[i]][2], walk[i + 1])}

From(S, n) == {t \in S : Ends[t][1] = n}

(* What a request finds in a set of triples, given the nodes it looks for. *)
Answers(op, S, s, o, t, depth) ==
    CASE op = "query" -> {u \in S : s \in {None, Ends[u][1]} /\ o \in {None, Ends[u][2]}}
      [] op = "neighbors" -> Near(S, s, depth)
      [] op = "trust" -> From(S, s) \cap Trusts
      [] op = "stats" -> S
      [] OTHER -> {t} \cap S

Fetch(c) ==
    LET r == request[c] IN
    /\ Now(c, "fetch")
    /\ r.op # "explore"
    /\ Found(c, Answers(r.op, triples, r.subject, r.object, r.t, r.depth))

(* Of each node the retrieval gives, a few of the triples it is subject of. *)
FetchExplored(c, visited) ==
    /\ Now(c, "fetch")
    /\ request[c].op = "explore"
    /\ \E found \in SUBSET triples :
           /\ \A t \in found : Ends[t][1] \in visited
           /\ \A n \in visited : Cardinality(From(found, n)) <= PerNode
           /\ Found(c, found)

(* Both nodes of a triple must be there: the handler fails if not. *)
Dress(c, t) ==
    /\ Now(c, "dress")
    /\ t \in request[c].left
    /\ IF {Ends[t][1], Ends[t][2]} \subseteq nodes
       THEN request' = [request EXCEPT ![c].left = @ \ {t}]
       ELSE Returns(c, "failed")

Dressed(c) ==
    /\ Now(c, "dress")
    /\ request[c].left = {}
    /\ Past(c, request[c])

Reply(c) ==
    /\ request[c] # None /\ request[c].ended = "no" /\ request[c].plan = <<>>
    /\ Returns(c, "ok")
    /\ UNCHANGED <<store, writing, writes, stable>>

Next ==
    \/ \E t \in Triple : InsertTriples(t) \/ Remove(t)
    \/ \E old, new \in Triple : SupersedeTriple(old, new)
    \/ WriteNext
    \/ \E c \in Client :
           \/ \E s, o \in Node \cup {None} : QueryTriples(c, s, o)
           \/ \E n \in Node :
                  \/ \E depth \in Depth : GetNeighbors(c, n, depth)
                  \/ QueryTrust(c, n)
           \/ \E t \in Triple :
                  \/ GetTripleDetail(c, t) \/ GetTripleSources(c, t)
                  \/ SignTriple(c, t) \/ VerifyTriple(c, t)
                  \/ \E n \in Node \cup {None} : ExplainConfidence(c, t, n)
           \/ Explore(c) \/ GetStats(c)
           \/ Get(c) \/ FindSubject(c) \/ FindObject(c) \/ View(c)
           \/ Fetch(c)
           \/ \E visited \in SUBSET nodes : FetchExplored(c, visited)
           \/ \E t \in Triple : Dress(c, t)
           \/ Dressed(c) \/ Reply(c)

Spec == Init /\ [][Next]_vars

-----------------------------------------------------------------------------
(***************************************************************************)
(* No read fails because of what happens meanwhile; a triple that was      *)
(* stored all the time and answers the request is in the reply, or the     *)
(* reply would not have been "not found"; and the reply has nothing that   *)
(* was not asked for, unless a filter of a query named a node that was not *)
(* known when it was looked up: then that filter does not count.           *)
(***************************************************************************)
Whole(r, S) == Answers(r.op, S, r.s, r.o, r.t, r.depth)

ReadsAnswered == \A c \in Client :
    LET r == request[c] IN
    r # None =>
        /\ r.ended # "failed"
        /\ r.ended = "not found" => Whole(r, stable[c]) = {}
        /\ r.ended = "ok" /\ r.op # "explore" =>
               /\ Whole(r, stable[c]) \subseteq r.found
               /\ r.op = "query" => \A t \in r.found :
                      /\ r.subject # None => Ends[t][1] = r.s
                      /\ r.object # None => Ends[t][2] = r.o
=============================================================================
