--------------------------- MODULE KnowledgeEngine ---------------------------
(***************************************************************************)
(* The HTTP handlers, MCP tools and maintenance cycles of the engine, all  *)
(* at work on one MemoryStore at the same time (ValenceEngine.store is an  *)
(* Arc<dyn TripleStore> and no lock spans two calls of it).                *)
(*                                                                         *)
(* A request is the sequence of store calls its handler makes.  Request    *)
(* actions take a request on; Call actions make the first call of a        *)
(* caller's remaining plan, between which any other caller can make its    *)
(* own.  A call whose outcome decides what follows rewrites the plan.      *)
(*                                                                         *)
(* The linking triples that supersede, share_revoke and tension_resolve    *)
(* insert (two or three each) are represented by one, of the set Link.     *)
(***************************************************************************)
EXTENDS MemoryStore, Sequences

CONSTANTS
    Caller,         \* concurrent requests
    Maintainer,     \* the callers that may run lifecycle cycles
    Link,           \* triples that link other triples
    Ops,            \* the requests that are made
    MaxBatch,       \* most triples in one insert request
    MinFeedback,    \* feedback's floor (0.1)
    MinWeight,      \* the decay policy's min_weight, used to evict
    TargetTriples,  \* max_triples * target_utilization
    TargetNodes     \* max_nodes * target_utilization

None == "none"

ASSUME EngineAssumption ==
    /\ Maintainer \subseteq Caller
    /\ None \notin Caller
    /\ Link \subseteq Triple
    /\ MaxBatch \in Nat \ {0}
    /\ MinFeedback \in Weight
    /\ MinWeight \in Weight
    /\ TargetTriples \in Nat
    /\ TargetNodes \in Nat

VARIABLES
    job,        \* per caller: the calls left, copies read, and two counts
    adjuster,   \* who holds the WeightAdjuster's lock
    claims      \* history: acknowledged <<triple, source>> of stored triples

vars == <<store, job, adjuster, claims>>

NoCopy == [t \in Triple |-> Absent]
Idle == [plan |-> <<>>, copy |-> NoCopy, n |-> 0, was |-> 0]
Facts == Triple \ Link

Call(do, arg) == [do |-> do, arg |-> arg]
Calls ==
    [do : {"node"}, arg : Node]
    \cup [do : {"put", "touch", "get", "scale", "zero", "up", "down", "erase", "unlink"}, arg : Triple]
    \cup [do : {"source"}, arg : Source]
    \cup [do : {"link"}, arg : Source \X SUBSET Triple]
    \cup [do : {"lock", "decay", "evict", "count", "decide", "select"}, arg : {None}]

TypeOK ==
    /\ StoreTypeOK
    /\ job \in [Caller -> [plan : Seq(Calls), copy : [Triple -> Stored], n : Nat, was : Nat]]
    /\ adjuster \in Caller \cup {None}
    /\ claims \in SUBSET (Triple \X Source)

Init ==
    /\ StoreInit
    /\ job = [c \in Caller |-> Idle]
    /\ adjuster = None
    /\ claims = {}

-----------------------------------------------------------------------------
(* Requests.                                                               *)

(* Subject and object are found or created before the triple is written. *)
InsertCalls_TripleFirst(t) ==   \* mutant: the triple before its nodes
    <<Call("put", t), Call("node", Ends[t][1]), Call("node", Ends[t][2])>>

InsertCalls(t) == <<Call("node", Ends[t][1]), Call("node", Ends[t][2]), Call("put", t)>>
Inserts(ts) == [i \in 1..(3 * Len(ts)) |-> InsertCalls(ts[(i + 2) \div 3])[((i - 1) % 3) + 1]]

Batch == UNION {[1..n -> Facts] : n \in 1..MaxBatch}

Request(c, op, plan) ==
    /\ op \in Ops
    /\ job[c].plan = <<>>
    /\ job' = [job EXCEPT ![c] = [Idle EXCEPT !.plan = plan]]
    /\ UNCHANGED <<store, adjuster, claims>>

(* A Source::new has an id of its own. *)
Fresh(s) ==
    /\ s \notin sources
    /\ \A c \in Caller : \A i \in DOMAIN job[c].plan : job[c].plan[i] # Call("source", s)

InsertTriples(c) ==
    \E ts \in Batch :
        \/ Request(c, "insert", Inserts(ts))
        \/ \E s \in Source :
            /\ Fresh(s)
            /\ LET told == {ts[i] : i \in DOMAIN ts} IN
               Request(c, "insert",
                       Inserts(ts) \o <<Call("source", s), Call("link", <<s, told>>)>>)

RecordFeedback(c) == \E t \in Facts : Request(c, "touch", <<Call("touch", t)>>)

Adjustment_Unlocked(t, signal) == <<Call("get", t), Call(signal, t)>>  \* mutant

Adjustment(t, signal) == <<Call("lock", None), Call("get", t), Call(signal, t)>>

SubmitFeedback(c) ==
    \E t \in Facts, signal \in {"up", "down"} : Request(c, "feedback", Adjustment(t, signal))

TripleSupersede(c) ==
    \E old, new \in Facts, l \in Link :
        Request(c, "supersede",
                <<Call("get", old)>> \o Inserts(<<new, l>>) \o <<Call("scale", old)>>)

ShareRevoke(c) ==
    \E t \in Facts, l \in Link :
        Request(c, "revoke", <<Call("get", t)>> \o Inserts(<<l>>) \o <<Call("zero", t)>>)

(* Which of two triples in tension are archived, by position. *)
Archivings == {<<>>, <<1>>, <<2>>, <<1, 2>>}

TensionResolve(c) ==
    \E a, b \in Facts, l \in Link, archived \in Archivings :
        Request(c, "resolve",
                <<Call("get", a), Call("get", b)>>
                \o [i \in DOMAIN archived |-> Call("scale", <<a, b>>[archived[i]])]
                \o Inserts(<<l>>))

TriggerDecay(c) == Request(c, "decay", <<Call("decay", None)>>)
TriggerEvict(c) == Request(c, "evict", <<Call("evict", None)>>)

(* run_lifecycle_cycle: decay_cycle, then MemoryBounds::enforce. *)
Cycle ==
    <<Call("decay", None), Call("evict", None),
      Call("count", None), Call("decide", None), Call("select", None)>>

RunLifecycleCycle(c) == c \in Maintainer /\ Request(c, "lifecycle", Cycle)

-----------------------------------------------------------------------------
(* Calls.                                                                  *)
Doing(c, do) == job[c].plan # <<>> /\ Head(job[c].plan).do = do
Arg(c) == Head(job[c].plan).arg
Next1(j) == [j EXCEPT !.plan = Tail(@)]

(* The next call of c is `do`, and goes on to the one after it. *)
Makes(c, do) ==
    /\ Doing(c, do)
    /\ job' = [job EXCEPT ![c] = Next1(@)]

(* Somebody has taken t and has still to take its links: what is linked to *)
(* it before that goes with them, and is no claim.                         *)
Leaving(t) == \E c \in Caller : Doing(c, "unlink") /\ Arg(c) = t

Claim(new) ==
    LET kept == {l \in new : ~Leaving(l[1])}
    IN claims' = {l \in claims \cup kept : triples'[l[1]] # Absent}

CallNode(c) == Makes(c, "node") /\ FindOrCreateNode(Arg(c)) /\ UNCHANGED <<adjuster, claims>>
CallPut(c) == Makes(c, "put") /\ PutTriple(Arg(c), Full) /\ UNCHANGED <<adjuster, claims>>
CallTouch(c) == Makes(c, "touch") /\ TouchTriple(Arg(c)) /\ UNCHANGED <<adjuster, claims>>
CallSource(c) == Makes(c, "source") /\ PutSource(Arg(c)) /\ UNCHANGED <<adjuster, claims>>

CallLink(c) ==
    LET s == Arg(c)[1]
        ts == Arg(c)[2]
    IN
    /\ Makes(c, "link")
    /\ AddLinks(s, ts)
    /\ Claim(ts \X {s})
    /\ UNCHANGED adjuster

(* A handler that finds no triple gives up, and lets go of the lock. *)
CallGet(c) ==
    LET t == Arg(c)
        found == [Next1(job[c]) EXCEPT !.copy[t] = triples[t]]
    IN
    /\ Doing(c, "get")
    /\ \/ t \in Present /\ job' = [job EXCEPT ![c] = found] /\ UNCHANGED adjuster
       \/ /\ t \notin Present
          /\ job' = [job EXCEPT ![c] = Idle]
          /\ adjuster' = IF adjuster = c THEN None ELSE adjuster
    /\ UNCHANGED <<store, claims>>

(* update_triple with the copy read earlier, its weight changed. *)
CallScale(c) ==
    /\ Makes(c, "scale")
    /\ PutTriple(Arg(c), Scaled(job[c].copy[Arg(c)]))
    /\ UNCHANGED <<adjuster, claims>>

CallZero(c) == Makes(c, "zero") /\ PutTriple(Arg(c), 0) /\ UNCHANGED <<adjuster, claims>>

CallLock(c) ==
    /\ adjuster = None
    /\ Makes(c, "lock")
    /\ adjuster' = c
    /\ UNCHANGED <<store, claims>>

Clamp_NoCeiling(w) == IF w < MinFeedback THEN MinFeedback ELSE w     \* mutant
Clamp(w) == IF w < MinFeedback THEN MinFeedback ELSE IF w > MaxWeight THEN MaxWeight ELSE w
Adjusted(w, signal) == Clamp(IF signal = "up" THEN w + 1 ELSE w - 1)

CallAdjust(c, signal) ==
    /\ Makes(c, signal)
    /\ PutTriple(Arg(c), Adjusted(job[c].copy[Arg(c)], signal))
    /\ adjuster' = None
    /\ UNCHANGED claims

CallDecay(c) == Makes(c, "decay") /\ Decay /\ UNCHANGED <<adjuster, claims>>
CallEvict(c) == Makes(c, "evict") /\ Evict(MinWeight) /\ Claim({}) /\ UNCHANGED adjuster

(* MemoryBounds::check counts the triples, then the nodes; `was` keeps the *)
(* count of the triples.                                                   *)
CallCount(c) ==
    LET n == Cardinality(Present) IN
    /\ Doing(c, "count")
    /\ job' = [job EXCEPT ![c] = [Next1(@) EXCEPT !.n = n, !.was = n]]
    /\ UNCHANGED <<store, adjuster, claims>>

ToEvict_OneShort(n) ==      \* mutant: off by one
    LET excess == Cardinality(nodes) - TargetNodes IN
    IF n > TargetTriples THEN n - TargetTriples - 1
    ELSE IF excess > 0 THEN excess \div 2 ELSE 0

ToEvict(n) ==
    LET excess == Cardinality(nodes) - TargetNodes IN
    IF n > TargetTriples THEN n - TargetTriples
    ELSE IF excess > 0 THEN excess \div 2 ELSE 0

CallDecide(c) ==
    LET n == ToEvict(job[c].n) IN
    /\ Doing(c, "decide")
    /\ job' = [job EXCEPT ![c] = IF n = 0 THEN Idle ELSE [Next1(@) EXCEPT !.n = n]]
    /\ UNCHANGED <<store, adjuster, claims>>

(* The k lightest of the triples, the lightest first. *)
Lightest_Heaviest(k) ==     \* mutant: sorted the other way round
    {f \in [1..k -> Present] :
        /\ \A i, j \in 1..k : i < j => f[i] # f[j] /\ triples[f[i]] >= triples[f[j]]
        /\ \A i \in 1..k, t \in Present : (\A j \in 1..k : f[j] # t) => triples[f[i]] >= triples[t]}

Lightest(k) ==
    {f \in [1..k -> Present] :
        /\ \A i, j \in 1..k : i < j => f[i] # f[j] /\ triples[f[i]] <= triples[f[j]]
        /\ \A i \in 1..k, t \in Present : (\A j \in 1..k : f[j] # t) => triples[f[i]] <= triples[t]}

DeleteCalls_LinksFirst(t) == <<Call("unlink", t), Call("erase", t)>>     \* mutant

DeleteCalls(t) == <<Call("erase", t), Call("unlink", t)>>
Deletes(f) == [i \in 1..(2 * Len(f)) |-> DeleteCalls(f[(i + 1) \div 2])[((i - 1) % 2) + 1]]

CallSelect(c) ==
    LET all == Cardinality(Present)
        k == IF job[c].n < all THEN job[c].n ELSE all
    IN
    /\ Doing(c, "select")
    /\ \E f \in Lightest(k) :
        job' = [job EXCEPT ![c] = [Idle EXCEPT !.plan = Deletes(f), !.was = job[c].was]]
    /\ UNCHANGED <<store, adjuster, claims>>

CallErase(c) == Makes(c, "erase") /\ RemoveTriple(Arg(c)) /\ Claim({}) /\ UNCHANGED adjuster
CallUnlink(c) == Makes(c, "unlink") /\ RemoveLinks(Arg(c)) /\ UNCHANGED <<adjuster, claims>>

-----------------------------------------------------------------------------
Accept(c) ==
    \/ InsertTriples(c) \/ RecordFeedback(c) \/ SubmitFeedback(c)
    \/ TripleSupersede(c) \/ ShareRevoke(c) \/ TensionResolve(c)
    \/ TriggerDecay(c) \/ TriggerEvict(c) \/ RunLifecycleCycle(c)

Serve(c) ==
    \/ CallNode(c) \/ CallPut(c) \/ CallTouch(c) \/ CallSource(c) \/ CallLink(c)
    \/ CallGet(c) \/ CallScale(c) \/ CallZero(c) \/ CallLock(c)
    \/ CallAdjust(c, "up") \/ CallAdjust(c, "down")
    \/ CallDecay(c) \/ CallEvict(c) \/ CallCount(c) \/ CallDecide(c)
    \/ CallSelect(c) \/ CallErase(c) \/ CallUnlink(c)

Next == \E c \in Caller : Accept(c) \/ Serve(c)

Spec == Init /\ [][Next]_vars

-----------------------------------------------------------------------------
(***************************************************************************)
(* The two nodes of a stored triple exist: GET /nodes/{id}/neighbors       *)
(* unwraps what get_node returns for both, and would panic otherwise.      *)
(***************************************************************************)
NodesBehindTriples == \A t \in Present : {Ends[t][1], Ends[t][2]} \subseteq nodes

(***************************************************************************)
(* What an acknowledged insert request said about the origin of a triple   *)
(* is not lost while the triple stays stored, whatever is deleted, evicted *)
(* and written back meanwhile: delete_triple takes the triple before its   *)
(* links.  Only what is linked to a triple that somebody is in the middle  *)
(* of deleting may go with it.                                             *)
(***************************************************************************)
ProvenanceKept == claims \subseteq links

(***************************************************************************)
(* Two feedback requests never hold a copy to write back at the same time, *)
(* so neither undoes the other's adjustment.                               *)
(***************************************************************************)
FeedbackSerial ==
    \A c, d \in Caller :
        c # d => ~((Doing(c, "up") \/ Doing(c, "down")) /\ (Doing(d, "up") \/ Doing(d, "down")))

(***************************************************************************)
(* Enforcing the bounds deletes the least useful triples: whatever it      *)
(* leaves in place weighs at least as much as what it deletes.             *)
(***************************************************************************)
EnforceKeepsHeaviest ==
    [][\A c \in Caller, t, u \in Present :
         /\ CallErase(c) /\ Arg(c) = t
         /\ \A i \in DOMAIN job[c].plan : job[c].plan[i].arg # u
         => triples[t] <= triples[u]]_vars

(***************************************************************************)
(* Enforcing the bounds deletes as much as it should and no more.  If the  *)
(* triples were too many, exactly the target stays.  If only the nodes     *)
(* were, one triple goes for every two of them (no deletion takes a node,  *)
(* so that their own target stays missed); and if neither were, none goes. *)
(***************************************************************************)
Enforcing(c) == \E do \in {"decide", "select", "erase", "unlink"} : Doing(c, do)

EnforceReachesTarget ==
    [][\A c \in Caller :
         LET left == Cardinality(Present)'
             gone == job[c].was - left
             surplus == Cardinality(nodes) - TargetNodes
         IN Enforcing(c) /\ job'[c].plan = <<>> =>
             /\ job[c].was > TargetTriples => left = TargetTriples
             /\ job[c].was <= TargetTriples =>
                  /\ gone > 0 => 2 * gone <= surplus
                  /\ left > 0 => 2 * gone + 1 >= surplus]_vars
=============================================================================
