----------------------------- MODULE SocialTools -----------------------------
(***************************************************************************)
(* The social tools of the MCP server (engine/src/mcp/tools.rs): trust     *)
(* edges, shares, verifications and the tensions found among triples.      *)
(* They keep nothing of their own: an edge, a share, a verdict, the mark   *)
(* of a revocation or of a resolution is a triple like any other, and a    *)
(* triple about a triple has the id of that one as the value of its        *)
(* subject or object.                                                      *)
(*                                                                         *)
(* A triple is its content <<subject, predicate, object>>, which is also   *)
(* its id, as in the program, and of its weight counts whether it is zero. *)
(* A handler takes no lock: each call of the store is a step; but a node   *)
(* once stored stays, so that looking it up is taken together with the     *)
(* call that uses it, and storing two nodes is one step.                   *)
(***************************************************************************)
EXTENDS Naturals, Sequences

CONSTANTS
    Client, None,
    Fact,           \* the triples users insert, stored to begin with
    Did,            \* verifiers, and who is trusted or shared with
    Verdict,        \* confirmed, contradicted, uncertain
    Reason,         \* reasonings, and None
    Revocable,      \* the triples revocations name
    Contested,      \* the pairs of triples resolutions name
    Moment,         \* times of day
    MaxRequests     \* bound: requests that write or remove

(* What the list of verifications has read of one of them so far. *)
VerificationEntry == [of : Did \X {"verifies"} \X Fact, known : BOOLEAN, verdict : Verdict \cup {None}]

(* Users leave the predicates of the tools to the tools. *)
ToolPredicates ==
    {"trusts", "shareable_with", "verifies", "verification_result", "verification_reasoning",
     "retracted_by", "retracted_at", "tension_resolved_with", "tension_resolution_action",
     "tension_resolution_reasoning"}

SocialToolsAssumption ==
    /\ \A t \in Fact : t[2] \notin ToolPredicates
    /\ None \notin Verdict /\ None \notin VerificationEntry

VARIABLES
    nodes, triples, \* what is stored
    zero,           \* those of the triples whose local_weight is zero
    task,           \* what each client's handler is at, or None
    said,           \* history: the verifications submitted, also half-way
    sure,           \* history: those that were acknowledged
    revoked, resolved,  \* history: revocations and resolutions, also half-way
    requests        \* how many of these so far

history == <<said, sure, revoked, resolved>>
vars == <<nodes, triples, zero, task, history, requests>>

(* What a handler stores for a triple: its two nodes, and then itself, as  *)
(* new.  Or it writes back the copy it has read, without its weight or     *)
(* with a tenth of it, which is zero if the copy's was.                    *)
Call(ends, written, weight) == <<[nodes |-> ends, triples |-> written, weight |-> weight]>>
Storing(t) == Call({t[1], t[3]}, {}, "new") \o Call({}, {t}, "new")
Zeroed(t) == Call({}, {t}, "none")
Lightened(t) == Call({}, {t}, "copy")

Verification == [by : Did, of : Fact, verdict : Verdict, reason : Reason]
VerifyTriple(v) == <<v.by, "verifies", v.of>>
ResultTriple(v) == <<VerifyTriple(v), "verification_result", v.verdict>>
ReasonTriple(v) == <<VerifyTriple(v), "verification_reasoning", v.reason>>

(* A word as the value of a node. *)
Word(w) == <<w>>

Revocation == [of : Revocable, at : Moment]
RetractedBy(r) == <<r.of, "retracted_by", Word("local")>>
RetractedAt(r) == <<r.of, "retracted_at", r.at>>

Resolution ==
    [pair : Contested, action : {"keep_a", "keep_b", "archive_both", "keep_both"}, why : Reason \ {None}]
ResolvedWith(q) == <<q.pair[1], "tension_resolved_with", q.pair[2]>>
ActionTriple(q) == <<ResolvedWith(q), "tension_resolution_action", Word(q.action)>>
WhyTriple(q) == <<ResolvedWith(q), "tension_resolution_reasoning", q.why>>

Idle == [plan |-> <<>>, submits |-> None, resolves |-> None, light |-> {}, of |-> None, left |-> {},
         entry |-> None, entries |-> {}, due |-> {}, ended |-> "no"]

Init ==
    /\ triples = Fact
    /\ nodes = UNION {{t[1], t[3]} : t \in Fact}
    /\ zero = {}
    /\ task = [c \in Client |-> None]
    /\ said = {} /\ sure = {} /\ revoked = {} /\ resolved = {} /\ requests = 0

-----------------------------------------------------------------------------
(* Requests that write, as the calls they make. *)

Begins(c, k) ==
    /\ task[c] = None /\ requests < MaxRequests
    /\ task' = [task EXCEPT ![c] = k]
    /\ requests' = requests + 1
    /\ UNCHANGED <<nodes, triples, zero, sure>>

Writes(c, plan, verification) ==
    Begins(c, [Idle EXCEPT !.plan = plan, !.submits = verification])

TrustEdgeCreate(c, from, to) ==
    Writes(c, Storing(<<from, "trusts", to>>), None) /\ UNCHANGED <<said, revoked, resolved>>

(* Whether there is such a triple is not asked. *)
ShareCreate(c, t, recipient) ==
    Writes(c, Storing(<<t, "shareable_with", recipient>>), None) /\ UNCHANGED <<said, revoked, resolved>>

VerificationSubmit(c, v) ==
    /\ v.of \in triples
    /\ Writes(c, Storing(VerifyTriple(v)) \o Storing(ResultTriple(v))
                     \o (IF v.reason = None THEN <<>> ELSE Storing(ReasonTriple(v))), v)
    /\ said' = said \cup {v}
    /\ UNCHANGED <<revoked, resolved>>

(* Whether the triple is a share is not asked. *)
ShareRevoke(c, r) ==
    /\ r.of \in triples
    /\ Writes(c, Storing(RetractedBy(r)) \o Storing(RetractedAt(r)) \o Zeroed(r.of), None)
    /\ revoked' = revoked \cup {r}
    /\ UNCHANGED <<said, resolved>>

(* The two triples are read, one after the other; whether they are in      *)
(* tension is not asked.                                                   *)
TensionResolve(c, q) ==
    /\ q.pair[1] \in triples
    /\ Begins(c, [Idle EXCEPT !.resolves = q, !.light = {q.pair[1]} \cap zero])
    /\ resolved' = resolved \cup {q}
    /\ UNCHANGED <<said, revoked>>

Written(q) ==
    LET a == Lightened(q.pair[1])  b == Lightened(q.pair[2]) IN
    [keep_a |-> b, keep_b |-> a, archive_both |-> a \o b, keep_both |-> <<>>][q.action]

ReadOther(c) ==
    /\ task[c] # None /\ task[c].resolves # None
    /\ LET q == task[c].resolves IN
       IF q.pair[2] \notin triples THEN task' = [task EXCEPT ![c] = None]
       ELSE task' = [task EXCEPT
                ![c].resolves = None, ![c].light = @ \cup ({q.pair[2]} \cap zero),
                ![c].plan = Written(q) \o Storing(ResolvedWith(q))
                                \o Storing(ActionTriple(q)) \o Storing(WhyTriple(q))]
    /\ UNCHANGED <<nodes, triples, zero, history, requests>>

Put(c) ==
    /\ task[c] # None /\ task[c].plan # <<>>
    /\ LET call == Head(task[c].plan) IN
       /\ nodes' = nodes \cup call.nodes
       /\ triples' = triples \cup call.triples
       /\ zero' = CASE call.weight = "new" -> zero \ call.triples
                    [] call.weight = "none" -> zero \cup call.triples
                    [] call.weight = "copy" -> (zero \ call.triples) \cup (call.triples \cap task[c].light)
    /\ task' = [task EXCEPT ![c].plan = Tail(@)]
    /\ UNCHANGED <<history, requests>>

Acknowledge(c) ==
    /\ task[c] # None /\ task[c].plan = <<>> /\ task[c].resolves = None
    /\ task[c].ended = "no" /\ task[c].of = None
    /\ sure' = sure \cup ({task[c].submits} \ {None})
    /\ task' = [task EXCEPT ![c] = None]
    /\ UNCHANGED <<nodes, triples, zero, said, revoked, resolved, requests>>

Needed(v) == {VerifyTriple(v), ResultTriple(v)}

(* Maintenance, or a request to delete; the nodes stay. *)
Remove(t) ==
    /\ t \in triples /\ requests < MaxRequests
    /\ triples' = triples \ {t} /\ zero' = zero \ {t} /\ requests' = requests + 1
    /\ task' = [c \in Client |->
           IF task[c] = None THEN None
           ELSE [task[c] EXCEPT !.due = {v \in @ : t \notin Needed(v)}]]
    /\ UNCHANGED <<nodes, history>>

-----------------------------------------------------------------------------
(* The list of the verifications of a triple. *)

Reading == UNCHANGED <<nodes, triples, zero, history, requests>>
Verifying(t) == {u \in triples : u[2] = "verifies" /\ u[3] = t}
Objects(s, predicate) == {u[3] : u \in {w \in triples : w[1] = s /\ w[2] = predicate}}

VerificationList(c, t) ==
    /\ task[c] = None
    /\ task' = [task EXCEPT ![c] =
           [Idle EXCEPT !.of = t, !.left = IF t \in nodes THEN Verifying(t) ELSE {},
                        !.due = {v \in sure : v.of = t /\ Needed(v) \subseteq triples}]]
    /\ Reading

(* The first result there is, in the order of the store; or an empty one. *)
ReadResult(c, u) ==
    /\ task[c] # None /\ task[c].entry = None /\ task[c].ended = "no"
    /\ u \in task[c].left
    /\ LET results == IF u \in nodes THEN Objects(u, "verification_result") ELSE {} IN
       IF u[1] \notin nodes THEN task' = [task EXCEPT ![c].ended = "failed"]
       ELSE \E r \in IF results = {} THEN {None} ELSE results :
           task' = [task EXCEPT ![c].left = @ \ {u}, 
                               ![c].entry = [of |-> u, known |-> u \in nodes, verdict |-> r]]
    /\ Reading

(* The first reasoning; which result it came with is not asked. *)
ReadReason(c) ==
    /\ task[c] # None /\ task[c].entry # None
    /\ LET e == task[c].entry
           reasons == IF e.known THEN Objects(e.of, "verification_reasoning") ELSE {}
       IN \E why \in IF reasons = {} THEN {None} ELSE reasons :
           task' = [task EXCEPT ![c].entry = None,
               ![c].entries = @ \cup {[by |-> e.of[1], verdict |-> e.verdict, reason |-> why]}]
    /\ Reading

Listed(c) ==
    /\ task[c] # None /\ task[c].of # None /\ task[c].ended = "no"
    /\ task[c].left = {} /\ task[c].entry = None
    /\ task' = [task EXCEPT ![c].ended = "ok"]
    /\ Reading

Replied(c) ==
    /\ task[c] # None /\ task[c].ended # "no"
    /\ task' = [task EXCEPT ![c] = None]
    /\ Reading

-----------------------------------------------------------------------------
(* Lists that take the triples as they are at one moment. *)

Shares == {<<t[1], t[3]>> : t \in {u \in triples : u[2] = "shareable_with"}}

ManyValued == {"knows", "likes", "trusts", "shareable_with", "verifies", "supersedes"}
Tensions ==
    {pair \in (triples \ zero) \X (triples \ zero) :
        /\ pair[1][1] = pair[2][1] /\ pair[1][2] = pair[2][2]
        /\ pair[1][3] # pair[2][3]
        /\ pair[1][2] \notin ManyValued}

Next ==
    \/ \E c \in Client :
           \/ \E a, b \in Did : a # b /\ TrustEdgeCreate(c, a, b)
           \/ \E t \in Fact, a \in Did : ShareCreate(c, t, a)
           \/ \E v \in Verification : VerificationSubmit(c, v)
           \/ \E r \in Revocation : ShareRevoke(c, r)
           \/ \E q \in Resolution : TensionResolve(c, q)
           \/ ReadOther(c) \/ Put(c) \/ Acknowledge(c)
           \/ \E t \in Fact : VerificationList(c, t)
           \/ \E u \in triples : ReadResult(c, u)
           \/ ReadReason(c) \/ Listed(c) \/ Replied(c)
    \/ \E t \in triples : Remove(t)

Spec == Init /\ [][Next]_vars

-----------------------------------------------------------------------------
(***************************************************************************)
(* A list of verifications never fails; what it says was said, although a  *)
(* verdict and a reasoning of one verifier may come from different         *)
(* submissions; and every verification that was acknowledged before the    *)
(* request, and of which nothing was removed since, has its verifier in    *)
(* the list with some verdict.                                             *)
(***************************************************************************)
VerificationsTold == \A c \in Client :
    LET r == task[c] IN
    r # None =>
        /\ r.ended # "failed"
        /\ \A e \in r.entries :
               /\ \E v \in said : v.by = e.by /\ v.of = r.of /\ e.verdict \in {None, v.verdict}
               /\ \E v \in said : v.by = e.by /\ v.of = r.of /\ e.reason \in {None, v.reason}
        /\ r.ended = "ok" =>
               \A v \in r.due : \E e \in r.entries : e.by = v.by /\ e.verdict # None

(***************************************************************************)
(* A tension is between two facts, or between what was said of one thing   *)
(* at two times: one verifier's verdicts or reasonings on one triple, two  *)
(* revocations of one triple, two resolutions that begin with one triple.  *)
(* Verifiers who disagree, edges and shares are none.  And what is in      *)
(* tension, facts or two acknowledged verdicts, is found while both are    *)
(* stored, unless a revocation named one of them; resolving a tension, or  *)
(* revoking something else, hides none.                                    *)
(***************************************************************************)
SelfContradicted(pair) ==
    \E v, w \in said :
        /\ VerifyTriple(v) = VerifyTriple(w) /\ v # w
        /\ pair \in {<<ResultTriple(v), ResultTriple(w)>>, <<ReasonTriple(v), ReasonTriple(w)>>}

RevokedTwice(pair) ==
    \E r, q \in revoked : r.of = q.of /\ r.at # q.at /\ pair = <<RetractedAt(r), RetractedAt(q)>>

ResolvedTwice(pair) ==
    \E p, q \in resolved :
        /\ p.pair[1] = q.pair[1] /\ p # q
        /\ pair \in {<<ResolvedWith(p), ResolvedWith(q)>>, <<ActionTriple(p), ActionTriple(q)>>,
                     <<WhyTriple(p), WhyTriple(q)>>}

Opposed ==
    {pair \in Fact \X Fact :
        /\ pair[1][1] = pair[2][1] /\ pair[1][2] = pair[2][2] /\ pair[1][3] # pair[2][3]
        /\ pair[1][2] \notin ManyValued}
    \cup {<<ResultTriple(v[1]), ResultTriple(v[2])>> :
             v \in {w \in sure \X sure : /\ VerifyTriple(w[1]) = VerifyTriple(w[2])
                                        /\ w[1].verdict # w[2].verdict}}

TensionsReal ==
    /\ \A pair \in Tensions :
           pair \in Fact \X Fact \/ SelfContradicted(pair) \/ RevokedTwice(pair) \/ ResolvedTwice(pair)
    /\ \A pair \in Opposed :
           /\ {pair[1], pair[2]} \subseteq triples
           /\ \A r \in revoked : r.of \notin {pair[1], pair[2]}
           => pair \in Tensions

(* A share is between a triple's id and someone, and only where one was made. *)
SharesNamed == \A s \in Shares : s \in Fact \X Did /\ {s[1], s[2]} \subseteq nodes

Told == VerificationsTold /\ TensionsReal /\ SharesNamed
=============================================================================
