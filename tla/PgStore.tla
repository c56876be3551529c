------------------------------- MODULE PgStore -------------------------------
(***************************************************************************)
(* The triple store on PostgreSQL (engine/src/storage/postgres.rs).  A     *)
(* statement is a step and no operation opens a transaction: one of        *)
(* several statements interleaves with every other.  What a statement does *)
(* is the database's, under the constraints the schema declares: the ends  *)
(* of a triple and both sides of a link must be stored, and the links of a *)
(* triple go with it.                                                      *)
(*                                                                         *)
(* Ids are made from content, so that a triple that was removed may be     *)
(* inserted again under its id.  Weights are whole numbers of some unit.   *)
(***************************************************************************)
EXTENDS Naturals, Sequences

CONSTANTS
    Caller, Node, Source, None,
    Ends,           \* the two nodes of each triple: a function
    Full,           \* the full weight
    Threshold,      \* what evictions and the least weight of a decay may ask
    Listing,        \* the triples a source may list: sequences
    MaxBirths       \* bound: how often a triple is inserted

VARIABLES
    nodes, triples, sources, links,     \* the tables
    job,            \* a caller between two statements of an operation
    born,           \* history: how often each triple was inserted
    linkedTo,       \* history: the insertion of the triple each link was made to
    promised        \* history: the links reported as made, with that insertion

tables == <<nodes, triples, sources, links>>
history == <<born, linkedTo, promised>>
vars == <<tables, job, history>>

Triple == DOMAIN Ends
Weight == 0..Full
Stored == {t \in Triple : triples[t] # None}

PgStoreAssumption ==
    /\ {Full, MaxBirths} \cup Threshold \subseteq Nat
    /\ None \notin Weight
    /\ \A t \in Triple : Ends[t] \in Node \X Node
    /\ Listing \subseteq Seq(Triple)

TypeOK ==
    /\ nodes \subseteq Node
    /\ triples \in [Triple -> Weight \cup {None}]
    /\ \A t \in Stored : Ends[t][1] \in nodes /\ Ends[t][2] \in nodes
    /\ sources \subseteq Source
    /\ links \subseteq sources \X Stored
    /\ DOMAIN linkedTo = links

Init ==
    /\ nodes = {} /\ triples = [t \in Triple |-> None] /\ sources = {} /\ links = {}
    /\ job = [c \in Caller |-> None]
    /\ born = [t \in Triple |-> 0] /\ linkedTo = <<>> /\ promised = {}

Starts(c, operation) == job[c] = None /\ job' = [job EXCEPT ![c] = operation]
Is(c, op) == job[c] # None /\ job[c].op = op
Done(c) == job' = [job EXCEPT ![c] = None]

-----------------------------------------------------------------------------
(* Nodes. *)

InsertNode(c, n) ==
    /\ job[c] = None
    /\ nodes' = nodes \cup {n}
    /\ UNCHANGED <<triples, sources, links, job, history>>

(* A node that was not found is inserted by a second statement. *)
FindOrCreateNode(c, n) ==
    /\ n \notin nodes
    /\ Starts(c, [op |-> "create", node |-> n])
    /\ UNCHANGED <<tables, history>>

CreateNode(c) ==
    /\ Is(c, "create")
    /\ nodes' = nodes \cup {job[c].node}
    /\ Done(c)
    /\ UNCHANGED <<triples, sources, links, history>>

-----------------------------------------------------------------------------
(* Triples. *)

InsertTriple(c, t) ==
    /\ job[c] = None /\ triples[t] = None /\ born[t] < MaxBirths
    /\ {Ends[t][1], Ends[t][2]} \subseteq nodes
    /\ triples' = [triples EXCEPT ![t] = Full]
    /\ born' = [born EXCEPT ![t] = @ + 1]
    /\ UNCHANGED <<nodes, sources, links, job, linkedTo, promised>>

(* A row that is not there is not updated, and the caller is not told. *)
UpdateTriple(c, t, w) ==
    /\ job[c] = None /\ t \in Stored
    /\ triples' = [triples EXCEPT ![t] = w]
    /\ UNCHANGED <<nodes, sources, links, job, history>>

TouchTriple(c, t) == UpdateTriple(c, t, Full)

Without_Links(gone) ==
    /\ triples' = [t \in Triple |-> IF t \in gone THEN None ELSE triples[t]]
    /\ UNCHANGED <<links, linkedTo>>

(* Rows go, and the schema takes their links along. *)
Without(gone) ==
    /\ triples' = [t \in Triple |-> IF t \in gone THEN None ELSE triples[t]]
    /\ links' = {l \in links : l[2] \notin gone}
    /\ linkedTo' = [l \in links' |-> linkedTo[l]]

DeleteTriple(c, t) ==
    /\ job[c] = None /\ t \in Stored
    /\ Without({t})
    /\ UNCHANGED <<nodes, sources, job, born, promised>>

EvictBelowWeight(c, threshold) ==
    /\ job[c] = None
    /\ Without({t \in Stored : triples[t] < threshold})
    /\ UNCHANGED <<nodes, sources, job, born, promised>>

(* Halved, but not below the least; what is below it is left. *)
Decay(c, least) ==
    /\ job[c] = None
    /\ triples' = [t \in Triple |->
           IF t \in Stored /\ triples[t] >= least
           THEN IF triples[t] \div 2 > least THEN triples[t] \div 2 ELSE least
           ELSE triples[t]]
    /\ UNCHANGED <<nodes, sources, links, job, history>>

-----------------------------------------------------------------------------
(* A source: its row, and then one statement per triple it lists.  A triple *)
(* that is gone by then fails the operation, and what it wrote stays.       *)

InsertSource(c, s, l) ==
    /\ Starts(c, [op |-> "link", source |-> s, rest |-> l, made |-> {}])
    /\ sources' = sources \cup {s}
    /\ UNCHANGED <<nodes, triples, links, history>>

Link(c) ==
    LET l == <<job[c].source, Head(job[c].rest)>> IN
    /\ Is(c, "link") /\ job[c].rest # <<>> /\ l[2] \in Stored
    /\ links' = links \cup {l}
    /\ linkedTo' = [k \in links' |-> IF k \in links THEN linkedTo[k] ELSE born[l[2]]]
    /\ job' = [job EXCEPT ![c].rest = Tail(@), ![c].made = @ \cup {<<l, born[l[2]]>>}]
    /\ UNCHANGED <<nodes, triples, sources, born, promised>>

LinkFails(c) ==
    /\ Is(c, "link") /\ job[c].rest # <<>> /\ Head(job[c].rest) \notin Stored
    /\ Done(c)
    /\ UNCHANGED <<tables, history>>

SourceInserted(c) ==
    /\ Is(c, "link") /\ job[c].rest = <<>>
    /\ promised' = promised \cup job[c].made
    /\ Done(c)
    /\ UNCHANGED <<tables, born, linkedTo>>

-----------------------------------------------------------------------------
(* Reads.  The provenance of a triple is one statement for its sources and  *)
(* one for the triples of each.                                             *)

QueryTriples(subject, object) ==
    {t \in Stored : /\ subject \in {None, Ends[t][1]}
                    /\ object \in {None, Ends[t][2]}}

SourcesOf(t) == {s \in sources : <<s, t>> \in links}

(* The statement of neighbors refers to its own result within a subquery,   *)
(* which PostgreSQL refuses: every depth but zero is answered by an error.  *)
Neighbors(n, depth) == IF depth = 0 THEN {} ELSE None

-----------------------------------------------------------------------------
Next == \E c \in Caller :
    \/ \E n \in Node : InsertNode(c, n) \/ FindOrCreateNode(c, n)
    \/ CreateNode(c)
    \/ \E t \in Triple :
           \/ InsertTriple(c, t) \/ TouchTriple(c, t) \/ DeleteTriple(c, t)
           \/ \E w \in Weight : UpdateTriple(c, t, w)
    \/ \E w \in Threshold : EvictBelowWeight(c, w) \/ Decay(c, w)
    \/ \E s \in Source, l \in Listing : InsertSource(c, s, l)
    \/ Link(c) \/ LinkFails(c) \/ SourceInserted(c)

Spec == Init /\ [][Next]_vars

-----------------------------------------------------------------------------
(***************************************************************************)
(* A source that was reported as inserted is found with every triple it    *)
(* lists for as long as that triple stays, however many statements lay     *)
(* between; and a triple inserted again begins with no provenance: none of *)
(* its links was made to an earlier insertion of it.                       *)
(***************************************************************************)
LinksKept ==
    /\ \A p \in promised : LET l == p[1]  birth == p[2] IN
           l[2] \in Stored /\ born[l[2]] = birth => l[1] \in SourcesOf(l[2])
    /\ \A l \in links : linkedTo[l] = born[l[2]] /\ l[2] \in Stored
=============================================================================
