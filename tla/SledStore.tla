------------------------------ MODULE SledStore ------------------------------
(***************************************************************************)
(* The embedded persistent store (engine/src/storage/sled_store.rs).       *)
(*                                                                         *)
(* SledStore keeps a primary tree `triples`, three index trees (spo, pos,  *)
(* osp) and the junction tree `triple_sources`.  Every call of sled is     *)
(* atomic, but no transaction spans two calls, and the store is shared     *)
(* without a lock: ValenceEngine holds it as an Arc<dyn TripleStore> that  *)
(* HTTP handlers, MCP tools and maintenance use at the same time.  Each    *)
(* action below is therefore ONE call on ONE tree, and a client between    *)
(* two calls can be overtaken by any other.                                *)
(*                                                                         *)
(* Triples are content addressed (models/triple.rs), so a triple's id      *)
(* fixes its subject, predicate and object, hence its three index keys: an *)
(* index tree is represented by the set of ids it holds.                   *)
(***************************************************************************)
EXTENDS Integers, FiniteSets

CONSTANTS
    Triple,     \* ids of the triples clients work with
    Source,     \* ids of provenance records, each inserted at most once
    Client,     \* concurrent callers of the store
    Ops,        \* the operations clients may call
    Full,       \* local_weight of a new or touched triple (1.0), in units
    Threshold,  \* threshold of evict_below_weight, in the same units
    Absent      \* "this key is not in the tree"

AllOps == {"insert", "update", "touch", "delete", "source", "decay", "evict"}

ASSUME SledAssumption ==
    /\ Ops \subseteq AllOps
    /\ Full \in Nat \ {0}
    /\ Threshold \in Nat
    /\ Absent \notin Nat

Weight == 0..Full
Stored == Weight \cup {Absent}

(* The index trees, in the order insert_indices and remove_indices visit them. *)
Tree == 1..3
SPO == 1
POS == 2
OSP == 3

VARIABLES
    triples,    \* triples tree: id -> local_weight of the record, or Absent
    index,      \* index trees: tree -> ids that have an entry
    sources,    \* sources tree: ids of the records it holds
    junction,   \* triple_sources tree: <<triple, source>> keys
    job         \* the operation each client is in the middle of

trees == <<triples, index, sources, junction>>
vars == <<triples, index, sources, junction, job>>

(***************************************************************************)
(* A client's local state.  at names the next call it makes; id is the     *)
(* triple at hand, val the record it will write, k the next index tree,    *)
(* scan the keys an iteration has not visited, todo the triples collected  *)
(* for eviction or linking, batch decay's pending writes, keys the         *)
(* junction entries to remove and src the source being linked.             *)
(***************************************************************************)
None == "none"
NoBatch == [t \in Triple |-> Absent]
At == {"idle", "index", "unindex", "write", "erase", "collect", "unlink",
       "rewrite", "scan", "apply", "next", "link"}

Job == [op : AllOps \cup {None}, at : At, id : Triple \cup {None}, val : Stored,
        k : Tree, scan : SUBSET Triple, todo : SUBSET Triple,
        batch : [Triple -> Stored], keys : SUBSET Source,
        src : Source \cup {None}]

Idle == [op |-> None, at |-> "idle", id |-> None, val |-> Absent, k |-> SPO,
         scan |-> {}, todo |-> {}, batch |-> NoBatch, keys |-> {}, src |-> None]

TypeOK ==
    /\ triples \in [Triple -> Stored]
    /\ index \in [Tree -> SUBSET Triple]
    /\ sources \in SUBSET Source
    /\ junction \in SUBSET (Triple \X Source)
    /\ job \in [Client -> Job]

Init ==
    /\ triples = [t \in Triple |-> Absent]
    /\ index = [x \in Tree |-> {}]
    /\ sources = {}
    /\ junction = {}
    /\ job = [c \in Client |-> Idle]

Present == {t \in Triple : triples[t] # Absent}
SourcesOf(t) == {s \in Source : <<t, s>> \in junction}
Start(c, op) == op \in Ops /\ job[c].at = "idle"

-----------------------------------------------------------------------------
(* insert_triple: write the record, then one entry per index tree. *)
InsertTriple(c, t, w) ==
    /\ Start(c, "insert")
    /\ triples' = [triples EXCEPT ![t] = w]
    /\ job' = [job EXCEPT ![c] = [Idle EXCEPT !.op = "insert", !.at = "index", !.id = t]]
    /\ UNCHANGED <<index, sources, junction>>

(* insert_indices: the next of the three index insertions. *)
InsertIndex(c) ==
    LET j == job[c] IN
    /\ j.at = "index"
    /\ index' = [index EXCEPT ![j.k] = @ \cup {j.id}]
    /\ job' = [job EXCEPT ![c] = IF j.k = OSP THEN Idle ELSE [j EXCEPT !.k = @ + 1]]
    /\ UNCHANGED <<triples, sources, junction>>

(* remove_indices: the next of the three index removals. *)
RemoveIndex_PastOSP(c) ==       \* mutant: goes one tree too far
    LET j == job[c] IN
    /\ j.at = "unindex"
    /\ index' = [index EXCEPT ![j.k] = @ \ {j.id}]
    /\ job' = [job EXCEPT ![c] = [j EXCEPT !.k = @ + 1]]
    /\ UNCHANGED <<triples, sources, junction>>

RemoveIndex(c) ==
    LET j == job[c]
        after == IF j.op = "update" THEN "write" ELSE "erase"
    IN
    /\ j.at = "unindex"
    /\ index' = [index EXCEPT ![j.k] = @ \ {j.id}]
    /\ job' = [job EXCEPT ![c] = IF j.k = OSP THEN [j EXCEPT !.at = after]
                                              ELSE [j EXCEPT !.k = @ + 1]]
    /\ UNCHANGED <<triples, sources, junction>>

(* update_triple: old index entries go only if an old record was read. *)
UpdateTriple(c, t, w) ==
    /\ Start(c, "update")
    /\ job' = [job EXCEPT ![c] = [Idle EXCEPT
                 !.op = "update", !.id = t, !.val = w,
                 !.at = IF t \in Present THEN "unindex" ELSE "write"]]
    /\ UNCHANGED trees

WriteUpdated_NoReindex(c) ==    \* mutant: update_triple ends with the record
    LET j == job[c] IN
    /\ j.at = "write"
    /\ triples' = [triples EXCEPT ![j.id] = j.val]
    /\ job' = [job EXCEPT ![c] = Idle]
    /\ UNCHANGED <<index, sources, junction>>

WriteUpdated(c) ==
    LET j == job[c] IN
    /\ j.at = "write"
    /\ triples' = [triples EXCEPT ![j.id] = j.val]
    /\ job' = [job EXCEPT ![c] = [j EXCEPT !.at = "index", !.k = SPO]]
    /\ UNCHANGED <<index, sources, junction>>

(* touch_triple: read the record, then write back the reinforced copy. *)
TouchTriple(c, t) ==
    /\ Start(c, "touch")
    /\ t \in Present
    /\ job' = [job EXCEPT ![c] = [Idle EXCEPT !.op = "touch", !.at = "rewrite", !.id = t]]
    /\ UNCHANGED trees

WriteTouched(c) ==
    /\ job[c].at = "rewrite"
    /\ triples' = [triples EXCEPT ![job[c].id] = Full]
    /\ job' = [job EXCEPT ![c] = Idle]
    /\ UNCHANGED <<index, sources, junction>>

-----------------------------------------------------------------------------
(* delete_triple: nothing unless a record was read. *)
DeleteTriple(c, t) ==
    /\ Start(c, "delete")
    /\ t \in Present
    /\ job' = [job EXCEPT ![c] = [Idle EXCEPT !.op = "delete", !.at = "unindex", !.id = t]]
    /\ UNCHANGED trees

EraseTriple(c) ==
    LET j == job[c] IN
    /\ j.at = "erase"
    /\ triples' = [triples EXCEPT ![j.id] = Absent]
    /\ job' = [job EXCEPT ![c] = [j EXCEPT !.at = "collect"]]
    /\ UNCHANGED <<index, sources, junction>>

(* Where a removal goes once its triple is gone: the next victim, or done. *)
AfterRemoval(j) == IF j.todo = {} THEN Idle
                   ELSE [j EXCEPT !.at = "next", !.id = None, !.keys = {}]

(* Scan the junction prefix of the triple ... *)
CollectSources(c) ==
    LET j == job[c]
        found == SourcesOf(j.id)
    IN
    /\ j.at = "collect"
    /\ job' = [job EXCEPT ![c] = IF found = {} THEN AfterRemoval(j)
                                 ELSE [j EXCEPT !.at = "unlink", !.keys = found]]
    /\ UNCHANGED trees

(* ... and remove the keys it found one by one. *)
UnlinkSource(c) ==
    LET j == job[c] IN
    /\ j.at = "unlink"
    /\ \E s \in j.keys :
        /\ junction' = junction \ {<<j.id, s>>}
        /\ job' = [job EXCEPT ![c] = IF j.keys = {s} THEN AfterRemoval(j)
                                     ELSE [j EXCEPT !.keys = @ \ {s}]]
    /\ UNCHANGED <<triples, index, sources>>

-----------------------------------------------------------------------------
(* insert_source: the record, then a junction entry per triple it names;   *)
(* no call checks that those triples are stored.                           *)
InsertSource_NoRecord(c, s, ts) ==      \* mutant: only the junction is written
    /\ Start(c, "source")
    /\ s \notin sources
    /\ job' = [job EXCEPT ![c] = [Idle EXCEPT !.op = "source", !.at = "link",
                                              !.todo = ts, !.src = s]]
    /\ UNCHANGED trees

InsertSource(c, s, ts) ==
    /\ Start(c, "source")
    /\ s \notin sources
    /\ sources' = sources \cup {s}
    /\ job' = [job EXCEPT ![c] = [Idle EXCEPT !.op = "source", !.at = "link",
                                              !.todo = ts, !.src = s]]
    /\ UNCHANGED <<triples, index, junction>>

LinkSource(c) ==
    LET j == job[c] IN
    /\ j.at = "link"
    /\ \E t \in j.todo :
        /\ junction' = junction \cup {<<t, j.src>>}
        /\ job' = [job EXCEPT ![c] = IF j.todo = {t} THEN Idle
                                     ELSE [j EXCEPT !.todo = @ \ {t}]]
    /\ UNCHANGED <<triples, index, sources>>

-----------------------------------------------------------------------------
(* decay and evict_below_weight iterate the primary tree first.  The       *)
(* iteration is not a snapshot: each key is read when it is reached, in    *)
(* key order, which is a hash order (any order here).                      *)
Sweep(c, op) ==
    /\ Start(c, op)
    /\ op \in {"decay", "evict"}
    /\ job' = [job EXCEPT ![c] = [Idle EXCEPT !.op = op, !.at = "scan", !.scan = Triple]]
    /\ UNCHANGED trees

Decayed(w) == w \div 2

DecayVisit_NotLast(c, t) ==     \* mutant: the last key visited is left out
    LET j == job[c]
        batch == IF t \in Present /\ j.scan # {t}
                 THEN [j.batch EXCEPT ![t] = Decayed(triples[t])] ELSE j.batch
    IN
    /\ j.at = "scan" /\ j.op = "decay" /\ t \in j.scan
    /\ job' = [job EXCEPT ![c] = [j EXCEPT
                 !.scan = @ \ {t}, !.batch = batch,
                 !.at = IF j.scan = {t} THEN "apply" ELSE "scan"]]
    /\ UNCHANGED trees

DecayVisit(c, t) ==
    LET j == job[c]
        batch == IF t \in Present
                 THEN [j.batch EXCEPT ![t] = Decayed(triples[t])] ELSE j.batch
    IN
    /\ j.at = "scan" /\ j.op = "decay" /\ t \in j.scan
    /\ job' = [job EXCEPT ![c] = [j EXCEPT
                 !.scan = @ \ {t}, !.batch = batch,
                 !.at = IF j.scan = {t} THEN "apply" ELSE "scan"]]
    /\ UNCHANGED trees

(* apply_batch is atomic, but it writes copies read during the iteration. *)
ApplyDecay(c) ==
    LET batch == job[c].batch IN
    /\ job[c].at = "apply"
    /\ triples' = [t \in Triple |-> IF batch[t] # Absent THEN batch[t] ELSE triples[t]]
    /\ job' = [job EXCEPT ![c] = Idle]
    /\ UNCHANGED <<index, sources, junction>>

EvictVisit(c, t) ==
    LET j == job[c]
        todo == IF t \in Present /\ triples[t] < Threshold
                THEN j.todo \cup {t} ELSE j.todo
    IN
    /\ j.at = "scan" /\ j.op = "evict" /\ t \in j.scan
    /\ job' = [job EXCEPT ![c] = IF j.scan # {t} THEN [j EXCEPT !.scan = @ \ {t}, !.todo = todo]
                                 ELSE AfterRemoval([j EXCEPT !.scan = {}, !.todo = todo])]
    /\ UNCHANGED trees

(* The second loop of evict_below_weight takes the victims one at a time. *)
NextVictim(c) ==
    LET j == job[c] IN
    /\ j.at = "next"
    /\ \E t \in j.todo :
        job' = [job EXCEPT ![c] = [j EXCEPT !.at = "unindex", !.id = t, !.k = SPO, !.todo = @ \ {t}]]
    /\ UNCHANGED trees

-----------------------------------------------------------------------------
Step(c) ==
    \/ \E t \in Triple, w \in Weight : InsertTriple(c, t, w) \/ UpdateTriple(c, t, w)
    \/ \E t \in Triple : TouchTriple(c, t) \/ DeleteTriple(c, t)
    \/ \E s \in Source, ts \in SUBSET Triple \ {{}} : InsertSource(c, s, ts)
    \/ \E op \in AllOps : Sweep(c, op)
    \/ \E t \in Triple : DecayVisit(c, t) \/ EvictVisit(c, t)
    \/ InsertIndex(c) \/ RemoveIndex(c) \/ WriteUpdated(c) \/ WriteTouched(c)
    \/ EraseTriple(c) \/ CollectSources(c) \/ UnlinkSource(c) \/ LinkSource(c)
    \/ ApplyDecay(c) \/ NextVictim(c)

Next == \E c \in Client : Step(c)

Spec == Init /\ [][Next]_vars

-----------------------------------------------------------------------------
(* query_triples: by an index tree it looks up the ids found there and     *)
(* drops those without a record; the wildcard query scans the records.     *)
Query(x, pattern) == {t \in index[x] \cap pattern : triples[t] # Absent}
QueryAll(pattern) == Present \cap pattern

(* An operation is at work on t from its first to its last index or record *)
(* access; a sweep is at work on the triple it is removing, not on the     *)
(* whole list it collected.                                                *)
WorkingOn(c, t) == job[c].id = t /\ job[c].at \in {"index", "unindex", "write", "erase"}
Settled(t) == \A c \in Client : ~WorkingOn(c, t)

(***************************************************************************)
(* A stored triple that no operation is at work on is found by subject,    *)
(* by predicate and by object exactly as the wildcard query finds it: the  *)
(* order of the tree writes in insert_triple, update_triple, delete_triple *)
(* and evict_below_weight never strands a record without its index entries.*)
(***************************************************************************)
QueriesAgree ==
    \A x \in Tree, t \in QueryAll(Triple) : Settled(t) => t \in Query(x, {t})

(***************************************************************************)
(* get_sources_for_triple finds a record behind every junction entry: a    *)
(* source is written before the entries that name it and never removed.    *)
(***************************************************************************)
JunctionResolves == \A e \in junction : e[2] \in sources

-----------------------------------------------------------------------------
(***************************************************************************)
(* Why QueriesAgree holds.  touch_triple and decay write back copies read  *)
(* earlier without touching the index trees; that is harmless as long as   *)
(* the record cannot have been removed in between.                         *)
(***************************************************************************)
SafeMix == Ops \cap {"touch", "decay"} = {} \/ Ops \cap {"delete", "evict"} = {}

(* Client c has yet to give t its entry in tree x, or to rewrite or erase  *)
(* the record whose entry it removed.                                      *)
WillSettle(c, t, x) ==
    /\ job[c].id = t
    /\ \/ job[c].at = "index" /\ job[c].k <= x
       \/ job[c].at = "unindex" /\ x < job[c].k
       \/ job[c].at \in {"write", "erase"}

AccountedAt(t) ==
    \A x \in Tree :
        triples[t] # Absent => t \in index[x] \/ \E c \in Client : WillSettle(c, t, x)

Accounted == \A t \in Triple : AccountedAt(t)

(* The program points of each operation. *)
Legal(op, at) ==
    \/ op = None /\ at = "idle"
    \/ op = "insert" /\ at = "index"
    \/ op = "update" /\ at \in {"unindex", "write", "index"}
    \/ op = "touch" /\ at = "rewrite"
    \/ op = "source" /\ at = "link"
    \/ op = "decay" /\ at \in {"scan", "apply"}
    \/ op = "delete" /\ at \in {"unindex", "erase", "collect", "unlink", "next"}
    \/ op = "evict" /\ at \in {"scan", "next", "unindex", "erase", "collect", "unlink"}

JobsLegal ==
    \A c \in Client :
        /\ job[c].op \in Ops \cup {None} /\ Legal(job[c].op, job[c].at)
        /\ job[c].at \notin {"idle", "scan", "apply", "next", "link"} => job[c].id \in Triple
        /\ job[c].at = "link" => job[c].src \in Source
        /\ job[c].op = "update" => job[c].val \in Weight

(* If nothing is ever removed, the copies touch and decay hold are of      *)
(* records that are still stored.                                          *)
CopiesLive ==
    Ops \cap {"delete", "evict"} = {} =>
        \A c \in Client :
            /\ job[c].at = "rewrite" => triples[job[c].id] # Absent
            /\ \A t \in Triple : job[c].batch[t] # Absent => triples[t] # Absent

IInv == TypeOK /\ JobsLegal /\ CopiesLive /\ Accounted
=============================================================================
