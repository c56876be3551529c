----------------------------- MODULE TieredStore -----------------------------
(***************************************************************************)
(* The tiered store (engine/src/tiered_store/store.rs) in the one          *)
(* configuration that builds, without a cold tier: a MemoryStore, and      *)
(* beside it the set of hot triples and the metadata of each.  An          *)
(* operation changes the store first and then, holding the lock of the     *)
(* metadata while it waits for the other, metadata and hot set.            *)
(*                                                                         *)
(* Weights are left out: what an eviction takes is arbitrary.  Nothing is  *)
(* ever found in the cold tier, so that promote is not reached.            *)
(***************************************************************************)
EXTENDS FiniteSets

CONSTANTS
    Caller,     \* concurrent callers
    Triple,     \* ids of triples
    None        \* "nobody", "no metadata"

ASSUME TieredAssumption == None \notin Caller \cup Triple \cup {"hot", "cold"}

VARIABLES
    hot,        \* the triples in the MemoryStore
    hotTriples, \* those the tiered store believes are
    metadata,   \* the tier each is said to be in, or None
    idle,       \* those not accessed since the cutoff of the sweep
    metaLock,   \* who holds the metadata across an await
    job,        \* what each caller does next
    overtaken   \* history: stored again in the middle of their removal

tiered == <<hot, hotTriples, metadata, idle>>
vars == <<tiered, metaLock, job, overtaken>>

(* `at` is the step that comes next, `t` the triple it is about, `todo`    *)
(* what a sweep has still to demote, or a query to record.                 *)
Job == [at : {"done", "insertMeta", "insertHot", "lookup", "removeMeta", "removeHot",
              "demote", "deleteHot", "record"},
        t : Triple \cup {None}, todo : SUBSET Triple, tier : {"cold", None}]
Done == [at |-> "done", t |-> None, todo |-> {}, tier |-> None]

TypeOK ==
    /\ hot \in SUBSET Triple /\ hotTriples \in SUBSET Triple
    /\ overtaken \in SUBSET hot
    /\ metadata \in [Triple -> {"hot", "cold", None}]
    /\ idle \in SUBSET {t \in Triple : metadata[t] # None}
    /\ metaLock \in Caller \cup {None}
    /\ job \in [Caller -> Job]
    /\ \A c \in Caller : (metaLock = c) = (job[c].at \in {"insertHot", "removeHot"})

Init ==
    /\ hot = {} /\ hotTriples = {} /\ idle = {} /\ overtaken = {}
    /\ metadata = [t \in Triple |-> None]
    /\ metaLock = None
    /\ job = [c \in Caller |-> Done]

-----------------------------------------------------------------------------
Goto(c, next) == job' = [job EXCEPT ![c] = next]
At(c, step) == job[c].at = step

(* The callers that have deleted t, but not taken it off the books yet. *)
Removers(t) == {c \in Caller : job[c].at \in {"removeMeta", "removeHot"} /\ job[c].t = t}
Restored(t) == IF Removers(t) # {} THEN overtaken \cup {t} ELSE overtaken

Accessed(t) ==
    /\ metaLock = None
    /\ metadata' = [metadata EXCEPT ![t] = IF @ = None THEN "cold" ELSE @]
    /\ idle' = idle \ {t}

-----------------------------------------------------------------------------
(* insert_triple                                                           *)
Insert(c, t) ==
    /\ At(c, "done")
    /\ hot' = hot \cup {t} /\ overtaken' = Restored(t)
    /\ Goto(c, [Done EXCEPT !.at = "insertMeta", !.t = t])
    /\ UNCHANGED <<hotTriples, metadata, idle, metaLock>>

InsertMeta(c) ==
    /\ At(c, "insertMeta") /\ metaLock = None
    /\ metadata' = [metadata EXCEPT ![job[c].t] = "hot"]
    /\ idle' = idle \ {job[c].t}
    /\ metaLock' = c
    /\ Goto(c, [job[c] EXCEPT !.at = "insertHot"])
    /\ UNCHANGED <<hot, hotTriples, overtaken>>

InsertHot_Forgets(c) ==     \* mutant: only the metadata is written
    /\ At(c, "insertHot")
    /\ metaLock' = None /\ Goto(c, Done)
    /\ UNCHANGED <<tiered, overtaken>>

InsertHot(c) ==
    /\ At(c, "insertHot")
    /\ hotTriples' = hotTriples \cup {job[c].t}
    /\ overtaken' = IF Removers(job[c].t) = {} THEN overtaken \ {job[c].t} ELSE overtaken
    /\ metaLock' = None /\ Goto(c, Done)
    /\ UNCHANGED <<hot, metadata, idle>>

-----------------------------------------------------------------------------
(* get_triple and touch_triple record the access before they look; a query *)
(* records it for everything it has found, whether or not it is still      *)
(* there.                                                                  *)
Get(c, t) ==
    /\ At(c, "done")
    /\ Accessed(t)
    /\ Goto(c, [Done EXCEPT !.at = "lookup", !.t = t])
    /\ UNCHANGED <<hot, hotTriples, metaLock, overtaken>>

Lookup(c) ==
    /\ At(c, "lookup")
    /\ Goto(c, Done)
    /\ UNCHANGED <<tiered, metaLock, overtaken>>

Query(c) ==
    /\ At(c, "done")
    /\ \E found \in SUBSET hot \ {{}} : Goto(c, [Done EXCEPT !.at = "record", !.todo = found])
    /\ UNCHANGED <<tiered, metaLock, overtaken>>

Record(c) ==
    /\ At(c, "record")
    /\ \E t \in job[c].todo :
        /\ Accessed(t)
        /\ Goto(c, IF job[c].todo = {t} THEN Done ELSE [job[c] EXCEPT !.todo = @ \ {t}])
    /\ UNCHANGED <<hot, hotTriples, metaLock, overtaken>>

(* update_triple: an error unless the triple is believed to be hot; then   *)
(* the store takes the new version, even if it had lost the old one.       *)
Update(c, t) ==
    /\ At(c, "done") /\ t \in hotTriples
    /\ hot' = hot \cup {t} /\ overtaken' = IF t \in hot THEN overtaken ELSE Restored(t)
    /\ UNCHANGED <<hotTriples, metadata, idle, metaLock, job>>

-----------------------------------------------------------------------------
(* delete_triple, and demote, which without a cold tier ends the same way. *)
Delete(c, t) ==
    /\ At(c, "done")
    /\ hot' = hot \ {t} /\ overtaken' = overtaken \ {t}
    /\ Goto(c, [Done EXCEPT !.at = "removeMeta", !.t = t])
    /\ UNCHANGED <<hotTriples, metadata, idle, metaLock>>

RemoveMeta_LetsGo(c) ==     \* mutant: the metadata is unlocked before the hot set is locked
    /\ At(c, "removeMeta") /\ metaLock = None
    /\ metadata' = [metadata EXCEPT ![job[c].t] = IF @ = None THEN None ELSE job[c].tier]
    /\ idle' = {t \in idle : metadata'[t] # None}
    /\ Goto(c, [job[c] EXCEPT !.at = "removeHot"])
    /\ UNCHANGED <<hot, hotTriples, metaLock, overtaken>>

RemoveMeta(c) ==
    /\ At(c, "removeMeta") /\ metaLock = None
    /\ metadata' = [metadata EXCEPT ![job[c].t] = IF @ = None THEN None ELSE job[c].tier]
    /\ idle' = {t \in idle : metadata'[t] # None}
    /\ metaLock' = c
    /\ Goto(c, [job[c] EXCEPT !.at = "removeHot"])
    /\ UNCHANGED <<hot, hotTriples, overtaken>>

NextDemotion(c) ==
    IF job[c].todo = {} THEN Done ELSE [Done EXCEPT !.at = "demote", !.todo = job[c].todo]

RemoveHot_KeepsLock(c) ==   \* mutant: the guard of the metadata outlives the call
    /\ At(c, "removeHot")
    /\ hotTriples' = hotTriples \ {job[c].t}
    /\ Goto(c, NextDemotion(c))
    /\ UNCHANGED <<hot, metadata, idle, metaLock, overtaken>>

RemoveHot(c) ==
    /\ At(c, "removeHot")
    /\ hotTriples' = hotTriples \ {job[c].t}
    /\ metaLock' = None
    /\ Goto(c, NextDemotion(c))
    /\ UNCHANGED <<hot, metadata, idle, overtaken>>

-----------------------------------------------------------------------------
(* run_demotion_sweep with an idle timeout: the list is made first, and a  *)
(* triple on it that the store has lost ends the sweep with an error.      *)
Sweep(c) ==
    /\ At(c, "done") /\ metaLock = None
    /\ LET found == {t \in idle : metadata[t] = "hot"} IN
        /\ found # {}
        /\ Goto(c, [Done EXCEPT !.at = "demote", !.todo = found])
    /\ UNCHANGED <<tiered, metaLock, overtaken>>

Demote(c) ==
    /\ At(c, "demote")
    /\ \E t \in job[c].todo :
        LET rest == [job[c] EXCEPT !.todo = @ \ {t}] IN
        IF t \notin hotTriples
        THEN Goto(c, IF rest.todo = {} THEN Done ELSE rest)
        ELSE \/ t \in hot /\ Goto(c, [rest EXCEPT !.at = "deleteHot", !.t = t])
             \/ t \notin hot /\ Goto(c, Done)
    /\ UNCHANGED <<tiered, metaLock, overtaken>>

DeleteHot(c) ==
    /\ At(c, "deleteHot")
    /\ hot' = hot \ {job[c].t} /\ overtaken' = overtaken \ {job[c].t}
    /\ Goto(c, [job[c] EXCEPT !.at = "removeMeta", !.tier = "cold"])
    /\ UNCHANGED <<hotTriples, metadata, idle, metaLock>>

(* evict_below_weight tells the store alone. *)
Evict ==
    /\ \E gone \in SUBSET hot \ {{}} : hot' = hot \ gone /\ overtaken' = overtaken \ gone
    /\ UNCHANGED <<hotTriples, metadata, idle, metaLock, job>>

TimePasses ==
    /\ idle' = {t \in Triple : metadata[t] # None}
    /\ idle # idle'
    /\ UNCHANGED <<hot, hotTriples, metadata, metaLock, job, overtaken>>

Next ==
    \/ Evict \/ TimePasses
    \/ \E c \in Caller :
        \/ \E t \in Triple : Insert(c, t) \/ Get(c, t) \/ Update(c, t) \/ Delete(c, t)
        \/ InsertMeta(c) \/ InsertHot(c) \/ Lookup(c) \/ Query(c) \/ Record(c)
        \/ RemoveMeta(c) \/ RemoveHot(c) \/ Sweep(c) \/ Demote(c) \/ DeleteHot(c)

Spec == Init /\ [][Next]_vars

-----------------------------------------------------------------------------
(***************************************************************************)
(* A stored triple that nobody is at work on is believed to be hot, so     *)
(* that get_triple finds it: unless it was stored again while a deletion   *)
(* or demotion of it was under way (then only queries find it).            *)
(***************************************************************************)
AtWork(t) == \E c \in Caller : job[c].t = t /\ job[c].at \notin {"done", "lookup"}

StoredFound == \A t \in hot : t \in hotTriples \/ t \in overtaken \/ AtWork(t)

(***************************************************************************)
(* However insertions, removals, sweeps and recorded accesses interleave,  *)
(* whoever can read the metadata sees the tier that the hot set says.      *)
(***************************************************************************)
TierAgrees == metaLock = None => hotTriples = {t \in Triple : metadata[t] = "hot"}
=============================================================================
