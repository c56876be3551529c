------------------------------ MODULE Stigmergy ------------------------------
(***************************************************************************)
(* The access tracker and the co-retrieval engine (engine/src/stigmergy):  *)
(* queries and positive feedback record which triples were used together,  *)
(* and reinforcement cycles connect the nodes of pairs used together often *)
(* enough.  The tracker has a lock for its window of events and another    *)
(* for its counts; recording takes the first, releases it, and then takes  *)
(* the second.                                                             *)
(*                                                                         *)
(* The ids recorded at once are a set: a repeated id only adds a pair of a *)
(* triple with itself, which connects nothing.  Ids are numbers, for the   *)
(* tracker orders them.  Feedback may name ids that are not stored.        *)
(***************************************************************************)
EXTENDS Integers, Sequences, FiniteSets

CONSTANTS
    Triple,         \* ids of triples
    Node,
    Ends,           \* Ends[t]: the subject and the object of triple t
    Recorder,       \* concurrent callers of record_access
    Maintainer,     \* concurrent reinforcement or maintenance cycles
    WindowSize,     \* window_size
    Threshold,      \* threshold
    Accesses,       \* the sets of triples that are used together
    Volatile,       \* the triples that come and go; the others stay stored
    MaxCount,       \* bound: no access is recorded that would count a pair further
    MaxNow          \* bound: how often decay_hours can pass

ASSUME StigmergyAssumption ==
    /\ Triple \subseteq Nat
    /\ Ends \in [Triple -> Node \X Node]
    /\ Accesses \subseteq SUBSET Triple \ {{}}
    /\ Volatile \subseteq Triple
    /\ {WindowSize, Threshold, MaxCount, MaxNow} \subseteq Nat
    /\ IsFiniteSet(Recorder)

Pair == {p \in Triple \X Triple : p[1] < p[2]}

VARIABLES
    stored,     \* the triples in the store
    edges,      \* the co-retrieval triples in the store: <<subject, object>>
    window,     \* AccessTracker.events
    counts,     \* AccessTracker.co_access_counts; 0 where there is no entry
    now,        \* time, in units of decay_hours
    asking,     \* per recorder: what it is recording
    job,        \* per maintainer: what its cycle has still to do
    raced       \* history: an event has left the window before it was counted

tracker == <<window, counts, raced>>
vars == <<stored, edges, tracker, now, asking, job>>

Quiet == [at |-> "idle", ids |-> {}, stamp |-> 0]
Idle == [at |-> "idle", pairs |-> {}, todo |-> <<>>, decays |-> FALSE]

TypeOK ==
    /\ stored \in SUBSET Triple
    /\ edges \in SUBSET (Node \X Node)
    /\ \A i \in DOMAIN window :
        window[i] \in [ids : SUBSET Triple, stamp : 0..MaxNow, by : Recorder, counted : BOOLEAN]
    /\ Len(window) <= WindowSize
    /\ counts \in [Pair -> Nat]
    /\ now \in 0..MaxNow
    /\ asking \in [Recorder -> [at : {"idle", "push", "count"}, ids : SUBSET Triple, stamp : 0..MaxNow]]
    /\ \A m \in Maintainer :
        /\ job[m].at \in {"idle", "pairs", "check", "insert", "decay"}
        /\ job[m].pairs \subseteq Pair /\ job[m].decays \in BOOLEAN
        /\ \A i \in DOMAIN job[m].todo : job[m].todo[i] \in Node \X Node
    /\ raced \in BOOLEAN

Init ==
    /\ stored = Triple \ Volatile /\ edges = {}
    /\ window = <<>>
    /\ counts = [p \in Pair |-> 0]
    /\ now = 0
    /\ asking = [c \in Recorder |-> Quiet]
    /\ job = [m \in Maintainer |-> Idle]
    /\ raced = FALSE

-----------------------------------------------------------------------------
(* The access tracker.                                                     *)
PairsOf(ids) == Pair \cap (ids \X ids)

IncrementPairs(ids) == [p \in Pair |-> counts[p] + (IF p \in PairsOf(ids) THEN 1 ELSE 0)]

(* A count that would become zero is removed, one that is not there stays so. *)
DecrementPairs_NoFloor(ids) ==  \* mutant
    [p \in Pair |-> counts[p] - (IF p \in PairsOf(ids) THEN 1 ELSE 0)]

DecrementPairs(ids) ==
    [p \in Pair |-> counts[p] - (IF p \in PairsOf(ids) /\ counts[p] > 0 THEN 1 ELSE 0)]

(* The lock on the events is held from the first event removed to the last. *)
EventsFree == \A m \in Maintainer : job[m].at # "decay"

RecordAccess(c) ==
    /\ asking[c].at = "idle"
    /\ \E ids \in Accesses :
        /\ \A p \in PairsOf(ids) : counts[p] < MaxCount
        /\ asking' = [asking EXCEPT ![c] = [at |-> "push", ids |-> ids, stamp |-> now]]
    /\ UNCHANGED <<stored, edges, tracker, now, job>>

Event(c) == [ids |-> asking[c].ids, stamp |-> asking[c].stamp, by |-> c, counted |-> FALSE]

Push_TakesNew(c) ==     \* mutant: the new event's pairs are taken off, not the old one's
    LET full == Append(window, Event(c))
        over == Len(full) > WindowSize
    IN
    /\ asking[c].at = "push" /\ EventsFree
    /\ window' = IF over THEN Tail(full) ELSE full
    /\ counts' = IF over THEN DecrementPairs(asking[c].ids) ELSE counts
    /\ raced' = (raced \/ (over /\ ~Head(full).counted))
    /\ asking' = [asking EXCEPT ![c].at = "count"]
    /\ UNCHANGED <<stored, edges, now, job>>

Push(c) ==
    LET full == Append(window, Event(c))
        over == Len(full) > WindowSize
    IN
    /\ asking[c].at = "push" /\ EventsFree
    /\ window' = IF over THEN Tail(full) ELSE full
    /\ counts' = IF over THEN DecrementPairs(Head(full).ids) ELSE counts
    /\ raced' = (raced \/ (over /\ ~Head(full).counted))
    /\ asking' = [asking EXCEPT ![c].at = "count"]
    /\ UNCHANGED <<stored, edges, now, job>>

Count(c) ==
    /\ asking[c].at = "count"
    /\ counts' = IncrementPairs(asking[c].ids)
    /\ window' = [i \in DOMAIN window |->
                    IF window[i].by = c THEN [window[i] EXCEPT !.counted = TRUE] ELSE window[i]]
    /\ asking' = [asking EXCEPT ![c] = Quiet]
    /\ UNCHANGED <<stored, edges, now, job, raced>>

Clear ==
    /\ EventsFree
    /\ window' = <<>>
    /\ counts' = [p \in Pair |-> 0]
    /\ raced' = (raced \/ \E i \in DOMAIN window : ~window[i].counted)
    /\ UNCHANGED <<stored, edges, now, asking, job>>

-----------------------------------------------------------------------------
(* Reinforcement and maintenance cycles.                                   *)
Start(m) ==
    /\ job[m].at = "idle"
    /\ \E decays \in BOOLEAN :
        job' = [job EXCEPT ![m] = [Idle EXCEPT !.at = "pairs", !.decays = decays,
                                               !.pairs = {p \in Pair : counts[p] >= Threshold}]]
    /\ UNCHANGED <<stored, edges, tracker, now, asking>>

(* Subject to subject and object to object, where they differ. *)
Link(a, b) == IF a = b THEN <<>> ELSE <<<<a, b>>>>
Links(p) == Link(Ends[p[1]][1], Ends[p[2]][1]) \o Link(Ends[p[1]][2], Ends[p[2]][2])

(* A triple that is not there ends the whole cycle, its decay included. *)
Connect(m) ==
    /\ job[m].at = "pairs"
    /\ \E p \in job[m].pairs :
        job' = [job EXCEPT ![m] =
            IF {p[1], p[2]} \subseteq stored
            THEN [@ EXCEPT !.at = "check", !.pairs = job[m].pairs \ {p}, !.todo = Links(p)]
            ELSE Idle]
    /\ UNCHANGED <<stored, edges, tracker, now, asking>>

EdgeExists_Forward(e) == e \in edges    \* mutant: one direction only
EdgeExists(e) == e \in edges \/ <<e[2], e[1]>> \in edges

Check(m) ==
    /\ job[m].at = "check"
    /\ job' = [job EXCEPT ![m] =
                IF @.todo = <<>> THEN [@ EXCEPT !.at = "pairs"]
                ELSE IF EdgeExists(Head(@.todo)) THEN [@ EXCEPT !.todo = Tail(job[m].todo)]
                ELSE [@ EXCEPT !.at = "insert"]]
    /\ UNCHANGED <<stored, edges, tracker, now, asking>>

InsertEdge(m) ==
    /\ job[m].at = "insert"
    /\ edges' = edges \cup {Head(job[m].todo)}
    /\ job' = [job EXCEPT ![m].at = "check", ![m].todo = Tail(@)]
    /\ UNCHANGED <<stored, tracker, now, asking>>

EndReinforce(m) ==
    /\ job[m].at = "pairs" /\ job[m].pairs = {}
    /\ job[m].decays => EventsFree
    /\ job' = [job EXCEPT ![m] = IF @.decays THEN [@ EXCEPT !.at = "decay"] ELSE Idle]
    /\ UNCHANGED <<stored, edges, tracker, now, asking>>

(* apply_decay stops at the first event that is young enough. *)
Outdated == window # <<>> /\ Head(window).stamp < now

DropOld_Uncounted(m) ==     \* mutant: the pairs of the event stay counted
    /\ job[m].at = "decay" /\ Outdated
    /\ window' = Tail(window)
    /\ raced' = (raced \/ ~Head(window).counted)
    /\ UNCHANGED <<stored, edges, counts, now, asking, job>>

DropOld(m) ==
    /\ job[m].at = "decay" /\ Outdated
    /\ window' = Tail(window)
    /\ counts' = DecrementPairs(Head(window).ids)
    /\ raced' = (raced \/ ~Head(window).counted)
    /\ UNCHANGED <<stored, edges, now, asking, job>>

EndDecay(m) ==
    /\ job[m].at = "decay" /\ ~Outdated
    /\ job' = [job EXCEPT ![m] = Idle]
    /\ UNCHANGED <<stored, edges, tracker, now, asking>>

-----------------------------------------------------------------------------
(* The store's other callers, and time.                                    *)
Insert(t) == stored' = stored \cup {t} /\ UNCHANGED <<edges, tracker, now, asking, job>>
Evict(t) == stored' = stored \ {t} /\ UNCHANGED <<edges, tracker, now, asking, job>>
EvictEdge(e) == edges' = edges \ {e} /\ UNCHANGED <<stored, tracker, now, asking, job>>

Tick ==
    /\ now < MaxNow
    /\ now' = now + 1
    /\ UNCHANGED <<stored, edges, tracker, asking, job>>

Record(c) == Push(c) \/ Count(c)
Cycle(m) ==
    \/ Connect(m) \/ Check(m) \/ InsertEdge(m) \/ EndReinforce(m) \/ DropOld(m) \/ EndDecay(m)

Next ==
    \/ Clear \/ Tick
    \/ \E c \in Recorder : RecordAccess(c) \/ Record(c)
    \/ \E m \in Maintainer : Start(m) \/ Cycle(m)
    \/ \E t \in Volatile : Insert(t) \/ Evict(t)
    \/ \E e \in edges : EvictEdge(e)

Spec == Init /\ [][Next]_vars

-----------------------------------------------------------------------------
Together(p) == {i \in DOMAIN window : p \in PairsOf(window[i].ids)}
Settled == \A c \in Recorder : asking[c].at # "count"

(***************************************************************************)
(* A pair never counts less than the window holds, whatever overlaps: what *)
(* is used together often enough is not passed over by reinforcement once  *)
(* the recordings under way are counted.                                   *)
(***************************************************************************)
CountsCover ==
    \A p \in Pair :
        counts[p] + Cardinality({c \in Recorder : asking[c].at = "count" /\ p \in PairsOf(asking[c].ids)})
            >= Cardinality(Together(p))

(***************************************************************************)
(* get_co_access_count: "how many times the two triples have been accessed *)
(* together within the sliding window", as long as no event was pushed out *)
(* of the window before its own pairs were counted.                        *)
(***************************************************************************)
CountsExact == Settled /\ ~raced => \A p \in Pair : counts[p] = Cardinality(Together(p))

(***************************************************************************)
(* One cycle at a time connects two nodes in one direction only, whatever  *)
(* pairs of triples it comes across.                                       *)
(***************************************************************************)
OneDirection == \A e \in edges : <<e[2], e[1]>> \notin edges
=============================================================================
