------------------------------ MODULE Springs -------------------------------
(***************************************************************************)
(* The vectors kept per strategy and the selector that says when to        *)
(* compute them anew (engine/src/embeddings/spring.rs,                     *)
(* strategy_selector.rs, and what engine.rs does with them).  An insertion *)
(* is counted and pulls the two nodes' spring vectors together; while      *)
(* insertions are frequent enough, but not too frequent, a batch is due.   *)
(* The selector's counter, flags and times are atomics and locks of their  *)
(* own: a decision reads them one after the other.                         *)
(*                                                                         *)
(* A vector is its node and its length.  Time goes by in ticks, and what   *)
(* counts of a rate is on which side of a threshold it lies.               *)
(***************************************************************************)
EXTENDS Integers, FiniteSets

CONSTANTS
    Node,
    Worker,         \* threads that insert, decide and compute
    Dimensions,     \* MultiEmbeddingStore.dimensions
    Asked,          \* dimensions batches are computed with
    Threshold,      \* inserts per tick from which a batch is due
    Burst,          \* inserts per tick from which none is
    RateWindow,     \* rate_window
    Cooldown,       \* ticks between two batches of a kind
    MaxCount,       \* bound: no insertion that would be counted further
    MaxAge          \* bound: a window is not told from an older one

Batch == {"node2vec", "spectral"}

SpringsAssumption ==
    /\ Asked \subseteq Nat \ {0}
    /\ {Dimensions, RateWindow, MaxCount, MaxAge} \subseteq Nat \ {0} /\ Cooldown \in Nat
    /\ Threshold \in [Batch -> Nat \ {0}] /\ Burst \in Nat
    /\ RateWindow <= MaxAge

VARIABLES
    known,      \* nodes with a triple in the store
    vectors,    \* MultiEmbeddingStore.embeddings, per strategy
    counter,    \* insert_counter
    age,        \* ticks since last_reset
    since,      \* per kind: ticks since last_node2vec, last_spectral
    pending,    \* pending_node2vec, pending_spectral
    job,        \* per worker
    raced       \* history, per kind: two decisions have found the flag down
                \* before either raised it

selector == <<counter, age, since, pending, raced>>
vars == <<known, vectors, selector, job>>

Idle == [at |-> "idle", kind |-> "node2vec", ends |-> {}, asked |-> Dimensions, view |-> {}, count |-> 0]
Site == {"idle", "window", "gather", "nudge", "clock", "flag", "last", "set", "queued", "view", "store",
         "complete", "stamp"}

TypeOK ==
    /\ known \subseteq Node
    /\ vectors \in [Batch \cup {"spring"} -> SUBSET known]
    /\ counter \in 0..MaxCount /\ age \in 0..MaxAge
    /\ since \in [Batch -> 0..Cooldown] /\ {pending, raced} \subseteq [Batch -> BOOLEAN]
    /\ \A w \in Worker :
        /\ job[w].at \in Site /\ job[w].kind \in Batch /\ job[w].count \in 0..MaxCount
        /\ job[w].ends \subseteq known /\ job[w].view \subseteq known

Init ==
    /\ known = {} /\ vectors = [s \in Batch \cup {"spring"} |-> {}]
    /\ counter = 0 /\ age = 0
    /\ since = [k \in Batch |-> Cooldown] /\ pending = [k \in Batch |-> FALSE]
    /\ job = [w \in Worker |-> Idle]
    /\ raced = [k \in Batch |-> FALSE]

Go(w, at) == job' = [job EXCEPT ![w].at = at]
End(w) == job' = [job EXCEPT ![w] = Idle]

-----------------------------------------------------------------------------
(* spring_nudge_on_insert, after the triple was stored: count it, begin a  *)
(* new window when this one is over, look at the neighbours' vectors under *)
(* the read guard, and write under the write guard.                        *)
RecordInsert(w) ==
    /\ job[w].at = "idle" /\ counter < MaxCount
    /\ \E s, o \in Node :
        /\ known' = known \cup {s, o}
        /\ job' = [job EXCEPT ![w].at = "window", ![w].ends = {s, o}]
    /\ counter' = counter + 1
    /\ UNCHANGED <<vectors, age, since, pending, raced>>

MaybeResetWindow(w) ==
    /\ job[w].at = "window"
    /\ IF age >= RateWindow THEN counter' = 0 /\ age' = 0 ELSE UNCHANGED <<counter, age>>
    /\ Go(w, "gather")
    /\ UNCHANGED <<known, vectors, since, pending, raced>>

(* A node without a vector gets one made of its neighbours' or of its id.  *)
SpringNudge(w) ==
    /\ \/ job[w].at = "gather" /\ Go(w, "nudge") /\ UNCHANGED vectors
       \/ job[w].at = "nudge" /\ End(w) /\ vectors' = [vectors EXCEPT !["spring"] = @ \cup job[w].ends]
    /\ UNCHANGED <<known, selector>>

-----------------------------------------------------------------------------
(* Is a batch of this kind due?                                            *)
Reaches(count, t) == IF age = 0 THEN count >= t ELSE count >= t * age
InRange(kind, count) == Reaches(count, Threshold[kind]) /\ ~Reaches(count, Burst)

ShouldRun(w, kind) ==
    /\ job[w].at = "idle"
    /\ job' = [job EXCEPT ![w] = [Idle EXCEPT !.at = "clock", !.kind = kind, !.count = counter]]
    /\ UNCHANGED <<known, vectors, selector>>

Yes(w, kind, at, next, holds) ==
    /\ job[w].at = at /\ job[w].kind = kind
    /\ IF holds THEN Go(w, next) ELSE End(w)

CheckRate(w) ==
    /\ Yes(w, job[w].kind, "clock", "flag", InRange(job[w].kind, job[w].count))
    /\ UNCHANGED <<known, vectors, selector>>

At(kind, sites) == {w \in Worker : job[w].kind = kind /\ job[w].at \in sites}
Meets(kind) == raced' = [raced EXCEPT ![kind] = @ \/ At(kind, {"last", "set"}) # {}]

CheckPending_Not(w) ==      \* mutant: the flag is not looked at
    /\ Yes(w, job[w].kind, "flag", "last", TRUE)
    /\ Meets(job[w].kind)
    /\ UNCHANGED <<known, vectors, counter, age, since, pending>>

CheckPending(w) ==
    /\ Yes(w, job[w].kind, "flag", "last", ~pending[job[w].kind])
    /\ IF pending[job[w].kind] THEN UNCHANGED raced ELSE Meets(job[w].kind)
    /\ UNCHANGED <<known, vectors, counter, age, since, pending>>

CheckCooldown(w) ==
    /\ Yes(w, job[w].kind, "last", "set", since[job[w].kind] >= Cooldown)
    /\ UNCHANGED <<known, vectors, selector>>

SetPending(w) ==
    /\ job[w].at = "set"
    /\ pending' = [pending EXCEPT ![job[w].kind] = TRUE]
    /\ Go(w, "queued")
    /\ UNCHANGED <<known, vectors, counter, age, since, raced>>

-----------------------------------------------------------------------------
(* recompute_spectral_multi and recompute_node2vec_multi: a vector of      *)
(* another length than the store's refuses the batch.                      *)
Compute(w) ==
    /\ \/ /\ job[w].at = "queued"
          /\ \E d \in Asked : job' = [job EXCEPT ![w].at = "view", ![w].asked = d]
       \/ /\ job[w].at = "view"
          /\ job' = [job EXCEPT ![w].at = "store", ![w].view = known]
    /\ UNCHANGED <<known, vectors, selector>>

Lesser(a, b) == IF a < b THEN a ELSE b
Length(j) == IF j.kind = "spectral" THEN Lesser(j.asked, Cardinality(j.view) - 1) ELSE j.asked

StoreBatch(w) ==
    /\ job[w].at = "store"
    /\ vectors' = IF Length(job[w]) = Dimensions
                  THEN [vectors EXCEPT ![job[w].kind] = @ \cup job[w].view] ELSE vectors
    /\ Go(w, "complete")
    /\ UNCHANGED <<known, selector>>

MarkComplete(w) ==
    /\ job[w].at = "complete"
    /\ pending' = [pending EXCEPT ![job[w].kind] = FALSE]
    /\ Go(w, "stamp")
    /\ UNCHANGED <<known, vectors, counter, age, since, raced>>

(* A decision holds the time it looked at until it is made. *)
MarkTime(w) ==
    /\ job[w].at = "stamp"
    /\ \A v \in Worker : ~(job[v].at = "set" /\ job[v].kind = job[w].kind)
    /\ since' = [since EXCEPT ![job[w].kind] = 0]
    /\ End(w)
    /\ UNCHANGED <<known, vectors, counter, age, pending, raced>>

Tick ==
    /\ age' = Lesser(age + 1, MaxAge)
    /\ since' = [k \in Batch |-> Lesser(since[k] + 1, Cooldown)]
    /\ UNCHANGED <<known, vectors, counter, pending, job, raced>>

Work(w) ==
    \/ RecordInsert(w) \/ MaybeResetWindow(w) \/ SpringNudge(w)
    \/ \E k \in Batch : ShouldRun(w, k)
    \/ CheckRate(w) \/ CheckPending(w) \/ CheckCooldown(w) \/ SetPending(w)
    \/ Compute(w) \/ StoreBatch(w) \/ MarkComplete(w) \/ MarkTime(w)

Next == Tick \/ \E w \in Worker : Work(w)

Spec == Init /\ [][Next]_vars

-----------------------------------------------------------------------------
(***************************************************************************)
(* The flag of a kind is never left up with no batch of it under way: that *)
(* would be the end of its batches.  As long as no two decisions found it  *)
(* down before either raised it, there is one batch of the kind at a time, *)
(* and the flag is up for all of it.                                       *)
(***************************************************************************)
Running(kind) == At(kind, {"queued", "view", "store", "complete"})

BatchesApart == \A k \in Batch :
    /\ pending[k] => Running(k) # {}
    /\ ~raced[k] => \A w \in Running(k) : pending[k] /\ Running(k) = {w}
=============================================================================
