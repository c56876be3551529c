-------------------------- MODULE FeedbackRecorder --------------------------
(***************************************************************************)
(* The history of usage feedback and its two indexes                       *)
(* (engine/src/inference/feedback.rs), filled by submit_feedback and read  *)
(* by the statistics of a triple.  The history and each index have a lock  *)
(* of their own: recording takes the three one after the other, so that    *)
(* the recordings of several requests interleave.                          *)
(*                                                                         *)
(* A feedback is its number in the order of the requests, which is also    *)
(* the order of the timestamps.  Identifiers and the quality score are     *)
(* left out.                                                               *)
(***************************************************************************)
EXTENDS Naturals, Sequences, FiniteSets

CONSTANTS
    Triple, Context,
    Listing,        \* what a feedback may say: sequences of [triple, signal]
    MaxHistory,     \* the length at which the history is pruned (10 000)
    PruneShare,     \* it loses one of so many (10), at most MaxHistory + 1
    MaxFeedback     \* bound: the feedback submitted

VARIABLES
    given,          \* what was submitted
    stage,          \* how far the recording of each feedback is
    history,        \* the numbers in the history
    contextIndex,   \* per context, the numbers pushed
    tripleIndex     \* per triple, the numbers pushed

vars == <<given, stage, history, contextIndex, tripleIndex>>

Signal == {"cited", "relevant", "ignored", "misleading"}
Feedback == DOMAIN given

FeedbackRecorderAssumption ==
    /\ \A l \in Listing : l \in Seq([triple : Triple, signal : Signal])
    /\ MaxHistory \in Nat /\ PruneShare \in 1 .. MaxHistory + 1

TypeOK ==
    /\ given \in Seq([context : Context, triples : Listing])
    /\ stage \in [Feedback -> {"submitted", "stored", "found", "done"}]
    /\ history \subseteq Feedback
    /\ contextIndex \in [Context -> Seq(Feedback)]
    /\ tripleIndex \in [Triple -> Seq(Feedback)]

Init ==
    /\ given = <<>> /\ stage = <<>> /\ history = {}
    /\ contextIndex = [c \in Context |-> <<>>]
    /\ tripleIndex = [t \in Triple |-> <<>>]

Submit ==
    /\ Len(given) < MaxFeedback
    /\ \E c \in Context, l \in Listing :
           given' = Append(given, [context |-> c, triples |-> l])
    /\ stage' = Append(stage, "submitted")
    /\ UNCHANGED <<history, contextIndex, tripleIndex>>

Goes(f, from, to) == f \in Feedback /\ stage[f] = from /\ stage' = [stage EXCEPT ![f] = to]

-----------------------------------------------------------------------------
(* Recording, one lock after the other. *)

Oldest(h, n) == {f \in h : Cardinality({g \in h : g < f}) < n}

Pruned(h) ==
    IF Cardinality(h) > MaxHistory THEN h \ Oldest(h, Cardinality(h) \div PruneShare) ELSE h

Store(f) ==
    /\ Goes(f, "submitted", "stored")
    /\ history' = Pruned(history \cup {f})
    /\ UNCHANGED <<given, contextIndex, tripleIndex>>

IndexContext_Replaces(f) ==
    /\ Goes(f, "stored", "found")
    /\ contextIndex' = [contextIndex EXCEPT ![given[f].context] = <<f>>]
    /\ UNCHANGED <<given, history, tripleIndex>>

IndexContext(f) ==
    /\ Goes(f, "stored", "found")
    /\ contextIndex' = [contextIndex EXCEPT ![given[f].context] = Append(@, f)]
    /\ UNCHANGED <<given, history, tripleIndex>>

(* The places where a feedback lists a triple, with one of some signals. *)
Places(f, t, signals) ==
    {i \in DOMAIN given[f].triples :
        given[f].triples[i].triple = t /\ given[f].triples[i].signal \in signals}
Times(f, t, signals) == Cardinality(Places(f, t, signals))

(* A triple listed twice has the feedback pushed twice. *)
IndexTriples(f) ==
    /\ Goes(f, "found", "done")
    /\ tripleIndex' = [t \in Triple |->
           tripleIndex[t] \o [i \in 1 .. Times(f, t, Signal) |-> f]]
    /\ UNCHANGED <<given, history, contextIndex>>

-----------------------------------------------------------------------------
(* Reading.  An index is read, and then the history under its own lock; the *)
(* answers are stated here for an index and a history of one moment, as the *)
(* places of the index whose feedback is still in the history.              *)

Kept(ids) == {i \in DOMAIN ids : ids[i] \in history}
ContextFeedback(c) == Kept(contextIndex[c])
TripleFeedback(t) == Kept(tripleIndex[t])

(* The statistics count, in each event found, every place that lists t. *)
TripleStats(t) ==
    [s \in Signal |->
        Cardinality(UNION {{i} \X Places(tripleIndex[t][i], t, {s}) : i \in TripleFeedback(t)})]

-----------------------------------------------------------------------------
Next ==
    \/ Submit
    \/ \E f \in Feedback : Store(f) \/ IndexContext(f) \/ IndexTriples(f)

Spec == Init /\ [][Next]_vars

-----------------------------------------------------------------------------
(* The places of an index that hold f. *)
Holding(f, ids) == {i \in DOMAIN ids : ids[i] = f}

(***************************************************************************)
(* Once recorded, and as long as it is kept, a feedback is found by its    *)
(* context once and by each triple as often as it lists it; and where no   *)
(* feedback lists a triple twice, the statistics of the triple count every *)
(* kept feedback once.  Recordings under way may be at any step.           *)
(***************************************************************************)
Recorded == {f \in history : stage[f] = "done"}
ListedOnce(t) == \A f \in Feedback : Times(f, t, Signal) <= 1

FeedbackFound ==
    /\ \A f \in Recorded :
           /\ LET c == given[f].context IN
              Cardinality(ContextFeedback(c) \cap Holding(f, contextIndex[c])) = 1
           /\ \A t \in Triple :
                  Cardinality(TripleFeedback(t) \cap Holding(f, tripleIndex[t])) = Times(f, t, Signal)
    /\ \A t \in Triple, s \in Signal :
           ListedOnce(t) =>
               TripleStats(t)[s] = Cardinality({f \in Recorded : Times(f, t, {s}) = 1})
    /\ Cardinality(history) <= MaxHistory
=============================================================================
