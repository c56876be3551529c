------------------------------- MODULE Library -------------------------------
(***************************************************************************)
(* The components beside the engine's main paths that keep state of their  *)
(* own and a promise about it: the file of vectors, the vectors per        *)
(* strategy with their selector, the two stores on PostgreSQL, the read    *)
(* requests, the social tools, the feedback recorder, the blend tuner and  *)
(* the working set.  They share no state: a behaviour follows one of them  *)
(* (part), and the others stay as they begin.                              *)
(***************************************************************************)
EXTENDS Integers, Sequences

CONSTANTS
    None,
    Node, Strategy, Value, InitialCapacity, MaxSlots, MaxCrashes,           \* file
    Worker, Dimensions, Asked, Threshold, Burst, RateWindow, Cooldown,
    MaxCount, MaxAge,                                                       \* springs
    Caller, PgNode, PgEnds, Source, Full, Least, Listing, MaxBirths,        \* pgStore
    Session, Exchange, Pattern, Room, Time, Start,                          \* pgSessions
    Client, ReadNode, ReadEnds, Trusts, Edge, Depth, MaxDepth, PerNode,
    MaxWrites,                                                              \* reads
    Fact, Did, Verdict, Reason, Revocable, Contested, Moment, MaxRequests,  \* social
    Context, Given, MaxHistory, PruneShare, MaxFeedback,                    \* feedback
    Assembled, Preset, Attribution, Similarity, Rate, LeastShare, MaxUpdates,   \* blend
    Thread, Confidence, Recency, Activation, PruneThreshold,
    MostTriples, MostNodes, MaxItems                                        \* workingSet

VARIABLES
    part,
    mem, disk, capacity, durable, index, len, call, stored, spoilt, crashes,
    known, vectors, counter, age, since, pending, job, raced,
    rows, tripleRows, sources, links, statement, born, linkedTo, promised,
    sessions, exchanges, patterns, copy, emerging,
    nodes, triples, writing, writes, request, stable,
    names, facts, zero, task, said, sure, revoked, resolved, requests,
    given, stage, history, contextIndex, tripleIndex,
    weights, attributions, work,
    active, weighed, threads

File == INSTANCE VectorFile

Springs == INSTANCE Springs

PgTriples == INSTANCE PgStore WITH
    nodes <- rows, triples <- tripleRows, job <- statement,
    Node <- PgNode, Ends <- PgEnds, Threshold <- Least

PgVkb == INSTANCE PgSessions

Requests == INSTANCE Reads WITH Node <- ReadNode, Ends <- ReadEnds

Social == INSTANCE SocialTools WITH nodes <- names, triples <- facts, Client <- Caller

Feedback == INSTANCE FeedbackRecorder WITH Triple <- DOMAIN PgEnds, Listing <- Given

Blend == INSTANCE BlendTuner WITH
    Triple <- DOMAIN PgEnds, Context <- Assembled, Listing <- Given, Least <- LeastShare

Working == INSTANCE WorkingSet WITH
    nodes <- active, triples <- weighed,
    Node <- PgNode, Ends <- PgEnds, Threshold <- PruneThreshold

ASSUME LibraryAssumption ==
    /\ File!VectorFileAssumption /\ Springs!SpringsAssumption
    /\ PgTriples!PgStoreAssumption /\ PgVkb!PgSessionsAssumption
    /\ Requests!ReadsAssumption /\ Social!SocialToolsAssumption
    /\ Feedback!FeedbackRecorderAssumption /\ Blend!BlendTunerAssumption
    /\ Working!WorkingSetAssumption

fileVars == <<mem, disk, capacity, durable, index, len, call, stored, spoilt, crashes>>
springVars == <<known, vectors, counter, age, since, pending, job, raced>>
pgVars == <<rows, tripleRows, sources, links, statement, born, linkedTo, promised>>
vkbVars == <<sessions, exchanges, patterns, copy, emerging>>
readVars == <<nodes, triples, writing, writes, request, stable>>
socialVars == <<names, facts, zero, task, said, sure, revoked, resolved, requests>>
feedbackVars == <<given, stage, history, contextIndex, tripleIndex>>
blendVars == <<weights, attributions, work>>
workingVars == <<active, weighed, threads>>
learningVars == <<feedbackVars, blendVars, workingVars>>
vars == <<part, fileVars, springVars, pgVars, vkbVars, readVars, socialVars, learningVars>>

Init ==
    /\ part \in {"file", "springs", "pgStore", "pgSessions", "reads", "social",
                "feedback", "blend", "workingSet"}
    /\ File!Init /\ Springs!Init /\ PgTriples!Init /\ PgVkb!Init /\ Requests!Init /\ Social!Init
    /\ Feedback!Init /\ Blend!Init /\ Working!Init
    /\ part # "blend" => weights = CHOOSE p \in Preset : TRUE

Next ==
    /\ UNCHANGED part
    /\ \/ /\ part = "file" /\ File!Next
          /\ UNCHANGED <<springVars, pgVars, vkbVars, readVars, socialVars, learningVars>>
       \/ /\ part = "springs" /\ Springs!Next
          /\ UNCHANGED <<fileVars, pgVars, vkbVars, readVars, socialVars, learningVars>>
       \/ /\ part = "pgStore" /\ PgTriples!Next
          /\ UNCHANGED <<fileVars, springVars, vkbVars, readVars, socialVars, learningVars>>
       \/ /\ part = "pgSessions" /\ PgVkb!Next
          /\ UNCHANGED <<fileVars, springVars, pgVars, readVars, socialVars, learningVars>>
       \/ /\ part = "reads" /\ Requests!Next
          /\ UNCHANGED <<fileVars, springVars, pgVars, vkbVars, socialVars, learningVars>>
       \/ /\ part = "social" /\ Social!Next
          /\ UNCHANGED <<fileVars, springVars, pgVars, vkbVars, readVars, learningVars>>
       \/ /\ part \in {"feedback", "blend", "workingSet"}
          /\ UNCHANGED <<fileVars, springVars, pgVars, vkbVars, readVars, socialVars>>
          /\ \/ /\ part = "feedback" /\ Feedback!Next
                /\ UNCHANGED <<blendVars, workingVars>>
             \/ /\ part = "blend" /\ Blend!Next
                /\ UNCHANGED <<feedbackVars, workingVars>>
             \/ /\ part = "workingSet" /\ Working!Next
                /\ UNCHANGED <<feedbackVars, blendVars>>

Spec == Init /\ [][Next]_vars

-----------------------------------------------------------------------------
(* The type invariants. *)
TypeOK ==
    /\ File!TypeOK /\ Springs!TypeOK /\ PgTriples!TypeOK /\ PgVkb!TypeOK /\ Requests!TypeOK
    /\ Feedback!TypeOK /\ Blend!TypeOK /\ Working!TypeOK

(* After any crash the file has what was last stored to the end. *)
FileKeeps == File!FileKeeps

(* No flag is left up, and without a race there is one batch of a kind. *)
BatchesApart == Springs!BatchesApart

(* The stores on PostgreSQL keep provenance and the status of patterns. *)
PgSound == PgTriples!LinksKept /\ PgVkb!StatusFitsConfidence

(* No read fails or misses a triple that was there all the time, and what   *)
(* is listed of verifications, tensions and shares was said.                *)
ReadsAnswered == Requests!ReadsAnswered /\ Social!Told

(* Feedback is found and counted, and what is learned from it is in bounds. *)
LearningSound ==
    /\ part = "feedback" => Feedback!FeedbackFound
    /\ part = "blend" => Blend!BlendSound

(* A context names what it lists, the nearest and strongest first. *)
ContextCovers == part = "workingSet" => Working!ContextCovers

(* A turn lets the weakest of a working set go. *)
WeakestGo == Working!WeakestGo
=============================================================================
