----------------------------- MODULE BlendTuner -----------------------------
(***************************************************************************)
(* How much each embedding strategy counts, learned from feedback          *)
(* (engine/src/inference/blend_tuner.rs), and the blending of scores with  *)
(* it (engine/src/query/fusion.rs).  Weights and attributions have a lock  *)
(* each: process_feedback reads attributions, changes the weights and      *)
(* removes the attributions under three locks, and calls overlap.          *)
(*                                                                         *)
(* Numbers are exact: weights are numerators over a common denominator,    *)
(* scores whole numbers of some unit, rewards whole tenths.  What rounding *)
(* adds is not modelled.                                                   *)
(***************************************************************************)
EXTENDS Integers, Sequences, SequencesExt

CONSTANTS
    Worker, Triple, Context, None,
    Preset,         \* the weights to start from or to restore
    Attribution,    \* attributions of a context: [Triple' -> [Strategies' -> score]]
    Listing,        \* what feedback says: sequences of [triple, signal]
    Similarity,     \* the scores strategies may give, whole numbers
    Rate,           \* the learning rate, a pair <<numerator, denominator>>
    Least,          \* the least weight, such a pair
    MaxUpdates      \* bound: updates of the weights

VARIABLES
    weights,        \* [share |-> per strategy, of |-> denominator, updates]
    attributions,   \* per context, or None
    work            \* what each caller of process_feedback is at

vars == <<weights, attributions, work>>

Blended == <<"spring", "node2vec", "spectral">>
Index == DOMAIN Blended
Reward == [cited |-> 10, relevant |-> 5, ignored |-> -3, misleading |-> -10]

Positive == Nat \ {0}

(* The weights and how often they were updated. *)
Weights == [share : [Index -> Int], of : Positive, updates : Nat]

(* A caller between two locks: the context, and the signals it computed. *)
Job == [at : {"update", "clean"}, context : Context, signal : [Index -> Int], total : Positive]

TypeOK ==
    /\ weights \in Weights
    /\ attributions \in [Context -> Attribution \cup {None}]
    /\ work \in [Worker -> Job \cup {None}]

Init ==
    /\ weights \in Preset
    /\ attributions = [c \in Context |-> None]
    /\ work = [w \in Worker |-> None]

-----------------------------------------------------------------------------
(* Arithmetic on weights. *)

At(f, i) == IF i \in DOMAIN f THEN f[i] ELSE 0
Total(f) == At(f, 1) + At(f, 2) + At(f, 3)
Largest(f) == CHOOSE i \in Index : \A j \in Index : f[j] < f[i] \/ (f[j] = f[i] /\ i <= j)

gcd[p \in Nat \X Nat] == IF p[2] = 0 THEN p[1] ELSE gcd[<<p[2], p[1] % p[2]>>]
Divides(d, share, of) == d \in Positive /\ of % d = 0 /\ \A i \in Index : share[i] % d = 0

(* Numerators and their denominator, divided by what they have in common. *)
Lowest(share, of) ==
    LET d == gcd[<<gcd[<<gcd[<<of, share[1]>>], share[2]>>], share[3]>>] IN
    IF Divides(d, share, of)
    THEN [share |-> [i \in Index |-> share[i] \div d], of |-> of \div d]
    ELSE [share |-> share, of |-> of]

(* The least weight can be written over of, and shares like it, when they  *)
(* are taken over a denominator so many times as large.                    *)
Scaled(share) == [i \in Index |-> share[i] * Least[2]]
LeastOf(of) == of * Least[1]

(* One strategy is raised to the least weight, at the cost of the largest. *)
Raise(share, least, i, was) ==
    IF was[i] >= least THEN share
    ELSE LET raised == [share EXCEPT ![i] = least]
         IN [raised EXCEPT ![Largest(raised)] = @ - (least - was[i])]

Reinforced(share, of) ==
    LET was == Scaled(share)
        first == Raise(was, LeastOf(of), 1, was)
        second == Raise(first, LeastOf(of), 2, was)
    IN Lowest(Raise(second, LeastOf(of), 3, was), of * Least[2])

(* Clamped to the least weight, made to sum to one, and clamped again. *)
Clamped(share, of) ==
    [i \in Index |-> IF Scaled(share)[i] > LeastOf(of) THEN Scaled(share)[i] ELSE LeastOf(of)]

Normalized(share, of) ==
    LET clamped == Clamped(share, of) IN
    IF Total(clamped) > 0 THEN Reinforced(clamped, Total(clamped)) ELSE Reinforced([i \in Index |-> 1], 3)

-----------------------------------------------------------------------------
RecordAttributions(c, a) ==
    /\ attributions' = [attributions EXCEPT ![c] = a]
    /\ UNCHANGED <<weights, work>>

(* The signals of each strategy, in tenths, and the sum of the scores. *)
Abs(n) == IF n < 0 THEN -n ELSE n
Score(a, t, i) == IF t \in DOMAIN a /\ i \in DOMAIN a[t] THEN a[t][i] ELSE 0
Signal(a, triples) ==
    [i \in Index |->
        FoldLeft(LAMBDA n, tf : n + Score(a, tf.triple, i) * Reward[tf.signal], 0, triples)]
Weighed(a, triples) ==
    FoldLeft(LAMBDA n, tf : n + Total([i \in Index |-> Abs(Score(a, tf.triple, i))]), 0, triples)

(***************************************************************************)
(* The weights to start from and to restore are sound, no more than a      *)
(* quarter is kept for each strategy, and what is summed are numbers.      *)
(***************************************************************************)
Sound(w) ==
    /\ Total(w.share) = w.of
    /\ \A i \in Index : w.share[i] * Least[2] >= w.of * Least[1]

BlendTunerAssumption ==
    /\ Rate \in Nat \X Positive /\ Least \in Positive \X Positive /\ 4 * Least[1] <= Least[2]
    /\ Preset \subseteq Weights /\ \A p \in Preset : Sound(p)
    /\ Similarity \subseteq Int
    /\ \A a \in Attribution, l \in Listing :
           Signal(a, l) \in [Index -> Int] /\ Weighed(a, l) \in Nat
    /\ None \notin Job /\ None \notin Attribution

(* No attributions, or none for a triple of the feedback, and it returns. *)
ReadAttributions(w, c, triples) ==
    /\ work[w] = None
    /\ attributions[c] # None
    /\ Weighed(attributions[c], triples) > 0
    /\ work' = [work EXCEPT ![w] =
           [at |-> "update", context |-> c, signal |-> Signal(attributions[c], triples),
            total |-> Weighed(attributions[c], triples)]]
    /\ UNCHANGED <<weights, attributions>>

Moved(share, of, job) ==
    [i \in Index |-> share[i] * Rate[2] * 10 * job.total + Rate[1] * job.signal[i] * of]

UpdateWeights(w) ==
    /\ work[w] # None /\ work[w].at = "update"
    /\ weights.updates < MaxUpdates
    /\ LET of == weights.of * Rate[2] * 10 * work[w].total
           new == Normalized(Moved(weights.share, weights.of, work[w]), of)
       IN weights' = [share |-> new.share, of |-> new.of, updates |-> weights.updates + 1]
    /\ work' = [work EXCEPT ![w].at = "clean"]
    /\ UNCHANGED attributions

(* Also what was recorded for the context since it read it. *)
CleanUp(w) ==
    /\ work[w] # None /\ work[w].at = "clean"
    /\ attributions' = [attributions EXCEPT ![work[w].context] = None]
    /\ work' = [work EXCEPT ![w] = None]
    /\ UNCHANGED weights

(* Weights are restored with their count, here the ones it may start with. *)
SetLearnedWeights ==
    /\ weights' \in Preset
    /\ UNCHANGED <<attributions, work>>

Next ==
    \/ \E c \in Context, a \in Attribution : RecordAttributions(c, a)
    \/ \E w \in Worker :
           \/ \E c \in Context, l \in Listing : ReadAttributions(w, c, l)
           \/ UpdateWeights(w)
           \/ CleanUp(w)
    \/ SetLearnedWeights

Spec == Init /\ [][Next]_vars

-----------------------------------------------------------------------------
(* The blend of the scores some strategies give, as a fraction. *)
Blend(scores) ==
    LET used == [i \in DOMAIN scores |-> weights.share[i]] IN
    [of |-> Total(used), sum |-> Total([i \in DOMAIN scores |-> used[i] * scores[i]])]

Scores == UNION {[S -> Similarity] : S \in (SUBSET Index) \ {{}}}

(***************************************************************************)
(* Whatever feedback says and in whatever order it is processed, the       *)
(* weights sum to one and none is below the least, so that no strategy is  *)
(* ever shut out; and a blend of the scores that are there lies between    *)
(* two of them.                                                            *)
(***************************************************************************)
WeightsSound == Sound(weights)

BlendBetween ==
    \A scores \in Scores :
        LET mix == Blend(scores) IN
        /\ mix.of > 0
        /\ \E i, j \in DOMAIN scores : mix.of * scores[i] <= mix.sum /\ mix.sum <= mix.of * scores[j]

BlendSound == WeightsSound /\ BlendBetween
=============================================================================
