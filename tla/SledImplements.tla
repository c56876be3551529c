--------------------------- MODULE SledImplements ---------------------------
(***************************************************************************)
(* SledStore implements TripleStore, although each operation is up to      *)
(* eight calls on five trees, as long as one caller at a time is at work   *)
(* or the callers only insert, update, touch and name sources, and as long *)
(* as decay is given no floor: min_weight is checked and then ignored      *)
(* (sled_store.rs 488-515).                                                *)
(*                                                                         *)
(* An operation takes effect at one of its calls: an insertion or update   *)
(* when the record is written, a removal when it has found its victims, a  *)
(* source when its record is written.  What the rest of the operation      *)
(* still has to do is taken as done.  A record that nobody is at work on   *)
(* counts as stored only if every index finds it.                          *)
(***************************************************************************)
EXTENDS SledStore

CONSTANT MinWeight      \* the floor decay is called with, in units of Weight

ASSUME ViewAssumption == None \notin Triple /\ MinWeight \in Nat

Removing(c) == job[c].op \in {"delete", "evict"} /\ job[c].at # "scan"
Leaving == {t \in Triple : \E c \in Client : Removing(c) /\ (t = job[c].id \/ t \in job[c].todo)}

Found(t) == Settled(t) => \A x \in Tree : t \in Query(x, {t})
Facts == [t \in Triple |-> IF t \notin Leaving /\ Found(t) THEN triples[t] ELSE Absent]

Linking == UNION {job[c].todo \X {job[c].src} : c \in {d \in Client : job[d].at = "link"}}
Links == {l \in junction \cup Linking : l[1] \notin Leaving}

(* What each caller is calling, and whether it has happened. *)
Happened(j) ==
    /\ j.op \notin {None, "touch", "decay"}
    /\ j.op = "update" => j.at = "index"
    /\ j.op = "evict" => j.at # "scan"

Call == [c \in Client |-> job[c].op]
Done == [c \in Client |-> Happened(job[c])]

Abstract == INSTANCE TripleStore
    WITH facts <- Facts, links <- Links, call <- Call, done <- Done, NoCall <- None

(***************************************************************************)
(* ImplementsTripleStore: every call on a tree is either the one at which  *)
(* its operation happens or invisible: what insert_triple to               *)
(* evict_below_weight leave behind, indexes, provenance and weights        *)
(* together, is what one step of the trait's contract leaves.              *)
(***************************************************************************)
ImplementsTripleStore == Abstract!Spec
=============================================================================
