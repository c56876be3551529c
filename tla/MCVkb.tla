------------------------------- MODULE MCVkb -------------------------------
(***************************************************************************)
(* Vkb with two callers and a reader.  Sessions and patterns share no      *)
(* state, so that a behaviour explores the one or the other.  Patterns are *)
(* followed from 6 or 12 tenths on, and once decayed from 7 as well.       *)
(***************************************************************************)
EXTENDS Vkb, TLC

Apart == created = <<>> \/ Stored(patterns) = {}
Bounded == Apart /\ \A p \in Stored(patterns) : first[p].confidence \in {6, 7, 12}
Symmetry == UNION {Permutations(ids) : ids \in {Caller, Exchange, Session, Pattern}}
=============================================================================
