----------------------------- MODULE TripleStore -----------------------------
(***************************************************************************)
(* What the trait TripleStore (engine/src/storage/traits.rs) promises its  *)
(* callers: the triples, each with the weight a query shows, and for each  *)
(* the sources it came from.  Every operation happens in one step, between *)
(* its call and its return, a triple takes its provenance along when it    *)
(* goes, and decay stops at the floor it is given (docs/api-design.md 285: *)
(* "Don't decay below this"; postgres.rs 482-494 does as it says).         *)
(***************************************************************************)
EXTENDS Naturals

CONSTANTS Client, Triple, Source, Weight, Ops, Full, Threshold, MinWeight, Absent, NoCall,
          Decayed(_)

VARIABLES
    facts,      \* the weight of each stored triple, or Absent
    sources,    \* the sources that were inserted
    links,      \* <<triple, source>>: what get_sources_for_triple follows
    call,       \* the operation each client is calling, or NoCall
    done        \* whether it has happened yet

vars == <<facts, sources, links, call, done>>

Init ==
    /\ facts = [t \in Triple |-> Absent] /\ sources = {} /\ links = {}
    /\ call = [c \in Client |-> NoCall] /\ done = [c \in Client |-> FALSE]

Stored == {t \in Triple : facts[t] # Absent}

(* An operation happens once, when it is called or later, and may return   *)
(* in that moment or later, but not before.                                *)
Called(c, op) == call[c] = NoCall \/ (call[c] = op /\ ~done[c])
Happens(c, op) ==
    /\ Called(c, op)
    /\ \/ call' = [call EXCEPT ![c] = op] /\ done' = [done EXCEPT ![c] = TRUE]
       \/ call' = [call EXCEPT ![c] = NoCall] /\ done' = [done EXCEPT ![c] = FALSE]

-----------------------------------------------------------------------------
Put(t, w) == facts' = [facts EXCEPT ![t] = w] /\ UNCHANGED <<sources, links>>

Remove(gone) ==
    /\ facts' = [t \in Triple |-> IF t \in gone THEN Absent ELSE facts[t]]
    /\ links' = {l \in links : l[1] \notin gone}
    /\ UNCHANGED sources

InsertTriple(c, t, w) == Happens(c, "insert") /\ Put(t, w)
UpdateTriple(c, t, w) == Happens(c, "update") /\ Put(t, w)
TouchTriple(c, t) == Happens(c, "touch") /\ t \in Stored /\ Put(t, Full)
DeleteTriple(c, t) == Happens(c, "delete") /\ t \in Stored /\ Remove({t})

EvictBelowWeight(c) ==
    Happens(c, "evict") /\ Remove({t \in Stored : facts[t] < Threshold})

(* A weight that is at least the floor goes no further down than that, and *)
(* one that is below it is left alone.                                     *)
Faded(w) == IF w < MinWeight THEN w
            ELSE IF Decayed(w) < MinWeight THEN MinWeight ELSE Decayed(w)

Decay(c) ==
    /\ Happens(c, "decay")
    /\ facts' = [t \in Triple |-> IF t \in Stored THEN Faded(facts[t]) ELSE Absent]
    /\ UNCHANGED <<sources, links>>

InsertSource(c, s, ts) ==
    /\ Happens(c, "source")
    /\ sources' = sources \cup {s}
    /\ links' = links \cup (ts \X {s})
    /\ UNCHANGED facts

Begin(c) ==
    /\ call[c] = NoCall
    /\ \E op \in Ops : call' = [call EXCEPT ![c] = op]
    /\ UNCHANGED <<facts, sources, links, done>>

Return(c) ==
    /\ done[c]
    /\ call' = [call EXCEPT ![c] = NoCall] /\ done' = [done EXCEPT ![c] = FALSE]
    /\ UNCHANGED <<facts, sources, links>>

Step(c) ==
    \/ Begin(c) \/ Return(c) \/ EvictBelowWeight(c) \/ Decay(c)
    \/ \E t \in Triple : TouchTriple(c, t) \/ DeleteTriple(c, t)
    \/ \E t \in Triple, w \in Weight : InsertTriple(c, t, w) \/ UpdateTriple(c, t, w)
    \/ \E s \in Source \ sources, ts \in SUBSET Triple : InsertSource(c, s, ts)

Next == \E c \in Client : Step(c)

Spec == Init /\ [][Next]_vars
=============================================================================
