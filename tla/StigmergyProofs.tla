--------------------------- MODULE StigmergyProofs ---------------------------
(***************************************************************************)
(* Proofs about Stigmergy, for any number of triples, recorders and        *)
(* maintenance cycles, and any size of the window.                         *)
(*                                                                         *)
(* The counts lag behind the window, never the other way round: an event   *)
(* enters the window before its pairs are counted, and whoever has pushed  *)
(* it owes the count until he makes it (Covered).  As long as no event has *)
(* left the window uncounted, the events that owe their count are exactly  *)
(* those of the recorders between their two locks (Owed), so that each     *)
(* count is the number of counted events (CountedRight).                   *)
(***************************************************************************)
EXTENDS Stigmergy, TLAPS, FiniteSetTheorems, FunctionTheorems, SequenceTheorems

Events == [ids : SUBSET Triple, stamp : 0..MaxNow, by : Recorder, counted : BOOLEAN]
Requests == [at : {"idle", "push", "count"}, ids : SUBSET Triple, stamp : 0..MaxNow]
Jobs == [at : {"idle", "pairs", "check", "insert", "decay"}, pairs : SUBSET Pair,
         todo : Seq(Node \X Node), decays : BOOLEAN]

(* The type invariant with sequences, and with something to insert. *)
Types ==
    /\ stored \in SUBSET Triple
    /\ edges \in SUBSET (Node \X Node)
    /\ window \in Seq(Events) /\ Len(window) <= WindowSize
    /\ counts \in [Pair -> Nat]
    /\ now \in 0..MaxNow
    /\ asking \in [Recorder -> Requests]
    /\ job \in [Maintainer -> Jobs]
    /\ \A m \in Maintainer : job[m].at = "insert" => job[m].todo # <<>>
    /\ raced \in BOOLEAN

-----------------------------------------------------------------------------
(* Where a sequence of events has one of a set of events.                  *)

Hits(w, E) == {i \in 1..Len(w) : w[i] \in E}

LEMMA HitsFinite ==
  ASSUME NEW w \in Seq(Events), NEW E
  PROVE  IsFiniteSet(Hits(w, E)) /\ Cardinality(Hits(w, E)) \in Nat
<1>1. IsFiniteSet(1..Len(w))
  BY FS_Interval
<1>2. Hits(w, E) \in SUBSET (1..Len(w))
  BY DEF Hits
<1> QED BY <1>1, <1>2, FS_Subset, FS_CardinalityType

LEMMA HitsNone ==
  ASSUME NEW E
  PROVE  Hits(<<>>, E) = {} /\ Cardinality(Hits(<<>>, E)) = 0
  BY FS_EmptySet DEF Hits

LEMMA HitsAppend ==
  ASSUME NEW w \in Seq(Events), NEW e \in Events, NEW E
  PROVE  Cardinality(Hits(Append(w, e), E)) = Cardinality(Hits(w, E)) + (IF e \in E THEN 1 ELSE 0)
<1>1. CASE e \in E
  <2>1. Hits(Append(w, e), E) = Hits(w, E) \cup {Len(w) + 1}
    BY <1>1 DEF Hits
  <2>2. Len(w) + 1 \notin Hits(w, E)
    BY DEF Hits
  <2> QED BY <1>1, <2>1, <2>2, HitsFinite, FS_AddElement
<1>2. CASE e \notin E
  <2>1. Hits(Append(w, e), E) = Hits(w, E)
    BY <1>2 DEF Hits
  <2> QED BY <1>2, <2>1, HitsFinite
<1> QED BY <1>1, <1>2

LEMMA HitsTail ==
  ASSUME NEW w \in Seq(Events), w # <<>>, NEW E
  PROVE  Cardinality(Hits(Tail(w), E)) = Cardinality(Hits(w, E)) - (IF Head(w) \in E THEN 1 ELSE 0)
<1> DEFINE S == Hits(Tail(w), E)
           T == Hits(w, E) \ {1}
           f == [i \in S |-> i + 1]
<1>1. Tail(w) \in Seq(Events) /\ Len(Tail(w)) = Len(w) - 1 /\ Len(w) \in Nat \ {0}
  BY HeadTailProperties, EmptySeq, LenProperties
<1>2. \A i \in 1..Len(Tail(w)) : Tail(w)[i] = w[i + 1]
  BY HeadTailProperties
<1>3. f \in Bijection(S, T)
  <2>1. f \in [S -> T]
    BY <1>1, <1>2 DEF Hits
  <2>2. \A i, j \in S : f[i] = f[j] => i = j
    BY <1>1 DEF Hits
  <2>3. \A j \in T : j - 1 \in S /\ f[j - 1] = j
    BY <1>1, <1>2 DEF Hits
  <2> QED BY <2>1, <2>2, <2>3, Fun_IsBij
<1>4. IsFiniteSet(S) /\ IsFiniteSet(Hits(w, E)) /\ Cardinality(Hits(w, E)) \in Nat
  BY <1>1, HitsFinite
<1>5. 1 \in Hits(w, E) <=> Head(w) \in E
  BY <1>1 DEF Hits
<1>6. Cardinality(T) = IF 1 \in Hits(w, E) THEN Cardinality(Hits(w, E)) - 1
                       ELSE Cardinality(Hits(w, E))
  BY <1>4, FS_RemoveElement
<1>7. Cardinality(S) = Cardinality(T)
  <2> HIDE DEF S, T, f
  <2>1. ExistsBijection(S, T)
    BY <1>3 DEF ExistsBijection
  <2> QED BY <1>4, <2>1, FS_Bijection
<1> QED BY <1>4, <1>5, <1>6, <1>7

(* A step that lets the events be as they were but for a mark. *)
LEMMA HitsSame ==
  ASSUME NEW w, NEW v, Len(v) = Len(w), NEW E,
         \A i \in 1..Len(w) : v[i] \in E <=> w[i] \in E
  PROVE  Hits(v, E) = Hits(w, E)
  BY DEF Hits

-----------------------------------------------------------------------------
(* Types.                                                                  *)

LEMMA LinksType ==
  ASSUME NEW p \in Pair
  PROVE  /\ Links(p) \in Seq(Node \X Node)
         /\ \A i \in 1..Len(Links(p)) : Links(p)[i][1] # Links(p)[i][2]
<1>1. /\ Ends[p[1]] \in Node \X Node /\ Ends[p[2]] \in Node \X Node
      /\ p[1] \in Triple /\ p[2] \in Triple
  BY StigmergyAssumption DEF Pair
<1>2. \A a, b \in Node : /\ Link(a, b) \in Seq(Node \X Node) /\ Len(Link(a, b)) \in 0..1
                         /\ \A i \in 1..Len(Link(a, b)) : Link(a, b)[i][1] # Link(a, b)[i][2]
  <2> SUFFICES ASSUME NEW a \in Node, NEW b \in Node
               PROVE  /\ Link(a, b) \in Seq(Node \X Node) /\ Len(Link(a, b)) \in 0..1
                      /\ \A i \in 1..Len(Link(a, b)) : Link(a, b)[i][1] # Link(a, b)[i][2]
    OBVIOUS
  <2>1. CASE a = b
    BY <2>1 DEF Link
  <2>2. CASE a # b
    BY <2>2 DEF Link
  <2> QED BY <2>1, <2>2
<1> DEFINE x == Link(Ends[p[1]][1], Ends[p[2]][1])
           y == Link(Ends[p[1]][2], Ends[p[2]][2])
<1>3. /\ x \in Seq(Node \X Node) /\ y \in Seq(Node \X Node)
      /\ \A i \in 1..Len(x) : x[i][1] # x[i][2]
      /\ \A i \in 1..Len(y) : y[i][1] # y[i][2]
  BY <1>1, <1>2
<1>4. Links(p) = x \o y
  BY DEF Links
<1> HIDE DEF x, y
<1> QED BY <1>3, <1>4, ConcatProperties

LEMMA TypesImplied == Types => TypeOK
<1> SUFFICES ASSUME Types PROVE TypeOK
  OBVIOUS
<1>1. \A i \in DOMAIN window : window[i] \in Events
  BY DEF Types
<1>2. ASSUME NEW m \in Maintainer
      PROVE  /\ job[m].at \in {"idle", "pairs", "check", "insert", "decay"}
             /\ job[m].pairs \subseteq Pair /\ job[m].decays \in BOOLEAN
             /\ \A i \in DOMAIN job[m].todo : job[m].todo[i] \in Node \X Node
  <2>1. job[m] \in Jobs
    BY DEF Types
  <2>2. job[m].todo \in Seq(Node \X Node)
    BY <2>1 DEF Jobs
  <2> QED BY <2>1, <2>2 DEF Jobs
<1> QED BY <1>1, <1>2 DEF Types, TypeOK, Events, Requests

LEMMA InitTypes == Init => Types
<1> SUFFICES ASSUME Init PROVE Types
  OBVIOUS
<1>1. 0 \in 0..MaxNow /\ 0 <= WindowSize
  BY StigmergyAssumption
<1>2. Quiet \in Requests /\ Idle \in Jobs /\ Idle.at = "idle"
  BY <1>1 DEF Quiet, Requests, Idle, Jobs
<1>3. window \in Seq(Events) /\ Len(window) <= WindowSize
  <2>1. window = <<>>
    BY DEF Init
  <2> QED BY <1>1, <2>1, EmptySeq
<1>4. stored \in SUBSET Triple /\ edges \in SUBSET (Node \X Node) /\ now \in 0..MaxNow
      /\ counts \in [Pair -> Nat] /\ raced \in BOOLEAN
  BY <1>1 DEF Init
<1>5. asking \in [Recorder -> Requests] /\ job \in [Maintainer -> Jobs]
      /\ \A m \in Maintainer : job[m].at = "insert" => job[m].todo # <<>>
  BY <1>2 DEF Init
<1> QED BY <1>3, <1>4, <1>5 DEF Types

(* The window as recording and decay change it. *)
LEMMA Pushed ==
  ASSUME Types, NEW c \in Recorder, Push(c)
  PROVE  LET full == Append(window, Event(c)) IN
         /\ Event(c) \in Events /\ full \in Seq(Events) /\ full # <<>>
         /\ Len(full) = Len(window) + 1 /\ Head(full) \in Events
         /\ window' \in Seq(Events) /\ Len(window') <= WindowSize
<1> DEFINE full == Append(window, Event(c))
<1>1. asking[c] \in Requests /\ window \in Seq(Events) /\ Len(window) \in Nat
      /\ Len(window) <= WindowSize /\ WindowSize \in Nat
  BY StigmergyAssumption, LenProperties DEF Types
<1>2. Event(c) \in Events
  BY <1>1 DEF Event, Events, Requests
<1>3. full \in Seq(Events) /\ Len(full) = Len(window) + 1
  BY <1>1, <1>2, AppendProperties
<1>4. full # <<>> /\ Head(full) \in Events
  BY <1>1, <1>3, HeadTailProperties, EmptySeq
<1>5. Tail(full) \in Seq(Events) /\ Len(Tail(full)) = Len(window)
  BY <1>1, <1>3, <1>4, HeadTailProperties
<1>6. window' = IF Len(full) > WindowSize THEN Tail(full) ELSE full
  BY DEF Push
<1> HIDE DEF full
<1>7. window' \in Seq(Events) /\ Len(window') <= WindowSize
  BY <1>1, <1>3, <1>5, <1>6
<1> QED BY <1>2, <1>3, <1>4, <1>7 DEF full

LEMMA Dropped ==
  ASSUME Types, NEW m \in Maintainer, DropOld(m)
  PROVE  /\ window # <<>> /\ Head(window) \in Events
         /\ window' \in Seq(Events) /\ Len(window') <= WindowSize
<1>1. window \in Seq(Events) /\ Len(window) \in Nat /\ Len(window) <= WindowSize
      /\ WindowSize \in Nat /\ window # <<>> /\ window' = Tail(window)
  BY StigmergyAssumption, LenProperties DEF Types, DropOld, Outdated
<1> QED BY <1>1, HeadTailProperties

LEMMA Counted ==
  ASSUME Types, NEW c \in Recorder, Count(c)
  PROVE  /\ window' \in Seq(Events) /\ Len(window') = Len(window)
         /\ \A i \in 1..Len(window) :
                /\ window[i] \in Events /\ window'[i] \in Events
                /\ window'[i] = IF window[i].by = c THEN [window[i] EXCEPT !.counted = TRUE]
                                ELSE window[i]
<1>1. window \in Seq(Events) /\ Len(window) \in Nat
  BY LenProperties DEF Types
<1>2. \A i \in 1..Len(window) : window[i] \in Events
  BY <1>1
<1>3. window' = [i \in 1..Len(window) |->
                    IF window[i].by = c THEN [window[i] EXCEPT !.counted = TRUE] ELSE window[i]]
  BY <1>1 DEF Count
<1>4. \A i \in 1..Len(window) : window'[i] \in Events
  BY <1>2, <1>3 DEF Events
<1>5. window' \in Seq(Events)
  BY <1>1, <1>3, <1>4
<1>6. Len(window') = Len(window)
  BY <1>1, <1>3, <1>5
<1> QED BY <1>2, <1>3, <1>4, <1>5, <1>6

LEMMA CountsType ==
  ASSUME Types, NEW ids
  PROVE  /\ IncrementPairs(ids) \in [Pair -> Nat]
         /\ DecrementPairs(ids) \in [Pair -> Nat]
         /\ [p \in Pair |-> 0] \in [Pair -> Nat]
  BY DEF Types, IncrementPairs, DecrementPairs

(* What the steps of a cycle leave of the types. *)
LEMMA JobTypes ==
  ASSUME Types, NEW m \in Maintainer,
         Start(m) \/ Connect(m) \/ Check(m) \/ InsertEdge(m) \/ EndReinforce(m) \/ EndDecay(m)
  PROVE  Types'
<1>1. /\ job \in [Maintainer -> Jobs] /\ job[m] \in Jobs
      /\ \A n \in Maintainer : job[n].at = "insert" => job[n].todo # <<>>
      /\ job[m].todo \in Seq(Node \X Node)
  BY DEF Types, Jobs
<1>2. Idle \in Jobs /\ Idle.at = "idle"
  BY EmptySeq DEF Idle, Jobs
<1>3. job[m].todo # <<>> => /\ Head(job[m].todo) \in Node \X Node
                            /\ Tail(job[m].todo) \in Seq(Node \X Node)
  BY <1>1, HeadTailProperties
<1>4. ASSUME NEW j \in Jobs, j.at = "insert" => j.todo # <<>>, job' = [job EXCEPT ![m] = j]
      PROVE  /\ job' \in [Maintainer -> Jobs]
             /\ \A n \in Maintainer : job'[n].at = "insert" => job'[n].todo # <<>>
  BY <1>1, <1>4
<1>5. CASE Start(m)
  <2>1. PICK d \in BOOLEAN :
            job' = [job EXCEPT ![m] = [Idle EXCEPT !.at = "pairs", !.decays = d,
                                                   !.pairs = {p \in Pair : counts[p] >= Threshold}]]
    BY <1>5 DEF Start
  <2> DEFINE j == [Idle EXCEPT !.at = "pairs", !.decays = d, !.pairs = {p \in Pair : counts[p] >= Threshold}]
  <2>2. j \in Jobs /\ j.at = "pairs"
    BY EmptySeq DEF Idle, Jobs
  <2> HIDE DEF j
  <2> QED BY <1>4, <1>5, <2>1, <2>2 DEF Start, Types, tracker, j
<1>6. CASE Connect(m)
  <2>1. PICK p \in job[m].pairs :
            job' = [job EXCEPT ![m] =
                IF {p[1], p[2]} \subseteq stored
                THEN [@ EXCEPT !.at = "check", !.pairs = job[m].pairs \ {p}, !.todo = Links(p)]
                ELSE Idle]
    BY <1>6 DEF Connect
  <2> DEFINE j == IF {p[1], p[2]} \subseteq stored
                  THEN [job[m] EXCEPT !.at = "check", !.pairs = job[m].pairs \ {p}, !.todo = Links(p)]
                  ELSE Idle
  <2>2. p \in Pair /\ Links(p) \in Seq(Node \X Node)
    BY <1>1, LinksType DEF Jobs
  <2>3. j \in Jobs /\ j.at # "insert"
    BY <1>1, <1>2, <2>2 DEF Jobs
  <2>4. job' = [job EXCEPT ![m] = j]
    BY <1>1, <2>1
  <2> HIDE DEF j
  <2> QED BY <1>4, <1>6, <2>3, <2>4 DEF Connect, Types, tracker
<1>7. CASE Check(m)
  <2> DEFINE j == IF job[m].todo = <<>> THEN [job[m] EXCEPT !.at = "pairs"]
                  ELSE IF EdgeExists(Head(job[m].todo)) THEN [job[m] EXCEPT !.todo = Tail(job[m].todo)]
                  ELSE [job[m] EXCEPT !.at = "insert"]
  <2>1. job[m].at = "check" /\ job' = [job EXCEPT ![m] = j]
    BY <1>1, <1>7 DEF Check
  <2>2. j \in Jobs /\ (j.at = "insert" => j.todo # <<>>)
    BY <1>1, <1>3, <2>1 DEF Jobs
  <2> HIDE DEF j
  <2> QED BY <1>4, <1>7, <2>1, <2>2 DEF Check, Types, tracker
<1>8. CASE InsertEdge(m)
  <2> DEFINE j == [job[m] EXCEPT !.at = "check", !.todo = Tail(@)]
  <2>1. job[m].todo # <<>> /\ job' = [job EXCEPT ![m] = j]
    BY <1>1, <1>8 DEF InsertEdge
  <2>2. j \in Jobs /\ j.at = "check"
    BY <1>1, <1>3, <2>1 DEF Jobs
  <2>3. edges' \in SUBSET (Node \X Node)
    BY <1>3, <1>8, <2>1 DEF InsertEdge, Types
  <2> HIDE DEF j
  <2> QED BY <1>4, <1>8, <2>1, <2>2, <2>3 DEF InsertEdge, Types, tracker
<1>9. CASE EndReinforce(m)
  <2> DEFINE j == IF job[m].decays THEN [job[m] EXCEPT !.at = "decay"] ELSE Idle
  <2>1. job' = [job EXCEPT ![m] = j]
    BY <1>1, <1>9 DEF EndReinforce
  <2>2. j \in Jobs /\ j.at # "insert"
    BY <1>1, <1>2 DEF Jobs
  <2> HIDE DEF j
  <2> QED BY <1>4, <1>9, <2>1, <2>2 DEF EndReinforce, Types, tracker
<1>10. CASE EndDecay(m)
  BY <1>2, <1>4, <1>10 DEF EndDecay, Types, tracker
<1> QED BY <1>5, <1>6, <1>7, <1>8, <1>9, <1>10

LEMMA NextTypes == Types /\ [Next]_vars => Types'
<1> SUFFICES ASSUME Types, [Next]_vars PROVE Types'
  OBVIOUS
<1>1. CASE Clear
  BY <1>1, CountsType, EmptySeq, StigmergyAssumption DEF Clear, Types
<1>2. CASE Tick
  BY <1>2, StigmergyAssumption DEF Tick, Types, tracker
<1>3. ASSUME NEW c \in Recorder, RecordAccess(c) PROVE Types'
  <2>1. PICK ids \in Accesses :
            asking' = [asking EXCEPT ![c] = [at |-> "push", ids |-> ids, stamp |-> now]]
    BY <1>3 DEF RecordAccess
  <2>2. [at |-> "push", ids |-> ids, stamp |-> now] \in Requests
    BY StigmergyAssumption DEF Types, Requests
  <2>3. asking' \in [Recorder -> Requests]
    BY <2>1, <2>2 DEF Types
  <2> QED BY <1>3, <2>3 DEF RecordAccess, Types, tracker
<1>4. ASSUME NEW c \in Recorder, Push(c) PROVE Types'
  <2>1. asking' \in [Recorder -> Requests]
    <3>1. asking[c] \in Requests
      BY DEF Types
    <3>2. [asking[c] EXCEPT !.at = "count"] \in Requests
      BY <3>1 DEF Requests
    <3>3. asking' = [asking EXCEPT ![c] = [asking[c] EXCEPT !.at = "count"]]
      BY <1>4 DEF Push, Types
    <3> QED BY <3>2, <3>3 DEF Types
  <2>2. counts' \in [Pair -> Nat] /\ raced' \in BOOLEAN
    <3>1. counts' \in [Pair -> Nat]
      BY <1>4, CountsType DEF Push, Types
    <3>2. Head(Append(window, Event(c))) \in Events
      BY <1>4, Pushed
    <3> QED BY <1>4, <3>1, <3>2 DEF Push, Types, Events
  <2> QED BY <1>4, <2>1, <2>2, Pushed DEF Push, Types
<1>5. ASSUME NEW c \in Recorder, Count(c) PROVE Types'
  <2>1. Quiet \in Requests
    BY StigmergyAssumption DEF Quiet, Requests
  <2>2. asking' \in [Recorder -> Requests] /\ counts' \in [Pair -> Nat]
    BY <1>5, <2>1, CountsType DEF Count, Types
  <2> QED BY <1>5, <2>2, Counted DEF Count, Types
<1>6. ASSUME NEW m \in Maintainer, DropOld(m) PROVE Types'
  BY <1>6, Dropped, CountsType DEF DropOld, Types, Events
<1>7. ASSUME NEW t \in Volatile, Insert(t) \/ Evict(t) PROVE Types'
  BY <1>7, StigmergyAssumption DEF Insert, Evict, Types, tracker
<1>8. ASSUME NEW e \in edges, EvictEdge(e) PROVE Types'
  BY <1>8 DEF EvictEdge, Types, tracker
<1>9. CASE UNCHANGED vars
  BY <1>9 DEF Types, vars, tracker
<1> QED BY <1>1, <1>2, <1>3, <1>4, <1>5, <1>6, <1>7, <1>8, <1>9, JobTypes DEF Next, Record, Cycle

LEMMA AlwaysTypes == Spec => []Types
  BY InitTypes, NextTypes, PTL DEF Spec

(* Every variable stays in its range; a count never goes below zero        *)
(* although an event may leave the window before its pairs were counted.   *)
THEOREM TypeCorrect == Spec => []TypeOK
  BY AlwaysTypes, TypesImplied, PTL

-----------------------------------------------------------------------------
(* The counts cover the window.                                            *)

With(p) == {e \in Events : p \in PairsOf(e.ids)}
Owing(p) == {c \in Recorder : asking[c].at = "count" /\ p \in PairsOf(asking[c].ids)}

Covered ==
    \A p \in Pair : counts[p] + Cardinality(Owing(p)) >= Cardinality(Hits(window, With(p)))

LEMMA OwingFinite == \A p : IsFiniteSet(Owing(p)) /\ Cardinality(Owing(p)) \in Nat
<1>1. \A p : Owing(p) \in SUBSET Recorder
  BY DEF Owing
<1> QED BY <1>1, StigmergyAssumption, FS_Subset, FS_CardinalityType

LEMMA OwingFinitePrime == \A p : IsFiniteSet(Owing(p)') /\ Cardinality(Owing(p)') \in Nat
<1>1. \A p : Owing(p)' \in SUBSET Recorder
  BY DEF Owing
<1> QED BY <1>1, StigmergyAssumption, FS_Subset, FS_CardinalityType

LEMMA TogetherHits ==
  ASSUME Types, NEW p \in Pair
  PROVE  Together(p) = Hits(window, With(p))
<1>1. window \in Seq(Events) /\ DOMAIN window = 1..Len(window)
  BY DEF Types
<1>2. \A i \in 1..Len(window) : window[i] \in Events
  BY <1>1
<1> QED BY <1>1, <1>2 DEF Together, Hits, With

(* What the events that enter and leave the window do to a number of them. *)
LEMMA PushedHits ==
  ASSUME Types, NEW c \in Recorder, Push(c), NEW E
  PROVE  LET full == Append(window, Event(c)) IN
         Cardinality(Hits(window', E)) =
             Cardinality(Hits(window, E)) + (IF Event(c) \in E THEN 1 ELSE 0)
                 - (IF Len(full) > WindowSize /\ Head(full) \in E THEN 1 ELSE 0)
<1> DEFINE full == Append(window, Event(c))
<1>1. window \in Seq(Events) /\ Event(c) \in Events /\ full \in Seq(Events) /\ full # <<>>
  BY Pushed DEF Types
<1>2. /\ Cardinality(Hits(full, E)) = Cardinality(Hits(window, E)) + (IF Event(c) \in E THEN 1 ELSE 0)
      /\ Cardinality(Hits(window, E)) \in Nat
  BY <1>1, HitsAppend, HitsFinite
<1>3. window' = IF Len(full) > WindowSize THEN Tail(full) ELSE full
  BY DEF Push
<1> HIDE DEF full
<1>4. CASE Len(full) > WindowSize
  <2>1. Cardinality(Hits(Tail(full), E)) = Cardinality(Hits(full, E)) - (IF Head(full) \in E THEN 1 ELSE 0)
    BY <1>1, HitsTail
  <2> QED BY <1>2, <1>3, <1>4, <2>1 DEF full
<1>5. CASE ~(Len(full) > WindowSize)
  BY <1>2, <1>3, <1>5 DEF full
<1> QED BY <1>4, <1>5

LEMMA PushOwing ==
  ASSUME Types, NEW c \in Recorder, Push(c), NEW p \in Pair
  PROVE  Cardinality(Owing(p)') = Cardinality(Owing(p)) + (IF Event(c) \in With(p) THEN 1 ELSE 0)
<1>1. asking \in [Recorder -> Requests] /\ asking[c].at = "push"
      /\ asking' = [asking EXCEPT ![c].at = "count"]
  BY DEF Types, Push
<1>2. Event(c) \in With(p) <=> p \in PairsOf(asking[c].ids)
  BY Pushed DEF With, Event
<1>3. /\ asking'[c].at = "count" /\ asking'[c].ids = asking[c].ids
      /\ \A d \in Recorder \ {c} : asking'[d] = asking[d]
  BY <1>1 DEF Requests
<1>4. Owing(p)' = Owing(p) \cup (IF p \in PairsOf(asking[c].ids) THEN {c} ELSE {}) /\ c \notin Owing(p)
  BY <1>1, <1>3 DEF Owing, PairsOf
<1>5. CASE p \in PairsOf(asking[c].ids)
  BY <1>2, <1>4, <1>5, OwingFinite, FS_AddElement
<1>6. CASE p \notin PairsOf(asking[c].ids)
  BY <1>2, <1>4, <1>6, OwingFinite
<1> QED BY <1>5, <1>6

LEMMA CountOwing ==
  ASSUME Types, NEW c \in Recorder, Count(c), NEW p \in Pair
  PROVE  Cardinality(Owing(p)') =
             Cardinality(Owing(p)) - (IF p \in PairsOf(asking[c].ids) THEN 1 ELSE 0)
<1>1. asking \in [Recorder -> Requests] /\ asking[c].at = "count" /\ asking' = [asking EXCEPT ![c] = Quiet]
  BY DEF Types, Count
<1>2. asking'[c].at = "idle" /\ \A d \in Recorder \ {c} : asking'[d] = asking[d]
  BY <1>1 DEF Quiet
<1>3. c \notin Owing(p)' /\ (c \in Owing(p) <=> p \in PairsOf(asking[c].ids))
  BY <1>1, <1>2 DEF Owing
<1>4. \A d \in Recorder \ {c} : d \in Owing(p)' <=> d \in Owing(p)
  BY <1>2 DEF Owing, PairsOf
<1>5. Owing(p)' = Owing(p) \ {c}
  <2>1. Owing(p) \subseteq Recorder /\ Owing(p)' \subseteq Recorder
    BY DEF Owing
  <2> HIDE DEF Owing
  <2> QED BY <1>3, <1>4, <2>1
<1>6. Cardinality(Owing(p) \ {c}) =
          IF c \in Owing(p) THEN Cardinality(Owing(p)) - 1 ELSE Cardinality(Owing(p))
  BY OwingFinite, FS_RemoveElement
<1>7. Cardinality(Owing(p)) \in Nat
  BY OwingFinite
<1> QED BY <1>3, <1>5, <1>6, <1>7

LEMMA CountHits ==
  ASSUME Types, NEW c \in Recorder, Count(c), NEW p \in Pair
  PROVE  Hits(window', With(p)) = Hits(window, With(p))
<1>1. ASSUME NEW i \in 1..Len(window) PROVE window'[i] \in With(p) <=> window[i] \in With(p)
  <2>1. window[i] \in Events /\ window'[i] \in Events /\ window'[i].ids = window[i].ids
    BY Counted DEF Events
  <2> QED BY <2>1 DEF With
<1> QED BY <1>1, Counted, HitsSame

LEMMA CoveredNext == Types /\ Types' /\ Covered /\ [Next]_vars => Covered'
<1> SUFFICES ASSUME Types, Types', Covered, [Next]_vars, NEW p \in Pair
             PROVE  (counts[p] + Cardinality(Owing(p)) >= Cardinality(Hits(window, With(p))))'
  BY DEF Covered
<1> DEFINE n == Cardinality(Owing(p))
           h == Cardinality(Hits(window, With(p)))
<1>1. counts[p] \in Nat /\ counts'[p] \in Nat /\ window \in Seq(Events) /\ counts \in [Pair -> Nat]
  BY DEF Types
<1>2. n \in Nat /\ n' \in Nat /\ h \in Nat /\ counts[p] + n >= h
  BY <1>1, OwingFinite, OwingFinitePrime, HitsFinite DEF Covered
<1>3. With(p)' = With(p)
  BY DEF With, PairsOf
<1>4. ASSUME UNCHANGED <<window, counts>>, \A c \in Recorder : asking[c].at = "count" <=> asking'[c].at = "count",
             \A c \in Recorder : asking[c].at = "count" => asking'[c] = asking[c]
      PROVE  (counts[p] + n >= h)'
  <2>1. Owing(p)' = Owing(p)
    BY <1>4 DEF Owing, PairsOf
  <2> QED BY <1>2, <1>3, <1>4, <2>1
<1>5. CASE Clear
  <2>1. window' = <<>> /\ h' = 0
    BY <1>3, <1>5, HitsNone DEF Clear
  <2> QED BY <1>1, <1>2, <2>1
<1>6. ASSUME NEW c \in Recorder, RecordAccess(c) PROVE (counts[p] + n >= h)'
  <2>1. UNCHANGED <<window, counts>> /\ asking[c].at = "idle"
    BY <1>6 DEF RecordAccess, tracker
  <2>2. asking'[c].at = "push" /\ \A d \in Recorder \ {c} : asking'[d] = asking[d]
    BY <1>6 DEF RecordAccess, Types
  <2> QED BY <1>4, <2>1, <2>2
<1>7. ASSUME NEW c \in Recorder, Push(c) PROVE (counts[p] + n >= h)'
  <2> DEFINE full == Append(window, Event(c))
             d == IF Event(c) \in With(p) THEN 1 ELSE 0
             g == IF Len(full) > WindowSize /\ Head(full) \in With(p) THEN 1 ELSE 0
  <2>1. n' = n + d
    BY <1>7, PushOwing
  <2>2. h' = h + d - g
    BY <1>3, <1>7, PushedHits
  <2>3. counts'[p] >= counts[p] - g /\ (g = 0 => counts'[p] = counts[p])
    <3>1. Head(full) \in With(p) <=> p \in PairsOf(Head(full).ids)
      BY <1>7, Pushed DEF With
    <3>2. counts' = IF Len(full) > WindowSize THEN DecrementPairs(Head(full).ids) ELSE counts
      BY <1>7 DEF Push
    <3> QED BY <1>1, <3>1, <3>2 DEF DecrementPairs
  <2>4. d \in {0, 1} /\ g \in {0, 1}
    OBVIOUS
  <2> HIDE DEF n, h, d, g
  <2> QED BY <1>1, <1>2, <2>1, <2>2, <2>3, <2>4
<1>8. ASSUME NEW c \in Recorder, Count(c) PROVE (counts[p] + n >= h)'
  <2> DEFINE d == IF p \in PairsOf(asking[c].ids) THEN 1 ELSE 0
  <2>1. n' = n - d
    BY <1>8, CountOwing
  <2>2. h' = h
    BY <1>3, <1>8, CountHits
  <2>3. counts'[p] = counts[p] + d
    BY <1>8 DEF Count, IncrementPairs
  <2> HIDE DEF n, h
  <2> QED BY <1>1, <1>2, <2>1, <2>2, <2>3
<1>9. ASSUME NEW m \in Maintainer, DropOld(m) PROVE (counts[p] + n >= h)'
  <2> DEFINE g == IF Head(window) \in With(p) THEN 1 ELSE 0
  <2>1. window' = Tail(window) /\ window # <<>> /\ Head(window) \in Events
        /\ counts' = DecrementPairs(Head(window).ids) /\ asking' = asking
    BY <1>9, Dropped DEF DropOld
  <2>2. h' = h - g
    BY <1>1, <1>3, <2>1, HitsTail
  <2>3. n' = n
    BY <2>1 DEF Owing, PairsOf
  <2>4. counts'[p] >= counts[p] - g /\ (g = 0 => counts'[p] = counts[p])
    <3>1. Head(window) \in With(p) <=> p \in PairsOf(Head(window).ids)
      BY <2>1 DEF With
    <3> QED BY <1>1, <2>1, <3>1 DEF DecrementPairs
  <2>5. g \in {0, 1}
    OBVIOUS
  <2> HIDE DEF n, h, g
  <2> QED BY <1>1, <1>2, <2>2, <2>3, <2>4, <2>5
<1>10. ASSUME UNCHANGED <<window, counts, asking>> PROVE (counts[p] + n >= h)'
  BY <1>4, <1>10
<1>11. \/ UNCHANGED <<window, counts, asking>> \/ Clear
       \/ \E c \in Recorder : RecordAccess(c) \/ Push(c) \/ Count(c)
       \/ \E m \in Maintainer : DropOld(m)
  BY DEF Next, Tick, Record, Start, Cycle, Connect, Check, InsertEdge, EndReinforce, EndDecay,
         Insert, Evict, EvictEdge, vars, tracker
<1> QED BY <1>5, <1>6, <1>7, <1>8, <1>9, <1>10, <1>11

LEMMA InitCovered == Init => Covered
<1> SUFFICES ASSUME Init, NEW p \in Pair
             PROVE  counts[p] + Cardinality(Owing(p)) >= Cardinality(Hits(window, With(p)))
  BY DEF Covered
<1>1. counts[p] = 0 /\ window = <<>>
  BY DEF Init
<1> QED BY <1>1, HitsNone, OwingFinite

LEMMA CoveredImplied == Types /\ Covered => CountsCover
  BY TogetherHits DEF Covered, CountsCover, Owing

(* A pair that the window holds often enough is never passed over by       *)
(* reinforcement: what its count lacks is being counted.                   *)
THEOREM CountsKeepUp == Spec => []CountsCover
<1>1. Init /\ Types => Covered
  BY InitCovered
<1>2. Spec => []Covered
  BY <1>1, InitTypes, NextTypes, CoveredNext, PTL DEF Spec
<1> QED BY <1>2, AlwaysTypes, CoveredImplied, PTL

-----------------------------------------------------------------------------
(* The counts are exact as long as no event is lost uncounted.             *)

Uncounted(c) == {e \in Events : e.by = c /\ ~e.counted}
CountedWith(p) == {e \in Events : e.counted /\ p \in PairsOf(e.ids)}

Owed ==
    /\ \A c \in Recorder :
        Cardinality(Hits(window, Uncounted(c))) = IF asking[c].at = "count" THEN 1 ELSE 0
    /\ \A i \in 1..Len(window) : ~window[i].counted => window[i].ids = asking[window[i].by].ids
CountedRight == \A p \in Pair : counts[p] = Cardinality(Hits(window, CountedWith(p)))
Exact == ~raced => Owed /\ CountedRight

LEMMA PushExact ==
  ASSUME Types, Types', Owed, CountedRight, NEW c \in Recorder, Push(c), ~raced'
  PROVE  Owed' /\ CountedRight'
<1> DEFINE full == Append(window, Event(c))
           over == Len(full) > WindowSize
<1>1. /\ window \in Seq(Events) /\ asking \in [Recorder -> Requests] /\ counts \in [Pair -> Nat]
      /\ full \in Seq(Events) /\ full # <<>> /\ Len(full) = Len(window) + 1 /\ Head(full) \in Events
      /\ Event(c) \in Events /\ Len(window) \in Nat
  BY Pushed, LenProperties DEF Types
<1>2. over => Head(full).counted
  BY DEF Push, Types
<1>3. asking[c].at = "push" /\ asking'[c].at = "count" /\ asking'[c].ids = asking[c].ids
      /\ \A d \in Recorder \ {c} : asking'[d] = asking[d]
  BY <1>1 DEF Push, Requests
<1>4. Event(c).by = c /\ Event(c).ids = asking[c].ids /\ ~Event(c).counted
  BY DEF Event
<1>5. ASSUME NEW d \in Recorder
      PROVE  Cardinality(Hits(window', Uncounted(d))) = IF asking'[d].at = "count" THEN 1 ELSE 0
  <2>1. Event(c) \in Uncounted(d) <=> d = c
    BY <1>1, <1>4 DEF Uncounted
  <2>2. ~(over /\ Head(full) \in Uncounted(d))
    BY <1>2 DEF Uncounted
  <2>3. Cardinality(Hits(window', Uncounted(d))) =
            Cardinality(Hits(window, Uncounted(d))) + (IF d = c THEN 1 ELSE 0)
    <3>1. Cardinality(Hits(window, Uncounted(d))) \in Nat
      BY <1>1, HitsFinite
    <3> HIDE DEF full
    <3> QED BY <2>1, <2>2, <3>1, PushedHits DEF full
  <2>4. Cardinality(Hits(window, Uncounted(d))) = IF asking[d].at = "count" THEN 1 ELSE 0
    BY DEF Owed
  <2>5. CASE d = c
    BY <1>3, <2>3, <2>4, <2>5
  <2>6. CASE d # c
    BY <1>3, <2>3, <2>4, <2>6
  <2> QED BY <2>5, <2>6
<1>6. ASSUME NEW i \in 1..Len(window'), ~window'[i].counted
      PROVE  window'[i].ids = asking'[window'[i].by].ids
  <2>1. ASSUME NEW j \in 1..Len(full), ~full[j].counted PROVE full[j].ids = asking'[full[j].by].ids
    <3>1. CASE j = Len(full)
      <4>1. full[j] = Event(c)
        BY <1>1, <3>1, AppendProperties
      <4> QED BY <1>3, <1>4, <4>1
    <3>2. CASE j # Len(full)
      <4>1. j \in 1..Len(window) /\ full[j] = window[j]
        BY <1>1, <3>2, AppendProperties
      <4>2. window[j] \in Events /\ window[j].ids = asking[window[j].by].ids
        BY <1>1, <2>1, <4>1 DEF Owed
      <4>3. window[j].by \in Recorder
        BY <4>2 DEF Events
      <4> QED BY <1>3, <4>1, <4>2, <4>3
    <3> QED BY <3>1, <3>2
  <2>2. window' = IF over THEN Tail(full) ELSE full
    BY DEF Push
  <2> HIDE DEF full
  <2>3. CASE over
    <3>1. Len(Tail(full)) = Len(full) - 1 /\ \A j \in 1..Len(full) - 1 : Tail(full)[j] = full[j + 1]
      BY <1>1, HeadTailProperties
    <3>2. i + 1 \in 1..Len(full) /\ window'[i] = full[i + 1]
      BY <1>1, <1>6, <2>2, <2>3, <3>1
    <3> QED BY <1>6, <2>1, <3>2
  <2>4. CASE ~over
    BY <1>6, <2>1, <2>2, <2>4
  <2> QED BY <2>3, <2>4
<1>7. ASSUME NEW p \in Pair PROVE counts'[p] = Cardinality(Hits(window', CountedWith(p)))
  <2> DEFINE h == Cardinality(Hits(window, CountedWith(p)))
             g == IF over /\ Head(full) \in CountedWith(p) THEN 1 ELSE 0
  <2>1. Event(c) \notin CountedWith(p)
    BY <1>4 DEF CountedWith
  <2>2. h \in Nat /\ counts[p] = h /\ counts[p] \in Nat
    BY <1>1, HitsFinite DEF CountedRight
  <2>3. Cardinality(Hits(window', CountedWith(p))) = h - g
    <3> HIDE DEF full
    <3> QED BY <2>1, <2>2, PushedHits DEF full
  <2>4. Cardinality(Hits(window', CountedWith(p))) \in Nat
    BY HitsFinite DEF Types
  <2>5. counts'[p] = counts[p] - g
    <3>1. over => (Head(full) \in CountedWith(p) <=> p \in PairsOf(Head(full).ids))
      BY <1>1, <1>2 DEF CountedWith
    <3>2. counts' = IF over THEN DecrementPairs(Head(full).ids) ELSE counts
      BY DEF Push
    <3> HIDE DEF h, over, full
    <3> QED BY <1>1, <2>2, <2>3, <2>4, <3>1, <3>2 DEF DecrementPairs
  <2> QED BY <2>2, <2>3, <2>5
<1>8. \A p : CountedWith(p)' = CountedWith(p)
  BY DEF CountedWith, PairsOf
<1>9. \A d : Uncounted(d)' = Uncounted(d)
  BY DEF Uncounted
<1>10. Owed'
  BY <1>5, <1>6, <1>9 DEF Owed
<1> QED BY <1>7, <1>8, <1>10 DEF CountedRight

LEMMA CountExact ==
  ASSUME Types, Owed, CountedRight, NEW c \in Recorder, Count(c)
  PROVE  Owed' /\ CountedRight'
<1>1. /\ window \in Seq(Events) /\ asking \in [Recorder -> Requests] /\ counts \in [Pair -> Nat]
      /\ window' \in Seq(Events)
  BY Counted DEF Types
<1>2. asking[c].at = "count" /\ asking'[c].at = "idle"
      /\ \A d \in Recorder \ {c} : asking'[d] = asking[d]
  BY <1>1 DEF Count, Quiet
<1>3. /\ Len(window') = Len(window)
      /\ \A i \in 1..Len(window) :
            /\ window[i] \in Events /\ window'[i] \in Events
            /\ window'[i].ids = window[i].ids /\ window'[i].by = window[i].by
            /\ window'[i].counted <=> window[i].counted \/ window[i].by = c
  BY Counted DEF Events
<1>4. PICK k : Hits(window, Uncounted(c)) = {k}
  <2>1. Cardinality(Hits(window, Uncounted(c))) = 1
    BY <1>2 DEF Owed
  <2> QED BY <1>1, <2>1, HitsFinite, FS_Singleton
<1>5. k \in 1..Len(window) /\ window[k].by = c /\ ~window[k].counted /\ window[k].ids = asking[c].ids
  <2>1. k \in 1..Len(window) /\ window[k] \in Uncounted(c)
    BY <1>4 DEF Hits
  <2> QED BY <2>1 DEF Uncounted, Owed
<1>6. \A d : Uncounted(d)' = Uncounted(d)
  BY DEF Uncounted
<1>7. ASSUME NEW d \in Recorder
      PROVE  Cardinality(Hits(window', Uncounted(d))) = IF asking'[d].at = "count" THEN 1 ELSE 0
  <2>1. CASE d = c
    <3>1. Hits(window', Uncounted(d)) = {}
      BY <1>3, <2>1 DEF Hits, Uncounted
    <3> QED BY <1>2, <2>1, <3>1, FS_EmptySet
  <2>2. CASE d # c
    <3>1. \A i \in 1..Len(window) : window'[i] \in Uncounted(d) <=> window[i] \in Uncounted(d)
      BY <1>3, <2>2 DEF Uncounted
    <3>2. Hits(window', Uncounted(d)) = Hits(window, Uncounted(d))
      BY <1>3, <3>1, HitsSame
    <3> QED BY <1>2, <2>2, <3>2 DEF Owed
  <2> QED BY <2>1, <2>2
<1>8. ASSUME NEW i \in 1..Len(window'), ~window'[i].counted
      PROVE  window'[i].ids = asking'[window'[i].by].ids
  <2>1. window[i] \in Events /\ ~window[i].counted /\ window[i].by # c
    BY <1>3, <1>8
  <2>2. window[i].by \in Recorder /\ window[i].ids = asking[window[i].by].ids
    BY <1>3, <1>8, <2>1 DEF Owed, Events
  <2> QED BY <1>2, <1>3, <1>8, <2>1, <2>2
<1>9. ASSUME NEW p \in Pair PROVE counts'[p] = Cardinality(Hits(window', CountedWith(p)))
  <2> DEFINE H == Hits(window, CountedWith(p))
             G == Hits(window', CountedWith(p))
  <2>1. IsFiniteSet(H) /\ Cardinality(H) \in Nat /\ counts[p] = Cardinality(H) /\ k \notin H
    BY <1>1, <1>5, HitsFinite DEF CountedRight, Hits, CountedWith
  <2>2. counts'[p] = counts[p] + (IF p \in PairsOf(asking[c].ids) THEN 1 ELSE 0)
    BY DEF Count, IncrementPairs
  <2>3. \A i \in 1..Len(window) : i \in G <=> window'[i] \in CountedWith(p)
    BY <1>3 DEF Hits
  <2>4. \A i \in 1..Len(window) : i \in H <=> window[i] \in CountedWith(p)
    BY DEF Hits
  <2>5. \A i \in (1..Len(window)) \ {k} : window[i].by = c => window[i].counted
    BY <1>3, <1>4 DEF Hits, Uncounted
  <2>6. \A i \in (1..Len(window)) \ {k} : i \in G <=> i \in H
    BY <1>3, <2>3, <2>4, <2>5 DEF CountedWith
  <2>7. k \in G <=> p \in PairsOf(asking[c].ids)
    BY <1>3, <1>5, <2>3 DEF CountedWith
  <2>8. H \subseteq 1..Len(window) /\ G \subseteq 1..Len(window)
    BY <1>3 DEF Hits
  <2> HIDE DEF H, G
  <2>9. CASE p \in PairsOf(asking[c].ids)
    <3>1. G = H \cup {k}
      BY <1>5, <2>6, <2>7, <2>8, <2>9
    <3>2. Cardinality(H \cup {k}) = Cardinality(H) + 1
      BY <2>1, FS_AddElement
    <3> QED BY <2>1, <2>2, <2>9, <3>1, <3>2 DEF G
  <2>10. CASE p \notin PairsOf(asking[c].ids)
    <3>1. G = H
      <4>1. k \notin G
        BY <2>7, <2>10
      <4>2. k \notin H
        BY <2>1
      <4>3. \A i \in 1..Len(window) : i \in G <=> i \in H
        BY <2>6, <4>1, <4>2, Zenon
      <4>4. \A i : i \in G <=> i \in H
        BY <2>8, <4>3, Zenon
      <4> QED BY <4>4, Zenon
    <3> QED BY <2>1, <2>2, <2>10, <3>1 DEF G
  <2> QED BY <2>9, <2>10
<1>10. \A p : CountedWith(p)' = CountedWith(p)
  BY DEF CountedWith, PairsOf
<1>11. Owed'
  BY <1>6, <1>7, <1>8 DEF Owed
<1> QED BY <1>9, <1>10, <1>11 DEF CountedRight

LEMMA DropExact ==
  ASSUME Types, Owed, CountedRight, NEW m \in Maintainer, DropOld(m), ~raced'
  PROVE  Owed' /\ CountedRight'
<1>1. /\ window \in Seq(Events) /\ counts \in [Pair -> Nat] /\ window # <<>> /\ Head(window) \in Events
      /\ window' = Tail(window) /\ window' \in Seq(Events) /\ asking' = asking
      /\ counts' = DecrementPairs(Head(window).ids)
  BY Dropped DEF Types, DropOld
<1>2. Head(window).counted
  BY DEF DropOld, Types
<1>3. ASSUME NEW d \in Recorder
      PROVE  Cardinality(Hits(window', Uncounted(d))) = IF asking'[d].at = "count" THEN 1 ELSE 0
  <2>1. Head(window) \notin Uncounted(d)
    BY <1>2 DEF Uncounted
  <2>2. Cardinality(Hits(window, Uncounted(d))) = IF asking[d].at = "count" THEN 1 ELSE 0
    BY DEF Owed
  <2>3. Cardinality(Hits(Tail(window), Uncounted(d))) = Cardinality(Hits(window, Uncounted(d))) - 0
    BY <1>1, <2>1, HitsTail
  <2> QED BY <1>1, <2>2, <2>3
<1>4. ASSUME NEW i \in 1..Len(window'), ~window'[i].counted
      PROVE  window'[i].ids = asking'[window'[i].by].ids
  <2>1. Len(Tail(window)) = Len(window) - 1 /\ \A j \in 1..Len(window) - 1 : Tail(window)[j] = window[j + 1]
        /\ Len(window) \in Nat
    BY <1>1, HeadTailProperties, LenProperties
  <2>2. i + 1 \in 1..Len(window) /\ window'[i] = window[i + 1]
    BY <1>1, <1>4, <2>1
  <2> QED BY <1>1, <1>4, <2>2 DEF Owed
<1>5. ASSUME NEW p \in Pair PROVE counts'[p] = Cardinality(Hits(window', CountedWith(p)))
  <2> DEFINE h == Cardinality(Hits(window, CountedWith(p)))
             g == IF Head(window) \in CountedWith(p) THEN 1 ELSE 0
  <2>1. h \in Nat /\ counts[p] = h
    BY <1>1, HitsFinite DEF CountedRight
  <2>2. Cardinality(Hits(window', CountedWith(p))) = h - g
    BY <1>1, HitsTail
  <2>3. Cardinality(Hits(window', CountedWith(p))) \in Nat
    BY <1>1, HitsFinite
  <2>4. g = 1 <=> p \in PairsOf(Head(window).ids)
    BY <1>1, <1>2 DEF CountedWith
  <2>5. g \in {0, 1}
    OBVIOUS
  <2> HIDE DEF h, g
  <2> QED BY <1>1, <2>1, <2>2, <2>3, <2>4, <2>5 DEF DecrementPairs
<1>6. \A p : CountedWith(p)' = CountedWith(p) /\ \A d : Uncounted(d)' = Uncounted(d)
  BY DEF CountedWith, Uncounted, PairsOf
<1>7. Owed'
  BY <1>3, <1>4, <1>6 DEF Owed
<1> QED BY <1>5, <1>6, <1>7 DEF CountedRight

(* Nothing is owed when the window is cleared: what is owed is in it.      *)
LEMMA ClearExact ==
  ASSUME Types, Owed, Clear, ~raced'
  PROVE  Owed' /\ CountedRight'
<1>1. window \in Seq(Events) /\ window' = <<>> /\ asking' = asking
      /\ \A i \in 1..Len(window) : window[i].counted
  <2>1. window \in Seq(Events) /\ DOMAIN window = 1..Len(window)
    BY DEF Types
  <2>2. \A i \in DOMAIN window : window[i].counted
    BY DEF Clear
  <2> QED BY <2>1, <2>2 DEF Clear
<1>2. ASSUME NEW d \in Recorder
      PROVE  Cardinality(Hits(window', Uncounted(d))) = IF asking'[d].at = "count" THEN 1 ELSE 0
  <2>1. Hits(window, Uncounted(d)) = {}
    BY <1>1 DEF Hits, Uncounted
  <2>2. Cardinality(Hits(window, Uncounted(d))) = 0
    BY <2>1, FS_EmptySet
  <2>3. asking[d].at # "count"
    BY <2>2 DEF Owed
  <2> QED BY <1>1, <2>3, HitsNone
<1>3. Owed'
  <2>1. \A d : Uncounted(d)' = Uncounted(d)
    BY DEF Uncounted
  <2>2. \A i \in 1..Len(window') : FALSE
    BY <1>1, EmptySeq
  <2> QED BY <1>2, <2>1, <2>2 DEF Owed
<1>4. \A p \in Pair : counts'[p] = 0
  BY DEF Clear
<1> QED BY <1>1, <1>3, <1>4, HitsNone DEF CountedRight

LEMMA ExactNext == Types /\ Types' /\ Exact /\ [Next]_vars => Exact'
<1> SUFFICES ASSUME Types, Types', Exact, [Next]_vars, ~raced'
             PROVE  Owed' /\ CountedRight'
  BY DEF Exact
<1>1. ~raced
  BY DEF Types, Next, Clear, Tick, RecordAccess, Record, Push, Count, Start, Cycle, Connect, Check,
         InsertEdge, EndReinforce, DropOld, EndDecay, Insert, Evict, EvictEdge, vars, tracker
<1>2. Owed /\ CountedRight
  BY <1>1 DEF Exact
<1>3. ASSUME NEW c \in Recorder, RecordAccess(c) PROVE Owed' /\ CountedRight'
  <2>1. UNCHANGED <<window, counts>> /\ asking[c].at = "idle" /\ asking'[c].at = "push"
        /\ \A d \in Recorder \ {c} : asking'[d] = asking[d]
    BY <1>3 DEF RecordAccess, tracker, Types
  <2>2. \A d : Uncounted(d)' = Uncounted(d)
    BY DEF Uncounted
  <2>3. CountedRight'
    BY <1>2, <2>1 DEF CountedRight, CountedWith, PairsOf
  <2>4. \A d \in Recorder : asking'[d].at = "count" <=> asking[d].at = "count"
    BY <2>1
  <2>5. Hits(window, Uncounted(c)) = {}
    <3>1. Cardinality(Hits(window, Uncounted(c))) = 0
      BY <1>2, <2>1 DEF Owed
    <3> QED BY <3>1, HitsFinite, FS_EmptySet DEF Types
  <2>6. ASSUME NEW i \in 1..Len(window), ~window[i].counted
        PROVE  window[i].ids = asking'[window[i].by].ids
    <3>1. window[i] \in Events /\ window[i].by \in Recorder
      <4>1. window[i] \in Events
        BY DEF Types
      <4> QED BY <4>1 DEF Events
    <3>2. window[i].by # c
      BY <2>5, <2>6, <3>1 DEF Hits, Uncounted
    <3> QED BY <1>2, <2>1, <2>6, <3>1, <3>2 DEF Owed
  <2> QED BY <1>2, <2>1, <2>2, <2>3, <2>4, <2>6 DEF Owed
<1>4. ASSUME UNCHANGED <<window, counts, asking>> PROVE Owed' /\ CountedRight'
  BY <1>2, <1>4 DEF Owed, CountedRight, Uncounted, CountedWith, PairsOf
<1>5. \/ UNCHANGED <<window, counts, asking>> \/ Clear
      \/ \E c \in Recorder : RecordAccess(c) \/ Push(c) \/ Count(c)
      \/ \E m \in Maintainer : DropOld(m)
  BY DEF Next, Tick, Record, Start, Cycle, Connect, Check, InsertEdge, EndReinforce, EndDecay,
         Insert, Evict, EvictEdge, vars, tracker
<1> QED BY <1>2, <1>3, <1>4, <1>5, PushExact, CountExact, DropExact, ClearExact

LEMMA InitExact == Init => Exact
<1> SUFFICES ASSUME Init PROVE Owed /\ CountedRight
  BY DEF Exact
<1>1. window = <<>> /\ \A c \in Recorder : asking[c].at = "idle"
  BY DEF Init, Quiet
<1>2. \A i \in 1..Len(window) : FALSE
  BY <1>1, EmptySeq
<1>3. Owed
  BY <1>1, <1>2, HitsNone DEF Owed
<1>4. CountedRight
  BY <1>1, HitsNone DEF Init, CountedRight
<1> QED BY <1>3, <1>4

LEMMA ExactImplied == Types /\ Exact => CountsExact
<1> SUFFICES ASSUME Types, Owed, CountedRight, Settled, NEW p \in Pair
             PROVE  counts[p] = Cardinality(Together(p))
  BY DEF Exact, CountsExact
<1>1. ASSUME NEW i \in 1..Len(window) PROVE window[i] \in Events /\ window[i].counted
  <2>1. window[i] \in Events /\ window[i].by \in Recorder
    <3>1. window[i] \in Events
      BY DEF Types
    <3> QED BY <3>1 DEF Events
  <2>2. Cardinality(Hits(window, Uncounted(window[i].by))) = 0
    BY <2>1 DEF Owed, Settled
  <2>3. Hits(window, Uncounted(window[i].by)) = {}
    BY <2>2, HitsFinite, FS_EmptySet DEF Types
  <2> QED BY <2>1, <2>3 DEF Hits, Uncounted, Events
<1>2. Hits(window, CountedWith(p)) = Hits(window, With(p))
  BY <1>1 DEF Hits, CountedWith, With
<1> QED BY <1>2, TogetherHits DEF CountedRight

(* A count is the number of times the two were used together within the    *)
(* window, when nobody is recording and nothing left the window uncounted. *)
THEOREM CountsRight == Spec => []CountsExact
<1>1. Spec => []Exact
  BY InitExact, InitTypes, NextTypes, ExactNext, PTL DEF Spec
<1> QED BY <1>1, AlwaysTypes, ExactImplied, PTL

-----------------------------------------------------------------------------
(* One cycle at a time.                                                    *)

(* What a cycle is about to insert is in the store in neither direction,   *)
(* and connects no node with itself.                                       *)
Fresh ==
    /\ \A m \in Maintainer : \A i \in 1..Len(job[m].todo) : job[m].todo[i][1] # job[m].todo[i][2]
    /\ \A m \in Maintainer : job[m].at = "insert" => ~EdgeExists(Head(job[m].todo))
    /\ OneDirection

(* As long as one cycle runs at a time, two nodes are connected in one     *)
(* direction only, in whatever order their triples are come across.        *)
THEOREM EdgesOneWay ==
  ASSUME \A m, n \in Maintainer : m = n
  PROVE  Spec => []OneDirection
<1>1. Init => Fresh
  <2>1. \A i \in 1..Len(<<>>) : FALSE
    BY EmptySeq
  <2> QED BY <2>1 DEF Init, Idle, Fresh, OneDirection
<1>2. Types /\ Fresh /\ [Next]_vars => Fresh'
  <2> SUFFICES ASSUME Types, Fresh, [Next]_vars PROVE Fresh'
    OBVIOUS
  <2>1. job \in [Maintainer -> Jobs] /\ \A m \in Maintainer : job[m].todo \in Seq(Node \X Node)
    BY DEF Types, Jobs
  <2>2. \A m \in Maintainer : job[m].todo # <<>> =>
            /\ Tail(job[m].todo) \in Seq(Node \X Node)
            /\ \A i \in 1..Len(Tail(job[m].todo)) : Tail(job[m].todo)[i][1] # Tail(job[m].todo)[i][2]
            /\ Head(job[m].todo) \in Node \X Node /\ Head(job[m].todo)[1] # Head(job[m].todo)[2]
    <3> SUFFICES ASSUME NEW m \in Maintainer, job[m].todo # <<>>
                 PROVE  /\ Tail(job[m].todo) \in Seq(Node \X Node)
                        /\ \A i \in 1..Len(Tail(job[m].todo)) :
                               Tail(job[m].todo)[i][1] # Tail(job[m].todo)[i][2]
                        /\ Head(job[m].todo) \in Node \X Node
                        /\ Head(job[m].todo)[1] # Head(job[m].todo)[2]
      OBVIOUS
    <3> DEFINE w == job[m].todo
    <3>1. w \in Seq(Node \X Node) /\ w # <<>> /\ \A i \in 1..Len(w) : w[i][1] # w[i][2]
      BY <2>1 DEF Fresh
    <3> HIDE DEF w
    <3>2. /\ Tail(w) \in Seq(Node \X Node) /\ Len(Tail(w)) = Len(w) - 1 /\ Len(w) \in Nat \ {0}
          /\ \A i \in 1..Len(Tail(w)) : Tail(w)[i] = w[i + 1]
          /\ Head(w) = w[1] /\ Head(w) \in Node \X Node
      BY <3>1, HeadTailProperties, LenProperties, EmptySeq
    <3>3. \A i \in 1..Len(Tail(w)) : Tail(w)[i][1] # Tail(w)[i][2]
      BY <3>1, <3>2
    <3>4. Head(w)[1] # Head(w)[2]
      BY <3>1, <3>2
    <3> QED BY <3>2, <3>3, <3>4 DEF w
  <2>3. ASSUME UNCHANGED <<edges, job>> PROVE Fresh'
    BY <2>3 DEF Fresh, EdgeExists, OneDirection
  <2>4. \A i \in 1..Len(<<>>) : FALSE
    BY EmptySeq
  <2>5. ASSUME NEW m \in Maintainer, Start(m) \/ EndReinforce(m) \/ EndDecay(m) PROVE Fresh'
    <3>1. /\ UNCHANGED edges /\ job'[m].at # "insert"
          /\ job'[m].todo = <<>> \/ job'[m].todo = job[m].todo
          /\ \A n \in Maintainer \ {m} : job'[n] = job[n]
      <4>1. job[m] \in Jobs
        BY <2>1
      <4>2. CASE Start(m)
        BY <2>1, <4>2 DEF Start, Idle
      <4>3. CASE EndReinforce(m)
        BY <2>1, <4>1, <4>3 DEF EndReinforce, Idle, Jobs
      <4>4. CASE EndDecay(m)
        BY <2>1, <4>4 DEF EndDecay, Idle
      <4> QED BY <2>5, <4>2, <4>3, <4>4
    <3> QED BY <2>4, <3>1 DEF Fresh, EdgeExists, OneDirection
  <2>6. ASSUME NEW m \in Maintainer, Connect(m) PROVE Fresh'
    <3>1. PICK p \in job[m].pairs : job' = [job EXCEPT ![m] =
                IF {p[1], p[2]} \subseteq stored
                THEN [@ EXCEPT !.at = "check", !.pairs = job[m].pairs \ {p}, !.todo = Links(p)]
                ELSE Idle]
      BY <2>6 DEF Connect
    <3>2. /\ UNCHANGED edges /\ job'[m].at # "insert"
          /\ job'[m].todo = <<>> \/ job'[m].todo = Links(p)
          /\ \A n \in Maintainer \ {m} : job'[n] = job[n]
      <4>1. job[m] \in Jobs /\ UNCHANGED edges
        BY <2>1, <2>6 DEF Connect
      <4>2. CASE {p[1], p[2]} \subseteq stored
        BY <2>1, <3>1, <4>1, <4>2 DEF Jobs
      <4>3. CASE ~({p[1], p[2]} \subseteq stored)
        BY <2>1, <3>1, <4>1, <4>3 DEF Idle
      <4> QED BY <4>2, <4>3
    <3>3. p \in Pair
      BY <2>1 DEF Jobs
    <3>4. \A i \in 1..Len(job'[m].todo) : job'[m].todo[i][1] # job'[m].todo[i][2]
      BY <2>4, <3>2, <3>3, LinksType
    <3> QED BY <3>2, <3>4 DEF Fresh, EdgeExists, OneDirection
  <2>7. ASSUME NEW m \in Maintainer, Check(m) PROVE Fresh'
    <3>1. /\ UNCHANGED edges /\ \A n \in Maintainer \ {m} : job'[n] = job[n]
          /\ \/ job'[m].todo = job[m].todo /\ job'[m].at # "insert"
             \/ job'[m].todo = Tail(job[m].todo) /\ job'[m].at # "insert" /\ job[m].todo # <<>>
             \/ job'[m].todo = job[m].todo /\ ~EdgeExists(Head(job[m].todo))
      <4>1. job[m] \in Jobs /\ job[m].at = "check" /\ UNCHANGED edges
        BY <2>1, <2>7 DEF Check
      <4>2. CASE job[m].todo = <<>>
        BY <2>1, <2>7, <4>1, <4>2 DEF Check, Jobs
      <4>3. CASE job[m].todo # <<>> /\ EdgeExists(Head(job[m].todo))
        BY <2>1, <2>7, <4>1, <4>3 DEF Check, Jobs
      <4>4. CASE job[m].todo # <<>> /\ ~EdgeExists(Head(job[m].todo))
        BY <2>1, <2>7, <4>1, <4>4 DEF Check, Jobs
      <4> QED BY <4>2, <4>3, <4>4
    <3>2. \A i \in 1..Len(job'[m].todo) : job'[m].todo[i][1] # job'[m].todo[i][2]
      <4>1. CASE job'[m].todo = job[m].todo
        BY <4>1 DEF Fresh
      <4>2. CASE job'[m].todo = Tail(job[m].todo) /\ job[m].todo # <<>>
        BY <2>2, <4>2
      <4> QED BY <3>1, <4>1, <4>2
    <3>3. job'[m].at = "insert" => ~EdgeExists(Head(job'[m].todo))
      BY <3>1
    <3> QED BY <3>1, <3>2, <3>3 DEF Fresh, EdgeExists, OneDirection
  <2>8. ASSUME NEW m \in Maintainer, InsertEdge(m) PROVE Fresh'
    <3> DEFINE e == Head(job[m].todo)
    <3>1. /\ job[m].at = "insert" /\ job[m].todo # <<>> /\ edges' = edges \cup {e}
          /\ job'[m].at = "check" /\ job'[m].todo = Tail(job[m].todo)
      BY <2>1, <2>8 DEF InsertEdge, Types, Jobs
    <3>2. \A n \in Maintainer : n = m
      OBVIOUS
    <3>3. e \notin edges /\ <<e[2], e[1]>> \notin edges /\ e[1] # e[2] /\ e \in Node \X Node
      BY <2>2, <3>1 DEF Fresh, EdgeExists
    <3> HIDE DEF e
    <3>4. \A d \in edges \cup {e} : <<d[2], d[1]>> \notin edges \cup {e}
      <4>1. \A d \in edges : d \in Node \X Node /\ <<d[2], d[1]>> \notin edges
        BY DEF Types, Fresh, OneDirection
      <4>2. ASSUME NEW d \in edges PROVE <<d[2], d[1]>> # e
        <5>1. SUFFICES ASSUME <<d[2], d[1]>> = e PROVE FALSE
          OBVIOUS
        <5>2. e[1] = d[2] /\ e[2] = d[1]
          BY <5>1
        <5> QED BY <3>3, <4>1, <5>2
      <4>3. <<e[2], e[1]>> # e
        BY <3>3
      <4> QED BY <3>3, <4>1, <4>2, <4>3
    <3> QED BY <2>2, <3>1, <3>2, <3>4 DEF Fresh, OneDirection
  <2>9. ASSUME NEW e \in edges, EvictEdge(e) PROVE Fresh'
    BY <2>9 DEF EvictEdge, Fresh, EdgeExists, OneDirection
  <2> QED BY <2>3, <2>5, <2>6, <2>7, <2>8, <2>9
          DEF Next, Clear, Tick, RecordAccess, Record, Push, Count, Cycle, DropOld, Insert, Evict,
              vars, tracker
<1>3. Fresh => OneDirection
  BY DEF Fresh
<1> QED BY <1>1, <1>2, <1>3, AlwaysTypes, PTL DEF Spec
=============================================================================
