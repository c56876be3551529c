---------------------------- MODULE LibraryProofs ----------------------------
(***************************************************************************)
(* Proofs about the components of Library, for any values of the constants *)
(* that LibraryAssumption allows.                                          *)
(***************************************************************************)
EXTENDS Library, SequenceTheorems, FunctionTheorems, FiniteSetTheorems, TLAPS

(* A behaviour of Library is one of each component, which may stutter.     *)
LEMMA PartsRun ==
  Spec => /\ File!Spec /\ Springs!Spec /\ PgTriples!Spec
          /\ PgVkb!Spec /\ Requests!Spec /\ Social!Spec
          /\ Feedback!Spec /\ Blend!Spec /\ Working!Spec
<1>1. Init => /\ File!Init /\ Springs!Init /\ PgTriples!Init
              /\ PgVkb!Init /\ Requests!Init /\ Social!Init
              /\ Feedback!Init /\ Blend!Init /\ Working!Init
  BY DEF Init
<1>2. [Next]_vars => /\ [File!Next]_File!vars /\ [Springs!Next]_Springs!vars /\ [PgTriples!Next]_PgTriples!vars
                     /\ [PgVkb!Next]_PgVkb!vars /\ [Requests!Next]_Requests!vars /\ [Social!Next]_Social!vars
  BY DEF Next, vars, fileVars, springVars, pgVars, vkbVars, readVars, socialVars, learningVars,
         feedbackVars, blendVars, workingVars,
         File!vars, Springs!vars, Springs!selector, PgTriples!vars, PgTriples!tables, PgTriples!history,
         PgVkb!vars, Requests!vars, Requests!store, Social!vars, Social!history
<1>3. [Next]_vars => [Feedback!Next]_Feedback!vars /\ [Blend!Next]_Blend!vars /\ [Working!Next]_Working!vars
  BY DEF Next, vars, learningVars, feedbackVars, blendVars, workingVars,
         Feedback!vars, Blend!vars, Working!vars
<1> QED BY <1>1, <1>2, <1>3, PTL DEF Spec, File!Spec, Springs!Spec, PgTriples!Spec, PgVkb!Spec, Requests!Spec, Social!Spec,
                                     Feedback!Spec, Blend!Spec, Working!Spec

-----------------------------------------------------------------------------
(* Springs: the selector that says when to compute vectors anew.           *)

SpringsJobs ==
    [at : Springs!Site, kind : Springs!Batch, ends : SUBSET Node, asked : Asked \cup {Dimensions},
     view : SUBSET Node, count : 0..MaxCount]

Decided == {"last", "set"}
Computing == {"queued", "view", "store", "complete"}

(* The flag is up only for a batch under way.  Without a race, a worker    *)
(* that has found it down or is at a batch is the only one of the kind,    *)
(* and the flag is up for as long as it is at the batch.                   *)
FlagsFit ==
    /\ \A k \in Springs!Batch : pending[k] => \E w \in Worker : job[w].kind = k /\ job[w].at \in Computing
    /\ \A k \in Springs!Batch : ~raced[k] =>
          /\ \A w \in Worker : job[w].kind = k /\ job[w].at \in Computing => pending[k]
          /\ \A w, v \in Worker :
                /\ job[w].kind = k /\ job[w].at \in Decided \cup Computing
                /\ job[v].kind = k /\ job[v].at \in Decided \cup Computing
                => w = v

SpringsData ==
    /\ known \in SUBSET Node
    /\ vectors \in [Springs!Batch \cup {"spring"} -> SUBSET known]
    /\ counter \in 0..MaxCount /\ age \in 0..MaxAge
    /\ since \in [Springs!Batch -> 0..Cooldown]
    /\ pending \in [Springs!Batch -> BOOLEAN] /\ raced \in [Springs!Batch -> BOOLEAN]

Sees(j, S) == j.ends \subseteq S /\ j.view \subseteq S

SpringsInv ==
    /\ SpringsData
    /\ job \in [Worker -> SpringsJobs] /\ \A w \in Worker : Sees(job[w], known)
    /\ FlagsFit

LEMMA IdleJob ==
  ASSUME Springs!SpringsAssumption
  PROVE  Springs!Idle \in SpringsJobs /\ Springs!Idle.at = "idle" /\ \A S : Sees(Springs!Idle, S)
  BY DEF Springs!SpringsAssumption, SpringsJobs, Springs!Idle, Springs!Site, Springs!Batch, Sees

LEMMA SpringsInit ==
  ASSUME Springs!SpringsAssumption, Springs!Init
  PROVE  SpringsInv
<1> USE DEF Springs!SpringsAssumption, Springs!Batch
<1>1. job \in [Worker -> SpringsJobs] /\ \A w \in Worker : job[w] = Springs!Idle
  BY IdleJob DEF Springs!Init
<1>2. \A w \in Worker : job[w].at = "idle" /\ Sees(job[w], known)
  BY <1>1, IdleJob
<1>3. SpringsData
  BY DEF Springs!Init, SpringsData
<1>4. FlagsFit
  BY <1>2 DEF Springs!Init, FlagsFit, Decided, Computing
<1> QED BY <1>1, <1>2, <1>3, <1>4 DEF SpringsInv

(* One worker moves on to j.                                               *)
LEMMA Moves ==
  ASSUME SpringsInv, SpringsData', known \subseteq known',
         NEW w \in Worker, NEW j \in SpringsJobs, job' = [job EXCEPT ![w] = j], Sees(j, known'), FlagsFit'
  PROVE  SpringsInv'
<1>1. job' \in [Worker -> SpringsJobs]
  BY DEF SpringsInv
<1>2. \A v \in Worker : job'[v] = IF v = w THEN j ELSE job[v]
  BY DEF SpringsInv
<1>3. \A v \in Worker : Sees(job'[v], known')
  BY <1>2 DEF SpringsInv, Sees
<1> QED BY <1>1, <1>3 DEF SpringsInv, Sees

(* A step that begins or ends no batch, and is not the look at the flag.   *)
LEMMA Beside ==
  ASSUME SpringsInv, UNCHANGED <<pending, raced>>,
         NEW w \in Worker, NEW j \in SpringsJobs, job' = [job EXCEPT ![w] = j],
         j.at \in Computing <=> job[w].at \in Computing,
         j.at \in Decided => job[w].at \in Decided,
         j.at \in Decided \cup Computing => j.kind = job[w].kind
  PROVE  FlagsFit'
<1>1. \A v \in Worker : job'[v] = IF v = w THEN j ELSE job[v]
  BY DEF SpringsInv
<1>2. \A v \in Worker :
        /\ job'[v].at \in Computing <=> job[v].at \in Computing
        /\ job'[v].at \in Decided => job[v].at \in Decided
        /\ job'[v].at \in Decided \cup Computing => job'[v].kind = job[v].kind
        /\ job[v].at \in Computing => job'[v].kind = job[v].kind
  BY <1>1
<1>3. FlagsFit
  BY DEF SpringsInv
<1>4. ASSUME NEW k \in Springs!Batch, pending'[k]
      PROVE  \E v \in Worker : job'[v].kind = k /\ job'[v].at \in Computing
  <2>1. PICK v \in Worker : job[v].kind = k /\ job[v].at \in Computing
    BY <1>3, <1>4 DEF FlagsFit
  <2> QED BY <1>2, <2>1
<1>5. ASSUME NEW k \in Springs!Batch, ~raced'[k], NEW u \in Worker, job'[u].kind = k, job'[u].at \in Computing
      PROVE  pending'[k]
  BY <1>2, <1>3, <1>5 DEF FlagsFit
<1>6. ASSUME NEW k \in Springs!Batch, ~raced'[k], NEW u \in Worker, NEW v \in Worker,
             job'[u].kind = k, job'[u].at \in Decided \cup Computing,
             job'[v].kind = k, job'[v].at \in Decided \cup Computing
      PROVE  u = v
  <2>1. /\ job[u].kind = k /\ job[u].at \in Decided \cup Computing
        /\ job[v].kind = k /\ job[v].at \in Decided \cup Computing /\ ~raced[k]
    BY <1>2, <1>6
  <2> QED BY <1>3, <2>1 DEF FlagsFit
<1> QED BY <1>4, <1>5, <1>6 DEF FlagsFit

(* Counting an insertion, and pulling the nodes' vectors.                  *)
LEMMA InsertKeeps ==
  ASSUME Springs!SpringsAssumption, SpringsInv, NEW w \in Worker,
         Springs!RecordInsert(w) \/ Springs!MaybeResetWindow(w) \/ Springs!SpringNudge(w)
  PROVE  SpringsInv'
<1> USE DEF Springs!SpringsAssumption
<1>0. job[w] \in SpringsJobs /\ Sees(job[w], known) /\ SpringsData
  BY DEF SpringsInv
<1>1. CASE Springs!RecordInsert(w)
  <2>1. PICK s \in Node, o \in Node :
          /\ known' = known \cup {s, o}
          /\ job' = [job EXCEPT ![w].at = "window", ![w].ends = {s, o}]
    BY <1>1 DEF Springs!RecordInsert
  <2> DEFINE j == [job[w] EXCEPT !.at = "window", !.ends = {s, o}]
  <2>2. job' = [job EXCEPT ![w] = j]
    BY <1>0, <2>1 DEF SpringsInv
  <2>3. j \in SpringsJobs /\ j.at = "window" /\ job[w].at = "idle" /\ Sees(j, known')
    BY <1>0, <1>1, <2>1 DEF SpringsJobs, Springs!Site, Sees, Springs!RecordInsert
  <2>4. known \subseteq known' /\ known' \in SUBSET Node
    BY <1>0, <2>1 DEF SpringsData
  <2>5. UNCHANGED <<vectors, age, since, pending, raced>> /\ counter' \in 0..MaxCount
    BY <1>0, <1>1 DEF Springs!RecordInsert, SpringsData
  <2> HIDE DEF j
  <2>6. SpringsData'
    BY <1>0, <2>4, <2>5 DEF SpringsData
  <2>7. FlagsFit'
    BY <2>2, <2>3, <2>5, Beside DEF Decided, Computing
  <2> QED BY <2>2, <2>3, <2>4, <2>6, <2>7, Moves
<1>2. CASE Springs!MaybeResetWindow(w)
  <2> DEFINE j == [job[w] EXCEPT !.at = "gather"]
  <2>1. job' = [job EXCEPT ![w] = j] /\ UNCHANGED <<known, vectors, since, pending, raced>>
    BY <1>0, <1>2 DEF Springs!MaybeResetWindow, Springs!Go, SpringsInv
  <2>2. j \in SpringsJobs /\ j.at = "gather" /\ job[w].at = "window" /\ Sees(j, known')
    BY <1>0, <1>2, <2>1 DEF SpringsJobs, Springs!Site, Sees, Springs!MaybeResetWindow
  <2>3. SpringsData'
    BY <1>0, <1>2, <2>1 DEF Springs!MaybeResetWindow, SpringsData
  <2> HIDE DEF j
  <2>4. FlagsFit'
    BY <2>1, <2>2, Beside DEF Decided, Computing
  <2> QED BY <2>1, <2>2, <2>3, <2>4, Moves
<1>3. CASE Springs!SpringNudge(w)
  <2>1. UNCHANGED <<known, counter, age, since, pending, raced>> /\ job[w].at \in {"gather", "nudge"}
    BY <1>3 DEF Springs!SpringNudge, Springs!selector
  <2>2. CASE Springs!Go(w, "nudge") /\ UNCHANGED vectors
    <3> DEFINE j == [job[w] EXCEPT !.at = "nudge"]
    <3>1. job' = [job EXCEPT ![w] = j]
      BY <1>0, <2>2 DEF Springs!Go, SpringsInv
    <3>2. j \in SpringsJobs /\ j.at = "nudge" /\ Sees(j, known')
      BY <1>0, <2>1 DEF SpringsJobs, Springs!Site, Sees
    <3>3. SpringsData'
      BY <1>0, <2>1, <2>2 DEF SpringsData
    <3> HIDE DEF j
    <3>4. FlagsFit'
      BY <2>1, <3>1, <3>2, Beside DEF Decided, Computing
    <3> QED BY <2>1, <3>1, <3>2, <3>3, <3>4, Moves
  <2>3. CASE Springs!End(w) /\ vectors' = [vectors EXCEPT !["spring"] = @ \cup job[w].ends]
    <3>1. SpringsData'
      BY <1>0, <2>1, <2>3 DEF SpringsData, Sees
    <3>2. job' = [job EXCEPT ![w] = Springs!Idle]
      BY <2>3 DEF Springs!End
    <3>3. FlagsFit'
      BY <2>1, <3>2, IdleJob, Beside DEF Decided, Computing
    <3> QED BY <2>1, <3>1, <3>2, <3>3, IdleJob, Moves
  <2> QED BY <1>3, <2>2, <2>3 DEF Springs!SpringNudge
<1> QED BY <1>1, <1>2, <1>3

(* A worker that finds the flag down is at no batch of the kind, and if    *)
(* another is as far, that is a race.                                      *)
LEMMA FlagFound ==
  ASSUME SpringsInv, NEW w \in Worker, Springs!CheckPending(w), Springs!Go(w, "last")
  PROVE  SpringsInv'
<1> DEFINE k == job[w].kind
           j == [job[w] EXCEPT !.at = "last"]
<1>0. job[w] \in SpringsJobs /\ Sees(job[w], known) /\ SpringsData /\ FlagsFit /\ k \in Springs!Batch
  BY DEF SpringsInv, SpringsJobs
<1>1. /\ job' = [job EXCEPT ![w] = j]
      /\ UNCHANGED <<known, vectors, counter, age, since, pending>>
  BY <1>0 DEF Springs!CheckPending, Springs!Go, SpringsInv
<1>2. j \in SpringsJobs /\ j.at = "last" /\ j.kind = k /\ Sees(j, known') /\ job[w].at = "flag"
  BY <1>0, <1>1 DEF SpringsJobs, Springs!Site, Sees, Springs!CheckPending, Springs!Yes
<1>3. ~pending[k]
  <2>1. CASE pending[k]
    <3>1. job' = [job EXCEPT ![w] = Springs!Idle]
      BY <2>1 DEF Springs!CheckPending, Springs!Yes, Springs!End
    <3>2. job'[w] = Springs!Idle /\ job'[w] = j
      BY <1>1, <3>1 DEF SpringsInv
    <3> QED BY <1>2, <3>2 DEF Springs!Idle
  <2> QED BY <2>1
<1>4. raced' = [raced EXCEPT ![k] = raced[k] \/ Springs!At(k, {"last", "set"}) # {}]
  BY <1>3 DEF Springs!CheckPending, Springs!Meets
<1>5. /\ raced' \in [Springs!Batch -> BOOLEAN]
      /\ \A b \in Springs!Batch : ~raced'[b] => ~raced[b]
      /\ ~raced'[k] => Springs!At(k, {"last", "set"}) = {}
  <2>1. (raced[k] \/ Springs!At(k, {"last", "set"}) # {}) \in BOOLEAN
    BY <1>0 DEF SpringsData
  <2> QED BY <1>0, <1>4, <2>1 DEF SpringsData
<1> HIDE DEF j, k
<1>6. SpringsData'
  BY <1>0, <1>1, <1>5 DEF SpringsData
<1>7. \A v \in Worker : job'[v] = IF v = w THEN j ELSE job[v]
  BY <1>1 DEF SpringsInv
<1>8. ~raced'[k] => \A v \in Worker : ~(job[v].kind = k /\ job[v].at \in Decided \cup Computing)
  <2> SUFFICES ASSUME ~raced'[k], NEW v \in Worker, job[v].kind = k, job[v].at \in Decided \cup Computing
               PROVE  FALSE
    OBVIOUS
  <2>1. job[v].at \notin Decided
    BY <1>5 DEF Springs!At, Decided
  <2>2. job[v].at \notin Computing
    BY <1>0, <1>3, <1>5 DEF FlagsFit
  <2> QED BY <2>1, <2>2
<1>9. FlagsFit'
  <2>1. ASSUME NEW b \in Springs!Batch, pending'[b]
        PROVE  \E v \in Worker : job'[v].kind = b /\ job'[v].at \in Computing
    <3>1. PICK v \in Worker : job[v].kind = b /\ job[v].at \in Computing
      BY <1>0, <1>1, <2>1 DEF FlagsFit
    <3> QED BY <1>2, <1>7, <3>1 DEF Computing
  <2>2. ASSUME NEW b \in Springs!Batch, ~raced'[b], NEW u \in Worker, job'[u].kind = b, job'[u].at \in Computing
        PROVE  pending'[b]
    BY <1>0, <1>1, <1>2, <1>5, <1>7, <2>2 DEF FlagsFit, Computing
  <2>3. ASSUME NEW b \in Springs!Batch, ~raced'[b], NEW u \in Worker, NEW v \in Worker,
               job'[u].kind = b, job'[u].at \in Decided \cup Computing,
               job'[v].kind = b, job'[v].at \in Decided \cup Computing
        PROVE  u = v
    <3>1. CASE b = k
      BY <1>7, <1>8, <2>3, <3>1
    <3>2. CASE b # k
      BY <1>0, <1>2, <1>5, <1>7, <2>3, <3>2 DEF FlagsFit
    <3> QED BY <3>1, <3>2
  <2> QED BY <2>1, <2>2, <2>3 DEF FlagsFit
<1> QED BY <1>1, <1>2, <1>6, <1>9, Moves

LEMMA DecideKeeps ==
  ASSUME Springs!SpringsAssumption, SpringsInv, NEW w \in Worker,
         \/ \E k \in Springs!Batch : Springs!ShouldRun(w, k)
         \/ Springs!CheckRate(w) \/ Springs!CheckPending(w) \/ Springs!CheckCooldown(w)
  PROVE  SpringsInv'
<1> USE DEF Springs!SpringsAssumption
<1>0. job[w] \in SpringsJobs /\ Sees(job[w], known) /\ SpringsData
  BY DEF SpringsInv
<1>1. ASSUME NEW j \in SpringsJobs, Sees(j, known), job' = [job EXCEPT ![w] = j],
             j.at \notin Computing, job[w].at \notin Computing,
             j.at \in Decided => job[w].at \in Decided /\ j.kind = job[w].kind,
             UNCHANGED <<known, vectors, counter, age, since, pending, raced>>
      PROVE  SpringsInv'
  <2>1. SpringsData' /\ Sees(j, known')
    BY <1>0, <1>1 DEF SpringsData
  <2>2. FlagsFit'
    BY <1>1, Beside
  <2> QED BY <1>1, <2>1, <2>2, Moves
<1>2. ASSUME Springs!End(w), UNCHANGED <<known, vectors, counter, age, since, pending, raced>>,
             job[w].at \notin Computing
      PROVE  SpringsInv'
  BY <1>1, <1>2, IdleJob DEF Springs!End, Decided, Computing
<1>3. ASSUME NEW k \in Springs!Batch, Springs!ShouldRun(w, k)
      PROVE  SpringsInv'
  <2> DEFINE j == [Springs!Idle EXCEPT !.at = "clock", !.kind = k, !.count = counter]
  <2>1. /\ job' = [job EXCEPT ![w] = j] /\ job[w].at = "idle"
        /\ UNCHANGED <<known, vectors, counter, age, since, pending, raced>>
    BY <1>3 DEF Springs!ShouldRun, Springs!selector
  <2>2. j \in SpringsJobs /\ j.at = "clock" /\ Sees(j, known)
    BY <1>0 DEF SpringsData, SpringsJobs, Springs!Idle, Springs!Site, Sees
  <2> HIDE DEF j
  <2> QED BY <1>1, <2>1, <2>2 DEF Decided, Computing
<1>4. ASSUME NEW at \in {"flag", "set"}, Springs!Go(w, at),
             (at = "flag" /\ job[w].at = "clock") \/ (at = "set" /\ job[w].at = "last"),
             UNCHANGED <<known, vectors, counter, age, since, pending, raced>>
      PROVE  SpringsInv'
  <2> DEFINE j == [job[w] EXCEPT !.at = at]
  <2>1. job' = [job EXCEPT ![w] = j]
    BY <1>0, <1>4 DEF Springs!Go, SpringsInv
  <2>2. j \in SpringsJobs /\ Sees(j, known) /\ j.at = at /\ j.kind = job[w].kind
    BY <1>0 DEF SpringsJobs, Springs!Site, Sees
  <2> HIDE DEF j
  <2> QED BY <1>1, <1>4, <2>1, <2>2 DEF Decided, Computing
<1>5. ASSUME Springs!CheckRate(w) PROVE SpringsInv'
  BY <1>2, <1>4, <1>5 DEF Springs!CheckRate, Springs!Yes, Springs!selector, Computing
<1>6. ASSUME Springs!CheckPending(w) PROVE SpringsInv'
  <2>1. CASE Springs!Go(w, "last")
    BY <1>6, <2>1, FlagFound
  <2>2. CASE Springs!End(w) /\ pending[job[w].kind]
    <3>1. UNCHANGED <<known, vectors, counter, age, since, pending, raced>> /\ job[w].at = "flag"
      BY <1>6, <2>2 DEF Springs!CheckPending, Springs!Yes
    <3> QED BY <1>2, <2>2, <3>1 DEF Computing
  <2> QED BY <1>6, <2>1, <2>2 DEF Springs!CheckPending, Springs!Yes
<1>7. ASSUME Springs!CheckCooldown(w) PROVE SpringsInv'
  BY <1>2, <1>4, <1>7 DEF Springs!CheckCooldown, Springs!Yes, Springs!selector, Computing
<1> QED BY <1>3, <1>5, <1>6, <1>7

LEMMA ComputeKeeps ==
  ASSUME Springs!SpringsAssumption, SpringsInv, NEW w \in Worker,
         Springs!Compute(w) \/ Springs!StoreBatch(w)
  PROVE  SpringsInv'
<1> USE DEF Springs!SpringsAssumption
<1>0. job[w] \in SpringsJobs /\ Sees(job[w], known) /\ SpringsData
  BY DEF SpringsInv
<1>1. UNCHANGED <<known, counter, age, since, pending, raced>> /\ job[w].at \in Computing
  BY DEF Springs!Compute, Springs!StoreBatch, Springs!selector, Computing
<1>2. ASSUME NEW j \in SpringsJobs, Sees(j, known), job' = [job EXCEPT ![w] = j],
             j.at \in Computing, j.kind = job[w].kind,
             vectors' \in [Springs!Batch \cup {"spring"} -> SUBSET known]
      PROVE  SpringsInv'
  <2>1. SpringsData' /\ Sees(j, known')
    BY <1>0, <1>1, <1>2 DEF SpringsData
  <2>2. FlagsFit'
    BY <1>1, <1>2, Beside DEF Decided, Computing
  <2> QED BY <1>1, <1>2, <2>1, <2>2, Moves
<1>3. CASE Springs!Compute(w)
  <2>1. vectors' \in [Springs!Batch \cup {"spring"} -> SUBSET known]
    BY <1>0, <1>3 DEF Springs!Compute, SpringsData
  <2>2. ASSUME NEW d \in Asked, job' = [job EXCEPT ![w].at = "view", ![w].asked = d]
        PROVE  SpringsInv'
    <3> DEFINE j == [job[w] EXCEPT !.at = "view", !.asked = d]
    <3>1. job' = [job EXCEPT ![w] = j]
      BY <1>0, <2>2 DEF SpringsInv
    <3>2. j \in SpringsJobs /\ j.at = "view" /\ j.kind = job[w].kind /\ Sees(j, known)
      BY <1>0 DEF SpringsJobs, Springs!Site, Sees
    <3> HIDE DEF j
    <3> QED BY <1>2, <2>1, <3>1, <3>2 DEF Computing
  <2>3. ASSUME job' = [job EXCEPT ![w].at = "store", ![w].view = known]
        PROVE  SpringsInv'
    <3> DEFINE j == [job[w] EXCEPT !.at = "store", !.view = known]
    <3>1. job' = [job EXCEPT ![w] = j]
      BY <1>0, <2>3 DEF SpringsInv
    <3>2. known \in SUBSET Node
      BY <1>0 DEF SpringsData
    <3>3. j \in SpringsJobs /\ j.at = "store" /\ j.kind = job[w].kind /\ Sees(j, known)
      BY <1>0, <3>2 DEF SpringsJobs, Springs!Site, Sees
    <3> HIDE DEF j
    <3> QED BY <1>2, <2>1, <3>1, <3>3 DEF Computing
  <2> QED BY <1>3, <2>2, <2>3 DEF Springs!Compute
<1>4. CASE Springs!StoreBatch(w)
  <2> DEFINE j == [job[w] EXCEPT !.at = "complete"]
  <2>1. job' = [job EXCEPT ![w] = j]
    BY <1>0, <1>4 DEF Springs!StoreBatch, Springs!Go, SpringsInv
  <2>2. j \in SpringsJobs /\ j.at = "complete" /\ j.kind = job[w].kind /\ Sees(j, known)
    BY <1>0 DEF SpringsJobs, Springs!Site, Sees
  <2>3. job[w].view \subseteq known /\ job[w].kind \in Springs!Batch
    BY <1>0 DEF SpringsJobs, Sees
  <2>4. vectors' = vectors \/ vectors' = [vectors EXCEPT ![job[w].kind] = @ \cup job[w].view]
    BY <1>4 DEF Springs!StoreBatch
  <2>5. vectors' \in [Springs!Batch \cup {"spring"} -> SUBSET known]
    BY <1>0, <2>3, <2>4 DEF SpringsData
  <2> HIDE DEF j
  <2> QED BY <1>2, <2>1, <2>2, <2>5 DEF Computing
<1> QED BY <1>3, <1>4

(* The flag is raised and lowered.                                         *)
LEMMA FlagsKeep ==
  ASSUME Springs!SpringsAssumption, SpringsInv, NEW w \in Worker,
         Springs!SetPending(w) \/ Springs!MarkComplete(w) \/ Springs!MarkTime(w)
  PROVE  SpringsInv'
<1> USE DEF Springs!SpringsAssumption
<1> DEFINE k == job[w].kind
<1>0. job[w] \in SpringsJobs /\ Sees(job[w], known) /\ SpringsData /\ FlagsFit /\ k \in Springs!Batch
  BY DEF SpringsInv, SpringsJobs
<1>1. CASE Springs!SetPending(w)
  <2> DEFINE j == [job[w] EXCEPT !.at = "queued"]
  <2>1. /\ job' = [job EXCEPT ![w] = j] /\ pending' = [pending EXCEPT ![k] = TRUE] /\ job[w].at = "set"
        /\ UNCHANGED <<known, vectors, counter, age, since, raced>>
    BY <1>0, <1>1 DEF Springs!SetPending, Springs!Go, SpringsInv
  <2>2. j \in SpringsJobs /\ j.at = "queued" /\ j.kind = k /\ Sees(j, known')
    BY <1>0, <2>1 DEF SpringsJobs, Springs!Site, Sees
  <2> HIDE DEF j
  <2>3. SpringsData' /\ pending'[k] /\ \A b \in Springs!Batch : b # k => pending'[b] = pending[b]
    BY <1>0, <2>1 DEF SpringsData
  <2>4. \A v \in Worker : job'[v] = IF v = w THEN j ELSE job[v]
    BY <2>1 DEF SpringsInv
  <2> HIDE DEF k
  <2>5. FlagsFit'
    <3>1. ASSUME NEW b \in Springs!Batch, pending'[b]
          PROVE  \E v \in Worker : job'[v].kind = b /\ job'[v].at \in Computing
      <4>1. CASE b = k
        BY <2>2, <2>4, <4>1 DEF Computing
      <4>2. CASE b # k
        <5>1. PICK v \in Worker : job[v].kind = b /\ job[v].at \in Computing
          BY <1>0, <2>3, <3>1, <4>2 DEF FlagsFit
        <5>2. v # w
          BY <2>1, <5>1 DEF Computing
        <5> QED BY <2>4, <5>1, <5>2
      <4> QED BY <4>1, <4>2
    <3>2. ASSUME NEW b \in Springs!Batch, ~raced'[b], NEW u \in Worker, job'[u].kind = b, job'[u].at \in Computing
          PROVE  pending'[b]
      BY <1>0, <2>1, <2>2, <2>3, <2>4, <3>2 DEF FlagsFit
    <3>3. ASSUME NEW b \in Springs!Batch, ~raced'[b], NEW u \in Worker, NEW v \in Worker,
                 job'[u].kind = b, job'[u].at \in Decided \cup Computing,
                 job'[v].kind = b, job'[v].at \in Decided \cup Computing
          PROVE  u = v
      <4>1. \A v0 \in Worker : job'[v0].kind = b /\ job'[v0].at \in Decided \cup Computing
                => job[v0].kind = b /\ job[v0].at \in Decided \cup Computing
        BY <2>1, <2>2, <2>4 DEF k, Decided
      <4> QED BY <1>0, <2>1, <3>3, <4>1 DEF FlagsFit
    <3> QED BY <3>1, <3>2, <3>3 DEF FlagsFit
  <2> QED BY <2>1, <2>2, <2>3, <2>5, Moves
<1>2. CASE Springs!MarkComplete(w)
  <2> DEFINE j == [job[w] EXCEPT !.at = "stamp"]
  <2>1. /\ job' = [job EXCEPT ![w] = j] /\ pending' = [pending EXCEPT ![k] = FALSE] /\ job[w].at = "complete"
        /\ UNCHANGED <<known, vectors, counter, age, since, raced>>
    BY <1>0, <1>2 DEF Springs!MarkComplete, Springs!Go, SpringsInv
  <2>2. j \in SpringsJobs /\ j.at = "stamp" /\ j.kind = k /\ Sees(j, known')
    BY <1>0, <2>1 DEF SpringsJobs, Springs!Site, Sees
  <2> HIDE DEF j
  <2>3. SpringsData' /\ ~pending'[k] /\ \A b \in Springs!Batch : b # k => pending'[b] = pending[b]
    BY <1>0, <2>1 DEF SpringsData
  <2>4. \A v \in Worker : job'[v] = IF v = w THEN j ELSE job[v]
    BY <2>1 DEF SpringsInv
  <2>5. job[w].kind = k
    OBVIOUS
  <2> HIDE DEF k
  <2>6. FlagsFit'
    <3>1. ASSUME NEW b \in Springs!Batch, pending'[b]
          PROVE  \E v \in Worker : job'[v].kind = b /\ job'[v].at \in Computing
      <4>1. PICK v \in Worker : job[v].kind = b /\ job[v].at \in Computing /\ b # k
        BY <1>0, <2>3, <3>1 DEF FlagsFit
      <4> QED BY <2>4, <2>5, <4>1
    <3>2. ASSUME NEW b \in Springs!Batch, ~raced'[b], NEW u \in Worker, job'[u].kind = b, job'[u].at \in Computing
          PROVE  pending'[b]
      <4>1. u # w /\ job[u].kind = b /\ job[u].at \in Computing /\ ~raced[b]
        BY <2>1, <2>2, <2>4, <3>2 DEF Computing
      <4>2. b # k
        BY <1>0, <2>1, <2>5, <4>1 DEF FlagsFit, Computing
      <4> QED BY <1>0, <2>3, <4>1, <4>2 DEF FlagsFit
    <3>3. ASSUME NEW b \in Springs!Batch, ~raced'[b], NEW u \in Worker, NEW v \in Worker,
                 job'[u].kind = b, job'[u].at \in Decided \cup Computing,
                 job'[v].kind = b, job'[v].at \in Decided \cup Computing
          PROVE  u = v
      <4>1. u # w /\ v # w
        BY <2>2, <2>4, <3>3 DEF Decided, Computing
      <4> QED BY <1>0, <2>1, <2>4, <3>3, <4>1 DEF FlagsFit
    <3> QED BY <3>1, <3>2, <3>3 DEF FlagsFit
  <2> QED BY <2>1, <2>2, <2>3, <2>6, Moves
<1>3. CASE Springs!MarkTime(w)
  <2>1. /\ job' = [job EXCEPT ![w] = Springs!Idle] /\ since' = [since EXCEPT ![k] = 0] /\ job[w].at = "stamp"
        /\ UNCHANGED <<known, vectors, counter, age, pending, raced>>
    BY <1>3 DEF Springs!MarkTime, Springs!End
  <2>2. SpringsData'
    BY <1>0, <2>1 DEF SpringsData
  <2>3. FlagsFit'
    BY <2>1, IdleJob, Beside DEF Decided, Computing
  <2> QED BY <2>1, <2>2, <2>3, IdleJob, Moves
<1> QED BY <1>1, <1>2, <1>3

(* SpringsInductive: the flag of a kind of batch is up only for one under  *)
(* way, and without a race nobody else of the kind has found it down or is *)
(* at a batch.                                                             *)
(* strategy_selector.rs, spring.rs                                         *)
THEOREM SpringsInductive ==
  ASSUME Springs!SpringsAssumption
  PROVE  Springs!Spec => []SpringsInv
<1>1. ASSUME SpringsInv, [Springs!Next]_Springs!vars
      PROVE  SpringsInv'
  <2>1. CASE UNCHANGED Springs!vars
    BY <1>1, <2>1 DEF SpringsInv, SpringsData, FlagsFit, Sees, Springs!vars, Springs!selector
  <2>2. CASE Springs!Tick
    <3>1. UNCHANGED <<known, vectors, counter, pending, job, raced>>
      BY <2>2 DEF Springs!Tick
    <3>2. SpringsData'
      BY <1>1, <2>2, <3>1 DEF SpringsInv, SpringsData, Springs!Tick, Springs!Lesser, Springs!SpringsAssumption
    <3> QED BY <1>1, <3>1, <3>2 DEF SpringsInv, FlagsFit, Sees
  <2>3. ASSUME NEW w \in Worker, Springs!Work(w) PROVE SpringsInv'
    BY <1>1, <2>3, InsertKeeps, DecideKeeps, ComputeKeeps, FlagsKeep DEF Springs!Work
  <2> QED BY <1>1, <2>1, <2>2, <2>3 DEF Springs!Next
<1> QED BY <1>1, SpringsInit, PTL DEF Springs!Spec

(* BatchesStayApart: however the decisions and batches of any number of    *)
(* workers interleave, no flag is left up without a batch, and until two   *)
(* decisions have found it down together, one batch of a kind is under way *)
(* at most, and the flag is up for all of it.                              *)
(* strategy_selector.rs: should_run_node2vec, should_run_spectral,         *)
(* mark_node2vec_complete, mark_spectral_complete                          *)
THEOREM BatchesStayApart == Spec => []BatchesApart
<1>1. ASSUME SpringsInv, NEW k \in Springs!Batch
      PROVE  /\ pending[k] => Springs!Running(k) # {}
             /\ ~raced[k] => \A w \in Springs!Running(k) : pending[k] /\ Springs!Running(k) = {w}
  <2>1. Springs!Running(k) = {w \in Worker : job[w].kind = k /\ job[w].at \in Computing}
    BY DEF Springs!Running, Springs!At, Computing
  <2> QED BY <1>1, <2>1 DEF SpringsInv, FlagsFit
<1>2. SpringsInv => BatchesApart
  BY <1>1 DEF Springs!BatchesApart, BatchesApart
<1> QED BY <1>2, LibraryAssumption, PartsRun, SpringsInductive, PTL

(* SpringsTyped: vectors are only of nodes that are known, and the counter *)
(* and the times stay in range.                                            *)
(* spring.rs, strategy_selector.rs                                         *)
THEOREM SpringsTyped ==
  ASSUME Springs!SpringsAssumption
  PROVE  Springs!Spec => []Springs!TypeOK
<1>1. SpringsInv => Springs!TypeOK
  BY DEF SpringsInv, SpringsData, SpringsJobs, Sees, Springs!TypeOK
<1> QED BY <1>1, SpringsInductive, PTL

-----------------------------------------------------------------------------
(* VectorFile: the file of vectors in memory and on disk.                  *)



Cell == Node \cup Value \cup {None, "set"}
Contents == [File!Slot -> [File!Field -> Cell]]

Calls == [at : {"idle", "place", "lo", "hi", "stamp", "flush", "down"}, node : Node \cup {None},
          strategy : Strategy \cup {None}, vector : {<<>>} \cup (Value \X Value), slot : 0..MaxSlots]

(* What a store under way may have changed since the last flush.           *)
Busy(c) == c.at \in {"lo", "hi", "stamp", "flush"}
Writing(c, s, st) == Busy(c) /\ s = c.slot /\ st = c.strategy
Touched(c, s, f) == Busy(c) /\ s = c.slot /\ (f = File!Id \/ f[1] = c.strategy)

Read(m, s, st) == IF m[s][<<st, "stamp">>] = None THEN None ELSE <<m[s][<<st, "lo">>], m[s][<<st, "hi">>]>>
Due(m, kept, s, st) == IF m[s][File!Id] = None THEN None ELSE kept[m[s][File!Id]][st]
Used(m) == {s \in File!Slot : m[s][File!Id] # None}

(* The file: nothing beyond its end, no node in two slots, and what is not *)
(* on disk yet belongs to the store under way.                             *)
FileWhole(m, d, cap, dur, c) ==
    /\ m \in Contents /\ d \in Contents
    /\ cap \in Nat /\ dur \in Nat /\ InitialCapacity <= dur /\ dur <= cap /\ cap <= MaxSlots
    /\ \A s \in File!Slot : m[s][File!Id] \in Node \cup {None}
    /\ \A s \in File!Slot, f \in File!Field :
        /\ s > cap => m[s][f] = None
        /\ s > dur => d[s][f] = None
        /\ Touched(c, s, f) \/ m[s][f] = d[s][f]
    /\ \A s \in File!Slot : d[s][File!Id] \in {None, m[s][File!Id]}
    /\ \A s, q \in File!Slot : m[s][File!Id] = m[q][File!Id] => s = q \/ m[s][File!Id] = None

(* The store under way, and how far it has come.                           *)
CallFits(m, cap, c) ==
    /\ c \in Calls /\ c.slot <= cap /\ (c.slot # 0 <=> Busy(c))
    /\ Busy(c) \/ c.at = "place" =>
        c.node \in Node /\ c.strategy \in Strategy /\ c.vector \in Value \X Value
    /\ Busy(c) => m[c.slot][File!Id] = c.node
    /\ c.at \in {"hi", "stamp", "flush"} => m[c.slot][<<c.strategy, "lo">>] = c.vector[1]
    /\ c.at \in {"stamp", "flush"} => m[c.slot][<<c.strategy, "hi">>] = c.vector[2]
    /\ c.at = "flush" => m[c.slot][<<c.strategy, "stamp">>] = "set"

(* While the process is up the index is the file's, and there is room for  *)
(* the node that is to be placed.                                          *)
IndexFits(m, cap, ix, n, c) ==
    /\ ix \in [Node -> 0..MaxSlots] /\ n \in Nat
    /\ c.at = "down" => n = 0 /\ \A x \in Node : ix[x] = 0
    /\ c.at # "down" =>
        /\ \A x \in Node : ix[x] # 0 => m[ix[x]][File!Id] = x
        /\ \A s \in File!Slot : m[s][File!Id] # None => ix[m[s][File!Id]] = s
        /\ n = Cardinality(Used(m))
    /\ c.at = "place" => ix[c.node] = 0 /\ (n < cap \/ 2 * cap <= MaxSlots)

(* What a slot holds of a strategy is what was last stored to the end for  *)
(* its node, and nothing is of a node that is not on disk.                 *)
Faithful(m, d, c, kept, bad) ==
    /\ kept \in [Node -> [Strategy -> {None} \cup (Value \X Value)]]
    /\ bad \in SUBSET (File!Slot \X Strategy)
    /\ \A s \in File!Slot, st \in Strategy :
        <<s, st>> \in bad \/ Writing(c, s, st) \/ Read(m, s, st) = Due(m, kept, s, st)
    /\ \A x \in Node : (\A s \in File!Slot : d[s][File!Id] # x) => \A st \in Strategy : kept[x][st] = None

FileInv ==
    /\ FileWhole(mem, disk, capacity, durable, call)
    /\ CallFits(mem, capacity, call)
    /\ IndexFits(mem, capacity, index, len, call)
    /\ Faithful(mem, disk, call, stored, spoilt)
    /\ crashes \in 0..MaxCrashes

(* Where the fields are.                                                   *)
LEMMA FieldNames ==
  /\ File!Id \in File!Field /\ File!Id[1] = None
  /\ \A st \in Strategy : \A p \in {"lo", "hi", "stamp"} :
        <<st, p>> \in File!Field /\ <<st, p>> # File!Id /\ <<st, p>>[1] = st
  BY DEF File!Id, File!Field, File!Part

LEMMA FileInit ==
  ASSUME File!VectorFileAssumption, File!Init
  PROVE  FileInv
<1> USE DEF File!VectorFileAssumption
<1>1. mem = disk /\ mem \in Contents /\ \A s \in File!Slot, f \in File!Field : mem[s][f] = None
  BY DEF File!Init, File!Blank, Contents, Cell
<1>2. call.at = "idle" /\ call.slot = 0 /\ call \in Calls
  BY DEF File!Init, File!Idle, Calls
<1>3. FileWhole(mem, disk, capacity, durable, call)
  BY <1>1, FieldNames DEF FileWhole, File!Init
<1>4. CallFits(mem, capacity, call)
  BY <1>2 DEF CallFits, Busy, File!Init
<1>5. Used(mem) = {}
  BY <1>1, FieldNames DEF Used
<1>6. IndexFits(mem, capacity, index, len, call)
  BY <1>1, <1>2, <1>5, FieldNames, FS_EmptySet DEF IndexFits, File!Init
<1>7. Faithful(mem, disk, call, stored, spoilt)
  BY <1>1, FieldNames DEF Faithful, File!Init, Read, Due
<1> QED BY <1>3, <1>4, <1>6, <1>7 DEF FileInv, File!Init

(* A node for which nothing was placed has nothing stored.                 *)
LEMMA Unplaced ==
  ASSUME File!VectorFileAssumption, FileInv, call.at # "down", NEW x \in Node, index[x] = 0
  PROVE  /\ \A s \in File!Slot : mem[s][File!Id] # x
         /\ \A st \in Strategy : stored[x][st] = None
<1>1. \A s \in File!Slot : mem[s][File!Id] # x \/ x = None
  BY DEF FileInv, IndexFits, File!Slot
<1>2. x # None
  BY DEF File!VectorFileAssumption
<1>3. \A s \in File!Slot : disk[s][File!Id] # x
  BY <1>1, <1>2 DEF FileInv, FileWhole
<1> QED BY <1>1, <1>2, <1>3 DEF FileInv, Faithful
(* Of slots some of which are used there is a first free one.              *)
LEMMA FirstFree ==
  ASSUME NEW n \in Nat, NEW U \in SUBSET (1..n), NEW f \in 1..n, f \notin U
  PROVE  \E s \in 1..f : s \notin U /\ \A q \in 1..(s - 1) : q \in U
<1> DEFINE Front == {s \in 1..n : \A q \in 1..s : q \in U}
           c == Cardinality(Front)
<1>1. IsFiniteSet(1..n) /\ IsFiniteSet(Front) /\ c \in Nat
  <2>1. IsFiniteSet(1..n)
    BY FS_Interval
  <2> QED BY <2>1, FS_Subset, FS_CardinalityType
<1>2. \A m \in Nat : IsFiniteSet(1..m) /\ Cardinality(1..m) = m
  BY FS_Interval
<1>3. \A s \in Front : s <= c
  <2>1. TAKE s \in Front
  <2>2. 1..s \subseteq Front /\ s \in Nat
    OBVIOUS
  <2>3. Cardinality(1..s) <= c
    BY <1>1, <2>2, FS_Subset
  <2> QED BY <1>2, <2>2, <2>3
<1>4. \A s \in 1..n : s \notin Front => c < s
  <2>1. SUFFICES ASSUME NEW s \in 1..n, s \notin Front PROVE c < s
    OBVIOUS
  <2>2. Front \subseteq 1..(s - 1)
    <3>1. SUFFICES ASSUME NEW z \in Front, z >= s PROVE FALSE
      OBVIOUS
    <3>2. \A q \in 1..s : q \in 1..z
      BY <3>1
    <3> QED BY <2>1, <3>1, <3>2
  <2>3. s - 1 \in Nat
    BY <2>1
  <2>4. c <= Cardinality(1..(s - 1))
    BY <1>2, <2>2, <2>3, FS_Subset
  <2>5. c <= s - 1
    BY <1>2, <2>3, <2>4
  <2> HIDE DEF c
  <2> QED BY <1>1, <2>3, <2>5
<1>5. f \notin Front /\ c < f
  BY <1>4
<1> HIDE DEF c
<1> DEFINE s == c + 1
<1>6. s \in 1..f /\ s \in 1..n
  BY <1>1, <1>5
<1>7. s \notin Front
  BY <1>1, <1>3
<1>8. \A q \in 1..(s - 1) : q \in Front
  BY <1>1, <1>4, <1>6
<1>9. \A q \in 1..(s - 1) : q \in U
  BY <1>8
<1>10. s \notin U
  BY <1>6, <1>7, <1>9
<1> QED BY <1>6, <1>9, <1>10

(* A store begins: the call says for what, and nothing else changes.       *)
LEMMA StoreKeeps ==
  ASSUME File!VectorFileAssumption, FileInv,
         NEW n \in Node, NEW st \in Strategy, NEW v \in Value, File!StoreStrategy(n, st, <<v, v>>)
  PROVE  FileInv'
<1> USE DEF File!VectorFileAssumption
<1>1. /\ call.at = "idle" /\ call'.node = n /\ call'.strategy = st /\ call'.vector = <<v, v>>
      /\ call'.slot = index[n] /\ call'.at = IF index[n] = 0 THEN "place" ELSE "lo"
      /\ index[n] # 0 \/ len < capacity \/ 2 * capacity <= MaxSlots
      /\ UNCHANGED <<mem, disk, capacity, durable, index, len, stored, spoilt, crashes>>
  BY DEF File!StoreStrategy, File!File, File!Past
<1>2. ~Busy(call) /\ (index[n] # 0 <=> Busy(call')) /\ call'.at # "down"
  BY <1>1 DEF Busy
<1>3. index[n] \in 0..MaxSlots /\ (index[n] # 0 => mem[index[n]][File!Id] = n)
  BY <1>1 DEF FileInv, IndexFits
<1>4. index[n] <= capacity
  BY <1>3, FieldNames DEF FileInv, FileWhole, File!Slot
<1>5. FileWhole(mem', disk', capacity', durable', call')
  BY <1>1, <1>2 DEF FileInv, FileWhole, Touched
<1>6. CallFits(mem', capacity', call')
  <2>1. call' \in Calls /\ call'.slot <= capacity'
    BY <1>1, <1>3, <1>4 DEF FileInv, FileWhole, Calls, File!StoreStrategy
  <2> QED BY <1>1, <1>2, <1>3, <2>1 DEF CallFits
<1>7. IndexFits(mem', capacity', index', len', call')
  BY <1>1 DEF FileInv, IndexFits
<1>8. Faithful(mem', disk', call', stored', spoilt')
  BY <1>1, <1>2 DEF FileInv, Faithful, Writing
<1> QED BY <1>1, <1>5, <1>6, <1>7, <1>8 DEF FileInv

(* The numbers and the stamp are written only where the store under way    *)
(* writes.                                                                 *)
LEMMA WriteKeeps ==
  ASSUME File!VectorFileAssumption, FileInv,
         NEW piece \in {"lo", "hi", "stamp"}, NEW v, NEW next,
         \/ piece = "lo" /\ v = call.vector[1] /\ next = "hi"
         \/ piece = "hi" /\ v = call.vector[2] /\ next = "stamp"
         \/ piece = "stamp" /\ v = "set" /\ next = "flush",
         File!WriteEmbedding(piece, v, next)
  PROVE  FileInv'
<1> USE DEF File!VectorFileAssumption
<1> DEFINE x == <<call.strategy, piece>>
           sl == call.slot
<1>1. /\ call.at = piece /\ call' = [call EXCEPT !.at = next] /\ mem' = [mem EXCEPT ![sl][x] = v]
      /\ UNCHANGED <<disk, capacity, durable, index, len, stored, spoilt, crashes>>
  BY DEF File!WriteEmbedding, File!Past
<1>2. Busy(call) /\ piece # "id" /\ call.at # "idle" /\ call.at # "place" /\ call.at # "down"
  BY <1>1 DEF Busy
<1>3. /\ sl \in File!Slot /\ call.strategy \in Strategy /\ call.node \in Node
      /\ call.vector \in Value \X Value /\ call \in Calls
  BY <1>2 DEF FileInv, CallFits, Calls, File!Slot
<1>4. v \in Cell
  BY <1>3 DEF Cell
<1>5. x \in File!Field /\ x # File!Id /\ x[1] = call.strategy
  BY <1>3, FieldNames
<1>6. Busy(call') /\ call'.at = next /\ next \in {"hi", "stamp", "flush"}
      /\ call'.slot = sl /\ call'.strategy = call.strategy /\ call'.node = call.node /\ call'.vector = call.vector
  <2>1. next \in {"hi", "stamp", "flush"}
    OBVIOUS
  <2> QED BY <1>1, <1>3, <2>1 DEF Busy, Calls
<1> HIDE DEF x, sl
<1>7. /\ mem' \in Contents
      /\ \A s \in File!Slot, f \in File!Field : mem'[s][f] = IF s = sl /\ f = x THEN v ELSE mem[s][f]
  BY <1>1, <1>3, <1>4, <1>5 DEF FileInv, FileWhole, Contents
<1>8. \A s \in File!Slot : mem'[s][File!Id] = mem[s][File!Id]
  BY <1>5, <1>7, FieldNames
<1>9. FileWhole(mem', disk', capacity', durable', call')
  <2>1. \A s \in File!Slot, f \in File!Field : (s > capacity => mem'[s][f] = None) /\ (Touched(call', s, f) \/ mem'[s][f] = disk[s][f])
    <3>1. TAKE s \in File!Slot, f \in File!Field
    <3>2. CASE s = sl /\ f = x
      BY <1>2, <1>3, <1>5, <1>6, <3>2 DEF FileInv, CallFits, FileWhole, Touched, File!Slot, sl
    <3>3. CASE ~(s = sl /\ f = x)
      <4>1. mem'[s][f] = mem[s][f] /\ (s > capacity => mem[s][f] = None) /\ (Touched(call, s, f) \/ mem[s][f] = disk[s][f])
        BY <1>7, <3>3 DEF FileInv, FileWhole
      <4>2. Touched(call', s, f) <=> Touched(call, s, f)
        BY <1>2, <1>6 DEF Touched, sl
      <4> QED BY <4>1, <4>2
    <3> QED BY <3>2, <3>3
  <2> QED BY <1>1, <1>7, <1>8, <2>1 DEF FileInv, FileWhole
<1>10. CallFits(mem', capacity', call')
  <2>1. call' \in Calls
    BY <1>1, <1>3, <1>6 DEF Calls
  <2>2. call'.slot <= capacity' /\ call'.slot # 0 /\ mem'[sl][File!Id] = call.node
    BY <1>1, <1>2, <1>3, <1>6, <1>8 DEF FileInv, CallFits, sl
  <2>3. \A p \in {"lo", "hi", "stamp"} : mem'[sl][<<call.strategy, p>>] = IF p = piece THEN v ELSE mem[sl][<<call.strategy, p>>]
    <3>1. TAKE p \in {"lo", "hi", "stamp"}
    <3>2. <<call.strategy, p>> \in File!Field
      BY <1>3, FieldNames
    <3>3. (<<call.strategy, p>> = x) <=> (p = piece)
      BY DEF x
    <3> QED BY <1>3, <1>7, <3>2, <3>3
  <2>4. mem'[sl][x] = v
    BY <1>3, <1>5, <1>7
  <2>5. next \in {"hi", "stamp", "flush"} => mem'[sl][<<call.strategy, "lo">>] = call.vector[1]
    BY <1>1, <2>3 DEF FileInv, CallFits, sl
  <2>6. next \in {"stamp", "flush"} => mem'[sl][<<call.strategy, "hi">>] = call.vector[2]
    BY <1>1, <2>3 DEF FileInv, CallFits, sl
  <2>7. next = "flush" => mem'[sl][<<call.strategy, "stamp">>] = "set"
    BY <2>3
  <2> QED BY <1>3, <1>6, <2>1, <2>2, <2>5, <2>6, <2>7 DEF CallFits
<1>11. IndexFits(mem', capacity', index', len', call')
  <2>1. Used(mem') = Used(mem)
    BY <1>8 DEF Used
  <2>2. \A n \in Node : index[n] # 0 => index[n] \in File!Slot
    BY DEF FileInv, IndexFits, File!Slot
  <2> QED BY <1>1, <1>2, <1>6, <1>8, <2>1, <2>2 DEF FileInv, IndexFits
<1>12. Faithful(mem', disk', call', stored', spoilt')
  <2>1. ASSUME NEW s \in File!Slot, NEW st \in Strategy
        PROVE  <<s, st>> \in spoilt' \/ Writing(call', s, st) \/ Read(mem', s, st) = Due(mem', stored', s, st)
    <3>1. CASE s = sl /\ st = call.strategy
      BY <1>6, <3>1 DEF Writing
    <3>2. CASE ~(s = sl /\ st = call.strategy)
      <4>1. \A p \in {"lo", "hi", "stamp"} : mem'[s][<<st, p>>] = mem[s][<<st, p>>]
        <5>1. TAKE p \in {"lo", "hi", "stamp"}
        <5>2. <<st, p>> \in File!Field
          BY FieldNames
        <5>3. <<st, p>> = x => st = call.strategy
          BY DEF x
        <5> QED BY <1>7, <3>2, <5>2, <5>3
      <4>2. Read(mem', s, st) = Read(mem, s, st)
        BY <4>1 DEF Read
      <4>3. Due(mem', stored', s, st) = Due(mem, stored, s, st)
        BY <1>1, <1>8 DEF Due
      <4>4. <<s, st>> \in spoilt \/ Writing(call, s, st) \/ Read(mem, s, st) = Due(mem, stored, s, st)
        BY DEF FileInv, Faithful
      <4> QED BY <1>1, <3>2, <4>2, <4>3, <4>4 DEF Writing, sl
    <3> QED BY <3>1, <3>2
  <2> QED BY <1>1, <2>1 DEF FileInv, Faithful
<1> QED BY <1>1, <1>9, <1>10, <1>11, <1>12 DEF FileInv
(* The flush puts on disk what is in memory, and the store is at its end.  *)
LEMMA FlushKeeps ==
  ASSUME File!VectorFileAssumption, FileInv, File!Flush
  PROVE  FileInv'
<1> USE DEF File!VectorFileAssumption
<1> DEFINE sl == call.slot
           x == call.node
           cs == call.strategy
<1>1. /\ call.at = "flush" /\ disk' = mem /\ durable' = capacity /\ call' = File!Idle
      /\ stored' = [stored EXCEPT ![x][cs] = call.vector] /\ spoilt' = spoilt \ {<<sl, cs>>}
      /\ UNCHANGED <<mem, capacity, index, len, crashes>>
  BY DEF File!Flush, File!Flushed
<1>2. Busy(call) /\ call.at # "down"
  BY <1>1 DEF Busy
<1>3. /\ sl \in File!Slot /\ cs \in Strategy /\ x \in Node /\ call.vector \in Value \X Value
      /\ mem[sl][File!Id] = x
  BY <1>2 DEF FileInv, CallFits, Calls, File!Slot
<1>4. Read(mem, sl, cs) = call.vector
  <2>1. /\ mem[sl][<<cs, "stamp">>] = "set"
        /\ mem[sl][<<cs, "lo">>] = call.vector[1] /\ mem[sl][<<cs, "hi">>] = call.vector[2]
    BY <1>1 DEF FileInv, CallFits
  <2>2. call.vector = <<call.vector[1], call.vector[2]>>
    BY <1>3
  <2> HIDE DEF sl, cs
  <2> QED BY <2>1, <2>2 DEF Read
<1>5. call'.at = "idle" /\ call'.slot = 0 /\ call' \in Calls /\ ~Busy(call')
  BY <1>1 DEF File!Idle, Calls, Busy
<1> HIDE DEF sl, x, cs
<1>6. /\ stored' \in [Node -> [Strategy -> {None} \cup (Value \X Value)]]
      /\ \A n \in Node, st \in Strategy :
            stored'[n][st] = IF n = x /\ st = cs THEN call.vector ELSE stored[n][st]
  BY <1>1, <1>3 DEF FileInv, Faithful
<1>7. FileWhole(mem', disk', capacity', durable', call')
  BY <1>1, <1>5 DEF FileInv, FileWhole, Touched
<1>8. CallFits(mem', capacity', call')
  BY <1>1, <1>5 DEF FileInv, FileWhole, CallFits
<1>9. IndexFits(mem', capacity', index', len', call')
  BY <1>1, <1>2, <1>5 DEF FileInv, IndexFits
<1>10. Faithful(mem', disk', call', stored', spoilt')
  <2>1. ASSUME NEW s \in File!Slot, NEW st \in Strategy
        PROVE  <<s, st>> \in spoilt' \/ Writing(call', s, st) \/ Read(mem', s, st) = Due(mem', stored', s, st)
    <3>1. CASE s = sl /\ st = cs
      BY <1>1, <1>3, <1>4, <1>6, <3>1 DEF Due
    <3>2. CASE ~(s = sl /\ st = cs)
      <4>1. <<s, st>> \in spoilt \/ Read(mem, s, st) = Due(mem, stored, s, st)
        BY <3>2 DEF FileInv, Faithful, Writing, sl, cs
      <4>2. mem[s][File!Id] = x => s = sl
        BY <1>3 DEF FileInv, FileWhole
      <4>3. Due(mem, stored', s, st) = Due(mem, stored, s, st)
        BY <1>6, <3>2, <4>2 DEF Due, FileInv, FileWhole
      <4>4. <<s, st>> # <<sl, cs>>
        BY <3>2
      <4> QED BY <1>1, <4>1, <4>3, <4>4
    <3> QED BY <3>1, <3>2
  <2>2. ASSUME NEW n \in Node, \A s \in File!Slot : disk'[s][File!Id] # n, NEW st \in Strategy
        PROVE  stored'[n][st] = None
    <3>1. \A s \in File!Slot : mem[s][File!Id] # n
      BY <1>1, <2>2
    <3>2. \A s \in File!Slot : disk[s][File!Id] # n
      BY <3>1 DEF FileInv, FileWhole
    <3>3. n # x
      BY <1>3, <3>1
    <3> QED BY <1>6, <3>2, <3>3 DEF FileInv, Faithful
  <2>3. spoilt' \in SUBSET (File!Slot \X Strategy)
    BY <1>1 DEF FileInv, Faithful
  <2> QED BY <1>6, <2>1, <2>2, <2>3 DEF Faithful
<1> QED BY <1>1, <1>7, <1>8, <1>9, <1>10 DEF FileInv

(* The end of the process: every field is as it was in memory or on disk,  *)
(* and nothing is left beyond the end of the file.                         *)
LEMMA DownKeeps ==
  ASSUME File!VectorFileAssumption, FileInv, NEW left \in Contents, NEW size \in {durable, capacity},
         \A s \in File!Slot, f \in File!Field :
            left[s][f] \in {mem[s][f], disk[s][f]} /\ (s > size => left[s][f] = None),
         File!Down(left, size)
  PROVE  FileInv'
<1> USE DEF File!VectorFileAssumption
<1>1. /\ call.at # "down" /\ mem' = left /\ disk' = left /\ capacity' = size /\ durable' = size
      /\ spoilt' = IF call.slot = 0 THEN spoilt ELSE spoilt \cup {<<call.slot, call.strategy>>}
      /\ call' = [File!Idle EXCEPT !.at = "down"] /\ crashes' \in 0..MaxCrashes
      /\ index' = [n \in Node |-> 0] /\ len' = 0 /\ stored' = stored
  <2>1. crashes' = crashes + 1 /\ crashes < MaxCrashes /\ crashes \in 0..MaxCrashes
    BY DEF File!Down, FileInv
  <2> QED BY <2>1 DEF File!Down
<1>2. call'.at = "down" /\ call'.slot = 0 /\ call' \in Calls /\ ~Busy(call')
  BY <1>1 DEF File!Idle, Calls, Busy
<1>3. \A s \in File!Slot : left[s][File!Id] \in {None, mem[s][File!Id]}
  BY FieldNames DEF FileInv, FileWhole
<1>4. FileWhole(mem', disk', capacity', durable', call')
  BY <1>1, <1>2, <1>3 DEF FileInv, FileWhole, Touched
<1>5. CallFits(mem', capacity', call')
  BY <1>1, <1>2 DEF FileInv, FileWhole, CallFits
<1>6. IndexFits(mem', capacity', index', len', call')
  BY <1>1, <1>2 DEF IndexFits
<1>7. \A n \in Node : (\A s \in File!Slot : left[s][File!Id] # n) => \A s \in File!Slot : disk[s][File!Id] # n
  <2>1. SUFFICES ASSUME NEW n \in Node, NEW s \in File!Slot, disk[s][File!Id] = n
                 PROVE  left[s][File!Id] = n
    OBVIOUS
  <2>2. mem[s][File!Id] = n
    BY <2>1 DEF FileInv, FileWhole
  <2> QED BY <2>1, <2>2, FieldNames
<1>8. ASSUME NEW s \in File!Slot, NEW st \in Strategy, <<s, st>> \notin spoilt'
      PROVE  Read(left, s, st) = Due(left, stored, s, st)
  <2>1. <<s, st>> \notin spoilt /\ ~Writing(call, s, st)
    BY <1>1, <1>8 DEF FileInv, CallFits, Writing
  <2>2. Read(mem, s, st) = Due(mem, stored, s, st)
    BY <2>1 DEF FileInv, Faithful
  <2>3. \A p \in {"lo", "hi", "stamp"} : left[s][<<st, p>>] = mem[s][<<st, p>>]
    <3>1. TAKE p \in {"lo", "hi", "stamp"}
    <3>2. <<st, p>> \in File!Field /\ ~Touched(call, s, <<st, p>>)
      BY <2>1, FieldNames DEF Touched, Writing
    <3> QED BY <3>2 DEF FileInv, FileWhole
  <2>4. Read(left, s, st) = Read(mem, s, st)
    BY <2>3 DEF Read
  <2>5. CASE left[s][File!Id] = mem[s][File!Id]
    BY <2>2, <2>4, <2>5 DEF Due
  <2>6. CASE left[s][File!Id] # mem[s][File!Id]
    <3>1. left[s][File!Id] = None /\ mem[s][File!Id] \in Node /\ disk[s][File!Id] = None
      BY <1>3, <2>6, FieldNames DEF FileInv, FileWhole
    <3>2. \A q \in File!Slot : disk[q][File!Id] # mem[s][File!Id]
      BY <3>1 DEF FileInv, FileWhole
    <3>3. stored[mem[s][File!Id]][st] = None
      BY <3>1, <3>2 DEF FileInv, Faithful
    <3> QED BY <2>2, <2>4, <3>1, <3>3 DEF Due
  <2> QED BY <2>5, <2>6
<1>9. Faithful(mem', disk', call', stored', spoilt')
  <2>1. call.slot # 0 => <<call.slot, call.strategy>> \in File!Slot \X Strategy
    BY DEF FileInv, CallFits, Calls, File!Slot
  <2>2. spoilt' \in SUBSET (File!Slot \X Strategy)
    BY <1>1, <2>1 DEF FileInv, Faithful
  <2> QED BY <1>1, <1>7, <1>8, <2>2 DEF FileInv, Faithful
<1> QED BY <1>1, <1>4, <1>5, <1>6, <1>9 DEF FileInv

LEMMA CrashKeeps ==
  ASSUME File!VectorFileAssumption, FileInv, File!Killed \/ File!PowerFails
  PROVE  FileInv'
<1> USE DEF File!VectorFileAssumption
<1>1. CASE File!Killed
  <2>1. mem \in Contents /\ \A s \in File!Slot, f \in File!Field : s > capacity => mem[s][f] = None
    BY DEF FileInv, FileWhole
  <2> QED BY <1>1, <2>1, DownKeeps DEF File!Killed
<1>2. CASE File!PowerFails
  <2>1. PICK size \in {durable, capacity}, lost \in SUBSET (File!Slot \X File!Field) :
          File!Down([s \in File!Slot |-> [f \in File!Field |->
              IF <<s, f>> \in lost THEN disk[s][f] ELSE IF s > size THEN None ELSE mem[s][f]]], size)
    BY <1>2 DEF File!PowerFails
  <2> DEFINE left == [s \in File!Slot |-> [f \in File!Field |->
              IF <<s, f>> \in lost THEN disk[s][f] ELSE IF s > size THEN None ELSE mem[s][f]]]
  <2>2. mem \in Contents /\ disk \in Contents
    BY DEF FileInv, FileWhole
  <2>3. left \in Contents
    BY <2>2 DEF Contents, Cell
  <2>4. ASSUME NEW s \in File!Slot, NEW f \in File!Field
        PROVE  left[s][f] \in {mem[s][f], disk[s][f]} /\ (s > size => left[s][f] = None)
    <3>1. s > size => disk[s][f] = None
      BY DEF FileInv, FileWhole, File!Slot
    <3> QED BY <3>1
  <2> HIDE DEF left
  <2>5. File!Down(left, size)
    BY <2>1 DEF left
  <2> QED BY <2>3, <2>4, <2>5, DownKeeps
<1> QED BY <1>1, <1>2
(* A new node gets the first free slot, and the file is twice as long when *)
(* there is none.                                                          *)
LEMMA RoomForOne ==
  ASSUME File!VectorFileAssumption, FileInv, call.at = "place"
  PROVE  /\ File!EnsureCapacity \in Nat /\ capacity <= File!EnsureCapacity /\ File!EnsureCapacity <= MaxSlots
         /\ File!NextFreeSlot \in File!Slot /\ File!NextFreeSlot <= File!EnsureCapacity
         /\ mem[File!NextFreeSlot][File!Id] = None
<1> USE DEF File!VectorFileAssumption
<1> DEFINE cap == File!EnsureCapacity
           U == Used(mem)
<1>1. /\ capacity \in Nat /\ capacity > 0 /\ capacity <= MaxSlots /\ len \in Nat
      /\ len = Cardinality(U) /\ (len < capacity \/ 2 * capacity <= MaxSlots)
      /\ \A s \in U : s <= capacity
  BY FieldNames DEF FileInv, FileWhole, IndexFits, Used
<1>2. IsFiniteSet(1..capacity) /\ Cardinality(1..capacity) = capacity
  BY <1>1, FS_Interval
<1>3. U \in SUBSET File!Slot /\ U \subseteq 1..capacity
  BY <1>1 DEF Used, File!Slot
<1>4. cap \in Nat /\ capacity <= cap /\ cap <= MaxSlots
  BY <1>1 DEF File!EnsureCapacity
<1>5. \E f \in File!Slot : f \notin U /\ f <= cap
  <2>1. CASE len < capacity
    <3>1. 1..capacity # U
      BY <1>1, <1>2, <2>1
    <3>2. PICK f \in 1..capacity : f \notin U
      BY <1>3, <3>1
    <3> QED BY <1>1, <1>4, <3>2 DEF File!Slot
  <2>2. CASE ~(len < capacity)
    <3>1. capacity + 1 \in File!Slot /\ capacity + 1 <= cap /\ capacity + 1 \notin U
      BY <1>1, <2>2 DEF File!EnsureCapacity, File!Slot
    <3> QED BY <3>1
  <2> QED BY <2>1, <2>2
<1> HIDE DEF cap, U
<1>6. PICK f \in File!Slot : f \notin U /\ f <= cap
  BY <1>5
<1>7. \E s \in 1..f : s \notin U /\ \A q \in 1..(s - 1) : q \in U
  BY <1>3, <1>6, FirstFree DEF File!Slot
<1>8. \E s \in File!Slot : s <= cap /\ s \notin U /\ \A q \in 1..(s - 1) : q \in U
  BY <1>4, <1>6, <1>7 DEF File!Slot
<1>9. \A s \in File!Slot : \A q \in 1..(s - 1) : q \in File!Slot
  BY DEF File!Slot
<1>10. PICK s \in File!Slot : s <= cap /\ mem[s][File!Id] = None /\ \A q \in 1..(s - 1) : mem[q][File!Id] # None
  BY <1>8, <1>9 DEF U, Used
<1> DEFINE First(z) == mem[z][File!Id] = None /\ \A q \in 1..(z - 1) : mem[q][File!Id] # None
<1>11. File!NextFreeSlot \in File!Slot /\ First(File!NextFreeSlot)
  BY <1>10 DEF File!NextFreeSlot
<1>12. File!NextFreeSlot = s
  <2>1. s \in 1..MaxSlots /\ File!NextFreeSlot \in 1..MaxSlots
    BY <1>11 DEF File!Slot
  <2>2. ~(s < File!NextFreeSlot) /\ ~(File!NextFreeSlot < s)
    BY <1>10, <1>11, <2>1
  <2> QED BY <2>1, <2>2
<1> QED BY <1>4, <1>10, <1>11, <1>12 DEF cap

LEMMA PlaceKeeps ==
  ASSUME File!VectorFileAssumption, FileInv, File!Place
  PROVE  FileInv'
<1> USE DEF File!VectorFileAssumption
<1> DEFINE sl == File!NextFreeSlot
           x == call.node
           cap == File!EnsureCapacity
<1>1. /\ call.at = "place" /\ capacity' = cap /\ mem' = [mem EXCEPT ![sl][File!Id] = x]
      /\ index' = [index EXCEPT ![x] = sl] /\ len' = len + 1
      /\ call' = [call EXCEPT !.at = "lo", !.slot = sl]
      /\ UNCHANGED <<disk, durable, stored, spoilt, crashes>>
  BY DEF File!Place, File!Past
<1>2. /\ cap \in Nat /\ capacity <= cap /\ cap <= MaxSlots
      /\ sl \in File!Slot /\ sl <= cap /\ mem[sl][File!Id] = None
  BY <1>1, RoomForOne
<1>3. ~Busy(call) /\ call.at # "down" /\ call \in Calls /\ x \in Node /\ call.strategy \in Strategy
      /\ call.vector \in Value \X Value
  BY <1>1 DEF FileInv, CallFits, Busy
<1>4. index[x] = 0
  BY <1>1 DEF FileInv, IndexFits
<1> HIDE DEF sl, x, cap
<1>5. (\A s \in File!Slot : mem[s][File!Id] # x) /\ (\A st \in Strategy : stored[x][st] = None)
  BY <1>3, <1>4, Unplaced
<1>6. /\ mem' \in Contents
      /\ \A s \in File!Slot, f \in File!Field : mem'[s][f] = IF s = sl /\ f = File!Id THEN x ELSE mem[s][f]
  BY <1>1, <1>2, <1>3, FieldNames DEF FileInv, FileWhole, Contents, Cell
<1>7. \A s \in File!Slot : mem'[s][File!Id] = IF s = sl THEN x ELSE mem[s][File!Id]
  BY <1>6, FieldNames
<1>8. Busy(call') /\ call'.at = "lo" /\ call'.slot = sl /\ call'.node = x /\ call'.vector = call.vector
      /\ call'.strategy = call.strategy /\ call' \in Calls /\ sl # 0
  <2>1. sl \in 0..MaxSlots /\ sl # 0
    BY <1>2 DEF File!Slot
  <2> QED BY <1>1, <1>3, <2>1 DEF Calls, Busy, x
<1>9. FileWhole(mem', disk', capacity', durable', call')
  <2>1. ASSUME NEW s \in File!Slot, NEW f \in File!Field
        PROVE  /\ s > capacity' => mem'[s][f] = None
               /\ s > durable' => disk'[s][f] = None
               /\ Touched(call', s, f) \/ mem'[s][f] = disk'[s][f]
    <3>1. /\ s > capacity => mem[s][f] = None
          /\ s > durable => disk[s][f] = None
          /\ mem[s][f] = disk[s][f]
      BY <1>3 DEF FileInv, FileWhole, Touched
    <3>2. capacity \in Nat /\ s \in Nat
      BY DEF FileInv, FileWhole, File!Slot
    <3> QED BY <1>1, <1>2, <1>6, <1>8, <3>1, <3>2 DEF Touched
  <2>2. \A s \in File!Slot : disk'[s][File!Id] \in {None, mem'[s][File!Id]}
    BY <1>1, <1>2, <1>7 DEF FileInv, FileWhole
  <2>3. \A s, q \in File!Slot : mem'[s][File!Id] = mem'[q][File!Id] => s = q \/ mem'[s][File!Id] = None
    BY <1>5, <1>7 DEF FileInv, FileWhole
  <2>4. \A s \in File!Slot : mem'[s][File!Id] \in Node \cup {None}
    BY <1>3, <1>7 DEF FileInv, FileWhole
  <2>5. disk' \in Contents /\ capacity' \in Nat /\ durable' \in Nat
        /\ InitialCapacity <= durable' /\ durable' <= capacity' /\ capacity' <= MaxSlots
    BY <1>1, <1>2 DEF FileInv, FileWhole
  <2> QED BY <1>6, <2>1, <2>2, <2>3, <2>4, <2>5 DEF FileWhole
<1>10. CallFits(mem', capacity', call')
  BY <1>1, <1>2, <1>3, <1>7, <1>8 DEF CallFits
<1>11. IndexFits(mem', capacity', index', len', call')
  <2>1. Used(mem') = Used(mem) \cup {sl} /\ sl \notin Used(mem)
    BY <1>2, <1>3, <1>7 DEF Used
  <2>2. IsFiniteSet(File!Slot) /\ Used(mem) \subseteq File!Slot
    BY FS_Interval DEF File!Slot, Used
  <2>3. len' = Cardinality(Used(mem'))
    <3>1. IsFiniteSet(Used(mem))
      BY <2>2, FS_Subset
    <3>2. Cardinality(Used(mem) \cup {sl}) = Cardinality(Used(mem)) + 1
      BY <2>1, <3>1, FS_AddElement
    <3>3. len = Cardinality(Used(mem))
      BY <1>3 DEF FileInv, IndexFits
    <3> QED BY <1>1, <2>1, <3>2, <3>3
  <2>4. index' \in [Node -> 0..MaxSlots] /\ \A n \in Node : index'[n] = IF n = x THEN sl ELSE index[n]
    BY <1>1, <1>2, <1>3 DEF FileInv, IndexFits, File!Slot
  <2>5. \A n \in Node : index'[n] # 0 => mem'[index'[n]][File!Id] = n
    <3>1. \A n \in Node : index[n] # 0 => index[n] \in File!Slot /\ mem[index[n]][File!Id] = n
      BY <1>3 DEF FileInv, IndexFits, File!Slot
    <3> QED BY <1>2, <1>7, <2>4, <3>1
  <2>6. \A s \in File!Slot : mem'[s][File!Id] # None => index'[mem'[s][File!Id]] = s
    <3>1. \A s \in File!Slot : mem[s][File!Id] # None => mem[s][File!Id] \in Node /\ index[mem[s][File!Id]] = s
      BY <1>3 DEF FileInv, IndexFits, FileWhole
    <3> QED BY <1>3, <1>5, <1>7, <2>4, <3>1
  <2>7. len' \in Nat
    BY <1>1 DEF FileInv, IndexFits
  <2> QED BY <1>8, <2>3, <2>4, <2>5, <2>6, <2>7 DEF IndexFits
<1>12. Faithful(mem', disk', call', stored', spoilt')
  <2>1. ASSUME NEW s \in File!Slot, NEW st \in Strategy
        PROVE  <<s, st>> \in spoilt' \/ Writing(call', s, st) \/ Read(mem', s, st) = Due(mem', stored', s, st)
    <3>1. \A p \in {"lo", "hi", "stamp"} : mem'[s][<<st, p>>] = mem[s][<<st, p>>]
      <4>1. TAKE p \in {"lo", "hi", "stamp"}
      <4>2. <<st, p>> \in File!Field /\ <<st, p>> # File!Id
        BY FieldNames
      <4> QED BY <1>6, <4>2
    <3>2. Read(mem', s, st) = Read(mem, s, st)
      BY <3>1 DEF Read
    <3>3. Due(mem', stored', s, st) = Due(mem, stored, s, st)
      BY <1>1, <1>2, <1>5, <1>7 DEF Due
    <3> QED BY <1>1, <1>3, <3>2, <3>3 DEF FileInv, Faithful, Writing
  <2> QED BY <1>1, <2>1 DEF FileInv, Faithful
<1> QED BY <1>1, <1>9, <1>10, <1>11, <1>12 DEF FileInv

LEMMA SameCardinality == \A S : File!Cardinality(S) = Cardinality(S)
  BY DEF File!Cardinality, Cardinality

(* Opening finds every node where it is, and counts them.                  *)
LEMMA OpenKeeps ==
  ASSUME File!VectorFileAssumption, FileInv, File!Open
  PROVE  FileInv'
<1> USE DEF File!VectorFileAssumption
<1> DEFINE SlotsOf(n) == {s \in 1..capacity : mem[s][File!Id] = n}
<1>1. /\ call.at = "down" /\ call' = File!Idle
      /\ index' = [n \in Node |-> IF SlotsOf(n) = {} THEN 0
                                  ELSE CHOOSE s \in SlotsOf(n) : \A q \in SlotsOf(n) : q <= s]
      /\ len' = Cardinality({s \in 1..capacity : mem[s][File!Id] # None})
      /\ UNCHANGED <<mem, disk, capacity, durable, stored, spoilt, crashes>>
  BY SameCardinality DEF File!Open, File!ScanRecords, File!File, File!Past
<1>2. call'.at = "idle" /\ call'.slot = 0 /\ call' \in Calls /\ ~Busy(call') /\ ~Busy(call)
  BY <1>1 DEF File!Idle, Calls, Busy
<1>3. capacity \in Nat /\ capacity <= MaxSlots /\ 1..capacity \subseteq File!Slot
  BY DEF FileInv, FileWhole, File!Slot
<1>4. \A s \in File!Slot : mem[s][File!Id] \in Node \cup {None} /\ (mem[s][File!Id] # None => s \in 1..capacity)
  BY FieldNames DEF FileInv, FileWhole, File!Slot
<1>5. ASSUME NEW n \in Node
      PROVE  /\ index'[n] \in 0..MaxSlots
             /\ index'[n] # 0 => mem[index'[n]][File!Id] = n
             /\ \A s \in File!Slot : mem[s][File!Id] = n => index'[n] = s
  <2>1. n # None
    OBVIOUS
  <2>2. CASE SlotsOf(n) = {}
    BY <1>1, <1>4, <2>1, <2>2
  <2>3. CASE SlotsOf(n) # {}
    <3>1. PICK s \in 1..capacity : mem[s][File!Id] = n
      BY <2>3
    <3>2. SlotsOf(n) = {s}
      BY <1>3, <2>1, <3>1 DEF FileInv, FileWhole
    <3>3. (CHOOSE z \in {s} : \A q \in {s} : q <= z) = s
      BY <1>3, <3>1
    <3>4. index'[n] = s
      BY <1>1, <3>2, <3>3
    <3>5. \A q \in File!Slot : mem[q][File!Id] = n => q = s
      BY <1>4, <2>1, <3>2
    <3> QED BY <1>3, <3>1, <3>4, <3>5
  <2> QED BY <2>2, <2>3
<1>6. index' \in [Node -> 0..MaxSlots]
  BY <1>1, <1>5
<1>7. len' = Cardinality(Used(mem)) /\ len' \in Nat
  <2>1. {s \in 1..capacity : mem[s][File!Id] # None} = Used(mem)
    BY <1>3, <1>4 DEF Used
  <2>2. IsFiniteSet(File!Slot) /\ Used(mem) \subseteq File!Slot
    BY FS_Interval DEF File!Slot, Used
  <2> QED BY <1>1, <2>1, <2>2, FS_Subset, FS_CardinalityType
<1> HIDE DEF SlotsOf
<1>8. FileWhole(mem', disk', capacity', durable', call')
  BY <1>1, <1>2 DEF FileInv, FileWhole, Touched
<1>9. CallFits(mem', capacity', call')
  BY <1>1, <1>2 DEF FileInv, FileWhole, CallFits
<1>10. IndexFits(mem', capacity', index', len', call')
  BY <1>1, <1>2, <1>4, <1>5, <1>6, <1>7 DEF IndexFits
<1>11. Faithful(mem', disk', call', stored', spoilt')
  BY <1>1, <1>2 DEF FileInv, Faithful, Writing
<1> QED BY <1>1, <1>8, <1>9, <1>10, <1>11 DEF FileInv

(* FileInductive: no node has two slots, the index is the file's, what is  *)
(* not on disk belongs to the store under way, and every slot holds what   *)
(* was last stored to the end for its node.                                *)
(* mmap_store.rs: open, store_strategy, flush                              *)
THEOREM FileInductive ==
  ASSUME File!VectorFileAssumption
  PROVE  File!Spec => []FileInv
<1>1. ASSUME FileInv, [File!Next]_File!vars
      PROVE  FileInv'
  <2>1. CASE UNCHANGED File!vars
    BY <1>1, <2>1 DEF FileInv, File!vars
  <2>2. CASE File!Next
    <3>1. ASSUME NEW n \in Node, NEW s \in Strategy, NEW v \in Value, File!StoreStrategy(n, s, <<v, v>>)
          PROVE  FileInv'
      BY <1>1, <3>1, StoreKeeps
    <3>2. CASE \/ File!WriteEmbedding("lo", call.vector[1], "hi")
               \/ File!WriteEmbedding("hi", call.vector[2], "stamp")
               \/ File!WriteEmbedding("stamp", "set", "flush")
      BY <1>1, <3>2, WriteKeeps
    <3> QED BY <1>1, <2>2, <3>1, <3>2, PlaceKeeps, FlushKeeps, CrashKeeps, OpenKeeps DEF File!Next
  <2> QED BY <1>1, <2>1, <2>2
<1> QED BY <1>1, FileInit, PTL DEF File!Spec

(* CrashesKeepVectors: whatever crashes there were and whatever of the     *)
(* unflushed writes each left, a node has the vector that was last stored  *)
(* for it to the end, except where the last store came to no end.          *)
(* mmap_store.rs: store_strategy, get_strategy, open                       *)
THEOREM CrashesKeepVectors == Spec => []FileKeeps
<1>1. ASSUME FileInv PROVE FileKeeps
  <2>1. SUFFICES ASSUME call.at = "idle", NEW n \in Node, NEW st \in Strategy, <<index[n], st>> \notin spoilt
                 PROVE  File!GetStrategy(n, st) = stored[n][st]
    BY DEF File!FileKeeps, FileKeeps
  <2>2. CASE index[n] = 0
    BY <1>1, <2>1, <2>2, LibraryAssumption, Unplaced DEF File!GetStrategy
  <2>3. CASE index[n] # 0
    <3>1. index[n] \in File!Slot /\ mem[index[n]][File!Id] = n /\ n # None
      BY <1>1, <2>1, <2>3, LibraryAssumption DEF FileInv, IndexFits, File!Slot, File!VectorFileAssumption
    <3>2. Read(mem, index[n], st) = Due(mem, stored, index[n], st)
      BY <1>1, <2>1, <3>1 DEF FileInv, Faithful, Writing, Busy
    <3> QED BY <2>3, <3>1, <3>2 DEF File!GetStrategy, File!ReadEmbedding, Read, Due
  <2> QED BY <2>2, <2>3
<1> QED BY <1>1, LibraryAssumption, PartsRun, FileInductive, PTL

(* FileTyped: the index finds every node of the file, where it says, and   *)
(* counts as many as there are.                                            *)
(* mmap_store.rs: scan_records, next_free_slot, ensure_capacity            *)
THEOREM FileTyped ==
  ASSUME File!VectorFileAssumption
  PROVE  File!Spec => []File!TypeOK
<1>1. ASSUME FileInv PROVE File!TypeOK
  <2> DEFINE Placed == {n \in Node : index[n] # 0}
  <2>1. len = Cardinality(Placed) /\ (call.at # "down" => len = Cardinality(Used(mem)))
    <3>1. CASE call.at = "down"
      <4>1. len = 0 /\ Placed = {}
        BY <1>1, <3>1 DEF FileInv, IndexFits
      <4> QED BY <3>1, <4>1, FS_EmptySet
    <3>2. CASE call.at # "down"
      <4> DEFINE f == [s \in Used(mem) |-> mem[s][File!Id]]
      <4>1. /\ \A n \in Node : index[n] # 0 => index[n] \in File!Slot /\ mem[index[n]][File!Id] = n
            /\ \A s \in File!Slot : mem[s][File!Id] # None => mem[s][File!Id] \in Node /\ index[mem[s][File!Id]] = s
            /\ len = Cardinality(Used(mem))
        BY <1>1, <3>2 DEF FileInv, IndexFits, FileWhole, File!Slot
      <4>2. \A s \in Used(mem) : s \in File!Slot /\ s # 0 /\ mem[s][File!Id] # None
        BY DEF Used, File!Slot
      <4>3. f \in [Used(mem) -> Placed]
        BY <4>1, <4>2
      <4>4. \A s, q \in Used(mem) : f[s] = f[q] => s = q
        BY <4>1, <4>2
      <4>5. \A n \in Placed : \E s \in Used(mem) : f[s] = n
        <5>1. TAKE n \in Placed
        <5>2. index[n] \in Used(mem) /\ mem[index[n]][File!Id] = n
          BY <4>1 DEF Used, File!VectorFileAssumption
        <5> QED BY <5>2
      <4> HIDE DEF f
      <4>6. f \in Bijection(Used(mem), Placed)
        BY <4>3, <4>4, <4>5, Fun_IsBij
      <4>7. IsFiniteSet(Used(mem))
        <5>1. IsFiniteSet(File!Slot) /\ Used(mem) \subseteq File!Slot
          BY FS_Interval DEF File!Slot, Used, File!VectorFileAssumption
        <5> QED BY <5>1, FS_Subset
      <4> HIDE DEF Placed
      <4>8. Cardinality(Placed) = Cardinality(Used(mem))
        BY <4>6, <4>7, FS_Bijection DEF ExistsBijection
      <4> QED BY <4>1, <4>8
    <3> QED BY <3>1, <3>2
  <2>2. \A n \in Node : index[n] # 0 => index[n] <= capacity /\ mem[index[n]][File!Id] = n
    <3>1. SUFFICES ASSUME NEW n \in Node, index[n] # 0
                   PROVE  index[n] <= capacity /\ mem[index[n]][File!Id] = n
      OBVIOUS
    <3>2. index[n] \in File!Slot /\ mem[index[n]][File!Id] = n
      BY <1>1, <3>1 DEF FileInv, IndexFits, File!Slot
    <3>3. mem[index[n]][File!Id] # None
      BY <3>2 DEF File!VectorFileAssumption
    <3> QED BY <1>1, <3>2, <3>3, FieldNames DEF FileInv, FileWhole, File!Slot
  <2>3. DOMAIN mem = File!Slot /\ DOMAIN disk = File!Slot
        /\ \A s \in File!Slot : DOMAIN mem[s] = File!Field /\ DOMAIN disk[s] = File!Field
    BY <1>1 DEF FileInv, FileWhole, Contents
  <2>4. /\ InitialCapacity <= durable /\ durable <= capacity /\ capacity <= MaxSlots
        /\ call.at \in {"idle", "place", "lo", "hi", "stamp", "flush", "down"} /\ call.slot \in 0..capacity
        /\ spoilt \subseteq File!Slot \X Strategy /\ crashes \in 0..MaxCrashes
    BY <1>1 DEF FileInv, FileWhole, CallFits, Calls, Faithful
  <2> QED BY <2>1, <2>2, <2>3, <2>4, SameCardinality DEF File!TypeOK, Used
<1> QED BY <1>1, FileInductive, PTL

-----------------------------------------------------------------------------
(* PgStore: the triple store on PostgreSQL.                                *)

Birth == (Source \X PgTriples!Triple) \X Nat

(* A link made to an insertion of its triple is there for as long as that  *)
(* insertion is the last one and its triple stays.                         *)
Kept(lb, present, made, births) ==
    /\ lb[2] <= births[lb[1][2]]
    /\ present[lb[1][2]] # None /\ births[lb[1][2]] = lb[2] => lb[1] \in made

Operation ==
    {None} \cup [op : {"create"}, node : PgNode]
           \cup [op : {"link"}, source : Source, rest : Seq(PgTriples!Triple), made : SUBSET Birth]

TablesFit ==
    /\ rows \subseteq PgNode /\ sources \subseteq Source
    /\ tripleRows \in [PgTriples!Triple -> PgTriples!Weight \cup {None}]
    /\ born \in [PgTriples!Triple -> Nat]
    /\ links \subseteq sources \X PgTriples!Triple
    /\ DOMAIN linkedTo = links
    /\ \A l \in links : tripleRows[l[2]] # None /\ linkedTo[l] = born[l[2]]
    /\ \A e \in PgTriples!Triple : tripleRows[e] # None => PgEnds[e][1] \in rows /\ PgEnds[e][2] \in rows

StatementsFit ==
    /\ statement \in [Caller -> Operation]
    /\ \A c \in Caller : PgTriples!Is(c, "link") =>
        /\ statement[c].source \in sources
        /\ \A lb \in statement[c].made : Kept(lb, tripleRows, links, born)

PgInv ==
    /\ TablesFit /\ StatementsFit
    /\ promised \subseteq Birth /\ \A lb \in promised : Kept(lb, tripleRows, links, born)

LEMMA PgInit ==
  ASSUME PgTriples!Init
  PROVE  PgInv
<1>1. TablesFit
  BY DEF PgTriples!Init, TablesFit
<1>2. StatementsFit
  BY DEF PgTriples!Init, StatementsFit, Operation, PgTriples!Is
<1> QED BY <1>1, <1>2 DEF PgTriples!Init, PgInv

(* What a caller is about: nothing, a node, or a link.                     *)
LEMMA OperationIs ==
  ASSUME StatementsFit, NEW c \in Caller
  PROVE  /\ PgTriples!Is(c, "create") => statement[c].node \in PgNode
         /\ PgTriples!Is(c, "link") =>
                statement[c] \in [op : {"link"}, source : Source, rest : Seq(PgTriples!Triple), made : SUBSET Birth]
<1>1. statement[c] \in Operation
  BY DEF StatementsFit
<1> QED BY <1>1 DEF Operation, PgTriples!Is

(* A link once kept stays kept, whatever the tables do that leaves it or   *)
(* takes its triple away or inserts it anew.                               *)
LEMMA KeptStays ==
  ASSUME TablesFit, NEW lb \in Birth, Kept(lb, tripleRows, links, born), TablesFit',
         NEW e \in PgTriples!Triple, e = lb[1][2],
         \/ born'[e] = born[e] /\ (tripleRows'[e] # None => tripleRows[e] # None)
         \/ born'[e] > born[e],
         lb[1] \in links /\ tripleRows'[e] # None => lb[1] \in links'
  PROVE  Kept(lb, tripleRows', links', born')
<1>1. born[e] \in Nat /\ born'[e] \in Nat /\ lb[2] \in Nat
  BY DEF TablesFit, Birth
<1> QED BY <1>1 DEF Kept

(* The tables may change while no caller comes further.                    *)
LEMMA TablesChange ==
  ASSUME PgInv, TablesFit', UNCHANGED <<statement, promised>>, sources \subseteq sources',
         \A e \in PgTriples!Triple :
            \/ born'[e] = born[e] /\ (tripleRows'[e] # None => tripleRows[e] # None)
            \/ born'[e] > born[e],
         \A l \in links : tripleRows'[l[2]] # None => l \in links'
  PROVE  PgInv'
<1>1. ASSUME NEW lb \in Birth, Kept(lb, tripleRows, links, born) PROVE Kept(lb, tripleRows', links', born')
  <2>1. lb[1][2] \in PgTriples!Triple
    BY DEF Birth
  <2> QED BY <1>1, <2>1, KeptStays DEF PgInv
<1>2. StatementsFit'
  <2>1. SUFFICES ASSUME NEW c \in Caller, PgTriples!Is(c, "link")
                 PROVE  /\ statement[c].source \in sources'
                        /\ \A lb \in statement[c].made : Kept(lb, tripleRows', links', born')
    BY DEF PgInv, StatementsFit, PgTriples!Is
  <2>2. statement[c].made \subseteq Birth
    BY <2>1, OperationIs DEF PgInv
  <2> QED BY <1>1, <2>1, <2>2 DEF PgInv, StatementsFit
<1> QED BY <1>1, <1>2 DEF PgInv

(* A caller may come further while the tables grow.                        *)
LEMMA CallerMoves ==
  ASSUME PgInv, TablesFit', NEW c \in Caller, NEW o \in Operation, statement' = [statement EXCEPT ![c] = o],
         UNCHANGED <<tripleRows, born>>, sources \subseteq sources', links \subseteq links',
         promised' \subseteq promised \cup {lb \in Birth : Kept(lb, tripleRows, links, born)},
         o # None /\ o.op = "link" =>
            o.source \in sources' /\ \A lb \in o.made : Kept(lb, tripleRows, links', born)
  PROVE  PgInv'
<1>1. ASSUME NEW lb \in Birth, Kept(lb, tripleRows, links, born) PROVE Kept(lb, tripleRows', links', born')
  BY <1>1 DEF Kept
<1>2. StatementsFit'
  <2>1. statement' \in [Caller -> Operation]
    BY DEF PgInv, StatementsFit
  <2>2. SUFFICES ASSUME NEW d \in Caller, NEW p, p = statement'[d], p # None, p.op = "link"
                 PROVE  /\ p.source \in sources'
                        /\ \A lb \in p.made : Kept(lb, tripleRows', links', born')
    BY <2>1 DEF StatementsFit, PgTriples!Is
  <2>3. CASE d = c
    BY <2>2, <2>3 DEF PgInv, StatementsFit
  <2>4. CASE d # c
    <3>1. p = statement[d] /\ PgTriples!Is(d, "link")
      BY <2>2, <2>4 DEF PgInv, StatementsFit, PgTriples!Is
    <3>2. p.made \subseteq Birth
      BY <3>1, OperationIs DEF PgInv
    <3> QED BY <1>1, <3>1, <3>2 DEF PgInv, StatementsFit
  <2> QED BY <2>3, <2>4
<1> QED BY <1>1, <1>2 DEF PgInv

LEMMA NodesKeep ==
  ASSUME PgInv, NEW c \in Caller, NEW n \in PgNode,
         PgTriples!InsertNode(c, n) \/ PgTriples!FindOrCreateNode(c, n) \/ PgTriples!CreateNode(c)
  PROVE  PgInv'
<1> USE DEF PgTriples!tables, PgTriples!history
<1>1. CASE PgTriples!InsertNode(c, n)
  <2>1. TablesFit'
    BY <1>1 DEF PgTriples!InsertNode, PgInv, TablesFit
  <2> QED BY <1>1, <2>1, TablesChange DEF PgTriples!InsertNode
<1>2. CASE PgTriples!FindOrCreateNode(c, n)
  <2>1. TablesFit'
    BY <1>2 DEF PgTriples!FindOrCreateNode, PgInv, TablesFit
  <2>2. [op |-> "create", node |-> n] \in Operation
    BY DEF Operation
  <2> QED BY <1>2, <2>1, <2>2, CallerMoves DEF PgTriples!FindOrCreateNode, PgTriples!Starts
<1>3. CASE PgTriples!CreateNode(c)
  <2>1. statement[c].node \in PgNode
    BY <1>3, OperationIs DEF PgTriples!CreateNode, PgInv
  <2>2. TablesFit'
    BY <1>3, <2>1 DEF PgTriples!CreateNode, PgInv, TablesFit
  <2>3. None \in Operation
    BY DEF Operation
  <2> QED BY <1>3, <2>2, <2>3, CallerMoves DEF PgTriples!CreateNode, PgTriples!Done
<1> QED BY <1>1, <1>2, <1>3

LEMMA InsertTripleKeeps ==
  ASSUME PgTriples!PgStoreAssumption, PgInv, NEW c \in Caller, NEW e \in PgTriples!Triple, PgTriples!InsertTriple(c, e)
  PROVE  PgInv'
<1> USE DEF PgTriples!InsertTriple
<1>1. Full \in PgTriples!Weight /\ Full # None
  BY DEF PgTriples!PgStoreAssumption, PgTriples!Weight
<1>2. born[e] \in Nat /\ born'[e] = born[e] + 1 /\ \A d \in PgTriples!Triple : d # e => born'[d] = born[d]
  BY DEF PgInv, TablesFit
<1>3. tripleRows'[e] = Full /\ \A d \in PgTriples!Triple : d # e => tripleRows'[d] = tripleRows[d]
  BY DEF PgInv, TablesFit
<1>4. tripleRows' \in [PgTriples!Triple -> PgTriples!Weight \cup {None}] /\ born' \in [PgTriples!Triple -> Nat]
  BY <1>1, <1>2 DEF PgInv, TablesFit
<1>5. TablesFit'
  <2>1. \A l \in links : l[2] # e /\ l[2] \in PgTriples!Triple
    BY DEF PgInv, TablesFit
  <2>2. \A l \in links' : tripleRows'[l[2]] # None /\ linkedTo'[l] = born'[l[2]]
    BY <1>2, <1>3, <2>1 DEF PgInv, TablesFit
  <2>3. \A d \in PgTriples!Triple : tripleRows'[d] # None => PgEnds[d][1] \in rows /\ PgEnds[d][2] \in rows
    BY <1>3 DEF PgInv, TablesFit
  <2> QED BY <1>4, <2>2, <2>3 DEF PgInv, TablesFit
<1>6. \A d \in PgTriples!Triple :
          \/ born'[d] = born[d] /\ (tripleRows'[d] # None => tripleRows[d] # None)
          \/ born'[d] > born[d]
  BY <1>2, <1>3
<1> QED BY <1>5, <1>6, TablesChange

(* Weights change, and no row comes or goes.                               *)
LEMMA WeightsKeep ==
  ASSUME PgTriples!PgStoreAssumption, PgInv, NEW c \in Caller,
         \/ \E e \in PgTriples!Triple, w \in PgTriples!Weight : PgTriples!UpdateTriple(c, e, w)
         \/ \E w \in Least : PgTriples!Decay(c, w)
  PROVE  PgInv'
<1>1. /\ tripleRows' \in [PgTriples!Triple -> PgTriples!Weight \cup {None}]
      /\ \A d \in PgTriples!Triple : tripleRows'[d] = None <=> tripleRows[d] = None
      /\ UNCHANGED <<rows, sources, links, statement, born, linkedTo, promised>>
  <2>1. ASSUME NEW e \in PgTriples!Triple, NEW w \in PgTriples!Weight, PgTriples!UpdateTriple(c, e, w)
        PROVE  <1>1
    <3>1. w # None
      BY DEF PgTriples!PgStoreAssumption
    <3> QED BY <2>1, <3>1 DEF PgTriples!UpdateTriple, PgTriples!Stored, PgInv, TablesFit, PgTriples!history
  <2>2. ASSUME NEW w \in Least, PgTriples!Decay(c, w)
        PROVE  <1>1
    <3>1. UNCHANGED <<rows, sources, links, statement, born, linkedTo, promised>>
      BY <2>2 DEF PgTriples!Decay, PgTriples!history
    <3>2. ASSUME NEW d \in PgTriples!Triple
          PROVE  tripleRows'[d] \in PgTriples!Weight \cup {None} /\ (tripleRows'[d] = None <=> tripleRows[d] = None)
      <4>1. w \in Nat /\ Full \in Nat /\ None \notin PgTriples!Weight /\ tripleRows[d] \in PgTriples!Weight \cup {None}
        BY DEF PgTriples!PgStoreAssumption, PgInv, TablesFit
      <4>2. CASE tripleRows[d] # None /\ tripleRows[d] >= w
        <5>1. /\ tripleRows'[d] \in Nat /\ tripleRows'[d] <= Full
          BY <2>2, <4>1, <4>2 DEF PgTriples!Decay, PgTriples!Stored, PgTriples!Weight
        <5> QED BY <4>1, <4>2, <5>1 DEF PgTriples!Weight
      <4>3. CASE ~(tripleRows[d] # None /\ tripleRows[d] >= w)
        BY <2>2, <4>1, <4>3 DEF PgTriples!Decay, PgTriples!Stored
      <4> QED BY <4>2, <4>3
    <3> QED BY <2>2, <3>1, <3>2 DEF PgTriples!Decay
  <2> QED BY <2>1, <2>2
<1>2. \A l \in links : l[2] \in PgTriples!Triple
  BY DEF PgInv, TablesFit
<1>3. TablesFit'
  BY <1>1, <1>2 DEF PgInv, TablesFit
<1> QED BY <1>1, <1>3, TablesChange

(* Rows go, and their links with them.                                     *)
LEMMA WithoutKeeps ==
  ASSUME PgInv, NEW gone, PgTriples!Without(gone), UNCHANGED <<rows, sources, statement, born, promised>>
  PROVE  PgInv'
<1> USE DEF PgTriples!Without
<1>1. \A d \in PgTriples!Triple : tripleRows'[d] = IF d \in gone THEN None ELSE tripleRows[d]
  OBVIOUS
<1>2. \A l \in links : l[2] \in PgTriples!Triple
  BY DEF PgInv, TablesFit
<1>3. links' \subseteq links /\ \A l \in links' : linkedTo'[l] = linkedTo[l] /\ l[2] \notin gone
  OBVIOUS
<1>4. TablesFit'
  BY <1>1, <1>2, <1>3 DEF PgInv, TablesFit
<1> QED BY <1>1, <1>2, <1>4, TablesChange

LEMMA SourceKeeps ==
  ASSUME PgTriples!PgStoreAssumption, PgInv, NEW c \in Caller,
         \/ \E s \in Source, l \in Listing : PgTriples!InsertSource(c, s, l)
         \/ PgTriples!LinkFails(c) \/ PgTriples!SourceInserted(c)
  PROVE  PgInv'
<1> USE DEF PgTriples!tables, PgTriples!history
<1>1. ASSUME NEW s \in Source, NEW l \in Listing, PgTriples!InsertSource(c, s, l)
      PROVE  PgInv'
  <2> DEFINE o == [op |-> "link", source |-> s, rest |-> l, made |-> {}]
  <2>1. o \in Operation /\ o.source = s /\ o.made = {}
    BY DEF Operation, PgTriples!PgStoreAssumption
  <2>2. TablesFit'
    BY <1>1 DEF PgTriples!InsertSource, PgInv, TablesFit
  <2>3. statement' = [statement EXCEPT ![c] = o] /\ s \in sources' /\ sources \subseteq sources'
    BY <1>1 DEF PgTriples!InsertSource, PgTriples!Starts
  <2> HIDE DEF o
  <2> QED BY <1>1, <2>1, <2>2, <2>3, CallerMoves DEF PgTriples!InsertSource
<1>2. CASE PgTriples!LinkFails(c)
  <2>1. TablesFit' /\ None \in Operation
    BY <1>2 DEF PgTriples!LinkFails, PgInv, TablesFit, Operation
  <2> QED BY <1>2, <2>1, CallerMoves DEF PgTriples!LinkFails, PgTriples!Done
<1>3. CASE PgTriples!SourceInserted(c)
  <2>1. TablesFit' /\ None \in Operation
    BY <1>3 DEF PgTriples!SourceInserted, PgInv, TablesFit, Operation
  <2>2. statement[c].made \subseteq {lb \in Birth : Kept(lb, tripleRows, links, born)}
    <3>1. PgTriples!Is(c, "link")
      BY <1>3 DEF PgTriples!SourceInserted
    <3> QED BY <3>1, OperationIs DEF PgInv, StatementsFit
  <2>3. promised' \subseteq promised \cup {lb \in Birth : Kept(lb, tripleRows, links, born)}
    BY <1>3, <2>2 DEF PgTriples!SourceInserted
  <2> QED BY <1>3, <2>1, <2>3, CallerMoves DEF PgTriples!SourceInserted, PgTriples!Done
<1> QED BY <1>1, <1>2, <1>3

LEMMA LinkedFurther ==
  ASSUME NEW S, NEW R, NEW P, NEW j \in [op : {"link"}, source : S, rest : R, made : P], NEW r \in R, NEW m \in P,
         NEW k, k = [j EXCEPT !.rest = r, !.made = m]
  PROVE  k \in [op : {"link"}, source : S, rest : R, made : P] /\ k.source = j.source /\ k.made = m
OBVIOUS

LEMMA LinkKeeps ==
  ASSUME PgInv, NEW c \in Caller, PgTriples!Link(c)
  PROVE  PgInv'
<1> DEFINE e == Head(statement[c].rest)
           l == <<statement[c].source, e>>
           o == [statement[c] EXCEPT !.rest = Tail(statement[c].rest),
                                     !.made = statement[c].made \cup {<<l, born[e]>>}]
<1>1. PgTriples!Is(c, "link") /\ statement[c].rest # <<>> /\ e \in PgTriples!Stored
  BY DEF PgTriples!Link
<1>2. statement[c] \in [op : {"link"}, source : Source, rest : Seq(PgTriples!Triple), made : SUBSET Birth]
  BY <1>1, OperationIs DEF PgInv
<1>3. e \in PgTriples!Triple /\ Tail(statement[c].rest) \in Seq(PgTriples!Triple) /\ tripleRows[e] # None
  BY <1>1, <1>2 DEF PgTriples!Stored
<1>4. statement[c].source \in sources
  BY <1>1 DEF PgInv, StatementsFit
<1>5. links' = links \cup {l} /\ linkedTo' = [k \in links' |-> IF k \in links THEN linkedTo[k] ELSE born[e]]
      /\ UNCHANGED <<rows, tripleRows, sources, born, promised>>
  BY DEF PgTriples!Link
<1>6. l[1] = statement[c].source /\ l[2] = e
  OBVIOUS
<1>7. statement' = [statement EXCEPT ![c] = o]
  BY DEF PgTriples!Link, PgInv, StatementsFit
<1>8. o \in [op : {"link"}, source : Source, rest : Seq(PgTriples!Triple), made : SUBSET Birth]
      /\ o.source = statement[c].source /\ o.made = statement[c].made \cup {<<l, born[e]>>}
  <2>1. born[e] \in Nat
    BY <1>3 DEF PgInv, TablesFit
  <2>2. <<l, born[e]>> \in Birth
    BY <1>2, <1>3, <2>1 DEF Birth
  <2> QED BY <1>2, <1>3, <2>2, LinkedFurther
<1>9. o \in Operation /\ o.op = "link"
  BY <1>8 DEF Operation
<1> HIDE DEF o
<1>10. TablesFit'
  <2>1. links' \subseteq sources' \X PgTriples!Triple /\ DOMAIN linkedTo' = links'
    BY <1>3, <1>4, <1>5 DEF PgInv, TablesFit
  <2>2. ASSUME NEW k \in links' PROVE tripleRows'[k[2]] # None /\ linkedTo'[k] = born'[k[2]]
    <3>1. CASE k \in links
      BY <1>5, <3>1 DEF PgInv, TablesFit
    <3>2. CASE k \notin links
      BY <1>3, <1>5, <1>6, <2>2, <3>2
    <3> QED BY <3>1, <3>2
  <2> QED BY <1>5, <2>1, <2>2 DEF PgInv, TablesFit
<1>11. ASSUME NEW lb \in o.made PROVE Kept(lb, tripleRows, links', born)
  <2>1. CASE lb \in statement[c].made
    BY <1>1, <1>5, <2>1 DEF PgInv, StatementsFit, Kept
  <2>2. CASE lb = <<l, born[e]>>
    <3>1. lb[1] = l /\ lb[2] = born[e] /\ lb[1][2] = e
      BY <2>2
    <3>2. born[e] \in Nat /\ l \in links'
      BY <1>3, <1>5 DEF PgInv, TablesFit
    <3> HIDE DEF l, e
    <3> QED BY <3>1, <3>2 DEF Kept
  <2> QED BY <1>8, <1>11, <2>1, <2>2
<1> QED BY <1>4, <1>5, <1>7, <1>8, <1>9, <1>10, <1>11, CallerMoves

(* PgStoreInductive: at every statement of every operation, the two nodes  *)
(* of a triple and both ends of a provenance link are rows, and a triple   *)
(* counts in its links every source that was reported for it.              *)
(* storage/postgres.rs: INIT_SQL, insert_triple, insert_source             *)
THEOREM PgStoreInductive ==
  ASSUME PgTriples!PgStoreAssumption
  PROVE  PgTriples!Spec => []PgInv
<1>1. ASSUME PgInv, [PgTriples!Next]_PgTriples!vars
      PROVE  PgInv'
  <2>1. CASE UNCHANGED PgTriples!vars
    <3>1. UNCHANGED <<rows, tripleRows, sources, links, statement, born, linkedTo, promised>>
      BY <2>1 DEF PgTriples!vars, PgTriples!tables, PgTriples!history
    <3>2. TablesFit'
      BY <1>1, <3>1 DEF PgInv, TablesFit
    <3> QED BY <1>1, <3>1, <3>2, TablesChange
  <2>2. ASSUME NEW c \in Caller, NEW w \in Least, PgTriples!EvictBelowWeight(c, w)
        PROVE  PgInv'
    BY <1>1, <2>2, WithoutKeeps DEF PgTriples!EvictBelowWeight
  <2>3. ASSUME NEW c \in Caller, NEW e \in PgTriples!Triple, PgTriples!DeleteTriple(c, e)
        PROVE  PgInv'
    BY <1>1, <2>3, WithoutKeeps DEF PgTriples!DeleteTriple
  <2>4. ASSUME NEW c \in Caller, NEW e \in PgTriples!Triple, PgTriples!TouchTriple(c, e)
        PROVE  PgInv'
    <3>1. Full \in PgTriples!Weight
      BY DEF PgTriples!PgStoreAssumption, PgTriples!Weight
    <3> QED BY <1>1, <2>4, <3>1, WeightsKeep DEF PgTriples!TouchTriple
  <2>5. ASSUME NEW c \in Caller, PgTriples!CreateNode(c)
        PROVE  PgInv'
    <3>1. statement[c].node \in PgNode
      BY <1>1, <2>5, OperationIs DEF PgTriples!CreateNode, PgInv
    <3> QED BY <1>1, <2>5, <3>1, NodesKeep
  <2> QED BY <1>1, <2>1, <2>2, <2>3, <2>4, <2>5, NodesKeep, InsertTripleKeeps, WeightsKeep, SourceKeeps, LinkKeeps
          DEF PgTriples!Next
<1> QED BY <1>1, PgInit, PTL DEF PgTriples!Spec

(* ProvenanceFits: however the statements of several operations fall       *)
(* between each other, a source that was reported as inserted is found     *)
(* with the triples it lists for as long as they stay.                     *)
(* storage/postgres.rs: insert_source, insert_triple, delete_triple        *)
THEOREM ProvenanceFits ==
  ASSUME PgTriples!PgStoreAssumption
  PROVE  PgTriples!Spec => [](PgTriples!TypeOK /\ PgTriples!LinksKept)
<1>1. PgInv => PgTriples!TypeOK
  BY DEF PgInv, TablesFit, PgTriples!TypeOK, PgTriples!Stored
<1>2. ASSUME PgInv PROVE PgTriples!LinksKept
  <2>1. ASSUME NEW p \in promised, p[1][2] \in PgTriples!Stored, born[p[1][2]] = p[2]
        PROVE  p[1][1] \in PgTriples!SourcesOf(p[1][2])
    <3>1. p[1] \in links /\ p[1] = <<p[1][1], p[1][2]>>
      BY <1>2, <2>1 DEF PgInv, Kept, PgTriples!Stored, Birth
    <3> QED BY <1>2, <3>1 DEF PgInv, TablesFit, PgTriples!SourcesOf
  <2>2. \A l \in links : linkedTo[l] = born[l[2]] /\ l[2] \in PgTriples!Stored
    BY <1>2 DEF PgInv, TablesFit, PgTriples!Stored
  <2> QED BY <2>1, <2>2 DEF PgTriples!LinksKept
<1> QED BY <1>1, <1>2, PgStoreInductive, PTL

-----------------------------------------------------------------------------
(* PgSessions: the session store on PostgreSQL.                            *)

Copies == [pattern : Pattern, row : PgVkb!PatternRow] \cup {None}

(* A pattern that was emerging when it was read, or is now.                *)
Began(p, table, begun) == table[p] # None /\ (table[p].status = "emerging" \/ p \in begun)

Fits(row) == row.status \in {"emerging", "established"} /\ (row.status = "established" <=> row.confidence >= 7)

(* What a caller has read of a pattern may be old, but tells whether the   *)
(* pattern began as emerging.                                              *)
CopyFits(k, table, begun) ==
    k # None =>
    /\ table[k.pattern] # None
    /\ k.row.status = "emerging" => Began(k.pattern, table, begun)
    /\ Began(k.pattern, table, begun) => k.row.status = "emerging" \/ (k.pattern \in begun /\ Fits(k.row))

VkbInv ==
    /\ PgVkb!TypeOK
    /\ emerging \subseteq Pattern
    /\ \A p \in emerging : patterns[p] # None /\ Fits(patterns[p])
    /\ \A c \in Caller : CopyFits(copy[c], patterns, emerging)

LEMMA VkbInit ==
  ASSUME PgVkb!Init
  PROVE  VkbInv
BY DEF PgVkb!Init, VkbInv, PgVkb!TypeOK, PgVkb!Rows, CopyFits

LEMMA SessionsKeep ==
  ASSUME PgVkb!PgSessionsAssumption, VkbInv, NEW s \in Session,
         \/ \E room \in Room \cup {None}, at \in Time : PgVkb!CreateSession(s, room, at)
         \/ \E st \in PgVkb!Status, b \in BOOLEAN : PgVkb!UpdateSession(s, st, b)
         \/ \E e \in Exchange, at \in Time : PgVkb!AddExchange(e, s, at)
  PROVE  VkbInv'
<1>1. UNCHANGED <<patterns, copy, emerging>>
  BY DEF PgVkb!CreateSession, PgVkb!UpdateSession, PgVkb!AddExchange
<1>2. /\ sessions' \in [Session -> PgVkb!SessionRow \cup {None}]
      /\ \A t \in Session : sessions[t] # None => sessions'[t] # None
      /\ exchanges' \in [Exchange -> [session : Session, at : Time] \cup {None}]
      /\ \A e \in Exchange : exchanges'[e] # None => exchanges'[e] = exchanges[e] \/ sessions[exchanges'[e].session] # None
  <2>1. ASSUME NEW room \in Room \cup {None}, NEW at \in Time, PgVkb!CreateSession(s, room, at)
        PROVE  <1>2
    <3> DEFINE r == [status |-> "active", room |-> room, at |-> at, ended |-> FALSE]
    <3>1. r \in PgVkb!SessionRow
      BY DEF PgVkb!SessionRow, PgVkb!Status
    <3>2. sessions' = [sessions EXCEPT ![s] = r] /\ UNCHANGED exchanges
      BY <2>1 DEF PgVkb!CreateSession
    <3> HIDE DEF r
    <3> QED BY <3>1, <3>2 DEF PgVkb!PgSessionsAssumption, VkbInv, PgVkb!TypeOK
  <2>2. ASSUME NEW st \in PgVkb!Status, NEW b \in BOOLEAN, PgVkb!UpdateSession(s, st, b)
        PROVE  <1>2
    <3> DEFINE r == [sessions[s] EXCEPT !.status = st, !.ended = b]
    <3>1. sessions[s] \in PgVkb!SessionRow
      BY <2>2 DEF PgVkb!UpdateSession, PgVkb!Rows, VkbInv, PgVkb!TypeOK
    <3>2. r \in PgVkb!SessionRow
      BY <3>1 DEF PgVkb!SessionRow
    <3>3. sessions' = [sessions EXCEPT ![s] = r] /\ UNCHANGED exchanges
      BY <2>2 DEF PgVkb!UpdateSession, VkbInv, PgVkb!TypeOK
    <3> HIDE DEF r
    <3> QED BY <3>2, <3>3 DEF PgVkb!PgSessionsAssumption, VkbInv, PgVkb!TypeOK
  <2>3. ASSUME NEW e \in Exchange, NEW at \in Time, PgVkb!AddExchange(e, s, at)
        PROVE  <1>2
    <3>1. sessions[s] # None /\ UNCHANGED sessions /\ exchanges' = [exchanges EXCEPT ![e] = [session |-> s, at |-> at]]
      BY <2>3 DEF PgVkb!AddExchange, PgVkb!Rows
    <3> QED BY <3>1 DEF VkbInv, PgVkb!TypeOK
  <2> QED BY <2>1, <2>2, <2>3
<1>3. \A e \in PgVkb!Rows(exchanges') : exchanges'[e].session \in PgVkb!Rows(sessions')
  <2>1. SUFFICES ASSUME NEW e \in Exchange, exchanges'[e] # None
                 PROVE  exchanges'[e].session \in Session /\ sessions'[exchanges'[e].session] # None
    BY <1>2 DEF PgVkb!Rows
  <2>2. exchanges'[e].session \in Session
    BY <1>2, <2>1
  <2>3. CASE exchanges'[e] = exchanges[e]
    BY <1>2, <2>1, <2>2, <2>3 DEF VkbInv, PgVkb!TypeOK, PgVkb!Rows
  <2>4. CASE exchanges'[e] # exchanges[e]
    BY <1>2, <2>1, <2>2, <2>4
  <2> QED BY <2>2, <2>3, <2>4
<1>4. PgVkb!TypeOK'
  BY <1>1, <1>2, <1>3 DEF VkbInv, PgVkb!TypeOK
<1> QED BY <1>1, <1>4 DEF VkbInv, CopyFits, Began

LEMMA RecordKeeps ==
  ASSUME PgVkb!PgSessionsAssumption, VkbInv,
         NEW p \in Pattern, NEW conf \in Start, NEW st \in PgVkb!PatternStatus, PgVkb!RecordPattern(p, conf, st)
  PROVE  VkbInv'
<1> DEFINE r == [confidence |-> conf, status |-> st]
<1>1. r \in PgVkb!PatternRow
  BY DEF PgVkb!RecordPattern, PgVkb!PatternRow, PgVkb!PgSessionsAssumption
<1>2. patterns[p] = None /\ patterns' = [patterns EXCEPT ![p] = r] /\ UNCHANGED <<sessions, exchanges, copy, emerging>>
  BY DEF PgVkb!RecordPattern, PgVkb!Rows, VkbInv, PgVkb!TypeOK
<1> HIDE DEF r
<1>3. patterns' \in [Pattern -> PgVkb!PatternRow \cup {None}] /\ \A q \in Pattern : q # p => patterns'[q] = patterns[q]
  BY <1>1, <1>2 DEF VkbInv, PgVkb!TypeOK
<1>4. PgVkb!TypeOK'
  BY <1>2, <1>3 DEF VkbInv, PgVkb!TypeOK
<1>5. \A c \in Caller : CopyFits(copy'[c], patterns', emerging')
  <2>1. SUFFICES ASSUME NEW c \in Caller, copy[c] # None PROVE CopyFits(copy'[c], patterns', emerging')
    BY <1>2 DEF CopyFits
  <2>2. copy[c].pattern \in Pattern /\ copy[c].pattern # p
    BY <1>2, <2>1 DEF VkbInv, PgVkb!TypeOK, CopyFits
  <2> QED BY <1>2, <1>3, <2>2 DEF VkbInv, CopyFits, Began
<1>6. \A q \in emerging' : patterns'[q] # None /\ Fits(patterns'[q])
  BY <1>2, <1>3 DEF VkbInv
<1> QED BY <1>2, <1>4, <1>5, <1>6 DEF VkbInv

LEMMA FetchKeeps ==
  ASSUME VkbInv, NEW p \in Pattern, NEW c \in Caller, PgVkb!FetchPattern(c, p)
  PROVE  VkbInv'
<1> DEFINE k == [pattern |-> p, row |-> patterns[p]]
<1>1. /\ copy' = [copy EXCEPT ![c] = k] /\ UNCHANGED <<sessions, exchanges, patterns, emerging>>
      /\ patterns[p] # None /\ patterns[p] \in PgVkb!PatternRow
  BY DEF PgVkb!FetchPattern, PgVkb!Rows, VkbInv, PgVkb!TypeOK
<1>2. k \in Copies /\ k.pattern = p /\ k.row = patterns[p]
  BY <1>1 DEF Copies
<1> HIDE DEF k
<1>3. copy' \in [Caller -> Copies]
  BY <1>1, <1>2 DEF VkbInv, PgVkb!TypeOK, Copies
<1>4. CopyFits(k, patterns, emerging)
  BY <1>1, <1>2 DEF VkbInv, CopyFits, Began
<1>5. \A d \in Caller : CopyFits(copy'[d], patterns, emerging)
  BY <1>1, <1>3, <1>4 DEF VkbInv, PgVkb!TypeOK
<1>6. PgVkb!TypeOK'
  BY <1>1, <1>3 DEF VkbInv, PgVkb!TypeOK, Copies
<1> QED BY <1>1, <1>5, <1>6 DEF VkbInv, CopyFits, Began

LEMMA LesserIs ==
  ASSUME NEW i \in Nat, NEW j \in Nat
  PROVE  PgVkb!Min({i, j}) = IF i <= j THEN i ELSE j
<1>1. CASE i <= j
  BY <1>1 DEF PgVkb!Min
<1>2. CASE ~(i <= j)
  BY <1>2 DEF PgVkb!Min
<1> QED BY <1>1, <1>2

LEMMA RaisedFits ==
  ASSUME NEW row \in PgVkb!PatternRow
  PROVE  /\ PgVkb!Raised(row) \in PgVkb!PatternRow
         /\ row.status = "emerging" \/ Fits(row) => Fits(PgVkb!Raised(row))
         /\ row.status # "emerging" => PgVkb!Raised(row).status = row.status
<1> DEFINE more == PgVkb!Min({row.confidence + 1, 10})
           st == IF more >= 7 /\ row.status = "emerging" THEN "established" ELSE row.status
<1>1. row.confidence \in 0..10 /\ row.status \in PgVkb!PatternStatus
  BY DEF PgVkb!PatternRow
<1>2. more = IF row.confidence + 1 <= 10 THEN row.confidence + 1 ELSE 10
  BY <1>1, LesserIs
<1>3. PgVkb!Raised(row) = [confidence |-> more, status |-> st]
  BY DEF PgVkb!Raised
<1> HIDE DEF more
<1>4. more \in 0..10 /\ st \in PgVkb!PatternStatus /\ (row.confidence >= 7 => more >= 7)
  BY <1>1, <1>2 DEF PgVkb!PatternStatus
<1> QED BY <1>1, <1>3, <1>4 DEF PgVkb!PatternRow, Fits

LEMMA WritePatternKeeps ==
  ASSUME PgVkb!PgSessionsAssumption, VkbInv, NEW c \in Caller, PgVkb!WritePattern(c)
  PROVE  VkbInv'
<1> DEFINE p == copy[c].pattern
           row == copy[c].row
           r == PgVkb!Raised(row)
<1>1. /\ copy[c] # None /\ patterns' = [patterns EXCEPT ![p] = r] /\ copy' = [copy EXCEPT ![c] = None]
      /\ emerging' = (IF row.status = "emerging" THEN emerging \cup {p} ELSE emerging)
      /\ UNCHANGED <<sessions, exchanges>>
  BY DEF PgVkb!WritePattern
<1>2. p \in Pattern /\ row \in PgVkb!PatternRow
  BY <1>1 DEF VkbInv, PgVkb!TypeOK
<1>3. CopyFits(copy[c], patterns, emerging) /\ patterns[p] # None
  BY <1>1 DEF VkbInv, CopyFits
<1>4. /\ r \in PgVkb!PatternRow /\ r # None
      /\ row.status = "emerging" \/ Fits(row) => Fits(r)
      /\ row.status # "emerging" => r.status = row.status
  BY <1>2, RaisedFits DEF PgVkb!PgSessionsAssumption
<1>5. (row.status = "emerging" => Began(p, patterns, emerging)) /\ (Began(p, patterns, emerging) => row.status = "emerging" \/ (p \in emerging /\ Fits(row)))
  BY <1>1, <1>3 DEF CopyFits
<1> HIDE DEF p, row, r
<1>6. /\ patterns' \in [Pattern -> PgVkb!PatternRow \cup {None}]
      /\ patterns'[p] = r /\ \A q \in Pattern : q # p => patterns'[q] = patterns[q]
  BY <1>1, <1>2, <1>4 DEF VkbInv, PgVkb!TypeOK
<1>7. copy' \in [Caller -> Copies]
  BY <1>1 DEF VkbInv, PgVkb!TypeOK, Copies
<1>8. PgVkb!TypeOK'
  BY <1>1, <1>6, <1>7 DEF VkbInv, PgVkb!TypeOK, Copies
<1>9. emerging \subseteq emerging' /\ emerging' \subseteq emerging \cup {p}
      /\ (p \in emerging' <=> Began(p, patterns, emerging)) /\ (Began(p, patterns', emerging') <=> Began(p, patterns, emerging))
  <2>1. p \in emerging => Began(p, patterns, emerging)
    BY <1>3 DEF Began
  <2>2. p \in emerging' <=> Began(p, patterns, emerging)
    BY <1>1, <1>5, <2>1
  <2>3. Began(p, patterns, emerging) => Began(p, patterns', emerging')
    BY <1>4, <1>6, <2>2 DEF Began
  <2>4. ~Began(p, patterns, emerging) => ~Began(p, patterns', emerging')
    BY <1>4, <1>5, <1>6, <2>2 DEF Began
  <2> QED BY <1>1, <2>2, <2>3, <2>4
<1>10. \A q \in Pattern : q # p => (Began(q, patterns', emerging') <=> Began(q, patterns, emerging))
  BY <1>6, <1>9 DEF Began
<1>11. ASSUME NEW q \in emerging' PROVE patterns'[q] # None /\ Fits(patterns'[q])
  <2>1. CASE q = p
    BY <1>4, <1>5, <1>6, <1>9, <1>11, <2>1
  <2>2. CASE q # p
    BY <1>6, <1>9, <1>11, <2>2 DEF VkbInv
  <2> QED BY <2>1, <2>2
<1>12. ASSUME NEW d \in Caller PROVE CopyFits(copy'[d], patterns', emerging')
  <2>1. CASE copy'[d] = None
    BY <2>1 DEF CopyFits
  <2>2. CASE copy'[d] # None
    <3>1. copy'[d] = copy[d] /\ copy[d] # None /\ copy[d].pattern \in Pattern /\ CopyFits(copy[d], patterns, emerging)
      BY <1>1, <2>2 DEF VkbInv, PgVkb!TypeOK
    <3>2. patterns'[copy[d].pattern] # None
      BY <1>4, <1>6, <3>1 DEF CopyFits
    <3> DEFINE q == copy[d].pattern
    <3>3. (Began(q, patterns', emerging') <=> Began(q, patterns, emerging)) /\ (q \in emerging => q \in emerging')
      BY <1>9, <1>10, <3>1
    <3> QED BY <3>1, <3>2, <3>3 DEF CopyFits, Began
  <2> QED BY <2>1, <2>2
<1> QED BY <1>2, <1>8, <1>9, <1>11, <1>12 DEF VkbInv

(* PgSessionsInductive: a pattern that began as emerging, and whatever a   *)
(* reinforcement under way has made of its copy of one, has the status its *)
(* confidence calls for.                                                   *)
(* vkb/postgres.rs: reinforce_pattern                                      *)
THEOREM PgSessionsInductive ==
  ASSUME PgVkb!PgSessionsAssumption
  PROVE  PgVkb!Spec => []VkbInv
<1>1. ASSUME VkbInv, [PgVkb!Next]_PgVkb!vars
      PROVE  VkbInv'
  <2>1. CASE UNCHANGED PgVkb!vars
    BY <1>1, <2>1 DEF PgVkb!vars, VkbInv, PgVkb!TypeOK, PgVkb!Rows
  <2>2. ASSUME NEW s \in Session, NEW st \in PgVkb!Status, PgVkb!EndSession(s, st)
        PROVE  VkbInv'
    BY <1>1, <2>2, SessionsKeep DEF PgVkb!EndSession
  <2> QED BY <1>1, <2>1, <2>2, SessionsKeep, RecordKeeps, FetchKeeps, WritePatternKeeps DEF PgVkb!Next
<1> QED BY <1>1, VkbInit, PTL DEF PgVkb!Spec

(* An order of a set is a sequence of all its elements.                    *)
LEMMA OrdersAll ==
  ASSUME NEW S, IsFiniteSet(S), NEW l \in PgVkb!SetToSeqs(S)
  PROVE  l \in Seq(S) /\ Len(l) = Cardinality(S) /\ PgVkb!ToSet(l) = S
<1> DEFINE N == Cardinality(S)
           D == 1 .. N
<1>1. N \in Nat /\ PgVkb!Cardinality(S) = N
  BY FS_CardinalityType DEF PgVkb!Cardinality, Cardinality
<1>2. l \in [D -> S] /\ \A i, j \in D : i # j => l[i] # l[j]
  BY <1>1 DEF PgVkb!SetToSeqs
<1>3. IsFiniteSet(D) /\ Cardinality(D) = N
  BY <1>1, FS_Interval
<1>4. l \in Injection(D, S)
  BY <1>2 DEF Injection, IsInjective
<1>5. l \in Surjection(D, S)
  BY <1>3, <1>4, FS_Injection
<1>6. PgVkb!ToSet(l) = S
  BY <1>2, <1>5 DEF Surjection, PgVkb!ToSet
<1> HIDE DEF N
<1>7. l \in Seq(S) /\ Len(l) = N
  BY <1>1, <1>2
<1> QED BY <1>6, <1>7 DEF N

(* A list with room for all patterns has those with the status asked for.  *)
LEMMA PatternsListed ==
  ASSUME PgVkb!PgSessionsAssumption, PgVkb!TypeOK,
         NEW l \in PgVkb!ListPatterns("established", PgVkb!Cardinality(Pattern))
  PROVE  PgVkb!ToSet(l) = {p \in Pattern : patterns[p] # None /\ patterns[p].status = "established"}
<1> DEFINE W == {p \in PgVkb!Rows(patterns) : "established" \in {None, patterns[p].status}}
           limit == PgVkb!Cardinality(Pattern)
<1>1. W = {p \in Pattern : patterns[p] # None /\ patterns[p].status = "established"}
  BY DEF PgVkb!Rows, PgVkb!TypeOK, PgVkb!PgSessionsAssumption, PgVkb!PatternStatus
<1>2. IsFiniteSet(Pattern) /\ limit = Cardinality(Pattern)
  BY DEF PgVkb!PgSessionsAssumption, PgVkb!IsFiniteSet, IsFiniteSet, PgVkb!Cardinality, Cardinality
<1>3. IsFiniteSet(W) /\ Cardinality(W) <= limit /\ limit \in Nat
  BY <1>1, <1>2, FS_Subset, FS_CardinalityType
<1>4. PICK o \in PgVkb!SetToSeqs(W) : l = PgVkb!Page(o, limit, 0)
  BY DEF PgVkb!ListPatterns, PgVkb!Descending
<1> HIDE DEF W, limit
<1>5. o \in Seq(W) /\ Len(o) = Cardinality(W) /\ PgVkb!ToSet(o) = W
  BY <1>3, OrdersAll
<1>6. Len(o) \in Nat /\ 0 + limit = limit /\ 0 + 1 = 1
  BY <1>3, <1>5
<1>7. PgVkb!Min({0 + limit, Len(o)}) = Len(o)
  BY <1>3, <1>5, <1>6, LesserIs
<1>8. l = SubSeq(o, 1, Len(o))
  BY <1>4, <1>6, <1>7 DEF PgVkb!Page
<1>9. l = o
  BY <1>5, <1>8, SubSeqFull
<1> QED BY <1>1, <1>5, <1>9 DEF W

(* StatusFits: reinforcements overwrite each other, but what the list of   *)
(* the established has of the patterns that began as emerging is as        *)
(* confident as it must be, and is all there is of them.                   *)
(* vkb/postgres.rs: reinforce_pattern, list_patterns                       *)
THEOREM StatusFits ==
  ASSUME PgVkb!PgSessionsAssumption
  PROVE  PgVkb!Spec => [](PgVkb!TypeOK /\ PgVkb!StatusFitsConfidence)
<1>1. ASSUME VkbInv PROVE PgVkb!StatusFitsConfidence
  <2>1. SUFFICES ASSUME NEW l \in PgVkb!ListPatterns("established", PgVkb!Cardinality(Pattern))
                 PROVE  PgVkb!ToSet(l) \cap emerging = {p \in emerging : patterns[p].confidence >= 7}
    BY DEF PgVkb!StatusFitsConfidence
  <2>2. PgVkb!ToSet(l) = {p \in Pattern : patterns[p] # None /\ patterns[p].status = "established"}
    BY <1>1, PatternsListed DEF VkbInv
  <2> QED BY <1>1, <2>2 DEF VkbInv, Fits
<1>2. VkbInv => PgVkb!TypeOK
  BY DEF VkbInv
<1> QED BY <1>1, <1>2, PgSessionsInductive, PTL

(* TablesSound: the two stores on PostgreSQL keep what they promise.       *)
(* storage/postgres.rs, vkb/postgres.rs                                    *)
THEOREM TablesSound == Spec => []PgSound
<1>1. (PgTriples!TypeOK /\ PgTriples!LinksKept) /\ (PgVkb!TypeOK /\ PgVkb!StatusFitsConfidence) => PgSound
  BY DEF PgSound
<1> QED BY <1>1, LibraryAssumption, PartsRun, ProvenanceFits, StatusFits, PTL

-----------------------------------------------------------------------------
(* Reads: the read requests while triples come and go.                     *)

Call == {"subject", "object", "get", "fetch", "view", "dress"}
Write == [node : ReadNode \cup {None}, triple : Requests!Triple \cup {None}]

(* The nodes of a triple are stored, or are written before it.             *)
Ordered(steps, held) ==
    \A i \in 1..Len(steps) : steps[i].triple # None =>
        \A k \in 1..2 : \/ ReadEnds[steps[i].triple][k] \in held
                        \/ \E j \in 1..(i - 1) : steps[j].node = ReadEnds[steps[i].triple][k]

Pending(plan, step) == \E i \in 1..Len(plan) : plan[i] = step

ReadRecord ==
    [op : Requests!Op, s : ReadNode \cup {None}, o : ReadNode \cup {None}, t : Requests!Triple \cup {None},
     depth : Nat, plan : Seq(Call), subject : ReadNode \cup {None}, object : ReadNode \cup {None},
     found : SUBSET Requests!Triple, left : SUBSET Requests!Triple,
     ended : {"no", "ok", "not found", "refused", "failed"}]

(* What a handler has yet to call.                                         *)
PlanFits(op, plan) ==
    /\ \A i, j \in 1..Len(plan) : plan[i] = "fetch" /\ plan[j] \in {"subject", "object"} => j < i
    /\ Pending(plan, "get") => op \in {"detail", "explain", "sign", "verify"}

(* What a handler has found so far.                                        *)
FoundFits(r, steady, held) ==
    /\ r.left \subseteq r.found
    /\ \A t \in r.found : ReadEnds[t][1] \in held /\ ReadEnds[t][2] \in held
    /\ r.subject \in {None, r.s} /\ r.object \in {None, r.o}
    /\ r.op \in {"neighbors", "trust"} => Pending(r.plan, "subject") \/ r.subject = r.s
    /\ \/ Pending(r.plan, "fetch") \/ Pending(r.plan, "get") \/ r.op = "explore"
       \/ Requests!Whole(r, steady) \subseteq r.found
    /\ r.op = "query" =>
        \/ Pending(r.plan, "fetch")
        \/ /\ ~Pending(r.plan, "subject") /\ ~Pending(r.plan, "object")
           /\ \A t \in r.found : /\ r.subject # None => ReadEnds[t][1] = r.s
                                 /\ r.object # None => ReadEnds[t][2] = r.o

EndFits(r, steady) ==
    /\ r.ended # "failed"
    /\ r.ended = "ok" => r.plan = <<>>
    /\ r.ended = "not found" => Requests!Whole(r, steady) = {}

RequestFits(r, steady, held) ==
    r \in ReadRecord /\ PlanFits(r.op, r.plan) /\ FoundFits(r, steady, held) /\ EndFits(r, steady)

StoreFits ==
    /\ nodes \subseteq ReadNode /\ triples \subseteq Requests!Triple
    /\ \A t \in triples : ReadEnds[t][1] \in nodes /\ ReadEnds[t][2] \in nodes
    /\ writing \in Seq(Write) /\ Ordered(writing, nodes)

ReadInv ==
    /\ StoreFits
    /\ stable \in [Client -> SUBSET triples]
    /\ \A c \in Client : request[c] # None => RequestFits(request[c], stable[c], nodes)
    /\ DOMAIN request = Client

(* More is found in more.                                                  *)
LEMMA FoundInMore ==
  ASSUME NEW S, NEW T, S \subseteq T, NEW r
  PROVE  Requests!Whole(r, S) \subseteq Requests!Whole(r, T)
<1>1. CASE r.op = "query"
  BY <1>1 DEF Requests!Whole, Requests!Answers
<1>2. CASE r.op = "neighbors"
  <2>1. \A d : [1..d -> S] \subseteq [1..d -> T]
    OBVIOUS
  <2>2. Requests!Near(S, r.s, r.depth) \subseteq Requests!Near(T, r.s, r.depth)
    BY <2>1 DEF Requests!Near
  <2> QED BY <1>2, <2>2 DEF Requests!Whole, Requests!Answers
<1>3. CASE r.op = "trust"
  BY <1>3 DEF Requests!Whole, Requests!Answers, Requests!From
<1>4. CASE r.op = "stats"
  BY <1>4 DEF Requests!Whole, Requests!Answers
<1>5. CASE r.op \notin {"query", "neighbors", "trust", "stats"}
  BY <1>5 DEF Requests!Whole, Requests!Answers
<1> QED BY <1>1, <1>2, <1>3, <1>4, <1>5

(* A node nobody knows has no neighbours and trusts nobody.                *)
LEMMA NothingOfUnknown ==
  ASSUME NEW S, NEW held, \A t \in S : ReadEnds[t][1] \in held /\ ReadEnds[t][2] \in held,
         NEW r, r.op \in {"neighbors", "trust"}, r.s \notin held
  PROVE  Requests!Whole(r, S) = {}
<1>1. CASE r.op = "neighbors"
  <2>1. ASSUME NEW t \in Requests!Near(S, r.s, r.depth) PROVE FALSE
    <3>1. PICK d \in 1..r.depth : \E walk \in [1..d -> S] : Requests!At(r.s, walk[1])
      BY <2>1 DEF Requests!Near
    <3>2. 1 \in 1..d
      BY <3>1
    <3> QED BY <3>1, <3>2 DEF Requests!At
  <2> QED BY <1>1, <2>1 DEF Requests!Whole, Requests!Answers
<1>2. CASE r.op = "trust"
  BY <1>2 DEF Requests!Whole, Requests!Answers, Requests!From
<1> QED BY <1>1, <1>2

(* Less is stable as triples go, and more nodes are kept as they come.     *)
LEMMA StillFits ==
  ASSUME NEW r, NEW steady, NEW held, RequestFits(r, steady, held),
         NEW less \in SUBSET steady, NEW more, held \subseteq more
  PROVE  RequestFits(r, less, more)
<1>1. Requests!Whole(r, less) \subseteq Requests!Whole(r, steady)
  BY FoundInMore
<1>2. FoundFits(r, less, more)
  BY <1>1 DEF RequestFits, FoundFits
<1>3. EndFits(r, less)
  BY <1>1 DEF RequestFits, EndFits
<1> QED BY <1>2, <1>3 DEF RequestFits

LEMMA ReadInit ==
  ASSUME Requests!Init
  PROVE  ReadInv
<1>1. writing \in Seq(Write) /\ Len(writing) = 0
  BY DEF Requests!Init
<1>2. Ordered(writing, nodes)
  BY <1>1 DEF Ordered
<1> QED BY <1>1, <1>2 DEF Requests!Init, ReadInv, StoreFits

(* The steps of a writer.                                                  *)
LEMMA StepsOrdered ==
  ASSUME Requests!ReadsAssumption, NEW t \in Requests!Triple, NEW held
  PROVE  /\ Requests!Steps(t) \in Seq(Write) /\ Len(Requests!Steps(t)) = 3
         /\ Ordered(Requests!Steps(t), held)
<1> DEFINE s == Requests!Steps(t)
<1>1. ReadEnds[t][1] \in ReadNode /\ ReadEnds[t][2] \in ReadNode
  BY DEF Requests!ReadsAssumption
<1>2. /\ s[1] = [node |-> ReadEnds[t][1], triple |-> None] /\ s[2] = [node |-> ReadEnds[t][2], triple |-> None]
      /\ s[3] = [node |-> None, triple |-> t] /\ Len(s) = 3
  BY DEF Requests!Steps
<1>3. [node |-> ReadEnds[t][1], triple |-> None] \in Write /\ [node |-> ReadEnds[t][2], triple |-> None] \in Write
      /\ [node |-> None, triple |-> t] \in Write
  BY <1>1 DEF Write
<1>4. s \in Seq(Write)
  BY <1>3 DEF Requests!Steps
<1> HIDE DEF s
<1>5. \A i \in 1..3 : i = 1 \/ i = 2 \/ i = 3
  OBVIOUS
<1>6. \A k \in 1..2 : k = 1 \/ k = 2
  OBVIOUS
<1>7. 1 \in 1..(3 - 1) /\ 2 \in 1..(3 - 1)
  OBVIOUS
<1>8. Ordered(s, held)
  BY <1>2, <1>5, <1>6, <1>7 DEF Ordered
<1> QED BY <1>2, <1>4, <1>8 DEF s

LEMMA BothOrdered ==
  ASSUME NEW s \in Seq(Write), NEW u \in Seq(Write), NEW held, Ordered(s, held), Ordered(u, held)
  PROVE  s \o u \in Seq(Write) /\ Ordered(s \o u, held)
<1> DEFINE su == s \o u
<1>1. /\ su \in Seq(Write) /\ Len(su) = Len(s) + Len(u) /\ Len(s) \in Nat /\ Len(u) \in Nat
      /\ \A i \in 1..Len(su) : su[i] = IF i <= Len(s) THEN s[i] ELSE u[i - Len(s)]
  BY ConcatProperties, LenProperties
<1> HIDE DEF su
<1>2. ASSUME NEW i \in 1..Len(su), su[i].triple # None, NEW k \in 1..2
      PROVE  ReadEnds[su[i].triple][k] \in held \/ \E j \in 1..(i - 1) : su[j].node = ReadEnds[su[i].triple][k]
  <2>1. CASE i <= Len(s)
    <3>1. i \in 1..Len(s) /\ su[i] = s[i]
      BY <1>1, <2>1
    <3>2. \A j \in 1..(i - 1) : su[j] = s[j]
      BY <1>1, <2>1
    <3>3. ReadEnds[s[i].triple][k] \in held \/ \E j \in 1..(i - 1) : s[j].node = ReadEnds[s[i].triple][k]
      BY <1>2, <3>1 DEF Ordered
    <3> QED BY <3>1, <3>2, <3>3
  <2>2. CASE i > Len(s)
    <3> DEFINE h == i - Len(s)
    <3>1. h \in 1..Len(u) /\ su[i] = u[h]
      BY <1>1, <2>2
    <3>2. ASSUME NEW j \in 1..(h - 1) PROVE j + Len(s) \in 1..(i - 1) /\ su[j + Len(s)] = u[j]
      <4>1. j + Len(s) \in 1..(i - 1) /\ j + Len(s) \in 1..Len(su)
            /\ ~(j + Len(s) <= Len(s)) /\ (j + Len(s)) - Len(s) = j
        BY <1>1, <2>2
      <4> QED BY <1>1, <4>1
    <3> HIDE DEF h
    <3>3. ReadEnds[u[h].triple][k] \in held \/ \E j \in 1..(h - 1) : u[j].node = ReadEnds[u[h].triple][k]
      BY <1>2, <3>1 DEF Ordered
    <3> QED BY <3>1, <3>2, <3>3
  <2>3. i <= Len(s) \/ i > Len(s)
    BY <1>1
  <2> QED BY <2>1, <2>2, <2>3
<1>3. Ordered(su, held)
  BY <1>2 DEF Ordered
<1> QED BY <1>1, <1>3 DEF su

LEMMA WritersKeep ==
  ASSUME Requests!ReadsAssumption, ReadInv,
         \/ \E t \in Requests!Triple : Requests!InsertTriples(t)
         \/ \E old, new \in Requests!Triple : Requests!SupersedeTriple(old, new)
  PROVE  ReadInv'
<1>1. UNCHANGED <<nodes, triples, request, stable>> /\ writing' \in Seq(Write) /\ Ordered(writing', nodes)
  <2>1. ASSUME NEW t \in Requests!Triple, Requests!InsertTriples(t) PROVE <1>1
    BY <2>1, StepsOrdered DEF Requests!InsertTriples, Requests!Begins, Requests!store
  <2>2. ASSUME NEW old \in Requests!Triple, NEW new \in Requests!Triple, Requests!SupersedeTriple(old, new) PROVE <1>1
    <3>1. ReadEnds = ReadEnds /\ Edge[<<new, old>>] \in Requests!Triple
      BY <2>2 DEF Requests!SupersedeTriple, Requests!ReadsAssumption
    <3>2. UNCHANGED <<nodes, triples, request, stable>>
          /\ writing' = Requests!Steps(new) \o Requests!Steps(Edge[<<new, old>>])
      BY <2>2 DEF Requests!SupersedeTriple, Requests!Begins, Requests!store
    <3> QED BY <3>1, <3>2, StepsOrdered, BothOrdered
  <2> QED BY <2>1, <2>2
<1> QED BY <1>1 DEF ReadInv, StoreFits

LEMMA WriteNextKeeps ==
  ASSUME Requests!ReadsAssumption, ReadInv, Requests!WriteNext
  PROVE  ReadInv'
<1> DEFINE h == Head(writing)
<1>1. /\ writing # <<>> /\ nodes' = nodes \cup ({h.node} \ {None}) /\ triples' = triples \cup ({h.triple} \ {None})
      /\ writing' = Tail(writing) /\ UNCHANGED <<request, stable>>
  BY DEF Requests!WriteNext
<1>2. writing \in Seq(Write) /\ Len(writing) \in Nat /\ Len(writing) > 0 /\ h = writing[1] /\ h \in Write
  BY <1>1, EmptySeq, LenProperties DEF ReadInv, StoreFits
<1>3. /\ Tail(writing) \in Seq(Write) /\ Len(Tail(writing)) = Len(writing) - 1
      /\ \A i \in 1..Len(Tail(writing)) : Tail(writing)[i] = writing[i + 1]
  BY <1>1, <1>2, HeadTailProperties
<1> HIDE DEF h
<1>4. nodes' \subseteq ReadNode /\ triples' \subseteq Requests!Triple /\ nodes \subseteq nodes'
  BY <1>1, <1>2 DEF ReadInv, StoreFits, Write
<1>5. ASSUME NEW t \in triples' PROVE ReadEnds[t][1] \in nodes' /\ ReadEnds[t][2] \in nodes'
  <2>1. CASE t \in triples
    BY <1>4, <2>1 DEF ReadInv, StoreFits
  <2>2. CASE t \notin triples
    <3>1. t = writing[1].triple /\ t # None /\ 1 \in 1..Len(writing) /\ \A j : j \notin 1..(1 - 1)
      BY <1>1, <1>2, <1>5, <2>2
    <3>2. \A k \in 1..2 : ReadEnds[t][k] \in nodes
      BY <3>1 DEF ReadInv, StoreFits, Ordered
    <3> QED BY <1>4, <3>2
  <2> QED BY <2>1, <2>2
<1>6. Ordered(Tail(writing), nodes')
  <2>1. SUFFICES ASSUME NEW i \in 1..Len(Tail(writing)), NEW e, e = writing[i + 1].triple, e # None,
                        NEW k \in 1..2, ReadEnds[e][k] \notin nodes'
                 PROVE  \E j \in 1..(i - 1) : Tail(writing)[j].node = ReadEnds[e][k]
    BY <1>3 DEF Ordered
  <2>2. i + 1 \in 1..Len(writing)
    BY <1>2, <1>3
  <2>3. PICK j \in 1..i : writing[j].node = ReadEnds[e][k]
    <3>1. \E j \in 1..(i + 1 - 1) : writing[j].node = ReadEnds[e][k]
      BY <1>4, <2>1, <2>2 DEF ReadInv, StoreFits, Ordered
    <3> QED BY <3>1
  <2>4. j # 1
    <3>1. SUFFICES ASSUME j = 1 PROVE FALSE
      OBVIOUS
    <3>2. ReadEnds[e][k] = h.node
      BY <1>2, <2>3, <3>1
    <3>3. ReadEnds[e][k] # None
      <4>1. e \in Requests!Triple
        <5>1. writing[i + 1] \in Write
          BY <1>2, <2>2
        <5> QED BY <2>1, <5>1 DEF Write
      <4>2. ReadEnds[e] \in ReadNode \X ReadNode /\ (k = 1 \/ k = 2)
        BY <4>1, <2>1 DEF Requests!ReadsAssumption
      <4>3. ReadEnds[e][k] \in ReadNode
        BY <4>2
      <4> QED BY <4>3 DEF Requests!ReadsAssumption
    <3> QED BY <1>1, <2>1, <3>2, <3>3
  <2>5. j - 1 \in 1..(i - 1) /\ j - 1 \in 1..Len(Tail(writing)) /\ (j - 1) + 1 = j
    BY <1>2, <1>3, <2>1, <2>3, <2>4
  <2>6. Tail(writing)[j - 1] = writing[j]
    BY <1>3, <2>5
  <2> QED BY <2>3, <2>5, <2>6
<1>7. StoreFits'
  BY <1>1, <1>3, <1>4, <1>5, <1>6 DEF StoreFits
<1>8. \A c \in Client : request[c] # None => RequestFits(request[c], stable[c], nodes')
  BY <1>4, StillFits DEF ReadInv
<1>9. stable' \in [Client -> SUBSET triples']
  BY <1>1 DEF ReadInv
<1> QED BY <1>1, <1>7, <1>8, <1>9 DEF ReadInv

LEMMA RemoveKeeps ==
  ASSUME ReadInv, NEW t \in Requests!Triple, Requests!Remove(t)
  PROVE  ReadInv'
<1>1. /\ triples' = triples \ {t} /\ stable' = [c \in Client |-> stable[c] \ {t}]
      /\ UNCHANGED <<nodes, writing, request>>
  BY DEF Requests!Remove
<1>2. stable' \in [Client -> SUBSET triples'] /\ \A c \in Client : stable'[c] \subseteq stable[c]
  BY <1>1 DEF ReadInv
<1>3. \A c \in Client : request[c] # None => RequestFits(request[c], stable'[c], nodes)
  BY <1>2, StillFits DEF ReadInv
<1>4. StoreFits'
  BY <1>1 DEF ReadInv, StoreFits
<1> QED BY <1>1, <1>2, <1>3, <1>4 DEF ReadInv

(* A handler comes further.                                                *)
LEMMA OneRequest ==
  ASSUME ReadInv, NEW c \in Client, NEW k, request' = [request EXCEPT ![c] = k],
         UNCHANGED <<nodes, triples, writing, stable>>, RequestFits(k, stable[c], nodes)
  PROVE  ReadInv'
<1>1. \A d \in Client : request'[d] # None => RequestFits(request'[d], stable[d], nodes)
  BY DEF ReadInv
<1> QED BY <1>1 DEF ReadInv, StoreFits

(* What every plan has to begin with.                                      *)
PlanWhole(op, plan) ==
    /\ plan \in Seq(Call) /\ PlanFits(op, plan)
    /\ Pending(plan, "fetch") \/ Pending(plan, "get")
    /\ op = "query" => Pending(plan, "fetch")
    /\ op \in {"neighbors", "trust"} => Pending(plan, "subject")

LEMMA PlansWhole ==
  ASSUME NEW op \in Requests!Op
  PROVE  PlanWhole(op, Requests!Plan[op])
<1> USE DEF PlanWhole, PlanFits, Pending, Call
<1>1. CASE op = "query"
  <2>1. Requests!Plan[op] = <<"subject", "object", "fetch", "dress">>
    BY <1>1 DEF Requests!Plan
  <2> QED BY <1>1, <2>1
<1>2. CASE op = "neighbors"
  <2>1. Requests!Plan[op] = <<"subject", "fetch", "dress">>
    BY <1>2 DEF Requests!Plan
  <2> QED BY <1>2, <2>1
<1>3. CASE op = "detail"
  <2>1. Requests!Plan[op] = <<"get", "dress">>
    BY <1>3 DEF Requests!Plan
  <2> QED BY <1>3, <2>1
<1>4. CASE op = "sources"
  <2>1. Requests!Plan[op] = <<"fetch">>
    BY <1>4 DEF Requests!Plan
  <2> QED BY <1>4, <2>1
<1>5. CASE op = "explain"
  <2>1. Requests!Plan[op] = <<"get", "subject", "view">>
    BY <1>5 DEF Requests!Plan
  <2> QED BY <1>5, <2>1
<1>6. CASE op = "trust"
  <2>1. Requests!Plan[op] = <<"view", "subject", "fetch", "dress">>
    BY <1>6 DEF Requests!Plan
  <2> QED BY <1>6, <2>1
<1>7. CASE op = "explore"
  <2>1. Requests!Plan[op] = <<"fetch", "dress">>
    BY <1>7 DEF Requests!Plan
  <2> QED BY <1>7, <2>1
<1>8. CASE op = "stats"
  <2>1. Requests!Plan[op] = <<"view", "fetch">>
    BY <1>8 DEF Requests!Plan
  <2> QED BY <1>8, <2>1
<1>9. CASE op = "sign"
  <2>1. Requests!Plan[op] = <<"get">>
    BY <1>9 DEF Requests!Plan
  <2> QED BY <1>9, <2>1
<1>10. CASE op = "verify"
  <2>1. Requests!Plan[op] = <<"get">>
    BY <1>10 DEF Requests!Plan
  <2> QED BY <1>10, <2>1
<1> QED BY <1>1, <1>2, <1>3, <1>4, <1>5, <1>6, <1>7, <1>8, <1>9, <1>10 DEF Requests!Op, Requests!Plan

LEMMA AskingFits ==
  ASSUME ReadInv, NEW op \in Requests!Op, NEW s \in ReadNode \cup {None}, NEW o \in ReadNode \cup {None},
         NEW t \in Requests!Triple \cup {None}, NEW depth \in Nat, NEW steady, NEW held
  PROVE  RequestFits(Requests!Asking(op, s, o, t, depth), steady, held)
<1> DEFINE plan == Requests!Plan[op]
           k == Requests!Asking(op, s, o, t, depth)
<1>1. /\ k \in [op : {op}, s : {s}, o : {o}, t : {t}, depth : {depth}, plan : {plan}, subject : {None}, object : {None},
                found : {{}}, left : {{}}, ended : {"no"}]
  BY DEF Requests!Asking
<1>2. PlanWhole(op, plan)
  BY PlansWhole
<1> HIDE DEF plan, k
<1>3. k \in ReadRecord
  BY <1>1, <1>2 DEF ReadRecord, PlanWhole
<1>4. FoundFits(k, steady, held)
  BY <1>1, <1>2 DEF FoundFits, PlanWhole
<1>5. EndFits(k, steady)
  BY <1>1 DEF EndFits
<1>6. PlanFits(k.op, k.plan)
  BY <1>1, <1>2 DEF PlanWhole
<1> QED BY <1>3, <1>4, <1>5, <1>6 DEF RequestFits, k

LEMMA AsksKeep ==
  ASSUME ReadInv, NEW c \in Client, NEW op \in Requests!Op, NEW s \in ReadNode \cup {None}, NEW o \in ReadNode \cup {None},
         NEW t \in Requests!Triple \cup {None}, NEW depth \in Nat, Requests!Asks(c, op, s, o, t, depth)
  PROVE  ReadInv'
<1> DEFINE k == Requests!Asking(op, s, o, t, depth)
<1>1. /\ request' = [request EXCEPT ![c] = k] /\ stable' = [stable EXCEPT ![c] = triples]
      /\ UNCHANGED <<nodes, triples, writing>>
  BY DEF Requests!Asks, Requests!store
<1>2. RequestFits(k, triples, nodes)
  BY AskingFits
<1> HIDE DEF k
<1>3. stable' \in [Client -> SUBSET triples] /\ \A d \in Client : stable'[d] = IF d = c THEN triples ELSE stable[d]
  BY <1>1 DEF ReadInv
<1>4. \A d \in Client : request'[d] # None => RequestFits(request'[d], stable'[d], nodes)
  BY <1>1, <1>2, <1>3 DEF ReadInv
<1> QED BY <1>1, <1>3, <1>4 DEF ReadInv, StoreFits

LEMMA RequestsKeep ==
  ASSUME ReadInv, NEW c \in Client,
         \/ \E s, o \in ReadNode \cup {None} : Requests!QueryTriples(c, s, o)
         \/ \E n \in ReadNode : (\E depth \in Depth : Requests!GetNeighbors(c, n, depth)) \/ Requests!QueryTrust(c, n)
         \/ \E t \in Requests!Triple :
                \/ Requests!GetTripleDetail(c, t) \/ Requests!GetTripleSources(c, t)
                \/ Requests!SignTriple(c, t) \/ Requests!VerifyTriple(c, t)
                \/ \E n \in ReadNode \cup {None} : Requests!ExplainConfidence(c, t, n)
         \/ Requests!Explore(c) \/ Requests!GetStats(c)
  PROVE  ReadInv'
<1>1. {"query", "neighbors", "detail", "sources", "explain", "trust", "explore", "stats", "sign", "verify"} \subseteq Requests!Op
  BY DEF Requests!Op, Requests!Plan
<1>2. \A depth \in 1..MaxDepth : depth \in Nat
  OBVIOUS
<1> QED BY <1>1, <1>2, AsksKeep
        DEF Requests!QueryTriples, Requests!GetNeighbors, Requests!QueryTrust, Requests!GetTripleDetail,
            Requests!GetTripleSources, Requests!SignTriple, Requests!VerifyTriple, Requests!ExplainConfidence,
            Requests!Explore, Requests!GetStats

(* What is left of a plan when its first call is done.                     *)
LEMMA RestOfPlan ==
  ASSUME NEW op, NEW plan \in Seq(Call), plan # <<>>, PlanFits(op, plan)
  PROVE  /\ Tail(plan) \in Seq(Call) /\ PlanFits(op, Tail(plan))
         /\ \A call_ \in Call : Pending(Tail(plan), call_) => Pending(plan, call_)
         /\ \A call_ \in Call \ {Head(plan)} : Pending(plan, call_) => Pending(Tail(plan), call_)
         /\ Pending(plan, Head(plan))
         /\ Head(plan) = "fetch" => ~Pending(Tail(plan), "subject") /\ ~Pending(Tail(plan), "object")
<1> DEFINE rest == Tail(plan)
<1>1. Len(plan) \in Nat /\ Len(plan) > 0 /\ Head(plan) = plan[1]
  BY EmptySeq, LenProperties
<1>2. rest \in Seq(Call) /\ Len(rest) = Len(plan) - 1 /\ \A i \in 1..Len(rest) : rest[i] = plan[i + 1]
  BY HeadTailProperties
<1> HIDE DEF rest
<1>3. \A i \in 1..Len(rest) : i + 1 \in 1..Len(plan) /\ rest[i] = plan[i + 1]
  BY <1>1, <1>2
<1>4. \A call_ : Pending(rest, call_) => Pending(plan, call_)
  BY <1>3 DEF Pending
<1>5. PlanFits(op, rest)
  <2>1. ASSUME NEW i \in 1..Len(rest), NEW j \in 1..Len(rest), rest[i] = "fetch", rest[j] \in {"subject", "object"}
        PROVE  j < i
    <3>1. j + 1 < i + 1
      BY <1>3, <2>1 DEF PlanFits
    <3> QED BY <3>1
  <2>2. Pending(rest, "get") => op \in {"detail", "explain", "sign", "verify"}
    BY <1>4 DEF PlanFits
  <2> QED BY <2>1, <2>2 DEF PlanFits
<1>6. ASSUME NEW call_ \in Call, call_ # Head(plan), Pending(plan, call_) PROVE Pending(rest, call_)
  <2>1. PICK i \in 1..Len(plan) : plan[i] = call_
    BY <1>6 DEF Pending
  <2>2. i - 1 \in 1..Len(rest) /\ (i - 1) + 1 = i
    BY <1>1, <1>2, <1>6, <2>1
  <2>3. rest[i - 1] = call_
    BY <1>2, <2>1, <2>2
  <2> QED BY <2>2, <2>3 DEF Pending
<1>7. Pending(plan, Head(plan))
  BY <1>1 DEF Pending
<1>8. ASSUME Head(plan) = "fetch", NEW call_ \in {"subject", "object"}, Pending(rest, call_) PROVE FALSE
  <2>1. PICK i \in 1..Len(rest) : rest[i] = call_
    BY <1>8 DEF Pending
  <2>2. 1 \in 1..Len(plan) /\ i + 1 \in 1..Len(plan) /\ plan[1] = "fetch" /\ plan[i + 1] = call_
    BY <1>1, <1>3, <1>8, <2>1
  <2>3. i + 1 < 1
    BY <1>8, <2>2 DEF PlanFits
  <2> QED BY <2>1, <2>3
<1> QED BY <1>2, <1>4, <1>5, <1>6, <1>7, <1>8 DEF rest

(* A call is done that finds nothing and settles neither subject nor       *)
(* object.                                                                 *)
LEMMA PastFits ==
  ASSUME NEW r, NEW steady, NEW held, RequestFits(r, steady, held), r.ended = "no", r.plan # <<>>,
         Head(r.plan) \notin {"get", "fetch"}, NEW s \in {r.subject, r.s}, NEW o \in {r.object, r.o},
         Head(r.plan) # "subject" => s = r.subject, Head(r.plan) # "object" => o = r.object,
         Head(r.plan) = "subject" => s = r.s \/ r.op \notin {"neighbors", "trust"},
         NEW k, k \in ReadRecord, k.op = r.op, k.s = r.s, k.o = r.o, k.t = r.t, k.depth = r.depth, k.plan = Tail(r.plan),
         k.subject = s, k.object = o, k.found = r.found, k.left = r.left, k.ended = r.ended
  PROVE  RequestFits(k, steady, held)
<1>1. r.plan \in Seq(Call) /\ PlanFits(r.op, r.plan)
  BY DEF RequestFits, ReadRecord
<1>2. Head(r.plan) \in Call
  BY <1>1
<1>3. /\ PlanFits(k.op, k.plan)
      /\ \A call_ \in Call : Pending(k.plan, call_) => Pending(r.plan, call_)
      /\ \A call_ \in Call \ {Head(r.plan)} : Pending(r.plan, call_) => Pending(k.plan, call_)
      /\ Pending(r.plan, Head(r.plan))
  <2> DEFINE plan == r.plan
  <2>1. plan \in Seq(Call) /\ plan # <<>> /\ PlanFits(r.op, plan)
    BY <1>1
  <2> HIDE DEF plan
  <2>2. /\ PlanFits(r.op, Tail(plan))
        /\ \A call_ \in Call : Pending(Tail(plan), call_) => Pending(plan, call_)
        /\ \A call_ \in Call \ {Head(plan)} : Pending(plan, call_) => Pending(Tail(plan), call_)
        /\ Pending(plan, Head(plan))
    BY <2>1, RestOfPlan
  <2>3. k.op = r.op /\ k.plan = Tail(plan)
    BY DEF plan
  <2> QED BY <2>2, <2>3 DEF plan
<1>4. Requests!Whole(k, steady) = Requests!Whole(r, steady)
  BY DEF Requests!Whole
<1>5. {"get", "fetch", "subject", "object"} \subseteq Call
  BY DEF Call
<1>6. FoundFits(k, steady, held)
  <2>1. k.op \in {"neighbors", "trust"} => Pending(k.plan, "subject") \/ k.subject = k.s
    BY <1>3, <1>5 DEF RequestFits, FoundFits
  <2>2. \/ Pending(k.plan, "fetch") \/ Pending(k.plan, "get") \/ k.op = "explore"
        \/ Requests!Whole(k, steady) \subseteq k.found
    BY <1>3, <1>4, <1>5 DEF RequestFits, FoundFits
  <2>3. k.op = "query" =>
          \/ Pending(k.plan, "fetch")
          \/ /\ ~Pending(k.plan, "subject") /\ ~Pending(k.plan, "object")
             /\ \A t \in k.found : /\ k.subject # None => ReadEnds[t][1] = k.s
                                   /\ k.object # None => ReadEnds[t][2] = k.o
    BY <1>3, <1>5 DEF RequestFits, FoundFits
  <2> QED BY <2>1, <2>2, <2>3 DEF RequestFits, FoundFits
<1>7. EndFits(k, steady)
  BY <1>4 DEF RequestFits, EndFits
<1> QED BY <1>3, <1>6, <1>7 DEF RequestFits

(* A call is done that finds triples.                                      *)
LEMMA FoundKeeps ==
  ASSUME NEW r, NEW steady, NEW held, RequestFits(r, steady, held), r.ended = "no", r.plan # <<>>,
         Head(r.plan) \in {"get", "fetch"}, NEW found \in SUBSET Requests!Triple,
         \A t \in found : ReadEnds[t][1] \in held /\ ReadEnds[t][2] \in held,
         r.op # "explore" => Requests!Whole(r, steady) \subseteq found,
         r.op = "query" => \A t \in found : /\ r.subject # None => ReadEnds[t][1] = r.s
                                            /\ r.object # None => ReadEnds[t][2] = r.o,
         NEW k, k \in ReadRecord, k.op = r.op, k.s = r.s, k.o = r.o, k.t = r.t, k.depth = r.depth, k.plan = Tail(r.plan),
         k.subject = r.subject, k.object = r.object, k.found = found, k.left = found, k.ended = r.ended
  PROVE  RequestFits(k, steady, held)
<1>1. r.plan \in Seq(Call) /\ PlanFits(r.op, r.plan)
  BY DEF RequestFits, ReadRecord
<1>2. {"get", "fetch", "subject", "object"} \subseteq Call
  BY DEF Call
<1>3. /\ PlanFits(k.op, k.plan)
      /\ \A call_ \in Call \ {Head(r.plan)} : Pending(r.plan, call_) => Pending(k.plan, call_)
      /\ Pending(r.plan, Head(r.plan))
      /\ Head(r.plan) = "fetch" => ~Pending(k.plan, "subject") /\ ~Pending(k.plan, "object")
  <2> DEFINE plan == r.plan
  <2>1. plan \in Seq(Call) /\ plan # <<>> /\ PlanFits(r.op, plan)
    BY <1>1
  <2> HIDE DEF plan
  <2>2. /\ PlanFits(r.op, Tail(plan))
        /\ \A call_ \in Call \ {Head(plan)} : Pending(plan, call_) => Pending(Tail(plan), call_)
        /\ Pending(plan, Head(plan))
        /\ Head(plan) = "fetch" => ~Pending(Tail(plan), "subject") /\ ~Pending(Tail(plan), "object")
    BY <2>1, RestOfPlan
  <2>3. k.op = r.op /\ k.plan = Tail(plan)
    BY DEF plan
  <2> QED BY <2>2, <2>3 DEF plan
<1>4. Requests!Whole(k, steady) = Requests!Whole(r, steady)
  BY DEF Requests!Whole
<1>5. k.op \in {"neighbors", "trust"} => Pending(k.plan, "subject") \/ k.subject = k.s
  BY <1>2, <1>3 DEF RequestFits, FoundFits
<1>6. k.op = "query" => Head(r.plan) = "fetch"
  BY <1>3 DEF RequestFits, PlanFits
<1>7. FoundFits(k, steady, held)
  BY <1>3, <1>4, <1>5, <1>6 DEF RequestFits, FoundFits
<1>8. EndFits(k, steady)
  BY <1>4 DEF RequestFits, EndFits
<1> QED BY <1>3, <1>7, <1>8 DEF RequestFits

(* What an update of one field leaves alone.                               *)
Same(k, r) ==
    k.op = r.op /\ k.s = r.s /\ k.o = r.o /\ k.t = r.t /\ k.depth = r.depth

LEMMA PastIs ==
  ASSUME NEW r \in ReadRecord, Tail(r.plan) \in Seq(Call), NEW k, k = [r EXCEPT !.plan = Tail(r.plan)]
  PROVE  /\ k \in ReadRecord /\ Same(k, r) /\ k.plan = Tail(r.plan) /\ k.subject = r.subject /\ k.object = r.object
         /\ k.found = r.found /\ k.left = r.left /\ k.ended = r.ended
BY DEF ReadRecord, Same

LEMMA SubjectIs ==
  ASSUME NEW r \in ReadRecord, NEW k, k = [r EXCEPT !.subject = r.s]
  PROVE  /\ k \in ReadRecord /\ Same(k, r) /\ k.plan = r.plan /\ k.subject = r.s /\ k.object = r.object
         /\ k.found = r.found /\ k.left = r.left /\ k.ended = r.ended
BY DEF ReadRecord, Same

LEMMA ObjectIs ==
  ASSUME NEW r \in ReadRecord, NEW k, k = [r EXCEPT !.object = r.o]
  PROVE  /\ k \in ReadRecord /\ Same(k, r) /\ k.plan = r.plan /\ k.subject = r.subject /\ k.object = r.o
         /\ k.found = r.found /\ k.left = r.left /\ k.ended = r.ended
BY DEF ReadRecord, Same

LEMMA LeftIs ==
  ASSUME NEW r \in ReadRecord, NEW left \in SUBSET Requests!Triple, NEW k, k = [r EXCEPT !.left = left]
  PROVE  /\ k \in ReadRecord /\ Same(k, r) /\ k.plan = r.plan /\ k.subject = r.subject /\ k.object = r.object
         /\ k.found = r.found /\ k.left = left /\ k.ended = r.ended
BY DEF ReadRecord, Same

LEMMA EndedIs ==
  ASSUME NEW r \in ReadRecord, NEW how \in {"ok", "not found", "failed"}, NEW k, k = [r EXCEPT !.ended = how]
  PROVE  /\ k \in ReadRecord /\ Same(k, r) /\ k.plan = r.plan /\ k.subject = r.subject /\ k.object = r.object
         /\ k.found = r.found /\ k.left = r.left /\ k.ended = how
BY DEF ReadRecord, Same

(* A handler at one of its calls.                                          *)
AtCall(c, call_) ==
    /\ request[c] # None /\ request[c].ended = "no" /\ request[c].plan # <<>> /\ Head(request[c].plan) = call_
    /\ RequestFits(request[c], stable[c], nodes)
    /\ request[c] \in ReadRecord /\ Tail(request[c].plan) \in Seq(Call)

LEMMA NowIs ==
  ASSUME ReadInv, NEW c \in Client, NEW call_, Requests!Now(c, call_)
  PROVE  AtCall(c, call_) /\ UNCHANGED <<nodes, triples, writing, stable>>
<1>1. request[c] # None /\ request[c].ended = "no" /\ request[c].plan # <<>> /\ Head(request[c].plan) = call_
      /\ UNCHANGED <<nodes, triples, writing, stable>>
  BY DEF Requests!Now, Requests!store
<1>2. RequestFits(request[c], stable[c], nodes) /\ request[c] \in ReadRecord
  BY <1>1 DEF ReadInv, RequestFits
<1>3. request[c].plan \in Seq(Call)
  BY <1>2 DEF ReadRecord
<1>4. Tail(request[c].plan) \in Seq(Call)
  BY <1>1, <1>3, HeadTailProperties
<1> QED BY <1>1, <1>2, <1>4 DEF AtCall

(* Nothing is found, and no parameter is settled.                          *)
LEMMA PassesKeep ==
  ASSUME ReadInv, NEW c \in Client, NEW call_ \in {"subject", "object", "view", "dress"}, AtCall(c, call_),
         UNCHANGED <<nodes, triples, writing, stable>>,
         call_ = "subject" => request[c].op \notin {"neighbors", "trust"},
         Requests!Past(c, request[c])
  PROVE  ReadInv'
<1> DEFINE r == request[c]
           k == [r EXCEPT !.plan = Tail(r.plan)]
<1>1. r \in ReadRecord /\ Tail(r.plan) \in Seq(Call) /\ RequestFits(r, stable[c], nodes)
      /\ r.ended = "no" /\ r.plan # <<>> /\ Head(r.plan) = call_
  BY DEF AtCall
<1>2. request' = [request EXCEPT ![c] = k]
  BY DEF Requests!Past
<1>3. /\ k \in ReadRecord /\ Same(k, r) /\ k.plan = Tail(r.plan) /\ k.subject = r.subject /\ k.object = r.object
      /\ k.found = r.found /\ k.left = r.left /\ k.ended = r.ended
  BY <1>1, PastIs
<1> HIDE DEF k
<1>4. r.op \notin {"neighbors", "trust"} \/ Head(r.plan) # "subject"
  BY <1>1
<1> HIDE DEF r
<1>5. RequestFits(k, stable[c], nodes)
  BY <1>1, <1>3, <1>4, PastFits DEF Same
<1> QED BY <1>2, <1>5, OneRequest

LEMMA SubjectKeeps ==
  ASSUME ReadInv, NEW c \in Client, Requests!FindSubject(c)
  PROVE  ReadInv'
<1> DEFINE r == request[c]
           q == [r EXCEPT !.subject = r.s]
           k == [q EXCEPT !.plan = Tail(q.plan)]
           e == [r EXCEPT !.ended = "not found"]
<1>1. AtCall(c, "subject") /\ UNCHANGED <<nodes, triples, writing, stable>>
  BY NowIs DEF Requests!FindSubject
<1>2. r \in ReadRecord /\ Tail(r.plan) \in Seq(Call) /\ RequestFits(r, stable[c], nodes)
      /\ r.ended = "no" /\ r.plan # <<>> /\ Head(r.plan) = "subject"
  BY <1>1 DEF AtCall
<1>3. CASE r.s \in nodes
  <2>1. request' = [request EXCEPT ![c] = k]
    BY <1>3 DEF Requests!FindSubject, Requests!Past
  <2>2. /\ q \in ReadRecord /\ Same(q, r) /\ q.plan = r.plan /\ q.subject = r.s /\ q.object = r.object
        /\ q.found = r.found /\ q.left = r.left /\ q.ended = r.ended
    BY <1>2, SubjectIs
  <2> HIDE DEF q
  <2>3. /\ k \in ReadRecord /\ Same(k, q) /\ k.plan = Tail(q.plan) /\ k.subject = q.subject /\ k.object = q.object
        /\ k.found = q.found /\ k.left = q.left /\ k.ended = q.ended
    BY <1>2, <2>2, PastIs
  <2> HIDE DEF k, r
  <2>4. RequestFits(k, stable[c], nodes)
    BY <1>2, <2>2, <2>3, PastFits DEF Same
  <2> QED BY <1>1, <2>1, <2>4, OneRequest
<1>4. CASE r.s \notin nodes /\ r.op \in {"neighbors", "trust"}
  <2>1. request' = [request EXCEPT ![c] = e]
    BY <1>4 DEF Requests!FindSubject, Requests!Returns, ReadInv
  <2>2. /\ e \in ReadRecord /\ Same(e, r) /\ e.plan = r.plan /\ e.subject = r.subject /\ e.object = r.object
        /\ e.found = r.found /\ e.left = r.left /\ e.ended = "not found"
    BY <1>2, EndedIs
  <2> HIDE DEF e
  <2>3. \A t \in stable[c] : ReadEnds[t][1] \in nodes /\ ReadEnds[t][2] \in nodes
    BY DEF ReadInv, StoreFits
  <2>4. Requests!Whole(e, stable[c]) = {}
    <3>1. Requests!Whole(r, stable[c]) = {}
      BY <1>4, <2>3, NothingOfUnknown
    <3> QED BY <2>2, <3>1 DEF Requests!Whole, Same
  <2> HIDE DEF r
  <2>5. FoundFits(e, stable[c], nodes)
    BY <1>2, <2>2, <2>4 DEF RequestFits, FoundFits, Same
  <2>6. RequestFits(e, stable[c], nodes)
    BY <1>2, <2>2, <2>4, <2>5 DEF RequestFits, EndFits, Same
  <2> QED BY <1>1, <2>1, <2>6, OneRequest
<1>5. CASE r.s \notin nodes /\ r.op \notin {"neighbors", "trust"}
  <2>1. Requests!Past(c, request[c])
    BY <1>5 DEF Requests!FindSubject
  <2> QED BY <1>1, <1>5, <2>1, PassesKeep
<1> QED BY <1>3, <1>4, <1>5

LEMMA ObjectKeeps ==
  ASSUME ReadInv, NEW c \in Client, Requests!FindObject(c)
  PROVE  ReadInv'
<1> DEFINE r == request[c]
           q == [r EXCEPT !.object = r.o]
           k == [q EXCEPT !.plan = Tail(q.plan)]
<1>1. AtCall(c, "object") /\ UNCHANGED <<nodes, triples, writing, stable>>
  BY NowIs DEF Requests!FindObject
<1>2. r \in ReadRecord /\ Tail(r.plan) \in Seq(Call) /\ RequestFits(r, stable[c], nodes)
      /\ r.ended = "no" /\ r.plan # <<>> /\ Head(r.plan) = "object"
  BY <1>1 DEF AtCall
<1>3. CASE r.o \in nodes
  <2>1. request' = [request EXCEPT ![c] = k]
    BY <1>3 DEF Requests!FindObject, Requests!Past
  <2>2. /\ q \in ReadRecord /\ Same(q, r) /\ q.plan = r.plan /\ q.subject = r.subject /\ q.object = r.o
        /\ q.found = r.found /\ q.left = r.left /\ q.ended = r.ended
    BY <1>2, ObjectIs
  <2> HIDE DEF q
  <2>3. /\ k \in ReadRecord /\ Same(k, q) /\ k.plan = Tail(q.plan) /\ k.subject = q.subject /\ k.object = q.object
        /\ k.found = q.found /\ k.left = q.left /\ k.ended = q.ended
    BY <1>2, <2>2, PastIs
  <2> HIDE DEF k, r
  <2>4. RequestFits(k, stable[c], nodes)
    BY <1>2, <2>2, <2>3, PastFits DEF Same
  <2> QED BY <1>1, <2>1, <2>4, OneRequest
<1>4. CASE r.o \notin nodes
  <2>1. Requests!Past(c, request[c])
    BY <1>4 DEF Requests!FindObject
  <2> QED BY <1>1, <2>1, PassesKeep
<1> QED BY <1>3, <1>4

(* Triples are found: all that have been stored and answer the request.    *)
LEMMA FindsKeep ==
  ASSUME ReadInv, NEW c \in Client, NEW call_ \in {"get", "fetch"}, AtCall(c, call_),
         UNCHANGED <<nodes, triples, writing, stable>>, NEW found \in SUBSET triples,
         request[c].op # "explore" => Requests!Whole(request[c], stable[c]) \subseteq found,
         request[c].op = "query" => \A t \in found : /\ request[c].subject # None => ReadEnds[t][1] = request[c].s
                                                     /\ request[c].object # None => ReadEnds[t][2] = request[c].o,
         Requests!Found(c, found)
  PROVE  ReadInv'
<1> DEFINE r == request[c]
           q == [r EXCEPT !.found = found, !.left = found]
           k == [q EXCEPT !.plan = Tail(q.plan)]
<1>1. r \in ReadRecord /\ Tail(r.plan) \in Seq(Call) /\ RequestFits(r, stable[c], nodes)
      /\ r.ended = "no" /\ r.plan # <<>> /\ Head(r.plan) \in {"get", "fetch"}
  BY DEF AtCall
<1>2. request' = [request EXCEPT ![c] = k]
  BY DEF Requests!Found, Requests!Past
<1>3. found \in SUBSET Requests!Triple /\ \A t \in found : ReadEnds[t][1] \in nodes /\ ReadEnds[t][2] \in nodes
  BY DEF ReadInv, StoreFits
<1>4. /\ q \in ReadRecord /\ Same(q, r) /\ q.plan = r.plan /\ q.subject = r.subject /\ q.object = r.object
      /\ q.found = found /\ q.left = found /\ q.ended = r.ended
  <2>1. q = [r EXCEPT !.found = found, !.left = found]
    OBVIOUS
  <2> HIDE DEF q, r
  <2> QED BY <1>1, <1>3, <2>1 DEF ReadRecord, Same
<1> HIDE DEF q
<1>5. /\ k \in ReadRecord /\ Same(k, q) /\ k.plan = Tail(q.plan) /\ k.subject = q.subject /\ k.object = q.object
      /\ k.found = q.found /\ k.left = q.left /\ k.ended = q.ended
  BY <1>1, <1>4, PastIs
<1>6. /\ r.op # "explore" => Requests!Whole(r, stable[c]) \subseteq found
      /\ r.op = "query" => \A t \in found : /\ r.subject # None => ReadEnds[t][1] = r.s
                                            /\ r.object # None => ReadEnds[t][2] = r.o
  OBVIOUS
<1> HIDE DEF k, r
<1>7. RequestFits(k, stable[c], nodes)
  BY <1>1, <1>3, <1>4, <1>5, <1>6, FoundKeeps DEF Same
<1> QED BY <1>2, <1>7, OneRequest

LEMMA GetKeeps ==
  ASSUME ReadInv, NEW c \in Client, Requests!Get(c)
  PROVE  ReadInv'
<1> DEFINE r == request[c]
           e == [r EXCEPT !.ended = "not found"]
<1>1. AtCall(c, "get") /\ UNCHANGED <<nodes, triples, writing, stable>>
  BY NowIs DEF Requests!Get
<1>2. r \in ReadRecord /\ RequestFits(r, stable[c], nodes)
      /\ r.ended = "no" /\ r.plan # <<>> /\ Head(r.plan) = "get" /\ r.plan \in Seq(Call)
  BY <1>1 DEF AtCall, ReadRecord
<1>3. r.op \in {"detail", "explain", "sign", "verify"}
  <2> DEFINE plan == r.plan
  <2>1. plan \in Seq(Call) /\ plan # <<>> /\ PlanFits(r.op, plan) /\ Head(plan) = "get"
    BY <1>2 DEF RequestFits
  <2> HIDE DEF plan
  <2>2. Pending(plan, Head(plan))
    BY <2>1, RestOfPlan
  <2> QED BY <2>1, <2>2 DEF PlanFits
<1>4. \A S : Requests!Whole(r, S) = {r.t} \cap S
  BY <1>3 DEF Requests!Whole, Requests!Answers
<1>5. CASE r.t \in triples
  <2>1. Requests!Found(c, {r.t})
    BY <1>5 DEF Requests!Get
  <2>2. Requests!Whole(r, stable[c]) \subseteq {r.t}
    BY <1>4
  <2> QED BY <1>1, <1>3, <1>5, <2>1, <2>2, FindsKeep
<1>6. CASE r.t \notin triples
  <2>1. request' = [request EXCEPT ![c] = e]
    BY <1>6 DEF Requests!Get, Requests!Returns, ReadInv
  <2>2. /\ e \in ReadRecord /\ Same(e, r) /\ e.plan = r.plan /\ e.subject = r.subject /\ e.object = r.object
        /\ e.found = r.found /\ e.left = r.left /\ e.ended = "not found"
    BY <1>2, EndedIs
  <2> HIDE DEF e
  <2>3. Requests!Whole(r, stable[c]) = {}
    BY <1>4, <1>6 DEF ReadInv
  <2>4. Requests!Whole(e, stable[c]) = {}
    BY <2>2, <2>3 DEF Requests!Whole, Same
  <2> HIDE DEF r
  <2>5. FoundFits(e, stable[c], nodes)
    BY <1>2, <2>2, <2>4 DEF RequestFits, FoundFits, Same
  <2>6. RequestFits(e, stable[c], nodes)
    BY <1>2, <2>2, <2>4, <2>5 DEF RequestFits, EndFits, Same
  <2> QED BY <1>1, <2>1, <2>6, OneRequest
<1> QED BY <1>5, <1>6

LEMMA FetchesKeep ==
  ASSUME ReadInv, NEW c \in Client, Requests!Fetch(c) \/ \E visited : Requests!FetchExplored(c, visited)
  PROVE  ReadInv'
<1> DEFINE r == request[c]
<1>1. AtCall(c, "fetch") /\ UNCHANGED <<nodes, triples, writing, stable>>
  BY NowIs DEF Requests!Fetch, Requests!FetchExplored
<1>2. r \in ReadRecord /\ RequestFits(r, stable[c], nodes)
      /\ r.ended = "no" /\ r.plan # <<>> /\ Head(r.plan) = "fetch" /\ r.plan \in Seq(Call)
  BY <1>1 DEF AtCall, ReadRecord
<1>3. CASE r.op = "explore"
  <2>1. PICK found \in SUBSET triples : Requests!Found(c, found)
    BY <1>3 DEF Requests!Fetch, Requests!FetchExplored
  <2> QED BY <1>1, <1>3, <2>1, FindsKeep
<1>4. CASE r.op # "explore"
  <2> DEFINE found == Requests!Answers(r.op, triples, r.subject, r.object, r.t, r.depth)
  <2>1. Requests!Found(c, found)
    BY <1>4 DEF Requests!Fetch, Requests!FetchExplored
  <2>2. r.op \in {"neighbors", "trust"} => r.subject = r.s
    <3> DEFINE plan == r.plan
    <3>1. plan \in Seq(Call) /\ plan # <<>> /\ PlanFits(r.op, plan) /\ Head(plan) = "fetch"
      BY <1>2 DEF RequestFits
    <3> HIDE DEF plan
    <3>2. ~Pending(Tail(plan), "subject") /\ (Pending(plan, "subject") => Pending(Tail(plan), "subject"))
      <4>1. "subject" \in Call \ {Head(plan)}
        BY <3>1 DEF Call
      <4> QED BY <3>1, <4>1, RestOfPlan
    <3>3. r.op \in {"neighbors", "trust"} => Pending(plan, "subject") \/ r.subject = r.s
      BY <1>2 DEF RequestFits, FoundFits, plan
    <3> QED BY <3>2, <3>3
  <2>3. r.subject \in {None, r.s} /\ r.object \in {None, r.o}
    BY <1>2 DEF RequestFits, FoundFits
  <2>4. Requests!Whole(r, triples) \subseteq found
    <3>1. CASE r.op = "query"
      BY <2>3, <3>1 DEF Requests!Whole, Requests!Answers
    <3>2. CASE r.op \in {"neighbors", "trust"}
      BY <2>2, <3>2 DEF Requests!Whole, Requests!Answers
    <3>3. CASE r.op \notin {"query", "neighbors", "trust"}
      BY <3>3 DEF Requests!Whole, Requests!Answers
    <3> QED BY <3>1, <3>2, <3>3
  <2>5. Requests!Whole(r, stable[c]) \subseteq found
    <3>1. stable[c] \subseteq triples
      BY DEF ReadInv
    <3> QED BY <2>4, <3>1, FoundInMore
  <2>6. found \subseteq triples
    BY DEF Requests!Answers, Requests!Near, Requests!From
  <2>7. r.op = "query" => \A t \in found : /\ r.subject # None => ReadEnds[t][1] = r.s
                                           /\ r.object # None => ReadEnds[t][2] = r.o
    BY <2>3 DEF Requests!Answers
  <2> HIDE DEF found
  <2> QED BY <1>1, <2>1, <2>5, <2>6, <2>7, FindsKeep
<1> QED BY <1>3, <1>4

LEMMA DressKeeps ==
  ASSUME ReadInv, NEW c \in Client, NEW t \in Requests!Triple, Requests!Dress(c, t)
  PROVE  ReadInv'
<1> DEFINE r == request[c]
           k == [r EXCEPT !.left = r.left \ {t}]
<1>1. AtCall(c, "dress") /\ UNCHANGED <<nodes, triples, writing, stable>>
  BY NowIs DEF Requests!Dress
<1>2. r \in ReadRecord /\ RequestFits(r, stable[c], nodes) /\ r.left \subseteq Requests!Triple
  BY <1>1 DEF AtCall, ReadRecord
<1>3. t \in r.left /\ {ReadEnds[t][1], ReadEnds[t][2]} \subseteq nodes
  BY <1>2 DEF Requests!Dress, RequestFits, FoundFits
<1>4. request' = [request EXCEPT ![c] = k]
  BY <1>3 DEF Requests!Dress, ReadInv
<1>5. /\ k \in ReadRecord /\ Same(k, r) /\ k.plan = r.plan /\ k.subject = r.subject /\ k.object = r.object
      /\ k.found = r.found /\ k.left = r.left \ {t} /\ k.ended = r.ended
  BY <1>2, LeftIs
<1> HIDE DEF k, r
<1>6. Requests!Whole(k, stable[c]) = Requests!Whole(r, stable[c])
  BY <1>5 DEF Requests!Whole, Same
<1>7. FoundFits(k, stable[c], nodes)
  BY <1>2, <1>5, <1>6 DEF RequestFits, FoundFits, Same
<1>8. RequestFits(k, stable[c], nodes)
  BY <1>2, <1>5, <1>6, <1>7 DEF RequestFits, EndFits, Same
<1> QED BY <1>1, <1>4, <1>8, OneRequest

LEMMA ReplyKeeps ==
  ASSUME ReadInv, NEW c \in Client, Requests!Reply(c)
  PROVE  ReadInv'
<1> DEFINE r == request[c]
           k == [r EXCEPT !.ended = "ok"]
<1>1. request[c] # None /\ r.plan = <<>> /\ UNCHANGED <<nodes, triples, writing, stable>>
      /\ request' = [request EXCEPT ![c] = k]
  BY DEF Requests!Reply, Requests!Returns, Requests!store, ReadInv
<1>2. r \in ReadRecord /\ RequestFits(r, stable[c], nodes)
  BY <1>1 DEF ReadInv, RequestFits
<1>3. /\ k \in ReadRecord /\ Same(k, r) /\ k.plan = r.plan /\ k.subject = r.subject /\ k.object = r.object
      /\ k.found = r.found /\ k.left = r.left /\ k.ended = "ok"
  BY <1>2, EndedIs
<1> HIDE DEF k, r
<1>4. Requests!Whole(k, stable[c]) = Requests!Whole(r, stable[c])
  BY <1>3 DEF Requests!Whole, Same
<1>5. FoundFits(k, stable[c], nodes)
  BY <1>2, <1>3, <1>4 DEF RequestFits, FoundFits, Same
<1>6. RequestFits(k, stable[c], nodes)
  BY <1>1, <1>2, <1>3, <1>4, <1>5 DEF RequestFits, EndFits, Same
<1> QED BY <1>1, <1>6, OneRequest

(* ReadsInductive: what a handler has found so far includes whatever was   *)
(* there all the time and its calls have passed, and the ends of all it    *)
(* found are nodes.                                                        *)
(* api/mod.rs, mcp/tools.rs: the read handlers                             *)
THEOREM ReadsInductive ==
  ASSUME Requests!ReadsAssumption
  PROVE  Requests!Spec => []ReadInv
<1>1. ASSUME ReadInv, [Requests!Next]_Requests!vars
      PROVE  ReadInv'
  <2>1. CASE UNCHANGED Requests!vars
    BY <1>1, <2>1 DEF Requests!vars, Requests!store, ReadInv, StoreFits
  <2>2. ASSUME NEW c \in Client, Requests!FindSubject(c) \/ Requests!FindObject(c) \/ Requests!Get(c)
                  \/ Requests!Fetch(c) \/ (\E visited \in SUBSET nodes : Requests!FetchExplored(c, visited))
                  \/ Requests!Reply(c) \/ (\E t \in Requests!Triple : Requests!Dress(c, t))
        PROVE  ReadInv'
    BY <1>1, <2>2, SubjectKeeps, ObjectKeeps, GetKeeps, FetchesKeep, ReplyKeeps, DressKeeps
  <2>3. ASSUME NEW c \in Client, Requests!View(c) PROVE ReadInv'
    BY <1>1, <2>3, NowIs, PassesKeep DEF Requests!View
  <2>4. ASSUME NEW c \in Client, Requests!Dressed(c) PROVE ReadInv'
    BY <1>1, <2>4, NowIs, PassesKeep DEF Requests!Dressed
  <2>5. ASSUME NEW c \in Client,
               \/ \E s, o \in ReadNode \cup {None} : Requests!QueryTriples(c, s, o)
               \/ \E n \in ReadNode : (\E depth \in Depth : Requests!GetNeighbors(c, n, depth)) \/ Requests!QueryTrust(c, n)
               \/ \E t \in Requests!Triple :
                      \/ Requests!GetTripleDetail(c, t) \/ Requests!GetTripleSources(c, t)
                      \/ Requests!SignTriple(c, t) \/ Requests!VerifyTriple(c, t)
                      \/ \E n \in ReadNode \cup {None} : Requests!ExplainConfidence(c, t, n)
               \/ Requests!Explore(c) \/ Requests!GetStats(c)
        PROVE  ReadInv'
    BY <1>1, <2>5, RequestsKeep
  <2>6. CASE \/ \E t \in Requests!Triple : Requests!InsertTriples(t) \/ Requests!Remove(t)
             \/ \E old, new \in Requests!Triple : Requests!SupersedeTriple(old, new)
             \/ Requests!WriteNext
    BY <1>1, <2>6, WritersKeep, RemoveKeeps, WriteNextKeeps
  <2>7. ASSUME Requests!Next
        PROVE  \/ \E t \in Requests!Triple : Requests!InsertTriples(t) \/ Requests!Remove(t)
               \/ \E old, new \in Requests!Triple : Requests!SupersedeTriple(old, new)
               \/ Requests!WriteNext
               \/ \E c \in Client :
                    \/ Requests!FindSubject(c) \/ Requests!FindObject(c) \/ Requests!Get(c)
                       \/ Requests!Fetch(c) \/ (\E visited \in SUBSET nodes : Requests!FetchExplored(c, visited))
                       \/ Requests!Reply(c) \/ (\E t \in Requests!Triple : Requests!Dress(c, t))
                    \/ Requests!View(c) \/ Requests!Dressed(c)
                    \/ \/ \E s, o \in ReadNode \cup {None} : Requests!QueryTriples(c, s, o)
                       \/ \E n \in ReadNode : (\E depth \in Depth : Requests!GetNeighbors(c, n, depth))
                                              \/ Requests!QueryTrust(c, n)
                       \/ \E t \in Requests!Triple :
                              \/ Requests!GetTripleDetail(c, t) \/ Requests!GetTripleSources(c, t)
                              \/ Requests!SignTriple(c, t) \/ Requests!VerifyTriple(c, t)
                              \/ \E n \in ReadNode \cup {None} : Requests!ExplainConfidence(c, t, n)
                       \/ Requests!Explore(c) \/ Requests!GetStats(c)
    BY <2>7 DEF Requests!Next
  <2> QED BY <1>1, <2>1, <2>2, <2>3, <2>4, <2>5, <2>6, <2>7
<1> QED BY <1>1, ReadInit, PTL DEF Requests!Spec

(* ReadsTell: while triples are written node by node, superseded and       *)
(* removed, no read fails, and a triple that was stored all the time and   *)
(* answers the request is in the reply.                                    *)
(* api/mod.rs, mcp/tools.rs: the read handlers                             *)
THEOREM ReadsTell ==
  ASSUME Requests!ReadsAssumption
  PROVE  Requests!Spec => [](Requests!TypeOK /\ Requests!ReadsAnswered)
<1>1. ASSUME ReadInv PROVE Requests!TypeOK
  BY <1>1 DEF ReadInv, StoreFits, RequestFits, FoundFits, ReadRecord, Requests!TypeOK
<1>2. ASSUME ReadInv PROVE Requests!ReadsAnswered
  <2>1. SUFFICES ASSUME NEW c \in Client, request[c] # None, NEW r, r = request[c], NEW steady, steady = stable[c]
                 PROVE  /\ r.ended # "failed"
                        /\ r.ended = "not found" => Requests!Whole(r, steady) = {}
                        /\ r.ended = "ok" /\ r.op # "explore" =>
                               /\ Requests!Whole(r, steady) \subseteq r.found
                               /\ r.op = "query" => \A t \in r.found : /\ r.subject # None => ReadEnds[t][1] = r.s
                                                                       /\ r.object # None => ReadEnds[t][2] = r.o
    BY DEF Requests!ReadsAnswered
  <2>2. RequestFits(r, steady, nodes)
    BY <1>2, <2>1 DEF ReadInv
  <2>3. r.ended = "ok" => \A call_ : ~Pending(r.plan, call_)
    <3>1. r.ended = "ok" => Len(r.plan) = 0
      BY <2>2 DEF RequestFits, EndFits
    <3> QED BY <3>1 DEF Pending
  <2> QED BY <2>2, <2>3 DEF RequestFits, FoundFits, EndFits
<1> QED BY <1>1, <1>2, ReadsInductive, PTL

-----------------------------------------------------------------------------
(* SocialTools: trust edges, shares, verifications, revocations and        *)
(* resolutions as triples.                                                 *)

Edges == {<<a, "trusts", b>> : a \in Did, b \in Did}
SharesMade == {<<t, "shareable_with", a>> : t \in Fact, a \in Did}
Submitted(told) == UNION {{Social!VerifyTriple(v), Social!ResultTriple(v), Social!ReasonTriple(v)} : v \in told}

Marks(R, Q) ==
    {Social!RetractedBy(r) : r \in R} \cup {Social!RetractedAt(r) : r \in R}
    \cup {Social!ResolvedWith(q) : q \in Q} \cup {Social!ActionTriple(q) : q \in Q}
    \cup {Social!WhyTriple(q) : q \in Q}
Marked == Marks(revoked, resolved)

(* Whatever is stored, when the verifications told were submitted and what *)
(* is marked was revoked or resolved.                                      *)
Storable(told, marked) == Fact \cup Edges \cup SharesMade \cup Submitted(told) \cup marked
Anything == Storable(Social!Verification, Marks(Social!Revocation, Social!Resolution))
Step == [nodes : SUBSET UNION {{t[1], t[3]} : t \in Anything}, triples : SUBSET Anything,
         weight : {"new", "none", "copy"}]

Verifies == {Social!VerifyTriple(v) : v \in Social!Verification}
Listing_ == [by : Did, verdict : Verdict \cup {None}, reason : Reason \cup {None}]

Errand ==
    [plan : Seq(Step), submits : Social!Verification \cup {None},
     resolves : Social!Resolution \cup {None}, light : SUBSET Anything, of : Fact \cup {None},
     left : SUBSET Verifies, entry : Social!VerificationEntry \cup {None},
     entries : SUBSET Listing_, due : SUBSET Social!Verification, ended : {"no", "ok"}]

(* The ends of a triple are nodes, or are stored before it.                *)
EndsFirst(plan, held) ==
    \A i \in 1..Len(plan) : \A t \in plan[i].triples : \A k \in {1, 3} :
        \/ t[k] \in held
        \/ \E j \in 1..(i - 1) : t[k] \in plan[j].nodes

PlanTold(plan, held, told, marked) ==
    /\ EndsFirst(plan, held)
    /\ \A i \in 1..Len(plan) : plan[i].triples \subseteq Storable(told, marked)

(* The first triple of a resolution was stored, and what will be stored of *)
(* the resolution is marked.                                               *)
ResolutionTold(q, held, told, marked) ==
    /\ q.pair[1] \in Storable(told, marked) /\ q.pair[1][1] \in held /\ q.pair[1][3] \in held
    /\ {Social!ResolvedWith(q), Social!ActionTriple(q), Social!WhyTriple(q)} \subseteq marked

(* What a list has read was submitted.                                     *)
EntriesTold(k, told) ==
    /\ k.entry # None =>
           \E v \in told : /\ k.entry.of = Social!VerifyTriple(v) /\ v.of = k.of
                           /\ k.entry.verdict \in {None, v.verdict}
    /\ \A e \in k.entries :
           /\ \E v \in told : v.by = e.by /\ v.of = k.of /\ e.verdict \in {None, v.verdict}
           /\ \E v \in told : v.by = e.by /\ v.of = k.of /\ e.reason \in {None, v.reason}

(* What has to be in a list is there, being read, or left to be read.      *)
Awaited(k, v) ==
    \/ Social!VerifyTriple(v) \in k.left
    \/ k.entry # None /\ k.entry.of = Social!VerifyTriple(v) /\ k.entry.verdict # None
    \/ \E e \in k.entries : e.by = v.by /\ e.verdict # None

ErrandFits(k, held, told, marked) ==
    /\ k \in Errand
    /\ PlanTold(k.plan, held, told, marked)
    /\ k.resolves # None => ResolutionTold(k.resolves, held, told, marked)
    /\ k.submits \in told \cup {None}
    /\ \A u \in k.left : u[1] \in held /\ \E v \in told : u = Social!VerifyTriple(v) /\ v.of = k.of
    /\ EntriesTold(k, told)
    /\ \A v \in k.due : v.of = k.of /\ Awaited(k, v)
    /\ k.ended = "ok" => k.left = {} /\ k.entry = None

DueStored(k, stored_) == \A v \in k.due : Social!Needed(v) \subseteq stored_

SocialInv ==
    /\ said \subseteq Social!Verification /\ sure \subseteq said
    /\ revoked \subseteq Social!Revocation /\ resolved \subseteq Social!Resolution
    /\ facts \subseteq Storable(said, Marked)
    /\ \A t \in facts : t[1] \in names /\ t[3] \in names
    /\ DOMAIN task = Caller
    /\ \A c \in Caller : task[c] # None => ErrandFits(task[c], names, said, Marked) /\ DueStored(task[c], facts)

(* More may be told and marked, and more be stored.                        *)
LEMMA StorableGrows ==
  ASSUME NEW S, NEW T, S \subseteq T, NEW A, NEW B, A \subseteq B
  PROVE  Storable(S, A) \subseteq Storable(T, B)
BY DEF Storable, Submitted

LEMMA MarksGrow ==
  ASSUME NEW R, NEW R2, R \subseteq R2, NEW Q, NEW Q2, Q \subseteq Q2
  PROVE  Marks(R, Q) \subseteq Marks(R2, Q2)
BY DEF Marks

LEMMA AllStorable ==
  ASSUME SocialInv
  PROVE  Storable(said, Marked) \subseteq Anything
BY MarksGrow, StorableGrows DEF SocialInv, Marked, Anything

LEMMA ErrandLasts ==
  ASSUME NEW k, NEW N, NEW M, NEW S, NEW T, NEW A, NEW B,
         N \subseteq M, S \subseteq T, A \subseteq B, ErrandFits(k, N, S, A)
  PROVE  ErrandFits(k, M, T, B)
<1>0. Storable(S, A) \subseteq Storable(T, B)
  BY StorableGrows
<1>1. PlanTold(k.plan, M, T, B)
  BY <1>0 DEF ErrandFits, PlanTold, EndsFirst
<1>2. EntriesTold(k, T)
  BY DEF ErrandFits, EntriesTold
<1>3. \A u \in k.left : u[1] \in M /\ \E v \in T : u = Social!VerifyTriple(v) /\ v.of = k.of
  BY DEF ErrandFits
<1>4. k.resolves # None => ResolutionTold(k.resolves, M, T, B)
  BY <1>0 DEF ErrandFits, ResolutionTold
<1> QED BY <1>1, <1>2, <1>3, <1>4 DEF ErrandFits

(* The tools' own triples are told apart by their predicates.              *)
LEMMA KindOf ==
  ASSUME Social!SocialToolsAssumption, NEW S, S \subseteq Social!Verification,
         NEW R, R \subseteq Social!Revocation, NEW Q, Q \subseteq Social!Resolution,
         NEW t \in Storable(S, Marks(R, Q))
  PROVE  /\ t[2] = "verifies" => \E v \in S : t = Social!VerifyTriple(v)
         /\ t[2] = "verification_result" => \E v \in S : t = Social!ResultTriple(v)
         /\ t[2] = "verification_reasoning" => \E v \in S : t = Social!ReasonTriple(v)
         /\ t[2] = "shareable_with" => t \in SharesMade
         /\ t[2] = "retracted_by" => t[3] = Social!Word("local")
         /\ t[2] = "retracted_at" => \E r \in R : t = Social!RetractedAt(r)
         /\ t[2] = "tension_resolved_with" => \E q \in Q : t = Social!ResolvedWith(q)
         /\ t[2] = "tension_resolution_action" => \E q \in Q : t = Social!ActionTriple(q)
         /\ t[2] = "tension_resolution_reasoning" => \E q \in Q : t = Social!WhyTriple(q)
         /\ t[2] \notin Social!ToolPredicates => t \in Fact
<1>1. t \in Fact => t[2] \notin Social!ToolPredicates
  BY DEF Social!SocialToolsAssumption
<1>2. CASE t \in Fact
  BY <1>1, <1>2 DEF Social!ToolPredicates
<1>3. CASE t \in Edges \cup SharesMade
  BY <1>3 DEF Edges, SharesMade, Social!ToolPredicates
<1>4. CASE t \in Submitted(S)
  BY <1>4 DEF Submitted, Social!VerifyTriple, Social!ResultTriple, Social!ReasonTriple, Social!ToolPredicates
<1>5. CASE t \in Marks(R, Q)
  <2>1. CASE \E r \in R : t = Social!RetractedBy(r)
    <3>1. t[2] = "retracted_by" /\ t[3] = Social!Word("local")
      BY <2>1 DEF Social!RetractedBy
    <3> QED BY <2>1, <3>1 DEF Social!ToolPredicates
  <2>2. CASE \E r \in R : t = Social!RetractedAt(r)
    <3>1. t[2] = "retracted_at"
      BY <2>2 DEF Social!RetractedAt
    <3> QED BY <2>2, <3>1 DEF Social!ToolPredicates
  <2>3. CASE \E q \in Q : t = Social!ResolvedWith(q)
    <3>1. t[2] = "tension_resolved_with"
      BY <2>3 DEF Social!ResolvedWith
    <3> QED BY <2>3, <3>1 DEF Social!ToolPredicates
  <2>4. CASE \E q \in Q : t = Social!ActionTriple(q)
    <3>1. t[2] = "tension_resolution_action"
      BY <2>4 DEF Social!ActionTriple
    <3> QED BY <2>4, <3>1 DEF Social!ToolPredicates
  <2>5. CASE \E q \in Q : t = Social!WhyTriple(q)
    <3>1. t[2] = "tension_resolution_reasoning"
      BY <2>5 DEF Social!WhyTriple
    <3> QED BY <2>5, <3>1 DEF Social!ToolPredicates
  <2>6. \/ \E r \in R : t = Social!RetractedBy(r) \/ t = Social!RetractedAt(r)
        \/ \E q \in Q : t = Social!ResolvedWith(q) \/ t = Social!ActionTriple(q) \/ t = Social!WhyTriple(q)
    BY <1>5 DEF Marks
  <2> QED BY <2>1, <2>2, <2>3, <2>4, <2>5, <2>6
<1> QED BY <1>2, <1>3, <1>4, <1>5 DEF Storable

LEMMA SocialInit ==
  ASSUME Social!Init
  PROVE  SocialInv
BY DEF Social!Init, SocialInv, Storable

(* Plans: two nodes, and then the triple between them; or a triple that    *)
(* was stored is written back.                                             *)
LEMMA StoringInOrder ==
  ASSUME NEW N, NEW S, S \subseteq Social!Verification, NEW A, Storable(S, A) \subseteq Anything,
         NEW t \in Storable(S, A)
  PROVE  Social!Storing(t) \in Seq(Step) /\ PlanTold(Social!Storing(t), N, S, A)
<1> DEFINE one == [nodes |-> {t[1], t[3]}, triples |-> {}, weight |-> "new"]
           two == [nodes |-> {}, triples |-> {t}, weight |-> "new"]
<1>1. one \in Step /\ two \in Step
  BY DEF Step
<1>2. /\ one.nodes = {t[1], t[3]} /\ one.triples = {} /\ two.triples = {t}
      /\ Social!Storing(t) = <<one>> \o <<two>>
  BY DEF Social!Storing, Social!Call
<1> HIDE DEF Step, one, two
<1>3. Social!Storing(t) \in Seq(Step) /\ Len(Social!Storing(t)) = 2
      /\ Social!Storing(t)[1] = one /\ Social!Storing(t)[2] = two
  BY <1>1, <1>2
<1> DEFINE p == Social!Storing(t)
<1>4. /\ Len(p) = 2 /\ p[1].nodes = {t[1], t[3]} /\ p[1].triples = {} /\ p[2].triples = {t}
  BY <1>2, <1>3
<1> HIDE DEF p
<1>5. \A i \in 1..Len(p) : i = 1 \/ i = 2
  BY <1>4
<1>6. EndsFirst(p, N)
  <2>1. ASSUME NEW i \in 1..Len(p), NEW u \in p[i].triples, NEW k \in {1, 3}
        PROVE  \E j \in 1..(i - 1) : u[k] \in p[j].nodes
    <3>1. i = 2 /\ u = t /\ 1 \in 1..(i - 1)
      BY <1>4, <1>5, <2>1
    <3> QED BY <1>4, <3>1
  <2> QED BY <2>1 DEF EndsFirst
<1>7. \A i \in 1..Len(p) : p[i].triples \subseteq Storable(S, A)
  BY <1>4, <1>5
<1> QED BY <1>3, <1>6, <1>7 DEF PlanTold, p

LEMMA WritingBack ==
  ASSUME NEW N, NEW S, NEW A, Storable(S, A) \subseteq Anything,
         NEW t \in Storable(S, A), t[1] \in N, t[3] \in N, NEW weight \in {"none", "copy"}
  PROVE  Social!Call({}, {t}, weight) \in Seq(Step) /\ PlanTold(Social!Call({}, {t}, weight), N, S, A)
<1> DEFINE one == [nodes |-> {}, triples |-> {t}, weight |-> weight]
<1>1. one \in Step
  BY DEF Step
<1>2. one.triples = {t} /\ Social!Call({}, {t}, weight) = <<one>>
  BY DEF Social!Call
<1> HIDE DEF Step, one
<1>3. <<one>> \in Seq(Step) /\ Len(<<one>>) = 1 /\ <<one>>[1] = one
  BY <1>1
<1> DEFINE p == <<one>>
<1>4. p \in Seq(Step) /\ Len(p) = 1 /\ p[1].triples = {t}
  BY <1>2, <1>3
<1> HIDE DEF p
<1>5. \A i \in 1..Len(p) : i = 1
  BY <1>4
<1>6. EndsFirst(p, N)
  BY <1>4, <1>5 DEF EndsFirst
<1>7. \A i \in 1..Len(p) : p[i].triples \subseteq Storable(S, A)
  BY <1>4, <1>5
<1> QED BY <1>2, <1>4, <1>6, <1>7 DEF PlanTold, p

LEMMA PlansJoin ==
  ASSUME NEW N, NEW S, NEW A, NEW p \in Seq(Step), NEW q \in Seq(Step), PlanTold(p, N, S, A), PlanTold(q, N, S, A)
  PROVE  p \o q \in Seq(Step) /\ PlanTold(p \o q, N, S, A)
<1> DEFINE r == p \o q
<1>1. /\ r \in Seq(Step) /\ Len(r) = Len(p) + Len(q) /\ Len(p) \in Nat /\ Len(q) \in Nat
      /\ \A i \in 1..Len(r) : r[i] = IF i <= Len(p) THEN p[i] ELSE q[i - Len(p)]
  BY ConcatProperties, LenProperties
<1> HIDE DEF r
<1>2. ASSUME NEW i \in 1..Len(r)
      PROVE  /\ r[i].triples \subseteq Storable(S, A)
             /\ \A t \in r[i].triples : \A k \in {1, 3} :
                    t[k] \in N \/ \E j \in 1..(i - 1) : t[k] \in r[j].nodes
  <2>1. CASE i <= Len(p)
    <3>1. \A j \in 1..i : r[j] = p[j]
      BY <1>1, <2>1
    <3>2. r[i] = p[i] /\ i \in 1..Len(p) /\ \A j \in 1..(i - 1) : r[j] = p[j]
      BY <2>1, <3>1
    <3> QED BY <3>2 DEF PlanTold, EndsFirst
  <2>2. CASE i > Len(p)
    <3> DEFINE h == i - Len(p)
    <3>1. r[i] = q[h] /\ h \in 1..Len(q)
      BY <1>1, <2>2
    <3>2. ASSUME NEW j \in 1..(h - 1) PROVE r[j + Len(p)] = q[j] /\ j + Len(p) \in 1..(i - 1)
      <4>1. j + Len(p) \in 1..(i - 1) /\ j + Len(p) \in 1..Len(r) /\ ~(j + Len(p) <= Len(p)) /\ (j + Len(p)) - Len(p) = j
        BY <1>1, <2>2
      <4> QED BY <1>1, <4>1
    <3> HIDE DEF h
    <3>3. ASSUME NEW t \in q[h].triples, NEW k \in {1, 3}
          PROVE  t[k] \in N \/ \E j \in 1..(i - 1) : t[k] \in r[j].nodes
      <4>1. t[k] \in N \/ \E j \in 1..(h - 1) : t[k] \in q[j].nodes
        BY <3>1, <3>3 DEF PlanTold, EndsFirst
      <4> QED BY <3>2, <4>1
    <3> QED BY <3>1, <3>3 DEF PlanTold
  <2>3. i <= Len(p) \/ i > Len(p)
    BY <1>1
  <2> QED BY <2>1, <2>2, <2>3
<1>3. PlanTold(r, N, S, A)
  BY <1>2 DEF PlanTold, EndsFirst
<1> QED BY <1>1, <1>3 DEF r

(* A handler that begins, and what it has said, revoked or resolved.       *)
LEMMA BeginsKeep ==
  ASSUME SocialInv, NEW c \in Caller, NEW k, k \in Errand, Social!Begins(c, k),
         said \subseteq said', said' \subseteq Social!Verification,
         revoked \subseteq revoked', revoked' \subseteq Social!Revocation,
         resolved \subseteq resolved', resolved' \subseteq Social!Resolution,
         k.left = {}, k.entry = None, k.entries = {}, k.due = {}, k.ended = "no", k.submits \in said' \cup {None},
         PlanTold(k.plan, names, said', Marked'),
         k.resolves # None => ResolutionTold(k.resolves, names, said', Marked')
  PROVE  SocialInv'
<1>1. Marked \subseteq Marked'
  BY MarksGrow DEF Marked
<1>2. task' = [task EXCEPT ![c] = k] /\ UNCHANGED <<names, facts, sure>>
  BY DEF Social!Begins
<1>3. ErrandFits(k, names, said', Marked') /\ DueStored(k, facts)
  BY DEF ErrandFits, EntriesTold, DueStored
<1>4. ASSUME NEW d \in Caller, task'[d] # None
      PROVE  ErrandFits(task'[d], names, said', Marked') /\ DueStored(task'[d], facts)
  <2>1. CASE d = c
    BY <1>2, <1>3, <2>1 DEF SocialInv
  <2>2. CASE d # c
    <3>1. task'[d] = task[d] /\ ErrandFits(task[d], names, said, Marked) /\ DueStored(task[d], facts)
      BY <1>2, <1>4, <2>2 DEF SocialInv
    <3> QED BY <1>1, <3>1, ErrandLasts
  <2> QED BY <2>1, <2>2
<1>5. facts \subseteq Storable(said', Marked')
  BY <1>1, StorableGrows DEF SocialInv
<1>6. DOMAIN task' = Caller
  BY <1>2 DEF SocialInv
<1> QED BY <1>2, <1>4, <1>5, <1>6 DEF SocialInv

LEMMA WritesKeep ==
  ASSUME SocialInv, NEW c \in Caller, NEW plan \in Seq(Step), NEW verification \in said' \cup {None},
         Social!Writes(c, plan, verification),
         said \subseteq said', said' \subseteq Social!Verification,
         revoked \subseteq revoked', revoked' \subseteq Social!Revocation, resolved' = resolved,
         PlanTold(plan, names, said', Marked')
  PROVE  SocialInv'
<1> DEFINE k == [Social!Idle EXCEPT !.plan = plan, !.submits = verification]
<1>1. /\ k \in Errand /\ k.plan = plan /\ k.submits = verification /\ k.left = {} /\ k.entry = None
      /\ k.entries = {} /\ k.due = {} /\ k.ended = "no" /\ k.resolves = None
  BY DEF Social!Idle, Errand
<1>2. Social!Begins(c, k)
  BY DEF Social!Writes
<1>3. resolved \subseteq resolved' /\ resolved' \subseteq Social!Resolution
  BY DEF SocialInv
<1> HIDE DEF k
<1> QED BY <1>1, <1>2, <1>3, BeginsKeep

LEMMA EdgesAndSharesKeep ==
  ASSUME SocialInv, NEW c \in Caller,
         \/ \E a, b \in Did : a # b /\ Social!TrustEdgeCreate(c, a, b)
         \/ \E t \in Fact, a \in Did : Social!ShareCreate(c, t, a)
  PROVE  SocialInv'
<1>0. /\ said \subseteq Social!Verification /\ revoked \subseteq Social!Revocation /\ None \in said \cup {None}
      /\ Storable(said, Marked) \subseteq Anything
  BY AllStorable DEF SocialInv
<1>1. ASSUME NEW t \in Edges \cup SharesMade, Social!Writes(c, Social!Storing(t), None),
             UNCHANGED <<said, revoked, resolved>>
      PROVE  SocialInv'
  <2>1. t \in Storable(said, Marked)
    BY DEF Storable
  <2>2. Social!Storing(t) \in Seq(Step) /\ PlanTold(Social!Storing(t), names, said, Marked)
    BY <1>0, <2>1, StoringInOrder
  <2>3. Marked' = Marked
    BY <1>1 DEF Marked
  <2> QED BY <1>0, <1>1, <2>2, <2>3, WritesKeep
<1>2. CASE \E a, b \in Did : a # b /\ Social!TrustEdgeCreate(c, a, b)
  BY <1>1, <1>2 DEF Social!TrustEdgeCreate, Edges
<1>3. CASE \E t \in Fact, a \in Did : Social!ShareCreate(c, t, a)
  BY <1>1, <1>3 DEF Social!ShareCreate, SharesMade
<1> QED BY <1>2, <1>3

LEMMA SubmissionKeeps ==
  ASSUME SocialInv, NEW c \in Caller, NEW v \in Social!Verification, Social!VerificationSubmit(c, v)
  PROVE  SocialInv'
<1> DEFINE S == said \cup {v}
           first == Social!Storing(Social!VerifyTriple(v))
           second == Social!Storing(Social!ResultTriple(v))
           third == IF v.reason = None THEN <<>> ELSE Social!Storing(Social!ReasonTriple(v))
<1>1. /\ said' = S /\ UNCHANGED <<revoked, resolved>> /\ Social!Writes(c, first \o second \o third, v)
      /\ S \subseteq Social!Verification /\ v \in S /\ said \subseteq S
      /\ revoked \subseteq Social!Revocation
  BY DEF Social!VerificationSubmit, SocialInv
<1>2. Marked' = Marked /\ Storable(S, Marked) \subseteq Anything
  <2>1. Marked \subseteq Marks(Social!Revocation, Social!Resolution)
    BY MarksGrow DEF Marked, SocialInv
  <2> QED BY <1>1, <2>1, StorableGrows DEF Marked, Anything
<1>3. {Social!VerifyTriple(v), Social!ResultTriple(v), Social!ReasonTriple(v)} \subseteq Storable(S, Marked)
  BY <1>1 DEF Storable, Submitted
<1>4. <<>> \in Seq(Step) /\ PlanTold(<<>>, names, S, Marked)
  BY DEF PlanTold, EndsFirst
<1> HIDE DEF S
<1>5. /\ first \in Seq(Step) /\ PlanTold(first, names, S, Marked)
      /\ second \in Seq(Step) /\ PlanTold(second, names, S, Marked)
      /\ third \in Seq(Step) /\ PlanTold(third, names, S, Marked)
  BY <1>1, <1>2, <1>3, <1>4, StoringInOrder
<1> HIDE DEF first, second, third
<1>6. first \o second \o third \in Seq(Step) /\ PlanTold(first \o second \o third, names, S, Marked)
  BY <1>5, PlansJoin
<1> QED BY <1>1, <1>2, <1>6, WritesKeep

LEMMA RevocationKeeps ==
  ASSUME SocialInv, NEW c \in Caller, NEW r \in Social!Revocation, Social!ShareRevoke(c, r)
  PROVE  SocialInv'
<1> DEFINE R == revoked \cup {r}
           M == Marks(R, resolved)
           first == Social!Storing(Social!RetractedBy(r))
           second == Social!Storing(Social!RetractedAt(r))
           third == Social!Zeroed(r.of)
<1>1. /\ revoked' = R /\ UNCHANGED <<said, resolved>> /\ Social!Writes(c, first \o second \o third, None)
      /\ R \subseteq Social!Revocation /\ r \in R /\ revoked \subseteq R /\ r.of \in facts
      /\ said \subseteq Social!Verification /\ None \in said \cup {None}
  BY DEF Social!ShareRevoke, SocialInv
<1>2. Marked' = M /\ Marked \subseteq M /\ Storable(said, M) \subseteq Anything
  <2>1. Marked \subseteq M /\ M \subseteq Marks(Social!Revocation, Social!Resolution)
    BY <1>1, MarksGrow DEF Marked, SocialInv
  <2> QED BY <1>1, <2>1, StorableGrows DEF Marked, Anything
<1>3. {Social!RetractedBy(r), Social!RetractedAt(r)} \subseteq Storable(said, M)
  BY <1>1 DEF Storable, Marks
<1> HIDE DEF R, M
<1>4. r.of \in Storable(said, M) /\ r.of[1] \in names /\ r.of[3] \in names
  <2>1. Storable(said, Marked) \subseteq Storable(said, M)
    BY <1>2, StorableGrows
  <2>2. facts \subseteq Storable(said, Marked) /\ \A t \in facts : t[1] \in names /\ t[3] \in names
    BY DEF SocialInv
  <2> QED BY <1>1, <2>1, <2>2
<1>5. /\ first \in Seq(Step) /\ PlanTold(first, names, said, M)
      /\ second \in Seq(Step) /\ PlanTold(second, names, said, M)
  BY <1>1, <1>2, <1>3, StoringInOrder
<1>6. third \in Seq(Step) /\ PlanTold(third, names, said, M)
  BY <1>2, <1>4, WritingBack DEF Social!Zeroed
<1> HIDE DEF first, second, third
<1>7. first \o second \o third \in Seq(Step) /\ PlanTold(first \o second \o third, names, said, M)
  BY <1>5, <1>6, PlansJoin
<1> QED BY <1>1, <1>2, <1>7, WritesKeep

LEMMA ResolutionKeeps ==
  ASSUME SocialInv, NEW c \in Caller, NEW q \in Social!Resolution, Social!TensionResolve(c, q)
  PROVE  SocialInv'
<1> DEFINE Q == resolved \cup {q}
           M == Marks(revoked, Q)
           light == {q.pair[1]} \cap zero
           k == [Social!Idle EXCEPT !.resolves = q, !.light = light]
<1>1. /\ resolved' = Q /\ UNCHANGED <<said, revoked>> /\ Social!Begins(c, k)
      /\ Q \subseteq Social!Resolution /\ q \in Q /\ resolved \subseteq Q /\ q.pair[1] \in facts
      /\ said \subseteq Social!Verification /\ revoked \subseteq Social!Revocation
  BY DEF Social!TensionResolve, SocialInv
<1>2. Marked' = M /\ Marked \subseteq M
  BY <1>1, MarksGrow DEF Marked
<1>3. {Social!ResolvedWith(q), Social!ActionTriple(q), Social!WhyTriple(q)} \subseteq M
  BY <1>1 DEF Marks
<1> HIDE DEF Q, M
<1>4. /\ q.pair[1] \in Anything
      /\ ResolutionTold(q, names, said, M)
  <2>1. Storable(said, Marked) \subseteq Storable(said, M) /\ Storable(said, Marked) \subseteq Anything
    BY <1>2, StorableGrows, AllStorable
  <2>2. facts \subseteq Storable(said, Marked) /\ \A t \in facts : t[1] \in names /\ t[3] \in names
    BY DEF SocialInv
  <2> QED BY <1>1, <1>3, <2>1, <2>2 DEF ResolutionTold
<1>5. light \subseteq Anything
  BY <1>4
<1> HIDE DEF light
<1>6. /\ k \in Errand /\ k.plan = <<>> /\ k.submits = None /\ k.left = {} /\ k.entry = None
      /\ k.entries = {} /\ k.due = {} /\ k.ended = "no" /\ k.resolves = q
  <2>1. <<>> \in Seq(Step)
    OBVIOUS
  <2> QED BY <1>5, <2>1 DEF Social!Idle, Errand
<1> HIDE DEF k
<1>7. PlanTold(k.plan, names, said, M)
  BY <1>6 DEF PlanTold, EndsFirst
<1> QED BY <1>1, <1>2, <1>4, <1>6, <1>7, BeginsKeep

(* One call of the store: the rest of the plan is still in order.          *)
LEMMA PutKeeps ==
  ASSUME SocialInv, NEW c \in Caller, Social!Put(c)
  PROVE  SocialInv'
<1> DEFINE k == task[c]
           m == [k EXCEPT !.plan = Tail(@)]
           held == names \cup Head(k.plan).nodes
<1>1. /\ k # None /\ k.plan # <<>> /\ ErrandFits(k, names, said, Marked) /\ DueStored(k, facts)
      /\ k.plan \in Seq(Step)
  BY DEF SocialInv, Social!Put, ErrandFits, Errand
<1>2. /\ task' = [task EXCEPT ![c] = m] /\ names' = held
      /\ facts' = facts \cup Head(k.plan).triples /\ UNCHANGED <<said, sure, revoked, resolved>>
  BY DEF Social!Put, Social!history
<1>11. Marked' = Marked
  BY <1>2 DEF Marked
<1> DEFINE p == k.plan
           q == Tail(p)
<1>3. /\ Len(p) \in Nat /\ Len(p) >= 1 /\ q \in Seq(Step) /\ Len(q) = Len(p) - 1 /\ Head(p) = p[1] /\ Head(p) \in Step
      /\ \A i \in 1..Len(q) : q[i] = p[i + 1] /\ i + 1 \in 1..Len(p)
  BY <1>1, HeadTailProperties, EmptySeq
<1>4. p[1].triples \subseteq Storable(said, Marked) /\ \A t \in p[1].triples : t[1] \in names /\ t[3] \in names
  BY <1>1, <1>3 DEF ErrandFits, PlanTold, EndsFirst
<1>5. PlanTold(q, held, said, Marked)
  <2>1. ASSUME NEW i \in 1..Len(q), NEW t \in q[i].triples, NEW h \in {1, 3}
        PROVE  t[h] \in held \/ \E j \in 1..(i - 1) : t[h] \in q[j].nodes
    <3>0. i + 1 \in 1..Len(p) /\ t \in p[i + 1].triples /\ (i + 1) - 1 = i
      BY <1>3
    <3>1. t[h] \in names \/ \E j \in 1..i : t[h] \in p[j].nodes
      <4>1. t[h] \in names \/ \E j \in 1..((i + 1) - 1) : t[h] \in p[j].nodes
        BY <1>1, <3>0 DEF ErrandFits, PlanTold, EndsFirst
      <4> QED BY <3>0, <4>1
    <3>2. ASSUME NEW j \in 1..i, t[h] \in p[j].nodes PROVE t[h] \in held \/ \E l \in 1..(i - 1) : t[h] \in q[l].nodes
      <4>1. CASE j = 1
        BY <1>3, <3>2, <4>1
      <4>2. CASE j # 1
        <5>1. j - 1 \in 1..(i - 1) /\ q[j - 1] = p[j]
          BY <1>3, <4>2
        <5> QED BY <3>2, <5>1
      <4> QED BY <4>1, <4>2
    <3> QED BY <3>1, <3>2
  <2>2. \A i \in 1..Len(q) : q[i].triples \subseteq Storable(said, Marked)
    BY <1>1, <1>3 DEF ErrandFits, PlanTold
  <2> QED BY <2>1, <2>2 DEF PlanTold, EndsFirst
<1>6. ErrandFits(k, held, said, Marked)
  BY <1>1, ErrandLasts
<1>7. ErrandFits(m, held, said, Marked) /\ DueStored(m, facts')
  <2> HIDE DEF k, held, q
  <2>1. m = [k EXCEPT !.plan = q]
    BY DEF p, q
  <2> HIDE DEF m, p
  <2>2. /\ m \in Errand /\ m.plan = q /\ m.submits = k.submits /\ m.of = k.of /\ m.left = k.left
        /\ m.entry = k.entry /\ m.entries = k.entries /\ m.due = k.due /\ m.ended = k.ended
        /\ m.resolves = k.resolves
    BY <1>1, <1>3, <2>1 DEF ErrandFits, Errand
  <2>3. EntriesTold(m, said) /\ \A v \in m.due : v.of = m.of /\ Awaited(m, v)
    BY <1>6, <2>2 DEF ErrandFits, EntriesTold, Awaited
  <2>4. DueStored(m, facts')
    BY <1>1, <1>2, <2>2 DEF DueStored
  <2> QED BY <1>5, <1>6, <2>2, <2>3, <2>4 DEF ErrandFits
<1>8. ASSUME NEW d \in Caller, task'[d] # None
      PROVE  ErrandFits(task'[d], held, said, Marked) /\ DueStored(task'[d], facts')
  <2>1. CASE d = c
    BY <1>2, <1>7, <2>1 DEF SocialInv
  <2>2. CASE d # c
    <3>1. task'[d] = task[d] /\ ErrandFits(task[d], names, said, Marked) /\ DueStored(task[d], facts)
      BY <1>2, <1>8, <2>2 DEF SocialInv
    <3> QED BY <1>2, <3>1, ErrandLasts DEF DueStored
  <2> QED BY <2>1, <2>2
<1>9. DOMAIN task' = Caller
  BY <1>2 DEF SocialInv
<1>10. facts' \subseteq Storable(said, Marked) /\ \A t \in facts' : t[1] \in held /\ t[3] \in held
  BY <1>2, <1>3, <1>4 DEF SocialInv
<1> HIDE DEF held
<1> QED BY <1>2, <1>11, <1>8, <1>9, <1>10 DEF SocialInv

(* A step of one handler that stores nothing.                              *)
LEMMA OneErrand ==
  ASSUME SocialInv, NEW c \in Caller, NEW k, task' = [task EXCEPT ![c] = k],
         UNCHANGED <<names, facts, said, revoked, resolved>>, sure' \subseteq said,
         k # None => ErrandFits(k, names, said, Marked) /\ DueStored(k, facts)
  PROVE  SocialInv'
<1>0. Marked' = Marked
  BY DEF Marked
<1>1. ASSUME NEW d \in Caller, task'[d] # None
      PROVE  ErrandFits(task'[d], names, said, Marked) /\ DueStored(task'[d], facts)
  BY <1>1 DEF SocialInv
<1>2. DOMAIN task' = Caller
  BY DEF SocialInv
<1> QED BY <1>0, <1>1, <1>2 DEF SocialInv

(* The other triple of a resolution is read: both are written back, with   *)
(* the marks after them; or there is no such triple.                       *)
LEMMA OtherKeeps ==
  ASSUME SocialInv, NEW c \in Caller, Social!ReadOther(c)
  PROVE  SocialInv'
<1> DEFINE k == task[c]
           q == k.resolves
<1>1. /\ k # None /\ q # None /\ ErrandFits(k, names, said, Marked) /\ DueStored(k, facts)
      /\ UNCHANGED <<names, facts, said, sure, revoked, resolved>>
  BY DEF Social!ReadOther, Social!history, SocialInv
<1>2. CASE q.pair[2] \notin facts
  <2>1. task' = [task EXCEPT ![c] = None]
    BY <1>2 DEF Social!ReadOther
  <2>2. sure' \subseteq said
    BY <1>1 DEF SocialInv
  <2> QED BY <1>1, <2>1, <2>2, OneErrand
<1>3. CASE q.pair[2] \in facts
  <2> DEFINE plan == Social!Written(q) \o Social!Storing(Social!ResolvedWith(q))
                         \o Social!Storing(Social!ActionTriple(q)) \o Social!Storing(Social!WhyTriple(q))
             light == k.light \cup ({q.pair[2]} \cap zero)
             m == [k EXCEPT !.resolves = None, !.light = light, !.plan = plan]
  <2>1. task' = [task EXCEPT ![c] = m]
    BY <1>3 DEF Social!ReadOther, SocialInv
  <2>2. ResolutionTold(q, names, said, Marked) /\ k \in Errand /\ q \in Social!Resolution
    BY <1>1 DEF ErrandFits, Errand
  <2>3. /\ Storable(said, Marked) \subseteq Anything /\ said \subseteq Social!Verification
        /\ facts \subseteq Storable(said, Marked) /\ \A t \in facts : t[1] \in names /\ t[3] \in names
    BY AllStorable DEF SocialInv
  <2>4. /\ {Social!ResolvedWith(q), Social!ActionTriple(q), Social!WhyTriple(q)} \subseteq Storable(said, Marked)
        /\ {q.pair[1], q.pair[2]} \subseteq Storable(said, Marked)
        /\ \A t \in {q.pair[1], q.pair[2]} : t[1] \in names /\ t[3] \in names
    BY <1>3, <2>2, <2>3 DEF ResolutionTold, Storable
  <2>5. Social!Written(q) \in Seq(Step) /\ PlanTold(Social!Written(q), names, said, Marked)
    <3> DEFINE a == Social!Lightened(q.pair[1])
               b == Social!Lightened(q.pair[2])
    <3>1. /\ a \in Seq(Step) /\ PlanTold(a, names, said, Marked)
          /\ b \in Seq(Step) /\ PlanTold(b, names, said, Marked)
      BY <2>3, <2>4, WritingBack DEF Social!Lightened
    <3>2. <<>> \in Seq(Step) /\ PlanTold(<<>>, names, said, Marked)
      BY DEF PlanTold, EndsFirst
    <3> DEFINE back == [keep_a |-> b, keep_b |-> a, archive_both |-> a \o b, keep_both |-> <<>>]
    <3>5. Social!Written(q) = back[q.action]
      BY DEF Social!Written
    <3>6. q.action \in {"keep_a", "keep_b", "archive_both", "keep_both"}
      BY <2>2 DEF Social!Resolution
    <3> HIDE DEF a, b
    <3>3. Social!Written(q) \in {a, b, a \o b, <<>>}
      <4> DEFINE action == q.action
      <4>1. action \in {"keep_a", "keep_b", "archive_both", "keep_both"}
        BY <3>6
      <4> HIDE DEF action
      <4>2. back[action] \in {a, b, a \o b, <<>>}
        BY <4>1
      <4> HIDE DEF back
      <4> QED BY <3>5, <4>2 DEF action
    <3>4. a \o b \in Seq(Step) /\ PlanTold(a \o b, names, said, Marked)
      BY <3>1, PlansJoin
    <3> QED BY <3>1, <3>2, <3>3, <3>4
  <2> DEFINE first == Social!Storing(Social!ResolvedWith(q))
             second == Social!Storing(Social!ActionTriple(q))
             third == Social!Storing(Social!WhyTriple(q))
             back == Social!Written(q)
  <2>6. /\ first \in Seq(Step) /\ PlanTold(first, names, said, Marked)
        /\ second \in Seq(Step) /\ PlanTold(second, names, said, Marked)
        /\ third \in Seq(Step) /\ PlanTold(third, names, said, Marked)
    BY <2>3, <2>4, StoringInOrder
  <2>13. plan = back \o first \o second \o third
    OBVIOUS
  <2>14. back \in Seq(Step) /\ PlanTold(back, names, said, Marked)
    BY <2>5
  <2> HIDE DEF plan, first, second, third, back
  <2>7. plan \in Seq(Step) /\ PlanTold(plan, names, said, Marked)
    BY <2>13, <2>14, <2>6, PlansJoin
  <2>8. light \subseteq Anything
    BY <2>2, <2>3, <2>4 DEF Errand
  <2> HIDE DEF light, k
  <2>9. /\ m \in Errand /\ m.plan = plan /\ m.submits = k.submits /\ m.of = k.of /\ m.left = k.left
        /\ m.entry = k.entry /\ m.entries = k.entries /\ m.due = k.due /\ m.ended = k.ended
        /\ m.resolves = None
    BY <2>2, <2>7, <2>8 DEF Errand
  <2> HIDE DEF m
  <2>10. EntriesTold(m, said) /\ \A v \in m.due : v.of = m.of /\ Awaited(m, v)
    BY <1>1, <2>9 DEF ErrandFits, EntriesTold, Awaited
  <2>11. ErrandFits(m, names, said, Marked) /\ DueStored(m, facts)
    BY <1>1, <2>7, <2>9, <2>10 DEF ErrandFits, DueStored
  <2>12. sure' \subseteq said
    BY <1>1 DEF SocialInv
  <2> QED BY <1>1, <2>1, <2>11, <2>12, OneErrand
<1> QED BY <1>2, <1>3

LEMMA StoredKind ==
  ASSUME Social!SocialToolsAssumption, SocialInv, NEW t \in facts
  PROVE  /\ t[2] = "verifies" => \E v \in said : t = Social!VerifyTriple(v)
         /\ t[2] = "verification_result" => \E v \in said : t = Social!ResultTriple(v)
         /\ t[2] = "verification_reasoning" => \E v \in said : t = Social!ReasonTriple(v)
         /\ t[2] = "shareable_with" => t \in SharesMade
         /\ t[2] = "retracted_by" => t[3] = Social!Word("local")
         /\ t[2] = "retracted_at" => \E r \in revoked : t = Social!RetractedAt(r)
         /\ t[2] = "tension_resolved_with" => \E q \in resolved : t = Social!ResolvedWith(q)
         /\ t[2] = "tension_resolution_action" => \E q \in resolved : t = Social!ActionTriple(q)
         /\ t[2] = "tension_resolution_reasoning" => \E q \in resolved : t = Social!WhyTriple(q)
         /\ t[2] \notin Social!ToolPredicates => t \in Fact
<1>1. /\ said \subseteq Social!Verification /\ revoked \subseteq Social!Revocation
      /\ resolved \subseteq Social!Resolution /\ t \in Storable(said, Marks(revoked, resolved))
  BY DEF SocialInv, Marked
<1> QED BY <1>1, KindOf

LEMMA EndsOfErrandsKeep ==
  ASSUME SocialInv, NEW c \in Caller, Social!Acknowledge(c) \/ Social!Listed(c) \/ Social!Replied(c)
  PROVE  SocialInv'
<1>1. CASE Social!Acknowledge(c)
  <2>1. sure' \subseteq said
    BY <1>1 DEF Social!Acknowledge, SocialInv, ErrandFits
  <2> QED BY <1>1, <2>1, OneErrand DEF Social!Acknowledge
<1>2. CASE Social!Replied(c)
  BY <1>2, OneErrand DEF Social!Replied, Social!Reading, Social!history, SocialInv
<1>3. CASE Social!Listed(c)
  <2> DEFINE k == task[c]
             m == [k EXCEPT !.ended = "ok"]
  <2>1. /\ ErrandFits(k, names, said, Marked) /\ DueStored(k, facts) /\ k.left = {} /\ k.entry = None
        /\ task' = [task EXCEPT ![c] = m] /\ UNCHANGED <<names, facts, said, sure, revoked, resolved>>
    BY <1>3 DEF Social!Listed, Social!Reading, Social!history, SocialInv
  <2> HIDE DEF k
  <2>2. /\ m \in Errand /\ m.plan = k.plan /\ m.submits = k.submits /\ m.of = k.of /\ m.left = k.left
        /\ m.entry = k.entry /\ m.entries = k.entries /\ m.due = k.due /\ m.ended = "ok"
        /\ m.resolves = k.resolves
    BY <2>1 DEF ErrandFits, Errand
  <2> HIDE DEF m
  <2>3. ErrandFits(m, names, said, Marked) /\ DueStored(m, facts)
    BY <2>1, <2>2 DEF ErrandFits, EntriesTold, Awaited, DueStored
  <2>4. sure' \subseteq said
    BY <2>1 DEF SocialInv
  <2> QED BY <2>1, <2>3, <2>4, OneErrand
<1> QED BY <1>1, <1>2, <1>3

LEMMA RemoveOfSocialKeeps ==
  ASSUME SocialInv, NEW t \in facts, Social!Remove(t)
  PROVE  SocialInv'
<1>1. /\ facts' = facts \ {t} /\ UNCHANGED <<names, said, sure, revoked, resolved>>
      /\ task' = [c \in Caller |-> IF task[c] = None THEN None
                    ELSE [task[c] EXCEPT !.due = {v \in @ : t \notin Social!Needed(v)}]]
  BY DEF Social!Remove, Social!history
<1>2. ASSUME NEW c \in Caller, task'[c] # None
      PROVE  ErrandFits(task'[c], names, said, Marked) /\ DueStored(task'[c], facts')
  <2> DEFINE k == task[c]
             due == {v \in k.due : t \notin Social!Needed(v)}
             m == [k EXCEPT !.due = due]
  <2>1. /\ task'[c] = m /\ ErrandFits(k, names, said, Marked) /\ DueStored(k, facts)
    BY <1>1, <1>2 DEF SocialInv
  <2>2. due \subseteq k.due /\ \A v \in due : t \notin Social!Needed(v)
    OBVIOUS
  <2> HIDE DEF k, due
  <2>3. /\ m \in Errand /\ m.plan = k.plan /\ m.submits = k.submits /\ m.of = k.of /\ m.left = k.left
        /\ m.entry = k.entry /\ m.entries = k.entries /\ m.due = due /\ m.ended = k.ended
        /\ m.resolves = k.resolves
    BY <2>1, <2>2 DEF ErrandFits, Errand
  <2> HIDE DEF m
  <2>4. ErrandFits(m, names, said, Marked)
    BY <2>1, <2>2, <2>3 DEF ErrandFits, EntriesTold, Awaited
  <2>5. DueStored(m, facts')
    BY <1>1, <2>1, <2>2, <2>3 DEF DueStored
  <2> QED BY <2>1, <2>4, <2>5
<1>3. DOMAIN task' = Caller /\ Marked' = Marked
  BY <1>1 DEF Marked
<1> QED BY <1>1, <1>2, <1>3 DEF SocialInv

(* A list begins: what it has to tell is among what it will read.          *)
LEMMA ListKeeps ==
  ASSUME Social!SocialToolsAssumption, SocialInv, NEW c \in Caller, NEW t \in Fact, Social!VerificationList(c, t)
  PROVE  SocialInv'
<1> DEFINE left == IF t \in names THEN Social!Verifying(t) ELSE {}
           due == {v \in sure : v.of = t /\ Social!Needed(v) \subseteq facts}
           k == [Social!Idle EXCEPT !.of = t, !.left = left, !.due = due]
<1>1. task' = [task EXCEPT ![c] = k] /\ UNCHANGED <<names, facts, said, sure, revoked, resolved>>
  BY DEF Social!VerificationList, Social!Reading, Social!history
<1>2. \A u \in left : u[1] \in names /\ \E v \in said : u = Social!VerifyTriple(v) /\ v.of = t
  BY StoredKind DEF SocialInv, Social!Verifying, Social!VerifyTriple
<1>3. left \subseteq Verifies
  BY <1>2 DEF Verifies, SocialInv
<1>4. due \subseteq Social!Verification
  BY DEF SocialInv
<1>5. ASSUME NEW v \in due PROVE v.of = t /\ Social!VerifyTriple(v) \in left /\ Social!Needed(v) \subseteq facts
  <2>1. Social!VerifyTriple(v) \in facts /\ v.of = t
    BY <1>5 DEF Social!Needed
  <2>2. t \in names
    BY <2>1 DEF SocialInv, Social!VerifyTriple
  <2> QED BY <1>5, <2>1, <2>2 DEF Social!Verifying, Social!VerifyTriple
<1> HIDE DEF left, due
<1>6. /\ k \in Errand /\ k.plan = <<>> /\ k.submits = None /\ k.of = t /\ k.left = left /\ k.entry = None
      /\ k.entries = {} /\ k.due = due /\ k.ended = "no" /\ k.resolves = None
  <2> DEFINE idle == Social!Idle
  <2>1. /\ idle \in Errand /\ idle.plan = <<>> /\ idle.submits = None /\ idle.entry = None
        /\ idle.entries = {} /\ idle.ended = "no" /\ idle.resolves = None
    BY EmptySeq DEF Social!Idle, Errand
  <2> HIDE DEF idle
  <2>2. k = [idle EXCEPT !.of = t, !.left = left, !.due = due]
    BY DEF idle
  <2> QED BY <1>3, <1>4, <2>1, <2>2 DEF Errand
<1> HIDE DEF k
<1>7. PlanTold(k.plan, names, said, Marked) /\ EntriesTold(k, said)
  BY <1>6 DEF PlanTold, EndsFirst, EntriesTold
<1>8. ErrandFits(k, names, said, Marked) /\ DueStored(k, facts)
  BY <1>2, <1>5, <1>6, <1>7 DEF ErrandFits, DueStored, Awaited
<1>9. sure' \subseteq said
  BY <1>1 DEF SocialInv
<1> QED BY <1>1, <1>8, <1>9, OneErrand

(* One verdict is read: that of the triple, if it is still there.          *)
LEMMA ResultKeeps ==
  ASSUME Social!SocialToolsAssumption, SocialInv, NEW c \in Caller, NEW u \in facts, Social!ReadResult(c, u)
  PROVE  SocialInv'
<1> DEFINE k == task[c]
           results == IF u \in names THEN Social!Objects(u, "verification_result") ELSE {}
<1>1. /\ k # None /\ k.entry = None /\ k.ended = "no" /\ u \in k.left
      /\ ErrandFits(k, names, said, Marked) /\ DueStored(k, facts) /\ UNCHANGED <<names, facts, said, sure, revoked, resolved>>
  BY DEF Social!ReadResult, Social!Reading, Social!history, SocialInv
<1>2. u[1] \in names
  BY <1>1 DEF ErrandFits
<1>3. PICK v \in said : u = Social!VerifyTriple(v) /\ v.of = k.of
  BY <1>1 DEF ErrandFits
<1>4. PICK r \in IF results = {} THEN {None} ELSE results :
          task' = [task EXCEPT ![c].left = @ \ {u}, ![c].entry = [of |-> u, known |-> u \in names, verdict |-> r]]
  BY <1>2 DEF Social!ReadResult
<1> DEFINE e == [of |-> u, known |-> u \in names, verdict |-> r]
           left == k.left \ {u}
           m == [k EXCEPT !.left = left, !.entry = e]
<1>5. task' = [task EXCEPT ![c] = m]
  BY <1>1, <1>4 DEF SocialInv, ErrandFits, Errand
<1>6. \A o \in results : \E w \in said : Social!VerifyTriple(w) = u /\ o = w.verdict
  BY StoredKind DEF SocialInv, Social!Objects, Social!ResultTriple
<1>7. \E w \in said : e.of = Social!VerifyTriple(w) /\ w.of = k.of /\ e.verdict \in {None, w.verdict}
  <2>1. CASE results = {}
    BY <1>3, <2>1
  <2>2. CASE results # {}
    <3>1. PICK w \in said : Social!VerifyTriple(w) = u /\ r = w.verdict
      BY <1>6, <2>2
    <3> QED BY <1>3, <3>1 DEF Social!VerifyTriple
  <2> QED BY <2>1, <2>2
<1>8. e \in Social!VerificationEntry
  <2>1. PICK w \in said : e.of = Social!VerifyTriple(w) /\ e.verdict \in {None, w.verdict}
    BY <1>7
  <2>2. w \in Social!Verification
    BY DEF SocialInv
  <2>3. u \in Did \X {"verifies"} \X Fact /\ r \in Verdict \cup {None}
    BY <2>1, <2>2 DEF Social!VerifyTriple, Social!Verification
  <2> QED BY <2>3 DEF Social!VerificationEntry
<1>9. ASSUME NEW w \in k.due, Social!VerifyTriple(w) = u PROVE r # None
  <2>1. Social!ResultTriple(w) \in facts /\ w \in Social!Verification
    BY <1>1, <1>9 DEF DueStored, Social!Needed, ErrandFits, Errand
  <2>2. u \in names /\ w.verdict \in Social!Objects(u, "verification_result")
    BY <1>9, <2>1 DEF SocialInv, Social!ResultTriple, Social!Objects
  <2>3. PICK x \in said : r = x.verdict
    BY <1>6, <2>2
  <2>4. x \in Social!Verification
    BY DEF SocialInv
  <2> QED BY <2>3, <2>4 DEF Social!Verification, Social!SocialToolsAssumption
<1>10. e # None /\ e.of = u /\ e.verdict = r
  BY <1>8 DEF Social!SocialToolsAssumption
<1>11. left \subseteq k.left /\ \A w \in k.left : w # u => w \in left
  OBVIOUS
<1> HIDE DEF e, left, k, results
<1>12. /\ m \in Errand /\ m.plan = k.plan /\ m.submits = k.submits /\ m.of = k.of /\ m.left = left
       /\ m.entry = e /\ m.entries = k.entries /\ m.due = k.due /\ m.ended = k.ended
       /\ m.resolves = k.resolves
  BY <1>1, <1>8, <1>11 DEF ErrandFits, Errand
<1> HIDE DEF m
<1>13. EntriesTold(m, said)
  BY <1>1, <1>7, <1>12 DEF ErrandFits, EntriesTold
<1>14. ASSUME NEW w \in m.due PROVE w.of = m.of /\ Awaited(m, w)
  <2>1. w.of = k.of /\ Awaited(k, w)
    BY <1>1, <1>12, <1>14 DEF ErrandFits
  <2>2. CASE Social!VerifyTriple(w) \in k.left
    BY <1>9, <1>10, <1>11, <1>12, <1>14, <2>1, <2>2 DEF Awaited
  <2>3. CASE Social!VerifyTriple(w) \notin k.left
    BY <1>1, <1>12, <2>1, <2>3 DEF Awaited
  <2> QED BY <2>2, <2>3
<1>15. ErrandFits(m, names, said, Marked) /\ DueStored(m, facts)
  BY <1>1, <1>11, <1>12, <1>13, <1>14 DEF ErrandFits, DueStored
<1>16. sure' \subseteq said
  BY <1>1 DEF SocialInv
<1> QED BY <1>1, <1>5, <1>15, <1>16, OneErrand

(* One reasoning is read, of any submission of that verifier.              *)
LEMMA ReasonKeeps ==
  ASSUME Social!SocialToolsAssumption, SocialInv, NEW c \in Caller, Social!ReadReason(c)
  PROVE  SocialInv'
<1> DEFINE k == task[c]
           e == k.entry
           reasons == IF e.known THEN Social!Objects(e.of, "verification_reasoning") ELSE {}
<1>1. /\ k # None /\ e # None /\ ErrandFits(k, names, said, Marked) /\ DueStored(k, facts)
      /\ UNCHANGED <<names, facts, said, sure, revoked, resolved>>
  BY DEF Social!ReadReason, Social!Reading, Social!history, SocialInv
<1>2. PICK why \in IF reasons = {} THEN {None} ELSE reasons :
          task' = [task EXCEPT ![c].entry = None,
                       ![c].entries = @ \cup {[by |-> e.of[1], verdict |-> e.verdict, reason |-> why]}]
  BY DEF Social!ReadReason
<1> DEFINE n == [by |-> e.of[1], verdict |-> e.verdict, reason |-> why]
           entries == k.entries \cup {n}
           m == [k EXCEPT !.entry = None, !.entries = entries]
<1>3. task' = [task EXCEPT ![c] = m]
  BY <1>1, <1>2 DEF SocialInv, ErrandFits, Errand
<1>4. PICK v \in said : e.of = Social!VerifyTriple(v) /\ v.of = k.of /\ e.verdict \in {None, v.verdict}
  BY <1>1 DEF ErrandFits, EntriesTold
<1>5. PICK w \in said : Social!VerifyTriple(w) = e.of /\ why \in {None, w.reason}
  <2>1. CASE reasons = {}
    BY <1>4, <2>1
  <2>2. CASE reasons # {}
    BY <2>2, StoredKind DEF SocialInv, Social!Objects, Social!ReasonTriple
  <2> QED BY <2>1, <2>2
<1>6. /\ v.by = n.by /\ v.of = k.of /\ n.verdict \in {None, v.verdict}
      /\ w.by = n.by /\ w.of = k.of /\ n.reason \in {None, w.reason}
  BY <1>4, <1>5 DEF Social!VerifyTriple
<1>7. n \in Listing_
  <2>1. v \in Social!Verification /\ w \in Social!Verification
    BY DEF SocialInv
  <2>2. e.of[1] \in Did /\ e.verdict \in Verdict \cup {None} /\ why \in Reason \cup {None}
    BY <1>4, <1>5, <1>6, <2>1 DEF Social!Verification
  <2> QED BY <2>2 DEF Listing_
<1>8. n.verdict = e.verdict /\ n \in entries /\ k.entries \subseteq entries /\ entries \subseteq k.entries \cup {n}
  OBVIOUS
<1> HIDE DEF n, entries
<1>9. k \in Errand
  BY <1>1 DEF ErrandFits
<1> HIDE DEF k
<1>10. /\ m \in Errand /\ m.plan = k.plan /\ m.submits = k.submits /\ m.of = k.of /\ m.left = k.left
       /\ m.entry = None /\ m.entries = entries /\ m.due = k.due /\ m.ended = k.ended
       /\ m.resolves = k.resolves
  BY <1>7, <1>8, <1>9 DEF Errand
<1> HIDE DEF m
<1>11. EntriesTold(m, said)
  BY <1>1, <1>6, <1>8, <1>10 DEF ErrandFits, EntriesTold
<1>12. ASSUME NEW x \in m.due PROVE x.of = m.of /\ Awaited(m, x)
  <2>1. x.of = k.of /\ Awaited(k, x)
    BY <1>1, <1>10, <1>12 DEF ErrandFits
  <2>2. e.of = Social!VerifyTriple(x) => n.by = x.by
    BY <1>4, <1>6 DEF Social!VerifyTriple
  <2> QED BY <1>8, <1>10, <2>1, <2>2 DEF Awaited
<1>13. ErrandFits(m, names, said, Marked) /\ DueStored(m, facts)
  BY <1>1, <1>10, <1>11, <1>12 DEF ErrandFits, DueStored
<1>14. sure' \subseteq said
  BY <1>1 DEF SocialInv
<1> QED BY <1>1, <1>3, <1>13, <1>14, OneErrand

(* SocialInductive: what is stored was inserted, submitted, revoked or     *)
(* resolved, the rest of every plan is in order, and what a list has to    *)
(* tell is told, being read or left to be read.                            *)
(* mcp/tools.rs: trust, share, verification and tension tools              *)
THEOREM SocialInductive ==
  ASSUME Social!SocialToolsAssumption
  PROVE  Social!Spec => []SocialInv
<1>1. ASSUME SocialInv, [Social!Next]_Social!vars
      PROVE  SocialInv'
  <2>1. CASE UNCHANGED Social!vars
    <3>1. UNCHANGED <<names, facts, task, said, sure, revoked, resolved>>
      BY <2>1 DEF Social!vars, Social!history
    <3>2. Marked' = Marked
      BY <3>1 DEF Marked
    <3> QED BY <1>1, <3>1, <3>2 DEF SocialInv
  <2>2. ASSUME NEW c \in Caller,
               \/ \E a, b \in Did : a # b /\ Social!TrustEdgeCreate(c, a, b)
               \/ \E t \in Fact, a \in Did : Social!ShareCreate(c, t, a)
        PROVE  SocialInv'
    BY <1>1, <2>2, EdgesAndSharesKeep
  <2>3. ASSUME NEW c \in Caller, \E v \in Social!Verification : Social!VerificationSubmit(c, v)
        PROVE  SocialInv'
    BY <1>1, <2>3, SubmissionKeeps
  <2>4. ASSUME NEW c \in Caller,
               \/ \E r \in Social!Revocation : Social!ShareRevoke(c, r)
               \/ \E q \in Social!Resolution : Social!TensionResolve(c, q)
               \/ Social!ReadOther(c)
        PROVE  SocialInv'
    BY <1>1, <2>4, RevocationKeeps, ResolutionKeeps, OtherKeeps
  <2>5. ASSUME NEW c \in Caller, Social!Acknowledge(c) \/ Social!Listed(c) \/ Social!Replied(c)
        PROVE  SocialInv'
    BY <1>1, <2>5, EndsOfErrandsKeep
  <2>6. ASSUME NEW c \in Caller, Social!Put(c) \/ Social!ReadReason(c)
                  \/ (\E t \in Fact : Social!VerificationList(c, t)) \/ (\E u \in facts : Social!ReadResult(c, u))
        PROVE  SocialInv'
    BY <1>1, <2>6, PutKeeps, ReasonKeeps, ListKeeps, ResultKeeps
  <2>7. ASSUME NEW t \in facts, Social!Remove(t) PROVE SocialInv'
    BY <1>1, <2>7, RemoveOfSocialKeeps
  <2> QED BY <1>1, <2>1, <2>2, <2>3, <2>4, <2>5, <2>6, <2>7 DEF Social!Next
<1> QED BY <1>1, SocialInit, PTL DEF Social!Spec

(* Only what a revocation named weighs nothing, and only that will: the    *)
(* copies a resolution writes back weigh nothing if they did when read.    *)
Zeroing(plan, named) == \A i \in 1..Len(plan) : plan[i].weight = "none" => plan[i].triples \subseteq named
Named_ == {r.of : r \in revoked}
ErrandZeroes(k, named) == Zeroing(k.plan, named) /\ k.light \subseteq named
ZeroInv == zero \subseteq Named_ /\ \A c \in Caller : task[c] # None => ErrandZeroes(task[c], Named_)

LEMMA StoringZeroes ==
  ASSUME NEW t \in Anything, NEW R
  PROVE  Social!Storing(t) \in Seq(Step) /\ Zeroing(Social!Storing(t), R)
<1> DEFINE one == [nodes |-> {t[1], t[3]}, triples |-> {}, weight |-> "new"]
           two == [nodes |-> {}, triples |-> {t}, weight |-> "new"]
<1>1. one \in Step /\ two \in Step /\ one.weight = "new" /\ two.weight = "new"
  BY DEF Step
<1>2. Social!Storing(t) = <<one>> \o <<two>>
  BY DEF Social!Storing, Social!Call
<1> HIDE DEF Step, one, two
<1> DEFINE p == Social!Storing(t)
<1>3. p \in Seq(Step) /\ Len(p) = 2 /\ p[1].weight = "new" /\ p[2].weight = "new"
  BY <1>1, <1>2
<1> HIDE DEF p
<1>4. \A i \in 1..Len(p) : p[i].weight = "new"
  BY <1>3
<1>5. p \in Seq(Step) /\ Zeroing(p, R)
  BY <1>3, <1>4 DEF Zeroing
<1> QED BY <1>5 DEF p

LEMMA BackZeroes ==
  ASSUME NEW t \in Anything, NEW R, NEW weight \in {"none", "copy"}, weight = "none" => t \in R
  PROVE  Social!Call({}, {t}, weight) \in Seq(Step) /\ Zeroing(Social!Call({}, {t}, weight), R)
<1> DEFINE one == [nodes |-> {}, triples |-> {t}, weight |-> weight]
<1>1. one \in Step /\ one.triples = {t} /\ one.weight = weight
  BY DEF Step
<1>2. Social!Call({}, {t}, weight) = <<one>>
  BY DEF Social!Call
<1> HIDE DEF Step, one
<1> DEFINE p == <<one>>
<1>3. p \in Seq(Step) /\ Len(p) = 1 /\ p[1] = one
  BY <1>1
<1> HIDE DEF p
<1>4. \A i \in 1..Len(p) : i = 1
  BY <1>3
<1>5. Zeroing(p, R)
  BY <1>1, <1>3, <1>4 DEF Zeroing
<1> QED BY <1>2, <1>3, <1>5 DEF p

LEMMA JoinZeroes ==
  ASSUME NEW p \in Seq(Step), NEW q \in Seq(Step), NEW R, Zeroing(p, R), Zeroing(q, R)
  PROVE  p \o q \in Seq(Step) /\ Zeroing(p \o q, R)
<1> DEFINE r == p \o q
<1>1. /\ r \in Seq(Step) /\ Len(r) = Len(p) + Len(q) /\ Len(p) \in Nat /\ Len(q) \in Nat
      /\ \A i \in 1..Len(r) : r[i] = IF i <= Len(p) THEN p[i] ELSE q[i - Len(p)]
  BY ConcatProperties, LenProperties
<1> HIDE DEF r
<1>2. ASSUME NEW i \in 1..Len(r), r[i].weight = "none" PROVE r[i].triples \subseteq R
  <2>1. CASE i <= Len(p)
    BY <1>1, <1>2, <2>1 DEF Zeroing
  <2>2. CASE i > Len(p)
    <3>1. i - Len(p) \in 1..Len(q) /\ r[i] = q[i - Len(p)]
      BY <1>1, <2>2
    <3> QED BY <1>2, <3>1 DEF Zeroing
  <2> QED BY <1>1, <2>1, <2>2
<1> QED BY <1>1, <1>2 DEF Zeroing, r

LEMMA NothingZeroes ==
  ASSUME NEW R
  PROVE  <<>> \in Seq(Step) /\ Zeroing(<<>>, R)
BY DEF Zeroing

(* One handler takes a step, and no weight is stored.                      *)
LEMMA OneZeroes ==
  ASSUME SocialInv, ZeroInv, NEW c \in Caller, NEW k, task' = [task EXCEPT ![c] = k], zero' = zero,
         revoked \subseteq revoked', k # None => ErrandZeroes(k, Named_')
  PROVE  ZeroInv'
<1>1. Named_ \subseteq Named_'
  BY DEF Named_
<1>2. ASSUME NEW d \in Caller, task'[d] # None PROVE ErrandZeroes(task'[d], Named_')
  <2>1. CASE d = c
    BY <1>2, <2>1 DEF SocialInv
  <2>2. CASE d # c
    <3>1. task'[d] = task[d] /\ ErrandZeroes(task[d], Named_)
      BY <1>2, <2>2 DEF SocialInv, ZeroInv
    <3> QED BY <1>1, <3>1 DEF ErrandZeroes, Zeroing
  <2> QED BY <2>1, <2>2
<1> QED BY <1>1, <1>2 DEF ZeroInv

LEMMA WritesZero ==
  ASSUME SocialInv, ZeroInv, NEW c \in Caller, NEW plan, NEW verification, Social!Writes(c, plan, verification),
         revoked \subseteq revoked', Zeroing(plan, Named_')
  PROVE  ZeroInv'
<1> DEFINE k == [Social!Idle EXCEPT !.plan = plan, !.submits = verification]
<1>1. k.plan = plan /\ k.light = {} /\ task' = [task EXCEPT ![c] = k] /\ zero' = zero
  BY DEF Social!Idle, Social!Writes, Social!Begins
<1>2. ErrandZeroes(k, Named_')
  BY <1>1 DEF ErrandZeroes
<1> HIDE DEF k
<1> QED BY <1>1, <1>2, OneZeroes

LEMMA WritersZero ==
  ASSUME SocialInv, ZeroInv, NEW c \in Caller,
         \/ \E a, b \in Did : a # b /\ Social!TrustEdgeCreate(c, a, b)
         \/ \E t \in Fact, a \in Did : Social!ShareCreate(c, t, a)
         \/ \E v \in Social!Verification : Social!VerificationSubmit(c, v)
  PROVE  ZeroInv'
<1>1. ASSUME NEW t \in Edges \cup SharesMade, Social!Writes(c, Social!Storing(t), None), revoked' = revoked
      PROVE  ZeroInv'
  <2>1. t \in Anything
    BY DEF Anything, Storable
  <2> QED BY <1>1, <2>1, StoringZeroes, WritesZero
<1>2. CASE \E a, b \in Did : a # b /\ Social!TrustEdgeCreate(c, a, b)
  BY <1>1, <1>2 DEF Social!TrustEdgeCreate, Edges
<1>3. CASE \E t \in Fact, a \in Did : Social!ShareCreate(c, t, a)
  BY <1>1, <1>3 DEF Social!ShareCreate, SharesMade
<1>4. ASSUME NEW v \in Social!Verification, Social!VerificationSubmit(c, v) PROVE ZeroInv'
  <2> DEFINE first == Social!Storing(Social!VerifyTriple(v))
             second == Social!Storing(Social!ResultTriple(v))
             third == IF v.reason = None THEN <<>> ELSE Social!Storing(Social!ReasonTriple(v))
  <2>1. revoked' = revoked /\ Social!Writes(c, first \o second \o third, v)
    BY <1>4 DEF Social!VerificationSubmit
  <2>2. {Social!VerifyTriple(v), Social!ResultTriple(v), Social!ReasonTriple(v)} \subseteq Anything
    BY DEF Anything, Storable, Submitted
  <2>3. /\ first \in Seq(Step) /\ Zeroing(first, Named_')
        /\ second \in Seq(Step) /\ Zeroing(second, Named_')
        /\ third \in Seq(Step) /\ Zeroing(third, Named_')
    BY <2>2, StoringZeroes, NothingZeroes
  <2> HIDE DEF first, second, third
  <2>4. first \o second \o third \in Seq(Step) /\ Zeroing(first \o second \o third, Named_')
    BY <2>3, JoinZeroes
  <2> QED BY <2>1, <2>4, WritesZero
<1> QED BY <1>2, <1>3, <1>4

LEMMA RevocationZeroes ==
  ASSUME SocialInv, ZeroInv, NEW c \in Caller, NEW r \in Social!Revocation, Social!ShareRevoke(c, r)
  PROVE  ZeroInv'
<1> DEFINE first == Social!Storing(Social!RetractedBy(r))
           second == Social!Storing(Social!RetractedAt(r))
           third == Social!Zeroed(r.of)
<1>1. revoked' = revoked \cup {r} /\ Social!Writes(c, first \o second \o third, None) /\ r.of \in facts
  BY DEF Social!ShareRevoke
<1>2. r.of \in Named_' /\ revoked \subseteq revoked'
  BY <1>1 DEF Named_
<1>3. {Social!RetractedBy(r), Social!RetractedAt(r)} \subseteq Anything
  BY DEF Anything, Storable, Marks
<1>4. r.of \in Anything
  BY <1>1, AllStorable DEF SocialInv
<1>5. /\ first \in Seq(Step) /\ Zeroing(first, Named_')
      /\ second \in Seq(Step) /\ Zeroing(second, Named_')
  BY <1>3, StoringZeroes
<1>6. third \in Seq(Step) /\ Zeroing(third, Named_')
  BY <1>2, <1>4, BackZeroes DEF Social!Zeroed
<1> HIDE DEF first, second, third
<1>7. first \o second \o third \in Seq(Step) /\ Zeroing(first \o second \o third, Named_')
  BY <1>5, <1>6, JoinZeroes
<1> QED BY <1>1, <1>2, <1>7, WritesZero

LEMMA ResolutionZeroes ==
  ASSUME SocialInv, ZeroInv, NEW c \in Caller, NEW q \in Social!Resolution, Social!TensionResolve(c, q)
  PROVE  ZeroInv'
<1> DEFINE light == {q.pair[1]} \cap zero
           k == [Social!Idle EXCEPT !.resolves = q, !.light = light]
<1>1. task' = [task EXCEPT ![c] = k] /\ zero' = zero /\ revoked' = revoked
  BY DEF Social!TensionResolve, Social!Begins
<1>2. light \subseteq Named_'
  BY <1>1 DEF ZeroInv, Named_
<1> HIDE DEF light
<1>3. k.plan = <<>> /\ k.light = light
  BY DEF Social!Idle
<1>4. ErrandZeroes(k, Named_')
  BY <1>2, <1>3, NothingZeroes DEF ErrandZeroes
<1> HIDE DEF k
<1> QED BY <1>1, <1>4, OneZeroes

LEMMA OtherZeroes ==
  ASSUME SocialInv, ZeroInv, NEW c \in Caller, Social!ReadOther(c)
  PROVE  ZeroInv'
<1> DEFINE k == task[c]
           q == k.resolves
<1>1. /\ k # None /\ q # None /\ ErrandFits(k, names, said, Marked) /\ ErrandZeroes(k, Named_)
      /\ zero' = zero /\ revoked' = revoked
  BY DEF Social!ReadOther, Social!history, SocialInv, ZeroInv
<1>2. CASE q.pair[2] \notin facts
  BY <1>1, <1>2, OneZeroes DEF Social!ReadOther
<1>3. CASE q.pair[2] \in facts
  <2> DEFINE plan == Social!Written(q) \o Social!Storing(Social!ResolvedWith(q))
                         \o Social!Storing(Social!ActionTriple(q)) \o Social!Storing(Social!WhyTriple(q))
             light == k.light \cup ({q.pair[2]} \cap zero)
             m == [k EXCEPT !.resolves = None, !.light = light, !.plan = plan]
  <2>1. task' = [task EXCEPT ![c] = m]
    BY <1>3 DEF Social!ReadOther, SocialInv
  <2>2. ResolutionTold(q, names, said, Marked) /\ k \in Errand /\ q \in Social!Resolution
    BY <1>1 DEF ErrandFits, Errand
  <2>3. Storable(said, Marked) \subseteq Anything /\ facts \subseteq Storable(said, Marked)
    BY AllStorable DEF SocialInv
  <2>4. /\ {Social!ResolvedWith(q), Social!ActionTriple(q), Social!WhyTriple(q)} \subseteq Anything
        /\ q.pair[1] \in Anything /\ q.pair[2] \in Anything
    BY <1>3, <2>2, <2>3 DEF ResolutionTold, Storable
  <2> DEFINE a == Social!Lightened(q.pair[1])
             b == Social!Lightened(q.pair[2])
             back == [keep_a |-> b, keep_b |-> a, archive_both |-> a \o b, keep_both |-> <<>>]
             first == Social!Storing(Social!ResolvedWith(q))
             second == Social!Storing(Social!ActionTriple(q))
             third == Social!Storing(Social!WhyTriple(q))
  <2>5. plan = back[q.action] \o first \o second \o third
    BY DEF Social!Written
  <2>6. q.action \in {"keep_a", "keep_b", "archive_both", "keep_both"}
    BY <2>2 DEF Social!Resolution
  <2>7. /\ a \in Seq(Step) /\ Zeroing(a, Named_) /\ b \in Seq(Step) /\ Zeroing(b, Named_)
    BY <2>4, BackZeroes DEF Social!Lightened
  <2>8. /\ first \in Seq(Step) /\ Zeroing(first, Named_) /\ second \in Seq(Step) /\ Zeroing(second, Named_)
        /\ third \in Seq(Step) /\ Zeroing(third, Named_)
    BY <2>4, StoringZeroes
  <2> HIDE DEF a, b, first, second, third, plan, light, k
  <2>9. back[q.action] \in {a, b, a \o b, <<>>}
    BY <2>6
  <2>10. back[q.action] \in Seq(Step) /\ Zeroing(back[q.action], Named_)
    <3>1. a \o b \in Seq(Step) /\ Zeroing(a \o b, Named_)
      BY <2>7, JoinZeroes
    <3> HIDE DEF back
    <3> QED BY <2>7, <2>9, <3>1, NothingZeroes
  <2> HIDE DEF back
  <2>11. Zeroing(plan, Named_)
    <3> DEFINE w == back[q.action]
    <3>1. w \in Seq(Step) /\ Zeroing(w, Named_) /\ plan = w \o first \o second \o third
      BY <2>5, <2>10
    <3> HIDE DEF w
    <3> QED BY <2>8, <3>1, JoinZeroes
  <2>12. light \subseteq Named_
    BY <1>1 DEF light, ErrandZeroes, ZeroInv
  <2>13. m.plan = plan /\ m.light = light /\ Named_' = Named_
    BY <1>1, <2>2 DEF Errand, Named_
  <2>14. ErrandZeroes(m, Named_')
    BY <2>11, <2>12, <2>13 DEF ErrandZeroes
  <2> HIDE DEF m
  <2> QED BY <1>1, <2>1, <2>14, OneZeroes
<1> QED BY <1>2, <1>3

(* A new triple weighs something; one written back without its weight was  *)
(* named; and a copy weighs nothing if it did when it was read.            *)
LEMMA PutZeroes ==
  ASSUME SocialInv, ZeroInv, NEW c \in Caller, Social!Put(c)
  PROVE  ZeroInv'
<1> DEFINE k == task[c]
           p == k.plan
           q == Tail(p)
           m == [k EXCEPT !.plan = Tail(@)]
<1>1. /\ k # None /\ p # <<>> /\ p \in Seq(Step) /\ k \in Errand /\ ErrandZeroes(k, Named_)
      /\ zero \subseteq Named_
  BY DEF Social!Put, SocialInv, ErrandFits, Errand, ZeroInv
<1>2. task' = [task EXCEPT ![c] = m] /\ Named_' = Named_
  BY DEF Social!Put, Social!history, Named_
<1>3. /\ Len(p) \in Nat /\ Len(p) >= 1 /\ q \in Seq(Step) /\ Len(q) = Len(p) - 1 /\ Head(p) = p[1] /\ p[1] \in Step
      /\ \A i \in 1..Len(q) : q[i] = p[i + 1] /\ i + 1 \in 1..Len(p)
  BY <1>1, HeadTailProperties, EmptySeq
<1>4. /\ p[1].weight \in {"new", "none", "copy"} /\ (p[1].weight = "none" => p[1].triples \subseteq Named_)
      /\ k.light \subseteq Named_
  BY <1>1, <1>3 DEF Step, ErrandZeroes, Zeroing
<1>5. zero' = CASE p[1].weight = "new" -> zero \ p[1].triples
                [] p[1].weight = "none" -> zero \cup p[1].triples
                [] p[1].weight = "copy" -> (zero \ p[1].triples) \cup (p[1].triples \cap k.light)
  BY <1>3 DEF Social!Put
<1>6. zero' \subseteq Named_
  BY <1>1, <1>4, <1>5
<1>7. Zeroing(q, Named_)
  BY <1>1, <1>3 DEF ErrandZeroes, Zeroing
<1> HIDE DEF k, q
<1>8. m = [k EXCEPT !.plan = q]
  BY DEF q, p
<1>9. m.plan = q /\ m.light = k.light
  BY <1>1, <1>8 DEF Errand
<1> HIDE DEF m
<1>10. ErrandZeroes(m, Named_)
  BY <1>4, <1>7, <1>9 DEF ErrandZeroes
<1>11. ASSUME NEW d \in Caller, task'[d] # None PROVE ErrandZeroes(task'[d], Named_)
  BY <1>2, <1>10, <1>11 DEF SocialInv, ZeroInv
<1> QED BY <1>2, <1>6, <1>11 DEF ZeroInv

(* Steps that leave plans and weights alone.                               *)
LEMMA RestZeroes ==
  ASSUME SocialInv, ZeroInv, NEW c \in Caller,
         \/ Social!Acknowledge(c) \/ Social!Listed(c) \/ Social!Replied(c) \/ Social!ReadReason(c)
         \/ (\E t \in Fact : Social!VerificationList(c, t)) \/ (\E u \in facts : Social!ReadResult(c, u))
  PROVE  ZeroInv'
<1> DEFINE k == task[c]
<1>1. zero' = zero /\ revoked' = revoked /\ Named_' = Named_ /\ revoked \subseteq revoked'
  BY DEF Social!Acknowledge, Social!Listed, Social!Replied, Social!ReadReason, Social!VerificationList,
         Social!ReadResult, Social!Reading, Social!history, Named_
<1>2. ASSUME NEW m, task' = [task EXCEPT ![c] = m], m # None => m.plan = k.plan /\ m.light = k.light /\ k # None
      PROVE  ZeroInv'
  <2>1. m # None => ErrandZeroes(m, Named_')
    BY <1>1, <1>2 DEF ZeroInv, ErrandZeroes
  <2> QED BY <1>1, <1>2, <2>1, OneZeroes
<1>3. k # None => k \in Errand
  BY DEF SocialInv, ErrandFits
<1>4. CASE Social!Acknowledge(c) \/ Social!Replied(c)
  BY <1>2, <1>4 DEF Social!Acknowledge, Social!Replied
<1>5. CASE Social!Listed(c)
  <2> DEFINE m == [k EXCEPT !.ended = "ok"]
  <2>1. k # None /\ task' = [task EXCEPT ![c] = m]
    BY <1>5 DEF Social!Listed
  <2> HIDE DEF k
  <2>2. m.plan = k.plan /\ m.light = k.light
    BY <1>3, <2>1 DEF Errand
  <2> QED BY <1>2, <2>1, <2>2
<1>6. CASE Social!ReadReason(c)
  <2>1. PICK n : k # None /\ task' = [task EXCEPT ![c].entry = None, ![c].entries = @ \cup {n}]
    BY <1>6 DEF Social!ReadReason
  <2> DEFINE m == [k EXCEPT !.entry = None, !.entries = @ \cup {n}]
  <2>2. task' = [task EXCEPT ![c] = m]
    BY <1>3, <2>1 DEF SocialInv, Errand
  <2> HIDE DEF k
  <2>3. m.plan = k.plan /\ m.light = k.light
    BY <1>3, <2>1 DEF Errand
  <2> QED BY <1>2, <2>1, <2>2, <2>3
<1>7. ASSUME NEW t \in Fact, Social!VerificationList(c, t) PROVE ZeroInv'
  <2> DEFINE left == IF t \in names THEN Social!Verifying(t) ELSE {}
             due == {v \in sure : v.of = t /\ Social!Needed(v) \subseteq facts}
             m == [Social!Idle EXCEPT !.of = t, !.left = left, !.due = due]
  <2>1. task' = [task EXCEPT ![c] = m]
    BY <1>7 DEF Social!VerificationList
  <2> HIDE DEF left, due
  <2>2. m.plan = <<>> /\ m.light = {}
    BY DEF Social!Idle
  <2>3. ErrandZeroes(m, Named_')
    BY <2>2, NothingZeroes DEF ErrandZeroes
  <2> HIDE DEF m
  <2> QED BY <1>1, <2>1, <2>3, OneZeroes
<1>8. ASSUME NEW u \in facts, Social!ReadResult(c, u) PROVE ZeroInv'
  <2>1. CASE u[1] \notin names
    <3> DEFINE m == [k EXCEPT !.ended = "failed"]
    <3>1. k # None /\ task' = [task EXCEPT ![c] = m]
      BY <1>8, <2>1 DEF Social!ReadResult
    <3> HIDE DEF k
    <3>2. m.plan = k.plan /\ m.light = k.light
      BY <1>3, <3>1 DEF Errand
    <3> QED BY <1>2, <3>1, <3>2
  <2>2. CASE u[1] \in names
    <3>1. PICK n : k # None /\ task' = [task EXCEPT ![c].left = @ \ {u}, ![c].entry = n]
      BY <1>8, <2>2 DEF Social!ReadResult
    <3> DEFINE m == [k EXCEPT !.left = @ \ {u}, !.entry = n]
    <3>2. task' = [task EXCEPT ![c] = m]
      BY <1>3, <3>1 DEF SocialInv, Errand
    <3> HIDE DEF k
    <3>3. m.plan = k.plan /\ m.light = k.light
      BY <1>3, <3>1 DEF Errand
    <3> QED BY <1>2, <3>1, <3>2, <3>3
  <2> QED BY <2>1, <2>2
<1> QED BY <1>4, <1>5, <1>6, <1>7, <1>8

LEMMA RemoveZeroes ==
  ASSUME SocialInv, ZeroInv, NEW t \in facts, Social!Remove(t)
  PROVE  ZeroInv'
<1>1. zero' \subseteq zero /\ Named_' = Named_
  BY DEF Social!Remove, Social!history, Named_
<1>2. ASSUME NEW c \in Caller, task'[c] # None PROVE ErrandZeroes(task'[c], Named_)
  <2> DEFINE k == task[c]
             due == {v \in k.due : t \notin Social!Needed(v)}
             m == [k EXCEPT !.due = due]
  <2>1. task'[c] = m /\ k \in Errand /\ ErrandZeroes(k, Named_)
    BY <1>2 DEF Social!Remove, SocialInv, ErrandFits, ZeroInv
  <2> HIDE DEF k, due
  <2>2. m.plan = k.plan /\ m.light = k.light
    BY <2>1 DEF Errand
  <2> QED BY <2>1, <2>2 DEF ErrandZeroes
<1> QED BY <1>1, <1>2 DEF ZeroInv

(* ZeroRevoked: only a triple that a revocation named weighs nothing; no   *)
(* resolution and no interleaving of handlers that write old copies back   *)
(* takes the weight of another.                                            *)
(* mcp/tools.rs: share_revoke, tension_resolve                             *)
THEOREM ZeroRevoked ==
  ASSUME Social!SocialToolsAssumption
  PROVE  Social!Spec => []ZeroInv
<1>1. Social!Init => ZeroInv
  BY DEF Social!Init, ZeroInv
<1>2. ASSUME SocialInv, ZeroInv, [Social!Next]_Social!vars
      PROVE  ZeroInv'
  <2>1. CASE UNCHANGED Social!vars
    <3>1. UNCHANGED <<zero, task, revoked>>
      BY <2>1 DEF Social!vars, Social!history
    <3> QED BY <1>2, <3>1 DEF ZeroInv, Named_
  <2>2. ASSUME NEW c \in Caller,
               \/ \E a, b \in Did : a # b /\ Social!TrustEdgeCreate(c, a, b)
               \/ \E t \in Fact, a \in Did : Social!ShareCreate(c, t, a)
               \/ \E v \in Social!Verification : Social!VerificationSubmit(c, v)
        PROVE  ZeroInv'
    BY <1>2, <2>2, WritersZero
  <2>3. ASSUME NEW c \in Caller,
               \/ \E r \in Social!Revocation : Social!ShareRevoke(c, r)
               \/ \E q \in Social!Resolution : Social!TensionResolve(c, q)
               \/ Social!ReadOther(c) \/ Social!Put(c)
        PROVE  ZeroInv'
    BY <1>2, <2>3, RevocationZeroes, ResolutionZeroes, OtherZeroes, PutZeroes
  <2>4. ASSUME NEW c \in Caller,
               \/ Social!Acknowledge(c) \/ Social!Listed(c) \/ Social!Replied(c) \/ Social!ReadReason(c)
               \/ (\E t \in Fact : Social!VerificationList(c, t)) \/ (\E u \in facts : Social!ReadResult(c, u))
        PROVE  ZeroInv'
    BY <1>2, <2>4, RestZeroes
  <2>5. ASSUME NEW t \in facts, Social!Remove(t) PROVE ZeroInv'
    BY <1>2, <2>5, RemoveZeroes
  <2> QED BY <1>2, <2>1, <2>2, <2>3, <2>4, <2>5 DEF Social!Next
<1> QED BY <1>1, <1>2, SocialInductive, PTL DEF Social!Spec

(* SocialTold: however submissions, removals and lists interleave, a list  *)
(* never fails, tells only what was said and every acknowledged verdict    *)
(* still stored; tensions are only between facts, within one verifier's    *)
(* word on one triple, or between two revocations or resolutions of one    *)
(* triple, and one that was not revoked is found; and shares are those     *)
(* that were made.                                                         *)
(* mcp/tools.rs: verification_list, tension_list, share_list               *)
THEOREM SocialTold ==
  ASSUME Social!SocialToolsAssumption
  PROVE  Social!Spec => []Social!Told
<1>1. ASSUME SocialInv PROVE Social!VerificationsTold
  <2>1. SUFFICES ASSUME NEW c \in Caller, NEW r, r = task[c], r # None
                 PROVE  /\ r.ended # "failed"
                        /\ \A e \in r.entries :
                               /\ \E v \in said : v.by = e.by /\ v.of = r.of /\ e.verdict \in {None, v.verdict}
                               /\ \E v \in said : v.by = e.by /\ v.of = r.of /\ e.reason \in {None, v.reason}
                        /\ r.ended = "ok" => \A v \in r.due : \E e \in r.entries : e.by = v.by /\ e.verdict # None
    BY DEF Social!VerificationsTold
  <2>2. ErrandFits(r, names, said, Marked)
    BY <1>1, <2>1 DEF SocialInv
  <2>3. r.ended # "failed"
    BY <2>2 DEF ErrandFits, Errand
  <2> QED BY <2>2, <2>3 DEF ErrandFits, EntriesTold, Awaited
<1>2. ASSUME SocialInv, ZeroInv PROVE Social!TensionsReal
  <2>1. ASSUME NEW pair \in Social!Tensions
        PROVE  \/ pair \in Fact \X Fact \/ Social!SelfContradicted(pair)
               \/ Social!RevokedTwice(pair) \/ Social!ResolvedTwice(pair)
    <3> DEFINE a == pair[1]
               b == pair[2]
    <3>1. /\ SocialInv /\ pair = <<a, b>> /\ a \in facts /\ b \in facts
          /\ a[1] = b[1] /\ a[2] = b[2] /\ a[3] # b[3] /\ a[2] \notin Social!ManyValued
      BY <1>2, <2>1 DEF Social!Tensions
    <3> HIDE DEF a, b
    <3>2. CASE a[2] = "verification_result"
      <4>1. PICK v \in said : a = Social!ResultTriple(v)
        BY <3>1, <3>2, StoredKind
      <4>2. PICK w \in said : b = Social!ResultTriple(w)
        <5>1. b[2] = "verification_result"
          BY <3>1, <3>2
        <5> QED BY <3>1, <5>1, StoredKind
      <4>3. Social!VerifyTriple(v) = Social!VerifyTriple(w) /\ v # w
        BY <3>1, <4>1, <4>2 DEF Social!ResultTriple
      <4> QED BY <3>1, <4>1, <4>2, <4>3 DEF Social!SelfContradicted
    <3>3. CASE a[2] = "verification_reasoning"
      <4>1. PICK v \in said : a = Social!ReasonTriple(v)
        BY <3>1, <3>3, StoredKind
      <4>2. PICK w \in said : b = Social!ReasonTriple(w)
        <5>1. b[2] = "verification_reasoning"
          BY <3>1, <3>3
        <5> QED BY <3>1, <5>1, StoredKind
      <4>3. Social!VerifyTriple(v) = Social!VerifyTriple(w) /\ v # w
        BY <3>1, <4>1, <4>2 DEF Social!ReasonTriple
      <4> QED BY <3>1, <4>1, <4>2, <4>3 DEF Social!SelfContradicted
    <3>4. CASE a[2] = "retracted_at"
      <4>1. PICK v \in revoked : a = Social!RetractedAt(v)
        BY <3>1, <3>4, StoredKind
      <4>2. PICK w \in revoked : b = Social!RetractedAt(w)
        <5>1. b[2] = "retracted_at"
          BY <3>1, <3>4
        <5> QED BY <3>1, <5>1, StoredKind
      <4>3. v.of = w.of /\ v.at # w.at
        BY <3>1, <4>1, <4>2 DEF Social!RetractedAt
      <4> QED BY <3>1, <4>1, <4>2, <4>3 DEF Social!RevokedTwice
    <3>5. CASE a[2] = "tension_resolved_with"
      <4>1. PICK v \in resolved : a = Social!ResolvedWith(v)
        BY <3>1, <3>5, StoredKind
      <4>2. PICK w \in resolved : b = Social!ResolvedWith(w)
        <5>1. b[2] = "tension_resolved_with"
          BY <3>1, <3>5
        <5> QED BY <3>1, <5>1, StoredKind
      <4>3. v.pair[1] = w.pair[1] /\ v # w
        BY <3>1, <4>1, <4>2 DEF Social!ResolvedWith
      <4> QED BY <3>1, <4>1, <4>2, <4>3 DEF Social!ResolvedTwice
    <3>6. CASE a[2] = "tension_resolution_action"
      <4>1. PICK v \in resolved : a = Social!ActionTriple(v)
        BY <3>1, <3>6, StoredKind
      <4>2. PICK w \in resolved : b = Social!ActionTriple(w)
        <5>1. b[2] = "tension_resolution_action"
          BY <3>1, <3>6
        <5> QED BY <3>1, <5>1, StoredKind
      <4>3. v.pair[1] = w.pair[1] /\ v # w
        BY <3>1, <4>1, <4>2 DEF Social!ActionTriple, Social!ResolvedWith
      <4> QED BY <3>1, <4>1, <4>2, <4>3 DEF Social!ResolvedTwice
    <3>7. CASE a[2] = "tension_resolution_reasoning"
      <4>1. PICK v \in resolved : a = Social!WhyTriple(v)
        BY <3>1, <3>7, StoredKind
      <4>2. PICK w \in resolved : b = Social!WhyTriple(w)
        <5>1. b[2] = "tension_resolution_reasoning"
          BY <3>1, <3>7
        <5> QED BY <3>1, <5>1, StoredKind
      <4>3. v.pair[1] = w.pair[1] /\ v # w
        BY <3>1, <4>1, <4>2 DEF Social!WhyTriple, Social!ResolvedWith
      <4> QED BY <3>1, <4>1, <4>2, <4>3 DEF Social!ResolvedTwice
    <3>8. CASE a[2] = "retracted_by"
      <4>1. a[3] = Social!Word("local") /\ b[3] = Social!Word("local")
        <5>1. b[2] = "retracted_by"
          BY <3>1, <3>8
        <5> QED BY <3>1, <3>8, <5>1, StoredKind
      <4> QED BY <3>1, <4>1
    <3>9. CASE a[2] \notin Social!ToolPredicates
      BY <3>1, <3>9, StoredKind
    <3> QED BY <3>1, <3>2, <3>3, <3>4, <3>5, <3>6, <3>7, <3>8, <3>9 DEF Social!ToolPredicates, Social!ManyValued
  <2>2. ASSUME NEW pair \in Social!Opposed, {pair[1], pair[2]} \subseteq facts,
               \A r \in revoked : r.of \notin {pair[1], pair[2]}
        PROVE  pair \in Social!Tensions
    <3>1. /\ pair = <<pair[1], pair[2]>> /\ pair[1][1] = pair[2][1] /\ pair[1][2] = pair[2][2]
          /\ pair[1][3] # pair[2][3] /\ pair[1][2] \notin Social!ManyValued
      <4>1. CASE pair \in Fact \X Fact
        BY <2>2, <4>1 DEF Social!Opposed, Social!ResultTriple, Social!ManyValued
      <4>2. CASE pair \notin Fact \X Fact
        <5>1. PICK v \in sure, w \in sure :
                  /\ pair = <<Social!ResultTriple(v), Social!ResultTriple(w)>>
                  /\ Social!VerifyTriple(v) = Social!VerifyTriple(w) /\ v.verdict # w.verdict
          BY <2>2, <4>2 DEF Social!Opposed
        <5> QED BY <5>1 DEF Social!ResultTriple, Social!ManyValued
      <4> QED BY <4>1, <4>2
    <3>2. pair[1] \notin zero /\ pair[2] \notin zero
      BY <1>2, <2>2 DEF ZeroInv, Named_
    <3>3. pair \in (facts \ zero) \X (facts \ zero)
      BY <2>2, <3>1, <3>2
    <3> QED BY <3>1, <3>3 DEF Social!Tensions
  <2> QED BY <2>1, <2>2 DEF Social!TensionsReal
<1>3. ASSUME SocialInv PROVE Social!SharesNamed
  <2>1. ASSUME NEW s \in Social!Shares PROVE s \in Fact \X Did /\ {s[1], s[2]} \subseteq names
    <3>1. PICK t \in facts : t[2] = "shareable_with" /\ s = <<t[1], t[3]>>
      BY <2>1 DEF Social!Shares
    <3>2. t \in SharesMade /\ t[1] \in names /\ t[3] \in names
      BY <1>3, <3>1, StoredKind DEF SocialInv
    <3> QED BY <3>1, <3>2 DEF SharesMade
  <2> QED BY <2>1 DEF Social!SharesNamed
<1> QED BY <1>1, <1>2, <1>3, SocialInductive, ZeroRevoked, PTL DEF Social!Told
-----------------------------------------------------------------------------
(* Working: the scores of a working set from turn to turn.                 *)

LEMMA ScoresStay ==
  ASSUME Working!WorkingSetAssumption, NEW s \in Working!Score
  PROVE  /\ Working!Recomputed(s) \in Working!Score
         /\ Working!Recomputed(s).age = s.age /\ Working!Recomputed(s).combined =
               5 * s.confidence + 3 * Recency[s.age] + 2 * Activation[s.count]
         /\ Working!Activable(s) => Working!Activated(s) \in Working!Score
         /\ s.age + 1 \in DOMAIN Recency => Working!Aged(s) \in Working!Score
<1> USE DEF Working!WorkingSetAssumption
<1>1. ASSUME NEW r \in Working!Score
      PROVE  /\ Working!Recomputed(r) \in Working!Score
             /\ Working!Recomputed(r).age = r.age /\ Working!Recomputed(r).combined =
                   5 * r.confidence + 3 * Recency[r.age] + 2 * Activation[r.count]
  <2>1. /\ r.confidence \in Nat /\ r.age \in DOMAIN Recency /\ r.count \in DOMAIN Activation
        /\ Recency[r.age] \in Nat /\ Activation[r.count] \in Nat
    BY DEF Working!Score
  <2>2. 5 * r.confidence + 3 * Recency[r.age] + 2 * Activation[r.count] \in Nat
    BY <2>1
  <2> QED BY <2>2 DEF Working!Recomputed, Working!Score
<1>2. ASSUME Working!Activable(s) PROVE Working!Activated(s) \in Working!Score
  <2> DEFINE r == [s EXCEPT !.count = s.count + 1, !.age = 0]
  <2>1. r \in Working!Score
    BY <1>2 DEF Working!Activable, Working!Score
  <2>2. Working!Activated(s) = Working!Recomputed(r)
    BY DEF Working!Activated, Working!Score
  <2> QED BY <1>1, <2>1, <2>2
<1>3. ASSUME s.age + 1 \in DOMAIN Recency PROVE Working!Aged(s) \in Working!Score
  BY <1>3 DEF Working!Aged, Working!Score
<1> QED BY <1>1, <1>2, <1>3

LEMMA NewScores ==
  ASSUME Working!WorkingSetAssumption, NEW c \in Confidence \cup {80}
  PROVE  Working!New(c) \in Working!Score
<1>1. c \in Nat /\ 10 * c \in Nat
  BY DEF Working!WorkingSetAssumption
<1> QED BY <1>1 DEF Working!WorkingSetAssumption, Working!New, Working!Score

(* A table to which something is added, or of which something is activated. *)
LEMMA AddedKeeps ==
  ASSUME Working!WorkingSetAssumption, NEW S, NEW table \in [S -> Working!Score \cup {None}],
         NEW item \in S, NEW c \in Confidence, table[item] # None => Working!Activable(table[item])
  PROVE  /\ Working!Added(table, item, c) \in [S -> Working!Score \cup {None}]
         /\ \A other \in S : table[other] # None => Working!Added(table, item, c)[other] # None
<1>1. None \notin Working!Score
  BY DEF Working!WorkingSetAssumption
<1>2. Working!New(c) \in Working!Score
  BY NewScores
<1>3. table[item] # None => Working!Activated(table[item]) \in Working!Score
  BY ScoresStay
<1> QED BY <1>1, <1>2, <1>3 DEF Working!Added

LEMMA PrunedKeeps ==
  ASSUME Working!WorkingSetAssumption, NEW S, NEW table \in [S -> Working!Score \cup {None}], NEW threshold
  PROVE  Working!Pruned(table, threshold) \in [S -> Working!Score \cup {None}]
<1>1. \A item \in S : table[item] # None => Working!Recomputed(table[item]) \in Working!Score
  BY ScoresStay
<1> QED BY <1>1 DEF Working!Pruned

LEMMA TopicsTurn ==
  ASSUME Working!WorkingSetAssumption, NEW topic \in Working!Topic, NEW threshold
  PROVE  /\ Working!Turned(topic, threshold) \in Working!Topic \cup {None}
         /\ Working!Turned(topic, threshold) = None => topic.status = "resolved"
         /\ Working!Turned(topic, threshold) # None /\ Working!Turned(topic, threshold).status = "active"
               => topic.status = "active"
<1>1. topic.score \in Working!Score /\ topic.status \in {"active", "dormant", "resolved"}
  BY DEF Working!Topic
<1> DEFINE score == Working!Recomputed(topic.score)
           status == IF topic.status = "active" /\ Recency[score.age] < 30 THEN "dormant" ELSE topic.status
<1>2. score \in Working!Score /\ status \in {"active", "dormant", "resolved"}
  BY <1>1, ScoresStay
<1>3. [score |-> score, status |-> status] \in Working!Topic
  BY <1>2 DEF Working!Topic
<1>4. Working!Turned(topic, threshold) =
        IF status = "resolved" /\ score.combined < threshold THEN None
        ELSE [score |-> score, status |-> status]
  BY DEF Working!Turned
<1>5. None # [score |-> score, status |-> status]
  BY <1>3 DEF Working!WorkingSetAssumption
<1> HIDE DEF score
<1> QED BY <1>1, <1>3, <1>4, <1>5

(* Whatever goes, goes at the end of a turn.                               *)
NothingGoes ==
    /\ \A n \in PgNode : active[n] # None => active'[n] # None
    /\ \A r \in DOMAIN PgEnds : weighed[r] # None => weighed'[r] # None
    /\ \A h \in Thread : threads[h] # None =>
           threads'[h] # None /\ (threads'[h].status = "active" => threads[h].status = "active")

LEMMA ItemsComeKeeps ==
  ASSUME Working!WorkingSetAssumption, Working!TypeOK,
         \/ \E c \in Confidence :
               \/ \E n \in PgNode : Working!AddNode(n, c)
               \/ \E r \in DOMAIN PgEnds : Working!AddTriple(r, c)
         \/ \E S \in SUBSET PgNode : Working!ActivateNodes(S)
  PROVE  Working!TypeOK' /\ NothingGoes
<1> USE DEF Working!TypeOK, Working!Triple
<1>1. ASSUME NEW c \in Confidence, NEW n \in PgNode, Working!AddNode(n, c)
      PROVE  Working!TypeOK' /\ NothingGoes
  <2>1. active[n] # None => Working!Activable(active[n])
    BY <1>1 DEF Working!AddNode
  <2>2. active' = Working!Added(active, n, c) /\ UNCHANGED <<weighed, threads>>
    BY <1>1 DEF Working!AddNode
  <2> QED BY <2>1, <2>2, AddedKeeps DEF NothingGoes
<1>2. ASSUME NEW c \in Confidence, NEW r \in DOMAIN PgEnds, Working!AddTriple(r, c)
      PROVE  Working!TypeOK' /\ NothingGoes
  <2>1. weighed[r] # None => Working!Activable(weighed[r])
    BY <1>2 DEF Working!AddTriple
  <2>2. weighed' = Working!Added(weighed, r, c) /\ UNCHANGED <<active, threads>>
    BY <1>2 DEF Working!AddTriple
  <2> QED BY <2>1, <2>2, AddedKeeps DEF NothingGoes
<1>3. ASSUME NEW S \in SUBSET PgNode, Working!ActivateNodes(S)
      PROVE  Working!TypeOK' /\ NothingGoes
  <2>1. /\ active' = [n \in PgNode |-> IF n \in S \cap Working!Present(active) THEN Working!Activated(active[n])
                                       ELSE active[n]]
        /\ UNCHANGED <<weighed, threads>>
        /\ \A n \in S \cap Working!Present(active) : Working!Activable(active[n])
    BY <1>3 DEF Working!ActivateNodes
  <2>2. ASSUME NEW n \in S \cap Working!Present(active)
        PROVE  Working!Activated(active[n]) \in Working!Score
    <3>1. active[n] \in Working!Score
      BY DEF Working!Present
    <3> QED BY <2>1, <3>1, ScoresStay
  <2>3. None \notin Working!Score
    BY DEF Working!WorkingSetAssumption
  <2> QED BY <2>1, <2>2, <2>3 DEF NothingGoes
<1> QED BY <1>1, <1>2, <1>3

LEMMA ThreadsAndTimeKeep ==
  ASSUME Working!WorkingSetAssumption, Working!TypeOK,
         (\E h \in Thread : Working!AddThread(h) \/ Working!ResolveThread(h)) \/ Working!Tick
  PROVE  Working!TypeOK' /\ NothingGoes
<1> USE DEF Working!TypeOK, Working!Triple
<1>0. None \notin Working!Score /\ None \notin Working!Topic
  BY DEF Working!WorkingSetAssumption
<1>1. ASSUME NEW h \in Thread, Working!AddThread(h)
      PROVE  Working!TypeOK' /\ NothingGoes
  <2> DEFINE topic == [score |-> Working!New(80), status |-> "active"]
  <2>1. topic \in Working!Topic
    BY NewScores DEF Working!Topic
  <2>2. threads[h] = None /\ threads' = [threads EXCEPT ![h] = topic] /\ UNCHANGED <<active, weighed>>
    BY <1>1 DEF Working!AddThread
  <2> HIDE DEF topic
  <2> QED BY <1>0, <2>1, <2>2 DEF NothingGoes
<1>2. ASSUME NEW h \in Thread, Working!ResolveThread(h)
      PROVE  Working!TypeOK' /\ NothingGoes
  <2> DEFINE topic == [threads[h] EXCEPT !.status = "resolved"]
  <2>1. threads[h] \in Working!Topic /\ UNCHANGED <<active, weighed>>
    BY <1>2 DEF Working!ResolveThread
  <2>2. topic \in Working!Topic /\ topic.status = "resolved"
    BY <2>1 DEF Working!Topic
  <2>3. threads' = [threads EXCEPT ![h] = topic]
    BY <1>2 DEF Working!ResolveThread
  <2> HIDE DEF topic
  <2> QED BY <1>0, <2>1, <2>2, <2>3 DEF NothingGoes
<1>3. ASSUME Working!Tick
      PROVE  Working!TypeOK' /\ NothingGoes
  <2> DEFINE aged(h) == [threads[h] EXCEPT !.score = Working!Aged(threads[h].score)]
  <2>1. /\ \A n \in PgNode : active[n] # None => active[n].age + 1 \in DOMAIN Recency
        /\ \A r \in DOMAIN PgEnds : weighed[r] # None => weighed[r].age + 1 \in DOMAIN Recency
        /\ \A h \in Thread : threads[h] # None => threads[h].score.age + 1 \in DOMAIN Recency
    BY <1>3 DEF Working!Tick, Working!Present
  <2>2. /\ active' = [n \in PgNode |-> IF active[n] = None THEN None ELSE Working!Aged(active[n])]
        /\ weighed' = [r \in DOMAIN PgEnds |-> IF weighed[r] = None THEN None ELSE Working!Aged(weighed[r])]
        /\ threads' = [h \in Thread |-> IF threads[h] = None THEN None ELSE aged(h)]
    BY <1>3 DEF Working!Tick
  <2>3. /\ \A n \in PgNode : active[n] # None => Working!Aged(active[n]) \in Working!Score
        /\ \A r \in DOMAIN PgEnds : weighed[r] # None => Working!Aged(weighed[r]) \in Working!Score
    BY <2>1, ScoresStay
  <2>4. ASSUME NEW h \in Thread, threads[h] # None
        PROVE  aged(h) \in Working!Topic /\ aged(h).status = threads[h].status
    <3>1. threads[h] \in Working!Topic /\ threads[h].score \in Working!Score
      BY <2>4 DEF Working!Topic
    <3>2. Working!Aged(threads[h].score) \in Working!Score
      BY <2>1, <2>4, <3>1, ScoresStay
    <3> QED BY <3>1, <3>2 DEF Working!Topic
  <2> HIDE DEF aged
  <2>5. /\ active' \in [PgNode -> Working!Score \cup {None}]
        /\ \A n \in PgNode : active[n] # None => active'[n] # None
    BY <1>0, <2>2, <2>3
  <2>6. /\ weighed' \in [DOMAIN PgEnds -> Working!Score \cup {None}]
        /\ \A r \in DOMAIN PgEnds : weighed[r] # None => weighed'[r] # None
    BY <1>0, <2>2, <2>3
  <2>7. /\ threads' \in [Thread -> Working!Topic \cup {None}]
        /\ \A h \in Thread : threads[h] # None =>
              threads'[h] # None /\ (threads'[h].status = "active" => threads[h].status = "active")
    BY <1>0, <2>2, <2>4
  <2> QED BY <2>5, <2>6, <2>7 DEF NothingGoes
<1> QED BY <1>1, <1>2, <1>3

LEMMA TurnKeeps ==
  ASSUME Working!WorkingSetAssumption, Working!TypeOK, NEW threshold \in PruneThreshold,
         Working!UpdateTurn(threshold)
  PROVE  /\ Working!TypeOK'
         /\ \A h \in Thread : threads[h] # None =>
               /\ threads'[h] = None => threads[h].status = "resolved"
               /\ threads'[h] # None /\ threads'[h].status = "active" => threads[h].status = "active"
<1> USE DEF Working!TypeOK, Working!Triple
<1>1. /\ active' \in [PgNode -> Working!Score \cup {None}]
      /\ weighed' \in [DOMAIN PgEnds -> Working!Score \cup {None}]
  BY PrunedKeeps DEF Working!UpdateTurn
<1>2. threads' = [h \in Thread |-> IF threads[h] = None THEN None ELSE Working!Turned(threads[h], threshold)]
  BY DEF Working!UpdateTurn
<1>3. ASSUME NEW h \in Thread, threads[h] # None
      PROVE  /\ threads'[h] \in Working!Topic \cup {None}
             /\ threads'[h] = None => threads[h].status = "resolved"
             /\ threads'[h] # None /\ threads'[h].status = "active" => threads[h].status = "active"
  BY <1>2, <1>3, TopicsTurn
<1>4. threads' \in [Thread -> Working!Topic \cup {None}]
  BY <1>2, <1>3
<1> QED BY <1>1, <1>3, <1>4

(* WorkingTyped: however items are added, activated and let go, a score    *)
(* has an age and a count the tables know.                                 *)
(* context/working_set.rs: WorkingSet                                      *)
THEOREM WorkingTyped ==
  ASSUME Working!WorkingSetAssumption
  PROVE  Working!Spec => []Working!TypeOK
<1>1. Working!Init => Working!TypeOK
  BY DEF Working!Init, Working!TypeOK
<1>2. Working!TypeOK /\ [Working!Next]_Working!vars => Working!TypeOK'
  <2> SUFFICES ASSUME Working!TypeOK, [Working!Next]_Working!vars
               PROVE  Working!TypeOK'
    OBVIOUS
  <2>1. CASE UNCHANGED Working!vars
    BY <2>1 DEF Working!vars, Working!TypeOK
  <2>2. CASE Working!Next
    BY <2>2, ItemsComeKeeps, ThreadsAndTimeKeep, TurnKeeps DEF Working!Next, Working!Triple
  <2> QED BY <2>1, <2>2
<1> QED BY <1>1, <1>2, PTL DEF Working!Spec

(* What outweighs something that stays has as high a score recomputed.     *)
LEMMA OutweighingStays ==
  ASSUME Working!WorkingSetAssumption, NEW S, NEW table \in [S -> Working!Score \cup {None}],
         NEW threshold \in PruneThreshold, PruneThreshold \subseteq Nat
  PROVE  Working!WeakestStay(table, Working!Pruned(table, threshold))
<1> DEFINE later == Working!Pruned(table, threshold)
<1>1. SUFFICES ASSUME NEW a \in S, NEW b \in S, table[a] # None, table[b] # None,
                      later[a] = None, later[b] # None, Working!Outweighs(table[a], table[b])
               PROVE  FALSE
  BY DEF Working!WeakestStay, Working!Present
<1>2. table[a] \in Working!Score /\ table[b] \in Working!Score
  BY <1>1
<1>3. /\ Working!Recomputed(table[a]) # None
      /\ Working!Recomputed(table[a]).combined < threshold
      /\ ~(Working!Recomputed(table[b]).combined < threshold)
  BY <1>1, <1>2, ScoresStay DEF Working!Pruned, Working!WorkingSetAssumption
<1> DEFINE high == table[a]
           low == table[b]
<1>4. /\ high.confidence >= low.confidence /\ high.age <= low.age /\ high.count >= low.count
      /\ {high.confidence, low.confidence} \subseteq Nat
      /\ {high.age, low.age} \subseteq DOMAIN Recency /\ {high.count, low.count} \subseteq DOMAIN Activation
      /\ {Recency[high.age], Recency[low.age], Activation[high.count], Activation[low.count]} \subseteq Nat
  BY <1>1, <1>2 DEF Working!Outweighs, Working!Score, Working!WorkingSetAssumption
<1>5. Recency[high.age] >= Recency[low.age] /\ Activation[high.count] >= Activation[low.count]
  BY <1>4 DEF Working!WorkingSetAssumption
<1>6. /\ Working!Recomputed(high).combined = 5 * high.confidence + 3 * Recency[high.age] + 2 * Activation[high.count]
      /\ Working!Recomputed(low).combined = 5 * low.confidence + 3 * Recency[low.age] + 2 * Activation[low.count]
  BY <1>2, ScoresStay
<1> HIDE DEF high, low
<1>7. 5 * high.confidence + 3 * Recency[high.age] + 2 * Activation[high.count]
        >= 5 * low.confidence + 3 * Recency[low.age] + 2 * Activation[low.count]
  BY <1>4, <1>5
<1>8. threshold \in Nat
  OBVIOUS
<1> QED BY <1>3, <1>4, <1>6, <1>7, <1>8 DEF high, low

(* WeakestLeave: a turn lets nothing go that is at least as sure, as fresh *)
(* and as often named as something of its kind that stays.                 *)
(* context/working_set.rs: WorkingSet::update_turn                         *)
THEOREM WeakestLeave == Spec => WeakestGo
<1> DEFINE Turning ==
      /\ Working!WeakestStay(active, active') /\ Working!WeakestStay(weighed, weighed')
      /\ \A h \in Working!Present(threads) :
             /\ threads'[h] = None => threads[h].status = "resolved"
             /\ threads'[h] # None /\ threads'[h].status = "active" => threads[h].status = "active"
<1> USE LibraryAssumption
<1>1. ASSUME Working!TypeOK, Working!Next PROVE Turning
  <2> USE DEF Working!TypeOK, Working!Triple
  <2>1. CASE \E threshold \in PruneThreshold : Working!UpdateTurn(threshold)
    <3>1. PICK threshold \in PruneThreshold : Working!UpdateTurn(threshold)
      BY <2>1
    <3>2. PruneThreshold \subseteq Nat
      BY <1>1 DEF Working!WorkingSetAssumption
    <3>3. Working!WeakestStay(active, active') /\ Working!WeakestStay(weighed, weighed')
      BY <1>1, <3>1, <3>2, OutweighingStays DEF Working!UpdateTurn
    <3> QED BY <1>1, <3>1, <3>3, TurnKeeps DEF Working!Present
  <2>2. CASE NothingGoes
    BY <1>1, <2>2 DEF NothingGoes, Working!WeakestStay, Working!Present
  <2> QED BY <1>1, <2>1, <2>2, ItemsComeKeeps, ThreadsAndTimeKeep DEF Working!Next
<1>2. Working!TypeOK /\ [Working!Next]_Working!vars => [Turning]_Working!vars
  BY <1>1
<1>3. Spec => []Working!TypeOK /\ [][Working!Next]_Working!vars
  BY PartsRun, WorkingTyped, PTL DEF Working!Spec
<1> HIDE DEF Turning
<1>4. Spec => [][Turning]_Working!vars
  BY <1>2, <1>3, PTL
<1>5. [][Turning]_Working!vars => WeakestGo
  BY DEF Turning, WeakestGo, Working!WeakestGo
<1> QED BY <1>4, <1>5

-----------------------------------------------------------------------------
(* Finite sets of numbers have a first and a last one.                     *)

LEMMA SmallestPart ==
  ASSUME NEW S, IsFiniteSet(S), NEW T, T # {}, \A U \in T : U \subseteq S
  PROVE  \E U \in T : \A V \in T : V \subseteq U => V = U
<1>1. IsWellFoundedOn(StrictSubsetOrdering(S), FiniteSubsetsOf(S))
  BY FS_StrictSubsetOrderingWellFounded
<1>2. T \subseteq FiniteSubsetsOf(S)
  <2>1. FiniteSubsetsOf(S) = SUBSET S
    BY FS_FiniteSubsetsOfFinite
  <2> QED BY <2>1
<1>3. PICK U \in T : \A V \in T : ~(<<V, U>> \in StrictSubsetOrdering(S))
  BY <1>1, <1>2, WFMin
<1>4. ASSUME NEW V \in T, V \subseteq U, V # U PROVE FALSE
  <2>1. <<V, U>> \in StrictSubsetOrdering(S)
    BY <1>4 DEF StrictSubsetOrdering
  <2> QED BY <1>3, <2>1
<1> QED BY <1>4

LEMMA FirstNumber ==
  ASSUME NEW S \in SUBSET Nat, IsFiniteSet(S), S # {}
  PROVE  \E k \in S : \A j \in S : k <= j
<1> DEFINE Below(k) == {j \in S : j < k}
           T == {Below(k) : k \in S}
<1>1. PICK U \in T : \A V \in T : V \subseteq U => V = U
  <2>1. T # {} /\ \A U \in T : U \subseteq S
    OBVIOUS
  <2> HIDE DEF T
  <2> QED BY <2>1, SmallestPart
<1>2. PICK k \in S : U = Below(k)
  OBVIOUS
<1>3. ASSUME NEW j \in S, j < k PROVE FALSE
  <2>1. \A m \in S : m < j => m < k
    BY <1>3
  <2>2. Below(j) \subseteq Below(k)
    BY <2>1
  <2>4. j \in Below(k) /\ j \notin Below(j)
    BY <1>3
  <2>3. Below(j) \in T
    BY <1>3
  <2> HIDE DEF Below
  <2> QED BY <1>1, <1>2, <2>2, <2>3, <2>4, <2>4
<1> QED BY <1>3

LEMMA OneMore ==
  ASSUME NEW S, IsFiniteSet(S), NEW e
  PROVE  /\ IsFiniteSet(S \cup {e}) /\ Cardinality(S) \in Nat /\ Cardinality(S \cup {e}) \in Nat
         /\ Cardinality(S) <= Cardinality(S \cup {e}) /\ Cardinality(S \cup {e}) <= Cardinality(S) + 1
<1>1. IsFiniteSet(S \cup {e}) /\ Cardinality(S \cup {e}) = IF e \in S THEN Cardinality(S) ELSE Cardinality(S) + 1
  BY FS_AddElement
<1>2. Cardinality(S) \in Nat
  BY FS_CardinalityType
<1> QED BY <1>1, <1>2

LEMMA PartOf ==
  ASSUME NEW S, IsFiniteSet(S), NEW T, T \subseteq S
  PROVE  /\ IsFiniteSet(T) /\ Cardinality(T) \in Nat /\ Cardinality(S) \in Nat
         /\ Cardinality(T) <= Cardinality(S) /\ (Cardinality(T) = Cardinality(S) => T = S)
<1>1. T \in SUBSET S
  OBVIOUS
<1>2. /\ IsFiniteSet(T) /\ Cardinality(T) <= Cardinality(S)
      /\ Cardinality(S) = Cardinality(T) => S = T
  BY <1>1, FS_Subset
<1> QED BY <1>2, FS_CardinalityType

LEMMA FirstNumbers ==
  ASSUME NEW n \in Nat
  PROVE  IsFiniteSet(1..n) /\ Cardinality(1..n) = n
<1>1. 1 \in Int /\ n \in Int /\ (1 > n => n = 0) /\ n - 1 + 1 = n
  OBVIOUS
<1>2. IsFiniteSet(1..n) /\ Cardinality(1..n) = IF 1 > n THEN 0 ELSE n - 1 + 1
  BY <1>1, FS_Interval
<1> QED BY <1>1, <1>2

-----------------------------------------------------------------------------
(* Working: the choice of the assembler.                                   *)

(* There are at most two nodes for each triple.                            *)
LEMMA NamedFew ==
  ASSUME Working!WorkingSetAssumption, NEW last \in Nat, NEW s \in [1..last -> DOMAIN PgEnds], NEW n \in Nat
  PROVE  IsFiniteSet(Working!Named(s, n)) /\ Cardinality(Working!Named(s, n)) <= 2 * n
<1> DEFINE places == Working!Listed(s, n)
           pairs == places \X (1..2)
           end == [p \in pairs |-> PgEnds[s[p[1]]][p[2]]]
<1>1. places \subseteq 1..n /\ places \subseteq 1..last
  BY DEF Working!Listed
<1>2. IsFiniteSet(places) /\ Cardinality(places) \in Nat /\ Cardinality(places) <= n
  BY <1>1, FirstNumbers, PartOf
<1>3. IsFiniteSet(1..2) /\ Cardinality(1..2) = 2
  BY FirstNumbers
<1>4. IsFiniteSet(pairs) /\ Cardinality(pairs) = Cardinality(places) * 2
  BY <1>2, <1>3, FS_Product
<1>5. end \in Surjection(pairs, Working!Named(s, n))
  <2>1. ASSUME NEW p \in pairs PROVE end[p] \in Working!Named(s, n)
    <3>1. p[1] \in places /\ p[2] \in 1..2 /\ end[p] = PgEnds[s[p[1]]][p[2]]
      OBVIOUS
    <3>2. p[2] = 1 \/ p[2] = 2
      BY <3>1
    <3> QED BY <3>1, <3>2 DEF Working!Named
  <2>2. ASSUME NEW m \in Working!Named(s, n) PROVE \E p \in pairs : end[p] = m
    <3>1. PICK i \in places : m \in {PgEnds[s[i]][1], PgEnds[s[i]][2]}
      BY DEF Working!Named
    <3>2. CASE m = PgEnds[s[i]][1]
      <4>1. <<i, 1>> \in pairs /\ end[<<i, 1>>] = m
        BY <3>2
      <4> QED BY <4>1
    <3>3. CASE m = PgEnds[s[i]][2]
      <4>1. <<i, 2>> \in pairs /\ end[<<i, 2>>] = m
        BY <3>3
      <4> QED BY <4>1
    <3> QED BY <3>1, <3>2, <3>3
  <2> HIDE DEF end, pairs
  <2>3. end \in [pairs -> Working!Named(s, n)]
    BY <2>1 DEF end
  <2> QED BY <2>2, <2>3 DEF Surjection
<1> HIDE DEF places, pairs, end
<1>6. IsFiniteSet(Working!Named(s, n)) /\ Cardinality(Working!Named(s, n)) <= Cardinality(pairs)
  BY <1>4, <1>5, FS_Surjection
<1>7. Cardinality(Working!Named(s, n)) \in Nat
  BY <1>6, FS_CardinalityType
<1> QED BY <1>2, <1>4, <1>6, <1>7

(* With room for two nodes per triple, all are taken.                      *)
LEMMA NodesFit ==
  ASSUME Working!WorkingSetAssumption, NEW last \in Nat, NEW s \in [1..last -> DOMAIN PgEnds],
         NEW most \in Nat, NEW q, NEW maxNodes \in Nat, maxNodes >= 2 * most
  PROVE  /\ Working!Named(s, most) \subseteq Working!NodesOf(s, most, q, maxNodes)
         /\ Cardinality(Working!NodesOf(s, most, q, maxNodes)) <= maxNodes
         /\ maxNodes > 2 * most => q \in Working!NodesOf(s, most, q, maxNodes)
<1> DEFINE taken == {i \in Working!Listed(s, most) : i = 1 \/ Cardinality(Working!Named(s, i - 1)) < maxNodes}
           chosen == UNION {{PgEnds[s[i]][1], PgEnds[s[i]][2]} : i \in taken}
<1>1. Working!NodesOf(s, most, q, maxNodes) =
        IF Cardinality(chosen) < maxNodes THEN chosen \cup {q} ELSE chosen
  BY DEF Working!NodesOf, Working!Cardinality, Cardinality
<1>2. chosen = Working!Named(s, most)
  <2>1. ASSUME NEW i \in Working!Listed(s, most) PROVE i \in taken
    <3>1. i \in 1..last /\ i <= most /\ i - 1 \in Nat
      BY DEF Working!Listed
    <3>2. Cardinality(Working!Named(s, i - 1)) \in Nat /\ Cardinality(Working!Named(s, i - 1)) <= 2 * (i - 1)
      BY <3>1, NamedFew, FS_CardinalityType
    <3> QED BY <3>1, <3>2
  <2> QED BY <2>1 DEF Working!Named
<1>3. IsFiniteSet(chosen) /\ Cardinality(chosen) \in Nat /\ Cardinality(chosen) <= 2 * most
  BY <1>2, NamedFew, FS_CardinalityType
<1> HIDE DEF chosen
<1>4. Cardinality(chosen \cup {q}) \in Nat /\ Cardinality(chosen \cup {q}) <= Cardinality(chosen) + 1
  BY <1>3, OneMore
<1> QED BY <1>1, <1>2, <1>3, <1>4

LEMMA OrdersRank ==
  ASSUME Working!WorkingSetAssumption, Working!TypeOK, NEW s \in Working!Orders
  PROVE  \E last \in Nat :
            /\ s \in [1..last -> DOMAIN PgEnds] /\ s \in [1..last -> Working!Present(weighed)]
            /\ \A r \in Working!Present(weighed) : \E i \in 1..last : s[i] = r
<1> DEFINE present == Working!Present(weighed)
           last == Cardinality(present)
<1>1. present \subseteq DOMAIN PgEnds /\ IsFiniteSet(DOMAIN PgEnds)
  BY DEF Working!Present, Working!TypeOK, Working!Triple, Working!WorkingSetAssumption, Working!IsFiniteSet, IsFiniteSet
<1> HIDE DEF present
<1>2. last \in Nat /\ Working!Cardinality(present) = last
  BY <1>1, PartOf DEF Working!Cardinality, Cardinality
<1>3. /\ s \in [1..last -> present]
      /\ \A r \in present : \E i \in 1..last : s[i] = r
  BY <1>2 DEF Working!Orders, Working!Bijection, Working!Injection, Working!Surjection, present
<1>4. s \in [1..last -> DOMAIN PgEnds]
  BY <1>1, <1>3
<1> QED BY <1>2, <1>3, <1>4 DEF present

LEMMA NearerAndHigher ==
  ASSUME Working!WorkingSetAssumption, Working!TypeOK, NEW q,
         NEW r \in Working!Present(weighed), NEW o \in Working!Present(weighed),
         Working!Proximity(o, q) >= Working!Proximity(r, q), weighed[o].combined > weighed[r].combined
  PROVE  ~(Working!Relevance(r, q) >= Working!Relevance(o, q))
<1>1. Working!Proximity(o, q) \in {1, 2, 4} /\ Working!Proximity(r, q) \in {1, 2, 4}
  BY DEF Working!Proximity
<1>2. weighed[o].combined \in Nat /\ weighed[r].combined \in Nat
  BY DEF Working!TypeOK, Working!Present, Working!Score
<1> DEFINE near == Working!Proximity(o, q)
           far == Working!Proximity(r, q)
           high == weighed[o].combined
           low == weighed[r].combined
<1>3. Working!Relevance(r, q) = far * low /\ Working!Relevance(o, q) = near * high
  BY DEF Working!Relevance
<1> HIDE DEF near, far, high, low
<1>4. near \in {1, 2, 4} /\ far \in {1, 2, 4} /\ near >= far /\ high \in Nat /\ low \in Nat /\ high > low
  BY <1>1, <1>2 DEF near, far, high, low
<1>5. near * high > far * low
  <2>1. CASE far = 1
    <3>1. near = 1 \/ near = 2 \/ near = 4
      BY <1>4
    <3> QED BY <1>4, <2>1, <3>1
  <2>2. CASE far = 2
    <3>1. near = 2 \/ near = 4
      BY <1>4, <2>2
    <3> QED BY <1>4, <2>2, <3>1
  <2>3. CASE far = 4
    <3>1. near = 4
      BY <1>4, <2>3
    <3> QED BY <1>4, <2>3, <3>1
  <2> QED BY <1>4, <2>1, <2>2, <2>3
<1>6. far * low \in Nat /\ near * high \in Nat
  BY <1>4
<1> QED BY <1>3, <1>5, <1>6

LEMMA ContextNames ==
  ASSUME Working!WorkingSetAssumption, Working!TypeOK
  PROVE  Working!ContextCovers
<1> SUFFICES ASSUME NEW q \in Working!Present(active), NEW s \in Working!Ranked(q),
                    NEW most \in MostTriples, NEW maxNodes \in MostNodes
             PROVE  LET listed == {s[i] : i \in Working!Listed(s, most)}
                        named == Working!NodesOf(s, most, q, maxNodes)
                    IN  /\ maxNodes >= 2 * most =>
                              /\ \A n \in PgNode : Working!Degree(s, most, n) > 0 => n \in named
                              /\ Cardinality(named) <= maxNodes
                        /\ maxNodes > 2 * most => q \in named
                        /\ \A r \in listed, o \in Working!Present(weighed) \ listed :
                              ~(Working!Proximity(o, q) >= Working!Proximity(r, q)
                                /\ weighed[o].combined > weighed[r].combined)
  BY DEF Working!ContextCovers, Working!Cardinality, Cardinality
<1> DEFINE listed == {s[i] : i \in Working!Listed(s, most)}
           named == Working!NodesOf(s, most, q, maxNodes)
<1>1. most \in Nat /\ maxNodes \in Nat
  BY DEF Working!WorkingSetAssumption
<1>2. /\ s \in Working!Orders
      /\ \A i, j \in DOMAIN s : i <= j => Working!Relevance(s[i], q) >= Working!Relevance(s[j], q)
  BY DEF Working!Ranked
<1>3. PICK last \in Nat :
        /\ s \in [1..last -> DOMAIN PgEnds] /\ s \in [1..last -> Working!Present(weighed)]
        /\ \A r \in Working!Present(weighed) : \E i \in 1..last : s[i] = r
  BY <1>2, OrdersRank
<1>4. /\ maxNodes >= 2 * most => Working!Named(s, most) \subseteq named /\ Cardinality(named) <= maxNodes
      /\ maxNodes > 2 * most => q \in named
  BY <1>1, <1>3, NodesFit
<1>5. ASSUME NEW n \in PgNode, Working!Degree(s, most, n) > 0
      PROVE  n \in Working!Named(s, most)
  <2> DEFINE from == {i \in Working!Listed(s, most) : PgEnds[s[i]][1] = n}
             to == {i \in Working!Listed(s, most) : PgEnds[s[i]][2] = n}
  <2>1. Working!Degree(s, most, n) = Cardinality(from) + Cardinality(to)
    BY DEF Working!Degree, Working!Cardinality, Cardinality
  <2>2. from # {} \/ to # {}
    <3>1. Cardinality({}) = 0 /\ ~(0 + 0 > 0)
      BY FS_EmptySet
    <3>2. Cardinality(from) + Cardinality(to) > 0
      BY <1>5, <2>1
    <3> HIDE DEF from, to
    <3>3. ASSUME from = {}, to = {} PROVE FALSE
      BY <3>1, <3>2, <3>3
    <3> QED BY <3>3
  <2> QED BY <2>2 DEF Working!Named
<1>6. ASSUME NEW r \in listed, NEW o \in Working!Present(weighed) \ listed,
             Working!Proximity(o, q) >= Working!Proximity(r, q), weighed[o].combined > weighed[r].combined
      PROVE  FALSE
  <2>1. PICK i \in Working!Listed(s, most) : r = s[i]
    OBVIOUS
  <2>2. PICK j \in 1..last : s[j] = o
    BY <1>3
  <2>3. j \notin Working!Listed(s, most)
    BY <2>2
  <2>4. i \in 1..last /\ i <= most /\ ~(j <= most)
    BY <1>3, <2>1, <2>3 DEF Working!Listed
  <2>5. i <= j
    BY <1>1, <2>2, <2>4
  <2>6. Working!Relevance(r, q) >= Working!Relevance(o, q)
    BY <1>2, <1>3, <2>1, <2>2, <2>4, <2>5
  <2>7. r \in Working!Present(weighed)
    BY <1>3, <2>1, <2>4
  <2> QED BY <1>6, <2>6, <2>7, NearerAndHigher
<1> HIDE DEF listed, named
<1> QED BY <1>4, <1>5, <1>6 DEF listed, named

(* ContextsCover: a context with room for two nodes per triple names both  *)
(* ends of every triple it lists and no more nodes than it may, one with   *)
(* more room names the query node too, and none leaves out what stands as  *)
(* close to the query and higher than what it lists.                       *)
(* context/assembler.rs: ContextAssembler::assemble                        *)
THEOREM ContextsCover == Spec => []ContextCovers
<1>1. Working!TypeOK => ContextCovers
  BY LibraryAssumption, ContextNames DEF ContextCovers
<1>2. Spec => []Working!TypeOK
  BY LibraryAssumption, PartsRun, WorkingTyped
<1> QED BY <1>1, <1>2, PTL

-----------------------------------------------------------------------------
(* Feedback: the history and the indexes of the feedback recorder.         *)

LEMMA FeedbackCounts == \A S : Feedback!Cardinality(S) = Cardinality(S)
  BY DEF Feedback!Cardinality, Cardinality

LEMMA OneAtMost ==
  ASSUME NEW S, IsFiniteSet(S), Cardinality(S) <= 1, NEW e \in S, NEW d \in S
  PROVE  d = e
<1>1. /\ IsFiniteSet(S \ {e}) /\ Cardinality(S \ {e}) = Cardinality(S) - 1
      /\ Cardinality(S) \in Nat /\ Cardinality(S \ {e}) \in Nat
  BY FS_RemoveElement, FS_CardinalityType
<1>2. Cardinality(S \ {e}) = 0
  BY <1>1
<1>3. S \ {e} = {}
  BY <1>1, <1>2, FS_EmptySet
<1> QED BY <1>3

LEMMA PlacesFew ==
  ASSUME Feedback!FeedbackRecorderAssumption, Feedback!TypeOK,
         NEW f \in Feedback!Feedback, NEW t, NEW signals
  PROVE  /\ IsFiniteSet(Feedback!Places(f, t, signals))
         /\ Feedback!Times(f, t, signals) = Cardinality(Feedback!Places(f, t, signals))
         /\ Feedback!Times(f, t, signals) \in Nat
<1> DEFINE listed == given[f].triples
<1>1. listed \in Given
  <2>1. given \in Seq([context : Context, triples : Given]) /\ f \in 1..Len(given)
    BY DEF Feedback!TypeOK, Feedback!Feedback
  <2>2. given[f] \in [context : Context, triples : Given]
    BY <2>1, ElementOfSeq
  <2> QED BY <2>2
<1>2. listed \in Seq([triple : DOMAIN PgEnds, signal : Feedback!Signal])
  BY <1>1 DEF Feedback!FeedbackRecorderAssumption
<1>3. DOMAIN listed = 1..Len(listed) /\ Len(listed) \in Nat
  BY <1>2
<1>4. Feedback!Places(f, t, signals) \subseteq 1..Len(listed)
  BY <1>3 DEF Feedback!Places
<1> HIDE DEF listed
<1>5. IsFiniteSet(1..Len(listed))
  BY <1>3, FirstNumbers
<1>6. IsFiniteSet(Feedback!Places(f, t, signals)) /\ Cardinality(Feedback!Places(f, t, signals)) \in Nat
  BY <1>4, <1>5, PartOf
<1> QED BY <1>6, FeedbackCounts DEF Feedback!Times

LEMMA HistoryFinite ==
  ASSUME Feedback!TypeOK, NEW h, h \subseteq Feedback!Feedback
  PROVE  IsFiniteSet(h) /\ Cardinality(h) \in Nat /\ h \in SUBSET Nat
<1>1. Len(given) \in Nat /\ Feedback!Feedback = 1..Len(given)
  BY DEF Feedback!TypeOK, Feedback!Feedback
<1>2. IsFiniteSet(1..Len(given))
  BY <1>1, FirstNumbers
<1>3. IsFiniteSet(h) /\ Cardinality(h) \in Nat
  BY <1>1, <1>2, PartOf
<1> QED BY <1>1, <1>3

(* Pruning takes at least the oldest.                                      *)
LEMMA PrunedFits ==
  ASSUME Feedback!FeedbackRecorderAssumption,
         NEW h \in SUBSET Nat, IsFiniteSet(h), Cardinality(h) <= MaxHistory + 1
  PROVE  /\ Feedback!Pruned(h) \subseteq h
         /\ Cardinality(Feedback!Pruned(h)) <= MaxHistory
<1>1. MaxHistory \in Nat /\ PruneShare \in 1..MaxHistory + 1 /\ Cardinality(h) \in Nat
  BY FS_CardinalityType DEF Feedback!FeedbackRecorderAssumption
<1>2. CASE ~(Cardinality(h) > MaxHistory)
  BY <1>1, <1>2, FeedbackCounts DEF Feedback!Pruned
<1>3. CASE Cardinality(h) > MaxHistory
  <2> DEFINE leave == Cardinality(h) \div PruneShare
             old == Feedback!Oldest(h, leave)
  <2>1. Feedback!Pruned(h) = h \ old /\ Cardinality(h) = MaxHistory + 1
    BY <1>1, <1>3, FeedbackCounts DEF Feedback!Pruned
  <2>2. leave \in Nat /\ leave > 0
    BY <1>1, <2>1
  <2>3. h # {}
    BY <1>1, <1>3, FS_EmptySet
  <2>4. PICK k \in h : \A j \in h : k <= j
    BY <2>3, FirstNumber
  <2>5. {g \in h : g < k} = {}
    <3>1. \A g \in h : ~(g < k)
      BY <2>4
    <3> QED BY <3>1
  <2> HIDE DEF leave
  <2>6. Cardinality({g \in h : g < k}) < leave
    BY <2>2, <2>5, FS_EmptySet
  <2>7. k \in old
    BY <2>4, <2>6, FeedbackCounts DEF Feedback!Oldest
  <2> HIDE DEF old
  <2>8. /\ IsFiniteSet(h \ {k}) /\ Cardinality(h \ {k}) = MaxHistory
        /\ h \ old \subseteq h \ {k}
    BY <1>1, <2>1, <2>4, <2>7, FS_RemoveElement
  <2>9. Cardinality(h \ old) <= MaxHistory
    BY <2>8, PartOf
  <2> QED BY <2>1, <2>9
<1> QED BY <1>2, <1>3

(* A feedback that is in an index gets no second place there.              *)
LEMMA PushedMore ==
  ASSUME NEW S, NEW ids \in Seq(S), NEW f \in S, NEW tail \in Seq({f}),
         \A i \in DOMAIN ids : ids[i] # f
  PROVE  LET more == ids \o tail IN
         /\ more \in Seq(S)
         /\ \A i \in DOMAIN more : more[i] = f \/ (i \in DOMAIN ids /\ more[i] = ids[i])
         /\ Cardinality(Feedback!Holding(f, more)) = Len(tail)
         /\ \A g \in S : g # f => Feedback!Holding(g, more) = Feedback!Holding(g, ids)
<1> DEFINE more == ids \o tail
           last == Len(ids)
           n == Len(tail)
<1>1. tail \in Seq(S) /\ n \in Nat /\ \A i \in 1..n : tail[i] = f
  OBVIOUS
<1>2. last \in Nat /\ DOMAIN ids = 1..last
  OBVIOUS
<1>3. /\ more \in Seq(S) /\ Len(more) = last + n
      /\ \A i \in 1..last + n : more[i] = IF i <= last THEN ids[i] ELSE tail[i - last]
  BY <1>1, ConcatProperties
<1>4. DOMAIN more = 1..last + n
  BY <1>3
<1> HIDE DEF more
<1>5. ASSUME NEW i \in DOMAIN more
      PROVE  (i \in 1..last /\ more[i] = ids[i]) \/ (i \in last + 1..last + n /\ more[i] = f)
  <2>1. CASE i <= last
    BY <1>2, <1>3, <1>4, <2>1
  <2>2. CASE ~(i <= last)
    <3>1. i - last \in 1..n /\ i \in last + 1..last + n
      BY <1>2, <1>4, <2>2
    <3> QED BY <1>1, <1>3, <1>4, <2>2, <3>1
  <2> QED BY <2>1, <2>2
<1>6. Feedback!Holding(f, more) = last + 1..last + n
  <2>1. ASSUME NEW i \in last + 1..last + n PROVE i \in DOMAIN more /\ more[i] = f
    <3>1. i \in DOMAIN more /\ ~(i \in 1..last)
      BY <1>2, <1>4
    <3> QED BY <1>5, <3>1
  <2>2. ASSUME NEW i \in DOMAIN more, more[i] = f PROVE i \in last + 1..last + n
    BY <1>2, <1>5, <2>2
  <2> QED BY <2>1, <2>2 DEF Feedback!Holding
<1>7. Cardinality(last + 1..last + n) = n
  <2>1. last + 1 \in Int /\ last + n \in Int
    BY <1>2
  <2>2. Cardinality(last + 1..last + n) = IF last + 1 > last + n THEN 0 ELSE (last + n) - (last + 1) + 1
    BY <2>1, FS_Interval
  <2> QED BY <1>2, <2>2
<1>8. ASSUME NEW g \in S, g # f PROVE Feedback!Holding(g, more) = Feedback!Holding(g, ids)
  <2>1. \A i \in DOMAIN more : more[i] = g => i \in DOMAIN ids /\ ids[i] = g
    BY <1>2, <1>5, <1>8
  <2>2. \A i \in DOMAIN ids : ids[i] = g => i \in DOMAIN more /\ more[i] = g
    BY <1>2, <1>3, <1>4
  <2> QED BY <2>1, <2>2 DEF Feedback!Holding
<1>9. \A i \in DOMAIN more : more[i] = f \/ (i \in DOMAIN ids /\ more[i] = ids[i])
  BY <1>2, <1>5
<1> QED BY <1>3, <1>6, <1>7, <1>8, <1>9 DEF more

(* What is in the history has been submitted and stored, and fits it.      *)
HistoryFits ==
    /\ \A f \in history : stage[f] # "submitted"
    /\ Cardinality(history) <= MaxHistory

(* A context has each feedback that has reached its index once, no other.  *)
OnceInContext ==
    /\ \A c \in Context : \A i \in DOMAIN contextIndex[c] :
           /\ given[contextIndex[c][i]].context = c
           /\ stage[contextIndex[c][i]] \in {"found", "done"}
    /\ \A f \in Feedback!Feedback : stage[f] \in {"found", "done"} =>
           Cardinality(Feedback!Holding(f, contextIndex[given[f].context])) = 1

(* A triple has each feedback that is done as often as it lists it.        *)
AsOftenInTriples ==
    /\ \A t \in DOMAIN PgEnds : \A i \in DOMAIN tripleIndex[t] : stage[tripleIndex[t][i]] = "done"
    /\ \A f \in Feedback!Feedback, t \in DOMAIN PgEnds : stage[f] = "done" =>
           Cardinality(Feedback!Holding(f, tripleIndex[t])) = Feedback!Times(f, t, Feedback!Signal)

RecordsFit == Feedback!TypeOK /\ HistoryFits /\ OnceInContext /\ AsOftenInTriples

LEMMA Lengthened ==
  ASSUME NEW S, NEW s \in Seq(S), NEW e \in S
  PROVE  /\ Append(s, e) \in Seq(S) /\ DOMAIN Append(s, e) = 1..Len(s) + 1
         /\ Append(s, e) \in [1..Len(s) + 1 -> S]
         /\ \A i \in 1..Len(s) : Append(s, e)[i] = s[i]
         /\ Append(s, e)[Len(s) + 1] = e
<1> DEFINE more == Append(s, e)
<1>1. more \in Seq(S) /\ Len(more) = Len(s) + 1 /\ Len(s) \in Nat
  OBVIOUS
<1>2. (\A i \in 1..Len(s) : more[i] = s[i]) /\ more[Len(s) + 1] = e
  OBVIOUS
<1> HIDE DEF more
<1>3. more \in [1..Len(more) -> S] /\ DOMAIN more = 1..Len(more)
  BY <1>1, LenProperties
<1> QED BY <1>1, <1>2, <1>3 DEF more

LEMMA Entries ==
  ASSUME NEW S, NEW T, NEW table \in [T -> Seq(S)]
  PROVE  \A k \in T : \A i \in DOMAIN table[k] : table[k][i] \in S
<1>1. ASSUME NEW ids \in Seq(S), NEW i \in DOMAIN ids PROVE ids[i] \in S
  OBVIOUS
<1>2. \A k \in T : table[k] \in Seq(S)
  OBVIOUS
<1> QED BY <1>1, <1>2

LEMMA SubmitKeeps ==
  ASSUME Feedback!FeedbackRecorderAssumption, RecordsFit, Feedback!Submit
  PROVE  RecordsFit'
<1> USE DEF RecordsFit, Feedback!Feedback
<1>1. PICK c \in Context, l \in Given : given' = Append(given, [context |-> c, triples |-> l])
  BY DEF Feedback!Submit
<1>2. stage' = Append(stage, "submitted") /\ UNCHANGED <<history, contextIndex, tripleIndex>>
  BY DEF Feedback!Submit
<1> DEFINE last == Len(given)
<1>3. /\ given \in Seq([context : Context, triples : Given]) /\ last \in Nat /\ DOMAIN given = 1..last
      /\ stage \in [1..last -> {"submitted", "stored", "found", "done"}]
  BY DEF Feedback!TypeOK
<1>4. [context |-> c, triples |-> l] \in [context : Context, triples : Given]
  OBVIOUS
<1>5. /\ given' \in Seq([context : Context, triples : Given]) /\ DOMAIN given' = 1..last + 1
      /\ \A f \in 1..last : given'[f] = given[f]
  BY <1>1, <1>3, <1>4
<1>6. /\ stage' \in [1..last + 1 -> {"submitted", "stored", "found", "done"}]
      /\ \A f \in 1..last : stage'[f] = stage[f]
      /\ stage'[last + 1] = "submitted"
  <2> DEFINE Stages == {"submitted", "stored", "found", "done"}
  <2>1. stage \in Seq(Stages) /\ Len(stage) = last /\ "submitted" \in Stages
    BY <1>3
  <2> HIDE DEF Stages
  <2>2. /\ Append(stage, "submitted") \in [1..last + 1 -> Stages]
        /\ \A f \in 1..last : Append(stage, "submitted")[f] = stage[f]
        /\ Append(stage, "submitted")[last + 1] = "submitted"
    BY <2>1, Lengthened
  <2> QED BY <1>2, <2>2 DEF Stages
<1> HIDE DEF last
<1>7. 1..last \subseteq 1..last + 1 /\ \A f \in 1..last + 1 : f \in 1..last \/ f = last + 1
  BY <1>3
<1>8. Feedback!TypeOK'
  <2>1. \A ids \in Seq(1..last) : ids \in Seq(1..last + 1)
    BY <1>7, SeqMonotonic
  <2>2. contextIndex' \in [Context -> Seq(1..last + 1)] /\ tripleIndex' \in [DOMAIN PgEnds -> Seq(1..last + 1)]
    BY <1>2, <1>3, <2>1 DEF Feedback!TypeOK
  <2>3. history' \subseteq 1..last + 1
    BY <1>2, <1>3, <1>7 DEF Feedback!TypeOK
  <2> QED BY <1>5, <1>6, <2>2, <2>3 DEF Feedback!TypeOK
<1>9. HistoryFits'
  <2>1. \A f \in history : f \in 1..last
    BY <1>3 DEF Feedback!TypeOK
  <2> QED BY <1>2, <1>6, <2>1 DEF HistoryFits
<1>10. OnceInContext'
  <2>1. \A k \in Context : \A i \in DOMAIN contextIndex[k] : contextIndex[k][i] \in 1..last
    <3>1. contextIndex \in [Context -> Seq(1..last)]
      BY <1>3 DEF Feedback!TypeOK
    <3> QED BY <3>1, Entries
  <2>2. ASSUME NEW k \in Context, NEW i \in DOMAIN contextIndex'[k]
        PROVE  /\ given'[contextIndex'[k][i]].context = k
               /\ stage'[contextIndex'[k][i]] \in {"found", "done"}
    <3>1. contextIndex'[k][i] = contextIndex[k][i] /\ contextIndex[k][i] \in 1..last
      BY <1>2, <2>1, <2>2
    <3>2. given[contextIndex[k][i]].context = k /\ stage[contextIndex[k][i]] \in {"found", "done"}
      BY <1>2, <2>2 DEF OnceInContext
    <3> QED BY <1>5, <1>6, <3>1, <3>2
  <2>3. ASSUME NEW f \in 1..last + 1, stage'[f] \in {"found", "done"}
        PROVE  Cardinality(Feedback!Holding(f, contextIndex'[given'[f].context])) = 1
    <3>1. f \in 1..last
      BY <1>6, <1>7, <2>3
    <3> QED BY <1>2, <1>3, <1>5, <1>6, <2>3, <3>1 DEF OnceInContext
  <2> QED BY <1>5, <2>2, <2>3 DEF OnceInContext, Feedback!Holding
<1>11. AsOftenInTriples'
  <2>1. \A t \in DOMAIN PgEnds : \A i \in DOMAIN tripleIndex[t] : tripleIndex[t][i] \in 1..last
    <3>1. tripleIndex \in [DOMAIN PgEnds -> Seq(1..last)]
      BY <1>3 DEF Feedback!TypeOK
    <3> QED BY <3>1, Entries
  <2>2. ASSUME NEW t \in DOMAIN PgEnds, NEW i \in DOMAIN tripleIndex'[t]
        PROVE  stage'[tripleIndex'[t][i]] = "done"
    BY <1>2, <1>6, <2>1, <2>2 DEF AsOftenInTriples
  <2>3. ASSUME NEW f \in 1..last + 1, NEW t \in DOMAIN PgEnds, stage'[f] = "done"
        PROVE  Cardinality(Feedback!Holding(f, tripleIndex'[t])) = (Feedback!Times(f, t, Feedback!Signal))'
    <3>1. f \in 1..last
      BY <1>6, <1>7, <2>3
    <3>2. (Feedback!Times(f, t, Feedback!Signal))' = Feedback!Times(f, t, Feedback!Signal)
      BY <1>5, <3>1 DEF Feedback!Times, Feedback!Places
    <3> QED BY <1>2, <1>3, <1>6, <2>3, <3>1, <3>2 DEF AsOftenInTriples
  <2> QED BY <1>5, <2>2, <2>3 DEF AsOftenInTriples, Feedback!Holding
<1> QED BY <1>8, <1>9, <1>10, <1>11

LEMMA StoreRecords ==
  ASSUME Feedback!FeedbackRecorderAssumption, RecordsFit, NEW f \in Feedback!Feedback, Feedback!Store(f)
  PROVE  RecordsFit'
<1> USE DEF RecordsFit, Feedback!Feedback
<1>1. /\ stage[f] = "submitted" /\ stage' = [stage EXCEPT ![f] = "stored"]
      /\ history' = Feedback!Pruned(history \cup {f}) /\ UNCHANGED <<given, contextIndex, tripleIndex>>
  BY DEF Feedback!Store, Feedback!Goes
<1>2. /\ stage' \in [DOMAIN given -> {"submitted", "stored", "found", "done"}] /\ stage'[f] = "stored"
      /\ \A g \in DOMAIN given : g # f => stage'[g] = stage[g]
  BY <1>1 DEF Feedback!TypeOK
<1>3. history' \subseteq history \cup {f} /\ Cardinality(history') <= MaxHistory
  <2>1. history \subseteq DOMAIN given /\ history \cup {f} \subseteq DOMAIN given
    BY DEF Feedback!TypeOK
  <2>2. IsFiniteSet(history) /\ history \cup {f} \in SUBSET Nat /\ IsFiniteSet(history \cup {f})
    BY <2>1, HistoryFinite
  <2>3. Cardinality(history) \in Nat /\ Cardinality(history \cup {f}) \in Nat
        /\ Cardinality(history \cup {f}) <= Cardinality(history) + 1
    BY <2>2, OneMore
  <2>4. MaxHistory \in Nat
    BY DEF Feedback!FeedbackRecorderAssumption
  <2>5. Cardinality(history \cup {f}) <= MaxHistory + 1
    BY <2>3, <2>4 DEF HistoryFits
  <2> QED BY <1>1, <2>2, <2>5, PrunedFits
<1>4. Feedback!TypeOK'
  BY <1>1, <1>2, <1>3 DEF Feedback!TypeOK
<1>5. HistoryFits'
  <2>1. history \subseteq DOMAIN given
    BY DEF Feedback!TypeOK
  <2> QED BY <1>2, <1>3, <2>1 DEF HistoryFits
<1>6. OnceInContext'
  <2>1. \A c \in Context : \A i \in DOMAIN contextIndex[c] : contextIndex[c][i] \in DOMAIN given
    <3>1. contextIndex \in [Context -> Seq(DOMAIN given)]
      BY DEF Feedback!TypeOK
    <3> QED BY <3>1, Entries
  <2>2. \A c \in Context : \A i \in DOMAIN contextIndex[c] : contextIndex[c][i] # f
    BY <1>1 DEF OnceInContext
  <2> QED BY <1>1, <1>2, <2>1, <2>2 DEF OnceInContext, Feedback!Holding
<1>7. AsOftenInTriples'
  <2>1. \A t \in DOMAIN PgEnds : \A i \in DOMAIN tripleIndex[t] : tripleIndex[t][i] \in DOMAIN given
    <3>1. tripleIndex \in [DOMAIN PgEnds -> Seq(DOMAIN given)]
      BY DEF Feedback!TypeOK
    <3> QED BY <3>1, Entries
  <2>2. \A t \in DOMAIN PgEnds : \A i \in DOMAIN tripleIndex[t] : tripleIndex[t][i] # f
    BY <1>1 DEF AsOftenInTriples
  <2>3. \A g, t : (Feedback!Times(g, t, Feedback!Signal))' = Feedback!Times(g, t, Feedback!Signal)
    BY <1>1 DEF Feedback!Times, Feedback!Places
  <2> QED BY <1>1, <1>2, <2>1, <2>2, <2>3 DEF AsOftenInTriples, Feedback!Holding
<1> QED BY <1>4, <1>5, <1>6, <1>7

LEMMA IndexContextKeeps ==
  ASSUME Feedback!FeedbackRecorderAssumption, RecordsFit,
         NEW f \in Feedback!Feedback, Feedback!IndexContext(f)
  PROVE  RecordsFit'
<1> USE DEF RecordsFit, Feedback!Feedback
<1> DEFINE c == given[f].context
           tail == <<f>>
           more == contextIndex[c] \o tail
<1>1. /\ stage[f] = "stored" /\ stage' = [stage EXCEPT ![f] = "found"]
      /\ contextIndex' = [contextIndex EXCEPT ![c] = Append(contextIndex[c], f)]
      /\ UNCHANGED <<given, history, tripleIndex>>
  BY DEF Feedback!IndexContext, Feedback!Goes
<1>2. /\ stage' \in [DOMAIN given -> {"submitted", "stored", "found", "done"}] /\ stage'[f] = "found"
      /\ \A g \in DOMAIN given : g # f => stage'[g] = stage[g]
  BY <1>1 DEF Feedback!TypeOK
<1>3. given \in Seq([context : Context, triples : Given]) /\ DOMAIN given = 1..Len(given)
      /\ contextIndex \in [Context -> Seq(DOMAIN given)]
  BY DEF Feedback!TypeOK
<1>4. c \in Context /\ contextIndex[c] \in Seq(DOMAIN given)
  <2>1. given[f] \in [context : Context, triples : Given]
    BY <1>3, ElementOfSeq
  <2> QED BY <1>3, <2>1
<1>5. \A i \in DOMAIN contextIndex[c] : contextIndex[c][i] # f
  BY <1>1, <1>4 DEF OnceInContext
<1> HIDE DEF c
<1>6. Append(contextIndex[c], f) = more
  BY <1>4
<1> HIDE DEF more
<1>7. /\ more \in Seq(DOMAIN given)
      /\ \A i \in DOMAIN more : more[i] = f \/ (i \in DOMAIN contextIndex[c] /\ more[i] = contextIndex[c][i])
      /\ Cardinality(Feedback!Holding(f, more)) = 1
      /\ \A g \in DOMAIN given : g # f => Feedback!Holding(g, more) = Feedback!Holding(g, contextIndex[c])
  <2>1. tail \in Seq({f}) /\ Len(tail) = 1
    OBVIOUS
  <2> DEFINE ids == contextIndex[c]
             S == DOMAIN given
  <2>2. ids \in Seq(S) /\ f \in S /\ \A i \in DOMAIN ids : ids[i] # f
    BY <1>4, <1>5
  <2> HIDE DEF tail, ids, S
  <2>3. /\ ids \o tail \in Seq(S)
        /\ \A i \in DOMAIN (ids \o tail) :
               (ids \o tail)[i] = f \/ (i \in DOMAIN ids /\ (ids \o tail)[i] = ids[i])
        /\ Cardinality(Feedback!Holding(f, ids \o tail)) = Len(tail)
        /\ \A g \in S : g # f => Feedback!Holding(g, ids \o tail) = Feedback!Holding(g, ids)
    BY <2>1, <2>2, PushedMore
  <2> QED BY <2>1, <2>3 DEF more, ids, S
<1>8. /\ contextIndex' \in [Context -> Seq(DOMAIN given)] /\ contextIndex'[c] = more
      /\ \A k \in Context : k # c => contextIndex'[k] = contextIndex[k]
  BY <1>1, <1>3, <1>4, <1>6, <1>7
<1>9. Feedback!TypeOK'
  BY <1>1, <1>2, <1>8 DEF Feedback!TypeOK
<1>10. HistoryFits'
  <2>1. history \subseteq DOMAIN given
    BY DEF Feedback!TypeOK
  <2> QED BY <1>1, <1>2, <2>1 DEF HistoryFits
<1>11. OnceInContext'
  <2>1. \A k \in Context : \A i \in DOMAIN contextIndex[k] : contextIndex[k][i] \in DOMAIN given
    BY <1>3, Entries
  <2>2. ASSUME NEW k \in Context, NEW i \in DOMAIN contextIndex[k]
        PROVE  given[contextIndex[k][i]].context = k /\ stage'[contextIndex[k][i]] \in {"found", "done"}
    <3>1. given[contextIndex[k][i]].context = k /\ stage[contextIndex[k][i]] \in {"found", "done"}
      BY DEF OnceInContext
    <3> QED BY <1>2, <2>1, <3>1
  <2>3. ASSUME NEW k \in Context, NEW i \in DOMAIN contextIndex'[k]
        PROVE  given[contextIndex'[k][i]].context = k /\ stage'[contextIndex'[k][i]] \in {"found", "done"}
    <3>1. CASE k = c
      <4>1. CASE more[i] = f
        BY <1>2, <1>8, <3>1, <4>1 DEF c
      <4>2. CASE i \in DOMAIN contextIndex[c] /\ more[i] = contextIndex[c][i]
        BY <1>8, <2>2, <3>1, <4>2
      <4> QED BY <1>7, <1>8, <2>3, <3>1, <4>1, <4>2
    <3>2. CASE k # c
      BY <1>8, <2>2, <2>3, <3>2
    <3> QED BY <3>1, <3>2
  <2>4. ASSUME NEW g \in DOMAIN given, stage'[g] \in {"found", "done"}
        PROVE  Cardinality(Feedback!Holding(g, contextIndex'[given[g].context])) = 1
    <3>1. CASE g = f
      BY <1>7, <1>8, <3>1 DEF c
    <3>2. CASE g # f
      <4>1. Cardinality(Feedback!Holding(g, contextIndex[given[g].context])) = 1
        BY <1>2, <2>4, <3>2 DEF OnceInContext
      <4>2. given[g].context \in Context
        <5>1. given[g] \in [context : Context, triples : Given]
          BY <1>3, <2>4, ElementOfSeq
        <5> QED BY <5>1
      <4>3. CASE given[g].context = c
        BY <1>7, <1>8, <3>2, <4>1, <4>3
      <4>4. CASE given[g].context # c
        BY <1>8, <4>1, <4>2, <4>4
      <4> QED BY <4>3, <4>4
    <3> QED BY <3>1, <3>2
  <2>5. given' = given
    BY <1>1
  <2>6. \A g \in DOMAIN given' : stage'[g] \in {"found", "done"} =>
           Cardinality(Feedback!Holding(g, contextIndex'[given'[g].context])) = 1
    BY <2>4, <2>5
  <2>7. \A k \in Context : \A i \in DOMAIN contextIndex'[k] :
           given'[contextIndex'[k][i]].context = k /\ stage'[contextIndex'[k][i]] \in {"found", "done"}
    BY <2>3, <2>5
  <2> QED BY <2>6, <2>7 DEF OnceInContext, Feedback!Holding
<1>12. AsOftenInTriples'
  <2>1. \A t \in DOMAIN PgEnds : \A i \in DOMAIN tripleIndex[t] : tripleIndex[t][i] \in DOMAIN given
    <3>1. tripleIndex \in [DOMAIN PgEnds -> Seq(DOMAIN given)]
      BY DEF Feedback!TypeOK
    <3> QED BY <3>1, Entries
  <2>2. \A t \in DOMAIN PgEnds : \A i \in DOMAIN tripleIndex[t] : tripleIndex[t][i] # f
    BY <1>1 DEF AsOftenInTriples
  <2>3. \A g, t : (Feedback!Times(g, t, Feedback!Signal))' = Feedback!Times(g, t, Feedback!Signal)
    BY <1>1 DEF Feedback!Times, Feedback!Places
  <2> QED BY <1>1, <1>2, <2>1, <2>2, <2>3 DEF AsOftenInTriples, Feedback!Holding
<1> QED BY <1>9, <1>10, <1>11, <1>12

LEMMA IndexTriplesKeeps ==
  ASSUME Feedback!FeedbackRecorderAssumption, RecordsFit,
         NEW f \in Feedback!Feedback, Feedback!IndexTriples(f)
  PROVE  RecordsFit'
<1> USE DEF RecordsFit, Feedback!Feedback
<1> DEFINE n(t) == Feedback!Times(f, t, Feedback!Signal)
           tail(t) == [i \in 1..n(t) |-> f]
           more(t) == tripleIndex[t] \o tail(t)
<1>1. /\ stage[f] = "found" /\ stage' = [stage EXCEPT ![f] = "done"]
      /\ tripleIndex' = [t \in DOMAIN PgEnds |-> more(t)]
      /\ UNCHANGED <<given, history, contextIndex>>
  BY DEF Feedback!IndexTriples, Feedback!Goes
<1>2. /\ stage' \in [DOMAIN given -> {"submitted", "stored", "found", "done"}] /\ stage'[f] = "done"
      /\ \A g \in DOMAIN given : g # f => stage'[g] = stage[g]
  BY <1>1 DEF Feedback!TypeOK
<1>3. tripleIndex \in [DOMAIN PgEnds -> Seq(DOMAIN given)]
  BY DEF Feedback!TypeOK
<1>4. \A t \in DOMAIN PgEnds : \A i \in DOMAIN tripleIndex[t] : tripleIndex[t][i] # f
  BY <1>1 DEF AsOftenInTriples
<1>5. ASSUME NEW t \in DOMAIN PgEnds
      PROVE  /\ more(t) \in Seq(DOMAIN given)
             /\ \A i \in DOMAIN more(t) :
                    more(t)[i] = f \/ (i \in DOMAIN tripleIndex[t] /\ more(t)[i] = tripleIndex[t][i])
             /\ Cardinality(Feedback!Holding(f, more(t))) = n(t)
             /\ \A g \in DOMAIN given :
                    g # f => Feedback!Holding(g, more(t)) = Feedback!Holding(g, tripleIndex[t])
  <2>1. n(t) \in Nat
    BY PlacesFew
  <2>2. tripleIndex[t] \in Seq(DOMAIN given) /\ \A i \in DOMAIN tripleIndex[t] : tripleIndex[t][i] # f
    BY <1>3, <1>4
  <2> HIDE DEF n
  <2>3. tail(t) \in Seq({f}) /\ Len(tail(t)) = n(t)
    BY <2>1
  <2> HIDE DEF tail
  <2> QED BY <2>2, <2>3, PushedMore
<1> HIDE DEF more
<1>6. /\ tripleIndex' \in [DOMAIN PgEnds -> Seq(DOMAIN given)]
      /\ \A t \in DOMAIN PgEnds : tripleIndex'[t] = more(t)
  BY <1>1, <1>5
<1>7. Feedback!TypeOK'
  BY <1>1, <1>2, <1>6 DEF Feedback!TypeOK
<1>8. HistoryFits'
  <2>1. history \subseteq DOMAIN given
    BY DEF Feedback!TypeOK
  <2> QED BY <1>1, <1>2, <2>1 DEF HistoryFits
<1>9. OnceInContext'
  <2>1. \A c \in Context : \A i \in DOMAIN contextIndex[c] : contextIndex[c][i] \in DOMAIN given
    <3>1. contextIndex \in [Context -> Seq(DOMAIN given)]
      BY DEF Feedback!TypeOK
    <3> QED BY <3>1, Entries
  <2>2. ASSUME NEW g \in DOMAIN given
        PROVE  stage'[g] \in {"found", "done"} <=> stage[g] \in {"found", "done"}
    BY <1>1, <1>2
  <2> QED BY <1>1, <2>1, <2>2 DEF OnceInContext, Feedback!Holding
<1>10. AsOftenInTriples'
  <2>1. \A t \in DOMAIN PgEnds : \A i \in DOMAIN tripleIndex[t] : tripleIndex[t][i] \in DOMAIN given
    BY <1>3, Entries
  <2>2. ASSUME NEW t \in DOMAIN PgEnds, NEW i \in DOMAIN tripleIndex'[t]
        PROVE  stage'[tripleIndex'[t][i]] = "done"
    <3>1. CASE more(t)[i] = f
      BY <1>2, <1>6, <3>1
    <3>2. CASE i \in DOMAIN tripleIndex[t] /\ more(t)[i] = tripleIndex[t][i]
      <4>1. stage[tripleIndex[t][i]] = "done"
        BY <3>2 DEF AsOftenInTriples
      <4> QED BY <1>2, <1>6, <2>1, <3>2, <4>1
    <3> QED BY <1>5, <1>6, <2>2, <3>1, <3>2
  <2>3. \A g, t : (Feedback!Times(g, t, Feedback!Signal))' = Feedback!Times(g, t, Feedback!Signal)
    BY <1>1 DEF Feedback!Times, Feedback!Places
  <2>4. ASSUME NEW g \in DOMAIN given, NEW t \in DOMAIN PgEnds, stage'[g] = "done"
        PROVE  Cardinality(Feedback!Holding(g, tripleIndex'[t])) = Feedback!Times(g, t, Feedback!Signal)
    <3>1. CASE g = f
      BY <1>5, <1>6, <3>1
    <3>2. CASE g # f
      BY <1>2, <1>5, <1>6, <2>4, <3>2 DEF AsOftenInTriples
    <3> QED BY <3>1, <3>2
  <2> QED BY <1>1, <2>2, <2>3, <2>4 DEF AsOftenInTriples, Feedback!Holding
<1> QED BY <1>7, <1>8, <1>9, <1>10

LEMMA RecordsKept == LibraryAssumption /\ Feedback!Spec => []RecordsFit
<1> SUFFICES ASSUME LibraryAssumption PROVE Feedback!Spec => []RecordsFit
  OBVIOUS
<1>1. Feedback!Init => RecordsFit
  <2> SUFFICES ASSUME Feedback!Init PROVE RecordsFit
    OBVIOUS
  <2> USE DEF Feedback!Init
  <2>1. DOMAIN given = {} /\ DOMAIN stage = {} /\ Cardinality({}) = 0
    BY FS_EmptySet
  <2>2. Feedback!TypeOK
    BY <2>1 DEF Feedback!TypeOK, Feedback!Feedback
  <2>3. MaxHistory \in Nat
    BY DEF LibraryAssumption, Feedback!FeedbackRecorderAssumption
  <2>4. HistoryFits
    BY <2>1, <2>3 DEF HistoryFits
  <2>5. OnceInContext /\ AsOftenInTriples
    BY <2>1 DEF OnceInContext, AsOftenInTriples, Feedback!Feedback
  <2> QED BY <2>2, <2>4, <2>5 DEF RecordsFit
<1>2. RecordsFit /\ [Feedback!Next]_Feedback!vars => RecordsFit'
  <2> SUFFICES ASSUME RecordsFit, [Feedback!Next]_Feedback!vars PROVE RecordsFit'
    OBVIOUS
  <2>1. Feedback!FeedbackRecorderAssumption
    BY DEF LibraryAssumption
  <2>2. CASE Feedback!Submit
    BY <2>1, <2>2, SubmitKeeps
  <2>3. ASSUME NEW f \in Feedback!Feedback, Feedback!Store(f) PROVE RecordsFit'
    BY <2>1, <2>3, StoreRecords
  <2>4. ASSUME NEW f \in Feedback!Feedback, Feedback!IndexContext(f) PROVE RecordsFit'
    BY <2>1, <2>4, IndexContextKeeps
  <2>5. ASSUME NEW f \in Feedback!Feedback, Feedback!IndexTriples(f) PROVE RecordsFit'
    BY <2>1, <2>5, IndexTriplesKeeps
  <2>6. CASE UNCHANGED Feedback!vars
    <3> USE DEF Feedback!vars, RecordsFit, Feedback!Feedback
    <3>1. Feedback!TypeOK'
      BY <2>6 DEF Feedback!TypeOK
    <3>2. HistoryFits'
      BY <2>6 DEF HistoryFits
    <3>3. OnceInContext'
      BY <2>6 DEF OnceInContext, Feedback!Holding
    <3>4. AsOftenInTriples'
      <4>1. \A f, t : (Feedback!Times(f, t, Feedback!Signal))' = Feedback!Times(f, t, Feedback!Signal)
        BY <2>6 DEF Feedback!Times, Feedback!Places
      <4> QED BY <2>6, <4>1 DEF AsOftenInTriples, Feedback!Holding
    <3> QED BY <3>1, <3>2, <3>3, <3>4
  <2> QED BY <2>2, <2>3, <2>4, <2>5, <2>6 DEF Feedback!Next
<1> QED BY <1>1, <1>2, PTL DEF Feedback!Spec

(* What the feedbacks of a context or a triple come to.                    *)
LEMMA StatisticsCount ==
  ASSUME Feedback!FeedbackRecorderAssumption, RecordsFit,
         NEW t \in DOMAIN PgEnds, NEW s \in Feedback!Signal, Feedback!ListedOnce(t)
  PROVE  Feedback!TripleStats(t)[s] =
            Cardinality({f \in Feedback!Recorded : Feedback!Times(f, t, {s}) = 1})
<1> USE DEF RecordsFit
<1> DEFINE ids == tripleIndex[t]
           Listed(f) == Feedback!Places(f, t, {s})
           kept == {i \in DOMAIN ids : ids[i] \in history}
           pairs == UNION {{i} \X Listed(ids[i]) : i \in kept}
           once == {f \in Feedback!Recorded : Feedback!Times(f, t, {s}) = 1}
           told == [e \in pairs |-> ids[e[1]]]
<1>1. Feedback!TripleStats(t)[s] = Cardinality(pairs)
  BY FeedbackCounts DEF Feedback!TripleStats, Feedback!TripleFeedback, Feedback!Kept
<1>2. history \subseteq Feedback!Feedback /\ once \subseteq history
  BY DEF Feedback!TypeOK, Feedback!Recorded
<1>3. IsFiniteSet(once)
  BY <1>2, HistoryFinite
<1>4. ASSUME NEW i \in kept
      PROVE  ids[i] \in history /\ stage[ids[i]] = "done" /\ ids[i] \in Feedback!Feedback
  BY <1>2 DEF AsOftenInTriples
<1>5. ASSUME NEW f \in Feedback!Feedback
      PROVE  /\ IsFiniteSet(Listed(f)) /\ Feedback!Times(f, t, {s}) = Cardinality(Listed(f))
             /\ Cardinality(Listed(f)) \in Nat
             /\ IsFiniteSet(Feedback!Places(f, t, Feedback!Signal))
             /\ Cardinality(Feedback!Places(f, t, Feedback!Signal)) <= 1
             /\ Feedback!Times(f, t, Feedback!Signal) = Cardinality(Feedback!Places(f, t, Feedback!Signal))
             /\ Listed(f) \subseteq Feedback!Places(f, t, Feedback!Signal)
  <2>1. /\ IsFiniteSet(Listed(f)) /\ Feedback!Times(f, t, {s}) = Cardinality(Listed(f))
        /\ Feedback!Times(f, t, {s}) \in Nat
    BY PlacesFew
  <2>2. /\ IsFiniteSet(Feedback!Places(f, t, Feedback!Signal))
        /\ Feedback!Times(f, t, Feedback!Signal) = Cardinality(Feedback!Places(f, t, Feedback!Signal))
    BY PlacesFew
  <2>3. Feedback!Times(f, t, Feedback!Signal) <= 1
    BY DEF Feedback!ListedOnce
  <2>4. Listed(f) \subseteq Feedback!Places(f, t, Feedback!Signal)
    BY DEF Feedback!Places
  <2> QED BY <2>1, <2>2, <2>3, <2>4
<1>6. ASSUME NEW f \in Feedback!Feedback, NEW j \in Listed(f), NEW k \in Listed(f) PROVE j = k
  <2> HIDE DEF Listed
  <2>1. j \in Feedback!Places(f, t, Feedback!Signal) /\ k \in Feedback!Places(f, t, Feedback!Signal)
    BY <1>5
  <2> QED BY <1>5, <2>1, OneAtMost
<1>7. ASSUME NEW f \in Feedback!Feedback, stage[f] = "done"
      PROVE  /\ IsFiniteSet(Feedback!Holding(f, ids)) /\ Cardinality(Feedback!Holding(f, ids)) <= 1
             /\ Cardinality(Feedback!Holding(f, ids)) = Cardinality(Feedback!Places(f, t, Feedback!Signal))
  <2>1. Cardinality(Feedback!Holding(f, ids)) = Feedback!Times(f, t, Feedback!Signal)
    BY <1>7 DEF AsOftenInTriples
  <2>2. Feedback!Holding(f, ids) \subseteq 1..Len(ids) /\ Len(ids) \in Nat
    <3>1. ids \in Seq(Feedback!Feedback)
      BY DEF Feedback!TypeOK
    <3>2. DOMAIN ids = 1..Len(ids) /\ Len(ids) \in Nat
      BY <3>1, LenProperties
    <3> QED BY <3>2 DEF Feedback!Holding
  <2>3. IsFiniteSet(1..Len(ids))
    BY <2>2, FirstNumbers
  <2>4. IsFiniteSet(Feedback!Holding(f, ids))
    BY <2>2, <2>3, PartOf
  <2> QED BY <1>5, <2>1, <2>4
<1> HIDE DEF ids, once
<1>8. ASSUME NEW e \in pairs
      PROVE  /\ e[1] \in kept /\ e[2] \in Listed(ids[e[1]]) /\ e = <<e[1], e[2]>>
  <2>1. PICK i \in kept : e \in {i} \X Listed(ids[i])
    OBVIOUS
  <2> HIDE DEF kept, Listed
  <2> QED BY <2>1
<1>9. ASSUME NEW i \in kept, NEW j \in Listed(ids[i]) PROVE <<i, j>> \in pairs
  <2>1. <<i, j>> \in {i} \X Listed(ids[i])
    OBVIOUS
  <2> QED BY <2>1
<1> HIDE DEF pairs
<1>10. ASSUME NEW e \in pairs PROVE ids[e[1]] \in once
  <2> DEFINE f == ids[e[1]]
  <2>1. f \in history /\ stage[f] = "done" /\ f \in Feedback!Feedback /\ e[2] \in Listed(f)
    BY <1>4, <1>8
  <2> HIDE DEF f, Listed
  <2>2. Cardinality(Listed(f)) # 0 /\ Cardinality(Listed(f)) <= 1
    <3>1. Listed(f) # {}
      BY <2>1
    <3>2. Cardinality(Listed(f)) <= Cardinality(Feedback!Places(f, t, Feedback!Signal))
      BY <1>5, <2>1, PartOf
    <3>3. Cardinality(Listed(f)) <= 1
      <4>1. Cardinality(Feedback!Places(f, t, Feedback!Signal)) \in Nat
        BY <1>5, <2>1, FS_CardinalityType
      <4> QED BY <1>5, <2>1, <3>2, <4>1
    <3> QED BY <1>5, <2>1, <3>1, <3>3, FS_EmptySet
  <2>3. Feedback!Times(f, t, {s}) = 1
    BY <1>5, <2>1, <2>2
  <2>4. f \in once
    BY <2>1, <2>3 DEF once, Feedback!Recorded
  <2> QED BY <2>4 DEF f
<1>11. ASSUME NEW e \in pairs, NEW d \in pairs, ids[e[1]] = ids[d[1]] PROVE e = d
  <2> DEFINE f == ids[e[1]]
  <2>1. /\ stage[f] = "done" /\ f \in Feedback!Feedback
        /\ e[1] \in Feedback!Holding(f, ids) /\ d[1] \in Feedback!Holding(f, ids)
    BY <1>4, <1>8, <1>11 DEF Feedback!Holding
  <2>2. e[1] = d[1]
    <3> HIDE DEF f
    <3> QED BY <1>7, <2>1, OneAtMost
  <2>3. e[2] = d[2]
    BY <1>6, <1>8, <1>11, <2>1
  <2> QED BY <1>8, <2>2, <2>3
<1>12. ASSUME NEW f \in once PROVE \E e \in pairs : ids[e[1]] = f
  <2>1. f \in history /\ stage[f] = "done" /\ Feedback!Times(f, t, {s}) = 1 /\ f \in Feedback!Feedback
    BY <1>2 DEF once, Feedback!Recorded
  <2>2. Cardinality(Listed(f)) = 1
    BY <1>5, <2>1
  <2>3. PICK j : j \in Listed(f)
    <3> HIDE DEF Listed
    <3>1. Listed(f) # {}
      BY <2>2, FS_EmptySet
    <3> QED BY <3>1
  <2>4. j \in Feedback!Places(f, t, Feedback!Signal)
    BY <1>5, <2>1, <2>3
  <2>5. Cardinality(Feedback!Places(f, t, Feedback!Signal)) # 0
    BY <1>5, <2>1, <2>4, FS_EmptySet
  <2>6. Feedback!Holding(f, ids) # {}
    BY <1>7, <2>1, <2>5, FS_EmptySet
  <2>7. PICK i \in DOMAIN ids : ids[i] = f
    BY <2>6 DEF Feedback!Holding
  <2>8. i \in kept /\ j \in Listed(ids[i])
    BY <2>1, <2>3, <2>7
  <2>9. <<i, j>> \in pairs
    BY <1>9, <2>8
  <2> QED BY <2>7, <2>9
<1>13. told \in Injection(pairs, once) /\ told \in Surjection(pairs, once)
  <2>1. told \in [pairs -> once]
    BY <1>10
  <2>2. \A e, d \in pairs : told[e] = told[d] => e = d
    BY <1>11
  <2>3. \A f \in once : \E e \in pairs : told[e] = f
    BY <1>12
  <2> HIDE DEF told
  <2> QED BY <2>1, <2>2, <2>3, Fun_IsInj, Fun_IsSurj
<1> HIDE DEF told
<1>14. Cardinality(pairs) = Cardinality(once)
  BY <1>3, <1>13, FS_Injection
<1> QED BY <1>1, <1>14 DEF once

LEMMA RecordsFound ==
  ASSUME Feedback!FeedbackRecorderAssumption, RecordsFit
  PROVE  Feedback!FeedbackFound
<1> USE DEF RecordsFit
<1>1. history \subseteq Feedback!Feedback
  BY DEF Feedback!TypeOK
<1>2. ASSUME NEW f \in Feedback!Recorded
      PROVE  Feedback!Cardinality(Feedback!ContextFeedback(given[f].context)
                                  \cap Feedback!Holding(f, contextIndex[given[f].context])) = 1
  <2> DEFINE ids == contextIndex[given[f].context]
  <2>1. f \in history /\ f \in Feedback!Feedback /\ stage[f] = "done"
    BY <1>1 DEF Feedback!Recorded
  <2>2. Feedback!ContextFeedback(given[f].context) \cap Feedback!Holding(f, ids) = Feedback!Holding(f, ids)
    BY <2>1 DEF Feedback!ContextFeedback, Feedback!Kept, Feedback!Holding
  <2>3. Cardinality(Feedback!Holding(f, ids)) = 1
    BY <2>1 DEF OnceInContext
  <2> HIDE DEF ids
  <2>4. Feedback!Cardinality(Feedback!ContextFeedback(given[f].context) \cap Feedback!Holding(f, ids)) = 1
    BY <2>2, <2>3, FeedbackCounts
  <2> QED BY <2>4 DEF ids
<1>3. ASSUME NEW f \in Feedback!Recorded, NEW t \in DOMAIN PgEnds
      PROVE  Feedback!Cardinality(Feedback!TripleFeedback(t) \cap Feedback!Holding(f, tripleIndex[t]))
                = Feedback!Times(f, t, Feedback!Signal)
  <2> DEFINE ids == tripleIndex[t]
  <2>1. f \in history /\ f \in Feedback!Feedback /\ stage[f] = "done"
    BY <1>1 DEF Feedback!Recorded
  <2>2. Feedback!TripleFeedback(t) \cap Feedback!Holding(f, ids) = Feedback!Holding(f, ids)
    BY <2>1 DEF Feedback!TripleFeedback, Feedback!Kept, Feedback!Holding
  <2>3. Cardinality(Feedback!Holding(f, ids)) = Feedback!Times(f, t, Feedback!Signal)
    BY <2>1 DEF AsOftenInTriples
  <2> HIDE DEF ids
  <2>4. Feedback!Cardinality(Feedback!TripleFeedback(t) \cap Feedback!Holding(f, ids))
           = Feedback!Times(f, t, Feedback!Signal)
    BY <2>2, <2>3, FeedbackCounts
  <2> QED BY <2>4 DEF ids
<1>4. ASSUME NEW t \in DOMAIN PgEnds, NEW s \in Feedback!Signal, Feedback!ListedOnce(t)
      PROVE  Feedback!TripleStats(t)[s] =
                Feedback!Cardinality({f \in Feedback!Recorded : Feedback!Times(f, t, {s}) = 1})
  BY <1>4, StatisticsCount, FeedbackCounts
<1>5. Feedback!Cardinality(history) <= MaxHistory
  BY FeedbackCounts DEF HistoryFits
<1> QED BY <1>2, <1>3, <1>4, <1>5 DEF Feedback!FeedbackFound

-----------------------------------------------------------------------------
(* Blend: the weights of the embedding strategies.                         *)

LEMMA ThreeStrategies == Blend!Index = {1, 2, 3}
  BY DEF Blend!Index, Blend!Blended

(* What is a multiple of d, and what cancels.                              *)
LEMMA Multiple ==
  ASSUME NEW a \in Int, NEW d \in Nat \ {0}, a % d = 0
  PROVE  a \div d \in Int /\ a = d * (a \div d)
  OBVIOUS

LEMMA Cancels ==
  ASSUME NEW d \in Nat \ {0}, NEW x \in Int, NEW y \in Int
  PROVE  /\ d * x >= d * y => x >= y
         /\ x >= y => d * x >= d * y
         /\ d * x > 0 <=> x > 0
<1>1. ASSUME x < y PROVE d * x < d * y
  <2>1. y - x >= 1 /\ y - x \in Nat
    BY <1>1
  <2>2. d * (y - x) > 0
    BY <2>1
  <2>3. d * (y - x) = d * y - d * x
    OBVIOUS
  <2>4. d * x \in Int /\ d * y \in Int
    OBVIOUS
  <2> QED BY <2>2, <2>3, <2>4
<1>2. ASSUME x >= y PROVE d * x >= d * y
  <2>1. x - y \in Nat
    BY <1>2
  <2>2. d * (x - y) >= 0
    BY <2>1
  <2>3. d * (x - y) = d * x - d * y
    OBVIOUS
  <2>4. d * x \in Int /\ d * y \in Int
    OBVIOUS
  <2> QED BY <2>2, <2>3, <2>4
<1>3. ASSUME x > 0 PROVE d * x > 0
  BY <1>3
<1>4. ASSUME ~(x > 0) PROVE ~(d * x > 0)
  <2>1. 0 - x \in Nat
    BY <1>4
  <2>2. d * (0 - x) >= 0 /\ d * (0 - x) = 0 - d * x /\ d * x \in Int
    BY <2>1
  <2> QED BY <2>2
<1>5. d * x \in Int /\ d * y \in Int
  OBVIOUS
<1> QED BY <1>1, <1>2, <1>3, <1>4, <1>5

LEMMA LargestOne ==
  ASSUME NEW f \in [{1, 2, 3} -> Int]
  PROVE  /\ Blend!Largest(f) \in {1, 2, 3}
         /\ \A j \in {1, 2, 3} : f[j] <= f[Blend!Largest(f)]
<1> DEFINE Before(i, j) == f[j] < f[i] \/ (f[j] = f[i] /\ i <= j)
<1>1. f[1] \in Int /\ f[2] \in Int /\ f[3] \in Int
  OBVIOUS
<1>2. \E i \in {1, 2, 3} : \A j \in {1, 2, 3} : Before(i, j)
  <2>1. CASE f[1] >= f[2] /\ f[1] >= f[3]
    <3>1. \A j \in {1, 2, 3} : Before(1, j)
      BY <1>1, <2>1
    <3> QED BY <3>1
  <2>2. CASE f[2] > f[1] /\ f[2] >= f[3]
    <3>1. \A j \in {1, 2, 3} : Before(2, j)
      BY <1>1, <2>2
    <3> QED BY <3>1
  <2>3. CASE f[3] > f[1] /\ f[3] > f[2]
    <3>1. \A j \in {1, 2, 3} : Before(3, j)
      BY <1>1, <2>3
    <3> QED BY <3>1
  <2> QED BY <1>1, <2>1, <2>2, <2>3
<1>3. Blend!Largest(f) = CHOOSE i \in {1, 2, 3} : \A j \in {1, 2, 3} : Before(i, j)
  BY ThreeStrategies DEF Blend!Largest
<1>4. Blend!Largest(f) \in {1, 2, 3} /\ \A j \in {1, 2, 3} : Before(Blend!Largest(f), j)
  <2> HIDE DEF Before
  <2> QED BY <1>2, <1>3
<1> QED BY <1>1, <1>4

LEMMA TotalOfThree ==
  ASSUME NEW f \in [{1, 2, 3} -> Int]
  PROVE  Blend!Total(f) = f[1] + f[2] + f[3] /\ f[1] \in Int /\ f[2] \in Int /\ f[3] \in Int
  BY DEF Blend!Total, Blend!At

(* The shares after the first k have been raised to m.                     *)
RaisedTo(f, m, was, k) ==
    /\ f \in [{1, 2, 3} -> Int]
    /\ f[1] + f[2] + f[3] = was[1] + was[2] + was[3]
    /\ \A j \in {1, 2, 3} : IF was[j] < m /\ j > k THEN f[j] = was[j] ELSE f[j] >= m

LEMMA RaisedOneMore ==
  ASSUME NEW was \in [{1, 2, 3} -> Int], NEW m \in Int, NEW i \in {1, 2, 3}, NEW f,
         \A j \in {1, 2, 3} : was[j] >= 0,
         4 * m <= was[1] + was[2] + was[3],
         RaisedTo(f, m, was, i - 1)
  PROVE  RaisedTo(Blend!Raise(f, m, i, was), m, was, i)
<1> USE DEF RaisedTo
<1>1. was[1] \in Int /\ was[2] \in Int /\ was[3] \in Int /\ f[1] \in Int /\ f[2] \in Int /\ f[3] \in Int
  OBVIOUS
<1>2. CASE was[i] >= m
  <2>1. Blend!Raise(f, m, i, was) = f
    BY <1>2 DEF Blend!Raise
  <2> QED BY <1>1, <1>2, <2>1
<1>3. CASE ~(was[i] >= m)
  <2> DEFINE raised == [f EXCEPT ![i] = m]
             most == Blend!Largest(raised)
             lost == m - was[i]
             new == [raised EXCEPT ![most] = raised[most] - lost]
  <2>1. Blend!Raise(f, m, i, was) = new
    BY <1>3 DEF Blend!Raise
  <2>2. /\ raised \in [{1, 2, 3} -> Int] /\ raised[i] = m
        /\ \A j \in {1, 2, 3} : j # i => raised[j] = f[j]
    OBVIOUS
  <2> HIDE DEF raised
  <2>3. most \in {1, 2, 3} /\ \A j \in {1, 2, 3} : raised[j] <= raised[most]
    BY <2>2, LargestOne
  <2> HIDE DEF most
  <2>4. f[i] = was[i] /\ lost > 0 /\ lost <= m /\ lost \in Int
    BY <1>1, <1>3
  <2>5. most # i /\ f[most] - lost >= m
    <3>1. CASE i = 1
      BY <1>1, <1>3, <2>2, <2>3, <2>4, <3>1
    <3>2. CASE i = 2
      BY <1>1, <1>3, <2>2, <2>3, <2>4, <3>2
    <3>3. CASE i = 3
      BY <1>1, <1>3, <2>2, <2>3, <2>4, <3>3
    <3> QED BY <3>1, <3>2, <3>3
  <2>6. /\ new \in [{1, 2, 3} -> Int] /\ new[i] = m /\ new[most] = f[most] - lost
        /\ \A j \in {1, 2, 3} : j # i /\ j # most => new[j] = f[j]
    <3> HIDE DEF lost
    <3> QED BY <1>1, <2>2, <2>3, <2>4, <2>5
  <2> HIDE DEF new
  <2>7. new[1] + new[2] + new[3] = was[1] + was[2] + was[3]
    <3>1. CASE i = 1
      BY <1>1, <2>3, <2>4, <2>5, <2>6, <3>1
    <3>2. CASE i = 2
      BY <1>1, <2>3, <2>4, <2>5, <2>6, <3>2
    <3>3. CASE i = 3
      BY <1>1, <2>3, <2>4, <2>5, <2>6, <3>3
    <3> QED BY <3>1, <3>2, <3>3
  <2>8. ASSUME NEW j \in {1, 2, 3}
        PROVE  IF was[j] < m /\ j > i THEN new[j] = was[j] ELSE new[j] >= m
    <3>1. CASE j = i
      BY <2>6, <3>1
    <3>2. CASE j = most
      <4>1. new[j] >= m
        BY <2>5, <2>6, <3>2
      <4>2. ~(was[j] < m /\ j > i)
        BY <1>1, <2>4, <2>5, <3>2
      <4> QED BY <4>1, <4>2
    <3>3. CASE j # i /\ j # most
      BY <1>1, <2>6, <3>3
    <3> QED BY <3>1, <3>2, <3>3
  <2> QED BY <2>1, <2>6, <2>7, <2>8
<1> QED BY <1>2, <1>3

(* Shares in integers over a positive denominator, sound.                  *)
SoundShares(share, of) ==
    /\ share \in [{1, 2, 3} -> Int] /\ of \in Nat \ {0}
    /\ share[1] + share[2] + share[3] = of
    /\ \A i \in {1, 2, 3} : share[i] * LeastShare[2] >= of * LeastShare[1]

LEMMA LowestKeeps ==
  ASSUME Blend!BlendTunerAssumption, NEW share, NEW of, SoundShares(share, of)
  PROVE  SoundShares(Blend!Lowest(share, of).share, Blend!Lowest(share, of).of)
<1> USE ThreeStrategies DEF SoundShares
<1> DEFINE d == Blend!gcd[<<Blend!gcd[<<Blend!gcd[<<of, share[1]>>], share[2]>>], share[3]>>]
<1>1. CASE ~Blend!Divides(d, share, of)
  BY <1>1 DEF Blend!Lowest
<1>2. CASE Blend!Divides(d, share, of)
  <2>1. /\ Blend!Lowest(share, of).share = [i \in {1, 2, 3} |-> share[i] \div d]
        /\ Blend!Lowest(share, of).of = of \div d
    BY <1>2 DEF Blend!Lowest
  <2>2. d \in Nat \ {0} /\ of % d = 0 /\ \A i \in {1, 2, 3} : share[i] % d = 0
    BY <1>2 DEF Blend!Divides, Blend!Positive
  <2> HIDE DEF d
  <2> DEFINE numerator(i) == share[i] \div d
             all == of \div d
             most == LeastShare[1]
             least == LeastShare[2]
  <2>3. most \in Nat \ {0} /\ least \in Nat \ {0}
    BY DEF Blend!BlendTunerAssumption, Blend!Positive
  <2>4. /\ share[1] \in Int /\ share[2] \in Int /\ share[3] \in Int /\ of \in Int
        /\ share[1] % d = 0 /\ share[2] % d = 0 /\ share[3] % d = 0
    BY <2>2
  <2>5. all \in Int /\ of = d * all
    BY <2>2, <2>4, Multiple
  <2>6. \A i \in {1, 2, 3} : numerator(i) \in Int /\ share[i] = d * numerator(i)
    BY <2>2, <2>4, Multiple
  <2>7. all \in Nat \ {0}
    <3> HIDE DEF all
    <3>1. d * all > 0
      BY <2>5
    <3> QED BY <2>2, <2>5, <3>1, Cancels
  <2> HIDE DEF all, numerator, most, least
  <2>8. numerator(1) + numerator(2) + numerator(3) = all
    <3> DEFINE sum == numerator(1) + numerator(2) + numerator(3)
    <3>1. numerator(1) \in Int /\ numerator(2) \in Int /\ numerator(3) \in Int /\ sum \in Int
      BY <2>6
    <3>2. d * sum = d * numerator(1) + d * numerator(2) + d * numerator(3)
      BY <2>2, <3>1
    <3>3. d * sum = d * all
      BY <2>5, <2>6, <3>2
    <3> HIDE DEF sum
    <3>4. d * sum \in Int /\ d * all \in Int
      BY <2>2, <2>5, <3>1
    <3>5. sum >= all /\ all >= sum
      BY <2>2, <2>5, <3>1, <3>3, <3>4, Cancels
    <3>6. sum = all
      BY <2>5, <3>1, <3>5
    <3> QED BY <3>6 DEF sum
  <2>9. ASSUME NEW i \in {1, 2, 3} PROVE numerator(i) * least >= all * most
    <3>1. numerator(i) \in Int /\ numerator(i) * least \in Int /\ all * most \in Int
      BY <2>3, <2>5, <2>6
    <3>2. share[i] * least >= of * most
      BY DEF least, most
    <3>3. (d * numerator(i)) * least = d * (numerator(i) * least) /\ (d * all) * most = d * (all * most)
      BY <2>2, <2>3, <2>5, <3>1
    <3>4. d * (numerator(i) * least) >= d * (all * most)
      BY <2>5, <2>6, <3>2, <3>3
    <3> QED BY <2>2, <3>1, <3>4, Cancels
  <2> QED BY <2>1, <2>6, <2>7, <2>8, <2>9 DEF numerator, all, most, least
<1> QED BY <1>1, <1>2

LEMMA ReinforcedSound ==
  ASSUME Blend!BlendTunerAssumption, NEW share \in [{1, 2, 3} -> Int], NEW of \in Nat \ {0},
         \A i \in {1, 2, 3} : share[i] >= 0, share[1] + share[2] + share[3] = of
  PROVE  SoundShares(Blend!Reinforced(share, of).share, Blend!Reinforced(share, of).of)
<1> DEFINE most == LeastShare[1]
           least == LeastShare[2]
           was == Blend!Scaled(share)
           m == of * most
           first == Blend!Raise(was, m, 1, was)
           second == Blend!Raise(first, m, 2, was)
           third == Blend!Raise(second, m, 3, was)
<1>1. most \in Nat \ {0} /\ least \in Nat \ {0} /\ 4 * most <= least
  BY DEF Blend!BlendTunerAssumption, Blend!Positive
<1>2. Blend!Reinforced(share, of) = Blend!Lowest(third, of * least)
  BY DEF Blend!Reinforced, Blend!LeastOf
<1>3. was = [i \in {1, 2, 3} |-> share[i] * least]
  BY ThreeStrategies DEF Blend!Scaled
<1>4. share[1] \in Int /\ share[2] \in Int /\ share[3] \in Int
  OBVIOUS
<1> HIDE DEF most, least
<1>5. was \in [{1, 2, 3} -> Int] /\ was[1] = share[1] * least /\ was[2] = share[2] * least /\ was[3] = share[3] * least
  BY <1>1, <1>3, <1>4
<1> HIDE DEF was
<1>6. was[1] + was[2] + was[3] = of * least
  <2>1. (share[1] + share[2] + share[3]) * least = share[1] * least + share[2] * least + share[3] * least
    BY <1>1, <1>4
  <2> QED BY <1>5, <2>1
<1>7. \A i \in {1, 2, 3} : was[i] >= 0
  <2>1. ASSUME NEW a \in Int, a >= 0 PROVE a * least >= 0
    BY <1>1, <2>1
  <2> QED BY <1>4, <1>5, <2>1
<1>8. m \in Int /\ 4 * m <= of * least /\ of * least \in Nat \ {0}
  <2>1. 4 * m = of * (4 * most)
    BY <1>1
  <2>2. of * least >= of * (4 * most)
    BY <1>1, Cancels
  <2>3. of * least > 0
    BY <1>1, Cancels
  <2> QED BY <1>1, <2>1, <2>2, <2>3
<1> HIDE DEF m
<1>9. RaisedTo(was, m, was, 0)
  BY <1>5, <1>8 DEF RaisedTo
<1>10. RaisedTo(first, m, was, 1)
  <2>1. 1 - 1 = 0 /\ 1 \in {1, 2, 3}
    OBVIOUS
  <2> QED BY <1>5, <1>6, <1>7, <1>8, <1>9, <2>1, RaisedOneMore
<1> HIDE DEF first
<1>11. RaisedTo(second, m, was, 2)
  <2>1. 2 - 1 = 1 /\ 2 \in {1, 2, 3}
    OBVIOUS
  <2> QED BY <1>5, <1>6, <1>7, <1>8, <1>10, <2>1, RaisedOneMore
<1> HIDE DEF second
<1>12. RaisedTo(third, m, was, 3)
  <2>1. 3 - 1 = 2 /\ 3 \in {1, 2, 3}
    OBVIOUS
  <2> QED BY <1>5, <1>6, <1>7, <1>8, <1>11, <2>1, RaisedOneMore
<1> HIDE DEF third
<1>13. SoundShares(third, of * least)
  <2>1. third \in [{1, 2, 3} -> Int] /\ third[1] + third[2] + third[3] = of * least
    BY <1>6, <1>12 DEF RaisedTo
  <2>2. \A i \in {1, 2, 3} : third[i] \in Int /\ third[i] >= m
    BY <1>12, <2>1 DEF RaisedTo
  <2>3. ASSUME NEW i \in {1, 2, 3} PROVE third[i] * least >= (of * least) * most
    <3>1. least * third[i] >= least * m
      BY <1>1, <1>8, <2>2, Cancels
    <3>2. (of * least) * most = least * m
      BY <1>1 DEF m
    <3>3. third[i] * least = least * third[i]
      BY <1>1, <2>2
    <3> QED BY <3>1, <3>2, <3>3
  <2> QED BY <1>8, <2>1, <2>3 DEF SoundShares, most, least
<1> QED BY <1>2, <1>13, LowestKeeps

LEMMA NormalizedSound ==
  ASSUME Blend!BlendTunerAssumption, NEW share \in [{1, 2, 3} -> Int], NEW of \in Nat \ {0}
  PROVE  SoundShares(Blend!Normalized(share, of).share, Blend!Normalized(share, of).of)
<1> DEFINE clamped == Blend!Clamped(share, of)
           least == of * LeastShare[1]
           scaled(i) == share[i] * LeastShare[2]
<1>1. LeastShare[1] \in Nat \ {0} /\ LeastShare[2] \in Nat \ {0}
  BY DEF Blend!BlendTunerAssumption, Blend!Positive
<1>2. clamped = [i \in {1, 2, 3} |-> IF scaled(i) > least THEN scaled(i) ELSE least]
  BY ThreeStrategies DEF Blend!Clamped, Blend!Scaled, Blend!LeastOf
<1>3. least \in Int /\ least > 0
  BY <1>1, Cancels
<1>4. \A i \in {1, 2, 3} : scaled(i) \in Int
  BY <1>1
<1> HIDE DEF clamped, least, scaled
<1>5. clamped \in [{1, 2, 3} -> Int] /\ \A i \in {1, 2, 3} : clamped[i] \in Int /\ clamped[i] > 0
  BY <1>2, <1>3, <1>4
<1>6. /\ Blend!Total(clamped) = clamped[1] + clamped[2] + clamped[3]
      /\ clamped[1] \in Int /\ clamped[2] \in Int /\ clamped[3] \in Int
  BY <1>5, TotalOfThree
<1>7. Blend!Total(clamped) \in Nat \ {0} /\ Blend!Total(clamped) > 0
  BY <1>5, <1>6
<1>8. Blend!Normalized(share, of) = Blend!Reinforced(clamped, Blend!Total(clamped))
  BY <1>7 DEF Blend!Normalized, clamped
<1>9. \A i \in {1, 2, 3} : clamped[i] >= 0
  BY <1>5
<1> QED BY <1>5, <1>6, <1>7, <1>8, <1>9, ReinforcedSound

LEMMA SoundWeights ==
  ASSUME NEW w, w.share \in [{1, 2, 3} -> Int]
  PROVE  SoundShares(w.share, w.of) <=> Blend!Sound(w) /\ w.of \in Nat \ {0}
<1>1. Blend!Total(w.share) = w.share[1] + w.share[2] + w.share[3]
  BY TotalOfThree
<1> QED BY <1>1, ThreeStrategies DEF SoundShares, Blend!Sound

LEMMA UpdateKeeps ==
  ASSUME Blend!BlendTunerAssumption, Blend!TypeOK, NEW w \in Worker, Blend!UpdateWeights(w)
  PROVE  weights' \in Blend!Weights /\ Blend!Sound(weights)'
<1> DEFINE of == weights.of * Rate[2] * 10 * work[w].total
           share == Blend!Moved(weights.share, weights.of, work[w])
           new == Blend!Normalized(share, of)
<1>1. weights' = [share |-> new.share, of |-> new.of, updates |-> weights.updates + 1]
  BY DEF Blend!UpdateWeights
<1>2. /\ weights.share \in [{1, 2, 3} -> Int] /\ weights.of \in Nat \ {0} /\ weights.updates \in Nat
  BY ThreeStrategies DEF Blend!TypeOK, Blend!Weights, Blend!Positive
<1>3. work[w].signal \in [{1, 2, 3} -> Int] /\ work[w].total \in Nat \ {0}
  <2>1. work[w] \in Blend!Job
    BY DEF Blend!TypeOK, Blend!UpdateWeights
  <2> QED BY <2>1, ThreeStrategies DEF Blend!Job, Blend!Positive
<1>4. Rate[1] \in Nat /\ Rate[2] \in Nat \ {0}
  BY DEF Blend!BlendTunerAssumption, Blend!Positive
<1>5. of \in Nat \ {0}
  <2>1. \A a, b \in Nat \ {0} : a * b \in Nat \ {0}
    OBVIOUS
  <2>2. weights.of * Rate[2] \in Nat \ {0} /\ 10 \in Nat \ {0}
    BY <1>2, <1>4, <2>1
  <2>3. weights.of * Rate[2] * 10 \in Nat \ {0}
    BY <2>1, <2>2
  <2> QED BY <1>3, <2>1, <2>3
<1>6. share \in [{1, 2, 3} -> Int]
  <2> DEFINE moved(i) == weights.share[i] * Rate[2] * 10 * work[w].total + Rate[1] * work[w].signal[i] * weights.of
  <2>1. share = [i \in {1, 2, 3} |-> moved(i)]
    BY ThreeStrategies DEF Blend!Moved
  <2>2. \A a, b \in Int : a * b \in Int /\ a + b \in Int
    OBVIOUS
  <2>3. ASSUME NEW i \in {1, 2, 3} PROVE moved(i) \in Int
    <3>1. /\ weights.share[i] \in Int /\ Rate[2] \in Int /\ work[w].total \in Int /\ Rate[1] \in Int
          /\ work[w].signal[i] \in Int /\ weights.of \in Int /\ 10 \in Int
      BY <1>2, <1>3, <1>4
    <3>2. weights.share[i] * Rate[2] \in Int /\ Rate[1] * work[w].signal[i] \in Int
      BY <2>2, <3>1
    <3>3. weights.share[i] * Rate[2] * 10 \in Int /\ Rate[1] * work[w].signal[i] * weights.of \in Int
      BY <2>2, <3>1, <3>2
    <3>4. weights.share[i] * Rate[2] * 10 * work[w].total \in Int
      BY <2>2, <3>1, <3>3
    <3> QED BY <2>2, <3>3, <3>4
  <2> HIDE DEF moved, share
  <2> QED BY <2>1, <2>3
<1> HIDE DEF share, of
<1>7. SoundShares(new.share, new.of)
  BY <1>5, <1>6, NormalizedSound
<1> HIDE DEF new
<1>8. weights'.share = new.share /\ weights'.of = new.of /\ weights'.updates = weights.updates + 1
  BY <1>1
<1>9. weights' \in Blend!Weights
  BY <1>1, <1>2, <1>7, ThreeStrategies DEF SoundShares, Blend!Weights, Blend!Positive
<1>10. Blend!Sound(weights')
  BY <1>7, <1>8, SoundWeights DEF SoundShares
<1>11. Blend!Sound(weights)' <=> Blend!Sound(weights')
  BY DEF Blend!Sound, Blend!Total, Blend!At
<1> QED BY <1>9, <1>10, <1>11

(* WeightsKept: the weights of the strategies always sum to one, and none  *)
(* falls below the least, whatever feedback comes in whatever order.       *)
(* blend_tuner.rs: process_feedback, normalize_weights                     *)
LEMMA WeightsKept == LibraryAssumption /\ Blend!Spec => [](Blend!TypeOK /\ Blend!WeightsSound)
<1> SUFFICES ASSUME LibraryAssumption PROVE Blend!Spec => [](Blend!TypeOK /\ Blend!WeightsSound)
  OBVIOUS
<1> USE DEF Blend!WeightsSound
<1>1. Blend!BlendTunerAssumption
  BY DEF LibraryAssumption
<1>2. Blend!Init => Blend!TypeOK /\ Blend!WeightsSound
  BY <1>1 DEF Blend!Init, Blend!TypeOK, Blend!BlendTunerAssumption
<1>3. Blend!TypeOK /\ Blend!WeightsSound /\ [Blend!Next]_Blend!vars => (Blend!TypeOK /\ Blend!WeightsSound)'
  <2> SUFFICES ASSUME Blend!TypeOK, Blend!WeightsSound, [Blend!Next]_Blend!vars
               PROVE  Blend!TypeOK' /\ Blend!Sound(weights)'
    OBVIOUS
  <2> USE DEF Blend!TypeOK
  <2>1. ASSUME NEW c \in Assembled, NEW a \in Attribution, Blend!RecordAttributions(c, a)
        PROVE  Blend!TypeOK' /\ Blend!Sound(weights)'
    <3>1. attributions' = [attributions EXCEPT ![c] = a] /\ weights' = weights /\ work' = work
      BY <2>1 DEF Blend!RecordAttributions
    <3> QED BY <3>1 DEF Blend!Sound, Blend!Total, Blend!At
  <2>2. ASSUME NEW w \in Worker, NEW c \in Assembled, NEW l \in Given, Blend!ReadAttributions(w, c, l)
        PROVE  Blend!TypeOK' /\ Blend!Sound(weights)'
    <3> DEFINE a == attributions[c]
    <3>1. /\ a # None /\ Blend!Weighed(a, l) > 0 /\ weights' = weights /\ attributions' = attributions
          /\ work' = [work EXCEPT ![w] = [at |-> "update", context |-> c, signal |-> Blend!Signal(a, l),
                                          total |-> Blend!Weighed(a, l)]]
      BY <2>2 DEF Blend!ReadAttributions
    <3>2. a \in Attribution
      BY <3>1
    <3> HIDE DEF a
    <3>3. Blend!Signal(a, l) \in [Blend!Index -> Int] /\ Blend!Weighed(a, l) \in Nat
      BY <1>1, <3>2 DEF Blend!BlendTunerAssumption
    <3>4. [at |-> "update", context |-> c, signal |-> Blend!Signal(a, l), total |-> Blend!Weighed(a, l)] \in Blend!Job
      BY <3>1, <3>3 DEF Blend!Job, Blend!Positive
    <3>5. work' \in [Worker -> Blend!Job \cup {None}]
      BY <3>1, <3>4
    <3> QED BY <3>1, <3>5 DEF Blend!Sound, Blend!Total, Blend!At
  <2>3. ASSUME NEW w \in Worker, Blend!UpdateWeights(w)
        PROVE  Blend!TypeOK' /\ Blend!Sound(weights)'
    <3>1. weights' \in Blend!Weights /\ Blend!Sound(weights)'
      BY <1>1, <2>3, UpdateKeeps
    <3>2. work[w] \in Blend!Job /\ work' = [work EXCEPT ![w] = [work[w] EXCEPT !.at = "clean"]] /\ attributions' = attributions
      BY <2>3 DEF Blend!UpdateWeights
    <3>3. [work[w] EXCEPT !.at = "clean"] \in Blend!Job
      BY <3>2 DEF Blend!Job
    <3>4. work' \in [Worker -> Blend!Job \cup {None}]
      BY <3>2, <3>3
    <3> QED BY <3>1, <3>2, <3>4
  <2>4. ASSUME NEW w \in Worker, Blend!CleanUp(w)
        PROVE  Blend!TypeOK' /\ Blend!Sound(weights)'
    <3>1. /\ weights' = weights /\ work' = [work EXCEPT ![w] = None]
          /\ attributions' = [attributions EXCEPT ![work[w].context] = None]
      BY <2>4 DEF Blend!CleanUp
    <3> QED BY <3>1 DEF Blend!Sound, Blend!Total, Blend!At
  <2>5. CASE Blend!SetLearnedWeights
    <3>1. weights' \in Preset /\ attributions' = attributions /\ work' = work
      BY <2>5 DEF Blend!SetLearnedWeights
    <3>2. weights' \in Blend!Weights /\ Blend!Sound(weights')
      BY <1>1, <3>1 DEF Blend!BlendTunerAssumption
    <3>3. Blend!Sound(weights)' <=> Blend!Sound(weights')
      BY DEF Blend!Sound, Blend!Total, Blend!At
    <3> QED BY <3>1, <3>2, <3>3
  <2>6. CASE UNCHANGED Blend!vars
    BY <2>6 DEF Blend!vars, Blend!Sound, Blend!Total, Blend!At
  <2> QED BY <2>1, <2>2, <2>3, <2>4, <2>5, <2>6 DEF Blend!Next
<1> QED BY <1>2, <1>3, PTL DEF Blend!Spec

(* Among the scores that are there is a lowest and a highest one.          *)
LEMMA LowestScore ==
  ASSUME NEW S \in SUBSET {1, 2, 3}, S # {}, NEW f \in [S -> Int]
  PROVE  \E i \in S : \A j \in S : f[i] <= f[j]
<1> DEFINE g == [i \in {1, 2, 3} |-> IF i \in S THEN f[i] ELSE 0]
<1>1. \A i \in S : f[i] \in Int
  OBVIOUS
<1>2. SUFFICES ASSUME \A i \in S : \E j \in S : f[j] < f[i] PROVE FALSE
  BY <1>1
<1>3. PICK a \in S : TRUE
  OBVIOUS
<1>4. PICK b \in S : f[b] < f[a]
  BY <1>2
<1>5. PICK c \in S : f[c] < f[b]
  BY <1>2
<1>6. PICK d \in S : f[d] < f[c]
  BY <1>2
<1>7. /\ f[a] \in Int /\ f[b] \in Int /\ f[c] \in Int /\ f[d] \in Int
      /\ f[d] < f[c] /\ f[c] < f[b] /\ f[b] < f[a]
  BY <1>1, <1>4, <1>5, <1>6
<1>8. a # b /\ a # c /\ a # d /\ b # c /\ b # d /\ c # d
  BY <1>7
<1>9. a \in {1, 2, 3} /\ b \in {1, 2, 3} /\ c \in {1, 2, 3} /\ d \in {1, 2, 3}
  OBVIOUS
<1> QED BY <1>8, <1>9

LEMMA HighestScore ==
  ASSUME NEW S \in SUBSET {1, 2, 3}, S # {}, NEW f \in [S -> Int]
  PROVE  \E i \in S : \A j \in S : f[j] <= f[i]
<1> DEFINE g == [i \in S |-> 0 - f[i]]
<1>1. \A i \in S : f[i] \in Int /\ g[i] = 0 - f[i] /\ g[i] \in Int
  OBVIOUS
<1>2. g \in [S -> Int]
  BY <1>1
<1> HIDE DEF g
<1>3. PICK i \in S : \A j \in S : g[i] <= g[j]
  BY <1>2, LowestScore
<1>4. \A j \in S : f[j] <= f[i]
  BY <1>1, <1>3
<1> QED BY <1>4

LEMMA BlendLies ==
  ASSUME Blend!BlendTunerAssumption, Blend!TypeOK, Blend!WeightsSound
  PROVE  Blend!BlendBetween
<1> SUFFICES ASSUME NEW S \in (SUBSET Blend!Index) \ {{}}, NEW scores \in [S -> Similarity]
             PROVE  LET mix == Blend!Blend(scores) IN
                    /\ mix.of > 0
                    /\ \E i, j \in DOMAIN scores :
                          mix.of * scores[i] <= mix.sum /\ mix.sum <= mix.of * scores[j]
  BY DEF Blend!BlendBetween, Blend!Scores
<1>1. S \in SUBSET {1, 2, 3} /\ S # {} /\ DOMAIN scores = S /\ scores \in [S -> Int]
  BY ThreeStrategies DEF Blend!BlendTunerAssumption
<1>2. /\ weights.share \in [{1, 2, 3} -> Int] /\ weights.of \in Nat \ {0}
      /\ \A i \in {1, 2, 3} : weights.share[i] * LeastShare[2] >= weights.of * LeastShare[1]
  BY ThreeStrategies DEF Blend!TypeOK, Blend!Weights, Blend!Positive, Blend!WeightsSound, Blend!Sound
<1>3. ASSUME NEW i \in {1, 2, 3} PROVE weights.share[i] \in Int /\ weights.share[i] > 0
  <2> DEFINE most == LeastShare[1]
             least == LeastShare[2]
  <2>1. most \in Nat \ {0} /\ least \in Nat \ {0}
    BY DEF Blend!BlendTunerAssumption, Blend!Positive
  <2>2. weights.share[i] \in Int /\ weights.share[i] * least >= weights.of * most
    BY <1>2
  <2> HIDE DEF most, least
  <2>3. weights.of * most > 0 /\ weights.of * most \in Int /\ weights.share[i] * least \in Int
    BY <1>2, <2>1, <2>2, Cancels
  <2>4. least * weights.share[i] > 0
    BY <2>1, <2>2, <2>3
  <2> QED BY <2>1, <2>2, <2>4, Cancels
<1> DEFINE used == [i \in S |-> weights.share[i]]
           weighted == [i \in S |-> used[i] * scores[i]]
           u(i) == Blend!At(used, i)
           v(i) == Blend!At(weighted, i)
           of == u(1) + u(2) + u(3)
           sum == v(1) + v(2) + v(3)
<1>4. Blend!Blend(scores).of = of /\ Blend!Blend(scores).sum = sum
  BY <1>1 DEF Blend!Blend, Blend!Total
<1>5. ASSUME NEW i \in {1, 2, 3}
      PROVE  /\ u(i) \in Nat /\ v(i) \in Int
             /\ i \in S => u(i) > 0 /\ scores[i] \in Int /\ v(i) = u(i) * scores[i]
             /\ i \notin S => u(i) = 0 /\ v(i) = 0
  <2>1. CASE i \in S
    <3>1. u(i) = weights.share[i] /\ v(i) = weights.share[i] * scores[i] /\ scores[i] \in Int
      BY <1>1, <2>1 DEF Blend!At
    <3> QED BY <1>3, <2>1, <3>1
  <2>2. CASE i \notin S
    BY <2>2 DEF Blend!At
  <2> QED BY <2>1, <2>2
<1> HIDE DEF u, v, used, weighted
<1>6. PICK lo \in S : \A j \in S : scores[lo] <= scores[j]
  BY <1>1, LowestScore
<1>7. PICK hi \in S : \A j \in S : scores[j] <= scores[hi]
  BY <1>1, HighestScore
<1>8. scores[lo] \in Int /\ scores[hi] \in Int /\ lo \in {1, 2, 3} /\ hi \in {1, 2, 3}
  BY <1>1
<1>9. ASSUME NEW i \in {1, 2, 3} PROVE u(i) * scores[lo] <= v(i) /\ v(i) <= u(i) * scores[hi]
  <2>1. CASE i \in S
    <3>1. u(i) \in Nat \ {0} /\ scores[i] \in Int /\ v(i) = u(i) * scores[i]
          /\ scores[lo] <= scores[i] /\ scores[i] <= scores[hi]
      BY <1>5, <1>6, <1>7, <2>1
    <3>2. u(i) * scores[i] >= u(i) * scores[lo] /\ u(i) * scores[hi] >= u(i) * scores[i]
      BY <1>8, <3>1, Cancels
    <3>3. u(i) * scores[i] \in Int /\ u(i) * scores[lo] \in Int /\ u(i) * scores[hi] \in Int
      BY <1>8, <3>1
    <3> QED BY <3>1, <3>2, <3>3
  <2>2. CASE i \notin S
    BY <1>5, <1>8, <2>2
  <2> QED BY <2>1, <2>2
<1>10. of > 0
  <2>1. u(1) \in Nat /\ u(2) \in Nat /\ u(3) \in Nat /\ (u(1) > 0 \/ u(2) > 0 \/ u(3) > 0)
    BY <1>5, <1>6, <1>8
  <2> QED BY <2>1
<1>11. ASSUME NEW x \in Int
       PROVE  /\ of * x = u(1) * x + u(2) * x + u(3) * x
              /\ u(1) * x \in Int /\ u(2) * x \in Int /\ u(3) * x \in Int
  <2>1. u(1) \in Int /\ u(2) \in Int /\ u(3) \in Int
    BY <1>5
  <2> QED BY <2>1
<1>12. v(1) \in Int /\ v(2) \in Int /\ v(3) \in Int
  BY <1>5
<1>13. of * scores[lo] <= sum
  <2>1. /\ u(1) * scores[lo] <= v(1) /\ u(2) * scores[lo] <= v(2) /\ u(3) * scores[lo] <= v(3)
    BY <1>9
  <2> QED BY <1>8, <1>11, <1>12, <2>1
<1>14. sum <= of * scores[hi]
  <2>1. /\ v(1) <= u(1) * scores[hi] /\ v(2) <= u(2) * scores[hi] /\ v(3) <= u(3) * scores[hi]
    BY <1>9
  <2> QED BY <1>8, <1>11, <1>12, <2>1
<1> HIDE DEF of, sum
<1> QED BY <1>1, <1>4, <1>10, <1>13, <1>14

(* FeedbackLearned: however the recordings of several requests interleave, *)
(* a feedback that is recorded and kept is found by its context and counted *)
(* by its triples, and the history never outgrows its limit; whatever      *)
(* feedback says and in whatever order it is processed, the weights of the *)
(* strategies sum to one, none is below the least, and a blend of scores   *)
(* lies between two of them.                                               *)
(* inference/feedback.rs; inference/blend_tuner.rs; query/fusion.rs        *)
THEOREM FeedbackLearned == Spec => []LearningSound
<1>1. RecordsFit /\ Blend!TypeOK /\ Blend!WeightsSound => LearningSound
  BY LibraryAssumption, RecordsFound, BlendLies DEF LearningSound, Blend!BlendSound
<1>2. Spec => []RecordsFit /\ [](Blend!TypeOK /\ Blend!WeightsSound)
  BY LibraryAssumption, PartsRun, RecordsKept, WeightsKept, PTL
<1> QED BY <1>1, <1>2, PTL

-----------------------------------------------------------------------------
(* The components together.                                                *)

(* RequestsTold: neither a read nor a list of the social tools fails,      *)
(* misses what was there all the time or tells what nobody said, however   *)
(* the calls of others fall between its own.                               *)
(* api/mod.rs, mcp/tools.rs: the read handlers and the social tools        *)
THEOREM RequestsTold == Spec => []ReadsAnswered
<1>1. (Requests!TypeOK /\ Requests!ReadsAnswered) /\ Social!Told => ReadsAnswered
  BY DEF ReadsAnswered
<1> QED BY <1>1, LibraryAssumption, PartsRun, ReadsTell, SocialTold, PTL

(* LibraryTyped: the variables of every component keep their types.        *)
(* mmap_store.rs, spring.rs, strategy_selector.rs, storage/postgres.rs,    *)
(* vkb/postgres.rs, api/mod.rs, inference/feedback.rs,                     *)
(* inference/blend_tuner.rs, context/working_set.rs                        *)
THEOREM LibraryTyped == Spec => []TypeOK
<1>1. /\ File!TypeOK /\ Springs!TypeOK /\ PgTriples!TypeOK /\ PgTriples!LinksKept
      /\ PgVkb!TypeOK /\ PgVkb!StatusFitsConfidence /\ Requests!TypeOK /\ Requests!ReadsAnswered
      /\ RecordsFit /\ Blend!TypeOK /\ Blend!WeightsSound /\ Working!TypeOK
      => TypeOK
  BY DEF TypeOK, RecordsFit
<1>2. Spec => /\ []File!TypeOK /\ []Springs!TypeOK
              /\ [](PgTriples!TypeOK /\ PgTriples!LinksKept)
              /\ [](PgVkb!TypeOK /\ PgVkb!StatusFitsConfidence)
              /\ [](Requests!TypeOK /\ Requests!ReadsAnswered)
  BY LibraryAssumption, PartsRun, FileTyped, SpringsTyped, ProvenanceFits, StatusFits, ReadsTell
<1>3. Spec => /\ []RecordsFit /\ [](Blend!TypeOK /\ Blend!WeightsSound) /\ []Working!TypeOK
  BY LibraryAssumption, PartsRun, RecordsKept, WeightsKept, WorkingTyped, PTL
<1> QED BY <1>1, <1>2, <1>3, PTL

=============================================================================
