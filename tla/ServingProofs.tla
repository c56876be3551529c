---------------------------- MODULE ServingProofs ----------------------------
(***************************************************************************)
(* Proofs about Serving, for any nodes, triples, requests, dimensions and  *)
(* limits.                                                                 *)
(*                                                                         *)
(* A request is described by where it is: which operations can be there,   *)
(* what it has looked at, and what it may still answer.  Only insertions   *)
(* and evictions, which change the triples, and the installation of new    *)
(* vectors touch a request from outside.                                   *)
(***************************************************************************)
EXTENDS Serving, FiniteSetTheorems, TLAPS

Most == Limit + 2 * Cardinality(Node)

Requests ==
    [op : Op \cup {"none"}, at : Site, node : Node, dim : Dims \cup {1}, short : BOOLEAN,
     view : SUBSET Link, todo : 0..Most, width : 0..Most, found : SUBSET Link, ok : BOOLEAN,
     flagged : BOOLEAN, failed : BOOLEAN, saw : BOOLEAN, old : BOOLEAN, mixed : BOOLEAN,
     had : SUBSET Node, always : SUBSET Link]

Ranks == {"search", "mcp_search", "tiered"}
Retrievals == {"neighbors", "resilient"}

(* The operations that can be at each place. *)
Placed(j) ==
    /\ j.at = "idle" => j.op = "none"
    /\ j.at \in {"view", "install"} => j.op \in Recompute
    /\ j.at = "report" => j.op = "spectral"
    /\ j.at = "find" => j.op \in Ranks \cup {"resilient", "assemble", "combined"}
    /\ j.at = "vectors" => j.op \in Ranks \cup {"assemble"}
    /\ j.at \in {"has", "get"} => j.op = "resilient"
    /\ j.at \in {"near", "cold"} => j.op \in Retrievals
    /\ j.at \in {"full", "minimal"} => j.op = "neighbors"
    /\ j.at \in {"target", "rank"} => j.op = "combined"
    /\ j.at = "around" => j.op \in {"search", "combined"}
    /\ j.at = "resolve" => j.op \in Ranks
    /\ j.at \in {"widen", "weigh", "sure"} => j.op = "tiered"
    /\ j.at \in {"expand", "again", "score", "scoring"} => j.op = "assemble"

(* What a request has seen of the vectors. *)
Ranked(j) ==
    /\ j.op \notin {"tiered", "combined"} => ~j.mixed
    /\ j.at \in {"find", "vectors", "has", "get", "full"} => ~j.saw /\ ~j.old
    /\ j.at = "scoring" => ~j.old

(* What a retrieval may answer. *)
Honest(j, ls) ==
    /\ \A l \in j.always : l \in ls /\ j.node \in {l[1], l[2]}
    /\ j.at \in {"find", "has", "get", "full", "near"} => ~j.failed /\ ~j.flagged
    /\ j.at = "near" => j.saw
    /\ j.op \in Retrievals /\ j.at = "done" =>
        /\ j.ok
        /\ ~j.flagged /\ (j.op = "neighbors" \/ j.saw) =>
            /\ ~j.failed /\ j.saw
            /\ j.always \subseteq j.found \/ Cardinality(j.found) = Limit

Several(S) == \E m, n \in S : m # n

(* What a recomputation will find vectors for. *)
Replaces(j, ls) ==
    /\ j.at = "view" => j.had \subseteq EndsOf(ls) /\ (j.had # {} => Several(EndsOf(ls)))
    /\ j.at = "install" => j.had \subseteq EndsOf(j.view) /\ (j.had # {} => Several(EndsOf(j.view)))

Sound(j, ls) == j \in Requests /\ Placed(j) /\ Ranked(j) /\ Honest(j, ls) /\ Replaces(j, ls)

StoreSound ==
    /\ nodes \in SUBSET Node /\ links \in SUBSET Link /\ IsFiniteSet(links)
    /\ vectors \in [of : SUBSET Node, dim : Nat]
    /\ (vectors.dim = 0) = (vectors.of = {})

RequestsSound == DOMAIN job = Caller /\ \A c \in Caller : Sound(job[c], links)

(* The reports: what the log says of a component, and its record. *)
Reports == Seq([about : Component \cup {"level"}, ok : BOOLEAN])
Since(x, i) == {k \in (i + 1)..Len(log) : log[k] = [about |-> x, ok |-> TRUE]}

Tracks(x) ==
    /\ ~status[x].entry => Failures(x) = {} /\ ~status[x].failing
    /\ status[x].failing =>
        \E i \in Failures(x) :
            /\ \A k \in Failures(x) : k <= i
            /\ Cardinality(Since(x, i)) = status[x].successes /\ status[x].successes < 3
    /\ ~status[x].failing => \A i \in Failures(x) : Cardinality(Since(x, i)) >= 3

HealthSound ==
    /\ status \in [Component -> [failing : BOOLEAN, successes : 0..3, entry : BOOLEAN]]
    /\ level \in Level /\ log \in Reports
    /\ \A x \in Component : Tracks(x)
    /\ LevelSet \/ level = LevelOf(status)

SInv == StoreSound /\ RequestsSound /\ HealthSound

-----------------------------------------------------------------------------
(* Sets of nodes.                                                          *)

LEMMA SeveralCounts ==
  ASSUME NEW S, IsFiniteSet(S)
  PROVE  Cardinality(S) \in Nat /\ (Cardinality(S) > 1 <=> Several(S))
<1>1. Cardinality(S) \in Nat
  BY FS_CardinalityType
<1>2. ASSUME Several(S) PROVE Cardinality(S) # 0 /\ Cardinality(S) # 1
  BY <1>2, FS_EmptySet, FS_Singleton DEF Several
<1>3. ASSUME ~Several(S) PROVE Cardinality(S) = 0 \/ Cardinality(S) = 1
  <2>1. S = {} \/ \E n : S = {n}
    BY <1>3 DEF Several
  <2> QED BY <2>1, FS_EmptySet, FS_Singleton
<1> QED BY <1>1, <1>2, <1>3

LEMMA EndsFinite ==
  ASSUME NEW ls \in SUBSET Link
  PROVE  EndsOf(ls) \subseteq Node /\ IsFiniteSet(EndsOf(ls)) /\ Cardinality(EndsOf(ls)) \in Nat
<1>1. EndsOf(ls) \subseteq Node
  BY ServingAssumption DEF EndsOf
<1> QED BY <1>1, ServingAssumption, FS_Subset, FS_CardinalityType

LEMMA NodesCounted ==
  ASSUME NEW S \in SUBSET Node
  PROVE  IsFiniteSet(S) /\ Cardinality(S) \in Nat /\ Cardinality(S) <= Cardinality(Node)
         /\ Cardinality(Node) \in Nat /\ (Cardinality(S) = 0 <=> S = {})
  BY ServingAssumption, FS_Subset, FS_CardinalityType, FS_EmptySet

LEMMA MostTyped == Most \in Nat /\ 0 \in 0..Most /\ Limit \in Nat \ {0} /\ Limit <= Most
<1>1. Cardinality(Node) \in Nat
  BY ServingAssumption, FS_CardinalityType
<1>2. Limit \in Nat \ {0}
  BY ServingAssumption
<1> QED BY <1>1, <1>2 DEF Most

-----------------------------------------------------------------------------
(* Requests that go on by themselves.                                      *)

LEMMA Moves ==
  ASSUME SInv, NEW c \in Caller, NEW r, Sound(r, links), Become(c, r), Quietly
  PROVE  SInv'
<1>1. UNCHANGED <<nodes, links, vectors, status, level, log>>
  BY DEF Quietly, store, health
<1>2. StoreSound'
  BY <1>1 DEF SInv, StoreSound
<1>3. HealthSound'
  BY <1>1 DEF SInv, HealthSound, Tracks, Failures, Since, LevelSet, LevelOf
<1>4. DOMAIN job = Caller /\ \A d \in Caller : Sound(job[d], links)
  BY DEF SInv, RequestsSound
<1>5. job' = [job EXCEPT ![c] = r]
  BY DEF Become
<1>6. DOMAIN job' = Caller /\ \A d \in Caller : Sound(job'[d], links)
  BY <1>4, <1>5
<1>7. RequestsSound'
  BY <1>1, <1>6 DEF RequestsSound
<1> QED BY <1>2, <1>3, <1>7 DEF SInv

LEMMA Here ==
  ASSUME SInv, NEW c \in Caller
  PROVE  /\ job[c] \in Requests /\ Placed(job[c]) /\ Ranked(job[c])
         /\ Honest(job[c], links) /\ Replaces(job[c], links)
  BY DEF SInv, RequestsSound, Sound

LEMMA IdleSound == \A ls : Sound(Idle, ls)
<1>1. (CHOOSE n \in Node : TRUE) \in Node
  BY ServingAssumption
<1>2. Idle \in Requests
  BY <1>1, MostTyped DEF Idle, Requests, Site
<1>3. Idle.op = "none" /\ Idle.at = "idle" /\ Idle.always = {} /\ ~Idle.mixed
  BY DEF Idle
<1> HIDE DEF Idle
<1> QED BY <1>2, <1>3 DEF Sound, Placed, Ranked, Honest, Replaces, Retrievals

LEMMA BeginKeeps == ASSUME SInv, NEW c \in Caller, Begin(c) PROVE SInv'
<1>1. PICK op \in Op, n \in Node, d \in Dims \cup {1}, short \in BOOLEAN :
        Become(c, [Idle EXCEPT !.op = op, !.at = Start(op), !.node = n, !.dim = d, !.short = short,
                               !.had = IF op \in Recompute /\ Cardinality(EndsOf(links)) > 1
                                       THEN vectors.of \cap EndsOf(links) ELSE {},
                               !.always = IF op \in Retrievals THEN Touching(n) ELSE {}])
  BY DEF Begin, Retrievals
<1> DEFINE had == IF op \in Recompute /\ Cardinality(EndsOf(links)) > 1
                  THEN vectors.of \cap EndsOf(links) ELSE {}
           always == IF op \in Retrievals THEN Touching(n) ELSE {}
           r == [Idle EXCEPT !.op = op, !.at = Start(op), !.node = n, !.dim = d, !.short = short,
                             !.had = had, !.always = always]
<1>2. vectors.of \subseteq Node /\ links \subseteq Link
  BY DEF SInv, StoreSound
<1>3. had \subseteq Node /\ had \subseteq EndsOf(links) /\ (had # {} => Several(EndsOf(links)))
  BY <1>2, EndsFinite, SeveralCounts
<1>4. always \subseteq Link /\ \A l \in always : l \in links /\ n \in {l[1], l[2]}
  BY <1>2 DEF Touching
<1> HIDE DEF had, always
<1>5. Idle \in Requests /\ ~Idle.mixed /\ ~Idle.saw /\ ~Idle.old /\ ~Idle.failed /\ ~Idle.flagged
  BY IdleSound DEF Sound, Idle
<1>6. Start(op) \in Site
  BY DEF Start, Site
<1>7. /\ r \in Requests /\ r.op = op /\ r.at = Start(op) /\ r.node = n /\ r.had = had
      /\ r.always = always /\ ~r.mixed /\ ~r.saw /\ ~r.old /\ ~r.failed /\ ~r.flagged
  BY <1>3, <1>4, <1>5, <1>6 DEF Requests
<1> HIDE DEF r
<1>8. /\ op \in Recompute => r.at = "view"
      /\ op = "neighbors" => r.at = "full"
      /\ op \notin Recompute /\ op # "neighbors" => r.at = "find"
      /\ op \in Recompute \cup Ranks \cup {"resilient", "neighbors", "assemble", "combined"}
  <2>1. op \in Recompute \cup Ranks \cup {"resilient", "neighbors", "assemble", "combined"}
    BY ServingAssumption DEF Ranks
  <2> QED BY <1>7, <2>1 DEF Start, Recompute
<1>9. Placed(r) /\ Ranked(r)
  BY <1>7, <1>8 DEF Placed, Ranked, Recompute
<1>10. Honest(r, links) /\ Replaces(r, links)
  BY <1>3, <1>4, <1>7, <1>8 DEF Honest, Replaces
<1>11. Sound(r, links) /\ Become(c, r)
  BY <1>1, <1>7, <1>9, <1>10 DEF Sound, r, had, always
<1> QED BY <1>11, Moves DEF Begin

LEMMA CloseKeeps == ASSUME SInv, NEW c \in Caller, Close(c) PROVE SInv'
  BY IdleSound, Moves DEF Close

(* A request that fails, or ends, without having seen more. *)
LEMMA Ends ==
  ASSUME SInv, NEW c \in Caller, NEW r \in Requests, Done(c, r), Quietly,
         r.op = job[c].op, r.mixed = job[c].mixed, r.always = job[c].always, r.node = job[c].node,
         r.op \in Retrievals => Honest([r EXCEPT !.at = "done"], links)
  PROVE  SInv'
<1> DEFINE q == [r EXCEPT !.at = "done"]
<1>1. /\ q \in Requests /\ q.at = "done" /\ q.op = job[c].op /\ q.mixed = job[c].mixed
      /\ q.always = job[c].always /\ q.node = job[c].node
  BY DEF Requests, Site
<1>2. q.op \in Retrievals => Honest(q, links)
  OBVIOUS
<1>3. Become(c, q)
  BY DEF Done
<1> HIDE DEF q
<1>4. Placed(q) /\ Ranked(q) /\ Honest(q, links) /\ Replaces(q, links)
  BY <1>1, <1>2, Here DEF Placed, Ranked, Honest, Replaces
<1> QED BY <1>1, <1>3, <1>4, Moves DEF Sound

LEMMA FaultKeeps ==
  ASSUME SInv, NEW c \in Caller, Fault(c), Quietly, job[c].op \notin Retrievals
  PROVE  SInv'
<1> DEFINE r == [job[c] EXCEPT !.failed = TRUE]
<1>1. job[c] \in Requests
  BY Here
<1>2. /\ r \in Requests /\ r.op = job[c].op /\ r.mixed = job[c].mixed
      /\ r.always = job[c].always /\ r.node = job[c].node
  BY <1>1 DEF Requests
<1>3. Done(c, r)
  BY DEF Fault
<1> HIDE DEF r
<1> QED BY <1>2, <1>3, Ends

LEMMA AnswerKeeps ==
  ASSUME SInv, NEW c \in Caller, NEW ok \in BOOLEAN, Answer(c, ok), Quietly, job[c].op \notin Retrievals
  PROVE  SInv'
<1> DEFINE r == [job[c] EXCEPT !.ok = ok]
<1>1. job[c] \in Requests
  BY Here
<1>2. /\ r \in Requests /\ r.op = job[c].op /\ r.mixed = job[c].mixed
      /\ r.always = job[c].always /\ r.node = job[c].node
  BY <1>1 DEF Requests
<1>3. Done(c, r)
  BY DEF Answer
<1> HIDE DEF r
<1> QED BY <1>2, <1>3, Ends

(* A request that goes to another place, and has seen nothing new. *)
LEMMA GoKeeps ==
  ASSUME SInv, NEW c \in Caller, NEW at \in Site, Go(c, at), Quietly,
         Placed([job[c] EXCEPT !.at = at]),
         at \notin {"view", "install", "find", "near", "scoring", "done"},
         at \in {"has", "get", "full", "vectors"} =>
            job[c].at \in {"find", "has", "get", "full", "vectors"}
  PROVE  SInv'
<1> DEFINE r == [job[c] EXCEPT !.at = at]
<1>1. /\ job[c] \in Requests /\ Ranked(job[c]) /\ Honest(job[c], links) /\ Placed(job[c])
  BY Here
<1>2. /\ r \in Requests /\ r.at = at /\ r.op = job[c].op /\ r.mixed = job[c].mixed /\ r.saw = job[c].saw
      /\ r.old = job[c].old /\ r.failed = job[c].failed /\ r.flagged = job[c].flagged
      /\ r.always = job[c].always /\ r.node = job[c].node
  BY <1>1 DEF Requests
<1>3. Become(c, r) /\ Placed(r)
  BY DEF Go
<1> HIDE DEF r
<1>4. Ranked(r) /\ Replaces(r, links)
  BY <1>1, <1>2 DEF Ranked, Replaces
<1>5. Honest(r, links)
  <2>1. ASSUME at \in {"has", "get", "full"} PROVE ~r.failed /\ ~r.flagged
    <3>1. job[c].op \in Retrievals
      BY <1>2, <1>3, <2>1 DEF Placed, Retrievals
    <3>2. job[c].at # "vectors"
      BY <1>1, <3>1 DEF Placed, Retrievals, Ranks
    <3> QED BY <1>1, <1>2, <2>1, <3>2 DEF Honest
  <2> QED BY <1>1, <1>2, <2>1 DEF Honest
<1> QED BY <1>2, <1>3, <1>4, <1>5, Moves DEF Sound

-----------------------------------------------------------------------------
(* One place after another.                                                *)

LEMMA Steps ==
  ASSUME SInv, NEW c \in Caller, NEW r \in Requests, Become(c, r), Quietly, Placed(r),
         r.op \notin Retrievals, r.op = job[c].op, r.always = job[c].always, r.node = job[c].node,
         r.at \notin {"view", "install", "find", "vectors", "scoring", "near"},
         r.mixed = job[c].mixed \/ r.op \in {"tiered", "combined"}
  PROVE  SInv'
<1>1. Ranked(job[c]) /\ Honest(job[c], links)
  BY Here
<1>2. r.at \notin {"has", "get", "full"}
  BY DEF Placed, Retrievals
<1>3. Ranked(r) /\ Honest(r, links) /\ Replaces(r, links)
  BY <1>1, <1>2 DEF Ranked, Honest, Replaces
<1> QED BY <1>3, Moves DEF Sound

LEMMA ViewKeeps == ASSUME SInv, NEW c \in Caller, View(c) PROVE SInv'
<1>1. /\ job[c] \in Requests /\ Ranked(job[c]) /\ Honest(job[c], links) /\ Placed(job[c])
      /\ Replaces(job[c], links) /\ job[c].at = "view" /\ Quietly
  BY Here DEF View
<1>2. job[c].op \notin Retrievals /\ links \subseteq Link /\ job[c].op \in Recompute
  BY <1>1 DEF Placed, Retrievals, Recompute, SInv, StoreSound
<1>3. ASSUME Become(c, [job[c] EXCEPT !.view = links, !.at = "install"]) PROVE SInv'
  <2> DEFINE r == [job[c] EXCEPT !.view = links, !.at = "install"]
  <2>1. /\ r \in Requests /\ r.at = "install" /\ r.op = job[c].op /\ r.view = links /\ r.had = job[c].had
        /\ r.mixed = job[c].mixed /\ r.always = job[c].always /\ r.node = job[c].node
    BY <1>1, <1>2 DEF Requests, Site
  <2> HIDE DEF r
  <2>2. Placed(r) /\ Ranked(r) /\ Honest(r, links) /\ Replaces(r, links)
    BY <1>1, <1>2, <2>1 DEF Placed, Ranked, Honest, Replaces
  <2>3. Become(c, r)
    BY <1>3 DEF r
  <2> QED BY <1>1, <2>1, <2>2, <2>3, Moves DEF Sound
<1>4. ASSUME Become(c, [job[c] EXCEPT !.failed = TRUE, !.at = "report"]), job[c].op = "spectral" PROVE SInv'
  <2> DEFINE r == [job[c] EXCEPT !.failed = TRUE, !.at = "report"]
  <2>1. /\ r \in Requests /\ r.at = "report" /\ r.op = job[c].op
        /\ r.mixed = job[c].mixed /\ r.always = job[c].always /\ r.node = job[c].node
    BY <1>1 DEF Requests, Site
  <2>2. Become(c, r)
    BY <1>4
  <2> HIDE DEF r
  <2>3. Placed(r)
    BY <2>1, <1>4 DEF Placed
  <2> QED BY <1>1, <1>2, <2>1, <2>2, <2>3, Steps
<1> QED BY <1>1, <1>2, <1>3, <1>4, FaultKeeps DEF View

LEMMA FindKeeps == ASSUME SInv, NEW c \in Caller, Find(c) PROVE SInv'
<1>1. /\ job[c] \in Requests /\ Honest(job[c], links) /\ Placed(job[c])
      /\ Ranked(job[c]) /\ job[c].at = "find" /\ Quietly
  BY Here DEF Find
<1>2. /\ job[c].op \in Ranks \cup {"resilient", "assemble", "combined"} /\ job[c].op # "none"
      /\ job[c].op \in Op
  BY <1>1 DEF Placed, Ranks, Requests
<1>3. ASSUME Go(c, Found[job[c].op]) PROVE SInv'
  <2> DEFINE at == Found[job[c].op]
  <2>1. /\ at = IF job[c].op = "resilient" THEN "has"
                ELSE IF job[c].op = "combined" THEN "target" ELSE "vectors"
    BY <1>2 DEF Found
  <2>2. at \in Site /\ at \in {"has", "target", "vectors"}
    BY <2>1 DEF Site
  <2> HIDE DEF at
  <2>3. [job[c] EXCEPT !.at = at].at = at /\ [job[c] EXCEPT !.at = at].op = job[c].op
    BY <1>1 DEF Requests
  <2>4. Placed([job[c] EXCEPT !.at = at])
    BY <1>2, <2>1, <2>2, <2>3 DEF Placed, Ranks
  <2> QED BY <1>1, <1>3, <2>2, <2>4, GoKeeps DEF at
<1>4. ASSUME NEW r \in Requests, Done(c, r), r.ok, r.op = job[c].op, r.mixed = job[c].mixed,
             r.always = job[c].always, r.node = job[c].node, r.op = "resilient",
             r.flagged \/ ~r.saw
      PROVE  SInv'
  <2> DEFINE q == [r EXCEPT !.at = "done"]
  <2>1. /\ q.at = "done" /\ q.op = "resilient" /\ q.ok /\ (q.flagged \/ ~q.saw)
        /\ q.always = job[c].always /\ q.node = job[c].node
    BY <1>4 DEF Requests
  <2> HIDE DEF q
  <2>2. Honest(q, links)
    BY <1>1, <2>1 DEF Honest
  <2> QED BY <1>1, <1>4, <2>2, Ends DEF q
<1>5. ASSUME Answer(c, job[c].op = "resilient") PROVE SInv'
  <2>1. CASE job[c].op = "resilient"
    <3> DEFINE r == [job[c] EXCEPT !.ok = TRUE]
    <3>1. /\ r \in Requests /\ r.ok /\ r.op = job[c].op /\ r.mixed = job[c].mixed
          /\ r.always = job[c].always /\ r.node = job[c].node /\ r.saw = job[c].saw
      BY <1>1 DEF Requests
    <3>2. Done(c, r)
      BY <1>5, <2>1 DEF Answer
    <3> HIDE DEF r
    <3>3. ~r.saw
      BY <1>1, <3>1 DEF Ranked
    <3> QED BY <2>1, <3>1, <3>2, <3>3, <1>4
  <2>2. CASE job[c].op # "resilient"
    <3>1. Answer(c, FALSE) /\ job[c].op \notin Retrievals
      BY <1>2, <1>5, <2>2 DEF Retrievals, Ranks
    <3> QED BY <1>1, <3>1, AnswerKeeps
  <2> QED BY <2>1, <2>2
<1>6. ASSUME job[c].op = "resilient",
             Done(c, [job[c] EXCEPT !.failed = TRUE, !.ok = TRUE, !.flagged = TRUE])
      PROVE  SInv'
  <2> DEFINE r == [job[c] EXCEPT !.failed = TRUE, !.ok = TRUE, !.flagged = TRUE]
  <2>1. /\ r \in Requests /\ r.ok /\ r.op = job[c].op /\ r.mixed = job[c].mixed
        /\ r.always = job[c].always /\ r.node = job[c].node /\ r.flagged
    BY <1>1 DEF Requests
  <2>2. Done(c, r)
    BY <1>6
  <2> HIDE DEF r
  <2> QED BY <1>6, <2>1, <2>2, <1>4
<1>7. ASSUME job[c].op # "resilient", Fault(c) PROVE SInv'
  <2>1. job[c].op \notin Retrievals
    BY <1>2, <1>7 DEF Retrievals, Ranks
  <2> QED BY <1>1, <1>7, <2>1, FaultKeeps
<1>8. \/ Go(c, Found[job[c].op]) \/ Answer(c, job[c].op = "resilient")
      \/ job[c].op = "resilient" /\ Done(c, [job[c] EXCEPT !.failed = TRUE, !.ok = TRUE, !.flagged = TRUE])
      \/ job[c].op # "resilient" /\ Fault(c)
  BY DEF Find
<1> QED BY <1>3, <1>5, <1>6, <1>7, <1>8

LEMMA VectorsKeep == ASSUME SInv, NEW c \in Caller, Vectors(c) PROVE SInv'
<1>1. /\ job[c] \in Requests /\ Honest(job[c], links) /\ Placed(job[c])
      /\ Ranked(job[c]) /\ job[c].at = "vectors" /\ Quietly
  BY Here DEF Vectors
<1>2. job[c].op \in Ranks \cup {"assemble"} /\ job[c].op \notin Retrievals /\ ~job[c].old
  BY <1>1 DEF Placed, Ranked, Ranks, Retrievals
<1>3. ASSUME NEW n \in Nearest, NEW at, at = IF job[c].op = "assemble" THEN "expand" ELSE "resolve",
             Become(c, [Looked(job[c]) EXCEPT !.todo = n, !.width = n, !.at = at])
      PROVE  SInv'
  <2> DEFINE r == [Looked(job[c]) EXCEPT !.todo = n, !.width = n, !.at = at]
  <2>1. n \in 0..Most
    <3>1. Cardinality(vectors.of) \in Nat
      BY NodesCounted DEF SInv, StoreSound
    <3> QED BY <3>1, MostTyped DEF Nearest, Lesser
  <2>2. at \in Site
    BY <1>3 DEF Site
  <2>3. /\ r \in Requests /\ r.at = at /\ r.op = job[c].op /\ r.mixed = job[c].mixed
        /\ r.always = job[c].always /\ r.node = job[c].node
    BY <1>1, <1>2, <2>1, <2>2 DEF Requests, Looked
  <2> HIDE DEF r
  <2>4. Placed(r)
    BY <1>2, <1>3, <2>3 DEF Placed, Ranks
  <2>5. Become(c, r)
    BY <1>3 DEF r
  <2> QED BY <1>1, <1>2, <1>3, <2>3, <2>4, <2>5, Steps
<1>4. ASSUME Become(c, [job[c] EXCEPT !.flagged = TRUE, !.at = "around"]), job[c].op = "search" PROVE SInv'
  <2> DEFINE r == [job[c] EXCEPT !.flagged = TRUE, !.at = "around"]
  <2>1. /\ r \in Requests /\ r.at = "around" /\ r.op = job[c].op /\ r.mixed = job[c].mixed
        /\ r.always = job[c].always /\ r.node = job[c].node
    BY <1>1 DEF Requests, Site
  <2>2. Become(c, r)
    BY <1>4
  <2> HIDE DEF r
  <2>3. Placed(r)
    BY <1>4, <2>1 DEF Placed
  <2> QED BY <1>1, <1>2, <2>1, <2>2, <2>3, Steps
<1>5. ASSUME Become(c, [job[c] EXCEPT !.todo = 1, !.at = "expand"]), job[c].op = "assemble" PROVE SInv'
  <2> DEFINE r == [job[c] EXCEPT !.todo = 1, !.at = "expand"]
  <2>0. 1 \in 0..Most
    BY MostTyped
  <2>1. /\ r \in Requests /\ r.at = "expand" /\ r.op = job[c].op /\ r.mixed = job[c].mixed
        /\ r.always = job[c].always /\ r.node = job[c].node
    BY <1>1, <2>0 DEF Requests, Site
  <2>2. Become(c, r)
    BY <1>5
  <2> HIDE DEF r
  <2>3. Placed(r)
    BY <1>5, <2>1 DEF Placed
  <2> QED BY <1>1, <1>2, <2>1, <2>2, <2>3, Steps
<1>6. \/ \E n \in Nearest : Become(c, [Looked(job[c]) EXCEPT !.todo = n, !.width = n,
                                  !.at = IF job[c].op = "assemble" THEN "expand" ELSE "resolve"])
      \/ job[c].op = "search" /\ Become(c, [job[c] EXCEPT !.flagged = TRUE, !.at = "around"])
      \/ job[c].op = "assemble" /\ Become(c, [job[c] EXCEPT !.todo = 1, !.at = "expand"])
      \/ Answer(c, FALSE)
  BY DEF Vectors
<1> QED BY <1>1, <1>2, <1>3, <1>4, <1>5, <1>6, AnswerKeeps

(* The number of results left is a number of results.                      *)
LEMMA CountsDown ==
  /\ \A n \in 0..Most : n > 0 => n - 1 \in 0..Most
  /\ \A n \in 0..Most : Lesser(n, 5) \in 0..Most
  /\ \A n \in 0..Limit : n \in 0..Most
  /\ \A S \in SUBSET Node : Cardinality(S) \in 0..Most /\ Lesser(Limit, Cardinality(S)) \in 0..Most
<1>1. Most \in Nat /\ Limit \in Nat /\ Limit <= Most
  BY MostTyped
<1>2. ASSUME NEW S \in SUBSET Node PROVE Cardinality(S) \in 0..Most
  <2>1. Cardinality(S) \in Nat /\ Cardinality(S) <= Cardinality(Node) /\ Cardinality(Node) \in Nat
    BY NodesCounted
  <2> QED BY <1>1, <2>1 DEF Most
<1> QED BY <1>1, <1>2 DEF Lesser

LEMMA AroundKeeps == ASSUME SInv, NEW c \in Caller, Around(c) PROVE SInv'
<1>1. /\ job[c] \in Requests /\ Placed(job[c]) /\ job[c].at = "around" /\ Quietly
  BY Here DEF Around
<1>2. job[c].op \in {"search", "combined"} /\ job[c].op \notin Retrievals
  BY <1>1 DEF Placed, Retrievals
<1>3. TwoHops(job[c].node) \subseteq Node
  <2>1. job[c].node \in Node /\ links \in SUBSET Link
    BY <1>1 DEF Requests, SInv, StoreSound
  <2>2. \A n \in Node : Hood(n) \subseteq Node
    BY <2>1, EndsFinite DEF Hood, Touching
  <2> QED BY <2>1, <2>2 DEF TwoHops
<1>4. ASSUME NEW at \in {"resolve", "rank"}, NEW n \in 0..Most,
             job[c].op = IF at = "resolve" THEN "search" ELSE "combined",
             Become(c, [job[c] EXCEPT !.at = at, !.todo = n])
      PROVE  SInv'
  <2> DEFINE r == [job[c] EXCEPT !.at = at, !.todo = n]
  <2>1. /\ r \in Requests /\ r.at = at /\ r.op = job[c].op /\ r.mixed = job[c].mixed
        /\ r.always = job[c].always /\ r.node = job[c].node
    BY <1>1 DEF Requests, Site
  <2>2. Become(c, r)
    BY <1>4
  <2> HIDE DEF r
  <2>3. Placed(r)
    BY <1>4, <2>1 DEF Placed, Ranks
  <2> QED BY <1>1, <1>2, <2>1, <2>2, <2>3, Steps
<1>5. \/ job[c].op = "search"
         /\ Become(c, [job[c] EXCEPT !.at = "resolve", !.todo = Lesser(Limit, Cardinality(TwoHops(job[c].node)))])
      \/ job[c].op = "combined"
         /\ Become(c, [job[c] EXCEPT !.at = "rank", !.todo = Cardinality(TwoHops(job[c].node))])
      \/ Fault(c)
  BY DEF Around
<1>6. Lesser(Limit, Cardinality(TwoHops(job[c].node))) \in 0..Most /\ Cardinality(TwoHops(job[c].node)) \in 0..Most
  BY <1>3, CountsDown
<1> QED BY <1>1, <1>2, <1>4, <1>5, <1>6, FaultKeeps

(* What the places of tier 2 and 3, of the working set and of the ranking  *)
(* have in common: a request that counts down, goes on, fails or ends.     *)
LEMMA Counts ==
  ASSUME SInv, NEW c \in Caller, Quietly, job[c].op \notin Retrievals,
         job[c].at \in {"resolve", "widen", "expand", "rank"}, job[c].todo > 0,
         Become(c, [job[c] EXCEPT !.todo = @ - 1])
  PROVE  SInv'
<1> DEFINE r == [job[c] EXCEPT !.todo = @ - 1]
<1>1. job[c] \in Requests /\ Placed(job[c])
  BY Here
<1>2. job[c].todo - 1 \in 0..Most
  BY <1>1, CountsDown DEF Requests
<1>3. /\ r \in Requests /\ r.at = job[c].at /\ r.op = job[c].op /\ r.mixed = job[c].mixed
      /\ r.always = job[c].always /\ r.node = job[c].node
  BY <1>1, <1>2 DEF Requests
<1>4. Become(c, r)
  OBVIOUS
<1> HIDE DEF r
<1>5. Placed(r)
  BY <1>1, <1>3 DEF Placed
<1> QED BY <1>3, <1>4, <1>5, Steps

LEMMA ResolveKeeps == ASSUME SInv, NEW c \in Caller, Resolve(c) PROVE SInv'
<1>1. /\ job[c] \in Requests /\ Placed(job[c]) /\ job[c].at = "resolve" /\ Quietly
  BY Here DEF Resolve
<1>2. job[c].op \in Ranks /\ job[c].op \notin Retrievals
  BY <1>1 DEF Placed, Ranks, Retrievals
<1>3. ASSUME job[c].op = "tiered",
             Become(c, [job[c] EXCEPT !.at = "widen", !.todo = Lesser(job[c].width, 5)])
      PROVE  SInv'
  <2> DEFINE r == [job[c] EXCEPT !.at = "widen", !.todo = Lesser(job[c].width, 5)]
  <2>0. Lesser(job[c].width, 5) \in 0..Most
    BY <1>1, CountsDown DEF Requests
  <2>1. /\ r \in Requests /\ r.at = "widen" /\ r.op = job[c].op /\ r.mixed = job[c].mixed
        /\ r.always = job[c].always /\ r.node = job[c].node
    BY <1>1, <2>0 DEF Requests, Site
  <2>2. Become(c, r)
    BY <1>3
  <2> HIDE DEF r
  <2>3. Placed(r)
    BY <1>3, <2>1 DEF Placed
  <2> QED BY <1>1, <1>2, <2>1, <2>2, <2>3, Steps
<1>4. \/ job[c].todo > 0 /\ (Become(c, [job[c] EXCEPT !.todo = @ - 1]) \/ Fault(c))
      \/ Answer(c, TRUE)
      \/ job[c].op = "tiered" /\ Become(c, [job[c] EXCEPT !.at = "widen", !.todo = Lesser(job[c].width, 5)])
  BY DEF Resolve
<1> QED BY <1>1, <1>2, <1>3, <1>4, Counts, FaultKeeps, AnswerKeeps

LEMMA TierKeeps == ASSUME SInv, NEW c \in Caller, Widen(c) \/ Weigh(c) \/ Sure(c) PROVE SInv'
<1>1. /\ job[c] \in Requests /\ Placed(job[c]) /\ job[c].at \in {"widen", "weigh", "sure"} /\ Quietly
  BY Here DEF Widen, Weigh, Sure
<1>2. job[c].op = "tiered" /\ job[c].op \notin Retrievals
  BY <1>1 DEF Placed, Retrievals
<1>3. ASSUME NEW r \in Requests, Become(c, r), r.at \in {"widen", "weigh", "sure"}, r.op = job[c].op,
             r.always = job[c].always, r.node = job[c].node
      PROVE  SInv'
  <2>1. Placed(r)
    BY <1>2, <1>3 DEF Placed
  <2> QED BY <1>1, <1>2, <1>3, <2>1, Steps
<1>4. ASSUME NEW at \in {"widen", "sure"}, Go(c, at) PROVE SInv'
  <2> DEFINE r == [job[c] EXCEPT !.at = at]
  <2>1. /\ r \in Requests /\ r.at = at /\ r.op = job[c].op /\ r.always = job[c].always
        /\ r.node = job[c].node
    BY <1>1 DEF Requests, Site
  <2> QED BY <1>3, <1>4, <2>1 DEF Go
<1>5. ASSUME Widen(c) PROVE SInv'
  <2>1. ASSUME job[c].todo > 0, NEW n \in 0..Limit,
               Become(c, [job[c] EXCEPT !.at = "weigh", !.todo = @ - 1, !.width = n])
        PROVE  SInv'
    <3> DEFINE r == [job[c] EXCEPT !.at = "weigh", !.todo = @ - 1, !.width = n]
    <3>1. job[c].todo - 1 \in 0..Most /\ n \in 0..Most
      BY <1>1, <2>1, CountsDown DEF Requests
    <3>2. /\ r \in Requests /\ r.at = "weigh" /\ r.op = job[c].op /\ r.always = job[c].always
          /\ r.node = job[c].node
      BY <1>1, <3>1 DEF Requests, Site
    <3> QED BY <1>3, <2>1, <3>2
  <2>2. \/ Fault(c) \/ Answer(c, TRUE) \/ Go(c, "sure")
        \/ job[c].todo > 0 /\ \E n \in 0..Limit :
              Become(c, [job[c] EXCEPT !.at = "weigh", !.todo = @ - 1, !.width = n])
    BY <1>5 DEF Widen
  <2> QED BY <1>1, <1>2, <1>4, <2>1, <2>2, FaultKeeps, AnswerKeeps
<1>6. ASSUME Weigh(c) PROVE SInv'
  <2>1. ASSUME job[c].width > 0, Become(c, [Looked(job[c]) EXCEPT !.width = @ - 1]) PROVE SInv'
    <3> DEFINE s == Looked(job[c])
               r == [s EXCEPT !.width = @ - 1]
    <3>1. job[c].width - 1 \in 0..Most
      BY <1>1, <2>1, CountsDown DEF Requests
    <3>2. /\ s \in Requests /\ s.at = job[c].at /\ s.op = job[c].op /\ s.always = job[c].always
          /\ s.node = job[c].node /\ s.width = job[c].width
      BY <1>1 DEF Requests, Looked
    <3> HIDE DEF s
    <3>3. /\ r \in Requests /\ r.at = job[c].at /\ r.op = job[c].op /\ r.always = job[c].always
          /\ r.node = job[c].node
      BY <3>1, <3>2 DEF Requests
    <3>4. Become(c, r)
      BY <2>1 DEF s
    <3> QED BY <1>1, <1>3, <3>3, <3>4
  <2>2. ASSUME job[c].width > 0, Become(c, [job[c] EXCEPT !.width = @ - 1, !.failed = TRUE]) PROVE SInv'
    <3> DEFINE r == [job[c] EXCEPT !.width = @ - 1, !.failed = TRUE]
    <3>1. job[c].width - 1 \in 0..Most
      BY <1>1, <2>2, CountsDown DEF Requests
    <3>2. /\ r \in Requests /\ r.at = job[c].at /\ r.op = job[c].op /\ r.always = job[c].always
          /\ r.node = job[c].node
      BY <1>1, <3>1 DEF Requests
    <3> QED BY <1>1, <1>3, <2>2, <3>2
  <2>3. \/ job[c].width > 0 /\ Become(c, [Looked(job[c]) EXCEPT !.width = @ - 1])
        \/ job[c].width > 0 /\ Become(c, [job[c] EXCEPT !.width = @ - 1, !.failed = TRUE])
        \/ Go(c, "widen")
    BY <1>6 DEF Weigh
  <2> QED BY <1>4, <2>1, <2>2, <2>3
<1>7. ASSUME Sure(c) PROVE SInv'
  BY <1>1, <1>2, <1>7, FaultKeeps, AnswerKeeps DEF Sure
<1> QED BY <1>5, <1>6, <1>7

-----------------------------------------------------------------------------
(* Resilient retrieval.                                                    *)

LEMMA CutWhole ==
  ASSUME NEW T \in SUBSET Link, IsFiniteSet(T), NEW S \in Cut(T)
  PROVE  S \subseteq T /\ (T \subseteq S \/ Cardinality(S) = Limit)
<1>1. S \in SUBSET T /\ Cardinality(S) = Lesser(Limit, Cardinality(T))
  BY DEF Cut
<1>2. Cardinality(S) = Limit \/ Cardinality(S) = Cardinality(T)
  BY <1>1 DEF Lesser
<1>3. Cardinality(S) = Cardinality(T) => S = T
  BY <1>1, FS_Subset
<1> QED BY <1>1, <1>2, <1>3

LEMMA NeighboursKeep ==
  ASSUME SInv, NEW c \in Caller, NEW flagged \in BOOLEAN, Neighbours(c, flagged), Quietly,
         flagged \/ job[c].at = "near"
  PROVE  SInv'
<1>1. job[c] \in Requests /\ Honest(job[c], links)
  BY Here
<1>2. PICK S \in Cut(Touching(job[c].node)) :
        Done(c, [job[c] EXCEPT !.found = S, !.ok = TRUE, !.flagged = flagged])
  BY DEF Neighbours
<1>3. Touching(job[c].node) \in SUBSET Link /\ IsFiniteSet(Touching(job[c].node))
  <2>1. Touching(job[c].node) \in SUBSET links /\ links \in SUBSET Link /\ IsFiniteSet(links)
    BY DEF Touching, SInv, StoreSound
  <2> QED BY <2>1, FS_Subset
<1>4. S \subseteq Link /\ (Touching(job[c].node) \subseteq S \/ Cardinality(S) = Limit)
  BY <1>3, CutWhole
<1>5. job[c].always \subseteq Touching(job[c].node)
  BY <1>1 DEF Honest, Touching
<1> DEFINE r == [job[c] EXCEPT !.found = S, !.ok = TRUE, !.flagged = flagged]
           q == [r EXCEPT !.at = "done"]
<1>6. /\ r \in Requests /\ r.op = job[c].op /\ r.mixed = job[c].mixed
      /\ r.always = job[c].always /\ r.node = job[c].node
  BY <1>1, <1>4 DEF Requests
<1>7. /\ q.at = "done" /\ q.op = job[c].op /\ q.ok /\ q.flagged = flagged /\ q.found = S
      /\ q.saw = job[c].saw /\ q.failed = job[c].failed
      /\ q.always = job[c].always /\ q.node = job[c].node
  BY <1>1, <1>6 DEF Requests
<1> HIDE DEF q
<1>8. Honest(q, links)
  BY <1>1, <1>4, <1>5, <1>7 DEF Honest
<1> HIDE DEF r
<1> QED BY <1>2, <1>6, <1>8, Ends DEF q, r

LEMMA GivesUp ==
  ASSUME SInv, NEW c \in Caller, GiveUp(c), Quietly
  PROVE  SInv'
<1>1. job[c] \in Requests /\ Honest(job[c], links)
  BY Here
<1> DEFINE r == [job[c] EXCEPT !.failed = TRUE, !.ok = TRUE, !.flagged = TRUE]
           q == [r EXCEPT !.at = "done"]
<1>2. /\ r \in Requests /\ r.op = job[c].op /\ r.mixed = job[c].mixed
      /\ r.always = job[c].always /\ r.node = job[c].node
  BY <1>1 DEF Requests
<1>3. q.at = "done" /\ q.ok /\ q.flagged /\ q.always = job[c].always /\ q.node = job[c].node
  BY <1>1, <1>2 DEF Requests
<1>4. Done(c, r)
  BY DEF GiveUp
<1> HIDE DEF q
<1>5. Honest(q, links)
  BY <1>1, <1>3 DEF Honest
<1> HIDE DEF r
<1> QED BY <1>2, <1>4, <1>5, Ends DEF q

LEMMA RetrievalGoes ==
  ASSUME SInv, NEW c \in Caller, NEW r \in Requests, Become(c, r), Quietly, Placed(r),
         r.op = job[c].op, r.op \in Retrievals, r.always = job[c].always, r.node = job[c].node,
         r.mixed = job[c].mixed,
         \/ r.at \in {"cold", "minimal"}
         \/ r.at = "near" /\ r.saw /\ ~r.failed /\ ~r.flagged
  PROVE  SInv'
<1>1. Ranked(job[c]) /\ Honest(job[c], links)
  BY Here
<1>2. Ranked(r) /\ Honest(r, links) /\ Replaces(r, links)
  BY <1>1 DEF Ranked, Honest, Replaces
<1> QED BY <1>2, Moves DEF Sound

LEMMA RetrievalKeeps ==
  ASSUME SInv, NEW c \in Caller, Full(c) \/ Has(c) \/ Get(c) \/ Near(c) \/ Cold(c) \/ Minimal(c)
  PROVE  SInv'
<1>1. /\ job[c] \in Requests /\ Placed(job[c]) /\ Honest(job[c], links) /\ Quietly
      /\ job[c].at \in {"full", "has", "get", "near", "cold", "minimal"}
  BY Here DEF Full, Has, Get, Near, Cold, Minimal
<1>2. /\ job[c].op \in Retrievals
      /\ job[c].at = "full" => job[c].op = "neighbors"
      /\ job[c].at \in {"has", "get"} => job[c].op = "resilient"
      /\ job[c].at \in {"full", "has", "get"} => ~job[c].failed /\ ~job[c].flagged
  BY <1>1 DEF Placed, Retrievals, Honest
<1>3. ASSUME Go(c, "cold") PROVE SInv'
  <2> DEFINE r == [job[c] EXCEPT !.at = "cold"]
  <2>1. /\ r \in Requests /\ r.at = "cold" /\ r.op = job[c].op /\ r.mixed = job[c].mixed
        /\ r.always = job[c].always /\ r.node = job[c].node
    BY <1>1 DEF Requests, Site
  <2>2. Become(c, r)
    BY <1>3 DEF Go
  <2> HIDE DEF r
  <2>3. Placed(r)
    BY <1>2, <2>1 DEF Placed
  <2> QED BY <1>1, <1>2, <2>1, <2>2, <2>3, RetrievalGoes
<1>4. ASSUME job[c].at \in {"full", "get"}, Become(c, [job[c] EXCEPT !.saw = TRUE, !.at = "near"]) PROVE SInv'
  <2> DEFINE r == [job[c] EXCEPT !.saw = TRUE, !.at = "near"]
  <2>1. /\ r \in Requests /\ r.at = "near" /\ r.op = job[c].op /\ r.mixed = job[c].mixed
        /\ r.always = job[c].always /\ r.node = job[c].node /\ r.saw /\ ~r.failed /\ ~r.flagged
    BY <1>1, <1>2, <1>4 DEF Requests, Site
  <2>2. Become(c, r)
    BY <1>4
  <2> HIDE DEF r
  <2>3. Placed(r)
    BY <1>2, <2>1 DEF Placed
  <2> QED BY <1>1, <1>2, <2>1, <2>2, <2>3, RetrievalGoes
<1>5. ASSUME job[c].at = "has", Go(c, "get") PROVE SInv'
  <2> DEFINE r == [job[c] EXCEPT !.at = "get"]
  <2>1. r.at = "get" /\ r.op = job[c].op /\ "get" \in Site
    BY <1>1 DEF Requests, Site
  <2> HIDE DEF r
  <2>2. Placed(r)
    BY <1>2, <1>5, <2>1 DEF Placed
  <2> QED BY <1>1, <1>5, <2>1, <2>2, GoKeeps DEF r
<1>6. ASSUME NEW at \in {"cold", "minimal"}, Lower(c, at), at = "minimal" => job[c].op = "neighbors"
      PROVE  SInv'
  <2> DEFINE r == [job[c] EXCEPT !.failed = TRUE, !.at = at]
  <2>1. /\ r \in Requests /\ r.at = at /\ r.op = job[c].op /\ r.mixed = job[c].mixed
        /\ r.always = job[c].always /\ r.node = job[c].node
    BY <1>1 DEF Requests, Site
  <2>2. Become(c, r)
    BY <1>6 DEF Lower
  <2> HIDE DEF r
  <2>3. Placed(r)
    BY <1>2, <1>6, <2>1 DEF Placed
  <2> QED BY <1>1, <1>2, <2>1, <2>2, <2>3, RetrievalGoes
<1> DEFINE near == [job[c] EXCEPT !.saw = TRUE, !.at = "near"]
<1>7. ASSUME Full(c) \/ Get(c)
      PROVE  Go(c, "cold") \/ (job[c].at \in {"full", "get"} /\ Become(c, near))
  <2>1. job[c].at \in {"full", "get"}
    BY <1>7 DEF Full, Get
  <2>2. Full(c) => IF vectors.of = {} THEN Go(c, "cold") ELSE Become(c, near)
    BY DEF Full
  <2>3. Get(c) => IF job[c].node \in vectors.of THEN Become(c, near) ELSE Go(c, "cold")
    BY DEF Get
  <2> HIDE DEF near
  <2> QED BY <1>7, <2>1, <2>2, <2>3
<1>8. \/ Go(c, "cold")
      \/ job[c].at \in {"full", "get"} /\ Become(c, near)
      \/ job[c].at = "has" /\ Go(c, "get")
      \/ job[c].at = "near" /\ Neighbours(c, FALSE)
      \/ Neighbours(c, TRUE) \/ Lower(c, "cold") \/ GiveUp(c)
      \/ job[c].op = "neighbors" /\ Lower(c, "minimal")
  <2> HIDE DEF near
  <2>1. Has(c) => Go(c, "cold") \/ (job[c].at = "has" /\ Go(c, "get"))
    BY DEF Has
  <2>2. Near(c) => (job[c].at = "near" /\ Neighbours(c, FALSE)) \/ Lower(c, "cold")
    BY DEF Near
  <2>3. Cold(c) => Neighbours(c, TRUE) \/ GiveUp(c) \/ (job[c].op = "neighbors" /\ Lower(c, "minimal"))
    BY DEF Cold
  <2>4. Minimal(c) => Neighbours(c, TRUE) \/ GiveUp(c)
    BY DEF Minimal
  <2> QED BY <1>7, <2>1, <2>2, <2>3, <2>4
<1> QED BY <1>1, <1>3, <1>4, <1>5, <1>6, <1>8, NeighboursKeep, GivesUp

-----------------------------------------------------------------------------
(* Contexts and combined queries.                                          *)

LEMMA ContextKeeps ==
  ASSUME SInv, NEW c \in Caller, Expand(c) \/ Again(c) \/ Score(c) \/ Scoring(c)
  PROVE  SInv'
<1>1. /\ job[c] \in Requests /\ Placed(job[c]) /\ Ranked(job[c]) /\ Honest(job[c], links) /\ Quietly
      /\ job[c].at \in {"expand", "again", "score", "scoring"}
  BY Here DEF Expand, Again, Score, Scoring
<1>2. /\ job[c].op = "assemble" /\ job[c].op \notin Retrievals /\ ~job[c].mixed
      /\ job[c].at = "scoring" => ~job[c].old
  BY <1>1 DEF Placed, Retrievals, Ranked
<1>3. ASSUME NEW at \in {"again", "score"}, Go(c, at) PROVE SInv'
  <2> DEFINE r == [job[c] EXCEPT !.at = at]
  <2>1. r.at = at /\ r.op = job[c].op /\ at \in Site
    BY <1>1 DEF Requests, Site
  <2> HIDE DEF r
  <2>2. Placed(r)
    BY <1>2, <2>1 DEF Placed
  <2> QED BY <1>1, <1>3, <2>1, <2>2, GoKeeps DEF r
<1>4. ASSUME NEW r \in Requests, Become(c, r), r.at = "scoring", r.op = job[c].op, ~r.mixed, ~r.old,
             r.always = job[c].always, r.node = job[c].node
      PROVE  SInv'
  <2>1. Placed(r) /\ Ranked(r) /\ Honest(r, links) /\ Replaces(r, links)
    BY <1>1, <1>2, <1>4 DEF Placed, Ranked, Honest, Replaces, Retrievals
  <2> QED BY <1>1, <1>4, <2>1, Moves DEF Sound
<1>5. ASSUME Score(c) PROVE SInv'
  <2>1. PICK n \in 0..Limit :
          Become(c, [job[c] EXCEPT !.at = "scoring", !.todo = n, !.flagged = job[c].node \notin vectors.of,
                                   !.saw = TRUE, !.old = FALSE])
    BY <1>5 DEF Score
  <2> DEFINE flagged == job[c].node \notin vectors.of
             r == [job[c] EXCEPT !.at = "scoring", !.todo = n, !.flagged = flagged,
                                 !.saw = TRUE, !.old = FALSE]
  <2>2. n \in 0..Most /\ flagged \in BOOLEAN
    BY CountsDown
  <2> HIDE DEF flagged
  <2>3. /\ r \in Requests /\ r.at = "scoring" /\ r.op = job[c].op /\ ~r.mixed /\ ~r.old
        /\ r.always = job[c].always /\ r.node = job[c].node
    BY <1>1, <1>2, <2>2 DEF Requests, Site
  <2>4. Become(c, r)
    BY <2>1 DEF flagged
  <2> HIDE DEF r
  <2> QED BY <1>4, <2>3, <2>4
<1>6. ASSUME Scoring(c) PROVE SInv'
  <2>1. ASSUME job[c].todo > 0, Become(c, [Looked(job[c]) EXCEPT !.todo = @ - 1]) PROVE SInv'
    <3> DEFINE s == Looked(job[c])
               r == [s EXCEPT !.todo = @ - 1]
    <3>1. job[c].todo - 1 \in 0..Most /\ job[c].at = "scoring"
      BY <1>1, <1>6, <2>1, CountsDown DEF Requests, Scoring
    <3>2. /\ s \in Requests /\ s.at = "scoring" /\ s.op = job[c].op /\ s.always = job[c].always
          /\ s.node = job[c].node /\ s.todo = job[c].todo /\ ~s.mixed /\ ~s.old
      BY <1>1, <1>2, <3>1 DEF Requests, Looked
    <3> HIDE DEF s
    <3>3. /\ r \in Requests /\ r.at = "scoring" /\ r.op = job[c].op /\ r.always = job[c].always
          /\ r.node = job[c].node /\ ~r.mixed /\ ~r.old
      BY <3>1, <3>2 DEF Requests
    <3>4. Become(c, r)
      BY <2>1 DEF s
    <3> QED BY <1>4, <3>3, <3>4
  <2>2. \/ Fault(c) \/ Answer(c, TRUE)
        \/ job[c].todo > 0 /\ Become(c, [Looked(job[c]) EXCEPT !.todo = @ - 1])
    BY <1>6 DEF Scoring
  <2> QED BY <1>1, <1>2, <2>1, <2>2, FaultKeeps, AnswerKeeps
<1>7. ASSUME Expand(c) PROVE SInv'
  BY <1>1, <1>2, <1>3, <1>7, Counts, FaultKeeps DEF Expand
<1>8. ASSUME Again(c) PROVE SInv'
  BY <1>1, <1>2, <1>3, <1>8, FaultKeeps DEF Again
<1> QED BY <1>5, <1>6, <1>7, <1>8

LEMMA CombinedKeeps == ASSUME SInv, NEW c \in Caller, Target(c) \/ Rank(c) PROVE SInv'
<1>1. /\ job[c] \in Requests /\ Placed(job[c]) /\ Quietly /\ job[c].at \in {"target", "rank"}
  BY Here DEF Target, Rank
<1>2. job[c].op = "combined" /\ job[c].op \notin Retrievals
  BY <1>1 DEF Placed, Retrievals
<1>3. ASSUME Go(c, "around") PROVE SInv'
  <2> DEFINE r == [job[c] EXCEPT !.at = "around"]
  <2>1. r.at = "around" /\ r.op = job[c].op /\ "around" \in Site
    BY <1>1 DEF Requests, Site
  <2> HIDE DEF r
  <2>2. Placed(r)
    BY <1>2, <2>1 DEF Placed
  <2> QED BY <1>1, <1>3, <2>1, <2>2, GoKeeps DEF r
<1>4. ASSUME job[c].at = "rank", job[c].todo > 0, Become(c, [Looked(job[c]) EXCEPT !.todo = @ - 1]) PROVE SInv'
  <2> DEFINE s == Looked(job[c])
             r == [s EXCEPT !.todo = @ - 1]
  <2>1. job[c].todo - 1 \in 0..Most
    BY <1>1, <1>4, CountsDown DEF Requests
  <2>2. /\ s \in Requests /\ s.at = "rank" /\ s.op = job[c].op /\ s.always = job[c].always
        /\ s.node = job[c].node /\ s.todo = job[c].todo
    BY <1>1, <1>4 DEF Requests, Looked
  <2> HIDE DEF s
  <2>3. /\ r \in Requests /\ r.at = "rank" /\ r.op = job[c].op /\ r.always = job[c].always
        /\ r.node = job[c].node
    BY <2>1, <2>2 DEF Requests
  <2>4. Become(c, r)
    BY <1>4 DEF s
  <2> HIDE DEF r
  <2>5. Placed(r)
    BY <1>2, <2>3 DEF Placed
  <2> QED BY <1>1, <1>2, <2>3, <2>4, <2>5, Steps
<1>5. \/ Go(c, "around") \/ Answer(c, FALSE) \/ Answer(c, TRUE) \/ Fault(c)
      \/ job[c].at = "rank" /\ job[c].todo > 0 /\ Become(c, [Looked(job[c]) EXCEPT !.todo = @ - 1])
  <2>1. Target(c) => Go(c, "around") \/ Answer(c, FALSE) \/ Fault(c)
    BY DEF Target
  <2>2. Rank(c) => \/ Answer(c, TRUE) \/ Fault(c)
                   \/ job[c].at = "rank" /\ job[c].todo > 0 /\ Become(c, [Looked(job[c]) EXCEPT !.todo = @ - 1])
    BY DEF Rank
  <2> QED BY <2>1, <2>2
<1> QED BY <1>1, <1>2, <1>3, <1>4, <1>5, FaultKeeps, AnswerKeeps

-----------------------------------------------------------------------------
(* The reports.                                                            *)

Entries == [about : Component \cup {"level"}, ok : BOOLEAN]

LEMMA SinceFinite ==
  ASSUME log \in Reports, NEW x, NEW i \in 0..Len(log)
  PROVE  /\ Since(x, i) \in SUBSET (1..Len(log)) /\ IsFiniteSet(Since(x, i))
         /\ Cardinality(Since(x, i)) \in Nat
<1>1. Len(log) \in Nat
  BY DEF Reports
<1>2. Since(x, i) \in SUBSET (1..Len(log)) /\ IsFiniteSet(1..Len(log))
  BY <1>1, FS_Interval DEF Since
<1> QED BY <1>2, FS_Subset, FS_CardinalityType

(* What one more entry means for a component.                              *)
LEMMA Logged ==
  ASSUME log \in Reports, NEW e \in Entries, log' = Append(log, e), NEW x \in Component,
         NEW n, n = Len(log) + 1
  PROVE  /\ log' \in Reports /\ n \in Nat /\ Len(log') = n
         /\ Failures(x) \subseteq 1..Len(log)
         /\ Failures(x)' = IF e = [about |-> x, ok |-> FALSE] THEN Failures(x) \cup {n} ELSE Failures(x)
         /\ \A i \in 0..Len(log) :
              Since(x, i)' = IF e = [about |-> x, ok |-> TRUE] THEN Since(x, i) \cup {n} ELSE Since(x, i)
         /\ Since(x, n)' = {}
<1>1. Len(log) \in Nat /\ DOMAIN log = 1..Len(log)
  BY DEF Reports
<1>2. /\ log' \in Reports /\ Len(log') = n /\ DOMAIN log' = 1..n
      /\ \A i \in 1..Len(log) : log'[i] = log[i]
      /\ log'[n] = e
  BY <1>1 DEF Reports, Entries
<1>3. 1..n = (1..Len(log)) \cup {n} /\ n \notin 1..Len(log) /\ n \in Nat
  BY <1>1
<1>4. Failures(x) \subseteq 1..Len(log)
  BY <1>1 DEF Failures
<1>5. Failures(x)' = {i \in 1..n : log'[i] = [about |-> x, ok |-> FALSE]}
  BY <1>2 DEF Failures
<1>6. Failures(x) = {i \in 1..Len(log) : log[i] = [about |-> x, ok |-> FALSE]}
  BY <1>1 DEF Failures
<1>7. Failures(x)' = IF e = [about |-> x, ok |-> FALSE] THEN Failures(x) \cup {n} ELSE Failures(x)
  <2>1. \A i \in 1..n : i \in 1..Len(log) \/ i = n
    BY <1>3
  <2> QED BY <1>2, <1>3, <1>5, <1>6, <2>1
<1>8. ASSUME NEW i \in 0..Len(log)
      PROVE  Since(x, i)' = IF e = [about |-> x, ok |-> TRUE] THEN Since(x, i) \cup {n} ELSE Since(x, i)
  <2>1. Since(x, i)' = {k \in (i + 1)..n : log'[k] = [about |-> x, ok |-> TRUE]}
    BY <1>2 DEF Since
  <2>2. (i + 1)..n = ((i + 1)..Len(log)) \cup {n} /\ (i + 1)..Len(log) \subseteq 1..Len(log)
        /\ n \notin (i + 1)..Len(log)
    BY <1>1
  <2> QED BY <1>2, <2>1, <2>2 DEF Since
<1>9. Since(x, n)' = {}
  BY <1>2, <1>3 DEF Since
<1> QED BY <1>2, <1>3, <1>4, <1>7, <1>8, <1>9

LEMMA TracksKept ==
  ASSUME HealthSound, NEW e \in Entries, log' = Append(log, e), NEW x \in Component,
         e.about # x, status'[x] = status[x]
  PROVE  Tracks(x)'
<1>1. log \in Reports /\ Tracks(x)
  BY DEF HealthSound
<1>2. e # [about |-> x, ok |-> TRUE] /\ e # [about |-> x, ok |-> FALSE]
  OBVIOUS
<1>3. /\ Failures(x)' = Failures(x) /\ Failures(x) \subseteq 1..Len(log) /\ Len(log) \in Nat
      /\ \A i \in 0..Len(log) : Since(x, i)' = Since(x, i)
  BY <1>1, <1>2, Logged DEF Reports
<1>4. \A i \in Failures(x) : Since(x, i)' = Since(x, i)
  BY <1>3
<1> QED BY <1>1, <1>3, <1>4 DEF Tracks

(* A component that is failing, and one that is not.                       *)
LEMMA TracksFailing ==
  ASSUME NEW x \in Component, status'[x].entry, status'[x].failing, NEW i \in Failures(x)',
         \A k \in Failures(x)' : k <= i,
         Cardinality(Since(x, i)') = status'[x].successes, status'[x].successes < 3
  PROVE  Tracks(x)'
  BY DEF Tracks

LEMMA TracksWell ==
  ASSUME NEW x \in Component, status'[x].entry, ~status'[x].failing,
         \A i \in Failures(x)' : Cardinality(Since(x, i)') >= 3
  PROVE  Tracks(x)'
  BY DEF Tracks

LEMMA HealthSame ==
  ASSUME HealthSound, UNCHANGED <<status, level, log>>
  PROVE  HealthSound'
  BY DEF HealthSound, Tracks, Failures, Since, LevelSet, LevelOf

LEMMA FailureKeeps ==
  ASSUME HealthSound, NEW x \in Component, RecordFailure(x)
  PROVE  HealthSound'
<1> DEFINE e == [about |-> x, ok |-> FALSE]
<1> PICK n : n = Len(log) + 1
  OBVIOUS
<1>1. /\ log \in Reports /\ e \in Entries /\ log' = Append(log, e) /\ level' = LevelOf(status')
      /\ status \in [Component -> [failing : BOOLEAN, successes : 0..3, entry : BOOLEAN]]
      /\ status' = [status EXCEPT ![x] = [failing |-> TRUE, successes |-> 0, entry |-> TRUE]]
  BY DEF HealthSound, RecordFailure, ComponentFailure, Noted, Entries
<1>2. /\ status' \in [Component -> [failing : BOOLEAN, successes : 0..3, entry : BOOLEAN]]
      /\ status'[x].failing /\ status'[x].successes = 0 /\ status'[x].entry
      /\ \A y \in Component \ {x} : status'[y] = status[y]
  BY <1>1
<1>3. log' \in Reports
  BY <1>1, Logged
<1>4. \A y \in Component \ {x} : Tracks(y)'
  BY <1>1, <1>2, TracksKept
<1>5. Tracks(x)'
  <2>1. /\ Failures(x)' = Failures(x) \cup {n} /\ Failures(x) \subseteq 1..Len(log)
        /\ Since(x, n)' = {} /\ n \in Nat
    BY <1>1, Logged
  <2>2. \A k \in Failures(x)' : k <= n
    <3>1. Len(log) \in Nat
      BY <1>1 DEF Reports
    <3> QED BY <2>1, <3>1
  <2>3. Cardinality(Since(x, n)') = 0
    BY <2>1, FS_EmptySet
  <2>4. n \in Failures(x)'
    BY <2>1
  <2>5. 0 < 3
    OBVIOUS
  <2> QED BY <1>2, <2>2, <2>3, <2>4, <2>5, TracksFailing
<1>6. level' \in Level
  BY <1>1 DEF LevelOf, Level
<1> QED BY <1>1, <1>2, <1>3, <1>4, <1>5, <1>6 DEF HealthSound, LevelOf

LEMMA SuccessKeeps ==
  ASSUME HealthSound, NEW x \in Component, RecordSuccess(x)
  PROVE  HealthSound'
<1>1. CASE ~status[x].entry
  <2>1. UNCHANGED <<status, level, log>>
    BY <1>1 DEF RecordSuccess, health
  <2> QED BY <2>1, HealthSame
<1>2. CASE status[x].entry
  <2> DEFINE e == [about |-> x, ok |-> TRUE]
             s == IF status[x].successes < 3 THEN status[x].successes + 1 ELSE 3
  <2> PICK n : n = Len(log) + 1
    OBVIOUS
  <2>1. /\ log \in Reports /\ e \in Entries /\ log' = Append(log, e) /\ level' = LevelOf(status')
        /\ status \in [Component -> [failing : BOOLEAN, successes : 0..3, entry : BOOLEAN]]
        /\ status' = ComponentSuccess(x) /\ Tracks(x)
    BY <1>2 DEF HealthSound, RecordSuccess, Noted, Entries
  <2>2. s \in 0..3 /\ status[x].successes \in 0..3
    BY <2>1
  <2>3. /\ status' \in [Component -> [failing : BOOLEAN, successes : 0..3, entry : BOOLEAN]]
        /\ status'[x].failing = (status[x].failing /\ s < 3) /\ status'[x].successes = s
        /\ status'[x].entry = status[x].entry
        /\ \A y \in Component \ {x} : status'[y] = status[y]
    <3>1. status' = [status EXCEPT ![x].successes = s, ![x].failing = @ /\ s < 3]
      BY <2>1 DEF ComponentSuccess
    <3> HIDE DEF s
    <3> QED BY <2>1, <2>2, <3>1
  <2>4. log' \in Reports
    BY <2>1, Logged
  <2>5. \A y \in Component \ {x} : Tracks(y)'
    BY <2>1, <2>3, TracksKept
  <2>6. /\ Failures(x)' = Failures(x) /\ Failures(x) \subseteq 1..Len(log) /\ Len(log) \in Nat
        /\ \A i \in 0..Len(log) : Since(x, i)' = Since(x, i) \cup {n}
    BY <2>1, Logged DEF Reports
  <2>7. ASSUME NEW i \in Failures(x)
        PROVE  /\ Cardinality(Since(x, i)') = Cardinality(Since(x, i)) + 1
               /\ Cardinality(Since(x, i)) \in Nat /\ IsFiniteSet(Since(x, i)')
    <3>1. i \in 0..Len(log) /\ n \notin 1..Len(log)
      BY <2>6
    <3>2. /\ Since(x, i) \in SUBSET (1..Len(log)) /\ IsFiniteSet(Since(x, i))
          /\ Cardinality(Since(x, i)) \in Nat
      BY <2>1, <3>1, SinceFinite
    <3>3. n \notin Since(x, i) /\ Since(x, i)' = Since(x, i) \cup {n}
      BY <2>6, <3>1, <3>2
    <3> QED BY <3>2, <3>3, FS_AddElement
  <2>8. ASSUME status[x].failing PROVE Tracks(x)'
    <3>1. PICK i \in Failures(x) :
            /\ \A k \in Failures(x) : k <= i
            /\ Cardinality(Since(x, i)) = status[x].successes /\ status[x].successes < 3
      BY <2>1, <2>8 DEF Tracks
    <3>2. Cardinality(Since(x, i)') = s
      BY <2>2, <2>7, <3>1
    <3>3. CASE s < 3
      <4>1. /\ i \in Failures(x)' /\ \A k \in Failures(x)' : k <= i
            /\ Cardinality(Since(x, i)') = status'[x].successes /\ status'[x].successes < 3
        BY <2>3, <2>6, <3>1, <3>2, <3>3
      <4>2. status'[x].entry /\ status'[x].failing
        BY <1>2, <2>3, <2>8, <3>3
      <4> QED BY <4>1, <4>2, TracksFailing
    <3>4. CASE s = 3
      <4>1. ASSUME NEW j \in Failures(x)
            PROVE  Cardinality(Since(x, j)') >= 3
        <5>1. j <= i /\ j \in 0..Len(log) /\ i \in 0..Len(log)
          BY <2>6, <3>1
        <5>2. Since(x, i) \subseteq Since(x, j)
          BY <2>6, <5>1 DEF Since
        <5>3. Since(x, i)' \subseteq Since(x, j)'
          BY <2>6, <5>1, <5>2
        <5>4. IsFiniteSet(Since(x, j)') /\ Cardinality(Since(x, j)') \in Nat
          BY <2>7
        <5>5. Cardinality(Since(x, i)') <= Cardinality(Since(x, j)')
          BY <5>3, <5>4, FS_Subset
        <5> QED BY <3>2, <3>4, <5>4, <5>5
      <4>2. ~status'[x].failing
        BY <2>3, <3>4
      <4>3. status'[x].entry /\ \A j \in Failures(x)' : Cardinality(Since(x, j)') >= 3
        BY <1>2, <2>3, <2>6, <4>1
      <4> QED BY <4>2, <4>3, TracksWell
    <3> QED BY <2>2, <3>3, <3>4
  <2>9. ASSUME ~status[x].failing PROVE Tracks(x)'
    <3>1. ASSUME NEW i \in Failures(x) PROVE Cardinality(Since(x, i)') >= 3
      <4>1. Cardinality(Since(x, i)) >= 3
        BY <2>1, <2>9 DEF Tracks
      <4> QED BY <2>7, <4>1
    <3>2. status'[x].entry /\ ~status'[x].failing
      BY <1>2, <2>3, <2>9
    <3> QED BY <2>6, <3>1, <3>2, TracksWell
  <2>10. level' \in Level
    BY <2>1 DEF LevelOf, Level
  <2>11. Tracks(x)'
    BY <2>8, <2>9
  <2> QED BY <2>1, <2>3, <2>4, <2>5, <2>10, <2>11 DEF HealthSound, LevelOf
<1> QED BY <1>1, <1>2

LEMMA SetLevelKeeps == ASSUME SInv, NEW l \in Forced, SetLevel(l) PROVE SInv'
<1> DEFINE e == [about |-> "level", ok |-> TRUE]
<1>1. /\ HealthSound /\ log \in Reports /\ e \in Entries /\ log' = Append(log, e) /\ level' = l
      /\ status' = status /\ UNCHANGED <<nodes, links, vectors, job>>
  BY DEF SInv, HealthSound, SetLevel, Noted, Entries, store
<1>2. \A x \in Component : x # e.about
  BY DEF Component
<1>3. \A x \in Component : Tracks(x)'
  BY <1>1, <1>2, TracksKept
<1>4. "embeddings" \in Component
  BY DEF Component
<1>5. log' \in Reports
  BY <1>1, <1>4, Logged
<1>6. LevelSet'
  <2>1. log' # <<>> /\ log'[Len(log')] = e
    BY <1>1 DEF Reports
  <2> QED BY <2>1 DEF LevelSet
<1>7. HealthSound'
  BY <1>1, <1>3, <1>5, <1>6, ServingAssumption DEF HealthSound
<1> QED BY <1>1, <1>7 DEF SInv, StoreSound, RequestsSound

LEMMA ReportKeeps == ASSUME SInv, NEW x \in Component, Report(x) PROVE SInv'
<1>1. HealthSound' /\ UNCHANGED <<nodes, links, vectors, job>>
  BY FailureKeeps, SuccessKeeps DEF Report, SInv, store
<1> QED BY <1>1 DEF SInv, StoreSound, RequestsSound

-----------------------------------------------------------------------------
(* New vectors, and the triples' other callers.                            *)

LEMMA Computed ==
  ASSUME SInv, NEW j \in Requests, j.op \in Recompute
  PROVE  /\ Spectral(j) \in [of : SUBSET Node, dim : Nat] /\ Walked(j) \in [of : SUBSET Node, dim : Nat]
         /\ (Spectral(j).dim = 0) = (Spectral(j).of = {}) /\ (Walked(j).dim = 0) = (Walked(j).of = {})
         /\ Several(EndsOf(j.view)) => Spectral(j).of = EndsOf(j.view)
         /\ j.view # {} /\ ~j.short => Walked(j).of = EndsOf(j.view)
<1> DEFINE S == EndsOf(j.view)
           dim == Lesser(j.dim, Cardinality(S) - 1)
<1>1. S \subseteq Node /\ IsFiniteSet(S) /\ Cardinality(S) \in Nat /\ j.dim \in Nat \ {0}
  <2>1. j.view \in SUBSET Link /\ j.dim \in Dims \cup {1}
    BY DEF Requests
  <2>2. Dims \subseteq Nat \ {0} /\ 1 \in Nat \ {0}
    BY ServingAssumption
  <2> QED BY <2>1, <2>2, EndsFinite
<1>2. dim \in Int /\ (dim < 1 <=> ~(Cardinality(S) > 1))
  <2> HIDE DEF S
  <2> QED BY <1>1 DEF Lesser
<1>3. Cardinality(S) > 1 <=> Several(S)
  BY <1>1, SeveralCounts
<1>4. Several(S) => S # {}
  BY DEF Several
<1>5. j.view # {} => S # {}
  BY DEF EndsOf
<1>6. Spectral(j) = IF dim < 1 THEN [of |-> {}, dim |-> 0] ELSE [of |-> S, dim |-> dim]
  BY DEF Spectral, FromEmbeddings
<1>7. Walked(j) = IF j.short \/ j.view = {} THEN [of |-> {}, dim |-> 0] ELSE [of |-> S, dim |-> j.dim]
  BY DEF Walked, FromEmbeddings
<1> HIDE DEF S, dim
<1>8. CASE Several(S)
  <2>1. Spectral(j) = [of |-> S, dim |-> dim] /\ S # {} /\ dim # 0 /\ dim \in Nat
    BY <1>2, <1>3, <1>4, <1>6, <1>8
  <2>2. Spectral(j) \in [of : SUBSET Node, dim : Nat] /\ Spectral(j).of = S /\ Spectral(j).dim = dim
    BY <1>1, <2>1
  <2>3. CASE j.short \/ j.view = {}
    BY <1>7, <2>1, <2>2, <2>3 DEF S
  <2>4. CASE ~(j.short \/ j.view = {})
    BY <1>1, <1>5, <1>7, <2>1, <2>2, <2>4 DEF S
  <2> QED BY <2>3, <2>4
<1>9. CASE ~Several(S)
  <2>1. Spectral(j) = [of |-> {}, dim |-> 0]
    BY <1>2, <1>3, <1>6, <1>9
  <2>2. CASE j.short \/ j.view = {}
    BY <1>7, <1>9, <2>1, <2>2 DEF S
  <2>3. CASE ~(j.short \/ j.view = {})
    BY <1>1, <1>5, <1>7, <1>9, <2>1, <2>3 DEF S
  <2> QED BY <2>2, <2>3
<1> QED BY <1>8, <1>9

LEMMA InstallKeeps == ASSUME SInv, NEW c \in Caller, Install(c) PROVE SInv'
<1>1. /\ job[c] \in Requests /\ Placed(job[c]) /\ Ranked(job[c]) /\ Honest(job[c], links)
      /\ job[c].at = "install" /\ Free /\ UNCHANGED <<nodes, links>>
  BY Here DEF Install, store
<1>2. job[c].op \in Recompute /\ job[c].op \notin Retrievals
  BY <1>1 DEF Placed, Recompute, Retrievals
<1>3. StoreSound'
  <2>1. vectors' \in [of : SUBSET Node, dim : Nat] /\ (vectors'.dim = 0) = (vectors'.of = {})
    BY <1>1, <1>2, Computed DEF Install
  <2> QED BY <1>1, <2>1 DEF SInv, StoreSound
<1>4. HealthSound'
  <2>1. HealthSound
    BY DEF SInv
  <2>2. "embeddings" \in Component
    BY DEF Component
  <2>3. RecordSuccess("embeddings") \/ UNCHANGED <<status, level, log>>
    BY DEF Install, health
  <2> QED BY <2>1, <2>2, <2>3, SuccessKeeps, HealthSame
<1>5. Sound([job[c] EXCEPT !.at = "done", !.ok = TRUE], links)
  <2> DEFINE r == [job[c] EXCEPT !.at = "done", !.ok = TRUE]
  <2>1. /\ r \in Requests /\ r.at = "done" /\ r.op = job[c].op /\ r.mixed = job[c].mixed
        /\ r.always = job[c].always /\ r.node = job[c].node
    BY <1>1 DEF Requests, Site
  <2> HIDE DEF r
  <2>2. Placed(r) /\ Ranked(r) /\ Honest(r, links) /\ Replaces(r, links)
    BY <1>1, <1>2, <2>1 DEF Placed, Ranked, Honest, Replaces
  <2> QED BY <2>1, <2>2 DEF Sound, r
<1>6. ASSUME NEW d \in Caller PROVE Sound([job[d] EXCEPT !.old = job[d].saw], links)
  <2> DEFINE r == [job[d] EXCEPT !.old = job[d].saw]
  <2>1. /\ job[d] \in Requests /\ Placed(job[d]) /\ Ranked(job[d]) /\ Honest(job[d], links)
        /\ Replaces(job[d], links) /\ job[d].at # "scoring"
    BY <1>1, Here DEF Free, Guarded
  <2>2. /\ r \in Requests /\ r.at = job[d].at /\ r.op = job[d].op /\ r.mixed = job[d].mixed
        /\ r.always = job[d].always /\ r.node = job[d].node /\ r.old = job[d].saw /\ r.saw = job[d].saw
        /\ r.ok = job[d].ok /\ r.failed = job[d].failed /\ r.flagged = job[d].flagged
        /\ r.found = job[d].found /\ r.had = job[d].had /\ r.view = job[d].view
    BY <2>1 DEF Requests
  <2> HIDE DEF r
  <2>3. Placed(r) /\ Ranked(r)
    BY <2>1, <2>2 DEF Placed, Ranked
  <2>4. Honest(r, links) /\ Replaces(r, links)
    BY <2>1, <2>2 DEF Honest, Replaces
  <2> QED BY <2>2, <2>3, <2>4 DEF Sound, r
<1>7. RequestsSound'
  <2>1. job' = [d \in Caller |-> IF d = c THEN [job[c] EXCEPT !.at = "done", !.ok = TRUE]
                                 ELSE [job[d] EXCEPT !.old = job[d].saw]]
    BY DEF Install
  <2>2. \A d \in Caller : job'[d] = [job[c] EXCEPT !.at = "done", !.ok = TRUE]
                          \/ job'[d] = [job[d] EXCEPT !.old = job[d].saw]
    BY <2>1
  <2>3. DOMAIN job' = Caller /\ \A d \in Caller : Sound(job'[d], links)
    BY <2>1, <2>2, <1>5, <1>6
  <2> QED BY <1>1, <2>3 DEF RequestsSound
<1> QED BY <1>3, <1>4, <1>7 DEF SInv

LEMMA ReportFailureKeeps == ASSUME SInv, NEW c \in Caller, ReportFailure(c) PROVE SInv'
<1>1. /\ job[c] \in Requests /\ Placed(job[c]) /\ Ranked(job[c]) /\ Honest(job[c], links)
      /\ job[c].at = "report" /\ UNCHANGED <<nodes, links, vectors>>
  BY Here DEF ReportFailure, store
<1>2. job[c].op \notin Retrievals
  BY <1>1 DEF Placed, Retrievals
<1> DEFINE q == [job[c] EXCEPT !.ok = FALSE]
           r == [q EXCEPT !.at = "done"]
<1>3. /\ q \in Requests /\ q.op = job[c].op /\ q.mixed = job[c].mixed
      /\ q.always = job[c].always /\ q.node = job[c].node
  BY <1>1 DEF Requests
<1>4. Done(c, q)
  BY DEF ReportFailure, Answer
<1> HIDE DEF q
<1>5. /\ r \in Requests /\ r.at = "done" /\ r.op = job[c].op /\ r.mixed = job[c].mixed
      /\ r.always = job[c].always /\ r.node = job[c].node /\ job' = [job EXCEPT ![c] = r]
  BY <1>3, <1>4 DEF Requests, Site, Done, Become
<1> HIDE DEF r
<1>6. Sound(r, links)
  BY <1>1, <1>2, <1>5 DEF Sound, Placed, Ranked, Honest, Replaces
<1>7. RequestsSound'
  BY <1>1, <1>5, <1>6 DEF SInv, RequestsSound
<1>8. HealthSound'
  <2>1. "embeddings" \in Component /\ RecordFailure("embeddings") /\ HealthSound
    BY DEF Component, ReportFailure, SInv
  <2> QED BY <2>1, FailureKeeps
<1> QED BY <1>1, <1>7, <1>8 DEF SInv, StoreSound

LEMMA InsertKeeps == ASSUME SInv, NEW l \in Link, Insert(l) PROVE SInv'
<1>1. /\ UNCHANGED <<vectors, status, level, log, job>> /\ links' = links \cup {l}
      /\ nodes' = nodes \cup {l[1], l[2]} /\ HealthSound
  BY DEF Insert, health, SInv
<1>2. HealthSound'
  BY <1>1, HealthSame
<1>3. StoreSound'
  <2>1. l[1] \in Node /\ l[2] \in Node
    BY ServingAssumption
  <2>2. IsFiniteSet(links')
    BY <1>1, FS_AddElement DEF SInv, StoreSound
  <2> QED BY <1>1, <2>1, <2>2 DEF SInv, StoreSound
<1>4. ASSUME NEW c \in Caller PROVE Sound(job[c], links')
  <2>1. Honest(job[c], links) /\ Replaces(job[c], links)
    BY Here
  <2>2. EndsOf(links) \subseteq EndsOf(links') /\ links \subseteq links'
    BY <1>1 DEF EndsOf
  <2>3. Several(EndsOf(links)) => Several(EndsOf(links'))
    BY <2>2 DEF Several
  <2>4. Honest(job[c], links')
    BY <2>1, <2>2 DEF Honest
  <2>5. Replaces(job[c], links')
    BY <2>1, <2>2, <2>3 DEF Replaces
  <2> QED BY <2>4, <2>5, Here DEF Sound
<1>5. RequestsSound'
  BY <1>1, <1>4 DEF SInv, RequestsSound
<1> QED BY <1>2, <1>3, <1>5 DEF SInv

LEMMA EvictKeeps == ASSUME SInv, NEW l \in Link, Evict(l) PROVE SInv'
<1>1. /\ UNCHANGED <<nodes, vectors, status, level, log>> /\ links' = links \ {l} /\ HealthSound
  BY DEF Evict, health, SInv
<1>2. HealthSound'
  BY <1>1, HealthSame
<1>3. StoreSound'
  BY <1>1, FS_Subset DEF SInv, StoreSound
<1>4. ASSUME NEW c \in Caller,
             NEW had, had = (IF Cardinality(EndsOf(links')) > 1 THEN job[c].had \cap EndsOf(links') ELSE {}),
             NEW always, always = job[c].always \cap links'
      PROVE  Sound([job[c] EXCEPT !.had = had, !.always = always], links')
  <2> DEFINE r == [job[c] EXCEPT !.had = had, !.always = always]
  <2>1. /\ job[c] \in Requests /\ Placed(job[c]) /\ Ranked(job[c]) /\ Honest(job[c], links)
        /\ Replaces(job[c], links)
    BY Here
  <2>2. had \subseteq job[c].had /\ had \subseteq EndsOf(links') /\ (had # {} => Several(EndsOf(links')))
    <3>1. links' \in SUBSET Link
      BY <1>3 DEF StoreSound
    <3>2. IsFiniteSet(EndsOf(links'))
      BY <3>1, EndsFinite
    <3> QED BY <1>4, <3>2, SeveralCounts
  <2>3. always \subseteq job[c].always /\ always \subseteq links'
    BY <1>4
  <2>4. /\ r \in Requests /\ r.at = job[c].at /\ r.op = job[c].op /\ r.mixed = job[c].mixed
        /\ r.always = always /\ r.node = job[c].node /\ r.old = job[c].old /\ r.saw = job[c].saw
        /\ r.ok = job[c].ok /\ r.failed = job[c].failed /\ r.flagged = job[c].flagged
        /\ r.found = job[c].found /\ r.had = had /\ r.view = job[c].view
    BY <2>1, <2>2, <2>3 DEF Requests
  <2> HIDE DEF r
  <2>5. Placed(r) /\ Ranked(r)
    BY <2>1, <2>4 DEF Placed, Ranked
  <2>6. Honest(r, links')
    BY <2>1, <2>3, <2>4 DEF Honest
  <2>7. Replaces(r, links')
    <3>1. had # {} => job[c].had # {}
      BY <2>2
    <3> QED BY <2>1, <2>2, <2>4, <3>1 DEF Replaces
  <2> QED BY <2>4, <2>5, <2>6, <2>7 DEF Sound, r
<1>5. RequestsSound'
  <2>1. job' = [c \in Caller |-> [job[c] EXCEPT
                   !.had = IF Cardinality(EndsOf(links')) > 1 THEN job[c].had \cap EndsOf(links') ELSE {},
                   !.always = job[c].always \cap links']]
    BY DEF Evict
  <2>2. DOMAIN job' = Caller
    BY <2>1
  <2>3. \A c \in Caller : Sound(job'[c], links')
    BY <2>1, <1>4
  <2> QED BY <2>2, <2>3 DEF RequestsSound
<1> QED BY <1>2, <1>3, <1>5 DEF SInv

-----------------------------------------------------------------------------
(* The invariant.                                                          *)

LEMMA Initially == ASSUME Init PROVE SInv
<1>1. StoreSound
  BY FS_EmptySet DEF Init, StoreSound, FromEmbeddings
<1>2. RequestsSound
  BY IdleSound DEF Init, RequestsSound
<1>3. ASSUME NEW x \in Component PROVE Tracks(x)
  <2>1. Failures(x) = {} /\ ~status[x].failing
    BY DEF Init, Failures
  <2> QED BY <2>1 DEF Tracks
<1>4. /\ status \in [Component -> [failing : BOOLEAN, successes : 0..3, entry : BOOLEAN]]
      /\ level \in Level /\ log \in Reports
  BY DEF Init, Level, Reports
<1>5. level = LevelOf(status)
  BY DEF Init, LevelOf, Component
<1> QED BY <1>1, <1>2, <1>3, <1>4, <1>5 DEF SInv, HealthSound

(* Nothing at all happens. *)
LEMMA Stutters == ASSUME SInv, UNCHANGED vars PROVE SInv'
<1>1. UNCHANGED <<nodes, links, vectors, job, status, level, log>>
  BY DEF vars, store, health
<1>2. HealthSound'
  BY <1>1, HealthSame DEF SInv
<1> QED BY <1>1, <1>2 DEF SInv, StoreSound, RequestsSound

LEMMA StepKeeps == ASSUME SInv, [Next]_vars PROVE SInv'
<1>1. ASSUME NEW c \in Caller, Request(c) PROVE SInv'
  BY <1>1, ViewKeeps, ReportFailureKeeps, InstallKeeps, FindKeeps, VectorsKeep, AroundKeeps, ResolveKeeps,
     TierKeeps, RetrievalKeeps, ContextKeeps, CombinedKeeps DEF Request
<1> QED BY <1>1, BeginKeeps, CloseKeeps, InsertKeeps, EvictKeeps, ReportKeeps, SetLevelKeeps, Stutters DEF Next

(* Every reachable state is sound: the store, each request and the reports. *)
THEOREM Inductive == Spec => []SInv
<1> QED BY Initially, StepKeeps, PTL DEF Spec

(* Every variable keeps its type. *)
THEOREM TypeCorrect == Spec => []TypeOK
<1>1. SInv => TypeOK
  <2> SUFFICES ASSUME SInv PROVE TypeOK
    OBVIOUS
  <2>1. ASSUME NEW c \in Caller
        PROVE  /\ job[c].op \in Op \cup {"none"} /\ job[c].at \in Site /\ job[c].node \in Node
               /\ {job[c].todo, job[c].width} \subseteq 0..(Limit + 2 * Cardinality(Node))
               /\ job[c].dim \in Dims \cup {1}
               /\ job[c].view \subseteq Link /\ job[c].found \subseteq Link /\ job[c].always \subseteq Link
               /\ job[c].had \subseteq Node
               /\ {job[c].short, job[c].ok, job[c].flagged, job[c].failed, job[c].saw,
                   job[c].old, job[c].mixed} \subseteq BOOLEAN
    <3>1. job[c] \in Requests
      BY Here
    <3> QED BY <3>1 DEF Requests, Most
  <2> QED BY <2>1 DEF SInv, StoreSound, HealthSound, TypeOK
<1> QED BY <1>1, Inductive, PTL

(***************************************************************************)
(* Resilient retrieval never answers with an error, and what it does not   *)
(* flag is no fallback, whatever is inserted, evicted and replaced, and    *)
(* whichever calls of the store fail, while it runs.                       *)
(***************************************************************************)
THEOREM AnswersStaySound == Spec => []AnswersSound
<1>1. SInv => AnswersHonest
  BY Here DEF Honest, Retrievals, AnswersHonest
<1> QED BY <1>1, Inductive, TypeCorrect, PTL DEF AnswersSound

(* A ranking is by the vectors of one computation, for any number of them. *)
THEOREM RankingsAreOne == Spec => []OneRanking
<1>1. SInv => OneRanking
  BY Here DEF Ranked, OneRanking
<1> QED BY <1>1, Inductive, PTL

-----------------------------------------------------------------------------
(* What the log says of a component, and its record.                       *)

LEMMA RecordTells == ASSUME SInv, NEW x \in Component PROVE status[x].failing <=> Degraded(x)
<1>1. log \in Reports /\ Tracks(x) /\ status[x].failing \in BOOLEAN /\ Len(log) \in Nat
  BY DEF SInv, HealthSound, Reports
<1>2. ASSUME NEW i \in Failures(x)
      PROVE  /\ i \in 0..Len(log) /\ IsFiniteSet(Since(x, i)) /\ Cardinality(Since(x, i)) \in Nat
             /\ Since(x, i) \subseteq (i + 1)..Len(log)
             /\ \A S \in SUBSET ((i + 1)..Len(log)) :
                    (\A k \in S : log[k] = [about |-> x, ok |-> TRUE])
                        => Cardinality(S) <= Cardinality(Since(x, i)) /\ Cardinality(S) \in Nat
             /\ \A k \in Since(x, i) : log[k] = [about |-> x, ok |-> TRUE]
  <2>1. i \in 0..Len(log)
    BY <1>1 DEF Failures, Reports
  <2>2. IsFiniteSet(Since(x, i)) /\ Cardinality(Since(x, i)) \in Nat
    BY <1>1, <2>1, SinceFinite
  <2>3. ASSUME NEW S \in SUBSET ((i + 1)..Len(log)), \A k \in S : log[k] = [about |-> x, ok |-> TRUE]
        PROVE  Cardinality(S) <= Cardinality(Since(x, i)) /\ Cardinality(S) \in Nat
    <3>1. S \subseteq Since(x, i)
      BY <2>3 DEF Since
    <3> QED BY <2>2, <3>1, FS_Subset, FS_CardinalityType
  <2> QED BY <2>1, <2>2, <2>3 DEF Since
<1>3. ASSUME status[x].failing PROVE Degraded(x)
  <2>1. PICK i \in Failures(x) : Cardinality(Since(x, i)) = status[x].successes /\ status[x].successes < 3
    BY <1>1, <1>3 DEF Tracks
  <2>2. Cardinality(Since(x, i)) < 3 /\ Cardinality(Since(x, i)) \in Nat
    BY <1>2, <2>1
  <2>3. ASSUME NEW S \in SUBSET ((i + 1)..Len(log)), \A k \in S : log[k] = [about |-> x, ok |-> TRUE]
        PROVE  Cardinality(S) < 3
    <3>1. Cardinality(S) <= Cardinality(Since(x, i)) /\ Cardinality(S) \in Nat
      BY <1>2, <2>3
    <3> QED BY <2>2, <3>1
  <2> QED BY <2>3 DEF Degraded
<1>4. ASSUME ~status[x].failing PROVE ~Degraded(x)
  <2>1. ASSUME NEW i \in Failures(x)
        PROVE  \E S \in SUBSET ((i + 1)..Len(log)) :
                   (\A k \in S : log[k] = [about |-> x, ok |-> TRUE]) /\ ~(Cardinality(S) < 3)
    <3>1. Cardinality(Since(x, i)) >= 3 /\ Cardinality(Since(x, i)) \in Nat
      BY <1>1, <1>2, <1>4 DEF Tracks
    <3>2. ~(Cardinality(Since(x, i)) < 3)
      BY <3>1
    <3> QED BY <1>2, <3>2
  <2> QED BY <2>1 DEF Degraded
<1> QED BY <1>3, <1>4

(***************************************************************************)
(* A component is degraded from a failure until three successes in a row,  *)
(* and the level says so, after any number of reports.                     *)
(***************************************************************************)
THEOREM DegradedUntilThreeHolds == Spec => []DegradedUntilThree
<1>1. SInv => DegradedUntilThree
  <2> SUFFICES ASSUME SInv PROVE DegradedUntilThree
    OBVIOUS
  <2>1. ASSUME NEW x \in Component PROVE status[x].failing = Degraded(x)
    <3>1. status[x].failing \in BOOLEAN
      BY DEF SInv, HealthSound
    <3>2. Degraded(x) \in BOOLEAN
      BY DEF Degraded
    <3> QED BY <3>1, <3>2, RecordTells
  <2>2. (level = "Full") = ~(Degraded("storage") \/ Degraded("embeddings")) \/ LevelSet
    <3>1. "storage" \in Component /\ "embeddings" \in Component
      BY DEF Component
    <3>2. LevelSet \/ level = LevelOf(status)
      BY DEF SInv, HealthSound
    <3>3. LevelOf(status) = "Full" <=> ~(status["storage"].failing \/ status["embeddings"].failing)
      BY DEF LevelOf
    <3>4. (status["storage"].failing <=> Degraded("storage"))
          /\ (status["embeddings"].failing <=> Degraded("embeddings"))
      BY <3>1, RecordTells
    <3> QED BY <3>2, <3>3, <3>4
  <2> QED BY <2>1, <2>2 DEF DegradedUntilThree
<1> QED BY <1>1, Inductive, PTL

(***************************************************************************)
(* Recomputing costs no node its vector while it stays in a graph of two   *)
(* nodes or more, for graphs of any size and recomputations in any order.  *)
(***************************************************************************)
THEOREM NothingIsTakenBack == Spec => NothingTakenBack
<1>1. ASSUME SInv, Next, NEW c \in Caller,
             job[c].op \in Recompute, job[c].at # "done", job'[c].at = "done", ~job[c].short
      PROVE  job[c].had \cap vectors.of \subseteq vectors'.of
  <2>1. job[c] \in Requests /\ Placed(job[c]) /\ Replaces(job[c], links)
    BY <1>1, Here
  <2>2. CASE \E d \in Caller : Install(d)
    <3>1. PICK d \in Caller : Install(d)
      BY <2>2
    <3>2. CASE d = c
      <4>1. job[c].at = "install" /\ job[c].op \in {"spectral", "node2vec"}
        BY <1>1, <3>1, <3>2 DEF Install, Recompute
      <4>2. job[c].had \subseteq EndsOf(job[c].view) /\ (job[c].had # {} => Several(EndsOf(job[c].view)))
        BY <2>1, <4>1 DEF Replaces
      <4>3. Several(EndsOf(job[c].view)) => job[c].view # {}
        BY DEF Several, EndsOf
      <4>4. vectors' = IF job[c].op = "spectral" THEN Spectral(job[c]) ELSE Walked(job[c])
        BY <3>1, <3>2 DEF Install
      <4>5. job[c].had # {} => vectors'.of = EndsOf(job[c].view)
        BY <1>1, <2>1, <4>2, <4>3, <4>4, Computed
      <4> QED BY <4>2, <4>5
    <3>3. CASE d # c
      <4>1. job'[c] = [job[c] EXCEPT !.old = job[c].saw]
        BY <3>1, <3>3 DEF Install
      <4>2. job'[c].at = job[c].at
        BY <2>1, <4>1 DEF Requests
      <4> QED BY <1>1, <4>2
    <3> QED BY <3>2, <3>3
  <2>3. CASE UNCHANGED vectors
    BY <2>3
  <2>4. (\E d \in Caller : Install(d)) \/ UNCHANGED vectors
    <3>1. ASSUME NEW d \in Caller, Begin(d) \/ Request(d) \/ Close(d), ~Install(d) PROVE UNCHANGED vectors
      BY <3>1 DEF Begin, Close, Request, Quietly, View, ReportFailure, Find, Vectors, Around, Resolve, Widen,
         Weigh, Sure, Full, Has, Get, Near, Cold, Minimal, Expand, Again, Score, Scoring, Target, Rank
    <3> QED BY <1>1, <3>1 DEF Next, Insert, Evict, Report, SetLevel
  <2> QED BY <2>2, <2>3, <2>4
<1>2. SInv /\ [Next]_vars =>
        [\A c \in Caller :
            job[c].op \in Recompute /\ job[c].at # "done" /\ job'[c].at = "done" /\ ~job[c].short
                => job[c].had \cap vectors.of \subseteq vectors'.of]_vars
  BY <1>1
<1> QED BY <1>2, Inductive, PTL DEF Spec, NothingTakenBack
=============================================================================
