------------------------ MODULE KnowledgeEngineProofs ------------------------
(***************************************************************************)
(* Proofs about KnowledgeEngine, for any callers, triples, nodes, sources, *)
(* weights and targets.                                                    *)
(*                                                                         *)
(* What the safety properties rest on is the order of the calls a request  *)
(* has still to make: a node is created before the triple that needs it, a *)
(* triple is read before it is written back, and a weight is adjusted last *)
(* and under the lock.  The three predicates say so of a plan, given the   *)
(* nodes N that exist, the triples R that were read, and whether the lock  *)
(* is held.                                                                *)
(***************************************************************************)
EXTENDS KnowledgeEngine, SequenceTheorems, FiniteSetTheorems, TLAPS

EndsOf(t) == {Ends[t][1], Ends[t][2]}
WriteBack == {"scale", "zero", "up", "down"}

PutsPrepared(p, N) ==
    \A i \in DOMAIN p : p[i].do = "put" =>
        \A n \in EndsOf(p[i].arg) : n \in N \/ \E j \in 1..(i - 1) : p[j] = Call("node", n)

WritesRead(p, R) ==
    \A i \in DOMAIN p : p[i].do \in WriteBack =>
        p[i].arg \in R \/ \E j \in 1..(i - 1) : p[j] = Call("get", p[i].arg)

AdjustsLocked(p, held) ==
    (\E i \in DOMAIN p : p[i].do \in {"up", "down"}) =>
        \E t \in Triple, s \in {"up", "down"} :
            \/ p = Adjustment(t, s)
            \/ held /\ p = <<Call("get", t), Call(s, t)>>
            \/ held /\ p = <<Call(s, t)>>

(* The triples a caller has read, both nodes of which exist. *)
Readied(copy, N) == {t \in Triple : copy[t] # Absent /\ EndsOf(t) \subseteq N}

Ordered(j, N, held) ==
    /\ PutsPrepared(j.plan, N)
    /\ WritesRead(j.plan, Readied(j.copy, N))
    /\ AdjustsLocked(j.plan, held)

PlansOrdered == \A c \in Caller : Ordered(job[c], nodes, adjuster = c)

IInv == TypeOK /\ NodesBehindTriples /\ PlansOrdered

Jobs == [plan : Seq(Calls), copy : [Triple -> Stored], n : Nat, was : Nat]

-----------------------------------------------------------------------------
(* The predicates on plans.                                                *)

LEMMA CallTyped ==
  /\ \A n \in Node : Call("node", n) \in Calls
  /\ \A t \in Triple, do \in {"put", "touch", "get", "scale", "zero", "up", "down", "erase", "unlink"} :
        Call(do, t) \in Calls
  /\ \A s \in Source : Call("source", s) \in Calls
  /\ \A s \in Source, ts \in SUBSET Triple : Call("link", <<s, ts>>) \in Calls
  /\ \A do \in {"lock", "decay", "evict", "count", "decide", "select"} : Call(do, None) \in Calls
  BY DEF Call, Calls

LEMMA EndsTyped == \A t \in Triple : EndsOf(t) \subseteq Node /\ Ends[t][1] \in Node /\ Ends[t][2] \in Node
  BY StoreAssumption DEF EndsOf

(* More nodes, and more triples read, keep a plan in order. *)
LEMMA OrderedGrows ==
  ASSUME NEW j \in Jobs, NEW N, NEW M, N \subseteq M, NEW h \in BOOLEAN, NEW g \in BOOLEAN,
         h => g, Ordered(j, N, h)
  PROVE  Ordered(j, M, g)
<1>1. PutsPrepared(j.plan, M)
  BY DEF Ordered, PutsPrepared
<1>2. Readied(j.copy, N) \subseteq Readied(j.copy, M)
  BY DEF Readied
<1>3. WritesRead(j.plan, Readied(j.copy, M))
  BY <1>2 DEF Ordered, WritesRead
<1>4. AdjustsLocked(j.plan, g)
  BY DEF Ordered, AdjustsLocked
<1> QED BY <1>1, <1>3, <1>4 DEF Ordered

LEMMA TailPuts ==
  ASSUME NEW p \in Seq(Calls), p # <<>>, NEW N, NEW M, PutsPrepared(p, N), N \subseteq M,
         \A n \in Node : Head(p) = Call("node", n) => n \in M
  PROVE  PutsPrepared(Tail(p), M)
<1> SUFFICES ASSUME NEW i \in DOMAIN Tail(p), Tail(p)[i].do = "put", NEW n \in EndsOf(Tail(p)[i].arg)
             PROVE  n \in M \/ \E j \in 1..(i - 1) : Tail(p)[j] = Call("node", n)
  BY DEF PutsPrepared
<1>1. /\ Len(p) \in Nat /\ Len(p) > 0
      /\ i \in 1..(Len(p) - 1)
      /\ \A k \in 1..(Len(p) - 1) : Tail(p)[k] = p[k + 1]
      /\ Head(p) = p[1]
  OBVIOUS
<1>2. i + 1 \in DOMAIN p /\ p[i + 1] = Tail(p)[i]
  BY <1>1
<1>3. PICK k \in 0..i : n \in N \/ (k > 0 /\ p[k] = Call("node", n))
  BY <1>1, <1>2 DEF PutsPrepared
<1>4. p[i + 1] \in Calls /\ n \in Node
  BY <1>2, EndsTyped DEF Calls
<1>5. CASE n \in N
  BY <1>5
<1>6. CASE k = 1 /\ p[k] = Call("node", n)
  BY <1>6, <1>1, <1>4
<1>7. CASE k > 1 /\ p[k] = Call("node", n)
  <2>1. k - 1 \in 1..(i - 1) /\ Tail(p)[k - 1] = p[k]
    BY <1>7, <1>1
  <2> QED BY <1>7, <2>1
<1> QED BY <1>3, <1>5, <1>6, <1>7

LEMMA TailWrites ==
  ASSUME NEW p \in Seq(Calls), p # <<>>, NEW R, NEW S, WritesRead(p, R), R \subseteq S,
         \A t \in Triple : Head(p) = Call("get", t) => t \in S
  PROVE  WritesRead(Tail(p), S)
<1> SUFFICES ASSUME NEW i \in DOMAIN Tail(p), Tail(p)[i].do \in WriteBack
             PROVE  LET t == Tail(p)[i].arg
                    IN  t \in S \/ \E j \in 1..(i - 1) : Tail(p)[j] = Call("get", t)
  BY DEF WritesRead
<1> DEFINE t == Tail(p)[i].arg
<1>1. /\ Len(p) \in Nat /\ Len(p) > 0
      /\ i \in 1..(Len(p) - 1)
      /\ \A k \in 1..(Len(p) - 1) : Tail(p)[k] = p[k + 1]
      /\ Head(p) = p[1]
  OBVIOUS
<1>2. i + 1 \in DOMAIN p /\ p[i + 1] = Tail(p)[i]
  BY <1>1
<1>3. PICK k \in 0..i : t \in R \/ (k > 0 /\ p[k] = Call("get", t))
  BY <1>1, <1>2 DEF WritesRead
<1>4. t \in Triple
  BY <1>2 DEF Calls, WriteBack
<1>5. CASE t \in R
  BY <1>5
<1>6. CASE k = 1 /\ p[k] = Call("get", t)
  BY <1>6, <1>1, <1>4
<1>7. CASE k > 1 /\ p[k] = Call("get", t)
  <2>1. k - 1 \in 1..(i - 1) /\ Tail(p)[k - 1] = p[k]
    BY <1>7, <1>1
  <2> QED BY <1>7, <2>1
<1> QED BY <1>3, <1>5, <1>6, <1>7

LEMMA Concat ==
  ASSUME NEW p \in Seq(Calls), NEW q \in Seq(Calls)
  PROVE  /\ p \o q \in Seq(Calls)
         /\ Len(p) \in Nat /\ Len(q) \in Nat
         /\ DOMAIN (p \o q) = 1..(Len(p) + Len(q))
         /\ \A i \in 1..Len(p) : (p \o q)[i] = p[i]
         /\ \A i \in 1..Len(q) : (p \o q)[Len(p) + i] = q[i]
         /\ \A i \in DOMAIN (p \o q) :
               \/ i \in DOMAIN p /\ (p \o q)[i] = p[i]
               \/ i - Len(p) \in DOMAIN q /\ i > Len(p) /\ (p \o q)[i] = q[i - Len(p)]
  OBVIOUS

LEMMA ConcatPuts ==
  ASSUME NEW p \in Seq(Calls), NEW q \in Seq(Calls), NEW N,
         PutsPrepared(p, N), PutsPrepared(q, N)
  PROVE  PutsPrepared(p \o q, N)
<1> DEFINE r == p \o q
<1> SUFFICES ASSUME NEW i \in DOMAIN r, r[i].do = "put", NEW n \in EndsOf(r[i].arg), n \notin N
             PROVE  \E j \in 1..(i - 1) : r[j] = Call("node", n)
  BY DEF PutsPrepared
<1>1. CASE i \in DOMAIN p /\ r[i] = p[i]
  <2>1. PICK j \in 1..(i - 1) : p[j] = Call("node", n)
    BY <1>1 DEF PutsPrepared
  <2>2. j \in 1..Len(p)
    BY <1>1, Concat
  <2> QED BY <2>1, <2>2, Concat
<1>2. CASE i - Len(p) \in DOMAIN q /\ i > Len(p) /\ r[i] = q[i - Len(p)]
  <2>1. PICK j \in 1..(i - Len(p) - 1) : q[j] = Call("node", n)
    BY <1>2 DEF PutsPrepared
  <2>2. j \in 1..Len(q) /\ Len(p) + j \in 1..(i - 1) /\ r[Len(p) + j] = q[j]
    BY <1>2, Concat
  <2> QED BY <2>1, <2>2
<1> HIDE DEF r
<1> QED BY <1>1, <1>2, Concat DEF r

(* The second part may write back what the first has read. *)
LEMMA ConcatWrites ==
  ASSUME NEW p \in Seq(Calls), NEW q \in Seq(Calls), NEW R, NEW S,
         WritesRead(p, R), WritesRead(q, S),
         \A t \in S : t \in R \/ \E j \in DOMAIN p : p[j] = Call("get", t)
  PROVE  WritesRead(p \o q, R)
<1> DEFINE r == p \o q
<1> SUFFICES ASSUME NEW i \in DOMAIN r, r[i].do \in WriteBack, r[i].arg \notin R
             PROVE  \E j \in 1..(i - 1) : r[j] = Call("get", r[i].arg)
  BY DEF WritesRead
<1>1. CASE i \in DOMAIN p /\ r[i] = p[i]
  <2>1. PICK j \in 1..(i - 1) : p[j] = Call("get", r[i].arg)
    BY <1>1 DEF WritesRead
  <2>2. j \in 1..Len(p)
    BY <1>1, Concat
  <2> QED BY <2>1, <2>2, Concat
<1>2. CASE i - Len(p) \in DOMAIN q /\ i > Len(p) /\ r[i] = q[i - Len(p)]
  <2>1. CASE r[i].arg \in S
    <3>1. PICK j \in DOMAIN p : p[j] = Call("get", r[i].arg)
      BY <2>1
    <3>2. j \in 1..(i - 1) /\ r[j] = p[j]
      BY <1>2, <3>1, Concat
    <3> QED BY <3>1, <3>2
  <2>2. CASE r[i].arg \notin S
    <3>1. PICK j \in 1..(i - Len(p) - 1) : q[j] = Call("get", r[i].arg)
      BY <1>2, <2>2 DEF WritesRead
    <3>2. j \in 1..Len(q) /\ Len(p) + j \in 1..(i - 1) /\ r[Len(p) + j] = q[j]
      BY <1>2, Concat
    <3> QED BY <3>1, <3>2
  <2> QED BY <2>1, <2>2
<1> HIDE DEF r
<1> QED BY <1>1, <1>2, Concat DEF r

-----------------------------------------------------------------------------
(* The plans that requests start with.                                     *)

WritesNothingBack(p) == \A i \in DOMAIN p : p[i].do \notin WriteBack
AdjustsNothing(p) == \A i \in DOMAIN p : p[i].do \notin {"up", "down"}

(* Positions in a plan of three calls per triple. *)
LEMMA Thirds ==
  ASSUME NEW i \in Nat, i > 0
  PROVE  /\ i % 3 \in 0..2
         /\ i % 3 = 1 => ((i - 1) % 3) + 1 = 1
         /\ i % 3 = 2 => ((i - 1) % 3) + 1 = 2
         /\ i % 3 = 0 => ((i - 1) % 3) + 1 = 3
         /\ i % 3 = 0 => /\ i > 2 /\ (i - 1) % 3 = 2 /\ (i - 2) % 3 = 1
                         /\ (i + 1) \div 3 = (i + 2) \div 3 /\ i \div 3 = (i + 2) \div 3
  OBVIOUS

LEMMA ThirdsIn ==
  ASSUME NEW n \in Nat, NEW i \in 1..(3 * n)
  PROVE  (i + 2) \div 3 \in 1..n
  OBVIOUS

LEMMA InsertsOrdered ==
  ASSUME NEW ts \in Seq(Triple)
  PROVE  Inserts(ts) \in Seq(Calls) /\ PutsPrepared(Inserts(ts), {}) /\ WritesNothingBack(Inserts(ts))
<1> DEFINE p == Inserts(ts)
           n == Len(ts)
           T(i) == ts[(i + 2) \div 3]
<1>1. n \in Nat /\ p = [i \in 1..(3 * n) |-> InsertCalls(T(i))[((i - 1) % 3) + 1]]
  BY DEF Inserts
<1>2. \A i \in 1..(3 * n) : (i + 2) \div 3 \in 1..n /\ i % 3 \in 0..2
  BY <1>1, Thirds, ThirdsIn
<1>3. \A i \in 1..(3 * n) : T(i) \in Triple
  BY <1>1, <1>2
<1>4. \A i \in 1..(3 * n) :
        /\ i % 3 = 1 => p[i] = Call("node", Ends[T(i)][1])
        /\ i % 3 = 2 => p[i] = Call("node", Ends[T(i)][2])
        /\ i % 3 = 0 => p[i] = Call("put", T(i))
  <2> TAKE i \in 1..(3 * n)
  <2>1. p[i] = InsertCalls(T(i))[((i - 1) % 3) + 1]
    BY <1>1
  <2>2. /\ i % 3 = 1 => ((i - 1) % 3) + 1 = 1
        /\ i % 3 = 2 => ((i - 1) % 3) + 1 = 2
        /\ i % 3 = 0 => ((i - 1) % 3) + 1 = 3
    BY Thirds
  <2> HIDE DEF p, T
  <2> QED BY <2>1, <2>2 DEF InsertCalls
<1>5. \A i \in 1..(3 * n) : p[i] \in Calls
  BY <1>2, <1>3, <1>4, CallTyped, EndsTyped
<1>6. DOMAIN p = 1..(3 * n) /\ p \in Seq(Calls)
  BY <1>1, <1>5
<1> HIDE DEF p, T
<1>7. WritesNothingBack(p)
  BY <1>2, <1>4, <1>6 DEF WritesNothingBack, WriteBack, Call
<1>8. ASSUME NEW i \in DOMAIN p, p[i].do = "put", NEW m \in EndsOf(p[i].arg)
      PROVE  \E j \in 1..(i - 1) : p[j] = Call("node", m)
  <2>1. i \in 1..(3 * n) /\ i % 3 = 0 /\ p[i].arg = T(i)
    BY <1>2, <1>4, <1>6, <1>8 DEF Call
  <2>2. /\ i - 1 \in 1..(3 * n) /\ (i - 1) % 3 = 2 /\ T(i - 1) = T(i)
        /\ i - 2 \in 1..(3 * n) /\ (i - 2) % 3 = 1 /\ T(i - 2) = T(i)
    <3>1. /\ i > 2 /\ (i - 1) % 3 = 2 /\ (i - 2) % 3 = 1
          /\ (i + 1) \div 3 = (i + 2) \div 3 /\ i \div 3 = (i + 2) \div 3
      BY <2>1, Thirds
    <3>2. i \in Nat /\ (i - 1) + 2 = i + 1 /\ (i - 2) + 2 = i
      BY <2>1
    <3>3. T(i - 1) = ts[(i + 1) \div 3] /\ T(i - 2) = ts[i \div 3] /\ T(i) = ts[(i + 2) \div 3]
      BY <3>2 DEF T
    <3>4. i > 2 /\ n \in Nat
      BY <1>1, <3>1
    <3>5. i - 1 \in 1..(3 * n) /\ i - 2 \in 1..(3 * n)
      <4> HIDE DEF n
      <4> QED BY <2>1, <3>4
    <3>6. T(i - 1) = T(i) /\ T(i - 2) = T(i)
      BY <3>1, <3>3
    <3> QED BY <3>1, <3>5, <3>6
  <2>3. p[i - 2] = Call("node", Ends[T(i)][1]) /\ p[i - 1] = Call("node", Ends[T(i)][2])
    BY <2>2, <1>4
  <2>4. i - 2 \in 1..(i - 1) /\ i - 1 \in 1..(i - 1)
    <3>1. i \in Nat /\ i - 1 \geq 1 /\ i - 2 \geq 1
      <4>1. i \in Nat
        BY <2>1
      <4>2. i > 2
        BY <2>1, <4>1, Thirds
      <4> QED BY <4>1, <4>2
    <3> QED BY <3>1
  <2>5. m \in {Ends[T(i)][1], Ends[T(i)][2]}
    BY <1>8, <2>1 DEF EndsOf
  <2> QED BY <2>3, <2>4, <2>5
<1> QED BY <1>6, <1>7, <1>8 DEF PutsPrepared, p

(* A plan that starts from nothing. *)
Fresh0(p) == p \in Seq(Calls) /\ PutsPrepared(p, {}) /\ WritesRead(p, {}) /\ AdjustsLocked(p, FALSE)

LEMMA Harmless ==
  ASSUME NEW p \in Seq(Calls), \A i \in DOMAIN p : p[i].do \notin WriteBack \cup {"put"}
  PROVE  PutsPrepared(p, {}) /\ WritesRead(p, {}) /\ AdjustsLocked(p, FALSE) /\ AdjustsNothing(p)
  BY DEF PutsPrepared, WritesRead, AdjustsLocked, AdjustsNothing, WriteBack

LEMMA WriteBackPlan ==
  ASSUME NEW t \in Triple, NEW do \in {"scale", "zero"}
  PROVE  /\ <<Call(do, t)>> \in Seq(Calls)
         /\ PutsPrepared(<<Call(do, t)>>, {}) /\ AdjustsNothing(<<Call(do, t)>>)
         /\ WritesRead(<<Call(do, t)>>, {t})
<1>1. Call(do, t) \in Calls
  BY CallTyped
<1> QED BY <1>1 DEF PutsPrepared, WritesRead, AdjustsNothing, WriteBack, Call

LEMMA ConcatAdjusts ==
  ASSUME NEW p \in Seq(Calls), NEW q \in Seq(Calls), AdjustsNothing(p), AdjustsNothing(q)
  PROVE  AdjustsNothing(p \o q)
<1> DEFINE r == p \o q
<1>1. ASSUME NEW i \in DOMAIN r PROVE r[i].do \notin {"up", "down"}
  <2>1. \/ i \in DOMAIN p /\ r[i] = p[i]
        \/ i - Len(p) \in DOMAIN q /\ r[i] = q[i - Len(p)]
    BY Concat
  <2> QED BY <2>1 DEF AdjustsNothing
<1> QED BY <1>1 DEF AdjustsNothing

LEMMA NoWritesRead ==
  ASSUME NEW p, WritesNothingBack(p)
  PROVE  (\A R : WritesRead(p, R)) /\ AdjustsNothing(p)
  BY DEF WritesNothingBack, WritesRead, AdjustsNothing, WriteBack

LEMMA InsertPlan == \A ts \in Batch : Fresh0(Inserts(ts))
<1> TAKE ts \in Batch
<1>1. ts \in Seq(Triple)
  BY EngineAssumption DEF Batch, Facts
<1>2. WritesRead(Inserts(ts), {}) /\ AdjustsNothing(Inserts(ts))
  BY <1>1, InsertsOrdered, NoWritesRead
<1> QED BY <1>1, <1>2, InsertsOrdered DEF Fresh0, AdjustsLocked, AdjustsNothing

LEMMA InsertSourcePlan ==
  \A ts \in Batch, s \in Source :
    Fresh0(Inserts(ts) \o <<Call("source", s), Call("link", <<s, {ts[i] : i \in DOMAIN ts}>>)>>)
<1> TAKE ts \in Batch, s \in Source
<1> DEFINE told == {ts[i] : i \in DOMAIN ts}
           q == <<Call("source", s), Call("link", <<s, told>>)>>
<1>1. ts \in Seq(Triple)
  BY EngineAssumption DEF Batch, Facts
<1>2. told \subseteq Triple
  BY <1>1
<1>3. q \in Seq(Calls) /\ \A i \in DOMAIN q : q[i].do \notin WriteBack \cup {"put"}
  <2>1. Call("source", s) \in Calls /\ Call("link", <<s, told>>) \in Calls
    BY <1>2, CallTyped
  <2> QED BY <2>1 DEF Call, WriteBack
<1> HIDE DEF q
<1>4. PutsPrepared(q, {}) /\ WritesRead(q, {}) /\ AdjustsNothing(q)
  BY <1>3, Harmless
<1>5. /\ Inserts(ts) \in Seq(Calls) /\ PutsPrepared(Inserts(ts), {})
      /\ WritesRead(Inserts(ts), {}) /\ AdjustsNothing(Inserts(ts))
  BY <1>1, InsertsOrdered, NoWritesRead
<1>6. PutsPrepared(Inserts(ts) \o q, {})
  BY <1>3, <1>4, <1>5, ConcatPuts
<1>7. WritesRead(Inserts(ts) \o q, {})
  BY <1>3, <1>4, <1>5, ConcatWrites
<1>8. AdjustsNothing(Inserts(ts) \o q)
  BY <1>3, <1>4, <1>5, ConcatAdjusts
<1>9. Inserts(ts) \o q \in Seq(Calls)
  BY <1>3, <1>5, Concat
<1> QED BY <1>6, <1>7, <1>8, <1>9 DEF Fresh0, AdjustsLocked, AdjustsNothing, q

(* A plan that reads the triples G, goes on without writing back, and may  *)
(* write back those it has read at its end.                                *)
LEMMA ReadsOrdered ==
  ASSUME NEW a \in Triple, NEW b \in Triple
  PROVE  /\ <<Call("get", a)>> \in Seq(Calls) /\ <<Call("get", a), Call("get", b)>> \in Seq(Calls)
         /\ PutsPrepared(<<Call("get", a)>>, {}) /\ WritesRead(<<Call("get", a)>>, {})
         /\ AdjustsNothing(<<Call("get", a)>>)
         /\ PutsPrepared(<<Call("get", a), Call("get", b)>>, {})
         /\ WritesRead(<<Call("get", a), Call("get", b)>>, {})
         /\ AdjustsNothing(<<Call("get", a), Call("get", b)>>)
<1>1. Call("get", a) \in Calls /\ Call("get", b) \in Calls
  BY CallTyped
<1>2. <<Call("get", a)>> \in Seq(Calls) /\ <<Call("get", a), Call("get", b)>> \in Seq(Calls)
  BY <1>1
<1>3. \A i \in DOMAIN <<Call("get", a)>> : <<Call("get", a)>>[i].do = "get"
  BY DEF Call
<1>4. \A i \in DOMAIN <<Call("get", a), Call("get", b)>> :
        <<Call("get", a), Call("get", b)>>[i].do = "get"
  BY DEF Call
<1>5. "get" \notin WriteBack \cup {"put"}
  BY DEF WriteBack
<1> QED BY <1>2, <1>3, <1>4, <1>5, Harmless

LEMMA ReadInsert ==
  ASSUME NEW a \in Triple, NEW ts \in Seq(Triple)
  PROVE  LET p == <<Call("get", a)>> \o Inserts(ts)
         IN  p \in Seq(Calls) /\ PutsPrepared(p, {}) /\ WritesRead(p, {}) /\ AdjustsNothing(p)
             /\ \E i \in DOMAIN p : p[i] = Call("get", a)
<1> DEFINE g == <<Call("get", a)>>
<1>1. g \in Seq(Calls) /\ PutsPrepared(g, {}) /\ WritesRead(g, {}) /\ AdjustsNothing(g)
  BY ReadsOrdered
<1>2. Len(g) = 1 /\ g[1] = Call("get", a)
  OBVIOUS
<1> HIDE DEF g
<1>3. /\ Inserts(ts) \in Seq(Calls) /\ PutsPrepared(Inserts(ts), {})
      /\ WritesRead(Inserts(ts), {}) /\ AdjustsNothing(Inserts(ts))
  BY InsertsOrdered, NoWritesRead
<1>4. 1 \in DOMAIN (g \o Inserts(ts)) /\ (g \o Inserts(ts))[1] = Call("get", a)
  <2> DEFINE q == Inserts(ts)
  <2>1. q \in Seq(Calls)
    BY <1>3
  <2> HIDE DEF q
  <2>2. Len(q) \in Nat /\ DOMAIN (g \o q) = 1..(Len(g) + Len(q))
    BY <1>1, <2>1, Concat
  <2>3. \A i \in 1..Len(g) : (g \o q)[i] = g[i]
    BY <1>1, <2>1, Concat
  <2>4. 1 \in 1..(Len(g) + Len(q)) /\ 1 \in 1..Len(g)
    BY <1>2, <2>2
  <2>5. (g \o q)[1] = g[1]
    BY <2>3, <2>4
  <2>6. 1 \in DOMAIN (g \o q)
    BY <2>2, <2>4
  <2> QED BY <1>2, <2>5, <2>6 DEF q
<1>5. WritesRead(g \o Inserts(ts), {})
  BY <1>1, <1>3, ConcatWrites
<1> QED BY <1>1, <1>3, <1>4, <1>5, Concat, ConcatPuts, ConcatAdjusts DEF g

(* Read, insert, write back: supersede and revoke. *)
LEMMA ReplacePlan ==
  ASSUME NEW a \in Triple, NEW ts \in Seq(Triple), NEW do \in {"scale", "zero"}
  PROVE  Fresh0(<<Call("get", a)>> \o Inserts(ts) \o <<Call(do, a)>>)
<1> DEFINE p == <<Call("get", a)>> \o Inserts(ts)
           q == <<Call(do, a)>>
<1>1. /\ p \in Seq(Calls) /\ PutsPrepared(p, {}) /\ WritesRead(p, {}) /\ AdjustsNothing(p)
      /\ \E i \in DOMAIN p : p[i] = Call("get", a)
  BY ReadInsert
<1>2. q \in Seq(Calls) /\ PutsPrepared(q, {}) /\ AdjustsNothing(q) /\ WritesRead(q, {a})
  BY WriteBackPlan
<1> HIDE DEF p, q
<1>3. WritesRead(p \o q, {})
  BY <1>1, <1>2, ConcatWrites
<1>4. AdjustsNothing(p \o q)
  BY <1>1, <1>2, ConcatAdjusts
<1> QED BY <1>1, <1>2, <1>3, <1>4, Concat, ConcatPuts DEF Fresh0, AdjustsLocked, AdjustsNothing, p, q

LEMMA ArchivePlan ==
  ASSUME NEW a \in Triple, NEW b \in Triple, NEW archived \in Archivings
  PROVE  LET q == [i \in DOMAIN archived |-> Call("scale", <<a, b>>[archived[i]])]
         IN  q \in Seq(Calls) /\ PutsPrepared(q, {}) /\ AdjustsNothing(q) /\ WritesRead(q, {a, b})
<1> DEFINE q == [i \in DOMAIN archived |-> Call("scale", <<a, b>>[archived[i]])]
<1>1. \A i \in DOMAIN archived : <<a, b>>[archived[i]] \in {a, b}
  BY DEF Archivings
<1>2. PICK n \in Nat : DOMAIN archived = 1..n
  BY DEF Archivings
<1>3. \A i \in 1..n : q[i] = Call("scale", <<a, b>>[archived[i]])
  BY <1>2
<1>4. \A i \in 1..n : q[i] \in Calls /\ q[i].do = "scale" /\ q[i].arg \in {a, b}
  BY <1>1, <1>2, <1>3, CallTyped DEF Call
<1>5. DOMAIN q = 1..n /\ q \in Seq(Calls)
  BY <1>2, <1>4
<1> HIDE DEF q
<1>6. PutsPrepared(q, {}) /\ AdjustsNothing(q) /\ WritesRead(q, {a, b})
  BY <1>4, <1>5 DEF PutsPrepared, AdjustsNothing, WritesRead, WriteBack
<1> QED BY <1>5, <1>6 DEF q

LEMMA ResolvePlan ==
  ASSUME NEW a \in Triple, NEW b \in Triple, NEW ts \in Seq(Triple),
         NEW archived \in Archivings
  PROVE  Fresh0(<<Call("get", a), Call("get", b)>>
                \o [i \in DOMAIN archived |-> Call("scale", <<a, b>>[archived[i]])]
                \o Inserts(ts))
<1> DEFINE g == <<Call("get", a), Call("get", b)>>
           q == [i \in DOMAIN archived |-> Call("scale", <<a, b>>[archived[i]])]
           r == Inserts(ts)
<1>1. g \in Seq(Calls) /\ PutsPrepared(g, {}) /\ WritesRead(g, {}) /\ AdjustsNothing(g)
  BY ReadsOrdered
<1>2. 1 \in DOMAIN g /\ 2 \in DOMAIN g /\ g[1] = Call("get", a) /\ g[2] = Call("get", b)
  OBVIOUS
<1>3. q \in Seq(Calls) /\ PutsPrepared(q, {}) /\ AdjustsNothing(q) /\ WritesRead(q, {a, b})
  BY ArchivePlan
<1>4. r \in Seq(Calls) /\ PutsPrepared(r, {}) /\ WritesRead(r, {}) /\ AdjustsNothing(r)
  BY InsertsOrdered, NoWritesRead
<1> HIDE DEF g, q, r
<1>5. WritesRead(g \o q, {})
  BY <1>1, <1>2, <1>3, ConcatWrites
<1>6. g \o q \in Seq(Calls) /\ PutsPrepared(g \o q, {}) /\ AdjustsNothing(g \o q)
  BY <1>1, <1>3, Concat, ConcatPuts, ConcatAdjusts
<1>7. WritesRead((g \o q) \o r, {})
  BY <1>4, <1>5, <1>6, ConcatWrites
<1>8. AdjustsNothing((g \o q) \o r)
  BY <1>4, <1>6, ConcatAdjusts
<1> QED BY <1>4, <1>6, <1>7, <1>8, Concat, ConcatPuts DEF Fresh0, AdjustsLocked, AdjustsNothing, g, q, r

LEMMA AdjustmentPlan ==
  ASSUME NEW t \in Triple, NEW signal \in {"up", "down"}
  PROVE  Fresh0(Adjustment(t, signal))
<1> DEFINE p == Adjustment(t, signal)
<1>1. p \in Seq(Calls)
  BY CallTyped DEF Adjustment
<1>2. DOMAIN p = 1..3 /\ p[1].do = "lock" /\ p[2] = Call("get", t) /\ p[2].do = "get" /\ p[3] = Call(signal, t)
      /\ p[3].do # "put" /\ p[3].arg = t
  BY DEF Adjustment, Call
<1> HIDE DEF p
<1>3. PutsPrepared(p, {}) /\ WritesRead(p, {})
  BY <1>2 DEF PutsPrepared, WritesRead, WriteBack
<1> QED BY <1>1, <1>3 DEF Fresh0, AdjustsLocked, p

LEMMA OneCallPlan ==
  /\ \A t \in Triple : Fresh0(<<Call("touch", t)>>)
  /\ Fresh0(<<Call("decay", None)>>) /\ Fresh0(<<Call("evict", None)>>)
<1>1. ASSUME NEW k \in Calls, k.do \notin WriteBack \cup {"put"}
      PROVE  Fresh0(<<k>>)
  <2>1. <<k>> \in Seq(Calls) /\ \A i \in DOMAIN <<k>> : <<k>>[i].do \notin WriteBack \cup {"put"}
    BY <1>1
  <2> QED BY <2>1, Harmless DEF Fresh0
<1>2. \A t \in Triple : Call("touch", t) \in Calls /\ Call("touch", t).do \notin WriteBack \cup {"put"}
  BY CallTyped DEF Call, WriteBack
<1>3. \A do \in {"decay", "evict"} :
        Call(do, None) \in Calls /\ Call(do, None).do \notin WriteBack \cup {"put"}
  BY CallTyped DEF Call, WriteBack
<1> QED BY <1>1, <1>2, <1>3

LEMMA CyclePlan == Fresh0(Cycle)
<1>1. Cycle \in Seq(Calls)
  BY CallTyped DEF Cycle
<1>2. \A i \in DOMAIN Cycle : Cycle[i].do \notin WriteBack \cup {"put"}
  BY DEF Cycle, Call, WriteBack
<1> QED BY <1>1, <1>2, Harmless DEF Fresh0

LEMMA DeletesPlan ==
  ASSUME NEW f \in Seq(Triple)
  PROVE  Fresh0(Deletes(f))
<1> DEFINE p == Deletes(f)
           n == Len(f)
<1>1. n \in Nat /\ p = [i \in 1..(2 * n) |-> DeleteCalls(f[(i + 1) \div 2])[((i - 1) % 2) + 1]]
  BY DEF Deletes
<1>2. ASSUME NEW i \in 1..(2 * n)
      PROVE  p[i] \in Calls /\ p[i].do \notin WriteBack \cup {"put"}
  <2>1. (i + 1) \div 2 \in 1..n
    BY <1>1
  <2>2. ((i - 1) % 2) + 1 \in 1..2
    OBVIOUS
  <2>3. \A t \in Triple, k \in 1..2 :
          DeleteCalls(t)[k] \in Calls /\ DeleteCalls(t)[k].do \notin WriteBack \cup {"put"}
    <3> TAKE t \in Triple, k \in 1..2
    <3>1. DeleteCalls(t)[k] = Call("erase", t) \/ DeleteCalls(t)[k] = Call("unlink", t)
      BY DEF DeleteCalls
    <3>2. \A do \in {"erase", "unlink"} :
            Call(do, t) \in Calls /\ Call(do, t).do \notin WriteBack \cup {"put"}
      BY CallTyped DEF Call, WriteBack
    <3> QED BY <3>1, <3>2
  <2>4. p[i] = DeleteCalls(f[(i + 1) \div 2])[((i - 1) % 2) + 1]
    BY <1>1
  <2>5. f[(i + 1) \div 2] \in Triple
    BY <2>1
  <2> HIDE DEF p
  <2> QED BY <2>2, <2>3, <2>4, <2>5
<1>3. DOMAIN p = 1..(2 * n) /\ p \in Seq(Calls)
  BY <1>1, <1>2
<1> QED BY <1>2, <1>3, Harmless DEF Fresh0

-----------------------------------------------------------------------------
(* Going on to the next call.                                              *)

LEMMA TailAdjusts ==
  ASSUME NEW p \in Seq(Calls), p # <<>>, NEW h \in BOOLEAN, NEW g \in BOOLEAN, AdjustsLocked(p, h)
  PROVE  /\ Head(p).do \notin {"lock", "get"} => AdjustsLocked(Tail(p), g)
         /\ Head(p).do = "lock" => AdjustsLocked(Tail(p), TRUE)
         /\ Head(p).do = "get" => AdjustsLocked(Tail(p), h)
<1>1. /\ Len(p) \in Nat /\ Len(p) > 0
      /\ DOMAIN Tail(p) = 1..(Len(p) - 1)
      /\ \A k \in 1..(Len(p) - 1) : Tail(p)[k] = p[k + 1] /\ k + 1 \in DOMAIN p
      /\ Head(p) = p[1]
  OBVIOUS
<1>2. CASE \A i \in DOMAIN p : p[i].do \notin {"up", "down"}
  <2>1. \A i \in DOMAIN Tail(p) : Tail(p)[i].do \notin {"up", "down"}
    BY <1>1, <1>2
  <2> QED BY <2>1 DEF AdjustsLocked
<1>3. CASE \E i \in DOMAIN p : p[i].do \in {"up", "down"}
  <2>1. PICK t \in Triple, s \in {"up", "down"} :
          \/ p = Adjustment(t, s)
          \/ h /\ p = <<Call("get", t), Call(s, t)>>
          \/ h /\ p = <<Call(s, t)>>
    BY <1>3 DEF AdjustsLocked
  <2>2. CASE p = Adjustment(t, s)
    <3>1. Head(p).do = "lock" /\ Tail(p) = <<Call("get", t), Call(s, t)>>
      BY <2>2 DEF Adjustment, Call
    <3> QED BY <3>1 DEF AdjustsLocked
  <2>3. CASE h /\ p = <<Call("get", t), Call(s, t)>>
    <3>1. Head(p).do = "get" /\ Tail(p) = <<Call(s, t)>>
      BY <2>3 DEF Call
    <3> QED BY <2>3, <3>1 DEF AdjustsLocked
  <2>4. CASE h /\ p = <<Call(s, t)>>
    <3>1. Head(p).do = s /\ Tail(p) = <<>> /\ DOMAIN Tail(p) = {}
      BY <2>4 DEF Call
    <3> QED BY <3>1 DEF AdjustsLocked
  <2> QED BY <2>1, <2>2, <2>3, <2>4
<1> QED BY <1>2, <1>3

LEMMA Next1Typed ==
  ASSUME NEW j \in Jobs, j.plan # <<>>
  PROVE  /\ Next1(j) \in Jobs /\ Next1(j).plan = Tail(j.plan) /\ Next1(j).copy = j.copy
         /\ j.plan \in Seq(Calls)
<1> DEFINE k == [j EXCEPT !.plan = Tail(j.plan)]
<1>1. j.plan \in Seq(Calls) /\ Tail(j.plan) \in Seq(Calls)
  BY DEF Jobs
<1>2. k.plan = Tail(j.plan) /\ k.copy = j.copy
  BY DEF Jobs
<1>3. k \in Jobs
  BY <1>1 DEF Jobs
<1> QED BY <1>1, <1>2, <1>3 DEF Next1

LEMMA Advance ==
  ASSUME NEW j \in Jobs, j.plan # <<>>, NEW N, NEW M, N \subseteq M,
         NEW h \in BOOLEAN, NEW g \in BOOLEAN, Ordered(j, N, h),
         \A n \in Node : Head(j.plan) = Call("node", n) => n \in M,
         Head(j.plan).do # "get",
         Head(j.plan).do = "lock" => g
  PROVE  Next1(j) \in Jobs /\ Ordered(Next1(j), M, g)
<1> DEFINE j2 == Next1(j)
<1>1. j2 \in Jobs /\ j2.plan = Tail(j.plan) /\ j2.copy = j.copy /\ j.plan \in Seq(Calls)
  BY Next1Typed
<1>2. PutsPrepared(j2.plan, M)
  BY <1>1, TailPuts DEF Ordered
<1>3. Readied(j.copy, N) \subseteq Readied(j.copy, M)
  BY DEF Readied
<1>4. \A t \in Triple : Head(j.plan) # Call("get", t)
  BY DEF Call
<1>5. WritesRead(j2.plan, Readied(j2.copy, M))
  BY <1>1, <1>3, <1>4, TailWrites DEF Ordered
<1>6. AdjustsLocked(j.plan, h)
  BY DEF Ordered
<1>7. AdjustsLocked(j2.plan, g)
  <2>1. CASE Head(j.plan).do = "lock"
    BY <1>1, <1>6, <2>1, TailAdjusts
  <2>2. CASE Head(j.plan).do # "lock"
    BY <1>1, <1>6, <2>2, TailAdjusts
  <2> QED BY <2>1, <2>2
<1> QED BY <1>1, <1>2, <1>5, <1>7 DEF Ordered

LEMMA AdvanceRead ==
  ASSUME NEW j \in Jobs, j.plan # <<>>, NEW N, NEW h \in BOOLEAN, Ordered(j, N, h),
         NEW t \in Triple, Head(j.plan) = Call("get", t), NEW w \in Weight, EndsOf(t) \subseteq N
  PROVE  LET j2 == [Next1(j) EXCEPT !.copy[t] = w] IN j2 \in Jobs /\ Ordered(j2, N, h)
<1> DEFINE j2 == [Next1(j) EXCEPT !.copy[t] = w]
<1>1. w # Absent /\ w \in Stored
  BY StoreAssumption DEF Weight, Stored
<1>2. /\ j2.plan = Tail(j.plan) /\ j2.copy = [j.copy EXCEPT ![t] = w] /\ j2 \in Jobs
      /\ j.plan \in Seq(Calls) /\ j.copy \in [Triple -> Stored]
  <2> DEFINE k == Next1(j)
  <2>1. k \in Jobs /\ k.plan = Tail(j.plan) /\ k.copy = j.copy
    BY Next1Typed
  <2> HIDE DEF k
  <2>2. j.plan \in Seq(Calls) /\ j.copy \in [Triple -> Stored]
    BY DEF Jobs
  <2>3. [k.copy EXCEPT ![t] = w] \in [Triple -> Stored]
    BY <1>1, <2>1, <2>2
  <2>4. [k EXCEPT !.copy[t] = w] \in Jobs
    BY <2>1, <2>3 DEF Jobs
  <2>5. [k EXCEPT !.copy[t] = w].plan = k.plan /\ [k EXCEPT !.copy[t] = w].copy = [k.copy EXCEPT ![t] = w]
    BY <2>1 DEF Jobs
  <2> QED BY <2>1, <2>2, <2>4, <2>5 DEF k
<1>3. PutsPrepared(j2.plan, N)
  <2>1. \A n \in Node : Head(j.plan) # Call("node", n)
    BY DEF Call
  <2> QED BY <1>2, <2>1, TailPuts DEF Ordered
<1>4. Readied(j.copy, N) \subseteq Readied(j2.copy, N) /\ t \in Readied(j2.copy, N)
  BY <1>1, <1>2 DEF Readied
<1>5. \A u \in Triple : Head(j.plan) = Call("get", u) => u = t
  BY DEF Call
<1>6. WritesRead(j2.plan, Readied(j2.copy, N))
  BY <1>2, <1>4, <1>5, TailWrites DEF Ordered
<1>7. AdjustsLocked(j2.plan, h)
  <2>1. Head(j.plan).do = "get" /\ AdjustsLocked(j.plan, h)
    BY DEF Ordered, Call
  <2> HIDE DEF j2
  <2> QED BY <1>2, <2>1, TailAdjusts
<1> HIDE DEF j2
<1>8. j2 \in Jobs /\ Ordered(j2, N, h)
  BY <1>2, <1>3, <1>6, <1>7 DEF Ordered
<1> QED BY <1>8 DEF j2

(* What is known of the first call of a plan. *)
LEMMA HeadKnown ==
  ASSUME IInv, NEW c \in Caller, job[c].plan # <<>>
  PROVE  /\ job[c] \in Jobs
         /\ job[c].plan \in Seq(Calls)
         /\ Ordered(job[c], nodes, adjuster = c)
         /\ Head(job[c].plan) \in Calls
         /\ Head(job[c].plan).do = "put" => EndsOf(Arg(c)) \subseteq nodes
         /\ Head(job[c].plan).do \in WriteBack => Arg(c) \in Readied(job[c].copy, nodes)
<1> DEFINE p == job[c].plan
<1>1. job[c] \in Jobs /\ p \in Seq(Calls) /\ Ordered(job[c], nodes, adjuster = c)
  BY DEF IInv, TypeOK, PlansOrdered, Jobs
<1>2. 1 \in DOMAIN p /\ Head(p) = p[1] /\ p[1] \in Calls
  BY <1>1
<1>3. Head(p).do = "put" => EndsOf(Head(p).arg) \subseteq nodes
  BY <1>1, <1>2 DEF Ordered, PutsPrepared
<1>4. Head(p).do \in WriteBack => Head(p).arg \in Readied(job[c].copy, nodes)
  BY <1>1, <1>2 DEF Ordered, WritesRead
<1> QED BY <1>1, <1>2, <1>3, <1>4 DEF Arg

LEMMA ArgTyped ==
  ASSUME NEW k \in Calls
  PROVE  /\ k.do = "node" => k.arg \in Node
         /\ k.do \in {"put", "touch", "get", "scale", "zero", "up", "down", "erase", "unlink"}
              => k.arg \in Triple
         /\ k.do = "source" => k.arg \in Source
         /\ k.do = "link" => k.arg[1] \in Source /\ k.arg[2] \in SUBSET Triple
         /\ \A do, a : k = Call(do, a) => k.do = do /\ k.arg = a
         /\ k = Call(k.do, k.arg)
  BY DEF Calls, Call

-----------------------------------------------------------------------------
(* The store's own steps.                                                  *)
Sound == StoreTypeOK /\ NodesBehindTriples

LEMMA StoreKept ==
  ASSUME Sound
  PROVE  /\ \A n \in Node : FindOrCreateNode(n) => Sound' /\ nodes \subseteq nodes' /\ n \in nodes'
         /\ \A t \in Triple, w \in Weight :
              PutTriple(t, w) /\ EndsOf(t) \subseteq nodes => Sound' /\ nodes' = nodes
         /\ \A t \in Triple : TouchTriple(t) => Sound' /\ nodes' = nodes
         /\ \A t \in Triple : RemoveTriple(t) => Sound' /\ nodes' = nodes
         /\ \A t \in Triple : RemoveLinks(t) => Sound' /\ nodes' = nodes
         /\ \A s \in Source : PutSource(s) => Sound' /\ nodes' = nodes
         /\ \A s \in Source, ts \in SUBSET Triple : AddLinks(s, ts) => Sound' /\ nodes' = nodes
         /\ Decay => Sound' /\ nodes' = nodes
         /\ \A w \in Weight : Evict(w) => Sound' /\ nodes' = nodes
         /\ UNCHANGED store => Sound' /\ nodes' = nodes
<1> USE DEF Sound, StoreTypeOK, NodesBehindTriples, Present, EndsOf, Stored
<1>1. \A n \in Node : FindOrCreateNode(n) => Sound' /\ nodes \subseteq nodes' /\ n \in nodes'
  BY DEF FindOrCreateNode
<1>2. ASSUME NEW t \in Triple, NEW w \in Weight, PutTriple(t, w), EndsOf(t) \subseteq nodes
      PROVE  Sound' /\ nodes' = nodes
  BY <1>2 DEF PutTriple
<1>3. ASSUME NEW t \in Triple, TouchTriple(t) PROVE Sound' /\ nodes' = nodes
  <2>1. Full \in Weight
    BY StoreAssumption DEF Weight
  <2> QED BY <1>3, <2>1 DEF TouchTriple
<1>4. ASSUME NEW t \in Triple, RemoveTriple(t) PROVE Sound' /\ nodes' = nodes
  BY <1>4 DEF RemoveTriple
<1>5. ASSUME NEW t \in Triple, RemoveLinks(t) PROVE Sound' /\ nodes' = nodes
  BY <1>5 DEF RemoveLinks
<1>6. ASSUME NEW s \in Source, PutSource(s) PROVE Sound' /\ nodes' = nodes
  BY <1>6 DEF PutSource
<1>7. ASSUME NEW s \in Source, NEW ts \in SUBSET Triple, AddLinks(s, ts) PROVE Sound' /\ nodes' = nodes
  BY <1>7 DEF AddLinks
<1>8. ASSUME Decay PROVE Sound' /\ nodes' = nodes
  <2>1. \A t \in Present : Scaled(triples[t]) \in Weight
    BY StoreAssumption DEF Weight, Scaled
  <2> QED BY <1>8, <2>1 DEF Decay
<1>9. ASSUME NEW w \in Weight, Evict(w) PROVE Sound' /\ nodes' = nodes
  BY <1>9 DEF Evict
<1>10. ASSUME UNCHANGED store PROVE Sound' /\ nodes' = nodes
  BY <1>10 DEF store
<1> QED BY <1>1, <1>2, <1>3, <1>4, <1>5, <1>6, <1>7, <1>8, <1>9, <1>10

-----------------------------------------------------------------------------
(* The inductive invariant.                                                *)

(* One caller moves on; the others keep what they have. *)
LEMMA StepKeeps ==
  ASSUME IInv, NEW c \in Caller, NEW j2 \in Jobs,
         job' = [job EXCEPT ![c] = j2],
         Sound', nodes \subseteq nodes',
         adjuster' \in Caller \cup {None},
         \A d \in Caller \ {c} : adjuster = d => adjuster' = d,
         claims' \in SUBSET (Triple \X Source),
         Ordered(j2, nodes', adjuster' = c)
  PROVE  IInv'
<1>1. job \in [Caller -> Jobs]
  BY DEF IInv, TypeOK, Jobs
<1>2. job' \in [Caller -> Jobs]
  BY <1>1
<1>3. TypeOK'
  BY <1>2 DEF TypeOK, Jobs, Sound
<1>4. ASSUME NEW d \in Caller
      PROVE  Ordered(job'[d], nodes', adjuster' = d)
  <2>1. CASE d = c
    BY <1>1, <2>1
  <2>2. CASE d # c
    <3>1. job'[d] = job[d] /\ job[d] \in Jobs
      BY <1>1, <2>2
    <3>2. Ordered(job[d], nodes, adjuster = d)
      BY DEF IInv, PlansOrdered
    <3>3. (adjuster = d) => (adjuster' = d)
      BY <2>2
    <3>4. Ordered(job[d], nodes', adjuster' = d)
      BY <3>1, <3>2, <3>3, OrderedGrows
    <3> QED BY <3>1, <3>4
  <2> QED BY <2>1, <2>2
<1>5. PlansOrdered'
  BY <1>4 DEF PlansOrdered
<1> QED BY <1>3, <1>5 DEF IInv, Sound

LEMMA FreshOrdered ==
  ASSUME NEW p, Fresh0(p), NEW N, NEW h \in BOOLEAN
  PROVE  LET j == [Idle EXCEPT !.plan = p] IN j \in Jobs /\ Ordered(j, N, h)
<1> DEFINE j == [Idle EXCEPT !.plan = p]
<1>1. j = [plan |-> p, copy |-> NoCopy, n |-> 0, was |-> 0]
  BY DEF Idle
<1>2. p \in Seq(Calls) /\ NoCopy \in [Triple -> Stored]
  BY DEF Fresh0, NoCopy, Stored
<1>3. j \in Jobs
  BY <1>1, <1>2 DEF Jobs
<1>4. PutsPrepared(p, N)
  BY DEF Fresh0, PutsPrepared
<1>5. WritesRead(p, Readied(NoCopy, N))
  BY DEF Fresh0, WritesRead
<1>6. AdjustsLocked(p, h)
  BY DEF Fresh0, AdjustsLocked
<1>7. Ordered(j, N, h)
  BY <1>1, <1>4, <1>5, <1>6 DEF Ordered
<1> QED BY <1>3, <1>7

LEMMA EmptyPlan == Fresh0(<<>>)
<1>1. <<>> \in Seq(Calls) /\ DOMAIN <<>> = {}
  OBVIOUS
<1> QED BY <1>1 DEF Fresh0, PutsPrepared, WritesRead, AdjustsLocked

LEMMA IdleOrdered == Idle \in Jobs /\ \A N : \A h \in BOOLEAN : Ordered(Idle, N, h)
<1>1. [Idle EXCEPT !.plan = <<>>] = Idle
  BY DEF Idle
<1> QED BY <1>1, EmptyPlan, FreshOrdered

LEMMA RequestKeeps ==
  ASSUME IInv, NEW c \in Caller, NEW op, NEW p, Fresh0(p), Request(c, op, p)
  PROVE  IInv'
<1>1. UNCHANGED <<store, adjuster, claims>> /\ job' = [job EXCEPT ![c] = [Idle EXCEPT !.plan = p]]
  BY DEF Request
<1>2. Sound' /\ nodes' = nodes
  BY <1>1, StoreKept DEF IInv, TypeOK, Sound
<1>3. [Idle EXCEPT !.plan = p] \in Jobs /\ Ordered([Idle EXCEPT !.plan = p], nodes', adjuster' = c)
  BY FreshOrdered
<1>4. adjuster' = adjuster /\ claims' = claims /\ adjuster \in Caller \cup {None}
      /\ claims \in SUBSET (Triple \X Source)
  BY <1>1 DEF IInv, TypeOK
<1> QED BY <1>1, <1>2, <1>3, <1>4, StepKeeps

LEMMA PairsTyped == \A a, b \in Triple : <<a>> \in Seq(Triple) /\ <<a, b>> \in Seq(Triple)
  OBVIOUS

LEMMA AcceptKeeps ==
  ASSUME IInv, NEW c \in Caller, Accept(c)
  PROVE  IInv'
<1>0. Facts \subseteq Triple /\ Link \subseteq Triple
  BY EngineAssumption DEF Facts
<1>1. ASSUME InsertTriples(c) PROVE IInv'
  <2>1. PICK ts \in Batch :
          \/ Request(c, "insert", Inserts(ts))
          \/ \E s \in Source : Request(c, "insert",
               Inserts(ts) \o <<Call("source", s), Call("link", <<s, {ts[i] : i \in DOMAIN ts}>>)>>)
    BY <1>1 DEF InsertTriples
  <2> QED BY <2>1, InsertPlan, InsertSourcePlan, RequestKeeps
<1>2. ASSUME RecordFeedback(c) PROVE IInv'
  BY <1>0, <1>2, OneCallPlan, RequestKeeps DEF RecordFeedback
<1>3. ASSUME SubmitFeedback(c) PROVE IInv'
  BY <1>0, <1>3, AdjustmentPlan, RequestKeeps DEF SubmitFeedback
<1>4. ASSUME TripleSupersede(c) PROVE IInv'
  <2>1. PICK old \in Facts, new \in Facts, l \in Link :
          Request(c, "supersede",
                  <<Call("get", old)>> \o Inserts(<<new, l>>) \o <<Call("scale", old)>>)
    BY <1>4 DEF TripleSupersede
  <2>2. Fresh0(<<Call("get", old)>> \o Inserts(<<new, l>>) \o <<Call("scale", old)>>)
    BY <1>0, PairsTyped, ReplacePlan
  <2> QED BY <2>1, <2>2, RequestKeeps
<1>5. ASSUME ShareRevoke(c) PROVE IInv'
  <2>1. PICK t \in Facts, l \in Link :
          Request(c, "revoke", <<Call("get", t)>> \o Inserts(<<l>>) \o <<Call("zero", t)>>)
    BY <1>5 DEF ShareRevoke
  <2>2. Fresh0(<<Call("get", t)>> \o Inserts(<<l>>) \o <<Call("zero", t)>>)
    BY <1>0, PairsTyped, ReplacePlan
  <2> QED BY <2>1, <2>2, RequestKeeps
<1>6. ASSUME TensionResolve(c) PROVE IInv'
  <2>1. PICK a \in Facts, b \in Facts, l \in Link, archived \in Archivings :
          Request(c, "resolve",
                  <<Call("get", a), Call("get", b)>>
                  \o [i \in DOMAIN archived |-> Call("scale", <<a, b>>[archived[i]])]
                  \o Inserts(<<l>>))
    BY <1>6 DEF TensionResolve
  <2>2. a \in Triple /\ b \in Triple /\ <<l>> \in Seq(Triple)
    BY <1>0, PairsTyped
  <2>3. Fresh0(<<Call("get", a), Call("get", b)>>
               \o [i \in DOMAIN archived |-> Call("scale", <<a, b>>[archived[i]])]
               \o Inserts(<<l>>))
    BY <2>2, ResolvePlan
  <2> QED BY <2>1, <2>3, RequestKeeps
<1>7. ASSUME TriggerDecay(c) PROVE IInv'
  BY <1>7, OneCallPlan, RequestKeeps DEF TriggerDecay
<1>8. ASSUME TriggerEvict(c) PROVE IInv'
  BY <1>8, OneCallPlan, RequestKeeps DEF TriggerEvict
<1>9. ASSUME RunLifecycleCycle(c) PROVE IInv'
  BY <1>9, CyclePlan, RequestKeeps DEF RunLifecycleCycle
<1> QED BY <1>1, <1>2, <1>3, <1>4, <1>5, <1>6, <1>7, <1>8, <1>9 DEF Accept

(* A call that goes on, whatever it does to the store. *)
LEMMA MakesKeeps ==
  ASSUME IInv, NEW c \in Caller, NEW do, Makes(c, do), do # "get",
         Sound', nodes \subseteq nodes',
         do = "node" => Arg(c) \in nodes',
         adjuster' \in Caller \cup {None},
         \A d \in Caller \ {c} : adjuster = d => adjuster' = d,
         do = "lock" => adjuster' = c,
         claims' \in SUBSET (Triple \X Source)
  PROVE  IInv'
<1>1. job[c].plan # <<>> /\ Head(job[c].plan).do = do /\ job' = [job EXCEPT ![c] = Next1(job[c])]
  BY DEF Makes, Doing
<1>2. job[c] \in Jobs /\ Ordered(job[c], nodes, adjuster = c) /\ Head(job[c].plan) \in Calls
  BY <1>1, HeadKnown
<1>3. \A n \in Node : Head(job[c].plan) = Call("node", n) => n \in nodes'
  BY <1>1, <1>2 DEF Arg, Call
<1>4. Next1(job[c]) \in Jobs /\ Ordered(Next1(job[c]), nodes', adjuster' = c)
  BY <1>1, <1>2, <1>3, Advance
<1> QED BY <1>1, <1>4, StepKeeps

LEMMA Doer ==
  ASSUME IInv, NEW c \in Caller, NEW do, Doing(c, do)
  PROVE  /\ job[c].plan # <<>> /\ Head(job[c].plan) \in Calls /\ Head(job[c].plan).do = do
         /\ Head(job[c].plan).arg = Arg(c)
  BY HeadKnown DEF Doing, Arg

LEMMA PresentFinite == Cardinality(Present) \in Nat
  BY StoreAssumption, FS_Subset, FS_CardinalityType DEF Present

LEMMA WeightsTyped ==
  /\ Full \in Weight /\ 0 \in Weight
  /\ \A w \in Weight : Scaled(w) \in Weight
  /\ \A w \in Weight, signal \in {"up", "down"} : Adjusted(w, signal) \in Weight
<1>1. Full \in Weight /\ 0 \in Weight
  BY StoreAssumption DEF Weight
<1>2. \A w \in Weight : Scaled(w) \in Weight
  BY StoreAssumption DEF Weight, Scaled
<1>3. \A w \in Int : Clamp(w) \in Weight
  BY StoreAssumption, EngineAssumption DEF Weight, Clamp
<1>4. \A w \in Weight, signal \in {"up", "down"} : Adjusted(w, signal) \in Weight
  BY <1>3 DEF Weight, Adjusted
<1> QED BY <1>1, <1>2, <1>4

(* A write of what the caller has read. *)
LEMMA WriteBackKeeps ==
  ASSUME IInv, NEW c \in Caller, NEW do \in WriteBack, Makes(c, do), NEW w,
         PutTriple(Arg(c), w), job[c].copy[Arg(c)] \in Weight => w \in Weight,
         adjuster' \in Caller \cup {None},
         \A d \in Caller \ {c} : adjuster = d => adjuster' = d,
         claims' = claims
  PROVE  IInv'
<1>1. /\ Head(job[c].plan) \in Calls /\ Head(job[c].plan).do = do /\ job[c].plan # <<>>
      /\ Head(job[c].plan).arg = Arg(c)
  BY Doer DEF Makes
<1>2. Arg(c) \in Readied(job[c].copy, nodes) /\ job[c].copy \in [Triple -> Stored]
  BY <1>1, HeadKnown DEF Jobs
<1>3. Arg(c) \in Triple /\ job[c].copy[Arg(c)] \in Weight /\ EndsOf(Arg(c)) \subseteq nodes
  BY <1>2 DEF Readied, Stored
<1>4. Sound' /\ nodes' = nodes
  BY <1>3, StoreKept DEF IInv, TypeOK, Sound
<1>5. do # "get" /\ do # "node" /\ do # "lock" /\ claims' \in SUBSET (Triple \X Source)
  BY DEF WriteBack, IInv, TypeOK
<1> QED BY <1>4, <1>5, MakesKeeps

LEMMA GetKeeps ==
  ASSUME IInv, NEW c \in Caller, CallGet(c)
  PROVE  IInv'
<1> DEFINE t == Arg(c)
           found == [Next1(job[c]) EXCEPT !.copy[t] = triples[t]]
<1>1. Doing(c, "get") /\ UNCHANGED <<store, claims>>
  BY DEF CallGet
<1>2. /\ job[c].plan # <<>> /\ Head(job[c].plan) \in Calls /\ Head(job[c].plan).do = "get"
      /\ Head(job[c].plan).arg = t
  BY <1>1, Doer
<1>3. t \in Triple /\ Head(job[c].plan) = Call("get", t)
  BY <1>2, ArgTyped
<1>4. Sound' /\ nodes' = nodes /\ claims' \in SUBSET (Triple \X Source)
  BY <1>1, StoreKept DEF IInv, TypeOK, Sound
<1>5. adjuster \in Caller \cup {None}
  BY DEF IInv, TypeOK
<1>6. CASE t \in Present /\ job' = [job EXCEPT ![c] = found] /\ UNCHANGED adjuster
  <2>1. triples[t] \in Weight /\ EndsOf(t) \subseteq nodes
    BY <1>3, <1>6 DEF IInv, TypeOK, StoreTypeOK, Stored, Present, NodesBehindTriples, EndsOf
  <2>2. job[c] \in Jobs /\ Ordered(job[c], nodes, adjuster = c)
    BY <1>2, HeadKnown
  <2>3. found \in Jobs /\ Ordered(found, nodes, adjuster = c)
    BY <1>2, <1>3, <2>1, <2>2, AdvanceRead
  <2> QED BY <1>4, <1>5, <1>6, <2>3, StepKeeps
<1>7. CASE job' = [job EXCEPT ![c] = Idle] /\ adjuster' = (IF adjuster = c THEN None ELSE adjuster)
  <2>1. adjuster' \in Caller \cup {None} /\ \A d \in Caller \ {c} : adjuster = d => adjuster' = d
    BY <1>5, <1>7
  <2> QED BY <1>4, <1>7, <2>1, IdleOrdered, StepKeeps
<1> QED BY <1>6, <1>7 DEF CallGet

(* An enforcement takes on the count, and what it has still to delete.     *)
LEMMA CountTyped ==
  ASSUME NEW j \in Jobs, NEW m \in Nat, NEW w \in Nat
  PROVE  LET j2 == [j EXCEPT !.n = m, !.was = w]
         IN  j2 \in Jobs /\ j2.plan = j.plan /\ j2.copy = j.copy /\ j2.n = m /\ j2.was = w
<1> DEFINE j2 == [j EXCEPT !.n = m, !.was = w]
<1>1. j2 \in Jobs
  BY DEF Jobs
<1>2. j2.plan = j.plan /\ j2.copy = j.copy /\ j2.n = m /\ j2.was = w
  BY DEF Jobs
<1> QED BY <1>1, <1>2

LEMMA SelectedTyped ==
  ASSUME NEW p \in Seq(Calls), NEW w \in Nat
  PROVE  LET j2 == [Idle EXCEPT !.plan = p, !.was = w]
             j == [Idle EXCEPT !.plan = p]
         IN  j2 \in Jobs /\ j2.plan = p /\ j2.was = w /\ j2.copy = j.copy /\ j2.plan = j.plan
<1>1. NoCopy \in [Triple -> Stored]
  BY DEF NoCopy, Stored
<1> DEFINE j2 == [Idle EXCEPT !.plan = p, !.was = w]
           j == [Idle EXCEPT !.plan = p]
<1>2. j2 \in Jobs
  BY <1>1 DEF Idle, Jobs
<1>3. j2.plan = p /\ j2.was = w /\ j2.copy = NoCopy
  BY DEF Idle
<1>4. j.plan = p /\ j.copy = NoCopy
  BY DEF Idle
<1> HIDE DEF j, j2
<1>5. j2 \in Jobs /\ j2.plan = p /\ j2.was = w /\ j2.copy = j.copy /\ j2.plan = j.plan
  BY <1>2, <1>3, <1>4
<1> QED BY <1>5 DEF j, j2

LEMMA SelectKeeps ==
  ASSUME IInv, NEW c \in Caller, CallSelect(c)
  PROVE  IInv'
<1> DEFINE all == Cardinality(Present)
           k == IF job[c].n < all THEN job[c].n ELSE all
<1>1. /\ Doing(c, "select") /\ UNCHANGED <<store, adjuster, claims>>
      /\ \E f \in Lightest(k) :
           job' = [job EXCEPT ![c] = [Idle EXCEPT !.plan = Deletes(f), !.was = job[c].was]]
  BY DEF CallSelect
<1>2. k \in Nat /\ job[c].was \in Nat
  <2>1. job[c].n \in Nat /\ job[c].was \in Nat /\ all \in Nat
    BY <1>1, Doer, HeadKnown, PresentFinite DEF Jobs
  <2> QED BY <2>1
<1> HIDE DEF k
<1>3. PICK f \in Lightest(k) :
        job' = [job EXCEPT ![c] = [Idle EXCEPT !.plan = Deletes(f), !.was = job[c].was]]
  BY <1>1
<1>4. f \in Seq(Triple)
  BY <1>2, <1>3 DEF Lightest, Present
<1>5. Fresh0(Deletes(f)) /\ Deletes(f) \in Seq(Calls)
  BY <1>4, DeletesPlan DEF Fresh0
<1>6. Sound' /\ nodes' = nodes
  BY <1>1, StoreKept DEF IInv, TypeOK, Sound
<1> DEFINE j2 == [Idle EXCEPT !.plan = Deletes(f), !.was = job[c].was]
           j == [Idle EXCEPT !.plan = Deletes(f)]
<1>7. j2 \in Jobs /\ j2.copy = j.copy /\ j2.plan = j.plan
  BY <1>2, <1>5, SelectedTyped
<1>8. Ordered(j, nodes', adjuster' = c)
  BY <1>5, FreshOrdered
<1>9. Ordered(j2, nodes', adjuster' = c)
  <2> HIDE DEF j, j2
  <2> QED BY <1>7, <1>8 DEF Ordered
<1>10. adjuster' = adjuster /\ claims' = claims /\ adjuster \in Caller \cup {None}
      /\ claims \in SUBSET (Triple \X Source)
  BY <1>1 DEF IInv, TypeOK
<1>11. job' = [job EXCEPT ![c] = j2]
  BY <1>3
<1> HIDE DEF j2
<1> QED BY <1>6, <1>7, <1>9, <1>10, <1>11, StepKeeps

LEMMA EnforceKeeps ==
  ASSUME IInv, NEW c \in Caller, CallCount(c) \/ CallDecide(c)
  PROVE  IInv'
<1>1. /\ UNCHANGED <<store, adjuster, claims>>
      /\ \E do \in {"count", "decide"} : Doing(c, do)
  BY DEF CallCount, CallDecide
<1>2. /\ job[c].plan # <<>> /\ Head(job[c].plan) \in Calls
      /\ Head(job[c].plan).do \in {"count", "decide"}
  BY <1>1, Doer
<1>3. Sound' /\ nodes' = nodes
  BY <1>1, StoreKept DEF IInv, TypeOK, Sound
<1>4. adjuster' = adjuster /\ claims' = claims /\ adjuster \in Caller \cup {None}
      /\ claims \in SUBSET (Triple \X Source)
  BY <1>1 DEF IInv, TypeOK
<1>5. job[c] \in Jobs /\ Ordered(job[c], nodes, adjuster = c)
  BY <1>2, HeadKnown
<1>6. \A m \in Node : Head(job[c].plan) # Call("node", m)
  BY <1>2 DEF Call
<1> DEFINE j == Next1(job[c])
<1>7. j \in Jobs /\ Ordered(j, nodes, adjuster = c)
  BY <1>2, <1>5, <1>6, Advance
<1>a. CallDecide(c) => LET n == ToEvict(job[c].n)
                       IN  job' = [job EXCEPT ![c] = IF n = 0 THEN Idle ELSE [j EXCEPT !.n = n]]
  BY DEF CallDecide
<1>b. CallCount(c) => LET n == Cardinality(Present)
                      IN  job' = [job EXCEPT ![c] = [j EXCEPT !.n = n, !.was = n]]
  BY DEF CallCount
<1> HIDE DEF j
<1>8. ASSUME NEW n \in Nat, NEW w \in Nat
      PROVE  LET j2 == [j EXCEPT !.n = n, !.was = w]
             IN  j2 \in Jobs /\ Ordered(j2, nodes, adjuster = c)
  <2> DEFINE j2 == [j EXCEPT !.n = n, !.was = w]
  <2>1. j2 \in Jobs /\ j2.plan = j.plan /\ j2.copy = j.copy
    BY <1>7 DEF Jobs
  <2> HIDE DEF j2
  <2>2. Ordered(j2, nodes, adjuster = c)
    BY <1>7, <2>1 DEF Ordered
  <2> QED BY <2>1, <2>2 DEF j2
<1>9. ASSUME NEW n \in Nat
      PROVE  [j EXCEPT !.n = n] = [j EXCEPT !.n = n, !.was = j.was] /\ j.was \in Nat
  BY <1>7 DEF Jobs
<1>10. ToEvict(job[c].n) \in Nat /\ Cardinality(Present) \in Nat
  <2>1. job[c].n \in Nat
    BY <1>5 DEF Jobs
  <2>2. IsFiniteSet(nodes)
    BY StoreAssumption, FS_Subset DEF IInv, TypeOK, StoreTypeOK
  <2>3. Cardinality(nodes) \in Nat
    BY <2>2, FS_CardinalityType
  <2>4. TargetTriples \in Nat /\ TargetNodes \in Nat
    BY EngineAssumption
  <2> QED BY <2>1, <2>3, <2>4, PresentFinite DEF ToEvict
<1>11. PICK j2 \in Jobs : job' = [job EXCEPT ![c] = j2] /\ Ordered(j2, nodes, adjuster = c)
  <2>1. CASE CallCount(c)
    BY <1>8, <1>10, <1>b, <2>1
  <2>2. CASE CallDecide(c)
    <3> DEFINE n == ToEvict(job[c].n)
    <3>1. [j EXCEPT !.n = n] \in Jobs /\ Ordered([j EXCEPT !.n = n], nodes, adjuster = c)
      BY <1>8, <1>9, <1>10
    <3> QED BY <1>a, <2>2, <3>1, IdleOrdered
  <2> QED BY <2>1, <2>2
<1> QED BY <1>3, <1>4, <1>11, StepKeeps

(* The calls that neither write back a copy nor look at the outcome.       *)
LEMMA PlainCallKeeps ==
  ASSUME IInv, NEW c \in Caller,
         \/ CallNode(c) \/ CallPut(c) \/ CallTouch(c) \/ CallSource(c)
         \/ CallLock(c) \/ CallDecay(c) \/ CallUnlink(c)
  PROVE  IInv'
<1>0. /\ Sound /\ adjuster \in Caller \cup {None} /\ claims \in SUBSET (Triple \X Source)
  BY DEF IInv, TypeOK, Sound
<1>1. ASSUME CallNode(c) PROVE IInv'
  <2>1. Makes(c, "node") /\ FindOrCreateNode(Arg(c)) /\ UNCHANGED <<adjuster, claims>>
    BY <1>1 DEF CallNode
  <2>2. Arg(c) \in Node
    BY <2>1, Doer, ArgTyped DEF Makes
  <2>3. Sound' /\ nodes \subseteq nodes' /\ Arg(c) \in nodes'
    BY <1>0, <2>1, <2>2, StoreKept
  <2> QED BY <1>0, <2>1, <2>3, MakesKeeps
<1>2. ASSUME CallPut(c) PROVE IInv'
  <2>1. Makes(c, "put") /\ PutTriple(Arg(c), Full) /\ UNCHANGED <<adjuster, claims>>
    BY <1>2 DEF CallPut
  <2>2. Arg(c) \in Triple /\ EndsOf(Arg(c)) \subseteq nodes
    BY <2>1, Doer, HeadKnown, ArgTyped DEF Makes
  <2>3. Sound' /\ nodes' = nodes
    BY <1>0, <2>1, <2>2, StoreKept, WeightsTyped
  <2> QED BY <1>0, <2>1, <2>3, MakesKeeps
<1>3. ASSUME CallTouch(c) PROVE IInv'
  <2>1. Makes(c, "touch") /\ TouchTriple(Arg(c)) /\ UNCHANGED <<adjuster, claims>>
    BY <1>3 DEF CallTouch
  <2>2. Arg(c) \in Triple
    BY <2>1, Doer, ArgTyped DEF Makes
  <2>3. Sound' /\ nodes' = nodes
    BY <1>0, <2>1, <2>2, StoreKept
  <2> QED BY <1>0, <2>1, <2>3, MakesKeeps
<1>4. ASSUME CallSource(c) PROVE IInv'
  <2>1. Makes(c, "source") /\ PutSource(Arg(c)) /\ UNCHANGED <<adjuster, claims>>
    BY <1>4 DEF CallSource
  <2>2. Arg(c) \in Source
    BY <2>1, Doer, ArgTyped DEF Makes
  <2>3. Sound' /\ nodes' = nodes
    BY <1>0, <2>1, <2>2, StoreKept
  <2> QED BY <1>0, <2>1, <2>3, MakesKeeps
<1>5. ASSUME CallLock(c) PROVE IInv'
  <2>1. Makes(c, "lock") /\ UNCHANGED <<store, claims>> /\ adjuster = None /\ adjuster' = c
    BY <1>5 DEF CallLock
  <2>2. Sound' /\ nodes' = nodes
    BY <1>0, <2>1, StoreKept
  <2>3. \A d \in Caller \ {c} : adjuster = d => adjuster' = d
    BY <2>1, EngineAssumption
  <2> QED BY <1>0, <2>1, <2>2, <2>3, MakesKeeps
<1>6. ASSUME CallDecay(c) PROVE IInv'
  <2>1. Makes(c, "decay") /\ Decay /\ UNCHANGED <<adjuster, claims>>
    BY <1>6 DEF CallDecay
  <2>2. Sound' /\ nodes' = nodes
    BY <1>0, <2>1, StoreKept
  <2> QED BY <1>0, <2>1, <2>2, MakesKeeps
<1>7. ASSUME CallUnlink(c) PROVE IInv'
  <2>1. Makes(c, "unlink") /\ RemoveLinks(Arg(c)) /\ UNCHANGED <<adjuster, claims>>
    BY <1>7 DEF CallUnlink
  <2>2. Arg(c) \in Triple
    BY <2>1, Doer, ArgTyped DEF Makes
  <2>3. Sound' /\ nodes' = nodes
    BY <1>0, <2>1, <2>2, StoreKept
  <2> QED BY <1>0, <2>1, <2>3, MakesKeeps
<1> QED BY <1>1, <1>2, <1>3, <1>4, <1>5, <1>6, <1>7

(* The calls that change what is claimed. *)
LEMMA ClaimCallKeeps ==
  ASSUME IInv, NEW c \in Caller, CallLink(c) \/ CallEvict(c) \/ CallErase(c)
  PROVE  IInv'
<1>0. /\ Sound /\ adjuster \in Caller \cup {None} /\ claims \in SUBSET (Triple \X Source)
  BY DEF IInv, TypeOK, Sound
<1>1. ASSUME CallLink(c) PROVE IInv'
  <2>1. /\ Makes(c, "link") /\ AddLinks(Arg(c)[1], Arg(c)[2])
        /\ Claim(Arg(c)[2] \X {Arg(c)[1]}) /\ UNCHANGED adjuster
    BY <1>1 DEF CallLink
  <2>2. Arg(c)[1] \in Source /\ Arg(c)[2] \in SUBSET Triple
    BY <2>1, Doer, ArgTyped DEF Makes
  <2>3. Sound' /\ nodes' = nodes
    BY <1>0, <2>1, <2>2, StoreKept
  <2>4. claims' \in SUBSET (Triple \X Source)
    BY <1>0, <2>1, <2>2 DEF Claim
  <2> QED BY <1>0, <2>1, <2>3, <2>4, MakesKeeps
<1>2. ASSUME CallEvict(c) PROVE IInv'
  <2>1. Makes(c, "evict") /\ Evict(MinWeight) /\ Claim({}) /\ UNCHANGED adjuster
    BY <1>2 DEF CallEvict
  <2>2. Sound' /\ nodes' = nodes
    BY <1>0, <2>1, EngineAssumption, StoreKept
  <2>3. claims' \in SUBSET (Triple \X Source)
    BY <1>0, <2>1 DEF Claim
  <2> QED BY <1>0, <2>1, <2>2, <2>3, MakesKeeps
<1>3. ASSUME CallErase(c) PROVE IInv'
  <2>1. Makes(c, "erase") /\ RemoveTriple(Arg(c)) /\ Claim({}) /\ UNCHANGED adjuster
    BY <1>3 DEF CallErase
  <2>2. Arg(c) \in Triple
    BY <2>1, Doer, ArgTyped DEF Makes
  <2>3. Sound' /\ nodes' = nodes
    BY <1>0, <2>1, <2>2, StoreKept
  <2>4. claims' \in SUBSET (Triple \X Source)
    BY <1>0, <2>1 DEF Claim
  <2> QED BY <1>0, <2>1, <2>3, <2>4, MakesKeeps
<1> QED BY <1>1, <1>2, <1>3

(* Who adjusts a weight holds the lock. *)
LEMMA AdjusterHolds ==
  ASSUME IInv, NEW c \in Caller, Doing(c, "up") \/ Doing(c, "down")
  PROVE  adjuster = c
<1>1. /\ job[c].plan # <<>> /\ Head(job[c].plan).do \in {"up", "down"}
      /\ job[c].plan \in Seq(Calls) /\ AdjustsLocked(job[c].plan, adjuster = c)
  BY Doer, HeadKnown DEF Ordered
<1>2. 1 \in DOMAIN job[c].plan /\ job[c].plan[1].do \in {"up", "down"}
  BY <1>1
<1>3. PICK t \in Triple, s \in {"up", "down"} :
        \/ job[c].plan = Adjustment(t, s)
        \/ adjuster = c
  BY <1>1, <1>2 DEF AdjustsLocked
<1>4. Adjustment(t, s)[1].do = "lock"
  BY DEF Adjustment, Call
<1> QED BY <1>2, <1>3, <1>4

LEMMA WritingCallKeeps ==
  ASSUME IInv, NEW c \in Caller,
         CallScale(c) \/ CallZero(c) \/ CallAdjust(c, "up") \/ CallAdjust(c, "down")
  PROVE  IInv'
<1>0. adjuster \in Caller \cup {None}
  BY DEF IInv, TypeOK
<1>1. ASSUME CallScale(c) PROVE IInv'
  <2>1. /\ Makes(c, "scale") /\ PutTriple(Arg(c), Scaled(job[c].copy[Arg(c)]))
        /\ UNCHANGED <<adjuster, claims>>
    BY <1>1 DEF CallScale
  <2>2. job[c].copy[Arg(c)] \in Weight => Scaled(job[c].copy[Arg(c)]) \in Weight
    BY WeightsTyped
  <2>3. "scale" \in WriteBack
    BY DEF WriteBack
  <2> QED BY <1>0, <2>1, <2>2, <2>3, WriteBackKeeps
<1>2. ASSUME CallZero(c) PROVE IInv'
  <2>1. Makes(c, "zero") /\ PutTriple(Arg(c), 0) /\ UNCHANGED <<adjuster, claims>>
    BY <1>2 DEF CallZero
  <2>2. "zero" \in WriteBack
    BY DEF WriteBack
  <2> QED BY <1>0, <2>1, <2>2, WriteBackKeeps, WeightsTyped
<1>3. ASSUME NEW s \in {"up", "down"}, CallAdjust(c, s) PROVE IInv'
  <2>1. /\ Makes(c, s) /\ PutTriple(Arg(c), Adjusted(job[c].copy[Arg(c)], s))
        /\ adjuster' = None /\ UNCHANGED claims
    BY <1>3 DEF CallAdjust
  <2>2. job[c].copy[Arg(c)] \in Weight => Adjusted(job[c].copy[Arg(c)], s) \in Weight
    BY WeightsTyped
  <2>3. s \in WriteBack
    BY DEF WriteBack
  <2>4. adjuster = c
    BY <2>1, AdjusterHolds DEF Makes
  <2>5. \A d \in Caller \ {c} : adjuster = d => adjuster' = d
    BY <2>4
  <2> QED BY <2>1, <2>2, <2>3, <2>5, WriteBackKeeps
<1> QED BY <1>1, <1>2, <1>3

LEMMA ServeKeeps ==
  ASSUME IInv, NEW c \in Caller, Serve(c)
  PROVE  IInv'
<1>1. \/ CallGet(c) \/ CallSelect(c) \/ CallCount(c) \/ CallDecide(c)
      \/ CallNode(c) \/ CallPut(c) \/ CallTouch(c) \/ CallSource(c)
      \/ CallLock(c) \/ CallDecay(c) \/ CallUnlink(c)
      \/ CallLink(c) \/ CallEvict(c) \/ CallErase(c)
      \/ CallScale(c) \/ CallZero(c) \/ CallAdjust(c, "up") \/ CallAdjust(c, "down")
  BY DEF Serve
<1> QED BY <1>1, GetKeeps, SelectKeeps, EnforceKeeps, PlainCallKeeps, ClaimCallKeeps, WritingCallKeeps

-----------------------------------------------------------------------------
(* Theorems.                                                               *)

(***************************************************************************)
(* The inductive invariant: the nodes of every stored triple exist, and    *)
(* every plan creates nodes before triples, reads before it writes back,   *)
(* and adjusts under the lock of the WeightAdjuster.                       *)
(***************************************************************************)
THEOREM Inductive == Spec => []IInv
<1>1. Init => IInv
  <2> SUFFICES ASSUME Init PROVE IInv
    OBVIOUS
  <2>1. triples = [t \in Triple |-> Absent] /\ nodes = {} /\ sources = {} /\ links = {}
    BY DEF Init, StoreInit
  <2>2. Present = {} /\ StoreTypeOK
    BY <2>1 DEF Present, StoreTypeOK, Stored
  <2>3. \A c \in Caller : job[c] = Idle
    BY DEF Init
  <2>4. TypeOK
    BY <2>2, IdleOrdered DEF Init, TypeOK, Jobs
  <2>5. NodesBehindTriples /\ PlansOrdered
    BY <2>2, <2>3, IdleOrdered DEF NodesBehindTriples, PlansOrdered
  <2> QED BY <2>4, <2>5 DEF IInv
<1>2. IInv /\ [Next]_vars => IInv'
  <2> SUFFICES ASSUME IInv, [Next]_vars PROVE IInv'
    OBVIOUS
  <2>1. ASSUME NEW c \in Caller, Accept(c) \/ Serve(c) PROVE IInv'
    BY <2>1, AcceptKeeps, ServeKeeps
  <2>2. CASE UNCHANGED vars
    <3>1. UNCHANGED <<triples, nodes, sources, links, job, adjuster, claims>>
      BY <2>2 DEF vars, store
    <3> QED BY <3>1 DEF IInv, TypeOK, StoreTypeOK, NodesBehindTriples, Present, PlansOrdered
  <2> QED BY <2>1, <2>2 DEF Next
<1> QED BY <1>1, <1>2, PTL DEF Spec

(***************************************************************************)
(* Weights stay between zero and the ceiling, and every call of every      *)
(* handler is one the store takes, for any requests at the same time.      *)
(***************************************************************************)
THEOREM TypeCorrect == Spec => []TypeOK
<1>1. IInv => TypeOK
  BY DEF IInv
<1> QED BY <1>1, Inductive, PTL

(***************************************************************************)
(* However inserts, feedback, superseding, decay, eviction and bounds      *)
(* enforcement interleave, the two nodes of a stored triple exist: the     *)
(* unwraps of get_neighbors never panic.                                   *)
(***************************************************************************)
THEOREM NeighborsResolve == Spec => []NodesBehindTriples
<1>1. IInv => NodesBehindTriples
  BY DEF IInv
<1> QED BY <1>1, Inductive, PTL

(***************************************************************************)
(* At most one feedback request at a time holds a weight it is about to    *)
(* write back: no adjustment is lost to another one.                       *)
(***************************************************************************)
THEOREM AdjustmentsSerial == Spec => []FeedbackSerial
<1>1. IInv => FeedbackSerial
  <2> SUFFICES ASSUME IInv, NEW c \in Caller, NEW d \in Caller, c # d,
                      Doing(c, "up") \/ Doing(c, "down"),
                      Doing(d, "up") \/ Doing(d, "down")
               PROVE  FALSE
    BY DEF FeedbackSerial
  <2>1. adjuster = c /\ adjuster = d
    BY AdjusterHolds
  <2> QED BY <2>1
<1> QED BY <1>1, Inductive, PTL

-----------------------------------------------------------------------------

-----------------------------------------------------------------------------
(* Deletions.  The record of a triple goes before its links.               *)

Enforcement == {"count", "decide", "select", "erase", "unlink"}
KeepsLinks(p) == \A i \in DOMAIN p : p[i].do \notin Enforcement

Count == Call("count", None)
Decide == Call("decide", None)
Select == Call("select", None)

LEMMA DeletesAt ==
  ASSUME NEW f \in Seq(Triple)
  PROVE  /\ Deletes(f) \in Seq(Calls)
         /\ Len(f) \in Nat /\ Len(Deletes(f)) = 2 * Len(f) /\ DOMAIN Deletes(f) = 1..(2 * Len(f))
         /\ \A k \in 1..Len(f) : /\ 2 * k - 1 \in 1..(2 * Len(f)) /\ 2 * k \in 1..(2 * Len(f))
                                  /\ Deletes(f)[2 * k - 1] = Call("erase", f[k])
                                  /\ Deletes(f)[2 * k] = Call("unlink", f[k])
<1>1. Deletes(f) = [i \in 1..(2 * Len(f)) |-> DeleteCalls(f[(i + 1) \div 2])[((i - 1) % 2) + 1]]
  BY DEF Deletes
<1>2. \A t : DeleteCalls(t)[1] = Call("erase", t) /\ DeleteCalls(t)[2] = Call("unlink", t)
  BY DEF DeleteCalls
<1>3. ASSUME NEW k \in 1..Len(f)
      PROVE  /\ 2 * k - 1 \in 1..(2 * Len(f)) /\ 2 * k \in 1..(2 * Len(f))
             /\ ((2 * k - 1) + 1) \div 2 = k /\ (((2 * k - 1) - 1) % 2) + 1 = 1
             /\ (2 * k + 1) \div 2 = k /\ ((2 * k - 1) % 2) + 1 = 2
  OBVIOUS
<1>4. Len(f) \in Nat /\ Len(Deletes(f)) = 2 * Len(f) /\ DOMAIN Deletes(f) = 1..(2 * Len(f))
  BY <1>1
<1>5. Deletes(f) \in Seq(Calls)
  BY DeletesPlan DEF Fresh0
<1> QED BY <1>1, <1>2, <1>3, <1>4, <1>5

LEMMA DeletesNext ==
  ASSUME NEW f \in Seq(Triple), f # <<>>
  PROVE  /\ Head(Deletes(f)) = Call("erase", f[1]) /\ Tail(f) \in Seq(Triple)
         /\ Tail(Deletes(f)) = <<Call("unlink", f[1])>> \o Deletes(Tail(f))
<1> DEFINE n == Len(f)
           g == Tail(f)
           p == Deletes(f)
           q == Deletes(g)
           r == <<Call("unlink", f[1])>> \o q
<1>1. /\ n \in Nat /\ n > 0 /\ g \in Seq(Triple) /\ Len(g) = n - 1 /\ f[1] \in Triple
      /\ \A k \in 1..(n - 1) : g[k] = f[k + 1]
  OBVIOUS
<1>2. /\ p \in Seq(Calls) /\ Len(p) = 2 * n
      /\ \A k \in 1..n : p[2 * k - 1] = Call("erase", f[k]) /\ p[2 * k] = Call("unlink", f[k])
  BY DeletesAt
<1>3. /\ q \in Seq(Calls) /\ Len(q) = 2 * (n - 1)
      /\ \A k \in 1..(n - 1) : q[2 * k - 1] = Call("erase", f[k + 1]) /\ q[2 * k] = Call("unlink", f[k + 1])
  <2> HIDE DEF g
  <2> QED BY <1>1, DeletesAt
<1>4. Call("unlink", f[1]) \in Calls
  BY <1>1, CallTyped
<1> HIDE DEF n, g, p, q
<1>5. /\ r \in Seq(Calls) /\ Len(r) = 2 * n - 1 /\ r[1] = Call("unlink", f[1])
      /\ \A i \in 2..(2 * n - 1) : r[i] = q[i - 1]
  BY <1>1, <1>3, <1>4
<1>6. /\ Head(p) = p[1] /\ Tail(p) \in Seq(Calls) /\ Len(Tail(p)) = 2 * n - 1
      /\ \A i \in 1..(2 * n - 1) : Tail(p)[i] = p[i + 1]
  <2>1. p # <<>> /\ Len(p) - 1 = 2 * n - 1 /\ p \in Seq(Calls)
    BY <1>1, <1>2
  <2>2. /\ Head(p) = p[1] /\ Tail(p) \in Seq(Calls) /\ Len(Tail(p)) = Len(p) - 1
        /\ \A i \in 1..(Len(p) - 1) : Tail(p)[i] = p[i + 1]
    BY <2>1
  <2> QED BY <2>1, <2>2
<1>7. p[1] = Call("erase", f[1]) /\ p[2] = Call("unlink", f[1])
  <2>1. 1 \in 1..n /\ 2 * 1 - 1 = 1 /\ 2 * 1 = 2
    BY <1>1
  <2> QED BY <1>2, <2>1
<1> HIDE DEF r
<1>8. ASSUME NEW i \in 1..(2 * n - 1) PROVE Tail(p)[i] = r[i]
  <2>1. CASE i = 1
    BY <2>1, <1>1, <1>5, <1>6, <1>7
  <2>2. CASE i > 1
    <3>1. PICK k \in 1..(n - 1) : i - 1 = 2 * k - 1 \/ i - 1 = 2 * k
      <4>1. i \div 2 \in 1..(n - 1) /\ (i - 1 = 2 * (i \div 2) - 1 \/ i - 1 = 2 * (i \div 2))
        BY <1>1, <2>2
      <4> QED BY <4>1
    <3>2. k + 1 \in 1..n /\ 2 * (k + 1) - 1 = 2 * k + 1 /\ 2 * (k + 1) = 2 * k + 2
      BY <1>1
    <3>3. p[2 * k + 1] = q[2 * k - 1] /\ p[2 * k + 2] = q[2 * k]
      BY <1>2, <1>3, <3>2
    <3>4. Tail(p)[i] = p[i + 1] /\ r[i] = q[i - 1]
      BY <2>2, <1>5, <1>6
    <3>6. CASE i - 1 = 2 * k - 1
      <4>1. i + 1 = 2 * k + 1
        BY <3>6
      <4> QED BY <3>3, <3>4, <3>6, <4>1
    <3>7. CASE i - 1 = 2 * k
      <4>1. i + 1 = 2 * k + 2
        BY <3>7
      <4> QED BY <3>3, <3>4, <3>7, <4>1
    <3> QED BY <3>1, <3>6, <3>7
  <2>3. i \in Nat /\ i >= 1
    BY <1>1
  <2>4. i = 1 \/ i > 1
    BY <2>3
  <2> QED BY <2>1, <2>2, <2>4
<1>9. Tail(p) = r
  BY <1>1, <1>5, <1>6, <1>8
<1> QED BY <1>1, <1>6, <1>7, <1>9 DEF p, q, r, g

LEMMA DeletesNames == ASSUME NEW f \in Seq(Triple), NEW k \in DOMAIN f PROVE \E i \in DOMAIN Deletes(f) : Deletes(f)[i].arg = f[k]
<1>1. k \in 1..Len(f)
  OBVIOUS
<1>2. 2 * k \in DOMAIN Deletes(f) /\ Deletes(f)[2 * k] = Call("unlink", f[k])
  BY <1>1, DeletesAt
<1> QED BY <1>2 DEF Call

(* Which call a caller makes is said by its plan.                          *)
LEMMA Serves ==
  ASSUME NEW c \in Caller, Serve(c)
  PROVE  /\ job[c].plan # <<>>
         /\ Head(job[c].plan) = Call("decay", None) => CallDecay(c)
         /\ Head(job[c].plan) = Call("evict", None) => CallEvict(c)
         /\ Head(job[c].plan) = Count => CallCount(c)
         /\ Head(job[c].plan) = Decide => CallDecide(c)
         /\ Head(job[c].plan) = Select => CallSelect(c)
         /\ \A t : Head(job[c].plan) = Call("erase", t) => CallErase(c)
         /\ \A t : Head(job[c].plan) = Call("unlink", t) => CallUnlink(c)
<1>1. \E do : Doing(c, do)
  BY DEF Serve, CallNode, CallPut, CallTouch, CallSource, CallLink, CallGet, CallScale, CallZero, CallLock,
     CallAdjust, CallDecay, CallEvict, CallCount, CallDecide, CallSelect, CallErase, CallUnlink, Makes
<1>2. ASSUME NEW do, Head(job[c].plan).do = do
      PROVE  /\ do = "decay" => CallDecay(c)
             /\ do = "evict" => CallEvict(c)
             /\ do = "count" => CallCount(c)
             /\ do = "decide" => CallDecide(c)
             /\ do = "select" => CallSelect(c)
             /\ do = "erase" => CallErase(c)
             /\ do = "unlink" => CallUnlink(c)
  BY <1>2 DEF Serve, CallNode, CallPut, CallTouch, CallSource, CallLink, CallGet, CallScale, CallZero, CallLock,
     CallAdjust, CallDecay, CallEvict, CallCount, CallDecide, CallSelect, CallErase, CallUnlink, Makes, Doing
<1> QED BY <1>1, <1>2 DEF Doing, Call, Count, Decide, Select

LEMMA ConcatKeeps ==
  ASSUME NEW p \in Seq(Calls), NEW q \in Seq(Calls), KeepsLinks(p), KeepsLinks(q)
  PROVE  KeepsLinks(p \o q) /\ p \o q \in Seq(Calls)
<1> DEFINE r == p \o q
<1>1. ASSUME NEW i \in DOMAIN r PROVE r[i].do \notin Enforcement
  <2>1. \/ i \in DOMAIN p /\ r[i] = p[i]
        \/ i - Len(p) \in DOMAIN q /\ r[i] = q[i - Len(p)]
    BY Concat
  <2> QED BY <2>1 DEF KeepsLinks
<1> QED BY <1>1, Concat DEF KeepsLinks

LEMMA InsertsKeep ==
  ASSUME NEW ts \in Seq(Triple)
  PROVE  KeepsLinks(Inserts(ts)) /\ Inserts(ts) \in Seq(Calls)
<1> DEFINE p == Inserts(ts)
           n == Len(ts)
<1>1. n \in Nat /\ p = [i \in 1..(3 * n) |-> InsertCalls(ts[(i + 2) \div 3])[((i - 1) % 3) + 1]]
  BY DEF Inserts
<1>2. ASSUME NEW t, NEW k \in 1..3 PROVE InsertCalls(t)[k].do \notin Enforcement
  BY DEF InsertCalls, Call, Enforcement
<1>3. \A i \in 1..(3 * n) : ((i - 1) % 3) + 1 \in 1..3
  BY <1>1
<1>4. \A i \in DOMAIN p : p[i].do \notin Enforcement
  BY <1>1, <1>2, <1>3
<1> QED BY <1>4, InsertsOrdered DEF KeepsLinks

LEMMA ShortPlans ==
  ASSUME NEW k \in Calls, k.do \notin Enforcement, NEW l \in Calls, l.do \notin Enforcement
  PROVE  /\ <<k>> \in Seq(Calls) /\ KeepsLinks(<<k>>)
         /\ <<k, l>> \in Seq(Calls) /\ KeepsLinks(<<k, l>>)
  BY DEF KeepsLinks

LEMMA AcceptedKeeps ==
  ASSUME IInv, NEW c \in Caller, Accept(c), ~RunLifecycleCycle(c)
  PROVE  /\ \E p : KeepsLinks(p) /\ job' = [job EXCEPT ![c] = [Idle EXCEPT !.plan = p]]
         /\ UNCHANGED <<store, claims>>
<1> DEFINE Good == /\ \E p : KeepsLinks(p) /\ job' = [job EXCEPT ![c] = [Idle EXCEPT !.plan = p]]
                   /\ UNCHANGED <<store, claims>>
<1>0. Facts \subseteq Triple /\ Link \subseteq Triple
  BY EngineAssumption DEF Facts
<1>a. ASSUME NEW op, NEW p, KeepsLinks(p), Request(c, op, p) PROVE Good
  BY <1>a DEF Request
<1>b. /\ \A t \in Triple, do \in {"get", "touch", "scale", "zero"} :
            Call(do, t) \in Calls /\ Call(do, t).do \notin Enforcement
      /\ \A do \in {"decay", "evict"} :
            Call(do, None) \in Calls /\ Call(do, None).do \notin Enforcement
  BY CallTyped DEF Call, Enforcement
<1>1. ASSUME InsertTriples(c) PROVE Good
  <2>1. PICK ts \in Batch :
          \/ Request(c, "insert", Inserts(ts))
          \/ \E s \in Source : Request(c, "insert",
               Inserts(ts) \o <<Call("source", s), Call("link", <<s, {ts[i] : i \in DOMAIN ts}>>)>>)
    BY <1>1 DEF InsertTriples
  <2>2. ts \in Seq(Triple)
    BY EngineAssumption DEF Batch, Facts
  <2>3. KeepsLinks(Inserts(ts)) /\ Inserts(ts) \in Seq(Calls)
    BY <2>2, InsertsKeep
  <2>4. ASSUME NEW s \in Source
        PROVE  LET q == <<Call("source", s), Call("link", <<s, {ts[i] : i \in DOMAIN ts}>>)>>
               IN  KeepsLinks(Inserts(ts) \o q)
    <3> DEFINE told == {ts[i] : i \in DOMAIN ts}
    <3>1. told \in SUBSET Triple
      BY <2>2
    <3> HIDE DEF told
    <3>2. /\ Call("source", s) \in Calls /\ Call("link", <<s, told>>) \in Calls
      BY <3>1, CallTyped
    <3>3. Call("source", s).do \notin Enforcement /\ Call("link", <<s, told>>).do \notin Enforcement
      BY DEF Call, Enforcement
    <3>4. KeepsLinks(Inserts(ts) \o <<Call("source", s), Call("link", <<s, told>>)>>)
      BY <2>3, <3>2, <3>3, ShortPlans, ConcatKeeps
    <3> QED BY <3>4 DEF told
  <2> QED BY <2>1, <2>3, <2>4, <1>a
<1>2. ASSUME RecordFeedback(c) PROVE Good
  BY <1>0, <1>2, <1>a, <1>b, ShortPlans DEF RecordFeedback
<1>3. ASSUME SubmitFeedback(c) PROVE Good
  <2>1. PICK t \in Facts, signal \in {"up", "down"} : Request(c, "feedback", Adjustment(t, signal))
    BY <1>3 DEF SubmitFeedback
  <2>2. KeepsLinks(Adjustment(t, signal))
    BY DEF KeepsLinks, Adjustment, Call, Enforcement
  <2> QED BY <2>1, <2>2, <1>a
<1>4. ASSUME NEW a \in Facts, NEW ts \in Seq(Triple), NEW do \in {"scale", "zero"}
      PROVE  KeepsLinks(<<Call("get", a)>> \o Inserts(ts) \o <<Call(do, a)>>)
  <2>1. /\ <<Call("get", a)>> \in Seq(Calls) /\ KeepsLinks(<<Call("get", a)>>)
        /\ <<Call(do, a)>> \in Seq(Calls) /\ KeepsLinks(<<Call(do, a)>>)
    BY <1>0, <1>b, ShortPlans
  <2>2. /\ KeepsLinks(<<Call("get", a)>> \o Inserts(ts))
        /\ <<Call("get", a)>> \o Inserts(ts) \in Seq(Calls)
    BY <2>1, InsertsKeep, ConcatKeeps
  <2> QED BY <2>1, <2>2, ConcatKeeps
<1>5. ASSUME TripleSupersede(c) PROVE Good
  <2>1. PICK old \in Facts, new \in Facts, l \in Link :
          Request(c, "supersede",
                  <<Call("get", old)>> \o Inserts(<<new, l>>) \o <<Call("scale", old)>>)
    BY <1>5 DEF TripleSupersede
  <2>2. <<new, l>> \in Seq(Triple)
    BY <1>0, PairsTyped
  <2> QED BY <2>1, <2>2, <1>4, <1>a
<1>6. ASSUME ShareRevoke(c) PROVE Good
  <2>1. PICK t \in Facts, l \in Link :
          Request(c, "revoke", <<Call("get", t)>> \o Inserts(<<l>>) \o <<Call("zero", t)>>)
    BY <1>6 DEF ShareRevoke
  <2>2. <<l>> \in Seq(Triple)
    BY <1>0, PairsTyped
  <2> QED BY <2>1, <2>2, <1>4, <1>a
<1>7. ASSUME TensionResolve(c) PROVE Good
  <2>1. PICK a \in Facts, b \in Facts, l \in Link, archived \in Archivings :
          Request(c, "resolve",
                  <<Call("get", a), Call("get", b)>>
                  \o [i \in DOMAIN archived |-> Call("scale", <<a, b>>[archived[i]])]
                  \o Inserts(<<l>>))
    BY <1>7 DEF TensionResolve
  <2>2. a \in Triple /\ b \in Triple /\ <<l>> \in Seq(Triple)
    BY <1>0, PairsTyped
  <2> DEFINE g == <<Call("get", a), Call("get", b)>>
             q == [i \in DOMAIN archived |-> Call("scale", <<a, b>>[archived[i]])]
  <2>3. g \in Seq(Calls) /\ KeepsLinks(g)
    BY <2>2, <1>b, ShortPlans
  <2>4. q \in Seq(Calls)
    BY <2>2, ArchivePlan
  <2>5. \A i \in DOMAIN q : q[i].do = "scale"
    BY DEF Call
  <2>6. KeepsLinks(q)
    BY <2>5 DEF KeepsLinks, Enforcement
  <2> HIDE DEF g, q
  <2>7. KeepsLinks((g \o q) \o Inserts(<<l>>))
    BY <2>2, <2>3, <2>4, <2>6, InsertsKeep, ConcatKeeps
  <2> QED BY <2>1, <2>7, <1>a DEF g, q
<1>8. ASSUME TriggerDecay(c) PROVE Good
  BY <1>8, <1>a, <1>b, ShortPlans DEF TriggerDecay
<1>9. ASSUME TriggerEvict(c) PROVE Good
  BY <1>9, <1>a, <1>b, ShortPlans DEF TriggerEvict
<1> HIDE DEF Good
<1>11. Good
  BY <1>1, <1>2, <1>3, <1>5, <1>6, <1>7, <1>8, <1>9 DEF Accept
<1> QED BY <1>11 DEF Good

-----------------------------------------------------------------------------
(* Provenance.  Whoever is about to take a triple's links has just taken   *)
(* its record, so that nothing is claimed for it until they are gone.      *)

Paired(p) ==
    \A i \in DOMAIN p : i > 1 /\ p[i].do = "unlink" => p[i - 1] = Call("erase", p[i].arg)

StartsWhole(p) == Paired(p) /\ (p # <<>> => Head(p).do # "unlink")

Unclaimed(t) == \A l \in claims : l[1] # t

DeletesInOrder ==
    \A c \in Caller : Paired(job[c].plan) /\ (Doing(c, "unlink") => Unclaimed(Arg(c)))

LEMMA KeepsWhole == \A p \in Seq(Calls) : KeepsLinks(p) => StartsWhole(p)
<1> SUFFICES ASSUME NEW p \in Seq(Calls), KeepsLinks(p) PROVE StartsWhole(p)
  OBVIOUS
<1>1. \A i \in DOMAIN p : p[i].do # "unlink"
  BY DEF KeepsLinks, Enforcement
<1>2. p # <<>> => 1 \in DOMAIN p /\ Head(p) = p[1]
  OBVIOUS
<1> QED BY <1>1, <1>2 DEF StartsWhole, Paired

LEMMA CycleWhole == StartsWhole(Cycle)
<1>1. DOMAIN Cycle = 1..5 /\ Head(Cycle) = Cycle[1]
  BY DEF Cycle
<1>2. \A i \in 1..5 : Cycle[i].do # "unlink"
  BY DEF Cycle, Call
<1> QED BY <1>1, <1>2 DEF StartsWhole, Paired

LEMMA DeletesWhole == \A f \in Seq(Triple) : StartsWhole(Deletes(f))
<1> SUFFICES ASSUME NEW f \in Seq(Triple) PROVE StartsWhole(Deletes(f))
  OBVIOUS
<1> DEFINE p == Deletes(f)
           n == Len(f)
<1>1. /\ n \in Nat /\ DOMAIN p = 1..(2 * n) /\ p \in Seq(Calls)
      /\ \A k \in 1..n : /\ 2 * k - 1 \in 1..(2 * n) /\ 2 * k \in 1..(2 * n)
                         /\ p[2 * k - 1] = Call("erase", f[k]) /\ p[2 * k] = Call("unlink", f[k])
  BY DeletesAt
<1> HIDE DEF p, n
<1>2. ASSUME NEW i \in 1..(2 * n)
      PROVE  \E k \in 1..n : i = 2 * k - 1 \/ i = 2 * k
  <2>1. (i + 1) \div 2 \in 1..n /\ (i = 2 * ((i + 1) \div 2) - 1 \/ i = 2 * ((i + 1) \div 2))
    BY <1>1
  <2> QED BY <2>1
<1>3. ASSUME NEW i \in DOMAIN p, p[i].do = "unlink" PROVE i > 1 /\ p[i - 1] = Call("erase", p[i].arg)
  <2>1. PICK k \in 1..n : i = 2 * k - 1 \/ i = 2 * k
    BY <1>1, <1>2
  <2>2. p[2 * k - 1] = Call("erase", f[k]) /\ p[2 * k] = Call("unlink", f[k])
    BY <1>1
  <2>3. i # 2 * k - 1
    BY <1>3, <2>2 DEF Call
  <2>4. k \in Nat /\ k >= 1 /\ i = 2 * k
    BY <2>1, <2>3
  <2>5. i - 1 = 2 * k - 1 /\ i > 1
    BY <2>4
  <2>6. p[i].arg = f[k]
    BY <2>2, <2>4 DEF Call
  <2> QED BY <2>2, <2>5, <2>6
<1>4. p # <<>> => 1 \in DOMAIN p /\ Head(p) = p[1]
  BY <1>1
<1>5. StartsWhole(p)
  BY <1>3, <1>4 DEF StartsWhole, Paired
<1> QED BY <1>5 DEF p

LEMMA TailPaired ==
  ASSUME NEW p \in Seq(Calls), p # <<>>, Paired(p)
  PROVE  /\ Paired(Tail(p))
         /\ Tail(p) # <<>> /\ Head(Tail(p)).do = "unlink" => Head(p) = Call("erase", Head(Tail(p)).arg)
<1>1. /\ Len(p) \in Nat /\ Len(p) > 0 /\ DOMAIN p = 1..Len(p)
      /\ DOMAIN Tail(p) = 1..(Len(p) - 1)
      /\ \A k \in 1..(Len(p) - 1) : Tail(p)[k] = p[k + 1]
      /\ Head(p) = p[1] /\ (Tail(p) # <<>> => Len(p) > 1 /\ Head(Tail(p)) = Tail(p)[1])
  OBVIOUS
<1>2. ASSUME NEW i \in DOMAIN Tail(p), i > 1, Tail(p)[i].do = "unlink"
      PROVE  Tail(p)[i - 1] = Call("erase", Tail(p)[i].arg)
  <2>1. /\ i + 1 \in DOMAIN p /\ i + 1 > 1 /\ (i + 1) - 1 = i /\ i - 1 \in 1..(Len(p) - 1)
        /\ (i - 1) + 1 = i /\ i \in 1..(Len(p) - 1)
    BY <1>1, <1>2
  <2>2. Tail(p)[i] = p[i + 1] /\ Tail(p)[i - 1] = p[i]
    BY <1>1, <2>1
  <2> QED BY <1>2, <2>1, <2>2 DEF Paired
<1>3. ASSUME Tail(p) # <<>>, Head(Tail(p)).do = "unlink" PROVE Head(p) = Call("erase", Head(Tail(p)).arg)
  <2>1. 2 \in DOMAIN p /\ 2 > 1 /\ 2 - 1 = 1 /\ Head(Tail(p)) = p[2]
    BY <1>1, <1>3
  <2> QED BY <1>1, <1>3, <2>1 DEF Paired
<1> QED BY <1>2, <1>3 DEF Paired

(* A call that goes on with the plan, and one that puts another in its     *)
(* place.                                                                  *)
LEMMA ServedGoes ==
  ASSUME IInv, NEW c \in Caller, Serve(c)
  PROVE  \E j : /\ job' = [job EXCEPT ![c] = j]
                /\ \/ j.plan = Tail(job[c].plan)
                   \/ j.plan = <<>>
                   \/ CallSelect(c) /\ \E f \in Seq(Triple) : j.plan = Deletes(f)
<1> DEFINE Goes == \E j : /\ job' = [job EXCEPT ![c] = j]
                          /\ \/ j.plan = Tail(job[c].plan)
                             \/ j.plan = <<>>
                             \/ CallSelect(c) /\ \E f \in Seq(Triple) : j.plan = Deletes(f)
<1>0. job[c] \in Jobs /\ job[c].plan \in Seq(Calls) /\ job[c].n \in Nat
  BY DEF IInv, TypeOK, Jobs
<1>1. Idle.plan = <<>>
  BY DEF Idle
<1>3. Next1(job[c]).plan = Tail(job[c].plan)
  BY <1>0 DEF Next1, Jobs
<1>4. ASSUME NEW do, Makes(c, do) PROVE Goes
  BY <1>3, <1>4 DEF Makes
<1>5. ASSUME CallGet(c) PROVE Goes
  <2> DEFINE found == [Next1(job[c]) EXCEPT !.copy[Arg(c)] = triples[Arg(c)]]
  <2>1. found.plan = Tail(job[c].plan)
    BY <1>0, <1>3 DEF Next1, Jobs
  <2>2. job' = [job EXCEPT ![c] = found] \/ job' = [job EXCEPT ![c] = Idle]
    BY <1>5 DEF CallGet
  <2> HIDE DEF found
  <2> QED BY <1>1, <2>1, <2>2
<1>6. ASSUME NEW n, NEW w
      PROVE  /\ [Next1(job[c]) EXCEPT !.n = n, !.was = w].plan = Tail(job[c].plan)
             /\ [Next1(job[c]) EXCEPT !.n = n].plan = Tail(job[c].plan)
  BY <1>0 DEF Next1, Jobs
<1>7. ASSUME CallCount(c) PROVE Goes
  BY <1>6, <1>7 DEF CallCount
<1>8. ASSUME CallDecide(c) PROVE Goes
  BY <1>1, <1>6, <1>8 DEF CallDecide
<1>9. ASSUME CallSelect(c) PROVE Goes
  <2> DEFINE all == Cardinality(Present)
             k == IF job[c].n < all THEN job[c].n ELSE all
  <2>1. k \in Nat
    <3>1. all \in Nat
      BY PresentFinite
    <3> QED BY <1>0, <3>1
  <2>2. PICK f \in Lightest(k) :
          job' = [job EXCEPT ![c] = [Idle EXCEPT !.plan = Deletes(f), !.was = job[c].was]]
    BY <1>9 DEF CallSelect
  <2> HIDE DEF k
  <2>3. f \in Seq(Triple)
    BY <2>1, <2>2 DEF Lightest, Present
  <2>4. [Idle EXCEPT !.plan = Deletes(f), !.was = job[c].was].plan = Deletes(f)
    BY DEF Idle
  <2> QED BY <1>9, <2>2, <2>3, <2>4
<1> HIDE DEF Goes
<1>10. Goes
  BY <1>4, <1>5, <1>7, <1>8, <1>9 DEF Serve, CallNode, CallPut, CallTouch, CallSource, CallLink, CallScale, CallZero, CallLock,
     CallAdjust, CallDecay, CallEvict, CallErase, CallUnlink
<1> QED BY <1>10 DEF Goes

(* What may be claimed after a call was claimed before or is linked now,   *)
(* and is claimed only of what is stored and nobody is taking.             *)
LEMMA ClaimsGrow ==
  ASSUME NEW c \in Caller, Serve(c)
  PROVE  /\ \A l \in claims' : l \in claims \/ (CallLink(c) /\ l \in links' /\ ~Leaving(l[1]))
         /\ CallErase(c) => /\ \A l \in claims' : triples'[l[1]] # Absent
                            /\ triples' = [triples EXCEPT ![Arg(c)] = Absent]
<1>1. CASE CallLink(c)
  <2>1. ~CallErase(c)
    BY <1>1 DEF CallLink, CallErase, Makes, Doing
  <2> QED BY <1>1, <2>1 DEF CallLink, Claim, AddLinks
<1>2. CASE CallErase(c) \/ CallEvict(c)
  BY <1>2 DEF CallErase, CallEvict, Claim, RemoveTriple, Makes, Doing
<1>3. CASE ~CallLink(c) /\ ~CallErase(c) /\ ~CallEvict(c)
  <2>1. claims' = claims
    BY <1>3 DEF Serve, CallNode, CallPut, CallTouch, CallSource, CallGet, CallScale, CallZero, CallLock,
       CallAdjust, CallDecay, CallCount, CallDecide, CallSelect, CallUnlink
  <2> QED BY <1>3, <2>1
<1> QED BY <1>1, <1>2, <1>3

LEMMA ServedInOrder ==
  ASSUME IInv, DeletesInOrder, NEW c \in Caller, Serve(c)
  PROVE  DeletesInOrder'
<1>0. job \in [Caller -> Jobs] /\ job[c].plan \in Seq(Calls) /\ job[c].plan # <<>>
  BY Serves DEF IInv, TypeOK, Jobs
<1>1. PICK j : /\ job' = [job EXCEPT ![c] = j]
               /\ \/ j.plan = Tail(job[c].plan)
                  \/ j.plan = <<>>
                  \/ CallSelect(c) /\ \E f \in Seq(Triple) : j.plan = Deletes(f)
  BY ServedGoes
<1>2. job'[c] = j /\ \A d \in Caller : d # c => job'[d] = job[d]
  BY <1>0, <1>1
<1>3. Paired(j.plan)
  <2>1. Paired(job[c].plan)
    BY DEF DeletesInOrder
  <2>2. Paired(<<>>)
    BY DEF Paired
  <2>3. CASE j.plan = Tail(job[c].plan)
    BY <1>0, <2>1, <2>3, TailPaired
  <2> QED BY <1>1, <2>2, <2>3, DeletesWhole DEF StartsWhole
<1>4. ASSUME NEW d \in Caller, d # c, Doing(d, "unlink")' PROVE Unclaimed(Arg(d))'
  <2>1. Doing(d, "unlink") /\ Arg(d)' = Arg(d)
    BY <1>2, <1>4 DEF Doing, Arg
  <2>2. Leaving(Arg(d)) /\ Unclaimed(Arg(d))
    BY <2>1 DEF Leaving, DeletesInOrder
  <2>3. \A l \in claims' : l[1] # Arg(d)
    BY <2>2, ClaimsGrow DEF Unclaimed
  <2> QED BY <2>1, <2>3 DEF Unclaimed
<1>5. ASSUME Doing(c, "unlink")' PROVE Unclaimed(Arg(c))'
  <2>1. j.plan # <<>> /\ Head(j.plan).do = "unlink" /\ Arg(c)' = Head(j.plan).arg
    BY <1>2, <1>5 DEF Doing, Arg
  <2>2. j.plan = Tail(job[c].plan)
    BY <1>1, <2>1, DeletesWhole DEF StartsWhole
  <2>3. Head(job[c].plan) = Call("erase", Head(j.plan).arg)
    BY <1>0, <2>1, <2>2, TailPaired DEF DeletesInOrder
  <2>4. CallErase(c) /\ Arg(c) = Head(j.plan).arg
    BY <2>3, Serves DEF Arg, Call
  <2>5. Arg(c) \in Triple /\ triples \in [Triple -> Stored]
    BY <1>0, <2>4, Doer, ArgTyped DEF CallErase, Makes, Arg, IInv, TypeOK, StoreTypeOK
  <2>6. \A l \in claims' : l[1] # Arg(c)
    BY <2>4, <2>5, ClaimsGrow
  <2> QED BY <2>1, <2>4, <2>6 DEF Unclaimed
<1> QED BY <1>2, <1>3, <1>4, <1>5 DEF DeletesInOrder

LEMMA ServedKeeps ==
  ASSUME IInv, ProvenanceKept, DeletesInOrder, NEW c \in Caller, Serve(c)
  PROVE  ProvenanceKept'
<1>1. CASE CallUnlink(c)
  <2>1. Doing(c, "unlink") /\ claims' = claims /\ links' = {l \in links : l[1] # Arg(c)}
    BY <1>1 DEF CallUnlink, Makes, RemoveLinks
  <2>2. Unclaimed(Arg(c))
    BY <2>1 DEF DeletesInOrder
  <2> QED BY <2>1, <2>2 DEF ProvenanceKept, Unclaimed
<1>2. CASE ~CallUnlink(c)
  <2>1. links \subseteq links'
    BY <1>2 DEF Serve, CallNode, CallPut, CallTouch, CallSource, CallLink, CallGet, CallScale, CallZero, CallLock,
       CallAdjust, CallDecay, CallEvict, CallCount, CallDecide, CallSelect, CallErase, FindOrCreateNode,
       PutTriple, TouchTriple, PutSource, AddLinks, Decay, Evict, RemoveTriple, store
  <2> QED BY <2>1, ClaimsGrow DEF ProvenanceKept
<1> QED BY <1>1, <1>2

(***************************************************************************)
(* However many requests insert, delete, evict, decay, adjust and          *)
(* supersede at the same time, the origin that an acknowledged insertion   *)
(* gave a triple is kept while it stays stored: a deletion takes the       *)
(* record first, so that the links it takes afterwards are those of a      *)
(* triple that was gone, or was inserted again in between.                 *)
(***************************************************************************)
THEOREM OriginsStay == Spec => []ProvenanceKept
<1> DEFINE KInv == DeletesInOrder /\ ProvenanceKept
<1>1. Init => KInv
  BY DEF Init, Idle, DeletesInOrder, Doing, Paired, ProvenanceKept
<1>2. IInv /\ KInv /\ [Next]_vars => KInv'
  <2> SUFFICES ASSUME IInv, KInv, [Next]_vars PROVE KInv'
    OBVIOUS
  <2>0. job \in [Caller -> Jobs]
    BY DEF IInv, TypeOK, Jobs
  <2>1. ASSUME NEW c \in Caller, Accept(c) PROVE KInv'
    <3>1. \E p : StartsWhole(p) /\ job' = [job EXCEPT ![c] = [Idle EXCEPT !.plan = p]]
      <4>1. CASE RunLifecycleCycle(c)
        BY <4>1, CycleWhole DEF RunLifecycleCycle, Request
      <4>2. CASE ~RunLifecycleCycle(c)
        <5>1. PICK p : KeepsLinks(p) /\ job' = [job EXCEPT ![c] = [Idle EXCEPT !.plan = p]]
          BY <2>1, <4>2, AcceptedKeeps
        <5>2. job'[c].plan = p
          BY <2>0, <5>1 DEF Idle
        <5>3. job'[c].plan \in Seq(Calls)
          BY <2>1, AcceptKeeps DEF IInv, TypeOK
        <5> QED BY <5>1, <5>2, <5>3, KeepsWhole
      <4> QED BY <4>1, <4>2
    <3>2. UNCHANGED <<store, claims>>
      <4>1. CASE RunLifecycleCycle(c)
        BY <4>1 DEF RunLifecycleCycle, Request
      <4>2. CASE ~RunLifecycleCycle(c)
        BY <2>1, <4>2, AcceptedKeeps
      <4> QED BY <4>1, <4>2
    <3>3. PICK p : StartsWhole(p) /\ job' = [job EXCEPT ![c] = [Idle EXCEPT !.plan = p]]
      BY <3>1
    <3>4. job'[c].plan = p /\ \A d \in Caller : d # c => job'[d] = job[d]
      BY <2>0, <3>3 DEF Idle
    <3>5. ~Doing(c, "unlink")'
      BY <3>3, <3>4 DEF Doing, StartsWhole
    <3>6. ASSUME NEW d \in Caller
          PROVE  Paired(job'[d].plan) /\ (Doing(d, "unlink")' => Unclaimed(Arg(d))')
      <4>1. CASE d = c
        BY <3>3, <3>4, <3>5, <4>1 DEF StartsWhole
      <4>2. CASE d # c
        <5>1. job'[d] = job[d] /\ claims' = claims
          BY <3>2, <3>4, <4>2
        <5> QED BY <5>1 DEF DeletesInOrder, Doing, Arg, Unclaimed
      <4> QED BY <4>1, <4>2
    <3>7. DeletesInOrder'
      BY <3>6 DEF DeletesInOrder
    <3> QED BY <3>2, <3>7 DEF ProvenanceKept, store
  <2>2. ASSUME NEW c \in Caller, Serve(c) PROVE KInv'
    BY <2>2, ServedInOrder, ServedKeeps
  <2>3. CASE UNCHANGED vars
    BY <2>3 DEF vars, store, DeletesInOrder, Doing, Arg, Unclaimed, ProvenanceKept
  <2> QED BY <2>1, <2>2, <2>3 DEF Next
<1> QED BY <1>1, <1>2, Inductive, PTL DEF Spec

-----------------------------------------------------------------------------
(* Enforcing the bounds, by one caller.  What is left to delete is stored  *)
(* and weighs no more than what stays; and what stays is as much as there  *)
(* should be, given the count that the enforcement began with.             *)

Surplus == Cardinality(nodes) - TargetNodes

Meets(was, left) ==
    /\ was > TargetTriples => left = TargetTriples
    /\ was <= TargetTriples =>
         /\ was - left > 0 => 2 * (was - left) <= Surplus
         /\ left > 0 => 2 * (was - left) + 1 >= Surplus

Left(f, was) ==
    /\ f \in Seq(Triple)
    /\ \A i, j \in DOMAIN f : i # j => f[i] # f[j]
    /\ \A i \in DOMAIN f : f[i] \in Present
    /\ \A i \in DOMAIN f, u \in Present : (\A k \in DOMAIN f : f[k] # u) => triples[f[i]] <= triples[u]
    /\ Meets(was, Cardinality(Present) - Len(f))

Obeys(j) ==
    \/ KeepsLinks(j.plan)
    \/ j.plan \in {Cycle, <<Call("evict", None), Count, Decide, Select>>, <<Count, Decide, Select>>}
    \/ j.plan = <<Decide, Select>> /\ j.n = Cardinality(Present) /\ j.was = j.n
    \/ /\ j.plan = <<Select>> /\ j.was = Cardinality(Present)
       /\ Meets(j.was, IF j.n < j.was THEN j.was - j.n ELSE 0)
    \/ \E f : Left(f, j.was) /\ j.plan = Deletes(f)
    \/ \E f, t : Left(f, j.was) /\ t \notin Present /\ j.plan = <<Call("unlink", t)>> \o Deletes(f)

EInv == \A c \in Caller : Obeys(job[c])

(* An enforcement that comes to its end has met its targets.               *)
Reached(c) ==
    Enforcing(c) /\ job'[c].plan = <<>> => Meets(job[c].was, Cardinality(Present)')

(* A plan that goes on, and nothing else. *)
LEMMA GoesOn ==
  ASSUME IInv, NEW c \in Caller, NEW do, Makes(c, do)
  PROVE  /\ job[c] \in Jobs /\ job'[c].plan = Tail(job[c].plan)
         /\ job'[c].n = job[c].n /\ job'[c].was = job[c].was
<1>1. job[c] \in Jobs /\ job' = [job EXCEPT ![c] = Next1(job[c])] /\ job \in [Caller -> Jobs]
  BY DEF IInv, TypeOK, Jobs, Makes
<1>2. Next1(job[c]).plan = Tail(job[c].plan) /\ Next1(job[c]).n = job[c].n /\ Next1(job[c]).was = job[c].was
  BY <1>1 DEF Next1, Jobs
<1> QED BY <1>1, <1>2

LEMMA SurplusTyped == ASSUME IInv PROVE Surplus \in Int /\ Cardinality(nodes) \in Nat
<1>1. IsFiniteSet(nodes)
  BY StoreAssumption, FS_Subset DEF IInv, TypeOK, StoreTypeOK
<1>2. Cardinality(nodes) \in Nat
  BY <1>1, FS_CardinalityType
<1> QED BY <1>2, EngineAssumption DEF Surplus

(* What to evict, exactly.                                                 *)
LEMMA EvictsExactly ==
  ASSUME IInv, NEW w \in Nat
  PROVE  LET m == ToEvict(w)
         IN  m \in Nat /\ Meets(w, IF m < w THEN w - m ELSE 0)
<1> DEFINE m == ToEvict(w)
<1>1. TargetTriples \in Nat /\ Surplus \in Int
  BY EngineAssumption, SurplusTyped
<1>2. m = IF w > TargetTriples THEN w - TargetTriples
          ELSE IF Surplus > 0 THEN Surplus \div 2 ELSE 0
  BY DEF ToEvict, Surplus
<1> HIDE DEF m
<1>3. Surplus > 0 => /\ Surplus \div 2 \in Nat
                     /\ 2 * (Surplus \div 2) <= Surplus
                     /\ 2 * (Surplus \div 2) + 1 >= Surplus
  BY <1>1
<1>4. CASE w > TargetTriples
  <2>1. m = w - TargetTriples /\ m \in Nat
    BY <1>1, <1>2, <1>4
  <2>2. (IF m < w THEN w - m ELSE 0) = TargetTriples
    BY <1>1, <1>4, <2>1
  <2>3. Meets(w, TargetTriples)
    BY <1>1, <1>4 DEF Meets
  <2> QED BY <2>1, <2>2, <2>3 DEF m
<1>5. CASE w <= TargetTriples /\ Surplus > 0
  <2>1. m = Surplus \div 2 /\ m \in Nat
    BY <1>1, <1>2, <1>3, <1>5
  <2> DEFINE h == IF m < w THEN w - m ELSE 0
  <2>2. 2 * m <= Surplus /\ 2 * m + 1 >= Surplus
    BY <1>3, <1>5, <2>1
  <2>3. h \in Nat /\ w - h <= m /\ (h > 0 => w - h = m) /\ w - h \in Nat
    BY <2>1
  <2> HIDE DEF h
  <2>4. Meets(w, h)
    BY <1>1, <1>5, <2>1, <2>2, <2>3 DEF Meets
  <2> QED BY <2>1, <2>4 DEF h, m
<1>6. CASE w <= TargetTriples /\ Surplus <= 0
  <2>1. m = 0
    BY <1>1, <1>2, <1>6
  <2>2. (IF m < w THEN w - m ELSE 0) = w
    BY <2>1
  <2>3. Meets(w, w)
    BY <1>1, <1>6 DEF Meets
  <2> QED BY <2>1, <2>2, <2>3 DEF m
<1> QED BY <1>1, <1>4, <1>5, <1>6

LEMMA NoneToDelete == ASSUME NEW f \in Seq(Triple), Deletes(f) = <<>> PROVE Len(f) = 0
<1> DEFINE n == Len(f)
           d == Len(Deletes(f))
<1>1. n \in Nat /\ d = 2 * n
  BY DeletesAt
<1>2. d = 0
  OBVIOUS
<1> HIDE DEF n, d
<1>3. n = 0
  BY <1>1, <1>2
<1> QED BY <1>3 DEF n

LEMMA EnforceCounts ==
  ASSUME IInv, NEW c \in Caller,
         \/ job[c].plan = <<Count, Decide, Select>>
         \/ job[c].plan = <<Decide, Select>> /\ job[c].n = Cardinality(Present) /\ job[c].was = job[c].n,
         Serve(c)
  PROVE  Obeys(job[c])' /\ Reached(c)
<1>0. job[c] \in Jobs /\ job \in [Caller -> Jobs] /\ Cardinality(Present) \in Nat
  BY PresentFinite DEF IInv, TypeOK, Jobs
<1> DEFINE j == Next1(job[c])
<1>1. j \in Jobs /\ j.plan = Tail(job[c].plan) /\ j.was = job[c].was
  BY <1>0, Serves, Next1Typed DEF Next1, Jobs
<1>2. CASE job[c].plan = <<Count, Decide, Select>>
  <2>1. Head(job[c].plan) = Count /\ Tail(job[c].plan) = <<Decide, Select>>
    BY <1>2
  <2>2. CallCount(c) /\ ~Enforcing(c)
    BY <2>1, Serves DEF Enforcing, Doing, Count, Call
  <2> DEFINE n == Cardinality(Present)
  <2>3. job' = [job EXCEPT ![c] = [j EXCEPT !.n = n, !.was = n]] /\ UNCHANGED triples
    BY <2>2 DEF CallCount, store
  <2> HIDE DEF j, n
  <2>4. n \in Nat /\ job'[c] = [j EXCEPT !.n = n, !.was = n]
    BY <1>0, <2>3 DEF n
  <2>5. job'[c].plan = <<Decide, Select>> /\ job'[c].n = n /\ job'[c].was = n
    BY <1>1, <2>1, <2>4 DEF Jobs
  <2>6. Cardinality(Present)' = n
    BY <2>3 DEF n, Present
  <2>7. Obeys(job[c])'
    BY <2>5, <2>6 DEF Obeys
  <2> QED BY <2>2, <2>7 DEF Reached
<1>3. CASE job[c].plan = <<Decide, Select>> /\ job[c].n = Cardinality(Present) /\ job[c].was = job[c].n
  <2>1. Head(job[c].plan) = Decide /\ Tail(job[c].plan) = <<Select>>
    BY <1>3
  <2>2. CallDecide(c)
    BY <2>1, Serves
  <2> DEFINE m == ToEvict(job[c].n)
             w == Cardinality(Present)
  <2>3. m \in Nat /\ Meets(w, IF m < w THEN w - m ELSE 0) /\ w \in Nat
    BY <1>0, <1>3, EvictsExactly
  <2>4. /\ job' = [job EXCEPT ![c] = IF m = 0 THEN Idle ELSE [j EXCEPT !.n = m]]
        /\ triples' = triples /\ nodes' = nodes
    BY <2>2 DEF CallDecide, store
  <2>5. Cardinality(Present)' = w /\ \A a, b : Meets(a, b)' <=> Meets(a, b)
    BY <2>4 DEF Present, Meets, Surplus
  <2> HIDE DEF m, w, j
  <2>6. CASE m = 0
    <3>1. job'[c] = Idle
      BY <1>0, <2>4, <2>6
    <3>2. Meets(w, w)
      BY <2>3, <2>6
    <3>3. Obeys(job[c])'
      BY <3>1 DEF Obeys, Idle, KeepsLinks
    <3>4. job[c].was = w
      BY <1>3 DEF w
    <3>5. Reached(c)
      BY <2>5, <3>2, <3>4 DEF Reached
    <3> QED BY <3>3, <3>5
  <2>7. CASE m # 0
    <3>0. job'[c] = [j EXCEPT !.n = m]
      BY <1>0, <2>4, <2>7
    <3>1. job'[c].plan = <<Select>> /\ job'[c].n = m /\ job'[c].was = w
      <4>1. job[c].was = w
        BY <1>3 DEF w
      <4> QED BY <1>1, <2>1, <3>0, <4>1 DEF Jobs
    <3>3. Obeys(job[c])'
      <4>1. Cardinality(Present') = w /\ Surplus' = Surplus
        BY <2>4 DEF Present, Surplus, w
      <4>2. LET k == job'[c] IN
            /\ k.was > TargetTriples => (IF k.n < k.was THEN k.was - k.n ELSE 0) = TargetTriples
            /\ k.was <= TargetTriples =>
                 LET left == IF k.n < k.was THEN k.was - k.n ELSE 0
                 IN  /\ k.was - left > 0 => 2 * (k.was - left) <= Surplus'
                     /\ left > 0 => 2 * (k.was - left) + 1 >= Surplus'
        BY <2>3, <3>1, <4>1 DEF Meets
      <4> QED BY <3>1, <4>1, <4>2 DEF Obeys, Meets
    <3>4. Reached(c)
      <4>1. <<Select>> # <<>>
        OBVIOUS
      <4> QED BY <3>1, <4>1 DEF Reached
    <3> QED BY <3>3, <3>4
  <2> QED BY <2>6, <2>7
<1> QED BY <1>2, <1>3

LEMMA EnforceSelects ==
  ASSUME IInv, NEW c \in Caller, job[c].plan = <<Select>>, job[c].was = Cardinality(Present),
         Meets(job[c].was, IF job[c].n < job[c].was THEN job[c].was - job[c].n ELSE 0), Serve(c)
  PROVE  Obeys(job[c])' /\ Reached(c)
<1>0. job[c] \in Jobs /\ job \in [Caller -> Jobs] /\ job[c].n \in Nat
  BY DEF IInv, TypeOK, Jobs
<1>1. CallSelect(c)
  <2>1. Head(job[c].plan) = Select
    OBVIOUS
  <2> QED BY <2>1, Serves
<1> DEFINE all == Cardinality(Present)
           k == IF job[c].n < all THEN job[c].n ELSE all
<1>2. all \in Nat /\ k \in Nat /\ Meets(all, all - k) /\ job[c].was = all
  <2>1. all \in Nat
    BY PresentFinite
  <2>2. all - k = IF job[c].n < job[c].was THEN job[c].was - job[c].n ELSE 0
    BY <1>0, <2>1
  <2> QED BY <1>0, <2>1, <2>2
<1>3. PICK f \in Lightest(k) :
        job' = [job EXCEPT ![c] = [Idle EXCEPT !.plan = Deletes(f), !.was = job[c].was]]
  BY <1>1 DEF CallSelect
<1>4. triples' = triples /\ nodes' = nodes
  BY <1>1 DEF CallSelect, store
<1> HIDE DEF k
<1>5. f \in [1..k -> Present] /\ f \in Seq(Triple) /\ Len(f) = k /\ DOMAIN f = 1..k
  BY <1>2, <1>3 DEF Lightest, Present
<1>6. Left(f, all)
  <2>2. \A i, j \in 1..k : i < j => f[i] # f[j]
    BY <1>3 DEF Lightest
  <2>3. \A i, j \in DOMAIN f : i # j => f[i] # f[j]
    <3>1. \A i, j \in 1..k : i # j => i < j \/ j < i
      BY <1>2
    <3> QED BY <1>5, <2>2, <3>1
  <2>4. \A i \in DOMAIN f, u \in Present : (\A j \in DOMAIN f : f[j] # u) => triples[f[i]] <= triples[u]
    BY <1>3, <1>5 DEF Lightest
  <2> QED BY <1>2, <1>5, <2>3, <2>4 DEF Left
<1>7. Left(f, all)'
  <2>1. Present' = Present /\ Surplus' = Surplus
    BY <1>4 DEF Present, Surplus
  <2> HIDE DEF all
  <2>2. Meets(all, Cardinality(Present) - Len(f))'
    BY <1>6, <2>1, <1>4 DEF Left, Meets, all, Present
  <2> QED BY <1>4, <1>6, <2>1, <2>2 DEF Left, all, Present
<1>8. job'[c].plan = Deletes(f) /\ job'[c].was = all
  <2>1. job'[c] = [Idle EXCEPT !.plan = Deletes(f), !.was = job[c].was]
    BY <1>0, <1>3
  <2> QED BY <1>2, <2>1 DEF Idle
<1>9. Obeys(job[c])'
  <2>1. all' = all
    BY <1>4 DEF Present
  <2> HIDE DEF all
  <2> QED BY <1>7, <1>8, <2>1 DEF Obeys
<1>10. Reached(c)
  <2> SUFFICES ASSUME job'[c].plan = <<>> PROVE Meets(job[c].was, Cardinality(Present)')
    BY DEF Reached
  <2>1. Len(f) = 0
    BY <1>5, <1>8, NoneToDelete
  <2>2. k = 0 /\ Cardinality(Present)' = all
    BY <1>4, <1>5, <2>1 DEF Present
  <2> QED BY <1>2, <2>2
<1> QED BY <1>9, <1>10

LEMMA EnforceErases ==
  ASSUME IInv, NEW c \in Caller, NEW f, Left(f, job[c].was), job[c].plan = Deletes(f), Serve(c)
  PROVE  Obeys(job[c])' /\ Reached(c) /\ f # <<>> /\ Arg(c) = f[1]
<1> DEFINE w == job[c].was
<1>0. f \in Seq(Triple) /\ Cardinality(Present) \in Nat
  BY PresentFinite DEF Left
<1>1. f # <<>>
  <2>1. job[c].plan # <<>>
    BY Serves
  <2>2. Len(Deletes(f)) = 2 * Len(f) /\ Deletes(f) \in Seq(Calls)
    BY <1>0, DeletesAt
  <2>3. f = <<>> => Deletes(f) = <<>>
    BY <2>2
  <2> QED BY <2>1, <2>3
<1> DEFINE g == Tail(f)
           t == f[1]
<1>2. /\ Head(job[c].plan) = Call("erase", t) /\ g \in Seq(Triple)
      /\ Tail(job[c].plan) = <<Call("unlink", t)>> \o Deletes(g)
  BY <1>0, <1>1, DeletesNext
<1>3. CallErase(c) /\ Arg(c) = t
  BY <1>2, Serves DEF Arg, Call
<1>4. /\ job'[c].plan = <<Call("unlink", t)>> \o Deletes(g) /\ triples' = [triples EXCEPT ![t] = Absent]
      /\ nodes' = nodes /\ job'[c].was = w
  BY <1>2, <1>3, GoesOn DEF CallErase, RemoveTriple
<1>5. /\ Len(f) \in Nat /\ Len(f) > 0 /\ Len(g) = Len(f) - 1 /\ 1 \in DOMAIN f
      /\ \A i \in DOMAIN g : i + 1 \in DOMAIN f /\ i + 1 # 1 /\ g[i] = f[i + 1]
      /\ \A i \in DOMAIN f : i = 1 \/ (i - 1 \in DOMAIN g /\ g[i - 1] = f[i])
  BY <1>0, <1>1
<1> HIDE DEF g, t, w
<1>w. Left(f, w)
  BY DEF w
<1>6. t = f[1] /\ t \in Present /\ triples \in [Triple -> Stored]
  BY <1>5, <1>w DEF t, Left, IInv, TypeOK, StoreTypeOK
<1>7. Present' = Present \ {t} /\ \A u \in Present' : triples'[u] = triples[u]
  BY <1>4, <1>6 DEF Present
<1>8. Left(g, w)'
  <2>1. \A i, j \in DOMAIN g : i # j => g[i] # g[j]
    <3> SUFFICES ASSUME NEW i \in DOMAIN g, NEW j \in DOMAIN g, i # j PROVE g[i] # g[j]
      OBVIOUS
    <3>1. i + 1 # j + 1
      BY <1>2
    <3> QED BY <1>5, <1>w, <3>1 DEF Left
  <2>2. ASSUME NEW i \in DOMAIN g PROVE g[i] \in Present'
    <3>1. i + 1 \in DOMAIN f /\ i + 1 # 1 /\ g[i] = f[i + 1] /\ 1 \in DOMAIN f
      BY <1>5
    <3>2. f[i + 1] # f[1] /\ f[i + 1] \in Present
      BY <3>1, <1>w DEF Left
    <3> QED BY <1>6, <1>7, <3>1, <3>2
  <2>3. ASSUME NEW i \in DOMAIN g, NEW u \in Present', \A k \in DOMAIN g : g[k] # u
        PROVE  triples'[g[i]] <= triples'[u]
    <3>1. \A k \in DOMAIN f : f[k] # u
      BY <2>3, <1>5, <1>6, <1>7
    <3>2. triples[f[i + 1]] <= triples[u]
      BY <3>1, <1>5, <1>7, <1>w DEF Left
    <3> QED BY <3>2, <2>2, <1>5, <1>7
  <2>4. Meets(w, Cardinality(Present) - Len(g))'
    <3>1. IsFiniteSet(Present)
      BY StoreAssumption, FS_Subset DEF Present
    <3>2. Cardinality(Present') = Cardinality(Present) - 1
      BY <3>1, <1>6, <1>7, FS_RemoveElement
    <3>3. Cardinality(Present') - Len(g) = Cardinality(Present) - Len(f)
      BY <1>0, <1>5, <3>2
    <3>4. Meets(w, Cardinality(Present) - Len(f))
      BY <1>w DEF Left
    <3>5. Surplus' = Surplus /\ w' = w
      BY <1>4 DEF Surplus, w
    <3> QED BY <3>3, <3>4, <3>5 DEF Meets
  <2>5. g' = g /\ w' = w
    BY <1>4 DEF g, w
  <2> QED BY <1>2, <2>1, <2>2, <2>3, <2>4, <2>5 DEF Left
<1>9. t \notin Present'
  BY <1>7
<1>10. Obeys(job[c])'
  <2>1. Left(g, job[c].was)'
    <3>1. g' = g /\ w' = w
      BY <1>4 DEF g, w
    <3> QED BY <1>4, <1>8, <3>1 DEF Left, Meets
  <2>2. \E h, s : Left(h, job[c].was)' /\ s \notin Present' /\ job'[c].plan = <<Call("unlink", s)>> \o Deletes(h)
    BY <1>4, <1>9, <2>1
  <2> QED BY <2>2 DEF Obeys
<1>11. Reached(c)
  <2>1. Deletes(g) \in Seq(Calls)
    BY <1>2, DeletesAt
  <2>2. job'[c].plan # <<>>
    BY <1>4, <2>1
  <2> QED BY <2>2 DEF Reached
<1> QED BY <1>1, <1>3, <1>10, <1>11 DEF t

LEMMA EnforceServes ==
  ASSUME IInv, NEW c \in Caller, Obeys(job[c]), Serve(c)
  PROVE  Obeys(job[c])' /\ Reached(c)
<1>0. job[c] \in Jobs /\ job \in [Caller -> Jobs] /\ job[c].plan \in Seq(Calls) /\ job[c].plan # <<>>
  BY Serves DEF IInv, TypeOK, Jobs
<1>1. CASE KeepsLinks(job[c].plan)
  <2>1. 1 \in DOMAIN job[c].plan /\ Head(job[c].plan) = job[c].plan[1]
    BY <1>0
  <2>2. Head(job[c].plan).do \notin Enforcement
    BY <1>1, <2>1 DEF KeepsLinks
  <2>3. ~Enforcing(c) /\ ~CallSelect(c)
    BY <2>2 DEF Enforcing, CallSelect, Doing, Enforcement
  <2>4. KeepsLinks(Tail(job[c].plan)) /\ KeepsLinks(<<>>)
    BY <1>0, <1>1 DEF KeepsLinks
  <2>5. KeepsLinks(job'[c].plan)
    BY <1>0, <2>3, <2>4, ServedGoes
  <2>6. Obeys(job[c])'
    BY <2>5 DEF Obeys, KeepsLinks
  <2> QED BY <2>3, <2>6 DEF Reached
<1>2. CASE job[c].plan = Cycle
  <2>1. /\ Head(job[c].plan) = Call("decay", None)
        /\ Tail(job[c].plan) = <<Call("evict", None), Count, Decide, Select>>
    BY <1>2 DEF Cycle, Count, Decide, Select
  <2>2. job'[c].plan = <<Call("evict", None), Count, Decide, Select>>
    BY <2>1, Serves, GoesOn DEF CallDecay
  <2>3. ~Enforcing(c)
    BY <2>1 DEF Enforcing, Doing, Call
  <2> QED BY <2>2, <2>3 DEF Obeys, Reached
<1>3. CASE job[c].plan = <<Call("evict", None), Count, Decide, Select>>
  <2>1. Head(job[c].plan) = Call("evict", None) /\ Tail(job[c].plan) = <<Count, Decide, Select>>
    BY <1>3
  <2>2. job'[c].plan = <<Count, Decide, Select>>
    BY <2>1, Serves, GoesOn DEF CallEvict
  <2>3. ~Enforcing(c)
    BY <2>1 DEF Enforcing, Doing, Call
  <2> QED BY <2>2, <2>3 DEF Obeys, Reached
<1>4. ASSUME NEW f, NEW t, Left(f, job[c].was), t \notin Present,
             job[c].plan = <<Call("unlink", t)>> \o Deletes(f)
      PROVE  Obeys(job[c])' /\ Reached(c)
  <2> DEFINE w == job[c].was
  <2>1. /\ Deletes(f) \in Seq(Calls) /\ Len(f) \in Nat /\ Len(Deletes(f)) = 2 * Len(f)
    BY <1>4, DeletesAt DEF Left
  <2>2. Head(job[c].plan) = Call("unlink", t) /\ Tail(job[c].plan) = Deletes(f)
    <3> DEFINE q == Deletes(f)
    <3>1. q \in Seq(Calls) /\ job[c].plan = <<Call("unlink", t)>> \o q
      BY <1>4, <2>1
    <3> HIDE DEF q
    <3>2. Head(job[c].plan) = Call("unlink", t) /\ Tail(job[c].plan) = q
      BY <3>1
    <3> QED BY <3>2 DEF q
  <2>3. job'[c].plan = Deletes(f) /\ triples' = triples /\ nodes' = nodes /\ job'[c].was = w
    BY <2>2, Serves, GoesOn DEF CallUnlink, RemoveLinks
  <2> HIDE DEF w
  <2>4. Left(f, w)
    BY <1>4 DEF w
  <2>5. Left(f, w)' /\ Present' = Present
    <3>1. Present' = Present /\ Surplus' = Surplus /\ w' = w
      BY <2>3 DEF Present, Surplus, w
    <3> QED BY <2>3, <2>4, <3>1 DEF Left, Meets
  <2>6. Obeys(job[c])'
    <3>1. Left(f, job[c].was)'
      BY <2>3, <2>4, <2>5 DEF Left, Meets, Surplus
    <3> QED BY <2>3, <3>1 DEF Obeys
  <2>7. Reached(c)
    <3> SUFFICES ASSUME job'[c].plan = <<>> PROVE Meets(w, Cardinality(Present)')
      BY DEF Reached, w
    <3>1. Len(f) = 0
      BY <1>4, <2>3, NoneToDelete DEF Left
    <3>2. Cardinality(Present) \in Nat
      BY PresentFinite
    <3>3. Cardinality(Present) - Len(f) = Cardinality(Present)'
      BY <2>5, <3>1, <3>2
    <3> QED BY <2>4, <3>3 DEF Left
  <2> QED BY <2>6, <2>7
<1> QED BY <1>1, <1>2, <1>3, <1>4, EnforceCounts, EnforceSelects, EnforceErases DEF Obeys

LEMMA EnforceStep ==
  ASSUME \A c, d \in Caller : c = d
  PROVE  IInv /\ EInv /\ [Next]_vars => EInv'
<1> SUFFICES ASSUME IInv, EInv, [Next]_vars PROVE EInv'
  OBVIOUS
<1>1. ASSUME NEW c \in Caller, Accept(c) PROVE Obeys(job[c])'
  <2>0. job \in [Caller -> Jobs]
    BY DEF IInv, TypeOK, Jobs
  <2>1. CASE RunLifecycleCycle(c)
    <3>1. job'[c].plan = Cycle
      BY <2>0, <2>1 DEF RunLifecycleCycle, Request, Idle
    <3> QED BY <3>1 DEF Obeys
  <2>2. CASE ~RunLifecycleCycle(c)
    <3>1. KeepsLinks(job'[c].plan)
      BY <1>1, <2>0, <2>2, AcceptedKeeps DEF Idle
    <3> QED BY <3>1 DEF Obeys, KeepsLinks
  <2> QED BY <2>1, <2>2
<1>2. ASSUME NEW c \in Caller, Serve(c) PROVE Obeys(job[c])'
  BY <1>2, EnforceServes DEF EInv
<1>3. CASE UNCHANGED vars
  <2>1. job' = job /\ triples' = triples /\ nodes' = nodes
    BY <1>3 DEF vars, store
  <2>2. Present' = Present /\ Surplus' = Surplus
    BY <2>1 DEF Present, Surplus
  <2>3. \A f, w : Left(f, w) => Left(f, w)'
    BY <2>1, <2>2 DEF Left, Meets
  <2>4. ASSUME NEW c \in Caller PROVE Obeys(job[c])'
    <3>1. Obeys(job[c])
      BY DEF EInv
    <3> QED BY <2>1, <2>2, <2>3, <3>1 DEF Obeys, Meets, KeepsLinks
  <2> QED BY <2>4 DEF EInv
<1> QED BY <1>1, <1>2, <1>3 DEF Next, EInv

LEMMA EnforceInv ==
  ASSUME \A c, d \in Caller : c = d
  PROVE  Spec => []EInv
<1>1. Init => EInv
  BY DEF Init, Idle, EInv, Obeys, KeepsLinks
<1> QED BY <1>1, EnforceStep, Inductive, PTL DEF Spec

(***************************************************************************)
(* By itself, a cycle that enforces the bounds deletes the least useful    *)
(* triples, for any number of triples and weights.                         *)
(***************************************************************************)
THEOREM HeaviestAreKept ==
  ASSUME \A c, d \in Caller : c = d
  PROVE  Spec => EnforceKeepsHeaviest
<1> DEFINE Keeps == \A c \in Caller, t, u \in Present :
                      /\ CallErase(c) /\ Arg(c) = t
                      /\ \A i \in DOMAIN job[c].plan : job[c].plan[i].arg # u
                      => triples[t] <= triples[u]
<1>1. IInv /\ EInv => [Keeps]_vars
  <2> SUFFICES ASSUME IInv, EInv, NEW c \in Caller, NEW t \in Present, NEW u \in Present, CallErase(c),
                      Arg(c) = t, \A i \in DOMAIN job[c].plan : job[c].plan[i].arg # u
               PROVE  triples[t] <= triples[u]
    OBVIOUS
  <2>1. /\ Head(job[c].plan).do = "erase" /\ job[c].plan # <<>> /\ Serve(c) /\ Obeys(job[c])
        /\ job[c].plan \in Seq(Calls)
    BY DEF CallErase, Makes, Doing, Serve, EInv, IInv, TypeOK
  <2>2. ~KeepsLinks(job[c].plan)
    <3>1. 1 \in DOMAIN job[c].plan /\ job[c].plan[1] = Head(job[c].plan)
      BY <2>1
    <3> QED BY <2>1, <3>1 DEF KeepsLinks, Enforcement
  <2>3. job[c].plan \notin {Cycle, <<Call("evict", None), Count, Decide, Select>>, <<Count, Decide, Select>>,
                            <<Decide, Select>>, <<Select>>}
    BY <2>1 DEF Cycle, Count, Decide, Select, Call
  <2>4. ASSUME NEW f, NEW s, Left(f, job[c].was), job[c].plan = <<Call("unlink", s)>> \o Deletes(f) PROVE FALSE
    <3>1. Deletes(f) \in Seq(Calls)
      BY <2>4, DeletesAt DEF Left
    <3>2. Head(job[c].plan) = Call("unlink", s)
      BY <2>4, <3>1
    <3> QED BY <2>1, <3>2 DEF Call
  <2>5. PICK f : Left(f, job[c].was) /\ job[c].plan = Deletes(f)
    BY <2>1, <2>2, <2>3, <2>4 DEF Obeys
  <2>6. f # <<>> /\ t = f[1] /\ f \in Seq(Triple)
    BY <2>1, <2>5, EnforceErases DEF Left
  <2>7. \A k \in DOMAIN f : f[k] # u
    BY <2>5, <2>6, DeletesNames
  <2>8. 1 \in DOMAIN f
    BY <2>6
  <2> QED BY <2>5, <2>6, <2>7, <2>8 DEF Left
<1>2. EnforceKeepsHeaviest <=> [][Keeps]_vars
  BY PTL DEF EnforceKeepsHeaviest
<1> HIDE DEF Keeps
<1> QED BY <1>1, <1>2, EnforceInv, Inductive, PTL

(***************************************************************************)
(* By itself, a cycle that enforces the bounds deletes as much as it       *)
(* should and no more, whatever the bounds and however much is stored:     *)
(* exactly the target stays of too many triples, one triple goes for every *)
(* two nodes too many, and nothing goes if there is no excess.             *)
(***************************************************************************)
THEOREM TargetIsReached ==
  ASSUME \A c, d \in Caller : c = d
  PROVE  Spec => EnforceReachesTarget
<1> DEFINE Reaches == \A c \in Caller :
         LET left == Cardinality(Present)'
             gone == job[c].was - left
             surplus == Cardinality(nodes) - TargetNodes
         IN Enforcing(c) /\ job'[c].plan = <<>> =>
             /\ job[c].was > TargetTriples => left = TargetTriples
             /\ job[c].was <= TargetTriples =>
                  /\ gone > 0 => 2 * gone <= surplus
                  /\ left > 0 => 2 * gone + 1 >= surplus
<1>1. IInv /\ EInv /\ [Next]_vars => [Reaches]_vars
  <2> SUFFICES ASSUME IInv, EInv, [Next]_vars, NEW c \in Caller,
                      Enforcing(c), job'[c].plan = <<>>
               PROVE  Meets(job[c].was, Cardinality(Present)') \/ UNCHANGED vars
    BY DEF Meets, Surplus
  <2>1. job[c].plan # <<>> /\ job \in [Caller -> Jobs]
    BY DEF Enforcing, Doing, IInv, TypeOK, Jobs
  <2>2. ASSUME NEW d \in Caller, Accept(d) PROVE FALSE
    <3>1. c = d
      OBVIOUS
    <3>2. job[d].plan = <<>>
      BY <2>2 DEF Accept, InsertTriples, RecordFeedback, SubmitFeedback, TripleSupersede, ShareRevoke,
         TensionResolve, TriggerDecay, TriggerEvict, RunLifecycleCycle, Request
    <3> QED BY <2>1, <3>1, <3>2
  <2>3. ASSUME NEW d \in Caller, Serve(d) PROVE Meets(job[c].was, Cardinality(Present)')
    <3>1. c = d
      OBVIOUS
    <3>2. Reached(c)
      BY <2>3, <3>1, EnforceServes DEF EInv
    <3> QED BY <3>2 DEF Reached
  <2> QED BY <2>2, <2>3 DEF Next
<1>2. EnforceReachesTarget <=> [][Reaches]_vars
  BY PTL DEF EnforceReachesTarget
<1> HIDE DEF Reaches
<1> QED BY <1>1, <1>2, EnforceInv, Inductive, PTL DEF Spec
=============================================================================
