------------------------------ MODULE SledProofs ------------------------------
(***************************************************************************)
(* Proofs about SledStore, about what SledRecovery's crashes leave of it,  *)
(* and that it implements TripleStore for a caller that is alone and for   *)
(* any callers that take nothing away: for any numbers of clients, triples *)
(* and sources and any weights.                                            *)
(***************************************************************************)
EXTENDS SledImplements, SledRecovery, TLAPS

USE SledAssumption

(* A client's local state is well typed and legal for its program point. *)
JobOK(j) ==
    /\ j \in Job
    /\ j.op \in Ops \cup {None} /\ Legal(j.op, j.at)
    /\ j.at \notin {"idle", "scan", "apply", "next", "link"} => j.id \in Triple
    /\ j.at = "link" => j.src \in Source
    /\ j.op = "update" => j.val \in Weight

TypeInv == TypeOK /\ JobsLegal

LEMMA IdleOK == JobOK(Idle)
  BY DEF JobOK, Legal, Idle, Job, At, Tree, SPO, None, NoBatch, Stored, AllOps

(* An action that gives one client a legal local state keeps all legal. *)
LEMMA JobStep ==
  ASSUME TypeInv, NEW c \in Client, NEW j, JobOK(j), job' = [job EXCEPT ![c] = j]
  PROVE  job' \in [Client -> Job] /\ JobsLegal'
  BY DEF TypeInv, TypeOK, JobsLegal, JobOK

LEMMA JobHas ==
  ASSUME TypeInv, NEW c \in Client
  PROVE  JobOK(job[c])
  BY DEF TypeInv, TypeOK, JobsLegal, JobOK

LEMMA TypeStep == TypeInv /\ [Next]_vars => TypeInv'
<1> SUFFICES ASSUME TypeInv, [Next]_vars PROVE TypeInv'
  OBVIOUS
<1>1. CASE UNCHANGED vars
  BY <1>1 DEF vars, TypeInv, TypeOK, JobsLegal
<1>2. ASSUME NEW c \in Client, Step(c) PROVE TypeInv'
  <2> DEFINE j == job[c]
  <2>j. JobOK(j)
    BY JobHas
  <2>1. ASSUME NEW t \in Triple, NEW w \in Weight, InsertTriple(c, t, w) PROVE TypeInv'
    <3>1. JobOK([Idle EXCEPT !.op = "insert", !.at = "index", !.id = t])
      BY IdleOK, <2>1 DEF JobOK, Legal, Job, At, AllOps, InsertTriple, Start
    <3> QED BY <2>1, <3>1, JobStep DEF InsertTriple, TypeInv, TypeOK, Stored
  <2>2. ASSUME NEW t \in Triple, NEW w \in Weight, UpdateTriple(c, t, w) PROVE TypeInv'
    <3>1. JobOK([Idle EXCEPT !.op = "update", !.id = t, !.val = w,
               !.at = IF t \in Present THEN "unindex" ELSE "write"])
      <4>1. "update" \in Ops
        BY <2>2 DEF UpdateTriple, Start
      <4>2. ASSUME NEW a \in {"unindex", "write"}
            PROVE  JobOK([Idle EXCEPT !.op = "update", !.id = t, !.val = w, !.at = a])
        BY IdleOK, <4>1 DEF JobOK, Legal, Job, At, AllOps, Stored
      <4> QED BY <4>2
    <3> QED BY <2>2, <3>1, JobStep DEF UpdateTriple, TypeInv, TypeOK, trees
  <2>3. ASSUME NEW t \in Triple, TouchTriple(c, t) PROVE TypeInv'
    <3>1. JobOK([Idle EXCEPT !.op = "touch", !.at = "rewrite", !.id = t])
      BY IdleOK, <2>3 DEF JobOK, Legal, Job, At, AllOps, TouchTriple, Start
    <3> QED BY <2>3, <3>1, JobStep DEF TouchTriple, TypeInv, TypeOK, trees
  <2>4. ASSUME NEW t \in Triple, DeleteTriple(c, t) PROVE TypeInv'
    <3>1. JobOK([Idle EXCEPT !.op = "delete", !.at = "unindex", !.id = t])
      BY IdleOK, <2>4 DEF JobOK, Legal, Job, At, AllOps, DeleteTriple, Start
    <3> QED BY <2>4, <3>1, JobStep DEF DeleteTriple, TypeInv, TypeOK, trees
  <2>5. CASE InsertIndex(c)
    <3>1. JobOK(IF j.k = OSP THEN Idle ELSE [j EXCEPT !.k = @ + 1])
      BY <2>j, IdleOK DEF JobOK, Job, Tree, OSP
    <3>2. j.k \in Tree /\ j.id \in Triple
      BY <2>j, <2>5 DEF JobOK, Job, InsertIndex
    <3>3. index' \in [Tree -> SUBSET Triple]
      BY <2>5, <3>2 DEF InsertIndex, TypeInv, TypeOK
    <3> QED BY <2>5, <3>1, <3>3, JobStep DEF InsertIndex, TypeInv, TypeOK
  <2>6. CASE RemoveIndex(c)
    <3> DEFINE after == IF j.op = "update" THEN "write" ELSE "erase"
    <3>1. JobOK(IF j.k = OSP THEN [j EXCEPT !.at = after]
                             ELSE [j EXCEPT !.k = @ + 1])
      <4>1. j.k # OSP => JobOK([j EXCEPT !.k = @ + 1])
        BY <2>j DEF JobOK, Job, Tree, OSP
      <4>2. Legal(j.op, after) /\ after \in At /\ after \in {"write", "erase"}
        BY <2>j, <2>6 DEF JobOK, Legal, At, RemoveIndex
      <4>3. j.id \in Triple
        BY <2>j, <2>6 DEF JobOK, RemoveIndex
      <4>4. ASSUME NEW a \in {"write", "erase"}, Legal(j.op, a)
            PROVE  JobOK([j EXCEPT !.at = a])
        <5> DEFINE i == [j EXCEPT !.at = a]
        <5>a. j \in Job /\ a \in At
          BY <2>j DEF JobOK, At
        <5>1. i \in Job
          BY <5>a DEF Job
        <5>2. i.op = j.op
          BY <5>a DEF Job
        <5>3. i.at = a
          BY <5>a DEF Job
        <5>4. i.id = j.id
          BY <5>a DEF Job
        <5> QED BY <2>j, <4>3, <4>4, <5>1, <5>2, <5>3, <5>4 DEF JobOK
      <4> QED BY <4>1, <4>2, <4>4
    <3>2. j.k \in Tree
      BY <2>j DEF JobOK, Job
    <3>3. index' \in [Tree -> SUBSET Triple]
      BY <2>6, <3>2 DEF RemoveIndex, TypeInv, TypeOK
    <3> QED BY <2>6, <3>1, <3>3, JobStep DEF RemoveIndex, TypeInv, TypeOK
  <2>7. CASE WriteUpdated(c)
    <3>1. JobOK([j EXCEPT !.at = "index", !.k = SPO])
      <4>1. j \in Job /\ "index" \in At /\ SPO \in Tree
        BY <2>j DEF JobOK, At, Tree, SPO
      <4>2. j.op = "update" /\ j.at = "write"
        BY <2>j, <2>7 DEF JobOK, Legal, WriteUpdated
      <4>3. [j EXCEPT !.at = "index", !.k = SPO] \in Job
        BY <4>1 DEF Job
      <4> QED BY <2>j, <4>1, <4>2, <4>3 DEF JobOK, Legal, Job
    <3>2. triples' \in [Triple -> Stored]
      BY <2>7, <2>j DEF JobOK, Job, WriteUpdated, TypeInv, TypeOK
    <3> QED BY <2>7, <3>1, <3>2, JobStep DEF WriteUpdated, TypeInv, TypeOK
  <2>8. CASE WriteTouched(c)
    <3>1. Full \in Stored
      BY DEF Stored, Weight
    <3> QED BY <2>8, <3>1, IdleOK, JobStep DEF WriteTouched, TypeInv, TypeOK
  <2>9. CASE EraseTriple(c)
    <3>1. JobOK([j EXCEPT !.at = "collect"])
      BY <2>j, <2>9 DEF JobOK, Job, At, Legal, EraseTriple
    <3> QED BY <2>9, <3>1, JobStep DEF EraseTriple, TypeInv, TypeOK, Stored
  <2>10. ASSUME j.at \in {"collect", "unlink"} PROVE JobOK(AfterRemoval(j))
    <3>1. JobOK([j EXCEPT !.at = "next", !.id = None, !.keys = {}])
      BY <2>10, <2>j DEF JobOK, Job, At, Legal, None
    <3> QED BY <3>1, IdleOK DEF AfterRemoval
  <2>11. CASE CollectSources(c)
    <3>1. JobOK(IF SourcesOf(j.id) = {} THEN AfterRemoval(j)
                ELSE [j EXCEPT !.at = "unlink", !.keys = SourcesOf(j.id)])
      <4>1. JobOK(AfterRemoval(j))
        BY <2>10, <2>11 DEF CollectSources
      <4>2. JobOK([j EXCEPT !.at = "unlink", !.keys = SourcesOf(j.id)])
        BY <2>j, <2>11 DEF JobOK, Job, At, Legal, CollectSources, SourcesOf
      <4> QED BY <4>1, <4>2
    <3> QED BY <2>11, <3>1, JobStep DEF CollectSources, TypeInv, TypeOK, trees
  <2>12. CASE UnlinkSource(c)
    <3> PICK s \in j.keys :
            /\ junction' = junction \ {<<j.id, s>>}
            /\ job' = [job EXCEPT ![c] = IF j.keys = {s} THEN AfterRemoval(j)
                                         ELSE [j EXCEPT !.keys = @ \ {s}]]
      BY <2>12 DEF UnlinkSource
    <3>1. JobOK(IF j.keys = {s} THEN AfterRemoval(j) ELSE [j EXCEPT !.keys = @ \ {s}])
      <4>1. JobOK([j EXCEPT !.keys = @ \ {s}])
        BY <2>j DEF JobOK, Job
      <4>2. JobOK(AfterRemoval(j))
        BY <2>10, <2>12 DEF UnlinkSource
      <4> QED BY <4>1, <4>2
    <3> QED BY <2>12, <3>1, JobStep DEF UnlinkSource, TypeInv, TypeOK
  <2>13. ASSUME NEW s \in Source, NEW ts \in SUBSET Triple, InsertSource(c, s, ts)
         PROVE  TypeInv'
    <3>1. JobOK([Idle EXCEPT !.op = "source", !.at = "link", !.todo = ts, !.src = s])
      BY IdleOK, <2>13 DEF JobOK, Legal, Job, At, AllOps, InsertSource, Start
    <3> QED BY <2>13, <3>1, JobStep DEF InsertSource, TypeInv, TypeOK
  <2>14. CASE LinkSource(c)
    <3> PICK t \in j.todo :
            /\ junction' = junction \cup {<<t, j.src>>}
            /\ job' = [job EXCEPT ![c] = IF j.todo = {t} THEN Idle
                                         ELSE [j EXCEPT !.todo = @ \ {t}]]
      BY <2>14 DEF LinkSource
    <3>1. JobOK(IF j.todo = {t} THEN Idle ELSE [j EXCEPT !.todo = @ \ {t}])
      BY <2>j, IdleOK DEF JobOK, Job
    <3>2. <<t, j.src>> \in Triple \X Source
      BY <2>j, <2>14 DEF JobOK, Job, LinkSource
    <3> QED BY <2>14, <3>1, <3>2, JobStep DEF LinkSource, TypeInv, TypeOK
  <2>15. ASSUME NEW op \in AllOps, Sweep(c, op) PROVE TypeInv'
    <3>1. JobOK([Idle EXCEPT !.op = op, !.at = "scan", !.scan = Triple])
      <4>1. op \in {"decay", "evict"} /\ op \in Ops
        BY <2>15 DEF Sweep, Start
      <4>2. Idle \in Job /\ "scan" \in At
        BY IdleOK DEF JobOK, At
      <4> QED BY <4>1, <4>2 DEF JobOK, Legal, Job
    <3> QED BY <2>15, <3>1, JobStep DEF Sweep, TypeInv, TypeOK, trees
  <2>16. ASSUME NEW t \in Triple, DecayVisit(c, t) PROVE TypeInv'
    <3> DEFINE batch == IF t \in Present
                        THEN [j.batch EXCEPT ![t] = Decayed(triples[t])] ELSE j.batch
    <3>1. t \in Present => Decayed(triples[t]) \in Stored
      BY DEF TypeInv, TypeOK, Present, Stored, Weight, Decayed
    <3>2. batch \in [Triple -> Stored]
      BY <2>j, <3>1 DEF JobOK, Job
    <3>3. JobOK([j EXCEPT !.scan = @ \ {t}, !.batch = batch,
                          !.at = IF j.scan = {t} THEN "apply" ELSE "scan"])
      BY <2>j, <2>16, <3>2 DEF JobOK, Job, At, Legal, DecayVisit
    <3> QED BY <2>16, <3>3, JobStep DEF DecayVisit, TypeInv, TypeOK, trees
  <2>17. CASE ApplyDecay(c)
    <3>1. triples' \in [Triple -> Stored]
      BY <2>j, <2>17 DEF JobOK, Job, ApplyDecay, TypeInv, TypeOK
    <3> QED BY <2>17, <3>1, IdleOK, JobStep DEF ApplyDecay, TypeInv, TypeOK
  <2>18. ASSUME NEW t \in Triple, EvictVisit(c, t) PROVE TypeInv'
    <3> DEFINE todo == IF t \in Present /\ triples[t] < Threshold
                       THEN j.todo \cup {t} ELSE j.todo
    <3>1. JobOK([j EXCEPT !.scan = @ \ {t}, !.todo = todo])
      BY <2>j DEF JobOK, Job
    <3>2. JobOK([[j EXCEPT !.scan = {}, !.todo = todo]
                   EXCEPT !.at = "next", !.id = None, !.keys = {}])
      BY <2>j, <2>18 DEF JobOK, Job, At, Legal, EvictVisit, None
    <3>3. JobOK(AfterRemoval([j EXCEPT !.scan = {}, !.todo = todo]))
      BY <3>2, IdleOK DEF AfterRemoval
    <3> QED BY <2>18, <3>1, <3>3, JobStep DEF EvictVisit, TypeInv, TypeOK, trees
  <2>19. CASE NextVictim(c)
    <3> PICK t \in j.todo :
          job' = [job EXCEPT ![c] = [j EXCEPT !.at = "unindex", !.id = t, !.k = SPO, !.todo = @ \ {t}]]
      BY <2>19 DEF NextVictim
    <3>1. JobOK([j EXCEPT !.at = "unindex", !.id = t, !.k = SPO, !.todo = @ \ {t}])
      <4>1. j \in Job /\ "unindex" \in At /\ SPO \in Tree /\ t \in Triple
        BY <2>j DEF JobOK, Job, At, Tree, SPO
      <4>2. j.op \in {"delete", "evict"} /\ j.op \in Ops \cup {None}
        BY <2>j, <2>19 DEF JobOK, Legal, NextVictim
      <4>3. [j EXCEPT !.at = "unindex", !.id = t, !.k = SPO, !.todo = @ \ {t}] \in Job
        BY <4>1 DEF Job
      <4> QED BY <2>j, <4>1, <4>2, <4>3 DEF JobOK, Legal, Job
    <3> QED BY <2>19, <3>1, JobStep DEF NextVictim, TypeInv, TypeOK, trees
  <2> QED BY <1>2, <2>1, <2>2, <2>3, <2>4, <2>5, <2>6, <2>7, <2>8, <2>9, <2>11, <2>12,
             <2>13, <2>14, <2>15, <2>16, <2>17, <2>18, <2>19 DEF Step
<1> QED BY <1>1, <1>2 DEF Next

LEMMA TypeInit == Init => TypeInv
  BY IdleOK DEF Init, TypeInv, TypeOK, JobsLegal, JobOK, Stored, Tree

LEMMA TypeInvariant == Spec => []TypeInv
  BY TypeInit, TypeStep, PTL DEF Spec

(* Every state has the declared types. *)
THEOREM TypeCorrect == Spec => []TypeOK
  BY TypeInvariant, PTL DEF TypeInv

-----------------------------------------------------------------------------
(* A triple stays accounted for in a step of client c if, should a record  *)
(* be stored afterwards, its entries are there, or c will still settle     *)
(* them, or c did not have to and took nothing away.                       *)
LEMMA AccountedKept ==
  ASSUME TypeInv, NEW c \in Client, NEW j, job' = [job EXCEPT ![c] = j],
         NEW t \in Triple, AccountedAt(t),
         \A x \in Tree : triples'[t] # Absent =>
            \/ t \in index'[x]
            \/ WillSettle(c, t, x)'
            \/ /\ triples[t] # Absent
               /\ t \in index[x] => t \in index'[x]
               /\ ~WillSettle(c, t, x)
  PROVE  AccountedAt(t)'
<1> SUFFICES ASSUME NEW x \in Tree, triples'[t] # Absent
             PROVE  t \in index'[x] \/ \E d \in Client : WillSettle(d, t, x)'
  BY DEF AccountedAt
<1>1. ASSUME NEW d \in Client, d # c, WillSettle(d, t, x) PROVE WillSettle(d, t, x)'
  BY <1>1 DEF WillSettle, TypeInv, TypeOK
<1>2. CASE t \in index'[x] \/ WillSettle(c, t, x)'
  BY <1>2
<1>3. CASE /\ triples[t] # Absent
           /\ t \in index[x] => t \in index'[x]
           /\ ~WillSettle(c, t, x)
  <2>1. t \in index[x] \/ \E d \in Client : WillSettle(d, t, x)
    BY <1>3 DEF AccountedAt
  <2> QED BY <1>1, <1>3, <2>1
<1> QED BY <1>2, <1>3

(* No step but EraseTriple takes a record away. *)
LEMMA PresenceKept ==
  ASSUME TypeInv, NEW c \in Client, Step(c), ~EraseTriple(c), NEW t \in Triple,
         triples[t] # Absent
  PROVE  triples'[t] # Absent
<1> DEFINE j == job[c]
<1>0. JobOK(j) /\ triples \in [Triple -> Stored] /\ \A w \in Weight : w # Absent
  BY JobHas DEF TypeInv, TypeOK, Weight
<1>1. ASSUME NEW u \in Triple, NEW w \in Weight, InsertTriple(c, u, w)
      PROVE  triples'[t] # Absent
  BY <1>0, <1>1 DEF InsertTriple
<1>2. CASE WriteUpdated(c)
  <2>1. j.val \in Weight
    BY <1>0, <1>2 DEF JobOK, Legal, WriteUpdated
  <2> QED BY <1>0, <1>2, <2>1 DEF WriteUpdated
<1>3. CASE WriteTouched(c)
  BY <1>0, <1>3 DEF WriteTouched, Weight
<1>4. CASE ApplyDecay(c)
  BY <1>0, <1>4 DEF ApplyDecay
<1> QED BY <1>1, <1>2, <1>3, <1>4 DEF Step, UpdateTriple, TouchTriple, DeleteTriple,
        InsertIndex, RemoveIndex, CollectSources, UnlinkSource, InsertSource, LinkSource,
        Sweep, DecayVisit, EvictVisit, NextVictim, trees

(* What a step makes of the copies of its client: a touch starts from a    *)
(* stored record, and decay's batch grows by stored records only.          *)
LEMMA CopiesTaken ==
  ASSUME TypeInv, NEW c \in Client, Step(c), NEW t \in Triple
  PROVE  /\ job'[c].at = "rewrite" => job'[c].id \in Present
         /\ job'[c].batch[t] # Absent => job[c].batch[t] # Absent \/ t \in Present
<1> DEFINE j == job[c]
<1> DEFINE P(i) == /\ i.at = "rewrite" => i.id \in Present
                   /\ i.batch[t] # Absent => j.batch[t] # Absent \/ t \in Present
<1>0. JobOK(j) /\ j \in Job /\ job \in [Client -> Job]
  BY JobHas DEF TypeInv, TypeOK, JobOK
<1>i. Idle.at = "idle" /\ Idle.batch[t] = Absent
  BY DEF Idle, NoBatch
<1>a. ASSUME j.at # "rewrite" PROVE P(AfterRemoval(j))
  BY <1>i, <1>0, <1>a DEF AfterRemoval, Job
<1> SUFFICES P(job'[c])
  OBVIOUS
<1>1. ASSUME NEW u \in Triple, NEW w \in Weight, InsertTriple(c, u, w) PROVE P(job'[c])
  BY <1>0, <1>1 DEF InsertTriple, Idle, NoBatch
<1>2. ASSUME NEW u \in Triple, NEW w \in Weight, UpdateTriple(c, u, w) PROVE P(job'[c])
  BY <1>0, <1>2 DEF UpdateTriple, Idle, NoBatch
<1>3. ASSUME NEW u \in Triple, TouchTriple(c, u) PROVE P(job'[c])
  BY <1>0, <1>3 DEF TouchTriple, Idle, NoBatch
<1>4. ASSUME NEW u \in Triple, DeleteTriple(c, u) PROVE P(job'[c])
  BY <1>0, <1>4 DEF DeleteTriple, Idle, NoBatch
<1>5. ASSUME NEW s \in Source, NEW ts \in SUBSET Triple, InsertSource(c, s, ts) PROVE P(job'[c])
  BY <1>0, <1>5 DEF InsertSource, Idle, NoBatch
<1>6. ASSUME NEW op \in AllOps, Sweep(c, op) PROVE P(job'[c])
  BY <1>0, <1>6 DEF Sweep, Idle, NoBatch
<1>7. CASE InsertIndex(c)
  BY <1>0, <1>i, <1>7 DEF InsertIndex, Job
<1>8. CASE RemoveIndex(c)
  BY <1>0, <1>8 DEF RemoveIndex, Job
<1>9. CASE WriteUpdated(c)
  BY <1>0, <1>9 DEF WriteUpdated, Job
<1>10. CASE WriteTouched(c)
  BY <1>0, <1>i, <1>10 DEF WriteTouched
<1>11. CASE EraseTriple(c)
  BY <1>0, <1>11 DEF EraseTriple, Job
<1>12. CASE CollectSources(c)
  BY <1>0, <1>a, <1>12 DEF CollectSources, Job
<1>13. CASE UnlinkSource(c)
  BY <1>0, <1>a, <1>13 DEF UnlinkSource, Job
<1>14. CASE LinkSource(c)
  BY <1>0, <1>i, <1>14 DEF LinkSource, Job
<1>15. CASE ApplyDecay(c)
  BY <1>0, <1>i, <1>15 DEF ApplyDecay
<1>16. CASE NextVictim(c)
  BY <1>0, <1>16 DEF NextVictim, Job
<1>17. ASSUME NEW u \in Triple, DecayVisit(c, u) PROVE P(job'[c])
  BY <1>0, <1>17 DEF DecayVisit, Job
<1>18. ASSUME NEW u \in Triple, EvictVisit(c, u) PROVE P(job'[c])
  BY <1>0, <1>i, <1>18 DEF EvictVisit, Job, AfterRemoval
<1> QED BY <1>1, <1>2, <1>3, <1>4, <1>5, <1>6, <1>7, <1>8, <1>9, <1>10, <1>11, <1>12,
           <1>13, <1>14, <1>15, <1>16, <1>17, <1>18 DEF Step

LEMMA CopiesStep ==
  ASSUME TypeInv, CopiesLive, NEW c \in Client, Step(c)
  PROVE  CopiesLive'
<1> SUFFICES ASSUME Ops \cap {"delete", "evict"} = {}, NEW d \in Client
             PROVE  /\ job'[d].at = "rewrite" => triples'[job'[d].id] # Absent
                    /\ \A t \in Triple : job'[d].batch[t] # Absent => triples'[t] # Absent
  BY DEF CopiesLive
<1>1. ~EraseTriple(c)
  BY JobHas DEF EraseTriple, JobOK, Legal, None
<1>2. ASSUME NEW t \in Triple, triples[t] # Absent PROVE triples'[t] # Absent
  BY <1>1, <1>2, PresenceKept
<1>3. TypeInv'
  BY TypeStep DEF Next
<1>4. CASE d = c
  <2>1. job'[c].at = "rewrite" => triples'[job'[c].id] # Absent
    <3> SUFFICES ASSUME job'[c].at = "rewrite" PROVE triples'[job'[c].id] # Absent
      OBVIOUS
    <3>1. job'[c].id \in Triple
      BY <1>3 DEF TypeInv, JobsLegal
    <3>2. triples[job'[c].id] # Absent
      BY <3>1, CopiesTaken DEF Present
    <3> QED BY <3>1, <3>2, <1>2
  <2>2. ASSUME NEW t \in Triple, job'[c].batch[t] # Absent PROVE triples'[t] # Absent
    <3>1. triples[t] # Absent
      BY <2>2, CopiesTaken DEF Present, CopiesLive
    <3> QED BY <3>1, <1>2
  <2> QED BY <1>4, <2>1, <2>2
<1>5. CASE d # c
  <2>1. job'[d] = job[d]
    BY <1>5 DEF TypeInv, TypeOK, Step, InsertTriple, UpdateTriple, TouchTriple, DeleteTriple,
        InsertSource, Sweep, InsertIndex, RemoveIndex, WriteUpdated, WriteTouched, EraseTriple,
        CollectSources, UnlinkSource, LinkSource, ApplyDecay, NextVictim, DecayVisit, EvictVisit
  <2>2. job[d].at = "rewrite" => job[d].id \in Triple
    BY DEF TypeInv, JobsLegal
  <2> QED BY <1>2, <2>1, <2>2 DEF CopiesLive
<1> QED BY <1>4, <1>5

(* Steps that leave every record and every index entry alone, taken where  *)
(* nothing was to be settled, keep a triple accounted for.                 *)
LEMMA AccountedUntouched ==
  ASSUME TypeInv, NEW c \in Client, NEW j, job' = [job EXCEPT ![c] = j],
         UNCHANGED <<triples, index>>,
         job[c].at \notin {"index", "unindex", "write", "erase"},
         NEW u \in Triple, AccountedAt(u)
  PROVE  AccountedAt(u)'
<1>1. \A x \in Tree : ~WillSettle(c, u, x)
  BY DEF WillSettle
<1> QED BY <1>1, AccountedKept

(* A client that turns to the first index insertion accounts for its triple. *)
LEMMA RewriteAccounts ==
  ASSUME NEW c \in Client, NEW t \in Triple, job'[c].at = "index", job'[c].id = t,
         job'[c].k = SPO
  PROVE  AccountedAt(t)'
<1>1. \A x \in Tree : WillSettle(c, t, x)'
  BY DEF WillSettle, Tree, SPO
<1> QED BY <1>1 DEF AccountedAt

LEMMA InsertAccounts ==
  ASSUME TypeInv, NEW c \in Client, NEW t \in Triple, NEW w \in Weight,
         InsertTriple(c, t, w)
  PROVE  AccountedAt(t)'
<1>1. job'[c].at = "index" /\ job'[c].id = t /\ job'[c].k = SPO
  BY DEF InsertTriple, Idle, TypeInv, TypeOK
<1> QED BY <1>1, RewriteAccounts

LEMMA UpdateAccounts ==
  ASSUME TypeInv, NEW c \in Client, WriteUpdated(c), NEW t \in Triple,
         t = job[c].id
  PROVE  AccountedAt(t)'
<1>1. job[c] \in Job
  BY JobHas DEF JobOK
<1>2. job'[c].at = "index" /\ job'[c].id = t /\ job'[c].k = SPO
  BY <1>1 DEF WriteUpdated, TypeInv, TypeOK, Job
<1> QED BY <1>2, RewriteAccounts

(* The copies a client is about to write back are of records still stored. *)
CopiesOf(c) ==
    /\ job[c].at = "rewrite" => triples[job[c].id] # Absent
    /\ job[c].at = "apply" => \A t \in Triple : job[c].batch[t] # Absent => triples[t] # Absent

LEMMA SafeCopies == TypeInv /\ SafeMix /\ CopiesLive => \A c \in Client : CopiesOf(c)
<1> SUFFICES ASSUME TypeInv, SafeMix, CopiesLive, NEW c \in Client PROVE CopiesOf(c)
  OBVIOUS
<1>1. CASE job[c].at \in {"rewrite", "apply"}
  <2>1. Ops \cap {"delete", "evict"} = {}
    BY <1>1, JobHas DEF SafeMix, JobOK, Legal, None
  <2> QED BY <2>1 DEF CopiesLive, CopiesOf
<1>2. CASE job[c].at \notin {"rewrite", "apply"}
  BY <1>2 DEF CopiesOf
<1> QED BY <1>1, <1>2

LEMMA AccountedStep ==
  ASSUME TypeInv, NEW c \in Client, CopiesOf(c), Step(c),
         NEW u \in Triple, AccountedAt(u)
  PROVE  AccountedAt(u)'
<1> DEFINE j == job[c]
<1>0. JobOK(j) /\ j \in Job /\ job \in [Client -> Job] /\ j.k \in Tree
      /\ triples \in [Triple -> Stored] /\ index \in [Tree -> SUBSET Triple]
  BY JobHas DEF TypeInv, TypeOK, JobOK, Job
<1>i. ASSUME j.at \notin {"index", "unindex", "write", "erase"}
      PROVE  \A x \in Tree : ~WillSettle(c, u, x)
  BY <1>i DEF WillSettle
<1>1. ASSUME NEW t \in Triple, NEW w \in Weight, InsertTriple(c, t, w)
      PROVE  AccountedAt(u)'
  <2> DEFINE i == [Idle EXCEPT !.op = "insert", !.at = "index", !.id = t]
  <2>1. job' = [job EXCEPT ![c] = i] /\ UNCHANGED index
    BY <1>1 DEF InsertTriple
  <2>2. \A x \in Tree : ~WillSettle(c, u, x)
    BY <1>1, <1>i DEF InsertTriple, Start
  <2>3. CASE u # t
    <3>1. triples'[u] = triples[u]
      BY <1>0, <1>1, <2>3 DEF InsertTriple
    <3> HIDE DEF i
    <3> QED BY <2>1, <2>2, <3>1, AccountedKept
  <2> QED BY <1>1, <2>3, InsertAccounts
<1>2. ASSUME NEW t \in Triple, NEW w \in Weight, UpdateTriple(c, t, w)
      PROVE  AccountedAt(u)'
  BY <1>2, AccountedUntouched DEF UpdateTriple, Start, trees
<1>3. ASSUME NEW t \in Triple, TouchTriple(c, t) PROVE AccountedAt(u)'
  BY <1>3, AccountedUntouched DEF TouchTriple, Start, trees
<1>4. ASSUME NEW t \in Triple, DeleteTriple(c, t) PROVE AccountedAt(u)'
  BY <1>4, AccountedUntouched DEF DeleteTriple, Start, trees
<1>5. ASSUME NEW s \in Source, NEW ts \in SUBSET Triple, InsertSource(c, s, ts)
      PROVE  AccountedAt(u)'
  BY <1>5, AccountedUntouched DEF InsertSource, Start
<1>6. ASSUME NEW op \in AllOps, Sweep(c, op) PROVE AccountedAt(u)'
  BY <1>6, AccountedUntouched DEF Sweep, Start, trees
<1>7. ASSUME NEW t \in Triple, DecayVisit(c, t) PROVE AccountedAt(u)'
  BY <1>7, AccountedUntouched DEF DecayVisit, trees
<1>8. ASSUME NEW t \in Triple, EvictVisit(c, t) PROVE AccountedAt(u)'
  BY <1>8, AccountedUntouched DEF EvictVisit, trees
<1>9. CASE CollectSources(c)
  BY <1>9, AccountedUntouched DEF CollectSources, trees
<1>10. CASE UnlinkSource(c)
  BY <1>10, AccountedUntouched DEF UnlinkSource
<1>11. CASE LinkSource(c)
  BY <1>11, AccountedUntouched DEF LinkSource
<1>12. CASE NextVictim(c)
  BY <1>12, AccountedUntouched DEF NextVictim, trees
<1>13. CASE InsertIndex(c)
  <2> DEFINE i == IF j.k = OSP THEN Idle ELSE [j EXCEPT !.k = @ + 1]
  <2>1. job' = [job EXCEPT ![c] = i] /\ job'[c] = i /\ UNCHANGED triples
        /\ index' = [index EXCEPT ![j.k] = @ \cup {j.id}] /\ j.at = "index"
    BY <1>0, <1>13 DEF InsertIndex
  <2>2. \A x \in Tree : u \in index[x] => u \in index'[x]
    BY <1>0, <2>1
  <2>3. ASSUME NEW x \in Tree, WillSettle(c, u, x)
        PROVE  u \in index'[x] \/ WillSettle(c, u, x)'
    <3>1. u = j.id /\ j.k <= x
      BY <2>3, <2>1 DEF WillSettle
    <3>2. CASE x = j.k
      BY <1>0, <2>1, <3>1, <3>2
    <3>3. CASE x # j.k
      <4>1. j.k # OSP /\ j.k + 1 <= x
        BY <1>0, <3>1, <3>3 DEF Tree, OSP
      <4>2. i.id = j.id /\ i.at = j.at /\ i.k = j.k + 1
        BY <1>0, <4>1 DEF Job
      <4> QED BY <2>1, <3>1, <4>1, <4>2 DEF WillSettle
    <3> QED BY <3>2, <3>3
  <2> HIDE DEF i
  <2> QED BY <2>1, <2>2, <2>3, AccountedKept DEF AccountedAt
<1>14. CASE RemoveIndex(c)
  <2> DEFINE after == IF j.op = "update" THEN "write" ELSE "erase"
             i == IF j.k = OSP THEN [j EXCEPT !.at = after]
                               ELSE [j EXCEPT !.k = @ + 1]
  <2>1. job' = [job EXCEPT ![c] = i] /\ job'[c] = i /\ UNCHANGED triples
        /\ index' = [index EXCEPT ![j.k] = @ \ {j.id}] /\ j.at = "unindex"
    BY <1>0, <1>14 DEF RemoveIndex
  <2>2. i.id = j.id /\ (j.k = OSP => i.at \in {"write", "erase"})
        /\ (j.k # OSP => i.at = "unindex" /\ i.k = j.k + 1)
    BY <1>0, <2>1 DEF Job
  <2>3. ASSUME NEW x \in Tree, u = j.id, x <= j.k
        PROVE  WillSettle(c, u, x)'
    <3>1. j.k # OSP => x < j.k + 1
      BY <1>0, <2>3 DEF Tree
    <3> QED BY <2>1, <2>2, <2>3, <3>1 DEF WillSettle
  <2>4. ASSUME NEW x \in Tree, WillSettle(c, u, x)
        PROVE  u = j.id /\ x <= j.k
    BY <1>0, <2>1, <2>4 DEF WillSettle, Tree
  <2>5. ASSUME NEW x \in Tree, ~(u = j.id /\ x <= j.k)
        PROVE  u \in index[x] => u \in index'[x]
    BY <1>0, <2>1, <2>5 DEF Tree
  <2> HIDE DEF i
  <2> QED BY <2>1, <2>3, <2>4, <2>5, AccountedKept
<1>15. CASE WriteUpdated(c)
  <2> DEFINE i == [j EXCEPT !.at = "index", !.k = SPO]
  <2>1. job' = [job EXCEPT ![c] = i] /\ UNCHANGED index
        /\ triples' = [triples EXCEPT ![j.id] = j.val]
    BY <1>15 DEF WriteUpdated
  <2>2. CASE u # j.id
    <3>1. triples'[u] = triples[u] /\ \A x \in Tree : ~WillSettle(c, u, x)
      BY <1>0, <2>1, <2>2 DEF WillSettle
    <3> HIDE DEF i
    <3> QED BY <2>1, <3>1, AccountedKept
  <2>3. CASE u = j.id
    <3> HIDE DEF i
    <3> QED BY <1>15, <2>3, UpdateAccounts
  <2> QED BY <2>2, <2>3
<1>16. CASE EraseTriple(c)
  <2> DEFINE i == [j EXCEPT !.at = "collect"]
  <2>1. job' = [job EXCEPT ![c] = i] /\ UNCHANGED index
        /\ triples' = [triples EXCEPT ![j.id] = Absent]
    BY <1>16 DEF EraseTriple
  <2>2. u # j.id => \A x \in Tree : ~WillSettle(c, u, x)
    BY DEF WillSettle
  <2>3. triples'[u] # Absent => u # j.id /\ triples'[u] = triples[u]
    BY <1>0, <2>1
  <2> HIDE DEF i
  <2> QED BY <2>1, <2>2, <2>3, AccountedKept
<1>17. CASE WriteTouched(c)
  <2>1. job' = [job EXCEPT ![c] = Idle] /\ UNCHANGED index /\ j.at = "rewrite"
        /\ triples' = [triples EXCEPT ![j.id] = Full]
    BY <1>17 DEF WriteTouched
  <2>3. triples'[u] # Absent => triples[u] # Absent
    BY <1>0, <2>1 DEF CopiesOf
  <2>4. \A x \in Tree : ~WillSettle(c, u, x)
    BY <1>i, <2>1
  <2> QED BY <2>1, <2>3, <2>4, AccountedKept
<1>18. CASE ApplyDecay(c)
  <2>1. job' = [job EXCEPT ![c] = Idle] /\ UNCHANGED index /\ j.at = "apply"
        /\ triples' = [t \in Triple |-> IF j.batch[t] # Absent THEN j.batch[t] ELSE triples[t]]
    BY <1>18 DEF ApplyDecay
  <2>3. triples'[u] # Absent => triples[u] # Absent
    BY <1>0, <2>1 DEF CopiesOf
  <2>4. \A x \in Tree : ~WillSettle(c, u, x)
    BY <1>i, <2>1
  <2> QED BY <2>1, <2>3, <2>4, AccountedKept
<1> QED BY <1>1, <1>2, <1>3, <1>4, <1>5, <1>6, <1>7, <1>8, <1>9, <1>10, <1>11, <1>12,
           <1>13, <1>14, <1>15, <1>16, <1>17, <1>18 DEF Step

(* The inductive invariant. *)
LEMMA IInvInit == Init => IInv
<1> SUFFICES ASSUME Init PROVE IInv
  OBVIOUS
<1>1. TypeInv
  BY TypeInit
<1>2. Accounted
  BY DEF Init, Accounted, AccountedAt
<1>3. CopiesLive
  BY DEF Init, CopiesLive, Idle, NoBatch
<1> QED BY <1>1, <1>2, <1>3 DEF IInv, TypeInv

LEMMA IInvStep == SafeMix /\ IInv /\ [Next]_vars => IInv'
<1> SUFFICES ASSUME SafeMix, IInv, [Next]_vars PROVE IInv'
  OBVIOUS
<1>1. TypeInv /\ TypeInv'
  BY TypeStep DEF IInv, TypeInv
<1>2. CASE UNCHANGED vars
  BY <1>2 DEF vars, IInv, TypeOK, JobsLegal, CopiesLive, Accounted,
             AccountedAt, WillSettle
<1>3. ASSUME NEW c \in Client, Step(c) PROVE IInv'
  <2>1. CopiesOf(c)
    BY <1>1, <1>3, SafeCopies DEF IInv
  <2> QED BY <1>1, <1>3, <2>1, CopiesStep, AccountedStep DEF IInv, TypeInv, Accounted
<1> QED BY <1>2, <1>3 DEF Next

LEMMA IInvAgrees == IInv => QueriesAgree
<1> SUFFICES ASSUME IInv, NEW x \in Tree, NEW t \in QueryAll(Triple), Settled(t)
             PROVE  t \in Query(x, {t})
  BY DEF QueriesAgree
<1>1. t \in Triple /\ triples[t] # Absent
  BY DEF QueryAll, Present
<1>2. \A c \in Client : ~WillSettle(c, t, x)
  BY DEF Settled, WorkingOn, WillSettle
<1> QED BY <1>1, <1>2 DEF IInv, Accounted, AccountedAt, Query

(* Whatever the interleaving, a stored triple that no operation is at work *)
(* on is found through every index tree, as long as clients do not mix the *)
(* operations that write back old copies (touch_triple, decay) with those  *)
(* that remove records (delete_triple, evict_below_weight).                *)
THEOREM IndexesAgree == SafeMix /\ Spec => []QueriesAgree
<1> SUFFICES ASSUME SafeMix PROVE Spec => []QueriesAgree
  OBVIOUS
<1>1. Init => IInv
  BY IInvInit
<1>2. IInv /\ [Next]_vars => IInv'
  BY IInvStep
<1>3. IInv => QueriesAgree
  BY IInvAgrees
<1> QED BY <1>1, <1>2, <1>3, PTL DEF Spec

-----------------------------------------------------------------------------
(* A source being linked is already stored. *)
LinkedStored == \A c \in Client : job[c].at = "link" => job[c].src \in sources

LEMMA LinkStep ==
  ASSUME TypeInv, LinkedStored, JunctionResolves, NEW c \in Client, Step(c)
  PROVE  LinkedStored' /\ JunctionResolves'
<1> DEFINE j == job[c]
<1>0. JobOK(j) /\ j \in Job /\ job \in [Client -> Job]
  BY JobHas DEF TypeInv, TypeOK, JobOK
<1>i. Idle.at = "idle"
  BY DEF Idle
<1>2. ASSUME NEW s \in Source, NEW ts \in SUBSET Triple, InsertSource(c, s, ts)
      PROVE  LinkedStored' /\ JunctionResolves'
  <2> DEFINE i == [Idle EXCEPT !.op = "source", !.at = "link", !.todo = ts, !.src = s]
  <2>1. i.src = s /\ job' = [job EXCEPT ![c] = i] /\ UNCHANGED junction
        /\ sources' = sources \cup {s}
    BY <1>2 DEF InsertSource, Idle
  <2> QED BY <1>0, <2>1 DEF LinkedStored, JunctionResolves
<1>3. CASE LinkSource(c)
  <2> PICK t \in j.todo :
          /\ junction' = junction \cup {<<t, j.src>>}
          /\ job' = [job EXCEPT ![c] = IF j.todo = {t} THEN Idle
                                       ELSE [j EXCEPT !.todo = @ \ {t}]]
    BY <1>3 DEF LinkSource
  <2>1. j.src \in sources /\ UNCHANGED sources /\ j.at = "link"
    BY <1>3 DEF LinkSource, LinkedStored
  <2>2. JunctionResolves'
    BY <2>1 DEF JunctionResolves
  <2>3. \A d \in Client : job'[d].at = "link" => job'[d].src \in sources
    BY <1>0, <1>i, <2>1 DEF LinkedStored, Job
  <2> QED BY <2>1, <2>2, <2>3 DEF LinkedStored
<1>4. CASE UnlinkSource(c)
  <2> PICK s \in j.keys :
          /\ junction' = junction \ {<<j.id, s>>}
          /\ job' = [job EXCEPT ![c] = IF j.keys = {s} THEN AfterRemoval(j)
                                       ELSE [j EXCEPT !.keys = @ \ {s}]]
    BY <1>4 DEF UnlinkSource
  <2>1. UNCHANGED sources /\ j.at = "unlink"
    BY <1>4 DEF UnlinkSource
  <2>2. \A d \in Client : job'[d].at = "link" => job[d] = job'[d]
    BY <1>0, <1>i, <2>1 DEF AfterRemoval, Job
  <2> QED BY <2>1, <2>2 DEF LinkedStored, JunctionResolves
<1>a. ASSUME UNCHANGED <<sources, junction>>,
             \A d \in Client : job'[d].at = "link" => job[d] = job'[d]
      PROVE  LinkedStored' /\ JunctionResolves'
  BY <1>a DEF LinkedStored, JunctionResolves
<1>5. ASSUME NEW t \in Triple, NEW w \in Weight,
             InsertTriple(c, t, w) \/ UpdateTriple(c, t, w)
      PROVE  LinkedStored' /\ JunctionResolves'
  BY <1>0, <1>a, <1>5 DEF InsertTriple, UpdateTriple, Idle, trees
<1>6. ASSUME NEW t \in Triple, TouchTriple(c, t) \/ DeleteTriple(c, t)
      PROVE  LinkedStored' /\ JunctionResolves'
  BY <1>0, <1>a, <1>6 DEF TouchTriple, DeleteTriple, Idle, trees
<1>7. ASSUME NEW op \in AllOps, Sweep(c, op) PROVE LinkedStored' /\ JunctionResolves'
  BY <1>0, <1>a, <1>7 DEF Sweep, Idle, trees
<1>8. ASSUME NEW t \in Triple, DecayVisit(c, t) PROVE LinkedStored' /\ JunctionResolves'
  BY <1>0, <1>a, <1>8 DEF DecayVisit, Job, trees
<1>9. ASSUME NEW t \in Triple, EvictVisit(c, t) PROVE LinkedStored' /\ JunctionResolves'
  BY <1>0, <1>a, <1>i, <1>9 DEF EvictVisit, AfterRemoval, Job, trees
<1>10. CASE InsertIndex(c) \/ RemoveIndex(c)
  BY <1>0, <1>a, <1>i, <1>10 DEF InsertIndex, RemoveIndex, Job
<1>11. CASE WriteUpdated(c) \/ WriteTouched(c) \/ EraseTriple(c) \/ ApplyDecay(c)
  BY <1>0, <1>a, <1>i, <1>11 DEF WriteUpdated, WriteTouched, EraseTriple, ApplyDecay, Job
<1>12. CASE CollectSources(c)
  BY <1>0, <1>a, <1>i, <1>12 DEF CollectSources, AfterRemoval, Job, trees
<1>13. CASE NextVictim(c)
  BY <1>0, <1>a, <1>13 DEF NextVictim, Job, trees
<1> QED BY <1>2, <1>3, <1>4, <1>5, <1>6, <1>7, <1>8, <1>9, <1>10, <1>11, <1>12, <1>13 DEF Step

(* Whatever the interleaving, every junction entry names a stored source.  *)
THEOREM SourcesResolve == Spec => []JunctionResolves
<1> DEFINE Inv == TypeInv /\ LinkedStored /\ JunctionResolves
<1>1. Init => Inv
  BY TypeInit DEF Init, LinkedStored, JunctionResolves, Idle
<1>2. Inv /\ [Next]_vars => Inv'
  <2> SUFFICES ASSUME Inv, [Next]_vars PROVE Inv'
    OBVIOUS
  <2>1. CASE UNCHANGED vars
    BY <2>1, TypeStep DEF vars, LinkedStored, JunctionResolves
  <2>2. ASSUME NEW c \in Client, Step(c) PROVE Inv'
    BY <2>2, TypeStep, LinkStep DEF Next
  <2> QED BY <2>1, <2>2 DEF Next
<1> QED BY <1>1, <1>2, PTL DEF Spec

-----------------------------------------------------------------------------
(***************************************************************************)
(* What crashes leave behind, for any number of crashes and callers, and   *)
(* whatever part of the log was durable.                                   *)
(*                                                                         *)
(* A triple is either torn or accounted for as it is in a store that never *)
(* crashes (AccountedAt).  The image on disk has nobody at work on it: in  *)
(* it, what is not torn has all its entries (ImageWhole), which is what a  *)
(* restart makes of it.                                                    *)
(***************************************************************************)
USE RecoveryAssumption

ImageWhole == \A t \in Triple \ disk.torn :
    disk.triples[t] # Absent => \A x \in Tree : t \in disk.index[x]

Confined == \A t \in Triple \ torn : AccountedAt(t)

RInv ==
    /\ TypeInv /\ disk \in Image /\ crashes \in 0..MaxCrashes /\ torn \in SUBSET Triple
    /\ CopiesLive /\ Confined /\ ImageWhole

LEMMA SettledWhole ==
  ASSUME NEW t \in Triple, AccountedAt(t), Settled(t), triples[t] # Absent
  PROVE  \A x \in Tree : t \in index[x]
<1>1. \A c \in Client, x \in Tree : ~WillSettle(c, t, x)
  BY DEF Settled, WorkingOn, WillSettle
<1> QED BY <1>1 DEF AccountedAt

LEMMA SnapshotWhole ==
  ASSUME TypeInv, torn \in SUBSET Triple, Confined
  PROVE  /\ Snapshot \in Image
         /\ \A t \in Triple \ Snapshot.torn :
                Snapshot.triples[t] # Absent => \A x \in Tree : t \in Snapshot.index[x]
<1>1. Snapshot \in Image
  BY DEF TypeInv, TypeOK, Snapshot, Image
<1>2. ASSUME NEW t \in Triple \ Snapshot.torn, Snapshot.triples[t] # Absent, NEW x \in Tree
      PROVE  t \in Snapshot.index[x]
  <2>1. t \in Triple \ torn /\ Settled(t) /\ triples[t] # Absent
    BY <1>2 DEF Snapshot
  <2> QED BY <2>1, SettledWhole DEF Confined, Snapshot
<1> QED BY <1>1, <1>2

LEMMA InitConfined == RInit => RInv
<1> SUFFICES ASSUME RInit PROVE RInv
  OBVIOUS
<1>1. TypeInv /\ CopiesLive /\ Accounted
  BY IInvInit DEF RInit, IInv, TypeInv
<1>2. Confined /\ torn \in SUBSET Triple
  BY <1>1 DEF RInit, Confined, Accounted
<1>3. disk \in Image /\ ImageWhole
  BY <1>1, <1>2, SnapshotWhole DEF RInit, ImageWhole
<1> QED BY <1>1, <1>2, <1>3 DEF RInit, RInv

(* Who goes from idle or writing to the index trees begins with the first. *)
LEMMA WrittenAgain ==
  ASSUME TypeInv, NEW c \in Client, Step(c), NEW d \in Client,
         job[d].at \in {"idle", "write"}, job'[d].at = "index"
  PROVE  job'[d].k = SPO
<1>1. job \in [Client -> Job] /\ job[c] \in Job
  BY DEF TypeInv, TypeOK
<1> DEFINE Own == \E i : job' = [job EXCEPT ![c] = i]
<1>2. ASSUME NEW t \in Triple, NEW w \in Weight, InsertTriple(c, t, w) PROVE Own /\ job'[c].k = SPO
  BY <1>1, <1>2 DEF InsertTriple, Idle
<1>3. CASE WriteUpdated(c)
  <2>1. job' = [job EXCEPT ![c] = [job[c] EXCEPT !.at = "index", !.k = SPO]]
    BY <1>3 DEF WriteUpdated
  <2>2. job'[c].k = SPO
    BY <1>1, <2>1 DEF Job
  <2> QED BY <1>1, <2>1, <2>2
<1>4. ASSUME NEW t \in Triple, NEW w \in Weight, UpdateTriple(c, t, w)
      PROVE  Own /\ job'[c].at # "index"
  BY <1>1, <1>4 DEF UpdateTriple, Idle
<1>5. ASSUME NEW t \in Triple, TouchTriple(c, t) \/ DeleteTriple(c, t)
      PROVE  Own /\ job'[c].at # "index"
  BY <1>1, <1>5 DEF TouchTriple, DeleteTriple, Idle
<1>6. ASSUME NEW s \in Source, NEW ts \in SUBSET Triple, InsertSource(c, s, ts)
      PROVE  Own /\ job'[c].at # "index"
  BY <1>1, <1>6 DEF InsertSource, Idle
<1>7. ASSUME NEW op \in AllOps, Sweep(c, op) PROVE Own /\ job'[c].at # "index"
  BY <1>1, <1>7 DEF Sweep, Idle
<1>8. ASSUME \/ \E t \in Triple : DecayVisit(c, t) \/ EvictVisit(c, t)
             \/ InsertIndex(c) \/ RemoveIndex(c) \/ WriteTouched(c) \/ EraseTriple(c)
             \/ CollectSources(c) \/ UnlinkSource(c) \/ LinkSource(c) \/ ApplyDecay(c) \/ NextVictim(c)
      PROVE  Own /\ job[c].at \notin {"idle", "write"}
  BY <1>8 DEF DecayVisit, EvictVisit, InsertIndex, RemoveIndex, WriteTouched, EraseTriple,
              CollectSources, UnlinkSource, LinkSource, ApplyDecay, NextVictim
<1>9. ASSUME NEW i, job' = [job EXCEPT ![c] = i] PROVE d = c
  BY <1>1, <1>9
<1> HIDE DEF Own
<1>10. Own => d = c
  BY <1>9 DEF Own
<1> QED BY <1>2, <1>3, <1>4, <1>5, <1>6, <1>7, <1>8, <1>10 DEF Step

LEMMA RunningConfined ==
  ASSUME SafeMix, RInv, Running
  PROVE  RInv'
<1>1. PICK c \in Client : Step(c)
  BY DEF Running, Next
<1>2. TypeInv' /\ CopiesLive'
  BY <1>1, TypeStep, CopiesStep DEF RInv, Running
<1>3. CopiesOf(c)
  BY SafeCopies DEF RInv
<1>4. ASSUME NEW t \in Triple \ torn' PROVE AccountedAt(t)'
  <2>1. CASE t \notin torn
    BY <1>1, <1>3, <2>1, AccountedStep DEF RInv, Confined
  <2>2. CASE t \in torn
    <3>1. PICK d \in Client : /\ job[d].at \in {"idle", "write"}
                              /\ job'[d].at = "index" /\ job'[d].id = t
      BY <2>2 DEF Running, Rewritten
    <3>2. job'[d].k = SPO
      BY <1>1, <3>1, WrittenAgain DEF RInv
    <3> QED BY <3>1, <3>2, RewriteAccounts
  <2> QED BY <2>1, <2>2
<1>5. torn' \in SUBSET Triple /\ UNCHANGED <<disk, crashes>>
  BY DEF Running, RInv
<1> QED BY <1>2, <1>4, <1>5 DEF RInv, Confined, ImageWhole

LEMMA FlushConfined ==
  ASSUME RInv, Flush
  PROVE  RInv'
<1>1. UNCHANGED vars /\ UNCHANGED <<crashes, torn>> /\ disk' = Snapshot
  BY DEF Flush
<1>2. TypeInv' /\ CopiesLive' /\ Confined'
  BY <1>1 DEF RInv, vars, TypeInv, TypeOK, JobsLegal, CopiesLive, Confined, AccountedAt, WillSettle
<1>3. disk' \in Image /\ ImageWhole'
  BY <1>1, SnapshotWhole DEF RInv, ImageWhole
<1> QED BY <1>1, <1>2, <1>3 DEF RInv

LEMMA CrashConfined ==
  ASSUME RInv, CrashAndReopen
  PROVE  RInv'
<1>1. /\ triples' = disk.triples /\ index' = disk.index /\ sources' = disk.sources
      /\ junction' = disk.junction /\ torn' = disk.torn /\ disk' = disk
      /\ job' = [c \in Client |-> Idle] /\ crashes' \in 0..MaxCrashes
  BY DEF CrashAndReopen, RInv
<1>2. \A c \in Client : job'[c] = Idle
  BY <1>1
<1>3. TypeOK' /\ torn' \in SUBSET Triple
  <2>1. job' \in [Client -> Job]
    BY <1>1, IdleOK DEF JobOK
  <2> QED BY <1>1, <2>1 DEF RInv, Image, TypeOK
<1>4. JobsLegal'
  BY <1>2, IdleOK DEF JobsLegal, JobOK
<1>5. CopiesLive'
  BY <1>2 DEF CopiesLive, Idle, NoBatch
<1>6. Confined' /\ ImageWhole'
  BY <1>1 DEF RInv, ImageWhole, Confined, AccountedAt
<1> QED BY <1>1, <1>3, <1>4, <1>5, <1>6 DEF RInv, TypeInv

LEMMA RInvImplied == RInv => RecoverySound
<1> SUFFICES ASSUME RInv PROVE RecoverySound
  OBVIOUS
<1>1. RTypeOK
  BY DEF RInv, TypeInv, RTypeOK
<1>2. DamageConfined
  BY SettledWhole DEF RInv, Confined, DamageConfined, QueryAll, Query, Present
<1> QED BY <1>1, <1>2 DEF RecoverySound

(* If the mix of operations does not combine copies written back with      *)
(* removals, crashes leave nothing without its index entries but what an   *)
(* operation was in the middle of, until it is written again.              *)
THEOREM CrashesConfined == SafeMix /\ RSpec => []RecoverySound
<1> SUFFICES ASSUME SafeMix PROVE RSpec => []RecoverySound
  OBVIOUS
<1>1. RInv /\ [RNext]_rvars => RInv'
  <2> SUFFICES ASSUME RInv, [RNext]_rvars PROVE RInv'
    OBVIOUS
  <2>1. CASE UNCHANGED rvars
    BY <2>1 DEF rvars, vars, RInv, TypeInv, TypeOK, JobsLegal, CopiesLive, Confined, AccountedAt,
                WillSettle, ImageWhole
  <2> QED BY <2>1, RunningConfined, FlushConfined, CrashConfined DEF RNext
<1> QED BY <1>1, InitConfined, RInvImplied, PTL DEF RSpec

-----------------------------------------------------------------------------
(***************************************************************************)
(* The refinement: what a step of one caller does to what it is calling    *)
(* (Call) and whether that has happened (Done), while the others wait.     *)
(***************************************************************************)

OthersWait(c) == \A d \in Client : d # c => job'[d] = job[d]
SameShown == Facts' = Facts /\ Links' = Links /\ sources' = sources

LEMMA CallsThen ==
  ASSUME NEW c \in Client, OthersWait(c)
  PROVE  /\ Call' = [Call EXCEPT ![c] = job'[c].op]
         /\ Done' = [Done EXCEPT ![c] = Happened(job[c])']
         /\ Call[c] = job[c].op /\ Done[c] = Happened(job[c])
  BY DEF OthersWait, Call, Done

LEMMA StepInvisible ==
  ASSUME NEW c \in Client, OthersWait(c), SameShown, job'[c].op = job[c].op,
         Happened(job[c])' <=> Happened(job[c])
  PROVE  UNCHANGED Abstract!vars
<1>1. Happened(job[c])' = Happened(job[c])
  BY DEF Happened
<1>2. ASSUME NEW d \in Client PROVE job'[d].op = job[d].op /\ Happened(job[d])' = Happened(job[d])
  BY <1>1 DEF OthersWait
<1>3. Call' = Call
  BY <1>2 DEF Call
<1>4. Done' = Done
  BY <1>2 DEF Done
<1> QED BY <1>3, <1>4 DEF SameShown, Abstract!vars

LEMMA StepBegins ==
  ASSUME NEW c \in Client, OthersWait(c), SameShown, job[c].op = None, job'[c].op \in Ops,
         ~Happened(job[c])'
  PROVE  Abstract!Next
<1>1. ~Happened(job[c])
  BY DEF Happened
<1>2. Done' = Done
  BY <1>1, CallsThen DEF Done, Happened
<1>3. Abstract!Begin(c)
  BY <1>2, CallsThen DEF SameShown, Abstract!Begin
<1> QED BY <1>3 DEF Abstract!Next, Abstract!Step

LEMMA StepReturns ==
  ASSUME NEW c \in Client, OthersWait(c), SameShown, Happened(job[c]), job'[c].op = None
  PROVE  Abstract!Next
<1>1. Happened(job[c])' = FALSE
  BY DEF Happened
<1>2. Abstract!Return(c)
  BY <1>1, CallsThen DEF SameShown, Abstract!Return
<1> QED BY <1>2 DEF Abstract!Next, Abstract!Step

LEMMA StepHappens ==
  ASSUME NEW c \in Client, OthersWait(c), NEW op,
         job[c].op = None \/ (job[c].op = op /\ ~Happened(job[c])),
         (job'[c].op = op /\ Happened(job[c])') \/ job'[c].op = None
  PROVE  Abstract!Happens(c, op)
<1>1. Happened(job[c])' \in BOOLEAN /\ (job'[c].op = None => ~Happened(job[c])')
  BY DEF Happened
<1> QED BY <1>1, CallsThen DEF Abstract!Happens, Abstract!Called

-----------------------------------------------------------------------------
(***************************************************************************)
(* One caller.  Nobody overtakes a caller that is alone, so that its local *)
(* copies are true of the trees (Faithful): what touch and decay write     *)
(* back is still stored, the victims of an eviction are exactly the        *)
(* triples below the threshold, and a removal has found every junction     *)
(* entry it has to take away.  What the refinement shows is then a         *)
(* function of the trees and of that one caller's state (Views).           *)
(***************************************************************************)

HIDE SledAssumption

OneClient == \A c, d \in Client : c = d
NoFloor == MinWeight = 0 \/ "decay" \notin Ops

FaithfulJob(j) ==
    /\ j.at = "rewrite" => j.id \in Present
    /\ j.op = "decay" => \A t \in Triple :
        j.batch[t] = IF t \in Present \ j.scan THEN Decayed(triples[t]) ELSE Absent
    /\ j.at = "apply" => j.scan = {}
    /\ j.op = "evict" /\ j.at = "scan" =>
        j.todo = {t \in Present \ j.scan : triples[t] < Threshold}
    /\ j.at \in {"collect", "unlink"} => j.id \notin Present
    /\ j.at = "unlink" => j.keys = SourcesOf(j.id)
    /\ j.op = "delete" => j.todo = {}
    /\ j.at \in {"scan", "next"} => j.id = None

Faithful == \A c \in Client : FaithfulJob(job[c])

Alone == TypeInv /\ Accounted /\ Faithful

(* What a caller in the middle of job j makes of the trees. *)
Gone(j) == IF j.op \in {"delete", "evict"} /\ j.at # "scan"
           THEN {t \in Triple : t = j.id \/ t \in j.todo} ELSE {}
FactsOf(j) == [t \in Triple |-> IF t \in Gone(j) THEN Absent ELSE triples[t]]
LinksOf(j) == {l \in junction \cup (IF j.at = "link" THEN j.todo \X {j.src} ELSE {}) : l[1] \notin Gone(j)}

Views == \A c \in Client : Facts = FactsOf(job[c]) /\ Links = LinksOf(job[c])

-----------------------------------------------------------------------------
LEMMA View == OneClient /\ Alone => Views
<1> SUFFICES ASSUME OneClient, Alone, NEW c \in Client
             PROVE  Facts = FactsOf(job[c]) /\ Links = LinksOf(job[c])
  BY DEF Views
<1> DEFINE j == job[c]
<1>1. \A d \in Client : d = c
  BY DEF OneClient
<1>4. Leaving = Gone(j)
  BY <1>1 DEF Leaving, Removing, Gone
<1>5. ASSUME NEW t \in Triple PROVE Found(t) \/ triples[t] = Absent
  <2> SUFFICES ASSUME Settled(t), triples[t] # Absent, NEW x \in Tree PROVE t \in index[x]
    BY DEF Found, Query
  <2>1. \A d \in Client : ~WillSettle(d, t, x)
    BY DEF Settled, WorkingOn, WillSettle
  <2> QED BY <2>1 DEF Alone, Accounted, AccountedAt
<1>6. Facts = FactsOf(j)
  BY <1>4, <1>5 DEF Facts, FactsOf
<1>7. Linking = IF j.at = "link" THEN j.todo \X {j.src} ELSE {}
  <2>1. CASE j.at = "link"
    <3>1. {d \in Client : job[d].at = "link"} = {c}
      BY <1>1, <2>1
    <3> QED BY <2>1, <3>1 DEF Linking
  <2>2. CASE j.at # "link"
    <3>1. {d \in Client : job[d].at = "link"} = {}
      BY <1>1, <2>2
    <3> QED BY <2>2, <3>1 DEF Linking
  <2> QED BY <2>1, <2>2
<1>8. Links = LinksOf(j)
  BY <1>4, <1>7 DEF Links, LinksOf
<1> QED BY <1>6, <1>8

LEMMA ViewThen == OneClient /\ Alone' => Views'
<1>1. OneClient /\ Alone => Views
  BY View
<1>2. OneClient' <=> OneClient
  BY DEF OneClient
<1> QED BY <1>1, <1>2, PTL

(* The ways in which a call can show. *)
SameBooks(c) ==
    /\ FactsOf(job[c])' = FactsOf(job[c])
    /\ LinksOf(job[c])' = LinksOf(job[c])
    /\ sources' = sources

LEMMA Invisible ==
  ASSUME OneClient, Views, Views', NEW c \in Client, SameBooks(c), job'[c].op = job[c].op,
         Happened(job[c])' <=> Happened(job[c])
  PROVE  UNCHANGED Abstract!vars
  BY StepInvisible DEF Views, SameBooks, SameShown, OthersWait, OneClient

LEMMA Begins ==
  ASSUME OneClient, Views, Views', NEW c \in Client, SameBooks(c), job[c].op = None,
         job'[c].op \in Ops, ~Happened(job[c])'
  PROVE  Abstract!Next
  BY StepBegins DEF Views, SameBooks, SameShown, OthersWait, OneClient

LEMMA Returns ==
  ASSUME OneClient, Views, Views', NEW c \in Client, SameBooks(c), Happened(job[c]),
         job'[c].op = None
  PROVE  Abstract!Next
  BY StepReturns DEF Views, SameBooks, SameShown, OthersWait, OneClient

LEMMA HappensNow ==
  ASSUME OneClient, NEW c \in Client, NEW op,
         job[c].op = None \/ (job[c].op = op /\ ~Happened(job[c])),
         (job'[c].op = op /\ Happened(job[c])') \/ job'[c].op = None
  PROVE  Abstract!Happens(c, op)
  BY StepHappens DEF OthersWait, OneClient

-----------------------------------------------------------------------------
(* What a lone caller holds stays true of the trees.                       *)

LEMMA WeightFacts == \A w \in Weight : Decayed(w) \in Weight /\ w # Absent /\ Decayed(w) # Absent
<1>1. \A w \in Nat : w \div 2 \in Nat /\ w \div 2 <= w
  OBVIOUS
<1>2. Weight \subseteq Nat /\ Full \in Nat
  BY SledAssumption DEF Weight
<1>3. \A w \in Weight : w \div 2 \in Weight
  BY <1>1, <1>2 DEF Weight
<1>4. \A w \in Weight : w # Absent
  BY <1>2, SledAssumption
<1> QED BY <1>3, <1>4 DEF Decayed

LEMMA IdleFacts ==
  /\ Idle.op = None /\ Idle.at = "idle" /\ Idle.id = None
  /\ Idle.todo = {} /\ Idle.scan = {} /\ \A t \in Triple : Idle.batch[t] = Absent
  BY DEF Idle, NoBatch

(* A caller that starts an operation is idle, and nothing is under way.    *)
LEMMA IdleCaller ==
  ASSUME Alone, NEW c \in Client
  PROVE  job[c].at = "idle" <=> job[c].op = None
  BY JobHas DEF Alone, JobOK, Legal, None, AllOps

LEMMA FaithfulStep ==
  ASSUME OneClient, Alone, NEW c \in Client, Step(c)
  PROVE  Faithful'
<1> DEFINE j == job[c]
<1> SUFFICES FaithfulJob(j)'
  BY DEF Faithful, OneClient
<1>0. /\ JobOK(j) /\ j \in Job /\ job \in [Client -> Job] /\ FaithfulJob(j)
      /\ triples \in [Triple -> Stored] /\ junction \in SUBSET (Triple \X Source)
  BY JobHas DEF Alone, TypeInv, TypeOK, JobOK, Faithful
<1>i. ASSUME job'[c] = Idle PROVE FaithfulJob(j)'
  BY <1>i, IdleFacts DEF FaithfulJob, None
<1>1. ASSUME NEW t \in Triple, NEW w \in Weight, InsertTriple(c, t, w) PROVE FaithfulJob(j)'
  <2>1. job'[c].op = "insert" /\ job'[c].at = "index"
    BY <1>0, <1>1 DEF InsertTriple, Idle
  <2> QED BY <2>1 DEF FaithfulJob
<1>2. ASSUME NEW t \in Triple, NEW w \in Weight, UpdateTriple(c, t, w) PROVE FaithfulJob(j)'
  <2>1. job'[c].op = "update" /\ job'[c].at \in {"unindex", "write"}
    BY <1>0, <1>2 DEF UpdateTriple, Idle
  <2> QED BY <2>1 DEF FaithfulJob
<1>3. ASSUME NEW t \in Triple, TouchTriple(c, t) PROVE FaithfulJob(j)'
  <2>1. /\ job'[c].op = "touch" /\ job'[c].at = "rewrite" /\ job'[c].id = t
        /\ t \in Present /\ triples' = triples
    BY <1>0, <1>3 DEF TouchTriple, Idle, trees
  <2> QED BY <2>1 DEF FaithfulJob, Present
<1>4. ASSUME NEW t \in Triple, DeleteTriple(c, t) PROVE FaithfulJob(j)'
  <2>1. job'[c].op = "delete" /\ job'[c].at = "unindex" /\ job'[c].todo = {}
    BY <1>0, <1>4 DEF DeleteTriple, Idle
  <2> QED BY <2>1 DEF FaithfulJob
<1>5. ASSUME NEW s \in Source, NEW ts \in SUBSET Triple, InsertSource(c, s, ts) PROVE FaithfulJob(j)'
  <2>1. job'[c].op = "source" /\ job'[c].at = "link"
    BY <1>0, <1>5 DEF InsertSource, Idle
  <2> QED BY <2>1 DEF FaithfulJob
<1>6. ASSUME NEW op \in AllOps, Sweep(c, op) PROVE FaithfulJob(j)'
  <2>1. /\ job'[c].op \in {"decay", "evict"} /\ job'[c].at = "scan" /\ job'[c].id = None
        /\ job'[c].scan = Triple /\ job'[c].todo = {} /\ job'[c].batch = NoBatch
    BY <1>0, <1>6 DEF Sweep, Idle
  <2>2. Present' \ Triple = {}
    BY DEF Present
  <2> QED BY <2>1, <2>2 DEF FaithfulJob, NoBatch
<1>7. ASSUME NEW t \in Triple, DecayVisit(c, t) PROVE FaithfulJob(j)'
  <2> DEFINE batch == IF t \in Present THEN [j.batch EXCEPT ![t] = Decayed(triples[t])] ELSE j.batch
  <2>1. /\ j.at = "scan" /\ j.op = "decay" /\ t \in j.scan /\ triples' = triples
        /\ job' = [job EXCEPT ![c] = [j EXCEPT !.scan = @ \ {t}, !.batch = batch,
                                      !.at = IF j.scan = {t} THEN "apply" ELSE "scan"]]
    BY <1>7 DEF DecayVisit, trees
  <2>2. /\ job'[c].op = "decay" /\ job'[c].scan = j.scan \ {t} /\ job'[c].batch = batch
        /\ job'[c].id = j.id /\ job'[c].at = IF j.scan = {t} THEN "apply" ELSE "scan"
    BY <1>0, <2>1 DEF Job
  <2>3. ASSUME NEW u \in Triple
        PROVE  batch[u] = IF u \in Present \ (j.scan \ {t}) THEN Decayed(triples[u]) ELSE Absent
    <3>1. j.batch \in [Triple -> Stored]
          /\ j.batch[u] = IF u \in Present \ j.scan THEN Decayed(triples[u]) ELSE Absent
      BY <1>0, <2>1 DEF FaithfulJob, Job
    <3>2. CASE u = t
      BY <2>1, <3>1, <3>2
    <3>3. CASE u # t
      BY <3>1, <3>3
    <3> QED BY <3>2, <3>3
  <2>4. Present' = Present
    BY <2>1 DEF Present
  <2> HIDE DEF batch
  <2> QED BY <1>0, <2>1, <2>2, <2>3, <2>4 DEF FaithfulJob
<1>8. ASSUME NEW t \in Triple, EvictVisit(c, t) PROVE FaithfulJob(j)'
  <2> DEFINE todo == IF t \in Present /\ triples[t] < Threshold THEN j.todo \cup {t} ELSE j.todo
  <2>1. /\ j.at = "scan" /\ j.op = "evict" /\ t \in j.scan /\ triples' = triples
        /\ job' = [job EXCEPT ![c] = IF j.scan # {t} THEN [j EXCEPT !.scan = @ \ {t}, !.todo = todo]
                                 ELSE AfterRemoval([j EXCEPT !.scan = {}, !.todo = todo])]
    BY <1>8 DEF EvictVisit, trees
  <2>2. todo = {u \in Present \ (j.scan \ {t}) : triples[u] < Threshold}
    <3>1. j.todo = {u \in Present \ j.scan : triples[u] < Threshold}
      BY <1>0, <2>1 DEF FaithfulJob
    <3> QED BY <2>1, <3>1
  <2>3. Present' = Present
    BY <2>1 DEF Present
  <2>4. CASE j.scan # {t}
    <3>1. /\ job'[c].op = "evict" /\ job'[c].at = "scan" /\ job'[c].scan = j.scan \ {t}
          /\ job'[c].todo = todo /\ job'[c].id = j.id
      BY <1>0, <2>1, <2>4 DEF Job
    <3> HIDE DEF todo
    <3> QED BY <1>0, <2>1, <2>2, <2>3, <3>1 DEF FaithfulJob
  <2>5. CASE j.scan = {t}
    <3>1. job'[c] = AfterRemoval([j EXCEPT !.scan = {}, !.todo = todo])
      BY <1>0, <2>1, <2>5
    <3>2. CASE job'[c] # Idle
      <4>1. job'[c].op = "evict" /\ job'[c].at = "next" /\ job'[c].id = None
        BY <1>0, <2>1, <3>1, <3>2 DEF AfterRemoval, Job
      <4> QED BY <4>1 DEF FaithfulJob
    <3> QED BY <1>i, <3>2
  <2> QED BY <2>4, <2>5
<1>9. CASE InsertIndex(c)
  <2>1. CASE job'[c] # Idle
    <3>1. job'[c].op = j.op /\ job'[c].at = "index"
      BY <1>0, <1>9, <2>1 DEF InsertIndex, Job
    <3>2. job'[c].op \notin {"delete", "decay"}
      BY <1>0, <1>9, <3>1 DEF InsertIndex, JobOK, Legal
    <3> QED BY <3>1, <3>2 DEF FaithfulJob
  <2> QED BY <1>i, <2>1
<1>10. CASE RemoveIndex(c)
  <2>1. job'[c].op = j.op /\ job'[c].at \in {"unindex", "write", "erase"} /\ job'[c].todo = j.todo
    BY <1>0, <1>10 DEF RemoveIndex, Job
  <2>2. j.op # "decay"
    BY <1>0, <1>10 DEF RemoveIndex, JobOK, Legal
  <2> QED BY <1>0, <2>1, <2>2 DEF FaithfulJob
<1>11. CASE WriteUpdated(c)
  <2>1. job'[c].op = j.op /\ job'[c].at = "index"
    BY <1>0, <1>11 DEF WriteUpdated, Job
  <2>2. j.op = "update"
    BY <1>0, <1>11 DEF WriteUpdated, JobOK, Legal
  <2> QED BY <2>1, <2>2 DEF FaithfulJob
<1>12. CASE WriteTouched(c)
  BY <1>0, <1>i, <1>12 DEF WriteTouched
<1>13. CASE EraseTriple(c)
  <2>1. /\ job'[c].op = j.op /\ job'[c].at = "collect" /\ job'[c].todo = j.todo /\ job'[c].id = j.id
        /\ triples' = [triples EXCEPT ![j.id] = Absent]
    BY <1>0, <1>13 DEF EraseTriple, Job
  <2>2. j.op \in {"delete", "evict"} /\ j.id \in Triple
    BY <1>0, <1>13 DEF EraseTriple, JobOK, Legal
  <2>3. j.id \notin Present'
    BY <1>0, <2>1, <2>2 DEF Present
  <2> QED BY <1>0, <2>1, <2>2, <2>3 DEF FaithfulJob
<1>14. CASE CollectSources(c)
  <2>1. /\ j.at = "collect" /\ UNCHANGED <<triples, junction>>
        /\ job' = [job EXCEPT ![c] = IF SourcesOf(j.id) = {} THEN AfterRemoval(j)
                                 ELSE [j EXCEPT !.at = "unlink", !.keys = SourcesOf(j.id)]]
    BY <1>14 DEF CollectSources, trees
  <2>2. j.op \in {"delete", "evict"}
    BY <1>0, <2>1 DEF JobOK, Legal
  <2>3. CASE SourcesOf(j.id) = {} /\ job'[c] # Idle
    <3>1. /\ j.todo # {} /\ job'[c].op = j.op /\ job'[c].at = "next" /\ job'[c].id = None
      BY <1>0, <2>1, <2>3 DEF AfterRemoval, Job
    <3>2. j.op = "evict"
      BY <1>0, <2>2, <3>1 DEF FaithfulJob
    <3> QED BY <3>1, <3>2 DEF FaithfulJob
  <2>4. CASE SourcesOf(j.id) # {}
    <3>1. /\ job'[c].op = j.op /\ job'[c].at = "unlink" /\ job'[c].id = j.id
          /\ job'[c].keys = SourcesOf(j.id) /\ job'[c].todo = j.todo
      BY <1>0, <2>1, <2>4 DEF Job
    <3>2. SourcesOf(j.id)' = SourcesOf(j.id) /\ Present' = Present
      BY <1>0, <2>1, <3>1 DEF SourcesOf, Present
    <3> QED BY <1>0, <2>1, <2>2, <3>1, <3>2 DEF FaithfulJob, SourcesOf
  <2> QED BY <1>i, <2>3, <2>4
<1>15. CASE UnlinkSource(c)
  <2>1. PICK s \in j.keys :
            /\ junction' = junction \ {<<j.id, s>>}
            /\ job' = [job EXCEPT ![c] = IF j.keys = {s} THEN AfterRemoval(j)
                                         ELSE [j EXCEPT !.keys = @ \ {s}]]
    BY <1>15 DEF UnlinkSource
  <2>2. j.at = "unlink" /\ triples' = triples /\ j.op \in {"delete", "evict"}
    BY <1>0, <1>15 DEF UnlinkSource, JobOK, Legal
  <2>3. CASE j.keys = {s} /\ job'[c] # Idle
    <3>1. /\ j.todo # {} /\ job'[c].op = j.op /\ job'[c].at = "next" /\ job'[c].id = None
      BY <1>0, <2>1, <2>3 DEF AfterRemoval, Job
    <3>2. j.op = "evict"
      BY <1>0, <2>2, <3>1 DEF FaithfulJob
    <3> QED BY <3>1, <3>2 DEF FaithfulJob
  <2>4. CASE j.keys # {s}
    <3>1. /\ job'[c].op = j.op /\ job'[c].at = "unlink" /\ job'[c].id = j.id
          /\ job'[c].keys = j.keys \ {s} /\ job'[c].todo = j.todo
      BY <1>0, <2>1, <2>2, <2>4 DEF Job
    <3>2. j.keys \ {s} = {x \in Source : <<j.id, x>> \in junction'}
      BY <1>0, <2>1, <2>2 DEF FaithfulJob, SourcesOf
    <3>3. Present' = Present
      BY <2>2 DEF Present
    <3> QED BY <1>0, <2>2, <3>1, <3>2, <3>3 DEF FaithfulJob, SourcesOf
  <2> QED BY <1>i, <2>3, <2>4
<1>16. CASE LinkSource(c)
  <2>1. CASE job'[c] # Idle
    <3>1. job'[c].op = j.op /\ job'[c].at = "link" /\ j.at = "link"
      BY <1>0, <1>16, <2>1 DEF LinkSource, Job
    <3>2. j.op = "source"
      BY <1>0, <3>1 DEF JobOK, Legal
    <3> QED BY <3>1, <3>2 DEF FaithfulJob
  <2> QED BY <1>i, <2>1
<1>17. CASE ApplyDecay(c)
  BY <1>0, <1>i, <1>17 DEF ApplyDecay
<1>18. CASE NextVictim(c)
  <2>1. job'[c].op = j.op /\ job'[c].at = "unindex" /\ j.at = "next" /\ j.todo # {}
    BY <1>0, <1>18 DEF NextVictim, Job
  <2>2. j.op = "evict"
    BY <1>0, <2>1 DEF JobOK, Legal, FaithfulJob
  <2> QED BY <2>1, <2>2 DEF FaithfulJob
<1> QED BY <1>1, <1>2, <1>3, <1>4, <1>5, <1>6, <1>7, <1>8, <1>9, <1>10, <1>11, <1>12,
           <1>13, <1>14, <1>15, <1>16, <1>17, <1>18 DEF Step

LEMMA CopiesFaithful ==
  ASSUME Alone, NEW c \in Client
  PROVE  CopiesOf(c)
<1>1. JobOK(job[c]) /\ FaithfulJob(job[c])
  BY JobHas DEF Alone, Faithful
<1>2. CASE job[c].at = "apply"
  <2>1. job[c].op = "decay"
    BY <1>1, <1>2 DEF JobOK, Legal
  <2> QED BY <1>1, <1>2, <2>1 DEF FaithfulJob, CopiesOf, Present
<1>3. CASE job[c].at # "apply"
  BY <1>1, <1>3 DEF FaithfulJob, CopiesOf, Present
<1> QED BY <1>2, <1>3

LEMMA AloneInit == Init => Alone
<1> SUFFICES ASSUME Init PROVE Alone
  OBVIOUS
<1>1. TypeInv
  BY TypeInit
<1>2. Accounted
  BY DEF Init, Accounted, AccountedAt
<1>3. Faithful
  BY IdleFacts DEF Init, Faithful, FaithfulJob, None
<1> QED BY <1>1, <1>2, <1>3 DEF Alone

LEMMA AloneStep == OneClient /\ Alone /\ [Next]_vars => Alone'
<1> SUFFICES ASSUME OneClient, Alone, [Next]_vars PROVE Alone'
  OBVIOUS
<1>1. TypeInv'
  BY TypeStep DEF Alone
<1>2. CASE UNCHANGED vars
  <2>1. Accounted'
    BY <1>2 DEF vars, Alone, Accounted, AccountedAt, WillSettle
  <2>2. Faithful'
    BY <1>2 DEF vars, Alone, Faithful, FaithfulJob, Present, SourcesOf
  <2> QED BY <1>1, <2>1, <2>2 DEF Alone
<1>3. ASSUME NEW c \in Client, Step(c) PROVE Alone'
  <2>1. Faithful'
    BY <1>3, FaithfulStep
  <2>2. Accounted'
    BY <1>3, CopiesFaithful, AccountedStep DEF Alone, Accounted
  <2> QED BY <1>1, <2>1, <2>2 DEF Alone
<1> QED BY <1>2, <1>3 DEF Next

-----------------------------------------------------------------------------
(* Every call shows as one step of TripleStore, or not at all.             *)

(* An idle caller makes nothing of the trees but what they hold.           *)
LEMMA IdleView ==
  ASSUME NEW j, j.op = None, j.at = "idle"
  PROVE  Gone(j) = {} /\ ~Happened(j) /\ LinksOf(j) = junction
         /\ FactsOf(j) = [t \in Triple |-> triples[t]]
<1>1. Gone(j) = {} /\ ~Happened(j)
  BY DEF Gone, Happened, None
<1> QED BY <1>1 DEF LinksOf, FactsOf

LEMMA InitRefined == Init => Abstract!Init
<1> SUFFICES ASSUME Init PROVE Abstract!Init
  OBVIOUS
<1>1. \A c \in Client : job[c].op = None /\ job[c].at = "idle"
  BY IdleFacts DEF Init
<1>2. Call = [c \in Client |-> None] /\ Done = [c \in Client |-> FALSE]
  BY <1>1 DEF Call, Done, Happened
<1>3. Facts = [t \in Triple |-> Absent]
  BY DEF Init, Facts
<1>4. Links = {}
  <2>1. {d \in Client : job[d].at = "link"} = {}
    BY <1>1
  <2> QED BY <2>1 DEF Init, Links, Linking
<1> QED BY <1>2, <1>3, <1>4 DEF Init, Abstract!Init

(* When the trees show the same although the caller goes on.               *)
LEMMA Books ==
  ASSUME NEW c \in Client, job[c].at # "link", job'[c].at # "link", sources' = sources,
         NEW G, NEW H, G = Gone(job[c]), H = Gone(job[c])',
         \A t \in Triple : t \in G \/ triples[t] = Absent <=> t \in H \/ triples'[t] = Absent,
         \A t \in Triple : t \notin G /\ t \notin H => triples'[t] = triples[t],
         \A l : l \in junction' /\ l[1] \notin H <=> l \in junction /\ l[1] \notin G
  PROVE  SameBooks(c)
<1>1. FactsOf(job[c])' = FactsOf(job[c])
  <2>1. FactsOf(job[c]) = [t \in Triple |-> IF t \in G THEN Absent ELSE triples[t]]
    BY DEF FactsOf
  <2>2. FactsOf(job[c])' = [t \in Triple |-> IF t \in H THEN Absent ELSE triples'[t]]
    BY DEF FactsOf
  <2> QED BY <2>1, <2>2
<1>2. LinksOf(job[c])' = LinksOf(job[c])
  <2>1. LinksOf(job[c]) = {l \in junction : l[1] \notin G}
    BY DEF LinksOf
  <2>2. LinksOf(job[c])' = {l \in junction' : l[1] \notin H}
    BY DEF LinksOf
  <2> QED BY <2>1, <2>2
<1> QED BY <1>1, <1>2 DEF SameBooks

(* A caller that starts or goes on with something that takes nothing away. *)
LEMMA NothingGone ==
  ASSUME NEW c \in Client, job[c].at # "link", job'[c].at # "link",
         UNCHANGED <<triples, sources, junction>>, Gone(job[c]) = {}, Gone(job[c])' = {}
  PROVE  SameBooks(c)
  BY DEF SameBooks, FactsOf, LinksOf

LEMMA StartRefined ==
  ASSUME OneClient, Alone, Views, Views', NEW c \in Client,
         \/ \E t \in Triple, w \in Weight : InsertTriple(c, t, w) \/ UpdateTriple(c, t, w)
         \/ \E t \in Triple : TouchTriple(c, t) \/ DeleteTriple(c, t)
         \/ \E s \in Source, ts \in SUBSET Triple \ {{}} : InsertSource(c, s, ts)
         \/ \E op \in AllOps : Sweep(c, op)
  PROVE  Abstract!Next
<1> DEFINE j == job[c]
<1>0. /\ j \in Job /\ job \in [Client -> Job]
      /\ triples \in [Triple -> Stored] /\ junction \in SUBSET (Triple \X Source)
  BY JobHas DEF Alone, TypeInv, TypeOK, JobOK
<1>1. j.at = "idle" /\ j.op = None
  BY IdleCaller DEF InsertTriple, UpdateTriple, TouchTriple, DeleteTriple, InsertSource, Sweep, Start
<1>2. /\ Gone(j) = {} /\ ~Happened(j) /\ LinksOf(j) = junction
      /\ FactsOf(j) = [t \in Triple |-> triples[t]]
  BY <1>1, IdleView
<1>3. /\ Facts = [t \in Triple |-> triples[t]] /\ Links = junction
      /\ Facts' = FactsOf(j)' /\ Links' = LinksOf(j)'
  BY <1>2 DEF Views
<1>4. ASSUME NEW t \in Triple, NEW w \in Weight, InsertTriple(c, t, w) PROVE Abstract!Next
  <2>1. /\ job'[c].op = "insert" /\ job'[c].at = "index"
        /\ triples' = [triples EXCEPT ![t] = w] /\ UNCHANGED <<sources, junction>>
    BY <1>0, <1>4 DEF InsertTriple, Idle
  <2>2. Happened(j)' /\ Gone(j)' = {}
    BY <2>1 DEF Happened, Gone, None
  <2>3. Abstract!Happens(c, "insert")
    BY <1>1, <2>1, <2>2, HappensNow
  <2>4. Facts' = [Facts EXCEPT ![t] = w] /\ Links' = Links
    BY <1>0, <1>3, <2>1, <2>2 DEF FactsOf, LinksOf
  <2>5. Abstract!InsertTriple(c, t, w)
    BY <2>1, <2>3, <2>4 DEF Abstract!InsertTriple, Abstract!Put
  <2> QED BY <2>5 DEF Abstract!Next, Abstract!Step
<1>5. ASSUME NEW t \in Triple, NEW w \in Weight, UpdateTriple(c, t, w) PROVE Abstract!Next
  <2>1. /\ job'[c].op = "update" /\ job'[c].at \in {"unindex", "write"} /\ "update" \in Ops
        /\ UNCHANGED <<triples, sources, junction>>
    BY <1>0, <1>5 DEF UpdateTriple, Start, Idle, trees
  <2>2. ~Happened(j)' /\ Gone(j)' = {}
    BY <2>1 DEF Happened, Gone
  <2>3. SameBooks(c)
    BY <1>1, <1>2, <2>1, <2>2, NothingGone
  <2> QED BY <1>1, <2>1, <2>2, <2>3, Begins
<1>6. ASSUME NEW t \in Triple, TouchTriple(c, t) PROVE Abstract!Next
  <2>1. /\ job'[c].op = "touch" /\ job'[c].at = "rewrite" /\ "touch" \in Ops
        /\ UNCHANGED <<triples, sources, junction>>
    BY <1>0, <1>6 DEF TouchTriple, Start, Idle, trees
  <2>2. ~Happened(j)' /\ Gone(j)' = {}
    BY <2>1 DEF Happened, Gone
  <2>3. SameBooks(c)
    BY <1>1, <1>2, <2>1, <2>2, NothingGone
  <2> QED BY <1>1, <2>1, <2>2, <2>3, Begins
<1>7. ASSUME NEW t \in Triple, DeleteTriple(c, t) PROVE Abstract!Next
  <2>1. /\ job'[c].op = "delete" /\ job'[c].at = "unindex" /\ job'[c].id = t /\ job'[c].todo = {}
        /\ t \in Present /\ UNCHANGED <<triples, sources, junction>>
    BY <1>0, <1>7 DEF DeleteTriple, Idle, trees
  <2>2. Happened(j)' /\ Gone(j)' = {t}
    BY <2>1 DEF Happened, Gone, None
  <2>3. Abstract!Happens(c, "delete")
    BY <1>1, <2>1, <2>2, HappensNow
  <2>4. t \in Abstract!Stored
    BY <1>3, <2>1 DEF Abstract!Stored, Present
  <2>5. Facts' = [u \in Triple |-> IF u \in {t} THEN Absent ELSE Facts[u]]
    BY <1>3, <2>1, <2>2 DEF FactsOf
  <2>6. Links' = {l \in Links : l[1] \notin {t}}
    BY <1>3, <2>1, <2>2 DEF LinksOf
  <2>7. Abstract!DeleteTriple(c, t)
    BY <2>1, <2>3, <2>4, <2>5, <2>6 DEF Abstract!DeleteTriple, Abstract!Remove
  <2> QED BY <2>7 DEF Abstract!Next, Abstract!Step
<1>8. ASSUME NEW s \in Source, NEW ts \in SUBSET Triple, InsertSource(c, s, ts) PROVE Abstract!Next
  <2>1. /\ job'[c].op = "source" /\ job'[c].at = "link" /\ job'[c].src = s /\ job'[c].todo = ts
        /\ s \notin sources /\ sources' = sources \cup {s} /\ UNCHANGED <<triples, junction>>
    BY <1>0, <1>8 DEF InsertSource, Idle
  <2>2. Happened(j)' /\ Gone(j)' = {}
    BY <2>1 DEF Happened, Gone, None
  <2>3. Abstract!Happens(c, "source")
    BY <1>1, <2>1, <2>2, HappensNow
  <2>4. Facts' = Facts
    BY <1>3, <2>1, <2>2 DEF FactsOf
  <2>5. Links' = Links \cup (ts \X {s})
    BY <1>3, <2>1, <2>2 DEF LinksOf
  <2>6. Abstract!InsertSource(c, s, ts)
    BY <2>1, <2>3, <2>4, <2>5 DEF Abstract!InsertSource
  <2> QED BY <2>1, <2>6 DEF Abstract!Next, Abstract!Step
<1>9. ASSUME NEW op \in AllOps, Sweep(c, op) PROVE Abstract!Next
  <2>1. /\ job'[c].op = op /\ op \in {"decay", "evict"} /\ job'[c].at = "scan" /\ op \in Ops
        /\ UNCHANGED <<triples, sources, junction>>
    BY <1>0, <1>9 DEF Sweep, Start, Idle, trees
  <2>2. ~Happened(j)' /\ Gone(j)' = {}
    BY <2>1 DEF Happened, Gone
  <2>3. SameBooks(c)
    BY <1>1, <1>2, <2>1, <2>2, NothingGone
  <2> QED BY <1>1, <2>1, <2>2, <2>3, Begins
<1> QED BY <1>4, <1>5, <1>6, <1>7, <1>8, <1>9

(* The calls of insert_triple, update_triple, touch_triple and decay.      *)
LEMMA WriteRefined ==
  ASSUME OneClient, NoFloor, Alone, Views, Views', NEW c \in Client,
         \/ InsertIndex(c) \/ WriteUpdated(c) \/ WriteTouched(c) \/ ApplyDecay(c)
         \/ \E t \in Triple : DecayVisit(c, t)
  PROVE  [Abstract!Next]_(Abstract!vars)
<1> DEFINE j == job[c]
<1>0. /\ JobOK(j) /\ j \in Job /\ job \in [Client -> Job] /\ FaithfulJob(j)
      /\ triples \in [Triple -> Stored] /\ junction \in SUBSET (Triple \X Source)
  BY JobHas DEF Alone, TypeInv, TypeOK, JobOK, Faithful
<1>1. j.op \in {"insert", "update", "touch", "decay"} /\ j.at \notin {"idle", "link"}
  BY <1>0 DEF InsertIndex, WriteUpdated, WriteTouched, ApplyDecay, DecayVisit, JobOK, Legal
<1>2. /\ Gone(j) = {} /\ FactsOf(j) = [t \in Triple |-> triples[t]] /\ LinksOf(j) = junction
  BY <1>1 DEF Gone, FactsOf, LinksOf
<1>3. /\ Facts = [t \in Triple |-> triples[t]] /\ Links = junction
      /\ Facts' = FactsOf(j)' /\ Links' = LinksOf(j)'
  BY <1>2 DEF Views
<1>i. ASSUME job'[c] = Idle
      PROVE  /\ job'[c].op = None /\ job'[c].at = "idle" /\ Gone(j)' = {} /\ ~Happened(j)'
  BY <1>i, IdleFacts DEF Gone, Happened, None
<1>4. CASE InsertIndex(c)
  <2>1. /\ j.at = "index" /\ UNCHANGED <<triples, sources, junction>>
        /\ job' = [job EXCEPT ![c] = IF j.k = OSP THEN Idle ELSE [j EXCEPT !.k = @ + 1]]
    BY <1>4 DEF InsertIndex
  <2>2. Happened(j)
    BY <1>0, <2>1 DEF Happened, JobOK, Legal, None
  <2>3. CASE j.k = OSP
    <3>1. job'[c] = Idle
      BY <1>0, <2>1, <2>3
    <3>2. SameBooks(c)
      BY <1>1, <1>2, <1>i, <2>1, <3>1, NothingGone
    <3> QED BY <1>i, <2>2, <3>1, <3>2, Returns
  <2>4. CASE j.k # OSP
    <3>1. job'[c].op = j.op /\ job'[c].at = "index"
      BY <1>0, <2>1, <2>4 DEF Job
    <3>2. Gone(j)' = {} /\ Happened(j)'
      BY <1>1, <2>1, <2>2, <3>1 DEF Gone, Happened
    <3>3. SameBooks(c)
      BY <1>1, <1>2, <2>1, <3>1, <3>2, NothingGone
    <3> QED BY <2>2, <3>1, <3>2, <3>3, Invisible
  <2> QED BY <2>3, <2>4
<1>5. CASE WriteUpdated(c)
  <2>1. /\ job'[c].op = j.op /\ job'[c].at = "index" /\ j.at = "write"
        /\ triples' = [triples EXCEPT ![j.id] = j.val] /\ UNCHANGED <<sources, junction>>
    BY <1>0, <1>5 DEF WriteUpdated, Job
  <2>2. j.op = "update" /\ j.id \in Triple /\ j.val \in Weight
    BY <1>0, <2>1 DEF JobOK, Legal
  <2>3. ~Happened(j) /\ Happened(j)' /\ Gone(j)' = {}
    BY <2>1, <2>2 DEF Happened, Gone, None
  <2>4. Abstract!Happens(c, "update")
    BY <2>1, <2>2, <2>3, HappensNow
  <2>5. Facts' = [Facts EXCEPT ![j.id] = j.val] /\ Links' = Links
    BY <1>0, <1>3, <2>1, <2>2, <2>3 DEF FactsOf, LinksOf
  <2>6. Abstract!UpdateTriple(c, j.id, j.val)
    BY <2>1, <2>4, <2>5 DEF Abstract!UpdateTriple, Abstract!Put
  <2> QED BY <2>2, <2>6 DEF Abstract!Next, Abstract!Step
<1>6. CASE WriteTouched(c)
  <2>1. /\ j.at = "rewrite" /\ job'[c] = Idle
        /\ triples' = [triples EXCEPT ![j.id] = Full] /\ UNCHANGED <<sources, junction>>
    BY <1>0, <1>6 DEF WriteTouched
  <2>2. j.op = "touch" /\ j.id \in Triple /\ j.id \in Present
    BY <1>0, <2>1 DEF JobOK, Legal, FaithfulJob
  <2>3. ~Happened(j)
    BY <2>2 DEF Happened
  <2>4. Abstract!Happens(c, "touch")
    BY <1>i, <2>1, <2>2, <2>3, HappensNow
  <2>5. Facts' = [Facts EXCEPT ![j.id] = Full] /\ Links' = Links
    BY <1>0, <1>3, <1>i, <2>1, <2>2 DEF FactsOf, LinksOf
  <2>6. j.id \in Abstract!Stored
    BY <1>3, <2>2 DEF Abstract!Stored, Present
  <2>7. Abstract!TouchTriple(c, j.id)
    BY <2>1, <2>4, <2>5, <2>6 DEF Abstract!TouchTriple, Abstract!Put
  <2> QED BY <2>2, <2>7 DEF Abstract!Next, Abstract!Step
<1>7. CASE ApplyDecay(c)
  <2>1. /\ j.at = "apply" /\ job'[c] = Idle /\ UNCHANGED <<sources, junction>>
        /\ triples' = [t \in Triple |-> IF j.batch[t] # Absent THEN j.batch[t] ELSE triples[t]]
    BY <1>0, <1>7 DEF ApplyDecay
  <2>2. j.op = "decay" /\ j.scan = {}
    BY <1>0, <2>1 DEF JobOK, Legal, FaithfulJob
  <2>3. \A t \in Triple : triples'[t] = IF triples[t] # Absent THEN Decayed(triples[t]) ELSE Absent
    BY <1>0, <2>1, <2>2, WeightFacts DEF FaithfulJob, Present, Stored
  <2>4. Abstract!Happens(c, "decay")
    <3>1. ~Happened(j)
      BY <2>2 DEF Happened
    <3> QED BY <1>i, <2>1, <2>2, <3>1, HappensNow
  <2>5. Facts' = [t \in Triple |-> IF t \in Abstract!Stored THEN Abstract!Faded(Facts[t]) ELSE Absent]
    <3>1. MinWeight = 0
      BY <1>0, <2>2 DEF JobOK, NoFloor, None
    <3>2. \A w \in Weight : Abstract!Faded(w) = Decayed(w)
      BY <3>1, WeightFacts, SledAssumption DEF Abstract!Faded, Weight
    <3> QED BY <1>0, <1>3, <1>i, <2>1, <2>3, <3>2 DEF FactsOf, Abstract!Stored, Stored
  <2>6. Links' = Links
    BY <1>3, <1>i, <2>1 DEF LinksOf
  <2>7. Abstract!Decay(c)
    BY <2>1, <2>4, <2>5, <2>6 DEF Abstract!Decay
  <2> QED BY <2>7 DEF Abstract!Next, Abstract!Step
<1>8. ASSUME NEW t \in Triple, DecayVisit(c, t) PROVE UNCHANGED Abstract!vars
  <2>1. /\ j.op = "decay" /\ job'[c].op = "decay" /\ job'[c].at \in {"scan", "apply"}
        /\ UNCHANGED <<triples, sources, junction>>
    BY <1>0, <1>8 DEF DecayVisit, Job, trees
  <2>2. Gone(j)' = {} /\ ~Happened(j)' /\ ~Happened(j)
    BY <2>1 DEF Gone, Happened
  <2>3. SameBooks(c)
    BY <1>1, <1>2, <2>1, <2>2, NothingGone
  <2> QED BY <2>1, <2>2, <2>3, Invisible
<1> QED BY <1>4, <1>5, <1>6, <1>7, <1>8

(* The last call of the removal of one triple.                             *)
LEMMA RemovalEnds ==
  ASSUME OneClient, Alone, Views, Views', NEW c \in Client, job[c].at \in {"collect", "unlink"},
         job' = [job EXCEPT ![c] = AfterRemoval(job[c])], UNCHANGED <<triples, sources>>,
         \A l : l \in junction' <=> l \in junction /\ l[1] # job[c].id
  PROVE  [Abstract!Next]_(Abstract!vars)
<1> DEFINE j == job[c]
           G == Gone(j)
           H == Gone(j)'
<1>0. /\ JobOK(j) /\ j \in Job /\ job \in [Client -> Job] /\ FaithfulJob(j)
  BY JobHas DEF Alone, TypeInv, TypeOK, JobOK, Faithful
<1>1. /\ j.op \in {"delete", "evict"} /\ j.id \in Triple /\ triples[j.id] = Absent
      /\ j.todo \in SUBSET Triple
      /\ j.op = "delete" => j.todo = {}
  BY <1>0 DEF JobOK, Legal, FaithfulJob, Present, Job
<1>2. G = {j.id} \cup j.todo /\ Happened(j)
  BY <1>1 DEF Gone, Happened, None
<1>3. job'[c] = AfterRemoval(j)
  BY <1>0
<1>4. CASE j.todo = {}
  <2>1. job'[c] = Idle
    BY <1>3, <1>4 DEF AfterRemoval
  <2>2. job'[c].op = None /\ job'[c].at = "idle" /\ H = {}
    BY <2>1, IdleFacts DEF Gone, None
  <2>3. G = {j.id}
    BY <1>2, <1>4
  <2> HIDE DEF G, H
  <2>4. SameBooks(c)
    <3>1. \A t \in Triple : t \in G \/ triples[t] = Absent <=> t \in H \/ triples'[t] = Absent
      BY <1>1, <2>2, <2>3
    <3>2. \A t \in Triple : t \notin G /\ t \notin H => triples'[t] = triples[t]
      OBVIOUS
    <3>3. \A l : l \in junction' /\ l[1] \notin H <=> l \in junction /\ l[1] \notin G
      BY <2>2, <2>3
    <3>4. job[c].at # "link" /\ job'[c].at # "link"
      BY <2>2
    <3> QED BY <3>1, <3>2, <3>3, <3>4, Books DEF G, H
  <2> QED BY <1>2, <2>2, <2>4, Returns
<1>5. CASE j.todo # {}
  <2>1. /\ job'[c].op = j.op /\ job'[c].at = "next" /\ job'[c].id = None /\ job'[c].todo = j.todo
    BY <1>0, <1>3, <1>5 DEF AfterRemoval, Job
  <2>2. j.op = "evict"
    BY <1>1, <1>5
  <2>3. H = j.todo /\ Happened(j)'
    BY <1>1, <2>1, <2>2, ViewAssumption DEF Gone, Happened, None
  <2> HIDE DEF G, H
  <2>4. SameBooks(c)
    <3>1. \A t \in Triple : t \in G \/ triples[t] = Absent <=> t \in H \/ triples'[t] = Absent
      BY <1>1, <1>2, <2>3
    <3>2. \A t \in Triple : t \notin G /\ t \notin H => triples'[t] = triples[t]
      OBVIOUS
    <3>3. \A l : l \in junction' /\ l[1] \notin H <=> l \in junction /\ l[1] \notin G
      BY <1>2, <2>3
    <3>4. job[c].at # "link" /\ job'[c].at # "link"
      BY <2>1
    <3> QED BY <3>1, <3>2, <3>3, <3>4, Books DEF G, H
  <2> QED BY <1>2, <2>1, <2>3, <2>4, Invisible
<1> QED BY <1>4, <1>5

(* The calls of delete_triple and evict_below_weight, and of insert_source.*)
LEMMA RemoveRefined ==
  ASSUME OneClient, Alone, Views, Views', NEW c \in Client,
         \/ RemoveIndex(c) \/ EraseTriple(c) \/ CollectSources(c) \/ UnlinkSource(c)
         \/ LinkSource(c) \/ NextVictim(c)
         \/ \E t \in Triple : EvictVisit(c, t)
  PROVE  [Abstract!Next]_(Abstract!vars)
<1> DEFINE j == job[c]
<1>0. /\ JobOK(j) /\ j \in Job /\ job \in [Client -> Job] /\ FaithfulJob(j)
      /\ triples \in [Triple -> Stored] /\ junction \in SUBSET (Triple \X Source)
  BY JobHas DEF Alone, TypeInv, TypeOK, JobOK, Faithful
<1>1. CASE RemoveIndex(c)
  <2>1. /\ j.at = "unindex" /\ j.op \in {"update", "delete", "evict"} /\ job'[c].op = j.op
        /\ job'[c].at \in {"unindex", "write", "erase"} /\ job'[c].id = j.id /\ job'[c].todo = j.todo
        /\ UNCHANGED <<triples, sources, junction>>
    BY <1>0, <1>1 DEF RemoveIndex, Job, JobOK, Legal
  <2>2. Gone(j)' = Gone(j) /\ (Happened(j)' <=> Happened(j))
    BY <2>1 DEF Gone, Happened
  <2>3. SameBooks(c)
    BY <2>1, <2>2 DEF SameBooks, FactsOf, LinksOf
  <2> QED BY <2>1, <2>2, <2>3, Invisible
<1>2. CASE EraseTriple(c)
  <2>1. /\ j.at = "erase" /\ job'[c].op = j.op /\ job'[c].at = "collect" /\ job'[c].id = j.id
        /\ job'[c].todo = j.todo /\ triples' = [triples EXCEPT ![j.id] = Absent]
        /\ UNCHANGED <<sources, junction>>
    BY <1>0, <1>2 DEF EraseTriple, Job
  <2>2. j.op \in {"delete", "evict"} /\ j.id \in Triple
    BY <1>0, <2>1 DEF JobOK, Legal
  <2>3. Gone(j)' = Gone(j) /\ (Happened(j)' <=> Happened(j)) /\ j.id \in Gone(j)
    BY <2>1, <2>2 DEF Gone, Happened
  <2>4. SameBooks(c)
    <3>1. \A t \in Triple : t \notin Gone(j) => triples'[t] = triples[t]
      BY <1>0, <2>1, <2>3
    <3> QED BY <2>1, <2>3, <3>1 DEF SameBooks, FactsOf, LinksOf
  <2> QED BY <2>1, <2>3, <2>4, Invisible
<1>3. CASE CollectSources(c)
  <2>1. /\ j.at = "collect" /\ UNCHANGED <<triples, sources, junction>>
        /\ job' = [job EXCEPT ![c] = IF SourcesOf(j.id) = {} THEN AfterRemoval(j)
                                     ELSE [j EXCEPT !.at = "unlink", !.keys = SourcesOf(j.id)]]
    BY <1>3 DEF CollectSources, trees
  <2>2. CASE SourcesOf(j.id) = {}
    <3>1. \A l : l \in junction' <=> l \in junction /\ l[1] # j.id
      <4>1. ASSUME NEW l \in junction PROVE l[1] # j.id
        <5>1. l = <<l[1], l[2]>> /\ l[2] \in Source
          BY <1>0
        <5> QED BY <2>2, <5>1 DEF SourcesOf
      <4> QED BY <2>1, <4>1
    <3> QED BY <2>1, <2>2, <3>1, RemovalEnds
  <2>3. CASE SourcesOf(j.id) # {}
    <3>1. /\ job'[c].op = j.op /\ job'[c].at = "unlink" /\ job'[c].id = j.id /\ job'[c].todo = j.todo
      BY <1>0, <2>1, <2>3 DEF Job
    <3>2. j.op \in {"delete", "evict"}
      BY <1>0, <2>1 DEF JobOK, Legal
    <3>3. Gone(j)' = Gone(j) /\ (Happened(j)' <=> Happened(j))
      BY <2>1, <3>1, <3>2 DEF Gone, Happened
    <3>4. SameBooks(c)
      BY <2>1, <3>1, <3>3 DEF SameBooks, FactsOf, LinksOf
    <3> QED BY <3>1, <3>3, <3>4, Invisible
  <2> QED BY <2>2, <2>3
<1>4. CASE UnlinkSource(c)
  <2>1. PICK s \in j.keys :
            /\ junction' = junction \ {<<j.id, s>>}
            /\ job' = [job EXCEPT ![c] = IF j.keys = {s} THEN AfterRemoval(j)
                                         ELSE [j EXCEPT !.keys = @ \ {s}]]
    BY <1>4 DEF UnlinkSource
  <2>2. /\ j.at = "unlink" /\ UNCHANGED <<triples, sources>> /\ j.op \in {"delete", "evict"}
        /\ j.id \in Triple /\ j.keys = SourcesOf(j.id)
    BY <1>0, <1>4 DEF UnlinkSource, JobOK, Legal, FaithfulJob
  <2>3. CASE j.keys = {s}
    <3>1. \A l : l \in junction' <=> l \in junction /\ l[1] # j.id
      <4>1. ASSUME NEW l \in junction PROVE l[1] = j.id <=> l = <<j.id, s>>
        <5>1. l = <<l[1], l[2]>> /\ l[2] \in Source
          BY <1>0
        <5> QED BY <2>2, <2>3, <5>1 DEF SourcesOf
      <4> QED BY <2>1, <4>1
    <3> QED BY <2>1, <2>2, <2>3, <3>1, RemovalEnds
  <2>4. CASE j.keys # {s}
    <3>1. /\ job'[c].op = j.op /\ job'[c].at = "unlink" /\ job'[c].id = j.id /\ job'[c].todo = j.todo
      BY <1>0, <2>1, <2>2, <2>4 DEF Job
    <3>2. Gone(j)' = Gone(j) /\ (Happened(j)' <=> Happened(j)) /\ j.id \in Gone(j)
      BY <2>2, <3>1 DEF Gone, Happened
    <3>3. SameBooks(c)
      <4>1. FactsOf(j)' = FactsOf(j)
        BY <2>2, <3>2 DEF FactsOf
      <4>2. LinksOf(j) = {l \in junction : l[1] \notin Gone(j)}
        BY <2>2 DEF LinksOf
      <4>3. LinksOf(j)' = {l \in junction' : l[1] \notin Gone(j)}
        BY <3>1, <3>2 DEF LinksOf
      <4>4. \A l : l[1] \notin Gone(j) => l # <<j.id, s>>
        BY <3>2
      <4>5. LinksOf(j)' = LinksOf(j)
        BY <2>1, <4>2, <4>3, <4>4
      <4> QED BY <2>2, <4>1, <4>5 DEF SameBooks
    <3> QED BY <3>1, <3>2, <3>3, Invisible
  <2> QED BY <2>3, <2>4
<1>5. CASE LinkSource(c)
  <2>1. PICK t \in j.todo :
            /\ junction' = junction \cup {<<t, j.src>>}
            /\ job' = [job EXCEPT ![c] = IF j.todo = {t} THEN Idle ELSE [j EXCEPT !.todo = @ \ {t}]]
    BY <1>5 DEF LinkSource
  <2>2. j.at = "link" /\ UNCHANGED <<triples, sources>> /\ j.op = "source"
    BY <1>0, <1>5 DEF LinkSource, JobOK, Legal
  <2>3. Gone(j) = {} /\ Happened(j) /\ LinksOf(j) = junction \cup (j.todo \X {j.src})
    BY <2>2 DEF Gone, Happened, LinksOf, None
  <2>4. CASE j.todo = {t}
    <3>1. job'[c] = Idle
      BY <1>0, <2>1, <2>4
    <3>2. job'[c].op = None /\ Gone(j)' = {} /\ LinksOf(j)' = junction'
      BY <3>1, IdleFacts DEF Gone, LinksOf, None
    <3>3. j.todo \X {j.src} = {<<t, j.src>>}
      BY <2>4
    <3>4. SameBooks(c)
      BY <2>1, <2>2, <2>3, <3>2, <3>3 DEF SameBooks, FactsOf
    <3> QED BY <2>3, <3>2, <3>4, Returns
  <2>5. CASE j.todo # {t}
    <3>1. /\ job'[c].op = "source" /\ job'[c].at = "link" /\ job'[c].src = j.src
          /\ job'[c].todo = j.todo \ {t}
      BY <1>0, <2>1, <2>2, <2>5 DEF Job
    <3>2. Gone(j)' = {} /\ Happened(j)' /\ LinksOf(j)' = junction' \cup ((j.todo \ {t}) \X {j.src})
      BY <3>1 DEF Gone, Happened, LinksOf, None
    <3>3. {<<t, j.src>>} \cup ((j.todo \ {t}) \X {j.src}) = j.todo \X {j.src}
      BY <2>1
    <3>4. SameBooks(c)
      BY <2>1, <2>2, <2>3, <3>2, <3>3 DEF SameBooks, FactsOf
    <3> QED BY <2>2, <2>3, <3>1, <3>2, <3>4, Invisible
  <2> QED BY <2>4, <2>5
<1>6. CASE NextVictim(c)
  <2>1. PICK t \in j.todo :
            job' = [job EXCEPT ![c] = [j EXCEPT !.at = "unindex", !.id = t, !.k = SPO, !.todo = @ \ {t}]]
    BY <1>6 DEF NextVictim
  <2>2. /\ j.at = "next" /\ UNCHANGED <<triples, sources, junction>>
        /\ job'[c].op = j.op /\ job'[c].at = "unindex" /\ job'[c].id = t /\ job'[c].todo = j.todo \ {t}
    BY <1>0, <1>6, <2>1 DEF NextVictim, Job, trees
  <2>3. j.op = "evict" /\ j.id = None
    BY <1>0, <2>1, <2>2 DEF JobOK, Legal, FaithfulJob
  <2>4. Gone(j)' = Gone(j) /\ (Happened(j)' <=> Happened(j))
    BY <2>1, <2>2, <2>3, ViewAssumption DEF Gone, Happened
  <2>5. SameBooks(c)
    BY <2>2, <2>4 DEF SameBooks, FactsOf, LinksOf
  <2> QED BY <2>2, <2>4, <2>5, Invisible
<1>7. ASSUME NEW t \in Triple, EvictVisit(c, t) PROVE [Abstract!Next]_(Abstract!vars)
  <2> DEFINE todo == IF t \in Present /\ triples[t] < Threshold THEN j.todo \cup {t} ELSE j.todo
             victims == {u \in Present : triples[u] < Threshold}
  <2>1. /\ j.at = "scan" /\ j.op = "evict" /\ t \in j.scan /\ UNCHANGED <<triples, sources, junction>>
        /\ job' = [job EXCEPT ![c] = IF j.scan # {t} THEN [j EXCEPT !.scan = @ \ {t}, !.todo = todo]
                                 ELSE AfterRemoval([j EXCEPT !.scan = {}, !.todo = todo])]
    BY <1>7 DEF EvictVisit, trees
  <2>2. Gone(j) = {} /\ ~Happened(j)
    BY <2>1 DEF Gone, Happened
  <2>3. CASE j.scan # {t}
    <3>1. job'[c].op = "evict" /\ job'[c].at = "scan"
      BY <1>0, <2>1, <2>3 DEF Job
    <3>2. Gone(j)' = {} /\ ~Happened(j)'
      BY <3>1 DEF Gone, Happened
    <3>3. SameBooks(c)
      BY <2>1, <2>2, <3>1, <3>2, NothingGone
    <3> QED BY <2>1, <2>2, <3>1, <3>2, <3>3, Invisible
  <2>4. CASE j.scan = {t}
    <3>1. todo = victims
      <4>1. j.todo = {u \in Present \ {t} : triples[u] < Threshold}
        BY <1>0, <2>1, <2>4 DEF FaithfulJob
      <4> QED BY <4>1
    <3>2. job'[c] = AfterRemoval([j EXCEPT !.scan = {}, !.todo = victims])
      BY <1>0, <2>1, <2>4, <3>1
    <3>3. victims \subseteq Triple
      BY DEF Present
    <3> HIDE DEF victims, todo
    <3>4. /\ Gone(j)' = victims /\ job'[c].at # "link"
          /\ (job'[c].op = "evict" /\ Happened(j)') \/ job'[c].op = None
      <4>1. CASE victims = {}
        <5>1. job'[c] = Idle
          BY <1>0, <3>2, <4>1 DEF AfterRemoval, Job
        <5> QED BY <4>1, <5>1, IdleFacts DEF Gone, None
      <4>2. CASE victims # {}
        <5>1. /\ job'[c].op = "evict" /\ job'[c].at = "next" /\ job'[c].id = None
              /\ job'[c].todo = victims
          BY <1>0, <2>1, <3>2, <4>2 DEF AfterRemoval, Job
        <5> QED BY <3>3, <5>1, ViewAssumption DEF Gone, Happened, None
      <4> QED BY <4>1, <4>2
    <3>5. Abstract!Happens(c, "evict")
      BY <2>1, <2>2, <3>4, HappensNow
    <3>6. Facts = [u \in Triple |-> triples[u]] /\ Links = junction
      <4>1. FactsOf(j) = [u \in Triple |-> triples[u]] /\ LinksOf(j) = junction
        BY <2>1, <2>2 DEF FactsOf, LinksOf
      <4> QED BY <4>1 DEF Views
    <3>7. victims = {u \in Abstract!Stored : Facts[u] < Threshold}
      BY <3>6 DEF Abstract!Stored, Present, victims
    <3>8. Facts' = [u \in Triple |-> IF u \in victims THEN Absent ELSE Facts[u]]
      BY <2>1, <3>4, <3>6 DEF Views, FactsOf
    <3>9. Links' = {l \in Links : l[1] \notin victims}
      BY <2>1, <3>4, <3>6 DEF Views, LinksOf
    <3>10. Abstract!EvictBelowWeight(c)
      BY <2>1, <3>5, <3>7, <3>8, <3>9 DEF Abstract!EvictBelowWeight, Abstract!Remove
    <3> QED BY <3>10 DEF Abstract!Next, Abstract!Step
  <2> QED BY <2>3, <2>4
<1> QED BY <1>1, <1>2, <1>3, <1>4, <1>5, <1>6, <1>7

-----------------------------------------------------------------------------
(* A caller that is alone cannot tell the five trees from one store whose  *)
(* operations happen in one step, whatever operations it calls, unless it  *)
(* calls decay with a floor: SledStore::decay makes nothing of that.       *)
THEOREM Implements ==
  ASSUME OneClient, NoFloor
  PROVE  Spec => ImplementsTripleStore
<1>1. Spec => []Alone
  BY AloneInit, AloneStep, PTL DEF Spec
<1>2. Alone /\ Alone' /\ [Next]_vars => [Abstract!Next]_(Abstract!vars)
  <2> SUFFICES ASSUME Alone, Alone', [Next]_vars PROVE [Abstract!Next]_(Abstract!vars)
    OBVIOUS
  <2>1. Views /\ Views'
    BY View, ViewThen
  <2>2. CASE UNCHANGED vars
    BY <2>2 DEF vars, Abstract!vars, Facts, Links, Linking, Call, Done, Happened, Leaving, Removing,
                Found, Settled, WorkingOn, Query
  <2>3. ASSUME NEW c \in Client, Step(c) PROVE [Abstract!Next]_(Abstract!vars)
    BY <2>1, <2>3, StartRefined, WriteRefined, RemoveRefined DEF Step
  <2> QED BY <2>2, <2>3 DEF Next
<1> QED BY <1>1, <1>2, InitRefined, PTL DEF Spec, ImplementsTripleStore, Abstract!Spec

-----------------------------------------------------------------------------
(***************************************************************************)
(* Any number of callers that take nothing away.  A record once written    *)
(* stays, so that what touch writes back is still stored, nothing is       *)
(* leaving, and an index entry that is missing belongs to a caller at work *)
(* (IInv): the store shows its records as they are, and beside the         *)
(* junction the entries that callers have still to write.                  *)
(***************************************************************************)

OnlyWrites == Ops \subseteq {"insert", "update", "touch", "source"}

(* What the store shows while nothing is taken away. *)
Shown ==
    /\ Facts = [t \in Triple |-> triples[t]]
    /\ \A l : l \in Links <=> \/ l \in junction
                              \/ \E d \in Client : job[d].at = "link" /\ l \in job[d].todo \X {job[d].src}

LEMMA WritersShow == OnlyWrites /\ IInv => Shown
<1> SUFFICES ASSUME OnlyWrites, IInv PROVE Shown
  OBVIOUS
<1>0. TypeInv
  BY DEF IInv, TypeInv
<1>1. \A c \in Client : job[c].op \in Ops \cup {None}
  BY <1>0, JobHas DEF JobOK
<1>2. Leaving = {}
  BY <1>1 DEF Leaving, Removing, OnlyWrites, None
<1>3. ASSUME NEW t \in Triple PROVE Found(t) \/ triples[t] = Absent
  <2> SUFFICES ASSUME Settled(t), triples[t] # Absent, NEW x \in Tree PROVE t \in index[x]
    BY DEF Found, Query
  <2>1. \A d \in Client : ~WillSettle(d, t, x)
    BY DEF Settled, WorkingOn, WillSettle
  <2> QED BY <2>1 DEF IInv, Accounted, AccountedAt
<1>4. Facts = [t \in Triple |-> triples[t]]
  BY <1>2, <1>3 DEF Facts
<1>5. \A l : l \in Linking <=> \E d \in Client : job[d].at = "link" /\ l \in job[d].todo \X {job[d].src}
  BY DEF Linking
<1> QED BY <1>2, <1>4, <1>5 DEF Shown, Links

LEMMA WritersShowThen == OnlyWrites /\ IInv' => Shown'
<1>1. OnlyWrites /\ IInv => Shown
  BY WritersShow
<1>2. OnlyWrites' <=> OnlyWrites
  BY DEF OnlyWrites
<1> QED BY <1>1, <1>2, PTL

(* A call that writes no junction entry and begins or ends no linking.     *)
LEMMA SameLinks ==
  ASSUME Shown, Shown', NEW c \in Client, OthersWait(c), junction' = junction,
         job[c].at # "link", job'[c].at # "link"
  PROVE  Links' = Links
<1>1. \A l : l \in Links' <=> l \in Links
  <2> SUFFICES ASSUME NEW l PROVE
        (\E d \in Client : job'[d].at = "link" /\ l \in job'[d].todo \X {job'[d].src})
          <=> (\E d \in Client : job[d].at = "link" /\ l \in job[d].todo \X {job[d].src})
    BY DEF Shown
  <2> QED BY DEF OthersWait
<1>2. Links' = {l \in Links' : TRUE} /\ Links = {l \in Links : TRUE}
  BY DEF Links
<1> QED BY <1>1, <1>2

LEMMA WriterRefined ==
  ASSUME OnlyWrites, IInv, Shown, Shown', NEW c \in Client, Step(c)
  PROVE  [Abstract!Next]_(Abstract!vars)
<1> DEFINE j == job[c]
<1>0. /\ JobOK(j) /\ j \in Job /\ job \in [Client -> Job]
      /\ triples \in [Triple -> Stored] /\ junction \in SUBSET (Triple \X Source)
  BY JobHas DEF IInv, TypeInv, TypeOK, JobOK
<1>s. /\ Facts = [t \in Triple |-> triples[t]] /\ Facts' = [t \in Triple |-> triples'[t]]
  BY DEF Shown
<1>m. /\ "delete" \notin Ops /\ "evict" \notin Ops /\ "decay" \notin Ops
      /\ j.op \in {"insert", "update", "touch", "source", None}
  BY <1>0 DEF OnlyWrites, JobOK
<1>i. ASSUME job'[c] = Idle
      PROVE  job'[c].op = None /\ job'[c].at = "idle" /\ ~Happened(j)'
  BY <1>i, IdleFacts DEF Happened, None
<1>o. ASSUME j.at = "idle" PROVE j.op = None
  BY <1>0, <1>o DEF JobOK, Legal, None, AllOps
<1>1. ASSUME NEW t \in Triple, NEW w \in Weight, InsertTriple(c, t, w) PROVE Abstract!Next
  <2>1. /\ job'[c].op = "insert" /\ job'[c].at = "index" /\ OthersWait(c) /\ j.op = None
        /\ triples' = [triples EXCEPT ![t] = w] /\ UNCHANGED <<sources, junction>> /\ j.at = "idle"
    BY <1>0, <1>1, <1>o DEF InsertTriple, Idle, Start, OthersWait
  <2>2. Happened(j)'
    BY <2>1 DEF Happened, None
  <2>3. Abstract!Happens(c, "insert")
    BY <2>1, <2>2, StepHappens
  <2>4. Facts' = [Facts EXCEPT ![t] = w] /\ Links' = Links
    BY <1>0, <1>s, <2>1, SameLinks
  <2>5. Abstract!InsertTriple(c, t, w)
    BY <2>1, <2>3, <2>4 DEF Abstract!InsertTriple, Abstract!Put
  <2> QED BY <2>5 DEF Abstract!Next, Abstract!Step
<1>2. ASSUME NEW t \in Triple, NEW w \in Weight, UpdateTriple(c, t, w) PROVE Abstract!Next
  <2>1. /\ job'[c].op = "update" /\ job'[c].at \in {"unindex", "write"} /\ "update" \in Ops
        /\ UNCHANGED <<triples, sources, junction>> /\ OthersWait(c) /\ j.op = None /\ j.at = "idle"
    BY <1>0, <1>2, <1>o DEF UpdateTriple, Start, Idle, trees, OthersWait
  <2>2. ~Happened(j)' /\ SameShown
    BY <1>s, <2>1, SameLinks DEF Happened, SameShown
  <2> QED BY <2>1, <2>2, StepBegins
<1>3. ASSUME NEW t \in Triple, TouchTriple(c, t) PROVE Abstract!Next
  <2>1. /\ job'[c].op = "touch" /\ job'[c].at = "rewrite" /\ "touch" \in Ops
        /\ UNCHANGED <<triples, sources, junction>> /\ OthersWait(c) /\ j.op = None /\ j.at = "idle"
    BY <1>0, <1>3, <1>o DEF TouchTriple, Start, Idle, trees, OthersWait
  <2>2. ~Happened(j)' /\ SameShown
    BY <1>s, <2>1, SameLinks DEF Happened, SameShown
  <2> QED BY <2>1, <2>2, StepBegins
<1>4. ASSUME NEW s \in Source, NEW ts \in SUBSET Triple, InsertSource(c, s, ts) PROVE Abstract!Next
  <2>1. /\ job'[c].op = "source" /\ job'[c].at = "link" /\ job'[c].src = s /\ job'[c].todo = ts
        /\ s \notin sources /\ sources' = sources \cup {s} /\ UNCHANGED <<triples, junction>>
        /\ OthersWait(c) /\ j.op = None /\ j.at = "idle"
    BY <1>0, <1>4, <1>o DEF InsertSource, Idle, Start, OthersWait
  <2>2. Happened(j)'
    BY <2>1 DEF Happened, None
  <2>3. Abstract!Happens(c, "source")
    BY <2>1, <2>2, StepHappens
  <2>4. Facts' = Facts
    BY <1>s, <2>1
  <2>5. Links' = Links \cup (ts \X {s})
    <3>1. ASSUME NEW l PROVE l \in Links' <=> l \in Links \/ l \in ts \X {s}
      <4> DEFINE Q(d) == job[d].at = "link" /\ l \in job[d].todo \X {job[d].src}
                 P(d) == job'[d].at = "link" /\ l \in job'[d].todo \X {job'[d].src}
      <4>1. (P(c) <=> l \in ts \X {s}) /\ ~Q(c) /\ \A d \in Client : d # c => (P(d) <=> Q(d))
        BY <2>1 DEF OthersWait
      <4>2. (\E d \in Client : P(d)) <=> (\E d \in Client : Q(d)) \/ l \in ts \X {s}
        BY <4>1
      <4> QED BY <2>1, <4>2 DEF Shown
    <3>2. Links' = {l \in Links' : TRUE} /\ Links = {l \in Links : TRUE}
      BY DEF Links
    <3> QED BY <3>1, <3>2
  <2>6. Abstract!InsertSource(c, s, ts)
    BY <2>1, <2>3, <2>4, <2>5 DEF Abstract!InsertSource
  <2> QED BY <2>1, <2>6 DEF Abstract!Next, Abstract!Step
<1>5. CASE InsertIndex(c)
  <2>1. /\ j.at = "index" /\ UNCHANGED <<triples, sources, junction>> /\ OthersWait(c)
        /\ job' = [job EXCEPT ![c] = IF j.k = OSP THEN Idle ELSE [j EXCEPT !.k = @ + 1]]
    BY <1>0, <1>5 DEF InsertIndex, OthersWait
  <2>2. Happened(j) /\ j.op # None
    BY <1>0, <2>1 DEF Happened, JobOK, Legal, None
  <2>3. CASE j.k = OSP
    <3>1. job'[c] = Idle
      BY <1>0, <2>1, <2>3
    <3>2. SameShown
      BY <1>i, <1>s, <2>1, <3>1, SameLinks DEF SameShown
    <3> QED BY <1>i, <2>1, <2>2, <3>1, <3>2, StepReturns
  <2>4. CASE j.k # OSP
    <3>1. job'[c].op = j.op /\ job'[c].at = "index"
      BY <1>0, <2>1, <2>4 DEF Job
    <3>2. Happened(j)' /\ SameShown
      BY <1>s, <2>1, <2>2, <3>1, SameLinks DEF Happened, SameShown
    <3> QED BY <2>1, <2>2, <3>1, <3>2, StepInvisible
  <2> QED BY <2>3, <2>4
<1>6. CASE RemoveIndex(c)
  <2>1. /\ j.at = "unindex" /\ j.op = "update" /\ job'[c].op = j.op
        /\ job'[c].at \in {"unindex", "write"} /\ UNCHANGED <<triples, sources, junction>>
        /\ OthersWait(c)
    BY <1>0, <1>6, <1>m DEF RemoveIndex, Job, JobOK, Legal, OthersWait, None
  <2>2. SameShown /\ (Happened(j)' <=> Happened(j))
    BY <1>s, <2>1, SameLinks DEF SameShown, Happened
  <2> QED BY <2>1, <2>2, StepInvisible
<1>7. CASE WriteUpdated(c)
  <2>1. /\ job'[c].op = j.op /\ job'[c].at = "index" /\ j.at = "write" /\ OthersWait(c)
        /\ triples' = [triples EXCEPT ![j.id] = j.val] /\ UNCHANGED <<sources, junction>>
    BY <1>0, <1>7 DEF WriteUpdated, Job, OthersWait
  <2>2. j.op = "update" /\ j.id \in Triple /\ j.val \in Weight
    BY <1>0, <2>1 DEF JobOK, Legal
  <2>3. Abstract!Happens(c, "update")
    <3>1. ~Happened(j) /\ Happened(j)'
      BY <2>1, <2>2 DEF Happened, None
    <3> QED BY <2>1, <2>2, <3>1, StepHappens
  <2>4. Facts' = [Facts EXCEPT ![j.id] = j.val] /\ Links' = Links
    BY <1>0, <1>s, <2>1, <2>2, SameLinks
  <2>5. Abstract!UpdateTriple(c, j.id, j.val)
    BY <2>1, <2>3, <2>4 DEF Abstract!UpdateTriple, Abstract!Put
  <2> QED BY <2>2, <2>5 DEF Abstract!Next, Abstract!Step
<1>8. CASE WriteTouched(c)
  <2>1. /\ j.at = "rewrite" /\ job'[c] = Idle /\ OthersWait(c)
        /\ triples' = [triples EXCEPT ![j.id] = Full] /\ UNCHANGED <<sources, junction>>
    BY <1>0, <1>8 DEF WriteTouched, OthersWait
  <2>2. j.op = "touch" /\ j.id \in Triple
    BY <1>0, <2>1 DEF JobOK, Legal
  <2>3. triples[j.id] # Absent
    BY <2>1 DEF IInv, CopiesLive, OnlyWrites
  <2>4. Abstract!Happens(c, "touch")
    <3>1. ~Happened(j)
      BY <2>2 DEF Happened
    <3> QED BY <1>i, <2>1, <2>2, <3>1, StepHappens
  <2>5. Facts' = [Facts EXCEPT ![j.id] = Full] /\ Links' = Links
    BY <1>0, <1>i, <1>s, <2>1, <2>2, SameLinks
  <2>6. j.id \in Abstract!Stored
    BY <1>s, <2>2, <2>3 DEF Abstract!Stored
  <2>7. Abstract!TouchTriple(c, j.id)
    BY <2>1, <2>4, <2>5, <2>6 DEF Abstract!TouchTriple, Abstract!Put
  <2> QED BY <2>2, <2>7 DEF Abstract!Next, Abstract!Step
<1>9. CASE LinkSource(c)
  <2>1. PICK t \in j.todo :
            /\ junction' = junction \cup {<<t, j.src>>}
            /\ job' = [job EXCEPT ![c] = IF j.todo = {t} THEN Idle ELSE [j EXCEPT !.todo = @ \ {t}]]
    BY <1>9 DEF LinkSource
  <2>2. j.at = "link" /\ UNCHANGED <<triples, sources>> /\ j.op = "source" /\ Happened(j) /\ OthersWait(c)
    BY <1>0, <1>9, <2>1 DEF LinkSource, JobOK, Legal, OthersWait, Happened, None
  <2> DEFINE rest == IF job'[c].at = "link" THEN job'[c].todo \X {job'[c].src} ELSE {}
  <2>3. /\ \/ j.todo = {t} /\ job'[c].op = None /\ job'[c].at # "link"
           \/ /\ j.todo # {t} /\ job'[c].op = "source" /\ job'[c].at = "link" /\ job'[c].src = j.src
              /\ job'[c].todo = j.todo \ {t}
    <3>1. CASE j.todo = {t}
      <4>1. job'[c] = Idle
        BY <1>0, <2>1, <3>1
      <4> QED BY <1>i, <3>1, <4>1
    <3>2. CASE j.todo # {t}
      BY <1>0, <2>1, <2>2, <3>2 DEF Job
    <3> QED BY <3>1, <3>2
  <2>4. \A l : l \in rest \/ l = <<t, j.src>> <=> l \in j.todo \X {j.src}
    <3>1. CASE j.todo = {t} /\ job'[c].at # "link"
      BY <3>1
    <3>2. CASE job'[c].at = "link" /\ job'[c].src = j.src /\ job'[c].todo = j.todo \ {t}
      <4>1. \A l : l \in (j.todo \ {t}) \X {j.src} \/ l = <<t, j.src>> <=> l \in j.todo \X {j.src}
        BY <2>1
      <4> QED BY <3>2, <4>1
    <3> QED BY <2>3, <3>1, <3>2
  <2>5. Links' = Links
    <3>1. ASSUME NEW l PROVE l \in Links' <=> l \in Links
      <4> DEFINE Q(d) == job[d].at = "link" /\ l \in job[d].todo \X {job[d].src}
                 P(d) == job'[d].at = "link" /\ l \in job'[d].todo \X {job'[d].src}
      <4>1. /\ P(c) <=> l \in rest
            /\ Q(c) <=> l \in j.todo \X {j.src}
            /\ \A d \in Client : d # c => (P(d) <=> Q(d))
        BY <2>2 DEF OthersWait
      <4>2. /\ l \in Links' <=> l \in junction' \/ \E d \in Client : P(d)
            /\ l \in Links <=> l \in junction \/ \E d \in Client : Q(d)
            /\ l \in junction' <=> l \in junction \/ l = <<t, j.src>>
        BY <2>1 DEF Shown
      <4>3. (l = <<t, j.src>> \/ P(c)) <=> Q(c)
        BY <2>4, <4>1
      <4> HIDE DEF P, Q
      <4> QED BY <4>1, <4>2, <4>3
    <3>2. Links' = {l \in Links' : TRUE} /\ Links = {l \in Links : TRUE}
      BY DEF Links
    <3> QED BY <3>1, <3>2
  <2>6. SameShown
    BY <1>s, <2>2, <2>5 DEF SameShown
  <2>7. CASE job'[c].op = None
    BY <2>2, <2>6, <2>7, StepReturns
  <2>8. CASE job'[c].op = "source"
    <3>1. Happened(j)'
      BY <2>8 DEF Happened, None
    <3> QED BY <2>2, <2>6, <2>8, <3>1, StepInvisible
  <2> QED BY <2>3, <2>7, <2>8
<1>10. ASSUME NEW t \in Triple PROVE ~DeleteTriple(c, t) /\ ~DecayVisit(c, t) /\ ~EvictVisit(c, t)
  BY <1>0, <1>m DEF DeleteTriple, DecayVisit, EvictVisit, Start, None
<1>11. \A op \in AllOps : ~Sweep(c, op)
  BY <1>m DEF Sweep, Start
<1>12. ~EraseTriple(c) /\ ~CollectSources(c) /\ ~UnlinkSource(c) /\ ~ApplyDecay(c) /\ ~NextVictim(c)
  BY <1>0, <1>m DEF EraseTriple, CollectSources, UnlinkSource, ApplyDecay, NextVictim, JobOK, Legal, None
<1> QED BY <1>1, <1>2, <1>3, <1>4, <1>5, <1>6, <1>7, <1>8, <1>9, <1>10, <1>11, <1>12 DEF Step

(* Callers that insert, update and touch triples and name their sources,   *)
(* however many and however their calls on the trees interleave, cannot    *)
(* tell the five trees from one store whose operations happen in one step. *)
THEOREM WritersImplement ==
  ASSUME OnlyWrites
  PROVE  Spec => ImplementsTripleStore
<1>0. SafeMix
  BY DEF OnlyWrites, SafeMix
<1>1. Spec => []IInv
  BY <1>0, IInvInit, IInvStep, PTL DEF Spec
<1>2. IInv /\ IInv' /\ [Next]_vars => [Abstract!Next]_(Abstract!vars)
  <2> SUFFICES ASSUME IInv, IInv', [Next]_vars PROVE [Abstract!Next]_(Abstract!vars)
    OBVIOUS
  <2>1. Shown /\ Shown'
    BY WritersShow, WritersShowThen
  <2>2. CASE UNCHANGED vars
    BY <2>2 DEF vars, Abstract!vars, Facts, Links, Linking, Call, Done, Happened, Leaving, Removing,
                Found, Settled, WorkingOn, Query
  <2>3. ASSUME NEW c \in Client, Step(c) PROVE [Abstract!Next]_(Abstract!vars)
    BY <2>1, <2>3, WriterRefined
  <2> QED BY <2>2, <2>3 DEF Next
<1>3. Init => Abstract!Init
  BY InitRefined
<1> QED BY <1>1, <1>2, <1>3, PTL DEF Spec, ImplementsTripleStore, Abstract!Spec
=============================================================================
