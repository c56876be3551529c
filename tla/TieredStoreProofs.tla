-------------------------- MODULE TieredStoreProofs --------------------------
(***************************************************************************)
(* Proofs about TieredStore, for any number of callers and triples.        *)
(*                                                                         *)
(* While someone holds the metadata, hot set and metadata differ in the    *)
(* triple the holder is about (Between), which is why letting go of the    *)
(* lock any earlier would show.  And whoever takes a triple off the books  *)
(* after it was stored again finds it marked as overtaken: nobody clears   *)
(* the mark while a removal is under way (Marked).                         *)
(***************************************************************************)
EXTENDS TieredStore, TLAPS

(* What a caller carries with it at each of its steps. *)
JobsNamed == \A c \in Caller :
    /\ job[c].at \in {"record", "demote"} => job[c].t = None
    /\ job[c].at \notin {"done", "record", "demote"} => job[c].t \in Triple

HotMeta == {t \in Triple : metadata[t] = "hot"}

(* In the middle of a change of the two, they differ in one triple. *)
Between == \A c \in Caller : metaLock = c =>
    /\ job[c].at = "insertHot" => HotMeta = hotTriples \cup {job[c].t}
    /\ job[c].at = "removeHot" => HotMeta = hotTriples \ {job[c].t}

(* A triple that is stored although its removal goes on is marked. *)
Marked == \A t \in hot : Removers(t) # {} => t \in overtaken

TInv == TypeOK /\ JobsNamed /\ TierAgrees /\ Between /\ Marked /\ StoredFound

-----------------------------------------------------------------------------
LEMMA Jobs ==
  ASSUME NEW r \in Job
  PROVE  r.at \in {"done", "insertMeta", "insertHot", "lookup", "removeMeta", "removeHot",
                   "demote", "deleteHot", "record"}
         /\ r.t \in Triple \cup {None} /\ r.todo \in SUBSET Triple /\ r.tier \in {"cold", None}
  BY DEF Job

LEMMA DoneJob == Done \in Job /\ Done.at = "done" /\ Done.t = None /\ Done.todo = {} /\ Done.tier = None
  BY DEF Done, Job

LEMMA InitTInv == Init => TInv
  BY TieredAssumption, DoneJob DEF Init, TInv, TypeOK, JobsNamed, TierAgrees, Between, Marked, StoredFound

LEMMA InsertKeeps ==
  ASSUME TInv, NEW c \in Caller, NEW t \in Triple, Insert(c, t)
  PROVE  TInv'
<1>1. TypeOK'
  <2>1. [Done EXCEPT !.at = "insertMeta", !.t = t] \in Job
    BY DEF TInv, TypeOK, Job, Done
  <2>2. job' \in [Caller -> Job]
    BY <2>1 DEF TInv, TypeOK, Insert, Goto
  <2>3. \A d \in Caller : (metaLock' = d) = (job'[d].at \in {"insertHot", "removeHot"})
    BY TieredAssumption DEF TInv, TypeOK, Job, Done, Insert, Restored, Goto, At
  <2> QED BY <2>2, <2>3 DEF TInv, TypeOK, Job, Insert, Restored, Goto, At
<1>2. JobsNamed'
  BY TieredAssumption DEF TInv, TypeOK, JobsNamed, Job, Done, Insert, Restored, Goto, At
<1>3. TierAgrees'
  BY TieredAssumption DEF TInv, TypeOK, TierAgrees, Between, HotMeta, JobsNamed, Done, Insert, Restored, Goto, At
<1>4. Between'
  BY TieredAssumption DEF TInv, TypeOK, TierAgrees, Between, HotMeta, JobsNamed, Done, Insert, Restored, Goto, At
<1>5. Marked'
  BY TieredAssumption DEF TInv, TypeOK, Marked, Removers, JobsNamed, Done, Insert, Restored, Goto, At
<1>6. StoredFound'
  BY TieredAssumption DEF TInv, TypeOK, StoredFound, AtWork, Marked, Removers, JobsNamed, Done, Insert, Restored, Goto, At
<1> QED BY <1>1, <1>2, <1>3, <1>4, <1>5, <1>6 DEF TInv

LEMMA InsertMetaKeeps ==
  ASSUME TInv, NEW c \in Caller, InsertMeta(c)
  PROVE  TInv'
<1>1. TypeOK'
  <2>1. [job[c] EXCEPT !.at = "insertHot"] \in Job
    BY DEF TInv, TypeOK, Job, Done
  <2>2. job' \in [Caller -> Job]
    BY <2>1 DEF TInv, TypeOK, InsertMeta, Goto
  <2>3. \A d \in Caller : (metaLock' = d) = (job'[d].at \in {"insertHot", "removeHot"})
    BY TieredAssumption DEF TInv, TypeOK, Job, Done, InsertMeta, Goto, At
  <2> QED BY <2>2, <2>3 DEF TInv, TypeOK, Job, InsertMeta, Goto, At
<1>2. JobsNamed'
  BY TieredAssumption DEF TInv, TypeOK, JobsNamed, Job, Done, InsertMeta, Goto, At
<1>3. TierAgrees'
  BY TieredAssumption DEF TInv, TypeOK, TierAgrees, Between, HotMeta, JobsNamed, Done, InsertMeta, Goto, At
<1>4. Between'
  BY TieredAssumption DEF TInv, TypeOK, TierAgrees, Between, HotMeta, JobsNamed, Done, InsertMeta, Goto, At
<1>5. Marked'
  BY TieredAssumption DEF TInv, TypeOK, Marked, Removers, JobsNamed, Done, InsertMeta, Goto, At
<1>6. StoredFound'
  BY TieredAssumption DEF TInv, TypeOK, StoredFound, AtWork, Marked, Removers, JobsNamed, Done, InsertMeta, Goto, At
<1> QED BY <1>1, <1>2, <1>3, <1>4, <1>5, <1>6 DEF TInv

LEMMA InsertHotKeeps ==
  ASSUME TInv, NEW c \in Caller, InsertHot(c)
  PROVE  TInv'
<1>1. TypeOK'
  <2>1. Done \in Job
    BY DEF TInv, TypeOK, Job, Done
  <2>2. job' \in [Caller -> Job]
    BY <2>1 DEF TInv, TypeOK, InsertHot, Goto
  <2>3. \A d \in Caller : (metaLock' = d) = (job'[d].at \in {"insertHot", "removeHot"})
    BY TieredAssumption DEF TInv, TypeOK, Job, Done, InsertHot, Goto, At
  <2>4. job[c].t \in Triple
    BY DEF TInv, JobsNamed, InsertHot, At
  <2> QED BY <2>2, <2>3, <2>4 DEF TInv, TypeOK, InsertHot
<1>2. JobsNamed'
  BY TieredAssumption DEF TInv, TypeOK, JobsNamed, Job, Done, InsertHot, Goto, At
<1>3. TierAgrees'
  BY TieredAssumption DEF TInv, TypeOK, TierAgrees, Between, HotMeta, JobsNamed, Done, InsertHot, Goto, At
<1>4. Between'
  BY TieredAssumption DEF TInv, TypeOK, TierAgrees, Between, HotMeta, JobsNamed, Done, InsertHot, Goto, At
<1>5. Marked'
  BY TieredAssumption DEF TInv, TypeOK, Marked, Removers, JobsNamed, Done, InsertHot, Goto, At
<1>6. StoredFound'
  BY TieredAssumption DEF TInv, TypeOK, StoredFound, AtWork, Marked, Removers, JobsNamed, Done, InsertHot, Goto, At
<1> QED BY <1>1, <1>2, <1>3, <1>4, <1>5, <1>6 DEF TInv

LEMMA GetKeeps ==
  ASSUME TInv, NEW c \in Caller, NEW t \in Triple, Get(c, t)
  PROVE  TInv'
<1>1. TypeOK'
  <2>1. [Done EXCEPT !.at = "lookup", !.t = t] \in Job
    BY DEF TInv, TypeOK, Job, Done
  <2>2. job' \in [Caller -> Job]
    BY <2>1 DEF TInv, TypeOK, Get, Goto
  <2>3. \A d \in Caller : (metaLock' = d) = (job'[d].at \in {"insertHot", "removeHot"})
    BY TieredAssumption DEF TInv, TypeOK, Job, Done, Get, Accessed, Goto, At
  <2> QED BY <2>2, <2>3 DEF TInv, TypeOK, Job, Get, Accessed, Goto, At
<1>2. JobsNamed'
  BY TieredAssumption DEF TInv, TypeOK, JobsNamed, Job, Done, Get, Accessed, Goto, At
<1>3. TierAgrees'
  BY TieredAssumption DEF TInv, TypeOK, TierAgrees, Between, HotMeta, JobsNamed, Done, Get, Accessed, Goto, At
<1>4. Between'
  BY TieredAssumption DEF TInv, TypeOK, TierAgrees, Between, HotMeta, JobsNamed, Done, Get, Accessed, Goto, At
<1>5. Marked'
  BY TieredAssumption DEF TInv, TypeOK, Marked, Removers, JobsNamed, Done, Get, Accessed, Goto, At
<1>6. StoredFound'
  BY TieredAssumption DEF TInv, TypeOK, StoredFound, AtWork, Marked, Removers, JobsNamed, Done, Get, Accessed, Goto, At
<1> QED BY <1>1, <1>2, <1>3, <1>4, <1>5, <1>6 DEF TInv

LEMMA LookupKeeps ==
  ASSUME TInv, NEW c \in Caller, Lookup(c)
  PROVE  TInv'
<1>1. TypeOK'
  BY TieredAssumption DEF TInv, TypeOK, Job, Done, Lookup, Goto, At, tiered
<1>2. JobsNamed'
  BY TieredAssumption DEF TInv, TypeOK, JobsNamed, Job, Done, Lookup, Goto, At, tiered
<1>3. TierAgrees'
  BY TieredAssumption DEF TInv, TypeOK, TierAgrees, Between, HotMeta, JobsNamed, Done, Lookup, Goto, At, tiered
<1>4. Between'
  BY TieredAssumption DEF TInv, TypeOK, TierAgrees, Between, HotMeta, JobsNamed, Done, Lookup, Goto, At, tiered
<1>5. Marked'
  BY TieredAssumption DEF TInv, TypeOK, Marked, Removers, JobsNamed, Done, Lookup, Goto, At, tiered
<1>6. StoredFound'
  BY TieredAssumption DEF TInv, TypeOK, StoredFound, AtWork, Marked, Removers, JobsNamed, Done, Lookup, Goto, At, tiered
<1> QED BY <1>1, <1>2, <1>3, <1>4, <1>5, <1>6 DEF TInv

LEMMA QueryKeeps ==
  ASSUME TInv, NEW c \in Caller, Query(c)
  PROVE  TInv'
<1>1. TypeOK'
  <2>1. PICK found \in SUBSET hot : job' = [job EXCEPT ![c] = [Done EXCEPT !.at = "record", !.todo = found]]
    BY DEF Query, Goto
  <2>2. [Done EXCEPT !.at = "record", !.todo = found] \in Job
    BY DEF TInv, TypeOK, Job, Done
  <2>3. job' \in [Caller -> Job]
    BY <2>1, <2>2 DEF TInv, TypeOK
  <2>4. \A d \in Caller : (metaLock' = d) = (job'[d].at \in {"insertHot", "removeHot"})
    BY <2>1 DEF TInv, TypeOK, Job, Done, Query, At
  <2> QED BY <2>3, <2>4 DEF TInv, TypeOK, Query, tiered
<1>2. JobsNamed'
  BY TieredAssumption DEF TInv, TypeOK, JobsNamed, Job, Done, Query, Goto, At, tiered
<1>3. TierAgrees'
  BY TieredAssumption DEF TInv, TypeOK, TierAgrees, Between, HotMeta, JobsNamed, Done, Query, Goto, At, tiered
<1>4. Between'
  BY TieredAssumption DEF TInv, TypeOK, TierAgrees, Between, HotMeta, JobsNamed, Done, Query, Goto, At, tiered
<1>5. Marked'
  BY TieredAssumption DEF TInv, TypeOK, Marked, Removers, JobsNamed, Done, Query, Goto, At, tiered
<1>6. StoredFound'
  BY TieredAssumption DEF TInv, TypeOK, StoredFound, AtWork, Marked, Removers, JobsNamed, Done, Query, Goto, At, tiered
<1> QED BY <1>1, <1>2, <1>3, <1>4, <1>5, <1>6 DEF TInv

LEMMA RecordKeeps ==
  ASSUME TInv, NEW c \in Caller, Record(c)
  PROVE  TInv'
<1>1. TypeOK'
  BY TieredAssumption DEF TInv, TypeOK, Job, Done, Record, Accessed, Goto, At
<1>2. JobsNamed'
  BY TieredAssumption DEF TInv, TypeOK, JobsNamed, Job, Done, Record, Accessed, Goto, At
<1>3. TierAgrees'
  BY TieredAssumption DEF TInv, TypeOK, TierAgrees, Between, HotMeta, JobsNamed, Done, Record, Accessed, Goto, At
<1>4. Between'
  BY TieredAssumption DEF TInv, TypeOK, TierAgrees, Between, HotMeta, JobsNamed, Done, Record, Accessed, Goto, At
<1>5. Marked'
  BY TieredAssumption DEF TInv, TypeOK, Marked, Removers, JobsNamed, Done, Record, Accessed, Goto, At
<1>6. StoredFound'
  BY TieredAssumption DEF TInv, TypeOK, StoredFound, AtWork, Marked, Removers, JobsNamed, Done, Record, Accessed, Goto, At
<1> QED BY <1>1, <1>2, <1>3, <1>4, <1>5, <1>6 DEF TInv

LEMMA UpdateKeeps ==
  ASSUME TInv, NEW c \in Caller, NEW t \in Triple, Update(c, t)
  PROVE  TInv'
<1>1. TypeOK'
  BY TieredAssumption DEF TInv, TypeOK, Job, Done, Update, Restored, At
<1>2. JobsNamed'
  BY TieredAssumption DEF TInv, TypeOK, JobsNamed, Job, Done, Update, Restored, At
<1>3. TierAgrees'
  BY TieredAssumption DEF TInv, TypeOK, TierAgrees, Between, HotMeta, JobsNamed, Done, Update, Restored, At
<1>4. Between'
  BY TieredAssumption DEF TInv, TypeOK, TierAgrees, Between, HotMeta, JobsNamed, Done, Update, Restored, At
<1>5. Marked'
  BY TieredAssumption DEF TInv, TypeOK, Marked, Removers, JobsNamed, Done, Update, Restored, At
<1>6. StoredFound'
  BY TieredAssumption DEF TInv, TypeOK, StoredFound, AtWork, Marked, Removers, JobsNamed, Done, Update, Restored, At
<1> QED BY <1>1, <1>2, <1>3, <1>4, <1>5, <1>6 DEF TInv

LEMMA DeleteKeeps ==
  ASSUME TInv, NEW c \in Caller, NEW t \in Triple, Delete(c, t)
  PROVE  TInv'
<1>1. TypeOK'
  <2>1. [Done EXCEPT !.at = "removeMeta", !.t = t] \in Job
    BY DEF TInv, TypeOK, Job, Done
  <2>2. job' \in [Caller -> Job]
    BY <2>1 DEF TInv, TypeOK, Delete, Goto
  <2>3. \A d \in Caller : (metaLock' = d) = (job'[d].at \in {"insertHot", "removeHot"})
    BY TieredAssumption DEF TInv, TypeOK, Job, Done, Delete, Goto, At
  <2> QED BY <2>2, <2>3 DEF TInv, TypeOK, Job, Delete, Goto, At
<1>2. JobsNamed'
  BY TieredAssumption DEF TInv, TypeOK, JobsNamed, Job, Done, Delete, Goto, At
<1>3. TierAgrees'
  BY TieredAssumption DEF TInv, TypeOK, TierAgrees, Between, HotMeta, JobsNamed, Done, Delete, Goto, At
<1>4. Between'
  BY TieredAssumption DEF TInv, TypeOK, TierAgrees, Between, HotMeta, JobsNamed, Done, Delete, Goto, At
<1>5. Marked'
  BY TieredAssumption DEF TInv, TypeOK, Marked, Removers, JobsNamed, Done, Delete, Goto, At
<1>6. StoredFound'
  BY TieredAssumption DEF TInv, TypeOK, StoredFound, AtWork, Marked, Removers, JobsNamed, Done, Delete, Goto, At
<1> QED BY <1>1, <1>2, <1>3, <1>4, <1>5, <1>6 DEF TInv

LEMMA RemoveMetaKeeps ==
  ASSUME TInv, NEW c \in Caller, RemoveMeta(c)
  PROVE  TInv'
<1>1. TypeOK'
  <2>1. [job[c] EXCEPT !.at = "removeHot"] \in Job
    BY DEF TInv, TypeOK, Job, Done
  <2>2. job' \in [Caller -> Job]
    BY <2>1 DEF TInv, TypeOK, RemoveMeta, Goto
  <2>3. \A d \in Caller : (metaLock' = d) = (job'[d].at \in {"insertHot", "removeHot"})
    BY TieredAssumption DEF TInv, TypeOK, Job, Done, RemoveMeta, Goto, At
  <2> QED BY <2>2, <2>3 DEF TInv, TypeOK, Job, RemoveMeta, Goto, At
<1>2. JobsNamed'
  BY TieredAssumption DEF TInv, TypeOK, JobsNamed, Job, Done, RemoveMeta, Goto, At
<1>3. TierAgrees'
  BY TieredAssumption DEF TInv, TypeOK, TierAgrees, Between, HotMeta, JobsNamed, Done, RemoveMeta, Goto, At
<1>4. Between'
  <2>1. job[c].tier # "hot" /\ job[c].t \in Triple
    BY TieredAssumption DEF TInv, TypeOK, Job, JobsNamed, RemoveMeta, At
  <2>2. HotMeta' = hotTriples' \ {job[c].t}
    BY TieredAssumption, <2>1 DEF TInv, TypeOK, TierAgrees, HotMeta, RemoveMeta
  <2>3. metaLock' = c /\ job'[c].at = "removeHot" /\ job'[c].t = job[c].t
    BY DEF TInv, TypeOK, Job, RemoveMeta, Goto
  <2> QED BY <2>2, <2>3 DEF Between
<1>5. Marked'
  BY TieredAssumption DEF TInv, TypeOK, Marked, Removers, JobsNamed, Done, RemoveMeta, Goto, At
<1>6. StoredFound'
  BY TieredAssumption DEF TInv, TypeOK, StoredFound, AtWork, Marked, Removers, JobsNamed, Done, RemoveMeta, Goto, At
<1> QED BY <1>1, <1>2, <1>3, <1>4, <1>5, <1>6 DEF TInv

LEMMA RemoveHotKeeps ==
  ASSUME TInv, NEW c \in Caller, RemoveHot(c)
  PROVE  TInv'
<1>1. TypeOK'
  <2>1. NextDemotion(c) \in Job
    BY DEF TInv, TypeOK, Job, Done, NextDemotion
  <2>2. job' \in [Caller -> Job]
    BY <2>1 DEF TInv, TypeOK, RemoveHot, Goto
  <2>3. \A d \in Caller : (metaLock' = d) = (job'[d].at \in {"insertHot", "removeHot"})
    BY TieredAssumption DEF TInv, TypeOK, Job, Done, RemoveHot, Goto, At, NextDemotion
  <2> QED BY <2>2, <2>3 DEF TInv, TypeOK, Job, RemoveHot, Goto, At
<1>2. JobsNamed'
  BY TieredAssumption DEF TInv, TypeOK, JobsNamed, Job, Done, RemoveHot, NextDemotion, Goto, At
<1>3. TierAgrees'
  BY TieredAssumption DEF TInv, TypeOK, TierAgrees, Between, HotMeta, JobsNamed, Done, RemoveHot, NextDemotion, Goto, At
<1>4. Between'
  BY TieredAssumption DEF TInv, TypeOK, TierAgrees, Between, HotMeta, JobsNamed, Done, RemoveHot, NextDemotion, Goto, At
<1>5. Marked'
  BY TieredAssumption DEF TInv, TypeOK, Marked, Removers, JobsNamed, Done, RemoveHot, NextDemotion, Goto, At
<1>6. StoredFound'
  BY TieredAssumption DEF TInv, TypeOK, StoredFound, AtWork, Marked, Removers, JobsNamed, Done, RemoveHot, NextDemotion, Goto, At
<1> QED BY <1>1, <1>2, <1>3, <1>4, <1>5, <1>6 DEF TInv

LEMMA SweepKeeps ==
  ASSUME TInv, NEW c \in Caller, Sweep(c)
  PROVE  TInv'
<1>1. TypeOK'
  <2> DEFINE found == {t \in idle : metadata[t] = "hot"}
  <2>1. job' = [job EXCEPT ![c] = [Done EXCEPT !.at = "demote", !.todo = found]]
    BY DEF Sweep, Goto
  <2>2. [Done EXCEPT !.at = "demote", !.todo = found] \in Job
    BY DEF TInv, TypeOK, Job, Done
  <2>3. job' \in [Caller -> Job]
    BY <2>1, <2>2 DEF TInv, TypeOK
  <2>4. \A d \in Caller : (metaLock' = d) = (job'[d].at \in {"insertHot", "removeHot"})
    BY <2>1 DEF TInv, TypeOK, Job, Done, Sweep, At
  <2> QED BY <2>3, <2>4 DEF TInv, TypeOK, Sweep, tiered
<1>2. JobsNamed'
  BY TieredAssumption DEF TInv, TypeOK, JobsNamed, Job, Done, Sweep, Goto, At, tiered
<1>3. TierAgrees'
  BY TieredAssumption DEF TInv, TypeOK, TierAgrees, Between, HotMeta, JobsNamed, Done, Sweep, Goto, At, tiered
<1>4. Between'
  BY TieredAssumption DEF TInv, TypeOK, TierAgrees, Between, HotMeta, JobsNamed, Done, Sweep, Goto, At, tiered
<1>5. Marked'
  BY TieredAssumption DEF TInv, TypeOK, Marked, Removers, JobsNamed, Done, Sweep, Goto, At, tiered
<1>6. StoredFound'
  BY TieredAssumption DEF TInv, TypeOK, StoredFound, AtWork, Marked, Removers, JobsNamed, Done, Sweep, Goto, At, tiered
<1> QED BY <1>1, <1>2, <1>3, <1>4, <1>5, <1>6 DEF TInv

LEMMA DemoteKeeps ==
  ASSUME TInv, NEW c \in Caller, Demote(c)
  PROVE  TInv'
<1> DEFINE rest(t) == [job[c] EXCEPT !.todo = @ \ {t}]
<1>6. PICK t \in job[c].todo :
        \E r \in {Done, rest(t), [rest(t) EXCEPT !.at = "deleteHot", !.t = t]} :
            job' = [job EXCEPT ![c] = r]
  BY DEF Demote, Goto
<1>7. PICK r \in {Done, rest(t), [rest(t) EXCEPT !.at = "deleteHot", !.t = t]} :
        job' = [job EXCEPT ![c] = r]
  BY <1>6
<1>8. /\ job[c] \in Job /\ job[c].at = "demote" /\ job[c].t = None /\ t \in Triple
      /\ UNCHANGED <<tiered, metaLock, overtaken>>
  BY <1>7 DEF TInv, TypeOK, JobsNamed, Job, Demote, At
<1>9. /\ r \in Job
      /\ r.at = "done" \/ (r.at = "demote" /\ r.t = None) \/ (r.at = "deleteHot" /\ r.t = t)
  <2>1. CASE r = Done
    BY <2>1, DoneJob
  <2>2. CASE r = rest(t)
    BY <1>8, <2>2 DEF Job
  <2>3. CASE r = [rest(t) EXCEPT !.at = "deleteHot", !.t = t]
    BY <1>8, <2>3 DEF Job
  <2> QED BY <1>7, <2>1, <2>2, <2>3
<1>1. TypeOK'
  <2>1. job' \in [Caller -> Job]
    BY <1>7, <1>9 DEF TInv, TypeOK
  <2>2. \A d \in Caller : (metaLock' = d) = (job'[d].at \in {"insertHot", "removeHot"})
    BY <1>7, <1>8, <1>9 DEF TInv, TypeOK
  <2> QED BY <1>8, <2>1, <2>2 DEF TInv, TypeOK, tiered
<1>2. JobsNamed'
  BY <1>7, <1>8, <1>9 DEF TInv, TypeOK, JobsNamed
<1>3. TierAgrees'
  BY TieredAssumption DEF TInv, TypeOK, TierAgrees, Between, HotMeta, JobsNamed, Done, Demote, Goto, At, tiered
<1>4. Between'
  BY TieredAssumption DEF TInv, TypeOK, TierAgrees, Between, HotMeta, JobsNamed, Done, Demote, Goto, At, tiered
<1>5. Marked'
  BY <1>7, <1>8, <1>9 DEF TInv, TypeOK, Marked, Removers, tiered
<1>10. StoredFound'
  BY TieredAssumption DEF TInv, TypeOK, StoredFound, AtWork, Marked, Removers, JobsNamed, Done, Demote, Goto, At, tiered
<1> QED BY <1>1, <1>2, <1>3, <1>4, <1>5, <1>10 DEF TInv

LEMMA DeleteHotKeeps ==
  ASSUME TInv, NEW c \in Caller, DeleteHot(c)
  PROVE  TInv'
<1>1. TypeOK'
  <2>1. [job[c] EXCEPT !.at = "removeMeta", !.tier = "cold"] \in Job
    <3>1. job[c] \in Job
      BY DEF TInv, TypeOK
    <3> QED BY <3>1 DEF Job
  <2>2. job' \in [Caller -> Job]
    BY <2>1 DEF TInv, TypeOK, DeleteHot, Goto
  <2>3. \A d \in Caller : (metaLock' = d) = (job'[d].at \in {"insertHot", "removeHot"})
    BY TieredAssumption DEF TInv, TypeOK, Job, Done, DeleteHot, Goto, At
  <2> QED BY <2>2, <2>3 DEF TInv, TypeOK, Job, DeleteHot, Goto, At
<1>2. JobsNamed'
  BY TieredAssumption DEF TInv, TypeOK, JobsNamed, Job, Done, DeleteHot, Goto, At
<1>3. TierAgrees'
  BY TieredAssumption DEF TInv, TypeOK, TierAgrees, Between, HotMeta, JobsNamed, Done, DeleteHot, Goto, At
<1>4. Between'
  BY TieredAssumption DEF TInv, TypeOK, TierAgrees, Between, HotMeta, JobsNamed, Done, DeleteHot, Goto, At
<1>5. Marked'
  BY TieredAssumption DEF TInv, TypeOK, Marked, Removers, JobsNamed, Done, DeleteHot, Goto, At
<1>6. StoredFound'
  BY TieredAssumption DEF TInv, TypeOK, StoredFound, AtWork, Marked, Removers, JobsNamed, Done, DeleteHot, Goto, At
<1> QED BY <1>1, <1>2, <1>3, <1>4, <1>5, <1>6 DEF TInv

LEMMA Elsewhere ==
  /\ TInv /\ Evict => TInv'
  /\ TInv /\ TimePasses => TInv'
  /\ TInv /\ UNCHANGED vars => TInv'
<1>1. ASSUME TInv, Evict PROVE TInv'
  <2>1. PICK gone \in SUBSET hot : hot' = hot \ gone /\ overtaken' = overtaken \ gone
    BY <1>1 DEF Evict
  <2>2. UNCHANGED <<hotTriples, metadata, idle, metaLock, job>>
    BY <1>1 DEF Evict
  <2> QED BY <1>1, <2>1, <2>2
        DEF TInv, TypeOK, JobsNamed, TierAgrees, Between, HotMeta, Marked, Removers, StoredFound, AtWork
<1>2. ASSUME TInv, TimePasses PROVE TInv'
  BY <1>2 DEF TimePasses, TInv, TypeOK, JobsNamed, TierAgrees, Between, HotMeta, Marked, Removers,
              StoredFound, AtWork
<1>3. ASSUME TInv, UNCHANGED vars PROVE TInv'
  BY <1>3 DEF vars, tiered, TInv, TypeOK, JobsNamed, TierAgrees, Between, HotMeta, Marked, Removers,
              StoredFound, AtWork
<1> QED BY <1>1, <1>2, <1>3

LEMMA NextKeeps == TInv /\ [Next]_vars => TInv'
<1> SUFFICES ASSUME TInv, Next PROVE TInv'
  BY Elsewhere
<1>1. CASE Evict \/ TimePasses
  BY <1>1, Elsewhere
<1>2. ASSUME NEW c \in Caller, NEW t \in Triple, Insert(c, t) \/ Get(c, t) \/ Update(c, t) \/ Delete(c, t)
      PROVE  TInv'
  BY <1>2, InsertKeeps, GetKeeps, UpdateKeeps, DeleteKeeps
<1>3. ASSUME NEW c \in Caller,
             \/ InsertMeta(c) \/ InsertHot(c) \/ Lookup(c) \/ Query(c) \/ Record(c)
             \/ RemoveMeta(c) \/ RemoveHot(c) \/ Sweep(c) \/ Demote(c) \/ DeleteHot(c)
      PROVE  TInv'
  BY <1>3, InsertMetaKeeps, InsertHotKeeps, LookupKeeps, QueryKeeps, RecordKeeps, RemoveMetaKeeps,
     RemoveHotKeeps, SweepKeeps, DemoteKeeps, DeleteHotKeeps
<1> QED BY <1>1, <1>2, <1>3 DEF Next

LEMMA Invariant == Spec => []TInv
  BY InitTInv, NextKeeps, PTL DEF Spec

(* Every variable keeps its type, and the metadata is locked exactly while *)
(* an insertion or removal waits for the hot set.                          *)
THEOREM TypeCorrect == Spec => []TypeOK
<1>1. TInv => TypeOK
  BY DEF TInv
<1> QED BY <1>1, Invariant, PTL

(***************************************************************************)
(* However insertions, removals, sweeps and recorded accesses interleave,  *)
(* whoever can read the metadata sees the tier that the hot set says.      *)
(***************************************************************************)
THEOREM TiersAgree == Spec => []TierAgrees
<1>1. TInv => TierAgrees
  BY DEF TInv
<1> QED BY <1>1, Invariant, PTL

(***************************************************************************)
(* A stored triple that nobody is at work on is found by get_triple unless *)
(* it was stored again in the middle of its own removal.                   *)
(***************************************************************************)
THEOREM StoredAreFound == Spec => []StoredFound
<1>1. TInv => StoredFound
  BY DEF TInv
<1> QED BY <1>1, Invariant, PTL
=============================================================================
