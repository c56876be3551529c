------------------------------ MODULE VkbProofs ------------------------------
(***************************************************************************)
(* Proofs about Vkb, for any readers, callers, sessions and patterns, any  *)
(* page sizes, and any number of patterns searched by pattern_reinforce.   *)
(*                                                                         *)
(* Sessions and patterns share no state, so the invariant has a part for   *)
(* the one (TalkOK) and for the other (HabitsOK), and each is framed when   *)
(* the other's steps are taken.                                            *)
(***************************************************************************)
EXTENDS Vkb, SequenceTheorems, FiniteSetTheorems, TLAPS

Id == Session \cup Exchange \cup Pattern

-----------------------------------------------------------------------------
(* The smaller of two numbers, prefixes, and lists cut at a limit.         *)

LEMMA MinOfTwo ==
  ASSUME NEW a \in Nat, NEW b \in Nat
  PROVE  Min({a, b}) = IF a <= b THEN a ELSE b
<1> DEFINE m == IF a <= b THEN a ELSE b
<1>1. m \in {a, b} /\ \A y \in {a, b} : m =< y
  OBVIOUS
<1>2. \A x \in {a, b} : (\A y \in {a, b} : x =< y) => x = m
  OBVIOUS
<1> HIDE DEF m
<1>3. Min({a, b}) \in {a, b} /\ \A y \in {a, b} : Min({a, b}) =< y
  BY <1>1 DEF Min
<1>4. Min({a, b}) = m
  BY <1>2, <1>3
<1> QED BY <1>4 DEF m

LEMMA Cut ==
  ASSUME NEW S, NEW l \in Seq(S), NEW n \in Nat
  PROVE  /\ SubSeq(l, 1, Min({n, Len(l)})) \in Seq(S)
         /\ Len(l) <= n => SubSeq(l, 1, Min({n, Len(l)})) = l
<1> DEFINE k == Min({n, Len(l)})
<1>1. k \in Nat /\ k <= Len(l) /\ (Len(l) <= n => k = Len(l))
  BY MinOfTwo, LenProperties
<1> HIDE DEF k
<1>2. \A i \in 1 .. k : l[i] \in S
  BY <1>1, ElementOfSeq, LenProperties
<1>3. SubSeq(l, 1, k) \in Seq(S)
  BY <1>1, <1>2, SubSeqProperties
<1>4. ASSUME Len(l) <= n PROVE SubSeq(l, 1, k) = l
  BY <1>1, <1>4, SubSeqFull
<1> QED BY <1>3, <1>4 DEF k

LEMMA PrefixIff ==
  ASSUME NEW S, NEW s \in Seq(S), NEW t \in Seq(S)
  PROVE  IsPrefix(s, t) <=> Len(s) <= Len(t) /\ \A i \in 1 .. Len(s) : s[i] = t[i]
<1>1. Len(s) \in Nat /\ Len(t) \in Nat
  BY LenProperties
<1>2. SubSeq(s, 1, Len(s)) = s
  BY SubSeqFull
<1>3. ASSUME Len(s) <= Len(t)
      PROVE  SubSeq(t, 1, Len(s)) = s <=> \A i \in 1 .. Len(s) : s[i] = t[i]
  <2> DEFINE u == SubSeq(t, 1, Len(s))
  <2>1. \A i \in 1 .. Len(s) : t[i] \in S
    BY <1>1, <1>3, ElementOfSeq
  <2>2. u \in Seq(S) /\ Len(u) = Len(s) /\ \A i \in 1 .. Len(s) : u[i] = t[i]
    BY <1>1, <2>1, SubSeqProperties
  <2> HIDE DEF u
  <2>3. u = s <=> \A i \in 1 .. Len(s) : u[i] = s[i]
    BY <2>2, SeqEqual
  <2> QED BY <2>2, <2>3 DEF u
<1> QED BY <1>2, <1>3 DEF IsPrefix

(* A sequence of all elements of a set.                                    *)
LEMMA Orders ==
  ASSUME NEW S, IsFiniteSet(S), NEW l \in SetToSeqs(S)
  PROVE  l \in Seq(S) /\ Len(l) = Cardinality(S) /\ S \subseteq ToSet(l)
<1> DEFINE N == Cardinality(S)
           D == 1 .. N
<1>1. N \in Nat
  BY FS_CardinalityType
<1>2. l \in [D -> S] /\ \A i, j \in D : i # j => l[i] # l[j]
  BY DEF SetToSeqs
<1>3. IsFiniteSet(D) /\ Cardinality(D) = N
  BY <1>1, FS_Interval
<1>4. l \in Injection(D, S)
  BY <1>2 DEF Injection, IsInjective
<1>5. l \in Surjection(D, S)
  BY <1>3, <1>4, FS_Injection
<1>6. S \subseteq ToSet(l)
  BY <1>2, <1>5 DEF Surjection, ToSet
<1> HIDE DEF N
<1>7. l \in Seq(S) /\ Len(l) = N
  BY <1>1, <1>2, IsASeq
<1> QED BY <1>6, <1>7 DEF N

-----------------------------------------------------------------------------
(* What holds of the sessions and their readers.                           *)

TalkOK ==
    /\ sessions \in [Session -> SessionRecord \cup {None}]
    /\ created \in Seq(Session) /\ ToSet(created) = Stored(sessions) /\ IsInjective(created)
    /\ exchanges \in [Session -> Seq(Exchange)]
    /\ insights \in [Session -> 0 .. MaxInsights]
    /\ \A s \in Session : sessions[s] = None => exchanges[s] = <<>> /\ insights[s] = 0
    /\ reader \in [Reader -> Place \cup {None}]
    /\ PagesWhole

Answered == answer \in Seq(Id) \cup {None}

LEMMA TalkFrame ==
  TalkOK /\ UNCHANGED talk => TalkOK'
  BY DEF TalkOK, talk, PagesWhole, Stored

LEMMA ShortAnswers ==
  /\ <<>> \in Seq(Id)
  /\ \A x \in Id : <<x>> \in Seq(Id)
  OBVIOUS

(* The sessions come first in the answers about sessions, and so on.       *)
LEMMA LongAnswers ==
  /\ \A l \in Seq(Session) : l \in Seq(Id)
  /\ \A l \in Seq(Exchange) : l \in Seq(Id)
  /\ \A l \in Seq(Pattern) : l \in Seq(Id)
<1>1. Session \subseteq Id /\ Exchange \subseteq Id /\ Pattern \subseteq Id
  BY DEF Id
<1> QED BY <1>1, SeqMonotonic

LEMMA StoreSessionKeeps ==
  ASSUME TalkOK, NEW s \in Session, NEW room \in Room \cup {None},
         sessions[s] = None, StoreSession(s, room), UNCHANGED reader
  PROVE  TalkOK'
<1> USE VkbAssumption
<1>0. NewSession(room) \in SessionRecord
  BY DEF NewSession, SessionRecord, Status
<1>1. NewSession(room) \in SessionRecord /\ NewSession(room) # None
  BY <1>0
<1>2. exchanges' = exchanges /\ insights' = insights
  BY DEF TalkOK, StoreSession
<1>3. /\ sessions' \in [Session -> SessionRecord \cup {None}]
      /\ Stored(sessions') = Stored(sessions) \cup {s}
      /\ s \notin Stored(sessions)
      /\ \A t \in Session : sessions'[t] = None => sessions[t] = None
  BY <1>1 DEF TalkOK, StoreSession, Stored
<1>4. /\ created' \in Seq(Session) /\ Len(created') = Len(created) + 1 /\ Len(created) \in Nat
      /\ \A i \in 1 .. Len(created) : created'[i] = created[i]
      /\ created'[Len(created) + 1] = s
      /\ DOMAIN created' = 1 .. Len(created) + 1 /\ DOMAIN created = 1 .. Len(created)
  BY AppendProperties, LenProperties DEF TalkOK, StoreSession
<1>5. \A i \in 1 .. Len(created) : created[i] # s
  <2>1. \A i \in 1 .. Len(created) : created[i] \in ToSet(created)
    BY <1>4 DEF ToSet
  <2>2. ToSet(created) = Stored(sessions)
    BY DEF TalkOK
  <2> QED BY <1>3, <2>1, <2>2
<1>6. ToSet(created') = ToSet(created) \cup {s}
  <2>1. 1 .. Len(created) + 1 = (1 .. Len(created)) \cup {Len(created) + 1}
    BY <1>4
  <2> QED BY <1>4, <2>1 DEF ToSet
<1>7. IsInjective(created')
  <2>1. ASSUME NEW i \in 1 .. Len(created) + 1, NEW j \in 1 .. Len(created) + 1,
               created'[i] = created'[j]
        PROVE  i = j
    <3>1. (i \in 1 .. Len(created) \/ i = Len(created) + 1) /\ (j \in 1 .. Len(created) \/ j = Len(created) + 1)
      BY <1>4
    <3> QED BY <1>4, <1>5, <2>1, <3>1 DEF TalkOK, IsInjective
  <2> QED BY <1>4, <2>1 DEF IsInjective
<1>8. PagesWhole'
  BY <1>2 DEF TalkOK, PagesWhole
<1> QED BY <1>2, <1>3, <1>4, <1>6, <1>7, <1>8 DEF TalkOK

LEMMA StoreEndKeeps ==
  ASSUME TalkOK, NEW s \in Session, NEW status \in Status, sessions[s] # None,
         StoreEnd(s, status), UNCHANGED <<created, exchanges, insights, reader>>
  PROVE  TalkOK'
<1> USE VkbAssumption
<1>1. sessions[s] \in SessionRecord
  BY DEF TalkOK
<1> DEFINE rec == [sessions[s] EXCEPT !.status = status, !.ended = TRUE]
<1>2. rec \in SessionRecord /\ rec # None
  BY <1>1 DEF SessionRecord
<1>3. sessions' = [sessions EXCEPT ![s] = rec]
  BY <1>1 DEF StoreEnd, TalkOK, SessionRecord
<1> HIDE DEF rec
<1>4. /\ sessions' \in [Session -> SessionRecord \cup {None}]
      /\ Stored(sessions') = Stored(sessions)
      /\ \A t \in Session : sessions'[t] = None => sessions[t] = None
  BY <1>2, <1>3 DEF TalkOK, Stored
<1>5. PagesWhole' = PagesWhole
  BY DEF PagesWhole
<1> QED BY <1>4, <1>5 DEF TalkOK

LEMMA StoreExchangeKeeps ==
  ASSUME TalkOK, NEW s \in Session, NEW e \in Exchange, sessions[s] # None,
         StoreExchange(s, e), UNCHANGED <<created, sessions, insights, reader>>
  PROVE  TalkOK'
<1>1. /\ exchanges[s] \in Seq(Exchange)
      /\ exchanges' = [exchanges EXCEPT ![s] = Append(exchanges[s], e)]
  BY DEF TalkOK, StoreExchange
<1>2. /\ Append(exchanges[s], e) \in Seq(Exchange)
      /\ Len(Append(exchanges[s], e)) = Len(exchanges[s]) + 1
      /\ \A i \in 1 .. Len(exchanges[s]) : Append(exchanges[s], e)[i] = exchanges[s][i]
      /\ Len(exchanges[s]) \in Nat
  BY <1>1, AppendProperties, LenProperties
<1>3. exchanges' \in [Session -> Seq(Exchange)] /\ exchanges'[s] = Append(exchanges[s], e)
      /\ \A t \in Session \ {s} : exchanges'[t] = exchanges[t]
  BY <1>1, <1>2 DEF TalkOK
<1>4. /\ Len(exchanges'[s]) = Len(exchanges[s]) + 1 /\ Len(exchanges[s]) \in Nat
      /\ \A i \in 1 .. Len(exchanges[s]) : exchanges'[s][i] = exchanges[s][i]
  BY <1>2, <1>3
<1>5. ASSUME NEW got \in Seq(Exchange), IsPrefix(got, exchanges[s])
      PROVE  IsPrefix(got, exchanges'[s])
  <2>1. Len(got) \in Nat
    BY LenProperties
  <2>2. Len(got) <= Len(exchanges[s]) /\ \A i \in 1 .. Len(got) : got[i] = exchanges[s][i]
    BY <1>1, <1>5, PrefixIff
  <2>3. Len(got) <= Len(exchanges'[s]) /\ \A i \in 1 .. Len(got) : got[i] = exchanges'[s][i]
    <3>1. \A i \in 1 .. Len(got) : i \in 1 .. Len(exchanges[s])
      BY <1>2, <2>1, <2>2
    <3> QED BY <1>4, <2>1, <2>2, <3>1
  <2> QED BY <1>2, <1>3, <2>3, PrefixIff
<1>6. PagesWhole'
  <2>1. ASSUME NEW c \in Reader, reader[c] # None
        PROVE  IsPrefix(reader[c].got, exchanges'[reader[c].s])
    <3>1. reader[c].got \in Seq(Exchange) /\ reader[c].s \in Session
      BY <2>1 DEF TalkOK, Place
    <3>2. IsPrefix(reader[c].got, exchanges[reader[c].s])
      BY <2>1 DEF TalkOK, PagesWhole
    <3> QED BY <1>3, <1>5, <3>1, <3>2
  <2> QED BY <2>1 DEF PagesWhole
<1> QED BY <1>3, <1>6 DEF TalkOK, Stored

LEMMA StoreInsightKeeps ==
  ASSUME TalkOK, NEW s \in Session, sessions[s] # None, insights[s] < MaxInsights,
         StoreInsight(s), UNCHANGED <<created, sessions, exchanges, reader>>
  PROVE  TalkOK'
<1> USE VkbAssumption
<1>1. insights' \in [Session -> 0 .. MaxInsights] /\ \A t \in Session \ {s} : insights'[t] = insights[t]
  BY DEF TalkOK, StoreInsight
<1>2. PagesWhole' = PagesWhole
  BY DEF PagesWhole
<1> QED BY <1>1, <1>2 DEF TalkOK, Stored

LEMMA NothingIsPrefix ==
  ASSUME NEW S, NEW t \in Seq(S)
  PROVE  <<>> \in Seq(S) /\ IsPrefix(<<>>, t)
<1> DEFINE e == <<>>
<1>1. e \in Seq(S) /\ Len(e) = 0 /\ Len(t) \in Nat
  BY EmptySeq, LenProperties
<1> HIDE DEF e
<1>2. Len(e) <= Len(t) /\ \A i \in 1 .. Len(e) : e[i] = t[i]
  BY <1>1
<1>3. IsPrefix(e, t)
  BY <1>1, <1>2, PrefixIff
<1> QED BY <1>1, <1>3 DEF e

(* A page that begins where what is read ends is what comes next.          *)
LEMMA PageOn ==
  ASSUME NEW S, NEW all \in Seq(S), NEW got \in Seq(S), IsPrefix(got, all), NEW limit \in Nat
  PROVE  LET page == SubSeq(all, Len(got) + 1, Min({Len(got) + limit, Len(all)}))
         IN  page \in Seq(S) /\ got \o page \in Seq(S) /\ IsPrefix(got \o page, all)
<1> DEFINE k == Min({Len(got) + limit, Len(all)})
           page == SubSeq(all, Len(got) + 1, k)
<1>1. Len(got) \in Nat /\ Len(all) \in Nat
  BY LenProperties
<1>2. Len(got) <= Len(all) /\ \A i \in 1 .. Len(got) : got[i] = all[i]
  BY PrefixIff
<1>3. k \in Nat /\ Len(got) <= k /\ k <= Len(all)
  BY <1>1, <1>2, MinOfTwo
<1> HIDE DEF k
<1>4. \A i \in (Len(got) + 1) .. k : all[i] \in S
  BY <1>1, <1>3, ElementOfSeq
<1>5. /\ page \in Seq(S)
      /\ Len(page) = k - Len(got)
      /\ \A i \in 1 .. (k - Len(got)) : page[i] = all[Len(got) + i]
  BY <1>1, <1>3, <1>4, SubSeqProperties
<1> HIDE DEF page
<1>6. /\ got \o page \in Seq(S)
      /\ Len(got \o page) = k
      /\ \A i \in 1 .. k : (got \o page)[i] = IF i <= Len(got) THEN got[i] ELSE page[i - Len(got)]
  BY <1>1, <1>3, <1>5, ConcatProperties
<1>7. ASSUME NEW i \in 1 .. k
      PROVE  (got \o page)[i] = all[i]
  <2>1. CASE i <= Len(got)
    BY <1>1, <1>2, <1>3, <1>6, <2>1
  <2>2. CASE ~(i <= Len(got))
    <3>1. i - Len(got) \in 1 .. (k - Len(got)) /\ Len(got) + (i - Len(got)) = i
      BY <1>1, <1>3, <2>2
    <3>2. page[i - Len(got)] = all[i]
      BY <1>5, <3>1
    <3> QED BY <1>6, <2>2, <3>2
  <2> QED BY <2>1, <2>2
<1>8. IsPrefix(got \o page, all)
  BY <1>3, <1>6, <1>7, PrefixIff
<1> QED BY <1>5, <1>6, <1>8 DEF k, page

LEMMA ReadOnKeeps ==
  ASSUME TalkOK, NEW c \in Reader, NEW s \in Session, NEW limit \in Nat,
         HttpListExchanges(c, s, limit)
  PROVE  TalkOK' /\ Answered'
<1> USE VkbAssumption
<1> DEFINE read == IF reader[c] # None /\ reader[c].s = s THEN reader[c].got ELSE <<>>
           page == Page(s, limit, Len(read))
           place == [s |-> s, got |-> read \o page]
<1>1. exchanges[s] \in Seq(Exchange)
  BY DEF TalkOK
<1>2. read \in Seq(Exchange) /\ IsPrefix(read, exchanges[s])
  <2>1. CASE reader[c] # None /\ reader[c].s = s
    BY <2>1 DEF TalkOK, PagesWhole, Place
  <2>2. IsPrefix(<<>>, exchanges[s]) /\ <<>> \in Seq(Exchange)
    BY <1>1, NothingIsPrefix
  <2> QED BY <2>1, <2>2
<1>3. reader' = [reader EXCEPT ![c] = place] /\ answer' = page
      /\ UNCHANGED <<created, sessions, exchanges, insights>>
  BY DEF HttpListExchanges
<1> HIDE DEF read
<1>4. page \in Seq(Exchange) /\ read \o page \in Seq(Exchange) /\ IsPrefix(read \o page, exchanges[s])
  BY <1>1, <1>2, PageOn DEF Page
<1> HIDE DEF page
<1>5. place \in Place /\ place.s = s /\ IsPrefix(place.got, exchanges[s])
  BY <1>4 DEF Place
<1> HIDE DEF place
<1>6. reader' \in [Reader -> Place \cup {None}] /\ reader'[c] = place
      /\ \A d \in Reader \ {c} : reader'[d] = reader[d]
  BY <1>3, <1>5 DEF TalkOK
<1>7. PagesWhole'
  BY <1>3, <1>5, <1>6 DEF TalkOK, PagesWhole
<1>8. Answered'
  BY <1>3, <1>4, LongAnswers DEF Answered
<1> QED BY <1>3, <1>6, <1>7, <1>8 DEF TalkOK, Stored

LEMMA ReadFirstKeeps ==
  ASSUME TalkOK, NEW c \in Reader, NEW s \in Session, NEW limit \in Nat,
         McpListExchanges(c, s, limit)
  PROVE  TalkOK' /\ Answered'
<1> USE VkbAssumption
<1> DEFINE page == Page(s, limit, 0)
           place == [s |-> s, got |-> page]
<1>1. exchanges[s] \in Seq(Exchange) /\ <<>> \in Seq(Exchange) /\ Len(<<>>) = 0
  BY EmptySeq DEF TalkOK
<1>2. IsPrefix(<<>>, exchanges[s])
  BY <1>1, NothingIsPrefix
<1>3. page \in Seq(Exchange) /\ <<>> \o page \in Seq(Exchange) /\ IsPrefix(<<>> \o page, exchanges[s])
  BY <1>1, <1>2, PageOn DEF Page
<1>4. reader' = [reader EXCEPT ![c] = place] /\ answer' = page
      /\ UNCHANGED <<created, sessions, exchanges, insights>>
  BY DEF McpListExchanges
<1> HIDE DEF page
<1>5. place \in Place /\ place.s = s /\ IsPrefix(place.got, exchanges[s])
  BY <1>3, ConcatEmptySeq DEF Place
<1> HIDE DEF place
<1>6. reader' \in [Reader -> Place \cup {None}] /\ reader'[c] = place
      /\ \A d \in Reader \ {c} : reader'[d] = reader[d]
  BY <1>4, <1>5 DEF TalkOK
<1>7. PagesWhole'
  BY <1>4, <1>5, <1>6 DEF TalkOK, PagesWhole
<1>8. Answered'
  BY <1>3, <1>4, LongAnswers DEF Answered
<1> QED BY <1>4, <1>6, <1>7, <1>8 DEF TalkOK, Stored

LEMMA SessionsListed ==
  ASSUME TalkOK, NEW status, NEW limit \in Nat, NEW l \in ListSessions(status, limit)
  PROVE  l \in Seq(Id)
<1> USE VkbAssumption
<1> DEFINE W == {s \in Stored(sessions) : status = None \/ sessions[s].status = status}
<1>1. W \in SUBSET Session
  BY DEF TalkOK, Stored
<1>2. IsFiniteSet(W)
  BY <1>1, FS_Subset
<1>3. PICK o \in SetToSeqs(W) : l = SubSeq(o, 1, Min({limit, Len(o)}))
  BY DEF ListSessions
<1> HIDE DEF W
<1>4. o \in Seq(W)
  BY <1>2, Orders
<1>5. l \in Seq(W)
  BY <1>3, <1>4, Cut
<1> QED BY <1>1, <1>5, SeqMonotonic, LongAnswers

(* A call about one session answers ids, and leaves the patterns alone.    *)
LEMMA SessionCall ==
  ASSUME TalkOK, Answered, NEW s \in Session,
         \/ \E room \in Room \cup {None} : HttpStartSession(s, room)
         \/ HttpGetSession(s)
         \/ \E status \in Status \cup {None} : HttpEndSession(s, status)
         \/ HttpListInsights(s)
         \/ insights[s] < MaxInsights /\ HttpExtractInsight(s)
         \/ \E e \in Exchange, role \in {"exact", "cased", "unknown"} : HttpAddExchange(s, e, role)
  PROVE  TalkOK' /\ Answered' /\ UNCHANGED habits
<1> USE VkbAssumption
<1>0. <<>> \in Seq(Id) /\ (\A x \in Id : <<x>> \in Seq(Id)) /\ s \in Id
  BY ShortAnswers DEF Id
<1>1. ASSUME NEW room \in Room \cup {None}, HttpStartSession(s, room)
      PROVE  TalkOK' /\ Answered' /\ UNCHANGED habits
  <2>1. sessions[s] = None /\ StoreSession(s, room) /\ answer' = <<s>> /\ UNCHANGED <<reader, habits>>
    BY <1>1 DEF HttpStartSession
  <2> QED BY <1>0, <2>1, StoreSessionKeeps DEF Answered
<1>2. ASSUME HttpGetSession(s)
      PROVE  TalkOK' /\ Answered' /\ UNCHANGED habits
  <2>1. answer' \in {None, <<s>>} /\ UNCHANGED <<talk, habits>>
    BY <1>2 DEF HttpGetSession
  <2> QED BY <1>0, <2>1, TalkFrame DEF Answered
<1>3. ASSUME NEW status \in Status \cup {None}, HttpEndSession(s, status)
      PROVE  TalkOK' /\ Answered' /\ UNCHANGED habits
  <2>1. CASE sessions[s] = None
    <3>1. answer' = None /\ UNCHANGED <<talk, habits>>
      BY <1>3, <2>1 DEF HttpEndSession
    <3> QED BY <3>1, TalkFrame DEF Answered
  <2>2. CASE sessions[s] # None
    <3> DEFINE st == IF status = None THEN "completed" ELSE status
    <3>1. StoreEnd(s, st) /\ answer' = <<s>> /\ UNCHANGED <<created, exchanges, insights, reader, habits>>
      BY <1>3, <2>2 DEF HttpEndSession
    <3>2. st \in Status
      BY DEF Status
    <3> HIDE DEF st
    <3> QED BY <1>0, <2>2, <3>1, <3>2, StoreEndKeeps DEF Answered
  <2> QED BY <2>1, <2>2
<1>4. ASSUME HttpListInsights(s)
      PROVE  TalkOK' /\ Answered' /\ UNCHANGED habits
  <2>1. answer' = [i \in 1 .. insights[s] |-> s] /\ UNCHANGED <<talk, habits>> /\ insights[s] \in Nat
    BY <1>4 DEF HttpListInsights, TalkOK
  <2>2. answer' \in Seq(Id)
    BY <1>0, <2>1
  <2> QED BY <2>1, <2>2, TalkFrame DEF Answered
<1>5. ASSUME insights[s] < MaxInsights, HttpExtractInsight(s)
      PROVE  TalkOK' /\ Answered' /\ UNCHANGED habits
  <2>1. CASE sessions[s] = None
    <3>1. answer' = None /\ UNCHANGED <<talk, habits>>
      BY <1>5, <2>1 DEF HttpExtractInsight
    <3> QED BY <3>1, TalkFrame DEF Answered
  <2>2. CASE sessions[s] # None
    <3>1. StoreInsight(s) /\ answer' = <<s>> /\ UNCHANGED <<created, sessions, exchanges, reader, habits>>
      BY <1>5, <2>2 DEF HttpExtractInsight
    <3> QED BY <1>0, <1>5, <2>2, <3>1, StoreInsightKeeps DEF Answered
  <2> QED BY <2>1, <2>2
<1>6. ASSUME NEW e \in Exchange, NEW role \in {"exact", "cased", "unknown"}, HttpAddExchange(s, e, role)
      PROVE  TalkOK' /\ Answered' /\ UNCHANGED habits
  <2>1. CASE role = "unknown" \/ sessions[s] = None
    <3>1. answer' = None /\ UNCHANGED <<talk, habits>>
      BY <1>6, <2>1 DEF HttpAddExchange
    <3> QED BY <3>1, TalkFrame DEF Answered
  <2>2. CASE ~(role = "unknown" \/ sessions[s] = None)
    <3>1. StoreExchange(s, e) /\ answer' = <<e>> /\ UNCHANGED <<created, sessions, insights, reader, habits>>
      BY <1>6, <2>2 DEF HttpAddExchange
    <3>2. e \in Id
      BY DEF Id
    <3> QED BY <1>0, <2>2, <3>1, <3>2, StoreExchangeKeeps DEF Answered
  <2> QED BY <2>1, <2>2
<1> QED BY <1>1, <1>2, <1>3, <1>4, <1>5, <1>6

(* Over MCP the calls are the same, but for those that keep nothing and    *)
(* the exchanges, which always come from the first on.                     *)
LEMMA SessionStep ==
  ASSUME TalkOK, Answered, SessionNext
  PROVE  TalkOK' /\ Answered' /\ UNCHANGED habits
<1> USE VkbAssumption
<1> DEFINE Goal == TalkOK' /\ Answered' /\ UNCHANGED habits
           Roles == {"exact", "cased", "unknown"}
<1>1. ASSUME NEW s \in Session, NEW room \in Room \cup {None}, HttpStartSession(s, room)
      PROVE  Goal
  BY <1>1, SessionCall
<1>2. ASSUME NEW s \in Session, HttpGetSession(s) \/ McpGetSession(s)
      PROVE  Goal
  <2>1. HttpGetSession(s)
    BY <1>2 DEF McpGetSession
  <2> QED BY <2>1, SessionCall
<1>3. ASSUME NEW s \in Session, NEW status \in Status \cup {None}, HttpEndSession(s, status)
      PROVE  Goal
  BY <1>3, SessionCall
<1>4. ASSUME NEW s \in Session, McpStartSession(s) \/ McpEndSession(s)
      PROVE  Goal
  <2>1. answer' = <<s>> /\ UNCHANGED <<talk, habits>>
    BY <1>4 DEF McpStartSession, McpEndSession
  <2>2. <<s>> \in Seq(Id)
    BY ShortAnswers DEF Id
  <2> QED BY <2>1, <2>2, TalkFrame DEF Answered
<1>5. ASSUME NEW s \in Session, HttpListInsights(s) \/ McpListInsights(s)
      PROVE  Goal
  <2>1. HttpListInsights(s)
    BY <1>5 DEF McpListInsights
  <2> QED BY <2>1, SessionCall
<1>6. ASSUME NEW s \in Session, insights[s] < MaxInsights, HttpExtractInsight(s) \/ McpExtractInsight(s)
      PROVE  Goal
  <2>1. HttpExtractInsight(s)
    BY <1>6 DEF McpExtractInsight
  <2> QED BY <1>6, <2>1, SessionCall
<1>7. ASSUME NEW s \in Session, NEW e \in Unused, NEW role \in Roles,
             HttpAddExchange(s, e, role) \/ McpAddExchange(s, e, role)
      PROVE  Goal
  <2>1. e \in Exchange
    BY DEF Unused
  <2>2. \E r \in Roles : HttpAddExchange(s, e, r)
    BY <1>7 DEF McpAddExchange
  <2> QED BY <2>1, <2>2, SessionCall
<1>8. ASSUME NEW limit \in PageSize,
             \/ \E status \in Status \cup {None} : HttpListSessions(status, limit)
             \/ \E status \in AskedStatus : McpListSessions(status, limit)
      PROVE  Goal
  <2>1. PICK status \in Status \cup {None} : HttpListSessions(status, limit)
    BY <1>8 DEF McpListSessions
  <2>2. answer' \in ListSessions(status, limit) /\ UNCHANGED <<talk, habits>>
    BY <2>1 DEF HttpListSessions
  <2>3. answer' \in Seq(Id)
    BY <2>2, SessionsListed
  <2> QED BY <2>2, <2>3, TalkFrame DEF Answered
<1>9. ASSUME NEW limit \in PageSize, NEW c \in Reader, NEW s \in Session,
             HttpListExchanges(c, s, limit) \/ McpListExchanges(c, s, limit)
      PROVE  Goal
  <2>1. limit \in Nat
    OBVIOUS
  <2>2. TalkOK' /\ Answered'
    BY <1>9, <2>1, ReadOnKeeps, ReadFirstKeeps
  <2>3. UNCHANGED habits
    BY <1>9 DEF HttpListExchanges, McpListExchanges
  <2> QED BY <2>2, <2>3
<1>10. ASSUME NEW room \in Room, HttpFindByRoom(room) \/ McpFindByRoom(room)
       PROVE  Goal
  <2>1. (answer' = None \/ \E t \in RoomSessions(room) : answer' = <<t>>) /\ UNCHANGED <<talk, habits>>
    BY <1>10 DEF HttpFindByRoom, McpFindByRoom
  <2>2. RoomSessions(room) \subseteq Id
    BY DEF RoomSessions, Stored, TalkOK, Id
  <2> QED BY <2>1, <2>2, ShortAnswers, TalkFrame DEF Answered
<1> HIDE DEF Goal
<1>11. Goal
  BY <1>1, <1>2, <1>3, <1>4, <1>5, <1>6, <1>7, <1>8, <1>9, <1>10 DEF SessionNext
<1> QED BY <1>11 DEF Goal

-----------------------------------------------------------------------------
(* What holds of the patterns and of who reinforces them.                  *)

(* A pattern that was `was`, and has been reinforced n times since.        *)
Reckoned(pattern, was, n) ==
    LET f == was.confidence IN
    /\ was \in PatternRecord /\ was.status \in {"emerging", "established"}
    /\ pattern.confidence = IF n = 0 THEN f ELSE IF f + n <= 10 THEN f + n ELSE 10
    /\ pattern.status \in {"emerging", "established"}
    /\ pattern.status = "established" <=> was.status = "established" \/ (n > 0 /\ f + n >= 7)

(* What a caller has made of a pattern and has not been told yet: the      *)
(* pattern stays, and further reinforcements never take it down.           *)
Owing(turn) ==
    /\ patterns[turn.p] # None /\ (turn.least = 0 \/ reinforced[turn.p] > 0)
    /\ turn.least <= patterns[turn.p].confidence /\ turn.least <= 10

Truthful(told) ==
    told.asked = "mcp" =>
        IF told.said = None THEN Cardinality(Stored(patterns)) > FoundAmong ELSE told.said >= told.least

HabitsOK ==
    /\ patterns \in [Pattern -> PatternRecord \cup {None}]
    /\ first \in [Pattern -> PatternRecord \cup {None}] /\ reinforced \in [Pattern -> Nat]
    /\ reinforcing \in [Caller -> Turn \cup {None}]
    /\ report \in Said \cup {None}
    /\ \A p \in Pattern : patterns[p] = None => reinforced[p] = 0
    /\ \A p \in Stored(patterns) : Reckoned(patterns[p], first[p], reinforced[p])
    /\ \A c \in Caller : reinforcing[c] # None => Owing(reinforcing[c])
    /\ report # None => Truthful(report)

LEMMA HabitsFrame ==
  HabitsOK /\ UNCHANGED habits => HabitsOK'
  BY DEF HabitsOK, habits, Stored, Reckoned, Owing, Truthful

LEMMA StrongerReckoned ==
  ASSUME NEW r \in PatternRecord, NEW was, NEW n \in Nat, Reckoned(r, was, n)
  PROVE  /\ Stronger(r) \in PatternRecord /\ Reckoned(Stronger(r), was, n + 1)
         /\ Stronger(r).confidence <= 10
         /\ n > 0 => r.confidence <= Stronger(r).confidence
<1> DEFINE f == was.confidence
           conf == Min({r.confidence + 1, 10})
           st == IF conf >= 7 /\ r.status = "emerging" THEN "established" ELSE r.status
<1>0. /\ f \in Nat /\ was \in PatternRecord /\ was.status \in {"emerging", "established"}
      /\ r.confidence = IF n = 0 THEN f ELSE IF f + n <= 10 THEN f + n ELSE 10
      /\ r.status \in {"emerging", "established"}
      /\ r.status = "established" <=> was.status = "established" \/ (n > 0 /\ f + n >= 7)
  BY DEF Reckoned, PatternRecord
<1>1. r.confidence \in Nat /\ r.status \in PatternStatus /\ r = [confidence |-> r.confidence, status |-> r.status]
  BY DEF PatternRecord
<1>2. conf = IF r.confidence + 1 <= 10 THEN r.confidence + 1 ELSE 10
  BY <1>1, MinOfTwo
<1>3. Stronger(r) = [confidence |-> conf, status |-> st]
  BY <1>1 DEF Stronger
<1> HIDE DEF conf
<1>4. conf \in Nat /\ conf <= 10 /\ conf = (IF f + (n + 1) <= 10 THEN f + (n + 1) ELSE 10)
      /\ (n > 0 => r.confidence <= conf)
  BY <1>0, <1>1, <1>2
<1>5. /\ st \in {"emerging", "established"}
      /\ st = "established" <=> was.status = "established" \/ (n + 1 > 0 /\ f + (n + 1) >= 7)
  BY <1>0, <1>4
<1>6. st \in PatternStatus
  BY <1>5 DEF PatternStatus
<1> HIDE DEF st
<1> QED BY <1>0, <1>3, <1>4, <1>5, <1>6 DEF PatternRecord, Reckoned

(* More patterns, or as many: what was reported stays true.                *)
LEMMA StoredCounts ==
  ASSUME HabitsOK
  PROVE  IsFiniteSet(Stored(patterns)) /\ Cardinality(Stored(patterns)) \in Nat
<1> USE VkbAssumption
<1>1. Stored(patterns) \in SUBSET Pattern
  BY DEF HabitsOK, Stored
<1> QED BY <1>1, FS_Subset, FS_CardinalityType

LEMMA RecordKeeps ==
  ASSUME HabitsOK, NEW p \in Pattern, NEW conf \in Nat, Record(p, NewPattern(conf))
  PROVE  HabitsOK' /\ UNCHANGED talk /\ Answered'
<1> USE VkbAssumption
<1> DEFINE new == NewPattern(conf)
<1>1. new \in PatternRecord /\ new.confidence = conf /\ new.status = "emerging"
  BY DEF NewPattern, PatternRecord, PatternStatus
<1>2. /\ patterns[p] = None
      /\ patterns' = [patterns EXCEPT ![p] = new]
      /\ first' = [first EXCEPT ![p] = new]
      /\ answer' = <<p>>
      /\ UNCHANGED <<talk, reinforcing, reinforced, report>>
  BY <1>1 DEF Record, StorePattern
<1> HIDE DEF new
<1>3. new # None
  BY <1>1
<1>4. /\ patterns' \in [Pattern -> PatternRecord \cup {None}] /\ patterns'[p] = new
      /\ first' \in [Pattern -> PatternRecord \cup {None}] /\ first'[p] = new
      /\ \A q \in Pattern \ {p} : patterns'[q] = patterns[q] /\ first'[q] = first[q]
      /\ reinforced[p] = 0
  BY <1>1, <1>2 DEF HabitsOK
<1>5. Stored(patterns') = Stored(patterns) \cup {p} /\ p \notin Stored(patterns)
  BY <1>2, <1>3, <1>4 DEF HabitsOK, Stored
<1>6. ASSUME NEW q \in Stored(patterns')
      PROVE  Reckoned(patterns'[q], first'[q], reinforced'[q])
  <2>1. CASE q = p
    BY <1>1, <1>2, <1>4, <2>1 DEF Reckoned
  <2>2. CASE q # p
    <3>1. q \in Stored(patterns) /\ q \in Pattern \ {p}
      BY <1>5, <2>2 DEF Stored, HabitsOK
    <3> QED BY <1>2, <1>4, <3>1 DEF HabitsOK
  <2> QED BY <2>1, <2>2
<1>7. ASSUME NEW c \in Caller, reinforcing'[c] # None
      PROVE  Owing(reinforcing[c])'
  <2>1. reinforcing[c] \in Turn /\ Owing(reinforcing[c]) /\ reinforcing' = reinforcing
    BY <1>2, <1>7 DEF HabitsOK
  <2>2. reinforcing[c].p \in Pattern \ {p}
    BY <1>2, <2>1 DEF Turn, Owing
  <2> QED BY <1>2, <1>4, <2>1, <2>2 DEF Owing
<1>8. report' # None => Truthful(report)'
  <2>1. Cardinality(Stored(patterns')) = Cardinality(Stored(patterns)) + 1 /\ Cardinality(Stored(patterns)) \in Nat
    BY <1>5, StoredCounts, FS_AddElement
  <2> QED BY <1>2, <2>1 DEF HabitsOK, Truthful
<1>9. \A q \in Pattern : patterns'[q] = None => reinforced'[q] = 0
  BY <1>2, <1>3, <1>4 DEF HabitsOK
<1>10. Answered'
  BY <1>2, ShortAnswers DEF Answered, Id
<1> QED BY <1>2, <1>4, <1>6, <1>7, <1>8, <1>9, <1>10 DEF HabitsOK

LEMMA ReinforceKeeps ==
  ASSUME HabitsOK, NEW c \in Caller, NEW p \in Pattern, NEW asked \in {"http", "mcp", "library"},
         NEW limit \in {1, FoundAmong}, Reinforce(c, p, asked, limit)
  PROVE  HabitsOK' /\ UNCHANGED <<talk, answer>>
<1> USE VkbAssumption
<1> DEFINE new == Stronger(patterns[p])
           turn == [p |-> p, least |-> new.confidence, limit |-> limit, asked |-> asked]
<1>1. patterns[p] \in PatternRecord /\ p \in Stored(patterns)
  BY DEF HabitsOK, Reinforce, Stored
<1>2. Reckoned(patterns[p], first[p], reinforced[p]) /\ reinforced[p] \in Nat
  BY <1>1 DEF HabitsOK
<1>3. /\ new \in PatternRecord /\ Reckoned(new, first[p], reinforced[p] + 1)
      /\ new.confidence <= 10
      /\ reinforced[p] > 0 => patterns[p].confidence <= new.confidence
  BY <1>1, <1>2, StrongerReckoned
<1> HIDE DEF new
<1>4. new # None /\ new.confidence \in Nat /\ patterns[p].confidence \in Nat
  <2>1. new # None
    BY <1>3
  <2> QED BY <1>1, <1>3, <2>1 DEF PatternRecord
<1>5. /\ patterns' = [patterns EXCEPT ![p] = new]
      /\ reinforced' = [reinforced EXCEPT ![p] = reinforced[p] + 1]
      /\ UNCHANGED <<talk, first, report, answer>>
  BY DEF Reinforce, StorePattern, new
<1>6. /\ patterns' \in [Pattern -> PatternRecord \cup {None}] /\ patterns'[p] = new
      /\ reinforced' \in [Pattern -> Nat] /\ reinforced'[p] = reinforced[p] + 1
      /\ \A q \in Pattern \ {p} : patterns'[q] = patterns[q] /\ reinforced'[q] = reinforced[q]
  BY <1>2, <1>3, <1>5 DEF HabitsOK
<1>7. reinforcing' = [reinforcing EXCEPT ![c] = IF asked = "http" THEN None ELSE turn]
  BY <1>6 DEF Reinforce
<1>8. turn.p = p /\ turn.least = new.confidence /\ (asked # "http" => turn \in Turn)
  BY <1>4 DEF Turn
<1> HIDE DEF turn
<1>9. reinforcing' \in [Caller -> Turn \cup {None}] /\ reinforcing'[c] \in {None, turn}
      /\ \A d \in Caller \ {c} : reinforcing'[d] = reinforcing[d]
  BY <1>7, <1>8 DEF HabitsOK
<1>10. Stored(patterns') = Stored(patterns)
  BY <1>1, <1>4, <1>6 DEF HabitsOK, Stored
<1>11. ASSUME NEW q \in Stored(patterns')
       PROVE  Reckoned(patterns'[q], first'[q], reinforced'[q])
  <2>1. CASE q = p
    BY <1>3, <1>5, <1>6, <2>1
  <2>2. CASE q # p
    <3>1. q \in Stored(patterns) /\ q \in Pattern \ {p}
      BY <1>10, <2>2 DEF Stored, HabitsOK
    <3> QED BY <1>5, <1>6, <3>1 DEF HabitsOK
  <2> QED BY <2>1, <2>2
<1>12. ASSUME NEW d \in Caller, NEW t, t = reinforcing'[d], t # None
       PROVE  Owing(t)'
  <2>1. CASE d = c /\ t = turn
    BY <1>2, <1>3, <1>4, <1>6, <1>8, <2>1 DEF Owing
  <2>2. CASE d # c
    <3>1. t \in Turn /\ Owing(t) /\ t.p \in Pattern /\ t.least \in Nat
      BY <1>9, <1>12, <2>2 DEF HabitsOK, Turn
    <3>2. CASE t.p = p
      BY <1>2, <1>3, <1>4, <1>6, <3>1, <3>2 DEF Owing
    <3>3. CASE t.p # p
      BY <1>6, <3>1, <3>3 DEF Owing
    <3> QED BY <3>2, <3>3
  <2> QED BY <1>9, <1>12, <2>1, <2>2
<1>13. \A d \in Caller : reinforcing'[d] # None => Owing(reinforcing[d])'
  BY <1>12 DEF Owing
<1>14. report' # None => Truthful(report)'
  BY <1>5, <1>10 DEF HabitsOK, Truthful
<1>15. \A q \in Pattern : patterns'[q] = None => reinforced'[q] = 0
  BY <1>4, <1>6 DEF HabitsOK
<1> QED BY <1>5, <1>6, <1>9, <1>11, <1>13, <1>14, <1>15 DEF HabitsOK

LEMMA DecayKeeps ==
  ASSUME HabitsOK, DecayPatterns
  PROVE  HabitsOK' /\ UNCHANGED talk
<1> USE VkbAssumption
<1>1. /\ first' = patterns /\ reinforced' = [p \in Pattern |-> 0]
      /\ reinforcing' = [c \in Caller |->
            IF reinforcing[c] = None THEN None ELSE [reinforcing[c] EXCEPT !.least = 0]]
      /\ UNCHANGED <<talk, patterns, report>>
  BY DEF DecayPatterns
<1>2. ASSUME NEW c \in Caller, NEW t, t = reinforcing'[c]
      PROVE  t \in Turn \cup {None} /\ (t # None => Owing(t)')
  <2>1. CASE reinforcing[c] = None
    BY <1>1, <1>2, <2>1
  <2>2. CASE reinforcing[c] # None
    <3> DEFINE turn == reinforcing[c]
               next == [turn EXCEPT !.least = 0]
    <3>1. turn \in Turn /\ Owing(turn)
      BY <2>2 DEF HabitsOK
    <3>2. next \in Turn /\ next.p = turn.p /\ next.least = 0 /\ t = next
      BY <1>1, <1>2, <2>2, <3>1 DEF Turn
    <3>3. turn.p \in Pattern /\ patterns[turn.p] \in PatternRecord
      BY <3>1 DEF Turn, Owing, HabitsOK
    <3>4. patterns[turn.p] # None /\ patterns[turn.p].confidence \in Nat
      BY <3>1, <3>3 DEF Owing, PatternRecord
    <3>5. t \in Turn /\ t.least = 0 /\ patterns[t.p] # None /\ patterns[t.p].confidence \in Nat
      BY <3>2, <3>4
    <3> QED BY <1>1, <3>5 DEF Owing
  <2> QED BY <2>1, <2>2
<1>3. reinforcing' \in [Caller -> Turn \cup {None}] /\ \A c \in Caller : reinforcing'[c] # None => Owing(reinforcing[c])'
  <2>1. DOMAIN reinforcing' = Caller
    BY <1>1
  <2>2. \A c \in Caller : reinforcing'[c] # None => Owing(reinforcing[c])'
    BY <1>2 DEF Owing
  <2> QED BY <1>1, <1>2, <2>1, <2>2
<1>4. ASSUME NEW p \in Stored(patterns) PROVE Reckoned(patterns[p], patterns[p], 0)
  <2>1. patterns[p] \in PatternRecord /\ Reckoned(patterns[p], first[p], reinforced[p])
    BY DEF HabitsOK, Stored
  <2> QED BY <2>1 DEF Reckoned
<1>5. \A p \in Stored(patterns') : Reckoned(patterns'[p], first'[p], reinforced'[p])
  <2>1. \A p \in Stored(patterns) : p \in Pattern
    BY DEF HabitsOK, Stored
  <2> QED BY <1>1, <1>4, <2>1
<1>6. /\ first' \in [Pattern -> PatternRecord \cup {None}] /\ reinforced' \in [Pattern -> Nat]
      /\ \A p \in Pattern : patterns'[p] = None => reinforced'[p] = 0
  BY <1>1 DEF HabitsOK
<1>7. report' # None => Truthful(report)'
  BY <1>1 DEF HabitsOK, Truthful
<1> QED BY <1>1, <1>3, <1>5, <1>6, <1>7 DEF HabitsOK

(* A list holds patterns, and all that are wanted unless they are too many. *)
LEMMA PatternsListed ==
  ASSUME NEW W \in SUBSET Pattern, NEW limit \in Nat, NEW l \in ListPatterns(W, limit)
  PROVE  /\ l \in Seq(Id)
         /\ Cardinality(W) <= limit => W \subseteq ToSet(l)
<1> USE VkbAssumption
<1>1. IsFiniteSet(W)
  BY FS_Subset
<1>2. PICK o \in SetToSeqs(W) : l = SubSeq(o, 1, Min({limit, Len(o)}))
  BY DEF ListPatterns
<1>3. o \in Seq(W) /\ Len(o) = Cardinality(W) /\ W \subseteq ToSet(o)
  BY <1>1, Orders
<1>4. l \in Seq(W) /\ (Cardinality(W) <= limit => l = o)
  BY <1>2, <1>3, Cut
<1>5. l \in Seq(Id)
  BY <1>4, SeqMonotonic, LongAnswers
<1> QED BY <1>3, <1>4, <1>5

LEMMA ReportedKeeps ==
  ASSUME HabitsOK, NEW c \in Caller, reinforcing[c] # None, NEW said \in Nat \cup {None},
         Reported(c, said),
         reinforcing[c].asked = "mcp" =>
            IF said = None THEN Cardinality(Stored(patterns)) > FoundAmong
                           ELSE said >= reinforcing[c].least
  PROVE  HabitsOK' /\ UNCHANGED talk
<1> USE VkbAssumption
<1> DEFINE told == [asked |-> reinforcing[c].asked, said |-> said, least |-> reinforcing[c].least]
<1>1. /\ report' = told
      /\ reinforcing' = [reinforcing EXCEPT ![c] = None]
      /\ UNCHANGED <<talk, patterns, first, reinforced>>
  BY DEF Reported
<1>2. told \in Said /\ told.said = said /\ told.least = reinforcing[c].least /\ told.asked = reinforcing[c].asked
  BY DEF HabitsOK, Turn, Said
<1> HIDE DEF told
<1>3. Truthful(report)'
  BY <1>1, <1>2 DEF Truthful
<1>4. reinforcing' \in [Caller -> Turn \cup {None}]
      /\ \A d \in Caller : reinforcing'[d] # None => reinforcing'[d] = reinforcing[d] /\ reinforcing[d] # None
  BY <1>1 DEF HabitsOK
<1>5. \A d \in Caller : reinforcing'[d] # None => Owing(reinforcing[d])'
  BY <1>1, <1>4 DEF HabitsOK, Owing
<1> QED BY <1>1, <1>2, <1>3, <1>4, <1>5 DEF HabitsOK

LEMMA TurnsEnd ==
  ASSUME HabitsOK, NEW c \in Caller, McpReinforced(c) \/ ReinforcedPattern(c)
  PROVE  HabitsOK' /\ UNCHANGED talk /\ Answered'
<1> USE VkbAssumption
<1> DEFINE W == Stored(patterns)
           q == reinforcing[c].p
<1>1. reinforcing[c] # None
  BY DEF McpReinforced, ReinforcedPattern
<1>2. /\ q \in W /\ q \in Pattern
      /\ patterns[q].confidence \in Nat /\ reinforcing[c].least \in Nat
      /\ reinforcing[c].least <= patterns[q].confidence /\ reinforcing[c].least <= 10
  <2>1. reinforcing[c] \in Turn /\ Owing(reinforcing[c])
    BY <1>1 DEF HabitsOK
  <2>2. q \in Pattern /\ patterns[q] # None
    BY <2>1 DEF Turn, Owing
  <2>3. patterns[q] \in PatternRecord
    BY <2>2 DEF HabitsOK
  <2>4. q \in W
    BY <2>2 DEF HabitsOK, Stored
  <2> QED BY <2>1, <2>2, <2>3, <2>4 DEF Turn, Owing, PatternRecord
<1>3. W \in SUBSET Pattern /\ Cardinality(W) \in Nat
  BY StoredCounts DEF HabitsOK, Stored
<1>4. CASE McpReinforced(c)
  <2>1. PICK l \in ListPatterns(W, FoundAmong) :
           /\ Reported(c, IF q \in ToSet(l) THEN patterns[q].confidence ELSE None)
           /\ answer' = IF q \in ToSet(l) THEN <<q>> ELSE None
    BY <1>4 DEF McpReinforced
  <2>2. q \notin ToSet(l) => Cardinality(W) > FoundAmong
    BY <1>2, <1>3, PatternsListed
  <2>3. Answered'
    BY <1>2, <2>1, ShortAnswers DEF Answered, Id
  <2>4. CASE q \in ToSet(l)
    <3>1. Reported(c, patterns[q].confidence) /\ patterns[q].confidence # None
      BY <1>2, <2>1, <2>4
    <3> QED BY <1>1, <1>2, <2>3, <3>1, ReportedKeeps
  <2>5. CASE q \notin ToSet(l)
    <3>1. Reported(c, None)
      BY <2>1, <2>5
    <3> QED BY <1>1, <2>2, <2>3, <2>5, <3>1, ReportedKeeps
  <2> QED BY <2>4, <2>5
<1>5. CASE ReinforcedPattern(c)
  <2>1. PICK l \in ListPatterns(W, 1) :
           /\ Reported(c, IF q \in ToSet(l) THEN patterns[q].confidence ELSE 10)
           /\ answer' = l
    BY <1>5 DEF ReinforcedPattern
  <2>2. Answered'
    BY <1>3, <2>1, PatternsListed DEF Answered
  <2>3. PICK said \in Nat : said >= reinforcing[c].least /\ Reported(c, said)
    BY <1>2, <2>1
  <2>4. said # None
    BY <2>3
  <2> QED BY <1>1, <2>2, <2>3, <2>4, ReportedKeeps
<1> QED BY <1>4, <1>5

LEMMA PatternStep ==
  ASSUME HabitsOK, Answered, PatternNext
  PROVE  HabitsOK' /\ Answered' /\ UNCHANGED talk
<1> USE VkbAssumption
<1> DEFINE Goal == HabitsOK' /\ Answered' /\ UNCHANGED talk
<1>0. \A status : WithStatus(status) \in SUBSET Pattern
  BY DEF WithStatus, Stored, HabitsOK
<1>1. ASSUME NEW p \in Pattern, NEW conf \in Nat, Record(p, NewPattern(conf))
      PROVE  Goal
  BY <1>1, RecordKeeps
<1>2. ASSUME NEW p \in Pattern, CreatePattern(p)
      PROVE  Goal
  BY <1>1, <1>2 DEF CreatePattern
<1>3. ASSUME NEW p \in Pattern, NEW conf \in Start, HttpRecordPattern(p, conf) \/ McpRecordPattern(p, conf)
      PROVE  Goal
  BY <1>1, <1>3 DEF HttpRecordPattern, McpRecordPattern
<1>4. ASSUME NEW p \in Pattern, NEW c \in Caller,
             HttpReinforcePattern(c, p) \/ McpReinforcePattern(c, p) \/ ReinforcePattern(c, p)
      PROVE  Goal
  <2>1. PICK asked \in {"http", "mcp", "library"}, limit \in {1, FoundAmong} : Reinforce(c, p, asked, limit)
    BY <1>4 DEF HttpReinforcePattern, McpReinforcePattern, ReinforcePattern
  <2> QED BY <2>1, ReinforceKeeps DEF Answered
<1>5. ASSUME NEW c \in Caller, McpReinforced(c) \/ ReinforcedPattern(c)
      PROVE  Goal
  BY <1>5, TurnsEnd
<1>6. ASSUME NEW W \in SUBSET Pattern, NEW limit \in Nat, answer' \in ListPatterns(W, limit),
             UNCHANGED <<talk, habits>>
      PROVE  Goal
  <2>1. answer' \in Seq(Id)
    BY <1>6, PatternsListed
  <2> QED BY <1>6, <2>1, HabitsFrame DEF Answered
<1>7. ASSUME NEW status, NEW limit \in PageSize, HttpListPatterns(status, limit) \/ McpListPatterns(status, limit)
      PROVE  Goal
  <2>1. answer' \in ListPatterns(WithStatus(status), limit) /\ UNCHANGED <<talk, habits>>
    BY <1>7 DEF HttpListPatterns, McpListPatterns
  <2> QED BY <1>0, <1>6, <2>1
<1>8. ASSUME NEW limit \in PageSize, HttpSearchPatterns(limit) \/ McpSearchPatterns(limit)
      PROVE  Goal
  <2>1. answer' \in SearchPatterns(limit) /\ UNCHANGED <<talk, habits>>
    BY <1>8 DEF HttpSearchPatterns, McpSearchPatterns
  <2>2. PICK W \in SUBSET Stored(patterns) : answer' \in ListPatterns(W, limit)
    BY <2>1 DEF SearchPatterns
  <2>3. W \in SUBSET Pattern
    BY <2>2 DEF Stored, HabitsOK
  <2> QED BY <1>6, <2>1, <2>2, <2>3
<1>9. ASSUME DecayPatterns
      PROVE  Goal
  <2> DEFINE W == Stored(patterns) \ WithStatus("archived")
  <2>1. answer' \in ListPatterns(W, Cardinality(Pattern))
    BY <1>9 DEF DecayPatterns
  <2>2. W \in SUBSET Pattern /\ Cardinality(Pattern) \in Nat
    BY FS_CardinalityType DEF Stored, HabitsOK
  <2> HIDE DEF W
  <2>3. Answered'
    BY <2>1, <2>2, PatternsListed DEF Answered
  <2> QED BY <1>9, <2>3, DecayKeeps
<1> HIDE DEF Goal
<1>10. Goal
  BY <1>2, <1>3, <1>4, <1>5, <1>7, <1>8, <1>9 DEF PatternNext
<1> QED BY <1>10 DEF Goal

-----------------------------------------------------------------------------
(* The theorems.                                                           *)

VInv == TalkOK /\ HabitsOK /\ Answered

LEMMA InitVInv == Init => VInv
<1> USE VkbAssumption
<1> SUFFICES ASSUME Init PROVE VInv
  OBVIOUS
<1>1. Stored(sessions) = {} /\ Stored(patterns) = {}
  BY DEF Init, Stored
<1>2. created \in Seq(Session) /\ ToSet(created) = {} /\ IsInjective(created)
  <2>1. created = <<>> /\ DOMAIN created = {}
    BY DEF Init
  <2> QED BY <2>1 DEF ToSet, IsInjective
<1>3. TalkOK
  <2>1. exchanges \in [Session -> Seq(Exchange)] /\ \A s \in Session : exchanges[s] = <<>>
    BY EmptySeq DEF Init
  <2>2. insights \in [Session -> 0 .. MaxInsights] /\ \A s \in Session : insights[s] = 0
    BY DEF Init
  <2>3. sessions \in [Session -> SessionRecord \cup {None}] /\ reader \in [Reader -> Place \cup {None}]
    BY DEF Init
  <2>4. PagesWhole
    BY DEF Init, PagesWhole
  <2> QED BY <1>1, <1>2, <2>1, <2>2, <2>3, <2>4 DEF TalkOK
<1>4. HabitsOK
  BY <1>1 DEF Init, HabitsOK
<1> QED BY <1>3, <1>4 DEF Init, VInv, Answered

(* Inductive: TalkOK, HabitsOK and Answered hold in every reachable state. *)
(* memory.rs: MemorySessionStore                                           *)
THEOREM Inductive == Spec => []VInv
<1>1. ASSUME VInv, [Next]_vars
      PROVE  VInv'
  <2>1. CASE SessionNext
    BY <1>1, <2>1, SessionStep, HabitsFrame DEF VInv
  <2>2. CASE PatternNext
    BY <1>1, <2>2, PatternStep, TalkFrame DEF VInv
  <2>3. CASE UNCHANGED vars
    BY <1>1, <2>3, TalkFrame, HabitsFrame DEF VInv, vars, Answered
  <2> QED BY <1>1, <2>1, <2>2, <2>3 DEF Next
<1> QED BY <1>1, InitVInv, PTL DEF Spec

(* TalkIsSound: every variable keeps its type, no exchange is without its  *)
(* session, no session is created twice, and whoever pages through a       *)
(* session gets every exchange once, in order, whatever is added and       *)
(* however the session is ended meanwhile.                                 *)
(* memory.rs: list_exchanges, add_exchange, create_session                 *)
THEOREM TalkIsSound == Spec => []TalkSound
<1>1. VInv => TalkSound
  BY DEF VInv, TalkOK, HabitsOK, Answered, TalkSound, TypeOK, Id
<1> QED BY <1>1, Inductive, PTL

(* ReinforcementsAllCount: however many callers reinforce, and by whatever *)
(* way, none of it is lost: a pattern is as strong as it was recorded or   *)
(* last decayed and a tenth more for each since, up to 1, and established  *)
(* exactly if it was or that has taken it to 0.7.  pattern_reinforce tells *)
(* of no less than its caller made, unless it was decayed meanwhile, and   *)
(* of nothing only among more patterns than are searched.                  *)
(* memory.rs: reinforce_pattern; tools.rs: pattern_reinforce_impl          *)
THEOREM ReinforcementsAllCount == Spec => []ReinforcementsCount
<1>1. ASSUME VInv PROVE ReinforcementsCount
  <2>1. ASSUME NEW p \in Stored(patterns), NEW n, n = reinforced[p],
               NEW was, was = first[p], NEW gained, gained = was.confidence + n
        PROVE  /\ patterns[p].confidence = IF n = 0 THEN was.confidence ELSE Min({gained, 10})
               /\ (patterns[p].status = "established")
                     = (was.status = "established" \/ (n > 0 /\ gained >= 7))
    <3>1. p \in Pattern /\ n \in Nat /\ Reckoned(patterns[p], was, n)
      BY <1>1, <2>1 DEF VInv, HabitsOK, Stored
    <3>2. gained \in Nat
      BY <2>1, <3>1 DEF Reckoned, PatternRecord
    <3>3. Min({gained, 10}) = IF gained <= 10 THEN gained ELSE 10
      BY <3>2, MinOfTwo
    <3> QED BY <2>1, <3>1, <3>3 DEF Reckoned
  <2>2. report # None /\ report.asked = "mcp" =>
          IF report.said = None THEN Cardinality(Stored(patterns)) > FoundAmong
                                ELSE report.said >= report.least
    BY <1>1 DEF VInv, HabitsOK, Truthful
  <2> QED BY <2>1, <2>2 DEF ReinforcementsCount
<1> QED BY <1>1, Inductive, PTL
=============================================================================
