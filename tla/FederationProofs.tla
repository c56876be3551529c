--------------------------- MODULE FederationProofs ---------------------------
(***************************************************************************)
(* Proofs about Federation, for any number of engines and triples and any  *)
(* mix of local requests.                                                  *)
(*                                                                         *)
(* Why received triples find their nodes although nothing creates them: an *)
(* engine is only ever told of triples it has had itself.  What it asks    *)
(* for it picks from its own store, every answer is part of the question,  *)
(* and nodes are never removed.                                            *)
(***************************************************************************)
EXTENDS Federation, TLAPS

(* m asks for, or brings its receiver, only triples with nodes there. *)
Answerable(m) ==
    /\ m.kind \in {"wantHeaders", "wantTriples"} => m.ids \subseteq known[m.from]
    /\ m.kind \in {"headers", "triples"} => m.ids \subseteq known[m.to]

MessagesKnown ==
    /\ \A m \in net : Answerable(m)
    /\ \A p \in Peer : \A m \in loop[p].out : Answerable(m)

MergesKnown == \A p \in Peer : loop[p].todo \cup loop[p].taken \cup loop[p].copy \subseteq known[p]

(* What was retracted when a response came in still is. *)
StillRetracted == \A p \in Peer : loop[p].before \subseteq Retracted(p)

FInv ==
    /\ TypeOK
    /\ NodesKnown /\ MessagesKnown /\ MergesKnown
    /\ RetractionWins /\ StillRetracted

(* The type invariant but for the loops. *)
RestOK ==
    /\ \A f \in {stored, known} : f \in [Peer -> SUBSET Triple]
    /\ peers \in [Peer -> [Peer -> PeerRecord]]
    /\ cycle \in [Peer -> SUBSET Peer]
    /\ transport \in [Peer -> {"free", "loop"}]
    /\ net \in SUBSET Message

LoopOK(l) ==
    /\ l \in LoopState
    /\ l.at \in {"send", "merge"} \/ l \in {Top, Waiting, Dead}

-----------------------------------------------------------------------------
(* Where a loop can go.                                                    *)

LEMMA Places ==
  /\ \A l \in {Top, Waiting, Dead} :
       LoopOK(l) /\ l.out = {} /\ l.todo = {} /\ l.taken = {} /\ l.copy = {} /\ l.before = {}
  BY DEF Top, Waiting, Dead, LoopOK, LoopState

LEMMA SendingPlace ==
  ASSUME NEW m \in Message
  PROVE  LET l == Sending(m)
         IN  LoopOK(l) /\ l.out = {m} /\ l.todo = {} /\ l.taken = {} /\ l.copy = {} /\ l.before = {}
  BY DEF Sending, Top, LoopOK, LoopState

LEMMA MessageParts ==
  /\ \A m \in Message : m.from \in Peer /\ m.to \in Peer /\ m.ids \in SUBSET Triple
  /\ \A kind \in Requests \cup Answers, p \in Peer, q \in Peer, ids \in SUBSET Triple :
       LET m == Msg(kind, p, q, ids)
       IN  m \in Message /\ m.kind = kind /\ m.from = p /\ m.to = q /\ m.ids = ids
  BY DEF Message, Msg

-----------------------------------------------------------------------------
(* Steps.                                                                  *)

LEMMA RetractedBy == \A p \in Peer :
  /\ stored'[p] = stored[p] => Retracted(p)' = Retracted(p)
  /\ stored[p] \subseteq stored'[p] => Retracted(p) \subseteq Retracted(p)'
  BY DEF Retracted

LEMMA RetractedTyped == \A p \in Peer : TypeOK => Retracted(p) \in SUBSET Triple
  BY FederationAssumption DEF TypeOK, Retracted

(* One loop moves on to l. *)
LEMMA Move ==
  ASSUME FInv, RestOK', NodesKnown',
         NEW p \in Peer, NEW l, loop' = [loop EXCEPT ![p] = l], LoopOK(l),
         \A q \in Peer : known[q] \subseteq known'[q],
         \A q \in Peer \ {p} : stored'[q] = stored[q],
         \A m \in net' : m \in net \/ Answerable(m)',
         \A m \in l.out : Answerable(m)',
         l.todo \cup l.taken \cup l.copy \subseteq known'[p],
         (l.taken \cup l.copy) \cap l.before = {},
         l.before \subseteq Retracted(p)'
  PROVE  FInv'
<1>1. loop \in [Peer -> LoopState] /\ \A q \in Peer : LoopOK(loop[q])
  BY DEF FInv, TypeOK, LoopOK
<1>2. loop' \in [Peer -> LoopState] /\ loop'[p] = l /\ \A q \in Peer \ {p} : loop'[q] = loop[q]
  BY <1>1 DEF LoopOK
<1>3. \A q \in Peer : LoopOK(loop'[q])
  BY <1>1, <1>2
<1>4. TypeOK'
  BY <1>2, <1>3 DEF TypeOK, RestOK, LoopOK
<1>5. \A m \in Message : Answerable(m) => Answerable(m)'
  BY MessageParts DEF Answerable
<1>6. MessagesKnown'
  <2>1. \A m \in net' : Answerable(m)'
    BY <1>5 DEF FInv, TypeOK, MessagesKnown
  <2>2. ASSUME NEW q \in Peer, NEW m \in loop'[q].out PROVE Answerable(m)'
    <3>1. CASE q = p
      BY <1>2, <2>2, <3>1
    <3>2. CASE q # p
      <4>1. m \in loop[q].out /\ loop[q] \in LoopState
        BY <1>1, <1>2, <2>2, <3>2
      <4>2. m \in Message /\ Answerable(m)
        BY <4>1 DEF LoopState, FInv, MessagesKnown
      <4> QED BY <1>5, <4>2
    <3> QED BY <3>1, <3>2
  <2> QED BY <2>1, <2>2 DEF MessagesKnown
<1>7. MergesKnown'
  BY <1>2 DEF MergesKnown, FInv
<1>8. RetractionWins' /\ StillRetracted'
  BY <1>2, RetractedBy DEF RetractionWins, StillRetracted, FInv
<1> QED BY <1>4, <1>6, <1>7, <1>8 DEF FInv

(* Something happens beside the loops. *)
LEMMA Beside ==
  ASSUME FInv, RestOK', NodesKnown', UNCHANGED loop,
         \A q \in Peer : known[q] \subseteq known'[q] /\ stored[q] \subseteq stored'[q],
         \A m \in net' : m \in net \/ Answerable(m)'
  PROVE  FInv'
<1>1. TypeOK'
  BY DEF FInv, TypeOK, RestOK
<1>2. \A m \in Message : Answerable(m) => Answerable(m)'
  BY MessageParts DEF Answerable
<1>3. MessagesKnown'
  <2>1. \A m \in net : m \in Message /\ Answerable(m)
    BY DEF FInv, TypeOK, MessagesKnown
  <2>2. \A q \in Peer : \A m \in loop[q].out : m \in Message /\ Answerable(m)
    BY DEF FInv, TypeOK, LoopState, MessagesKnown
  <2> QED BY <1>2, <2>1, <2>2 DEF MessagesKnown
<1>4. MergesKnown' /\ RetractionWins' /\ StillRetracted'
  BY RetractedBy DEF FInv, MergesKnown, RetractionWins, StillRetracted
<1> QED BY <1>1, <1>3, <1>4 DEF FInv

(* A message is taken up. *)
LEMMA HandleKeeps ==
  ASSUME FInv, NEW p \in Peer, NEW m \in net, m.to = p, Handle(p, m),
         RestOK', UNCHANGED local, net' \subseteq net
  PROVE  FInv'
<1>1. m \in Message /\ Answerable(m) /\ m.from \in Peer /\ m.ids \in SUBSET Triple
  BY MessageParts DEF FInv, TypeOK, MessagesKnown
<1>2. /\ stored[p] \subseteq known[p] /\ known[p] \subseteq Triple /\ Retracted(p) \subseteq Triple
      /\ Gossipable(p) \subseteq stored[p]
  BY RetractedTyped DEF FInv, TypeOK, NodesKnown, Gossipable
<1>3. /\ \A q \in Peer : known[q] \subseteq known'[q] /\ stored'[q] = stored[q]
      /\ known' = known /\ Retracted(p)' = Retracted(p) /\ NodesKnown'
  BY RetractedBy DEF local, FInv, NodesKnown
<1>4. ASSUME NEW l \in {Top, Dead}, Goto(p, l) PROVE FInv'
  <2>1. LoopOK(l) /\ l.out = {} /\ l.todo = {} /\ l.taken = {} /\ l.copy = {} /\ l.before = {}
    BY Places
  <2> QED BY <1>3, <1>4, <2>1, Move DEF Goto
<1>5. ASSUME NEW kind \in Requests \cup Answers, NEW ids \in SUBSET Triple,
             Goto(p, Sending(Msg(kind, p, m.from, ids))),
             kind \in {"wantHeaders", "wantTriples"} => ids \subseteq known[p],
             kind \in {"headers", "triples"} => ids \subseteq known[m.from]
      PROVE  FInv'
  <2> DEFINE o == Msg(kind, p, m.from, ids)
             l == Sending(o)
  <2>1. o \in Message /\ o.kind = kind /\ o.from = p /\ o.to = m.from /\ o.ids = ids
    BY <1>1, MessageParts
  <2>2. Answerable(o)'
    BY <1>3, <1>5, <2>1 DEF Answerable
  <2> HIDE DEF o
  <2>3. LoopOK(l) /\ l.out = {o} /\ l.todo = {} /\ l.taken = {} /\ l.copy = {} /\ l.before = {}
    BY <2>1, SendingPlace
  <2>4. loop' = [loop EXCEPT ![p] = l]
    BY <1>5 DEF Goto, o
  <2> HIDE DEF l
  <2> QED BY <1>3, <2>2, <2>3, <2>4, Move
<1>6. CASE m.kind = "bloom" /\ Goto(p, Sending(Msg("bloomAnswer", p, m.from, Gossipable(p))))
  BY <1>2, <1>5, <1>6 DEF Answers
<1>7. CASE /\ m.kind = "wantHeaders"
           /\ Goto(p, Sending(Msg("headers", p, m.from, HeadersFor(p, m.ids))))
  <2>1. HeadersFor(p, m.ids) \subseteq m.ids /\ m.ids \subseteq known[m.from]
    BY <1>1, <1>7 DEF HeadersFor, Answerable
  <2> QED BY <1>1, <1>5, <1>7, <2>1 DEF Answers
<1>8. CASE /\ m.kind = "wantTriples"
           /\ Goto(p, Sending(Msg("triples", p, m.from, m.ids \cap Gossipable(p))))
  <2>1. m.ids \subseteq known[m.from]
    BY <1>1, <1>8 DEF Answerable
  <2> QED BY <1>1, <1>5, <1>8, <2>1 DEF Answers
<1>9. CASE /\ m.kind = "headers"
           /\ \/ Goto(p, Top)
              \/ Goto(p, Sending(Msg("wantTriples", p, m.from, WantedHeaders(p, m.ids))))
  <2>1. WantedHeaders(p, m.ids) \subseteq m.ids /\ m.ids \subseteq known[p]
    BY <1>1, <1>9 DEF WantedHeaders, Answerable
  <2> QED BY <1>1, <1>4, <1>5, <1>9, <2>1 DEF Requests
<1>10. CASE m.kind = "triples" /\ Goto(p, Merging(m.ids, Retracted(p)))
  <2>0. m.ids \in SUBSET Triple /\ Retracted(p) \in SUBSET Triple
    BY <1>1, <1>2
  <2> DEFINE l == Merging(m.ids, Retracted(p))
  <2>1. LoopOK(l) /\ l.out = {} /\ l.todo = m.ids /\ l.taken = {} /\ l.copy = {} /\ l.before = Retracted(p)
    BY <2>0 DEF Merging, Top, LoopOK, LoopState
  <2>2. m.ids \subseteq known[p]
    BY <1>1, <1>10 DEF Answerable
  <2>3. loop' = [loop EXCEPT ![p] = l]
    BY <1>10 DEF Goto
  <2> HIDE DEF l
  <2>4. /\ LoopOK(l) /\ \A o \in l.out : Answerable(o)'
        /\ l.todo \cup l.taken \cup l.copy \subseteq known'[p]
        /\ (l.taken \cup l.copy) \cap l.before = {} /\ l.before \subseteq Retracted(p)'
    BY <1>3, <2>1, <2>2
  <2>5. /\ \A q \in Peer : known[q] \subseteq known'[q]
        /\ \A q \in Peer \ {p} : stored'[q] = stored[q]
        /\ \A o \in net' : o \in net \/ Answerable(o)'
    BY <1>3
  <2> QED BY <1>3, <2>3, <2>4, <2>5, Move
<1>11. CASE \E ids \in Missing(p, m) :
              \/ Goto(p, Top)
              \/ Goto(p, Sending(Msg("wantHeaders", p, m.from, ids)))
  <2>1. \A ids \in Missing(p, m) : ids \subseteq known[p] /\ ids \in SUBSET Triple
    BY <1>2 DEF Missing
  <2> QED BY <1>4, <1>5, <1>11, <2>1 DEF Requests
<1>12. CASE Goto(p, IF Gossipable(p) = {} THEN Top ELSE Dead)
  BY <1>4, <1>12
<1> QED BY <1>6, <1>7, <1>8, <1>9, <1>10, <1>11, <1>12 DEF Handle

LEMMA RestTyped == FInv => RestOK /\ NodesKnown
  BY DEF FInv, TypeOK, RestOK

(* The loop waits, is woken up, or a message of its own goes out. *)
LEMMA EventKeeps ==
  ASSUME FInv, NEW p \in Peer,
         \/ NextEvent(p) \/ Receive(p) \/ OtherEvent(p) \/ Send(p)
         \/ \E q \in Peer : PeerDiscovered(p, q) \/ PeerDisconnected(p, q)
  PROVE  FInv'
<1>0. RestOK /\ NodesKnown
  BY RestTyped
<1>1. ASSUME NEW l \in {Top, Waiting}, Goto(p, l), UNCHANGED <<local, net>>, RestOK' PROVE FInv'
  <2>1. LoopOK(l) /\ l.out = {} /\ l.todo = {} /\ l.taken = {} /\ l.copy = {} /\ l.before = {}
    BY Places
  <2>2. NodesKnown' /\ \A q \in Peer : known[q] \subseteq known'[q] /\ stored'[q] = stored[q]
    BY <1>0, <1>1 DEF local, NodesKnown
  <2> QED BY <1>1, <2>1, <2>2, Move DEF Goto
<1>2. CASE NextEvent(p)
  <2>1. RestOK'
    BY <1>0, <1>2 DEF NextEvent, RestOK, local
  <2> QED BY <1>1, <1>2, <2>1 DEF NextEvent
<1>3. CASE Receive(p)
  <2>1. RestOK'
    BY <1>0, <1>3 DEF Receive, Event, RestOK, local
  <2> QED BY <1>3, <2>1, HandleKeeps DEF Receive
<1>4. CASE OtherEvent(p)
  <2>1. RestOK'
    BY <1>0, <1>4 DEF OtherEvent, Event, RestOK, local
  <2> QED BY <1>1, <1>4, <2>1 DEF OtherEvent
<1>5. CASE Send(p)
  <2>1. net' = net \cup loop[p].out /\ Goto(p, Top) /\ UNCHANGED <<local, peers, cycle, transport>>
    BY <1>5 DEF Send
  <2>2. loop[p].out \subseteq Message /\ \A m \in loop[p].out : Answerable(m)
    BY DEF FInv, TypeOK, LoopState, MessagesKnown
  <2>3. RestOK'
    BY <1>0, <2>1, <2>2 DEF RestOK, local
  <2>4. \A m \in net' : m \in net \/ Answerable(m)'
    BY <2>1, <2>2 DEF Answerable, local
  <2>5. LoopOK(Top) /\ Top.out = {} /\ Top.todo = {} /\ Top.taken = {} /\ Top.copy = {} /\ Top.before = {}
    BY Places
  <2>6. NodesKnown' /\ \A q \in Peer : known[q] \subseteq known'[q] /\ stored'[q] = stored[q]
    BY <1>0, <2>1 DEF local, NodesKnown
  <2>7. loop' = [loop EXCEPT ![p] = Top]
    BY <2>1 DEF Goto
  <2> QED BY <2>3, <2>4, <2>5, <2>6, <2>7, Move
<1>6. ASSUME NEW q \in Peer, PeerDiscovered(p, q) PROVE FInv'
  <2>1. [connected |-> TRUE, trusted |-> FALSE] \in PeerRecord
    BY DEF PeerRecord
  <2>2. RestOK'
    BY <1>0, <1>6, <2>1 DEF PeerDiscovered, Event, RestOK, local
  <2> QED BY <1>1, <1>6, <2>2 DEF PeerDiscovered
<1>7. ASSUME NEW q \in Peer, PeerDisconnected(p, q) PROVE FInv'
  <2>1. peers[p][q] \in [connected : BOOLEAN, trusted : BOOLEAN]
    BY <1>0, <1>7 DEF PeerDisconnected, RestOK, PeerRecord
  <2>2. [peers[p][q] EXCEPT !.connected = FALSE] \in PeerRecord
    BY <2>1 DEF PeerRecord
  <2>3. peers' \in [Peer -> [Peer -> PeerRecord]]
    BY <1>0, <1>7, <2>2 DEF PeerDisconnected, RestOK
  <2>4. RestOK'
    BY <1>0, <1>7, <2>3 DEF PeerDisconnected, Event, RestOK, local
  <2> QED BY <1>1, <1>7, <2>4 DEF PeerDisconnected
<1> QED BY <1>2, <1>3, <1>4, <1>5, <1>6, <1>7

(* A response is merged. *)
LEMMA MergeKeeps ==
  ASSUME FInv, NEW p \in Peer,
         Screen(p) \/ Corroborate(p) \/ InsertReceived(p) \/ EndMerge(p)
  PROVE  FInv'
<1> DEFINE j == loop[p]
<1>0. /\ RestOK /\ NodesKnown /\ LoopOK(j) /\ j \in LoopState
      /\ j.todo \cup j.taken \cup j.copy \subseteq known[p]
      /\ (j.taken \cup j.copy) \cap j.before = {} /\ j.before \subseteq Retracted(p)
      /\ \A m \in j.out : Answerable(m)
  BY RestTyped DEF FInv, TypeOK, LoopOK, MergesKnown, RetractionWins, StillRetracted, MessagesKnown
<1> HIDE DEF j
<1>1. ASSUME NEW l, loop' = [loop EXCEPT ![p] = l], LoopOK(l),
             UNCHANGED <<known, peers, cycle, transport, net>>,
             NEW ts, ts \subseteq known[p], stored' = [stored EXCEPT ![p] = @ \cup ts],
             l.out = j.out, l.todo \subseteq j.todo, l.before = j.before,
             l.taken \subseteq known[p], l.copy \subseteq known[p], (l.taken \cup l.copy) \cap l.before = {}
      PROVE  FInv'
  <2>1. RestOK'
    BY <1>0, <1>1 DEF RestOK
  <2>2. NodesKnown'
    BY <1>0, <1>1 DEF NodesKnown, RestOK
  <2>3. \A m \in l.out : Answerable(m)'
    BY <1>0, <1>1 DEF Answerable
  <2>4. /\ \A q \in Peer : known[q] \subseteq known'[q]
        /\ \A q \in Peer \ {p} : stored'[q] = stored[q]
        /\ \A m \in net' : m \in net
        /\ l.todo \cup l.taken \cup l.copy \subseteq known'[p]
    BY <1>0, <1>1 DEF RestOK
  <2>5. stored[p] \subseteq stored'[p]
    BY <1>0, <1>1 DEF RestOK
  <2>6. l.before \subseteq Retracted(p)'
    BY <1>0, <1>1, <2>5, RetractedBy
  <2> QED BY <1>1, <2>1, <2>2, <2>3, <2>4, <2>6, Move
<1>2. CASE EndMerge(p)
  <2>1. UNCHANGED <<local, peers, cycle, transport, net>> /\ loop' = [loop EXCEPT ![p] = Top]
    BY <1>2 DEF EndMerge, Goto
  <2>2. LoopOK(Top) /\ Top.out = {} /\ Top.todo = {} /\ Top.taken = {} /\ Top.copy = {} /\ Top.before = {}
    BY Places
  <2>3. RestOK' /\ NodesKnown'
    BY <1>0, <2>1 DEF RestOK, NodesKnown, local
  <2>4. \A q \in Peer : known[q] \subseteq known'[q] /\ stored'[q] = stored[q]
    BY <2>1 DEF local
  <2> QED BY <2>1, <2>2, <2>3, <2>4, Move
<1>3. CASE Screen(p)
  <2>1. PICK t \in j.todo :
          loop' = [loop EXCEPT ![p] =
                     IF t \in Retracted(p) THEN [j EXCEPT !.todo = @ \ {t}]
                     ELSE IF t \in stored[p] THEN [[j EXCEPT !.todo = @ \ {t}] EXCEPT !.copy = {t}]
                     ELSE [[j EXCEPT !.todo = @ \ {t}] EXCEPT !.taken = @ \cup {t}]]
    BY <1>3 DEF Screen, Screened, Goto, j
  <2>2. /\ j.at = "merge" /\ j.copy = {} /\ t \in known[p] /\ t \in Triple
        /\ UNCHANGED <<local, peers, cycle, transport, net>>
    BY <1>0, <1>3 DEF Screen, j, LoopState
  <2>3. /\ UNCHANGED <<known, peers, cycle, transport, net>>
        /\ {} \subseteq known[p] /\ stored' = [stored EXCEPT ![p] = @ \cup {}]
    BY <1>0, <2>2 DEF local, RestOK
  <2> DEFINE r == [j EXCEPT !.todo = @ \ {t}]
  <2>4. /\ r \in LoopState /\ r.at = "merge" /\ r.out = j.out /\ r.todo = j.todo \ {t} /\ r.taken = j.taken
        /\ r.copy = {} /\ r.before = j.before
    BY <1>0, <2>2 DEF LoopState
  <2> HIDE DEF r
  <2>5. CASE t \in Retracted(p)
    <3>1. loop' = [loop EXCEPT ![p] = r]
      BY <2>1, <2>5 DEF r
    <3>2. LoopOK(r)
      BY <2>4 DEF LoopOK
    <3> QED BY <1>0, <1>1, <2>3, <2>4, <3>1, <3>2
  <2>6. CASE t \notin Retracted(p) /\ t \in stored[p]
    <3> DEFINE l == [r EXCEPT !.copy = {t}]
    <3>1. loop' = [loop EXCEPT ![p] = l]
      BY <2>1, <2>6 DEF r
    <3>2. /\ l \in LoopState /\ l.at = "merge" /\ l.out = j.out /\ l.todo \subseteq j.todo /\ l.taken = j.taken
          /\ l.copy = {t} /\ l.before = j.before
      BY <2>2, <2>4 DEF LoopState
    <3> HIDE DEF l
    <3>3. LoopOK(l)
      BY <3>2 DEF LoopOK
    <3>4. /\ l.taken \subseteq known[p] /\ l.copy \subseteq known[p]
          /\ (l.taken \cup l.copy) \cap l.before = {}
      BY <1>0, <2>2, <2>6, <3>2
    <3> QED BY <1>1, <2>3, <3>1, <3>2, <3>3, <3>4
  <2>7. CASE t \notin Retracted(p) /\ t \notin stored[p]
    <3> DEFINE l == [r EXCEPT !.taken = @ \cup {t}]
    <3>1. loop' = [loop EXCEPT ![p] = l]
      BY <2>1, <2>7 DEF r
    <3>2. /\ l \in LoopState /\ l.at = "merge" /\ l.out = j.out /\ l.todo \subseteq j.todo
          /\ l.taken = j.taken \cup {t} /\ l.copy = {} /\ l.before = j.before
      BY <2>2, <2>4 DEF LoopState
    <3> HIDE DEF l
    <3>3. LoopOK(l)
      BY <3>2 DEF LoopOK
    <3>4. t \notin j.before
      BY <1>0, <2>7
    <3> QED BY <1>0, <1>1, <2>2, <2>3, <3>1, <3>2, <3>3, <3>4
  <2> QED BY <2>5, <2>6, <2>7
<1>4. CASE Corroborate(p)
  <2> DEFINE l == [j EXCEPT !.copy = {}]
  <2>1. /\ loop' = [loop EXCEPT ![p] = l] /\ j.copy # {}
        /\ UNCHANGED <<known, peers, cycle, transport, net>>
        /\ stored' = [stored EXCEPT ![p] = @ \cup j.copy]
    BY <1>4 DEF Corroborate, Store, Goto, j
  <2>2. j.at \in {"send", "merge"}
    <3>1. j \notin {Top, Waiting, Dead}
      BY <2>1, Places
    <3> QED BY <1>0, <3>1 DEF LoopOK
  <2>3. /\ l \in LoopState /\ l.at = j.at /\ l.out = j.out /\ l.todo = j.todo /\ l.taken = j.taken
        /\ l.copy = {} /\ l.before = j.before
    BY <1>0 DEF LoopState
  <2> HIDE DEF l
  <2>4. LoopOK(l)
    BY <2>2, <2>3 DEF LoopOK
  <2> QED BY <1>0, <1>1, <2>1, <2>3, <2>4
<1>5. CASE InsertReceived(p)
  <2>1. PICK t \in j.taken :
          /\ loop' = [loop EXCEPT ![p] = [j EXCEPT !.taken = @ \ {t}]] /\ j.at = "merge"
          /\ UNCHANGED <<known, peers, cycle, transport, net>>
          /\ stored' = [stored EXCEPT ![p] = @ \cup {t}]
    BY <1>5 DEF InsertReceived, Store, Goto, j
  <2> DEFINE l == [j EXCEPT !.taken = @ \ {t}]
  <2>2. /\ l \in LoopState /\ l.at = "merge" /\ l.out = j.out /\ l.todo = j.todo /\ l.taken = j.taken \ {t}
        /\ l.copy = j.copy /\ l.before = j.before
    BY <1>0, <2>1 DEF LoopState
  <2>3. loop' = [loop EXCEPT ![p] = l] /\ {t} \subseteq known[p]
    BY <1>0, <2>1
  <2> HIDE DEF l
  <2>4. LoopOK(l)
    BY <2>2 DEF LoopOK
  <2> QED BY <1>0, <1>1, <2>1, <2>2, <2>3, <2>4
<1> QED BY <1>2, <1>3, <1>4, <1>5

(* What goes on around the loops. *)
LEMMA AroundKeeps ==
  ASSUME FInv, NEW p \in Peer,
         \/ Lose(p) \/ RunGossipCycle(p) \/ SendFilter(p)
         \/ \E q \in Peer : Promote(p, q)
         \/ \E t \in Triple :
              LocalInsert(p, t) \/ LocalEvict(p, t)
  PROVE  FInv'
<1>0. RestOK /\ NodesKnown
  BY RestTyped
<1>1. ASSUME UNCHANGED local, UNCHANGED loop, RestOK', \A m \in net' : m \in net \/ Answerable(m)'
      PROVE  FInv'
  <2>1. NodesKnown' /\ \A q \in Peer : known[q] \subseteq known'[q] /\ stored[q] \subseteq stored'[q]
    BY <1>0, <1>1 DEF local, NodesKnown
  <2> QED BY <1>1, <2>1, Beside
<1>2. CASE Lose(p)
  <2>1. RestOK'
    BY <1>0, <1>2 DEF Lose, RestOK, local
  <2> QED BY <1>1, <1>2, <2>1 DEF Lose
<1>3. CASE RunGossipCycle(p)
  <2>1. PeersToSync(p) \subseteq Peer
    BY DEF PeersToSync
  <2>2. cycle' \in [Peer -> SUBSET Peer]
    BY <1>0, <1>3, <2>1 DEF RunGossipCycle, RestOK
  <2>3. RestOK'
    BY <1>0, <1>3, <2>2 DEF RunGossipCycle, RestOK, local
  <2> QED BY <1>1, <1>3, <2>3 DEF RunGossipCycle
<1>4. CASE SendFilter(p)
  <2>1. PICK q \in cycle[p] : cycle' = [cycle EXCEPT ![p] = @ \ {q}] /\ net' = net \cup {Msg("bloom", p, q, {})}
    BY <1>4 DEF SendFilter
  <2>2. q \in Peer /\ cycle' \in [Peer -> SUBSET Peer]
    BY <1>0, <2>1 DEF RestOK
  <2> DEFINE o == Msg("bloom", p, q, {})
  <2>3. o \in Message /\ o.kind = "bloom"
    BY <2>2, MessageParts DEF Requests
  <2>4. Answerable(o)'
    BY <2>3 DEF Answerable
  <2>5. net' = net \cup {o}
    BY <2>1
  <2> HIDE DEF o
  <2>6. RestOK'
    BY <1>0, <1>4, <2>2, <2>3, <2>5 DEF SendFilter, RestOK, local
  <2> QED BY <1>1, <1>4, <2>4, <2>5, <2>6 DEF SendFilter
<1>5. ASSUME NEW q \in Peer, Promote(p, q) PROVE FInv'
  <2>1. peers[p][q] \in [connected : BOOLEAN, trusted : BOOLEAN]
    BY <1>0, <1>5 DEF Promote, RestOK, PeerRecord
  <2>2. [peers[p][q] EXCEPT !.trusted = TRUE] \in PeerRecord
    BY <2>1 DEF PeerRecord
  <2>3. peers' \in [Peer -> [Peer -> PeerRecord]]
    BY <1>0, <1>5, <2>2 DEF Promote, RestOK
  <2>4. RestOK'
    BY <1>0, <1>5, <2>3 DEF Promote, RestOK, local
  <2> QED BY <1>1, <1>5, <2>4 DEF Promote
<1>6. ASSUME NEW t \in Triple, LocalInsert(p, t) PROVE FInv'
  <2>1. /\ stored' = [stored EXCEPT ![p] = @ \cup {t}] /\ known' = [known EXCEPT ![p] = @ \cup {t}]
        /\ UNCHANGED <<peers, cycle, transport, loop, net>>
    BY <1>6 DEF LocalInsert
  <2>2. RestOK' /\ NodesKnown'
    BY <1>0, <2>1 DEF RestOK, NodesKnown
  <2>3. \A q \in Peer : known[q] \subseteq known'[q] /\ stored[q] \subseteq stored'[q]
    BY <1>0, <2>1 DEF RestOK
  <2> QED BY <2>1, <2>2, <2>3, Beside
<1>7. ASSUME NEW t \in Triple, LocalEvict(p, t) PROVE FInv'
  <2> DEFINE j == loop[p]
             gone == Retracted(p)'
             l == [j EXCEPT !.before = @ \cap gone]
  <2>1. /\ stored' = [stored EXCEPT ![p] = @ \ {t}] /\ loop' = [loop EXCEPT ![p] = l]
        /\ UNCHANGED <<known, peers, cycle, transport, net>>
    BY <1>7 DEF LocalEvict
  <2>2. RestOK' /\ NodesKnown'
    BY <1>0, <2>1 DEF RestOK, NodesKnown
  <2>3. /\ LoopOK(j) /\ j \in LoopState /\ j.todo \cup j.taken \cup j.copy \subseteq known[p]
        /\ (j.taken \cup j.copy) \cap j.before = {} /\ \A m \in j.out : Answerable(m)
    BY DEF FInv, TypeOK, LoopOK, MergesKnown, RetractionWins, MessagesKnown
  <2> HIDE DEF gone
  <2>4. /\ l \in LoopState /\ l.at = j.at /\ l.out = j.out /\ l.todo = j.todo /\ l.taken = j.taken
        /\ l.copy = j.copy /\ l.before = j.before \cap gone
    BY <2>3 DEF LoopState
  <2>5. LoopOK(l)
    <3>1. CASE j.at \in {"send", "merge"}
      BY <2>4, <3>1 DEF LoopOK
    <3>2. CASE j \in {Top, Waiting, Dead}
      <4>1. j.before = {}
        BY <3>2, Places
      <4>2. l = j
        BY <2>3, <4>1 DEF LoopState
      <4> QED BY <2>3, <4>2
    <3> QED BY <2>3, <3>1, <3>2 DEF LoopOK
  <2> HIDE DEF l, j
  <2>6. \A m \in l.out : Answerable(m)'
    BY <2>1, <2>3, <2>4 DEF Answerable
  <2>7. /\ \A q \in Peer : known[q] \subseteq known'[q]
        /\ \A q \in Peer \ {p} : stored'[q] = stored[q]
        /\ \A m \in net' : m \in net
        /\ l.todo \cup l.taken \cup l.copy \subseteq known'[p]
        /\ (l.taken \cup l.copy) \cap l.before = {} /\ l.before \subseteq gone
    BY <1>0, <2>1, <2>3, <2>4 DEF RestOK
  <2> QED BY <2>1, <2>2, <2>5, <2>6, <2>7, Move DEF gone
<1> QED BY <1>2, <1>3, <1>4, <1>5, <1>6, <1>7

-----------------------------------------------------------------------------
(* The invariant.                                                          *)

LEMMA FInit == Init => FInv
<1> SUFFICES ASSUME Init PROVE FInv
  OBVIOUS
<1>1. Top \in LoopState /\ Top.out = {} /\ Top.todo = {} /\ Top.taken = {} /\ Top.copy = {} /\ Top.before = {}
  BY Places DEF LoopOK
<1>2. \A p \in Peer : loop[p] = Top /\ stored[p] = {}
  BY DEF Init, Nothing
<1>3. TypeOK
  BY <1>1 DEF Init, Nothing, TypeOK, PeerRecord
<1>4. NodesKnown /\ MessagesKnown /\ MergesKnown /\ RetractionWins /\ StillRetracted
  BY <1>1, <1>2 DEF Init, NodesKnown, MessagesKnown, MergesKnown, RetractionWins, StillRetracted
<1> QED BY <1>3, <1>4 DEF FInv

LEMMA FStep == FInv /\ [Next]_vars => FInv'
<1> SUFFICES ASSUME FInv, [Next]_vars PROVE FInv'
  OBVIOUS
<1>1. CASE UNCHANGED vars
  <2>1. RestOK' /\ NodesKnown'
    BY <1>1, RestTyped DEF vars, local, RestOK, NodesKnown
  <2> QED BY <1>1, <2>1, Beside DEF vars, local
<1>2. CASE Next
  <2>1. PICK p \in Peer :
          \/ Lose(p) \/ RunGossipCycle(p) \/ SendFilter(p) \/ Receive(p) \/ Loop(p) \/ OtherEvent(p)
          \/ \E q \in Peer : PeerDiscovered(p, q) \/ PeerDisconnected(p, q) \/ Promote(p, q)
          \/ \E t \in Triple : LocalInsert(p, t) \/ LocalEvict(p, t)
    BY <1>2 DEF Next
  <2> QED BY <2>1, EventKeeps, MergeKeeps, AroundKeeps DEF Loop
<1> QED BY <1>1, <1>2

LEMMA Invariant == Spec => []FInv
  BY FInit, FStep, PTL DEF Spec

(***************************************************************************)
(* Loops, peer stores, stores and messages keep their types, and a loop    *)
(* that is not merging or sending remembers nothing of the last message.   *)
(***************************************************************************)
THEOREM TypeCorrect == Spec => []TypeOK
<1>1. FInv => TypeOK
  BY DEF FInv
<1> QED BY <1>1, Invariant, PTL

(***************************************************************************)
(* process_received_triples never leaves a triple without its two nodes,   *)
(* although it inserts the triples alone.                                  *)
(***************************************************************************)
THEOREM ReceivedHaveNodes == Spec => []NodesKnown
<1>1. FInv => NodesKnown
  BY DEF FInv
<1> QED BY <1>1, Invariant, PTL

(***************************************************************************)
(* No merge stores a triple that has been retracted ever since before its  *)
(* response came in, however insertions and evictions, those of retraction *)
(* markers among them, and the steps of the merge interleave.              *)
(***************************************************************************)
THEOREM RetractedStayOut == Spec => []RetractionWins
<1>1. FInv => RetractionWins
  BY DEF FInv
<1> QED BY <1>1, Invariant, PTL
-----------------------------------------------------------------------------
(* Restrictions: a new message tells of what may be gossiped when it is    *)
(* made, and waits at its sender until it goes out.                        *)

OwnMessages == \A p \in Peer : \A m \in loop[p].out : m.from = p

Allowed(p, m) == m.from = p /\ (m.kind # "wantTriples" => m.ids \subseteq Gossipable(p))

OnlyAllowed ==
    /\ \A p \in Peer : \A m \in loop'[p].out : m \in loop[p].out \/ Allowed(p, m)
    /\ \A m \in net' : m \in net \/ m.ids = {} \/ \E p \in Peer : m \in loop[p].out

LEMMA MoveAllowed ==
  ASSUME FInv, NEW p \in Peer, NEW l, Goto(p, l),
         \A m \in l.out : m \in loop[p].out \/ Allowed(p, m),
         \A m \in net' : m \in net \/ m \in loop[p].out
  PROVE  OnlyAllowed
<1>1. loop \in [Peer -> LoopState]
  BY DEF FInv, TypeOK
<1>2. loop'[p] = l /\ \A q \in Peer \ {p} : loop'[q] = loop[q]
  BY <1>1 DEF Goto
<1> QED BY <1>2 DEF OnlyAllowed

LEMMA AnswersAllowed ==
  ASSUME FInv, NEW p \in Peer, NEW m \in net, m.to = p, Handle(p, m), net' \subseteq net
  PROVE  OnlyAllowed
<1>1. m.from \in Peer /\ m.ids \in SUBSET Triple /\ Gossipable(p) \subseteq Triple
  BY MessageParts DEF FInv, TypeOK, Gossipable
<1>2. ASSUME NEW l \in {Top, Dead}, Goto(p, l) PROVE OnlyAllowed
  <2>1. l.out = {}
    BY Places
  <2> QED BY <1>2, <2>1, MoveAllowed
<1>3. ASSUME NEW kind \in Requests \cup Answers, NEW ids \in SUBSET Triple,
             Goto(p, Sending(Msg(kind, p, m.from, ids))),
             kind # "wantTriples" => ids \subseteq Gossipable(p)
      PROVE  OnlyAllowed
  <2> DEFINE o == Msg(kind, p, m.from, ids)
  <2>1. o \in Message /\ o.kind = kind /\ o.from = p /\ o.ids = ids
    BY <1>1, MessageParts
  <2>2. Allowed(p, o)
    BY <1>3, <2>1 DEF Allowed
  <2> HIDE DEF o
  <2>3. Sending(o).out = {o}
    BY <2>1, SendingPlace
  <2>4. Goto(p, Sending(o))
    BY <1>3 DEF o
  <2> QED BY <2>2, <2>3, <2>4, MoveAllowed
<1>4. CASE m.kind = "bloom" /\ Goto(p, Sending(Msg("bloomAnswer", p, m.from, Gossipable(p))))
  BY <1>1, <1>3, <1>4 DEF Answers
<1>5. CASE /\ m.kind = "wantHeaders"
           /\ Goto(p, Sending(Msg("headers", p, m.from, HeadersFor(p, m.ids))))
  <2>1. HeadersFor(p, m.ids) \subseteq Gossipable(p)
    BY DEF HeadersFor
  <2> QED BY <1>1, <1>3, <1>5, <2>1 DEF Answers
<1>6. CASE /\ m.kind = "wantTriples"
           /\ Goto(p, Sending(Msg("triples", p, m.from, m.ids \cap Gossipable(p))))
  BY <1>1, <1>3, <1>6 DEF Answers
<1>7. CASE /\ m.kind = "headers"
           /\ \/ Goto(p, Top)
              \/ Goto(p, Sending(Msg("wantTriples", p, m.from, WantedHeaders(p, m.ids))))
  <2>1. WantedHeaders(p, m.ids) \in SUBSET Triple
    BY <1>1 DEF WantedHeaders
  <2> QED BY <1>2, <1>3, <1>7, <2>1 DEF Requests
<1>8. CASE m.kind = "triples" /\ Goto(p, Merging(m.ids, Retracted(p)))
  <2>1. Merging(m.ids, Retracted(p)).out = {}
    BY DEF Merging, Top
  <2> QED BY <1>8, <2>1, MoveAllowed
<1>9. CASE \E ids \in Missing(p, m) :
             \/ Goto(p, Top)
             \/ Goto(p, Sending(Msg("wantHeaders", p, m.from, ids)))
  <2>1. \A ids \in Missing(p, m) : ids \subseteq Gossipable(p) /\ ids \in SUBSET Triple
    BY <1>1 DEF Missing
  <2> QED BY <1>2, <1>3, <1>9, <2>1 DEF Requests
<1>10. CASE Goto(p, IF Gossipable(p) = {} THEN Top ELSE Dead)
  BY <1>2, <1>10
<1> QED BY <1>4, <1>5, <1>6, <1>7, <1>8, <1>9, <1>10 DEF Handle

LEMMA StepsAllowed ==
  ASSUME FInv, [Next]_vars
  PROVE  OnlyAllowed
<1>1. ASSUME UNCHANGED loop, \A m \in net' : m \in net \/ m.ids = {} PROVE OnlyAllowed
  BY <1>1 DEF OnlyAllowed
<1>2. ASSUME NEW p \in Peer, NEW l \in {Top, Waiting}, Goto(p, l), net' \subseteq net PROVE OnlyAllowed
  <2>1. l.out = {}
    BY Places
  <2> QED BY <1>2, <2>1, MoveAllowed
<1>3. ASSUME NEW p \in Peer, NextEvent(p) \/ OtherEvent(p) \/ EndMerge(p) PROVE OnlyAllowed
  BY <1>2, <1>3 DEF NextEvent, OtherEvent, EndMerge
<1>4. ASSUME NEW p \in Peer, NEW q \in Peer, PeerDiscovered(p, q) \/ PeerDisconnected(p, q) PROVE OnlyAllowed
  BY <1>2, <1>4 DEF PeerDiscovered, PeerDisconnected
<1>5. ASSUME NEW p \in Peer, Receive(p) PROVE OnlyAllowed
  BY <1>5, AnswersAllowed DEF Receive
<1>6. ASSUME NEW p \in Peer, Send(p) PROVE OnlyAllowed
  <2>1. Top.out = {}
    BY Places
  <2> QED BY <1>6, <2>1, MoveAllowed DEF Send
<1>7. ASSUME NEW p \in Peer, Screen(p) \/ Corroborate(p) \/ InsertReceived(p) PROVE OnlyAllowed
  <2>1. loop[p] \in LoopState
    BY DEF FInv, TypeOK
  <2>2. \A s : /\ [loop[p] EXCEPT !.todo = s].out = loop[p].out
               /\ [loop[p] EXCEPT !.taken = s].out = loop[p].out
               /\ [loop[p] EXCEPT !.copy = s].out = loop[p].out
    BY <2>1 DEF LoopState
  <2>3. \A s, c : /\ [[loop[p] EXCEPT !.todo = s] EXCEPT !.copy = c].out = loop[p].out
                  /\ [[loop[p] EXCEPT !.todo = s] EXCEPT !.taken = c].out = loop[p].out
    BY <2>1 DEF LoopState
  <2>4. net' = net
    BY <1>7 DEF Screen, Corroborate, InsertReceived, Store
  <2>5. CASE Corroborate(p)
    BY <2>2, <2>4, <2>5, MoveAllowed DEF Corroborate
  <2>6. CASE InsertReceived(p)
    <3>1. PICK t \in loop[p].taken : Goto(p, [loop[p] EXCEPT !.taken = @ \ {t}])
      BY <2>6 DEF InsertReceived
    <3> QED BY <2>2, <2>4, <3>1, MoveAllowed
  <2>7. CASE Screen(p)
    <3>1. PICK t \in loop[p].todo :
            \/ Goto(p, [loop[p] EXCEPT !.todo = @ \ {t}])
            \/ Goto(p, [[loop[p] EXCEPT !.todo = @ \ {t}] EXCEPT !.copy = {t}])
            \/ Goto(p, [[loop[p] EXCEPT !.todo = @ \ {t}] EXCEPT !.taken = @ \cup {t}])
      BY <2>7 DEF Screen
    <3> QED BY <2>2, <2>3, <2>4, <3>1, MoveAllowed
  <2> QED BY <1>7, <2>5, <2>6, <2>7
<1>8. ASSUME NEW p \in Peer, Lose(p) \/ RunGossipCycle(p) \/ \E q \in Peer : Promote(p, q)
      PROVE  OnlyAllowed
  BY <1>1, <1>8 DEF Lose, RunGossipCycle, Promote
<1>9. ASSUME NEW p \in Peer, SendFilter(p) PROVE OnlyAllowed
  <2>1. PICK q \in cycle[p] : net' = net \cup {Msg("bloom", p, q, {})} /\ UNCHANGED loop
    BY <1>9 DEF SendFilter
  <2>2. Msg("bloom", p, q, {}).ids = {}
    BY DEF Msg
  <2> QED BY <1>1, <2>1, <2>2
<1>10. ASSUME NEW p \in Peer, NEW t \in Triple, LocalInsert(p, t) \/ LocalEvict(p, t) PROVE OnlyAllowed
  <2>1. CASE LocalInsert(p, t)
    BY <1>1, <2>1 DEF LocalInsert
  <2>2. CASE LocalEvict(p, t)
    <3> DEFINE gone == Retracted(p)'
               l == [loop[p] EXCEPT !.before = @ \cap gone]
    <3>1. Goto(p, l) /\ net' = net
      BY <2>2 DEF LocalEvict, Goto
    <3> HIDE DEF gone
    <3>2. l.out = loop[p].out
      BY DEF FInv, TypeOK, LoopState
    <3> HIDE DEF l
    <3> QED BY <3>1, <3>2, MoveAllowed
  <2> QED BY <1>10, <2>1, <2>2
<1>11. CASE UNCHANGED vars
  BY <1>1, <1>11 DEF vars
<1>12. CASE Next
  <2>1. PICK p \in Peer :
          \/ Lose(p) \/ RunGossipCycle(p) \/ SendFilter(p) \/ Receive(p) \/ Loop(p) \/ OtherEvent(p)
          \/ \E q \in Peer : PeerDiscovered(p, q) \/ PeerDisconnected(p, q) \/ Promote(p, q)
          \/ \E t \in Triple : LocalInsert(p, t) \/ LocalEvict(p, t)
    BY <1>12 DEF Next
  <2> QED BY <2>1, <1>3, <1>4, <1>5, <1>6, <1>7, <1>8, <1>9, <1>10 DEF Loop
<1> QED BY <1>11, <1>12

LEMMA Owned == Spec => []OwnMessages
<1>1. Init => OwnMessages
  BY Places DEF Init, OwnMessages
<1>2. FInv /\ OwnMessages /\ [Next]_vars => OwnMessages'
  BY StepsAllowed DEF OwnMessages, OnlyAllowed, Allowed
<1> QED BY <1>1, <1>2, Invariant, PTL DEF Spec

(***************************************************************************)
(* However a triple comes to be restricted, by its own engine or by what a *)
(* peer tells, between any two steps of an exchange: for as long as it is, *)
(* no filter, header or batch made tells of it, unless it is a retraction. *)
(***************************************************************************)
THEOREM RestrictedStayHome == Spec => RestrictionHolds
<1>1. ASSUME FInv, OwnMessages, [Next]_vars, NEW p \in Peer, NEW t \in Restricted(p) \ Exempt,
             ~Leaving(p, t)
      PROVE  ~Leaving(p, t)'
  <2> SUFFICES ASSUME NEW m \in net' \cup loop'[p].out,
                      m.from = p, m.kind # "wantTriples", t \in m.ids
               PROVE  FALSE
    BY DEF Leaving
  <2>1. OnlyAllowed
    BY <1>1, StepsAllowed
  <2>2. m \notin net /\ m \notin loop[p].out
    BY <1>1 DEF Leaving
  <2>3. CASE m \in loop'[p].out
    BY <1>1, <2>1, <2>2, <2>3 DEF OnlyAllowed, Allowed, Gossipable
  <2>4. CASE m \in net'
    <3>1. PICK q \in Peer : m \in loop[q].out
      BY <2>1, <2>2, <2>4 DEF OnlyAllowed
    <3>2. q = p
      BY <1>1, <3>1 DEF OwnMessages
    <3> QED BY <2>2, <3>1, <3>2
  <2> QED BY <2>3, <2>4
<1>2. FInv /\ OwnMessages /\ [Next]_vars =>
        [\A p \in Peer : \A t \in Restricted(p) \ Exempt : ~Leaving(p, t) => ~Leaving(p, t)']_vars
  BY <1>1
<1> QED BY <1>2, Invariant, Owned, PTL DEF Spec, RestrictionHolds
=============================================================================
