----------------------------- MODULE Federation -----------------------------
(***************************************************************************)
(* Engines that exchange triples (engine/src/federation): each has a loop  *)
(* that handles one transport event at a time, and gossip cycles started   *)
(* beside it.  Both need the lock of the transport, and the loop holds it  *)
(* for as long as it waits for an event.                                   *)
(*                                                                         *)
(* A triple stands for itself with its nodes and its signature; weights    *)
(* are left out.  What retracts a triple or restricts its sharing is a     *)
(* triple itself, which is inserted, gossiped and evicted like any other.  *)
(* A peer's DID is "pending:<id>" and nothing replaces it, so that         *)
(* SHAREABLE_WITH excludes everyone, just as LOCAL_ONLY does.  The network *)
(* keeps messages in no order and may lose any of them.                    *)
(***************************************************************************)
EXTENDS Integers, FiniteSets

CONSTANTS
    Peer,       \* the engines
    Triple,     \* content ids, the same at every engine
    NoPeer,     \* "no record of that peer"
    Exempt,     \* the RETRACTED_BY and RETRACTED_AT triples
    Retracts,   \* Retracts[m]: the triples that m, a RETRACTED_BY, is about
    Restricts,  \* Restricts[m]: the triples whose subject m, a LOCAL_ONLY or a
                \* SHAREABLE_WITH, has for its own subject
    MaxNet,     \* bound: no cycle starts with more messages than that under way
    LocalOps,   \* per engine: what else happens to its loop and messages
    Inserted,   \* per engine: the triples that are inserted there
    Evicted     \* per engine: those that may be evicted or deleted there

ASSUME FederationAssumption ==
    /\ Exempt \subseteq Triple
    /\ Retracts \in [Triple -> SUBSET Triple]
    /\ Restricts \in [Triple -> SUBSET Triple]
    /\ MaxNet \in Nat
    /\ LocalOps \in [Peer -> SUBSET {"meet", "part", "trust", "lose"}]
    /\ Inserted \in [Peer -> SUBSET Triple]
    /\ Evicted \in [Peer -> SUBSET Triple]

VARIABLES
    stored,     \* per engine: the triples in its store
    known,      \* per engine: the triples whose two nodes are in its store
    peers,      \* per engine: its InMemoryPeerStore
    cycle,      \* per engine: the peers its gossip cycle has still to write to
    transport,  \* per engine: who holds the lock of the transport
    loop,       \* per engine: where its event loop is
    net         \* messages under way

local == <<stored, known>>
vars == <<local, peers, cycle, transport, loop, net>>

Requests == {"bloom", "wantHeaders", "wantTriples"}
Answers == {"bloomAnswer", "headers", "triples"}
Message == [kind : Requests \cup Answers, from : Peer, to : Peer, ids : SUBSET Triple]
Msg(kind, p, q, ids) == [kind |-> kind, from |-> p, to |-> q, ids |-> ids]

PeerRecord == [connected : BOOLEAN, trusted : BOOLEAN] \cup {NoPeer}

(* `todo` and `taken` are the triples of a response that are still to be   *)
(* looked at and those to be inserted, `copy` the stored one about to be   *)
(* written back, `before` (history) those retracted ever since the         *)
(* response was taken up, `out` the message about to be sent.              *)
LoopState == [at : {"top", "waiting", "send", "merge", "dead"}, out : SUBSET Message,
              todo : SUBSET Triple, taken : SUBSET Triple, copy : SUBSET Triple, before : SUBSET Triple]
Top == [at |-> "top", out |-> {}, todo |-> {}, taken |-> {}, copy |-> {}, before |-> {}]
Waiting == [Top EXCEPT !.at = "waiting"]
Dead == [Top EXCEPT !.at = "dead"]
Sending(m) == [Top EXCEPT !.at = "send", !.out = {m}]
Merging(ids, gone) == [Top EXCEPT !.at = "merge", !.todo = ids, !.before = gone]

TypeOK ==
    /\ stored \in [Peer -> SUBSET Triple] /\ known \in [Peer -> SUBSET Triple]
    /\ peers \in [Peer -> [Peer -> PeerRecord]]
    /\ cycle \in [Peer -> SUBSET Peer]
    /\ loop \in [Peer -> LoopState]
    /\ \A p \in Peer : loop[p].at \in {"send", "merge"} \/ loop[p] \in {Top, Waiting, Dead}
    /\ transport \in [Peer -> {"free", "loop"}]
    /\ net \in SUBSET Message

Nothing == [p \in Peer |-> {}]

Init ==
    /\ stored = Nothing /\ known = Nothing
    /\ peers = [p \in Peer |-> [q \in Peer |-> NoPeer]]
    /\ cycle = Nothing
    /\ transport = [p \in Peer |-> "free"]
    /\ loop = [p \in Peer |-> Top]
    /\ net = {}

(* is_retracted and should_gossip ask the store each time.                 *)
Retracted(p) == UNION {Retracts[m] : m \in stored[p]}
Restricted(p) == UNION {Restricts[m] : m \in stored[p]}
Gossipable(p) == stored[p] \ (Restricted(p) \ Exempt)

-----------------------------------------------------------------------------
(* The gossip cycle.                                                       *)
PeersToSync(p) ==
    {q \in Peer : peers[p][q] # NoPeer /\ peers[p][q].connected /\ peers[p][q].trusted}

RunGossipCycle(p) ==
    /\ cycle[p] = {} /\ PeersToSync(p) # {}
    /\ Cardinality(net) <= MaxNet
    /\ cycle' = [cycle EXCEPT ![p] = PeersToSync(p)]
    /\ UNCHANGED <<local, peers, transport, loop, net>>

SendFilter(p) ==
    /\ transport[p] = "free"
    /\ \E q \in cycle[p] :
        /\ cycle' = [cycle EXCEPT ![p] = @ \ {q}]
        /\ net' = net \cup {Msg("bloom", p, q, {})}
    /\ UNCHANGED <<local, peers, transport, loop>>

-----------------------------------------------------------------------------
(* The event loop.                                                         *)
Goto(p, next) == loop' = [loop EXCEPT ![p] = next]

NextEvent(p) ==
    /\ loop[p].at = "top" /\ transport[p] = "free"
    /\ transport' = [transport EXCEPT ![p] = "loop"]
    /\ Goto(p, Waiting)
    /\ UNCHANGED <<local, peers, cycle, net>>

(* An event has come, and the block around next_event ends. *)
Event(p) ==
    /\ loop[p].at = "waiting"
    /\ transport' = [transport EXCEPT ![p] = "free"]

(* What the peers are asked for is what WE have and, going by the filter,  *)
(* they lack.  The filter is rebuilt with another size and other hash keys *)
(* than it was made with: which triples it seems to lack is arbitrary.  If *)
(* it was made from none, its size is zero, and the first check against it *)
(* panics with a remainder by zero.                                        *)
Missing_Theirs(p, m) == SUBSET (m.ids \ stored[p])  \* mutant: what they have and we lack
Missing(p, m) == SUBSET Gossipable(p)

HeadersFor_Unfiltered(p, ids) == ids \cap stored[p] \* mutant: should_gossip left out
HeadersFor(p, ids) == ids \cap Gossipable(p)

WantedHeaders(p, ids) == ids \ (stored[p] \cup Retracted(p))

Handle(p, m) ==
    LET Respond(kind, ids) == Goto(p, Sending(Msg(kind, p, m.from, ids)))
        Ask(kind, ids) == IF ids = {} THEN Goto(p, Top) ELSE Respond(kind, ids)
    IN
    \/ m.kind = "bloom" /\ Respond("bloomAnswer", Gossipable(p))
    \/ m.kind = "wantHeaders" /\ Respond("headers", HeadersFor(p, m.ids))
    \/ m.kind = "wantTriples" /\ Respond("triples", m.ids \cap Gossipable(p))
    \/ m.kind = "headers" /\ Ask("wantTriples", WantedHeaders(p, m.ids))
    \/ m.kind = "triples" /\ Goto(p, Merging(m.ids, Retracted(p)))
    \/ /\ m.kind = "bloomAnswer"
       /\ \/ m.ids # {} /\ \E ids \in Missing(p, m) : Ask("wantHeaders", ids)
          \/ m.ids = {} /\ Goto(p, IF Gossipable(p) = {} THEN Top ELSE Dead)

Receive_KeepsLock(p) == \* mutant: the lock is held until the message is handled
    /\ loop[p].at = "waiting"
    /\ \E m \in net : m.to = p /\ Handle(p, m) /\ net' = net \ {m}
    /\ UNCHANGED <<local, peers, cycle, transport>>

Receive(p) ==
    /\ Event(p)
    /\ \E m \in net : m.to = p /\ Handle(p, m) /\ net' = net \ {m}
    /\ UNCHANGED <<local, peers, cycle>>

Send(p) ==
    /\ loop[p].at = "send" /\ transport[p] = "free"
    /\ net' = net \cup loop[p].out
    /\ Goto(p, Top)
    /\ UNCHANGED <<local, peers, cycle, transport>>

(* process_received_triples: one triple after the other is dropped, read   *)
(* to be corroborated, or taken into the batch that is inserted at the end.*)
Screened_HeadersOnly(p, t) == FALSE     \* mutant: retraction checked for headers alone
Screened(p, t) == t \in Retracted(p)

Screen(p) ==
    /\ loop[p].at = "merge" /\ loop[p].copy = {}
    /\ \E t \in loop[p].todo :
        LET rest == [loop[p] EXCEPT !.todo = @ \ {t}] IN
        Goto(p, IF Screened(p, t) THEN rest
                ELSE IF t \in stored[p] THEN [rest EXCEPT !.copy = {t}]
                ELSE [rest EXCEPT !.taken = @ \cup {t}])
    /\ UNCHANGED <<local, peers, cycle, transport, net>>

Store(p, ts) ==
    /\ stored' = [stored EXCEPT ![p] = @ \cup ts]
    /\ UNCHANGED <<known, peers, cycle, transport, net>>

(* The copy goes back into the store even if the triple has left it. *)
Corroborate(p) ==
    /\ loop[p].copy # {}
    /\ Store(p, loop[p].copy)
    /\ Goto(p, [loop[p] EXCEPT !.copy = {}])

(* insert_triple alone: no node is created. *)
InsertReceived(p) ==
    /\ loop[p].at = "merge" /\ loop[p].copy = {} /\ loop[p].todo = {}
    /\ \E t \in loop[p].taken :
        /\ Store(p, {t})
        /\ Goto(p, [loop[p] EXCEPT !.taken = @ \ {t}])

EndMerge_NoReset(p) ==  \* mutant: the last response is remembered
    /\ loop[p].at = "merge" /\ loop[p].copy \cup loop[p].todo \cup loop[p].taken = {}
    /\ Goto(p, [loop[p] EXCEPT !.at = "top"])
    /\ UNCHANGED <<local, peers, cycle, transport, net>>

EndMerge(p) ==
    /\ loop[p].at = "merge" /\ loop[p].copy \cup loop[p].todo \cup loop[p].taken = {}
    /\ Goto(p, Top)
    /\ UNCHANGED <<local, peers, cycle, transport, net>>

(* mDNS has found q: whatever was recorded of it is replaced. *)
PeerDiscovered(p, q) ==
    /\ "meet" \in LocalOps[p]
    /\ p # q /\ Event(p) /\ Goto(p, Top)
    /\ peers' = [peers EXCEPT ![p][q] = [connected |-> TRUE, trusted |-> FALSE]]
    /\ UNCHANGED <<local, cycle, net>>

PeerDisconnected(p, q) ==
    /\ "part" \in LocalOps[p]
    /\ Event(p) /\ Goto(p, Top)
    /\ peers[p][q] # NoPeer
    /\ peers' = [peers EXCEPT ![p][q].connected = FALSE]
    /\ UNCHANGED <<local, cycle, net>>

(* An announcement or a failure to send surfaces; neither has an effect. *)
OtherEvent(p) ==
    /\ Event(p) /\ Goto(p, Top)
    /\ UNCHANGED <<local, peers, cycle, net>>

-----------------------------------------------------------------------------
(* What goes on around the loop.                                           *)

(* update_trust_phase, for which the engine has no caller of its own. *)
Promote(p, q) ==
    /\ "trust" \in LocalOps[p]
    /\ peers[p][q] # NoPeer
    /\ peers' = [peers EXCEPT ![p][q].trusted = TRUE]
    /\ UNCHANGED <<local, cycle, transport, loop, net>>

Lose(p) ==
    /\ "lose" \in LocalOps[p]
    /\ \E m \in net : m.to = p /\ net' = net \ {m}
    /\ UNCHANGED <<local, peers, cycle, transport, loop>>

(* Requests to the engine itself and its lifecycle, on the same store, the *)
(* markers included: a received one weighs nothing and goes first.         *)
LocalInsert(p, t) ==
    /\ t \in Inserted[p]
    /\ stored' = [stored EXCEPT ![p] = @ \cup {t}]
    /\ known' = [known EXCEPT ![p] = @ \cup {t}]
    /\ UNCHANGED <<peers, cycle, transport, loop, net>>

LocalEvict(p, t) ==
    /\ t \in Evicted[p]
    /\ stored' = [stored EXCEPT ![p] = @ \ {t}]
    /\ loop' = [loop EXCEPT ![p].before = @ \cap Retracted(p)']
    /\ UNCHANGED <<known, peers, cycle, transport, net>>

-----------------------------------------------------------------------------
Loop(p) == NextEvent(p) \/ Send(p) \/ Screen(p) \/ Corroborate(p) \/ InsertReceived(p) \/ EndMerge(p)

Next ==
    \E p \in Peer :
        \/ Lose(p) \/ RunGossipCycle(p) \/ SendFilter(p) \/ Receive(p) \/ Loop(p) \/ OtherEvent(p)
        \/ \E q \in Peer : PeerDiscovered(p, q) \/ PeerDisconnected(p, q) \/ Promote(p, q)
        \/ \E t \in Triple : LocalInsert(p, t) \/ LocalEvict(p, t)

Spec == Init /\ [][Next]_vars

(* tokio polls every task that can go on and hands the lock over in the    *)
(* order it was asked for; the swarm delivers a message that stays there.  *)
FairSpec ==
    /\ Spec
    /\ \A p \in Peer : WF_vars(Loop(p)) /\ SF_vars(SendFilter(p)) /\ SF_vars(Receive(p))

(* Moreover cycles are started again and again, and other events keep      *)
(* waking the loops up.                                                    *)
BusySpec ==
    /\ FairSpec
    /\ \A p \in Peer : SF_vars(RunGossipCycle(p)) /\ SF_vars(OtherEvent(p))

-----------------------------------------------------------------------------
(***************************************************************************)
(* The two nodes of a stored triple exist, at every engine, although the   *)
(* merge inserts triples without their nodes (get_neighbors would panic).  *)
(***************************************************************************)
NodesKnown == \A p \in Peer : stored[p] \subseteq known[p]

(***************************************************************************)
(* A triple that was retracted before a response came in is not stored by  *)
(* merging that response, even if it was asked for before the retraction,  *)
(* unless what retracts it is evicted while the response is merged.        *)
(***************************************************************************)
RetractionWins == \A p \in Peer : (loop[p].taken \cup loop[p].copy) \cap loop[p].before = {}

(***************************************************************************)
(* While a triple is restricted, and once what was under way has gone,     *)
(* nothing that its owner sends (filter, hashes, headers, triples) tells   *)
(* of it.  Retractions are always told.                                    *)
(***************************************************************************)
Leaving(p, t) ==
    \E m \in net \cup loop[p].out : m.from = p /\ m.kind # "wantTriples" /\ t \in m.ids

RestrictionHolds ==
    [][\A p \in Peer : \A t \in Restricted(p) \ Exempt :
         ~Leaving(p, t) => ~Leaving(p, t)']_vars

(***************************************************************************)
(* A message that is not lost is taken up, unless the loop of the engine   *)
(* it is sent to has died: no engine waits for its own transport.          *)
(***************************************************************************)
MessagesHandled ==
    \A p \in Peer : (\E m \in net : m.to = p) ~> ((\A m \in net : m.to # p) \/ loop[p] = Dead)

(***************************************************************************)
(* Two engines that stay connected, trust each other and run cycles end up *)
(* with each other's triples.                                              *)
(***************************************************************************)
SyncConverges ==
    \A p \in Peer : \A q \in Peer \ {p}, t \in Triple :
        <>[](/\ p \in PeersToSync(q) /\ q \in PeersToSync(p)
            /\ t \in Gossipable(p) /\ loop[p] # Dead /\ loop[q] # Dead)
        => <>(t \in stored[q])
=============================================================================
