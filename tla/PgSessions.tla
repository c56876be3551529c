----------------------------- MODULE PgSessions -----------------------------
(***************************************************************************)
(* The session store on PostgreSQL (engine/src/vkb/postgres.rs): one       *)
(* statement per operation, except that reinforcing a pattern reads it,    *)
(* computes, and writes it in a second one without a transaction.          *)
(*                                                                         *)
(* Confidences are whole tenths.  Timestamps are the clients': rows with   *)
(* the same one come in any order.  Summaries, themes, content and the     *)
(* evidence of a pattern are left out.                                     *)
(***************************************************************************)
EXTENDS Naturals, Sequences, SequencesExt, FiniteSetsExt

CONSTANTS
    Caller, Session, Exchange, Pattern, Room, Time, None,
    Start           \* the confidences a pattern may be recorded with

VARIABLES
    sessions,       \* the record of each, or None
    exchanges,      \* of each, its session and its time, or None
    patterns,       \* the record of each, or None
    copy,           \* what each caller has read of a pattern to reinforce
    emerging        \* history: the patterns recorded as emerging, and reinforced

vars == <<sessions, exchanges, patterns, copy, emerging>>

Status == {"active", "completed", "abandoned"}
PatternStatus == {"emerging", "established", "fading", "archived"}
SessionRow == [status : Status, room : Room \cup {None}, at : Time, ended : BOOLEAN]
PatternRow == [confidence : 0 .. 10, status : PatternStatus]
Rows(table) == {id \in DOMAIN table : table[id] # None}

PgSessionsAssumption ==
    /\ Start \subseteq Nat /\ IsFiniteSet(Pattern)
    /\ None \notin SessionRow \cup PatternRow \cup PatternStatus

TypeOK ==
    /\ sessions \in [Session -> SessionRow \cup {None}]
    /\ exchanges \in [Exchange -> [session : Session, at : Time] \cup {None}]
    /\ \A e \in Rows(exchanges) : exchanges[e].session \in Rows(sessions)
    /\ patterns \in [Pattern -> PatternRow \cup {None}]
    /\ copy \in [Caller -> [pattern : Pattern, row : PatternRow] \cup {None}]

Init ==
    /\ sessions = [s \in Session |-> None]
    /\ exchanges = [e \in Exchange |-> None]
    /\ patterns = [p \in Pattern |-> None]
    /\ copy = [c \in Caller |-> None]
    /\ emerging = {}

-----------------------------------------------------------------------------
CreateSession(s, room, at) ==
    /\ s \notin Rows(sessions)
    /\ sessions' = [sessions EXCEPT ![s] =
           [status |-> "active", room |-> room, at |-> at, ended |-> FALSE]]
    /\ UNCHANGED <<exchanges, patterns, copy, emerging>>

(* No status is refused: a session that has ended may be made active. *)
UpdateSession(s, status, ended) ==
    /\ s \in Rows(sessions)
    /\ sessions' = [sessions EXCEPT ![s].status = status, ![s].ended = ended]
    /\ UNCHANGED <<exchanges, patterns, copy, emerging>>

EndSession(s, status) == UpdateSession(s, status, TRUE)

(* The session of an exchange or an insight must be stored. *)
AddExchange(e, s, at) ==
    /\ e \notin Rows(exchanges) /\ s \in Rows(sessions)
    /\ exchanges' = [exchanges EXCEPT ![e] = [session |-> s, at |-> at]]
    /\ UNCHANGED <<sessions, patterns, copy, emerging>>

(* A confidence that is not between 0 and 1 is refused. *)
RecordPattern(p, confidence, status) ==
    /\ p \notin Rows(patterns)
    /\ confidence <= 10
    /\ patterns' = [patterns EXCEPT ![p] = [confidence |-> confidence, status |-> status]]
    /\ UNCHANGED <<sessions, exchanges, copy, emerging>>

-----------------------------------------------------------------------------
(* Reinforcing a pattern: a copy is read, and written back raised. *)

FetchPattern(c, p) ==
    /\ copy[c] = None /\ p \in Rows(patterns)
    /\ copy' = [copy EXCEPT ![c] = [pattern |-> p, row |-> patterns[p]]]
    /\ UNCHANGED <<sessions, exchanges, patterns, emerging>>

Raised(row) ==
    LET confidence == Min({row.confidence + 1, 10}) IN
    [confidence |-> confidence,
     status |-> IF confidence >= 7 /\ row.status = "emerging" THEN "established"
                ELSE row.status]

WritePattern(c) ==
    LET p == copy[c].pattern IN
    /\ copy[c] # None
    /\ patterns' = [patterns EXCEPT ![p] = Raised(copy[c].row)]
    /\ copy' = [copy EXCEPT ![c] = None]
    /\ emerging' = IF copy[c].row.status = "emerging" THEN emerging \cup {p} ELSE emerging
    /\ UNCHANGED <<sessions, exchanges>>

-----------------------------------------------------------------------------
(* Reads: what an answer may be. *)

(* Rows in descending order of a column; equals come in any order. *)
Descending(ids, column) ==
    {s \in SetToSeqs(ids) : \A i, j \in DOMAIN s : i < j => column[s[i]] >= column[s[j]]}

Page(s, limit, offset) == SubSeq(s, offset + 1, Min({offset + limit, Len(s)}))

ListSessions(status, limit) ==
    {Page(s, limit, 0) : s \in Descending(
        {x \in Rows(sessions) : status \in {None, sessions[x].status}},
        [x \in Rows(sessions) |-> sessions[x].at])}

FindSessionByRoom(room) ==
    LET found == {s \in Rows(sessions) : sessions[s].room = room
                                         /\ sessions[s].status = "active"} IN
    {s \in found : \A x \in found : sessions[x].at <= sessions[s].at}

ListExchanges(s, limit, offset) ==
    {Page(Reverse(es), limit, offset) : es \in Descending(
        {e \in Rows(exchanges) : exchanges[e].session = s},
        [e \in Rows(exchanges) |-> exchanges[e].at])}

ListPatterns(status, limit) ==
    {Page(ps, limit, 0) : ps \in Descending(
        {p \in Rows(patterns) : status \in {None, patterns[p].status}},
        [p \in Rows(patterns) |-> patterns[p].confidence])}

-----------------------------------------------------------------------------
Next ==
    \/ \E s \in Session :
           \/ \E room \in Room \cup {None}, at \in Time : CreateSession(s, room, at)
           \/ \E st \in Status : EndSession(s, st) \/ \E b \in BOOLEAN : UpdateSession(s, st, b)
           \/ \E e \in Exchange, at \in Time : AddExchange(e, s, at)
    \/ \E p \in Pattern :
           \/ \E conf \in Start, st \in PatternStatus : RecordPattern(p, conf, st)
           \/ \E c \in Caller : FetchPattern(c, p)
    \/ \E c \in Caller : WritePattern(c)

Spec == Init /\ [][Next]_vars

-----------------------------------------------------------------------------
(***************************************************************************)
(* Reinforcements overwrite each other and the confidence of a pattern may *)
(* fall, but its status fits the confidence it was written with: of the    *)
(* patterns that were emerging when they were reinforced, the list of the  *)
(* established ones has those of seven tenths or more and no other.        *)
(***************************************************************************)
StatusFitsConfidence ==
    \A l \in ListPatterns("established", Cardinality(Pattern)) :
        ToSet(l) \cap emerging = {p \in emerging : patterns[p].confidence >= 7}
=============================================================================
