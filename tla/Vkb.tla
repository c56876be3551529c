--------------------------------- MODULE Vkb ---------------------------------
(***************************************************************************)
(* Sessions with their exchanges and insights, and patterns: the in-memory *)
(* SessionStore (engine/src/vkb) and the HTTP and MCP handlers on it.      *)
(* Every call of the store holds its one lock from start to end, so a call *)
(* is a step; a handler that makes two calls (pattern_reinforce) is two    *)
(* steps, and a client that reads the exchanges page by page is as many.   *)
(* The outer lock of the engine is only ever taken for reading.            *)
(*                                                                         *)
(* Confidences are whole tenths, and what is only carried along (content,  *)
(* summaries, the sessions given as evidence of a pattern) is left out.  A *)
(* request may name any id: one that is not in the store is refused.       *)
(***************************************************************************)
EXTENDS Naturals, Sequences, SequencesExt, FiniteSetsExt

CONSTANTS
    Reader, Caller, Session, Exchange, Pattern, Room, None,
    Start,          \* the confidences requests may record a pattern with
    PageSize,       \* the limits requests may ask for
    FoundAmong,     \* how many patterns pattern_reinforce searches (1000)
    MaxInsights,    \* bound: insights per session
    MaxReinforced   \* bound: reinforcements per pattern

VARIABLES
    created,        \* the sessions, oldest first
    sessions,       \* the record of each, or None
    exchanges,      \* of each session, in the order they were added
    insights,       \* of each session, how many
    patterns,       \* the record of each, or None
    reader,         \* the session each reader reads, and what it has of it
    reinforcing,    \* the pattern a caller has reinforced and not yet listed
    answer,         \* the ids in the last answer to a read, None for an error
    first,          \* history: each pattern as recorded, or as last decayed
    reinforced,     \* history: how often it was reinforced since
    report          \* history: the last reinforcement reported to a caller

talk == <<created, sessions, exchanges, insights, reader>>
habits == <<patterns, reinforcing, first, reinforced, report>>
vars == <<talk, habits, answer>>

Status == {"active", "completed", "abandoned"}
PatternStatus == {"emerging", "established", "fading", "archived"}
SessionRecord == [status : Status, room : Room \cup {None}, ended : BOOLEAN]
PatternRecord == [confidence : Nat, status : PatternStatus]
Place == [s : Session, got : Seq(Exchange)]
Turn == [p : Pattern, least : Nat, limit : {1, FoundAmong}, asked : {"mcp", "library"}]
Said == [asked : {"mcp", "library"}, said : Nat \cup {None}, least : Nat]

(* Finitely many ids, and None is nothing else. *)
ASSUME VkbAssumption ==
    /\ IsFiniteSet(Session) /\ IsFiniteSet(Pattern)
    /\ FoundAmong \in Nat /\ MaxInsights \in Nat /\ MaxReinforced \in Nat
    /\ Start \subseteq Nat /\ PageSize \subseteq Nat
    /\ None \notin SessionRecord \cup PatternRecord \cup Place \cup Turn \cup Said
    /\ None \notin Nat

NewSession(room) == [status |-> "active", room |-> room, ended |-> FALSE]
NewPattern(conf) == [confidence |-> conf, status |-> "emerging"]

Stored(table) == {id \in DOMAIN table : table[id] # None}

TypeOK ==
    /\ sessions \in [Session -> SessionRecord \cup {None}]
    /\ created \in Seq(Session)
    /\ ToSet(created) = Stored(sessions) /\ IsInjective(created)
    /\ exchanges \in [Session -> Seq(Exchange)]
    /\ insights \in [Session -> 0 .. MaxInsights]
    /\ \A s \in Session : sessions[s] = None => exchanges[s] = <<>> /\ insights[s] = 0
    /\ patterns \in [Pattern -> PatternRecord \cup {None}]
    /\ reader \in [Reader -> Place \cup {None}]
    /\ reinforcing \in [Caller -> Turn \cup {None}]
    /\ answer \in Seq(Session \cup Exchange \cup Pattern) \cup {None}
    /\ report \in Said \cup {None}

Init ==
    /\ created = <<>>
    /\ sessions = [s \in Session |-> None]
    /\ exchanges = [s \in Session |-> <<>>]
    /\ insights = [s \in Session |-> 0]
    /\ patterns = [p \in Pattern |-> None]
    /\ reader = [c \in Reader |-> None]
    /\ reinforcing = [c \in Caller |-> None]
    /\ answer = None
    /\ first = [p \in Pattern |-> None] /\ reinforced = [p \in Pattern |-> 0]
    /\ report = None

-----------------------------------------------------------------------------
(* The SessionStore: what its calls return and do.                         *)

(* Those with the status, the newest first, cut at the limit. *)
Newer(s, t) == \E i, j \in DOMAIN created : created[i] = s /\ created[j] = t /\ j < i
ListSessions(status, limit) ==
    {SubSeq(l, 1, Min({limit, Len(l)})) : l \in
        {l \in SetToSeqs({s \in Stored(sessions) : status = None \/ sessions[s].status = status}) :
            \A i, j \in DOMAIN l : i < j => Newer(l[i], l[j])}}

RoomSessions(room) ==
    {s \in Stored(sessions) : sessions[s].room = room /\ sessions[s].status = "active"}

StoreSession(s, room) ==
    /\ sessions' = [sessions EXCEPT ![s] = NewSession(room)]
    /\ created' = Append(created, s)
    /\ exchanges' = [exchanges EXCEPT ![s] = <<>>]
    /\ insights' = [insights EXCEPT ![s] = 0]

StoreEnd(s, status) ==
    sessions' = [sessions EXCEPT ![s].status = status, ![s].ended = TRUE]

StoreExchange_Front(s, e) == exchanges' = [exchanges EXCEPT ![s] = <<e>> \o @]
StoreExchange(s, e) == exchanges' = [exchanges EXCEPT ![s] = Append(@, e)]

Page(s, limit, offset) ==
    SubSeq(exchanges[s], offset + 1, Min({offset + limit, Len(exchanges[s])}))

StoreInsight(s) == insights' = [insights EXCEPT ![s] = @ + 1]

StorePattern(p, pattern) == patterns' = [patterns EXCEPT ![p] = pattern]

Stronger_Late(pattern) ==
    [confidence |-> Min({pattern.confidence + 1, 10}),
     status |-> IF pattern.confidence >= 7 /\ pattern.status = "emerging"
                THEN "established" ELSE pattern.status]
(* A tenth more, but never more than 1.                                    *)
Stronger(pattern) ==
    LET conf == Min({pattern.confidence + 1, 10})
    IN  [confidence |-> conf,
         status |-> IF conf >= 7 /\ pattern.status = "emerging"
                    THEN "established" ELSE pattern.status]

(* The orders a list of the patterns in `wanted` may come in: the most     *)
(* confident first, and equals as the hash map has them, cut at the limit. *)
ListPatterns(wanted, limit) ==
    {SubSeq(l, 1, Min({limit, Len(l)})) : l \in
        {l \in SetToSeqs(wanted) : \A i, j \in DOMAIN l :
            i < j => patterns[l[i]].confidence >= patterns[l[j]].confidence}}

WithStatus(status) ==
    {p \in Stored(patterns) : status = None \/ patterns[p].status = status}

(* Any of the patterns may have the text searched in its description.      *)
SearchPatterns(limit) ==
    UNION {ListPatterns(wanted, limit) : wanted \in SUBSET Stored(patterns)}

-----------------------------------------------------------------------------
(* Sessions, over HTTP                                                     *)

HttpStartSession(s, room) ==
    /\ sessions[s] = None
    /\ StoreSession(s, room)
    /\ answer' = <<s>>
    /\ UNCHANGED <<reader, habits>>

HttpListSessions(status, limit) ==
    /\ answer' \in ListSessions(status, limit)
    /\ UNCHANGED <<talk, habits>>

HttpGetSession(s) ==
    /\ answer' = IF sessions[s] = None THEN None ELSE <<s>>
    /\ UNCHANGED <<talk, habits>>

(* Completed unless the request has a status, which may be Active.         *)
HttpEndSession(s, status) ==
    IF sessions[s] = None
    THEN answer' = None /\ UNCHANGED <<talk, habits>>
    ELSE /\ StoreEnd(s, IF status = None THEN "completed" ELSE status)
         /\ answer' = <<s>>
         /\ UNCHANGED <<created, exchanges, insights, reader, habits>>

HttpFindByRoom(room) ==
    /\ IF RoomSessions(room) = {} THEN answer' = None
       ELSE \E s \in RoomSessions(room) : answer' = <<s>>
    /\ UNCHANGED <<talk, habits>>

(* The role is matched whatever its case; the session may have ended.      *)
HttpAddExchange(s, e, role) ==
    IF role = "unknown" \/ sessions[s] = None
    THEN answer' = None /\ UNCHANGED <<talk, habits>>
    ELSE /\ StoreExchange(s, e)
         /\ answer' = <<e>>
         /\ UNCHANGED <<created, sessions, insights, reader, habits>>

(* A reader reads on from where it is, or begins a session.                *)
HttpListExchanges(c, s, limit) ==
    LET read == IF reader[c] # None /\ reader[c].s = s THEN reader[c].got ELSE <<>>
        page == Page(s, limit, Len(read))
    IN  /\ reader' = [reader EXCEPT ![c] = [s |-> s, got |-> read \o page]]
        /\ answer' = page
        /\ UNCHANGED <<created, sessions, exchanges, insights, habits>>

HttpExtractInsight(s) ==
    IF sessions[s] = None
    THEN answer' = None /\ UNCHANGED <<talk, habits>>
    ELSE /\ StoreInsight(s)
         /\ answer' = <<s>>
         /\ UNCHANGED <<created, sessions, exchanges, reader, habits>>

HttpListInsights(s) ==
    /\ answer' = [i \in 1 .. insights[s] |-> s]
    /\ UNCHANGED <<talk, habits>>

-----------------------------------------------------------------------------
(* Sessions, over MCP                                                      *)

(* session_start and session_end keep nothing: what they answer with is a  *)
(* session the store has never heard of, or one that goes on.              *)
McpStartSession(s) == answer' = <<s>> /\ UNCHANGED <<talk, habits>>
McpEndSession(s) == answer' = <<s>> /\ UNCHANGED <<talk, habits>>

McpGetSession(s) == HttpGetSession(s)

(* A status that is not known lists all. *)
McpListSessions(status, limit) ==
    HttpListSessions(IF status \in Status THEN status ELSE None, limit)

McpFindByRoom(room) == HttpFindByRoom(room)

McpAddExchange(s, e, role) ==
    HttpAddExchange(s, e, IF role = "exact" THEN role ELSE "unknown")

(* There is no offset to ask for: always the first page. *)
McpListExchanges(c, s, limit) ==
    /\ answer' = Page(s, limit, 0)
    /\ reader' = [reader EXCEPT ![c] = [s |-> s, got |-> answer']]
    /\ UNCHANGED <<created, sessions, exchanges, insights, habits>>

McpExtractInsight(s) == HttpExtractInsight(s)
McpListInsights(s) == HttpListInsights(s)

-----------------------------------------------------------------------------
(* Patterns, over HTTP, over MCP and in the library                        *)

Record(p, pattern) ==
    /\ patterns[p] = None
    /\ StorePattern(p, pattern)
    /\ first' = [first EXCEPT ![p] = pattern]
    /\ answer' = <<p>>
    /\ UNCHANGED <<talk, reinforcing, reinforced, report>>

(* A request may give any confidence. *)
HttpRecordPattern(p, conf) == Record(p, NewPattern(conf))
McpRecordPattern(p, conf) == Record(p, NewPattern(conf))
CreatePattern(p) == Record(p, NewPattern(4))

Reinforce(c, p, asked, limit) ==
    /\ reinforcing[c] = None
    /\ patterns[p] # None
    /\ StorePattern(p, Stronger(patterns[p]))
    /\ reinforced' = [reinforced EXCEPT ![p] = @ + 1]
    /\ reinforcing' = [reinforcing EXCEPT ![c] =
            IF asked = "http" THEN None
            ELSE [p |-> p, least |-> patterns'[p].confidence, limit |-> limit, asked |-> asked]]
    /\ UNCHANGED <<talk, first, report, answer>>

HttpReinforcePattern(c, p) == Reinforce(c, p, "http", 1)
McpReinforcePattern(c, p) == Reinforce(c, p, "mcp", FoundAmong)
ReinforcePattern(c, p) == Reinforce(c, p, "library", 1)

Reported(c, said) ==
    /\ report' = [asked |-> reinforcing[c].asked, said |-> said, least |-> reinforcing[c].least]
    /\ reinforcing' = [reinforcing EXCEPT ![c] = None]
    /\ UNCHANGED <<talk, patterns, first, reinforced>>

(* The second half: the pattern is looked for in a list of all.            *)
McpReinforced(c) ==
    /\ reinforcing[c] # None /\ reinforcing[c].asked = "mcp"
    /\ \E l \in ListPatterns(Stored(patterns), FoundAmong) :
          LET p == reinforcing[c].p
          IN  /\ Reported(c, IF p \in ToSet(l) THEN patterns[p].confidence ELSE None)
              /\ answer' = IF p \in ToSet(l) THEN <<p>> ELSE None

(* In a list of one; when another pattern is first, 1 is returned.         *)
ReinforcedPattern(c) ==
    /\ reinforcing[c] # None /\ reinforcing[c].asked = "library"
    /\ \E l \in ListPatterns(Stored(patterns), 1) :
          LET p == reinforcing[c].p
          IN  /\ Reported(c, IF p \in ToSet(l) THEN patterns[p].confidence ELSE 10)
              /\ answer' = l

HttpListPatterns(status, limit) ==
    /\ \E l \in ListPatterns(WithStatus(status), limit) : answer' = l
    /\ UNCHANGED <<talk, habits>>
McpListPatterns(status, limit) == HttpListPatterns(status, limit)

HttpSearchPatterns(limit) ==
    /\ answer' \in SearchPatterns(limit)
    /\ UNCHANGED <<talk, habits>>
McpSearchPatterns(limit) == HttpSearchPatterns(limit)

(* decay_patterns works on copies, and has no call to store them with.     *)
(* What a pattern has gained is reckoned from here (history).              *)
DecayPatterns ==
    /\ \E l \in ListPatterns(Stored(patterns) \ WithStatus("archived"), Cardinality(Pattern)) :
          answer' = l
    /\ first' = patterns
    /\ reinforced' = [p \in Pattern |-> 0]
    /\ reinforcing' = [c \in Caller |->
            IF reinforcing[c] = None THEN None ELSE [reinforcing[c] EXCEPT !.least = 0]]
    /\ UNCHANGED <<talk, patterns, report>>

-----------------------------------------------------------------------------
Unused == Exchange \ UNION {ToSet(exchanges[s]) : s \in Session}
AskedStatus == Status \cup {"other", None}

SessionNext ==
    \/ \E s \in Session, room \in Room \cup {None} : HttpStartSession(s, room)
    \/ \E s \in Session :
          \/ HttpGetSession(s) \/ McpGetSession(s)
          \/ \E status \in Status \cup {None} : HttpEndSession(s, status)
          \/ McpStartSession(s) \/ McpEndSession(s)
          \/ HttpListInsights(s) \/ McpListInsights(s)
          \/ insights[s] < MaxInsights /\ HttpExtractInsight(s)
          \/ insights[s] < MaxInsights /\ McpExtractInsight(s)
          \/ \E e \in Unused, role \in {"exact", "cased", "unknown"} :
                HttpAddExchange(s, e, role) \/ McpAddExchange(s, e, role)
    \/ \E limit \in PageSize :
          \/ \E status \in Status \cup {None} : HttpListSessions(status, limit)
          \/ \E status \in AskedStatus : McpListSessions(status, limit)
          \/ \E c \in Reader, s \in Session :
                HttpListExchanges(c, s, limit) \/ McpListExchanges(c, s, limit)
    \/ \E room \in Room : HttpFindByRoom(room) \/ McpFindByRoom(room)

PatternNext ==
    \/ \E p \in Pattern :
          \/ CreatePattern(p)
          \/ \E conf \in Start : HttpRecordPattern(p, conf) \/ McpRecordPattern(p, conf)
          \/ \E c \in Caller : reinforced[p] < MaxReinforced /\
                (HttpReinforcePattern(c, p) \/ McpReinforcePattern(c, p) \/ ReinforcePattern(c, p))
    \/ \E c \in Caller : McpReinforced(c) \/ ReinforcedPattern(c)
    \/ \E status \in PatternStatus \cup {None}, limit \in PageSize :
          HttpListPatterns(status, limit) \/ McpListPatterns(status, limit)
    \/ \E limit \in PageSize : HttpSearchPatterns(limit) \/ McpSearchPatterns(limit)
    \/ DecayPatterns

Next == SessionNext \/ PatternNext
Spec == Init /\ [][Next]_vars

-----------------------------------------------------------------------------
(* PagesWhole: what a reader has of a session page by page, while     *)
(* others add to it, is where the session began and has no gap and no      *)
(* exchange twice, however the session was ended and found again since.    *)
(* memory.rs: list_exchanges, add_exchange, create_session                 *)
PagesWhole == \A c \in Reader : reader[c] # None => IsPrefix(reader[c].got, exchanges[reader[c].s])

(* TalkSound: every variable keeps its type (no exchange is without its    *)
(* session), and a reader gets every exchange once, in order.              *)
(* memory.rs: list_exchanges, add_exchange, create_session                 *)
TalkSound == TypeOK /\ PagesWhole

(* ReinforcementsCount: no reinforcement is lost between callers: a        *)
(* pattern is a tenth stronger for each one since it was recorded or last  *)
(* decayed, and is established exactly if it was or reinforcement has      *)
(* taken it to 0.7 since.  pattern_reinforce tells its caller of no less   *)
(* than he made of the pattern, unless it was decayed meanwhile, and that  *)
(* it is not there only when there are more than are searched.             *)
(* memory.rs: reinforce_pattern; tools.rs: pattern_reinforce_impl          *)
ReinforcementsCount ==
    /\ \A p \in Stored(patterns) :
          LET n == reinforced[p]
              was == first[p]
              gained == was.confidence + n
          IN  /\ patterns[p].confidence = IF n = 0 THEN was.confidence ELSE Min({gained, 10})
              /\ (patterns[p].status = "established")
                    = (was.status = "established" \/ (n > 0 /\ gained >= 7))
    /\ report # None /\ report.asked = "mcp" =>
          IF report.said = None THEN Cardinality(Stored(patterns)) > FoundAmong
                                ELSE report.said >= report.least
=============================================================================
