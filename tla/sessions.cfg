SPECIFICATION Spec
CONSTANTS
    Reader = {r}
    Caller = {c1, c2}
    Session = {s1, s2}
    Exchange = {e1, e2}
    Pattern = {p1, p2}
    Room = {room}
    None = None
    Start = {6, 12}
    PageSize = {1, 2}
    FoundAmong = 1
    MaxInsights = 1
    MaxReinforced = 2
CONSTRAINT Bounded
SYMMETRY Symmetry
INVARIANTS TalkSound ReinforcementsCount
CHECK_DEADLOCK FALSE
