SPECIFICATION MCSpec
CONSTANTS
    None = None
    Nodes = 3
    MaxChanges = 2
    Vector = {0, 1, 3}
    TopLevel = 1
    M = 1
    M0 = 3
    EfConstruction = 3
    EfSearch = 3
    Vertex = {v1, v2, v3}
    PathDepth = 2
    MaxPaths = 2
    Iterations = 3
    MaxEdges = 4
    t = t
    u = u
    v = v
    x = x
    y = y
    z = z
    ann = ann
    why = why
    Node = {n1, n2}
    Strategy = {spring, spectral}
    Value = {one, two}
    InitialCapacity = 1
    MaxSlots = 2
    MaxCrashes = 1
    Worker = {w1, w2}
    Dimensions = 1
    Asked = {1}
    Threshold <- MCThreshold
    Burst = 2
    RateWindow = 2
    Cooldown = 1
    MaxCount = 2
    MaxAge = 2
    Caller = {p1, p2}
    PgNode = {x, y}
    PgEnds <- MCPgEnds
    Source = {source}
    Full = 2
    Least = {1}
    Listing <- MCListing
    MaxBirths = 2
    Session = {session}
    Exchange = {exchange}
    Pattern = {pattern}
    Room = {room}
    Time = {1, 2}
    Start = {5, 6, 11}
    Client = {client}
    ReadNode = {x, y, z}
    ReadEnds <- MCReadEnds
    Trusts = {t}
    Edge <- MCEdge
    Depth = {1, 2, 11}
    MaxDepth = 10
    PerNode = 1
    MaxWrites = 2
    Fact <- MCFact
    Did = {ann, ben}
    Verdict = {yes, no}
    Reason = {None, why}
    Revocable <- MCRevocable
    Contested <- MCContested
    Moment = {now, later}
    MaxRequests = 2
    Context = {c1, c2}
    Given <- MCGiven
    MaxHistory = 2
    PruneShare = 2
    MaxFeedback = 3
    Assembled = {c1}
    Preset <- MCPreset
    Attribution <- MCAttribution
    Similarity <- MCSimilarity
    Rate <- MCRate
    LeastShare <- MCLeastShare
    MaxUpdates = 2
    Thread = {thread}
    Confidence = {30, 90}
    Recency <- MCRecency
    Activation <- MCActivation
    PruneThreshold = {300, 505}
    MostTriples = {1, 2}
    MostNodes = {1, 2, 3, 4}
    MaxItems = 3
SYMMETRY Alike
INVARIANTS TypeOK FileKeeps BatchesApart PgSound ReadsAnswered LearningSound ContextCovers SearchExact GraphRight
PROPERTY WeakestGo
CHECK_DEADLOCK FALSE
