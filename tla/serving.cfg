SPECIFICATION Spec
CONSTANTS
    x = x
    y = y
    Node <- MCNode
    Link <- MCLink
    Caller = {c1, c2}
    Op = {"spectral", "node2vec", "search", "mcp_search", "tiered", "resilient", "neighbors", "assemble", "combined"}
    Dims = {2}
    Limit = 2
    Outages = TRUE
    Forced = {"Full", "Offline"}
    MaxReports = 5
INVARIANTS AnswersSound OneRanking DegradedUntilThree
PROPERTY NothingTakenBack
CONSTRAINT Apart
SYMMETRY Alike
