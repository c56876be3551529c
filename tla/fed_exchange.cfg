SPECIFICATION FairSpec
CONSTANTS
    p1 = p1
    p2 = p2
    fact = fact
    gone = gone
    mine = mine
    other = other
    Peer = {p1, p2}
    Triple = {fact, gone, mine}
    Exempt = {gone}
    Retracts <- MCRetracts
    Restricts <- MCRestricts
    NoPeer = NoPeer
    MaxNet = 0
    LocalOps <- MCShared
    Inserted <- MCGiven
    Evicted <- MCTaken
INVARIANTS TypeOK NodesKnown RetractionWins
PROPERTIES RestrictionHolds MessagesHandled
