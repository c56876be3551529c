SPECIFICATION BusySpec
CONSTANTS
    p1 = p1
    p2 = p2
    fact = fact
    gone = gone
    mine = mine
    other = other
    Peer = {p1, p2}
    Triple = {fact, other}
    Exempt = {}
    Retracts <- MCRetracts
    Restricts <- MCRestricts
    NoPeer = NoPeer
    MaxNet = 0
    LocalOps <- MCBoth
    Inserted <- MCApart
    Evicted <- MCNone
PROPERTIES SyncConverges
