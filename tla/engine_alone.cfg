SPECIFICATION Spec
CONSTANTS
    n1 = n1
    n2 = n2
    n3 = n3
    t1 = t1
    t2 = t2
    l1 = l1
    Node <- MCNode
    Ends <- MCEnds
    Triple = {t1, t2, l1}
    Link = {l1}
    Source = {s1}
    Caller = {c1}
    Maintainer = {c1}
    Ops = {"insert", "touch", "feedback", "supersede", "revoke", "resolve", "decay", "evict", "lifecycle"}
    MaxBatch = 2
    MaxWeight = 4
    Full = 2
    MinFeedback = 1
    MinWeight = 1
    TargetTriples = 1
    TargetNodes = 1
    Absent = Absent
SYMMETRY Symmetry
INVARIANTS TypeOK
PROPERTIES EnforceKeepsHeaviest EnforceReachesTarget
