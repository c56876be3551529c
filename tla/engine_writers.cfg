SPECIFICATION Spec
CONSTANTS
    n1 = n1
    n2 = n2
    n3 = n3
    t1 = t1
    t2 = t2
    l1 = l1
    Node <- MCNode
    Ends <- MCEnds
    Triple = {t1, l1}
    Link = {l1}
    Source = {s1, s2}
    Caller = {c1, c2}
    Maintainer = {c1, c2}
    Ops = {"insert", "feedback", "supersede", "decay", "evict", "lifecycle"}
    MaxBatch = 1
    MaxWeight = 2
    Full = 1
    MinFeedback = 1
    MinWeight = 1
    TargetTriples = 0
    TargetNodes = 9
    Absent = Absent
SYMMETRY Symmetry
INVARIANTS NodesBehindTriples ProvenanceKept FeedbackSerial
