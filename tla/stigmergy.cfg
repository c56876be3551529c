SPECIFICATION Spec
CONSTANTS
    x = x
    y = y
    z = z
    Triple = {1, 2, 3}
    Node <- MCNode
    Ends <- MCEnds
    Recorder = {c1, c2}
    Maintainer = {m1}
    WindowSize = 2
    Threshold = 1
    Accesses = {{1, 2}, {2, 3}}
    Volatile = {3}
    MaxCount = 2
    MaxNow = 1
INVARIANTS TypeOK CountsCover CountsExact OneDirection
