SPECIFICATION RSpec
CONSTANTS
    Client = {c1, c2}
    Triple = {t1}
    Source = {}
    Ops = {"insert", "update", "delete", "evict"}
    Full = 1
    Threshold = 1
    Absent = Absent
    MaxCrashes = 2
SYMMETRY Symmetry
INVARIANT RecoverySound
