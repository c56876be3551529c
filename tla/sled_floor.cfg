SPECIFICATION Spec
CONSTANTS
    Client = {c1}
    Triple = {t1, t2}
    Source = {s1, s2}
    Ops = {"insert", "update", "touch", "delete", "source", "decay", "evict"}
    Full = 2
    Threshold = 1
    MinWeight = 1
    Absent = Absent
SYMMETRY Symmetry
PROPERTIES ImplementsTripleStore
