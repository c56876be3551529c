SPECIFICATION Spec
CONSTANTS
    Caller = {c1, c2}
    Triple = {t1, t2}
    None = None
INVARIANTS TypeOK StoredFound TierAgrees
