SPECIFICATION LeaseFairSpec
CONSTANTS
    Nobody = Nobody
    Proc = {p1, p2, p3}
    Obs = {o1, o2}
    MaxAcquires = 4  MaxFaults = 2
INVARIANTS RecordTellsTruth
PROPERTIES LockReturns
