CONSTANTS
    c1 = c1  c2 = c2  c3 = c3  r1 = r1  r2 = r2
    k1 = k1  k2 = k2  debit = debit  credit = credit
    Calls = {c1, c2, c3}
    Releases = {r1, r2}
    Keys = {k1, k2}
    Ops = {debit, credit}
    Requests <- HoldRequests
SPECIFICATION Spec
SYMMETRY Symmetry
INVARIANTS InflightIsExact NoSleeperIsTold ReleaseReachesEveryHold
PROPERTIES PeakIsHighWaterMark ImplementsHoldGate
