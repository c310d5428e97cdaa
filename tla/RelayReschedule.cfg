SPECIFICATION Spec
CONSTANTS
    d1 = d1  d2 = d2  t1 = t1  t2 = t2
    Device <- MCDevice
    Token <- MCToken
    Owner <- MCOwner
    Nonce = {n1, n2}
    RelayDevice = relay
    None = None
    Skew = 1
    Slot = {s1, s2}
    MaxSeq = 4
    MaxTime = 1
    MaxBatch = 1
    CrashPoints = {"none", "disarm"}
    MaxCrashes = 1
SYMMETRY MCSymmetry
INVARIANTS WindowElapsed   PendingHasAlarm
 
CHECK_DEADLOCK FALSE
