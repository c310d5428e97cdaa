SPECIFICATION FairSpec
CONSTANTS
    d1 = d1  d2 = d2  t1 = t1  t2 = t2
    Device <- MCDevice
    Token <- MCToken
    Owner <- MCOwner
    Nonce = {n1, n2}
    RelayDevice = relay
    None = None
    Skew = 1
    Slot = {s1}
    MaxSeq = 3
    MaxTime = 1
    MaxBatch = 1
    CrashPoints = {"none", "drop", "disarm", "wipe", "bury"}
    MaxCrashes = 1
PROPERTIES PendingIsResolved
CHECK_DEADLOCK FALSE
