SPECIFICATION Spec
CONSTANTS
    d1 = d1  d2 = d2  t1 = t1  t2 = t2
    Device <- MCDevice
    Token <- MCToken
    Owner <- MCOwner
    Nonce = {n1, n2}
    RelayDevice = relay
    None = None
    Skew = 1
    Slot = {s1, s2}
    MaxSeq = 3
    MaxTime = 1
    MaxBatch = 2
    CrashPoints = {"none", "arm", "drop", "disarm", "wipe", "bury"}
    MaxCrashes = 1
SYMMETRY MCSymmetry
INVARIANTS TypeOK SeqContiguous NonceUnique  TokensMatchDevices PendingWasScheduled
PROPERTIES LogAppendOnly OneDeletionAtATime TombstoneIsFinal
CHECK_DEADLOCK FALSE
