SPECIFICATION Spec
CONSTANTS
    Device = {d1, d2}
    Flush = {f1, f2}
    MaxBatch = 2
    MaxEmits = 2
    MaxRestarts = 1
    Faults = {"rejected"}
    FragileAt = {"idle", "peek", "failed"}
SYMMETRY MCSymmetry
INVARIANTS TypeOK StampsAreRight SyncedIsStamped InFlightIsOwned
CHECK_DEADLOCK FALSE
