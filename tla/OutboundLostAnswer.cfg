SPECIFICATION Spec
CONSTANTS
    Device = {d1}
    Flush = {f1}
    MaxBatch = 2
    MaxEmits = 2
    MaxRestarts = 0
    Faults = {"late"}
    FragileAt = {"idle"}
INVARIANTS NoEventLost
CHECK_DEADLOCK FALSE
