SPECIFICATION FairSpec
CONSTANTS
    Device = {d1}
    Flush = {f1, f2}
    MaxBatch = 1
    MaxEmits = 3
    MaxRestarts = 2
    Faults = {"rejected", "late"}
    FragileAt = {"idle", "peek", "sent", "stamp", "duplicate", "failed"}
INVARIANTS NoEventLost
PROPERTIES FlushEnds EventsArrive
CHECK_DEADLOCK FALSE
