SPECIFICATION SyncSpec
CONSTANTS
    Device = {d1}
    Flush = {f1}
    MaxBatch = 2
    MaxEmits = 3
    MaxRestarts = 0
    Faults = {}
    FragileAt = {"idle"}
    Url = {u}
    Tag = {}
    Title = {}
    Command = {"ItemSaved", "ItemDeleted"}
    MaxPageSize = 2
    None = None
SYMMETRY MCSymmetry
INVARIANTS SyncedShowsLog
CHECK_DEADLOCK FALSE
