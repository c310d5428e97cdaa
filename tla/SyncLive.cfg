SPECIFICATION FairSyncSpec
CONSTANTS
    Device = {d1, d2}
    Flush = {f1}
    MaxBatch = 2
    MaxEmits = 1
    MaxRestarts = 1
    Faults = {}
    FragileAt = {"idle", "sent"}
    Url = {u}
    Tag = {}
    Title = {}
    Command = {"ItemSaved"}
    MaxPageSize = 1
    None = None
PROPERTIES EventsSpread
CHECK_DEADLOCK FALSE
