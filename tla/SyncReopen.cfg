SPECIFICATION SyncSpec
CONSTANTS
    Device = {d1, d2}
    Flush = {f1}
    MaxBatch = 2
    MaxEmits = 1
    MaxRestarts = 1
    Faults = {"rejected"}
    FragileAt = {"idle", "peek", "failed"}
    Url = {u}
    Tag = {"t"}
    Title = {"edited"}
    Command = {"ItemSaved", "ItemDeleted", "ItemArchived", "ItemLiked", "ItemTagged", "ItemTitleEdited"}
    MaxPageSize = 2
    None = None
SYMMETRY MCSymmetry
INVARIANTS CursorCovers ReopenedShowsLog
CHECK_DEADLOCK FALSE
