CONSTANTS
    File = {f1}
    Folder = {}
    RemoteOnly = {}
    LocalWorker = {lw1}
    RemoteWorker = {rw1}
    Uploader = {u1}
    NoAsset = NoAsset
    ForceMd5 = FALSE
    Crypted = TRUE
    RemoveNonExisting = FALSE
    Container <- Nothing
    Faults = {}
SPECIFICATION Safety
INVARIANT NothingLeftBehind
