CONSTANTS
    File = {f1}
    Folder = {d1}
    RemoteOnly = {}
    LocalWorker = {lw1}
    RemoteWorker = {rw1}
    Uploader = {u1}
    NoAsset = NoAsset
    ForceMd5 = TRUE
    Crypted = TRUE
    RemoveNonExisting = FALSE
    Container <- KeyKnown
    Faults = {"head"}
SPECIFICATION Safety
INVARIANTS ClassifiedRight
PROPERTY RemoteImplements
