CONSTANTS
    File = {f1, f2}
    Folder = {}
    RemoteOnly = {}
    LocalWorker = {lw1}
    RemoteWorker = {rw1}
    Uploader = {u1}
    NoAsset = NoAsset
    ForceMd5 = FALSE
    Crypted = TRUE
    RemoveNonExisting = TRUE
    Container <- OneFile
    Faults = {"upload"}
SPECIFICATION Safety
PROPERTY DeletesOnlyMissing
