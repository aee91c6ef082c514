CONSTANTS
    File = {f1}
    Folder = {}
    RemoteOnly = {r1}
    LocalWorker = {lw1}
    RemoteWorker = {rw1}
    Uploader = {u1}
    NoAsset = NoAsset
    ForceMd5 = TRUE
    Crypted = TRUE
    RemoveNonExisting = TRUE
    Container <- OneListed
    Faults = {"walk", "hash", "head", "500", "upload", "delete"}
SPECIFICATION Safety
INVARIANTS TypeOK SourceAssertions AbortIsPrompt UnwoundInOrder 
PROPERTIES ImplementsBackup LocalImplements
