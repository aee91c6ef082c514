CONSTANTS
    File = {f1}
    Folder = {}
    RemoteOnly = {r1}
    LocalWorker = {lw1}
    RemoteWorker = {rw1}
    Uploader = {u1}
    NoAsset = NoAsset
    ForceMd5 = FALSE
    Crypted = FALSE
    RemoveNonExisting = TRUE
    Container <- AllListed
    Faults = {"head", "500", "delete"}
SPECIFICATION Spec
PROPERTY Terminates
