CONSTANTS
    File = {f1, f2}
    Folder = {}
    RemoteOnly = {}
    LocalWorker = {lw1}
    RemoteWorker = {rw1}
    Uploader = {u1, u2}
    NoAsset = NoAsset
    ForceMd5 = FALSE
    Crypted = FALSE
    RemoveNonExisting = FALSE
    Container <- Nothing
    Faults = {}
SPECIFICATION Safety
SYMMETRY Symmetry
INVARIANTS Tally UnwoundInOrder
PROPERTY ImplementsBackup
