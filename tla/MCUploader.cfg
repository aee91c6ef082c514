CONSTANTS
    File = {f1, f2}
    Length = 2
    Options <- AllOptions
    EarlyAnswer = TRUE
    BadAnswer = TRUE
SPECIFICATION Spec
INVARIANTS TypeOK Restorable MetadataTrue NothingCarriedOver
PROPERTY Finishes
