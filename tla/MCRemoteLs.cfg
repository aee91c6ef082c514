CONSTANTS
    f1 = f1
    f2 = f2
    f3 = f3
    f4 = f4
    d1 = d1
    d2 = d2
    d3 = d3
    e1 = e1
    e2 = e2
    e3 = e3
    Root = Root
    NoFolder = NoFolder
    File <- MCFile
    Folder <- MCFolder
    Foreign <- MCForeign
    Marker <- MCMarker
    Parent <- MCParent
    Worker = {w1, w2}
    GetMayFail = TRUE
SPECIFICATION Spec
INVARIANTS TypeOK NobodyLeavesEarly ListedOnce Exact
PROPERTY Returns
