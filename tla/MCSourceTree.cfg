CONSTANTS
    PatternLength = 3
    Sources <- MCSources
    Lines <- MCLines
    RemotePaths <- MCRemotePaths
    MaxLinks = 2
    Depth = 3
SPECIFICATION Spec
CHECK_DEADLOCK FALSE
INVARIANTS TypeOK WalkExact DeletesExactly AbortStops
