SPECIFICATION Spec
CONSTANTS
    Names = {"PATH", "ROOT_FS", "?", "PA"}
    Values = {"v", "w"}
    Unset = "unset"
    Begins <- Apart
    Path = "PATH"
    Status = "?"
    Initial <- TwoGiven
    Capacity = 5
    MaxNested = 2
INVARIANTS TypeOK RoomForAll
PROPERTY ImplementsEnvMap
