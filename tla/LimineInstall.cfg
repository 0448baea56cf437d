SPECIFICATION Spec
CONSTANTS
    ArraySectors = 5
    EntryLba = 2
    SizeLimit = 9
    Stage2 <- Images
    MaxRuns = 3
INVARIANTS TypeOK PartitionsKept PrimaryValid Installed RefusedAfterCrash
CHECK_DEADLOCK FALSE
