SPECIFICATION Spec
CONSTANTS
    Runs <- MCRuns
    Commands <- MCCommands
    Databases <- MCDatabases
    Programs = {p, q}
    Printers = {s, t}
    Chars = {"a", "b"}
    Columns = 2
    Rows = 2
    MaxChars = 5
INVARIANTS
    LostOnlyIfOvertaken
    DoneInstalls
    ConsoleExact
PROPERTY EndsNoticed
CHECK_DEADLOCK FALSE
