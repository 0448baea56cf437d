SPECIFICATION Spec
CONSTANTS
    Lines <- FailingLines
    SystemLines <- NestedLines
    Programs = {"a", "b"}
    Builtins = {"p"}
    Exit = "exit"
    Missing = {"x"}
    Files = {"f", "g"}
    BadFiles = {"g"}
    EarlyRun = {}
    NullStrlen = {"zero", "fault"}
    MaxLines = 2
    MaxDepth = 4
    MaxWrites = 1
    MaxCalls = 1
    MaxBufs = 8
INVARIANTS CaptureLive OwnedOnce ResetAfterSuccess
PROPERTIES BlocksWhileRunning ExitIsLast
