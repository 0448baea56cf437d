SPECIFICATION Spec
CONSTANTS
    Lines <- CleanLines
    SystemLines <- NoLines
    Programs = {"a", "b"}
    Builtins = {"p"}
    Exit = "exit"
    Missing = {"x"}
    Files = {"f", "g"}
    BadFiles = {"g"}
    EarlyRun = {"write"}
    NullStrlen = {"zero"}
    MaxLines = 1
    MaxDepth = 2
    MaxWrites = 1
    MaxCalls = 0
    MaxBufs = 4
INVARIANT NextGetsStdout

