SPECIFICATION Spec
CONSTANTS
    Lines <- FailingLines
    SystemLines <- NestedLines
    Programs = {"a", "b"}
    Builtins = {"p"}
    Exit = "exit"
    Missing = {"x"}
    Files = {"f", "g"}
    BadFiles = {"g"}
    EarlyRun = {}
    NullStrlen = {"zero"}
    MaxLines = 1
    MaxDepth = 4
    MaxWrites = 1
    MaxCalls = 1
    MaxBufs = 8
INVARIANT NotSentAfterAnd

