SPECIFICATION FairSpec
CONSTANTS
    Lines <- CleanLines
    SystemLines <- NoLines
    Programs = {"a", "b"}
    Builtins = {"p"}
    Exit = "exit"
    Missing = {"x"}
    Files = {"f", "g"}
    BadFiles = {"g"}
    EarlyRun = {"write"}
    NullStrlen = {"zero"}
    MaxLines = 2
    MaxDepth = 3
    MaxWrites = 2
    MaxCalls = 0
    MaxBufs = 4
INVARIANTS TypeOK FreedIfAllocated
PROPERTIES ImplementsPipeline LineReturns
