SPECIFICATION Spec
CONSTANTS
    LINE_SIZE = 5
    MAX_BUFFER_SIZE = 4
    MAX_DIR_NAME_LENGTH = 12
    LineChars <- MCLineChars
    ScriptChars <- MCScriptChars
    NameChars = {"a", "b", "c", ".", "e", "l", "f"}
    Keys <- MCKeys
    ExtraSizes = {0, 1, 3, 9}
    Words <- MCWords
    Listings <- MCListings
    Cwd <- MCCwd
    Path <- MCPath
    MaxLine = 5
    MaxScript = 6
    MaxKeys = 5
INVARIANTS
    CalculatorNeverWrong
    AssemblerExact
    ArchiveExact
    CopyExact
    LineScannersAgree
    ScriptRunsItsLines
    
    TabCompletesCommon
CHECK_DEADLOCK FALSE
