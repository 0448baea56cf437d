SPECIFICATION Spec
CONSTANTS
    Chars <- MCChars
    Newline = "nl"
    Texts <- MCTexts
    Word = 8
    MaxKeys = 6
INVARIANTS TypeOK NoOtherOverrun StatusLineExact
PROPERTY ImplementsTextEditor
CHECK_DEADLOCK FALSE
