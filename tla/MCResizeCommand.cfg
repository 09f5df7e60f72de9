SPECIFICATION FairSpec
CONSTANTS
    Chars = {"x", " ", "esc", "'", "q", "-", "=", "1", "9", "r", "w", "c", "l", "h", "p"}
    Nul = "NUL"
    Space = " "
    Escape = "esc"
    Marks = {"'", "q"}
    Lines <- MCLines
    MaxArgv = 4
    NoArg = noArg
    NoMark = noMark
    Dash = "-"
    Equals = "="
    Table <- MCTable
    NoOption = noOption
    DigitOf <- MCDigitOf
    UintMod = 16
    DefaultRows = 24
    DefaultCols = 80
INVARIANTS TypeOK InputIsAhead WordsOfLine GroupHasLetters DoesAsTold
PROPERTIES TakesNext ParsingEnds
CHECK_DEADLOCK FALSE
