SPECIFICATION FairSpec
CONSTANTS
    Bytes = {"ESC", "[", "1", "2", "3", "5", ";", "CR", "ETX", "A", "R", "~"}
    Esc = "ESC"
    Bracket = "["
    Semicolon = ";"
    DigitOf <- MCDigitOf
    Params = {"1", "2", "3", "5", ";"}
    Intermediates = {}
    ControlOf <- MCControlOf
    ArrowOf <- MCArrowOf
    TildeOf <- MCTildeOf
    Report = "R"
    Tilde = "~"
    MaxParameter = 32
    MaxIntermediate = 32
    UintMod = 4096
    MaxRun = 8
    Windows <- MCWindows
    Decimal <- MCDecimal
    Typed <- MCTyped
    MaxInput = 4
    MaxQueries = 2
    DefaultSize <- MCDefaultSize
INVARIANT NoReportLost
PROPERTIES LearnsTheSize QueryEnds
