SPECIFICATION Spec
CONSTANTS
    Bytes = {"ESC", "[", "1", "9", ";", " ", "CR", "A", "G", "R", "~", "x"}
    Esc = "ESC"
    Bracket = "["
    Semicolon = ";"
    DigitOf <- MCDigitOf
    Params = {"1", "9", ";"}
    Intermediates = {" "}
    ControlOf <- MCControlOf
    ArrowOf <- MCArrowOf
    TildeOf <- MCTildeOf
    Report = "R"
    Tilde = "~"
    MaxParameter = 4
    MaxIntermediate = 2
    UintMod = 16
    MaxRun = 7
INVARIANTS TypeOK StateIsOfRun
PROPERTY HearsWhatIsMeant
