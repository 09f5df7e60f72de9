SPECIFICATION Spec
CONSTANTS
    Lines <- MCLines
    Blank = ""
    Garbage = garbage
    MaxRecords = 3
    Unterminated = {}
    SizeMod = 6
    Words <- MCWords
    NoWord = noWord
    FirstToken <- MCFirstToken
    ArgCount <- MCArgCount
    LineOf <- MCLineOf
    Spaced <- MCSpaced
    Completions <- MCCompletions
    RoleBits = {1, 2}
    UserCommands = {}
    Accounts = {}
    OobUsers <- MCRoot
    NoUser = noUser
    NoCommand = noCommand
    NoSymbol = noSymbol
    Keys = {"EDIT", "CR", "HT", "UP", "DOWN", "FF"}
    Typed = {"", "e", "logout now"}
    Sizes = {}
    DefaultCols = 80
    MaxReplies = 0
    OobWhileResizing = FALSE
    YieldsAfterLogout = FALSE
INVARIANTS TypeOK NoGarbageRecalled
PROPERTY BrowsingKeepsLines
