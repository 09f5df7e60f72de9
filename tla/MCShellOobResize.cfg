SPECIFICATION Spec
CONSTANTS
    Lines <- MCLines
    Blank = ""
    Garbage = garbage
    MaxRecords = 0
    Unterminated = {}
    SizeMod = 8
    Words <- MCWords
    NoWord = noWord
    FirstToken <- MCFirstToken
    ArgCount <- MCArgCount
    LineOf <- MCLineOf
    Spaced <- MCSpaced
    Completions <- MCCompletions
    RoleBits = {1, 2}
    UserCommands <- MCUserCommands
    Accounts = {}
    OobUsers <- MCRoot
    NoUser = noUser
    NoCommand = noCommand
    NoSymbol = noSymbol
    Keys = {"EDIT", "CR", "ETX"}
    Typed = {"", "resize", "blink"}
    Sizes = {40}
    DefaultCols = 80
    MaxReplies = 1
    OobWhileResizing = TRUE
    YieldsAfterLogout = FALSE
INVARIANT ResizeHasQuery
