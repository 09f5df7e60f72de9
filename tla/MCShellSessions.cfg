SPECIFICATION FairSpec
CONSTANTS
    Lines <- MCLines
    Blank = ""
    Garbage = garbage
    MaxRecords = 0
    Unterminated = {}
    SizeMod = 8
    Words <- MCWords
    NoWord = noWord
    FirstToken <- MCFirstToken
    ArgCount <- MCArgCount
    LineOf <- MCLineOf
    Spaced <- MCSpaced
    Completions <- MCCompletions
    RoleBits = {1, 2}
    UserCommands <- MCUserCommands
    Accounts <- MCAccounts
    OobUsers <- MCOobUsers
    NoUser = noUser
    NoCommand = noCommand
    NoSymbol = noSymbol
    Keys = {"EDIT", "CR", "ETX"}
    Typed = {"", "  ", "alice", "pw", "blink", "resize", "logout", "logout now", "help"}
    Sizes = {40}
    DefaultCols = 80
    MaxReplies = 1
    OobWhileResizing = FALSE
    YieldsAfterLogout = FALSE
INVARIANTS SessionIsUsers PasswordIsMasked YieldIsAuthorized LoginMayLogout ScreenIsCurrent ResizeHasQuery QueryEndsWithCommand
PROPERTIES ImplementsSession ResizeEnds
