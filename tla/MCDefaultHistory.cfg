SPECIFICATION Spec
CONSTANTS
    Lines <- MCLines
    Blank = ""
    Garbage = garbage
    MaxRecords = 4
    Unterminated = {}
    SizeMod = 8
    MaxIndex = 4
INVARIANTS TypeOK NeverGarbage EntriesApart
PROPERTY ImplementsLog
