SPECIFICATION Spec
CONSTANTS
    Names = {"", "ann", "bob", "full", "fullx"}
    Empty = ""
    Ordinary = {"ann", "bob"}
    TooLong = {"fullx"}
    Passwords = {p1, p2}
    Roles = {"zero", "x"}
    Salts = {"s", "z"}
    MaxRecords = 2
    ReadsOn <- MCReadsOn
    NoSalt = noSalt
    NoHash = noHash
    NoRole = "NO_ROLE"
    NoAccount = noAccount
INVARIANTS TypeOK OneRecordPerName
PROPERTY ImplementsDirectory
