SPECIFICATION Spec
CONSTANTS
    Addresses = {a1, a2, a3}
    Null = null
    Names = {"c", "clear", "crash", "echo"}
    Roles = {1, 2}
    Table <- MCTable
    Extends <- MCExtends
    NoRole = noRole
    NoName = noName
    Unused = unused
SYMMETRY AnyAddresses
INVARIANT ListIsHeap
PROPERTY ImplementsRegistry
