SPECIFICATION Spec
CONSTANTS
    Names = {a, b}
    Users = {u1, u2}
    MaxItems = 3
    MaxCalls = 4
    MaxNodes = 4
    Exile = Exile
    None = None
INVARIANTS TypeOK RefsAccounted MapNamesHolders ChildStandsAtName
SYMMETRY Symmetric
