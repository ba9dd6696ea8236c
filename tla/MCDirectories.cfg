SPECIFICATION Spec
CONSTANTS
    a = a
    b = b
    c = c
    Paths <- MCPaths
    Users = {u1}
    OpenFlags <- MCOpenFlags
    MaxCalls = 3
    NoMeta = NoMeta
    TornMeta = TornMeta
    NoData = NoData
    NoHandle = NoHandle
    NoLock = NoLock
    Exile = Exile
    Nothing = Nothing
    Dir = Dir
INVARIANTS TypeOK DataHasMetadata FilesFollowTheirNode WholeUntilSpoilt
PROPERTIES LockedPathsStay ImplementsFileTree
SYMMETRY Symmetric
