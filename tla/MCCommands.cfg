SPECIFICATION CommandSpec
CONSTANTS
    Clients = {c1, c2}
    Paths = {p1, p2}
    empty = empty
    small = small
    large = large
    huge = huge
    torn1 = torn1
    bucket1 = bucket1
    Contents = {empty, huge}
    Empty = empty
    Torn = torn1
    Engines = {disk1, disk2}
    Base64 = base64
    Size <- MCSize
    Flate <- MCFlate
    InlineMaxSize = 2
    MaxNonce = 1
    Buckets = {bucket1}
    BucketOf <- MCOneBucket
    OnDemand = {p1, p2}
    MaxTime = 1
    TicksPerMicro = 2
    MaxCalls = 4
    SeedKinds = {"absent", "local", "synced", "evicted"}
    OpenFlags <- MCMountFlags
    TouchFlags <- MCTouchFlags
    Kinds <- MCKinds
    NoClient = NoClient
    NoPath = NoPath
    NoObj = NoObj
    NoMeta = NoMeta
    TornMeta = TornMeta
    NoData = NoData
    NoRecord = NoRecord
    NoContent = NoContent
    NoTask = NoTask
    NoHandle = NoHandle
    Exile = Exile
INVARIANTS ObjectIntegrity DownloadedBeforeReopen FilesFollowTheirNode
PROPERTIES EvictKeepsContent DownloadRestores SnapshotIsCurrent
SYMMETRY Symmetric
