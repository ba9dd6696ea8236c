SPECIFICATION Spec
CONSTANTS
    Clients = {c1, c2, c3}
    Paths = {p1, p2}
    empty = empty
    small = small
    large = large
    huge = huge
    torn1 = torn1
    bucket1 = bucket1
    Contents = {empty, huge}
    Empty = empty
    Torn = torn1
    Engines = {disk1}
    Base64 = base64
    Size <- MCSize
    Flate <- MCFlate
    InlineMaxSize = 2
    MaxNonce = 1
    Buckets = {bucket1}
    BucketOf <- MCOneBucket
    OnDemand = {p1}
    MaxTime = 0
    TicksPerMicro = 2
    MaxCalls = 3
    SeedKinds = {"local", "synced", "evicted"}
    OpenFlags <- MCOpenFlags
    NoClient = NoClient
    NoPath = NoPath
    NoObj = NoObj
    NoMeta = NoMeta
    TornMeta = TornMeta
    NoData = NoData
    NoRecord = NoRecord
    NoContent = NoContent
    NoTask = NoTask
    NoHandle = NoHandle
    Exile = Exile
INVARIANTS IInv LockDiscipline ReferencedObjectsBacked TaskHoldsPath
PROPERTIES RecordsOnlyGrow EvictSparesOpenFiles
SYMMETRY Symmetric
