SPECIFICATION CrashSpec
CONSTANTS
    Clients = {c1, c2}
    Paths = {p1}
    empty = empty
    small = small
    large = large
    huge = huge
    torn1 = torn1
    bucket1 = bucket1
    bucket2 = bucket2
    Contents = {empty, huge}
    Empty = empty
    Torn = torn1
    Engines = {disk1}
    Base64 = base64
    Size <- MCSize
    Flate <- MCFlate
    InlineMaxSize = 2
    MaxNonce = 2
    Buckets = {bucket1, bucket2}
    BucketOf <- MCTwoBuckets
    OnDemand = {p1}
    MaxTime = 1
    TicksPerMicro = 2
    MaxCalls = 4
    SeedKinds = {"absent", "local", "synced", "evicted"}
    OpenFlags <- MCOpenFlags
    NoClient = NoClient
    NoPath = NoPath
    NoObj = NoObj
    NoMeta = NoMeta
    TornMeta = TornMeta
    NoData = NoData
    NoRecord = NoRecord
    NoContent = NoContent
    NoTask = NoTask
    NoHandle = NoHandle
    Exile = Exile
INVARIANTS BackedUnlessTorn UploadsLoadWholeBuckets
PROPERTIES EveryCallReturns
