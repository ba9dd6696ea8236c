SPECIFICATION CommandSpec
CONSTANTS
    Clients = {c1, c2}
    Paths = {p1, p2}
    empty = empty
    small = small
    large = large
    huge = huge
    torn1 = torn1
    bucket1 = bucket1
    Contents = {empty, huge}
    Empty = empty
    Torn = torn1
    Engines = {disk1}
    Base64 = base64
    Size <- MCSize
    Flate <- MCFlate
    InlineMaxSize = 2
    MaxNonce = 1
    Buckets = {bucket1}
    BucketOf <- MCOneBucket
    OnDemand = {p1}
    MaxTime = 1
    TicksPerMicro = 2
    MaxCalls = 3
    SeedKinds = {"absent", "local", "synced", "evicted"}
    TouchFlags = {}
    OpenFlags <- MCMountFlags
    Kinds = {"mount"}
    NoClient = NoClient
    NoPath = NoPath
    NoObj = NoObj
    NoMeta = NoMeta
    TornMeta = TornMeta
    NoData = NoData
    NoRecord = NoRecord
    NoContent = NoContent
    NoTask = NoTask
    NoHandle = NoHandle
    Exile = Exile
PROPERTIES OpenWaitsForTask
SYMMETRY Symmetric
