SPECIFICATION Spec
CONSTANTS
    Processes = {p1, p2}
    o1 = o1
    o2 = o2
    o3 = o3
    b1 = b1
    b2 = b2
    Objects = {o1, o2, o3}
    Buckets = {b1, b2}
    BucketOf <- MCBucketOf
    Faults = {"remove"}
    MaxFaults = 1
    NoProcess = NoProcess
    Stale = Stale
    NoFile = NoFile
    Torn = Torn
    NoDir = NoDir
INVARIANTS VersionedMeansComplete
SYMMETRY Symmetric
