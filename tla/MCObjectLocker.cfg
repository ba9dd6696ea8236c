SPECIFICATION FairSpec
CONSTANTS
    Procs = {g1, g2, g3}
    Keys = {k1, k2}
    Chans = {c1, c2, c3, c4, c5}
    NoChan = NoChan
INVARIANTS TypeOK MutualExclusion NoLostWakeup
PROPERTIES WaiterWoken ImplementsKeyedMutex
