SPECIFICATION Spec
CONSTANTS
    Chains <- MCChains
    MaxChunks = 2
INVARIANTS TypeOK NilMeansComplete NothingFailsAlone ClosedAtReturn
PROPERTIES Terminates
