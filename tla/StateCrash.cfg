SPECIFICATION FairSpec
CONSTANTS
    Plans <- ThreePlans
    Ranged = {1}
    SaveAtomic = TRUE
    UpdateAtomic = TRUE
    MaxCrashes = 2
    MaxStubs = 1
    MaxMisses = 1
INVARIANTS TypeOK FetchedIsReal WrittenBeforeAdvertised
PROPERTIES NothingLost Converges
