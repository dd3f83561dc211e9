SPECIFICATION Spec
CONSTANTS
    Plans <- TwoPlans
    Ranged = {}
    SaveAtomic = TRUE
    UpdateAtomic = FALSE
    MaxCrashes = 1
    MaxStubs = 0
    MaxMisses = 0
INVARIANTS FetchedIsReal
