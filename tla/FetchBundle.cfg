SPECIFICATION Spec
CONSTANTS
    NumWorkers = 2
    Clients = {c1}
    Tails = {1, 2}
    Expected <- Sizes
    Bundleable = {1, 2}
    MaxMembers = 2
    MaxBundleBytes = 3
    RefusalMax = 2
    Retries = 1
    MaxBuffered = 3
    SizeGuess = 1
    Requests <- MixedRequests
    Bundling = TRUE
    MaxJobs = 3
    MaxStarts = 1
INVARIANTS TypeOK ActiveMatchesQueue OneTransferPerTail RunningHasOwner AccountsExact
PROPERTIES HeadroomKept
CHECK_DEADLOCK FALSE
