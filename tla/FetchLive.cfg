SPECIFICATION FairSpec
CONSTANTS
    NumWorkers = 2
    Clients = {c1}
    Tails = {1, 2}
    Expected <- SmallSizes
    Bundleable = {1, 2}
    MaxMembers = 2
    MaxBundleBytes = 2
    RefusalMax = 2
    Retries = 1
    MaxBuffered = 2
    SizeGuess = 1
    Requests <- LiveRequests
    Bundling = TRUE
    MaxJobs = 2
    MaxStarts = 1
PROPERTIES JobsSettle CallsReturn ImplementsService
CHECK_DEADLOCK FALSE
