SPECIFICATION FairMappingSpec
CONSTANTS
    Threads = {t1}
    NumPages = 2
    NumBlocks = 2
    On <- Straddle
    Record <- TableFirst
    Stubbable = {2}
    Ranged = {1}
    Batch = 1
    MaxFailures = 2
    Ranges = {{1}, {1, 2}}
    Listed = {1}
    Quiet = TRUE
INVARIANTS MappingTypeOK MarksAreTrue PinsHold
PROPERTIES FaultsEnd ResolveCovers
CHECK_DEADLOCK FALSE
