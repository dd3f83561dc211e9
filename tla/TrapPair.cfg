SPECIFICATION Spec
CONSTANTS
    Threads = {t1, t2}
    NumPages = 2
    NumBlocks = 2
    On <- Straddle
    Record <- TableFirst
    Stubbable = {2}
    Ranged = {}
    Batch = 2
    MaxFailures = 0
    Ranges = {{2}}
    Listed = {2}
SYMMETRY Symmetry
INVARIANTS OneResolver WholePages NoSilentStub
PROPERTIES PresentBytesKept
