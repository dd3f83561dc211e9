SPECIFICATION Spec
CONSTANTS
    Threads = {t1, t2}
    NumPages = 1
    NumBlocks = 1
    On <- OneBlock
    Record <- NoTable
    Stubbable = {1}
    Ranged = {}
    Batch = 2
    MaxFailures = 0
    Ranges = {{1}}
    Listed = {}
INVARIANTS RealMarkIsReal
