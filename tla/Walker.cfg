SPECIFICATION FairSpec
CONSTANTS
    MaxSteps = 3
    MaxSequence = 3
    NumCells = 4
    MaxRequests = 5
    MaxOthers = 1
INVARIANTS TypeOK WindowMatchesSteps InSync
PROPERTIES WalkResumes
CHECK_DEADLOCK FALSE
