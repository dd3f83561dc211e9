SPECIFICATION FairSpec
CONSTANTS
    a = a
    b = b
    c = c
    hole = hole
    pack = pack
    loose = loose
    t1 = t1
    t2 = t2
    Threads = {t1, t2}
    Granules = {a, b, c, hole}
    Files = {pack, loose}
    FileOf <- FileIn
    Holes = {hole}
    Ranged = {b, c}
    Size <- Sizes
    MaxBytes = 3
INVARIANTS TypeOK BudgetKept OneLoader SealedRecoverable
PROPERTIES EnsureMakesReadable ClaimsEnd
