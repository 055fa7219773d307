SPECIFICATION Spec
CONSTANTS
    w1 = w1
    w2 = w2
    Keyword = {w1, w2}
    Ind = {1, 2}
    Junk = 0
    TestBid = TestBid
    TestValue = TestValue
    Stem <- MCStem
    DeleteFiles = TRUE
    MaxEntries = 4
    MaxSrcCnt = 2
CHECK_DEADLOCK FALSE
SYMMETRY KeywordSymmetry
INVARIANTS
    TypeOK
    EntriesAligned
PROPERTIES
    MasksUsedOnce
    RefinesIndex
