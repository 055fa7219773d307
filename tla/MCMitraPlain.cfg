SPECIFICATION Spec
CONSTANTS
    w1 = w1
    w2 = w2
    Keyword = {w1, w2}
    Ind = {1, 2}
    Junk = 0
    TestBid = TestBid
    TestValue = TestValue
    Stem <- MCStem
    DeleteFiles = FALSE
    MaxEntries = 4
    MaxSrcCnt = 0
SYMMETRY KeywordSymmetry
PROPERTIES
    MasksUsedOnce
    RefinesIndex
