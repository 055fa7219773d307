SPECIFICATION Spec
CONSTANTS
    k1 = k1
    k2 = k2
    Keyword = {1, 2}
    Length <- KeywordLength
    Garbled <- Misread
    Ind = {5}
    KeyVal = {k1, k2}
    NoKey = NoKey
    LocalSize = 1
    Levels = 3
    UpdateAfterSearch = FALSE
    MaxUpdates = 6
SYMMETRY KeySymmetry
INVARIANTS TypeOK InItsBlock ServerReadable
PROPERTIES RefinesIndex
