SPECIFICATION Spec
CONSTANTS
    x1 = x1
    x2 = x2
    x3 = x3
    Keyword = {1, 2}
    Ind = {x1, x2}
    NoKeyword = NoKeyword
    height = 3
    MaxInserts = 4
    MaxSrc = 2
SYMMETRY IndSymmetry
CHECK_DEADLOCK FALSE
INVARIANTS FoundIsLive
