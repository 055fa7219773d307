SPECIFICATION FairSpec
CONSTANTS
    x1 = x1
    x2 = x2
    x3 = x3
    Keyword = {1}
    Ind = {x1, x2, x3}
    None = None
    Space = 5
    SetupRefill = FALSE
    InsertUnsearched = FALSE
    MaxSetupAccess = 2
    MaxSrch = 2
CHECK_DEADLOCK FALSE
INVARIANTS TypeOK SlotsMatch NoHoles ProbesExact NeverMisread
PROPERTIES BoxesWrittenOnce RefinesSet SearchEnds
