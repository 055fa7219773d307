SPECIFICATION Spec
CONSTANTS
    x1 = x1
    x2 = x2
    x3 = x3
    Keyword = {1}
    Ind = {x1, x2}
    None = None
    Space = 6
    SetupRefill = TRUE
    InsertUnsearched = FALSE
    MaxSetupAccess = 3
    MaxSrch = 1
SYMMETRY IndSymmetry
CHECK_DEADLOCK FALSE
PROPERTIES AnswersExact
