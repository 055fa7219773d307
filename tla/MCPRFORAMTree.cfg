SPECIFICATION Spec
CONSTANTS
    v1 = v1
    v2 = v2
    Bid = {1, 2, 3, 4}
    Value = {v1}
    Absent = Absent
    depth = 2
    Z = 1
    MaxBatch = 2
CHECK_DEADLOCK FALSE
INVARIANTS OnePlace NothingLost
PROPERTIES RefinesMap
