SPECIFICATION Spec
CONSTANTS
    Copies = {"mitra", "qos", "static", "horus"}
    Bid = {1, 2, 3, 4, 5, 6, 7}
    Stamp <- CopyStamp
    Order <- CopyOrder
    Values <- CopyValues
    Random <- CopyRandom
    MaxSetup <- CopySetup
    Batches <- CopyBatches
    Absent = Absent
    depth = 1
    Z = 2
    valueSize = 4
CHECK_DEADLOCK FALSE
INVARIANTS OnePlace PositionsAgree SearchTree NothingLost FullOnlyAtCapacity
PROPERTIES RefinesMap
