SPECIFICATION Spec
CONSTANTS
    Copies = {"mitra"}
    Bid = {1, 2, 3, 4, 5, 6, 7, 8, 9, 10, 11, 12}
    Stamp <- TallStamp
    Order <- TallOrder
    Values <- TallValues
    Random <- TallRandom
    MaxSetup <- TallSetup
    Batches <- TallBatches
    Absent = Absent
    depth = 1
    Z = 4
    valueSize = 4
CHECK_DEADLOCK FALSE
INVARIANTS PositionsAgree
