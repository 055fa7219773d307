SPECIFICATION Spec
CONSTANTS
    k1 = k1
    Keyword = {1, 2}
    Length <- KeywordLength
    Garbled <- Misread
    Ind = {5}
    FirstKey = {k1}
    Local = Local
    LocalSize = 2
    Levels = 4
    Workload <- LongWorkload
    MaxUpdates = 23
INVARIANTS TypeOK OnSchedule SetsWhole KeysFollowSets CountersExact OneMergePerTree FoundOnce
PROPERTIES RefinesIndex
