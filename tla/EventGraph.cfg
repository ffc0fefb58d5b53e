SPECIFICATION FairSpec
CONSTANTS
    a1 = a1
    o1 = o1
    o2 = o2
    Arrays <- MCArrays
    Objects <- MCObjects
    Keys <- MCKeys
    Plain = plain
    Infinite = infinite
    Absent = absent
    MaxWrites = 3
INVARIANTS
    RecordedIsWhole
    RefusalJustified
PROPERTY
    WalkEnds
