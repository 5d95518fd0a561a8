SPECIFICATION FairSpec
CONSTANTS
    Procs = {p1, p2}
    Keys = {k1}
    Inodes = {i1, i2, i3, i4, i5}
    None = None
    Gap = Gap
    Bad = Bad
    Chunks = 2
    Budget = 1
    MaxFaults = 1
PROPERTIES LookupReturns TornEntryHeals
