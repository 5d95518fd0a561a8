SPECIFICATION Spec
CONSTANTS
    Procs = {p1, p2}
    Keys = {k1, k2, k3}
    Inodes = {i1, i2, i3, i4, i5}
    None = None
    Gap = Gap
    Bad = Bad
    Chunks = 2
    Budget = 2
    MaxFaults = 0
SYMMETRY Symmetry
VIEW LiveData
INVARIANTS TypeOK Transparent NoTornAtRest NoTmpAtRest StatsAgree OvershootBounded
