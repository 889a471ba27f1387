SPECIFICATION Spec
CONSTANTS
    Procs = {p1, p2}
    F = 2
    Tables = {0, 1, 2, 3, 4, 5}
    DontCompress = {"RW keep"}
    NoTable = NoTable
    Ranges <- MCRanges
    Access = {"RW", "RW keep"}
INVARIANTS TablesMatchPool TablesNotShared
PROPERTY ImplementsAddressSpace
