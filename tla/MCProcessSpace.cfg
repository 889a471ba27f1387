SPECIFICATION SpaceSpec
CONSTANTS
    Procs = {1, 2}
    F = 16
    Tables = {0, 1, 2, 3, 4, 5, 6, 7, 8, 9}
    DontCompress = {}
    NoTable = NoTable
    Harts = {0, 1}
    NoHart = NoHart
INVARIANTS AddressSpaceAsLaidOut OneGuardIsStack
