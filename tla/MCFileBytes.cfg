SPECIFICATION Spec
CONSTANTS
    DEPTH_SIZE = 1
    MAX_DEPTH = 4
    Nodes = {1, 2, 3, 4, 5, 6, 7, 8, 9, 10, 11, 12}
    Pages = {101, 102, 103, 104, 105}
    PageNums = {0, 1, 2, 3, 4, 5, 6}
    PAGE = 2
    Descs = {1, 2}
    Positions = {3, 8}
    Counts = {0, 1, 3}
    InjectSizes = {1, 2, 3}
    WriteBound = 2
INVARIANTS RootsAgree NodesMatchAllocator
PROPERTIES ImplementsByteFile
