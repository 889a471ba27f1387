SPECIFICATION SpecFirstPage
CONSTANTS
    PAGE = 16
    HEADER = 4
    WORD = 4
    BYTES = 1
    CellBound = 30
    Sizes <- MCSizes
INVARIANTS
    BitsMatchOwners
PROPERTIES
    ImplementsPool
