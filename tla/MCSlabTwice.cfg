SPECIFICATION Spec
CONSTANTS
    PAGE = 4096
    HEADER = 64
    WORD = 64
    BYTES = 8
    CellBound = 24
    Sizes <- MCHalfPage
PROPERTIES
    NeverHandedOutTwice
