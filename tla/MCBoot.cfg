SPECIFICATION Spec
CONSTANTS
    ADDRESSES = 256
    PAGE = 2
    STACK = 6
    KERNEL_VMA_START = 64
    MAX_MEMORY_REGIONS = 3
    KernelByte = 23
    RecordsEnd = 75
    Documents <- MCDocuments
INVARIANTS
    TreeIsDocument
    MemoryNodesFound
    FreeListBound
    KernelKeptOut
PROPERTIES
    BootEnds
