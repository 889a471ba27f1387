SPECIFICATION Spec
CONSTANTS
    LEN = 2
    Leaves = {1, 2, 3, 4, 5}
    SECTION = 3
    ITEM_SIZE = 2
    Objs = {1, 2, 3, 4, 5}
    MaxPid = 5
    LIST_IDX = 1
INVARIANTS TypeOK LivePidsFound NothingFreedIsScheduled
PROPERTY KilledIsCleanedUp
