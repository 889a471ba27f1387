SPECIFICATION Spec
CONSTANTS
    Names = {".", "example.txt", "nested/name"}
    Procs = {1, 2}
    MAX_OPEN = 3
    page_cnt = 2
    PAGE = 2
    Loaded = 1
    Sizes = {1, 3}
    Positions = {3}
    OpenBound = 4
    OffsetBound = 5
INVARIANTS TypeOK CountsWhatMoved DescriptorsOwnedOnce PagesAccountedFor
PROPERTY CallsReturn
