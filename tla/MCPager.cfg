CONSTANTS
    WORD = 2
    RegionCnt = 4
    PageCnt <- MCPageCnt
    BasePage <- MCBasePage
    PAGE_BITS = 2
    HeadBits <- MCHeadBits
    Locations <- MCLocations
SPECIFICATION Spec
INVARIANTS
    NoFreePageBelowHint
    BitmapsMatchOwners
    OutOfPagesOnlyWhenExhausted
PROPERTIES
    ImplementsPagePool
