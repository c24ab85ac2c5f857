SPECIFICATION LoadSpec
CONSTANTS
    PAGING_PAGE_SIZE = 3
    Files <- MCFiles
    MemoryPages = 12
    Frees <- MCFrees
INVARIANTS PagesMappedOnce PlacedExactly
PROPERTIES LoadEnds
CHECK_DEADLOCK FALSE
