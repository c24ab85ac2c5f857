SPECIFICATION Spec
CONSTANTS
    PageUnits = 8
    InitPages = 2
    Sizes = {1, 3, 8}
    NodeSize = 2
    MaxEnd = 48
INVARIANTS BlocksAreApart ListCoversHeap FreeSegmentsMerged
PROPERTIES CallsReturn
CHECK_DEADLOCK FALSE
