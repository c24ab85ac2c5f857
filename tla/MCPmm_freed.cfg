SPECIFICATION Spec
CONSTANTS
    NSlots = 8
    Boots <- KernelBoots
    WholeApi <- NoBoots
    MaxRequest = 2
    MaxPools = 0
PROPERTIES FreedPageIsFree
CHECK_DEADLOCK FALSE
