SPECIFICATION Spec
CONSTANTS
    NSlots = 6
    Boots <- MCBoots
    WholeApi <- MCWholeApi
    MaxRequest = 2
    MaxPools = 2
INVARIANTS LinksAgree EveryPageInOneSection HaltsOnlyAtLimits
PROPERTIES ImplementsPageSet CallsReturn
CHECK_DEADLOCK FALSE
