SPECIFICATION Spec
CONSTANTS
    Firmwares <- MCFirmwares
    WORLD = 16
    MEGABYTE = 3
    map_pages = 1
    IOMMU_BLOCK <- MCIommu
    ROUND_OFF = 4
    MAX_PMM_HEADER_PROPORTION = 4
    PageHeaders = 7
INVARIANTS FreeIsUsable ListIsInOrder
CHECK_DEADLOCK FALSE
