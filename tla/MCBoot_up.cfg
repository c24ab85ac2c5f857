SPECIFICATION BootSpec
CONSTANTS
    Plain <- TablePlain
    Extended <- TableExtended
    Machines <- MCMachines
    Lines <- MCLines
    Ports <- MCPorts
    IDT_MAX_DESCRIPTORS = 6
    IDT_CPU_EXCEPTION_COUNT = 2
    DEADLINE = 2
    DEVICES = 2
    FUNCTIONS = 2
INVARIANTS LinesWired StopsOnlyInWindows CacheIsTheBus InStep
PROPERTIES BootEnds EngineIdleWhileSet ReadsEnd
CHECK_DEADLOCK FALSE
