SPECIFICATION Spec
CONSTANTS
    Width <- MCWidth
    VIRTUAL_OFFSET = 128
    KernelAt = 192
    HeapAt = 64
    MaxHeap = 3
    Memory <- MCMemory
    Image <- MCImage
    Ist <- MCIst
    Screen <- MCScreen
    Segments <- MCSegments
    FreeAtBoot <- MCFree
    Tasks = {"a", "b"}
    Named <- MCNamed
    Room = 11
INVARIANTS TablesAreTrees ProgramsApart AskedIsTranslated
CHECK_DEADLOCK FALSE
