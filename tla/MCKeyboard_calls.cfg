SPECIFICATION Spec
CONSTANTS
    Pages = {p1, p2, p3}
    None = None
    Program = Program
    Cap = 3
    Byte = 2
    MaxKeys = 5
INVARIANTS WriterOwnsPage StartedOwnsBuffer DeliveredInOrder
PROPERTIES KeyInBufferIsDelivered
CHECK_DEADLOCK FALSE
