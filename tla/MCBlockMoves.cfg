CONSTANTS
    Buffers = {1, 2}
    Word = 2
    MaxLen = 5
    CapMax = 19
    LayoutMax = 22
    UsizeMax = 40
    Letters <- Alphabet
    Cuts = {0, 4, 5, 7}
    Capacities = {0, 5, 6, 8, 15, 16, 19, 20}
SPECIFICATION Spec
INVARIANTS WellFormed
PROPERTIES ImplementsHeapBuffer
CHECK_DEADLOCK FALSE
