CONSTANTS
    Handles = {h1, h2}
    Buffers = {1, 2, 3}
    Word = 1
    MaxLen = 3
    CapMax = 8
    LayoutMax = 8
    UsizeMax = 17
    ChunkSize = 2
    StaticMax = 4
    Args <- GrowArgs
    Indexes = {0, 1, 3, 17}
    Los <- SomeLos
    His <- SomeHis
    Sizes = {0, 1, 3, 4, 17}
    Predicates = {}
    MaxText = 6
    Calls = {"from_str", "from_static_str", "with_capacity", "clone", "clone_from", "drop", "into", "reserve", "shrink_to", "push_str", "push", "truncate", "clear"}
SPECIFICATION Spec
VIEW Store
SYMMETRY Symmetry
INVARIANTS TypeOK BlocksCounted TextsReadable LayoutsAgree
PROPERTIES ImplementsApi FailureChangesNothing ReservedRoomIsOwn OthersKeepCapacity
CHECK_DEADLOCK FALSE
