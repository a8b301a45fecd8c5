CONSTANTS
    Handles = {h1, h2}
    Buffers = {1, 2, 3}
    Word = 1
    MaxLen = 5
    CapMax = 5
    LayoutMax = 100
    UsizeMax = 255
    ChunkSize = 2
    StaticMax = 5
    Args <- GrowArgs
    Indexes = {0, 1, 3, 17}
    Los <- SomeLos
    His <- SomeHis
    Sizes = {0, 1, 3, 5, 6, 255}
    Predicates = {}
    MaxText = 6
    Calls = {"from_str", "from_static_str", "with_capacity", "clone", "clone_from", "drop", "into", "reserve", "shrink_to", "push_str", "push", "truncate", "clear"}
SPECIFICATION Spec
VIEW Store
SYMMETRY Symmetry
INVARIANTS LayoutsAgree
PROPERTIES ImplementsApi
CHECK_DEADLOCK FALSE
