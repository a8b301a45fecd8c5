CONSTANTS
    Handles = {h1, h2}
    Buffers = {1, 2, 3}
    Word = 1
    MaxLen = 3
    CapMax = 8
    LayoutMax = 8
    UsizeMax = 17
    ChunkSize = 2
    StaticMax = 4
    Args <- SpliceArgs
    Indexes = {0}
    Los <- SomeLos
    His <- SomeHis
    Sizes = {0}
    Predicates = {}
    MaxText = 5
    Calls = {"from_str", "from_static_str", "clone", "drop", "pop", "replace_range", "extend_from_within"}
SPECIFICATION Spec
VIEW Store
SYMMETRY Symmetry
PROPERTIES ImplementsApi FailureChangesNothing IdleCallsKeepSharing
CHECK_DEADLOCK FALSE
