CONSTANTS
    Handles = {h1, h2}
    Buffers = {1, 2, 3}
    Word = 1
    MaxLen = 3
    CapMax = 8
    LayoutMax = 8
    UsizeMax = 17
    ChunkSize = 2
    StaticMax = 4
    Args <- EditArgs
    Indexes = {0, 1, 2, 3, 5}
    Los <- SomeLos
    His <- SomeHis
    Sizes = {0, 1, 2, 17}
    Predicates <- EditPredicates
    MaxText = 4
    Calls = {"from_str", "from_static_str", "clone", "drop", "insert", "remove", "pop", "truncate", "clear", "retain", "split_off", "make_ascii_case", "to_ascii_case", "to_case", "to_other", "write_fmt", "repeat"}
SPECIFICATION Spec
VIEW Store
SYMMETRY Symmetry
INVARIANTS BlocksCounted
PROPERTIES ImplementsApi FailureChangesNothing IdleCallsKeepSharing
CHECK_DEADLOCK FALSE
