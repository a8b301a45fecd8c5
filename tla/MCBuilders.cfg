CONSTANTS
    Handles = {h1, h2}
    Buffers = {1, 2, 3}
    Word = 1
    MaxLen = 3
    CapMax = 8
    LayoutMax = 8
    UsizeMax = 17
    ChunkSize = 2
    StaticMax = 4
    Args <- BuildArgs
    Indexes = {}
    Los = {}
    His = {}
    Sizes = {0, 3}
    Predicates = {}
    MaxText = 4
    Calls = {"from_str", "clone", "drop", "to_case", "write_fmt", "to_other"}
SPECIFICATION BuildSpec
VIEW BuildStore
SYMMETRY Symmetry
INVARIANTS BlocksCounted BuiltFromPieces
PROPERTIES ImplementsApi FormatReports IdleCallsKeepSharing
CHECK_DEADLOCK FALSE
