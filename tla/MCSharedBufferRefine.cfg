CONSTANTS
    Threads = {t1, t2}
    Handles = {h1, h2}
    Buffers = {b1, b2}
    Texts = {e, x}
    Calls = {"push", "ascii", "truncate", "clear"}
    RefLimit = 1
    Empty = e
    Nobody = Nobody
    NoBuf = NoBuf
SPECIFICATION Spec
SYMMETRY Symmetry
PROPERTIES IndependentValues EditsOnlyWhenDue
CHECK_DEADLOCK FALSE
