CONSTANTS
    Threads = {t1, t2}
    Handles = {h1, h2, h3}
    Buffers = {b1}
    Texts = {e}
    Calls = {"push", "ascii"}
    RefLimit = 1
    Empty = e
    Nobody = Nobody
    NoBuf = NoBuf
SPECIFICATION Spec
SYMMETRY Symmetry
INVARIANTS CountBounded
CHECK_DEADLOCK FALSE
