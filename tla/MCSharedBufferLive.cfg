CONSTANTS
    Threads = {t1, t2}
    Handles = {h1, h2}
    Buffers = {b1, b2}
    Texts = {e}
    Calls = {"push", "convert"}
    RefLimit = 1
    Empty = e
    Nobody = Nobody
    NoBuf = NoBuf
SPECIFICATION Spec
PROPERTIES Reclaimed
CHECK_DEADLOCK FALSE
