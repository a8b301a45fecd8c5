CONSTANTS
    Threads = {t1, t2}
    Handles = {h1, h2}
    Buffers = {b1, b2}
    Texts = {e}
    Calls = {"push", "reserve", "edit", "replace", "ascii", "clear", "truncate", "shrink", "convert"}
    RefLimit = 1
    Empty = e
    Nobody = Nobody
    NoBuf = NoBuf
SPECIFICATION Spec
SYMMETRY Symmetry
INVARIANTS TypeOK RefCount NoDangling NoLeak UniqueIsUnique NoDataRace
CHECK_DEADLOCK FALSE
