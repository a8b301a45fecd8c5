--------------------------- MODULE MCSharedBuffer ---------------------------
EXTENDS SharedBufferInv, TLC

\* Threads, handles and buffers are interchangeable.
Symmetry == Permutations(Threads) \cup Permutations(Handles) \cup Permutations(Buffers)
=============================================================================
