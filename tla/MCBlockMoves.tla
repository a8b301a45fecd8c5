---------------------------- MODULE MCBlockMoves ----------------------------
EXTENDS BlockMoves

\* Texts of up to 17 bytes: more than four handles of 2 * Word bytes.
Alphabet == <<"a", "b", "c", "d", "e", "f", "g", "h", "i",
              "j", "k", "l", "m", "n", "o", "p", "q">>
=============================================================================
