----------------------------- MODULE MCHandleBits -----------------------------
EXTENDS HandleBits

AllTargets == [width : {4, 8}, endian : {"little", "big"}]

\* Characters at both ends of each length of encoding.
Char(code, utf8) == [code |-> code, utf8 |-> utf8]
Nul == Char(0, <<0>>)
Last2 == Char(2047, <<223, 191>>)
Last4 == Char(1114111, <<244, 143, 191, 191>>)
SomeChars == {Nul, Last2, Last4,
    Char(127, <<127>>), Char(128, <<194, 128>>), Char(2048, <<224, 160, 128>>),
    Char(55295, <<237, 159, 191>>), Char(57344, <<238, 128, 128>>),
    Char(65535, <<239, 191, 191>>), Char(65536, <<240, 144, 128, 128>>)}
EditedChars == {Nul, Last2}

\* A usize from its most significant byte, its other high bytes and its lowest byte.
Usize(top, middle, low) ==
    [w \in {4, 8} |-> [i \in 1..w |-> IF i = w THEN top ELSE IF i = 1 THEN low ELSE middle]]

\* Addresses are even; their bytes may be those of any marker.
SomePointers == {Usize(0, 127, 8), Usize(208, 209, 208)}

\* Lengths around the inline size, MAX_LEN (2^24 - 2 or 2^56 - 1), MAX_LENGTH and
\* Capacity::MAX (2^31 - 1 or 2^56 - 1).
SomeLengths == {Usize(0, 0, 0), Usize(0, 0, 17), Usize(0, 255, 253), Usize(0, 255, 254),
    Usize(0, 255, 255), Usize(1, 0, 0), Usize(127, 255, 255), Usize(128, 0, 0)}

\* A bound of the run: an inline text becomes shorter only if no earlier cut has left
\* bytes behind it, so that there is one cut between two copies by from_str.
OneCut ==
    shows.kind = "inline" /\ shows'.kind = "inline" /\ Len(shows'.text) < Len(shows.text)
        => bits = NewInline(shows.text)
=============================================================================
