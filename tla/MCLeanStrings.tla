---------------------------- MODULE MCLeanStrings ----------------------------
EXTENDS LeanStrings

\* Handles are interchangeable.
Symmetry == Permutations(Handles)

\* Texts: empty, one byte, one two-byte character, and longer than the handle, than
\* its length field, and than the largest growable buffer.
e == <<"e1", "e2">>
GrowArgs == {<<>>, <<"a">>, e, <<"a">> \o e, <<"a">> \o e \o <<"a">> \o e}
EditArgs == {<<>>, e, <<"a">> \o e \o <<"a">>}
SpliceArgs == {<<>>, <<"a">>, <<"a">> \o e, <<"a">> \o e \o <<"a">>}

\* Range bounds of each kind, inside, at and beyond the ends.
SomeLos == {<<"unbounded">>, <<"included", 1>>, <<"included", 2>>, <<"included", 4>>,
            <<"excluded", 0>>, <<"excluded", UsizeMax>>}
SomeHis == {<<"unbounded">>, <<"excluded", 1>>, <<"excluded", 3>>, <<"excluded", 4>>,
            <<"included", 0>>, <<"included", UsizeMax>>}

\* All answers a predicate may give on a text of up to MaxText characters; it may panic
\* at the second or third one.
EditPredicates == [keep : SUBSET (1..MaxText), boom : {0, 2, 3}]
=============================================================================
