------------------------------- MODULE CaseMap -------------------------------
(***************************************************************************)
(* The searches of src/case.rs: where a text first changes under a case    *)
(* mapping.  The bytes are tested in chunks, all bytes of a chunk at once. *)
(***************************************************************************)
EXTENDS Utf8, FiniteSetsExt

CONSTANTS ChunkSize     \* CHUNK_SIZE

ASSUME ChunkAssumption == ChunkSize \in Nat \ {0}

\* The result when there is no change.
NoChange == -1

Bytes == Ascii \cup Trailing \cup {"e1"}

ByteChanges(b, case) == AsciiByte(b, case) # b
CharChanges(ch, case) == CharCase(ch, case) # ch

\* The bytes a mapping does not change.
SteadyBytes(case) == {b \in Bytes : ~ByteChanges(b, case)}

\* prefix_len_while: whole chunks as long as all their bytes satisfy the predicate (are
\* in P), then the bytes of the first other chunk, or of the remainder, one by one.
PrefixLenWhile(t, P) ==
    LET chunks == Len(t) \div ChunkSize
        AllBytes(c) == Cardinality({i \in 1..ChunkSize : t[c * ChunkSize + i] \in P}) = ChunkSize
        full == Max({c \in 0..chunks : \A d \in 0..c - 1 : AllBytes(d)})
        len == full * ChunkSize
        end == IF full < chunks THEN len + ChunkSize ELSE Len(t)
    IN  Max({k \in len..end : \A i \in len + 1..k : t[i] \in P})

\* Mutant: the whole text is searched by bytes, as if it were ASCII.
FirstChangeByBytes(t, case) ==
    LET skipped == PrefixLenWhile(t, SteadyBytes(case))
    IN  IF skipped = Len(t) THEN NoChange ELSE skipped

\* split_at_first_change: ASCII that does not change is skipped by bytes, the rest is
\* searched by characters.
SplitAtFirstChange(t, case) ==
    LET skipped == PrefixLenWhile(t, Ascii \cap SteadyBytes(case))
        found == {i \in ToSet(Starts(t)) : i >= skipped /\ CharChanges(CharAt(t, i), case)}
    IN  IF found = {} THEN NoChange ELSE Min(found)

SplitAtFirstAsciiChange(t, case) ==
    LET mid == PrefixLenWhile(t, SteadyBytes(case))
    IN  IF mid = Len(t) THEN NoChange ELSE mid

SplitAsciiPrefix(t) == PrefixLenWhile(t, Ascii)
=============================================================================
