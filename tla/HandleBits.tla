----------------------------- MODULE HandleBits ------------------------------
(***************************************************************************)
(* The bytes of a handle (src/repr.rs, inline_buffer.rs, last_byte.rs,     *)
(* static_buffer.rs and TextLen of heap_buffer.rs).  A handle is two words *)
(* whose last byte tells an inline text, its length included, from a       *)
(* static and from a heap buffer.  The module keeps the bytes of one       *)
(* handle through the operations that write them, for each build target.   *)
(*                                                                         *)
(* A byte is a number, a text a sequence of bytes, and a usize the         *)
(* sequence of its bytes, the least significant first, whatever order the  *)
(* target has in memory; lengths near 2^56 are thus no larger than others. *)
(***************************************************************************)
EXTENDS Integers, SequencesExt

CONSTANTS
    Targets,    \* build targets: [width |-> size_of::<usize>(), endian |-> "little" or "big"]
    Chars,      \* characters: [code |-> code point, utf8 |-> its UTF-8 bytes]
    Edited,     \* the characters of the texts that are edited (a bound of the model)
    Pointers,   \* heap and static addresses: functions from widths to usizes
    Lengths     \* lengths of heap and static texts: functions from widths to usizes

Byte == 0..255
CodePoint == {n \in Nat : n < 1114112}

\* What UTF-8 makes of a code point.
Encoded(code) ==
    LET Trail(n) == 128 + (n % 64)
    IN  CASE code < 128 -> <<code>>
          [] 128 <= code /\ code < 2048 -> <<192 + code \div 64, Trail(code)>>
          [] 2048 <= code /\ code < 65536 -> <<224 + code \div 4096, Trail(code \div 64), Trail(code)>>
          [] 65536 <= code -> <<240 + code \div 262144, Trail(code \div 4096), Trail(code \div 64), Trail(code)>>

ASSUME HandleAssumption ==
    /\ \A t \in Targets : /\ t = [width |-> t.width, endian |-> t.endian]
                          /\ t.width \in {4, 8} /\ t.endian \in {"little", "big"}
    /\ \A c \in Chars : c.code \in CodePoint /\ c.utf8 = Encoded(c.code)
    /\ Edited \subseteq Chars
    /\ \A w \in {4, 8} : /\ \A p \in Pointers : p[w] \in [1..w -> Byte]
                         /\ \A len \in Lengths : len[w] \in [1..w -> Byte]

VARIABLES
    target,     \* the build target; it never changes
    bits,       \* the bytes of the handle, in memory order
    prefix,     \* the length word in front of the heap block, where there is one
    shows       \* what the handle stands for: its kind, and its text or pointer and length

vars == <<target, bits, prefix, shows>>

Width == target.width
MaxInline == 2 * Width

-----------------------------------------------------------------------------
(* Bytes and words.                                                        *)

\* Bit k of x, from 0 on.
Powers == <<1, 2, 4, 8, 16, 32, 64, 128>>
Bit(x, k) == (x \div Powers[k + 1]) % 2

\* The byte whose bit k is f[k].
ByteOf(f) == f[0] + 2 * f[1] + 4 * f[2] + 8 * f[3] + 16 * f[4] + 32 * f[5] + 64 * f[6] + 128 * f[7]

\* Mutant: overlapping loads are added up.
Plus(x, y) == x + y

Or(x, y) == ByteOf([k \in 0..7 |-> IF Bit(x, k) + Bit(y, k) > 0 THEN 1 ELSE 0])
Xor(x, y) == ByteOf([k \in 0..7 |-> (Bit(x, k) + Bit(y, k)) % 2])

OrWord(v, w) == [i \in 1..Width |-> Or(v[i], w[i])]
XorWord(v, w) == [i \in 1..Width |-> Xor(v[i], w[i])]
Shl(w, n) == [i \in 1..Width |-> IF i > n THEN w[i - n] ELSE 0]
Shr(w, n) == [i \in 1..Width |-> IF i + n <= Width THEN w[i + n] ELSE 0]

\* A usize with the given low bytes.
Word(low) == [i \in 1..Width |-> IF i <= Len(low) THEN low[i] ELSE 0]

Exceeds(v, w) == \E i \in 1..Width : v[i] > w[i] /\ \A j \in i + 1..Width : v[j] = w[j]

\* The bytes of a usize in memory, and the usize with these bytes (from_ne_bytes);
\* to_le and from_le reorder the bytes of the number in the same way.
Native(w) == IF target.endian = "little" THEN w ELSE Reverse(w)
ToLe(w) == IF target.endian = "little" THEN w ELSE Reverse(w)

\* The last byte of a word alone, and every byte but the last.
LastAlone(b) == [i \in 1..Width |-> IF i = Width THEN b ELSE 0]
AllButLast == [i \in 1..Width |-> IF i = Width THEN 0 ELSE 255]

-----------------------------------------------------------------------------
(* The last byte.                                                          *)

LengthMask == 192       \* MASK_1100_0000
HeapMarker == 208
StaticMarker == 209

\* The values of the enum: the last byte of a full inline text (ASCII or trailing),
\* the lengths below 16, and the two markers. The others are niches of Option and Result.
LastByte == 0..191 \cup 192..207 \cup {HeapMarker, StaticMarker}

TailWord(b) == ToLe(Native(SubSeq(b, Width + 1, MaxInline)))

LastByteOf(b) == b[MaxInline]

IsHeapBuffer(b) == LastByteOf(b) = HeapMarker
IsStaticBuffer(b) == LastByteOf(b) = StaticMarker
IsInlineBuffer(b) == LastByteOf(b) < HeapMarker

-----------------------------------------------------------------------------
(* Inline buffers.                                                         *)

LengthByte(len) == Or(len, LengthMask)

\* Mutant: the length is written at every length.
SetLenAlways(b, len) == [b EXCEPT ![MaxInline] = LengthByte(len)]

\* InlineBuffer::set_len: a text that fills the handle has no length byte.
InlineSetLen(b, len) == IF len < MaxInline THEN [b EXCEPT ![MaxInline] = LengthByte(len)] ELSE b

EmptyBuffer == [i \in 1..MaxInline |-> IF i = MaxInline THEN LengthByte(0) ELSE 0]

\* The bytes s at offset at of b.
Put(b, s, at) == [i \in DOMAIN b |-> IF i \in at + 1..at + Len(s) THEN s[i - at] ELSE b[i]]

\* InlineBuffer::new with 64 bits, little endian: two words put together from loads
\* of n bytes at either end of the text, which may overlap.
NewWords(text) ==
    LET len == Len(text)
        Load(at, n) == Word(SubSeq(text, at + 1, at + n))
        lastByte == Shl(Word(<<LengthByte(len)>>), 7)
        FromEnds(n) == OrWord(Load(0, n), Shl(Load(len - n, n), len - n))
        w0 == CASE len >= 8 -> Load(0, 8)
                [] len \in 4..7 -> FromEnds(4)
                [] len \in 2..3 -> FromEnds(2)
                [] len <= 1 -> Word(text)
        w1 == CASE len = MaxInline -> Load(8, 8)
                [] len \in 9..15 -> OrWord(Shr(Load(len - 8, 8), MaxInline - len), lastByte)
                [] len <= 8 -> lastByte
    IN  Native(w0) \o Native(w1)

\* InlineBuffer::new elsewhere: the length byte, then copies of n bytes from either end.
NewCopies(text) ==
    LET len == Len(text)
        empty == [EmptyBuffer EXCEPT ![MaxInline] = LengthByte(len)]
        Ends(n) == Put(Put(empty, SubSeq(text, 1, n), 0), SubSeq(text, len - n + 1, len), len - n)
    IN  CASE len = MaxInline -> Put(empty, text, 0)
          [] len \in Width..MaxInline - 1 -> Ends(Width)
          [] len \in 4..Width - 1 -> Ends(4)
          [] len \in 2..3 -> Ends(2)
          [] len <= 1 -> Put(empty, text, 0)

NewInline(text) ==
    IF target = [width |-> 8, endian |-> "little"] THEN NewWords(text) ELSE NewCopies(text)

\* InlineBuffer::from_char: the encoding is computed, not copied.
FromCharBits(code) ==
    LET Low(n) == Or(128, (code \div <<1, 64, 4096>>[n + 1]) % 64)
        bytes == CASE code < 128 -> <<code>>
                   [] 128 <= code /\ code < 2048 -> <<Or(192, code \div 64), Low(0)>>
                   [] 2048 <= code /\ code < 65536 -> <<Or(224, code \div 4096), Low(1), Low(0)>>
                   [] 65536 <= code -> <<Or(240, code \div 262144), Low(2), Low(1), Low(0)>>
        w1 == Shl(Word(<<LengthByte(Len(bytes))>>), Width - 1)
    IN  Native(ToLe(Word(bytes))) \o Native(ToLe(w1))

-----------------------------------------------------------------------------
(* Static and heap buffers: a pointer and a length with the marker as tag. *)

Tagged(len, marker) == OrWord(ToLe(len), Native(LastAlone(marker)))
Untagged(field, marker) == Native(XorWord(field, Native(LastAlone(marker))))

\* The second field of a static or heap handle.
LenField(b) == Native(SubSeq(b, Width + 1, MaxInline))
WithField(b, field) == SubSeq(b, 1, Width) \o Native(field)

\* StaticBuffer::MAX_LENGTH bounds a static text, MAX_LEN what a heap handle stores.
\* Mutant: every length will do.
StaticFitsAny(len) == TRUE

StaticFits(len) == ~Exceeds(len, AllButLast)

HeapMaxLen == IF Width = 4 THEN [AllButLast EXCEPT ![1] = 254] ELSE AllButLast

\* TextLen::ON_THE_HEAP and TextLen::new; on 64 bits a longer text is an error.
OnTheHeap == Native([AllButLast EXCEPT ![Width] = HeapMarker])

TextLen(size) == IF Exceeds(size, HeapMaxLen) THEN OnTheHeap ELSE Tagged(size, HeapMarker)

\* Capacity::MAX bounds the text of a heap buffer.
HeapFits(size) ==
    ~Exceeds(size, IF Width = 4 THEN [i \in 1..4 |-> IF i = 4 THEN 127 ELSE 255] ELSE AllButLast)

\* HeapBuffer::len, where w is the length word of the block.
HeapBufferLen(b, w) ==
    IF Width = 4 /\ LenField(b) = OnTheHeap THEN w ELSE Untagged(LenField(b), HeapMarker)

-----------------------------------------------------------------------------
(* Reading a handle.                                                       *)

\* wrapping_sub of the mask, at most MAX_INLINE_SIZE.
InlineLen(b) ==
    IF LastByteOf(b) < LengthMask THEN MaxInline ELSE Min({LastByteOf(b) - LengthMask, MaxInline})

\* Repr::len: without branches on 64 bits, by kind on 32.
LenOf(b, w) ==
    IF Width = 8 THEN
        IF LastByteOf(b) < HeapMarker THEN Word(<<InlineLen(b)>>)
        ELSE [TailWord(b) EXCEPT ![Width] = 0]
    ELSE CASE IsHeapBuffer(b)   -> HeapBufferLen(b, w)
           [] IsStaticBuffer(b) -> Untagged(LenField(b), StaticMarker)
           [] IsInlineBuffer(b) -> Word(<<InlineLen(b)>>)

\* Repr::as_bytes: the text in the handle, or where to find it.
AsBytes(b, w) ==
    IF LastByteOf(b) >= HeapMarker THEN [at |-> Native(SubSeq(b, 1, Width)), len |-> LenOf(b, w)]
    ELSE SubSeq(b, 1, LenOf(b, w)[1])

KindOf(b) == CASE IsHeapBuffer(b)   -> "heap"
               [] IsStaticBuffer(b) -> "static"
               [] IsInlineBuffer(b) -> "inline"

-----------------------------------------------------------------------------
(* Operations.                                                             *)

Inline(text) == [kind |-> "inline", text |-> text]
Outside(kind, p, len) == [kind |-> kind, text |-> [at |-> p, len |-> len]]

\* An inline or static handle has no block, and the length word of none is kept.
NoPrefix == Word(<<>>)

Init ==
    /\ target \in Targets
    /\ bits = EmptyBuffer
    /\ shows = Inline(<<>>)
    /\ prefix = NoPrefix

Becomes(b, w, s) == bits' = b /\ prefix' = w /\ shows' = s /\ UNCHANGED target

\* Texts made of the characters in Edited; the others are only given to from_char.
IsEditable ==
    /\ shows.kind = "inline"
    /\ \A i \in 1..Len(shows.text) : \E c \in Edited : shows.text[i] \in ToSet(c.utf8)

IsBoundary(text, n) == n = Len(text) \/ (n < Len(text) /\ text[n + 1] \notin 128..191)

FromChar(c) == Becomes(FromCharBits(c.code), NoPrefix, Inline(c.utf8))

\* from_str of the handle's own text: a copy.
FromStr == IsEditable /\ Becomes(NewInline(shows.text), NoPrefix, shows)

\* push: the character is written behind the text, then set_len.
Push(c) ==
    LET len == LenOf(bits, prefix)[1]
        n == Len(c.utf8)
    IN  /\ IsEditable /\ len + n <= MaxInline
        /\ Becomes(InlineSetLen(Put(bits, c.utf8, len), len + n), NoPrefix,
                   Inline(shows.text \o c.utf8))

\* truncate and pop: set_len alone.
Truncate(n) ==
    /\ IsEditable /\ IsBoundary(shows.text, n)
    /\ Becomes(InlineSetLen(bits, n), NoPrefix, Inline(SubSeq(shows.text, 1, n)))

\* remove or replace_range of the first n bytes: the rest moves down, then set_len.
RemoveFront(n) ==
    LET len == LenOf(bits, prefix)[1]
        rest == SubSeq(bits, n + 1, len)
    IN  /\ IsEditable /\ IsBoundary(shows.text, n)
        /\ Becomes(InlineSetLen(Put(bits, rest, 0), len - n), NoPrefix,
                   Inline(SubSeq(shows.text, n + 1, len)))

\* from_static_str of a text too long to be inline.
NewStatic(p, len) ==
    /\ Exceeds(len, Word(<<MaxInline>>)) /\ StaticFits(len)
    /\ Becomes(Native(p) \o Native(Tagged(len, StaticMarker)), NoPrefix, Outside("static", p, len))

\* HeapBuffer::new: the length goes to the block if it does not fit into the handle.
NewHeap(p, len) ==
    /\ Exceeds(len, Word(<<MaxInline>>)) /\ HeapFits(len)
    /\ Becomes(Native(p) \o Native(TextLen(len)),
               IF Exceeds(len, HeapMaxLen) THEN len ELSE NoPrefix, Outside("heap", p, len))

\* set_len of a static or heap handle to a smaller length.
SetLen(len) ==
    /\ shows.kind # "inline" /\ Exceeds(shows.text.len, len)
    /\ IF shows.kind = "static"
       THEN Becomes(WithField(bits, Tagged(len, StaticMarker)), NoPrefix,
                    Outside("static", shows.text.at, len))
       ELSE Becomes(WithField(bits, TextLen(len)),
                    IF Exceeds(len, HeapMaxLen) THEN len ELSE prefix,
                    Outside("heap", shows.text.at, len))

\* clear of a shared heap handle leaves an empty inline buffer.
Clear == shows.kind = "heap" /\ Becomes(EmptyBuffer, NoPrefix, Inline(<<>>))

Next ==
    \/ FromStr \/ Clear
    \/ \E c \in Chars : FromChar(c)
    \/ \E c \in Edited : Push(c)
    \/ \E n \in 0..MaxInline : Truncate(n)
    \/ \E n \in 1..4 : RemoveFront(n)
    \/ \E p \in Pointers, len \in Lengths :
          NewStatic(p[Width], len[Width]) \/ NewHeap(p[Width], len[Width])
    \/ \E len \in Lengths : SetLen(len[Width])

Spec == Init /\ [][Next]_vars

-----------------------------------------------------------------------------
(* Properties.                                                             *)

\* Every byte of the handle and of the length word is a byte.
TypeOK ==
    /\ target \in Targets
    /\ bits \in [1..MaxInline -> Byte]
    /\ prefix \in [1..Width -> Byte]
    /\ shows.kind \in {"inline", "static", "heap"}

\* After any sequence of edits, on every target, a handle reads back as what it was
\* made to be: its kind, and its text, or its pointer and its length. So the tests
\* of the kind exclude each other, a full inline text is not mistaken for a length or
\* a marker, and the branch-free len of 64 bits agrees with the stored lengths.
Decodes == KindOf(bits) = shows.kind /\ AsBytes(bits, prefix) = shows.text

\* The last byte is always a value of the enum LastByte: the niches belong to the
\* Option and Result types that are to be as small as a handle, and any other value
\* would turn Some into None.
NicheUnused == LastByteOf(bits) \in LastByte
=============================================================================
