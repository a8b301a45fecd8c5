-------------------------- MODULE BlockMovesProofs --------------------------
(***************************************************************************)
(* BlockMoves for every word size, every limit on lengths, capacities and  *)
(* layouts, and every text: the block stays well formed, and the bytes     *)
(* that the operations move amount to what HeapBuffer promises.            *)
(***************************************************************************)
EXTENDS BlockMoves, TLAPS

-----------------------------------------------------------------------------
(* What is in a block.                                                     *)

WordAt(b, o, v) == \A i \in 0..Word - 1 : o + i \in DOMAIN b /\ b[o + i] = WordByte(v, i)

TextAt(b, o, n) == \A i \in 0..n - 1 : o + i \in DOMAIN b /\ b[o + i] = TextByte(Letters[i + 1])

\* Offsets lo to hi - 1 are in the block b; c is what b was, outside of them; the
\* letters from lo to hi are in the block at address to, or in the text t.
Covers(b, lo, hi) == lo..hi - 1 \subseteq DOMAIN b

SameOutside(b, c, lo, hi) ==
    /\ DOMAIN c = DOMAIN b
    /\ \A x \in DOMAIN b : x \notin lo..hi - 1 => c[x] = b[x]

Written(b, to, lo, hi) == \A i \in lo..hi - 1 : b[to + i] = TextByte(Letters[i + 1])

Spells(t, lo, hi) == \A i \in lo..hi - 1 : t[i + 1] = Letters[i + 1]

\* b is a block of s bytes with the header and the first n letters that the handle q
\* expects; its capacity is cap, and it has a length word when the length is too
\* large for the handle.
IsBlock(q, b, s, n, cap) ==
    /\ n \in Nat /\ cap \in Nat
    /\ n <= cap /\ n <= Len(Letters) /\ cap <= CapMax
    /\ q.ty \in {"LeanString", "LeanStr"} /\ q.buf \in {1, 2}
    /\ q = [ty |-> q.ty, ptr |-> DataAt(q.ty, cap), len |-> TextLen(n), buf |-> q.buf]
    /\ q.ty = "LeanStr" => cap = n
    /\ s = LayoutFor(q.ty, cap)
    /\ DOMAIN b = 0..s - 1
    /\ WordAt(b, PrefixOf(cap), 1)
    /\ q.ty = "LeanString" => WordAt(b, PrefixOf(cap) + Word, cap)
    /\ n > MaxLen => WordAt(b, 0, n)
    /\ TextAt(b, DataAt(q.ty, cap), n)

\* The inductive invariant. WellFormed alone does not say that the length field is the
\* one TextLen gives, nor which text the block holds.
Laid == \E n, cap \in Nat : IsBlock(h, mem, size, n, cap)

\* The sizes and limits are numbers, and a length in a handle fits into a block.
LEMMA Sizes ==
    /\ Word \in Nat /\ MaxLen \in Nat /\ CapMax \in Nat /\ LayoutMax \in Nat
    /\ Word >= 1 /\ MaxLen >= 1 /\ MaxLen <= CapMax
    /\ Len(Letters) \in Nat
BY SizesAssumption, MovesAssumption

\* The kinds of bytes are told apart.
LEMMA Bytes ==
    /\ \A v, i : /\ DOMAIN WordByte(v, i) = {"word", "at"}
                 /\ WordByte(v, i).word = v /\ WordByte(v, i).at = i
    /\ \A c : DOMAIN TextByte(c) = {"text"} /\ TextByte(c).text = c
BY DEF WordByte, TextByte

\* A word reads as it was written.
LEMMA ReadsWord ==
    ASSUME NEW b, NEW o \in Int, NEW v, WordAt(b, o, v)
    PROVE  ReadWord(b, o) = v
<1>1. \A i \in 0..Word - 1 : b[o + i] = WordByte(v, i) /\ o + i \in DOMAIN b
  BY DEF WordAt
<1>2. 0 \in 0..Word - 1 /\ o + 0 = o
  BY Sizes
<1>3. b[o].word = v
  BY <1>1, <1>2, Bytes
<1>4. ASSUME NEW i \in 0..Word - 1 PROVE IsWordByte(b, o + i, i) /\ b[o + i].word = b[o].word
  BY <1>1, <1>3, Bytes DEF IsWordByte
<1>5. QED
  BY <1>3, <1>4 DEF ReadWord

\* A write leaves the words and texts outside its range as they were.
LEMMA WordKept ==
    ASSUME NEW b, NEW c, NEW o \in Int, NEW v, WordAt(b, o, v),
           \A x \in o..o + Word - 1 : x \in DOMAIN c /\ c[x] = b[x]
    PROVE  WordAt(c, o, v)
BY Sizes DEF WordAt

\* A text that no byte of is changed is still there.
LEMMA TextKept ==
    ASSUME NEW b, NEW c, NEW o \in Int, NEW n \in Nat, TextAt(b, o, n),
           \A x \in o..o + n - 1 : x \in DOMAIN c /\ c[x] = b[x]
    PROVE  TextAt(c, o, n)
<1>1. ASSUME NEW i \in 0..n - 1 PROVE o + i \in o..o + n - 1
  OBVIOUS
<1>2. QED
  BY <1>1 DEF TextAt

\* write_usize puts the word where it says and touches nothing else.
LEMMA WritesWord ==
    ASSUME NEW b, NEW o \in Int, NEW v, Covers(b, o, o + Word)
    PROVE  /\ WordAt(WriteWord(b, o, v), o, v)
           /\ SameOutside(b, WriteWord(b, o, v), o, o + Word)
<1>1. ASSUME NEW i \in 0..Word - 1 PROVE o + i \in o..o + Word - 1 /\ (o + i) - o = i
  BY Sizes
<1>2. DOMAIN WriteWord(b, o, v) = DOMAIN b
  <2>1. DOMAIN WriteWord(b, o, v) = DOMAIN b \cup (o..o + Word - 1)
    BY DEF WriteWord
  <2>2. (o + Word) - 1 = o + Word - 1
    BY Sizes
  <2>3. o..o + Word - 1 \subseteq DOMAIN b
    BY <2>2 DEF Covers
  <2>4. QED
    BY <2>1, <2>3
<1>3. WordAt(WriteWord(b, o, v), o, v)
  BY <1>1 DEF WriteWord, WordAt, Covers
<1>4. \A x \in DOMAIN b : x \notin o..o + Word - 1 => WriteWord(b, o, v)[x] = b[x]
  BY DEF WriteWord
<1>5. QED
  BY <1>2, <1>3, <1>4, Sizes DEF SameOutside

\* copy_nonoverlapping of a part of the text writes that part and touches nothing else.
LEMMA CopiesText ==
    ASSUME NEW b, NEW t, NEW lo \in Nat, NEW hi \in Nat, NEW to \in Int,
           Covers(b, to + lo, to + hi), Spells(t, lo, hi)
    PROVE  /\ Written(CopyIn(b, t, lo, hi, to), to, lo, hi)
           /\ SameOutside(b, CopyIn(b, t, lo, hi, to), to + lo, to + hi)
<1>1. ASSUME NEW i \in lo..hi - 1 PROVE to + i \in to + lo..to + hi - 1 /\ (to + i) - to + 1 = i + 1
  OBVIOUS
<1>2. DOMAIN CopyIn(b, t, lo, hi, to) = DOMAIN b
  <2>1. DOMAIN CopyIn(b, t, lo, hi, to) = DOMAIN b \cup (to + lo..to + hi - 1)
    BY DEF CopyIn
  <2>2. QED
    BY <2>1 DEF Covers
<1>3. Written(CopyIn(b, t, lo, hi, to), to, lo, hi)
  BY <1>1 DEF CopyIn, Covers, Spells, Written
<1>4. \A x \in DOMAIN b : x \notin to + lo..to + hi - 1 => CopyIn(b, t, lo, hi, to)[x] = b[x]
  BY DEF CopyIn
<1>5. QED
  BY <1>2, <1>3, <1>4 DEF SameOutside

\* What a handle reads from its block.
LEMMA Reads ==
    ASSUME NEW q, NEW b, NEW s, NEW n, NEW cap, IsBlock(q, b, s, n, cap)
    PROVE  /\ HeaderAt(q) = PrefixOf(cap)
           /\ CountOf(q, b) = 1
           /\ LengthOf(q, b) = n
           /\ CapacityOf(q, b) = cap
           /\ LenPrefix(q, b) = PrefixOf(cap)
           /\ AsStr(q, b) = SubSeq(Letters, 1, n)
<1>0. n \in Nat /\ cap \in Nat /\ n <= cap
  BY DEF IsBlock
<1>1. q.ptr = DataAt(q.ty, cap) /\ q.len = TextLen(n)
  BY DEF IsBlock
<1>2. HeaderAt(q) = PrefixOf(cap)
  BY <1>0, <1>1, Sizes DEF HeaderAt, DataAt, PrefixOf, HeaderOffset, IsLenHeapLayout
<1>3. PrefixOf(cap) \in Int /\ PrefixOf(cap) + Word \in Int
  BY Sizes DEF PrefixOf
<1>4. CountOf(q, b) = 1
  BY <1>2, <1>3, ReadsWord DEF CountOf, IsBlock
<1>5. LengthOf(q, b) = n
  <2>1. CASE n > MaxLen
    <3>1. q.len = OnTheHeap /\ HeaderAt(q) - Word = 0
      BY <1>0, <1>1, <1>2, <2>1, Sizes DEF TextLen, PrefixOf, IsLenHeapLayout
    <3>2. ReadWord(b, 0) = n
      BY <2>1, ReadsWord DEF IsBlock
    <3>3. QED
      BY <3>1, <3>2 DEF LengthOf
  <2>2. CASE ~(n > MaxLen)
    BY <1>0, <1>1, <2>2, Sizes DEF TextLen, OnTheHeap, LengthOf
  <2>3. QED
    BY <2>1, <2>2
<1>6. CapacityOf(q, b) = cap
  <2>1. CASE q.ty = "LeanString"
    BY <1>2, <1>3, <2>1, ReadsWord DEF CapacityOf, IsBlock
  <2>2. CASE q.ty = "LeanStr"
    BY <1>5, <2>2 DEF CapacityOf, IsBlock
  <2>3. QED
    BY <2>1, <2>2 DEF IsBlock
<1>7. LenPrefix(q, b) = PrefixOf(cap)
  BY <1>0, <1>1, <1>6, Sizes DEF LenPrefix, PrefixOf, IsLenHeapLayout, TextLen, OnTheHeap, IsBlock
<1>8. AsStr(q, b) = SubSeq(Letters, 1, n)
  <2>1. SubSeq(Letters, 1, n) = [i \in 1..n |-> Letters[i]]
    BY <1>0, MovesAssumption DEF IsBlock
  <2>2. ASSUME NEW i \in 1..n PROVE ByteAt(b, q.ptr + i - 1) = Letters[i]
    <3>1. i - 1 \in 0..n - 1 /\ q.ptr + (i - 1) = q.ptr + i - 1 /\ (i - 1) + 1 = i
      BY <1>0, <1>1, Sizes DEF DataAt, PrefixOf, HeaderOffset
    <3>2. q.ptr + i - 1 \in DOMAIN b /\ b[q.ptr + i - 1] = TextByte(Letters[i])
      BY <1>1, <3>1 DEF IsBlock, TextAt
    <3>3. QED
      BY <3>2, Bytes DEF ByteAt
  <2>3. QED
    BY <1>5, <2>1, <2>2 DEF AsStr
<1>9. QED
  BY <1>2, <1>4, <1>5, <1>6, <1>7, <1>8

-----------------------------------------------------------------------------
(* Construction.                                                           *)

\* The parts of a block lie one behind the other.
LEMMA Layouts ==
    ASSUME NEW ty \in {"LeanString", "LeanStr"}, NEW cap \in Nat
    PROVE  /\ PrefixOf(cap) = IF cap > MaxLen THEN Word ELSE 0
           /\ HeaderOffset(ty) = IF ty = "LeanString" THEN 2 * Word ELSE Word
           /\ DataAt(ty, cap) = PrefixOf(cap) + HeaderOffset(ty)
           /\ LayoutFor(ty, cap) = DataAt(ty, cap) + cap
           /\ PrefixOf(cap) \in Nat /\ HeaderOffset(ty) \in Nat
           /\ DataAt(ty, cap) \in Nat /\ LayoutFor(ty, cap) \in Nat
BY Sizes DEF PrefixOf, IsLenHeapLayout, HeaderOffset, DataAt, LayoutFor

\* A header says that there is one reference and, in a growable buffer, the capacity.
LEMMA WritesHeader ==
    ASSUME NEW b, NEW o \in Nat, NEW ty \in {"LeanString", "LeanStr"}, NEW cap,
           Covers(b, o, o + HeaderOffset(ty)),
           NEW c, c = WriteHeader(b, o, ty, cap)
    PROVE  /\ WordAt(c, o, 1)
           /\ ty = "LeanString" => WordAt(c, o + Word, cap)
           /\ SameOutside(b, c, o, o + HeaderOffset(ty))
<1>1. o..o + Word - 1 \subseteq o..o + HeaderOffset(ty) - 1
  BY Sizes DEF HeaderOffset
<1> DEFINE d == WriteWord(b, o, 1)
<1>2. WordAt(d, o, 1) /\ SameOutside(b, d, o, o + Word)
  <2>1. Covers(b, o, o + Word)
    BY <1>1, Sizes DEF Covers, HeaderOffset
  <2>2. QED
    BY <2>1, WritesWord
<1> HIDE DEF d
<1>3. CASE ty = "LeanString"
  <2>1. c = WriteWord(d, o + Word, cap)
    BY <1>3 DEF WriteHeader, d
  <2>2. /\ o + Word..o + Word + Word - 1 \subseteq o..o + HeaderOffset(ty) - 1
        /\ \A x \in o..o + Word - 1 : x \notin o + Word..o + Word + Word - 1
        /\ o + Word \in Int
    BY <1>3, Sizes DEF HeaderOffset
  <2>3. WordAt(c, o + Word, cap) /\ SameOutside(d, c, o + Word, o + Word + Word)
    <3>1. Covers(d, o + Word, o + Word + Word)
      BY <1>2, <1>3, Sizes DEF Covers, SameOutside, HeaderOffset
    <3>2. QED
      BY <2>1, <2>2, <3>1, WritesWord
  <2>4. WordAt(c, o, 1)
    <3>1. \A x \in o..o + Word - 1 : x \in DOMAIN c /\ c[x] = d[x]
      <4>1. o..o + Word - 1 \subseteq DOMAIN d
        <5>1. (o + HeaderOffset(ty)) - 1 = o + HeaderOffset(ty) - 1
          BY Sizes DEF HeaderOffset
        <5>2. QED
          BY <1>1, <1>2, <5>1 DEF SameOutside, Covers
      <4>2. QED
        BY <2>2, <2>3, <4>1, Sizes DEF SameOutside
    <3>2. QED
      BY <1>2, <3>1, WordKept
  <2>5. SameOutside(b, c, o, o + HeaderOffset(ty))
    BY <1>2, <1>3, <2>3, Sizes DEF SameOutside, HeaderOffset
  <2>6. QED
    BY <2>3, <2>4, <2>5
<1>4. CASE ty = "LeanStr"
  BY <1>2, <1>4 DEF WriteHeader, HeaderOffset, d
<1>5. QED
  BY <1>3, <1>4

\* alloc returns a block of the layout's size with its count and, in a growable one, its capacity.
LEMMA Allocates ==
    ASSUME NEW ty \in {"LeanString", "LeanStr"}, NEW cap \in Nat
    PROVE  /\ DOMAIN Allocated(ty, cap) = 0..LayoutFor(ty, cap) - 1
           /\ WordAt(Allocated(ty, cap), PrefixOf(cap), 1)
           /\ ty = "LeanString" => WordAt(Allocated(ty, cap), PrefixOf(cap) + Word, cap)
<1>1. DOMAIN Alloc(LayoutFor(ty, cap)) = 0..LayoutFor(ty, cap) - 1
  BY DEF Alloc
<1>2. /\ PrefixOf(cap) \in Nat /\ HeaderOffset(ty) \in Nat
      /\ LayoutFor(ty, cap) = PrefixOf(cap) + HeaderOffset(ty) + cap
  BY Layouts
<1>3. Covers(Alloc(LayoutFor(ty, cap)), PrefixOf(cap), PrefixOf(cap) + HeaderOffset(ty))
  BY <1>1, <1>2 DEF Covers
<1>4. QED
  BY <1>1, <1>2, <1>3, WritesHeader DEF Allocated, SameOutside

\* The two copies from either end cover the text.
LEMMA CopiesWholeText ==
    ASSUME NEW b, NEW n \in Nat, n <= Len(Letters), NEW t, t = SubSeq(Letters, 1, n),
           NEW to \in Int, Covers(b, to, to + n),
           NEW c, c = CopyText(b, t, to)
    PROVE  TextAt(c, to, n) /\ SameOutside(b, c, to, to + n)
<1>1. Len(t) = n /\ \A i \in 0..n - 1 : t[i + 1] = Letters[i + 1]
  <2>1. t = [i \in 1..n |-> Letters[i]] /\ Len(t) = n
    BY MovesAssumption
  <2>2. QED
    BY <2>1
<1>2. PICK k \in Nat : /\ k <= n /\ n <= 2 * k
                       /\ \/ k = n /\ c = CopyIn(b, t, 0, k, to)
                          \/ c = CopyIn(CopyIn(b, t, 0, k, to), t, n - k, n, to)
  <2> DEFINE N == 2 * Word
  <2>0. N \in Nat
    BY Sizes
  <2> HIDE DEF N
  <2>1. CASE n \notin N..4 * N
    <3>1. c = CopyIn(b, t, 0, n, to)
      <4>1. ~(n \in 2 * N..4 * N)
        BY <2>0, <2>1
      <4>2. QED
        BY <1>1, <2>1, <4>1 DEF CopyText, N
    <3>2. QED
      BY <3>1
  <2>2. CASE n \in N..4 * N /\ n \in 2 * N..4 * N
    <3>1. c = CopyIn(CopyIn(b, t, 0, 2 * N, to), t, n - 2 * N, n, to)
      BY <1>1, <2>2 DEF CopyText, N
    <3>2. 2 * N \in Nat /\ 2 * N <= n /\ n <= 2 * (2 * N)
      BY <2>0, <2>2
    <3>3. QED
      BY <3>1, <3>2
  <2>3. CASE n \in N..4 * N /\ n \notin 2 * N..4 * N
    <3>1. c = CopyIn(CopyIn(b, t, 0, N, to), t, n - N, n, to)
      BY <1>1, <2>3 DEF CopyText, N
    <3>2. N <= n /\ n <= 2 * N
      BY <2>0, <2>3
    <3>3. QED
      BY <2>0, <3>1, <3>2
  <2>4. QED
    BY <2>1, <2>2, <2>3
<1> DEFINE d == CopyIn(b, t, 0, k, to)
<1>3. Written(d, to, 0, k) /\ SameOutside(b, d, to, to + k)
  <2>1. Covers(b, to + 0, to + k)
    BY <1>2 DEF Covers
  <2>2. Spells(t, 0, k)
    BY <1>1, <1>2 DEF Spells
  <2>3. to + 0 = to
    OBVIOUS
  <2>4. QED
    BY <2>1, <2>2, <2>3, CopiesText
<1>4. CASE k = n /\ c = CopyIn(b, t, 0, k, to)
  <2>1. \A i \in 0..n - 1 : to + i \in to..to + n - 1
    OBVIOUS
  <2>2. QED
    BY <1>3, <1>4, <2>1 DEF TextAt, Covers, SameOutside, Written
<1>5. CASE c = CopyIn(CopyIn(b, t, 0, k, to), t, n - k, n, to)
  <2>1. c = CopyIn(d, t, n - k, n, to)
    BY <1>5
  <2> HIDE DEF d
  <2>2. Written(c, to, n - k, n) /\ SameOutside(d, c, to + (n - k), to + n)
    <3>1. n - k \in Nat
      BY <1>2
    <3>2. Covers(d, to + (n - k), to + n)
      BY <1>2, <1>3, <3>1 DEF Covers, SameOutside
    <3>3. Spells(t, n - k, n)
      BY <1>1, <3>1 DEF Spells
    <3>4. QED
      BY <2>1, <3>1, <3>2, <3>3, CopiesText
  <2>3. ASSUME NEW i \in 0..n - 1 PROVE to + i \in DOMAIN c /\ c[to + i] = TextByte(Letters[i + 1])
    <3>1. to + i \in DOMAIN d
      BY <1>3 DEF Covers, SameOutside
    <3>2. CASE i \in n - k..n - 1
      BY <2>2, <3>1, <3>2 DEF SameOutside, Written
    <3>3. CASE i \notin n - k..n - 1
      <4>1. i \in 0..k - 1 /\ to + i \notin to + (n - k)..to + n - 1
        BY <1>2, <3>3
      <4>2. QED
        BY <1>3, <2>2, <3>1, <4>1 DEF SameOutside, Written
    <3>4. QED
      BY <3>2, <3>3
  <2>4. ASSUME NEW x \in DOMAIN b, x \notin to..to + n - 1 PROVE c[x] = b[x]
    <3>1. x \notin to + (n - k)..to + n - 1 /\ x \notin to..to + k - 1
      BY <1>2, <2>4
    <3>2. QED
      BY <1>3, <2>2, <3>1 DEF SameOutside
  <2>5. QED
    BY <1>3, <2>2, <2>3, <2>4 DEF TextAt, SameOutside
<1>6. QED
  BY <1>2, <1>4, <1>5

\* What lies outside the range of a write is still there after it.
LEMMA WordOutside ==
    ASSUME NEW b, NEW c, NEW o \in Int, NEW v, NEW lo \in Int, NEW hi \in Int,
           WordAt(b, o, v), SameOutside(b, c, lo, hi), o + Word <= lo \/ hi <= o
    PROVE  WordAt(c, o, v)
<1>1. ASSUME NEW i \in 0..Word - 1 PROVE o + i \notin lo..hi - 1
  BY Sizes
<1>2. QED
  BY <1>1 DEF WordAt, SameOutside

\* A text beside the bytes that are changed is still there.
LEMMA TextOutside ==
    ASSUME NEW b, NEW c, NEW o \in Int, NEW n \in Nat, NEW lo \in Int, NEW hi \in Int,
           TextAt(b, o, n), SameOutside(b, c, lo, hi), o + n <= lo \/ hi <= o
    PROVE  TextAt(c, o, n)
<1>1. ASSUME NEW i \in 0..n - 1 PROVE o + i \notin lo..hi - 1
  OBVIOUS
<1>2. QED
  BY <1>1 DEF TextAt, SameOutside

\* set_len writes the length word, where there is one, and nothing else.
LEMMA SetsLen ==
    ASSUME NEW q, NEW b, NEW n \in Nat, NEW cap \in Nat, n <= cap,
           HeaderAt(q) = PrefixOf(cap), Covers(b, 0, PrefixOf(cap)),
           NEW c, c = SetLen(q, b, n)
    PROVE  /\ n > MaxLen => WordAt(c, 0, n)
           /\ SameOutside(b, c, 0, PrefixOf(cap))
<1>1. CASE n > MaxLen
  <2>1. PrefixOf(cap) = Word /\ HeaderAt(q) - Word = 0 /\ 0 + Word = Word
    BY <1>1, Sizes DEF PrefixOf, IsLenHeapLayout
  <2>2. c = WriteWord(b, 0, n) /\ Covers(b, 0, 0 + Word)
    BY <1>1, <2>1 DEF SetLen
  <2>3. WordAt(c, 0, n) /\ SameOutside(b, c, 0, 0 + Word)
    BY <2>2, WritesWord
  <2>4. QED
    BY <2>1, <2>3
<1>2. CASE ~(n > MaxLen)
  BY <1>2 DEF SetLen, SameOutside
<1>3. QED
  BY <1>1, <1>2

\* The handle of a fresh block.
LEMMA FreshHandle ==
    ASSUME NEW ty \in {"LeanString", "LeanStr"}, NEW cap \in Nat, NEW n, NEW a, NEW q,
           q = Fresh(ty, cap, n, a)
    PROVE  /\ q.ty = ty /\ q.ptr = DataAt(ty, cap) /\ q.len = TextLen(n) /\ q.buf = a
           /\ q = [ty |-> q.ty, ptr |-> DataAt(q.ty, cap), len |-> TextLen(n), buf |-> q.buf]
           /\ HeaderAt(q) = PrefixOf(cap)
<1>1. q.ty = ty /\ q.ptr = DataAt(ty, cap) /\ q.len = TextLen(n) /\ q.buf = a
  BY DEF Fresh
<1>2. HeaderAt(q) = PrefixOf(cap)
  BY <1>1, Layouts DEF HeaderAt
<1>3. QED
  BY <1>1, <1>2 DEF Fresh

\* A block as allocated, in which the length word and the text are then written in
\* either order, is the block of its handle.
LEMMA FreshIsBlock ==
    ASSUME NEW ty \in {"LeanString", "LeanStr"}, NEW n \in Nat, NEW cap \in Nat, NEW a \in {1, 2},
           n <= cap, n <= Len(Letters), cap <= CapMax, ty = "LeanStr" => cap = n,
           NEW b, NEW c,
           DOMAIN b = 0..LayoutFor(ty, cap) - 1,
           WordAt(b, PrefixOf(cap), 1), ty = "LeanString" => WordAt(b, PrefixOf(cap) + Word, cap),
           n > MaxLen => WordAt(b, 0, n),
           TextAt(c, DataAt(ty, cap), n),
           SameOutside(b, c, DataAt(ty, cap), DataAt(ty, cap) + n)
    PROVE  IsBlock(Fresh(ty, cap, n, a), c, LayoutFor(ty, cap), n, cap)
<1> DEFINE D == DataAt(ty, cap)
           p == PrefixOf(cap)
<1>1. /\ D \in Nat /\ D + n \in Int /\ p \in Int /\ p + Word \in Int /\ p + Word <= D
      /\ ty = "LeanString" => p + Word + Word <= D
      /\ 0 + Word <= D
  <2>1. /\ p \in Nat /\ D = p + HeaderOffset(ty)
        /\ HeaderOffset(ty) = IF ty = "LeanString" THEN 2 * Word ELSE Word
    BY Layouts
  <2> HIDE DEF p, D
  <2>2. QED
    BY <2>1, Sizes
<1>2. WordAt(c, p, 1)
  BY <1>1, WordOutside
<1>3. ty = "LeanString" => WordAt(c, p + Word, cap)
  BY <1>1, WordOutside
<1>4. n > MaxLen => WordAt(c, 0, n)
  BY <1>1, WordOutside
<1>5. DOMAIN c = 0..LayoutFor(ty, cap) - 1
  BY DEF SameOutside
<1>6. QED
  BY <1>2, <1>3, <1>4, <1>5, FreshHandle DEF IsBlock

\* new.
LEMMA NewIsBlock ==
    ASSUME NEW ty \in {"LeanString", "LeanStr"}, NEW n \in Nat, NEW a \in {1, 2},
           n <= Len(Letters), n <= CapMax
    PROVE  IsBlock(NewBlock(ty, SubSeq(Letters, 1, n), a).h, NewBlock(ty, SubSeq(Letters, 1, n), a).mem,
                   LayoutFor(ty, n), n, n)
<1> DEFINE t == SubSeq(Letters, 1, n)
           q == Fresh(ty, n, n, a)
           b == Allocated(ty, n)
           c == SetLen(q, b, n)
           d == CopyText(c, t, q.ptr)
<1>0. NewBlock(ty, t, a).h = q /\ NewBlock(ty, t, a).mem = d
  <2>1. Len(t) = n
    BY MovesAssumption
  <2>2. QED
    BY <2>1 DEF NewBlock
<1>1. /\ DOMAIN b = 0..LayoutFor(ty, n) - 1
      /\ WordAt(b, PrefixOf(n), 1)
      /\ ty = "LeanString" => WordAt(b, PrefixOf(n) + Word, n)
  BY Allocates
<1>2. q.ptr = DataAt(ty, n) /\ HeaderAt(q) = PrefixOf(n)
  BY FreshHandle
<1>3. /\ PrefixOf(n) \in Nat /\ DataAt(ty, n) \in Nat /\ PrefixOf(n) <= DataAt(ty, n)
      /\ LayoutFor(ty, n) = DataAt(ty, n) + n
  <2>1. /\ PrefixOf(n) \in Nat /\ HeaderOffset(ty) \in Nat
        /\ DataAt(ty, n) = PrefixOf(n) + HeaderOffset(ty)
        /\ LayoutFor(ty, n) = DataAt(ty, n) + n
    BY Layouts
  <2>2. QED
    BY <2>1
<1> HIDE DEF b
<1>4. (n > MaxLen => WordAt(c, 0, n)) /\ SameOutside(b, c, 0, PrefixOf(n))
  <2>1. Covers(b, 0, PrefixOf(n))
    BY <1>1, <1>3 DEF Covers
  <2>2. QED
    BY <1>2, <2>1, SetsLen
<1> HIDE DEF c
<1>5. /\ WordAt(c, PrefixOf(n), 1)
      /\ ty = "LeanString" => WordAt(c, PrefixOf(n) + Word, n)
      /\ DOMAIN c = 0..LayoutFor(ty, n) - 1
  <2>1. 0 \in Int /\ PrefixOf(n) \in Int /\ PrefixOf(n) + Word \in Int
        /\ PrefixOf(n) <= PrefixOf(n) /\ PrefixOf(n) <= PrefixOf(n) + Word
    BY <1>3, Sizes
  <2>2. DOMAIN c = DOMAIN b
    BY <1>4 DEF SameOutside
  <2>3. QED
    BY <1>1, <1>4, <2>1, <2>2, WordOutside
<1>6. TextAt(d, DataAt(ty, n), n) /\ SameOutside(c, d, DataAt(ty, n), DataAt(ty, n) + n)
  <2>1. Covers(c, DataAt(ty, n), DataAt(ty, n) + n) /\ DataAt(ty, n) \in Int
    BY <1>3, <1>5 DEF Covers
  <2>2. QED
    BY <1>2, <2>1, CopiesWholeText
<1>7. IsBlock(q, d, LayoutFor(ty, n), n, n)
  <2> HIDE DEF d
  <2>1. n <= n
    OBVIOUS
  <2>2. QED
    BY <1>4, <1>5, <1>6, <2>1, FreshIsBlock
<1>8. QED
  BY <1>0, <1>7

\* from_str_with_capacity.
LEMMA WithCapacityIsBlock ==
    ASSUME NEW n \in Nat, NEW cap \in Nat, NEW a \in {1, 2},
           n <= cap, n <= Len(Letters), cap <= CapMax, NEW t, t = SubSeq(Letters, 1, n)
    PROVE  IsBlock(BlockWithCapacity(t, cap, a).h, BlockWithCapacity(t, cap, a).mem,
                   LayoutFor("LeanString", cap), n, cap)
<1> DEFINE ty == "LeanString"
           q == Fresh(ty, cap, n, a)
           b == Allocated(ty, cap)
           c == CopyIn(b, t, 0, n, q.ptr)
           d == SetLen(q, c, n)
<1>0. /\ Len(t) = n /\ \A i \in 0..n - 1 : t[i + 1] = Letters[i + 1]
      /\ BlockWithCapacity(t, cap, a).h = q /\ BlockWithCapacity(t, cap, a).mem = d
  <2>1. Len(t) = n /\ t = [i \in 1..n |-> Letters[i]]
    BY MovesAssumption
  <2>2. \A i \in 0..n - 1 : t[i + 1] = Letters[i + 1]
    BY <2>1
  <2>3. QED
    BY <2>1, <2>2 DEF BlockWithCapacity
<1>1. /\ DOMAIN b = 0..LayoutFor(ty, cap) - 1
      /\ WordAt(b, PrefixOf(cap), 1) /\ WordAt(b, PrefixOf(cap) + Word, cap)
  BY Allocates
<1>2. q.ptr = DataAt(ty, cap) /\ HeaderAt(q) = PrefixOf(cap)
  BY FreshHandle
<1>3. /\ PrefixOf(cap) \in Nat /\ DataAt(ty, cap) = PrefixOf(cap) + 2 * Word
      /\ DataAt(ty, cap) \in Nat /\ LayoutFor(ty, cap) = DataAt(ty, cap) + cap
      /\ PrefixOf(cap) \in {0, Word}
  BY Layouts, Sizes
<1> HIDE DEF b
<1>4. TextAt(c, DataAt(ty, cap), n) /\ SameOutside(b, c, DataAt(ty, cap), DataAt(ty, cap) + n)
  <2> DEFINE D == DataAt(ty, cap)
  <2>1. Covers(b, D + 0, D + n) /\ D \in Int /\ 0 \in Nat /\ D + 0 = D
    BY <1>1, <1>3 DEF Covers
  <2>2. Spells(t, 0, n)
    BY <1>0 DEF Spells
  <2>3. Written(c, D, 0, n) /\ SameOutside(b, c, D + 0, D + n)
    BY <1>2, <2>1, <2>2, CopiesText
  <2>4. \A i \in 0..n - 1 : D + i \in 0..LayoutFor(ty, cap) - 1
    BY <1>3
  <2> HIDE DEF D, c
  <2>5. TextAt(c, D, n)
    BY <1>1, <2>1, <2>3, <2>4 DEF TextAt, Written, SameOutside
  <2>6. QED
    BY <2>1, <2>3, <2>5 DEF D
<1> HIDE DEF c
<1>5. (n > MaxLen => WordAt(d, 0, n)) /\ SameOutside(c, d, 0, PrefixOf(cap))
  <2>1. Covers(c, 0, PrefixOf(cap))
    BY <1>1, <1>3, <1>4, Sizes DEF Covers, SameOutside
  <2>2. QED
    BY <1>2, <2>1, SetsLen
<1> HIDE DEF d
<1>6. WordAt(d, PrefixOf(cap), 1) /\ WordAt(d, PrefixOf(cap) + Word, cap)
  <2> DEFINE p == PrefixOf(cap)
             D == DataAt(ty, cap)
  <2>1. /\ 0 \in Int /\ p \in Int /\ p + Word \in Int /\ p <= p /\ p <= p + Word
        /\ D \in Int /\ D + n \in Int /\ p + Word <= D /\ p + Word + Word <= D
    BY <1>3, Sizes, SMTT(20)
  <2> HIDE DEF p, D
  <2>2. WordAt(c, p, 1) /\ WordAt(c, p + Word, cap)
    BY <1>1, <1>4, <2>1, WordOutside DEF p, D
  <2>3. QED
    BY <1>5, <2>1, <2>2, WordOutside DEF p
<1>7. TextAt(d, DataAt(ty, cap), n)
  <2>1. 0 \in Int /\ PrefixOf(cap) \in Int /\ DataAt(ty, cap) \in Int
        /\ PrefixOf(cap) <= DataAt(ty, cap)
    BY <1>3, Sizes
  <2>2. QED
    BY <1>4, <1>5, <2>1, TextOutside
<1>8. DOMAIN d = 0..LayoutFor(ty, cap) - 1
  BY <1>1, <1>4, <1>5 DEF SameOutside
<1>9. IsBlock(q, d, LayoutFor(ty, cap), n, cap)
  BY <1>5, <1>6, <1>7, <1>8, FreshHandle DEF IsBlock
<1>10. QED
  BY <1>0, <1>9

-----------------------------------------------------------------------------
(* Operations.                                                             *)

\* ptr::copy puts the text where it was sent, whether or not the ranges overlap.
LEMMA CopiesBytes ==
    ASSUME NEW b, NEW from \in Nat, NEW to \in Nat, NEW n \in Nat,
           TextAt(b, from, n), Covers(b, to, to + n)
    PROVE  /\ TextAt(Copy(b, from, to, n), to, n)
           /\ SameOutside(b, Copy(b, from, to, n), to, to + n)
<1> DEFINE c == Copy(b, from, to, n)
<1>1. DOMAIN c = DOMAIN b
  <2>1. DOMAIN c = DOMAIN b \cup (to..to + n - 1)
    BY DEF Copy
  <2>2. QED
    BY <2>1 DEF Covers
<1>2. ASSUME NEW i \in 0..n - 1 PROVE to + i \in DOMAIN c /\ c[to + i] = TextByte(Letters[i + 1])
  <2>1. to + i \in to..to + n - 1 /\ (to + i) - to + from = from + i
    OBVIOUS
  <2>2. to + i \in DOMAIN b
    BY <2>1 DEF Covers
  <2>3. c[to + i] = b[from + i]
    BY <2>1, <2>2 DEF Copy
  <2>4. QED
    BY <1>1, <2>2, <2>3 DEF TextAt
<1>3. \A x \in DOMAIN b : x \notin to..to + n - 1 => c[x] = b[x]
  BY DEF Copy
<1>4. QED
  BY <1>1, <1>2, <1>3 DEF TextAt, SameOutside

\* realloc keeps what lies within both sizes.
LEMMA Resizes ==
    ASSUME NEW b, NEW s \in Nat, NEW r \in Nat, DOMAIN b = 0..s - 1
    PROVE  /\ DOMAIN Resized(b, r) = 0..r - 1
           /\ \A o \in Nat, n \in Nat : TextAt(b, o, n) /\ o + n <= r => TextAt(Resized(b, r), o, n)
           /\ \A o \in Nat : \A v : WordAt(b, o, v) /\ o + Word <= r => WordAt(Resized(b, r), o, v)
<1>1. DOMAIN Resized(b, r) = 0..r - 1
  BY DEF Resized
<1>2. \A x \in 0..r - 1 : x \in DOMAIN b => Resized(b, r)[x] = b[x]
  BY DEF Resized
<1>3. ASSUME NEW o \in Nat, NEW n \in Nat, TextAt(b, o, n), o + n <= r
      PROVE  TextAt(Resized(b, r), o, n)
  <2>1. \A i \in 0..n - 1 : o + i \in 0..r - 1
    BY <1>3
  <2>2. QED
    BY <1>1, <1>2, <1>3, <2>1 DEF TextAt
<1>4. ASSUME NEW o \in Nat, NEW v, WordAt(b, o, v), o + Word <= r
      PROVE  WordAt(Resized(b, r), o, v)
  <2>1. \A i \in 0..Word - 1 : o + i \in 0..r - 1
    BY <1>4, Sizes
  <2>2. QED
    BY <1>1, <1>2, <1>4, <2>1 DEF WordAt
<1>5. QED
  BY <1>1, <1>3, <1>4

\* The end of every move: a header is written in front of the text.
LEMMA Headed ==
    ASSUME NEW ty \in {"LeanString", "LeanStr"}, NEW n \in Nat, NEW cap \in Nat, n <= cap,
           NEW b, DOMAIN b = 0..LayoutFor(ty, cap) - 1,
           TextAt(b, DataAt(ty, cap), n), n > MaxLen => WordAt(b, 0, n),
           NEW c, c = WriteHeader(b, PrefixOf(cap), ty, cap)
    PROVE  /\ DOMAIN c = 0..LayoutFor(ty, cap) - 1
           /\ WordAt(c, PrefixOf(cap), 1)
           /\ ty = "LeanString" => WordAt(c, PrefixOf(cap) + Word, cap)
           /\ n > MaxLen => WordAt(c, 0, n)
           /\ TextAt(c, DataAt(ty, cap), n)
<1> DEFINE D == DataAt(ty, cap)
           p == PrefixOf(cap)
<1>1. /\ p \in Nat /\ D \in Nat /\ D = p + HeaderOffset(ty) /\ HeaderOffset(ty) \in Nat
      /\ LayoutFor(ty, cap) = D + cap
      /\ p = IF cap > MaxLen THEN Word ELSE 0
  BY Layouts
<1>2. Covers(b, p, p + HeaderOffset(ty))
  BY <1>1 DEF Covers
<1>3. /\ WordAt(c, p, 1)
      /\ ty = "LeanString" => WordAt(c, p + Word, cap)
      /\ SameOutside(b, c, p, p + HeaderOffset(ty))
  BY <1>1, <1>2, WritesHeader
<1>4. n > MaxLen => WordAt(c, 0, n)
  <2>1. SUFFICES ASSUME n > MaxLen PROVE WordAt(c, 0, n)
    OBVIOUS
  <2>2. 0 + Word <= p /\ 0 \in Int /\ p \in Int /\ p + HeaderOffset(ty) \in Int
    BY <1>1, <2>1, Sizes
  <2>3. QED
    BY <1>3, <2>1, <2>2, WordOutside
<1>5. TextAt(c, D, n)
  <2>1. p + HeaderOffset(ty) <= D /\ D \in Int /\ p \in Int /\ p + HeaderOffset(ty) \in Int
    BY <1>1
  <2>2. QED
    BY <1>3, <2>1, TextOutside
<1>6. QED
  BY <1>3, <1>4, <1>5 DEF SameOutside

\* The length word, where there is one, is written in front of that.
LEMMA Worded ==
    ASSUME NEW ty \in {"LeanString", "LeanStr"}, NEW n \in Nat, NEW cap \in Nat, n <= cap,
           NEW b, DOMAIN b = 0..LayoutFor(ty, cap) - 1, TextAt(b, DataAt(ty, cap), n),
           NEW c, c = IF PrefixOf(cap) # 0 THEN WriteWord(b, 0, n) ELSE b
    PROVE  /\ DOMAIN c = 0..LayoutFor(ty, cap) - 1
           /\ TextAt(c, DataAt(ty, cap), n)
           /\ n > MaxLen => WordAt(c, 0, n)
<1> DEFINE D == DataAt(ty, cap)
           p == PrefixOf(cap)
<1>1. /\ p \in Nat /\ D \in Nat /\ D = p + HeaderOffset(ty) /\ HeaderOffset(ty) \in Nat
      /\ LayoutFor(ty, cap) = D + cap
      /\ p = IF cap > MaxLen THEN Word ELSE 0
  BY Layouts
<1>2. CASE cap > MaxLen
  <2>1. c = WriteWord(b, 0, n) /\ 0 + Word = p
    BY <1>1, <1>2, Sizes
  <2>2. Covers(b, 0, 0 + Word)
    BY <1>1, <2>1 DEF Covers
  <2>3. WordAt(c, 0, n) /\ SameOutside(b, c, 0, 0 + Word)
    BY <2>1, <2>2, WritesWord
  <2>4. 0 \in Int /\ 0 + Word \in Int /\ D \in Int /\ 0 + Word <= D
    BY <1>1, <2>1
  <2>5. TextAt(c, D, n)
    BY <2>3, <2>4, TextOutside
  <2>6. QED
    BY <2>3, <2>5 DEF SameOutside
<1>3. CASE ~(cap > MaxLen)
  <2>1. p = 0 /\ ~(n > MaxLen)
    BY <1>1, <1>3, Sizes
  <2>2. QED
    BY <2>1
<1>4. QED
  BY <1>2, <1>3

\* Push and Truncate: a text of m bytes in the same block.
LEMMA EditedIsBlock ==
    ASSUME NEW q, NEW b, NEW s, NEW n, NEW cap, IsBlock(q, b, s, n, cap), q.ty = "LeanString",
           NEW m \in Nat, m <= cap, m <= Len(Letters),
           NEW c, TextAt(c, DataAt("LeanString", cap), m),
           SameOutside(b, c, DataAt("LeanString", cap), DataAt("LeanString", cap) + cap)
    PROVE  IsBlock([q EXCEPT !.len = TextLen(m)], SetLen(q, c, m), s, m, cap)
<1> DEFINE ty == "LeanString"
           D == DataAt(ty, cap)
           p == PrefixOf(cap)
           d == SetLen(q, c, m)
<1>0. cap \in Nat /\ s = LayoutFor(ty, cap) /\ HeaderAt(q) = p
  BY Reads DEF IsBlock
<1>1. /\ p \in Nat /\ D \in Nat /\ D = p + 2 * Word /\ LayoutFor(ty, cap) = D + cap
  BY <1>0, Layouts
<1>2. /\ 0 \in Int /\ p \in Int /\ D \in Int /\ D + cap \in Int /\ p + Word \in Int
      /\ p <= p /\ p <= p + Word /\ p <= D /\ p + Word <= D /\ p + Word + Word <= D
  BY <1>0, <1>1, Sizes
<1>3. DOMAIN c = 0..s - 1
  BY DEF IsBlock, SameOutside
<1>4. (m > MaxLen => WordAt(d, 0, m)) /\ SameOutside(c, d, 0, p)
  <2>1. Covers(c, 0, p)
    BY <1>0, <1>1, <1>3, Sizes DEF Covers
  <2>2. QED
    BY <1>0, <2>1, SetsLen
<1>5. WordAt(b, p, 1) /\ WordAt(b, p + Word, cap)
  BY DEF IsBlock
<1> HIDE DEF d, D, p
<1>6. WordAt(c, p, 1) /\ WordAt(c, p + Word, cap)
  BY <1>2, <1>5, WordOutside DEF D
<1>7. WordAt(d, p, 1) /\ WordAt(d, p + Word, cap)
  BY <1>2, <1>4, <1>6, WordOutside
<1>8. TextAt(d, D, m)
  BY <1>2, <1>4, TextOutside DEF D
<1>9. DOMAIN d = 0..s - 1
  BY <1>3, <1>4 DEF SameOutside
<1> DEFINE r == [q EXCEPT !.len = TextLen(m)]
<1>10. r.ty = ty /\ r.buf = q.buf
       /\ r = [ty |-> r.ty, ptr |-> DataAt(r.ty, cap), len |-> TextLen(m), buf |-> r.buf]
  BY DEF IsBlock
<1> HIDE DEF r
<1>11. IsBlock(r, d, s, m, cap)
  BY <1>0, <1>4, <1>7, <1>8, <1>9, <1>10 DEF IsBlock, D, p
<1>12. QED
  BY <1>11 DEF r, d

\* push within the capacity makes the text one byte longer, in the same block.
LEMMA PushStep ==
    ASSUME NEW n, NEW cap, IsBlock(h, mem, size, n, cap), Push
    PROVE  /\ h.ty = "LeanString" /\ n + 1 <= cap
           /\ IsBlock(h', mem', size', n + 1, cap)
           /\ h'.ty = h.ty /\ h'.buf = h.buf
<1> DEFINE D == DataAt("LeanString", cap)
           c == CopyIn(mem, Letters, n, n + 1, D)
<1>0. n \in Nat /\ cap \in Nat /\ LengthOf(h, mem) = n /\ CapacityOf(h, mem) = cap
  BY Reads DEF IsBlock
<1>1. /\ h.ty = "LeanString" /\ n < cap /\ n < Len(Letters)
      /\ size' = size
      /\ h' = [h EXCEPT !.len = TextLen(n + 1)]
      /\ mem' = SetLen(h, CopyIn(mem, Letters, n, n + 1, h.ptr), n + 1)
  BY <1>0 DEF Push, Becomes
<1>2. /\ n + 1 \in Nat /\ n + 1 <= cap /\ n + 1 <= Len(Letters) /\ D \in Nat
      /\ h.ptr = D /\ DOMAIN mem = 0..D + cap - 1 /\ TextAt(mem, D, n)
  <2>1. D \in Nat /\ LayoutFor("LeanString", cap) = D + cap
    BY <1>0, Layouts
  <2>2. h.ptr = D /\ DOMAIN mem = 0..LayoutFor("LeanString", cap) - 1 /\ TextAt(mem, D, n)
    BY <1>1 DEF IsBlock
  <2> HIDE DEF D
  <2>3. QED
    BY <1>0, <1>1, <2>1, <2>2, Sizes
<1> HIDE DEF D
<1>3. Written(c, D, n, n + 1) /\ SameOutside(mem, c, D + n, D + (n + 1))
  <2>1. Covers(mem, D + n, D + (n + 1))
    BY <1>0, <1>1, <1>2 DEF Covers
  <2>2. Spells(Letters, n, n + 1)
    BY DEF Spells
  <2>3. D \in Int
    BY <1>2
  <2>4. QED
    BY <1>0, <1>2, <2>1, <2>2, <2>3, CopiesText
<1> HIDE DEF c
<1>4. TextAt(c, D, n + 1)
  <2>1. TextAt(c, D, n)
    <3>1. D + n <= D + n /\ D + n \in Int /\ D + (n + 1) \in Int /\ D \in Int
      BY <1>0, <1>2
    <3>2. QED
      BY <1>0, <1>2, <1>3, <3>1, TextOutside
  <2>2. D + n \in DOMAIN c
    BY <1>0, <1>1, <1>2, <1>3 DEF SameOutside
  <2>3. c[D + n] = TextByte(Letters[n + 1])
    BY <1>0, <1>3 DEF Written
  <2>4. \A i \in 0..(n + 1) - 1 : i \in 0..n - 1 \/ i = n
    BY <1>0
  <2>5. QED
    BY <2>1, <2>2, <2>3, <2>4 DEF TextAt
<1>5. SameOutside(mem, c, D, D + cap)
  BY <1>0, <1>1, <1>2, <1>3 DEF SameOutside
<1>6. IsBlock(h', mem', size', n + 1, cap)
  <2>1. h' = [h EXCEPT !.len = TextLen(n + 1)] /\ mem' = SetLen(h, c, n + 1)
    BY <1>1, <1>2 DEF c
  <2>2. IsBlock([h EXCEPT !.len = TextLen(n + 1)], SetLen(h, c, n + 1), size, n + 1, cap)
    BY <1>1, <1>2, <1>4, <1>5, EditedIsBlock DEF D
  <2>3. QED
    BY <1>1, <2>1, <2>2
<1>7. h'.ty = h.ty /\ h'.buf = h.buf
  BY <1>1 DEF IsBlock
<1>8. QED
  BY <1>1, <1>2, <1>6, <1>7

\* truncate makes the text shorter, in the same block.
LEMMA TruncateStep ==
    ASSUME NEW n, NEW cap, IsBlock(h, mem, size, n, cap), NEW m \in Nat, Truncate(m)
    PROVE  /\ h.ty = "LeanString" /\ m < n
           /\ IsBlock(h', mem', size', m, cap)
           /\ h'.ty = h.ty /\ h'.buf = h.buf
<1>0. n \in Nat /\ cap \in Nat /\ n <= cap /\ n <= Len(Letters) /\ LengthOf(h, mem) = n
  BY Reads DEF IsBlock
<1>1. /\ h.ty = "LeanString" /\ m < n /\ size' = size
      /\ h' = [h EXCEPT !.len = TextLen(m)] /\ mem' = SetLen(h, mem, m)
  BY <1>0 DEF Truncate, Becomes
<1>2. TextAt(mem, DataAt("LeanString", cap), m)
  <2>1. TextAt(mem, DataAt("LeanString", cap), n)
    BY <1>1 DEF IsBlock
  <2>2. 0..m - 1 \subseteq 0..n - 1
    BY <1>0, <1>1
  <2>3. QED
    BY <2>1, <2>2 DEF TextAt
<1>3. SameOutside(mem, mem, DataAt("LeanString", cap), DataAt("LeanString", cap) + cap)
  BY DEF SameOutside
<1>4. m <= cap /\ m <= Len(Letters)
  BY <1>0, <1>1, Sizes
<1>5. IsBlock(h', mem', size', m, cap)
  BY <1>1, <1>2, <1>3, <1>4, EditedIsBlock
<1>6. QED
  BY <1>1, <1>5 DEF IsBlock

\* realloc across the bound of the length word copies the text into a block of the other kind.
LEMMA ReallocByCopyStep ==
    ASSUME NEW n, NEW cap, IsBlock(h, mem, size, n, cap), h.ty = "LeanString",
           NEW k \in Nat, n <= k, ReallocByCopy(k)
    PROVE  /\ IsLenHeapLayout(k) # IsLenHeapLayout(cap)
           /\ Fits("LeanString", k) /\ IsBlock(h', mem', size', n, k)
           /\ h'.ty = "LeanString" /\ h'.buf = IF h.buf = 1 THEN 2 ELSE 1
<1>0. n \in Nat /\ n <= Len(Letters) /\ h.buf \in {1, 2}
      /\ CapacityOf(h, mem) = cap /\ AsStr(h, mem) = SubSeq(Letters, 1, n)
  BY Reads DEF IsBlock
<1> DEFINE a == IF h.buf = 1 THEN 2 ELSE 1
           t == AsStr(h, mem)
<1>1. /\ PrefixOf(k) # PrefixOf(cap) /\ Fits("LeanString", k)
      /\ h' = BlockWithCapacity(t, k, a).h /\ mem' = BlockWithCapacity(t, k, a).mem
      /\ size' = LayoutFor("LeanString", k)
  BY <1>0 DEF ReallocByCopy, Becomes
<1>2. a \in {1, 2} /\ k <= CapMax
  BY <1>1 DEF Fits
<1>3. IsBlock(h', mem', size', n, k)
  <2> HIDE DEF a, t
  <2>1. t = SubSeq(Letters, 1, n)
    BY <1>0 DEF t
  <2>2. IsBlock(BlockWithCapacity(t, k, a).h, BlockWithCapacity(t, k, a).mem,
                LayoutFor("LeanString", k), n, k)
    BY <1>0, <1>2, <2>1, WithCapacityIsBlock
  <2>3. QED
    BY <1>1, <2>2
<1>4. h'.ty = "LeanString" /\ h'.buf = a
  BY <1>1 DEF BlockWithCapacity, Fresh
<1>5. IsLenHeapLayout(k) # IsLenHeapLayout(cap)
  BY <1>1 DEF PrefixOf
<1>6. QED
  BY <1>1, <1>3, <1>4, <1>5

\* realloc on one side of the bound keeps header, length word and text.
LEMMA ReallocInPlaceStep ==
    ASSUME NEW n, NEW cap, IsBlock(h, mem, size, n, cap), h.ty = "LeanString",
           NEW k \in Nat, n <= k, ReallocInPlace(k)
    PROVE  /\ IsLenHeapLayout(k) = IsLenHeapLayout(cap)
           /\ Fits("LeanString", k) /\ IsBlock(h', mem', size', n, k)
           /\ h'.ty = "LeanString" /\ h'.buf = h.buf
<1> DEFINE ty == "LeanString"
           N == LayoutFor(ty, k)
           b == Resized(mem, N)
           D == DataAt(ty, k)
<1>0. n \in Nat /\ cap \in Nat /\ n <= Len(Letters) /\ CapacityOf(h, mem) = cap
  BY Reads DEF IsBlock
<1>1. /\ PrefixOf(k) = PrefixOf(cap) /\ Fits(ty, k)
      /\ h' = [h EXCEPT !.ptr = D] /\ mem' = WriteHeader(b, PrefixOf(k), ty, k)
      /\ size' = N
  BY <1>0 DEF ReallocInPlace, Becomes
<1>2. /\ D = PrefixOf(cap) + 2 * Word /\ D = DataAt(ty, cap)
      /\ N = D + k /\ N \in Nat /\ D \in Nat
      /\ LayoutFor(ty, cap) \in Nat
      /\ n > MaxLen => 0 + Word <= N
  <2>1. /\ D = PrefixOf(k) + HeaderOffset(ty) /\ HeaderOffset(ty) = 2 * Word
        /\ DataAt(ty, cap) = PrefixOf(cap) + HeaderOffset(ty)
        /\ N = D + k /\ N \in Nat /\ D \in Nat /\ LayoutFor(ty, cap) \in Nat
        /\ PrefixOf(k) \in Nat
    BY <1>0, Layouts
  <2> HIDE DEF N, D
  <2>2. QED
    BY <1>1, <2>1, Sizes
<1>3. /\ DOMAIN mem = 0..LayoutFor(ty, cap) - 1
      /\ TextAt(mem, D, n) /\ (n > MaxLen => WordAt(mem, 0, n))
  BY <1>2 DEF IsBlock
<1> HIDE DEF N, D
<1>4. /\ DOMAIN b = 0..N - 1
      /\ TextAt(b, D, n) /\ (n > MaxLen => WordAt(b, 0, n))
  <2>1. D + n <= N
    BY <1>0, <1>2
  <2>2. QED
    BY <1>0, <1>2, <1>3, <2>1, Resizes, ZenonT(30)
<1> HIDE DEF b
<1>5. /\ DOMAIN mem' = 0..N - 1
      /\ WordAt(mem', PrefixOf(k), 1) /\ WordAt(mem', PrefixOf(k) + Word, k)
      /\ (n > MaxLen => WordAt(mem', 0, n))
      /\ TextAt(mem', D, n)
  BY <1>0, <1>1, <1>4, Headed DEF N, D
<1>6. /\ h'.ty = ty /\ h'.buf = h.buf
      /\ h' = [ty |-> ty, ptr |-> D, len |-> TextLen(n), buf |-> h.buf]
  BY <1>1 DEF IsBlock
<1>7. IsBlock(h', mem', size', n, k)
  <2>1. k <= CapMax /\ h.buf \in {1, 2}
    BY <1>1 DEF Fits, IsBlock
  <2>2. QED
    BY <1>0, <1>1, <1>5, <1>6, <2>1 DEF IsBlock, N, D
<1>8. IsLenHeapLayout(k) = IsLenHeapLayout(cap)
  BY <1>0, <1>1, Sizes DEF PrefixOf, IsLenHeapLayout
<1>9. QED
  BY <1>1, <1>6, <1>7, <1>8

\* Both conversions end alike: the text of b is in its place for a header of type ty.
LEMMA ConvertedIsBlock ==
    ASSUME NEW n, NEW cap, IsBlock(h, mem, size, n, cap),
           NEW ty \in {"LeanString", "LeanStr"}, NEW b,
           DOMAIN b = 0..LayoutFor(ty, n) - 1, TextAt(b, DataAt(ty, n), n)
    PROVE  /\ IsBlock(Converted(ty, b, DataAt(ty, n), n).h, Converted(ty, b, DataAt(ty, n), n).mem,
                      LayoutFor(ty, n), n, n)
           /\ Converted(ty, b, DataAt(ty, n), n).h.ty = ty
           /\ Converted(ty, b, DataAt(ty, n), n).h.buf = h.buf
<1>0. n \in Nat /\ n <= n /\ n <= Len(Letters) /\ n <= CapMax /\ h.len = TextLen(n)
  BY Sizes DEF IsBlock
<1> DEFINE s == Converted(ty, b, DataAt(ty, n), n)
           w == IF PrefixOf(n) # 0 THEN WriteWord(b, 0, n) ELSE b
           c == WriteHeader(w, PrefixOf(n), ty, n)
<1>1. PrefixOf(n) = IF h.len = OnTheHeap THEN Word ELSE 0
  BY <1>0, Sizes DEF PrefixOf, IsLenHeapLayout, TextLen, OnTheHeap
<1>2. /\ s.mem = c
      /\ s.h = [ty |-> ty, ptr |-> DataAt(ty, n), len |-> TextLen(n), buf |-> h.buf]
  BY <1>0, <1>1 DEF Converted
<1>4. /\ DOMAIN w = 0..LayoutFor(ty, n) - 1
      /\ TextAt(w, DataAt(ty, n), n)
      /\ n > MaxLen => WordAt(w, 0, n)
  BY <1>0, Worded
<1> HIDE DEF w
<1>5. /\ DOMAIN c = 0..LayoutFor(ty, n) - 1
      /\ WordAt(c, PrefixOf(n), 1)
      /\ ty = "LeanString" => WordAt(c, PrefixOf(n) + Word, n)
      /\ n > MaxLen => WordAt(c, 0, n)
      /\ TextAt(c, DataAt(ty, n), n)
  BY <1>0, <1>4, Headed
<1> HIDE DEF c, s
<1>6. h.buf \in {1, 2} /\ s.h.ty = ty /\ s.h.buf = h.buf
  BY <1>2 DEF IsBlock
<1>7. IsBlock(s.h, s.mem, LayoutFor(ty, n), n, n)
  BY <1>0, <1>2, <1>5, <1>6 DEF IsBlock
<1>8. QED
  BY <1>6, <1>7 DEF s

\* into_exact moves the text down within the block.
LEMMA MovesDown ==
    ASSUME NEW n, NEW cap, IsBlock(h, mem, size, n, cap), h.ty = "LeanString"
    PROVE  /\ n \in Nat /\ ExactData = DataAt("LeanStr", n)
           /\ ExactData \in Nat /\ size \in Nat
           /\ LayoutFor("LeanStr", n) = ExactData + n /\ ExactData + n <= size
           /\ DOMAIN MovedDown = 0..size - 1
           /\ TextAt(MovedDown, ExactData, n)
<1> DEFINE D == DataAt("LeanString", cap)
           E == DataAt("LeanStr", n)
<1>0. /\ n \in Nat /\ cap \in Nat /\ n <= cap /\ LengthOf(h, mem) = n
      /\ h.ptr = D /\ h.len = TextLen(n)
      /\ size = LayoutFor("LeanString", cap) /\ DOMAIN mem = 0..size - 1
      /\ TextAt(mem, D, n)
  <2>1. LengthOf(h, mem) = n
    BY Reads
  <2>2. QED
    BY <2>1 DEF IsBlock
<1>1. ExactData = E
  BY <1>0, Sizes DEF ExactData, DataAt, PrefixOf, IsLenHeapLayout, TextLen, OnTheHeap
<1>2. /\ D \in Nat /\ E \in Nat /\ E <= D
      /\ LayoutFor("LeanStr", n) = E + n
      /\ size = D + cap
  BY <1>0, Sizes DEF DataAt, PrefixOf, IsLenHeapLayout, HeaderOffset, LayoutFor
<1> HIDE DEF D, E
<1>3. MovedDown = Copy(mem, D, E, n)
  BY <1>0, <1>1 DEF MovedDown
<1>4. Covers(mem, E, E + n)
  BY <1>0, <1>2 DEF Covers
<1>5. TextAt(MovedDown, E, n) /\ SameOutside(mem, MovedDown, E, E + n)
  BY <1>0, <1>2, <1>3, <1>4, CopiesBytes
<1>6. E + n <= size /\ size \in Nat
  BY <1>0, <1>2
<1>7. QED
  BY <1>0, <1>1, <1>2, <1>5, <1>6 DEF SameOutside, E

\* into_exact moves the text over the capacity word and leaves an exact block.
LEMMA IntoExactSucceedsStep ==
    ASSUME NEW n, NEW cap, IsBlock(h, mem, size, n, cap), IntoExactSucceeds
    PROVE  /\ h.ty = "LeanString" /\ LayoutFor("LeanStr", n) <= LayoutMax
           /\ IsBlock(h', mem', size', n, n)
           /\ h'.ty = "LeanStr" /\ h'.buf = h.buf
<1>0. LengthOf(h, mem) = n
  BY Reads
<1> DEFINE s == LayoutFor("LeanStr", n)
           b == Resized(MovedDown, s)
<1>1. /\ h.ty = "LeanString" /\ s <= LayoutMax /\ size' = s
      /\ h' = Converted("LeanStr", b, ExactData, n).h
      /\ mem' = Converted("LeanStr", b, ExactData, n).mem
  BY <1>0 DEF IntoExactSucceeds, Becomes
<1>2. /\ n \in Nat /\ ExactData = DataAt("LeanStr", n) /\ ExactData \in Nat /\ size \in Nat
      /\ s = ExactData + n /\ ExactData + n <= size
      /\ DOMAIN MovedDown = 0..size - 1 /\ TextAt(MovedDown, ExactData, n)
  BY <1>1, MovesDown
<1>3. DOMAIN b = 0..s - 1 /\ TextAt(b, ExactData, n)
  <2>1. s \in Nat /\ ExactData + n <= s
    BY <1>2
  <2> HIDE DEF s
  <2>2. QED
    BY <1>2, <2>1, Resizes
<1> HIDE DEF b
<1>4. QED
  BY <1>1, <1>2, <1>3, ConvertedIsBlock

\* A failed into_exact has put everything back.
LEMMA IntoExactFailsStep ==
    ASSUME NEW n, NEW cap, IsBlock(h, mem, size, n, cap), IntoExactFails
    PROVE  h.ty = "LeanString" /\ IsBlock(h', mem', size', n, cap) /\ h' = h
<1> DEFINE D == DataAt("LeanString", cap)
           p == PrefixOf(cap)
<1>0. /\ n \in Nat /\ cap \in Nat /\ n <= cap /\ LengthOf(h, mem) = n /\ CapacityOf(h, mem) = cap
  BY Reads DEF IsBlock
<1>1. h.ty = "LeanString" /\ h' = h /\ size' = size
  BY DEF IntoExactFails
<1>2. CASE UNCHANGED mem
  BY <1>1, <1>2
<1>3. CASE mem' = Restore(MovedDown)
  <2> DEFINE b == Copy(MovedDown, ExactData, D, n)
             w == IF p # 0 THEN WriteWord(b, 0, n) ELSE b
  <2>1. /\ h.ptr = D /\ D \in Nat /\ size = LayoutFor("LeanString", cap)
        /\ LayoutFor("LeanString", cap) = D + cap
    BY <1>0, <1>1, Layouts DEF IsBlock
  <2>2. mem' = WriteHeader(w, p, "LeanString", cap)
    BY <1>0, <1>3, <2>1 DEF Restore
  <2> HIDE DEF D
  <2>3. /\ ExactData \in Nat /\ DOMAIN MovedDown = 0..size - 1 /\ TextAt(MovedDown, ExactData, n)
    BY <1>1, MovesDown
  <2>4. Covers(MovedDown, D, D + n)
    BY <1>0, <2>1, <2>3 DEF Covers
  <2>5. TextAt(b, D, n) /\ DOMAIN b = 0..LayoutFor("LeanString", cap) - 1
    BY <1>0, <2>1, <2>3, <2>4, CopiesBytes DEF SameOutside
  <2> HIDE DEF b
  <2>6. /\ DOMAIN w = 0..LayoutFor("LeanString", cap) - 1
        /\ TextAt(w, D, n)
        /\ n > MaxLen => WordAt(w, 0, n)
    BY <1>0, <2>5, Worded DEF D
  <2> HIDE DEF w
  <2>7. /\ DOMAIN mem' = 0..LayoutFor("LeanString", cap) - 1
        /\ WordAt(mem', p, 1) /\ WordAt(mem', p + Word, cap)
        /\ n > MaxLen => WordAt(mem', 0, n)
        /\ TextAt(mem', D, n)
    BY <1>0, <2>2, <2>6, Headed DEF D
  <2>8. QED
    BY <1>1, <2>7 DEF IsBlock, D
<1>4. QED
  BY <1>1, <1>2, <1>3 DEF IntoExactFails

\* into_growable moves the text behind a new capacity word.
LEMMA IntoGrowableSucceedsStep ==
    ASSUME NEW n, NEW cap, IsBlock(h, mem, size, n, cap), IntoGrowableSucceeds
    PROVE  /\ h.ty = "LeanStr" /\ LayoutFor("LeanString", n) <= LayoutMax
           /\ IsBlock(h', mem', size', n, n)
           /\ h'.ty = "LeanString" /\ h'.buf = h.buf
<1> DEFINE s == LayoutFor("LeanString", n)
           D == DataAt("LeanString", n)
           E == DataAt("LeanStr", n)
           r == Resized(mem, s)
           b == Copy(r, E, D, n)
<1>0. /\ h.ty = "LeanStr" /\ n \in Nat /\ cap = n /\ LengthOf(h, mem) = n
      /\ h.len = TextLen(n) /\ size = LayoutFor("LeanStr", n)
      /\ DOMAIN mem = 0..size - 1 /\ TextAt(mem, E, n)
  <2>1. h.ty = "LeanStr" /\ LengthOf(h, mem) = n
    BY Reads DEF IntoGrowableSucceeds
  <2>2. QED
    BY <2>1 DEF IsBlock
<1>1. PrefixOf(n) = IF h.len = OnTheHeap THEN Word ELSE 0
  BY <1>0, Sizes DEF PrefixOf, IsLenHeapLayout, TextLen, OnTheHeap
<1>2. /\ s <= LayoutMax /\ size' = s
      /\ h' = Converted("LeanString", b, D, n).h
      /\ mem' = Converted("LeanString", b, D, n).mem
  BY <1>0, <1>1 DEF IntoGrowableSucceeds, Becomes, DataAt
<1>3. /\ D \in Nat /\ E \in Nat /\ E <= D /\ s = D + n /\ s \in Nat /\ size \in Nat
      /\ E + n <= s
  BY <1>0, Sizes DEF DataAt, PrefixOf, IsLenHeapLayout, HeaderOffset, LayoutFor
<1> HIDE DEF s, D, E
<1>4. DOMAIN r = 0..s - 1 /\ TextAt(r, E, n)
  BY <1>0, <1>3, Resizes
<1> HIDE DEF r
<1>5. DOMAIN b = 0..s - 1 /\ TextAt(b, D, n)
  <2>1. Covers(r, D, D + n)
    BY <1>0, <1>3, <1>4 DEF Covers
  <2>2. QED
    BY <1>0, <1>3, <1>4, <2>1, CopiesBytes DEF SameOutside
<1> HIDE DEF b
<1>6. QED
  BY <1>0, <1>2, <1>5, ConvertedIsBlock DEF s, D

-----------------------------------------------------------------------------
(* The block stays well formed.                                            *)

\* The inductive invariant implies what the run checks.
LEMMA LaidIsWellFormed == Laid => WellFormed
<1> SUFFICES ASSUME NEW n \in Nat, NEW cap \in Nat, IsBlock(h, mem, size, n, cap)
             PROVE  WellFormed
  BY DEF Laid
<1>1. /\ HeaderAt(h) = PrefixOf(cap) /\ CountOf(h, mem) = 1 /\ LengthOf(h, mem) = n
      /\ CapacityOf(h, mem) = cap /\ LenPrefix(h, mem) = PrefixOf(cap)
      /\ AsStr(h, mem) = SubSeq(Letters, 1, n)
  BY Reads
<1>2. Allocation(h, mem) = 0
  BY <1>1, Sizes DEF Allocation, PrefixOf
<1>3. ASSUME NEW i \in 1..n PROVE AsStr(h, mem)[i] # Uninit
  <2>1. i \in 1..Len(Letters) /\ SubSeq(Letters, 1, n)[i] = Letters[i]
    BY MovesAssumption DEF IsBlock
  <2>2. Letters[i] \in ToSet(Letters)
    BY <2>1, MovesAssumption DEF ToSet
  <2>3. QED
    BY <1>1, <2>1, <2>2, MovesAssumption
<1>4. QED
  BY <1>1, <1>2, <1>3 DEF WellFormed, LayoutOf, IsBlock

\* The inductive invariant holds of a new block.
LEMMA InitLaid == Init => Laid
<1> SUFFICES ASSUME Init PROVE Laid
  OBVIOUS
<1>1. PICK n \in 0..Len(Letters) :
        \/ \E ty \in {"LeanString", "LeanStr"} :
             /\ Fits(ty, n)
             /\ LET s == NewBlock(ty, SubSeq(Letters, 1, n), 1) IN
                  mem = s.mem /\ h = s.h /\ size = LayoutFor(ty, n)
        \/ \E cap \in Capacities :
             /\ n <= cap /\ Fits("LeanString", cap)
             /\ LET s == BlockWithCapacity(SubSeq(Letters, 1, n), cap, 1) IN
                  mem = s.mem /\ h = s.h /\ size = LayoutFor("LeanString", cap)
  BY DEF Init
<1>2. n \in Nat /\ n <= Len(Letters) /\ 1 \in {1, 2}
  BY Sizes
<1>3. ASSUME NEW ty \in {"LeanString", "LeanStr"}, Fits(ty, n),
             mem = NewBlock(ty, SubSeq(Letters, 1, n), 1).mem,
             h = NewBlock(ty, SubSeq(Letters, 1, n), 1).h, size = LayoutFor(ty, n)
      PROVE  Laid
  <2>1. n <= CapMax
    BY <1>3 DEF Fits
  <2>2. IsBlock(h, mem, size, n, n)
    BY <1>2, <1>3, <2>1, NewIsBlock
  <2>3. QED
    BY <1>2, <2>2 DEF Laid
<1>4. ASSUME NEW cap \in Capacities, n <= cap, Fits("LeanString", cap),
             mem = BlockWithCapacity(SubSeq(Letters, 1, n), cap, 1).mem,
             h = BlockWithCapacity(SubSeq(Letters, 1, n), cap, 1).h,
             size = LayoutFor("LeanString", cap)
      PROVE  Laid
  <2>1. cap <= CapMax /\ cap \in Nat
    BY <1>4, MovesAssumption DEF Fits
  <2>2. IsBlock(h, mem, size, n, cap)
    BY <1>2, <1>4, <2>1, WithCapacityIsBlock
  <2>3. QED
    BY <1>2, <2>1, <2>2 DEF Laid
<1>5. QED
  BY <1>1, <1>3, <1>4

\* Every operation keeps the inductive invariant.
LEMMA NextLaid == Laid /\ [Next]_vars => Laid'
<1> SUFFICES ASSUME Laid, [Next]_vars PROVE Laid'
  OBVIOUS
<1>0. PICK n \in Nat, cap \in Nat : IsBlock(h, mem, size, n, cap)
  BY DEF Laid
<1>1. ASSUME NEW m \in Nat, NEW k \in Nat, IsBlock(h', mem', size', m, k) PROVE Laid'
  BY <1>1 DEF Laid
<1>2. n + 1 \in Nat /\ LengthOf(h, mem) = n
  BY <1>0, Reads
<1>3. CASE UNCHANGED <<mem, size, h>>
  BY <1>0, <1>1, <1>3
<1>4. CASE Push
  BY <1>0, <1>1, <1>2, <1>4, PushStep
<1>5. ASSUME NEW m \in Cuts, Truncate(m) PROVE Laid'
  BY <1>0, <1>1, <1>5, TruncateStep, MovesAssumption
<1>6. ASSUME NEW k \in Capacities, Reallocate(k) PROVE Laid'
  <2>1. k \in Nat /\ h.ty = "LeanString" /\ n <= k
    BY <1>2, <1>6, MovesAssumption DEF Reallocate
  <2>2. CASE ReallocByCopy(k)
    BY <1>0, <1>1, <2>1, <2>2, ReallocByCopyStep
  <2>3. CASE ReallocInPlace(k)
    BY <1>0, <1>1, <2>1, <2>3, ReallocInPlaceStep
  <2>4. QED
    BY <1>3, <1>6, <2>2, <2>3 DEF Reallocate, Fails
<1>7. CASE IntoExactSucceeds
  BY <1>0, <1>1, <1>7, IntoExactSucceedsStep
<1>8. CASE IntoExactFails
  BY <1>0, <1>1, <1>8, IntoExactFailsStep
<1>9. CASE IntoGrowableSucceeds
  BY <1>0, <1>1, <1>9, IntoGrowableSucceedsStep
<1>10. CASE IntoGrowableFails
  BY <1>3, <1>10 DEF IntoGrowableFails, Fails
<1>11. CASE UNCHANGED vars
  BY <1>3, <1>11 DEF vars
<1>12. QED
  BY <1>4, <1>5, <1>6, <1>7, <1>8, <1>9, <1>10, <1>11 DEF Next

\* After every operation of heap_buffer.rs the block holds a prefix of Letters behind
\* exactly the header, and the length word, that the handle's type and length field
\* stand for.
THEOREM LaidInvariant == Spec => []Laid
BY InitLaid, NextLaid, PTL DEF Spec

\* The moves of heap_buffer.rs never write outside the block, and leave it with the
\* header, the length and the text its handle expects, whether the allocator succeeds
\* or not.
THEOREM BlocksStayWellFormed == Spec => []WellFormed
BY LaidInvariant, LaidIsWellFormed, PTL

-----------------------------------------------------------------------------
(* The bytes amount to what HeapBuffer promises.                           *)

\* A block of HeapBuffer, and the handle and the heap that IsBlock stands for.
Block(ty, count, sz, prefixed, len, bytes) ==
    [ty |-> ty, count |-> count, size |-> sz, prefixed |-> prefixed, len |-> len, bytes |-> bytes]

LenWord(n) == IF n > MaxLen THEN n ELSE UninitLen

HandleOf(ty, a, n) == [ty |-> ty, kind |-> "heap", buf |-> a, len |-> TextLen(n)]

BlockOf(ty, n, cap) ==
    Block(ty, 1, LayoutFor(ty, cap), cap > MaxLen, LenWord(n), Pad(Letters, n, cap))

HeapOf(ty, a, n, cap) == [x \in {a} |-> BlockOf(ty, n, cap)]

\* HeapOf with another length word.
HeapWith(ty, a, n, cap, len) ==
    [x \in {a} |-> Block(ty, 1, LayoutFor(ty, cap), cap > MaxLen, len, Pad(Letters, n, cap))]

\* Handle and Heap, of any handle and block.
HandleRec(q) == [ty |-> q.ty, kind |-> "heap", buf |-> q.buf, len |-> q.len]

HeapRec(q, b, s) ==
    [x \in {q.buf} |->
        [ty |-> q.ty, count |-> CountOf(q, b), size |-> s, prefixed |-> LenPrefix(q, b) # 0,
         len |-> IF q.len = OnTheHeap THEN LengthOf(q, b) ELSE UninitLen,
         bytes |-> Pad(AsStr(q, b), LengthOf(q, b), CapacityOf(q, b))]]

\* Laid-out bytes stand for the handle and the block that HeapBuffer has for them.
LEMMA Abstracts ==
    ASSUME NEW q, NEW b, NEW s, NEW n, NEW cap, IsBlock(q, b, s, n, cap)
    PROVE  HandleRec(q) = HandleOf(q.ty, q.buf, n) /\ HeapRec(q, b, s) = HeapOf(q.ty, q.buf, n, cap)
<1>0. n \in Nat /\ cap \in Nat /\ n <= cap /\ n <= Len(Letters)
      /\ q.len = TextLen(n) /\ s = LayoutFor(q.ty, cap)
  BY DEF IsBlock
<1>1. /\ CountOf(q, b) = 1 /\ LengthOf(q, b) = n /\ CapacityOf(q, b) = cap
      /\ LenPrefix(q, b) = PrefixOf(cap) /\ AsStr(q, b) = SubSeq(Letters, 1, n)
  BY Reads
<1>2. (PrefixOf(cap) # 0) = (cap > MaxLen)
  BY <1>0, Sizes DEF PrefixOf, IsLenHeapLayout
<1>3. (IF q.len = OnTheHeap THEN n ELSE UninitLen) = LenWord(n)
  BY <1>0, Sizes DEF LenWord, TextLen, OnTheHeap
<1>4. Pad(SubSeq(Letters, 1, n), n, cap) = Pad(Letters, n, cap)
  <2>1. SubSeq(Letters, 1, n) = [i \in 1..n |-> Letters[i]]
    BY <1>0, MovesAssumption
  <2>2. QED
    BY <1>0, <2>1 DEF Pad
<1>5. QED
  BY <1>0, <1>1, <1>2, <1>3, <1>4 DEF HandleRec, HeapRec, HandleOf, HeapOf, BlockOf, Block

\* What HeapBuffer reads from them.
LEMMA AbstractReads ==
    ASSUME NEW ty \in {"LeanString", "LeanStr"}, NEW a, NEW n \in Nat, NEW cap \in Nat,
           n <= cap, ty = "LeanStr" => cap = n, NEW r, r = HandleOf(ty, a, n),
           NEW m, m[a] = BlockOf(ty, n, cap)
    PROVE  /\ r.ty = ty /\ r.buf = a /\ r.len = TextLen(n)
           /\ HeapLen(r, m) = n /\ HeapCapacity(r, m) = cap
           /\ HeapBytes(r, m) = [i \in 1..n |-> Letters[i]]
           /\ Unshared(r, m) /\ Believes(r, m)
<1>1. r.ty = ty /\ r.buf = a /\ r.len = TextLen(n)
  BY DEF HandleOf
<1>2. /\ m[a].ty = ty /\ m[a].count = 1 /\ m[a].size = LayoutFor(ty, cap)
      /\ m[a].prefixed = (cap > MaxLen) /\ m[a].len = LenWord(n)
      /\ m[a].bytes = Pad(Letters, n, cap)
  BY DEF BlockOf, Block
<1>3. (r.len = OnTheHeap) = (n > MaxLen)
  BY <1>1, Sizes DEF TextLen, OnTheHeap
<1>4. HeapLen(r, m) = n
  BY <1>1, <1>2, <1>3, Sizes DEF HeapLen, LenWord, TextLen
<1>5. HeapCapacity(r, m) = cap
  BY <1>1, <1>2 DEF HeapCapacity, Pad
<1>6. HeapBytes(r, m) = [i \in 1..n |-> Letters[i]]
  <2>1. SubSeq(Pad(Letters, n, cap), 1, n) = [i \in 1..n |-> Letters[i]]
    BY DEF Pad
  <2>2. QED
    BY <1>1, <1>2, <1>4, <2>1 DEF HeapBytes
<1>7. Unshared(r, m)
  BY <1>1, <1>2 DEF Unshared
<1>8. Believes(r, m)
  <2>1. AllocLayout(r, m) = LayoutFor(ty, cap)
    BY <1>1, <1>4, <1>5 DEF AllocLayout
  <2>2. HasLenPrefix(r, m) = (cap > MaxLen)
    BY <1>1, <1>3, <1>5 DEF HasLenPrefix, IsLenHeapLayout
  <2>3. QED
    BY <1>1, <1>2, <2>1, <2>2 DEF Believes
<1>9. QED
  BY <1>1, <1>4, <1>5, <1>6, <1>7, <1>8

\* An outcome with the handle and the heap of the block after the step, up to a length
\* word that no handle reads, is an outcome.
LEMMA OutcomeIs ==
    ASSUME NEW S, NEW v, ret' = v,
           NEW ty, NEW a, NEW n \in Nat, NEW cap, NEW len, n > MaxLen => len = n,
           Handle' = HandleOf(ty, a, n), Heap' = HeapOf(ty, a, n, cap),
           [ret |-> v, val |-> <<>>, r |-> HandleOf(ty, a, n), m |-> HeapWith(ty, a, n, cap, len)] \in S
    PROVE  IsOutcome(S)
<1> DEFINE r == HandleOf(ty, a, n)
           m == HeapWith(ty, a, n, cap, len)
           o == [ret |-> v, val |-> <<>>, r |-> r, m |-> m]
<1>1. r.buf = a /\ (r.len = OnTheHeap) = (n > MaxLen)
  BY Sizes DEF HandleOf, TextLen, OnTheHeap
<1> HIDE DEF r
<1>2. m[a].len = len
  BY DEF HeapWith, Block
<1>3. (IF r.len = OnTheHeap THEN len ELSE UninitLen) = LenWord(n)
  BY <1>1 DEF LenWord
<1>4. \A x : [m EXCEPT ![a].len = x] = HeapWith(ty, a, n, cap, x)
  BY DEF HeapWith, Block
<1> HIDE DEF m
<1>5. Forget(o) = [ret |-> v, val |-> <<>>, r |-> r, m |-> HeapOf(ty, a, n, cap)]
  <2>1. Forget(o) = [o EXCEPT !.m = [m EXCEPT ![a].len = IF r.len = OnTheHeap THEN len ELSE UninitLen]]
    BY <1>1, <1>2 DEF Forget
  <2>2. [m EXCEPT ![a].len = IF r.len = OnTheHeap THEN len ELSE UninitLen] = HeapOf(ty, a, n, cap)
    BY <1>3, <1>4 DEF HeapOf, BlockOf, HeapWith
  <2>3. QED
    BY <2>1, <2>2
<1>6. QED
  BY <1>5 DEF IsOutcome, r, m

\* The outcomes of HeapBuffer's operations on a block that nothing else refers to.
LEMMA SetLenOutcome ==
    ASSUME NEW a, NEW n \in Nat, NEW cap \in Nat, n <= cap, NEW k \in Nat, k <= cap
    PROVE  [ret |-> "ok", val |-> <<>>, r |-> HandleOf("LeanString", a, k),
            m |-> HeapOf("LeanString", a, k, cap)]
             \in HeapSetLen(HandleOf("LeanString", a, n), HeapOf("LeanString", a, n, cap),
                            Pad(Letters, k, cap), k)
<1> DEFINE ty == "LeanString"
           r == HandleOf(ty, a, n)
           m == HeapOf(ty, a, n, cap)
           d == Pad(Letters, k, cap)
<1>1. m[a] = BlockOf(ty, n, cap)
  BY DEF HeapOf
<1>2. r.buf = a /\ HeapCapacity(r, m) = cap /\ Unshared(r, m)
  BY <1>1, AbstractReads
<1>3. Len(d) = cap /\ Pad(d, k, cap) = d
  BY DEF Pad
<1>4. [r EXCEPT !.len = TextLen(k)] = HandleOf(ty, a, k)
  BY DEF HandleOf
<1>5. [m EXCEPT ![a].bytes = d, ![a].len = LenWord(k)] = HeapOf(ty, a, k, cap)
  <2>1. [m EXCEPT ![a].bytes = d, ![a].len = LenWord(k)]
          = [[m EXCEPT ![a].bytes = d] EXCEPT ![a].len = LenWord(k)]
    OBVIOUS
  <2>2. [m EXCEPT ![a].bytes = d]
          = [x \in {a} |-> Block(ty, 1, LayoutFor(ty, cap), cap > MaxLen, LenWord(n), d)]
    BY DEF HeapOf, BlockOf, Block
  <2>3. \A c : c = [x \in {a} |-> Block(ty, 1, LayoutFor(ty, cap), cap > MaxLen, LenWord(n), d)]
               => [c EXCEPT ![a].len = LenWord(k)] = HeapOf(ty, a, k, cap)
    BY DEF HeapOf, BlockOf, Block
  <2>4. QED
    BY <2>1, <2>2, <2>3
<1> HIDE DEF r, m, d
<1>6. HeapSetLen(r, m, d, k) = Ok(HandleOf(ty, a, k), HeapOf(ty, a, k, cap))
  <2>1. HeapSetLen(r, m, d, k)
          = Ok([r EXCEPT !.len = TextLen(k)],
               [m EXCEPT ![a].bytes = d, ![a].len = LenWord(k)])
    BY <1>2, <1>3 DEF HeapSetLen, LenWord
  <2>2. QED
    BY <1>4, <1>5, <2>1
<1>7. QED
  BY <1>6 DEF Ok, Outcome, r, m, d

\* A realloc that fails and changes nothing is an outcome of HeapBuffer's realloc.
LEMMA ReallocFailsOutcome ==
    ASSUME NEW a, NEW n \in Nat, NEW cap \in Nat, n <= cap, NEW k \in Nat, n <= k
    PROVE  [ret |-> "err", val |-> <<>>, r |-> HandleOf("LeanString", a, n),
            m |-> HeapOf("LeanString", a, n, cap)]
             \in Realloc(HandleOf("LeanString", a, n), HeapOf("LeanString", a, n, cap), k)
<1> DEFINE ty == "LeanString"
           r == HandleOf(ty, a, n)
           m == HeapOf(ty, a, n, cap)
           e == [ret |-> "err", val |-> <<>>, r |-> r, m |-> m]
           text == HeapBytes(r, m)
<1>1. m[a] = BlockOf(ty, n, cap)
  BY DEF HeapOf
<1>2. /\ Unshared(r, m) /\ Believes(r, m) /\ HeapLen(r, m) = n /\ HeapCapacity(r, m) = cap
      /\ text = [i \in 1..n |-> Letters[i]]
  BY <1>1, AbstractReads
<1>3. Len(text) = n
  BY <1>2
<1> HIDE DEF r, m, text
<1>4. e \in Err(r, m)
  BY DEF Err, Outcome
<1>5. e.ret # "ok"
  OBVIOUS
<1> HIDE DEF e
<1>6. e \in NewBuffer(ty, text, k, r, m)
  <2>1. ~(Len(text) > k)
    BY <1>3
  <2>2. QED
    BY <1>4, <2>1, Zenon DEF NewBuffer
<1>7. e \in Then(NewBuffer(ty, text, k, r, m),
                 LAMBDA q, c : Then(Dealloc(r, c), LAMBDA x, j : Ok(q, j)))
  BY <1>5, <1>6 DEF Then
<1>8. e \in Realloc(r, m, k)
  <2>1. ~(HeapLen(r, m) > k)
    BY <1>2
  <2>2. QED
    BY <1>2, <1>4, <1>7, <2>1, Zenon DEF Realloc, text
<1>9. QED
  BY <1>8 DEF e, r, m

\* A realloc by copy is an outcome of HeapBuffer's realloc.
LEMMA ReallocByCopyOutcome ==
    ASSUME NEW a \in {1, 2}, NEW z \in {1, 2}, z # a,
           NEW n \in Nat, NEW cap \in Nat, n <= cap, NEW k \in Nat, n <= k,
           IsLenHeapLayout(k) # IsLenHeapLayout(cap), Fits("LeanString", k)
    PROVE  [ret |-> "ok", val |-> <<>>, r |-> HandleOf("LeanString", z, n),
            m |-> HeapOf("LeanString", z, n, k)]
             \in Realloc(HandleOf("LeanString", a, n), HeapOf("LeanString", a, n, cap), k)
<1> DEFINE ty == "LeanString"
           r == HandleOf(ty, a, n)
           m == HeapOf(ty, a, n, cap)
           text == HeapBytes(r, m)
           q == HandleOf(ty, z, n)
           c == [x \in {a} \cup {z} |-> IF x = z THEN BlockOf(ty, n, k) ELSE m[x]]
           d == HeapOf(ty, z, n, k)
<1>1. m[a] = BlockOf(ty, n, cap) /\ DOMAIN m = {a}
  BY DEF HeapOf
<1>2. /\ Unshared(r, m) /\ Believes(r, m) /\ HeapLen(r, m) = n /\ HeapCapacity(r, m) = cap
      /\ text = [i \in 1..n |-> Letters[i]]
  BY <1>1, AbstractReads
<1>3. Len(text) = n /\ Pad(text, n, k) = Pad(Letters, n, k)
  BY <1>2 DEF Pad
<1>4. Buffers \ DOMAIN m = {z} /\ Min({z}) = z /\ DOMAIN m # Buffers
  <2>1. Buffers \ DOMAIN m = {z} /\ DOMAIN m # Buffers
    BY <1>1, MovesAssumption
  <2>2. Min({z}) = z
    BY DEF Min
  <2>3. QED
    BY <2>1, <2>2
<1>5. c[a] = BlockOf(ty, n, cap) /\ DOMAIN c = {a, z} /\ c[z] = BlockOf(ty, n, k)
  BY <1>1
<1>6. r.buf = a /\ Believes(r, c)
  BY <1>5, AbstractReads
<1>7. [b \in DOMAIN c \ {a} |-> c[b]] = d
  BY <1>5 DEF HeapOf
<1>8. Ok(q, c) \subseteq NewBuffer(ty, text, k, r, m)
  <2>1. BlockOf(ty, n, k) = [ty |-> ty, count |-> 1, size |-> LayoutFor(ty, k),
                             prefixed |-> IsLenHeapLayout(k),
                             len |-> IF Len(text) > MaxLen THEN Len(text) ELSE UninitLen,
                             bytes |-> Pad(text, Len(text), k)]
    BY <1>3 DEF BlockOf, Block, LenWord, IsLenHeapLayout
  <2>2. q = [ty |-> ty, kind |-> "heap", buf |-> z, len |-> TextLen(Len(text))]
    BY <1>3 DEF HandleOf
  <2>3. ~(Len(text) > k)
    BY <1>3
  <2> HIDE DEF q, text, m, r
  <2>4. QED
    BY <1>1, <1>4, <2>1, <2>2, <2>3, Zenon DEF NewBuffer
<1> HIDE DEF r, m, text, q, c, d
<1>9. Dealloc(r, c) = Ok(r, d)
  BY <1>6, <1>7 DEF Dealloc
<1>10. Ok(q, d) \subseteq Then(Dealloc(r, c), LAMBDA x, j : Ok(q, j))
  BY <1>9 DEF Then, Ok, Outcome
<1>11. Ok(q, d) \subseteq Then(NewBuffer(ty, text, k, r, m),
                               LAMBDA y, w : Then(Dealloc(r, w), LAMBDA x, j : Ok(y, j)))
  <2>1. PICK o \in NewBuffer(ty, text, k, r, m) : o.ret = "ok" /\ o.r = q /\ o.m = c
    BY <1>8 DEF Ok, Outcome
  <2>2. QED
    BY <1>10, <2>1 DEF Then
<1>12. Ok(q, d) \subseteq Realloc(r, m, k)
  <2>1. ~(HeapLen(r, m) > k) /\ ~(k > CapMax)
    BY <1>2, Sizes DEF Fits
  <2>2. QED
    BY <1>2, <1>11, <2>1, Zenon DEF Realloc, text
<1>13. QED
  BY <1>12 DEF Ok, Outcome, q, d, r, m

\* A realloc in place is an outcome of HeapBuffer's realloc.
LEMMA ReallocInPlaceOutcome ==
    ASSUME NEW a, NEW n \in Nat, NEW cap \in Nat, n <= cap, NEW k \in Nat, n <= k,
           IsLenHeapLayout(k) = IsLenHeapLayout(cap), Fits("LeanString", k)
    PROVE  [ret |-> "ok", val |-> <<>>, r |-> HandleOf("LeanString", a, n),
            m |-> HeapOf("LeanString", a, n, k)]
             \in Realloc(HandleOf("LeanString", a, n), HeapOf("LeanString", a, n, cap), k)
<1> DEFINE ty == "LeanString"
           r == HandleOf(ty, a, n)
           m == HeapOf(ty, a, n, cap)
           was == BlockOf(ty, n, cap)
           d == HeapOf(ty, a, n, k)
<1>1. m[a] = was /\ DOMAIN m = {a}
  BY DEF HeapOf
<1>2. /\ r.buf = a /\ Unshared(r, m) /\ Believes(r, m)
      /\ HeapLen(r, m) = n /\ HeapCapacity(r, m) = cap
  BY <1>1, AbstractReads
<1>3. was.bytes = Pad(Letters, n, cap) /\ Pad(Pad(Letters, n, cap), n, k) = Pad(Letters, n, k)
  BY DEF Pad, BlockOf, Block
<1>4. [was EXCEPT !.count = 1, !.size = LayoutFor(ty, k), !.bytes = Pad(was.bytes, n, k)]
        = BlockOf(ty, n, k)
  <2>1. (cap > MaxLen) = (k > MaxLen)
    BY DEF IsLenHeapLayout
  <2>2. [was EXCEPT !.count = 1, !.size = LayoutFor(ty, k), !.bytes = Pad(was.bytes, n, k)]
          = [[[was EXCEPT !.count = 1] EXCEPT !.size = LayoutFor(ty, k)]
                EXCEPT !.bytes = Pad(was.bytes, n, k)]
    OBVIOUS
  <2>3. was = Block(ty, 1, LayoutFor(ty, cap), cap > MaxLen, LenWord(n), Pad(Letters, n, cap))
    BY DEF BlockOf
  <2>4. [was EXCEPT !.count = 1] = was
    BY <2>3 DEF Block
  <2> HIDE DEF was
  <2>5. [was EXCEPT !.size = LayoutFor(ty, k)]
          = Block(ty, 1, LayoutFor(ty, k), cap > MaxLen, LenWord(n), Pad(Letters, n, cap))
    BY <2>3 DEF Block
  <2>6. [[was EXCEPT !.size = LayoutFor(ty, k)] EXCEPT !.bytes = Pad(was.bytes, n, k)]
          = Block(ty, 1, LayoutFor(ty, k), cap > MaxLen, LenWord(n), Pad(was.bytes, n, k))
    <3>1. \A w, v : w = Block(ty, 1, LayoutFor(ty, k), cap > MaxLen, LenWord(n), Pad(Letters, n, cap))
            => [w EXCEPT !.bytes = v] = Block(ty, 1, LayoutFor(ty, k), cap > MaxLen, LenWord(n), v)
      BY DEF Block
    <3>2. QED
      BY <2>5, <3>1
  <2>7. QED
    BY <1>3, <2>1, <2>2, <2>4, <2>6 DEF BlockOf
<1>5. [m EXCEPT ![a] = BlockOf(ty, n, k)] = d
  BY DEF HeapOf
<1> HIDE DEF r, m, was, d
<1>6. Ok(r, d) \subseteq Realloc(r, m, k)
  <2>0. LayoutFor("LeanString", k) \in Nat
    BY Layouts
  <2>1. ~(HeapLen(r, m) > k) /\ ~(k > CapMax) /\ ~(LayoutFor("LeanString", k) > LayoutMax)
    BY <1>2, <2>0, Sizes DEF Fits
  <2>2. [m EXCEPT ![r.buf] = [m[r.buf] EXCEPT !.count = 1, !.size = LayoutFor(ty, k),
                                              !.bytes = Pad(m[r.buf].bytes, HeapLen(r, m), k)]] = d
    BY <1>1, <1>2, <1>4, <1>5
  <2>3. QED
    BY <1>2, <2>1, <2>2, Zenon DEF Realloc
<1>7. QED
  BY <1>6 DEF Ok, Outcome, d, r, m

\* The length word that a failed into_exact restores may be one that nobody reads.
LEMMA IntoExactFailsOutcome ==
    ASSUME NEW a, NEW n \in Nat, NEW cap \in Nat, n <= cap
    PROVE  \E len :
             /\ n > MaxLen => len = n
             /\ [ret |-> "err", val |-> <<>>, r |-> HandleOf("LeanString", a, n),
                 m |-> HeapWith("LeanString", a, n, cap, len)]
                  \in IntoExact(HandleOf("LeanString", a, n), HeapOf("LeanString", a, n, cap))
<1> DEFINE ty == "LeanString"
           r == HandleOf(ty, a, n)
           m == HeapOf(ty, a, n, cap)
           was == BlockOf(ty, n, cap)
           len == IF was.prefixed THEN n ELSE was.len
           With(l) == HeapWith(ty, a, n, cap, l)
<1>1. m[a] = was /\ DOMAIN m = {a}
  BY DEF HeapOf
<1>2. /\ r.buf = a /\ Unshared(r, m) /\ Believes(r, m) /\ HeapLen(r, m) = n
  BY <1>1, AbstractReads
<1>3. (n > MaxLen => LenWord(n) = n) /\ (n > MaxLen => len = n)
  <2>1. n > MaxLen => cap > MaxLen
    BY Sizes
  <2>2. cap > MaxLen => was.prefixed
    BY DEF BlockOf, Block
  <2>3. QED
    BY <2>1, <2>2 DEF LenWord
<1>4. m = With(LenWord(n))
  BY DEF HeapOf, BlockOf, HeapWith
<1>5. [m EXCEPT ![a] = [was EXCEPT !.count = 1, !.len = len]] = With(len)
  <2>1. [was EXCEPT !.count = 1, !.len = len]
          = Block(ty, 1, LayoutFor(ty, cap), cap > MaxLen, len, Pad(Letters, n, cap))
    <3>1. [was EXCEPT !.count = 1, !.len = len] = [[was EXCEPT !.count = 1] EXCEPT !.len = len]
      OBVIOUS
    <3>2. was = Block(ty, 1, LayoutFor(ty, cap), cap > MaxLen, LenWord(n), Pad(Letters, n, cap))
      BY DEF BlockOf
    <3> HIDE DEF was, len
    <3>3. [was EXCEPT !.count = 1] = was
      BY <3>2 DEF Block
    <3>4. [was EXCEPT !.len = len]
            = Block(ty, 1, LayoutFor(ty, cap), cap > MaxLen, len, Pad(Letters, n, cap))
      BY <3>2 DEF Block
    <3>5. QED
      BY <3>1, <3>3, <3>4
  <2>2. QED
    BY <2>1 DEF HeapOf, HeapWith
<1> HIDE DEF With, r, m
<1>6. CASE LayoutFor("LeanStr", n) > LayoutMax
  <2>1. IntoExact(r, m) = Err(r, With(LenWord(n)))
    BY <1>2, <1>4, <1>6, Zenon DEF IntoExact
  <2>2. QED
    BY <1>3, <2>1 DEF Err, Outcome, With, r, m
<1>7. CASE ~(LayoutFor("LeanStr", n) > LayoutMax)
  <2>1. [m EXCEPT ![r.buf] = [m[r.buf] EXCEPT !.count = 1,
                                  !.len = IF m[r.buf].prefixed THEN n ELSE @]] = With(len)
    BY <1>1, <1>2, <1>5
  <2> HIDE DEF len
  <2>2. Err(r, With(len)) \subseteq IntoExact(r, m)
    BY <1>2, <1>7, <2>1, Zenon DEF IntoExact
  <2>3. QED
    BY <1>3, <2>2 DEF Err, Outcome, With, r, m
<1>8. QED
  BY <1>6, <1>7

\* A successful into_exact is an outcome of HeapBuffer's.
LEMMA IntoExactOutcome ==
    ASSUME NEW a, NEW n \in Nat, NEW cap \in Nat, n <= cap, LayoutFor("LeanStr", n) <= LayoutMax
    PROVE  [ret |-> "ok", val |-> <<>>, r |-> HandleOf("LeanStr", a, n),
            m |-> HeapOf("LeanStr", a, n, n)]
             \in IntoExact(HandleOf("LeanString", a, n), HeapOf("LeanString", a, n, cap))
<1> DEFINE ty == "LeanString"
           r == HandleOf(ty, a, n)
           m == HeapOf(ty, a, n, cap)
           q == HandleOf("LeanStr", a, n)
           d == HeapOf("LeanStr", a, n, n)
           moved == [ty |-> "LeanStr", count |-> 1, size |-> LayoutFor("LeanStr", n),
                     prefixed |-> r.len = OnTheHeap,
                     len |-> IF r.len = OnTheHeap THEN n ELSE UninitLen,
                     bytes |-> HeapBytes(r, m)]
<1>1. m[a] = BlockOf(ty, n, cap) /\ DOMAIN m = {a}
  BY DEF HeapOf
<1>2. /\ r.buf = a /\ r.len = TextLen(n) /\ Unshared(r, m) /\ Believes(r, m) /\ HeapLen(r, m) = n
      /\ HeapBytes(r, m) = [i \in 1..n |-> Letters[i]]
  BY <1>1, AbstractReads
<1>3. (r.len = OnTheHeap) = (n > MaxLen)
  BY <1>2, Sizes DEF TextLen, OnTheHeap
<1>4. Pad(Letters, n, n) = HeapBytes(r, m)
  BY <1>2 DEF Pad
<1>5. moved = BlockOf("LeanStr", n, n)
  BY <1>3, <1>4 DEF BlockOf, Block, LenWord
<1>6. [m EXCEPT ![r.buf] = moved] = d /\ [r EXCEPT !.ty = "LeanStr"] = q
  <2>1. [m EXCEPT ![a] = BlockOf("LeanStr", n, n)] = d
    BY DEF HeapOf
  <2>2. [r EXCEPT !.ty = "LeanStr"] = q
    BY DEF HandleOf
  <2>3. QED
    BY <1>2, <1>5, <2>1, <2>2
<1>7. ~(LayoutFor("LeanStr", n) > LayoutMax)
  <2>1. LayoutFor("LeanStr", n) \in Nat
    BY Layouts
  <2>2. QED
    BY <2>1, Sizes
<1> HIDE DEF r, m, d, q
<1>8. Ok(q, d) \subseteq IntoExact(r, m)
  BY <1>2, <1>6, <1>7, Zenon DEF IntoExact
<1>9. QED
  BY <1>8 DEF Ok, Outcome, d, q, r, m

\* A failed and a successful into_growable are outcomes of HeapBuffer's.
LEMMA IntoGrowableOutcome ==
    ASSUME NEW a, NEW n \in Nat
    PROVE  /\ [ret |-> "err", val |-> <<>>, r |-> HandleOf("LeanStr", a, n),
               m |-> HeapOf("LeanStr", a, n, n)]
                \in IntoGrowable(HandleOf("LeanStr", a, n), HeapOf("LeanStr", a, n, n))
           /\ LayoutFor("LeanString", n) <= LayoutMax =>
                [ret |-> "ok", val |-> <<>>, r |-> HandleOf("LeanString", a, n),
                 m |-> HeapOf("LeanString", a, n, n)]
                  \in IntoGrowable(HandleOf("LeanStr", a, n), HeapOf("LeanStr", a, n, n))
<1> DEFINE ty == "LeanStr"
           r == HandleOf(ty, a, n)
           m == HeapOf(ty, a, n, n)
           q == HandleOf("LeanString", a, n)
           d == HeapOf("LeanString", a, n, n)
           was == BlockOf(ty, n, n)
<1>1. m[a] = was /\ DOMAIN m = {a}
  BY DEF HeapOf
<1>2. /\ r.buf = a /\ Unshared(r, m) /\ Believes(r, m) /\ HeapLen(r, m) = n
  BY <1>1, AbstractReads
<1>3. [was EXCEPT !.ty = "LeanString", !.count = 1, !.size = LayoutFor("LeanString", n)]
        = BlockOf("LeanString", n, n)
  <2>1. [was EXCEPT !.ty = "LeanString", !.count = 1, !.size = LayoutFor("LeanString", n)]
          = [[[was EXCEPT !.ty = "LeanString"] EXCEPT !.count = 1]
                EXCEPT !.size = LayoutFor("LeanString", n)]
    OBVIOUS
  <2>2. was = Block(ty, 1, LayoutFor(ty, n), n > MaxLen, LenWord(n), Pad(Letters, n, n))
    BY DEF BlockOf
  <2> HIDE DEF was
  <2>3. [was EXCEPT !.ty = "LeanString"]
          = Block("LeanString", 1, LayoutFor(ty, n), n > MaxLen, LenWord(n), Pad(Letters, n, n))
    BY <2>2 DEF Block
  <2>4. [[was EXCEPT !.ty = "LeanString"] EXCEPT !.count = 1]
          = Block("LeanString", 1, LayoutFor(ty, n), n > MaxLen, LenWord(n), Pad(Letters, n, n))
    BY <2>3 DEF Block
  <2>5. \A w : w = Block("LeanString", 1, LayoutFor(ty, n), n > MaxLen, LenWord(n), Pad(Letters, n, n))
            => [w EXCEPT !.size = LayoutFor("LeanString", n)] = BlockOf("LeanString", n, n)
    BY DEF BlockOf, Block
  <2>6. QED
    BY <2>1, <2>4, <2>5
<1>4. [m EXCEPT ![a] = BlockOf("LeanString", n, n)] = d
  BY DEF HeapOf
<1>5. [r EXCEPT !.ty = "LeanString"] = q
  BY DEF HandleOf
<1> HIDE DEF r, m, d, q, was
<1>6. [m EXCEPT ![r.buf] = [m[r.buf] EXCEPT !.ty = "LeanString", !.count = 1,
                                            !.size = LayoutFor("LeanString", n)]] = d
  BY <1>1, <1>2, <1>3, <1>4
<1>7. Err(r, m) \subseteq IntoGrowable(r, m)
  BY <1>2, Zenon DEF IntoGrowable
<1>8. LayoutFor("LeanString", n) <= LayoutMax => Ok(q, d) \subseteq IntoGrowable(r, m)
  <2>0. LayoutFor("LeanString", n) \in Nat
    BY Layouts
  <2>1. LayoutFor("LeanString", n) <= LayoutMax => ~(LayoutFor("LeanString", n) > LayoutMax)
    BY <2>0, Sizes
  <2>2. QED
    BY <1>2, <1>5, <1>6, <2>1, Zenon DEF IntoGrowable
<1>9. QED
  BY <1>7, <1>8 DEF Ok, Err, Outcome, d, q, r, m

\* Every step from a laid block is one of HeapBuffer's.
LEMMA StepImplements ==
    ASSUME Laid, Laid', [Next]_vars
    PROVE  [ \/ \E n \in {k \in Cuts : k < LengthOf(h, mem)} \cup {LengthOf(h, mem) + 1} :
                  IsOutcome(HeapSetLen(Handle, Heap, Pad(Letters, n, CapacityOf(h, mem)), n))
             \/ \E cap \in Capacities : IsOutcome(Realloc(Handle, Heap, cap))
             \/ h.ty = "LeanString" /\ IsOutcome(IntoExact(Handle, Heap))
             \/ h.ty = "LeanStr" /\ IsOutcome(IntoGrowable(Handle, Heap))]_vars
<1>0. PICK n \in Nat, cap \in Nat : IsBlock(h, mem, size, n, cap)
  BY DEF Laid
<1>1. /\ n <= cap /\ LengthOf(h, mem) = n /\ CapacityOf(h, mem) = cap
      /\ h.buf \in {1, 2} /\ h.ty \in {"LeanString", "LeanStr"} /\ (h.ty = "LeanStr" => cap = n)
      /\ n + 1 \in Nat
  <2>1. LengthOf(h, mem) = n /\ CapacityOf(h, mem) = cap
    BY <1>0, Reads
  <2>2. QED
    BY <1>0, <2>1 DEF IsBlock
<1>2. Handle = HandleOf(h.ty, h.buf, n) /\ Heap = HeapOf(h.ty, h.buf, n, cap)
  <2>1. Handle = HandleRec(h) /\ Heap = HeapRec(h, mem, size)
    BY DEF Handle, Heap, HandleRec, HeapRec
  <2>2. QED
    BY <1>0, <2>1, Abstracts
<1>3. ASSUME NEW ty, NEW a, NEW m \in Nat, NEW k \in Nat,
             IsBlock(h', mem', size', m, k), h'.ty = ty, h'.buf = a,
             NEW S, NEW v, ret' = v,
             [ret |-> v, val |-> <<>>, r |-> HandleOf(ty, a, m), m |-> HeapOf(ty, a, m, k)] \in S
      PROVE  IsOutcome(S)
  <2>1. Handle' = HandleOf(ty, a, m) /\ Heap' = HeapOf(ty, a, m, k)
    <3>1. Handle' = HandleRec(h') /\ Heap' = HeapRec(h', mem', size')
      BY DEF Handle, Heap, HandleRec, HeapRec
    <3>2. QED
      BY <1>3, <3>1, Abstracts
  <2>2. m > MaxLen => LenWord(m) = m
    BY DEF LenWord
  <2>3. HeapOf(ty, a, m, k) = HeapWith(ty, a, m, k, LenWord(m))
    BY DEF HeapOf, BlockOf, HeapWith
  <2>4. QED
    BY <1>3, <2>1, <2>2, <2>3, OutcomeIs
<1>4. CASE Push
  <2>1. /\ h.ty = "LeanString" /\ n + 1 <= cap /\ IsBlock(h', mem', size', n + 1, cap)
        /\ h'.ty = h.ty /\ h'.buf = h.buf /\ ret' = "ok"
    BY <1>0, <1>4, PushStep DEF Push
  <2>2. IsOutcome(HeapSetLen(Handle, Heap, Pad(Letters, n + 1, cap), n + 1))
    BY <1>1, <1>2, <1>3, <2>1, SetLenOutcome, ZenonT(30)
  <2>3. QED
    BY <1>1, <2>2
<1>5. ASSUME NEW m \in Cuts, Truncate(m)
      PROVE  \E j \in {i \in Cuts : i < n} :
               IsOutcome(HeapSetLen(Handle, Heap, Pad(Letters, j, cap), j))
  <2>1. m \in Nat
    BY MovesAssumption
  <2>2. /\ h.ty = "LeanString" /\ m < n /\ IsBlock(h', mem', size', m, cap)
        /\ h'.ty = h.ty /\ h'.buf = h.buf /\ ret' = "ok"
    BY <1>0, <1>5, <2>1, TruncateStep DEF Truncate
  <2>3. m <= cap
    BY <1>1, <2>1, <2>2
  <2>4. IsOutcome(HeapSetLen(Handle, Heap, Pad(Letters, m, cap), m))
    BY <1>1, <1>2, <1>3, <2>1, <2>2, <2>3, SetLenOutcome
  <2>5. QED
    BY <2>2, <2>4
<1>6. ASSUME NEW k \in Capacities, Reallocate(k)
      PROVE  IsOutcome(Realloc(Handle, Heap, k))
  <2>1. k \in Nat /\ h.ty = "LeanString" /\ n <= k
    BY <1>1, <1>6, MovesAssumption DEF Reallocate
  <2>2. CASE ReallocByCopy(k)
    <3>1. /\ IsLenHeapLayout(k) # IsLenHeapLayout(cap) /\ Fits("LeanString", k)
          /\ IsBlock(h', mem', size', n, k)
          /\ h'.ty = "LeanString" /\ h'.buf = (IF h.buf = 1 THEN 2 ELSE 1) /\ ret' = "ok"
      BY <1>0, <2>1, <2>2, ReallocByCopyStep DEF ReallocByCopy
    <3>2. h'.buf \in {1, 2} /\ h'.buf # h.buf
      BY <1>1, <3>1
    <3>3. [ret |-> "ok", val |-> <<>>, r |-> HandleOf("LeanString", h'.buf, n),
           m |-> HeapOf("LeanString", h'.buf, n, k)] \in Realloc(Handle, Heap, k)
      BY <1>1, <1>2, <2>1, <3>1, <3>2, ReallocByCopyOutcome
    <3>4. QED
      BY <1>3, <2>1, <3>1, <3>3
  <2>3. CASE ReallocInPlace(k)
    <3>1. /\ IsLenHeapLayout(k) = IsLenHeapLayout(cap) /\ Fits("LeanString", k)
          /\ IsBlock(h', mem', size', n, k)
          /\ h'.ty = "LeanString" /\ h'.buf = h.buf /\ ret' = "ok"
      BY <1>0, <2>1, <2>3, ReallocInPlaceStep DEF ReallocInPlace
    <3>2. [ret |-> "ok", val |-> <<>>, r |-> HandleOf("LeanString", h.buf, n),
           m |-> HeapOf("LeanString", h.buf, n, k)] \in Realloc(Handle, Heap, k)
      BY <1>1, <1>2, <2>1, <3>1, ReallocInPlaceOutcome
    <3>3. QED
      BY <1>3, <2>1, <3>1, <3>2
  <2>4. CASE Fails
    <3>1. IsBlock(h', mem', size', n, cap) /\ h' = h /\ ret' = "err"
      BY <1>0, <2>4 DEF Fails
    <3>2. [ret |-> "err", val |-> <<>>, r |-> HandleOf("LeanString", h.buf, n),
           m |-> HeapOf("LeanString", h.buf, n, cap)] \in Realloc(Handle, Heap, k)
      BY <1>1, <1>2, <2>1, ReallocFailsOutcome
    <3>3. QED
      BY <1>3, <2>1, <3>1, <3>2
  <2>5. QED
    BY <1>6, <2>2, <2>3, <2>4 DEF Reallocate
<1>7. CASE IntoExactSucceeds
  <2>1. /\ h.ty = "LeanString" /\ LayoutFor("LeanStr", n) <= LayoutMax
        /\ IsBlock(h', mem', size', n, n) /\ h'.ty = "LeanStr" /\ h'.buf = h.buf /\ ret' = "ok"
    BY <1>0, <1>7, IntoExactSucceedsStep DEF IntoExactSucceeds
  <2>2. IsOutcome(IntoExact(Handle, Heap))
    BY <1>1, <1>2, <1>3, <2>1, IntoExactOutcome
  <2>3. QED
    BY <2>1, <2>2
<1>8. CASE IntoExactFails
  <2>1. /\ h.ty = "LeanString" /\ IsBlock(h', mem', size', n, cap) /\ h' = h /\ ret' = "err"
    BY <1>0, <1>8, IntoExactFailsStep DEF IntoExactFails
  <2>2. PICK len :
          /\ n > MaxLen => len = n
          /\ [ret |-> "err", val |-> <<>>, r |-> HandleOf("LeanString", h.buf, n),
              m |-> HeapWith("LeanString", h.buf, n, cap, len)]
               \in IntoExact(Handle, Heap)
    BY <1>1, <1>2, <2>1, IntoExactFailsOutcome
  <2>3. Handle' = HandleOf("LeanString", h.buf, n) /\ Heap' = HeapOf("LeanString", h.buf, n, cap)
    <3>1. Handle' = HandleRec(h') /\ Heap' = HeapRec(h', mem', size')
      BY DEF Handle, Heap, HandleRec, HeapRec
    <3>2. QED
      BY <2>1, <3>1, Abstracts
  <2>4. IsOutcome(IntoExact(Handle, Heap))
    BY <2>1, <2>2, <2>3, OutcomeIs
  <2>5. QED
    BY <2>1, <2>4
<1>9. CASE IntoGrowableSucceeds
  <2>1. /\ h.ty = "LeanStr" /\ LayoutFor("LeanString", n) <= LayoutMax
        /\ IsBlock(h', mem', size', n, n) /\ h'.ty = "LeanString" /\ h'.buf = h.buf /\ ret' = "ok"
    BY <1>0, <1>9, IntoGrowableSucceedsStep DEF IntoGrowableSucceeds
  <2>2. IsOutcome(IntoGrowable(Handle, Heap))
    BY <1>1, <1>2, <1>3, <2>1, IntoGrowableOutcome
  <2>3. QED
    BY <2>1, <2>2
<1>10. CASE IntoGrowableFails
  <2>1. h.ty = "LeanStr" /\ IsBlock(h', mem', size', n, n) /\ h' = h /\ ret' = "err"
    BY <1>0, <1>1, <1>10 DEF IntoGrowableFails, Fails
  <2>2. IsOutcome(IntoGrowable(Handle, Heap))
    BY <1>1, <1>2, <1>3, <2>1, IntoGrowableOutcome
  <2>3. QED
    BY <2>1, <2>2
<1>11. CASE UNCHANGED vars
  BY <1>11
<1>12. QED
  BY <1>1, <1>4, <1>5, <1>6, <1>7, <1>8, <1>9, <1>10, <1>11 DEF Next

\* The byte moves of heap_buffer.rs (push and truncate, realloc, into_exact and
\* into_growable, their failures included) do what HeapBuffer promises of them: the
\* same text, capacity, layout and length field come out, for every word size, every
\* limit and every text.
THEOREM BytesImplementHeapBuffer == Spec => ImplementsHeapBuffer
<1>1. Laid /\ Laid' /\ [Next]_vars =>
        [ \/ \E n \in {k \in Cuts : k < LengthOf(h, mem)} \cup {LengthOf(h, mem) + 1} :
               IsOutcome(HeapSetLen(Handle, Heap, Pad(Letters, n, CapacityOf(h, mem)), n))
          \/ \E cap \in Capacities : IsOutcome(Realloc(Handle, Heap, cap))
          \/ h.ty = "LeanString" /\ IsOutcome(IntoExact(Handle, Heap))
          \/ h.ty = "LeanStr" /\ IsOutcome(IntoGrowable(Handle, Heap))]_vars
  BY StepImplements
<1>2. QED
  BY <1>1, LaidInvariant, PTL DEF Spec, ImplementsHeapBuffer
=============================================================================
