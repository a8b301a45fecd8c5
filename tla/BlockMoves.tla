----------------------------- MODULE BlockMoves -----------------------------
(***************************************************************************)
(* The memory of one heap buffer, byte by byte: where heap_buffer.rs puts  *)
(* the length word, the count, the capacity and the text, and what it      *)
(* moves when the buffer changes its size or its header.                   *)
(*                                                                         *)
(*        | length |  count  | capacity |  text ...   growable             *)
(*        | length |  count  |  text ...              exact                *)
(*                                      ^ ptr                              *)
(*                                                                         *)
(* The length word is there only when the capacity is more than a handle's *)
(* length field can store.  HeapBuffer says what each operation promises;  *)
(* here they copy and overwrite bytes, and ImplementsHeapBuffer says that  *)
(* this amounts to the same.                                               *)
(*                                                                         *)
(* The buffer has one handle, as all these operations ask of it, so each   *)
(* of them is one action; only the allocator makes a choice.               *)
(***************************************************************************)
EXTENDS HeapBuffer

CONSTANTS
    Letters,    \* the longest text; every text is a prefix of it
    Cuts,       \* lengths a text is cut to
    Capacities  \* capacities asked for

ASSUME MovesAssumption ==
    /\ Buffers = {1, 2}
    /\ Letters \in Seq(STRING) /\ Uninit \notin ToSet(Letters)
    /\ Cuts \subseteq Nat /\ Capacities \subseteq Nat

VARIABLES
    mem,    \* the block: its offsets mapped to what the byte there holds
    size,   \* the size the allocator knows it by
    h,      \* the handle: its type ty, pointer ptr (an offset), length field len,
            \* and the address buf of the block
    ret     \* what the last operation returned

vars == <<mem, size, h, ret>>

-----------------------------------------------------------------------------
(* Bytes.                                                                  *)

\* A byte of the text, the i-th byte of a usize, a byte nobody has written.
TextByte(c) == [text |-> c]
WordByte(v, i) == [word |-> v, at |-> i]
NoByte == [none |-> 0]

Alloc(n) == [o \in 0..n - 1 |-> NoByte]

\* Every write of n bytes from offset o on adds to the domain of the block what lies
\* outside it. ptr::write of a usize.
WriteWord(b, o, v) ==
    [i \in DOMAIN b \cup o..o + Word - 1 |->
        IF i \in o..o + Word - 1 THEN WordByte(v, i - o) ELSE b[i]]

\* What reading the bytes of something else as a usize gives.
Junk == -2

IsWordByte(b, o, i) == o \in DOMAIN b /\ DOMAIN b[o] = {"word", "at"} /\ b[o].at = i

\* ptr::read of a usize.
ReadWord(b, o) ==
    IF \A i \in 0..Word - 1 : IsWordByte(b, o + i, i) /\ b[o + i].word = b[o].word
    THEN b[o].word ELSE Junk

\* ptr::copy, which allows its ranges to overlap.
Copy(b, from, to, n) ==
    [o \in DOMAIN b \cup to..to + n - 1 |-> IF o \in to..to + n - 1 THEN b[o - to + from] ELSE b[o]]

\* copy_nonoverlapping of the bytes lo .. hi - 1 of a str to the same place after to.
CopyIn(b, t, lo, hi, to) ==
    [o \in DOMAIN b \cup to + lo..to + hi - 1 |->
        IF o \in to + lo..to + hi - 1 THEN TextByte(t[o - to + 1]) ELSE b[o]]

\* What realloc leaves in a block of n bytes.
Resized(b, n) == [o \in 0..n - 1 |-> IF o \in DOMAIN b THEN b[o] ELSE NoByte]

-----------------------------------------------------------------------------
(* A handle reads its block.                                               *)

PrefixOf(cap) == IF IsLenHeapLayout(cap) THEN Word ELSE 0

HeaderAt(q) == q.ptr - HeaderOffset(q.ty)

CountOf(q, b) == ReadWord(b, HeaderAt(q))

LengthOf(q, b) == IF q.len = OnTheHeap THEN ReadWord(b, HeaderAt(q) - Word) ELSE q.len

\* Capacity of a growable buffer; an exact one has no room besides its text.
CapacityOf(q, b) ==
    IF q.ty = "LeanString" THEN ReadWord(b, HeaderAt(q) + Word) ELSE LengthOf(q, b)

LayoutOf(q, b) == LayoutFor(q.ty, CapacityOf(q, b))

\* has_len_prefix, and allocation: the address given back to the allocator.
LenPrefix(q, b) ==
    IF q.ty = "LeanString" THEN PrefixOf(CapacityOf(q, b))
    ELSE IF q.len = OnTheHeap THEN Word ELSE 0

Allocation(q, b) == HeaderAt(q) - LenPrefix(q, b)

ByteAt(b, o) ==
    IF o \in DOMAIN b /\ DOMAIN b[o] = {"text"} THEN b[o].text ELSE Uninit

\* as_str.
AsStr(q, b) == [i \in 1..LengthOf(q, b) |-> ByteAt(b, q.ptr + i - 1)]

-----------------------------------------------------------------------------
(* Construction.                                                           *)

\* Header::new.
WriteHeader(b, o, ty, cap) ==
    IF ty = "LeanString" THEN WriteWord(WriteWord(b, o, 1), o + Word, cap)
    ELSE WriteWord(b, o, 1)

\* allocate_ptr.
Allocated(ty, cap) == WriteHeader(Alloc(LayoutFor(ty, cap)), PrefixOf(cap), ty, cap)

DataAt(ty, cap) == PrefixOf(cap) + HeaderOffset(ty)

\* The handle of a fresh block at address a, with a text of n bytes.
Fresh(ty, cap, n, a) == [ty |-> ty, ptr |-> DataAt(ty, cap), len |-> TextLen(n), buf |-> a]

\* set_len: the length word is written when the length field cannot hold n.
SetLen(q, b, n) ==
    IF n > MaxLen THEN WriteWord(b, HeaderAt(q) - Word, n) ELSE b

\* Mutant: the two copies from either end are of N bytes for all of these texts.
CopyTextShort(b, t, to) ==
    LET n == Len(t)
        N == 2 * Word
    IN  IF n \notin N..4 * N THEN CopyIn(b, t, 0, n, to)
        ELSE CopyIn(CopyIn(b, t, 0, N, to), t, n - N, n, to)

\* new: a text of N to 4 * N bytes, where N is the size of a handle, is copied by
\* two copies of a constant size, one from either end.
CopyText(b, t, to) ==
    LET n == Len(t)
        N == 2 * Word
        Both(k) == CopyIn(CopyIn(b, t, 0, k, to), t, n - k, n, to)
    IN  CASE n \notin N..4 * N -> CopyIn(b, t, 0, n, to)
          [] n \in 2 * N..4 * N -> Both(2 * N)
          [] OTHER -> Both(N)

\* new (and new_uninit), of either type.
NewBlock(ty, t, a) ==
    LET n == Len(t)
        q == Fresh(ty, n, n, a)
    IN  [h |-> q, mem |-> CopyText(SetLen(q, Allocated(ty, n), n), t, q.ptr)]

\* with_capacity, then from_str_with_capacity.
BlockWithCapacity(t, cap, a) ==
    LET n == Len(t)
        q == Fresh("LeanString", cap, n, a)
    IN  [h |-> q, mem |-> SetLen(q, CopyIn(Allocated("LeanString", cap), t, 0, n, q.ptr), n)]

Becomes(s, n) == /\ mem' = s.mem
                 /\ h' = s.h
                 /\ size' = n

Init ==
    /\ ret = "ok"
    /\ \E n \in 0..Len(Letters) :
         LET t == SubSeq(Letters, 1, n) IN
         \/ \E ty \in {"LeanString", "LeanStr"} :
              /\ Fits(ty, n)
              /\ LET s == NewBlock(ty, t, 1) IN
                   mem = s.mem /\ h = s.h /\ size = LayoutFor(ty, n)
         \/ \E cap \in Capacities :
              /\ n <= cap /\ Fits("LeanString", cap)
              /\ LET s == BlockWithCapacity(t, cap, 1) IN
                   mem = s.mem /\ h = s.h /\ size = LayoutFor("LeanString", cap)

-----------------------------------------------------------------------------
(* Operations.                                                             *)

Fails == ret' = "err" /\ UNCHANGED <<mem, size, h>>

\* Repr writes a byte behind the text and sets the length; or cuts the text.
Push ==
    LET n == LengthOf(h, mem) IN
    /\ h.ty = "LeanString" /\ n < CapacityOf(h, mem) /\ n < Len(Letters)
    /\ Becomes([h |-> [h EXCEPT !.len = TextLen(n + 1)],
                mem |-> SetLen(h, CopyIn(mem, Letters, n, n + 1, h.ptr), n + 1)], size)
    /\ ret' = "ok"

Truncate(n) ==
    /\ h.ty = "LeanString" /\ n < LengthOf(h, mem)
    /\ Becomes([h |-> [h EXCEPT !.len = TextLen(n)], mem |-> SetLen(h, mem, n)], size)
    /\ ret' = "ok"

\* realloc when the length word comes or goes: a copy.
ReallocByCopy(cap) ==
    LET other == IF h.buf = 1 THEN 2 ELSE 1 IN
    /\ PrefixOf(cap) # PrefixOf(CapacityOf(h, mem))
    /\ Fits("LeanString", cap)
    /\ Becomes(BlockWithCapacity(AsStr(h, mem), cap, other), LayoutFor("LeanString", cap))
    /\ ret' = "ok"

\* realloc otherwise: the allocator moves the block and the header is written anew.
ReallocInPlace(cap) ==
    LET n == LayoutFor("LeanString", cap) IN
    /\ PrefixOf(cap) = PrefixOf(CapacityOf(h, mem))
    /\ Fits("LeanString", cap)
    /\ Becomes([h |-> [h EXCEPT !.ptr = DataAt("LeanString", cap)],
                mem |-> WriteHeader(Resized(mem, n), PrefixOf(cap), "LeanString", cap)], n)
    /\ ret' = "ok"

\* A capacity or layout that is too large, or no memory.
Reallocate(cap) ==
    /\ h.ty = "LeanString" /\ LengthOf(h, mem) <= cap
    /\ ReallocByCopy(cap) \/ ReallocInPlace(cap) \/ Fails

\* Where into_exact puts the text, before it knows whether realloc succeeds.
ExactData == (IF h.len = OnTheHeap THEN Word ELSE 0) + HeaderOffset("LeanStr")

MovedDown == Copy(mem, h.ptr, ExactData, LengthOf(h, mem))

\* Mutant: the text is not copied back, only what came before it.
RestoreHeaders(b) ==
    LET cap == CapacityOf(h, mem)
        worded == IF PrefixOf(cap) # 0 THEN WriteWord(b, 0, LengthOf(h, mem)) ELSE b
    IN  WriteHeader(worded, PrefixOf(cap), "LeanString", cap)

\* into_exact puts everything back: the text, the length word (where there is one)
\* and the header, from what it read before it moved the text.
Restore(b) ==
    LET n == LengthOf(h, mem)
        cap == CapacityOf(h, mem)
        back == Copy(b, ExactData, h.ptr, n)
        worded == IF PrefixOf(cap) # 0 THEN WriteWord(back, 0, n) ELSE back
    IN  WriteHeader(worded, PrefixOf(cap), "LeanString", cap)

\* Headers of a block of the other type, whose text is at ptr already.
Converted(ty, b, ptr, n) ==
    LET prefix == IF h.len = OnTheHeap THEN Word ELSE 0
        worded == IF prefix # 0 THEN WriteWord(b, 0, n) ELSE b
    IN  [h |-> [ty |-> ty, ptr |-> ptr, len |-> h.len, buf |-> h.buf],
         mem |-> WriteHeader(worded, prefix, ty, n)]

IntoExactFails ==
    /\ h.ty = "LeanString"
    /\ \/ LayoutFor("LeanStr", LengthOf(h, mem)) > LayoutMax /\ UNCHANGED mem
       \/ LayoutFor("LeanStr", LengthOf(h, mem)) <= LayoutMax /\ mem' = Restore(MovedDown)
    /\ ret' = "err"
    /\ UNCHANGED <<size, h>>

IntoExactSucceeds ==
    LET n == LengthOf(h, mem)
        s == LayoutFor("LeanStr", n)
    IN  /\ h.ty = "LeanString" /\ s <= LayoutMax
        /\ Becomes(Converted("LeanStr", Resized(MovedDown, s), ExactData, n), s)
        /\ ret' = "ok"

\* into_growable: the text moves up, over itself, once the block has grown.
IntoGrowableSucceeds ==
    LET n == LengthOf(h, mem)
        s == LayoutFor("LeanString", n)
        ptr == (IF h.len = OnTheHeap THEN Word ELSE 0) + HeaderOffset("LeanString")
        from == (IF h.len = OnTheHeap THEN Word ELSE 0) + HeaderOffset("LeanStr")
    IN  /\ h.ty = "LeanStr" /\ s <= LayoutMax
        /\ Becomes(Converted("LeanString", Copy(Resized(mem, s), from, ptr, n), ptr, n), s)
        /\ ret' = "ok"

IntoGrowableFails == h.ty = "LeanStr" /\ Fails

Next ==
    \/ Push
    \/ \E n \in Cuts : Truncate(n)
    \/ \E cap \in Capacities : Reallocate(cap)
    \/ IntoExactSucceeds \/ IntoExactFails
    \/ IntoGrowableSucceeds \/ IntoGrowableFails

Spec == Init /\ [][Next]_vars

-----------------------------------------------------------------------------
(* Properties.                                                             *)

\* Between operations the block is what its handle takes it for: nothing was ever
\* written outside it, it starts where the handle would have it freed and is as
\* large as the handle says, its count is 1, and its text fits and is there.
\* Checked after every failed and successful realloc, into_exact and into_growable.
WellFormed ==
    /\ DOMAIN mem = 0..size - 1
    /\ CountOf(h, mem) = 1
    /\ LengthOf(h, mem) \in 0..CapacityOf(h, mem)
    /\ CapacityOf(h, mem) <= CapMax
    /\ Allocation(h, mem) = 0
    /\ LayoutOf(h, mem) = size
    /\ \A i \in 1..LengthOf(h, mem) : AsStr(h, mem)[i] # Uninit

\* The handle and the block as HeapBuffer has them.
Handle == [ty |-> h.ty, kind |-> "heap", buf |-> h.buf, len |-> h.len]

Heap ==
    LET n == LengthOf(h, mem)
        cap == CapacityOf(h, mem)
    IN  [b \in {h.buf} |-> [ty |-> h.ty, count |-> CountOf(h, mem), size |-> size,
                            prefixed |-> LenPrefix(h, mem) # 0,
                            len |-> IF h.len = OnTheHeap THEN n ELSE UninitLen,
                            bytes |-> Pad(AsStr(h, mem), n, cap)]]

\* A length word that no handle reads may hold anything.
Forget(o) == [o EXCEPT !.m[o.r.buf].len = IF o.r.len = OnTheHeap THEN @ ELSE UninitLen]

IsOutcome(S) ==
    \E o \in S : Forget(o) = [ret |-> ret', val |-> <<>>, r |-> Handle', m |-> Heap']

\* Every step does to the bytes what HeapBuffer promises of the operation: the same
\* text, capacity, layout and length field, whether the allocator succeeds or not.
ImplementsHeapBuffer ==
    [][ \/ \E n \in {k \in Cuts : k < LengthOf(h, mem)} \cup {LengthOf(h, mem) + 1} :
             IsOutcome(HeapSetLen(Handle, Heap, Pad(Letters, n, CapacityOf(h, mem)), n))
        \/ \E cap \in Capacities : IsOutcome(Realloc(Handle, Heap, cap))
        \/ h.ty = "LeanString" /\ IsOutcome(IntoExact(Handle, Heap))
        \/ h.ty = "LeanStr" /\ IsOutcome(IntoGrowable(Handle, Heap))]_vars
=============================================================================
