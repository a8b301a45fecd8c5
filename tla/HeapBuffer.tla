----------------------------- MODULE HeapBuffer -----------------------------
(***************************************************************************)
(* Heap buffers (src/repr/heap_buffer.rs), one call at a time: layouts,    *)
(* allocation, realloc, the two conversions between the growable header of *)
(* a LeanString and the exact header of a LeanStr, and where a length is   *)
(* stored.                                                                 *)
(*                                                                         *)
(* A heap m maps the allocated buffers to their blocks:                    *)
(*   ty        the header in the block: growable (LeanString) or exact;    *)
(*   count     the reference count;                                        *)
(*   size      the size the allocator was asked for;                       *)
(*   prefixed  whether a length word precedes the header, and              *)
(*   len       its contents;                                               *)
(*   bytes     the data, capacity bytes long (a growable header records    *)
(*             the capacity, an exact one does not).                       *)
(* A heap handle r is a record of its type ty, its buffer buf and its      *)
(* length field len.                                                       *)
(*                                                                         *)
(* An operation maps a handle and a heap to the SET of its outcomes, since *)
(* the allocator may fail.  A broken safety contract (a debug_assert, an   *)
(* unreachable_unchecked, a layout the allocator was not given) is the     *)
(* outcome "ub", which no operation may have.                              *)
(***************************************************************************)
EXTENDS Utf8, FiniteSetsExt, TLC

CONSTANTS
    Buffers,    \* addresses the allocator can use (numbers)
    Word,       \* size_of::<usize>()
    MaxLen,     \* MAX_LEN: the largest length a handle can store
    CapMax,     \* Capacity::MAX
    LayoutMax,  \* the largest size of a Layout
    UsizeMax    \* usize::MAX

\* A 64-bit handle stores every length there is; on 32 bits longer ones go to the
\* heap, and the largest capacity is the largest layout plus less than a word.
ASSUME SizesAssumption ==
    /\ {Word, MaxLen, CapMax, LayoutMax, UsizeMax} \subseteq Nat \ {0}
    /\ MaxLen <= CapMax /\ CapMax < UsizeMax
    /\ MaxLen < CapMax => CapMax < LayoutMax + Word

ASSUME BuffersAssumption == Buffers \subseteq Nat

-----------------------------------------------------------------------------
(* Outcomes.                                                               *)

Outcome(ret, v, r, m) == {[ret |-> ret, val |-> v, r |-> r, m |-> m]}
Ok(r, m) == Outcome("ok", <<>>, r, m)
Err(r, m) == Outcome("err", <<>>, r, m)
Panic(r, m) == Outcome("panic", <<>>, r, m)
Ub(r, m) == Outcome("ub", <<>>, r, m)

\* The ? operator: what follows the successful outcomes of S.
Then(S, F(_, _)) == UNION {IF o.ret = "ok" THEN F(o.r, o.m) ELSE {o} : o \in S}

-----------------------------------------------------------------------------
(* Lengths and layouts.                                                    *)

\* TextLen::ON_THE_HEAP: the one pattern of the length field above MAX_LEN.
OnTheHeap == MaxLen + 1

\* Mutant: a length that does not fit is stored all the same.
TextLenAny(n) == n

TextLen(n) == IF n > MaxLen THEN OnTheHeap ELSE n

\* A length word that was never written.
UninitLen == -1

\* header_offset: a count and a capacity, or a count alone.
HeaderOffset(ty) == IF ty = "LeanString" THEN 2 * Word ELSE Word

IsLenHeapLayout(cap) == cap > MaxLen

LayoutFor(ty, cap) == HeaderOffset(ty) + cap + (IF IsLenHeapLayout(cap) THEN Word ELSE 0)

\* Capacity::new and layout_for accept cap.
Fits(ty, cap) == cap <= CapMax /\ LayoutFor(ty, cap) <= LayoutMax

HeapLen(r, m) == IF r.len = OnTheHeap THEN m[r.buf].len ELSE r.len

HeapBytes(r, m) == SubSeq(m[r.buf].bytes, 1, HeapLen(r, m))

HeapCapacity(r, m) == Len(m[r.buf].bytes)

\* is_unique.
Unshared(r, m) == m[r.buf].count = 1

\* alloc_layout and has_len_prefix: what a handle believes of its allocation. A
\* growable header knows its capacity; an exact one is as long as its handle's text.
AllocLayout(r, m) ==
    LayoutFor(r.ty, IF r.ty = "LeanString" THEN HeapCapacity(r, m) ELSE HeapLen(r, m))

HasLenPrefix(r, m) ==
    IF r.ty = "LeanString" THEN IsLenHeapLayout(HeapCapacity(r, m)) ELSE r.len = OnTheHeap

\* What the allocator knows of it.
Believes(r, m) ==
    /\ m[r.buf].ty = r.ty
    /\ m[r.buf].size = AllocLayout(r, m)
    /\ m[r.buf].prefixed = HasLenPrefix(r, m)

-----------------------------------------------------------------------------
(* Operations.                                                             *)

\* new and from_str_with_capacity: allocate_ptr for cap bytes, then the header,
\* the length and the text. A failure leaves the caller with its own r.
NewBuffer(ty, text, cap, r, m) ==
    IF Len(text) > cap THEN Ub(r, m)
    ELSE Err(r, m) \cup
         IF ~Fits(ty, cap) \/ DOMAIN m = Buffers THEN {}
         ELSE LET b == Min(Buffers \ DOMAIN m)
                  block == [ty |-> ty, count |-> 1, size |-> LayoutFor(ty, cap),
                            prefixed |-> IsLenHeapLayout(cap),
                            len |-> IF Len(text) > MaxLen THEN Len(text) ELSE UninitLen,
                            bytes |-> Pad(text, Len(text), cap)]
              IN  Ok([ty |-> ty, kind |-> "heap", buf |-> b, len |-> TextLen(Len(text))],
                     [x \in DOMAIN m \cup {b} |-> IF x = b THEN block ELSE m[x]])

Dealloc(r, m) ==
    IF Believes(r, m) THEN Ok(r, [b \in DOMAIN m \ {r.buf} |-> m[b]]) ELSE Ub(r, m)

\* release: give up a reference; the last one frees the block.
Release(r, m) ==
    IF Unshared(r, m) THEN Dealloc(r, m) ELSE Ok(r, [m EXCEPT ![r.buf].count = @ - 1])

\* Mutant: the length word is not written.
SetLenInHandle(r, m, d, n) ==
    IF n > HeapCapacity(r, m) \/ ~Unshared(r, m) THEN Ub(r, m)
    ELSE Ok([r EXCEPT !.len = TextLen(n)], [m EXCEPT ![r.buf].bytes = Pad(d, n, Len(d))])

\* set_len of a handle whose data has become d, which only a unique buffer allows.
\* What the new length does not cover is lost: nothing may rely on it.
HeapSetLen(r, m, d, n) ==
    IF n > HeapCapacity(r, m) \/ ~Unshared(r, m) THEN Ub(r, m)
    ELSE Ok([r EXCEPT !.len = TextLen(n)],
            [m EXCEPT ![r.buf].bytes = Pad(d, n, Len(d)),
                      ![r.buf].len = IF n > MaxLen THEN n ELSE UninitLen])

\* realloc of a unique growable buffer to cap bytes: in place, or through a copy
\* when the length word comes or goes.
Realloc(r, m, cap) ==
    LET was == m[r.buf] IN
    IF ~Unshared(r, m) \/ HeapLen(r, m) > cap \/ ~Believes(r, m) THEN Ub(r, m)
    ELSE IF cap > CapMax THEN Err(r, m)
    ELSE IF IsLenHeapLayout(cap) # IsLenHeapLayout(HeapCapacity(r, m)) THEN
         Then(NewBuffer("LeanString", HeapBytes(r, m), cap, r, m),
              LAMBDA q, n : Then(Dealloc(r, n), LAMBDA x, k : Ok(q, k)))
    ELSE Err(r, m) \cup
         IF LayoutFor("LeanString", cap) > LayoutMax THEN {}
         ELSE Ok(r, [m EXCEPT ![r.buf] =
                        [was EXCEPT !.count = 1, !.size = LayoutFor("LeanString", cap),
                                    !.bytes = Pad(was.bytes, HeapLen(r, m), cap)]])

\* Mutant: the header is exchanged and the allocation kept as it is.
IntoExactInPlace(r, m) ==
    IF ~Unshared(r, m) THEN Ub(r, m)
    ELSE Ok([r EXCEPT !.ty = "LeanStr"],
            [m EXCEPT ![r.buf].ty = "LeanStr", ![r.buf].bytes = HeapBytes(r, m)])

\* into_exact: the data moves down over the larger header before realloc, and a
\* failure has to put text, length word and header back.
IntoExact(r, m) ==
    LET was == m[r.buf]
        n == HeapLen(r, m)
        moved == [ty |-> "LeanStr", count |-> 1, size |-> LayoutFor("LeanStr", n),
                  prefixed |-> r.len = OnTheHeap,
                  len |-> IF r.len = OnTheHeap THEN n ELSE UninitLen,
                  bytes |-> HeapBytes(r, m)]
        restored == [was EXCEPT !.count = 1, !.len = IF was.prefixed THEN n ELSE @]
    IN  IF ~Unshared(r, m) \/ ~Believes(r, m) THEN Ub(r, m)
        ELSE IF LayoutFor("LeanStr", n) > LayoutMax THEN Err(r, m)
        ELSE Err(r, [m EXCEPT ![r.buf] = restored]) \cup
             Ok([r EXCEPT !.ty = "LeanStr"], [m EXCEPT ![r.buf] = moved])

\* into_growable: the capacity becomes the length, so the length word stays.
IntoGrowable(r, m) ==
    LET n == HeapLen(r, m)
        moved == [m[r.buf] EXCEPT !.ty = "LeanString", !.count = 1,
                                  !.size = LayoutFor("LeanString", n)]
    IN  IF ~Unshared(r, m) \/ ~Believes(r, m) THEN Ub(r, m)
        ELSE IF LayoutFor("LeanString", n) > LayoutMax THEN Err(r, m)
        ELSE Err(r, m) \cup
             Ok([r EXCEPT !.ty = "LeanString"], [m EXCEPT ![r.buf] = moved])
=============================================================================
