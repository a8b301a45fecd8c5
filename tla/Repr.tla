-------------------------------- MODULE Repr --------------------------------
(***************************************************************************)
(* The operations of a handle (src/repr.rs), one call at a time.  A handle *)
(* is inline or static, with its text, or a heap handle (see HeapBuffer).  *)
(* Each operator has the name of the method it stands for and maps the     *)
(* handle r and the heap m to the set of outcomes of the call.             *)
(***************************************************************************)
EXTENDS HeapBuffer, CaseMap

CONSTANTS StaticMax     \* StaticBuffer::MAX_LENGTH

\* MAX_INLINE_SIZE.
InlineMax == 2 * Word

ASSUME LimitsAssumption == StaticMax \in Nat /\ StaticMax < UsizeMax /\ InlineMax < UsizeMax

\* The two types of handles.
Types == {"LeanString", "LeanStr"}

IsHeap(r) == r.kind = "heap"

FromInline(ty, text) == [ty |-> ty, kind |-> "inline", text |-> text]
FromStatic(ty, text) == [ty |-> ty, kind |-> "static", text |-> text]

\* A new, empty handle.
Nothing == FromInline("LeanString", <<>>)

AsBytes(r, m) == IF IsHeap(r) THEN HeapBytes(r, m) ELSE r.text

LenOf(r, m) == IF IsHeap(r) THEN HeapLen(r, m) ELSE Len(r.text)

IsUnique(r, m) == IsHeap(r) => Unshared(r, m)

IsModifiable(r, m) == r.kind # "static" /\ IsUnique(r, m)

Capacity(r, m) == CASE r.kind = "heap"   -> HeapCapacity(r, m)
                    [] r.kind = "static" -> Len(r.text)
                    [] r.kind = "inline" -> InlineMax

SpareCapacity(r, m) == Capacity(r, m) - LenOf(r, m)

-----------------------------------------------------------------------------
(* Creating, sharing and releasing.                                        *)

FromStr(ty, text, r, m) ==
    IF Len(text) <= InlineMax THEN Ok(FromInline(ty, text), m)
    ELSE NewBuffer(ty, text, Len(text), r, m)

FromStaticStr(ty, text, r, m) ==
    IF Len(text) <= InlineMax THEN Ok(FromInline(ty, text), m)
    ELSE IF Len(text) > StaticMax THEN Err(r, m)
    ELSE Ok(FromStatic(ty, text), m)

WithCapacity(cap, r, m) ==
    IF cap <= InlineMax THEN Ok(FromInline("LeanString", <<>>), m)
    ELSE NewBuffer("LeanString", <<>>, cap, r, m)

\* make_shallow_clone; the limit on the count is the subject of SharedBuffer.
MakeShallowClone(r, m) == Ok(r, IF IsHeap(r) THEN [m EXCEPT ![r.buf].count = @ + 1] ELSE m)

\* Mutant: what is replaced is not released.
OverwriteInner(r, m, q) == Ok(q, m)

\* drop_in, and replace_inner of r by q.
DropIn(r, m) == IF IsHeap(r) THEN Release(r, m) ELSE Ok(r, m)

ReplaceInner(r, m, q) == Then(DropIn(r, m), LAMBDA x, n : Ok(q, n))

\* Mutant: r is released whether or not the replacement could be made.
ReleaseThenReplace(r, m, made) ==
    UNION {{[d EXCEPT !.ret = o.ret, !.r = o.r] : d \in DropIn(r, o.m)} : o \in made}

\* A replacement is made first, then r is released; on failure r stays.
Replace(r, m, made) == Then(made, LAMBDA q, n : ReplaceInner(r, n, q))

-----------------------------------------------------------------------------
(* Room and exclusive use.                                                 *)

Reallocate(r, m, cap) ==
    IF LenOf(r, m) > cap THEN Ub(r, m)
    ELSE IF cap <= InlineMax THEN ReplaceInner(r, m, FromInline(r.ty, AsBytes(r, m)))
    ELSE IF IsHeap(r) /\ IsUnique(r, m) THEN Realloc(r, m, cap)
    ELSE Replace(r, m, NewBuffer(r.ty, AsBytes(r, m), cap, r, m))

GrowExact(r, m, additional) ==
    LET required == LenOf(r, m) + additional
    IN  IF required > UsizeMax THEN Err(r, m) ELSE Reallocate(r, m, required)

\* Mutant: the capacity for what is added alone.
GrowShort(r, m, additional) ==
    LET n == LenOf(r, m)
    IN  IF n + additional > UsizeMax THEN Err(r, m)
        ELSE Reallocate(r, m, Max({additional, n + n \div 2}))

GrowAmortized(r, m, additional) ==
    LET n == LenOf(r, m)
        required == n + additional
    IN  IF required > UsizeMax THEN Err(r, m)
        ELSE IF required <= InlineMax THEN Reallocate(r, m, required)
        ELSE Reallocate(r, m, Max({required, n + n \div 2}))

\* The test in front of every write that may need room.
HasRoom(r, m, additional) == SpareCapacity(r, m) >= additional /\ IsModifiable(r, m)

\* Mutant: room in a shared buffer is good enough.
EnsureSpare(r, m, additional) ==
    IF SpareCapacity(r, m) >= additional THEN Ok(r, m) ELSE GrowAmortized(r, m, additional)

EnsureRoom(r, m, additional) ==
    IF HasRoom(r, m, additional) THEN Ok(r, m) ELSE GrowAmortized(r, m, additional)

EnsureModifiable(r, m) ==
    IF IsModifiable(r, m) THEN Ok(r, m) ELSE Replace(r, m, FromStr(r.ty, AsBytes(r, m), r, m))

Reserve(r, m, additional) ==
    IF additional = 0 THEN Ok(r, m) ELSE EnsureRoom(r, m, additional)

ReserveExact(r, m, additional) ==
    IF additional = 0 \/ HasRoom(r, m, additional) THEN Ok(r, m) ELSE GrowExact(r, m, additional)

\* Mutant: a shared buffer shrinks for all its sharers.
ShrinkForAll(r, m, minCapacity) ==
    LET capacity == Max({LenOf(r, m), minCapacity})
    IN  IF ~IsHeap(r) \/ capacity >= Capacity(r, m) THEN Ok(r, m)
        ELSE Ok(r, [m EXCEPT ![r.buf].bytes = Pad(@, LenOf(r, m), capacity),
                             ![r.buf].size = LayoutFor(r.ty, capacity),
                             ![r.buf].prefixed = IsLenHeapLayout(capacity)])

ShrinkTo(r, m, minCapacity) ==
    LET capacity == Max({LenOf(r, m), minCapacity})
    IN  IF IsHeap(r) /\ capacity < Capacity(r, m) THEN Reallocate(r, m, capacity) ELSE Ok(r, m)

\* as_mut_ptr: the bytes a modifiable handle may write.
Data(r, m) == IF IsHeap(r) THEN m[r.buf].bytes ELSE Pad(r.text, Len(r.text), InlineMax)

\* The data becomes d, then set_len(n).
SetLen(r, m, d, n) ==
    IF ~IsModifiable(r, m) \/ n > Capacity(r, m) THEN Ub(r, m)
    ELSE IF IsHeap(r) THEN HeapSetLen(r, m, d, n)
    ELSE Ok(FromInline(r.ty, SubSeq(d, 1, n)), m)

-----------------------------------------------------------------------------
(* Editing.                                                                *)

PushStr(r, m, s) ==
    IF s = <<>> THEN Ok(r, m)
    ELSE Then(EnsureRoom(r, m, Len(s)), LAMBDA q, n :
            SetLen(q, n, CopyFrom(Data(q, n), s, LenOf(q, n)), LenOf(q, n) + Len(s)))

PushChar(r, m, ch) ==
    Then(EnsureRoom(r, m, Len(ch)), LAMBDA q, n :
       SetLen(q, n, CopyFrom(Data(q, n), ch, LenOf(q, n)), LenOf(q, n) + Len(ch)))

\* Mutant: the text is written before the tail has moved.
OverwriteTail(r, m, idx, s) ==
    Then(EnsureRoom(r, m, Len(s)), LAMBDA q, n :
       LET written == CopyFrom(Data(q, n), s, idx)
           tail == LenOf(q, n) - idx
       IN  SetLen(q, n, CopyWithin(written, idx, idx + Len(s), tail), LenOf(q, n) + Len(s)))

\* What insert_str and insert_char write: the tail moves up, s fills the gap.
OpenGap(r, m, idx, s) ==
    Then(EnsureRoom(r, m, Len(s)), LAMBDA q, n :
       LET tail == LenOf(q, n) - idx
           opened == CopyWithin(Data(q, n), idx, idx + Len(s), tail)
       IN  SetLen(q, n, CopyFrom(opened, s, idx), LenOf(q, n) + Len(s)))

InsertStr(r, m, idx, s) ==
    IF ~IsCharBoundary(AsBytes(r, m), idx) THEN Panic(r, m)
    ELSE IF s = <<>> THEN Ok(r, m)
    ELSE OpenGap(r, m, idx, s)

InsertChar(r, m, idx, ch) ==
    IF IsCharBoundary(AsBytes(r, m), idx) THEN OpenGap(r, m, idx, ch) ELSE Panic(r, m)

\* Mutant: the successor of usize::MAX is zero.
Wrap(n) == n % (UsizeMax + 1)

\* slice_range: bounds are included, excluded or missing, and saturate.
Saturate(n) == Min({n, UsizeMax})

StartOf(bound) == CASE bound[1] = "included"  -> bound[2]
                    [] bound[1] = "excluded"  -> Saturate(bound[2] + 1)
                    [] bound[1] = "unbounded" -> 0

EndOf(t, bound) == CASE bound[1] = "included"  -> Saturate(bound[2] + 1)
                     [] bound[1] = "excluded"  -> bound[2]
                     [] bound[1] = "unbounded" -> Len(t)

IsSliceRange(t, start, end) ==
    IsCharBoundary(t, start) /\ IsCharBoundary(t, end) /\ start <= end

\* Mutant: an empty range makes room too.
ExtendEagerly(r, m, lo, hi) ==
    LET t == AsBytes(r, m)
        start == StartOf(lo)
        count == EndOf(t, hi) - start
    IN  IF ~IsSliceRange(t, start, start + count) THEN Panic(r, m)
        ELSE Then(EnsureRoom(r, m, count), LAMBDA q, n :
                SetLen(q, n, CopyWithin(Data(q, n), start, Len(t), count), Len(t) + count))

ExtendFromWithin(r, m, lo, hi) ==
    LET t == AsBytes(r, m)
        start == StartOf(lo)
        end == EndOf(t, hi)
        count == end - start
    IN  IF ~IsSliceRange(t, start, end) THEN Panic(r, m)
        ELSE IF count = 0 THEN Ok(r, m)
        ELSE Then(EnsureRoom(r, m, count), LAMBDA q, n :
                SetLen(q, n, CopyWithin(Data(q, n), start, LenOf(q, n), count),
                       LenOf(q, n) + count))

\* A shared or static text is rebuilt; otherwise the suffix moves first.
ReplaceRange(r, m, lo, hi, s) ==
    LET t == AsBytes(r, m)
        start == StartOf(lo)
        end == EndOf(t, hi)
        newLen == Len(t) - (end - start) + Len(s)
        additional == Max({0, Len(s) - (end - start)})
        built == SubSeq(t, 1, start) \o s \o SubSeq(t, end + 1, Len(t))
    IN  IF ~IsSliceRange(t, start, end) THEN Panic(r, m)
        ELSE IF start = end /\ s = <<>> THEN Ok(r, m)
        ELSE IF ~IsModifiable(r, m) THEN Replace(r, m, FromStr(r.ty, built, r, m))
        ELSE Then(IF SpareCapacity(r, m) < additional THEN GrowAmortized(r, m, additional)
                                                      ELSE Ok(r, m),
                  LAMBDA q, n :
                    LET shifted == CopyWithin(Data(q, n), end, start + Len(s), Len(t) - end)
                    IN  SetLen(q, n, CopyFrom(shifted, s, start), newLen))

RemoveChar(r, m, idx) ==
    LET t == AsBytes(r, m) IN
    IF ~IsCharBoundary(t, idx) \/ idx >= Len(t) THEN Panic(r, m)
    ELSE LET ch == CharAt(t, idx)
             rest == Len(t) - idx - Len(ch)
             removed == Then(EnsureModifiable(r, m), LAMBDA q, n :
                           SetLen(q, n, CopyWithin(Data(q, n), idx + Len(ch), idx, rest),
                                  Len(t) - Len(ch)))
         IN  {IF o.ret = "ok" THEN [o EXCEPT !.val = ch] ELSE o : o \in removed}

\* Mutant: a length in the heap is lowered for every sharer.
TruncateForAll(r, m, n) ==
    IF ~IsHeap(r) THEN Ok([r EXCEPT !.text = SubSeq(@, 1, n)], m)
    ELSE Ok([r EXCEPT !.len = TextLen(n)], [m EXCEPT ![r.buf].len = n])

\* A length in the handle, or the length of static or inline text, is just lowered;
\* one in the heap may be everybody's.
TruncateUnchecked(r, m, n) ==
    IF n > LenOf(r, m) THEN Ub(r, m)
    ELSE IF ~IsHeap(r) THEN Ok([r EXCEPT !.text = SubSeq(@, 1, n)], m)
    ELSE IF r.len # OnTheHeap THEN Ok([r EXCEPT !.len = n], m)
    ELSE IF Unshared(r, m) THEN HeapSetLen(r, m, m[r.buf].bytes, n)
    ELSE Replace(r, m, FromStr(r.ty, SubSeq(m[r.buf].bytes, 1, n), r, m))

Truncate(r, m, n) ==
    IF n >= LenOf(r, m) THEN Ok(r, m)
    ELSE IF ~IsCharBoundary(AsBytes(r, m), n) THEN Panic(r, m)
    ELSE TruncateUnchecked(r, m, n)

Pop(r, m) ==
    LET t == AsBytes(r, m) IN
    IF t = <<>> THEN Ok(r, m)
    ELSE LET at == Last(Starts(t)) IN
         {IF o.ret = "ok" THEN [o EXCEPT !.val = CharAt(t, at)] ELSE o :
             o \in TruncateUnchecked(r, m, at)}

\* Mutant: a shared buffer is forgotten.
ClearForgets(r, m) ==
    IF IsModifiable(r, m) THEN SetLen(r, m, Data(r, m), 0) ELSE Ok(FromInline(r.ty, <<>>), m)

Clear(r, m) ==
    IF r.kind = "static" THEN Ok(FromStatic(r.ty, <<>>), m)
    ELSE IF IsUnique(r, m) THEN SetLen(r, m, Data(r, m), 0)
    ELSE ReplaceInner(r, m, FromInline(r.ty, <<>>))

\* retain. The predicate p is any FnMut: it answers true at its calls in p.keep and panics
\* at call p.boom. It is asked once for each character. The first character to go is
\* looked for before the buffer is made modifiable; in the loop, the guard sets the
\* length even when the predicate panics.
Retain(r, m, p) ==
    LET t == AsBytes(r, m)
        starts == Starts(t)
        stops == {k \in 1..Len(starts) : k = p.boom \/ k \notin p.keep}
        Step(g, k) ==
            LET ch == CharAt(t, starts[k]) IN
            IF g.panicked \/ k = p.boom THEN [g EXCEPT !.panicked = TRUE]
            ELSE IF k \notin p.keep THEN g
            ELSE [g EXCEPT !.d = CopyWithin(@, starts[k], g.dst, Len(ch)),
                           !.dst = @ + Len(ch)]
        Loop(d, first) ==
            LET after[k \in first..Len(starts)] ==
                    IF k = first THEN [d |-> d, dst |-> starts[k], panicked |-> FALSE]
                    ELSE Step(after[k - 1], k)
            IN  after[Len(starts)]
    IN  IF stops = {} THEN Ok(r, m)
        ELSE IF Min(stops) = p.boom THEN Panic(r, m)
        ELSE Then(EnsureModifiable(r, m), LAMBDA q, n :
                LET g == Loop(Data(q, n), Min(stops))
                IN  {IF g.panicked /\ o.ret = "ok" THEN [o EXCEPT !.ret = "panic"] ELSE o :
                        o \in SetLen(q, n, g.d, g.dst)})

-----------------------------------------------------------------------------
(* New handles from old ones.                                              *)

\* Mutant: always a new text.
CopyInAsciiCase(r, m, case) == FromStr(r.ty, AsciiCase(AsBytes(r, m), case), r, m)

\* A text that does not change is shared, not copied.
ToAsciiCase(r, m, case) ==
    LET t == AsBytes(r, m)
        mid == SplitAtFirstAsciiChange(t, case)
    IN  IF mid = NoChange THEN MakeShallowClone(r, m)
        ELSE FromStr(r.ty, SubSeq(t, 1, mid) \o AsciiCase(SubSeq(t, mid + 1, Len(t)), case), r, m)

\* push_char of every character of chars in turn.
PushChars(r, m, chars) ==
    LET pushed[k \in 0..Len(chars)] ==
            IF k = 0 THEN Ok(r, m)
            ELSE Then(pushed[k - 1], LAMBDA q, n : PushChar(q, n, chars[k]))
    IN  pushed[Len(chars)]

\* Mutant: a half-built text is left behind.
AbandonMapped(made, r) == {IF o.ret = "err" THEN [o EXCEPT !.r = r] ELSE o : o \in made}

\* A failed push drops the text that was being built; the caller keeps r.
DropMapped(made, r) ==
    UNION {IF o.ret = "err" THEN Then(DropIn(o.r, o.m), LAMBDA x, n : Err(r, n)) ELSE {o} : o \in made}

\* to_case of a text that changes. The part before the change and the ASCII after it
\* are written at once into a new buffer, the other characters are pushed one by one;
\* at a capital sigma that is to be lowered, the standard library maps the whole text.
ToCase(r, m, case) ==
    LET t == AsBytes(r, m)
        mid == SplitAtFirstChange(t, case)
        ascii == mid + SplitAsciiPrefix(SubSeq(t, mid + 1, Len(t)))
        rest == CharsOf(SubSeq(t, ascii + 1, Len(t)))
        sigmas == {k \in DOMAIN rest : case = "Lower" /\ rest[k] = Sigma}
        pushed == IF sigmas = {} THEN rest ELSE SubSeq(rest, 1, Min(sigmas) - 1)
        start == SubSeq(t, 1, mid) \o AsciiCase(SubSeq(t, mid + 1, ascii), case)
        mapped == FlattenSeq([k \in DOMAIN pushed |-> CharCase(pushed[k], case)])
    IN  Then(WithCapacity(Len(t), r, m), LAMBDA q, n :
          LET built == Then(SetLen(q, n, CopyFrom(Data(q, n), start, 0), Len(start)),
                            LAMBDA x, k : PushChars(x, k, CharsOf(mapped)))
          IN  IF sigmas = {} THEN DropMapped(built, r)
              ELSE Then(DropMapped(built, r), LAMBDA x, k :
                     Then(DropIn(x, k), LAMBDA y, l :
                        FromStr("LeanString", StrCase(t, case), r, l))))

MakeAsciiCase(r, m, case) ==
    IF IsModifiable(r, m)
    THEN SetLen(r, m, AsciiCase(Data(r, m), case), LenOf(r, m))
    ELSE Replace(r, m, ToAsciiCase(r, m, case))

Repeat(r, m, times) ==
    LET t == AsBytes(r, m) IN
    IF times = 1 THEN MakeShallowClone(r, m)
    ELSE IF Len(t) * times > UsizeMax THEN Err(r, m)
    ELSE FromStr(r.ty, FlattenSeq([i \in 1..times |-> t]), r, m)

IntoImmutable(r, m) ==
    LET t == AsBytes(r, m)
        immutable == "LeanStr"
    IN  IF ~IsHeap(r) THEN Ok([r EXCEPT !.ty = immutable], m)
        ELSE IF ~IsUnique(r, m) THEN Replace(r, m, FromStr(immutable, t, r, m))
        ELSE IF Len(t) <= InlineMax THEN ReplaceInner(r, m, FromInline(immutable, t))
        ELSE IntoExact(r, m)

IntoMutable(r, m) ==
    IF ~IsHeap(r) THEN Ok([r EXCEPT !.ty = "LeanString"], m)
    ELSE IF IsUnique(r, m) THEN IntoGrowable(r, m)
    ELSE Replace(r, m, FromStr("LeanString", AsBytes(r, m), r, m))
=============================================================================
