---------------------------- MODULE LeanStrings -----------------------------
(***************************************************************************)
(* A program of one thread that calls the methods of LeanString and        *)
(* LeanStr (src/lib.rs) on a few handles, in any order and with any of the *)
(* given arguments.  Every call is one step, made of the operators of Repr *)
(* and HeapBuffer; the allocator may fail in each of them.                 *)
(***************************************************************************)
EXTENDS Repr

CONSTANTS
    Handles,    \* places for a LeanString or a LeanStr
    Args,       \* the string arguments
    Indexes,    \* the index and length arguments
    Los, His,   \* the lower and upper bounds of range arguments
    Sizes,      \* the capacity and count arguments
    Predicates, \* the predicates of retain: the calls that answer true, and one that panics
    MaxText,    \* texts grow no longer than this (a bound of the model)
    Calls       \* the methods the program uses

\* Arguments are what their types allow: a str is valid UTF-8, a usize has its range.
ASSUME ArgsAssumption ==
    /\ \A s \in Args : s \in Seq(Bytes) /\ IsUtf8(s)
    /\ Indexes \cup Sizes \subseteq 0..UsizeMax
    /\ \A bound \in Los \cup His :
          \/ bound[1] = "unbounded"
          \/ bound[1] \in {"included", "excluded"} /\ bound[2] \in 0..UsizeMax
    /\ \A p \in Predicates : p.boom \in Nat

VARIABLES
    handle,     \* handle[h]: the representation of h, for the handles that exist
    heap,       \* the allocated blocks (see HeapBuffer)
    io          \* the last call, how it ended and the value it returned

vars == <<handle, heap, io>>

\* The state without io, on which no step depends.
Store == <<handle, heap>>

Init ==
    /\ handle = <<>>
    /\ heap = <<>>
    /\ io = [call |-> <<"start">>, ret |-> "ok", val |-> <<>>]

\* The function f, with k mapped to v.
Put(f, k, v) == [x \in DOMAIN f \cup {k} |-> IF x = k THEN v ELSE f[x]]

Live == DOMAIN handle
Strings == {h \in Live : handle[h].ty = "LeanString"}
TextAt(h) == AsBytes(handle[h], heap)

\* The call ends with outcome o, which gives h its new representation; the other
\* handles are H.
Return(call, o, H) ==
    /\ handle' = H
    /\ heap' = o.m
    /\ io' = [call |-> call, ret |-> o.ret, val |-> o.val]

\* A method with &mut self: h holds the representation of the outcome.
Mutate(h, call, outcomes) ==
    /\ call[1] \in Calls
    /\ \E o \in outcomes : Return(call, o, [handle EXCEPT ![h] = o.r])

\* A call that makes the new handle k if it succeeds.
Make(k, call, outcomes) ==
    /\ call[1] \in Calls /\ k \notin Live
    /\ \E o \in outcomes :
          Return(call, o, IF o.ret = "ok" THEN Put(handle, k, o.r) ELSE handle)

-----------------------------------------------------------------------------
(* Making and dropping handles.                                            *)

FromText(k, ty, s) == Make(k, <<"from_str", k, s>>, FromStr(ty, s, Nothing, heap))

FromStaticText(k, ty, s) ==
    Make(k, <<"from_static_str", k, s>>, FromStaticStr(ty, s, Nothing, heap))

WithRoom(k, n) == Make(k, <<"with_capacity", k, n>>, WithCapacity(n, Nothing, heap))

Clone(h, k) == h \in Live /\ Make(k, <<"clone", h, k>>, MakeShallowClone(handle[h], heap))

\* clone_from: the source is shared before what h held is released.
CloneFrom(h, g) ==
    /\ {h, g} \subseteq Live /\ g # h /\ handle[g].ty = handle[h].ty
    /\ Mutate(h, <<"clone_from", h, g>>,
              Replace(handle[h], heap, MakeShallowClone(handle[g], heap)))

Gone(h) == [k \in Live \ {h} |-> handle[k]]

Drop(h) ==
    /\ h \in Live /\ "drop" \in Calls
    /\ \E o \in DropIn(handle[h], heap) : Return(<<"drop", h>>, o, Gone(h))

\* A conversion consumes h: on failure the original representation is handed back
\* and dropped.
Consume(h, outcomes) ==
    /\ "into" \in Calls
    /\ \E o \in outcomes :
          \/ /\ o.ret # "err"
             /\ Return(<<"into", h>>, o, [handle EXCEPT ![h] = o.r])
          \/ /\ o.ret = "err"
             /\ \E d \in DropIn(o.r, o.m) :
                   Return(<<"into", h>>, [d EXCEPT !.ret = IF @ = "ok" THEN "err" ELSE @], Gone(h))

IntoLeanStr(h) == h \in Strings /\ Consume(h, IntoImmutable(handle[h], heap))

IntoLeanString(h) == h \in Live \ Strings /\ Consume(h, IntoMutable(handle[h], heap))

-----------------------------------------------------------------------------
(* Methods of a LeanString.                                                *)

DoReserve(h, n) ==
    /\ h \in Strings
    /\ \/ Mutate(h, <<"reserve", h, n>>, Reserve(handle[h], heap, n))
       \/ Mutate(h, <<"reserve", h, n>>, ReserveExact(handle[h], heap, n))

DoShrinkTo(h, n) ==
    h \in Strings /\ Mutate(h, <<"shrink_to", h, n>>, ShrinkTo(handle[h], heap, n))

DoPushStr(h, s) ==
    /\ h \in Strings /\ Len(TextAt(h)) + Len(s) <= MaxText
    /\ Mutate(h, <<"push_str", h, s>>, PushStr(handle[h], heap, s))

\* push and insert take one character.
IsChar(s) == s # <<>> /\ s = CharAt(s, 0)

DoPush(h, s) ==
    /\ h \in Strings /\ IsChar(s) /\ Len(TextAt(h)) + Len(s) <= MaxText
    /\ Mutate(h, <<"push", h, s>>, PushChar(handle[h], heap, s))

\* fmt::Write::write_fmt of a literal: an empty text that is not on the heap becomes
\* the literal itself.
DoWriteFmt(h, s) ==
    /\ h \in Strings /\ Len(TextAt(h)) + Len(s) <= MaxText
    /\ Mutate(h, <<"write_fmt", h, s>>,
              IF TextAt(h) = <<>> /\ ~IsHeap(handle[h])
              THEN FromStaticStr("LeanString", s, handle[h], heap)
              ELSE PushStr(handle[h], heap, s))

DoInsert(h, i, s) ==
    /\ h \in Strings /\ Len(TextAt(h)) + Len(s) <= MaxText
    /\ \/ Mutate(h, <<"insert", h, i, s>>, InsertStr(handle[h], heap, i, s))
       \/ /\ IsChar(s)
          /\ Mutate(h, <<"insert", h, i, s>>, InsertChar(handle[h], heap, i, s))

DoRemove(h, i) ==
    h \in Strings /\ Mutate(h, <<"remove", h, i>>, RemoveChar(handle[h], heap, i))

DoPop(h) == h \in Strings /\ Mutate(h, <<"pop", h>>, Pop(handle[h], heap))

DoTruncate(h, n) ==
    h \in Strings /\ Mutate(h, <<"truncate", h, n>>, Truncate(handle[h], heap, n))

DoClear(h) == h \in Strings /\ Mutate(h, <<"clear", h>>, Clear(handle[h], heap))

DoRetain(h, p) ==
    h \in Strings /\ Mutate(h, <<"retain", h, p>>, Retain(handle[h], heap, p))

DoReplaceRange(h, lo, hi, s) ==
    /\ h \in Strings /\ Len(TextAt(h)) + Len(s) <= MaxText
    /\ Mutate(h, <<"replace_range", h, lo, hi, s>>, ReplaceRange(handle[h], heap, lo, hi, s))

DoExtendFromWithin(h, lo, hi) ==
    /\ h \in Strings /\ 2 * Len(TextAt(h)) <= MaxText
    /\ Mutate(h, <<"extend_from_within", h, lo, hi>>, ExtendFromWithin(handle[h], heap, lo, hi))

DoMakeAsciiCase(h, case) ==
    h \in Strings /\ Mutate(h, <<"make_ascii_case", h, case>>, MakeAsciiCase(handle[h], heap, case))

\* try_split_off: the tail is copied, then h is truncated; if that fails, the new
\* handle is dropped again.
DoSplitOff(h, k, at) ==
    LET r == handle[h]
        t == TextAt(h)
        call == <<"split_off", h, k, at>>
    IN  /\ h \in Strings /\ k \notin Live /\ "split_off" \in Calls
        /\ IF ~IsCharBoundary(t, at) THEN \E o \in Panic(r, heap) : Return(call, o, handle)
           ELSE \E other \in FromStr("LeanString", SubSeq(t, at + 1, Len(t)), r, heap) :
                  IF other.ret # "ok" THEN Return(call, other, handle)
                  ELSE \E o \in Truncate(r, other.m, at) :
                         IF o.ret = "ok" THEN Return(call, o, Put(Put(handle, k, other.r), h, o.r))
                         ELSE \E d \in DropIn(other.r, o.m) :
                                Return(call, [d EXCEPT !.ret = o.ret], handle)

-----------------------------------------------------------------------------
(* Methods of both types that make a new handle.                           *)

DoToAsciiCase(h, k, case) ==
    h \in Live /\ Make(k, <<"to_ascii_case", h, k, case>>, ToAsciiCase(handle[h], heap, case))

\* Mutant: the mapped text is always a copy.
CopyInCase(h, k, case) ==
    /\ h \in Live /\ Len(StrCase(TextAt(h), case)) <= MaxText
    /\ Make(k, <<"to_case", h, k, case>>,
            FromStr(handle[h].ty, StrCase(TextAt(h), case), handle[h], heap))

\* to_lowercase and to_uppercase: a clone if nothing changes; a LeanStr maps to a
\* LeanString and converts it, and a failed conversion drops it.
DoToCase(h, k, case) ==
    LET r == handle[h]
        call == <<"to_case", h, k, case>>
    IN  /\ h \in Live /\ Len(StrCase(TextAt(h), case)) <= MaxText
        /\ IF SplitAtFirstChange(TextAt(h), case) = NoChange
           THEN Make(k, call, MakeShallowClone(r, heap))
           ELSE Make(k, call, IF h \in Strings THEN ToCase(r, heap, case)
                              ELSE Then(ToCase(r, heap, case),
                                        LAMBDA q, m : DropMapped(IntoImmutable(q, m), r)))

\* to_lean_str of a LeanString, to_lean_string of a LeanStr: a clone is converted, and
\* dropped if that fails.
ToOther(h, k) ==
    h \in Live /\ Make(k, <<"to_other", h, k>>,
        Then(MakeShallowClone(handle[h], heap), LAMBDA q, m :
            DropMapped(IF h \in Strings THEN IntoImmutable(q, m) ELSE IntoMutable(q, m), q)))

DoRepeat(h, k, times) ==
    /\ h \in Live /\ (Len(TextAt(h)) * times <= MaxText \/ Len(TextAt(h)) * times > UsizeMax)
    /\ Make(k, <<"repeat", h, k, times>>, Repeat(handle[h], heap, times))

-----------------------------------------------------------------------------
Cases == {"Lower", "Upper"}

\* A call on handles of H, new ones included.
CallOn(H) == \E h \in H :
    \/ \E ty \in Types, s \in Args : FromText(h, ty, s) \/ FromStaticText(h, ty, s)
    \/ \E n \in Sizes : WithRoom(h, n) \/ DoReserve(h, n) \/ DoShrinkTo(h, n)
    \/ Drop(h) \/ IntoLeanStr(h) \/ IntoLeanString(h) \/ DoPop(h) \/ DoClear(h)
    \/ \E s \in Args : DoPushStr(h, s) \/ DoPush(h, s) \/ DoWriteFmt(h, s)
    \/ \E i \in Indexes : DoRemove(h, i) \/ DoTruncate(h, i)
    \/ \E i \in Indexes, s \in Args : DoInsert(h, i, s)
    \/ \E p \in Predicates : DoRetain(h, p)
    \/ \E lo \in Los, hi \in His : DoExtendFromWithin(h, lo, hi)
    \/ \E lo \in Los, hi \in His, s \in Args : DoReplaceRange(h, lo, hi, s)
    \/ \E case \in Cases : DoMakeAsciiCase(h, case)
    \/ \E k \in H :
          \/ Clone(h, k) \/ CloneFrom(h, k) \/ ToOther(h, k)
          \/ \E i \in Indexes : DoSplitOff(h, k, i)
          \/ \E case \in Cases : DoToAsciiCase(h, k, case) \/ DoToCase(h, k, case)
          \/ \E n \in Sizes : DoRepeat(h, k, n)

Next == CallOn(Handles)

Spec == Init /\ [][Next]_vars

-----------------------------------------------------------------------------
(* Properties.                                                             *)

\* The shape of handles and blocks.
TypeOK ==
    /\ Live \subseteq Handles /\ DOMAIN heap \subseteq Buffers
    /\ \A h \in Live : LET r == handle[h] IN
          /\ r.ty \in Types
          /\ \/ r.kind = "inline" /\ Len(r.text) <= InlineMax
             \/ r.kind = "static" /\ Len(r.text) <= StaticMax
             \/ r.kind = "heap" /\ r.buf \in Buffers /\ r.len \in 0..OnTheHeap
    /\ \A b \in DOMAIN heap : LET k == heap[b] IN
          /\ k.ty \in Types /\ k.count \in Nat /\ k.size \in Nat /\ k.prefixed \in BOOLEAN
          /\ k.len \in {UninitLen} \cup Nat /\ Len(k.bytes) <= CapMax

Sharers(b) == {h \in Live : IsHeap(handle[h]) /\ handle[h].buf = b}

\* After every call, also one that failed or panicked half way, each block is
\* counted once for each handle that holds it, and a block nobody holds is gone.
BlocksCounted ==
    /\ \A h \in Live : IsHeap(handle[h]) => handle[h].buf \in DOMAIN heap
    /\ \A b \in DOMAIN heap : Sharers(b) # {} /\ heap[b].count = Cardinality(Sharers(b))

\* as_str is sound: the bytes a handle shows are written, inside the block and valid
\* UTF-8, wherever its length is stored and whatever the handles it shares with did.
TextsReadable == \A h \in Live : LET r == handle[h] IN
    /\ LenOf(r, heap) \in 0..Capacity(r, heap)
    /\ IsUtf8(AsBytes(r, heap))

\* dealloc and realloc pass the allocator what alloc was given: the layout every
\* sharer of a block computes from the header or from its own length is the
\* block's, and it finds the length word where there is one (alloc_layout,
\* has_len_prefix).
LayoutsAgree == \A h \in Live : IsHeap(handle[h]) => Believes(handle[h], heap)

Api == INSTANCE StringApi WITH text <- [h \in Live |-> TextAt(h)]

\* Every call does to the texts what the documentation says, and no call breaks a
\* safety contract: in-place edits, copies on write, the length on the heap and the
\* conversions are not visible through any handle.
ImplementsApi == Api!Spec

\* Every call of the fallible API that returns an error leaves all handles, their
\* sharing and the heap as they were; only a conversion consumes its handle.
FailureChangesNothing ==
    [][io'.ret = "err" /\ io'.call[1] # "into" => UNCHANGED Store]_vars

\* A call that has nothing to do, on a text that is t before and u after it.
NothingToDo(c, t, u) ==
    \/ c[1] \in {"push_str", "insert"} /\ c[Len(c)] = <<>>
    \/ c[1] = "reserve" /\ c[3] = 0
    \/ c[1] = "replace_range" /\ c[5] = <<>> /\ StartOf(c[3]) = EndOf(t, c[4])
    \/ c[1] = "extend_from_within" /\ StartOf(c[3]) = EndOf(t, c[4])
    \/ c[1] \in {"retain", "make_ascii_case", "truncate", "pop"} /\ u = t

\* A call with nothing to do keeps a shared or static buffer: the handle is not
\* copied (reserve of zero, an empty push, insert, range or replacement, a retain
\* that removes nothing, a case mapping that changes nothing); and a case mapping to
\* a new handle that changes nothing shares the text instead of copying it.
IdleCallsKeepSharing ==
    [][LET h == io'.call[2] IN
       /\ h \in Strings /\ h \in Live' =>
             (NothingToDo(io'.call, TextAt(h), AsBytes(handle'[h], heap')) => handle' = handle)
       /\ io'.call[1] \in {"to_case", "to_ascii_case"} /\ io'.ret = "ok" =>
             LET r == handle'[io'.call[3]]
             IN  AsBytes(r, heap') = TextAt(h) => r = handle[h]]_vars

\* What reserve promises lasts until the next call and is the caller's own: room for
\* that many more bytes, in a buffer nobody shares.
ReservedRoomIsOwn ==
    [][LET c == io'.call IN
       c[1] = "reserve" /\ io'.ret = "ok" /\ c[3] > 0 => HasRoom(handle'[c[2]], heap', c[3])]_vars

\* No call changes the representation or the capacity of a handle it is not given:
\* "the capacity it shares with others must be left as it is" (shrink_to).
OthersKeepCapacity ==
    [][\A h \in Live \cap Live' : h # io'.call[2] =>
          /\ handle'[h] = handle[h]
          /\ Capacity(handle[h], heap)' = Capacity(handle[h], heap)]_vars

=============================================================================
