---------------------------- MODULE SharedBuffer ----------------------------
(***************************************************************************)
(* The copy-on-write sharing of heap buffers between the handles           *)
(* (LeanString and LeanStr values) of several threads: the reference count *)
(* of src/repr/heap_buffer.rs and every path of src/repr.rs that tests it, *)
(* raises it, lowers it or frees the buffer.                               *)
(*                                                                         *)
(* One action is one step of one thread that other threads can tell apart: *)
(* one atomic operation on a count, or one access to the bytes behind it,  *)
(* together with the thread-local computation that follows it.             *)
(*                                                                         *)
(* Memory orderings are modelled by what a thread does NOT know.  A fact   *)
(* is a past event: <<"read", t, b>> and <<"write", t, b>> are accesses of *)
(* thread t to buffer b, <<"one", Nobody, b>> and <<"many", Nobody, b>>    *)
(* say that b had an older count equal to (different from) one.  unk[t] is *)
(* the set of facts that do not happen before thread t's next step, and    *)
(* carried[b] the accesses to b that an Acquire of its latest count makes  *)
(* known.  Synchronisation removes facts from unk; an event enters unk of  *)
(* every thread but the one that performs it, and leaves carried.  A count *)
(* is credited with facts about its own buffer only, which leaves out      *)
(* happens-before edges the program has and never adds one.                *)
(***************************************************************************)
EXTENDS Naturals, FiniteSets

CONSTANTS
    Threads,    \* the threads of the program
    Handles,    \* places that can hold a LeanString or a LeanStr
    Buffers,    \* places the allocator can put a heap buffer at
    Texts,      \* the texts a handle can hold
    Calls,      \* the operations on a heap buffer that the program uses
    RefLimit,   \* isize::MAX in make_shallow_clone
    Empty,      \* the empty text
    Nobody,     \* the owner of a handle that does not exist
    NoBuf       \* the buffer of an inline or static handle

ASSUME ConstantsAssumption ==
    /\ Empty \in Texts
    /\ Nobody \notin Threads \cup Handles
    /\ NoBuf \notin Buffers
    /\ Threads \cap Handles = {}
    /\ IsFiniteSet(Threads) /\ IsFiniteSet(Handles)
    /\ RefLimit \in Nat \ {0}

VARIABLES
    owner,      \* owner[h]: the thread that owns handle h
    lent,       \* lent[h]: the threads that hold a shared borrow of h
    repr,       \* repr[h]: the two words of handle h
    live,       \* the allocated buffers
    cnt,        \* cnt[b]: latest reference count of b
    data,       \* data[b]: the text behind b's header
    pc,         \* pc[t]: where thread t is inside an operation
    op,         \* op[t]: the operation
    arg,        \* arg[t]: the handle it works on
    tmp,        \* tmp[t]: a representation held in a local variable
    old,        \* old[t]: the buffer whose last reference t has given up
    unk,        \* unk[t]: facts thread t does not know of
    carried     \* carried[b]: accesses to b that an Acquire of its count makes known

memory == <<live, cnt, data>>
handles == <<owner, lent, repr>>
locals == <<pc, op, arg, tmp, old>>
vars == <<owner, lent, repr, live, cnt, data, pc, op, arg, tmp, old, unk, carried>>

-----------------------------------------------------------------------------
(* Representations.                                                        *)

\* A representation: a heap buffer with the handle's own length (cut: the
\* handle's length is zero, whatever the buffer holds), or an inline/static text.
Repr == [buf : Buffers \cup {NoBuf}, cut : BOOLEAN, inl : Texts]

InlineRepr(v) == [buf |-> NoBuf, cut |-> FALSE, inl |-> v]
HeapRepr(b) == [buf |-> b, cut |-> FALSE, inl |-> Empty]
NewRepr == InlineRepr(Empty)

\* set_len of a heap handle, down to zero or not.
WithCut(r, c) == [buf |-> r.buf, cut |-> c, inl |-> r.inl]

\* The text a representation stands for (as_str).
TextOf(r) == IF r.buf = NoBuf THEN r.inl ELSE IF r.cut THEN Empty ELSE data[r.buf]

\* The counted references to buffer b: handles and local variables.
Refs(b) == {h \in Handles : repr[h].buf = b} \cup {t \in Threads : tmp[t].buf = b}

Accessors(h) == ({owner[h]} \ {Nobody}) \cup lent[h]

-----------------------------------------------------------------------------
(* Knowledge.                                                              *)

Accesses == {"read", "write"} \X Threads \X Buffers
OldCounts == {"one", "many"} \X {Nobody} \X Buffers
Facts == Accesses \cup OldCounts

AccessesAt(b) == {"read", "write"} \X Threads \X {b}
WritesAt(b) == {"write"} \X Threads \X {b}
OldCountsAt(b) == {"one", "many"} \X {Nobody} \X {b}
FactsAt(b) == AccessesAt(b) \cup OldCountsAt(b)

\* Thread t performs the accesses F: nobody else, and no count, knows of them.
Perform(t, F) ==
    /\ unk' = [u \in Threads |-> IF u = t THEN unk[u] ELSE unk[u] \cup F]
    /\ carried' = [b \in Buffers |-> carried[b] \ F]

\* What thread t knows happens before the next step of thread u.
HappensBefore(t, u) == unk' = [unk EXCEPT ![u] = @ \cap unk[t]]

\* fetch_add / fetch_sub: the read-modify-write of b's count by t. It reads the
\* latest count, so t can no longer read an older one; everybody else can. With
\* Release the new count also carries what t knows; without it, it carries on
\* what the count it replaces carried (the release sequence).
FetchModify(t, b, new, release) ==
    LET was == <<IF cnt[b] = 1 THEN "one" ELSE "many", Nobody, b>>
    IN  /\ cnt' = [cnt EXCEPT ![b] = new]
        /\ unk' = [u \in Threads |-> IF u = t THEN unk[u] \ OldCountsAt(b)
                                              ELSE unk[u] \cup {was}]
        /\ carried' = [carried EXCEPT ![b] = @ \cup IF release THEN AccessesAt(b) \ unk[t]
                                                              ELSE {}]

\* Mutants: a clone that copies the words and raises nothing; a Relaxed decrement;
\* a reference given up twice.
FetchAddLost(t, b) == UNCHANGED <<cnt, unk, carried>>
FetchSubRelaxed(t, b) == FetchModify(t, b, cnt[b] - 1, FALSE)
FetchSubTwice(t, b) == FetchModify(t, b, cnt[b] - 2, TRUE)

FetchAdd(t, b) == FetchModify(t, b, cnt[b] + 1, FALSE)
FetchSub(t, b) == FetchModify(t, b, cnt[b] - 1, TRUE)

\* What an Acquire of b's latest count leaves unknown to t.
Acquired(t, b) == unk[t] \ (carried[b] \cup OldCountsAt(b))

\* The allocator hands out the free buffer b to t, which writes header and text;
\* R are the accesses to other buffers the initialisation makes.
Allocate(t, b, v, R) ==
    /\ b \notin live
    /\ live' = live \cup {b}
    /\ cnt' = [cnt EXCEPT ![b] = 1]
    /\ data' = [data EXCEPT ![b] = v]
    /\ Perform(t, R \cup {<<"write", t, b>>})

\* realloc: the old block is given back and a new one, initialised by t, takes
\* its place; the count is written anew, not modified atomically.
Reallocate(t, b) ==
    /\ cnt' = [cnt EXCEPT ![b] = 1]
    /\ unk' = [u \in Threads |-> (unk[u] \ FactsAt(b)) \cup
                                   (IF u = t THEN {} ELSE {<<"write", t, b>>})]
    /\ carried' = [carried EXCEPT ![b] = {}]
    /\ UNCHANGED <<live, data>>

\* dealloc: the block is free again and forgets its past.
Deallocate(t, b) ==
    /\ live' = live \ {b}
    /\ cnt' = [cnt EXCEPT ![b] = 0]
    /\ data' = [data EXCEPT ![b] = Empty]
    /\ unk' = [u \in Threads |-> (IF u = t THEN Acquired(t, b) ELSE unk[u]) \ FactsAt(b)]
    /\ carried' = [carried EXCEPT ![b] = {}]

-----------------------------------------------------------------------------
(* Operations and program counters.                                        *)

\* push: push_str, push_char, insert*, extend_from_within; edit: remove, retain;
\* rewrite: what replace_range and make_ascii_case do to a shared buffer;
\* assign: clone_from; panic: the overflow path of make_shallow_clone.
Ops == {"none", "push", "reserve", "edit", "replace", "ascii", "rewrite", "clear",
        "truncate", "shrink", "convert", "drop", "assign", "panic"}

\* check/recheck: about to load the count; share: about to raise it; toInline and
\* toHeap: about to copy; resize and into: about to realloc a unique buffer;
\* write: about to write in place; release: about to lower the count; free: about
\* to dealloc.
PCs == {"idle", "check", "recheck", "share", "toInline", "toHeap",
        "resize", "into", "write", "release", "free"}

\* The operations that still write to the buffer once it is theirs.
WriteLater == {"push", "edit", "replace"}

AfterOwned(o) == IF o \in WriteLater THEN "write" ELSE "idle"

Idle(t) == pc[t] = "idle"

\* Thread t owns h exclusively (&mut) and is not inside an operation.
Exclusive(t, h) == Idle(t) /\ owner[h] = t /\ lent[h] = {}

OnHeap(h) == repr[h].buf # NoBuf

\* Thread t goes on at point p of operation o on h; at "idle" it is done with it.
Enter(t, o, h, p) ==
    /\ pc' = [pc EXCEPT ![t] = p]
    /\ op' = [op EXCEPT ![t] = IF p = "idle" THEN "none" ELSE o]
    /\ arg' = [arg EXCEPT ![t] = IF p = "idle" THEN Nobody ELSE h]

Goto(t, p) == Enter(t, op[t], arg[t], p)

MyBuf(t) == repr[arg[t]].buf

Init ==
    /\ owner = [h \in Handles |-> Nobody]
    /\ lent = [h \in Handles |-> {}]
    /\ repr = [h \in Handles |-> NewRepr]
    /\ live = {}
    /\ cnt = [b \in Buffers |-> 0]
    /\ data = [b \in Buffers |-> Empty]
    /\ pc = [t \in Threads |-> "idle"]
    /\ op = [t \in Threads |-> "none"]
    /\ arg = [t \in Threads |-> Nobody]
    /\ tmp = [t \in Threads |-> NewRepr]
    /\ old = [t \in Threads |-> NoBuf]
    /\ unk = [t \in Threads |-> {}]
    /\ carried = [b \in Buffers |-> {}]

-----------------------------------------------------------------------------
(* Handles come into being, move between threads, are borrowed and read.   *)

\* new, from_str and from_static_str of a text that needs no allocation.
NewInline(t, h, v) ==
    /\ Idle(t) /\ owner[h] = Nobody
    /\ owner' = [owner EXCEPT ![h] = t]
    /\ repr' = [repr EXCEPT ![h] = InlineRepr(v)]
    /\ UNCHANGED <<lent, memory, locals, unk, carried>>

\* from_str, new_with, with_capacity on the heap.
NewHeap(t, h, b, v) ==
    /\ Idle(t) /\ owner[h] = Nobody
    /\ Allocate(t, b, v, {})
    /\ owner' = [owner EXCEPT ![h] = t]
    /\ repr' = [repr EXCEPT ![h] = HeapRepr(b)]
    /\ UNCHANGED <<lent, locals>>

\* unsafe impl Send: a handle moves to another thread (channel, spawn, join).
Send(t, u, h) ==
    /\ t # u /\ Exclusive(t, h)
    /\ owner' = [owner EXCEPT ![h] = u]
    /\ HappensBefore(t, u)
    /\ UNCHANGED <<lent, repr, memory, locals, carried>>

\* unsafe impl Sync: a shared borrow is handed to another thread ...
Lend(t, u, h) ==
    /\ t # u /\ owner[h] = t /\ Idle(t) /\ u \notin lent[h]
    /\ lent' = [lent EXCEPT ![h] = @ \cup {u}]
    /\ HappensBefore(t, u)
    /\ UNCHANGED <<owner, repr, memory, locals, carried>>

\* ... and ends before the owner may use the handle exclusively again.
EndLend(t, u, h) ==
    /\ owner[h] = t /\ u \in lent[h] /\ Idle(u)
    /\ lent' = [lent EXCEPT ![h] = @ \ {u}]
    /\ HappensBefore(u, t)
    /\ UNCHANGED <<owner, repr, memory, locals, carried>>

\* len, as_str and as_bytes of a heap buffer through a shared borrow.
Read(t, h) ==
    /\ Idle(t) /\ t \in Accessors(h) /\ OnHeap(h)
    /\ Perform(t, {<<"read", t, repr[h].buf>>})
    /\ UNCHANGED <<handles, memory, locals>>

\* Mutant: no limit on the number of clones.
NeverOverflows(b) == FALSE

\* make_shallow_clone panics when the count it replaced was past RefLimit.
RefCountOverflows(b) == cnt[b] > RefLimit

\* Mutant: the panic leaves the new reference counted.
ShallowCloneKept(t, h, r, o) ==
    /\ FetchAdd(t, r.buf)
    /\ IF RefCountOverflows(r.buf) THEN UNCHANGED <<tmp, pc, op, arg>>
                                   ELSE /\ tmp' = [tmp EXCEPT ![t] = r]
                                        /\ Enter(t, o, h, "release")
    /\ UNCHANGED <<handles, live, data, old>>

\* make_shallow_clone of the representation r into tmp[t]; past RefLimit the new
\* reference is released and the thread panics.
ShallowClone(t, h, r, o) ==
    /\ FetchAdd(t, r.buf)
    /\ tmp' = [tmp EXCEPT ![t] = r]
    /\ Enter(t, IF RefCountOverflows(r.buf) THEN "panic" ELSE o, h, "release")
    /\ UNCHANGED <<handles, live, data, old>>

\* Mutant: a clone takes the length of the buffer instead of its source's own.
CloneUncut(t, h, k) ==
    /\ Idle(t) /\ t \in Accessors(h) /\ owner[k] = Nobody
    /\ \/ /\ OnHeap(h) /\ RefCountOverflows(repr[h].buf)
          /\ ShallowClone(t, h, repr[h], "panic")
       \/ /\ OnHeap(h) => ~RefCountOverflows(repr[h].buf)
          /\ owner' = [owner EXCEPT ![k] = t]
          /\ repr' = [repr EXCEPT ![k] = WithCut(repr[h], FALSE)]
          /\ IF OnHeap(h) THEN FetchAdd(t, repr[h].buf) ELSE UNCHANGED <<cnt, unk, carried>>
          /\ UNCHANGED <<lent, live, data, locals>>

\* Clone::clone. The new handle is complete as soon as the count is raised.
Clone(t, h, k) ==
    /\ Idle(t) /\ t \in Accessors(h) /\ owner[k] = Nobody
    /\ \/ /\ OnHeap(h) /\ RefCountOverflows(repr[h].buf)
          /\ ShallowClone(t, h, repr[h], "panic")
       \/ /\ OnHeap(h) => ~RefCountOverflows(repr[h].buf)
          /\ owner' = [owner EXCEPT ![k] = t]
          /\ repr' = [repr EXCEPT ![k] = repr[h]]
          /\ IF OnHeap(h) THEN FetchAdd(t, repr[h].buf) ELSE UNCHANGED <<cnt, unk, carried>>
          /\ UNCHANGED <<lent, live, data, locals>>

\* Clone::clone_from: raise the source's count, then release what h held.
CloneFrom(t, h, g) ==
    /\ Exclusive(t, h) /\ t \in Accessors(g) /\ g # h
    /\ CASE OnHeap(h) /\ OnHeap(g) -> ShallowClone(t, h, repr[g], "assign")
         [] OnHeap(h) /\ ~OnHeap(g) ->
              /\ tmp' = [tmp EXCEPT ![t] = repr[g]]
              /\ Enter(t, "assign", h, "release")
              /\ UNCHANGED <<handles, memory, old, unk, carried>>
         [] ~OnHeap(h) /\ OnHeap(g) /\ RefCountOverflows(repr[g].buf) ->
              ShallowClone(t, h, repr[g], "panic")
         [] OTHER ->
              /\ repr' = [repr EXCEPT ![h] = repr[g]]
              /\ IF OnHeap(g) THEN FetchAdd(t, repr[g].buf) ELSE UNCHANGED <<cnt, unk, carried>>
              /\ UNCHANGED <<owner, lent, live, data, locals>>

-----------------------------------------------------------------------------
(* Operations of the exclusive owner.                                      *)

\* A handle without a heap buffer is edited in place, ...
EditInline(t, h, v) ==
    /\ Exclusive(t, h) /\ ~OnHeap(h)
    /\ repr' = [repr EXCEPT ![h] = InlineRepr(v)]
    /\ UNCHANGED <<owner, lent, memory, locals, unk, carried>>

\* ... or moves to a new heap buffer when it outgrows the two words, ...
MoveToHeap(t, h, b, v) ==
    /\ Exclusive(t, h) /\ ~OnHeap(h)
    /\ Allocate(t, b, v, {})
    /\ repr' = [repr EXCEPT ![h] = HeapRepr(b)]
    /\ UNCHANGED <<owner, lent, locals>>

\* ... and is dropped without touching memory.
DropInline(t, h) ==
    /\ Exclusive(t, h) /\ ~OnHeap(h)
    /\ owner' = [owner EXCEPT ![h] = Nobody]
    /\ repr' = [repr EXCEPT ![h] = NewRepr]
    /\ UNCHANGED <<lent, memory, locals, unk, carried>>

\* Where an operation on a heap buffer starts, after it has read the length, the
\* text or the capacity. truncate and pop end at once when the length is in the
\* handle; only a length kept in the heap prefix makes them look at the count.
Entry == [o \in Ops |->
    CASE o \in {"push", "reserve"} -> {"check", "recheck"}
      [] o = "truncate"            -> {"idle", "check"}
      [] o = "shrink"              -> {"toInline", "recheck"}
      [] OTHER                     -> {"check"}]

\* The operations that read the block before they look at the count. Of the two
\* conversions into_immutable reads the text first and into_mutable only later: both
\* are given the earlier read, which adds an access and takes none away.
Reading == {"push", "reserve", "edit", "replace", "ascii", "truncate", "shrink", "convert"}

Begin(t, h, o) ==
    /\ Exclusive(t, h) /\ OnHeap(h)
    /\ o \in Calls \cap (Reading \cup {"clear"})
    /\ \E p \in Entry[o] :
          /\ Enter(t, o, h, p)
          /\ repr' = [repr EXCEPT ![h] = WithCut(@, @.cut \/ p = "idle")]
    /\ IF o \in Reading THEN Perform(t, {<<"read", t, repr[h].buf>>})
                        ELSE UNCHANGED <<unk, carried>>
    /\ UNCHANGED <<owner, lent, memory, tmp, old>>

\* Drop for LeanString and LeanStr: drop_in of a heap buffer.
Drop(t, h) ==
    /\ Exclusive(t, h) /\ OnHeap(h)
    /\ Enter(t, "drop", h, "release")
    /\ UNCHANGED <<handles, memory, tmp, old, unk, carried>>

\* is_unique: an Acquire load returns the latest count and learns what it carries,
\* or returns an older count that t has not yet seen overwritten.
Load(t, b, unique) ==
    /\ \/ /\ unique = (cnt[b] = 1)
          /\ unk' = [unk EXCEPT ![t] = Acquired(t, b)]
       \/ /\ <<IF unique THEN "one" ELSE "many", Nobody, b>> \in unk[t]
          /\ UNCHANGED unk
    /\ UNCHANGED carried

\* What follows the load, by operation: the points the code can go on at.
AfterCheck(o, unique) ==
    CASE o = "push"     -> IF unique THEN {"write"} ELSE {"toInline", "recheck"}
      [] o = "reserve"  -> IF unique THEN {"idle"} ELSE {"toInline", "recheck"}
      [] o = "edit"     -> IF unique THEN {"write"} ELSE {"toInline", "toHeap"}
      [] o = "replace"  -> IF unique THEN {"write", "recheck"} ELSE {"toInline", "toHeap"}
      [] o = "ascii"    -> IF unique THEN {"write"} ELSE {"toInline", "toHeap", "share"}
      [] o = "clear"    -> IF unique THEN {"idle"} ELSE {"release"}
      [] o = "truncate" -> IF unique THEN {"write"} ELSE {"toInline", "toHeap"}
      [] o = "convert"  -> IF unique THEN {"toInline", "into"} ELSE {"toInline", "toHeap"}
      [] OTHER          -> {}

\* replace_range and make_ascii_case build the changed text of a shared buffer
\* directly; truncate_unchecked copies the part it keeps.
OpAfterCheck(o, unique) ==
    IF o \in {"replace", "ascii"} /\ ~unique THEN "rewrite" ELSE o

\* The first look at the count: is_modifiable, or is_unique in clear, in
\* truncate_unchecked and in the conversions.
Check(t) ==
    /\ pc[t] = "check"
    /\ \E unique \in BOOLEAN : \E p \in AfterCheck(op[t], unique) :
          /\ Load(t, MyBuf(t), unique)
          /\ Enter(t, OpAfterCheck(op[t], unique), arg[t], p)
          /\ repr' = [repr EXCEPT ![arg[t]] = WithCut(@, @.cut \/ (op[t] = "clear" /\ unique))]
    /\ UNCHANGED <<owner, lent, memory, tmp, old>>

\* Mutant: reallocate trusts the caller and resizes whatever the count says.
RecheckTrusting(t) ==
    /\ pc[t] = "recheck"
    /\ Goto(t, "resize")
    /\ UNCHANGED <<handles, memory, tmp, old, unk, carried>>

\* reallocate looks again: another handle may have gone since the first look.
Recheck(t) ==
    /\ pc[t] = "recheck"
    /\ \E unique \in BOOLEAN :
          /\ Load(t, MyBuf(t), unique)
          /\ Goto(t, IF unique THEN "resize" ELSE "toHeap")
    /\ UNCHANGED <<handles, memory, tmp, old>>

\* Mutant: the copy is of the buffer's length, not of the handle's own.
CopiedWhole(t) == CASE op[t] = "rewrite"  -> Texts
                    [] op[t] = "truncate" -> {Empty}
                    [] OTHER              -> {data[MyBuf(t)]}

\* The texts a copy made by t may hold.
Copied(t) == CASE op[t] = "rewrite"  -> Texts
               [] op[t] = "truncate" -> {Empty}
               [] OTHER              -> {TextOf(repr[arg[t]])}

\* The copy fits inline: no allocation, then the old buffer is released.
CopyInline(t) ==
    /\ pc[t] = "toInline"
    /\ \E v \in Copied(t) : tmp' = [tmp EXCEPT ![t] = InlineRepr(v)]
    /\ Perform(t, {<<"read", t, MyBuf(t)>>})
    /\ Goto(t, "release")
    /\ UNCHANGED <<handles, memory, old>>

\* HeapBuffer::new, new_uninit or from_str_with_capacity, then the copy.
CopyHeap(t) ==
    /\ pc[t] = "toHeap"
    /\ \E b \in Buffers : \E v \in Copied(t) :
          /\ Allocate(t, b, v, {<<"read", t, MyBuf(t)>>})
          /\ tmp' = [tmp EXCEPT ![t] = HeapRepr(b)]
    /\ Goto(t, "release")
    /\ UNCHANGED <<handles, old>>

\* Mutant: the failed conversion forgets the handle instead of dropping it.
CopyFailsForgets(t) ==
    /\ pc[t] = "toHeap"
    /\ Goto(t, "idle")
    /\ IF op[t] = "convert"
       THEN /\ owner' = [owner EXCEPT ![arg[t]] = Nobody]
            /\ repr' = [repr EXCEPT ![arg[t]] = NewRepr]
       ELSE UNCHANGED <<owner, repr>>
    /\ UNCHANGED <<lent, memory, tmp, old, unk, carried>>

\* The allocation fails: the operation returns Err with the handle as it was;
\* a conversion, which consumes its handle, drops it.
CopyFails(t) ==
    /\ pc[t] = "toHeap"
    /\ IF op[t] = "convert" THEN Enter(t, "drop", arg[t], "release") ELSE Goto(t, "idle")
    /\ UNCHANGED <<handles, memory, tmp, old, unk, carried>>

\* The unchanged path of make_ascii_case: share with itself, then release.
Share(t) ==
    /\ pc[t] = "share"
    /\ ShallowClone(t, arg[t], repr[arg[t]], op[t])

\* HeapBuffer::realloc of a unique buffer, which may fail.
Resize(t) ==
    /\ pc[t] = "resize"
    /\ \/ Reallocate(t, MyBuf(t)) /\ Goto(t, AfterOwned(op[t]))
       \/ Goto(t, "idle") /\ UNCHANGED <<memory, unk, carried>>
    /\ UNCHANGED <<handles, tmp, old>>

\* into_exact and into_growable. When realloc fails, into_exact has moved the
\* bytes and writes text, prefix and header back, into_growable has touched
\* nothing; the caller then drops the handle.
Into(t) ==
    /\ pc[t] = "into"
    /\ \/ /\ Reallocate(t, MyBuf(t))
          /\ \/ Goto(t, "idle")
             \/ Enter(t, "drop", arg[t], "release")
       \/ /\ Enter(t, "drop", arg[t], "release")
          /\ UNCHANGED <<memory, unk, carried>>
    /\ UNCHANGED <<handles, tmp, old>>

\* The in-place write of an operation that has made the buffer its own; the text
\* of an inline copy is in the handle. truncate only lowers the length prefix.
Write(t) ==
    /\ pc[t] = "write"
    /\ \/ /\ MyBuf(t) = NoBuf
          /\ \E v \in Texts : repr' = [repr EXCEPT ![arg[t]] = InlineRepr(v)]
          /\ UNCHANGED <<data, unk, carried>>
       \/ /\ MyBuf(t) # NoBuf
          /\ Perform(t, {<<"write", t, MyBuf(t)>>})
          /\ \/ /\ op[t] = "truncate"
                /\ repr' = [repr EXCEPT ![arg[t]] = WithCut(@, TRUE)]
                /\ UNCHANGED data
             \/ /\ op[t] # "truncate"
                /\ repr' = [repr EXCEPT ![arg[t]] = WithCut(@, FALSE)]
                /\ \E v \in Texts : data' = [data EXCEPT ![MyBuf(t)] = v]
    /\ Goto(t, "idle")
    /\ UNCHANGED <<owner, lent, live, cnt, tmp, old>>

\* release: fetch_sub with Release. The handle takes the replacement (replace_inner),
\* or is gone (drop_in); on the overflow path only the local copy goes.
Release(t) ==
    /\ pc[t] = "release"
    /\ LET b == IF op[t] = "panic" THEN tmp[t].buf ELSE MyBuf(t)
       IN  /\ FetchSub(t, b)
           /\ IF cnt[b] = 1
              THEN Goto(t, "free") /\ old' = [old EXCEPT ![t] = b]
              ELSE Goto(t, AfterOwned(op[t])) /\ UNCHANGED old
    /\ owner' = IF op[t] = "drop" THEN [owner EXCEPT ![arg[t]] = Nobody] ELSE owner
    /\ repr' = IF op[t] = "panic" THEN repr ELSE [repr EXCEPT ![arg[t]] = tmp[t]]
    /\ tmp' = [tmp EXCEPT ![t] = NewRepr]
    /\ UNCHANGED <<lent, live, data>>

\* Mutant: the buffer's last reference goes and nothing deallocates it.
FreeForgets(t) ==
    /\ pc[t] = "free"
    /\ old' = [old EXCEPT ![t] = NoBuf]
    /\ Goto(t, AfterOwned(op[t]))
    /\ UNCHANGED <<handles, memory, tmp, unk, carried>>

\* on_last_reference: fence(Acquire), then dealloc.
Free(t) ==
    /\ pc[t] = "free"
    /\ Deallocate(t, old[t])
    /\ old' = [old EXCEPT ![t] = NoBuf]
    /\ Goto(t, AfterOwned(op[t]))
    /\ UNCHANGED <<handles, tmp>>

-----------------------------------------------------------------------------
\* A step inside an operation.
Step(t) ==
    \/ Check(t) \/ Recheck(t) \/ Share(t)
    \/ CopyInline(t) \/ CopyHeap(t) \/ CopyFails(t)
    \/ Resize(t) \/ Into(t) \/ Write(t) \/ Release(t) \/ Free(t)

\* A step of the program that uses the strings.
Call(t) == \E h \in Handles :
    \/ \E v \in Texts : NewInline(t, h, v) \/ EditInline(t, h, v)
    \/ \E b \in Buffers, v \in Texts : NewHeap(t, h, b, v) \/ MoveToHeap(t, h, b, v)
    \/ \E u \in Threads : Send(t, u, h) \/ Lend(t, u, h) \/ EndLend(t, u, h)
    \/ \E k \in Handles : Clone(t, h, k) \/ CloneFrom(t, h, k)
    \/ \E o \in Ops : Begin(t, h, o)
    \/ Read(t, h) \/ DropInline(t, h) \/ Drop(t, h)

Next == \E t \in Threads : Step(t) \/ Call(t)

\* No step inside an operation waits for anything: a running thread takes it.
Spec == Init /\ [][Next]_vars /\ \A t \in Threads : WF_vars(Step(t))

-----------------------------------------------------------------------------
(* Properties.                                                             *)

\* The types of all variables.
TypeOK ==
    /\ owner \in [Handles -> Threads \cup {Nobody}]
    /\ lent \in [Handles -> SUBSET Threads]
    /\ repr \in [Handles -> Repr]
    /\ live \in SUBSET Buffers
    /\ cnt \in [Buffers -> Nat]
    /\ data \in [Buffers -> Texts]
    /\ pc \in [Threads -> PCs]
    /\ op \in [Threads -> Ops]
    /\ arg \in [Threads -> Handles \cup {Nobody}]
    /\ tmp \in [Threads -> Repr]
    /\ old \in [Threads -> Buffers \cup {NoBuf}]
    /\ unk \in [Threads -> SUBSET Facts]
    /\ carried \in [Buffers -> SUBSET Accesses]

\* The count of an allocated buffer is the number of handles and local variables
\* that hold it: no clone, drop, copy, failed allocation or panic loses one or
\* counts one twice (make_shallow_clone, replace_inner, drop_in, release).
RefCount == \A b \in live : cnt[b] = Cardinality(Refs(b))

\* No use after free: whatever a handle, a local variable or a pending dealloc
\* refers to is allocated, and two threads never dealloc the same buffer.
NoDangling ==
    /\ \A b \in Buffers : Refs(b) # {} => b \in live
    /\ \A t \in Threads : pc[t] = "free" =>
          /\ old[t] \in live
          /\ Refs(old[t]) = {}
          /\ \A u \in Threads : old[u] = old[t] => u = t

\* No leak: an allocated buffer nobody refers to is about to be freed.
NoLeak == \A b \in live : Refs(b) = {} => \E t \in Threads : pc[t] = "free" /\ old[t] = b

\* is_unique is never fooled: a thread that writes in place, reallocates or
\* converts in place holds the only reference, although an earlier load of the
\* count may be what it relies on (is_unique, ensure_modifiable, reallocate).
UniqueIsUnique ==
    \A t \in Threads : pc[t] \in {"write", "resize", "into"} /\ MyBuf(t) # NoBuf =>
        /\ Refs(MyBuf(t)) = {arg[t]}
        /\ Accessors(arg[t]) = {t}

\* No data race. A thread about to write, to realloc or to dealloc knows of every
\* access to the buffer by anyone, and a thread that may read through a handle
\* knows of every write: the Relaxed, Acquire and Release of make_shallow_clone,
\* is_unique and release are strong enough.
NoDataRace ==
    /\ \A t \in Threads : pc[t] \in {"write", "resize", "into"} /\ MyBuf(t) # NoBuf =>
          unk[t] \cap AccessesAt(MyBuf(t)) = {}
    /\ \A t \in Threads : pc[t] = "free" =>
          Acquired(t, old[t]) \cap AccessesAt(old[t]) = {}
    /\ \A h \in Handles : OnHeap(h) =>
          \A t \in Accessors(h) : unk[t] \cap WritesAt(repr[h].buf) = {}

\* The count never runs more than one step per thread past the limit at which
\* make_shallow_clone panics, so with room above isize::MAX it cannot wrap.
CountBounded == \A b \in Buffers : cnt[b] <= RefLimit + 1 + Cardinality(Threads)

-----------------------------------------------------------------------------
(* Copy-on-write implements independent string values.                     *)

\* The text of every handle; a handle that does not exist counts as empty.
TextOfHandle == [h \in Handles |-> IF owner[h] = Nobody THEN Empty ELSE TextOf(repr[h])]

Values == INSTANCE StringValues WITH text <- TextOfHandle

\* Whatever is shared, a write to a buffer is never seen through another handle. Each
\* step of thread t is a turn of t among independent string values or changes no text
\* and no owner: it leaves the text of every handle t does not own alone, and changes
\* that of one handle at most. A step of Clone::clone makes its target a handle with
\* the text of its source, or panics at the limit and changes no text.
IndependentValues ==
    /\ Values!Spec
    /\ [][\A t \in Threads :
             /\ Step(t) \/ Call(t) => Values!Turn(t) \/ UNCHANGED Values!vars
             /\ \A h, k \in Handles :
                   Clone(t, h, k) => Values!Clone(t, h, k) \/ UNCHANGED Values!vars]_vars

\* Inside an operation its handle's text changes only as the operation says. A copy on
\* write, a realloc or a failed allocation keeps it: only the write that follows edits
\* it, and bytes past the handle's own length never come back. clone_from ends with
\* the text its source has at that moment, clear, truncate and drop with none.
EditsOnlyWhenDue ==
    [][\A t \in Threads : Step(t) =>
         LET now == TextOfHandle'[arg[t]]
         IN  \/ now = TextOfHandle[arg[t]]
             \/ op[t] = "rewrite"
             \/ pc[t] = "write" /\ op[t] # "truncate"
             \/ op[t] \in {"clear", "truncate", "drop"} /\ now = Empty
             \/ /\ op[t] = "assign"
                /\ \E g \in Handles \ {arg[t]} : t \in Accessors(g) /\ now = TextOfHandle[g]]_vars

\* A buffer nobody refers to any more is eventually given back to the allocator.
Reclaimed == \A b \in Buffers : (Refs(b) = {}) ~> (b \notin live \/ Refs(b) # {})

=============================================================================
