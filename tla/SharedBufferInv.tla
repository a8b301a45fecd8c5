--------------------------- MODULE SharedBufferInv ---------------------------
(***************************************************************************)
(* The inductive invariant of SharedBuffer.  Its conjuncts say             *)
(*   Locals, Ownership: where a thread can be and who may use a handle;    *)
(*   NoDangling, RefCount, NoLeak: that the counts are right;              *)
(*   Alone: that a thread which was told, by a load or because it has just *)
(*     allocated the buffer, that nobody else uses it, still is alone with *)
(*     it and knows of every earlier access to it;                         *)
(*   OwnKnown: that a thread knows its own accesses;                       *)
(*   OldOneKnown: that an overwritten count of one deceives no handle;     *)
(*   WritesKnown: that every user of a buffer knows every write to it;     *)
(*   AccessesKept: that every access to a buffer is known to a user of a   *)
(*     reference that is still counted, or carried by the count itself.    *)
(*   DeadForgotten: that nothing is recorded about a buffer that is free.  *)
(***************************************************************************)
EXTENDS SharedBuffer

\* The points of an operation at which the handle still has its heap buffer.
AtHeap == {"check", "recheck", "share", "toInline", "toHeap", "resize", "into"}

\* The points of an operation at which the thread has exclusive use of its handle.
Holds(t) ==
    \/ pc[t] \in AtHeap \cup {"write"}
    \/ pc[t] = "release" /\ op[t] # "panic"
    \/ pc[t] = "free" /\ op[t] \notin {"panic", "drop"}

Locals == \A t \in Threads :
    /\ pc[t] # "release" => tmp[t] = NewRepr
    /\ pc[t] # "free" => old[t] = NoBuf
    /\ pc[t] = "free" => old[t] \in Buffers
    /\ Holds(t) => arg[t] \in Handles /\ owner[arg[t]] = t /\ lent[arg[t]] = {}
    /\ pc[t] \in AtHeap => MyBuf(t) # NoBuf
    /\ pc[t] = "share" => op[t] \notin WriteLater
    /\ pc[t] = "release" =>
         IF op[t] = "panic" THEN tmp[t].buf # NoBuf ELSE MyBuf(t) # NoBuf
    /\ op[t] = "drop" => tmp[t] = NewRepr
    /\ op[t] \in {"panic", "drop"} => pc[t] \in {"release", "free"}

Ownership == \A h \in Handles :
    /\ owner[h] = Nobody => repr[h] = NewRepr /\ lent[h] = {}
    /\ owner[h] \notin lent[h]

\* The threads that may use reference x to a buffer: those with access to a handle,
\* or the thread whose local variable it is.
Users(x) == IF x \in Handles THEN Accessors(x) ELSE {x}

\* The buffer thread t relies on having to itself (NoBuf: none), and the reference
\* through which it has it.
Relied(t) ==
    IF pc[t] \in {"write", "resize", "into"} \/ (pc[t] = "free" /\ op[t] \in WriteLater)
    THEN MyBuf(t)
    ELSE IF pc[t] = "release" /\ op[t] \in WriteLater THEN tmp[t].buf ELSE NoBuf

Holder(t) == IF pc[t] = "release" THEN t ELSE arg[t]

Alone == \A t \in Threads : Relied(t) # NoBuf =>
    /\ Refs(Relied(t)) = {Holder(t)}
    /\ unk[t] \cap AccessesAt(Relied(t)) = {}

OwnKnown == \A t \in Threads, b \in Buffers, k \in {"read", "write"} :
    <<k, t, b>> \notin unk[t]

OldOneKnown == \A b \in Buffers : \A x \in Refs(b) :
    \E t \in Users(x) : <<"one", Nobody, b>> \notin unk[t]

WritesKnown == \A b \in Buffers : \A x \in Refs(b) :
    \A t \in Users(x) : unk[t] \cap WritesAt(b) = {}

AccessesKept == \A b \in live : \A a \in AccessesAt(b) :
    a \in carried[b] \/ \E x \in Refs(b) : \E t \in Users(x) : a \notin unk[t]

DeadForgotten == \A b \in Buffers \ live : \A t \in Threads : unk[t] \cap FactsAt(b) = {}

\* The inductive invariant.
IInv ==
    /\ TypeOK /\ Locals /\ Ownership
    /\ NoDangling /\ RefCount /\ NoLeak
    /\ Alone
    /\ OwnKnown /\ OldOneKnown /\ WritesKnown /\ AccessesKept /\ DeadForgotten

\* The threads on the overflow path of make_shallow_clone that still hold the
\* reference to b they must not keep.
Panicking(b) == {t \in Threads : pc[t] = "release" /\ op[t] = "panic" /\ tmp[t].buf = b}

\* Only those threads take a count past the limit. (The inductive form of CountBounded.)
CountSlack == \A b \in Buffers : cnt[b] <= RefLimit + 1 + Cardinality(Panicking(b))

\* What a representation in a local variable is due to become: the text of the handle
\* itself, or what the operation makes of it. At the points before, the operation is one
\* that gets there. (The inductive form of EditsOnlyWhenDue.)
Pending == \A t \in Threads :
    /\ pc[t] \in AtHeap => op[t] # "assign"
    /\ pc[t] \in AtHeap \ {"check"} => op[t] # "clear"
    /\ pc[t] = "share" => op[t] = "rewrite"
    /\ pc[t] = "write" /\ op[t] = "truncate" => MyBuf(t) # NoBuf
    /\ pc[t] = "release" /\ op[t] = "clear" => tmp[t] = NewRepr
    /\ pc[t] = "release" /\ op[t] = "truncate" => TextOf(tmp[t]) = Empty
    /\ pc[t] = "release" /\ op[t] = "assign" =>
         \E g \in Handles \ {arg[t]} : t \in Accessors(g) /\ tmp[t] = repr[g]
    /\ pc[t] = "release" /\ op[t] \notin {"clear", "truncate", "assign", "rewrite", "drop", "panic"}
         => TextOf(tmp[t]) = TextOf(repr[arg[t]])

=============================================================================
