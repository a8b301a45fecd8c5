------------------------------ MODULE ReprInv -------------------------------
(***************************************************************************)
(* What is true of the handles and blocks between two calls, and what a    *)
(* call of Repr may do to them: the vocabulary of the proofs about the     *)
(* sequential half.                                                        *)
(***************************************************************************)
EXTENDS Repr

\* A byte of a block.
Cell == Bytes \cup {Uninit}

Block == [ty : Types, count : Nat \ {0}, size : Nat, prefixed : BOOLEAN,
          len : Nat \cup {UninitLen}, bytes : Seq(Cell)]

IsHeapOf(m) ==
    /\ m = [b \in DOMAIN m |-> m[b]]
    /\ DOMAIN m \subseteq Buffers
    /\ \A b \in DOMAIN m : m[b] \in Block /\ Len(m[b].bytes) <= CapMax

-----------------------------------------------------------------------------
(* Handles.                                                                *)

\* The length and the text of a heap handle with block k.
LenIn(r, k) == IF r.len = OnTheHeap THEN k.len ELSE r.len
TextIn(r, k) == SubSeq(k.bytes, 1, LenIn(r, k))

\* The heap handle r is right about its block k. A length word in use holds a length
\* that does not fit into the handle; an exact block is as long as its text.
Suits(r, k) ==
    /\ k.ty = r.ty
    /\ r.len = OnTheHeap => k.len > MaxLen
    /\ LenIn(r, k) <= Len(k.bytes)
    /\ r.ty = "LeanStr" => LenIn(r, k) = Len(k.bytes)
    /\ k.size = LayoutFor(r.ty, Len(k.bytes))
    /\ k.prefixed = IsLenHeapLayout(Len(k.bytes))
    /\ TextIn(r, k) \in Seq(Bytes)

\* A handle of the heap m.
IsInline(r) ==
    r \in [ty : Types, kind : {"inline"}, text : Seq(Bytes)] /\ Len(r.text) <= InlineMax
IsStatic(r) ==
    r \in [ty : Types, kind : {"static"}, text : Seq(Bytes)] /\ Len(r.text) <= StaticMax
IsOnHeap(r, m) ==
    r \in [ty : Types, kind : {"heap"}, buf : DOMAIN m, len : 0..OnTheHeap] /\ Suits(r, m[r.buf])

Valid(r, m) == IsInline(r) \/ IsStatic(r) \/ IsOnHeap(r, m)

-----------------------------------------------------------------------------
(* Steps.                                                                  *)

\* How many references to block b the handle r is, and how many there are.
Refs(r, b) == IF IsHeap(r) /\ r.buf = b THEN 1 ELSE 0
CountAt(m, b) == IF b \in DOMAIN m THEN m[b].count ELSE 0

\* Two blocks that differ in their counts at most.
Same(k, l) ==
    /\ k.ty = l.ty /\ k.size = l.size /\ k.prefixed = l.prefixed
    /\ k.len = l.len /\ k.bytes = l.bytes

\* What r shares with other handles stays as it is.
Spares(r, m, n) ==
    \A b \in DOMAIN m : m[b].count > Refs(r, b) => b \in DOMAIN n /\ Same(m[b], n[b])

\* Handle r is exchanged for q: nobody else sees a difference, and the blocks are
\* counted as before but for these two. To make a handle or to drop one is to
\* exchange it for one without a block.
Trade(r, m, q, n) ==
    /\ IsHeapOf(n)
    /\ Valid(q, n)
    /\ Spares(r, m, n)
    /\ \A b \in Buffers : CountAt(n, b) = CountAt(m, b) - Refs(r, b) + Refs(q, b)

\* The call succeeds, and handle r is exchanged for one of type ty with text t.
Gets(o, r, m, ty, t) ==
    /\ o = [ret |-> "ok", val |-> <<>>, r |-> o.r, m |-> o.m]
    /\ Trade(r, m, o.r, o.m)
    /\ o.r.ty = ty
    /\ AsBytes(o.r, o.m) = t

\* The call fails, and everything is as it was.
Fails(o, r, m) == o = [ret |-> "err", val |-> <<>>, r |-> r, m |-> m]

\* A call that gives r the text t, and one that makes a new handle while the caller
\* keeps r: an outcome of it.
Edits(o, r, m, t) == Gets(o, r, m, r.ty, t) \/ Fails(o, r, m)
Makes(o, r, m, ty, t) == Gets(o, Nothing, m, ty, t) \/ Fails(o, r, m)

-----------------------------------------------------------------------------
(* Stores.                                                                 *)

\* The handles of H with a reference to b.
Holders(H, b) == {h \in DOMAIN H : Refs(H[h], b) = 1}

\* The handles H and the heap m between two calls.
Sound(H, m) ==
    /\ H = [h \in DOMAIN H |-> H[h]]
    /\ IsFiniteSet(DOMAIN H)
    /\ IsHeapOf(m)
    /\ \A h \in DOMAIN H : Valid(H[h], m) /\ IsUtf8(AsBytes(H[h], m))
    /\ \A b \in Buffers : CountAt(m, b) = Cardinality(Holders(H, b))
=============================================================================
