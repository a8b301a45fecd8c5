----------------------------- MODULE ReprProofs -----------------------------
(***************************************************************************)
(* What the operations of HeapBuffer and Repr do, for every size of words, *)
(* buffers and lengths: each is an exchange of handles that nobody else    *)
(* notices (Trade), gives its handle the right text, and breaks no safety  *)
(* contract.                                                               *)
(***************************************************************************)
EXTENDS ReprInv, TextProofs

-----------------------------------------------------------------------------
(* Sizes.                                                                  *)

\* The constants are numbers.
LEMMA Numbers ==
    /\ Word \in Nat /\ MaxLen \in Nat /\ CapMax \in Nat /\ LayoutMax \in Nat /\ UsizeMax \in Nat
    /\ Word > 0 /\ MaxLen <= CapMax /\ CapMax < UsizeMax
    /\ OnTheHeap \in Nat /\ OnTheHeap = MaxLen + 1
    /\ InlineMax \in Nat /\ InlineMax = 2 * Word /\ InlineMax < UsizeMax
    /\ StaticMax \in Nat /\ StaticMax < UsizeMax
BY SizesAssumption, LimitsAssumption DEF OnTheHeap, InlineMax

\* A layout is a number.
LEMMA LayoutIsNat ==
    ASSUME NEW ty, NEW cap \in Nat
    PROVE  LayoutFor(ty, cap) \in Nat
BY Numbers DEF LayoutFor, HeaderOffset

-----------------------------------------------------------------------------
(* Handles.                                                                *)

\* The fields of a block.
LEMMA BlockFields ==
    ASSUME NEW m, IsHeapOf(m), NEW b \in DOMAIN m
    PROVE  /\ m[b].ty \in Types /\ m[b].count \in Nat /\ m[b].count > 0 /\ m[b].size \in Nat
           /\ m[b].prefixed \in BOOLEAN /\ m[b].len \in Nat \cup {UninitLen}
           /\ m[b].bytes \in Seq(Cell) /\ Len(m[b].bytes) <= CapMax /\ b \in Buffers
BY DEF IsHeapOf, Block

\* A heap handle: its length, its text, and what it believes of its allocation.
LEMMA OnHeapFacts ==
    ASSUME NEW m, IsHeapOf(m), NEW r, IsOnHeap(r, m)
    PROVE  /\ IsHeap(r) /\ r.kind = "heap" /\ r.ty \in Types /\ r.buf \in DOMAIN m
           /\ HeapLen(r, m) = LenIn(r, m[r.buf]) /\ HeapBytes(r, m) = TextIn(r, m[r.buf])
           /\ HeapLen(r, m) \in Nat /\ HeapLen(r, m) <= HeapCapacity(r, m)
           /\ HeapCapacity(r, m) \in Nat /\ HeapCapacity(r, m) <= CapMax
           /\ HeapBytes(r, m) \in Seq(Bytes) /\ Len(HeapBytes(r, m)) = HeapLen(r, m)
           /\ (r.len = OnTheHeap <=> HeapLen(r, m) > MaxLen)
           /\ r.len = TextLen(HeapLen(r, m))
           /\ Believes(r, m)
<1> DEFINE k == m[r.buf]
<1>1. /\ r.ty \in Types /\ r.kind = "heap" /\ r.buf \in DOMAIN m /\ r.len \in 0..OnTheHeap
      /\ Suits(r, k)
  BY DEF IsOnHeap
<1>2. /\ k.bytes \in Seq(Cell) /\ Len(k.bytes) <= CapMax /\ k.len \in Nat \cup {UninitLen}
  BY <1>1, BlockFields
<1>3. HeapLen(r, m) = LenIn(r, k) /\ HeapBytes(r, m) = TextIn(r, k)
  BY DEF HeapLen, HeapBytes, LenIn, TextIn
<1>4. LenIn(r, k) \in Nat /\ (r.len = OnTheHeap <=> LenIn(r, k) > MaxLen)
  BY <1>1, <1>2, Numbers DEF Suits, LenIn, UninitLen
<1>5. LenIn(r, k) <= Len(k.bytes)
  BY <1>1 DEF Suits
<1>6. TextIn(r, k) \in Seq(Bytes) /\ Len(TextIn(r, k)) = LenIn(r, k)
  BY <1>1, <1>2, <1>4, <1>5 DEF Suits, TextIn
<1>7. r.len = TextLen(HeapLen(r, m))
  BY <1>1, <1>3, <1>4, Numbers DEF TextLen, LenIn
<1>8. Believes(r, m)
  <2>1. k.ty = r.ty /\ k.size = LayoutFor(r.ty, Len(k.bytes)) /\ k.prefixed = IsLenHeapLayout(Len(k.bytes))
        /\ (r.ty = "LeanStr" => LenIn(r, k) = Len(k.bytes))
    BY <1>1 DEF Suits
  <2>2. k.size = AllocLayout(r, m)
    BY <1>1, <1>3, <2>1 DEF AllocLayout, HeapCapacity, Types
  <2>3. k.prefixed = HasLenPrefix(r, m)
    <3>1. CASE r.ty = "LeanString"
      BY <2>1, <3>1 DEF HasLenPrefix, HeapCapacity
    <3>2. CASE r.ty = "LeanStr"
      BY <1>4, <2>1, <3>2 DEF HasLenPrefix, IsLenHeapLayout
    <3> QED
      BY <1>1, <3>1, <3>2 DEF Types
  <2> QED
    BY <2>1, <2>2, <2>3 DEF Believes
<1> QED
  BY <1>1, <1>2, <1>3, <1>4, <1>5, <1>6, <1>7, <1>8 DEF IsHeap, HeapCapacity

\* A handle of any kind: it is one of three, and its text is as long as it says.
LEMMA ValidFacts ==
    ASSUME NEW m, IsHeapOf(m), NEW r, Valid(r, m)
    PROVE  /\ r.ty \in Types /\ r.kind \in {"inline", "static", "heap"}
           /\ (IsHeap(r) => IsOnHeap(r, m) /\ r.buf \in DOMAIN m)
           /\ (r.kind = "inline" => IsInline(r)) /\ (r.kind = "static" => IsStatic(r))
           /\ AsBytes(r, m) \in Seq(Bytes) /\ Len(AsBytes(r, m)) = LenOf(r, m)
           /\ LenOf(r, m) \in Nat /\ LenOf(r, m) < UsizeMax
           /\ Capacity(r, m) \in Nat /\ LenOf(r, m) <= Capacity(r, m)
<1>1. CASE IsInline(r)
  BY <1>1, Numbers DEF IsInline, IsHeap, AsBytes, LenOf, Capacity
<1>2. CASE IsStatic(r)
  BY <1>2, Numbers DEF IsStatic, IsHeap, AsBytes, LenOf, Capacity
<1>3. CASE IsOnHeap(r, m)
  BY <1>3, Numbers, OnHeapFacts DEF IsHeap, AsBytes, LenOf, Capacity
<1> QED
  BY <1>1, <1>2, <1>3 DEF Valid

-----------------------------------------------------------------------------
(* Exchanges.                                                              *)

\* A handle without a block is the same in every heap.
LEMMA ElsewhereValid ==
    ASSUME NEW m, NEW n, NEW q, ~IsHeap(q), Valid(q, m)
    PROVE  Valid(q, n) /\ AsBytes(q, n) = AsBytes(q, m) /\ Capacity(q, n) = Capacity(q, m)
<1>1. IsInline(q) \/ IsStatic(q)
  BY DEF Valid, IsOnHeap, IsHeap
<1> QED
  BY <1>1 DEF Valid, IsInline, IsStatic, AsBytes, Capacity, IsHeap

\* Nothing is a handle.
LEMMA NothingValid ==
    ASSUME NEW m
    PROVE  Valid(Nothing, m) /\ ~IsHeap(Nothing) /\ \A b : Refs(Nothing, b) = 0
BY Numbers DEF Nothing, FromInline, Valid, IsInline, IsHeap, Refs, Types

\* A handle does not notice a change of the count.
LEMMA SameValid ==
    ASSUME NEW m, NEW n, NEW q, IsOnHeap(q, m), q.buf \in DOMAIN n, Same(m[q.buf], n[q.buf])
    PROVE  /\ IsOnHeap(q, n)
           /\ AsBytes(q, n) = AsBytes(q, m) /\ Capacity(q, n) = Capacity(q, m)
<1> DEFINE k == m[q.buf]
           l == n[q.buf]
<1>1. q \in [ty : Types, kind : {"heap"}, buf : DOMAIN n, len : 0..OnTheHeap]
  BY DEF IsOnHeap
<1>2. /\ k.ty = l.ty /\ k.size = l.size /\ k.prefixed = l.prefixed
      /\ k.len = l.len /\ k.bytes = l.bytes
  BY DEF Same
<1>3. Suits(q, l)
  BY <1>2 DEF IsOnHeap, Suits, LenIn, TextIn
<1>4. AsBytes(q, n) = AsBytes(q, m) /\ Capacity(q, n) = Capacity(q, m)
  BY <1>1, <1>2 DEF AsBytes, Capacity, IsHeap, HeapBytes, HeapLen, HeapCapacity
<1> QED
  BY <1>1, <1>3, <1>4 DEF IsOnHeap

\* References and counts are numbers.
LEMMA RefsAre ==
    ASSUME NEW r, NEW b
    PROVE  Refs(r, b) \in {0, 1} /\ (Refs(r, b) = 1 <=> IsHeap(r) /\ r.buf = b)
BY DEF Refs

\* The count of a block is a number, and positive just if the block is there.
LEMMA CountsAre ==
    ASSUME NEW m, IsHeapOf(m), NEW b
    PROVE  CountAt(m, b) \in Nat /\ (b \in DOMAIN m <=> CountAt(m, b) > 0)
BY BlockFields DEF CountAt

\* A handle is counted.
LEMMA ValidCounted ==
    ASSUME NEW m, IsHeapOf(m), NEW r, Valid(r, m), NEW b
    PROVE  CountAt(m, b) >= Refs(r, b)
BY ValidFacts, RefsAre, CountsAre

\* Who has a reference of their own is spared.
LEMMA SparedValid ==
    ASSUME NEW m, IsHeapOf(m), NEW n, NEW r, Spares(r, m, n),
           NEW q, Valid(q, m), \A b \in Buffers : CountAt(m, b) >= Refs(r, b) + Refs(q, b)
    PROVE  Valid(q, n) /\ AsBytes(q, n) = AsBytes(q, m) /\ Capacity(q, n) = Capacity(q, m)
<1>1. CASE ~IsHeap(q)
  BY <1>1, ElsewhereValid
<1>2. CASE IsHeap(q)
  <2>1. IsOnHeap(q, m) /\ q.buf \in DOMAIN m /\ q.buf \in Buffers
    BY <1>2, ValidFacts, BlockFields
  <2>2. Refs(q, q.buf) = 1
    BY <1>2, RefsAre
  <2>3. m[q.buf].count > Refs(r, q.buf)
    BY <2>1, <2>2, RefsAre, BlockFields DEF CountAt
  <2>4. q.buf \in DOMAIN n /\ Same(m[q.buf], n[q.buf])
    BY <2>1, <2>3 DEF Spares
  <2> QED
    BY <2>1, <2>4, SameValid DEF Valid
<1> QED
  BY <1>1, <1>2

\* No exchange at all.
LEMMA TradeSelf ==
    ASSUME NEW m, IsHeapOf(m), NEW r, Valid(r, m)
    PROVE  Trade(r, m, r, m)
<1>1. Spares(r, m, m)
  BY DEF Spares, Same
<1>2. \A b \in Buffers : CountAt(m, b) = CountAt(m, b) - Refs(r, b) + Refs(r, b)
  BY CountsAre, RefsAre
<1> QED
  BY <1>1, <1>2 DEF Trade

\* One exchange after the other.
LEMMA TradeTwice ==
    ASSUME NEW m, IsHeapOf(m), NEW r, NEW n, NEW q, Trade(r, m, q, n), NEW k, NEW p, Trade(q, n, p, k)
    PROVE  Trade(r, m, p, k)
<1>1. IsHeapOf(n) /\ IsHeapOf(k) /\ Valid(p, k)
  BY DEF Trade
<1>2. \A b \in Buffers : CountAt(n, b) = CountAt(m, b) - Refs(r, b) + Refs(q, b)
  BY DEF Trade
<1>3. \A b \in Buffers : CountAt(k, b) = CountAt(n, b) - Refs(q, b) + Refs(p, b)
  BY DEF Trade
<1>4. \A b \in Buffers : CountAt(k, b) = CountAt(m, b) - Refs(r, b) + Refs(p, b)
  BY <1>1, <1>2, <1>3, CountsAre, RefsAre
<1>5. ASSUME NEW b \in DOMAIN m, m[b].count > Refs(r, b)
      PROVE  b \in DOMAIN k /\ Same(m[b], k[b])
  <2>1. b \in DOMAIN n /\ Same(m[b], n[b])
    BY <1>5 DEF Trade, Spares
  <2>2. CountAt(n, b) = m[b].count - Refs(r, b) + Refs(q, b)
    BY <1>2, BlockFields DEF CountAt
  <2>3. n[b].count > Refs(q, b)
    BY <1>5, <2>1, <2>2, RefsAre, BlockFields DEF CountAt
  <2>4. b \in DOMAIN k /\ Same(n[b], k[b])
    BY <2>1, <2>3 DEF Trade, Spares
  <2> QED
    BY <2>1, <2>4 DEF Same
<1> QED
  BY <1>1, <1>4, <1>5 DEF Trade, Spares

\* A new handle q is made, then r is given up.
LEMMA TradeForNew ==
    ASSUME NEW m, IsHeapOf(m), NEW r, Valid(r, m), NEW n, NEW q, Trade(Nothing, m, q, n),
           NEW k, Trade(r, n, Nothing, k)
    PROVE  Trade(r, m, q, k) /\ AsBytes(q, k) = AsBytes(q, n) /\ Capacity(q, k) = Capacity(q, n)
<1>1. IsHeapOf(n) /\ Valid(q, n) /\ IsHeapOf(k)
  BY DEF Trade
<1>2. \A b \in Buffers : CountAt(n, b) = CountAt(m, b) + Refs(q, b)
  BY NothingValid, CountsAre, RefsAre DEF Trade
<1>3. \A b \in Buffers : CountAt(k, b) = CountAt(n, b) - Refs(r, b)
  BY <1>1, NothingValid, CountsAre, RefsAre DEF Trade
<1>4. \A b \in Buffers : CountAt(n, b) >= Refs(r, b) + Refs(q, b)
  BY <1>2, ValidCounted, CountsAre, RefsAre
<1>5. Spares(r, n, k)
  BY DEF Trade
<1>6. Valid(q, k) /\ AsBytes(q, k) = AsBytes(q, n) /\ Capacity(q, k) = Capacity(q, n)
  BY <1>1, <1>4, <1>5, SparedValid
<1>7. \A b \in Buffers : CountAt(k, b) = CountAt(m, b) - Refs(r, b) + Refs(q, b)
  BY <1>2, <1>3, CountsAre, RefsAre
<1>8. ASSUME NEW b \in DOMAIN m, m[b].count > Refs(r, b)
      PROVE  b \in DOMAIN k /\ Same(m[b], k[b])
  <2>1. m[b].count > 0 /\ b \in Buffers
    BY BlockFields
  <2>2. b \in DOMAIN n /\ Same(m[b], n[b])
    BY <2>1, NothingValid DEF Trade, Spares
  <2>3. n[b].count > Refs(r, b)
    BY <1>2, <1>8, <2>1, <2>2, RefsAre, BlockFields DEF CountAt
  <2>4. b \in DOMAIN k /\ Same(n[b], k[b])
    BY <1>5, <2>2, <2>3 DEF Spares
  <2> QED
    BY <2>2, <2>4 DEF Same
<1> QED
  BY <1>1, <1>6, <1>7, <1>8 DEF Trade, Spares

-----------------------------------------------------------------------------
(* Blocks.                                                                 *)

\* A heap in which one block is another one.
LEMMA BlockSet ==
    ASSUME NEW m, IsHeapOf(m), NEW b \in DOMAIN m, NEW k \in Block, Len(k.bytes) <= CapMax
    PROVE  LET n == [m EXCEPT ![b] = k] IN
           /\ IsHeapOf(n) /\ DOMAIN n = DOMAIN m /\ n[b] = k
           /\ \A x \in DOMAIN m : x # b => n[x] = m[x]
           /\ CountAt(n, b) = k.count /\ \A x : x # b => CountAt(n, x) = CountAt(m, x)
<1> DEFINE n == [m EXCEPT ![b] = k]
<1>1. DOMAIN n = DOMAIN m /\ n[b] = k /\ \A x \in DOMAIN m : x # b => n[x] = m[x]
  OBVIOUS
<1>2. n = [x \in DOMAIN m |-> n[x]]
  OBVIOUS
<1> HIDE DEF n
<1>3. IsHeapOf(n)
  BY <1>1, <1>2 DEF IsHeapOf
<1>4. CountAt(n, b) = k.count /\ \A x : x # b => CountAt(n, x) = CountAt(m, x)
  BY <1>1 DEF CountAt
<1> QED
  BY <1>1, <1>3, <1>4 DEF n

\* A block of another size.
LEMMA BlockWith ==
    ASSUME NEW k \in Block, NEW c \in Nat \ {0}, NEW size \in Nat, NEW bytes \in Seq(Cell)
    PROVE  [k EXCEPT !.count = c, !.size = size, !.bytes = bytes] \in Block
BY DEF Block

\* Whoever is alone with a block may change it and the handle, as long as they go together.
LEMMA UniqueEdit ==
    ASSUME NEW m, IsHeapOf(m), NEW r, IsOnHeap(r, m), Unshared(r, m),
           NEW k \in Block, Len(k.bytes) <= CapMax, k.count = 1,
           NEW q, q \in [ty : Types, kind : {"heap"}, buf : {r.buf}, len : 0..OnTheHeap], Suits(q, k)
    PROVE  LET n == [m EXCEPT ![r.buf] = k] IN
           /\ Trade(r, m, q, n) /\ AsBytes(q, n) = TextIn(q, k) /\ Capacity(q, n) = Len(k.bytes)
           /\ IsOnHeap(q, n) /\ Unshared(q, n)
<1> DEFINE n == [m EXCEPT ![r.buf] = k]
<1>1. r.buf \in DOMAIN m /\ IsHeap(r) /\ q.buf = r.buf /\ IsHeap(q) /\ q.kind = "heap"
  BY DEF IsOnHeap, IsHeap
<1>2. /\ IsHeapOf(n) /\ DOMAIN n = DOMAIN m /\ n[r.buf] = k
      /\ \A x \in DOMAIN m : x # r.buf => n[x] = m[x]
      /\ CountAt(n, r.buf) = k.count /\ \A x : x # r.buf => CountAt(n, x) = CountAt(m, x)
  <2>1. IsHeapOf(m) /\ k \in Block /\ Len(k.bytes) <= CapMax
    OBVIOUS
  <2> QED
    BY ONLY <1>1, <2>1, BlockSet
<1> HIDE DEF n
<1>3. IsOnHeap(q, n)
  BY <1>1, <1>2 DEF IsOnHeap
<1>4. AsBytes(q, n) = TextIn(q, k)
  BY <1>1, <1>2 DEF AsBytes, HeapBytes, HeapLen, TextIn, LenIn
<1>5. Capacity(q, n) = Len(k.bytes) /\ Unshared(q, n)
  BY <1>1, <1>2 DEF Capacity, HeapCapacity, Unshared
<1>6. Spares(r, m, n)
  <2>1. m[r.buf].count = 1 /\ Refs(r, r.buf) = 1
    BY <1>1, RefsAre DEF Unshared
  <2>2. ASSUME NEW x \in DOMAIN m, m[x].count > Refs(r, x) PROVE x \in DOMAIN n /\ Same(m[x], n[x])
    <3>1. x # r.buf
      BY <2>1, <2>2
    <3> QED
      BY <1>2, <3>1 DEF Same
  <2> QED
    BY <2>2 DEF Spares
<1>7. \A x \in Buffers : CountAt(n, x) = CountAt(m, x) - Refs(r, x) + Refs(q, x)
  <2>1. \A x : Refs(r, x) = Refs(q, x)
    BY <1>1 DEF Refs
  <2>2. CountAt(m, r.buf) = 1
    BY <1>1 DEF CountAt, Unshared
  <2> QED
    BY <1>2, <2>1, <2>2, CountsAre, RefsAre
<1> QED
  BY <1>2, <1>3, <1>4, <1>5, <1>6, <1>7 DEF Trade, Valid, n

\* dealloc and release: r gives up its reference.
LEMMA ReleaseIs ==
    ASSUME NEW m, IsHeapOf(m), NEW r, IsOnHeap(r, m), NEW o \in Release(r, m)
    PROVE  o = [ret |-> "ok", val |-> <<>>, r |-> r, m |-> o.m] /\ Trade(r, m, Nothing, o.m)
<1>1. r.buf \in DOMAIN m /\ IsHeap(r) /\ Believes(r, m)
  BY OnHeapFacts
<1>2. \A x : Refs(Nothing, x) = 0
  BY NothingValid
<1>3. CASE Unshared(r, m)
  <2> DEFINE n == [b \in DOMAIN m \ {r.buf} |-> m[b]]
  <2>1. o = [ret |-> "ok", val |-> <<>>, r |-> r, m |-> n]
    BY <1>1, <1>3 DEF Release, Dealloc, Ok, Outcome
  <2>2. DOMAIN n = DOMAIN m \ {r.buf} /\ \A x \in DOMAIN n : n[x] = m[x]
    OBVIOUS
  <2>3. n = [x \in DOMAIN n |-> n[x]]
    OBVIOUS
  <2> HIDE DEF n
  <2>4. IsHeapOf(n)
    BY <2>2, <2>3 DEF IsHeapOf
  <2>5. ASSUME NEW x \in DOMAIN m, m[x].count > Refs(r, x) PROVE x \in DOMAIN n /\ Same(m[x], n[x])
    <3>1. x # r.buf
      BY <1>1, <1>3, <2>5, RefsAre DEF Unshared
    <3> QED
      BY <2>2, <3>1 DEF Same
  <2>6. \A x \in Buffers : CountAt(n, x) = CountAt(m, x) - Refs(r, x) + Refs(Nothing, x)
    <3>1. CountAt(m, r.buf) = 1 /\ CountAt(n, r.buf) = 0
      BY <1>1, <1>3, <2>2 DEF CountAt, Unshared
    <3>2. \A x : x # r.buf => CountAt(m, x) = CountAt(n, x)
      BY <2>2 DEF CountAt
    <3> QED
      BY <1>1, <1>2, <3>1, <3>2, CountsAre, RefsAre
  <2>7. o.m = n
    BY <2>1
  <2> QED
    BY <2>1, <2>4, <2>5, <2>6, <2>7, NothingValid DEF Trade, Spares
<1>4. CASE ~Unshared(r, m)
  <2> DEFINE k == [m[r.buf] EXCEPT !.count = @ - 1]
             n == [m EXCEPT ![r.buf] = k]
  <2>1. o = [ret |-> "ok", val |-> <<>>, r |-> r, m |-> n]
    BY <1>1, <1>4 DEF Release, Ok, Outcome
  <2>2. m[r.buf] \in Block /\ m[r.buf].count > 1 /\ Len(m[r.buf].bytes) <= CapMax
    BY <1>1, <1>4, BlockFields DEF IsHeapOf, Unshared
  <2>3. k \in Block /\ Same(m[r.buf], k) /\ k.count = m[r.buf].count - 1 /\ Len(k.bytes) <= CapMax
    BY <2>2 DEF Block, Same
  <2> HIDE DEF k
  <2>4. /\ IsHeapOf(n) /\ DOMAIN n = DOMAIN m /\ n[r.buf] = k
        /\ \A x \in DOMAIN m : x # r.buf => n[x] = m[x]
        /\ CountAt(n, r.buf) = k.count /\ \A x : x # r.buf => CountAt(n, x) = CountAt(m, x)
    BY <1>1, <2>3, BlockSet
  <2> HIDE DEF n
  <2>5. Spares(r, m, n)
    BY <2>3, <2>4 DEF Spares, Same
  <2>6. \A x \in Buffers : CountAt(n, x) = CountAt(m, x) - Refs(r, x) + Refs(Nothing, x)
    <3>1. CountAt(m, r.buf) = m[r.buf].count
      BY <1>1 DEF CountAt
    <3> QED
      BY <1>1, <1>2, <2>3, <2>4, <3>1, CountsAre, RefsAre
  <2>7. o.m = n
    BY <2>1
  <2> QED
    BY <2>1, <2>4, <2>5, <2>6, <2>7, NothingValid DEF Trade
<1> QED
  BY <1>3, <1>4

\* drop_in: r is given up, whatever it is.
LEMMA DropInIs ==
    ASSUME NEW m, IsHeapOf(m), NEW r, Valid(r, m), NEW o \in DropIn(r, m)
    PROVE  o = [ret |-> "ok", val |-> <<>>, r |-> r, m |-> o.m] /\ Trade(r, m, Nothing, o.m)
<1>1. CASE IsHeap(r)
  <2>1. IsOnHeap(r, m)
    BY <1>1, ValidFacts
  <2> QED
    BY <1>1, <2>1, ReleaseIs DEF DropIn
<1>2. CASE ~IsHeap(r)
  <2>1. o = [ret |-> "ok", val |-> <<>>, r |-> r, m |-> m]
    BY <1>2 DEF DropIn, Ok, Outcome
  <2>2. Trade(r, m, Nothing, m)
    <3>1. \A x : Refs(r, x) = 0 /\ Refs(Nothing, x) = 0
      BY <1>2, NothingValid, RefsAre
    <3>2. Spares(r, m, m)
      BY DEF Spares, Same
    <3> QED
      BY <3>1, <3>2, NothingValid, CountsAre DEF Trade
  <2> QED
    BY <2>1, <2>2
<1> QED
  BY <1>1, <1>2

\* A heap with a new block.
LEMMA BlockNew ==
    ASSUME NEW m, IsHeapOf(m), NEW b \in Buffers \ DOMAIN m, NEW k \in Block, Len(k.bytes) <= CapMax,
           NEW n, DOMAIN n = DOMAIN m \cup {b}, n = [x \in DOMAIN n |-> n[x]],
           n[b] = k, \A x \in DOMAIN m : n[x] = m[x]
    PROVE  IsHeapOf(n)
BY DEF IsHeapOf

\* A free buffer, where there is one.
LEMMA FreeBuffer ==
    ASSUME NEW m, IsHeapOf(m), DOMAIN m # Buffers
    PROVE  Min(Buffers \ DOMAIN m) \in Buffers \ DOMAIN m
<1>1. Buffers \ DOMAIN m \subseteq Nat /\ Buffers \ DOMAIN m # {}
  BY BuffersAssumption DEF IsHeapOf
<1> QED
  BY <1>1, MinIs

\* new and from_str_with_capacity: a buffer of its own with cap bytes, or nothing.
LEMMA NewBufferIs ==
    ASSUME NEW m, IsHeapOf(m), NEW ty \in Types, NEW text \in Seq(Bytes), NEW cap \in Nat,
           Len(text) <= cap, ty = "LeanStr" => cap = Len(text),
           NEW r, NEW o \in NewBuffer(ty, text, cap, r, m)
    PROVE  /\ Makes(o, r, m, ty, text)
           /\ o.ret = "ok" => /\ IsOnHeap(o.r, o.m) /\ Unshared(o.r, o.m)
                              /\ Capacity(o.r, o.m) = cap
<1>1. CASE o \in Err(r, m)
  BY <1>1 DEF Err, Outcome, Makes, Fails
<1>2. CASE o \notin Err(r, m)
  <2> DEFINE b == Min(Buffers \ DOMAIN m)
             k == [ty |-> ty, count |-> 1, size |-> LayoutFor(ty, cap),
                   prefixed |-> IsLenHeapLayout(cap),
                   len |-> IF Len(text) > MaxLen THEN Len(text) ELSE UninitLen,
                   bytes |-> Pad(text, Len(text), cap)]
             q == [ty |-> ty, kind |-> "heap", buf |-> b, len |-> TextLen(Len(text))]
             n == [x \in DOMAIN m \cup {b} |-> IF x = b THEN k ELSE m[x]]
  <2>1. Fits(ty, cap) /\ DOMAIN m # Buffers /\ o \in Ok(q, n)
    BY <1>2 DEF NewBuffer
  <2>2. o = [ret |-> "ok", val |-> <<>>, r |-> q, m |-> n]
    BY <2>1 DEF Ok, Outcome
  <2>3. b \in Buffers \ DOMAIN m
    BY <2>1, FreeBuffer
  <2>4. PICK l \in Nat : l = Len(text)
    OBVIOUS
  <2>5. text \in Seq(Cell) /\ Uninit \in Cell
    BY DEF Cell
  <2> DEFINE d == Pad(text, l, cap)
  <2>6. d \in Seq(Cell) /\ Len(d) = cap /\ SubSeq(d, 1, l) = SubSeq(text, 1, l)
    <3>1. text \in Seq(Cell) /\ Uninit \in Cell /\ cap \in Nat /\ l \in Nat /\ l <= Len(text) /\ l <= cap
      BY <2>4, <2>5
    <3> QED
      BY ONLY <3>1, PadKeeps
  <2>7. SubSeq(d, 1, l) = text
    BY <2>4, <2>6
  <2>8. /\ k.ty = ty /\ k.count = 1 /\ k.size = LayoutFor(ty, cap) /\ k.prefixed = IsLenHeapLayout(cap)
        /\ k.len = (IF l > MaxLen THEN l ELSE UninitLen) /\ k.bytes = d
        /\ k = [ty |-> k.ty, count |-> k.count, size |-> k.size, prefixed |-> k.prefixed,
                len |-> k.len, bytes |-> k.bytes]
    BY <2>4
  <2>9. k \in Block /\ Len(k.bytes) <= CapMax
    <3>1. LayoutFor(ty, cap) \in Nat /\ cap <= CapMax
      BY <2>1, LayoutIsNat DEF Fits
    <3>2. IsLenHeapLayout(cap) \in BOOLEAN
      BY DEF IsLenHeapLayout
    <3>3. (IF l > MaxLen THEN l ELSE UninitLen) \in Nat \cup {UninitLen}
      OBVIOUS
    <3> HIDE DEF d, k
    <3> QED
      BY <2>6, <2>8, <3>1, <3>2, <3>3 DEF Block
  <2>10. q.ty = ty /\ q.kind = "heap" /\ q.buf = b /\ q.len = TextLen(l)
    BY <2>4
  <2>11. q \in [ty : Types, kind : {"heap"}, buf : {b}, len : 0..OnTheHeap]
    BY <2>4, Numbers DEF TextLen
  <2> HIDE DEF d, k, q
  <2>12. LenIn(q, k) = l
    BY <2>4, <2>8, <2>10, Numbers DEF LenIn, TextLen
  <2>13. TextIn(q, k) = text
    BY <2>7, <2>8, <2>12 DEF TextIn
  <2>14. Suits(q, k)
    <3>1. q.len = OnTheHeap => k.len > MaxLen
      BY <2>4, <2>8, <2>10, Numbers DEF TextLen
    <3> QED
      BY <2>4, <2>6, <2>8, <2>10, <2>12, <2>13, <3>1 DEF Suits
  <2>15. /\ IsHeapOf(n) /\ DOMAIN n = DOMAIN m \cup {b} /\ n[b] = k
         /\ \A x \in DOMAIN m : n[x] = m[x]
         /\ CountAt(n, b) = k.count /\ \A x : x # b => CountAt(n, x) = CountAt(m, x)
    <3> HIDE DEF b
    <3>1. /\ IsHeapOf(m) /\ DOMAIN n = DOMAIN m \cup {b} /\ n = [x \in DOMAIN n |-> n[x]]
          /\ n[b] = k /\ \A x \in DOMAIN m : n[x] = m[x]
      BY <2>3
    <3> HIDE DEF n
    <3>2. IsHeapOf(n)
      BY ONLY <2>3, <2>9, <3>1, BlockNew
    <3>3. CountAt(n, b) = k.count /\ \A x : x # b => CountAt(n, x) = CountAt(m, x)
      BY <2>3, <3>1 DEF CountAt
    <3> QED
      BY <3>1, <3>2, <3>3
  <2> HIDE DEF n, b
  <2>16. IsOnHeap(q, n)
    BY <2>10, <2>11, <2>14, <2>15 DEF IsOnHeap
  <2>17. AsBytes(q, n) = text /\ Capacity(q, n) = cap /\ Unshared(q, n)
    BY <2>6, <2>8, <2>10, <2>13, <2>15
    DEF AsBytes, Capacity, HeapBytes, HeapLen, HeapCapacity, IsHeap, TextIn, LenIn, Unshared
  <2>18. Trade(Nothing, m, q, n)
    <3>1. \A x : Refs(Nothing, x) = 0
      BY NothingValid
    <3>2. Spares(Nothing, m, n)
      BY <2>15 DEF Spares, Same
    <3>3. CountAt(m, b) = 0
      BY <2>3 DEF CountAt
    <3>4. \A x : Refs(q, x) = IF x = b THEN 1 ELSE 0
      BY <2>10 DEF Refs, IsHeap
    <3>5. \A x \in Buffers : CountAt(n, x) = CountAt(m, x) - Refs(Nothing, x) + Refs(q, x)
      BY <2>8, <2>15, <3>1, <3>3, <3>4, CountsAre
    <3> QED
      BY <2>15, <2>16, <3>2, <3>5 DEF Trade, Valid
  <2>19. o.r = q /\ o.m = n /\ o.ret = "ok" /\ o = [ret |-> "ok", val |-> <<>>, r |-> o.r, m |-> o.m]
    BY <2>2
  <2> QED
    BY <2>10, <2>16, <2>17, <2>18, <2>19 DEF Makes, Gets
<1> QED
  BY <1>1, <1>2

\* A handle without a block is exchanged for another one.
LEMMA TradeText ==
    ASSUME NEW m, IsHeapOf(m), NEW r, ~IsHeap(r), NEW q, ~IsHeap(q), Valid(q, m)
    PROVE  Trade(r, m, q, m)
<1>1. \A x : Refs(r, x) = 0 /\ Refs(q, x) = 0
  BY RefsAre
<1>2. Spares(r, m, m)
  BY DEF Spares, Same
<1> QED
  BY <1>1, <1>2, CountsAre DEF Trade

\* An inline handle.
LEMMA InlineIs ==
    ASSUME NEW m, NEW ty \in Types, NEW t \in Seq(Bytes), Len(t) <= InlineMax
    PROVE  LET q == FromInline(ty, t) IN
           /\ Valid(q, m) /\ ~IsHeap(q) /\ q.ty = ty /\ AsBytes(q, m) = t
           /\ IsModifiable(q, m) /\ Capacity(q, m) = InlineMax
BY DEF FromInline, Valid, IsInline, IsHeap, AsBytes, IsModifiable, IsUnique, Capacity

\* A static handle.
LEMMA StaticIs ==
    ASSUME NEW m, NEW ty \in Types, NEW t \in Seq(Bytes), Len(t) <= StaticMax
    PROVE  LET q == FromStatic(ty, t) IN
           Valid(q, m) /\ ~IsHeap(q) /\ q.ty = ty /\ AsBytes(q, m) = t
BY DEF FromStatic, Valid, IsStatic, IsHeap, AsBytes

\* A call that changes nothing.
LEMMA OkIs ==
    ASSUME NEW m, IsHeapOf(m), NEW r, Valid(r, m), NEW o \in Ok(r, m)
    PROVE  Gets(o, r, m, r.ty, AsBytes(r, m)) /\ o.r = r /\ o.m = m /\ o.ret = "ok"
<1>1. o = [ret |-> "ok", val |-> <<>>, r |-> r, m |-> m]
  BY DEF Ok, Outcome
<1>2. o.r = r /\ o.m = m /\ o = [ret |-> "ok", val |-> <<>>, r |-> o.r, m |-> o.m] /\ o.ret = "ok"
  BY <1>1
<1> QED
  BY <1>2, TradeSelf DEF Gets

\* A call that exchanges r for q.
LEMMA OkGets ==
    ASSUME NEW m, NEW r, NEW q, NEW n, Trade(r, m, q, n), NEW o \in Ok(q, n)
    PROVE  Gets(o, r, m, q.ty, AsBytes(q, n)) /\ o.r = q /\ o.m = n /\ o.ret = "ok"
<1>1. o = [ret |-> "ok", val |-> <<>>, r |-> q, m |-> n]
  BY DEF Ok, Outcome
<1>2. o.r = q /\ o.m = n /\ o = [ret |-> "ok", val |-> <<>>, r |-> o.r, m |-> o.m] /\ o.ret = "ok"
  BY <1>1
<1> QED
  BY <1>2 DEF Gets

\* A call that fails.
LEMMA ErrIs ==
    ASSUME NEW m, NEW r, NEW o \in Err(r, m)
    PROVE  Fails(o, r, m) /\ o.ret = "err" /\ o.r = r /\ o.m = m
BY DEF Err, Outcome, Fails

\* What Gets and Fails say of an outcome.
LEMMA GetsFacts ==
    ASSUME NEW o, NEW r, NEW m, NEW ty, NEW t, Gets(o, r, m, ty, t)
    PROVE  /\ o.ret = "ok" /\ o.val = <<>> /\ o.r.ty = ty /\ AsBytes(o.r, o.m) = t
           /\ Trade(r, m, o.r, o.m) /\ IsHeapOf(o.m) /\ Valid(o.r, o.m)
<1>1. o = [ret |-> "ok", val |-> <<>>, r |-> o.r, m |-> o.m]
  BY DEF Gets
<1>2. o.ret = "ok" /\ o.val = <<>>
  BY <1>1
<1> QED
  BY <1>2 DEF Gets, Trade

\* What a failed call returns and leaves.
LEMMA FailsFacts ==
    ASSUME NEW o, NEW r, NEW m, Fails(o, r, m)
    PROVE  o.ret = "err" /\ o.val = <<>> /\ o.r = r /\ o.m = m
BY DEF Fails

\* One call after the other.
LEMMA GetsTwice ==
    ASSUME NEW m, IsHeapOf(m), NEW r, NEW p, NEW s, NEW u, Gets(p, r, m, s, u),
           NEW o, NEW ty, NEW t, Gets(o, p.r, p.m, ty, t)
    PROVE  Gets(o, r, m, ty, t)
<1>1. Trade(r, m, p.r, p.m) /\ Trade(p.r, p.m, o.r, o.m)
  BY DEF Gets
<1>2. Trade(r, m, o.r, o.m)
  BY <1>1, TradeTwice
<1> QED
  BY <1>2 DEF Gets

-----------------------------------------------------------------------------
(* Writing.                                                                *)

\* The new length of a handle whose block is its own.
LEMMA HeapSetLenIs ==
    ASSUME NEW m, IsHeapOf(m), NEW r, IsOnHeap(r, m), r.ty = "LeanString", Unshared(r, m),
           NEW d \in Seq(Cell), Len(d) = HeapCapacity(r, m),
           NEW n \in Nat, n <= Len(d), SubSeq(d, 1, n) \in Seq(Bytes),
           NEW o \in HeapSetLen(r, m, d, n)
    PROVE  /\ Gets(o, r, m, "LeanString", SubSeq(d, 1, n))
           /\ IsOnHeap(o.r, o.m) /\ Unshared(o.r, o.m) /\ Capacity(o.r, o.m) = Len(d)
<1> DEFINE was == m[r.buf]
           q == [r EXCEPT !.len = TextLen(n)]
           e == Pad(d, n, Len(d))
           k == [was EXCEPT !.bytes = e, !.len = IF n > MaxLen THEN n ELSE UninitLen]
           h == [m EXCEPT ![r.buf] = k]
<1>1. r.buf \in DOMAIN m /\ r \in [ty : Types, kind : {"heap"}, buf : DOMAIN m, len : 0..OnTheHeap]
  BY DEF IsOnHeap
<1>2. /\ was \in Block /\ Len(was.bytes) <= CapMax /\ was.count = 1 /\ Len(was.bytes) = Len(d)
      /\ was.ty = r.ty /\ was.size = LayoutFor(r.ty, Len(d)) /\ was.prefixed = IsLenHeapLayout(Len(d))
  BY <1>1 DEF IsHeapOf, Unshared, HeapCapacity, IsOnHeap, Suits
<1>3. o = [ret |-> "ok", val |-> <<>>, r |-> q, m |-> h]
  BY <1>1 DEF HeapSetLen, Ok, Outcome
<1>4. Uninit \in Cell /\ Len(d) \in Nat
  BY DEF Cell
<1>5. e \in Seq(Cell) /\ Len(e) = Len(d) /\ SubSeq(e, 1, n) = SubSeq(d, 1, n)
  BY <1>4, PadKeeps
<1>6. q.ty = "LeanString" /\ q.kind = "heap" /\ q.buf = r.buf /\ q.len = TextLen(n)
  BY <1>1
<1>7. q \in [ty : Types, kind : {"heap"}, buf : {r.buf}, len : 0..OnTheHeap]
  <2>1. TextLen(n) \in 0..OnTheHeap
    BY Numbers DEF TextLen
  <2> QED
    BY <1>1, <2>1
<1> HIDE DEF e, q
<1>8. /\ k.bytes = e /\ k.len = (IF n > MaxLen THEN n ELSE UninitLen) /\ k.count = 1
      /\ k.ty = was.ty /\ k.size = was.size /\ k.prefixed = was.prefixed
  BY <1>2 DEF Block
<1>9. k \in Block
  BY <1>2, <1>5, Numbers DEF Block
<1> HIDE DEF k
<1>10. LenIn(q, k) = n
  BY <1>6, <1>8, Numbers DEF LenIn, TextLen
<1>11. TextIn(q, k) = SubSeq(d, 1, n)
  BY <1>5, <1>8, <1>10 DEF TextIn
<1>12. Suits(q, k)
  <2>1. q.len = OnTheHeap => k.len > MaxLen
    BY <1>6, <1>8, Numbers DEF TextLen
  <2> QED
    BY <1>2, <1>5, <1>6, <1>8, <1>10, <1>11, <2>1 DEF Suits
<1>13. Len(k.bytes) <= CapMax /\ Len(k.bytes) = Len(d)
  BY <1>2, <1>5, <1>8
<1>14. /\ Trade(r, m, q, h) /\ AsBytes(q, h) = TextIn(q, k) /\ Capacity(q, h) = Len(k.bytes)
       /\ IsOnHeap(q, h) /\ Unshared(q, h)
  BY <1>7, <1>8, <1>9, <1>12, <1>13, UniqueEdit
<1> HIDE DEF h
<1>15. o.r = q /\ o.m = h /\ o = [ret |-> "ok", val |-> <<>>, r |-> o.r, m |-> o.m]
  BY <1>3
<1> QED
  BY <1>6, <1>11, <1>13, <1>14, <1>15 DEF Gets

\* What a handle that may be written to shows of its data.
LEMMA DataIs ==
    ASSUME NEW m, IsHeapOf(m), NEW r, Valid(r, m), IsModifiable(r, m)
    PROVE  /\ Data(r, m) \in Seq(Cell) /\ Len(Data(r, m)) = Capacity(r, m)
           /\ SubSeq(Data(r, m), 1, LenOf(r, m)) = AsBytes(r, m)
<1>1. CASE IsHeap(r)
  <2>1. IsOnHeap(r, m) /\ r.buf \in DOMAIN m /\ r.kind = "heap"
    BY <1>1, ValidFacts DEF IsHeap
  <2>2. m[r.buf].bytes \in Seq(Cell)
    BY <2>1, BlockFields
  <2> QED
    BY <1>1, <2>1, <2>2 DEF Data, Capacity, HeapCapacity, LenOf, AsBytes, HeapBytes
<1>2. CASE ~IsHeap(r)
  <2>1. r.kind = "inline" /\ IsInline(r)
    BY <1>2, ValidFacts DEF IsModifiable, IsHeap
  <2>2. r.text \in Seq(Bytes) /\ Len(r.text) <= InlineMax
    BY <2>1 DEF IsInline
  <2>3. r.text \in Seq(Cell) /\ Uninit \in Cell /\ InlineMax \in Nat
    BY <2>2, Numbers DEF Cell
  <2>4. PICK n \in Nat : n = Len(r.text)
    BY <2>2
  <2>5. PICK t \in Seq(Cell) : t = r.text
    BY <2>3
  <2>6. n \in Nat /\ n <= Len(t) /\ n <= InlineMax
    BY <2>2, <2>4, <2>5
  <2>7. /\ Pad(t, n, InlineMax) \in Seq(Cell) /\ Len(Pad(t, n, InlineMax)) = InlineMax
        /\ SubSeq(Pad(t, n, InlineMax), 1, n) = SubSeq(t, 1, n)
    BY ONLY <2>3, <2>5, <2>6, PadKeeps
  <2>8. SubSeq(t, 1, n) = t
    BY <2>2, <2>4, <2>5
  <2> QED
    BY <1>2, <2>1, <2>4, <2>5, <2>7, <2>8 DEF Data, Capacity, LenOf, AsBytes
<1> QED
  BY <1>1, <1>2

\* set_len after the data has become d.
LEMMA SetLenIs ==
    ASSUME NEW m, IsHeapOf(m), NEW r, Valid(r, m), r.ty = "LeanString", IsModifiable(r, m),
           NEW d \in Seq(Cell), Len(d) = Capacity(r, m),
           NEW n \in Nat, n <= Len(d), SubSeq(d, 1, n) \in Seq(Bytes),
           NEW o \in SetLen(r, m, d, n)
    PROVE  /\ Gets(o, r, m, "LeanString", SubSeq(d, 1, n))
           /\ IsModifiable(o.r, o.m) /\ Capacity(o.r, o.m) = Capacity(r, m)
<1>1. CASE IsHeap(r)
  <2>1. IsOnHeap(r, m) /\ Capacity(r, m) = HeapCapacity(r, m) /\ Unshared(r, m)
    BY <1>1, ValidFacts DEF IsHeap, Capacity, IsModifiable, IsUnique
  <2>2. o \in HeapSetLen(r, m, d, n)
    BY <1>1 DEF SetLen
  <2>3. /\ Gets(o, r, m, "LeanString", SubSeq(d, 1, n))
        /\ IsOnHeap(o.r, o.m) /\ Unshared(o.r, o.m) /\ Capacity(o.r, o.m) = Len(d)
    BY <2>1, <2>2, HeapSetLenIs
  <2>4. o.r.kind = "heap"
    BY <2>3 DEF IsOnHeap
  <2> QED
    BY <2>3, <2>4 DEF IsModifiable, IsUnique
<1>2. CASE ~IsHeap(r)
  <2> DEFINE t == SubSeq(d, 1, n)
             q == FromInline("LeanString", t)
  <2>1. Capacity(r, m) = InlineMax
    BY <1>2, ValidFacts DEF IsHeap, Capacity, IsModifiable
  <2>2. o \in Ok(q, m)
    BY <1>2 DEF SetLen
  <2>3. Len(t) <= InlineMax /\ "LeanString" \in Types
    BY <2>1 DEF Types
  <2> HIDE DEF t
  <2>4. t \in Seq(Bytes)
    BY DEF t
  <2>5. /\ Valid(q, m) /\ ~IsHeap(q) /\ q.ty = "LeanString" /\ AsBytes(q, m) = t
        /\ IsModifiable(q, m) /\ Capacity(q, m) = InlineMax
    BY <2>3, <2>4, InlineIs
  <2> HIDE DEF q
  <2>6. Trade(r, m, q, m)
    BY <1>2, <2>5, TradeText
  <2>7. Gets(o, r, m, q.ty, AsBytes(q, m)) /\ o.r = q /\ o.m = m
    BY <2>2, <2>6, OkGets
  <2> QED
    BY <2>1, <2>5, <2>7 DEF t
<1> QED
  BY <1>1, <1>2

-----------------------------------------------------------------------------
(* Replacing.                                                              *)

\* A handle that stays does not notice that another one is made.
LEMMA ValidAfterMake ==
    ASSUME NEW m, IsHeapOf(m), NEW r, Valid(r, m), NEW q, NEW n, Trade(Nothing, m, q, n)
    PROVE  Valid(r, n) /\ AsBytes(r, n) = AsBytes(r, m) /\ Capacity(r, n) = Capacity(r, m)
<1>1. \A b \in Buffers : CountAt(m, b) >= Refs(Nothing, b) + Refs(r, b)
  BY ValidCounted, NothingValid, RefsAre, CountsAre
<1> QED
  BY <1>1, SparedValid DEF Trade

\* Who is alone with a block stays so when another handle goes.
LEMMA UniqueAfterDrop ==
    ASSUME NEW n, IsHeapOf(n), NEW q, IsModifiable(q, n), NEW r, NEW k, Trade(r, n, Nothing, k),
           Valid(q, n), Valid(q, k)
    PROVE  IsModifiable(q, k)
<1>1. CASE ~IsHeap(q)
  BY <1>1 DEF IsModifiable, IsUnique
<1>2. CASE IsHeap(q)
  <2>1. q.buf \in DOMAIN n /\ q.buf \in DOMAIN k /\ n[q.buf].count = 1 /\ IsHeapOf(k)
    BY <1>2, ValidFacts DEF IsModifiable, IsUnique, Unshared, Trade
  <2>2. q.buf \in Buffers
    BY <2>1, BlockFields
  <2>3. CountAt(k, q.buf) = CountAt(n, q.buf) - Refs(r, q.buf) + Refs(Nothing, q.buf)
    BY <2>2 DEF Trade
  <2>4. k[q.buf].count = 1
    BY <2>1, <2>3, NothingValid, RefsAre, BlockFields DEF CountAt
  <2> QED
    BY <1>2, <2>4 DEF IsModifiable, IsUnique, Unshared
<1> QED
  BY <1>1, <1>2

\* What a replacement is like after it has taken the place of the old handle.
KeepsAll(p, o) ==
    /\ o.r = p.r /\ Capacity(o.r, o.m) = Capacity(p.r, p.m)
    /\ IsModifiable(p.r, p.m) => IsModifiable(o.r, o.m)

\* replace_inner: q, which was made in the presence of r, takes its place.
LEMMA ReplaceInnerIs ==
    ASSUME NEW m, IsHeapOf(m), NEW r, Valid(r, m), NEW q, NEW n, Trade(Nothing, m, q, n),
           NEW o \in ReplaceInner(r, n, q)
    PROVE  /\ Gets(o, r, m, q.ty, AsBytes(q, n)) /\ o.r = q
           /\ Capacity(q, o.m) = Capacity(q, n) /\ (IsModifiable(q, n) => IsModifiable(q, o.m))
<1>1. IsHeapOf(n) /\ Valid(q, n)
  BY DEF Trade
<1>2. Valid(r, n)
  BY ValidAfterMake
<1>3. PICK d \in DropIn(r, n) : o \in IF d.ret = "ok" THEN Ok(q, d.m) ELSE {d}
  BY DEF ReplaceInner, Then
<1>4. d = [ret |-> "ok", val |-> <<>>, r |-> r, m |-> d.m] /\ Trade(r, n, Nothing, d.m)
  BY <1>1, <1>2, <1>3, DropInIs
<1>5. d.ret = "ok"
  BY <1>4
<1>6. o \in Ok(q, d.m)
  BY <1>3, <1>5
<1>7. Trade(r, m, q, d.m) /\ AsBytes(q, d.m) = AsBytes(q, n) /\ Capacity(q, d.m) = Capacity(q, n)
  BY <1>4, TradeForNew
<1>8. Gets(o, r, m, q.ty, AsBytes(q, d.m)) /\ o.r = q /\ o.m = d.m
  BY <1>6, <1>7, OkGets
<1>9. IsModifiable(q, n) => IsModifiable(q, d.m)
  BY <1>1, <1>4, <1>7, UniqueAfterDrop DEF Trade
<1> QED
  BY <1>7, <1>8, <1>9

\* A replacement that can be made takes the place of r, one that cannot leaves it alone.
LEMMA ReplaceIs ==
    ASSUME NEW m, IsHeapOf(m), NEW r, Valid(r, m), NEW made, NEW ty, NEW t,
           \A p \in made : Makes(p, r, m, ty, t), NEW o \in Replace(r, m, made)
    PROVE  \E p \in made : \/ Gets(o, r, m, ty, t) /\ p.ret = "ok" /\ KeepsAll(p, o)
                           \/ Fails(o, r, m) /\ o = p
<1>1. PICK p \in made : o \in IF p.ret = "ok" THEN ReplaceInner(r, p.m, p.r) ELSE {p}
  BY DEF Replace, Then
<1>2. CASE Gets(p, Nothing, m, ty, t)
  <2>1. p.ret = "ok" /\ p.r.ty = ty /\ AsBytes(p.r, p.m) = t /\ Trade(Nothing, m, p.r, p.m)
    BY <1>2, GetsFacts
  <2>2. o \in ReplaceInner(r, p.m, p.r)
    BY <1>1, <2>1
  <2>3. /\ Gets(o, r, m, p.r.ty, AsBytes(p.r, p.m)) /\ o.r = p.r
        /\ Capacity(p.r, o.m) = Capacity(p.r, p.m)
        /\ (IsModifiable(p.r, p.m) => IsModifiable(p.r, o.m))
    BY <2>1, <2>2, ReplaceInnerIs
  <2> QED
    BY <2>1, <2>3 DEF KeepsAll
<1>3. CASE Fails(p, r, m)
  <2>1. p.ret = "err"
    BY <1>3, FailsFacts
  <2> QED
    BY <1>1, <1>3, <2>1
<1> QED
  BY <1>1, <1>2, <1>3 DEF Makes

-----------------------------------------------------------------------------
(* Making handles.                                                         *)

\* from_str.
LEMMA FromStrIs ==
    ASSUME NEW m, IsHeapOf(m), NEW ty \in Types, NEW t \in Seq(Bytes),
           NEW r, NEW o \in FromStr(ty, t, r, m)
    PROVE  /\ Makes(o, r, m, ty, t)
           /\ o.ret = "ok" => IsModifiable(o.r, o.m) /\ Capacity(o.r, o.m) >= Len(t)
<1>1. PICK n \in Nat : n = Len(t)
  OBVIOUS
<1>2. CASE n <= InlineMax
  <2> DEFINE q == FromInline(ty, t)
  <2>1. o \in Ok(q, m)
    BY <1>1, <1>2 DEF FromStr
  <2>2. /\ Valid(q, m) /\ ~IsHeap(q) /\ q.ty = ty /\ AsBytes(q, m) = t
        /\ IsModifiable(q, m) /\ Capacity(q, m) = InlineMax
    BY <1>1, <1>2, InlineIs
  <2> HIDE DEF q
  <2>3. Trade(Nothing, m, q, m)
    BY <2>2, NothingValid, TradeText
  <2>4. Gets(o, Nothing, m, q.ty, AsBytes(q, m)) /\ o.r = q /\ o.m = m
    BY <2>1, <2>3, OkGets
  <2> QED
    BY <1>1, <1>2, <2>2, <2>4, Numbers DEF Makes
<1>3. CASE n > InlineMax
  <2>1. o \in NewBuffer(ty, t, n, r, m)
    BY <1>1, <1>3, Numbers DEF FromStr
  <2>2. /\ Makes(o, r, m, ty, t)
        /\ o.ret = "ok" => /\ IsOnHeap(o.r, o.m) /\ Unshared(o.r, o.m)
                           /\ Capacity(o.r, o.m) = n
    BY <1>1, <2>1, NewBufferIs
  <2>3. o.ret = "ok" => IsModifiable(o.r, o.m)
    BY <2>2 DEF IsOnHeap, IsModifiable, IsUnique
  <2> QED
    BY <1>1, <2>2, <2>3
<1> QED
  BY <1>1, <1>2, <1>3, Numbers

\* from_static_str.
LEMMA FromStaticStrIs ==
    ASSUME NEW m, IsHeapOf(m), NEW ty \in Types, NEW t \in Seq(Bytes),
           NEW r, NEW o \in FromStaticStr(ty, t, r, m)
    PROVE  /\ Makes(o, r, m, ty, t)
           /\ o.ret = "ok" => ~IsHeap(o.r) /\ o.m = m
<1>1. CASE o \in Err(r, m)
  BY <1>1, ErrIs DEF Makes
<1>2. CASE Len(t) <= InlineMax /\ o \in Ok(FromInline(ty, t), m)
  <2> DEFINE q == FromInline(ty, t)
  <2>1. Valid(q, m) /\ ~IsHeap(q) /\ q.ty = ty /\ AsBytes(q, m) = t
    BY <1>2, InlineIs
  <2> HIDE DEF q
  <2>2. Trade(Nothing, m, q, m)
    BY <2>1, NothingValid, TradeText
  <2>3. o \in Ok(q, m)
    BY <1>2 DEF q
  <2>4. Gets(o, Nothing, m, q.ty, AsBytes(q, m)) /\ o.r = q /\ o.m = m
    BY <2>2, <2>3, OkGets
  <2> QED
    BY <2>1, <2>4 DEF Makes
<1>3. CASE Len(t) <= StaticMax /\ o \in Ok(FromStatic(ty, t), m)
  <2> DEFINE q == FromStatic(ty, t)
  <2>1. Valid(q, m) /\ ~IsHeap(q) /\ q.ty = ty /\ AsBytes(q, m) = t
    BY <1>3, StaticIs
  <2> HIDE DEF q
  <2>2. Trade(Nothing, m, q, m)
    BY <2>1, NothingValid, TradeText
  <2>3. o \in Ok(q, m)
    BY <1>3 DEF q
  <2>4. Gets(o, Nothing, m, q.ty, AsBytes(q, m)) /\ o.r = q /\ o.m = m
    BY <2>2, <2>3, OkGets
  <2> QED
    BY <2>1, <2>4 DEF Makes
<1> QED
  BY <1>1, <1>2, <1>3, Numbers DEF FromStaticStr

\* with_capacity.
LEMMA WithCapacityIs ==
    ASSUME NEW m, IsHeapOf(m), NEW cap \in Nat, NEW r, NEW o \in WithCapacity(cap, r, m)
    PROVE  /\ Makes(o, r, m, "LeanString", <<>>)
           /\ o.ret = "ok" => IsModifiable(o.r, o.m) /\ Capacity(o.r, o.m) >= cap
<1>1. "LeanString" \in Types /\ InlineMax >= 0
  BY Numbers DEF Types
<1>4. PICK e \in Seq(Bytes) : e = <<>> /\ Len(e) = 0
  <2>1. <<>> \in Seq(Bytes) /\ Len(<<>>) = 0
    OBVIOUS
  <2> QED
    BY <2>1
<1>2. CASE cap <= InlineMax
  <2> DEFINE q == FromInline("LeanString", e)
  <2>1. o \in Ok(q, m)
    BY <1>2, <1>4 DEF WithCapacity
  <2>2. /\ Valid(q, m) /\ ~IsHeap(q) /\ q.ty = "LeanString" /\ AsBytes(q, m) = e
        /\ IsModifiable(q, m) /\ Capacity(q, m) = InlineMax
    BY <1>1, <1>4, InlineIs
  <2> HIDE DEF q
  <2>3. Trade(Nothing, m, q, m)
    BY <2>2, NothingValid, TradeText
  <2>4. Gets(o, Nothing, m, q.ty, AsBytes(q, m)) /\ o.r = q /\ o.m = m
    BY <2>1, <2>3, OkGets
  <2> QED
    BY <1>2, <1>4, <2>2, <2>4, Numbers DEF Makes
<1>3. CASE cap > InlineMax
  <2>1. o \in NewBuffer("LeanString", e, cap, r, m)
    BY <1>3, <1>4, Numbers DEF WithCapacity
  <2>2. /\ Makes(o, r, m, "LeanString", e)
        /\ o.ret = "ok" => /\ IsOnHeap(o.r, o.m) /\ Unshared(o.r, o.m)
                           /\ Capacity(o.r, o.m) = cap
    <3>1. Len(e) <= cap /\ ("LeanString" = "LeanStr" => cap = Len(e))
      BY <1>4
    <3> QED
      BY <1>1, <2>1, <3>1, NewBufferIs
  <2>3. o.ret = "ok" => IsModifiable(o.r, o.m)
    BY <2>2 DEF IsOnHeap, IsModifiable, IsUnique
  <2> QED
    BY <1>4, <2>2, <2>3
<1> QED
  BY <1>2, <1>3, Numbers

\* make_shallow_clone.
LEMMA CloneIs ==
    ASSUME NEW m, IsHeapOf(m), NEW r, Valid(r, m), NEW o \in MakeShallowClone(r, m)
    PROVE  Gets(o, Nothing, m, r.ty, AsBytes(r, m)) /\ o.r = r
<1>1. CASE ~IsHeap(r)
  <2>1. o \in Ok(r, m)
    BY <1>1 DEF MakeShallowClone
  <2>2. Trade(Nothing, m, r, m)
    BY <1>1, NothingValid, TradeText
  <2> QED
    BY <2>1, <2>2, OkGets
<1>2. CASE IsHeap(r)
  <2> DEFINE k == [m[r.buf] EXCEPT !.count = @ + 1]
             n == [m EXCEPT ![r.buf] = k]
  <2>1. IsOnHeap(r, m) /\ r.buf \in DOMAIN m
    BY <1>2, ValidFacts
  <2>2. m[r.buf] \in Block /\ m[r.buf].count \in Nat /\ Len(m[r.buf].bytes) <= CapMax
    BY <2>1, BlockFields DEF IsHeapOf
  <2>3. k \in Block /\ Same(m[r.buf], k) /\ k.count = m[r.buf].count + 1 /\ Len(k.bytes) <= CapMax
    BY <2>2 DEF Block, Same
  <2>4. o \in Ok(r, n)
    BY <1>2, <2>1 DEF MakeShallowClone
  <2> HIDE DEF k
  <2>5. /\ IsHeapOf(n) /\ DOMAIN n = DOMAIN m /\ n[r.buf] = k
        /\ \A x \in DOMAIN m : x # r.buf => n[x] = m[x]
        /\ CountAt(n, r.buf) = k.count /\ \A x : x # r.buf => CountAt(n, x) = CountAt(m, x)
    BY <2>1, <2>3, BlockSet
  <2> HIDE DEF n
  <2>6. IsOnHeap(r, n) /\ AsBytes(r, n) = AsBytes(r, m)
    BY <2>1, <2>3, <2>5, SameValid
  <2>7. Spares(Nothing, m, n)
    BY <2>3, <2>5 DEF Spares, Same
  <2>8. \A x \in Buffers : CountAt(n, x) = CountAt(m, x) - Refs(Nothing, x) + Refs(r, x)
    <3>1. CountAt(m, r.buf) = m[r.buf].count
      BY <2>1 DEF CountAt
    <3>2. \A x : Refs(Nothing, x) = 0 /\ Refs(r, x) = IF x = r.buf THEN 1 ELSE 0
      BY <1>2, NothingValid DEF Refs
    <3> QED
      BY <1>2, <2>3, <2>5, <3>1, <3>2, CountsAre
  <2>9. Trade(Nothing, m, r, n)
    BY <2>5, <2>6, <2>7, <2>8 DEF Trade, Valid
  <2> QED
    BY <2>4, <2>6, <2>9, OkGets
<1> QED
  BY <1>1, <1>2

-----------------------------------------------------------------------------
(* Room.                                                                   *)

\* A handle with room for a text of n bytes that it may write to.
Roomy(r, m, n) == IsModifiable(r, m) /\ Capacity(r, m) >= n

\* realloc of a buffer of one's own, in place or through a copy.
LEMMA ReallocIs ==
    ASSUME NEW m, IsHeapOf(m), NEW r, IsOnHeap(r, m), r.ty = "LeanString", Unshared(r, m),
           NEW cap \in Nat, HeapLen(r, m) <= cap, NEW o \in Realloc(r, m, cap)
    PROVE  /\ Edits(o, r, m, HeapBytes(r, m))
           /\ o.ret = "ok" => Roomy(o.r, o.m, cap)
<1> DEFINE was == m[r.buf]
           t == HeapBytes(r, m)
           l == HeapLen(r, m)
           at == IsLenHeapLayout(cap)
<1>1. /\ Believes(r, m) /\ l \in Nat /\ t \in Seq(Bytes) /\ Len(t) = l /\ r.buf \in DOMAIN m
      /\ IsHeap(r) /\ l = LenIn(r, was) /\ t = TextIn(r, was) /\ Valid(r, m) /\ "LeanString" \in Types
  BY OnHeapFacts DEF Valid, Types
<1> HIDE DEF t, l
<1>2. CASE o \in Err(r, m)
  BY <1>2, ErrIs DEF Edits
<1>3. CASE /\ cap <= CapMax /\ at # IsLenHeapLayout(HeapCapacity(r, m)) /\ o \notin Err(r, m)
  <2>1. ~(~Unshared(r, m) \/ HeapLen(r, m) > cap \/ ~Believes(r, m)) /\ ~(cap > CapMax)
    BY <1>1, <1>3, Numbers DEF l
  <2>2. PICK p \in NewBuffer("LeanString", t, cap, r, m) :
           o \in IF p.ret = "ok"
                 THEN UNION {IF d.ret = "ok" THEN Ok(p.r, d.m) ELSE {d} : d \in Dealloc(r, p.m)}
                 ELSE {p}
    BY <1>3, <2>1 DEF Realloc, Then, t
  <2>3. /\ Makes(p, r, m, "LeanString", t)
        /\ p.ret = "ok" => /\ IsOnHeap(p.r, p.m) /\ Unshared(p.r, p.m)
                           /\ Capacity(p.r, p.m) = cap
    <3>1. Len(t) <= cap /\ ("LeanString" = "LeanStr" => cap = Len(t))
      BY <1>1 DEF l
    <3>2. p \in NewBuffer("LeanString", t, cap, r, m)
      BY <2>2
    <3> QED
      BY <1>1, <3>1, <3>2, NewBufferIs
  <2>4. CASE Fails(p, r, m)
    BY <2>2, <2>4, FailsFacts DEF Edits
  <2>5. CASE Gets(p, Nothing, m, "LeanString", t)
    <3>1. /\ p.ret = "ok" /\ p.r.ty = "LeanString" /\ AsBytes(p.r, p.m) = t
          /\ Trade(Nothing, m, p.r, p.m) /\ IsHeapOf(p.m) /\ Valid(p.r, p.m)
      BY <2>5, GetsFacts
    <3>2. PICK d \in Dealloc(r, p.m) : o \in IF d.ret = "ok" THEN Ok(p.r, d.m) ELSE {d}
      BY <2>2, <3>1
    <3>3. Unshared(r, p.m)
      <4>1. CountAt(p.m, r.buf) = CountAt(m, r.buf) - Refs(Nothing, r.buf) + Refs(p.r, r.buf)
        BY <1>1, <3>1, BlockFields DEF Trade
      <4>2. CountAt(m, r.buf) = 1 /\ Refs(Nothing, r.buf) = 0
        BY <1>1, NothingValid DEF CountAt, Unshared
      <4>3. Refs(p.r, r.buf) = 0
        <5>1. SUFFICES ASSUME Refs(p.r, r.buf) = 1 PROVE FALSE
          BY RefsAre
        <5>2. p.r.buf = r.buf /\ p.r.buf \in DOMAIN p.m
          BY <2>3, <3>1, <5>1, RefsAre DEF IsOnHeap
        <5> QED
          BY <2>3, <3>1, <4>1, <4>2, <5>1, <5>2 DEF Unshared, CountAt
      <4> QED
        BY <4>1, <4>2, <4>3 DEF CountAt, Unshared
    <3>4. Valid(r, p.m)
      BY <1>1, <3>1, ValidAfterMake
    <3>5. d \in DropIn(r, p.m)
      BY <1>1, <3>2, <3>3 DEF DropIn, Release
    <3>6. o \in ReplaceInner(r, p.m, p.r)
      BY <3>2, <3>5 DEF ReplaceInner, Then
    <3>7. /\ Gets(o, r, m, p.r.ty, AsBytes(p.r, p.m)) /\ o.r = p.r
          /\ Capacity(p.r, o.m) = Capacity(p.r, p.m)
          /\ (IsModifiable(p.r, p.m) => IsModifiable(p.r, o.m))
      BY <1>1, <3>1, <3>6, ReplaceInnerIs
    <3>8. IsModifiable(p.r, p.m)
      BY <2>3, <3>1 DEF IsModifiable, IsUnique, IsOnHeap
    <3> QED
      BY <2>3, <3>1, <3>7, <3>8 DEF Edits, Roomy, t
  <2> QED
    BY <2>3, <2>4, <2>5 DEF Makes
<1>4. CASE /\ cap <= CapMax /\ at = IsLenHeapLayout(HeapCapacity(r, m)) /\ o \notin Err(r, m)
  <2> DEFINE e == Pad(was.bytes, l, cap)
             k == [was EXCEPT !.count = 1, !.size = LayoutFor("LeanString", cap), !.bytes = e]
             h == [m EXCEPT ![r.buf] = k]
  <2>1. o \in Ok(r, h)
    BY <1>1, <1>4, Numbers DEF Realloc, l
  <2>2. /\ was \in Block /\ was.bytes \in Seq(Cell) /\ l <= Len(was.bytes)
        /\ was.ty = r.ty /\ was.prefixed = IsLenHeapLayout(Len(was.bytes))
        /\ (r.len = OnTheHeap => was.len > MaxLen)
    BY <1>1, BlockFields DEF IsHeapOf, IsOnHeap, Suits
  <2>3. Uninit \in Cell
    BY DEF Cell
  <2>4. e \in Seq(Cell) /\ Len(e) = cap /\ SubSeq(e, 1, l) = SubSeq(was.bytes, 1, l)
    <3>1. PICK b \in Seq(Cell) : b = was.bytes
      BY <2>2
    <3>2. l \in Nat /\ l <= Len(b) /\ cap \in Nat /\ l <= cap
      BY <1>1, <2>2, <3>1 DEF l
    <3>3. /\ Pad(b, l, cap) \in Seq(Cell) /\ Len(Pad(b, l, cap)) = cap
          /\ SubSeq(Pad(b, l, cap), 1, l) = SubSeq(b, 1, l)
      BY ONLY <2>3, <3>1, <3>2, PadKeeps
    <3> QED
      BY <3>1, <3>3
  <2> HIDE DEF e
  <2>5. LayoutFor("LeanString", cap) \in Nat
    BY LayoutIsNat
  <2>6. /\ k \in Block /\ k.bytes = e /\ k.count = 1 /\ k.size = LayoutFor("LeanString", cap)
        /\ k.ty = was.ty /\ k.prefixed = was.prefixed /\ k.len = was.len
    <3>1. k \in Block
      BY <2>2, <2>4, <2>5, 1 \in Nat \ {0}, BlockWith
    <3>2. /\ k.bytes = e /\ k.count = 1 /\ k.size = LayoutFor("LeanString", cap)
          /\ k.ty = was.ty /\ k.prefixed = was.prefixed /\ k.len = was.len
      BY <2>2 DEF Block
    <3> QED
      BY <3>1, <3>2
  <2> HIDE DEF k
  <2>7. LenIn(r, k) = l /\ TextIn(r, k) = t
    <3>1. LenIn(r, k) = l
      BY <1>1, <2>6 DEF LenIn
    <3>2. t = SubSeq(was.bytes, 1, l)
      BY <1>1 DEF TextIn
    <3> QED
      BY <2>4, <2>6, <3>1, <3>2 DEF TextIn
  <2>8. Suits(r, k)
    <3>1. was.prefixed = IsLenHeapLayout(cap)
      BY <1>4, <2>2 DEF HeapCapacity
    <3> QED
      BY <1>1, <2>2, <2>4, <2>6, <2>7, <3>1 DEF Suits, l
  <2>9. r \in [ty : Types, kind : {"heap"}, buf : {r.buf}, len : 0..OnTheHeap]
    BY DEF IsOnHeap
  <2>10. Len(k.bytes) <= CapMax /\ Len(k.bytes) = cap
    BY <1>4, <2>4, <2>6
  <2>11. /\ Trade(r, m, r, h) /\ AsBytes(r, h) = TextIn(r, k) /\ Capacity(r, h) = Len(k.bytes)
         /\ IsOnHeap(r, h) /\ Unshared(r, h)
    BY <2>6, <2>8, <2>9, <2>10, UniqueEdit
  <2> HIDE DEF h
  <2>12. Gets(o, r, m, r.ty, AsBytes(r, h)) /\ o.r = r /\ o.m = h
    BY <2>1, <2>11, OkGets
  <2> QED
    BY <2>7, <2>10, <2>11, <2>12 DEF Edits, Roomy, IsModifiable, IsUnique, IsOnHeap, t
<1>5. cap > CapMax => o \in Err(r, m)
  BY <1>1 DEF Realloc, l
<1>6. cap > CapMax \/ cap <= CapMax
  BY Numbers
<1> QED
  BY <1>2, <1>3, <1>4, <1>5, <1>6

\* reallocate: room for cap bytes.
LEMMA ReallocateIs ==
    ASSUME NEW m, IsHeapOf(m), NEW r, Valid(r, m), r.ty = "LeanString",
           NEW cap \in Nat, LenOf(r, m) <= cap, NEW o \in Reallocate(r, m, cap)
    PROVE  /\ Edits(o, r, m, AsBytes(r, m))
           /\ o.ret = "ok" => Roomy(o.r, o.m, cap)
<1> DEFINE t == AsBytes(r, m)
<1>1. t \in Seq(Bytes) /\ Len(t) = LenOf(r, m) /\ LenOf(r, m) \in Nat /\ "LeanString" \in Types
  BY ValidFacts DEF Types
<1>2. CASE cap <= InlineMax
  <2> DEFINE q == FromInline("LeanString", t)
  <2>1. o \in ReplaceInner(r, m, q)
    BY <1>1, <1>2 DEF Reallocate
  <2>2. Len(t) <= InlineMax
    BY <1>1, <1>2, Numbers
  <2> HIDE DEF t
  <2>3. /\ Valid(q, m) /\ ~IsHeap(q) /\ q.ty = "LeanString" /\ AsBytes(q, m) = t
        /\ IsModifiable(q, m) /\ Capacity(q, m) = InlineMax
    BY <1>1, <2>2, InlineIs
  <2> HIDE DEF q
  <2>4. Trade(Nothing, m, q, m)
    BY <2>3, NothingValid, TradeText
  <2>5. /\ Gets(o, r, m, q.ty, AsBytes(q, m)) /\ o.r = q
        /\ Capacity(q, o.m) = Capacity(q, m) /\ (IsModifiable(q, m) => IsModifiable(q, o.m))
    BY <2>1, <2>4, ReplaceInnerIs
  <2> QED
    BY <1>2, <2>3, <2>5, Numbers DEF Edits, Roomy, t
<1>3. CASE cap > InlineMax /\ IsHeap(r) /\ IsUnique(r, m)
  <2>1. o \in Realloc(r, m, cap)
    BY <1>1, <1>3, Numbers DEF Reallocate
  <2>2. IsOnHeap(r, m) /\ Unshared(r, m) /\ HeapLen(r, m) <= cap /\ t = HeapBytes(r, m)
    BY <1>3, ValidFacts DEF IsUnique, LenOf, AsBytes
  <2> QED
    BY <2>1, <2>2, ReallocIs
<1>4. CASE cap > InlineMax /\ ~(IsHeap(r) /\ IsUnique(r, m))
  <2> DEFINE made == NewBuffer(r.ty, t, cap, r, m)
  <2>1. o \in Replace(r, m, made)
    BY <1>1, <1>4, Numbers DEF Reallocate
  <2> HIDE DEF t
  <2>2. ASSUME NEW p \in made
        PROVE  /\ Makes(p, r, m, "LeanString", t)
               /\ p.ret = "ok" => /\ IsOnHeap(p.r, p.m) /\ Unshared(p.r, p.m)
                                  /\ Capacity(p.r, p.m) = cap
    <3>1. Len(t) <= cap /\ ("LeanString" = "LeanStr" => cap = Len(t))
      BY <1>1
    <3>2. p \in NewBuffer("LeanString", t, cap, r, m)
      OBVIOUS
    <3> QED
      BY <1>1, <3>1, <3>2, NewBufferIs
  <2> HIDE DEF made
  <2>3. PICK p \in made : \/ Gets(o, r, m, "LeanString", t) /\ p.ret = "ok" /\ KeepsAll(p, o)
                          \/ Fails(o, r, m) /\ o = p
    BY <2>1, <2>2, ReplaceIs
  <2>4. p.ret = "ok" => IsModifiable(p.r, p.m) /\ Capacity(p.r, p.m) = cap
    BY <2>2 DEF IsModifiable, IsUnique, IsOnHeap
  <2>5. CASE Gets(o, r, m, "LeanString", t) /\ p.ret = "ok" /\ KeepsAll(p, o)
    BY <2>4, <2>5 DEF Edits, Roomy, KeepsAll, t
  <2>6. CASE Fails(o, r, m)
    BY <2>6, FailsFacts DEF Edits
  <2> QED
    BY <2>3, <2>5, <2>6
<1> QED
  BY <1>2, <1>3, <1>4, Numbers

\* The sum of two sizes.
LEMMA GrowExactIs ==
    ASSUME NEW m, IsHeapOf(m), NEW r, Valid(r, m), r.ty = "LeanString",
           NEW additional \in Nat, NEW o \in GrowExact(r, m, additional)
    PROVE  /\ Edits(o, r, m, AsBytes(r, m))
           /\ o.ret = "ok" => Roomy(o.r, o.m, LenOf(r, m) + additional)
<1>1. LenOf(r, m) \in Nat
  BY ValidFacts
<1>2. CASE o \in Err(r, m)
  BY <1>2, ErrIs DEF Edits
<1>3. CASE o \in Reallocate(r, m, LenOf(r, m) + additional)
  BY <1>1, <1>3, ReallocateIs
<1> QED
  BY <1>2, <1>3 DEF GrowExact

\* grow_amortized.
LEMMA GrowAmortizedIs ==
    ASSUME NEW m, IsHeapOf(m), NEW r, Valid(r, m), r.ty = "LeanString",
           NEW additional \in Nat, NEW o \in GrowAmortized(r, m, additional)
    PROVE  /\ Edits(o, r, m, AsBytes(r, m))
           /\ o.ret = "ok" => Roomy(o.r, o.m, LenOf(r, m) + additional)
<1> DEFINE l == LenOf(r, m)
           required == l + additional
           cap == Max({required, l + l \div 2})
<1>1. l \in Nat /\ required \in Nat /\ l + l \div 2 \in Nat
  BY ValidFacts
<1>2. cap \in Nat /\ cap >= required
  <2> HIDE DEF l, required
  <2> QED
    BY <1>1, MaxOfTwo
<1>3. CASE o \in Err(r, m)
  BY <1>3, ErrIs DEF Edits
<1>4. CASE o \in Reallocate(r, m, required)
  BY <1>1, <1>4, ReallocateIs
<1>5. CASE o \in Reallocate(r, m, cap)
  <2>1. LenOf(r, m) <= cap
    BY <1>1, <1>2
  <2> HIDE DEF cap
  <2>2. Edits(o, r, m, AsBytes(r, m)) /\ (o.ret = "ok" => Roomy(o.r, o.m, cap))
    BY <1>2, <1>5, <2>1, ReallocateIs
  <2>3. o.ret = "ok" => Capacity(o.r, o.m) \in Nat
    <3>1. CASE Gets(o, r, m, r.ty, AsBytes(r, m))
      BY <3>1, GetsFacts, ValidFacts
    <3>2. CASE Fails(o, r, m)
      BY <3>2, FailsFacts
    <3> QED
      BY <2>2, <3>1, <3>2 DEF Edits
  <2> QED
    BY <1>1, <1>2, <2>2, <2>3 DEF Roomy
<1> QED
  BY <1>3, <1>4, <1>5 DEF GrowAmortized

\* The test in front of a write is a test for room.
LEMMA HasRoomIs ==
    ASSUME NEW m, IsHeapOf(m), NEW r, Valid(r, m), NEW additional \in Nat
    PROVE  HasRoom(r, m, additional) <=> Roomy(r, m, LenOf(r, m) + additional)
BY ValidFacts DEF HasRoom, Roomy, SpareCapacity

\* Room is made and the text stays.
LEMMA EnsureRoomIs ==
    ASSUME NEW m, IsHeapOf(m), NEW r, Valid(r, m), r.ty = "LeanString",
           NEW additional \in Nat, NEW o \in EnsureRoom(r, m, additional)
    PROVE  /\ Edits(o, r, m, AsBytes(r, m))
           /\ o.ret = "ok" => Roomy(o.r, o.m, LenOf(r, m) + additional)
<1>1. CASE HasRoom(r, m, additional)
  BY <1>1, OkIs, HasRoomIs DEF EnsureRoom, Edits
<1>2. CASE ~HasRoom(r, m, additional)
  BY <1>2, GrowAmortizedIs DEF EnsureRoom
<1> QED
  BY <1>1, <1>2

\* ensure_modifiable.
LEMMA EnsureModifiableIs ==
    ASSUME NEW m, IsHeapOf(m), NEW r, Valid(r, m), NEW o \in EnsureModifiable(r, m)
    PROVE  /\ Edits(o, r, m, AsBytes(r, m))
           /\ o.ret = "ok" => Roomy(o.r, o.m, LenOf(r, m))
<1>1. CASE IsModifiable(r, m)
  BY <1>1, OkIs, ValidFacts DEF EnsureModifiable, Edits, Roomy
<1>2. CASE ~IsModifiable(r, m)
  <2> DEFINE t == AsBytes(r, m)
             made == FromStr(r.ty, t, r, m)
  <2>1. o \in Replace(r, m, made)
    BY <1>2 DEF EnsureModifiable
  <2>2. t \in Seq(Bytes) /\ Len(t) = LenOf(r, m) /\ r.ty \in Types
    BY ValidFacts
  <2> HIDE DEF t
  <2>3. ASSUME NEW p \in made
        PROVE  /\ Makes(p, r, m, r.ty, t)
               /\ p.ret = "ok" => IsModifiable(p.r, p.m) /\ Capacity(p.r, p.m) >= Len(t)
    BY <2>2, <2>3, FromStrIs
  <2> HIDE DEF made
  <2>4. PICK p \in made : \/ Gets(o, r, m, r.ty, t) /\ p.ret = "ok" /\ KeepsAll(p, o)
                          \/ Fails(o, r, m) /\ o = p
    BY <2>1, <2>3, ReplaceIs
  <2>5. CASE Gets(o, r, m, r.ty, t) /\ p.ret = "ok" /\ KeepsAll(p, o)
    BY <2>2, <2>3, <2>5 DEF Edits, Roomy, KeepsAll, t
  <2>6. CASE Fails(o, r, m)
    BY <2>6, FailsFacts DEF Edits
  <2> QED
    BY <2>4, <2>5, <2>6
<1> QED
  BY <1>1, <1>2

\* reserve and reserve_exact.
LEMMA ReserveIs ==
    ASSUME NEW m, IsHeapOf(m), NEW r, Valid(r, m), r.ty = "LeanString", NEW additional \in Nat,
           NEW o \in Reserve(r, m, additional) \cup ReserveExact(r, m, additional)
    PROVE  /\ Edits(o, r, m, AsBytes(r, m))
           /\ o.ret = "ok" /\ additional > 0 => Roomy(o.r, o.m, LenOf(r, m) + additional)
<1>1. CASE additional = 0
  BY <1>1, OkIs DEF Reserve, ReserveExact, Edits
<1>2. CASE additional # 0 /\ HasRoom(r, m, additional)
  BY <1>2, OkIs, HasRoomIs DEF Reserve, ReserveExact, EnsureRoom, Edits
<1>3. CASE additional # 0 /\ ~HasRoom(r, m, additional)
  BY <1>3, GrowAmortizedIs, GrowExactIs DEF Reserve, ReserveExact, EnsureRoom
<1> QED
  BY <1>1, <1>2, <1>3

\* shrink_to.
LEMMA ShrinkToIs ==
    ASSUME NEW m, IsHeapOf(m), NEW r, Valid(r, m), r.ty = "LeanString", NEW n \in Nat,
           NEW o \in ShrinkTo(r, m, n)
    PROVE  Edits(o, r, m, AsBytes(r, m))
<1> DEFINE l == LenOf(r, m)
           cap == Max({l, n})
<1>1. l \in Nat
  BY ValidFacts
<1>2. cap \in Nat /\ l <= cap
  <2> HIDE DEF l
  <2> QED
    BY <1>1, MaxOfTwo
<1>3. CASE o \in Ok(r, m)
  BY <1>3, OkIs DEF Edits
<1>4. CASE o \in Reallocate(r, m, cap)
  <2> HIDE DEF cap
  <2> QED
    BY <1>2, <1>4, ReallocateIs
<1> QED
  BY <1>3, <1>4 DEF ShrinkTo

-----------------------------------------------------------------------------
(* Editing.                                                                *)

\* p is r after room was made: its text is r's, and it has room for n bytes.
Ready(p, r, m, n) ==
    /\ p.ret = "ok"
    /\ Gets(p, r, m, "LeanString", AsBytes(r, m))
    /\ Roomy(p.r, p.m, n)

\* The data of such a handle.
LEMMA ReadyData ==
    ASSUME NEW m, IsHeapOf(m), NEW r, Valid(r, m), NEW p, NEW n \in Nat, Ready(p, r, m, n)
    PROVE  /\ IsHeapOf(p.m) /\ Valid(p.r, p.m) /\ p.r.ty = "LeanString" /\ IsModifiable(p.r, p.m)
           /\ LenOf(p.r, p.m) = LenOf(r, m) /\ AsBytes(p.r, p.m) = AsBytes(r, m)
           /\ Data(p.r, p.m) \in Seq(Cell) /\ Len(Data(p.r, p.m)) = Capacity(p.r, p.m)
           /\ Len(Data(p.r, p.m)) >= n /\ Len(Data(p.r, p.m)) >= LenOf(r, m)
           /\ SubSeq(Data(p.r, p.m), 1, LenOf(r, m)) = AsBytes(r, m)
<1>1. /\ IsHeapOf(p.m) /\ Valid(p.r, p.m) /\ p.r.ty = "LeanString"
      /\ AsBytes(p.r, p.m) = AsBytes(r, m) /\ IsModifiable(p.r, p.m) /\ Capacity(p.r, p.m) >= n
  BY GetsFacts DEF Ready, Roomy
<1>2. Len(AsBytes(p.r, p.m)) = LenOf(p.r, p.m) /\ LenOf(p.r, p.m) <= Capacity(p.r, p.m)
  BY <1>1, ValidFacts
<1>3. Len(AsBytes(r, m)) = LenOf(r, m)
  BY ValidFacts
<1>4. /\ Data(p.r, p.m) \in Seq(Cell) /\ Len(Data(p.r, p.m)) = Capacity(p.r, p.m)
      /\ SubSeq(Data(p.r, p.m), 1, LenOf(p.r, p.m)) = AsBytes(p.r, p.m)
  BY <1>1, DataIs
<1> QED
  BY <1>1, <1>2, <1>3, <1>4

\* A write into such a handle.
LEMMA WriteIs ==
    ASSUME NEW m, IsHeapOf(m), NEW r, Valid(r, m), NEW p, NEW w \in Nat, Ready(p, r, m, w),
           NEW d \in Seq(Cell), Len(d) = Len(Data(p.r, p.m)), NEW n \in Nat, n <= Len(d),
           NEW t \in Seq(Bytes), SubSeq(d, 1, n) = t, NEW o \in SetLen(p.r, p.m, d, n)
    PROVE  Gets(o, r, m, "LeanString", t) /\ IsModifiable(o.r, o.m)
<1>1. /\ IsHeapOf(p.m) /\ Valid(p.r, p.m) /\ p.r.ty = "LeanString" /\ IsModifiable(p.r, p.m)
      /\ Len(d) = Capacity(p.r, p.m)
  BY ReadyData
<1>2. Gets(o, p.r, p.m, "LeanString", t) /\ IsModifiable(o.r, o.m)
  <2>1. SubSeq(d, 1, n) \in Seq(Bytes)
    OBVIOUS
  <2> QED
    BY <1>1, <2>1, SetLenIs
<1> QED
  BY <1>2, GetsTwice DEF Ready

\* What making room gives: a handle that is ready, or nothing happened.
LEMMA RoomMade ==
    ASSUME NEW m, IsHeapOf(m), NEW r, Valid(r, m), r.ty = "LeanString", NEW p, NEW n,
           Edits(p, r, m, AsBytes(r, m)), p.ret = "ok" => Roomy(p.r, p.m, n)
    PROVE  Ready(p, r, m, n) \/ (Fails(p, r, m) /\ p.ret = "err")
BY GetsFacts, FailsFacts DEF Edits, Ready

\* push_str and push_char: s is appended.
LEMMA PushIs ==
    ASSUME NEW m, IsHeapOf(m), NEW r, Valid(r, m), r.ty = "LeanString", NEW s \in Seq(Bytes),
           NEW o \in PushStr(r, m, s) \cup PushChar(r, m, s)
    PROVE  Edits(o, r, m, AsBytes(r, m) \o s)
<1> DEFINE t == AsBytes(r, m)
           l == LenOf(r, m)
<1>1. t \in Seq(Bytes) /\ Len(t) = l /\ l \in Nat
  BY ValidFacts
<1>2. CASE s = <<>> /\ o \in Ok(r, m)
  <2>1. t \o s = t
    BY <1>1, <1>2
  <2> QED
    BY <1>2, <2>1, OkIs DEF Edits
<1>3. CASE \E p \in EnsureRoom(r, m, Len(s)) :
             o \in IF p.ret = "ok"
                   THEN SetLen(p.r, p.m, CopyFrom(Data(p.r, p.m), s, LenOf(p.r, p.m)), LenOf(p.r, p.m) + Len(s))
                   ELSE {p}
  <2>1. PICK k \in Nat : k = Len(s)
    OBVIOUS
  <2>2. PICK p \in EnsureRoom(r, m, k) :
             o \in IF p.ret = "ok"
                   THEN SetLen(p.r, p.m, CopyFrom(Data(p.r, p.m), s, LenOf(p.r, p.m)), LenOf(p.r, p.m) + k)
                   ELSE {p}
    BY <1>3, <2>1
  <2>3. Edits(p, r, m, t) /\ (p.ret = "ok" => Roomy(p.r, p.m, l + k))
    BY <2>1, <2>2, EnsureRoomIs
  <2>4. CASE Fails(p, r, m) /\ p.ret = "err"
    BY <2>2, <2>4 DEF Edits
  <2>5. CASE Ready(p, r, m, l + k)
    <3> DEFINE D == Data(p.r, p.m)
               d == CopyFrom(D, s, l)
    <3>1. l + k \in Nat
      BY <1>1, <2>1
    <3>2. /\ D \in Seq(Cell) /\ Len(D) >= l + k /\ SubSeq(D, 1, l) = t /\ LenOf(p.r, p.m) = l
      BY <2>5, <3>1, ReadyData
    <3>3. o \in SetLen(p.r, p.m, d, l + k)
      BY <2>2, <2>5, <3>2 DEF Ready
    <3>4. s \in Seq(Cell) /\ l + Len(s) <= Len(D)
      BY <2>1, <3>2 DEF Cell
    <3>5. d \in Seq(Cell) /\ Len(d) = Len(D) /\ SubSeq(d, 1, l + k) = t \o s
      <4> HIDE DEF D, t, l
      <4>1. D \in Seq(Cell) /\ s \in Seq(Cell) /\ l \in Nat /\ l + Len(s) <= Len(D)
        BY <1>1, <3>2, <3>4
      <4>2. /\ CopyFrom(D, s, l) \in Seq(Cell) /\ Len(CopyFrom(D, s, l)) = Len(D)
            /\ SubSeq(CopyFrom(D, s, l), 1, l + Len(s)) = SubSeq(D, 1, l) \o s
        BY ONLY <4>1, AppendedInPlace
      <4> QED
        BY <2>1, <3>2, <4>2
    <3>6. t \o s \in Seq(Bytes)
      BY <1>1
    <3> HIDE DEF d, t
    <3>7. Gets(o, r, m, "LeanString", t \o s)
      BY <2>5, <3>1, <3>2, <3>3, <3>5, <3>6, WriteIs
    <3> QED
      BY <3>7 DEF Edits, t
  <2> QED
    BY <2>3, <2>4, <2>5, RoomMade
<1> QED
  BY <1>2, <1>3 DEF PushStr, PushChar, Then

\* insert_str and insert_char at a place inside the text.
LEMMA OpenGapIs ==
    ASSUME NEW m, IsHeapOf(m), NEW r, Valid(r, m), r.ty = "LeanString", NEW s \in Seq(Bytes),
           NEW idx \in Nat, idx <= LenOf(r, m), NEW o \in OpenGap(r, m, idx, s)
    PROVE  Edits(o, r, m, Splice(AsBytes(r, m), idx, idx, s))
<1> DEFINE t == AsBytes(r, m)
           l == LenOf(r, m)
           u == Splice(t, idx, idx, s)
<1>1. t \in Seq(Bytes) /\ Len(t) = l /\ l \in Nat
  BY ValidFacts
<1>2. PICK k \in Nat : k = Len(s)
  OBVIOUS
<1>3. PICK p \in EnsureRoom(r, m, k) :
             o \in IF p.ret = "ok"
                   THEN SetLen(p.r, p.m,
                               CopyFrom(CopyWithin(Data(p.r, p.m), idx, idx + Len(s), LenOf(p.r, p.m) - idx), s, idx),
                               LenOf(p.r, p.m) + Len(s))
                   ELSE {p}
  BY <1>2 DEF OpenGap, Then
<1>4. Edits(p, r, m, t) /\ (p.ret = "ok" => Roomy(p.r, p.m, l + k))
  BY <1>2, <1>3, EnsureRoomIs
<1>5. CASE Fails(p, r, m) /\ p.ret = "err"
  BY <1>3, <1>5 DEF Edits
<1>6. CASE Ready(p, r, m, l + k)
  <2> DEFINE D == Data(p.r, p.m)
             d == CopyFrom(CopyWithin(D, idx, idx + Len(s), l - idx), s, idx)
  <2>1. l + k \in Nat
    BY <1>1, <1>2
  <2>2. D \in Seq(Cell) /\ Len(D) >= l + k /\ SubSeq(D, 1, l) = t /\ LenOf(p.r, p.m) = l
    BY <1>6, <2>1, ReadyData
  <2>3. o \in SetLen(p.r, p.m, d, l + Len(s))
    BY <1>3, <1>6, <2>2 DEF Ready
  <2>4. /\ s \in Seq(Cell) /\ l - (idx - idx) + Len(s) <= Len(D) /\ l <= Len(D) /\ idx <= idx /\ idx <= l
        /\ l - (idx - idx) + Len(s) = l + Len(s)
    BY <1>1, <1>2, <2>2 DEF Cell
  <2>5. d \in Seq(Cell) /\ Len(d) = Len(D) /\ SubSeq(d, 1, l - (idx - idx) + Len(s)) = u
    <3> HIDE DEF D, t, l
    <3>1. D \in Seq(Cell) /\ s \in Seq(Cell) /\ l \in Nat /\ idx \in Nat /\ l <= Len(D)
          /\ idx <= idx /\ idx <= l /\ l - (idx - idx) + Len(s) <= Len(D)
      BY <1>1, <2>2, <2>4
    <3>2. /\ d \in Seq(Cell) /\ Len(d) = Len(D)
          /\ SubSeq(d, 1, l - (idx - idx) + Len(s)) = Splice(SubSeq(D, 1, l), idx, idx, s)
      BY ONLY <3>1, SplicedInPlace
    <3> QED
      BY <2>2, <3>2
  <2>6. u \in Seq(Bytes)
    BY <1>1, <2>4, SpliceIs
  <2>7. /\ l + Len(s) \in Nat /\ l + Len(s) <= Len(d) /\ SubSeq(d, 1, l + Len(s)) = u
        /\ d \in Seq(Cell) /\ Len(d) = Len(D)
    BY <1>2, <2>1, <2>4, <2>5
  <2> HIDE DEF d, u
  <2>8. Gets(o, r, m, "LeanString", u)
    BY <1>6, <2>1, <2>3, <2>6, <2>7, WriteIs
  <2> QED
    BY <2>8 DEF Edits, u
<1> QED
  BY <1>4, <1>5, <1>6, RoomMade

\* A handle after a panic that happened before anything was written.
Panics(o, r, m) == o = [ret |-> "panic", val |-> <<>>, r |-> r, m |-> m]

\* insert_str and insert_char.
LEMMA InsertIs ==
    ASSUME NEW m, IsHeapOf(m), NEW r, Valid(r, m), r.ty = "LeanString", NEW s \in Seq(Bytes),
           NEW idx \in Nat, NEW o \in InsertStr(r, m, idx, s) \cup InsertChar(r, m, idx, s)
    PROVE  IF IsCharBoundary(AsBytes(r, m), idx)
           THEN Edits(o, r, m, Splice(AsBytes(r, m), idx, idx, s)) ELSE Panics(o, r, m)
<1> DEFINE t == AsBytes(r, m)
<1>1. t \in Seq(Bytes) /\ Len(t) = LenOf(r, m)
  BY ValidFacts
<1>2. CASE ~IsCharBoundary(t, idx)
  BY <1>2 DEF InsertStr, InsertChar, Panic, Outcome, Panics
<1>3. CASE IsCharBoundary(t, idx) /\ s = <<>> /\ o \in Ok(r, m)
  <2>1. idx <= Len(t)
    BY <1>3 DEF IsCharBoundary
  <2> HIDE DEF t
  <2>2. Splice(t, idx, idx, s) = t
    BY <1>1, <1>3, <2>1 DEF Splice
  <2> QED
    BY <1>3, <2>2, OkIs DEF Edits, t
<1>4. CASE IsCharBoundary(t, idx) /\ o \in OpenGap(r, m, idx, s)
  <2>1. idx <= LenOf(r, m)
    BY <1>1, <1>4 DEF IsCharBoundary
  <2> QED
    BY <1>4, <2>1, OpenGapIs
<1> QED
  BY <1>2, <1>3, <1>4 DEF InsertStr, InsertChar

\* A bound of a range is a number.
IsBound(b) ==
    \/ b[1] = "unbounded"
    \/ b[1] \in {"included", "excluded"} /\ b[2] \in 0..UsizeMax

\* saturating_add stops at usize::MAX.
LEMMA SaturateIs ==
    ASSUME NEW n \in Nat
    PROVE  Saturate(n) \in Nat /\ Saturate(n) = IF n <= UsizeMax THEN n ELSE UsizeMax
<1>1. {n, UsizeMax} \subseteq Nat /\ {n, UsizeMax} # {}
  BY Numbers
<1>2. Min({n, UsizeMax}) \in {n, UsizeMax} /\ \A y \in {n, UsizeMax} : Min({n, UsizeMax}) <= y
  BY <1>1, MinIs
<1> QED
  BY <1>1, <1>2, Numbers DEF Saturate

\* The ends of a range are numbers.
LEMMA BoundsAre ==
    ASSUME NEW b, IsBound(b), NEW t, Len(t) \in Nat
    PROVE  StartOf(b) \in Nat /\ EndOf(t, b) \in Nat
<1>1. CASE b[1] = "unbounded"
  BY <1>1 DEF StartOf, EndOf
<1>2. CASE b[1] = "included" /\ b[2] \in 0..UsizeMax
  <2>1. b[2] \in Nat /\ b[2] + 1 \in Nat
    BY <1>2, Numbers
  <2>2. StartOf(b) = b[2] /\ EndOf(t, b) = Saturate(b[2] + 1)
    BY <1>2 DEF StartOf, EndOf
  <2> QED
    BY <2>1, <2>2, SaturateIs
<1>3. CASE b[1] = "excluded" /\ b[2] \in 0..UsizeMax
  <2>1. b[2] \in Nat /\ b[2] + 1 \in Nat
    BY <1>3, Numbers
  <2>2. EndOf(t, b) = b[2] /\ StartOf(b) = Saturate(b[2] + 1)
    BY <1>3 DEF StartOf, EndOf
  <2> QED
    BY <2>1, <2>2, SaturateIs
<1> QED
  BY <1>1, <1>2, <1>3 DEF IsBound

\* A range that slice_range accepts.
LEMMA SliceRangeIs ==
    ASSUME NEW t \in Seq(Bytes), NEW i \in Nat, NEW j \in Nat, IsSliceRange(t, i, j)
    PROVE  i <= j /\ j <= Len(t) /\ i <= Len(t) /\ IsCharBoundary(t, i) /\ IsCharBoundary(t, j)
BY DEF IsSliceRange, IsCharBoundary

\* extend_from_within.
LEMMA ExtendFromWithinIs ==
    ASSUME NEW m, IsHeapOf(m), NEW r, Valid(r, m), r.ty = "LeanString",
           NEW lo, IsBound(lo), NEW hi, IsBound(hi), NEW o \in ExtendFromWithin(r, m, lo, hi)
    PROVE  LET t == AsBytes(r, m)
               i == StartOf(lo)
               j == EndOf(t, hi)
           IN  IF IsSliceRange(t, i, j) THEN Edits(o, r, m, t \o SubSeq(t, i + 1, j)) ELSE Panics(o, r, m)
<1> DEFINE t == AsBytes(r, m)
           l == LenOf(r, m)
           i == StartOf(lo)
           j == EndOf(t, hi)
           u == t \o SubSeq(t, i + 1, j)
<1>1. t \in Seq(Bytes) /\ Len(t) = l /\ l \in Nat
  BY ValidFacts
<1>2. i \in Nat /\ j \in Nat
  BY <1>1, BoundsAre
<1>3. CASE ~IsSliceRange(t, i, j)
  BY <1>3 DEF ExtendFromWithin, Panic, Outcome, Panics
<1>4. CASE IsSliceRange(t, i, j)
  <2>1. i <= j /\ j <= l /\ j - i \in Nat
    BY <1>1, <1>2, <1>4, SliceRangeIs
  <2>2. CASE j - i = 0
    <3>1. o \in Ok(r, m)
      BY <1>4, <2>2 DEF ExtendFromWithin
    <3>2. u = t
      <4> HIDE DEF t, i, j
      <4> QED
        BY <1>1, <1>2, <2>1, <2>2
    <3>3. Edits(o, r, m, t)
      BY <3>1, OkIs DEF Edits
    <3> QED
      BY <1>4, <3>2, <3>3
  <2>3. CASE j - i # 0
    <3>1. PICK k \in Nat : k = j - i
      BY <2>1
    <3>2. PICK p \in EnsureRoom(r, m, k) :
             o \in IF p.ret = "ok"
                   THEN SetLen(p.r, p.m, CopyWithin(Data(p.r, p.m), i, LenOf(p.r, p.m), k), LenOf(p.r, p.m) + k)
                   ELSE {p}
      BY <1>4, <2>3, <3>1 DEF ExtendFromWithin, Then
    <3>3. Edits(p, r, m, t) /\ (p.ret = "ok" => Roomy(p.r, p.m, l + k))
      BY <3>1, <3>2, EnsureRoomIs
    <3>4. CASE Fails(p, r, m) /\ p.ret = "err"
      BY <1>4, <3>2, <3>4 DEF Edits
    <3>5. CASE Ready(p, r, m, l + k)
      <4> DEFINE D == Data(p.r, p.m)
                 d == CopyWithin(D, i, l, k)
      <4>1. l + k \in Nat
        BY <1>1, <3>1
      <4>2. D \in Seq(Cell) /\ Len(D) >= l + k /\ SubSeq(D, 1, l) = t /\ LenOf(p.r, p.m) = l
        BY <3>5, <4>1, ReadyData
      <4>3. o \in SetLen(p.r, p.m, d, l + k)
        BY <3>2, <3>5, <4>2 DEF Ready
      <4>4. d \in Seq(Cell) /\ Len(d) = Len(D) /\ SubSeq(d, 1, l + k) = u
        <5> HIDE DEF D, t, l, i, j
        <5>1. D \in Seq(Cell) /\ l \in Nat /\ i \in Nat /\ k \in Nat /\ i + k <= l /\ l + k <= Len(D)
          BY <1>1, <1>2, <2>1, <3>1, <4>2
        <5>2. /\ CopyWithin(D, i, l, k) \in Seq(Cell) /\ Len(CopyWithin(D, i, l, k)) = Len(D)
              /\ SubSeq(CopyWithin(D, i, l, k), 1, l + k) = Extended(SubSeq(D, 1, l), i, k)
          BY ONLY <5>1, ExtendedInPlace
        <5>3. i + k = j
          BY <1>2, <3>1
        <5> QED
          BY <4>2, <5>2, <5>3 DEF Extended
      <4>5. u \in Seq(Bytes)
        <5> HIDE DEF t, i, j
        <5> QED
          BY <1>1, <1>2, <2>1
      <4>6. l + k <= Len(d)
        BY <4>2, <4>4
      <4> HIDE DEF d, u
      <4>7. Gets(o, r, m, "LeanString", u)
        BY <3>5, <4>1, <4>3, <4>4, <4>5, <4>6, WriteIs
      <4> QED
        BY <1>4, <4>7 DEF Edits, u
    <3> QED
      BY <3>3, <3>4, <3>5, RoomMade
  <2> QED
    BY <2>2, <2>3
<1> QED
  BY <1>3, <1>4

\* replace_range.
LEMMA ReplaceRangeIs ==
    ASSUME NEW m, IsHeapOf(m), NEW r, Valid(r, m), r.ty = "LeanString", NEW s \in Seq(Bytes),
           NEW lo, IsBound(lo), NEW hi, IsBound(hi), NEW o \in ReplaceRange(r, m, lo, hi, s)
    PROVE  LET t == AsBytes(r, m)
               i == StartOf(lo)
               j == EndOf(t, hi)
           IN  IF IsSliceRange(t, i, j) THEN Edits(o, r, m, Splice(t, i, j, s)) ELSE Panics(o, r, m)
<1> DEFINE t == AsBytes(r, m)
           l == LenOf(r, m)
           i == StartOf(lo)
           j == EndOf(t, hi)
           u == Splice(t, i, j, s)
           k == Len(s)
           additional == Max({0, k - (j - i)})
<1>1. t \in Seq(Bytes) /\ Len(t) = l /\ l \in Nat /\ k \in Nat
  BY ValidFacts
<1>2. i \in Nat /\ j \in Nat
  BY <1>1, BoundsAre
<1>3. CASE ~IsSliceRange(t, i, j)
  BY <1>3 DEF ReplaceRange, Panic, Outcome, Panics
<1>4. CASE IsSliceRange(t, i, j)
  <2>1. i <= j /\ j <= l /\ j - i \in Nat
    BY <1>1, <1>2, <1>4, SliceRangeIs
  <2>2. u \in Seq(Bytes) /\ Len(u) = l - (j - i) + k
    <3> HIDE DEF t, i, j
    <3> QED
      BY <1>1, <1>2, <2>1, SpliceIs
  <2>3. additional \in Nat /\ additional >= k - (j - i)
    <3>1. k - (j - i) \in Int
      BY <1>1, <2>1
    <3>2. PICK x \in Int : x = k - (j - i)
      BY <3>1
    <3>3. \E y \in {0, x} : \A z \in {0, x} : y >= z
      BY 0 >= x \/ x >= 0
    <3>4. Max({0, x}) \in {0, x} /\ Max({0, x}) >= x /\ Max({0, x}) >= 0
      BY <3>3 DEF Max
    <3> QED
      BY <3>2, <3>4
  <2>4. CASE i = j /\ s = <<>>
    <3>1. o \in Ok(r, m)
      BY <1>4, <2>4 DEF ReplaceRange
    <3>2. u = t
      <4> HIDE DEF t, i, j
      <4> QED
        BY <1>1, <1>2, <2>1, <2>4 DEF Splice
    <3> QED
      BY <1>4, <3>1, <3>2, OkIs DEF Edits
  <2>5. CASE ~(i = j /\ s = <<>>) /\ ~IsModifiable(r, m)
    <3> DEFINE made == FromStr(r.ty, u, r, m)
    <3>1. o \in Replace(r, m, made)
      BY <1>4, <2>5 DEF ReplaceRange, Splice
    <3> HIDE DEF u
    <3>2. ASSUME NEW p \in made PROVE Makes(p, r, m, r.ty, u)
      <4>1. r.ty \in Types
        BY ValidFacts
      <4> QED
        BY <2>2, <4>1, FromStrIs
    <3> HIDE DEF made
    <3>3. Gets(o, r, m, r.ty, u) \/ Fails(o, r, m)
      BY <3>1, <3>2, ReplaceIs
    <3> QED
      BY <1>4, <3>3 DEF Edits, u
  <2>6. CASE ~(i = j /\ s = <<>>) /\ IsModifiable(r, m)
    <3> DEFINE grown == IF SpareCapacity(r, m) < additional THEN GrowAmortized(r, m, additional) ELSE Ok(r, m)
    <3>1. PICK p \in grown :
             o \in IF p.ret = "ok"
                   THEN SetLen(p.r, p.m,
                               CopyFrom(CopyWithin(Data(p.r, p.m), j, i + k, Len(t) - j), s, i),
                               Len(t) - (j - i) + k)
                   ELSE {p}
      BY <1>4, <2>6 DEF ReplaceRange, Then
    <3>2. Edits(p, r, m, t) /\ (p.ret = "ok" => Roomy(p.r, p.m, l + additional))
      <4> HIDE DEF additional
      <4>1. CASE SpareCapacity(r, m) < additional
        BY <2>3, <3>1, <4>1, GrowAmortizedIs
      <4>2. CASE ~(SpareCapacity(r, m) < additional)
        <5>1. p \in Ok(r, m)
          BY <3>1, <4>2
        <5>2. Capacity(r, m) >= l + additional
          BY <2>3, <4>2, ValidFacts DEF SpareCapacity
        <5> QED
          BY <2>6, <5>1, <5>2, OkIs DEF Edits, Roomy
      <4> QED
        BY <4>1, <4>2
    <3>3. CASE Fails(p, r, m) /\ p.ret = "err"
      BY <1>4, <3>1, <3>3 DEF Edits
    <3>4. CASE Ready(p, r, m, l + additional)
      <4> DEFINE D == Data(p.r, p.m)
                 d == CopyFrom(CopyWithin(D, j, i + Len(s), l - j), s, i)
                 n == l - (j - i) + Len(s)
      <4>1. l + additional \in Nat
        BY <1>1, <2>3
      <4>2. /\ D \in Seq(Cell) /\ Len(D) >= l + additional /\ SubSeq(D, 1, l) = t /\ LenOf(p.r, p.m) = l
            /\ l <= Len(D)
        BY <3>4, <4>1, ReadyData
      <4>3. o \in SetLen(p.r, p.m, d, n)
        BY <1>1, <3>1, <3>4, <4>2 DEF Ready
      <4>4. s \in Seq(Cell) /\ n <= Len(D) /\ n \in Nat
        <5> HIDE DEF additional, D, l, i, j
        <5>1. PICK w \in Nat : w = Len(D)
          BY <4>2
        <5> QED
          BY <1>1, <1>2, <2>1, <2>3, <4>2, <5>1 DEF Cell
      <4>5. d \in Seq(Cell) /\ Len(d) = Len(D) /\ SubSeq(d, 1, n) = u
        <5> HIDE DEF D, t, l, i, j
        <5>1. D \in Seq(Cell) /\ s \in Seq(Cell) /\ l \in Nat /\ i \in Nat /\ j \in Nat /\ l <= Len(D)
              /\ i <= j /\ j <= l /\ l - (j - i) + Len(s) <= Len(D)
          BY <1>1, <1>2, <2>1, <4>2, <4>4
        <5>2. /\ d \in Seq(Cell) /\ Len(d) = Len(D)
              /\ SubSeq(d, 1, l - (j - i) + Len(s)) = Splice(SubSeq(D, 1, l), i, j, s)
          BY ONLY <5>1, SplicedInPlace
        <5> QED
          BY <4>2, <5>2
      <4> HIDE DEF d, u, n
      <4>6. Gets(o, r, m, "LeanString", u)
        BY <2>2, <3>4, <4>1, <4>3, <4>4, <4>5, WriteIs
      <4> QED
        BY <1>4, <4>6 DEF Edits, u
    <3> QED
      BY <3>2, <3>3, <3>4, RoomMade
  <2> QED
    BY <2>4, <2>5, <2>6
<1> QED
  BY <1>3, <1>4

\* A shorter text of a text.
LEMMA PrefixIs ==
    ASSUME NEW S, NEW t \in Seq(S), NEW n \in Nat, n <= Len(t)
    PROVE  SubSeq(t, 1, n) \in Seq(S) /\ Len(SubSeq(t, 1, n)) = n
OBVIOUS

\* truncate_unchecked: a shared length on the heap is left to the others.
LEMMA TruncateUncheckedIs ==
    ASSUME NEW m, IsHeapOf(m), NEW r, Valid(r, m), r.ty = "LeanString", NEW n \in Nat,
           n <= LenOf(r, m), NEW o \in TruncateUnchecked(r, m, n)
    PROVE  Edits(o, r, m, SubSeq(AsBytes(r, m), 1, n))
<1> DEFINE t == AsBytes(r, m)
           u == SubSeq(t, 1, n)
<1>1. t \in Seq(Bytes) /\ Len(t) = LenOf(r, m) /\ LenOf(r, m) \in Nat
  BY ValidFacts
<1>2. u \in Seq(Bytes) /\ Len(u) = n
  <2> HIDE DEF t
  <2> QED
    BY <1>1, PrefixIs
<1>3. CASE ~IsHeap(r)
  <2> DEFINE q == [r EXCEPT !.text = SubSeq(@, 1, n)]
  <2>1. o \in Ok(q, m)
    BY <1>1, <1>3 DEF TruncateUnchecked
  <2>2. IsInline(r) \/ IsStatic(r)
    BY <1>3, ValidFacts DEF IsHeap
  <2>3. r.text = t
    BY <1>3 DEF AsBytes
  <2>4. q.ty = r.ty /\ q.kind = r.kind /\ q.text = u /\ q = [ty |-> q.ty, kind |-> q.kind, text |-> q.text]
    <3>1. r = [ty |-> r.ty, kind |-> r.kind, text |-> t]
      BY <2>2, <2>3 DEF IsInline, IsStatic
    <3>2. q = [ty |-> r.ty, kind |-> r.kind, text |-> u]
      <4> HIDE DEF t
      <4> QED
        BY <3>1
    <3> HIDE DEF q
    <3> QED
      BY <3>2
  <2> HIDE DEF q, u
  <2>5. Valid(q, m) /\ ~IsHeap(q) /\ AsBytes(q, m) = u
    <3>1. CASE IsInline(r)
      <4>1. r.ty \in Types /\ r.kind = "inline" /\ Len(u) <= InlineMax
        BY <1>1, <1>2, <2>3, <3>1, Numbers DEF IsInline
      <4> QED
        BY <1>2, <2>4, <4>1 DEF IsInline, Valid, IsHeap, AsBytes
    <3>2. CASE IsStatic(r)
      <4>1. r.ty \in Types /\ r.kind = "static" /\ Len(u) <= StaticMax
        BY <1>1, <1>2, <2>3, <3>2, Numbers DEF IsStatic
      <4> QED
        BY <1>2, <2>4, <4>1 DEF IsStatic, Valid, IsHeap, AsBytes
    <3> QED
      BY <2>2, <3>1, <3>2
  <2>6. Trade(r, m, q, m)
    BY <1>3, <2>5, TradeText
  <2>7. Gets(o, r, m, q.ty, AsBytes(q, m))
    BY <2>1, <2>6, OkGets
  <2> QED
    BY <2>4, <2>5, <2>7 DEF Edits, u
<1>4. CASE IsHeap(r) /\ r.len # OnTheHeap
  <2> DEFINE q == [r EXCEPT !.len = n]
             k == m[r.buf]
  <2>1. o \in Ok(q, m)
    BY <1>1, <1>4 DEF TruncateUnchecked
  <2>2. IsOnHeap(r, m) /\ r.buf \in DOMAIN m
    BY <1>4, ValidFacts
  <2>3. r \in [ty : Types, kind : {"heap"}, buf : DOMAIN m, len : 0..OnTheHeap] /\ Suits(r, k)
    BY <2>2 DEF IsOnHeap
  <2>4. r.len = LenOf(r, m) /\ r.len \in 0..MaxLen
    BY <1>4, <2>3, Numbers DEF LenOf, HeapLen
  <2>5. n \in 0..MaxLen /\ n # OnTheHeap /\ n \in 0..OnTheHeap
    BY <2>4, Numbers
  <2>6. /\ q \in [ty : Types, kind : {"heap"}, buf : DOMAIN m, len : 0..OnTheHeap]
        /\ q.ty = r.ty /\ q.kind = "heap" /\ q.buf = r.buf /\ q.len = n
    BY <2>3, <2>5
  <2> HIDE DEF q
  <2>7. k.bytes \in Seq(Cell)
    BY <2>2, BlockFields
  <2>8. LenIn(q, k) = n /\ LenIn(r, k) = LenOf(r, m) /\ TextIn(r, k) = t
    BY <1>4, <2>4, <2>5, <2>6 DEF LenIn, TextIn, AsBytes, HeapBytes, HeapLen
  <2>9. TextIn(q, k) = u
    <3>1. LenOf(r, m) <= Len(k.bytes)
      BY <2>3, <2>8 DEF Suits
    <3>2. t = SubSeq(k.bytes, 1, LenOf(r, m))
      BY <2>8 DEF TextIn
    <3> HIDE DEF t, k
    <3> QED
      BY <1>1, <2>7, <2>8, <3>1, <3>2 DEF TextIn
  <2>10. Suits(q, k)
    <3> HIDE DEF u, t
    <3>1. Len(k.bytes) \in Nat /\ LenIn(r, k) <= Len(k.bytes)
      BY <2>3, <2>7 DEF Suits
    <3>2. LenIn(q, k) <= Len(k.bytes)
      BY <1>1, <2>8, <3>1
    <3> QED
      BY <1>2, <2>3, <2>5, <2>6, <2>8, <2>9, <3>2 DEF Suits
  <2>11. IsOnHeap(q, m) /\ AsBytes(q, m) = u
    BY <2>6, <2>9, <2>10 DEF IsOnHeap, AsBytes, HeapBytes, HeapLen, IsHeap, TextIn, LenIn
  <2>12. Trade(r, m, q, m)
    <3>1. \A b : Refs(q, b) = Refs(r, b)
      BY <1>4, <2>6 DEF Refs, IsHeap
    <3>2. Spares(r, m, m)
      BY DEF Spares, Same
    <3> QED
      BY <2>11, <3>1, <3>2, CountsAre, RefsAre DEF Trade, Valid
  <2>13. Gets(o, r, m, q.ty, AsBytes(q, m))
    BY <2>1, <2>12, OkGets
  <2> QED
    BY <2>6, <2>11, <2>13 DEF Edits
<1>5. CASE IsHeap(r) /\ r.len = OnTheHeap
  <2> DEFINE k == m[r.buf]
             d == k.bytes
  <2>1. IsOnHeap(r, m) /\ r.buf \in DOMAIN m
    BY <1>5, ValidFacts
  <2>2. d \in Seq(Cell) /\ HeapCapacity(r, m) = Len(d) /\ n <= Len(d)
    BY <1>5, <2>1, BlockFields, OnHeapFacts DEF HeapCapacity, LenOf
  <2>3. SubSeq(d, 1, n) = u
    <3>1. LenOf(r, m) <= Len(d) /\ t = SubSeq(d, 1, LenOf(r, m))
      BY <1>5, <2>1, OnHeapFacts DEF LenOf, AsBytes, HeapBytes, HeapCapacity
    <3> HIDE DEF t, d
    <3> QED
      BY <1>1, <2>2, <3>1
  <2>4. CASE Unshared(r, m)
    <3>1. o \in HeapSetLen(r, m, d, n)
      BY <1>1, <1>5, <2>4 DEF TruncateUnchecked
    <3>2. SubSeq(d, 1, n) \in Seq(Bytes)
      BY <1>2, <2>3
    <3> HIDE DEF d
    <3>3. Gets(o, r, m, "LeanString", SubSeq(d, 1, n))
      BY <2>1, <2>2, <2>4, <3>1, <3>2, HeapSetLenIs
    <3> QED
      BY <2>3, <3>3 DEF Edits
  <2>5. CASE ~Unshared(r, m)
    <3> DEFINE made == FromStr(r.ty, SubSeq(d, 1, n), r, m)
    <3>1. o \in Replace(r, m, made)
      BY <1>1, <1>5, <2>5 DEF TruncateUnchecked
    <3>2. ASSUME NEW p \in made PROVE Makes(p, r, m, r.ty, u)
      <4>1. r.ty \in Types
        BY ValidFacts
      <4>2. p \in FromStr(r.ty, u, r, m)
        BY <2>3
      <4> HIDE DEF u
      <4> QED
        BY <1>2, <4>1, <4>2, FromStrIs
    <3> HIDE DEF made, u
    <3>3. Gets(o, r, m, r.ty, u) \/ Fails(o, r, m)
      BY <3>1, <3>2, ReplaceIs
    <3> QED
      BY <3>3 DEF Edits, u
  <2> QED
    BY <2>4, <2>5
<1> QED
  BY <1>3, <1>4, <1>5

\* truncate.
LEMMA TruncateIs ==
    ASSUME NEW m, IsHeapOf(m), NEW r, Valid(r, m), r.ty = "LeanString", NEW n \in Nat,
           NEW o \in Truncate(r, m, n)
    PROVE  IF n >= LenOf(r, m) THEN Gets(o, r, m, "LeanString", AsBytes(r, m)) /\ o.r = r /\ o.m = m
           ELSE IF IsCharBoundary(AsBytes(r, m), n)
           THEN Edits(o, r, m, SubSeq(AsBytes(r, m), 1, n)) ELSE Panics(o, r, m)
<1>1. LenOf(r, m) \in Nat
  BY ValidFacts
<1>2. CASE n >= LenOf(r, m)
  BY <1>2, OkIs DEF Truncate
<1>3. CASE ~(n >= LenOf(r, m)) /\ ~IsCharBoundary(AsBytes(r, m), n)
  BY <1>3 DEF Truncate, Panic, Outcome, Panics
<1>4. CASE ~(n >= LenOf(r, m)) /\ IsCharBoundary(AsBytes(r, m), n)
  <2>1. o \in TruncateUnchecked(r, m, n) /\ n <= LenOf(r, m)
    BY <1>1, <1>4 DEF Truncate
  <2> QED
    BY <1>4, <2>1, TruncateUncheckedIs
<1> QED
  BY <1>2, <1>3, <1>4

\* clear.
LEMMA ClearIs ==
    ASSUME NEW m, IsHeapOf(m), NEW r, Valid(r, m), r.ty = "LeanString", NEW o \in Clear(r, m)
    PROVE  Gets(o, r, m, "LeanString", <<>>)
<1>1. PICK e \in Seq(Bytes) : e = <<>> /\ Len(e) = 0
  <2>1. <<>> \in Seq(Bytes) /\ Len(<<>>) = 0
    OBVIOUS
  <2> QED
    BY <2>1
<1>2. "LeanString" \in Types /\ Len(e) <= StaticMax /\ Len(e) <= InlineMax
  BY <1>1, Numbers DEF Types
<1>3. CASE r.kind = "static"
  <2> DEFINE q == FromStatic("LeanString", e)
  <2>1. o \in Ok(q, m)
    BY <1>1, <1>3 DEF Clear
  <2>2. Valid(q, m) /\ ~IsHeap(q) /\ q.ty = "LeanString" /\ AsBytes(q, m) = e
    BY <1>2, StaticIs
  <2> HIDE DEF q
  <2>3. Trade(r, m, q, m)
    BY <1>3, <2>2, TradeText DEF IsHeap
  <2> QED
    BY <1>1, <2>1, <2>2, <2>3, OkGets
<1>4. CASE r.kind # "static" /\ IsUnique(r, m)
  <2> DEFINE D == Data(r, m)
  <2>1. o \in SetLen(r, m, D, 0)
    BY <1>4 DEF Clear
  <2>2. IsModifiable(r, m)
    BY <1>4 DEF IsModifiable
  <2>3. D \in Seq(Cell) /\ Len(D) = Capacity(r, m)
    BY <2>2, DataIs
  <2> HIDE DEF D
  <2>4. SubSeq(D, 1, 0) = e /\ 0 \in Nat /\ 0 <= Len(D)
    BY <1>1, <2>3
  <2>5. SubSeq(D, 1, 0) \in Seq(Bytes)
    BY <2>4
  <2> QED
    BY <1>1, <2>1, <2>2, <2>3, <2>4, <2>5, SetLenIs
<1>5. CASE r.kind # "static" /\ ~IsUnique(r, m)
  <2> DEFINE q == FromInline("LeanString", e)
  <2>1. o \in ReplaceInner(r, m, q)
    BY <1>1, <1>5 DEF Clear
  <2>2. Valid(q, m) /\ ~IsHeap(q) /\ q.ty = "LeanString" /\ AsBytes(q, m) = e
    BY <1>2, InlineIs
  <2> HIDE DEF q
  <2>3. Trade(Nothing, m, q, m)
    BY <2>2, NothingValid, TradeText
  <2> QED
    BY <1>1, <2>1, <2>2, <2>3, ReplaceInnerIs
<1> QED
  BY <1>3, <1>4, <1>5

-----------------------------------------------------------------------------
(* Conversions.                                                            *)

\* A conversion that fails hands its handle back, with the same text; the length word of a
\* block of its own may have been written again.
Returns(o, r, m) ==
    /\ o = [ret |-> "err", val |-> <<>>, r |-> r, m |-> o.m]
    /\ Trade(r, m, r, o.m) /\ AsBytes(r, o.m) = AsBytes(r, m)

Converts(o, r, m, ty) == Gets(o, r, m, ty, AsBytes(r, m)) \/ Returns(o, r, m)

\* An error that changed nothing is a special case.
LEMMA FailsReturns ==
    ASSUME NEW m, IsHeapOf(m), NEW r, Valid(r, m), NEW o, Fails(o, r, m)
    PROVE  Returns(o, r, m)
<1>1. o.m = m /\ o = [ret |-> "err", val |-> <<>>, r |-> r, m |-> o.m]
  BY DEF Fails
<1> QED
  BY <1>1, TradeSelf DEF Returns

\* into_exact: the block is cut to the text and its header exchanged, or restored.
LEMMA IntoExactIs ==
    ASSUME NEW m, IsHeapOf(m), NEW r, IsOnHeap(r, m), r.ty = "LeanString", Unshared(r, m),
           NEW o \in IntoExact(r, m)
    PROVE  Converts(o, r, m, "LeanStr")
<1> DEFINE was == m[r.buf]
           t == HeapBytes(r, m)
           n == HeapLen(r, m)
           moved == [ty |-> "LeanStr", count |-> 1, size |-> LayoutFor("LeanStr", n),
                     prefixed |-> r.len = OnTheHeap,
                     len |-> IF r.len = OnTheHeap THEN n ELSE UninitLen, bytes |-> t]
           restored == [was EXCEPT !.count = 1, !.len = IF was.prefixed THEN n ELSE @]
           q == [r EXCEPT !.ty = "LeanStr"]
<1>1. /\ Believes(r, m) /\ n \in Nat /\ t \in Seq(Bytes) /\ Len(t) = n /\ r.buf \in DOMAIN m
      /\ IsHeap(r) /\ n = LenIn(r, was) /\ t = TextIn(r, was) /\ Valid(r, m)
      /\ (r.len = OnTheHeap <=> n > MaxLen) /\ n <= CapMax /\ AsBytes(r, m) = t
      /\ n <= HeapCapacity(r, m) /\ HeapCapacity(r, m) <= CapMax /\ HeapCapacity(r, m) \in Nat
  BY OnHeapFacts, Numbers DEF Valid, AsBytes
<1>2. /\ was \in Block /\ was.bytes \in Seq(Cell) /\ was.count = 1 /\ Len(was.bytes) <= CapMax
      /\ was.prefixed \in BOOLEAN /\ was.len \in Nat \cup {UninitLen}
      /\ r \in [ty : Types, kind : {"heap"}, buf : DOMAIN m, len : 0..OnTheHeap] /\ Suits(r, was)
  BY <1>1, BlockFields DEF IsHeapOf, Unshared, IsOnHeap
<1>3. CASE o \in Err(r, m)
  BY <1>1, <1>3, ErrIs, FailsReturns DEF Converts
<1>4. CASE o \in Err(r, [m EXCEPT ![r.buf] = restored])
  <2> DEFINE x == IF was.prefixed THEN n ELSE was.len
             h == [m EXCEPT ![r.buf] = restored]
  <2>1. x \in Nat \cup {UninitLen}
    BY <1>1, <1>2
  <2>2. restored = [was EXCEPT !.count = 1, !.len = x]
    BY <1>2 DEF Block
  <2> HIDE DEF x
  <2>3. /\ restored \in Block /\ restored.count = 1 /\ restored.len = x /\ restored.ty = was.ty
        /\ restored.size = was.size /\ restored.prefixed = was.prefixed /\ restored.bytes = was.bytes
    <3> HIDE DEF was
    <3> QED
      BY <1>2, <2>1, <2>2 DEF Block
  <2> HIDE DEF restored
  <2>4. LenIn(r, restored) = n
    BY <1>1, <1>2, <2>3, Numbers DEF x, LenIn, Suits
  <2>5. TextIn(r, restored) = t
    BY <1>1, <2>3, <2>4 DEF TextIn
  <2>6. r.len = OnTheHeap => restored.len > MaxLen
    BY <1>1, <2>4 DEF LenIn
  <2>7. Suits(r, restored)
    <3> HIDE DEF was, n, t
    <3> QED
      BY <1>1, <1>2, <2>3, <2>4, <2>5, <2>6 DEF Suits
  <2>8. r \in [ty : Types, kind : {"heap"}, buf : {r.buf}, len : 0..OnTheHeap]
    BY <1>2
  <2>9. Len(restored.bytes) <= CapMax
    BY <1>2, <2>3
  <2>10. Trade(r, m, r, h) /\ AsBytes(r, h) = TextIn(r, restored)
    BY <2>3, <2>7, <2>8, <2>9, UniqueEdit
  <2> HIDE DEF h
  <2>11. o = [ret |-> "err", val |-> <<>>, r |-> r, m |-> h]
    BY <1>4 DEF Err, Outcome, h
  <2>12. o.m = h /\ o = [ret |-> "err", val |-> <<>>, r |-> r, m |-> o.m]
    BY <2>11
  <2> QED
    BY <1>1, <2>5, <2>10, <2>12 DEF Converts, Returns
<1>5. CASE o \in Ok(q, [m EXCEPT ![r.buf] = moved])
  <2> DEFINE h == [m EXCEPT ![r.buf] = moved]
  <2>1. LayoutFor("LeanStr", n) \in Nat
    BY <1>1, LayoutIsNat
  <2>2. t \in Seq(Cell) /\ "LeanStr" \in Types
    BY <1>1 DEF Cell, Types
  <2>3. (IF r.len = OnTheHeap THEN n ELSE UninitLen) \in Nat \cup {UninitLen}
    BY <1>1
  <2>4. (r.len = OnTheHeap) \in BOOLEAN
    OBVIOUS
  <2>5. /\ moved.ty = "LeanStr" /\ moved.count = 1 /\ moved.size = LayoutFor("LeanStr", n)
        /\ moved.prefixed = (r.len = OnTheHeap) /\ moved.bytes = t
        /\ moved.len = IF r.len = OnTheHeap THEN n ELSE UninitLen
    OBVIOUS
  <2>6. moved \in Block
    <3> HIDE DEF n, t
    <3> QED
      BY <2>1, <2>2, <2>3, <2>4 DEF Block
  <2> HIDE DEF moved
  <2>7. /\ q \in [ty : Types, kind : {"heap"}, buf : {r.buf}, len : 0..OnTheHeap]
        /\ q.ty = "LeanStr" /\ q.len = r.len
    BY <1>2, <2>2
  <2> HIDE DEF q
  <2>8. LenIn(q, moved) = n
    BY <1>1, <2>5, <2>7 DEF LenIn
  <2>9. TextIn(q, moved) = t
    <3> HIDE DEF n, t
    <3> QED
      BY <1>1, <2>2, <2>5, <2>8 DEF TextIn
  <2>10. moved.prefixed = IsLenHeapLayout(n)
    BY <1>1, <2>5 DEF IsLenHeapLayout
  <2>11. Suits(q, moved)
    <3>1. q.len = OnTheHeap => moved.len > MaxLen
      BY <1>1, <2>5, <2>7
    <3> HIDE DEF n, t
    <3> QED
      BY <1>1, <2>5, <2>7, <2>8, <2>9, <2>10, <3>1 DEF Suits
  <2>12. Len(moved.bytes) <= CapMax
    BY <1>1, <2>5
  <2>13. Trade(r, m, q, h) /\ AsBytes(q, h) = TextIn(q, moved)
    BY <2>5, <2>6, <2>7, <2>11, <2>12, UniqueEdit
  <2>14. o \in Ok(q, h)
    BY <1>5
  <2> HIDE DEF h
  <2>15. Gets(o, r, m, q.ty, AsBytes(q, h))
    BY <2>13, <2>14, OkGets
  <2> QED
    BY <1>1, <2>7, <2>9, <2>13, <2>15 DEF Converts
<1> QED
  <2>1. ~(~Unshared(r, m) \/ ~Believes(r, m))
    BY <1>1
  <2>2. o \in Err(r, m) \/ o \in Err(r, [m EXCEPT ![r.buf] = restored])
        \/ o \in Ok(q, [m EXCEPT ![r.buf] = moved])
    BY <2>1 DEF IntoExact
  <2> QED
    BY <1>3, <1>4, <1>5, <2>2

\* into_growable: the block grows by the larger header.
LEMMA IntoGrowableIs ==
    ASSUME NEW m, IsHeapOf(m), NEW r, IsOnHeap(r, m), r.ty = "LeanStr", Unshared(r, m),
           NEW o \in IntoGrowable(r, m)
    PROVE  Gets(o, r, m, "LeanString", AsBytes(r, m)) \/ Fails(o, r, m)
<1> DEFINE was == m[r.buf]
           t == HeapBytes(r, m)
           n == HeapLen(r, m)
           size == LayoutFor("LeanString", n)
           moved == [was EXCEPT !.ty = "LeanString", !.count = 1, !.size = size]
           q == [r EXCEPT !.ty = "LeanString"]
           h == [m EXCEPT ![r.buf] = moved]
<1>1. /\ Believes(r, m) /\ n \in Nat /\ t \in Seq(Bytes) /\ Len(t) = n /\ r.buf \in DOMAIN m
      /\ IsHeap(r) /\ n = LenIn(r, was) /\ t = TextIn(r, was) /\ AsBytes(r, m) = t
  BY OnHeapFacts DEF AsBytes
<1>2. /\ was \in Block /\ was.count = 1 /\ Len(was.bytes) <= CapMax
      /\ r \in [ty : Types, kind : {"heap"}, buf : DOMAIN m, len : 0..OnTheHeap] /\ Suits(r, was)
  BY <1>1, BlockFields DEF IsHeapOf, Unshared, IsOnHeap
<1>3. CASE o \in Err(r, m)
  BY <1>3, ErrIs
<1>4. CASE o \in Ok(q, h)
  <2>1. size \in Nat /\ "LeanString" \in Types
    BY <1>1, LayoutIsNat DEF Types
  <2>2. /\ q \in [ty : Types, kind : {"heap"}, buf : {r.buf}, len : 0..OnTheHeap]
        /\ q.ty = "LeanString" /\ q.len = r.len
    BY <1>2, <2>1
  <2> HIDE DEF size, q
  <2>3. /\ moved.ty = "LeanString" /\ moved.count = 1 /\ moved.size = size
        /\ moved.prefixed = was.prefixed /\ moved.len = was.len /\ moved.bytes = was.bytes
    BY <1>2 DEF Block
  <2>4. moved \in Block
    <3>1. moved = [was EXCEPT !.ty = "LeanString", !.size = size]
      BY <1>2 DEF Block
    <3>2. [was EXCEPT !.ty = "LeanString", !.size = size] \in Block
      <4> HIDE DEF was
      <4> QED
        BY <1>2, <2>1 DEF Block
    <3> QED
      BY <3>1, <3>2
  <2> HIDE DEF moved
  <2>5. Len(was.bytes) = n
    BY <1>1, <1>2 DEF Suits
  <2>6. LenIn(q, moved) = n /\ TextIn(q, moved) = t
    BY <1>1, <2>2, <2>3 DEF LenIn, TextIn
  <2>7. Suits(q, moved)
    <3>1. q.len = OnTheHeap => moved.len > MaxLen
      BY <1>2, <2>2, <2>3 DEF Suits
    <3>2. moved.prefixed = IsLenHeapLayout(Len(was.bytes))
      BY <1>2, <2>3 DEF Suits
    <3>3. size = LayoutFor("LeanString", Len(was.bytes))
      BY <2>5 DEF size
    <3> HIDE DEF n, t, was
    <3> QED
      BY <1>1, <2>2, <2>3, <2>5, <2>6, <3>1, <3>2, <3>3 DEF Suits
  <2>8. Len(moved.bytes) <= CapMax
    BY <1>2, <2>3
  <2>9. Trade(r, m, q, h) /\ AsBytes(q, h) = TextIn(q, moved)
    BY <2>2, <2>3, <2>4, <2>7, <2>8, UniqueEdit
  <2>10. o \in Ok(q, h)
    BY <1>4
  <2> HIDE DEF h
  <2>11. Gets(o, r, m, q.ty, AsBytes(q, h))
    BY <2>9, <2>10, OkGets
  <2> QED
    BY <1>1, <2>2, <2>6, <2>9, <2>11
<1> QED
  BY <1>1, <1>3, <1>4 DEF IntoGrowable

\* A handle without a block changes its type.
LEMMA Retyped ==
    ASSUME NEW m, IsHeapOf(m), NEW r, Valid(r, m), ~IsHeap(r), NEW ty \in Types,
           NEW o \in Ok([r EXCEPT !.ty = ty], m)
    PROVE  Gets(o, r, m, ty, AsBytes(r, m))
<1> DEFINE q == [r EXCEPT !.ty = ty]
<1>1. IsInline(r) \/ IsStatic(r)
  BY ValidFacts DEF IsHeap
<1>2. q.ty = ty /\ q.kind = r.kind /\ q.text = r.text
  BY <1>1 DEF IsInline, IsStatic
<1>3. Valid(q, m)
  BY <1>1 DEF IsInline, IsStatic, Valid
<1> HIDE DEF q
<1>4. ~IsHeap(q) /\ AsBytes(q, m) = AsBytes(r, m)
  BY <1>2 DEF IsHeap, AsBytes
<1>5. Trade(r, m, q, m)
  BY <1>3, <1>4, TradeText
<1>6. o \in Ok(q, m)
  BY DEF q
<1> QED
  BY <1>2, <1>4, <1>5, <1>6, OkGets

\* A copy of the text takes the place of r.
LEMMA ReplacedByCopy ==
    ASSUME NEW m, IsHeapOf(m), NEW r, Valid(r, m), NEW ty \in Types, NEW t \in Seq(Bytes),
           NEW o \in Replace(r, m, FromStr(ty, t, r, m))
    PROVE  Gets(o, r, m, ty, t) \/ Fails(o, r, m)
<1> DEFINE made == FromStr(ty, t, r, m)
<1>1. ASSUME NEW p \in made PROVE Makes(p, r, m, ty, t)
  BY FromStrIs
<1> HIDE DEF made
<1>2. o \in Replace(r, m, made)
  BY DEF made
<1> QED
  BY <1>1, <1>2, ReplaceIs

\* into_immutable: LeanString to LeanStr.
LEMMA IntoImmutableIs ==
    ASSUME NEW m, IsHeapOf(m), NEW r, Valid(r, m), r.ty = "LeanString", NEW o \in IntoImmutable(r, m)
    PROVE  Converts(o, r, m, "LeanStr")
<1> DEFINE t == AsBytes(r, m)
<1>1. t \in Seq(Bytes) /\ "LeanStr" \in Types
  BY ValidFacts DEF Types
<1>2. CASE ~IsHeap(r)
  <2>1. o \in Ok([r EXCEPT !.ty = "LeanStr"], m)
    BY <1>2 DEF IntoImmutable
  <2> QED
    BY <1>1, <1>2, <2>1, Retyped DEF Converts
<1>3. CASE IsHeap(r) /\ ~IsUnique(r, m)
  <2>1. o \in Replace(r, m, FromStr("LeanStr", t, r, m))
    BY <1>3 DEF IntoImmutable
  <2> HIDE DEF t
  <2>2. Gets(o, r, m, "LeanStr", t) \/ Fails(o, r, m)
    BY <1>1, <2>1, ReplacedByCopy
  <2> QED
    BY <2>2, FailsReturns DEF Converts, t
<1>4. CASE IsHeap(r) /\ IsUnique(r, m) /\ Len(t) <= InlineMax
  <2> DEFINE q == FromInline("LeanStr", t)
  <2>1. o \in ReplaceInner(r, m, q)
    BY <1>4 DEF IntoImmutable
  <2> HIDE DEF t
  <2>2. Valid(q, m) /\ ~IsHeap(q) /\ q.ty = "LeanStr" /\ AsBytes(q, m) = t
    BY <1>1, <1>4, InlineIs
  <2> HIDE DEF q
  <2>3. Trade(Nothing, m, q, m)
    BY <2>2, NothingValid, TradeText
  <2>4. Gets(o, r, m, q.ty, AsBytes(q, m))
    BY <2>1, <2>3, ReplaceInnerIs
  <2> QED
    BY <2>2, <2>4 DEF Converts, t
<1>5. CASE IsHeap(r) /\ IsUnique(r, m) /\ ~(Len(t) <= InlineMax)
  <2>1. o \in IntoExact(r, m)
    BY <1>5 DEF IntoImmutable
  <2>2. IsOnHeap(r, m) /\ Unshared(r, m)
    BY <1>5, ValidFacts DEF IsUnique
  <2> QED
    BY <2>1, <2>2, IntoExactIs
<1> QED
  BY <1>2, <1>3, <1>4, <1>5

\* into_mutable: LeanStr to LeanString.
LEMMA IntoMutableIs ==
    ASSUME NEW m, IsHeapOf(m), NEW r, Valid(r, m), r.ty = "LeanStr", NEW o \in IntoMutable(r, m)
    PROVE  Converts(o, r, m, "LeanString")
<1> DEFINE t == AsBytes(r, m)
<1>1. t \in Seq(Bytes) /\ "LeanString" \in Types
  BY ValidFacts DEF Types
<1>2. CASE ~IsHeap(r)
  <2>1. o \in Ok([r EXCEPT !.ty = "LeanString"], m)
    BY <1>2 DEF IntoMutable
  <2> QED
    BY <1>1, <1>2, <2>1, Retyped DEF Converts
<1>3. CASE IsHeap(r) /\ IsUnique(r, m)
  <2>1. o \in IntoGrowable(r, m)
    BY <1>3 DEF IntoMutable
  <2>2. IsOnHeap(r, m) /\ Unshared(r, m)
    BY <1>3, ValidFacts DEF IsUnique
  <2> QED
    BY <2>1, <2>2, IntoGrowableIs, FailsReturns DEF Converts
<1>4. CASE IsHeap(r) /\ ~IsUnique(r, m)
  <2>1. o \in Replace(r, m, FromStr("LeanString", t, r, m))
    BY <1>4 DEF IntoMutable
  <2> HIDE DEF t
  <2>2. Gets(o, r, m, "LeanString", t) \/ Fails(o, r, m)
    BY <1>1, <2>1, ReplacedByCopy
  <2> QED
    BY <2>2, FailsReturns DEF Converts, t
<1> QED
  BY <1>2, <1>3, <1>4

\* If nothing is exchanged for nothing, the heap is what it was.
LEMMA TradeNothing ==
    ASSUME NEW m, IsHeapOf(m), NEW n, Trade(Nothing, m, Nothing, n)
    PROVE  n = m
<1>1. IsHeapOf(n)
  BY DEF Trade
<1>2. \A b \in Buffers : CountAt(n, b) = CountAt(m, b)
  BY <1>1, NothingValid, CountsAre DEF Trade
<1>3. DOMAIN n = DOMAIN m
  BY <1>1, <1>2, CountsAre DEF IsHeapOf
<1>4. ASSUME NEW b \in DOMAIN m PROVE n[b] = m[b]
  <2>1. m[b].count > 0 /\ b \in Buffers /\ b \in DOMAIN n
    BY <1>3, BlockFields
  <2>2. Same(m[b], n[b])
    BY <2>1, NothingValid DEF Trade, Spares
  <2>3. n[b].count = m[b].count
    BY <1>2, <2>1 DEF CountAt
  <2>4. m[b] \in Block /\ n[b] \in Block
    BY <1>1, <2>1 DEF IsHeapOf
  <2>5. \A k, l \in Block : Same(k, l) /\ k.count = l.count => k = l
    BY DEF Block, Same
  <2> QED
    BY <2>2, <2>3, <2>4, <2>5
<1> QED
  BY <1>1, <1>3, <1>4 DEF IsHeapOf

\* Something new that is given up again leaves no trace.
LEMMA MadeAndDropped ==
    ASSUME NEW m, IsHeapOf(m), NEW q, NEW n, Trade(Nothing, m, q, n), NEW d \in DropIn(q, n)
    PROVE  d.ret = "ok" /\ d.val = <<>> /\ d.m = m
<1>1. IsHeapOf(n) /\ Valid(q, n)
  BY DEF Trade
<1>2. d = [ret |-> "ok", val |-> <<>>, r |-> q, m |-> d.m] /\ Trade(q, n, Nothing, d.m)
  BY <1>1, DropInIs
<1>3. Trade(Nothing, m, Nothing, d.m)
  BY <1>2, TradeTwice
<1>4. d.m = m
  BY <1>3, TradeNothing
<1>5. d.ret = "ok" /\ d.val = <<>>
  BY <1>2
<1> QED
  BY <1>4, <1>5

\* A new handle is converted; where that fails it is dropped, and nothing has happened.
LEMMA ConvertedOrDropped ==
    ASSUME NEW m, IsHeapOf(m), NEW p, NEW s, NEW t, Gets(p, Nothing, m, s, t),
           NEW made, NEW ty, \A c \in made : Converts(c, p.r, p.m, ty),
           NEW r, NEW o \in DropMapped(made, r)
    PROVE  Makes(o, r, m, ty, t)
<1>1. PICK c \in made :
         o \in IF c.ret = "err"
               THEN UNION {IF d.ret = "ok" THEN Err(r, d.m) ELSE {d} : d \in DropIn(c.r, c.m)}
               ELSE {c}
  BY DEF DropMapped, Then
<1>2. Trade(Nothing, m, p.r, p.m) /\ AsBytes(p.r, p.m) = t
  BY GetsFacts
<1>3. CASE Gets(c, p.r, p.m, ty, AsBytes(p.r, p.m))
  <2>1. c.ret = "ok"
    BY <1>3, GetsFacts
  <2>2. Gets(c, Nothing, m, ty, t)
    BY <1>2, <1>3, GetsTwice
  <2> QED
    BY <1>1, <2>1, <2>2 DEF Makes
<1>4. CASE Returns(c, p.r, p.m)
  <2>1. c = [ret |-> "err", val |-> <<>>, r |-> p.r, m |-> c.m] /\ Trade(p.r, p.m, p.r, c.m)
    BY <1>4 DEF Returns
  <2>2. c.ret = "err" /\ c.r = p.r
    BY <2>1
  <2>3. Trade(Nothing, m, p.r, c.m)
    BY <1>2, <2>1, TradeTwice
  <2>4. PICK d \in DropIn(p.r, c.m) : o \in IF d.ret = "ok" THEN Err(r, d.m) ELSE {d}
    BY <1>1, <2>2
  <2>5. d.ret = "ok" /\ d.m = m
    BY <2>3, <2>4, MadeAndDropped
  <2>6. o \in Err(r, m)
    BY <2>4, <2>5
  <2> QED
    BY <2>6, ErrIs DEF Makes
<1> QED
  BY <1>3, <1>4 DEF Converts

\* to_lean_str and to_lean_string: a clone is converted.
LEMMA ClonedAndConverted ==
    ASSUME NEW m, IsHeapOf(m), NEW r, Valid(r, m), NEW isString, isString <=> r.ty = "LeanString",
           NEW o \in UNION {IF p.ret = "ok"
                            THEN DropMapped(IF isString THEN IntoImmutable(p.r, p.m)
                                            ELSE IntoMutable(p.r, p.m), p.r)
                            ELSE {p} : p \in MakeShallowClone(r, m)}
    PROVE  Makes(o, r, m, IF isString THEN "LeanStr" ELSE "LeanString", AsBytes(r, m))
<1> DEFINE Into(p) == IF isString THEN IntoImmutable(p.r, p.m) ELSE IntoMutable(p.r, p.m)
           ty == IF isString THEN "LeanStr" ELSE "LeanString"
<1>1. PICK p \in MakeShallowClone(r, m) :
         o \in IF p.ret = "ok" THEN DropMapped(Into(p), p.r) ELSE {p}
  OBVIOUS
<1>2. Gets(p, Nothing, m, r.ty, AsBytes(r, m)) /\ p.r = r
  BY <1>1, CloneIs
<1>3. p.ret = "ok" /\ IsHeapOf(p.m) /\ Valid(p.r, p.m) /\ p.r.ty = r.ty /\ r.ty \in Types
  BY <1>2, GetsFacts, ValidFacts
<1>4. o \in DropMapped(Into(p), r)
  BY <1>1, <1>2, <1>3
<1>5. ASSUME NEW c \in Into(p) PROVE Converts(c, p.r, p.m, ty)
  <2>1. CASE isString
    BY <1>3, <2>1, IntoImmutableIs
  <2>2. CASE ~isString
    <3>1. r.ty = "LeanStr"
      BY <1>3, <2>2 DEF Types
    <3> QED
      BY <1>3, <2>2, <3>1, IntoMutableIs
  <2> QED
    BY <2>1, <2>2
<1> HIDE DEF Into, ty
<1>6. Makes(o, r, m, ty, AsBytes(r, m))
  BY <1>2, <1>4, <1>5, ConvertedOrDropped
<1> QED
  BY <1>6 DEF ty

-----------------------------------------------------------------------------
(* Calls that return a value, or panic after they have written.            *)

\* The call ends as ret says with value v, and r has become a handle with text t.
Leads(o, r, m, ret, v, t) ==
    /\ o = [ret |-> ret, val |-> v, r |-> o.r, m |-> o.m]
    /\ Trade(r, m, o.r, o.m) /\ o.r.ty = r.ty /\ AsBytes(o.r, o.m) = t

\* The end of a call that succeeded is given another form.
LEMMA EndsOtherwise ==
    ASSUME NEW o, NEW r, NEW m, NEW t, Gets(o, r, m, r.ty, t), NEW p, NEW v, NEW ret,
           p = [ret |-> ret, val |-> v, r |-> o.r, m |-> o.m]
    PROVE  Leads(p, r, m, ret, v, t)
<1>1. p.r = o.r /\ p.m = o.m
  OBVIOUS
<1>2. p = [ret |-> ret, val |-> v, r |-> p.r, m |-> p.m]
  BY <1>1
<1>3. Trade(r, m, o.r, o.m) /\ o.r.ty = r.ty /\ AsBytes(o.r, o.m) = t
  BY GetsFacts
<1> QED
  BY <1>1, <1>2, <1>3 DEF Leads

\* A value is added to the outcomes of a call that edits r.
LEMMA WithValue ==
    ASSUME NEW m, NEW r, NEW t, NEW v, NEW S, \A o \in S : Edits(o, r, m, t),
           NEW p \in {IF o.ret = "ok" THEN [o EXCEPT !.val = v] ELSE o : o \in S}
    PROVE  Leads(p, r, m, "ok", v, t) \/ Fails(p, r, m)
<1>1. PICK o \in S : p = IF o.ret = "ok" THEN [o EXCEPT !.val = v] ELSE o
  OBVIOUS
<1>2. CASE Gets(o, r, m, r.ty, t)
  <2>1. o.ret = "ok" /\ o = [ret |-> "ok", val |-> <<>>, r |-> o.r, m |-> o.m]
    BY <1>2, GetsFacts DEF Gets
  <2>2. \A x, y : [[ret |-> "ok", val |-> <<>>, r |-> x, m |-> y] EXCEPT !.val = v]
                  = [ret |-> "ok", val |-> v, r |-> x, m |-> y]
    OBVIOUS
  <2>3. [o EXCEPT !.val = v] = [ret |-> "ok", val |-> v, r |-> o.r, m |-> o.m]
    BY <2>1, <2>2
  <2>4. p = [ret |-> "ok", val |-> v, r |-> o.r, m |-> o.m]
    BY <1>1, <2>1, <2>3
  <2> QED
    BY <1>2, <2>4, EndsOtherwise
<1>3. CASE Fails(o, r, m)
  <2>1. p = o
    BY <1>1, <1>3, FailsFacts
  <2> QED
    BY <1>3, <2>1
<1> QED
  BY <1>2, <1>3 DEF Edits

\* remove: the character goes and the tail moves down.
LEMMA RemoveCharIs ==
    ASSUME NEW m, IsHeapOf(m), NEW r, Valid(r, m), r.ty = "LeanString", IsUtf8(AsBytes(r, m)),
           NEW idx \in Nat, NEW o \in RemoveChar(r, m, idx)
    PROVE  LET t == AsBytes(r, m)
               ch == CharAt(t, idx)
           IN  IF IsCharBoundary(t, idx) /\ idx < Len(t)
               THEN \/ Leads(o, r, m, "ok", ch, Splice(t, idx, idx + Len(ch), <<>>))
                    \/ Fails(o, r, m)
               ELSE Panics(o, r, m)
<1> DEFINE t == AsBytes(r, m)
           ch == CharAt(t, idx)
<1>1. t \in Seq(Bytes) /\ Len(t) = LenOf(r, m)
  BY ValidFacts
<1>2. PICK l \in Nat : l = Len(t)
  BY <1>1
<1>3. CASE ~IsCharBoundary(t, idx) \/ idx >= Len(t)
  <2>1. o \in Panic(r, m)
    BY <1>3 DEF RemoveChar
  <2>2. Panics(o, r, m)
    BY <2>1 DEF Panic, Outcome, Panics
  <2>3. ~(IsCharBoundary(t, idx) /\ idx < Len(t))
    BY <1>2, <1>3
  <2> QED
    BY <2>2, <2>3
<1>4. CASE IsCharBoundary(t, idx) /\ ~(idx >= Len(t))
  <2>1. PICK c \in Nat : c = Len(ch) /\ idx + c <= l
    BY <1>1, <1>2, <1>4, CharAtIs
  <2> DEFINE u == Splice(t, idx, idx + c, <<>>)
             After(p) == SetLen(p.r, p.m, CopyWithin(Data(p.r, p.m), idx + c, idx, l - idx - c), l - c)
             removed == UNION {IF p.ret = "ok" THEN After(p) ELSE {p} : p \in EnsureModifiable(r, m)}
  <2>2. o \in {IF p.ret = "ok" THEN [p EXCEPT !.val = ch] ELSE p : p \in removed}
    BY <1>2, <1>4, <2>1 DEF RemoveChar, Then
  <2>3. ASSUME NEW x \in removed PROVE Edits(x, r, m, u)
    <3>1. PICK p \in EnsureModifiable(r, m) :
             x \in IF p.ret = "ok"
                   THEN SetLen(p.r, p.m, CopyWithin(Data(p.r, p.m), idx + c, idx, l - idx - c), l - c)
                   ELSE {p}
      OBVIOUS
    <3>2. Edits(p, r, m, t) /\ (p.ret = "ok" => Roomy(p.r, p.m, l))
      BY <1>1, <1>2, <3>1, EnsureModifiableIs
    <3>3. CASE Fails(p, r, m) /\ p.ret = "err"
      BY <3>1, <3>3 DEF Edits
    <3>4. CASE Ready(p, r, m, l)
      <4> DEFINE D == Data(p.r, p.m)
                 d == CopyWithin(D, idx + c, idx, l - idx - c)
      <4>1. D \in Seq(Cell) /\ Len(D) >= l /\ SubSeq(D, 1, l) = t
        BY <1>1, <1>2, <3>4, ReadyData
      <4>2. x \in SetLen(p.r, p.m, d, l - c)
        BY <3>1, <3>4 DEF Ready
      <4> HIDE DEF t, ch
      <4>3. d \in Seq(Cell) /\ Len(d) = Len(D) /\ SubSeq(d, 1, l - c) = u
        <5> HIDE DEF D
        <5>1. PICK j \in Nat : j = idx + c
          OBVIOUS
        <5>2. D \in Seq(Cell) /\ l \in Nat /\ l <= Len(D) /\ idx \in Nat /\ idx <= j /\ j <= l
          BY <2>1, <4>1, <5>1
        <5>3. /\ CopyWithin(D, j, idx, l - j) \in Seq(Cell)
              /\ Len(CopyWithin(D, j, idx, l - j)) = Len(D)
              /\ SubSeq(CopyWithin(D, j, idx, l - j), 1, l - (j - idx)) = Splice(SubSeq(D, 1, l), idx, j, <<>>)
          BY <5>2, RemovedInPlace
        <5>4. l - j = l - idx - c /\ l - (j - idx) = l - c
          BY <5>1
        <5> QED
          BY <4>1, <5>1, <5>3, <5>4
      <4>4. l - c \in Nat /\ l - c <= Len(d)
        BY <2>1, <4>1, <4>3
      <4>5. u \in Seq(Bytes)
        <5>1. PICK e \in Seq(Bytes) : e = <<>>
          <6>1. <<>> \in Seq(Bytes)
            OBVIOUS
          <6> QED
            BY <6>1
        <5>2. Splice(t, idx, idx + c, e) \in Seq(Bytes)
          BY <1>1, <1>2, <2>1, SpliceIs
        <5> QED
          BY <5>1, <5>2
      <4> HIDE DEF d, u
      <4>6. Gets(x, r, m, "LeanString", u)
        BY <3>4, <4>2, <4>3, <4>4, <4>5, WriteIs
      <4> QED
        BY <4>6 DEF Edits
    <3> QED
      BY <3>2, <3>3, <3>4, RoomMade
  <2> HIDE DEF removed, u, ch
  <2>4. Leads(o, r, m, "ok", ch, u) \/ Fails(o, r, m)
    BY <2>2, <2>3, WithValue
  <2>5. IsCharBoundary(t, idx) /\ idx < Len(t)
    BY <1>2, <1>4
  <2>6. u = Splice(t, idx, idx + Len(ch), <<>>)
    BY <2>1 DEF u
  <2> QED
    BY <2>4, <2>5, <2>6 DEF ch
<1> QED
  BY <1>3, <1>4

\* pop: the last character goes.
LEMMA PopIs ==
    ASSUME NEW m, IsHeapOf(m), NEW r, Valid(r, m), r.ty = "LeanString", IsUtf8(AsBytes(r, m)),
           NEW o \in Pop(r, m)
    PROVE  LET t == AsBytes(r, m)
               at == Last(Starts(t))
           IN  IF t = <<>> THEN Gets(o, r, m, r.ty, t) /\ o.r = r /\ o.m = m
               ELSE /\ at \in Nat /\ at < Len(t) /\ IsCharBoundary(t, at)
                    /\ Leads(o, r, m, "ok", CharAt(t, at), SubSeq(t, 1, at)) \/ Fails(o, r, m)
<1> DEFINE t == AsBytes(r, m)
           at == Last(Starts(t))
<1>1. t \in Seq(Bytes) /\ Len(t) = LenOf(r, m)
  BY ValidFacts
<1>2. CASE t = <<>>
  <2>1. o \in Ok(r, m)
    BY <1>2 DEF Pop
  <2> QED
    BY <1>2, <2>1, OkIs
<1>3. CASE t # <<>>
  <2>1. Len(t) # 0
    BY <1>1, <1>3, EmptyIs
  <2>2. PICK c \in Nat : c = Len(Starts(t)) /\ c # 0
    BY <1>1, <2>1, StartsTile
  <2>3. c \in 1..c
    BY <2>2
  <2>4. at = Starts(t)[c]
    BY <2>2 DEF Last
  <2>5. at \in Nat /\ at < Len(t) /\ IsCharBoundary(t, at)
    <3> HIDE DEF t
    <3> QED
      BY <1>1, <2>2, <2>3, <2>4, StartsTile DEF t
  <2>6. o \in {IF p.ret = "ok" THEN [p EXCEPT !.val = CharAt(t, at)] ELSE p :
                  p \in TruncateUnchecked(r, m, at)}
    BY <1>3 DEF Pop
  <2> HIDE DEF at
  <2>7. ASSUME NEW p \in TruncateUnchecked(r, m, at) PROVE Edits(p, r, m, SubSeq(t, 1, at))
    BY <1>1, <2>5, TruncateUncheckedIs
  <2>8. Leads(o, r, m, "ok", CharAt(t, at), SubSeq(t, 1, at)) \/ Fails(o, r, m)
    <3> HIDE DEF t
    <3> QED
      BY <2>6, <2>7, WithValue
  <2> QED
    BY <1>3, <2>5, <2>8 DEF at
<1> QED
  BY <1>2, <1>3

-----------------------------------------------------------------------------
(* Case mappings and repetition.                                           *)

\* to_ascii_lowercase and to_ascii_uppercase: a text that does not change is shared.
LEMMA ToAsciiCaseIs ==
    ASSUME NEW m, IsHeapOf(m), NEW r, Valid(r, m), IsUtf8(AsBytes(r, m)), NEW case,
           NEW o \in ToAsciiCase(r, m, case)
    PROVE  /\ Makes(o, r, m, r.ty, AsciiCase(AsBytes(r, m), case))
           /\ AsciiCase(AsBytes(r, m), case) = AsBytes(r, m) => o.r = r
<1> DEFINE t == AsBytes(r, m)
           u == AsciiCase(t, case)
           mid == SplitAtFirstAsciiChange(t, case)
           v == SubSeq(t, 1, mid) \o AsciiCase(SubSeq(t, mid + 1, Len(t)), case)
<1>1. t \in Seq(Bytes) /\ r.ty \in Types
  BY ValidFacts
<1>2. mid = NoChange => u = t
  BY <1>1, FirstAsciiChange
<1>3. mid # NoChange => u # t /\ u = v
  BY <1>1, FirstAsciiChange
<1>4. u \in Seq(Bytes)
  BY <1>1, AsciiCaseUtf8
<1>5. o \in IF mid = NoChange THEN MakeShallowClone(r, m) ELSE FromStr(r.ty, v, r, m)
  BY DEF ToAsciiCase
<1> HIDE DEF mid, v, u
<1>6. CASE mid = NoChange
  <2>1. Gets(o, Nothing, m, r.ty, t) /\ o.r = r
    BY <1>5, <1>6, CloneIs
  <2> HIDE DEF t
  <2> QED
    BY <1>2, <1>6, <2>1 DEF Makes, u, t
<1>7. CASE mid # NoChange
  <2>1. o \in FromStr(r.ty, u, r, m)
    BY <1>3, <1>5, <1>7
  <2>2. Makes(o, r, m, r.ty, u)
    BY <1>1, <1>4, <2>1, FromStrIs
  <2> HIDE DEF t
  <2> QED
    BY <1>3, <1>7, <2>2 DEF u, t
<1> QED
  BY <1>6, <1>7

\* A block's byte after the mapping of a byte.
LEMMA CellCase ==
    ASSUME NEW case, NEW b \in Cell
    PROVE  AsciiByte(b, case) \in Cell
<1>1. CASE b \in Bytes
  BY <1>1, AsciiByteIs DEF Cell
<1>2. CASE b = Uninit
  BY <1>2 DEF Cell, Uninit, AsciiByte
<1> QED
  BY <1>1, <1>2 DEF Cell

\* set_len to the length there is: the handle stays as it is if its text does.
LEMMA SetLenKeeps ==
    ASSUME NEW m, IsHeapOf(m), NEW r, Valid(r, m), IsModifiable(r, m), NEW d,
           SubSeq(d, 1, LenOf(r, m)) = AsBytes(r, m), NEW o \in SetLen(r, m, d, LenOf(r, m))
    PROVE  o.r = r
<1>1. LenOf(r, m) <= Capacity(r, m) /\ LenOf(r, m) \in Nat /\ Capacity(r, m) \in Nat
  BY ValidFacts
<1>2. CASE IsHeap(r)
  <2>1. /\ IsOnHeap(r, m) /\ LenOf(r, m) = HeapLen(r, m) /\ Capacity(r, m) = HeapCapacity(r, m)
        /\ Unshared(r, m)
    BY <1>2, ValidFacts DEF LenOf, Capacity, IsHeap, IsModifiable, IsUnique
  <2>2. o.r = [r EXCEPT !.len = TextLen(HeapLen(r, m))]
    BY <1>1, <1>2, <2>1 DEF SetLen, HeapSetLen, Ok, Outcome
  <2>3. r.len = TextLen(HeapLen(r, m))
    BY <2>1, OnHeapFacts
  <2>4. r \in [ty : Types, kind : {"heap"}, buf : DOMAIN m, len : 0..OnTheHeap]
    BY <2>1 DEF IsOnHeap
  <2>5. [r EXCEPT !.len = r.len] = r
    BY <2>4
  <2> QED
    BY <2>2, <2>3, <2>5
<1>3. CASE ~IsHeap(r)
  <2>1. IsInline(r)
    BY <1>3, ValidFacts DEF IsModifiable, IsHeap
  <2>5. o \in Ok(FromInline(r.ty, SubSeq(d, 1, LenOf(r, m))), m)
    <3>1. ~(~IsModifiable(r, m) \/ LenOf(r, m) > Capacity(r, m))
      BY <1>1
    <3> QED
      BY <1>3, <3>1 DEF SetLen
  <2>6. \A q : o \in Ok(q, m) => o.r = q
    BY DEF Ok, Outcome
  <2>2. o.r = FromInline(r.ty, AsBytes(r, m))
    BY <2>5, <2>6
  <2>3. AsBytes(r, m) = r.text
    BY <1>3 DEF AsBytes
  <2>4. r = [ty |-> r.ty, kind |-> "inline", text |-> r.text]
    BY <2>1 DEF IsInline
  <2> QED
    BY <2>2, <2>3, <2>4 DEF FromInline
<1> QED
  BY <1>2, <1>3

\* make_ascii_lowercase and make_ascii_uppercase.
LEMMA MakeAsciiCaseIs ==
    ASSUME NEW m, IsHeapOf(m), NEW r, Valid(r, m), r.ty = "LeanString", IsUtf8(AsBytes(r, m)),
           NEW case, NEW o \in MakeAsciiCase(r, m, case)
    PROVE  /\ Edits(o, r, m, AsciiCase(AsBytes(r, m), case))
           /\ AsciiCase(AsBytes(r, m), case) = AsBytes(r, m) => o.r = r
<1> DEFINE t == AsBytes(r, m)
           u == AsciiCase(t, case)
<1>1. t \in Seq(Bytes) /\ Len(t) = LenOf(r, m) /\ LenOf(r, m) \in Nat
  BY ValidFacts
<1>2. u \in Seq(Bytes)
  BY <1>1, AsciiCaseUtf8
<1>3. CASE IsModifiable(r, m)
  <2> DEFINE D == Data(r, m)
             d == AsciiCase(D, case)
             n == LenOf(r, m)
  <2>1. /\ D \in Seq(Cell) /\ Len(D) = Capacity(r, m) /\ SubSeq(D, 1, n) = t /\ n <= Len(D)
    BY <1>3, DataIs, ValidFacts
  <2>2. o \in SetLen(r, m, d, n)
    BY <1>3 DEF MakeAsciiCase
  <2>3. d \in Seq(Cell) /\ Len(d) = Len(D) /\ SubSeq(d, 1, n) = u
    <3> HIDE DEF D, n, t
    <3>1. \A b \in Cell : AsciiByte(b, case) \in Cell
      BY CellCase
    <3>2. n \in Nat
      BY <1>1 DEF n
    <3> QED
      BY <2>1, <3>1, <3>2, AsciiCaseIs
  <2> HIDE DEF d, u, D
  <2>4. Gets(o, r, m, "LeanString", SubSeq(d, 1, n))
    BY <1>1, <1>2, <1>3, <2>1, <2>2, <2>3, SetLenIs
  <2>5. Edits(o, r, m, u)
    BY <2>3, <2>4 DEF Edits
  <2>6. u = t => o.r = r
    BY <1>3, <2>2, <2>3, SetLenKeeps
  <2> QED
    BY <2>5, <2>6 DEF u
<1>4. CASE ~IsModifiable(r, m)
  <2> DEFINE made == ToAsciiCase(r, m, case)
  <2>1. o \in Replace(r, m, made)
    BY <1>4 DEF MakeAsciiCase
  <2>2. ASSUME NEW p \in made PROVE Makes(p, r, m, r.ty, u) /\ (u = t => p.r = r)
    BY ToAsciiCaseIs
  <2> HIDE DEF made, u, t
  <2>3. PICK p \in made : \/ Gets(o, r, m, r.ty, u) /\ p.ret = "ok" /\ KeepsAll(p, o)
                          \/ Fails(o, r, m) /\ o = p
    BY <2>1, <2>2, ReplaceIs
  <2>4. u = t => o.r = r
    BY <2>2, <2>3 DEF KeepsAll
  <2>5. Edits(o, r, m, u)
    BY <2>3 DEF Edits
  <2> QED
    BY <2>4, <2>5 DEF u, t
<1> QED
  BY <1>3, <1>4

\* repeat.
LEMMA RepeatIs ==
    ASSUME NEW m, IsHeapOf(m), NEW r, Valid(r, m), IsUtf8(AsBytes(r, m)), NEW times \in Nat,
           NEW o \in Repeat(r, m, times)
    PROVE  LET t == AsBytes(r, m)
               u == FlattenSeq([i \in 1..times |-> t])
           IN  /\ Len(t) * times > UsizeMax => Fails(o, r, m)
               /\ ~(Len(t) * times > UsizeMax) => Makes(o, r, m, r.ty, u) /\ IsUtf8(u)
<1> DEFINE t == AsBytes(r, m)
           ss == [i \in 1..times |-> t]
           u == FlattenSeq(ss)
<1>1. t \in Seq(Bytes) /\ r.ty \in Types /\ IsUtf8(t)
  BY ValidFacts
<1>2. PICK l \in Nat : l = Len(t) /\ l < UsizeMax
  BY ValidFacts
<1>3. ss \in Seq(Seq(Bytes)) /\ Len(ss) = times /\ \A i \in 1..times : ss[i] = t
  <2>1. ss \in [1..times -> Seq(Bytes)]
    BY <1>1
  <2> QED
    BY <2>1, FunctionIsSeq
<1> HIDE DEF t, ss
<1>4. u \in Seq(Bytes) /\ IsUtf8(u)
  BY <1>1, <1>3, FlattenUtf8
<1>5. CASE times = 1
  <2>1. o \in MakeShallowClone(r, m)
    BY <1>5 DEF Repeat
  <2>2. Gets(o, Nothing, m, r.ty, t)
    BY <2>1, CloneIs DEF t
  <2>3. u = t
    <3> DEFINE G == [k \in 0..1 |-> IF k = 0 THEN <<>> ELSE t]
    <3>1. G[0] = <<>> /\ G[1] = t
      OBVIOUS
    <3> HIDE DEF G
    <3>2. <<>> \o t = t
      BY <1>1
    <3>3. ss[1] = t /\ Len(ss) = 1
      BY <1>3, <1>5
    <3>4. Joins(G, ss)
      <4>1. SUFFICES ASSUME NEW k \in 1..Len(ss) PROVE G[k] = G[k - 1] \o ss[k]
        BY <3>1 DEF Joins
      <4>2. k = 1 /\ k - 1 = 0
        BY <3>3
      <4>3. G[1] = G[0] \o ss[1]
        BY <3>1, <3>2, <3>3
      <4> QED
        BY <4>2, <4>3
    <3>5. u = G[Len(ss)]
      BY <1>3, <3>4, FlattenIs
    <3> QED
      BY <3>1, <3>3, <3>5
  <2>4. ~(Len(t) * times > UsizeMax)
    BY <1>2, <1>5, Numbers
  <2> QED
    BY <1>4, <2>2, <2>3, <2>4 DEF Makes, t, ss
<1>6. CASE times # 1 /\ Len(t) * times > UsizeMax
  <2>1. o \in Err(r, m)
    BY <1>6 DEF Repeat, t
  <2> QED
    BY <1>6, <2>1, ErrIs DEF t
<1>7. CASE times # 1 /\ ~(Len(t) * times > UsizeMax)
  <2>1. o \in FromStr(r.ty, u, r, m)
    BY <1>7 DEF Repeat, t, ss
  <2>2. Makes(o, r, m, r.ty, u)
    BY <1>1, <1>4, <2>1, FromStrIs
  <2> QED
    BY <1>4, <1>7, <2>2 DEF t, ss
<1> QED
  BY <1>5, <1>6, <1>7

-----------------------------------------------------------------------------
(* retain.                                                                 *)

\* The loop of retain, over the characters of t in the buffer d, after the first one
\* that goes.
RetainStep(t, p, g, k) ==
    LET ch == CharAt(t, Starts(t)[k]) IN
    IF g.panicked \/ k = p.boom THEN [g EXCEPT !.panicked = TRUE]
    ELSE IF k \notin p.keep THEN g
    ELSE [g EXCEPT !.d = CopyWithin(@, Starts(t)[k], g.dst, Len(ch)), !.dst = @ + Len(ch)]

RetainRun(f, t, p, d, first, last) ==
    f = [k \in first..last |->
           IF k = first THEN [d |-> d, dst |-> Starts(t)[k], panicked |-> FALSE]
           ELSE RetainStep(t, p, f[k - 1], k)]

\* The loop runs.
LEMMA RetainRuns ==
    ASSUME NEW t, NEW p, NEW d, NEW first \in Nat, NEW last \in Nat, first <= last
    PROVE  \E f : RetainRun(f, t, p, d, first, last)
<1> DEFINE Begin(k) == [d |-> d, dst |-> Starts(t)[k], panicked |-> FALSE]
           Do(g, k) == RetainStep(t, p, g, k)
           Is(f, l) == f = [k \in first..l |-> IF k = first THEN Begin(k) ELSE Do(f[k - 1], k)]
           S == {n \in Nat : \E f : Is(f, first + n)}
<1> HIDE DEF Begin, Do
<1>1. 0 \in S
  <2> DEFINE f == [k \in first..first + 0 |-> Begin(k)]
  <2>1. Is(f, first + 0)
    <3>1. \A k \in first..first + 0 : k = first
      OBVIOUS
    <3> QED
      BY <3>1
  <2> QED
    BY <2>1
<1>2. ASSUME NEW n \in Nat, n \in S PROVE n + 1 \in S
  <2>1. PICK f : Is(f, first + n)
    BY <1>2
  <2>2. PICK x \in Nat : x = first + n
    OBVIOUS
  <2> DEFINE g == [k \in first..x + 1 |-> IF k <= x THEN f[k] ELSE Do(f[x], x + 1)]
  <2>3. ASSUME NEW k \in first..x + 1 PROVE g[k] = IF k = first THEN Begin(k) ELSE Do(g[k - 1], k)
    <3>1. CASE k = first
      <4>1. k \in first..x /\ g[k] = f[k]
        BY <2>2, <3>1
      <4> QED
        BY <2>1, <2>2, <3>1, <4>1
    <3>2. CASE k # first /\ k <= x
      <4>1. k \in first..x /\ k - 1 \in first..x + 1 /\ k - 1 <= x
        BY <2>2, <3>2
      <4>2. g[k] = f[k] /\ g[k - 1] = f[k - 1]
        BY <3>2, <4>1
      <4>3. f[k] = Do(f[k - 1], k)
        BY <2>1, <2>2, <3>2, <4>1
      <4> QED
        BY <3>2, <4>2, <4>3
    <3>3. CASE k # first /\ k = x + 1
      <4>1. k - 1 = x /\ x \in first..x + 1 /\ ~(k <= x)
        BY <2>2, <3>3
      <4>2. g[k] = Do(f[x], x + 1) /\ g[x] = f[x]
        BY <3>3, <4>1
      <4> QED
        BY <3>3, <4>1, <4>2
    <3>4. k = first \/ (k # first /\ k <= x) \/ (k # first /\ k = x + 1)
      BY <2>2
    <3> QED
      BY <3>1, <3>2, <3>3, <3>4
  <2>4. g = [k \in first..x + 1 |-> g[k]]
    OBVIOUS
  <2> HIDE DEF g
  <2>5. Is(g, x + 1)
    BY <2>3, <2>4
  <2>6. x + 1 = first + (n + 1)
    BY <2>2
  <2> QED
    BY <2>5, <2>6
<1>3. \A n \in Nat : n \in S
  <2> HIDE DEF S
  <2> QED
    BY <1>1, <1>2, Induction
<1>4. last - first \in Nat /\ first + (last - first) = last
  OBVIOUS
<1>5. \E f : Is(f, first + (last - first))
  <2> HIDE DEF Is
  <2> QED
    BY <1>3, <1>4
<1>6. \E f : Is(f, last)
  <2> HIDE DEF Is
  <2> QED
    BY <1>4, <1>5
<1> QED
  BY <1>6 DEF RetainRun, Begin, Do

\* How many characters the predicate is asked about without a panic, of the first n.
Passed(p, n) == IF p.boom \in 1..n THEN p.boom - 1 ELSE n

\* The loop after the k-th character: g.d starts with what was kept, and beyond that
\* nothing has been written.
RetainInv(g, t, p, d, k) ==
    /\ g \in [d : Seq(Cell), dst : Nat, panicked : BOOLEAN]
    /\ Len(g.d) = Len(d)
    /\ g.panicked <=> p.boom \in 1..k
    /\ SubSeq(g.d, 1, g.dst) = KeptOf(t, p.keep, Passed(p, k))
    /\ g.dst = Len(KeptOf(t, p.keep, Passed(p, k)))
    /\ Agree(g.d, d, g.dst)

\* A character of t moves down in the buffer, which still holds it.
LEMMA CharMovedDown ==
    ASSUME NEW t \in Seq(Bytes), NEW d \in Seq(Cell), Len(t) <= Len(d), SubSeq(d, 1, Len(t)) = t,
           NEW b \in Seq(Cell), Len(b) = Len(d),
           NEW dst \in Nat, NEW i \in Nat, NEW n \in Nat, dst <= i, i + n <= Len(t),
           Agree(b, d, dst)
    PROVE  /\ CopyWithin(b, i, dst, n) \in Seq(Cell) /\ Len(CopyWithin(b, i, dst, n)) = Len(d)
           /\ SubSeq(CopyWithin(b, i, dst, n), 1, dst + n) = SubSeq(b, 1, dst) \o SubSeq(t, i + 1, i + n)
           /\ Agree(CopyWithin(b, i, dst, n), d, dst + n)
<1> DEFINE e == CopyWithin(b, i, dst, n)
           j == i + n
<1>1. PICK l \in Nat, m \in Nat : l = Len(t) /\ m = Len(d)
  <2>1. Len(t) \in Nat /\ Len(d) \in Nat
    OBVIOUS
  <2> QED
    BY ONLY <2>1
<1>2. /\ b \in Seq(Cell) /\ i \in Nat /\ dst \in Nat /\ n \in Nat
      /\ dst <= i /\ i + n <= Len(b)
  BY <1>1
<1>3. /\ e \in Seq(Cell) /\ Len(e) = Len(b)
      /\ SubSeq(e, 1, dst + n) = SubSeq(b, 1, dst) \o SubSeq(b, i + 1, i + n)
      /\ Agree(e, b, dst + n)
  BY ONLY <1>2, MovedDown
<1>4. SubSeq(b, i + 1, j) = SubSeq(t, i + 1, j)
  <2>0. j \in Nat /\ j <= l /\ l <= m /\ j - i = n
    BY <1>1
  <2> HIDE DEF j
  <2>1. SubSeq(b, i + 1, j) \in Seq(Cell) /\ Len(SubSeq(b, i + 1, j)) = n
    BY <1>1, <2>0
  <2>2. /\ SubSeq(t, i + 1, j) \in Seq(Cell) /\ Len(SubSeq(t, i + 1, j)) = n
    <3>1. SubSeq(t, i + 1, j) \in Seq(Bytes) /\ Len(SubSeq(t, i + 1, j)) = n
      BY <1>1, <2>0
    <3> QED
      BY <3>1 DEF Cell
  <2>3. ASSUME NEW x \in 1..n PROVE SubSeq(b, i + 1, j)[x] = SubSeq(t, i + 1, j)[x]
    <3>1. i + x \in 1..l /\ i + x \in dst + 1..m
      BY <1>1, <2>0
    <3>2. SubSeq(b, i + 1, j)[x] = b[i + x] /\ SubSeq(t, i + 1, j)[x] = t[i + x]
      BY <1>1, <2>0
    <3>3. SubSeq(d, 1, l)[i + x] = d[i + x]
      BY <1>1, <3>1
    <3> QED
      BY <1>1, <3>1, <3>2, <3>3 DEF Agree
  <2> QED
    BY <2>1, <2>2, <2>3, SameSeq
<1> HIDE DEF e
<1>5. ASSUME NEW x \in dst + n + 1..Len(d) PROVE e[x] = d[x]
  <2>1. x \in dst + 1..Len(d) /\ x \in dst + n + 1..Len(b)
    BY <1>1
  <2>2. e[x] = b[x]
    BY <1>3, <2>1 DEF Agree
  <2> QED
    BY <2>1, <2>2 DEF Agree
<1>6. Agree(e, d, dst + n)
  BY <1>5 DEF Agree
<1> QED
  BY <1>3, <1>4, <1>6 DEF e

\* Two fields of the loop's state change.
LEMMA LoopState ==
    ASSUME NEW g \in [d : Seq(Cell), dst : Nat, panicked : BOOLEAN],
           NEW e \in Seq(Cell), NEW x \in Nat
    PROVE  LET h == [g EXCEPT !.d = e, !.dst = x]
           IN  /\ h \in [d : Seq(Cell), dst : Nat, panicked : BOOLEAN]
               /\ h.d = e /\ h.dst = x /\ h.panicked = g.panicked
OBVIOUS

\* One more character.
LEMMA RetainStepIs ==
    ASSUME NEW t \in Seq(Bytes), IsUtf8(t), NEW p, p.boom \in Nat,
           NEW d \in Seq(Cell), Len(t) <= Len(d), SubSeq(d, 1, Len(t)) = t,
           NEW k \in Nat, k + 1 <= Len(Starts(t)), NEW g, RetainInv(g, t, p, d, k)
    PROVE  RetainInv(RetainStep(t, p, g, k + 1), t, p, d, k + 1)
<1> DEFINE ch == CharAt(t, Starts(t)[k + 1])
           i == Upto(t, k)
           j == Upto(t, k + 1)
           J(x) == KeptOf(t, p.keep, x)
           h == RetainStep(t, p, g, k + 1)
<1>1. PICK c \in Nat : c = Len(Starts(t)) /\ k + 1 \in 1..c /\ k \in 0..c /\ (k + 1) - 1 = k
  BY UptoIs
<1>2. /\ i \in Nat /\ j \in Nat /\ i < j /\ j <= Len(t) /\ Starts(t)[k + 1] = i
      /\ ch = SubSeq(t, i + 1, j) /\ ch \in Seq(Bytes) /\ Len(ch) = j - i
  <2>1. k + 1 \in 0..c
    BY <1>1
  <2> QED
    BY <1>1, <2>1, UptoIs
<1>3. /\ g \in [d : Seq(Cell), dst : Nat, panicked : BOOLEAN] /\ Len(g.d) = Len(d)
      /\ (g.panicked <=> p.boom \in 1..k)
      /\ SubSeq(g.d, 1, g.dst) = J(Passed(p, k)) /\ g.dst = Len(J(Passed(p, k)))
      /\ Agree(g.d, d, g.dst)
  BY DEF RetainInv
<1>4. CASE g.panicked \/ k + 1 = p.boom
  <2>1. h = [g EXCEPT !.panicked = TRUE]
    BY <1>4 DEF RetainStep
  <2>2. /\ h \in [d : Seq(Cell), dst : Nat, panicked : BOOLEAN]
        /\ h.d = g.d /\ h.dst = g.dst /\ h.panicked = TRUE
    BY <1>3, <2>1
  <2>3. p.boom \in 1..k + 1
    BY <1>3, <1>4
  <2>4. Passed(p, k + 1) = Passed(p, k)
    <3>1. CASE g.panicked
      <4>1. p.boom \in 1..k
        BY <1>3, <3>1
      <4> QED
        BY <2>3, <4>1 DEF Passed
    <3>2. CASE ~g.panicked
      <4>1. p.boom \notin 1..k /\ p.boom = k + 1
        BY <1>3, <1>4, <3>2
      <4>2. Passed(p, k) = k /\ Passed(p, k + 1) = (k + 1) - 1
        BY <2>3, <4>1 DEF Passed
      <4> QED
        BY <4>2
    <3> QED
      BY <3>1, <3>2
  <2> HIDE DEF h
  <2>5. RetainInv(h, t, p, d, k + 1)
    BY <1>3, <2>2, <2>3, <2>4 DEF RetainInv
  <2> QED
    BY <2>5 DEF h
<1>5. CASE ~g.panicked /\ k + 1 # p.boom
  <2>1. p.boom \notin 1..k + 1 /\ Passed(p, k) = k /\ Passed(p, k + 1) = k + 1
    BY <1>3, <1>5 DEF Passed
  <2>2. /\ J(k + 1) = J(k) \o PieceOf(t, p.keep, k + 1) /\ J(k) \in Seq(Bytes)
    BY <1>1, KeptStep
  <2>3. Len(J(k)) <= i
    BY <1>1, KeptAll
  <2>4. g.d \in Seq(Cell) /\ g.dst \in Nat /\ g.dst <= i /\ g.dst = Len(J(k)) /\ SubSeq(g.d, 1, g.dst) = J(k)
    BY <1>3, <2>1, <2>3
  <2>5. CASE k + 1 \notin p.keep
    <3>1. h = g
      BY <1>5, <2>5 DEF RetainStep
    <3>2. J(k + 1) = J(k)
      <4>1. J(k + 1) = J(k) \o <<>>
        BY <2>2, <2>5 DEF PieceOf
      <4> HIDE DEF J
      <4> QED
        BY <2>2, <4>1
    <3> HIDE DEF h
    <3>3. RetainInv(h, t, p, d, k + 1)
      BY <1>3, <1>5, <2>1, <3>1, <3>2 DEF RetainInv
    <3> QED
      BY <3>3 DEF h
  <2>6. CASE k + 1 \in p.keep
    <3>1. PICK n \in Nat : n = j - i
      BY <1>2
    <3> DEFINE e == CopyWithin(g.d, i, g.dst, n)
    <3>2. h = [g EXCEPT !.d = e, !.dst = g.dst + n]
      BY <1>2, <1>5, <2>6, <3>1 DEF RetainStep
    <3> HIDE DEF i, j, ch, J, h
    <3>3. /\ e \in Seq(Cell) /\ Len(e) = Len(d)
          /\ SubSeq(e, 1, g.dst + n) = SubSeq(g.d, 1, g.dst) \o SubSeq(t, i + 1, j)
          /\ Agree(e, d, g.dst + n)
      <4>1. PICK b, y, u : b = g.d /\ y = g.dst /\ u = i
        OBVIOUS
      <4>2. /\ Len(t) <= Len(d) /\ SubSeq(d, 1, Len(t)) = t
            /\ b \in Seq(Cell) /\ Len(b) = Len(d)
            /\ y \in Nat /\ u \in Nat /\ y <= u /\ u + n <= Len(t) /\ Agree(b, d, y)
        BY <1>2, <1>3, <2>4, <3>1, <4>1
      <4>3. /\ CopyWithin(b, u, y, n) \in Seq(Cell) /\ Len(CopyWithin(b, u, y, n)) = Len(d)
            /\ SubSeq(CopyWithin(b, u, y, n), 1, y + n) = SubSeq(b, 1, y) \o SubSeq(t, u + 1, u + n)
            /\ Agree(CopyWithin(b, u, y, n), d, y + n)
        BY ONLY <4>2, n \in Nat, d \in Seq(Cell), t \in Seq(Bytes), CharMovedDown
      <4>4. i + n = j
        BY <1>2, <3>1
      <4> QED
        BY <4>1, <4>3, <4>4
    <3>5. J(k + 1) = J(k) \o ch
      BY <2>2, <2>6 DEF PieceOf, ch
    <3> HIDE DEF e
    <3>6. SubSeq(e, 1, g.dst + n) = J(k + 1)
      BY <1>2, <2>4, <3>3, <3>5
    <3>7. Len(J(k + 1)) = g.dst + n
      <4>1. J(k) \in Seq(Bytes) /\ ch \in Seq(Bytes)
        BY <1>2, <2>2
      <4>2. Len(J(k) \o ch) = Len(J(k)) + Len(ch)
        BY ONLY <4>1, JoinIs
      <4> QED
        BY <1>2, <2>4, <3>1, <3>5, <4>2
    <3>8. /\ h \in [d : Seq(Cell), dst : Nat, panicked : BOOLEAN]
          /\ h.d = e /\ h.dst = g.dst + n /\ h.panicked = g.panicked
      <4>1. PICK x \in Nat : x = g.dst + n
        BY <2>4, <3>1
      <4>2. g \in [d : Seq(Cell), dst : Nat, panicked : BOOLEAN] /\ e \in Seq(Cell) /\ x \in Nat
        BY <1>3, <3>3, <4>1
      <4>3. LET f == [g EXCEPT !.d = e, !.dst = x]
            IN  /\ f \in [d : Seq(Cell), dst : Nat, panicked : BOOLEAN]
                /\ f.d = e /\ f.dst = x /\ f.panicked = g.panicked
        BY ONLY <4>2, LoopState
      <4> QED
        BY <3>2, <4>1, <4>3
    <3>10. RetainInv(h, t, p, d, k + 1)
      BY <1>3, <1>5, <2>1, <3>3, <3>6, <3>7, <3>8 DEF RetainInv, J
    <3> QED
      BY <3>10 DEF h
  <2> QED
    BY <2>5, <2>6
<1> QED
  BY <1>4, <1>5

\* Where the loop starts: everything before the first character that goes is kept.
LEMMA RetainBase ==
    ASSUME NEW t \in Seq(Bytes), IsUtf8(t), NEW p, p.boom \in Nat,
           NEW d \in Seq(Cell), Len(t) <= Len(d), SubSeq(d, 1, Len(t)) = t,
           NEW k \in 1..Len(Starts(t)), p.boom \notin 1..k, k \notin p.keep,
           \A x \in 1..k - 1 : x \in p.keep
    PROVE  RetainInv([d |-> d, dst |-> Starts(t)[k], panicked |-> FALSE], t, p, d, k)
<1> DEFINE i == Starts(t)[k]
           J(x) == KeptOf(t, p.keep, x)
<1>1. PICK c \in Nat : c = Len(Starts(t)) /\ k \in 1..c /\ k - 1 \in 0..c
  BY UptoIs
<1>2. i = Upto(t, k - 1) /\ i \in Nat /\ i <= Len(t)
  BY <1>1, UptoIs
<1>3. J(k - 1) = SubSeq(t, 1, i)
  BY <1>1, <1>2, KeptAll
<1>4. J(k) = J(k - 1)
  <2>1. J(k) = J(k - 1) \o <<>> /\ J(k - 1) \in Seq(Bytes)
    <3>1. PieceOf(t, p.keep, k) = <<>>
      BY DEF PieceOf
    <3>2. J(k) = J(k - 1) \o PieceOf(t, p.keep, k) /\ J(k - 1) \in Seq(Bytes)
      BY <1>1, KeptStep
    <3> QED
      BY <3>1, <3>2
  <2> HIDE DEF J
  <2> QED
    BY <2>1
<1>5. Passed(p, k) = k
  BY DEF Passed
<1> HIDE DEF i, J
<1>6. SubSeq(d, 1, i) = SubSeq(t, 1, i) /\ Len(SubSeq(t, 1, i)) = i
  <2>1. PICK l \in Nat, n \in Nat : l = Len(t) /\ n = Len(d)
    <3>1. Len(t) \in Nat /\ Len(d) \in Nat
      OBVIOUS
    <3> QED
      BY ONLY <3>1
  <2>2. SubSeq(SubSeq(d, 1, l), 1, i) = SubSeq(d, 1, i)
    BY <1>2, <2>1
  <2> QED
    BY <1>2, <2>1, <2>2
<1>7. Agree(d, d, i)
  BY DEF Agree
<1>8. PICK g : g = [d |-> d, dst |-> i, panicked |-> FALSE]
  OBVIOUS
<1>9. /\ g \in [d : Seq(Cell), dst : Nat, panicked : BOOLEAN]
      /\ g.d = d /\ g.dst = i /\ g.panicked = FALSE
  BY <1>2, <1>8
<1>10. RetainInv(g, t, p, d, k)
  BY <1>3, <1>4, <1>5, <1>6, <1>7, <1>9 DEF RetainInv, J
<1> QED
  BY <1>8, <1>10 DEF i

\* The loop to its end.
LEMMA RetainLoop ==
    ASSUME NEW t \in Seq(Bytes), IsUtf8(t), NEW p, p.boom \in Nat,
           NEW d \in Seq(Cell), Len(t) <= Len(d), SubSeq(d, 1, Len(t)) = t,
           NEW first \in 1..Len(Starts(t)), p.boom \notin 1..first, first \notin p.keep,
           \A x \in 1..first - 1 : x \in p.keep,
           NEW f, RetainRun(f, t, p, d, first, Len(Starts(t)))
    PROVE  RetainInv(f[Len(Starts(t))], t, p, d, Len(Starts(t)))
<1>1. PICK c \in Nat : c = Len(Starts(t)) /\ first \in 1..c
  BY UptoIs
<1> DEFINE S == {n \in Nat : first + n <= c => RetainInv(f[first + n], t, p, d, first + n)}
<1>2. \A k \in first..c :
         f[k] = IF k = first THEN [d |-> d, dst |-> Starts(t)[k], panicked |-> FALSE]
                ELSE RetainStep(t, p, f[k - 1], k)
  BY <1>1 DEF RetainRun
<1>3. 0 \in S
  <2>1. f[first] = [d |-> d, dst |-> Starts(t)[first], panicked |-> FALSE]
    BY <1>1, <1>2
  <2>2. RetainInv(f[first], t, p, d, first)
    BY <2>1, RetainBase
  <2>3. first + 0 = first
    BY <1>1
  <2> QED
    BY <2>2, <2>3
<1>4. ASSUME NEW n \in Nat, n \in S PROVE n + 1 \in S
  <2>1. SUFFICES ASSUME first + (n + 1) <= c
                 PROVE  RetainInv(f[first + (n + 1)], t, p, d, first + (n + 1))
    OBVIOUS
  <2>2. PICK k \in Nat : k = first + n /\ k + 1 = first + (n + 1) /\ k + 1 <= c
    BY <1>1, <2>1
  <2>3. RetainInv(f[k], t, p, d, k)
    BY <1>4, <2>2
  <2>4. f[k + 1] = RetainStep(t, p, f[k], k + 1)
    <3>1. k + 1 \in first..c /\ k + 1 # first /\ (k + 1) - 1 = k
      BY <1>1, <2>2
    <3> QED
      BY <1>2, <3>1
  <2>5. k + 1 <= Len(Starts(t))
    BY <1>1, <2>2
  <2>6. RetainInv(RetainStep(t, p, f[k], k + 1), t, p, d, k + 1)
    BY <2>3, <2>5, RetainStepIs
  <2> QED
    BY <2>2, <2>4, <2>6
<1>5. \A n \in Nat : n \in S
  <2> HIDE DEF S
  <2> QED
    BY <1>3, <1>4, Induction
<1>6. c - first \in Nat /\ first + (c - first) = c
  BY <1>1
<1>7. c - first \in S
  <2> HIDE DEF S
  <2> QED
    BY <1>5, <1>6
<1>8. RetainInv(f[first + (c - first)], t, p, d, first + (c - first))
  <2>1. first + (c - first) <= c
    BY <1>6
  <2> QED
    BY <1>7, <2>1
<1> QED
  BY <1>1, <1>6, <1>8

\* The characters at which the search of retain stops, and what the predicate left of t
\* when it was done or had panicked.
StopsOf(t, p) == {k \in 1..Len(Starts(t)) : k = p.boom \/ k \notin p.keep}
LeftOf(t, p) == KeptOf(t, p.keep, Passed(p, Len(Starts(t))))
TailAt(t, k) == SubSeq(t, Starts(t)[k] + 1, Len(t))

\* A character that goes makes the text shorter.
LEMMA ShorterText ==
    ASSUME NEW t \in Seq(Bytes), IsUtf8(t), NEW p, p.boom \in Nat,
           NEW k \in 1..Len(Starts(t)), p.boom \notin 1..k, k \notin p.keep
    PROVE  /\ p.boom \notin 1..Len(Starts(t)) => LeftOf(t, p) # t
           /\ p.boom \in 1..Len(Starts(t)) => LeftOf(t, p) \o TailAt(t, p.boom) # t
<1>1. PICK c \in Nat : c = Len(Starts(t)) /\ k \in 1..c
  BY UptoIs
<1>2. PICK x \in 0..c : x = Passed(p, c) /\ k <= x
  BY <1>1 DEF Passed
<1> DEFINE u == KeptOf(t, p.keep, x)
<1>3. u = LeftOf(t, p)
  BY <1>1, <1>2 DEF LeftOf
<1>4. u \in Seq(Bytes) /\ Len(u) < Upto(t, x)
  <2>1. x \in 0..Len(Starts(t)) /\ k \in 1..x
    BY <1>1, <1>2
  <2> QED
    BY <2>1, KeptStep, KeptAll
<1> HIDE DEF u
<1>5. CASE p.boom \notin 1..c
  <2>1. x = c
    BY <1>2, <1>5 DEF Passed
  <2>2. Len(u) < Len(t)
    BY <1>1, <1>4, <2>1, UptoIs
  <2> QED
    BY <1>1, <1>3, <1>5, <2>2
<1>6. CASE p.boom \in 1..c
  <2>1. x = p.boom - 1
    BY <1>2, <1>6 DEF Passed
  <2>2. PICK i \in Nat : i = Starts(t)[p.boom] /\ i = Upto(t, x) /\ i <= Len(t)
    BY <1>1, <1>2, <1>6, <2>1, UptoIs
  <2>3. PICK l \in Nat : l = Len(t)
    OBVIOUS
  <2>4. SubSeq(t, i + 1, l) \in Seq(Bytes) /\ Len(SubSeq(t, i + 1, l)) = l - i
    BY <2>2, <2>3
  <2>5. Len(u \o SubSeq(t, i + 1, l)) = Len(u) + Len(SubSeq(t, i + 1, l))
    BY ONLY <1>4, <2>4, JoinIs
  <2>6. Len(u) \in Nat /\ Len(u) < i
    BY <1>4, <2>2
  <2>7. Len(u \o SubSeq(t, i + 1, l)) # l
    BY <2>2, <2>3, <2>4, <2>5, <2>6
  <2>8. TailAt(t, p.boom) = SubSeq(t, i + 1, l)
    BY <2>2, <2>3 DEF TailAt
  <2> QED
    BY <1>1, <1>3, <1>6, <2>3, <2>7, <2>8
<1> QED
  BY <1>1, <1>5, <1>6

\* What the search finds.
LEMMA RetainSearch ==
    ASSUME NEW t \in Seq(Bytes), IsUtf8(t), NEW p, p.boom \in Nat
    PROVE  /\ StopsOf(t, p) = {} => p.boom \notin 1..Len(Starts(t)) /\ LeftOf(t, p) = t
           /\ StopsOf(t, p) # {} /\ Min(StopsOf(t, p)) = p.boom =>
                 p.boom \in 1..Len(Starts(t)) /\ LeftOf(t, p) \o TailAt(t, p.boom) = t
           /\ StopsOf(t, p) # {} /\ Min(StopsOf(t, p)) # p.boom =>
                 /\ Min(StopsOf(t, p)) \in 1..Len(Starts(t)) /\ p.boom \notin 1..Min(StopsOf(t, p))
                 /\ Min(StopsOf(t, p)) \notin p.keep
                 /\ \A x \in 1..Min(StopsOf(t, p)) - 1 : x \in p.keep
           /\ LeftOf(t, p) \in Seq(Bytes) /\ IsUtf8(LeftOf(t, p))
<1>1. PICK c \in Nat : c = Len(Starts(t))
  BY UptoIs
<1> DEFINE S == StopsOf(t, p)
<1>2. \A k : k \in S <=> k \in 1..c /\ (k = p.boom \/ k \notin p.keep)
  BY <1>1 DEF StopsOf
<1>3. PICK x \in 0..c : x = Passed(p, c)
  BY DEF Passed
<1>4. LeftOf(t, p) \in Seq(Bytes) /\ IsUtf8(LeftOf(t, p))
  BY <1>1, <1>3, KeptStep DEF LeftOf
<1> HIDE DEF S
<1>5. CASE S = {}
  <2>1. p.boom \notin 1..c /\ x = c
    BY <1>2, <1>3, <1>5 DEF Passed
  <2>2. KeptOf(t, p.keep, c) = SubSeq(t, 1, Upto(t, c))
    <3>1. \A k \in 1..c : k \in p.keep
      BY <1>2, <1>5
    <3>2. c \in 0..Len(Starts(t))
      BY <1>1
    <3> QED
      BY <3>1, <3>2, KeptAll
  <2>3. Upto(t, c) = Len(t) /\ SubSeq(t, 1, Len(t)) = t
    BY <1>1, UptoIs
  <2>4. LeftOf(t, p) = t
    BY <1>1, <1>3, <2>1, <2>2, <2>3 DEF LeftOf
  <2> QED
    BY <1>1, <1>4, <1>5, <2>1, <2>4 DEF S
<1>6. CASE S # {}
  <2>1. PICK a \in 1..c : a = Min(S) /\ a \in S /\ \A y \in S : a <= y
    <3>1. S \subseteq Nat
      BY <1>2
    <3>2. Min(S) \in S /\ \A y \in S : Min(S) <= y
      BY <1>6, <3>1, MinIs
    <3> QED
      BY <1>2, <3>2
  <2>2. \A y \in 1..a - 1 : y \in p.keep /\ y # p.boom
    <3>1. ASSUME NEW y \in 1..a - 1 PROVE y \in p.keep /\ y # p.boom
      <4>1. y \in 1..c /\ ~(a <= y)
        OBVIOUS
      <4> QED
        BY <1>2, <2>1, <4>1
    <3> QED
      BY <3>1
  <2>3. CASE a = p.boom
    <3>1. x = a - 1 /\ x \in 0..c
      BY <1>3, <2>3 DEF Passed
    <3>2. KeptOf(t, p.keep, x) = SubSeq(t, 1, Upto(t, x))
      <4>1. \A k \in 1..x : k \in p.keep
        BY <2>2, <3>1
      <4>2. x \in 0..Len(Starts(t))
        BY <1>1
      <4> QED
        BY <4>1, <4>2, KeptAll
    <3>3. PICK i \in Nat : i = Starts(t)[a] /\ i = Upto(t, x) /\ i \in 0..Len(t)
      <4>1. x = a - 1 /\ x \in 0..Len(Starts(t)) /\ a \in 1..Len(Starts(t))
        BY <1>1, <3>1
      <4>2. Upto(t, a - 1) = Starts(t)[a] /\ Upto(t, x) \in Nat /\ Upto(t, x) <= Len(t)
        BY <4>1, UptoIs
      <4>3. Len(t) \in Nat
        OBVIOUS
      <4> QED
        BY ONLY <4>1, <4>2, <4>3
    <3>4. t = SubSeq(t, 1, i) \o SubSeq(t, i + 1, Len(t))
      BY <3>3, CutIs
    <3>5. LeftOf(t, p) \o TailAt(t, p.boom) = t
      BY <1>1, <1>3, <2>3, <3>2, <3>3, <3>4 DEF LeftOf, TailAt
    <3> QED
      BY <1>1, <1>4, <1>6, <2>1, <2>3, <3>5 DEF S
  <2>4. CASE a # p.boom
    <3>1. p.boom \notin 1..a
      BY <2>2, <2>4
    <3>2. a \notin p.keep
      BY <1>2, <2>1, <2>4
    <3> QED
      BY <1>1, <1>4, <1>6, <2>1, <2>2, <2>4, <3>1, <3>2 DEF S
  <2> QED
    BY <2>3, <2>4
<1> QED
  BY <1>5, <1>6

\* The state in which the loop ends.
RetainEnd(t, p, d, first) ==
    (CHOOSE f : RetainRun(f, t, p, d, first, Len(Starts(t))))[Len(Starts(t))]

\* How a call of retain ends in which the predicate has said no.
RetainEnds(S, g) == {IF g.panicked /\ o.ret = "ok" THEN [o EXCEPT !.ret = "panic"] ELSE o : o \in S}

\* retain, opened.
LEMMA RetainCases ==
    ASSUME NEW m, NEW r, NEW p, NEW o \in Retain(r, m, p)
    PROVE  LET t == AsBytes(r, m)
               S == StopsOf(t, p)
           IN  /\ S = {} => o \in Ok(r, m)
               /\ S # {} /\ Min(S) = p.boom => o \in Panic(r, m)
               /\ S # {} /\ Min(S) # p.boom =>
                     \E q \in EnsureModifiable(r, m) :
                        \/ q.ret # "ok" /\ o = q
                        \/ LET g == RetainEnd(t, p, Data(q.r, q.m), Min(S))
                           IN  q.ret = "ok" /\ o \in RetainEnds(SetLen(q.r, q.m, g.d, g.dst), g)
<1> DEFINE t == AsBytes(r, m)
           S == StopsOf(t, p)
<1>1. S = {} => o \in Ok(r, m)
  BY DEF Retain, StopsOf
<1>2. S # {} /\ Min(S) = p.boom => o \in Panic(r, m)
  BY DEF Retain, StopsOf
<1>3. ASSUME S # {}, Min(S) # p.boom
      PROVE  \E q \in EnsureModifiable(r, m) :
                        \/ q.ret # "ok" /\ o = q
                        \/ LET g == RetainEnd(t, p, Data(q.r, q.m), Min(S))
                           IN  q.ret = "ok" /\ o \in RetainEnds(SetLen(q.r, q.m, g.d, g.dst), g)
  <2>1. PICK q \in EnsureModifiable(r, m) :
           o \in IF q.ret = "ok"
                 THEN LET g == RetainEnd(t, p, Data(q.r, q.m), Min(S))
                      IN  RetainEnds(SetLen(q.r, q.m, g.d, g.dst), g)
                 ELSE {q}
    BY <1>3 DEF Retain, Then, StopsOf, RetainEnd, RetainEnds, RetainRun, RetainStep
  <2> QED
    BY <2>1
<1> QED
  BY <1>1, <1>2, <1>3

\* The loop has run, and its guard sets the length, also when the predicate panicked.
LEMMA RetainWrites ==
    ASSUME NEW m, IsHeapOf(m), NEW r, Valid(r, m), IsUtf8(AsBytes(r, m)), NEW p, p.boom \in Nat,
           NEW q, Ready(q, r, m, LenOf(r, m)),
           NEW first \in 1..Len(Starts(AsBytes(r, m))), p.boom \notin 1..first,
           first \notin p.keep,
           \A x \in 1..first - 1 : x \in p.keep,
           NEW g, g = RetainEnd(AsBytes(r, m), p, Data(q.r, q.m), first),
           NEW o \in RetainEnds(SetLen(q.r, q.m, g.d, g.dst), g), r.ty = "LeanString"
    PROVE  Leads(o, r, m, IF p.boom \in 1..Len(Starts(AsBytes(r, m))) THEN "panic" ELSE "ok", <<>>,
                 LeftOf(AsBytes(r, m), p))
<1> DEFINE t == AsBytes(r, m)
           D == Data(q.r, q.m)
           c == Len(Starts(t))
           u == LeftOf(t, p)
<1>1. t \in Seq(Bytes) /\ Len(t) = LenOf(r, m)
  BY ValidFacts
<1>2. LenOf(r, m) \in Nat
  BY ValidFacts
<1>3. D \in Seq(Cell) /\ Len(t) <= Len(D) /\ SubSeq(D, 1, Len(t)) = t
  <2>1. D \in Seq(Cell) /\ Len(D) >= LenOf(r, m) /\ SubSeq(D, 1, LenOf(r, m)) = t
    BY <1>2, ReadyData
  <2> QED
    BY <1>1, <2>1
<1>4. c \in Nat /\ first <= c /\ first \in Nat
  BY <1>1, UptoIs
<1> HIDE DEF t, D
<1>5. PICK f : RetainRun(f, t, p, D, first, c) /\ g = f[c]
  <2>1. \E f : RetainRun(f, t, p, D, first, c)
    BY <1>4, RetainRuns
  <2> QED
    BY <2>1 DEF RetainEnd, t, D
<1>6. RetainInv(g, t, p, D, c)
  BY <1>1, <1>3, <1>5, RetainLoop DEF t
<1>7. /\ g.d \in Seq(Cell) /\ Len(g.d) = Len(D) /\ g.dst \in Nat /\ (g.panicked <=> p.boom \in 1..c)
      /\ SubSeq(g.d, 1, g.dst) = u /\ g.dst = Len(u)
  BY <1>6 DEF RetainInv, LeftOf
<1>8. u \in Seq(Bytes)
  BY <1>1, RetainSearch DEF t
<1> HIDE DEF u
<1>9. g.dst <= Len(g.d)
  <2>1. Len(u) <= Len(t)
    <3>1. PICK x \in 0..c : x = Passed(p, c)
      BY <1>4 DEF Passed
    <3>2. Len(u) <= Upto(t, x) /\ Upto(t, x) <= Len(t) /\ Upto(t, x) \in Nat
      BY <1>1, <3>1, KeptAll, UptoIs DEF u, LeftOf, t
    <3>3. Len(u) \in Nat /\ Len(t) \in Nat
      BY <1>1, <1>8
    <3> QED
      BY ONLY <3>2, <3>3
  <2> QED
    BY <1>1, <1>3, <1>7, <2>1
<1>10. PICK x \in SetLen(q.r, q.m, g.d, g.dst) :
          o = IF g.panicked /\ x.ret = "ok" THEN [x EXCEPT !.ret = "panic"] ELSE x
  BY DEF RetainEnds
<1>11. Gets(x, r, m, "LeanString", u)
  BY <1>2, <1>7, <1>8, <1>9, <1>10, WriteIs DEF D
<1>12. Gets(x, r, m, r.ty, u)
  BY <1>11
<1>13. x = [ret |-> "ok", val |-> <<>>, r |-> x.r, m |-> x.m] /\ x.ret = "ok"
  BY <1>11, GetsFacts DEF Gets
<1>14. CASE p.boom \in 1..c
  <2>1. \A y, z : [[ret |-> "ok", val |-> <<>>, r |-> y, m |-> z] EXCEPT !.ret = "panic"]
                  = [ret |-> "panic", val |-> <<>>, r |-> y, m |-> z]
    OBVIOUS
  <2>2. o = [ret |-> "panic", val |-> <<>>, r |-> x.r, m |-> x.m]
    BY <1>7, <1>10, <1>13, <1>14, <2>1
  <2>3. Leads(o, r, m, "panic", <<>>, u)
    BY <1>12, <2>2, EndsOtherwise
  <2> QED
    BY <1>14, <2>3 DEF u, t
<1>15. CASE p.boom \notin 1..c
  <2>1. o = [ret |-> "ok", val |-> <<>>, r |-> x.r, m |-> x.m]
    BY <1>7, <1>10, <1>13, <1>15
  <2>2. Leads(o, r, m, "ok", <<>>, u)
    BY <1>12, <2>1, EndsOtherwise
  <2> QED
    BY <1>15, <2>2 DEF u, t
<1> QED
  BY <1>14, <1>15

\* retain: a text of which nothing goes stays where it is; otherwise it is what the
\* predicate left of it, also when it panicked on the way.
LEMMA RetainIs ==
    ASSUME NEW m, IsHeapOf(m), NEW r, Valid(r, m), r.ty = "LeanString", IsUtf8(AsBytes(r, m)),
           NEW p, p.boom \in Nat, NEW o \in Retain(r, m, p)
    PROVE  LET t == AsBytes(r, m)
               c == Len(Starts(t))
               u == LeftOf(t, p)
           IN  /\ u \in Seq(Bytes) /\ IsUtf8(u)
               /\ p.boom \notin 1..c /\ u = t => Gets(o, r, m, r.ty, t) /\ o.r = r /\ o.m = m
               /\ p.boom \notin 1..c /\ u # t => Leads(o, r, m, "ok", <<>>, u) \/ Fails(o, r, m)
               /\ p.boom \in 1..c /\ u \o TailAt(t, p.boom) = t => Panics(o, r, m)
               /\ p.boom \in 1..c /\ u \o TailAt(t, p.boom) # t =>
                     Leads(o, r, m, "panic", <<>>, u) \/ Fails(o, r, m)
<1> DEFINE t == AsBytes(r, m)
           c == Len(Starts(t))
           u == LeftOf(t, p)
           S == StopsOf(t, p)
<1>1. t \in Seq(Bytes) /\ Len(t) = LenOf(r, m) /\ LenOf(r, m) \in Nat
  BY ValidFacts
<1>2. u \in Seq(Bytes) /\ IsUtf8(u)
  BY <1>1, RetainSearch
<1>3. CASE S = {}
  <2>1. p.boom \notin 1..c /\ u = t
    BY <1>1, <1>3, RetainSearch
  <2>2. o \in Ok(r, m)
    BY <1>3, RetainCases
  <2>3. Gets(o, r, m, r.ty, t) /\ o.r = r /\ o.m = m
    BY <2>2, OkIs
  <2> HIDE DEF t, c, u
  <2>4. p.boom \notin 1..c /\ u = t /\ u \in Seq(Bytes) /\ IsUtf8(u)
    BY <1>2, <2>1
  <2> QED
    BY <2>3, <2>4 DEF t, c, u
<1>4. CASE S # {} /\ Min(S) = p.boom
  <2>1. p.boom \in 1..c /\ u \o TailAt(t, p.boom) = t
    BY <1>1, <1>4, RetainSearch
  <2>2. o \in Panic(r, m)
    BY <1>4, RetainCases
  <2>3. Panics(o, r, m)
    BY <2>2 DEF Panic, Outcome, Panics
  <2> QED
    BY <1>2, <2>1, <2>3
<1>5. CASE S # {} /\ Min(S) # p.boom
  <2>1. PICK first : /\ first = Min(S) /\ first \in 1..c /\ p.boom \notin 1..first
                     /\ first \notin p.keep /\ \A x \in 1..first - 1 : x \in p.keep
    BY <1>1, <1>5, RetainSearch
  <2>2. /\ p.boom \notin 1..c => u # t
        /\ p.boom \in 1..c => u \o TailAt(t, p.boom) # t
    BY <1>1, <2>1, ShorterText
  <2>3. PICK q \in EnsureModifiable(r, m) :
            \/ q.ret # "ok" /\ o = q
            \/ LET g == RetainEnd(t, p, Data(q.r, q.m), first)
               IN  q.ret = "ok" /\ o \in RetainEnds(SetLen(q.r, q.m, g.d, g.dst), g)
    BY <1>5, <2>1, RetainCases
  <2>4. Edits(q, r, m, t) /\ (q.ret = "ok" => Roomy(q.r, q.m, LenOf(r, m)))
    BY <2>3, EnsureModifiableIs
  <2> DEFINE ret == IF p.boom \in 1..c THEN "panic" ELSE "ok"
  <2>5. CASE Fails(q, r, m) /\ q.ret = "err"
    BY <1>2, <2>2, <2>3, <2>5
  <2>6. CASE Ready(q, r, m, LenOf(r, m))
    <3>1. PICK g : /\ g = RetainEnd(t, p, Data(q.r, q.m), first)
                   /\ o \in RetainEnds(SetLen(q.r, q.m, g.d, g.dst), g)
      BY <2>3, <2>6 DEF Ready
    <3>2. Leads(o, r, m, ret, <<>>, u)
      BY <2>1, <2>6, <3>1, RetainWrites
    <3> QED
      BY <1>2, <2>2, <3>2
  <2> QED
    BY <1>1, <2>4, <2>5, <2>6, RoomMade
<1> QED
  BY <1>3, <1>4, <1>5

\* The loop of PushChars, as far as character number last: f[k] is what the first k
\* pushes can lead to.
PushAfter(S, ch) == UNION {IF o.ret = "ok" THEN PushChar(o.r, o.m, ch) ELSE {o} : o \in S}
PushRun(f, r, m, chars, last) ==
    f = [k \in 0..last |-> IF k = 0 THEN Ok(r, m) ELSE PushAfter(f[k - 1], chars[k])]

\* There is such a function.
LEMMA PushRuns ==
    ASSUME NEW r, NEW m, NEW chars, NEW last \in Nat
    PROVE  \E f : PushRun(f, r, m, chars, last)
<1> DEFINE Begin == Ok(r, m)
           Do(g, k) == PushAfter(g, chars[k])
           Is(f, l) == f = [k \in 0..l |-> IF k = 0 THEN Begin ELSE Do(f[k - 1], k)]
           S == {n \in Nat : \E f : Is(f, n)}
<1> HIDE DEF Begin, Do
<1>1. 0 \in S
  <2> DEFINE f == [k \in 0..0 |-> Begin]
  <2>1. Is(f, 0)
    <3>1. \A k \in 0..0 : k = 0
      OBVIOUS
    <3> QED
      BY <3>1
  <2> QED
    BY <2>1
<1>2. ASSUME NEW x \in Nat, x \in S PROVE x + 1 \in S
  <2>1. PICK f : Is(f, x)
    BY <1>2
  <2> DEFINE g == [k \in 0..x + 1 |-> IF k <= x THEN f[k] ELSE Do(f[x], x + 1)]
  <2>2. ASSUME NEW k \in 0..x + 1 PROVE g[k] = IF k = 0 THEN Begin ELSE Do(g[k - 1], k)
    <3>1. CASE k = 0
      BY <2>1, <3>1
    <3>2. CASE k # 0 /\ k <= x
      <4>1. k \in 0..x /\ k - 1 \in 0..x + 1 /\ k - 1 <= x
        BY <3>2
      <4>2. g[k] = f[k] /\ g[k - 1] = f[k - 1]
        BY <3>2, <4>1
      <4>3. f[k] = Do(f[k - 1], k)
        BY <2>1, <3>2, <4>1
      <4> QED
        BY <3>2, <4>2, <4>3
    <3>3. CASE k # 0 /\ k = x + 1
      <4>1. k - 1 = x /\ x \in 0..x + 1 /\ ~(k <= x)
        BY <3>3
      <4>2. g[k] = Do(f[x], x + 1) /\ g[x] = f[x]
        BY <3>3, <4>1
      <4> QED
        BY <3>3, <4>1, <4>2
    <3>4. k = 0 \/ (k # 0 /\ k <= x) \/ (k # 0 /\ k = x + 1)
      OBVIOUS
    <3> QED
      BY <3>1, <3>2, <3>3, <3>4
  <2>3. g = [k \in 0..x + 1 |-> g[k]]
    OBVIOUS
  <2> HIDE DEF g
  <2>4. Is(g, x + 1)
    BY <2>2, <2>3
  <2> QED
    BY <2>4
<1>3. \A n \in Nat : n \in S
  <2> HIDE DEF S
  <2> QED
    BY <1>1, <1>2, Induction
<1>4. \E f : Is(f, last)
  <2> HIDE DEF Is
  <2> QED
    BY <1>3
<1> QED
  BY <1>4 DEF PushRun, Begin, Do

\* The outcomes of pushing text that has the new text t if all goes well; after a
\* failure the handle has some text and is still the caller's.
Grown(o, r, m, t) ==
    \/ Gets(o, r, m, "LeanString", t)
    \/ /\ o = [ret |-> "err", val |-> <<>>, r |-> o.r, m |-> o.m]
       /\ Trade(r, m, o.r, o.m)

\* One more character is pushed.
LEMMA PushedOneMore ==
    ASSUME NEW m, IsHeapOf(m), NEW r, NEW t \in Seq(Bytes), NEW ch \in Seq(Bytes),
           NEW S, \A p \in S : Grown(p, r, m, t), NEW o \in PushAfter(S, ch)
    PROVE  Grown(o, r, m, t \o ch)
<1>1. PICK p \in S : o \in IF p.ret = "ok" THEN PushChar(p.r, p.m, ch) ELSE {p}
  BY DEF PushAfter
<1>2. CASE p.ret # "ok"
  <2>1. o = p
    BY <1>1, <1>2
  <2>2. ~Gets(p, r, m, "LeanString", t)
    BY <1>2, GetsFacts
  <2> QED
    BY <2>1, <2>2 DEF Grown
<1>3. CASE p.ret = "ok"
  <2>1. Gets(p, r, m, "LeanString", t)
    <3>1. p.ret # "err"
      BY <1>3
    <3> QED
      BY <3>1 DEF Grown
  <2>2. /\ p.r.ty = "LeanString" /\ AsBytes(p.r, p.m) = t
        /\ Trade(r, m, p.r, p.m) /\ IsHeapOf(p.m) /\ Valid(p.r, p.m)
    BY <2>1, GetsFacts
  <2>3. o \in PushStr(p.r, p.m, ch) \cup PushChar(p.r, p.m, ch)
    BY <1>1, <1>3
  <2>4. Edits(o, p.r, p.m, AsBytes(p.r, p.m) \o ch)
    BY ONLY <2>2, <2>3, PushIs
  <2>5. CASE Gets(o, p.r, p.m, p.r.ty, AsBytes(p.r, p.m) \o ch)
    <3>1. Gets(o, p.r, p.m, "LeanString", t \o ch)
      BY <2>2, <2>5
    <3>2. Gets(o, r, m, "LeanString", t \o ch)
      BY <2>1, <3>1, GetsTwice
    <3> QED
      BY <3>2 DEF Grown
  <2>6. CASE Fails(o, p.r, p.m)
    BY <2>2, <2>6 DEF Fails, Grown
  <2> QED
    BY <2>4, <2>5, <2>6 DEF Edits
<1> QED
  BY <1>2, <1>3

\* A loop over push adds all the characters, or stops at the push that fails.
LEMMA PushCharsIs ==
    ASSUME NEW m, IsHeapOf(m), NEW r, Valid(r, m), r.ty = "LeanString",
           NEW chars \in Seq(Seq(Bytes)), NEW o \in PushChars(r, m, chars)
    PROVE  Grown(o, r, m, AsBytes(r, m) \o FlattenSeq(chars))
<1>1. PICK c \in Nat : c = Len(chars)
  OBVIOUS
<1>2. PICK f : PushRun(f, r, m, chars, c) /\ o \in f[c]
  <2>1. o \in (CHOOSE f : PushRun(f, r, m, chars, c))[c]
    BY <1>1 DEF PushChars, PushRun, Then, PushAfter
  <2> QED
    BY <2>1, PushRuns
<1>3. PICK G \in [0..c -> Seq(Bytes)] : Joins(G, chars)
  BY <1>1, JoinsExist
<1>4. FlattenSeq(chars) = G[c]
  BY <1>1, <1>3, FlattenIs
<1>5. PICK t \in Seq(Bytes) : t = AsBytes(r, m)
  BY ValidFacts
<1>6. /\ f[0] = Ok(r, m)
      /\ \A k \in 1..c : f[k] = PushAfter(f[k - 1], chars[k])
  <2>1. \A k \in 0..c : f[k] = IF k = 0 THEN Ok(r, m) ELSE PushAfter(f[k - 1], chars[k])
    BY <1>2 DEF PushRun
  <2>2. \A k \in 1..c : k \in 0..c /\ k # 0
    OBVIOUS
  <2> QED
    BY <2>1, <2>2
<1> DEFINE Good(k) == k <= c => \A x \in f[k] : Grown(x, r, m, t \o G[k])
           S == {k \in Nat : Good(k)}
<1>7. 0 \in S
  <2>1. G[0] = <<>>
    BY <1>3 DEF Joins
  <2>2. t \o G[0] = t
    BY <2>1
  <2>3. ASSUME NEW x \in f[0] PROVE Grown(x, r, m, t \o G[0])
    <3>1. Gets(x, r, m, r.ty, AsBytes(r, m))
      BY <1>6, <2>3, OkIs
    <3> QED
      BY <1>5, <2>2, <3>1 DEF Grown
  <2> QED
    BY <2>3
<1>8. ASSUME NEW k \in Nat, k \in S PROVE k + 1 \in S
  <2>1. SUFFICES ASSUME k + 1 <= c, NEW x \in f[k + 1] PROVE Grown(x, r, m, t \o G[k + 1])
    OBVIOUS
  <2>2. k \in 0..c /\ k + 1 \in 1..c /\ (k + 1) - 1 = k /\ k <= c
    BY <2>1
  <2>3. f[k + 1] = PushAfter(f[k], chars[k + 1])
    <3>1. f[k + 1] = PushAfter(f[(k + 1) - 1], chars[k + 1])
      BY <1>6, <2>2
    <3> QED
      BY <2>2, <3>1
  <2>4. G[k + 1] = G[k] \o chars[k + 1]
    <3>1. G[k + 1] = G[(k + 1) - 1] \o chars[k + 1]
      BY <1>1, <1>3, <2>2 DEF Joins
    <3> QED
      BY <2>2, <3>1
  <2>5. chars[k + 1] \in Seq(Bytes) /\ G[k] \in Seq(Bytes)
    BY <1>1, <2>2
  <2>6. t \o G[k] \in Seq(Bytes)
    BY <2>5
  <2>7. \A p \in f[k] : Grown(p, r, m, t \o G[k])
    BY <1>8, <2>2
  <2>8. Grown(x, r, m, (t \o G[k]) \o chars[k + 1])
    <3>1. x \in PushAfter(f[k], chars[k + 1])
      BY <2>1, <2>3
    <3> QED
      BY ONLY <3>1, <2>5, <2>6, <2>7, PushedOneMore, IsHeapOf(m)
  <2>9. (t \o G[k]) \o chars[k + 1] = t \o (G[k] \o chars[k + 1])
    BY ONLY <1>5, <2>5, JoinAssoc
  <2> QED
    BY <2>4, <2>8, <2>9
<1>9. \A k \in Nat : k \in S
  <2> HIDE DEF S
  <2> QED
    BY <1>7, <1>8, Induction
<1>10. \A x \in f[c] : Grown(x, r, m, t \o G[c])
  <2>1. c \in S /\ c <= c
    <3> HIDE DEF S
    <3> QED
      BY <1>9
  <2> QED
    BY <2>1
<1> QED
  BY <1>2, <1>4, <1>5, <1>10

\* The parts of to_case: the sigmas to be lowered, the characters in front of the first
\* one, and their mapped text.
SigmasOf(t, case) == {k \in DOMAIN CaseRest(t, case) : case = "Lower" /\ CaseRest(t, case)[k] = Sigma}
PushedOf(t, case) ==
    IF SigmasOf(t, case) = {} THEN CaseRest(t, case)
    ELSE SubSeq(CaseRest(t, case), 1, Min(SigmasOf(t, case)) - 1)
MappedOf(t, case) == FlattenSeq(CaseOfChars(PushedOf(t, case), case))

\* The text built in the new handle q, and the standard library's after x was dropped.
BuiltIn(q, n, t, case) ==
    UNION {IF x.ret = "ok" THEN PushChars(x.r, x.m, CharsOf(MappedOf(t, case))) ELSE {x} :
             x \in SetLen(q, n, CopyFrom(Data(q, n), CaseStart(t, case), 0), Len(CaseStart(t, case)))}
StdCase(x, t, case, r) ==
    UNION {IF y.ret = "ok" THEN FromStr("LeanString", StrCase(t, case), r, y.m) ELSE {y} :
             y \in DropIn(x.r, x.m)}

\* The cases of to_case.
LEMMA ToCaseCases ==
    ASSUME NEW m, NEW r, NEW case, NEW o \in ToCase(r, m, case)
    PROVE  LET t == AsBytes(r, m)
           IN  \E p \in WithCapacity(Len(t), r, m) :
                  \/ p.ret # "ok" /\ o = p
                  \/ /\ p.ret = "ok" /\ SigmasOf(t, case) = {}
                     /\ o \in DropMapped(BuiltIn(p.r, p.m, t, case), r)
                  \/ /\ p.ret = "ok" /\ SigmasOf(t, case) # {}
                     /\ \E x \in DropMapped(BuiltIn(p.r, p.m, t, case), r) :
                           o \in IF x.ret = "ok" THEN StdCase(x, t, case, r) ELSE {x}
<1>1. PICK p \in WithCapacity(Len(AsBytes(r, m)), r, m) :
         o \in IF p.ret = "ok"
               THEN IF SigmasOf(AsBytes(r, m), case) = {} THEN DropMapped(BuiltIn(p.r, p.m, AsBytes(r, m), case), r)
                    ELSE UNION {IF x.ret = "ok" THEN StdCase(x, AsBytes(r, m), case, r) ELSE {x} :
                                  x \in DropMapped(BuiltIn(p.r, p.m, AsBytes(r, m), case), r)}
               ELSE {p}
  BY DEF ToCase, Then, SigmasOf, CaseRest, CaseAscii, CaseStart, BuiltIn, StdCase, MappedOf, PushedOf, CaseOfChars
<1> QED
  BY <1>1

\* Characters stay characters when a sequence of them is cut.
LEMMA CutChars ==
    ASSUME NEW cs, AreChars(cs), NEW n \in Nat, n <= Len(cs)
    PROVE  AreChars(SubSeq(cs, 1, n))
<1>1. /\ SubSeq(cs, 1, n) \in Seq(Seq(Bytes)) /\ Len(SubSeq(cs, 1, n)) = n
      /\ \A k \in 1..n : SubSeq(cs, 1, n)[k] = cs[k] /\ k \in 1..Len(cs)
  BY DEF AreChars
<1> QED
  BY <1>1 DEF AreChars

\* What is pushed are characters.
LEMMA PushedAre ==
    ASSUME NEW t \in Seq(Bytes), IsUtf8(t), NEW case, SplitAtFirstChange(t, case) # NoChange
    PROVE  /\ AreChars(PushedOf(t, case))
           /\ MappedOf(t, case) \in Seq(Bytes) /\ IsUtf8(MappedOf(t, case))
           /\ SigmasOf(t, case) = {} =>
                 StrCase(t, case) = CaseStart(t, case) \o MappedOf(t, case)
<1>1. AreChars(CaseRest(t, case))
  BY CasePartsAre
<1>2. AreChars(PushedOf(t, case))
  <2>1. CASE SigmasOf(t, case) = {}
    BY <1>1, <2>1 DEF PushedOf
  <2>2. CASE SigmasOf(t, case) # {}
    <3>1. PICK cs : cs = CaseRest(t, case) /\ AreChars(cs)
      BY <1>1
    <3>2. cs \in Seq(Seq(Bytes))
      BY <3>1 DEF AreChars
    <3>3. SigmasOf(t, case) \subseteq 1..Len(cs) /\ SigmasOf(t, case) \subseteq Nat
      BY <3>1, <3>2 DEF SigmasOf
    <3>4. PICK k \in 1..Len(cs) : k = Min(SigmasOf(t, case))
      BY <2>2, <3>3, MinIs
    <3>5. k - 1 \in Nat /\ k - 1 <= Len(cs)
      BY <3>2, <3>4
    <3>6. AreChars(SubSeq(cs, 1, k - 1))
      BY <3>1, <3>5, CutChars
    <3> QED
      BY <2>2, <3>1, <3>4, <3>6 DEF PushedOf
  <2> QED
    BY <2>1, <2>2
<1>3. MappedOf(t, case) \in Seq(Bytes) /\ IsUtf8(MappedOf(t, case))
  BY <1>2, CharsInCase DEF MappedOf
<1>4. ASSUME SigmasOf(t, case) = {} PROVE StrCase(t, case) = CaseStart(t, case) \o MappedOf(t, case)
  <2>1. DOMAIN CaseRest(t, case) = 1..Len(CaseRest(t, case))
    BY <1>1 DEF AreChars
  <2>2. \A k \in 1..Len(CaseRest(t, case)) : ~(case = "Lower" /\ CaseRest(t, case)[k] = Sigma)
    BY <1>4, <2>1 DEF SigmasOf
  <2>3. StrCase(t, case) = CaseStart(t, case) \o FlattenSeq(CaseOfChars(CaseRest(t, case), case))
    BY <2>2, CasePartsAre
  <2> QED
    BY <1>4, <2>3 DEF MappedOf, PushedOf
<1> QED
  BY <1>2, <1>3, <1>4

\* The start is written into the new buffer, then the other characters are pushed.
LEMMA BuiltIs ==
    ASSUME NEW m, IsHeapOf(m), NEW t \in Seq(Bytes), IsUtf8(t), NEW case,
           SplitAtFirstChange(t, case) # NoChange,
           NEW p, Gets(p, Nothing, m, "LeanString", <<>>), IsModifiable(p.r, p.m),
           Capacity(p.r, p.m) >= Len(t), NEW o \in BuiltIn(p.r, p.m, t, case)
    PROVE  Grown(o, Nothing, m, CaseStart(t, case) \o MappedOf(t, case))
<1>1. PICK s \in Seq(Bytes) : s = CaseStart(t, case) /\ Len(s) <= Len(t)
  BY CasePartsAre
<1>2. PICK u \in Seq(Bytes) : u = MappedOf(t, case) /\ IsUtf8(u)
  BY PushedAre
<1>3. PICK k \in Nat : k = Len(s)
  OBVIOUS
<1>4. /\ p.r.ty = "LeanString" /\ Trade(Nothing, m, p.r, p.m) /\ IsHeapOf(p.m) /\ Valid(p.r, p.m)
  BY GetsFacts
<1>5. PICK D \in Seq(Cell) : D = Data(p.r, p.m) /\ Len(D) = Capacity(p.r, p.m)
  BY <1>4, DataIs
<1>6. PICK x \in SetLen(p.r, p.m, CopyFrom(D, s, 0), k) :
         o \in IF x.ret = "ok" THEN PushChars(x.r, x.m, CharsOf(u)) ELSE {x}
  BY <1>1, <1>2, <1>3, <1>5 DEF BuiltIn
<1>7. k <= Len(D)
  <2>1. Len(t) \in Nat /\ Len(D) \in Nat /\ Len(D) >= Len(t) /\ k <= Len(t)
    BY <1>1, <1>3, <1>5
  <2> QED
    BY ONLY <2>1, <1>3
<1>8. PICK d \in Seq(Cell) : d = CopyFrom(D, s, 0) /\ Len(d) = Len(D) /\ SubSeq(d, 1, k) = s
  <2>1. D \in Seq(Cell) /\ s \in Seq(Cell) /\ 0 \in Nat /\ 0 + Len(s) <= Len(D)
    BY <1>1, <1>3, <1>5, <1>7 DEF Cell
  <2>2. /\ CopyFrom(D, s, 0) \in Seq(Cell) /\ Len(CopyFrom(D, s, 0)) = Len(D)
        /\ SubSeq(CopyFrom(D, s, 0), 1, 0 + Len(s)) = SubSeq(D, 1, 0) \o s
    BY ONLY <2>1, AppendedInPlace
  <2>3. SubSeq(D, 1, 0) \o s = s
    <3>1. SubSeq(D, 1, 0) = <<>>
      BY <1>5
    <3> QED
      BY <3>1
  <2>4. 0 + Len(s) = k
    BY <1>3
  <2> QED
    BY <2>2, <2>3, <2>4
<1>9. Gets(x, p.r, p.m, "LeanString", s)
  <2>1. /\ IsHeapOf(p.m) /\ Valid(p.r, p.m) /\ p.r.ty = "LeanString" /\ IsModifiable(p.r, p.m)
        /\ d \in Seq(Cell) /\ Len(d) = Capacity(p.r, p.m)
        /\ k \in Nat /\ k <= Len(d) /\ SubSeq(d, 1, k) \in Seq(Bytes)
        /\ x \in SetLen(p.r, p.m, d, k)
    BY <1>4, <1>5, <1>6, <1>7, <1>8
  <2>2. Gets(x, p.r, p.m, "LeanString", SubSeq(d, 1, k))
    BY ONLY <2>1, SetLenIs
  <2> QED
    BY <1>8, <2>2
<1>10. Gets(x, Nothing, m, "LeanString", s)
  BY <1>9, GetsTwice
<1>11. /\ x.ret = "ok" /\ x.r.ty = "LeanString" /\ AsBytes(x.r, x.m) = s
       /\ Trade(Nothing, m, x.r, x.m) /\ IsHeapOf(x.m) /\ Valid(x.r, x.m)
  BY <1>10, GetsFacts
<1>12. CharsOf(u) \in Seq(Seq(Bytes)) /\ FlattenSeq(CharsOf(u)) = u
  BY <1>2, CharsAre DEF AreChars
<1>13. o \in PushChars(x.r, x.m, CharsOf(u))
  BY <1>6, <1>11
<1>14. Grown(o, x.r, x.m, AsBytes(x.r, x.m) \o FlattenSeq(CharsOf(u)))
  BY ONLY <1>11, <1>12, <1>13, PushCharsIs
<1>15. Grown(o, x.r, x.m, s \o u)
  BY <1>11, <1>12, <1>14
<1>16. CASE Gets(o, x.r, x.m, "LeanString", s \o u)
  <2>1. Gets(o, Nothing, m, "LeanString", s \o u)
    BY <1>10, <1>16, GetsTwice
  <2> QED
    BY <1>1, <1>2, <2>1 DEF Grown
<1>17. CASE o = [ret |-> "err", val |-> <<>>, r |-> o.r, m |-> o.m] /\ Trade(x.r, x.m, o.r, o.m)
  <2>1. Trade(Nothing, m, o.r, o.m)
    BY <1>11, <1>17, TradeTwice
  <2> QED
    BY <1>17, <2>1 DEF Grown
<1> QED
  BY <1>15, <1>16, <1>17 DEF Grown

\* A half-built text is dropped: a failure leaves the heap as it was.
LEMMA DropMappedIs ==
    ASSUME NEW m, IsHeapOf(m), NEW u, NEW made, \A b \in made : Grown(b, Nothing, m, u),
           NEW r, NEW o \in DropMapped(made, r)
    PROVE  Makes(o, r, m, "LeanString", u)
<1>1. PICK b \in made :
         o \in IF b.ret = "err" THEN UNION {IF d.ret = "ok" THEN Err(r, d.m) ELSE {d} : d \in DropIn(b.r, b.m)}
               ELSE {b}
  BY DEF DropMapped, Then
<1>2. CASE Gets(b, Nothing, m, "LeanString", u)
  <2>1. b.ret = "ok"
    BY <1>2, GetsFacts
  <2>2. o = b
    BY <1>1, <2>1
  <2> QED
    BY <1>2, <2>2 DEF Makes
<1>3. CASE b = [ret |-> "err", val |-> <<>>, r |-> b.r, m |-> b.m] /\ Trade(Nothing, m, b.r, b.m)
  <2>1. b.ret = "err"
    BY <1>3
  <2>2. PICK d \in DropIn(b.r, b.m) : o \in IF d.ret = "ok" THEN Err(r, d.m) ELSE {d}
    BY <1>1, <2>1
  <2>3. d.ret = "ok" /\ d.m = m
    BY <1>3, <2>2, MadeAndDropped
  <2>4. o \in Err(r, m)
    BY <2>2, <2>3
  <2> QED
    BY <2>4, ErrIs DEF Makes
<1> QED
  BY <1>2, <1>3 DEF Grown

\* to_case of a text that changes makes a LeanString with the mapped text, or fails and
\* leaves nothing behind.
LEMMA ToCaseIs ==
    ASSUME NEW m, IsHeapOf(m), NEW r, Valid(r, m), IsUtf8(AsBytes(r, m)), NEW case,
           SplitAtFirstChange(AsBytes(r, m), case) # NoChange, NEW o \in ToCase(r, m, case)
    PROVE  Makes(o, r, m, "LeanString", StrCase(AsBytes(r, m), case))
<1>1. PICK t \in Seq(Bytes) : t = AsBytes(r, m)
  BY ValidFacts
<1>2. IsUtf8(t) /\ SplitAtFirstChange(t, case) # NoChange
  BY <1>1
<1>3. PICK p \in WithCapacity(Len(t), r, m) :
        \/ p.ret # "ok" /\ o = p
        \/ /\ p.ret = "ok" /\ SigmasOf(t, case) = {}
           /\ o \in DropMapped(BuiltIn(p.r, p.m, t, case), r)
        \/ /\ p.ret = "ok" /\ SigmasOf(t, case) # {}
           /\ \E x \in DropMapped(BuiltIn(p.r, p.m, t, case), r) :
                 o \in IF x.ret = "ok" THEN StdCase(x, t, case, r) ELSE {x}
  <2>1. LET w == AsBytes(r, m)
           IN  \E p \in WithCapacity(Len(w), r, m) :
                  \/ p.ret # "ok" /\ o = p
                  \/ /\ p.ret = "ok" /\ SigmasOf(w, case) = {}
                     /\ o \in DropMapped(BuiltIn(p.r, p.m, w, case), r)
                  \/ /\ p.ret = "ok" /\ SigmasOf(w, case) # {}
                     /\ \E x \in DropMapped(BuiltIn(p.r, p.m, w, case), r) :
                           o \in IF x.ret = "ok" THEN StdCase(x, w, case, r) ELSE {x}
    BY ToCaseCases
  <2> QED
    BY <1>1, <2>1
<1>4. Makes(p, r, m, "LeanString", <<>>) /\ (p.ret = "ok" => IsModifiable(p.r, p.m) /\ Capacity(p.r, p.m) >= Len(t))
  <2>1. Len(t) \in Nat
    BY <1>1
  <2> QED
    BY <1>3, <2>1, WithCapacityIs
<1>5. CASE p.ret # "ok"
  <2>1. ~Gets(p, Nothing, m, "LeanString", <<>>)
    BY <1>5, GetsFacts
  <2> QED
    BY <1>3, <1>4, <1>5, <2>1 DEF Makes
<1>6. CASE p.ret = "ok"
  <2>1. Gets(p, Nothing, m, "LeanString", <<>>)
    <3>1. ~Fails(p, r, m)
      BY <1>6, FailsFacts
    <3> QED
      BY <1>4, <3>1 DEF Makes
  <2>2. PICK v : v = CaseStart(t, case) \o MappedOf(t, case)
    OBVIOUS
  <2>3. \A b \in BuiltIn(p.r, p.m, t, case) : Grown(b, Nothing, m, v)
    BY <1>2, <1>4, <1>6, <2>1, <2>2, BuiltIs
  <2>4. \A x \in DropMapped(BuiltIn(p.r, p.m, t, case), r) : Makes(x, r, m, "LeanString", v)
    BY <2>3, DropMappedIs
  <2>5. CASE SigmasOf(t, case) = {}
    <3>1. v = StrCase(t, case)
      BY <1>2, <2>2, <2>5, PushedAre
    <3> QED
      BY <1>1, <1>3, <1>6, <2>4, <2>5, <3>1
  <2>6. CASE SigmasOf(t, case) # {}
    <3>1. PICK x \in DropMapped(BuiltIn(p.r, p.m, t, case), r) :
             o \in IF x.ret = "ok" THEN StdCase(x, t, case, r) ELSE {x}
      BY <1>3, <1>6, <2>6
    <3>2. Makes(x, r, m, "LeanString", v)
      BY <2>4
    <3>3. CASE Fails(x, r, m)
      <4>1. x.ret = "err"
        BY <3>3, FailsFacts
      <4>2. o = x
        BY <3>1, <4>1
      <4> QED
        BY <3>3, <4>2 DEF Makes
    <3>4. CASE Gets(x, Nothing, m, "LeanString", v)
      <4>1. x.ret = "ok" /\ Trade(Nothing, m, x.r, x.m)
        BY <3>4, GetsFacts
      <4>2. PICK y \in DropIn(x.r, x.m) :
               o \in IF y.ret = "ok" THEN FromStr("LeanString", StrCase(t, case), r, y.m) ELSE {y}
        BY <3>1, <4>1 DEF StdCase
      <4>3. y.ret = "ok" /\ y.m = m
        BY <4>1, <4>2, MadeAndDropped
      <4>4. o \in FromStr("LeanString", StrCase(t, case), r, m)
        BY <4>2, <4>3
      <4>5. StrCase(t, case) \in Seq(Bytes)
        BY <1>2, MappedCharsAre
      <4>6. "LeanString" \in Types
        BY DEF Types
      <4> QED
        BY <1>1, <4>4, <4>5, <4>6, FromStrIs
    <3> QED
      BY <3>2, <3>3, <3>4 DEF Makes
  <2> QED
    BY <2>5, <2>6
<1> QED
  BY <1>5, <1>6

\* to_lowercase and to_uppercase of a LeanStr: the LeanString is converted.
LEMMA MappedAndConverted ==
    ASSUME NEW m, IsHeapOf(m), NEW r, Valid(r, m), IsUtf8(AsBytes(r, m)), NEW case,
           SplitAtFirstChange(AsBytes(r, m), case) # NoChange,
           NEW o \in UNION {IF p.ret = "ok" THEN DropMapped(IntoImmutable(p.r, p.m), r) ELSE {p} :
                              p \in ToCase(r, m, case)}
    PROVE  Makes(o, r, m, "LeanStr", StrCase(AsBytes(r, m), case))
<1>1. PICK p \in ToCase(r, m, case) : o \in IF p.ret = "ok" THEN DropMapped(IntoImmutable(p.r, p.m), r) ELSE {p}
  OBVIOUS
<1>2. PICK t : t = StrCase(AsBytes(r, m), case)
  OBVIOUS
<1>3. Makes(p, r, m, "LeanString", t)
  BY <1>2, ToCaseIs
<1>4. CASE Fails(p, r, m)
  <2>1. p.ret = "err"
    BY <1>4, FailsFacts
  <2>2. o = p
    BY <1>1, <2>1
  <2> QED
    BY <1>4, <2>2 DEF Makes
<1>5. CASE Gets(p, Nothing, m, "LeanString", t)
  <2>1. p.ret = "ok" /\ p.r.ty = "LeanString" /\ IsHeapOf(p.m) /\ Valid(p.r, p.m)
    BY <1>5, GetsFacts
  <2>2. \A c \in IntoImmutable(p.r, p.m) : Converts(c, p.r, p.m, "LeanStr")
    BY <2>1, IntoImmutableIs
  <2>3. o \in DropMapped(IntoImmutable(p.r, p.m), r)
    BY <1>1, <2>1
  <2> QED
    BY <1>2, <1>5, <2>2, <2>3, ConvertedOrDropped
<1> QED
  BY <1>3, <1>4, <1>5 DEF Makes
=============================================================================
