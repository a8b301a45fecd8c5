------------------------- MODULE SharedBufferProofs -------------------------
(***************************************************************************)
(* Machine-checked proofs about SharedBuffer, for every number of threads, *)
(* handles and buffers.                                                    *)
(***************************************************************************)
EXTENDS SharedBufferInv, FiniteSetTheorems, TLAPS

USE ConstantsAssumption

-----------------------------------------------------------------------------
(* Type correctness.                                                       *)

\* Representations built by the operations are representations.
LEMMA ReprType ==
    /\ NewRepr \in Repr
    /\ \A v \in Texts : InlineRepr(v) \in Repr
    /\ \A b \in Buffers : HeapRepr(b) \in Repr
    /\ \A r \in Repr, c \in BOOLEAN : WithCut(r, c) \in Repr
BY DEF Repr, NewRepr, WithCut, InlineRepr, HeapRepr

\* The text of a representation is a text.
LEMMA TextType ==
    ASSUME data \in [Buffers -> Texts], NEW r \in Repr
    PROVE  TextOf(r) \in Texts
BY DEF Repr, TextOf

\* Facts that are tuples of the right kind.
LEMMA FactType ==
    /\ \A t \in Threads, b \in Buffers, k \in {"read", "write"} :
          <<k, t, b>> \in Accesses /\ <<k, t, b>> \in AccessesAt(b) /\ <<k, t, b>> \in Facts
    /\ \A b \in Buffers, k \in {"one", "many"} :
          <<k, Nobody, b>> \in OldCountsAt(b) /\ <<k, Nobody, b>> \in Facts
    /\ \A b \in Buffers : AccessesAt(b) \subseteq Accesses
    /\ Accesses \subseteq Facts
BY DEF Facts, Accesses, AccessesAt, OldCounts, OldCountsAt

\* The knowledge operators keep unk and carried in their types.
LEMMA PerformType ==
    ASSUME unk \in [Threads -> SUBSET Facts], carried \in [Buffers -> SUBSET Accesses],
           NEW t \in Threads, NEW F \in SUBSET Accesses, Perform(t, F)
    PROVE  unk' \in [Threads -> SUBSET Facts] /\ carried' \in [Buffers -> SUBSET Accesses]
BY FactType DEF Perform

\* The same of a read-modify-write of a count.
LEMMA FetchModifyType ==
    ASSUME unk \in [Threads -> SUBSET Facts], carried \in [Buffers -> SUBSET Accesses],
           cnt \in [Buffers -> Nat],
           NEW t \in Threads, NEW b \in Buffers, NEW n \in Nat, NEW r \in BOOLEAN,
           FetchModify(t, b, n, r)
    PROVE  /\ unk' \in [Threads -> SUBSET Facts]
           /\ carried' \in [Buffers -> SUBSET Accesses]
           /\ cnt' \in [Buffers -> Nat]
BY FactType DEF FetchModify

-----------------------------------------------------------------------------
(* References and counts.                                                  *)

\* References are handles or threads, and finitely many.
LEMMA RefsFinite == \A b : Refs(b) \subseteq Handles \cup Threads /\ IsFiniteSet(Refs(b))
<1>1. IsFiniteSet(Handles \cup Threads)
  BY FS_Union
<1>2. \A b : Refs(b) \subseteq Handles \cup Threads
  BY DEF Refs
<1>3. QED
  BY <1>1, <1>2, FS_Subset

\* The references to a buffer depend on the buffers of the representations only.
LEMMA RefsFrame ==
    ASSUME \A h \in Handles : repr'[h].buf = repr[h].buf,
           \A t \in Threads : tmp'[t].buf = tmp[t].buf
    PROVE  \A b : Refs(b)' = Refs(b)
BY DEF Refs

\* A count of one means that the reference at hand is the only one.
LEMMA SoleReference ==
    ASSUME RefCount, NEW b \in live, cnt[b] = 1, NEW x \in Refs(b)
    PROVE  Refs(b) = {x}
<1>1. Cardinality(Refs(b)) = 1 /\ IsFiniteSet(Refs(b))
  BY RefsFinite DEF RefCount
<1>2. PICK y : Refs(b) = {y}
  BY <1>1, FS_Singleton
<1>3. QED
  BY <1>2

\* A buffer somebody refers to is live and has a positive count.
LEMMA Referenced ==
    ASSUME RefCount, NoDangling, NEW b \in Buffers, NEW x \in Refs(b)
    PROVE  b \in live /\ cnt[b] \in Nat /\ cnt[b] >= 1
<1>1. b \in live
  BY DEF NoDangling
<1>2. IsFiniteSet(Refs(b)) /\ Refs(b) # {}
  BY RefsFinite
<1>3. Cardinality(Refs(b)) \in Nat /\ Cardinality(Refs(b)) # 0
  BY <1>2, FS_CardinalityType, FS_EmptySet
<1>4. QED
  BY <1>1, <1>3 DEF RefCount

\* What a thread relies on is a buffer.
LEMMA ReliedType ==
    ASSUME TypeOK, Locals, NEW u \in Threads, Relied(u) # NoBuf
    PROVE  Relied(u) \in Buffers
<1>1. CASE pc[u] \in {"write", "resize", "into"} \/ (pc[u] = "free" /\ op[u] \in WriteLater)
  <2>1. arg[u] \in Handles /\ Relied(u) = repr[arg[u]].buf
    BY <1>1 DEF Relied, Locals, Holds, AtHeap, MyBuf, WriteLater
  <2>2. QED
    BY <2>1 DEF TypeOK, Repr
<1>2. CASE pc[u] = "release"
  <2>1. Relied(u) = tmp[u].buf
    BY <1>2 DEF Relied
  <2>2. QED
    BY <2>1 DEF TypeOK, Repr
<1>3. QED
  BY <1>1, <1>2 DEF Relied

\* Nobody relies on being alone with a buffer that another thread can use.
LEMMA NotRelied ==
    ASSUME TypeOK, Locals, Alone, NEW t \in Threads, NEW u \in Threads, u # t,
           NEW b \in Buffers, NEW x \in Refs(b), t \in Users(x)
    PROVE  Relied(u) # b
<1> SUFFICES ASSUME Relied(u) = b PROVE FALSE
  OBVIOUS
<1>1. b # NoBuf
  OBVIOUS
<1>2. x = Holder(u)
  BY <1>1 DEF Alone
<1>3. CASE pc[u] = "release"
  BY <1>2, <1>3 DEF Holder, Users
<1>4. CASE pc[u] # "release"
  <2>1. x = arg[u]
    BY <1>2, <1>4 DEF Holder
  <2>2. Holds(u)
    BY <1>1, <1>4 DEF Relied, Holds, WriteLater, AtHeap
  <2>3. x \in Handles /\ Accessors(x) = {u}
    BY <2>1, <2>2 DEF Locals, Accessors, TypeOK
  <2>4. QED
    BY <2>3 DEF Users
<1>5. QED
  BY <1>3, <1>4

\* Counting is not disturbed by a step that leaves references, counts and pending
\* deallocations alone.
LEMMA CountFrame ==
    ASSUME NoDangling, RefCount, NoLeak, live' = live, cnt' = cnt, old' = old,
           \A b \in Buffers : Refs(b)' = Refs(b),
           \A t \in Threads : pc'[t] = "free" <=> pc[t] = "free",
           live \subseteq Buffers, Locals
    PROVE  NoDangling' /\ RefCount' /\ NoLeak'
<1>1. NoDangling'
  BY DEF NoDangling, Locals
<1>2. RefCount'
  BY DEF RefCount
<1>3. NoLeak'
  BY DEF NoLeak
<1>4. QED
  BY <1>1, <1>2, <1>3

-----------------------------------------------------------------------------
(* Knowledge.                                                              *)

\* Accesses by t that t may make: to a live buffer through a reference it can use,
\* and written to only if nobody else can use the buffer.
Permitted(t, F) == \A a \in F : \E k \in {"read", "write"}, b \in Buffers :
    /\ a = <<k, t, b>>
    /\ b \in live => \E x \in Refs(b) : t \in Users(x)
    /\ k = "write" => \A x \in Refs(b) : Users(x) \subseteq {t}

\* What permitted accesses do to everybody's knowledge.
LEMMA PerformKnowledge ==
    ASSUME IInv, NEW t \in Threads, NEW F, Permitted(t, F), Perform(t, F)
    PROVE  /\ unk' \in [Threads -> SUBSET Facts]
           /\ carried' \in [Buffers -> SUBSET Accesses]
           /\ unk'[t] = unk[t]
           /\ OwnKnown'
           /\ \A b \in Buffers : \A x \in Refs(b) :
                 \E u \in Users(x) : <<"one", Nobody, b>> \notin unk'[u]
           /\ \A b \in Buffers : \A x \in Refs(b) :
                 \A u \in Users(x) : unk'[u] \cap WritesAt(b) = {}
           /\ \A b \in live : \A a \in AccessesAt(b) :
                 a \in carried'[b] \/ \E x \in Refs(b) : \E u \in Users(x) : a \notin unk'[u]
           /\ \A u \in Threads : Relied(u) # NoBuf =>
                 unk'[u] \cap AccessesAt(Relied(u)) = {}
           /\ \A b \in Buffers, u \in Threads :
                 unk[u] \cap FactsAt(b) = {} /\ (\A a \in F : a[3] # b) => unk'[u] \cap FactsAt(b) = {}
<1>0. TypeOK /\ Locals /\ Ownership /\ NoDangling /\ Alone /\ OwnKnown /\ OldOneKnown
        /\ WritesKnown /\ AccessesKept
  BY DEF IInv
<1>1. F \subseteq Accesses
  <2> SUFFICES ASSUME NEW a \in F PROVE a \in Accesses
    OBVIOUS
  <2>1. PICK k \in {"read", "write"}, b \in Buffers : a = <<k, t, b>>
    BY DEF Permitted
  <2>2. QED
    BY <2>1, FactType
<1>2. unk' \in [Threads -> SUBSET Facts] /\ carried' \in [Buffers -> SUBSET Accesses]
  BY <1>0, <1>1, PerformType DEF TypeOK
<1>3. unk'[t] = unk[t] /\ \A u \in Threads : unk'[u] \subseteq unk[u] \cup F
  BY <1>0 DEF Perform, TypeOK
<1>4. \A b \in Buffers : carried'[b] = carried[b] \ F
  BY <1>0 DEF Perform, TypeOK
<1>5. OwnKnown'
  <2> SUFFICES ASSUME NEW u \in Threads, NEW b \in Buffers, NEW k \in {"read", "write"},
                      <<k, u, b>> \in unk'[u]
               PROVE  FALSE
    BY DEF OwnKnown
  <2>1. u # t /\ <<k, u, b>> \in F
    BY <1>0, <1>3 DEF OwnKnown
  <2>2. QED
    BY <2>1 DEF Permitted
<1>6. ASSUME NEW b \in Buffers, NEW x \in Refs(b)
      PROVE  /\ \E u \in Users(x) : <<"one", Nobody, b>> \notin unk'[u]
             /\ \A u \in Users(x) : unk'[u] \cap WritesAt(b) = {}
  <2>0. Users(x) \subseteq Threads
    BY <1>0, RefsFinite DEF Users, Accessors, TypeOK
  <2>1. \E u \in Users(x) : <<"one", Nobody, b>> \notin unk'[u]
    <3>1. PICK u \in Users(x) : <<"one", Nobody, b>> \notin unk[u]
      BY <1>0 DEF OldOneKnown
    <3>2. <<"one", Nobody, b>> \notin F
      BY <1>1 DEF Accesses
    <3>3. QED
      BY <2>0, <3>1, <3>2, <1>3
  <2>2. ASSUME NEW u \in Users(x), NEW a \in unk'[u], a \in WritesAt(b) PROVE FALSE
    <3>1. a \notin unk[u]
      BY <1>0, <2>2 DEF WritesKnown
    <3>2. u # t /\ a \in F
      BY <3>1, <2>0, <2>2, <1>3
    <3>3. PICK k \in {"read", "write"}, c \in Buffers :
            /\ a = <<k, t, c>>
            /\ k = "write" => \A y \in Refs(c) : Users(y) \subseteq {t}
      BY <3>2 DEF Permitted
    <3>4. k = "write" /\ c = b
      BY <3>3, <2>2 DEF WritesAt
    <3>5. QED
      BY <3>2, <3>3, <3>4
  <2>3. QED
    BY <2>1, <2>2
<1>7. ASSUME NEW b \in live, NEW a \in AccessesAt(b)
      PROVE  a \in carried'[b] \/ \E x \in Refs(b) : \E u \in Users(x) : a \notin unk'[u]
  <2>0. b \in Buffers /\ \A x \in Refs(b) : Users(x) \subseteq Threads
    BY <1>0, RefsFinite DEF Users, Accessors, TypeOK
  <2>1. CASE a \in F
    <3>1. PICK k \in {"read", "write"}, c \in Buffers :
            a = <<k, t, c>> /\ (c \in live => \E x \in Refs(c) : t \in Users(x))
      BY <2>1 DEF Permitted
    <3>2. c = b
      BY <3>1 DEF AccessesAt
    <3>3. a \notin unk'[t]
      BY <3>1, <1>5 DEF OwnKnown
    <3>4. QED
      BY <3>1, <3>2, <3>3
  <2>2. CASE a \notin F
    BY <2>0, <2>2, <1>0, <1>3, <1>4 DEF AccessesKept
  <2>3. QED
    BY <2>1, <2>2
<1>8. ASSUME NEW u \in Threads, Relied(u) # NoBuf, NEW a \in unk'[u],
             a \in AccessesAt(Relied(u))
      PROVE  FALSE
  <2>1. a \notin unk[u] /\ u # t /\ a \in F
    BY <1>0, <1>3, <1>8 DEF Alone
  <2>2. PICK k \in {"read", "write"}, c \in Buffers :
          a = <<k, t, c>> /\ (c \in live => \E x \in Refs(c) : t \in Users(x))
    BY <2>1 DEF Permitted
  <2>3. c = Relied(u)
    BY <1>8, <2>2 DEF AccessesAt
  <2>4. Refs(c) # {}
    BY <1>0, <1>8, <2>3 DEF Alone
  <2>5. c \in live
    BY <1>0, <2>2, <2>4 DEF NoDangling
  <2>6. PICK x \in Refs(c) : t \in Users(x)
    BY <2>2, <2>5
  <2>7. QED
    BY <1>0, <2>1, <2>2, <2>3, <2>6, NotRelied
<1>9. ASSUME NEW b \in Buffers, NEW u \in Threads,
             unk[u] \cap FactsAt(b) = {}, \A a \in F : a[3] # b
      PROVE  unk'[u] \cap FactsAt(b) = {}
  BY <1>3, <1>9 DEF FactsAt, AccessesAt, OldCountsAt
<1>10. QED
  BY <1>2, <1>3, <1>5, <1>6, <1>7, <1>8, <1>9

\* What a read-modify-write of b's count by a thread t that can use b does to
\* everybody's knowledge: only overwritten counts become doubtful.
LEMMA FetchKnowledge ==
    ASSUME IInv, NEW t \in Threads, NEW b \in Buffers, NEW x \in Refs(b), t \in Users(x),
           NEW n \in Nat, NEW r \in BOOLEAN, FetchModify(t, b, n, r)
    PROVE  /\ unk' \in [Threads -> SUBSET Facts]
           /\ carried' \in [Buffers -> SUBSET Accesses]
           /\ cnt' = [cnt EXCEPT ![b] = n]
           /\ OwnKnown'
           /\ <<"one", Nobody, b>> \notin unk'[t]
           /\ \A c \in Buffers : \A y \in Refs(c) :
                 \E u \in Users(y) : <<"one", Nobody, c>> \notin unk'[u]
           /\ \A u \in Threads : \A a \in Accesses : a \in unk'[u] <=> a \in unk[u]
           /\ \A c \in Buffers : carried[c] \subseteq carried'[c]
           /\ r => AccessesAt(b) \ unk[t] \subseteq carried'[b]
           /\ \A c \in Buffers \ live : \A u \in Threads : unk'[u] \cap FactsAt(c) = {}
<1>0. TypeOK /\ Locals /\ NoDangling /\ RefCount /\ OwnKnown /\ OldOneKnown /\ DeadForgotten
  BY DEF IInv
<1> DEFINE was == <<IF cnt[b] = 1 THEN "one" ELSE "many", Nobody, b>>
<1>1. b \in live
  BY <1>0, Referenced
<1>2. /\ unk' \in [Threads -> SUBSET Facts]
      /\ carried' \in [Buffers -> SUBSET Accesses]
  BY <1>0, FetchModifyType DEF TypeOK
<1>3. unk'[t] = unk[t] \ OldCountsAt(b) /\ \A u \in Threads : unk'[u] \subseteq unk[u] \cup {was}
  BY <1>0 DEF FetchModify, TypeOK
<1>4. was \notin Accesses /\ was \in FactsAt(b) /\ was \notin {<<"one", Nobody, c>> : c \in Buffers \ {b}}
  BY DEF Accesses, FactsAt, OldCountsAt
<1>5. \A u \in Threads : \A a \in Accesses : a \in unk'[u] <=> a \in unk[u]
  <2>1. OldCountsAt(b) \cap Accesses = {}
    BY DEF Accesses, OldCountsAt
  <2>2. QED
    BY <1>0, <1>4, <2>1 DEF FetchModify, TypeOK
<1>6. OwnKnown'
  BY <1>0, <1>5, FactType DEF OwnKnown
<1>7. <<"one", Nobody, b>> \notin unk'[t]
  BY <1>3, FactType
<1>8. ASSUME NEW c \in Buffers, NEW y \in Refs(c)
      PROVE  \E u \in Users(y) : <<"one", Nobody, c>> \notin unk'[u]
  <2>0. Users(y) \subseteq Threads
    BY <1>0, RefsFinite DEF Users, Accessors, TypeOK
  <2>1. PICK u \in Users(y) : <<"one", Nobody, c>> \notin unk[u]
    BY <1>0 DEF OldOneKnown
  <2>2. CASE c # b \/ cnt[b] # 1
    <3>1. <<"one", Nobody, c>> # was
      BY <2>2
    <3>2. QED
      BY <2>0, <2>1, <3>1, <1>3
  <2>3. CASE c = b /\ cnt[b] = 1
    <3>1. y = x
      BY <1>0, <1>1, <2>3, SoleReference
    <3>2. QED
      BY <1>7, <2>3, <3>1
  <2>4. QED
    BY <2>2, <2>3
<1>9. /\ \A c \in Buffers : carried[c] \subseteq carried'[c]
      /\ r => AccessesAt(b) \ unk[t] \subseteq carried'[b]
      /\ cnt' = [cnt EXCEPT ![b] = n]
  BY <1>0 DEF FetchModify, TypeOK
<1>10. ASSUME NEW c \in Buffers \ live, NEW u \in Threads
       PROVE  unk'[u] \cap FactsAt(c) = {}
  <2>1. c # b /\ unk[u] \cap FactsAt(c) = {}
    BY <1>0, <1>1 DEF DeadForgotten
  <2>2. was \notin FactsAt(c)
    BY <2>1 DEF FactsAt, AccessesAt, OldCountsAt
  <2>3. QED
    BY <2>1, <2>2, <1>3
<1>11. QED
  BY <1>2, <1>5, <1>6, <1>7, <1>8, <1>9, <1>10

\* What realloc by a thread t alone with b does to everybody's knowledge.
LEMMA ReallocateKnowledge ==
    ASSUME IInv, NEW t \in Threads, NEW b \in Buffers, NEW x \in Refs(b),
           Refs(b) = {x}, Users(x) = {t}, Reallocate(t, b)
    PROVE  /\ unk' \in [Threads -> SUBSET Facts]
           /\ carried' \in [Buffers -> SUBSET Accesses]
           /\ OwnKnown'
           /\ unk'[t] \cap FactsAt(b) = {}
           /\ \A u \in Threads, c \in Buffers : c # b =>
                 unk'[u] \cap FactsAt(c) = unk[u] \cap FactsAt(c) /\ carried'[c] = carried[c]
<1>0. TypeOK /\ OwnKnown
  BY DEF IInv
<1>1. <<"write", t, b>> \in Facts /\ <<"write", t, b>> \in AccessesAt(b)
  BY FactType
<1>2. /\ unk' \in [Threads -> SUBSET Facts]
      /\ carried' \in [Buffers -> SUBSET Accesses]
      /\ unk'[t] \cap FactsAt(b) = {}
  BY <1>0, <1>1 DEF Reallocate, TypeOK
<1>3. OwnKnown'
  BY <1>0 DEF Reallocate, TypeOK, OwnKnown
<1>4. ASSUME NEW u \in Threads, NEW c \in Buffers, c # b
      PROVE  unk'[u] \cap FactsAt(c) = unk[u] \cap FactsAt(c) /\ carried'[c] = carried[c]
  <2>1. FactsAt(c) \cap FactsAt(b) = {}
    BY <1>4 DEF FactsAt, AccessesAt, OldCountsAt
  <2>2. <<"write", t, b>> \notin FactsAt(c)
    BY <2>1, <1>1 DEF FactsAt
  <2>3. QED
    BY <1>0, <1>4, <2>1, <2>2 DEF Reallocate, TypeOK
<1>5. QED
  BY <1>2, <1>3, <1>4

\* The knowledge conjuncts of the invariant, for given unk and carried.
KnownTo(U, C) ==
    /\ \A b \in Buffers : \A x \in Refs(b) :
          \E t \in Users(x) : <<"one", Nobody, b>> \notin U[t]
    /\ \A b \in Buffers : \A x \in Refs(b) :
          \A t \in Users(x) : U[t] \cap WritesAt(b) = {}
    /\ \A b \in live : \A a \in AccessesAt(b) :
          a \in C[b] \/ \E x \in Refs(b) : \E t \in Users(x) : a \notin U[t]

\* A step that changes neither a reference nor who can use it keeps the invariant
\* if knowledge stays sufficient and who relies on a buffer may do so.
LEMMA SameRefs ==
    ASSUME IInv, live' = live, cnt' = cnt, old' = old,
           \A h \in Handles : repr'[h].buf = repr[h].buf,
           \A t \in Threads : tmp'[t].buf = tmp[t].buf,
           \A t \in Threads : pc'[t] = "free" <=> pc[t] = "free",
           \A b \in Buffers : \A x \in Refs(b) : Users(x)' = Users(x),
           KnownTo(unk', carried'),
           \A b \in Buffers \ live : \A u \in Threads : unk'[u] \cap FactsAt(b) = {},
           \A u \in Threads : Relied(u)' # NoBuf =>
              /\ Refs(Relied(u)') = {Holder(u)'}
              /\ unk'[u] \cap AccessesAt(Relied(u)') = {}
    PROVE  /\ NoDangling' /\ RefCount' /\ NoLeak' /\ Alone'
           /\ OldOneKnown' /\ WritesKnown' /\ AccessesKept' /\ DeadForgotten'
<1>0. TypeOK /\ Locals /\ NoDangling /\ RefCount /\ NoLeak
  BY DEF IInv
<1>1. \A b : Refs(b)' = Refs(b)
  BY RefsFrame
<1>2. NoDangling' /\ RefCount' /\ NoLeak'
  BY <1>0, <1>1, CountFrame DEF TypeOK
<1>3. Alone'
  BY <1>1 DEF Alone
<1>4. OldOneKnown' /\ WritesKnown'
  BY <1>1 DEF OldOneKnown, WritesKnown, KnownTo
<1>5. AccessesKept'
  BY <1>0, <1>1 DEF AccessesKept, KnownTo, TypeOK
<1>6. DeadForgotten'
  BY DEF DeadForgotten
<1>7. QED
  BY <1>2, <1>3, <1>4, <1>5, <1>6

\* A permitted access that changes nothing else but where its thread is.
LEMMA SameRefsPerform ==
    ASSUME IInv, NEW t \in Threads, NEW F, Permitted(t, F), Perform(t, F),
           \A a \in F : a[3] \in live,
           live' = live, cnt' = cnt, old' = old,
           \A h \in Handles : repr'[h].buf = repr[h].buf,
           \A u \in Threads : tmp'[u].buf = tmp[u].buf,
           \A u \in Threads : pc'[u] = "free" <=> pc[u] = "free",
           \A b \in Buffers : \A x \in Refs(b) : Users(x)' = Users(x),
           \A u \in Threads : Relied(u)' # NoBuf => Relied(u)' = Relied(u) /\ Holder(u)' = Holder(u)
    PROVE  /\ NoDangling' /\ RefCount' /\ NoLeak' /\ Alone'
           /\ OwnKnown' /\ OldOneKnown' /\ WritesKnown' /\ AccessesKept' /\ DeadForgotten'
           /\ unk' \in [Threads -> SUBSET Facts] /\ carried' \in [Buffers -> SUBSET Accesses]
<1>1. /\ KnownTo(unk', carried') /\ OwnKnown'
      /\ unk' \in [Threads -> SUBSET Facts] /\ carried' \in [Buffers -> SUBSET Accesses]
  BY PerformKnowledge DEF KnownTo
<1>2. \A u \in Threads : Relied(u) # NoBuf => unk'[u] \cap AccessesAt(Relied(u)) = {}
  BY PerformKnowledge
<1>3. \A b \in Buffers \ live : \A u \in Threads : unk'[u] \cap FactsAt(b) = {}
  BY PerformKnowledge DEF IInv, DeadForgotten
<1>4. \A u \in Threads : Relied(u)' # NoBuf =>
         /\ Refs(Relied(u)') = {Holder(u)'}
         /\ unk'[u] \cap AccessesAt(Relied(u)') = {}
  BY <1>2 DEF IInv, Alone
<1>5. QED
  BY <1>1, <1>3, <1>4, SameRefs

\* A step that leaves knowledge alone, too.
LEMMA SameRefsQuiet ==
    ASSUME IInv, live' = live, cnt' = cnt, old' = old, unk' = unk, carried' = carried,
           \A h \in Handles : repr'[h].buf = repr[h].buf,
           \A u \in Threads : tmp'[u].buf = tmp[u].buf,
           \A u \in Threads : pc'[u] = "free" <=> pc[u] = "free",
           \A b \in Buffers : \A x \in Refs(b) : Users(x)' = Users(x),
           \A u \in Threads : Relied(u)' # NoBuf => Relied(u)' = Relied(u) /\ Holder(u)' = Holder(u)
    PROVE  /\ NoDangling' /\ RefCount' /\ NoLeak' /\ Alone'
           /\ OwnKnown' /\ OldOneKnown' /\ WritesKnown' /\ AccessesKept' /\ DeadForgotten'
<1>1. KnownTo(unk', carried') /\ OwnKnown'
  BY DEF IInv, KnownTo, OwnKnown, OldOneKnown, WritesKnown, AccessesKept
<1>2. \A u \in Threads : Relied(u)' # NoBuf =>
         /\ Refs(Relied(u)') = {Holder(u)'}
         /\ unk'[u] \cap AccessesAt(Relied(u)') = {}
  BY DEF IInv, Alone
<1>3. \A b \in Buffers \ live : \A u \in Threads : unk'[u] \cap FactsAt(b) = {}
  BY DEF IInv, DeadForgotten
<1>4. QED
  BY <1>1, <1>2, <1>3, SameRefs

-----------------------------------------------------------------------------
(* The actions, one by one.                                                *)

\* A new inline or static handle.
LEMMA NewInlineStep ==
    ASSUME IInv, NEW t \in Threads, NEW h \in Handles, NEW v \in Texts, NewInline(t, h, v)
    PROVE  IInv'
<1>0. TypeOK /\ Locals /\ Ownership
  BY DEF IInv
<1>1. TypeOK'
  BY <1>0, ReprType DEF TypeOK, NewInline, memory, locals
<1>2. repr[h].buf = NoBuf /\ repr'[h].buf = NoBuf
  BY <1>0 DEF TypeOK, Ownership, NewInline, OnHeap, NewRepr, InlineRepr
<1>3. /\ \A k \in Handles : repr'[k].buf = repr[k].buf
      /\ \A k \in Handles \ {h} : repr'[k] = repr[k] /\ owner'[k] = owner[k] /\ lent'[k] = lent[k]
  BY <1>0, <1>2 DEF TypeOK, NewInline
<1>4. Locals'
  BY <1>0, <1>3 DEF Locals, NewInline, Holds, MyBuf, AtHeap, locals, Exclusive, Idle
<1>5. Ownership'
  <2>1. owner'[h] = Nobody => repr'[h] = NewRepr /\ lent'[h] = {}
    BY <1>0 DEF TypeOK, NewInline
  <2>2. owner'[h] \notin lent'[h]
    BY <1>0 DEF TypeOK, Ownership, NewInline, Exclusive
  <2>3. QED
    BY <1>0, <1>3, <2>1, <2>2 DEF Ownership
<1>6. \A b \in Buffers : \A x \in Refs(b) : Users(x)' = Users(x)
  BY <1>2, <1>3 DEF Refs, Users, Accessors
<1>7. \A u \in Threads : Relied(u)' # NoBuf => Relied(u)' = Relied(u) /\ Holder(u)' = Holder(u)
  BY <1>0, <1>3 DEF NewInline, Relied, Holder, MyBuf, locals, Locals, Holds, AtHeap, WriteLater
<1>8. QED
  BY <1>0, <1>1, <1>3, <1>4, <1>5, <1>6, <1>7, SameRefsQuiet DEF NewInline, IInv, memory, locals

\* An edit of the two words of a handle without a heap buffer.
LEMMA EditInlineStep ==
    ASSUME IInv, NEW t \in Threads, NEW h \in Handles, NEW v \in Texts, EditInline(t, h, v)
    PROVE  IInv'
<1>0. TypeOK /\ Locals /\ Ownership
  BY DEF IInv
<1>1. TypeOK'
  BY <1>0, ReprType DEF TypeOK, EditInline, memory, locals
<1>2. repr[h].buf = NoBuf /\ repr'[h].buf = NoBuf
  BY <1>0 DEF TypeOK, Ownership, EditInline, OnHeap, NewRepr, InlineRepr
<1>3. /\ \A k \in Handles : repr'[k].buf = repr[k].buf
      /\ \A k \in Handles \ {h} : repr'[k] = repr[k] /\ owner'[k] = owner[k] /\ lent'[k] = lent[k]
  BY <1>0, <1>2 DEF TypeOK, EditInline
<1>4. Locals'
  BY <1>0, <1>3 DEF Locals, EditInline, Holds, MyBuf, AtHeap, locals, Exclusive, Idle
<1>5. Ownership'
  <2>1. owner'[h] = Nobody => repr'[h] = NewRepr /\ lent'[h] = {}
    BY <1>0 DEF TypeOK, EditInline, Exclusive
  <2>2. owner'[h] \notin lent'[h]
    BY <1>0 DEF TypeOK, Ownership, EditInline, Exclusive
  <2>3. QED
    BY <1>0, <1>3, <2>1, <2>2 DEF Ownership
<1>6. \A b \in Buffers : \A x \in Refs(b) : Users(x)' = Users(x)
  BY <1>2, <1>3 DEF Refs, Users, Accessors
<1>7. \A u \in Threads : Relied(u)' # NoBuf => Relied(u)' = Relied(u) /\ Holder(u)' = Holder(u)
  BY <1>0, <1>3 DEF EditInline, Relied, Holder, MyBuf, locals, Locals, Holds, AtHeap, WriteLater
<1>8. QED
  BY <1>0, <1>1, <1>3, <1>4, <1>5, <1>6, <1>7, SameRefsQuiet DEF EditInline, IInv, memory, locals

\* The drop of a handle without a heap buffer.
LEMMA DropInlineStep ==
    ASSUME IInv, NEW t \in Threads, NEW h \in Handles, DropInline(t, h)
    PROVE  IInv'
<1>0. TypeOK /\ Locals /\ Ownership
  BY DEF IInv
<1>1. TypeOK'
  BY <1>0, ReprType DEF TypeOK, DropInline, memory, locals
<1>2. repr[h].buf = NoBuf /\ repr'[h].buf = NoBuf
  BY <1>0 DEF TypeOK, Ownership, DropInline, OnHeap, NewRepr, InlineRepr
<1>3. /\ \A k \in Handles : repr'[k].buf = repr[k].buf
      /\ \A k \in Handles \ {h} : repr'[k] = repr[k] /\ owner'[k] = owner[k] /\ lent'[k] = lent[k]
  BY <1>0, <1>2 DEF TypeOK, DropInline
<1>4. Locals'
  BY <1>0, <1>3 DEF Locals, DropInline, Holds, MyBuf, AtHeap, locals, Exclusive, Idle
<1>5. Ownership'
  <2>1. owner'[h] = Nobody => repr'[h] = NewRepr /\ lent'[h] = {}
    BY <1>0 DEF TypeOK, DropInline, Exclusive
  <2>2. owner'[h] \notin lent'[h]
    BY <1>0 DEF TypeOK, Ownership, DropInline, Exclusive
  <2>3. QED
    BY <1>0, <1>3, <2>1, <2>2 DEF Ownership
<1>6. \A b \in Buffers : \A x \in Refs(b) : Users(x)' = Users(x)
  BY <1>2, <1>3 DEF Refs, Users, Accessors
<1>7. \A u \in Threads : Relied(u)' # NoBuf => Relied(u)' = Relied(u) /\ Holder(u)' = Holder(u)
  BY <1>0, <1>3 DEF DropInline, Relied, Holder, MyBuf, locals, Locals, Holds, AtHeap, WriteLater
<1>8. QED
  BY <1>0, <1>1, <1>3, <1>4, <1>5, <1>6, <1>7, SameRefsQuiet DEF DropInline, IInv, memory, locals

\* A handle moves to another thread.
LEMMA SendStep ==
    ASSUME IInv, NEW t \in Threads, NEW u \in Threads, NEW h \in Handles, Send(t, u, h)
    PROVE  IInv'
<1>0. /\ TypeOK /\ Locals /\ Ownership /\ NoDangling /\ RefCount /\ NoLeak /\ Alone
      /\ OwnKnown /\ OldOneKnown /\ WritesKnown /\ AccessesKept /\ DeadForgotten
  BY DEF IInv
<1>1. TypeOK'
  BY <1>0 DEF TypeOK, Send, HappensBefore, memory, locals, Exclusive
<1>2. Locals'
  BY <1>0 DEF Locals, Send, Holds, MyBuf, AtHeap, locals, Exclusive, Idle, TypeOK
<1>3. Ownership'
  BY <1>0 DEF Ownership, Send, TypeOK, Exclusive
<1>4. /\ \A v \in Threads : unk'[v] \subseteq unk[v]
      /\ UNCHANGED <<repr, memory, locals, carried>>
  BY <1>0 DEF Send, HappensBefore, TypeOK
<1>5. \A b : Refs(b)' = Refs(b)
  BY <1>4, RefsFrame DEF locals
<1>6. NoDangling' /\ RefCount' /\ NoLeak'
  BY <1>0, <1>4, <1>5, CountFrame DEF TypeOK, memory, locals
<1>7. Alone'
  BY <1>0, <1>4, <1>5 DEF Alone, Relied, Holder, MyBuf, locals
<1>8. OwnKnown' /\ DeadForgotten'
  BY <1>0, <1>4 DEF OwnKnown, DeadForgotten, memory
<1>9. /\ \A x : x # h => Users(x)' = Users(x)
      /\ Users(h) = {t} /\ Users(h)' = {u} /\ t # u
  BY <1>0 DEF Users, Accessors, Send, TypeOK, Ownership, Exclusive
<1>10. ASSUME NEW b \in Buffers, NEW a, \E v \in Users(h) : a \notin unk[v]
       PROVE  \E v \in Users(h)' : a \notin unk'[v]
  BY <1>0, <1>9, <1>10 DEF Send, HappensBefore, TypeOK
<1>11. ASSUME NEW b \in Buffers, NEW x \in Refs(b), NEW a, \E v \in Users(x) : a \notin unk[v]
       PROVE  \E v \in Users(x)' : a \notin unk'[v]
  <2>1. CASE x = h
    BY <1>10, <1>11, <2>1
  <2>2. CASE x # h
    <3>1. Users(x) \subseteq Threads
      BY <1>0, RefsFinite DEF Users, Accessors, TypeOK
    <3>2. QED
      BY <1>4, <1>9, <1>11, <2>2, <3>1
  <2>3. QED
    BY <2>1, <2>2
<1>12. OldOneKnown'
  BY <1>0, <1>5, <1>11 DEF OldOneKnown
<1>13. AccessesKept'
  BY <1>0, <1>4, <1>5, <1>11 DEF AccessesKept, TypeOK, memory
<1>14. WritesKnown'
  <2> SUFFICES ASSUME NEW b \in Buffers, NEW x \in Refs(b), NEW v \in Users(x)'
               PROVE  unk'[v] \cap WritesAt(b) = {}
    BY <1>5 DEF WritesKnown
  <2>0. v \in Threads
    BY <1>1, RefsFinite DEF Users, Accessors, TypeOK
  <2>1. CASE v \in Users(x)
    BY <1>0, <1>4, <2>0, <2>1 DEF WritesKnown
  <2>2. CASE v \notin Users(x)
    <3>1. x = h /\ v = u /\ t \in Users(h)
      BY <1>9, <2>2
    <3>2. unk[t] \cap WritesAt(b) = {}
      BY <1>0, <3>1 DEF WritesKnown
    <3>3. QED
      BY <1>0, <3>1, <3>2 DEF Send, HappensBefore, TypeOK
  <2>3. QED
    BY <2>1, <2>2
<1>15. QED
  BY <1>1, <1>2, <1>3, <1>6, <1>7, <1>8, <1>12, <1>13, <1>14 DEF IInv

\* A shared borrow begins.
LEMMA LendStep ==
    ASSUME IInv, NEW t \in Threads, NEW u \in Threads, NEW h \in Handles, Lend(t, u, h)
    PROVE  IInv'
<1>0. /\ TypeOK /\ Locals /\ Ownership /\ NoDangling /\ RefCount /\ NoLeak /\ Alone
      /\ OwnKnown /\ OldOneKnown /\ WritesKnown /\ AccessesKept /\ DeadForgotten
  BY DEF IInv
<1>1. TypeOK'
  BY <1>0 DEF TypeOK, Lend, HappensBefore, memory, locals, Exclusive
<1>2. Locals'
  BY <1>0 DEF Locals, Lend, Holds, MyBuf, AtHeap, locals, Exclusive, Idle, TypeOK
<1>3. Ownership'
  BY <1>0 DEF Ownership, Lend, TypeOK, Exclusive
<1>4. /\ \A v \in Threads : unk'[v] \subseteq unk[v]
      /\ UNCHANGED <<repr, memory, locals, carried>>
  BY <1>0 DEF Lend, HappensBefore, TypeOK
<1>5. \A b : Refs(b)' = Refs(b)
  BY <1>4, RefsFrame DEF locals
<1>6. NoDangling' /\ RefCount' /\ NoLeak'
  BY <1>0, <1>4, <1>5, CountFrame DEF TypeOK, memory, locals
<1>7. Alone'
  BY <1>0, <1>4, <1>5 DEF Alone, Relied, Holder, MyBuf, locals
<1>8. OwnKnown' /\ DeadForgotten'
  BY <1>0, <1>4 DEF OwnKnown, DeadForgotten, memory
<1>9. /\ \A x : x # h => Users(x)' = Users(x)
      /\ t \in Users(h) /\ Users(h)' = Users(h) \cup {u} /\ t # u
  BY <1>0 DEF Users, Accessors, Lend, TypeOK, Ownership, Exclusive
<1>10. ASSUME NEW b \in Buffers, NEW a, \E v \in Users(h) : a \notin unk[v]
       PROVE  \E v \in Users(h)' : a \notin unk'[v]
  BY <1>0, <1>9, <1>10 DEF Lend, HappensBefore, TypeOK
<1>11. ASSUME NEW b \in Buffers, NEW x \in Refs(b), NEW a, \E v \in Users(x) : a \notin unk[v]
       PROVE  \E v \in Users(x)' : a \notin unk'[v]
  <2>1. CASE x = h
    BY <1>10, <1>11, <2>1
  <2>2. CASE x # h
    <3>1. Users(x) \subseteq Threads
      BY <1>0, RefsFinite DEF Users, Accessors, TypeOK
    <3>2. QED
      BY <1>4, <1>9, <1>11, <2>2, <3>1
  <2>3. QED
    BY <2>1, <2>2
<1>12. OldOneKnown'
  BY <1>0, <1>5, <1>11 DEF OldOneKnown
<1>13. AccessesKept'
  BY <1>0, <1>4, <1>5, <1>11 DEF AccessesKept, TypeOK, memory
<1>14. WritesKnown'
  <2> SUFFICES ASSUME NEW b \in Buffers, NEW x \in Refs(b), NEW v \in Users(x)'
               PROVE  unk'[v] \cap WritesAt(b) = {}
    BY <1>5 DEF WritesKnown
  <2>0. v \in Threads
    BY <1>1, RefsFinite DEF Users, Accessors, TypeOK
  <2>1. CASE v \in Users(x)
    BY <1>0, <1>4, <2>0, <2>1 DEF WritesKnown
  <2>2. CASE v \notin Users(x)
    <3>1. x = h /\ v = u /\ t \in Users(h)
      BY <1>9, <2>2
    <3>2. unk[t] \cap WritesAt(b) = {}
      BY <1>0, <3>1 DEF WritesKnown
    <3>3. QED
      BY <1>0, <3>1, <3>2 DEF Lend, HappensBefore, TypeOK
  <2>3. QED
    BY <2>1, <2>2
<1>15. QED
  BY <1>1, <1>2, <1>3, <1>6, <1>7, <1>8, <1>12, <1>13, <1>14 DEF IInv

\* A shared borrow ends.
LEMMA EndLendStep ==
    ASSUME IInv, NEW t \in Threads, NEW u \in Threads, NEW h \in Handles, EndLend(t, u, h)
    PROVE  IInv'
<1>0. /\ TypeOK /\ Locals /\ Ownership /\ NoDangling /\ RefCount /\ NoLeak /\ Alone
      /\ OwnKnown /\ OldOneKnown /\ WritesKnown /\ AccessesKept /\ DeadForgotten
  BY DEF IInv
<1>1. TypeOK'
  BY <1>0 DEF TypeOK, EndLend, HappensBefore, memory, locals, Exclusive
<1>2. Locals'
  BY <1>0 DEF Locals, EndLend, Holds, MyBuf, AtHeap, locals, Exclusive, Idle, TypeOK
<1>3. Ownership'
  BY <1>0 DEF Ownership, EndLend, TypeOK, Exclusive
<1>4. /\ \A v \in Threads : unk'[v] \subseteq unk[v]
      /\ UNCHANGED <<repr, memory, locals, carried>>
  BY <1>0 DEF EndLend, HappensBefore, TypeOK
<1>5. \A b : Refs(b)' = Refs(b)
  BY <1>4, RefsFrame DEF locals
<1>6. NoDangling' /\ RefCount' /\ NoLeak'
  BY <1>0, <1>4, <1>5, CountFrame DEF TypeOK, memory, locals
<1>7. Alone'
  BY <1>0, <1>4, <1>5 DEF Alone, Relied, Holder, MyBuf, locals
<1>8. OwnKnown' /\ DeadForgotten'
  BY <1>0, <1>4 DEF OwnKnown, DeadForgotten, memory
<1>9. /\ \A x : x # h => Users(x)' = Users(x)
      /\ t \in Users(h)' /\ Users(h)' = Users(h) \ {u} /\ t # u
  BY <1>0 DEF Users, Accessors, EndLend, TypeOK, Ownership, Exclusive
<1>10. ASSUME NEW b \in Buffers, NEW a, \E v \in Users(h) : a \notin unk[v]
       PROVE  \E v \in Users(h)' : a \notin unk'[v]
  BY <1>0, <1>9, <1>10 DEF EndLend, HappensBefore, TypeOK
<1>11. ASSUME NEW b \in Buffers, NEW x \in Refs(b), NEW a, \E v \in Users(x) : a \notin unk[v]
       PROVE  \E v \in Users(x)' : a \notin unk'[v]
  <2>1. CASE x = h
    BY <1>10, <1>11, <2>1
  <2>2. CASE x # h
    <3>1. Users(x) \subseteq Threads
      BY <1>0, RefsFinite DEF Users, Accessors, TypeOK
    <3>2. QED
      BY <1>4, <1>9, <1>11, <2>2, <3>1
  <2>3. QED
    BY <2>1, <2>2
<1>12. OldOneKnown'
  BY <1>0, <1>5, <1>11 DEF OldOneKnown
<1>13. AccessesKept'
  BY <1>0, <1>4, <1>5, <1>11 DEF AccessesKept, TypeOK, memory
<1>14. WritesKnown'
  <2> SUFFICES ASSUME NEW b \in Buffers, NEW x \in Refs(b), NEW v \in Users(x)'
               PROVE  unk'[v] \cap WritesAt(b) = {}
    BY <1>5 DEF WritesKnown
  <2>0. v \in Threads
    BY <1>1, RefsFinite DEF Users, Accessors, TypeOK
  <2>1. CASE v \in Users(x)
    BY <1>0, <1>4, <2>0, <2>1 DEF WritesKnown
  <2>2. CASE v \notin Users(x)
    BY <1>9, <2>2
  <2>3. QED
    BY <2>1, <2>2
<1>15. QED
  BY <1>1, <1>2, <1>3, <1>6, <1>7, <1>8, <1>12, <1>13, <1>14 DEF IInv

\* A read through a shared borrow.
LEMMA ReadStep ==
    ASSUME IInv, NEW t \in Threads, NEW h \in Handles, Read(t, h)
    PROVE  IInv'
<1>0. TypeOK /\ Locals /\ Ownership /\ NoDangling
  BY DEF IInv
<1> DEFINE b == repr[h].buf
<1>1. b \in Buffers /\ h \in Refs(b) /\ t \in Users(h)
  BY <1>0 DEF TypeOK, Repr, Read, OnHeap, Refs, Users
<1>2. Permitted(t, {<<"read", t, b>>}) /\ b \in live
  BY <1>0, <1>1 DEF Permitted, NoDangling
<1>3. UNCHANGED <<handles, memory, locals>> /\ Perform(t, {<<"read", t, b>>})
  BY DEF Read
<1>4. /\ NoDangling' /\ RefCount' /\ NoLeak' /\ Alone'
      /\ OwnKnown' /\ OldOneKnown' /\ WritesKnown' /\ AccessesKept' /\ DeadForgotten'
      /\ unk' \in [Threads -> SUBSET Facts] /\ carried' \in [Buffers -> SUBSET Accesses]
  BY <1>2, <1>3, SameRefsPerform
  DEF handles, memory, locals, Users, Accessors, Relied, Holder, MyBuf
<1>5. TypeOK' /\ Locals' /\ Ownership'
  BY <1>0, <1>3, <1>4 DEF TypeOK, Locals, Ownership, handles, memory, locals, Holds, MyBuf
<1>6. QED
  BY <1>4, <1>5 DEF IInv

\* An operation starts and reads length or text.
LEMMA BeginStep ==
    ASSUME IInv, NEW t \in Threads, NEW h \in Handles, NEW o \in Ops, Begin(t, h, o)
    PROVE  IInv'
<1>0. TypeOK /\ Locals /\ Ownership /\ NoDangling
  BY DEF IInv
<1> DEFINE b == repr[h].buf
<1>1. b \in Buffers /\ h \in Refs(b) /\ t \in Users(h)
  BY <1>0 DEF TypeOK, Repr, Begin, Exclusive, Accessors, OnHeap, Refs, Users
<1>2. Permitted(t, {<<"read", t, b>>}) /\ b \in live
  BY <1>0, <1>1 DEF Permitted, NoDangling
<1>3. PICK p \in {"idle", "check", "recheck", "toInline"} :
        /\ Enter(t, o, h, p)
        /\ repr' = [repr EXCEPT ![h] = WithCut(@, @.cut \/ p = "idle")]
  BY DEF Begin, Entry
<1>4. /\ repr'[h] = WithCut(repr[h], repr[h].cut \/ p = "idle")
      /\ \A k \in Handles \ {h} : repr'[k] = repr[k]
      /\ repr' \in [Handles -> Repr]
  BY <1>0, <1>3, ReprType DEF TypeOK, Repr
<1>5. /\ \A k \in Handles : repr'[k].buf = repr[k].buf
  BY <1>4 DEF WithCut
<1>6. UNCHANGED <<owner, lent, memory, tmp, old>> /\ pc[t] = "idle" /\ owner[h] = t /\ lent[h] = {}
  BY DEF Begin, Exclusive, Idle
<1>7. /\ pc'[t] = p /\ (p # "idle" => op'[t] = o /\ arg'[t] = h)
      /\ (p = "idle" => op'[t] = "none")
      /\ \A u \in Threads \ {t} : pc'[u] = pc[u] /\ op'[u] = op[u] /\ arg'[u] = arg[u]
  BY <1>0, <1>3 DEF Enter, TypeOK
<1>8. \A u \in Threads : pc'[u] = "free" <=> pc[u] = "free"
  BY <1>6, <1>7
<1>9. \A x : Users(x)' = Users(x)
  BY <1>6 DEF Users, Accessors
<1>10. \A u \in Threads : Relied(u)' # NoBuf => Relied(u)' = Relied(u) /\ Holder(u)' = Holder(u)
  <2> SUFFICES ASSUME NEW u \in Threads, Relied(u)' # NoBuf
               PROVE  Relied(u)' = Relied(u) /\ Holder(u)' = Holder(u)
    OBVIOUS
  <2>1. u # t
    BY <1>7 DEF Relied
  <2>2. pc[u] \in {"write", "resize", "into"} \/ (pc[u] = "free" /\ op[u] \in WriteLater)
          => arg[u] \in Handles
    BY <1>0 DEF Locals, Holds, AtHeap, WriteLater
  <2>3. QED
    BY <1>5, <1>6, <1>7, <2>1, <2>2 DEF Relied, Holder, MyBuf
<1>11. /\ NoDangling' /\ RefCount' /\ NoLeak' /\ Alone'
       /\ OwnKnown' /\ OldOneKnown' /\ WritesKnown' /\ AccessesKept' /\ DeadForgotten'
       /\ unk' \in [Threads -> SUBSET Facts] /\ carried' \in [Buffers -> SUBSET Accesses]
  <2>1. CASE Perform(t, {<<"read", t, b>>})
    BY <1>2, <1>5, <1>6, <1>8, <1>9, <1>10, <2>1, SameRefsPerform DEF memory
  <2>2. CASE UNCHANGED <<unk, carried>>
    BY <1>0, <1>5, <1>6, <1>8, <1>9, <1>10, <2>2, SameRefsQuiet DEF memory, TypeOK
  <2>3. QED
    BY <2>1, <2>2 DEF Begin
<1>12. TypeOK'
  BY <1>0, <1>3, <1>4, <1>6, <1>11 DEF TypeOK, Enter, memory, PCs, Ops
<1>13. o \notin {"panic", "drop"}
  BY DEF Begin, Reading
<1>14. Locals'
  <2> SUFFICES ASSUME NEW u \in Threads PROVE Locals!(u)'
    BY DEF Locals
  <2>1. CASE u = t
    BY <1>0, <1>1, <1>5, <1>6, <1>7, <1>13, <2>1 DEF Locals, Holds, AtHeap, MyBuf
  <2>2. CASE u # t
    BY <1>0, <1>5, <1>6, <1>7, <2>2 DEF Locals, Holds, AtHeap, MyBuf
  <2>3. QED
    BY <2>1, <2>2
<1>15. Ownership'
  BY <1>0, <1>4, <1>6 DEF Ownership
<1>16. QED
  BY <1>11, <1>12, <1>14, <1>15 DEF IInv

\* A drop starts.
LEMMA DropStep ==
    ASSUME IInv, NEW t \in Threads, NEW h \in Handles, Drop(t, h)
    PROVE  IInv'
<1>0. TypeOK /\ Locals /\ Ownership
  BY DEF IInv
<1>1. /\ UNCHANGED <<handles, memory, tmp, old, unk, carried>>
      /\ pc[t] = "idle" /\ owner[h] = t /\ lent[h] = {} /\ repr[h].buf # NoBuf
  BY DEF Drop, Exclusive, Idle, OnHeap
<1>2. /\ pc'[t] = "release" /\ op'[t] = "drop" /\ arg'[t] = h
      /\ \A u \in Threads \ {t} : pc'[u] = pc[u] /\ op'[u] = op[u] /\ arg'[u] = arg[u]
  BY <1>0 DEF Drop, Enter, TypeOK
<1>3. \A u \in Threads : Relied(u)' # NoBuf => Relied(u)' = Relied(u) /\ Holder(u)' = Holder(u)
  BY <1>1, <1>2 DEF Relied, Holder, MyBuf, handles, WriteLater
<1>4. /\ NoDangling' /\ RefCount' /\ NoLeak' /\ Alone'
      /\ OwnKnown' /\ OldOneKnown' /\ WritesKnown' /\ AccessesKept' /\ DeadForgotten'
  BY <1>1, <1>2, <1>3, SameRefsQuiet DEF handles, memory, Users, Accessors
<1>5. TypeOK'
  BY <1>0, <1>1 DEF TypeOK, Drop, Enter, handles, memory, PCs, Ops
<1>6. Locals'
  BY <1>0, <1>1, <1>2 DEF Locals, Holds, AtHeap, MyBuf, handles
<1>7. Ownership'
  BY <1>0, <1>1 DEF Ownership, handles
<1>8. QED
  BY <1>4, <1>5, <1>6, <1>7 DEF IInv

\* The allocation of a copy fails.
LEMMA CopyFailsStep ==
    ASSUME IInv, NEW t \in Threads, CopyFails(t)
    PROVE  IInv'
<1>0. TypeOK /\ Locals /\ Ownership
  BY DEF IInv
<1>1. /\ UNCHANGED <<handles, memory, tmp, old, unk, carried>>
      /\ pc[t] = "toHeap"
  BY DEF CopyFails
<1>2. /\ \/ pc'[t] = "release" /\ op'[t] = "drop" /\ arg'[t] = arg[t]
         \/ pc'[t] = "idle" /\ op'[t] = "none"
      /\ \A u \in Threads \ {t} : pc'[u] = pc[u] /\ op'[u] = op[u] /\ arg'[u] = arg[u]
  BY <1>0 DEF CopyFails, Goto, Enter, TypeOK
<1>3. \A u \in Threads : Relied(u)' # NoBuf => Relied(u)' = Relied(u) /\ Holder(u)' = Holder(u)
  BY <1>1, <1>2 DEF Relied, Holder, MyBuf, handles, WriteLater
<1>4. /\ NoDangling' /\ RefCount' /\ NoLeak' /\ Alone'
      /\ OwnKnown' /\ OldOneKnown' /\ WritesKnown' /\ AccessesKept' /\ DeadForgotten'
  BY <1>1, <1>2, <1>3, SameRefsQuiet DEF handles, memory, Users, Accessors
<1>5. TypeOK'
  BY <1>0, <1>1 DEF TypeOK, CopyFails, Goto, Enter, handles, memory, PCs, Ops
<1>6. Locals'
  BY <1>0, <1>1, <1>2 DEF Locals, Holds, AtHeap, MyBuf, handles
<1>7. Ownership'
  BY <1>0, <1>1 DEF Ownership, handles
<1>8. QED
  BY <1>4, <1>5, <1>6, <1>7 DEF IInv

\* A thread inside an operation that still has its heap buffer can use it.
LEMMA UsesOwnBuffer ==
    ASSUME IInv, NEW t \in Threads,
           pc[t] \in AtHeap \/ (pc[t] = "write" /\ MyBuf(t) # NoBuf)
             \/ (pc[t] = "release" /\ op[t] # "panic")
    PROVE  /\ arg[t] \in Handles /\ owner[arg[t]] = t /\ lent[arg[t]] = {}
           /\ MyBuf(t) \in Buffers /\ MyBuf(t) \in live /\ MyBuf(t) # NoBuf
           /\ arg[t] \in Refs(MyBuf(t))
           /\ Users(arg[t]) = {t}
<1>0. TypeOK /\ Locals /\ NoDangling
  BY DEF IInv
<1>1. arg[t] \in Handles /\ owner[arg[t]] = t /\ lent[arg[t]] = {} /\ MyBuf(t) # NoBuf
  BY <1>0 DEF Locals, Holds, AtHeap
<1>2. MyBuf(t) \in Buffers
  BY <1>0, <1>1 DEF TypeOK, MyBuf, Repr
<1>3. arg[t] \in Refs(MyBuf(t))
  BY <1>1 DEF Refs, MyBuf
<1>4. Users(arg[t]) = {t}
  BY <1>1 DEF Users, Accessors
<1>5. QED
  BY <1>0, <1>1, <1>2, <1>3, <1>4 DEF NoDangling

\* A copy into the two words of a handle.
LEMMA CopyInlineStep ==
    ASSUME IInv, NEW t \in Threads, CopyInline(t)
    PROVE  IInv'
<1>0. TypeOK /\ Locals /\ Ownership
  BY DEF IInv
<1> DEFINE b == MyBuf(t)
<1>1. /\ arg[t] \in Handles /\ owner[arg[t]] = t /\ lent[arg[t]] = {}
      /\ b \in Buffers /\ b \in live /\ b # NoBuf /\ arg[t] \in Refs(b) /\ Users(arg[t]) = {t}
  BY UsesOwnBuffer DEF CopyInline, AtHeap
<1>2. Permitted(t, {<<"read", t, b>>})
  BY <1>1 DEF Permitted
<1>3. /\ UNCHANGED <<handles, memory, old>> /\ pc[t] = "toInline"
      /\ Perform(t, {<<"read", t, b>>})
  BY DEF CopyInline
<1>4. PICK v \in Texts : tmp' = [tmp EXCEPT ![t] = InlineRepr(v)]
  <2>1. Copied(t) \subseteq Texts
    BY <1>0, <1>1, TextType DEF Copied, TypeOK
  <2>2. QED
    BY <2>1 DEF CopyInline
<1>5. /\ tmp'[t] = InlineRepr(v) /\ \A u \in Threads \ {t} : tmp'[u] = tmp[u]
      /\ tmp' \in [Threads -> Repr]
  BY <1>0, <1>4, ReprType DEF TypeOK
<1>6. \A u \in Threads : tmp'[u].buf = tmp[u].buf
  BY <1>0, <1>3, <1>5 DEF Locals, InlineRepr, NewRepr
<1>7. /\ pc'[t] = "release" /\ op'[t] = op[t] /\ arg'[t] = arg[t]
      /\ \A u \in Threads \ {t} : pc'[u] = pc[u] /\ op'[u] = op[u] /\ arg'[u] = arg[u]
  BY <1>0 DEF CopyInline, Goto, Enter, TypeOK
<1>8. \A u \in Threads : Relied(u)' # NoBuf => Relied(u)' = Relied(u) /\ Holder(u)' = Holder(u)
  <2>1. ~(Relied(t)' # NoBuf)
    BY <1>5, <1>7 DEF Relied, InlineRepr
  <2>2. QED
    BY <1>3, <1>5, <1>7, <2>1 DEF Relied, Holder, MyBuf, handles
<1>9. /\ NoDangling' /\ RefCount' /\ NoLeak' /\ Alone'
      /\ OwnKnown' /\ OldOneKnown' /\ WritesKnown' /\ AccessesKept' /\ DeadForgotten'
      /\ unk' \in [Threads -> SUBSET Facts] /\ carried' \in [Buffers -> SUBSET Accesses]
  <2>1. \A u \in Threads : pc'[u] = "free" <=> pc[u] = "free"
    BY <1>3, <1>7
  <2>2. \A x : Users(x)' = Users(x)
    BY <1>3 DEF handles, Users, Accessors
  <2>3. QED
    BY <1>1, <1>2, <1>3, <1>6, <1>8, <2>1, <2>2, SameRefsPerform DEF handles, memory
<1>10. TypeOK'
  BY <1>0, <1>3, <1>5, <1>9 DEF TypeOK, CopyInline, Goto, Enter, handles, memory, PCs, Ops
<1>11. op[t] # "drop" /\ op[t] # "panic"
  BY <1>0, <1>3 DEF Locals
<1>12. Locals'
  <2> SUFFICES ASSUME NEW u \in Threads PROVE Locals!(u)'
    BY DEF Locals
  <2>1. CASE u = t
    BY <1>0, <1>1, <1>3, <1>5, <1>7, <1>11, <2>1 DEF Locals, Holds, AtHeap, MyBuf, handles
  <2>2. CASE u # t
    BY <1>0, <1>3, <1>5, <1>7, <2>2 DEF Locals, Holds, AtHeap, MyBuf, handles
  <2>3. QED
    BY <2>1, <2>2
<1>13. Ownership'
  BY <1>0, <1>3 DEF Ownership, handles
<1>14. QED
  BY <1>9, <1>10, <1>12, <1>13 DEF IInv

\* The load of is_unique by an exclusive owner: if it says so, nobody else refers to
\* the buffer and the thread knows of every access to it.
LEMMA LoadKnowledge ==
    ASSUME IInv, NEW t \in Threads, pc[t] \in {"check", "recheck"},
           NEW unique \in BOOLEAN, Load(t, MyBuf(t), unique)
    PROVE  /\ unique => /\ Refs(MyBuf(t)) = {arg[t]}
                        /\ unk'[t] \cap AccessesAt(MyBuf(t)) = {}
           /\ unk' \in [Threads -> SUBSET Facts] /\ carried' = carried
           /\ \A u \in Threads : unk'[u] \subseteq unk[u]
           /\ KnownTo(unk', carried') /\ OwnKnown'
           /\ \A b \in Buffers \ live : \A u \in Threads : unk'[u] \cap FactsAt(b) = {}
<1>0. /\ TypeOK /\ RefCount /\ OwnKnown /\ OldOneKnown /\ WritesKnown /\ AccessesKept
      /\ DeadForgotten
  BY DEF IInv
<1> DEFINE b == MyBuf(t)
<1>1. b \in Buffers /\ b \in live /\ arg[t] \in Refs(b) /\ Users(arg[t]) = {t}
  BY UsesOwnBuffer DEF AtHeap
<1>2. /\ unk' \in [Threads -> SUBSET Facts] /\ carried' = carried
      /\ \A u \in Threads : unk'[u] \subseteq unk[u]
  BY <1>0 DEF Load, Acquired, TypeOK
<1>3. ASSUME unique
      PROVE  Refs(b) = {arg[t]} /\ unk'[t] \cap AccessesAt(b) = {}
  <2>1. <<"one", Nobody, b>> \notin unk[t]
    BY <1>0, <1>1 DEF OldOneKnown
  <2>2. cnt[b] = 1 /\ unk' = [unk EXCEPT ![t] = Acquired(t, b)]
    BY <1>3, <2>1 DEF Load
  <2>3. Refs(b) = {arg[t]}
    BY <1>0, <1>1, <2>2, SoleReference
  <2>4. ASSUME NEW a \in AccessesAt(b), a \in unk'[t] PROVE FALSE
    <3>1. a \in unk[t] /\ a \notin carried[b]
      BY <1>0, <2>2, <2>4 DEF Acquired, TypeOK
    <3>2. QED
      BY <1>0, <1>1, <2>3, <3>1 DEF AccessesKept
  <2>5. QED
    BY <2>3, <2>4
<1>4. KnownTo(unk', carried')
  <2>1. \A c \in Buffers : \A x \in Refs(c) : Users(x) \subseteq Threads
    BY <1>0, RefsFinite DEF Users, Accessors, TypeOK
  <2>2. QED
    BY <1>0, <1>2, <2>1 DEF KnownTo, OldOneKnown, WritesKnown, AccessesKept, TypeOK
<1>5. OwnKnown' /\ \A c \in Buffers \ live : \A u \in Threads : unk'[u] \cap FactsAt(c) = {}
  BY <1>0, <1>2 DEF OwnKnown, DeadForgotten
<1>6. QED
  BY <1>2, <1>3, <1>4, <1>5

\* The first look at the count, and what follows from it.
LEMMA CheckStep ==
    ASSUME IInv, NEW t \in Threads, Check(t)
    PROVE  IInv'
<1>0. TypeOK /\ Locals /\ Ownership /\ Alone
  BY DEF IInv
<1> DEFINE b == MyBuf(t)
<1>1. /\ arg[t] \in Handles /\ owner[arg[t]] = t /\ lent[arg[t]] = {}
      /\ b \in Buffers /\ b # NoBuf /\ pc[t] = "check"
  BY UsesOwnBuffer DEF Check, AtHeap
<1>2a. PICK unique \in BOOLEAN : \E p \in AfterCheck(op[t], unique) :
        /\ Load(t, b, unique)
        /\ Enter(t, OpAfterCheck(op[t], unique), arg[t], p)
        /\ repr' = [repr EXCEPT ![arg[t]] = WithCut(@, @.cut \/ (op[t] = "clear" /\ unique))]
  BY DEF Check
<1>2. PICK p \in AfterCheck(op[t], unique) :
        /\ Load(t, b, unique)
        /\ Enter(t, OpAfterCheck(op[t], unique), arg[t], p)
        /\ repr' = [repr EXCEPT ![arg[t]] = WithCut(@, @.cut \/ (op[t] = "clear" /\ unique))]
  BY <1>2a
<1>3. UNCHANGED <<owner, lent, memory, tmp, old>>
  BY DEF Check
<1> DEFINE o == OpAfterCheck(op[t], unique)
<1>4. /\ p \in {"idle", "recheck", "write", "into", "toInline", "toHeap", "share", "release"}
      /\ p \in {"write", "into"} => unique
      /\ p = "share" \/ p = "release" => o \notin WriteLater
      /\ o \in Ops \ {"panic", "drop"}
  BY DEF AfterCheck, OpAfterCheck, WriteLater, Ops
<1>5. /\ pc'[t] = p /\ op'[t] = (IF p = "idle" THEN "none" ELSE o)
      /\ arg'[t] = (IF p = "idle" THEN Nobody ELSE arg[t])
      /\ \A u \in Threads \ {t} : pc'[u] = pc[u] /\ op'[u] = op[u] /\ arg'[u] = arg[u]
  BY <1>0, <1>2 DEF Enter, TypeOK
<1>6. /\ \A h \in Handles \ {arg[t]} : repr'[h] = repr[h]
      /\ repr' \in [Handles -> Repr]
      /\ repr'[arg[t]].buf = b
  <2>1. repr[arg[t]].cut \in BOOLEAN /\ repr[arg[t]] \in Repr
    BY <1>0, <1>1 DEF TypeOK, Repr
  <2>2. WithCut(repr[arg[t]], repr[arg[t]].cut \/ (op[t] = "clear" /\ unique)) \in Repr
    BY <2>1, ReprType
  <2>3. QED
    BY <1>0, <1>1, <1>2, <2>2 DEF TypeOK, WithCut, MyBuf
<1>7. \A h \in Handles : repr'[h].buf = repr[h].buf
  BY <1>6 DEF MyBuf
<1>8. /\ unique => Refs(b) = {arg[t]} /\ unk'[t] \cap AccessesAt(b) = {}
      /\ unk' \in [Threads -> SUBSET Facts] /\ carried' = carried
      /\ \A u \in Threads : unk'[u] \subseteq unk[u]
      /\ KnownTo(unk', carried') /\ OwnKnown'
      /\ \A c \in Buffers \ live : \A u \in Threads : unk'[u] \cap FactsAt(c) = {}
  BY <1>1, <1>2, LoadKnowledge
<1>9. ASSUME NEW u \in Threads, Relied(u)' # NoBuf
      PROVE  Refs(Relied(u)') = {Holder(u)'} /\ unk'[u] \cap AccessesAt(Relied(u)') = {}
  <2>1. CASE u = t
    <3>1. p \in {"write", "into"}
      BY <1>4, <1>5, <1>9, <2>1 DEF Relied
    <3>2. Relied(t)' = b /\ Holder(t)' = arg[t]
      BY <1>5, <1>6, <3>1 DEF Relied, Holder, MyBuf
    <3>3. QED
      BY <1>4, <1>8, <2>1, <3>1, <3>2
  <2>2. CASE u # t
    <3>1. pc[u] \in {"write", "resize", "into"} \/ (pc[u] = "free" /\ op[u] \in WriteLater)
            => arg[u] \in Handles
      BY <1>0 DEF Locals, Holds, AtHeap, WriteLater
    <3>2. Relied(u)' = Relied(u) /\ Holder(u)' = Holder(u)
      BY <1>3, <1>5, <1>7, <2>2, <3>1 DEF Relied, Holder, MyBuf
    <3>3. QED
      BY <1>0, <1>8, <1>9, <3>2 DEF Alone
  <2>3. QED
    BY <2>1, <2>2
<1>10. /\ NoDangling' /\ RefCount' /\ NoLeak' /\ Alone'
       /\ OldOneKnown' /\ WritesKnown' /\ AccessesKept' /\ DeadForgotten'
  <2>1. \A u \in Threads : pc'[u] = "free" <=> pc[u] = "free"
    BY <1>1, <1>4, <1>5
  <2>2. \A x : Users(x)' = Users(x)
    BY <1>3 DEF Users, Accessors
  <2>3. QED
    BY <1>3, <1>7, <1>8, <1>9, <2>1, <2>2, SameRefs DEF memory
<1>11. TypeOK'
  BY <1>0, <1>2, <1>3, <1>4, <1>6, <1>8 DEF TypeOK, Enter, memory, PCs, Ops
<1>12. Locals'
  <2> SUFFICES ASSUME NEW u \in Threads PROVE Locals!(u)'
    BY DEF Locals
  <2>1. CASE u = t
    BY <1>0, <1>1, <1>3, <1>4, <1>5, <1>6, <2>1 DEF Locals, Holds, AtHeap, MyBuf
  <2>2. CASE u # t
    BY <1>0, <1>3, <1>5, <1>7, <2>2 DEF Locals, Holds, AtHeap, MyBuf
  <2>3. QED
    BY <2>1, <2>2
<1>13. Ownership'
  BY <1>0, <1>1, <1>3, <1>6 DEF Ownership
<1>14. QED
  BY <1>8, <1>10, <1>11, <1>12, <1>13 DEF IInv

\* The second look at the count, in reallocate.
LEMMA RecheckStep ==
    ASSUME IInv, NEW t \in Threads, Recheck(t)
    PROVE  IInv'
<1>0. TypeOK /\ Locals /\ Ownership /\ Alone
  BY DEF IInv
<1> DEFINE b == MyBuf(t)
<1>1. /\ arg[t] \in Handles /\ owner[arg[t]] = t /\ lent[arg[t]] = {}
      /\ b \in Buffers /\ b # NoBuf /\ pc[t] = "recheck"
  BY UsesOwnBuffer DEF Recheck, AtHeap
<1>2. PICK unique \in BOOLEAN :
        Load(t, b, unique) /\ Goto(t, IF unique THEN "resize" ELSE "toHeap")
  BY DEF Recheck
<1>3. UNCHANGED <<handles, memory, tmp, old>>
  BY DEF Recheck
<1>4. /\ pc'[t] = (IF unique THEN "resize" ELSE "toHeap") /\ op'[t] = op[t] /\ arg'[t] = arg[t]
      /\ \A u \in Threads \ {t} : pc'[u] = pc[u] /\ op'[u] = op[u] /\ arg'[u] = arg[u]
  BY <1>0, <1>2 DEF Goto, Enter, TypeOK
<1>5. /\ unique => Refs(b) = {arg[t]} /\ unk'[t] \cap AccessesAt(b) = {}
      /\ unk' \in [Threads -> SUBSET Facts] /\ carried' = carried
      /\ \A u \in Threads : unk'[u] \subseteq unk[u]
      /\ KnownTo(unk', carried') /\ OwnKnown'
      /\ \A c \in Buffers \ live : \A u \in Threads : unk'[u] \cap FactsAt(c) = {}
  BY <1>1, <1>2, LoadKnowledge
<1>6. ASSUME NEW u \in Threads, Relied(u)' # NoBuf
      PROVE  Refs(Relied(u)') = {Holder(u)'} /\ unk'[u] \cap AccessesAt(Relied(u)') = {}
  <2>1. CASE u = t
    BY <1>3, <1>4, <1>5, <1>6, <2>1 DEF Relied, Holder, MyBuf, handles
  <2>2. CASE u # t
    BY <1>0, <1>3, <1>4, <1>5, <1>6, <2>2 DEF Relied, Holder, MyBuf, handles, Alone
  <2>3. QED
    BY <2>1, <2>2
<1>7. /\ NoDangling' /\ RefCount' /\ NoLeak' /\ Alone'
      /\ OldOneKnown' /\ WritesKnown' /\ AccessesKept' /\ DeadForgotten'
  <2>1. \A u \in Threads : pc'[u] = "free" <=> pc[u] = "free"
    BY <1>1, <1>4
  <2>2. \A x : Users(x)' = Users(x)
    BY <1>3 DEF Users, Accessors, handles
  <2>3. QED
    BY <1>3, <1>5, <1>6, <2>1, <2>2, SameRefs DEF memory, handles
<1>8. TypeOK'
  BY <1>0, <1>2, <1>3, <1>5 DEF TypeOK, Goto, Enter, memory, handles, PCs, Ops
<1>9. Locals'
  BY <1>0, <1>1, <1>3, <1>4 DEF Locals, Holds, AtHeap, MyBuf, handles
<1>10. Ownership'
  BY <1>0, <1>3 DEF Ownership, handles
<1>11. QED
  BY <1>5, <1>7, <1>8, <1>9, <1>10 DEF IInv

\* The in-place write.
LEMMA WriteStep ==
    ASSUME IInv, NEW t \in Threads, Write(t)
    PROVE  IInv'
<1>0. TypeOK /\ Locals /\ Ownership /\ Alone
  BY DEF IInv
<1> DEFINE b == MyBuf(t)
<1>1. arg[t] \in Handles /\ owner[arg[t]] = t /\ lent[arg[t]] = {} /\ pc[t] = "write"
  BY <1>0 DEF Write, Locals, Holds
<1>2. UNCHANGED <<owner, lent, live, cnt, tmp, old>>
  BY DEF Write
<1>3. /\ pc'[t] = "idle" /\ op'[t] = "none"
      /\ \A u \in Threads \ {t} : pc'[u] = pc[u] /\ op'[u] = op[u] /\ arg'[u] = arg[u]
  BY <1>0 DEF Write, Goto, Enter, TypeOK
<1>4. PICK r \in Repr : repr' = [repr EXCEPT ![arg[t]] = r] /\ r.buf = b
  <2>0. repr[arg[t]] \in Repr
    BY <1>0, <1>1 DEF TypeOK
  <2>1. CASE b = NoBuf
    BY <2>1, ReprType DEF Write, InlineRepr
  <2>2. CASE b # NoBuf
    <3>1. PICK c \in BOOLEAN : repr' = [repr EXCEPT ![arg[t]] = WithCut(@, c)]
      BY <2>2 DEF Write
    <3>2. WithCut(repr[arg[t]], c) \in Repr /\ WithCut(repr[arg[t]], c).buf = b
      BY <2>0, ReprType DEF WithCut, MyBuf
    <3>3. QED
      BY <3>1, <3>2
  <2>3. QED
    BY <2>1, <2>2
<1>5. /\ \A h \in Handles \ {arg[t]} : repr'[h] = repr[h]
      /\ repr' \in [Handles -> Repr]
      /\ \A h \in Handles : repr'[h].buf = repr[h].buf
  BY <1>0, <1>1, <1>4 DEF TypeOK, MyBuf
<1>6. \A u \in Threads : Relied(u)' # NoBuf => Relied(u)' = Relied(u) /\ Holder(u)' = Holder(u)
  <2> SUFFICES ASSUME NEW u \in Threads, Relied(u)' # NoBuf
               PROVE  Relied(u)' = Relied(u) /\ Holder(u)' = Holder(u)
    OBVIOUS
  <2>1. u # t
    BY <1>3 DEF Relied
  <2>2. pc[u] \in {"write", "resize", "into"} \/ (pc[u] = "free" /\ op[u] \in WriteLater)
          => arg[u] \in Handles
    BY <1>0 DEF Locals, Holds, AtHeap, WriteLater
  <2>3. QED
    BY <1>2, <1>3, <1>5, <2>1, <2>2 DEF Relied, Holder, MyBuf
<1>7. /\ NoDangling' /\ RefCount' /\ NoLeak' /\ Alone'
      /\ OwnKnown' /\ OldOneKnown' /\ WritesKnown' /\ AccessesKept' /\ DeadForgotten'
      /\ unk' \in [Threads -> SUBSET Facts] /\ carried' \in [Buffers -> SUBSET Accesses]
  <2>1. \A u \in Threads : pc'[u] = "free" <=> pc[u] = "free"
    BY <1>1, <1>3
  <2>2. \A x : Users(x)' = Users(x)
    BY <1>2 DEF Users, Accessors
  <2>3. CASE b = NoBuf
    BY <1>0, <1>2, <1>5, <1>6, <2>1, <2>2, <2>3, SameRefsQuiet DEF Write, TypeOK
  <2>4. CASE b # NoBuf
    <3>1. b \in Buffers /\ b \in live /\ arg[t] \in Refs(b) /\ Users(arg[t]) = {t}
      BY <1>1, <2>4, UsesOwnBuffer
    <3>2. Refs(b) = {arg[t]}
      BY <1>0, <1>1, <2>4 DEF Alone, Relied, Holder
    <3>3. Permitted(t, {<<"write", t, b>>})
      BY <3>1, <3>2 DEF Permitted
    <3>4. Perform(t, {<<"write", t, b>>})
      BY <2>4 DEF Write
    <3>5. QED
      BY <1>2, <1>5, <1>6, <2>1, <2>2, <3>1, <3>3, <3>4, SameRefsPerform
  <2>5. QED
    BY <2>3, <2>4
<1>8. TypeOK'
  <2>1. data' \in [Buffers -> Texts]
    BY <1>0 DEF Write, TypeOK
  <2>2. pc' \in [Threads -> PCs] /\ op' \in [Threads -> Ops] /\ arg' \in [Threads -> Handles \cup {Nobody}]
    BY <1>0 DEF Write, Goto, Enter, TypeOK, PCs, Ops
  <2>3. QED
    BY <1>0, <1>2, <1>5, <1>7, <2>1, <2>2 DEF TypeOK
<1>9. Locals'
  <2> SUFFICES ASSUME NEW u \in Threads PROVE Locals!(u)'
    BY DEF Locals
  <2>1. CASE u = t
    BY <1>0, <1>1, <1>2, <1>3, <2>1 DEF Locals, Holds, AtHeap
  <2>2. CASE u # t
    BY <1>0, <1>2, <1>3, <1>5, <2>2 DEF Locals, Holds, AtHeap, MyBuf
  <2>3. QED
    BY <2>1, <2>2
<1>10. Ownership'
  BY <1>0, <1>1, <1>2, <1>5 DEF Ownership
<1>11. QED
  BY <1>7, <1>8, <1>9, <1>10 DEF IInv


\* Raising the count of a buffer for a new reference x that only t can use.
LEMMA AddReference ==
    ASSUME IInv, NEW t \in Threads, NEW b \in Buffers, NEW y \in Refs(b), t \in Users(y),
           FetchAdd(t, b), live' = live, old' = old,
           NEW x, x \notin Refs(b), Users(x)' = {t},
           Refs(b)' = Refs(b) \cup {x},
           \A c \in Buffers \ {b} : Refs(c)' = Refs(c),
           \A u \in Threads : pc'[u] = "free" <=> pc[u] = "free",
           \A c \in Buffers : \A z \in Refs(c) : Users(z)' = Users(z),
           Relied(t)' = NoBuf,
           \A u \in Threads \ {t} : Relied(u)' # NoBuf => Relied(u)' = Relied(u) /\ Holder(u)' = Holder(u)
    PROVE  /\ NoDangling' /\ RefCount' /\ NoLeak' /\ Alone'
           /\ OwnKnown' /\ OldOneKnown' /\ WritesKnown' /\ AccessesKept' /\ DeadForgotten'
           /\ unk' \in [Threads -> SUBSET Facts] /\ carried' \in [Buffers -> SUBSET Accesses]
           /\ cnt' \in [Buffers -> Nat]
<1>0. /\ TypeOK /\ Locals /\ NoDangling /\ RefCount /\ NoLeak /\ Alone
      /\ WritesKnown /\ AccessesKept
  BY DEF IInv
<1>1. b \in live /\ cnt[b] \in Nat /\ cnt[b] >= 1 /\ cnt[b] + 1 \in Nat
  BY <1>0, Referenced
<1>2. FetchModify(t, b, cnt[b] + 1, FALSE)
  BY DEF FetchAdd
<1>3. /\ unk' \in [Threads -> SUBSET Facts]
      /\ carried' \in [Buffers -> SUBSET Accesses]
      /\ cnt' = [cnt EXCEPT ![b] = cnt[b] + 1]
      /\ OwnKnown'
      /\ <<"one", Nobody, b>> \notin unk'[t]
      /\ \A c \in Buffers : \A z \in Refs(c) :
            \E u \in Users(z) : <<"one", Nobody, c>> \notin unk'[u]
      /\ \A u \in Threads : \A a \in Accesses : a \in unk'[u] <=> a \in unk[u]
      /\ \A c \in Buffers : carried[c] \subseteq carried'[c]
      /\ \A c \in Buffers \ live : \A u \in Threads : unk'[u] \cap FactsAt(c) = {}
  <2>1. PICK n \in Nat, r \in BOOLEAN : n = cnt[b] + 1 /\ FetchModify(t, b, n, r)
    BY <1>1, <1>2, Zenon
  <2>2. QED
    BY <2>1, FetchKnowledge
<1>4. cnt' \in [Buffers -> Nat] /\ cnt'[b] = cnt[b] + 1 /\ \A c \in Buffers \ {b} : cnt'[c] = cnt[c]
  BY <1>0, <1>1, <1>3 DEF TypeOK
<1>5. NoDangling'
  BY <1>0, <1>1 DEF NoDangling, Locals
<1>6. RefCount'
  <2> SUFFICES ASSUME NEW c \in live PROVE cnt'[c] = Cardinality(Refs(c)')
    BY DEF RefCount
  <2>0. c \in Buffers /\ cnt[c] = Cardinality(Refs(c))
    BY <1>0 DEF TypeOK, RefCount
  <2>1. CASE c = b
    <3>1. Cardinality(Refs(b) \cup {x}) = Cardinality(Refs(b)) + 1
      BY RefsFinite, FS_AddElement
    <3>2. QED
      BY <1>4, <2>0, <2>1, <3>1
  <2>2. CASE c # b
    BY <1>4, <2>0, <2>2
  <2>3. QED
    BY <2>1, <2>2
<1>7. NoLeak'
  BY <1>0 DEF NoLeak, TypeOK
<1>8. Alone'
  <2> SUFFICES ASSUME NEW u \in Threads, Relied(u)' # NoBuf
               PROVE  Refs(Relied(u))' = {Holder(u)'} /\ unk'[u] \cap AccessesAt(Relied(u)') = {}
    BY DEF Alone
  <2>1. u # t /\ Relied(u)' = Relied(u) /\ Holder(u)' = Holder(u)
    OBVIOUS
  <2>2. Relied(u) # b
    BY <1>0, <2>1, NotRelied
  <2>3. Relied(u) \in Buffers
    BY <1>0, <2>1, ReliedType
  <2>4. Refs(Relied(u)) = {Holder(u)} /\ unk[u] \cap AccessesAt(Relied(u)) = {}
    BY <1>0, <2>1 DEF Alone
  <2>5. Refs(Relied(u))' = Refs(Relied(u))
    BY <2>1, <2>2, <2>3
  <2>6. AccessesAt(Relied(u)) \subseteq Accesses
    BY <2>3, FactType
  <2>7. QED
    BY <1>3, <2>1, <2>4, <2>5, <2>6
<1>9. OldOneKnown'
  <2> SUFFICES ASSUME NEW c \in Buffers, NEW z \in Refs(c)'
               PROVE  \E u \in Users(z)' : <<"one", Nobody, c>> \notin unk'[u]
    BY DEF OldOneKnown
  <2>1. CASE z \in Refs(c)
    BY <1>3, <2>1
  <2>2. CASE z \notin Refs(c)
    BY <1>3, <2>2
  <2>3. QED
    BY <2>1, <2>2
<1>10. WritesKnown'
  <2> SUFFICES ASSUME NEW c \in Buffers, NEW z \in Refs(c)', NEW u \in Users(z)'
               PROVE  unk'[u] \cap WritesAt(c) = {}
    BY DEF WritesKnown
  <2>0. WritesAt(c) \subseteq Accesses
    BY DEF WritesAt, Accesses
  <2>1. \A w \in Refs(c) : Users(w) \subseteq Threads
    BY <1>0, RefsFinite DEF Users, Accessors, TypeOK
  <2>2. CASE z \in Refs(c)
    BY <1>0, <1>3, <2>0, <2>1, <2>2 DEF WritesKnown
  <2>3. CASE z \notin Refs(c)
    <3>1. c = b /\ u = t
      BY <2>3
    <3>2. unk[t] \cap WritesAt(b) = {}
      BY <1>0 DEF WritesKnown
    <3>3. QED
      BY <1>3, <2>0, <3>1, <3>2
  <2>4. QED
    BY <2>2, <2>3
<1>11. AccessesKept'
  <2> SUFFICES ASSUME NEW c \in live, NEW a \in AccessesAt(c)
               PROVE  a \in carried'[c] \/ \E z \in Refs(c)' : \E u \in Users(z)' : a \notin unk'[u]
    BY DEF AccessesKept
  <2>0. c \in Buffers /\ a \in Accesses /\ Refs(c) \subseteq Refs(c)'
    BY <1>0, FactType DEF TypeOK
  <2>1. \A w \in Refs(c) : Users(w) \subseteq Threads
    BY <1>0, RefsFinite DEF Users, Accessors, TypeOK
  <2>2. a \in carried[c] \/ \E z \in Refs(c) : \E u \in Users(z) : a \notin unk[u]
    BY <1>0 DEF AccessesKept
  <2>3. QED
    BY <1>3, <2>0, <2>1, <2>2
<1>12. DeadForgotten'
  BY <1>3 DEF DeadForgotten
<1>13. QED
  BY <1>3, <1>4, <1>5, <1>6, <1>7, <1>8, <1>9, <1>10, <1>11, <1>12

\* make_shallow_clone into a local variable, by a thread that can use the buffer.
LEMMA ShallowCloneStep ==
    ASSUME IInv, NEW t \in Threads, NEW h \in Handles, NEW r \in Repr, NEW o \in Ops,
           r.buf # NoBuf, NEW y \in Refs(r.buf), t \in Users(y),
           pc[t] \in {"idle", "share"},
           o \notin WriteLater \cup {"drop"},
           o # "panic" => owner[h] = t /\ lent[h] = {} /\ repr[h].buf # NoBuf,
           ShallowClone(t, h, r, o)
    PROVE  IInv'
<1>0. TypeOK /\ Locals /\ Ownership /\ NoDangling
  BY DEF IInv
<1> DEFINE b == r.buf
           q == IF RefCountOverflows(b) THEN "panic" ELSE o
<1>1. b \in Buffers
  BY DEF Repr
<1>2. /\ FetchAdd(t, b) /\ tmp' = [tmp EXCEPT ![t] = r]
      /\ Enter(t, q, h, "release") /\ UNCHANGED <<handles, live, data, old>>
  BY DEF ShallowClone
<1>3. q \in Ops \ (WriteLater \cup {"drop"})
  BY DEF Ops, WriteLater
<1>4. /\ pc'[t] = "release" /\ op'[t] = q /\ arg'[t] = h
      /\ \A u \in Threads \ {t} : pc'[u] = pc[u] /\ op'[u] = op[u] /\ arg'[u] = arg[u]
      /\ tmp'[t] = r /\ \A u \in Threads \ {t} : tmp'[u] = tmp[u]
      /\ tmp' \in [Threads -> Repr]
      /\ tmp[t] = NewRepr
  BY <1>0, <1>2 DEF Enter, TypeOK, Locals
<1>5. /\ t \notin Refs(b) /\ Refs(b)' = Refs(b) \cup {t}
      /\ \A c \in Buffers \ {b} : Refs(c)' = Refs(c)
  BY <1>1, <1>2, <1>4 DEF Refs, handles, NewRepr, InlineRepr
<1>6. \A x : Users(x)' = Users(x)
  BY <1>2 DEF Users, Accessors, handles
<1>7. Users(t)' = {t}
  BY <1>6 DEF Users
<1>8. /\ Relied(t)' = NoBuf
      /\ \A u \in Threads \ {t} : Relied(u)' # NoBuf => Relied(u)' = Relied(u) /\ Holder(u)' = Holder(u)
  BY <1>2, <1>3, <1>4 DEF Relied, Holder, MyBuf, handles
<1>9. \A u \in Threads : pc'[u] = "free" <=> pc[u] = "free"
  BY <1>4
<1>10. /\ NoDangling' /\ RefCount' /\ NoLeak' /\ Alone'
       /\ OwnKnown' /\ OldOneKnown' /\ WritesKnown' /\ AccessesKept' /\ DeadForgotten'
       /\ unk' \in [Threads -> SUBSET Facts] /\ carried' \in [Buffers -> SUBSET Accesses]
       /\ cnt' \in [Buffers -> Nat]
  BY <1>1, <1>2, <1>5, <1>6, <1>7, <1>8, <1>9, AddReference
<1>11. TypeOK'
  BY <1>0, <1>2, <1>3, <1>4, <1>10 DEF TypeOK, Enter, handles, PCs, Ops
<1>12. Locals'
  <2> SUFFICES ASSUME NEW u \in Threads PROVE Locals!(u)'
    BY DEF Locals
  <2>1. CASE u = t
    BY <1>0, <1>2, <1>3, <1>4, <2>1 DEF Locals, Holds, AtHeap, MyBuf, handles
  <2>2. CASE u # t
    BY <1>0, <1>2, <1>4, <2>2 DEF Locals, Holds, AtHeap, MyBuf, handles
  <2>3. QED
    BY <2>1, <2>2
<1>13. Ownership'
  BY <1>0, <1>2 DEF Ownership, handles
<1>14. QED
  BY <1>10, <1>11, <1>12, <1>13 DEF IInv

\* make_ascii_case of an unchanged shared text.
LEMMA ShareStep ==
    ASSUME IInv, NEW t \in Threads, Share(t)
    PROVE  IInv'
<1>0. TypeOK /\ Locals
  BY DEF IInv
<1>1. pc[t] = "share" /\ ShallowClone(t, arg[t], repr[arg[t]], op[t])
  BY DEF Share
<1>2. /\ arg[t] \in Handles /\ owner[arg[t]] = t /\ lent[arg[t]] = {}
      /\ MyBuf(t) \in Buffers /\ MyBuf(t) # NoBuf
      /\ arg[t] \in Refs(MyBuf(t)) /\ Users(arg[t]) = {t}
  BY <1>1, UsesOwnBuffer DEF AtHeap
<1>3. op[t] \in Ops \ (WriteLater \cup {"drop", "panic"})
  BY <1>0, <1>1 DEF Locals, TypeOK
<1>4. repr[arg[t]] \in Repr /\ repr[arg[t]].buf = MyBuf(t)
  BY <1>0, <1>2 DEF TypeOK, MyBuf
<1>5. QED
  BY <1>1, <1>2, <1>3, <1>4, ShallowCloneStep

\* Clone::clone.
LEMMA CloneStep ==
    ASSUME IInv, NEW t \in Threads, NEW h \in Handles, NEW k \in Handles, Clone(t, h, k)
    PROVE  IInv'
<1>0. TypeOK /\ Locals /\ Ownership
  BY DEF IInv
<1> DEFINE b == repr[h].buf
<1>1. /\ pc[t] = "idle" /\ t \in Accessors(h) /\ owner[k] = Nobody /\ k # h
      /\ repr[k] = NewRepr /\ lent[k] = {} /\ repr[h] \in Repr
  BY <1>0 DEF Clone, Idle, Ownership, Accessors, TypeOK
<1>2. b # NoBuf => b \in Buffers /\ h \in Refs(b) /\ t \in Users(h)
  BY <1>1 DEF Repr, Refs, Users
<1>3. CASE OnHeap(h) /\ ShallowClone(t, h, repr[h], "panic")
  BY <1>1, <1>2, <1>3, ShallowCloneStep DEF OnHeap, Ops, WriteLater
<1>4. CASE /\ owner' = [owner EXCEPT ![k] = t]
           /\ repr' = [repr EXCEPT ![k] = repr[h]]
           /\ IF OnHeap(h) THEN FetchAdd(t, repr[h].buf) ELSE UNCHANGED <<cnt, unk, carried>>
           /\ UNCHANGED <<lent, live, data, locals>>
  <2>1. /\ owner'[k] = t /\ \A g \in Handles \ {k} : owner'[g] = owner[g]
        /\ repr'[k] = repr[h] /\ \A g \in Handles \ {k} : repr'[g] = repr[g]
        /\ owner' \in [Handles -> Threads \cup {Nobody}] /\ repr' \in [Handles -> Repr]
        /\ UNCHANGED <<lent, live, data, pc, op, arg, tmp, old>>
    BY <1>0, <1>1, <1>4 DEF TypeOK, locals
  <2>2. \A c \in Buffers : k \notin Refs(c)
    BY <1>1 DEF Refs, NewRepr, InlineRepr
  <2>3. \A c \in Buffers : \A z \in Refs(c) : Users(z)' = Users(z)
    BY <2>1, <2>2 DEF Users, Accessors
  <2>4. \A u \in Threads : Relied(u)' # NoBuf => Relied(u)' = Relied(u) /\ Holder(u)' = Holder(u)
    <3> SUFFICES ASSUME NEW u \in Threads, Relied(u)' # NoBuf
                 PROVE  Relied(u)' = Relied(u) /\ Holder(u)' = Holder(u)
      OBVIOUS
    <3>1. pc[u] \in {"write", "resize", "into"} \/ (pc[u] = "free" /\ op[u] \in WriteLater)
            => arg[u] \in Handles \ {k}
      BY <1>0, <1>1 DEF Locals, Holds, AtHeap, WriteLater
    <3>2. QED
      BY <2>1, <3>1 DEF Relied, Holder, MyBuf
  <2>5. /\ NoDangling' /\ RefCount' /\ NoLeak' /\ Alone'
        /\ OwnKnown' /\ OldOneKnown' /\ WritesKnown' /\ AccessesKept' /\ DeadForgotten'
        /\ unk' \in [Threads -> SUBSET Facts] /\ carried' \in [Buffers -> SUBSET Accesses]
        /\ cnt' \in [Buffers -> Nat]
    <3>1. CASE ~OnHeap(h)
      <4>1. \A g \in Handles : repr'[g].buf = repr[g].buf
        BY <1>1, <2>1, <3>1 DEF OnHeap, NewRepr, InlineRepr
      <4>2. QED
        BY <1>0, <1>4, <2>1, <2>3, <2>4, <3>1, <4>1, SameRefsQuiet DEF TypeOK
    <3>2. CASE OnHeap(h)
      <4>1. b \in Buffers /\ h \in Refs(b) /\ t \in Users(h) /\ FetchAdd(t, b)
        BY <1>2, <1>4, <3>2 DEF OnHeap
      <4>2. Refs(b)' = Refs(b) \cup {k} /\ \A c \in Buffers \ {b} : Refs(c)' = Refs(c)
        BY <1>1, <2>1 DEF Refs, NewRepr, InlineRepr
      <4>3. Users(k)' = {t}
        BY <1>1, <2>1 DEF Users, Accessors
      <4>4. Relied(t)' = NoBuf
        BY <1>1, <2>1 DEF Relied
      <4>5. QED
        BY <2>1, <2>2, <2>3, <2>4, <4>1, <4>2, <4>3, <4>4, AddReference
    <3>3. QED
      BY <3>1, <3>2
  <2>6. TypeOK'
    BY <1>0, <2>1, <2>5 DEF TypeOK
  <2>7. Locals'
    BY <1>0, <1>1, <2>1 DEF Locals, Holds, AtHeap, MyBuf
  <2>8. Ownership'
    BY <1>0, <1>1, <2>1 DEF Ownership
  <2>9. QED
    BY <2>5, <2>6, <2>7, <2>8 DEF IInv
<1>5. QED
  BY <1>3, <1>4 DEF Clone

\* Clone::clone_from.
LEMMA CloneFromStep ==
    ASSUME IInv, NEW t \in Threads, NEW h \in Handles, NEW g \in Handles, CloneFrom(t, h, g)
    PROVE  IInv'
<1>0. TypeOK /\ Locals /\ Ownership
  BY DEF IInv
<1> DEFINE b == repr[g].buf
<1>1. /\ pc[t] = "idle" /\ owner[h] = t /\ lent[h] = {} /\ t \in Accessors(g) /\ g # h
      /\ repr[g] \in Repr /\ tmp[t] = NewRepr
  BY <1>0 DEF CloneFrom, Exclusive, Idle, TypeOK, Locals
<1>2. b # NoBuf => b \in Buffers /\ g \in Refs(b) /\ t \in Users(g)
  BY <1>1 DEF Repr, Refs, Users
<1>3. CASE OnHeap(h) /\ OnHeap(g) /\ ShallowClone(t, h, repr[g], "assign")
  BY <1>1, <1>2, <1>3, ShallowCloneStep DEF OnHeap, Ops, WriteLater
<1>4. CASE OnHeap(g) /\ ShallowClone(t, h, repr[g], "panic")
  BY <1>1, <1>2, <1>4, ShallowCloneStep DEF OnHeap, Ops, WriteLater
<1>5. CASE /\ OnHeap(h) /\ ~OnHeap(g)
           /\ tmp' = [tmp EXCEPT ![t] = repr[g]]
           /\ Enter(t, "assign", h, "release")
           /\ UNCHANGED <<handles, memory, old, unk, carried>>
  <2>1. /\ pc'[t] = "release" /\ op'[t] = "assign" /\ arg'[t] = h /\ tmp'[t] = repr[g]
        /\ \A u \in Threads \ {t} : /\ pc'[u] = pc[u] /\ op'[u] = op[u] /\ arg'[u] = arg[u]
                                    /\ tmp'[u] = tmp[u]
        /\ tmp' \in [Threads -> Repr]
    BY <1>0, <1>1, <1>5 DEF Enter, TypeOK
  <2>2. \A u \in Threads : tmp'[u].buf = tmp[u].buf
    BY <1>1, <1>5, <2>1 DEF OnHeap, NewRepr, InlineRepr
  <2>3. \A u \in Threads : Relied(u)' # NoBuf => Relied(u)' = Relied(u) /\ Holder(u)' = Holder(u)
    BY <1>5, <2>1 DEF Relied, Holder, MyBuf, handles, WriteLater
  <2>4. /\ NoDangling' /\ RefCount' /\ NoLeak' /\ Alone'
        /\ OwnKnown' /\ OldOneKnown' /\ WritesKnown' /\ AccessesKept' /\ DeadForgotten'
    BY <1>1, <1>5, <2>1, <2>2, <2>3, SameRefsQuiet DEF handles, memory, Users, Accessors
  <2>5. TypeOK'
    BY <1>0, <1>5, <2>1 DEF TypeOK, Enter, handles, memory, PCs, Ops
  <2>6. Locals'
    BY <1>0, <1>1, <1>5, <2>1 DEF Locals, Holds, AtHeap, MyBuf, handles, OnHeap
  <2>7. Ownership'
    BY <1>0, <1>5 DEF Ownership, handles
  <2>8. QED
    BY <2>4, <2>5, <2>6, <2>7 DEF IInv
<1>6. CASE /\ ~OnHeap(h)
           /\ repr' = [repr EXCEPT ![h] = repr[g]]
           /\ IF OnHeap(g) THEN FetchAdd(t, repr[g].buf) ELSE UNCHANGED <<cnt, unk, carried>>
           /\ UNCHANGED <<owner, lent, live, data, locals>>
  <2>1. /\ repr'[h] = repr[g] /\ \A k \in Handles \ {h} : repr'[k] = repr[k]
        /\ repr' \in [Handles -> Repr] /\ repr[h].buf = NoBuf
        /\ UNCHANGED <<owner, lent, live, data, pc, op, arg, tmp, old>>
    BY <1>0, <1>1, <1>6 DEF TypeOK, locals, OnHeap
  <2>2. \A c \in Buffers : h \notin Refs(c)
    BY <2>1 DEF Refs
  <2>3. \A x : Users(x)' = Users(x)
    BY <2>1 DEF Users, Accessors
  <2>4. \A u \in Threads : Relied(u)' # NoBuf => Relied(u)' = Relied(u) /\ Holder(u)' = Holder(u)
    <3> SUFFICES ASSUME NEW u \in Threads, Relied(u)' # NoBuf
                 PROVE  Relied(u)' = Relied(u) /\ Holder(u)' = Holder(u)
      OBVIOUS
    <3>1. pc[u] \in {"write", "resize", "into"} \/ (pc[u] = "free" /\ op[u] \in WriteLater)
            => arg[u] \in Handles \ {h}
      BY <1>0, <1>1 DEF Locals, Holds, AtHeap, WriteLater
    <3>2. QED
      BY <2>1, <3>1 DEF Relied, Holder, MyBuf
  <2>5. /\ NoDangling' /\ RefCount' /\ NoLeak' /\ Alone'
        /\ OwnKnown' /\ OldOneKnown' /\ WritesKnown' /\ AccessesKept' /\ DeadForgotten'
        /\ unk' \in [Threads -> SUBSET Facts] /\ carried' \in [Buffers -> SUBSET Accesses]
        /\ cnt' \in [Buffers -> Nat]
    <3>1. CASE ~OnHeap(g)
      <4>1. \A k \in Handles : repr'[k].buf = repr[k].buf
        BY <1>1, <2>1, <3>1 DEF OnHeap
      <4>2. QED
        BY <1>0, <1>6, <2>1, <2>3, <2>4, <3>1, <4>1, SameRefsQuiet DEF TypeOK
    <3>2. CASE OnHeap(g)
      <4>1. b \in Buffers /\ g \in Refs(b) /\ t \in Users(g) /\ FetchAdd(t, b)
        BY <1>2, <1>6, <3>2 DEF OnHeap
      <4>2. Refs(b)' = Refs(b) \cup {h} /\ \A c \in Buffers \ {b} : Refs(c)' = Refs(c)
        BY <1>1, <2>1 DEF Refs
      <4>3. Users(h)' = {t}
        BY <1>1, <2>1 DEF Users, Accessors
      <4>4. Relied(t)' = NoBuf
        BY <1>1, <2>1 DEF Relied
      <4>5. QED
        BY <2>1, <2>2, <2>3, <2>4, <4>1, <4>2, <4>3, <4>4, AddReference
    <3>3. QED
      BY <3>1, <3>2
  <2>6. TypeOK'
    BY <1>0, <2>1, <2>5 DEF TypeOK
  <2>7. Locals'
    <3> SUFFICES ASSUME NEW u \in Threads PROVE Locals!(u)'
      BY DEF Locals
    <3>1. (pc[u] # "idle" /\ Holds(u)) => arg[u] # h
      BY <1>0, <1>1 DEF Locals
    <3>2. QED
      BY <1>0, <1>1, <2>1, <3>1 DEF Locals, Holds, AtHeap, MyBuf
  <2>8. Ownership'
    BY <1>0, <1>1, <2>1 DEF Ownership
  <2>9. QED
    BY <2>5, <2>6, <2>7, <2>8 DEF IInv
<1>7. QED
  BY <1>3, <1>4, <1>5, <1>6 DEF CloneFrom

\* A new buffer whose only reference x only t can use.
LEMMA AddBuffer ==
    ASSUME IInv, NEW t \in Threads, NEW b \in Buffers, NEW v \in Texts, NEW R,
           Permitted(t, R), \A a \in R : a[3] \in live,
           Allocate(t, b, v, R), old' = old,
           NEW x, Users(x)' = {t}, Refs(b)' = {x},
           \A c \in Buffers \ {b} : Refs(c)' = Refs(c),
           \A u \in Threads : pc'[u] = "free" <=> pc[u] = "free",
           \A c \in Buffers : \A z \in Refs(c) : Users(z)' = Users(z),
           Relied(t)' # NoBuf => Relied(t)' = b /\ Holder(t)' = x,
           \A u \in Threads \ {t} : Relied(u)' # NoBuf => Relied(u)' = Relied(u) /\ Holder(u)' = Holder(u)
    PROVE  /\ NoDangling' /\ RefCount' /\ NoLeak' /\ Alone'
           /\ OwnKnown' /\ OldOneKnown' /\ WritesKnown' /\ AccessesKept' /\ DeadForgotten'
           /\ unk' \in [Threads -> SUBSET Facts] /\ carried' \in [Buffers -> SUBSET Accesses]
           /\ cnt' \in [Buffers -> Nat] /\ live' \in SUBSET Buffers /\ data' \in [Buffers -> Texts]
<1>0. /\ TypeOK /\ Locals /\ NoDangling /\ RefCount /\ NoLeak /\ Alone /\ DeadForgotten
  BY DEF IInv
<1> DEFINE F == R \cup {<<"write", t, b>>}
<1>1. /\ b \notin live /\ live' = live \cup {b} /\ cnt' = [cnt EXCEPT ![b] = 1]
      /\ data' = [data EXCEPT ![b] = v] /\ Perform(t, F)
  BY DEF Allocate
<1>2. Refs(b) = {}
  BY <1>0, <1>1 DEF NoDangling
<1>3. Permitted(t, F)
  BY <1>1, <1>2 DEF Permitted
<1> HIDE DEF F
<1>4. /\ unk' \in [Threads -> SUBSET Facts]
      /\ carried' \in [Buffers -> SUBSET Accesses]
      /\ unk'[t] = unk[t]
      /\ OwnKnown'
      /\ \A c \in Buffers : \A z \in Refs(c) :
            \E u \in Users(z) : <<"one", Nobody, c>> \notin unk'[u]
      /\ \A c \in Buffers : \A z \in Refs(c) :
            \A u \in Users(z) : unk'[u] \cap WritesAt(c) = {}
      /\ \A c \in live : \A a \in AccessesAt(c) :
            a \in carried'[c] \/ \E z \in Refs(c) : \E u \in Users(z) : a \notin unk'[u]
      /\ \A u \in Threads : Relied(u) # NoBuf =>
            unk'[u] \cap AccessesAt(Relied(u)) = {}
      /\ \A c \in Buffers, u \in Threads :
            unk[u] \cap FactsAt(c) = {} /\ (\A a \in F : a[3] # c) => unk'[u] \cap FactsAt(c) = {}
  BY <1>1, <1>3, PerformKnowledge
<1>5. unk'[t] \cap FactsAt(b) = {}
  BY <1>0, <1>1, <1>4 DEF DeadForgotten
<1>6. /\ cnt' \in [Buffers -> Nat] /\ live' \in SUBSET Buffers /\ data' \in [Buffers -> Texts]
      /\ cnt'[b] = 1 /\ \A c \in Buffers \ {b} : cnt'[c] = cnt[c]
  BY <1>0, <1>1 DEF TypeOK
<1>7. NoDangling'
  BY <1>0, <1>1 DEF NoDangling, Locals
<1>8. RefCount'
  <2> SUFFICES ASSUME NEW c \in live' PROVE cnt'[c] = Cardinality(Refs(c)')
    BY DEF RefCount
  <2>1. CASE c = b
    <3>1. Cardinality({x}) = 1
      BY FS_Singleton
    <3>2. QED
      BY <1>6, <2>1, <3>1
  <2>2. CASE c # b
    BY <1>0, <1>1, <1>6, <2>2 DEF RefCount, TypeOK
  <2>3. QED
    BY <2>1, <2>2
<1>9. NoLeak'
  BY <1>0, <1>1 DEF NoLeak, TypeOK
<1>10. Alone'
  <2> SUFFICES ASSUME NEW u \in Threads, Relied(u)' # NoBuf
               PROVE  Refs(Relied(u))' = {Holder(u)'} /\ unk'[u] \cap AccessesAt(Relied(u)') = {}
    BY DEF Alone
  <2>1. CASE u = t
    BY <1>5, <2>1 DEF FactsAt
  <2>2. CASE u # t
    <3>1. Relied(u)' = Relied(u) /\ Holder(u)' = Holder(u)
      BY <2>2
    <3>2. Refs(Relied(u)) = {Holder(u)}
      BY <1>0, <3>1 DEF Alone
    <3>3. Relied(u) # b
      BY <1>2, <3>2
    <3>4. Relied(u) \in Buffers
      BY <1>0, <3>1, ReliedType
    <3>5. Refs(Relied(u))' = Refs(Relied(u))
      BY <3>1, <3>3, <3>4
    <3>6. QED
      BY <1>4, <3>1, <3>2, <3>5
  <2>3. QED
    BY <2>1, <2>2
<1>11. OldOneKnown'
  <2>1. <<"one", Nobody, b>> \notin unk'[t]
    BY <1>5, FactType DEF FactsAt
  <2>2. QED
    BY <1>4, <2>1 DEF OldOneKnown
<1>12. WritesKnown'
  <2>1. unk'[t] \cap WritesAt(b) = {}
    BY <1>5 DEF FactsAt, WritesAt, AccessesAt
  <2>2. QED
    BY <1>4, <2>1 DEF WritesKnown
<1>13. AccessesKept'
  <2> SUFFICES ASSUME NEW c \in live', NEW a \in AccessesAt(c)
               PROVE  a \in carried'[c] \/ \E z \in Refs(c)' : \E u \in Users(z)' : a \notin unk'[u]
    BY DEF AccessesKept
  <2>1. CASE c = b
    <3>1. a \notin unk'[t]
      BY <1>5, <2>1 DEF FactsAt
    <3>2. QED
      BY <2>1, <3>1
  <2>2. CASE c # b
    <3>1. c \in live /\ c \in Buffers /\ Refs(c)' = Refs(c)
      BY <1>0, <1>1, <2>2 DEF TypeOK
    <3>2. QED
      BY <1>4, <3>1
  <2>3. QED
    BY <2>1, <2>2
<1>14. DeadForgotten'
  <2> SUFFICES ASSUME NEW c \in Buffers \ live', NEW u \in Threads
               PROVE  unk'[u] \cap FactsAt(c) = {}
    BY DEF DeadForgotten
  <2>1. \A a \in F : a[3] # c
    BY <1>1 DEF F
  <2>2. unk[u] \cap FactsAt(c) = {}
    BY <1>0, <1>1 DEF DeadForgotten
  <2>3. QED
    BY <1>4, <2>1, <2>2
<1>15. QED
  BY <1>4, <1>6, <1>7, <1>8, <1>9, <1>10, <1>11, <1>12, <1>13, <1>14

\* A handle without a heap buffer gets a new one.
LEMMA NewBufferStep ==
    ASSUME IInv, NEW t \in Threads, NEW h \in Handles, NEW b \in Buffers, NEW v \in Texts,
           pc[t] = "idle", owner[h] \in {t, Nobody}, lent[h] = {}, repr[h].buf = NoBuf,
           Allocate(t, b, v, {}),
           owner' = [owner EXCEPT ![h] = t],
           repr' = [repr EXCEPT ![h] = HeapRepr(b)],
           UNCHANGED <<lent, locals>>
    PROVE  IInv'
<1>0. TypeOK /\ Locals /\ Ownership /\ NoDangling
  BY DEF IInv
<1>1. /\ owner'[h] = t /\ \A g \in Handles \ {h} : owner'[g] = owner[g]
      /\ repr'[h] = HeapRepr(b) /\ \A g \in Handles \ {h} : repr'[g] = repr[g]
      /\ owner' \in [Handles -> Threads \cup {Nobody}] /\ repr' \in [Handles -> Repr]
      /\ UNCHANGED <<lent, pc, op, arg, tmp, old>>
  BY <1>0, ReprType DEF TypeOK, locals
<1>2. b \notin live /\ Refs(b) = {}
  BY <1>0 DEF Allocate, NoDangling
<1>3. /\ Refs(b)' = {h} /\ \A c \in Buffers \ {b} : Refs(c)' = Refs(c)
      /\ \A c \in Buffers : h \notin Refs(c)
  BY <1>1, <1>2 DEF Refs, HeapRepr
<1>4. /\ Users(h)' = {t} /\ \A c \in Buffers : \A z \in Refs(c) : Users(z)' = Users(z)
  <2>1. Users(h)' = {t}
    BY <1>1 DEF Users, Accessors
  <2>2. \A z : z # h => Users(z)' = Users(z)
    BY <1>1 DEF Users, Accessors
  <2>3. QED
    BY <1>3, <2>1, <2>2
<1>5. Relied(t)' = NoBuf
  BY <1>1 DEF Relied
<1>6. \A u \in Threads : Relied(u)' # NoBuf => Relied(u)' = Relied(u) /\ Holder(u)' = Holder(u)
  <2> SUFFICES ASSUME NEW u \in Threads, Relied(u)' # NoBuf
               PROVE  Relied(u)' = Relied(u) /\ Holder(u)' = Holder(u)
    OBVIOUS
  <2>1. pc[u] \in {"write", "resize", "into"} \/ (pc[u] = "free" /\ op[u] \in WriteLater)
          => arg[u] \in Handles \ {h}
    BY <1>0 DEF Locals, Holds, AtHeap, WriteLater
  <2>2. QED
    BY <1>1, <2>1 DEF Relied, Holder, MyBuf
<1>7. Permitted(t, {})
  BY DEF Permitted
<1>8. /\ NoDangling' /\ RefCount' /\ NoLeak' /\ Alone'
      /\ OwnKnown' /\ OldOneKnown' /\ WritesKnown' /\ AccessesKept' /\ DeadForgotten'
      /\ unk' \in [Threads -> SUBSET Facts] /\ carried' \in [Buffers -> SUBSET Accesses]
      /\ cnt' \in [Buffers -> Nat] /\ live' \in SUBSET Buffers /\ data' \in [Buffers -> Texts]
  BY <1>1, <1>3, <1>4, <1>5, <1>6, <1>7, AddBuffer
<1>9. TypeOK'
  BY <1>0, <1>1, <1>8 DEF TypeOK
<1>10. Locals'
  <2> SUFFICES ASSUME NEW u \in Threads PROVE Locals!(u)'
    BY DEF Locals
  <2>1. (pc[u] # "idle" /\ Holds(u)) => arg[u] # h
    BY <1>0 DEF Locals
  <2>2. QED
    BY <1>0, <1>1, <2>1 DEF Locals, Holds, AtHeap, MyBuf
<1>11. Ownership'
  BY <1>0, <1>1 DEF Ownership
<1>12. QED
  BY <1>8, <1>9, <1>10, <1>11 DEF IInv

\* A new handle with a heap buffer.
LEMMA NewHeapStep ==
    ASSUME IInv, NEW t \in Threads, NEW h \in Handles, NEW b \in Buffers, NEW v \in Texts,
           NewHeap(t, h, b, v)
    PROVE  IInv'
<1>1. repr[h].buf = NoBuf /\ lent[h] = {} /\ owner[h] \in {t, Nobody} /\ pc[t] = "idle"
  BY DEF IInv, Ownership, NewHeap, NewRepr, InlineRepr, Idle
<1>2. QED
  BY <1>1, NewBufferStep DEF NewHeap

\* An inline handle outgrows its two words.
LEMMA MoveToHeapStep ==
    ASSUME IInv, NEW t \in Threads, NEW h \in Handles, NEW b \in Buffers, NEW v \in Texts,
           MoveToHeap(t, h, b, v)
    PROVE  IInv'
<1>1. repr[h].buf = NoBuf /\ lent[h] = {} /\ owner[h] \in {t, Nobody} /\ pc[t] = "idle"
  BY DEF MoveToHeap, Exclusive, Idle, OnHeap
<1>2. owner' = [owner EXCEPT ![h] = t]
  BY DEF IInv, TypeOK, MoveToHeap, Exclusive
<1>3. QED
  BY <1>1, <1>2, NewBufferStep DEF MoveToHeap

\* A copy into a new heap buffer.
LEMMA CopyHeapStep ==
    ASSUME IInv, NEW t \in Threads, CopyHeap(t)
    PROVE  IInv'
<1>0. TypeOK /\ Locals /\ Ownership /\ NoDangling
  BY DEF IInv
<1> DEFINE m == MyBuf(t)
<1>1. /\ arg[t] \in Handles /\ owner[arg[t]] = t /\ lent[arg[t]] = {}
      /\ m \in Buffers /\ m \in live /\ m # NoBuf /\ arg[t] \in Refs(m) /\ Users(arg[t]) = {t}
  BY UsesOwnBuffer DEF CopyHeap, AtHeap
<1>2. Permitted(t, {<<"read", t, m>>})
  BY <1>1 DEF Permitted
<1>3. Copied(t) \subseteq Texts
  BY <1>0, <1>1, TextType DEF Copied, TypeOK
<1>4. PICK b \in Buffers, v \in Texts :
        /\ Allocate(t, b, v, {<<"read", t, m>>})
        /\ tmp' = [tmp EXCEPT ![t] = HeapRepr(b)]
  BY <1>3 DEF CopyHeap
<1>5. UNCHANGED <<handles, old>> /\ pc[t] = "toHeap" /\ tmp[t] = NewRepr
  BY <1>0 DEF CopyHeap, Locals
<1>6. /\ pc'[t] = "release" /\ op'[t] = op[t] /\ arg'[t] = arg[t]
      /\ \A u \in Threads \ {t} : pc'[u] = pc[u] /\ op'[u] = op[u] /\ arg'[u] = arg[u]
      /\ tmp'[t] = HeapRepr(b) /\ \A u \in Threads \ {t} : tmp'[u] = tmp[u]
      /\ tmp' \in [Threads -> Repr]
  BY <1>0, <1>4, ReprType DEF CopyHeap, Goto, Enter, TypeOK
<1>7. op[t] # "drop" /\ op[t] # "panic"
  BY <1>0, <1>5 DEF Locals
<1>8. b \notin live /\ Refs(b) = {}
  BY <1>0, <1>4 DEF Allocate, NoDangling
<1>9. /\ Refs(b)' = {t} /\ \A c \in Buffers \ {b} : Refs(c)' = Refs(c)
  BY <1>5, <1>6, <1>8 DEF Refs, HeapRepr, NewRepr, InlineRepr, handles
<1>10. \A x : Users(x)' = Users(x)
  BY <1>5 DEF Users, Accessors, handles
<1>11. Users(t)' = {t}
  BY <1>10 DEF Users
<1>12. /\ Relied(t)' # NoBuf => Relied(t)' = b /\ Holder(t)' = t
       /\ \A u \in Threads \ {t} : Relied(u)' # NoBuf => Relied(u)' = Relied(u) /\ Holder(u)' = Holder(u)
  BY <1>5, <1>6 DEF Relied, Holder, MyBuf, handles, HeapRepr
<1>13. \A a \in {<<"read", t, m>>} : a[3] \in live
  BY <1>1
<1>14. \A u \in Threads : pc'[u] = "free" <=> pc[u] = "free"
  BY <1>5, <1>6
<1>15. /\ NoDangling' /\ RefCount' /\ NoLeak' /\ Alone'
       /\ OwnKnown' /\ OldOneKnown' /\ WritesKnown' /\ AccessesKept' /\ DeadForgotten'
       /\ unk' \in [Threads -> SUBSET Facts] /\ carried' \in [Buffers -> SUBSET Accesses]
       /\ cnt' \in [Buffers -> Nat] /\ live' \in SUBSET Buffers /\ data' \in [Buffers -> Texts]
  BY <1>2, <1>4, <1>5, <1>9, <1>10, <1>11, <1>12, <1>13, <1>14, AddBuffer
<1>16. TypeOK'
  <2>1. pc' \in [Threads -> PCs] /\ op' \in [Threads -> Ops] /\ arg' \in [Threads -> Handles \cup {Nobody}]
    BY <1>0 DEF CopyHeap, Goto, Enter, TypeOK, PCs, Ops
  <2>2. QED
    BY <1>0, <1>5, <1>6, <1>15, <2>1 DEF TypeOK, handles
<1>17. Locals'
  <2> SUFFICES ASSUME NEW u \in Threads PROVE Locals!(u)'
    BY DEF Locals
  <2>1. CASE u = t
    BY <1>0, <1>1, <1>5, <1>6, <1>7, <2>1 DEF Locals, Holds, AtHeap, MyBuf, handles
  <2>2. CASE u # t
    BY <1>0, <1>5, <1>6, <2>2 DEF Locals, Holds, AtHeap, MyBuf, handles
  <2>3. QED
    BY <2>1, <2>2
<1>18. Ownership'
  BY <1>0, <1>5 DEF Ownership, handles
<1>19. QED
  BY <1>15, <1>16, <1>17, <1>18 DEF IInv

\* realloc of the buffer a thread is alone with.
LEMMA ReallocateStep ==
    ASSUME IInv, NEW t \in Threads, pc[t] \in {"resize", "into"},
           NEW o \in Ops, NEW p \in {"idle", "write", "release"},
           p = "release" => o = "drop", o = "drop" => p = "release", o # "panic",
           Reallocate(t, MyBuf(t)), Enter(t, o, arg[t], p), UNCHANGED <<handles, tmp, old>>
    PROVE  IInv'
<1>0. /\ TypeOK /\ Locals /\ Ownership /\ NoDangling /\ RefCount /\ NoLeak /\ Alone
      /\ OldOneKnown /\ WritesKnown /\ AccessesKept /\ DeadForgotten
  BY DEF IInv
<1> DEFINE b == MyBuf(t)
<1>1. /\ arg[t] \in Handles /\ owner[arg[t]] = t /\ lent[arg[t]] = {}
      /\ b \in Buffers /\ b \in live /\ b # NoBuf /\ arg[t] \in Refs(b) /\ Users(arg[t]) = {t}
  BY UsesOwnBuffer DEF AtHeap
<1>2. Refs(b) = {arg[t]}
  BY <1>0, <1>1 DEF Alone, Relied, Holder
<1>3. /\ pc'[t] = p /\ op'[t] = (IF p = "idle" THEN "none" ELSE o)
      /\ arg'[t] = (IF p = "idle" THEN Nobody ELSE arg[t])
      /\ \A u \in Threads \ {t} : pc'[u] = pc[u] /\ op'[u] = op[u] /\ arg'[u] = arg[u]
  BY <1>0 DEF Enter, TypeOK
<1>4. live' = live /\ data' = data /\ cnt' = [cnt EXCEPT ![b] = 1]
  BY DEF Reallocate
<1>5. /\ unk' \in [Threads -> SUBSET Facts]
      /\ carried' \in [Buffers -> SUBSET Accesses]
      /\ OwnKnown'
      /\ unk'[t] \cap FactsAt(b) = {}
      /\ \A u \in Threads, c \in Buffers : c # b =>
            unk'[u] \cap FactsAt(c) = unk[u] \cap FactsAt(c) /\ carried'[c] = carried[c]
  BY <1>1, <1>2, ReallocateKnowledge
<1>6. \A c : Refs(c)' = Refs(c)
  BY RefsFrame DEF handles
<1>7. \A x : Users(x)' = Users(x)
  BY DEF Users, Accessors, handles
<1>8. \A u \in Threads : pc'[u] = "free" <=> pc[u] = "free"
  BY <1>3
<1>9. NoDangling' /\ NoLeak'
  BY <1>0, <1>4, <1>6, <1>8 DEF NoDangling, NoLeak, Locals
<1>10. RefCount'
  <2>1. Cardinality(Refs(b)) = 1
    BY <1>2, FS_Singleton
  <2>2. QED
    BY <1>0, <1>1, <1>4, <1>6, <2>1 DEF RefCount, TypeOK
<1>11. Alone'
  <2> SUFFICES ASSUME NEW u \in Threads, Relied(u)' # NoBuf
               PROVE  Refs(Relied(u))' = {Holder(u)'} /\ unk'[u] \cap AccessesAt(Relied(u)') = {}
    BY DEF Alone
  <2>1. CASE u = t
    <3>1. p = "write"
      BY <1>3, <2>1 DEF Relied, WriteLater
    <3>2. Relied(t)' = b /\ Holder(t)' = arg[t]
      BY <1>3, <3>1 DEF Relied, Holder, MyBuf, handles
    <3>3. QED
      BY <1>2, <1>5, <1>6, <2>1, <3>2 DEF FactsAt
  <2>2. CASE u # t
    <3>1. Relied(u)' = Relied(u) /\ Holder(u)' = Holder(u)
      BY <1>3, <2>2 DEF Relied, Holder, MyBuf, handles
    <3>2. Relied(u) # b
      BY <1>0, <1>1, <2>2, NotRelied
    <3>3. Relied(u) \in Buffers
      BY <1>0, <3>1, ReliedType
    <3>4. Refs(Relied(u)) = {Holder(u)} /\ unk[u] \cap AccessesAt(Relied(u)) = {}
      BY <1>0, <3>1 DEF Alone
    <3>5. unk'[u] \cap FactsAt(Relied(u)) = unk[u] \cap FactsAt(Relied(u))
      BY <1>5, <3>2, <3>3
    <3>6. QED
      BY <1>6, <3>1, <3>4, <3>5 DEF FactsAt
  <2>3. QED
    BY <2>1, <2>2
<1>12. \A c \in Buffers : \A x \in Refs(c) : Users(x) \subseteq Threads
  BY <1>0, RefsFinite DEF Users, Accessors, TypeOK
<1>13. \A c \in Buffers, u \in Threads : c # b => \A a \in FactsAt(c) : a \in unk'[u] <=> a \in unk[u]
  BY <1>5
<1>14. OldOneKnown'
  <2> SUFFICES ASSUME NEW c \in Buffers, NEW x \in Refs(c)
               PROVE  \E u \in Users(x) : <<"one", Nobody, c>> \notin unk'[u]
    BY <1>6, <1>7 DEF OldOneKnown
  <2>1. <<"one", Nobody, c>> \in FactsAt(c)
    BY FactType DEF FactsAt
  <2>2. CASE c = b
    BY <1>1, <1>2, <1>5, <2>1, <2>2
  <2>3. CASE c # b
    BY <1>0, <1>12, <1>13, <2>1, <2>3 DEF OldOneKnown
  <2>4. QED
    BY <2>2, <2>3
<1>15. WritesKnown'
  <2> SUFFICES ASSUME NEW c \in Buffers, NEW x \in Refs(c), NEW u \in Users(x)
               PROVE  unk'[u] \cap WritesAt(c) = {}
    BY <1>6, <1>7 DEF WritesKnown
  <2>1. WritesAt(c) \subseteq FactsAt(c)
    BY DEF WritesAt, FactsAt, AccessesAt
  <2>2. CASE c = b
    BY <1>1, <1>2, <1>5, <2>1, <2>2
  <2>3. CASE c # b
    BY <1>0, <1>12, <1>13, <2>1, <2>3 DEF WritesKnown
  <2>4. QED
    BY <2>2, <2>3
<1>16. AccessesKept'
  <2> SUFFICES ASSUME NEW c \in live, NEW a \in AccessesAt(c)
               PROVE  a \in carried'[c] \/ \E x \in Refs(c) : \E u \in Users(x) : a \notin unk'[u]
    BY <1>4, <1>6, <1>7 DEF AccessesKept
  <2>1. a \in FactsAt(c) /\ c \in Buffers
    BY <1>0 DEF FactsAt, TypeOK
  <2>2. CASE c = b
    BY <1>1, <1>2, <1>5, <2>1, <2>2
  <2>3. CASE c # b
    BY <1>0, <1>5, <1>12, <1>13, <2>1, <2>3 DEF AccessesKept
  <2>4. QED
    BY <2>2, <2>3
<1>17. DeadForgotten'
  BY <1>0, <1>1, <1>4, <1>5 DEF DeadForgotten
<1>18. TypeOK'
  <2>1. cnt' \in [Buffers -> Nat]
    BY <1>0, <1>4 DEF TypeOK
  <2>2. pc' \in [Threads -> PCs] /\ op' \in [Threads -> Ops] /\ arg' \in [Threads -> Handles \cup {Nobody}]
    BY <1>0 DEF Enter, TypeOK, PCs, Ops
  <2>3. QED
    BY <1>0, <1>4, <1>5, <2>1, <2>2 DEF TypeOK, handles
<1>19. Locals'
  <2> SUFFICES ASSUME NEW u \in Threads PROVE Locals!(u)'
    BY DEF Locals
  <2>1. CASE u = t
    BY <1>0, <1>1, <1>3, <2>1 DEF Locals, Holds, AtHeap, MyBuf, handles
  <2>2. CASE u # t
    BY <1>0, <1>3, <2>2 DEF Locals, Holds, AtHeap, MyBuf, handles
  <2>3. QED
    BY <2>1, <2>2
<1>20. Ownership'
  BY <1>0 DEF Ownership, handles
<1>21. QED
  BY <1>5, <1>9, <1>10, <1>11, <1>14, <1>15, <1>16, <1>17, <1>18, <1>19, <1>20 DEF IInv

\* A failed realloc: the operation ends, or the consumed handle is dropped.
LEMMA GiveUpStep ==
    ASSUME IInv, NEW t \in Threads, pc[t] \in {"resize", "into"},
           NEW o \in Ops, NEW p \in {"idle", "release"}, p = "release" => o = "drop",
           Enter(t, o, arg[t], p), UNCHANGED <<memory, unk, carried>>, UNCHANGED <<handles, tmp, old>>
    PROVE  IInv'
<1>0. TypeOK /\ Locals /\ Ownership
  BY DEF IInv
<1>1. /\ pc'[t] = p /\ op'[t] = (IF p = "idle" THEN "none" ELSE o)
      /\ arg'[t] = (IF p = "idle" THEN Nobody ELSE arg[t])
      /\ \A u \in Threads \ {t} : pc'[u] = pc[u] /\ op'[u] = op[u] /\ arg'[u] = arg[u]
  BY <1>0 DEF Enter, TypeOK
<1>2. \A u \in Threads : Relied(u)' # NoBuf => Relied(u)' = Relied(u) /\ Holder(u)' = Holder(u)
  BY <1>1 DEF Relied, Holder, MyBuf, handles, WriteLater
<1>3. /\ NoDangling' /\ RefCount' /\ NoLeak' /\ Alone'
      /\ OwnKnown' /\ OldOneKnown' /\ WritesKnown' /\ AccessesKept' /\ DeadForgotten'
  BY <1>1, <1>2, SameRefsQuiet DEF handles, memory, Users, Accessors
<1>4. TypeOK'
  BY <1>0 DEF TypeOK, Enter, handles, memory, PCs, Ops
<1>5. Locals'
  BY <1>0, <1>1 DEF Locals, Holds, AtHeap, MyBuf, handles
<1>6. Ownership'
  BY <1>0 DEF Ownership, handles
<1>7. QED
  BY <1>3, <1>4, <1>5, <1>6 DEF IInv

\* realloc in reallocate.
LEMMA ResizeStep ==
    ASSUME IInv, NEW t \in Threads, Resize(t)
    PROVE  IInv'
<1>1. pc[t] = "resize" /\ UNCHANGED <<handles, tmp, old>>
  BY DEF Resize
<1>2. op[t] \in Ops \ {"drop", "panic"}
  BY <1>1 DEF IInv, TypeOK, Locals
<1>3. CASE Reallocate(t, MyBuf(t)) /\ Goto(t, AfterOwned(op[t]))
  <2>1. PICK p \in {"idle", "write"} : Enter(t, op[t], arg[t], p)
    BY <1>3 DEF Goto, AfterOwned
  <2>2. QED
    BY <1>1, <1>2, <1>3, <2>1, ReallocateStep
<1>4. CASE Goto(t, "idle") /\ UNCHANGED <<memory, unk, carried>>
  BY <1>1, <1>2, <1>4, GiveUpStep DEF Goto
<1>5. QED
  BY <1>3, <1>4 DEF Resize

\* realloc in into_exact and into_growable.
LEMMA IntoStep ==
    ASSUME IInv, NEW t \in Threads, Into(t)
    PROVE  IInv'
<1>1. pc[t] = "into" /\ UNCHANGED <<handles, tmp, old>>
  BY DEF Into
<1>2. op[t] \in Ops \ {"drop", "panic"} /\ "drop" \in Ops
  BY <1>1 DEF IInv, TypeOK, Locals, Ops
<1>3. CASE Reallocate(t, MyBuf(t)) /\ Goto(t, "idle")
  BY <1>1, <1>2, <1>3, ReallocateStep DEF Goto
<1>4. CASE Reallocate(t, MyBuf(t)) /\ Enter(t, "drop", arg[t], "release")
  BY <1>1, <1>2, <1>4, ReallocateStep
<1>5. CASE Enter(t, "drop", arg[t], "release") /\ UNCHANGED <<memory, unk, carried>>
  BY <1>1, <1>2, <1>5, GiveUpStep
<1>6. QED
  BY <1>3, <1>4, <1>5 DEF Into

\* Lowering the count of b for a reference y that only t can use. The other
\* references stay; t's local variable, if it is not y itself, moves into the handle.
LEMMA ReleaseStep ==
    ASSUME IInv, NEW t \in Threads, Release(t)
    PROVE  IInv'
<1>0. /\ TypeOK /\ Locals /\ Ownership /\ NoDangling /\ RefCount /\ NoLeak /\ Alone
      /\ WritesKnown /\ AccessesKept
  BY DEF IInv
<1>a. PICK b, c, h, y :
        /\ b = IF op[t] = "panic" THEN tmp[t].buf ELSE MyBuf(t)
        /\ c = tmp[t].buf
        /\ h = arg[t]
        /\ y = IF op[t] = "panic" THEN t ELSE h
  OBVIOUS
<1>1. /\ pc[t] = "release" /\ FetchSub(t, b)
      /\ IF cnt[b] = 1
         THEN Goto(t, "free") /\ old' = [old EXCEPT ![t] = b]
         ELSE Goto(t, AfterOwned(op[t])) /\ UNCHANGED old
      /\ owner' = IF op[t] = "drop" THEN [owner EXCEPT ![h] = Nobody] ELSE owner
      /\ repr' = IF op[t] = "panic" THEN repr ELSE [repr EXCEPT ![h] = tmp[t]]
      /\ tmp' = [tmp EXCEPT ![t] = NewRepr]
      /\ UNCHANGED <<lent, live, data>>
  BY <1>a DEF Release
<1>2. tmp[t] \in Repr /\ c \in Buffers \cup {NoBuf} /\ t \notin Handles
  BY <1>0, <1>a DEF TypeOK, Repr
<1>3. op[t] # "panic" => /\ h \in Handles /\ owner[h] = t /\ lent[h] = {}
                         /\ Users(h) = {t} /\ repr[h].buf = b /\ h \in Refs(b) /\ b \in Buffers
  BY <1>a, <1>1, UsesOwnBuffer DEF MyBuf
<1>4. c # NoBuf => t \in Refs(c) /\ Users(t) = {t}
  BY <1>a, <1>2 DEF Refs, Users
<1>5. b \in Buffers /\ y \in Refs(b) /\ Users(y) = {t}
  <2>1. CASE op[t] = "panic"
    BY <1>0, <1>a, <1>1, <1>2, <1>4, <2>1 DEF Locals
  <2>2. CASE op[t] # "panic"
    BY <1>a, <1>3, <2>2
  <2>3. QED
    BY <2>1, <2>2
<1>6. b \in live /\ cnt[b] \in Nat /\ cnt[b] >= 1 /\ cnt[b] - 1 \in Nat
  BY <1>0, <1>5, Referenced
<1>7. /\ unk' \in [Threads -> SUBSET Facts]
      /\ carried' \in [Buffers -> SUBSET Accesses]
      /\ cnt' = [cnt EXCEPT ![b] = cnt[b] - 1]
      /\ OwnKnown'
      /\ \A d \in Buffers : \A z \in Refs(d) :
            \E u \in Users(z) : <<"one", Nobody, d>> \notin unk'[u]
      /\ \A u \in Threads : \A a \in Accesses : a \in unk'[u] <=> a \in unk[u]
      /\ \A d \in Buffers : carried[d] \subseteq carried'[d]
      /\ AccessesAt(b) \ unk[t] \subseteq carried'[b]
      /\ \A d \in Buffers \ live : \A u \in Threads : unk'[u] \cap FactsAt(d) = {}
  <2>1. FetchModify(t, b, cnt[b] - 1, TRUE) /\ t \in Users(y)
    BY <1>1, <1>5 DEF FetchSub
  <2>2. PICK n \in Nat, r \in BOOLEAN : n = cnt[b] - 1 /\ r = TRUE /\ FetchModify(t, b, n, r)
    BY <1>6, <2>1, Zenon
  <2>3. QED
    BY <1>5, <2>1, <2>2, FetchKnowledge
<1>8. /\ cnt' \in [Buffers -> Nat] /\ cnt'[b] = cnt[b] - 1
      /\ \A d \in Buffers \ {b} : cnt'[d] = cnt[d]
  BY <1>0, <1>5, <1>6, <1>7 DEF TypeOK
<1>9. /\ tmp'[t] = NewRepr /\ \A u \in Threads \ {t} : tmp'[u] = tmp[u]
      /\ tmp' \in [Threads -> Repr]
  BY <1>0, <1>1, ReprType DEF TypeOK
<1>10. /\ repr' \in [Handles -> Repr]
       /\ op[t] = "panic" => repr' = repr
       /\ op[t] # "panic" => repr'[h] = tmp[t] /\ \A g \in Handles \ {h} : repr'[g] = repr[g]
  BY <1>0, <1>1, <1>2, <1>3 DEF TypeOK
<1>11. ASSUME NEW d \in Buffers
       PROVE  Refs(d)' = IF op[t] = "panic" THEN Refs(d) \ {t}
                         ELSE (Refs(d) \ {t, h}) \cup (IF c = d THEN {h} ELSE {})
  <2>1. CASE op[t] = "panic"
    BY <1>a, <1>2, <1>9, <1>10, <2>1 DEF Refs, NewRepr, InlineRepr
  <2>2. CASE op[t] # "panic"
    BY <1>a, <1>2, <1>3, <1>9, <1>10, <2>2 DEF Refs, NewRepr, InlineRepr
  <2>3. QED
    BY <2>1, <2>2
<1>12. op[t] = "panic" => c = b
  BY <1>a
<1>13. \A d \in Buffers : t \in Refs(d) <=> c = d
  BY <1>a, <1>2 DEF Refs
<1>14. op[t] # "panic" => \A d \in Buffers : h \in Refs(d) <=> b = d
  BY <1>2, <1>3 DEF Refs
<1>15. /\ Refs(b)' = IF op[t] # "panic" /\ c = b THEN Refs(b) \ {t} ELSE Refs(b) \ {y}
       /\ op[t] # "panic" /\ c \in Buffers \ {b} => Refs(c)' = (Refs(c) \ {t}) \cup {h}
       /\ \A d \in Buffers \ {b, c} : Refs(d)' = Refs(d)
  BY <1>a, <1>2, <1>3, <1>5, <1>11, <1>12, <1>13, <1>14
<1>16. \A d \in Buffers : Refs(d)' # {} => Refs(d) # {}
  BY <1>2, <1>3, <1>11, <1>13
<1>17. IsFiniteSet(Refs(b)) /\ Cardinality(Refs(b)) = cnt[b]
  BY <1>0, <1>6, RefsFinite DEF RefCount
<1>18. Cardinality(Refs(b)') = cnt[b] - 1 /\ IsFiniteSet(Refs(b)')
  <2>1. PICK z \in Refs(b) : Refs(b)' = Refs(b) \ {z}
    BY <1>4, <1>5, <1>15
  <2>2. QED
    BY <1>17, <2>1, FS_RemoveElement
<1>19. /\ \/ pc'[t] = "free" /\ op'[t] = op[t] /\ arg'[t] = h /\ cnt[b] = 1
          \/ pc'[t] = "write" /\ op'[t] = op[t] /\ arg'[t] = h /\ op[t] \in WriteLater /\ cnt[b] # 1
          \/ pc'[t] = "idle" /\ op'[t] = "none" /\ op[t] \notin WriteLater /\ cnt[b] # 1
       /\ \A u \in Threads \ {t} : pc'[u] = pc[u] /\ op'[u] = op[u] /\ arg'[u] = arg[u] /\ old'[u] = old[u]
       /\ old'[t] = IF cnt[b] = 1 THEN b ELSE NoBuf
  BY <1>0, <1>a, <1>1 DEF Goto, Enter, AfterOwned, TypeOK, Locals
<1>20. NoDangling'
  <2>1. \A d \in Buffers : Refs(d)' # {} => d \in live
    BY <1>0, <1>16 DEF NoDangling
  <2>2. ASSUME NEW u \in Threads, pc'[u] = "free"
        PROVE  old'[u] \in live /\ Refs(old[u])' = {} /\ \A w \in Threads : old'[w] = old'[u] => w = u
    <3>1. CASE u # t
      <4>1. pc[u] = "free" /\ old'[u] = old[u] /\ old[u] \in Buffers
        BY <1>0, <1>19, <2>2, <3>1 DEF Locals
      <4>2. old[u] \in live /\ Refs(old[u]) = {} /\ \A w \in Threads : old[w] = old[u] => w = u
        BY <1>0, <4>1 DEF NoDangling
      <4>3. old[u] # b
        BY <1>5, <4>2
      <4>4. QED
        BY <1>16, <1>19, <4>1, <4>2, <4>3
    <3>2. CASE u = t
      <4>1. cnt[b] = 1 /\ old'[t] = b
        BY <1>19, <2>2, <3>2
      <4>2. Refs(b)' = {}
        BY <1>18, <4>1, FS_EmptySet
      <4>3. \A w \in Threads \ {t} : old[w] # b
        BY <1>0, <1>5 DEF NoDangling, Locals
      <4>4. QED
        BY <1>6, <1>19, <3>2, <4>1, <4>2, <4>3
    <3>3. QED
      BY <3>1, <3>2
  <2>3. live' = live
    BY <1>1
  <2>4. QED
    BY <2>1, <2>2, <2>3 DEF NoDangling
<1>21. RefCount'
  <2> SUFFICES ASSUME NEW d \in live PROVE cnt'[d] = Cardinality(Refs(d)')
    BY <1>1 DEF RefCount
  <2>0. d \in Buffers /\ cnt[d] = Cardinality(Refs(d)) /\ IsFiniteSet(Refs(d))
    BY <1>0, RefsFinite DEF TypeOK, RefCount
  <2>1. CASE d = b
    BY <1>8, <1>18, <2>1
  <2>2. CASE d # b /\ d = c /\ op[t] # "panic"
    <3>1. t \in Refs(d) /\ h \notin Refs(d) \ {t} /\ Refs(d)' = (Refs(d) \ {t}) \cup {h}
      BY <1>13, <1>14, <1>15, <2>0, <2>2
    <3>2. IsFiniteSet(Refs(d) \ {t}) /\ Cardinality(Refs(d) \ {t}) = cnt[d] - 1
      BY <2>0, <3>1, FS_RemoveElement
    <3>3. Cardinality((Refs(d) \ {t}) \cup {h}) = (cnt[d] - 1) + 1
      BY <3>1, <3>2, FS_AddElement
    <3>4. QED
      BY <1>0, <1>8, <2>0, <2>2, <3>1, <3>3 DEF TypeOK
  <2>3. CASE d # b /\ d # c
    BY <1>8, <1>15, <2>0, <2>3
  <2>4. QED
    BY <1>12, <2>1, <2>2, <2>3
<1>22. NoLeak'
  <2> SUFFICES ASSUME NEW d \in live, Refs(d)' = {}
               PROVE  \E u \in Threads : pc'[u] = "free" /\ old'[u] = d
    BY <1>1 DEF NoLeak
  <2>1. CASE d = b
    <3>1. cnt[b] = 1
      BY <1>6, <1>18, <2>1, FS_EmptySet
    <3>2. QED
      BY <1>19, <2>1, <3>1
  <2>2. CASE d # b
    <3>1. d \in Buffers /\ Refs(d) = {}
      BY <1>0, <1>12, <1>15, <2>2 DEF TypeOK
    <3>2. PICK u \in Threads : pc[u] = "free" /\ old[u] = d
      BY <1>0, <3>1 DEF NoLeak
    <3>3. QED
      BY <1>1, <1>19, <3>2
  <2>3. QED
    BY <2>1, <2>2
<1>23. /\ op[t] # "drop" => \A x : Users(x)' = Users(x)
       /\ \A x : x # h => Users(x)' = Users(x)
       /\ op[t] = "drop" => c = NoBuf
  <2>1. op[t] # "drop" => owner' = owner
    BY <1>1
  <2>2. \A g \in Handles \ {h} : owner'[g] = owner[g]
    BY <1>0, <1>1 DEF TypeOK
  <2>3. op[t] = "drop" => c = NoBuf
    BY <1>0, <1>a DEF Locals, NewRepr, InlineRepr
  <2>4. QED
    BY <1>1, <2>1, <2>2, <2>3 DEF Users, Accessors
\* Every reference after the step has the users of one before it.
<1>24. ASSUME NEW d \in Buffers, NEW z \in Refs(d)'
       PROVE  \E w \in Refs(d) : Users(z)' = Users(w)
  <2>1. CASE z \in Refs(d) /\ (z # h \/ op[t] # "drop")
    BY <1>23, <2>1
  <2>2. CASE op[t] # "panic" /\ z = h /\ c = d
    BY <1>3, <1>4, <1>23, <2>2
  <2>3. QED
    BY <1>11, <1>23, <2>1, <2>2
<1>25. \A d \in Buffers : \A w \in Refs(d) : Users(w) \subseteq Threads
  BY <1>0, RefsFinite DEF Users, Accessors, TypeOK
<1>26. OldOneKnown'
  BY <1>7, <1>24 DEF OldOneKnown
<1>27. WritesKnown'
  <2> SUFFICES ASSUME NEW d \in Buffers, NEW z \in Refs(d)', NEW u \in Users(z)'
               PROVE  unk'[u] \cap WritesAt(d) = {}
    BY DEF WritesKnown
  <2>1. WritesAt(d) \subseteq Accesses
    BY DEF WritesAt, Accesses
  <2>2. PICK w \in Refs(d) : u \in Users(w)
    BY <1>24
  <2>3. unk[u] \cap WritesAt(d) = {} /\ u \in Threads
    BY <1>0, <1>25, <2>2 DEF WritesKnown
  <2>4. QED
    BY <1>7, <2>1, <2>3
<1>28. AccessesKept'
  <2> SUFFICES ASSUME NEW d \in live, NEW a \in AccessesAt(d), a \notin carried'[d]
               PROVE  \E z \in Refs(d)' : \E u \in Users(z)' : a \notin unk'[u]
    BY <1>1 DEF AccessesKept
  <2>0. d \in Buffers /\ a \in Accesses
    BY <1>0, FactType DEF TypeOK
  <2>1a. PICK w \in Refs(d) : \E u \in Users(w) : a \notin unk[u]
    BY <1>0, <1>7, <2>0 DEF AccessesKept
  <2>1. PICK u \in Users(w) : a \notin unk[u]
    BY <2>1a
  <2>2. u \in Threads /\ a \notin unk'[u]
    BY <1>7, <1>25, <2>0, <2>1
  <2>3. ~(d = b /\ u = t)
    BY <1>7, <2>1
  <2>4. CASE w \notin {t, h}
    BY <1>11, <1>23, <2>0, <2>1, <2>2, <2>4
  <2>5. CASE w = t
    <3>1. c = d /\ u = t
      BY <1>4, <1>13, <2>0, <2>1, <2>5
    <3>2. op[t] # "panic" /\ op[t] # "drop"
      BY <1>12, <1>23, <2>0, <2>3, <3>1
    <3>3. h \in Refs(d)' /\ Users(h)' = {t}
      BY <1>3, <1>11, <1>23, <2>0, <3>1, <3>2
    <3>4. QED
      BY <2>2, <3>1, <3>3
  <2>6. CASE w = h /\ op[t] # "panic"
    BY <1>3, <1>14, <2>0, <2>1, <2>3, <2>6
  <2>7. CASE w = h /\ w # t /\ op[t] = "panic"
    BY <1>11, <1>23, <2>0, <2>1, <2>2, <2>7
  <2>8. QED
    BY <2>4, <2>5, <2>6, <2>7
<1>29. Alone'
  <2> SUFFICES ASSUME NEW u \in Threads, Relied(u)' # NoBuf
               PROVE  Refs(Relied(u))' = {Holder(u)'} /\ unk'[u] \cap AccessesAt(Relied(u)') = {}
    BY DEF Alone
  <2>1. CASE u = t
    <3>1. op[t] \in WriteLater /\ op[t] # "panic" /\ pc'[t] \in {"free", "write"} /\ arg'[t] = h
      BY <1>19, <2>1 DEF Relied, WriteLater
    <3>2. Relied(t)' = c /\ Holder(t)' = h
      BY <1>a, <1>10, <1>19, <3>1 DEF Relied, Holder, MyBuf
    <3>3. Relied(t) = c /\ Holder(t) = t
      BY <1>a, <1>1, <3>1 DEF Relied, Holder
    <3>4. Refs(c) = {t} /\ unk[t] \cap AccessesAt(c) = {} /\ c \in Buffers
      BY <1>0, <1>2, <2>1, <3>2, <3>3 DEF Alone
    <3>5. c # b
      BY <1>2, <1>3, <3>1, <3>4
    <3>6. Refs(c)' = {h}
      BY <1>15, <3>1, <3>4, <3>5
    <3>7. AccessesAt(c) \subseteq Accesses
      BY <3>4, FactType
    <3>8. QED
      BY <1>7, <2>1, <3>2, <3>4, <3>6, <3>7
  <2>2. CASE u # t
    <3>1. pc[u] \in {"write", "resize", "into"} \/ (pc[u] = "free" /\ op[u] \in WriteLater)
            => arg[u] \in Handles /\ owner[arg[u]] = u
      BY <1>0 DEF Locals, Holds, AtHeap, WriteLater
    <3>2. Relied(u)' = Relied(u) /\ Holder(u)' = Holder(u)
      BY <1>3, <1>9, <1>10, <1>19, <2>2, <3>1 DEF Relied, Holder, MyBuf
    <3>3. Relied(u) \in Buffers
      BY <1>0, <2>2, <3>2, ReliedType
    <3>4. Relied(u) # b
      BY <1>0, <1>5, <2>2, NotRelied
    <3>5. Relied(u) # c
      BY <1>0, <1>2, <1>4, <2>2, <3>3, NotRelied
    <3>6. Refs(Relied(u)) = {Holder(u)} /\ unk[u] \cap AccessesAt(Relied(u)) = {}
      BY <1>0, <3>2 DEF Alone
    <3>7. Refs(Relied(u))' = Refs(Relied(u))
      BY <1>15, <3>2, <3>3, <3>4, <3>5
    <3>8. AccessesAt(Relied(u)) \subseteq Accesses
      BY <3>3, FactType
    <3>9. QED
      BY <1>7, <3>2, <3>6, <3>7, <3>8
  <2>3. QED
    BY <2>1, <2>2
<1>30. DeadForgotten'
  BY <1>1, <1>7 DEF DeadForgotten
<1>31. TypeOK'
  <2>1. owner' \in [Handles -> Threads \cup {Nobody}] /\ old' \in [Threads -> Buffers \cup {NoBuf}]
    BY <1>0, <1>1, <1>5 DEF TypeOK
  <2>2. pc' \in [Threads -> PCs] /\ op' \in [Threads -> Ops] /\ arg' \in [Threads -> Handles \cup {Nobody}]
    BY <1>0, <1>1 DEF Goto, Enter, AfterOwned, TypeOK, PCs, Ops
  <2>3. QED
    BY <1>0, <1>1, <1>7, <1>8, <1>9, <1>10, <2>1, <2>2 DEF TypeOK
<1>32. Locals'
  <2> SUFFICES ASSUME NEW u \in Threads PROVE Locals!(u)'
    BY DEF Locals
  <2>1. CASE u = t
    <3>1. op[t] # "panic" /\ op[t] # "drop" => owner'[h] = t /\ lent'[h] = {} /\ h \in Handles
      BY <1>1, <1>3
    <3>2. QED
      BY <1>0, <1>1, <1>5, <1>9, <1>19, <2>1, <3>1 DEF Locals, Holds, AtHeap, WriteLater
  <2>2. CASE u # t
    <3>1. Holds(u) => arg[u] \in Handles /\ owner[arg[u]] = u
      BY <1>0 DEF Locals
    <3>2. Holds(u) => repr'[arg[u]] = repr[arg[u]] /\ owner'[arg[u]] = u /\ lent'[arg[u]] = lent[arg[u]]
      <4>1. CASE op[t] = "panic"
        BY <1>1, <3>1, <4>1
      <4>2. CASE op[t] # "panic"
        BY <1>0, <1>1, <1>3, <1>10, <2>2, <3>1, <4>2 DEF TypeOK
      <4>3. QED
        BY <4>1, <4>2
    <3>3. QED
      BY <1>0, <1>1, <1>9, <1>19, <2>2, <3>1, <3>2 DEF Locals, Holds, AtHeap, MyBuf
  <2>3. QED
    BY <2>1, <2>2
<1>33. Ownership'
  <2>1. CASE op[t] = "drop"
    <3>1. tmp[t] = NewRepr
      BY <1>0, <2>1 DEF Locals
    <3>2. QED
      BY <1>0, <1>1, <1>3, <1>10, <2>1, <3>1 DEF Ownership, TypeOK
  <2>2. CASE op[t] # "drop"
    BY <1>0, <1>1, <1>3, <1>10, <2>2 DEF Ownership, TypeOK
  <2>3. QED
    BY <2>1, <2>2
<1>34. QED
  BY <1>7, <1>20, <1>21, <1>22, <1>26, <1>27, <1>28, <1>29, <1>30, <1>31, <1>32, <1>33 DEF IInv

\* dealloc by the thread that gave up the last reference.
LEMMA FreeStep ==
    ASSUME IInv, NEW t \in Threads, Free(t)
    PROVE  IInv'
<1>0. /\ TypeOK /\ Locals /\ Ownership /\ NoDangling /\ RefCount /\ NoLeak /\ Alone
      /\ OwnKnown /\ OldOneKnown /\ WritesKnown /\ AccessesKept /\ DeadForgotten
  BY DEF IInv
<1> DEFINE b == old[t]
<1>1. /\ pc[t] = "free" /\ Deallocate(t, b) /\ old' = [old EXCEPT ![t] = NoBuf]
      /\ UNCHANGED <<handles, tmp>>
  BY DEF Free
<1>2. b \in Buffers /\ b \in live /\ Refs(b) = {} /\ \A u \in Threads : old[u] = b => u = t
  BY <1>0, <1>1 DEF NoDangling, Locals
<1>3. /\ live' = live \ {b} /\ cnt' = [cnt EXCEPT ![b] = 0]
      /\ data' = [data EXCEPT ![b] = Empty] /\ carried' = [carried EXCEPT ![b] = {}]
  BY <1>1 DEF Deallocate
<1>4. /\ \A u \in Threads : unk'[u] \subseteq unk[u] /\ unk'[u] \cap FactsAt(b) = {}
      /\ unk' \in [Threads -> SUBSET Facts]
  BY <1>0, <1>1 DEF Deallocate, Acquired, TypeOK
<1>5. \A c : Refs(c)' = Refs(c)
  BY <1>1, RefsFrame DEF handles
<1>6. \A x : Users(x)' = Users(x)
  BY <1>1 DEF Users, Accessors, handles
<1>7. /\ \/ pc'[t] = "write" /\ op'[t] = op[t] /\ arg'[t] = arg[t] /\ op[t] \in WriteLater
         \/ pc'[t] = "idle" /\ op'[t] = "none" /\ op[t] \notin WriteLater
      /\ \A u \in Threads \ {t} : pc'[u] = pc[u] /\ op'[u] = op[u] /\ arg'[u] = arg[u] /\ old'[u] = old[u]
      /\ old'[t] = NoBuf
  BY <1>0, <1>1 DEF Free, Goto, Enter, AfterOwned, TypeOK
<1>8. NoDangling'
  <2>1. \A c \in Buffers : Refs(c)' # {} => c \in live'
    BY <1>0, <1>2, <1>3, <1>5 DEF NoDangling
  <2>2. ASSUME NEW u \in Threads, pc'[u] = "free"
        PROVE  old'[u] \in live' /\ Refs(old[u])' = {} /\ \A w \in Threads : old'[w] = old'[u] => w = u
    <3>1. u # t /\ pc[u] = "free" /\ old'[u] = old[u] /\ old[u] \in Buffers
      BY <1>0, <1>7, <2>2 DEF Locals
    <3>2. old[u] \in live /\ Refs(old[u]) = {} /\ \A w \in Threads : old[w] = old[u] => w = u
      BY <1>0, <3>1 DEF NoDangling
    <3>3. QED
      BY <1>2, <1>3, <1>5, <1>7, <3>1, <3>2
  <2>3. QED
    BY <2>1, <2>2 DEF NoDangling
<1>9. RefCount'
  BY <1>0, <1>3, <1>5 DEF RefCount, TypeOK
<1>10. NoLeak'
  BY <1>0, <1>3, <1>5, <1>7 DEF NoLeak
<1>11. Alone'
  <2> SUFFICES ASSUME NEW u \in Threads, Relied(u)' # NoBuf
               PROVE  Refs(Relied(u)') = {Holder(u)'} /\ unk'[u] \cap AccessesAt(Relied(u)') = {}
    BY <1>5 DEF Alone
  <2>1. Relied(u)' = Relied(u) /\ Holder(u)' = Holder(u)
    <3>1. CASE u = t
      BY <1>1, <1>7, <3>1 DEF Relied, Holder, MyBuf, handles
    <3>2. CASE u # t
      BY <1>1, <1>7, <3>2 DEF Relied, Holder, MyBuf, handles
    <3>3. QED
      BY <3>1, <3>2
  <2>2. QED
    BY <1>0, <1>4, <2>1 DEF Alone
<1>12. \A c \in Buffers : \A w \in Refs(c) : Users(w) \subseteq Threads
  BY <1>0, RefsFinite DEF Users, Accessors, TypeOK
<1>13. OwnKnown' /\ OldOneKnown' /\ WritesKnown'
  BY <1>0, <1>4, <1>5, <1>6, <1>12 DEF OwnKnown, OldOneKnown, WritesKnown
<1>14. AccessesKept'
  <2> SUFFICES ASSUME NEW c \in live', NEW a \in AccessesAt(c)
               PROVE  a \in carried'[c] \/ \E x \in Refs(c) : \E u \in Users(x) : a \notin unk'[u]
    BY <1>5, <1>6 DEF AccessesKept
  <2>1. c \in live /\ c \in Buffers /\ carried'[c] = carried[c]
    BY <1>0, <1>3 DEF TypeOK
  <2>2. QED
    BY <1>0, <1>4, <1>12, <2>1 DEF AccessesKept
<1>15. DeadForgotten'
  <2> SUFFICES ASSUME NEW c \in Buffers \ live', NEW u \in Threads
               PROVE  unk'[u] \cap FactsAt(c) = {}
    BY DEF DeadForgotten
  <2>1. QED
    BY <1>0, <1>3, <1>4 DEF DeadForgotten
<1>16. TypeOK'
  <2>1. /\ live' \in SUBSET Buffers /\ cnt' \in [Buffers -> Nat] /\ data' \in [Buffers -> Texts]
        /\ carried' \in [Buffers -> SUBSET Accesses] /\ old' \in [Threads -> Buffers \cup {NoBuf}]
    BY <1>0, <1>1, <1>3 DEF TypeOK
  <2>2. pc' \in [Threads -> PCs] /\ op' \in [Threads -> Ops] /\ arg' \in [Threads -> Handles \cup {Nobody}]
    BY <1>0 DEF Free, Goto, Enter, AfterOwned, TypeOK, PCs, Ops
  <2>3. QED
    BY <1>0, <1>1, <1>4, <2>1, <2>2 DEF TypeOK, handles
<1>17. Locals'
  <2> SUFFICES ASSUME NEW u \in Threads PROVE Locals!(u)'
    BY DEF Locals
  <2>1. CASE u = t
    BY <1>0, <1>1, <1>7, <2>1 DEF Locals, Holds, AtHeap, handles, WriteLater
  <2>2. CASE u # t
    BY <1>0, <1>1, <1>7, <2>2 DEF Locals, Holds, AtHeap, MyBuf, handles
  <2>3. QED
    BY <2>1, <2>2
<1>18. Ownership'
  BY <1>0, <1>1 DEF Ownership, handles
<1>19. QED
  BY <1>8, <1>9, <1>10, <1>11, <1>13, <1>14, <1>15, <1>16, <1>17, <1>18 DEF IInv

-----------------------------------------------------------------------------
(* The theorems.                                                           *)

\* The invariant holds initially.
LEMMA InitIInv == Init => IInv
<1> SUFFICES ASSUME Init PROVE IInv
  OBVIOUS
<1>1. \A b \in Buffers : Refs(b) = {}
  BY DEF Init, Refs, NewRepr, InlineRepr
<1>2. TypeOK
  BY ReprType DEF Init, TypeOK, PCs, Ops
<1>3. Locals /\ Ownership
  BY DEF Init, Locals, Ownership, Holds, AtHeap
<1>4. NoDangling /\ RefCount /\ NoLeak
  BY <1>1 DEF Init, NoDangling, RefCount, NoLeak
<1>5. Alone
  BY DEF Init, Alone, Relied
<1>6. OwnKnown /\ OldOneKnown /\ WritesKnown /\ AccessesKept /\ DeadForgotten
  BY <1>1 DEF Init, OwnKnown, OldOneKnown, WritesKnown, AccessesKept, DeadForgotten
<1>7. QED
  BY <1>2, <1>3, <1>4, <1>5, <1>6 DEF IInv

\* Every step keeps the invariant.
LEMMA NextIInv == IInv /\ [Next]_vars => IInv'
<1> SUFFICES ASSUME IInv, [Next]_vars PROVE IInv'
  OBVIOUS
<1>1. CASE UNCHANGED vars
  BY <1>1 DEF vars, IInv, TypeOK, Locals, Ownership, NoDangling, RefCount, NoLeak, Alone, OwnKnown,
     OldOneKnown, WritesKnown, AccessesKept, DeadForgotten, Refs, Users, Accessors, Relied, Holder,
     Holds, MyBuf
<1>2. ASSUME NEW t \in Threads, Step(t) PROVE IInv'
  BY <1>2, CheckStep, RecheckStep, ShareStep, CopyInlineStep, CopyHeapStep, CopyFailsStep,
     ResizeStep, IntoStep, WriteStep, ReleaseStep, FreeStep DEF Step
<1>3. ASSUME NEW t \in Threads, Call(t) PROVE IInv'
  <2>1. PICK h \in Handles :
    \/ \E v \in Texts : NewInline(t, h, v) \/ EditInline(t, h, v)
    \/ \E b \in Buffers, v \in Texts : NewHeap(t, h, b, v) \/ MoveToHeap(t, h, b, v)
    \/ \E u \in Threads : Send(t, u, h) \/ Lend(t, u, h) \/ EndLend(t, u, h)
    \/ \E k \in Handles : Clone(t, h, k) \/ CloneFrom(t, h, k)
    \/ \E o \in Ops : Begin(t, h, o)
    \/ Read(t, h) \/ DropInline(t, h) \/ Drop(t, h)
    BY <1>3 DEF Call
  <2>2. CASE \E v \in Texts : NewInline(t, h, v) \/ EditInline(t, h, v)
    BY <2>2, NewInlineStep, EditInlineStep
  <2>3. CASE \E b \in Buffers, v \in Texts : NewHeap(t, h, b, v) \/ MoveToHeap(t, h, b, v)
    BY <2>3, NewHeapStep, MoveToHeapStep
  <2>4. CASE \E u \in Threads : Send(t, u, h) \/ Lend(t, u, h) \/ EndLend(t, u, h)
    BY <2>4, SendStep, LendStep, EndLendStep
  <2>5. CASE \E k \in Handles : Clone(t, h, k) \/ CloneFrom(t, h, k)
    BY <2>5, CloneStep, CloneFromStep
  <2>6. CASE \E o \in Ops : Begin(t, h, o)
    BY <2>6, BeginStep
  <2>7. CASE Read(t, h) \/ DropInline(t, h) \/ Drop(t, h)
    BY <2>7, ReadStep, DropInlineStep, DropStep
  <2>8. QED
    BY <2>1, <2>2, <2>3, <2>4, <2>5, <2>6, <2>7
<1>4. QED
  BY <1>1, <1>2, <1>3 DEF Next

\* The inductive invariant is an invariant of the protocol of make_shallow_clone,
\* is_unique, reallocate, replace_inner and release.
THEOREM Invariance == Spec => []IInv
BY InitIInv, NextIInv, PTL DEF Spec

\* Type correctness of every reachable state.
THEOREM TypeCorrect == Spec => []TypeOK
<1>1. IInv => TypeOK
  BY DEF IInv
<1>2. QED
  BY <1>1, Invariance, PTL

\* The reference count of a buffer is always the number of its references
\* (make_shallow_clone, replace_inner, drop_in, release).
THEOREM CountsAreExact == Spec => []RefCount
<1>1. IInv => RefCount
  BY DEF IInv
<1>2. QED
  BY <1>1, Invariance, PTL

\* No use after free and no double free (release, dealloc).
THEOREM NothingDangles == Spec => []NoDangling
<1>1. IInv => NoDangling
  BY DEF IInv
<1>2. QED
  BY <1>1, Invariance, PTL

\* No buffer is left behind (release and its callers).
THEOREM NothingLeaks == Spec => []NoLeak
<1>1. IInv => NoLeak
  BY DEF IInv
<1>2. QED
  BY <1>1, Invariance, PTL

\* Who acts on a positive answer of is_unique is alone with the buffer when acting.
THEOREM UniquenessHolds == Spec => []UniqueIsUnique
<1>1. IInv => UniqueIsUnique
  <2> SUFFICES ASSUME IInv, NEW t \in Threads,
                      pc[t] \in {"write", "resize", "into"}, MyBuf(t) # NoBuf
               PROVE  Refs(MyBuf(t)) = {arg[t]} /\ Accessors(arg[t]) = {t}
    BY DEF UniqueIsUnique
  <2>1. arg[t] \in Handles /\ owner[arg[t]] = t /\ lent[arg[t]] = {}
    BY UsesOwnBuffer DEF AtHeap
  <2>2. Accessors(arg[t]) = {t}
    BY <2>1 DEF Accessors
  <2>3. Refs(MyBuf(t)) = {arg[t]}
    BY DEF IInv, Alone, Relied, Holder
  <2>4. QED
    BY <2>2, <2>3
<1>2. QED
  BY <1>1, Invariance, PTL

\* Relaxed in make_shallow_clone, Acquire in is_unique and Release with an Acquire
\* fence in release exclude every data race on a buffer.
THEOREM RaceFree == Spec => []NoDataRace
<1>1. IInv => NoDataRace
  <2> SUFFICES ASSUME IInv PROVE NoDataRace
    OBVIOUS
  <2>0. TypeOK /\ Locals /\ NoDangling /\ Alone /\ WritesKnown /\ AccessesKept
    BY DEF IInv
  <2>1. ASSUME NEW t \in Threads, pc[t] \in {"write", "resize", "into"}, MyBuf(t) # NoBuf
        PROVE  unk[t] \cap AccessesAt(MyBuf(t)) = {}
    BY <2>0, <2>1 DEF Alone, Relied
  <2>2. ASSUME NEW t \in Threads, pc[t] = "free"
        PROVE  Acquired(t, old[t]) \cap AccessesAt(old[t]) = {}
    <3>1. old[t] \in live /\ Refs(old[t]) = {}
      BY <2>0, <2>2 DEF NoDangling
    <3>2. AccessesAt(old[t]) \subseteq carried[old[t]]
      BY <2>0, <3>1 DEF AccessesKept
    <3>3. QED
      BY <3>2 DEF Acquired
  <2>3. ASSUME NEW h \in Handles, OnHeap(h), NEW t \in Accessors(h)
        PROVE  unk[t] \cap WritesAt(repr[h].buf) = {}
    <3>1. repr[h].buf \in Buffers /\ h \in Refs(repr[h].buf) /\ t \in Users(h)
      BY <2>0, <2>3 DEF TypeOK, Repr, OnHeap, Refs, Users
    <3>2. QED
      BY <2>0, <3>1 DEF WritesKnown
  <2>4. QED
    BY <2>1, <2>2, <2>3 DEF NoDataRace
<1>2. QED
  BY <1>1, Invariance, PTL

=============================================================================
