------------------------- MODULE SharedValuesProofs -------------------------
(***************************************************************************)
(* Three more theorems about SharedBuffer, for every number of threads,    *)
(* handles and buffers: the count stays near its limit, copy on write      *)
(* implements the independent string values of StringValues, and a text    *)
(* changes only by the edit an operation is for.  All rest on the          *)
(* inductive invariant of SharedBufferProofs.                              *)
(***************************************************************************)
EXTENDS SharedBufferProofs

USE ConstantsAssumption

-----------------------------------------------------------------------------
(* The count stays near its limit.                                         *)

\* The threads on the overflow path are finitely many.
LEMMA PanickingFinite ==
    \A b : /\ IsFiniteSet(Panicking(b))
           /\ Cardinality(Panicking(b)) \in Nat
           /\ Cardinality(Panicking(b)) <= Cardinality(Threads)
<1>1. \A b : Panicking(b) \subseteq Threads
  BY DEF Panicking
<1>2. QED
  BY <1>1, FS_Subset, FS_CardinalityType, Zenon

\* A step of a thread that is not on the overflow path raises no count past the limit
\* unless it enters that path by it.
LEMMA SlackKept ==
    ASSUME TypeOK, TypeOK', CountSlack, NEW t \in Threads,
           pc[t] = "release" => op[t] # "panic",
           \A u \in Threads \ {t} : pc'[u] = pc[u] /\ op'[u] = op[u] /\ tmp'[u] = tmp[u],
           \A b \in Buffers : \/ cnt'[b] <= cnt[b]
                              \/ cnt'[b] <= RefLimit + 1
                              \/ cnt'[b] = cnt[b] + 1 /\ t \in Panicking(b)'
    PROVE  CountSlack'
<1> SUFFICES ASSUME NEW b \in Buffers
             PROVE  cnt'[b] <= RefLimit + 1 + Cardinality(Panicking(b)')
  BY DEF CountSlack
<1>1. t \notin Panicking(b) /\ Panicking(b)' \ {t} = Panicking(b)
  BY DEF Panicking
<1>2. /\ cnt[b] \in Nat /\ cnt'[b] \in Nat
      /\ cnt[b] <= RefLimit + 1 + Cardinality(Panicking(b))
  BY DEF TypeOK, CountSlack
<1>3. /\ IsFiniteSet(Panicking(b)) /\ IsFiniteSet(Panicking(b)')
      /\ Cardinality(Panicking(b)) \in Nat /\ Cardinality(Panicking(b)') \in Nat
  <2>1. Panicking(b) \subseteq Threads /\ Panicking(b)' \subseteq Threads
    BY DEF Panicking
  <2>2. QED
    BY <2>1, FS_Subset, FS_CardinalityType
<1>4. CASE t \in Panicking(b)'
  <2>1. Panicking(b)' = Panicking(b) \cup {t}
    BY <1>1, <1>4
  <2>2. Cardinality(Panicking(b)') = Cardinality(Panicking(b)) + 1
    BY <1>1, <1>3, <2>1, FS_AddElement
  <2>3. QED
    BY <1>2, <1>3, <2>2
<1>5. CASE t \notin Panicking(b)'
  <2>1. Panicking(b)' = Panicking(b)
    BY <1>1, <1>5
  <2>2. QED
    BY <1>2, <1>3, <1>5, <2>1
<1>6. QED
  BY <1>4, <1>5

\* make_shallow_clone: past the limit the thread is on the overflow path at once.
LEMMA SlackShallowClone ==
    ASSUME TypeOK, TypeOK', CountSlack, NEW t \in Threads, pc[t] # "release",
           NEW h, NEW r \in Repr, r.buf \in Buffers, NEW o, ShallowClone(t, h, r, o)
    PROVE  CountSlack'
<1>1. \A u \in Threads \ {t} : pc'[u] = pc[u] /\ op'[u] = op[u] /\ tmp'[u] = tmp[u]
  BY DEF ShallowClone, Enter, TypeOK
<1>2. /\ \A b \in Buffers \ {r.buf} : cnt'[b] = cnt[b]
      /\ cnt'[r.buf] = cnt[r.buf] + 1
  BY DEF ShallowClone, FetchAdd, FetchModify, TypeOK
<1>3. cnt[r.buf] > RefLimit => t \in Panicking(r.buf)'
  BY DEF ShallowClone, Enter, RefCountOverflows, Panicking, TypeOK
<1>4. \A b \in Buffers : cnt[b] \in Nat
  BY DEF TypeOK
<1>5. QED
  <2>1. \A b \in Buffers : \/ cnt'[b] <= cnt[b]
                           \/ cnt'[b] <= RefLimit + 1
                           \/ cnt'[b] = cnt[b] + 1 /\ t \in Panicking(b)'
    BY <1>2, <1>3, <1>4
  <2>2. QED
    BY <1>1, <2>1, SlackKept

\* The calls of a program.
LEMMA SlackCall ==
    ASSUME IInv, IInv', CountSlack, NEW t \in Threads, Call(t)
    PROVE  CountSlack'
<1>0. TypeOK /\ TypeOK' /\ cnt \in [Buffers -> Nat]
  BY DEF IInv, TypeOK
<1> DEFINE Others == \A u \in Threads \ {t} : pc'[u] = pc[u] /\ op'[u] = op[u] /\ tmp'[u] = tmp[u]
           Few == \A b \in Buffers : cnt'[b] <= cnt[b] \/ cnt'[b] <= RefLimit + 1
<1>1. ASSUME Others, Few, pc[t] # "release" PROVE CountSlack'
  BY <1>0, <1>1, SlackKept
<1> HIDE DEF Others, Few
<1>2. ASSUME cnt' = cnt PROVE Few
  BY <1>0, <1>2 DEF Few
<1>3. ASSUME UNCHANGED locals PROVE Others
  BY <1>3 DEF Others, locals
<1>4. ASSUME NEW o, NEW h, NEW p, Enter(t, o, h, p), UNCHANGED tmp PROVE Others
  BY <1>0, <1>4 DEF Others, Enter, TypeOK
<1>5. ASSUME NEW b \in Buffers, NEW v, NEW R, Allocate(t, b, v, R) PROVE Few
  BY <1>0, <1>5 DEF Few, Allocate
<1>6. ASSUME NEW b \in Buffers, FetchAdd(t, b), ~RefCountOverflows(b) PROVE Few
  BY <1>0, <1>6 DEF Few, FetchAdd, FetchModify, RefCountOverflows
<1>7. ASSUME NEW h \in Handles, OnHeap(h) PROVE repr[h] \in Repr /\ repr[h].buf \in Buffers
  BY <1>0, <1>7 DEF TypeOK, Repr, OnHeap
<1>10. PICK h \in Handles :
    \/ \E v \in Texts : NewInline(t, h, v) \/ EditInline(t, h, v)
    \/ \E b \in Buffers, v \in Texts : NewHeap(t, h, b, v) \/ MoveToHeap(t, h, b, v)
    \/ \E u \in Threads : Send(t, u, h) \/ Lend(t, u, h) \/ EndLend(t, u, h)
    \/ \E k \in Handles : Clone(t, h, k) \/ CloneFrom(t, h, k)
    \/ \E o \in Ops : Begin(t, h, o)
    \/ Read(t, h) \/ DropInline(t, h) \/ Drop(t, h)
  BY DEF Call
<1>11. ASSUME NEW v \in Texts, NewInline(t, h, v) \/ EditInline(t, h, v) PROVE CountSlack'
  BY <1>1, <1>2, <1>3, <1>11 DEF NewInline, EditInline, Exclusive, Idle, memory
<1>12. ASSUME NEW b \in Buffers, NEW v \in Texts, NewHeap(t, h, b, v) \/ MoveToHeap(t, h, b, v)
       PROVE  CountSlack'
  BY <1>1, <1>3, <1>5, <1>12 DEF NewHeap, MoveToHeap, Exclusive, Idle
<1>13. ASSUME NEW u \in Threads, Send(t, u, h) \/ Lend(t, u, h) PROVE CountSlack'
  BY <1>1, <1>2, <1>3, <1>13 DEF Send, Lend, Exclusive, Idle, memory
<1>14. ASSUME NEW u \in Threads, EndLend(t, u, h) PROVE CountSlack'
  BY <1>14 DEF EndLend, memory, locals, CountSlack, Panicking
<1>15. ASSUME NEW k \in Handles, Clone(t, h, k) PROVE CountSlack'
  <2>1. CASE OnHeap(h) /\ RefCountOverflows(repr[h].buf) /\ ShallowClone(t, h, repr[h], "panic")
    BY <1>0, <1>7, <1>15, <2>1, SlackShallowClone DEF Clone, Idle
  <2>2. CASE /\ OnHeap(h) => ~RefCountOverflows(repr[h].buf)
             /\ IF OnHeap(h) THEN FetchAdd(t, repr[h].buf) ELSE UNCHANGED <<cnt, unk, carried>>
             /\ UNCHANGED locals
    BY <1>1, <1>2, <1>3, <1>6, <1>7, <1>15, <2>2 DEF Clone, Idle
  <2>3. QED
    BY <1>15, <2>1, <2>2 DEF Clone
<1>16. ASSUME NEW g \in Handles, CloneFrom(t, h, g) PROVE CountSlack'
  <2>0. pc[t] = "idle"
    BY <1>16 DEF CloneFrom, Exclusive, Idle
  <2>1. CASE OnHeap(h) /\ OnHeap(g)
    <3>1. ShallowClone(t, h, repr[g], "assign")
      BY <1>16, <2>1 DEF CloneFrom
    <3>2. QED
      BY <1>0, <1>7, <2>0, <2>1, <3>1, SlackShallowClone
  <2>2. CASE OnHeap(h) /\ ~OnHeap(g)
    <3>1. /\ tmp' = [tmp EXCEPT ![t] = repr[g]]
          /\ Enter(t, "assign", h, "release")
          /\ cnt' = cnt
      BY <1>16, <2>2 DEF CloneFrom, memory
    <3>2. Others
      BY <1>0, <3>1 DEF Others, Enter, TypeOK
    <3>3. QED
      BY <1>1, <1>2, <2>0, <3>1, <3>2
  <2>3. CASE ~OnHeap(h) /\ OnHeap(g) /\ RefCountOverflows(repr[g].buf)
    <3>1. ShallowClone(t, h, repr[g], "panic")
      BY <1>16, <2>3 DEF CloneFrom
    <3>2. QED
      BY <1>0, <1>7, <2>0, <2>3, <3>1, SlackShallowClone
  <2>4. CASE ~OnHeap(h) /\ ~(OnHeap(g) /\ RefCountOverflows(repr[g].buf))
    <3>1. /\ IF OnHeap(g) THEN FetchAdd(t, repr[g].buf) ELSE UNCHANGED <<cnt, unk, carried>>
          /\ UNCHANGED locals
      BY <1>16, <2>4 DEF CloneFrom
    <3>2. QED
      BY <1>1, <1>2, <1>3, <1>6, <1>7, <2>0, <2>4, <3>1
  <2>5. QED
    BY <2>1, <2>2, <2>3, <2>4
<1>17. ASSUME NEW o \in Ops, Begin(t, h, o) PROVE CountSlack'
  BY <1>1, <1>2, <1>4, <1>17 DEF Begin, Exclusive, Idle, memory
<1>18. CASE Read(t, h) \/ DropInline(t, h)
  BY <1>1, <1>2, <1>3, <1>18 DEF Read, DropInline, Exclusive, Idle, memory
<1>19. CASE Drop(t, h)
  BY <1>1, <1>2, <1>4, <1>19 DEF Drop, Exclusive, Idle, memory
<1>20. QED
  BY <1>10, <1>11, <1>12, <1>13, <1>14, <1>15, <1>16, <1>17, <1>18, <1>19

\* The steps inside an operation.
LEMMA SlackInside ==
    ASSUME IInv, IInv', CountSlack, NEW t \in Threads, Step(t)
    PROVE  CountSlack'
<1>0. TypeOK /\ TypeOK' /\ Locals /\ NoDangling /\ cnt \in [Buffers -> Nat]
  BY DEF IInv, TypeOK
<1> DEFINE Others == \A u \in Threads \ {t} : pc'[u] = pc[u] /\ op'[u] = op[u] /\ tmp'[u] = tmp[u]
           Few == \A b \in Buffers : cnt'[b] <= cnt[b] \/ cnt'[b] <= RefLimit + 1
<1>1. ASSUME Others, Few, pc[t] = "release" => op[t] # "panic" PROVE CountSlack'
  BY <1>0, <1>1, SlackKept
<1> HIDE DEF Others, Few
<1>2. ASSUME cnt' = cnt PROVE Few
  BY <1>0, <1>2 DEF Few
<1>4. ASSUME NEW o, NEW h, NEW p, Enter(t, o, h, p), UNCHANGED tmp PROVE Others
  BY <1>0, <1>4 DEF Others, Enter, TypeOK
<1>5. ASSUME NEW o, NEW h, NEW p, Enter(t, o, h, p), NEW r, tmp' = [tmp EXCEPT ![t] = r] PROVE Others
  BY <1>0, <1>5 DEF Others, Enter, TypeOK
<1>6. ASSUME NEW b, Reallocate(t, b) PROVE Few
  BY <1>0, <1>6 DEF Few, Reallocate
<1>11. CASE Check(t) \/ Recheck(t) \/ CopyFails(t)
  BY <1>1, <1>2, <1>4, <1>11 DEF Check, Recheck, CopyFails, Goto, memory
<1>12. CASE Share(t)
  <2>1. arg[t] \in Handles /\ repr[arg[t]] \in Repr /\ repr[arg[t]].buf \in Buffers
    BY <1>0, <1>12 DEF Share, Locals, Holds, AtHeap, MyBuf, TypeOK, Repr
  <2>2. QED
    BY <1>0, <1>12, <2>1, SlackShallowClone DEF Share
<1>13. CASE CopyInline(t)
  BY <1>1, <1>2, <1>5, <1>13 DEF CopyInline, Goto, memory
<1>14. CASE CopyHeap(t)
  <2>1. Few
    BY <1>0, <1>14 DEF CopyHeap, Allocate, Few
  <2>2. QED
    BY <1>1, <1>5, <1>14, <2>1 DEF CopyHeap, Goto
<1>15. CASE Resize(t) \/ Into(t)
  BY <1>1, <1>2, <1>4, <1>6, <1>15 DEF Resize, Into, Goto, memory
<1>16. CASE Write(t)
  BY <1>1, <1>2, <1>4, <1>16 DEF Write, Goto
<1>17. CASE Free(t)
  <2>1. Few
    BY <1>0, <1>17 DEF Free, Deallocate, Few
  <2>2. QED
    BY <1>1, <1>4, <1>17, <2>1 DEF Free, Goto
<1>18. CASE Release(t) /\ op[t] # "panic"
  <2>1. Few
    BY <1>0, <1>18 DEF Release, FetchSub, FetchModify, Few
  <2>2. Others
    BY <1>5, <1>18 DEF Release, Goto
  <2>3. QED
    BY <1>1, <1>18, <2>1, <2>2
<1>19. CASE Release(t) /\ op[t] = "panic"
  <2>0. pc[t] = "release"
    BY <1>19 DEF Release
  <2>1. PICK c \in Buffers : c = tmp[t].buf
    BY <1>0, <1>19, <2>0 DEF Locals, TypeOK, Repr
  <2>2. /\ cnt'[c] = cnt[c] - 1
        /\ \A b \in Buffers \ {c} : cnt'[b] = cnt[b]
    BY <1>0, <1>19, <2>1 DEF Release, FetchSub, FetchModify
  <2>3. Others
    BY <1>5, <1>19 DEF Release, Goto
  <2>4. tmp'[t] = NewRepr /\ t \notin Panicking(c)' /\ t \in Panicking(c)
    BY <1>0, <1>19, <2>0, <2>1 DEF Release, Panicking, NewRepr, InlineRepr, TypeOK
  <2>5. Panicking(c)' = Panicking(c) \ {t}
    BY <2>3, <2>4 DEF Panicking, Others
  <2>6. \A b \in Buffers \ {c} : Panicking(b)' = Panicking(b)
    BY <2>1, <2>3, <2>4 DEF Panicking, Others, NewRepr, InlineRepr
  <2>7. Cardinality(Panicking(c)') = Cardinality(Panicking(c)) - 1
    BY <2>4, <2>5, PanickingFinite, FS_RemoveElement
  <2>8. cnt[c] \in Nat /\ Cardinality(Panicking(c)) \in Nat
    BY <1>0, <2>1, PanickingFinite
  <2>9. QED
    <3> SUFFICES ASSUME NEW b \in Buffers
                 PROVE  cnt'[b] <= RefLimit + 1 + Cardinality(Panicking(b)')
      BY DEF CountSlack
    <3>1. cnt[b] <= RefLimit + 1 + Cardinality(Panicking(b))
      BY DEF CountSlack
    <3>2. QED
      BY <2>2, <2>6, <2>7, <2>8, <3>1
<1>20. QED
  BY <1>11, <1>12, <1>13, <1>14, <1>15, <1>16, <1>17, <1>18, <1>19 DEF Step

\* However many threads clone one string at once, its count runs past the limit of
\* make_shallow_clone by at most one for each of them: it cannot wrap around.
THEOREM CountStaysBounded == Spec => []CountBounded
<1>1. Init => CountSlack
  BY PanickingFinite DEF Init, CountSlack
<1>2. IInv /\ IInv' /\ CountSlack /\ [Next]_vars => CountSlack'
  <2> SUFFICES ASSUME IInv, IInv', CountSlack, [Next]_vars PROVE CountSlack'
    OBVIOUS
  <2>1. CASE UNCHANGED vars
    BY <2>1 DEF vars, CountSlack, Panicking
  <2>2. QED
    BY <2>1, SlackCall, SlackInside DEF Next
<1>3. IInv /\ CountSlack => CountBounded
  <2> SUFFICES ASSUME IInv, CountSlack, NEW b \in Buffers
               PROVE  cnt[b] <= RefLimit + 1 + Cardinality(Threads)
    BY DEF CountBounded
  <2>1. cnt[b] \in Nat /\ Cardinality(Threads) \in Nat
    BY FS_CardinalityType DEF IInv, TypeOK
  <2>2. QED
    BY <2>1, PanickingFinite DEF CountSlack
<1>4. QED
  BY <1>1, <1>2, <1>3, Invariance, PTL DEF Spec

-----------------------------------------------------------------------------
(* Copy on write implements independent string values.                     *)

\* Every handle has a text, before and after a step.
LEMMA HandleTexts ==
    ASSUME TypeOK, TypeOK'
    PROVE  /\ TextOfHandle \in [Handles -> Texts]
           /\ TextOfHandle' \in [Handles -> Texts]
<1>1. ASSUME NEW h \in Handles PROVE TextOf(repr[h]) \in Texts /\ TextOf(repr[h])' \in Texts
  BY DEF TypeOK, Repr, TextOf
<1>2. QED
  BY <1>1 DEF TextOfHandle

\* A handle keeps its text when neither its words nor the bytes behind them change.
LEMMA TextKept ==
    ASSUME TypeOK, NEW k \in Handles, owner'[k] = owner[k], repr'[k] = repr[k],
           repr[k].buf \in Buffers => data'[repr[k].buf] = data[repr[k].buf]
    PROVE  TextOfHandle'[k] = TextOfHandle[k]
<1>1. repr[k].buf \in Buffers \cup {NoBuf}
  BY DEF TypeOK, Repr
<1>2. QED
  BY <1>1 DEF TextOfHandle, TextOf

\* A step that leaves owners and texts alone is a stutter,
LEMMA ImplementsStutter ==
    ASSUME TypeOK, TypeOK', owner' = owner,
           \A k \in Handles : TextOfHandle'[k] = TextOfHandle[k]
    PROVE  UNCHANGED Values!vars
<1>1. TextOfHandle' = TextOfHandle
  BY HandleTexts
<1>2. QED
  BY <1>1 DEF Values!vars

\* and one that changes no text but that of a handle its thread owns is Mutate.
LEMMA ImplementsMutate ==
    ASSUME TypeOK, TypeOK', owner' = owner,
           NEW t \in Threads, NEW h \in Handles, owner[h] = t,
           \A k \in Handles \ {h} : TextOfHandle'[k] = TextOfHandle[k]
    PROVE  Values!Turn(t)
<1>1. TextOfHandle'[h] \in Texts
  BY HandleTexts
<1>2. TextOfHandle' = [TextOfHandle EXCEPT ![h] = TextOfHandle'[h]]
  BY HandleTexts
<1>3. Values!Mutate(t, h, TextOfHandle'[h])
  BY <1>2 DEF Values!Mutate
<1>4. QED
  BY <1>1, <1>3 DEF Values!Turn

\* A step that moves no handle and touches no bytes a handle refers to is a stutter.
LEMMA QuietStep ==
    ASSUME TypeOK, TypeOK', owner' = owner, repr' = repr,
           \A k \in Handles : repr[k].buf \in Buffers => data'[repr[k].buf] = data[repr[k].buf]
    PROVE  UNCHANGED Values!vars
<1>1. \A k \in Handles : TextOfHandle'[k] = TextOfHandle[k]
  BY TextKept
<1>2. QED
  BY <1>1, ImplementsStutter

\* A step of the owner of h that changes only the words of h, and no bytes that another
\* handle refers to, is Mutate.
LEMMA EditStep ==
    ASSUME TypeOK, TypeOK', owner' = owner,
           NEW t \in Threads, NEW h \in Handles, owner[h] = t,
           \A k \in Handles \ {h} :
               /\ repr'[k] = repr[k]
               /\ repr[k].buf \in Buffers => data'[repr[k].buf] = data[repr[k].buf]
    PROVE  Values!Turn(t)
<1>1. \A k \in Handles \ {h} : TextOfHandle'[k] = TextOfHandle[k]
  BY TextKept
<1>2. QED
  BY <1>1, ImplementsMutate

\* No handle refers to the block the allocator hands out.
LEMMA FreshBuffer ==
    ASSUME TypeOK, NoDangling, NEW t, NEW b \in Buffers, NEW v, NEW R, Allocate(t, b, v, R)
    PROVE  /\ \A k \in Handles :
                 repr[k].buf \in Buffers => data'[repr[k].buf] = data[repr[k].buf]
           /\ data'[b] = v
<1>1. ASSUME NEW k \in Handles, repr[k].buf \in Buffers PROVE repr[k].buf # b
  <2>1. k \in Refs(repr[k].buf)
    BY DEF Refs
  <2>2. QED
    BY <1>1, <2>1 DEF NoDangling, Allocate
<1>2. QED
  BY <1>1 DEF Allocate, TypeOK

\* A new handle is a new value.
LEMMA CreateStep ==
    ASSUME TypeOK, TypeOK', NEW t \in Threads, NEW h \in Handles, NEW v \in Texts,
           owner[h] = Nobody, owner' = [owner EXCEPT ![h] = t],
           NEW r, repr' = [repr EXCEPT ![h] = r], TextOfHandle'[h] = v,
           \A k \in Handles \ {h} :
               repr[k].buf \in Buffers => data'[repr[k].buf] = data[repr[k].buf]
    PROVE  Values!Create(t, h, v)
<1>1. \A k \in Handles \ {h} : owner'[k] = owner[k] /\ repr'[k] = repr[k]
  BY DEF TypeOK
<1>2. \A k \in Handles \ {h} : TextOfHandle'[k] = TextOfHandle[k]
  BY <1>1, TextKept
<1>3. TextOfHandle' = [TextOfHandle EXCEPT ![h] = v]
  BY <1>2, HandleTexts
<1>4. QED
  BY <1>3 DEF Values!Create

\* A new inline or heap string is a new value.
LEMMA NewHandleStep ==
    ASSUME TypeOK, TypeOK', NoDangling, NEW t \in Threads, NEW h \in Handles, NEW v \in Texts,
           \/ NewInline(t, h, v)
           \/ \E b \in Buffers : NewHeap(t, h, b, v)
    PROVE  Values!Turn(t)
<1>1. CASE NewInline(t, h, v)
  <2>1. owner'[h] # Nobody /\ repr'[h] = InlineRepr(v)
    BY <1>1 DEF NewInline, TypeOK
  <2>2. TextOfHandle'[h] = v
    BY <2>1 DEF TextOfHandle, TextOf, InlineRepr
  <2>3. Values!Create(t, h, v)
    BY <1>1, <2>2, CreateStep DEF NewInline, memory
  <2>4. QED
    BY <2>3 DEF Values!Turn
<1>2. ASSUME NEW b \in Buffers, NewHeap(t, h, b, v) PROVE Values!Turn(t)
  <2>1. owner'[h] # Nobody /\ repr'[h] = HeapRepr(b)
    BY <1>2 DEF NewHeap, TypeOK
  <2>2. /\ \A k \in Handles : repr[k].buf \in Buffers => data'[repr[k].buf] = data[repr[k].buf]
        /\ data'[b] = v
    BY <1>2, FreshBuffer DEF NewHeap
  <2>3. TextOfHandle'[h] = v
    BY <2>1, <2>2 DEF TextOfHandle, TextOf, HeapRepr
  <2>4. Values!Create(t, h, v)
    BY <1>2, <2>2, <2>3, CreateStep DEF NewHeap
  <2>5. QED
    BY <2>4 DEF Values!Turn
<1>3. QED
  BY <1>1, <1>2

\* Clone: the new handle starts with the text of its source.
LEMMA CloneHandleStep ==
    ASSUME IInv, IInv', NEW t \in Threads, NEW h \in Handles, NEW k \in Handles, Clone(t, h, k)
    PROVE  Values!Clone(t, h, k) \/ UNCHANGED Values!vars
<1>0. TypeOK /\ TypeOK' /\ Ownership
  BY DEF IInv
<1>1. CASE ShallowClone(t, h, repr[h], "panic")
  BY <1>0, <1>1, QuietStep DEF ShallowClone, handles
<1>2. CASE /\ owner' = [owner EXCEPT ![k] = t]
           /\ repr' = [repr EXCEPT ![k] = repr[h]]
           /\ data' = data
  <2>1. owner[h] # Nobody /\ owner[k] = Nobody
    BY <1>0 DEF Clone, Accessors, Ownership
  <2>2. owner'[k] # Nobody /\ repr'[k] = repr[h]
    BY <1>0, <1>2 DEF TypeOK
  <2>3. TextOfHandle'[k] = TextOfHandle[h] /\ TextOfHandle[h] \in Texts
    BY <1>0, <1>2, <2>1, <2>2, HandleTexts DEF TextOfHandle, TextOf
  <2>4. Values!Create(t, k, TextOfHandle[h])
    BY <1>0, <1>2, <2>1, <2>3, CreateStep
  <2>5. QED
    BY <2>1, <2>4 DEF Values!Clone
<1>3. QED
  BY <1>1, <1>2 DEF Clone

\* Dropping a handle ends its value.
LEMMA DropHandleStep ==
    ASSUME TypeOK, TypeOK', NEW t \in Threads, NEW h \in Handles, owner[h] = t,
           owner' = [owner EXCEPT ![h] = Nobody],
           NEW r, repr' = [repr EXCEPT ![h] = r], data' = data
    PROVE  Values!Turn(t)
<1>1. \A k \in Handles \ {h} : owner'[k] = owner[k] /\ repr'[k] = repr[k]
  BY DEF TypeOK
<1>2. \A k \in Handles \ {h} : TextOfHandle'[k] = TextOfHandle[k]
  BY <1>1, TextKept
<1>3. TextOfHandle'[h] = Empty
  BY DEF TextOfHandle, TypeOK
<1>4. TextOfHandle' = [TextOfHandle EXCEPT ![h] = Empty]
  BY <1>2, <1>3, HandleTexts
<1>5. Values!Drop(t, h)
  BY <1>4 DEF Values!Drop
<1>6. QED
  BY <1>5 DEF Values!Turn

\* Every call of a thread is a turn of that thread among the string values or none.
LEMMA CallImplements ==
    ASSUME IInv, IInv', NEW t \in Threads, Call(t)
    PROVE  Values!Turn(t) \/ UNCHANGED Values!vars
<1>0. TypeOK /\ TypeOK' /\ NoDangling
  BY DEF IInv
<1>1. ASSUME owner' = owner, repr' = repr, data' = data PROVE UNCHANGED Values!vars
  BY <1>0, <1>1, QuietStep
<1>2. ASSUME NEW h \in Handles, owner[h] = t, owner' = owner, data' = data,
             NEW r, repr' = [repr EXCEPT ![h] = r]
      PROVE  Values!Turn(t)
  <2>1. \A k \in Handles \ {h} : repr'[k] = repr[k]
    BY <1>0, <1>2 DEF TypeOK
  <2>2. QED
    BY <1>0, <1>2, <2>1, EditStep
<1>10. PICK h \in Handles :
    \/ \E v \in Texts : NewInline(t, h, v) \/ EditInline(t, h, v)
    \/ \E b \in Buffers, v \in Texts : NewHeap(t, h, b, v) \/ MoveToHeap(t, h, b, v)
    \/ \E u \in Threads : Send(t, u, h) \/ Lend(t, u, h) \/ EndLend(t, u, h)
    \/ \E k \in Handles : Clone(t, h, k) \/ CloneFrom(t, h, k)
    \/ \E o \in Ops : Begin(t, h, o)
    \/ Read(t, h) \/ DropInline(t, h) \/ Drop(t, h)
  BY DEF Call
<1>11. ASSUME NEW v \in Texts,
              NewInline(t, h, v) \/ \E b \in Buffers : NewHeap(t, h, b, v)
       PROVE  Values!Turn(t)
  BY <1>0, <1>11, NewHandleStep
<1>12. ASSUME NEW v \in Texts, EditInline(t, h, v) PROVE Values!Turn(t)
  BY <1>2, <1>12 DEF EditInline, Exclusive, memory
<1>13. ASSUME NEW b \in Buffers, NEW v \in Texts, MoveToHeap(t, h, b, v) PROVE Values!Turn(t)
  <2>1. \A k \in Handles : repr[k].buf \in Buffers => data'[repr[k].buf] = data[repr[k].buf]
    BY <1>0, <1>13, FreshBuffer DEF MoveToHeap
  <2>2. owner[h] = t /\ owner' = owner /\ \A k \in Handles \ {h} : repr'[k] = repr[k]
    BY <1>0, <1>13 DEF MoveToHeap, Exclusive, TypeOK
  <2>3. QED
    BY <1>0, <2>1, <2>2, EditStep
<1>14. ASSUME NEW u \in Threads, Send(t, u, h) PROVE Values!Turn(t)
  <2>1. /\ owner[h] = t /\ t # Nobody /\ u # Nobody
        /\ owner' = [owner EXCEPT ![h] = u]
        /\ repr' = repr /\ data' = data
    BY <1>14 DEF Send, Exclusive, memory
  <2>2. \A k \in Handles : owner'[k] = Nobody <=> owner[k] = Nobody
    BY <1>0, <2>1 DEF TypeOK
  <2>3. TextOfHandle' = TextOfHandle
    BY <2>1, <2>2 DEF TextOfHandle, TextOf
  <2>4. QED
    BY <2>1, <2>3 DEF Values!Turn, Values!Send
<1>15. ASSUME NEW u \in Threads, Lend(t, u, h) \/ EndLend(t, u, h) PROVE UNCHANGED Values!vars
  BY <1>1, <1>15 DEF Lend, EndLend, memory
<1>16. ASSUME NEW k \in Handles, Clone(t, h, k) PROVE Values!Turn(t) \/ UNCHANGED Values!vars
  BY <1>16, CloneHandleStep DEF Values!Turn
<1>17. ASSUME NEW g \in Handles, CloneFrom(t, h, g) PROVE Values!Turn(t) \/ UNCHANGED Values!vars
  <2>1. \/ owner' = owner /\ repr' = repr /\ data' = data
        \/ owner' = owner /\ data' = data /\ repr' = [repr EXCEPT ![h] = repr[g]]
    BY <1>17 DEF CloneFrom, ShallowClone, handles, memory
  <2>2. QED
    BY <1>1, <1>2, <1>17, <2>1 DEF CloneFrom, Exclusive
<1>18. ASSUME NEW o \in Ops, Begin(t, h, o) PROVE Values!Turn(t)
  <2>1. PICK p \in Entry[o] : repr' = [repr EXCEPT ![h] = WithCut(@, @.cut \/ p = "idle")]
    BY <1>18 DEF Begin
  <2>2. QED
    BY <1>2, <1>18, <2>1 DEF Begin, Exclusive, memory
<1>19. CASE Read(t, h) \/ Drop(t, h)
  BY <1>1, <1>19 DEF Read, Drop, handles, memory
<1>20. CASE DropInline(t, h)
  BY <1>0, <1>20, DropHandleStep DEF DropInline, Exclusive, memory
<1>21. QED
  BY <1>10, <1>11, <1>12, <1>13, <1>14, <1>15, <1>16, <1>17, <1>18, <1>19, <1>20

\* So is every step inside an operation: the bytes that Write changes and the block
\* that Free gives back belong to no other handle.
LEMMA StepImplements ==
    ASSUME IInv, IInv', NEW t \in Threads, Step(t)
    PROVE  Values!Turn(t) \/ UNCHANGED Values!vars
<1>0. TypeOK /\ TypeOK' /\ Locals /\ NoDangling /\ Alone
  BY DEF IInv
<1>1. ASSUME owner' = owner, repr' = repr, data' = data PROVE UNCHANGED Values!vars
  BY <1>0, <1>1, QuietStep
<1>2. ASSUME arg[t] \in Handles, owner[arg[t]] = t, owner' = owner, data' = data,
             NEW r, repr' = [repr EXCEPT ![arg[t]] = r]
      PROVE  Values!Turn(t)
  <2>1. \A k \in Handles \ {arg[t]} : repr'[k] = repr[k]
    BY <1>0, <1>2 DEF TypeOK
  <2>2. QED
    BY <1>0, <1>2, <2>1, EditStep
<1>3. Holds(t) => arg[t] \in Handles /\ owner[arg[t]] = t
  BY <1>0 DEF Locals
<1>11. CASE Recheck(t) \/ CopyFails(t) \/ CopyInline(t) \/ Share(t)
  BY <1>1, <1>11 DEF Recheck, CopyFails, CopyInline, Share, ShallowClone, handles, memory
<1>12. CASE Check(t)
  <2>1. PICK unique \in BOOLEAN :
          repr' = [repr EXCEPT ![arg[t]] = WithCut(@, @.cut \/ (op[t] = "clear" /\ unique))]
    BY <1>12 DEF Check
  <2>2. Holds(t)
    BY <1>12 DEF Check, Holds, AtHeap
  <2>3. QED
    BY <1>2, <1>3, <1>12, <2>1, <2>2 DEF Check, memory
<1>13. CASE CopyHeap(t)
  <2>1. PICK b \in Buffers : \E v \in Copied(t) : Allocate(t, b, v, {<<"read", t, MyBuf(t)>>})
    BY <1>13 DEF CopyHeap
  <2>2. \A k \in Handles : repr[k].buf \in Buffers => data'[repr[k].buf] = data[repr[k].buf]
    BY <1>0, <2>1, FreshBuffer
  <2>3. QED
    BY <1>0, <1>13, <2>2, QuietStep DEF CopyHeap, handles
<1>14. CASE Resize(t) \/ Into(t)
  BY <1>1, <1>14 DEF Resize, Into, Reallocate, handles, memory
<1>15. CASE Write(t)
  <2>1. arg[t] \in Handles /\ owner[arg[t]] = t /\ owner' = owner
    BY <1>3, <1>15 DEF Write, Holds
  <2>2. CASE MyBuf(t) = NoBuf
    BY <1>2, <1>15, <2>1, <2>2 DEF Write
  <2>3. CASE MyBuf(t) # NoBuf /\ op[t] = "truncate"
    BY <1>2, <1>15, <2>1, <2>3 DEF Write
  <2>4. CASE MyBuf(t) # NoBuf /\ op[t] # "truncate"
    <3>1. PICK v \in Texts : data' = [data EXCEPT ![MyBuf(t)] = v]
      BY <1>15, <2>4 DEF Write
    <3>2. Refs(MyBuf(t)) = {arg[t]}
      BY <1>0, <1>15, <2>4 DEF Write, Alone, Relied, Holder
    <3>3. ASSUME NEW k \in Handles \ {arg[t]}, repr[k].buf \in Buffers
          PROVE  data'[repr[k].buf] = data[repr[k].buf]
      BY <1>0, <3>1, <3>2, <3>3 DEF Refs, TypeOK
    <3>4. \A k \in Handles \ {arg[t]} : repr'[k] = repr[k]
      BY <1>0, <1>15, <2>4 DEF Write, TypeOK
    <3>5. QED
      BY <1>0, <2>1, <3>3, <3>4, EditStep
  <2>5. QED
    BY <2>2, <2>3, <2>4
<1>16. CASE Release(t) /\ op[t] = "panic"
  BY <1>1, <1>16 DEF Release
<1>17. CASE Release(t) /\ op[t] = "drop"
  BY <1>0, <1>3, <1>17, DropHandleStep DEF Release, Holds
<1>18. CASE Release(t) /\ op[t] \notin {"panic", "drop"}
  BY <1>2, <1>3, <1>18 DEF Release, Holds
<1>19. CASE Free(t)
  <2>1. Refs(old[t]) = {}
    BY <1>0, <1>19 DEF Free, NoDangling
  <2>2. ASSUME NEW k \in Handles, repr[k].buf \in Buffers
        PROVE  data'[repr[k].buf] = data[repr[k].buf]
    BY <1>0, <1>19, <2>1, <2>2 DEF Free, Deallocate, Refs, TypeOK
  <2>3. QED
    BY <1>0, <1>19, <2>2, QuietStep DEF Free, handles
<1>20. QED
  BY <1>11, <1>12, <1>13, <1>14, <1>15, <1>16, <1>17, <1>18, <1>19 DEF Step

\* However the steps of the threads interleave, the handles of SharedBuffer behave as
\* string values of their own. A step of a thread, an in-place write, a clone_from, a
\* failed allocation or the end of a handle, leaves the texts of the handles it does not
\* own alone, and a clone starts with the text of its source.
THEOREM CopyOnWriteImplementsValues == Spec => IndependentValues
<1>1. Init => Values!Init
  BY DEF Init, Values!Init, TextOfHandle
<1> DEFINE Kept == UNCHANGED Values!vars
           Turns == \A t \in Threads :
                       /\ Step(t) \/ Call(t) => Values!Turn(t) \/ Kept
                       /\ \A h, k \in Handles : Clone(t, h, k) => Values!Clone(t, h, k) \/ Kept
<1>2. IInv /\ IInv' => Turns
  BY CallImplements, StepImplements, CloneHandleStep
<1>3. IInv /\ IInv' /\ [Next]_vars => [Values!Next]_Values!vars
  <2> SUFFICES ASSUME IInv, IInv', [Next]_vars PROVE Values!Next \/ UNCHANGED Values!vars
    OBVIOUS
  <2>1. CASE UNCHANGED vars
    BY <2>1, QuietStep DEF vars, IInv
  <2>2. CASE Next
    BY <1>2, <2>2 DEF Next, Values!Next
  <2>3. QED
    BY <2>1, <2>2
<1>4. IInv /\ IInv' => [Turns]_vars
  BY <1>2
<1>5. QED
  BY <1>1, <1>3, <1>4, Invariance, PTL DEF Spec, IndependentValues, Values!Spec

-----------------------------------------------------------------------------
(* Inside an operation the text changes only when the edit is due.         *)

\* The bytes behind a buffer that somebody holds change only when the thread that is
\* alone with it writes.
LEMMA BytesKept ==
    ASSUME IInv, NEW t \in Threads, Step(t) \/ Call(t), NEW b \in Buffers, Refs(b) # {},
           ~(pc[t] = "write" /\ MyBuf(t) = b)
    PROVE  data'[b] = data[b]
<1>0. TypeOK /\ NoDangling /\ b \in live
  BY DEF IInv, NoDangling
<1>1. ASSUME NEW c \in Buffers, NEW v, NEW R, Allocate(t, c, v, R) PROVE data'[b] = data[b]
  BY <1>0, <1>1 DEF Allocate, TypeOK
<1>2. CASE Call(t)
  <2>1. \/ UNCHANGED data
        \/ \E c \in Buffers, v \in Texts : Allocate(t, c, v, {})
    BY <1>2 DEF Call, NewInline, EditInline, NewHeap, MoveToHeap, Send, Lend, EndLend, Clone,
           CloneFrom, ShallowClone, Begin, Read, DropInline, Drop, memory
  <2>2. QED
    BY <1>1, <2>1
<1>3. CASE Check(t) \/ Recheck(t) \/ Share(t) \/ CopyInline(t) \/ CopyFails(t) \/ Release(t)
  BY <1>3 DEF Check, Recheck, Share, ShallowClone, CopyInline, CopyFails, Release, memory
<1>4. CASE CopyHeap(t)
  BY <1>1, <1>4 DEF CopyHeap
<1>5. CASE Resize(t) \/ Into(t)
  BY <1>5 DEF Resize, Into, Reallocate, memory
<1>6. CASE Write(t)
  BY <1>0, <1>6 DEF Write, TypeOK
<1>7. CASE Free(t)
  <2>1. Refs(old[t]) = {}
    BY <1>0, <1>7 DEF Free, NoDangling
  <2>2. QED
    BY <1>0, <1>7, <2>1 DEF Free, Deallocate, TypeOK
<1>8. QED
  BY <1>2, <1>3, <1>4, <1>5, <1>6, <1>7 DEF Step

\* A step of thread t leaves the words of a handle alone that another thread may use.
LEMMA WordsKept ==
    ASSUME IInv, NEW t \in Threads, Step(t) \/ Call(t),
           NEW h \in Handles, NEW u \in Threads \ {t}, u \in Accessors(h), pc[u] # "idle"
    PROVE  repr'[h] = repr[h] /\ u \in Accessors(h)'
<1>0. TypeOK /\ Locals /\ Ownership
  BY DEF IInv
<1>1. owner[h] # Nobody /\ ~(owner[h] = t /\ lent[h] = {})
  BY <1>0 DEF Accessors, Ownership
<1>2. ASSUME NEW k \in Handles, owner[k] = Nobody \/ (owner[k] = t /\ lent[k] = {}) PROVE k # h
  BY <1>1, <1>2
<1>3. CASE Call(t)
  <2>1. PICK k \in Handles :
      \/ \E v \in Texts : NewInline(t, k, v) \/ EditInline(t, k, v)
      \/ \E b \in Buffers, v \in Texts : NewHeap(t, k, b, v) \/ MoveToHeap(t, k, b, v)
      \/ \E w \in Threads : Send(t, w, k) \/ Lend(t, w, k) \/ EndLend(t, w, k)
      \/ \E g \in Handles : Clone(t, k, g) \/ CloneFrom(t, k, g)
      \/ \E o \in Ops : Begin(t, k, o)
      \/ Read(t, k) \/ DropInline(t, k) \/ Drop(t, k)
    BY <1>3 DEF Call
  <2>2. ASSUME NEW v \in Texts, NewInline(t, k, v) \/ EditInline(t, k, v)
        PROVE  repr'[h] = repr[h] /\ owner'[h] = owner[h] /\ lent'[h] = lent[h]
    BY <1>0, <1>2, <2>2 DEF NewInline, EditInline, Exclusive, TypeOK
  <2>3. ASSUME NEW b \in Buffers, NEW v \in Texts, NewHeap(t, k, b, v) \/ MoveToHeap(t, k, b, v)
        PROVE  repr'[h] = repr[h] /\ owner'[h] = owner[h] /\ lent'[h] = lent[h]
    BY <1>0, <1>2, <2>3 DEF NewHeap, MoveToHeap, Exclusive, TypeOK
  <2>4. ASSUME NEW w \in Threads, Send(t, w, k)
        PROVE  repr'[h] = repr[h] /\ owner'[h] = owner[h] /\ lent'[h] = lent[h]
    BY <1>0, <1>2, <2>4 DEF Send, Exclusive, TypeOK
  <2>5. ASSUME NEW w \in Threads, Lend(t, w, k) \/ EndLend(t, w, k)
        PROVE  repr'[h] = repr[h] /\ owner'[h] = owner[h] /\ lent[h] \subseteq lent'[h] \cup {w}
                /\ (pc[w] = "idle" \/ lent[h] \subseteq lent'[h])
    BY <1>0, <2>5 DEF Lend, EndLend, Idle, TypeOK
  <2>6. ASSUME NEW g \in Handles, Clone(t, k, g) \/ CloneFrom(t, k, g)
        PROVE  repr'[h] = repr[h] /\ owner'[h] = owner[h] /\ lent'[h] = lent[h]
    <3>1. CASE Clone(t, k, g)
      BY <1>0, <1>2, <3>1 DEF Clone, ShallowClone, handles, TypeOK
    <3>2. CASE CloneFrom(t, k, g)
      BY <1>0, <1>2, <3>2 DEF CloneFrom, Exclusive, ShallowClone, handles, TypeOK
    <3>3. QED
      BY <2>6, <3>1, <3>2
  <2>7. ASSUME NEW o \in Ops, Begin(t, k, o)
        PROVE  repr'[h] = repr[h] /\ owner'[h] = owner[h] /\ lent'[h] = lent[h]
    BY <1>0, <1>2, <2>7 DEF Begin, Exclusive, TypeOK
  <2>8. CASE Read(t, k) \/ DropInline(t, k) \/ Drop(t, k)
    <3>1. repr'[h] = repr[h] /\ owner'[h] = owner[h] /\ lent'[h] = lent[h]
      BY <1>0, <1>2, <2>8 DEF Read, DropInline, Drop, Exclusive, handles, TypeOK
    <3>2. QED
      BY <3>1 DEF Accessors
  <2>9. QED
    BY <2>1, <2>2, <2>3, <2>4, <2>5, <2>6, <2>7, <2>8 DEF Accessors
<1>4. CASE Step(t)
  <2>1. Holds(t) => arg[t] # h
    BY <1>0, <1>2 DEF Locals
  <2>2. repr'[h] = repr[h] /\ owner'[h] = owner[h] /\ lent'[h] = lent[h]
    <3>1. CASE \/ Recheck(t) \/ Share(t) \/ CopyInline(t) \/ CopyHeap(t) \/ CopyFails(t)
               \/ Resize(t) \/ Into(t) \/ Free(t)
      BY <3>1 DEF Recheck, Share, ShallowClone, CopyInline, CopyHeap, CopyFails, Resize, Into,
             Free, handles
    <3>2. CASE Check(t) \/ Write(t)
      BY <1>0, <2>1, <3>2 DEF Check, Write, Holds, AtHeap, TypeOK
    <3>3. CASE Release(t)
      BY <1>0, <2>1, <3>3 DEF Release, Holds, TypeOK
    <3>4. QED
      BY <1>4, <3>1, <3>2, <3>3 DEF Step
  <2>3. QED
    BY <2>2 DEF Accessors
<1>5. QED
  BY <1>3, <1>4

\* A step of one thread does not touch the locals of another.
LEMMA LocalsKept ==
    ASSUME TypeOK, NEW t \in Threads, Step(t) \/ Call(t), NEW u \in Threads \ {t}
    PROVE  pc'[u] = pc[u] /\ op'[u] = op[u] /\ arg'[u] = arg[u] /\ tmp'[u] = tmp[u]
<1>1. CASE Call(t)
  BY <1>1 DEF Call, NewInline, EditInline, NewHeap, MoveToHeap, Send, Lend, EndLend, Clone,
         CloneFrom, ShallowClone, Begin, Read, DropInline, Drop, Enter, locals, TypeOK
<1>2. CASE Step(t)
  BY <1>2 DEF Step, Check, Recheck, Share, ShallowClone, CopyInline, CopyHeap, CopyFails,
         Resize, Into, Write, Release, Free, Goto, Enter, TypeOK
<1>3. QED
  BY <1>1, <1>2

\* What another thread is about to do with its handle is not disturbed.
LEMMA PendingOther ==
    ASSUME IInv, Pending, NEW t \in Threads, Step(t) \/ Call(t), NEW u \in Threads \ {t}
    PROVE  Pending!(u)'
<1>0. TypeOK /\ Locals /\ Ownership /\ NoDangling /\ Alone
  BY DEF IInv
<1>1. pc'[u] = pc[u] /\ op'[u] = op[u] /\ arg'[u] = arg[u] /\ tmp'[u] = tmp[u]
  BY <1>0, LocalsKept
<1>2. Holds(u) => arg[u] \in Handles /\ owner[arg[u]] = u /\ u \in Accessors(arg[u])
  BY <1>0 DEF Locals, Accessors
<1>3. Holds(u) => repr'[arg[u]] = repr[arg[u]]
  BY <1>2, WordsKept DEF Holds, AtHeap
<1>4. CASE pc[u] # "release"
  <2>1. pc[u] = "write" => Holds(u)
    BY DEF Holds
  <2>2. QED
    BY <1>1, <1>3, <1>4, <2>1 DEF Pending, MyBuf
<1>5. CASE pc[u] = "release" /\ op[u] = "panic"
  BY <1>1, <1>5 DEF Pending, AtHeap
<1>6. CASE pc[u] = "release" /\ op[u] # "panic"
  <2>0. Holds(u)
    BY <1>6 DEF Holds
  <2>1. PICK h \in Handles : h = arg[u] /\ owner[h] = u /\ lent[h] = {} /\ repr'[h] = repr[h]
    BY <1>0, <1>3, <2>0 DEF Locals
  <2>2. ASSUME pc[t] = "write", MyBuf(t) # NoBuf PROVE Refs(MyBuf(t)) = {arg[t]} /\ arg[t] # h /\ arg[t] # u
    <3>1. arg[t] \in Handles /\ owner[arg[t]] = t
      BY <1>0, <2>2 DEF Locals, Holds
    <3>2. QED
      BY <1>0, <2>1, <2>2, <3>1 DEF Alone, Relied, Holder
  <2>3. repr[h].buf \in Buffers => data'[repr[h].buf] = data[repr[h].buf]
    <3> SUFFICES ASSUME NEW b \in Buffers, repr[h].buf = b PROVE data'[b] = data[b]
      OBVIOUS
    <3>1. h \in Refs(b)
      BY DEF Refs
    <3>2. ~(pc[t] = "write" /\ MyBuf(t) = b)
      BY <1>0, <2>2, <3>1
    <3>3. QED
      BY <3>1, <3>2, BytesKept
  <2>4. tmp[u].buf \in Buffers => data'[tmp[u].buf] = data[tmp[u].buf]
    <3> SUFFICES ASSUME NEW b \in Buffers, tmp[u].buf = b PROVE data'[b] = data[b]
      OBVIOUS
    <3>1. u \in Refs(b)
      BY DEF Refs
    <3>2. ~(pc[t] = "write" /\ MyBuf(t) = b)
      BY <1>0, <2>2, <3>1
    <3>3. QED
      BY <3>1, <3>2, BytesKept
  <2>5. /\ repr[h].buf \in Buffers \cup {NoBuf}
        /\ tmp[u].buf \in Buffers \cup {NoBuf}
    BY <1>0 DEF TypeOK, Repr
  <2>6. TextOf(repr[arg[u]])' = TextOf(repr[arg[u]])
    BY <1>1, <2>1, <2>3, <2>5 DEF TextOf
  <2>7. TextOf(tmp[u])' = TextOf(tmp[u])
    BY <1>1, <2>4, <2>5 DEF TextOf
  <2>8. ASSUME op[u] = "assign"
        PROVE  \E g \in Handles \ {arg'[u]} : u \in Accessors(g)' /\ tmp'[u] = repr'[g]
    <3>1. PICK g \in Handles \ {arg[u]} : u \in Accessors(g) /\ tmp[u] = repr[g]
      BY <1>6, <2>8 DEF Pending
    <3>2. repr'[g] = repr[g] /\ u \in Accessors(g)'
      BY <1>6, <3>1, WordsKept
    <3>3. QED
      BY <1>1, <3>1, <3>2
  <2>9. NewRepr' = NewRepr
    BY DEF NewRepr, InlineRepr
  <2>10. QED
    BY <1>1, <1>6, <2>6, <2>7, <2>8 DEF Pending, AtHeap, NewRepr, InlineRepr
<1>7. QED
  BY <1>4, <1>5, <1>6

\* A call of thread t itself: clone_from takes the words of its source as they are.
LEMMA PendingCall ==
    ASSUME IInv, Pending, NEW t \in Threads, Call(t)
    PROVE  Pending!(t)'
<1>0. TypeOK /\ Locals
  BY DEF IInv
<1> DEFINE Quiet == /\ pc[t] = "idle"
                    /\ pc'[t] # "idle" => /\ op'[t] \notin {"assign", "clear", "truncate"} \/ pc'[t] = "check"
                                          /\ pc'[t] # "share"
                                          /\ pc'[t] = "release" => op'[t] \in {"drop", "panic"}
                                          /\ pc'[t] # "write"
                                          /\ pc'[t] \in AtHeap => op'[t] # "assign"
<1>1. ASSUME Quiet PROVE Pending!(t)'
  BY <1>1 DEF AtHeap
<1>2. ASSUME pc[t] = "idle", UNCHANGED locals PROVE Quiet
  BY <1>2 DEF locals
<1>3. ASSUME pc[t] = "idle", NEW h, NEW r, ShallowClone(t, h, r, "panic") PROVE Quiet
  BY <1>0, <1>3 DEF ShallowClone, Enter, TypeOK, AtHeap
<1> HIDE DEF Quiet
<1>10. PICK h \in Handles :
    \/ \E v \in Texts : NewInline(t, h, v) \/ EditInline(t, h, v)
    \/ \E b \in Buffers, v \in Texts : NewHeap(t, h, b, v) \/ MoveToHeap(t, h, b, v)
    \/ \E u \in Threads : Send(t, u, h) \/ Lend(t, u, h) \/ EndLend(t, u, h)
    \/ \E k \in Handles : Clone(t, h, k) \/ CloneFrom(t, h, k)
    \/ \E o \in Ops : Begin(t, h, o)
    \/ Read(t, h) \/ DropInline(t, h) \/ Drop(t, h)
  BY DEF Call
<1>11. ASSUME NEW v \in Texts, NewInline(t, h, v) \/ EditInline(t, h, v) PROVE Quiet
  BY <1>2, <1>11 DEF NewInline, EditInline, Exclusive, Idle
<1>12. ASSUME NEW b \in Buffers, NEW v \in Texts, NewHeap(t, h, b, v) \/ MoveToHeap(t, h, b, v)
       PROVE  Quiet
  BY <1>2, <1>12 DEF NewHeap, MoveToHeap, Exclusive, Idle
<1>13. ASSUME NEW u \in Threads, Send(t, u, h) \/ Lend(t, u, h) PROVE Quiet
  BY <1>2, <1>13 DEF Send, Lend, Exclusive, Idle
<1>14. ASSUME NEW u \in Threads, EndLend(t, u, h) PROVE Pending!(t)'
  <2>1. UNCHANGED <<owner, repr, memory, locals>> /\ lent' = [lent EXCEPT ![h] = @ \ {u}] /\ pc[u] = "idle"
    BY <1>14 DEF EndLend, Idle
  <2>2. ASSUME pc[t] # "idle", NEW g \in Handles, t \in Accessors(g) PROVE t \in Accessors(g)'
    BY <1>0, <2>1, <2>2 DEF Accessors, TypeOK
  <2>3. ASSUME pc[t] = "release", op[t] = "assign"
        PROVE  \E g \in Handles \ {arg'[t]} : t \in Accessors(g)' /\ tmp'[t] = repr'[g]
    <3>1. PICK g \in Handles \ {arg[t]} : t \in Accessors(g) /\ tmp[t] = repr[g]
      BY <2>3 DEF Pending
    <3>2. t \in Accessors(g)'
      BY <2>2, <2>3, <3>1
    <3>3. QED
      BY <2>1, <3>1, <3>2 DEF locals
  <2>4. TextOf(tmp[t])' = TextOf(tmp[t]) /\ TextOf(repr[arg[t]])' = TextOf(repr[arg[t]])
    BY <2>1 DEF TextOf, locals, memory
  <2>5. QED
    BY <2>1, <2>3, <2>4 DEF Pending, AtHeap, MyBuf, NewRepr, InlineRepr, locals
<1>15. ASSUME NEW k \in Handles, Clone(t, h, k) PROVE Quiet
  BY <1>2, <1>3, <1>15 DEF Clone, Idle
<1>16. ASSUME NEW g \in Handles, CloneFrom(t, h, g) PROVE Pending!(t)'
  <2>0. pc[t] = "idle" /\ t \in Accessors(g) /\ g # h
    BY <1>16 DEF CloneFrom, Exclusive, Idle
  <2>1. \/ /\ ShallowClone(t, h, repr[g], "assign") \/ ShallowClone(t, h, repr[g], "panic")
        \/ /\ tmp' = [tmp EXCEPT ![t] = repr[g]]
           /\ Enter(t, "assign", h, "release")
           /\ UNCHANGED handles
        \/ UNCHANGED locals
    BY <1>16 DEF CloneFrom
  <2>2. CASE UNCHANGED locals \/ ShallowClone(t, h, repr[g], "panic")
    BY <1>1, <1>2, <1>3, <2>0, <2>2
  <2>3. CASE /\ tmp'[t] = repr[g] /\ pc'[t] = "release" /\ arg'[t] = h
             /\ op'[t] \in {"assign", "panic"} /\ UNCHANGED handles
    <3>1. t \in Accessors(g)' /\ repr' = repr
      BY <2>0, <2>3 DEF Accessors, handles
    <3>2. g \in Handles \ {arg'[t]} /\ tmp'[t] = repr'[g]
      BY <2>0, <2>3, <3>1
    <3>3. QED
      BY <2>3, <3>1, <3>2 DEF AtHeap
  <2>4. QED
    BY <1>0, <2>1, <2>2, <2>3 DEF ShallowClone, Enter, TypeOK
<1>17. ASSUME NEW o \in Ops, Begin(t, h, o) PROVE Quiet
  <2>1. PICK p \in Entry[o] : Enter(t, o, h, p)
    BY <1>17 DEF Begin
  <2>2. o \in {"push", "reserve", "edit", "replace", "ascii", "truncate", "shrink", "convert", "clear"}
    BY <1>17 DEF Begin, Reading
  <2>3. p = "check" \/ (p \in {"idle", "recheck", "toInline"} /\ o \notin {"assign", "clear"} /\ (o = "truncate" => p = "idle"))
    BY <1>17, <2>2 DEF Entry
  <2>4. QED
    BY <1>0, <1>17, <2>1, <2>2, <2>3 DEF Quiet, Begin, Exclusive, Idle, Enter, TypeOK
<1>18. CASE Read(t, h) \/ DropInline(t, h)
  BY <1>1, <1>2, <1>18 DEF Read, DropInline, Exclusive, Idle
<1>19. CASE Drop(t, h)
  BY <1>0, <1>1, <1>19 DEF Drop, Exclusive, Idle, Enter, Quiet, TypeOK, AtHeap
<1>20. QED
  BY <1>1, <1>10, <1>11, <1>12, <1>13, <1>14, <1>15, <1>16, <1>17, <1>18, <1>19

\* A step of thread t inside its own operation: a copy has the handle's text, or what
\* the operation makes of it.
LEMMA PendingStep ==
    ASSUME IInv, Pending, NEW t \in Threads, Step(t)
    PROVE  Pending!(t)'
<1>0. TypeOK /\ Locals /\ NoDangling /\ Pending!(t)
  BY DEF IInv, Pending
<1> DEFINE Settled == pc'[t] \in {"idle", "free", "write"} /\ (op'[t] = "truncate" => pc'[t] # "write")
           Dropping == pc'[t] = "release" /\ op'[t] \in {"drop", "panic", "rewrite"}
           Before == /\ pc[t] \in AtHeap
                     /\ pc'[t] \in {"recheck", "toInline", "toHeap", "resize", "into"}
                     /\ op'[t] \in {op[t], "rewrite"}
                     /\ op[t] # "clear"
           Kept == op[t] \notin {"clear", "truncate", "assign", "rewrite", "drop", "panic"}
<1>1. ASSUME Settled \/ Dropping \/ Before PROVE Pending!(t)'
  BY <1>0, <1>1 DEF AtHeap
<1> HIDE DEF Settled, Dropping, Before
<1>2. AfterOwned(op[t]) \in {"idle", "write"} /\ (op[t] = "truncate" => AfterOwned(op[t]) = "idle")
  BY DEF AfterOwned, WriteLater
<1>3. ASSUME NEW p, Goto(t, p)
      PROVE  pc'[t] = p /\ (p # "idle" => op'[t] = op[t] /\ arg'[t] = arg[t])
  BY <1>0, <1>3 DEF Goto, Enter, TypeOK
<1>4. ASSUME Goto(t, "idle") \/ Goto(t, "free") \/ Goto(t, AfterOwned(op[t])) PROVE Settled
  BY <1>2, <1>3, <1>4 DEF Settled
<1>5. ASSUME NEW h, Enter(t, "drop", h, "release") PROVE Dropping
  BY <1>0, <1>5 DEF Dropping, Enter, TypeOK
<1>11. CASE Check(t)
  <2>1. PICK unique \in BOOLEAN, p \in PCs :
              /\ p \in AfterCheck(op[t], unique)
              /\ Enter(t, OpAfterCheck(op[t], unique), arg[t], p)
              /\ repr' = [repr EXCEPT ![arg[t]] = WithCut(@, @.cut \/ (op[t] = "clear" /\ unique))]
    BY <1>11 DEF Check, AfterCheck, PCs
  <2>2. pc[t] = "check" /\ MyBuf(t) # NoBuf /\ arg[t] \in Handles /\ op[t] # "assign" /\ tmp'[t] = NewRepr
    BY <1>0, <1>11 DEF Check, Locals, Holds, AtHeap
  <2>3. /\ pc'[t] = p
        /\ p # "idle" => op'[t] = OpAfterCheck(op[t], unique) /\ arg'[t] = arg[t]
    BY <1>0, <2>1 DEF Enter, TypeOK
  <2>4. MyBuf(t)' # NoBuf \/ p = "idle"
    BY <1>0, <2>1, <2>2, <2>3 DEF MyBuf, WithCut, TypeOK
  <2>5. /\ p = "release" <=> op[t] = "clear" /\ ~unique
        /\ p = "share" => OpAfterCheck(op[t], unique) = "rewrite"
        /\ p \in {"idle", "write", "recheck", "toInline", "toHeap", "into", "share", "release"}
        /\ op[t] = "clear" => p \in {"idle", "release"}
        /\ OpAfterCheck(op[t], unique) \in {op[t], "rewrite"}
        /\ p = "release" => OpAfterCheck(op[t], unique) = "clear"
    BY <2>1 DEF AfterCheck, OpAfterCheck
  <2>6. NewRepr' = NewRepr
    BY DEF NewRepr, InlineRepr
  <2>7. QED
    BY <2>2, <2>3, <2>4, <2>5, <2>6 DEF AtHeap
<1>12. CASE Recheck(t)
  <2>1. Before
    BY <1>0, <1>3, <1>12 DEF Recheck, Before, AtHeap
  <2>2. QED
    BY <1>1, <2>1
<1>13. CASE Share(t)
  <2>1. op[t] = "rewrite" /\ \E o \in {"panic", "rewrite"} : Enter(t, o, arg[t], "release")
    BY <1>0, <1>13 DEF Share, ShallowClone
  <2>2. Dropping
    BY <1>0, <2>1 DEF Dropping, Enter, TypeOK
  <2>3. QED
    BY <1>1, <2>2
<1>14. ASSUME CopyInline(t) \/ CopyHeap(t) PROVE Pending!(t)'
  <2>1. /\ pc[t] \in {"toInline", "toHeap"} /\ Goto(t, "release")
        /\ repr' = repr
    BY <1>14 DEF CopyInline, CopyHeap, handles
  <2>2. op[t] \notin {"assign", "clear"} /\ arg[t] \in Handles
    BY <1>0, <2>1 DEF AtHeap, Locals, Holds
  <2>3. pc'[t] = "release" /\ op'[t] = op[t] /\ arg'[t] = arg[t]
    BY <1>3, <2>1
  <2>4. PICK v \in Copied(t) : TextOf(tmp[t])' = v
    <3>1. CASE CopyInline(t)
      <4>1. PICK w \in Copied(t) : tmp' = [tmp EXCEPT ![t] = InlineRepr(w)]
        BY <3>1 DEF CopyInline
      <4>2. TextOf(tmp[t])' = w
        BY <1>0, <4>1 DEF TextOf, InlineRepr, TypeOK
      <4>3. QED
        BY <4>2
    <3>2. CASE CopyHeap(t)
      <4>1. PICK b \in Buffers, w \in Copied(t) :
              Allocate(t, b, w, {<<"read", t, MyBuf(t)>>}) /\ tmp' = [tmp EXCEPT ![t] = HeapRepr(b)]
        BY <3>2 DEF CopyHeap
      <4>2. tmp'[t] = HeapRepr(b) /\ data'[b] = w /\ b # NoBuf
        BY <1>0, <4>1 DEF Allocate, TypeOK
      <4>3. TextOf(tmp[t])' = w
        BY <4>2 DEF TextOf, HeapRepr
      <4>4. QED
        BY <4>3
    <3>3. QED
      BY <1>14, <3>1, <3>2
  <2>5. TextOf(repr[arg[t]])' = TextOf(repr[arg[t]])
    <3>1. CASE CopyInline(t)
      BY <2>1, <2>3, <3>1 DEF CopyInline, TextOf, memory
    <3>2. CASE CopyHeap(t)
      <4>1. PICK b \in Buffers, w \in Copied(t) : Allocate(t, b, w, {<<"read", t, MyBuf(t)>>})
        BY <3>2 DEF CopyHeap
      <4>2. repr[arg[t]].buf \in Buffers
              => data'[repr[arg[t]].buf] = data[repr[arg[t]].buf]
        BY <1>0, <2>2, <4>1, FreshBuffer
      <4>3. repr[arg[t]].buf \in Buffers \cup {NoBuf}
        BY <1>0, <2>2 DEF TypeOK, Repr
      <4>4. QED
        BY <2>1, <2>3, <4>2, <4>3 DEF TextOf
    <3>3. QED
      BY <1>14, <3>1, <3>2
  <2>6. CASE op[t] = "truncate"
    BY <2>3, <2>4, <2>6 DEF Copied, AtHeap
  <2>7. CASE op[t] \notin {"truncate", "rewrite"}
    BY <2>2, <2>3, <2>4, <2>5, <2>7 DEF Copied, AtHeap
  <2>8. CASE op[t] = "rewrite"
    BY <2>3, <2>8 DEF AtHeap
  <2>9. QED
    BY <2>6, <2>7, <2>8
<1>15. CASE CopyFails(t)
  BY <1>1, <1>4, <1>5, <1>15 DEF CopyFails
<1>16. CASE Resize(t) \/ Into(t)
  BY <1>1, <1>4, <1>5, <1>16 DEF Resize, Into
<1>17. CASE Write(t) \/ Release(t) \/ Free(t)
  BY <1>1, <1>4, <1>17 DEF Write, Release, Free
<1>18. QED
  BY <1>11, <1>12, <1>13, <1>14, <1>15, <1>16, <1>17 DEF Step

\* By the invariants, a step changes its handle's text only as EditsOnlyWhenDue allows.
LEMMA EditDue ==
    ASSUME IInv, IInv', Pending, NEW t \in Threads, Step(t)
    PROVE  \/ TextOfHandle'[arg[t]] = TextOfHandle[arg[t]]
           \/ op[t] = "rewrite"
           \/ pc[t] = "write" /\ op[t] # "truncate"
           \/ op[t] \in {"clear", "truncate", "drop"} /\ TextOfHandle'[arg[t]] = Empty
           \/ /\ op[t] = "assign"
              /\ \E g \in Handles \ {arg[t]} :
                    t \in Accessors(g) /\ TextOfHandle'[arg[t]] = TextOfHandle[g]
<1>0. TypeOK /\ TypeOK' /\ Locals /\ Ownership /\ NoDangling /\ Pending!(t)
  BY DEF IInv, Pending
<1>1. ASSUME UNCHANGED Values!vars PROVE TextOfHandle'[arg[t]] = TextOfHandle[arg[t]]
  BY <1>1 DEF Values!vars
<1>2. ASSUME owner' = owner, repr' = repr, data' = data
      PROVE  TextOfHandle'[arg[t]] = TextOfHandle[arg[t]]
  BY <1>0, <1>1, <1>2, QuietStep
<1>3. Holds(t) => /\ arg[t] \in Handles /\ owner[arg[t]] = t /\ t # Nobody
                  /\ TextOfHandle[arg[t]] = TextOf(repr[arg[t]])
  BY <1>0 DEF Locals, TextOfHandle
<1>4. ASSUME Holds(t), owner' = owner, NEW r, repr' = [repr EXCEPT ![arg[t]] = r]
      PROVE  /\ repr'[arg[t]] = r
             /\ TextOfHandle'[arg[t]] = IF r.buf = NoBuf THEN r.inl ELSE IF r.cut THEN Empty ELSE data'[r.buf]
  BY <1>0, <1>3, <1>4 DEF TextOfHandle, TextOf, TypeOK
<1>11. CASE Recheck(t) \/ CopyFails(t) \/ CopyInline(t) \/ Share(t) \/ Resize(t) \/ Into(t)
  BY <1>2, <1>11 DEF Recheck, CopyFails, CopyInline, Share, ShallowClone, Resize, Into, Reallocate,
         handles, memory
<1>12. CASE CopyHeap(t)
  <2>1. PICK b \in Buffers : \E v \in Copied(t) : Allocate(t, b, v, {<<"read", t, MyBuf(t)>>})
    BY <1>12 DEF CopyHeap
  <2>2. \A k \in Handles : repr[k].buf \in Buffers => data'[repr[k].buf] = data[repr[k].buf]
    BY <1>0, <2>1, FreshBuffer
  <2>3. QED
    BY <1>0, <1>1, <1>12, <2>2, QuietStep DEF CopyHeap, handles
<1>13. CASE Free(t)
  <2>1. Refs(old[t]) = {}
    BY <1>0, <1>13 DEF Free, NoDangling
  <2>2. ASSUME NEW k \in Handles, repr[k].buf \in Buffers
        PROVE  data'[repr[k].buf] = data[repr[k].buf]
    BY <1>0, <1>13, <2>1, <2>2 DEF Free, Deallocate, Refs, TypeOK
  <2>3. QED
    BY <1>0, <1>1, <1>13, <2>2, QuietStep DEF Free, handles
<1>14. CASE Check(t)
  <2>0. Holds(t) /\ MyBuf(t) # NoBuf
    BY <1>0, <1>14 DEF Check, Holds, AtHeap, Locals
  <2>1. PICK unique \in BOOLEAN :
          repr' = [repr EXCEPT ![arg[t]] = WithCut(@, @.cut \/ (op[t] = "clear" /\ unique))]
    BY <1>14 DEF Check
  <2>3. PICK r : /\ repr' = [repr EXCEPT ![arg[t]] = r]
                 /\ r = WithCut(repr[arg[t]], repr[arg[t]].cut \/ (op[t] = "clear" /\ unique))
    BY <1>0, <1>3, <2>0, <2>1 DEF TypeOK
  <2>4. r.buf = MyBuf(t) /\ r.cut = (repr[arg[t]].cut \/ (op[t] = "clear" /\ unique))
    BY <2>3 DEF WithCut, MyBuf
  <2>5. TextOfHandle'[arg[t]] = IF r.cut THEN Empty ELSE data'[r.buf]
    BY <1>4, <1>14, <2>0, <2>3, <2>4 DEF Check
  <2>2. TextOfHandle'[arg[t]] = IF repr[arg[t]].cut \/ (op[t] = "clear" /\ unique)
                                THEN Empty ELSE data'[repr[arg[t]].buf]
    BY <2>4, <2>5 DEF MyBuf
  <2>6. QED
    BY <1>3, <1>14, <2>0, <2>2 DEF Check, TextOf, MyBuf, memory
<1>15. CASE Write(t) /\ op[t] = "truncate"
  <2>0. Holds(t) /\ MyBuf(t) # NoBuf
    BY <1>0, <1>15 DEF Write, Holds
  <2>1. TextOfHandle'[arg[t]] = Empty
    BY <1>4, <1>15, <2>0 DEF Write, WithCut, MyBuf
  <2>2. QED
    BY <1>15, <2>1
<1>16. CASE Write(t) /\ op[t] # "truncate"
  BY <1>16 DEF Write
<1>17. CASE Release(t) /\ op[t] = "panic"
  BY <1>2, <1>17 DEF Release
<1>18. CASE Release(t) /\ op[t] = "drop"
  <2>1. arg[t] \in Handles /\ owner'[arg[t]] = Nobody
    BY <1>0, <1>3, <1>18 DEF Release, Holds, TypeOK
  <2>2. TextOfHandle'[arg[t]] = Empty
    BY <2>1 DEF TextOfHandle
  <2>3. QED
    BY <1>18, <2>2
<1>19. CASE Release(t) /\ op[t] \notin {"panic", "drop"}
  <2>0. Holds(t) /\ pc[t] = "release" /\ data' = data
    BY <1>19 DEF Release, Holds
  <2>1. TextOfHandle'[arg[t]] = TextOf(tmp[t])
    BY <1>4, <1>19, <2>0 DEF Release, TextOf
  <2>2. CASE op[t] = "clear"
    BY <1>0, <2>0, <2>1, <2>2 DEF TextOf, NewRepr, InlineRepr
  <2>3. CASE op[t] = "truncate"
    BY <1>0, <2>0, <2>1, <2>3
  <2>4. CASE op[t] = "assign"
    <3>1. PICK g \in Handles \ {arg[t]} : t \in Accessors(g) /\ tmp[t] = repr[g]
      BY <1>0, <2>0, <2>4
    <3>2. owner[g] # Nobody
      BY <1>0, <3>1 DEF Accessors, Ownership
    <3>3. TextOfHandle'[arg[t]] = TextOfHandle[g]
      BY <2>1, <3>1, <3>2 DEF TextOfHandle
    <3>4. QED
      BY <2>4, <3>1, <3>3
  <2>5. CASE op[t] \notin {"clear", "truncate", "assign", "rewrite"}
    BY <1>0, <1>3, <1>19, <2>0, <2>1, <2>5
  <2>6. QED
    BY <2>2, <2>3, <2>4, <2>5
<1>20. QED
  BY <1>11, <1>12, <1>13, <1>14, <1>15, <1>16, <1>17, <1>18, <1>19 DEF Step

\* Whatever the other threads do meanwhile, an operation changes its handle's text only
\* by the edit it is for: a copy on write, a realloc or a failed allocation never does.
THEOREM TextsChangeOnlyByEdits == Spec => EditsOnlyWhenDue
<1>1. Init => Pending
  BY DEF Init, Pending, AtHeap
<1>2. IInv /\ Pending /\ [Next]_vars => Pending'
  <2> SUFFICES ASSUME IInv, Pending, [Next]_vars PROVE Pending'
    OBVIOUS
  <2>1. CASE UNCHANGED vars
    BY <2>1 DEF vars, Pending, MyBuf, Accessors, TextOf, NewRepr, InlineRepr
  <2>2. CASE Next
    <3>1. PICK t \in Threads : Step(t) \/ Call(t)
      BY <2>2 DEF Next
    <3>2. Pending!(t)'
      BY <3>1, PendingCall, PendingStep
    <3>3. ASSUME NEW u \in Threads \ {t} PROVE Pending!(u)'
      BY <3>1, PendingOther
    <3>4. QED
      <4> SUFFICES ASSUME NEW u \in Threads PROVE Pending!(u)'
        BY DEF Pending
      <4>1. QED
        BY <3>2, <3>3
  <2>3. QED
    BY <2>1, <2>2
<1> DEFINE Due == \A t \in Threads : Step(t) =>
         LET now == TextOfHandle'[arg[t]]
         IN  \/ now = TextOfHandle[arg[t]]
             \/ op[t] = "rewrite"
             \/ pc[t] = "write" /\ op[t] # "truncate"
             \/ op[t] \in {"clear", "truncate", "drop"} /\ now = Empty
             \/ /\ op[t] = "assign"
                /\ \E g \in Handles \ {arg[t]} : t \in Accessors(g) /\ now = TextOfHandle[g]
<1>3. IInv /\ IInv' /\ Pending => [Due]_vars
  BY EditDue
<1>4. QED
  BY <1>1, <1>2, <1>3, Invariance, PTL DEF Spec, EditsOnlyWhenDue
=============================================================================
