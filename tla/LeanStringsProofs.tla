------------------------- MODULE LeanStringsProofs --------------------------
(***************************************************************************)
(* Every call of LeanStrings keeps the handles and blocks Sound, whatever  *)
(* the constants are, and does to the texts what StringApi says; so does   *)
(* every step of Builders, which in addition hands over every piece.       *)
(***************************************************************************)
EXTENDS Builders, ReprProofs

-----------------------------------------------------------------------------
(* Exchanging one handle of many.                                          *)

\* What H holds at h, or a handle without a block.
At(H, h) == IF h \in DOMAIN H THEN H[h] ELSE Nothing

\* H and J differ at h at most.
OnlyAt(H, J, h) ==
    /\ J = [k \in DOMAIN J |-> J[k]]
    /\ DOMAIN J \ {h} = DOMAIN H \ {h}
    /\ \A g \in DOMAIN H \ {h} : J[g] = H[g]

\* The handles of H other than h are in J and look as before.
Undisturbed(H, m, J, n, h) == \A g \in DOMAIN H \ {h} :
    /\ g \in DOMAIN J /\ J[g] = H[g]
    /\ AsBytes(H[g], n) = AsBytes(H[g], m) /\ Capacity(H[g], n) = Capacity(H[g], m)

\* The holders of a block, with one handle apart.
LEMMA HoldersBut ==
    ASSUME NEW H, IsFiniteSet(DOMAIN H), NEW b, NEW h
    PROVE  /\ IsFiniteSet(Holders(H, b)) /\ IsFiniteSet(Holders(H, b) \ {h})
           /\ Cardinality(Holders(H, b)) \in Nat /\ Cardinality(Holders(H, b) \ {h}) \in Nat
           /\ Cardinality(Holders(H, b)) = Cardinality(Holders(H, b) \ {h}) + Refs(At(H, h), b)
<1>1. Holders(H, b) \in SUBSET DOMAIN H
  BY DEF Holders
<1>2. IsFiniteSet(Holders(H, b))
  BY <1>1, FS_Subset
<1>3. /\ IsFiniteSet(Holders(H, b) \ {h})
      /\ Cardinality(Holders(H, b) \ {h}) =
            IF h \in Holders(H, b) THEN Cardinality(Holders(H, b)) - 1 ELSE Cardinality(Holders(H, b))
  BY <1>2, FS_RemoveElement
<1>4. Cardinality(Holders(H, b)) \in Nat /\ Cardinality(Holders(H, b) \ {h}) \in Nat
  BY <1>2, <1>3, FS_CardinalityType
<1>5. Refs(At(H, h), b) = IF h \in Holders(H, b) THEN 1 ELSE 0
  <2>1. CASE h \in DOMAIN H
    <3>1. At(H, h) = H[h] /\ Refs(H[h], b) \in {0, 1}
      BY <2>1, RefsAre DEF At
    <3> QED
      BY <2>1, <3>1 DEF Holders
  <2>2. CASE h \notin DOMAIN H
    BY <2>2, NothingValid DEF At, Holders
  <2> QED
    BY <2>1, <2>2
<1> QED
  BY <1>2, <1>3, <1>4, <1>5

\* Two handles are counted twice.
LEMMA TwoCounted ==
    ASSUME NEW H, NEW m, Sound(H, m), NEW h, NEW g \in DOMAIN H \ {h}, NEW b \in Buffers
    PROVE  CountAt(m, b) >= Refs(At(H, h), b) + Refs(H[g], b)
<1>1. IsFiniteSet(DOMAIN H) /\ CountAt(m, b) = Cardinality(Holders(H, b))
  BY DEF Sound
<1>2. /\ IsFiniteSet(Holders(H, b) \ {h})
      /\ Cardinality(Holders(H, b)) = Cardinality(Holders(H, b) \ {h}) + Refs(At(H, h), b)
      /\ Cardinality(Holders(H, b) \ {h}) \in Nat
  BY <1>1, HoldersBut
<1>3. Refs(At(H, h), b) \in {0, 1} /\ Refs(H[g], b) \in {0, 1}
  BY RefsAre
<1>4. Cardinality(Holders(H, b) \ {h}) >= Refs(H[g], b)
  <2>1. CASE Refs(H[g], b) = 0
    BY <1>2, <2>1
  <2>2. CASE Refs(H[g], b) = 1
    <3>1. g \in Holders(H, b) \ {h}
      BY <2>2 DEF Holders
    <3>2. Cardinality(Holders(H, b) \ {h}) # 0
      BY <1>2, <3>1, FS_EmptySet
    <3> QED
      BY <1>2, <2>2, <3>2
  <2> QED
    BY <1>3, <2>1, <2>2
<1> QED
  BY <1>1, <1>2, <1>3, <1>4

\* A call that exchanges the handle h, makes it or drops it keeps everything sound, and
\* the other handles notice nothing.
LEMMA Exchanged ==
    ASSUME NEW H, NEW m, Sound(H, m), NEW h, NEW J, OnlyAt(H, J, h),
           NEW n, Trade(At(H, h), m, At(J, h), n),
           h \in DOMAIN J => IsUtf8(AsBytes(J[h], n))
    PROVE  Sound(J, n) /\ Undisturbed(H, m, J, n, h)
<1>1. IsHeapOf(m) /\ IsFiniteSet(DOMAIN H) /\ \A b \in Buffers : CountAt(m, b) = Cardinality(Holders(H, b))
  BY DEF Sound
<1>2. IsHeapOf(n) /\ Valid(At(J, h), n) /\ Spares(At(H, h), m, n)
  BY DEF Trade
<1>3. ASSUME NEW g \in DOMAIN H \ {h}
      PROVE  /\ Valid(H[g], n) /\ AsBytes(H[g], n) = AsBytes(H[g], m)
             /\ Capacity(H[g], n) = Capacity(H[g], m) /\ IsUtf8(AsBytes(H[g], n))
  <2>1. Valid(H[g], m) /\ IsUtf8(AsBytes(H[g], m))
    BY DEF Sound
  <2>2. \A b \in Buffers : CountAt(m, b) >= Refs(At(H, h), b) + Refs(H[g], b)
    BY TwoCounted
  <2>3. /\ Valid(H[g], n) /\ AsBytes(H[g], n) = AsBytes(H[g], m)
        /\ Capacity(H[g], n) = Capacity(H[g], m)
    BY ONLY <1>1, <1>2, <2>1, <2>2, SparedValid
  <2> QED
    BY <2>1, <2>3
<1>4. Undisturbed(H, m, J, n, h)
  <2>1. ASSUME NEW g \in DOMAIN H \ {h} PROVE g \in DOMAIN J /\ J[g] = H[g]
    BY <2>1 DEF OnlyAt
  <2> QED
    BY <1>3, <2>1 DEF Undisturbed
<1>5. IsFiniteSet(DOMAIN J)
  <2>1. IsFiniteSet(DOMAIN J \ {h})
    BY <1>1, FS_RemoveElement DEF OnlyAt
  <2>2. IsFiniteSet((DOMAIN J \ {h}) \cup {h})
    BY <2>1, FS_AddElement
  <2>3. DOMAIN J \in SUBSET ((DOMAIN J \ {h}) \cup {h})
    OBVIOUS
  <2> QED
    BY <2>2, <2>3, FS_Subset
<1>6. ASSUME NEW g \in DOMAIN J PROVE Valid(J[g], n) /\ IsUtf8(AsBytes(J[g], n))
  <2>1. CASE g = h
    BY <1>2, <1>6, <2>1 DEF At
  <2>2. CASE g # h
    <3>1. g \in DOMAIN H \ {h} /\ J[g] = H[g]
      BY <1>6, <2>2 DEF OnlyAt
    <3> QED
      BY <1>3, <3>1
  <2> QED
    BY <2>1, <2>2
<1>7. ASSUME NEW b \in Buffers PROVE CountAt(n, b) = Cardinality(Holders(J, b))
  <2>1. Holders(J, b) \ {h} = Holders(H, b) \ {h}
    <3>1. ASSUME NEW g PROVE g \in Holders(J, b) \ {h} <=> g \in Holders(H, b) \ {h}
      <4>1. g \in DOMAIN J \ {h} <=> g \in DOMAIN H \ {h}
        BY DEF OnlyAt
      <4>2. g \in DOMAIN H \ {h} => J[g] = H[g]
        BY DEF OnlyAt
      <4> QED
        BY <4>1, <4>2 DEF Holders
    <3> QED
      BY <3>1
  <2>2. CountAt(n, b) = CountAt(m, b) - Refs(At(H, h), b) + Refs(At(J, h), b)
    BY DEF Trade
  <2>3. /\ Cardinality(Holders(H, b)) = Cardinality(Holders(H, b) \ {h}) + Refs(At(H, h), b)
        /\ Cardinality(Holders(H, b) \ {h}) \in Nat
    BY <1>1, HoldersBut
  <2>4. Cardinality(Holders(J, b)) = Cardinality(Holders(J, b) \ {h}) + Refs(At(J, h), b)
    BY <1>5, HoldersBut
  <2>5. Refs(At(H, h), b) \in {0, 1} /\ Refs(At(J, h), b) \in {0, 1}
    BY RefsAre
  <2>6. CountAt(m, b) = Cardinality(Holders(H, b))
    BY <1>1
  <2>7. Cardinality(Holders(J, b)) = Cardinality(Holders(H, b) \ {h}) + Refs(At(J, h), b)
    BY <2>1, <2>4
  <2> QED
    BY ONLY <2>2, <2>3, <2>5, <2>6, <2>7
<1>8. J = [k \in DOMAIN J |-> J[k]]
  BY DEF OnlyAt
<1> QED
  BY <1>2, <1>4, <1>5, <1>6, <1>7, <1>8 DEF Sound

-----------------------------------------------------------------------------
(* Calls.                                                                  *)

Texts(H, m) == [h \in DOMAIN H |-> AsBytes(H[h], m)]

\* The state between two calls.
Good == Sound(handle, heap) /\ Live \subseteq Handles

\* The call has ended in one of the ways E and was good: no other handle has changed,
\* and an error has changed nothing.
Done(call, E) ==
    /\ Good'
    /\ \E e \in E : Texts(handle', heap') = e.text /\ io' = [call |-> call, ret |-> e.ret, val |-> e.val]
    /\ \A g \in Live \cap Live' : g # call[2] =>
          handle'[g] = handle[g] /\ Capacity(handle[g], heap') = Capacity(handle[g], heap)
    /\ io'.ret = "err" /\ call[1] # "into" => UNCHANGED Store

\* An end of a call.
End(ret, v, T) == [ret |-> ret, val |-> v, text |-> T]

\* Only h has changed, and its text is t.
LEMMA NewTexts ==
    ASSUME NEW H, NEW m, NEW J, NEW n, NEW h, Undisturbed(H, m, J, n, h), OnlyAt(H, J, h),
           h \in DOMAIN J, NEW t, AsBytes(J[h], n) = t
    PROVE  Texts(J, n) = Put(Texts(H, m), h, t)
<1>1. DOMAIN J = DOMAIN H \cup {h}
  BY DEF OnlyAt
<1>2. ASSUME NEW g \in DOMAIN J PROVE AsBytes(J[g], n) = IF g = h THEN t ELSE Texts(H, m)[g]
  <2>1. CASE g = h
    BY <2>1
  <2>2. CASE g # h
    <3>1. g \in DOMAIN H \ {h}
      BY <1>1, <2>2
    <3> QED
      BY <2>2, <3>1 DEF Undisturbed, Texts
  <2> QED
    BY <2>1, <2>2
<1>3. DOMAIN Texts(H, m) = DOMAIN H
  BY DEF Texts
<1> QED
  BY <1>1, <1>2, <1>3 DEF Texts, Put

\* A method has given h another representation with text t.
LEMMA HandleTurns ==
    ASSUME Good, NEW h \in Live, NEW o, NEW ret, NEW v, NEW t,
           o = [ret |-> ret, val |-> v, r |-> o.r, m |-> o.m],
           Trade(handle[h], heap, o.r, o.m), AsBytes(o.r, o.m) = t, IsUtf8(t), ret # "err",
           NEW call, call[2] = h, Return(call, o, [handle EXCEPT ![h] = o.r]),
           NEW E, End(ret, v, Put(Texts(handle, heap), h, t)) \in E
    PROVE  Done(call, E) /\ handle'[h] = o.r /\ heap' = o.m /\ h \in Live'
<1>1. /\ o.ret = ret /\ o.val = v /\ Trade(handle[h], heap, o.r, o.m) /\ AsBytes(o.r, o.m) = t
  OBVIOUS
<1>2. handle' = [handle EXCEPT ![h] = o.r] /\ heap' = o.m /\ io' = [call |-> call, ret |-> ret, val |-> v]
  BY <1>1 DEF Return
<1>3. handle = [g \in Live |-> handle[g]]
  BY DEF Good, Sound, Live
<1>4. Live' = Live /\ handle'[h] = o.r /\ \A g \in Live \ {h} : handle'[g] = handle[g]
  BY <1>2, <1>3 DEF Live
<1>5. OnlyAt(handle, handle', h)
  BY <1>2, <1>3, <1>4 DEF OnlyAt, Live
<1>6. At(handle, h) = handle[h] /\ At(handle', h) = o.r /\ h \in DOMAIN handle'
  BY <1>4 DEF At, Live
<1>7. /\ Sound(handle, heap) /\ Trade(At(handle, h), heap, At(handle', h), heap')
      /\ (h \in DOMAIN handle' => IsUtf8(AsBytes(handle'[h], heap')))
  BY <1>1, <1>2, <1>4, <1>6 DEF Good
<1>8. Sound(handle', heap') /\ Undisturbed(handle, heap, handle', heap', h)
  BY ONLY <1>5, <1>7, Exchanged
<1>9. Texts(handle', heap') = Put(Texts(handle, heap), h, t)
  <2>1. AsBytes(handle'[h], heap') = t
    BY <1>1, <1>2, <1>4
  <2> QED
    BY ONLY <1>5, <1>6, <1>8, <2>1, NewTexts
<1>10. \A g \in Live \cap Live' : g # call[2] =>
          handle'[g] = handle[g] /\ Capacity(handle[g], heap') = Capacity(handle[g], heap)
  BY <1>8 DEF Undisturbed, Live
<1>11. io'.ret = ret
  BY <1>2
<1>12. \E e \in E : Texts(handle', heap') = e.text /\ io' = [call |-> call, ret |-> e.ret, val |-> e.val]
  <2>1. PICK e \in E : e = End(ret, v, Put(Texts(handle, heap), h, t))
    OBVIOUS
  <2>2. e.text = Put(Texts(handle, heap), h, t) /\ e.ret = ret /\ e.val = v
    BY <2>1 DEF End
  <2> QED
    BY <1>2, <1>9, <2>2
<1> QED
  BY <1>2, <1>4, <1>8, <1>10, <1>11, <1>12 DEF Done, Good

\* The same in the terms of Repr.
LEMMA HandleLeads ==
    ASSUME Good, NEW h \in Live, NEW o, NEW ret, NEW v, NEW t,
           Leads(o, handle[h], heap, ret, v, t), IsUtf8(t), ret # "err",
           NEW call, call[2] = h, Return(call, o, [handle EXCEPT ![h] = o.r]),
           NEW E, End(ret, v, Put(Texts(handle, heap), h, t)) \in E
    PROVE  Done(call, E) /\ handle'[h] = o.r /\ heap' = o.m /\ h \in Live'
<1>1. /\ o = [ret |-> ret, val |-> v, r |-> o.r, m |-> o.m]
      /\ Trade(handle[h], heap, o.r, o.m) /\ AsBytes(o.r, o.m) = t
  BY DEF Leads
<1> QED
  BY <1>1, HandleTurns

\* A method has changed nothing.
LEMMA NothingChanged ==
    ASSUME Good, NEW call, NEW o, NEW ret, NEW v, NEW r, o = [ret |-> ret, val |-> v, r |-> r, m |-> heap],
           Return(call, o, handle),
           NEW E, End(ret, v, Texts(handle, heap)) \in E
    PROVE  Done(call, E) /\ UNCHANGED Store
<1>1. handle' = handle /\ heap' = heap /\ io' = [call |-> call, ret |-> ret, val |-> v]
  BY DEF Return
<1>2. \E e \in E : Texts(handle', heap') = e.text /\ io' = [call |-> call, ret |-> e.ret, val |-> e.val]
  <2>1. PICK e \in E : e = End(ret, v, Texts(handle, heap))
    OBVIOUS
  <2>2. e.text = Texts(handle, heap) /\ e.ret = ret /\ e.val = v
    BY <2>1 DEF End
  <2> QED
    BY <1>1, <2>2
<1>3. UNCHANGED Store
  BY <1>1 DEF Store
<1> QED
  BY <1>1, <1>2, <1>3 DEF Done, Good, Live

\* The same when h is given back the representation it had.
LEMMA HandleStays ==
    ASSUME Good, NEW h \in Live, NEW call, NEW o, NEW ret, NEW v,
           o = [ret |-> ret, val |-> v, r |-> handle[h], m |-> heap],
           Return(call, o, [handle EXCEPT ![h] = o.r]),
           NEW E, End(ret, v, Texts(handle, heap)) \in E
    PROVE  Done(call, E) /\ UNCHANGED Store
<1>1. handle = [g \in Live |-> handle[g]]
  BY DEF Good, Sound, Live
<1>2. [handle EXCEPT ![h] = o.r] = handle
  BY <1>1
<1>3. Return(call, o, handle)
  BY <1>2
<1> QED
  BY <1>3, NothingChanged

\* The ends of a call in StringApi, in these terms.
LEMMA ApiEnds ==
    /\ Api!Fails = {End("err", <<>>, Texts(handle, heap))}
    /\ Api!Panics = {End("panic", <<>>, Texts(handle, heap))}
    /\ Api!Unchanged = {End("ok", <<>>, Texts(handle, heap))}
    /\ \A ret, v, T : Api!Ends(ret, v, T) = {End(ret, v, T)}
    /\ \A f, k, v : Api!Put(f, k, v) = Put(f, k, v)
    /\ \A h, t : Api!Sets(h, t) = {End("ok", <<>>, Put(Texts(handle, heap), h, t))}
    /\ \A h, t : Api!MaySet(h, t) = {End("ok", <<>>, Put(Texts(handle, heap), h, t)),
                                     End("err", <<>>, Texts(handle, heap))}
<1>1. [h \in Live |-> TextAt(h)] = Texts(handle, heap)
  BY DEF Live, TextAt, Texts
<1>2. \A f, k, v : Api!Put(f, k, v) = Put(f, k, v)
  BY DEF Api!Put, Put
<1>3. \A ret, v, T : Api!Ends(ret, v, T) = {End(ret, v, T)}
  BY DEF Api!Ends, End
<1>4. /\ Api!Fails = {End("err", <<>>, Texts(handle, heap))}
      /\ Api!Panics = {End("panic", <<>>, Texts(handle, heap))}
      /\ Api!Unchanged = {End("ok", <<>>, Texts(handle, heap))}
  BY <1>1, <1>3 DEF Api!Fails, Api!Panics, Api!Unchanged
<1>5. \A h, t : Api!Sets(h, t) = {End("ok", <<>>, Put(Texts(handle, heap), h, t))}
  BY <1>1, <1>2, <1>3 DEF Api!Sets
<1>6. \A h, t : Api!MaySet(h, t) = {End("ok", <<>>, Put(Texts(handle, heap), h, t)),
                                     End("err", <<>>, Texts(handle, heap))}
  BY <1>4, <1>5 DEF Api!MaySet
<1> QED
  BY <1>2, <1>3, <1>4, <1>5, <1>6

\* A handle is one of the heap and its text is text.
LEMMA GoodHandle ==
    ASSUME Good, NEW h \in Live
    PROVE  /\ IsHeapOf(heap) /\ Valid(handle[h], heap)
           /\ TextAt(h) = AsBytes(handle[h], heap) /\ Texts(handle, heap)[h] = TextAt(h)
           /\ TextAt(h) \in Seq(Bytes) /\ IsUtf8(TextAt(h)) /\ Len(TextAt(h)) = LenOf(handle[h], heap)
           /\ h \in Handles /\ handle[h].ty \in Types
           /\ (h \in Strings <=> handle[h].ty = "LeanString")
<1>1. IsHeapOf(heap) /\ Valid(handle[h], heap) /\ IsUtf8(AsBytes(handle[h], heap)) /\ h \in Handles
  BY DEF Good, Sound, Live
<1>2. /\ AsBytes(handle[h], heap) \in Seq(Bytes) /\ Len(AsBytes(handle[h], heap)) = LenOf(handle[h], heap)
      /\ handle[h].ty \in Types
  BY <1>1, ValidFacts
<1> QED
  BY <1>1, <1>2 DEF TextAt, Texts, Live, Strings

\* A method that gives h the text t or fails.
LEMMA MutateEdits ==
    ASSUME Good, NEW h \in Live, NEW call, call[2] = h, NEW S, Mutate(h, call, S), NEW t, IsUtf8(t),
           \A o \in S : Edits(o, handle[h], heap, t)
    PROVE  Done(call, Api!MaySet(h, t))
<1>1. PICK o \in S : Return(call, o, [handle EXCEPT ![h] = o.r])
  BY DEF Mutate
<1>2. CASE Gets(o, handle[h], heap, handle[h].ty, t)
  <2>1. Leads(o, handle[h], heap, "ok", <<>>, t)
    BY <1>2 DEF Gets, Leads
  <2>2. End("ok", <<>>, Put(Texts(handle, heap), h, t)) \in Api!MaySet(h, t)
    BY ApiEnds
  <2>3. "ok" # "err"
    OBVIOUS
  <2> QED
    BY <1>1, <2>1, <2>2, <2>3, HandleLeads
<1>3. CASE Fails(o, handle[h], heap)
  <2>1. End("err", <<>>, Texts(handle, heap)) \in Api!MaySet(h, t)
    BY ApiEnds
  <2> QED
    BY <1>1, <1>3, <2>1, HandleStays DEF Fails
<1> QED
  BY <1>2, <1>3 DEF Edits

\* push_str.
LEMMA PushStep ==
    ASSUME Good, NEW h \in Handles, NEW s \in Args, DoPushStr(h, s)
    PROVE  Done(<<"push_str", h, s>>, Api!Allowed(<<"push_str", h, s>>))
<1> DEFINE call == <<"push_str", h, s>>
           t == TextAt(h) \o s
<1>1. h \in Live /\ Mutate(h, call, PushStr(handle[h], heap, s))
  BY DEF DoPushStr, Strings
<1>2. handle[h].ty = "LeanString"
  BY DEF DoPushStr, Strings
<1>3. s \in Seq(Bytes) /\ IsUtf8(s)
  BY ArgsAssumption
<1>4. IsUtf8(t)
  BY <1>1, <1>3, GoodHandle, JoinUtf8
<1>5. \A o \in PushStr(handle[h], heap, s) : Edits(o, handle[h], heap, t)
  BY <1>1, <1>2, <1>3, GoodHandle, PushIs
<1>6. call[2] = h
  OBVIOUS
<1>7. Done(call, Api!MaySet(h, t))
  <2> HIDE DEF t, call
  <2> QED
    BY <1>1, <1>4, <1>5, <1>6, MutateEdits
<1>8. Api!Allowed(call) = Api!MaySet(h, t)
  BY <1>1 DEF Api!Allowed
<1> QED
  BY <1>7, <1>8

\* A method that panics before it has changed anything.
LEMMA MutatePanics ==
    ASSUME Good, NEW h \in Live, NEW call, NEW S, Mutate(h, call, S),
           \A o \in S : Panics(o, handle[h], heap)
    PROVE  Done(call, Api!Panics) /\ UNCHANGED Store
<1>1. PICK o \in S : Return(call, o, [handle EXCEPT ![h] = o.r])
  BY DEF Mutate
<1>2. End("panic", <<>>, Texts(handle, heap)) \in Api!Panics
  BY ApiEnds
<1>3. o = [ret |-> "panic", val |-> <<>>, r |-> handle[h], m |-> heap]
  BY DEF Panics
<1> QED
  BY <1>1, <1>2, <1>3, HandleStays

\* A method with nothing to do.
LEMMA MutateKeeps ==
    ASSUME Good, NEW h \in Live, NEW call, NEW S, Mutate(h, call, S), NEW ty, NEW t,
           \A o \in S : Gets(o, handle[h], heap, ty, t) /\ o.r = handle[h] /\ o.m = heap
    PROVE  Done(call, Api!Unchanged) /\ UNCHANGED Store
<1>1. PICK o \in S : Return(call, o, [handle EXCEPT ![h] = o.r])
  BY DEF Mutate
<1>2. End("ok", <<>>, Texts(handle, heap)) \in Api!Unchanged
  BY ApiEnds
<1>3. o = [ret |-> "ok", val |-> <<>>, r |-> handle[h], m |-> heap]
  BY DEF Gets
<1> QED
  BY <1>1, <1>2, <1>3, HandleStays

\* A method that gives h the text t, and returns v or fails.
LEMMA MutateGives ==
    ASSUME Good, NEW h \in Live, NEW call, call[2] = h, NEW S, Mutate(h, call, S),
           NEW t, IsUtf8(t), NEW v, NEW ret, ret # "err",
           \A o \in S : Leads(o, handle[h], heap, ret, v, t) \/ Fails(o, handle[h], heap)
    PROVE  Done(call, Api!Fails \cup Api!Ends(ret, v, Put(Texts(handle, heap), h, t)))
<1> DEFINE E == Api!Fails \cup Api!Ends(ret, v, Put(Texts(handle, heap), h, t))
<1>1. PICK o \in S : Return(call, o, [handle EXCEPT ![h] = o.r])
  BY DEF Mutate
<1>2. /\ End(ret, v, Put(Texts(handle, heap), h, t)) \in E
      /\ End("err", <<>>, Texts(handle, heap)) \in E
  BY ApiEnds
<1> HIDE DEF E
<1>3. CASE Leads(o, handle[h], heap, ret, v, t)
  <2>1. Done(call, E)
    BY <1>1, <1>2, <1>3, HandleLeads
  <2> QED
    BY <2>1 DEF E
<1>4. CASE Fails(o, handle[h], heap)
  BY <1>1, <1>2, <1>4, HandleStays DEF Fails, E
<1> QED
  BY <1>3, <1>4

\* A method that gives h the text t and cannot fail.
LEMMA MutateSets ==
    ASSUME Good, NEW h \in Live, NEW call, call[2] = h, NEW S, Mutate(h, call, S),
           NEW t, IsUtf8(t), \A o \in S : Gets(o, handle[h], heap, handle[h].ty, t)
    PROVE  Done(call, Api!Sets(h, t))
<1>1. PICK o \in S : Return(call, o, [handle EXCEPT ![h] = o.r])
  BY DEF Mutate
<1>2. Leads(o, handle[h], heap, "ok", <<>>, t)
  BY DEF Gets, Leads
<1>3. End("ok", <<>>, Put(Texts(handle, heap), h, t)) \in Api!Sets(h, t)
  BY ApiEnds
<1>4. "ok" # "err"
  OBVIOUS
<1> QED
  BY <1>1, <1>2, <1>3, <1>4, HandleLeads

\* A handle has been made, with text t.
LEMMA HandleMade ==
    ASSUME Good, NEW k \in Handles \ Live, NEW o, NEW ty, NEW t,
           Gets(o, Nothing, heap, ty, t), IsUtf8(t),
           NEW call, Return(call, o, Put(handle, k, o.r)),
           NEW E, End("ok", <<>>, Put(Texts(handle, heap), k, t)) \in E
    PROVE  Done(call, E) /\ handle'[k] = o.r /\ heap' = o.m /\ k \in Live'
<1>1. o.ret = "ok" /\ o.val = <<>> /\ Trade(Nothing, heap, o.r, o.m) /\ AsBytes(o.r, o.m) = t
  BY GetsFacts
<1>2. handle' = Put(handle, k, o.r) /\ heap' = o.m /\ io' = [call |-> call, ret |-> "ok", val |-> <<>>]
  BY <1>1 DEF Return
<1>3. /\ Live' = Live \cup {k} /\ handle'[k] = o.r /\ \A g \in Live \ {k} : handle'[g] = handle[g]
      /\ handle' = [g \in DOMAIN handle' |-> handle'[g]]
  BY <1>2 DEF Live, Put
<1>4. OnlyAt(handle, handle', k)
  BY <1>3 DEF OnlyAt, Live
<1>5. At(handle, k) = Nothing /\ At(handle', k) = o.r /\ k \in DOMAIN handle'
  BY <1>3 DEF At, Live
<1>6. /\ Sound(handle, heap) /\ Trade(At(handle, k), heap, At(handle', k), heap')
      /\ (k \in DOMAIN handle' => IsUtf8(AsBytes(handle'[k], heap')))
  BY <1>1, <1>2, <1>3, <1>5 DEF Good
<1>7. Sound(handle', heap') /\ Undisturbed(handle, heap, handle', heap', k)
  BY ONLY <1>4, <1>6, Exchanged
<1>8. Texts(handle', heap') = Put(Texts(handle, heap), k, t)
  <2>1. AsBytes(handle'[k], heap') = t
    BY <1>1, <1>2, <1>3
  <2> QED
    BY ONLY <1>4, <1>5, <1>7, <2>1, NewTexts
<1>9. \A g \in Live \cap Live' : g # call[2] =>
          handle'[g] = handle[g] /\ Capacity(handle[g], heap') = Capacity(handle[g], heap)
  BY <1>7 DEF Undisturbed, Live
<1>10. io'.ret = "ok"
  BY <1>2
<1>11. \E e \in E : Texts(handle', heap') = e.text /\ io' = [call |-> call, ret |-> e.ret, val |-> e.val]
  <2>1. PICK e \in E : e = End("ok", <<>>, Put(Texts(handle, heap), k, t))
    OBVIOUS
  <2>2. e.text = Put(Texts(handle, heap), k, t) /\ e.ret = "ok" /\ e.val = <<>>
    BY <2>1 DEF End
  <2> QED
    BY <1>2, <1>8, <2>2
<1>12. Live' \subseteq Handles
  BY <1>3 DEF Good
<1> QED
  BY <1>2, <1>3, <1>7, <1>9, <1>10, <1>11, <1>12 DEF Done, Good

\* A call that makes a handle or fails.
LEMMA MakeMakes ==
    ASSUME Good, NEW k \in Handles, NEW call, NEW S, Make(k, call, S), NEW r, NEW ty, NEW t, IsUtf8(t),
           \A o \in S : Makes(o, r, heap, ty, t)
    PROVE  Done(call, Api!MaySet(k, t))
<1>1. PICK o \in S : Return(call, o, IF o.ret = "ok" THEN Put(handle, k, o.r) ELSE handle)
  BY DEF Make
<1>2. k \in Handles \ Live
  BY DEF Make
<1>3. /\ End("ok", <<>>, Put(Texts(handle, heap), k, t)) \in Api!MaySet(k, t)
      /\ End("err", <<>>, Texts(handle, heap)) \in Api!MaySet(k, t)
  BY ApiEnds
<1>4. CASE Gets(o, Nothing, heap, ty, t)
  <2>1. o.ret = "ok"
    BY <1>4, GetsFacts
  <2>2. Return(call, o, Put(handle, k, o.r))
    BY <1>1, <2>1
  <2> QED
    BY <1>2, <1>3, <1>4, <2>2, HandleMade
<1>5. CASE Fails(o, r, heap)
  <2>1. o.ret = "err"
    BY <1>5, FailsFacts
  <2>2. Return(call, o, handle)
    BY <1>1, <2>1
  <2> QED
    BY <1>3, <1>5, <2>2, NothingChanged DEF Fails
<1> QED
  BY <1>4, <1>5 DEF Makes

\* A call that makes a handle and cannot fail.
LEMMA MakeGets ==
    ASSUME Good, NEW k \in Handles, NEW call, NEW S, Make(k, call, S), NEW ty, NEW t, IsUtf8(t),
           \A o \in S : Gets(o, Nothing, heap, ty, t)
    PROVE  Done(call, Api!Sets(k, t))
<1>1. PICK o \in S : Return(call, o, IF o.ret = "ok" THEN Put(handle, k, o.r) ELSE handle)
  BY DEF Make
<1>2. k \in Handles \ Live
  BY DEF Make
<1>3. End("ok", <<>>, Put(Texts(handle, heap), k, t)) \in Api!Sets(k, t)
  BY ApiEnds
<1>4. Gets(o, Nothing, heap, ty, t) /\ o.ret = "ok"
  BY GetsFacts
<1>5. Return(call, o, Put(handle, k, o.r))
  BY <1>1, <1>4
<1> QED
  BY <1>2, <1>3, <1>4, <1>5, HandleMade

\* A handle has been dropped.
LEMMA HandleDropped ==
    ASSUME Good, NEW h \in Live, NEW n, Trade(handle[h], heap, Nothing, n),
           NEW call, call[2] = h, NEW ret, NEW v,
           handle' = Gone(h), heap' = n, io' = [call |-> call, ret |-> ret, val |-> v],
           ret = "err" => call[1] = "into",
           NEW E, End(ret, v, [g \in DOMAIN Texts(handle, heap) \ {h} |-> Texts(handle, heap)[g]]) \in E
    PROVE  Done(call, E)
<1>1. /\ Live' = Live \ {h} /\ \A g \in Live \ {h} : handle'[g] = handle[g]
      /\ handle' = [g \in DOMAIN handle' |-> handle'[g]]
  BY DEF Live, Gone
<1>2. OnlyAt(handle, handle', h)
  BY <1>1 DEF OnlyAt, Live
<1>3. At(handle, h) = handle[h] /\ At(handle', h) = Nothing /\ h \notin DOMAIN handle'
  BY <1>1 DEF At, Live
<1>4. /\ Sound(handle, heap) /\ Trade(At(handle, h), heap, At(handle', h), heap')
      /\ (h \in DOMAIN handle' => IsUtf8(AsBytes(handle'[h], heap')))
  BY <1>3 DEF Good
<1>5. Sound(handle', heap') /\ Undisturbed(handle, heap, handle', heap', h)
  BY ONLY <1>2, <1>4, Exchanged
<1>6. Texts(handle', heap') = [g \in DOMAIN Texts(handle, heap) \ {h} |-> Texts(handle, heap)[g]]
  <2>1. DOMAIN handle' = DOMAIN handle \ {h} /\ DOMAIN Texts(handle, heap) = DOMAIN handle
    BY <1>1 DEF Live, Texts
  <2>2. ASSUME NEW g \in DOMAIN handle \ {h} PROVE AsBytes(handle'[g], heap') = Texts(handle, heap)[g]
    BY <1>5, <2>2 DEF Undisturbed, Texts
  <2> QED
    BY <2>1, <2>2 DEF Texts
<1>7. \A g \in Live \cap Live' : g # call[2] =>
          handle'[g] = handle[g] /\ Capacity(handle[g], heap') = Capacity(handle[g], heap)
  BY <1>5 DEF Undisturbed, Live
<1>8. io'.ret = ret
  OBVIOUS
<1>9. \E e \in E : Texts(handle', heap') = e.text /\ io' = [call |-> call, ret |-> e.ret, val |-> e.val]
  <2>1. PICK T : T = [g \in DOMAIN Texts(handle, heap) \ {h} |-> Texts(handle, heap)[g]]
    OBVIOUS
  <2>2. PICK e \in E : e = End(ret, v, T)
    BY <2>1
  <2>3. e.text = T /\ e.ret = ret /\ e.val = v
    BY <2>2 DEF End
  <2> QED
    BY <1>6, <2>1, <2>3
<1>10. Live' \subseteq Handles
  BY <1>1 DEF Good
<1> QED
  BY <1>1, <1>5, <1>7, <1>8, <1>9, <1>10 DEF Done, Good

-----------------------------------------------------------------------------
(* Making and dropping handles.                                            *)

\* The empty text is one.
LEMMA EmptyUtf8 == <<>> \in Seq(Bytes) /\ IsUtf8(<<>>)
BY DEF IsUtf8

\* from_str and from_static_str.
LEMMA FromStep ==
    ASSUME Good, NEW k \in Handles, NEW ty \in Types, NEW s \in Args
    PROVE  /\ FromText(k, ty, s) =>
                 Done(<<"from_str", k, s>>, Api!Allowed(<<"from_str", k, s>>))
           /\ FromStaticText(k, ty, s) =>
                 Done(<<"from_static_str", k, s>>, Api!Allowed(<<"from_static_str", k, s>>))
<1>1. s \in Seq(Bytes) /\ IsUtf8(s) /\ IsHeapOf(heap)
  BY ArgsAssumption DEF Good, Sound
<1>2. ASSUME FromText(k, ty, s)
      PROVE  Done(<<"from_str", k, s>>, Api!Allowed(<<"from_str", k, s>>))
  <2>1. \A o \in FromStr(ty, s, Nothing, heap) : Makes(o, Nothing, heap, ty, s)
    BY <1>1, FromStrIs
  <2>2. PICK call : call = <<"from_str", k, s>>
    OBVIOUS
  <2>3. Done(call, Api!MaySet(k, s))
    BY <1>1, <1>2, <2>1, <2>2, MakeMakes DEF FromText
  <2>4. Api!Allowed(call) = Api!MaySet(k, s)
    BY <2>2 DEF Api!Allowed
  <2> QED
    BY <2>2, <2>3, <2>4
<1>3. ASSUME FromStaticText(k, ty, s)
      PROVE  Done(<<"from_static_str", k, s>>, Api!Allowed(<<"from_static_str", k, s>>))
  <2>1. \A o \in FromStaticStr(ty, s, Nothing, heap) : Makes(o, Nothing, heap, ty, s)
    BY <1>1, FromStaticStrIs
  <2>2. PICK call : call = <<"from_static_str", k, s>>
    OBVIOUS
  <2>3. Done(call, Api!MaySet(k, s))
    BY <1>1, <1>3, <2>1, <2>2, MakeMakes DEF FromStaticText
  <2>4. Api!Allowed(call) = Api!MaySet(k, s)
    BY <2>2 DEF Api!Allowed
  <2> QED
    BY <2>2, <2>3, <2>4
<1> QED
  BY <1>2, <1>3

\* with_capacity.
LEMMA WithRoomStep ==
    ASSUME Good, NEW k \in Handles, NEW n \in Sizes, WithRoom(k, n)
    PROVE  Done(<<"with_capacity", k, n>>, Api!Allowed(<<"with_capacity", k, n>>))
<1>1. IsHeapOf(heap) /\ n \in Nat
  BY ArgsAssumption DEF Good, Sound
<1>2. PICK e : e = <<>>
  OBVIOUS
<1>3. \A o \in WithCapacity(n, Nothing, heap) : Makes(o, Nothing, heap, "LeanString", e)
  BY <1>1, <1>2, WithCapacityIs
<1>4. PICK call : call = <<"with_capacity", k, n>>
  OBVIOUS
<1>5. Done(call, Api!MaySet(k, e))
  BY <1>2, <1>3, <1>4, EmptyUtf8, MakeMakes DEF WithRoom
<1>6. Api!Allowed(call) = Api!MaySet(k, e)
  BY <1>2, <1>4 DEF Api!Allowed
<1> QED
  BY <1>4, <1>5, <1>6

\* clone.
LEMMA CloneStep ==
    ASSUME Good, NEW h \in Handles, NEW k \in Handles, Clone(h, k)
    PROVE  Done(<<"clone", h, k>>, Api!Allowed(<<"clone", h, k>>))
<1>1. h \in Live /\ Make(k, <<"clone", h, k>>, MakeShallowClone(handle[h], heap))
  BY DEF Clone
<1>2. PICK t : t = TextAt(h) /\ IsUtf8(t)
  BY <1>1, GoodHandle
<1>3. \A o \in MakeShallowClone(handle[h], heap) : Gets(o, Nothing, heap, handle[h].ty, t)
  BY <1>1, <1>2, GoodHandle, CloneIs
<1>4. PICK call : call = <<"clone", h, k>>
  OBVIOUS
<1>5. Done(call, Api!Sets(k, t))
  BY <1>1, <1>2, <1>3, <1>4, MakeGets
<1>6. Api!Allowed(call) = Api!Sets(k, t)
  BY <1>1, <1>2, <1>4 DEF Api!Allowed
<1> QED
  BY <1>4, <1>5, <1>6

\* clone_from.
LEMMA CloneFromStep ==
    ASSUME Good, NEW h \in Handles, NEW g \in Handles, CloneFrom(h, g)
    PROVE  Done(<<"clone_from", h, g>>, Api!Allowed(<<"clone_from", h, g>>))
<1>1. /\ h \in Live /\ g \in Live /\ handle[g].ty = handle[h].ty
      /\ Mutate(h, <<"clone_from", h, g>>, Replace(handle[h], heap, MakeShallowClone(handle[g], heap)))
  BY DEF CloneFrom
<1>2. PICK t : t = TextAt(g) /\ IsUtf8(t)
  BY <1>1, GoodHandle
<1>3. \A p \in MakeShallowClone(handle[g], heap) : Gets(p, Nothing, heap, handle[h].ty, t)
  BY <1>1, <1>2, GoodHandle, CloneIs
<1>4. \A p \in MakeShallowClone(handle[g], heap) : Makes(p, handle[h], heap, handle[h].ty, t)
  BY <1>3 DEF Makes
<1>5. ASSUME NEW o \in Replace(handle[h], heap, MakeShallowClone(handle[g], heap))
      PROVE  Gets(o, handle[h], heap, handle[h].ty, t)
  <2>1. IsHeapOf(heap) /\ Valid(handle[h], heap)
    BY <1>1, GoodHandle
  <2>2. PICK p \in MakeShallowClone(handle[g], heap) :
           \/ Gets(o, handle[h], heap, handle[h].ty, t) /\ p.ret = "ok" /\ KeepsAll(p, o)
           \/ Fails(o, handle[h], heap) /\ o = p
    BY <1>4, <1>5, <2>1, ReplaceIs
  <2>3. p.ret = "ok"
    BY <1>3, <2>2, GetsFacts
  <2>4. ~(Fails(o, handle[h], heap) /\ o = p)
    BY <2>3, FailsFacts
  <2> QED
    BY <2>2, <2>4
<1>6. PICK call : call = <<"clone_from", h, g>>
  OBVIOUS
<1>7. Done(call, Api!Sets(h, t))
  <2>1. call[2] = h
    BY <1>6
  <2> QED
    BY <1>1, <1>2, <1>5, <1>6, <2>1, MutateSets
<1>8. Api!Allowed(call) = Api!Sets(h, t)
  BY <1>1, <1>2, <1>6 DEF Api!Allowed
<1> QED
  BY <1>6, <1>7, <1>8

\* drop.
LEMMA DropStep ==
    ASSUME Good, NEW h \in Handles, Drop(h)
    PROVE  Done(<<"drop", h>>, Api!Allowed(<<"drop", h>>))
<1>1. PICK o \in DropIn(handle[h], heap) : Return(<<"drop", h>>, o, Gone(h))
  BY DEF Drop
<1>2. h \in Live
  BY DEF Drop
<1>3. o = [ret |-> "ok", val |-> <<>>, r |-> handle[h], m |-> o.m] /\ Trade(handle[h], heap, Nothing, o.m)
  BY <1>2, GoodHandle, DropInIs
<1>4. PICK call : call = <<"drop", h>>
  OBVIOUS
<1>5. handle' = Gone(h) /\ heap' = o.m /\ io' = [call |-> call, ret |-> "ok", val |-> <<>>]
  <2>1. o.ret = "ok" /\ o.val = <<>>
    BY <1>3
  <2> QED
    BY <1>1, <1>4, <2>1 DEF Return
<1>6. PICK T : T = [g \in DOMAIN Texts(handle, heap) \ {h} |-> Texts(handle, heap)[g]]
  OBVIOUS
<1>7. Api!Allowed(call) = {End("ok", <<>>, T)}
  <2>1. Api!Without(h) = T
    BY <1>6 DEF Api!Without, Texts, Live, TextAt
  <2>2. Api!Allowed(call) = Api!Ends("ok", <<>>, Api!Without(h))
    BY <1>4 DEF Api!Allowed
  <2> QED
    BY <2>1, <2>2, ApiEnds
<1>8. Done(call, Api!Allowed(call))
  <2>1. call[2] = h /\ "ok" # "err"
    BY <1>4
  <2>2. End("ok", <<>>, [g \in DOMAIN Texts(handle, heap) \ {h} |-> Texts(handle, heap)[g]]) \in Api!Allowed(call)
    BY <1>6, <1>7
  <2> QED
    BY <1>2, <1>3, <1>5, <2>1, <2>2, HandleDropped
<1> QED
  BY <1>4, <1>8

\* To give a handle the text it has changes no text.
LEMMA SameTexts ==
    ASSUME NEW H, NEW m, NEW h \in DOMAIN H
    PROVE  Put(Texts(H, m), h, AsBytes(H[h], m)) = Texts(H, m)
<1>1. DOMAIN Texts(H, m) = DOMAIN H /\ DOMAIN H \cup {h} = DOMAIN H
  BY DEF Texts
<1> QED
  BY <1>1 DEF Texts, Put

\* A conversion, given what the two converters do.
LEMMA ConsumeStep ==
    ASSUME Good, NEW h \in Live, NEW S, NEW ty, \A o \in S : Converts(o, handle[h], heap, ty),
           Consume(h, S)
    PROVE  Done(<<"into", h>>, Api!Allowed(<<"into", h>>))
<1>1. PICK call : call = <<"into", h>>
  OBVIOUS
<1>2. call[1] = "into" /\ call[2] = h
  BY <1>1
<1>3. PICK T : T = [g \in DOMAIN Texts(handle, heap) \ {h} |-> Texts(handle, heap)[g]]
  OBVIOUS
<1>4. /\ End("ok", <<>>, Texts(handle, heap)) \in Api!Allowed(call)
      /\ End("err", <<>>, T) \in Api!Allowed(call)
  <2>1. Api!Without(h) = T
    BY <1>3 DEF Api!Without, Texts, Live, TextAt
  <2>2. Api!Allowed(call) = Api!Unchanged \cup Api!Ends("err", <<>>, Api!Without(h))
    BY <1>1 DEF Api!Allowed
  <2> QED
    BY <2>1, <2>2, ApiEnds
<1>5. IsHeapOf(heap) /\ Valid(handle[h], heap) /\ h \in DOMAIN handle
  BY GoodHandle DEF Live
<1>6. PICK t : t = AsBytes(handle[h], heap) /\ IsUtf8(t)
  BY GoodHandle
<1>7. PICK o \in S :
         \/ /\ o.ret # "err"
            /\ Return(call, o, [handle EXCEPT ![h] = o.r])
         \/ /\ o.ret = "err"
            /\ \E d \in DropIn(o.r, o.m) :
                  Return(call, [d EXCEPT !.ret = IF @ = "ok" THEN "err" ELSE @], Gone(h))
  BY <1>1 DEF Consume
<1>8. CASE Gets(o, handle[h], heap, ty, t)
  <2>1. /\ o = [ret |-> "ok", val |-> <<>>, r |-> o.r, m |-> o.m]
        /\ Trade(handle[h], heap, o.r, o.m) /\ AsBytes(o.r, o.m) = t
    BY <1>8 DEF Gets
  <2>2. o.ret = "ok" /\ "ok" # "err"
    BY <2>1
  <2>3. Return(call, o, [handle EXCEPT ![h] = o.r])
    BY <1>7, <2>2
  <2>4. Put(Texts(handle, heap), h, t) = Texts(handle, heap)
    BY <1>5, <1>6, SameTexts
  <2>5. End("ok", <<>>, Put(Texts(handle, heap), h, t)) \in Api!Allowed(call)
    BY <1>4, <2>4
  <2>6. Done(call, Api!Allowed(call))
    BY <1>2, <1>6, <2>1, <2>2, <2>3, <2>5, HandleTurns
  <2> QED
    BY <1>1, <2>6
<1>9. CASE Returns(o, handle[h], heap)
  <2>1. o = [ret |-> "err", val |-> <<>>, r |-> handle[h], m |-> o.m] /\ Trade(handle[h], heap, handle[h], o.m)
    BY <1>9 DEF Returns
  <2>2. o.ret = "err" /\ o.r = handle[h] /\ IsHeapOf(o.m) /\ Valid(handle[h], o.m)
    BY <2>1 DEF Trade
  <2>3. PICK d \in DropIn(handle[h], o.m) :
           Return(call, [d EXCEPT !.ret = IF @ = "ok" THEN "err" ELSE @], Gone(h))
    BY <1>7, <2>2
  <2>4. d = [ret |-> "ok", val |-> <<>>, r |-> handle[h], m |-> d.m] /\ Trade(handle[h], o.m, Nothing, d.m)
    BY <2>2, <2>3, DropInIs
  <2>5. Trade(handle[h], heap, Nothing, d.m)
    BY <1>5, <2>1, <2>4, TradeTwice
  <2>6. handle' = Gone(h) /\ heap' = d.m /\ io' = [call |-> call, ret |-> "err", val |-> <<>>]
    <3>1. PICK n : n = d.m
      OBVIOUS
    <3>2. d = [ret |-> "ok", val |-> <<>>, r |-> handle[h], m |-> n]
      BY <2>4, <3>1
    <3>3. [d EXCEPT !.ret = IF @ = "ok" THEN "err" ELSE @] = [ret |-> "err", val |-> <<>>, r |-> handle[h], m |-> n]
      BY <3>2
    <3> QED
      BY <2>3, <3>1, <3>3 DEF Return
  <2>7. End("err", <<>>, [g \in DOMAIN Texts(handle, heap) \ {h} |-> Texts(handle, heap)[g]]) \in Api!Allowed(call)
    BY <1>3, <1>4
  <2>8. Done(call, Api!Allowed(call))
    BY <1>2, <2>5, <2>6, <2>7, HandleDropped
  <2> QED
    BY <1>1, <2>8
<1> QED
  BY <1>6, <1>8, <1>9 DEF Converts

\* The two conversions.
LEMMA IntoStep ==
    ASSUME Good, NEW h \in Handles, IntoLeanStr(h) \/ IntoLeanString(h)
    PROVE  Done(<<"into", h>>, Api!Allowed(<<"into", h>>))
<1>1. CASE IntoLeanStr(h)
  <2>1. h \in Live /\ handle[h].ty = "LeanString" /\ Consume(h, IntoImmutable(handle[h], heap))
    BY <1>1 DEF IntoLeanStr, Strings
  <2>2. \A o \in IntoImmutable(handle[h], heap) : Converts(o, handle[h], heap, "LeanStr")
    BY <2>1, GoodHandle, IntoImmutableIs
  <2> QED
    BY <2>1, <2>2, ConsumeStep
<1>2. CASE IntoLeanString(h)
  <2>1. h \in Live /\ h \notin Strings /\ Consume(h, IntoMutable(handle[h], heap))
    BY <1>2 DEF IntoLeanString
  <2>2. handle[h].ty = "LeanStr"
    BY <2>1, GoodHandle DEF Types
  <2>3. \A o \in IntoMutable(handle[h], heap) : Converts(o, handle[h], heap, "LeanString")
    BY <2>1, <2>2, GoodHandle, IntoMutableIs
  <2> QED
    BY <2>1, <2>3, ConsumeStep
<1> QED
  BY <1>1, <1>2

-----------------------------------------------------------------------------
(* Methods of a LeanString.                                                *)

\* A LeanString is a handle of the heap.
LEMMA GoodString ==
    ASSUME Good, NEW h \in Strings
    PROVE  /\ h \in Live /\ IsHeapOf(heap) /\ Valid(handle[h], heap) /\ handle[h].ty = "LeanString"
           /\ TextAt(h) = AsBytes(handle[h], heap) /\ TextAt(h) \in Seq(Bytes) /\ IsUtf8(TextAt(h))
           /\ IsUtf8(AsBytes(handle[h], heap))
           /\ Len(TextAt(h)) = LenOf(handle[h], heap) /\ Len(TextAt(h)) \in Nat
           /\ Len(TextAt(h)) < UsizeMax
<1>1. h \in Live
  BY DEF Strings
<1>2. LenOf(handle[h], heap) < UsizeMax /\ LenOf(handle[h], heap) \in Nat
  BY <1>1, GoodHandle, ValidFacts
<1> QED
  BY <1>1, <1>2, GoodHandle

\* reserve, reserve_exact and shrink_to keep the text.
LEMMA RoomStep ==
    ASSUME Good, NEW h \in Handles, NEW n \in Sizes
    PROVE  /\ DoReserve(h, n) => Done(<<"reserve", h, n>>, Api!Allowed(<<"reserve", h, n>>))
           /\ DoShrinkTo(h, n) => Done(<<"shrink_to", h, n>>, Api!Allowed(<<"shrink_to", h, n>>))
<1>1. n \in Nat
  BY ArgsAssumption
<1>2. ASSUME DoReserve(h, n)
      PROVE  Done(<<"reserve", h, n>>, Api!Allowed(<<"reserve", h, n>>))
  <2>1. PICK call : call = <<"reserve", h, n>>
    OBVIOUS
  <2>2. h \in Strings /\ h \in Live /\ call[2] = h
    BY <1>2, <2>1 DEF DoReserve, Strings
  <2>3. PICK t : t = TextAt(h) /\ IsUtf8(t)
    BY <2>2, GoodString
  <2>4. PICK S : Mutate(h, call, S) /\ S \subseteq Reserve(handle[h], heap, n) \cup ReserveExact(handle[h], heap, n)
    BY <1>2, <2>1 DEF DoReserve
  <2>5. \A o \in S : Edits(o, handle[h], heap, t)
    BY <1>1, <2>2, <2>3, <2>4, GoodString, ReserveIs
  <2>6. Done(call, Api!MaySet(h, t))
    BY <2>2, <2>3, <2>4, <2>5, MutateEdits
  <2>7. Api!Allowed(call) = Api!MaySet(h, t)
    BY <2>1, <2>2, <2>3 DEF Api!Allowed
  <2> QED
    BY <2>1, <2>6, <2>7
<1>3. ASSUME DoShrinkTo(h, n)
      PROVE  Done(<<"shrink_to", h, n>>, Api!Allowed(<<"shrink_to", h, n>>))
  <2>1. PICK call : call = <<"shrink_to", h, n>>
    OBVIOUS
  <2>2. h \in Strings /\ h \in Live /\ call[2] = h /\ Mutate(h, call, ShrinkTo(handle[h], heap, n))
    BY <1>3, <2>1 DEF DoShrinkTo, Strings
  <2>3. PICK t : t = TextAt(h) /\ IsUtf8(t)
    BY <2>2, GoodString
  <2>4. \A o \in ShrinkTo(handle[h], heap, n) : Edits(o, handle[h], heap, t)
    BY <1>1, <2>2, <2>3, GoodString, ShrinkToIs
  <2>5. Done(call, Api!MaySet(h, t))
    BY <2>2, <2>3, <2>4, MutateEdits
  <2>6. Api!Allowed(call) = Api!MaySet(h, t)
    BY <2>1, <2>2, <2>3 DEF Api!Allowed
  <2> QED
    BY <2>1, <2>5, <2>6
<1> QED
  BY <1>2, <1>3

\* push.
LEMMA PushCharStep ==
    ASSUME Good, NEW h \in Handles, NEW s \in Args, DoPush(h, s)
    PROVE  Done(<<"push", h, s>>, Api!Allowed(<<"push", h, s>>))
<1>1. PICK call : call = <<"push", h, s>>
  OBVIOUS
<1>2. h \in Strings /\ h \in Live /\ call[2] = h /\ Mutate(h, call, PushChar(handle[h], heap, s))
  BY <1>1 DEF DoPush, Strings
<1>3. s \in Seq(Bytes) /\ IsUtf8(s)
  BY ArgsAssumption
<1>4. PICK t : t = TextAt(h) \o s /\ IsUtf8(t)
  BY <1>2, <1>3, GoodString, JoinUtf8
<1>5. \A o \in PushChar(handle[h], heap, s) : Edits(o, handle[h], heap, t)
  BY <1>2, <1>3, <1>4, GoodString, PushIs
<1>6. Done(call, Api!MaySet(h, t))
  BY <1>2, <1>4, <1>5, MutateEdits
<1>7. Api!Allowed(call) = Api!MaySet(h, t)
  BY <1>1, <1>2, <1>4 DEF Api!Allowed
<1> QED
  BY <1>1, <1>6, <1>7

\* A handle that is not on the heap has nothing to release when it is exchanged.
LEMMA TextExchanged ==
    ASSUME NEW m, NEW r, ~IsHeap(r), NEW q, NEW n, Trade(Nothing, m, q, n)
    PROVE  Trade(r, m, q, n)
<1>1. \A b : Refs(r, b) = 0
  BY DEF Refs
<1>2. \A b : Refs(Nothing, b) = 0
  BY NothingValid
<1> QED
  BY <1>1, <1>2 DEF Trade, Spares

\* write_fmt of a literal.
LEMMA WriteFmtStep ==
    ASSUME Good, NEW h \in Handles, NEW s \in Args, DoWriteFmt(h, s)
    PROVE  Done(<<"write_fmt", h, s>>, Api!Allowed(<<"write_fmt", h, s>>))
<1>1. PICK call : call = <<"write_fmt", h, s>>
  OBVIOUS
<1>2. h \in Strings /\ h \in Live /\ call[2] = h
  BY <1>1 DEF DoWriteFmt, Strings
<1>3. s \in Seq(Bytes) /\ IsUtf8(s)
  BY ArgsAssumption
<1>4. PICK t : t = TextAt(h) \o s /\ IsUtf8(t)
  BY <1>2, <1>3, GoodString, JoinUtf8
<1>5. PICK S : /\ Mutate(h, call, S)
               /\ S = IF TextAt(h) = <<>> /\ ~IsHeap(handle[h])
                      THEN FromStaticStr("LeanString", s, handle[h], heap)
                      ELSE PushStr(handle[h], heap, s)
  BY <1>1 DEF DoWriteFmt
<1>6. ASSUME NEW o \in S PROVE Edits(o, handle[h], heap, t)
  <2>1. CASE TextAt(h) = <<>> /\ ~IsHeap(handle[h])
    <3>1. t = s
      BY <1>3, <1>4, <2>1
    <3>2. Makes(o, handle[h], heap, "LeanString", s)
      BY <1>2, <1>3, <1>5, <2>1, GoodString, FromStaticStrIs DEF Types
    <3>3. Gets(o, Nothing, heap, "LeanString", s) => Gets(o, handle[h], heap, "LeanString", s)
      BY <2>1, TextExchanged DEF Gets
    <3> QED
      BY <1>2, <3>1, <3>2, <3>3, GoodString DEF Makes, Edits
  <2>2. CASE ~(TextAt(h) = <<>> /\ ~IsHeap(handle[h]))
    BY <1>2, <1>3, <1>4, <1>5, <2>2, GoodString, PushIs
  <2> QED
    BY <2>1, <2>2
<1>7. Done(call, Api!MaySet(h, t))
  BY <1>2, <1>4, <1>5, <1>6, MutateEdits
<1>8. Api!Allowed(call) = Api!MaySet(h, t)
  BY <1>1, <1>2, <1>4 DEF Api!Allowed
<1> QED
  BY <1>1, <1>7, <1>8

\* insert and insert_str.
LEMMA InsertStep ==
    ASSUME Good, NEW h \in Handles, NEW i \in Indexes, NEW s \in Args, DoInsert(h, i, s)
    PROVE  Done(<<"insert", h, i, s>>, Api!Allowed(<<"insert", h, i, s>>))
<1>1. PICK call : call = <<"insert", h, i, s>>
  OBVIOUS
<1>2. h \in Strings /\ h \in Live /\ call[2] = h
  BY <1>1 DEF DoInsert, Strings
<1>3. s \in Seq(Bytes) /\ IsUtf8(s) /\ i \in Nat
  BY ArgsAssumption
<1>4. PICK t : t = TextAt(h)
  OBVIOUS
<1>5. PICK S : /\ Mutate(h, call, S)
               /\ S \subseteq InsertStr(handle[h], heap, i, s) \cup InsertChar(handle[h], heap, i, s)
  BY <1>1 DEF DoInsert
<1>6. Api!Allowed(call) = IF IsCharBoundary(t, i) THEN Api!MaySet(h, Splice(t, i, i, s)) ELSE Api!Panics
  <2>1. Api!Allowed(call) = Api!Insert(h, i, s)
    BY <1>1 DEF Api!Allowed
  <2>2. Api!IsCharBoundary(t, i) <=> IsCharBoundary(t, i)
    BY DEF Api!IsCharBoundary, Api!Trailing, IsCharBoundary, Trailing
  <2>3. Api!Spliced(t, i, i, s) = Splice(t, i, i, s)
    BY DEF Api!Spliced, Splice
  <2> QED
    BY <1>2, <1>4, <2>1, <2>2, <2>3 DEF Api!Insert
<1>7. CASE IsCharBoundary(t, i)
  <2>1. PICK u : u = Splice(t, i, i, s) /\ IsUtf8(u)
    BY <1>2, <1>3, <1>4, <1>7, GoodString, SpliceUtf8
  <2>2. \A o \in S : Edits(o, handle[h], heap, u)
    BY <1>2, <1>3, <1>4, <1>5, <1>7, <2>1, GoodString, InsertIs
  <2>3. Done(call, Api!MaySet(h, u))
    BY <1>2, <1>5, <2>1, <2>2, MutateEdits
  <2> QED
    BY <1>1, <1>6, <1>7, <2>1, <2>3
<1>8. CASE ~IsCharBoundary(t, i)
  <2>1. \A o \in S : Panics(o, handle[h], heap)
    BY <1>2, <1>3, <1>4, <1>5, <1>8, GoodString, InsertIs
  <2>2. Done(call, Api!Panics)
    BY <1>2, <1>5, <2>1, MutatePanics
  <2> QED
    BY <1>1, <1>6, <1>8, <2>2
<1> QED
  BY <1>7, <1>8

\* StringApi speaks of the same characters and cases.
LEMMA ApiWords ==
    /\ \A t, i : Api!IsCharBoundary(t, i) <=> IsCharBoundary(t, i)
    /\ \A t, i : Api!CharAt(t, i) = CharAt(t, i)
    /\ \A t : Api!Starts(t) = Starts(t)
    /\ \A t, i, j, s : Api!Spliced(t, i, j, s) = Splice(t, i, j, s)
    /\ \A t, case : Api!AsciiCase(t, case) = AsciiCase(t, case)
<1>1. \A t, i : Api!IsCharBoundary(t, i) <=> IsCharBoundary(t, i)
  BY DEF Api!IsCharBoundary, Api!Trailing, IsCharBoundary, Trailing
<1>2. \A t, i : Api!CharAt(t, i) = CharAt(t, i)
  BY DEF Api!CharAt, CharAt
<1>3. \A t : Api!Starts(t) = Starts(t)
  BY DEF Api!Starts, Starts, Api!Trailing, Trailing
<1>4. \A t, i, j, s : Api!Spliced(t, i, j, s) = Splice(t, i, j, s)
  BY DEF Api!Spliced, Splice
<1>5. \A t, case : Api!AsciiCase(t, case) = AsciiCase(t, case)
  BY DEF Api!AsciiCase, AsciiCase, Api!AsciiByte, AsciiByte
<1> QED
  BY <1>1, <1>2, <1>3, <1>4, <1>5

\* StringApi maps a text to a case as Repr does.
LEMMA ApiCase ==
    \A t, case : Api!StrCase(t, case) = StrCase(t, case)
<1>1. \A t : Api!CharsOf(t) = CharsOf(t)
  BY ApiWords DEF Api!CharsOf, CharsOf
<1>2. \A ch, case : Api!CharCase(ch, case) = CharCase(ch, case)
  BY ApiWords DEF Api!CharCase, CharCase, Api!Sigma, Api!SmallSigma, Api!FinalSigma, Sigma, SmallSigma, FinalSigma
<1>3. \A ss : Api!FlattenSeq(ss) = FlattenSeq(ss)
  BY DEF Api!FlattenSeq, FlattenSeq
<1> QED
  BY <1>1, <1>2, <1>3 DEF Api!StrCase, StrCase, Api!Sigma, Api!FinalSigma, Sigma, FinalSigma

\* remove.
LEMMA RemoveStep ==
    ASSUME Good, NEW h \in Handles, NEW i \in Indexes, DoRemove(h, i)
    PROVE  Done(<<"remove", h, i>>, Api!Allowed(<<"remove", h, i>>))
<1>1. PICK call : call = <<"remove", h, i>>
  OBVIOUS
<1>2. h \in Strings /\ h \in Live /\ call[2] = h /\ Mutate(h, call, RemoveChar(handle[h], heap, i))
  BY <1>1 DEF DoRemove, Strings
<1>3. i \in Nat
  BY ArgsAssumption
<1>4. PICK t : t = TextAt(h)
  OBVIOUS
<1>5. PICK ch : ch = CharAt(t, i)
  OBVIOUS
<1>6. PICK u : u = Splice(t, i, i + Len(ch), <<>>)
  OBVIOUS
<1>7. Api!Allowed(call) = IF IsCharBoundary(t, i) /\ i < Len(t)
                          THEN Api!Fails \cup Api!Ends("ok", ch, Put(Texts(handle, heap), h, u))
                          ELSE Api!Panics
  <2>1. Api!Allowed(call) = Api!Remove_(h, i)
    BY <1>1 DEF Api!Allowed
  <2>2. [g \in Live |-> TextAt(g)] = Texts(handle, heap) /\ [g \in Live |-> TextAt(g)][h] = t
    BY <1>2, <1>4 DEF Live, TextAt, Texts
  <2> QED
    BY <1>5, <1>6, <2>1, <2>2, ApiWords, ApiEnds DEF Api!Remove_
<1>8. CASE IsCharBoundary(t, i) /\ i < Len(t)
  <2>1. IsUtf8(u)
    <3>1. i + Len(ch) \in Nat /\ i <= i + Len(ch) /\ IsCharBoundary(t, i + Len(ch))
      <4>1. Len(ch) \in {1, 2} /\ IsCharBoundary(t, i + Len(ch))
        BY <1>2, <1>3, <1>4, <1>5, <1>8, GoodString, CharAtIs
      <4>2. Len(ch) \in Nat
        BY ONLY <4>1
      <4> QED
        BY ONLY <1>3, <4>1, <4>2
    <3> QED
      BY <1>2, <1>3, <1>4, <1>6, <1>8, <3>1, GoodString, EmptyUtf8, SpliceUtf8
  <2>2. \A o \in RemoveChar(handle[h], heap, i) :
           Leads(o, handle[h], heap, "ok", ch, u) \/ Fails(o, handle[h], heap)
    BY <1>2, <1>3, <1>4, <1>5, <1>6, <1>8, GoodString, RemoveCharIs
  <2>3. Done(call, Api!Fails \cup Api!Ends("ok", ch, Put(Texts(handle, heap), h, u)))
    <3>1. "ok" # "err"
      OBVIOUS
    <3> QED
      BY <1>2, <2>1, <2>2, <3>1, MutateGives
  <2> QED
    BY <1>1, <1>7, <1>8, <2>3
<1>9. CASE ~(IsCharBoundary(t, i) /\ i < Len(t))
  <2>1. \A o \in RemoveChar(handle[h], heap, i) : Panics(o, handle[h], heap)
    BY <1>2, <1>3, <1>4, <1>9, GoodString, RemoveCharIs
  <2>2. Done(call, Api!Panics)
    BY <1>2, <2>1, MutatePanics
  <2> QED
    BY <1>1, <1>7, <1>9, <2>2
<1> QED
  BY <1>8, <1>9

\* If the text of h is what it was, so are all handles.
Idle(h) == h \in Live' /\ AsBytes(handle'[h], heap') = TextAt(h) => handle' = handle

\* An untouched store is an idle call, and so is a call that would have changed the text.
LEMMA IdleIs ==
    ASSUME NEW h
    PROVE  /\ UNCHANGED Store => Idle(h)
           /\ \A call, ret, v, u :
                 /\ call[1] # "into" /\ ret # "err" /\ u # TextAt(h)
                 /\ Done(call, Api!Fails \cup Api!Ends(ret, v, Put(Texts(handle, heap), h, u)))
                 => Idle(h)
           /\ \A call, u : call[1] # "into" /\ u # TextAt(h) /\ Done(call, Api!MaySet(h, u)) => Idle(h)
<1>1. UNCHANGED Store => Idle(h)
  BY DEF Store, Idle
<1>2. ASSUME NEW call, NEW ret, NEW v, NEW u, call[1] # "into", ret # "err", u # TextAt(h),
             Done(call, Api!Fails \cup Api!Ends(ret, v, Put(Texts(handle, heap), h, u)))
      PROVE  Idle(h)
  <2>1. PICK e \in {End("err", <<>>, Texts(handle, heap)), End(ret, v, Put(Texts(handle, heap), h, u))} :
           Texts(handle', heap') = e.text /\ io' = [call |-> call, ret |-> e.ret, val |-> e.val]
    BY <1>2, ApiEnds DEF Done
  <2>2. CASE e = End("err", <<>>, Texts(handle, heap))
    <3>1. io'.ret = "err"
      BY <2>1, <2>2 DEF End
    <3> QED
      BY <1>1, <1>2, <3>1 DEF Done
  <2>3. CASE e = End(ret, v, Put(Texts(handle, heap), h, u))
    <3>1. Texts(handle', heap') = Put(Texts(handle, heap), h, u)
      BY <2>1, <2>3 DEF End
    <3>2. Put(Texts(handle, heap), h, u)[h] = u
      BY DEF Put
    <3>3. h \in Live' => Texts(handle', heap')[h] = AsBytes(handle'[h], heap')
      BY DEF Texts, Live
    <3> QED
      BY <1>2, <3>1, <3>2, <3>3 DEF Idle
  <2> QED
    BY <2>1, <2>2, <2>3
<1>3. ASSUME NEW call, NEW u, call[1] # "into", u # TextAt(h), Done(call, Api!MaySet(h, u))
      PROVE  Idle(h)
  <2>1. Api!MaySet(h, u) = Api!Fails \cup Api!Ends("ok", <<>>, Put(Texts(handle, heap), h, u))
    BY ApiEnds
  <2> QED
    BY <1>2, <1>3, <2>1
<1> QED
  BY <1>1, <1>2, <1>3

\* pop.
LEMMA PopStep ==
    ASSUME Good, NEW h \in Handles, DoPop(h)
    PROVE  /\ Done(<<"pop", h>>, Api!Allowed(<<"pop", h>>))
           /\ Idle(h)
<1>1. PICK call : call = <<"pop", h>>
  OBVIOUS
<1>2. h \in Strings /\ h \in Live /\ call[2] = h /\ call[1] # "into" /\ Mutate(h, call, Pop(handle[h], heap))
  BY <1>1 DEF DoPop, Strings
<1>3. PICK t : t = TextAt(h)
  OBVIOUS
<1>4. PICK at : at = Last(Starts(t))
  OBVIOUS
<1>5. Api!Allowed(call) = IF t = <<>> THEN Api!Unchanged
                          ELSE Api!Fails \cup
                              Api!Ends("ok", CharAt(t, at), Put(Texts(handle, heap), h, SubSeq(t, 1, at)))
  <2>1. Api!Allowed(call) = Api!Pop_(h)
    BY <1>1 DEF Api!Allowed
  <2>2. [g \in Live |-> TextAt(g)] = Texts(handle, heap) /\ [g \in Live |-> TextAt(g)][h] = t
    BY <1>2, <1>3 DEF Live, TextAt, Texts
  <2> QED
    BY <1>4, <2>1, <2>2, ApiWords, ApiEnds DEF Api!Pop_, Api!Last, Last
<1>6. CASE t = <<>>
  <2>1. \A o \in Pop(handle[h], heap) :
           Gets(o, handle[h], heap, "LeanString", t) /\ o.r = handle[h] /\ o.m = heap
    BY <1>2, <1>3, <1>6, GoodString, PopIs
  <2>2. Done(call, Api!Unchanged) /\ UNCHANGED Store
    BY <1>2, <2>1, MutateKeeps
  <2> QED
    BY <1>1, <1>5, <1>6, <2>2, IdleIs
<1>7. CASE t # <<>>
  <2>1. PICK u : u = SubSeq(t, 1, at)
    OBVIOUS
  <2>2. PICK ch : ch = CharAt(t, at)
    OBVIOUS
  <2>3. ASSUME NEW o \in Pop(handle[h], heap)
        PROVE  /\ at \in Nat /\ at < Len(t) /\ IsCharBoundary(t, at)
               /\ Leads(o, handle[h], heap, "ok", ch, u) \/ Fails(o, handle[h], heap)
    BY <1>2, <1>3, <1>4, <1>7, <2>1, <2>2, GoodString, PopIs
  <2>4. IsUtf8(u)
    <3>1. \E o : o \in Pop(handle[h], heap)
      BY <1>2 DEF Mutate
    <3>2. at \in Nat /\ 0 <= at /\ IsCharBoundary(t, at)
      BY <2>3, <3>1
    <3>3. t \in Seq(Bytes) /\ IsUtf8(t) /\ IsCharBoundary(t, 0)
      BY <1>2, <1>3, GoodString, EndsAreBoundaries
    <3>4. IsUtf8(SubSeq(t, 0 + 1, at))
      BY <3>2, <3>3, PartUtf8
    <3> QED
      BY <2>1, <3>4
  <2>5. Done(call, Api!Fails \cup Api!Ends("ok", ch, Put(Texts(handle, heap), h, u)))
    <3>1. "ok" # "err"
      OBVIOUS
    <3>2. \A o \in Pop(handle[h], heap) : Leads(o, handle[h], heap, "ok", ch, u) \/ Fails(o, handle[h], heap)
      BY <2>3
    <3> QED
      BY <1>2, <2>4, <3>1, <3>2, MutateGives
  <2>6. u # t
    <3>1. \E o : o \in Pop(handle[h], heap)
      BY <1>2 DEF Mutate
    <3>2. at \in Nat /\ at < Len(t) /\ t \in Seq(Bytes)
      BY <1>2, <1>3, <2>3, <3>1, GoodString
    <3>3. Len(u) = at
      BY <2>1, <3>2, PrefixIs
    <3> QED
      BY <3>2, <3>3
  <2>7. Idle(h)
    <3>1. "ok" # "err"
      OBVIOUS
    <3> QED
      BY <1>2, <1>3, <2>5, <2>6, <3>1, IdleIs
  <2> QED
    BY <1>1, <1>5, <1>7, <2>1, <2>2, <2>5, <2>7
<1> QED
  BY <1>6, <1>7

\* truncate.
LEMMA TruncateStep ==
    ASSUME Good, NEW h \in Handles, NEW n \in Indexes, DoTruncate(h, n)
    PROVE  /\ Done(<<"truncate", h, n>>, Api!Allowed(<<"truncate", h, n>>))
           /\ Idle(h)
<1>1. PICK call : call = <<"truncate", h, n>>
  OBVIOUS
<1>2. h \in Strings /\ h \in Live /\ call[2] = h /\ call[1] # "into" /\ Mutate(h, call, Truncate(handle[h], heap, n))
  BY <1>1 DEF DoTruncate, Strings
<1>3. n \in Nat
  BY ArgsAssumption
<1>4. PICK t : t = TextAt(h) /\ Len(t) = LenOf(handle[h], heap) /\ Len(t) \in Nat
  BY <1>2, GoodString
<1>5. PICK u : u = SubSeq(t, 1, n)
  OBVIOUS
<1>6. Api!Allowed(call) = IF n >= Len(t) THEN Api!Unchanged
                          ELSE IF IsCharBoundary(t, n) THEN Api!MaySet(h, u) ELSE Api!Panics
  <2>1. Api!Allowed(call) = Api!Truncate_(h, n)
    BY <1>1 DEF Api!Allowed
  <2> QED
    BY <1>2, <1>4, <1>5, <2>1, ApiWords DEF Api!Truncate_
<1>7. CASE n >= Len(t)
  <2>1. \A o \in Truncate(handle[h], heap, n) :
           Gets(o, handle[h], heap, "LeanString", t) /\ o.r = handle[h] /\ o.m = heap
    BY <1>2, <1>3, <1>4, <1>7, GoodString, TruncateIs
  <2>2. Done(call, Api!Unchanged) /\ UNCHANGED Store
    BY <1>2, <2>1, MutateKeeps
  <2> QED
    BY <1>1, <1>6, <1>7, <2>2, IdleIs
<1>8. CASE ~(n >= Len(t)) /\ IsCharBoundary(t, n)
  <2>1. IsUtf8(u)
    <3>1. t \in Seq(Bytes) /\ IsUtf8(t) /\ IsCharBoundary(t, 0)
      BY <1>2, <1>4, GoodString, EndsAreBoundaries
    <3>2. IsUtf8(SubSeq(t, 0 + 1, n))
      BY <1>3, <1>8, <3>1, PartUtf8
    <3> QED
      BY <1>5, <3>2
  <2>2. \A o \in Truncate(handle[h], heap, n) : Edits(o, handle[h], heap, u)
    BY <1>2, <1>3, <1>4, <1>5, <1>8, GoodString, TruncateIs
  <2>3. Done(call, Api!MaySet(h, u))
    BY <1>2, <2>1, <2>2, MutateEdits
  <2>4. u # t
    <3>1. t \in Seq(Bytes) /\ n <= Len(t) /\ n # Len(t)
      BY <1>2, <1>3, <1>4, <1>8, GoodString
    <3>2. Len(u) = n
      BY <1>3, <1>5, <3>1, PrefixIs
    <3> QED
      BY <3>1, <3>2
  <2> QED
    BY <1>1, <1>2, <1>4, <1>6, <1>8, <2>3, <2>4, IdleIs
<1>9. CASE ~(n >= Len(t)) /\ ~IsCharBoundary(t, n)
  <2>1. \A o \in Truncate(handle[h], heap, n) : Panics(o, handle[h], heap)
    BY <1>2, <1>3, <1>4, <1>9, GoodString, TruncateIs
  <2>2. Done(call, Api!Panics) /\ UNCHANGED Store
    BY <1>2, <2>1, MutatePanics
  <2> QED
    BY <1>1, <1>4, <1>6, <1>9, <2>2, IdleIs
<1> QED
  BY <1>7, <1>8, <1>9

\* clear.
LEMMA ClearStep ==
    ASSUME Good, NEW h \in Handles, DoClear(h)
    PROVE  Done(<<"clear", h>>, Api!Allowed(<<"clear", h>>))
<1>1. PICK call : call = <<"clear", h>>
  OBVIOUS
<1>2. h \in Strings /\ h \in Live /\ call[2] = h /\ Mutate(h, call, Clear(handle[h], heap))
  BY <1>1 DEF DoClear, Strings
<1>3. PICK e : e = <<>>
  OBVIOUS
<1>4. \A o \in Clear(handle[h], heap) : Gets(o, handle[h], heap, handle[h].ty, e)
  BY <1>2, <1>3, GoodString, ClearIs
<1>5. Done(call, Api!Sets(h, e))
  BY <1>2, <1>3, <1>4, EmptyUtf8, MutateSets
<1>6. Api!Allowed(call) = Api!Sets(h, e)
  BY <1>1, <1>3 DEF Api!Allowed
<1> QED
  BY <1>1, <1>5, <1>6

\* The characters that retain keeps, in StringApi.
LEMMA ApiFiltered ==
    ASSUME NEW t \in Seq(Bytes), IsUtf8(t), NEW keep, NEW n \in 0..Len(Starts(t))
    PROVE  Api!Filtered(t, keep, n) = KeptOf(t, keep, n)
<1> DEFINE F == [k \in 1..n |-> IF k \in keep
                                THEN Api!CharAt(t, Api!Starts(t)[k]) ELSE <<>>]
           G == [k \in 1..n |-> PieceOf(t, keep, k)]
<1>1. ASSUME NEW k \in 1..n PROVE F[k] = G[k]
  BY ApiWords DEF PieceOf
<1>2. F = G
  BY <1>1
<1>3. Api!Filtered(t, keep, n) = Api!FlattenSeq(F)
  <2> DEFINE chars == [k \in 1..n |-> Api!CharAt(t, Api!Starts(t)[k])]
  <2>1. [k \in 1..n |-> IF k \in keep THEN chars[k] ELSE <<>>] = F
    OBVIOUS
  <2> QED
    BY <2>1 DEF Api!Filtered
<1>4. Api!FlattenSeq(G) = FlattenSeq(G)
  BY DEF Api!FlattenSeq, FlattenSeq
<1> QED
  BY <1>2, <1>3, <1>4 DEF KeptOf

\* How StringApi says retain ends.
LEMMA ApiRetained ==
    ASSUME Good, NEW h \in Strings, NEW p, p.boom \in Nat, NEW t, t = TextAt(h)
    PROVE  Api!Retained(h, p) =
             IF p.boom \notin 1..Len(Starts(t))
             THEN IF LeftOf(t, p) = t THEN Api!Unchanged ELSE Api!MaySet(h, LeftOf(t, p))
             ELSE IF LeftOf(t, p) \o TailAt(t, p.boom) = t THEN Api!Panics
             ELSE Api!Fails \cup Api!Ends("panic", <<>>, Put(Texts(handle, heap), h, LeftOf(t, p)))
<1>1. h \in Live /\ t \in Seq(Bytes) /\ IsUtf8(t)
  BY GoodString
<1>2. [g \in Live |-> TextAt(g)] = Texts(handle, heap) /\ [g \in Live |-> TextAt(g)][h] = t
  BY <1>1 DEF Live, TextAt, Texts
<1>3. PICK c \in Nat : c = Len(Starts(t))
  BY <1>1, UptoIs
<1>4. PICK keep : keep = p.keep
  OBVIOUS
<1>5. PICK boom \in Nat : boom = p.boom
  OBVIOUS
<1>6. CASE boom \notin 1..c
  <2>1. LeftOf(t, p) = KeptOf(t, keep, c)
    BY <1>3, <1>4, <1>5, <1>6 DEF LeftOf, Passed
  <2>2. Api!Filtered(t, keep, c) = KeptOf(t, keep, c)
    BY <1>1, <1>3, ApiFiltered
  <2> QED
    BY <1>2, <1>3, <1>4, <1>5, <1>6, <2>1, <2>2, ApiWords DEF Api!Retained
<1>7. CASE boom \in 1..c
  <2>1. LeftOf(t, p) = KeptOf(t, keep, boom - 1)
    BY <1>3, <1>4, <1>5, <1>7 DEF LeftOf, Passed
  <2>2. Api!Filtered(t, keep, boom - 1) = KeptOf(t, keep, boom - 1)
    BY <1>1, <1>3, <1>7, ApiFiltered
  <2>3. TailAt(t, boom) = SubSeq(t, Api!Starts(t)[boom] + 1, Len(t))
    BY ApiWords DEF TailAt
  <2> QED
    BY <1>2, <1>3, <1>4, <1>5, <1>7, <2>1, <2>2, <2>3, ApiWords, ApiEnds DEF Api!Retained
<1> QED
  BY <1>6, <1>7

\* A retain that panics leaves a shorter text.
LEMMA LeftShorter ==
    ASSUME NEW t \in Seq(Bytes), IsUtf8(t), NEW p, p.boom \in 1..Len(Starts(t))
    PROVE  LeftOf(t, p) # t
<1>1. PICK c \in Nat : c = Len(Starts(t)) /\ Upto(t, c) = Len(t)
  BY UptoIs
<1>2. PICK k \in Nat : k = p.boom - 1 /\ k < c
  BY <1>1
<1>3. LeftOf(t, p) = KeptOf(t, p.keep, k)
  BY <1>1, <1>2 DEF LeftOf, Passed
<1>4. Upto(t, k) < Upto(t, c) /\ Upto(t, k) \in Nat /\ Upto(t, c) \in Nat
  BY <1>1, <1>2, UptoOrder, UptoIs
<1>5. Len(KeptOf(t, p.keep, k)) <= Upto(t, k) /\ KeptOf(t, p.keep, k) \in Seq(Bytes)
  <2>1. t \in Seq(Bytes) /\ IsUtf8(t) /\ k \in 0..Len(Starts(t))
    BY <1>1, <1>2
  <2> QED
    BY ONLY <2>1, KeptAll, KeptStep
<1>6. Len(KeptOf(t, p.keep, k)) \in Nat
  BY ONLY <1>5
<1> QED
  BY <1>1, <1>3, <1>4, <1>5, <1>6

\* retain.
LEMMA RetainActs ==
    ASSUME Good, NEW h \in Handles, NEW p \in Predicates, DoRetain(h, p)
    PROVE  Done(<<"retain", h, p>>, Api!Allowed(<<"retain", h, p>>)) /\ Idle(h)
<1>1. PICK call : call = <<"retain", h, p>>
  OBVIOUS
<1>2. /\ h \in Strings /\ h \in Live /\ call[2] = h /\ call[1] # "into"
      /\ Mutate(h, call, Retain(handle[h], heap, p))
  BY <1>1 DEF DoRetain, Strings
<1>3. p.boom \in Nat
  BY ArgsAssumption
<1>4. PICK t : t = TextAt(h) /\ t = AsBytes(handle[h], heap) /\ t \in Seq(Bytes) /\ IsUtf8(t)
  BY <1>2, GoodString
<1>5. PICK u : u = LeftOf(t, p)
  OBVIOUS
<1>6. Api!Allowed(call) =
        IF p.boom \notin 1..Len(Starts(t))
        THEN IF u = t THEN Api!Unchanged ELSE Api!MaySet(h, u)
        ELSE IF u \o TailAt(t, p.boom) = t THEN Api!Panics
        ELSE Api!Fails \cup Api!Ends("panic", <<>>, Put(Texts(handle, heap), h, u))
  <2>1. Api!Allowed(call) = Api!Retained(h, p)
    BY <1>1 DEF Api!Allowed
  <2>2. Good /\ h \in Strings /\ p.boom \in Nat /\ t = TextAt(h)
    BY <1>2, <1>3, <1>4
  <2>3. Api!Retained(h, p) =
          IF p.boom \notin 1..Len(Starts(t))
          THEN IF LeftOf(t, p) = t THEN Api!Unchanged ELSE Api!MaySet(h, LeftOf(t, p))
          ELSE IF LeftOf(t, p) \o TailAt(t, p.boom) = t THEN Api!Panics
          ELSE Api!Fails \cup Api!Ends("panic", <<>>, Put(Texts(handle, heap), h, LeftOf(t, p)))
    BY ONLY <2>2, ApiRetained
  <2> QED
    BY <1>5, <2>1, <2>3
<1>7. IsHeapOf(heap) /\ Valid(handle[h], heap) /\ handle[h].ty = "LeanString" /\ IsUtf8(AsBytes(handle[h], heap))
  BY <1>2, GoodString
<1>8. ASSUME NEW o \in Retain(handle[h], heap, p)
      PROVE  /\ IsUtf8(u)
             /\ p.boom \notin 1..Len(Starts(t)) /\ u = t =>
                   Gets(o, handle[h], heap, "LeanString", t) /\ o.r = handle[h] /\ o.m = heap
             /\ p.boom \notin 1..Len(Starts(t)) /\ u # t =>
                   Leads(o, handle[h], heap, "ok", <<>>, u) \/ Fails(o, handle[h], heap)
             /\ p.boom \in 1..Len(Starts(t)) /\ u \o TailAt(t, p.boom) = t => Panics(o, handle[h], heap)
             /\ p.boom \in 1..Len(Starts(t)) /\ u \o TailAt(t, p.boom) # t =>
                   Leads(o, handle[h], heap, "panic", <<>>, u) \/ Fails(o, handle[h], heap)
  <2>1. PICK r : r = handle[h]
    OBVIOUS
  <2>2. /\ IsHeapOf(heap) /\ Valid(r, heap) /\ r.ty = "LeanString" /\ IsUtf8(AsBytes(r, heap))
        /\ p.boom \in Nat /\ o \in Retain(r, heap, p)
    BY <1>3, <1>7, <1>8, <2>1
  <2>3. LET x == AsBytes(r, heap)
            c == Len(Starts(x))
            w == LeftOf(x, p)
        IN  /\ w \in Seq(Bytes) /\ IsUtf8(w)
            /\ p.boom \notin 1..c /\ w = x => Gets(o, r, heap, r.ty, x) /\ o.r = r /\ o.m = heap
            /\ p.boom \notin 1..c /\ w # x => Leads(o, r, heap, "ok", <<>>, w) \/ Fails(o, r, heap)
            /\ p.boom \in 1..c /\ w \o TailAt(x, p.boom) = x => Panics(o, r, heap)
            /\ p.boom \in 1..c /\ w \o TailAt(x, p.boom) # x =>
                  Leads(o, r, heap, "panic", <<>>, w) \/ Fails(o, r, heap)
    BY ONLY <2>2, RetainIs
  <2> QED
    BY <1>4, <1>5, <2>1, <2>2, <2>3
<1>9. IsUtf8(u)
  <2>1. \E o : o \in Retain(handle[h], heap, p)
    BY <1>2 DEF Mutate
  <2> QED
    BY <1>8, <2>1
<1>10. CASE p.boom \notin 1..Len(Starts(t)) /\ u = t
  <2>1. Done(call, Api!Unchanged) /\ UNCHANGED Store
    BY <1>2, <1>8, <1>10, MutateKeeps
  <2> QED
    BY <1>1, <1>6, <1>10, <2>1, IdleIs
<1>11. CASE p.boom \notin 1..Len(Starts(t)) /\ u # t
  <2>1. "ok" # "err"
    OBVIOUS
  <2>2. Done(call, Api!Fails \cup Api!Ends("ok", <<>>, Put(Texts(handle, heap), h, u)))
    BY <1>2, <1>8, <1>9, <1>11, <2>1, MutateGives
  <2>3. Api!MaySet(h, u) = Api!Fails \cup Api!Ends("ok", <<>>, Put(Texts(handle, heap), h, u))
    BY ApiEnds
  <2> QED
    BY <1>1, <1>2, <1>4, <1>6, <1>11, <2>2, <2>3, IdleIs
<1>12. CASE p.boom \in 1..Len(Starts(t)) /\ u \o TailAt(t, p.boom) = t
  <2>1. Done(call, Api!Panics) /\ UNCHANGED Store
    BY <1>2, <1>8, <1>12, MutatePanics
  <2> QED
    BY <1>1, <1>6, <1>12, <2>1, IdleIs
<1>13. CASE p.boom \in 1..Len(Starts(t)) /\ u \o TailAt(t, p.boom) # t
  <2>1. "panic" # "err"
    OBVIOUS
  <2>2. Done(call, Api!Fails \cup Api!Ends("panic", <<>>, Put(Texts(handle, heap), h, u)))
    BY <1>2, <1>8, <1>9, <1>13, <2>1, MutateGives
  <2>3. u # t
    BY <1>4, <1>5, <1>13, LeftShorter
  <2> QED
    BY <1>1, <1>2, <1>4, <1>6, <1>13, <2>1, <2>2, <2>3, IdleIs
<1> QED
  BY <1>10, <1>11, <1>12, <1>13

\* make_ascii_lowercase and make_ascii_uppercase.
LEMMA AsciiCaseStep ==
    ASSUME Good, NEW h \in Handles, NEW case \in Cases, DoMakeAsciiCase(h, case)
    PROVE  Done(<<"make_ascii_case", h, case>>, Api!Allowed(<<"make_ascii_case", h, case>>)) /\ Idle(h)
<1>1. PICK call : call = <<"make_ascii_case", h, case>>
  OBVIOUS
<1>2. /\ h \in Strings /\ h \in Live /\ call[2] = h /\ call[1] # "into"
      /\ Mutate(h, call, MakeAsciiCase(handle[h], heap, case))
  BY <1>1 DEF DoMakeAsciiCase, Strings
<1>3. PICK t : t = TextAt(h) /\ t = AsBytes(handle[h], heap) /\ t \in Seq(Bytes) /\ IsUtf8(t)
  BY <1>2, GoodString
<1>4. PICK u : u = AsciiCase(t, case) /\ IsUtf8(u)
  BY <1>3, AsciiCaseUtf8
<1>5. IsHeapOf(heap) /\ Valid(handle[h], heap) /\ handle[h].ty = "LeanString" /\ IsUtf8(AsBytes(handle[h], heap))
  BY <1>2, GoodString
<1>6. \A o \in MakeAsciiCase(handle[h], heap, case) :
         Edits(o, handle[h], heap, u) /\ (u = t => o.r = handle[h])
  BY <1>3, <1>4, <1>5, MakeAsciiCaseIs
<1>7. Done(call, Api!MaySet(h, u))
  BY <1>2, <1>4, <1>6, MutateEdits
<1>8. Api!Allowed(call) = Api!MaySet(h, u)
  BY <1>1, <1>2, <1>3, <1>4, ApiWords DEF Api!Allowed
<1>9. CASE u # t
  BY <1>1, <1>2, <1>3, <1>7, <1>8, <1>9, IdleIs
<1>10. CASE u = t
  <2>1. PICK o \in MakeAsciiCase(handle[h], heap, case) : Return(call, o, [handle EXCEPT ![h] = o.r])
    BY <1>2 DEF Mutate
  <2>2. o.r = handle[h] /\ handle = [g \in Live |-> handle[g]]
    BY <1>6, <1>10 DEF Good, Sound, Live
  <2>3. handle' = handle
    BY <2>1, <2>2 DEF Return
  <2> QED
    BY <1>1, <1>7, <1>8, <2>3 DEF Idle
<1> QED
  BY <1>9, <1>10

\* slice_range reads a bound as RangeBounds does, or both lie behind the text.
LEMMA BoundsAgree ==
    ASSUME NEW t \in Seq(Bytes), Len(t) < UsizeMax, NEW b, IsBound(b)
    PROVE  /\ Api!First(b) \in Nat /\ Api!End(t, b) \in Nat /\ StartOf(b) \in Nat /\ EndOf(t, b) \in Nat
           /\ StartOf(b) = Api!First(b) \/ (StartOf(b) > Len(t) /\ Api!First(b) > Len(t))
           /\ EndOf(t, b) = Api!End(t, b) \/ (EndOf(t, b) > Len(t) /\ Api!End(t, b) > Len(t))
<1>1. Len(t) \in Nat /\ UsizeMax \in Nat
  BY Numbers
<1>2. CASE b[1] = "unbounded"
  BY <1>1, <1>2 DEF Api!First, Api!End, StartOf, EndOf
<1>3. CASE b[1] \in {"included", "excluded"} /\ b[2] \in 0..UsizeMax
  <2>1. PICK n \in Nat : n = b[2] /\ n <= UsizeMax
    BY <1>1, <1>3
  <2>2. PICK s \in Nat : s = Saturate(n + 1) /\ (s = n + 1 \/ (s = UsizeMax /\ n + 1 > UsizeMax))
    BY <1>1, <2>1, SaturateIs
  <2>3. CASE b[1] = "included"
    <3>1. StartOf(b) = n /\ EndOf(t, b) = s /\ Api!First(b) = n + 0 /\ Api!End(t, b) = n + 1
      BY <2>1, <2>2, <2>3 DEF Api!First, Api!End, StartOf, EndOf
    <3> QED
      BY <1>1, <2>1, <2>2, <3>1
  <2>4. CASE b[1] = "excluded"
    <3>1. StartOf(b) = s /\ EndOf(t, b) = n /\ Api!First(b) = n + 1 /\ Api!End(t, b) = n + 0
      BY <2>1, <2>2, <2>4 DEF Api!First, Api!End, StartOf, EndOf
    <3> QED
      BY <1>1, <2>1, <2>2, <3>1
  <2> QED
    BY <1>3, <2>3, <2>4
<1> QED
  BY <1>2, <1>3 DEF IsBound

\* The two accept the same ranges.
LEMMA RangesAgree ==
    ASSUME NEW t \in Seq(Bytes), Len(t) < UsizeMax, NEW lo, IsBound(lo), NEW hi, IsBound(hi)
    PROVE  /\ Api!InRange(t, Api!First(lo), Api!End(t, hi)) <=> IsSliceRange(t, StartOf(lo), EndOf(t, hi))
           /\ IsSliceRange(t, StartOf(lo), EndOf(t, hi)) =>
                 Api!First(lo) = StartOf(lo) /\ Api!End(t, hi) = EndOf(t, hi)
<1>1. PICK a \in Nat, i \in Nat : a = Api!First(lo) /\ i = StartOf(lo) /\ (i = a \/ (i > Len(t) /\ a > Len(t)))
  BY BoundsAgree
<1>2. PICK b \in Nat, j \in Nat : b = Api!End(t, hi) /\ j = EndOf(t, hi) /\ (j = b \/ (j > Len(t) /\ b > Len(t)))
  BY BoundsAgree
<1>3. Len(t) \in Nat
  OBVIOUS
<1>4. \A n \in Nat : n > Len(t) => ~IsCharBoundary(t, n)
  BY <1>3 DEF IsCharBoundary
<1>5. Api!InRange(t, a, b) <=> IsSliceRange(t, a, b)
  BY ApiWords DEF Api!InRange, IsSliceRange
<1>6. IsSliceRange(t, a, b) => IsCharBoundary(t, a) /\ IsCharBoundary(t, b)
  BY DEF IsSliceRange
<1>7. IsSliceRange(t, i, j) => IsCharBoundary(t, i) /\ IsCharBoundary(t, j)
  BY DEF IsSliceRange
<1> QED
  BY <1>1, <1>2, <1>4, <1>5, <1>6, <1>7

\* replace_range.
LEMMA ReplaceRangeStep ==
    ASSUME Good, NEW h \in Handles, NEW lo \in Los, NEW hi \in His, NEW s \in Args,
           DoReplaceRange(h, lo, hi, s)
    PROVE  Done(<<"replace_range", h, lo, hi, s>>, Api!Allowed(<<"replace_range", h, lo, hi, s>>))
<1>1. PICK call : call = <<"replace_range", h, lo, hi, s>>
  OBVIOUS
<1>2. h \in Strings /\ h \in Live /\ call[2] = h /\ Mutate(h, call, ReplaceRange(handle[h], heap, lo, hi, s))
  BY <1>1 DEF DoReplaceRange, Strings
<1>3. s \in Seq(Bytes) /\ IsUtf8(s) /\ IsBound(lo) /\ IsBound(hi)
  BY ArgsAssumption DEF IsBound
<1>4. PICK t : t = TextAt(h) /\ t = AsBytes(handle[h], heap) /\ t \in Seq(Bytes) /\ IsUtf8(t) /\ Len(t) < UsizeMax
  BY <1>2, GoodString
<1>5. PICK i \in Nat, j \in Nat : i = StartOf(lo) /\ j = EndOf(t, hi)
  BY <1>3, <1>4, BoundsAgree
<1>6. PICK u : u = Splice(t, i, j, s)
  OBVIOUS
<1>7. Api!Allowed(call) = IF IsSliceRange(t, i, j) THEN Api!MaySet(h, u) ELSE Api!Panics
  <2>1. Api!Allowed(call) = Api!ReplaceRange_(h, lo, hi, s)
    BY <1>1 DEF Api!Allowed
  <2>2. [g \in Live |-> TextAt(g)][h] = t
    BY <1>2, <1>4
  <2>3. /\ Api!InRange(t, Api!First(lo), Api!End(t, hi)) <=> IsSliceRange(t, i, j)
        /\ IsSliceRange(t, i, j) => Api!First(lo) = i /\ Api!End(t, hi) = j
    BY <1>3, <1>4, <1>5, RangesAgree
  <2> QED
    BY <1>6, <2>1, <2>2, <2>3, ApiWords DEF Api!ReplaceRange_
<1>8. IsHeapOf(heap) /\ Valid(handle[h], heap) /\ handle[h].ty = "LeanString"
  BY <1>2, GoodString
<1>9. ASSUME NEW o \in ReplaceRange(handle[h], heap, lo, hi, s)
      PROVE  IF IsSliceRange(t, i, j) THEN Edits(o, handle[h], heap, u) ELSE Panics(o, handle[h], heap)
  BY <1>3, <1>4, <1>5, <1>6, <1>8, <1>9, ReplaceRangeIs
<1>10. CASE IsSliceRange(t, i, j)
  <2>1. IsUtf8(u)
    BY <1>3, <1>4, <1>6, <1>10, SliceRangeIs, SpliceUtf8
  <2>2. Done(call, Api!MaySet(h, u))
    BY <1>2, <1>9, <1>10, <2>1, MutateEdits
  <2> QED
    BY <1>1, <1>7, <1>10, <2>2
<1>11. CASE ~IsSliceRange(t, i, j)
  <2>1. Done(call, Api!Panics)
    BY <1>2, <1>9, <1>11, MutatePanics
  <2> QED
    BY <1>1, <1>7, <1>11, <2>1
<1> QED
  BY <1>10, <1>11

\* extend_from_within.
LEMMA ExtendStep ==
    ASSUME Good, NEW h \in Handles, NEW lo \in Los, NEW hi \in His, DoExtendFromWithin(h, lo, hi)
    PROVE  Done(<<"extend_from_within", h, lo, hi>>, Api!Allowed(<<"extend_from_within", h, lo, hi>>))
<1>1. PICK call : call = <<"extend_from_within", h, lo, hi>>
  OBVIOUS
<1>2. h \in Strings /\ h \in Live /\ call[2] = h /\ Mutate(h, call, ExtendFromWithin(handle[h], heap, lo, hi))
  BY <1>1 DEF DoExtendFromWithin, Strings
<1>3. IsBound(lo) /\ IsBound(hi)
  BY ArgsAssumption DEF IsBound
<1>4. PICK t : t = TextAt(h) /\ t = AsBytes(handle[h], heap) /\ t \in Seq(Bytes) /\ IsUtf8(t) /\ Len(t) < UsizeMax
  BY <1>2, GoodString
<1>5. PICK i \in Nat, j \in Nat : i = StartOf(lo) /\ j = EndOf(t, hi)
  BY <1>3, <1>4, BoundsAgree
<1>6. PICK u : u = t \o SubSeq(t, i + 1, j)
  OBVIOUS
<1>7. Api!Allowed(call) = IF IsSliceRange(t, i, j) THEN Api!MaySet(h, u) ELSE Api!Panics
  <2>1. Api!Allowed(call) = Api!ExtendFromWithin_(h, lo, hi)
    BY <1>1 DEF Api!Allowed
  <2>2. [g \in Live |-> TextAt(g)][h] = t
    BY <1>2, <1>4
  <2>3. /\ Api!InRange(t, Api!First(lo), Api!End(t, hi)) <=> IsSliceRange(t, i, j)
        /\ IsSliceRange(t, i, j) => Api!First(lo) = i /\ Api!End(t, hi) = j
    BY <1>3, <1>4, <1>5, RangesAgree
  <2> QED
    BY <1>6, <2>1, <2>2, <2>3, ApiWords DEF Api!ExtendFromWithin_
<1>8. IsHeapOf(heap) /\ Valid(handle[h], heap) /\ handle[h].ty = "LeanString"
  BY <1>2, GoodString
<1>9. ASSUME NEW o \in ExtendFromWithin(handle[h], heap, lo, hi)
      PROVE  IF IsSliceRange(t, i, j) THEN Edits(o, handle[h], heap, u) ELSE Panics(o, handle[h], heap)
  BY <1>3, <1>4, <1>5, <1>6, <1>8, <1>9, ExtendFromWithinIs
<1>10. CASE IsSliceRange(t, i, j)
  <2>1. IsUtf8(u)
    <3>1. i <= j /\ IsCharBoundary(t, i) /\ IsCharBoundary(t, j)
      BY <1>4, <1>10, SliceRangeIs
    <3>2. PICK w : w = SubSeq(t, i + 1, j) /\ w \in Seq(Bytes) /\ IsUtf8(w)
      BY <1>4, <3>1, PartUtf8
    <3> QED
      BY <1>4, <1>6, <3>2, JoinUtf8
  <2>2. Done(call, Api!MaySet(h, u))
    BY <1>2, <1>9, <1>10, <2>1, MutateEdits
  <2> QED
    BY <1>1, <1>7, <1>10, <2>2
<1>11. CASE ~IsSliceRange(t, i, j)
  <2>1. Done(call, Api!Panics)
    BY <1>2, <1>9, <1>11, MutatePanics
  <2> QED
    BY <1>1, <1>7, <1>11, <2>1
<1> QED
  BY <1>10, <1>11

-----------------------------------------------------------------------------
(* Methods of both types that make a new handle.                           *)

\* If k has been made with the text of h, it is the representation of h.
Shares(h, k) == io'.ret = "ok" /\ AsBytes(handle'[k], heap') = TextAt(h) => handle'[k] = handle[h]

\* A call that makes a handle with text u shares it, if it does whenever u is the text
\* it is made from.
LEMMA MadeShares ==
    ASSUME NEW h, NEW k, NEW call, NEW S, Make(k, call, S), NEW r, NEW ty, NEW u,
           \A o \in S : Makes(o, r, heap, ty, u) /\ (u = TextAt(h) => o.r = handle[h])
    PROVE  Shares(h, k)
<1>1. PICK o \in S : Return(call, o, IF o.ret = "ok" THEN Put(handle, k, o.r) ELSE handle)
  BY DEF Make
<1>2. io'.ret = o.ret /\ heap' = o.m
  BY <1>1 DEF Return
<1>3. CASE o.ret = "ok"
  <2>1. handle' = Put(handle, k, o.r)
    BY <1>1, <1>3 DEF Return
  <2>2. handle'[k] = o.r
    BY <2>1 DEF Put
  <2>3. ~Fails(o, r, heap)
    BY <1>3, FailsFacts
  <2>4. AsBytes(o.r, o.m) = u
    BY <2>3, GetsFacts DEF Makes
  <2> QED
    BY <1>2, <2>2, <2>4 DEF Shares
<1>4. CASE o.ret # "ok"
  BY <1>2, <1>4 DEF Shares
<1> QED
  BY <1>3, <1>4

\* to_ascii_lowercase and to_ascii_uppercase.
LEMMA ToAsciiCaseStep ==
    ASSUME Good, NEW h \in Handles, NEW k \in Handles, NEW case \in Cases, DoToAsciiCase(h, k, case)
    PROVE  /\ Done(<<"to_ascii_case", h, k, case>>, Api!Allowed(<<"to_ascii_case", h, k, case>>))
           /\ Shares(h, k)
<1>1. PICK call : call = <<"to_ascii_case", h, k, case>>
  OBVIOUS
<1>2. h \in Live /\ Make(k, call, ToAsciiCase(handle[h], heap, case))
  BY <1>1 DEF DoToAsciiCase
<1>3. PICK t : t = TextAt(h) /\ t = AsBytes(handle[h], heap) /\ t \in Seq(Bytes) /\ IsUtf8(t)
  BY <1>2, GoodHandle
<1>4. PICK u : u = AsciiCase(t, case) /\ IsUtf8(u)
  BY <1>3, AsciiCaseUtf8
<1>5. \A o \in ToAsciiCase(handle[h], heap, case) :
         Makes(o, handle[h], heap, handle[h].ty, u) /\ (u = t => o.r = handle[h])
  BY <1>2, <1>3, <1>4, GoodHandle, ToAsciiCaseIs
<1>6. Done(call, Api!MaySet(k, u))
  BY <1>2, <1>4, <1>5, MakeMakes
<1>7. Api!Allowed(call) = Api!MaySet(k, u)
  BY <1>1, <1>2, <1>3, <1>4, ApiWords DEF Api!Allowed
<1>8. Shares(h, k)
  <2>1. /\ Make(k, call, ToAsciiCase(handle[h], heap, case))
        /\ \A o \in ToAsciiCase(handle[h], heap, case) :
              Makes(o, handle[h], heap, handle[h].ty, u) /\ (u = TextAt(h) => o.r = handle[h])
    BY <1>2, <1>3, <1>5
  <2> QED
    BY ONLY <2>1, MadeShares
<1> QED
  BY <1>1, <1>6, <1>7, <1>8

\* to_lowercase and to_uppercase.
LEMMA ToCaseStep ==
    ASSUME Good, NEW h \in Handles, NEW k \in Handles, NEW case \in Cases, DoToCase(h, k, case)
    PROVE  /\ Done(<<"to_case", h, k, case>>, Api!Allowed(<<"to_case", h, k, case>>))
           /\ Shares(h, k)
<1>1. PICK call : call = <<"to_case", h, k, case>>
  OBVIOUS
<1>2. h \in Live
  BY DEF DoToCase
<1>3. PICK t : t = TextAt(h) /\ t = AsBytes(handle[h], heap) /\ t \in Seq(Bytes) /\ IsUtf8(t)
  BY <1>2, GoodHandle
<1>4. PICK u : u = StrCase(t, case) /\ IsUtf8(u)
  BY <1>3, MappedCharsAre
<1>5. Api!Allowed(call) = Api!MaySet(k, u)
  BY <1>1, <1>2, <1>3, <1>4, ApiCase DEF Api!Allowed
<1>6. IsHeapOf(heap) /\ Valid(handle[h], heap) /\ IsUtf8(AsBytes(handle[h], heap))
  BY <1>2, GoodHandle
<1>7. CASE SplitAtFirstChange(t, case) = NoChange
  <2>1. Make(k, call, MakeShallowClone(handle[h], heap))
    BY <1>1, <1>3, <1>7 DEF DoToCase
  <2>2. u = t
    BY <1>3, <1>4, <1>7, UnchangedCase
  <2>3. \A o \in MakeShallowClone(handle[h], heap) :
           Makes(o, handle[h], heap, handle[h].ty, u) /\ (u = t => o.r = handle[h])
    BY <1>3, <1>6, <2>2, CloneIs DEF Makes
  <2>4. Done(call, Api!MaySet(k, u))
    BY <1>4, <2>1, <2>3, MakeMakes
  <2>5. Shares(h, k)
    <3>1. \A o \in MakeShallowClone(handle[h], heap) :
             Makes(o, handle[h], heap, handle[h].ty, u) /\ (u = TextAt(h) => o.r = handle[h])
      BY <1>3, <2>3
    <3> QED
      BY ONLY <2>1, <3>1, MadeShares
  <2> QED
    BY <1>1, <1>5, <2>4, <2>5
<1>8. CASE SplitAtFirstChange(t, case) # NoChange
  <2>1. PICK S : /\ Make(k, call, S)
                 /\ S = IF h \in Strings THEN ToCase(handle[h], heap, case)
                        ELSE UNION {IF p.ret = "ok" THEN DropMapped(IntoImmutable(p.r, p.m), handle[h]) ELSE {p} :
                                      p \in ToCase(handle[h], heap, case)}
    BY <1>1, <1>3, <1>8 DEF DoToCase, Then
  <2>2. u # t
    BY <1>3, <1>4, <1>8, ChangedCase
  <2>3. PICK ty : \A o \in S : Makes(o, handle[h], heap, ty, u)
    <3>1. CASE h \in Strings
      <4>1. \A o \in ToCase(handle[h], heap, case) : Makes(o, handle[h], heap, "LeanString", u)
        BY <1>3, <1>4, <1>6, <1>8, ToCaseIs
      <4> QED
        BY <2>1, <3>1, <4>1
    <3>2. CASE h \notin Strings
      <4>1. ASSUME NEW o \in S PROVE Makes(o, handle[h], heap, "LeanStr", u)
        <5>1. o \in UNION {IF p.ret = "ok" THEN DropMapped(IntoImmutable(p.r, p.m), handle[h]) ELSE {p} :
                             p \in ToCase(handle[h], heap, case)}
          BY <2>1, <3>2, <4>1
        <5>2. SplitAtFirstChange(AsBytes(handle[h], heap), case) # NoChange
          BY <1>3, <1>8
        <5>3. Makes(o, handle[h], heap, "LeanStr", StrCase(AsBytes(handle[h], heap), case))
          BY ONLY <1>6, <5>1, <5>2, MappedAndConverted
        <5> QED
          BY <1>3, <1>4, <5>3
      <4> QED
        BY <4>1
    <3> QED
      BY <3>1, <3>2
  <2>4. Done(call, Api!MaySet(k, u))
    BY <1>4, <2>1, <2>3, MakeMakes
  <2>5. Shares(h, k)
    <3>1. \A o \in S : Makes(o, handle[h], heap, ty, u) /\ (u = TextAt(h) => o.r = handle[h])
      BY <1>3, <2>2, <2>3
    <3> QED
      BY ONLY <2>1, <3>1, MadeShares
  <2> QED
    BY <1>1, <1>5, <2>4, <2>5
<1> QED
  BY <1>7, <1>8

\* to_lean_str and to_lean_string.
LEMMA ToOtherStep ==
    ASSUME Good, NEW h \in Handles, NEW k \in Handles, ToOther(h, k)
    PROVE  Done(<<"to_other", h, k>>, Api!Allowed(<<"to_other", h, k>>))
<1>1. PICK call : call = <<"to_other", h, k>>
  OBVIOUS
<1>2. h \in Live
  BY DEF ToOther
<1>3. PICK t : t = TextAt(h) /\ t = AsBytes(handle[h], heap) /\ IsUtf8(t)
  BY <1>2, GoodHandle
<1>4. PICK isString \in BOOLEAN : isString <=> h \in Strings
  OBVIOUS
<1>5. PICK S : /\ Make(k, call, S)
               /\ S = UNION {IF p.ret = "ok"
                             THEN DropMapped(IF h \in Strings THEN IntoImmutable(p.r, p.m)
                                             ELSE IntoMutable(p.r, p.m), p.r)
                             ELSE {p} : p \in MakeShallowClone(handle[h], heap)}
  BY <1>1 DEF ToOther, Then
<1>6. PICK ty : ty = IF isString THEN "LeanStr" ELSE "LeanString"
  OBVIOUS
<1>7. ASSUME NEW o \in S PROVE Makes(o, handle[h], heap, ty, t)
  <2>1. IsHeapOf(heap) /\ Valid(handle[h], heap) /\ (isString <=> handle[h].ty = "LeanString")
    BY <1>2, <1>4, GoodHandle
  <2>2. o \in UNION {IF p.ret = "ok"
                     THEN DropMapped(IF isString THEN IntoImmutable(p.r, p.m)
                                     ELSE IntoMutable(p.r, p.m), p.r)
                     ELSE {p} : p \in MakeShallowClone(handle[h], heap)}
    BY <1>4, <1>5, <1>7
  <2>3. Makes(o, handle[h], heap, IF isString THEN "LeanStr" ELSE "LeanString", AsBytes(handle[h], heap))
    BY ONLY <2>1, <2>2, ClonedAndConverted
  <2> QED
    BY <1>3, <1>6, <2>3
<1>8. Done(call, Api!MaySet(k, t))
  BY <1>3, <1>5, <1>7, MakeMakes
<1>9. Api!Allowed(call) = Api!MaySet(k, t)
  BY <1>1, <1>2, <1>3 DEF Api!Allowed
<1> QED
  BY <1>1, <1>8, <1>9

\* repeat.
LEMMA RepeatStep ==
    ASSUME Good, NEW h \in Handles, NEW k \in Handles, NEW times \in Sizes, DoRepeat(h, k, times)
    PROVE  Done(<<"repeat", h, k, times>>, Api!Allowed(<<"repeat", h, k, times>>))
<1>1. PICK call : call = <<"repeat", h, k, times>>
  OBVIOUS
<1>2. h \in Live /\ Make(k, call, Repeat(handle[h], heap, times)) /\ times \in Nat
  BY <1>1, ArgsAssumption DEF DoRepeat
<1>3. PICK t : t = TextAt(h) /\ t = AsBytes(handle[h], heap) /\ IsUtf8(t)
  BY <1>2, GoodHandle
<1>4. PICK u : u = FlattenSeq([i \in 1..times |-> t])
  OBVIOUS
<1>5. Api!Allowed(call) = IF Len(t) * times > UsizeMax THEN Api!Fails ELSE Api!MaySet(k, u)
  <2>1. Api!Allowed(call) = Api!Repeat_(h, k, times)
    BY <1>1 DEF Api!Allowed
  <2>2. [g \in Live |-> TextAt(g)][h] = t
    BY <1>2, <1>3
  <2>3. \A ss : Api!FlattenSeq(ss) = FlattenSeq(ss)
    BY DEF Api!FlattenSeq, FlattenSeq
  <2>4. [i \in 1..times |-> [g \in Live |-> TextAt(g)][h]] = [i \in 1..times |-> t]
    BY <2>2
  <2>5. Api!Repeat_(h, k, times) =
          IF Len([g \in Live |-> TextAt(g)][h]) * times > UsizeMax THEN Api!Fails
          ELSE Api!MaySet(k, Api!FlattenSeq([i \in 1..times |-> [g \in Live |-> TextAt(g)][h]]))
    BY DEF Api!Repeat_
  <2> QED
    BY ONLY <1>4, <2>1, <2>2, <2>3, <2>4, <2>5
<1>6. IsHeapOf(heap) /\ Valid(handle[h], heap) /\ IsUtf8(AsBytes(handle[h], heap))
  BY <1>2, GoodHandle
<1>7. ASSUME NEW o \in Repeat(handle[h], heap, times)
      PROVE  /\ Len(t) * times > UsizeMax => Fails(o, handle[h], heap)
             /\ ~(Len(t) * times > UsizeMax) => Makes(o, handle[h], heap, handle[h].ty, u) /\ IsUtf8(u)
  <2>1. LET x == AsBytes(handle[h], heap)
            w == FlattenSeq([i \in 1..times |-> x])
        IN  /\ Len(x) * times > UsizeMax => Fails(o, handle[h], heap)
            /\ ~(Len(x) * times > UsizeMax) => Makes(o, handle[h], heap, handle[h].ty, w) /\ IsUtf8(w)
    BY <1>2, <1>6, <1>7, RepeatIs
  <2> QED
    BY <1>3, <1>4, <2>1
<1>8. CASE Len(t) * times > UsizeMax
  <2>1. PICK o \in Repeat(handle[h], heap, times) :
           Return(call, o, IF o.ret = "ok" THEN Put(handle, k, o.r) ELSE handle)
    BY <1>2 DEF Make
  <2>2. o = [ret |-> "err", val |-> <<>>, r |-> handle[h], m |-> heap]
    BY <1>7, <1>8 DEF Fails
  <2>3. o.ret = "err"
    BY <2>2
  <2>4. Return(call, o, handle)
    BY <2>1, <2>3
  <2>5. End("err", <<>>, Texts(handle, heap)) \in Api!Fails
    BY ApiEnds
  <2>6. Done(call, Api!Fails)
    BY <2>2, <2>4, <2>5, NothingChanged
  <2> QED
    BY <1>1, <1>5, <1>8, <2>6
<1>9. CASE ~(Len(t) * times > UsizeMax)
  <2>1. \E o : o \in Repeat(handle[h], heap, times)
    BY <1>2 DEF Make
  <2>2. IsUtf8(u)
    BY <1>7, <1>9, <2>1
  <2>3. Done(call, Api!MaySet(k, u))
    BY <1>2, <1>7, <1>9, <2>2, MakeMakes
  <2> QED
    BY <1>1, <1>5, <1>9, <2>3
<1> QED
  BY <1>8, <1>9

\* split_off: k gets the tail of h, then h is cut.
LEMMA SplitDone ==
    ASSUME Good, NEW h \in Live, NEW k \in Handles \ Live,
           NEW p, NEW ty, NEW tail, Gets(p, Nothing, heap, ty, tail), IsUtf8(tail),
           NEW o, NEW s, NEW u, Gets(o, handle[h], p.m, s, u), IsUtf8(u),
           NEW call, call[2] = h, Return(call, o, Put(Put(handle, k, p.r), h, o.r)),
           NEW E, End("ok", <<>>, Put(Put(Texts(handle, heap), k, tail), h, u)) \in E
    PROVE  Done(call, E)
<1>1. PICK q, n : q = p.r /\ n = p.m /\ Trade(Nothing, heap, q, n) /\ AsBytes(q, n) = tail
  BY GetsFacts
<1>2. PICK x, l : /\ x = o.r /\ l = o.m /\ o.ret = "ok" /\ o.val = <<>>
                  /\ Trade(handle[h], n, x, l) /\ AsBytes(x, l) = u
  BY <1>1, GetsFacts
<1>3. PICK H : H = Put(handle, k, q)
  OBVIOUS
<1>4. /\ DOMAIN H = Live \cup {k} /\ H[k] = q /\ (\A g \in Live : H[g] = handle[g])
      /\ H = [g \in DOMAIN H |-> H[g]]
  BY <1>3 DEF Put, Live
<1>5. OnlyAt(handle, H, k) /\ At(handle, k) = Nothing /\ At(H, k) = q /\ k \in DOMAIN H
  BY <1>4 DEF OnlyAt, At, Live
<1>6. /\ Sound(handle, heap) /\ Trade(At(handle, k), heap, At(H, k), n)
      /\ (k \in DOMAIN H => IsUtf8(AsBytes(H[k], n)))
  BY <1>1, <1>4, <1>5 DEF Good
<1>7. Sound(H, n) /\ Undisturbed(handle, heap, H, n, k)
  BY ONLY <1>5, <1>6, Exchanged
<1>8. AsBytes(H[k], n) = tail
  BY <1>1, <1>4
<1>9. Texts(H, n) = Put(Texts(handle, heap), k, tail)
  BY ONLY <1>5, <1>7, <1>8, NewTexts
<1>10. PICK J : J = Put(H, h, x)
  OBVIOUS
<1>11. h \in DOMAIN H /\ H[h] = handle[h]
  BY <1>4
<1>12. /\ DOMAIN J = DOMAIN H /\ J[h] = x /\ (\A g \in DOMAIN H \ {h} : J[g] = H[g])
       /\ J = [g \in DOMAIN J |-> J[g]]
  BY <1>10, <1>11 DEF Put
<1>13. OnlyAt(H, J, h) /\ At(H, h) = handle[h] /\ At(J, h) = x /\ h \in DOMAIN J
  BY <1>11, <1>12 DEF OnlyAt, At
<1>14. /\ Sound(H, n) /\ Trade(At(H, h), n, At(J, h), l)
       /\ (h \in DOMAIN J => IsUtf8(AsBytes(J[h], l)))
  BY <1>2, <1>7, <1>12, <1>13
<1>15. Sound(J, l) /\ Undisturbed(H, n, J, l, h)
  BY ONLY <1>13, <1>14, Exchanged
<1>16. AsBytes(J[h], l) = u
  BY <1>2, <1>12
<1>17. Texts(J, l) = Put(Texts(H, n), h, u)
  BY ONLY <1>13, <1>15, <1>16, NewTexts
<1>18. handle' = J /\ heap' = l /\ io' = [call |-> call, ret |-> "ok", val |-> <<>>]
  BY <1>1, <1>2, <1>3, <1>10 DEF Return
<1>19. Live' = Live \cup {k}
  BY <1>4, <1>12, <1>18 DEF Live
<1>20. Good'
  BY <1>15, <1>18, <1>19 DEF Good
<1>21. ASSUME NEW g \in Live \cap Live', g # call[2]
       PROVE  handle'[g] = handle[g] /\ Capacity(handle[g], heap') = Capacity(handle[g], heap)
  <2>1. g \in DOMAIN handle \ {k} /\ g \in DOMAIN H \ {h}
    BY <1>4, <1>21 DEF Live
  <2>2. H[g] = handle[g] /\ Capacity(handle[g], n) = Capacity(handle[g], heap)
    BY <1>7, <2>1 DEF Undisturbed
  <2>3. J[g] = H[g] /\ Capacity(H[g], l) = Capacity(H[g], n)
    BY <1>15, <2>1 DEF Undisturbed
  <2> QED
    BY <1>18, <2>2, <2>3
<1>22. \E e \in E : Texts(handle', heap') = e.text /\ io' = [call |-> call, ret |-> e.ret, val |-> e.val]
  <2>1. PICK e \in E : e = End("ok", <<>>, Put(Put(Texts(handle, heap), k, tail), h, u))
    OBVIOUS
  <2>2. e.text = Put(Put(Texts(handle, heap), k, tail), h, u) /\ e.ret = "ok" /\ e.val = <<>>
    BY <2>1 DEF End
  <2> QED
    BY <1>9, <1>17, <1>18, <2>2
<1>23. io'.ret = "ok"
  BY <1>18
<1> QED
  BY <1>20, <1>21, <1>22, <1>23 DEF Done

\* split_off.
LEMMA SplitOffStep ==
    ASSUME Good, NEW h \in Handles, NEW k \in Handles, NEW at \in Indexes, DoSplitOff(h, k, at)
    PROVE  Done(<<"split_off", h, k, at>>, Api!Allowed(<<"split_off", h, k, at>>))
<1>1. PICK call : call = <<"split_off", h, k, at>>
  OBVIOUS
<1>2. h \in Strings /\ h \in Live /\ k \in Handles \ Live /\ call[2] = h /\ at \in Nat
  BY <1>1, ArgsAssumption DEF DoSplitOff, Strings
<1>3. PICK t : /\ t = TextAt(h) /\ t = AsBytes(handle[h], heap) /\ t \in Seq(Bytes) /\ IsUtf8(t)
               /\ Len(t) \in Nat
  BY <1>2, GoodString
<1>4. PICK r : r = handle[h] /\ IsHeapOf(heap) /\ Valid(r, heap) /\ r.ty = "LeanString"
  BY <1>2, GoodString
<1>5. PICK tail, u : tail = SubSeq(t, at + 1, Len(t)) /\ u = SubSeq(t, 1, at)
  OBVIOUS
<1>6. Api!Allowed(call) =
         IF IsCharBoundary(t, at)
         THEN Api!Fails \cup Api!Ends("ok", <<>>, Put(Put(Texts(handle, heap), k, tail), h, u))
         ELSE Api!Panics
  <2>1. Api!Allowed(call) = Api!SplitOff_(h, k, at)
    BY <1>1 DEF Api!Allowed
  <2>2. [g \in Live |-> TextAt(g)] = Texts(handle, heap) /\ [g \in Live |-> TextAt(g)][h] = t
    BY <1>2, <1>3 DEF Live, TextAt, Texts
  <2> QED
    BY <1>5, <2>1, <2>2, ApiWords, ApiEnds DEF Api!SplitOff_
<1>7. CASE ~IsCharBoundary(t, at)
  <2>1. PICK o \in Panic(r, heap) : Return(call, o, handle)
    BY <1>1, <1>3, <1>4, <1>7 DEF DoSplitOff
  <2>2. o = [ret |-> "panic", val |-> <<>>, r |-> r, m |-> heap]
    BY <2>1 DEF Panic, Outcome
  <2>3. End("panic", <<>>, Texts(handle, heap)) \in Api!Panics
    BY ApiEnds
  <2>4. Done(call, Api!Panics)
    BY <2>1, <2>2, <2>3, NothingChanged
  <2> QED
    BY <1>1, <1>6, <1>7, <2>4
<1>8. CASE IsCharBoundary(t, at)
  <2>1. PICK p \in FromStr("LeanString", tail, r, heap) :
           IF p.ret # "ok" THEN Return(call, p, handle)
           ELSE \E o \in Truncate(r, p.m, at) :
                  IF o.ret = "ok" THEN Return(call, o, Put(Put(handle, k, p.r), h, o.r))
                  ELSE \E d \in DropIn(p.r, o.m) : Return(call, [d EXCEPT !.ret = o.ret], handle)
    BY <1>1, <1>3, <1>4, <1>5, <1>8 DEF DoSplitOff
  <2>2. tail \in Seq(Bytes) /\ IsUtf8(tail)
    <3>1. at <= Len(t) /\ IsCharBoundary(t, Len(t))
      BY <1>3, <1>8, EndsAreBoundaries DEF IsCharBoundary
    <3> QED
      BY <1>2, <1>3, <1>5, <1>8, <3>1, PartUtf8
  <2>3. IsUtf8(u)
    <3>1. IsCharBoundary(t, 0) /\ 0 <= at
      BY <1>2, <1>3, EndsAreBoundaries
    <3>2. IsUtf8(SubSeq(t, 0 + 1, at))
      BY <1>2, <1>3, <1>8, <3>1, PartUtf8
    <3> QED
      BY <1>5, <3>2
  <2>4. Makes(p, r, heap, "LeanString", tail)
    <3>1. "LeanString" \in Types
      BY DEF Types
    <3> QED
      BY <1>4, <2>1, <2>2, <3>1, FromStrIs
  <2>5. /\ End("err", <<>>, Texts(handle, heap)) \in Api!Allowed(call)
        /\ End("ok", <<>>, Put(Put(Texts(handle, heap), k, tail), h, u)) \in Api!Allowed(call)
    BY <1>6, <1>8, ApiEnds
  <2>6. CASE Fails(p, r, heap)
    <3>1. p = [ret |-> "err", val |-> <<>>, r |-> r, m |-> heap] /\ p.ret # "ok"
      BY <2>6, FailsFacts DEF Fails
    <3>2. Return(call, p, handle)
      BY <2>1, <3>1
    <3>3. Done(call, Api!Allowed(call))
      BY <2>5, <3>1, <3>2, NothingChanged
    <3> QED
      BY <1>1, <3>3
  <2>7. CASE Gets(p, Nothing, heap, "LeanString", tail)
    <3>1. p.ret = "ok" /\ Trade(Nothing, heap, p.r, p.m) /\ IsHeapOf(p.m)
      BY <2>7, GetsFacts
    <3>2. PICK o \in Truncate(r, p.m, at) :
             IF o.ret = "ok" THEN Return(call, o, Put(Put(handle, k, p.r), h, o.r))
             ELSE \E d \in DropIn(p.r, o.m) : Return(call, [d EXCEPT !.ret = o.ret], handle)
      BY <2>1, <3>1
    <3>3. Valid(r, p.m) /\ AsBytes(r, p.m) = t
      BY <1>3, <1>4, <3>1, ValidAfterMake
    <3>4. LenOf(r, p.m) = Len(t)
      BY <3>1, <3>3, ValidFacts
    <3>5. Gets(o, r, p.m, "LeanString", u) \/ Fails(o, r, p.m)
      <4>1. IF at >= LenOf(r, p.m) THEN Gets(o, r, p.m, "LeanString", AsBytes(r, p.m)) /\ o.r = r /\ o.m = p.m
            ELSE IF IsCharBoundary(AsBytes(r, p.m), at)
            THEN Edits(o, r, p.m, SubSeq(AsBytes(r, p.m), 1, at)) ELSE Panics(o, r, p.m)
        BY <1>2, <1>4, <3>1, <3>2, <3>3, TruncateIs
      <4>2. CASE at >= Len(t)
        <5>1. at = Len(t)
          BY <1>2, <1>3, <1>8, <4>2 DEF IsCharBoundary
        <5>2. u = t
          BY <1>3, <1>5, <5>1
        <5> QED
          BY <3>3, <3>4, <4>1, <4>2, <5>2
      <4>3. CASE ~(at >= Len(t))
        BY <1>4, <1>5, <1>8, <3>3, <3>4, <4>1, <4>3 DEF Edits
      <4> QED
        BY <4>2, <4>3
    <3>6. CASE Gets(o, r, p.m, "LeanString", u)
      <4>1. o.ret = "ok"
        BY <3>6, GetsFacts
      <4>2. Return(call, o, Put(Put(handle, k, p.r), h, o.r))
        BY <3>2, <4>1
      <4>3. Done(call, Api!Allowed(call))
        BY <1>2, <1>4, <2>2, <2>3, <2>5, <2>7, <3>6, <4>2, SplitDone
      <4> QED
        BY <1>1, <4>3
    <3>7. CASE Fails(o, r, p.m)
      <4>1. o.ret = "err" /\ o.m = p.m
        BY <3>7, FailsFacts
      <4>2. PICK d \in DropIn(p.r, p.m) : Return(call, [d EXCEPT !.ret = "err"], handle)
        BY <3>2, <4>1
      <4>3. d.m = heap
        BY <1>4, <3>1, <4>2, MadeAndDropped
      <4>4. Valid(p.r, p.m)
        BY <3>1 DEF Trade
      <4>5. d = [ret |-> "ok", val |-> <<>>, r |-> p.r, m |-> d.m]
        BY <3>1, <4>2, <4>4, DropInIs
      <4>6. PICK c : c = [ret |-> "err", val |-> <<>>, r |-> p.r, m |-> heap]
        OBVIOUS
      <4>7. [d EXCEPT !.ret = "err"] = c
        <5>1. d = [ret |-> "ok", val |-> <<>>, r |-> p.r, m |-> heap]
          BY <4>3, <4>5
        <5> QED
          BY <4>6, <5>1
      <4>8. Return(call, c, handle)
        BY <4>2, <4>7
      <4>9. Done(call, Api!Allowed(call))
        BY <2>5, <4>6, <4>8, NothingChanged
      <4> QED
        BY <1>1, <4>9
    <3> QED
      BY <3>5, <3>6, <3>7
  <2> QED
    BY <2>4, <2>6, <2>7 DEF Makes
<1> QED
  BY <1>7, <1>8

-----------------------------------------------------------------------------
(* Calls with nothing to do, and reserve.                                  *)

\* What IdleCallsKeepSharing says of a step that is the call c.
Quiet(c) ==
    /\ c[2] \in Strings /\ c[2] \in Live' =>
          (NothingToDo(c, TextAt(c[2]), AsBytes(handle'[c[2]], heap')) => handle' = handle)
    /\ c[1] \in {"to_case", "to_ascii_case"} => Shares(c[2], c[3])

\* What ReservedRoomIsOwn says of it.
OwnRoom(c) == c[1] = "reserve" /\ io'.ret = "ok" /\ c[3] > 0 => HasRoom(handle'[c[2]], heap', c[3])

\* The two say nothing of the other calls.
LEMMA OtherCalls ==
    ASSUME NEW c, c[1] \notin {"push_str", "insert", "reserve", "replace_range", "extend_from_within",
                               "retain", "make_ascii_case", "truncate", "pop", "to_case", "to_ascii_case"}
    PROVE  Quiet(c) /\ OwnRoom(c)
BY DEF Quiet, OwnRoom, NothingToDo

\* A method that returns at once changes nothing.
LEMMA MutateStays ==
    ASSUME Good, NEW h \in Live, NEW call, NEW S, Mutate(h, call, S),
           S \subseteq Ok(handle[h], heap) \cup Panic(handle[h], heap)
    PROVE  handle' = handle
<1>1. PICK o \in S : Return(call, o, [handle EXCEPT ![h] = o.r])
  BY DEF Mutate
<1>2. o.r = handle[h]
  BY DEF Ok, Panic, Outcome
<1>3. handle = [g \in Live |-> handle[g]]
  BY DEF Good, Sound, Live
<1> QED
  BY <1>1, <1>2, <1>3 DEF Return

\* An empty argument or range, or a reserve of zero.
LEMMA EmptyCalls ==
    ASSUME Good, NEW h
    PROVE  /\ DoPushStr(h, <<>>) => handle' = handle
           /\ \A i : DoInsert(h, i, <<>>) => handle' = handle
           /\ DoReserve(h, 0) => handle' = handle
           /\ \A lo, hi : StartOf(lo) = EndOf(TextAt(h), hi) /\ DoReplaceRange(h, lo, hi, <<>>) =>
                 handle' = handle
           /\ \A lo, hi : /\ StartOf(lo) = EndOf(TextAt(h), hi) /\ DoExtendFromWithin(h, lo, hi)
                          /\ EndOf(TextAt(h), hi) \in Nat
                       => handle' = handle
<1>1. ASSUME DoPushStr(h, <<>>) PROVE handle' = handle
  <2>1. PushStr(handle[h], heap, <<>>) = Ok(handle[h], heap)
    BY DEF PushStr
  <2>2. PICK call : h \in Live /\ Mutate(h, call, PushStr(handle[h], heap, <<>>))
    BY <1>1 DEF DoPushStr, Strings
  <2> QED
    BY <2>1, <2>2, MutateStays
<1>2. ASSUME NEW i, DoInsert(h, i, <<>>) PROVE handle' = handle
  <2>1. InsertStr(handle[h], heap, i, <<>>) \subseteq Ok(handle[h], heap) \cup Panic(handle[h], heap)
    BY DEF InsertStr
  <2>2. PICK call : h \in Live /\ Mutate(h, call, InsertStr(handle[h], heap, i, <<>>))
    BY <1>2 DEF DoInsert, Strings, IsChar
  <2> QED
    BY <2>1, <2>2, MutateStays
<1>3. ASSUME DoReserve(h, 0) PROVE handle' = handle
  <2>1. PICK call, S : /\ h \in Live /\ Mutate(h, call, S)
                       /\ S \in {Reserve(handle[h], heap, 0), ReserveExact(handle[h], heap, 0)}
    BY <1>3 DEF DoReserve, Strings
  <2>2. S = Ok(handle[h], heap)
    BY <2>1 DEF Reserve, ReserveExact
  <2> QED
    BY <2>1, <2>2, MutateStays
<1>4. ASSUME NEW lo, NEW hi, StartOf(lo) = EndOf(TextAt(h), hi), DoReplaceRange(h, lo, hi, <<>>)
      PROVE  handle' = handle
  <2>1. ReplaceRange(handle[h], heap, lo, hi, <<>>) \subseteq Ok(handle[h], heap) \cup Panic(handle[h], heap)
    BY <1>4 DEF ReplaceRange, Then, TextAt
  <2>2. PICK call : h \in Live /\ Mutate(h, call, ReplaceRange(handle[h], heap, lo, hi, <<>>))
    BY <1>4 DEF DoReplaceRange, Strings
  <2> QED
    BY <2>1, <2>2, MutateStays
<1>5. ASSUME NEW lo, NEW hi, StartOf(lo) = EndOf(TextAt(h), hi), DoExtendFromWithin(h, lo, hi),
             EndOf(TextAt(h), hi) \in Nat
      PROVE  handle' = handle
  <2>1. ExtendFromWithin(handle[h], heap, lo, hi) \subseteq Ok(handle[h], heap) \cup Panic(handle[h], heap)
    BY <1>5 DEF ExtendFromWithin, Then, TextAt
  <2>2. PICK call : h \in Live /\ Mutate(h, call, ExtendFromWithin(handle[h], heap, lo, hi))
    BY <1>5 DEF DoExtendFromWithin, Strings
  <2> QED
    BY <2>1, <2>2, MutateStays
<1> QED
  BY <1>1, <1>2, <1>3, <1>4, <1>5

\* reserve and reserve_exact make room, and nobody else uses it.
LEMMA RoomIsOwn ==
    ASSUME Good, NEW h \in Handles, NEW n \in Sizes, DoReserve(h, n), io'.ret = "ok", n > 0
    PROVE  HasRoom(handle'[h], heap', n)
<1>1. n \in Nat
  BY ArgsAssumption
<1>2. h \in Strings /\ h \in Live
  BY DEF DoReserve, Strings
<1>3. PICK call, o : /\ o \in Reserve(handle[h], heap, n) \cup ReserveExact(handle[h], heap, n)
                     /\ Return(call, o, [handle EXCEPT ![h] = o.r])
  BY DEF DoReserve, Mutate
<1>4. io' = [call |-> call, ret |-> o.ret, val |-> o.val] /\ heap' = o.m /\ handle' = [handle EXCEPT ![h] = o.r]
  BY <1>3 DEF Return
<1>5. o.ret = "ok"
  BY <1>4
<1>6. handle'[h] = o.r
  BY <1>2, <1>4 DEF Live
<1>7. /\ IsHeapOf(heap) /\ Valid(handle[h], heap) /\ handle[h].ty = "LeanString"
      /\ Len(AsBytes(handle[h], heap)) = LenOf(handle[h], heap)
  BY <1>2, GoodString
<1>8. Edits(o, handle[h], heap, AsBytes(handle[h], heap)) /\ Roomy(o.r, o.m, LenOf(handle[h], heap) + n)
  BY <1>1, <1>3, <1>5, <1>7, ReserveIs
<1>9. ~Fails(o, handle[h], heap)
  BY <1>5, FailsFacts
<1>10. IsHeapOf(o.m) /\ Valid(o.r, o.m) /\ AsBytes(o.r, o.m) = AsBytes(handle[h], heap)
  BY <1>8, <1>9, GetsFacts DEF Edits
<1>11. LenOf(o.r, o.m) = LenOf(handle[h], heap)
  BY <1>7, <1>10, ValidFacts
<1>12. HasRoom(o.r, o.m, n)
  BY <1>1, <1>8, <1>10, <1>11, HasRoomIs
<1> QED
  BY <1>4, <1>6, <1>12

-----------------------------------------------------------------------------
(* Every step.                                                             *)

\* A step is a call that ends as it may.
Acts == \E c : Done(c, Api!Allowed(c)) /\ Quiet(c) /\ OwnRoom(c)

\* The calls of which the properties of single calls say nothing, and those that are
\* idle.
LEMMA ActsIf ==
    ASSUME NEW c, Done(c, Api!Allowed(c))
    PROVE  /\ c[1] \notin {"push_str", "insert", "reserve", "replace_range", "extend_from_within",
                           "retain", "make_ascii_case", "truncate", "pop", "to_case", "to_ascii_case"} => Acts
           /\ c[1] \in {"retain", "make_ascii_case", "truncate", "pop"} /\ Idle(c[2]) => Acts
           /\ c[1] \in {"to_case", "to_ascii_case"} /\ Shares(c[2], c[3]) => Acts
<1>1. ASSUME c[1] \in {"retain", "make_ascii_case", "truncate", "pop"}, Idle(c[2]) PROVE Acts
  <2>1. Quiet(c)
    BY <1>1 DEF Quiet, Idle, NothingToDo
  <2>2. OwnRoom(c)
    BY <1>1 DEF OwnRoom
  <2> QED
    BY <2>1, <2>2 DEF Acts
<1>2. ASSUME c[1] \in {"to_case", "to_ascii_case"}, Shares(c[2], c[3]) PROVE Acts
  <2>1. Quiet(c)
    BY <1>2 DEF Quiet, NothingToDo
  <2>2. OwnRoom(c)
    BY <1>2 DEF OwnRoom
  <2> QED
    BY <2>1, <2>2 DEF Acts
<1> QED
  BY <1>1, <1>2, OtherCalls DEF Acts

\* push_str, insert, reserve and the two calls with a range.
LEMMA EmptyActs ==
    ASSUME Good, NEW h \in Handles
    PROVE  /\ \A s \in Args : DoPushStr(h, s) => Acts
           /\ \A i \in Indexes, s \in Args : DoInsert(h, i, s) => Acts
           /\ \A n \in Sizes : DoReserve(h, n) => Acts
           /\ \A lo \in Los, hi \in His, s \in Args : DoReplaceRange(h, lo, hi, s) => Acts
           /\ \A lo \in Los, hi \in His : DoExtendFromWithin(h, lo, hi) => Acts
<1>1. ASSUME NEW s \in Args, DoPushStr(h, s) PROVE Acts
  <2>1. PICK c : c = <<"push_str", h, s>>
    OBVIOUS
  <2>2. c[1] = "push_str" /\ c[2] = h /\ c[Len(c)] = s
    BY <2>1
  <2>3. s = <<>> => handle' = handle
    BY <1>1, EmptyCalls
  <2>4. Quiet(c) /\ OwnRoom(c)
    BY <2>2, <2>3 DEF Quiet, OwnRoom, NothingToDo
  <2>5. Done(c, Api!Allowed(c))
    BY <1>1, <2>1, PushStep
  <2> QED
    BY <2>4, <2>5 DEF Acts
<1>2. ASSUME NEW i \in Indexes, NEW s \in Args, DoInsert(h, i, s) PROVE Acts
  <2>1. PICK c : c = <<"insert", h, i, s>>
    OBVIOUS
  <2>2. c[1] = "insert" /\ c[2] = h /\ c[Len(c)] = s
    BY <2>1
  <2>3. s = <<>> => handle' = handle
    BY <1>2, EmptyCalls
  <2>4. Quiet(c) /\ OwnRoom(c)
    BY <2>2, <2>3 DEF Quiet, OwnRoom, NothingToDo
  <2>5. Done(c, Api!Allowed(c))
    BY <1>2, <2>1, InsertStep
  <2> QED
    BY <2>4, <2>5 DEF Acts
<1>3. ASSUME NEW n \in Sizes, DoReserve(h, n) PROVE Acts
  <2>1. PICK c : c = <<"reserve", h, n>>
    OBVIOUS
  <2>2. c[1] = "reserve" /\ c[2] = h /\ c[3] = n
    BY <2>1
  <2>3. n = 0 => handle' = handle
    BY <1>3, EmptyCalls
  <2>4. io'.ret = "ok" /\ n > 0 => HasRoom(handle'[h], heap', n)
    BY <1>3, RoomIsOwn
  <2>5. Quiet(c)
    BY <2>2, <2>3 DEF Quiet, NothingToDo
  <2>6. OwnRoom(c)
    BY <2>2, <2>4 DEF OwnRoom
  <2>7. Done(c, Api!Allowed(c))
    BY <1>3, <2>1, RoomStep
  <2> QED
    BY <2>5, <2>6, <2>7 DEF Acts
<1>4. ASSUME NEW lo \in Los, NEW hi \in His, NEW s \in Args, DoReplaceRange(h, lo, hi, s) PROVE Acts
  <2>1. PICK c : c = <<"replace_range", h, lo, hi, s>>
    OBVIOUS
  <2>2. c[1] = "replace_range" /\ c[2] = h /\ c[3] = lo /\ c[4] = hi /\ c[5] = s
    BY <2>1
  <2>3. StartOf(lo) = EndOf(TextAt(h), hi) /\ s = <<>> => handle' = handle
    BY <1>4, EmptyCalls
  <2>4. Quiet(c) /\ OwnRoom(c)
    BY <2>2, <2>3 DEF Quiet, OwnRoom, NothingToDo
  <2>5. Done(c, Api!Allowed(c))
    BY <1>4, <2>1, ReplaceRangeStep
  <2> QED
    BY <2>4, <2>5 DEF Acts
<1>5. ASSUME NEW lo \in Los, NEW hi \in His, DoExtendFromWithin(h, lo, hi) PROVE Acts
  <2>1. PICK c : c = <<"extend_from_within", h, lo, hi>>
    OBVIOUS
  <2>2. c[1] = "extend_from_within" /\ c[2] = h /\ c[3] = lo /\ c[4] = hi
    BY <2>1
  <2>3. EndOf(TextAt(h), hi) \in Nat
    <3>1. h \in Strings /\ IsBound(hi)
      BY <1>5, ArgsAssumption DEF DoExtendFromWithin, IsBound
    <3> QED
      BY <3>1, GoodString, BoundsAre
  <2>4. StartOf(lo) = EndOf(TextAt(h), hi) => handle' = handle
    BY <1>5, <2>3, EmptyCalls
  <2>5. Quiet(c) /\ OwnRoom(c)
    BY <2>2, <2>4 DEF Quiet, OwnRoom, NothingToDo
  <2>6. Done(c, Api!Allowed(c))
    BY <1>5, <2>1, ExtendStep
  <2> QED
    BY <2>5, <2>6 DEF Acts
<1> QED
  BY <1>1, <1>2, <1>3, <1>4, <1>5

\* Every call, with any handles.
LEMMA CallActs ==
    ASSUME Good, NEW H \in SUBSET Handles, CallOn(H)
    PROVE  Acts
<1>1. PICK h \in H :
         \/ \E ty \in Types, s \in Args : FromText(h, ty, s) \/ FromStaticText(h, ty, s)
         \/ \E n \in Sizes : WithRoom(h, n) \/ DoReserve(h, n) \/ DoShrinkTo(h, n)
         \/ Drop(h) \/ IntoLeanStr(h) \/ IntoLeanString(h) \/ DoPop(h) \/ DoClear(h)
         \/ \E s \in Args : DoPushStr(h, s) \/ DoPush(h, s) \/ DoWriteFmt(h, s)
         \/ \E i \in Indexes : DoRemove(h, i) \/ DoTruncate(h, i)
         \/ \E i \in Indexes, s \in Args : DoInsert(h, i, s)
         \/ \E p \in Predicates : DoRetain(h, p)
         \/ \E lo \in Los, hi \in His : DoExtendFromWithin(h, lo, hi)
         \/ \E lo \in Los, hi \in His, s \in Args : DoReplaceRange(h, lo, hi, s)
         \/ \E case \in Cases : DoMakeAsciiCase(h, case)
         \/ \E k \in H :
               \/ Clone(h, k) \/ CloneFrom(h, k) \/ ToOther(h, k)
               \/ \E i \in Indexes : DoSplitOff(h, k, i)
               \/ \E case \in Cases : DoToAsciiCase(h, k, case) \/ DoToCase(h, k, case)
               \/ \E n \in Sizes : DoRepeat(h, k, n)
  BY DEF CallOn
<1>2. h \in Handles /\ \A k \in H : k \in Handles
  OBVIOUS
<1>3. ASSUME NEW ty \in Types, NEW s \in Args, FromText(h, ty, s) \/ FromStaticText(h, ty, s) PROVE Acts
  <2>1. PICK m \in {"from_str", "from_static_str"} : Done(<<m, h, s>>, Api!Allowed(<<m, h, s>>))
    BY <1>2, <1>3, FromStep
  <2>2. PICK c : c = <<m, h, s>>
    OBVIOUS
  <2>3. c[1] = m
    BY <2>2
  <2> QED
    BY <2>1, <2>2, <2>3, ActsIf
<1>4. ASSUME NEW n \in Sizes, WithRoom(h, n) \/ DoReserve(h, n) \/ DoShrinkTo(h, n) PROVE Acts
  <2>1. CASE WithRoom(h, n) \/ DoShrinkTo(h, n)
    <3>1. PICK m \in {"with_capacity", "shrink_to"} : Done(<<m, h, n>>, Api!Allowed(<<m, h, n>>))
      BY <1>2, <2>1, WithRoomStep, RoomStep
    <3>2. PICK c : c = <<m, h, n>>
      OBVIOUS
    <3>3. c[1] = m
      BY <3>2
    <3> QED
      BY <3>1, <3>2, <3>3, ActsIf
  <2>2. CASE DoReserve(h, n)
    BY <1>2, <2>2, EmptyActs
  <2> QED
    BY <1>4, <2>1, <2>2
<1>5. ASSUME Drop(h) \/ IntoLeanStr(h) \/ IntoLeanString(h) \/ DoClear(h) PROVE Acts
  <2>1. PICK m \in {"drop", "into", "clear"} : Done(<<m, h>>, Api!Allowed(<<m, h>>))
    BY <1>2, <1>5, DropStep, IntoStep, ClearStep
  <2>2. PICK c : c = <<m, h>>
    OBVIOUS
  <2>3. c[1] = m
    BY <2>2
  <2> QED
    BY <2>1, <2>2, <2>3, ActsIf
<1>6. ASSUME DoPop(h) PROVE Acts
  <2>1. Done(<<"pop", h>>, Api!Allowed(<<"pop", h>>)) /\ Idle(h)
    BY <1>2, <1>6, PopStep
  <2>2. PICK c : c = <<"pop", h>>
    OBVIOUS
  <2>3. c[1] = "pop" /\ c[2] = h
    BY <2>2
  <2> QED
    BY <2>1, <2>2, <2>3, ActsIf
<1>7. ASSUME NEW s \in Args, DoPushStr(h, s) \/ DoPush(h, s) \/ DoWriteFmt(h, s) PROVE Acts
  <2>1. CASE DoPush(h, s) \/ DoWriteFmt(h, s)
    <3>1. PICK m \in {"push", "write_fmt"} : Done(<<m, h, s>>, Api!Allowed(<<m, h, s>>))
      BY <1>2, <2>1, PushCharStep, WriteFmtStep
    <3>2. PICK c : c = <<m, h, s>>
      OBVIOUS
    <3>3. c[1] = m
      BY <3>2
    <3> QED
      BY <3>1, <3>2, <3>3, ActsIf
  <2>2. CASE DoPushStr(h, s)
    BY <1>2, <2>2, EmptyActs
  <2> QED
    BY <1>7, <2>1, <2>2
<1>8. ASSUME NEW i \in Indexes, DoRemove(h, i) \/ DoTruncate(h, i) PROVE Acts
  <2>1. CASE DoRemove(h, i)
    <3>1. Done(<<"remove", h, i>>, Api!Allowed(<<"remove", h, i>>))
      BY <1>2, <2>1, RemoveStep
    <3>2. PICK c : c = <<"remove", h, i>>
      OBVIOUS
    <3>3. c[1] = "remove"
      BY <3>2
    <3> QED
      BY <3>1, <3>2, <3>3, ActsIf
  <2>2. CASE DoTruncate(h, i)
    <3>1. Done(<<"truncate", h, i>>, Api!Allowed(<<"truncate", h, i>>)) /\ Idle(h)
      BY <1>2, <2>2, TruncateStep
    <3>2. PICK c : c = <<"truncate", h, i>>
      OBVIOUS
    <3>3. c[1] = "truncate" /\ c[2] = h
      BY <3>2
    <3> QED
      BY <3>1, <3>2, <3>3, ActsIf
  <2> QED
    BY <1>8, <2>1, <2>2
<1>9. ASSUME NEW p \in Predicates, DoRetain(h, p) PROVE Acts
  <2>1. Done(<<"retain", h, p>>, Api!Allowed(<<"retain", h, p>>)) /\ Idle(h)
    BY <1>2, <1>9, RetainActs
  <2>2. PICK c : c = <<"retain", h, p>>
    OBVIOUS
  <2>3. c[1] = "retain" /\ c[2] = h
    BY <2>2
  <2> QED
    BY <2>1, <2>2, <2>3, ActsIf
<1>10. ASSUME NEW case \in Cases, DoMakeAsciiCase(h, case) PROVE Acts
  <2>1. Done(<<"make_ascii_case", h, case>>, Api!Allowed(<<"make_ascii_case", h, case>>)) /\ Idle(h)
    BY <1>2, <1>10, AsciiCaseStep
  <2>2. PICK c : c = <<"make_ascii_case", h, case>>
    OBVIOUS
  <2>3. c[1] = "make_ascii_case" /\ c[2] = h
    BY <2>2
  <2> QED
    BY <2>1, <2>2, <2>3, ActsIf
<1>11. ASSUME NEW k \in H, Clone(h, k) \/ CloneFrom(h, k) \/ ToOther(h, k) PROVE Acts
  <2>1. PICK m \in {"clone", "clone_from", "to_other"} : Done(<<m, h, k>>, Api!Allowed(<<m, h, k>>))
    BY <1>2, <1>11, CloneStep, CloneFromStep, ToOtherStep
  <2>2. PICK c : c = <<m, h, k>>
    OBVIOUS
  <2>3. c[1] = m
    BY <2>2
  <2> QED
    BY <2>1, <2>2, <2>3, ActsIf
<1>12. ASSUME NEW k \in H, NEW i \in Indexes, DoSplitOff(h, k, i) PROVE Acts
  <2>1. Done(<<"split_off", h, k, i>>, Api!Allowed(<<"split_off", h, k, i>>))
    BY <1>2, <1>12, SplitOffStep
  <2>2. PICK c : c = <<"split_off", h, k, i>>
    OBVIOUS
  <2>3. c[1] = "split_off"
    BY <2>2
  <2> QED
    BY <2>1, <2>2, <2>3, ActsIf
<1>13. ASSUME NEW k \in H, NEW case \in Cases, DoToAsciiCase(h, k, case) \/ DoToCase(h, k, case) PROVE Acts
  <2>1. PICK m \in {"to_ascii_case", "to_case"} :
           Done(<<m, h, k, case>>, Api!Allowed(<<m, h, k, case>>)) /\ Shares(h, k)
    BY <1>2, <1>13, ToAsciiCaseStep, ToCaseStep
  <2>2. PICK c : c = <<m, h, k, case>>
    OBVIOUS
  <2>3. c[1] = m /\ c[2] = h /\ c[3] = k
    BY <2>2
  <2> QED
    BY <2>1, <2>2, <2>3, ActsIf
<1>14. ASSUME NEW k \in H, NEW n \in Sizes, DoRepeat(h, k, n) PROVE Acts
  <2>1. Done(<<"repeat", h, k, n>>, Api!Allowed(<<"repeat", h, k, n>>))
    BY <1>2, <1>14, RepeatStep
  <2>2. PICK c : c = <<"repeat", h, k, n>>
    OBVIOUS
  <2>3. c[1] = "repeat"
    BY <2>2
  <2> QED
    BY <2>1, <2>2, <2>3, ActsIf
<1>15. /\ (\E i \in Indexes, s \in Args : DoInsert(h, i, s)) => Acts
       /\ (\E lo \in Los, hi \in His : DoExtendFromWithin(h, lo, hi)) => Acts
       /\ (\E lo \in Los, hi \in His, s \in Args : DoReplaceRange(h, lo, hi, s)) => Acts
  BY <1>2, EmptyActs
<1> HIDE DEF Acts
<1> QED
  BY <1>1, <1>3, <1>4, <1>5, <1>6, <1>7, <1>8, <1>9, <1>10, <1>11, <1>12, <1>13, <1>14, <1>15

-----------------------------------------------------------------------------
(* Theorems about LeanStrings.                                             *)

\* No handle and no block.
LEMMA InitGood ==
    ASSUME Init
    PROVE  Good
<1>1. handle = <<>> /\ heap = <<>> /\ DOMAIN handle = {} /\ DOMAIN heap = {}
  BY DEF Init
<1>2. handle = [h \in DOMAIN handle |-> handle[h]] /\ heap = [b \in DOMAIN heap |-> heap[b]]
  BY <1>1
<1>3. IsFiniteSet(DOMAIN handle)
  BY <1>1, FS_EmptySet
<1>4. IsHeapOf(heap)
  BY <1>1, <1>2 DEF IsHeapOf
<1>5. ASSUME NEW b \in Buffers PROVE CountAt(heap, b) = Cardinality(Holders(handle, b))
  <2>1. Holders(handle, b) = {}
    BY <1>1 DEF Holders
  <2>2. Cardinality(Holders(handle, b)) = 0
    BY <2>1, FS_EmptySet
  <2> QED
    BY <1>1, <2>2 DEF CountAt
<1> QED
  BY <1>1, <1>2, <1>3, <1>4, <1>5 DEF Good, Sound, Live

\* A step of the program is a call.
LEMMA NextActs ==
    ASSUME Good, Next
    PROVE  Acts /\ Good'
<1>1. Acts
  <2>1. Handles \in SUBSET Handles
    OBVIOUS
  <2> QED
    BY <2>1, CallActs DEF Next
<1> QED
  BY <1>1 DEF Acts, Done

\* Nothing happens to the handles and blocks otherwise.
LEMMA StutterGood ==
    ASSUME Good, UNCHANGED <<handle, heap>>
    PROVE  Good'
BY DEF Good, Live

\* What the invariants say of a good state.
LEMMA GoodIs ==
    ASSUME Good
    PROVE  TypeOK /\ BlocksCounted /\ TextsReadable /\ LayoutsAgree
<1>1. IsHeapOf(heap) /\ IsFiniteSet(DOMAIN handle)
  BY DEF Good, Sound
<1>2. ASSUME NEW h \in Live
      PROVE  /\ handle[h].ty \in Types
             /\ \/ handle[h].kind = "inline" /\ Len(handle[h].text) <= InlineMax
                \/ handle[h].kind = "static" /\ Len(handle[h].text) <= StaticMax
                \/ handle[h].kind = "heap" /\ handle[h].buf \in Buffers /\ handle[h].len \in 0..OnTheHeap
  <2>1. Valid(handle[h], heap)
    BY <1>2, GoodHandle
  <2>2. DOMAIN heap \subseteq Buffers
    BY <1>1 DEF IsHeapOf
  <2> QED
    BY <2>1, <2>2 DEF Valid, IsInline, IsStatic, IsOnHeap
<1>3. ASSUME NEW b \in DOMAIN heap
      PROVE  /\ heap[b].ty \in Types /\ heap[b].count \in Nat /\ heap[b].size \in Nat
             /\ heap[b].prefixed \in BOOLEAN /\ heap[b].len \in {UninitLen} \cup Nat
             /\ Len(heap[b].bytes) <= CapMax
  BY <1>1, <1>3, BlockFields
<1>4. TypeOK
  <2>1. Live \subseteq Handles /\ DOMAIN heap \subseteq Buffers
    BY <1>1 DEF Good, IsHeapOf
  <2> QED
    BY <1>2, <1>3, <2>1 DEF TypeOK
<1>5. ASSUME NEW h \in Live, IsHeap(handle[h]) PROVE handle[h].buf \in DOMAIN heap /\ Believes(handle[h], heap)
  BY <1>1, <1>5, GoodHandle, ValidFacts, OnHeapFacts
<1>6. ASSUME NEW b \in DOMAIN heap
      PROVE  Sharers(b) # {} /\ heap[b].count = Cardinality(Sharers(b))
  <2>1. Sharers(b) = Holders(handle, b)
    BY DEF Sharers, Holders, Refs, Live
  <2>2. b \in Buffers /\ heap[b].count \in Nat /\ heap[b].count > 0
    BY <1>1, <1>6, BlockFields
  <2>3. CountAt(heap, b) = Cardinality(Holders(handle, b)) /\ CountAt(heap, b) = heap[b].count
    BY <2>2 DEF Good, Sound, CountAt
  <2>4. Cardinality(Sharers(b)) # 0
    BY <2>1, <2>2, <2>3
  <2>5. Sharers(b) # {}
    BY <2>4, FS_EmptySet
  <2> QED
    BY <2>1, <2>3, <2>5
<1>7. BlocksCounted
  BY <1>5, <1>6 DEF BlocksCounted
<1>8. TextsReadable
  <2>1. ASSUME NEW h \in Live
        PROVE  LenOf(handle[h], heap) \in 0..Capacity(handle[h], heap) /\ IsUtf8(AsBytes(handle[h], heap))
    <3>1. Valid(handle[h], heap) /\ IsUtf8(AsBytes(handle[h], heap))
      BY GoodHandle
    <3>2. /\ LenOf(handle[h], heap) \in Nat /\ Capacity(handle[h], heap) \in Nat
          /\ LenOf(handle[h], heap) <= Capacity(handle[h], heap)
      BY <1>1, <3>1, ValidFacts
    <3> QED
      BY <3>1, <3>2
  <2> QED
    BY <2>1 DEF TextsReadable
<1>9. LayoutsAgree
  BY <1>5 DEF LayoutsAgree
<1> QED
  BY <1>4, <1>7, <1>8, <1>9

\* Between two calls, whatever the program has done, every handle is right about its
\* block, every block is counted once for each of its handles, and every text is valid
\* UTF-8.
THEOREM AlwaysGood == Spec => []Good
<1>1. Init => Good
  BY InitGood
<1>2. Good /\ [Next]_vars => Good'
  BY NextActs, StutterGood DEF vars
<1> QED
  BY <1>1, <1>2, PTL DEF Spec

\* Handles and blocks keep their shapes.
THEOREM TypesHold == Spec => []TypeOK
BY AlwaysGood, GoodIs, PTL

\* After every call, also one that failed or panicked half way, no block is leaked, freed
\* while a handle holds it or counted wrongly.
THEOREM BlocksStayCounted == Spec => []BlocksCounted
BY AlwaysGood, GoodIs, PTL

\* as_str is sound for every handle in every reachable state.
THEOREM TextsStayReadable == Spec => []TextsReadable
BY AlwaysGood, GoodIs, PTL

\* Every sharer of a block computes the layout it was allocated with.
THEOREM LayoutsStayRight == Spec => []LayoutsAgree
BY AlwaysGood, GoodIs, PTL

\* A call that fails changes neither a handle nor a block, unless it consumes its handle.
THEOREM FailuresChangeNothing == Spec => FailureChangesNothing
<1>1. ASSUME Good, Next
      PROVE  io'.ret = "err" /\ io'.call[1] # "into" => UNCHANGED Store
  <2>1. PICK c : Done(c, Api!Allowed(c))
    BY <1>1, NextActs DEF Acts
  <2>2. io'.call = c
    BY <2>1 DEF Done
  <2> QED
    BY <2>1, <2>2 DEF Done
<1>2. Good /\ [Next]_vars => [io'.ret = "err" /\ io'.call[1] # "into" => UNCHANGED Store]_vars
  BY <1>1
<1> QED
  BY <1>2, AlwaysGood, PTL DEF Spec, FailureChangesNothing

\* A handle that a call is not given keeps its representation and its capacity, also when
\* it shares the block that the call works on.
THEOREM CapacitiesKept == Spec => OthersKeepCapacity
<1>1. ASSUME Good, Next
      PROVE  \A h \in Live \cap Live' : h # io'.call[2] =>
                /\ handle'[h] = handle[h]
                /\ Capacity(handle[h], heap)' = Capacity(handle[h], heap)
  <2>1. PICK c : Done(c, Api!Allowed(c))
    BY <1>1, NextActs DEF Acts
  <2>2. io'.call = c
    BY <2>1 DEF Done
  <2>3. ASSUME NEW h \in Live \cap Live', h # c[2]
        PROVE  handle'[h] = handle[h] /\ Capacity(handle'[h], heap') = Capacity(handle[h], heap)
    <3>1. handle'[h] = handle[h] /\ Capacity(handle[h], heap') = Capacity(handle[h], heap)
      BY <2>1, <2>3 DEF Done
    <3> QED
      BY <3>1
  <2> QED
    BY <2>2, <2>3
<1>2. Good /\ [Next]_vars =>
        [\A h \in Live \cap Live' : h # io'.call[2] =>
            /\ handle'[h] = handle[h]
            /\ Capacity(handle[h], heap)' = Capacity(handle[h], heap)]_vars
  BY <1>1
<1> QED
  BY <1>2, AlwaysGood, PTL DEF Spec, OthersKeepCapacity

\* reserve leaves the room it promises, in a buffer of its own.
THEOREM RoomReserved == Spec => ReservedRoomIsOwn
<1>1. ASSUME Good, Next
      PROVE  LET c == io'.call IN
             c[1] = "reserve" /\ io'.ret = "ok" /\ c[3] > 0 => HasRoom(handle'[c[2]], heap', c[3])
  <2>1. PICK c : Done(c, Api!Allowed(c)) /\ OwnRoom(c)
    BY <1>1, NextActs DEF Acts
  <2>2. io'.call = c
    BY <2>1 DEF Done
  <2> QED
    BY <2>1, <2>2 DEF OwnRoom
<1>2. Good /\ [Next]_vars =>
        [LET c == io'.call IN
         c[1] = "reserve" /\ io'.ret = "ok" /\ c[3] > 0 => HasRoom(handle'[c[2]], heap', c[3])]_vars
  BY <1>1
<1> QED
  BY <1>2, AlwaysGood, PTL DEF Spec, ReservedRoomIsOwn

\* A call with nothing to do copies nothing.
THEOREM IdleCallsCopyNothing == Spec => IdleCallsKeepSharing
<1>1. ASSUME Good, Next
      PROVE  LET h == io'.call[2] IN
             /\ h \in Strings /\ h \in Live' =>
                   (NothingToDo(io'.call, TextAt(h), AsBytes(handle'[h], heap')) => handle' = handle)
             /\ io'.call[1] \in {"to_case", "to_ascii_case"} /\ io'.ret = "ok" =>
                   LET r == handle'[io'.call[3]]
                   IN  AsBytes(r, heap') = TextAt(h) => r = handle[h]
  <2>1. PICK c : Done(c, Api!Allowed(c)) /\ Quiet(c)
    BY <1>1, NextActs DEF Acts
  <2>2. io'.call = c
    BY <2>1 DEF Done
  <2> QED
    BY <2>1, <2>2 DEF Quiet, Shares
<1>2. Good /\ [Next]_vars =>
        [LET h == io'.call[2] IN
         /\ h \in Strings /\ h \in Live' =>
               (NothingToDo(io'.call, TextAt(h), AsBytes(handle'[h], heap')) => handle' = handle)
         /\ io'.call[1] \in {"to_case", "to_ascii_case"} /\ io'.ret = "ok" =>
               LET r == handle'[io'.call[3]]
               IN  AsBytes(r, heap') = TextAt(h) => r = handle[h]]_vars
  BY <1>1
<1> QED
  BY <1>2, AlwaysGood, PTL DEF Spec, IdleCallsKeepSharing

\* The call has ended in one of the ways E.
Ended(call, E) ==
    /\ Good'
    /\ \E e \in E : Texts(handle', heap') = e.text /\ io' = [call |-> call, ret |-> e.ret, val |-> e.val]

\* A call that ends as StringApi allows is a step of StringApi.
LEMMA EndedIsApiStep ==
    ASSUME NEW c, Ended(c, Api!Allowed(c))
    PROVE  Api!Next
<1>1. PICK e \in Api!Allowed(c) :
         Texts(handle', heap') = e.text /\ io' = [call |-> c, ret |-> e.ret, val |-> e.val]
  BY DEF Ended
<1>2. io'.call = c
  BY <1>1
<1>3. [h \in Live |-> TextAt(h)]' = Texts(handle', heap')
  BY DEF Live, TextAt, Texts
<1> QED
  BY <1>1, <1>2, <1>3 DEF Api!Next

\* The representations implement strings: every behaviour of the handles is, seen through
\* as_str, one of StringApi.
THEOREM StringsImplementApi == Spec => ImplementsApi
<1>1. Init => Api!Init
  <2>1. SUFFICES ASSUME Init PROVE Api!Init
    OBVIOUS
  <2>2. [h \in Live |-> TextAt(h)] = <<>>
    BY <2>1 DEF Init, Live
  <2> QED
    BY <2>1, <2>2 DEF Init, Api!Init
<1>2. Good /\ [Next]_vars => [Api!Next]_(Api!vars)
  <2>1. ASSUME Good, Next PROVE Api!Next
    BY <2>1, NextActs, EndedIsApiStep DEF Acts, Done, Ended
  <2>2. ASSUME UNCHANGED vars PROVE UNCHANGED Api!vars
    BY <2>2 DEF vars, Api!vars, Live, TextAt
  <2> QED
    BY <2>1, <2>2
<1> QED
  BY <1>1, <1>2, AlwaysGood, PTL DEF Spec, ImplementsApi, Api!Spec

-----------------------------------------------------------------------------
(* Texts that are built piece by piece (Builders).                         *)

\* The function f without the arguments D.
Cut(f, D) == [k \in DOMAIN f \ D |-> f[k]]

\* A handle is given another representation, or a place that was free one.
LEMMA PutSound ==
    ASSUME NEW H, NEW m, Sound(H, m), NEW h, NEW q, NEW n, Trade(At(H, h), m, q, n),
           NEW t, AsBytes(q, n) = t, IsUtf8(t)
    PROVE  Sound(Put(H, h, q), n) /\ Texts(Put(H, h, q), n) = Put(Texts(H, m), h, t)
<1> DEFINE J == Put(H, h, q)
<1>1. /\ DOMAIN J = DOMAIN H \cup {h} /\ J[h] = q /\ \A g \in DOMAIN H \ {h} : J[g] = H[g]
      /\ J = [k \in DOMAIN J |-> J[k]]
  BY DEF Put
<1> HIDE DEF J
<1>2. OnlyAt(H, J, h)
  BY <1>1 DEF OnlyAt
<1>3. At(J, h) = q /\ h \in DOMAIN J /\ AsBytes(J[h], n) = t
  BY <1>1 DEF At
<1>4. Trade(At(H, h), m, At(J, h), n) /\ (h \in DOMAIN J => IsUtf8(AsBytes(J[h], n)))
  BY <1>3
<1>5. Sound(J, n) /\ Undisturbed(H, m, J, n, h)
  BY ONLY Sound(H, m), <1>2, <1>4, Exchanged
<1>6. Texts(J, n) = Put(Texts(H, m), h, t)
  BY ONLY <1>2, <1>3, <1>5, NewTexts
<1> QED
  BY <1>1, <1>5, <1>6 DEF J

\* A handle is dropped.
LEMMA CutSound ==
    ASSUME NEW H, NEW m, Sound(H, m), NEW h \in DOMAIN H, NEW n, Trade(H[h], m, Nothing, n)
    PROVE  Sound(Cut(H, {h}), n) /\ Texts(Cut(H, {h}), n) = Cut(Texts(H, m), {h})
<1> DEFINE J == Cut(H, {h})
<1>1. /\ DOMAIN J = DOMAIN H \ {h} /\ \A g \in DOMAIN J : J[g] = H[g]
      /\ J = [k \in DOMAIN J |-> J[k]]
  BY DEF Cut
<1> HIDE DEF J
<1>2. OnlyAt(H, J, h)
  BY <1>1 DEF OnlyAt
<1>3. At(J, h) = Nothing /\ At(H, h) = H[h]
  BY <1>1 DEF At
<1>4. Trade(At(H, h), m, At(J, h), n) /\ (h \in DOMAIN J => IsUtf8(AsBytes(J[h], n)))
  BY <1>1, <1>3
<1>5. Sound(J, n) /\ Undisturbed(H, m, J, n, h)
  BY ONLY Sound(H, m), <1>2, <1>4, Exchanged
<1>6. \A g \in DOMAIN J : AsBytes(J[g], n) = Texts(H, m)[g]
  BY <1>1, <1>5 DEF Undisturbed, Texts
<1>7. DOMAIN Texts(H, m) = DOMAIN H
  BY DEF Texts
<1>8. Texts(J, n) = Cut(Texts(H, m), {h})
  BY <1>1, <1>6, <1>7 DEF Texts, Cut
<1> QED
  BY <1>1, <1>5, <1>8 DEF J

\* A handle moves to a free place.
LEMMA MoveSound ==
    ASSUME NEW H, NEW m, Sound(H, m), NEW g \in DOMAIN H, NEW k, k \notin DOMAIN H
    PROVE  /\ Sound(Put(Cut(H, {g}), k, H[g]), m)
           /\ Texts(Put(Cut(H, {g}), k, H[g]), m) = Put(Cut(Texts(H, m), {g}), k, Texts(H, m)[g])
<1> DEFINE J == Put(Cut(H, {g}), k, H[g])
<1>1. /\ DOMAIN J = (DOMAIN H \ {g}) \cup {k} /\ J[k] = H[g] /\ \A x \in DOMAIN H \ {g} : J[x] = H[x]
      /\ J = [x \in DOMAIN J |-> J[x]]
  BY DEF Put, Cut
<1> HIDE DEF J
<1>2. IsFiniteSet(DOMAIN H) /\ IsHeapOf(m)
  BY DEF Sound
<1>3. IsFiniteSet(DOMAIN J)
  <2>1. IsFiniteSet(DOMAIN H \ {g})
    BY <1>2, FS_RemoveElement
  <2> QED
    BY <1>1, <2>1, FS_AddElement
<1>4. \A x \in DOMAIN J : Valid(J[x], m) /\ IsUtf8(AsBytes(J[x], m))
  BY <1>1 DEF Sound
<1>5. ASSUME NEW b \in Buffers PROVE CountAt(m, b) = Cardinality(Holders(J, b))
  <2>1. Holders(J, b) \ {k} = Holders(H, b) \ {g}
    BY <1>1 DEF Holders
  <2>2. At(J, k) = H[g] /\ At(H, g) = H[g]
    BY <1>1 DEF At
  <2>3. Cardinality(Holders(J, b)) = Cardinality(Holders(J, b) \ {k}) + Refs(At(J, k), b)
    BY <1>3, HoldersBut
  <2>4. Cardinality(Holders(H, b)) = Cardinality(Holders(H, b) \ {g}) + Refs(At(H, g), b)
    BY <1>2, HoldersBut
  <2>5. CountAt(m, b) = Cardinality(Holders(H, b))
    BY DEF Sound
  <2> QED
    BY <2>1, <2>2, <2>3, <2>4, <2>5
<1>6. Sound(J, m)
  BY <1>1, <1>2, <1>3, <1>4, <1>5 DEF Sound
<1>7. Texts(J, m) = Put(Cut(Texts(H, m), {g}), k, Texts(H, m)[g])
  BY <1>1 DEF Texts, Put, Cut
<1> QED
  BY <1>1, <1>6, <1>7 DEF J

\* The methods that the program calls, and those that make a second handle.
Making == {"clone", "to_other", "to_ascii_case", "to_case", "repeat", "split_off"}
Methods == Making \cup
    {"from_str", "from_static_str", "with_capacity", "clone_from", "drop", "into", "reserve",
     "shrink_to", "push_str", "write_fmt", "push", "insert", "remove", "pop", "truncate", "clear",
     "retain", "replace_range", "extend_from_within", "make_ascii_case"}

\* A call that is given no handle but those of K.
GivenOnly(c, K) == c[1] \in Methods /\ c[2] \in K /\ (c[1] \in Making => c[3] \in K)

\* Whichever way of E the call ends in, the texts of handles that are not in K stay.
Kept(E, K) == \A e \in E : \A b : b \notin K =>
    (b \in DOMAIN e.text <=> b \in Live) /\ (b \in Live => e.text[b] = TextAt(b))

\* The ways a call may end that concern only handles of K.
LEMMA EndsKept ==
    ASSUME NEW K
    PROVE  /\ Kept(Api!Fails, K) /\ Kept(Api!Panics, K) /\ Kept(Api!Unchanged, K)
           /\ \A h \in K : \A t : Kept(Api!Sets(h, t), K) /\ Kept(Api!MaySet(h, t), K)
           /\ \A h \in K : \A ret, v : Kept(Api!Ends(ret, v, Api!Without(h)), K)
           /\ \A h \in K : \A ret, v, t : Kept(Api!Ends(ret, v, Put(Texts(handle, heap), h, t)), K)
           /\ \A h \in K, k \in K : \A ret, v, s, t :
                 Kept(Api!Ends(ret, v, Put(Put(Texts(handle, heap), k, s), h, t)), K)
           /\ \A D, E : Kept(D, K) /\ Kept(E, K) => Kept(D \cup E, K)
<1>1. /\ DOMAIN Texts(handle, heap) = Live /\ \A b \in Live : Texts(handle, heap)[b] = TextAt(b)
      /\ [h \in Live |-> TextAt(h)] = Texts(handle, heap)
  BY DEF Texts, TextAt, Live
<1>2. \A ret, v, T : End(ret, v, T).text = T
  BY DEF End
<1>3. \A ret, v : Kept({End(ret, v, Texts(handle, heap))}, K)
  BY <1>1, <1>2 DEF Kept
<1>4. ASSUME NEW h \in K, NEW t, NEW b, b \notin K
      PROVE  /\ b \in DOMAIN Put(Texts(handle, heap), h, t) <=> b \in Live
             /\ b \in Live => Put(Texts(handle, heap), h, t)[b] = TextAt(b)
  BY <1>1, <1>4 DEF Put
<1>5. \A h \in K : \A ret, v, t : Kept({End(ret, v, Put(Texts(handle, heap), h, t))}, K)
  BY <1>2, <1>4 DEF Kept
<1>6. ASSUME NEW h \in K, NEW k \in K, NEW s, NEW t, NEW b, b \notin K
      PROVE  /\ b \in DOMAIN Put(Put(Texts(handle, heap), k, s), h, t) <=> b \in Live
             /\ b \in Live => Put(Put(Texts(handle, heap), k, s), h, t)[b] = TextAt(b)
  BY <1>1, <1>6 DEF Put
<1>7. \A h \in K, k \in K : \A ret, v, s, t : Kept({End(ret, v, Put(Put(Texts(handle, heap), k, s), h, t))}, K)
  BY <1>2, <1>6 DEF Kept
<1>8. ASSUME NEW h \in K, NEW b, b \notin K
      PROVE  (b \in DOMAIN Api!Without(h) <=> b \in Live) /\ (b \in Live => Api!Without(h)[b] = TextAt(b))
  <2>1. Api!Without(h) = [k \in DOMAIN Texts(handle, heap) \ {h} |-> Texts(handle, heap)[k]]
    BY <1>1 DEF Api!Without
  <2> QED
    BY <1>1, <1>8, <2>1
<1>9. \A h \in K : \A ret, v : Kept({End(ret, v, Api!Without(h))}, K)
  BY <1>2, <1>8 DEF Kept
<1>10. \A D, E : Kept(D, K) /\ Kept(E, K) => Kept(D \cup E, K)
  BY DEF Kept
<1>11. \A h \in K : \A t : Kept(Api!Sets(h, t), K) /\ Kept(Api!MaySet(h, t), K)
  <2>1. SUFFICES ASSUME NEW h \in K, NEW t PROVE Kept(Api!Sets(h, t), K) /\ Kept(Api!MaySet(h, t), K)
    OBVIOUS
  <2>2. Kept(Api!Sets(h, t), K)
    BY <1>5, ApiEnds
  <2>3. Kept(Api!Sets(h, t) \cup Api!Fails, K)
    BY <1>3, <1>10, <2>2, ApiEnds
  <2> QED
    BY <2>2, <2>3 DEF Api!MaySet
<1> QED
  BY <1>3, <1>5, <1>7, <1>9, <1>10, <1>11, ApiEnds

\* What StringApi lets a call do concerns only the handles that it is given.
LEMMA AllowedKept ==
    ASSUME Good, NEW K, NEW c, GivenOnly(c, K)
    PROVE  Kept(Api!Allowed(c), K)
<1>1. c[2] \in K /\ c[1] \in Methods
  BY DEF GivenOnly
<1>2. \A f, k, v : Api!Put(f, k, v) = Put(f, k, v)
  BY ApiEnds
<1>3. [h \in Live |-> TextAt(h)] = Texts(handle, heap)
  BY DEF Texts, TextAt, Live
<1>4. CASE c[1] \in Making
  <2>1. c[3] \in K
    BY <1>4 DEF GivenOnly
  <2>2. CASE c[1] \in {"clone", "to_other", "to_ascii_case", "to_case"}
    <3>1. PICK t : Api!Allowed(c) \in {Api!Sets(c[3], t), Api!MaySet(c[3], t)}
      BY <2>2 DEF Api!Allowed
    <3>2. Kept(Api!Sets(c[3], t), K) /\ Kept(Api!MaySet(c[3], t), K)
      BY <2>1, EndsKept
    <3> QED
      BY <3>1, <3>2
  <2>3. CASE c[1] = "repeat"
    <3>1. Api!Allowed(c) = Api!Fails \/ \E t : Api!Allowed(c) = Api!MaySet(c[3], t)
      BY <2>3 DEF Api!Allowed, Api!Repeat_
    <3>2. Kept(Api!Fails, K) /\ \A t : Kept(Api!MaySet(c[3], t), K)
      BY <2>1, EndsKept
    <3> QED
      BY <3>1, <3>2
  <2>4. CASE c[1] = "split_off"
    <3>1. \/ Api!Allowed(c) = Api!Panics
          \/ \E s, t : Api!Allowed(c) =
                Api!Fails \cup Api!Ends("ok", <<>>, Put(Put(Texts(handle, heap), c[3], s), c[2], t))
      BY <1>2, <1>3, <2>4 DEF Api!Allowed, Api!SplitOff_
    <3>2. /\ Kept(Api!Panics, K) /\ Kept(Api!Fails, K)
          /\ \A s, t : Kept(Api!Ends("ok", <<>>, Put(Put(Texts(handle, heap), c[3], s), c[2], t)), K)
      BY <1>1, <2>1, EndsKept
    <3> QED
      BY <3>1, <3>2, EndsKept
  <2> QED
    BY <1>4, <2>2, <2>3, <2>4 DEF Making
<1>5. CASE c[1] \in {"from_str", "from_static_str", "with_capacity", "clone_from", "reserve", "shrink_to",
                     "push_str", "write_fmt", "push", "clear", "make_ascii_case"}
  <2>1. PICK t : Api!Allowed(c) \in {Api!Sets(c[2], t), Api!MaySet(c[2], t)}
    BY <1>5 DEF Api!Allowed
  <2>2. Kept(Api!Sets(c[2], t), K) /\ Kept(Api!MaySet(c[2], t), K)
    BY <1>1, EndsKept
  <2> QED
    BY <2>1, <2>2
<1>6. CASE c[1] \in {"drop", "into"}
  <2>1. \/ Api!Allowed(c) = Api!Ends("ok", <<>>, Api!Without(c[2]))
        \/ Api!Allowed(c) = Api!Unchanged \cup Api!Ends("err", <<>>, Api!Without(c[2]))
    BY <1>6 DEF Api!Allowed
  <2>2. /\ Kept(Api!Unchanged, K)
        /\ \A ret : Kept(Api!Ends(ret, <<>>, Api!Without(c[2])), K)
    BY <1>1, EndsKept
  <2> QED
    BY <2>1, <2>2, EndsKept
<1>7. CASE c[1] \in {"insert", "truncate", "replace_range", "extend_from_within"}
  <2>1. \/ Api!Allowed(c) \in {Api!Panics, Api!Unchanged}
        \/ \E t : Api!Allowed(c) = Api!MaySet(c[2], t)
    BY <1>7 DEF Api!Allowed, Api!Insert, Api!Truncate_, Api!ReplaceRange_, Api!ExtendFromWithin_
  <2>2. Kept(Api!Panics, K) /\ Kept(Api!Unchanged, K) /\ \A t : Kept(Api!MaySet(c[2], t), K)
    BY <1>1, EndsKept
  <2> QED
    BY <2>1, <2>2
<1>8. CASE c[1] \in {"remove", "pop"}
  <2>1. \/ Api!Allowed(c) \in {Api!Panics, Api!Unchanged}
        \/ \E v, t : Api!Allowed(c) = Api!Fails \cup Api!Ends("ok", v, Put(Texts(handle, heap), c[2], t))
    BY <1>2, <1>3, <1>8 DEF Api!Allowed, Api!Remove_, Api!Pop_
  <2>2. /\ Kept(Api!Panics, K) /\ Kept(Api!Unchanged, K) /\ Kept(Api!Fails, K)
        /\ \A v, t : Kept(Api!Ends("ok", v, Put(Texts(handle, heap), c[2], t)), K)
    BY <1>1, EndsKept
  <2> QED
    BY <2>1, <2>2, EndsKept
<1>9. CASE c[1] = "retain"
  <2>1. \/ Api!Allowed(c) \in {Api!Panics, Api!Unchanged}
        \/ \E t : Api!Allowed(c) = Api!MaySet(c[2], t)
        \/ \E t : Api!Allowed(c) = Api!Fails \cup Api!Ends("panic", <<>>, Put(Texts(handle, heap), c[2], t))
    BY <1>2, <1>3, <1>9 DEF Api!Allowed, Api!Retained
  <2>2. /\ Kept(Api!Panics, K) /\ Kept(Api!Unchanged, K) /\ Kept(Api!Fails, K)
        /\ \A t : Kept(Api!MaySet(c[2], t), K)
        /\ \A t : Kept(Api!Ends("panic", <<>>, Put(Texts(handle, heap), c[2], t)), K)
    BY <1>1, EndsKept
  <2> QED
    BY <2>1, <2>2, EndsKept
<1> QED
  BY <1>1, <1>4, <1>5, <1>6, <1>7, <1>8, <1>9 DEF Methods

\* What a call reports is its name, its handle and its arguments.
LEMMA Reported ==
    ASSUME NEW call
    PROVE  /\ \A o, H : Return(call, o, H) => io'.call = call
           /\ \A h, S : Mutate(h, call, S) => io'.call = call
           /\ \A k, S : Make(k, call, S) => io'.call = call
           /\ \A h, S : Consume(h, S) => io'.call = <<"into", h>>
<1>1. ASSUME NEW c, NEW o, NEW H, Return(c, o, H) PROVE io'.call = c
  BY <1>1 DEF Return
<1>2. \A h, S : Mutate(h, call, S) => io'.call = call
  BY <1>1 DEF Mutate
<1>3. \A k, S : Make(k, call, S) => io'.call = call
  BY <1>1 DEF Make
<1>4. \A h, S : Consume(h, S) => io'.call = <<"into", h>>
  BY <1>1 DEF Consume
<1> QED
  BY <1>1, <1>2, <1>3, <1>4

\* A call on one handle names it.
LEMMA OneGiven ==
    ASSUME NEW K, NEW h \in K
    PROVE  /\ \A ty, s : FromText(h, ty, s) \/ FromStaticText(h, ty, s) => GivenOnly(io'.call, K)
           /\ \A n : WithRoom(h, n) \/ DoReserve(h, n) \/ DoShrinkTo(h, n) => GivenOnly(io'.call, K)
           /\ Drop(h) \/ IntoLeanStr(h) \/ IntoLeanString(h) \/ DoPop(h) \/ DoClear(h) =>
                 GivenOnly(io'.call, K)
           /\ \A s : DoPushStr(h, s) \/ DoPush(h, s) \/ DoWriteFmt(h, s) => GivenOnly(io'.call, K)
           /\ \A i : DoRemove(h, i) \/ DoTruncate(h, i) => GivenOnly(io'.call, K)
           /\ \A i, s : DoInsert(h, i, s) => GivenOnly(io'.call, K)
           /\ \A p : DoRetain(h, p) => GivenOnly(io'.call, K)
           /\ \A lo, hi : DoExtendFromWithin(h, lo, hi) => GivenOnly(io'.call, K)
           /\ \A lo, hi, s : DoReplaceRange(h, lo, hi, s) => GivenOnly(io'.call, K)
           /\ \A case : DoMakeAsciiCase(h, case) => GivenOnly(io'.call, K)
<1>1. ASSUME NEW c, c[1] \in Methods \ Making, c[2] = h PROVE io'.call = c => GivenOnly(io'.call, K)
  BY <1>1 DEF GivenOnly
<1>2. ASSUME NEW ty, NEW s, FromText(h, ty, s) \/ FromStaticText(h, ty, s) PROVE GivenOnly(io'.call, K)
  <2>1. io'.call \in {<<"from_str", h, s>>, <<"from_static_str", h, s>>}
    BY <1>2, Reported DEF FromText, FromStaticText
  <2> QED
    BY <1>1, <2>1 DEF Methods, Making
<1>3. ASSUME NEW n, WithRoom(h, n) \/ DoReserve(h, n) \/ DoShrinkTo(h, n) PROVE GivenOnly(io'.call, K)
  <2>1. io'.call \in {<<"with_capacity", h, n>>, <<"reserve", h, n>>, <<"shrink_to", h, n>>}
    BY <1>3, Reported DEF WithRoom, DoReserve, DoShrinkTo
  <2> QED
    BY <1>1, <2>1 DEF Methods, Making
<1>4. ASSUME Drop(h) \/ IntoLeanStr(h) \/ IntoLeanString(h) \/ DoPop(h) \/ DoClear(h)
      PROVE  GivenOnly(io'.call, K)
  <2>1. io'.call \in {<<"drop", h>>, <<"into", h>>, <<"pop", h>>, <<"clear", h>>}
    BY <1>4, Reported DEF Drop, IntoLeanStr, IntoLeanString, DoPop, DoClear
  <2> QED
    BY <1>1, <2>1 DEF Methods, Making
<1>5. ASSUME NEW s, DoPushStr(h, s) \/ DoPush(h, s) \/ DoWriteFmt(h, s) PROVE GivenOnly(io'.call, K)
  <2>1. io'.call \in {<<"push_str", h, s>>, <<"push", h, s>>, <<"write_fmt", h, s>>}
    BY <1>5, Reported DEF DoPushStr, DoPush, DoWriteFmt
  <2> QED
    BY <1>1, <2>1 DEF Methods, Making
<1>6. ASSUME NEW i, DoRemove(h, i) \/ DoTruncate(h, i) PROVE GivenOnly(io'.call, K)
  <2>1. io'.call \in {<<"remove", h, i>>, <<"truncate", h, i>>}
    BY <1>6, Reported DEF DoRemove, DoTruncate
  <2> QED
    BY <1>1, <2>1 DEF Methods, Making
<1>7. ASSUME NEW i, NEW s, DoInsert(h, i, s) PROVE GivenOnly(io'.call, K)
  <2>1. io'.call = <<"insert", h, i, s>>
    BY <1>7, Reported DEF DoInsert
  <2> QED
    BY <1>1, <2>1 DEF Methods, Making
<1>8. ASSUME NEW p, DoRetain(h, p) PROVE GivenOnly(io'.call, K)
  <2>1. io'.call = <<"retain", h, p>>
    BY <1>8, Reported DEF DoRetain
  <2> QED
    BY <1>1, <2>1 DEF Methods, Making
<1>9. ASSUME NEW lo, NEW hi, DoExtendFromWithin(h, lo, hi) PROVE GivenOnly(io'.call, K)
  <2>1. io'.call = <<"extend_from_within", h, lo, hi>>
    BY <1>9, Reported DEF DoExtendFromWithin
  <2> QED
    BY <1>1, <2>1 DEF Methods, Making
<1>10. ASSUME NEW lo, NEW hi, NEW s, DoReplaceRange(h, lo, hi, s) PROVE GivenOnly(io'.call, K)
  <2>1. io'.call = <<"replace_range", h, lo, hi, s>>
    BY <1>10, Reported DEF DoReplaceRange
  <2> QED
    BY <1>1, <2>1 DEF Methods, Making
<1>11. ASSUME NEW case, DoMakeAsciiCase(h, case) PROVE GivenOnly(io'.call, K)
  <2>1. io'.call = <<"make_ascii_case", h, case>>
    BY <1>11, Reported DEF DoMakeAsciiCase
  <2> QED
    BY <1>1, <2>1 DEF Methods, Making
<1> QED
  BY <1>2, <1>3, <1>4, <1>5, <1>6, <1>7, <1>8, <1>9, <1>10, <1>11

\* A call on two handles names both.
LEMMA TwoGiven ==
    ASSUME NEW K, NEW h \in K, NEW k \in K
    PROVE  /\ Clone(h, k) \/ CloneFrom(h, k) \/ ToOther(h, k) => GivenOnly(io'.call, K)
           /\ \A i : DoSplitOff(h, k, i) => GivenOnly(io'.call, K)
           /\ \A case : DoToAsciiCase(h, k, case) \/ DoToCase(h, k, case) => GivenOnly(io'.call, K)
           /\ \A n : DoRepeat(h, k, n) => GivenOnly(io'.call, K)
<1>1. ASSUME NEW c, c[1] \in Methods, c[2] = h, c[3] = k PROVE io'.call = c => GivenOnly(io'.call, K)
  BY <1>1 DEF GivenOnly
<1>2. ASSUME Clone(h, k) \/ CloneFrom(h, k) \/ ToOther(h, k) PROVE GivenOnly(io'.call, K)
  <2>1. io'.call \in {<<"clone", h, k>>, <<"clone_from", h, k>>, <<"to_other", h, k>>}
    <3>1. Clone(h, k) => io'.call = <<"clone", h, k>>
      BY Reported DEF Clone
    <3>2. CloneFrom(h, k) => io'.call = <<"clone_from", h, k>>
      BY Reported DEF CloneFrom
    <3>3. ToOther(h, k) => \E S : Make(k, <<"to_other", h, k>>, S)
      BY DEF ToOther
    <3> QED
      BY <1>2, <3>1, <3>2, <3>3, Reported
  <2> QED
    BY <1>1, <2>1 DEF Methods, Making
<1>3. ASSUME NEW i, DoSplitOff(h, k, i) PROVE GivenOnly(io'.call, K)
  <2>1. \E o, H : Return(<<"split_off", h, k, i>>, o, H)
    BY <1>3 DEF DoSplitOff
  <2>2. io'.call = <<"split_off", h, k, i>>
    BY <2>1, Reported
  <2> QED
    BY <1>1, <2>2 DEF Methods, Making
<1>4. ASSUME NEW case, DoToAsciiCase(h, k, case) \/ DoToCase(h, k, case) PROVE GivenOnly(io'.call, K)
  <2>1. DoToCase(h, k, case) => \E S : Make(k, <<"to_case", h, k, case>>, S)
    BY DEF DoToCase
  <2>2. DoToAsciiCase(h, k, case) => \E S : Make(k, <<"to_ascii_case", h, k, case>>, S)
    BY DEF DoToAsciiCase
  <2>3. io'.call \in {<<"to_ascii_case", h, k, case>>, <<"to_case", h, k, case>>}
    BY <1>4, <2>1, <2>2, Reported
  <2> QED
    BY <1>1, <2>3 DEF Methods, Making
<1>5. ASSUME NEW n, DoRepeat(h, k, n) PROVE GivenOnly(io'.call, K)
  <2>1. io'.call = <<"repeat", h, k, n>>
    BY <1>5, Reported DEF DoRepeat
  <2> QED
    BY <1>1, <2>1 DEF Methods, Making
<1> QED
  BY <1>2, <1>3, <1>4, <1>5

\* A call on handles of H is given no others, and leaves what the others show.
LEMMA OthersSee ==
    ASSUME Good, NEW H \in SUBSET Handles, CallOn(H)
    PROVE  \A b : b \notin H =>
              /\ b \in Live' <=> b \in Live
              /\ b \in Live => handle'[b] = handle[b] /\ AsBytes(handle'[b], heap') = TextAt(b)
<1>1. GivenOnly(io'.call, H)
  <2>1. PICK h \in H : CallOn({h}) \/ \E k \in H : CallOn({h, k})
    BY DEF CallOn
  <2> QED
    BY <2>1, OneGiven, TwoGiven DEF CallOn
<1>2. PICK c : Done(c, Api!Allowed(c))
  BY CallActs DEF Acts
<1>3. io'.call = c
  BY <1>2 DEF Done
<1>4. PICK e \in Api!Allowed(c) : Texts(handle', heap') = e.text
  BY <1>2 DEF Done
<1>5. Kept(Api!Allowed(c), H) /\ c[2] \in H
  BY <1>1, <1>3, AllowedKept DEF GivenOnly
<1>6. ASSUME NEW b, b \notin H
      PROVE  (b \in DOMAIN e.text <=> b \in Live) /\ (b \in Live => e.text[b] = TextAt(b))
  BY <1>5, <1>6 DEF Kept
<1>7. Live' = DOMAIN e.text /\ \A b \in Live' : AsBytes(handle'[b], heap') = e.text[b]
  BY <1>4 DEF Texts, Live
<1>8. \A b \in Live \cap Live' : b # c[2] => handle'[b] = handle[b]
  BY <1>2 DEF Done
<1> QED
  BY <1>5, <1>6, <1>7, <1>8

\* What is being built. Only a formatter goes on after a write has failed.
Jobs == [by : {"extend", "collect", "format", "decode"}, h : Handles, item : {"char", "str", "owned"},
         into : Types, asked : Seq(Bytes), failed : BOOLEAN]
IsJob(j) == j = NoJob \/ (j \in Jobs /\ (j.failed => j.by = "format"))

\* The text under construction is there, or gone after a failed write.
Holds(j, H, m) == j # NoJob =>
    IF j.failed THEN j.h \notin DOMAIN H
    ELSE j.h \in DOMAIN H /\ H[j.h].ty = "LeanString" /\ AsBytes(H[j.h], m) = j.asked

\* The state between two steps of a build.
BuildGood == Good /\ IsJob(job) /\ Holds(job, handle, heap)

\* What FormatReports says of a step.
Reports == job.by = "format" /\ job' = NoJob =>
    IF io'.ret = "ok"
    THEN handle'[job.h].ty = job.into /\ AsBytes(handle'[job.h], heap') = job.asked /\ ~job.failed
    ELSE job.h \notin Live'

\* A step of a build is good.
BuildActs == BuildGood' /\ Reports /\ \E c : Ended(c, Api!Allowed(c)) /\ Quiet(c)

\* What Holds says is BuiltFromPieces.
LEMMA HoldsIs ==
    /\ Holds(job, handle, heap) <=> BuiltFromPieces
    /\ job \in Jobs => job # NoJob
<1>1. job \in Jobs => job # NoJob
  BY DEF Jobs, NoJob
<1> QED
  BY <1>1 DEF Holds, BuiltFromPieces, Strings, Live, TextAt

\* A build under way: its handle and its text.
LEMMA JobFacts ==
    ASSUME BuildGood, job # NoJob, ~job.failed
    PROVE  /\ job \in Jobs /\ job.h \in Handles /\ job.h \in Live /\ handle[job.h].ty = "LeanString"
           /\ IsHeapOf(heap) /\ Valid(handle[job.h], heap) /\ AsBytes(handle[job.h], heap) = job.asked
           /\ job.asked \in Seq(Bytes) /\ IsUtf8(job.asked) /\ Texts(handle, heap)[job.h] = job.asked
           /\ At(handle, job.h) = handle[job.h] /\ Sound(handle, heap)
<1>1. /\ job \in Jobs /\ job.h \in Handles /\ job.h \in Live /\ handle[job.h].ty = "LeanString"
      /\ AsBytes(handle[job.h], heap) = job.asked /\ job.asked \in Seq(Bytes)
  BY DEF BuildGood, IsJob, Holds, Live, Jobs
<1>2. Good /\ Sound(handle, heap)
  BY DEF BuildGood, Good
<1>3. /\ IsHeapOf(heap) /\ Valid(handle[job.h], heap) /\ TextAt(job.h) = AsBytes(handle[job.h], heap)
      /\ IsUtf8(TextAt(job.h)) /\ Texts(handle, heap)[job.h] = TextAt(job.h)
  BY <1>1, <1>2, GoodHandle
<1>4. At(handle, job.h) = handle[job.h]
  BY <1>1 DEF At, Live
<1> QED
  BY <1>1, <1>2, <1>3, <1>4

\* The caller's own calls do not touch the text under construction.
LEMMA CallBuilds ==
    ASSUME BuildGood, Call
    PROVE  BuildActs
<1>1. PICK H : H = (IF job = NoJob THEN Handles ELSE Handles \ {job.h}) /\ H \in SUBSET Handles
  OBVIOUS
<1>2. Good /\ CallOn(H) /\ job' = job
  BY <1>1 DEF BuildGood, Call
<1>3. Acts
  BY <1>1, <1>2, CallActs
<1>4. PICK c : Done(c, Api!Allowed(c)) /\ Quiet(c)
  BY <1>3 DEF Acts
<1>5. Ended(c, Api!Allowed(c)) /\ Good'
  BY <1>4 DEF Done, Ended
<1>6. IsJob(job')
  BY <1>2 DEF BuildGood
<1>7. Holds(job', handle', heap')
  <2>1. SUFFICES ASSUME job # NoJob PROVE Holds(job', handle', heap')
    BY <1>2 DEF Holds
  <2>2. job.h \notin H
    BY <1>1, <2>1
  <2>3. /\ job.h \in Live' <=> job.h \in Live
        /\ job.h \in Live => handle'[job.h] = handle[job.h] /\ AsBytes(handle'[job.h], heap') = TextAt(job.h)
    BY <1>1, <1>2, <2>2, OthersSee
  <2> QED
    BY <1>2, <2>3 DEF BuildGood, Holds, Live, TextAt
<1>8. Reports
  <2>1. job.by = "format" => job # NoJob
    BY DEF NoJob
  <2> QED
    BY <1>2, <2>1 DEF Reports
<1> QED
  BY <1>4, <1>5, <1>6, <1>7, <1>8 DEF BuildActs, BuildGood

\* A step of the builder ends as StringApi says.
LEMMA Steps ==
    ASSUME NEW call, call[1] \in {"begin", "begin_with", "item", "item_of", "stop", "finish"},
           NEW ret, NEW m, NEW H, NEW j, Step(call, ret, m, H, j),
           Sound(H, m), DOMAIN H \subseteq Handles, IsJob(j), Holds(j, H, m), Reports,
           End(ret, <<>>, Texts(H, m)) \in Api!Allowed(call)
    PROVE  BuildActs
<1>1. handle' = H /\ heap' = m /\ job' = j /\ io' = [call |-> call, ret |-> ret, val |-> <<>>]
  BY DEF Step
<1>2. BuildGood' 
  BY <1>1 DEF BuildGood, Good, Live
<1>3. Ended(call, Api!Allowed(call))
  <2>1. PICK e \in Api!Allowed(call) : e = End(ret, <<>>, Texts(H, m))
    OBVIOUS
  <2>2. e.text = Texts(H, m) /\ e.ret = ret /\ e.val = <<>>
    BY <2>1 DEF End
  <2> QED
    BY <1>1, <1>2, <2>2 DEF Ended, BuildGood
<1>4. Quiet(call)
  BY OtherCalls
<1> QED
  BY <1>2, <1>3, <1>4 DEF BuildActs

\* Most steps leave no formatter that has ended.
LEMMA ReportsIf ==
    ASSUME job.by # "format" \/ job' # NoJob
    PROVE  Reports
BY DEF Reports

\* The ways a piece may end.
LEMMA ApiStops ==
    ASSUME NEW h
    PROVE  /\ \A G : \A ret \in {"err", "panic"} : \A D \in {G, G \cup {h}} :
                 End(ret, <<>>, Cut(Texts(handle, heap), D)) \in Api!Stops(h, G)
           /\ Cut(Texts(handle, heap), {}) = Texts(handle, heap)
<1>1. [k \in Live |-> TextAt(k)] = Texts(handle, heap)
  BY DEF Texts, TextAt, Live
<1>2. ASSUME NEW G, NEW ret \in {"err", "panic"}, NEW D \in {G, G \cup {h}}
      PROVE  End(ret, <<>>, Cut(Texts(handle, heap), D)) \in Api!Stops(h, G)
  <2>1. PICK T : T = Texts(handle, heap) /\ T = [k \in Live |-> TextAt(k)]
    BY <1>1
  <2>2. Api!Stops(h, G) = [ret : {"err", "panic"}, val : {<<>>},
                           text : {[k \in DOMAIN T \ X |-> T[k]] : X \in {G, G \cup {h}}}]
    BY <2>1 DEF Api!Stops
  <2>3. Cut(T, D) \in {[k \in DOMAIN T \ X |-> T[k]] : X \in {G, G \cup {h}}}
    BY DEF Cut
  <2> QED
    BY <2>1, <2>2, <2>3 DEF End
<1>3. Cut(Texts(handle, heap), {}) = Texts(handle, heap)
  BY DEF Cut, Texts
<1> QED
  BY <1>2, <1>3

\* The builder gives up: an extended text stays, any other one is dropped.
LEMMA StopBuilds ==
    ASSUME BuildGood, job # NoJob, ~job.failed,
           NEW call, call[1] \in {"begin", "begin_with", "item", "item_of", "stop", "finish"},
           NEW ret \in {"err", "panic"}, NEW r, NEW m, NEW G, job.h \notin G,
           NEW J, J = Put(Without(G), job.h, r), Sound(J, m), Texts(J, m) = Cut(Texts(handle, heap), G),
           Api!Stops(job.h, G) \subseteq Api!Allowed(call), Stop(call, ret, r, m, G)
    PROVE  BuildActs
<1>1. job.h \in Live /\ job.h \in Handles /\ Live \subseteq Handles
  BY JobFacts DEF BuildGood, Good
<1>2. Without(G) = Cut(handle, G) /\ DOMAIN Without(G) = Live \ G
  BY DEF Without, Cut, Live
<1>3. DOMAIN J = (Live \ G) \cup {job.h} /\ J[job.h] = r /\ \A k \in Live \ (G \cup {job.h}) : J[k] = handle[k]
  BY <1>2 DEF Put, Cut, Live
<1>4. IsJob(NoJob) /\ \A H, n : Holds(NoJob, H, n)
  BY DEF IsJob, Holds
<1>5. \A D \in {G, G \cup {job.h}} : End(ret, <<>>, Cut(Texts(handle, heap), D)) \in Api!Allowed(call)
  BY ApiStops
<1>6. CASE job.by = "extend"
  <2>1. Step(call, ret, m, J, NoJob)
    BY <1>6 DEF Stop
  <2>2. Reports
    BY <1>6, ReportsIf
  <2>3. DOMAIN J \subseteq Handles
    BY <1>1, <1>3
  <2>4. End(ret, <<>>, Texts(J, m)) \in Api!Allowed(call)
    BY <1>5
  <2> QED
    BY ONLY call[1] \in {"begin", "begin_with", "item", "item_of", "stop", "finish"},
            Sound(J, m), <1>4, <2>1, <2>2, <2>3, <2>4, Steps
<1>7. CASE job.by # "extend"
  <2>1. PICK d \in DropIn(r, m) : Step(call, DropRet(d, ret), d.m, Without(G \cup {job.h}), NoJob)
    BY <1>7 DEF Stop
  <2>2. IsHeapOf(m) /\ Valid(r, m)
    BY <1>3 DEF Sound
  <2>3. d.ret = "ok" /\ Trade(r, m, Nothing, d.m)
    BY <2>1, <2>2, DropInIs
  <2>4. PICK K : K = Cut(J, {job.h})
    OBVIOUS
  <2>5. PICK h, n : h = job.h /\ n = d.m /\ K = Cut(J, {h}) /\ h \in DOMAIN J /\ Trade(J[h], m, Nothing, n)
    BY <1>3, <2>3, <2>4
  <2>6. Sound(K, d.m) /\ Texts(K, d.m) = Cut(Texts(J, m), {job.h}) /\ DOMAIN K = DOMAIN J \ {job.h}
    <3>1. Sound(Cut(J, {h}), n) /\ Texts(Cut(J, {h}), n) = Cut(Texts(J, m), {h})
      BY ONLY Sound(J, m), <2>5, CutSound
    <3>2. DOMAIN K = DOMAIN J \ {h}
      BY <2>5 DEF Cut
    <3> QED
      BY <2>5, <3>1, <3>2
  <2>7. K = Without(G \cup {job.h})
    BY <1>3, <2>4 DEF Cut, Without
  <2>8. Texts(K, d.m) = Cut(Texts(handle, heap), G \cup {job.h})
    BY <2>6 DEF Cut
  <2>9. Step(call, ret, d.m, K, NoJob)
    BY <2>1, <2>3, <2>7 DEF DropRet
  <2>10. DOMAIN K \subseteq Handles /\ job.h \notin DOMAIN K
    BY <1>1, <1>3, <2>6
  <2>11. Reports
    <3>1. io'.ret = ret /\ Live' = DOMAIN K
      BY <2>9 DEF Step, Live
    <3> QED
      BY <2>10, <3>1 DEF Reports
  <2>12. End(ret, <<>>, Texts(K, d.m)) \in Api!Allowed(call)
    BY <1>5, <2>8
  <2> QED
    BY ONLY call[1] \in {"begin", "begin_with", "item", "item_of", "stop", "finish"},
            <1>4, <2>6, <2>9, <2>10, <2>11, <2>12, Steps
<1> QED
  BY <1>6, <1>7

\* The builder gives up with its text as it was.
LEMMA StopAsItIs ==
    ASSUME BuildGood, job # NoJob, ~job.failed,
           NEW call, call[1] \in {"begin", "begin_with", "item", "item_of", "stop", "finish"},
           NEW ret \in {"err", "panic"}, NEW m, Trade(handle[job.h], heap, handle[job.h], m),
           AsBytes(handle[job.h], m) = job.asked,
           Api!Stops(job.h, {}) \subseteq Api!Allowed(call), Stop(call, ret, handle[job.h], m, {})
    PROVE  BuildActs
<1>1. PICK J : J = Put(handle, job.h, handle[job.h])
  OBVIOUS
<1>2. /\ Sound(handle, heap) /\ Trade(At(handle, job.h), heap, handle[job.h], m) /\ job.h \in Live
      /\ Texts(handle, heap)[job.h] = job.asked /\ IsUtf8(job.asked)
  BY JobFacts
<1>3. Sound(J, m) /\ Texts(J, m) = Put(Texts(handle, heap), job.h, job.asked)
  <2>1. PICK h, q, t : h = job.h /\ q = handle[job.h] /\ t = job.asked
    OBVIOUS
  <2>2. J = Put(handle, h, q) /\ Trade(At(handle, h), heap, q, m) /\ AsBytes(q, m) = t /\ IsUtf8(t)
    BY <1>1, <1>2, <2>1
  <2>3. Sound(Put(handle, h, q), m) /\ Texts(Put(handle, h, q), m) = Put(Texts(handle, heap), h, t)
    BY ONLY <1>2, <2>2, PutSound
  <2> QED
    BY <2>1, <2>2, <2>3
<1>4. DOMAIN Texts(handle, heap) = Live
  BY DEF Texts, Live
<1>5. Texts(J, m) = Texts(handle, heap)
  <2>1. Put(Texts(handle, heap), job.h, job.asked) = [x \in Live |-> Texts(handle, heap)[x]]
    BY <1>2, <1>4 DEF Put
  <2> QED
    BY <1>3, <2>1 DEF Texts, Live
<1>6. Texts(J, m) = Cut(Texts(handle, heap), {})
  BY <1>5, ApiStops
<1>7. J = Put(Without({}), job.h, handle[job.h])
  BY <1>1 DEF Put, Without, Live
<1> QED
  BY <1>3, <1>6, <1>7, StopBuilds

\* One piece more was asked for.
LEMMA AskedIs ==
    ASSUME job \in Jobs, NEW s \in Seq(Bytes)
    PROVE  /\ Asked(s) \in Jobs /\ Asked(s) # NoJob /\ Asked(s).h = job.h /\ Asked(s).by = job.by
           /\ Asked(s).failed = job.failed /\ Asked(s).asked = job.asked \o s
<1>1. job.asked \o s \in Seq(Bytes)
  BY DEF Jobs
<1>2. Asked(s) = [job EXCEPT !.asked = job.asked \o s]
  BY DEF Asked
<1>3. Asked(s) \in Jobs /\ Asked(s).h = job.h /\ Asked(s).by = job.by
      /\ Asked(s).failed = job.failed /\ Asked(s).asked = job.asked \o s
  BY <1>1, <1>2 DEF Jobs
<1>4. Asked(s) # NoJob
  BY <1>3 DEF Jobs, NoJob
<1> QED
  BY <1>3, <1>4

\* A piece was pushed, and is part of the text.
LEMMA Pushed ==
    ASSUME BuildGood, job # NoJob, ~job.failed, NEW s \in Seq(Bytes), IsUtf8(s),
           NEW o, Gets(o, handle[job.h], heap, "LeanString", job.asked \o s),
           NEW J, J = Put(handle, job.h, o.r)
    PROVE  /\ o.ret = "ok" /\ Sound(J, o.m) /\ DOMAIN J = Live
           /\ Texts(J, o.m) = Put(Texts(handle, heap), job.h, job.asked \o s)
           /\ J[job.h] = o.r /\ \A g \in Live \ {job.h} : J[g] = handle[g]
           /\ IsJob(Asked(s)) /\ Holds(Asked(s), J, o.m) /\ Asked(s) # NoJob
<1>1. /\ job \in Jobs /\ job.h \in Live /\ At(handle, job.h) = handle[job.h] /\ Sound(handle, heap)
      /\ job.asked \in Seq(Bytes) /\ IsUtf8(job.asked)
  BY JobFacts
<1>2. /\ o.ret = "ok" /\ o.r.ty = "LeanString" /\ AsBytes(o.r, o.m) = job.asked \o s
      /\ Trade(At(handle, job.h), heap, o.r, o.m)
  BY <1>1, GetsFacts
<1>3. PICK t : t = job.asked \o s /\ IsUtf8(t)
  BY <1>1, JoinUtf8
<1>4. /\ Sound(J, o.m) /\ Texts(J, o.m) = Put(Texts(handle, heap), job.h, t)
      /\ DOMAIN J = DOMAIN handle \cup {job.h} /\ J[job.h] = o.r
      /\ \A g \in DOMAIN handle \ {job.h} : J[g] = handle[g]
  <2>1. PICK h, q, n : h = job.h /\ q = o.r /\ n = o.m
    OBVIOUS
  <2>2. J = Put(handle, h, q)
    BY <2>1
  <2>3. Sound(handle, heap) /\ Trade(At(handle, h), heap, q, n) /\ AsBytes(q, n) = t /\ IsUtf8(t)
    BY <1>1, <1>2, <1>3, <2>1
  <2>4. Sound(Put(handle, h, q), n) /\ Texts(Put(handle, h, q), n) = Put(Texts(handle, heap), h, t)
    BY ONLY <2>3, PutSound
  <2>5. DOMAIN J = DOMAIN handle \cup {h} /\ J[h] = q /\ \A g \in DOMAIN handle \ {h} : J[g] = handle[g]
    BY <2>2 DEF Put
  <2> QED
    BY <2>1, <2>2, <2>4, <2>5
<1>5. IsJob(Asked(s)) /\ Holds(Asked(s), J, o.m) /\ Asked(s) # NoJob
  BY <1>1, <1>2, <1>4, AskedIs DEF IsJob, Holds
<1> QED
  BY <1>1, <1>2, <1>3, <1>4, <1>5 DEF Live

\* What StringApi lets a piece do.
LEMMA ItemAllowed ==
    ASSUME BuildGood, job # NoJob, ~job.failed, NEW s, NEW call, call = <<"item", job.h, s>>
    PROVE  /\ End("ok", <<>>, Put(Texts(handle, heap), job.h, job.asked \o s)) \in Api!Allowed(call)
           /\ Api!Stops(job.h, {}) \subseteq Api!Allowed(call) /\ call[1] = "item"
<1>1. job.h \in Live /\ Texts(handle, heap)[job.h] = job.asked
  BY JobFacts
<1>2. [k \in Live |-> TextAt(k)] = Texts(handle, heap)
  BY DEF Texts, TextAt, Live
<1>3. call[1] = "item" /\ call[2] = job.h /\ call[3] = s
  OBVIOUS
<1>4. PICK t : t = Texts(handle, heap)[job.h] \o s /\ t = job.asked \o s
  BY <1>1
<1>5. Api!Allowed(call) = Api!Sets(job.h, t) \cup Api!Stops(job.h, {})
  BY <1>2, <1>3, <1>4 DEF Api!Allowed
<1>6. Api!Sets(job.h, t) = {End("ok", <<>>, Put(Texts(handle, heap), job.h, t))}
  BY ApiEnds
<1> QED
  BY <1>3, <1>4, <1>5, <1>6

\* A piece was pushed.
LEMMA PushedBuilds ==
    ASSUME BuildGood, job # NoJob, ~job.failed, NEW s \in Seq(Bytes), IsUtf8(s),
           NEW o, Gets(o, handle[job.h], heap, "LeanString", job.asked \o s),
           NEW call, call = <<"item", job.h, s>>,
           Step(call, o.ret, o.m, Put(handle, job.h, o.r), Asked(s))
    PROVE  BuildActs
<1>1. PICK J : J = Put(handle, job.h, o.r)
  OBVIOUS
<1>2. /\ o.ret = "ok" /\ Sound(J, o.m) /\ DOMAIN J = Live
      /\ Texts(J, o.m) = Put(Texts(handle, heap), job.h, job.asked \o s)
      /\ IsJob(Asked(s)) /\ Holds(Asked(s), J, o.m) /\ Asked(s) # NoJob
  BY <1>1, Pushed
<1>3. PICK n, j : n = o.m /\ j = Asked(s) /\ Step(call, "ok", n, J, j)
  BY <1>1, <1>2
<1>4. Reports
  BY <1>2, <1>3, ReportsIf DEF Step
<1>5. DOMAIN J \subseteq Handles
  BY <1>2 DEF BuildGood, Good
<1>6. End("ok", <<>>, Texts(J, n)) \in Api!Allowed(call) /\ call[1] = "item"
  BY <1>2, <1>3, ItemAllowed
<1>7. Sound(J, n) /\ IsJob(j) /\ Holds(j, J, n)
  BY <1>2, <1>3
<1>8. call[1] \in {"begin", "begin_with", "item", "item_of", "stop", "finish"} /\ Step(call, "ok", n, J, j)
  BY <1>3, <1>6
<1>9. End("ok", <<>>, Texts(J, n)) \in Api!Allowed(call)
  BY <1>6
<1> QED
  BY ONLY <1>4, <1>5, <1>7, <1>8, <1>9, Steps

\* A piece is pushed, or the builder gives up.
LEMMA PieceBuilds ==
    ASSUME BuildGood, job # NoJob, ~job.failed, NEW s \in Seq(Bytes), IsUtf8(s),
           NEW o \in PushStr(handle[job.h], heap, s) \cup PushChar(handle[job.h], heap, s),
           NEW call, call = <<"item", job.h, s>>,
           IF o.ret = "err" THEN Stop(call, "panic", o.r, o.m, {})
           ELSE Step(call, o.ret, o.m, Put(handle, job.h, o.r), Asked(s))
    PROVE  BuildActs
<1>1. /\ IsHeapOf(heap) /\ Valid(handle[job.h], heap) /\ handle[job.h].ty = "LeanString"
      /\ AsBytes(handle[job.h], heap) = job.asked
  BY JobFacts
<1>2. Edits(o, handle[job.h], heap, job.asked \o s)
  BY <1>1, PushIs
<1>3. CASE Gets(o, handle[job.h], heap, "LeanString", job.asked \o s)
  <2>1. Step(call, o.ret, o.m, Put(handle, job.h, o.r), Asked(s))
    BY <1>3, GetsFacts
  <2> QED
    BY <1>3, <2>1, PushedBuilds
<1>4. CASE Fails(o, handle[job.h], heap)
  <2>1. o.ret = "err" /\ o.r = handle[job.h] /\ o.m = heap
    BY <1>4, FailsFacts
  <2>2. Stop(call, "panic", handle[job.h], heap, {}) /\ Trade(handle[job.h], heap, handle[job.h], heap)
    BY <1>1, <2>1, TradeSelf
  <2>3. Api!Stops(job.h, {}) \subseteq Api!Allowed(call) /\ call[1] = "item"
    BY ItemAllowed
  <2> QED
    BY <1>1, <2>2, <2>3, StopAsItIs
<1> QED
  BY <1>1, <1>2, <1>3, <1>4 DEF Edits

\* Builds other than by a formatter have no failed write behind them.
LEMMA Unfailed ==
    ASSUME BuildGood, job.by \in {"extend", "collect", "decode"}
    PROVE  job # NoJob /\ ~job.failed /\ job.by # "format"
BY DEF BuildGood, IsJob, NoJob

\* The loops over push and push_str.
LEMMA ItemBuilds ==
    ASSUME BuildGood, NEW s \in Args, Item(s)
    PROVE  BuildActs
<1>1. job # NoJob /\ ~job.failed
  BY Unfailed DEF Item
<1>2. s \in Seq(Bytes) /\ IsUtf8(s)
  BY ArgsAssumption
<1>3. PICK call : call = <<"item", job.h, s>>
  OBVIOUS
<1>4. PICK o \in PushStr(handle[job.h], heap, s) \cup PushChar(handle[job.h], heap, s) :
         IF o.ret = "err" THEN Stop(call, "panic", o.r, o.m, {})
         ELSE Step(call, o.ret, o.m, Put(handle, job.h, o.r), Asked(s))
  BY <1>3 DEF Item
<1> QED
  BY <1>1, <1>2, <1>3, <1>4, PieceBuilds

\* What StringApi lets a builder do that stops.
LEMMA StopAllowed ==
    ASSUME NEW h, NEW call, call = <<"stop", h>>
    PROVE  Api!Stops(h, {}) \subseteq Api!Allowed(call) /\ call[1] = "stop"
<1>1. call[1] = "stop" /\ call[2] = h
  OBVIOUS
<1> QED
  BY <1>1 DEF Api!Allowed

\* The builder stops where it is.
LEMMA StoppedBuilds ==
    ASSUME BuildGood, job # NoJob, ~job.failed, NEW ret \in {"err", "panic"},
           Stop(<<"stop", job.h>>, ret, handle[job.h], heap, {})
    PROVE  BuildActs
<1>1. /\ IsHeapOf(heap) /\ Valid(handle[job.h], heap) /\ AsBytes(handle[job.h], heap) = job.asked
  BY JobFacts
<1>2. Trade(handle[job.h], heap, handle[job.h], heap)
  BY <1>1, TradeSelf
<1>3. PICK call : call = <<"stop", job.h>>
  OBVIOUS
<1>4. Api!Stops(job.h, {}) \subseteq Api!Allowed(call) /\ call[1] = "stop"
  BY <1>3, StopAllowed
<1> QED
  BY <1>1, <1>2, <1>3, <1>4, StopAsItIs

\* Input that is not a character.
LEMMA MalformedBuilds ==
    ASSUME BuildGood, Malformed
    PROVE  BuildActs
<1>1. job # NoJob /\ ~job.failed
  BY Unfailed DEF Malformed
<1>2. PICK s : s = Replacement
  OBVIOUS
<1>3. s \in Seq(Bytes) /\ IsUtf8(s)
  <2>1. s = <<"e1", "e2">> /\ Len(s) = 2 /\ s[1] = "e1" /\ s[2] = "e2"
    BY <1>2 DEF Replacement
  <2>2. s \in Seq(Bytes)
    BY <2>1 DEF Bytes, Ascii, Trailing
  <2> QED
    BY <2>1, <2>2 DEF IsUtf8, Ascii, Trailing
<1>4. CASE Stop(<<"stop", job.h>>, "err", handle[job.h], heap, {})
  BY <1>1, <1>4, StoppedBuilds
<1>5. CASE \E o \in PushChar(handle[job.h], heap, s) :
             IF o.ret = "err" THEN Stop(<<"item", job.h, s>>, "panic", o.r, o.m, {})
             ELSE Step(<<"item", job.h, s>>, o.ret, o.m, Put(handle, job.h, o.r), Asked(s))
  <2>1. PICK call : call = <<"item", job.h, s>>
    OBVIOUS
  <2>2. PICK o \in PushStr(handle[job.h], heap, s) \cup PushChar(handle[job.h], heap, s) :
           IF o.ret = "err" THEN Stop(call, "panic", o.r, o.m, {})
           ELSE Step(call, o.ret, o.m, Put(handle, job.h, o.r), Asked(s))
    BY <1>5, <2>1
  <2> QED
    BY <1>1, <1>3, <2>1, <2>2, PieceBuilds
<1> QED
  BY <1>2, <1>4, <1>5 DEF Malformed

\* What StringApi lets a builder do that has no more pieces.
LEMMA FinishAllowed ==
    ASSUME NEW h, NEW call, call = <<"finish", h>>
    PROVE  /\ Api!Stops(h, {}) \subseteq Api!Allowed(call) /\ call[1] = "finish"
           /\ End("ok", <<>>, Texts(handle, heap)) \in Api!Allowed(call)
<1>1. call[1] = "finish" /\ call[2] = h
  OBVIOUS
<1>2. Api!Allowed(call) = Api!Unchanged \cup Api!Stops(h, {})
  BY <1>1 DEF Api!Allowed
<1> QED
  BY <1>1, <1>2, ApiEnds

\* A formatter after a failed write: nothing is left to change.
LEMMA FailedBuilds ==
    ASSUME BuildGood, job # NoJob, job.failed, NEW j, IsJob(j), Holds(j, handle, heap),
           NEW ret \in {"err", "panic"}, NEW call, call \in {<<"stop", job.h>>, <<"finish", job.h>>},
           Step(call, ret, heap, handle, j)
    PROVE  BuildActs
<1>1. Sound(handle, heap) /\ DOMAIN handle \subseteq Handles /\ job.h \notin Live
  BY DEF BuildGood, Good, Live, Holds
<1>2. End(ret, <<>>, Texts(handle, heap)) \in Api!Stops(job.h, {})
  BY ApiStops
<1>3. /\ End(ret, <<>>, Texts(handle, heap)) \in Api!Allowed(call)
      /\ call[1] \in {"begin", "begin_with", "item", "item_of", "stop", "finish"}
  BY <1>2, StopAllowed, FinishAllowed
<1>4. Reports
  <2>1. io'.ret = ret /\ Live' = Live
    BY DEF Step, Live
  <2> QED
    BY <1>1, <2>1 DEF Reports
<1> QED
  BY <1>1, <1>3, <1>4, Steps

\* The first write of a formatter that fails takes the text with it.
LEMMA WriteFails ==
    ASSUME BuildGood, job # NoJob, ~job.failed, job.by = "format", NEW s \in Seq(Bytes),
           NEW d \in DropIn(handle[job.h], heap), NEW call, call = <<"item", job.h, s>>,
           Step(call, DropRet(d, "err"), d.m, Without({job.h}), [Asked(s) EXCEPT !.failed = TRUE])
    PROVE  BuildActs
<1>1. /\ job \in Jobs /\ job.h \in Live /\ Sound(handle, heap)
      /\ IsHeapOf(heap) /\ Valid(handle[job.h], heap)
  BY JobFacts
<1>2. d.ret = "ok" /\ Trade(handle[job.h], heap, Nothing, d.m)
  BY <1>1, DropInIs
<1>3. PICK h, n, J : h = job.h /\ n = d.m /\ J = Cut(handle, {h})
  OBVIOUS
<1>4. Sound(J, n) /\ Texts(J, n) = Cut(Texts(handle, heap), {h})
  <2>1. Sound(handle, heap) /\ h \in DOMAIN handle /\ Trade(handle[h], heap, Nothing, n)
    BY <1>1, <1>2, <1>3 DEF Live
  <2>2. Sound(Cut(handle, {h}), n) /\ Texts(Cut(handle, {h}), n) = Cut(Texts(handle, heap), {h})
    BY ONLY <2>1, CutSound
  <2> QED
    BY <1>3, <2>2
<1>5. DOMAIN J = Live \ {h} /\ J = Without({job.h})
  BY <1>3 DEF Cut, Without, Live
<1>6. PICK j : j = [Asked(s) EXCEPT !.failed = TRUE]
  OBVIOUS
<1>7. IsJob(j) /\ Holds(j, J, n) /\ j # NoJob
  <2>1. Asked(s) \in Jobs /\ Asked(s).h = job.h /\ Asked(s).by = "format"
    BY <1>1, AskedIs
  <2>2. j \in Jobs /\ j.h = job.h /\ j.by = "format" /\ j.failed = TRUE
    BY <1>6, <2>1 DEF Jobs
  <2> QED
    BY <1>3, <1>5, <2>2 DEF IsJob, Holds, NoJob
<1>8. Step(call, "err", n, J, j)
  BY <1>2, <1>3, <1>5, <1>6 DEF DropRet
<1>9. Reports
  BY <1>7, <1>8, ReportsIf DEF Step
<1>10. DOMAIN J \subseteq Handles
  BY <1>5 DEF BuildGood, Good
<1>11. /\ End("err", <<>>, Texts(J, n)) \in Api!Allowed(call)
       /\ call[1] \in {"begin", "begin_with", "item", "item_of", "stop", "finish"}
  <2>1. {h} = {} \cup {job.h}
    BY <1>3
  <2>2. End("err", <<>>, Cut(Texts(handle, heap), {h})) \in Api!Stops(job.h, {})
    BY <2>1, ApiStops
  <2> QED
    BY <1>4, <2>2, ItemAllowed
<1> QED
  BY ONLY <1>4, <1>7, <1>8, <1>9, <1>10, <1>11, Steps

\* Writer::write_str.
LEMMA WriteBuilds ==
    ASSUME BuildGood, NEW s \in Args, WriteStr(s)
    PROVE  BuildActs
<1>1. job.by = "format" /\ job # NoJob /\ job \in Jobs
  BY DEF BuildGood, IsJob, NoJob, WriteStr
<1>2. s \in Seq(Bytes) /\ IsUtf8(s)
  BY ArgsAssumption
<1>3. PICK call : call = <<"item", job.h, s>>
  OBVIOUS
<1>4. CASE job.failed
  <2>1. Step(<<"stop", job.h>>, "err", heap, handle, Asked(s))
    BY <1>4 DEF WriteStr
  <2>2. IsJob(Asked(s)) /\ Holds(Asked(s), handle, heap)
    BY <1>1, <1>2, <1>4, AskedIs DEF IsJob, Holds, BuildGood
  <2> QED
    BY <1>1, <1>4, <2>1, <2>2, FailedBuilds
<1>5. CASE ~job.failed
  <2>1. PICK o \in PushStr(handle[job.h], heap, s) :
           IF o.ret = "err"
           THEN \E d \in DropIn(o.r, o.m) :
                   Step(call, DropRet(d, "err"), d.m, Without({job.h}), [Asked(s) EXCEPT !.failed = TRUE])
           ELSE Step(call, o.ret, o.m, Put(handle, job.h, o.r), Asked(s))
    BY <1>3, <1>5 DEF WriteStr
  <2>2. /\ IsHeapOf(heap) /\ Valid(handle[job.h], heap) /\ handle[job.h].ty = "LeanString"
        /\ AsBytes(handle[job.h], heap) = job.asked
    BY <1>1, <1>5, JobFacts
  <2>3. Edits(o, handle[job.h], heap, job.asked \o s)
    BY <1>2, <2>2, PushIs
  <2>4. CASE Gets(o, handle[job.h], heap, "LeanString", job.asked \o s)
    <3>1. Step(call, o.ret, o.m, Put(handle, job.h, o.r), Asked(s))
      BY <2>1, <2>4, GetsFacts
    <3> QED
      BY <1>1, <1>2, <1>3, <1>5, <2>4, <3>1, PushedBuilds
  <2>5. CASE Fails(o, handle[job.h], heap)
    <3>1. o.ret = "err" /\ o.r = handle[job.h] /\ o.m = heap
      BY <2>5, FailsFacts
    <3>2. PICK d \in DropIn(handle[job.h], heap) :
             Step(call, DropRet(d, "err"), d.m, Without({job.h}), [Asked(s) EXCEPT !.failed = TRUE])
      BY <2>1, <3>1
    <3> QED
      BY <1>1, <1>2, <1>3, <1>5, <3>2, WriteFails
  <2> QED
    BY <2>2, <2>3, <2>4, <2>5 DEF Edits
<1> QED
  BY <1>4, <1>5

\* The caller's iterator or Display panics, or its Display fails.
LEMMA CallerStops ==
    ASSUME BuildGood, CallerPanics \/ DisplayFails
    PROVE  BuildActs
<1>1. job # NoJob
  BY DEF CallerPanics, DisplayFails, NoJob
<1>2. PICK ret \in {"err", "panic"} :
         IF job.failed THEN Step(<<"stop", job.h>>, ret, heap, handle, NoJob)
         ELSE Stop(<<"stop", job.h>>, ret, handle[job.h], heap, {})
  BY DEF CallerPanics, DisplayFails
<1>3. CASE job.failed
  <2>1. Step(<<"stop", job.h>>, ret, heap, handle, NoJob) /\ IsJob(NoJob) /\ Holds(NoJob, handle, heap)
    BY <1>2, <1>3 DEF IsJob, Holds
  <2> QED
    BY <1>1, <1>3, <2>1, FailedBuilds
<1>4. CASE ~job.failed
  BY <1>1, <1>2, <1>4, StoppedBuilds
<1> QED
  BY <1>3, <1>4

\* The text is there in the end, in the type that was asked for.
LEMMA FinishedBuilds ==
    ASSUME BuildGood, job # NoJob, ~job.failed, NEW q, NEW n, Trade(handle[job.h], heap, q, n),
           q.ty = job.into, AsBytes(q, n) = job.asked,
           NEW call, call = <<"finish", job.h>>, Step(call, "ok", n, Put(handle, job.h, q), NoJob)
    PROVE  BuildActs
<1>1. /\ Sound(handle, heap) /\ At(handle, job.h) = handle[job.h] /\ job.h \in Live
      /\ Texts(handle, heap)[job.h] = job.asked /\ IsUtf8(job.asked)
  BY JobFacts
<1>2. PICK h, t, J : h = job.h /\ t = job.asked /\ J = Put(handle, h, q)
  OBVIOUS
<1>3. Sound(handle, heap) /\ Trade(At(handle, h), heap, q, n) /\ AsBytes(q, n) = t /\ IsUtf8(t)
  BY <1>1, <1>2
<1>4. Sound(Put(handle, h, q), n) /\ Texts(Put(handle, h, q), n) = Put(Texts(handle, heap), h, t)
  BY ONLY <1>3, PutSound
<1>5. DOMAIN J = Live /\ J[h] = q
  BY <1>1, <1>2 DEF Put, Live
<1>6. Texts(J, n) = Texts(handle, heap)
  <2>1. Put(Texts(handle, heap), h, t) = [x \in DOMAIN Texts(handle, heap) |-> Texts(handle, heap)[x]]
    BY <1>1, <1>2 DEF Put, Texts, Live
  <2> QED
    BY <1>2, <1>4, <2>1 DEF Texts
<1>7. Step(call, "ok", n, J, NoJob) /\ Sound(J, n)
  BY <1>2, <1>4
<1>8. Reports
  <2>1. io'.ret = "ok" /\ handle' = J /\ heap' = n
    BY <1>7 DEF Step
  <2> QED
    BY <1>2, <1>5, <2>1 DEF Reports
<1>9. /\ DOMAIN J \subseteq Handles /\ IsJob(NoJob) /\ Holds(NoJob, J, n)
      /\ End("ok", <<>>, Texts(J, n)) \in Api!Allowed(call)
      /\ call[1] \in {"begin", "begin_with", "item", "item_of", "stop", "finish"}
  BY <1>5, <1>6, FinishAllowed DEF BuildGood, Good, IsJob, Holds
<1> QED
  BY ONLY <1>7, <1>8, <1>9, Steps

\* No more pieces.
LEMMA FinishBuilds ==
    ASSUME BuildGood, Finish
    PROVE  BuildActs
<1>1. job # NoJob /\ job \in Jobs
  BY DEF Finish, BuildGood, IsJob
<1>2. PICK call : call = <<"finish", job.h>>
  OBVIOUS
<1>3. CASE job.failed
  <2>1. Step(<<"finish", job.h>>, "err", heap, handle, NoJob) /\ IsJob(NoJob) /\ Holds(NoJob, handle, heap)
    BY <1>3 DEF Finish, IsJob, Holds
  <2> QED
    BY <1>1, <1>3, <2>1, FailedBuilds
<1>4. CASE ~job.failed
  <2>1. /\ IsHeapOf(heap) /\ Valid(handle[job.h], heap) /\ handle[job.h].ty = "LeanString"
        /\ AsBytes(handle[job.h], heap) = job.asked /\ job.h \in Live /\ Sound(handle, heap)
    BY <1>1, <1>4, JobFacts
  <2>2. CASE job.into = "LeanString"
    <3>1. Step(call, "ok", heap, handle, NoJob)
      BY <1>2, <1>4, <2>2 DEF Finish
    <3>2. handle = [k \in DOMAIN handle |-> handle[k]]
      BY <2>1 DEF Sound
    <3>3. handle = Put(handle, job.h, handle[job.h])
      BY <2>1, <3>2 DEF Put, Live
    <3>4. Trade(handle[job.h], heap, handle[job.h], heap)
      BY <2>1, TradeSelf
    <3>5. Step(call, "ok", heap, Put(handle, job.h, handle[job.h]), NoJob)
      BY <3>1, <3>3
    <3> QED
      BY <1>1, <1>2, <1>4, <2>1, <2>2, <3>4, <3>5, FinishedBuilds
  <2>3. CASE job.into # "LeanString"
    <3>1. job.into = "LeanStr"
      BY <1>1, <2>3 DEF Jobs, Types
    <3>2. PICK o \in IntoImmutable(handle[job.h], heap), ret \in {"err", "panic"} :
             IF o.ret = "err" THEN Stop(call, ret, o.r, o.m, {})
             ELSE Step(call, o.ret, o.m, Put(handle, job.h, o.r), NoJob)
      BY <1>2, <1>4, <2>3 DEF Finish
    <3>3. Converts(o, handle[job.h], heap, "LeanStr")
      BY <2>1, <3>2, IntoImmutableIs
    <3>4. CASE Gets(o, handle[job.h], heap, "LeanStr", AsBytes(handle[job.h], heap))
      <4>1. /\ o.ret = "ok" /\ o.r.ty = "LeanStr" /\ AsBytes(o.r, o.m) = AsBytes(handle[job.h], heap)
            /\ Trade(handle[job.h], heap, o.r, o.m)
        BY <3>4, GetsFacts
      <4>2. Step(call, "ok", o.m, Put(handle, job.h, o.r), NoJob) /\ AsBytes(o.r, o.m) = job.asked
        BY <2>1, <3>2, <4>1
      <4> QED
        BY <1>1, <1>2, <1>4, <3>1, <4>1, <4>2, FinishedBuilds
    <3>5. CASE Returns(o, handle[job.h], heap)
      <4>1. o.ret = "err" /\ o.r = handle[job.h]
        BY <3>5 DEF Returns
      <4>2. Trade(handle[job.h], heap, handle[job.h], o.m) /\ AsBytes(handle[job.h], o.m) = job.asked
        BY <2>1, <3>5 DEF Returns
      <4>3. Stop(call, ret, handle[job.h], o.m, {})
        BY <3>2, <4>1
      <4>4. Api!Stops(job.h, {}) \subseteq Api!Allowed(call) /\ call[1] = "finish"
        BY <1>2, FinishAllowed
      <4> QED
        BY <1>1, <1>4, <3>2, <4>2, <4>3, <4>4, StopAsItIs
    <3> QED
      BY <3>3, <3>4, <3>5 DEF Converts
  <2> QED
    BY <2>2, <2>3
<1> QED
  BY <1>3, <1>4

\* What StringApi lets a builder begin with.
LEMMA BeginAllowed ==
    ASSUME NEW h, NEW t, NEW call, call = <<"begin", h, t>>
    PROVE  /\ End("ok", <<>>, Put(Texts(handle, heap), h, t)) \in Api!Allowed(call)
           /\ End("panic", <<>>, Texts(handle, heap)) \in Api!Allowed(call)
           /\ call[1] = "begin"
<1>1. call[1] = "begin" /\ call[2] = h /\ call[3] = t
  OBVIOUS
<1>2. Api!Allowed(call) = Api!Sets(h, t) \cup Api!Panics
  BY <1>1 DEF Api!Allowed
<1> QED
  BY <1>1, <1>2, ApiEnds

\* A text begins, and may be complete with that.
LEMMA BeginsWith ==
    ASSUME BuildGood, job = NoJob, NEW h \in Handles, NEW q, NEW n, Trade(At(handle, h), heap, q, n),
           NEW t, AsBytes(q, n) = t, t \in Seq(Bytes), IsUtf8(t),
           NEW j, IsJob(j), j = NoJob \/ (j.h = h /\ ~j.failed /\ j.asked = t /\ q.ty = "LeanString"),
           Step(<<"begin", h, t>>, "ok", n, Put(handle, h, q), j)
    PROVE  BuildActs
<1>1. PICK call, J : call = <<"begin", h, t>> /\ J = Put(handle, h, q)
  OBVIOUS
<1>2. Sound(handle, heap) /\ Live \subseteq Handles
  BY DEF BuildGood, Good
<1>3. Sound(Put(handle, h, q), n) /\ Texts(Put(handle, h, q), n) = Put(Texts(handle, heap), h, t)
  BY <1>2, PutSound
<1>4. DOMAIN J = Live \cup {h} /\ J[h] = q
  BY <1>1 DEF Put, Live
<1>5. Holds(j, J, n)
  BY <1>4 DEF Holds
<1>6. Reports
  BY ReportsIf DEF NoJob
<1>7. /\ Sound(J, n) /\ Step(call, "ok", n, J, j) /\ DOMAIN J \subseteq Handles
      /\ End("ok", <<>>, Texts(J, n)) \in Api!Allowed(call)
      /\ call[1] \in {"begin", "begin_with", "item", "item_of", "stop", "finish"}
  BY <1>1, <1>2, <1>3, <1>4, BeginAllowed
<1> QED
  BY ONLY IsJob(j), <1>5, <1>6, <1>7, Steps

\* A text cannot begin.
LEMMA BeginPanics ==
    ASSUME BuildGood, job = NoJob, NEW h, NEW t, Step(<<"begin", h, t>>, "panic", heap, handle, NoJob)
    PROVE  BuildActs
<1>1. PICK call : call = <<"begin", h, t>>
  OBVIOUS
<1>2. Sound(handle, heap) /\ DOMAIN handle \subseteq Handles
  BY DEF BuildGood, Good, Live
<1>3. Reports /\ IsJob(NoJob) /\ Holds(NoJob, handle, heap)
  BY ReportsIf DEF NoJob, IsJob, Holds
<1>4. /\ Step(call, "panic", heap, handle, NoJob)
      /\ End("panic", <<>>, Texts(handle, heap)) \in Api!Allowed(call)
      /\ call[1] \in {"begin", "begin_with", "item", "item_of", "stop", "finish"}
  BY <1>1, BeginAllowed
<1> QED
  BY <1>2, <1>3, <1>4, Steps

\* A new job.
LEMMA NewJob ==
    ASSUME NEW by \in {"extend", "collect", "format", "decode"}, NEW h \in Handles,
           NEW item \in {"char", "str", "owned"}, NEW into \in Types, NEW t \in Seq(Bytes)
    PROVE  /\ IsJob(Job(by, h, item, into, t)) /\ Job(by, h, item, into, t).h = h
           /\ ~Job(by, h, item, into, t).failed /\ Job(by, h, item, into, t).asked = t
BY DEF Job, IsJob, Jobs

\* A free place, and the arguments of a builder.
LEMMA FreePlace ==
    ASSUME BuildGood
    PROVE  /\ \A k : k \notin Live => At(handle, k) = Nothing
           /\ \A n \in Sizes : n \in Nat
           /\ IsHeapOf(heap) /\ AsBytes(Nothing, heap) = <<>> /\ Nothing.ty = "LeanString"
           /\ Trade(Nothing, heap, Nothing, heap) /\ "LeanString" \in Types /\ "LeanStr" \in Types
<1>1. IsHeapOf(heap)
  BY DEF BuildGood, Good, Sound
<1>2. \A k : k \notin Live => At(handle, k) = Nothing
  BY DEF At, Live
<1>3. \A n \in Sizes : n \in Nat
  BY ArgsAssumption
<1>4. AsBytes(Nothing, heap) = <<>> /\ Nothing.ty = "LeanString"
  BY DEF AsBytes, Nothing, FromInline, IsHeap
<1>5. Trade(Nothing, heap, Nothing, heap)
  BY <1>1, NothingValid, TradeSelf
<1>6. "LeanString" \in Types /\ "LeanStr" \in Types
  BY DEF Types
<1> QED
  BY <1>1, <1>2, <1>3, <1>4, <1>5, <1>6

\* Extend.
LEMMA ExtendBuilds ==
    ASSUME BuildGood, NEW h \in Handles, NEW item \in {"char", "str", "owned"}, NEW hint \in Sizes,
           Extend(h, item, hint)
    PROVE  BuildActs
<1>1. job = NoJob /\ h \in Strings /\ Good
  BY DEF Extend, BuildGood
<1>2. PICK t : t = TextAt(h)
  OBVIOUS
<1>3. PICK o \in Reserve(handle[h], heap, hint) \cup Ok(handle[h], heap) :
         Step(<<"begin", h, t>>, IF o.ret = "ub" THEN "ub" ELSE "ok", o.m, Put(handle, h, o.r),
              Job("extend", h, item, "LeanString", t))
  BY <1>2 DEF Extend
<1>4. /\ h \in Live /\ IsHeapOf(heap) /\ Valid(handle[h], heap) /\ handle[h].ty = "LeanString"
      /\ t = AsBytes(handle[h], heap) /\ t \in Seq(Bytes) /\ IsUtf8(t)
  BY <1>1, <1>2, GoodString
<1>5. hint \in Nat /\ "LeanString" \in Types
  BY FreePlace
<1>6. Edits(o, handle[h], heap, t)
  <2>1. CASE o \in Reserve(handle[h], heap, hint)
    BY <1>4, <1>5, <2>1, ReserveIs
  <2>2. CASE o \in Ok(handle[h], heap)
    BY <1>4, <2>2, OkIs DEF Edits
  <2> QED
    BY <1>3, <2>1, <2>2
<1>7. Trade(handle[h], heap, o.r, o.m) /\ o.r.ty = "LeanString" /\ AsBytes(o.r, o.m) = t /\ o.ret # "ub"
  <2>1. CASE Gets(o, handle[h], heap, handle[h].ty, t)
    BY <1>4, <2>1, GetsFacts
  <2>2. CASE Fails(o, handle[h], heap)
    <3>1. o.ret = "err" /\ o.r = handle[h] /\ o.m = heap
      BY <2>2, FailsFacts
    <3>2. Trade(handle[h], heap, handle[h], heap)
      BY <1>4, TradeSelf
    <3> QED
      BY <1>4, <3>1, <3>2
  <2> QED
    BY <1>6, <2>1, <2>2 DEF Edits
<1>8. PICK q, n, j : q = o.r /\ n = o.m /\ j = Job("extend", h, item, "LeanString", t)
  OBVIOUS
<1>9. At(handle, h) = handle[h]
  BY <1>4 DEF At, Live
<1>10. /\ Trade(At(handle, h), heap, q, n) /\ q.ty = "LeanString" /\ AsBytes(q, n) = t
       /\ Step(<<"begin", h, t>>, "ok", n, Put(handle, h, q), j)
  BY <1>3, <1>7, <1>8, <1>9
<1>11. IsJob(j) /\ j.h = h /\ ~j.failed /\ j.asked = t
  BY <1>4, <1>5, <1>8, NewJob
<1>12. t \in Seq(Bytes) /\ IsUtf8(t)
  BY <1>4
<1> QED
  BY <1>1, <1>10, <1>11, <1>12, BeginsWith

\* A text begins empty, with the room there is.
LEMMA BeginsEmpty ==
    ASSUME BuildGood, job = NoJob, NEW k \in Handles \ Live, NEW by \in {"collect", "format", "decode"},
           NEW item \in {"char", "str"}, NEW into \in Types,
           NEW o, Makes(o, Nothing, heap, "LeanString", <<>>),
           Step(<<"begin", k, <<>>>>, "ok", o.m, Put(handle, k, o.r), Job(by, k, item, into, <<>>))
    PROVE  BuildActs
<1>1. Trade(Nothing, heap, o.r, o.m) /\ o.r.ty = "LeanString" /\ AsBytes(o.r, o.m) = <<>>
  <2>1. CASE Gets(o, Nothing, heap, "LeanString", <<>>)
    BY <2>1, GetsFacts
  <2>2. CASE Fails(o, Nothing, heap)
    BY <2>2, FailsFacts, FreePlace
  <2> QED
    BY <2>1, <2>2 DEF Makes
<1>2. PICK q, n, j, t : q = o.r /\ n = o.m /\ t = <<>> /\ j = Job(by, k, item, into, t)
  OBVIOUS
<1>3. t \in Seq(Bytes) /\ IsUtf8(t)
  BY <1>2, EmptyUtf8
<1>4. /\ Trade(At(handle, k), heap, q, n) /\ q.ty = "LeanString" /\ AsBytes(q, n) = t
      /\ Step(<<"begin", k, t>>, "ok", n, Put(handle, k, q), j)
  BY <1>1, <1>2, FreePlace
<1>5. IsJob(j) /\ j.h = k /\ ~j.failed /\ j.asked = t
  <2>1. /\ by \in {"extend", "collect", "format", "decode"} /\ item \in {"char", "str", "owned"}
        /\ k \in Handles /\ t \in Seq(Bytes) /\ j = Job(by, k, item, into, t)
    BY <1>2, <1>3
  <2> QED
    BY ONLY into \in Types, <2>1, NewJob
<1> QED
  BY <1>3, <1>4, <1>5, BeginsWith

\* An empty text that needs no block.
LEMMA NothingMade ==
    ASSUME BuildGood, NEW o \in Ok(Nothing, heap)
    PROVE  Makes(o, Nothing, heap, "LeanString", <<>>)
<1>1. Gets(o, Nothing, heap, Nothing.ty, AsBytes(Nothing, heap))
  BY FreePlace, NothingValid, OkIs
<1> QED
  BY <1>1, FreePlace DEF Makes

\* FromIterator.
LEMMA CollectBuilds ==
    ASSUME BuildGood, NEW k \in Handles, NEW item \in {"char", "str"}, NEW into \in Types, NEW hint \in Sizes,
           Collect(k, item, into, hint)
    PROVE  BuildActs
<1>1. job = NoJob /\ k \in Handles \ Live
  BY DEF Collect
<1>2. PICK o \in WithCapacity(hint, Nothing, heap) \cup Ok(Nothing, heap) :
         Step(<<"begin", k, <<>>>>, "ok", o.m, Put(handle, k, o.r), Job("collect", k, item, into, <<>>))
  BY DEF Collect
<1>3. Makes(o, Nothing, heap, "LeanString", <<>>)
  <2>1. CASE o \in WithCapacity(hint, Nothing, heap)
    BY <2>1, FreePlace, WithCapacityIs
  <2>2. CASE o \in Ok(Nothing, heap)
    BY <2>2, NothingMade
  <2> QED
    BY <1>2, <2>1, <2>2
<1> QED
  BY <1>1, <1>2, <1>3, BeginsEmpty

\* try_from_fmt: the writer starts with an empty text.
LEMMA FormatBuilds ==
    ASSUME BuildGood, NEW k \in Handles, NEW into \in Types, Format(k, into)
    PROVE  BuildActs
<1>1. job = NoJob /\ k \in Handles \ Live
  BY DEF Format
<1>2. PICK o : o = [ret |-> "ok", val |-> <<>>, r |-> Nothing, m |-> heap]
  OBVIOUS
<1>3. o \in Ok(Nothing, heap) /\ o.r = Nothing /\ o.m = heap
  BY <1>2 DEF Ok, Outcome
<1>4. Step(<<"begin", k, <<>>>>, "ok", o.m, Put(handle, k, o.r), Job("format", k, "str", into, <<>>))
  BY <1>3 DEF Format
<1>5. Makes(o, Nothing, heap, "LeanString", <<>>)
  BY <1>3, NothingMade
<1> QED
  BY <1>1, <1>4, <1>5, BeginsEmpty

\* from_utf16_units, from_utf8_lossy.
LEMMA DecodeBuilds ==
    ASSUME BuildGood, NEW k \in Handles, NEW item \in {"char", "str"}, NEW into \in Types, NEW size \in Sizes,
           Decode(k, item, into, size)
    PROVE  BuildActs
<1>1. job = NoJob /\ k \in Handles \ Live
  BY DEF Decode
<1>2. PICK o \in WithCapacity(size, Nothing, heap) :
         IF o.ret = "ok" THEN Step(<<"begin", k, <<>>>>, "ok", o.m, Put(handle, k, o.r),
                                   Job("decode", k, item, into, <<>>))
         ELSE Step(<<"begin", k, <<>>>>, "panic", o.m, handle, NoJob)
  BY DEF Decode
<1>3. Makes(o, Nothing, heap, "LeanString", <<>>)
  BY <1>2, FreePlace, WithCapacityIs
<1>4. CASE o.ret = "ok"
  BY <1>1, <1>2, <1>3, <1>4, BeginsEmpty
<1>5. CASE o.ret # "ok"
  <2>1. Fails(o, Nothing, heap)
    BY <1>3, <1>5, GetsFacts DEF Makes
  <2>2. PICK t : t = <<>> /\ Step(<<"begin", k, t>>, "panic", heap, handle, NoJob)
    BY <1>2, <1>5, <2>1, FailsFacts
  <2> QED
    BY <1>1, <2>2, BeginPanics
<1> QED
  BY <1>4, <1>5

\* try_from_fmt of a literal.
LEMMA LiteralBuilds ==
    ASSUME BuildGood, NEW k \in Handles, NEW into \in Types, NEW s \in Args, FormatLiteral(k, into, s)
    PROVE  BuildActs
<1>1. job = NoJob /\ k \notin Live
  BY DEF FormatLiteral
<1>2. PICK o \in FromStaticStr("LeanString", s, Nothing, heap) :
         IF o.ret # "ok" THEN Step(<<"begin", k, s>>, "panic", o.m, handle, NoJob)
         ELSE \E c \in Ok(o.r, o.m) \cup IntoImmutable(o.r, o.m) :
                 Step(<<"begin", k, s>>, c.ret, c.m, Put(handle, k, c.r), NoJob)
  BY DEF FormatLiteral
<1>3. s \in Seq(Bytes) /\ IsUtf8(s)
  BY ArgsAssumption
<1>4. Makes(o, Nothing, heap, "LeanString", s) /\ (o.ret = "ok" => ~IsHeap(o.r))
  BY <1>2, <1>3, FreePlace, FromStaticStrIs
<1>5. CASE Fails(o, Nothing, heap)
  <2>1. o.ret = "err" /\ o.m = heap
    BY <1>5, FailsFacts
  <2>2. Step(<<"begin", k, s>>, "panic", heap, handle, NoJob)
    BY <1>2, <2>1
  <2> QED
    BY <1>1, <2>2, BeginPanics
<1>6. CASE Gets(o, Nothing, heap, "LeanString", s)
  <2>1. /\ o.ret = "ok" /\ ~IsHeap(o.r) /\ IsHeapOf(o.m) /\ Valid(o.r, o.m) /\ o.r.ty = "LeanString"
        /\ AsBytes(o.r, o.m) = s
    BY <1>4, <1>6, GetsFacts
  <2>2. PICK c \in Ok(o.r, o.m) \cup IntoImmutable(o.r, o.m) :
           Step(<<"begin", k, s>>, c.ret, c.m, Put(handle, k, c.r), NoJob)
    BY <1>2, <2>1
  <2>3. \E ty : Gets(c, o.r, o.m, ty, s)
    <3>1. CASE c \in Ok(o.r, o.m)
      BY <2>1, <3>1, OkIs
    <3>2. CASE c \in IntoImmutable(o.r, o.m)
      <4>1. c.ret = "ok"
        BY <2>1, <3>2 DEF IntoImmutable, Ok, Outcome
      <4>2. Converts(c, o.r, o.m, "LeanStr")
        BY <2>1, <3>2, IntoImmutableIs
      <4> QED
        BY <2>1, <4>1, <4>2 DEF Converts, Returns
    <3> QED
      BY <2>2, <3>1, <3>2
  <2>4. PICK ty : Gets(c, Nothing, heap, ty, s)
    BY <1>6, <2>3, FreePlace, GetsTwice
  <2>5. c.ret = "ok" /\ Trade(Nothing, heap, c.r, c.m) /\ AsBytes(c.r, c.m) = s
    BY <2>4, GetsFacts
  <2>6. PICK q, n, j : q = c.r /\ n = c.m /\ j = NoJob
    OBVIOUS
  <2>7. /\ Trade(At(handle, k), heap, q, n) /\ AsBytes(q, n) = s
        /\ Step(<<"begin", k, s>>, "ok", n, Put(handle, k, q), j) /\ IsJob(j)
    BY <1>1, <2>2, <2>5, <2>6, FreePlace DEF IsJob
  <2> QED
    BY <1>1, <1>3, <2>6, <2>7, BeginsWith
<1> QED
  BY <1>4, <1>5, <1>6 DEF Makes

\* What StringApi lets a builder do with a string that it is given.
LEMMA OwnedAllowed ==
    ASSUME NEW h, NEW g
    PROVE  /\ \A call : call = <<"begin_with", h, g>> =>
                 /\ call[1] = "begin_with" /\ Api!Stops(h, {g}) \subseteq Api!Allowed(call)
                 /\ End("ok", <<>>, Put(Cut(Texts(handle, heap), {g}), h, Texts(handle, heap)[g]))
                       \in Api!Allowed(call)
           /\ \A call : call = <<"item_of", h, g>> =>
                 /\ call[1] = "item_of" /\ Api!Stops(h, {g}) \subseteq Api!Allowed(call)
                 /\ End("ok", <<>>, Put(Cut(Texts(handle, heap), {g}), h,
                                        Texts(handle, heap)[h] \o Texts(handle, heap)[g]))
                       \in Api!Allowed(call)
<1>1. PICK T : T = Texts(handle, heap) /\ T = [k \in Live |-> TextAt(k)]
  BY DEF Texts, TextAt, Live
<1>2. Api!Without(g) = Cut(T, {g})
  BY <1>1 DEF Api!Without, Cut
<1>3. /\ \A t : Api!Ends("ok", <<>>, t) = {End("ok", <<>>, t)}
      /\ \A f, k, v : Api!Put(f, k, v) = Put(f, k, v)
  BY ApiEnds
<1>4. ASSUME NEW call, call = <<"begin_with", h, g>>
      PROVE  /\ call[1] = "begin_with" /\ Api!Stops(h, {g}) \subseteq Api!Allowed(call)
             /\ End("ok", <<>>, Put(Cut(T, {g}), h, T[g])) \in Api!Allowed(call)
  <2>1. call[1] = "begin_with" /\ call[2] = h /\ call[3] = g
    BY <1>4
  <2>2. Api!Allowed(call) = Api!Begins(h, g)
    BY <2>1 DEF Api!Allowed
  <2>3. Api!Begins(h, g) = Api!Ends("ok", <<>>, Api!Put(Api!Without(g), h, T[g])) \cup Api!Stops(h, {g})
    BY <1>1 DEF Api!Begins
  <2> QED
    BY <1>2, <1>3, <2>1, <2>2, <2>3
<1>5. ASSUME NEW call, call = <<"item_of", h, g>>
      PROVE  /\ call[1] = "item_of" /\ Api!Stops(h, {g}) \subseteq Api!Allowed(call)
             /\ End("ok", <<>>, Put(Cut(T, {g}), h, T[h] \o T[g])) \in Api!Allowed(call)
  <2>1. call[1] = "item_of" /\ call[2] = h /\ call[3] = g
    BY <1>5
  <2>2. Api!Allowed(call) = Api!Takes(h, g)
    BY <2>1 DEF Api!Allowed
  <2>3. Api!Takes(h, g) = Api!Ends("ok", <<>>, Api!Put(Api!Without(g), h, T[h] \o T[g])) \cup Api!Stops(h, {g})
    BY <1>1 DEF Api!Takes
  <2> QED
    BY <1>2, <1>3, <2>1, <2>2, <2>3
<1> QED
  BY <1>1, <1>4, <1>5

\* The first string becomes the text.
LEMMA OwnedBegins ==
    ASSUME BuildGood, job = NoJob, NEW k \in Handles \ Live, NEW g \in Live, NEW into \in Types,
           NEW o, NEW t, t = TextAt(g), Gets(o, handle[g], heap, "LeanString", t),
           Step(<<"begin_with", k, g>>, o.ret, o.m, Put(Without({g}), k, o.r),
                Job("collect", k, "owned", into, t))
    PROVE  BuildActs
<1>1. /\ o.ret = "ok" /\ o.r.ty = "LeanString" /\ AsBytes(o.r, o.m) = t
      /\ Trade(handle[g], heap, o.r, o.m)
  BY GetsFacts
<1>2. Good /\ Sound(handle, heap) /\ Live \subseteq Handles
  BY DEF BuildGood, Good
<1>3. t \in Seq(Bytes) /\ IsUtf8(t) /\ Texts(handle, heap)[g] = t
  BY <1>2, GoodHandle
<1>4. PICK q, n, H, J, j : /\ q = o.r /\ n = o.m /\ H = Put(handle, g, q)
                           /\ J = Put(Cut(H, {g}), k, H[g]) /\ j = Job("collect", k, "owned", into, t)
  OBVIOUS
<1>5. Sound(H, n) /\ Texts(H, n) = Texts(handle, heap)
  <2>1. At(handle, g) = handle[g]
    BY DEF At, Live
  <2>2. Sound(handle, heap) /\ Trade(At(handle, g), heap, q, n) /\ AsBytes(q, n) = t /\ IsUtf8(t)
    BY <1>1, <1>2, <1>3, <1>4, <2>1
  <2>3. Sound(Put(handle, g, q), n) /\ Texts(Put(handle, g, q), n) = Put(Texts(handle, heap), g, t)
    BY ONLY <2>2, PutSound
  <2>4. g \in DOMAIN handle /\ t = AsBytes(handle[g], heap)
    BY DEF Live, TextAt
  <2>5. Put(Texts(handle, heap), g, t) = Texts(handle, heap)
    BY <2>4, SameTexts
  <2> QED
    BY <1>4, <2>3, <2>5
<1>6. DOMAIN H = Live /\ H[g] = q /\ Cut(H, {g}) = Without({g})
  BY <1>4 DEF Put, Cut, Without, Live
<1>7. Sound(J, n) /\ Texts(J, n) = Put(Cut(Texts(handle, heap), {g}), k, t)
  <2>1. Sound(H, n) /\ g \in DOMAIN H /\ k \notin DOMAIN H
    BY <1>5, <1>6
  <2>2. /\ Sound(Put(Cut(H, {g}), k, H[g]), n)
        /\ Texts(Put(Cut(H, {g}), k, H[g]), n) = Put(Cut(Texts(H, n), {g}), k, Texts(H, n)[g])
    BY ONLY <2>1, MoveSound
  <2> QED
    BY <1>3, <1>4, <1>5, <2>2
<1>8. DOMAIN J = (Live \ {g}) \cup {k} /\ J[k] = q /\ J = Put(Without({g}), k, q)
  BY <1>4, <1>6 DEF Put, Without
<1>9. IsJob(j) /\ j.h = k /\ ~j.failed /\ j.asked = t
  BY <1>3, <1>4, NewJob
<1>10. Holds(j, J, n)
  BY <1>1, <1>4, <1>8, <1>9 DEF Holds
<1>11. PICK call : call = <<"begin_with", k, g>>
  OBVIOUS
<1>12. Step(call, "ok", n, J, j)
  BY <1>1, <1>4, <1>8, <1>11
<1>13. Reports
  BY ReportsIf DEF NoJob
<1>14. /\ DOMAIN J \subseteq Handles /\ End("ok", <<>>, Texts(J, n)) \in Api!Allowed(call)
       /\ call[1] \in {"begin", "begin_with", "item", "item_of", "stop", "finish"}
  <2>1. /\ call[1] = "begin_with"
        /\ End("ok", <<>>, Put(Cut(Texts(handle, heap), {g}), k, Texts(handle, heap)[g])) \in Api!Allowed(call)
    BY <1>11, OwnedAllowed
  <2>2. Texts(J, n) = Put(Cut(Texts(handle, heap), {g}), k, Texts(handle, heap)[g])
    BY <1>3, <1>7
  <2>3. DOMAIN J \subseteq Handles
    BY <1>2, <1>8
  <2> QED
    BY <2>1, <2>2, <2>3
<1> QED
  BY ONLY <1>7, <1>9, <1>10, <1>12, <1>13, <1>14, Steps

\* The first string cannot be converted: it is dropped.
LEMMA OwnedPanics ==
    ASSUME BuildGood, job = NoJob, NEW k, NEW g \in Live, NEW n, Trade(handle[g], heap, Nothing, n),
           Step(<<"begin_with", k, g>>, "panic", n, Without({g}), NoJob)
    PROVE  BuildActs
<1>1. Sound(handle, heap) /\ Live \subseteq Handles
  BY DEF BuildGood, Good
<1>2. PICK J, call : J = Cut(handle, {g}) /\ call = <<"begin_with", k, g>>
  OBVIOUS
<1>3. Sound(Cut(handle, {g}), n) /\ Texts(Cut(handle, {g}), n) = Cut(Texts(handle, heap), {g})
  BY <1>1, CutSound DEF Live
<1>4. DOMAIN J = Live \ {g} /\ J = Without({g})
  BY <1>2 DEF Cut, Without, Live
<1>5. Sound(J, n) /\ Step(call, "panic", n, J, NoJob)
  BY <1>2, <1>3, <1>4
<1>6. Reports /\ IsJob(NoJob) /\ Holds(NoJob, J, n)
  BY ReportsIf DEF NoJob, IsJob, Holds
<1>7. /\ DOMAIN J \subseteq Handles /\ End("panic", <<>>, Texts(J, n)) \in Api!Allowed(call)
      /\ call[1] \in {"begin", "begin_with", "item", "item_of", "stop", "finish"}
  <2>1. End("panic", <<>>, Cut(Texts(handle, heap), {g})) \in Api!Stops(k, {g})
    BY ApiStops
  <2> QED
    BY <1>1, <1>2, <1>3, <1>4, <2>1, OwnedAllowed
<1> QED
  BY ONLY <1>5, <1>6, <1>7, Steps

\* FromIterator of strings.
LEMMA CollectOwnedBuilds ==
    ASSUME BuildGood, NEW k \in Handles, NEW g \in Handles, NEW into \in Types, CollectOwned(k, g, into)
    PROVE  BuildActs
<1>1. job = NoJob /\ k \in Handles \ Live /\ g \in Live /\ Good
  BY DEF CollectOwned, BuildGood
<1>2. PICK t, call : t = TextAt(g) /\ call = <<"begin_with", k, g>>
  OBVIOUS
<1>3. PICK o \in IF g \in Strings THEN Ok(handle[g], heap) ELSE IntoMutable(handle[g], heap) :
         IF o.ret = "err"
         THEN \E d \in DropIn(o.r, o.m) : Step(call, DropRet(d, "panic"), d.m, Without({g}), NoJob)
         ELSE Step(call, o.ret, o.m, Put(Without({g}), k, o.r), Job("collect", k, "owned", into, t))
  BY <1>2 DEF CollectOwned
<1>4. /\ IsHeapOf(heap) /\ Valid(handle[g], heap) /\ t = AsBytes(handle[g], heap)
      /\ handle[g].ty \in Types /\ (g \in Strings <=> handle[g].ty = "LeanString")
  BY <1>1, <1>2, GoodHandle
<1>5. Converts(o, handle[g], heap, "LeanString")
  <2>1. CASE g \in Strings
    BY <1>3, <1>4, <2>1, OkIs DEF Converts
  <2>2. CASE g \notin Strings
    <3>1. handle[g].ty = "LeanStr"
      BY <1>4, <2>2 DEF Types
    <3> QED
      BY <1>3, <1>4, <2>2, <3>1, IntoMutableIs
  <2> QED
    BY <2>1, <2>2
<1>6. CASE Gets(o, handle[g], heap, "LeanString", t)
  <2>1. Step(<<"begin_with", k, g>>, o.ret, o.m, Put(Without({g}), k, o.r), Job("collect", k, "owned", into, t))
    BY <1>2, <1>3, <1>6, GetsFacts
  <2> QED
    BY <1>1, <1>2, <1>6, <2>1, OwnedBegins
<1>7. CASE Returns(o, handle[g], heap)
  <2>1. o.ret = "err" /\ o.r = handle[g] /\ Trade(handle[g], heap, handle[g], o.m)
    BY <1>7 DEF Returns
  <2>2. PICK d \in DropIn(handle[g], o.m) : Step(call, DropRet(d, "panic"), d.m, Without({g}), NoJob)
    BY <1>3, <2>1
  <2>3. IsHeapOf(o.m) /\ Valid(handle[g], o.m)
    BY <2>1 DEF Trade
  <2>4. d.ret = "ok" /\ Trade(handle[g], o.m, Nothing, d.m)
    BY <2>2, <2>3, DropInIs
  <2>5. Trade(handle[g], heap, Nothing, d.m)
    BY <1>4, <2>1, <2>4, TradeTwice
  <2>6. Step(<<"begin_with", k, g>>, "panic", d.m, Without({g}), NoJob)
    BY <1>2, <2>2, <2>4 DEF DropRet
  <2> QED
    BY <1>1, <2>5, <2>6, OwnedPanics
<1> QED
  BY <1>4, <1>5, <1>6, <1>7 DEF Converts

\* A string was pushed and dropped.
LEMMA OwnedTaken ==
    ASSUME BuildGood, job # NoJob, ~job.failed, NEW g \in Live \ {job.h}, NEW s, s = TextAt(g),
           NEW o, Gets(o, handle[job.h], heap, "LeanString", job.asked \o s), NEW d \in DropIn(handle[g], o.m),
           Step(<<"item_of", job.h, g>>, DropRet(d, o.ret), d.m, Put(Without({g}), job.h, o.r), Asked(s))
    PROVE  BuildActs
<1>1. Good /\ Live \subseteq Handles
  BY DEF BuildGood, Good
<1>2. s \in Seq(Bytes) /\ IsUtf8(s) /\ Texts(handle, heap)[g] = s
  BY <1>1, GoodHandle
<1>3. /\ job \in Jobs /\ job.h \in Live /\ Texts(handle, heap)[job.h] = job.asked
  BY JobFacts
<1>4. PICK H : H = Put(handle, job.h, o.r)
  OBVIOUS
<1>5. /\ o.ret = "ok" /\ Sound(H, o.m) /\ DOMAIN H = Live
      /\ Texts(H, o.m) = Put(Texts(handle, heap), job.h, job.asked \o s)
      /\ H[job.h] = o.r /\ H[g] = handle[g]
      /\ IsJob(Asked(s)) /\ Holds(Asked(s), H, o.m) /\ Asked(s) # NoJob
  BY <1>2, <1>4, Pushed
<1>6. IsHeapOf(o.m) /\ Valid(handle[g], o.m)
  BY <1>5 DEF Sound
<1>7. d.ret = "ok" /\ Trade(handle[g], o.m, Nothing, d.m)
  BY <1>6, DropInIs
<1>8. PICK m, n, J, j, call : /\ m = o.m /\ n = d.m /\ J = Cut(H, {g}) /\ j = Asked(s)
                              /\ call = <<"item_of", job.h, g>>
  OBVIOUS
<1>9. Sound(J, n) /\ Texts(J, n) = Cut(Texts(H, m), {g})
  <2>1. Sound(H, m) /\ g \in DOMAIN H /\ Trade(H[g], m, Nothing, n)
    BY <1>5, <1>7, <1>8
  <2>2. Sound(Cut(H, {g}), n) /\ Texts(Cut(H, {g}), n) = Cut(Texts(H, m), {g})
    BY ONLY <2>1, CutSound
  <2> QED
    BY <1>8, <2>2
<1>10. DOMAIN J = Live \ {g} /\ J[job.h] = o.r /\ J = Put(Without({g}), job.h, o.r)
  BY <1>3, <1>4, <1>5, <1>8 DEF Cut, Put, Without, Live
<1>11. Texts(J, n) = Put(Cut(Texts(handle, heap), {g}), job.h, Texts(handle, heap)[job.h] \o Texts(handle, heap)[g])
  <2>1. PICK T, h, u : T = Texts(handle, heap) /\ h = job.h /\ u = job.asked \o s
    OBVIOUS
  <2>2. Cut(Put(T, h, u), {g}) = Put(Cut(T, {g}), h, u)
    BY <2>1 DEF Cut, Put
  <2>3. Texts(J, n) = Put(Cut(T, {g}), h, u) /\ u = T[h] \o T[g]
    BY <1>2, <1>3, <1>5, <1>8, <1>9, <2>1, <2>2
  <2> QED
    BY <2>1, <2>3
<1>12. Holds(j, J, n)
  <2>1. j.h = job.h /\ j.failed = FALSE /\ j.asked = job.asked \o s /\ j # NoJob
    BY <1>2, <1>3, <1>8, AskedIs DEF Jobs
  <2>2. J[job.h].ty = "LeanString"
    BY <1>10, GetsFacts
  <2>3. AsBytes(J[job.h], n) = job.asked \o s
    <3>1. AsBytes(J[job.h], n) = Texts(J, n)[job.h]
      BY <1>3, <1>10 DEF Texts
    <3>2. Texts(J, n)[job.h] = Texts(handle, heap)[job.h] \o Texts(handle, heap)[g]
      BY <1>11 DEF Put
    <3> QED
      BY <1>2, <1>3, <3>1, <3>2
  <2> QED
    BY <1>3, <1>10, <2>1, <2>2, <2>3 DEF Holds
<1>13. Step(call, "ok", n, J, j)
  BY <1>5, <1>7, <1>8, <1>10 DEF DropRet
<1>14. Reports /\ IsJob(j)
  BY <1>5, <1>8, <1>13, ReportsIf DEF Step
<1>15. /\ DOMAIN J \subseteq Handles /\ End("ok", <<>>, Texts(J, n)) \in Api!Allowed(call)
       /\ call[1] \in {"begin", "begin_with", "item", "item_of", "stop", "finish"}
  <2>1. /\ call[1] = "item_of"
        /\ End("ok", <<>>, Put(Cut(Texts(handle, heap), {g}), job.h,
                               Texts(handle, heap)[job.h] \o Texts(handle, heap)[g])) \in Api!Allowed(call)
    BY <1>8, OwnedAllowed
  <2> QED
    BY <1>1, <1>10, <1>11, <2>1
<1> QED
  BY ONLY <1>9, <1>12, <1>13, <1>14, <1>15, Steps

\* A string could not be pushed: the panic drops it, and the text unless it is extended.
LEMMA OwnedRefused ==
    ASSUME BuildGood, job # NoJob, ~job.failed, NEW g \in Live \ {job.h}, NEW d \in DropIn(handle[g], heap),
           Stop(<<"item_of", job.h, g>>, DropRet(d, "panic"), handle[job.h], d.m, {g})
    PROVE  BuildActs
<1>1. Good /\ Sound(handle, heap)
  BY DEF BuildGood, Good
<1>2. IsHeapOf(heap) /\ Valid(handle[g], heap)
  BY <1>1, GoodHandle
<1>3. d.ret = "ok" /\ Trade(handle[g], heap, Nothing, d.m)
  BY <1>2, DropInIs
<1>4. PICK n, J, call : n = d.m /\ J = Cut(handle, {g}) /\ call = <<"item_of", job.h, g>>
  OBVIOUS
<1>5. Sound(J, n) /\ Texts(J, n) = Cut(Texts(handle, heap), {g})
  <2>1. Sound(handle, heap) /\ g \in DOMAIN handle /\ Trade(handle[g], heap, Nothing, n)
    BY <1>1, <1>3, <1>4 DEF Live
  <2>2. Sound(Cut(handle, {g}), n) /\ Texts(Cut(handle, {g}), n) = Cut(Texts(handle, heap), {g})
    BY ONLY <2>1, CutSound
  <2> QED
    BY <1>4, <2>2
<1>6. job.h \in Live
  BY JobFacts
<1>7. J = Put(Without({g}), job.h, handle[job.h])
  BY <1>4, <1>6 DEF Cut, Put, Without, Live
<1>8. Stop(call, "panic", handle[job.h], n, {g})
  BY <1>3, <1>4 DEF DropRet
<1>9. Api!Stops(job.h, {g}) \subseteq Api!Allowed(call) /\ call[1] = "item_of"
  BY <1>4, OwnedAllowed
<1>10. PICK ret, G : ret = "panic" /\ G = {g}
  OBVIOUS
<1>11. /\ ret \in {"err", "panic"} /\ job.h \notin G /\ J = Put(Without(G), job.h, handle[job.h])
       /\ Texts(J, n) = Cut(Texts(handle, heap), G) /\ Api!Stops(job.h, G) \subseteq Api!Allowed(call)
       /\ Stop(call, ret, handle[job.h], n, G)
       /\ call[1] \in {"begin", "begin_with", "item", "item_of", "stop", "finish"}
  BY <1>5, <1>7, <1>8, <1>9, <1>10
<1>12. Sound(J, n)
  BY <1>5
<1> QED
  BY ONLY BuildGood, job # NoJob, ~job.failed, <1>11, <1>12, StopBuilds

\* The loop over owned strings.
LEMMA ItemOwnedBuilds ==
    ASSUME BuildGood, NEW g \in Handles, ItemOwned(g)
    PROVE  BuildActs
<1>1. job # NoJob /\ ~job.failed /\ g \in Live \ {job.h} /\ Good
  BY Unfailed DEF ItemOwned, BuildGood
<1>2. PICK s : s = TextAt(g)
  OBVIOUS
<1>3. PICK o \in PushStr(handle[job.h], heap, s) : \E d \in DropIn(handle[g], o.m) :
         IF o.ret = "err" THEN Stop(<<"item_of", job.h, g>>, DropRet(d, "panic"), o.r, d.m, {g})
         ELSE Step(<<"item_of", job.h, g>>, DropRet(d, o.ret), d.m, Put(Without({g}), job.h, o.r), Asked(s))
  BY <1>2 DEF ItemOwned
<1>4. s \in Seq(Bytes)
  BY <1>1, <1>2, GoodHandle
<1>5. /\ IsHeapOf(heap) /\ Valid(handle[job.h], heap) /\ handle[job.h].ty = "LeanString"
      /\ AsBytes(handle[job.h], heap) = job.asked
  BY <1>1, JobFacts
<1>6. Edits(o, handle[job.h], heap, job.asked \o s)
  BY <1>3, <1>4, <1>5, PushIs
<1>7. CASE Gets(o, handle[job.h], heap, "LeanString", job.asked \o s)
  <2>1. PICK d \in DropIn(handle[g], o.m) :
           Step(<<"item_of", job.h, g>>, DropRet(d, o.ret), d.m, Put(Without({g}), job.h, o.r), Asked(s))
    BY <1>3, <1>7, GetsFacts
  <2> QED
    BY <1>1, <1>2, <1>3, <1>7, <2>1, OwnedTaken
<1>8. CASE Fails(o, handle[job.h], heap)
  <2>1. o.ret = "err" /\ o.r = handle[job.h] /\ o.m = heap
    BY <1>8, FailsFacts
  <2>2. PICK d \in DropIn(handle[g], heap) :
           Stop(<<"item_of", job.h, g>>, DropRet(d, "panic"), handle[job.h], d.m, {g})
    BY <1>3, <2>1
  <2> QED
    BY <1>1, <2>2, OwnedRefused
<1> QED
  BY <1>5, <1>6, <1>7, <1>8 DEF Edits

\* A step of a builder, or of the caller's code between two of them.
LEMMA BuildStep ==
    ASSUME BuildGood, BuildNext
    PROVE  BuildActs
<1>1. CASE Call \/ Malformed \/ CallerPanics \/ DisplayFails \/ Finish
  BY <1>1, CallBuilds, MalformedBuilds, CallerStops, FinishBuilds
<1>2. CASE \E h \in Handles, item \in {"char", "str", "owned"}, n \in Sizes : Extend(h, item, n)
  BY <1>2, ExtendBuilds
<1>3. CASE \E k \in Handles, item \in {"char", "str"}, into \in Types, n \in Sizes :
              Collect(k, item, into, n) \/ Decode(k, item, into, n)
  BY <1>3, CollectBuilds, DecodeBuilds
<1>4. CASE \E k, g \in Handles, into \in Types : CollectOwned(k, g, into)
  BY <1>4, CollectOwnedBuilds
<1>5. CASE \E k \in Handles, into \in Types : Format(k, into)
  BY <1>5, FormatBuilds
<1>6. CASE \E k \in Handles, into \in Types, s \in Args : FormatLiteral(k, into, s)
  BY <1>6, LiteralBuilds
<1>7. CASE \E s \in Args : Item(s) \/ WriteStr(s)
  BY <1>7, ItemBuilds, WriteBuilds
<1>8. CASE \E g \in Handles : ItemOwned(g)
  BY <1>8, ItemOwnedBuilds
<1> QED
  BY <1>1, <1>2, <1>3, <1>4, <1>5, <1>6, <1>7, <1>8 DEF BuildNext

\* Between two steps of a build and of the caller's code, the handles and blocks are good,
\* and the text under construction consists of the pieces handed over.
THEOREM BuildsStayGood == BuildSpec => []BuildGood
<1>1. BuildInit => BuildGood
  BY InitGood DEF BuildInit, BuildGood, IsJob, Holds
<1>2. BuildGood /\ [BuildNext]_buildVars => BuildGood'
  <2>1. ASSUME BuildGood, BuildNext PROVE BuildGood'
    BY <2>1, BuildStep DEF BuildActs
  <2>2. ASSUME BuildGood, UNCHANGED buildVars PROVE BuildGood'
    <3>1. UNCHANGED <<handle, heap, job>>
      BY <2>2 DEF buildVars, vars
    <3> QED
      BY <2>2, <3>1 DEF BuildGood, Good, Live
  <2> QED
    BY <2>1, <2>2
<1> QED
  BY <1>1, <1>2, PTL DEF BuildSpec

\* Whatever the caller's code does between two pieces, the text under construction is
\* what was handed over; after a failed write there is none.
THEOREM TextsAreBuiltFromPieces == BuildSpec => []BuiltFromPieces
<1>1. BuildGood => BuiltFromPieces
  BY HoldsIs DEF BuildGood
<1> QED
  BY <1>1, BuildsStayGood, PTL

\* Builders that stop, panic or fail half way, and the strings they consume, leave no
\* block leaked, freed too early or counted wrongly.
THEOREM BuildersCountBlocks == BuildSpec => []BlocksCounted
<1>1. BuildGood => BlocksCounted
  BY GoodIs DEF BuildGood
<1> QED
  BY <1>1, BuildsStayGood, PTL

\* as_str is sound for every handle while texts are being built.
THEOREM BuildersKeepTextsReadable == BuildSpec => []TextsReadable
<1>1. BuildGood => TextsReadable
  BY GoodIs DEF BuildGood
<1> QED
  BY <1>1, BuildsStayGood, PTL

\* to_lean_string and to_lean_str report success only if every write succeeded, and then
\* return all of it.
THEOREM FormattersReport == BuildSpec => FormatReports
<1>1. BuildGood /\ [BuildNext]_buildVars => [Reports]_buildVars
  BY BuildStep DEF BuildActs
<1>2. [][Reports]_buildVars => FormatReports
  <2>1. [Reports]_buildVars =>
          [job.by = "format" /\ job' = NoJob =>
             IF io'.ret = "ok"
             THEN /\ handle'[job.h].ty = job.into /\ AsBytes(handle'[job.h], heap') = job.asked
                  /\ ~job.failed
             ELSE job.h \notin Live']_buildVars
    BY DEF Reports
  <2> QED
    BY <2>1, PTL DEF FormatReports
<1> QED
  BY <1>1, <1>2, BuildsStayGood, PTL DEF BuildSpec

\* Seen through as_str, building texts piece by piece, with any calls in between, is a
\* behaviour of StringApi.
THEOREM BuildersImplementApi == BuildSpec => ImplementsApi
<1>1. BuildInit => Api!Init
  <2>1. SUFFICES ASSUME BuildInit PROVE Api!Init
    OBVIOUS
  <2>2. [h \in Live |-> TextAt(h)] = <<>>
    BY <2>1 DEF BuildInit, Init, Live
  <2> QED
    BY <2>1, <2>2 DEF BuildInit, Init, Api!Init
<1>2. BuildGood /\ [BuildNext]_buildVars => [Api!Next]_(Api!vars)
  <2>1. ASSUME BuildGood, BuildNext PROVE Api!Next
    BY <2>1, BuildStep, EndedIsApiStep DEF BuildActs
  <2>2. ASSUME UNCHANGED buildVars PROVE UNCHANGED Api!vars
    BY <2>2 DEF buildVars, vars, Api!vars, Live, TextAt
  <2> QED
    BY <2>1, <2>2
<1> QED
  BY <1>1, <1>2, BuildsStayGood, PTL DEF BuildSpec, ImplementsApi, Api!Spec

\* Calls with nothing to do copy nothing while texts are being built.
THEOREM IdleCallsCopyNothingMeanwhile == BuildSpec => IdleCallsKeepSharing
<1>1. ASSUME BuildGood, BuildNext
      PROVE  LET h == io'.call[2] IN
             /\ h \in Strings /\ h \in Live' =>
                   (NothingToDo(io'.call, TextAt(h), AsBytes(handle'[h], heap')) => handle' = handle)
             /\ io'.call[1] \in {"to_case", "to_ascii_case"} /\ io'.ret = "ok" =>
                   LET r == handle'[io'.call[3]]
                   IN  AsBytes(r, heap') = TextAt(h) => r = handle[h]
  <2>1. PICK c : Ended(c, Api!Allowed(c)) /\ Quiet(c)
    BY <1>1, BuildStep DEF BuildActs
  <2>2. io'.call = c
    BY <2>1 DEF Ended
  <2> QED
    BY <2>1, <2>2 DEF Quiet, Shares
<1>2. BuildGood /\ [BuildNext]_buildVars =>
        [LET h == io'.call[2] IN
         /\ h \in Strings /\ h \in Live' =>
               (NothingToDo(io'.call, TextAt(h), AsBytes(handle'[h], heap')) => handle' = handle)
         /\ io'.call[1] \in {"to_case", "to_ascii_case"} /\ io'.ret = "ok" =>
               LET r == handle'[io'.call[3]]
               IN  AsBytes(r, heap') = TextAt(h) => r = handle[h]]_vars
  BY <1>1 DEF buildVars
<1> QED
  BY <1>2, BuildsStayGood, PTL DEF BuildSpec, IdleCallsKeepSharing
=============================================================================
