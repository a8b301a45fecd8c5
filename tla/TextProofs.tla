----------------------------- MODULE TextProofs -----------------------------
(***************************************************************************)
(* Facts about texts: sequences of bytes, the moves of Utf8, and what a    *)
(* search over a text finds.  Induction is over sets of numbers: a set     *)
(* that has 0 and with each number the next has them all.                  *)
(***************************************************************************)
EXTENDS CaseMap, WellFoundedInduction, FiniteSetTheorems, TLAPS

-----------------------------------------------------------------------------
(* Numbers.                                                                *)

\* A set of natural numbers that is not empty has a least element.
LEMMA LeastExists ==
    ASSUME NEW T, T \subseteq Nat, T # {}
    PROVE  \E x \in T : \A y \in T : x <= y
<1>1. IsWellFoundedOn(OpToRel(<, Nat), Nat)
  BY NatLessThanWellFounded
<1>2. PICK x \in T : \A y \in T : ~ (<<y, x>> \in OpToRel(<, Nat))
  BY <1>1, WFMin
<1>3. \A y \in T : ~ (y < x)
  BY <1>2 DEF OpToRel
<1> QED
  BY <1>3

\* Induction, for a set.
LEMMA Induction ==
    ASSUME NEW S, 0 \in S, \A n \in Nat : n \in S => n + 1 \in S
    PROVE  \A n \in Nat : n \in S
<1>1. SUFFICES ASSUME Nat \ S # {} PROVE FALSE
  OBVIOUS
<1>2. PICK x \in Nat \ S : \A y \in Nat \ S : x <= y
  BY <1>1, LeastExists
<1>3. x - 1 \in Nat
  OBVIOUS
<1>4. x - 1 \in S
  BY <1>2, <1>3
<1> QED
  BY <1>3, <1>4

\* Min of a set of natural numbers.
LEMMA MinIs ==
    ASSUME NEW T, T \subseteq Nat, T # {}
    PROVE  Min(T) \in T /\ \A y \in T : Min(T) <= y
BY LeastExists DEF Min

\* Max of a bounded set of natural numbers.
LEMMA MaxIs ==
    ASSUME NEW T, T \subseteq Nat, T # {}, NEW n \in Nat, \A y \in T : y <= n
    PROVE  Max(T) \in T /\ \A y \in T : y <= Max(T)
<1> DEFINE U == {i \in Nat : \A y \in T : y <= i}
<1>1. PICK x \in U : \A y \in U : x <= y
  BY LeastExists
<1>2. x \in T
  <2>1. SUFFICES ASSUME x \notin T PROVE FALSE
    OBVIOUS
  <2>2. \A y \in T : y < x
    BY <2>1
  <2>3. x # 0
    <3>1. PICK y : y \in T
      OBVIOUS
    <3> QED
      BY <2>2, <3>1
  <2>4. x - 1 \in U
    BY <2>2, <2>3
  <2> QED
    BY <1>1, <2>4
<1> QED
  BY <1>2 DEF Max

\* Max of two numbers.
LEMMA MaxOfTwo ==
    ASSUME NEW a \in Nat, NEW b \in Nat
    PROVE  Max({a, b}) \in {a, b} /\ Max({a, b}) >= a /\ Max({a, b}) >= b
<1>1. \E x \in {a, b} : \A y \in {a, b} : x >= y
  BY a >= b \/ b >= a
<1> QED
  BY <1>1 DEF Max

-----------------------------------------------------------------------------
(* Sequences.                                                              *)

\* Sequences with the same elements are equal.
LEMMA SameSeq ==
    ASSUME NEW S, NEW s \in Seq(S), NEW t \in Seq(S), Len(s) = Len(t),
           \A i \in 1..Len(s) : s[i] = t[i]
    PROVE  s = t
OBVIOUS

\* A function on 1..n is a sequence of length n.
LEMMA FunctionIsSeq ==
    ASSUME NEW S, NEW n \in Nat, NEW f \in [1..n -> S]
    PROVE  f \in Seq(S) /\ Len(f) = n /\ DOMAIN f = 1..n
OBVIOUS

\* The elements of a sequence, and the sequence without any.
LEMMA ElementIs ==
    ASSUME NEW S, NEW s \in Seq(S), NEW i \in 1..Len(s)
    PROVE  s[i] \in S
OBVIOUS

\* A text of length zero is the empty one.
LEMMA EmptyIs ==
    ASSUME NEW S, NEW s \in Seq(S), Len(s) = 0
    PROVE  s = <<>>
<1>1. <<>> \in Seq(S) /\ Len(<<>>) = 0
  OBVIOUS
<1> QED
  BY <1>1, SameSeq

-----------------------------------------------------------------------------
(* Bytes that move.                                                        *)

\* A part of a sequence.
LEMMA PartIs ==
    ASSUME NEW S, NEW d \in Seq(S), NEW i \in Nat \ {0}, NEW j \in Nat, j <= Len(d)
    PROVE  /\ SubSeq(d, i, j) \in Seq(S)
           /\ Len(SubSeq(d, i, j)) = IF i <= j THEN j - i + 1 ELSE 0
           /\ \A k \in 1..Len(SubSeq(d, i, j)) : SubSeq(d, i, j)[k] = d[i + k - 1]
OBVIOUS

\* Two sequences one after the other.
LEMMA JoinIs ==
    ASSUME NEW S, NEW s \in Seq(S), NEW t \in Seq(S)
    PROVE  /\ s \o t \in Seq(S)
           /\ Len(s \o t) = Len(s) + Len(t)
           /\ \A i \in 1..Len(s) : (s \o t)[i] = s[i]
           /\ \A i \in 1..Len(t) : (s \o t)[Len(s) + i] = t[i]
           /\ \A i \in Nat : i > Len(s) /\ i <= Len(s) + Len(t) => (s \o t)[i] = t[i - Len(s)]
OBVIOUS

\* Pad keeps the first n bytes.
LEMMA PadIs ==
    ASSUME NEW S, Uninit \in S, NEW d \in Seq(S), NEW n \in Nat, n <= Len(d),
           NEW cap \in Nat
    PROVE  /\ Pad(d, n, cap) \in Seq(S)
           /\ Len(Pad(d, n, cap)) = cap
           /\ \A i \in 1..cap : i <= n => Pad(d, n, cap)[i] = d[i]
           /\ \A k \in Nat : k <= n /\ k <= cap => SubSeq(Pad(d, n, cap), 1, k) = SubSeq(d, 1, k)
<1> DEFINE p == Pad(d, n, cap)
<1>1. p \in [1..cap -> S]
  BY DEF Pad
<1>2. p \in Seq(S) /\ Len(p) = cap
  BY <1>1, FunctionIsSeq
<1>3. \A i \in 1..cap : i <= n => p[i] = d[i]
  BY DEF Pad
<1>4. ASSUME NEW k \in Nat, k <= n, k <= cap
      PROVE  SubSeq(p, 1, k) = SubSeq(d, 1, k)
  <2> HIDE DEF p
  <2>1. SubSeq(p, 1, k) \in Seq(S) /\ SubSeq(d, 1, k) \in Seq(S)
    BY <1>2, <1>4
  <2>2. Len(SubSeq(p, 1, k)) = k /\ Len(SubSeq(d, 1, k)) = k
    BY <1>2, <1>4
  <2>3. \A i \in 1..k : SubSeq(p, 1, k)[i] = SubSeq(d, 1, k)[i]
    BY <1>2, <1>3, <1>4
  <2> QED
    BY <2>1, <2>2, <2>3, SameSeq
<1> QED
  BY <1>2, <1>3, <1>4

\* The bytes Pad keeps, at once.
LEMMA PadKeeps ==
    ASSUME NEW S, Uninit \in S, NEW d \in Seq(S), NEW n \in Nat, n <= Len(d), NEW cap \in Nat, n <= cap
    PROVE  /\ Pad(d, n, cap) \in Seq(S) /\ Len(Pad(d, n, cap)) = cap
           /\ SubSeq(Pad(d, n, cap), 1, n) = SubSeq(d, 1, n)
<1>1. Pad(d, n, cap) \in Seq(S) /\ Len(Pad(d, n, cap)) = cap
  BY PadIs
<1>2. \A k \in Nat : k <= n /\ k <= cap => SubSeq(Pad(d, n, cap), 1, k) = SubSeq(d, 1, k)
  BY PadIs
<1> QED
  BY <1>1, <1>2

\* CopyFrom writes s at dst and nothing else.
LEMMA CopyFromIs ==
    ASSUME NEW S, NEW d \in Seq(S), NEW s \in Seq(S), NEW dst \in Nat, dst + Len(s) <= Len(d)
    PROVE  /\ CopyFrom(d, s, dst) \in Seq(S)
           /\ Len(CopyFrom(d, s, dst)) = Len(d)
           /\ \A i \in 1..Len(d) : CopyFrom(d, s, dst)[i] =
                 IF dst < i /\ i <= dst + Len(s) THEN s[i - dst] ELSE d[i]
<1>1. CopyFrom(d, s, dst) = [i \in 1..Len(d) |-> IF i \in dst + 1..dst + Len(s) THEN s[i - dst] ELSE d[i]]
  BY DEF CopyFrom
<1>2. ASSUME NEW i \in 1..Len(d) PROVE (IF i \in dst + 1..dst + Len(s) THEN s[i - dst] ELSE d[i]) \in S
  <2>1. CASE i \in dst + 1..dst + Len(s)
    <3>1. i - dst \in 1..Len(s)
      BY <2>1
    <3> QED
      BY <2>1, <3>1
  <2>2. CASE i \notin dst + 1..dst + Len(s)
    BY <2>2
  <2> QED
    BY <2>1, <2>2
<1>3. CopyFrom(d, s, dst) \in [1..Len(d) -> S]
  BY <1>1, <1>2
<1>4. Len(d) \in Nat
  OBVIOUS
<1>5. CopyFrom(d, s, dst) \in Seq(S) /\ Len(CopyFrom(d, s, dst)) = Len(d)
  BY <1>3, <1>4, FunctionIsSeq
<1>6. \A i \in 1..Len(d) : CopyFrom(d, s, dst)[i] =
         IF dst < i /\ i <= dst + Len(s) THEN s[i - dst] ELSE d[i]
  BY <1>1
<1> QED
  BY <1>5, <1>6

\* CopyWithin moves n bytes, whether or not source and destination overlap.
LEMMA CopyWithinIs ==
    ASSUME NEW S, NEW d \in Seq(S), NEW src \in Nat, NEW dst \in Nat, NEW n \in Nat,
           src + n <= Len(d), dst + n <= Len(d)
    PROVE  /\ CopyWithin(d, src, dst, n) \in Seq(S)
           /\ Len(CopyWithin(d, src, dst, n)) = Len(d)
           /\ \A i \in 1..Len(d) : CopyWithin(d, src, dst, n)[i] =
                 IF dst < i /\ i <= dst + n THEN d[i - dst + src] ELSE d[i]
<1> DEFINE e == CopyWithin(d, src, dst, n)
<1>1. e = [i \in 1..Len(d) |-> IF i \in dst + 1..dst + n THEN d[i - dst + src] ELSE d[i]]
  BY DEF CopyWithin
<1>2. ASSUME NEW i \in 1..Len(d) PROVE (IF i \in dst + 1..dst + n THEN d[i - dst + src] ELSE d[i]) \in S
  <2>1. CASE i \in dst + 1..dst + n
    <3>1. i - dst + src \in 1..Len(d)
      BY <2>1
    <3> QED
      BY <2>1, <3>1
  <2>2. CASE i \notin dst + 1..dst + n
    BY <2>2
  <2> QED
    BY <2>1, <2>2
<1>3. e \in [1..Len(d) -> S]
  BY <1>1, <1>2
<1>4. Len(d) \in Nat
  OBVIOUS
<1>5. e \in Seq(S) /\ Len(e) = Len(d)
  BY <1>3, <1>4, FunctionIsSeq
<1>6. \A i \in 1..Len(d) : e[i] = IF dst < i /\ i <= dst + n THEN d[i - dst + src] ELSE d[i]
  BY <1>1
<1> QED
  BY <1>5, <1>6

\* t with its bytes from i to j replaced by s.
Splice(t, i, j, s) == SubSeq(t, 1, i) \o s \o SubSeq(t, j + 1, Len(t))

\* Byte number k of it.
SpliceAt(t, i, j, s, k) ==
    IF k <= i THEN t[k] ELSE IF k <= i + Len(s) THEN s[k - i] ELSE t[k - Len(s) - i + j]

\* The bytes of a splice.
LEMMA SpliceIs ==
    ASSUME NEW S, NEW t \in Seq(S), NEW s \in Seq(S), NEW i \in Nat, NEW j \in Nat,
           i <= j, j <= Len(t)
    PROVE  /\ Splice(t, i, j, s) \in Seq(S)
           /\ Len(Splice(t, i, j, s)) = Len(t) - (j - i) + Len(s)
           /\ \A k \in 1..Len(Splice(t, i, j, s)) : Splice(t, i, j, s)[k] = SpliceAt(t, i, j, s, k)
<1> DEFINE a == SubSeq(t, 1, i)
           b == SubSeq(t, j + 1, Len(t))
<1>1. PICK n \in Nat : n = Len(t)
  OBVIOUS
<1>2. PICK l \in Nat : l = Len(s)
  OBVIOUS
<1>3. a \in Seq(S) /\ Len(a) = i /\ \A k \in 1..i : a[k] = t[k]
  BY <1>1
<1>4. b \in Seq(S) /\ Len(b) = n - j /\ \A k \in 1..n - j : b[k] = t[j + k]
  BY <1>1
<1> HIDE DEF a, b
<1>5. /\ a \o s \in Seq(S) /\ Len(a \o s) = i + l
      /\ \A k \in 1..i + l : (a \o s)[k] = IF k <= i THEN t[k] ELSE s[k - i]
  BY <1>2, <1>3
<1>6. PICK c \in Seq(S) : c = a \o s
  BY <1>5
<1>7. /\ c \o b \in Seq(S) /\ Len(c \o b) = i + l + n - j
      /\ \A k \in 1..i + l + n - j : (c \o b)[k] = IF k <= i + l THEN c[k] ELSE b[k - i - l]
  <2>0. n - j \in Nat
    BY <1>1
  <2>1. PICK w \in Nat : w = n - j
    BY <2>0
  <2>2. PICK v \in Nat : v = i + l
    OBVIOUS
  <2>3. b \in Seq(S) /\ Len(b) = w /\ Len(c) = v
    BY <1>4, <1>5, <1>6, <2>1, <2>2
  <2>4. /\ c \o b \in Seq(S) /\ Len(c \o b) = v + w
        /\ \A k \in 1..v + w : (c \o b)[k] = IF k <= v THEN c[k] ELSE b[k - v]
    BY <1>6, <2>1, <2>2, <2>3
  <2>5. v + w = i + l + n - j /\ \A k \in Nat : k - v = k - i - l
    BY <2>1, <2>2
  <2> QED
    BY <2>2, <2>4, <2>5
<1>8. Splice(t, i, j, s) = c \o b
  BY <1>6 DEF Splice, a, b
<1>9. ASSUME NEW k \in 1..i + l + n - j
      PROVE  (c \o b)[k] = IF k <= i THEN t[k] ELSE IF k <= i + l THEN s[k - i] ELSE t[k - l - i + j]
  <2>0. k \in Nat /\ i + l + n - j \in Int
    BY <1>1
  <2>1. CASE k <= i + l
    BY <1>5, <1>6, <1>7, <2>1
  <2>2. CASE k > i + l
    <3>1. k - i - l \in 1..n - j
      BY <2>2
    <3>2. (c \o b)[k] = b[k - i - l]
      BY <1>7, <2>2
    <3>3. b[k - i - l] = t[j + (k - i - l)]
      BY <1>4, <3>1
    <3>4. j + (k - i - l) = k - l - i + j
      BY <1>2
    <3> QED
      BY <2>2, <3>2, <3>3, <3>4
  <2> QED
    <3>1. k <= i + l \/ k > i + l
      BY <1>2, <2>0
    <3> QED
      BY <2>1, <2>2, <3>1, Zenon
<1> QED
  BY <1>1, <1>2, <1>7, <1>8, <1>9 DEF SpliceAt

\* To splice in place: the tail moves to its new offset, then s fills the gap. (What
\* insert_str, insert_char, remove and replace_range do to a buffer d that starts with t.)
LEMMA SplicedInPlace ==
    ASSUME NEW S, NEW d \in Seq(S), NEW s \in Seq(S), NEW k \in Nat, k <= Len(d),
           NEW i \in Nat, NEW j \in Nat, i <= j, j <= k, k - (j - i) + Len(s) <= Len(d)
    PROVE  LET e == CopyFrom(CopyWithin(d, j, i + Len(s), k - j), s, i)
           IN  /\ e \in Seq(S) /\ Len(e) = Len(d)
               /\ SubSeq(e, 1, k - (j - i) + Len(s)) = Splice(SubSeq(d, 1, k), i, j, s)
<1> DEFINE c == CopyWithin(d, j, i + Len(s), k - j)
           e == CopyFrom(c, s, i)
           t == SubSeq(d, 1, k)
<1>1. PICK n \in Nat : n = Len(d)
  OBVIOUS
<1>2. PICK l \in Nat : l = Len(s)
  OBVIOUS
<1>3. /\ c \in Seq(S) /\ Len(c) = n
      /\ \A x \in 1..n : c[x] = IF i + l < x /\ x <= i + l + (k - j) THEN d[x - (i + l) + j] ELSE d[x]
  <2>1. i + l \in Nat /\ k - j \in Nat /\ j + (k - j) <= n /\ i + l + (k - j) <= n
    BY <1>1, <1>2
  <2>2. c = CopyWithin(d, j, i + l, k - j)
    BY <1>2
  <2> HIDE DEF c
  <2>3. PICK x \in Nat, y \in Nat : x = i + l /\ y = k - j
    BY <2>1
  <2>4. d \in Seq(S) /\ j \in Nat /\ x \in Nat /\ y \in Nat /\ j + y <= Len(d) /\ x + y <= Len(d)
    BY <1>1, <2>1, <2>3
  <2>5. /\ CopyWithin(d, j, x, y) \in Seq(S)
        /\ Len(CopyWithin(d, j, x, y)) = Len(d)
        /\ \A z \in 1..Len(d) : CopyWithin(d, j, x, y)[z] =
              IF x < z /\ z <= x + y THEN d[z - x + j] ELSE d[z]
    BY ONLY <2>4, CopyWithinIs
  <2> QED
    BY <1>1, <2>2, <2>3, <2>5
<1> HIDE DEF c
<1>4. /\ e \in Seq(S) /\ Len(e) = n
      /\ \A x \in 1..n : e[x] = IF i < x /\ x <= i + l THEN s[x - i] ELSE c[x]
  <2>1. c \in Seq(S) /\ s \in Seq(S) /\ i \in Nat /\ i + Len(s) <= Len(c)
    BY <1>1, <1>2, <1>3
  <2>2. /\ CopyFrom(c, s, i) \in Seq(S)
        /\ Len(CopyFrom(c, s, i)) = Len(c)
        /\ \A x \in 1..Len(c) : CopyFrom(c, s, i)[x] =
              IF i < x /\ x <= i + Len(s) THEN s[x - i] ELSE c[x]
    BY ONLY <2>1, CopyFromIs
  <2> QED
    BY <1>1, <1>2, <1>3, <2>2
<1> HIDE DEF e
<1>5. t \in Seq(S) /\ Len(t) = k /\ \A x \in 1..k : t[x] = d[x]
  BY <1>1
<1> HIDE DEF t
<1>6. PICK w \in Nat : w = k - (j - i) + l
  OBVIOUS
<1>7. /\ Splice(t, i, j, s) \in Seq(S) /\ Len(Splice(t, i, j, s)) = w
      /\ \A x \in 1..w : Splice(t, i, j, s)[x] =
            IF x <= i THEN t[x] ELSE IF x <= i + l THEN s[x - i] ELSE t[x - l - i + j]
  <2>1. j <= Len(t) /\ t \in Seq(S)
    BY <1>5
  <2>2. /\ Splice(t, i, j, s) \in Seq(S)
        /\ Len(Splice(t, i, j, s)) = Len(t) - (j - i) + Len(s)
        /\ \A x \in 1..Len(Splice(t, i, j, s)) : Splice(t, i, j, s)[x] = SpliceAt(t, i, j, s, x)
    BY <2>1, SpliceIs
  <2>3. \A x : SpliceAt(t, i, j, s, x) =
           IF x <= i THEN t[x] ELSE IF x <= i + l THEN s[x - i] ELSE t[x - l - i + j]
    BY <1>2 DEF SpliceAt
  <2> QED
    BY <1>2, <1>5, <1>6, <2>2, <2>3
<1>8. w <= n
  BY <1>1, <1>2, <1>6
<1>9. SubSeq(e, 1, w) \in Seq(S) /\ Len(SubSeq(e, 1, w)) = w /\ \A x \in 1..w : SubSeq(e, 1, w)[x] = e[x]
  BY <1>4, <1>8
<1>10. ASSUME NEW x \in 1..w PROVE SubSeq(e, 1, w)[x] = Splice(t, i, j, s)[x]
  <2>1. x \in 1..n
    BY <1>8
  <2>2. CASE x <= i
    <3>1. e[x] = d[x]
      BY <1>3, <1>4, <2>1, <2>2
    <3> QED
      BY <1>5, <1>7, <1>9, <2>2, <3>1
  <2>3. CASE i < x /\ x <= i + l
    BY <1>4, <1>7, <1>9, <2>1, <2>3
  <2>4. CASE i + l < x
    <3>1. x <= i + l + (k - j)
      BY <1>6
    <3>2. e[x] = d[x - (i + l) + j]
      BY <1>3, <1>4, <2>1, <2>4, <3>1
    <3>3. x - (i + l) + j \in 1..k
      BY <2>4, <3>1
    <3>4. x - (i + l) + j = x - l - i + j
      OBVIOUS
    <3> QED
      BY <1>5, <1>7, <1>9, <2>4, <3>2, <3>3, <3>4
  <2> QED
    BY <2>2, <2>3, <2>4
<1>11. SubSeq(e, 1, w) = Splice(t, i, j, s)
  BY <1>7, <1>9, <1>10, SameSeq
<1> QED
  BY <1>1, <1>2, <1>4, <1>6, <1>11 DEF e, c, t

\* To append in place (push_str, push).
LEMMA AppendedInPlace ==
    ASSUME NEW S, NEW d \in Seq(S), NEW s \in Seq(S), NEW k \in Nat, k + Len(s) <= Len(d)
    PROVE  /\ CopyFrom(d, s, k) \in Seq(S) /\ Len(CopyFrom(d, s, k)) = Len(d)
           /\ SubSeq(CopyFrom(d, s, k), 1, k + Len(s)) = SubSeq(d, 1, k) \o s
<1> DEFINE e == CopyFrom(d, s, k)
           t == SubSeq(d, 1, k)
<1>1. PICK n \in Nat : n = Len(d)
  OBVIOUS
<1>2. PICK l \in Nat : l = Len(s)
  OBVIOUS
<1>3. /\ e \in Seq(S) /\ Len(e) = n
      /\ \A x \in 1..n : e[x] = IF k < x /\ x <= k + l THEN s[x - k] ELSE d[x]
  BY <1>1, <1>2, CopyFromIs
<1> HIDE DEF e
<1>4. t \in Seq(S) /\ Len(t) = k /\ \A x \in 1..k : t[x] = d[x]
  BY <1>1, <1>2
<1> HIDE DEF t
<1>5. k + l <= n
  BY <1>1, <1>2
<1>6. SubSeq(e, 1, k + l) \in Seq(S) /\ Len(SubSeq(e, 1, k + l)) = k + l
      /\ \A x \in 1..k + l : SubSeq(e, 1, k + l)[x] = e[x]
  BY <1>2, <1>3, <1>5
<1>7. t \o s \in Seq(S) /\ Len(t \o s) = k + l
      /\ \A x \in 1..k + l : (t \o s)[x] = IF x <= k THEN t[x] ELSE s[x - k]
  BY <1>2, <1>4
<1>8. ASSUME NEW x \in 1..k + l PROVE SubSeq(e, 1, k + l)[x] = (t \o s)[x]
  <2>1. x \in 1..n
    BY <1>1, <1>2, <1>5
  <2>2. SubSeq(e, 1, k + l)[x] = IF k < x THEN s[x - k] ELSE d[x]
    BY <1>2, <1>3, <1>6, <2>1
  <2> QED
    BY <1>2, <1>4, <1>7, <2>2
<1>9. SubSeq(e, 1, k + l) = t \o s
  BY <1>6, <1>7, <1>8, SameSeq
<1> QED
  BY <1>1, <1>2, <1>3, <1>9 DEF e, t

\* t, and n bytes of it from offset i once more.
Extended(t, i, n) == t \o SubSeq(t, i + 1, i + n)

\* To append a part of the text itself (extend_from_within).
LEMMA ExtendedInPlace ==
    ASSUME NEW S, NEW d \in Seq(S), NEW k \in Nat, NEW i \in Nat, NEW n \in Nat,
           i + n <= k, k + n <= Len(d)
    PROVE  /\ CopyWithin(d, i, k, n) \in Seq(S) /\ Len(CopyWithin(d, i, k, n)) = Len(d)
           /\ SubSeq(CopyWithin(d, i, k, n), 1, k + n) = Extended(SubSeq(d, 1, k), i, n)
<1> DEFINE e == CopyWithin(d, i, k, n)
           t == SubSeq(d, 1, k)
           s == SubSeq(t, i + 1, i + n)
<1>1. PICK w \in Nat : w = Len(d)
  OBVIOUS
<1>2. /\ e \in Seq(S) /\ Len(e) = w
      /\ \A x \in 1..w : e[x] = IF k < x /\ x <= k + n THEN d[x - k + i] ELSE d[x]
  BY <1>1, CopyWithinIs
<1> HIDE DEF e
<1>3. t \in Seq(S) /\ Len(t) = k /\ \A x \in 1..k : t[x] = d[x]
  BY <1>1
<1> HIDE DEF t
<1>4. s \in Seq(S) /\ Len(s) = n /\ \A x \in 1..n : s[x] = t[x + i]
  <2>1. i + 1 \in Nat \ {0} /\ i + n \in Nat /\ i + n <= Len(t)
    BY <1>3
  <2>2. s \in Seq(S) /\ Len(s) = n
    BY <1>3, <2>1
  <2>3. ASSUME NEW x \in 1..n PROVE s[x] = t[x + i]
    <3>1. s[x] = t[i + 1 + x - 1]
      BY <1>3, <2>1, <2>2, PartIs
    <3>2. i + 1 + x - 1 = x + i
      OBVIOUS
    <3> QED
      BY <3>1, <3>2
  <2> QED
    BY <2>2, <2>3
<1> HIDE DEF s
<1>5. SubSeq(e, 1, k + n) \in Seq(S) /\ Len(SubSeq(e, 1, k + n)) = k + n
      /\ \A x \in 1..k + n : SubSeq(e, 1, k + n)[x] = e[x]
  BY <1>1, <1>2
<1>6. t \o s \in Seq(S) /\ Len(t \o s) = k + n
      /\ \A x \in 1..k + n : (t \o s)[x] = IF x <= k THEN t[x] ELSE s[x - k]
  <2>0. t \in Seq(S) /\ s \in Seq(S) /\ Len(t) = k /\ Len(s) = n
    BY <1>3, <1>4
  <2>1. t \o s \in Seq(S) /\ Len(t \o s) = k + n
    BY <2>0
  <2>2. ASSUME NEW x \in 1..k + n PROVE (t \o s)[x] = IF x <= k THEN t[x] ELSE s[x - k]
    BY <1>3, <1>4
  <2> QED
    BY <2>1, <2>2
<1>7. ASSUME NEW x \in 1..k + n PROVE SubSeq(e, 1, k + n)[x] = (t \o s)[x]
  <2>1. x \in 1..w
    BY <1>1
  <2>2. CASE x <= k
    <3>1. x \in 1..k
      BY <2>2
    <3>2. (t \o s)[x] = t[x] /\ SubSeq(e, 1, k + n)[x] = e[x]
      BY <1>5, <1>6, <2>2
    <3> QED
      BY <1>2, <1>3, <2>1, <2>2, <3>1, <3>2
  <2>3. CASE x > k
    <3>1. x - k \in 1..n /\ x - k + i \in 1..k
      BY <2>3
    <3>2. (t \o s)[x] = s[x - k]
      BY <1>6, <2>3
    <3>3. s[x - k] = t[x - k + i]
      BY <1>4, <3>1
    <3>4. t[x - k + i] = d[x - k + i]
      BY <1>3, <3>1
    <3>5. e[x] = d[x - k + i]
      BY <1>2, <2>1, <2>3
    <3> QED
      BY <1>5, <3>2, <3>3, <3>4, <3>5
  <2>4. x <= k \/ x > k
    OBVIOUS
  <2> QED
    BY <2>2, <2>3, <2>4, Zenon
<1>8. SubSeq(e, 1, k + n) = t \o s
  BY <1>5, <1>6, <1>7, SameSeq
<1> QED
  BY <1>1, <1>2, <1>8 DEF e, t, s, Extended

\* A removal in place.
LEMMA RemovedInPlace ==
    ASSUME NEW S, NEW d \in Seq(S), NEW k \in Nat, k <= Len(d),
           NEW i \in Nat, NEW j \in Nat, i <= j, j <= k
    PROVE  LET e == CopyWithin(d, j, i, k - j)
           IN  /\ e \in Seq(S) /\ Len(e) = Len(d)
               /\ SubSeq(e, 1, k - (j - i)) = Splice(SubSeq(d, 1, k), i, j, <<>>)
<1> DEFINE e == CopyWithin(d, j, i, k - j)
<1>1. PICK s \in Seq(S) : s = <<>> /\ Len(s) = 0
  <2>1. <<>> \in Seq(S) /\ Len(<<>>) = 0
    OBVIOUS
  <2> QED
    BY <2>1
<1>2. i + Len(s) = i /\ k - (j - i) + Len(s) = k - (j - i) /\ k - (j - i) + Len(s) <= Len(d)
  BY <1>1
<1>3. /\ CopyFrom(e, s, i) \in Seq(S) /\ Len(CopyFrom(e, s, i)) = Len(d)
      /\ SubSeq(CopyFrom(e, s, i), 1, k - (j - i)) = Splice(SubSeq(d, 1, k), i, j, s)
  <2> DEFINE f == CopyFrom(CopyWithin(d, j, i + Len(s), k - j), s, i)
  <2>1. /\ f \in Seq(S) /\ Len(f) = Len(d)
        /\ SubSeq(f, 1, k - (j - i) + Len(s)) = Splice(SubSeq(d, 1, k), i, j, s)
    <3>1. d \in Seq(S) /\ s \in Seq(S) /\ k \in Nat /\ i \in Nat /\ j \in Nat
          /\ k <= Len(d) /\ i <= j /\ j <= k /\ k - (j - i) + Len(s) <= Len(d)
      BY <1>2
    <3> QED
      BY ONLY <3>1, SplicedInPlace
  <2> QED
    BY <1>2, <2>1
<1>4. e \in Seq(S) /\ Len(e) = Len(d)
  <2>1. k - j \in Nat /\ j + (k - j) <= Len(d) /\ i + (k - j) <= Len(d)
    OBVIOUS
  <2> QED
    BY <2>1, CopyWithinIs
<1> HIDE DEF e
<1>5. CopyFrom(e, s, i) = e
  BY <1>1, <1>4 DEF CopyFrom
<1> QED
  BY <1>1, <1>3, <1>4, <1>5 DEF e

-----------------------------------------------------------------------------
(* Characters.                                                             *)

\* The bytes are of three kinds.
LEMMA ByteKinds ==
    ASSUME NEW b \in Bytes
    PROVE  /\ b \in Ascii \/ b = "e1" \/ b \in Trailing
           /\ "e1" \notin Trailing /\ "e1" \notin Ascii
           /\ (b \in Ascii => b \notin Trailing /\ b # "e1")
BY DEF Bytes, Ascii, Trailing

\* UTF-8, for bytes.
LEMMA Utf8Is ==
    ASSUME NEW t \in Seq(Bytes)
    PROVE  IsUtf8(t) <=> \A i \in 1..Len(t) :
              /\ t[i] = "e1" => i < Len(t) /\ t[i + 1] \in Trailing
              /\ t[i] \in Trailing => i > 1 /\ t[i - 1] = "e1"
BY DEF IsUtf8, Bytes

\* Two texts one after the other.
LEMMA JoinUtf8 ==
    ASSUME NEW s \in Seq(Bytes), IsUtf8(s), NEW t \in Seq(Bytes), IsUtf8(t)
    PROVE  s \o t \in Seq(Bytes) /\ IsUtf8(s \o t)
<1> DEFINE u == s \o t
<1>1. PICK n \in Nat : n = Len(s)
  OBVIOUS
<1>2. PICK l \in Nat : l = Len(t)
  OBVIOUS
<1>3. u \in Seq(Bytes) /\ Len(u) = n + l
  BY <1>1, <1>2
<1>4. \A i \in 1..n : u[i] = s[i]
  BY <1>1
<1>5. \A i \in 1..l : u[n + i] = t[i]
  BY <1>1, <1>2
<1> HIDE DEF u
<1>6. ASSUME NEW i \in 1..n + l
      PROVE  /\ u[i] = "e1" => i < n + l /\ u[i + 1] \in Trailing
             /\ u[i] \in Trailing => i > 1 /\ u[i - 1] = "e1"
  <2>1. CASE i <= n
    <3>1. i \in 1..n /\ u[i] = s[i]
      BY <1>4, <2>1
    <3>2. s[i] = "e1" => i < n /\ s[i + 1] \in Trailing
      BY <1>1, <3>1, Utf8Is
    <3>3. s[i] \in Trailing => i > 1 /\ s[i - 1] = "e1"
      BY <1>1, <3>1, Utf8Is
    <3>4. i < n => u[i + 1] = s[i + 1]
      BY <1>4, <3>1
    <3>5. i > 1 => u[i - 1] = s[i - 1]
      BY <1>4, <3>1
    <3> QED
      BY <3>1, <3>2, <3>3, <3>4, <3>5
  <2>2. CASE i > n
    <3>1. PICK j \in Nat : j = i - n
      BY <2>2
    <3>2. j \in 1..l /\ i = n + j /\ u[i] = t[j]
      BY <1>5, <2>2, <3>1
    <3>3. t[j] = "e1" => j < l /\ t[j + 1] \in Trailing
      BY <1>2, <3>2, Utf8Is
    <3>4. t[j] \in Trailing => j > 1 /\ t[j - 1] = "e1"
      BY <1>2, <3>2, Utf8Is
    <3>5. j < l => u[i + 1] = t[j + 1]
      <4>1. j < l => j + 1 \in 1..l /\ n + (j + 1) = i + 1
        BY <3>2
      <4> QED
        BY <1>5, <4>1
    <3>6. j > 1 => u[i - 1] = t[j - 1]
      <4>1. j > 1 => j - 1 \in 1..l /\ n + (j - 1) = i - 1
        BY <3>2
      <4> QED
        BY <1>5, <4>1
    <3> QED
      BY <3>2, <3>3, <3>4, <3>5, <3>6
  <2> QED
    BY <2>1, <2>2
<1>7. IsUtf8(u)
  BY <1>3, <1>6, Utf8Is
<1> QED
  BY <1>3, <1>7 DEF u

\* A part of a text between two boundaries.
LEMMA PartUtf8 ==
    ASSUME NEW t \in Seq(Bytes), IsUtf8(t), NEW i \in Nat, NEW j \in Nat, i <= j,
           IsCharBoundary(t, i), IsCharBoundary(t, j)
    PROVE  SubSeq(t, i + 1, j) \in Seq(Bytes) /\ IsUtf8(SubSeq(t, i + 1, j))
<1> DEFINE u == SubSeq(t, i + 1, j)
<1>1. PICK n \in Nat : n = Len(t)
  OBVIOUS
<1>2. j <= n /\ (i = n \/ t[i + 1] \notin Trailing) /\ (j = n \/ t[j + 1] \notin Trailing)
  BY <1>1 DEF IsCharBoundary
<1>3. u \in Seq(Bytes) /\ Len(u) = j - i
  BY <1>1, <1>2
<1>4. \A k \in 1..j - i : u[k] = t[i + k]
  BY <1>1, <1>2
<1> HIDE DEF u
<1>5. ASSUME NEW k \in 1..j - i
      PROVE  /\ u[k] = "e1" => k < j - i /\ u[k + 1] \in Trailing
             /\ u[k] \in Trailing => k > 1 /\ u[k - 1] = "e1"
  <2>1. PICK x \in Nat : x = i + k
    OBVIOUS
  <2>2. x \in 1..n /\ u[k] = t[x] /\ x <= j
    BY <1>2, <1>4, <2>1
  <2>3. t[x] = "e1" => x < n /\ t[x + 1] \in Trailing
    BY <1>1, <2>2, Utf8Is
  <2>4. t[x] \in Trailing => x > 1 /\ t[x - 1] = "e1"
    BY <1>1, <2>2, Utf8Is
  <2>5. u[k] = "e1" => k < j - i /\ u[k + 1] \in Trailing
    <3>1. SUFFICES ASSUME u[k] = "e1" PROVE k < j - i /\ u[k + 1] \in Trailing
      OBVIOUS
    <3>2. x # j
      BY <1>2, <2>2, <2>3, <3>1
    <3>3. k + 1 \in 1..j - i /\ i + (k + 1) = x + 1
      BY <2>1, <2>2, <3>2
    <3>4. u[k + 1] = t[i + (k + 1)]
      BY <1>4, <3>3
    <3>5. t[x + 1] \in Trailing
      BY <2>2, <2>3, <3>1
    <3>6. u[k + 1] = t[x + 1] /\ k < j - i
      BY <3>3, <3>4
    <3> QED
      BY <3>5, <3>6
  <2>6. u[k] \in Trailing => k > 1 /\ u[k - 1] = "e1"
    <3>1. SUFFICES ASSUME u[k] \in Trailing PROVE k > 1 /\ u[k - 1] = "e1"
      OBVIOUS
    <3>2. k # 1
      <4>1. SUFFICES ASSUME k = 1 PROVE FALSE
        OBVIOUS
      <4>2. x = i + 1 /\ i # n
        BY <1>2, <2>1, <2>2, <4>1
      <4> QED
        BY <1>2, <2>2, <3>1, <4>2
    <3>3. k - 1 \in 1..j - i /\ i + (k - 1) = x - 1
      BY <2>1, <3>2
    <3> QED
      BY <1>4, <2>2, <2>4, <3>1, <3>2, <3>3
  <2> QED
    BY <2>5, <2>6
<1>6. IsUtf8(u)
  BY <1>3, <1>5, Utf8Is
<1> QED
  BY <1>3, <1>6 DEF u

\* The ends of a text are boundaries.
LEMMA EndsAreBoundaries ==
    ASSUME NEW t \in Seq(Bytes), IsUtf8(t)
    PROVE  IsCharBoundary(t, 0) /\ IsCharBoundary(t, Len(t))
<1>1. CASE Len(t) = 0
  BY <1>1 DEF IsCharBoundary
<1>2. CASE Len(t) # 0
  <2>1. 1 \in 1..Len(t)
    BY <1>2
  <2>2. t[1] \notin Trailing
    BY <2>1, Utf8Is
  <2> QED
    BY <2>2 DEF IsCharBoundary
<1> QED
  BY <1>1, <1>2

\* A splice at boundaries.
LEMMA SpliceUtf8 ==
    ASSUME NEW t \in Seq(Bytes), IsUtf8(t), NEW s \in Seq(Bytes), IsUtf8(s),
           NEW i \in Nat, NEW j \in Nat, i <= j, IsCharBoundary(t, i), IsCharBoundary(t, j)
    PROVE  IsUtf8(Splice(t, i, j, s))
<1> DEFINE a == SubSeq(t, 1, i)
           b == SubSeq(t, j + 1, Len(t))
<1>1. IsCharBoundary(t, 0) /\ IsCharBoundary(t, Len(t)) /\ j <= Len(t)
  BY EndsAreBoundaries DEF IsCharBoundary
<1>2. a \in Seq(Bytes) /\ IsUtf8(a)
  <2>1. SubSeq(t, 0 + 1, i) \in Seq(Bytes) /\ IsUtf8(SubSeq(t, 0 + 1, i))
    BY <1>1, PartUtf8
  <2> QED
    BY <2>1
<1>3. b \in Seq(Bytes) /\ IsUtf8(b)
  BY <1>1, PartUtf8
<1> HIDE DEF a, b
<1>4. a \o s \in Seq(Bytes) /\ IsUtf8(a \o s)
  BY <1>2, JoinUtf8
<1>5. IsUtf8((a \o s) \o b)
  BY <1>3, <1>4, JoinUtf8
<1> QED
  BY <1>5 DEF Splice, a, b

\* The character at a place: one byte or two.
LEMMA CharAtIs ==
    ASSUME NEW t \in Seq(Bytes), IsUtf8(t), NEW i \in Nat, i < Len(t), IsCharBoundary(t, i)
    PROVE  LET c == CharAt(t, i) IN
           /\ c \in Seq(Bytes) /\ Len(c) \in {1, 2} /\ i + Len(c) <= Len(t)
           /\ c = SubSeq(t, i + 1, i + Len(c)) /\ c[1] = t[i + 1]
           /\ IsCharBoundary(t, i + Len(c)) /\ IsUtf8(c)
           /\ (Len(c) = 1 <=> t[i + 1] \in Ascii)
           /\ (Len(c) = 2 => ~IsCharBoundary(t, i + 1))
<1> DEFINE c == CharAt(t, i)
<1>1. PICK n \in Nat : n = Len(t)
  OBVIOUS
<1>2. i + 1 \in 1..n /\ t[i + 1] \notin Trailing /\ t[i + 1] \in Bytes
  BY <1>1 DEF IsCharBoundary
<1>3. CASE t[i + 1] = "e1"
  <2>1. i + 1 < n /\ t[i + 2] \in Trailing
    <3>1. i + 1 < n /\ t[(i + 1) + 1] \in Trailing
      BY <1>1, <1>2, <1>3, Utf8Is
    <3> QED
      BY <3>1
  <2>2. i + 2 = n \/ t[i + 3] \notin Trailing
    <3>1. SUFFICES ASSUME i + 2 # n, t[i + 3] \in Trailing PROVE FALSE
      OBVIOUS
    <3>2. i + 3 \in 1..n
      BY <2>1, <3>1
    <3>3. t[(i + 3) - 1] = "e1"
      BY <1>1, <3>1, <3>2, Utf8Is
    <3>4. t[i + 2] = "e1"
      BY <3>3
    <3> QED
      BY <2>1, <3>4 DEF Trailing
  <2>3. c = SubSeq(t, i + 1, i + 2)
    BY <1>3 DEF CharAt
  <2>4. c \in Seq(Bytes) /\ Len(c) = 2 /\ c[1] = t[i + 1]
    <3>1. 1 <= i + 1 /\ i + 2 <= Len(t) /\ i + 2 - (i + 1) + 1 = 2 /\ 1 + (i + 1) - 1 = i + 1
      BY <1>1, <2>1
    <3> QED
      BY <2>3, <3>1
  <2>5. IsCharBoundary(t, i + 2) /\ ~IsCharBoundary(t, i + 1)
    BY <1>1, <2>1, <2>2 DEF IsCharBoundary
  <2>6. IsUtf8(SubSeq(t, i + 1, i + 2))
    BY <2>5, PartUtf8
  <2> HIDE DEF c
  <2> QED
    BY <1>1, <1>3, <2>1, <2>3, <2>4, <2>5, <2>6, ByteKinds DEF c
<1>4. CASE t[i + 1] # "e1"
  <2>1. t[i + 1] \in Ascii
    BY <1>2, <1>4, ByteKinds
  <2>2. i + 1 = n \/ t[i + 2] \notin Trailing
    <3>1. SUFFICES ASSUME i + 1 # n, t[i + 2] \in Trailing PROVE FALSE
      OBVIOUS
    <3>2. i + 2 \in 1..n
      BY <1>2, <3>1
    <3>3. t[(i + 2) - 1] = "e1"
      BY <1>1, <3>1, <3>2, Utf8Is
    <3> QED
      BY <1>4, <3>3
  <2>3. c = SubSeq(t, i + 1, i + 1)
    BY <1>4 DEF CharAt
  <2>4. c \in Seq(Bytes) /\ Len(c) = 1 /\ c[1] = t[i + 1]
    <3>1. 1 <= i + 1 /\ i + 1 <= Len(t) /\ i + 1 - (i + 1) + 1 = 1 /\ 1 + (i + 1) - 1 = i + 1
      BY <1>1, <1>2
    <3> QED
      BY <2>3, <3>1
  <2>5. IsCharBoundary(t, i + 1)
    BY <1>1, <1>2, <2>2 DEF IsCharBoundary
  <2>6. IsUtf8(SubSeq(t, i + 1, i + 1))
    BY <2>5, PartUtf8
  <2> HIDE DEF c
  <2> QED
    BY <1>1, <1>2, <2>1, <2>3, <2>4, <2>5, <2>6 DEF c
<1> QED
  BY <1>3, <1>4

-----------------------------------------------------------------------------
(* Recursive functions.                                                    *)

\* The function f on a..b starts with e and goes on by steps.
Runs(f, e, a, b, step) == f[a] = e /\ \A k \in a + 1..b : f[k] = step[k][f[k - 1]]

\* There is such a function.
LEMMA Recursion ==
    ASSUME NEW E, NEW e \in E, NEW a \in Nat, NEW b \in Nat, a <= b,
           NEW step \in [a + 1..b -> [E -> E]]
    PROVE  \E f \in [a..b -> E] : Runs(f, e, a, b, step)
<1> DEFINE Good(n, f) == f[a] = e /\ \A k \in a + 1..a + n : f[k] = step[k][f[k - 1]]
           S == {n \in Nat : a + n <= b => \E f \in [a..a + n -> E] : Good(n, f)}
<1>1. 0 \in S
  <2> DEFINE f == [k \in a..a + 0 |-> e]
  <2>1. f \in [a..a + 0 -> E] /\ Good(0, f)
    OBVIOUS
  <2> QED
    BY <2>1
<1>2. ASSUME NEW n \in Nat, n \in S PROVE n + 1 \in S
  <2>1. SUFFICES ASSUME a + (n + 1) <= b
                 PROVE  \E f \in [a..a + (n + 1) -> E] : Good(n + 1, f)
    OBVIOUS
  <2>2. PICK f \in [a..a + n -> E] : Good(n, f)
    BY <1>2, <2>1
  <2>3. PICK x \in Nat : x = a + n
    OBVIOUS
  <2>4. x \in a..a + n /\ x + 1 \in a + 1..b /\ x + 1 = a + (n + 1)
    BY <2>1, <2>3
  <2> DEFINE g == [k \in a..x + 1 |-> IF k <= x THEN f[k] ELSE step[x + 1][f[x]]]
  <2>5. step[x + 1][f[x]] \in E
    BY <2>4
  <2>6. g \in [a..x + 1 -> E]
    BY <2>3, <2>5
  <2>7. g[a] = e
    BY <2>2, <2>3
  <2>8. ASSUME NEW k \in a + 1..x + 1 PROVE g[k] = step[k][g[k - 1]]
    <3>1. CASE k <= x
      <4>1. k \in a..x + 1 /\ k - 1 \in a..x + 1 /\ k - 1 <= x /\ k \in a + 1..a + n
        BY <2>3, <3>1
      <4> QED
        BY <2>2, <3>1, <4>1
    <3>2. CASE k = x + 1
      <4>1. k \in a..x + 1 /\ k - 1 \in a..x + 1 /\ k - 1 = x /\ ~(k <= x)
        BY <2>3, <2>4, <3>2
      <4> QED
        BY <3>2, <4>1
    <3> QED
      BY <2>3, <3>1, <3>2
  <2> HIDE DEF g
  <2>9. g \in [a..a + (n + 1) -> E] /\ Good(n + 1, g)
    BY <2>4, <2>6, <2>7, <2>8
  <2> QED
    BY <2>9
<1>3. \A n \in Nat : n \in S
  <2> HIDE DEF S
  <2> QED
    BY <1>1, <1>2, Induction
<1>4. b - a \in Nat /\ a + (b - a) = b
  OBVIOUS
<1>5. \E f \in [a..a + (b - a) -> E] : Good(b - a, f)
  <2> HIDE DEF Good
  <2>1. b - a \in S
    <3> HIDE DEF S
    <3> QED
      BY <1>3, <1>4
  <2>2. a + (b - a) <= b
    OBVIOUS
  <2> QED
    BY <2>1, <2>2
<1> QED
  BY <1>4, <1>5 DEF Runs

-----------------------------------------------------------------------------
(* Characters.                                                             *)

\* S lists the offsets below n at which a character of t starts, in order.
Lists(S, t, n) ==
    /\ S \in Seq(Nat)
    /\ \A k \in 1..Len(S) : S[k] < n /\ t[S[k] + 1] \notin Trailing
    /\ \A i \in Nat : i < n /\ t[i + 1] \notin Trailing => \E k \in 1..Len(S) : S[k] = i
    /\ \A j, k \in 1..Len(S) : j < k => S[j] < S[k]

\* The list grows by the next offset if a character starts there.
LEMMA ListsGrow ==
    ASSUME NEW t, NEW n \in Nat, NEW S, Lists(S, t, n)
    PROVE  Lists(IF t[n + 1] \in Trailing THEN S ELSE Append(S, n), t, n + 1)
<1>1. CASE t[n + 1] \in Trailing
  <2>1. \A i \in Nat : i < n + 1 /\ t[i + 1] \notin Trailing => i < n
    BY <1>1
  <2> QED
    BY <1>1, <2>1 DEF Lists
<1>2. CASE t[n + 1] \notin Trailing
  <2> DEFINE U == Append(S, n)
  <2>1. PICK l \in Nat : l = Len(S)
    BY DEF Lists
  <2>2. U \in Seq(Nat) /\ Len(U) = l + 1 /\ U[l + 1] = n /\ \A k \in 1..l : U[k] = S[k]
    BY <2>1 DEF Lists
  <2> HIDE DEF U
  <2>3. ASSUME NEW k \in 1..l + 1 PROVE U[k] < n + 1 /\ t[U[k] + 1] \notin Trailing
    <3>1. CASE k = l + 1
      BY <1>2, <2>2, <3>1
    <3>2. CASE k # l + 1
      <4>1. k \in 1..l
        BY <3>2
      <4>2. S[k] < n /\ S[k] \in Nat /\ t[S[k] + 1] \notin Trailing /\ U[k] = S[k]
        BY <2>1, <2>2, <4>1 DEF Lists
      <4> QED
        BY <4>2
    <3> QED
      BY <3>1, <3>2
  <2>4. ASSUME NEW i \in Nat, i < n + 1, t[i + 1] \notin Trailing
        PROVE  \E k \in 1..l + 1 : U[k] = i
    <3>1. CASE i = n
      BY <2>2, <3>1
    <3>2. CASE i # n
      <4>1. PICK k \in 1..l : S[k] = i
        BY <2>1, <2>4, <3>2 DEF Lists
      <4>2. k \in 1..l + 1 /\ U[k] = i
        BY <2>2, <4>1
      <4> QED
        BY <4>2
    <3> QED
      BY <3>1, <3>2
  <2>5. ASSUME NEW j \in 1..l + 1, NEW k \in 1..l + 1, j < k PROVE U[j] < U[k]
    <3>1. j \in 1..l /\ U[j] = S[j]
      BY <2>2, <2>5
    <3>2. CASE k = l + 1
      <4>1. S[j] < n
        BY <2>1, <3>1 DEF Lists
      <4> QED
        BY <2>2, <3>1, <3>2, <4>1
    <3>3. CASE k # l + 1
      <4>1. k \in 1..l
        BY <3>3
      <4>2. S[j] < S[k] /\ U[k] = S[k]
        BY <2>1, <2>2, <2>5, <3>1, <4>1 DEF Lists
      <4> QED
        BY <3>1, <4>2
    <3> QED
      BY <3>2, <3>3
  <2>6. Lists(U, t, n + 1)
    BY <2>2, <2>3, <2>4, <2>5 DEF Lists
  <2> QED
    BY <1>2, <2>6 DEF U
<1> QED
  BY <1>1, <1>2

\* What char_indices enumerates.
LEMMA StartsIs ==
    ASSUME NEW t \in Seq(Bytes)
    PROVE  Lists(Starts(t), t, Len(t))
<1>1. PICK n \in Nat : n = Len(t)
  OBVIOUS
<1> DEFINE Is(F) == F = [k \in 0..n |-> IF k = 0 THEN <<>>
                                       ELSE IF t[k] \in Trailing THEN F[k - 1]
                                            ELSE Append(F[k - 1], k - 1)]
           F == CHOOSE f : Is(f)
<1>2. Starts(t) = F[n]
  BY <1>1 DEF Starts
<1>3. \E f : Is(f)
  <2> DEFINE E == Seq(Nat)
             step == [k \in 0 + 1..n |->
                        [x \in E |-> IF t[k] \in Trailing THEN x ELSE Append(x, k - 1)]]
  <2>1. step \in [0 + 1..n -> [E -> E]] /\ <<>> \in E /\ 0 \in Nat /\ n \in Nat /\ 0 <= n
    OBVIOUS
  <2>2. PICK f \in [0..n -> E] : f[0] = <<>> /\ \A k \in 0 + 1..n : f[k] = step[k][f[k - 1]]
    <3> HIDE DEF E, step
    <3>1. \E f \in [0..n -> E] : Runs(f, <<>>, 0, n, step)
      BY ONLY <2>1, Recursion
    <3> QED
      BY <3>1 DEF Runs
  <2>3. ASSUME NEW k \in 0..n, k # 0
        PROVE  f[k] = IF t[k] \in Trailing THEN f[k - 1] ELSE Append(f[k - 1], k - 1)
    <3>1. k \in 0 + 1..n /\ k - 1 \in 0..n /\ f[k - 1] \in E
      BY <2>3
    <3> QED
      BY <2>2, <3>1
  <2>4. Is(f)
    BY <2>2, <2>3
  <2> QED
    BY <2>4
<1>4. Is(F)
  BY <1>3
<1> HIDE DEF F
<1>5. F[0] = <<>>
  BY <1>4
<1>6. ASSUME NEW k \in 1..n
      PROVE  F[k] = IF t[k] \in Trailing THEN F[k - 1] ELSE Append(F[k - 1], k - 1)
  <2>1. k \in 0..n /\ k # 0
    OBVIOUS
  <2> QED
    BY <1>4, <2>1
<1> HIDE DEF Is
<1> DEFINE S == {k \in Nat : k <= n => Lists(F[k], t, k)}
<1>7. 0 \in S
  <2>1. Lists(<<>>, t, 0)
    BY DEF Lists
  <2> QED
    BY <1>5, <2>1
<1>8. ASSUME NEW k \in Nat, k \in S PROVE k + 1 \in S
  <2>1. SUFFICES ASSUME k + 1 <= n PROVE Lists(F[k + 1], t, k + 1)
    OBVIOUS
  <2>2. Lists(F[k], t, k)
    BY <1>8, <2>1
  <2>3. k + 1 \in 1..n /\ (k + 1) - 1 = k
    BY <2>1
  <2>4. F[k + 1] = IF t[k + 1] \in Trailing THEN F[k] ELSE Append(F[k], k)
    BY <1>6, <2>3
  <2> QED
    BY <2>2, <2>4, ListsGrow
<1>9. \A k \in Nat : k \in S
  <2> HIDE DEF S
  <2> QED
    BY <1>7, <1>8, Induction
<1> QED
  BY <1>1, <1>2, <1>9

\* The characters of a text cover it without gaps.
LEMMA StartsTile ==
    ASSUME NEW t \in Seq(Bytes), IsUtf8(t)
    PROVE  LET S == Starts(t)
               end(k) == S[k] + Len(CharAt(t, S[k]))
           IN  /\ S \in Seq(Nat)
               /\ \A k \in 1..Len(S) : S[k] < Len(t) /\ IsCharBoundary(t, S[k])
               /\ (Len(S) = 0 <=> Len(t) = 0)
               /\ (Len(S) > 0 => S[1] = 0 /\ end(Len(S)) = Len(t))
               /\ \A k \in 1..Len(S) - 1 : end(k) = S[k + 1]
<1> DEFINE S == Starts(t)
           ch(k) == CharAt(t, S[k])
           end(k) == S[k] + Len(ch(k))
<1>1. Lists(S, t, Len(t))
  BY StartsIs
<1>2. PICK n \in Nat : n = Len(t)
  OBVIOUS
<1>3. PICK c \in Nat : c = Len(S) /\ S \in Seq(Nat)
  BY <1>1 DEF Lists
<1> HIDE DEF S
<1>4. \A k \in 1..c : S[k] \in Nat /\ S[k] < n /\ t[S[k] + 1] \notin Trailing
  BY <1>1, <1>2, <1>3 DEF Lists
<1>5. \A i \in Nat : i < n /\ t[i + 1] \notin Trailing => \E k \in 1..c : S[k] = i
  BY <1>1, <1>2, <1>3 DEF Lists
<1>6. \A j, k \in 1..c : j < k => S[j] < S[k]
  BY <1>1, <1>3 DEF Lists
<1>7. \A k \in 1..c : IsCharBoundary(t, S[k])
  BY <1>2, <1>4 DEF IsCharBoundary
<1>8. ASSUME NEW k \in 1..c
      PROVE  /\ end(k) \in Nat /\ S[k] < end(k) /\ end(k) <= n
             /\ (end(k) = n \/ t[end(k) + 1] \notin Trailing)
             /\ \A i \in Nat : S[k] < i /\ i < end(k) => ~IsCharBoundary(t, i)
  <2>1. S[k] \in Nat /\ S[k] < Len(t) /\ IsCharBoundary(t, S[k])
    BY <1>2, <1>4, <1>7
  <2>2. /\ Len(ch(k)) \in {1, 2} /\ S[k] + Len(ch(k)) <= Len(t)
        /\ IsCharBoundary(t, S[k] + Len(ch(k)))
        /\ (Len(ch(k)) = 2 => ~IsCharBoundary(t, S[k] + 1))
    BY <2>1, CharAtIs
  <2> HIDE DEF ch
  <2>3. PICK l \in Nat : l = Len(ch(k))
    BY <2>2
  <2>4. PICK i \in Nat : i = S[k]
    BY <2>1
  <2>5. IsCharBoundary(t, i + l)
    BY <2>2, <2>3, <2>4
  <2>6. i + l = n \/ t[(i + l) + 1] \notin Trailing
    BY <1>2, <2>5 DEF IsCharBoundary
  <2>7. end(k) = i + l
    BY <2>3, <2>4
  <2>8. ASSUME NEW j \in Nat, i < j, j < i + l PROVE ~IsCharBoundary(t, j)
    <3>1. l \in {1, 2} /\ (l = 2 => ~IsCharBoundary(t, i + 1))
      BY <2>2, <2>3, <2>4
    <3>2. j = i + 1 /\ l = 2
      BY <2>8, <3>1
    <3> QED
      BY <3>1, <3>2
  <2>9. i + l <= n /\ l > 0
    BY <1>2, <2>2, <2>3, <2>4
  <2> HIDE DEF end
  <2> QED
    BY <2>4, <2>6, <2>7, <2>8, <2>9
<1> HIDE DEF end
<1>9. ASSUME NEW j \in 1..c, NEW k \in 1..c, j < k PROVE end(j) <= S[k]
  <2>1. S[j] < S[k] /\ IsCharBoundary(t, S[k]) /\ S[j] \in Nat /\ S[k] \in Nat
    BY <1>4, <1>6, <1>7, <1>9
  <2>2. ~(S[k] < end(j))
    BY <1>8, <2>1
  <2> QED
    BY <1>8, <2>1, <2>2
<1> DEFINE Next(i) == i = n \/ \E k \in 1..c : S[k] = i
<1>10. ASSUME NEW k \in 1..c PROVE Next(end(k))
  BY <1>5, <1>8
<1>11. c = 0 <=> n = 0
  <2>1. ASSUME n # 0 PROVE c # 0
    <3>1. IsCharBoundary(t, 0)
      BY EndsAreBoundaries
    <3>2. t[0 + 1] \notin Trailing /\ 0 < n
      BY <1>2, <2>1, <3>1 DEF IsCharBoundary
    <3> QED
      BY <1>5, <3>2
  <2>2. ASSUME n = 0 PROVE c = 0
    BY <1>4, <2>2
  <2> QED
    BY <2>1, <2>2
<1>12. ASSUME c > 0 PROVE S[1] = 0 /\ end(c) = n
  <2>1. 1 \in 1..c /\ c \in 1..c /\ 0 < n
    BY <1>11, <1>12
  <2>2. t[0 + 1] \notin Trailing
    <3>1. IsCharBoundary(t, 0)
      BY EndsAreBoundaries
    <3> QED
      BY <1>2, <2>1, <3>1 DEF IsCharBoundary
  <2>3. PICK k \in 1..c : S[k] = 0
    BY <1>5, <2>1, <2>2
  <2>4. k = 1
    <3>1. CASE k > 1
      <4>1. S[1] < S[k] /\ S[1] \in Nat
        BY <1>4, <1>6, <2>1, <3>1
      <4> QED
        BY <2>3, <4>1
    <3> QED
      BY <3>1
  <2>5. end(c) = n
    <3>1. SUFFICES ASSUME end(c) # n PROVE FALSE
      OBVIOUS
    <3>2. PICK j \in 1..c : S[j] = end(c)
      BY <1>10, <2>1, <3>1
    <3>3. S[c] < S[j]
      BY <1>4, <1>8, <2>1, <3>2
    <3>4. j = c \/ S[j] < S[c]
      BY <1>6, <2>1
    <3> QED
      BY <1>4, <2>1, <3>3, <3>4
  <2> QED
    BY <2>3, <2>4, <2>5
<1>13. ASSUME NEW k \in 1..c - 1 PROVE end(k) = S[k + 1]
  <2>1. k \in 1..c /\ k + 1 \in 1..c /\ k < k + 1
    BY <1>13
  <2>2. end(k) <= S[k + 1] /\ S[k + 1] < n /\ S[k + 1] \in Nat /\ end(k) \in Nat
    BY <1>4, <1>8, <1>9, <2>1
  <2>3. PICK j \in 1..c : S[j] = end(k)
    BY <1>10, <2>1, <2>2
  <2>4. S[k] < S[j]
    BY <1>4, <1>8, <2>1, <2>3
  <2>5. ~(j < k) /\ j # k
    BY <1>4, <1>6, <2>1, <2>4
  <2>6. j = k + 1 \/ S[k + 1] < S[j]
    BY <1>6, <2>1, <2>5
  <2> QED
    BY <2>2, <2>3, <2>6
<1> QED
  BY <1>2, <1>3, <1>4, <1>7, <1>11, <1>12, <1>13 DEF S, end

-----------------------------------------------------------------------------
(* Concatenation.                                                          *)

\* G[k] is the concatenation of the first k sequences of ss.
Joins(G, ss) == G[0] = <<>> /\ \A k \in 1..Len(ss) : G[k] = G[k - 1] \o ss[k]

\* There is such a G.
LEMMA JoinsExist ==
    ASSUME NEW B, NEW ss \in Seq(Seq(B))
    PROVE  \E G \in [0..Len(ss) -> Seq(B)] : Joins(G, ss)
<1>1. PICK n \in Nat : n = Len(ss)
  OBVIOUS
<1> DEFINE E == Seq(B)
           step == [k \in 0 + 1..n |-> [x \in E |-> x \o ss[k]]]
<1>2. step \in [0 + 1..n -> [E -> E]] /\ <<>> \in E /\ 0 \in Nat /\ n \in Nat /\ 0 <= n
  BY <1>1
<1>3. PICK f \in [0..n -> E] : Runs(f, <<>>, 0, n, step)
  <2> HIDE DEF E, step
  <2> QED
    BY ONLY <1>2, Recursion
<1>4. ASSUME NEW k \in 1..n PROVE f[k] = f[k - 1] \o ss[k]
  <2>1. k \in 0 + 1..n /\ k - 1 \in 0..n /\ f[k - 1] \in E
    OBVIOUS
  <2> QED
    BY <1>3, <2>1 DEF Runs
<1> QED
  BY <1>1, <1>3, <1>4 DEF Joins, Runs

\* The last of them is what FlattenSeq returns, whatever it is computed from.
LEMMA FlattenIs ==
    ASSUME NEW B, NEW ss \in Seq(Seq(B)), NEW G, Joins(G, ss)
    PROVE  FlattenSeq(ss) = G[Len(ss)]
<1>1. PICK n \in Nat : n = Len(ss)
  OBVIOUS
<1>2. CASE n = 0
  <2>1. ss = <<>>
    BY <1>1, <1>2, EmptyIs
  <2> QED
    BY <1>1, <1>2, <2>1 DEF FlattenSeq, Joins
<1>3. CASE n # 0
  <2> DEFINE Is(F) == F = [k \in 1..n |-> IF k = 1 THEN ss[k] ELSE F[k - 1] \o ss[k]]
             F == CHOOSE f : Is(f)
  <2>1. FlattenSeq(ss) = F[n]
    BY <1>1, <1>3 DEF FlattenSeq
  <2>2. PICK H \in [0..n -> Seq(B)] : Joins(H, ss)
    BY <1>1, JoinsExist
  <2>3. \E f : Is(f)
    <3> DEFINE f == [k \in 1..n |-> H[k]]
    <3>1. ASSUME NEW k \in 1..n PROVE H[k] = IF k = 1 THEN ss[k] ELSE f[k - 1] \o ss[k]
      <4>1. ss[k] \in Seq(B)
        BY <1>1, ElementIs
      <4>4. H[k] = H[k - 1] \o ss[k]
        BY <1>1, <2>2 DEF Joins
      <4>2. CASE k = 1
        <5>1. H[k - 1] = <<>>
          BY <2>2, <4>2 DEF Joins
        <5>2. <<>> \o ss[k] = ss[k]
          BY <4>1
        <5> QED
          BY <4>2, <4>4, <5>1, <5>2
      <4>3. CASE k # 1
        <5>1. k - 1 \in 1..n
          BY <4>3
        <5> QED
          BY <4>3, <4>4, <5>1
      <4> QED
        BY <4>2, <4>3
    <3>2. Is(f)
      BY <3>1
    <3> QED
      BY <3>2
  <2>4. Is(F)
    BY <2>3
  <2> HIDE DEF F
  <2>5. F[1] = ss[1]
    BY <1>3, <2>4
  <2>6. ASSUME NEW k \in 1..n, k # 1 PROVE F[k] = F[k - 1] \o ss[k]
    BY <2>4, <2>6
  <2> HIDE DEF Is
  <2> DEFINE S == {k \in Nat : 1 <= k /\ k <= n => F[k] = G[k]}
  <2>7. 0 \in S
    OBVIOUS
  <2>8. ASSUME NEW k \in Nat, k \in S PROVE k + 1 \in S
    <3>1. SUFFICES ASSUME k + 1 <= n PROVE F[k + 1] = G[k + 1]
      OBVIOUS
    <3>2. k + 1 \in 1..n /\ (k + 1) - 1 = k
      BY <3>1
    <3>6. ss[k + 1] \in Seq(B)
      BY <1>1, <3>2, ElementIs
    <3>7. G[k + 1] = G[(k + 1) - 1] \o ss[k + 1]
      BY <1>1, <3>2 DEF Joins
    <3>3. G[k + 1] = G[k] \o ss[k + 1]
      BY <3>2, <3>7
    <3>4. CASE k = 0
      <4>1. <<>> \o ss[1] = ss[1]
        BY <3>6, <3>4
      <4>2. G[0] = <<>>
        BY DEF Joins
      <4>3. G[1] = ss[1]
        BY <3>3, <3>4, <4>1, <4>2
      <4> QED
        BY <2>5, <3>4, <4>3
    <3>5. CASE k # 0
      <4>1. F[k] = G[k]
        BY <2>8, <3>1, <3>5
      <4>3. k + 1 # 1
        BY <3>5
      <4>4. F[k + 1] = F[(k + 1) - 1] \o ss[k + 1]
        BY <2>6, <3>2, <4>3
      <4>2. F[k + 1] = F[k] \o ss[k + 1]
        BY <3>2, <4>4
      <4> QED
        BY <3>3, <4>1, <4>2
    <3> QED
      BY <3>4, <3>5
  <2>9. \A k \in Nat : k \in S
    <3> HIDE DEF S
    <3> QED
      BY <2>7, <2>8, Induction
  <2>10. F[n] = G[n]
    BY <1>3, <2>9
  <2> QED
    BY <1>1, <2>1, <2>10
<1> QED
  BY <1>2, <1>3

\* What holds of the pieces holds of the whole: bytes of B, and valid UTF-8.
LEMMA FlattenIn ==
    ASSUME NEW B, NEW ss \in Seq(Seq(B))
    PROVE  FlattenSeq(ss) \in Seq(B)
<1>1. PICK G \in [0..Len(ss) -> Seq(B)] : Joins(G, ss)
  BY JoinsExist
<1>2. FlattenSeq(ss) = G[Len(ss)]
  BY <1>1, FlattenIs
<1>3. Len(ss) \in 0..Len(ss)
  OBVIOUS
<1> QED
  BY <1>2, <1>3

\* Texts joined one after the other stay UTF-8 all along.
LEMMA JoinsUtf8 ==
    ASSUME NEW ss \in Seq(Seq(Bytes)), \A k \in 1..Len(ss) : IsUtf8(ss[k]),
           NEW G \in [0..Len(ss) -> Seq(Bytes)], Joins(G, ss)
    PROVE  \A k \in 0..Len(ss) : IsUtf8(G[k])
<1>1. PICK n \in Nat : n = Len(ss)
  OBVIOUS
<1> DEFINE S == {k \in Nat : k <= n => IsUtf8(G[k])}
<1>2. 0 \in S
  <2>1. IsUtf8(<<>>)
    BY DEF IsUtf8
  <2> QED
    BY <2>1 DEF Joins
<1>3. ASSUME NEW k \in Nat, k \in S PROVE k + 1 \in S
  <2>1. SUFFICES ASSUME k + 1 <= n PROVE IsUtf8(G[k + 1])
    OBVIOUS
  <2>2. k + 1 \in 1..n /\ (k + 1) - 1 = k /\ k \in 0..n
    BY <2>1
  <2>3. ss[k + 1] \in Seq(Bytes) /\ IsUtf8(ss[k + 1])
    BY <1>1, <2>2, ElementIs
  <2>4. G[k] \in Seq(Bytes) /\ IsUtf8(G[k])
    BY <1>1, <1>3, <2>1, <2>2
  <2>5. IsUtf8(G[k] \o ss[k + 1])
    BY <2>3, <2>4, JoinUtf8
  <2>6. G[k + 1] = G[(k + 1) - 1] \o ss[k + 1]
    BY <1>1, <2>2 DEF Joins
  <2> QED
    BY <2>2, <2>5, <2>6
<1>4. \A k \in Nat : k \in S
  <2> HIDE DEF S
  <2> QED
    BY <1>2, <1>3, Induction
<1> QED
  BY <1>1, <1>4

\* A concatenation of UTF-8 texts is one.
LEMMA FlattenUtf8 ==
    ASSUME NEW ss \in Seq(Seq(Bytes)), \A k \in 1..Len(ss) : IsUtf8(ss[k])
    PROVE  FlattenSeq(ss) \in Seq(Bytes) /\ IsUtf8(FlattenSeq(ss))
<1>1. PICK G \in [0..Len(ss) -> Seq(Bytes)] : Joins(G, ss)
  BY JoinsExist
<1>2. FlattenSeq(ss) = G[Len(ss)]
  BY <1>1, FlattenIs
<1>3. Len(ss) \in 0..Len(ss)
  OBVIOUS
<1>4. IsUtf8(G[Len(ss)])
  BY <1>1, <1>3, JoinsUtf8
<1> QED
  BY <1>2, <1>3, <1>4

\* Where the k-th character of t ends.
EndOfChar(t, k) == Starts(t)[k] + Len(CharAt(t, Starts(t)[k]))

\* The characters of a text, one by one.
LEMMA CharIs ==
    ASSUME NEW t \in Seq(Bytes), IsUtf8(t), NEW k \in 1..Len(Starts(t))
    PROVE  LET c == CharAt(t, Starts(t)[k])
               i == Starts(t)[k]
               j == EndOfChar(t, k)
           IN  /\ i \in Nat /\ j \in Nat /\ i < j /\ j <= Len(t) /\ Len(c) \in {1, 2}
               /\ IsCharBoundary(t, i) /\ IsCharBoundary(t, j)
               /\ c \in Seq(Bytes) /\ IsUtf8(c)
               /\ c = SubSeq(t, i + 1, j) /\ c[1] = t[i + 1] /\ Len(c) = j - i
<1>1. PICK i \in Nat : i = Starts(t)[k]
  BY StartsTile
<1>2. i < Len(t) /\ IsCharBoundary(t, i)
  BY <1>1, StartsTile
<1> DEFINE c == CharAt(t, i)
<1>3. /\ c \in Seq(Bytes) /\ Len(c) \in {1, 2} /\ i + Len(c) <= Len(t)
      /\ c = SubSeq(t, i + 1, i + Len(c)) /\ c[1] = t[i + 1]
      /\ IsCharBoundary(t, i + Len(c)) /\ IsUtf8(c)
  BY <1>2, CharAtIs
<1> HIDE DEF c
<1>4. EndOfChar(t, k) = i + Len(c)
  BY <1>1 DEF EndOfChar, c
<1>5. PICK l \in Nat : l = Len(c)
  BY <1>3
<1>6. c = SubSeq(t, i + 1, i + l) /\ IsCharBoundary(t, i + l) /\ i + l <= Len(t) /\ l \in {1, 2}
  BY <1>3, <1>5
<1>7. EndOfChar(t, k) = i + l /\ i < i + l /\ (i + l) - i = l
  BY <1>4, <1>5, <1>6
<1>8. CharAt(t, Starts(t)[k]) = c
  BY <1>1 DEF c
<1>9. PICK j \in Nat : j = EndOfChar(t, k) /\ j = i + l
  BY <1>7
<1>10. /\ i \in Nat /\ j \in Nat /\ i < j /\ j <= Len(t) /\ Len(c) \in {1, 2}
       /\ IsCharBoundary(t, i) /\ IsCharBoundary(t, j)
       /\ c \in Seq(Bytes) /\ IsUtf8(c)
       /\ c = SubSeq(t, i + 1, j) /\ c[1] = t[i + 1] /\ Len(c) = j - i
  BY <1>2, <1>3, <1>5, <1>6, <1>7, <1>9
<1> QED
  BY ONLY <1>1, <1>8, <1>9, <1>10

\* The first k characters make the text up to the end of the k-th one.
LEMMA CharsJoin ==
    ASSUME NEW t \in Seq(Bytes), IsUtf8(t)
    PROVE  LET n == Len(Starts(t))
               G == [k \in 0..n |-> SubSeq(t, 1, IF k = 0 THEN 0 ELSE EndOfChar(t, k))]
           IN  /\ CharsOf(t) \in Seq(Seq(Bytes)) /\ Len(CharsOf(t)) = n
               /\ \A k \in 1..n : CharsOf(t)[k] = CharAt(t, Starts(t)[k]) /\ IsUtf8(CharsOf(t)[k])
               /\ Joins(G, CharsOf(t)) /\ G[n] = t /\ G \in [0..n -> Seq(Bytes)]
<1> DEFINE St == Starts(t)
           C == CharsOf(t)
<1>1. PICK n \in Nat : n = Len(St) /\ St \in Seq(Nat) /\ DOMAIN St = 1..n
  BY StartsTile
<1> DEFINE e(k) == IF k = 0 THEN 0 ELSE EndOfChar(t, k)
           G == [k \in 0..n |-> SubSeq(t, 1, e(k))]
<1>2. ASSUME NEW k \in 1..n
      PROVE  /\ CharAt(t, St[k]) \in Seq(Bytes) /\ IsUtf8(CharAt(t, St[k]))
             /\ CharAt(t, St[k]) = SubSeq(t, St[k] + 1, e(k))
             /\ e(k) \in Nat /\ e(k) <= Len(t) /\ St[k] \in Nat /\ St[k] < e(k)
  BY <1>1, CharIs
<1>3. C \in Seq(Seq(Bytes)) /\ Len(C) = n /\ \A k \in 1..n : C[k] = CharAt(t, St[k])
  <2>1. C = [k \in 1..n |-> CharAt(t, St[k])]
    BY <1>1 DEF CharsOf
  <2>2. C \in [1..n -> Seq(Bytes)]
    BY <1>2, <2>1
  <2> QED
    BY <2>1, <2>2, FunctionIsSeq
<1>4. ASSUME NEW k \in 1..n PROVE e(k - 1) = St[k]
  <2>1. CASE k = 1
    <3>1. St[1] = 0
      BY <1>1, StartsTile
    <3> QED
      BY <2>1, <3>1
  <2>2. CASE k # 1
    <3>1. k - 1 \in 1..Len(St) - 1 /\ (k - 1) + 1 = k /\ k - 1 # 0
      BY <1>1, <2>2
    <3>2. EndOfChar(t, k - 1) = St[(k - 1) + 1]
      BY <3>1, StartsTile DEF EndOfChar
    <3> QED
      BY <3>1, <3>2
  <2> QED
    BY <2>1, <2>2
<1>5. e(0) = 0 /\ e(n) = Len(t)
  <2>1. CASE n = 0
    <3>1. Len(t) = 0
      BY <1>1, <2>1, StartsTile
    <3> QED
      BY <2>1, <3>1
  <2>2. CASE n # 0
    <3>1. EndOfChar(t, n) = Len(t)
      BY <1>1, <2>2, StartsTile DEF EndOfChar
    <3> QED
      BY <2>2, <3>1
  <2> QED
    BY <2>1, <2>2
<1>6. \A k \in 0..n : e(k) \in Nat /\ e(k) <= Len(t)
  <2>1. ASSUME NEW k \in 0..n PROVE e(k) \in Nat /\ e(k) <= Len(t)
    <3>1. CASE k = 0
      BY <3>1
    <3>2. CASE k # 0
      BY <1>2, <3>2
    <3> QED
      BY <3>1, <3>2
  <2> QED
    BY <2>1
<1> HIDE DEF e, St, C
<1>7. G \in [0..n -> Seq(Bytes)]
  BY <1>6
<1>8. ASSUME NEW k \in 1..n PROVE G[k] = G[k - 1] \o C[k]
  <2>1. PICK i \in Nat, j \in Nat : i = St[k] /\ j = e(k)
    BY <1>2
  <2>2. e(k - 1) = i /\ k - 1 \in 0..n /\ k \in 0..n
    BY <1>4, <2>1
  <2>3. C[k] = SubSeq(t, i + 1, j) /\ i < j /\ j <= Len(t)
    BY <1>2, <1>3, <2>1
  <2>4. SubSeq(t, 1, j) = SubSeq(t, 1, i) \o SubSeq(t, i + 1, j)
    BY <2>3
  <2>5. G[k] = SubSeq(t, 1, j) /\ G[k - 1] = SubSeq(t, 1, i)
    BY <2>1, <2>2
  <2> QED
    BY <2>3, <2>4, <2>5
<1>9. G[0] = <<>> /\ G[n] = t
  <2>1. SubSeq(t, 1, 0) = <<>> /\ SubSeq(t, 1, Len(t)) = t
    OBVIOUS
  <2> QED
    BY <1>5, <2>1
<1>10. Joins(G, C)
  <2> HIDE DEF G
  <2> QED
    BY <1>3, <1>8, <1>9 DEF Joins
<1> HIDE DEF G
<1>11. G = [k \in 0..n |-> SubSeq(t, 1, IF k = 0 THEN 0 ELSE EndOfChar(t, k))]
  BY DEF G, e
<1> QED
  BY <1>1, <1>2, <1>3, <1>7, <1>9, <1>10, <1>11 DEF St, C

-----------------------------------------------------------------------------
(* The search for the first change.                                        *)

\* Division with remainder.
LEMMA Quotient ==
    ASSUME NEW n \in Nat, NEW d \in Nat \ {0}
    PROVE  /\ n \div d \in Nat /\ (n \div d) * d <= n /\ n < (n \div d) * d + d
OBVIOUS

\* Products grow with their factors.
LEMMA Multiples ==
    ASSUME NEW a \in Nat, NEW b \in Nat, NEW d \in Nat, a <= b
    PROVE  a * d \in Nat /\ a * d <= b * d /\ (a + 1) * d = a * d + d
OBVIOUS

\* prefix_len_while: the longest prefix of bytes in P, however it is cut into chunks.
LEMMA PrefixLenWhileIs ==
    ASSUME NEW t \in Seq(Bytes), NEW P
    PROVE  LET k == PrefixLenWhile(t, P)
           IN  /\ k \in 0..Len(t)
               /\ \A i \in 1..k : t[i] \in P
               /\ k < Len(t) => t[k + 1] \notin P
<1>1. PICK n \in Nat : n = Len(t)
  OBVIOUS
<1>2. PICK s \in Nat \ {0} : s = ChunkSize
  BY ChunkAssumption
<1> DEFINE chunks == n \div s
           AllBytes(c) == Cardinality({i \in 1..s : t[c * s + i] \in P}) = s
           F == {c \in 0..chunks : \A d \in 0..c - 1 : AllBytes(d)}
           full == Max(F)
           len == full * s
           end == IF full < chunks THEN len + s ELSE n
           K == {k \in len..end : \A i \in len + 1..k : t[i] \in P}
<1>3. PrefixLenWhile(t, P) = Max(K)
  BY <1>1, <1>2 DEF PrefixLenWhile
<1>4. ASSUME NEW c \in Nat PROVE AllBytes(c) <=> \A i \in 1..s : t[c * s + i] \in P
  <2> DEFINE T == {i \in 1..s : t[c * s + i] \in P}
  <2>1. IsFiniteSet(1..s) /\ Cardinality(1..s) = s
    BY FS_Interval
  <2>2. Cardinality(T) = s => T = 1..s
    BY <2>1, FS_Subset
  <2>3. (\A i \in 1..s : t[c * s + i] \in P) => T = 1..s
    OBVIOUS
  <2>4. T = 1..s => Cardinality(T) = s
    BY <2>1
  <2>5. T = 1..s => \A i \in 1..s : t[c * s + i] \in P
    OBVIOUS
  <2> QED
    BY <2>2, <2>3, <2>4, <2>5
<1>5. chunks \in Nat /\ chunks * s <= n
  BY Quotient
<1> HIDE DEF AllBytes, chunks
<1>6. full \in F /\ \A c \in F : c <= full
  <2>1. F \subseteq Nat /\ 0 \in F /\ \A c \in F : c <= chunks
    BY <1>5
  <2> HIDE DEF F
  <2> QED
    BY <1>5, <2>1, MaxIs
<1>7. full \in 0..chunks /\ \A d \in 0..full - 1 : AllBytes(d)
  BY <1>6
<1>8. full = chunks \/ ~AllBytes(full)
  <2>1. SUFFICES ASSUME full # chunks, AllBytes(full) PROVE FALSE
    OBVIOUS
  <2>2. full + 1 \in 0..chunks
    BY <1>5, <1>7, <2>1
  <2>3. ASSUME NEW d \in 0..(full + 1) - 1 PROVE AllBytes(d)
    <3>1. d = full \/ d \in 0..full - 1
      BY <1>7
    <3> QED
      BY <1>7, <2>1, <3>1
  <2>4. full + 1 \in F
    BY <2>2, <2>3
  <2> HIDE DEF F
  <2> QED
    BY <1>5, <1>6, <1>7, <2>4
<1> HIDE DEF F, full
<1>9. full \in Nat /\ full <= chunks
  BY <1>5, <1>7
<1>10. len \in Nat /\ len <= n /\ (full < chunks => len + s <= n)
  <2>1. len \in Nat /\ len <= chunks * s
    BY <1>5, <1>9, Multiples
  <2>2. full < chunks => len + s <= chunks * s
    <3>1. SUFFICES ASSUME full < chunks PROVE len + s <= chunks * s
      OBVIOUS
    <3>2. full + 1 <= chunks /\ full + 1 \in Nat
      BY <1>5, <1>9, <3>1
    <3>3. (full + 1) * s <= chunks * s /\ (full + 1) * s = len + s
      BY <1>5, <1>9, <3>2, Multiples
    <3> QED
      BY <3>3
  <2>3. PICK x \in Nat : x = chunks * s
    BY <1>5, Multiples
  <2> HIDE DEF len
  <2> QED
    BY <1>5, <2>1, <2>2, <2>3
<1>11. ASSUME NEW i \in 1..len PROVE t[i] \in P
  <2>1. PICK j \in Nat : j = i - 1 /\ j < len
    BY <1>10
  <2>2. PICK d \in Nat : d = j \div s /\ d * s <= j /\ j < d * s + s
    BY Quotient
  <2>3. d < full
    <3>1. SUFFICES ASSUME full <= d PROVE FALSE
      BY <1>9
    <3>2. full * s <= d * s /\ d * s \in Nat
      BY <1>9, <3>1, Multiples
    <3> QED
      BY <1>10, <2>1, <2>2, <3>2
  <2>4. PICK x \in Nat : x = d * s
    BY Multiples
  <2>5. i - x \in 1..s /\ x + (i - x) = i
    BY <2>1, <2>2, <2>4
  <2>6. \A y \in 1..s : t[d * s + y] \in P
    <3>1. d \in 0..full - 1
      BY <1>9, <2>3
    <3> QED
      BY <1>4, <1>7, <3>1
  <2>7. t[x + (i - x)] \in P
    BY <2>4, <2>5, <2>6
  <2> QED
    BY <2>5, <2>7
<1>12. full < chunks => \E i \in 1..s : t[len + i] \notin P
  <2>1. SUFFICES ASSUME full < chunks PROVE \E i \in 1..s : t[full * s + i] \notin P
    OBVIOUS
  <2>2. ~AllBytes(full)
    BY <1>5, <1>8, <1>9, <2>1
  <2> QED
    BY <1>4, <1>9, <2>2
<1> HIDE DEF len
<1>13. end \in Nat /\ len <= end /\ end <= n
  BY <1>10
<1>14. Max(K) \in K /\ \A k \in K : k <= Max(K)
  <2>1. K \subseteq Nat /\ len \in K /\ \A k \in K : k <= n
    BY <1>10, <1>13
  <2> HIDE DEF K
  <2> QED
    BY <2>1, MaxIs
<1>15. PICK k \in Nat : k = Max(K)
  <2>1. K \subseteq Nat
    BY <1>10, <1>13
  <2> QED
    BY <1>14, <2>1
<1>16. k \in len..end /\ (\A i \in len + 1..k : t[i] \in P) /\ \A j \in K : j <= k
  BY <1>14, <1>15
<1>17. \A i \in 1..k : t[i] \in P
  <2>1. ASSUME NEW i \in 1..k PROVE t[i] \in P
    <3>1. i \in 1..len \/ i \in len + 1..k
      BY <1>10
    <3> QED
      BY <1>11, <1>16, <3>1
  <2> QED
    BY <2>1
<1>18. ASSUME k < n, t[k + 1] \in P PROVE FALSE
  <2>1. CASE k < end
    <3>1. k + 1 \in len..end
      BY <1>10, <1>13, <1>16, <2>1
    <3>2. ASSUME NEW i \in len + 1..k + 1 PROVE t[i] \in P
      <4>1. i = k + 1 \/ i \in len + 1..k
        BY <1>10
      <4> QED
        BY <1>16, <1>18, <4>1
    <3>3. k + 1 \in K
      BY <3>1, <3>2
    <3> HIDE DEF K
    <3> QED
      BY <1>16, <3>3
  <2>2. CASE ~(k < end)
    <3>1. k = end /\ full < chunks /\ end = len + s
      BY <1>10, <1>13, <1>16, <1>18, <2>2
    <3>2. PICK i \in 1..s : t[len + i] \notin P
      BY <1>12, <3>1
    <3>3. len + i \in 1..k
      BY <1>10, <3>1
    <3> QED
      BY <1>17, <3>2, <3>3
  <2> QED
    BY <2>1, <2>2
<1>19. k \in 0..n
  BY <1>10, <1>13, <1>16
<1> HIDE DEF K, end
<1> QED
  BY <1>1, <1>3, <1>15, <1>17, <1>18, <1>19

\* to_ascii_lowercase and to_ascii_uppercase of a byte.
LEMMA AsciiByteIs ==
    ASSUME NEW b \in Bytes, NEW case
    PROVE  /\ AsciiByte(b, case) \in Bytes
           /\ (AsciiByte(b, case) \in Ascii <=> b \in Ascii)
           /\ (b \notin Ascii => AsciiByte(b, case) = b)
           /\ (AsciiByte(b, case) = "e1" <=> b = "e1")
           /\ (AsciiByte(b, case) \in Trailing <=> b \in Trailing)
<1>1. b \in {"a", "A", "e2", "S2", "s2", "f2", "e1"}
  BY DEF Bytes, Ascii, Trailing
<1>2. b # "a" /\ b # "A" => AsciiByte(b, case) = b
  BY DEF AsciiByte
<1>3. b = "a" => AsciiByte(b, case) \in {"a", "A"}
  BY DEF AsciiByte
<1>4. b = "A" => AsciiByte(b, case) \in {"a", "A"}
  BY DEF AsciiByte
<1> QED
  BY <1>1, <1>2, <1>3, <1>4 DEF Bytes, Ascii, Trailing

\* The same of a sequence, byte by byte; parts can be mapped by themselves.
LEMMA AsciiCaseIs ==
    ASSUME NEW S, NEW case, \A b \in S : AsciiByte(b, case) \in S, NEW d \in Seq(S)
    PROVE  /\ AsciiCase(d, case) \in Seq(S) /\ Len(AsciiCase(d, case)) = Len(d)
           /\ \A i \in 1..Len(d) : AsciiCase(d, case)[i] = AsciiByte(d[i], case)
           /\ \A n \in Nat : n <= Len(d) =>
                 SubSeq(AsciiCase(d, case), 1, n) = AsciiCase(SubSeq(d, 1, n), case)
<1> DEFINE e == AsciiCase(d, case)
<1>1. PICK l \in Nat : l = Len(d) /\ DOMAIN d = 1..l
  OBVIOUS
<1>2. \A i \in 1..l : d[i] \in S
  BY <1>1
<1>3. e = [i \in 1..l |-> AsciiByte(d[i], case)]
  BY <1>1 DEF AsciiCase
<1>4. e \in [1..l -> S]
  BY <1>2, <1>3
<1>5. e \in Seq(S) /\ Len(e) = l
  BY <1>4, FunctionIsSeq
<1>6. \A i \in 1..l : e[i] = AsciiByte(d[i], case)
  BY <1>3
<1> HIDE DEF e
<1>7. ASSUME NEW n \in Nat, n <= l PROVE SubSeq(e, 1, n) = AsciiCase(SubSeq(d, 1, n), case)
  <2> DEFINE u == SubSeq(d, 1, n)
  <2>1. u \in Seq(S) /\ Len(u) = n /\ DOMAIN u = 1..n /\ \A i \in 1..n : u[i] = d[i]
    BY <1>1, <1>7
  <2> HIDE DEF u
  <2>2. AsciiCase(u, case) = [i \in 1..n |-> AsciiByte(u[i], case)]
    BY <2>1 DEF AsciiCase
  <2>3. AsciiCase(u, case) \in [1..n -> S]
    BY <2>1, <2>2
  <2>4. AsciiCase(u, case) \in Seq(S) /\ Len(AsciiCase(u, case)) = n
    BY <2>3, FunctionIsSeq
  <2>5. SubSeq(e, 1, n) \in Seq(S) /\ Len(SubSeq(e, 1, n)) = n
    BY <1>5, <1>7
  <2>6. ASSUME NEW i \in 1..n PROVE SubSeq(e, 1, n)[i] = AsciiCase(u, case)[i]
    <3>1. SubSeq(e, 1, n)[i] = e[i]
      BY <1>5, <1>7
    <3>2. e[i] = AsciiByte(d[i], case)
      BY <1>6, <1>7
    <3> QED
      BY <2>1, <2>2, <3>1, <3>2
  <2>7. SubSeq(e, 1, n) = AsciiCase(u, case)
    BY <2>4, <2>5, <2>6, SameSeq
  <2> QED
    BY <2>7 DEF u
<1> QED
  BY <1>1, <1>5, <1>6, <1>7 DEF e

\* A text stays valid UTF-8.
LEMMA AsciiCaseUtf8 ==
    ASSUME NEW t \in Seq(Bytes), NEW case
    PROVE  /\ AsciiCase(t, case) \in Seq(Bytes) /\ Len(AsciiCase(t, case)) = Len(t)
           /\ \A i \in 1..Len(t) : AsciiCase(t, case)[i] = AsciiByte(t[i], case)
           /\ IsUtf8(t) => IsUtf8(AsciiCase(t, case))
<1> DEFINE u == AsciiCase(t, case)
<1>1. PICK n \in Nat : n = Len(t)
  OBVIOUS
<1>2. u \in Seq(Bytes) /\ Len(u) = n /\ \A i \in 1..n : u[i] = AsciiByte(t[i], case)
  BY <1>1, AsciiByteIs, AsciiCaseIs
<1> HIDE DEF u
<1>3. \A i \in 1..n : (u[i] = "e1" <=> t[i] = "e1") /\ (u[i] \in Trailing <=> t[i] \in Trailing)
  BY <1>1, <1>2, AsciiByteIs
<1>4. ASSUME IsUtf8(t) PROVE IsUtf8(u)
  <2>1. ASSUME NEW i \in 1..n
        PROVE  /\ u[i] = "e1" => i < n /\ u[i + 1] \in Trailing
               /\ u[i] \in Trailing => i > 1 /\ u[i - 1] = "e1"
    <3>1. t[i] = "e1" => i < n /\ t[i + 1] \in Trailing
      BY <1>1, <1>4, Utf8Is
    <3>2. t[i] \in Trailing => i > 1 /\ t[i - 1] = "e1"
      BY <1>1, <1>4, Utf8Is
    <3>3. i < n => (u[i + 1] \in Trailing <=> t[i + 1] \in Trailing)
      BY <1>3
    <3>4. i > 1 => (u[i - 1] = "e1" <=> t[i - 1] = "e1")
      BY <1>3
    <3> QED
      BY <1>3, <3>1, <3>2, <3>3, <3>4
  <2> QED
    BY <1>2, <2>1, Utf8Is
<1> QED
  BY <1>1, <1>2, <1>4 DEF u

\* Two texts one after the other.
LEMMA AsciiCaseJoin ==
    ASSUME NEW s \in Seq(Bytes), NEW t \in Seq(Bytes), NEW case
    PROVE  AsciiCase(s \o t, case) = AsciiCase(s, case) \o AsciiCase(t, case)
<1> DEFINE u == s \o t
           x == AsciiCase(s, case)
           y == AsciiCase(t, case)
           z == AsciiCase(u, case)
<1>1. PICK n \in Nat, l \in Nat : n = Len(s) /\ l = Len(t)
  OBVIOUS
<1>2. u \in Seq(Bytes) /\ Len(u) = n + l
  BY <1>1
<1>3. (\A i \in 1..n : u[i] = s[i]) /\ \A i \in 1..l : u[n + i] = t[i]
  BY <1>1
<1> HIDE DEF u
<1>4. x \in Seq(Bytes) /\ Len(x) = n /\ \A i \in 1..n : x[i] = AsciiByte(s[i], case)
  BY <1>1, AsciiCaseUtf8
<1>5. y \in Seq(Bytes) /\ Len(y) = l /\ \A i \in 1..l : y[i] = AsciiByte(t[i], case)
  BY <1>1, AsciiCaseUtf8
<1>6. z \in Seq(Bytes) /\ Len(z) = n + l /\ \A i \in 1..n + l : z[i] = AsciiByte(u[i], case)
  BY <1>2, AsciiCaseUtf8
<1> HIDE DEF x, y, z
<1>7. x \o y \in Seq(Bytes) /\ Len(x \o y) = n + l
  <2>1. x \in Seq(Bytes) /\ y \in Seq(Bytes) /\ Len(x) = n /\ Len(y) = l
    BY <1>4, <1>5
  <2>2. x \o y \in Seq(Bytes) /\ Len(x \o y) = Len(x) + Len(y)
    BY ONLY <2>1, JoinIs
  <2> QED
    BY ONLY <2>1, <2>2
<1>8. (\A i \in 1..n : (x \o y)[i] = x[i]) /\ \A i \in 1..l : (x \o y)[n + i] = y[i]
  BY <1>4, <1>5
<1>9. ASSUME NEW i \in 1..n + l PROVE z[i] = (x \o y)[i]
  <2>1. CASE i <= n
    <3>1. i \in 1..n
      BY <2>1
    <3> QED
      BY <1>3, <1>4, <1>6, <1>8, <3>1
  <2>2. CASE i > n
    <3>1. PICK j \in 1..l : i = n + j
      <4>1. i - n \in 1..l /\ i = n + (i - n)
        BY <2>2
      <4> QED
        BY <4>1
    <3>2. u[i] = t[j] /\ (x \o y)[i] = y[j]
      BY <1>3, <1>8, <3>1
    <3> QED
      BY <1>5, <1>6, <3>2
  <2>3. i <= n \/ i > n
    OBVIOUS
  <2> QED
    BY <2>1, <2>2, <2>3
<1>10. z = x \o y
  BY <1>6, <1>7, <1>9, SameSeq
<1> QED
  BY <1>10 DEF x, y, z, u

\* A sequence is what comes before a place and what comes after it.
LEMMA CutIs ==
    ASSUME NEW S, NEW t \in Seq(S), NEW k \in 0..Len(t)
    PROVE  t = SubSeq(t, 1, k) \o SubSeq(t, k + 1, Len(t))
<1> DEFINE a == SubSeq(t, 1, k)
           b == SubSeq(t, k + 1, Len(t))
<1>1. PICK n \in Nat : n = Len(t)
  OBVIOUS
<1>2. a \in Seq(S) /\ Len(a) = k /\ \A i \in 1..k : a[i] = t[i]
  BY <1>1
<1>3. b \in Seq(S) /\ Len(b) = n - k /\ \A i \in 1..n - k : b[i] = t[k + i]
  BY <1>1
<1> HIDE DEF a, b
<1>4. a \o b \in Seq(S) /\ Len(a \o b) = n
  <2>1. a \in Seq(S) /\ b \in Seq(S) /\ Len(a) = k /\ Len(b) = n - k
    BY <1>2, <1>3
  <2>2. a \o b \in Seq(S) /\ Len(a \o b) = Len(a) + Len(b)
    BY ONLY <2>1, JoinIs
  <2>3. k + (n - k) = n
    BY <1>1
  <2> QED
    BY ONLY <2>1, <2>2, <2>3
<1>5. ASSUME NEW i \in 1..n PROVE t[i] = (a \o b)[i]
  <2>1. CASE i <= k
    <3>1. i \in 1..k /\ (a \o b)[i] = a[i]
      BY <1>2, <1>3, <2>1
    <3> QED
      BY <1>2, <3>1
  <2>2. CASE i > k
    <3>1. i - k \in 1..n - k /\ k + (i - k) = i
      BY <1>1, <2>2
    <3>2. (a \o b)[i] = b[i - k]
      BY <1>1, <1>2, <1>3, <2>2
    <3>3. b[i - k] = t[k + (i - k)]
      BY <1>3, <3>1
    <3> QED
      BY <3>1, <3>2, <3>3
  <2>3. i <= k \/ i > k
    BY <1>1
  <2> QED
    BY <2>1, <2>2, <2>3
<1>6. t = a \o b
  BY <1>1, <1>4, <1>5, SameSeq
<1> QED
  BY <1>6 DEF a, b

\* split_at_first_ascii_change: nothing changes, or nothing before the split does.
LEMMA FirstAsciiChange ==
    ASSUME NEW t \in Seq(Bytes), IsUtf8(t), NEW case
    PROVE  LET mid == SplitAtFirstAsciiChange(t, case)
           IN  /\ mid = NoChange => AsciiCase(t, case) = t
               /\ mid # NoChange =>
                     /\ mid \in 0..Len(t) /\ AsciiCase(t, case) # t
                     /\ AsciiCase(t, case) =
                           SubSeq(t, 1, mid) \o AsciiCase(SubSeq(t, mid + 1, Len(t)), case)
<1> DEFINE P == SteadyBytes(case)
<1>1. PICK n \in Nat : n = Len(t)
  OBVIOUS
<1>2. PICK k \in 0..n : /\ k = PrefixLenWhile(t, P) /\ \A i \in 1..k : t[i] \in P
                        /\ k < n => t[k + 1] \notin P
  BY <1>1, PrefixLenWhileIs
<1>3. SplitAtFirstAsciiChange(t, case) = IF k = n THEN NoChange ELSE k
  BY <1>1, <1>2 DEF SplitAtFirstAsciiChange
<1>4. ASSUME NEW i \in 1..n PROVE t[i] \in P <=> AsciiByte(t[i], case) = t[i]
  BY <1>1 DEF SteadyBytes, ByteChanges
<1> DEFINE a == SubSeq(t, 1, k)
           b == SubSeq(t, k + 1, n)
<1>5. a \in Seq(Bytes) /\ b \in Seq(Bytes) /\ t = a \o b /\ Len(a) = k
  <2>1. a \in Seq(Bytes) /\ Len(a) = k
    BY <1>1
  <2>2. b \in Seq(Bytes)
    BY <1>1
  <2>3. t = a \o b
    BY <1>1, CutIs
  <2> QED
    BY <2>1, <2>2, <2>3
<1>6. \A i \in 1..k : a[i] = t[i]
  BY <1>1
<1> HIDE DEF a, b, P
<1>7. AsciiCase(a, case) = a
  <2> DEFINE x == AsciiCase(a, case)
  <2>1. x \in Seq(Bytes) /\ Len(x) = k /\ \A i \in 1..k : x[i] = AsciiByte(a[i], case)
    BY <1>5, AsciiCaseUtf8
  <2> HIDE DEF x
  <2>2. \A i \in 1..k : x[i] = a[i]
    BY <1>2, <1>4, <1>6, <2>1
  <2>3. x = a
    BY <1>5, <2>1, <2>2, SameSeq
  <2> QED
    BY <2>3 DEF x
<1>8. AsciiCase(t, case) = a \o AsciiCase(b, case)
  <2>1. AsciiCase(a \o b, case) = AsciiCase(a, case) \o AsciiCase(b, case)
    BY <1>5, AsciiCaseJoin
  <2> QED
    BY <1>5, <1>7, <2>1
<1>9. CASE k = n
  <2>1. a = t
    BY <1>1, <1>9 DEF a
  <2> QED
    BY <1>3, <1>7, <1>9, <2>1
<1>10. CASE k # n
  <2>1. k + 1 \in 1..n /\ t[k + 1] \notin P
    BY <1>2, <1>10
  <2>2. AsciiCase(t, case)[k + 1] # t[k + 1]
    BY <1>1, <1>4, <2>1, AsciiCaseUtf8
  <2>3. SplitAtFirstAsciiChange(t, case) = k /\ k # NoChange /\ k \in 0..Len(t)
    BY <1>1, <1>3, <1>10 DEF NoChange
  <2>4. AsciiCase(t, case) = SubSeq(t, 1, k) \o AsciiCase(SubSeq(t, k + 1, Len(t)), case)
    BY <1>1, <1>8 DEF a, b
  <2> QED
    BY <2>2, <2>3, <2>4
<1> QED
  BY <1>9, <1>10

-----------------------------------------------------------------------------
(* Filters.                                                                *)

\* The buffers b and d agree beyond their first n bytes.
Agree(b, d, n) == \A x \in n + 1..Len(d) : b[x] = d[x]

\* Bytes that move towards the start: what is joined to the first dst bytes, and what
\* stays where it is.
LEMMA MovedDown ==
    ASSUME NEW S, NEW d \in Seq(S), NEW src \in Nat, NEW dst \in Nat, NEW n \in Nat,
           dst <= src, src + n <= Len(d)
    PROVE  /\ CopyWithin(d, src, dst, n) \in Seq(S) /\ Len(CopyWithin(d, src, dst, n)) = Len(d)
           /\ SubSeq(CopyWithin(d, src, dst, n), 1, dst + n)
                 = SubSeq(d, 1, dst) \o SubSeq(d, src + 1, src + n)
           /\ Agree(CopyWithin(d, src, dst, n), d, dst + n)
<1> DEFINE e == CopyWithin(d, src, dst, n)
           a == SubSeq(d, 1, dst)
           b == SubSeq(d, src + 1, src + n)
           w == SubSeq(e, 1, dst + n)
<1>1. PICK l \in Nat : l = Len(d)
  OBVIOUS
<1>2. src + n <= l /\ dst + n <= l
  BY <1>1
<1>3. e \in Seq(S) /\ Len(e) = l
  BY <1>1, <1>2, CopyWithinIs
<1>4. \A i \in 1..l : e[i] = IF dst < i /\ i <= dst + n THEN d[i - dst + src] ELSE d[i]
  BY <1>1, <1>2, CopyWithinIs
<1> HIDE DEF e
<1>5. a \in Seq(S) /\ Len(a) = dst /\ \A i \in 1..dst : a[i] = d[i]
  BY <1>1, <1>2
<1>6. b \in Seq(S) /\ Len(b) = n /\ \A i \in 1..n : b[i] = d[src + i]
  BY <1>1, <1>2
<1>7. w \in Seq(S) /\ Len(w) = dst + n /\ \A i \in 1..dst + n : w[i] = e[i]
  BY <1>2, <1>3
<1> HIDE DEF a, b, w
<1>8. a \o b \in Seq(S) /\ Len(a \o b) = dst + n
  <2>1. a \in Seq(S) /\ b \in Seq(S) /\ Len(a) = dst /\ Len(b) = n
    BY <1>5, <1>6
  <2>2. a \o b \in Seq(S) /\ Len(a \o b) = Len(a) + Len(b)
    BY ONLY <2>1, JoinIs
  <2> QED
    BY ONLY <2>1, <2>2
<1>9. ASSUME NEW i \in 1..dst + n PROVE w[i] = (a \o b)[i]
  <2>1. w[i] = e[i] /\ i \in 1..l
    BY <1>2, <1>7
  <2>2. CASE i <= dst
    <3>1. e[i] = d[i] /\ i \in 1..dst
      BY <1>4, <2>1, <2>2
    <3>2. (a \o b)[i] = a[i]
      BY <1>5, <1>6, <2>2
    <3> QED
      BY <1>5, <2>1, <3>1, <3>2
  <2>3. CASE i > dst
    <3>1. PICK j \in 1..n : i = dst + j
      <4>1. i - dst \in 1..n /\ i = dst + (i - dst)
        BY <2>3
      <4> QED
        BY <4>1
    <3>2. e[i] = d[src + j]
      <4>1. dst < i /\ i <= dst + n /\ i - dst + src = src + j
        BY <2>3, <3>1
      <4> QED
        BY <1>4, <2>1, <4>1
    <3>3. (a \o b)[dst + j] = b[j]
      BY <1>5, <1>6
    <3> QED
      BY <1>6, <2>1, <3>1, <3>2, <3>3
  <2>4. i <= dst \/ i > dst
    OBVIOUS
  <2> QED
    BY <2>2, <2>3, <2>4
<1>10. w = a \o b
  BY <1>7, <1>8, <1>9, SameSeq
<1>11. \A i \in dst + n + 1..l : e[i] = d[i]
  BY <1>2, <1>4
<1>12. Agree(e, d, dst + n)
  BY <1>1, <1>11 DEF Agree
<1> QED
  BY <1>1, <1>3, <1>10, <1>12 DEF e, a, b, w

\* Where the first k characters of t end.
Upto(t, k) == IF k = 0 THEN 0 ELSE EndOfChar(t, k)

\* One character after the other.
LEMMA UptoIs ==
    ASSUME NEW t \in Seq(Bytes), IsUtf8(t)
    PROVE  LET n == Len(Starts(t))
           IN  /\ n \in Nat /\ Upto(t, 0) = 0 /\ Upto(t, n) = Len(t)
               /\ \A k \in 1..n : Upto(t, k - 1) = Starts(t)[k]
               /\ \A k \in 0..n : Upto(t, k) \in Nat /\ Upto(t, k) <= Len(t)
               /\ \A k \in 1..n : /\ Upto(t, k - 1) < Upto(t, k)
                                  /\ CharAt(t, Starts(t)[k]) = SubSeq(t, Upto(t, k - 1) + 1, Upto(t, k))
                                  /\ CharAt(t, Starts(t)[k]) \in Seq(Bytes)
                                  /\ IsUtf8(CharAt(t, Starts(t)[k]))
                                  /\ Len(CharAt(t, Starts(t)[k])) = Upto(t, k) - Upto(t, k - 1)
                                  /\ CharAt(t, Starts(t)[k])[1] = t[Starts(t)[k] + 1]
               /\ \A k \in 0..n : IsCharBoundary(t, Upto(t, k))
<1> DEFINE St == Starts(t)
<1>1. PICK n \in Nat : n = Len(St)
  BY StartsTile
<1>2. ASSUME NEW k \in 1..n PROVE Upto(t, k - 1) = St[k]
  <2>1. CASE k = 1
    <3>1. St[1] = 0 /\ k - 1 = 0
      BY <1>1, <2>1, StartsTile
    <3> QED
      BY <2>1, <3>1 DEF Upto
  <2>2. CASE k # 1
    <3>1. k - 1 \in 1..Len(St) - 1 /\ (k - 1) + 1 = k /\ k - 1 # 0
      BY <1>1, <2>2
    <3>2. EndOfChar(t, k - 1) = St[(k - 1) + 1]
      BY <3>1, StartsTile DEF EndOfChar
    <3> QED
      BY <3>1, <3>2 DEF Upto
  <2> QED
    BY <2>1, <2>2
<1>3. Upto(t, n) = Len(t)
  <2>1. CASE n = 0
    <3>1. Len(t) = 0
      BY <1>1, <2>1, StartsTile
    <3> QED
      BY <2>1, <3>1 DEF Upto
  <2>2. CASE n # 0
    <3>1. EndOfChar(t, n) = Len(t)
      BY <1>1, <2>2, StartsTile DEF EndOfChar
    <3> QED
      BY <2>2, <3>1 DEF Upto
  <2> QED
    BY <2>1, <2>2
<1>4. ASSUME NEW k \in 1..n
      PROVE  LET c == CharAt(t, St[k]) IN
             /\ St[k] \in Nat /\ Upto(t, k) \in Nat /\ Upto(t, k) <= Len(t) /\ St[k] < Upto(t, k)
             /\ c \in Seq(Bytes) /\ IsUtf8(c) /\ c = SubSeq(t, St[k] + 1, Upto(t, k))
             /\ Len(c) = Upto(t, k) - St[k] /\ c[1] = t[St[k] + 1]
             /\ IsCharBoundary(t, Upto(t, k))
  <2>1. k # 0 /\ k \in 1..Len(Starts(t))
    BY <1>1
  <2>2. Upto(t, k) = EndOfChar(t, k)
    BY <2>1 DEF Upto
  <2> QED
    BY <2>1, <2>2, CharIs
<1>5. \A k \in 0..n : Upto(t, k) \in Nat /\ Upto(t, k) <= Len(t) /\ IsCharBoundary(t, Upto(t, k))
  <2>1. ASSUME NEW k \in 0..n
        PROVE  Upto(t, k) \in Nat /\ Upto(t, k) <= Len(t) /\ IsCharBoundary(t, Upto(t, k))
    <3>1. CASE k = 0
      BY <3>1, EndsAreBoundaries DEF Upto
    <3>2. CASE k # 0
      BY <1>4, <3>2
    <3> QED
      BY <3>1, <3>2
  <2> QED
    BY <2>1
<1>6. Upto(t, 0) = 0
  BY DEF Upto
<1> HIDE DEF St
<1>7. \A k \in 1..n : /\ Upto(t, k - 1) < Upto(t, k)
                      /\ CharAt(t, St[k]) = SubSeq(t, Upto(t, k - 1) + 1, Upto(t, k))
                      /\ CharAt(t, St[k]) \in Seq(Bytes) /\ IsUtf8(CharAt(t, St[k]))
                      /\ Len(CharAt(t, St[k])) = Upto(t, k) - Upto(t, k - 1)
                      /\ CharAt(t, St[k])[1] = t[St[k] + 1]
  BY <1>2, <1>4
<1> QED
  BY <1>1, <1>2, <1>3, <1>5, <1>6, <1>7 DEF St

\* The characters whose numbers are in keep, among the first n.
PieceOf(t, keep, k) == IF k \in keep THEN CharAt(t, Starts(t)[k]) ELSE <<>>
KeptOf(t, keep, n) == FlattenSeq([k \in 1..n |-> PieceOf(t, keep, k)])

\* How they come together, one by one.
LEMMA KeptStep ==
    ASSUME NEW t \in Seq(Bytes), IsUtf8(t), NEW keep
    PROVE  /\ KeptOf(t, keep, 0) = <<>>
           /\ \A k \in 1..Len(Starts(t)) :
                 KeptOf(t, keep, k) = KeptOf(t, keep, k - 1) \o PieceOf(t, keep, k)
           /\ \A k \in 0..Len(Starts(t)) :
                 KeptOf(t, keep, k) \in Seq(Bytes) /\ IsUtf8(KeptOf(t, keep, k))
<1>1. PICK c \in Nat : c = Len(Starts(t))
  BY UptoIs
<1> DEFINE ss(n) == [k \in 1..n |-> PieceOf(t, keep, k)]
<1>2. ASSUME NEW k \in 1..c PROVE PieceOf(t, keep, k) \in Seq(Bytes) /\ IsUtf8(PieceOf(t, keep, k))
  <2>1. CharAt(t, Starts(t)[k]) \in Seq(Bytes) /\ IsUtf8(CharAt(t, Starts(t)[k]))
    BY <1>1, UptoIs
  <2>2. <<>> \in Seq(Bytes) /\ IsUtf8(<<>>)
    BY DEF IsUtf8
  <2> QED
    BY <2>1, <2>2 DEF PieceOf
<1>3. ASSUME NEW n \in 0..c
      PROVE  /\ ss(n) \in Seq(Seq(Bytes)) /\ Len(ss(n)) = n
             /\ \A k \in 1..n : ss(n)[k] = PieceOf(t, keep, k)
  <2>1. ss(n) \in [1..n -> Seq(Bytes)]
    BY <1>2
  <2> QED
    BY <2>1, FunctionIsSeq
<1> HIDE DEF ss
<1>4. /\ ss(c) \in Seq(Seq(Bytes)) /\ Len(ss(c)) = c
      /\ \A k \in 1..c : ss(c)[k] = PieceOf(t, keep, k)
  <2>1. c \in 0..c
    OBVIOUS
  <2> QED
    BY <1>3, <2>1
<1>5. PICK G \in [0..c -> Seq(Bytes)] : Joins(G, ss(c))
  BY <1>4, JoinsExist
<1>6. \A k \in 1..c : G[k] = G[k - 1] \o PieceOf(t, keep, k)
  BY <1>4, <1>5 DEF Joins
<1>7. ASSUME NEW n \in 0..c PROVE KeptOf(t, keep, n) = G[n]
  <2>1. Joins(G, ss(n))
    <3>1. ASSUME NEW k \in 1..n PROVE G[k] = G[k - 1] \o ss(n)[k]
      <4>1. k \in 1..c
        OBVIOUS
      <4> QED
        BY <1>3, <1>6, <4>1
    <3> QED
      BY <1>3, <1>5, <3>1 DEF Joins
  <2>2. FlattenSeq(ss(n)) = G[n]
    BY <1>3, <2>1, FlattenIs
  <2> QED
    BY <2>2 DEF KeptOf, ss
<1>8. \A k \in 0..c : IsUtf8(G[k])
  <2>1. \A k \in 1..c : IsUtf8(ss(c)[k])
    BY <1>2, <1>4
  <2> QED
    BY <1>4, <1>5, <2>1, JoinsUtf8
<1>9. KeptOf(t, keep, 0) = <<>>
  <2>1. G[0] = <<>> /\ 0 \in 0..c
    BY <1>5 DEF Joins
  <2> QED
    BY <1>7, <2>1
<1>10. ASSUME NEW k \in 1..c
       PROVE  KeptOf(t, keep, k) = KeptOf(t, keep, k - 1) \o PieceOf(t, keep, k)
  <2>1. k \in 0..c /\ k - 1 \in 0..c
    OBVIOUS
  <2> QED
    BY <1>6, <1>7, <2>1
<1>11. ASSUME NEW k \in 0..c PROVE KeptOf(t, keep, k) \in Seq(Bytes) /\ IsUtf8(KeptOf(t, keep, k))
  BY <1>5, <1>7, <1>8
<1> QED
  BY <1>1, <1>9, <1>10, <1>11

\* Nothing is lost if all are kept, and something otherwise.
LEMMA KeptAll ==
    ASSUME NEW t \in Seq(Bytes), IsUtf8(t), NEW keep, NEW n \in 0..Len(Starts(t))
    PROVE  /\ Len(KeptOf(t, keep, n)) <= Upto(t, n)
           /\ (\A k \in 1..n : k \in keep) => KeptOf(t, keep, n) = SubSeq(t, 1, Upto(t, n))
           /\ (\E k \in 1..n : k \notin keep) => Len(KeptOf(t, keep, n)) < Upto(t, n)
<1>1. PICK c \in Nat : c = Len(Starts(t))
  BY UptoIs
<1> DEFINE J(k) == KeptOf(t, keep, k)
           All(k) == \A x \in 1..k : x \in keep
           Is(k) == /\ Len(J(k)) <= Upto(t, k)
                    /\ All(k) => J(k) = SubSeq(t, 1, Upto(t, k))
                    /\ ~All(k) => Len(J(k)) < Upto(t, k)
           S == {k \in Nat : k <= c => Is(k)}
<1>2. 0 \in S
  <2>1. J(0) = <<>> /\ Upto(t, 0) = 0
    BY KeptStep, UptoIs
  <2>2. SubSeq(t, 1, 0) = <<>> /\ Len(<<>>) = 0
    OBVIOUS
  <2> HIDE DEF J
  <2>3. PICK e \in Seq(Bytes) : e = <<>> /\ Len(e) = 0
    <3>1. <<>> \in Seq(Bytes)
      OBVIOUS
    <3> QED
      BY <2>2, <3>1
  <2>4. J(0) = e /\ SubSeq(t, 1, 0) = e
    BY <2>1, <2>2, <2>3
  <2>5. All(0)
    OBVIOUS
  <2> HIDE DEF All
  <2>6. Len(J(0)) <= 0 /\ (All(0) => J(0) = SubSeq(t, 1, 0)) /\ (~All(0) => Len(J(0)) < 0)
    <3>1. Len(J(0)) = 0
      BY ONLY <2>3, <2>4
    <3>2. J(0) = SubSeq(t, 1, 0)
      BY ONLY <2>4
    <3>3. Len(J(0)) <= 0
      BY ONLY <3>1
    <3> QED
      BY ONLY <2>5, <3>2, <3>3
  <2> QED
    BY <2>1, <2>6
<1>3. ASSUME NEW k \in Nat, k \in S PROVE k + 1 \in S
  <2>1. SUFFICES ASSUME k + 1 <= c PROVE Is(k + 1)
    OBVIOUS
  <2>2. Is(k)
    BY <1>3, <2>1
  <2>3. k + 1 \in 1..c /\ k \in 0..c /\ k + 1 \in 0..c /\ (k + 1) - 1 = k
    BY <2>1
  <2> DEFINE ch == CharAt(t, Starts(t)[k + 1])
             i == Upto(t, k)
             j == Upto(t, k + 1)
  <2>4. i \in Nat /\ j \in Nat /\ j <= Len(t)
    BY <1>1, <2>3, UptoIs
  <2>5. i < j /\ ch = SubSeq(t, i + 1, j) /\ ch \in Seq(Bytes) /\ Len(ch) = j - i
    BY <1>1, <2>3, UptoIs
  <2>6. J(k + 1) = J(k) \o PieceOf(t, keep, k + 1) /\ J(k) \in Seq(Bytes)
    BY <1>1, <2>3, KeptStep
  <2>7. All(k + 1) <=> All(k) /\ k + 1 \in keep
    OBVIOUS
  <2> HIDE DEF J, ch, i, j, All
  <2>8. CASE k + 1 \in keep
    <3>1. J(k + 1) = J(k) \o ch
      BY <2>6, <2>8 DEF PieceOf, ch
    <3>2. Len(J(k + 1)) = Len(J(k)) + (j - i)
      BY <2>5, <2>6, <3>1
    <3>3. Len(J(k + 1)) <= j
      BY <2>2, <2>4, <2>6, <3>2 DEF i
    <3>4. All(k + 1) => J(k + 1) = SubSeq(t, 1, j)
      <4>1. SUFFICES ASSUME All(k + 1) PROVE J(k + 1) = SubSeq(t, 1, j)
        OBVIOUS
      <4>2. J(k) = SubSeq(t, 1, i)
        BY <2>2, <2>7, <4>1 DEF i
      <4>3. SubSeq(t, 1, j) = SubSeq(t, 1, i) \o SubSeq(t, i + 1, j)
        BY <2>4, <2>5
      <4> QED
        BY <2>5, <3>1, <4>2, <4>3
    <3>5. ~All(k + 1) => Len(J(k + 1)) < j
      BY <2>2, <2>4, <2>6, <2>7, <2>8, <3>2 DEF i
    <3> QED
      BY <3>3, <3>4, <3>5 DEF j
  <2>9. CASE k + 1 \notin keep
    <3>1. J(k + 1) = J(k)
      <4>1. J(k + 1) = J(k) \o <<>>
        BY <2>6, <2>9 DEF PieceOf
      <4> QED
        BY <2>6, <4>1
    <3>2. Len(J(k)) < j
      BY <2>2, <2>4, <2>5, <2>6 DEF i
    <3> QED
      BY <2>4, <2>6, <2>7, <2>9, <3>1, <3>2 DEF j
  <2> QED
    BY <2>8, <2>9
<1>4. \A k \in Nat : k \in S
  <2> HIDE DEF S
  <2> QED
    BY <1>2, <1>3, Induction
<1>5. n \in S /\ n \in Nat /\ n <= c
  <2> HIDE DEF S
  <2> QED
    BY <1>1, <1>4
<1>6. Is(n)
  <2> HIDE DEF Is
  <2> QED
    BY <1>5
<1> QED
  BY <1>6

-----------------------------------------------------------------------------
(* The characters of a suffix.                                             *)

\* Every boundary ends some number of characters.
LEMMA BoundaryIsUpto ==
    ASSUME NEW t \in Seq(Bytes), IsUtf8(t), NEW i \in Nat, IsCharBoundary(t, i)
    PROVE  \E b \in 0..Len(Starts(t)) : i = Upto(t, b)
<1>1. PICK c \in Nat : c = Len(Starts(t)) /\ Upto(t, c) = Len(t)
  BY UptoIs
<1>2. CASE i = Len(t)
  <2>1. c \in 0..Len(Starts(t)) /\ i = Upto(t, c)
    BY <1>1, <1>2
  <2> QED
    BY <2>1
<1>3. CASE i # Len(t)
  <2>1. i < Len(t) /\ t[i + 1] \notin Trailing
    BY <1>3 DEF IsCharBoundary
  <2>2. PICK k \in 1..Len(Starts(t)) : Starts(t)[k] = i
    BY <2>1, StartsIs DEF Lists
  <2>3. Upto(t, k - 1) = i /\ k - 1 \in 0..Len(Starts(t))
    BY <1>1, <2>2, UptoIs
  <2> QED
    BY <2>3
<1> QED
  BY <1>2, <1>3

\* The character after the first k ones.
LEMMA UptoStep ==
    ASSUME NEW t \in Seq(Bytes), IsUtf8(t), NEW k \in Nat, k + 1 <= Len(Starts(t))
    PROVE  LET i == Upto(t, k)
               j == Upto(t, k + 1)
           IN  /\ i \in Nat /\ j \in Nat /\ i < j /\ j <= Len(t) /\ Starts(t)[k + 1] = i
               /\ IsCharBoundary(t, i) /\ IsCharBoundary(t, j)
               /\ CharAt(t, i) = SubSeq(t, i + 1, j) /\ Len(CharAt(t, i)) = j - i
               /\ CharsOf(t)[k + 1] = CharAt(t, i)
               /\ CharAt(t, i) \in Seq(Bytes) /\ IsUtf8(CharAt(t, i))
<1>1. PICK c \in Nat : c = Len(Starts(t))
  BY UptoIs
<1>2. k + 1 \in 1..Len(Starts(t)) /\ (k + 1) - 1 = k /\ k \in 0..Len(Starts(t)) /\ k + 1 \in 0..Len(Starts(t))
  BY <1>1
<1>3. /\ Upto(t, (k + 1) - 1) = Starts(t)[k + 1] /\ Upto(t, (k + 1) - 1) < Upto(t, k + 1)
      /\ CharAt(t, Starts(t)[k + 1]) = SubSeq(t, Upto(t, (k + 1) - 1) + 1, Upto(t, k + 1))
      /\ CharAt(t, Starts(t)[k + 1]) \in Seq(Bytes) /\ IsUtf8(CharAt(t, Starts(t)[k + 1]))
      /\ Len(CharAt(t, Starts(t)[k + 1])) = Upto(t, k + 1) - Upto(t, (k + 1) - 1)
  BY <1>2, UptoIs
<1>4. /\ Upto(t, k) \in Nat /\ Upto(t, k + 1) \in Nat /\ Upto(t, k + 1) <= Len(t)
      /\ IsCharBoundary(t, Upto(t, k)) /\ IsCharBoundary(t, Upto(t, k + 1))
  BY <1>2, UptoIs
<1>5. CharsOf(t)[k + 1] = CharAt(t, Starts(t)[k + 1])
  BY <1>2, CharsJoin
<1> QED
  BY <1>2, <1>3, <1>4, <1>5

\* Only all characters end the text.
LEMMA UptoLast ==
    ASSUME NEW t \in Seq(Bytes), IsUtf8(t), NEW k \in 0..Len(Starts(t)), Upto(t, k) = Len(t)
    PROVE  k = Len(Starts(t))
<1>1. PICK c \in Nat : c = Len(Starts(t))
  BY UptoIs
<1>2. SUFFICES ASSUME k # c PROVE FALSE
  BY <1>1
<1>3. k + 1 \in 1..Len(Starts(t)) /\ (k + 1) - 1 = k /\ k + 1 \in 0..Len(Starts(t))
  BY <1>1, <1>2
<1>4. Upto(t, (k + 1) - 1) < Upto(t, k + 1) /\ Upto(t, k + 1) <= Len(t)
  BY <1>3, UptoIs
<1>5. Upto(t, k) < Upto(t, k + 1) /\ Upto(t, k) \in Nat /\ Upto(t, k + 1) \in Nat
  BY <1>3, <1>4, UptoIs
<1> QED
  BY <1>4, <1>5

\* What is left of t beyond offset i.
IsTail(w, t, i) == w = SubSeq(t, i + 1, Len(t))

\* A character of a suffix is one of the text.
LEMMA CharOfSuffix ==
    ASSUME NEW t \in Seq(Bytes), IsUtf8(t), NEW i \in Nat, IsCharBoundary(t, i),
           NEW w \in Seq(Bytes), IsTail(w, t, i), IsUtf8(w),
           NEW x \in Nat, x < Len(w), IsCharBoundary(w, x),
           NEW v \in Nat, v = i + x, IsCharBoundary(t, v)
    PROVE  CharAt(w, x) = CharAt(t, v)
<1>1. PICK l \in Nat, n \in Nat : l = Len(t) /\ n = Len(w)
  <2>1. Len(t) \in Nat /\ Len(w) \in Nat
    OBVIOUS
  <2> QED
    BY ONLY <2>1
<1>2. i <= l /\ n = l - i /\ \A k \in 1..n : w[k] = t[i + k]
  BY <1>1 DEF IsCharBoundary, IsTail
<1>3. i + x \in Nat /\ i + x < l
  BY <1>1, <1>2
<1> DEFINE a == CharAt(w, x)
           b == CharAt(t, i + x)
<1>4. /\ a \in Seq(Bytes) /\ Len(a) \in {1, 2} /\ x + Len(a) <= n
      /\ a = SubSeq(w, x + 1, x + Len(a)) /\ (Len(a) = 1 <=> w[x + 1] \in Ascii)
  BY <1>1, CharAtIs
<1>5. /\ b \in Seq(Bytes) /\ Len(b) \in {1, 2} /\ i + x + Len(b) <= l
      /\ b = SubSeq(t, i + x + 1, i + x + Len(b)) /\ (Len(b) = 1 <=> t[i + x + 1] \in Ascii)
  BY <1>1, <1>3, CharAtIs
<1>6. w[x + 1] = t[i + x + 1]
  <2>1. x + 1 \in 1..n /\ i + (x + 1) = i + x + 1
    BY <1>1
  <2>2. w[x + 1] = t[i + (x + 1)]
    BY <1>2, <2>1
  <2> QED
    BY <2>1, <2>2
<1>7. Len(a) = Len(b)
  BY <1>4, <1>5, <1>6
<1>8. PICK z \in Nat : z = Len(a)
  BY <1>4
<1> HIDE DEF a, b
<1>9. ASSUME NEW y \in 1..Len(a) PROVE a[y] = b[y]
  <2>1. x + y \in 1..n /\ i + (x + y) = i + x + y
    BY <1>4, <1>8
  <2>2. SubSeq(w, x + 1, x + z)[y] = w[x + y]
    <3>1. w \in Seq(Bytes) /\ x \in Nat /\ x + z <= Len(w) /\ y \in 1..z /\ z \in Nat
      BY <1>1, <1>4, <1>8
    <3> QED
      BY ONLY <3>1
  <2>3. SubSeq(t, i + x + 1, i + x + z)[y] = t[i + x + y]
    <3>1. PICK s \in Nat : s = i + x
      BY <1>3
    <3>2. t \in Seq(Bytes) /\ s \in Nat /\ s + z <= Len(t) /\ y \in 1..z /\ z \in Nat
      BY <1>1, <1>5, <1>7, <1>8, <3>1
    <3>3. SubSeq(t, s + 1, s + z)[y] = t[s + y]
      BY ONLY <3>2
    <3> QED
      BY <3>1, <3>3
  <2>4. w[x + y] = t[i + (x + y)]
    BY <1>2, <2>1
  <2> QED
    BY <1>4, <1>5, <1>7, <1>8, <2>1, <2>2, <2>3, <2>4
<1>10. a = b
  BY <1>4, <1>5, <1>7, <1>9, SameSeq
<1> QED
  BY <1>10 DEF a, b

\* The characters of a suffix are the last ones of the text.
LEMMA SuffixChars ==
    ASSUME NEW t \in Seq(Bytes), IsUtf8(t), NEW b \in 0..Len(Starts(t)),
           NEW w, w = SubSeq(t, Upto(t, b) + 1, Len(t))
    PROVE  /\ w \in Seq(Bytes) /\ IsUtf8(w) /\ b + Len(CharsOf(w)) = Len(Starts(t))
           /\ \A j \in 1..Len(CharsOf(w)) : CharsOf(w)[j] = CharsOf(t)[b + j]
<1>1. PICK c \in Nat : c = Len(Starts(t)) /\ b \in 0..c
  BY UptoIs
<1>2. PICK i \in Nat : i = Upto(t, b) /\ i <= Len(t) /\ IsCharBoundary(t, i)
  BY UptoIs
<1>3. PICK l \in Nat : l = Len(t)
  OBVIOUS
<1>4. w \in Seq(Bytes) /\ IsUtf8(w) /\ Len(w) = l - i
  <2>1. IsCharBoundary(t, l) /\ i <= l
    BY <1>2, <1>3, EndsAreBoundaries
  <2> QED
    BY <1>2, <1>3, <2>1, PartUtf8
<1>5. PICK n \in Nat : n = Len(Starts(w)) /\ Upto(w, n) = l - i /\ Upto(w, 0) = 0
  BY <1>4, UptoIs
<1> DEFINE Here(j) == b + j <= c /\ Upto(t, b + j) = i + Upto(w, j)
           Good(j) == CharAt(w, Starts(w)[j]) = CharAt(t, Starts(t)[b + j])
           S == {j \in Nat : j <= n => Here(j) /\ (j > 0 => Good(j))}
<1>6. 0 \in S
  <2>1. b + 0 = b /\ i + 0 = i
    OBVIOUS
  <2> QED
    BY <1>1, <1>2, <1>5, <2>1
<1>7. ASSUME NEW j \in Nat, j \in S PROVE j + 1 \in S
  <2>1. SUFFICES ASSUME j + 1 <= n PROVE Here(j + 1) /\ Good(j + 1)
    OBVIOUS
  <2>2. Here(j)
    BY <1>7, <2>1
  <2>3. j + 1 \in 1..n /\ (j + 1) - 1 = j /\ j \in 0..n /\ j + 1 \in 0..n
    BY <2>1
  <2>4. PICK x \in Nat, y \in Nat :
               /\ x = Upto(w, j) /\ y = Upto(w, j + 1) /\ x = Starts(w)[j + 1]
               /\ IsCharBoundary(w, x) /\ Len(CharAt(w, x)) = y - x /\ x < y /\ y <= Len(w)
    <3>1. j + 1 <= Len(Starts(w))
      BY <1>5, <2>1
    <3> QED
      BY <1>4, <3>1, UptoStep
  <2>5. PICK d \in 0..c : d = b + j /\ Upto(t, d) = i + x
    BY <2>2, <2>4
  <2>6. d + 1 <= c /\ d + 1 = b + (j + 1) /\ d \in Nat
    <3>1. i + x < l /\ d \in Nat
      <4>1. Len(w) = l - i /\ x < y /\ y <= Len(w)
        BY <1>4, <2>4
      <4> QED
        BY ONLY <4>1, i \in Nat, x \in Nat, y \in Nat, l \in Nat, c \in Nat, d \in 0..c
    <3>2. Upto(t, c) = l
      BY <1>1, <1>3, UptoIs
    <3>3. d # c
      BY ONLY <2>5, <3>1, <3>2, i \in Nat, x \in Nat, l \in Nat
    <3> QED
      BY <2>5, <3>3
  <2>7. PICK u \in Nat, v \in Nat :
               /\ u = Upto(t, d) /\ v = Upto(t, d + 1) /\ u = Starts(t)[d + 1]
               /\ IsCharBoundary(t, u) /\ Len(CharAt(t, u)) = v - u
    <3>1. d + 1 <= Len(Starts(t))
      BY <1>1, <2>6
    <3> QED
      BY <2>6, <3>1, UptoStep
  <2>8. u = i + x
    BY <2>5, <2>7
  <2>9. CharAt(w, x) = CharAt(t, i + x)
    <3>1. x < Len(w)
      <4>1. Len(w) \in Nat
        BY <1>4
      <4> QED
        BY ONLY <2>4, <4>1, x \in Nat, y \in Nat
    <3>2. IsTail(w, t, i)
      BY <1>2 DEF IsTail
    <3>3. /\ t \in Seq(Bytes) /\ IsUtf8(t) /\ i \in Nat /\ IsCharBoundary(t, i)
          /\ w \in Seq(Bytes) /\ IsTail(w, t, i) /\ IsUtf8(w)
          /\ x \in Nat /\ x < Len(w) /\ IsCharBoundary(w, x)
          /\ u \in Nat /\ u = i + x /\ IsCharBoundary(t, u)
      BY <1>2, <1>4, <2>4, <2>7, <2>8, <3>1, <3>2
    <3>4. CharAt(w, x) = CharAt(t, u)
      BY ONLY <3>3, CharOfSuffix
    <3> QED
      BY <2>8, <3>4
  <2>10. Good(j + 1)
    BY <2>4, <2>6, <2>7, <2>8, <2>9
  <2>11. Upto(t, d + 1) = i + Upto(w, j + 1)
    <3>1. y - x = v - u
      BY <2>4, <2>7, <2>8, <2>9
    <3>2. v = i + y
      BY ONLY <2>8, <3>1, i \in Nat, x \in Nat, y \in Nat, u \in Nat, v \in Nat
    <3> QED
      BY <2>4, <2>7, <3>2
  <2>12. Here(j + 1)
    BY <2>6, <2>11
  <2> QED
    BY <2>10, <2>12
<1>8. \A j \in Nat : j \in S
  <2> HIDE DEF S
  <2> QED
    BY <1>6, <1>7, Induction
<1>9. ASSUME NEW j \in Nat, j <= n PROVE Here(j) /\ (j > 0 => Good(j))
  <2>1. j \in S
    <3> HIDE DEF S
    <3> QED
      BY <1>8
  <2> HIDE DEF Here, Good
  <2> QED
    BY <1>9, <2>1
<1>10. b + n = c
  <2>1. Here(n)
    BY <1>9
  <2>2. b + n \in 0..Len(Starts(t)) /\ Upto(t, b + n) = Len(t)
    BY <1>1, <1>3, <1>5, <2>1
  <2> QED
    BY <1>1, <2>2, UptoLast
<1>11. Len(CharsOf(w)) = n /\ \A j \in 1..n : CharsOf(w)[j] = CharAt(w, Starts(w)[j])
  <2>1. /\ Len(CharsOf(w)) = Len(Starts(w))
        /\ \A j \in 1..Len(Starts(w)) : CharsOf(w)[j] = CharAt(w, Starts(w)[j])
    BY <1>4, CharsJoin
  <2> QED
    BY <1>5, <2>1
<1>12. \A k \in 1..c : CharsOf(t)[k] = CharAt(t, Starts(t)[k])
  BY <1>1, CharsJoin
<1>13. ASSUME NEW j \in 1..n PROVE CharsOf(w)[j] = CharsOf(t)[b + j]
  <2>1. Good(j) /\ b + j \in 1..c
    BY <1>9, <1>10
  <2> QED
    BY <1>11, <1>12, <2>1
<1> QED
  BY <1>1, <1>4, <1>10, <1>11, <1>13

-----------------------------------------------------------------------------
(* Lower and upper case.                                                   *)

\* The sigmas are characters.
LEMMA SigmasAre ==
    \A s \in {Sigma, SmallSigma, FinalSigma} : s \in Seq(Bytes) /\ Len(s) = 2 /\ IsUtf8(s)
<1>1. ASSUME NEW x \in {"S2", "s2", "f2"}
      PROVE  <<"e1", x>> \in Seq(Bytes) /\ Len(<<"e1", x>>) = 2 /\ IsUtf8(<<"e1", x>>)
  <2> DEFINE s == <<"e1", x>>
  <2>1. s \in Seq(Bytes) /\ Len(s) = 2 /\ s[1] = "e1" /\ s[2] = x
    BY DEF Bytes, Trailing
  <2>2. \A i \in 1..2 : i = 1 \/ i = 2
    OBVIOUS
  <2> HIDE DEF s
  <2>3. IsUtf8(s)
    BY <2>1, <2>2 DEF IsUtf8, Trailing, Ascii
  <2> QED
    BY <2>1, <2>3 DEF s
<1> QED
  BY <1>1 DEF Sigma, SmallSigma, FinalSigma

\* A character in another case: it is valid, ASCII stays ASCII, and it is no shorter.
LEMMA CharCaseIs ==
    ASSUME NEW ch \in Seq(Bytes), IsUtf8(ch), Len(ch) \in {1, 2}, NEW case
    PROVE  /\ CharCase(ch, case) \in Seq(Bytes) /\ IsUtf8(CharCase(ch, case))
           /\ Len(ch) = 1 => CharCase(ch, case) = AsciiCase(ch, case)
           /\ Len(CharCase(ch, case)) >= Len(ch)
           /\ case = "Lower" /\ ch = Sigma => CharCase(ch, case) = SmallSigma
<1>1. CASE Len(ch) = 1
  <2>1. ch # <<"e1", "e2">>
    <3>1. Len(<<"e1", "e2">>) = 2
      OBVIOUS
    <3> QED
      BY <1>1, <3>1
  <2>2. ch # Sigma /\ ch \notin {SmallSigma, FinalSigma}
    <3>1. Len(Sigma) = 2 /\ Len(SmallSigma) = 2 /\ Len(FinalSigma) = 2
      BY SigmasAre
    <3>2. 1 # 2
      OBVIOUS
    <3> QED
      BY ONLY <1>1, <3>1, <3>2
  <2>3. CharCase(ch, case) = AsciiCase(ch, case)
    BY <1>1, <2>1, <2>2 DEF CharCase
  <2>4. AsciiCase(ch, case) \in Seq(Bytes) /\ IsUtf8(AsciiCase(ch, case)) /\ Len(AsciiCase(ch, case)) = 1
    BY <1>1, AsciiCaseUtf8
  <2> QED
    BY <1>1, <2>2, <2>3, <2>4
<1>2. CASE Len(ch) = 2
  <2>1. \/ CharCase(ch, case) = ch \o <<"A">>
        \/ CharCase(ch, case) \in {Sigma, SmallSigma}
        \/ CharCase(ch, case) = ch
    BY <1>2 DEF CharCase
  <2>2. case = "Lower" /\ ch = Sigma => CharCase(ch, case) = SmallSigma
    BY <1>2 DEF CharCase
  <2>3. CASE CharCase(ch, case) = ch \o <<"A">>
    <3>1. PICK s : s = <<"A">>
      OBVIOUS
    <3>2. s \in Seq(Bytes) /\ Len(s) = 1 /\ s[1] = "A" /\ "A" \in Ascii
      BY <3>1 DEF Bytes, Ascii
    <3>3. IsUtf8(s)
      <4>1. \A i \in 1..Len(s) : i = 1
        BY <3>2
      <4> QED
        BY <3>2, <4>1 DEF IsUtf8, Ascii, Trailing
    <3>4. ch \o s \in Seq(Bytes) /\ IsUtf8(ch \o s)
      BY <3>2, <3>3, JoinUtf8
    <3>5. Len(ch \o s) = Len(ch) + Len(s)
      BY ONLY ch \in Seq(Bytes), <3>2, JoinIs
    <3> QED
      BY <1>2, <2>2, <2>3, <3>1, <3>2, <3>4, <3>5
  <2>4. CASE CharCase(ch, case) \in {Sigma, SmallSigma}
    BY <1>2, <2>2, <2>4, SigmasAre
  <2>5. CASE CharCase(ch, case) = ch
    BY <1>2, <2>2, <2>5
  <2> QED
    BY <2>1, <2>3, <2>4, <2>5
<1> QED
  BY <1>1, <1>2

\* What the k-th character of t becomes when the whole text is mapped, and how much
\* of t the first characters become.
IsFinalSigma(t, k) == k = Len(CharsOf(t)) /\ k > 1 /\ CharsOf(t)[k] = Sigma
MappedChar(t, case, k) ==
    IF case = "Lower" /\ IsFinalSigma(t, k) THEN FinalSigma ELSE CharCase(CharsOf(t)[k], case)
MappedChars(t, case) == [k \in DOMAIN CharsOf(t) |-> MappedChar(t, case, k)]

\* The mapped characters are valid, and the mapped text is made of them.
LEMMA MappedCharsAre ==
    ASSUME NEW t \in Seq(Bytes), IsUtf8(t), NEW case
    PROVE  LET c == Len(Starts(t))
               M == MappedChars(t, case)
           IN  /\ M \in Seq(Seq(Bytes)) /\ Len(M) = c
               /\ \A k \in 1..c : M[k] = MappedChar(t, case, k) /\ IsUtf8(M[k])
               /\ \A k \in 1..c : Len(M[k]) >= Len(CharsOf(t)[k])
               /\ StrCase(t, case) = FlattenSeq(M)
               /\ StrCase(t, case) \in Seq(Bytes) /\ IsUtf8(StrCase(t, case))
<1> DEFINE C == CharsOf(t)
           M == MappedChars(t, case)
<1>1. PICK c \in Nat : c = Len(Starts(t)) /\ C \in Seq(Seq(Bytes)) /\ Len(C) = c /\ DOMAIN C = 1..c
  <2>1. C \in Seq(Seq(Bytes)) /\ Len(C) = Len(Starts(t)) /\ Len(Starts(t)) \in Nat
    BY CharsJoin, UptoIs
  <2> QED
    BY <2>1
<1>2. ASSUME NEW k \in 1..c
      PROVE  /\ MappedChar(t, case, k) \in Seq(Bytes) /\ IsUtf8(MappedChar(t, case, k))
             /\ Len(MappedChar(t, case, k)) >= Len(C[k])
  <2>1. C[k] \in Seq(Bytes) /\ IsUtf8(C[k]) /\ Len(C[k]) \in {1, 2}
    <3>1. k \in 1..Len(Starts(t))
      BY <1>1
    <3>2. C[k] = CharAt(t, Starts(t)[k])
      BY <3>1, CharsJoin
    <3> QED
      BY <3>1, <3>2, CharIs
  <2>2. CASE case = "Lower" /\ IsFinalSigma(t, k)
    <3>1. MappedChar(t, case, k) = FinalSigma
      BY <2>2 DEF MappedChar
    <3> QED
      BY <2>1, <3>1, SigmasAre
  <2>3. CASE ~(case = "Lower" /\ IsFinalSigma(t, k))
    <3>1. MappedChar(t, case, k) = CharCase(C[k], case)
      BY <2>3 DEF MappedChar
    <3> QED
      BY <2>1, <3>1, CharCaseIs
  <2> QED
    BY <2>2, <2>3
<1>3. M = [k \in 1..c |-> MappedChar(t, case, k)]
  BY <1>1 DEF MappedChars
<1>4. M \in Seq(Seq(Bytes)) /\ Len(M) = c /\ \A k \in 1..c : M[k] = MappedChar(t, case, k)
  <2>1. M \in [1..c -> Seq(Bytes)]
    BY <1>2, <1>3
  <2> QED
    BY <1>3, <2>1, FunctionIsSeq
<1>5. StrCase(t, case) = FlattenSeq(M)
  BY DEF StrCase, MappedChars, MappedChar, IsFinalSigma
<1> HIDE DEF M, C
<1>6. StrCase(t, case) \in Seq(Bytes) /\ IsUtf8(StrCase(t, case))
  <2>1. \A k \in 1..Len(M) : IsUtf8(M[k])
    BY <1>2, <1>4
  <2> QED
    BY <1>4, <1>5, <2>1, FlattenUtf8
<1>7. \A k \in 1..c : IsUtf8(M[k]) /\ Len(M[k]) >= Len(C[k])
  BY <1>2, <1>4
<1> QED
  BY <1>1, <1>4, <1>5, <1>6, <1>7 DEF M, C

\* A character does not change.
Steady(t, case, k) == CharCase(CharsOf(t)[k], case) = CharsOf(t)[k]

\* The search by bytes skips only characters that do not change.
LEMMA SkippedSteady ==
    ASSUME NEW t \in Seq(Bytes), IsUtf8(t), NEW case, NEW k \in 1..Len(Starts(t)),
           Starts(t)[k] < PrefixLenWhile(t, Ascii \cap SteadyBytes(case))
    PROVE  Steady(t, case, k)
<1> DEFINE P == Ascii \cap SteadyBytes(case)
           ch == CharsOf(t)[k]
<1>1. PICK i \in Nat : i = Starts(t)[k] /\ i < Len(t) /\ IsCharBoundary(t, i)
  <2>1. Starts(t)[k] \in Nat /\ Starts(t)[k] < EndOfChar(t, k) /\ EndOfChar(t, k) <= Len(t)
        /\ EndOfChar(t, k) \in Nat /\ IsCharBoundary(t, Starts(t)[k])
    BY CharIs
  <2>2. Len(t) \in Nat
    OBVIOUS
  <2> QED
    BY ONLY <2>1, <2>2
<1>2. ch = CharAt(t, i)
  BY <1>1, CharsJoin
<1>3. t[i + 1] \in P
  <2> DEFINE n == PrefixLenWhile(t, P)
  <2>1. n \in 0..Len(t) /\ \A j \in 1..n : t[j] \in P
    BY PrefixLenWhileIs
  <2>2. i < n
    BY <1>1
  <2> HIDE DEF n, P
  <2>3. i + 1 \in 1..n
    BY <1>1, <2>1, <2>2
  <2> QED
    BY <2>1, <2>3
<1>4. t[i + 1] \in Ascii /\ AsciiByte(t[i + 1], case) = t[i + 1]
  BY <1>3 DEF SteadyBytes, ByteChanges
<1>5. ch \in Seq(Bytes) /\ Len(ch) = 1 /\ ch[1] = t[i + 1] /\ IsUtf8(ch)
  BY <1>1, <1>2, <1>4, CharAtIs
<1> HIDE DEF ch
<1>6. CharCase(ch, case) = AsciiCase(ch, case)
  BY <1>5, CharCaseIs
<1>7. AsciiCase(ch, case) = ch
  <2>1. AsciiCase(ch, case) \in Seq(Bytes) /\ Len(AsciiCase(ch, case)) = Len(ch)
        /\ \A j \in 1..Len(ch) : AsciiCase(ch, case)[j] = AsciiByte(ch[j], case)
    BY <1>5, AsciiCaseUtf8
  <2>2. \A j \in 1..Len(ch) : j = 1
    BY <1>5
  <2>3. \A j \in 1..Len(ch) : AsciiCase(ch, case)[j] = ch[j]
    BY <1>4, <1>5, <2>1, <2>2
  <2> QED
    BY <1>5, <2>1, <2>3, SameSeq
<1> QED
  BY <1>6, <1>7 DEF Steady, ch

\* The search finds the first character that changes.
LEMMA FirstChangeIs ==
    ASSUME NEW t \in Seq(Bytes), IsUtf8(t), NEW case
    PROVE  /\ SplitAtFirstChange(t, case) = NoChange => \A k \in 1..Len(Starts(t)) : Steady(t, case, k)
           /\ SplitAtFirstChange(t, case) # NoChange =>
                 \E a \in Nat : /\ a + 1 <= Len(Starts(t)) /\ SplitAtFirstChange(t, case) = Upto(t, a)
                                /\ \A k \in 1..a : Steady(t, case, k)
                                /\ ~Steady(t, case, a + 1)
<1> DEFINE skipped == PrefixLenWhile(t, Ascii \cap SteadyBytes(case))
           found == {i \in ToSet(Starts(t)) : i >= skipped /\ CharChanges(CharAt(t, i), case)}
           mid == SplitAtFirstChange(t, case)
<1>1. PICK c \in Nat : c = Len(Starts(t)) /\ Starts(t) \in Seq(Nat) /\ DOMAIN Starts(t) = 1..c
  BY StartsTile
<1>2. \A k \in 1..c : CharsOf(t)[k] = CharAt(t, Starts(t)[k]) /\ Starts(t)[k] \in Nat
  <2>1. \A k \in 1..Len(Starts(t)) : CharsOf(t)[k] = CharAt(t, Starts(t)[k])
    BY CharsJoin
  <2>2. \A k \in 1..c : Starts(t)[k] \in Nat
    BY <1>1
  <2> QED
    BY <1>1, <2>1, <2>2
<1>3. skipped \in Nat
  BY PrefixLenWhileIs
<1>4. mid = IF found = {} THEN NoChange ELSE Min(found)
  BY DEF SplitAtFirstChange
<1>5. \A i : i \in found <=> \E k \in 1..c : /\ i = Starts(t)[k] /\ i >= skipped
                                            /\ ~Steady(t, case, k)
  <2>1. \A i : i \in ToSet(Starts(t)) <=> \E k \in 1..c : i = Starts(t)[k]
    BY <1>1 DEF ToSet
  <2>2. \A k \in 1..c : Steady(t, case, k) <=> ~CharChanges(CharAt(t, Starts(t)[k]), case)
    BY <1>2 DEF CharChanges, Steady
  <2>3. \A i : i \in found <=> /\ i \in ToSet(Starts(t)) /\ i >= skipped
                              /\ CharChanges(CharAt(t, i), case)
    OBVIOUS
  <2> HIDE DEF found, skipped
  <2> QED
    BY <2>1, <2>2, <2>3
<1>6. ASSUME NEW k \in 1..c, ~Steady(t, case, k) PROVE Starts(t)[k] \in found
  <2>1. k \in 1..Len(Starts(t)) /\ ~(Starts(t)[k] < skipped)
    BY <1>1, <1>6, SkippedSteady
  <2>2. Starts(t)[k] >= skipped
    <3> HIDE DEF skipped
    <3> QED
      BY <1>2, <1>3, <2>1
  <2> HIDE DEF found, skipped
  <2> QED
    BY <1>5, <1>6, <2>2
<1> HIDE DEF found, skipped
<1>7. CASE found = {}
  <2>1. \A k \in 1..c : Steady(t, case, k)
    BY <1>6, <1>7
  <2> QED
    BY <1>1, <1>4, <1>7, <2>1
<1>8. CASE found # {}
  <2>1. Min(found) \in found /\ \A y \in found : Min(found) <= y
    <3>1. found \subseteq Nat
      BY <1>2, <1>5
    <3> QED
      BY <1>8, <3>1, MinIs
  <2>2. PICK k \in 1..c : Min(found) = Starts(t)[k] /\ ~Steady(t, case, k)
    BY <1>5, <2>1
  <2>3. PICK a \in Nat : a + 1 = k /\ a = k - 1
    BY <2>2
  <2>4. Starts(t)[k] = Upto(t, a)
    BY <1>1, <2>3, UptoIs
  <2>5. ASSUME NEW j \in 1..a PROVE Steady(t, case, j)
    <3>1. j \in 1..c /\ j < k
      BY <2>3
    <3>2. Starts(t)[j] < Starts(t)[k]
      BY <1>1, <3>1, StartsIs DEF Lists
    <3>3. ~(Starts(t)[k] <= Starts(t)[j])
      BY <1>2, <3>1, <3>2
    <3> QED
      BY <1>6, <2>1, <2>2, <3>1, <3>3
  <2>6. mid = Upto(t, a) /\ mid \in Nat
    BY <1>2, <1>4, <1>8, <2>2, <2>4
  <2>7. mid # NoChange
    BY <2>6 DEF NoChange
  <2>8. a + 1 <= Len(Starts(t)) /\ ~Steady(t, case, a + 1)
    BY <1>1, <2>2, <2>3
  <2> HIDE DEF mid
  <2>9. \E x \in Nat : /\ x + 1 <= Len(Starts(t)) /\ mid = Upto(t, x)
                       /\ \A j \in 1..x : Steady(t, case, j)
                       /\ ~Steady(t, case, x + 1)
    BY <2>5, <2>6, <2>8
  <2> QED
    BY <2>7, <2>9 DEF mid
<1> QED
  BY <1>7, <1>8

\* Two neighbouring parts of a sequence.
LEMMA PartsJoin ==
    ASSUME NEW S, NEW t \in Seq(S), NEW x \in Nat, NEW i \in Nat, NEW j \in Nat,
           x <= i, i <= j, j <= Len(t)
    PROVE  /\ SubSeq(t, x + 1, i) \in Seq(S) /\ SubSeq(t, i + 1, j) \in Seq(S)
           /\ SubSeq(t, x + 1, j) = SubSeq(t, x + 1, i) \o SubSeq(t, i + 1, j)
<1> DEFINE a == SubSeq(t, x + 1, i)
           b == SubSeq(t, i + 1, j)
           w == SubSeq(t, x + 1, j)
<1>1. PICK l \in Nat : l = Len(t)
  OBVIOUS
<1>2. a \in Seq(S) /\ Len(a) = i - x /\ \A k \in 1..i - x : a[k] = t[x + k]
  BY <1>1
<1>3. b \in Seq(S) /\ Len(b) = j - i /\ \A k \in 1..j - i : b[k] = t[i + k]
  BY <1>1
<1>4. w \in Seq(S) /\ Len(w) = j - x /\ \A k \in 1..j - x : w[k] = t[x + k]
  BY <1>1
<1> HIDE DEF a, b, w
<1>5. /\ a \o b \in Seq(S) /\ Len(a \o b) = Len(a) + Len(b)
      /\ \A k \in 1..Len(a) : (a \o b)[k] = a[k]
      /\ \A k \in 1..Len(b) : (a \o b)[Len(a) + k] = b[k]
  <2>1. a \in Seq(S) /\ b \in Seq(S)
    BY <1>2, <1>3
  <2> QED
    BY ONLY <2>1, JoinIs
<1>6. ASSUME NEW k \in 1..j - x PROVE w[k] = (a \o b)[k]
  <2>1. CASE k <= i - x
    <3>1. k \in 1..i - x
      BY <2>1
    <3>2. (a \o b)[k] = a[k] /\ a[k] = t[x + k]
      BY <1>2, <1>5, <3>1
    <3> QED
      BY <1>4, <3>2
  <2>2. CASE k > i - x
    <3>1. PICK y \in 1..j - i : k = (i - x) + y /\ i + y = x + k
      <4>1. k - (i - x) \in 1..j - i /\ k = (i - x) + (k - (i - x)) /\ i + (k - (i - x)) = x + k
        BY <2>2
      <4> QED
        BY <4>1
    <3>2. (a \o b)[(i - x) + y] = t[i + y]
      BY <1>2, <1>3, <1>5
    <3> QED
      BY <1>4, <3>1, <3>2
  <2>3. k <= i - x \/ k > i - x
    OBVIOUS
  <2> QED
    BY <2>1, <2>2, <2>3
<1>7. Len(a \o b) = j - x
  BY <1>2, <1>3, <1>5
<1>8. w = a \o b
  BY <1>4, <1>5, <1>6, <1>7, SameSeq
<1> QED
  BY <1>2, <1>3, <1>8 DEF a, b, w

\* A steady character is mapped to itself in the whole text, too.
LEMMA SteadyMapped ==
    ASSUME NEW t \in Seq(Bytes), IsUtf8(t), NEW case, NEW k \in 1..Len(Starts(t)), Steady(t, case, k)
    PROVE  MappedChar(t, case, k) = CharsOf(t)[k]
<1>1. /\ CharsOf(t)[k] \in Seq(Bytes) /\ IsUtf8(CharsOf(t)[k]) /\ Len(CharsOf(t)[k]) \in {1, 2}
  <2>1. CharsOf(t)[k] = CharAt(t, Starts(t)[k])
    BY CharsJoin
  <2> QED
    BY <2>1, CharIs
<1>2. CASE case = "Lower" /\ IsFinalSigma(t, k)
  <2>1. CharsOf(t)[k] = Sigma
    BY <1>2 DEF IsFinalSigma
  <2>2. CharCase(CharsOf(t)[k], case) = SmallSigma
    BY <1>1, <1>2, <2>1, CharCaseIs
  <2>3. Sigma # SmallSigma
    BY DEF Sigma, SmallSigma
  <2> QED
    BY <2>1, <2>2, <2>3 DEF Steady
<1>3. CASE ~(case = "Lower" /\ IsFinalSigma(t, k))
  BY <1>3 DEF Steady, MappedChar
<1> QED
  BY <1>2, <1>3

\* The first a characters are steady.
LEMMA SteadyPrefix ==
    ASSUME NEW t \in Seq(Bytes), IsUtf8(t), NEW case, NEW a \in 0..Len(Starts(t)),
           \A k \in 1..a : Steady(t, case, k),
           NEW G, Joins(G, MappedChars(t, case))
    PROVE  G[a] = SubSeq(t, 1, Upto(t, a))
<1>1. PICK c \in Nat : c = Len(Starts(t)) /\ a \in 0..c
  BY UptoIs
<1>2. \A k \in 1..c : G[k] = G[k - 1] \o MappedChar(t, case, k)
  <2>1. /\ Len(MappedChars(t, case)) = c
        /\ \A k \in 1..c : MappedChars(t, case)[k] = MappedChar(t, case, k)
    BY <1>1, MappedCharsAre
  <2> QED
    BY <2>1 DEF Joins
<1> DEFINE S == {k \in Nat : k <= a => G[k] = SubSeq(t, 1, Upto(t, k))}
<1>3. 0 \in S
  <2>1. SubSeq(t, 1, 0) = <<>> /\ Upto(t, 0) = 0 /\ G[0] = <<>>
    BY UptoIs DEF Joins
  <2> QED
    BY <2>1
<1>4. ASSUME NEW k \in Nat, k \in S PROVE k + 1 \in S
  <2>1. SUFFICES ASSUME k + 1 <= a PROVE G[k + 1] = SubSeq(t, 1, Upto(t, k + 1))
    OBVIOUS
  <2>2. k + 1 \in 1..c /\ k + 1 \in 1..a /\ (k + 1) - 1 = k /\ k + 1 <= Len(Starts(t))
    BY <1>1, <2>1
  <2>3. G[k] = SubSeq(t, 1, Upto(t, k))
    BY <1>4, <2>1
  <2>4. PICK i \in Nat, j \in Nat : /\ i = Upto(t, k) /\ j = Upto(t, k + 1) /\ i < j /\ j <= Len(t)
                                    /\ CharsOf(t)[k + 1] = SubSeq(t, i + 1, j)
    <3>1. LET i == Upto(t, k)
              j == Upto(t, k + 1)
          IN  /\ i \in Nat /\ j \in Nat /\ i < j /\ j <= Len(t)
              /\ CharAt(t, i) = SubSeq(t, i + 1, j) /\ CharsOf(t)[k + 1] = CharAt(t, i)
              /\ CharAt(t, i) \in Seq(Bytes) /\ IsUtf8(CharAt(t, i))
      BY <2>2, UptoStep
    <3> QED
      BY <3>1
  <2>5. MappedChar(t, case, k + 1) = SubSeq(t, i + 1, j)
    BY <1>1, <2>2, <2>4, SteadyMapped
  <2>6. G[k + 1] = SubSeq(t, 1, i) \o SubSeq(t, i + 1, j)
    BY <1>2, <2>2, <2>3, <2>4, <2>5
  <2>7. SubSeq(t, 1, j) = SubSeq(t, 1, i) \o SubSeq(t, i + 1, j)
    <3>1. 0 <= i /\ i <= j /\ j <= Len(t) /\ 0 \in Nat /\ 0 + 1 = 1
      BY <2>4
    <3>2. SubSeq(t, 0 + 1, j) = SubSeq(t, 0 + 1, i) \o SubSeq(t, i + 1, j)
      BY ONLY <3>1, i \in Nat, j \in Nat, t \in Seq(Bytes), PartsJoin
    <3> QED
      BY <3>1, <3>2
  <2> QED
    BY <2>4, <2>6, <2>7
<1>5. \A k \in Nat : k \in S
  <2> HIDE DEF S
  <2> QED
    BY <1>3, <1>4, Induction
<1>6. a \in Nat /\ a \in S
  <2>1. a \in Nat
    BY <1>1
  <2> HIDE DEF S
  <2> QED
    BY <1>5, <2>1
<1> QED
  BY <1>6

\* A text without a change is mapped to itself.
LEMMA UnchangedCase ==
    ASSUME NEW t \in Seq(Bytes), IsUtf8(t), NEW case, SplitAtFirstChange(t, case) = NoChange
    PROVE  StrCase(t, case) = t
<1>1. PICK c \in Nat : c = Len(Starts(t)) /\ Upto(t, c) = Len(t)
  BY UptoIs
<1>2. \A k \in 1..c : Steady(t, case, k)
  BY <1>1, FirstChangeIs
<1>3. /\ MappedChars(t, case) \in Seq(Seq(Bytes)) /\ Len(MappedChars(t, case)) = c
      /\ StrCase(t, case) = FlattenSeq(MappedChars(t, case))
  BY <1>1, MappedCharsAre
<1>4. PICK G : Joins(G, MappedChars(t, case))
  BY <1>3, JoinsExist
<1>5. G[c] = SubSeq(t, 1, Upto(t, c))
  <2>1. c \in 0..Len(Starts(t))
    BY <1>1
  <2> QED
    BY <1>2, <1>4, <2>1, SteadyPrefix
<1>6. FlattenSeq(MappedChars(t, case)) = G[c]
  BY <1>3, <1>4, FlattenIs
<1>7. SubSeq(t, 1, Len(t)) = t
  OBVIOUS
<1> QED
  BY <1>1, <1>3, <1>5, <1>6, <1>7

\* ASCII characters are mapped byte by byte.
LEMMA AsciiPart ==
    ASSUME NEW t \in Seq(Bytes), IsUtf8(t), NEW case,
           NEW b \in 0..Len(Starts(t)), NEW a \in 0..b,
           \A k \in a + 1..b : Len(CharsOf(t)[k]) = 1,
           NEW G \in [0..Len(Starts(t)) -> Seq(Bytes)], Joins(G, MappedChars(t, case))
    PROVE  G[b] = G[a] \o AsciiCase(SubSeq(t, Upto(t, a) + 1, Upto(t, b)), case)
<1>1. PICK c \in Nat : c = Len(Starts(t)) /\ b \in 0..c /\ a \in 0..c
  BY UptoIs
<1>2. PICK x \in Nat : x = Upto(t, a) /\ x <= Len(t)
  BY <1>1, UptoIs
<1>3. \A k \in 1..c : G[k] = G[k - 1] \o MappedChar(t, case, k)
  <2>1. /\ Len(MappedChars(t, case)) = c
        /\ \A k \in 1..c : MappedChars(t, case)[k] = MappedChar(t, case, k)
    BY <1>1, MappedCharsAre
  <2> QED
    BY <2>1 DEF Joins
<1> DEFINE A(n) == AsciiCase(SubSeq(t, x + 1, Upto(t, a + n)), case)
           Good(n) == G[a + n] = G[a] \o A(n) /\ x <= Upto(t, a + n)
           S == {n \in Nat : a + n <= b => Good(n)}
<1>4. 0 \in S
  <2>1. a + 0 = a /\ SubSeq(t, x + 1, x) = <<>> /\ G[a] \in Seq(Bytes)
    BY <1>1, <1>2
  <2>2. AsciiCase(<<>>, case) = <<>>
    <3>1. PICK e \in Seq(Bytes) : e = <<>> /\ Len(e) = 0
      <4>1. <<>> \in Seq(Bytes) /\ Len(<<>>) = 0
        OBVIOUS
      <4> QED
        BY <4>1
    <3>2. AsciiCase(e, case) \in Seq(Bytes) /\ Len(AsciiCase(e, case)) = 0
      BY <3>1, AsciiCaseUtf8
    <3>3. AsciiCase(e, case) = <<>>
      BY <3>2, EmptyIs
    <3> QED
      BY <3>1, <3>3
  <2>3. G[a] \o <<>> = G[a]
    BY <2>1
  <2>4. A(0) = <<>>
    BY <1>2, <2>1, <2>2
  <2> HIDE DEF A
  <2>5. G[a + 0] = G[a] \o A(0) /\ x <= Upto(t, a + 0)
    BY <1>2, <2>1, <2>3, <2>4
  <2> QED
    BY <2>5
<1> HIDE DEF A, Good
<1>5. ASSUME NEW n \in Nat, n \in S PROVE n + 1 \in S
  <2>1. SUFFICES ASSUME a + (n + 1) <= b PROVE Good(n + 1)
    OBVIOUS
  <2>2. PICK k \in Nat : k = a + n /\ k + 1 = a + (n + 1) /\ k + 1 <= b
    BY <1>1, <2>1
  <2>3. k + 1 \in 1..c /\ k + 1 \in a + 1..b /\ (k + 1) - 1 = k /\ k + 1 <= Len(Starts(t))
    BY <1>1, <2>2
  <2>4. G[k] = G[a] \o A(n) /\ x <= Upto(t, k)
    <3>1. Good(n)
      BY <1>5, <2>2
    <3> QED
      BY <2>2, <3>1 DEF Good
  <2>5. PICK i \in Nat, j \in Nat : /\ i = Upto(t, k) /\ j = Upto(t, k + 1) /\ i < j /\ j <= Len(t)
                                    /\ CharsOf(t)[k + 1] = SubSeq(t, i + 1, j)
                                    /\ SubSeq(t, i + 1, j) \in Seq(Bytes) /\ IsUtf8(SubSeq(t, i + 1, j))
    <3>1. LET i == Upto(t, k)
              j == Upto(t, k + 1)
          IN  /\ i \in Nat /\ j \in Nat /\ i < j /\ j <= Len(t)
              /\ CharAt(t, i) = SubSeq(t, i + 1, j) /\ CharsOf(t)[k + 1] = CharAt(t, i)
              /\ CharAt(t, i) \in Seq(Bytes) /\ IsUtf8(CharAt(t, i))
      BY <2>3, UptoStep
    <3> QED
      BY <3>1
  <2>6. MappedChar(t, case, k + 1) = AsciiCase(SubSeq(t, i + 1, j), case)
    <3> DEFINE ch == SubSeq(t, i + 1, j)
    <3>1. Len(ch) = 1 /\ ch \in Seq(Bytes) /\ IsUtf8(ch) /\ CharsOf(t)[k + 1] = ch
      BY <2>3, <2>5
    <3> HIDE DEF ch
    <3>2. CharCase(ch, case) = AsciiCase(ch, case)
      BY <3>1, CharCaseIs
    <3>3. ch # Sigma
      <4>1. Len(Sigma) = 2 /\ 1 # 2
        BY SigmasAre
      <4> QED
        BY ONLY <3>1, <4>1
    <3>4. MappedChar(t, case, k + 1) = CharCase(ch, case)
      BY <3>1, <3>3 DEF MappedChar, IsFinalSigma
    <3> QED
      BY <3>2, <3>4 DEF ch
  <2> DEFINE u == SubSeq(t, x + 1, i)
             v == SubSeq(t, i + 1, j)
  <2>7. u \in Seq(Bytes) /\ v \in Seq(Bytes) /\ SubSeq(t, x + 1, j) = u \o v /\ x <= j
    <3>1. x <= i /\ i <= j /\ j <= Len(t) /\ x <= j
      BY <2>4, <2>5
    <3> QED
      BY ONLY <3>1, i \in Nat, j \in Nat, x \in Nat, t \in Seq(Bytes), PartsJoin
  <2>8. A(n) = AsciiCase(u, case) /\ A(n + 1) = AsciiCase(u \o v, case)
    BY <2>2, <2>5, <2>7 DEF A
  <2> HIDE DEF u, v
  <2>9. AsciiCase(u \o v, case) = AsciiCase(u, case) \o AsciiCase(v, case)
    BY <2>7, AsciiCaseJoin
  <2>10. AsciiCase(u, case) \in Seq(Bytes) /\ AsciiCase(v, case) \in Seq(Bytes) /\ G[a] \in Seq(Bytes)
    BY <1>1, <2>7, AsciiCaseUtf8
  <2>11. G[k + 1] = (G[a] \o AsciiCase(u, case)) \o AsciiCase(v, case)
    BY <1>3, <2>3, <2>4, <2>6, <2>8 DEF v
  <2>12. (G[a] \o AsciiCase(u, case)) \o AsciiCase(v, case) = G[a] \o (AsciiCase(u, case) \o AsciiCase(v, case))
    BY <2>10
  <2> QED
    BY <2>2, <2>5, <2>7, <2>8, <2>9, <2>11, <2>12 DEF Good
<1>6. \A n \in Nat : n \in S
  <2> HIDE DEF S
  <2> QED
    BY <1>4, <1>5, Induction
<1>7. b - a \in Nat /\ a + (b - a) = b
  BY <1>1
<1>8. b - a \in S
  <2> HIDE DEF S
  <2> QED
    BY <1>6, <1>7
<1>9. Good(b - a)
  BY <1>7, <1>8
<1> QED
  BY <1>2, <1>7, <1>9 DEF A, Good

\* Concatenation is associative.
LEMMA JoinAssoc ==
    \A x, y, z \in Seq(Bytes) : (x \o y) \o z = x \o (y \o z)
OBVIOUS

\* More characters end later.
LEMMA UptoOrder ==
    ASSUME NEW t \in Seq(Bytes), IsUtf8(t), NEW k \in 0..Len(Starts(t)), NEW j \in 0..Len(Starts(t)), j < k
    PROVE  Upto(t, j) < Upto(t, k)
<1>1. PICK c \in Nat : c = Len(Starts(t)) /\ Upto(t, c) = Len(t)
  BY UptoIs
<1>2. j \in Nat /\ j + 1 <= Len(Starts(t)) /\ j + 1 \in 1..Len(Starts(t))
  BY <1>1
<1>3. PICK x \in Nat, y \in Nat : x = Upto(t, j) /\ y = Upto(t, j + 1) /\ x < y /\ y <= Len(t) /\ Starts(t)[j + 1] = x
  <2>1. LET i == Upto(t, j)
            z == Upto(t, j + 1)
        IN  i \in Nat /\ z \in Nat /\ i < z /\ z <= Len(t) /\ Starts(t)[j + 1] = i
    BY <1>2, UptoStep
  <2> QED
    BY <2>1
<1>4. CASE k = c
  <2>1. Len(t) \in Nat
    OBVIOUS
  <2> QED
    BY <1>1, <1>3, <1>4, <2>1
<1>5. CASE k # c
  <2>1. k \in Nat /\ k + 1 <= Len(Starts(t)) /\ k + 1 \in 1..Len(Starts(t)) /\ j + 1 < k + 1
    BY <1>1, <1>5
  <2>2. Starts(t)[k + 1] = Upto(t, k)
    BY <2>1, UptoStep
  <2>3. Starts(t)[j + 1] < Starts(t)[k + 1]
    BY <1>2, <2>1, StartsIs DEF Lists
  <2> QED
    BY <1>3, <2>2, <2>3
<1> QED
  BY <1>4, <1>5

\* The rest of a concatenation.
LEMMA JoinsTail ==
    ASSUME NEW M \in Seq(Seq(Bytes)), NEW G \in [0..Len(M) -> Seq(Bytes)], Joins(G, M),
           NEW b \in 0..Len(M), NEW N \in Seq(Seq(Bytes)), b + Len(N) <= Len(M),
           \A j \in 1..Len(N) : N[j] = M[b + j]
    PROVE  G[b + Len(N)] = G[b] \o FlattenSeq(N)
<1>1. PICK c \in Nat, n \in Nat : c = Len(M) /\ n = Len(N)
  <2>1. Len(M) \in Nat /\ Len(N) \in Nat
    OBVIOUS
  <2> QED
    BY ONLY <2>1
<1>2. PICK H \in [0..n -> Seq(Bytes)] : Joins(H, N)
  BY <1>1, JoinsExist
<1> DEFINE Good(j) == G[b + j] = G[b] \o H[j]
           S == {j \in Nat : j <= n => Good(j)}
<1>3. 0 \in S
  <2>1. b + 0 = b /\ G[b] \in Seq(Bytes) /\ H[0] = <<>>
    <3>1. b + 0 = b
      BY <1>1
    <3>2. G[b] \in Seq(Bytes)
      OBVIOUS
    <3>3. H[0] = <<>>
      BY <1>2 DEF Joins
    <3> QED
      BY <3>1, <3>2, <3>3
  <2>2. G[b] \o <<>> = G[b]
    BY <2>1
  <2>3. Good(0)
    BY <2>1, <2>2
  <2> HIDE DEF Good
  <2> QED
    BY <2>3
<1>4. ASSUME NEW j \in Nat, j \in S PROVE j + 1 \in S
  <2> HIDE DEF Good
  <2>1. SUFFICES ASSUME j + 1 <= n PROVE Good(j + 1)
    OBVIOUS
  <2>2. Good(j)
    BY <1>4, <2>1
  <2>3. j + 1 \in 1..Len(N) /\ (j + 1) - 1 = j /\ j \in 0..n /\ j + 1 \in 0..n
    BY <1>1, <2>1
  <2>4. PICK k \in Nat : k = b + j /\ k + 1 = b + (j + 1) /\ k + 1 \in 1..Len(M) /\ (k + 1) - 1 = k
    BY <1>1, <2>1
  <2>5. G[k + 1] = G[(k + 1) - 1] \o M[k + 1] /\ H[j + 1] = H[(j + 1) - 1] \o N[j + 1]
    BY <1>2, <2>3, <2>4 DEF Joins
  <2>6. N[j + 1] = M[k + 1] /\ N[j + 1] \in Seq(Bytes)
    <3>1. N[j + 1] \in Seq(Bytes)
      BY <2>3, ElementIs
    <3> QED
      BY <2>3, <2>4, <3>1
  <2>7. G[k + 1] = (G[b] \o H[j]) \o N[j + 1]
    BY <2>2, <2>4, <2>5, <2>6 DEF Good
  <2>8. G[b] \in Seq(Bytes) /\ H[j] \in Seq(Bytes)
    BY <1>1, <1>2, <2>3
  <2>9. (G[b] \o H[j]) \o N[j + 1] = G[b] \o (H[j] \o N[j + 1])
    BY ONLY <2>6, <2>8, JoinAssoc
  <2> QED
    BY <2>3, <2>4, <2>5, <2>7, <2>9 DEF Good
<1>5. \A j \in Nat : j \in S
  <2> HIDE DEF S
  <2> QED
    BY <1>3, <1>4, Induction
<1> HIDE DEF Good
<1>6. Good(n)
  <2>1. n \in S
    <3> HIDE DEF S
    <3> QED
      BY <1>5
  <2> QED
    BY <2>1
<1>7. FlattenSeq(N) = H[Len(N)]
  BY <1>2, FlattenIs
<1> QED
  BY <1>1, <1>6, <1>7 DEF Good

\* The ASCII after a boundary ends at a boundary.
LEMMA AsciiEnds ==
    ASSUME NEW t \in Seq(Bytes), IsUtf8(t), NEW i \in Nat, IsCharBoundary(t, i),
           NEW n, n = SplitAsciiPrefix(SubSeq(t, i + 1, Len(t)))
    PROVE  /\ n \in Nat /\ i + n <= Len(t) /\ IsCharBoundary(t, i + n)
           /\ \A j \in i + 1..i + n : t[j] \in Ascii
<1> DEFINE w == SubSeq(t, i + 1, Len(t))
<1>1. PICK l \in Nat : l = Len(t) /\ i <= l
  BY DEF IsCharBoundary
<1>2. w \in Seq(Bytes) /\ Len(w) = l - i /\ \A j \in 1..l - i : w[j] = t[i + j]
  BY <1>1
<1>3. n = PrefixLenWhile(w, Ascii)
  BY DEF SplitAsciiPrefix
<1> HIDE DEF w
<1>4. n \in 0..Len(w) /\ \A j \in 1..n : w[j] \in Ascii
  BY <1>2, <1>3, PrefixLenWhileIs
<1>5. n \in Nat /\ i + n <= l
  BY <1>1, <1>2, <1>4
<1>6. ASSUME NEW j \in i + 1..i + n PROVE t[j] \in Ascii
  <2>1. PICK k \in 1..n : j = i + k
    <3>1. j - i \in 1..n /\ j = i + (j - i)
      BY <1>5
    <3> QED
      BY <3>1
  <2>2. k \in 1..l - i
    BY <1>1, <1>5
  <2> QED
    BY <1>2, <1>4, <2>1, <2>2
<1>7. IsCharBoundary(t, i + n)
  <2>1. CASE n = 0
    <3>1. i + n = i
      BY <2>1
    <3> QED
      BY <3>1
  <2>2. CASE i + n = l
    BY <1>1, <2>2 DEF IsCharBoundary
  <2>3. CASE n > 0 /\ i + n < l
    <3>1. PICK x \in Nat : x = i + n /\ x + 1 \in 1..Len(t) /\ (x + 1) - 1 = x /\ x \in i + 1..i + n
      BY <1>1, <1>5, <2>3
    <3>2. t[x] \in Ascii
      BY <1>6, <3>1
    <3>3. t[x + 1] \in Trailing => t[(x + 1) - 1] = "e1"
      BY <3>1 DEF IsUtf8
    <3>4. "e1" \notin Ascii
      BY DEF Ascii
    <3>5. t[x + 1] \notin Trailing
      BY <3>1, <3>2, <3>3, <3>4
    <3> QED
      BY <1>1, <2>3, <3>1, <3>5 DEF IsCharBoundary
  <2> QED
    BY <1>5, <2>1, <2>2, <2>3
<1> QED
  BY <1>1, <1>5, <1>6, <1>7

\* The parts in which a text that changes is mapped: what comes before the change and the
\* ASCII after it, and the characters that are left.
CaseAscii(t, case) ==
    SplitAtFirstChange(t, case) + SplitAsciiPrefix(SubSeq(t, SplitAtFirstChange(t, case) + 1, Len(t)))
CaseStart(t, case) ==
    SubSeq(t, 1, SplitAtFirstChange(t, case))
        \o AsciiCase(SubSeq(t, SplitAtFirstChange(t, case) + 1, CaseAscii(t, case)), case)
CaseRest(t, case) == CharsOf(SubSeq(t, CaseAscii(t, case) + 1, Len(t)))
CaseOfChars(chars, case) == [k \in DOMAIN chars |-> CharCase(chars[k], case)]

\* A list of characters.
AreChars(cs) ==
    cs \in Seq(Seq(Bytes)) /\ \A k \in 1..Len(cs) : IsUtf8(cs[k]) /\ Len(cs[k]) \in {1, 2}

\* Characters mapped one by one.
LEMMA CharsInCase ==
    ASSUME NEW cs, AreChars(cs), NEW case
    PROVE  /\ CaseOfChars(cs, case) \in Seq(Seq(Bytes)) /\ Len(CaseOfChars(cs, case)) = Len(cs)
           /\ \A k \in 1..Len(cs) : CaseOfChars(cs, case)[k] = CharCase(cs[k], case)
           /\ FlattenSeq(CaseOfChars(cs, case)) \in Seq(Bytes)
           /\ IsUtf8(FlattenSeq(CaseOfChars(cs, case)))
<1> DEFINE M == CaseOfChars(cs, case)
<1>1. PICK n \in Nat : n = Len(cs) /\ cs \in Seq(Seq(Bytes)) /\ DOMAIN cs = 1..n
  BY DEF AreChars
<1>2. ASSUME NEW k \in 1..n PROVE CharCase(cs[k], case) \in Seq(Bytes) /\ IsUtf8(CharCase(cs[k], case))
  <2>1. cs[k] \in Seq(Bytes) /\ IsUtf8(cs[k]) /\ Len(cs[k]) \in {1, 2}
    BY <1>1, ElementIs DEF AreChars
  <2> QED
    BY <2>1, CharCaseIs
<1>3. M = [k \in 1..n |-> CharCase(cs[k], case)]
  BY <1>1 DEF CaseOfChars
<1>4. M \in [1..n -> Seq(Bytes)]
  BY <1>2, <1>3
<1>5. M \in Seq(Seq(Bytes)) /\ Len(M) = n
  BY <1>4, FunctionIsSeq
<1>6. \A k \in 1..n : M[k] = CharCase(cs[k], case)
  BY <1>3
<1> HIDE DEF M
<1>7. FlattenSeq(M) \in Seq(Bytes) /\ IsUtf8(FlattenSeq(M))
  <2>1. \A k \in 1..Len(M) : IsUtf8(M[k])
    BY <1>2, <1>5, <1>6
  <2> QED
    BY <1>5, <2>1, FlattenUtf8
<1> QED
  BY <1>1, <1>5, <1>6, <1>7 DEF M

\* The characters of a text are such a list.
LEMMA CharsAre ==
    ASSUME NEW t \in Seq(Bytes), IsUtf8(t)
    PROVE  AreChars(CharsOf(t)) /\ Len(CharsOf(t)) = Len(Starts(t)) /\ FlattenSeq(CharsOf(t)) = t
<1>1. CharsOf(t) \in Seq(Seq(Bytes)) /\ Len(CharsOf(t)) = Len(Starts(t))
  BY CharsJoin
<1>2. PICK c : c = Len(Starts(t))
  OBVIOUS
<1>3. ASSUME NEW k \in 1..c PROVE IsUtf8(CharsOf(t)[k]) /\ Len(CharsOf(t)[k]) \in {1, 2}
  <2>1. k \in 1..Len(Starts(t))
    BY <1>2
  <2>2. CharsOf(t)[k] = CharAt(t, Starts(t)[k])
    BY <2>1, CharsJoin
  <2> QED
    BY <2>1, <2>2, CharIs
<1>4. \E G : Joins(G, CharsOf(t)) /\ G[c] = t
  BY <1>2, CharsJoin
<1>5. FlattenSeq(CharsOf(t)) = t
  BY <1>1, <1>2, <1>4, FlattenIs
<1> QED
  BY <1>1, <1>2, <1>3, <1>5 DEF AreChars

\* Where the ASCII ends, in characters.
LEMMA AsciiChars ==
    ASSUME NEW t \in Seq(Bytes), IsUtf8(t), NEW a \in 0..Len(Starts(t)),
           NEW n, n = SplitAsciiPrefix(SubSeq(t, Upto(t, a) + 1, Len(t)))
    PROVE  \E b \in a..Len(Starts(t)) :
              /\ n \in Nat /\ Upto(t, a) \in Nat /\ Upto(t, a) + n <= Len(t)
              /\ Upto(t, b) = Upto(t, a) + n
              /\ \A k \in a + 1..b : Len(CharsOf(t)[k]) = 1
<1>1. PICK c \in Nat : c = Len(Starts(t)) /\ a \in 0..c
  BY UptoIs
<1>2. PICK i \in Nat : i = Upto(t, a) /\ IsCharBoundary(t, i)
  BY UptoIs
<1>3. /\ n \in Nat /\ i + n <= Len(t) /\ IsCharBoundary(t, i + n)
      /\ \A j \in i + 1..i + n : t[j] \in Ascii
  BY <1>2, AsciiEnds
<1>4. i + n \in Nat
  BY <1>3
<1>5. PICK b \in 0..Len(Starts(t)) : i + n = Upto(t, b)
  BY <1>3, <1>4, BoundaryIsUpto
<1>6. b \in 0..c
  BY <1>1
<1>7. a <= b
  <2>1. SUFFICES ASSUME b < a PROVE FALSE
    BY <1>1, <1>6
  <2>2. Upto(t, b) < Upto(t, a)
    BY <2>1, UptoOrder
  <2> QED
    BY <1>2, <1>3, <1>5, <2>2
<1>8. ASSUME NEW k \in a + 1..b PROVE Len(CharsOf(t)[k]) = 1
  <2>1. PICK j \in Nat : /\ j + 1 = k /\ j = k - 1 /\ a <= j /\ j < b
                         /\ j + 1 <= Len(Starts(t)) /\ j \in 0..Len(Starts(t))
    BY <1>1, <1>6
  <2>2. PICK x \in Nat : /\ x = Upto(t, j) /\ x < Len(t) /\ IsCharBoundary(t, x)
                         /\ CharsOf(t)[k] = CharAt(t, x)
    <3>1. LET y == Upto(t, j)
              z == Upto(t, j + 1)
          IN  /\ y \in Nat /\ z \in Nat /\ y < z /\ z <= Len(t) /\ IsCharBoundary(t, y)
              /\ CharsOf(t)[j + 1] = CharAt(t, y)
      BY <2>1, UptoStep
    <3>2. Len(t) \in Nat
      OBVIOUS
    <3> QED
      BY <2>1, <3>1, <3>2
  <2>3. i <= x /\ x < i + n
    <3>1. x < i + n
      BY <1>5, <2>1, <2>2, UptoOrder
    <3>2. a = j \/ a < j
      BY <1>1, <2>1
    <3>3. i <= x
      BY <1>1, <1>2, <2>1, <2>2, <3>2, UptoOrder
    <3> QED
      BY <3>1, <3>3
  <2>4. x + 1 \in i + 1..i + n
    BY <1>3, <2>3
  <2>5. t[x + 1] \in Ascii
    BY <1>3, <2>4
  <2> QED
    BY <2>2, <2>5, CharAtIs
<1>9. b \in a..Len(Starts(t))
  BY <1>1, <1>6, <1>7
<1> QED
  BY <1>2, <1>3, <1>5, <1>8, <1>9

\* The parts fit together: unless a sigma is to be lowered, the mapped parts are the mapped
\* text.
LEMMA CasePartsAre ==
    ASSUME NEW t \in Seq(Bytes), IsUtf8(t), NEW case, SplitAtFirstChange(t, case) # NoChange
    PROVE  /\ CaseStart(t, case) \in Seq(Bytes) /\ Len(CaseStart(t, case)) <= Len(t)
           /\ AreChars(CaseRest(t, case))
           /\ (\A k \in 1..Len(CaseRest(t, case)) : ~(case = "Lower" /\ CaseRest(t, case)[k] = Sigma)) =>
                 StrCase(t, case) = CaseStart(t, case) \o FlattenSeq(CaseOfChars(CaseRest(t, case), case))
<1> DEFINE mid == SplitAtFirstChange(t, case)
           R == CaseRest(t, case)
           M == MappedChars(t, case)
<1>1. PICK c \in Nat : c = Len(Starts(t)) /\ Upto(t, c) = Len(t)
  BY UptoIs
<1>2. PICK a \in Nat : a + 1 <= c /\ mid = Upto(t, a) /\ \A k \in 1..a : Steady(t, case, k)
  BY <1>1, FirstChangeIs
<1>3. a \in 0..Len(Starts(t))
  BY <1>1, <1>2
<1>4. PICK i \in Nat : i = mid /\ i = Upto(t, a) /\ i <= Len(t)
  BY <1>2, <1>3, UptoIs
<1> HIDE DEF mid
<1>5. PICK n : n = SplitAsciiPrefix(SubSeq(t, Upto(t, a) + 1, Len(t)))
  OBVIOUS
<1>6. PICK b \in a..Len(Starts(t)) :
              /\ n \in Nat /\ i + n <= Len(t) /\ Upto(t, b) = i + n
              /\ \A k \in a + 1..b : Len(CharsOf(t)[k]) = 1
  BY <1>3, <1>4, <1>5, AsciiChars
<1>7. PICK j \in Nat : j = i + n /\ j = CaseAscii(t, case) /\ j = Upto(t, b) /\ i <= j /\ j <= Len(t)
  BY <1>4, <1>5, <1>6 DEF CaseAscii, mid
<1>8. b \in 0..Len(Starts(t)) /\ a \in 0..b /\ b \in 0..c
  BY <1>1, <1>2, <1>6
<1> DEFINE u == SubSeq(t, 1, i)
           v == AsciiCase(SubSeq(t, i + 1, j), case)
<1>9. CaseStart(t, case) = u \o v
  BY <1>4, <1>7 DEF CaseStart, mid
<1>10. /\ u \in Seq(Bytes) /\ Len(u) = i /\ SubSeq(t, i + 1, j) \in Seq(Bytes)
       /\ Len(SubSeq(t, i + 1, j)) = j - i
  <2>1. Len(t) \in Nat
    OBVIOUS
  <2> QED
    BY <1>4, <1>7, <2>1
<1>11. v \in Seq(Bytes) /\ Len(v) = j - i
  BY <1>10, AsciiCaseUtf8
<1> HIDE DEF u, v
<1>12. u \o v \in Seq(Bytes) /\ Len(u \o v) <= Len(t)
  <2>1. u \in Seq(Bytes) /\ v \in Seq(Bytes)
    BY <1>10, <1>11
  <2>2. u \o v \in Seq(Bytes) /\ Len(u \o v) = Len(u) + Len(v)
    BY ONLY <2>1, JoinIs
  <2>3. Len(u \o v) = j
    BY <1>10, <1>11, <2>2
  <2> QED
    BY <1>7, <2>2, <2>3
<1> DEFINE w == SubSeq(t, Upto(t, b) + 1, Len(t))
<1>13. /\ w \in Seq(Bytes) /\ IsUtf8(w) /\ b + Len(CharsOf(w)) = Len(Starts(t))
       /\ \A k \in 1..Len(CharsOf(w)) : CharsOf(w)[k] = CharsOf(t)[b + k]
  BY <1>8, SuffixChars
<1>14. R = CharsOf(w)
  BY <1>7 DEF CaseRest
<1> HIDE DEF w, R
<1>15. AreChars(R)
  BY <1>13, <1>14, CharsAre
<1>16. ASSUME \A k \in 1..Len(R) : ~(case = "Lower" /\ R[k] = Sigma)
       PROVE  StrCase(t, case) = (u \o v) \o FlattenSeq(CaseOfChars(R, case))
  <2> DEFINE N == CaseOfChars(R, case)
  <2>1. N \in Seq(Seq(Bytes)) /\ Len(N) = Len(R) /\ \A k \in 1..Len(R) : N[k] = CharCase(R[k], case)
    BY <1>15, CharsInCase
  <2> HIDE DEF N
  <2>2. PICK r \in Nat : r = Len(R) /\ b + r = c
    <3>1. Len(R) \in Nat
      BY <1>15 DEF AreChars
    <3> QED
      BY <1>1, <1>13, <1>14, <3>1
  <2>3. /\ M \in Seq(Seq(Bytes)) /\ Len(M) = c
        /\ \A k \in 1..c : M[k] = MappedChar(t, case, k)
        /\ StrCase(t, case) = FlattenSeq(M)
    BY <1>1, MappedCharsAre
  <2>4. PICK G \in [0..c -> Seq(Bytes)] : Joins(G, M)
    BY <2>3, JoinsExist
  <2>5. G[a] = u
    BY <1>2, <1>3, <1>4, <2>4, SteadyPrefix DEF u
  <2>6. G[b] = G[a] \o v
    <3>1. G \in [0..Len(Starts(t)) -> Seq(Bytes)]
      BY <1>1, <2>4
    <3>2. G[b] = G[a] \o AsciiCase(SubSeq(t, Upto(t, a) + 1, Upto(t, b)), case)
      BY <1>6, <1>8, <2>4, <3>1, AsciiPart
    <3> QED
      BY <1>4, <1>7, <3>2 DEF v
  <2>7. ASSUME NEW k \in 1..r PROVE N[k] = M[b + k]
    <3>1. b + k \in 1..c /\ k \in 1..Len(R)
      BY <1>8, <2>2
    <3>2. R[k] = CharsOf(t)[b + k] /\ ~(case = "Lower" /\ R[k] = Sigma)
      BY <1>13, <1>14, <1>16, <3>1
    <3>3. MappedChar(t, case, b + k) = CharCase(R[k], case)
      BY <3>2 DEF MappedChar, IsFinalSigma
    <3> QED
      BY <2>1, <2>3, <3>1, <3>3
  <2> HIDE DEF M
  <2>8. G[b + Len(N)] = G[b] \o FlattenSeq(N)
    <3>1. /\ M \in Seq(Seq(Bytes)) /\ G \in [0..Len(M) -> Seq(Bytes)] /\ Joins(G, M)
          /\ b \in 0..Len(M) /\ N \in Seq(Seq(Bytes)) /\ b + Len(N) <= Len(M)
          /\ \A k \in 1..Len(N) : N[k] = M[b + k]
      BY <1>8, <2>1, <2>2, <2>3, <2>4, <2>7
    <3> QED
      BY ONLY <3>1, JoinsTail
  <2>9. FlattenSeq(M) = G[Len(M)]
    BY <2>3, <2>4, FlattenIs
  <2> QED
    BY <2>1, <2>2, <2>3, <2>5, <2>6, <2>8, <2>9 DEF N
<1> QED
  BY <1>9, <1>12, <1>15, <1>16 DEF R

\* Two texts whose beginnings of the same length differ are different.
LEMMA JoinDiffers ==
    ASSUME NEW x \in Seq(Bytes), NEW y \in Seq(Bytes), Len(x) = Len(y),
           NEW u \in Seq(Bytes), NEW v \in Seq(Bytes), x \o u = y \o v
    PROVE  x = y /\ u = v
<1>1. /\ Len(x \o u) = Len(x) + Len(u)
      /\ \A i \in 1..Len(x) : (x \o u)[i] = x[i]
      /\ \A i \in 1..Len(u) : (x \o u)[Len(x) + i] = u[i]
  BY ONLY x \in Seq(Bytes), u \in Seq(Bytes), JoinIs
<1>2. /\ Len(y \o v) = Len(y) + Len(v)
      /\ \A i \in 1..Len(y) : (y \o v)[i] = y[i]
      /\ \A i \in 1..Len(v) : (y \o v)[Len(y) + i] = v[i]
  BY ONLY y \in Seq(Bytes), v \in Seq(Bytes), JoinIs
<1>3. \A i \in 1..Len(x) : x[i] = y[i]
  BY <1>1, <1>2
<1>4. x = y
  BY ONLY <1>3, x \in Seq(Bytes), y \in Seq(Bytes), Len(x) = Len(y), SameSeq
<1>5. Len(u) = Len(v)
  BY <1>1, <1>2
<1>6. \A i \in 1..Len(u) : u[i] = v[i]
  BY <1>1, <1>2, <1>5
<1>7. u = v
  BY ONLY <1>5, <1>6, u \in Seq(Bytes), v \in Seq(Bytes), SameSeq
<1> QED
  BY <1>4, <1>7

\* A text g that is longer than s, or as long and different.
Outgrows(g, s) == Len(g) > Len(s) \/ (Len(g) = Len(s) /\ g # s)

\* It stays so when both are extended, g by at least as much; or when both are put
\* behind the same text.
LEMMA OutgrowsOn ==
    ASSUME NEW g \in Seq(Bytes), NEW s \in Seq(Bytes), Outgrows(g, s),
           NEW u \in Seq(Bytes), NEW v \in Seq(Bytes), Len(u) >= Len(v)
    PROVE  Outgrows(g \o u, s \o v)
<1>1. Len(g \o u) = Len(g) + Len(u)
  BY ONLY g \in Seq(Bytes), u \in Seq(Bytes), JoinIs
<1>2. Len(s \o v) = Len(s) + Len(v)
  BY ONLY s \in Seq(Bytes), v \in Seq(Bytes), JoinIs
<1>3. Len(g) \in Nat /\ Len(u) \in Nat /\ Len(s) \in Nat /\ Len(v) \in Nat
  OBVIOUS
<1>4. CASE Len(g) > Len(s) \/ Len(u) > Len(v)
  <2>1. Len(g) + Len(u) > Len(s) + Len(v)
    BY <1>3, <1>4 DEF Outgrows
  <2> QED
    BY <1>1, <1>2, <2>1 DEF Outgrows
<1>5. CASE ~(Len(g) > Len(s) \/ Len(u) > Len(v))
  <2>1. Len(g) = Len(s) /\ g # s /\ Len(u) = Len(v)
    BY <1>3, <1>5 DEF Outgrows
  <2>2. g \o u # s \o v
    <3>1. SUFFICES ASSUME g \o u = s \o v PROVE FALSE
      OBVIOUS
    <3>2. g = s
      BY ONLY <2>1, <3>1, g \in Seq(Bytes), u \in Seq(Bytes), s \in Seq(Bytes), v \in Seq(Bytes), JoinDiffers
    <3> QED
      BY <2>1, <3>2
  <2> QED
    BY <1>1, <1>2, <2>1, <2>2 DEF Outgrows
<1> QED
  BY <1>4, <1>5

\* It stays so behind the same text.
LEMMA OutgrowsBehind ==
    ASSUME NEW x \in Seq(Bytes), NEW u \in Seq(Bytes), NEW v \in Seq(Bytes), Outgrows(u, v)
    PROVE  Outgrows(x \o u, x \o v)
<1>1. Len(x \o u) = Len(x) + Len(u)
  BY ONLY x \in Seq(Bytes), u \in Seq(Bytes), JoinIs
<1>2. Len(x \o v) = Len(x) + Len(v)
  BY ONLY x \in Seq(Bytes), v \in Seq(Bytes), JoinIs
<1>3. Len(x) \in Nat /\ Len(u) \in Nat /\ Len(v) \in Nat /\ Len(x) = Len(x)
  OBVIOUS
<1>4. CASE Len(u) > Len(v)
  BY <1>1, <1>2, <1>3, <1>4 DEF Outgrows
<1>5. CASE Len(u) = Len(v) /\ u # v
  <2>1. x \o u # x \o v
    <3>1. SUFFICES ASSUME x \o u = x \o v PROVE FALSE
      OBVIOUS
    <3>2. u = v
      BY ONLY <1>3, <3>1, x \in Seq(Bytes), u \in Seq(Bytes), v \in Seq(Bytes), JoinDiffers
    <3> QED
      BY <1>5, <3>2
  <2> QED
    BY <1>1, <1>2, <1>5, <2>1 DEF Outgrows
<1> QED
  BY <1>4, <1>5 DEF Outgrows

\* A character that changes is mapped to another one, also a sigma at the end.
LEMMA ChangedChar ==
    ASSUME NEW t \in Seq(Bytes), IsUtf8(t), NEW case, NEW k \in 1..Len(Starts(t)), ~Steady(t, case, k)
    PROVE  MappedChar(t, case, k) # CharsOf(t)[k]
<1>1. CASE case = "Lower" /\ IsFinalSigma(t, k)
  <2>1. MappedChar(t, case, k) = FinalSigma /\ CharsOf(t)[k] = Sigma
    BY <1>1 DEF MappedChar, IsFinalSigma
  <2>2. FinalSigma[2] = "f2" /\ Sigma[2] = "S2"
    BY DEF FinalSigma, Sigma
  <2> QED
    BY <2>1, <2>2
<1>2. CASE ~(case = "Lower" /\ IsFinalSigma(t, k))
  BY <1>2 DEF MappedChar, Steady
<1> QED
  BY <1>1, <1>2

\* From the character that changes on, the mapped text differs from the text.
LEMMA ChangedCase ==
    ASSUME NEW t \in Seq(Bytes), IsUtf8(t), NEW case, SplitAtFirstChange(t, case) # NoChange
    PROVE  StrCase(t, case) # t
<1> DEFINE M == MappedChars(t, case)
<1>1. PICK c \in Nat : c = Len(Starts(t)) /\ Upto(t, c) = Len(t)
  BY UptoIs
<1>2. PICK a \in Nat : a + 1 <= c /\ (\A k \in 1..a : Steady(t, case, k)) /\ ~Steady(t, case, a + 1)
  BY <1>1, FirstChangeIs
<1>3. /\ M \in Seq(Seq(Bytes)) /\ Len(M) = c
      /\ \A k \in 1..c : M[k] = MappedChar(t, case, k) /\ Len(M[k]) >= Len(CharsOf(t)[k])
      /\ StrCase(t, case) = FlattenSeq(M)
  BY <1>1, MappedCharsAre
<1> HIDE DEF M
<1>4. PICK G \in [0..c -> Seq(Bytes)] : Joins(G, M)
  BY <1>3, JoinsExist
<1>5. a \in 0..Len(Starts(t)) /\ a + 1 \in 1..Len(Starts(t)) /\ a + 1 \in 1..c /\ a \in 0..c
  BY <1>1, <1>2
<1>6. G[a] = SubSeq(t, 1, Upto(t, a))
  BY <1>2, <1>4, <1>5, SteadyPrefix DEF M
<1>7. ASSUME NEW k \in Nat, k + 1 <= c
      PROVE  /\ G[k + 1] = G[k] \o M[k + 1] /\ M[k + 1] \in Seq(Bytes) /\ G[k] \in Seq(Bytes)
             /\ SubSeq(t, 1, Upto(t, k)) \in Seq(Bytes) /\ CharsOf(t)[k + 1] \in Seq(Bytes)
             /\ SubSeq(t, 1, Upto(t, k + 1)) = SubSeq(t, 1, Upto(t, k)) \o CharsOf(t)[k + 1]
             /\ Len(M[k + 1]) >= Len(CharsOf(t)[k + 1])
  <2>1. k + 1 \in 1..c /\ k \in 0..c /\ (k + 1) - 1 = k /\ k + 1 <= Len(Starts(t))
    BY <1>1, <1>7
  <2>2. G[k + 1] = G[(k + 1) - 1] \o M[k + 1]
    BY <1>3, <1>4, <2>1 DEF Joins
  <2>3. PICK i \in Nat, j \in Nat : /\ i = Upto(t, k) /\ j = Upto(t, k + 1) /\ i < j /\ j <= Len(t)
                                    /\ CharsOf(t)[k + 1] = SubSeq(t, i + 1, j)
    <3>1. LET i == Upto(t, k)
              j == Upto(t, k + 1)
          IN  /\ i \in Nat /\ j \in Nat /\ i < j /\ j <= Len(t)
              /\ CharAt(t, i) = SubSeq(t, i + 1, j) /\ CharsOf(t)[k + 1] = CharAt(t, i)
      BY <2>1, UptoStep
    <3> QED
      BY <3>1
  <2>4. 0 <= i /\ i <= j /\ j <= Len(t) /\ 0 \in Nat /\ 0 + 1 = 1
    BY <2>3
  <2>5. /\ SubSeq(t, 0 + 1, i) \in Seq(Bytes) /\ SubSeq(t, i + 1, j) \in Seq(Bytes)
        /\ SubSeq(t, 0 + 1, j) = SubSeq(t, 0 + 1, i) \o SubSeq(t, i + 1, j)
    BY ONLY <2>4, i \in Nat, j \in Nat, t \in Seq(Bytes), PartsJoin
  <2>6. M[k + 1] \in Seq(Bytes) /\ G[k] \in Seq(Bytes)
    BY <1>3, <1>4, <2>1
  <2> QED
    BY <1>3, <2>1, <2>2, <2>3, <2>4, <2>5, <2>6
<1> DEFINE Good(n) == a + 1 + n <= c => Outgrows(G[a + 1 + n], SubSeq(t, 1, Upto(t, a + 1 + n)))
           S == {n \in Nat : Good(n)}
<1>8. 0 \in S
  <2>1. Outgrows(M[a + 1], CharsOf(t)[a + 1])
    <3>1. M[a + 1] # CharsOf(t)[a + 1]
      BY <1>2, <1>3, <1>5, ChangedChar
    <3>2. /\ Len(M[a + 1]) >= Len(CharsOf(t)[a + 1])
          /\ M[a + 1] \in Seq(Bytes) /\ CharsOf(t)[a + 1] \in Seq(Bytes)
      BY <1>2, <1>7
    <3>3. Len(M[a + 1]) \in Nat /\ Len(CharsOf(t)[a + 1]) \in Nat
      BY ONLY <3>2
    <3> QED
      BY <3>1, <3>2, <3>3 DEF Outgrows
  <2>2. Outgrows(G[a] \o M[a + 1], G[a] \o CharsOf(t)[a + 1])
    <3>1. G[a] \in Seq(Bytes) /\ M[a + 1] \in Seq(Bytes) /\ CharsOf(t)[a + 1] \in Seq(Bytes)
      BY <1>2, <1>7
    <3> QED
      BY <2>1, <3>1, OutgrowsBehind
  <2>3. Outgrows(G[a + 1], SubSeq(t, 1, Upto(t, a + 1)))
    BY <1>2, <1>6, <1>7, <2>2
  <2>4. a + 1 + 0 = a + 1
    OBVIOUS
  <2> QED
    BY <2>3, <2>4
<1>9. ASSUME NEW n \in Nat, n \in S PROVE n + 1 \in S
  <2>1. SUFFICES ASSUME a + 1 + (n + 1) <= c
                 PROVE  Outgrows(G[a + 1 + (n + 1)], SubSeq(t, 1, Upto(t, a + 1 + (n + 1))))
    OBVIOUS
  <2>2. PICK k \in Nat : k = a + 1 + n /\ k + 1 = a + 1 + (n + 1) /\ k + 1 <= c /\ k <= c
    BY <2>1
  <2>3. Outgrows(G[k], SubSeq(t, 1, Upto(t, k)))
    BY <1>9, <2>2
  <2>4. Outgrows(G[k] \o M[k + 1], SubSeq(t, 1, Upto(t, k)) \o CharsOf(t)[k + 1])
    <3>1. /\ M[k + 1] \in Seq(Bytes) /\ G[k] \in Seq(Bytes)
          /\ SubSeq(t, 1, Upto(t, k)) \in Seq(Bytes) /\ CharsOf(t)[k + 1] \in Seq(Bytes)
          /\ Len(M[k + 1]) >= Len(CharsOf(t)[k + 1])
      BY <1>7, <2>2
    <3> QED
      BY ONLY <2>3, <3>1, OutgrowsOn
  <2>5. Outgrows(G[k + 1], SubSeq(t, 1, Upto(t, k + 1)))
    BY <1>7, <2>2, <2>4
  <2> QED
    BY <2>2, <2>5
<1>10. \A n \in Nat : n \in S
  <2> HIDE DEF S
  <2> QED
    BY <1>8, <1>9, Induction
<1>11. Outgrows(G[c], SubSeq(t, 1, Upto(t, c)))
  <2>1. PICK n \in Nat : a + 1 + n = c
    <3>1. c - (a + 1) \in Nat /\ a + 1 + (c - (a + 1)) = c
      BY <1>2
    <3> QED
      BY <3>1
  <2>2. n \in S
    <3> HIDE DEF S
    <3> QED
      BY <1>10
  <2>3. c <= c
    OBVIOUS
  <2> QED
    BY <2>1, <2>2, <2>3
<1>12. SubSeq(t, 1, Len(t)) = t
  OBVIOUS
<1>13. FlattenSeq(M) = G[c]
  BY <1>3, <1>4, FlattenIs
<1>14. Outgrows(StrCase(t, case), t)
  BY <1>1, <1>3, <1>11, <1>12, <1>13
<1> QED
  <2>1. Len(t) \in Nat
    OBVIOUS
  <2> QED
    BY <1>14, <2>1 DEF Outgrows
=============================================================================
