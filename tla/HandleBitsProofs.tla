-------------------------- MODULE HandleBitsProofs --------------------------
(***************************************************************************)
(* HandleBits for all targets, characters, texts, pointers and lengths: a  *)
(* handle reads back as what was stored in it, and its last byte is never  *)
(* a niche.                                                                *)
(***************************************************************************)
EXTENDS HandleBits, TLAPS

-----------------------------------------------------------------------------
(* Bitwise operations on bytes.                                            *)

\* What a byte is.
LEMMA ByteIs == \A x : x \in Byte <=> x \in Nat /\ x <= 255
BY DEF Byte

\* The bits of a number are its remainders.
LEMMA BitIs ==
    ASSUME NEW x \in Nat
    PROVE  /\ Bit(x, 0) = x % 2 /\ Bit(x, 1) = (x \div 2) % 2 /\ Bit(x, 2) = (x \div 4) % 2
           /\ Bit(x, 3) = (x \div 8) % 2 /\ Bit(x, 4) = (x \div 16) % 2 /\ Bit(x, 5) = (x \div 32) % 2
           /\ Bit(x, 6) = (x \div 64) % 2 /\ Bit(x, 7) = (x \div 128) % 2
           /\ \A k \in 0..7 : Bit(x, k) = 0 \/ Bit(x, k) = 1
<1>1. /\ Powers[0 + 1] = 1 /\ Powers[1 + 1] = 2 /\ Powers[2 + 1] = 4 /\ Powers[3 + 1] = 8
      /\ Powers[4 + 1] = 16 /\ Powers[5 + 1] = 32 /\ Powers[6 + 1] = 64 /\ Powers[7 + 1] = 128
  BY DEF Powers
<1>2. /\ Bit(x, 0) = (x \div 1) % 2 /\ Bit(x, 1) = (x \div 2) % 2 /\ Bit(x, 2) = (x \div 4) % 2
      /\ Bit(x, 3) = (x \div 8) % 2 /\ Bit(x, 4) = (x \div 16) % 2 /\ Bit(x, 5) = (x \div 32) % 2
      /\ Bit(x, 6) = (x \div 64) % 2 /\ Bit(x, 7) = (x \div 128) % 2
  BY <1>1 DEF Bit
<1>3. x \div 1 = x
  OBVIOUS
<1>4. \A y \in Int : y % 2 = 0 \/ y % 2 = 1
  OBVIOUS
<1>5. /\ x \div 2 \in Int /\ x \div 4 \in Int /\ x \div 8 \in Int /\ x \div 16 \in Int
      /\ x \div 32 \in Int /\ x \div 64 \in Int /\ x \div 128 \in Int
  OBVIOUS
<1>6. \A k \in 0..7 : k = 0 \/ k = 1 \/ k = 2 \/ k = 3 \/ k = 4 \/ k = 5 \/ k = 6 \/ k = 7
  OBVIOUS
<1>7. QED
  BY <1>2, <1>3, <1>4, <1>5, <1>6

\* The bits of a byte are 0 or 1.
LEMMA BitOfByte ==
    ASSUME NEW x \in Byte
    PROVE  x \in Nat /\ \A k \in 0..7 : Bit(x, k) = 0 \/ Bit(x, k) = 1
<1>1. x \in Nat
  BY ByteIs
<1>2. QED
  BY <1>1, BitIs, Zenon

\* A byte is the sum of its bits.
LEMMA BitsOf ==
    ASSUME NEW x \in Byte
    PROVE  x = Bit(x, 0) + 2 * Bit(x, 1) + 4 * Bit(x, 2) + 8 * Bit(x, 3) + 16 * Bit(x, 4)
                 + 32 * Bit(x, 5) + 64 * Bit(x, 6) + 128 * Bit(x, 7)
<1>0. x \in Nat /\ x <= 255
  BY ByteIs
<1>1. /\ x = 2 * (x \div 2) + (x % 2)
      /\ x \div 2 = 2 * (x \div 4) + ((x \div 2) % 2)
      /\ x \div 4 = 2 * (x \div 8) + ((x \div 4) % 2)
      /\ x \div 8 = 2 * (x \div 16) + ((x \div 8) % 2)
  BY <1>0
<1>2. /\ x \div 16 = 2 * (x \div 32) + ((x \div 16) % 2)
      /\ x \div 32 = 2 * (x \div 64) + ((x \div 32) % 2)
      /\ x \div 64 = 2 * (x \div 128) + ((x \div 64) % 2)
      /\ x \div 128 = (x \div 128) % 2
  BY <1>0
<1>3. /\ x \div 2 \in Int /\ x \div 4 \in Int /\ x \div 8 \in Int /\ x \div 16 \in Int
      /\ x \div 32 \in Int /\ x \div 64 \in Int /\ x \div 128 \in Int
  BY <1>0
<1>4. \A k \in 0..7 : Bit(x, k) = 0 \/ Bit(x, k) = 1
  BY <1>0, BitIs, Zenon
<1>5. /\ Bit(x, 0) \in Int /\ Bit(x, 1) \in Int /\ Bit(x, 2) \in Int /\ Bit(x, 3) \in Int
       /\ Bit(x, 4) \in Int /\ Bit(x, 5) \in Int /\ Bit(x, 6) \in Int /\ Bit(x, 7) \in Int
  BY <1>4
<1>6. PICK a \in Int : a = x \div 2
  BY <1>3
<1>7. PICK b \in Int : b = x \div 4
  BY <1>3
<1>8. PICK c \in Int : c = x \div 8
  BY <1>3
<1>9. PICK d \in Int : d = x \div 16
  BY <1>3
<1>10. PICK e \in Int : e = x \div 32
  BY <1>3
<1>11. PICK f \in Int : f = x \div 64
  BY <1>3
<1>12. PICK g \in Int : g = x \div 128
  BY <1>3
<1>13. /\ x = 2 * a + Bit(x, 0) /\ a = 2 * b + Bit(x, 1) /\ b = 2 * c + Bit(x, 2)
       /\ c = 2 * d + Bit(x, 3) /\ d = 2 * e + Bit(x, 4) /\ e = 2 * f + Bit(x, 5)
       /\ f = 2 * g + Bit(x, 6) /\ g = Bit(x, 7)
  BY <1>0, <1>1, <1>2, <1>6, <1>7, <1>8, <1>9, <1>10, <1>11, <1>12, BitIs, Zenon
<1>14. QED
  BY <1>0, <1>13, <1>5

Either(a, b) == IF a + b > 0 THEN 1 ELSE 0

\* Bitwise or of two bytes, bit by bit.
LEMMA OrIs ==
    ASSUME NEW x, NEW y
    PROVE  Or(x, y) = Either(Bit(x, 0), Bit(y, 0)) + 2 * Either(Bit(x, 1), Bit(y, 1))
                        + 4 * Either(Bit(x, 2), Bit(y, 2)) + 8 * Either(Bit(x, 3), Bit(y, 3))
                        + 16 * Either(Bit(x, 4), Bit(y, 4)) + 32 * Either(Bit(x, 5), Bit(y, 5))
                        + 64 * Either(Bit(x, 6), Bit(y, 6)) + 128 * Either(Bit(x, 7), Bit(y, 7))
BY DEF Or, ByteOf, Either

\* Bitwise exclusive or of two bytes, bit by bit.
LEMMA XorIs ==
    ASSUME NEW x, NEW y
    PROVE  Xor(x, y) = ((Bit(x, 0) + Bit(y, 0)) % 2) + 2 * ((Bit(x, 1) + Bit(y, 1)) % 2)
                         + 4 * ((Bit(x, 2) + Bit(y, 2)) % 2) + 8 * ((Bit(x, 3) + Bit(y, 3)) % 2)
                         + 16 * ((Bit(x, 4) + Bit(y, 4)) % 2) + 32 * ((Bit(x, 5) + Bit(y, 5)) % 2)
                         + 64 * ((Bit(x, 6) + Bit(y, 6)) % 2) + 128 * ((Bit(x, 7) + Bit(y, 7)) % 2)
BY DEF Xor, ByteOf

\* Or of two bits.
LEMMA EitherIs ==
    /\ Either(0, 0) = 0 /\ Either(0, 1) = 1 /\ Either(1, 0) = 1 /\ Either(1, 1) = 1
BY DEF Either

\* Zero has no bit set.
LEMMA BitsOfZero == \A k \in 0..7 : Bit(0, k) = 0
<1>1. /\ Bit(0, 0) = 0 /\ Bit(0, 1) = 0 /\ Bit(0, 2) = 0 /\ Bit(0, 3) = 0
      /\ Bit(0, 4) = 0 /\ Bit(0, 5) = 0 /\ Bit(0, 6) = 0 /\ Bit(0, 7) = 0
  BY BitIs
<1>2. \A k \in 0..7 : k = 0 \/ k = 1 \/ k = 2 \/ k = 3 \/ k = 4 \/ k = 5 \/ k = 6 \/ k = 7
  OBVIOUS
<1>3. QED
  BY <1>1, <1>2

\* Or with zero or with itself leaves a byte, and the or of two bytes is one.
LEMMA OrByte ==
    ASSUME NEW x \in Byte
    PROVE  /\ Or(x, 0) = x /\ Or(0, x) = x /\ Or(x, x) = x
           /\ \A y \in Byte : Or(x, y) \in Byte
<1>0. x \in Nat /\ \A k \in 0..7 : Bit(x, k) = 0 \/ Bit(x, k) = 1
  BY BitOfByte, Zenon
<1>1. \A k \in 0..7 : /\ Either(Bit(x, k), Bit(0, k)) = Bit(x, k)
                      /\ Either(Bit(0, k), Bit(x, k)) = Bit(x, k)
                      /\ Either(Bit(x, k), Bit(x, k)) = Bit(x, k)
  BY <1>0, BitsOfZero, EitherIs
<1>2. Or(x, 0) = x /\ Or(0, x) = x /\ Or(x, x) = x
  BY <1>1, BitsOf, OrIs
<1>3. ASSUME NEW y \in Byte PROVE Or(x, y) \in Byte
  <2>1. \A a, b : Either(a, b) = 0 \/ Either(a, b) = 1
    BY DEF Either
  <2>2. Or(x, y) \in Nat /\ Or(x, y) <= 255
    BY <2>1, OrIs
  <2>3. QED
    BY <2>2, ByteIs
<1>4. QED
  BY <1>2, <1>3

\* Exclusive or with zero leaves a byte, with itself it clears it.
LEMMA XorByte ==
    ASSUME NEW x \in Byte
    PROVE  Xor(x, 0) = x /\ Xor(x, x) = 0
<1>0. x \in Nat /\ \A k \in 0..7 : Bit(x, k) = 0 \/ Bit(x, k) = 1
  BY BitOfByte, Zenon
<1>1. \A k \in 0..7 : /\ (Bit(x, k) + Bit(0, k)) % 2 = Bit(x, k)
                      /\ (Bit(x, k) + Bit(x, k)) % 2 = 0
  BY <1>0, BitsOfZero
<1>2. Xor(x, 0) = x
  BY <1>1, BitsOf, XorIs
<1>3. Xor(x, x) = 0
  BY <1>1, XorIs
<1>4. QED
  BY <1>2, <1>3

\* Bytes with no bit in common are added up.
LEMMA OrDisjoint ==
    ASSUME NEW x \in Byte, NEW y \in Byte, \A k \in 0..7 : Bit(x, k) = 0 \/ Bit(y, k) = 0
    PROVE  Or(x, y) = x + y
<1>0. /\ \A k \in 0..7 : Bit(x, k) = 0 \/ Bit(x, k) = 1
      /\ \A k \in 0..7 : Bit(y, k) = 0 \/ Bit(y, k) = 1
  BY BitOfByte, Zenon
<1>1. \A k \in 0..7 : Either(Bit(x, k), Bit(y, k)) = Bit(x, k) + Bit(y, k)
  BY <1>0, EitherIs
<1>2. \A k \in 0..7 : Bit(x, k) \in Int /\ Bit(y, k) \in Int
  BY <1>0
<1>3. /\ Bit(x, 0) \in Int /\ Bit(x, 1) \in Int /\ Bit(x, 2) \in Int /\ Bit(x, 3) \in Int
      /\ Bit(x, 4) \in Int /\ Bit(x, 5) \in Int /\ Bit(x, 6) \in Int /\ Bit(x, 7) \in Int
      /\ Bit(y, 0) \in Int /\ Bit(y, 1) \in Int /\ Bit(y, 2) \in Int /\ Bit(y, 3) \in Int
      /\ Bit(y, 4) \in Int /\ Bit(y, 5) \in Int /\ Bit(y, 6) \in Int /\ Bit(y, 7) \in Int
  BY <1>2
<1>4. Or(x, y) = Bit(x, 0) + Bit(y, 0) + 2 * (Bit(x, 1) + Bit(y, 1)) + 4 * (Bit(x, 2) + Bit(y, 2))
                   + 8 * (Bit(x, 3) + Bit(y, 3)) + 16 * (Bit(x, 4) + Bit(y, 4))
                   + 32 * (Bit(x, 5) + Bit(y, 5)) + 64 * (Bit(x, 6) + Bit(y, 6))
                   + 128 * (Bit(x, 7) + Bit(y, 7))
  BY <1>1, <1>3, OrIs
<1>5. QED
  BY <1>3, <1>4, BitsOf

\* The masks of the length byte and of UTF-8.
LEMMA OrMask ==
    /\ \A y \in Nat : y < 64 => /\ Or(128, y) = 128 + y /\ Or(192, y) = 192 + y /\ Or(y, 192) = 192 + y
    /\ \A y \in Nat : y < 32 => Or(224, y) = 224 + y
    /\ \A y \in Nat : y < 16 => Or(240, y) = 240 + y
<1>0. \A k \in 0..7 : k = 0 \/ k = 1 \/ k = 2 \/ k = 3 \/ k = 4 \/ k = 5 \/ k = 6 \/ k = 7
  OBVIOUS
<1>1. 128 \in Byte /\ 192 \in Byte /\ 224 \in Byte /\ 240 \in Byte
  BY ByteIs
<1>2. \A k \in 0..5 : Bit(128, k) = 0 /\ Bit(192, k) = 0
  <2>1. \A k \in 0..5 : k = 0 \/ k = 1 \/ k = 2 \/ k = 3 \/ k = 4 \/ k = 5
    OBVIOUS
  <2>2. /\ Bit(128, 0) = 0 /\ Bit(128, 1) = 0 /\ Bit(128, 2) = 0 /\ Bit(128, 3) = 0
        /\ Bit(128, 4) = 0 /\ Bit(128, 5) = 0
    BY BitIs
  <2>3. /\ Bit(192, 0) = 0 /\ Bit(192, 1) = 0 /\ Bit(192, 2) = 0 /\ Bit(192, 3) = 0
        /\ Bit(192, 4) = 0 /\ Bit(192, 5) = 0
    BY BitIs
  <2>4. QED
    BY <2>1, <2>2, <2>3
<1>3. ASSUME NEW y \in Nat, y < 64
      PROVE  Or(128, y) = 128 + y /\ Or(192, y) = 192 + y /\ Or(y, 192) = 192 + y
  <2>0. (y \div 64) % 2 = 0 /\ (y \div 128) % 2 = 0
    BY <1>3
  <2>1. Bit(y, 6) = 0 /\ Bit(y, 7) = 0
    BY <2>0, BitIs, Zenon
  <2>2. y \in Byte
    BY <1>3, ByteIs
  <2>3. \A k \in 0..7 : k \in 0..5 \/ k = 6 \/ k = 7
    OBVIOUS
  <2>4. Or(128, y) = 128 + y
    BY <1>1, <1>2, <2>1, <2>2, <2>3, OrDisjoint
  <2>5. Or(192, y) = 192 + y
    BY <1>1, <1>2, <2>1, <2>2, <2>3, OrDisjoint
  <2>6. Or(y, 192) = y + 192
    BY <1>1, <1>2, <2>1, <2>2, <2>3, OrDisjoint
  <2>7. QED
    BY <2>4, <2>5, <2>6
<1>4. ASSUME NEW y \in Nat, y < 32 PROVE Or(224, y) = 224 + y
  <2>0. (y \div 32) % 2 = 0 /\ (y \div 64) % 2 = 0 /\ (y \div 128) % 2 = 0
    BY <1>4
  <2>1. Bit(y, 5) = 0 /\ Bit(y, 6) = 0 /\ Bit(y, 7) = 0
    BY <2>0, BitIs, Zenon
  <2>2. y \in Byte
    BY <1>4, ByteIs
  <2>3. Bit(224, 0) = 0 /\ Bit(224, 1) = 0 /\ Bit(224, 2) = 0 /\ Bit(224, 3) = 0 /\ Bit(224, 4) = 0
    BY BitIs
  <2>4. QED
    BY <1>0, <1>1, <2>1, <2>2, <2>3, OrDisjoint
<1>5. ASSUME NEW y \in Nat, y < 16 PROVE Or(240, y) = 240 + y
  <2>0. (y \div 16) % 2 = 0 /\ (y \div 32) % 2 = 0 /\ (y \div 64) % 2 = 0 /\ (y \div 128) % 2 = 0
    BY <1>5
  <2>1. Bit(y, 4) = 0 /\ Bit(y, 5) = 0 /\ Bit(y, 6) = 0 /\ Bit(y, 7) = 0
    BY <2>0, BitIs, Zenon
  <2>2. y \in Byte
    BY <1>5, ByteIs
  <2>3. Bit(240, 0) = 0 /\ Bit(240, 1) = 0 /\ Bit(240, 2) = 0 /\ Bit(240, 3) = 0
    BY BitIs
  <2>4. QED
    BY <1>0, <1>1, <2>1, <2>2, <2>3, OrDisjoint
<1>6. QED
  BY <1>3, <1>4, <1>5

-----------------------------------------------------------------------------
(* Words, and their order in memory.                                       *)

IsWord(w) == w \in [1..Width -> Byte]

\* The widths and byte orders of a target.
LEMMA Widths ==
    ASSUME target \in Targets
    PROVE  /\ Width = 4 \/ Width = 8
           /\ Width \in Nat /\ MaxInline \in Nat /\ MaxInline = 2 * Width
           /\ target.endian = "little" \/ target.endian = "big"
           /\ target = [width |-> Width, endian |-> target.endian]
BY HandleAssumption DEF Width, MaxInline

\* The index in memory of byte i of a word.
Place(i) == IF target.endian = "little" THEN i ELSE Width + 1 - i

\* Reversing the byte order twice is no change.
LEMMA PlaceIs ==
    ASSUME target \in Targets, NEW i \in 1..Width
    PROVE  Place(i) \in 1..Width /\ Place(Place(i)) = i
BY Widths DEF Place

\* to_le gives a word in the target's byte order, and is its own inverse.
LEMMA NativeIs ==
    ASSUME target \in Targets, NEW w, IsWord(w)
    PROVE  /\ Native(w) = [i \in 1..Width |-> w[Place(i)]]
           /\ ToLe(w) = Native(w)
           /\ IsWord(Native(w))
           /\ Native(Native(w)) = w
<1>1. w \in [1..Width -> Byte] /\ Width \in Nat
  BY Widths DEF IsWord
<1>2. ASSUME NEW v \in [1..Width -> Byte] PROVE Native(v) = [i \in 1..Width |-> v[Place(i)]]
  <2>1. Len(v) = Width
    BY <1>1, <1>2
  <2>2. Reverse(v) = [i \in 1..Width |-> v[(Width - i) + 1]]
    BY <2>1 DEF Reverse
  <2>3. \A i \in 1..Width : (Width - i) + 1 = Width + 1 - i
    BY <1>1
  <2>4. CASE target.endian = "little"
    BY <2>4 DEF Native, Place
  <2>5. CASE target.endian # "little"
    BY <2>2, <2>3, <2>5 DEF Native, Place
  <2>6. QED
    BY <2>4, <2>5
<1>3. \A i \in 1..Width : Place(i) \in 1..Width /\ Place(Place(i)) = i
  BY PlaceIs
<1>4. Native(w) \in [1..Width -> Byte]
  BY <1>1, <1>2, <1>3
<1>5. Native(Native(w)) = w
  BY <1>1, <1>2, <1>3, <1>4
<1>6. QED
  BY <1>1, <1>2, <1>4, <1>5 DEF IsWord, ToLe, Native

\* The length and the bytes of a part of a text.
LEMMA PartOf ==
    ASSUME NEW s \in Seq(Byte), NEW m \in Nat, NEW n \in Nat, 1 <= m, m <= n + 1, n <= Len(s)
    PROVE  /\ SubSeq(s, m, n) \in Seq(Byte) /\ Len(SubSeq(s, m, n)) = n + 1 - m
           /\ \A i \in 1..n + 1 - m : SubSeq(s, m, n)[i] = s[m + i - 1]
<1>1. SubSeq(s, m, n) = [i \in 1..n - m + 1 |-> s[m + i - 1]]
  OBVIOUS
<1>2. SubSeq(s, m, n) \in Seq(Byte)
  BY <1>1
<1>3. QED
  BY <1>1, <1>2

\* A text is a function on its positions.
LEMMA SeqIs ==
    ASSUME NEW s \in Seq(Byte)
    PROVE  s \in [1..Len(s) -> Byte] /\ Len(s) \in Nat
OBVIOUS

\* The two words of a handle.
FirstWord(b) == SubSeq(b, 1, Width)
SecondWord(b) == SubSeq(b, Width + 1, MaxInline)

Pair(v, w) == v \o w

\* Two words side by side, and each of them read back.
LEMMA TwoWords ==
    ASSUME target \in Targets, NEW v, NEW w, IsWord(v), IsWord(w)
    PROVE  /\ Pair(v, w) \in [1..MaxInline -> Byte]
           /\ \A i \in 1..Width : Pair(v, w)[i] = v[i]
           /\ \A i \in 1..Width : Pair(v, w)[Width + i] = w[i]
           /\ Pair(v, w)[MaxInline] = w[Width]
           /\ FirstWord(Pair(v, w)) = v /\ SecondWord(Pair(v, w)) = w
<1>0. /\ v \in Seq(Byte) /\ w \in Seq(Byte) /\ Len(v) = Width /\ Len(w) = Width
      /\ v \in [1..Width -> Byte] /\ w \in [1..Width -> Byte]
      /\ Width \in Nat /\ MaxInline = 2 * Width /\ Width > 0
  BY Widths DEF IsWord
<1>1. v \o w \in Seq(Byte) /\ Len(v \o w) = MaxInline
  BY <1>0
<1>2. \A i \in 1..Width : (v \o w)[i] = v[i] /\ (v \o w)[Width + i] = w[i]
  BY <1>0
<1>3. FirstWord(v \o w) = v
  BY <1>0, <1>1, <1>2 DEF FirstWord
<1>4. SecondWord(v \o w) = w
  BY <1>0, <1>1, <1>2 DEF SecondWord
<1>5. v \o w \in [1..MaxInline -> Byte]
  BY <1>1, SeqIs
<1>6. Width \in 1..Width /\ Width + Width = MaxInline
  BY <1>0
<1>7. QED
  BY <1>2, <1>3, <1>4, <1>5, <1>6 DEF Pair

\* The two words of a handle are words, with its bytes.
LEMMA WordsOf ==
    ASSUME target \in Targets, NEW b \in [1..MaxInline -> Byte]
    PROVE  /\ IsWord(FirstWord(b)) /\ IsWord(SecondWord(b))
           /\ \A i \in 1..Width : FirstWord(b)[i] = b[i] /\ SecondWord(b)[i] = b[Width + i]
           /\ b \in Seq(Byte) /\ Len(b) = MaxInline
<1>0. /\ b \in Seq(Byte) /\ Len(b) = MaxInline
      /\ Width \in Nat /\ MaxInline = 2 * Width /\ Width > 0
  BY Widths
<1>1. /\ FirstWord(b) \in [1..Width -> Byte]
      /\ \A i \in 1..Width : FirstWord(b)[i] = b[i]
  <2>1. /\ FirstWord(b) \in Seq(Byte) /\ Len(FirstWord(b)) = Width + 1 - 1
        /\ \A i \in 1..Width + 1 - 1 : FirstWord(b)[i] = b[1 + i - 1]
    BY <1>0, PartOf DEF FirstWord
  <2>2. Width + 1 - 1 = Width /\ \A i \in 1..Width : 1 + i - 1 = i
    BY <1>0
  <2>3. QED
    BY <2>1, <2>2, SeqIs
<1>2. /\ SecondWord(b) \in [1..Width -> Byte]
      /\ \A i \in 1..Width : SecondWord(b)[i] = b[Width + i]
  <2>1. /\ SecondWord(b) \in Seq(Byte) /\ Len(SecondWord(b)) = MaxInline + 1 - (Width + 1)
        /\ \A i \in 1..MaxInline + 1 - (Width + 1) : SecondWord(b)[i] = b[Width + 1 + i - 1]
    BY <1>0, PartOf DEF SecondWord
  <2>2. /\ MaxInline + 1 - (Width + 1) = Width
        /\ \A i \in 1..Width : Width + 1 + i - 1 = Width + i
    BY <1>0
  <2>3. QED
    BY <2>1, <2>2, SeqIs
<1>3. QED
  BY <1>0, <1>1, <1>2 DEF IsWord

-----------------------------------------------------------------------------
(* Lengths and their tags.                                                 *)

\* A length word in memory, with a marker as its last byte.
Stamp(len, marker) == [i \in 1..Width |-> IF i = Width THEN marker ELSE len[i]]

\* The markers are bytes.
LEMMA MarkersAre ==
    /\ HeapMarker \in Byte /\ StaticMarker \in Byte /\ 0 \in Byte /\ 255 \in Byte /\ 254 \in Byte
BY ByteIs DEF HeapMarker, StaticMarker

\* A word that is zero but for its last byte.
LEMMA LastAloneIs ==
    ASSUME target \in Targets, NEW b \in Byte
    PROVE  IsWord(LastAlone(b)) /\ \A i \in 1..Width : LastAlone(b)[i] = IF i = Width THEN b ELSE 0
BY MarkersAre DEF LastAlone, IsWord

\* Stamping a marker on a length changes its last byte alone.
LEMMA StampIs ==
    ASSUME target \in Targets, NEW len, IsWord(len), NEW marker \in Byte
    PROVE  /\ IsWord(Stamp(len, marker)) /\ Stamp(len, marker)[Width] = marker
           /\ \A i \in 1..Width : i # Width => Stamp(len, marker)[i] = len[i]
<1>1. Width \in 1..Width
  BY Widths
<1>2. QED
  BY <1>1 DEF Stamp, IsWord

\* A tagged length is, in memory, the length with the marker in its last byte.
LEMMA TaggedIs ==
    ASSUME target \in Targets, NEW len, IsWord(len), len[Width] = 0, NEW marker \in Byte
    PROVE  IsWord(Tagged(len, marker)) /\ Native(Tagged(len, marker)) = Stamp(len, marker)
<1>0. len \in [1..Width -> Byte] /\ 0 \in Byte
  BY MarkersAre DEF IsWord
<1>1. \A i \in 1..Width : Place(i) \in 1..Width /\ Place(Place(i)) = i
  BY PlaceIs
<1>2. /\ ToLe(len) = [i \in 1..Width |-> len[Place(i)]]
      /\ Native(LastAlone(marker)) = [i \in 1..Width |-> LastAlone(marker)[Place(i)]]
  BY LastAloneIs, NativeIs
<1>3. Tagged(len, marker) = [i \in 1..Width |-> Or(len[Place(i)], LastAlone(marker)[Place(i)])]
  BY <1>2 DEF Tagged, OrWord
<1>4. \A i \in 1..Width : Or(len[i], LastAlone(marker)[i]) = Stamp(len, marker)[i]
  <2>1. ASSUME NEW i \in 1..Width PROVE Or(len[i], LastAlone(marker)[i]) = Stamp(len, marker)[i]
    <3>1. CASE i = Width
      BY <3>1, LastAloneIs, OrByte, StampIs
    <3>2. CASE i # Width
      <4>1. LastAlone(marker)[i] = 0
        BY <3>2, LastAloneIs
      <4>2. Stamp(len, marker)[i] = len[i]
        BY <3>2, StampIs
      <4>3. len[i] \in Byte
        BY <1>0
      <4>4. QED
        BY <4>1, <4>2, <4>3, OrByte
    <3>3. QED
      BY <3>1, <3>2
  <2>2. QED
    BY <2>1
<1>5. \A i \in 1..Width : Tagged(len, marker)[i] = Stamp(len, marker)[Place(i)]
  BY <1>1, <1>3, <1>4
<1>6. Stamp(len, marker) \in [1..Width -> Byte]
  BY StampIs DEF IsWord
<1>7. IsWord(Tagged(len, marker))
  <2>1. Tagged(len, marker) = [i \in 1..Width |-> Stamp(len, marker)[Place(i)]]
    BY <1>3, <1>5
  <2>2. QED
    BY <1>1, <1>6, <2>1 DEF IsWord
<1>8. Native(Tagged(len, marker)) = [i \in 1..Width |-> Tagged(len, marker)[Place(i)]]
  BY <1>7, NativeIs
<1>9. \A i \in 1..Width : Tagged(len, marker)[Place(i)] = Stamp(len, marker)[i]
  BY <1>1, <1>5
<1>10. QED
  BY <1>6, <1>7, <1>8, <1>9

\* Taking the tag off gives the length back.
LEMMA UntaggedIs ==
    ASSUME target \in Targets, NEW len, IsWord(len), len[Width] = 0, NEW marker \in Byte
    PROVE  Untagged(Native(Stamp(len, marker)), marker) = len
<1> DEFINE field == Stamp(len, marker)
<1> DEFINE mark == LastAlone(marker)
<1>0. len \in [1..Width -> Byte] /\ 0 \in Byte /\ IsWord(field) /\ IsWord(mark)
  BY MarkersAre, StampIs, LastAloneIs DEF IsWord
<1>1. \A i \in 1..Width : Place(i) \in 1..Width /\ Place(Place(i)) = i
  BY PlaceIs
<1>2. /\ Native(field) = [i \in 1..Width |-> field[Place(i)]]
      /\ Native(mark) = [i \in 1..Width |-> mark[Place(i)]]
  BY <1>0, NativeIs
<1>3. \A i \in 1..Width : Xor(field[i], mark[i]) = len[i]
  <2>1. ASSUME NEW i \in 1..Width PROVE Xor(field[i], mark[i]) = len[i]
    <3>1. CASE i = Width
      BY <3>1, LastAloneIs, XorByte, StampIs
    <3>2. CASE i # Width
      <4>1. mark[i] = 0
        BY <3>2, LastAloneIs
      <4>2. field[i] = len[i]
        BY <3>2, StampIs
      <4>3. len[i] \in Byte
        BY <1>0
      <4>4. QED
        BY <4>1, <4>2, <4>3, XorByte
    <3>3. QED
      BY <3>1, <3>2
  <2>2. QED
    BY <2>1
<1>4. XorWord(Native(field), Native(mark)) = [i \in 1..Width |-> Xor(field[Place(i)], mark[Place(i)])]
  BY <1>2 DEF XorWord
<1>5. XorWord(Native(field), Native(mark)) = [i \in 1..Width |-> len[Place(i)]]
  BY <1>1, <1>3, <1>4
<1>6. Native(len) = [i \in 1..Width |-> len[Place(i)]]
  BY NativeIs
<1>7. Untagged(Native(field), marker) = Native(Native(len))
  BY <1>5, <1>6 DEF Untagged
<1>8. QED
  BY <1>7, NativeIs

\* The bytes of the largest lengths and of the value that says the length is on the heap.
LEMMA LimitsAre ==
    ASSUME target \in Targets
    PROVE  /\ IsWord(AllButLast) /\ IsWord(HeapMaxLen)
           /\ AllButLast[Width] = 0 /\ HeapMaxLen[Width] = 0
           /\ \A i \in 1..Width : i # Width => AllButLast[i] = 255
           /\ \A i \in 1..Width : i # Width /\ i # 1 => HeapMaxLen[i] = 255
           /\ HeapMaxLen[1] = IF Width = 4 THEN 254 ELSE 255
           /\ IsWord(OnTheHeap) /\ IsWord(Native(OnTheHeap))
           /\ Native(OnTheHeap) = [i \in 1..Width |-> IF i = Width THEN HeapMarker ELSE 255]
<1>0. Width \in 1..Width /\ 1 \in 1..Width /\ Width # 1 /\ (Width = 4 \/ Width = 8)
  BY Widths
<1>1. /\ AllButLast \in [1..Width -> Byte]
      /\ \A i \in 1..Width : AllButLast[i] = IF i = Width THEN 0 ELSE 255
  BY MarkersAre DEF AllButLast
<1>2. /\ HeapMaxLen \in [1..Width -> Byte] /\ HeapMaxLen[Width] = 0
      /\ \A i \in 1..Width : i # Width /\ i # 1 => HeapMaxLen[i] = 255
      /\ HeapMaxLen[1] = IF Width = 4 THEN 254 ELSE 255
  BY <1>0, <1>1, MarkersAre DEF HeapMaxLen
<1> DEFINE ones == [i \in 1..Width |-> IF i = Width THEN HeapMarker ELSE 255]
<1>3. ones \in [1..Width -> Byte]
  BY MarkersAre
<1>4. [AllButLast EXCEPT ![Width] = HeapMarker] = ones
  BY <1>1
<1>5. IsWord(ones)
  BY <1>3 DEF IsWord
<1>6. OnTheHeap = Native(ones)
  BY <1>4 DEF OnTheHeap
<1>7. IsWord(OnTheHeap) /\ Native(OnTheHeap) = ones
  BY <1>5, <1>6, NativeIs
<1>8. QED
  BY <1>0, <1>1, <1>2, <1>5, <1>7 DEF IsWord

\* The bytes of a word are numbers up to 255.
LEMMA WordBytes ==
    ASSUME NEW v, IsWord(v), NEW i \in 1..Width
    PROVE  v[i] \in Nat /\ v[i] <= 255
<1>1. v[i] \in Byte
  BY DEF IsWord
<1>2. QED
  BY <1>1, ByteIs

\* The lengths that leave the last byte free are those up to the limits.
LEMMA FitsIs ==
    ASSUME target \in Targets, NEW len, IsWord(len)
    PROVE  /\ ~Exceeds(len, AllButLast) <=> len[Width] = 0
           /\ ~Exceeds(len, HeapMaxLen) => len[Width] = 0
           /\ Width = 8 => (Exceeds(len, HeapMaxLen) <=> Exceeds(len, AllButLast))
           /\ \A m : m = Stamp(len, HeapMarker) /\ ~Exceeds(len, HeapMaxLen) /\ Width = 4
                       => m # Native(OnTheHeap)
<1>0. Width \in 1..Width /\ Width + 1..Width = {} /\ (Width = 4 \/ Width = 8) /\ Width \in Nat
  BY Widths
<1>1. \A i \in 1..Width : len[i] \in Nat /\ len[i] <= 255
  BY WordBytes
<1>2. ASSUME NEW m, m[Width] = 0, ~Exceeds(len, m) PROVE len[Width] = 0
  BY <1>0, <1>1, <1>2 DEF Exceeds
<1>3. ASSUME len[Width] = 0 PROVE ~Exceeds(len, AllButLast)
  <2>1. \A i \in 1..Width : ~(len[i] > AllButLast[i])
    BY <1>1, <1>3, LimitsAre
  <2>2. QED
    BY <2>1 DEF Exceeds
<1>4. Width = 8 => HeapMaxLen = AllButLast
  BY DEF HeapMaxLen
<1>5. ASSUME Width = 4, ~Exceeds(len, HeapMaxLen) PROVE Stamp(len, HeapMarker) # Native(OnTheHeap)
  <2>1. SUFFICES ASSUME Stamp(len, HeapMarker) = Native(OnTheHeap) PROVE FALSE
    OBVIOUS
  <2>2. \A i \in 1..Width : i # Width => len[i] = 255
    <3>1. \A i \in 1..Width : i # Width => Native(OnTheHeap)[i] = 255
      BY LimitsAre
    <3>2. \A i \in 1..Width : i # Width => Stamp(len, HeapMarker)[i] = len[i]
      BY StampIs, MarkersAre
    <3>3. QED
      BY <2>1, <3>1, <3>2
  <2>3. len[Width] = 0
    BY <1>2, <1>5, LimitsAre
  <2>4. HeapMaxLen[1] = 254 /\ 1 \in 1..Width /\ Width # 1
    BY <1>5, LimitsAre
  <2>5. len[1] > HeapMaxLen[1]
    BY <2>2, <2>4
  <2>6. \A j \in 1 + 1..Width : len[j] = HeapMaxLen[j]
    <3>1. \A j \in 1 + 1..Width : j \in 1..Width /\ j # 1
      BY <1>0
    <3>2. QED
      BY <2>2, <2>3, <3>1, LimitsAre
  <2>7. Exceeds(len, HeapMaxLen)
    BY <2>4, <2>5, <2>6 DEF Exceeds
  <2>8. QED
    BY <1>5, <2>7
<1>6. QED
  BY <1>2, <1>3, <1>4, <1>5, LimitsAre

\* A smaller length leaves the last byte free if the larger one does.
LEMMA SmallerFits ==
    ASSUME target \in Targets, NEW len, IsWord(len), NEW l, IsWord(l), l[Width] = 0, Exceeds(l, len)
    PROVE  len[Width] = 0
<1>0. Width \in 1..Width /\ Width \in Nat
  BY Widths
<1>1. PICK i \in 1..Width : l[i] > len[i] /\ \A j \in i + 1..Width : l[j] = len[j]
  BY DEF Exceeds
<1>2. i # Width
  BY <1>0, <1>1, WordBytes
<1>3. Width \in i + 1..Width
  BY <1>0, <1>2
<1>4. QED
  BY <1>1, <1>3

-----------------------------------------------------------------------------
(* Inline texts.                                                           *)

\* The text is at the front of the handle, and a length byte behind it if there is room.
Holds(b, text) ==
    /\ b \in [1..MaxInline -> Byte]
    /\ \A i \in 1..Len(text) : b[i] = text[i]
    /\ Len(text) < MaxInline => b[MaxInline] = 192 + Len(text)

\* The last byte of an inline text shorter than the buffer.
LEMMA LengthByteIs ==
    ASSUME NEW len \in Nat, len <= 16
    PROVE  LengthByte(len) = 192 + len /\ LengthByte(len) \in Byte
<1>1. LengthByte(len) = 192 + len
  BY OrMask DEF LengthByte, LengthMask
<1>2. QED
  BY <1>1, ByteIs

\* EMPTY holds the empty text.
LEMMA EmptyIs ==
    ASSUME target \in Targets
    PROVE  Holds(EmptyBuffer, <<>>)
<1>1. LengthByte(0) = 192 + 0 /\ LengthByte(0) \in Byte
  BY LengthByteIs
<1>2. MaxInline \in 1..MaxInline /\ Len(<<>>) = 0
  BY Widths
<1>3. EmptyBuffer \in [1..MaxInline -> Byte] /\ EmptyBuffer[MaxInline] = 192
  BY <1>1, <1>2, MarkersAre DEF EmptyBuffer
<1>4. QED
  BY <1>2, <1>3 DEF Holds

\* set_len makes an inline buffer hold the text its first bytes are.
LEMMA SetLenIs ==
    ASSUME target \in Targets, NEW text \in Seq(Byte), Len(text) <= MaxInline,
           NEW b \in [1..MaxInline -> Byte], \A i \in 1..Len(text) : b[i] = text[i]
    PROVE  Holds(InlineSetLen(b, Len(text)), text)
<1>0. Len(text) \in Nat /\ MaxInline \in Nat /\ MaxInline <= 16 /\ MaxInline \in 1..MaxInline
  BY Widths
<1>1. CASE Len(text) < MaxInline
  <2>1. LengthByte(Len(text)) = 192 + Len(text) /\ LengthByte(Len(text)) \in Byte
    BY <1>0, LengthByteIs
  <2>2. InlineSetLen(b, Len(text)) = [b EXCEPT ![MaxInline] = LengthByte(Len(text))]
    BY <1>1 DEF InlineSetLen
  <2>3. \A i \in 1..Len(text) : i \in 1..MaxInline /\ i # MaxInline
    BY <1>0, <1>1
  <2>4. QED
    BY <1>0, <2>1, <2>2, <2>3 DEF Holds
<1>2. CASE ~(Len(text) < MaxInline)
  BY <1>2 DEF InlineSetLen, Holds
<1>3. QED
  BY <1>1, <1>2

\* A copy into the buffer writes the bytes it says and no other.
LEMMA PutIs ==
    ASSUME target \in Targets, NEW b \in [1..MaxInline -> Byte], NEW s \in Seq(Byte),
           NEW at \in Nat, at + Len(s) <= MaxInline
    PROVE  /\ Put(b, s, at) \in [1..MaxInline -> Byte]
           /\ \A i \in 1..Len(s) : Put(b, s, at)[at + i] = s[i]
           /\ \A i \in 1..MaxInline : i \notin at + 1..at + Len(s) => Put(b, s, at)[i] = b[i]
<1>0. Len(s) \in Nat /\ MaxInline \in Nat /\ s \in [1..Len(s) -> Byte]
  BY Widths, SeqIs
<1>1. Put(b, s, at) = [i \in 1..MaxInline |-> IF i \in at + 1..at + Len(s) THEN s[i - at] ELSE b[i]]
  BY DEF Put
<1>2. \A i \in at + 1..at + Len(s) : i - at \in 1..Len(s)
  BY <1>0
<1>3. \A i \in 1..Len(s) : at + i \in 1..MaxInline /\ at + i \in at + 1..at + Len(s) /\ at + i - at = i
  BY <1>0
<1>4. Put(b, s, at) \in [1..MaxInline -> Byte]
  BY <1>0, <1>1, <1>2
<1>5. \A i \in 1..Len(s) : Put(b, s, at)[at + i] = s[i]
  BY <1>1, <1>3
<1>6. QED
  BY <1>1, <1>4, <1>5

\* A copy to the front of the buffer; a text that does not fill it spares the last byte.
LEMMA PutFront ==
    ASSUME target \in Targets, NEW b \in [1..MaxInline -> Byte], NEW s \in Seq(Byte), Len(s) <= MaxInline
    PROVE  /\ Put(b, s, 0) \in [1..MaxInline -> Byte]
           /\ \A i \in 1..Len(s) : Put(b, s, 0)[i] = s[i]
           /\ Len(s) < MaxInline => Put(b, s, 0)[MaxInline] = b[MaxInline]
<1>0. Len(s) \in Nat /\ MaxInline \in Nat /\ MaxInline \in 1..MaxInline /\ 0 + Len(s) <= MaxInline
  BY Widths
<1>1. \A i \in 1..Len(s) : 0 + i = i
  BY <1>0
<1>2. Len(s) < MaxInline => MaxInline \notin 0 + 1..0 + Len(s)
  BY <1>0
<1>3. QED
  BY <1>0, <1>1, <1>2, PutIs

\* Copies of n bytes from both ends of a text fill it if they meet.
Ends(b, text, n) ==
    Put(Put(b, SubSeq(text, 1, n), 0), SubSeq(text, Len(text) - n + 1, Len(text)), Len(text) - n)

\* Copying both ends of a text, which may overlap, writes all of it.
LEMMA EndsAre ==
    ASSUME target \in Targets, NEW b \in [1..MaxInline -> Byte], NEW text \in Seq(Byte),
           NEW n \in Nat, n <= Len(text), Len(text) <= 2 * n, Len(text) < MaxInline,
           b[MaxInline] = 192 + Len(text)
    PROVE  Holds(Ends(b, text, n), text)
<1>0. /\ Len(text) \in Nat /\ MaxInline \in Nat /\ MaxInline \in 1..MaxInline
      /\ n <= MaxInline /\ Len(text) - n \in Nat /\ Len(text) - n + 1 \in Nat
  BY Widths
<1> DEFINE first == SubSeq(text, 1, n)
<1> DEFINE last == SubSeq(text, Len(text) - n + 1, Len(text))
<1> DEFINE c == Put(b, first, 0)
<1>1. first \in Seq(Byte) /\ Len(first) = n /\ \A i \in 1..n : first[i] = text[i]
  <2>1. /\ first \in Seq(Byte) /\ Len(first) = n + 1 - 1
        /\ \A i \in 1..n + 1 - 1 : first[i] = text[1 + i - 1]
    BY <1>0, PartOf
  <2>2. n + 1 - 1 = n /\ \A i \in 1..n : 1 + i - 1 = i
    OBVIOUS
  <2>3. QED
    BY <2>1, <2>2
<1>2. last \in Seq(Byte) /\ Len(last) = n /\ \A i \in 1..n : last[i] = text[Len(text) - n + i]
  <2>1. 1 <= Len(text) - n + 1 /\ Len(text) - n + 1 <= Len(text) + 1
    BY <1>0
  <2>2. /\ last \in Seq(Byte) /\ Len(last) = Len(text) + 1 - (Len(text) - n + 1)
        /\ \A i \in 1..Len(text) + 1 - (Len(text) - n + 1) : last[i] = text[Len(text) - n + 1 + i - 1]
    BY <1>0, <2>1, PartOf
  <2>3. /\ Len(text) + 1 - (Len(text) - n + 1) = n
        /\ \A i \in 1..n : Len(text) - n + 1 + i - 1 = Len(text) - n + i
    BY <1>0
  <2>4. QED
    BY <2>2, <2>3
<1>3. /\ c \in [1..MaxInline -> Byte] /\ \A i \in 1..n : c[i] = text[i]
      /\ c[MaxInline] = 192 + Len(text)
  <2>1. Len(first) <= MaxInline /\ Len(first) < MaxInline
    BY <1>0, <1>1
  <2>2. /\ c \in [1..MaxInline -> Byte] /\ \A i \in 1..Len(first) : c[i] = first[i]
        /\ Len(first) < MaxInline => c[MaxInline] = b[MaxInline]
    <3> HIDE DEF first
    <3>1. QED
      BY <1>1, <2>1, PutFront
  <2> HIDE DEF first, c
  <2>3. QED
    BY <1>1, <2>1, <2>2
<1> HIDE DEF first, last, c
<1> DEFINE d == Put(c, last, Len(text) - n)
<1>4. /\ d \in [1..MaxInline -> Byte]
      /\ \A i \in 1..n : d[Len(text) - n + i] = last[i]
      /\ \A i \in 1..MaxInline : i \notin Len(text) - n + 1..Len(text) - n + n => d[i] = c[i]
  <2>1. PICK at \in Nat : at = Len(text) - n
    BY <1>0
  <2>2. at + Len(last) <= MaxInline
    BY <1>0, <1>2, <2>1
  <2>3. /\ Put(c, last, at) \in [1..MaxInline -> Byte]
        /\ \A i \in 1..Len(last) : Put(c, last, at)[at + i] = last[i]
        /\ \A i \in 1..MaxInline : i \notin at + 1..at + Len(last) => Put(c, last, at)[i] = c[i]
    <3>1. last \in Seq(Byte)
      BY <1>2
    <3>2. c \in [1..MaxInline -> Byte]
      BY <1>3
    <3> HIDE DEF d
    <3>3. Put(c, last, at) \in [1..MaxInline -> Byte]
      BY <2>2, <3>1, <3>2, PutIs
    <3>4. ASSUME NEW i \in 1..Len(last) PROVE Put(c, last, at)[at + i] = last[i]
      BY <2>2, <3>1, <3>2, PutIs
    <3>5. ASSUME NEW i \in 1..MaxInline, i \notin at + 1..at + Len(last)
          PROVE  Put(c, last, at)[i] = c[i]
      BY <3>2, <3>5 DEF Put
    <3>6. QED
      BY <3>3, <3>4, <3>5
  <2>4. QED
    BY <1>2, <2>1, <2>3
<1>5. ASSUME NEW i \in 1..Len(text) PROVE d[i] = text[i]
  <2>1. CASE i > Len(text) - n
    <3>1. PICK j \in 1..n : i = Len(text) - n + j
      <4>1. i - (Len(text) - n) \in 1..n /\ i = Len(text) - n + (i - (Len(text) - n))
        BY <1>0, <2>1
      <4>2. QED
        BY <4>1
    <3>2. QED
      BY <1>2, <1>4, <3>1
  <2>2. CASE ~(i > Len(text) - n)
    <3>1. i \in 1..n /\ i \in 1..MaxInline /\ i \notin Len(text) - n + 1..Len(text) - n + n
      BY <1>0, <2>2
    <3>2. QED
      BY <1>3, <1>4, <3>1
  <2>3. QED
    BY <2>1, <2>2
<1>6. d[MaxInline] = 192 + Len(text)
  <2>1. MaxInline \notin Len(text) - n + 1..Len(text) - n + n
    BY <1>0
  <2>2. QED
    BY <1>0, <1>3, <1>4, <2>1
<1>7. Ends(b, text, n) = d
  BY DEF Ends, d, c, first, last
<1>8. QED
  BY <1>4, <1>5, <1>6, <1>7 DEF Holds

\* The cases of a copy, which exclude each other.
IsFull(k, w, m) == k = m /\ k \notin w..m - 1 /\ k \notin 4..w - 1 /\ k \notin 2..3 /\ ~(k <= 1)
IsHalf(k, w, m) ==
    /\ k # m /\ k \in w..m - 1 /\ k \notin 4..w - 1 /\ k \notin 2..3 /\ ~(k <= 1)
    /\ w \in Nat /\ w <= k /\ k <= 2 * w /\ k < m
IsFour(k, w, m) ==
    /\ k # m /\ k \notin w..m - 1 /\ k \in 4..w - 1 /\ k \notin 2..3 /\ ~(k <= 1)
    /\ 4 <= k /\ k <= 2 * 4 /\ k < m
IsTwo(k, w, m) ==
    /\ k # m /\ k \notin w..m - 1 /\ k \notin 4..w - 1 /\ k \in 2..3 /\ ~(k <= 1)
    /\ 2 <= k /\ k <= 2 * 2 /\ k < m
IsTiny(k, w, m) == k # m /\ k \notin w..m - 1 /\ k \notin 4..w - 1 /\ k \notin 2..3 /\ k <= 1

\* Every length is in one of the branches of the copy.
LEMMA LengthCases ==
    ASSUME NEW k \in Nat, NEW w \in {4, 8}, NEW m, m = 2 * w, k <= m
    PROVE  IsFull(k, w, m) \/ IsHalf(k, w, m) \/ IsFour(k, w, m) \/ IsTwo(k, w, m) \/ IsTiny(k, w, m)
<1>1. k = m => IsFull(k, w, m)
  BY DEF IsFull
<1>2. k < m /\ k >= w => IsHalf(k, w, m)
  BY DEF IsHalf
<1>3. k < w /\ k >= 4 => IsFour(k, w, m)
  BY DEF IsFour
<1>4. k < 4 /\ k >= 2 => IsTwo(k, w, m)
  BY DEF IsTwo
<1>5. k < 2 => IsTiny(k, w, m)
  BY DEF IsTiny
<1>6. QED
  BY <1>1, <1>2, <1>3, <1>4, <1>5

\* InlineBuffer::new by copies holds the text.
LEMMA NewCopiesIs ==
    ASSUME target \in Targets, NEW text \in Seq(Byte), Len(text) <= MaxInline
    PROVE  Holds(NewCopies(text), text)
<1> DEFINE empty == [EmptyBuffer EXCEPT ![MaxInline] = LengthByte(Len(text))]
<1>0. /\ Len(text) \in Nat /\ MaxInline \in Nat /\ MaxInline \in 1..MaxInline /\ MaxInline <= 16
      /\ MaxInline = 2 * Width /\ (Width = 4 \/ Width = 8)
  BY Widths
<1>1. LengthByte(Len(text)) = 192 + Len(text) /\ LengthByte(Len(text)) \in Byte
  BY <1>0, LengthByteIs
<1>2. empty \in [1..MaxInline -> Byte] /\ empty[MaxInline] = 192 + Len(text)
  BY <1>0, <1>1, EmptyIs DEF Holds
<1>3. Holds(Put(empty, text, 0), text)
  BY <1>0, <1>2, PutFront DEF Holds
<1>4. NewCopies(text) = CASE Len(text) = MaxInline -> Put(empty, text, 0)
                          [] Len(text) \in Width..MaxInline - 1 -> Ends(empty, text, Width)
                          [] Len(text) \in 4..Width - 1 -> Ends(empty, text, 4)
                          [] Len(text) \in 2..3 -> Ends(empty, text, 2)
                          [] Len(text) <= 1 -> Put(empty, text, 0)
  BY DEF NewCopies, Ends
<1> HIDE DEF empty
<1>5. \/ IsFull(Len(text), Width, MaxInline) \/ IsHalf(Len(text), Width, MaxInline)
      \/ IsFour(Len(text), Width, MaxInline) \/ IsTwo(Len(text), Width, MaxInline)
      \/ IsTiny(Len(text), Width, MaxInline)
  BY <1>0, LengthCases
<1>6. CASE IsFull(Len(text), Width, MaxInline)
  <2>1. NewCopies(text) = Put(empty, text, 0)
    BY <1>4, <1>6, Zenon DEF IsFull
  <2>2. QED
    BY <1>3, <2>1
<1>7. CASE IsHalf(Len(text), Width, MaxInline)
  <2>1. NewCopies(text) = Ends(empty, text, Width)
    BY <1>4, <1>7, Zenon DEF IsHalf
  <2>2. Width \in Nat /\ Width <= Len(text) /\ Len(text) <= 2 * Width /\ Len(text) < MaxInline
    BY <1>7 DEF IsHalf
  <2>3. QED
    BY <1>2, <2>1, <2>2, EndsAre
<1>8. CASE IsFour(Len(text), Width, MaxInline)
  <2>1. NewCopies(text) = Ends(empty, text, 4)
    BY <1>4, <1>8, Zenon DEF IsFour
  <2>2. 4 <= Len(text) /\ Len(text) <= 2 * 4 /\ Len(text) < MaxInline
    BY <1>8 DEF IsFour
  <2>3. QED
    BY <1>2, <2>1, <2>2, EndsAre
<1>9. CASE IsTwo(Len(text), Width, MaxInline)
  <2>1. NewCopies(text) = Ends(empty, text, 2)
    BY <1>4, <1>9, Zenon DEF IsTwo
  <2>2. 2 <= Len(text) /\ Len(text) <= 2 * 2 /\ Len(text) < MaxInline
    BY <1>9 DEF IsTwo
  <2>3. QED
    BY <1>2, <2>1, <2>2, EndsAre
<1>10. CASE IsTiny(Len(text), Width, MaxInline)
  <2>1. NewCopies(text) = Put(empty, text, 0)
    BY <1>4, <1>10, Zenon DEF IsTiny
  <2>2. QED
    BY <1>3, <2>1
<1>11. QED
  BY <1>5, <1>6, <1>7, <1>8, <1>9, <1>10

\* The bytes of a word read from a text, filled up with zeros.
LEMMA WordIs ==
    ASSUME target \in Targets, NEW s \in Seq(Byte)
    PROVE  /\ IsWord(Word(s))
           /\ \A i \in 1..Width : Word(s)[i] = IF i <= Len(s) THEN s[i] ELSE 0
<1>1. \A i \in 1..Width : i <= Len(s) => s[i] \in Byte
  BY Widths
<1>2. QED
  BY <1>1, MarkersAre DEF Word, IsWord

\* n bytes of a text, from an offset on, as a word.
Load(text, at, n) == Word(SubSeq(text, at + 1, at + n))

\* An unaligned load reads the bytes it says.
LEMMA LoadIs ==
    ASSUME target \in Targets, NEW text \in Seq(Byte), NEW at \in Nat, NEW n \in Nat, at + n <= Len(text)
    PROVE  /\ IsWord(Load(text, at, n))
           /\ \A i \in 1..Width : Load(text, at, n)[i] = IF i <= n THEN text[at + i] ELSE 0
<1> DEFINE part == SubSeq(text, at + 1, at + n)
<1>1. /\ part \in Seq(Byte) /\ Len(part) = at + n + 1 - (at + 1)
      /\ \A i \in 1..at + n + 1 - (at + 1) : part[i] = text[at + 1 + i - 1]
  BY PartOf
<1>2. at + n + 1 - (at + 1) = n /\ \A i \in 1..n : at + 1 + i - 1 = at + i
  OBVIOUS
<1>3. part \in Seq(Byte) /\ Len(part) = n /\ \A i \in 1..n : part[i] = text[at + i]
  BY <1>1, <1>2
<1> HIDE DEF part
<1>4. IsWord(Word(part)) /\ \A i \in 1..Width : Word(part)[i] = IF i <= n THEN part[i] ELSE 0
  BY <1>3, WordIs
<1>5. \A i \in 1..Width : i <= n => i \in 1..n
  BY Widths
<1>6. \A i \in 1..Width : Word(part)[i] = IF i <= n THEN text[at + i] ELSE 0
  BY <1>3, <1>4, <1>5
<1>7. QED
  BY <1>4, <1>6 DEF Load, part

\* The length byte, as the last byte of a word.
LEMMA LastByteIs ==
    ASSUME target \in Targets, NEW len \in Nat, len <= 16
    PROVE  /\ IsWord(Shl(Word(<<LengthByte(len)>>), Width - 1))
           /\ \A i \in 1..Width : Shl(Word(<<LengthByte(len)>>), Width - 1)[i]
                                    = IF i = Width THEN 192 + len ELSE 0
<1> DEFINE w == Word(<<LengthByte(len)>>)
<1>1. LengthByte(len) = 192 + len /\ LengthByte(len) \in Byte
  BY LengthByteIs
<1>2. <<LengthByte(len)>> \in Seq(Byte) /\ Len(<<LengthByte(len)>>) = 1 /\ <<LengthByte(len)>>[1] = 192 + len
  BY <1>1
<1>3. IsWord(w) /\ w[1] = 192 + len
  <2>1. 1 \in 1..Width
    BY Widths
  <2>2. PICK s \in Seq(Byte) : s = <<LengthByte(len)>> /\ Len(s) = 1 /\ s[1] = 192 + len
    BY <1>2
  <2>3. IsWord(Word(s)) /\ Word(s)[1] = IF 1 <= Len(s) THEN s[1] ELSE 0
    BY <2>1, WordIs
  <2>4. QED
    BY <2>2, <2>3
<1> HIDE DEF w
<1>4. Shl(w, Width - 1) = [i \in 1..Width |-> IF i = Width THEN 192 + len ELSE 0]
  <2>1. \A i \in 1..Width : i > Width - 1 => i = Width
    BY Widths
  <2>2. \A i \in 1..Width : i = Width => i > Width - 1 /\ i - (Width - 1) = 1
    BY Widths
  <2>3. \A i \in 1..Width : (IF i > Width - 1 THEN w[i - (Width - 1)] ELSE 0)
                              = (IF i = Width THEN 192 + len ELSE 0)
    BY <1>3, <2>1, <2>2
  <2>4. QED
    BY <2>3 DEF Shl
<1>5. 192 + len \in Byte
  BY <1>1
<1>6. IsWord(Shl(w, Width - 1))
  BY <1>4, <1>5, MarkersAre DEF IsWord
<1>7. QED
  BY <1>4, <1>6 DEF w

\* Two loads of n bytes from both ends of a short text, one over the other.
FromEnds(text, n) == OrWord(Load(text, 0, n), Shl(Load(text, Len(text) - n, n), Len(text) - n))

\* The two overlapping loads of a short text give its bytes.
LEMMA FromEndsIs ==
    ASSUME target \in Targets, NEW text \in Seq(Byte), NEW n \in Nat,
           n <= Len(text), Len(text) <= 2 * n, Len(text) <= Width
    PROVE  /\ IsWord(FromEnds(text, n))
           /\ \A i \in 1..Len(text) : FromEnds(text, n)[i] = text[i]
<1>0. Len(text) \in Nat /\ Width \in Nat /\ text \in [1..Len(text) -> Byte]
  BY Widths, SeqIs
<1>1. PICK at \in Nat : at = Len(text) - n
  <2>1. \A k \in Nat : n <= k => k - n \in Nat
    OBVIOUS
  <2>2. QED
    BY <1>0, <2>1, Zenon
<1> DEFINE low == Load(text, 0, n)
<1> DEFINE high == Load(text, at, n)
<1>2. IsWord(low) /\ \A i \in 1..Width : low[i] = IF i <= n THEN text[i] ELSE 0
  <2>1. 0 + n <= Len(text) /\ \A i \in 1..Width : 0 + i = i
    BY <1>0
  <2>2. QED
    BY <2>1, LoadIs
<1>3. IsWord(high) /\ \A i \in 1..Width : high[i] = IF i <= n THEN text[at + i] ELSE 0
  <2>1. at + n <= Len(text)
    BY <1>0, <1>1
  <2>2. QED
    BY <2>1, LoadIs
<1> HIDE DEF low, high
<1>4. \A i \in 1..Width : Shl(high, at)[i] = IF i > at /\ i <= Len(text) THEN text[i] ELSE 0
  <2>1. ASSUME NEW i \in 1..Width PROVE Shl(high, at)[i] = IF i > at /\ i <= Len(text) THEN text[i] ELSE 0
    <3>1. Shl(high, at)[i] = IF i > at THEN high[i - at] ELSE 0
      BY DEF Shl
    <3>2. CASE i > at
      <4>1. i - at \in 1..Width /\ (i - at <= n <=> i <= Len(text)) /\ at + (i - at) = i
        BY <1>0, <1>1, <3>2
      <4>2. high[i - at] = IF i - at <= n THEN text[at + (i - at)] ELSE 0
        BY <1>3, <4>1
      <4>3. QED
        BY <3>1, <3>2, <4>1, <4>2
    <3>3. CASE ~(i > at)
      BY <3>1, <3>3
    <3>4. QED
      BY <3>2, <3>3
  <2>2. QED
    BY <2>1
<1>5. FromEnds(text, n) = [i \in 1..Width |-> Or(low[i], Shl(high, at)[i])]
  BY <1>1 DEF FromEnds, OrWord, low, high
<1>6. ASSUME NEW i \in 1..Width
      PROVE  Or(low[i], Shl(high, at)[i]) \in Byte /\ (i <= Len(text) => Or(low[i], Shl(high, at)[i]) = text[i])
  <2>1. CASE i <= Len(text)
    <3>0. text[i] \in Byte
      BY <1>0, <2>1
    <3>1. /\ low[i] = text[i] \/ low[i] = 0
          /\ Shl(high, at)[i] = text[i] \/ Shl(high, at)[i] = 0
      BY <1>2, <1>4
    <3>2. low[i] = text[i] \/ Shl(high, at)[i] = text[i]
      <4>1. i <= n \/ i > at
        BY <1>0, <1>1
      <4>2. QED
        BY <1>2, <1>4, <2>1, <4>1
    <3>3. QED
      BY <3>0, <3>1, <3>2, OrByte
  <2>2. CASE ~(i <= Len(text))
    <3>1. ~(i <= n)
      BY <1>0, <2>2
    <3>2. low[i] = 0 /\ Shl(high, at)[i] = 0
      BY <1>2, <1>4, <2>2, <3>1
    <3>3. QED
      BY <2>2, <3>2, OrByte, MarkersAre
  <2>3. QED
    BY <2>1, <2>2
<1>7. \A i \in 1..Len(text) : i \in 1..Width /\ i <= Len(text)
  BY <1>0
<1>8. QED
  BY <1>5, <1>6, <1>7 DEF IsWord

\* The two words of InlineBuffer::new with 64 bits.
Word0(text) ==
    CASE Len(text) >= 8 -> Load(text, 0, 8)
      [] Len(text) \in 4..7 -> FromEnds(text, 4)
      [] Len(text) \in 2..3 -> FromEnds(text, 2)
      [] Len(text) <= 1 -> Word(text)

LastWord(text) == Shl(Word(<<LengthByte(Len(text))>>), 7)

Word1(text) ==
    CASE Len(text) = MaxInline -> Load(text, 8, 8)
      [] Len(text) \in 9..15 -> OrWord(Shr(Load(text, Len(text) - 8, 8), MaxInline - Len(text)), LastWord(text))
      [] Len(text) <= 8 -> LastWord(text)

\* The first word built by shifts has the first bytes of the text.
LEMMA Word0Is ==
    ASSUME target \in Targets, Width = 8, NEW text \in Seq(Byte), Len(text) <= MaxInline
    PROVE  IsWord(Word0(text)) /\ \A i \in 1..Width : i <= Len(text) => Word0(text)[i] = text[i]
<1>0. PICK k \in Nat : k = Len(text)
  BY Widths
<1>1. \A i \in 1..Width : 0 + i = i /\ (i <= k => i \in 1..Len(text))
  BY <1>0, Widths
<1>2. CASE k >= 8
  <2>1. /\ k \notin 4..7 /\ k \notin 2..3 /\ ~(k <= 1) /\ 0 + 8 <= k
        /\ \A i \in 1..Width : i <= 8
    BY <1>2, Widths
  <2>2. Word0(text) = Load(text, 0, 8)
    BY <1>0, <1>2, <2>1, Zenon DEF Word0
  <2>3. 0 + 8 <= Len(text)
    BY <1>0, <2>1
  <2>4. /\ IsWord(Load(text, 0, 8))
        /\ \A i \in 1..Width : Load(text, 0, 8)[i] = IF i <= 8 THEN text[0 + i] ELSE 0
    BY <2>3, LoadIs
  <2>5. QED
    BY <1>1, <2>1, <2>2, <2>4
<1>3. CASE k \in 4..7
  <2>1. ~(k >= 8) /\ k \notin 2..3 /\ ~(k <= 1) /\ 4 <= k /\ k <= 2 * 4 /\ k <= Width
    BY <1>3
  <2>2. Word0(text) = FromEnds(text, 4)
    BY <1>0, <1>3, <2>1, Zenon DEF Word0
  <2>3. QED
    BY <1>0, <1>1, <2>1, <2>2, FromEndsIs
<1>4. CASE k \in 2..3
  <2>1. ~(k >= 8) /\ k \notin 4..7 /\ ~(k <= 1) /\ 2 <= k /\ k <= 2 * 2 /\ k <= Width
    BY <1>4
  <2>2. Word0(text) = FromEnds(text, 2)
    BY <1>0, <1>4, <2>1, Zenon DEF Word0
  <2>3. QED
    BY <1>0, <1>1, <2>1, <2>2, FromEndsIs
<1>5. CASE k <= 1
  <2>1. ~(k >= 8) /\ k \notin 4..7 /\ k \notin 2..3
    BY <1>5
  <2>2. Word0(text) = Word(text)
    BY <1>0, <1>5, <2>1, Zenon DEF Word0
  <2>3. QED
    BY <1>0, <2>2, WordIs
<1>6. QED
  BY <1>2, <1>3, <1>4, <1>5

\* The second word built by shifts has the rest of the text and the length.
LEMMA Word1Is ==
    ASSUME target \in Targets, Width = 8, NEW text \in Seq(Byte), Len(text) <= MaxInline
    PROVE  /\ IsWord(Word1(text))
           /\ \A i \in 1..Width : 8 + i <= Len(text) => Word1(text)[i] = text[8 + i]
           /\ Len(text) < MaxInline => Word1(text)[Width] = 192 + Len(text)
<1>0. PICK k \in Nat : k = Len(text)
  BY Widths
<1>1. MaxInline = 16 /\ Width \in 1..Width /\ k <= 16 /\ 7 = Width - 1
  BY <1>0, Widths
<1>2. IsWord(LastWord(text)) /\ \A i \in 1..Width : LastWord(text)[i] = IF i = Width THEN 192 + k ELSE 0
  BY <1>0, <1>1, LastByteIs DEF LastWord
<1>3. CASE k = 16
  <2>1. k \notin 9..15 /\ ~(k <= 8) /\ ~(k < 16) /\ 8 + 8 <= k /\ \A i \in 1..Width : i <= 8
    BY <1>3
  <2>2. Word1(text) = Load(text, 8, 8)
    BY <1>0, <1>1, <1>3, <2>1, Zenon DEF Word1
  <2>3. IsWord(Word1(text)) /\ \A i \in 1..Width : Word1(text)[i] = text[8 + i]
    <3>1. 8 + 8 <= Len(text)
      BY <1>0, <2>1
    <3>2. /\ IsWord(Load(text, 8, 8))
          /\ \A i \in 1..Width : Load(text, 8, 8)[i] = IF i <= 8 THEN text[8 + i] ELSE 0
      BY <3>1, LoadIs
    <3>3. QED
      BY <2>1, <2>2, <3>2
  <2>4. QED
    BY <1>0, <1>1, <2>1, <2>3
<1>4. CASE k <= 8
  <2>1. k # 16 /\ k \notin 9..15 /\ \A i \in 1..Width : ~(8 + i <= k)
    BY <1>4
  <2>2. Word1(text) = LastWord(text)
    BY <1>0, <1>1, <1>4, <2>1, Zenon DEF Word1
  <2>3. QED
    BY <1>0, <1>1, <1>2, <2>1, <2>2
<1>5. CASE k \in 9..15
  <2>0. k # 16 /\ ~(k <= 8)
    BY <1>5
  <2>1. PICK at \in Nat : at = k - 8
    BY <1>5
  <2>2. PICK by \in Nat : by = 16 - k
    BY <1>5
  <2> DEFINE tail == Load(text, at, 8)
  <2>3. Word1(text) = OrWord(Shr(tail, by), LastWord(text))
    BY <1>0, <1>1, <1>5, <2>0, <2>1, <2>2, Zenon DEF Word1
  <2>4. IsWord(tail) /\ \A i \in 1..Width : tail[i] = text[at + i]
    <3>1. at + 8 <= k /\ \A i \in 1..Width : i <= 8
      BY <1>5, <2>1
    <3>2. QED
      BY <1>0, <3>1, LoadIs
  <2> HIDE DEF tail
  <2>5. \A i \in 1..Width : Shr(tail, by)[i] = IF 8 + i <= k THEN text[8 + i] ELSE 0
    <3>1. ASSUME NEW i \in 1..Width PROVE Shr(tail, by)[i] = IF 8 + i <= k THEN text[8 + i] ELSE 0
      <4>1. Shr(tail, by)[i] = IF i + by <= Width THEN tail[i + by] ELSE 0
        BY DEF Shr
      <4>2. i + by <= Width <=> 8 + i <= k
        BY <1>5, <2>2
      <4>3. CASE 8 + i <= k
        <5>1. i + by \in 1..Width /\ at + (i + by) = 8 + i
          BY <1>5, <2>1, <2>2, <4>3
        <5>2. QED
          BY <2>4, <4>1, <4>2, <4>3, <5>1
      <4>4. CASE ~(8 + i <= k)
        BY <4>1, <4>2, <4>4
      <4>5. QED
        BY <4>3, <4>4
    <3>2. QED
      BY <3>1
  <2>6. Word1(text) = [i \in 1..Width |-> Or(Shr(tail, by)[i], LastWord(text)[i])]
    BY <2>3 DEF OrWord
  <2>7. ASSUME NEW i \in 1..Width
        PROVE  /\ Or(Shr(tail, by)[i], LastWord(text)[i]) \in Byte
               /\ 8 + i <= k => Or(Shr(tail, by)[i], LastWord(text)[i]) = text[8 + i]
               /\ i = Width => Or(Shr(tail, by)[i], LastWord(text)[i]) = 192 + k
    <3>1. CASE i = Width
      <4>1. ~(8 + i <= k)
        BY <1>5, <3>1
      <4>2. Shr(tail, by)[i] = 0 /\ LastWord(text)[i] = 192 + k
        BY <1>2, <2>5, <3>1, <4>1
      <4>3. 192 + k \in Byte
        BY <1>1, ByteIs
      <4>4. QED
        BY <4>1, <4>2, <4>3, OrByte
    <3>2. CASE i # Width
      <4>1. LastWord(text)[i] = 0
        BY <1>2, <3>2
      <4>2. 8 + i <= k => text[8 + i] \in Byte
        BY <1>0
      <4>3. Shr(tail, by)[i] \in Byte
        <5>1. Shr(tail, by)[i] = IF 8 + i <= k THEN text[8 + i] ELSE 0
          BY <2>5
        <5>2. QED
          BY <4>2, <5>1, MarkersAre
      <4>4. QED
        BY <2>5, <3>2, <4>1, <4>3, OrByte
    <3>3. QED
      BY <3>1, <3>2
  <2>8. QED
    BY <1>0, <1>1, <2>6, <2>7 DEF IsWord
<1>6. QED
  BY <1>1, <1>3, <1>4, <1>5

\* Either way, InlineBuffer::new puts the text in place.
LEMMA NewInlineIs ==
    ASSUME target \in Targets, NEW text \in Seq(Byte), Len(text) <= MaxInline
    PROVE  Holds(NewInline(text), text)
<1>1. CASE target = [width |-> 8, endian |-> "little"]
  <2>0. Width = 8 /\ target.endian = "little" /\ Len(text) \in Nat
    BY <1>1 DEF Width
  <2>1. NewWords(text) = Native(Word0(text)) \o Native(Word1(text))
    BY DEF NewWords, Word0, Word1, FromEnds, Load, LastWord
  <2>2. NewInline(text) = Pair(Word0(text), Word1(text))
    BY <1>1, <2>0, <2>1 DEF NewInline, Native, Pair
  <2> DEFINE b == Pair(Word0(text), Word1(text))
  <2>3. /\ b \in [1..MaxInline -> Byte] /\ b[MaxInline] = Word1(text)[Width]
        /\ \A i \in 1..Width : b[i] = Word0(text)[i] /\ b[Width + i] = Word1(text)[i]
    <3>1. IsWord(Word0(text)) /\ IsWord(Word1(text))
      BY <2>0, Word0Is, Word1Is
    <3>2. QED
      BY <3>1, TwoWords
  <2> HIDE DEF b
  <2>4. ASSUME NEW i \in 1..Len(text) PROVE b[i] = text[i]
    <3>0. PICK k \in Nat : k = Len(text)
      BY <2>0
    <3>1. i \in 1..k /\ k <= 16
      BY <2>0, <3>0, Widths
    <3>2. CASE i <= 8
      <4>1. i \in 1..Width /\ i <= k
        BY <2>0, <3>1, <3>2
      <4>2. QED
        BY <2>0, <2>3, <3>0, <4>1, Word0Is
    <3>3. CASE i > 8
      <4>1. PICK j \in 1..Width : i = 8 + j
        <5>1. i - 8 \in 1..Width /\ i = 8 + (i - 8)
          BY <2>0, <3>1, <3>3
        <5>2. QED
          BY <5>1
      <4>2. 8 + j <= Len(text)
        BY <3>0, <3>1, <4>1
      <4>3. Word1(text)[j] = text[8 + j]
        BY <2>0, <4>2, Word1Is
      <4>4. QED
        BY <2>0, <2>3, <4>1, <4>3
    <3>4. QED
      BY <3>1, <3>2, <3>3
  <2>5. Len(text) < MaxInline => b[MaxInline] = 192 + Len(text)
    BY <2>0, <2>3, Word1Is
  <2>6. QED
    BY <2>2, <2>3, <2>4, <2>5 DEF Holds, b
<1>2. CASE target # [width |-> 8, endian |-> "little"]
  BY <1>2, NewCopiesIs DEF NewInline
<1>3. QED
  BY <1>1, <1>2

-----------------------------------------------------------------------------
(* Characters.                                                             *)

\* What from_char computes for a code point.
CharBytes(code) ==
    CASE code < 128 -> <<code>>
      [] 128 <= code /\ code < 2048 -> <<Or(192, code \div 64), Or(128, code % 64)>>
      [] 2048 <= code /\ code < 65536 ->
            <<Or(224, code \div 4096), Or(128, (code \div 64) % 64), Or(128, code % 64)>>
      [] 65536 <= code ->
            <<Or(240, code \div 262144), Or(128, (code \div 4096) % 64),
              Or(128, (code \div 64) % 64), Or(128, code % 64)>>

\* It is the UTF-8 encoding: one to four bytes, the last of which is ASCII or trailing.
LEMMA CharBytesAre ==
    ASSUME NEW code \in CodePoint
    PROVE  /\ CharBytes(code) = Encoded(code)
           /\ Encoded(code) \in Seq(Byte) /\ Len(Encoded(code)) \in 1..4
           /\ Encoded(code)[Len(Encoded(code))] < 192
<1>0. code \in Nat /\ code < 1114112
  BY SMT DEF CodePoint
<1>1. \A n \in Nat : /\ n % 64 \in Nat /\ n % 64 < 64
                     /\ Or(128, n % 64) = 128 + (n % 64)
                     /\ 128 + (n % 64) \in Byte /\ 128 + (n % 64) < 192
  <2>1. \A n \in Nat : n % 64 \in Nat /\ n % 64 < 64
    BY SMT
  <2>2. \A k \in Nat : k < 64 => 128 + k \in Byte /\ 128 + k < 192
    BY ByteIs, SMT
  <2>3. QED
    BY <2>1, <2>2, OrMask, SMT
<1>2. CASE code < 128
  <2>1. ~(128 <= code /\ code < 2048) /\ ~(2048 <= code /\ code < 65536) /\ ~(65536 <= code)
    BY <1>0, <1>2, SMT
  <2>2. CharBytes(code) = <<code>> /\ Encoded(code) = <<code>>
    BY <1>2, <2>1, SMT DEF CharBytes, Encoded
  <2>3. code \in Byte /\ code < 192
    BY <1>0, <1>2, ByteIs, SMT
  <2>4. QED
    BY <2>2, <2>3, SMT
<1>3. CASE 128 <= code /\ code < 2048
  <2>1. ~(code < 128) /\ ~(2048 <= code /\ code < 65536) /\ ~(65536 <= code)
    BY <1>0, <1>3, SMT
  <2>2. code \div 64 \in Nat /\ code \div 64 < 32
    BY <1>0, <1>3, SMT
  <2>3. Or(192, code \div 64) = 192 + code \div 64 /\ 192 + code \div 64 \in Byte
    BY <2>2, OrMask, ByteIs, SMT
  <2>4. CharBytes(code) = <<Or(192, code \div 64), Or(128, code % 64)>>
    BY <1>3, <2>1, SMT DEF CharBytes
  <2>5. Encoded(code) = <<192 + code \div 64, 128 + (code % 64)>>
    BY <1>3, <2>1, SMT DEF Encoded
  <2>6. QED
    BY <1>0, <1>1, <2>3, <2>4, <2>5, SMT
<1>4. CASE 2048 <= code /\ code < 65536
  <2>1. ~(code < 128) /\ ~(128 <= code /\ code < 2048) /\ ~(65536 <= code)
    BY <1>0, <1>4, SMT
  <2>2. code \div 4096 \in Nat /\ code \div 4096 < 16 /\ code \div 64 \in Nat
    BY <1>0, <1>4, SMT
  <2>3. Or(224, code \div 4096) = 224 + code \div 4096 /\ 224 + code \div 4096 \in Byte
    BY <2>2, OrMask, ByteIs, SMT
  <2>4. CharBytes(code) = <<Or(224, code \div 4096), Or(128, (code \div 64) % 64), Or(128, code % 64)>>
    BY <1>4, <2>1, SMT DEF CharBytes
  <2>5. Encoded(code) = <<224 + code \div 4096, 128 + ((code \div 64) % 64), 128 + (code % 64)>>
    BY <1>4, <2>1, SMT DEF Encoded
  <2>6. QED
    BY <1>0, <1>1, <2>2, <2>3, <2>4, <2>5, SMT
<1>5. CASE 65536 <= code
  <2>1. ~(code < 128) /\ ~(128 <= code /\ code < 2048) /\ ~(2048 <= code /\ code < 65536)
    BY <1>0, <1>5, SMT
  <2>2. code \div 262144 \in Nat /\ code \div 262144 < 8 /\ code \div 64 \in Nat /\ code \div 4096 \in Nat
    BY <1>0, <1>5, SMT
  <2>3. Or(240, code \div 262144) = 240 + code \div 262144 /\ 240 + code \div 262144 \in Byte
    BY <2>2, OrMask, ByteIs, SMT
  <2>4. CharBytes(code) = <<Or(240, code \div 262144), Or(128, (code \div 4096) % 64),
                            Or(128, (code \div 64) % 64), Or(128, code % 64)>>
    BY <1>5, <2>1, SMT DEF CharBytes
  <2>5. Encoded(code) = <<240 + code \div 262144, 128 + ((code \div 4096) % 64),
                          128 + ((code \div 64) % 64), 128 + (code % 64)>>
    BY <1>5, <2>1, SMT DEF Encoded
  <2>6. QED
    BY <1>0, <1>1, <2>2, <2>3, <2>4, <2>5, SMT
<1>6. QED
  BY <1>0, <1>2, <1>3, <1>4, <1>5, SMT

\* InlineBuffer::from_char puts the encoding in place.
LEMMA FromCharIs ==
    ASSUME target \in Targets, NEW code \in CodePoint
    PROVE  Holds(FromCharBits(code), Encoded(code))
<1> DEFINE text == Encoded(code)
<1> DEFINE u == Word(text)
<1> DEFINE t == Shl(Word(<<LengthByte(Len(text))>>), Width - 1)
<1>1. CharBytes(code) = text /\ text \in Seq(Byte) /\ Len(text) \in 1..4
  BY CharBytesAre
<1>2. FromCharBits(code) = Native(ToLe(u)) \o Native(ToLe(t))
  <2>1. code \in Nat
    BY SMT DEF CodePoint
  <2>2. /\ (code \div <<1, 64, 4096>>[0 + 1]) % 64 = code % 64
        /\ (code \div <<1, 64, 4096>>[1 + 1]) % 64 = (code \div 64) % 64
        /\ (code \div <<1, 64, 4096>>[2 + 1]) % 64 = (code \div 4096) % 64
    BY <2>1, SMT
  <2> DEFINE bytes == CharBytes(code)
  <2>3. FromCharBits(code) = Native(ToLe(Word(bytes)))
                               \o Native(ToLe(Shl(Word(<<LengthByte(Len(bytes))>>), Width - 1)))
    BY <2>2, SMT DEF FromCharBits, CharBytes
  <2>4. QED
    BY <1>1, <2>3, SMT
<1> HIDE DEF text
<1>3. PICK k \in 1..4 : k = Len(text)
  BY <1>1
<1>4. IsWord(u) /\ \A i \in 1..Width : u[i] = IF i <= k THEN text[i] ELSE 0
  BY <1>1, <1>3, WordIs
<1>5. IsWord(t) /\ t[Width] = 192 + k
  <2>1. k \in Nat /\ k <= 16 /\ Width \in 1..Width
    BY <1>3, Widths
  <2>2. QED
    BY <1>3, <2>1, LastByteIs
<1>6. PICK v, w : v = u /\ w = t /\ IsWord(v) /\ IsWord(w)
  BY <1>4, <1>5
<1>7. FromCharBits(code) = Pair(v, w)
  <2>1. Native(ToLe(v)) = v /\ Native(ToLe(w)) = w
    BY <1>6, NativeIs
  <2>2. QED
    BY <1>2, <1>6, <2>1 DEF Pair
<1>8. Pair(v, w) \in [1..MaxInline -> Byte] /\ Pair(v, w)[MaxInline] = 192 + k
  BY <1>5, <1>6, TwoWords
<1>9. ASSUME NEW i \in 1..Len(text) PROVE Pair(v, w)[i] = text[i]
  <2>1. i \in 1..Width /\ i <= k
    BY <1>3, Widths
  <2>2. QED
    BY <1>4, <1>6, <2>1, TwoWords
<1>10. QED
  BY <1>3, <1>7, <1>8, <1>9 DEF Holds, text

-----------------------------------------------------------------------------
(* What is stored in the bytes of a handle, and what is read from them.    *)

\* A full inline text ends in an ASCII or a trailing byte, which is no length byte.
InlineStored(b, text) ==
    /\ Holds(b, text)
    /\ text \in Seq(Byte) /\ Len(text) <= MaxInline
    /\ Len(text) = MaxInline => text[MaxInline] < 192

StaticStored(b, p, len) ==
    /\ b \in [1..MaxInline -> Byte] /\ IsWord(p) /\ IsWord(len)
    /\ FirstWord(b) = Native(p) /\ SecondWord(b) = Stamp(len, StaticMarker) /\ len[Width] = 0

\* A length that does not fit is in the length word of the block.
HeapStored(b, w, p, len) ==
    /\ b \in [1..MaxInline -> Byte] /\ IsWord(p) /\ IsWord(len)
    /\ FirstWord(b) = Native(p)
    /\ \/ ~Exceeds(len, HeapMaxLen) /\ SecondWord(b) = Stamp(len, HeapMarker)
       \/ Exceeds(len, HeapMaxLen) /\ Width = 4 /\ SecondWord(b) = Native(OnTheHeap) /\ w = len

\* The smaller of two numbers.
LEMMA MinIs ==
    ASSUME NEW m \in Nat, NEW n \in Nat, m <= n
    PROVE  Min({m, n}) = m
BY DEF Min

\* An inline handle is read back as its text.
LEMMA ReadInline ==
    ASSUME target \in Targets, NEW b, NEW w, NEW text, InlineStored(b, text)
    PROVE  /\ KindOf(b) = "inline" /\ AsBytes(b, w) = text /\ LastByteOf(b) \in LastByte
           /\ LenOf(b, w)[1] = Len(text)
<1>0. /\ text \in Seq(Byte) /\ b \in [1..MaxInline -> Byte] /\ \A i \in 1..Len(text) : b[i] = text[i]
      /\ Len(text) < MaxInline => b[MaxInline] = 192 + Len(text)
      /\ Len(text) = MaxInline => text[MaxInline] < 192
      /\ Len(text) <= MaxInline
  BY DEF InlineStored, Holds
<1>1. PICK k \in Nat : k = Len(text)
  BY <1>0
<1>2. MaxInline \in Nat /\ MaxInline <= 16 /\ MaxInline \in 1..MaxInline /\ 1 \in 1..Width
  BY Widths
<1>3. PICK x \in Nat : x = b[MaxInline] /\ x <= 255
  BY <1>0, <1>2, ByteIs
<1>4. \/ k < MaxInline /\ x = 192 + k
      \/ k = MaxInline /\ x < 192
  <2>1. k < MaxInline \/ k = MaxInline
    BY <1>0, <1>1, <1>2
  <2>2. CASE k < MaxInline
    BY <1>0, <1>1, <1>3, <2>2
  <2>3. CASE k = MaxInline
    <3>1. MaxInline \in 1..Len(text)
      BY <1>1, <1>2, <2>3
    <3>2. x = text[MaxInline] /\ text[MaxInline] < 192
      BY <1>0, <1>1, <1>3, <2>3, <3>1
    <3>3. QED
      BY <2>3, <3>2
  <2>4. QED
    BY <2>1, <2>2, <2>3
<1>5. x < 208 /\ x # 208 /\ x # 209 /\ ~(x >= 208)
  BY <1>2, <1>4
<1>6. LastByteOf(b) = x
  BY <1>3 DEF LastByteOf
<1>7. KindOf(b) = "inline"
  BY <1>5, <1>6 DEF KindOf, IsHeapBuffer, IsStaticBuffer, IsInlineBuffer, HeapMarker, StaticMarker
<1>8. InlineLen(b) = k
  <2>1. CASE k < MaxInline /\ x = 192 + k
    <3>1. ~(x < 192) /\ x - 192 = k
      BY <2>1
    <3>2. Min({k, MaxInline}) = k
      BY <1>2, <2>1, MinIs
    <3>3. QED
      BY <1>6, <3>1, <3>2 DEF InlineLen, LengthMask
  <2>2. CASE k = MaxInline /\ x < 192
    BY <1>6, <2>2 DEF InlineLen, LengthMask
  <2>3. QED
    BY <1>4, <2>1, <2>2
<1>9. LenOf(b, w) = Word(<<k>>)
  <2>1. CASE Width = 8
    BY <1>5, <1>6, <1>8, <2>1 DEF LenOf, HeapMarker
  <2>2. CASE Width # 8
    BY <1>5, <1>6, <1>8, <2>2 DEF LenOf, IsHeapBuffer, IsStaticBuffer, IsInlineBuffer, HeapMarker, StaticMarker
  <2>3. QED
    BY <2>1, <2>2
<1>10. LenOf(b, w)[1] = k
  BY <1>2, <1>9 DEF Word
<1>11. SubSeq(b, 1, k) = text
  <2>1. b \in Seq(Byte) /\ Len(b) = MaxInline
    BY <1>0, <1>2
  <2>2. k <= Len(b) /\ 1 <= k + 1
    BY <1>0, <1>1, <2>1
  <2>3. /\ SubSeq(b, 1, k) \in Seq(Byte) /\ Len(SubSeq(b, 1, k)) = k + 1 - 1
        /\ \A i \in 1..k + 1 - 1 : SubSeq(b, 1, k)[i] = b[1 + i - 1]
    BY <2>1, <2>2, PartOf
  <2>4. k + 1 - 1 = k /\ \A i \in 1..k : 1 + i - 1 = i
    OBVIOUS
  <2>5. Len(SubSeq(b, 1, k)) = Len(text) /\ \A i \in 1..Len(text) : SubSeq(b, 1, k)[i] = text[i]
    BY <1>0, <1>1, <2>3, <2>4
  <2>6. QED
    BY <1>0, <2>3, <2>5, SeqIs
<1>12. AsBytes(b, w) = text
  BY <1>5, <1>6, <1>10, <1>11 DEF AsBytes, HeapMarker
<1>13. LastByteOf(b) \in LastByte
  BY <1>5, <1>6 DEF LastByte
<1>14. QED
  BY <1>1, <1>7, <1>10, <1>12, <1>13

\* A static handle is read back as its pointer and length.
LEMMA ReadStatic ==
    ASSUME target \in Targets, NEW b, NEW w, NEW p, NEW len, StaticStored(b, p, len)
    PROVE  /\ KindOf(b) = "static" /\ AsBytes(b, w) = [at |-> p, len |-> len]
           /\ LastByteOf(b) \in LastByte
<1>0. /\ b \in [1..MaxInline -> Byte] /\ IsWord(p) /\ IsWord(len)
      /\ FirstWord(b) = Native(p) /\ SecondWord(b) = Stamp(len, StaticMarker) /\ len[Width] = 0
  BY DEF StaticStored
<1>1. LastByteOf(b) = 209
  <2>1. Width \in 1..Width /\ Width + Width = MaxInline
    BY Widths
  <2>2. SecondWord(b)[Width] = b[Width + Width]
    BY <1>0, <2>1, WordsOf
  <2>3. Stamp(len, StaticMarker)[Width] = StaticMarker
    <3>1. StaticMarker \in Byte
      BY MarkersAre
    <3>2. QED
      BY <1>0, <3>1, StampIs
  <2>4. QED
    BY <1>0, <2>1, <2>2, <2>3 DEF LastByteOf, StaticMarker
<1>2. KindOf(b) = "static"
  BY <1>1 DEF KindOf, IsHeapBuffer, IsStaticBuffer, IsInlineBuffer, HeapMarker, StaticMarker
<1>3. LenOf(b, w) = len
  <2>1. CASE Width = 8
    <3>1. LenOf(b, w) = [TailWord(b) EXCEPT ![Width] = 0]
      BY <1>1, <2>1 DEF LenOf, HeapMarker
    <3>2. TailWord(b) = SecondWord(b)
      <4>1. IsWord(SecondWord(b)) /\ IsWord(Native(SecondWord(b)))
        BY <1>0, WordsOf, NativeIs
      <4>2. ToLe(Native(SecondWord(b))) = SecondWord(b)
        BY <4>1, NativeIs
      <4>3. QED
        BY <4>2 DEF TailWord, SecondWord
    <3>3. [Stamp(len, StaticMarker) EXCEPT ![Width] = 0] = len
      BY <1>0 DEF Stamp, IsWord
    <3>4. QED
      BY <1>0, <3>1, <3>2, <3>3
  <2>2. CASE Width # 8
    <3>1. LenOf(b, w) = Untagged(LenField(b), StaticMarker)
      BY <1>1, <2>2 DEF LenOf, IsHeapBuffer, IsStaticBuffer, IsInlineBuffer, HeapMarker, StaticMarker
    <3>2. LenField(b) = Native(Stamp(len, StaticMarker))
      BY <1>0 DEF LenField, SecondWord
    <3>3. QED
      BY <1>0, <3>1, <3>2, UntaggedIs, MarkersAre
  <2>3. QED
    BY <2>1, <2>2
<1>4. AsBytes(b, w) = [at |-> p, len |-> len]
  <2>1. AsBytes(b, w) = [at |-> Native(FirstWord(b)), len |-> LenOf(b, w)]
    BY <1>1 DEF AsBytes, HeapMarker, FirstWord
  <2>2. Native(Native(p)) = p
    BY <1>0, NativeIs
  <2>3. QED
    BY <1>0, <1>3, <2>1, <2>2
<1>5. LastByteOf(b) \in LastByte
  BY <1>1 DEF LastByte, StaticMarker
<1>6. QED
  BY <1>2, <1>4, <1>5

\* A heap handle is read back as its pointer and its length, from wherever that is.
LEMMA ReadHeap ==
    ASSUME target \in Targets, NEW b, NEW w, NEW p, NEW len, HeapStored(b, w, p, len)
    PROVE  /\ KindOf(b) = "heap" /\ AsBytes(b, w) = [at |-> p, len |-> len]
           /\ LastByteOf(b) \in LastByte
<1>0. /\ b \in [1..MaxInline -> Byte] /\ IsWord(p) /\ IsWord(len) /\ FirstWord(b) = Native(p)
      /\ \/ ~Exceeds(len, HeapMaxLen) /\ SecondWord(b) = Stamp(len, HeapMarker)
         \/ Exceeds(len, HeapMaxLen) /\ Width = 4 /\ SecondWord(b) = Native(OnTheHeap) /\ w = len
  BY DEF HeapStored
<1>1. LastByteOf(b) = 208
  <2>1. Width \in 1..Width /\ Width + Width = MaxInline
    BY Widths
  <2>2. SecondWord(b)[Width] = b[Width + Width]
    BY <1>0, <2>1, WordsOf
  <2>3. Stamp(len, HeapMarker)[Width] = HeapMarker
    <3>1. HeapMarker \in Byte
      BY MarkersAre
    <3>2. QED
      BY <1>0, <3>1, StampIs
  <2>4. Native(OnTheHeap)[Width] = HeapMarker
    BY <2>1, LimitsAre
  <2>5. QED
    BY <1>0, <2>1, <2>2, <2>3, <2>4 DEF LastByteOf, HeapMarker
<1>2. KindOf(b) = "heap"
  BY <1>1 DEF KindOf, IsHeapBuffer, IsStaticBuffer, IsInlineBuffer, HeapMarker, StaticMarker
<1>3. IsWord(SecondWord(b)) /\ LenField(b) = Native(SecondWord(b))
  BY <1>0, WordsOf DEF LenField, SecondWord
<1>4. LenOf(b, w) = len
  <2>1. CASE Width = 8
    <3>0. ~Exceeds(len, HeapMaxLen) /\ SecondWord(b) = Stamp(len, HeapMarker) /\ len[Width] = 0
      BY <1>0, <2>1, FitsIs
    <3>1. LenOf(b, w) = [TailWord(b) EXCEPT ![Width] = 0]
      BY <1>1, <2>1 DEF LenOf, HeapMarker
    <3>2. TailWord(b) = SecondWord(b)
      <4>1. IsWord(Native(SecondWord(b)))
        BY <1>3, NativeIs
      <4>2. ToLe(Native(SecondWord(b))) = SecondWord(b)
        BY <1>3, <4>1, NativeIs
      <4>3. QED
        BY <4>2 DEF TailWord, SecondWord
    <3>3. [Stamp(len, HeapMarker) EXCEPT ![Width] = 0] = len
      BY <1>0, <3>0 DEF Stamp, IsWord
    <3>4. QED
      BY <3>0, <3>1, <3>2, <3>3
  <2>2. CASE Width # 8
    <3>0. Width = 4
      BY <2>2, Widths
    <3>1. LenOf(b, w) = HeapBufferLen(b, w)
      BY <1>1, <2>2 DEF LenOf, IsHeapBuffer, IsStaticBuffer, IsInlineBuffer, HeapMarker, StaticMarker
    <3>2. CASE ~Exceeds(len, HeapMaxLen) /\ SecondWord(b) = Stamp(len, HeapMarker)
      <4>1. SecondWord(b) # Native(OnTheHeap)
        BY <1>0, <3>0, <3>2, FitsIs
      <4>2. LenField(b) # OnTheHeap
        BY <1>3, <4>1, NativeIs
      <4>3. HeapBufferLen(b, w) = Untagged(LenField(b), HeapMarker)
        BY <4>2 DEF HeapBufferLen
      <4>4. len[Width] = 0
        BY <1>0, <3>2, FitsIs
      <4>5. QED
        BY <1>0, <1>3, <3>1, <3>2, <4>3, <4>4, UntaggedIs, MarkersAre
    <3>3. CASE Exceeds(len, HeapMaxLen) /\ Width = 4 /\ SecondWord(b) = Native(OnTheHeap) /\ w = len
      <4>1. LenField(b) = OnTheHeap
        BY <1>3, <3>3, LimitsAre, NativeIs
      <4>2. QED
        BY <3>0, <3>1, <3>3, <4>1 DEF HeapBufferLen
    <3>4. QED
      BY <1>0, <3>2, <3>3
  <2>3. QED
    BY <2>1, <2>2
<1>5. AsBytes(b, w) = [at |-> p, len |-> len]
  <2>1. AsBytes(b, w) = [at |-> Native(FirstWord(b)), len |-> LenOf(b, w)]
    BY <1>1 DEF AsBytes, HeapMarker, FirstWord
  <2>2. Native(Native(p)) = p
    BY <1>0, NativeIs
  <2>3. QED
    BY <1>0, <1>4, <2>1, <2>2
<1>6. LastByteOf(b) \in LastByte
  BY <1>1 DEF LastByte, HeapMarker
<1>7. QED
  BY <1>2, <1>5, <1>6

-----------------------------------------------------------------------------
(* What each operation writes.                                             *)

\* A static handle made of a pointer and a length that fits.
LEMMA StaticIs ==
    ASSUME target \in Targets, NEW p, NEW len, IsWord(p), IsWord(len), len[Width] = 0
    PROVE  StaticStored(Native(p) \o Native(Tagged(len, StaticMarker)), p, len)
<1>1. /\ Native(Tagged(len, StaticMarker)) = Stamp(len, StaticMarker)
      /\ IsWord(Stamp(len, StaticMarker)) /\ IsWord(Native(p))
  <2>1. StaticMarker \in Byte
    BY MarkersAre
  <2>2. Native(Tagged(len, StaticMarker)) = Stamp(len, StaticMarker)
    BY <2>1, TaggedIs
  <2>3. IsWord(Stamp(len, StaticMarker))
    BY <2>1, StampIs
  <2>4. IsWord(Native(p))
    BY NativeIs
  <2>5. QED
    BY <2>2, <2>3, <2>4
<1>2. StaticStored(Pair(Native(p), Stamp(len, StaticMarker)), p, len)
  BY <1>1, TwoWords DEF StaticStored
<1>3. QED
  BY <1>1, <1>2 DEF Pair

\* A heap handle; with 64 bits every length of a heap text fits.
LEMMA HeapIs ==
    ASSUME target \in Targets, NEW w, NEW p, NEW len, IsWord(p), IsWord(len),
           Width = 8 => len[Width] = 0, Exceeds(len, HeapMaxLen) => w = len
    PROVE  HeapStored(Native(p) \o Native(TextLen(len)), w, p, len)
<1>0. IsWord(Native(p))
  BY NativeIs
<1>1. CASE Exceeds(len, HeapMaxLen)
  <2>1. Width = 4
    BY <1>1, FitsIs, Widths
  <2>2. TextLen(len) = OnTheHeap /\ IsWord(Native(OnTheHeap))
    BY <1>1, LimitsAre DEF TextLen
  <2>3. HeapStored(Pair(Native(p), Native(OnTheHeap)), w, p, len)
    BY <1>0, <1>1, <2>1, <2>2, TwoWords DEF HeapStored
  <2>4. QED
    BY <2>2, <2>3 DEF Pair
<1>2. CASE ~Exceeds(len, HeapMaxLen)
  <2>1. len[Width] = 0
    BY <1>2, FitsIs
  <2>2. /\ Native(Tagged(len, HeapMarker)) = Stamp(len, HeapMarker)
        /\ IsWord(Stamp(len, HeapMarker))
    BY <2>1, MarkersAre, TaggedIs, StampIs
  <2>3. TextLen(len) = Tagged(len, HeapMarker)
    BY <1>2 DEF TextLen
  <2>4. HeapStored(Pair(Native(p), Stamp(len, HeapMarker)), w, p, len)
    BY <1>0, <1>2, <2>2, TwoWords DEF HeapStored
  <2>5. QED
    BY <2>2, <2>3, <2>4 DEF Pair
<1>3. QED
  BY <1>1, <1>2

\* push writes a character behind the text.
LEMMA PushIs ==
    ASSUME target \in Targets, NEW b, NEW text, InlineStored(b, text), NEW c \in Chars,
           Len(text) + Len(c.utf8) <= MaxInline
    PROVE  InlineStored(InlineSetLen(Put(b, c.utf8, Len(text)), Len(text) + Len(c.utf8)), text \o c.utf8)
<1>0. /\ text \in Seq(Byte) /\ b \in [1..MaxInline -> Byte] /\ \A i \in 1..Len(text) : b[i] = text[i]
  BY DEF InlineStored, Holds
<1>1. PICK s \in Seq(Byte) : s = c.utf8 /\ Len(s) \in 1..4 /\ s[Len(s)] < 192
  BY HandleAssumption, CharBytesAre
<1>2. PICK k \in Nat : k = Len(text)
  BY <1>0
<1>3. PICK n \in 1..4 : n = Len(s)
  BY <1>1
<1>4. k + n <= MaxInline /\ MaxInline \in Nat
  BY <1>1, <1>2, <1>3, Widths
<1> DEFINE d == Put(b, s, k)
<1> DEFINE t == text \o s
<1>5. t \in Seq(Byte) /\ Len(t) = k + n
  BY <1>0, <1>1, <1>2, <1>3
<1>6. d \in [1..MaxInline -> Byte]
  BY <1>0, <1>3, <1>4, PutIs
<1>7. ASSUME NEW i \in 1..k + n PROVE d[i] = t[i]
  <2>1. CASE i <= k
    <3>1. i \in 1..k /\ i \in 1..MaxInline /\ i \notin k + 1..k + n
      BY <1>4, <2>1
    <3>2. d[i] = b[i]
      BY <1>0, <1>3, <3>1 DEF Put
    <3>3. t[i] = text[i]
      BY <1>0, <1>1, <1>2, <3>1
    <3>4. QED
      BY <1>0, <1>2, <3>1, <3>2, <3>3
  <2>2. CASE ~(i <= k)
    <3>1. PICK j \in 1..n : i = k + j
      <4>1. i - k \in 1..n /\ i = k + (i - k)
        BY <2>2
      <4>2. QED
        BY <4>1
    <3>2. d[k + j] = s[j]
      BY <1>0, <1>3, <1>4, PutIs
    <3>3. t[k + j] = s[j]
      BY <1>0, <1>1, <1>2, <1>3
    <3>4. QED
      BY <3>1, <3>2, <3>3
  <2>3. QED
    BY <2>1, <2>2
<1>8. t[k + n] = s[n]
  <2>1. \A j \in 1..n : t[k + j] = s[j]
    BY <1>0, <1>1, <1>2, <1>3
  <2>2. n \in 1..n
    BY <1>3
  <2>3. QED
    BY <2>1, <2>2
<1> HIDE DEF d, t
<1>9. Holds(InlineSetLen(d, Len(t)), t)
  BY <1>4, <1>5, <1>6, <1>7, SetLenIs
<1>10. InlineStored(InlineSetLen(d, k + n), t)
  BY <1>1, <1>3, <1>4, <1>5, <1>8, <1>9 DEF InlineStored
<1>11. QED
  BY <1>1, <1>2, <1>3, <1>10 DEF d, t

\* set_len on an inline handle leaves the front of its text.
LEMMA TruncateIs ==
    ASSUME target \in Targets, NEW b, NEW text, InlineStored(b, text), NEW n \in Nat, n <= Len(text)
    PROVE  InlineStored(InlineSetLen(b, n), SubSeq(text, 1, n))
<1>0. /\ text \in Seq(Byte) /\ b \in [1..MaxInline -> Byte] /\ \A i \in 1..Len(text) : b[i] = text[i]
      /\ Len(text) <= MaxInline /\ (Len(text) = MaxInline => text[MaxInline] < 192)
  BY DEF InlineStored, Holds
<1>1. MaxInline \in Nat /\ MaxInline > 0 /\ Len(text) \in Nat
  BY <1>0, Widths
<1> DEFINE t == SubSeq(text, 1, n)
<1>2. t \in Seq(Byte) /\ Len(t) = n /\ \A i \in 1..n : t[i] = text[i]
  <2>1. /\ t \in Seq(Byte) /\ Len(t) = n + 1 - 1
        /\ \A i \in 1..n + 1 - 1 : t[i] = text[1 + i - 1]
    BY <1>0, <1>1, PartOf
  <2>2. n + 1 - 1 = n /\ \A i \in 1..n : 1 + i - 1 = i
    OBVIOUS
  <2>3. QED
    BY <2>1, <2>2
<1> HIDE DEF t
<1>3. n <= MaxInline /\ \A i \in 1..n : i \in 1..Len(text)
  BY <1>0, <1>1
<1>4. Holds(InlineSetLen(b, Len(t)), t)
  BY <1>0, <1>2, <1>3, SetLenIs
<1>5. n = MaxInline => Len(text) = MaxInline /\ MaxInline \in 1..n
  BY <1>0, <1>1
<1>6. QED
  BY <1>0, <1>2, <1>3, <1>4, <1>5 DEF InlineStored, t

\* remove and replace_range move the rest of the text to the front.
LEMMA RemoveFrontIs ==
    ASSUME target \in Targets, NEW b, NEW text, InlineStored(b, text), NEW n \in Nat, n > 0, n <= Len(text)
    PROVE  InlineStored(InlineSetLen(Put(b, SubSeq(b, n + 1, Len(text)), 0), Len(text) - n),
                        SubSeq(text, n + 1, Len(text)))
<1>0. /\ text \in Seq(Byte) /\ b \in [1..MaxInline -> Byte] /\ \A i \in 1..Len(text) : b[i] = text[i]
      /\ Len(text) <= MaxInline /\ b \in Seq(Byte) /\ Len(b) = MaxInline
  BY WordsOf DEF InlineStored, Holds
<1>1. PICK k \in Nat : k = Len(text)
  BY <1>0
<1>2. MaxInline \in Nat /\ n <= k /\ k <= MaxInline
  BY <1>0, <1>1, Widths
<1> DEFINE s == SubSeq(b, n + 1, k)
<1> DEFINE t == SubSeq(text, n + 1, k)
<1>3. t \in Seq(Byte) /\ Len(t) = k - n /\ \A i \in 1..k - n : t[i] = text[n + i]
  <2>1. /\ t \in Seq(Byte) /\ Len(t) = k + 1 - (n + 1)
        /\ \A i \in 1..k + 1 - (n + 1) : t[i] = text[n + 1 + i - 1]
    BY <1>0, <1>1, <1>2, PartOf
  <2>2. k + 1 - (n + 1) = k - n /\ \A i \in 1..k - n : n + 1 + i - 1 = n + i
    BY <1>2
  <2>3. QED
    BY <2>1, <2>2
<1>4. s \in Seq(Byte) /\ Len(s) = k - n /\ \A i \in 1..k - n : s[i] = b[n + i]
  <2>1. /\ s \in Seq(Byte) /\ Len(s) = k + 1 - (n + 1)
        /\ \A i \in 1..k + 1 - (n + 1) : s[i] = b[n + 1 + i - 1]
    BY <1>0, <1>2, PartOf
  <2>2. k + 1 - (n + 1) = k - n /\ \A i \in 1..k - n : n + 1 + i - 1 = n + i
    BY <1>2
  <2>3. QED
    BY <2>1, <2>2
<1> HIDE DEF s, t
<1>5. \A i \in 1..k - n : n + i \in 1..Len(text)
  BY <1>1, <1>2
<1>6. \A i \in 1..Len(t) : s[i] = t[i]
  BY <1>0, <1>3, <1>4, <1>5
<1>7. Len(t) <= MaxInline /\ Len(t) # MaxInline /\ Len(s) = Len(t)
  BY <1>2, <1>3, <1>4
<1>8. Put(b, s, 0) \in [1..MaxInline -> Byte] /\ \A i \in 1..Len(s) : Put(b, s, 0)[i] = s[i]
  BY <1>0, <1>4, <1>7, PutFront
<1>9. Holds(InlineSetLen(Put(b, s, 0), Len(t)), t)
  BY <1>3, <1>6, <1>7, <1>8, SetLenIs
<1>10. QED
  BY <1>1, <1>3, <1>7, <1>9 DEF InlineStored, s, t

-----------------------------------------------------------------------------
(* The inductive invariant: the handle stores what it shows.               *)

Stored ==
    /\ target \in Targets /\ IsWord(prefix)
    /\ \/ \E text \in Seq(Byte) : shows = Inline(text) /\ InlineStored(bits, text)
       \/ \E p, len \in [1..Width -> Byte] :
             shows = Outside("static", p, len) /\ StaticStored(bits, p, len)
       \/ \E p, len \in [1..Width -> Byte] :
             shows = Outside("heap", p, len) /\ HeapStored(bits, prefix, p, len)

\* The word in front of no block is a word.
LEMMA NoPrefixIs ==
    ASSUME target \in Targets
    PROVE  IsWord(NoPrefix)
<1>1. <<>> \in Seq(Byte)
  OBVIOUS
<1>2. QED
  BY <1>1, WordIs DEF NoPrefix

\* Storing is the same before and after a step, for the target never changes.
LEMMA InlineStep ==
    ASSUME target \in Targets, NEW b, NEW text, InlineStored(b, text),
           Becomes(b, NoPrefix, Inline(text))
    PROVE  Stored'
<1>1. bits' = b /\ prefix' = NoPrefix /\ shows' = Inline(text) /\ target' = target
  BY DEF Becomes
<1>2. text \in Seq(Byte) /\ IsWord(NoPrefix)
  BY NoPrefixIs DEF InlineStored
<1>3. InlineStored(bits, text)'
  BY <1>1 DEF InlineStored, Holds, MaxInline, Width
<1>4. IsWord(prefix)'
  BY <1>1, <1>2 DEF IsWord, Width
<1>5. shows' = Inline(text)'
  BY <1>1 DEF Inline
<1>6. QED
  BY <1>1, <1>2, <1>3, <1>4, <1>5 DEF Stored

\* A step to a static handle keeps the inductive invariant.
LEMMA StaticStep ==
    ASSUME target \in Targets, NEW b, NEW p, NEW len, StaticStored(b, p, len),
           Becomes(b, NoPrefix, Outside("static", p, len))
    PROVE  Stored'
<1>1. bits' = b /\ prefix' = NoPrefix /\ shows' = Outside("static", p, len) /\ target' = target
  BY DEF Becomes
<1>2. IsWord(NoPrefix)
  BY NoPrefixIs
<1>3. StaticStored(bits, p, len)'
  BY <1>1 DEF StaticStored, IsWord, FirstWord, SecondWord, Stamp, Native, MaxInline, Width
<1>4. IsWord(prefix)'
  BY <1>1, <1>2 DEF IsWord, Width
<1>5. shows' = Outside("static", p, len)'
  BY <1>1 DEF Outside
<1>6. p \in [1..Width -> Byte]' /\ len \in [1..Width -> Byte]'
  BY <1>3 DEF StaticStored, IsWord
<1>7. QED
  BY <1>1, <1>3, <1>4, <1>5, <1>6 DEF Stored

\* A step to a heap handle keeps the inductive invariant.
LEMMA HeapStep ==
    ASSUME target \in Targets, NEW b, NEW w, IsWord(w), NEW p, NEW len, HeapStored(b, w, p, len),
           Becomes(b, w, Outside("heap", p, len))
    PROVE  Stored'
<1>1. bits' = b /\ prefix' = w /\ shows' = Outside("heap", p, len) /\ target' = target
  BY DEF Becomes
<1>2. HeapStored(bits, prefix, p, len)'
  <2>1. /\ Exceeds(len, HeapMaxLen)' <=> Exceeds(len, HeapMaxLen)
        /\ Native(OnTheHeap)' = Native(OnTheHeap)
    BY <1>1 DEF Exceeds, HeapMaxLen, AllButLast, OnTheHeap, Native, Width
  <2>2. QED
    BY <1>1, <2>1 DEF HeapStored, IsWord, FirstWord, SecondWord, Stamp, Native, MaxInline, Width
<1>3. IsWord(prefix)'
  BY <1>1 DEF IsWord, Width
<1>4. shows' = Outside("heap", p, len)'
  BY <1>1 DEF Outside
<1>5. p \in [1..Width -> Byte]' /\ len \in [1..Width -> Byte]'
  BY <1>2 DEF HeapStored, IsWord
<1>6. QED
  BY <1>1, <1>2, <1>3, <1>4, <1>5 DEF Stored

\* The inductive invariant holds of the first handle.
LEMMA StoredInit == Init => Stored
<1> SUFFICES ASSUME Init PROVE Stored
  OBVIOUS
<1>1. target \in Targets /\ bits = EmptyBuffer /\ shows = Inline(<<>>) /\ prefix = NoPrefix
  BY DEF Init
<1>2. Holds(EmptyBuffer, <<>>) /\ IsWord(NoPrefix)
  BY <1>1, EmptyIs, NoPrefixIs
<1>3. <<>> \in Seq(Byte) /\ Len(<<>>) = 0 /\ 0 <= MaxInline /\ 0 # MaxInline
  BY <1>1, Widths
<1>4. InlineStored(EmptyBuffer, <<>>)
  BY <1>2, <1>3 DEF InlineStored
<1>5. QED
  BY <1>1, <1>2, <1>3, <1>4 DEF Stored

\* An inline handle stores the text it shows.
LEMMA InlineShown ==
    ASSUME Stored, shows.kind = "inline"
    PROVE  \E text \in Seq(Byte) : shows = Inline(text) /\ shows.text = text /\ InlineStored(bits, text)
BY DEF Stored, Inline, Outside

\* Pointers and lengths are words of the target's width.
LEMMA LengthsAre ==
    ASSUME target \in Targets, NEW p \in Pointers, NEW len \in Lengths
    PROVE  IsWord(p[Width]) /\ IsWord(len[Width])
BY HandleAssumption, Widths DEF IsWord

\* Every operation keeps the inductive invariant.
LEMMA StoredNext ==
    ASSUME Stored, [Next]_vars
    PROVE  Stored'
<1>0. target \in Targets /\ IsWord(prefix)
  BY DEF Stored
<1>1. CASE FromStr
  <2>1. PICK text \in Seq(Byte) : shows = Inline(text) /\ shows.text = text /\ InlineStored(bits, text)
    BY <1>1, InlineShown DEF FromStr, IsEditable
  <2>2. Becomes(NewInline(text), NoPrefix, Inline(text))
    BY <1>1, <2>1 DEF FromStr
  <2>3. InlineStored(NewInline(text), text)
    BY <1>0, <2>1, NewInlineIs DEF InlineStored
  <2>4. QED
    BY <1>0, <2>2, <2>3, InlineStep
<1>2. CASE Clear
  <2>1. Becomes(EmptyBuffer, NoPrefix, Inline(<<>>))
    BY <1>2 DEF Clear
  <2>2. <<>> \in Seq(Byte) /\ Len(<<>>) = 0 /\ 0 <= MaxInline /\ 0 # MaxInline
    BY <1>0, Widths
  <2>3. InlineStored(EmptyBuffer, <<>>)
    BY <1>0, <2>2, EmptyIs DEF InlineStored
  <2>4. QED
    BY <1>0, <2>1, <2>3, InlineStep
<1>3. ASSUME NEW c \in Chars, FromChar(c) PROVE Stored'
  <2>1. c.code \in CodePoint /\ c.utf8 = Encoded(c.code)
    BY HandleAssumption
  <2>2. Becomes(FromCharBits(c.code), NoPrefix, Inline(Encoded(c.code)))
    BY <1>3, <2>1 DEF FromChar
  <2>3. Encoded(c.code) \in Seq(Byte) /\ Len(Encoded(c.code)) \in 1..4
    BY <2>1, CharBytesAre
  <2>4. Len(Encoded(c.code)) <= MaxInline /\ Len(Encoded(c.code)) # MaxInline
    <3>1. \A k \in 1..4 : k <= MaxInline /\ k # MaxInline
      BY <1>0, Widths
    <3>2. QED
      BY <2>3, <3>1
  <2>5. InlineStored(FromCharBits(c.code), Encoded(c.code))
    BY <1>0, <2>1, <2>3, <2>4, FromCharIs DEF InlineStored
  <2>6. QED
    BY <1>0, <2>2, <2>5, InlineStep
<1>4. ASSUME NEW c \in Edited, Push(c) PROVE Stored'
  <2>1. PICK text \in Seq(Byte) : shows = Inline(text) /\ shows.text = text /\ InlineStored(bits, text)
    BY <1>4, InlineShown DEF Push, IsEditable
  <2>2. LenOf(bits, prefix)[1] = Len(text)
    BY <1>0, <2>1, ReadInline
  <2>3. /\ Len(text) + Len(c.utf8) <= MaxInline
        /\ Becomes(InlineSetLen(Put(bits, c.utf8, Len(text)), Len(text) + Len(c.utf8)), NoPrefix,
                   Inline(text \o c.utf8))
    BY <1>4, <2>1, <2>2 DEF Push
  <2>4. c \in Chars
    BY HandleAssumption
  <2>5. InlineStored(InlineSetLen(Put(bits, c.utf8, Len(text)), Len(text) + Len(c.utf8)), text \o c.utf8)
    BY <1>0, <2>1, <2>3, <2>4, PushIs
  <2>6. QED
    BY <1>0, <2>3, <2>5, InlineStep
<1>5. ASSUME NEW n \in 0..MaxInline, Truncate(n) PROVE Stored'
  <2>1. PICK text \in Seq(Byte) : shows = Inline(text) /\ shows.text = text /\ InlineStored(bits, text)
    BY <1>5, InlineShown DEF Truncate, IsEditable
  <2>2. Becomes(InlineSetLen(bits, n), NoPrefix, Inline(SubSeq(text, 1, n)))
    BY <1>5, <2>1 DEF Truncate
  <2>3. n \in Nat /\ n <= Len(text)
    BY <1>0, <1>5, <2>1, Widths DEF Truncate, IsBoundary
  <2>4. InlineStored(InlineSetLen(bits, n), SubSeq(text, 1, n))
    BY <1>0, <2>1, <2>3, TruncateIs
  <2>5. QED
    BY <1>0, <2>2, <2>4, InlineStep
<1>6. ASSUME NEW n \in 1..4, RemoveFront(n) PROVE Stored'
  <2>1. PICK text \in Seq(Byte) : shows = Inline(text) /\ shows.text = text /\ InlineStored(bits, text)
    BY <1>6, InlineShown DEF RemoveFront, IsEditable
  <2>2. LenOf(bits, prefix)[1] = Len(text)
    BY <1>0, <2>1, ReadInline
  <2>3. Becomes(InlineSetLen(Put(bits, SubSeq(bits, n + 1, Len(text)), 0), Len(text) - n), NoPrefix,
                Inline(SubSeq(text, n + 1, Len(text))))
    BY <1>6, <2>1, <2>2 DEF RemoveFront
  <2>4. n \in Nat /\ n > 0 /\ n <= Len(text)
    BY <1>6, <2>1 DEF RemoveFront, IsBoundary
  <2>5. InlineStored(InlineSetLen(Put(bits, SubSeq(bits, n + 1, Len(text)), 0), Len(text) - n),
                     SubSeq(text, n + 1, Len(text)))
    BY <1>0, <2>1, <2>4, RemoveFrontIs
  <2>6. QED
    BY <1>0, <2>3, <2>5, InlineStep
<1>7. ASSUME NEW p \in Pointers, NEW len \in Lengths, NewStatic(p[Width], len[Width]) PROVE Stored'
  <2>1. PICK q, l : q = p[Width] /\ l = len[Width] /\ IsWord(q) /\ IsWord(l)
    BY <1>0, LengthsAre
  <2>2. /\ ~Exceeds(l, AllButLast)
        /\ Becomes(Native(q) \o Native(Tagged(l, StaticMarker)), NoPrefix, Outside("static", q, l))
    BY <1>7, <2>1 DEF NewStatic, StaticFits
  <2>3. l[Width] = 0
    BY <1>0, <2>1, <2>2, FitsIs
  <2>4. StaticStored(Native(q) \o Native(Tagged(l, StaticMarker)), q, l)
    BY <1>0, <2>1, <2>3, StaticIs
  <2>5. QED
    BY <1>0, <2>2, <2>4, StaticStep
<1>8. ASSUME NEW p \in Pointers, NEW len \in Lengths, NewHeap(p[Width], len[Width]) PROVE Stored'
  <2>1. PICK q, l : q = p[Width] /\ l = len[Width] /\ IsWord(q) /\ IsWord(l)
    BY <1>0, LengthsAre
  <2>2. PICK w : w = IF Exceeds(l, HeapMaxLen) THEN l ELSE NoPrefix
    OBVIOUS
  <2>3. HeapFits(l) /\ Becomes(Native(q) \o Native(TextLen(l)), w, Outside("heap", q, l))
    BY <1>8, <2>1, <2>2 DEF NewHeap
  <2>4. IsWord(w) /\ (Exceeds(l, HeapMaxLen) => w = l)
    BY <1>0, <2>1, <2>2, NoPrefixIs
  <2>5. Width = 8 => l[Width] = 0
    <3>1. Width = 8 => ~Exceeds(l, AllButLast)
      BY <2>3 DEF HeapFits
    <3>2. QED
      BY <1>0, <2>1, <3>1, FitsIs
  <2>6. HeapStored(Native(q) \o Native(TextLen(l)), w, q, l)
    BY <1>0, <2>1, <2>4, <2>5, HeapIs
  <2>7. QED
    BY <1>0, <2>3, <2>4, <2>6, HeapStep
<1>9. ASSUME NEW len \in Lengths, SetLen(len[Width]) PROVE Stored'
  <2>1. PICK l : l = len[Width] /\ IsWord(l)
    BY <1>0, HandleAssumption, Widths DEF IsWord
  <2>2. CASE shows.kind = "static"
    <3>1. PICK p, m \in [1..Width -> Byte] : shows = Outside("static", p, m) /\ StaticStored(bits, p, m)
      BY <2>2 DEF Stored, Inline, Outside
    <3>2. shows.text.at = p /\ shows.text.len = m
      BY <3>1 DEF Outside
    <3>3. /\ Exceeds(m, l)
          /\ Becomes(WithField(bits, Tagged(l, StaticMarker)), NoPrefix, Outside("static", p, l))
      BY <1>9, <2>1, <2>2, <3>2 DEF SetLen
    <3>4. IsWord(p) /\ IsWord(m) /\ m[Width] = 0 /\ FirstWord(bits) = Native(p)
      BY <3>1 DEF StaticStored
    <3>5. l[Width] = 0
      BY <1>0, <2>1, <3>3, <3>4, SmallerFits
    <3>6. WithField(bits, Tagged(l, StaticMarker)) = Native(p) \o Native(Tagged(l, StaticMarker))
      BY <3>4 DEF WithField, FirstWord
    <3>7. StaticStored(Native(p) \o Native(Tagged(l, StaticMarker)), p, l)
      BY <1>0, <2>1, <3>4, <3>5, StaticIs
    <3>8. QED
      BY <1>0, <3>3, <3>6, <3>7, StaticStep
  <2>3. CASE shows.kind = "heap"
    <3>1. PICK p, m \in [1..Width -> Byte] : shows = Outside("heap", p, m) /\ HeapStored(bits, prefix, p, m)
      BY <2>3 DEF Stored, Inline, Outside
    <3>2. shows.text.at = p /\ shows.text.len = m
      BY <3>1 DEF Outside
    <3>3. PICK w : w = IF Exceeds(l, HeapMaxLen) THEN l ELSE prefix
      OBVIOUS
    <3>4. Exceeds(m, l) /\ Becomes(WithField(bits, TextLen(l)), w, Outside("heap", p, l))
      BY <1>9, <2>1, <2>3, <3>2, <3>3 DEF SetLen
    <3>5. IsWord(p) /\ IsWord(m) /\ FirstWord(bits) = Native(p) /\ (Width = 8 => ~Exceeds(m, HeapMaxLen))
      BY <3>1 DEF HeapStored
    <3>6. Width = 8 => l[Width] = 0
      <4>1. Width = 8 => m[Width] = 0
        BY <1>0, <3>5, FitsIs
      <4>2. QED
        BY <1>0, <2>1, <3>4, <3>5, <4>1, SmallerFits
    <3>7. IsWord(w) /\ (Exceeds(l, HeapMaxLen) => w = l)
      BY <1>0, <2>1, <3>3
    <3>8. WithField(bits, TextLen(l)) = Native(p) \o Native(TextLen(l))
      BY <3>5 DEF WithField, FirstWord
    <3>9. HeapStored(Native(p) \o Native(TextLen(l)), w, p, l)
      BY <1>0, <2>1, <3>5, <3>6, <3>7, HeapIs
    <3>10. QED
      BY <1>0, <3>4, <3>7, <3>8, <3>9, HeapStep
  <2>4. shows.kind = "static" \/ shows.kind = "heap"
    BY <1>9 DEF SetLen, Stored, Inline, Outside
  <2>5. QED
    BY <2>2, <2>3, <2>4
<1>10. CASE UNCHANGED vars
  <2>1. target' = target /\ bits' = bits /\ prefix' = prefix /\ shows' = shows
    BY <1>10 DEF vars
  <2>2. CASE shows.kind = "inline"
    <3>1. PICK text \in Seq(Byte) : shows = Inline(text) /\ InlineStored(bits, text)
      BY <2>2, InlineShown
    <3>2. InlineStored(bits, text)' /\ shows' = Inline(text)' /\ IsWord(prefix)'
      BY <1>0, <2>1, <3>1 DEF InlineStored, Holds, MaxInline, Width, Inline, IsWord
    <3>3. QED
      BY <1>0, <2>1, <3>2 DEF Stored
  <2>3. CASE shows.kind # "inline"
    <3>1. PICK p, m \in [1..Width -> Byte] :
            \/ shows = Outside("static", p, m) /\ StaticStored(bits, p, m)
            \/ shows = Outside("heap", p, m) /\ HeapStored(bits, prefix, p, m)
      BY <2>3 DEF Stored, Inline
    <3>2. CASE shows = Outside("static", p, m) /\ StaticStored(bits, p, m)
      <4>1. StaticStored(bits, p, m)'
        BY <2>1, <3>2 DEF StaticStored, IsWord, FirstWord, SecondWord, Stamp, Native, MaxInline, Width
      <4>2. shows' = Outside("static", p, m)' /\ IsWord(prefix)'
        BY <1>0, <2>1, <3>2 DEF Outside, IsWord, Width
      <4>3. p \in [1..Width -> Byte]' /\ m \in [1..Width -> Byte]'
        BY <4>1 DEF StaticStored, IsWord
      <4>4. QED
        BY <1>0, <2>1, <4>1, <4>2, <4>3 DEF Stored
    <3>3. CASE shows = Outside("heap", p, m) /\ HeapStored(bits, prefix, p, m)
      <4>1. Becomes(bits, prefix, Outside("heap", p, m))
        BY <2>1, <3>3 DEF Becomes
      <4>2. QED
        BY <1>0, <3>3, <4>1, HeapStep
    <3>4. QED
      BY <3>1, <3>2, <3>3
  <2>4. QED
    BY <2>2, <2>3
<1>11. QED
  BY <1>1, <1>2, <1>3, <1>4, <1>5, <1>6, <1>7, <1>8, <1>9, <1>10 DEF Next

\* On every target and after any sequence of operations, the bytes of a handle store
\* the text, or the pointer and the length, that the operations gave it.
THEOREM StoredInvariant == Spec => []Stored
<1>1. Init => Stored
  BY StoredInit
<1>2. Stored /\ [Next]_vars => Stored'
  BY StoredNext
<1>3. QED
  BY <1>1, <1>2, PTL DEF Spec

\* Repr::len, as_bytes and the tests of the kind read back what was stored: an inline text
\* that fills the handle is not taken for a length or a marker, the branch-free len of 64 bits
\* finds every length, and with 32 bits a length that fits is not taken for ON_THE_HEAP.
THEOREM HandlesDecode == Spec => []Decodes
<1>1. Stored => Decodes
  <2> SUFFICES ASSUME Stored PROVE Decodes
    OBVIOUS
  <2>0. target \in Targets
    BY DEF Stored
  <2>1. ASSUME NEW text \in Seq(Byte), shows = Inline(text), InlineStored(bits, text) PROVE Decodes
    BY <2>0, <2>1, ReadInline DEF Decodes, Inline
  <2>2. ASSUME NEW p, NEW len, shows = Outside("static", p, len), StaticStored(bits, p, len) PROVE Decodes
    BY <2>0, <2>2, ReadStatic DEF Decodes, Outside
  <2>3. ASSUME NEW p, NEW len, shows = Outside("heap", p, len), HeapStored(bits, prefix, p, len) PROVE Decodes
    BY <2>0, <2>3, ReadHeap DEF Decodes, Outside
  <2>4. QED
    BY <2>1, <2>2, <2>3 DEF Stored
<1>2. QED
  BY <1>1, StoredInvariant, PTL

\* The last byte of a handle never has a value that Option and Result use as a niche.
THEOREM NichesStayUnused == Spec => []NicheUnused
<1>1. Stored => NicheUnused
  <2> SUFFICES ASSUME Stored PROVE NicheUnused
    OBVIOUS
  <2>0. target \in Targets
    BY DEF Stored
  <2>1. ASSUME NEW text \in Seq(Byte), InlineStored(bits, text) PROVE NicheUnused
    BY <2>0, <2>1, ReadInline DEF NicheUnused
  <2>2. ASSUME NEW p, NEW len, StaticStored(bits, p, len) PROVE NicheUnused
    BY <2>0, <2>2, ReadStatic DEF NicheUnused
  <2>3. ASSUME NEW p, NEW len, HeapStored(bits, prefix, p, len) PROVE NicheUnused
    BY <2>0, <2>3, ReadHeap DEF NicheUnused
  <2>4. QED
    BY <2>1, <2>2, <2>3 DEF Stored
<1>2. QED
  BY <1>1, StoredInvariant, PTL

\* Every byte of a handle and of the length word stays a byte: the bitwise operations,
\* the shifts and the copies of the constructors never carry out of one.
THEOREM TypeInvariant == Spec => []TypeOK
<1>1. Stored => TypeOK
  <2> SUFFICES ASSUME Stored PROVE TypeOK
    OBVIOUS
  <2>1. target \in Targets /\ prefix \in [1..Width -> Byte]
    BY DEF Stored, IsWord
  <2>2. bits \in [1..MaxInline -> Byte]
    BY DEF Stored, InlineStored, StaticStored, HeapStored, Holds
  <2>3. shows.kind \in {"inline", "static", "heap"}
    BY DEF Stored, Inline, Outside
  <2>4. QED
    BY <2>1, <2>2, <2>3 DEF TypeOK
<1>2. QED
  BY <1>1, StoredInvariant, PTL
=============================================================================
