-------------------------- MODULE NumToReprProofs ---------------------------
(***************************************************************************)
(* NumToRepr for every value of every integer type: the table of           *)
(* digit_count and the digits written backwards agree, so that the buffer  *)
(* is filled exactly.                                                      *)
(***************************************************************************)
EXTENDS NumToRepr, FiniteSetTheorems, TLAPS

-----------------------------------------------------------------------------
(* Digits.                                                                 *)

\* The digits of a limb, the most significant first, and the first that counts.
Digit(limb, e) == (limb \div Tens[4 - e]) % 10

First(limb) == IF limb >= 1000 THEN 1 ELSE IF limb >= 100 THEN 2 ELSE IF limb >= 10 THEN 3 ELSE 4

Top(mag) == mag[Len(mag)]

\* The number of digits of a magnitude.
Size(mag) == 4 * Len(mag) + 1 - First(Top(mag))

\* A limb is a number of four digits.
LEMMA LimbIs == \A limb \in Limb : limb \in Nat /\ limb <= 9999
BY DEF Limb

\* The four digits of a limb.
LEMMA DigitsOfLimb ==
    ASSUME NEW limb \in Limb
    PROVE  /\ Digit(limb, 0) = limb \div 1000 /\ Digit(limb, 1) = (limb \div 100) % 10
           /\ Digit(limb, 2) = (limb \div 10) % 10 /\ Digit(limb, 3) = limb % 10
           /\ \A e \in 0..3 : Digit(limb, e) \in 0..9
<1>0. limb \in Nat /\ limb <= 9999
  BY LimbIs
<1>1. Tens[4] = 1000 /\ Tens[3] = 100 /\ Tens[2] = 10 /\ Tens[1] = 1
  BY DEF Tens
<1>2. /\ Digit(limb, 0) = (limb \div 1000) % 10 /\ Digit(limb, 1) = (limb \div 100) % 10
      /\ Digit(limb, 2) = (limb \div 10) % 10 /\ Digit(limb, 3) = (limb \div 1) % 10
  BY <1>1 DEF Digit
<1>3. (limb \div 1000) % 10 = limb \div 1000 /\ limb \div 1 = limb
  <2>1. limb \div 1000 \in Nat /\ limb \div 1000 <= 9
    BY <1>0
  <2>2. \A x \in Nat : x <= 9 => x % 10 = x
    OBVIOUS
  <2>3. QED
    BY <1>0, <2>1, <2>2
<1>4. \A x \in Int : x % 10 \in 0..9
  OBVIOUS
<1>5. /\ Digit(limb, 0) \in 0..9 /\ Digit(limb, 1) \in 0..9
      /\ Digit(limb, 2) \in 0..9 /\ Digit(limb, 3) \in 0..9
  <2>1. limb \div 1000 \in Int /\ limb \div 100 \in Int /\ limb \div 10 \in Int /\ limb \div 1 \in Int
    BY <1>0
  <2>2. QED
    BY <1>2, <1>4, <2>1
<1>6. \A e \in 0..3 : e = 0 \/ e = 1 \/ e = 2 \/ e = 3
  OBVIOUS
<1>7. QED
  BY <1>2, <1>3, <1>5, <1>6

\* The digits in front of the first one of a limb are zero, and that one is not.
LEMMA FirstDigit ==
    ASSUME NEW limb \in Limb
    PROVE  /\ First(limb) \in 1..4
           /\ \A e \in 0..First(limb) - 2 : Digit(limb, e) = 0
           /\ limb # 0 => Digit(limb, First(limb) - 1) # 0
<1>0. limb \in Nat /\ limb <= 9999
  BY LimbIs
<1>1. /\ Digit(limb, 0) = limb \div 1000 /\ Digit(limb, 1) = (limb \div 100) % 10
      /\ Digit(limb, 2) = (limb \div 10) % 10 /\ Digit(limb, 3) = limb % 10
  BY DigitsOfLimb
<1>2. CASE limb >= 1000
  BY <1>0, <1>1, <1>2 DEF First
<1>3. CASE limb >= 100 /\ limb < 1000
  <2>1. First(limb) = 2 /\ limb \div 1000 = 0 /\ (limb \div 100) % 10 # 0
    BY <1>0, <1>3 DEF First
  <2>2. QED
    BY <1>1, <2>1
<1>4. CASE limb >= 10 /\ limb < 100
  <2>1. First(limb) = 3 /\ limb \div 1000 = 0 /\ (limb \div 100) % 10 = 0 /\ (limb \div 10) % 10 # 0
    BY <1>0, <1>4 DEF First
  <2>2. QED
    BY <1>1, <2>1
<1>5. CASE limb < 10
  <2>1. /\ First(limb) = 4 /\ limb \div 1000 = 0 /\ (limb \div 100) % 10 = 0
        /\ (limb \div 10) % 10 = 0 /\ limb % 10 = limb
    BY <1>0, <1>5 DEF First
  <2>2. QED
    BY <1>1, <2>1
<1>6. QED
  BY <1>0, <1>2, <1>3, <1>4, <1>5

Bytes == {Digits[d + 1] : d \in 0..9} \cup {"-"}

\* Only zero is written as 0.
LEMMA ZeroDigit == \A d \in 0..9 : (Digits[d + 1] = "0") <=> (d = 0)
BY DEF Digits

-----------------------------------------------------------------------------
(* The text of a magnitude.                                                *)

\* The limbs of a magnitude, its first one and its number of digits.
LEMMA Limbs ==
    ASSUME NEW m, IsMagnitude(m)
    PROVE  /\ Len(m) \in Nat /\ Len(m) >= 1
           /\ \A k \in 1..Len(m) : m[k] \in Limb
           /\ Top(m) \in Limb /\ (Len(m) > 1 => Top(m) # 0)
           /\ First(Top(m)) \in 1..4
           /\ Size(m) \in Nat /\ Size(m) = 4 * Len(m) + 1 - First(Top(m))
<1>1. Len(m) \in Nat /\ Len(m) >= 1 /\ (\A k \in 1..Len(m) : m[k] \in Limb)
  BY DEF IsMagnitude
<1>2. Top(m) \in Limb /\ (Len(m) > 1 => Top(m) # 0)
  BY <1>1 DEF Top, IsMagnitude
<1>3. First(Top(m)) \in 1..4
  BY <1>2, FirstDigit
<1>4. QED
  BY <1>1, <1>2, <1>3 DEF Size

\* The limb of the i-th digit.
LimbAt(m, i) == m[Len(m) - ((i - 1) \div 4)]

\* A magnitude with its leading zeros has four digits for each limb.
LEMMA PaddedIs ==
    ASSUME NEW m, IsMagnitude(m)
    PROVE  /\ Padded(m) \in Seq(Bytes) /\ Len(Padded(m)) = 4 * Len(m)
           /\ \A i \in 1..4 * Len(m) :
                /\ LimbAt(m, i) \in Limb
                /\ Padded(m)[i] = Digits[Digit(LimbAt(m, i), (i - 1) % 4) + 1]
<1>1. Len(m) \in Nat /\ Len(m) >= 1 /\ \A k \in 1..Len(m) : m[k] \in Limb
  BY Limbs
<1>2. ASSUME NEW i \in 1..4 * Len(m)
      PROVE  LimbAt(m, i) \in Limb /\ (i - 1) % 4 \in 0..3
  <2>1. Len(m) - ((i - 1) \div 4) \in 1..Len(m) /\ (i - 1) % 4 \in 0..3
    BY <1>1
  <2>2. QED
    BY <1>1, <2>1 DEF LimbAt
<1>3. \A i \in 1..4 * Len(m) : Padded(m)[i] = Digits[Digit(LimbAt(m, i), (i - 1) % 4) + 1]
  BY DEF Padded, LimbAt, Digit
<1>4. \A d \in 0..9 : Digits[d + 1] \in Bytes
  BY DEF Bytes
<1>5. \A i \in 1..4 * Len(m) : Padded(m)[i] \in Bytes
  BY <1>2, <1>3, <1>4, DigitsOfLimb, ZenonT(30)
<1>6. Padded(m) = [i \in 1..4 * Len(m) |-> Padded(m)[i]]
  BY DEF Padded
<1>7. 4 * Len(m) \in Nat
  BY <1>1
<1>8. QED
  BY <1>2, <1>3, <1>5, <1>6, <1>7

\* The decimal text is the padded one without its leading zeros.
LEMMA DecimalIs ==
    ASSUME NEW m, IsMagnitude(m)
    PROVE  /\ Len(Decimal(m)) = Size(m)
           /\ \A i \in 1..Size(m) : Decimal(m)[i] = Padded(m)[i + First(Top(m)) - 1]
           /\ Decimal(m) \in Seq(Bytes)
<1> DEFINE p == Padded(m)
           f == First(Top(m))
           Starts(i) == (p[i] # "0" \/ i = Len(p)) /\ \A j \in 1..i - 1 : p[j] = "0"
<1>1. /\ Len(m) \in Nat /\ Len(m) >= 1 /\ Top(m) \in Limb /\ (Len(m) > 1 => Top(m) # 0)
      /\ f \in 1..4 /\ Size(m) \in Nat /\ Size(m) = 4 * Len(m) + 1 - f
  BY Limbs
<1>2. /\ p \in Seq(Bytes) /\ Len(p) = 4 * Len(m)
      /\ \A i \in 1..4 * Len(m) : p[i] = Digits[Digit(LimbAt(m, i), (i - 1) % 4) + 1]
  BY PaddedIs
<1>3. \A i \in 1..4 : p[i] = Digits[Digit(Top(m), i - 1) + 1]
  <2>1. \A i \in 1..4 : (i - 1) \div 4 = 0 /\ (i - 1) % 4 = i - 1 /\ i \in 1..4 * Len(m)
    BY <1>1
  <2>2. \A i \in 1..4 : LimbAt(m, i) = Top(m)
    BY <1>1, <2>1 DEF LimbAt, Top
  <2>3. QED
    BY <1>2, <2>1, <2>2
<1>4. \A e \in 0..3 : Digit(Top(m), e) \in 0..9
  BY <1>1, DigitsOfLimb
<1>5. \A j \in 1..f - 1 : p[j] = "0"
  <2>1. \A e \in 0..f - 2 : Digit(Top(m), e) = 0
    BY <1>1, FirstDigit
  <2>2. ASSUME NEW j \in 1..f - 1 PROVE j \in 1..4 /\ j - 1 \in 0..f - 2
    BY <1>1
  <2>3. \A j \in 1..f - 1 : p[j] = Digits[0 + 1]
    BY <1>3, <2>1, <2>2
  <2>4. QED
    BY <2>3, ZeroDigit
<1>6. p[f] # "0" \/ (Top(m) = 0 /\ f = 4 /\ Len(m) = 1)
  <2>1. CASE Top(m) # 0
    <3>1. Digit(Top(m), f - 1) # 0 /\ f - 1 \in 0..3
      BY <1>1, <2>1, FirstDigit
    <3>2. p[f] = Digits[Digit(Top(m), f - 1) + 1] /\ Digit(Top(m), f - 1) \in 0..9
      BY <1>1, <1>3, <1>4, <3>1
    <3>3. QED
      BY <3>1, <3>2, ZeroDigit
  <2>2. CASE Top(m) = 0
    <3>0. Len(m) \in Nat /\ Len(m) >= 1 /\ ~(Len(m) > 1)
      BY <1>1, <2>2, Zenon
    <3>1. Len(m) = 1
      <4>1. \A k \in Nat : k >= 1 /\ ~(k > 1) => k = 1
        OBVIOUS
      <4>2. QED
        BY <3>0, <4>1, Zenon
    <3>2. First(0) = 4
      BY DEF First
    <3>3. QED
      BY <2>2, <3>1, <3>2
  <2>3. QED
    BY <2>1, <2>2
<1>7. f \in 1..Len(p) /\ Starts(f)
  BY <1>1, <1>2, <1>5, <1>6
<1>8. ASSUME NEW i \in 1..Len(p), Starts(i) PROVE i = f
  <2>1. CASE i < f
    <3>1. p[i] = "0" /\ i < Len(p)
      BY <1>1, <1>2, <1>5, <2>1
    <3>2. QED
      BY <1>8, <3>1
  <2>2. CASE i > f
    <3>1. p[f] = "0"
      BY <1>1, <1>8, <2>2
    <3>2. QED
      BY <1>1, <1>2, <1>6, <2>2, <3>1
  <2>3. QED
    BY <1>1, <1>2, <2>1, <2>2
<1>9. (CHOOSE i \in 1..Len(p) : Starts(i)) = f
  BY <1>7, <1>8
<1>10. Decimal(m) = SubSeq(p, f, Len(p))
  BY <1>9 DEF Decimal
<1> HIDE DEF p, f
<1>11. /\ Len(Decimal(m)) = Size(m)
       /\ \A i \in 1..Size(m) : Decimal(m)[i] = p[f + i - 1]
  BY <1>1, <1>2, <1>10
<1>12. Decimal(m) \in Seq(Bytes)
  BY <1>1, <1>2, <1>10
<1>13. \A i \in 1..Size(m) : f + i - 1 = i + f - 1
  BY <1>1
<1>14. QED
  BY <1>11, <1>12, <1>13 DEF p, f

-----------------------------------------------------------------------------
(* digit_count.                                                            *)

\* A limb reaches a power of ten just if it has that many digits.
LEMMA TopDecade ==
    ASSUME NEW limb \in Limb, NEW e \in Nat, e <= 3, e >= 1 \/ limb # 0
    PROVE  limb >= Tens[e + 1] <=> e <= 4 - First(limb)
<1>0. limb \in Nat /\ limb <= 9999
  BY LimbIs
<1>1. Tens[4] = 1000 /\ Tens[3] = 100 /\ Tens[2] = 10 /\ Tens[1] = 1
  BY DEF Tens
<1>2. e = 0 \/ e = 1 \/ e = 2 \/ e = 3
  OBVIOUS
<1>3. QED
  BY <1>0, <1>1, <1>2 DEF First

\* 10^k <= mag.
AtLeastDecade(mag, k) ==
    \/ Len(mag) > (k \div 4) + 1
    \/ Len(mag) = (k \div 4) + 1 /\ mag[Len(mag)] >= Tens[(k % 4) + 1]

\* The arm of a value: its decades are those below its number of digits.
LEMMA DecadesAre ==
    ASSUME NEW m, IsMagnitude(m), NEW k \in Nat, k >= 1
    PROVE  AtLeastDecade(m, k) <=> k <= Size(m) - 1
<1> DEFINE L == Len(m)
           F == First(Top(m))
           q == k \div 4
           e == k % 4
<1>1. /\ L \in Nat /\ L >= 1 /\ Top(m) \in Limb /\ (L > 1 => Top(m) # 0) /\ F \in 1..4
      /\ Size(m) = 4 * L + 1 - F
  BY Limbs
<1>2. q \in Nat /\ e \in Nat /\ e <= 3 /\ k = 4 * q + e
  OBVIOUS
<1>3. AtLeastDecade(m, k) <=> L > q + 1 \/ (L = q + 1 /\ Top(m) >= Tens[e + 1])
  BY DEF AtLeastDecade, Top
<1> HIDE DEF L, F, q, e
<1>4. CASE L > q + 1
  BY <1>1, <1>2, <1>3, <1>4
<1>5. CASE L = q + 1
  <2>1. e >= 1 \/ Top(m) # 0
    BY <1>1, <1>2, <1>5
  <2>2. Top(m) >= Tens[e + 1] <=> e <= 4 - F
    BY <1>1, <1>2, <2>1, TopDecade DEF F
  <2>3. QED
    BY <1>1, <1>2, <1>3, <1>5, <2>2
<1>6. CASE L < q + 1
  BY <1>1, <1>2, <1>3, <1>6
<1>7. QED
  BY <1>1, <1>2, <1>4, <1>5, <1>6

\* A magnitude that is at most another has no more limbs, or a first limb that is no larger.
LEMMA LeqTop ==
    ASSUME NEW a, IsMagnitude(a), NEW b, Top(b) \in Nat, Leq(a, b)
    PROVE  Len(a) < Len(b) \/ (Len(a) = Len(b) /\ Top(a) <= Top(b))
<1>0. /\ Len(a) \in Nat /\ Len(a) >= 1 /\ Top(a) \in Limb
      /\ \A k \in 1..Len(a) : a[k] \in Limb
  BY Limbs
<1>1. Top(a) \in Nat /\ Top(b) \in Nat
  BY <1>0, LimbIs
<1>2. CASE a = b
  BY <1>1, <1>2
<1>3. CASE Len(a) = Len(b) /\ \E i \in 1..Len(a) : a[i] < b[i] /\ \A j \in i + 1..Len(a) : a[j] = b[j]
  <2>1. PICK i \in 1..Len(a) : a[i] < b[i] /\ \A j \in i + 1..Len(a) : a[j] = b[j]
    BY <1>3
  <2>2. CASE i = Len(a)
    BY <1>1, <1>3, <2>1, <2>2 DEF Top
  <2>3. CASE i # Len(a)
    <3>1. Len(a) \in i + 1..Len(a)
      BY <1>0, <2>3
    <3>2. Top(a) = Top(b)
      BY <1>3, <2>1, <3>1 DEF Top
    <3>3. QED
      BY <1>1, <1>3, <3>2
  <2>4. QED
    BY <2>2, <2>3
<1>4. QED
  BY <1>2, <1>3 DEF Leq

\* A magnitude is at most one whose lower limbs are all nines when it has fewer limbs, or
\* as many and a first one that is no larger.
LEMMA LeqNines ==
    ASSUME NEW m, IsMagnitude(m), NEW b, b \in Seq(Limb), Len(b) \in Nat, Len(b) >= 1, Len(b) <= 5,
           \A j \in 1..Len(b) - 1 : b[j] = 9999
    PROVE  Leq(m, b) <=> Len(m) < Len(b) \/ (Len(m) = Len(b) /\ Top(m) <= Top(b))
<1>0. /\ Len(m) \in Nat /\ Len(m) >= 1 /\ Top(m) \in Limb
      /\ \A k \in 1..Len(m) : m[k] \in Limb
  BY Limbs
<1>1. Top(b) \in Nat
  <2>1. Len(b) \in 1..Len(b)
    OBVIOUS
  <2>2. \A k \in 1..Len(b) : b[k] \in Limb
    OBVIOUS
  <2>3. QED
    BY <2>1, <2>2, LimbIs DEF Top
<1>2. Leq(m, b) => Len(m) < Len(b) \/ (Len(m) = Len(b) /\ Top(m) <= Top(b))
  BY <1>1, LeqTop
<1>3. ASSUME Len(m) = Len(b), Top(m) <= Top(b), ~Leq(m, b) PROVE FALSE
  <2>1. \A k \in 1..Len(m) : m[k] \in Nat /\ b[k] \in Nat
    BY <1>0, <1>3, LimbIs
  <2>2. \A k \in 1..Len(m) : m[k] <= b[k]
    <3> SUFFICES ASSUME NEW k \in 1..Len(m) PROVE m[k] <= b[k]
      OBVIOUS
    <3>1. CASE k = Len(m)
      BY <1>3, <3>1 DEF Top
    <3>2. CASE k # Len(m)
      <4>1. b[k] = 9999
        BY <1>0, <1>3, <3>2
      <4>2. QED
        BY <1>0, <4>1, LimbIs
    <3>3. QED
      BY <3>1, <3>2
  <2>3. \A i \in 1..Len(m) : (\A j \in i + 1..Len(m) : m[j] = b[j]) => m[i] = b[i]
    <3> SUFFICES ASSUME NEW i \in 1..Len(m), \A j \in i + 1..Len(m) : m[j] = b[j] PROVE m[i] = b[i]
      OBVIOUS
    <3>1. ~(m[i] < b[i])
      BY <1>3 DEF Leq
    <3>2. QED
      BY <2>1, <2>2, <3>1
  <2> DEFINE Same(i) == i \in 1..Len(m) => m[i] = b[i]
  <2>4. \A i \in 1..Len(m) : (\A j \in i + 1..Len(m) : Same(j)) => Same(i)
    BY <2>3
  <2>5. Len(m) \in Nat /\ Len(m) >= 1 /\ Len(m) <= 5
    BY <1>0, <1>3
  <2>6. \A i \in Nat : i > Len(m) => Same(i)
    BY <1>0
  <2> HIDE DEF Same
  <2>7. \A i \in 1..5 : (\A j \in 1..5 : j > i => Same(j)) => Same(i)
    <3> SUFFICES ASSUME NEW i \in 1..5, \A j \in 1..5 : j > i => Same(j) PROVE Same(i)
      OBVIOUS
    <3>1. CASE i > Len(m)
      BY <2>6, <3>1
    <3>2. CASE ~(i > Len(m))
      <4>1. i \in 1..Len(m) /\ \A j \in i + 1..Len(m) : j \in 1..5 /\ j > i
        BY <2>5, <3>2
      <4>2. QED
        BY <2>4, <4>1
    <3>3. QED
      BY <3>1, <3>2
  <2>8. Same(5)
    BY <2>7
  <2>9. Same(4)
    BY <2>7, <2>8
  <2>10. Same(3)
    BY <2>7, <2>8, <2>9
  <2>11. Same(2)
    BY <2>7, <2>8, <2>9, <2>10
  <2>12. Same(1)
    BY <2>7, <2>8, <2>9, <2>10, <2>11
  <2>13. \A i \in 1..Len(m) : m[i] = b[i]
    BY <2>5, <2>8, <2>9, <2>10, <2>11, <2>12 DEF Same
  <2>14. m \in Seq(Limb)
    BY DEF IsMagnitude
  <2>15. m = b
    BY <1>3, <2>13, <2>14
  <2>16. QED
    BY <1>3, <2>15 DEF Leq
<1>4. Len(m) < Len(b) => Leq(m, b)
  BY DEF Leq
<1>5. QED
  BY <1>2, <1>3, <1>4

\* The arms of digit_count are the decades: the end of the k-th is the last number of k
\* digits.
LEMMA EndsAre ==
    ASSUME NEW m, IsMagnitude(m), NEW k \in 1..19
    PROVE  ~Leq(m, Ends[k]) <=> AtLeastDecade(m, k)
<1> DEFINE Nines(b, l, top) ==
             /\ b \in Seq(Limb) /\ Len(b) = l /\ Top(b) = top
             /\ \A j \in 1..l - 1 : b[j] = 9999
<1>0. Len(m) \in Nat /\ Len(m) >= 1 /\ Top(m) \in Nat /\ Top(m) <= 9999 /\ (Len(m) > 1 => Top(m) >= 1)
  BY Limbs, LimbIs
<1>1. ASSUME NEW b, NEW l \in 1..5, NEW top \in Nat, Nines(b, l, top)
      PROVE  ~Leq(m, b) <=> Len(m) > l \/ (Len(m) = l /\ Top(m) >= top + 1)
  <2>1. Leq(m, b) <=> Len(m) < Len(b) \/ (Len(m) = Len(b) /\ Top(m) <= Top(b))
    <3>1. /\ b \in Seq(Limb) /\ Len(b) \in Nat /\ Len(b) >= 1 /\ Len(b) <= 5
          /\ \A j \in 1..Len(b) - 1 : b[j] = 9999
      BY <1>1
    <3>2. QED
      BY <3>1, LeqNines
  <2>2. QED
    BY <1>0, <1>1, <2>1
<1>2. Tens[1] = 1 /\ Tens[2] = 10 /\ Tens[3] = 100 /\ Tens[4] = 1000
  BY DEF Tens
<1>2a. PICK len \in Nat : len = Len(m)
  BY <1>0
<1>3. CASE k = 1
  <2>1. Ends[k] = <<9>>
    BY <1>3 DEF Ends
  <2>2. Nines(Ends[k], 1, 9)
    BY <2>1 DEF Top, Limb
  <2>3. ~Leq(m, Ends[k]) <=> Len(m) > 1 \/ (Len(m) = 1 /\ Top(m) >= 10)
    BY <1>1, <2>2
  <2>4. AtLeastDecade(m, k) <=> Len(m) > 1 \/ (Len(m) = 1 /\ Top(m) >= 10)
    BY <1>2, <1>3 DEF AtLeastDecade, Top
  <2>5. QED
    BY <1>0, <2>3, <2>4
<1>4. CASE k = 2
  <2>1. Ends[k] = <<99>>
    BY <1>4 DEF Ends
  <2>2. Nines(Ends[k], 1, 99)
    BY <2>1 DEF Top, Limb
  <2>3. ~Leq(m, Ends[k]) <=> Len(m) > 1 \/ (Len(m) = 1 /\ Top(m) >= 100)
    BY <1>1, <2>2
  <2>4. AtLeastDecade(m, k) <=> Len(m) > 1 \/ (Len(m) = 1 /\ Top(m) >= 100)
    BY <1>2, <1>4 DEF AtLeastDecade, Top
  <2>5. QED
    BY <1>0, <2>3, <2>4
<1>5. CASE k = 3
  <2>1. Ends[k] = <<999>>
    BY <1>5 DEF Ends
  <2>2. Nines(Ends[k], 1, 999)
    BY <2>1 DEF Top, Limb
  <2>3. ~Leq(m, Ends[k]) <=> Len(m) > 1 \/ (Len(m) = 1 /\ Top(m) >= 1000)
    BY <1>1, <2>2
  <2>4. AtLeastDecade(m, k) <=> Len(m) > 1 \/ (Len(m) = 1 /\ Top(m) >= 1000)
    BY <1>2, <1>5 DEF AtLeastDecade, Top
  <2>5. QED
    BY <1>0, <2>3, <2>4
<1>6. CASE k = 4
  <2>1. Ends[k] = <<9999>>
    BY <1>6 DEF Ends
  <2>2. Nines(Ends[k], 1, 9999)
    BY <2>1 DEF Top, Limb
  <2>3. ~Leq(m, Ends[k]) <=> Len(m) > 1 \/ (Len(m) = 1 /\ Top(m) >= 10000)
    BY <1>1, <2>2
  <2>4. AtLeastDecade(m, k) <=> Len(m) > 2 \/ (Len(m) = 2 /\ Top(m) >= 1)
    BY <1>2, <1>6 DEF AtLeastDecade, Top
  <2>5. \A l \in Nat : l > 1 <=> l > 2 \/ l = 2
    OBVIOUS
  <2>6. ~(Top(m) >= 10000) /\ (Len(m) = 2 => Top(m) >= 1)
    BY <1>0
  <2>7. Len(m) > 1 <=> Len(m) > 2 \/ Len(m) = 2
    <3>1. len > 1 <=> len > 2 \/ len = 2
      BY <2>5
    <3>2. QED
      BY <1>2a, <3>1
  <2>8. QED
    BY <2>3, <2>4, <2>6, <2>7
<1>7. CASE k = 5
  <2>1. Ends[k] = <<9999, 9>>
    BY <1>7 DEF Ends
  <2>2. Nines(Ends[k], 2, 9)
    BY <2>1 DEF Top, Limb
  <2>3. ~Leq(m, Ends[k]) <=> Len(m) > 2 \/ (Len(m) = 2 /\ Top(m) >= 10)
    BY <1>1, <2>2
  <2>4. AtLeastDecade(m, k) <=> Len(m) > 2 \/ (Len(m) = 2 /\ Top(m) >= 10)
    BY <1>2, <1>7 DEF AtLeastDecade, Top
  <2>5. QED
    BY <1>0, <2>3, <2>4
<1>8. CASE k = 6
  <2>1. Ends[k] = <<9999, 99>>
    BY <1>8 DEF Ends
  <2>2. Nines(Ends[k], 2, 99)
    BY <2>1 DEF Top, Limb
  <2>3. ~Leq(m, Ends[k]) <=> Len(m) > 2 \/ (Len(m) = 2 /\ Top(m) >= 100)
    BY <1>1, <2>2
  <2>4. AtLeastDecade(m, k) <=> Len(m) > 2 \/ (Len(m) = 2 /\ Top(m) >= 100)
    BY <1>2, <1>8 DEF AtLeastDecade, Top
  <2>5. QED
    BY <1>0, <2>3, <2>4
<1>9. CASE k = 7
  <2>1. Ends[k] = <<9999, 999>>
    BY <1>9 DEF Ends
  <2>2. Nines(Ends[k], 2, 999)
    BY <2>1 DEF Top, Limb
  <2>3. ~Leq(m, Ends[k]) <=> Len(m) > 2 \/ (Len(m) = 2 /\ Top(m) >= 1000)
    BY <1>1, <2>2
  <2>4. AtLeastDecade(m, k) <=> Len(m) > 2 \/ (Len(m) = 2 /\ Top(m) >= 1000)
    BY <1>2, <1>9 DEF AtLeastDecade, Top
  <2>5. QED
    BY <1>0, <2>3, <2>4
<1>10. CASE k = 8
  <2>1. Ends[k] = <<9999, 9999>>
    BY <1>10 DEF Ends
  <2>2. Nines(Ends[k], 2, 9999)
    BY <2>1 DEF Top, Limb
  <2>3. ~Leq(m, Ends[k]) <=> Len(m) > 2 \/ (Len(m) = 2 /\ Top(m) >= 10000)
    BY <1>1, <2>2
  <2>4. AtLeastDecade(m, k) <=> Len(m) > 3 \/ (Len(m) = 3 /\ Top(m) >= 1)
    BY <1>2, <1>10 DEF AtLeastDecade, Top
  <2>5. \A l \in Nat : l > 2 <=> l > 3 \/ l = 3
    OBVIOUS
  <2>6. ~(Top(m) >= 10000) /\ (Len(m) = 3 => Top(m) >= 1)
    BY <1>0
  <2>7. Len(m) > 2 <=> Len(m) > 3 \/ Len(m) = 3
    <3>1. len > 2 <=> len > 3 \/ len = 3
      BY <2>5
    <3>2. QED
      BY <1>2a, <3>1
  <2>8. QED
    BY <2>3, <2>4, <2>6, <2>7
<1>11. CASE k = 9
  <2>1. Ends[k] = <<9999, 9999, 9>>
    BY <1>11 DEF Ends
  <2>2. Nines(Ends[k], 3, 9)
    BY <2>1 DEF Top, Limb
  <2>3. ~Leq(m, Ends[k]) <=> Len(m) > 3 \/ (Len(m) = 3 /\ Top(m) >= 10)
    BY <1>1, <2>2
  <2>4. AtLeastDecade(m, k) <=> Len(m) > 3 \/ (Len(m) = 3 /\ Top(m) >= 10)
    BY <1>2, <1>11 DEF AtLeastDecade, Top
  <2>5. QED
    BY <1>0, <2>3, <2>4
<1>12. CASE k = 10
  <2>1. Ends[k] = <<9999, 9999, 99>>
    BY <1>12 DEF Ends
  <2>2. Nines(Ends[k], 3, 99)
    BY <2>1 DEF Top, Limb
  <2>3. ~Leq(m, Ends[k]) <=> Len(m) > 3 \/ (Len(m) = 3 /\ Top(m) >= 100)
    BY <1>1, <2>2
  <2>4. AtLeastDecade(m, k) <=> Len(m) > 3 \/ (Len(m) = 3 /\ Top(m) >= 100)
    BY <1>2, <1>12 DEF AtLeastDecade, Top
  <2>5. QED
    BY <1>0, <2>3, <2>4
<1>13. CASE k = 11
  <2>1. Ends[k] = <<9999, 9999, 999>>
    BY <1>13 DEF Ends
  <2>2. Nines(Ends[k], 3, 999)
    BY <2>1 DEF Top, Limb
  <2>3. ~Leq(m, Ends[k]) <=> Len(m) > 3 \/ (Len(m) = 3 /\ Top(m) >= 1000)
    BY <1>1, <2>2
  <2>4. AtLeastDecade(m, k) <=> Len(m) > 3 \/ (Len(m) = 3 /\ Top(m) >= 1000)
    BY <1>2, <1>13 DEF AtLeastDecade, Top
  <2>5. QED
    BY <1>0, <2>3, <2>4
<1>14. CASE k = 12
  <2>1. Ends[k] = <<9999, 9999, 9999>>
    BY <1>14 DEF Ends
  <2>2. Nines(Ends[k], 3, 9999)
    BY <2>1 DEF Top, Limb
  <2>3. ~Leq(m, Ends[k]) <=> Len(m) > 3 \/ (Len(m) = 3 /\ Top(m) >= 10000)
    BY <1>1, <2>2
  <2>4. AtLeastDecade(m, k) <=> Len(m) > 4 \/ (Len(m) = 4 /\ Top(m) >= 1)
    BY <1>2, <1>14 DEF AtLeastDecade, Top
  <2>5. \A l \in Nat : l > 3 <=> l > 4 \/ l = 4
    OBVIOUS
  <2>6. ~(Top(m) >= 10000) /\ (Len(m) = 4 => Top(m) >= 1)
    BY <1>0
  <2>7. Len(m) > 3 <=> Len(m) > 4 \/ Len(m) = 4
    <3>1. len > 3 <=> len > 4 \/ len = 4
      BY <2>5
    <3>2. QED
      BY <1>2a, <3>1
  <2>8. QED
    BY <2>3, <2>4, <2>6, <2>7
<1>15. CASE k = 13
  <2>1. Ends[k] = <<9999, 9999, 9999, 9>>
    BY <1>15 DEF Ends
  <2>2. Nines(Ends[k], 4, 9)
    BY <2>1 DEF Top, Limb
  <2>3. ~Leq(m, Ends[k]) <=> Len(m) > 4 \/ (Len(m) = 4 /\ Top(m) >= 10)
    BY <1>1, <2>2
  <2>4. AtLeastDecade(m, k) <=> Len(m) > 4 \/ (Len(m) = 4 /\ Top(m) >= 10)
    BY <1>2, <1>15 DEF AtLeastDecade, Top
  <2>5. QED
    BY <1>0, <2>3, <2>4
<1>16. CASE k = 14
  <2>1. Ends[k] = <<9999, 9999, 9999, 99>>
    BY <1>16 DEF Ends
  <2>2. Nines(Ends[k], 4, 99)
    BY <2>1 DEF Top, Limb
  <2>3. ~Leq(m, Ends[k]) <=> Len(m) > 4 \/ (Len(m) = 4 /\ Top(m) >= 100)
    BY <1>1, <2>2
  <2>4. AtLeastDecade(m, k) <=> Len(m) > 4 \/ (Len(m) = 4 /\ Top(m) >= 100)
    BY <1>2, <1>16 DEF AtLeastDecade, Top
  <2>5. QED
    BY <1>0, <2>3, <2>4
<1>17. CASE k = 15
  <2>1. Ends[k] = <<9999, 9999, 9999, 999>>
    BY <1>17 DEF Ends
  <2>2. Nines(Ends[k], 4, 999)
    BY <2>1 DEF Top, Limb
  <2>3. ~Leq(m, Ends[k]) <=> Len(m) > 4 \/ (Len(m) = 4 /\ Top(m) >= 1000)
    BY <1>1, <2>2
  <2>4. AtLeastDecade(m, k) <=> Len(m) > 4 \/ (Len(m) = 4 /\ Top(m) >= 1000)
    BY <1>2, <1>17 DEF AtLeastDecade, Top
  <2>5. QED
    BY <1>0, <2>3, <2>4
<1>18. CASE k = 16
  <2>1. Ends[k] = <<9999, 9999, 9999, 9999>>
    BY <1>18 DEF Ends
  <2>2. Nines(Ends[k], 4, 9999)
    BY <2>1 DEF Top, Limb
  <2>3. ~Leq(m, Ends[k]) <=> Len(m) > 4 \/ (Len(m) = 4 /\ Top(m) >= 10000)
    BY <1>1, <2>2
  <2>4. AtLeastDecade(m, k) <=> Len(m) > 5 \/ (Len(m) = 5 /\ Top(m) >= 1)
    BY <1>2, <1>18 DEF AtLeastDecade, Top
  <2>5. \A l \in Nat : l > 4 <=> l > 5 \/ l = 5
    OBVIOUS
  <2>6. ~(Top(m) >= 10000) /\ (Len(m) = 5 => Top(m) >= 1)
    BY <1>0
  <2>7. Len(m) > 4 <=> Len(m) > 5 \/ Len(m) = 5
    <3>1. len > 4 <=> len > 5 \/ len = 5
      BY <2>5
    <3>2. QED
      BY <1>2a, <3>1
  <2>8. QED
    BY <2>3, <2>4, <2>6, <2>7
<1>19. CASE k = 17
  <2>1. Ends[k] = <<9999, 9999, 9999, 9999, 9>>
    BY <1>19 DEF Ends
  <2>2. Nines(Ends[k], 5, 9)
    BY <2>1 DEF Top, Limb
  <2>3. ~Leq(m, Ends[k]) <=> Len(m) > 5 \/ (Len(m) = 5 /\ Top(m) >= 10)
    BY <1>1, <2>2
  <2>4. AtLeastDecade(m, k) <=> Len(m) > 5 \/ (Len(m) = 5 /\ Top(m) >= 10)
    BY <1>2, <1>19 DEF AtLeastDecade, Top
  <2>5. QED
    BY <1>0, <2>3, <2>4
<1>20. CASE k = 18
  <2>1. Ends[k] = <<9999, 9999, 9999, 9999, 99>>
    BY <1>20 DEF Ends
  <2>2. Nines(Ends[k], 5, 99)
    BY <2>1 DEF Top, Limb
  <2>3. ~Leq(m, Ends[k]) <=> Len(m) > 5 \/ (Len(m) = 5 /\ Top(m) >= 100)
    BY <1>1, <2>2
  <2>4. AtLeastDecade(m, k) <=> Len(m) > 5 \/ (Len(m) = 5 /\ Top(m) >= 100)
    BY <1>2, <1>20 DEF AtLeastDecade, Top
  <2>5. QED
    BY <1>0, <2>3, <2>4
<1>21. CASE k = 19
  <2>1. Ends[k] = <<9999, 9999, 9999, 9999, 999>>
    BY <1>21 DEF Ends
  <2>2. Nines(Ends[k], 5, 999)
    BY <2>1 DEF Top, Limb
  <2>3. ~Leq(m, Ends[k]) <=> Len(m) > 5 \/ (Len(m) = 5 /\ Top(m) >= 1000)
    BY <1>1, <2>2
  <2>4. AtLeastDecade(m, k) <=> Len(m) > 5 \/ (Len(m) = 5 /\ Top(m) >= 1000)
    BY <1>2, <1>21 DEF AtLeastDecade, Top
  <2>5. QED
    BY <1>0, <2>3, <2>4
<1>22. QED
  BY <1>3, <1>4, <1>5, <1>6, <1>7, <1>8, <1>9, <1>10, <1>11, <1>12, <1>13, <1>14, <1>15, <1>16, <1>17, <1>18, <1>19, <1>20, <1>21

\* No magnitude has more digits than the largest one.
LEMMA SizeBound ==
    ASSUME NEW m, IsMagnitude(m), NEW b, Len(b) \in Nat, Top(b) \in Limb, Leq(m, b)
    PROVE  Size(m) <= 4 * Len(b) + 1 - First(Top(b))
<1>1. /\ Len(m) \in Nat /\ Top(m) \in Limb /\ First(Top(m)) \in 1..4
      /\ Size(m) = 4 * Len(m) + 1 - First(Top(m))
  BY Limbs
<1>2. First(Top(b)) \in 1..4
  BY FirstDigit
<1>3. Top(b) \in Nat /\ Top(m) \in Nat
  BY <1>1, LimbIs
<1>4. Len(m) < Len(b) \/ (Len(m) = Len(b) /\ Top(m) <= Top(b))
  BY <1>3, LeqTop
<1>5. CASE Len(m) < Len(b)
  BY <1>1, <1>2, <1>5
<1>6. CASE Len(m) = Len(b) /\ Top(m) <= Top(b)
  <2>1. First(Top(m)) >= First(Top(b))
    BY <1>3, <1>6 DEF First
  <2>2. QED
    BY <1>1, <1>2, <1>6, <2>1
<1>7. QED
  BY <1>4, <1>5, <1>6

\* The last arm of each table is the one of the type's largest magnitude.
LEMMA LastArms ==
    /\ \A t \in {"u8", "i8", "u16", "i16", "u32", "i32", "u64", "i64"} :
         /\ Len(MaxMag[t]) \in Nat /\ Top(MaxMag[t]) \in Limb
         /\ Arms[t] = 4 * Len(MaxMag[t]) + 1 - First(Top(MaxMag[t]))
    /\ DOMAIN MinMag = {"i8", "i16", "i32", "i64"}
    /\ \A t \in {"i8", "i16", "i32", "i64"} :
         /\ Len(MinMag[t]) \in Nat /\ Top(MinMag[t]) \in Limb
         /\ NegArms[t] = 4 * Len(MinMag[t]) + 1 - First(Top(MinMag[t]))
<1>1. /\ Len(MaxMag["u8"]) \in Nat /\ Top(MaxMag["u8"]) \in Limb
      /\ Arms["u8"] = 4 * Len(MaxMag["u8"]) + 1 - First(Top(MaxMag["u8"]))
  <2>1. MaxMag["u8"] = <<255>> /\ Arms["u8"] = 3
    BY DEF MaxMag, Arms
  <2>2. Len(<<255>>) = 1 /\ Top(<<255>>) = 255
    BY DEF Top
  <2>3. QED
    BY <2>1, <2>2 DEF Limb, First
<1>2. /\ Len(MaxMag["i8"]) \in Nat /\ Top(MaxMag["i8"]) \in Limb
      /\ Arms["i8"] = 4 * Len(MaxMag["i8"]) + 1 - First(Top(MaxMag["i8"]))
  <2>1. MaxMag["i8"] = <<127>> /\ Arms["i8"] = 3
    BY DEF MaxMag, Arms
  <2>2. Len(<<127>>) = 1 /\ Top(<<127>>) = 127
    BY DEF Top
  <2>3. QED
    BY <2>1, <2>2 DEF Limb, First
<1>3. /\ Len(MaxMag["u16"]) \in Nat /\ Top(MaxMag["u16"]) \in Limb
      /\ Arms["u16"] = 4 * Len(MaxMag["u16"]) + 1 - First(Top(MaxMag["u16"]))
  <2>1. MaxMag["u16"] = <<5535, 6>> /\ Arms["u16"] = 5
    BY DEF MaxMag, Arms
  <2>2. Len(<<5535, 6>>) = 2 /\ Top(<<5535, 6>>) = 6
    BY DEF Top
  <2>3. QED
    BY <2>1, <2>2 DEF Limb, First
<1>4. /\ Len(MaxMag["i16"]) \in Nat /\ Top(MaxMag["i16"]) \in Limb
      /\ Arms["i16"] = 4 * Len(MaxMag["i16"]) + 1 - First(Top(MaxMag["i16"]))
  <2>1. MaxMag["i16"] = <<2767, 3>> /\ Arms["i16"] = 5
    BY DEF MaxMag, Arms
  <2>2. Len(<<2767, 3>>) = 2 /\ Top(<<2767, 3>>) = 3
    BY DEF Top
  <2>3. QED
    BY <2>1, <2>2 DEF Limb, First
<1>5. /\ Len(MaxMag["u32"]) \in Nat /\ Top(MaxMag["u32"]) \in Limb
      /\ Arms["u32"] = 4 * Len(MaxMag["u32"]) + 1 - First(Top(MaxMag["u32"]))
  <2>1. MaxMag["u32"] = <<7295, 9496, 42>> /\ Arms["u32"] = 10
    BY DEF MaxMag, Arms
  <2>2. Len(<<7295, 9496, 42>>) = 3 /\ Top(<<7295, 9496, 42>>) = 42
    BY DEF Top
  <2>3. QED
    BY <2>1, <2>2 DEF Limb, First
<1>6. /\ Len(MaxMag["i32"]) \in Nat /\ Top(MaxMag["i32"]) \in Limb
      /\ Arms["i32"] = 4 * Len(MaxMag["i32"]) + 1 - First(Top(MaxMag["i32"]))
  <2>1. MaxMag["i32"] = <<3647, 4748, 21>> /\ Arms["i32"] = 10
    BY DEF MaxMag, Arms
  <2>2. Len(<<3647, 4748, 21>>) = 3 /\ Top(<<3647, 4748, 21>>) = 21
    BY DEF Top
  <2>3. QED
    BY <2>1, <2>2 DEF Limb, First
<1>7. /\ Len(MaxMag["u64"]) \in Nat /\ Top(MaxMag["u64"]) \in Limb
      /\ Arms["u64"] = 4 * Len(MaxMag["u64"]) + 1 - First(Top(MaxMag["u64"]))
  <2>1. MaxMag["u64"] = <<1615, 955, 737, 6744, 1844>> /\ Arms["u64"] = 20
    BY DEF MaxMag, Arms
  <2>2. Len(<<1615, 955, 737, 6744, 1844>>) = 5 /\ Top(<<1615, 955, 737, 6744, 1844>>) = 1844
    BY DEF Top
  <2>3. QED
    BY <2>1, <2>2 DEF Limb, First
<1>8. /\ Len(MaxMag["i64"]) \in Nat /\ Top(MaxMag["i64"]) \in Limb
      /\ Arms["i64"] = 4 * Len(MaxMag["i64"]) + 1 - First(Top(MaxMag["i64"]))
  <2>1. MaxMag["i64"] = <<5807, 5477, 368, 3372, 922>> /\ Arms["i64"] = 19
    BY DEF MaxMag, Arms
  <2>2. Len(<<5807, 5477, 368, 3372, 922>>) = 5 /\ Top(<<5807, 5477, 368, 3372, 922>>) = 922
    BY DEF Top
  <2>3. QED
    BY <2>1, <2>2 DEF Limb, First
<1>9. /\ Len(MinMag["i8"]) \in Nat /\ Top(MinMag["i8"]) \in Limb
      /\ NegArms["i8"] = 4 * Len(MinMag["i8"]) + 1 - First(Top(MinMag["i8"]))
  <2>1. MinMag["i8"] = <<128>> /\ NegArms["i8"] = 3
    BY DEF MinMag, NegArms
  <2>2. Len(<<128>>) = 1 /\ Top(<<128>>) = 128
    BY DEF Top
  <2>3. QED
    BY <2>1, <2>2 DEF Limb, First
<1>10. /\ Len(MinMag["i16"]) \in Nat /\ Top(MinMag["i16"]) \in Limb
      /\ NegArms["i16"] = 4 * Len(MinMag["i16"]) + 1 - First(Top(MinMag["i16"]))
  <2>1. MinMag["i16"] = <<2768, 3>> /\ NegArms["i16"] = 5
    BY DEF MinMag, NegArms
  <2>2. Len(<<2768, 3>>) = 2 /\ Top(<<2768, 3>>) = 3
    BY DEF Top
  <2>3. QED
    BY <2>1, <2>2 DEF Limb, First
<1>11. /\ Len(MinMag["i32"]) \in Nat /\ Top(MinMag["i32"]) \in Limb
      /\ NegArms["i32"] = 4 * Len(MinMag["i32"]) + 1 - First(Top(MinMag["i32"]))
  <2>1. MinMag["i32"] = <<3648, 4748, 21>> /\ NegArms["i32"] = 10
    BY DEF MinMag, NegArms
  <2>2. Len(<<3648, 4748, 21>>) = 3 /\ Top(<<3648, 4748, 21>>) = 21
    BY DEF Top
  <2>3. QED
    BY <2>1, <2>2 DEF Limb, First
<1>12. /\ Len(MinMag["i64"]) \in Nat /\ Top(MinMag["i64"]) \in Limb
      /\ NegArms["i64"] = 4 * Len(MinMag["i64"]) + 1 - First(Top(MinMag["i64"]))
  <2>1. MinMag["i64"] = <<5808, 5477, 368, 3372, 922>> /\ NegArms["i64"] = 19
    BY DEF MinMag, NegArms
  <2>2. Len(<<5808, 5477, 368, 3372, 922>>) = 5 /\ Top(<<5808, 5477, 368, 3372, 922>>) = 922
    BY DEF Top
  <2>3. QED
    BY <2>1, <2>2 DEF Limb, First
<1>13. DOMAIN MinMag = {"i8", "i16", "i32", "i64"}
  BY DEF MinMag
<1>14. QED
  BY <1>1, <1>2, <1>3, <1>4, <1>5, <1>6, <1>7, <1>8, <1>9, <1>10, <1>11, <1>12, <1>13

SignSize(x) == IF x.neg THEN 1 ELSE 0

\* digit_count counts the bytes of the text.
LEMMA DigitCountIs ==
    ASSUME NEW t \in Types, NEW x, IsInteger(t, x)
    PROVE  DigitCount(t, x) = Size(x.mag) + SignSize(x)
<1> DEFINE m == x.mag
           last == IF x.neg THEN NegArms[t] ELSE Arms[t]
           S == {k \in 1..last - 1 : ~Leq(m, Ends[k])}
<1>1. IsMagnitude(m) /\ t \in {"u8", "i8", "u16", "i16", "u32", "i32", "u64", "i64"}
  BY NumAssumption DEF IsInteger
<1>2. Size(m) \in Nat /\ Size(m) >= 1
  BY <1>1, Limbs
<1>3. last \in Int /\ Size(m) <= last
  <2>1. CASE x.neg
    <3>1. Leq(m, MinMag[t]) /\ t \in {"i8", "i16", "i32", "i64"}
      BY <2>1, LastArms DEF IsInteger
    <3>2. /\ Len(MinMag[t]) \in Nat /\ Top(MinMag[t]) \in Limb
          /\ NegArms[t] = 4 * Len(MinMag[t]) + 1 - First(Top(MinMag[t]))
      BY <3>1, LastArms
    <3>3. First(Top(MinMag[t])) \in 1..4
      BY <3>2, FirstDigit
    <3>4. Size(m) <= 4 * Len(MinMag[t]) + 1 - First(Top(MinMag[t]))
      BY <1>1, <3>1, <3>2, SizeBound
    <3>5. QED
      BY <2>1, <3>2, <3>3, <3>4
  <2>2. CASE ~x.neg
    <3>1. Leq(m, MaxMag[t])
      BY <2>2 DEF IsInteger
    <3>2. /\ Len(MaxMag[t]) \in Nat /\ Top(MaxMag[t]) \in Limb
          /\ Arms[t] = 4 * Len(MaxMag[t]) + 1 - First(Top(MaxMag[t]))
      BY <1>1, LastArms
    <3>3. First(Top(MaxMag[t])) \in 1..4
      BY <3>2, FirstDigit
    <3>4. Size(m) <= 4 * Len(MaxMag[t]) + 1 - First(Top(MaxMag[t]))
      BY <1>1, <3>1, <3>2, SizeBound
    <3>5. QED
      BY <2>2, <3>2, <3>3, <3>4
  <2>3. QED
    BY <2>1, <2>2
<1>3a. last <= 20
  <2>1. CASE x.neg
    <3>1. t \in {"i8", "i16", "i32", "i64"}
      BY <2>1, LastArms DEF IsInteger
    <3>2. QED
      BY <2>1, <3>1 DEF NegArms
  <2>2. CASE ~x.neg
    BY <1>1, <2>2 DEF Arms
  <2>3. QED
    BY <2>1, <2>2
<1>4. DigitCount(t, x) = 1 + Cardinality(S) + SignSize(x)
  BY DEF DigitCount, SignSize
<1> HIDE DEF m, last
<1>5. S = 1..Size(m) - 1
  <2>1. ASSUME NEW k \in 1..last - 1 PROVE ~Leq(m, Ends[k]) <=> k <= Size(m) - 1
    <3>1. k \in 1..19 /\ k \in Nat /\ k >= 1
      BY <1>3, <1>3a
    <3>2. ~Leq(m, Ends[k]) <=> AtLeastDecade(m, k)
      BY <1>1, <3>1, EndsAre
    <3>3. QED
      BY <1>1, <3>1, <3>2, DecadesAre
  <2>2. QED
    BY <1>2, <1>3, <2>1
<1>6. Cardinality(1..Size(m) - 1) = Size(m) - 1
  <2>1. Size(m) - 1 \in Nat /\ 1 \in Int /\ Size(m) - 1 \in Int
    BY <1>2
  <2>2. Cardinality(1..Size(m) - 1) = IF 1 > Size(m) - 1 THEN 0 ELSE (Size(m) - 1) - 1 + 1
    BY <2>1, FS_Interval
  <2>3. QED
    BY <1>2, <2>2
<1>7. SignSize(x) \in Nat
  BY DEF SignSize
<1>8. Cardinality(S) = Size(m) - 1
  BY <1>5, <1>6, Zenon
<1> HIDE DEF S
<1>9. DigitCount(t, x) = Size(m) + SignSize(x)
  BY <1>2, <1>4, <1>7, <1>8
<1>10. QED
  BY <1>9 DEF m

-----------------------------------------------------------------------------
(* The complement of the complement.                                       *)

\* A word: five limbs.
IsWord(a) == \A i \in 1..5 : a[i] \in Nat /\ a[i] <= 9999

\* The number a word stands for.
Val(a) == a[1] + 10000 * (a[2] + 10000 * (a[3] + 10000 * (a[4] + 10000 * a[5])))

\* The indexes of a word.
LEMMA FiveLimbs ==
    /\ 1 \in 1..5 /\ 2 \in 1..5 /\ 3 \in 1..5 /\ 4 \in 1..5 /\ 5 \in 1..5
    /\ \A i \in 1..5 : i = 1 \/ i = 2 \/ i = 3 \/ i = 4 \/ i = 5
OBVIOUS

\* A word has a value.
LEMMA ValIsNat ==
    ASSUME NEW a, IsWord(a)
    PROVE  Val(a) \in Nat
<1>1. a[1] \in Nat /\ a[2] \in Nat /\ a[3] \in Nat /\ a[4] \in Nat /\ a[5] \in Nat
  BY DEF IsWord
<1>2. QED
  BY <1>1 DEF Val

\* The value of a word determines its limbs, and a smaller one has no larger first limb.
LEMMA ValUnique ==
    ASSUME NEW a, NEW b, IsWord(a), IsWord(b), Val(a) <= Val(b)
    PROVE  /\ a[5] <= b[5]
           /\ Val(a) = Val(b) => \A i \in 1..5 : a[i] = b[i]
<1> DEFINE x1 == a[1]
           x2 == a[2]
           x3 == a[3]
           x4 == a[4]
           x5 == a[5]
           a4 == x4 + 10000 * x5
           a3 == x3 + 10000 * a4
           a2 == x2 + 10000 * a3
           y1 == b[1]
           y2 == b[2]
           y3 == b[3]
           y4 == b[4]
           y5 == b[5]
           b4 == y4 + 10000 * y5
           b3 == y3 + 10000 * b4
           b2 == y2 + 10000 * b3
<1>1. /\ x1 \in Nat /\ x2 \in Nat /\ x3 \in Nat /\ x4 \in Nat /\ x5 \in Nat
      /\ x1 <= 9999 /\ x2 <= 9999 /\ x3 <= 9999 /\ x4 <= 9999 /\ x5 <= 9999
  BY DEF IsWord
<1>1a. /\ a4 = x4 + 10000 * x5 /\ a3 = x3 + 10000 * a4 /\ a2 = x2 + 10000 * a3
       /\ Val(a) = x1 + 10000 * a2
  BY DEF Val
<1>1b. a4 \in Nat /\ a3 \in Nat /\ a2 \in Nat
  BY <1>1
<1>2. /\ y1 \in Nat /\ y2 \in Nat /\ y3 \in Nat /\ y4 \in Nat /\ y5 \in Nat
      /\ y1 <= 9999 /\ y2 <= 9999 /\ y3 <= 9999 /\ y4 <= 9999 /\ y5 <= 9999
  BY DEF IsWord
<1>2a. /\ b4 = y4 + 10000 * y5 /\ b3 = y3 + 10000 * b4 /\ b2 = y2 + 10000 * b3
       /\ Val(b) = y1 + 10000 * b2
  BY DEF Val
<1>2b. b4 \in Nat /\ b3 \in Nat /\ b2 \in Nat
  BY <1>2
<1> HIDE DEF x1, x2, x3, x4, x5, y1, y2, y3, y4, y5,
             a2, a3, a4, b2, b3, b4
<1>3. a2 <= b2
  BY <1>1, <1>2, <1>1a, <1>2a, <1>1b, <1>2b
<1>4. a3 <= b3
  BY <1>1, <1>2, <1>1a, <1>2a, <1>1b, <1>2b, <1>3
<1>5. a4 <= b4
  BY <1>1, <1>2, <1>1a, <1>2a, <1>1b, <1>2b, <1>4
<1>6. x5 <= y5
  BY <1>1, <1>2, <1>1a, <1>2a, <1>1b, <1>2b, <1>5
<1>7. ASSUME Val(a) = Val(b) PROVE \A i \in 1..5 : a[i] = b[i]
  <2>1. x1 = y1 /\ a2 = b2
    BY <1>1, <1>2, <1>1a, <1>2a, <1>1b, <1>2b, <1>7
  <2>2. x2 = y2 /\ a3 = b3
    BY <1>1, <1>2, <1>1a, <1>2a, <1>1b, <1>2b, <2>1
  <2>3. x3 = y3 /\ a4 = b4
    BY <1>1, <1>2, <1>1a, <1>2a, <1>1b, <1>2b, <2>2
  <2>4. x4 = y4 /\ x5 = y5
    BY <1>1, <1>2, <1>1a, <1>2a, <1>1b, <1>2b, <2>3
  <2>5. a[1] = b[1] /\ a[2] = b[2] /\ a[3] = b[3] /\ a[4] = b[4] /\ a[5] = b[5]
    BY <2>1, <2>2, <2>3, <2>4 DEF x1, x2, x3, x4, x5, y1, y2, y3, y4, y5
  <2>6. QED
    BY <2>5, FiveLimbs
<1>8. QED
  BY <1>6, <1>7 DEF x5, y5

\* One limb of a subtraction, with the borrow it takes and the borrow it gives.
LEMMA BorrowStep ==
    ASSUME NEW x \in Nat, x <= 9999, NEW y \in Nat, y <= 9999, NEW c \in {0, 1}
    PROVE  LET d == IF x < y \/ (x = y /\ c = 1) THEN 1 ELSE 0
           IN  /\ (x - y - c) % 10000 = x - y - c + 10000 * d
               /\ (x - y - c) % 10000 \in Nat /\ (x - y - c) % 10000 <= 9999
<1>1. \A z \in Int : z >= 0 /\ z <= 9999 => z % 10000 = z
  OBVIOUS
<1>2. \A z \in Int : z < 0 /\ z >= -10000 => z % 10000 = z + 10000
  OBVIOUS
<1>3. x - y - c \in Int /\ (c = 0 \/ c = 1)
  OBVIOUS
<1>4. CASE x < y \/ (x = y /\ c = 1)
  <2>1. x - y - c < 0 /\ x - y - c >= -10000
    BY <1>3, <1>4
  <2>2. QED
    BY <1>2, <1>3, <1>4, <2>1
<1>5. CASE ~(x < y \/ (x = y /\ c = 1))
  <2>1. x - y - c >= 0 /\ x - y - c <= 9999
    BY <1>3, <1>5
  <2>2. QED
    BY <1>1, <1>3, <1>5, <2>1
<1>6. QED
  BY <1>4, <1>5

\* Minus is subtraction.
LEMMA MinusVal ==
    ASSUME NEW a, NEW b, IsWord(a), IsWord(b), Val(b) <= Val(a)
    PROVE  IsWord(Minus(a, b)) /\ Val(Minus(a, b)) = Val(a) - Val(b)
<1>0. /\ a[1] \in Nat /\ a[1] <= 9999 /\ b[1] \in Nat /\ b[1] <= 9999
      /\ a[2] \in Nat /\ a[2] <= 9999 /\ b[2] \in Nat /\ b[2] <= 9999
      /\ a[3] \in Nat /\ a[3] <= 9999 /\ b[3] \in Nat /\ b[3] <= 9999
      /\ a[4] \in Nat /\ a[4] <= 9999 /\ b[4] \in Nat /\ b[4] <= 9999
      /\ a[5] \in Nat /\ a[5] <= 9999 /\ b[5] \in Nat /\ b[5] <= 9999
  BY DEF IsWord
<1> DEFINE c(i) == IF Borrows(a, b, i) THEN 1 ELSE 0
           d == Minus(a, b)
           g(i) == IF a[i] < b[i] \/ (a[i] = b[i] /\ c(i) = 1) THEN 1 ELSE 0
<1>1. \A i \in 1..5 : c(i) \in {0, 1}
  OBVIOUS
<1>2. c(1) = 0 /\ c(2) = g(1) /\ c(3) = g(2) /\ c(4) = g(3) /\ c(5) = g(4)
  <2>1. ~Borrows(a, b, 1)
    BY DEF Borrows
  <2>2. \A i \in 1..4 : Borrows(a, b, i + 1) <=> a[i] < b[i] \/ (a[i] = b[i] /\ Borrows(a, b, i))
    <3> SUFFICES ASSUME NEW i \in 1..4
                 PROVE  Borrows(a, b, i + 1) <=> a[i] < b[i] \/ (a[i] = b[i] /\ Borrows(a, b, i))
      OBVIOUS
    <3>1. ASSUME Borrows(a, b, i + 1) PROVE a[i] < b[i] \/ (a[i] = b[i] /\ Borrows(a, b, i))
      <4>1. PICK j \in 1..i : a[j] < b[j] /\ \A k \in j + 1..i : a[k] = b[k]
        BY <3>1 DEF Borrows
      <4>2. CASE j = i
        BY <4>1, <4>2
      <4>3. CASE j # i
        <5>1. a[i] = b[i] /\ j \in 1..i - 1 /\ \A k \in j + 1..i - 1 : a[k] = b[k]
          BY <4>1, <4>3
        <5>2. QED
          BY <4>1, <5>1 DEF Borrows
      <4>4. QED
        BY <4>2, <4>3
    <3>2. ASSUME a[i] < b[i] PROVE Borrows(a, b, i + 1)
      <4>1. i \in 1..(i + 1) - 1 /\ \A k \in i + 1..(i + 1) - 1 : a[k] = b[k]
        OBVIOUS
      <4>2. QED
        BY <3>2, <4>1 DEF Borrows
    <3>3. ASSUME a[i] = b[i], Borrows(a, b, i) PROVE Borrows(a, b, i + 1)
      <4>1. PICK j \in 1..i - 1 : a[j] < b[j] /\ \A k \in j + 1..i - 1 : a[k] = b[k]
        BY <3>3 DEF Borrows
      <4>2. j \in 1..(i + 1) - 1 /\ \A k \in j + 1..(i + 1) - 1 : a[k] = b[k]
        BY <3>3, <4>1
      <4>3. QED
        BY <4>1, <4>2 DEF Borrows
    <3>4. QED
      BY <3>1, <3>2, <3>3
  <2>3. /\ Borrows(a, b, 2) <=> a[1] < b[1] \/ (a[1] = b[1] /\ Borrows(a, b, 1))
        /\ Borrows(a, b, 3) <=> a[2] < b[2] \/ (a[2] = b[2] /\ Borrows(a, b, 2))
        /\ Borrows(a, b, 4) <=> a[3] < b[3] \/ (a[3] = b[3] /\ Borrows(a, b, 3))
        /\ Borrows(a, b, 5) <=> a[4] < b[4] \/ (a[4] = b[4] /\ Borrows(a, b, 4))
    <3>1. 1 \in 1..4 /\ 2 \in 1..4 /\ 3 \in 1..4 /\ 4 \in 1..4 /\ 1 + 1 = 2 /\ 2 + 1 = 3 /\ 3 + 1 = 4 /\ 4 + 1 = 5
      OBVIOUS
    <3>2. QED
      BY <2>2, <3>1
  <2>4. QED
    BY <2>1, <2>3
<1>3. \A i \in 1..5 : d[i] = (a[i] - b[i] - c(i)) % 10000
  BY DEF Minus
<1> HIDE DEF c, d
<1>4. ASSUME NEW i \in 1..5
      PROVE  d[i] = a[i] - b[i] - c(i) + 10000 * g(i) /\ d[i] \in Nat /\ d[i] <= 9999
  <2>1. a[i] \in Nat /\ a[i] <= 9999 /\ b[i] \in Nat /\ b[i] <= 9999 /\ c(i) \in {0, 1}
    BY <1>1 DEF IsWord
  <2>2. /\ (a[i] - b[i] - c(i)) % 10000 = a[i] - b[i] - c(i) + 10000 * g(i)
        /\ (a[i] - b[i] - c(i)) % 10000 \in Nat /\ (a[i] - b[i] - c(i)) % 10000 <= 9999
    BY <2>1, BorrowStep
  <2>3. QED
    BY <1>3, <2>2
<1>5. IsWord(d)
  BY <1>4 DEF IsWord
<1>6. PICK c2 \in {0, 1}, c3 \in {0, 1}, c4 \in {0, 1}, c5 \in {0, 1}, c6 \in {0, 1} :
        c2 = g(1) /\ c3 = g(2) /\ c4 = g(3) /\ c5 = g(4) /\ c6 = g(5)
  OBVIOUS
<1>7. /\ d[1] = a[1] - b[1] + 10000 * c2
      /\ d[2] = a[2] - b[2] - c2 + 10000 * c3
      /\ d[3] = a[3] - b[3] - c3 + 10000 * c4
      /\ d[4] = a[4] - b[4] - c4 + 10000 * c5
      /\ d[5] = a[5] - b[5] - c5 + 10000 * c6
      /\ d[1] \in Nat /\ d[2] \in Nat /\ d[3] \in Nat /\ d[4] \in Nat /\ d[5] \in Nat
      /\ d[1] <= 9999 /\ d[2] <= 9999 /\ d[3] <= 9999 /\ d[4] <= 9999 /\ d[5] <= 9999
  <2> HIDE DEF g
  <2>1. /\ d[1] = a[1] - b[1] - c(1) + 10000 * g(1)
        /\ d[2] = a[2] - b[2] - c(2) + 10000 * g(2)
        /\ d[3] = a[3] - b[3] - c(3) + 10000 * g(3)
        /\ d[4] = a[4] - b[4] - c(4) + 10000 * g(4)
        /\ d[5] = a[5] - b[5] - c(5) + 10000 * g(5)
        /\ d[1] \in Nat /\ d[2] \in Nat /\ d[3] \in Nat /\ d[4] \in Nat /\ d[5] \in Nat
        /\ d[1] <= 9999 /\ d[2] <= 9999 /\ d[3] <= 9999 /\ d[4] <= 9999 /\ d[5] <= 9999
    BY <1>4, FiveLimbs
  <2>2. QED
    BY <1>0, <1>2, <1>6, <2>1
<1> DEFINE x1 == a[1]
           x2 == a[2]
           x3 == a[3]
           x4 == a[4]
           x5 == a[5]
           a4 == x4 + 10000 * x5
           a3 == x3 + 10000 * a4
           a2 == x2 + 10000 * a3
           y1 == b[1]
           y2 == b[2]
           y3 == b[3]
           y4 == b[4]
           y5 == b[5]
           b4 == y4 + 10000 * y5
           b3 == y3 + 10000 * b4
           b2 == y2 + 10000 * b3
           z1 == d[1]
           z2 == d[2]
           z3 == d[3]
           z4 == d[4]
           z5 == d[5]
           d4 == z4 + 10000 * z5
           d3 == z3 + 10000 * d4
           d2 == z2 + 10000 * d3
<1>8. /\ x1 \in Nat /\ x2 \in Nat /\ x3 \in Nat /\ x4 \in Nat /\ x5 \in Nat
      /\ x1 <= 9999 /\ x2 <= 9999 /\ x3 <= 9999 /\ x4 <= 9999 /\ x5 <= 9999
  BY DEF IsWord
<1>8a. /\ a4 = x4 + 10000 * x5 /\ a3 = x3 + 10000 * a4 /\ a2 = x2 + 10000 * a3
       /\ Val(a) = x1 + 10000 * a2
  BY DEF Val
<1>8b. a4 \in Nat /\ a3 \in Nat /\ a2 \in Nat
  BY <1>8
<1>9. /\ y1 \in Nat /\ y2 \in Nat /\ y3 \in Nat /\ y4 \in Nat /\ y5 \in Nat
      /\ y1 <= 9999 /\ y2 <= 9999 /\ y3 <= 9999 /\ y4 <= 9999 /\ y5 <= 9999
  BY DEF IsWord
<1>9a. /\ b4 = y4 + 10000 * y5 /\ b3 = y3 + 10000 * b4 /\ b2 = y2 + 10000 * b3
       /\ Val(b) = y1 + 10000 * b2
  BY DEF Val
<1>9b. b4 \in Nat /\ b3 \in Nat /\ b2 \in Nat
  BY <1>9
<1>10. /\ z1 \in Nat /\ z2 \in Nat /\ z3 \in Nat /\ z4 \in Nat /\ z5 \in Nat
      /\ z1 <= 9999 /\ z2 <= 9999 /\ z3 <= 9999 /\ z4 <= 9999 /\ z5 <= 9999
  BY <1>5 DEF IsWord
<1>10a. /\ d4 = z4 + 10000 * z5 /\ d3 = z3 + 10000 * d4 /\ d2 = z2 + 10000 * d3
       /\ Val(d) = z1 + 10000 * d2
  BY DEF Val
<1>10b. d4 \in Nat /\ d3 \in Nat /\ d2 \in Nat
  BY <1>10
<1>11. /\ z1 = x1 - y1 + 10000 * c2 /\ z2 = x2 - y2 - c2 + 10000 * c3
       /\ z3 = x3 - y3 - c3 + 10000 * c4 /\ z4 = x4 - y4 - c4 + 10000 * c5
       /\ z5 = x5 - y5 - c5 + 10000 * c6
  BY <1>7
<1> HIDE DEF x1, x2, x3, x4, x5, y1, y2, y3, y4, y5, z1, z2, z3, z4, z5,
             a2, a3, a4, b2, b3, b4, d2, d3, d4
<1>12. /\ c2 \in Nat /\ c3 \in Nat /\ c4 \in Nat /\ c5 \in Nat /\ c6 \in Nat
       /\ c2 <= 1 /\ c3 <= 1 /\ c4 <= 1 /\ c5 <= 1 /\ c6 <= 1
  OBVIOUS
<1>13. c6 = 0
  <2> SUFFICES ASSUME c6 = 1 PROVE FALSE
    BY <1>6
  <2>1. x5 - y5 - c5 <= -1
    BY <1>8, <1>9, <1>10, <1>11, <1>12
  <2>2. a4 - b4 - c4 <= -1
    BY <1>8, <1>9, <1>10, <1>8a, <1>9a, <1>11, <1>12, <2>1
  <2>3. a3 - b3 - c3 <= -1
    BY <1>8, <1>9, <1>10, <1>8a, <1>9a, <1>8b, <1>9b, <1>11, <1>12, <2>2
  <2>4. a2 - b2 - c2 <= -1
    BY <1>8, <1>9, <1>10, <1>8a, <1>9a, <1>8b, <1>9b, <1>11, <1>12, <2>3
  <2>5. x1 + 10000 * a2 < y1 + 10000 * b2
    BY <1>8, <1>9, <1>10, <1>8a, <1>9a, <1>8b, <1>9b, <1>11, <1>12, <2>4
  <2>6. QED
    BY <1>8, <1>9, <1>8a, <1>9a, <1>8b, <1>9b, <2>5
<1>14. z5 = x5 - y5 - c5
  BY <1>8, <1>9, <1>11, <1>12, <1>13
<1>15. d4 = a4 - b4 - c4
  <2>1. d4 = z4 + 10000 * z5 /\ a4 = x4 + 10000 * x5 /\ b4 = y4 + 10000 * y5
    BY <1>8a, <1>9a, <1>10a
  <2>2. z4 = x4 - y4 - c4 + 10000 * c5
    BY <1>11
  <2>3. QED
    BY <1>8, <1>9, <1>10, <1>12, <1>14, <2>1, <2>2
<1>16. d3 = a3 - b3 - c3
  <2>1. d3 = z3 + 10000 * d4 /\ a3 = x3 + 10000 * a4 /\ b3 = y3 + 10000 * b4
    BY <1>8a, <1>9a, <1>10a
  <2>2. z3 = x3 - y3 - c3 + 10000 * c4
    BY <1>11
  <2>3. QED
    BY <1>8, <1>9, <1>10, <1>8b, <1>9b, <1>12, <1>15, <2>1, <2>2
<1>17. d2 = a2 - b2 - c2
  <2>1. d2 = z2 + 10000 * d3 /\ a2 = x2 + 10000 * a3 /\ b2 = y2 + 10000 * b3
    BY <1>8a, <1>9a, <1>10a
  <2>2. z2 = x2 - y2 - c2 + 10000 * c3
    BY <1>11
  <2>3. QED
    BY <1>8, <1>9, <1>10, <1>8b, <1>9b, <1>12, <1>16, <2>1, <2>2
<1>18. z1 + 10000 * d2 = (x1 + 10000 * a2) - (y1 + 10000 * b2)
  <2>1. z1 = x1 - y1 + 10000 * c2
    BY <1>11
  <2>2. QED
    BY <1>8, <1>9, <1>8b, <1>9b, <1>12, <1>17, <2>1
<1>19. Val(d) = Val(a) - Val(b)
  BY <1>8a, <1>9a, <1>10a, <1>18
<1>20. QED
  BY <1>5, <1>19 DEF d

\* PlusOne adds one to a word that is not the last one.
LEMMA PlusOneVal ==
    ASSUME NEW a, NEW max, IsWord(a), a # max, a[5] < 9999
    PROVE  IsWord(PlusOne(a, max)) /\ Val(PlusOne(a, max)) = Val(a) + 1
<1>0. /\ a[1] \in Nat /\ a[1] <= 9999 /\ a[2] \in Nat /\ a[2] <= 9999
      /\ a[3] \in Nat /\ a[3] <= 9999 /\ a[4] \in Nat /\ a[4] <= 9999
      /\ a[5] \in Nat /\ a[5] <= 9999
  BY DEF IsWord
<1> DEFINE c(i) == IF \A j \in 1..i - 1 : a[j] = 9999 THEN 1 ELSE 0
           d == PlusOne(a, max)
           g(i) == IF a[i] = 9999 /\ c(i) = 1 THEN 1 ELSE 0
<1>1. \A i \in 1..5 : c(i) \in {0, 1}
  OBVIOUS
<1>2. c(1) = 1 /\ c(2) = g(1) /\ c(3) = g(2) /\ c(4) = g(3) /\ c(5) = g(4)
  <2>1. c(1) = 1
    OBVIOUS
  <2>2. \A i \in 1..4 : (\A j \in 1..(i + 1) - 1 : a[j] = 9999) <=> (a[i] = 9999 /\ \A j \in 1..i - 1 : a[j] = 9999)
    OBVIOUS
  <2>3. 1 \in 1..4 /\ 2 \in 1..4 /\ 3 \in 1..4 /\ 4 \in 1..4 /\ 1 + 1 = 2 /\ 2 + 1 = 3 /\ 3 + 1 = 4 /\ 4 + 1 = 5
    OBVIOUS
  <2>4. ASSUME NEW i \in 1..4 PROVE c(i + 1) = g(i)
    BY <2>2
  <2>5. c(1 + 1) = g(1) /\ c(2 + 1) = g(2) /\ c(3 + 1) = g(3) /\ c(4 + 1) = g(4)
    <3> HIDE DEF c, g
    <3>1. QED
      BY <2>3, <2>4
  <2> HIDE DEF c, g
  <2>6. QED
    BY <2>1, <2>3, <2>5
<1>3. \A i \in 1..5 : d[i] = (a[i] + c(i)) % 10000
  BY DEF PlusOne
<1> HIDE DEF c, d
<1>4. ASSUME NEW i \in 1..5
      PROVE  d[i] = a[i] + c(i) - 10000 * g(i) /\ d[i] \in Nat /\ d[i] <= 9999
  <2>1. a[i] \in Nat /\ a[i] <= 9999 /\ (c(i) = 0 \/ c(i) = 1)
    BY <1>1 DEF IsWord
  <2>2. \A z \in Int : z >= 0 /\ z <= 9999 => z % 10000 = z
    OBVIOUS
  <2>3. 10000 % 10000 = 0
    OBVIOUS
  <2>4. PICK x \in Nat : x = a[i]
    BY <2>1
  <2>5. CASE c(i) = 0
    <3>1. d[i] = x % 10000 /\ g(i) = 0
      BY <1>3, <2>1, <2>4, <2>5
    <3>2. QED
      BY <2>1, <2>2, <2>4, <2>5, <3>1
  <2>6. CASE c(i) = 1 /\ x = 9999
    <3>0. d[i] = (a[i] + c(i)) % 10000
      BY <1>3
    <3>1. a[i] = 9999
      BY <2>4, <2>6
    <3>1a. d[i] = (9999 + 1) % 10000
      BY <2>6, <3>0, <3>1
    <3>1b. d[i] = 0
      BY <2>3, <3>1a
    <3>1c. g(i) = 1
      BY <2>6, <3>1
    <3>2. QED
      BY <2>4, <2>6, <3>1b, <3>1c
  <2>7. CASE c(i) = 1 /\ x # 9999
    <3>1. d[i] = (x + 1) % 10000 /\ g(i) = 0
      BY <1>3, <2>4, <2>7
    <3>2. (x + 1) % 10000 = x + 1 /\ x + 1 <= 9999
      BY <2>1, <2>2, <2>4, <2>7
    <3>3. QED
      BY <2>4, <2>7, <3>1, <3>2
  <2>8. QED
    BY <2>1, <2>5, <2>6, <2>7
<1>5. IsWord(d)
  BY <1>4 DEF IsWord
<1>6. PICK c2 \in {0, 1}, c3 \in {0, 1}, c4 \in {0, 1}, c5 \in {0, 1}, c6 \in {0, 1} :
        c2 = g(1) /\ c3 = g(2) /\ c4 = g(3) /\ c5 = g(4) /\ c6 = g(5)
  OBVIOUS
<1>7. /\ d[1] = a[1] + 1 - 10000 * c2
      /\ d[2] = a[2] + c2 - 10000 * c3
      /\ d[3] = a[3] + c3 - 10000 * c4
      /\ d[4] = a[4] + c4 - 10000 * c5
      /\ d[5] = a[5] + c5 - 10000 * c6
      /\ d[1] \in Nat /\ d[2] \in Nat /\ d[3] \in Nat /\ d[4] \in Nat /\ d[5] \in Nat
  <2> HIDE DEF g
  <2>1. /\ d[1] = a[1] + c(1) - 10000 * g(1)
        /\ d[2] = a[2] + c(2) - 10000 * g(2)
        /\ d[3] = a[3] + c(3) - 10000 * g(3)
        /\ d[4] = a[4] + c(4) - 10000 * g(4)
        /\ d[5] = a[5] + c(5) - 10000 * g(5)
        /\ d[1] \in Nat /\ d[2] \in Nat /\ d[3] \in Nat /\ d[4] \in Nat /\ d[5] \in Nat
    BY <1>4, FiveLimbs
  <2>2. QED
    BY <1>0, <1>2, <1>6, <2>1
<1> DEFINE x1 == a[1]
           x2 == a[2]
           x3 == a[3]
           x4 == a[4]
           x5 == a[5]
           a4 == x4 + 10000 * x5
           a3 == x3 + 10000 * a4
           a2 == x2 + 10000 * a3
           z1 == d[1]
           z2 == d[2]
           z3 == d[3]
           z4 == d[4]
           z5 == d[5]
           d4 == z4 + 10000 * z5
           d3 == z3 + 10000 * d4
           d2 == z2 + 10000 * d3
<1>8. /\ x1 \in Nat /\ x2 \in Nat /\ x3 \in Nat /\ x4 \in Nat /\ x5 \in Nat
      /\ x1 <= 9999 /\ x2 <= 9999 /\ x3 <= 9999 /\ x4 <= 9999 /\ x5 <= 9999
  BY DEF IsWord
<1>8a. /\ a4 = x4 + 10000 * x5 /\ a3 = x3 + 10000 * a4 /\ a2 = x2 + 10000 * a3
       /\ Val(a) = x1 + 10000 * a2
  BY DEF Val
<1>8b. a4 \in Nat /\ a3 \in Nat /\ a2 \in Nat
  BY <1>8
<1>9. /\ z1 \in Nat /\ z2 \in Nat /\ z3 \in Nat /\ z4 \in Nat /\ z5 \in Nat
      /\ z1 <= 9999 /\ z2 <= 9999 /\ z3 <= 9999 /\ z4 <= 9999 /\ z5 <= 9999
  BY <1>5 DEF IsWord
<1>9a. /\ d4 = z4 + 10000 * z5 /\ d3 = z3 + 10000 * d4 /\ d2 = z2 + 10000 * d3
       /\ Val(d) = z1 + 10000 * d2
  BY DEF Val
<1>9b. d4 \in Nat /\ d3 \in Nat /\ d2 \in Nat
  BY <1>9
<1>10. /\ z1 = x1 + 1 - 10000 * c2 /\ z2 = x2 + c2 - 10000 * c3
       /\ z3 = x3 + c3 - 10000 * c4 /\ z4 = x4 + c4 - 10000 * c5
       /\ z5 = x5 + c5 - 10000 * c6
  BY <1>7
<1>11. /\ c2 \in Nat /\ c3 \in Nat /\ c4 \in Nat /\ c5 \in Nat /\ c6 \in Nat
  OBVIOUS
<1>12. c6 = 0
  BY <1>0, <1>6
<1> HIDE DEF x1, x2, x3, x4, x5, z1, z2, z3, z4, z5,
             a2, a3, a4, d2, d3, d4
<1>13. z5 = x5 + c5
  BY <1>8, <1>10, <1>11, <1>12
<1>14. d4 = a4 + c4
  <2>1. d4 = z4 + 10000 * z5 /\ a4 = x4 + 10000 * x5 /\ z4 = x4 + c4 - 10000 * c5
    BY <1>8a, <1>9a, <1>10
  <2>2. QED
    BY <1>8, <1>11, <1>13, <2>1
<1>15. d3 = a3 + c3
  <2>1. d3 = z3 + 10000 * d4 /\ a3 = x3 + 10000 * a4 /\ z3 = x3 + c3 - 10000 * c4
    BY <1>8a, <1>9a, <1>10
  <2>2. QED
    BY <1>8, <1>8b, <1>11, <1>14, <2>1
<1>16. d2 = a2 + c2
  <2>1. d2 = z2 + 10000 * d3 /\ a2 = x2 + 10000 * a3 /\ z2 = x2 + c2 - 10000 * c3
    BY <1>8a, <1>9a, <1>10
  <2>2. QED
    BY <1>8, <1>8b, <1>11, <1>15, <2>1
<1>17. z1 + 10000 * d2 = (x1 + 10000 * a2) + 1
  <2>1. z1 = x1 + 1 - 10000 * c2
    BY <1>10
  <2>2. QED
    BY <1>8, <1>8b, <1>11, <1>16, <2>1
<1>18. Val(d) = Val(a) + 1
  BY <1>8a, <1>9a, <1>17
<1>19. QED
  BY <1>5, <1>18 DEF d

\* The complement of a number, and so the complement of the complement.
LEMMA ComplementTwice ==
    ASSUME NEW a, NEW max, IsWord(a), IsWord(max), max[5] < 9999,
           1 <= Val(a), Val(a) <= Val(max)
    PROVE  LET r == Complement(Complement(a, max), max)
           IN  IsWord(r) /\ Val(r) = Val(a)
<1>0. \A w : IsWord(w) => Val(w) \in Int
  BY ValIsNat
<1>1. ASSUME NEW w, IsWord(w), 1 <= Val(w), Val(w) <= Val(max)
      PROVE  /\ IsWord(Complement(w, max))
             /\ Val(Complement(w, max)) = Val(max) - Val(w) + 1
  <2>1. IsWord(Minus(max, w)) /\ Val(Minus(max, w)) = Val(max) - Val(w)
    BY <1>1, MinusVal
  <2>2. Val(max) \in Int /\ Val(w) \in Int
    BY <1>0, <1>1
  <2>3. Minus(max, w) # max /\ Val(Minus(max, w)) <= Val(max)
    BY <1>1, <2>1, <2>2
  <2>5. Minus(max, w)[5] <= max[5]
    BY <2>1, <2>3, ValUnique
  <2>6. Minus(max, w)[5] \in Nat /\ max[5] \in Nat
    BY <2>1, FiveLimbs DEF IsWord
  <2>7. Minus(max, w)[5] < 9999
    BY <2>5, <2>6
  <2>8. QED
    BY <2>1, <2>3, <2>7, PlusOneVal DEF Complement
<1>2. /\ IsWord(Complement(a, max))
      /\ Val(Complement(a, max)) = Val(max) - Val(a) + 1
  BY <1>1
<1>3. Val(max) \in Int /\ Val(a) \in Int
  BY <1>0
<1>4. 1 <= Val(Complement(a, max)) /\ Val(Complement(a, max)) <= Val(max)
  BY <1>2, <1>3
<1>5. /\ IsWord(Complement(Complement(a, max), max))
      /\ Val(Complement(Complement(a, max), max)) = Val(max) - Val(Complement(a, max)) + 1
  BY <1>1, <1>2, <1>4
<1>6. QED
  BY <1>2, <1>3, <1>5

\* A magnitude of up to five limbs as a word.
LEMMA WordIs ==
    ASSUME NEW m, IsMagnitude(m), Len(m) <= 5
    PROVE  /\ IsWord(Word(m))
           /\ \A i \in 1..5 : Word(m)[i] = IF i <= Len(m) THEN m[i] ELSE 0
<1>1. Len(m) \in Nat /\ Len(m) >= 1 /\ \A k \in 1..Len(m) : m[k] \in Nat /\ m[k] <= 9999
  BY Limbs, LimbIs
<1>2. \A i \in 1..5 : Word(m)[i] = IF i <= Len(m) THEN m[i] ELSE 0
  BY DEF Word
<1>3. ASSUME NEW i \in 1..5 PROVE Word(m)[i] \in Nat /\ Word(m)[i] <= 9999
  <2>1. CASE i <= Len(m)
    <3>1. i \in 1..Len(m)
      BY <1>1, <2>1
    <3>2. QED
      BY <1>1, <1>2, <2>1, <3>1
  <2>2. CASE ~(i <= Len(m))
    BY <1>2, <2>2
  <2>3. QED
    BY <2>1, <2>2
<1>4. QED
  BY <1>2, <1>3 DEF IsWord

\* The zeros in front are what makes a word of a magnitude.
LEMMA TrimmedIs ==
    ASSUME NEW m, IsMagnitude(m), Len(m) <= 5,
           NEW r, r = [i \in 1..5 |-> r[i]], \A i \in 1..5 : r[i] = Word(m)[i]
    PROVE  Trimmed(r) = m
<1> DEFINE Ends5(k) == (r[k] # 0 \/ k = 1) /\ \A j \in k + 1..5 : r[j] = 0
<1>1. /\ Len(m) \in Nat /\ Len(m) >= 1 /\ Top(m) = m[Len(m)] /\ (Len(m) > 1 => Top(m) # 0)
      /\ \A k \in 1..Len(m) : m[k] \in Limb
  BY Limbs DEF Top
<1>2. \A i \in 1..5 : r[i] = IF i <= Len(m) THEN m[i] ELSE 0
  BY WordIs
<1>3. PICK len \in Nat : len = Len(m)
  BY <1>1
<1>3a. len \in 1..5
  BY <1>1, <1>3
<1>4. Ends5(len)
  <2>1. \A j \in len + 1..5 : r[j] = 0
    BY <1>2, <1>3, <1>3a
  <2>2. r[len] = m[len]
    BY <1>2, <1>3, <1>3a
  <2>3. m[len] # 0 \/ len = 1
    <3>1. len > 1 => m[len] # 0
      BY <1>1, <1>3
    <3>2. QED
      BY <1>3a, <3>1
  <2>4. QED
    BY <2>1, <2>2, <2>3
<1>5. ASSUME NEW k \in 1..5, Ends5(k) PROVE k = len
  <2>1. CASE k < len
    <3>1. len \in k + 1..5 /\ len # 1
      BY <1>3a, <2>1
    <3>2. r[len] = 0
      BY <1>5, <3>1
    <3>3. QED
      BY <1>4, <3>1, <3>2
  <2>2. CASE k > len
    <3>1. k \in len + 1..5 /\ k # 1
      BY <1>3a, <2>2
    <3>2. r[k] = 0
      BY <1>4, <3>1
    <3>3. QED
      BY <1>5, <3>1, <3>2
  <2>3. QED
    BY <1>3a, <2>1, <2>2
<1>6. (CHOOSE k \in 1..5 : Ends5(k)) = len
  BY <1>3a, <1>4, <1>5
<1>7. Trimmed(r) = SubSeq(r, 1, len)
  BY <1>6 DEF Trimmed
<1>8. \A i \in 1..5 : r[i] \in Nat
  BY WordIs DEF IsWord
<1>9. r \in Seq(Nat) /\ Len(r) = 5
  <2>1. r \in [1..5 -> Nat]
    BY <1>8
  <2>2. QED
    BY <2>1
<1>10. /\ SubSeq(r, 1, len) \in Seq(Nat) /\ Len(SubSeq(r, 1, len)) = len
       /\ \A i \in 1..len : SubSeq(r, 1, len)[i] = r[i]
  BY <1>3a, <1>9
<1>11. \A i \in 1..len : r[i] = m[i]
  BY <1>2, <1>3, <1>3a
<1>12. PICK s : s = SubSeq(r, 1, len)
  OBVIOUS
<1>13. s = m
  <2>0. m \in Seq(Limb) /\ s \in Seq(Nat) /\ Len(s) = Len(m)
    BY <1>3, <1>10, <1>12 DEF IsMagnitude
  <2>1. m = [i \in 1..len |-> m[i]] /\ s = [i \in 1..len |-> s[i]]
    <3>1. \A q \in Seq(Limb) : q = [i \in 1..Len(q) |-> q[i]]
      OBVIOUS
    <3>2. \A q \in Seq(Nat) : q = [i \in 1..Len(q) |-> q[i]]
      OBVIOUS
    <3>3. QED
      BY <1>3, <2>0, <3>1, <3>2
  <2>2. \A i \in 1..len : s[i] = m[i]
    BY <1>10, <1>11, <1>12
  <2>3. [i \in 1..len |-> m[i]] = [i \in 1..len |-> s[i]]
    BY <2>2
  <2>4. QED
    BY <2>1, <2>3
<1>14. QED
  BY <1>7, <1>12, <1>13

\* A magnitude that is not zero has a positive value.
LEMMA ValPositive ==
    ASSUME NEW m, IsMagnitude(m), Len(m) <= 5, m # << 0 >>
    PROVE  1 <= Val(Word(m))
<1>1. /\ Len(m) \in Nat /\ Len(m) >= 1 /\ Top(m) = m[Len(m)] /\ (Len(m) > 1 => Top(m) # 0)
  BY Limbs DEF Top
<1>2. PICK len \in Nat : len = Len(m)
  BY <1>1
<1>2a. len \in 1..5
  BY <1>1, <1>2
<1>3. m[len] # 0
  <2>1. ASSUME len = 1, m[1] = 0 PROVE FALSE
    <3>1. m \in Seq(Limb) /\ Len(m) = 1
      BY <1>2, <2>1 DEF IsMagnitude
    <3>2. m = <<0>>
      <4>1. <<0>> \in Seq(Limb) /\ Len(<<0>>) = 1 /\ <<0>>[1] = 0
        BY DEF Limb
      <4>2. \A i \in 1..1 : m[i] = <<0>>[i]
        BY <2>1, <4>1
      <4>3. QED
        BY <3>1, <4>1, <4>2
    <3>3. QED
      BY <3>2
  <2>2. len > 1 => m[len] # 0
    BY <1>1, <1>2
  <2>3. QED
    BY <1>2a, <2>1, <2>2
<1>4. Word(m)[len] # 0
  BY <1>2, <1>2a, <1>3, WordIs
<1> DEFINE x1 == Word(m)[1]
           x2 == Word(m)[2]
           x3 == Word(m)[3]
           x4 == Word(m)[4]
           x5 == Word(m)[5]
<1>5. x1 \in Nat /\ x2 \in Nat /\ x3 \in Nat /\ x4 \in Nat /\ x5 \in Nat
  BY WordIs DEF IsWord
<1>6. x1 # 0 \/ x2 # 0 \/ x3 # 0 \/ x4 # 0 \/ x5 # 0
  BY <1>2a, <1>4, FiveLimbs
<1>7. Val(Word(m)) = x1 + 10000 * (x2 + 10000 * (x3 + 10000 * (x4 + 10000 * x5)))
  BY DEF Val
<1> HIDE DEF x1, x2, x3, x4, x5
<1>8. QED
  BY <1>5, <1>6, <1>7

\* The limbs of a negative integer.
LEMMA NegBounds ==
    ASSUME NEW t \in Types, NEW x, IsInteger(t, x), x.neg
    PROVE  /\ IsMagnitude(x.mag) /\ x.mag # <<0>>
           /\ t \in {"i8", "i16", "i32", "i64"} /\ Len(x.mag) <= 5
           /\ t = "i64" => Word(x.mag)[5] <= 922
           /\ t # "i64" => /\ Word(x.mag)[3] <= 21
                           /\ Word(x.mag)[4] = 0 /\ Word(x.mag)[5] = 0
<1>1. IsMagnitude(x.mag) /\ x.mag # <<0>> /\ t \in {"i8", "i16", "i32", "i64"} /\ Leq(x.mag, MinMag[t])
  BY LastArms DEF IsInteger
<1>2. PICK len \in Nat : len = Len(x.mag)
  BY <1>1, Limbs
<1>3. ASSUME Top(MinMag[t]) \in Nat
      PROVE  len < Len(MinMag[t]) \/ (len = Len(MinMag[t]) /\ Top(x.mag) <= Top(MinMag[t]))
  <2>1. Len(x.mag) < Len(MinMag[t]) \/ (Len(x.mag) = Len(MinMag[t]) /\ Top(x.mag) <= Top(MinMag[t]))
    BY <1>1, <1>3, LeqTop
  <2>2. QED
    BY <1>2, <2>1
<1>4. Top(x.mag) = x.mag[len]
  BY <1>2 DEF Top
<1>5. CASE t = "i64"
  <2>1. MinMag[t] = <<5808, 5477, 368, 3372, 922>>
    BY <1>5 DEF MinMag
  <2>2. Len(<<5808, 5477, 368, 3372, 922>>) = 5 /\ Top(<<5808, 5477, 368, 3372, 922>>) = 922
    BY DEF Top
  <2>2a. Len(MinMag[t]) = 5 /\ Top(MinMag[t]) = 922
    BY <2>1, <2>2
  <2>3. len < 5 \/ (len = 5 /\ x.mag[len] <= 922)
    BY <1>3, <1>4, <2>2a
  <2>4. Word(x.mag)[5] = IF 5 <= len THEN x.mag[5] ELSE 0
    BY <1>1, <1>2, <2>3, WordIs
  <2>5. QED
    BY <1>1, <1>2, <1>5, <2>3, <2>4
<1>6. CASE t # "i64"
  <2>1. len < 3 \/ (len = 3 /\ x.mag[len] <= 21)
    <3>1. CASE t = "i8"
      <4>1. MinMag[t] = <<128>>
        BY <3>1 DEF MinMag
      <4>2. Len(<<128>>) = 1 /\ Top(<<128>>) = 128
        BY DEF Top
      <4>2a. Len(MinMag[t]) = 1 /\ Top(MinMag[t]) \in Nat
        BY <4>1, <4>2
      <4>3. len < 1 \/ len = 1
        BY <1>3, <4>2a
      <4>4. QED
        BY <4>3
    <3>2. CASE t = "i16"
      <4>1. MinMag[t] = <<2768, 3>>
        BY <3>2 DEF MinMag
      <4>2. Len(<<2768, 3>>) = 2 /\ Top(<<2768, 3>>) = 3
        BY DEF Top
      <4>2a. Len(MinMag[t]) = 2 /\ Top(MinMag[t]) \in Nat
        BY <4>1, <4>2
      <4>3. len < 2 \/ len = 2
        BY <1>3, <4>2a
      <4>4. QED
        BY <4>3
    <3>3. CASE t = "i32"
      <4>1. MinMag[t] = <<3648, 4748, 21>>
        BY <3>3 DEF MinMag
      <4>2. Len(<<3648, 4748, 21>>) = 3 /\ Top(<<3648, 4748, 21>>) = 21
        BY DEF Top
      <4>2a. Len(MinMag[t]) = 3 /\ Top(MinMag[t]) = 21
        BY <4>1, <4>2
      <4>3. QED
        BY <1>3, <1>4, <4>2a
    <3>4. QED
      BY <1>1, <1>6, <3>1, <3>2, <3>3
  <2>2. /\ Word(x.mag)[3] = IF 3 <= len THEN x.mag[3] ELSE 0
        /\ Word(x.mag)[4] = IF 4 <= len THEN x.mag[4] ELSE 0
        /\ Word(x.mag)[5] = IF 5 <= len THEN x.mag[5] ELSE 0
    <3>1. Len(x.mag) <= 5
      BY <1>2, <2>1
    <3>2. QED
      BY <1>1, <1>2, <3>1, WordIs
  <2>3. QED
    BY <1>1, <1>2, <1>6, <2>1, <2>2
<1>7. QED
  BY <1>5, <1>6

\* The largest word of each width that negative integers are cast to.
LEMMA LargestWords ==
    /\ IsWord(Word(MaxMag["u32"])) /\ Word(MaxMag["u32"])[5] = 0
    /\ IsWord(Word(MaxMag["u64"])) /\ Word(MaxMag["u64"])[5] = 1844
    /\ Word(MaxMag["u32"])[3] = 42 /\ Word(MaxMag["u32"])[4] = 0
<1>1. MaxMag["u32"] = <<7295, 9496, 42>> /\ MaxMag["u64"] = <<1615, 955, 737, 6744, 1844>>
  BY DEF MaxMag
<1>2. /\ IsMagnitude(<<7295, 9496, 42>>) /\ Len(<<7295, 9496, 42>>) = 3
      /\ IsMagnitude(<<1615, 955, 737, 6744, 1844>>) /\ Len(<<1615, 955, 737, 6744, 1844>>) = 5
  BY DEF IsMagnitude, Limb
<1>3. IsWord(Word(MaxMag["u32"])) /\ IsWord(Word(MaxMag["u64"]))
  <2>1. IsMagnitude(MaxMag["u32"]) /\ Len(MaxMag["u32"]) <= 5
    BY <1>1, <1>2
  <2>2. IsMagnitude(MaxMag["u64"]) /\ Len(MaxMag["u64"]) <= 5
    BY <1>1, <1>2
  <2>3. QED
    BY <2>1, <2>2, WordIs
<1>4. /\ Word(MaxMag["u32"])[3] = 42 /\ Word(MaxMag["u32"])[4] = 0 /\ Word(MaxMag["u32"])[5] = 0
  BY <1>1, <1>2, FiveLimbs DEF Word
<1>5. Word(MaxMag["u64"])[5] = 1844
  BY <1>1, <1>2, FiveLimbs DEF Word
<1>6. QED
  BY <1>3, <1>4, <1>5

\* A smaller first limb makes a smaller word.
LEMMA ValLess ==
    ASSUME NEW a, NEW b, IsWord(a), IsWord(b), a[5] < b[5] PROVE Val(a) <= Val(b)
<1>1. a[5] \in Nat /\ b[5] \in Nat
  BY FiveLimbs DEF IsWord
<1>2. Val(a) \in Nat /\ Val(b) \in Nat
  BY ValIsNat
<1>3. Val(b) <= Val(a) => b[5] <= a[5]
  BY ValUnique
<1>4. QED
  BY <1>1, <1>2, <1>3

\* So does a smaller third one when the first two are zero.
LEMMA ValLess3 ==
    ASSUME NEW a, NEW b, IsWord(a), IsWord(b), a[3] < b[3],
           a[4] = 0, a[5] = 0, b[4] = 0, b[5] = 0
    PROVE  Val(a) <= Val(b)
<1> DEFINE x1 == a[1]
           x2 == a[2]
           x3 == a[3]
           y1 == b[1]
           y2 == b[2]
           y3 == b[3]
<1>1. /\ x1 \in Nat /\ x2 \in Nat /\ x3 \in Nat /\ y1 \in Nat /\ y2 \in Nat /\ y3 \in Nat
      /\ x1 <= 9999 /\ x2 <= 9999 /\ x3 < y3
  BY DEF IsWord
<1>2. /\ Val(a) = x1 + 10000 * (x2 + 10000 * x3)
      /\ Val(b) = y1 + 10000 * (y2 + 10000 * y3)
  <2>1. x3 + 10000 * (0 + 10000 * 0) = x3 /\ y3 + 10000 * (0 + 10000 * 0) = y3
    BY <1>1
  <2>2. QED
    BY <2>1 DEF Val
<1> HIDE DEF x1, x2, x3, y1, y2, y3
<1>3. QED
  BY <1>1, <1>2

\* The conversion is right for every integer: n starts as its magnitude.
LEMMA MagnitudeIs ==
    ASSUME NEW t \in Types, NEW x, IsInteger(t, x)
    PROVE  Magnitude(t, x) = x.mag
<1>1. CASE ~x.neg
  BY <1>1 DEF Magnitude
<1>2. CASE x.neg
  <2>1. /\ IsMagnitude(x.mag) /\ x.mag # <<0>> /\ Len(x.mag) <= 5
        /\ t \in {"i8", "i16", "i32", "i64"}
        /\ t = "i64" => Word(x.mag)[5] <= 922
        /\ t # "i64" => Word(x.mag)[3] <= 21 /\ Word(x.mag)[4] = 0 /\ Word(x.mag)[5] = 0
    BY <1>2, NegBounds
  <2> DEFINE u == IF t \in {"i64", "u64"} THEN "u64" ELSE NarrowU
             max == Word(MaxMag[u])
             a == Word(x.mag)
             r == Complement(Complement(a, max), max)
  <2>2. u = "u64" \/ (u = "u32" /\ t # "i64")
    BY NumAssumption
  <2>3. IsWord(a) /\ 1 <= Val(a)
    BY <2>1, WordIs, ValPositive
  <2>4. IsWord(max) /\ max[5] < 9999 /\ Val(a) <= Val(max)
    <3>1. CASE u = "u64"
      <4>1. IsWord(max) /\ max[5] = 1844
        BY <3>1, LargestWords
      <4>2. a[5] < max[5]
        <5>1. a[5] \in Nat /\ (a[5] <= 922 \/ a[5] = 0)
          BY <2>1, <2>3, FiveLimbs DEF IsWord
        <5>2. QED
          BY <4>1, <5>1
      <4>3. QED
        BY <2>3, <4>1, <4>2, ValLess
    <3>2. CASE u = "u32" /\ t # "i64"
      <4>1. IsWord(max) /\ max[3] = 42 /\ max[4] = 0 /\ max[5] = 0
        BY <3>2, LargestWords
      <4>2. a[3] < max[3] /\ a[4] = 0 /\ a[5] = 0
        <5>1. a[3] \in Nat /\ a[3] <= 21 /\ a[4] = 0 /\ a[5] = 0
          BY <2>1, <2>3, <3>2, FiveLimbs DEF IsWord
        <5>2. QED
          BY <4>1, <5>1
      <4>3. QED
        BY <2>3, <4>1, <4>2, ValLess3
    <3>3. QED
      BY <2>2, <3>1, <3>2
  <2>5. Magnitude(t, x) = Trimmed(r)
    BY <1>2 DEF Magnitude
  <2>6. r = [i \in 1..5 |-> r[i]]
    <3>1. \A w : PlusOne(w, max) = [i \in 1..5 |-> PlusOne(w, max)[i]]
      <4> SUFFICES ASSUME NEW w PROVE PlusOne(w, max) = [i \in 1..5 |-> PlusOne(w, max)[i]]
        OBVIOUS
      <4> HIDE DEF max
      <4>1. CASE w = max
        BY <4>1 DEF PlusOne, Word
      <4>2. CASE w # max
        BY <4>2 DEF PlusOne
      <4>3. QED
        BY <4>1, <4>2
    <3> HIDE DEF max
    <3>2. r = PlusOne(Minus(max, Complement(a, max)), max)
      BY DEF Complement
    <3> HIDE DEF r
    <3>3. QED
      BY <3>1, <3>2
  <2> HIDE DEF a, max, r
  <2>7. IsWord(r) /\ Val(r) = Val(a)
    BY <2>3, <2>4, ComplementTwice DEF r
  <2>8. Val(r) <= Val(a)
    BY <2>3, <2>7, ValIsNat
  <2>9. \A i \in 1..5 : r[i] = a[i]
    BY <2>3, <2>7, <2>8, ValUnique
  <2>10. Trimmed(r) = x.mag
    BY <2>1, <2>6, <2>9, TrimmedIs DEF a
  <2>11. QED
    BY <2>5, <2>10
<1>3. QED
  BY <1>1, <1>2 DEF IsInteger

-----------------------------------------------------------------------------
(* The text of an integer, byte by byte.                                   *)

TextSize(x) == Size(x.mag) + SignSize(x)

Byte(x, o) ==
    IF o < SignSize(x) THEN "-" ELSE Padded(x.mag)[o - SignSize(x) + First(Top(x.mag))]

\* The buffer b has the size of the text, and the text from offset c on.
Filled(b, x, c) ==
    /\ DOMAIN b = 0..TextSize(x) - 1
    /\ \A o \in 0..TextSize(x) - 1 : b[o] = IF o < c THEN Uninit ELSE Byte(x, o)

\* The number of digits and of bytes of an integer.
LEMMA Sizes ==
    ASSUME NEW t, NEW x, IsInteger(t, x)
    PROVE  /\ IsMagnitude(x.mag) /\ SignSize(x) \in Nat /\ SignSize(x) <= 1
           /\ Size(x.mag) \in Nat /\ Size(x.mag) >= 1
           /\ TextSize(x) \in Nat /\ TextSize(x) = Size(x.mag) + SignSize(x)
<1>1. IsMagnitude(x.mag) /\ SignSize(x) \in Nat /\ SignSize(x) <= 1
  BY DEF IsInteger, SignSize
<1>2. Size(x.mag) \in Nat /\ Size(x.mag) >= 1
  BY <1>1, Limbs
<1>3. QED
  BY <1>1, <1>2 DEF TextSize

\* The text of an integer, byte by byte.
LEMMA PrintedIs ==
    ASSUME IsInteger(ty, self)
    PROVE  /\ Len(Printed) = TextSize(self)
           /\ \A o \in 0..TextSize(self) - 1 : Printed[o + 1] = Byte(self, o)
<1> DEFINE m == self.mag
           d == Decimal(m)
           f == First(Top(m))
<1>1. IsMagnitude(m) /\ Size(m) \in Nat /\ TextSize(self) = Size(m) + SignSize(self)
  BY Sizes
<1>2. Len(d) = Size(m) /\ d \in Seq(Bytes) /\ \A i \in 1..Size(m) : d[i] = Padded(m)[i + f - 1]
  BY <1>1, DecimalIs
<1>3. f \in 1..4
  BY <1>1, Limbs
<1> HIDE DEF d, f, m
<1>4. CASE self.neg
  <2>1. Printed = <<"-">> \o d /\ SignSize(self) = 1
    BY <1>4 DEF Printed, SignSize, d, m
  <2>2. <<"-">> \in Seq(Bytes) /\ Len(<<"-">>) = 1
    BY DEF Bytes
  <2>3. /\ Len(Printed) = 1 + Size(m)
        /\ Printed[1] = "-"
        /\ \A i \in 1..Size(m) : Printed[i + 1] = d[i]
    BY <1>1, <1>2, <2>1, <2>2
  <2>4. ASSUME NEW o \in 0..TextSize(self) - 1 PROVE Printed[o + 1] = Byte(self, o)
    <3>1. CASE o = 0
      BY <2>1, <2>3, <3>1 DEF Byte
    <3>2. CASE o # 0
      <4>1. o \in 1..Size(m) /\ ~(o < 1) /\ o + f - 1 = o - 1 + f
        BY <1>1, <1>3, <2>1, <3>2
      <4>2. Printed[o + 1] = Padded(m)[o - 1 + f]
        BY <1>2, <2>3, <4>1
      <4>3. QED
        BY <2>1, <4>1, <4>2 DEF Byte, m, f
    <3>3. QED
      BY <3>1, <3>2
  <2>5. 1 + Size(m) = TextSize(self)
    BY <1>1, <2>1
  <2>6. QED
    BY <2>3, <2>4, <2>5
<1>5. CASE ~self.neg
  <2>1. Printed = <<>> \o d /\ SignSize(self) = 0
    BY <1>5 DEF Printed, SignSize, d, m
  <2>2. Printed = d
    BY <1>2, <2>1
  <2>3. ASSUME NEW o \in 0..TextSize(self) - 1 PROVE Printed[o + 1] = Byte(self, o)
    <3>1. o + 1 \in 1..Size(m) /\ ~(o < 0) /\ (o + 1) + f - 1 = o - 0 + f
      BY <1>1, <1>3, <2>1
    <3>2. Printed[o + 1] = Padded(m)[o - 0 + f]
      BY <1>2, <2>2, <3>1
    <3>3. QED
      BY <2>1, <3>1, <3>2 DEF Byte, m, f
  <2>4. QED
    BY <1>1, <1>2, <2>1, <2>2, <2>3
<1>6. QED
  BY <1>4, <1>5

\* The byte of digit e of limb j + 1.
LEMMA LimbByte ==
    ASSUME NEW t, NEW x, IsInteger(t, x), NEW j \in Nat, j < Len(x.mag),
           NEW e \in Nat, e <= 3, NEW o \in Nat, o >= SignSize(x),
           o = 4 * (Len(x.mag) - 1 - j) + e + 1 - First(Top(x.mag)) + SignSize(x)
    PROVE  Byte(x, o) = Digits[Digit(x.mag[j + 1], e) + 1]
<1> DEFINE m == x.mag
           L == Len(m)
           i == 4 * (L - 1 - j) + e + 1
<1>1. IsMagnitude(m) /\ SignSize(x) \in Nat
  BY Sizes
<1>2. L \in Nat /\ First(Top(m)) \in 1..4
  BY <1>1, Limbs
<1> HIDE DEF m, L
<1>3. i \in 1..4 * L /\ (i - 1) \div 4 = L - 1 - j /\ (i - 1) % 4 = e
  <2>1. L - 1 - j \in Nat
    BY <1>2 DEF m, L
  <2>2. \A q \in Nat : (4 * q + e) \div 4 = q /\ (4 * q + e) % 4 = e
    OBVIOUS
  <2>3. QED
    BY <1>2, <2>1, <2>2
<1>4. L - (L - 1 - j) = j + 1
  BY <1>2
<1>5. o - SignSize(x) + First(Top(m)) = i
  <2>1. o = 4 * (L - 1 - j) + e + 1 - First(Top(m)) + SignSize(x)
    BY Zenon DEF m, L
  <2>2. QED
    BY <1>1, <1>2, <2>1, SMTT(20)
<1> HIDE DEF i
<1>6. Byte(x, o) = Padded(m)[i]
  <2>1. ~(o < SignSize(x))
    BY <1>1
  <2>2. QED
    BY <1>5, <2>1 DEF Byte, m
<1>7. LimbAt(m, i) = m[j + 1]
  BY <1>3, <1>4 DEF LimbAt, L
<1>8. Padded(m)[i] = Digits[Digit(m[j + 1], e) + 1]
  BY <1>1, <1>3, <1>7, PaddedIs DEF L
<1>9. QED
  BY <1>6, <1>8 DEF m

\* Two digits of the table.
LEMMA LutPair ==
    ASSUME NEW v \in Nat
    PROVE  v <= 99 => /\ Lut(2 * v) = Digits[(v \div 10) + 1]
                      /\ Lut(2 * v + 1) = Digits[(v % 10) + 1]
<1> SUFFICES ASSUME v <= 99
             PROVE  Lut(2 * v) = Digits[(v \div 10) + 1] /\ Lut(2 * v + 1) = Digits[(v % 10) + 1]
  OBVIOUS
<1>1. (2 * v) % 2 = 0 /\ (2 * v) \div 20 = v \div 10
  OBVIOUS
<1>2. (2 * v + 1) % 2 # 0 /\ (2 * v + 1) \div 2 = v
  OBVIOUS
<1>3. QED
  BY <1>1, <1>2 DEF Lut

-----------------------------------------------------------------------------
(* Writing the digits.                                                     *)

\* Writing the byte in front of a filled end fills one more.
LEMMA BytesFilled ==
    ASSUME NEW t, NEW x, IsInteger(t, x), NEW b, NEW c \in Nat, c >= 1, c <= TextSize(x),
           Filled(b, x, c), NEW v, v = Byte(x, c - 1)
    PROVE  Filled(PutByte(b, v, c - 1), x, c - 1)
<1>1. TextSize(x) \in Nat
  BY Sizes
<1>2. c - 1 \in 0..TextSize(x) - 1 /\ c - 1 \in Nat
  BY <1>1
<1>3. DOMAIN PutByte(b, v, c - 1) = 0..TextSize(x) - 1
  BY <1>2 DEF PutByte, Filled
<1>4. ASSUME NEW o \in 0..TextSize(x) - 1
      PROVE  PutByte(b, v, c - 1)[o] = IF o < c - 1 THEN Uninit ELSE Byte(x, o)
  <2>1. PutByte(b, v, c - 1)[o] = IF o = c - 1 THEN v ELSE b[o]
    BY DEF PutByte, Filled
  <2>2. o # c - 1 => ((o < c) <=> (o < c - 1))
    BY <1>1
  <2>3. ~(c - 1 < c - 1)
    BY <1>2
  <2>4. b[o] = IF o < c THEN Uninit ELSE Byte(x, o)
    BY DEF Filled
  <2>5. QED
    BY <2>1, <2>2, <2>3, <2>4
<1>5. QED
  BY <1>3, <1>4 DEF Filled

\* Copying the two digits in front of a filled end fills two more.
LEMMA PairFilled ==
    ASSUME NEW t, NEW x, IsInteger(t, x), NEW b, NEW c \in Nat, c >= 2, c <= TextSize(x),
           Filled(b, x, c), NEW v, Lut(v) = Byte(x, c - 2), Lut(v + 1) = Byte(x, c - 1)
    PROVE  Filled(CopyPair(b, v, c - 2), x, c - 2)
<1> DEFINE d == PutByte(b, Byte(x, c - 1), c - 1)
           e == PutByte(d, Byte(x, c - 2), c - 2)
<1>0. TextSize(x) \in Nat
  BY Sizes
<1>1. c >= 1 /\ c - 1 \in Nat /\ c - 1 >= 1 /\ c - 1 <= TextSize(x) /\ (c - 1) - 1 = c - 2
  BY <1>0
<1>2. Filled(d, x, c - 1)
  BY <1>1, BytesFilled
<1> HIDE DEF d
<1>3. Filled(e, x, c - 2)
  BY <1>1, <1>2, BytesFilled
<1>4. CopyPair(b, v, c - 2) = e
  <2>1. (c - 2) + 1 = c - 1 /\ c - 1 # c - 2
    OBVIOUS
  <2>2. DOMAIN CopyPair(b, v, c - 2) = DOMAIN e
    BY <2>1 DEF CopyPair, PutByte, d
  <2>3. ASSUME NEW o \in DOMAIN e PROVE CopyPair(b, v, c - 2)[o] = e[o]
    <3>1. CopyPair(b, v, c - 2)[o]
            = IF o = c - 2 THEN Lut(v) ELSE IF o = c - 1 THEN Lut(v + 1) ELSE b[o]
      BY <2>1, <2>2 DEF CopyPair
    <3>2. e[o] = IF o = c - 2 THEN Byte(x, c - 2) ELSE d[o]
      BY DEF PutByte
    <3>3. o # c - 2 => d[o] = IF o = c - 1 THEN Byte(x, c - 1) ELSE b[o]
      BY DEF PutByte, d
    <3>4. QED
      BY <3>1, <3>2, <3>3
  <2>4. QED
    BY <2>2, <2>3 DEF CopyPair, PutByte
<1>5. QED
  BY <1>3, <1>4

\* The two pairs of a limb may be written in either order.
LEMMA FourFilled ==
    ASSUME NEW t, NEW x, IsInteger(t, x), NEW b, NEW c \in Nat, c >= 4, c <= TextSize(x),
           Filled(b, x, c), NEW u, Lut(u) = Byte(x, c - 4), Lut(u + 1) = Byte(x, c - 3),
           NEW v, Lut(v) = Byte(x, c - 2), Lut(v + 1) = Byte(x, c - 1)
    PROVE  Filled(CopyPair(CopyPair(b, u, c - 4), v, c - 2), x, c - 4)
<1> DEFINE d == CopyPair(b, v, c - 2)
           e == CopyPair(d, u, c - 4)
           p == CopyPair(b, u, c - 4)
           q == CopyPair(p, v, c - 2)
<1>0. TextSize(x) \in Nat
  BY Sizes
<1>1. /\ c >= 2 /\ c - 2 \in Nat /\ c - 2 >= 2 /\ c - 2 <= TextSize(x)
      /\ (c - 2) - 2 = c - 4 /\ (c - 2) - 1 = c - 3 /\ (c - 4) + 1 = c - 3 /\ (c - 2) + 1 = c - 1
      /\ {c - 4, c - 3} \cap {c - 2, c - 1} = {}
  BY <1>0
<1>2. Filled(d, x, c - 2)
  BY <1>1, PairFilled
<1>3. Filled(e, x, c - 4)
  <2> HIDE DEF d
  <2>1. QED
    BY <1>1, <1>2, PairFilled
<1>4. DOMAIN d = DOMAIN b \cup {c - 2, c - 1} /\ DOMAIN p = DOMAIN b \cup {c - 4, c - 3}
      /\ DOMAIN e = DOMAIN d \cup {c - 4, c - 3} /\ DOMAIN q = DOMAIN p \cup {c - 2, c - 1}
  BY <1>1 DEF CopyPair
<1>5. DOMAIN q = DOMAIN e
  BY <1>4
<1>6. ASSUME NEW o \in DOMAIN q PROVE q[o] = e[o]
  <2>1. q[o] = IF o = c - 2 THEN Lut(v) ELSE IF o = c - 1 THEN Lut(v + 1) ELSE p[o]
    BY <1>1 DEF CopyPair
  <2>2. e[o] = IF o = c - 4 THEN Lut(u) ELSE IF o = c - 3 THEN Lut(u + 1) ELSE d[o]
    BY <1>1, <1>5 DEF CopyPair
  <2>3. o \in DOMAIN p => p[o] = IF o = c - 4 THEN Lut(u) ELSE IF o = c - 3 THEN Lut(u + 1) ELSE b[o]
    BY <1>1 DEF CopyPair
  <2>4. o \in DOMAIN d => d[o] = IF o = c - 2 THEN Lut(v) ELSE IF o = c - 1 THEN Lut(v + 1) ELSE b[o]
    BY <1>1 DEF CopyPair
  <2> HIDE DEF p, q, d, e
  <2>5. QED
    BY <1>1, <1>4, <1>5, <2>1, <2>2, <2>3, <2>4
<1>7. q = e
  BY <1>5, <1>6 DEF CopyPair
<1>8. QED
  BY <1>3, <1>7

-----------------------------------------------------------------------------
(* The inductive invariant.                                                *)

\* n is the magnitude without its j lowest limbs, which are written.
Looping(j) ==
    /\ j < Len(self.mag)
    /\ n = [k \in 1..Len(self.mag) - j |-> self.mag[k + j]]
    /\ curr = Size(self.mag) - 4 * j + SignSize(self)

\* What TwoDigits leaves of the top limb, and its number of digits.
Left(limb) == IF limb >= 100 THEN limb \div 100 ELSE limb

LeftSize(limb) == IF limb >= 100 THEN 3 - First(limb) ELSE 5 - First(limb)

\* BackwardsFill says how many digits n has, and not that they are the ones in front
\* of what is written.
Filling ==
    /\ ty \in Types /\ IsInteger(ty, self)
    /\ pc \in {"start", "err", "loop", "last", "sign", "done"}
    /\ pc \in {"loop", "last", "sign", "done"} => Filled(buf, self, curr)
    /\ pc = "loop" => \E j \in Nat : Looping(j)
    /\ pc = "last" => /\ n = <<Left(Top(self.mag))>>
                      /\ curr = LeftSize(Top(self.mag)) + SignSize(self)
    /\ pc = "sign" => curr = SignSize(self)
    /\ pc = "done" => curr = 0

\* What is left of a limb for the last step has one or two digits.
LEMMA LeftIs ==
    ASSUME NEW limb \in Limb
    PROVE  /\ Left(limb) \in Limb /\ Left(limb) \in Nat /\ Left(limb) <= 99
           /\ LeftSize(limb) = 5 - First(Left(limb))
           /\ LeftSize(limb) \in {1, 2}
<1>0. limb \in Nat /\ limb <= 9999
  BY LimbIs
<1>1. CASE limb >= 1000
  <2>1. Left(limb) = limb \div 100 /\ limb \div 100 \in Nat /\ limb \div 100 >= 10 /\ limb \div 100 <= 99
    BY <1>0, <1>1 DEF Left
  <2>2. First(limb) = 1 /\ First(limb \div 100) = 3 /\ LeftSize(limb) = 2
    BY <1>0, <1>1, <2>1 DEF First, LeftSize
  <2>3. QED
    BY <2>1, <2>2 DEF Limb
<1>2. CASE limb >= 100 /\ limb < 1000
  <2>1. Left(limb) = limb \div 100 /\ limb \div 100 \in Nat /\ limb \div 100 >= 1 /\ limb \div 100 <= 9
    BY <1>0, <1>2 DEF Left
  <2>2. First(limb) = 2 /\ First(limb \div 100) = 4 /\ LeftSize(limb) = 1
    BY <1>0, <1>2, <2>1 DEF First, LeftSize
  <2>3. QED
    BY <2>1, <2>2 DEF Limb
<1>3. CASE limb < 100
  <2>1. Left(limb) = limb
    BY <1>0, <1>3 DEF Left
  <2>2. First(limb) = 3 \/ First(limb) = 4
    BY <1>0, <1>3 DEF First
  <2>3. LeftSize(limb) = 5 - First(limb)
    BY <1>0, <1>3 DEF LeftSize
  <2>4. QED
    BY <1>0, <1>3, <2>1, <2>2, <2>3
<1>4. QED
  BY <1>0, <1>1, <1>2, <1>3

\* The limbs that are left are a magnitude with the same top.
LEMMA LoopingIs ==
    ASSUME IsInteger(ty, self), NEW j \in Nat, Looping(j)
    PROVE  /\ IsMagnitude(n) /\ Len(n) = Len(self.mag) - j /\ Top(n) = Top(self.mag)
           /\ n[1] = self.mag[j + 1] /\ n[1] \in Limb
           /\ Size(n) = Size(self.mag) - 4 * j
<1> DEFINE m == self.mag
           L == Len(m)
           K == L - j
<1>1. IsMagnitude(m)
  BY Sizes
<1>2. /\ L \in Nat /\ (\A k \in 1..L : m[k] \in Limb) /\ (L > 1 => Top(m) # 0) /\ Top(m) = m[L]
      /\ Size(m) = 4 * L + 1 - First(Top(m)) /\ First(Top(m)) \in 1..4
  BY <1>1, Limbs DEF Top
<1>3. j < L /\ n = [k \in 1..K |-> m[k + j]]
  BY DEF Looping
<1> HIDE DEF m, L
<1>4. K \in Nat /\ K >= 1 /\ K + j = L /\ 1 \in 1..K /\ 1 + j = j + 1
  BY <1>2, <1>3
<1>5. \A k \in 1..K : k + j \in 1..L
  BY <1>2, <1>4
<1> HIDE DEF K
<1>6. n \in Seq(Limb) /\ Len(n) = K
  <2>1. \A k \in 1..K : m[k + j] \in Limb
    BY <1>2, <1>5
  <2>2. QED
    BY <1>3, <1>4, <2>1
<1>7. n[K] = m[L]
  <2>1. K \in 1..K
    BY <1>4
  <2>2. QED
    BY <1>3, <1>4, <2>1
<1>8. Top(n) = Top(m)
  BY <1>2, <1>6, <1>7 DEF Top
<1>9. n[1] = m[j + 1] /\ n[1] \in Limb
  BY <1>2, <1>3, <1>4, <1>5
<1>10. IsMagnitude(n)
  <2>1. K > 1 => L > 1
    BY <1>2, <1>4
  <2>2. QED
    BY <1>2, <1>4, <1>6, <1>7, <2>1 DEF IsMagnitude
<1>11. Size(n) = Size(m) - 4 * j
  <2>1. Size(n) = 4 * K + 1 - First(Top(m))
    BY <1>6, <1>8 DEF Size
  <2>2. QED
    BY <1>2, <1>4, <2>1
<1>12. QED
  BY <1>6, <1>8, <1>9, <1>10, <1>11 DEF K, m, L

\* The inductive invariant keeps the writes inside the buffer.
LEMMA FillingIsBackwards == Filling => BackwardsFill
<1> SUFFICES ASSUME Filling, pc \in {"loop", "last", "sign"}
             PROVE  /\ DOMAIN buf = 0..Len(Printed) - 1
                    /\ \A o \in 0..Len(Printed) - 1 : buf[o] = IF o < curr THEN Uninit ELSE Printed[o + 1]
                    /\ curr = (CASE pc = "sign" -> 0 [] OTHER -> Len(Decimal(n)))
                                + (IF self.neg THEN 1 ELSE 0)
  BY DEF BackwardsFill
<1>1. IsInteger(ty, self) /\ Filled(buf, self, curr)
  BY DEF Filling
<1>2. Len(Printed) = TextSize(self) /\ \A o \in 0..TextSize(self) - 1 : Printed[o + 1] = Byte(self, o)
  BY <1>1, PrintedIs
<1>3. (IF self.neg THEN 1 ELSE 0) = SignSize(self) /\ SignSize(self) \in Nat
  BY DEF SignSize
<1>4. CASE pc = "loop"
  <2>1. PICK j \in Nat : Looping(j)
    BY <1>4 DEF Filling
  <2>2. IsMagnitude(n) /\ Size(n) = Size(self.mag) - 4 * j
    BY <1>1, <2>1, LoopingIs
  <2>3. Len(Decimal(n)) = Size(n)
    BY <2>2, DecimalIs
  <2>4. curr = Len(Decimal(n)) + SignSize(self)
    BY <2>1, <2>2, <2>3 DEF Looping
  <2>5. QED
    BY <1>1, <1>2, <1>3, <1>4, <2>4 DEF Filled
<1>5. CASE pc = "last"
  <2>1. Top(self.mag) \in Limb
    BY <1>1, Sizes, Limbs
  <2>2. PICK v : v = Left(Top(self.mag))
    OBVIOUS
  <2>3. /\ n = <<v>> /\ v \in Limb /\ curr = (5 - First(v)) + SignSize(self)
    BY <1>5, <2>1, <2>2, LeftIs DEF Filling
  <2>4. Len(n) = 1 /\ n[1] = v /\ n \in Seq(Limb)
    BY <2>3
  <2>5. IsMagnitude(n)
    BY <2>4 DEF IsMagnitude
  <2>6. Len(Decimal(n)) = Size(n)
    BY <2>5, DecimalIs
  <2>7. Size(n) = 5 - First(v)
    <3>1. First(v) \in 1..4
      BY <2>3, FirstDigit
    <3>2. Size(n) = 4 * 1 + 1 - First(v)
      BY <2>4 DEF Size, Top
    <3>3. QED
      BY <3>1, <3>2
  <2>8. curr = Len(Decimal(n)) + SignSize(self)
    BY <2>3, <2>6, <2>7
  <2>9. QED
    BY <1>1, <1>2, <1>3, <1>5, <2>8 DEF Filled
<1>6. CASE pc = "sign"
  <2>1. curr = 0 + SignSize(self)
    BY <1>3, <1>6 DEF Filling
  <2>2. QED
    BY <1>1, <1>2, <1>3, <1>6, <2>1 DEF Filled
<1>7. QED
  BY <1>4, <1>5, <1>6

\* The inductive invariant ends with the decimal text.
LEMMA FillingWrites == Filling => WritesDecimal
<1> SUFFICES ASSUME Filling, pc = "done"
             PROVE  /\ curr = 0 /\ DOMAIN buf = 0..Len(Printed) - 1
                    /\ \A o \in DOMAIN buf : buf[o] = Printed[o + 1]
  BY DEF WritesDecimal
<1>1. IsInteger(ty, self) /\ Filled(buf, self, curr) /\ curr = 0
  BY DEF Filling
<1>2. Len(Printed) = TextSize(self) /\ \A o \in 0..TextSize(self) - 1 : Printed[o + 1] = Byte(self, o)
  BY <1>1, PrintedIs
<1>3. TextSize(self) \in Nat
  BY <1>1, Sizes
<1>4. \A o \in 0..TextSize(self) - 1 : ~(o < 0)
  BY <1>3
<1>5. QED
  BY <1>1, <1>2, <1>4 DEF Filled

\* The inductive invariant holds before the first number.
LEMMA InitFilling == Init => Filling
BY NumAssumption DEF Init, Filling

\* Asking for digits_count bytes keeps it.
LEMMA StartFills ==
    ASSUME Filling, Start
    PROVE  Filling'
<1>0. IsInteger(ty, self) /\ ty \in Types /\ ty' = ty /\ self' = self /\ pc' = "loop"
  BY DEF Filling, Start
<1>1. n' = self.mag
  BY <1>0, MagnitudeIs DEF Start
<1>2. DigitCount(ty, self) = TextSize(self)
  BY <1>0, DigitCountIs DEF TextSize
<1>3. TextSize(self) \in Nat /\ TextSize(self) = Size(self.mag) + SignSize(self)
      /\ Size(self.mag) \in Nat /\ SignSize(self) \in Nat
  BY <1>0, Sizes
<1>4. curr' = TextSize(self) /\ buf' = [o \in 0..TextSize(self) - 1 |-> Uninit]
  BY <1>2 DEF Start
<1>5. Filled(buf', self', curr')
  BY <1>0, <1>3, <1>4 DEF Filled
<1>6. Looping(0)'
  <2>1. Len(self.mag) \in Nat /\ Len(self.mag) >= 1 /\ self.mag \in Seq(Limb)
    BY <1>0, Sizes, Limbs DEF IsMagnitude
  <2>2. self.mag = [k \in 1..Len(self.mag) |-> self.mag[k]]
    BY <2>1
  <2>3. Len(self.mag) - 0 = Len(self.mag) /\ 0 < Len(self.mag)
        /\ (\A k \in 1..Len(self.mag) : k + 0 = k) /\ Size(self.mag) - 4 * 0 = Size(self.mag)
    BY <1>3, <2>1
  <2>4. self.mag = [k \in 1..Len(self.mag) - 0 |-> self.mag[k + 0]]
    BY <2>2, <2>3
  <2>5. QED
    BY <1>0, <1>1, <1>3, <1>4, <2>3, <2>4 DEF Looping
<1>7. QED
  BY <1>0, <1>5, <1>6 DEF Filling

\* The loop over four digits keeps it.
LEMMA FourDigitsFills ==
    ASSUME Filling, FourDigits
    PROVE  Filling'
<1> DEFINE m == self.mag
           L == Len(m)
           F == First(Top(m))
           s == SignSize(self)
<1>0. /\ IsInteger(ty, self) /\ ty \in Types /\ ty' = ty /\ self' = self /\ pc = "loop" /\ pc' = "loop"
      /\ Filled(buf, self, curr) /\ Len(n) > 1
  BY DEF Filling, FourDigits
<1>1. PICK j \in Nat : Looping(j)
  BY <1>0 DEF Filling
<1>2. /\ IsMagnitude(n) /\ Len(n) = L - j /\ n[1] = m[j + 1] /\ n[1] \in Limb
  BY <1>0, <1>1, LoopingIs
<1>3. /\ L \in Nat /\ F \in 1..4 /\ Size(m) = 4 * L + 1 - F /\ s \in Nat /\ s <= 1
      /\ TextSize(self) = Size(m) + s
  BY <1>0, Sizes, Limbs
<1>4. curr = Size(m) - 4 * j + s /\ j < L
  BY <1>1 DEF Looping
<1>5. PICK rem : rem = n[1]
  OBVIOUS
<1>6. rem \in Limb /\ rem \in Nat /\ rem <= 9999 /\ rem = m[j + 1]
  BY <1>2, <1>5, LimbIs
<1>7. /\ n' = Tail(n) /\ curr' = curr - 4
      /\ buf' = CopyPair(CopyPair(buf, 2 * (rem \div 100), curr - 4), 2 * (rem % 100), curr - 2)
  BY <1>5 DEF FourDigits
<1> HIDE DEF L, F, s, m
<1>8. /\ L - j >= 2
      /\ curr \in Nat /\ curr >= 4 + s /\ curr <= TextSize(self)
      /\ \A e \in Int : curr - 4 + e = 4 * (L - 1 - j) + e + 1 - F + s
  BY <1>0, <1>2, <1>3, <1>4
<1>9. ASSUME NEW e \in Nat, e <= 3
      PROVE  Byte(self, curr - 4 + e) = Digits[Digit(rem, e) + 1]
  <2>1. curr - 4 + e \in Nat /\ curr - 4 + e >= s
    BY <1>3, <1>8, <1>9
  <2>2. PICK o \in Nat : o = curr - 4 + e
    BY <2>1
  <2>3. o = 4 * (L - 1 - j) + e + 1 - F + s /\ o >= s /\ j < L
    BY <1>4, <1>8, <2>1, <2>2
  <2>4. /\ o = 4 * (Len(self.mag) - 1 - j) + e + 1 - First(Top(self.mag)) + SignSize(self)
        /\ o >= SignSize(self) /\ j < Len(self.mag)
    BY <2>3, Zenon DEF L, F, s, m
  <2>5. Byte(self, o) = Digits[Digit(self.mag[j + 1], e) + 1]
    BY <1>0, <1>9, <2>4, LimbByte
  <2>6. QED
    BY <1>6, <2>2, <2>5 DEF m
<1>10. /\ Digit(rem, 0) = rem \div 1000 /\ Digit(rem, 1) = (rem \div 100) % 10
       /\ Digit(rem, 2) = (rem \div 10) % 10 /\ Digit(rem, 3) = rem % 10
  BY <1>6, DigitsOfLimb
<1>11. /\ curr - 4 + 0 = curr - 4 /\ curr - 4 + 1 = curr - 3
       /\ curr - 4 + 2 = curr - 2 /\ curr - 4 + 3 = curr - 1
  BY <1>8
<1>12. /\ Byte(self, curr - 4) = Digits[(rem \div 1000) + 1]
       /\ Byte(self, curr - 3) = Digits[((rem \div 100) % 10) + 1]
       /\ Byte(self, curr - 2) = Digits[((rem \div 10) % 10) + 1]
       /\ Byte(self, curr - 1) = Digits[(rem % 10) + 1]
  BY <1>9, <1>10, <1>11
<1>13. PICK u \in Nat, v \in Nat :
         /\ u = rem \div 100 /\ v = rem % 100 /\ u <= 99 /\ v <= 99
         /\ u \div 10 = rem \div 1000 /\ u % 10 = (rem \div 100) % 10
         /\ v \div 10 = (rem \div 10) % 10 /\ v % 10 = rem % 10
  BY <1>6, SMTT(20)
<1>14. /\ Lut(2 * u) = Byte(self, curr - 4) /\ Lut(2 * u + 1) = Byte(self, curr - 3)
       /\ Lut(2 * v) = Byte(self, curr - 2) /\ Lut(2 * v + 1) = Byte(self, curr - 1)
  BY <1>12, <1>13, LutPair
<1>15. buf' = CopyPair(CopyPair(buf, 2 * u, curr - 4), 2 * v, curr - 2)
  BY <1>7, <1>13
<1>16. curr >= 4
  BY <1>3, <1>8
<1>17. Filled(buf', self, curr - 4)
  BY <1>0, <1>8, <1>14, <1>15, <1>16, FourFilled
<1>18. Looping(j + 1)'
  <2>1. n = [k \in 1..L - j |-> m[k + j]]
    BY <1>1 DEF Looping, L, m
  <2>2. Tail(n) = [k \in 1..L - (j + 1) |-> m[k + (j + 1)]]
    <3>1. n \in Seq(Limb) /\ Len(n) = L - j
      BY <1>2 DEF IsMagnitude
    <3>2. Tail(n) = [k \in 1..Len(n) - 1 |-> n[k + 1]]
      <4>1. n # <<>>
        BY <1>0
      <4>2. /\ Tail(n) \in Seq(Limb) /\ Len(Tail(n)) = Len(n) - 1
            /\ \A k \in 1..Len(n) - 1 : Tail(n)[k] = n[k + 1]
        BY <3>1, <4>1
      <4>3. Tail(n) = [k \in 1..Len(Tail(n)) |-> Tail(n)[k]]
        <5>1. \A z \in Seq(Limb) : z = [k \in 1..Len(z) |-> z[k]]
          OBVIOUS
        <5>2. QED
          BY <4>2, <5>1, Zenon
      <4>4. QED
        BY <4>2, <4>3
    <3>3. Len(n) - 1 = L - (j + 1)
      BY <1>3, <3>1
    <3>4. \A k \in 1..L - (j + 1) : k + 1 \in 1..L - j /\ (k + 1) + j = k + (j + 1)
      BY <1>3
    <3>5. \A k \in 1..L - (j + 1) : n[k + 1] = m[k + (j + 1)]
      BY <2>1, <3>4
    <3>6. QED
      BY <3>2, <3>3, <3>5
  <2>3. curr - 4 = Size(m) - 4 * (j + 1) + s /\ j + 1 < L
    BY <1>3, <1>4, <1>8
  <2>4. QED
    BY <1>0, <1>7, <2>2, <2>3 DEF Looping, L, m, s
<1>19. j + 1 \in Nat
  OBVIOUS
<1>20. QED
  BY <1>0, <1>7, <1>17, <1>18, <1>19 DEF Filling

\* The digits of the top limb, where there is only that one left.
LEMMA TopBytes ==
    ASSUME IsInteger(ty, self), NEW e \in Nat, e <= 3, e >= First(Top(self.mag)) - 1
    PROVE  Byte(self, e + 1 - First(Top(self.mag)) + SignSize(self))
             = Digits[Digit(Top(self.mag), e) + 1]
<1> DEFINE m == self.mag
           L == Len(m)
           F == First(Top(m))
           s == SignSize(self)
           o == e + 1 - F + s
<1>1. L \in Nat /\ L >= 1 /\ F \in 1..4 /\ s \in Nat
  BY Sizes, Limbs
<1> HIDE DEF L, F, s, m
<1>2. PICK j \in Nat : j = L - 1
  BY <1>1
<1>3. e >= F - 1
  BY DEF F, m
<1>4. o \in Nat /\ o >= s /\ o = 4 * (L - 1 - j) + e + 1 - F + s /\ j < L /\ j + 1 = L
  BY <1>1, <1>2, <1>3
<1> HIDE DEF o
<1>5. /\ o = 4 * (Len(self.mag) - 1 - j) + e + 1 - First(Top(self.mag)) + SignSize(self)
      /\ o >= SignSize(self) /\ j < Len(self.mag)
  BY <1>4, Zenon DEF L, F, s, m
<1>6. Byte(self, o) = Digits[Digit(self.mag[j + 1], e) + 1]
  BY <1>4, <1>5, LimbByte
<1>7. self.mag[j + 1] = Top(self.mag)
  BY <1>4 DEF Top, L, m
<1>8. QED
  BY <1>6, <1>7 DEF o, F, s, m

\* The step over two digits keeps it.
LEMMA TwoDigitsFills ==
    ASSUME Filling, TwoDigits
    PROVE  Filling'
<1> DEFINE m == self.mag
           F == First(Top(m))
           s == SignSize(self)
<1>0. /\ IsInteger(ty, self) /\ ty \in Types /\ ty' = ty /\ self' = self /\ pc = "loop" /\ pc' = "last"
      /\ Filled(buf, self, curr) /\ Len(n) = 1
  BY DEF Filling, TwoDigits
<1>1. PICK j \in Nat : Looping(j)
  BY <1>0 DEF Filling
<1>2. PICK T : T = Top(m)
  OBVIOUS
<1>3. /\ n \in Seq(Limb) /\ n[1] = T /\ T \in Limb /\ Size(n) = Size(m) - 4 * j
      /\ Size(n) = 4 * 1 + 1 - F
  <2>1. IsMagnitude(n) /\ Top(n) = Top(m) /\ n[1] \in Limb /\ Size(n) = Size(m) - 4 * j
    BY <1>0, <1>1, LoopingIs
  <2>2. QED
    BY <1>0, <1>2, <2>1 DEF Top, IsMagnitude, Size
<1>4. /\ T \in Nat /\ T <= 9999 /\ F \in 1..4 /\ s \in Nat /\ s <= 1
      /\ TextSize(self) = Size(m) + s /\ Size(m) \in Nat
  BY <1>0, <1>2, <1>3, LimbIs, FirstDigit, Sizes
<1>5. curr = 5 - F + s
  <2>1. curr = Size(n) + s
    BY <1>1, <1>3 DEF Looping
  <2>2. QED
    BY <1>3, <1>4, <2>1
<1>6. CASE ~(T >= 100)
  <2>1. UNCHANGED <<n, curr, buf>>
    BY <1>3, <1>6 DEF TwoDigits
  <2>2. Left(T) = T /\ LeftSize(T) = 5 - F
    BY <1>2, <1>6 DEF Left, LeftSize
  <2>3. n = <<T>>
    BY <1>0, <1>3
  <2>4. QED
    BY <1>0, <1>2, <1>5, <2>1, <2>2, <2>3 DEF Filling
<1>7. CASE T >= 100
  <2>1. /\ n' = <<T \div 100>> /\ curr' = curr - 2
        /\ buf' = CopyPair(buf, 2 * (T % 100), curr - 2)
    BY <1>3, <1>7 DEF TwoDigits
  <2>2. Left(T) = T \div 100 /\ LeftSize(T) = 3 - F /\ F <= 2
    BY <1>2, <1>4, <1>7 DEF Left, LeftSize, First
  <2> HIDE DEF F, s, m
  <2>3. curr \in Nat /\ curr >= 2 /\ curr <= TextSize(self) /\ curr - 2 = 3 - F + s
    <3>1. Size(m) >= 5 - F
      BY <1>3, <1>4
    <3>2. QED
      BY <1>4, <1>5, <2>2, <3>1
  <2>4. curr - 2 = 2 + 1 - F + s /\ curr - 1 = 3 + 1 - F + s /\ 2 >= F - 1 /\ 3 >= F - 1
    <3>1. F \in Int /\ F <= 4 /\ F >= 1 /\ s \in Int
      BY <1>4
    <3>2. QED
      BY <1>5, <2>2, <3>1
  <2>5. /\ Byte(self, 2 + 1 - F + s) = Digits[Digit(T, 2) + 1]
        /\ Byte(self, 3 + 1 - F + s) = Digits[Digit(T, 3) + 1]
    BY <1>0, <1>2, <2>4, TopBytes DEF F, s, m
  <2>6. Digit(T, 2) = (T \div 10) % 10 /\ Digit(T, 3) = T % 10
    BY <1>3, DigitsOfLimb
  <2>7. PICK v \in Nat : v = T % 100 /\ v <= 99 /\ v \div 10 = (T \div 10) % 10 /\ v % 10 = T % 10
    BY <1>4
  <2>8. Lut(2 * v) = Byte(self, curr - 2) /\ Lut(2 * v + 1) = Byte(self, curr - 1)
    BY <2>4, <2>5, <2>6, <2>7, LutPair
  <2>9. Filled(buf', self, curr - 2)
    BY <1>0, <2>1, <2>3, <2>7, <2>8, PairFilled
  <2>10. QED
    BY <1>0, <1>2, <2>1, <2>2, <2>3, <2>9 DEF Filling, F, s, m
<1>8. QED
  BY <1>6, <1>7

\* The last one or two digits keep it.
LEMMA LastDigitsFills ==
    ASSUME Filling, LastDigits
    PROVE  Filling'
<1> DEFINE F == First(Top(self.mag))
           s == SignSize(self)
<1>0. /\ IsInteger(ty, self) /\ ty \in Types /\ ty' = ty /\ self' = self /\ pc = "last" /\ pc' = "sign"
      /\ Filled(buf, self, curr)
  BY DEF Filling, LastDigits
<1>1. PICK T : T = Top(self.mag)
  OBVIOUS
<1>2. T \in Limb /\ s \in Nat
  BY <1>0, <1>1, Sizes, Limbs
<1>3. T \in Nat /\ T <= 9999 /\ F \in 1..4
  BY <1>1, <1>2, LimbIs, FirstDigit
<1>4. PICK v \in Nat : v = Left(T) /\ v <= 99 /\ LeftSize(T) = 5 - First(v)
  BY <1>2, LeftIs
<1>5. n[1] = v /\ curr = LeftSize(T) + s
  BY <1>0, <1>1, <1>4 DEF Filling
<1>6. TextSize(self) \in Nat /\ TextSize(self) >= 5 - F + s
  <2>1. /\ Size(self.mag) = 4 * Len(self.mag) + 1 - F /\ Len(self.mag) \in Nat /\ Len(self.mag) >= 1
        /\ TextSize(self) = Size(self.mag) + s /\ TextSize(self) \in Nat
    BY <1>0, Sizes, Limbs
  <2>2. PICK k \in Nat : k = Len(self.mag)
    BY <2>1
  <2> HIDE DEF F, s
  <2>3. k >= 1 /\ TextSize(self) = (4 * k + 1 - F) + s
    BY <2>1, <2>2
  <2>4. QED
    BY <1>2, <1>3, <2>1, <2>3
<1>7. /\ Digit(T, 0) = T \div 1000 /\ Digit(T, 1) = (T \div 100) % 10
      /\ Digit(T, 2) = (T \div 10) % 10 /\ Digit(T, 3) = T % 10
  BY <1>2, DigitsOfLimb
<1>8. ASSUME NEW e \in Nat, e <= 3, e >= F - 1
      PROVE  Byte(self, e + 1 - F + s) = Digits[Digit(T, e) + 1]
  BY <1>0, <1>1, <1>8, TopBytes
<1>9. ASSUME Filled(buf', self, s), curr' = s PROVE Filling'
  BY <1>0, <1>9 DEF Filling
<1>10. CASE v < 10
  <2>1. First(v) = 4
    BY <1>10 DEF First
  <2>2. curr = s + 1 /\ curr - 1 = s /\ s + 1 \in Nat /\ s + 1 >= 1
    BY <1>2, <1>4, <1>5, <2>1
  <2>3. curr' = s /\ buf' = PutByte(buf, Digits[v + 1], s)
    BY <1>5, <1>10, <2>2 DEF LastDigits
  <2>4. Byte(self, s) = Digits[v + 1]
    <3>1. CASE T >= 100
      <4>1. F = 2 /\ (T \div 100) % 10 = v
        <5>1. v = T \div 100 /\ T < 1000
          BY <1>3, <1>4, <1>10, <3>1 DEF Left
        <5>2. QED
          BY <1>1, <1>3, <1>10, <3>1, <5>1 DEF First
      <4> HIDE DEF F, s
      <4>2. 1 + 1 - F + s = s /\ 1 >= F - 1
        BY <1>2, <4>1
      <4>3. QED
        BY <1>7, <1>8, <4>1, <4>2
    <3>2. CASE ~(T >= 100)
      <4>1. F = 4 /\ T % 10 = v
        <5>1. v = T
          BY <1>4, <3>2 DEF Left
        <5>2. QED
          BY <1>1, <1>10, <5>1 DEF First
      <4> HIDE DEF F, s
      <4>2. 3 + 1 - F + s = s /\ 3 >= F - 1
        BY <1>2, <4>1
      <4>3. QED
        BY <1>7, <1>8, <4>1, <4>2
    <3>3. QED
      BY <3>1, <3>2
  <2>5. s + 1 <= TextSize(self) /\ (s + 1) - 1 = s
    BY <1>2, <1>3, <1>6
  <2>6. Filled(buf', self, s)
    <3> HIDE DEF s
    <3>1. QED
      BY <1>0, <2>2, <2>3, <2>4, <2>5, BytesFilled
  <2>7. QED
    BY <1>9, <2>3, <2>6
<1>11. CASE ~(v < 10)
  <2>1. First(v) = 3
    BY <1>4, <1>11 DEF First
  <2>2. curr = s + 2 /\ curr - 2 = s /\ s + 2 \in Nat /\ s + 2 >= 2
    BY <1>2, <1>4, <1>5, <2>1
  <2>3. curr' = s /\ buf' = CopyPair(buf, 2 * v, s)
    BY <1>5, <1>11, <2>2 DEF LastDigits
  <2>4. F <= 3 /\ Byte(self, s) = Digits[(v \div 10) + 1] /\ Byte(self, s + 1) = Digits[(v % 10) + 1]
    <3>1. CASE T >= 100
      <4>1. F = 1 /\ T \div 1000 = v \div 10 /\ (T \div 100) % 10 = v % 10
        <5>1. v = T \div 100 /\ T >= 1000
          BY <1>3, <1>4, <1>11, <3>1 DEF Left
        <5>2. QED
          BY <1>1, <1>3, <1>11, <3>1, <5>1 DEF First
      <4> HIDE DEF F, s
      <4>2. 0 + 1 - F + s = s /\ 1 + 1 - F + s = s + 1 /\ 0 >= F - 1 /\ 1 >= F - 1
        BY <1>2, <4>1
      <4>3. QED
        BY <1>7, <1>8, <4>1, <4>2
    <3>2. CASE ~(T >= 100)
      <4>1. F = 3 /\ (T \div 10) % 10 = v \div 10 /\ T % 10 = v % 10
        <5>1. v = T
          BY <1>4, <3>2 DEF Left
        <5>2. QED
          BY <1>1, <1>4, <1>11, <5>1 DEF First
      <4> HIDE DEF F, s
      <4>2. 2 + 1 - F + s = s /\ 3 + 1 - F + s = s + 1 /\ 2 >= F - 1 /\ 3 >= F - 1
        BY <1>2, <4>1
      <4>3. QED
        BY <1>7, <1>8, <4>1, <4>2
    <3>3. QED
      BY <3>1, <3>2
  <2> HIDE DEF F, s
  <2>5. s + 2 <= TextSize(self) /\ (s + 2) - 2 = s /\ (s + 2) - 1 = s + 1
    BY <1>2, <1>3, <1>6, <2>4
  <2>6. Lut(2 * v) = Byte(self, s) /\ Lut(2 * v + 1) = Byte(self, s + 1)
    BY <1>4, <2>4, LutPair
  <2>7. Filled(buf', self, s)
    BY <1>0, <2>2, <2>3, <2>5, <2>6, PairFilled
  <2>8. QED
    BY <1>9, <2>3, <2>7
<1>12. QED
  BY <1>10, <1>11

\* The sign keeps it.
LEMMA SignFills ==
    ASSUME Filling, Sign
    PROVE  Filling'
<1>0. /\ IsInteger(ty, self) /\ ty \in Types /\ ty' = ty /\ self' = self /\ pc = "sign" /\ pc' = "done"
      /\ Filled(buf, self, curr) /\ curr = SignSize(self)
  BY DEF Filling, Sign
<1>1. TextSize(self) \in Nat /\ TextSize(self) = Size(self.mag) + SignSize(self)
      /\ Size(self.mag) \in Nat
  BY <1>0, Sizes
<1>2. CASE self.neg
  <2>1. SignSize(self) = 1 /\ curr' = curr - 1 /\ buf' = PutByte(buf, "-", curr - 1)
    BY <1>2 DEF Sign, SignSize
  <2>2. Byte(self, 0) = "-" /\ 1 <= TextSize(self) /\ 1 - 1 = 0 /\ curr = 1
    BY <1>0, <1>1, <2>1 DEF Byte
  <2>3. Filled(buf', self, 0)
    BY <1>0, <2>1, <2>2, BytesFilled
  <2>4. QED
    BY <1>0, <2>1, <2>2, <2>3 DEF Filling
<1>3. CASE ~self.neg
  BY <1>0, <1>3 DEF Sign, SignSize, Filling
<1>4. QED
  BY <1>2, <1>3

\* Every step keeps it.
LEMMA NextFilling == Filling /\ [Next]_vars => Filling'
<1> SUFFICES ASSUME Filling, [Next]_vars PROVE Filling'
  OBVIOUS
<1>1. CASE NoMemory
  BY <1>1 DEF NoMemory, Filling
<1>2. CASE UNCHANGED vars
  BY <1>2 DEF vars, Filling, Looping
<1>3. QED
  BY <1>1, <1>2, StartFills, FourDigitsFills, TwoDigitsFills, LastDigitsFills, SignFills DEF Next

\* into_repr never writes outside the digits_count bytes it was given, and what it has
\* written so far is the end of the decimal text, for every value of every integer
\* type: what its SAFETY comment claims.
THEOREM DigitsFillBackwards == Spec => []BackwardsFill
<1>1. Spec => []Filling
  BY InitFilling, NextFilling, PTL DEF Spec
<1>2. QED
  BY <1>1, FillingIsBackwards, PTL

\* The string an integer becomes is its decimal text, the sign included, and no byte of
\* the buffer is left uninitialized: digit_count is right for every value of every type.
THEOREM IntegersWriteDecimal == Spec => []WritesDecimal
<1>1. Spec => []Filling
  BY InitFilling, NextFilling, PTL DEF Spec
<1>2. QED
  BY <1>1, FillingWrites, PTL
=============================================================================
