------------------------------ MODULE NumToRepr ------------------------------
(***************************************************************************)
(* Integers to decimal text (src/repr/num_to_repr.rs).  The number of      *)
(* bytes comes from a table of decades, one per integer type, and the      *)
(* buffer is allocated for exactly as many; the digits are then written    *)
(* backwards through a raw pointer, four, two and one at a time.  Nothing  *)
(* checks that the two agree (a debug_assert aside): a decade that is off  *)
(* by one would write in front of the buffer or leave a byte of it         *)
(* uninitialized.                                                          *)
(*                                                                         *)
(* TLC's integers are too narrow for a u64, so a magnitude is the sequence *)
(* of its digits in base 10000, the least significant one first and the    *)
(* last one nonzero (zero is <<0>>): what the loop takes off, limb by      *)
(* limb.                                                                   *)
(***************************************************************************)
EXTENDS Integers, Sequences, FiniteSets

CONSTANTS
    Types,          \* integer types: the names of those below
    Values(_),      \* the values of a type that are formatted
    MaxInlineSize,  \* MAX_INLINE_SIZE
    NarrowU         \* the $u that types of 32 bits and less are cast to on the target

VARIABLES
    ty, self,   \* the integer: its type, and its sign neg and magnitude mag
    pc,         \* the step of into_repr
    n,          \* the magnitude that is left, in limbs
    curr,       \* the offset of the first byte written
    buf         \* the buffer: offsets mapped to bytes

vars == <<ty, self, pc, n, curr, buf>>

-----------------------------------------------------------------------------
(* Magnitudes.                                                             *)

Uninit == "uninit"

\* The powers of ten below 10000.
Tens == <<1, 10, 100, 1000>>

\* a <= b.
Leq(a, b) ==
    \/ a = b
    \/ Len(a) < Len(b)
    \/ /\ Len(a) = Len(b)
       /\ \E i \in 1..Len(a) : a[i] < b[i] /\ \A j \in i + 1..Len(a) : a[j] = b[j]

\* The largest magnitudes of each type, not negative and negative.
MaxMag == [u8 |-> <<255>>, i8 |-> <<127>>, u16 |-> <<5535, 6>>, i16 |-> <<2767, 3>>,
           u32 |-> <<7295, 9496, 42>>, i32 |-> <<3647, 4748, 21>>,
           u64 |-> <<1615, 955, 737, 6744, 1844>>, i64 |-> <<5807, 5477, 368, 3372, 922>>]
MinMag == [i8 |-> <<128>>, i16 |-> <<2768, 3>>, i32 |-> <<3648, 4748, 21>>,
           i64 |-> <<5808, 5477, 368, 3372, 922>>]

Limb == 0..9999

\* The values of type t.
IsMagnitude(mag) ==
    /\ mag \in Seq(Limb) /\ Len(mag) > 0
    /\ Len(mag) > 1 => mag[Len(mag)] # 0

IsInteger(t, x) ==
    /\ x = [neg |-> x.neg, mag |-> x.mag] /\ x.neg \in BOOLEAN
    /\ IsMagnitude(x.mag)
    /\ IF x.neg THEN t \in DOMAIN MinMag /\ x.mag # <<0>> /\ Leq(x.mag, MinMag[t])
       ELSE Leq(x.mag, MaxMag[t])

ASSUME NumAssumption ==
    /\ Types \subseteq {"u8", "i8", "u16", "i16", "u32", "i32", "u64", "i64"}
    /\ \A t \in Types : \A x \in Values(t) : IsInteger(t, x)
    /\ MaxInlineSize \in Nat
    /\ NarrowU \in {"u32", "u64"}

-----------------------------------------------------------------------------
(* The magnitude of a negative integer, by wrapping arithmetic of the width of $u. *)

\* A number of that width: five limbs, with zeros in front.
Word(mag) == [i \in 1..5 |-> IF i <= Len(mag) THEN mag[i] ELSE 0]

Trimmed(w) ==
    SubSeq(w, 1, CHOOSE k \in 1..5 : (w[k] # 0 \/ k = 1) /\ \A j \in k + 1..5 : w[j] = 0)

\* a - b, where a limb borrows from the next when those up to it are too small.
Borrows(a, b, i) == \E j \in 1..i - 1 : a[j] < b[j] /\ \A k \in j + 1..i - 1 : a[k] = b[k]

Minus(a, b) == [i \in 1..5 |-> (a[i] - b[i] - (IF Borrows(a, b, i) THEN 1 ELSE 0)) % 10000]

\* wrapping_add(1), below 2 to the width.
PlusOne(a, max) ==
    IF a = max THEN Word(<<0>>)
    ELSE [i \in 1..5 |-> (a[i] + (IF \A j \in 1..i - 1 : a[j] = 9999 THEN 1 ELSE 0)) % 10000]

\* !a, all bits flipped, plus one.
Complement(a, max) == PlusOne(Minus(max, a), max)

\* n before the loop. The cast to $u sign-extends: a negative integer is the complement
\* of its magnitude in the width of $u, whatever its own; that is complemented again.
Magnitude(t, x) ==
    LET max == Word(MaxMag[IF t \in {"i64", "u64"} THEN "u64" ELSE NarrowU])
        cast == Complement(Word(x.mag), max)
    IN  IF x.neg THEN Trimmed(Complement(cast, max)) ELSE x.mag

-----------------------------------------------------------------------------
(* digit_count.                                                            *)

\* Where the arms end: the table of u64, of which the others are the beginning.
Ends == <<
    <<9>>, <<99>>, <<999>>, <<9999>>,
    <<9999, 9>>, <<9999, 99>>, <<9999, 999>>, <<9999, 9999>>,
    <<9999, 9999, 9>>, <<9999, 9999, 99>>, <<9999, 9999, 999>>, <<9999, 9999, 9999>>,
    <<9999, 9999, 9999, 9>>, <<9999, 9999, 9999, 99>>, <<9999, 9999, 9999, 999>>,
    <<9999, 9999, 9999, 9999>>,
    <<9999, 9999, 9999, 9999, 9>>, <<9999, 9999, 9999, 9999, 99>>,
    <<9999, 9999, 9999, 9999, 999>> >>

\* The arms of each table for values that are not negative; the last one ends at the
\* type's maximum.
Arms == [u8 |-> 3, i8 |-> 3, u16 |-> 5, i16 |-> 5, u32 |-> 10, i32 |-> 10,
         u64 |-> 20, i64 |-> 19]

\* The arms for negative values are bounded by the same numbers with a sign, and are one
\* byte longer.
NegArms == [i8 |-> 3, i16 |-> 5, i32 |-> 10, i64 |-> 19]

\* Mutant: a table of u64 that stops one arm early, as the one of i64 may.
DigitCountI64(t, x) ==
    LET last == CASE t = "u64" -> 19 [] x.neg -> NegArms[t] [] OTHER -> Arms[t]
    IN  1 + Cardinality({k \in 1..last - 1 : ~Leq(x.mag, Ends[k])})
          + (IF x.neg THEN 1 ELSE 0)

DigitCount(t, x) ==
    LET last == IF x.neg THEN NegArms[t] ELSE Arms[t]
    IN  1 + Cardinality({k \in 1..last - 1 : ~Leq(x.mag, Ends[k])})
          + (IF x.neg THEN 1 ELSE 0)

-----------------------------------------------------------------------------
(* into_repr.                                                              *)

Digits == <<"0", "1", "2", "3", "4", "5", "6", "7", "8", "9">>

\* DEC_DIGITS_LUT: the two digits of every number up to 99, one after the other.
Lut(i) == IF i % 2 = 0 THEN Digits[(i \div 20) + 1] ELSE Digits[((i \div 2) % 10) + 1]

\* Two bytes of the table to offset o; outside the buffer they add to its domain.
CopyPair(b, d, o) ==
    [i \in DOMAIN b \cup {o, o + 1} |->
        IF i = o THEN Lut(d) ELSE IF i = o + 1 THEN Lut(d + 1) ELSE b[i]]

PutByte(b, c, o) == [i \in DOMAIN b \cup {o} |-> IF i = o THEN c ELSE b[i]]

Init ==
    /\ ty \in Types
    /\ self \in Values(ty)
    /\ pc = "start"
    /\ n = <<0>> /\ curr = 0 /\ buf = <<>>

\* The prologue, and new_with: the bytes are in the handle or in a new heap buffer.
Start ==
    /\ pc = "start" /\ pc' = "loop"
    /\ n' = Magnitude(ty, self)
    /\ curr' = DigitCount(ty, self)
    /\ buf' = [o \in 0..DigitCount(ty, self) - 1 |-> Uninit]
    /\ UNCHANGED <<ty, self>>

NoMemory ==
    /\ pc = "start" /\ DigitCount(ty, self) > MaxInlineSize
    /\ pc' = "err"
    /\ UNCHANGED <<ty, self, n, curr, buf>>

\* Mutant: the upper pair of digits is written behind the lower one.
FourDigitsSwapped ==
    LET rem == n[1] IN
    /\ pc = "loop" /\ Len(n) > 1
    /\ n' = Tail(n)
    /\ curr' = curr - 4
    /\ buf' = CopyPair(CopyPair(buf, 2 * (rem % 100), curr - 4),
                       2 * (rem \div 100), curr - 2)
    /\ UNCHANGED <<ty, self, pc>>

\* while n >= 10000.
FourDigits ==
    LET rem == n[1] IN
    /\ pc = "loop" /\ Len(n) > 1
    /\ n' = Tail(n)
    /\ curr' = curr - 4
    /\ buf' = CopyPair(CopyPair(buf, 2 * (rem \div 100), curr - 4),
                       2 * (rem % 100), curr - 2)
    /\ UNCHANGED <<ty, self, pc>>

\* if n >= 100.
TwoDigits ==
    /\ pc = "loop" /\ Len(n) = 1 /\ pc' = "last"
    /\ IF n[1] >= 100
       THEN /\ n' = <<n[1] \div 100>>
            /\ curr' = curr - 2
            /\ buf' = CopyPair(buf, 2 * (n[1] % 100), curr - 2)
       ELSE UNCHANGED <<n, curr, buf>>
    /\ UNCHANGED <<ty, self>>

\* The last digit or two.
LastDigits ==
    /\ pc = "last" /\ pc' = "sign"
    /\ IF n[1] < 10
       THEN /\ curr' = curr - 1
            /\ buf' = PutByte(buf, Digits[n[1] + 1], curr - 1)
       ELSE /\ curr' = curr - 2
            /\ buf' = CopyPair(buf, 2 * n[1], curr - 2)
    /\ UNCHANGED <<ty, self, n>>

Sign ==
    /\ pc = "sign" /\ pc' = "done"
    /\ IF self.neg
       THEN curr' = curr - 1 /\ buf' = PutByte(buf, "-", curr - 1)
       ELSE UNCHANGED <<curr, buf>>
    /\ UNCHANGED <<ty, self, n>>

Next == Start \/ NoMemory \/ FourDigits \/ TwoDigits \/ LastDigits \/ Sign

Spec == Init /\ [][Next]_vars

-----------------------------------------------------------------------------
(* Properties.                                                             *)

\* What core::fmt would print: the limbs with all their zeros, from the first digit
\* that counts.
Padded(mag) ==
    [i \in 1..4 * Len(mag) |->
        LET limb == mag[Len(mag) - ((i - 1) \div 4)]
        IN  Digits[((limb \div Tens[4 - ((i - 1) % 4)]) % 10) + 1]]

Decimal(mag) ==
    LET p == Padded(mag)
        first == CHOOSE i \in 1..Len(p) :
                    /\ p[i] # "0" \/ i = Len(p)
                    /\ \A j \in 1..i - 1 : p[j] = "0"
    IN  SubSeq(p, first, Len(p))

Printed == (IF self.neg THEN <<"-">> ELSE <<>>) \o Decimal(self.mag)

\* What every step preserves, and the SAFETY comment of into_repr claims: nothing is
\* written outside the buffer, the bytes from curr on are the end of the text, and
\* in front of curr there is room for exactly the digits of n and the sign.
BackwardsFill ==
    pc \in {"loop", "last", "sign"} =>
        LET t == Printed
            left == CASE pc = "sign" -> 0 [] OTHER -> Len(Decimal(n))
        IN  /\ DOMAIN buf = 0..Len(t) - 1
            /\ \A o \in 0..Len(t) - 1 : buf[o] = IF o < curr THEN Uninit ELSE t[o + 1]
            /\ curr = left + (IF self.neg THEN 1 ELSE 0)

\* The buffer that becomes the string holds the decimal text of the integer and
\* nothing else, from its first byte on: the table of digit_count was right.
WritesDecimal ==
    pc = "done" => /\ curr = 0
                   /\ DOMAIN buf = 0..Len(Printed) - 1
                   /\ \A o \in DOMAIN buf : buf[o] = Printed[o + 1]
=============================================================================
