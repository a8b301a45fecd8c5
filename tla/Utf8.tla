-------------------------------- MODULE Utf8 --------------------------------
(***************************************************************************)
(* Texts as sequences of bytes, the two ways the code moves bytes, and     *)
(* what the standard library says of characters.  A few bytes are enough:  *)
(* a lower and an upper case ASCII letter, and characters of two bytes     *)
(* with a common first byte: one whose upper case is longer than it is     *)
(* (there are such: U+0149), and the three sigmas.  All offsets count from *)
(* zero, as in the code.                                                   *)
(***************************************************************************)
EXTENDS Integers, SequencesExt

\* A byte that was never written, or that no length covers any more.
Uninit == "uninit"

\* The bytes of ASCII characters, and the second bytes of the others.
Ascii == {"a", "A"}
Trailing == {"e2", "S2", "s2", "f2"}

Sigma == <<"e1", "S2">>
SmallSigma == <<"e1", "s2">>
FinalSigma == <<"e1", "f2">>

IsUtf8(t) == \A i \in 1..Len(t) :
    /\ t[i] \in Ascii \cup {"e1"} \cup Trailing
    /\ t[i] = "e1" => i < Len(t) /\ t[i + 1] \in Trailing
    /\ t[i] \in Trailing => i > 1 /\ t[i - 1] = "e1"

\* str::is_char_boundary.
IsCharBoundary(t, i) == i <= Len(t) /\ (i = Len(t) \/ t[i + 1] \notin Trailing)

\* The offsets at which the characters of t start (char_indices).
Starts(t) ==
    LET upTo[n \in 0..Len(t)] ==
            IF n = 0 THEN <<>>
            ELSE IF t[n] \in Trailing THEN upTo[n - 1] ELSE Append(upTo[n - 1], n - 1)
    IN  upTo[Len(t)]

\* The character at offset i.
CharAt(t, i) == SubSeq(t, i + 1, IF t[i + 1] = "e1" THEN i + 2 ELSE i + 1)

\* The characters of t (chars).
CharsOf(t) == [k \in DOMAIN Starts(t) |-> CharAt(t, Starts(t)[k])]

\* to_ascii_lowercase and to_ascii_uppercase of one byte, and of a text.
AsciiByte(b, case) == CASE b = "A" /\ case = "Lower" -> "a"
                        [] b = "a" /\ case = "Upper" -> "A"
                        [] OTHER                     -> b

AsciiCase(t, case) == [i \in DOMAIN t |-> AsciiByte(t[i], case)]

\* char::to_lowercase and to_uppercase.
CharCase(ch, case) ==
    CASE Len(ch) = 1                                            -> AsciiCase(ch, case)
      [] case = "Upper" /\ ch = <<"e1", "e2">>                  -> ch \o <<"A">>
      [] case = "Upper" /\ ch \in {SmallSigma, FinalSigma}      -> Sigma
      [] case = "Lower" /\ ch = Sigma                           -> SmallSigma
      [] OTHER                                                  -> ch

\* str::to_lowercase and to_uppercase: a sigma that ends a word has its own lower
\* case (every character here is a letter, so a word ends with the text).
StrCase(t, case) ==
    LET chars == CharsOf(t)
        IsFinal(k) == k = Len(chars) /\ k > 1 /\ chars[k] = Sigma
    IN  FlattenSeq([k \in DOMAIN chars |-> IF case = "Lower" /\ IsFinal(k) THEN FinalSigma
                                           ELSE CharCase(chars[k], case)])

\* The buffer d after ptr::copy of n bytes from offset src to offset dst, ...
CopyWithin(d, src, dst, n) ==
    [i \in DOMAIN d |-> IF i \in dst + 1..dst + n THEN d[i - dst + src] ELSE d[i]]

\* ... and after the bytes s are copied to offset dst.
CopyFrom(d, s, dst) ==
    [i \in DOMAIN d |-> IF i \in dst + 1..dst + Len(s) THEN s[i - dst] ELSE d[i]]

\* The first n bytes of d in a buffer of cap bytes; the others are uninitialized.
Pad(d, n, cap) == [i \in 1..cap |-> IF i <= n THEN d[i] ELSE Uninit]
=============================================================================
