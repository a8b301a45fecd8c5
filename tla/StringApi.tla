----------------------------- MODULE StringApi ------------------------------
(***************************************************************************)
(* What the documentation of LeanString and LeanStr (src/lib.rs) promises  *)
(* to a single thread, in terms of texts alone: for each call, the texts   *)
(* of all strings after it, whether it returns a value, an error or        *)
(* panics, and that a call which fails or panics leaves every text as it   *)
(* was.  There are no buffers here, no sharing and no capacity.            *)
(***************************************************************************)
EXTENDS Utf8, TLC

CONSTANTS UsizeMax

VARIABLES
    text,   \* text[h]: the text of string h, for the strings that exist
    io      \* the last call, how it ended and the value it returned

vars == <<text, io>>

Init == text = <<>> /\ io = [call |-> <<"start">>, ret |-> "ok", val |-> <<>>]

-----------------------------------------------------------------------------
(* How a call may end.                                                     *)

Ends(ret, v, T) == {[ret |-> ret, val |-> v, text |-> T]}

Fails == Ends("err", <<>>, text)
Panics == Ends("panic", <<>>, text)
Unchanged == Ends("ok", <<>>, text)

\* The function f, with k mapped to v.
Put(f, k, v) == [x \in DOMAIN f \cup {k} |-> IF x = k THEN v ELSE f[x]]

\* h has text t afterwards: always, or unless memory is short.
Sets(h, t) == Ends("ok", <<>>, Put(text, h, t))
MaySet(h, t) == Sets(h, t) \cup Fails

Without(h) == [k \in DOMAIN text \ {h} |-> text[k]]

\* The range lo..hi of t, as offsets (std::ops::RangeBounds); a bound above
\* usize::MAX is out of range whatever the text.
First(lo) == IF lo[1] = "unbounded" THEN 0 ELSE lo[2] + IF lo[1] = "excluded" THEN 1 ELSE 0
End(t, hi) ==
    IF hi[1] = "unbounded" THEN Len(t) ELSE hi[2] + IF hi[1] = "included" THEN 1 ELSE 0
InRange(t, i, j) == IsCharBoundary(t, i) /\ IsCharBoundary(t, j) /\ i <= j

\* t with the bytes i..j replaced by s.
Spliced(t, i, j, s) == SubSeq(t, 1, i) \o s \o SubSeq(t, j + 1, Len(t))

\* The characters the predicate of retain keeps among the first n: those at its calls
\* in keep. It panics at its call number boom.
Filtered(t, keep, n) ==
    LET chars == [k \in 1..n |-> CharAt(t, Starts(t)[k])]
    IN  FlattenSeq([k \in 1..n |-> IF k \in keep THEN chars[k] ELSE <<>>])

Retained(h, p) ==
    LET t == text[h]
        n == Len(Starts(t))
        tail(k) == SubSeq(t, Starts(t)[k] + 1, Len(t))
    IN  IF p.boom \notin 1..n THEN
            IF Filtered(t, p.keep, n) = t THEN Unchanged
            ELSE MaySet(h, Filtered(t, p.keep, n))
        ELSE IF Filtered(t, p.keep, p.boom - 1) \o tail(p.boom) = t THEN Panics
        ELSE Fails \cup Ends("panic", <<>>, Put(text, h, Filtered(t, p.keep, p.boom - 1)))

-----------------------------------------------------------------------------
(* The calls. A call is a tuple: the method, the string, the arguments.    *)

Insert(h, i, s) == IF IsCharBoundary(text[h], i) THEN MaySet(h, Spliced(text[h], i, i, s))
                   ELSE Panics

Remove_(h, i) ==
    LET t == text[h] IN
    IF IsCharBoundary(t, i) /\ i < Len(t)
    THEN Fails \cup Ends("ok", CharAt(t, i), Put(text, h, Spliced(t, i, i + Len(CharAt(t, i)), <<>>)))
    ELSE Panics

Pop_(h) ==
    LET t == text[h] IN
    IF t = <<>> THEN Unchanged
    ELSE Fails \cup Ends("ok", CharAt(t, Last(Starts(t))), Put(text, h, SubSeq(t, 1, Last(Starts(t)))))

Truncate_(h, n) ==
    LET t == text[h] IN
    IF n >= Len(t) THEN Unchanged
    ELSE IF IsCharBoundary(t, n) THEN MaySet(h, SubSeq(t, 1, n)) ELSE Panics

ReplaceRange_(h, lo, hi, s) ==
    LET t == text[h]
        i == First(lo)
        j == End(t, hi)
    IN  IF InRange(t, i, j) THEN MaySet(h, Spliced(t, i, j, s)) ELSE Panics

ExtendFromWithin_(h, lo, hi) ==
    LET t == text[h]
        i == First(lo)
        j == End(t, hi)
    IN  IF InRange(t, i, j) THEN MaySet(h, t \o SubSeq(t, i + 1, j)) ELSE Panics

SplitOff_(h, k, at) ==
    LET t == text[h] IN
    IF IsCharBoundary(t, at)
    THEN Fails \cup Ends("ok", <<>>, Put(Put(text, k, SubSeq(t, at + 1, Len(t))), h, SubSeq(t, 1, at)))
    ELSE Panics

Repeat_(h, k, times) ==
    IF Len(text[h]) * times > UsizeMax THEN Fails
    ELSE MaySet(k, FlattenSeq([i \in 1..times |-> text[h]]))

\* A text that is built piece by piece (an iterator, a Display, undecoded input).
\* Between the pieces the program may do other things. It stops with an error or a
\* panic; then a text that was new is gone and one that was extended stays as it is,
\* and a piece g that was handed over is gone.
Stops(h, G) == [ret : {"err", "panic"}, val : {<<>>},
                text : {[k \in DOMAIN text \ D |-> text[k]] : D \in {G, G \cup {h}}}]

Begins(h, g) == Ends("ok", <<>>, Put(Without(g), h, text[g])) \cup Stops(h, {g})

Takes(h, g) == Ends("ok", <<>>, Put(Without(g), h, text[h] \o text[g])) \cup Stops(h, {g})

Allowed(c) ==
    LET method == c[1]
        h == c[2]
    IN  CASE method = "from_str"           -> MaySet(h, c[3])
          [] method = "from_static_str"    -> MaySet(h, c[3])
          [] method = "with_capacity"      -> MaySet(h, <<>>)
          [] method = "clone"              -> Sets(c[3], text[h])
          [] method = "to_other"           -> MaySet(c[3], text[h])
          [] method = "clone_from"         -> Sets(h, text[c[3]])
          [] method = "drop"               -> Ends("ok", <<>>, Without(h))
          [] method = "into"               -> Unchanged \cup Ends("err", <<>>, Without(h))
          [] method = "reserve"            -> MaySet(h, text[h])
          [] method = "shrink_to"          -> MaySet(h, text[h])
          [] method = "push_str"           -> MaySet(h, text[h] \o c[3])
          [] method = "write_fmt"          -> MaySet(h, text[h] \o c[3])
          [] method = "push"               -> MaySet(h, text[h] \o c[3])
          [] method = "insert"             -> Insert(h, c[3], c[4])
          [] method = "remove"             -> Remove_(h, c[3])
          [] method = "pop"                -> Pop_(h)
          [] method = "truncate"           -> Truncate_(h, c[3])
          [] method = "clear"              -> Sets(h, <<>>)
          [] method = "retain"             -> Retained(h, c[3])
          [] method = "replace_range"      -> ReplaceRange_(h, c[3], c[4], c[5])
          [] method = "extend_from_within" -> ExtendFromWithin_(h, c[3], c[4])
          [] method = "make_ascii_case"    -> MaySet(h, AsciiCase(text[h], c[3]))
          [] method = "to_ascii_case"      -> MaySet(c[3], AsciiCase(text[h], c[4]))
          [] method = "to_case"            -> MaySet(c[3], StrCase(text[h], c[4]))
          [] method = "repeat"             -> Repeat_(h, c[3], c[4])
          [] method = "split_off"          -> SplitOff_(h, c[3], c[4])
          [] method = "begin"              -> Sets(h, c[3]) \cup Panics
          [] method = "begin_with"         -> Begins(h, c[3])
          [] method = "item"               -> Sets(h, text[h] \o c[3]) \cup Stops(h, {})
          [] method = "item_of"            -> Takes(h, c[3])
          [] method = "stop"               -> Stops(h, {})
          [] method = "finish"             -> Unchanged \cup Stops(h, {})

\* A step is a call and one of the ways it may end.
Next == \E o \in Allowed(io'.call) :
    /\ text' = o.text
    /\ io' = [call |-> io'.call, ret |-> o.ret, val |-> o.val]

Spec == Init /\ [][Next]_vars
=============================================================================
