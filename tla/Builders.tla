------------------------------ MODULE Builders -------------------------------
(***************************************************************************)
(* Texts that are built piece by piece from the caller's code: collecting  *)
(* or extending from an iterator (FromIterator, Extend, fmt::write), the   *)
(* formatting behind ToLeanString and ToLeanStr (try_from_fmt of           *)
(* src/traits.rs) and decoding (from_utf16, from_utf8_lossy and the like). *)
(* Iterators and Display are the caller's: between two pieces they may     *)
(* call any method on handles the builder has not borrowed, panic, lie     *)
(* about their size, and go on after a failed write.                       *)
(***************************************************************************)
EXTENDS LeanStrings

VARIABLES
    job     \* what is being built; job.asked is the text it was given so far

buildVars == <<vars, job>>
BuildStore == <<Store, job>>

\* by: extend (the text of an existing handle), collect, format or decode; h: the
\* handle of the text; item: what comes next (char, str or owned strings); into: the
\* type of the result; failed: a write has failed (Writer(Err(_))).
NoJob == [by |-> "none"]
Job(by, h, item, into, t) ==
    [by |-> by, h |-> h, item |-> item, into |-> into, asked |-> t, failed |-> FALSE]

BuildInit == Init /\ job = NoJob

\* The caller's own calls; the builder has the handle job.h to itself, and decoding
\* runs no code of the caller.
Call ==
    /\ job.by # "decode"
    /\ CallOn(IF job = NoJob THEN Handles ELSE Handles \ {job.h})
    /\ UNCHANGED job

Without(H) == [k \in Live \ H |-> handle[k]]

Step(call, ret, m, H, j) ==
    /\ handle' = H /\ heap' = m /\ job' = j
    /\ io' = [call |-> call, ret |-> ret, val |-> <<>>]

\* A dropped handle must not be misused either.
DropRet(d, ret) == IF d.ret = "ok" THEN ret ELSE d.ret

\* The builder gives up; r and m are its text and the heap, gone the pieces it has
\* consumed. An extended text is the caller's and stays, any other one is dropped.
Stop(call, ret, r, m, gone) ==
    IF job.by = "extend" THEN Step(call, ret, m, Put(Without(gone), job.h, r), NoJob)
    ELSE \E d \in DropIn(r, m) :
            Step(call, DropRet(d, ret), d.m, Without(gone \cup {job.h}), NoJob)

-----------------------------------------------------------------------------
(* Starting.                                                               *)

\* Extend: characters come with a size hint, and a failed reserve is ignored.
Extend(h, item, hint) ==
    /\ job = NoJob /\ h \in Strings
    /\ \E o \in IF item = "char" THEN Reserve(handle[h], heap, hint) ELSE Ok(handle[h], heap) :
          Step(<<"begin", h, TextAt(h)>>, IF o.ret = "ub" THEN "ub" ELSE "ok", o.m,
               Put(handle, h, o.r), Job("extend", h, item, "LeanString", TextAt(h)))

\* FromIterator: with_capacity of the hint, or empty if that fails.
Collect(k, item, into, hint) ==
    /\ job = NoJob /\ k \notin Live
    /\ \E o \in IF item = "char" THEN WithCapacity(hint, Nothing, heap) ELSE Ok(Nothing, heap) :
          Step(<<"begin", k, <<>>>>, "ok", o.m, Put(handle, k, o.r),
               Job("collect", k, item, into, <<>>))

\* FromIterator of strings: the first one becomes the text.
CollectOwned(k, g, into) ==
    LET call == <<"begin_with", k, g>>
        made == IF g \in Strings THEN Ok(handle[g], heap) ELSE IntoMutable(handle[g], heap)
    IN  /\ job = NoJob /\ k \notin Live /\ g \in Live
        /\ \E o \in made :
              IF o.ret = "err"
              THEN \E d \in DropIn(o.r, o.m) :
                      Step(call, DropRet(d, "panic"), d.m, Without({g}), NoJob)
              ELSE Step(call, o.ret, o.m, Put(Without({g}), k, o.r),
                        Job("collect", k, "owned", into, TextAt(g)))

\* try_from_fmt: the writer starts with an empty text.
Format(k, into) ==
    /\ job = NoJob /\ k \notin Live
    /\ Step(<<"begin", k, <<>>>>, "ok", heap, Put(handle, k, Nothing),
            Job("format", k, "str", into, <<>>))

\* try_from_fmt of a literal: a static text, which a LeanStr takes over.
FormatLiteral(k, into, s) ==
    /\ job = NoJob /\ k \notin Live
    /\ \E o \in FromStaticStr("LeanString", s, Nothing, heap) :
          IF o.ret # "ok" THEN Step(<<"begin", k, s>>, "panic", o.m, handle, NoJob)
          ELSE \E c \in IF into = "LeanString" THEN Ok(o.r, o.m) ELSE IntoImmutable(o.r, o.m) :
                 Step(<<"begin", k, s>>, c.ret, c.m, Put(handle, k, c.r), NoJob)

\* from_utf16_units, from_utf8_lossy: with_capacity of the input's length, or a panic.
Decode(k, item, into, size) ==
    /\ job = NoJob /\ k \notin Live
    /\ \E o \in WithCapacity(size, Nothing, heap) :
          IF o.ret = "ok" THEN Step(<<"begin", k, <<>>>>, "ok", o.m, Put(handle, k, o.r),
                                    Job("decode", k, item, into, <<>>))
          ELSE Step(<<"begin", k, <<>>>>, "panic", o.m, handle, NoJob)

-----------------------------------------------------------------------------
(* Pieces.                                                                 *)

Fits_(s) == Len(job.asked) + Len(s) <= MaxText

Asked(s) == [job EXCEPT !.asked = @ \o s]

\* The loops over push and push_str: an error panics.
Item(s) ==
    LET r == handle[job.h]
        call == <<"item", job.h, s>>
    IN  /\ job.by \in {"extend", "collect", "decode"} /\ job.item # "owned" /\ Fits_(s)
        /\ job.item = "char" => IsChar(s)
        /\ \E o \in IF job.item = "char" THEN PushChar(r, heap, s) ELSE PushStr(r, heap, s) :
              IF o.ret = "err" THEN Stop(call, "panic", o.r, o.m, {})
              ELSE Step(call, o.ret, o.m, Put(handle, job.h, o.r), Asked(s))

\* The loop over owned strings: each is dropped once it is pushed, or by the panic.
ItemOwned(g) ==
    LET call == <<"item_of", job.h, g>>
        s == TextAt(g)
    IN  /\ job.by \in {"extend", "collect"} /\ job.item = "owned"
        /\ g \in Live \ {job.h} /\ Fits_(s)
        /\ \E o \in PushStr(handle[job.h], heap, s) : \E d \in DropIn(handle[g], o.m) :
              IF o.ret = "err" THEN Stop(call, DropRet(d, "panic"), o.r, d.m, {g})
              ELSE Step(call, DropRet(d, o.ret), d.m, Put(Without({g}), job.h, o.r), Asked(s))

\* Mutant: the writer forgets the error.
WriteOn(s) ==
    /\ job.by = "format" /\ Fits_(s)
    /\ \E o \in PushStr(handle[job.h], heap, s) :
          Step(<<"item", job.h, s>>, o.ret, o.m, Put(handle, job.h, o.r), Asked(s))

\* Writer::write_str: the first error replaces the text, which is dropped; from then
\* on every write fails.
WriteStr(s) ==
    LET call == <<"item", job.h, s>>
        failed == [Asked(s) EXCEPT !.failed = TRUE]
    IN  /\ job.by = "format" /\ Fits_(s)
        /\ IF job.failed THEN Step(<<"stop", job.h>>, "err", heap, handle, Asked(s))
           ELSE \E o \in PushStr(handle[job.h], heap, s) :
                  IF o.ret = "err"
                  THEN \E d \in DropIn(o.r, o.m) :
                          Step(call, DropRet(d, "err"), d.m, Without({job.h}), failed)
                  ELSE Step(call, o.ret, o.m, Put(handle, job.h, o.r), Asked(s))

\* Input that is not a character: an error (from_utf16), or a replacement character.
Replacement == <<"e1", "e2">>

Malformed ==
    /\ job.by = "decode"
    /\ \/ job.item = "char" /\ Stop(<<"stop", job.h>>, "err", handle[job.h], heap, {})
       \/ Fits_(Replacement) /\ \E o \in PushChar(handle[job.h], heap, Replacement) :
             IF o.ret = "err" THEN Stop(<<"item", job.h, Replacement>>, "panic", o.r, o.m, {})
             ELSE Step(<<"item", job.h, Replacement>>, o.ret, o.m, Put(handle, job.h, o.r),
                       Asked(Replacement))

-----------------------------------------------------------------------------
(* Ending.                                                                 *)

\* The iterator or the Display panics and unwinds the builder.
CallerPanics ==
    /\ job.by \in {"extend", "collect", "format"}
    /\ IF job.failed THEN Step(<<"stop", job.h>>, "panic", heap, handle, NoJob)
       ELSE Stop(<<"stop", job.h>>, "panic", handle[job.h], heap, {})

\* The Display returns an error of its own.
DisplayFails ==
    /\ job.by = "format"
    /\ IF job.failed THEN Step(<<"stop", job.h>>, "err", heap, handle, NoJob)
       ELSE Stop(<<"stop", job.h>>, "err", handle[job.h], heap, {})

\* Mutant: a Display that returns Ok although a write failed is taken at its word.
FinishAnyway ==
    LET call == <<"finish", job.h>>
        shortOfMemory == IF job.by = "format" THEN "err" ELSE "panic"
    IN  /\ job # NoJob
        /\ IF job.failed THEN Step(call, "ok", heap, Put(handle, job.h, FromInline(job.into, <<>>)), NoJob)
           ELSE IF job.into = "LeanString" THEN Step(call, "ok", heap, handle, NoJob)
           ELSE \E o \in IntoImmutable(handle[job.h], heap) :
                  IF o.ret = "err" THEN Stop(call, shortOfMemory, o.r, o.m, {})
                  ELSE Step(call, o.ret, o.m, Put(handle, job.h, o.r), NoJob)

\* No more pieces. A LeanStr is converted from the LeanString that was built.
Finish ==
    LET call == <<"finish", job.h>>
        shortOfMemory == IF job.by = "format" THEN "err" ELSE "panic"
    IN  /\ job # NoJob
        /\ IF job.failed THEN Step(call, "err", heap, handle, NoJob)
           ELSE IF job.into = "LeanString" THEN Step(call, "ok", heap, handle, NoJob)
           ELSE \E o \in IntoImmutable(handle[job.h], heap) :
                  IF o.ret = "err" THEN Stop(call, shortOfMemory, o.r, o.m, {})
                  ELSE Step(call, o.ret, o.m, Put(handle, job.h, o.r), NoJob)

-----------------------------------------------------------------------------
BuildNext ==
    \/ Call \/ Malformed \/ CallerPanics \/ DisplayFails \/ Finish
    \/ \E h \in Handles, item \in {"char", "str", "owned"}, n \in Sizes : Extend(h, item, n)
    \/ \E k \in Handles, item \in {"char", "str"}, into \in Types, n \in Sizes :
          Collect(k, item, into, n) \/ Decode(k, item, into, n)
    \/ \E k, g \in Handles, into \in Types : CollectOwned(k, g, into)
    \/ \E k \in Handles, into \in Types : Format(k, into)
    \/ \E k \in Handles, into \in Types, s \in Args : FormatLiteral(k, into, s)
    \/ \E s \in Args : Item(s) \/ WriteStr(s)
    \/ \E g \in Handles : ItemOwned(g)

BuildSpec == BuildInit /\ [][BuildNext]_buildVars

-----------------------------------------------------------------------------
(* Properties.                                                             *)

\* At every point of a build, whatever the caller's code does in between to handles
\* that share the buffer, the text under construction consists of exactly the pieces
\* handed over; after a failed write there is no text, which no later write revives.
BuiltFromPieces == job # NoJob =>
    IF job.failed THEN job.h \notin Live
    ELSE job.h \in Strings /\ TextAt(job.h) = job.asked

\* A conversion reports success only if every write succeeded, and then returns all
\* that was written, in the type that was asked for; otherwise no handle is left.
FormatReports ==
    [][job.by = "format" /\ job' = NoJob =>
         IF io'.ret = "ok"
         THEN /\ handle'[job.h].ty = job.into /\ AsBytes(handle'[job.h], heap') = job.asked
              /\ ~job.failed
         ELSE job.h \notin Live']_buildVars
=============================================================================
