---------------------------- MODULE StringValues ----------------------------
(***************************************************************************)
(* What LeanString and LeanStr promise to a program with several threads:  *)
(* every handle is a string value of its own.  A turn of a thread creates  *)
(* one handle, or changes the text of one handle it owns, or sends one it  *)
(* owns away, or drops it, and nothing else; a clone starts with the text  *)
(* of its source and then has nothing more to do with it.                  *)
(***************************************************************************)
CONSTANTS Threads, Handles, Texts, Nobody, Empty

VARIABLES
    owner,      \* owner[h]: the thread that owns h, Nobody if h does not exist
    text        \* text[h]: the text of h, Empty if h does not exist

vars == <<owner, text>>

Init ==
    /\ owner = [h \in Handles |-> Nobody]
    /\ text = [h \in Handles |-> Empty]

Create(t, h, v) ==
    /\ owner[h] = Nobody
    /\ owner' = [owner EXCEPT ![h] = t]
    /\ text' = [text EXCEPT ![h] = v]

Clone(t, h, k) ==
    /\ owner[h] # Nobody
    /\ Create(t, k, text[h])

Send(t, u, h) ==
    /\ owner[h] = t
    /\ owner' = [owner EXCEPT ![h] = u]
    /\ UNCHANGED text

Mutate(t, h, v) ==
    /\ owner[h] = t
    /\ text' = [text EXCEPT ![h] = v]
    /\ UNCHANGED owner

Drop(t, h) ==
    /\ owner[h] = t
    /\ owner' = [owner EXCEPT ![h] = Nobody]
    /\ text' = [text EXCEPT ![h] = Empty]

\* What thread t can do. A clone is a Create too, of any text: a specification that
\* says of a step that it clones has to ask for Clone.
Turn(t) == \E h \in Handles :
    \/ \E v \in Texts : Create(t, h, v) \/ Mutate(t, h, v)
    \/ \E k \in Handles : Clone(t, h, k)
    \/ \E u \in Threads : Send(t, u, h)
    \/ Drop(t, h)

Next == \E t \in Threads : Turn(t)

Spec == Init /\ [][Next]_vars
=============================================================================
