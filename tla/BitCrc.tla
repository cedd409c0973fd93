------------------------------- MODULE BitCrc -------------------------------
(***************************************************************************)
(* What the loops of dsp/dspmain_crc32.c promise, without a table: the     *)
(* pixels of a message go through the register of CrcWords one by one.     *)
(***************************************************************************)
EXTENDS CrcWords

VARIABLES
    depth,      \* bytes of each pixel that count
    todo,       \* pixels not taken
    reg,        \* the register
    busy        \* a message is being taken

vars == <<depth, todo, reg, busy>>

Init == depth \in 1..4 /\ todo = <<>> /\ reg = AllOnes /\ busy = FALSE

Begin ==
    /\ ~busy /\ busy' = TRUE
    /\ depth' \in 1..4
    /\ todo' \in Seq(Words)
    /\ reg' = AllOnes

Take ==
    /\ busy /\ todo # <<>>
    /\ reg' = PixelIn(reg, Head(todo), depth)
    /\ todo' = Tail(todo)
    /\ UNCHANGED <<depth, busy>>

End ==
    /\ busy /\ todo = <<>>
    /\ busy' = FALSE
    /\ UNCHANGED <<depth, todo, reg>>

Next == Begin \/ Take \/ End

Spec == Init /\ [][Next]_vars

=============================================================================
