----------------------------- MODULE DspmainRpc -----------------------------
(***************************************************************************)
(* What the server, the DSP and everything between them amount to for the  *)
(* clients: a client asks, and is answered one request at a time, in the   *)
(* order it asked, each request once, with the value the function it named *)
(* has for its operands. Nothing says it is answered: it may be cut off.   *)
(***************************************************************************)
EXTENDS Naturals, Sequences

CONSTANTS Clients, Kinds, Seqnos, Answer(_, _)

VARIABLES
    asked,      \* the requests of each client
    answered    \* the answers each client has been given

vars == <<asked, answered>>

Init ==
    /\ asked = [c \in Clients |-> <<>>]
    /\ answered = [c \in Clients |-> <<>>]

(* The first conjunct follows from the second and is cheaper: most steps   *)
(* of what implements this ask for nothing.                                *)
Ask(c) ==
    /\ asked' # asked
    /\ \E kind \in Kinds, seq \in Seqnos :
        asked' = [asked EXCEPT ![c] =
                    Append(@, [kind |-> kind, seq |-> seq, arg |-> <<c, seq>>])]
    /\ UNCHANGED answered

AnswerNext(c) ==
    LET n == Len(answered[c]) + 1
        request == asked[c][n]
    IN  /\ n <= Len(asked[c])
        /\ answered' = [answered EXCEPT ![c] =
                Append(@, [kind |-> request.kind, seq |-> request.seq,
                           z |-> Answer(request.kind, request.arg)])]
        /\ UNCHANGED asked

Next == \E c \in Clients : Ask(c) \/ AnswerNext(c)

Spec == Init /\ [][Next]_vars

=============================================================================
