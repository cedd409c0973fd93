----------------------------- MODULE PduStream ------------------------------
(***************************************************************************)
(* What one connection of the server promises its client, in whole PDUs:   *)
(* the requests are handled as they were sent, in that order, none twice,  *)
(* none skipped and none made up; the replies answer requests that were    *)
(* handled, in the order of the requests; and after the connection is      *)
(* removed nothing more happens at the server's end.                       *)
(***************************************************************************)
EXTENDS Integers, Sequences

VARIABLES
    sent,       \* the PDUs the client has written whole
    handled,    \* the PDUs the server has handled
    answers,    \* for each reply the client has whole, the number of its PDU
    up          \* the server still has its end

vars == <<sent, handled, answers, up>>

Init ==
    /\ sent = <<>> /\ handled = <<>> /\ answers = <<>>
    /\ up = TRUE

Send ==
    /\ Len(sent') = Len(sent) + 1
    /\ \A i \in DOMAIN sent : sent'[i] = sent[i]
    /\ UNCHANGED <<handled, answers, up>>

Handle ==
    /\ up
    /\ Len(handled) < Len(sent)
    /\ handled' = Append(handled, sent[Len(handled) + 1])
    /\ UNCHANGED <<sent, answers, up>>

Answer ==
    /\ up
    /\ \E i \in DOMAIN handled :
        /\ \A j \in DOMAIN answers : answers[j] < i
        /\ answers' = Append(answers, i)
    /\ UNCHANGED <<sent, handled, up>>

Remove ==
    /\ up /\ up' = FALSE
    /\ UNCHANGED <<sent, handled, answers>>

Next == Send \/ Handle \/ Answer \/ Remove

Spec == Init /\ [][Next]_vars

=============================================================================
