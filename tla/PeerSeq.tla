------------------------------ MODULE PeerSeq ------------------------------
(***************************************************************************)
(* What the server's lists of peers and of replies promise: the peers in   *)
(* the order they were accepted, each with its replies in the order they   *)
(* were queued, whatever is removed from where. PeerList implements it.    *)
(***************************************************************************)
EXTENDS Sequences, SequencesExt

CONSTANTS
    Ids,        \* what peers are told apart by
    Replies     \* the replies

VARIABLE conns      \* a sequence of [id, out]: a peer and its replies

Init == conns = <<>>

(* A connection is accepted.                                               *)
Accept(id) ==
    /\ \A i \in DOMAIN conns : conns[i].id # id
    /\ conns' = Append(conns, [id |-> id, out |-> <<>>])

(* A reply for a peer that is there; for one that has gone, nothing.       *)
Queue(i, r) ==
    /\ \A j \in DOMAIN conns : r \notin Range(conns[j].out)
    /\ conns' = [conns EXCEPT ![i].out = Append(@, r)]

(* A peer's first reply has been sent.                                     *)
Sent(i) ==
    /\ conns[i].out # <<>>
    /\ conns' = [conns EXCEPT ![i].out = Tail(@)]

(* A peer is removed, and its replies with it.                             *)
Removed(i) == conns' = RemoveAt(conns, i)

Next ==
    \/ \E id \in Ids : Accept(id)
    \/ \E i \in DOMAIN conns :
        \/ \E r \in Replies : Queue(i, r)
        \/ Sent(i)
        \/ Removed(i)

Spec == Init /\ [][Next]_conns
=============================================================================
