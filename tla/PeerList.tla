----------------------------- MODULE PeerList ------------------------------
(***************************************************************************)
(* The server's linked lists (gpp/dspmain_peer.c): the peers from          *)
(* peer_head to peer_tail and the replies of each from out_s_head to       *)
(* out_s_tail, in memory that malloc gives out again once it is freed. The *)
(* bytes of the connections are in PeerStream, the server around them in   *)
(* DspmainPeer, where a list is a sequence: here it is cells and pointers. *)
(***************************************************************************)
EXTENDS Naturals, FiniteSets, Sequences, SequencesExt

CONSTANTS
    Addrs,      \* the addresses malloc may give
    NULL,       \* no address
    MaxIds,     \* bound: connections accepted
    MaxReplies  \* bound: replies queued

ASSUME PeerListAssumption ==
    /\ IsFiniteSet(Addrs) /\ NULL \notin Addrs
    /\ {MaxIds, MaxReplies} \subseteq Nat

VARIABLES
    peers,      \* the memory that holds peers: their cells, by address
    streams,    \* the memory that holds replies
    head,       \* peer_head
    tail,       \* peer_tail
    pc,         \* "idle", "walk" (check_fds), "cleanup" or "done"
    peer,       \* where the walk is
    last,       \* last_peer
    unique_id,  \* the last id given
    replies,    \* history: the last reply queued
    due,        \* history: the peers there were when the walk began
    visited     \* history: the peers the walk has been to, in order

memory == <<peers, streams, head, tail>>
walk == <<pc, peer, last>>
vars == <<memory, walk, unique_id, replies, due, visited>>

Free == Addrs \ (DOMAIN peers \cup DOMAIN streams)
Put(mem, a, cell) == [b \in DOMAIN mem \cup {a} |-> IF b = a THEN cell ELSE mem[b]]
Drop(mem, S) == [b \in DOMAIN mem \ S |-> mem[b]]

(* The cells from address a on, in order, as far as they are in memory.    *)
Chain(mem, a) ==
    LET from[n \in 0..Cardinality(Addrs)] ==
            [x \in Addrs \cup {NULL} |->
                IF n = 0 \/ x \notin DOMAIN mem THEN <<>>
                ELSE <<x>> \o from[n - 1][mem[x].next]]
    IN  from[Cardinality(Addrs)][a]

Init ==
    /\ peers = <<>> /\ streams = <<>>
    /\ head = NULL /\ tail = NULL
    /\ pc = "idle" /\ peer = NULL /\ last = NULL
    /\ unique_id = 0 /\ replies = 0
    /\ due = <<>> /\ visited = <<>>

(* Mutant of AddFd: the tail is not moved.                                 *)
AddFdTailStays ==
    /\ pc = "idle" /\ unique_id < MaxIds
    /\ unique_id' = unique_id + 1
    /\ \E a \in Free :
        LET new == [id |-> unique_id + 1, outHead |-> NULL, outTail |-> NULL, next |-> NULL]
        IN IF head = NULL
           THEN peers' = Put(peers, a, new) /\ head' = a /\ tail' = a
           ELSE /\ peers' = [Put(peers, a, new) EXCEPT ![tail].next = a]
                /\ UNCHANGED <<head, tail>>
    /\ UNCHANGED <<streams, walk, replies, due, visited>>

(* dspmain_peer_add_fd: a new peer at the end of the list.                 *)
AddFd ==
    /\ pc = "idle" /\ unique_id < MaxIds
    /\ unique_id' = unique_id + 1
    /\ \E a \in Free :
        LET new == [id |-> unique_id + 1, outHead |-> NULL, outTail |-> NULL, next |-> NULL]
        IN /\ tail' = a
           /\ IF head = NULL
              THEN peers' = Put(peers, a, new) /\ head' = a
              ELSE /\ peers' = [Put(peers, a, new) EXCEPT ![tail].next = a]
                   /\ UNCHANGED head
    /\ UNCHANGED <<streams, walk, replies, due, visited>>

(* dspmain_peer_queue: stream s, numbered, at the end of peer p's replies. *)
PeerQueue(p, s) ==
    IF peers[p].outTail = NULL
    THEN /\ streams' = Put(streams, s, [id |-> replies + 1, next |-> NULL])
         /\ peers' = [peers EXCEPT ![p].outHead = s, ![p].outTail = s]
    ELSE /\ streams' = [Put(streams, s, [id |-> replies + 1, next |-> NULL])
                            EXCEPT ![peers[p].outTail].next = s]
         /\ peers' = [peers EXCEPT ![p].outTail = s]

(* The peers the list has under an id, as process_mymsg looks it up: there *)
(* is one at most.                                                         *)
Found(id) == {p \in Range(Chain(peers, head)) : peers[p].id = id}

(* A reply from the DSP: queued for the peer it names if that is still     *)
(* there and dspmain_queue_mult has memory; forgotten otherwise.           *)
QueueReply ==
    /\ pc = "idle" /\ replies < MaxReplies
    /\ \E id \in 1..unique_id :
        \/ \E p \in Found(id), s \in Free : PeerQueue(p, s)
        \/ UNCHANGED <<peers, streams>>
    /\ replies' = replies + 1
    /\ UNCHANGED <<head, tail, walk, unique_id, due, visited>>

(* dspmain_peer_check_fds begins.                                          *)
WalkBegins ==
    /\ pc = "idle" /\ head # NULL
    /\ pc' = "walk" /\ peer' = head /\ last' = NULL
    /\ due' = [i \in DOMAIN Chain(peers, head) |-> peers[Chain(peers, head)[i]].id]
    /\ visited' = <<>>
    /\ UNCHANGED <<memory, unique_id, replies>>

Visit == visited' = Append(visited, peers[peer].id)

(* Mutants of SentAll: the emptied list keeps its tail; what follows the   *)
(* reply is forgotten with it.                                             *)
SentAllTailStays(p) ==
    LET s == peers[p].outHead
    IN /\ peers' = [peers EXCEPT ![p].outHead = streams[s].next]
       /\ streams' = Drop(streams, {s})
SentAllForgets(p) ==
    LET s == peers[p].outHead
    IN /\ peers' = [peers EXCEPT ![p].outHead = NULL, ![p].outTail = NULL]
       /\ streams' = Drop(streams, {s})

(* The last byte of a peer's first reply has been sent.                    *)
SentAll(p) ==
    LET s == peers[p].outHead
    IN /\ peers' = IF streams[s].next = NULL
                   THEN [peers EXCEPT ![p].outHead = NULL, ![p].outTail = NULL]
                   ELSE [peers EXCEPT ![p].outHead = streams[s].next]
       /\ streams' = Drop(streams, {s})

(* The walk leaves a peer where it is, having sent a reply to it or not.   *)
Keep ==
    /\ pc = "walk" /\ peer # NULL
    /\ Visit
    /\ \/ UNCHANGED <<peers, streams>>
       \/ peers[peer].outHead # NULL /\ SentAll(peer)
    /\ last' = peer
    /\ peer' = peers[peer].next
    /\ UNCHANGED <<head, tail, pc, unique_id, replies, due>>

(* dspmain_peer_delete_one: a peer's memory and that of its replies.       *)
DeleteOne(mem, p) ==
    /\ peers' = Drop(mem, {p})
    /\ streams' = Drop(streams, Range(Chain(streams, peers[p].outHead)))

(* Mutants of RemoveOne: the next peer passed over; last_peer not told.    *)
RemoveOneSkips ==
    /\ DeleteOne(IF last = NULL THEN peers ELSE [peers EXCEPT ![last].next = peers[peer].next], peer)
    /\ head' = IF head = peer THEN peers[peer].next ELSE head
    /\ tail' = IF tail = peer THEN last ELSE tail
    /\ peer' = IF peers[peer].next = NULL THEN NULL ELSE peers[peers[peer].next].next
RemoveOneUnlinked ==
    /\ DeleteOne(peers, peer)
    /\ head' = IF head = peer THEN peers[peer].next ELSE head
    /\ tail' = IF tail = peer THEN last ELSE tail
    /\ peer' = peers[peer].next

(* dspmain_peer_remove_one, its four cases: the only peer, the first, the  *)
(* last and one in between. The walk goes on with the one that followed.   *)
RemoveOne ==
    \/ /\ head = peer /\ tail = peer
       /\ head' = NULL /\ tail' = NULL /\ peer' = NULL
       /\ DeleteOne(peers, peer)
    \/ /\ head = peer /\ tail # peer
       /\ head' = peers[peer].next /\ peer' = peers[peer].next
       /\ DeleteOne(peers, peer)
       /\ UNCHANGED tail
    \/ /\ head # peer /\ tail = peer
       /\ tail' = last /\ peer' = NULL
       /\ DeleteOne([peers EXCEPT ![last].next = NULL], peer)
       /\ UNCHANGED head
    \/ /\ head # peer /\ tail # peer
       /\ peer' = peers[peer].next
       /\ DeleteOne([peers EXCEPT ![last].next = peers[peer].next], peer)
       /\ UNCHANGED <<head, tail>>

(* recv or send failed, or the peer sent what the server does not take.    *)
RemovePeer ==
    /\ pc = "walk" /\ peer # NULL
    /\ Visit
    /\ RemoveOne
    /\ UNCHANGED <<pc, last, unique_id, replies, due>>

WalkEnds ==
    /\ pc = "walk" /\ peer = NULL
    /\ pc' = "idle" /\ last' = NULL
    /\ UNCHANGED <<memory, peer, unique_id, replies, due, visited>>

(* malloc fails for the input buffer of a peer that sends for the first    *)
(* time: check_fds returns, the peers from this one on are not walked.     *)
WalkBreaksOff ==
    /\ pc = "walk" /\ peer # NULL
    /\ pc' = "idle" /\ peer' = NULL /\ last' = NULL
    /\ UNCHANGED <<memory, unique_id, replies, due, visited>>

(* dspmain_peer_cleanup, from the head: the server is about to end.        *)
CleanupBegins ==
    /\ pc = "idle"
    /\ pc' = "cleanup" /\ peer' = head
    /\ UNCHANGED <<memory, last, unique_id, replies, due, visited>>

(* Mutant of CleanupOne: only the first peer.                              *)
CleanupOneOnly ==
    /\ pc = "cleanup" /\ peer # NULL
    /\ peer' = NULL
    /\ DeleteOne(peers, peer)
    /\ UNCHANGED <<head, tail, pc, last, unique_id, replies, due, visited>>

CleanupOne ==
    /\ pc = "cleanup" /\ peer # NULL
    /\ peer' = peers[peer].next
    /\ DeleteOne(peers, peer)
    /\ UNCHANGED <<head, tail, pc, last, unique_id, replies, due, visited>>

CleanupEnds ==
    /\ pc = "cleanup" /\ peer = NULL
    /\ pc' = "done"
    /\ UNCHANGED <<memory, peer, last, unique_id, replies, due, visited>>

Next ==
    \/ AddFd \/ QueueReply
    \/ WalkBegins \/ Keep \/ RemovePeer \/ WalkEnds \/ WalkBreaksOff
    \/ CleanupBegins \/ CleanupOne \/ CleanupEnds

Spec == Init /\ [][Next]_vars

-----------------------------------------------------------------------------

(* Every pointer has its type: it leads to a live cell of that type.       *)
TypeOK ==
    LET Peer == DOMAIN peers \cup {NULL}
        Stream == DOMAIN streams \cup {NULL}
    IN /\ DOMAIN peers \cap DOMAIN streams = {}
       /\ DOMAIN peers \cup DOMAIN streams \subseteq Addrs
       /\ \A a \in DOMAIN peers :
            peers[a] \in [id : Nat, outHead : Stream, outTail : Stream, next : Peer]
       /\ \A a \in DOMAIN streams : streams[a] \in [id : Nat, next : Stream]
       /\ peer \in Peer /\ last \in Peer
       /\ pc \in {"idle", "walk"} => head \in Peer /\ tail \in Peer
       /\ pc \in {"idle", "walk", "cleanup", "done"}
       /\ unique_id \in 0..MaxIds /\ replies \in 0..MaxReplies

(* A list from h to t whose cells are exactly those in mem: none dangles,  *)
(* none is lost, and the last is where the next one will be hung.          *)
ListOf(mem, h, t, cells) ==
    LET chain == Chain(mem, h)
    IN /\ Range(chain) = cells /\ Len(chain) = Cardinality(cells)
       /\ IF chain = <<>> THEN h = NULL /\ t = NULL
          ELSE t = Last(chain) /\ mem[t].next = NULL

(* However peers come and go, the list holds every peer there is and its   *)
(* tail is its last one; so do the lists of replies, which share nothing.  *)
ListsSound ==
    pc \in {"idle", "walk"} =>
        /\ ListOf(peers, head, tail, DOMAIN peers)
        /\ \A p \in DOMAIN peers :
            ListOf(streams, peers[p].outHead, peers[p].outTail,
                   Range(Chain(streams, peers[p].outHead)))
        /\ DOMAIN streams =
            UNION { Range(Chain(streams, peers[p].outHead)) : p \in DOMAIN peers }

(* The walk never stands on memory that was freed, and last_peer is the    *)
(* one whose next pointer leads to it.                                     *)
WalksOnLivePeers ==
    /\ pc \in {"walk", "cleanup"} /\ peer # NULL => peer \in DOMAIN peers
    /\ pc = "walk" =>
        IF last = NULL THEN head = peer
        ELSE last \in DOMAIN peers /\ peers[last].next = peer

(* A walk that gets to its end has seen every peer there was, once and in  *)
(* order, whichever of them it removed.                                    *)
VisitsAll ==
    pc = "walk" /\ peer = NULL => visited = due

(* At the end all the memory is free again.                                *)
FreesAll ==
    pc = "done" => peers = <<>> /\ streams = <<>>

ListsRight == TypeOK /\ ListsSound /\ WalksOnLivePeers /\ VisitsAll /\ FreesAll

(* The pointers amount to sequences of peers and of their replies: none is *)
(* lost, repeated, moved or given to another peer when memory is reused.   *)
View ==
    LET chain == Chain(peers, IF pc \in {"cleanup", "done"} THEN peer ELSE head)
        out(p) == Chain(streams, peers[p].outHead)
    IN [i \in DOMAIN chain |->
        [id |-> peers[chain[i]].id,
         out |-> [j \in DOMAIN out(chain[i]) |-> streams[out(chain[i])[j]].id]]]
Abstract == INSTANCE PeerSeq WITH
    conns <- View, Ids <- 1..MaxIds, Replies <- 1..MaxReplies
ImplementsPeerSeq == Abstract!Spec
=============================================================================
