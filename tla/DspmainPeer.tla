---------------------------- MODULE DspmainPeer -----------------------------
(***************************************************************************)
(* gpp/dspmain_peer.c and the send_*_msg functions of gpp/dspmain.c it     *)
(* calls: the server's list of connections, the reading and checking of    *)
(* their PDUs, the queue of replies each one has, and the pass over the    *)
(* list that follows every select().                                       *)
(***************************************************************************)
EXTENDS Sockets, SequencesExt

CONSTANT GppFaults      \* malloc, MSGQ_put and MSGQ_get may fail on the GPP

ASSUME GppFaultsAssumption == GppFaults \in BOOLEAN

VARIABLES
    pc,         \* where the server's only thread is
    peers,      \* the linked list of connections, head first
    cursor,     \* the peer the pass over the list is at
    rfds, wfds, \* what the last select() reported for connections
    reply_msgq, \* the server's queue as the DSP names it, or 0
    cnt,        \* processing_count: messages the DSP is to put back
    unique_id   \* the last peer id handed out

peerVars == <<peers, cursor, rfds, wfds, reply_msgq, cnt, unique_id>>

Peers == [id : Nat, sck : Fds, in : {"none", "header", "payload"},
          out : Seq(Replies)]

PeerTypeOK ==
    /\ peers \in Seq(Peers)
    /\ cursor \in Nat \ {0}
    /\ rfds \subseteq Fds
    /\ wfds \subseteq Fds
    /\ reply_msgq \in Handles
    /\ cnt \in Nat
    /\ unique_id \in Nat

PeerInit ==
    /\ peers = <<>>
    /\ cursor = 1
    /\ rfds = {} /\ wfds = {}
    /\ reply_msgq = NoQueue
    /\ cnt = 0
    /\ unique_id = 0

(***************************************************************************)
(* Messages to the DSP.                                                    *)
(***************************************************************************)

(* send_mult_msg, send_crc32_msg and send_get_reply_msgq_msg.              *)
SendCountedDown(m) == AllocAndPut(m) /\ cnt' = cnt - 1     \* mutant
SendCounted(m) == AllocAndPut(m) /\ cnt' = cnt + 1

SendFailsCounted == AllocOrPutFails(GppFaults) /\ cnt' = cnt + 1     \* mutant
SendFails == AllocOrPutFails(GppFaults) /\ UNCHANGED cnt

(***************************************************************************)
(* The list of peers.                                                      *)
(***************************************************************************)

(* Mutant of NewPeer: the descriptor serves as the id.                     *)
NewPeerNamedByFd(fd) == [id |-> fd, sck |-> fd, in |-> "none", out |-> <<>>]

NewPeer(fd) == [id |-> unique_id + 1, sck |-> fd, in |-> "none", out |-> <<>>]

(* dspmain_peer_add_fd; malloc failing is the caller's business.           *)
AddPeer(fd) ==
    /\ unique_id' = unique_id + 1
    /\ peers' = Append(peers, NewPeer(fd))

(* dspmain_peer_get_fds: only a peer with replies waits to be writable.    *)
WantRead == {peers[i].sck : i \in DOMAIN peers}
WantNoWrite == {}     \* mutant of WantWrite
WantWrite == {peers[i].sck : i \in {j \in DOMAIN peers : peers[j].out # <<>>}}

(* dspmain_peer_queue, reached from dspmain_queue_mult and _crc32: the     *)
(* peer is found by the id it had when it sent the request. No peer with   *)
(* that id any more, or no memory, and the reply is dropped.               *)
Queued(m) ==
    [i \in DOMAIN peers |->
        IF peers[i].id = m.id /\ \A j \in 1..(i - 1) : peers[j].id # m.id
        THEN [peers[i] EXCEPT !.out = Append(@, Reply(m))]
        ELSE peers[i]]

QueueReply(m) ==
    \/ peers' = Queued(m)
    \/ GppFaults /\ UNCHANGED peers

(***************************************************************************)
(* dspmain_peer_check_fds: one pass over the list. At every peer a read,   *)
(* if select() reported one, then a write, if it reported one.             *)
(***************************************************************************)

AtPeer == cursor <= Len(peers)
This == peers[cursor]
Conn == owner[This.sck]

(* Mutant of RemoveThis: the socket is not closed.                         *)
RemoveThisLeavingOpen ==
    /\ peers' = RemoveAt(peers, cursor)
    /\ pc' = "read"
    /\ UNCHANGED <<owner, cursor, unique_id, conn, backlog, sent, replies, unread>>

(* dspmain_peer_remove_one and delete_one: close the socket and drop the   *)
(* replies; the pass goes on with the peer that follows.                   *)
RemoveThis ==
    /\ peers' = RemoveAt(peers, cursor)
    /\ owner' = [owner EXCEPT ![This.sck] = None]
    /\ pc' = "read"
    /\ UNCHANGED <<cursor, unique_id, conn, backlog, sent, replies, unread>>

(* The read is over: this peer's write is next.                            *)
AfterRead(in) ==
    /\ peers' = [peers EXCEPT ![cursor].in = in]
    /\ pc' = "write"
    /\ UNCHANGED <<cursor, unique_id, conn, backlog, owner, sent, replies,
                   unread>>

TakePdu == toServer' = [toServer EXCEPT ![Conn] = Tail(@)]
LeavePdu == UNCHANGED toServer

(* Not readable: go to the write.                                          *)
SkipRead ==
    /\ pc = "read" /\ AtPeer /\ This.sck \notin rfds
    /\ pc' = "write"
    /\ UNCHANGED <<peerVars, sockVars, msgqVars>>

Reading == pc = "read" /\ AtPeer /\ This.sck \in rfds

(* Back to dspmain_loop. The pass's own variables are dead: they are reset *)
(* so that states that differ in them only are one.                        *)
PassOver ==
    /\ pc' = "drain"
    /\ cursor' = 1 /\ rfds' = {} /\ wfds' = {}
    /\ UNCHANGED <<peers, reply_msgq, cnt, unique_id, sockVars, msgqVars>>

(* No memory for the input buffer: the pass is abandoned.                  *)
ReadNoMemory ==
    /\ Reading /\ This.in = "none" /\ GppFaults
    /\ PassOver

(* Mutant of ReadEof: nothing received is taken for a short read.          *)
ReadEofIgnored ==
    /\ Reading /\ toServer[Conn] = <<>> /\ conn[Conn] = "closed"
    /\ AfterRead(This.in)
    /\ LeavePdu
    /\ UNCHANGED <<rfds, wfds, reply_msgq, cnt, msgqVars>>

(* recv() returns nothing: the client has closed.                          *)
ReadEof ==
    /\ Reading /\ toServer[Conn] = <<>> /\ conn[Conn] = "closed"
    /\ RemoveThis
    /\ LeavePdu
    /\ UNCHANGED <<rfds, wfds, reply_msgq, cnt, msgqVars>>

ReadingPdu(states, kinds) ==
    /\ Reading /\ This.in \in states
    /\ toServer[Conn] # <<>> /\ Head(toServer[Conn]).kind \in kinds

(* The first recv() asks for the header alone and checks its length; the   *)
(* payload waits for the next select().                                    *)
ReadHeader ==
    /\ ReadingPdu({"none", "header"}, Kinds \ {"badlen", "empty"})
    /\ AfterRead("payload")
    /\ LeavePdu
    /\ UNCHANGED <<rfds, wfds, reply_msgq, cnt, msgqVars>>

(* A length under 8 or over 512: the peer is removed.                      *)
ReadBadLength ==
    /\ ReadingPdu({"none", "header"}, {"badlen"})
    /\ RemoveThis
    /\ TakePdu
    /\ UNCHANGED <<rfds, wfds, reply_msgq, cnt, msgqVars>>

(* A PDU with an unknown code is ignored; one that is all header is        *)
(* complete at once.                                                       *)
ReadUnknown ==
    /\ \/ ReadingPdu({"payload"}, {"unknown"})
       \/ ReadingPdu({"none", "header"}, {"empty"})
    /\ AfterRead("header")
    /\ TakePdu
    /\ UNCHANGED <<rfds, wfds, reply_msgq, cnt, msgqVars>>

(* A payload too short for its code: the peer is removed.                  *)
ReadShort ==
    /\ ReadingPdu({"payload"}, {"short"})
    /\ RemoveThis
    /\ TakePdu
    /\ UNCHANGED <<rfds, wfds, reply_msgq, cnt, msgqVars>>

(* A complete request is sent to the DSP with the peer's id and the        *)
(* client's sequence number; if it cannot be, the peer is removed.         *)
ForwardUnnumbered(pdu) == Msg(pdu.kind, reply_msgq, This.id, 0, pdu.arg)   \* mutant
ForwardUnaddressed(pdu) == Msg(pdu.kind, NoQueue, This.id, pdu.seq, pdu.arg)   \* mutant
Forward(pdu) == Msg(pdu.kind, reply_msgq, This.id, pdu.seq, pdu.arg)

ReadRequest ==
    /\ ReadingPdu({"payload"}, Requests)
    /\ TakePdu
    /\ \/ SendCounted(Forward(Head(toServer[Conn]))) /\ AfterRead("header")
       \/ SendFails /\ RemoveThis
    /\ UNCHANGED <<rfds, wfds, reply_msgq>>

(* On to the next peer.                                                    *)
Advance ==
    /\ cursor' = cursor + 1
    /\ pc' = "read"
    /\ UNCHANGED <<unique_id, rfds, wfds, reply_msgq, cnt, msgqVars>>

Writing == pc = "write" /\ This.sck \in wfds /\ This.out # <<>>

SkipWrite ==
    /\ pc = "write" /\ (This.sck \notin wfds \/ This.out = <<>>)
    /\ Advance
    /\ UNCHANGED <<peers, sockVars>>

(* send() of the first reply queued.                                       *)
WriteReply ==
    /\ Writing /\ conn[Conn] = "open"
    /\ replies' = [replies EXCEPT ![Conn] = Append(@, Head(This.out))]
    /\ unread' = [unread EXCEPT ![Conn] = @ + 1]
    /\ peers' = [peers EXCEPT ![cursor].out = Tail(@)]
    /\ Advance
    /\ UNCHANGED <<conn, backlog, owner, sent, toServer>>

(* Mutant of WriteError: every send() is taken to fail.                    *)
WriteErrorAlways ==
    /\ Writing
    /\ RemoveThis
    /\ LeavePdu
    /\ UNCHANGED <<rfds, wfds, reply_msgq, cnt, msgqVars>>

(* send() to a client that has closed fails: the peer is removed.          *)
WriteError ==
    /\ Writing /\ conn[Conn] = "closed"
    /\ RemoveThis
    /\ LeavePdu
    /\ UNCHANGED <<rfds, wfds, reply_msgq, cnt, msgqVars>>

PassEnds ==
    /\ pc = "read" /\ ~AtPeer
    /\ PassOver

PeerStep ==
    \/ SkipRead
    \/ ReadNoMemory
    \/ ReadEof
    \/ ReadHeader
    \/ ReadBadLength
    \/ ReadUnknown
    \/ ReadShort
    \/ ReadRequest
    \/ SkipWrite
    \/ WriteReply
    \/ WriteError
    \/ PassEnds

=============================================================================
