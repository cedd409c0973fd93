------------------------------ MODULE Sockets -------------------------------
(***************************************************************************)
(* The kernel and the clients, as gpp/dspmain.c and gpp/dspmain_peer.c use *)
(* them: a listening local stream socket with a backlog, descriptors that  *)
(* are reused lowest first, one byte stream each way per connection. The   *)
(* unit of the streams is a PDU here: what happens inside one is the       *)
(* subject of another module. A client makes one connection, sends PDUs,   *)
(* reads replies when it likes and may close at any time.                  *)
(***************************************************************************)
EXTENDS Msgq, Functions

CONSTANTS
    Fds,        \* descriptors the server can use for connections
    Kinds,      \* the kinds of PDU clients send
    MaxReqs,    \* bound: PDUs a client sends
    SockCap,    \* bound: replies a socket holds before it stops being writable
    None

ASSUME SocketsAssumption ==
    /\ Fds \subseteq Nat \ {0} /\ Fds # {}
    /\ Kinds \subseteq Requests \union {"short", "badlen", "unknown", "empty"}
    /\ MaxReqs \in Nat /\ SockCap \in Nat \ {0}
    /\ None \notin Clients

VARIABLES
    conn,       \* client's end: "new", "open", "closed"
    backlog,    \* connections waiting for accept()
    owner,      \* descriptor -> the connection it is the server's end of
    sent,       \* history: the PDUs each client has sent
    toServer,   \* of those, the ones not yet taken off the stream
    replies,    \* history: the replies put on each client's stream
    unread      \* how many of those the client has yet to read

sockVars == <<conn, backlog, owner, sent, toServer, replies, unread>>

(* A reply PDU: its code, the request's sequence number, the result.       *)
Reply(m) == [kind |-> m.subid, seq |-> m.seq, z |-> m.z]

Replies == [kind : Subids, seq : Nat, z : Results]
Pdus == [kind : Kinds, seq : Nat, arg : Clients \X Nat]

SocketsTypeOK ==
    /\ conn \in [Clients -> {"new", "open", "closed"}]
    /\ backlog \in Seq(Clients)
    /\ owner \in [Fds -> Clients \union {None}]
    /\ sent \in [Clients -> Seq(Pdus)]
    /\ toServer \in [Clients -> Seq(Pdus)]
    /\ replies \in [Clients -> Seq(Replies)]
    /\ unread \in [Clients -> Nat]

SocketsInit ==
    /\ conn = [c \in Clients |-> "new"]
    /\ backlog = <<>>
    /\ owner = [fd \in Fds |-> None]
    /\ sent = [c \in Clients |-> <<>>]
    /\ toServer = [c \in Clients |-> <<>>]
    /\ replies = [c \in Clients |-> <<>>]
    /\ unread = [c \in Clients |-> 0]

FreeFds == {fd \in Fds : owner[fd] = None}
IsLowest(fd) == \A other \in FreeFds : fd <= other

(* The server still has, or will get, an end of c's connection.            *)
Served(c) == c \in Range(backlog) \union Range(owner)

(* What select() reports for the server's end of a connection.             *)
Readable(c) == toServer[c] # <<>> \/ conn[c] = "closed"
Writable(c) == unread[c] < SockCap \/ conn[c] = "closed"

ClientConnect(c) ==
    /\ conn[c] = "new"
    /\ conn' = [conn EXCEPT ![c] = "open"]
    /\ backlog' = Append(backlog, c)
    /\ UNCHANGED <<owner, sent, toServer, replies, unread>>

(* The operands of a request are its own: <<client, sequence number>>.     *)
Pdu(c, kind) == LET seq == Len(sent[c]) IN
    [kind |-> kind, seq |-> seq, arg |-> <<c, seq>>]

ClientSend(c, kind) ==
    /\ conn[c] = "open" /\ Served(c) /\ Len(sent[c]) < MaxReqs
    /\ sent' = [sent EXCEPT ![c] = Append(@, Pdu(c, kind))]
    /\ toServer' = [toServer EXCEPT ![c] = Append(@, Pdu(c, kind))]
    /\ UNCHANGED <<conn, backlog, owner, replies, unread>>

ClientRead(c) ==
    /\ conn[c] = "open" /\ unread[c] > 0
    /\ unread' = [unread EXCEPT ![c] = @ - 1]
    /\ UNCHANGED <<conn, backlog, owner, sent, toServer, replies>>

ClientClose(c) ==
    /\ conn[c] = "open"
    /\ conn' = [conn EXCEPT ![c] = "closed"]
    /\ UNCHANGED <<backlog, owner, sent, toServer, replies, unread>>

ClientStep(c) ==
    \/ ClientConnect(c)
    \/ \E kind \in Kinds : ClientSend(c, kind)
    \/ ClientRead(c)
    \/ ClientClose(c)

=============================================================================
