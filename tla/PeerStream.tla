----------------------------- MODULE PeerStream -----------------------------
(***************************************************************************)
(* One connection of the server, byte by byte: gpp/dspmain_peer.c with the *)
(* stream macros of gpp/parse.h. recv() and send() move any number of      *)
(* bytes up to the number asked for, so a PDU comes in pieces and a reply  *)
(* leaves in pieces. The one input buffer is used for every PDU and is     *)
(* never cleared: a byte is <<k, i>>, byte i of the client's k-th PDU, and *)
(* what the server makes of it depends on the bytes at the offsets it      *)
(* reads, wherever they are from.                                          *)
(*                                                                         *)
(* The list of connections and the order of a pass over it are the         *)
(* subject of DspmainPeer, whose unit is the PDU.                          *)
(***************************************************************************)
EXTENDS Integers, Sequences

CONSTANTS
    CodeBytes,      \* a PDU's code: 4
    HeaderBytes,    \* SCK_HEADER_BYTES: the code and the length, 8
    MaxMsgBytes,    \* SCK_MAX_MSG_BYTES: 512
    ReplyBytes,     \* a reply: 16
    MultBytes,      \* payload of a mult request: 12
    Crc32Bytes,     \* payload of a crc32 request: 24
    Pdus,           \* the PDUs clients send: [code, len]
    MaxPdus,        \* bound: PDUs a client begins
    WireCap,        \* bound: bytes in flight to the server
    Uninit          \* what a byte holds that nothing was received into

Codes == {"mult", "crc32", "unknown"}
Requests == {"mult", "crc32"}
NeededBytes == [code \in Requests |-> IF code = "mult" THEN MultBytes ELSE Crc32Bytes]

ASSUME PeerStreamAssumption ==
    /\ CodeBytes \in Nat \ {0} /\ HeaderBytes \in Nat /\ CodeBytes < HeaderBytes
    /\ MaxMsgBytes \in Nat /\ HeaderBytes <= MaxMsgBytes
    /\ ReplyBytes \in Nat \ {0}
    /\ MultBytes \in Nat \ {0} /\ Crc32Bytes \in Nat \ {0}
    /\ Pdus \subseteq [code : Codes, len : Int]
    /\ MaxPdus \in Nat /\ WireCap \in Nat \ {0}
    /\ Uninit \notin Nat \X Nat

VARIABLES
    pdus,       \* history: the PDUs the client has begun to write
    written,    \* bytes written of the last of them
    closed,     \* the client has closed its end
    wire,       \* bytes written and not yet received
    up,         \* the peer is on the server's list
    p, end,     \* in_s->p and in_s->end, as offsets into the buffer
    data,       \* in_s->data
    handled,    \* history: the bytes of each PDU handled
    atDsp,      \* requests the DSP has: their sequence numbers
    out,        \* out_s_head..: replies queued, [seq, p]
    part,       \* bytes of a reply the client has in part
    answers     \* history: the replies the client has whole

clientVars == <<pdus, written, closed>>
inVars == <<p, end, data>>
outVars == <<out, part, answers>>
vars == <<clientVars, wire, up, inVars, handled, atDsp, outVars>>

Offsets == 0..(MaxMsgBytes - 1)
Bytes == (Nat \ {0}) \X Nat

Init ==
    /\ pdus = <<>> /\ written = 0 /\ closed = FALSE
    /\ wire = <<>>
    /\ up = TRUE
    /\ p = 0 /\ end = 0
    /\ data = [j \in Offsets |-> Uninit]
    /\ handled = <<>> /\ atDsp = <<>>
    /\ out = <<>> /\ part = <<>> /\ answers = <<>>

(***************************************************************************)
(* The client. A PDU whose length field is out of range is all header: no  *)
(* byte after it means anything.                                           *)
(***************************************************************************)

InRange(len) == HeaderBytes <= len /\ len <= MaxMsgBytes
SizeOf(pdu) == IF InRange(pdu.len) THEN pdu.len ELSE HeaderBytes
AtBoundary == pdus = <<>> \/ written = SizeOf(pdus[Len(pdus)])

(* The bytes of the k-th PDU.                                              *)
Content(k) == [j \in 0..(SizeOf(pdus[k]) - 1) |-> <<k, j>>]

ClientWrite ==
    /\ ~closed /\ up /\ Len(wire) < WireCap
    /\ IF AtBoundary
       THEN /\ Len(pdus) < MaxPdus
            /\ \E pdu \in Pdus : pdus' = Append(pdus, pdu)
            /\ written' = 1
       ELSE /\ UNCHANGED pdus
            /\ written' = written + 1
    /\ wire' = Append(wire, <<Len(pdus'), written' - 1>>)
    /\ UNCHANGED <<closed, up, inVars, handled, atDsp, outVars>>

(* A client closes when it likes, in the middle of a PDU too.              *)
ClientClose ==
    /\ ~closed
    /\ closed' = TRUE
    /\ UNCHANGED <<pdus, written, wire, up, inVars, handled, atDsp, outVars>>

(***************************************************************************)
(* dspmain_peer_check_fds, the read of one peer.                           *)
(***************************************************************************)

(* dspmain_peer_remove_one and delete_one: the buffers are freed.          *)
Remove ==
    /\ up' = FALSE
    /\ out' = <<>>
    /\ UNCHANGED <<clientVars, inVars, handled, atDsp, part, answers>>

(* What the field at the given offsets of d reads as. A field that is not  *)
(* the one of a single PDU can read as anything; all lengths out of range  *)
(* are one.                                                                *)
AnyLength == 0..(MaxMsgBytes + 1)

WholeField(d, offsets) ==
    \E k \in DOMAIN pdus : \A j \in offsets : d[j] = <<k, j>>

LengthsRead(d) ==
    LET field == CodeBytes..(HeaderBytes - 1) IN
    IF WholeField(d, field) THEN {pdus[d[CodeBytes][1]].len} ELSE AnyLength

CodesRead(d) ==
    LET field == 0..(CodeBytes - 1) IN
    IF WholeField(d, field) THEN {pdus[d[0][1]].code} ELSE Codes

(* Mutant of AskedEnd: the end left by the last PDU is used for the next.  *)
AskedEndStale == IF end = 0 THEN HeaderBytes ELSE end

(* At the start of the buffer only a header is asked for.                  *)
AskedEnd == IF p = 0 THEN HeaderBytes ELSE end

(* recv(): n bytes go to the buffer at p.                                  *)
Recv(n) ==
    /\ up
    /\ n \in 1..(AskedEnd - p) /\ n <= Len(wire)
    /\ wire' = SubSeq(wire, n + 1, Len(wire))
    /\ data' = [j \in Offsets |-> IF p <= j /\ j < p + n THEN wire[j - p + 1] ELSE data[j]]

(* Mutant of RecvPart: in_s->p is not moved.                               *)
RecvPartLost(n) ==
    /\ Recv(n)
    /\ p + n < AskedEnd
    /\ p' = p /\ end' = AskedEnd
    /\ UNCHANGED <<clientVars, up, handled, atDsp, outVars>>

(* Not all that was asked for: wait for the next select().                 *)
RecvPart(n) ==
    /\ Recv(n)
    /\ p + n < AskedEnd
    /\ p' = p + n /\ end' = AskedEnd
    /\ UNCHANGED <<clientVars, up, handled, atDsp, outVars>>

HeaderDone(n) == p + n = AskedEnd /\ p + n = HeaderBytes

(* Mutant of RecvHeader: the length is not compared with the buffer.       *)
RecvHeaderAnyLength(n) ==
    /\ Recv(n) /\ HeaderDone(n)
    /\ \E len \in LengthsRead(data') :
        /\ len > HeaderBytes
        /\ p' = HeaderBytes /\ end' = len
    /\ UNCHANGED <<clientVars, up, handled, atDsp, outVars>>

(* Mutant of RecvHeader: a PDU that is all header waits for its payload.   *)
RecvHeaderOnly(n) ==
    /\ Recv(n) /\ HeaderDone(n)
    /\ \E len \in LengthsRead(data') :
        /\ InRange(len)
        /\ p' = HeaderBytes /\ end' = len
    /\ UNCHANGED <<clientVars, up, handled, atDsp, outVars>>

(* Finished reading in the header: a payload follows.                      *)
RecvHeader(n) ==
    /\ Recv(n) /\ HeaderDone(n)
    /\ \E len \in LengthsRead(data') :
        /\ InRange(len) /\ len # HeaderBytes
        /\ p' = HeaderBytes /\ end' = len
    /\ UNCHANGED <<clientVars, up, handled, atDsp, outVars>>

RecvBadLength(n) ==
    /\ Recv(n) /\ HeaderDone(n)
    /\ \E len \in LengthsRead(data') : ~InRange(len)
    /\ up' = FALSE /\ out' = <<>>
    /\ UNCHANGED <<clientVars, p, end, handled, atDsp, part, answers>>

(* Finished reading in header and payload; a header can be all there is.   *)
Whole(n) ==
    /\ Recv(n)
    /\ p + n = AskedEnd
    /\ HeaderDone(n) => HeaderBytes \in LengthsRead(data')

(* dspmain_peer_process_msg reads the header again, from the buffer, and   *)
(* mult and crc32 requests check what is left of it.                       *)
Understood(code, len) ==
    /\ HeaderBytes <= len /\ len <= AskedEnd
    /\ code \in Requests => HeaderBytes + NeededBytes[code] <= AskedEnd

(* The request goes to the DSP; an unknown code is ignored.                *)
RecvPdu(n) ==
    /\ Whole(n)
    /\ \E code \in CodesRead(data'), len \in LengthsRead(data') :
        /\ Understood(code, len)
        /\ atDsp' = IF code \in Requests THEN Append(atDsp, data'[HeaderBytes]) ELSE atDsp
        /\ handled' = Append(handled, [j \in 0..(len - 1) |-> data'[j]])
    /\ p' = 0 /\ end' = AskedEnd
    /\ UNCHANGED <<clientVars, up, outVars>>

(* Not understood, or the DSP cannot be sent it: the peer is removed.      *)
RecvRefused(n) ==
    /\ Whole(n)
    /\ \E code \in CodesRead(data'), len \in LengthsRead(data') :
        code \in Requests \/ ~Understood(code, len)
    /\ up' = FALSE /\ out' = <<>>
    /\ UNCHANGED <<clientVars, p, end, handled, atDsp, part, answers>>

(* recv() returns nothing or an error: the client has closed, or nothing   *)
(* was asked for.                                                          *)
RecvNothing ==
    /\ up /\ (AskedEnd <= p \/ (closed /\ wire = <<>>))
    /\ Remove
    /\ UNCHANGED wire

(***************************************************************************)
(* Replies: dspmain_peer_queue and the write of one peer.                  *)
(***************************************************************************)

(* Mutant of QueueReply: the reply goes to the head of the queue.          *)
QueueReplyFirst ==
    /\ up /\ atDsp # <<>>
    /\ atDsp' = Tail(atDsp)
    /\ \/ out' = <<[seq |-> Head(atDsp), p |-> 0]>> \o out
       \/ UNCHANGED out
    /\ UNCHANGED <<clientVars, wire, up, inVars, handled, part, answers>>

(* The DSP answers in order; with no memory the reply is dropped.          *)
QueueReply ==
    /\ up /\ atDsp # <<>>
    /\ atDsp' = Tail(atDsp)
    /\ \/ out' = Append(out, [seq |-> Head(atDsp), p |-> 0])
       \/ UNCHANGED out
    /\ UNCHANGED <<clientVars, wire, up, inVars, handled, part, answers>>

(* send() takes n of the bytes from out_s->p on. The client cuts what      *)
(* comes into replies of ReplyBytes, and a reply is one request's if all   *)
(* its bytes are.                                                          *)
ReplySlice(reply, n) == [i \in 1..n |-> <<reply.seq, reply.p + i - 1>>]
IsReplyTo(bytes, seq) == \A i \in 1..ReplyBytes : bytes[i] = <<seq, i - 1>>

ClientGets(bytes) ==
    IF Len(bytes) < ReplyBytes
    THEN part' = bytes /\ UNCHANGED answers
    ELSE /\ part' = SubSeq(bytes, ReplyBytes + 1, Len(bytes))
         /\ answers' = Append(answers, IF IsReplyTo(bytes, bytes[1][1]) THEN bytes[1][1][1]
                                       ELSE 0)

(* Mutant of WriteReply: the test for the end of the reply is off by one.  *)
WriteReplyNeverDone(n) ==
    /\ up /\ out # <<>>
    /\ n \in 1..(ReplyBytes - Head(out).p)
    /\ ClientGets(part \o ReplySlice(Head(out), n))
    /\ out' = IF Head(out).p + n > ReplyBytes THEN Tail(out)
              ELSE [out EXCEPT ![1].p = @ + n]
    /\ UNCHANGED <<clientVars, wire, up, inVars, handled, atDsp>>

WriteReply(n) ==
    /\ up /\ out # <<>>
    /\ n \in 1..(ReplyBytes - Head(out).p)
    /\ ClientGets(part \o ReplySlice(Head(out), n))
    /\ out' = IF Head(out).p + n >= ReplyBytes THEN Tail(out)
              ELSE [out EXCEPT ![1].p = @ + n]
    /\ UNCHANGED <<clientVars, wire, up, inVars, handled, atDsp>>

(* send() fails: the client has closed.                                    *)
WriteFails ==
    /\ up /\ out # <<>> /\ closed
    /\ Remove
    /\ UNCHANGED wire

Read == 
    \/ \E n \in 1..MaxMsgBytes :
        \/ RecvPart(n)
        \/ RecvHeader(n)
        \/ RecvBadLength(n)
        \/ RecvPdu(n)
        \/ RecvRefused(n)
    \/ RecvNothing

Write == (\E n \in 1..ReplyBytes : WriteReply(n)) \/ WriteFails

Server == Read \/ QueueReply \/ Write

Next == ClientWrite \/ ClientClose \/ Server

Spec == Init /\ [][Next]_vars

(***************************************************************************)
(* Properties.                                                             *)
(***************************************************************************)

(* The state has the shape the code gives it.                              *)
TypeOK ==
    /\ pdus \in Seq(Pdus) /\ written \in Nat /\ closed \in BOOLEAN
    /\ wire \in Seq(Bytes)
    /\ up \in BOOLEAN
    /\ p \in Nat /\ end \in Nat
    /\ data \in [Offsets -> Bytes \union {Uninit}]
    /\ answers \in Seq(Nat)
    /\ \A i \in DOMAIN out : out[i].p \in 0..(ReplyBytes - 1)

(* recv() never writes past the end of the buffer: whatever length a       *)
(* client sends, and however the bytes arrive, what is asked for ends      *)
(* within the 512 bytes allocated (in_bytes = in_s->end - in_s->p).        *)
NoOverrun == up => AskedEnd <= MaxMsgBytes

(* recv() is never asked for no bytes, which it would answer with 0, taken *)
(* for a client that has closed.                                           *)
AsksSomething == up => p < AskedEnd

ReadsWithin == TypeOK /\ NoOverrun /\ AsksSomething

(* Between two reads the buffer holds, from its first byte up to p, the    *)
(* first bytes of one PDU: the one after those handled. A read never takes *)
(* bytes of the next PDU, and no byte of an earlier one is left among them.*)
Framed == up => \A j \in 0..(p - 1) : data[j] = <<Len(handled) + 1, j>>

(* The connection does what PduStream promises: every PDU handled is the   *)
(* client's next, byte for byte, and every reply reaches the client whole. *)
WholePdus ==
    [k \in 1..(IF AtBoundary THEN Len(pdus) ELSE Len(pdus) - 1) |-> Content(k)]

Abstract == INSTANCE PduStream WITH sent <- WholePdus

Implements == Abstract!Spec

(* A PDU the client has written whole is handled in the end, or the peer   *)
(* removed, in however many pieces it came.                                *)
Handled == \A k \in 1..MaxPdus :
    (Len(WholePdus) >= k) ~> (Len(handled) >= k \/ ~up)

(* A reply that is queued reaches the client or the peer is removed.       *)
Answered == (out # <<>>) ~> (out = <<>>)

Served == Handled /\ Answered

(* The server's loop goes on: select() reports what can be read or written *)
(* and each pass serves every connection it reports.                       *)
Fairness == WF_vars(Read) /\ WF_vars(QueueReply) /\ WF_vars(Write)
LiveSpec == Spec /\ Fairness

=============================================================================
