------------------------------ MODULE Dspmain -------------------------------
(***************************************************************************)
(* The whole system: clients, server and DSP task, interleaved.            *)
(***************************************************************************)
EXTENDS DspmainServer, DspTask, FiniteSets

vars == <<msgqVars, dspVars, sockVars, peerVars, serverVars>>

Init ==
    /\ MsgqInit
    /\ DspInit
    /\ SocketsInit
    /\ PeerInit
    /\ ServerInit

(* PROC_stop, in the server's teardown, halts the DSP wherever it is.      *)
ServerActs ==
    /\ ServerStep
    /\ dspPc' = IF pc = "closing" THEN "halted" ELSE dspPc
    /\ UNCHANGED <<hold, parked, locate, errs, lost>>

DspActs == DspStep /\ UNCHANGED <<sockVars, peerVars, serverVars>>
LocateActs == LocateAnswers /\ UNCHANGED <<sockVars, peerVars, serverVars>>
ErrorActs == ErrorArrives /\ UNCHANGED <<sockVars, peerVars, serverVars>>
(* connect() fails once the server has closed its listening socket.        *)
ClientActs(c) ==
    /\ ClientStep(c)
    /\ pc = "stopped" => backlog' = backlog
    /\ UNCHANGED <<msgqVars, dspVars, peerVars, serverVars>>
SignalActs == SigInt /\ UNCHANGED <<msgqVars, dspVars, sockVars, peerVars>>

(* The server has exited: the rest may go on without it or not.            *)
Done == pc = "stopped" /\ UNCHANGED vars

Next ==
    \/ ServerActs
    \/ DspActs
    \/ LocateActs
    \/ ErrorActs
    \/ \E c \in Clients : ClientActs(c)
    \/ SignalActs
    \/ Done

Spec == Init /\ [][Next]_vars

-----------------------------------------------------------------------------
(* Every variable has a value of the kind the code gives it.               *)
TypeOK ==
    /\ MsgqTypeOK
    /\ DspTypeOK
    /\ SocketsTypeOK
    /\ PeerTypeOK
    /\ ServerTypeOK

-----------------------------------------------------------------------------
(* Safety.                                                                 *)

IsRequest(pdu) == pdu.kind \in Requests

(* Every buffer of the pool is free, in a queue, in the DSP's hands,       *)
(* parked with a lookup or taken by an error message: no path of either    *)
(* program leaks a message or frees one twice.                             *)
InUse == Len(dspq) + Len(gppq) + Len(hold) + Len(parked)
BuffersConserved == free + InUse + errs = NumBufs

(* processing_count is the number of messages the DSP still owes the       *)
(* server, plus those it will never put back. Until the shutdown message   *)
(* the answer to a lookup is the only other message in flight.             *)
Lookups == IF locate = "answered" THEN 1 ELSE 0
CountMatches ==
    pc \notin {"closing", "cleanup", "stopped"} => cnt + Lookups = InUse + lost

(* The server enters the sleep that only a message ends when one is on its *)
(* way and the DSP's task is there to carry it, unless the task failed to  *)
(* put one back or to take one.                                            *)
NeverWaitsForNothing ==
    pc = "get" /\ lost = 0 =>
        /\ \E q \in {gppq, dspq, hold} : q # <<>>
        /\ dspPc \in {"run", "failed"}

(* A client reads the answers to its own requests, computed from their own *)
(* operands by the function asked for, in the order of the requests and    *)
(* each at most once, whatever the other clients do, although descriptors  *)
(* are reused and replies may find their connection gone.                  *)
AnswersTo(pdus) ==
    {[kind |-> pdu.kind, seq |-> pdu.seq, z |-> Answer(pdu.kind, pdu.arg)] :
        pdu \in Range(pdus)}
AnswersIn(c) == AnswersTo(sent[c])
RepliesAreAnswers ==
    \A c \in Clients :
        /\ \A i \in DOMAIN replies[c] : replies[c][i] \in AnswersIn(c)
        /\ \A i, j \in DOMAIN replies[c] :
                i < j => replies[c][i].seq < replies[c][j].seq

(* recv() is called only on a socket that has something to return: the     *)
(* descriptor sets of the last select() are still right for every peer the *)
(* pass has yet to read, although it accepts and closes on the way.        *)
NeverBlocksInRecv ==
    pc \in {"read", "write"} =>
        \A i \in DOMAIN peers :
            /\ i > cursor \/ (i = cursor /\ pc = "read")
            /\ peers[i].sck \in rfds
            => Readable(owner[peers[i].sck])

(* One connection per peer, one peer per connection, and ids never shared. *)
PeersDistinct ==
    pc # "stopped" =>
    /\ \A i, j \in DOMAIN peers : i # j =>
            peers[i].id # peers[j].id /\ peers[i].sck # peers[j].sck
    /\ \A fd \in Fds : owner[fd] # None <=> fd \in WantRead

(* The shutdown message is the last the DSP is sent and it overtakes none: *)
(* when it takes the task out of its loop no request is left behind,       *)
(* queued or held.                                                         *)
DspLeavesNothing ==
    dspPc = "off" => dspq = <<>> /\ hold = <<>> /\ parked = <<>>

(* A client that is connected and has sent only well-formed PDUs loses its *)
(* connection only because a call failed or the pool was empty.            *)
WellFormed(c) == \A i \in DOMAIN sent[c] : sent[c][i].kind \notin {"badlen", "short"}
KeepsGoodClients ==
    [][\A c \in Clients :
        (/\ Served(c) /\ ~Served(c)'
         /\ conn[c] = "open" /\ WellFormed(c) /\ pc # "cleanup")
            => GppFaults \/ free = 0]_vars

(* The requests among some PDUs, in their order.                           *)
RequestsIn(pdus) ==
    LET upTo[n \in 0..Len(pdus)] ==
            IF n = 0 THEN <<>>
            ELSE IF IsRequest(pdus[n]) THEN Append(upTo[n - 1], pdus[n])
            ELSE upTo[n - 1]
    IN  upTo[Len(pdus)]

(* What the server promises its clients: DspmainRpc with the requests sent *)
(* and the replies received as its variables.                              *)
Rpc == INSTANCE DspmainRpc WITH
            Kinds <- Requests, Seqnos <- 0..MaxReqs,
            asked <- [c \in Clients |-> RequestsIn(sent[c])],
            answered <- replies
ImplementsRpc == Rpc!Spec

-----------------------------------------------------------------------------
(* Liveness. The server and the DSP are threads that run when they can.    *)
(* Nothing makes a client send, read or close, nor the signal arrive.      *)

Fairness ==
    /\ WF_vars(ServerActs)
    /\ WF_vars(DspActs)
    /\ WF_vars(LocateActs)

FairSpec == Spec /\ Fairness

(* Every request of an accepted connection is answered, whatever the other *)
(* clients do, unless its client closes or lets its own socket fill up, or *)
(* the signal arrives, or the server cuts the client off first. It does so *)
(* for two reasons: the client has sent a malformed PDU, that takes the    *)
(* requests before it along, or one of its requests found the pool empty,  *)
(* as it still is when the connection has just been closed.                *)
Asked(c) == Len(RequestsIn(sent[c]))
CutOff(c) == ~Served(c) /\ (~WellFormed(c) \/ free = 0)
RequestsAnswered ==
    \A c \in Clients : \A n \in 1..MaxReqs :
        (Asked(c) >= n /\ c \in Range(owner)) ~>
            \/ Len(replies[c]) >= n
            \/ unread[c] = SockCap
            \/ conn[c] = "closed"
            \/ termPipe
            \/ CutOff(c)

(* A signal stops the server, also when it sleeps waiting for the DSP.     *)
SignalStops == termPipe ~> pc = "stopped"

(* The server releases the descriptor of every client that has gone.       *)
ClosedIsReleased ==
    \A c \in Clients :
        (conn[c] = "closed" /\ c \in Range(owner)) ~> (c \notin Range(owner))

=============================================================================
