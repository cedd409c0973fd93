--------------------------- MODULE DspmainServer ----------------------------
(***************************************************************************)
(* gpp/dspmain.c: the server. One thread learns its reply queue from the   *)
(* DSP, then serves until a signal: it polls the sockets, makes a pass     *)
(* over them when something is ready, and otherwise sleeps, either in      *)
(* MSGQ_get (when the DSP owes it messages) or in select(). The states of  *)
(* pc are the points where other processes can act between its calls:      *)
(*   "located"   about to ask the DSP for the reply queue                  *)
(*   "starting"  in MSGQ_get, waiting for that answer                      *)
(*   "loop"      at the top of dspmain_loop                                *)
(*   "check"     in dspmain_check_fds, before the pass over the peers      *)
(*   "read", "write"  in dspmain_peer_check_fds                            *)
(*   "drain"     taking messages off its queue until it is empty           *)
(*   "get"       in MSGQ_get with WAIT_FOREVER                             *)
(*   "block"     in select() without a timeout                             *)
(*   "shutdown"  out of the loop                                           *)
(*   "closing"   past the shutdown message, before PROC_stop               *)
(*   "cleanup"   before dspmain_peer_cleanup                               *)
(*   "stopped"   done                                                      *)
(***************************************************************************)
EXTENDS DspmainPeer

VARIABLES
    ready,      \* of "term" and "listen", what the last select() reported
    term,       \* dspmain->term
    termPipe    \* the signal handler has written to g_term_pipe

serverVars == <<pc, ready, term, termPipe>>
passVars == <<cursor, rfds, wfds>>

ServerTypeOK ==
    /\ pc \in {"located", "starting", "loop", "check", "read", "write",
               "drain", "get", "block", "shutdown", "closing", "cleanup",
               "stopped"}
    /\ ready \subseteq {"term", "listen"}
    /\ term \in BOOLEAN
    /\ termPipe \in BOOLEAN

ServerInit ==
    /\ pc = "located"
    /\ ready = {}
    /\ term = FALSE
    /\ termPipe = FALSE

(* sig_int.                                                                *)
SigInt ==
    /\ ~termPipe
    /\ termPipe' = TRUE
    /\ UNCHANGED <<pc, ready, term>>

(***************************************************************************)
(* dspmain_located, up to the loop.                                        *)
(***************************************************************************)

SendGetReply ==
    /\ pc = "located"
    /\ \/ SendCounted(Control("getreply", NoQueue)) /\ pc' = "starting"
       \/ SendFails /\ pc' = "closing"
    /\ UNCHANGED <<peers, passVars, reply_msgq, unique_id, sockVars,
                   ready, term, termPipe>>

(* process_mymsg, for the message at the head of the server's queue.       *)
ProcessMymsg(m) ==
    \/ /\ m.subid = "getreply"
       /\ reply_msgq' = m.reply_msgq
       /\ UNCHANGED peers
    \/ /\ m.subid \in Requests
       /\ QueueReply(m)
       /\ UNCHANGED reply_msgq

(* Mutants of ProcessOneMsgq: no MSGQ_free, no processing_count--.         *)
ProcessOneMsgqLeaking ==
    /\ gppq # <<>>
    /\ gppq' = Tail(gppq)
    /\ cnt' = cnt - 1
    /\ ProcessMymsg(Head(gppq))
    /\ UNCHANGED <<free, dspq, passVars, unique_id, sockVars>>

ProcessOneMsgqUncounted ==
    /\ gppq # <<>>
    /\ gppq' = Tail(gppq)
    /\ ProcessMymsg(Head(gppq))
    /\ free' = free + 1
    /\ UNCHANGED <<cnt, dspq, passVars, unique_id, sockVars>>

(* dspmain_process_one_msgq when MSGQ_get returns a message.               *)
ProcessOneMsgq ==
    /\ gppq # <<>>
    /\ gppq' = Tail(gppq)
    /\ cnt' = cnt - 1
    /\ ProcessMymsg(Head(gppq))
    /\ free' = free + 1
    /\ UNCHANGED <<dspq, passVars, unique_id, sockVars>>

(* MSGQ_get returns without a message.                                     *)
GetFails == GppFaults /\ UNCHANGED <<peerVars, sockVars, msgqVars>>

(* A failed MSGQ_get here ends the program without a shutdown message.     *)
AwaitReplyMsgq ==
    /\ pc = "starting"
    /\ \/ ProcessOneMsgq /\ pc' = IF reply_msgq' = NoQueue THEN "starting" ELSE "loop"
       \/ GetFails /\ pc' = "closing"
    /\ UNCHANGED <<ready, term, termPipe>>

(***************************************************************************)
(* dspmain_loop.                                                           *)
(***************************************************************************)

ReadyReadAsAsked == WantRead     \* mutant of ReadyRead
ReadyRead == {fd \in WantRead : Readable(owner[fd])}
ReadyWrite == {fd \in WantWrite : Writable(owner[fd])}
ReadyOther == {what \in {"term", "listen"} :
                \/ what = "term" /\ termPipe
                \/ what = "listen" /\ backlog # <<>>}
AnyReady == ReadyRead \union ReadyWrite # {} \/ ReadyOther # {}

(* Mutant of Poll: processing_count >= 0.                                  *)
PollOffByOne ==
    /\ pc = "loop" /\ ~term
    /\ rfds' = ReadyRead
    /\ wfds' = ReadyWrite
    /\ ready' = ReadyOther
    /\ pc' = IF AnyReady THEN "check" ELSE IF cnt >= 0 THEN "get" ELSE "block"
    /\ UNCHANGED <<peers, cursor, reply_msgq, cnt, unique_id, sockVars,
                   msgqVars, term, termPipe>>

(* dspmain_wait_fds with timeout 0, and where the loop goes on its result. *)
Poll ==
    /\ pc = "loop" /\ ~term
    /\ rfds' = ReadyRead
    /\ wfds' = ReadyWrite
    /\ ready' = ReadyOther
    /\ pc' = IF AnyReady THEN "check" ELSE IF cnt > 0 THEN "get" ELSE "block"
    /\ UNCHANGED <<peers, cursor, reply_msgq, cnt, unique_id, sockVars,
                   msgqVars, term, termPipe>>

LoopEnds ==
    /\ pc = "loop" /\ term
    /\ pc' = "shutdown"
    /\ UNCHANGED <<peerVars, sockVars, msgqVars, ready, term, termPipe>>

(* dspmain_check_fds: a signal is all that is looked at ...                *)
CheckTerm ==
    /\ pc = "check" /\ "term" \in ready
    /\ term' = TRUE
    /\ pc' = "drain"
    /\ UNCHANGED <<peerVars, sockVars, msgqVars, ready, termPipe>>

(* ... otherwise one connection is accepted, if one waits and a descriptor *)
(* is left, and the pass over the peers begins.                            *)
Accept ==
    \/ /\ "listen" \in ready
       /\ backlog' = Tail(backlog)
       /\ \E fd \in FreeFds :
            /\ IsLowest(fd)
            /\ owner' = [owner EXCEPT ![fd] = Head(backlog)]
            /\ AddPeer(fd)
    \/ /\ "listen" \in ready /\ FreeFds # {} /\ GppFaults
       /\ backlog' = Tail(backlog)
       /\ UNCHANGED <<owner, peers, unique_id>>
    \/ /\ "listen" \notin ready \/ FreeFds = {}
       /\ UNCHANGED <<backlog, owner, peers, unique_id>>

(* Mutant of CheckListen: when no descriptor is left the pass is skipped.  *)
CheckListenGivesUp ==
    /\ pc = "check" /\ "term" \notin ready
    /\ pc' = IF "listen" \in ready /\ FreeFds = {} THEN "drain" ELSE "read"
    /\ cursor' = 1
    /\ Accept
    /\ UNCHANGED <<rfds, wfds, reply_msgq, cnt, conn, sent, toServer,
                   replies, unread, msgqVars, ready, term, termPipe>>

CheckListen ==
    /\ pc = "check" /\ "term" \notin ready
    /\ pc' = "read"
    /\ cursor' = 1
    /\ Accept
    /\ UNCHANGED <<rfds, wfds, reply_msgq, cnt, conn, sent, toServer,
                   replies, unread, msgqVars, ready, term, termPipe>>

(* The messages that have come back since, until there are none.           *)
Drain ==
    /\ pc = "drain"
    /\ \/ ProcessOneMsgq /\ UNCHANGED pc
       \/ /\ gppq = <<>> \/ GppFaults
          /\ pc' = "loop"
          /\ UNCHANGED <<peerVars, sockVars, msgqVars>>
    /\ UNCHANGED <<ready, term, termPipe>>

(* MSGQ_get with WAIT_FOREVER: neither sockets nor signals end this sleep. *)
GetForever ==
    /\ pc = "get"
    /\ ProcessOneMsgq \/ GetFails
    /\ pc' = "loop"
    /\ UNCHANGED <<ready, term, termPipe>>

(* select() without a timeout; its result is not used.                     *)
SelectForever ==
    /\ pc = "block" /\ AnyReady
    /\ pc' = "loop"
    /\ UNCHANGED <<peerVars, sockVars, msgqVars, ready, term, termPipe>>

(***************************************************************************)
(* After the loop: send_shutdown_msg, which is not counted, then           *)
(* MSGQ_transportClose and PROC_stop half a second later, whatever the DSP *)
(* has done by then, then dspmain_peer_cleanup and the listening socket.   *)
(***************************************************************************)

SendShutdown ==
    /\ pc = "shutdown"
    /\ AllocAndPut(Control("shutdown", reply_msgq)) \/ AllocOrPutFails(GppFaults)
    /\ pc' = "closing"
    /\ UNCHANGED <<peerVars, sockVars, ready, term, termPipe>>

CloseTransport ==
    /\ pc = "closing"
    /\ pc' = "cleanup"
    /\ UNCHANGED <<peerVars, sockVars, msgqVars, ready, term, termPipe>>

Cleanup ==
    /\ pc = "cleanup"
    /\ owner' = [fd \in Fds |-> IF fd \in WantRead THEN None ELSE owner[fd]]
    /\ backlog' = <<>>
    /\ pc' = "stopped"
    /\ UNCHANGED <<peerVars, conn, sent, toServer, replies, unread,
                   msgqVars, ready, term, termPipe>>

ServerStep ==
    \/ SendGetReply
    \/ AwaitReplyMsgq
    \/ Poll
    \/ LoopEnds
    \/ CheckTerm
    \/ CheckListen
    \/ PeerStep /\ UNCHANGED <<ready, term, termPipe>>
    \/ Drain
    \/ GetForever
    \/ SelectForever
    \/ SendShutdown
    \/ CloseTransport
    \/ Cleanup

=============================================================================
