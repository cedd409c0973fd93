-------------------------------- MODULE Msgq --------------------------------
(***************************************************************************)
(* The part of DSP/BIOS LINK the two programs share: one buffer pool that  *)
(* every message is allocated from (POOL, NumBufs buffers of one size) and *)
(* two message queues, the DSP's DSPMSGQ0 and the server's own queue.      *)
(* The library is not in the repository; it is modelled from the calls the *)
(* code makes: MSGQ_alloc takes a buffer, MSGQ_put hands it to the queue,  *)
(* MSGQ_get hands it to the reader, MSGQ_free returns it to the pool.      *)
(* Queues are FIFO and lose nothing.                                       *)
(***************************************************************************)
EXTENDS Naturals, Sequences

CONSTANTS
    Clients,    \* the client connections
    NumBufs,    \* buffers in the pool (MSGQ_POOL_BYTES / MSGQ_MAX_BYTES)
    NoAnswer    \* the result field of a request the DSP has not computed

ASSUME NumBufsAssumption == NumBufs \in Nat \ {0}

VARIABLES
    free,       \* buffers left in the pool
    dspq,       \* messages waiting for the DSP task
    gppq        \* messages waiting for the server

msgqVars == <<free, dspq, gppq>>

Requests == {"mult", "crc32"}
Subids == Requests \union {"getreply", "shutdown", "async"}

(* What the DSP computes from a request's operands. Both functions are     *)
(* opaque here: a result is identified by the function and the operands.   *)
Answer(subid, arg) == <<subid, arg>>

(* Queue handles: zero, or the one handle of the server's queue.           *)
NoQueue == 0
GppQueue == 1
Handles == {NoQueue, GppQueue}

(* A message: subid, reply_msgq, user[0] = the peer's id,                  *)
(* user[1] = the client's sequence number, the operands and the result.    *)
Msg(subid, handle, id, seq, arg) ==
    [subid |-> subid, reply_msgq |-> handle, id |-> id, seq |-> seq,
     arg |-> arg, z |-> NoAnswer]

(* A message that concerns no client: user[] is all zero.                  *)
Control(subid, handle) == Msg(subid, handle, 0, 0, <<>>)

Arguments == {<<>>} \union (Clients \X Nat)
Results == {NoAnswer} \union (Subids \X Arguments)
Messages == [subid : Subids, reply_msgq : Handles, id : Nat, seq : Nat,
             arg : Arguments, z : Results]

MsgqTypeOK ==
    /\ free \in Nat
    /\ dspq \in Seq(Messages)
    /\ gppq \in Seq(Messages)

(* MSGQ_alloc followed by a MSGQ_put that succeeds.                        *)
AllocAndPut(m) ==
    /\ free > 0
    /\ free' = free - 1
    /\ dspq' = Append(dspq, m)
    /\ UNCHANGED gppq

(* Mutant of AllocOrPutFails: the message is not freed when MSGQ_put fails. *)
AllocOrPutLeaks(put_may_fail) ==
    /\ free = 0 \/ put_may_fail
    /\ free' = IF free = 0 THEN 0 ELSE free - 1
    /\ UNCHANGED <<dspq, gppq>>

(* MSGQ_alloc fails, or MSGQ_put fails and the caller frees the message.   *)
AllocOrPutFails(put_may_fail) ==
    /\ free = 0 \/ put_may_fail
    /\ UNCHANGED msgqVars

MsgqInit ==
    /\ free = NumBufs
    /\ dspq = <<>>
    /\ gppq = <<>>

=============================================================================
