------------------------------ MODULE DspTask -------------------------------
(***************************************************************************)
(* dsp/dspmain.c: the DSP's only task. It takes messages from its queue    *)
(* one at a time, computes, and puts the same message, now carrying the    *)
(* result, on the server's queue. A GETREPLY message is first parked while *)
(* MSGQ_locateAsync looks the server's queue up; the answer arrives as an  *)
(* "async" message on the DSP's own queue. MSGQ_setErrorHandler lets the   *)
(* transport put error messages of its own on that queue; the task frees   *)
(* them, as it does every message whose id it does not know. Their place   *)
(* in the queue makes no difference, so they are counted, not queued.      *)
(***************************************************************************)
EXTENDS Msgq

CONSTANTS
    DspFaults,  \* MSGQ_get, MSGQ_put and MSGQ_locateAsync may fail on the DSP
    MaxErrs     \* bound: error messages in the DSP's queue at once

ASSUME DspFaultsAssumption == DspFaults \in BOOLEAN
ASSUME MaxErrsAssumption == MaxErrs \in Nat

VARIABLES
    dspPc,      \* "run", "off" (left its loop, told to), "failed" (left it
                \* because MSGQ_get failed) or "halted" (PROC_stop)
    hold,       \* the message the task is working on: at most one
    parked,     \* the GETREPLY message handed to MSGQ_locateAsync: at most one
    locate,     \* the lookup: "idle", "pending", "answered" or "failed"
    errs,       \* the transport's error messages in the DSP's queue
    lost        \* history: counted messages the DSP freed, not put back

dspVars == <<dspPc, hold, parked, locate, errs, lost>>

DspTypeOK ==
    /\ dspPc \in {"run", "off", "failed", "halted"}
    /\ hold \in Seq(Messages)
    /\ parked \in Seq(Messages)
    /\ locate \in {"idle", "pending", "answered", "failed"}
    /\ errs \in Nat
    /\ lost \in Nat

DspInit ==
    /\ dspPc = "run"
    /\ hold = <<>>
    /\ parked = <<>>
    /\ locate = "idle"
    /\ errs = 0
    /\ lost = 0

(* Mutant of DspGet: the newest message first.                             *)
DspGetNewest ==
    /\ dspPc = "run" /\ hold = <<>> /\ dspq # <<>>
    /\ hold' = <<dspq[Len(dspq)]>>
    /\ dspq' = SubSeq(dspq, 1, Len(dspq) - 1)
    /\ UNCHANGED <<free, gppq, dspPc, parked, locate, errs, lost>>

(* MSGQ_get with SYS_FOREVER returns the first message.                    *)
DspGet ==
    /\ dspPc = "run" /\ hold = <<>> /\ dspq # <<>>
    /\ hold' = <<Head(dspq)>>
    /\ dspq' = Tail(dspq)
    /\ UNCHANGED <<free, gppq, dspPc, parked, locate, errs, lost>>

(* MSGQ_get fails: the loop ends, whatever its queue still holds.          *)
DspGetFails ==
    /\ dspPc = "run" /\ hold = <<>> /\ DspFaults
    /\ dspPc' = "failed"
    /\ UNCHANGED <<msgqVars, hold, parked, locate, errs, lost>>

(* The transport reports an error to the queue the task named.             *)
ErrorArrives ==
    /\ dspPc = "run" /\ free > 0 /\ errs < MaxErrs
    /\ free' = free - 1
    /\ errs' = errs + 1
    /\ UNCHANGED <<dspq, gppq, dspPc, hold, parked, locate, lost>>

(* A message with an id of no case of the loop's switch is freed.          *)
DspFreesOther ==
    /\ dspPc = "run" /\ hold = <<>> /\ errs > 0
    /\ free' = free + 1
    /\ errs' = errs - 1
    /\ UNCHANGED <<dspq, gppq, dspPc, hold, parked, locate, lost>>

Holding(S) == dspPc = "run" /\ hold # <<>> /\ hold[1].subid \in S

(* MSGQ_put of message m to the queue it names, or MSGQ_free when that     *)
(* fails: the server then never hears of m again.                          *)
PutBackOrFree(m, freed) ==
    \/ /\ m.reply_msgq # NoQueue
       /\ gppq' = Append(gppq, m)
       /\ free' = free + freed
       /\ UNCHANGED lost
    \/ /\ m.reply_msgq = NoQueue \/ DspFaults
       /\ free' = free + freed + 1
       /\ lost' = lost + 1
       /\ UNCHANGED gppq

(* GETREPLYMSGQMSGSUBID: start the lookup, keeping the message as its arg; *)
(* the status of MSGQ_locateAsync is ignored, so the message stays parked. *)
DspStartLocate ==
    /\ Holding({"getreply"})
    /\ parked' = hold
    /\ hold' = <<>>
    /\ \/ locate' = "pending"
       \/ DspFaults /\ locate' = "failed"
    /\ UNCHANGED <<free, dspq, gppq, dspPc, errs, lost>>

(* The transport answers the lookup with a message from the same pool.     *)
LocateAnswers ==
    /\ locate = "pending" /\ dspPc # "halted"
    /\ locate' = "answered"
    /\ \/ AllocAndPut(Control("async", GppQueue))
       \/ DspFaults /\ AllocAndPut(Control("async", NoQueue))
    /\ UNCHANGED <<dspPc, hold, parked, errs, lost>>

(* MSGQ_ASYNCLOCATEMSGID: the parked message goes to the queue that was    *)
(* found, carrying its handle; the lookup's own message is freed.          *)
DspAsyncLocate ==
    /\ Holding({"async"})
    /\ PutBackOrFree([parked[1] EXCEPT !.reply_msgq = hold[1].reply_msgq], 1)
    /\ hold' = <<>>
    /\ parked' = <<>>
    /\ locate' = "idle"
    /\ UNCHANGED <<dspq, dspPc, errs>>

(* The result is written into the message itself.                          *)
Computed(m) == [m EXCEPT !.z = Answer(m.subid, m.arg)]

(* MULTMSGSUBID and CRC32MSGSUBID: compute and put the message back.       *)
DspCompute ==
    /\ Holding(Requests)
    /\ PutBackOrFree(Computed(hold[1]), 0)
    /\ hold' = <<>>
    /\ UNCHANGED <<dspq, dspPc, parked, locate, errs>>

(* SHUTDOWNMSGSUBID: the handle in the message is released and cleared, so *)
(* the message is freed, not answered, and the task leaves its loop.       *)
DspShutdown ==
    /\ Holding({"shutdown"})
    /\ free' = free + 1
    /\ hold' = <<>>
    /\ dspPc' = "off"
    /\ UNCHANGED <<dspq, gppq, parked, locate, errs, lost>>

DspStep ==
    \/ DspGet
    \/ DspGetFails
    \/ DspFreesOther
    \/ DspStartLocate
    \/ DspAsyncLocate
    \/ DspCompute
    \/ DspShutdown

=============================================================================
