------------------------------ MODULE DspTest ------------------------------
(***************************************************************************)
(* gpp/dsptest.c: test processes that talk to the DSP's task past the      *)
(* server, each with a queue of its own and all with the server's pool. A  *)
(* process asks the DSP for the handle of its queue and then, whenever     *)
(* MSGQ_get has waited half a second, sends a MULT, whether the handle has *)
(* come by then or not. The DSP's side is that of dsp/dspmain.c as in      *)
(* DspTask, with several lookups under way at once.                        *)
(***************************************************************************)
EXTENDS Integers, Sequences, FiniteSets

CONSTANTS
    Testers,    \* the test processes
    PoolSize,   \* buffers in the pool
    MaxSent,    \* bound: messages a process sends
    NoQueue,    \* reply_msgq is 0
    Stops,      \* the server may have the DSP's task leave its loop
    Fails       \* MSGQ_get and MSGQ_put may fail, on the ARM and on the DSP

DspTestConstants ==
    /\ {PoolSize, MaxSent} \subseteq Nat \ {0}
    /\ NoQueue \notin Testers
    /\ Stops \in BOOLEAN /\ Fails \in BOOLEAN

VARIABLES
    pc,         \* of a process: "start", "loop" or "closed"
    reply_msgq, \* the handle it has learnt, or NoQueue
    sequence,   \* dsptest.sequence
    gppq,       \* the messages in its queue
    printed,    \* history: the messages it has printed
    free,       \* buffers left in the pool
    dspq,       \* the messages waiting for the DSP's task
    hold,       \* the one it works on
    parked,     \* the GETREPLY messages whose lookup is under way
    dspRuns,    \* it is in its loop
    silent,     \* history: MULT messages computed and freed
    refused     \* history: messages whose put to an open queue failed there

testVars == <<pc, reply_msgq, sequence, printed>>
dspVars == <<hold, parked, dspRuns, silent, refused>>
vars == <<testVars, gppq, free, dspq, dspVars>>

Mult(t) == [subid |-> "mult", from |-> t, reply |-> reply_msgq[t], seq |-> sequence[t]]
GetReply(t) == [subid |-> "getreply", from |-> t, reply |-> NoQueue, seq |-> sequence[t]]
(* The answer to a lookup. Its handle is the queue, "arg" the message.     *)
Async(m) == [subid |-> "async", from |-> m.from, reply |-> m.from, seq |-> m.seq]

Init ==
    /\ pc = [t \in Testers |-> "start"]
    /\ reply_msgq = [t \in Testers |-> NoQueue]
    /\ sequence = [t \in Testers |-> 0]
    /\ gppq = [t \in Testers |-> <<>>]
    /\ printed = [t \in Testers |-> <<>>]
    /\ free = PoolSize /\ dspq = <<>>
    /\ hold = <<>> /\ parked = {} /\ dspRuns = TRUE /\ silent = {} /\ refused = {}

-----------------------------------------------------------------------------
(* The test process.                                                       *)

(* MSGQ_alloc and MSGQ_put. The number is used up once there is a message. *)
Send(t, m) ==
    /\ free > 0
    /\ free' = free - 1
    /\ dspq' = Append(dspq, m)
    /\ sequence' = [sequence EXCEPT ![t] = @ + 1]

(* MSGQ_put fails: the message is freed, the number used up all the same.  *)
SendFails(t) ==
    /\ Fails /\ free > 0
    /\ sequence' = [sequence EXCEPT ![t] = @ + 1]
    /\ UNCHANGED <<free, dspq>>

(* dsptest_loop sends GETREPLYMSGQMSGSUBID, and ends if it cannot.         *)
Begin(t) ==
    /\ pc[t] = "start"
    /\ \/ Send(t, GetReply(t)) /\ pc' = [pc EXCEPT ![t] = "loop"]
       \/ SendFails(t) /\ pc' = [pc EXCEPT ![t] = "closed"]
       \/ free = 0 /\ pc' = [pc EXCEPT ![t] = "closed"] /\ UNCHANGED <<free, dspq, sequence>>
    /\ UNCHANGED <<reply_msgq, printed, gppq, dspVars>>

(* Half a second without a message: one more MULT, if there is a buffer.   *)
Timeout(t) ==
    /\ pc[t] = "loop" /\ gppq[t] = <<>>
    /\ sequence[t] < MaxSent
    /\ Send(t, Mult(t)) \/ SendFails(t)
    /\ UNCHANGED <<pc, reply_msgq, printed, gppq, dspVars>>

(* Mutants of Get: the message is not freed, or once more than it should.  *)
GetFreeing(t, n) ==
    /\ pc[t] = "loop" /\ gppq[t] # <<>>
    /\ reply_msgq' = [reply_msgq EXCEPT ![t] =
            IF Head(gppq[t]).subid = "getreply" THEN Head(gppq[t]).reply ELSE @]
    /\ printed' = [printed EXCEPT ![t] = Append(@, Head(gppq[t]).seq)]
    /\ gppq' = [gppq EXCEPT ![t] = Tail(@)]
    /\ free' = free + n
    /\ UNCHANGED <<pc, sequence, dspq, dspVars>>
GetKeeps(t) == GetFreeing(t, 0)
GetFreesTwice(t) == GetFreeing(t, 2)

(* MSGQ_get with a message: process_mymsg prints it and, of a GETREPLY,    *)
(* keeps the handle; the message is freed.                                 *)
Get(t) ==
    /\ pc[t] = "loop" /\ gppq[t] # <<>>
    /\ reply_msgq' = [reply_msgq EXCEPT ![t] =
            IF Head(gppq[t]).subid = "getreply" THEN Head(gppq[t]).reply ELSE @]
    /\ printed' = [printed EXCEPT ![t] = Append(@, Head(gppq[t]).seq)]
    /\ gppq' = [gppq EXCEPT ![t] = Tail(@)]
    /\ free' = free + 1
    /\ UNCHANGED <<pc, sequence, dspq, dspVars>>

(* Any other failure of MSGQ_get ends the process: the queue is closed.    *)
GetFailed(t) ==
    /\ pc[t] = "loop" /\ Fails
    /\ pc' = [pc EXCEPT ![t] = "closed"]
    /\ UNCHANGED <<reply_msgq, sequence, printed, gppq, free, dspq, dspVars>>

-----------------------------------------------------------------------------
(* The DSP.                                                                *)

DspGet ==
    /\ dspRuns /\ hold = <<>> /\ dspq # <<>>
    /\ hold' = <<Head(dspq)>> /\ dspq' = Tail(dspq)
    /\ UNCHANGED <<testVars, gppq, free, parked, dspRuns, silent, refused>>

Holds(subid) == dspRuns /\ hold # <<>> /\ hold[1].subid = subid

(* MSGQ_put to a queue. It fails when the queue is closed, and may when it *)
(* is open; the message is then freed, as it is when there is no handle.   *)
(* "freed" more are freed in any case.                                     *)
Open(m) == m.reply # NoQueue /\ pc[m.reply] # "closed"

Put(m, freed) ==
    /\ Open(m)
    /\ gppq' = [gppq EXCEPT ![m.reply] = Append(@, m)]
    /\ free' = free + freed
    /\ UNCHANGED <<silent, refused>>

Freed(m, freed) ==
    /\ Open(m) => Fails
    /\ free' = free + freed + 1
    /\ silent' = IF m.subid = "mult" THEN silent \cup {m} ELSE silent
    /\ refused' = IF Open(m) THEN refused \cup {m} ELSE refused
    /\ UNCHANGED gppq

PutOrFree(m, freed) == Put(m, freed) \/ Freed(m, freed)

(* MSGQ_locateAsync: the message waits for the answer.                     *)
DspGetReply ==
    /\ Holds("getreply")
    /\ parked' = parked \cup {hold[1]} /\ hold' = <<>>
    /\ UNCHANGED <<testVars, gppq, free, dspq, dspRuns, silent, refused>>

(* The transport answers lookups in any order, in messages from the pool,  *)
(* when it has one.                                                        *)
LookupAnswered(m) ==
    /\ m \in parked /\ free > 0
    /\ ~\E i \in DOMAIN dspq : dspq[i] = Async(m)
    /\ hold # <<Async(m)>>
    /\ free' = free - 1
    /\ dspq' = Append(dspq, Async(m))
    /\ UNCHANGED <<testVars, gppq, dspVars>>

(* Mutant of DspAsync: the lookup that was started last is meant.          *)
DspAsyncAny ==
    /\ Holds("async")
    /\ \E m \in parked :
        /\ \A n \in parked : n.seq <= m.seq
        /\ PutOrFree([m EXCEPT !.reply = hold[1].reply], 1)
        /\ parked' = parked \ {m}
    /\ hold' = <<>>
    /\ UNCHANGED <<testVars, dspq, dspRuns>>

(* MSGQ_ASYNCLOCATEMSGID: the message goes home with the handle.           *)
DspAsync ==
    /\ Holds("async")
    /\ LET m == CHOOSE p \in parked : Async(p) = hold[1]
       IN /\ PutOrFree([m EXCEPT !.reply = hold[1].reply], 1)
          /\ parked' = parked \ {m}
    /\ hold' = <<>>
    /\ UNCHANGED <<testVars, dspq, dspRuns>>

(* Mutant of DspMult: put to whoever asked, handle or no handle.           *)
DspMultAnyway ==
    /\ Holds("mult")
    /\ PutOrFree([hold[1] EXCEPT !.reply = hold[1].from], 0)
    /\ hold' = <<>>
    /\ UNCHANGED <<testVars, dspq, parked, dspRuns>>

(* Mutant of DspMult: the handle is cleared first, as for a SHUTDOWN.       *)
DspMultCleared ==
    /\ Holds("mult")
    /\ free' = free + 1 /\ UNCHANGED <<gppq, refused>>
    /\ silent' = silent \cup {hold[1]}
    /\ hold' = <<>>
    /\ UNCHANGED <<testVars, dspq, parked, dspRuns>>

DspMult ==
    /\ Holds("mult")
    /\ PutOrFree(hold[1], 0)
    /\ hold' = <<>>
    /\ UNCHANGED <<testVars, dspq, parked, dspRuns>>

(* The server's SHUTDOWN reaches the task, or MSGQ_get fails there: what   *)
(* is still in its queue stays unanswered.                                 *)
DspStops ==
    /\ Stops \/ Fails
    /\ dspRuns /\ hold = <<>>
    /\ dspRuns' = FALSE
    /\ UNCHANGED <<testVars, gppq, free, dspq, hold, parked, silent, refused>>

Answers == \E m \in parked : LookupAnswered(m)
DspStep == DspGet \/ DspGetReply \/ DspAsync \/ DspMult

Next ==
    \/ \E t \in Testers : Begin(t) \/ Timeout(t) \/ Get(t) \/ GetFailed(t)
    \/ DspStep \/ Answers \/ DspStops
Spec == Init /\ [][Next]_vars

-----------------------------------------------------------------------------
(* Every buffer of the pool that serves the server too is in one place:    *)
(* free, in a queue (a closed one included), at the DSP or in a lookup.    *)
InQueues == UNION {{t} \X DOMAIN gppq[t] : t \in Testers}
BuffersConserved ==
    free + Len(dspq) + Len(hold) + Cardinality(parked) + Cardinality(InQueues) = PoolSize

(* A process gets its own messages, its handle first: what the DSP puts in *)
(* a queue was sent by the process that reads it.                          *)
OwnMessages ==
    \A t \in Testers :
        /\ \A i \in DOMAIN gppq[t] : gppq[t][i].from = t /\ gppq[t][i].reply = t
        /\ reply_msgq[t] \in {t, NoQueue}

(* A process prints its handle first and the products after it, in the     *)
(* order it asked for them.                                                *)
PrintedInOrder ==
    \A t \in Testers :
        /\ \A i, j \in DOMAIN printed[t] : i < j => printed[t][i] < printed[t][j]
        /\ printed[t] # <<>> => printed[t][1] = 0

(* A MULT that the DSP's task has worked on is answered, unless it was     *)
(* asked for before the handle had come (a timeout that beat the lookup),  *)
(* the process has closed its queue, or MSGQ_put failed for that message.  *)
(* Unanswered are besides those still in the DSP's queue when its task     *)
(* ends, which it never works on.                                          *)
OnlyEarlyOnesSilent ==
    \A m \in silent : m.reply = NoQueue \/ pc[m.from] = "closed" \/ m \in refused

TestersServed == BuffersConserved /\ OwnMessages /\ PrintedInOrder /\ OnlyEarlyOnesSilent
=============================================================================
