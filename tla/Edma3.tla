------------------------------- MODULE Edma3 -------------------------------
(***************************************************************************)
(* The EDMA3 engine as dsp/dspmain_edma.c drives it: one channel (chids[0])*)
(* with two link sets that alternate its destination between the two       *)
(* buffers of a ping-pong pair, the semaphore its completion callback      *)
(* posts and the flag the callback leaves. The driver and the engine are   *)
(* not in the repository; what is modelled of them is what the calls rely  *)
(* on: a triggered channel takes a copy of its parameter set, which is     *)
(* then replaced by the set it is linked to, and moves the data some time  *)
(* later. Data is counted in rows of an image.                             *)
(***************************************************************************)
EXTENDS Integers

CONSTANTS
    EdmaFaults, \* the calls and events that may go wrong
    CountMod    \* 2^16: the rows of a transfer are a 16-bit count

ASSUME EdmaFaultsAssumption == EdmaFaults \subseteq {"request", "link", "miss"}
ASSUME CountModAssumption == CountMod \in Nat \ {0}

VARIABLES
    chids,      \* how many of the three channels are held
    param,      \* the parameter set of chids[0]
    engine,     \* "idle", "triggered" or "moving"
    moving,     \* the parameters of the transfer under way
    content,    \* what each buffer holds: rows of the image, from the first
    missed,     \* the channel's error bit
    erred,      \* history: an event of this request was missed
    irq,        \* g_irqRaised1
    sem         \* the count of g_edmaSemHandle

edmaVars == <<chids, param, engine, moving, content, missed, erred, irq, sem>>
engineVars == <<engine, moving, content, missed, erred, irq, sem>>

Bufs == {"ping", "pong"}
Other(b) == IF b = "ping" THEN "pong" ELSE "ping"

ParamSets == [src : Nat, rows : Nat, dst : Bufs, link : Bufs]
Contents == [first : Nat, rows : Nat]

(* Mutant of LinkSet: each set is linked to itself.                        *)
LinkSetToItself(b) == [src |-> 0, rows |-> 0, dst |-> b, link |-> b]

(* A link set: the source and the counts are zero, "set later".            *)
LinkSet(b) == [src |-> 0, rows |-> 0, dst |-> b, link |-> Other(b)]

(* The content of a buffer no whole transfer has been made to.             *)
Torn == [first |-> 0, rows |-> 0]

EdmaInit ==
    /\ chids = 0
    /\ param = LinkSet("ping") /\ moving = LinkSet("ping")
    /\ engine = "idle"
    /\ content = [b \in Bufs |-> Torn]
    /\ missed = FALSE /\ erred = FALSE /\ irq = 0 /\ sem = 0

EdmaTypeOK ==
    /\ chids \in 0..3
    /\ param \in ParamSets /\ moving \in ParamSets
    /\ engine \in {"idle", "triggered", "moving"}
    /\ content \in [Bufs -> Contents]
    /\ missed \in BOOLEAN /\ erred \in BOOLEAN /\ irq \in {-1, 0, 1} /\ sem \in Nat

-----------------------------------------------------------------------------
(* What the program calls.                                                 *)

(* The buffers hold nothing of the next image.                             *)
NextImage == content' = [b \in Bufs |-> Torn] /\ erred' = FALSE

(* Mutant of RequestFails: chids[0] is not given back.                     *)
RequestFailsLeaking == "request" \in EdmaFaults /\ chids' = 1

(* request_channels: all three, or what was got before the failure is      *)
(* given back. Freed channels keep nothing of what was written to them.    *)
RequestChannels == chids' = 3
RequestFails == "request" \in EdmaFaults /\ UNCHANGED chids
FreeChannels == chids' = 0 /\ param' = LinkSet("ping")

(* set_param_link: the channel starts with ping and then alternates.       *)
SetParamLink == param' = LinkSet("ping")

(* What MY_SET_PARAM_AB leaves of the number of rows. (A transfer of none, *)
(* of rows that have bytes, moves nothing and completes.)                  *)
Count(n) == n % CountMod

(* MY_SET_PARAM_SRC, MY_SET_PARAM_AB and DMA_START.                        *)
Start(from, n) ==
    /\ param' = [param EXCEPT !.src = from, !.rows = Count(n)]
    /\ engine' = "triggered"
    /\ UNCHANGED <<chids, moving, content, missed, erred, irq, sem>>

(* Mutants of AwaitDma: no semaphore; no look at the flag.                 *)
AwaitDmaAtOnce ==
    /\ sem' = sem - 1
    /\ missed' = (missed /\ irq >= 0)
    /\ irq' = 0
    /\ UNCHANGED <<chids, param, engine, moving, content, erred>>

AwaitDmaBlindly ==
    /\ sem > 0
    /\ sem' = sem - 1
    /\ irq' = 0
    /\ UNCHANGED <<chids, param, engine, moving, content, missed, erred>>

(* DMA_WAIT: the semaphore, then the error bit if the callback saw one.    *)
AwaitDma ==
    /\ sem > 0
    /\ sem' = sem - 1
    /\ missed' = (missed /\ irq >= 0)
    /\ irq' = 0
    /\ UNCHANGED <<chids, param, engine, moving, content, erred>>

-----------------------------------------------------------------------------
(* What the engine does, and callback1 with it.                            *)

EngineSubmit ==
    /\ engine = "triggered"
    /\ engine' = "moving"
    /\ moving' = param
    /\ param' = LinkSet(param.link)
    /\ content' = [content EXCEPT ![param.dst] = Torn]
    /\ UNCHANGED <<chids, missed, erred, irq, sem>>

EngineComplete ==
    /\ engine = "moving"
    /\ engine' = "idle"
    /\ content' = [content EXCEPT ![moving.dst] =
                        [first |-> moving.src, rows |-> moving.rows]]
    /\ irq' = 1
    /\ sem' = sem + 1
    /\ moving' = LinkSet("ping")
    /\ UNCHANGED <<chids, param, missed, erred>>

(* The event is missed: nothing is moved and the error bit stays set.      *)
EngineMisses ==
    /\ "miss" \in EdmaFaults
    /\ engine = "triggered"
    /\ engine' = "idle"
    /\ missed' = TRUE /\ erred' = TRUE
    /\ irq' = -1
    /\ sem' = sem + 1
    /\ UNCHANGED <<chids, param, moving, content>>

EngineActs == EngineSubmit \/ EngineComplete \/ EngineMisses

=============================================================================
