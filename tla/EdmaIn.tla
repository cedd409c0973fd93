------------------------------- MODULE EdmaIn -------------------------------
(***************************************************************************)
(* process_CRC32MSGSUBID (dsp/dspmain_crc32.c) and the transfers under it, *)
(* process_dma_in (dsp/dspmain_edma.c): the CRC of an image that is read   *)
(* through two small buffers, one being filled by the engine while the     *)
(* other is processed. The calls follow each other in the DSP task; each   *)
(* is a step from one wait to the next, or less.                           *)
(***************************************************************************)
EXTENDS Edma3

CONSTANTS
    Images,     \* the images asked for: rowBytes (width * bytes_per_pixel) and height
    BufBytes,   \* ping_pong_bytes, the size of each buffer
    Word        \* 2^32: an int is one of -Word/2 .. Word/2 - 1

(* Products of width and bytes_per_pixel that fit in 32 bits; the height   *)
(* is any int of the client.                                               *)
ASSUME ImagesAssumption ==
    Images \subseteq {im \in [rowBytes : Nat, height : Int] :
                            -Word <= 2 * im.height /\ 2 * im.height < Word}
ASSUME BufBytesAssumption == BufBytes \in Nat /\ BufBytes < CountMod
ASSUME WordAssumption == Word \in Nat

VARIABLES
    pc,         \* where the task is
    image,      \* the image of the current or last request
    src,        \* the next row to transfer: (src - src_addr) / stride_bytes
    height,     \* rows not transferred
    rows,       \* rows_per_dma
    filled,     \* bytes_in_ping and bytes_in_pong, in rows
    section,    \* the block of process_dma_in: "loop", "halves" or "rest"
    table,      \* the CRC table has been generated
    crc,        \* user[0]: see Digest
    reply,      \* the crc32 field of the message
    failed,     \* history: this request could not have its channels or links
    spoiled     \* history: a transfer was started that a buffer cannot hold

locals == <<src, height, rows, filled, section>>
histories == <<failed, spoiled>>
taskVars == <<locals, image, table, crc, reply, histories>>
vars == <<edmaVars, pc, taskVars>>

(* The CRC is identified by the rows it is of: k says that rows 0..k-1 were *)
(* processed in order, each once; Wrong that something else was.           *)
Wrong == -1

None == [rowBytes |-> 0, height |-> 0]

Init ==
    /\ EdmaInit
    /\ pc = "idle" /\ image = None
    /\ src = 0 /\ height = 0 /\ rows = 0
    /\ filled = [b \in Bufs |-> 0]
    /\ section = "loop"
    /\ table = FALSE /\ crc = 0 /\ reply = 0
    /\ failed = FALSE /\ spoiled = FALSE

TypeOK ==
    /\ EdmaTypeOK
    /\ pc \in {"idle", "request", "link", "first", "setup", "waitFirst",
               "startPong", "processPing", "waitPong", "startPing",
               "processPong", "waitPing", "lastPing", "lastPong", "free", "finish"}
    /\ image \in [rowBytes : Nat, height : Int]
    /\ src \in Int /\ height \in Int /\ rows \in Int
    /\ filled \in [Bufs -> Int]
    /\ section \in {"loop", "halves", "rest"}
    /\ table \in BOOLEAN /\ crc \in Int /\ reply \in Int
    /\ failed \in BOOLEAN /\ spoiled \in BOOLEAN

-----------------------------------------------------------------------------
(* The height of the message is an int, that of dma_in_info an unsigned    *)
(* int, and that of process_dma_in an int again.                           *)
Unsigned(n) == IF n < 0 THEN n + Word ELSE n
Signed(u) == IF 2 * u >= Word THEN u - Word ELSE u

(* An image the buffers cannot hold a row of, or that has none, is refused *)
(* and the message goes back as it came, with the 0 of send_crc32_msg. The *)
(* test is made of the unsigned height: one below zero passes it.          *)
Refused(im) ==
    im.rowBytes < 1 \/ Unsigned(im.height) < 1 \/ im.rowBytes > BufBytes

Call ==
    /\ pc = "idle"
    /\ \E im \in Images :
        /\ image' = im
        /\ pc' = IF Refused(im) THEN "idle" ELSE "request"
    /\ crc' = 0
    /\ reply' = 0
    /\ failed' = FALSE
    /\ NextImage
    /\ UNCHANGED <<chids, param, engine, moving, missed, irq, sem, locals, table, spoiled>>

(* MINMAX(rows_per_dma, 1, height): the height when that is below zero.    *)
RowsPerDma(n, h) == IF n < 1 THEN 1 ELSE IF n > h THEN h ELSE n

Request ==
    /\ pc = "request"
    /\ \/ /\ RequestChannels
          /\ pc' = "link"
          /\ src' = 0
          /\ height' = Signed(Unsigned(image.height))
          /\ rows' = RowsPerDma(BufBytes \div image.rowBytes, height')
          /\ UNCHANGED failed
       \/ /\ RequestFails
          /\ pc' = "finish"
          /\ failed' = TRUE
          /\ UNCHANGED <<src, height, rows>>
    /\ UNCHANGED <<engineVars, param, image, filled, section, table, crc, reply, spoiled>>

Link ==
    /\ pc = "link"
    /\ \/ SetParamLink /\ pc' = "first" /\ UNCHANGED failed
       \/ "link" \in EdmaFaults /\ pc' = "free" /\ failed' = TRUE /\ UNCHANGED param
    /\ UNCHANGED <<engineVars, chids, locals, image, table, crc, reply, spoiled>>

(* n rows, as many as the counter holds of them, are more than a buffer.   *)
Overruns(n) == Count(n) * image.rowBytes > BufBytes

(* Mutant of Fill: the source is not set again after the link replaced it. *)
FillFromLink(b) ==
    /\ filled' = [filled EXCEPT ![b] = rows]
    /\ Start(param.src, rows)
    /\ spoiled' = (spoiled \/ Overruns(rows))
    /\ UNCHANGED <<image, src, height, rows, section, table, crc, reply, failed>>

(* Start the transfer of the next rows into buffer b.                      *)
Fill(b) ==
    /\ filled' = [filled EXCEPT ![b] = rows]
    /\ Start(src, rows)
    /\ spoiled' = (spoiled \/ Overruns(rows))
    /\ UNCHANGED <<image, src, height, rows, section, table, crc, reply, failed>>

StartFirst == pc = "first" /\ Fill("ping") /\ pc' = "setup"
StartPong == pc = "startPong" /\ Fill("pong") /\ pc' = "processPing"
StartPing == pc = "startPing" /\ Fill("ping") /\ pc' = "processPong"

Setup ==
    /\ pc = "setup"
    /\ table' = TRUE
    /\ pc' = "waitFirst"
    /\ UNCHANGED <<edmaVars, locals, image, crc, reply, histories>>

-----------------------------------------------------------------------------
(* The callback on n rows of buffer b.                                     *)
Digest(b, n) ==
    IF table /\ content[b].first = crc /\ n <= content[b].rows
        THEN crc + n ELSE Wrong

(* With fewer than no rows it is given an end below its start and leaves   *)
(* at once, or one that wrapped and is far above it.                       *)
Digests(b, n) == IF spoiled \/ n < 0 THEN {crc, Wrong} ELSE {Digest(b, n)}

Process(b) ==
    /\ crc' \in Digests(b, filled[b])
    /\ UNCHANGED <<edmaVars, locals, image, table, reply, histories>>

ProcessPing == pc = "processPing" /\ Process("ping") /\ pc' = "waitPong"
ProcessPong == pc = "processPong" /\ Process("pong") /\ pc' = "waitPing"
ProcessLast ==
    /\ pc \in {"lastPing", "lastPong"}
    /\ Process(IF pc = "lastPing" THEN "ping" ELSE "pong")
    /\ pc' = "free"

-----------------------------------------------------------------------------
(* With ping full and h rows to go: where to, and with how many rows.      *)
Goto(label, block, n) == pc' = label /\ section' = block /\ rows' = n

Rest(h, n) ==
    IF h > 0 THEN Goto("startPong", "rest", h) ELSE Goto("lastPing", section, n)

(* Mutants of Blocks: without the halves, without the rest.                *)
BlocksWithoutHalves(h, n) ==
    IF h >= n * 2 THEN Goto("startPong", "loop", n) ELSE Rest(h, n)
BlocksWithoutRest(h, n) ==
    IF h >= n * 2 THEN Goto("startPong", "loop", n) ELSE Goto("lastPing", section, n)

Blocks(h, n) ==
    IF h >= n * 2 THEN Goto("startPong", "loop", n)
    ELSE IF h > n THEN Goto("startPong", "halves", h \div 2)
    ELSE Rest(h, n)

(* Mutant of Wait: src and height are not advanced.                        *)
WaitWithoutProgress ==
    /\ AwaitDma
    /\ UNCHANGED <<image, src, height, filled, table, crc, reply, histories>>

Wait ==
    /\ AwaitDma
    /\ src' = src + rows
    /\ height' = height - rows
    /\ UNCHANGED <<image, filled, table, crc, reply, histories>>

WaitFirst ==
    /\ pc = "waitFirst"
    /\ Wait
    /\ IF height - rows < 1 THEN Goto("lastPing", section, rows)
                            ELSE Blocks(height - rows, rows)

WaitPong ==
    /\ pc = "waitPong"
    /\ Wait
    /\ CASE section = "loop"   -> Goto("startPing", section, rows)
         [] section = "halves" -> Goto("startPing", section, height - rows)
         [] section = "rest"   -> Goto("lastPong", section, rows)

WaitPing ==
    /\ pc = "waitPing"
    /\ Wait
    /\ IF section = "loop" THEN Blocks(height - rows, rows)
                           ELSE Rest(height - rows, rows)

Free ==
    /\ pc = "free"
    /\ FreeChannels
    /\ pc' = "finish"
    /\ UNCHANGED <<engineVars, taskVars>>

(* The local variables of process_dma_in are gone.                         *)
Finish ==
    /\ pc = "finish"
    /\ reply' = crc
    /\ pc' = "idle"
    /\ src' = 0 /\ height' = 0 /\ rows' = 0
    /\ filled' = [b \in Bufs |-> 0]
    /\ section' = "loop"
    /\ UNCHANGED <<edmaVars, image, table, crc, histories>>

Transfers ==
    \/ Request \/ Link \/ StartFirst \/ Setup \/ StartPong \/ StartPing
    \/ ProcessPing \/ ProcessPong \/ ProcessLast
    \/ WaitFirst \/ WaitPong \/ WaitPing \/ Free \/ Finish

Engine == EngineActs /\ UNCHANGED <<pc, taskVars>>

Next == Call \/ Transfers \/ Engine

Spec == Init /\ [][Next]_vars

-----------------------------------------------------------------------------
(* Safety, for as long as no transfer has run over a buffer (spoiled): what *)
(* such a one overwrites is not the task's to tell.                        *)

(* Every call of the callback is given the rows that follow those it had,  *)
(* whole: the two buffers and the four blocks of process_dma_in neither    *)
(* skip nor repeat nor reorder a row. (Not so if the engine misses an      *)
(* event: the code then goes on with what the buffer held before. Nor for  *)
(* a height below zero, of which there are no rows.)                       *)
NeverWrong == crc = Wrong => erred \/ spoiled \/ image.height < 0

(* The message goes back with the CRC of the whole image, or, when it was  *)
(* refused or a channel or a link could not be had, with that of no rows,  *)
(* which is 0: never with that of some rows or of an image before. An      *)
(* event missed spoils the reply of its own request and of no later one.   *)
RepliesWhole ==
    pc = "idle" /\ image.height >= 0 /\ ~erred /\ ~spoiled =>
        reply = IF Refused(image) \/ failed THEN 0 ELSE image.height

(* The engine is never given more rows than a buffer holds, unless of an   *)
(* image whose height is below zero: without those nothing is spoiled.     *)
TransfersFit ==
    /\ image.height >= 0 =>
        /\ engine = "triggered" => param.rows * image.rowBytes <= BufBytes
        /\ engine = "moving" => moving.rows * image.rowBytes <= BufBytes
    /\ spoiled => \E im \in Images : im.height < 0

(* The buffer the callback reads is not the one the engine writes, from    *)
(* the trigger to the completion. (After a missed event it may be: the     *)
(* link did not alternate, and the transfer named pong goes to ping.)      *)
Target == IF engine = "triggered" THEN param.dst ELSE moving.dst
BuffersApart ==
    engine # "idle" /\ ~erred /\ ~spoiled =>
        /\ pc \in {"processPing", "lastPing"} => Target = "pong"
        /\ pc \in {"processPong", "lastPong"} => Target = "ping"

(* A call leaves nothing for the next one: no channel, transfer, pending   *)
(* completion or error bit, whatever failed.                               *)
LeavesClean ==
    pc = "idle" => chids = 0 /\ engine = "idle" /\ sem = 0 /\ ~missed

(* What the test (dii.height < 1) of process_CRC32MSGSUBID is there for:   *)
(* nothing is transferred for an image of less than one row.               *)
ShortMovesNothing == image.height < 1 => engine = "idle"

-----------------------------------------------------------------------------
(* The task runs when it is not waiting and the engine is hardware. A      *)
(* transfer over the end of the buffers may never complete.                *)
FairSpec == Spec /\ WF_vars(Transfers) /\ WF_vars(~spoiled /\ Engine)

(* Every request comes back, also when channels are refused and events     *)
(* missed.                                                                 *)
Returns == pc # "idle" ~> pc = "idle" \/ spoiled

=============================================================================
