------------------------------- MODULE Crc32 --------------------------------
(***************************************************************************)
(* The arithmetic of dsp/dspmain_crc32.c: the table, and the four loops    *)
(* that take an image through it, one pixel a step. How the pixels get to  *)
(* the buffers is the subject of EdmaIn. The DSP is little-endian.         *)
(***************************************************************************)
EXTENDS CrcWords

CONSTANTS
    Formats,    \* the format field of requests
    Images,     \* what the images hold, read a pixel at a time
    Stale       \* what the table's memory holds before it is generated

ASSUME Crc32Assumption ==
    /\ Formats \subseteq Int
    /\ Images \subseteq Seq(Words)
    /\ Stale \in [Octets -> Words]

VARIABLES
    pc,         \* "idle", "setup" or "process"
    format,
    image,      \* history: the image of the last request
    left,       \* the pixels from data to the end
    tab,        \* tab_ptr
    crc,        \* dii.user[0]
    reply       \* the crc32 field of the message

crcVars == <<pc, format, image, left, tab, crc, reply>>

(* gen_table: one bit of a remainder, and the eight of a byte.             *)
Shifted(w) == IF 0 \in w THEN Xor(Shr(w, 1), Poly) ELSE Shr(w, 1)
Remainder(b) ==
    Shifted(Shifted(Shifted(Shifted(Shifted(Shifted(Shifted(Shifted(b))))))))

TableOf == [b \in Octets |-> Remainder(b)]

(* Mutant of Look: the remainder is not shifted.                           *)
LookUnshifted(c, w) == Xor(tab[Low(Xor(w, c))], c)

(* tab_ptr[(pixel ^ crc) & 0xff] ^ (crc >> 8)                              *)
Look(c, w) == Xor(tab[Low(Xor(w, c))], Shr(c, 8))

(* crc_update8, 16, 24 and 32.                                             *)
Update8(c, w) == Look(c, w)
Update16(c, w) == Look(Update8(c, w), Shr(w, 8))
Update24(c, w) == Look(Update16(c, w), Shr(w, 16))
Update32(c, w) == Look(Update24(c, w), Shr(w, 24))

(* Mutant of Update: format 3 takes all the bytes of its pixels.           *)
UpdateAllBytes(c, w) ==
    CASE format \in {3, 4} -> Update32(c, w)
      [] format = 2 -> Update16(c, w)
      [] OTHER -> Update8(c, w)

(* The switch on the format: what is not 2, 3 or 4 is taken for 1.         *)
Update(c, w) ==
    CASE format = 4 -> Update32(c, w)
      [] format = 3 -> Update24(c, w)
      [] format = 2 -> Update16(c, w)
      [] OTHER -> Update8(c, w)

-----------------------------------------------------------------------------
CrcInit ==
    /\ pc = "idle"
    /\ format \in Formats
    /\ image = <<>> /\ left = <<>>
    /\ tab = Stale
    /\ crc = AllOnes /\ reply = {}

(* A request comes with its crc32 field 0 (send_crc32_msg).                *)
Begin ==
    /\ pc = "idle"
    /\ format' \in Formats
    /\ \E im \in Images : image' = im /\ left' = im
    /\ crc' = AllOnes
    /\ reply' = {}
    /\ pc' = "setup"
    /\ UNCHANGED tab

Setup ==
    /\ pc = "setup"
    /\ tab' = TableOf
    /\ pc' = "process"
    /\ UNCHANGED <<format, image, left, crc, reply>>

Process ==
    /\ pc = "process" /\ left # <<>>
    /\ crc' = Update(crc, Head(left))
    /\ left' = Tail(left)
    /\ UNCHANGED <<pc, format, image, tab, reply>>

(* Mutant of Finish: the remainder is not inverted.                        *)
FinishRaw ==
    /\ pc = "process" /\ left = <<>>
    /\ reply' = crc
    /\ pc' = "idle"
    /\ UNCHANGED <<format, image, left, tab, crc>>

Finish ==
    /\ pc = "process" /\ left = <<>>
    /\ reply' = Xor(AllOnes, crc)
    /\ pc' = "idle"
    /\ UNCHANGED <<format, image, left, tab, crc>>

CrcNext == Begin \/ Setup \/ Process \/ Finish

CrcSpec == CrcInit /\ [][CrcNext]_crcVars

(***************************************************************************)
(* Properties.                                                             *)
(***************************************************************************)

CrcTypeOK ==
    /\ pc \in {"idle", "setup", "process"}
    /\ format \in Formats
    /\ image \in Seq(Words) /\ left \in Seq(Words)
    /\ tab \in [Octets -> Words]
    /\ crc \in Words /\ reply \in Words

(* The bytes of a pixel that count.                                        *)
Depth == IF format \in 2..4 THEN format ELSE 1

(* Every pixel moves the CRC as its bits, taken one by one in the order of *)
(* memory, would: the byte-wide table and the order in which the four      *)
(* loops take a pixel apart give the CRC its definition.                   *)
Serial == INSTANCE BitCrc
    WITH depth <- Depth, todo <- left, reg <- crc, busy <- pc # "idle"

ImplementsBitCrc == Serial!Spec

=============================================================================
