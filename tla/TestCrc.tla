------------------------------ MODULE TestCrc ------------------------------
(***************************************************************************)
(* The CRC that gpp/dsptestsck.c computes of an image on the ARM, to set   *)
(* against the DSP's: a table and four loops of its own.                   *)
(***************************************************************************)
EXTENDS CrcWords

(* gen_table.                                                              *)
Divided(w) == IF 0 \in w THEN Xor(Shr(w, 1), Poly) ELSE Shr(w, 1)
TabPtr ==
    [b \in Octets |->
        Divided(Divided(Divided(Divided(Divided(Divided(Divided(Divided(b))))))))]

(* One byte of a pixel; crc_update masks the remainder, not the sum.       *)
Byte(c, w) == Xor(TabPtr[Low(Xor(w, c))], Shr(c, 8))
Byte8(c, w) == Xor(TabPtr[Xor(Low(w), Low(c))], Shr(c, 8))

(* Mutant of BytesTaken: format 3 takes the bytes it has in memory.        *)
BytesTakenAll(imageFormat) == IF imageFormat = 3 THEN 4 ELSE imageFormat

(* How many bytes of each pixel crc_update16, 24 and 32 take.              *)
BytesTaken(imageFormat) == imageFormat

Pixel(imageFormat, c, w) ==
    LET two == Byte(Byte(c, w), Shr(w, 8))
        three == Byte(two, Shr(w, 16))
        four == Byte(three, Shr(w, 24))
    IN CASE BytesTaken(imageFormat) = 1 -> Byte8(c, w)
         [] BytesTaken(imageFormat) = 2 -> two
         [] BytesTaken(imageFormat) = 3 -> three
         [] BytesTaken(imageFormat) = 4 -> four

(* main: from all ones, a row after the other, and inverted.               *)
CpuRegister(imageFormat, pixels) ==
    LET upTo[n \in 0..Len(pixels)] ==
            IF n = 0 THEN AllOnes ELSE Pixel(imageFormat, upTo[n - 1], pixels[n])
    IN upTo
CpuCrc(imageFormat, pixels) == Xor(AllOnes, CpuRegister(imageFormat, pixels)[Len(pixels)])

=============================================================================
