---------------------------- MODULE CrcReplies ------------------------------
(***************************************************************************)
(* The replies of dsp/dspmain_crc32.c, set against the CRC-32 as it is     *)
(* defined over whole messages, one division of polynomials, a polynomial  *)
(* being the set of the exponents of its terms; and against the one that   *)
(* gpp/dsptestsck.c computes.                                              *)
(***************************************************************************)
EXTENDS Crc32, TestCrc

(* x^32 + x^26 + ... + 1                                                   *)
Divisor == {32, 26, 23, 22, 16, 12, 11, 10, 8, 7, 5, 4, 2, 1, 0}

(* The remainders of a polynomial of fewer than n + 32 terms, from the     *)
(* highest term down, and the last of them.                                *)
Reduced(rest, top) ==
    IF top \in rest THEN Xor(rest, {e + top - 32 : e \in Divisor}) ELSE rest
Remainders(terms, n) ==
    LET rest[k \in 0..n] ==
            IF k = 0 THEN terms ELSE Reduced(rest[k - 1], n + 32 - k)
    IN rest
Division(terms, n) == Remainders(terms, n)[n]

(* The bits of an image, in the order of the message.                      *)
BitAt(im, i) == (i % (8 * Depth)) \in im[i \div (8 * Depth) + 1]
Size(im) == 8 * Depth * Len(im)
MessageBits(im) == {i \in 0..(Size(im) - 1) : BitAt(im, i)}

(* The message times x^32, its first 32 bits inverted.                     *)
Dividend(n, message) == Xor({n + 31 - i : i \in message}, n..(n + 31))

(* The remainder, read backwards and inverted.                             *)
CrcOf(n, message) == Xor(AllOnes, {31 - e : e \in Division(Dividend(n, message), n)})
DefinedCrc(im) == CrcOf(Size(im), MessageBits(im))

(* The reply to a request is the CRC-32 of the image's bytes, those of     *)
(* format 3 without the fourth of each pixel.                              *)
RepliesDefined == (pc = "idle" /\ image # <<>>) => reply = DefinedCrc(image)

(* The DSP's CRC is the one the test program computes on the ARM, which it *)
(* prints as "match": the two tables and the eight loops agree.            *)
TestMatches ==
    (pc = "idle" /\ image # <<>> /\ format \in 1..4) => reply = CpuCrc(format, image)

(* A reply of dspmain_crc32.c is the CRC-32 as it is defined and as        *)
(* dsptestsck recomputes it.                                               *)
RepliesRight == RepliesDefined /\ TestMatches

=============================================================================
