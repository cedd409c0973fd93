------------------------------ MODULE CrcWords ------------------------------
(***************************************************************************)
(* 32-bit words, as the sets of the numbers of the bits that are 1, and    *)
(* the CRC-32 by its definition: a register that takes a message a bit at  *)
(* a time, each byte's lowest first.                                       *)
(***************************************************************************)
EXTENDS Integers, Sequences

Bits == 0..31
Words == SUBSET Bits
Octets == SUBSET (0..7)
AllOnes == Bits

Xor(a, b) == (a \ b) \union (b \ a)
Shr(w, n) == {i \in Bits : i + n \in w}
Low(w) == w \intersect 0..7
Octet(w, k) == Low(Shr(w, 8 * k))

(* 0xEDB88320                                                              *)
Poly == {5, 8, 9, 15, 19, 20, 21, 23, 24, 26, 27, 29, 30, 31}

(* One bit of the message.                                                 *)
BitIn(c, one) == IF (0 \in c) # one THEN Xor(Shr(c, 1), Poly) ELSE Shr(c, 1)

OctetIn(c, b) ==
    BitIn(BitIn(BitIn(BitIn(BitIn(BitIn(BitIn(BitIn(c,
        0 \in b), 1 \in b), 2 \in b), 3 \in b),
        4 \in b), 5 \in b), 6 \in b), 7 \in b)

(* The n lowest bytes of a pixel, the lowest first, as they lie in memory. *)
PixelIn(c, w, n) ==
    LET one == OctetIn(c, Octet(w, 0))
        two == OctetIn(one, Octet(w, 1))
        three == OctetIn(two, Octet(w, 2))
    IN CASE n = 1 -> one
         [] n = 2 -> two
         [] n = 3 -> three
         [] n = 4 -> OctetIn(three, Octet(w, 3))

=============================================================================
