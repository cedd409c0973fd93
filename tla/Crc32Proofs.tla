---------------------------- MODULE Crc32Proofs -----------------------------
(***************************************************************************)
(* The table-driven CRC of Crc32 is the bit-serial one of CrcWords, for    *)
(* every word and every byte, and so for every image; and that one is the  *)
(* CRC-32 as it is defined, and the one the test program computes.         *)
(***************************************************************************)
EXTENDS CrcReplies, SequenceTheorems, TLAPS, NaturalsInduction,
        WellFoundedInduction

(* Induction, by the least number that would break it.                     *)
LEMMA NatInduct ==
  ASSUME NEW S \in SUBSET Nat, 0 \in S, \A n \in S : n + 1 \in S
  PROVE  Nat \subseteq S
<1> DEFINE T == Nat \ S
<1> SUFFICES ASSUME T # {} PROVE FALSE
  OBVIOUS
<1>1. PICK m \in T : \A n \in T : ~(<<n, m>> \in OpToRel(<, Nat))
  BY NatLessThanWellFounded, WFMin
<1>2. m \in Nat /\ m - 1 \in Nat /\ m - 1 < m /\ (m - 1) + 1 = m
  <2>1. m \in Nat /\ m # 0
    BY ONLY 0 \in S, m \in T
  <2> QED BY ONLY <2>1
<1>3. m - 1 \notin T
  BY <1>1, <1>2 DEF OpToRel
<1>4. (m - 1) + 1 \in S
  BY <1>2, <1>3
<1> QED BY <1>1, <1>2, <1>4

(* The operations stay within the words.                                   *)
LEMMA WordsClosed ==
    ASSUME NEW a \in Words, NEW b \in Words, NEW n \in Nat
    PROVE  /\ Xor(a, b) \in Words /\ Shr(a, n) \in Words
           /\ Low(a) \in Octets /\ Low(a) \in Words /\ Poly \in Words
           /\ Shifted(a) \in Words
<1>1. Xor(a, b) \in Words
  BY DEF Words, Xor
<1>2. \A m \in Nat : Shr(a, m) \in Words
  BY DEF Words, Shr
<1>3. Low(a) \in Octets /\ Low(a) \in Words
  BY DEF Words, Octets, Low
<1>4. Poly \in Words
  BY DEF Words, Bits, Poly
<1>5. \A w \in Words : Xor(w, Poly) \in Words
  BY <1>4 DEF Words, Xor
<1>6. Shr(a, 1) \in Words
  BY <1>2
<1>7. Shifted(a) \in Words
  BY <1>5, <1>6 DEF Shifted
<1> QED BY <1>1, <1>2, <1>3, <1>4, <1>7

LEMMA BitInClosed ==
    ASSUME NEW a \in Words, NEW one
    PROVE  BitIn(a, one) \in Words
BY WordsClosed DEF BitIn

LEMMA OctetInClosed ==
    ASSUME NEW a \in Words, NEW b
    PROVE  OctetIn(a, b) \in Words
BY BitInClosed DEF OctetIn

(* One step of gen_table on a register with a byte added to it is one bit  *)
(* taken, with the rest of the byte still to come.                         *)
LEMMA ShiftTakesBit ==
    ASSUME NEW c \in Words, NEW b \in Words
    PROVE  Shifted(Xor(c, b)) = Xor(BitIn(c, 0 \in b), Shr(b, 1))
<1>1. (0 \in Xor(c, b)) <=> ((0 \in c) # (0 \in b))
    BY DEF Xor
<1>2. Shr(Xor(c, b), 1) = Xor(Shr(c, 1), Shr(b, 1))
    BY DEF Xor, Shr
<1>3. Xor(Xor(Shr(c, 1), Shr(b, 1)), Poly) = Xor(Xor(Shr(c, 1), Poly), Shr(b, 1))
    BY DEF Xor
<1>. QED BY <1>1, <1>2, <1>3 DEF Shifted, BitIn

(* The eight steps of gen_table do the same with a whole byte.             *)
LEMMA RemainderTakesByte ==
    ASSUME NEW c \in Words, NEW b \in Octets
    PROVE  Remainder(Xor(c, b)) = OctetIn(c, b)
<1> DEFINE c1 == BitIn(c, 0 \in b)
           c2 == BitIn(c1, 1 \in b)
           c3 == BitIn(c2, 2 \in b)
           c4 == BitIn(c3, 3 \in b)
           c5 == BitIn(c4, 4 \in b)
           c6 == BitIn(c5, 5 \in b)
           c7 == BitIn(c6, 6 \in b)
           c8 == BitIn(c7, 7 \in b)
<1>0. b \in Words
    BY DEF Octets, Words, Bits
<1>w. /\ c1 \in Words /\ c2 \in Words /\ c3 \in Words /\ c4 \in Words
      /\ c5 \in Words /\ c6 \in Words /\ c7 \in Words /\ c8 \in Words
    <2>1. c1 \in Words BY BitInClosed
    <2>2. c2 \in Words BY <2>1, BitInClosed
    <2>3. c3 \in Words BY <2>2, BitInClosed
    <2>4. c4 \in Words BY <2>3, BitInClosed
    <2>5. c5 \in Words BY <2>4, BitInClosed
    <2>6. c6 \in Words BY <2>5, BitInClosed
    <2>7. c7 \in Words BY <2>6, BitInClosed
    <2>8. c8 \in Words BY <2>7, BitInClosed
    <2>. QED BY <2>1, <2>2, <2>3, <2>4, <2>5, <2>6, <2>7, <2>8
<1>s. \A n \in Nat : Shr(b, n) \in Words
    BY <1>0, WordsClosed
<1>n. \A n \in 1..7 : /\ (0 \in Shr(b, n)) <=> (n \in b)
                      /\ Shr(Shr(b, n), 1) = Shr(b, n + 1)
    BY <1>0 DEF Shr, Bits, Words
<1>1. Shifted(Xor(c, b)) = Xor(c1, Shr(b, 1))
    BY <1>0, ShiftTakesBit
<1> HIDE DEF c1, c2, c3, c4, c5, c6, c7, c8
<1>2. Shifted(Xor(c1, Shr(b, 1))) = Xor(c2, Shr(b, 2))
    BY <1>w, <1>s, <1>n, ShiftTakesBit DEF c2
<1>3. Shifted(Xor(c2, Shr(b, 2))) = Xor(c3, Shr(b, 3))
    BY <1>w, <1>s, <1>n, ShiftTakesBit DEF c3
<1>4. Shifted(Xor(c3, Shr(b, 3))) = Xor(c4, Shr(b, 4))
    BY <1>w, <1>s, <1>n, ShiftTakesBit DEF c4
<1>5. Shifted(Xor(c4, Shr(b, 4))) = Xor(c5, Shr(b, 5))
    BY <1>w, <1>s, <1>n, ShiftTakesBit DEF c5
<1>6. Shifted(Xor(c5, Shr(b, 5))) = Xor(c6, Shr(b, 6))
    BY <1>w, <1>s, <1>n, ShiftTakesBit DEF c6
<1>7. Shifted(Xor(c6, Shr(b, 6))) = Xor(c7, Shr(b, 7))
    BY <1>w, <1>s, <1>n, ShiftTakesBit DEF c7
<1>8. Shifted(Xor(c7, Shr(b, 7))) = Xor(c8, Shr(b, 8))
    BY <1>w, <1>s, <1>n, ShiftTakesBit DEF c8
<1>9. Xor(c8, Shr(b, 8)) = c8
    <2>0. \A i \in Bits : i + 8 \notin b
        BY DEF Bits, Octets
    <2>1. Shr(b, 8) = {}
        BY <2>0 DEF Shr
    <2>. QED BY <2>1 DEF Xor
<1>10. c8 = OctetIn(c, b)
    BY DEF c1, c2, c3, c4, c5, c6, c7, c8, OctetIn
<1>. QED BY <1>1, <1>2, <1>3, <1>4, <1>5, <1>6, <1>7, <1>8, <1>9, <1>10 DEF Remainder

(* On a word without a low byte eight steps are a shift by eight; and the  *)
(* steps are linear.                                                       *)
LEMMA ShiftedLinear ==
    ASSUME NEW a \in Words, NEW b \in Words, 0 \notin b
    PROVE  Shifted(Xor(a, b)) = Xor(Shifted(a), Shr(b, 1))
<1>1. (0 \in Xor(a, b)) <=> (0 \in a)
    BY DEF Xor
<1>2. Shr(Xor(a, b), 1) = Xor(Shr(a, 1), Shr(b, 1))
    BY DEF Xor, Shr
<1>3. Xor(Xor(Shr(a, 1), Shr(b, 1)), Poly) = Xor(Xor(Shr(a, 1), Poly), Shr(b, 1))
    BY DEF Xor
<1>. QED BY <1>1, <1>2, <1>3 DEF Shifted

LEMMA RemainderOfHigh ==
    ASSUME NEW a \in Words, NEW b \in Words, Low(b) = {}
    PROVE  Remainder(Xor(a, b)) = Xor(Remainder(a), Shr(b, 8))
<1> DEFINE a1 == Shifted(a)
           a2 == Shifted(a1)
           a3 == Shifted(a2)
           a4 == Shifted(a3)
           a5 == Shifted(a4)
           a6 == Shifted(a5)
           a7 == Shifted(a6)
           a8 == Shifted(a7)
<1>w. /\ a1 \in Words /\ a2 \in Words /\ a3 \in Words /\ a4 \in Words
      /\ a5 \in Words /\ a6 \in Words /\ a7 \in Words /\ a8 \in Words
    BY WordsClosed
<1>s. \A n \in Nat : Shr(b, n) \in Words
    BY WordsClosed
<1>n. \A n \in 1..7 : /\ 0 \notin Shr(b, n)
                      /\ Shr(Shr(b, n), 1) = Shr(b, n + 1)
    BY DEF Shr, Bits, Words, Low
<1>0. 0 \notin b
    BY DEF Low
<1>1. Shifted(Xor(a, b)) = Xor(a1, Shr(b, 1))
    BY <1>0, ShiftedLinear
<1> HIDE DEF a1, a2, a3, a4, a5, a6, a7, a8
<1>2. Shifted(Xor(a1, Shr(b, 1))) = Xor(a2, Shr(b, 2))
    BY <1>w, <1>s, <1>n, ShiftedLinear DEF a2
<1>3. Shifted(Xor(a2, Shr(b, 2))) = Xor(a3, Shr(b, 3))
    BY <1>w, <1>s, <1>n, ShiftedLinear DEF a3
<1>4. Shifted(Xor(a3, Shr(b, 3))) = Xor(a4, Shr(b, 4))
    BY <1>w, <1>s, <1>n, ShiftedLinear DEF a4
<1>5. Shifted(Xor(a4, Shr(b, 4))) = Xor(a5, Shr(b, 5))
    BY <1>w, <1>s, <1>n, ShiftedLinear DEF a5
<1>6. Shifted(Xor(a5, Shr(b, 5))) = Xor(a6, Shr(b, 6))
    BY <1>w, <1>s, <1>n, ShiftedLinear DEF a6
<1>7. Shifted(Xor(a6, Shr(b, 6))) = Xor(a7, Shr(b, 7))
    BY <1>w, <1>s, <1>n, ShiftedLinear DEF a7
<1>8. Shifted(Xor(a7, Shr(b, 7))) = Xor(a8, Shr(b, 8))
    BY <1>w, <1>s, <1>n, ShiftedLinear DEF a8
<1>9. a8 = Remainder(a)
    BY DEF a1, a2, a3, a4, a5, a6, a7, a8, Remainder
<1>. QED BY <1>1, <1>2, <1>3, <1>4, <1>5, <1>6, <1>7, <1>8, <1>9 DEF Remainder

(* A look at the table is a byte taken by the register, for every byte of  *)
(* every pixel, whatever the register holds.                               *)
THEOREM LookTakesByte ==
    ASSUME tab = TableOf, NEW c \in Words, NEW w \in Words
    PROVE  Look(c, w) = OctetIn(c, Low(w))
<1> DEFINE low == Low(Xor(w, c))
           high == c \ (0..7)
<1>1. low \in Octets /\ low \in Words /\ high \in Words /\ Low(w) \in Octets
    BY WordsClosed DEF Words
<1>2. tab[low] = Remainder(low)
    BY <1>1 DEF TableOf
<1>3. Low(high) = {} /\ Shr(high, 8) = Shr(c, 8)
    BY DEF Low, Shr, Bits
<1>4. Xor(low, high) = Xor(c, Low(w))
    BY DEF Xor, Low
<1>5. Remainder(Xor(low, high)) = Xor(Remainder(low), Shr(high, 8))
    BY <1>1, <1>3, RemainderOfHigh
<1>6. Remainder(Xor(c, Low(w))) = OctetIn(c, Low(w))
    BY <1>1, RemainderTakesByte
<1>. QED BY <1>2, <1>3, <1>4, <1>5, <1>6 DEF Look

(***************************************************************************)
(* The state machine.                                                      *)
(***************************************************************************)

(* A pixel taken through the table is its bits taken one by one.           *)
LEMMA UpdateTakesPixel ==
    ASSUME tab = TableOf, NEW c \in Words, NEW w \in Words
    PROVE  Update(c, w) = PixelIn(c, w, Depth)
<1>0. Shr(w, 0) = w
    <2>1. \A i \in Bits : i + 0 = i
        BY DEF Bits
    <2>2. Shr(w, 0) = {i \in Bits : i \in w}
        BY <2>1 DEF Shr
    <2>. QED BY <2>2 DEF Words
<1>s. \A n \in Nat : Shr(w, n) \in Words
    BY WordsClosed
<1> DEFINE one == OctetIn(c, Octet(w, 0))
           two == OctetIn(one, Octet(w, 1))
           three == OctetIn(two, Octet(w, 2))
           four == OctetIn(three, Octet(w, 3))
<1>w. one \in Words /\ two \in Words /\ three \in Words
    BY OctetInClosed
<1>k. /\ Octet(w, 0) = Low(w) /\ Octet(w, 1) = Low(Shr(w, 8))
      /\ Octet(w, 2) = Low(Shr(w, 16)) /\ Octet(w, 3) = Low(Shr(w, 24))
    BY <1>0 DEF Octet
<1>1. Update8(c, w) = one
    BY <1>k, LookTakesByte DEF Update8
<1> HIDE DEF one, two, three, four
<1>2. Update16(c, w) = two
    BY <1>1, <1>k, <1>w, <1>s, LookTakesByte DEF Update16, two
<1>3. Update24(c, w) = three
    BY <1>2, <1>k, <1>w, <1>s, LookTakesByte DEF Update24, three
<1>4. Update32(c, w) = four
    BY <1>3, <1>k, <1>w, <1>s, LookTakesByte DEF Update32, four
<1>5. PixelIn(c, w, Depth) = CASE Depth = 1 -> one [] Depth = 2 -> two
                               [] Depth = 3 -> three [] Depth = 4 -> four
    BY DEF PixelIn, one, two, three, four
<1>7. CASE format = 4
    BY <1>7, <1>4, <1>5 DEF Update, Depth
<1>9. CASE format = 3
    BY <1>9, <1>3, <1>5 DEF Update, Depth
<1>10. CASE format = 2
    BY <1>10, <1>2, <1>5 DEF Update, Depth
<1>11. CASE format \notin {2, 3, 4}
    <2>1. Depth = 1
        BY <1>11 DEF Depth
    <2>. QED BY <1>11, <2>1, <1>1, <1>5 DEF Update
<1>. QED BY <1>7, <1>9, <1>10, <1>11

(* Whatever is processed, the table has been generated.                    *)
Inv == CrcTypeOK /\ (pc = "process" => tab = TableOf)

LEMMA UpdateClosed ==
    ASSUME tab = TableOf, NEW c \in Words, NEW w \in Words
    PROVE  Update(c, w) \in Words
<1>3. Depth \in 1..4
    BY DEF Depth
<1>4. PixelIn(c, w, Depth) \in Words
    BY <1>3, OctetInClosed DEF PixelIn
<1>. QED BY <1>4, UpdateTakesPixel

LEMMA InvInit == CrcInit => Inv
<1>1. {} \in Words /\ AllOnes \in Words
    BY DEF Words, AllOnes
<1>. QED BY <1>1, Crc32Assumption DEF CrcInit, Inv, CrcTypeOK

LEMMA InvStep == Inv /\ [CrcNext]_crcVars => Inv'
<1>0. /\ {} \in Words /\ AllOnes \in Words
      /\ \A c \in Words : Xor(AllOnes, c) \in Words
    BY WordsClosed DEF Words, AllOnes
<1>1. SUFFICES ASSUME Inv, [CrcNext]_crcVars PROVE Inv'
    OBVIOUS
<1>2. CASE Begin
    BY <1>0, <1>1, <1>2, Crc32Assumption DEF Begin, Inv, CrcTypeOK
<1>3. CASE Setup
    <2>1. TableOf \in [Octets -> Words]
        <3>1. \A b \in Octets : b \in Words
            BY DEF Octets, Words, Bits
        <3>2. \A b \in Words : Remainder(b) \in Words
            BY WordsClosed DEF Remainder
        <3>. QED BY <3>1, <3>2 DEF TableOf
    <2>. QED BY <1>1, <1>3, <2>1 DEF Setup, Inv, CrcTypeOK
<1>4. CASE Process
    <2>1. Head(left) \in Words /\ Tail(left) \in Seq(Words)
        BY <1>1, <1>4 DEF Process, Inv, CrcTypeOK
    <2>2. Update(crc, Head(left)) \in Words
        BY <1>1, <1>4, <2>1, UpdateClosed DEF Process, Inv, CrcTypeOK
    <2>. QED BY <1>1, <1>4, <2>1, <2>2 DEF Process, Inv, CrcTypeOK
<1>5. CASE Finish
    BY <1>0, <1>1, <1>5 DEF Finish, Inv, CrcTypeOK
<1>6. CASE UNCHANGED crcVars
    BY <1>1, <1>6 DEF crcVars, Inv, CrcTypeOK
<1>. QED BY <1>1, <1>2, <1>3, <1>4, <1>5, <1>6 DEF CrcNext

LEMMA Invariant == CrcSpec => []Inv
BY InvInit, InvStep, PTL DEF CrcSpec

(* The state of dspmain_crc32.c keeps its shape.                           *)
THEOREM TypeCorrect == CrcSpec => []CrcTypeOK
<1>1. Inv => CrcTypeOK
    BY DEF Inv
<1>. QED BY <1>1, Invariant, PTL

(* The instance of BitCrc has the words and the register of CrcWords.      *)
LEMMA SameWords == Serial!Words = Words /\ Serial!AllOnes = AllOnes
BY DEF Serial!Words, Words, Serial!AllOnes, AllOnes, Serial!Bits, Bits

LEMMA SameBitIn ==
    ASSUME NEW c, NEW one
    PROVE  Serial!BitIn(c, one) = BitIn(c, one)
<1>1. \A w : \A n \in Nat : Serial!Shr(w, n) = Shr(w, n)
    BY DEF Serial!Shr, Shr, Serial!Bits, Bits
<1>2. \A a, b : Serial!Xor(a, b) = Xor(a, b)
    BY DEF Serial!Xor, Xor
<1>3. Serial!Poly = Poly
    BY DEF Serial!Poly, Poly
<1>. QED BY <1>1, <1>2, <1>3 DEF Serial!BitIn, BitIn

LEMMA SamePixelIn ==
    ASSUME NEW c, NEW w, NEW n \in 1..4
    PROVE  Serial!PixelIn(c, w, n) = PixelIn(c, w, n)
<1>1. \A a, b : Serial!OctetIn(a, b) = OctetIn(a, b)
    BY SameBitIn DEF Serial!OctetIn, OctetIn
<1>2. \A k : Serial!Octet(w, k) = Octet(w, k)
    BY DEF Serial!Octet, Octet, Serial!Low, Low, Serial!Shr, Shr, Serial!Bits, Bits
<1>3. CASE n = 1 BY <1>1, <1>2, <1>3 DEF Serial!PixelIn, PixelIn
<1>4. CASE n = 2 BY <1>1, <1>2, <1>4 DEF Serial!PixelIn, PixelIn
<1>5. CASE n = 3 BY <1>1, <1>2, <1>5 DEF Serial!PixelIn, PixelIn
<1>6. CASE n = 4 BY <1>1, <1>2, <1>6 DEF Serial!PixelIn, PixelIn
<1>. QED BY <1>3, <1>4, <1>5, <1>6

(* The table-driven loops implement the bit-serial CRC of BitCrc.          *)
THEOREM Refines == CrcSpec => ImplementsBitCrc
<1>1. CrcInit => Serial!Init
    <2>1. SUFFICES ASSUME CrcInit PROVE Serial!Init
        OBVIOUS
    <2>2. Depth \in 1..4
        BY DEF Depth
    <2>3. (pc # "idle") = FALSE
        BY <2>1 DEF CrcInit
    <2>4. left = <<>> /\ crc = AllOnes
        BY <2>1 DEF CrcInit
    <2>. QED BY <2>2, <2>3, <2>4, SameWords DEF Serial!Init
<1>2. Inv /\ [CrcNext]_crcVars => [Serial!Next]_(Serial!vars)
    <2>1. SUFFICES ASSUME Inv, [CrcNext]_crcVars PROVE [Serial!Next]_(Serial!vars)
        OBVIOUS
    <2>2. CASE Begin
        <3>1. Depth' \in 1..4
            BY <2>1, <2>2, Crc32Assumption DEF Begin, Depth
        <3>2. left' \in Seq(Words) /\ crc' = AllOnes
            BY <2>2, Crc32Assumption DEF Begin
        <3>3. ~(pc # "idle")
            BY <2>2 DEF Begin
        <3>5. (pc # "idle")' = TRUE
            <4>1. pc' # "idle"
                BY <2>2 DEF Begin
            <4>. QED BY <4>1
        <3>4. Serial!Begin
            BY <3>1, <3>2, <3>3, <3>5, SameWords DEF Serial!Begin
        <3>. QED BY <3>4 DEF Serial!Next
    <2>3. CASE Setup
        BY <2>3 DEF Setup, Serial!vars, Depth
    <2>4. CASE Process
        <3>1. crc' = PixelIn(crc, Head(left), Depth)
            BY <2>1, <2>4, UpdateTakesPixel DEF Process, Inv, CrcTypeOK
        <3>2. /\ pc # "idle" /\ left # <<>> /\ left' = Tail(left)
              /\ Depth' = Depth /\ (pc # "idle")' = (pc # "idle")
            BY <2>4 DEF Process, Depth
        <3>4. Depth \in 1..4
            BY DEF Depth
        <3>3. Serial!Take
            BY <3>1, <3>2, <3>4, SamePixelIn DEF Serial!Take
        <3>. QED BY <3>3 DEF Serial!Next
    <2>5. CASE Finish
        <3>1. Serial!End
            BY <2>5 DEF Finish, Serial!End, Depth
        <3>. QED BY <3>1 DEF Serial!Next
    <2>6. CASE UNCHANGED crcVars
        BY <2>6 DEF crcVars, Serial!vars, Depth
    <2>. QED BY <2>1, <2>2, <2>3, <2>4, <2>5, <2>6 DEF CrcNext
<1>. QED BY <1>1, <1>2, Invariant, PTL DEF CrcSpec, ImplementsBitCrc, Serial!Spec

(***************************************************************************)
(* The register and the division.                                          *)
(***************************************************************************)

(* After k bits of a message of n the register holds the 32 highest terms  *)
(* of the remainder, backwards, without the message's part in them; the    *)
(* terms below are the message's.                                          *)
Agrees(rest, k, c, n, message) ==
    /\ rest \subseteq Int
    /\ \A f \in Int : (n + 31 - f \in rest) <=> ((f - k \in c) # (f >= k /\ f \in message))

LEMMA PolyIsDivisor ==
    ASSUME NEW j \in Int
    PROVE  (j \in Poly) <=> (31 - j \in Divisor /\ j # -1)
BY DEF Poly, Divisor

LEMMA ReducedHas ==
    ASSUME NEW rest, rest \subseteq Int, NEW top \in Int, NEW e \in Int
    PROVE  /\ Reduced(rest, top) \subseteq Int
           /\ top \notin rest => ((e \in Reduced(rest, top)) <=> (e \in rest))
           /\ top \in rest =>
                ((e \in Reduced(rest, top)) <=> ((e \in rest) # (e - top + 32 \in Divisor)))
<1> DEFINE D == {d + top - 32 : d \in Divisor}
<1>1. (e \in D) <=> (e - top + 32 \in Divisor)
    <2>1. \A d \in Divisor : d \in Int
        BY DEF Divisor
    <2>2. \A d \in Int : (e = d + top - 32) <=> (d = e - top + 32)
        OBVIOUS
    <2>3. e - top + 32 \in Int
        OBVIOUS
    <2>. QED BY <2>1, <2>2, <2>3
<1>2. D \subseteq Int
    <2>1. \A d \in Divisor : d + top - 32 \in Int
        BY DEF Divisor
    <2>. QED BY <2>1
<1> HIDE DEF D
<1>3. Reduced(rest, top) = IF top \in rest THEN Xor(rest, D) ELSE rest
    BY DEF Reduced, D
<1>. QED BY <1>1, <1>2, <1>3 DEF Xor

(* One bit more.                                                           *)
LEMMA OneBit ==
    ASSUME NEW n \in Int, NEW k \in Int, NEW c \in Words, NEW rest, NEW message,
           Agrees(rest, k, c, n, message)
    PROVE  Agrees(Reduced(rest, n + 31 - k), k + 1, BitIn(c, k \in message), n, message)
<1> DEFINE top == n + 31 - k
           one == BitIn(c, k \in message)
           less == Reduced(rest, top)
<1>1. top \in Int /\ rest \subseteq Int
    BY DEF Agrees
<1>2. (top \in rest) <=> ((0 \in c) # (k \in message))
    <2>1. (n + 31 - k \in rest) <=> ((k - k \in c) # (k >= k /\ k \in message))
        BY DEF Agrees
    <2>2. k - k = 0 /\ k >= k
        OBVIOUS
    <2>. QED BY <2>1, <2>2
<1>3. less \subseteq Int
    BY <1>1, ReducedHas
<1>4. ASSUME NEW f \in Int
      PROVE  (n + 31 - f \in less) <=> ((f - (k + 1) \in one) # (f >= k + 1 /\ f \in message))
    <2> DEFINE e == n + 31 - f
               j == f - (k + 1)
    <2>1. /\ e \in Int /\ j \in Int /\ e - top + 32 = 31 - j
          /\ f - k = j + 1 /\ (f = k <=> j = -1) /\ (f >= k <=> (f >= k + 1 \/ f = k))
        OBVIOUS
    <2>2. (e \in rest) <=> ((j + 1 \in c) # (f >= k /\ f \in message))
        BY <2>1 DEF Agrees
    <2>3. (j \in Shr(c, 1)) <=> (j + 1 \in c /\ j # -1)
        BY <2>1 DEF Shr, Words, Bits
    <2>4. (j \in Poly) <=> (31 - j \in Divisor /\ j # -1)
        BY <2>1, PolyIsDivisor
    <2>5. j = -1 => 31 - j \in Divisor /\ j + 1 = 0 /\ f = k /\ ~(f >= k + 1)
        BY <2>1 DEF Divisor
    <2>6. /\ top \notin rest => ((e \in less) <=> (e \in rest))
          /\ top \in rest => ((e \in less) <=> ((e \in rest) # (31 - j \in Divisor)))
        <3> HIDE DEF e, top
        <3>1. /\ top \notin rest => ((e \in less) <=> (e \in rest))
              /\ top \in rest =>
                    ((e \in less) <=> ((e \in rest) # (e - top + 32 \in Divisor)))
            BY <1>1, <2>1, ReducedHas
        <3> HIDE DEF less, j
        <3>. QED BY <2>1, <3>1
    <2>7. one = IF top \in rest THEN Xor(Shr(c, 1), Poly) ELSE Shr(c, 1)
        BY <1>2 DEF BitIn
    <2>8. (j \in one) <=> IF top \in rest THEN (j \in Shr(c, 1)) # (j \in Poly) ELSE j \in Shr(c, 1)
        BY <2>7 DEF Xor
    <2> HIDE DEF e, j, top, one, less
    <2>9. (e \in less) <=> ((j \in one) # (f >= k + 1 /\ f \in message))
        <3>1. CASE j = -1
            BY <1>2, <2>1, <2>2, <2>3, <2>4, <2>5, <2>6, <2>8, <3>1
        <3>2. CASE j # -1
            BY <2>1, <2>2, <2>3, <2>4, <2>6, <2>8, <3>2
        <3>. QED BY <3>1, <3>2
    <2>. QED BY <2>9 DEF e, j
<1>. QED BY <1>3, <1>4 DEF Agrees

(* The remainders are what their definition says of each of them.          *)
LEMMA RemaindersUnrolled ==
    ASSUME NEW terms, NEW n \in Nat
    PROVE  /\ Remainders(terms, n)[0] = terms
           /\ \A k \in 1..n :
                Remainders(terms, n)[k] = Reduced(Remainders(terms, n)[k - 1], n + 32 - k)
<1> DEFINE Next1(f, k) == IF k = 0 THEN terms ELSE Reduced(f[k - 1], n + 32 - k)
           Upto(f, m) == f = [k \in 0..m |-> Next1(f, k)]
           G == {m \in Nat : \E f : Upto(f, m)}
<1>1. 0 \in G
    <2> DEFINE f == [k \in 0..0 |-> terms]
    <2>1. f = [k \in 0..0 |-> Next1(f, k)]
        OBVIOUS
    <2>. QED BY <2>1
<1>2. ASSUME NEW m \in G
      PROVE  m + 1 \in G
    <2>1. m \in Nat
        OBVIOUS
    <2>2. PICK f : Upto(f, m)
        OBVIOUS
    <2> DEFINE g == [k \in 0..(m + 1) |-> IF k = m + 1 THEN Next1(f, k) ELSE f[k]]
    <2>3. ASSUME NEW k \in 0..(m + 1)
          PROVE  g[k] = Next1(g, k)
        <3>1. CASE k = 0
            BY <2>1, <2>2, <3>1
        <3>2. CASE k # 0
            <4>1. k - 1 \in 0..m /\ k - 1 \in 0..(m + 1) /\ k - 1 # m + 1
                BY <2>1, <3>2
            <4>2. g[k - 1] = f[k - 1]
                BY <4>1
            <4>3. Next1(g, k) = Next1(f, k)
                BY <4>2
            <4>4. k # m + 1 => k \in 0..m /\ f[k] = Next1(f, k)
                BY <2>1, <2>2
            <4>. QED BY <4>3, <4>4
        <3>. QED BY <3>1, <3>2
    <2>4. g = [k \in 0..(m + 1) |-> g[k]]
        OBVIOUS
    <2> HIDE DEF g
    <2>5. Upto(g, m + 1)
        BY <2>3, <2>4
    <2>6. m + 1 \in Nat
        BY <2>1
    <2> HIDE DEF Upto
    <2>7. \E e : Upto(e, m + 1)
        BY <2>5
    <2>. QED BY <2>6, <2>7
<1>3. Nat \subseteq G
    <2> HIDE DEF G
    <2>. QED BY <1>1, <1>2, NatInduct DEF G
<1>4. \E f : Upto(f, n)
    BY <1>3
<1> DEFINE h == CHOOSE f : Upto(f, n)
<1>5. Upto(h, n)
    BY <1>4, Zenon
<1>6. Remainders(terms, n) = h
    BY Zenon DEF Remainders
<1> HIDE DEF h
<1>7. h[0] = terms
    BY <1>5
<1>8. \A k \in 1..n : h[k] = Reduced(h[k - 1], n + 32 - k)
    BY <1>5
<1>. QED BY <1>6, <1>7, <1>8

(* A byte more.                                                            *)
LEMMA OneOctet ==
    ASSUME NEW n \in Nat, NEW k \in Nat, k + 8 <= n, NEW c \in Words, NEW message, NEW terms,
           NEW b, \A j \in 0..7 : (j \in b) <=> (k + j \in message),
           Agrees(Remainders(terms, n)[k], k, c, n, message)
    PROVE  Agrees(Remainders(terms, n)[k + 8], k + 8, OctetIn(c, b), n, message)
<1> DEFINE r == Remainders(terms, n)
           c1 == BitIn(c, 0 \in b)
           c2 == BitIn(c1, 1 \in b)
           c3 == BitIn(c2, 2 \in b)
           c4 == BitIn(c3, 3 \in b)
           c5 == BitIn(c4, 4 \in b)
           c6 == BitIn(c5, 5 \in b)
           c7 == BitIn(c6, 6 \in b)
           c8 == BitIn(c7, 7 \in b)
<1>w. /\ c1 \in Words /\ c2 \in Words /\ c3 \in Words /\ c4 \in Words
      /\ c5 \in Words /\ c6 \in Words /\ c7 \in Words
    <2>1. c1 \in Words BY BitInClosed
    <2> HIDE DEF c1
    <2>2. c2 \in Words BY <2>1, BitInClosed
    <2> HIDE DEF c2
    <2>3. c3 \in Words BY <2>2, BitInClosed
    <2> HIDE DEF c3
    <2>4. c4 \in Words BY <2>3, BitInClosed
    <2> HIDE DEF c4
    <2>5. c5 \in Words BY <2>4, BitInClosed
    <2> HIDE DEF c5
    <2>6. c6 \in Words BY <2>5, BitInClosed
    <2> HIDE DEF c6
    <2>7. c7 \in Words BY <2>6, BitInClosed
    <2>. QED BY <2>1, <2>2, <2>3, <2>4, <2>5, <2>6, <2>7
<1> HIDE DEF r, c1, c2, c3, c4, c5, c6, c7, c8
<1>1. ASSUME NEW j \in 0..7, NEW d \in Words, Agrees(r[k + j], k + j, d, n, message)
      PROVE  Agrees(r[k + (j + 1)], k + (j + 1), BitIn(d, j \in b), n, message)
    <2> DEFINE m == k + j
    <2>1. /\ m \in Int /\ m + 1 \in 1..n /\ (m + 1) - 1 = m /\ m + 1 = k + (j + 1)
          /\ n + 32 - (m + 1) = n + 31 - m /\ n \in Int
        OBVIOUS
    <2>2. (m \in message) = (j \in b)
        OBVIOUS
    <2> HIDE DEF m
    <2>3. \A i \in 1..n : r[i] = Reduced(r[i - 1], n + 32 - i)
        BY RemaindersUnrolled DEF r
    <2>4. r[m + 1] = Reduced(r[m], n + 31 - m)
        BY <2>1, <2>3
    <2>5. Agrees(r[m], m, d, n, message)
        BY <1>1 DEF m
    <2>6. Agrees(Reduced(r[m], n + 31 - m), m + 1, BitIn(d, m \in message), n, message)
        BY ONLY <1>1, <2>1, <2>5, OneBit
    <2>. QED BY <2>1, <2>2, <2>4, <2>6
<1>2. Agrees(r[k + 0], k + 0, c, n, message)
    BY DEF r
<1>3. Agrees(r[k + 1], k + 1, c1, n, message)
    BY <1>1, <1>2 DEF c1
<1>4. Agrees(r[k + 2], k + 2, c2, n, message)
    BY <1>1, <1>3, <1>w DEF c2
<1>5. Agrees(r[k + 3], k + 3, c3, n, message)
    BY <1>1, <1>4, <1>w DEF c3
<1>6. Agrees(r[k + 4], k + 4, c4, n, message)
    BY <1>1, <1>5, <1>w DEF c4
<1>7. Agrees(r[k + 5], k + 5, c5, n, message)
    BY <1>1, <1>6, <1>w DEF c5
<1>8. Agrees(r[k + 6], k + 6, c6, n, message)
    BY <1>1, <1>7, <1>w DEF c6
<1>9. Agrees(r[k + 7], k + 7, c7, n, message)
    BY <1>1, <1>8, <1>w DEF c7
<1>10. Agrees(r[k + 8], k + 8, c8, n, message)
    BY <1>1, <1>9, <1>w DEF c8
<1>11. c8 = OctetIn(c, b)
    BY DEF c1, c2, c3, c4, c5, c6, c7, c8, OctetIn
<1>. QED BY <1>10, <1>11 DEF r

(* Where a pixel's bits are in the message.                                *)
LEMMA PlaceOfBit ==
    ASSUME NEW t \in Nat, NEW x \in Nat
    PROVE  /\ x < 8 => (8 * t + x) % 8 = x /\ (8 * t + x) \div 8 = t
           /\ x < 16 => (16 * t + x) % 16 = x /\ (16 * t + x) \div 16 = t
           /\ x < 24 => (24 * t + x) % 24 = x /\ (24 * t + x) \div 24 = t
           /\ x < 32 => (32 * t + x) % 32 = x /\ (32 * t + x) \div 32 = t
OBVIOUS

LEMMA BitOfPixel ==
    ASSUME NEW im \in Seq(Words), NEW t \in Nat, t < Len(im), NEW o \in 0..(Depth - 1),
           NEW j \in 0..7
    PROVE  /\ (j \in Octet(im[t + 1], o)) <=> (8 * Depth * t + 8 * o + j \in MessageBits(im))
           /\ 8 * Depth * t + 8 * o + 8 <= Size(im)
<1> DEFINE D == Depth
           x == 8 * o + j
           i == 8 * D * t + x
           len == Len(im)
           w == im[t + 1]
<1>1. D \in {1, 2, 3, 4} /\ len \in Nat /\ t < len
    BY LenProperties DEF Depth
<1>2. /\ o \in 0..(D - 1) /\ x \in Nat /\ x < 8 * D /\ x <= 31
    BY <1>1
<1>3. /\ i = 8 * D * t + 8 * o + j /\ i \in 0..(8 * D * len - 1)
      /\ i % (8 * D) = x /\ i \div (8 * D) = t
      /\ 8 * D * t + 8 * o + 8 <= 8 * D * len
    <2>1. CASE D = 1
        BY <1>1, <1>2, <2>1, PlaceOfBit
    <2>2. CASE D = 2
        BY <1>1, <1>2, <2>2, PlaceOfBit
    <2>3. CASE D = 3
        BY <1>1, <1>2, <2>3, PlaceOfBit
    <2>4. CASE D = 4
        BY <1>1, <1>2, <2>4, PlaceOfBit
    <2>. QED BY <1>1, <2>1, <2>2, <2>3, <2>4
<1>4. (j \in Octet(w, o)) <=> (x \in w)
    <2>1. j \in Bits /\ 8 * o + j = j + 8 * o
        BY <1>1 DEF Bits
    <2>. QED BY <2>1 DEF Octet, Low, Shr
<1> HIDE DEF x, len, w
<1>5. (i \in MessageBits(im)) <=> (x \in w)
    BY <1>3 DEF MessageBits, BitAt, Size, len, w
<1>. QED BY <1>3, <1>4, <1>5 DEF Size, len, w

(* A pixel more.                                                           *)
LEMMA OnePixel ==
    ASSUME NEW im \in Seq(Words), NEW t \in Nat, t < Len(im), NEW c \in Words, NEW terms,
           Agrees(Remainders(terms, Size(im))[8 * Depth * t], 8 * Depth * t, c,
                  Size(im), MessageBits(im))
    PROVE  Agrees(Remainders(terms, Size(im))[8 * Depth * (t + 1)], 8 * Depth * (t + 1),
                  PixelIn(c, im[t + 1], Depth), Size(im), MessageBits(im))
<1> DEFINE n == Size(im)
           message == MessageBits(im)
           w == im[t + 1]
           k == 8 * Depth * t
           r == Remainders(terms, n)
           one == OctetIn(c, Octet(w, 0))
           two == OctetIn(one, Octet(w, 1))
           three == OctetIn(two, Octet(w, 2))
           four == OctetIn(three, Octet(w, 3))
<1>1. Depth \in 1..4 /\ Len(im) \in Nat
    BY LenProperties DEF Depth
<1>2. n \in Nat /\ k \in Nat
    BY <1>1 DEF Size
<1>w. one \in Words /\ two \in Words /\ three \in Words
    BY OctetInClosed
<1>3. \A o \in 0..(Depth - 1) : /\ \A j \in 0..7 : (j \in Octet(w, o)) <=> (k + 8 * o + j \in message)
                               /\ k + 8 * o + 8 <= n
    <2>1. TAKE o \in 0..(Depth - 1)
    <2>2. ASSUME NEW j \in 0..7
          PROVE  /\ (j \in Octet(w, o)) <=> (k + 8 * o + j \in message)
                 /\ k + 8 * o + 8 <= n
        BY BitOfPixel
    <2>3. 0 \in 0..7
        OBVIOUS
    <2> HIDE DEF k, w, message, n
    <2>. QED BY <2>2, <2>3
<1>4. Agrees(r[k], k, c, n, message)
    OBVIOUS
<1>5. PixelIn(c, w, Depth) = CASE Depth = 1 -> one [] Depth = 2 -> two
                               [] Depth = 3 -> three [] Depth = 4 -> four
    BY DEF PixelIn
<1>6. 8 * Depth * (t + 1) = k + 8 * Depth
    BY <1>1
<1> HIDE DEF n, message, w, k, one, two, three, four
<1>7. ASSUME NEW o \in 0..(Depth - 1), NEW d \in Words,
             Agrees(r[k + 8 * o], k + 8 * o, d, n, message)
      PROVE  Agrees(r[k + 8 * (o + 1)], k + 8 * (o + 1), OctetIn(d, Octet(w, o)), n, message)
    <2> DEFINE m == k + 8 * o
               b == Octet(w, o)
    <2>1. m \in Nat /\ m + 8 = k + 8 * (o + 1)
        BY <1>1, <1>2
    <2>2. m + 8 <= n /\ \A j \in 0..7 : (j \in b) <=> (m + j \in message)
        BY <1>3
    <2>3. Agrees(Remainders(terms, n)[m], m, d, n, message)
        BY <1>7
    <2> HIDE DEF m, b, r
    <2>4. Agrees(Remainders(terms, n)[m + 8], m + 8, OctetIn(d, b), n, message)
        BY ONLY <1>2, <1>7, <2>1, <2>2, <2>3, OneOctet
    <2>. QED BY <2>1, <2>4 DEF b, r
<1> HIDE DEF r
<1>8. Agrees(r[k + 8 * 0], k + 8 * 0, c, n, message)
    BY <1>2, <1>4
<1>9. Agrees(r[k + 8 * 1], k + 8 * 1, one, n, message)
    <2>1. 0 \in 0..(Depth - 1) /\ 0 + 1 = 1
        BY <1>1
    <2>. QED BY <1>7, <1>8, <2>1 DEF one
<1>10. Depth >= 2 => Agrees(r[k + 8 * 2], k + 8 * 2, two, n, message)
    <2>1. Depth >= 2 => 1 \in 0..(Depth - 1) /\ 1 + 1 = 2
        BY <1>1
    <2>. QED BY <1>7, <1>9, <1>w, <2>1 DEF two
<1>11. Depth >= 3 => Agrees(r[k + 8 * 3], k + 8 * 3, three, n, message)
    <2>1. Depth >= 3 => 2 \in 0..(Depth - 1) /\ 2 + 1 = 3 /\ Depth >= 2
        BY <1>1
    <2>. QED BY <1>7, <1>10, <1>w, <2>1 DEF three
<1>12. Depth >= 4 => Agrees(r[k + 8 * 4], k + 8 * 4, four, n, message)
    <2>1. Depth >= 4 => 3 \in 0..(Depth - 1) /\ 3 + 1 = 4 /\ Depth >= 3
        BY <1>1
    <2>. QED BY <1>7, <1>11, <1>w, <2>1 DEF four
<1>13. Agrees(r[k + 8 * Depth], k + 8 * Depth, PixelIn(c, w, Depth), n, message)
    <2>1. CASE Depth = 1
        BY <1>5, <1>9, <2>1
    <2>2. CASE Depth = 2
        BY <1>5, <1>10, <2>2
    <2>3. CASE Depth = 3
        BY <1>5, <1>11, <2>3
    <2>4. CASE Depth = 4
        BY <1>5, <1>12, <2>4
    <2>. QED BY <1>1, <2>1, <2>2, <2>3, <2>4
<1>. QED BY <1>6, <1>13 DEF r, n, message, w, k

(* Before the first bit, and after the last.                               *)
LEMMA DividendAgrees ==
    ASSUME NEW n \in Nat, NEW message, message \subseteq 0..(n - 1)
    PROVE  Agrees(Remainders(Dividend(n, message), n)[0], 0, AllOnes, n, message)
<1> DEFINE M == {n + 31 - i : i \in message}
           A == n..(n + 31)
<1>1. \A f \in Int : (n + 31 - f \in M) <=> (f \in message)
    <2>1. \A i \in message : i \in Int
        OBVIOUS
    <2>2. \A f, i \in Int : (n + 31 - f = n + 31 - i) <=> (f = i)
        OBVIOUS
    <2>. QED BY <2>1, <2>2
<1>2. \A f \in Int : (n + 31 - f \in A) <=> (f \in AllOnes)
    BY DEF AllOnes, Bits
<1>3. M \subseteq Int /\ A \subseteq Int
    <2>1. \A i \in message : n + 31 - i \in Int
        OBVIOUS
    <2>. QED BY <2>1
<1> HIDE DEF M, A
<1>4. Dividend(n, message) = Xor(M, A)
    BY DEF Dividend, M, A
<1>5. Agrees(Xor(M, A), 0, AllOnes, n, message)
    <2>1. \A e : (e \in Xor(M, A)) <=> ((e \in M) # (e \in A))
        BY DEF Xor
    <2>2. Xor(M, A) \subseteq Int
        BY <1>3, Zenon DEF Xor
    <2>3. ASSUME NEW f \in Int
          PROVE  (n + 31 - f \in Xor(M, A)) <=> ((f - 0 \in AllOnes) # (f >= 0 /\ f \in message))
        <3>1. /\ (n + 31 - f \in M) <=> (f \in message)
              /\ (n + 31 - f \in A) <=> (f - 0 \in AllOnes)
              /\ f \in message => f >= 0
            <4>1. (n + 31 - f \in M) <=> (f \in message)
                BY ONLY <1>1, f \in Int
            <4>2. (n + 31 - f \in A) <=> (f \in AllOnes)
                BY ONLY <1>2, f \in Int
            <4>3. f - 0 = f
                OBVIOUS
            <4>4. f \in message => f >= 0
                OBVIOUS
            <4>. QED BY <4>1, <4>2, <4>3, <4>4
        <3>2. (n + 31 - f \in Xor(M, A)) <=> ((n + 31 - f \in M) # (n + 31 - f \in A))
            BY <2>1
        <3>. QED BY <3>1, <3>2
    <2>. QED BY <2>2, <2>3 DEF Agrees
<1>. QED BY <1>4, <1>5, RemaindersUnrolled

LEMMA RemainderAgrees ==
    ASSUME NEW n \in Nat, NEW message, message \subseteq 0..(n - 1), NEW c \in Words,
           Agrees(Remainders(Dividend(n, message), n)[n], n, c, n, message)
    PROVE  Xor(AllOnes, c) = CrcOf(n, message)
<1> DEFINE rest == Remainders(Dividend(n, message), n)[n]
           back == {31 - e : e \in rest}
<1>1. \A i \in Int : (31 - i \in rest) <=> (i \in c)
    <2>1. TAKE i \in Int
    <2>2. i + n \in Int /\ n + 31 - (i + n) = 31 - i /\ (i + n) - n = i
        OBVIOUS
    <2>3. ~(i + n >= n /\ i + n \in message)
        OBVIOUS
    <2>. QED BY <2>2, <2>3 DEF Agrees
<1>2. rest \subseteq Int /\ c \subseteq Int
    BY DEF Agrees, Words, Bits
<1> HIDE DEF rest
<1>3. back = c
    <2>1. \A e \in rest : 31 - e \in c
        <3>1. TAKE e \in rest
        <3>2. e \in Int /\ 31 - e \in Int /\ 31 - (31 - e) = e
            BY <1>2
        <3>. QED BY <1>1, <3>2
    <2>2. \A i \in c : 31 - i \in rest /\ 31 - (31 - i) = i
        BY <1>1, <1>2
    <2>. QED BY <2>1, <2>2
<1>. QED BY <1>3 DEF CrcOf, Division, rest

(***************************************************************************)
(* The test program's computation.                                         *)
(***************************************************************************)

LEMMA CpuRegisterUnrolled ==
    ASSUME NEW d, NEW im, Len(im) \in Nat
    PROVE  /\ CpuRegister(d, im)[0] = AllOnes
           /\ \A k \in 1..Len(im) :
                CpuRegister(d, im)[k] = Pixel(d, CpuRegister(d, im)[k - 1], im[k])
<1> DEFINE Next1(f, k) == IF k = 0 THEN AllOnes ELSE Pixel(d, f[k - 1], im[k])
           Upto(f, m) == f = [k \in 0..m |-> Next1(f, k)]
           G == {m \in Nat : \E f : Upto(f, m)}
<1>1. 0 \in G
    <2> DEFINE f == [k \in 0..0 |-> AllOnes]
    <2>1. f = [k \in 0..0 |-> Next1(f, k)]
        OBVIOUS
    <2>. QED BY <2>1
<1>2. ASSUME NEW m \in G
      PROVE  m + 1 \in G
    <2>1. m \in Nat
        OBVIOUS
    <2>2. PICK f : Upto(f, m)
        OBVIOUS
    <2> DEFINE g == [k \in 0..(m + 1) |-> IF k = m + 1 THEN Next1(f, k) ELSE f[k]]
    <2>3. ASSUME NEW k \in 0..(m + 1)
          PROVE  g[k] = Next1(g, k)
        <3>1. CASE k = 0
            BY <2>1, <2>2, <3>1
        <3>2. CASE k # 0
            <4>1. k - 1 \in 0..m /\ k - 1 \in 0..(m + 1) /\ k - 1 # m + 1
                BY <2>1, <3>2
            <4>2. g[k - 1] = f[k - 1]
                BY <4>1
            <4>3. Next1(g, k) = Next1(f, k)
                BY <4>2
            <4>4. k # m + 1 => k \in 0..m /\ f[k] = Next1(f, k)
                BY <2>1, <2>2
            <4>. QED BY <4>3, <4>4
        <3>. QED BY <3>1, <3>2
    <2>4. g = [k \in 0..(m + 1) |-> g[k]]
        OBVIOUS
    <2> HIDE DEF g
    <2>5. Upto(g, m + 1)
        BY <2>3, <2>4
    <2>6. m + 1 \in Nat
        BY <2>1
    <2> HIDE DEF Upto
    <2>7. \E e : Upto(e, m + 1)
        BY <2>5
    <2>. QED BY <2>6, <2>7
<1>3. Nat \subseteq G
    <2> HIDE DEF G
    <2>. QED BY <1>1, <1>2, NatInduct DEF G
<1>4. \E f : Upto(f, Len(im))
    BY <1>3
<1> DEFINE h == CHOOSE f : Upto(f, Len(im))
<1>5. Upto(h, Len(im))
    BY <1>4, Zenon
<1>6. CpuRegister(d, im) = h
    BY Zenon DEF CpuRegister
<1> HIDE DEF h
<1>7. h[0] = AllOnes
    BY <1>5
<1>8. \A k \in 1..Len(im) : h[k] = Pixel(d, h[k - 1], im[k])
    BY <1>5
<1>. QED BY <1>6, <1>7, <1>8

(* The two programs take a pixel alike.                                    *)
LEMMA PixelIsUpdate ==
    ASSUME tab = TableOf, format \in 1..4, NEW c \in Words, NEW w \in Words
    PROVE  Pixel(format, c, w) = Update(c, w)
<1>1. \A a : Divided(a) = Shifted(a)
    BY DEF Divided, Shifted
<1>2. TabPtr = tab
    BY <1>1 DEF TabPtr, TableOf, Remainder
<1>3. \A a, b : Byte(a, b) = Look(a, b)
    BY <1>2 DEF Byte, Look
<1>4. Byte8(c, w) = Look(c, w)
    <2>1. Xor(Low(w), Low(c)) = Low(Xor(w, c))
        BY DEF Xor, Low
    <2>. QED BY <1>2, <2>1 DEF Byte8, Look
<1>5. CASE format = 1
    BY <1>4, <1>5 DEF Pixel, BytesTaken, Update, Update8
<1>6. CASE format = 2
    BY <1>3, <1>6 DEF Pixel, BytesTaken, Update, Update8, Update16
<1>7. CASE format = 3
    BY <1>3, <1>7 DEF Pixel, BytesTaken, Update, Update8, Update16, Update24
<1>8. CASE format = 4
    BY <1>3, <1>8 DEF Pixel, BytesTaken, Update, Update8, Update16, Update24, Update32
<1>. QED BY <1>5, <1>6, <1>7, <1>8

(***************************************************************************)
(* What is true of a request under way.                                    *)
(***************************************************************************)

(* The pixels taken so far.                                                *)
Gone == Len(image) - Len(left)
LeftIsRest ==
    /\ Len(left) <= Len(image)
    /\ \A i \in 1..Len(left) : left[i] = image[Gone + i]

(* The register is what the division left of the bits of those pixels.     *)
Divides ==
    pc # "idle" =>
        Agrees(Remainders(Dividend(Size(image), MessageBits(image)), Size(image))[8 * Depth * Gone],
               8 * Depth * Gone, crc, Size(image), MessageBits(image))

(* And what the test program's would hold.                                 *)
Matches == pc # "idle" /\ format \in 1..4 => crc = CpuRegister(format, image)[Gone]

ReplyInv == LeftIsRest /\ Divides /\ Matches /\ RepliesRight

SizeTyped ==
    /\ Size(image) \in Nat /\ MessageBits(image) \subseteq 0..(Size(image) - 1)
    /\ Len(image) \in Nat /\ Len(left) \in Nat /\ Depth \in 1..4

LEMMA SizeOf == CrcTypeOK => SizeTyped
<1> SUFFICES ASSUME CrcTypeOK PROVE SizeTyped
    OBVIOUS
<1>1. Len(image) \in Nat /\ Len(left) \in Nat
    BY LenProperties DEF CrcTypeOK
<1>2. Depth \in 1..4
    BY DEF Depth
<1>3. Size(image) \in Nat
    BY <1>1, <1>2 DEF Size
<1>. QED BY <1>1, <1>2, <1>3 DEF SizeTyped, MessageBits

LEMMA ReplyInit == CrcInit => ReplyInv
<1> SUFFICES ASSUME CrcInit PROVE ReplyInv
    OBVIOUS
<1>1. Len(image) = 0 /\ Len(left) = 0 /\ image = <<>> /\ pc = "idle"
    BY DEF CrcInit
<1>. QED BY <1>1 DEF ReplyInv, LeftIsRest, Divides, Matches, RepliesRight, RepliesDefined, TestMatches

LEMMA ReplyStep == Inv /\ Inv' /\ ReplyInv /\ [CrcNext]_crcVars => ReplyInv'
<1> SUFFICES ASSUME Inv, Inv', ReplyInv, [CrcNext]_crcVars PROVE ReplyInv'
    OBVIOUS
<1>t. CrcTypeOK /\ CrcTypeOK'
    BY DEF Inv
<1>1. CASE Begin
    <2>1. /\ left' = image' /\ crc' = AllOnes /\ pc' = "setup" /\ image' \in Images
        BY <1>1 DEF Begin
    <2>2. image' \in Seq(Words)
        BY <1>t DEF CrcTypeOK
    <2>3. Len(image') \in Nat
        BY <2>2, LenProperties
    <2>4. Gone' = 0 /\ LeftIsRest'
        BY <2>1, <2>3 DEF Gone, LeftIsRest
    <2>5. /\ Size(image)' \in Nat /\ MessageBits(image)' \subseteq 0..(Size(image)' - 1)
          /\ Depth' \in 1..4
        <3>1. SizeTyped'
            BY <1>t, SizeOf, PTL
        <3>. QED BY <3>1 DEF SizeTyped
    <2>6. Divides'
        <3>1. PICK n : n = Size(image)'
            OBVIOUS
        <3>2. PICK m : m = MessageBits(image)'
            OBVIOUS
        <3>3. Agrees(Remainders(Dividend(n, m), n)[0], 0, AllOnes, n, m)
            BY <2>5, <3>1, <3>2, DividendAgrees
        <3>4. 8 * Depth' * Gone' = 0
            <4>1. PICK d : d = Depth'
                OBVIOUS
            <4>2. PICK g : g = Gone'
                OBVIOUS
            <4>3. d \in 1..4 /\ g = 0
                BY <2>4, <2>5, <4>1, <4>2
            <4>4. 8 * d * g = 0
                BY <4>3
            <4>. QED BY <4>1, <4>2, <4>4
        <3>. QED BY <2>1, <3>1, <3>2, <3>3, <3>4 DEF Divides
    <2>7. Matches'
        BY <2>1, <2>3, <2>4, CpuRegisterUnrolled DEF Matches
    <2>8. RepliesRight'
        BY <2>1 DEF RepliesRight, RepliesDefined, TestMatches
    <2>. QED BY <2>4, <2>6, <2>7, <2>8 DEF ReplyInv
<1>2. CASE Setup
    <2>1. /\ pc = "setup" /\ pc' = "process"
          /\ UNCHANGED <<format, image, left, crc, reply>>
        BY <1>2 DEF Setup
    <2>2. LeftIsRest' /\ Gone' = Gone
        BY <2>1 DEF ReplyInv, LeftIsRest, Gone
    <2>3. Depth' = Depth /\ Size(image)' = Size(image)
        BY <2>1 DEF Depth, Size
    <2>4. MessageBits(image)' = MessageBits(image)
        BY <2>1, <2>3 DEF MessageBits, BitAt
    <2>5. Divides' /\ Matches'
        BY <2>1, <2>2, <2>3, <2>4 DEF ReplyInv, Divides, Matches
    <2>6. RepliesRight'
        BY <2>1 DEF RepliesRight, RepliesDefined, TestMatches
    <2>. QED BY <2>2, <2>5, <2>6 DEF ReplyInv
<1>3. CASE Process
    <2>1. /\ pc = "process" /\ left # <<>> /\ crc' = Update(crc, Head(left)) /\ left' = Tail(left)
          /\ UNCHANGED <<pc, format, image, tab, reply>>
        BY <1>3 DEF Process
    <2>2. /\ left \in Seq(Words) /\ image \in Seq(Words) /\ crc \in Words /\ tab = TableOf
        BY <1>t, <2>1 DEF CrcTypeOK, Inv
    <2>3. /\ Len(left) \in Nat \ {0} /\ Len(left') = Len(left) - 1 /\ Head(left) = left[1]
          /\ \A i \in 1..(Len(left) - 1) : left'[i] = left[i + 1]
          /\ Head(left) \in Words
        BY <2>1, <2>2, HeadTailProperties, LenProperties, EmptySeq
    <2>4. Len(image) \in Nat /\ Depth \in 1..4
        BY <1>t, SizeOf DEF SizeTyped
    <2>5. /\ Gone \in Nat /\ Gone' = Gone + 1 /\ Gone < Len(image)
          /\ Gone + 1 \in 1..Len(image) /\ (Gone + 1) - 1 = Gone
        BY <2>1, <2>3, <2>4 DEF Gone, ReplyInv, LeftIsRest
    <2>6. Head(left) = image[Gone + 1]
        BY <2>3 DEF ReplyInv, LeftIsRest
    <2>7. LeftIsRest'
        <3>1. Len(left') <= Len(image')
            BY <2>1, <2>3, <2>4 DEF ReplyInv, LeftIsRest
        <3>2. ASSUME NEW i \in 1..Len(left')
              PROVE  left'[i] = image'[Gone' + i]
            <4>1. /\ i + 1 \in 1..Len(left) /\ i \in 1..(Len(left) - 1) /\ Gone + (i + 1) = Gone' + i
                BY <2>3, <2>5
            <4>. QED BY <2>1, <2>3, <4>1 DEF ReplyInv, LeftIsRest
        <3>. QED BY <3>1, <3>2 DEF LeftIsRest
    <2>8. Depth' = Depth /\ Size(image)' = Size(image)
        BY <2>1 DEF Depth, Size
    <2>9. MessageBits(image)' = MessageBits(image)
        BY <2>1, <2>8 DEF MessageBits, BitAt
    <2>10. Divides'
        <3> DEFINE terms == Dividend(Size(image), MessageBits(image))
        <3>1. Agrees(Remainders(terms, Size(image))[8 * Depth * Gone], 8 * Depth * Gone, crc,
                     Size(image), MessageBits(image))
            BY <2>1 DEF ReplyInv, Divides
        <3> HIDE DEF terms
        <3>2. Agrees(Remainders(terms, Size(image))[8 * Depth * (Gone + 1)], 8 * Depth * (Gone + 1),
                     PixelIn(crc, image[Gone + 1], Depth), Size(image), MessageBits(image))
            BY <2>2, <2>5, <3>1, OnePixel
        <3>3. crc' = PixelIn(crc, image[Gone + 1], Depth)
            BY <2>1, <2>2, <2>3, <2>6, UpdateTakesPixel
        <3>. QED BY <2>5, <2>8, <2>9, <3>2, <3>3 DEF Divides, terms
    <2>11. Matches'
        <3>1. SUFFICES ASSUME format \in 1..4
                       PROVE  crc' = CpuRegister(format, image)[Gone + 1]
            BY <2>1, <2>5 DEF Matches
        <3>2. crc = CpuRegister(format, image)[Gone]
            BY <2>1, <3>1 DEF ReplyInv, Matches
        <3>3. CpuRegister(format, image)[Gone + 1] = Pixel(format, crc, image[Gone + 1])
            BY <2>4, <2>5, <3>2, CpuRegisterUnrolled
        <3>. QED BY <2>1, <2>2, <2>3, <2>6, <3>1, <3>3, PixelIsUpdate
    <2>12. RepliesRight'
        BY <2>1 DEF RepliesRight, RepliesDefined, TestMatches
    <2>. QED BY <2>7, <2>10, <2>11, <2>12 DEF ReplyInv
<1>4. CASE Finish
    <2>1. /\ pc = "process" /\ left = <<>> /\ reply' = Xor(AllOnes, crc) /\ pc' = "idle"
          /\ UNCHANGED <<format, image, left, tab, crc>>
        BY <1>4 DEF Finish
    <2>2. LeftIsRest' /\ Divides' /\ Matches'
        BY <2>1 DEF ReplyInv, LeftIsRest, Gone, Divides, Matches
    <2>3. Gone = Len(image) /\ 8 * Depth * Gone = Size(image)
        <3>1. Len(left) = 0
            BY <2>1
        <3>. QED BY <1>t, <3>1, SizeOf DEF SizeTyped, Gone, Size
    <2>4. reply' = DefinedCrc(image)
        <3>1. crc \in Words
            BY <1>t DEF CrcTypeOK
        <3>2. Agrees(Remainders(Dividend(Size(image), MessageBits(image)), Size(image))[Size(image)],
                     Size(image), crc, Size(image), MessageBits(image))
            BY <2>1, <2>3 DEF ReplyInv, Divides
        <3>. QED BY <1>t, <2>1, <3>1, <3>2, SizeOf, RemainderAgrees DEF SizeTyped, DefinedCrc
    <2>5. format \in 1..4 => reply' = CpuCrc(format, image)
        BY <2>1, <2>3 DEF ReplyInv, Matches, CpuCrc
    <2>6. DefinedCrc(image)' = DefinedCrc(image)
        <3>1. Depth' = Depth /\ Size(image)' = Size(image)
            BY <2>1 DEF Depth, Size
        <3>2. MessageBits(image)' = MessageBits(image)
            BY <2>1, <3>1 DEF MessageBits, BitAt
        <3>. QED BY <3>1, <3>2 DEF DefinedCrc
    <2>7. RepliesRight'
        BY <2>1, <2>4, <2>5, <2>6 DEF RepliesRight, RepliesDefined, TestMatches
    <2>. QED BY <2>2, <2>7 DEF ReplyInv
<1>5. CASE UNCHANGED crcVars
    <2>1. UNCHANGED <<pc, format, image, left, tab, crc, reply>>
        BY <1>5 DEF crcVars
    <2>2. Depth' = Depth /\ Size(image)' = Size(image) /\ Gone' = Gone
        BY <2>1 DEF Depth, Size, Gone
    <2>3. MessageBits(image)' = MessageBits(image)
        BY <2>1, <2>2 DEF MessageBits, BitAt
    <2>4. LeftIsRest'
        BY <2>1, <2>2 DEF ReplyInv, LeftIsRest
    <2>5. Divides' /\ Matches'
        BY <2>1, <2>2, <2>3 DEF ReplyInv, Divides, Matches
    <2>6. RepliesRight'
        BY <2>1, <2>2, <2>3 DEF ReplyInv, RepliesRight, RepliesDefined, TestMatches, DefinedCrc
    <2>. QED BY <2>4, <2>5, <2>6 DEF ReplyInv
<1>. QED BY <1>1, <1>2, <1>3, <1>4, <1>5 DEF CrcNext

(* Every reply is the CRC-32 of the image as the division of polynomials   *)
(* defines it, and the one dsptestsck computes of it: for every image.     *)
THEOREM RepliesAreRight == CrcSpec => []RepliesRight
<1>1. ReplyInv => RepliesRight
    BY DEF ReplyInv
<1>. QED BY <1>1, ReplyInit, ReplyStep, Invariant, PTL DEF CrcSpec

=============================================================================
