-------------------------- MODULE PeerStreamProofs --------------------------
(***************************************************************************)
(* Proofs about PeerStream, for PDUs, headers, payloads, replies and       *)
(* buffers of every size and a connection of any length: recv() stays in   *)
(* the buffer and in step with the PDUs, and PeerStream implements         *)
(* PduStream. IInv is inductive; it says where each byte on its way comes  *)
(* from and where each request stands.                                     *)
(***************************************************************************)
EXTENDS PeerStream, SequenceTheorems, TLAPS

(* The PDU the server is at, and the byte that comes after byte j - 1 of   *)
(* the k-th.                                                               *)
Current == Len(handled) + 1
Pos(k, j) == IF j < SizeOf(pdus[k]) THEN <<k, j>> ELSE <<k + 1, 0>>

(* The i-th byte on its way, and after them the one the client writes next.*)
NextByte == IF AtBoundary THEN <<Len(pdus) + 1, 0>> ELSE <<Len(pdus), written>>
At(i) == IF i <= Len(wire) THEN wire[i] ELSE NextByte

ClientInv ==
    /\ pdus \in Seq(Pdus) /\ written \in Nat
    /\ pdus # <<>> => written \in 1..SizeOf(pdus[Len(pdus)])

(* What is on its way is what the client wrote, from the byte the server   *)
(* reads next to the one the client writes next, and in that order.        *)
Chained ==
    \A i \in 1..Len(wire), d \in 0..Len(wire) :
        i + d <= Len(wire) + 1 /\ wire[i][2] + d <= SizeOf(pdus[wire[i][1]])
            => At(i + d) = Pos(wire[i][1], wire[i][2] + d)
WireInv ==
    /\ wire \in Seq(Bytes)
    /\ \A i \in 1..Len(wire) :
        /\ wire[i][1] \in 1..Len(pdus)
        /\ wire[i][2] \in 0..(SizeOf(pdus[wire[i][1]]) - 1)
    /\ Chained
    /\ up => At(1) = <<Current, p>>

(* What recv() is asked for is the header or the PDU it is the header of.  *)
ReadInv ==
    /\ p \in Nat /\ end \in Nat
    /\ data \in [Offsets -> Bytes \union {Uninit}]
    /\ up =>
        /\ p < AskedEnd
        /\ p # 0 => Current \in 1..Len(pdus)
        /\ p \in 1..(HeaderBytes - 1) => end = HeaderBytes
        /\ p >= HeaderBytes => InRange(pdus[Current].len) /\ end = pdus[Current].len
        /\ \A j \in 0..(p - 1) : data[j] = <<Current, j>>

(* What was handled are the PDUs the client has written whole.             *)
Contents == UNION {[0..(m - 1) -> Bytes] : m \in Nat}
WholeCount == IF AtBoundary THEN Len(pdus) ELSE Len(pdus) - 1
HandledInv ==
    /\ handled \in Seq(Contents)
    /\ Len(handled) <= WholeCount
    /\ \A k \in 1..Len(handled) : handled[k] = Content(k)

(* A request goes from the DSP to the queue of replies to the client, and  *)
(* stays behind those that were handled before it.                         *)
ReplyInv ==
    /\ atDsp \in Seq(Bytes)
    /\ out \in Seq([seq : Bytes, p : 0..(ReplyBytes - 1)])
    /\ answers \in Seq(Nat)
    /\ \A i \in 1..Len(answers) : answers[i] \in 1..Len(handled)
    /\ \A i \in 1..Len(atDsp) : atDsp[i][1] \in 1..Len(handled)
    /\ \A i \in 1..Len(out) : out[i].seq[1] \in 1..Len(handled)
    /\ \A i \in 1..Len(atDsp) :
        /\ \A j \in 1..(i - 1) : atDsp[j][1] < atDsp[i][1]
        /\ \A j \in 1..Len(out) : out[j].seq[1] < atDsp[i][1]
        /\ \A j \in 1..Len(answers) : answers[j] < atDsp[i][1]
    /\ \A i \in 1..Len(out) :
        /\ \A j \in 1..(i - 1) : out[j].seq[1] < out[i].seq[1]
        /\ \A j \in 1..Len(answers) : answers[j] < out[i].seq[1]

(* Only the first reply is begun, and what the client has of it is its     *)
(* beginning.                                                              *)
PartInv ==
    /\ part \in Seq(Bytes \X Nat)
    /\ \A i \in 2..Len(out) : out[i].p = 0
    /\ up => /\ out = <<>> => part = <<>>
             /\ out # <<>> =>
                /\ Len(part) = out[1].p
                /\ \A i \in 1..Len(part) : part[i] = <<out[1].seq, i - 1>>

IInv ==
    /\ closed \in BOOLEAN /\ up \in BOOLEAN
    /\ ClientInv /\ WireInv /\ ReadInv /\ HandledInv /\ ReplyInv /\ PartInv

-----------------------------------------------------------------------------
(* The sizes that PDUs have.                                               *)
LEMMA Sizes ==
  /\ CodeBytes \in Nat /\ HeaderBytes \in Nat /\ MaxMsgBytes \in Nat
  /\ 1 <= CodeBytes /\ CodeBytes < HeaderBytes /\ HeaderBytes <= MaxMsgBytes
  /\ ReplyBytes \in Nat /\ 1 <= ReplyBytes
  /\ \A pdu \in Pdus :
        /\ pdu.len \in Int
        /\ SizeOf(pdu) \in Nat
        /\ HeaderBytes <= SizeOf(pdu) /\ SizeOf(pdu) <= MaxMsgBytes
        /\ InRange(pdu.len) => SizeOf(pdu) = pdu.len
<1>1. /\ CodeBytes \in Nat /\ HeaderBytes \in Nat /\ MaxMsgBytes \in Nat
      /\ 1 <= CodeBytes /\ CodeBytes < HeaderBytes /\ HeaderBytes <= MaxMsgBytes
      /\ ReplyBytes \in Nat /\ 1 <= ReplyBytes
  BY PeerStreamAssumption
<1>2. ASSUME NEW pdu \in Pdus
      PROVE  /\ pdu.len \in Int
             /\ SizeOf(pdu) \in Nat
             /\ HeaderBytes <= SizeOf(pdu) /\ SizeOf(pdu) <= MaxMsgBytes
             /\ InRange(pdu.len) => SizeOf(pdu) = pdu.len
  <2>1. pdu.len \in Int
    BY PeerStreamAssumption
  <2> QED BY <1>1, <2>1 DEF SizeOf, InRange
<1> QED BY <1>1, <1>2

(* What is left to read of a PDU the server has begun is not beyond it.    *)
LEMMA AskedWithin ==
  ASSUME IInv, up
  PROVE  /\ AskedEnd \in Nat /\ HeaderBytes <= AskedEnd
         /\ p < AskedEnd
         /\ AskedEnd <= MaxMsgBytes
         /\ Current \in Nat
         /\ Current \in 1..Len(pdus) =>
              /\ pdus[Current] \in Pdus
              /\ AskedEnd <= SizeOf(pdus[Current])
              /\ AskedEnd # HeaderBytes =>
                    InRange(pdus[Current].len) /\ AskedEnd = pdus[Current].len
<1>1. Len(handled) \in Nat
  BY LenProperties DEF IInv, HandledInv
<1>2. Current \in 1..Len(pdus) => pdus[Current] \in Pdus
  BY ElementOfSeq DEF IInv, ClientInv
<1>3. p \in Nat /\ end \in Nat /\ p < AskedEnd
  BY DEF IInv, ReadInv
<1>4. CASE p = 0
  BY <1>1, <1>2, <1>3, <1>4, Sizes DEF AskedEnd, Current
<1>5. CASE p # 0
  <2>1. /\ Current \in 1..Len(pdus)
        /\ p \in 1..(HeaderBytes - 1) => end = HeaderBytes
        /\ p >= HeaderBytes => InRange(pdus[Current].len) /\ end = pdus[Current].len
    BY <1>5 DEF IInv, ReadInv
  <2>2. pdus[Current] \in Pdus /\ AskedEnd = end
    BY <1>2, <1>5, <2>1 DEF AskedEnd
  <2>3. CASE p < HeaderBytes
    <3>1. end = HeaderBytes
      BY <1>3, <1>5, <2>1, <2>3, Sizes
    <3> QED BY <1>1, <1>3, <2>1, <2>2, <3>1, Sizes DEF Current
  <2>4. CASE p >= HeaderBytes
    <3>1. InRange(pdus[Current].len) /\ end = pdus[Current].len
      BY <2>1, <2>4
    <3> QED BY <1>1, <1>3, <2>1, <2>2, <3>1, Sizes DEF Current, InRange
  <2> QED BY <1>3, <2>3, <2>4, Sizes
<1> QED BY <1>4, <1>5

(* What recv() brings are the next bytes of the PDU the server is at.      *)
LEMMA Received ==
  ASSUME IInv, NEW n, Recv(n)
  PROVE  /\ n \in Nat /\ 1 <= n /\ n <= Len(wire) /\ Len(wire) \in Nat
         /\ p + n <= AskedEnd
         /\ Current \in 1..Len(pdus)
         /\ \A i \in 1..n : wire[i] = <<Current, p + i - 1>>
         /\ At(n + 1) = Pos(Current, p + n)
<1>0. up
  BY DEF Recv
<1>1. p \in Nat /\ AskedEnd \in Nat
  BY <1>0, AskedWithin DEF IInv, ReadInv
<1>2. Len(wire) \in Nat
  BY LenProperties DEF IInv, WireInv
<1>3. n \in Nat /\ 1 <= n /\ n <= Len(wire) /\ p + n <= AskedEnd
  BY <1>1, <1>2 DEF Recv
<1>4. wire[1] = <<Current, p>>
  BY <1>0, <1>2, <1>3 DEF IInv, WireInv, At
<1>5. wire[1][1] = Current /\ wire[1][2] = p
  BY <1>4
<1>6. Current \in 1..Len(pdus)
  BY <1>2, <1>3, <1>5 DEF IInv, WireInv
<1>7. AskedEnd <= SizeOf(pdus[Current]) /\ SizeOf(pdus[Current]) \in Nat
  BY <1>0, <1>6, AskedWithin, Sizes
<1>8. ASSUME NEW d \in 0..n
      PROVE  At(1 + d) = Pos(Current, p + d)
  <2>1. /\ 1 \in 1..Len(wire) /\ d \in 0..Len(wire) /\ 1 + d <= Len(wire) + 1
        /\ p + d <= SizeOf(pdus[Current])
    BY <1>1, <1>2, <1>3, <1>7
  <2> QED BY <1>5, <2>1 DEF IInv, WireInv, Chained
<1>9. ASSUME NEW i \in 1..n
      PROVE  wire[i] = <<Current, p + i - 1>>
  <2>1. At(1 + (i - 1)) = Pos(Current, p + (i - 1))
    BY <1>3, <1>8
  <2>2. 1 + (i - 1) = i /\ p + (i - 1) = p + i - 1 /\ i <= Len(wire)
    BY <1>1, <1>2, <1>3
  <2>3. p + i - 1 < SizeOf(pdus[Current])
    BY <1>1, <1>3, <1>7
  <2> QED BY <2>1, <2>2, <2>3 DEF At, Pos
<1>10. At(n + 1) = Pos(Current, p + n)
  <2>1. n \in 0..n /\ 1 + n = n + 1
    BY <1>3
  <2> QED BY <1>8, <2>1
<1> QED BY <1>2, <1>3, <1>6, <1>9, <1>10

(* The buffer then holds that much of the PDU, and its length is read as   *)
(* the client wrote it.                                                    *)
LEMMA ReceivedData ==
  ASSUME IInv, NEW n, Recv(n)
  PROVE  /\ data' \in [Offsets -> Bytes \union {Uninit}]
         /\ \A j \in 0..(p + n - 1) : data'[j] = <<Current, j>>
         /\ p + n >= HeaderBytes => LengthsRead(data') = {pdus[Current].len}
<1>0. up
  BY DEF Recv
<1>1. /\ n \in Nat /\ 1 <= n /\ n <= Len(wire) /\ Len(wire) \in Nat
      /\ p \in Nat /\ p + n <= MaxMsgBytes /\ MaxMsgBytes \in Nat
      /\ Current \in 1..Len(pdus)
  BY <1>0, Received, AskedWithin, Sizes DEF IInv, ReadInv
<1>2. data' = [j \in Offsets |-> IF p <= j /\ j < p + n THEN wire[j - p + 1] ELSE data[j]]
  BY DEF Recv
<1>3. ASSUME NEW j \in Offsets
      PROVE  data'[j] \in Bytes \union {Uninit}
  <2>1. CASE p <= j /\ j < p + n
    <3>1. j - p + 1 \in 1..Len(wire)
      BY <1>1, <2>1 DEF Offsets
    <3>2. wire[j - p + 1] \in Bytes
      BY <3>1, ElementOfSeq DEF IInv, WireInv
    <3> QED BY <1>2, <2>1, <3>2
  <2>2. CASE ~(p <= j /\ j < p + n)
    BY <1>2, <2>2 DEF IInv, ReadInv
  <2> QED BY <2>1, <2>2
<1>4. data' \in [Offsets -> Bytes \union {Uninit}]
  BY <1>2, <1>3
<1>5. ASSUME NEW j \in 0..(p + n - 1)
      PROVE  data'[j] = <<Current, j>>
  <2>1. j \in Offsets
    BY <1>1 DEF Offsets
  <2>2. CASE p <= j
    <3>1. j - p + 1 \in 1..n /\ p + (j - p + 1) - 1 = j /\ j < p + n
      BY <1>1, <2>2
    <3>2. wire[j - p + 1] = <<Current, p + (j - p + 1) - 1>>
      BY <3>1, Received
    <3> QED BY <1>2, <2>1, <2>2, <3>1, <3>2
  <2>3. CASE j < p
    <3>1. data'[j] = data[j]
      BY <1>1, <1>2, <2>1, <2>3
    <3>2. j \in 0..(p - 1)
      BY <1>1, <2>3
    <3> QED BY <1>0, <3>1, <3>2 DEF IInv, ReadInv
  <2> QED BY <1>1, <2>2, <2>3
<1>6. ASSUME p + n >= HeaderBytes
      PROVE  LengthsRead(data') = {pdus[Current].len}
  <2> DEFINE field == CodeBytes..(HeaderBytes - 1)
  <2>1. \A j \in field : j \in 0..(p + n - 1)
    BY <1>1, <1>6, Sizes
  <2>2. CodeBytes \in field
    BY Sizes
  <2>3. \A j \in field : data'[j] = <<Current, j>>
    BY <1>5, <2>1
  <2>4. Current \in DOMAIN pdus
    BY <1>1, LenProperties DEF IInv, ClientInv
  <2>5. WholeField(data', field)
    BY <2>3, <2>4 DEF WholeField
  <2>6. data'[CodeBytes][1] = Current
    BY <2>2, <2>3
  <2> QED BY <2>5, <2>6 DEF LengthsRead
<1> QED BY <1>4, <1>5, <1>6

(* The bytes behind them stay in order.                                    *)
LEMMA ReceivedWire ==
  ASSUME IInv, NEW n, Recv(n), UNCHANGED clientVars
  PROVE  /\ wire' \in Seq(Bytes)
         /\ \A i \in 1..Len(wire') :
                /\ wire'[i][1] \in 1..Len(pdus')
                /\ wire'[i][2] \in 0..(SizeOf(pdus'[wire'[i][1]]) - 1)
         /\ Chained'
         /\ At(1)' = Pos(Current, p + n)
<1>1. /\ n \in Nat /\ 1 <= n /\ n <= Len(wire) /\ Len(wire) \in Nat
      /\ At(n + 1) = Pos(Current, p + n)
  BY Received
<1>2. pdus' = pdus /\ written' = written
  BY DEF clientVars
<1>3. wire' = SubSeq(wire, n + 1, Len(wire))
  BY DEF Recv
<1>4. /\ wire' \in Seq(Bytes)
      /\ Len(wire') = Len(wire) - n
      /\ \A i \in 1..(Len(wire) - n) : wire'[i] = wire[n + i]
  <2>1. \A i \in (n + 1)..Len(wire) : wire[i] \in Bytes
    BY <1>1, ElementOfSeq DEF IInv, WireInv
  <2>2. /\ wire' \in Seq(Bytes)
        /\ Len(wire') = IF n + 1 <= Len(wire) THEN Len(wire) - (n + 1) + 1 ELSE 0
        /\ \A i \in 1..(Len(wire) - (n + 1) + 1) : wire'[i] = wire[(n + 1) + i - 1]
    BY <1>1, <1>3, <2>1, SubSeqProperties
  <2>3. Len(wire) - (n + 1) + 1 = Len(wire) - n /\ Len(wire') = Len(wire) - n
    BY <1>1, <2>2
  <2>4. ASSUME NEW i \in 1..(Len(wire) - n) PROVE wire'[i] = wire[n + i]
    <3>1. (n + 1) + i - 1 = n + i
      BY <1>1
    <3> QED BY <2>2, <2>3, <3>1
  <2> QED BY <2>2, <2>3, <2>4
<1>5. NextByte' = NextByte
  BY <1>2 DEF NextByte, AtBoundary
<1>6. ASSUME NEW i \in 1..(Len(wire) - n + 1)
      PROVE  At(i)' = At(n + i)
  <2>1. CASE i <= Len(wire) - n
    BY <1>1, <1>4, <2>1 DEF At
  <2>2. CASE i > Len(wire) - n
    BY <1>1, <1>4, <1>5, <2>2 DEF At
  <2> QED BY <1>1, <2>1, <2>2
<1>7. ASSUME NEW i \in 1..Len(wire')
      PROVE  /\ wire'[i][1] \in 1..Len(pdus')
             /\ wire'[i][2] \in 0..(SizeOf(pdus'[wire'[i][1]]) - 1)
  <2>1. n + i \in 1..Len(wire) /\ wire'[i] = wire[n + i]
    BY <1>1, <1>4
  <2> QED BY <1>2, <2>1 DEF IInv, WireInv
<1>8. Chained'
  <2> SUFFICES ASSUME NEW i \in 1..Len(wire'), NEW d \in 0..Len(wire'),
                      i + d <= Len(wire') + 1,
                      wire'[i][2] + d <= SizeOf(pdus'[wire'[i][1]])
               PROVE  At(i + d)' = Pos(wire[i][1], wire[i][2] + d)'
    BY DEF Chained
  <2>1. /\ n + i \in 1..Len(wire) /\ d \in 0..Len(wire) /\ (n + i) + d <= Len(wire) + 1
        /\ i + d \in 1..(Len(wire) - n + 1) /\ n + (i + d) = (n + i) + d
        /\ wire'[i] = wire[n + i]
    BY <1>1, <1>4
  <2>2. At((n + i) + d) = Pos(wire[n + i][1], wire[n + i][2] + d)
    BY <1>2, <2>1 DEF IInv, WireInv, Chained
  <2>3. At(i + d)' = At((n + i) + d)
    BY <1>6, <2>1
  <2> QED BY <1>2, <2>1, <2>2, <2>3 DEF Pos
<1>9. At(1)' = At(n + 1)
  BY <1>1, <1>6
<1> QED BY <1>1, <1>4, <1>7, <1>8, <1>9

-----------------------------------------------------------------------------
(* A step that leaves the client, the PDUs handled and the replies alone.  *)
LEMMA RestKept ==
  ASSUME IInv, UNCHANGED <<clientVars, up, handled, atDsp, outVars>>
  PROVE  /\ closed' \in BOOLEAN /\ up' \in BOOLEAN
         /\ ClientInv' /\ HandledInv' /\ ReplyInv' /\ PartInv'
         /\ Current' = Current
<1>1. /\ pdus' = pdus /\ written' = written /\ closed' = closed /\ up' = up
      /\ handled' = handled /\ atDsp' = atDsp
      /\ out' = out /\ part' = part /\ answers' = answers
  BY DEF clientVars, outVars
<1>2. ClientInv'
  BY <1>1 DEF IInv, ClientInv
<1>3. HandledInv'
  <2>1. \A k : Content(k)' = Content(k)
    BY <1>1 DEF Content
  <2>2. WholeCount' = WholeCount
    BY <1>1 DEF WholeCount, AtBoundary
  <2> QED BY <1>1, <2>1, <2>2 DEF IInv, HandledInv
<1>4. ReplyInv'
  BY <1>1 DEF IInv, ReplyInv
<1>5. PartInv'
  BY <1>1 DEF IInv, PartInv
<1> QED BY <1>1, <1>2, <1>3, <1>4, <1>5 DEF IInv, Current

(* A step that removes the peer, with or without a read before it.         *)
LEMMA RemovedIInv ==
  ASSUME IInv, up' = FALSE, out' = <<>>,
         UNCHANGED <<clientVars, p, end, handled, atDsp, part, answers>>,
         (\E n : Recv(n)) \/ UNCHANGED <<wire, data>>
  PROVE  IInv'
<1>1. /\ pdus' = pdus /\ written' = written /\ closed' = closed
      /\ p' = p /\ end' = end /\ handled' = handled /\ atDsp' = atDsp
      /\ part' = part /\ answers' = answers
  BY DEF clientVars
<1>2. ClientInv'
  BY <1>1 DEF IInv, ClientInv
<1>3. WireInv' /\ data' \in [Offsets -> Bytes \union {Uninit}]
  <2>1. CASE \E n : Recv(n)
    <3>1. PICK n : Recv(n)
      BY <2>1
    <3>2. UNCHANGED clientVars
      OBVIOUS
    <3>3. WireInv'
      BY <3>1, <3>2, ReceivedWire DEF WireInv
    <3> QED BY <3>1, <3>3, ReceivedData
  <2>2. CASE UNCHANGED <<wire, data>>
    <3>1. wire' = wire /\ data' = data
      BY <2>2
    <3>2. \A i : At(i)' = At(i)
      BY <1>1, <3>1 DEF At, NextByte, AtBoundary
    <3>3. \A k, j : Pos(k, j)' = Pos(k, j)
      BY <1>1 DEF Pos
    <3>4. Chained'
      BY <1>1, <3>1, <3>2, <3>3 DEF IInv, WireInv, Chained
    <3> QED BY <1>1, <3>1, <3>4 DEF IInv, WireInv, ReadInv
  <2> QED BY <2>1, <2>2
<1>4. ReadInv'
  BY <1>1, <1>3 DEF IInv, ReadInv
<1>5. HandledInv'
  <2>1. \A k : Content(k)' = Content(k)
    BY <1>1 DEF Content
  <2>2. WholeCount' = WholeCount
    BY <1>1 DEF WholeCount, AtBoundary
  <2> QED BY <1>1, <2>1, <2>2 DEF IInv, HandledInv
<1>6. Len(out') = 0 /\ out' \in Seq([seq : Bytes, p : 0..(ReplyBytes - 1)])
  BY EmptySeq
<1>7. ReplyInv'
  BY <1>1, <1>6 DEF IInv, ReplyInv
<1>8. PartInv'
  BY <1>1, <1>6 DEF IInv, PartInv
<1> QED BY <1>1, <1>2, <1>3, <1>4, <1>5, <1>7, <1>8 DEF IInv

(* Part of what was asked for: still the same PDU, not yet at its end.     *)
LEMMA RecvPartIInv ==
  ASSUME IInv, NEW n, RecvPart(n)
  PROVE  IInv'
<1>1. /\ Recv(n) /\ up /\ p + n < AskedEnd /\ p' = p + n /\ end' = AskedEnd
      /\ UNCHANGED <<clientVars, up, handled, atDsp, outVars>> /\ UNCHANGED clientVars
  BY DEF RecvPart, Recv
<1>2. /\ closed' \in BOOLEAN /\ up' = TRUE /\ pdus' = pdus
      /\ ClientInv' /\ HandledInv' /\ ReplyInv' /\ PartInv'
      /\ Current' = Current
  BY <1>1, RestKept DEF clientVars
<1>3. /\ n \in Nat /\ 1 <= n /\ Current \in 1..Len(pdus) /\ p \in Nat /\ AskedEnd \in Nat
      /\ pdus[Current] \in Pdus /\ HeaderBytes <= AskedEnd
      /\ AskedEnd <= SizeOf(pdus[Current])
      /\ AskedEnd # HeaderBytes => InRange(pdus[Current].len) /\ AskedEnd = pdus[Current].len
      /\ SizeOf(pdus[Current]) \in Nat
  BY <1>1, Received, AskedWithin, Sizes DEF IInv, ReadInv
<1>4. WireInv'
  <2>1. At(1)' = <<Current', p'>>
    <3>1. p + n < SizeOf(pdus[Current])
      BY <1>1, <1>3
    <3> QED BY <1>1, <1>2, <3>1, ReceivedWire DEF Pos
  <2> QED BY <1>1, <2>1, ReceivedWire DEF WireInv
<1>5. ReadInv'
  <2>1. AskedEnd' = AskedEnd
    BY <1>1, <1>3 DEF AskedEnd
  <2>2. p' \in Nat /\ end' \in Nat /\ p' < AskedEnd'
    BY <1>1, <1>3, <2>1
  <2>3. p' \in 1..(HeaderBytes - 1) => end' = HeaderBytes
    <3>1. CASE AskedEnd = HeaderBytes
      BY <1>1, <3>1
    <3>2. CASE AskedEnd # HeaderBytes
      <4>1. p # 0 /\ AskedEnd = end
        BY <3>2 DEF AskedEnd
      <4>2. p >= HeaderBytes
        BY <1>1, <1>3, <3>2, <4>1, Sizes DEF IInv, ReadInv
      <4> QED BY <1>1, <1>3, <4>2, Sizes
    <3> QED BY <3>1, <3>2
  <2>4. p' >= HeaderBytes => InRange(pdus[Current].len) /\ end' = pdus[Current].len
    BY <1>1, <1>3, Sizes
  <2>5. \A j \in 0..(p' - 1) : data'[j] = <<Current, j>>
    <3>1. \A j \in 0..(p + n - 1) : data'[j] = <<Current, j>>
      BY <1>1, ReceivedData
    <3>2. p' = p + n
      BY <1>1
    <3> QED BY <1>3, <3>1, <3>2
  <2>6. data' \in [Offsets -> Bytes \union {Uninit}]
    BY <1>1, ReceivedData
  <2> QED BY <1>2, <1>3, <2>2, <2>3, <2>4, <2>5, <2>6 DEF ReadInv, InRange
<1> QED BY <1>2, <1>4, <1>5 DEF IInv

(* The header is whole: its length is that of the PDU the server is at.    *)
LEMMA RecvHeaderIInv ==
  ASSUME IInv, NEW n, RecvHeader(n)
  PROVE  IInv'
<1>1. /\ Recv(n) /\ up /\ p + n = AskedEnd /\ p + n = HeaderBytes /\ p' = HeaderBytes
      /\ UNCHANGED <<clientVars, up, handled, atDsp, outVars>> /\ UNCHANGED clientVars
  BY DEF RecvHeader, Recv, HeaderDone
<1>2. /\ closed' \in BOOLEAN /\ up' = TRUE /\ pdus' = pdus
      /\ ClientInv' /\ HandledInv' /\ ReplyInv' /\ PartInv'
      /\ Current' = Current
  BY <1>1, RestKept DEF clientVars
<1>3. /\ n \in Nat /\ 1 <= n /\ Current \in 1..Len(pdus) /\ p \in Nat
      /\ pdus[Current] \in Pdus
  BY <1>1, Received, AskedWithin DEF IInv, ReadInv
<1>4. LengthsRead(data') = {pdus[Current].len}
  BY <1>1, <1>3, ReceivedData, Sizes
<1>5. /\ InRange(pdus[Current].len) /\ pdus[Current].len # HeaderBytes
      /\ end' = pdus[Current].len
  BY <1>4 DEF RecvHeader
<1>6. /\ pdus[Current].len \in Nat /\ HeaderBytes < pdus[Current].len
      /\ SizeOf(pdus[Current]) = pdus[Current].len
  BY <1>3, <1>5, Sizes DEF InRange
<1>7. WireInv'
  <2>1. At(1)' = <<Current', p'>>
    BY <1>1, <1>2, <1>6, ReceivedWire DEF Pos
  <2> QED BY <1>1, <2>1, ReceivedWire DEF WireInv
<1>8. ReadInv'
  <2>1. AskedEnd' = end'
    BY <1>1, Sizes DEF AskedEnd
  <2>2. \A j \in 0..(p' - 1) : data'[j] = <<Current, j>>
    <3>1. \A j \in 0..(p + n - 1) : data'[j] = <<Current, j>>
      BY <1>1, ReceivedData
    <3>2. p' = p + n
      BY <1>1
    <3> QED BY <1>3, <3>1, <3>2
  <2>3. data' \in [Offsets -> Bytes \union {Uninit}]
    BY <1>1, ReceivedData
  <2> QED BY <1>1, <1>2, <1>3, <1>5, <1>6, <2>1, <2>2, <2>3, Sizes DEF ReadInv, InRange
<1> QED BY <1>2, <1>7, <1>8 DEF IInv

(* The actions that remove the peer.                                       *)
LEMMA RecvBadLengthIInv ==
  ASSUME IInv, NEW n, RecvBadLength(n)
  PROVE  IInv'
BY RemovedIInv DEF RecvBadLength

LEMMA RecvRefusedIInv ==
  ASSUME IInv, NEW n, RecvRefused(n)
  PROVE  IInv'
BY RemovedIInv DEF RecvRefused, Whole

LEMMA RecvNothingIInv ==
  ASSUME IInv, RecvNothing
  PROVE  IInv'
BY RemovedIInv DEF RecvNothing, Remove, inVars

LEMMA WriteFailsIInv ==
  ASSUME IInv, WriteFails
  PROVE  IInv'
BY RemovedIInv DEF WriteFails, Remove, inVars

(* Closing moves no byte.                                                  *)
LEMMA ClientCloseIInv ==
  ASSUME IInv, ClientClose
  PROVE  IInv'
<1>1. /\ pdus' = pdus /\ written' = written /\ closed' = TRUE /\ wire' = wire /\ up' = up
      /\ p' = p /\ end' = end /\ data' = data /\ handled' = handled /\ atDsp' = atDsp
      /\ out' = out /\ part' = part /\ answers' = answers
  BY DEF ClientClose, inVars, outVars
<1>2. \A i : At(i)' = At(i)
  BY <1>1 DEF At, NextByte, AtBoundary
<1>3. WireInv'
  BY <1>1, <1>2 DEF IInv, WireInv, Chained, Pos, Current
<1>4. ReadInv'
  BY <1>1 DEF IInv, ReadInv, Current, AskedEnd
<1>5. HandledInv'
  BY <1>1 DEF IInv, HandledInv, Content, WholeCount, AtBoundary
<1>6. ClientInv' /\ ReplyInv' /\ PartInv'
  BY <1>1 DEF IInv, ClientInv, ReplyInv, PartInv
<1> QED BY <1>1, <1>3, <1>4, <1>5, <1>6 DEF IInv

(* What a client writes: the byte that was to come, of the last PDU.       *)
LEMMA Written ==
  ASSUME IInv, ClientWrite
  PROVE  /\ ClientInv'
         /\ Len(pdus) \in Nat /\ Len(pdus') \in Nat /\ Len(pdus) <= Len(pdus')
         /\ \A k \in 1..Len(pdus) : pdus[k] \in Pdus /\ pdus'[k] = pdus[k]
         /\ Len(pdus') \in 1..Len(pdus') /\ pdus'[Len(pdus')] \in Pdus
         /\ written' \in Nat /\ 1 <= written' /\ written' <= SizeOf(pdus'[Len(pdus')])
         /\ NextByte = <<Len(pdus'), written' - 1>>
         /\ NextByte' = Pos(Len(pdus), written)'
         /\ WholeCount' \in {WholeCount, WholeCount + 1} /\ WholeCount \in Int
         /\ WholeCount <= Len(pdus) /\ WholeCount' <= Len(pdus')
<1>1. Len(pdus) \in Nat /\ pdus \in Seq(Pdus) /\ written \in Nat
  BY LenProperties DEF IInv, ClientInv
<1>2. \A k \in 1..Len(pdus) : pdus[k] \in Pdus
  BY <1>1, ElementOfSeq
<1>3. CASE AtBoundary
  <2>1. PICK pdu \in Pdus : pdus' = Append(pdus, pdu)
    BY <1>3 DEF ClientWrite
  <2>2. /\ pdus' \in Seq(Pdus) /\ Len(pdus') = Len(pdus) + 1
        /\ \A k \in 1..Len(pdus) : pdus'[k] = pdus[k]
        /\ pdus'[Len(pdus) + 1] = pdu
    BY <1>1, <2>1, AppendProperties
  <2>3. written' = 1
    BY <1>3 DEF ClientWrite
  <2>4. SizeOf(pdu) \in Nat /\ 2 <= SizeOf(pdu)
    BY Sizes
  <2>5. pdus' # <<>>
    BY <1>1, <2>2, EmptySeq
  <2>6. ~AtBoundary'
    BY <1>1, <2>2, <2>3, <2>4, <2>5 DEF AtBoundary
  <2>7. NextByte = <<Len(pdus'), written' - 1>>
    BY <1>1, <1>3, <2>2, <2>3 DEF NextByte
  <2>8. NextByte' = Pos(Len(pdus), written)'
    BY <1>1, <2>2, <2>3, <2>4, <2>6 DEF NextByte, Pos
  <2>9. WholeCount = Len(pdus) /\ WholeCount' = Len(pdus)
    BY <1>1, <1>3, <2>2, <2>6 DEF WholeCount
  <2> QED BY <1>1, <1>2, <2>2, <2>3, <2>4, <2>5, <2>7, <2>8, <2>9 DEF ClientInv
<1>4. CASE ~AtBoundary
  <2>1. pdus # <<>> /\ written # SizeOf(pdus[Len(pdus)])
    BY <1>4 DEF AtBoundary
  <2>2. Len(pdus) \in 1..Len(pdus) /\ pdus[Len(pdus)] \in Pdus
    BY <1>1, <1>2, <2>1, EmptySeq
  <2>3. /\ SizeOf(pdus[Len(pdus)]) \in Nat
        /\ 1 <= written /\ written < SizeOf(pdus[Len(pdus)])
    BY <1>1, <2>1, <2>2, Sizes DEF IInv, ClientInv
  <2>4. pdus' = pdus /\ written' = written + 1
    BY <1>4 DEF ClientWrite
  <2>5. NextByte = <<Len(pdus'), written' - 1>>
    BY <1>1, <1>4, <2>4 DEF NextByte
  <2>6. AtBoundary' <=> written' = SizeOf(pdus[Len(pdus)])
    BY <2>1, <2>4 DEF AtBoundary
  <2>7. NextByte' = Pos(Len(pdus), written)'
    BY <1>1, <2>3, <2>4, <2>6 DEF NextByte, Pos
  <2>8. WholeCount = Len(pdus) - 1 /\ WholeCount' \in {Len(pdus) - 1, Len(pdus)}
    BY <1>4, <2>4 DEF WholeCount
  <2> QED BY <1>1, <1>2, <2>1, <2>2, <2>3, <2>4, <2>5, <2>7, <2>8 DEF ClientInv
<1> QED BY <1>3, <1>4

(* Kept apart from primed variables, among which SMT misses it.            *)
LEMMA OneBefore ==
  \A w, j, d \in Nat :
    /\ (w - 1) + 1 = w
    /\ j + (d - 1) = w - 1 => j + d = w
    /\ 1 <= j /\ j <= w /\ d <= w + 1 /\ j + d = w + 2
            => d - 1 \in 0..w /\ j + (d - 1) = w + 1
OBVIOUS

(* The new byte is the one that was to come; the others are as they were.  *)
LEMMA ClientWriteIInv ==
  ASSUME IInv, ClientWrite
  PROVE  IInv'
<1>1. /\ up = TRUE /\ up' = TRUE /\ closed' = closed
      /\ p' = p /\ end' = end /\ data' = data /\ handled' = handled /\ atDsp' = atDsp
      /\ out' = out /\ part' = part /\ answers' = answers
      /\ wire' = Append(wire, <<Len(pdus'), written' - 1>>)
  BY DEF ClientWrite, inVars, outVars, IInv
<1> DEFINE L == Len(wire)
           K == Len(pdus')
           new == <<K, written' - 1>>
<1>2. /\ Len(pdus) \in Nat /\ K \in Nat /\ Len(pdus) <= K /\ K >= 1
      /\ \A k \in 1..Len(pdus) : pdus[k] \in Pdus /\ pdus'[k] = pdus[k]
      /\ pdus'[K] \in Pdus /\ SizeOf(pdus'[K]) \in Nat
      /\ written' \in Nat /\ 1 <= written' /\ written' <= SizeOf(pdus'[K])
      /\ NextByte = new
  BY Written, Sizes
<1>3. new \in Bytes /\ new[1] = K /\ new[2] = written' - 1
  BY <1>2 DEF Bytes
<1> HIDE DEF new
<1>4. L \in Nat /\ wire \in Seq(Bytes)
  BY LenProperties DEF IInv, WireInv
<1>5. /\ wire' \in Seq(Bytes) /\ Len(wire') = L + 1
      /\ \A i \in 1..L : wire'[i] = wire[i]
      /\ wire'[L + 1] = new
  BY <1>1, <1>3, <1>4, AppendProperties DEF new
<1>6. ASSUME NEW i \in 1..(L + 1)
      PROVE  At(i)' = At(i)
  <2>1. CASE i <= L
    BY <1>4, <1>5, <2>1 DEF At
  <2>2. CASE i = L + 1
    BY <1>2, <1>4, <1>5, <2>2 DEF At
  <2> QED BY <1>4, <2>1, <2>2
<1>7. NextByte' = Pos(Len(pdus), written)'
  BY Written
<1>8. ASSUME NEW i \in 1..L
      PROVE  /\ wire[i][1] \in 1..Len(pdus) /\ wire[i][2] \in Nat
             /\ SizeOf(pdus[wire[i][1]]) \in Nat
             /\ wire[i][2] < SizeOf(pdus[wire[i][1]])
             /\ pdus'[wire[i][1]] = pdus[wire[i][1]]
  <2>1. wire[i][1] \in 1..Len(pdus)
    BY DEF IInv, WireInv
  <2>2. SizeOf(pdus[wire[i][1]]) \in Nat
    BY <1>2, <2>1, Sizes
  <2>3. wire[i][2] \in 0..(SizeOf(pdus[wire[i][1]]) - 1)
    BY DEF IInv, WireInv
  <2> QED BY <1>2, <2>1, <2>2, <2>3
<1>9. ASSUME NEW i \in 1..Len(wire')
      PROVE  /\ wire'[i][1] \in 1..Len(pdus')
             /\ wire'[i][2] \in 0..(SizeOf(pdus'[wire'[i][1]]) - 1)
  <2>1. CASE i \in 1..L
    <3>1. wire'[i] = wire[i]
      BY <1>5, <2>1
    <3>2. /\ wire[i][1] \in 1..Len(pdus) /\ wire[i][2] \in Nat
          /\ SizeOf(pdus'[wire[i][1]]) \in Nat
          /\ wire[i][2] < SizeOf(pdus'[wire[i][1]])
      BY <1>8, <2>1
    <3>3. wire[i][1] \in 1..Len(pdus') /\ wire[i][2] \in 0..(SizeOf(pdus'[wire[i][1]]) - 1)
      BY <1>2, <3>2
    <3> QED BY <3>1, <3>3
  <2>2. CASE i = L + 1
    BY <1>2, <1>3, <1>5, <2>2
  <2> QED BY <1>4, <1>5, <2>1, <2>2
<1>10. Chained'
  <2> SUFFICES ASSUME NEW i \in 1..Len(wire'), NEW d \in 0..Len(wire'),
                      i + d <= Len(wire') + 1,
                      wire'[i][2] + d <= SizeOf(pdus'[wire'[i][1]])
               PROVE  At(i + d)' = Pos(wire[i][1], wire[i][2] + d)'
    BY DEF Chained
  <2>0. i \in 1..(L + 1) /\ d \in 0..(L + 1) /\ i \in Nat /\ d \in Nat /\ L + 1 \in Nat
    BY <1>4, <1>5
  <2>1. CASE i = L + 1 /\ d = 0
    <3>1. i + d = L + 1
      BY <1>4, <2>0, <2>1
    <3>2. At(i + d)' = new
      BY <1>4, <1>5, <3>1 DEF At
    <3>3. written' - 1 < SizeOf(pdus'[K]) /\ (written' - 1) + 0 = written' - 1
      BY <1>2
    <3>4. wire'[i][1] = K /\ wire'[i][2] + d = written' - 1
      BY <1>3, <1>5, <2>1, <3>3
    <3>5. Pos(wire[i][1], wire[i][2] + d)' = new
      BY <3>3, <3>4 DEF Pos, new
    <3> QED BY <3>2, <3>5
  <2>2. CASE i = L + 1 /\ d = 1
    <3>1. (written' - 1) + 1 = written' /\ i + d = L + 2
      <4>1. written' \in Nat
        BY <1>2
      <4>2. (written' - 1) + 1 = written'
        BY <4>1, OneBefore
      <4>3. i + d = L + 2
        BY <1>4, <2>2
      <4> QED BY <4>2, <4>3
    <3>2. wire'[i][1] = K /\ wire'[i][2] + d = written'
      BY <1>3, <1>5, <2>2, <3>1
    <3>3. Pos(wire[i][1], wire[i][2] + d)' = Pos(Len(pdus), written)'
      BY <3>2 DEF Pos
    <3>4. At(i + d)' = NextByte'
      BY <1>4, <1>5, <3>1 DEF At
    <3> QED BY <1>7, <3>3, <3>4
  <2>3. CASE i \in 1..L /\ i + d <= L + 1
    <3>1. d \in 0..L /\ i + d \in 1..(L + 1) /\ wire'[i] = wire[i]
      BY <1>4, <1>5, <2>3
    <3>2. wire[i][2] + d <= SizeOf(pdus[wire[i][1]])
      BY <1>8, <2>3, <3>1
    <3>3. At(i + d) = Pos(wire[i][1], wire[i][2] + d)
      BY <2>3, <3>1, <3>2 DEF IInv, WireInv, Chained
    <3> QED BY <1>6, <1>8, <2>3, <3>1, <3>3 DEF Pos
  <2>4. CASE i \in 1..L /\ i + d = L + 2
    <3> DEFINE k == wire[i][1]
               j == wire[i][2]
    <3>1. /\ d - 1 \in 0..L /\ i + (d - 1) = L + 1 /\ wire'[i] = wire[i]
      <4>1. L \in Nat /\ i \in Nat /\ d \in Nat /\ 1 <= i /\ i <= L /\ d <= L + 1
        BY <1>4, <2>0, <2>4
      <4>2. wire'[i] = wire[i]
        BY <1>5, <2>4
      <4> QED BY <2>4, <4>1, <4>2, OneBefore
    <3>2. /\ k \in 1..Len(pdus) /\ j \in Nat /\ SizeOf(pdus[k]) \in Nat
          /\ pdus'[k] = pdus[k] /\ j + d <= SizeOf(pdus[k]) /\ d \in Nat /\ 1 <= d
      BY <1>4, <1>8, <2>4, <3>1
    <3>3. At(L + 1) = Pos(k, j + (d - 1))
      <4>1. j + (d - 1) <= SizeOf(pdus[k]) /\ i + (d - 1) <= L + 1
        BY <1>4, <2>0, <3>1, <3>2
      <4> QED BY <2>4, <3>1, <4>1 DEF IInv, WireInv, Chained
    <3>4. At(L + 1) = new
      BY <1>2, <1>4 DEF At
    <3>5. Pos(k, j + (d - 1)) = <<k, j + (d - 1)>>
      BY <3>2 DEF Pos
    <3>6. k = K /\ j + (d - 1) = written' - 1
      BY <3>3, <3>4, <3>5 DEF new
    <3>7. j + d = written'
      <4>1. written' \in Nat /\ d \in Nat /\ j \in Nat
        BY <1>2, <2>0, <3>2
      <4> QED BY <3>6, <4>1, OneBefore
    <3>8. Pos(wire[i][1], wire[i][2] + d)' = Pos(Len(pdus), written)'
      BY <3>1, <3>6, <3>7 DEF Pos
    <3>9. At(i + d)' = NextByte'
      BY <1>4, <1>5, <2>4 DEF At
    <3> QED BY <1>7, <3>8, <3>9
  <2> QED BY <1>4, <1>5, <2>1, <2>2, <2>3, <2>4
<1>11. WireInv'
  <2>1. At(1)' = <<Current', p'>>
    <3>1. At(1)' = At(1)
      BY <1>4, <1>6
    <3> QED BY <1>1, <3>1 DEF IInv, WireInv, Current
  <2> QED BY <1>5, <1>9, <1>10, <2>1 DEF WireInv
<1>12. ReadInv'
  <2>1. AskedEnd' = AskedEnd /\ Current' = Current
    BY <1>1 DEF AskedEnd, Current
  <2>2. p # 0 => Current \in 1..Len(pdus) /\ Current \in 1..Len(pdus')
    BY <1>1, <1>2 DEF IInv, ReadInv
  <2>3. p # 0 => pdus'[Current] = pdus[Current]
    BY <1>2, <2>2
  <2>4. p >= HeaderBytes => p # 0
    BY Sizes DEF IInv, ReadInv
  <2> QED BY <1>1, <2>1, <2>2, <2>3, <2>4 DEF IInv, ReadInv
<1>13. HandledInv'
  <2>1. Len(handled) <= WholeCount /\ Len(handled) \in Nat
    BY LenProperties DEF IInv, HandledInv
  <2>2. Len(handled) <= WholeCount' /\ Len(handled) <= Len(pdus)
    BY <2>1, Written
  <2>3. ASSUME NEW k \in 1..Len(handled) PROVE handled[k] = Content(k)'
    <3>1. pdus'[k] = pdus[k]
      BY <1>2, <2>1, <2>2
    <3> QED BY <3>1 DEF IInv, HandledInv, Content
  <2> QED BY <1>1, <2>2, <2>3 DEF IInv, HandledInv
<1>14. ReplyInv' /\ PartInv'
  BY <1>1 DEF IInv, ReplyInv, PartInv
<1> QED BY <1>1, <1>11, <1>12, <1>13, <1>14, Written DEF IInv

(* The PDU whose last byte is read: the client has written it whole, and   *)
(* it is handled as it was written.                                        *)
LEMMA PduRead ==
  ASSUME IInv, NEW n, RecvPdu(n)
  PROVE  /\ Current \in Nat /\ Current \in 1..Len(pdus) /\ Current <= WholeCount
         /\ SizeOf(pdus[Current]) = p + n
         /\ handled' = Append(handled, Content(Current))
         /\ Content(Current) \in Contents
         /\ atDsp' = atDsp \/ atDsp' = Append(atDsp, <<Current, HeaderBytes>>)
<1>1. /\ Recv(n) /\ up /\ p + n = AskedEnd
      /\ HeaderDone(n) => HeaderBytes \in LengthsRead(data')
  BY DEF RecvPdu, Whole, Recv
<1>2. /\ n \in Nat /\ 1 <= n /\ n <= Len(wire) /\ Len(wire) \in Nat
      /\ Current \in 1..Len(pdus) /\ Current \in Nat /\ p \in Nat /\ AskedEnd \in Nat
      /\ pdus[Current] \in Pdus /\ HeaderBytes <= AskedEnd
      /\ AskedEnd # HeaderBytes => InRange(pdus[Current].len) /\ AskedEnd = pdus[Current].len
      /\ At(n + 1) = Pos(Current, p + n)
  BY <1>1, Received, AskedWithin DEF IInv, ReadInv
<1>3. LengthsRead(data') = {pdus[Current].len}
  BY <1>1, <1>2, ReceivedData
<1>4. SizeOf(pdus[Current]) = AskedEnd /\ pdus[Current].len = AskedEnd
  <2>1. CASE AskedEnd = HeaderBytes
    BY <1>1, <1>2, <1>3, <2>1, Sizes DEF HeaderDone, InRange
  <2>2. CASE AskedEnd # HeaderBytes
    BY <1>2, <2>2, Sizes
  <2> QED BY <2>1, <2>2
<1>5. \A j \in 0..(AskedEnd - 1) : data'[j] = <<Current, j>>
  <2> SUFFICES ASSUME NEW j \in 0..(AskedEnd - 1) PROVE data'[j] = <<Current, j>>
    OBVIOUS
  <2>1. j \in 0..(p + n - 1)
    BY <1>1, <1>2
  <2> QED BY <1>1, <2>1, ReceivedData
<1>6. PICK code \in CodesRead(data') :
        /\ Understood(code, AskedEnd)
        /\ atDsp' = IF code \in Requests THEN Append(atDsp, data'[HeaderBytes]) ELSE atDsp
        /\ handled' = Append(handled, [j \in 0..(AskedEnd - 1) |-> data'[j]])
  BY <1>3, <1>4 DEF RecvPdu
<1>7. handled' = Append(handled, Content(Current))
  <2>1. [j \in 0..(AskedEnd - 1) |-> data'[j]] = Content(Current)
    BY <1>4, <1>5 DEF Content
  <2> QED BY <1>6, <2>1
<1>8. Content(Current) \in Contents
  <2>1. \A j \in 0..(AskedEnd - 1) : <<Current, j>> \in Bytes
    BY <1>2 DEF Bytes
  <2>2. Content(Current) \in [0..(AskedEnd - 1) -> Bytes]
    BY <1>4, <2>1 DEF Content
  <2> QED BY <1>2, <2>2 DEF Contents
<1>9. atDsp' = atDsp \/ atDsp' = Append(atDsp, <<Current, HeaderBytes>>)
  <2>1. CASE code \in Requests
    <3>1. NeededBytes[code] \in Nat /\ 1 <= NeededBytes[code]
      BY <2>1, PeerStreamAssumption DEF NeededBytes, Requests
    <3>2. HeaderBytes + NeededBytes[code] <= AskedEnd
      BY <1>6, <2>1 DEF Understood
    <3>3. HeaderBytes \in 0..(AskedEnd - 1)
      BY <1>2, <3>1, <3>2, Sizes
    <3> QED BY <1>5, <1>6, <2>1, <3>3
  <2>2. CASE code \notin Requests
    BY <1>6, <2>2
  <2> QED BY <2>1, <2>2
<1>10. Current <= WholeCount
  <2>1. At(n + 1) = <<Current + 1, 0>>
    BY <1>1, <1>2, <1>4 DEF Pos
  <2>2. Len(pdus) \in Nat
    BY LenProperties DEF IInv, ClientInv
  <2>3. CASE n + 1 <= Len(wire)
    <3>1. wire[n + 1][1] \in 1..Len(pdus)
      BY <1>2, <2>3 DEF IInv, WireInv
    <3>2. wire[n + 1][1] = Current + 1
      BY <2>1, <2>3 DEF At
    <3> QED BY <1>2, <2>2, <3>1, <3>2 DEF WholeCount
  <2>4. CASE ~(n + 1 <= Len(wire))
    <3>1. NextByte = <<Current + 1, 0>>
      BY <2>1, <2>4 DEF At
    <3>2. CASE AtBoundary
      BY <1>2, <2>2, <3>1, <3>2 DEF NextByte, WholeCount
    <3>3. CASE ~AtBoundary
      <4>1. pdus # <<>> /\ written = 0
        BY <3>1, <3>3 DEF NextByte, AtBoundary
      <4> QED BY <1>2, <2>2, <4>1 DEF IInv, ClientInv
    <3> QED BY <3>2, <3>3
  <2> QED BY <2>3, <2>4
<1> QED BY <1>1, <1>2, <1>4, <1>7, <1>8, <1>9, <1>10

(* The PDU is whole: the next byte is the first of the one after it.       *)
LEMMA RecvPduIInv ==
  ASSUME IInv, NEW n, RecvPdu(n)
  PROVE  IInv'
<1>1. /\ Recv(n) /\ up = TRUE /\ up' = TRUE /\ closed' = closed /\ p' = 0 /\ end' = AskedEnd
      /\ pdus' = pdus /\ written' = written /\ UNCHANGED clientVars
      /\ out' = out /\ part' = part /\ answers' = answers
  BY DEF RecvPdu, Whole, Recv, clientVars, outVars, IInv
<1>2. /\ Current \in Nat /\ Current \in 1..Len(pdus) /\ Current <= WholeCount
      /\ SizeOf(pdus[Current]) = p + n
      /\ handled' = Append(handled, Content(Current))
      /\ Content(Current) \in Contents
      /\ atDsp' = atDsp \/ atDsp' = Append(atDsp, <<Current, HeaderBytes>>)
  BY PduRead
<1>3. /\ handled \in Seq(Contents) /\ Len(handled) \in Nat
      /\ handled' \in Seq(Contents) /\ Len(handled') = Current
      /\ \A k \in 1..Len(handled) : handled'[k] = handled[k]
      /\ handled'[Current] = Content(Current)
  BY <1>2, LenProperties, AppendProperties DEF IInv, HandledInv, Current
<1>4. Current' = Current + 1
  BY <1>3 DEF Current
<1>5. WireInv'
  <2>1. At(1)' = Pos(Current, p + n)
    BY <1>1, ReceivedWire
  <2>2. p \in Nat /\ n \in Nat
    BY <1>1, Received DEF IInv, ReadInv
  <2>3. Pos(Current, p + n) = <<Current + 1, 0>>
    BY <1>2, <2>2 DEF Pos
  <2> QED BY <1>1, <1>4, <2>1, <2>3, ReceivedWire DEF WireInv
<1>6. ReadInv'
  <2>1. AskedEnd' = HeaderBytes /\ AskedEnd \in Nat
    BY <1>1, AskedWithin DEF AskedEnd
  <2>2. data' \in [Offsets -> Bytes \union {Uninit}]
    BY <1>1, ReceivedData
  <2> QED BY <1>1, <2>1, <2>2, Sizes DEF ReadInv
<1>7. HandledInv'
  <2>1. WholeCount' = WholeCount /\ \A k : Content(k)' = Content(k)
    BY <1>1 DEF WholeCount, AtBoundary, Content
  <2>2. ASSUME NEW k \in 1..Current PROVE handled'[k] = Content(k)
    <3>1. CASE k = Current
      BY <1>3, <3>1
    <3>2. CASE k # Current
      <4>1. k \in 1..Len(handled)
        BY <1>3, <3>2 DEF Current
      <4> QED BY <1>3, <4>1 DEF IInv, HandledInv
    <3> QED BY <3>1, <3>2
  <2> QED BY <1>2, <1>3, <2>1, <2>2 DEF HandledInv
<1>8. ReplyInv'
  <2> DEFINE L == Len(atDsp)
  <2>1. /\ atDsp \in Seq(Bytes) /\ L \in Nat
        /\ \A i \in 1..L : atDsp[i][1] \in 1..Len(handled)
        /\ \A i \in 1..Len(out) : out[i].seq[1] \in 1..Len(handled)
        /\ \A i \in 1..Len(answers) : answers[i] \in 1..Len(handled)
    BY LenProperties DEF IInv, ReplyInv
  <2>2. \A m \in 1..Len(handled) : m \in 1..Len(handled') /\ m < Current
    BY <1>3 DEF Current
  <2>3. CASE atDsp' = atDsp
    BY <1>1, <2>1, <2>2, <2>3 DEF IInv, ReplyInv
  <2>4. CASE atDsp' = Append(atDsp, <<Current, HeaderBytes>>)
    <3>1. <<Current, HeaderBytes>> \in Bytes
      BY <1>2, Sizes DEF Bytes
    <3>2. /\ atDsp' \in Seq(Bytes) /\ Len(atDsp') = L + 1
          /\ \A i \in 1..L : atDsp'[i] = atDsp[i]
          /\ atDsp'[L + 1] = <<Current, HeaderBytes>>
      BY <2>1, <2>4, <3>1, AppendProperties
    <3>3. Current \in 1..Len(handled')
      BY <1>2, <1>3
    <3>4. ASSUME NEW i \in 1..(L + 1)
          PROVE  /\ atDsp'[i][1] \in 1..Len(handled')
                 /\ \A j \in 1..(i - 1) : atDsp'[j][1] < atDsp'[i][1]
                 /\ \A j \in 1..Len(out) : out[j].seq[1] < atDsp'[i][1]
                 /\ \A j \in 1..Len(answers) : answers[j] < atDsp'[i][1]
      <4>1. CASE i \in 1..L
        <5>1. \A j \in 1..(i - 1) : j \in 1..L
          BY <2>1, <4>1
        <5> QED BY <2>1, <2>2, <3>2, <4>1, <5>1 DEF IInv, ReplyInv
      <4>2. CASE i = L + 1
        <5>1. \A j \in 1..(i - 1) : j \in 1..L
          BY <2>1, <4>2
        <5>2. atDsp'[i][1] = Current
          BY <3>2, <4>2
        <5> QED BY <2>1, <2>2, <3>2, <3>3, <5>1, <5>2
      <4> QED BY <2>1, <4>1, <4>2
    <3> QED BY <1>1, <2>1, <2>2, <3>2, <3>4 DEF IInv, ReplyInv
  <2> QED BY <1>2, <2>3, <2>4
<1>9. ClientInv' /\ PartInv'
  BY <1>1 DEF IInv, ClientInv, PartInv
<1> QED BY <1>1, <1>5, <1>6, <1>7, <1>8, <1>9 DEF IInv

-----------------------------------------------------------------------------
(* The first request at the DSP goes behind all replies queued before it.  *)
LEMMA QueueReplyIInv ==
  ASSUME IInv, QueueReply
  PROVE  IInv'
<1>1. /\ pdus' = pdus /\ written' = written /\ closed' = closed /\ wire' = wire /\ up' = up
      /\ up = TRUE /\ p' = p /\ end' = end /\ data' = data /\ handled' = handled
      /\ part' = part /\ answers' = answers
      /\ atDsp # <<>> /\ atDsp' = Tail(atDsp)
      /\ out' = out \/ out' = Append(out, [seq |-> Head(atDsp), p |-> 0])
  BY DEF QueueReply, clientVars, inVars, IInv
<1>2. \A i : At(i)' = At(i)
  BY <1>1 DEF At, NextByte, AtBoundary
<1>3. ClientInv' /\ WireInv' /\ ReadInv' /\ HandledInv'
  <2>1. WireInv'
    BY <1>1, <1>2 DEF IInv, WireInv, Chained, Pos, Current
  <2>2. ReadInv'
    BY <1>1 DEF IInv, ReadInv, Current, AskedEnd
  <2>3. HandledInv'
    BY <1>1 DEF IInv, HandledInv, Content, WholeCount, AtBoundary
  <2> QED BY <1>1, <2>1, <2>2, <2>3 DEF IInv, ClientInv
<1> DEFINE first == [seq |-> Head(atDsp), p |-> 0]
           L == Len(atDsp)
           M == Len(out)
<1>4. /\ L \in Nat /\ 1 <= L /\ M \in Nat /\ atDsp' \in Seq(Bytes) /\ Len(atDsp') = L - 1
      /\ \A i \in 1..(L - 1) : atDsp'[i] = atDsp[i + 1]
      /\ Head(atDsp) = atDsp[1] /\ atDsp[1] \in Bytes
  BY <1>1, EmptySeq, LenProperties, HeadTailProperties, ElementOfSeq DEF IInv, ReplyInv
<1>5. first \in [seq : Bytes, p : 0..(ReplyBytes - 1)]
  BY <1>4, Sizes
<1>6. first.seq = atDsp[1] /\ first.p = 0
  BY <1>4
<1> HIDE DEF first
<1>7. /\ out' \in Seq([seq : Bytes, p : 0..(ReplyBytes - 1)])
      /\ \A i \in 1..M : out'[i] = out[i]
      /\ \/ out' = out
         \/ Len(out') = M + 1 /\ out'[M + 1] = first
  <2>1. out \in Seq([seq : Bytes, p : 0..(ReplyBytes - 1)])
    BY DEF IInv, ReplyInv
  <2>2. CASE out' = out
    BY <2>1, <2>2
  <2>3. CASE out' = Append(out, first)
    BY <1>5, <2>1, <2>3, AppendProperties
  <2> QED BY <1>1, <2>2, <2>3 DEF first
<1>8. ASSUME NEW i \in 1..Len(out')
      PROVE  \/ i \in 1..M /\ out'[i] = out[i]
             \/ i = M + 1 /\ out'[i].seq = atDsp[1] /\ out'[i].p = 0 /\ out'[i] = first
  BY <1>4, <1>6, <1>7
<1>9. /\ \A i \in 1..L : atDsp[i][1] \in 1..Len(handled)
      /\ \A i \in 1..M : out[i].seq[1] \in 1..Len(handled)
      /\ \A i \in 1..Len(answers) : answers[i] \in 1..Len(handled)
      /\ \A i \in 1..L : /\ \A j \in 1..(i - 1) : atDsp[j][1] < atDsp[i][1]
                         /\ \A j \in 1..M : out[j].seq[1] < atDsp[i][1]
                         /\ \A j \in 1..Len(answers) : answers[j] < atDsp[i][1]
      /\ \A i \in 1..M : /\ \A j \in 1..(i - 1) : out[j].seq[1] < out[i].seq[1]
                         /\ \A j \in 1..Len(answers) : answers[j] < out[i].seq[1]
  BY DEF IInv, ReplyInv
<1>10. ReplyInv'
  <2>1. ASSUME NEW i \in 1..(L - 1)
        PROVE  /\ atDsp'[i][1] \in 1..Len(handled)
               /\ \A j \in 1..(i - 1) : atDsp'[j][1] < atDsp'[i][1]
               /\ \A j \in 1..Len(out') : out'[j].seq[1] < atDsp'[i][1]
               /\ \A j \in 1..Len(answers) : answers[j] < atDsp'[i][1]
    <3>1. i + 1 \in 1..L /\ atDsp'[i] = atDsp[i + 1] /\ 1 \in 1..((i + 1) - 1)
      BY <1>4
    <3>2. ASSUME NEW j \in 1..(i - 1) PROVE atDsp'[j][1] < atDsp'[i][1]
      <4>1. j + 1 \in 1..((i + 1) - 1) /\ j \in 1..(L - 1)
        BY <1>4
      <4>2. atDsp[j + 1][1] < atDsp[i + 1][1]
        BY <1>9, <3>1, <4>1
      <4> QED BY <1>4, <3>1, <4>1, <4>2
    <3>3. ASSUME NEW j \in 1..Len(out') PROVE out'[j].seq[1] < atDsp'[i][1]
      BY <1>8, <1>9, <3>1
    <3> QED BY <1>9, <3>1, <3>2, <3>3
  <2>2. ASSUME NEW i \in 1..Len(out')
        PROVE  /\ out'[i].seq[1] \in 1..Len(handled)
               /\ \A j \in 1..(i - 1) : out'[j].seq[1] < out'[i].seq[1]
               /\ \A j \in 1..Len(answers) : answers[j] < out'[i].seq[1]
    <3>1. \A j \in 1..(i - 1) : j \in 1..M
      BY <1>4, <1>8
    <3>2. 1 \in 1..L
      BY <1>4
    <3> QED BY <1>7, <1>8, <1>9, <3>1, <3>2
  <2> QED BY <1>1, <1>4, <1>7, <1>9, <2>1, <2>2 DEF IInv, ReplyInv
<1>11. PartInv'
  <2>1. \A i \in 2..Len(out') : out'[i].p = 0
    <3> SUFFICES ASSUME NEW i \in 2..Len(out') PROVE out'[i].p = 0
      OBVIOUS
    <3>1. i \in 1..Len(out') /\ (i \in 1..M => i \in 2..M)
      BY <1>4
    <3> QED BY <1>8, <3>1 DEF IInv, PartInv
  <2>2. CASE out' = out
    BY <1>1, <2>1, <2>2 DEF IInv, PartInv
  <2>3. CASE out' # out
    <3>1. Len(out') = M + 1 /\ out'[M + 1] = first /\ out' # <<>>
      BY <1>4, <1>7, <2>3, EmptySeq
    <3>2. CASE out = <<>>
      <4>1. M = 0 /\ part = <<>> /\ Len(part) = 0
        BY <1>1, <3>2, EmptySeq DEF IInv, PartInv
      <4>2. out'[1].p = 0
        BY <1>6, <3>1, <4>1
      <4> QED BY <1>1, <2>1, <3>1, <4>1, <4>2 DEF IInv, PartInv
    <3>3. CASE out # <<>>
      <4>1. 1 \in 1..M
        BY <1>4, <3>3, EmptySeq DEF IInv, ReplyInv
      <4>2. out'[1] = out[1]
        BY <1>7, <4>1
      <4> QED BY <1>1, <2>1, <3>1, <3>3, <4>2 DEF IInv, PartInv
    <3> QED BY <3>2, <3>3
  <2> QED BY <2>2, <2>3
<1> QED BY <1>1, <1>3, <1>10, <1>11 DEF IInv

(* What the client has after send(): the beginning of the first reply, or  *)
(* the whole of it.                                                        *)
LEMMA Delivered ==
  ASSUME IInv, NEW n \in 1..ReplyBytes, WriteReply(n)
  PROVE  /\ Len(out) \in Nat /\ 1 <= Len(out) /\ up /\ n \in 1..(ReplyBytes - out[1].p)
         /\ out[1] \in [seq : Bytes, p : 0..(ReplyBytes - 1)]
         /\ \/ /\ out[1].p + n < ReplyBytes
               /\ out' = [out EXCEPT ![1].p = @ + n]
               /\ answers' = answers
               /\ part' \in Seq(Bytes \X Nat) /\ Len(part') = out[1].p + n
               /\ \A i \in 1..Len(part') : part'[i] = <<out[1].seq, i - 1>>
            \/ /\ out' = Tail(out)
               /\ answers' = Append(answers, out[1].seq[1])
               /\ part' = <<>>
<1> DEFINE r == out[1]
           slice == ReplySlice(r, n)
           bytes == part \o slice
<1>1. up /\ out # <<>> /\ out \in Seq([seq : Bytes, p : 0..(ReplyBytes - 1)])
  BY DEF WriteReply, IInv, ReplyInv
<1>2. Head(out) = r /\ Len(out) \in Nat /\ 1 <= Len(out)
  BY <1>1, EmptySeq, LenProperties
<1>3. r \in [seq : Bytes, p : 0..(ReplyBytes - 1)]
  <2> DEFINE Replies == [seq : Bytes, p : 0..(ReplyBytes - 1)]
  <2>1. out \in Seq(Replies) /\ 1 \in 1..Len(out)
    BY <1>1, <1>2
  <2> HIDE DEF Replies
  <2>2. out[1] \in Replies
    BY <2>1, ElementOfSeq
  <2> QED BY <2>2 DEF Replies
<1>4. /\ n \in 1..(ReplyBytes - r.p)
      /\ ClientGets(bytes)
      /\ out' = IF r.p + n >= ReplyBytes THEN Tail(out) ELSE [out EXCEPT ![1].p = @ + n]
  BY <1>2 DEF WriteReply
<1>5. r.seq \in Bytes /\ r.p \in Nat /\ r.p + n <= ReplyBytes /\ n \in Nat /\ 1 <= n
  BY <1>3, <1>4, Sizes
<1>6. part \in Seq(Bytes \X Nat) /\ Len(part) = r.p
      /\ \A i \in 1..r.p : part[i] = <<r.seq, i - 1>>
  BY <1>1 DEF IInv, PartInv
<1>7. /\ slice \in Seq(Bytes \X Nat) /\ Len(slice) = n
      /\ \A i \in 1..n : slice[i] = <<r.seq, r.p + i - 1>>
  <2>1. slice = [i \in 1..n |-> <<r.seq, r.p + i - 1>>]
    BY DEF ReplySlice
  <2>2. ASSUME NEW i \in 1..n PROVE <<r.seq, r.p + i - 1>> \in Bytes \X Nat
    BY <1>5
  <2>3. slice \in [1..n -> Bytes \X Nat]
    BY <2>1, <2>2
  <2>4. slice \in Seq(Bytes \X Nat)
    BY <1>5, <2>3, IsASeq
  <2>5. Len(slice) = n
    BY <1>5, <2>3, <2>4, LenProperties
  <2> QED BY <2>1, <2>4, <2>5
<1> HIDE DEF slice
<1>8. /\ bytes \in Seq(Bytes \X Nat) /\ Len(bytes) = r.p + n
      /\ \A i \in 1..(r.p + n) : bytes[i] = IF i <= r.p THEN part[i] ELSE slice[i - r.p]
  <2> DEFINE Got == Bytes \X Nat
  <2>1. part \in Seq(Got) /\ slice \in Seq(Got)
    BY <1>6, <1>7
  <2> HIDE DEF Got
  <2>2. /\ part \o slice \in Seq(Got)
        /\ Len(part \o slice) = Len(part) + Len(slice)
        /\ \A i \in 1..(Len(part) + Len(slice)) :
              (part \o slice)[i] = IF i <= Len(part) THEN part[i] ELSE slice[i - Len(part)]
    BY <2>1, ConcatProperties
  <2>3. Len(part) = r.p /\ Len(slice) = n
    BY <1>6, <1>7
  <2> QED BY <2>2, <2>3 DEF Got
<1>9. \A i \in 1..(r.p + n) : bytes[i] = <<r.seq, i - 1>>
  <2> SUFFICES ASSUME NEW i \in 1..(r.p + n) PROVE bytes[i] = <<r.seq, i - 1>>
    OBVIOUS
  <2>1. CASE i <= r.p
    <3>1. i \in 1..r.p
      BY <1>5, <2>1
    <3> QED BY <1>6, <1>8, <2>1, <3>1
  <2>2. CASE ~(i <= r.p)
    <3>1. i - r.p \in 1..n /\ r.p + (i - r.p) - 1 = i - 1
      BY <1>5, <2>2
    <3>2. slice[i - r.p] = <<r.seq, r.p + (i - r.p) - 1>>
      BY <1>7, <3>1
    <3> QED BY <1>8, <2>2, <3>1, <3>2
  <2> QED BY <2>1, <2>2
<1> HIDE DEF bytes
<1>10. CASE r.p + n < ReplyBytes
  <2>1. part' = bytes /\ answers' = answers
    BY <1>4, <1>8, <1>10 DEF ClientGets
  <2>2. out' = [out EXCEPT ![1].p = @ + n]
    BY <1>4, <1>5, <1>10, Sizes
  <2> QED BY <1>1, <1>2, <1>3, <1>4, <1>8, <1>9, <1>10, <2>1, <2>2
<1>11. CASE ~(r.p + n < ReplyBytes)
  <2>1. r.p + n = ReplyBytes /\ Len(bytes) = ReplyBytes
    BY <1>5, <1>8, <1>11, Sizes
  <2>2. /\ part' = SubSeq(bytes, ReplyBytes + 1, Len(bytes))
        /\ answers' = Append(answers, IF IsReplyTo(bytes, bytes[1][1]) THEN bytes[1][1][1]
                                      ELSE 0)
    BY <1>4, <2>1, Sizes DEF ClientGets
  <2>3. part' = <<>>
    BY <1>8, <2>1, <2>2, Sizes
  <2>4. \A i \in 1..ReplyBytes : bytes[i] = <<r.seq, i - 1>>
    BY <1>9, <2>1
  <2>5. bytes[1][1] = r.seq
    BY <2>4, Sizes
  <2>6. IsReplyTo(bytes, bytes[1][1])
    BY <2>4, <2>5 DEF IsReplyTo
  <2>7. answers' = Append(answers, r.seq[1])
    BY <2>2, <2>5, <2>6
  <2>8. out' = Tail(out)
    BY <1>4, <1>5, <2>1, Sizes
  <2> QED BY <1>1, <1>2, <1>3, <1>4, <2>3, <2>7, <2>8
<1> QED BY <1>10, <1>11

(* The first reply goes on, or is done and the next one is first.          *)
LEMMA WriteReplyIInv ==
  ASSUME IInv, NEW n \in 1..ReplyBytes, WriteReply(n)
  PROVE  IInv'
<1> DEFINE M == Len(out)
           r == out[1]
           Replies == [seq : Bytes, p : 0..(ReplyBytes - 1)]
<1>1. /\ pdus' = pdus /\ written' = written /\ closed' = closed /\ wire' = wire /\ up' = up
      /\ p' = p /\ end' = end /\ data' = data /\ handled' = handled /\ atDsp' = atDsp
  BY DEF WriteReply, clientVars, inVars
<1>2. \A i : At(i)' = At(i)
  BY <1>1 DEF At, NextByte, AtBoundary
<1>3. ClientInv' /\ WireInv' /\ ReadInv' /\ HandledInv'
  <2>1. WireInv'
    BY <1>1, <1>2 DEF IInv, WireInv, Chained, Pos, Current
  <2>2. ReadInv'
    BY <1>1 DEF IInv, ReadInv, Current, AskedEnd
  <2>3. HandledInv'
    BY <1>1 DEF IInv, HandledInv, Content, WholeCount, AtBoundary
  <2> QED BY <1>1, <2>1, <2>2, <2>3 DEF IInv, ClientInv
<1>4. /\ M \in Nat /\ 1 <= M /\ up /\ n \in 1..(ReplyBytes - r.p) /\ r \in Replies
      /\ out \in Seq(Replies) /\ answers \in Seq(Nat) /\ Len(answers) \in Nat
      /\ Len(handled) \in Nat
  BY Delivered, LenProperties DEF IInv, ReplyInv, HandledInv
<1>5. /\ \A i \in 1..Len(atDsp) : atDsp[i][1] \in 1..Len(handled)
      /\ \A i \in 1..M : out[i].seq[1] \in 1..Len(handled)
      /\ \A i \in 1..Len(answers) : answers[i] \in 1..Len(handled)
      /\ \A i \in 1..Len(atDsp) :
            /\ \A j \in 1..M : out[j].seq[1] < atDsp[i][1]
            /\ \A j \in 1..Len(answers) : answers[j] < atDsp[i][1]
      /\ \A i \in 1..M : /\ \A j \in 1..(i - 1) : out[j].seq[1] < out[i].seq[1]
                         /\ \A j \in 1..Len(answers) : answers[j] < out[i].seq[1]
      /\ \A i \in 2..M : out[i].p = 0
  BY DEF IInv, ReplyInv, PartInv
<1>6. CASE /\ r.p + n < ReplyBytes
           /\ out' = [out EXCEPT ![1].p = @ + n]
           /\ answers' = answers
           /\ part' \in Seq(Bytes \X Nat) /\ Len(part') = r.p + n
           /\ \A i \in 1..Len(part') : part'[i] = <<r.seq, i - 1>>
  <2>1. [r EXCEPT !.p = @ + n] \in Replies
    <3>1. r.p + n \in 0..(ReplyBytes - 1)
      BY <1>4, <1>6, Sizes
    <3> QED BY <1>4, <3>1
  <2>2. out' = [out EXCEPT ![1] = [r EXCEPT !.p = @ + n]]
    BY <1>6
  <2>3. out \in [1..M -> Replies]
    BY <1>4, LenProperties
  <2>4. out' \in [1..M -> Replies]
    BY <2>1, <2>2, <2>3
  <2>5. out' \in Seq(Replies) /\ Len(out') = M
    <3> HIDE DEF Replies
    <3>1. out' \in Seq(Replies)
      BY <1>4, <2>4, IsASeq
    <3>2. Len(out') \in Nat /\ DOMAIN out' = 1..Len(out')
      BY <3>1, LenProperties
    <3>3. DOMAIN out' = 1..M
      BY <2>4
    <3> QED BY <1>4, <3>1, <3>2, <3>3
  <2>6. /\ \A i \in 1..M : out'[i].seq = out[i].seq
        /\ \A i \in 2..M : out'[i] = out[i]
        /\ out'[1].p = r.p + n
    <3>1. 1 \in 1..M /\ DOMAIN out = 1..M /\ r.seq = [r EXCEPT !.p = @ + n].seq
          /\ [r EXCEPT !.p = @ + n].p = r.p + n
      BY <1>4, <2>3
    <3>2. out'[1] = [r EXCEPT !.p = @ + n]
      BY <2>2, <3>1
    <3>3. \A i \in 2..M : i \in 1..M /\ i # 1
      BY <1>4
    <3>4. \A i \in 2..M : out'[i] = out[i]
      BY <2>2, <3>1, <3>3
    <3>5. ASSUME NEW i \in 1..M PROVE out'[i].seq = out[i].seq
      <4>1. i = 1 \/ i \in 2..M
        BY <1>4
      <4> QED BY <3>1, <3>2, <3>4, <4>1
    <3> QED BY <3>1, <3>2, <3>4, <3>5
  <2>7. ReplyInv'
    <3>1. \A i \in 1..M : \A j \in 1..(i - 1) : j \in 1..M
      BY <1>4
    <3> QED BY <1>1, <1>6, <2>5, <2>6, <3>1 DEF IInv, ReplyInv
  <2>8. PartInv'
    <3>1. out' # <<>> /\ 1 \in 1..M
      BY <1>4, <2>5, EmptySeq
    <3> QED BY <1>1, <1>5, <1>6, <2>5, <2>6, <3>1 DEF PartInv
  <2> QED BY <1>1, <1>3, <2>7, <2>8 DEF IInv
<1>7. CASE /\ out' = Tail(out)
           /\ answers' = Append(answers, r.seq[1])
           /\ part' = <<>>
  <2>1. /\ out' \in Seq(Replies) /\ Len(out') = M - 1
        /\ \A i \in 1..(M - 1) : out'[i] = out[i + 1]
    BY <1>4, <1>7, EmptySeq, HeadTailProperties
  <2>2. r.seq[1] \in Nat /\ r.seq[1] \in 1..Len(handled) /\ 1 \in 1..M
    BY <1>4, <1>5
  <2>3. /\ answers' \in Seq(Nat) /\ Len(answers') = Len(answers) + 1
        /\ \A i \in 1..Len(answers) : answers'[i] = answers[i]
        /\ answers'[Len(answers) + 1] = r.seq[1]
    BY <1>4, <1>7, <2>2, AppendProperties
  <2>4. \A i \in 1..Len(answers') : \/ i \in 1..Len(answers) /\ answers'[i] = answers[i]
                                    \/ answers'[i] = r.seq[1]
    BY <1>4, <2>3
  <2>5. ASSUME NEW i \in 1..(M - 1)
        PROVE  /\ i + 1 \in 2..M /\ i + 1 \in 1..M /\ out'[i] = out[i + 1]
               /\ 1 \in 1..((i + 1) - 1)
               /\ \A j \in 1..(i - 1) : j + 1 \in 1..((i + 1) - 1) /\ j \in 1..(M - 1)
    BY <1>4, <2>1
  <2>6. ASSUME NEW i \in 1..(M - 1)
        PROVE  /\ out'[i].seq[1] \in 1..Len(handled)
               /\ \A j \in 1..(i - 1) : out'[j].seq[1] < out'[i].seq[1]
               /\ \A j \in 1..Len(answers') : answers'[j] < out'[i].seq[1]
    <3>1. ASSUME NEW j \in 1..(i - 1) PROVE out'[j].seq[1] < out'[i].seq[1]
      <4>1. out[j + 1].seq[1] < out[i + 1].seq[1]
        BY <1>5, <2>5
      <4> QED BY <2>1, <2>5, <4>1
    <3>2. ASSUME NEW j \in 1..Len(answers') PROVE answers'[j] < out'[i].seq[1]
      BY <1>5, <2>4, <2>5
    <3> QED BY <1>5, <2>5, <3>1, <3>2
  <2>7. ASSUME NEW i \in 1..Len(atDsp)
        PROVE  /\ \A j \in 1..(M - 1) : out'[j].seq[1] < atDsp[i][1]
               /\ \A j \in 1..Len(answers') : answers'[j] < atDsp[i][1]
    BY <1>5, <2>2, <2>4, <2>5
  <2>8. \A i \in 1..Len(answers') : answers'[i] \in 1..Len(handled)
    BY <1>5, <2>2, <2>4
  <2>9. ReplyInv'
    BY <1>1, <2>1, <2>3, <2>6, <2>7, <2>8 DEF IInv, ReplyInv
  <2>10. PartInv'
    <3>1. part' \in Seq(Bytes \X Nat) /\ Len(part') = 0
      BY <1>7, EmptySeq
    <3>2. \A i \in 1..(M - 1) : out'[i].p = 0
      BY <1>5, <2>5
    <3>3. \A i \in 2..Len(out') : i \in 1..(M - 1)
      BY <1>4, <2>1
    <3>4. out' # <<>> => 1 \in 1..(M - 1)
      BY <1>4, <2>1, EmptySeq
    <3> QED BY <1>1, <1>7, <3>1, <3>2, <3>3, <3>4 DEF PartInv
  <2> QED BY <1>1, <1>3, <2>9, <2>10 DEF IInv
<1> QED BY <1>6, <1>7, Delivered

-----------------------------------------------------------------------------
(* Nothing on its way, nothing read.                                       *)
LEMMA InitIInv == Init => IInv
<1> SUFFICES ASSUME Init PROVE IInv
  OBVIOUS
<1>1. /\ pdus = <<>> /\ written = 0 /\ closed = FALSE /\ wire = <<>> /\ up = TRUE
      /\ p = 0 /\ end = 0 /\ data = [j \in Offsets |-> Uninit]
      /\ handled = <<>> /\ atDsp = <<>> /\ out = <<>> /\ part = <<>> /\ answers = <<>>
      /\ Len(pdus) = 0 /\ Len(wire) = 0 /\ Len(handled) = 0 /\ Len(out) = 0
      /\ Len(atDsp) = 0 /\ Len(answers) = 0 /\ Len(part) = 0
  BY EmptySeq DEF Init
<1>2. ClientInv
  BY <1>1, EmptySeq DEF ClientInv
<1>3. WireInv
  <2>1. At(1) = <<Current, p>>
    BY <1>1 DEF At, NextByte, AtBoundary, Current
  <2>2. wire \in Seq(Bytes)
    BY <1>1, EmptySeq
  <2>3. \A i \in 1..Len(wire) : FALSE
    BY <1>1
  <2> QED BY <2>1, <2>2, <2>3 DEF WireInv, Chained
<1>4. ReadInv
  BY <1>1, Sizes DEF ReadInv, AskedEnd
<1>5. HandledInv
  BY <1>1, EmptySeq DEF HandledInv, WholeCount, AtBoundary
<1>6. ReplyInv
  BY <1>1, EmptySeq DEF ReplyInv
<1>7. PartInv
  BY <1>1, EmptySeq DEF PartInv
<1> QED BY <1>1, <1>2, <1>3, <1>4, <1>5, <1>6, <1>7 DEF IInv

(* The invariant is about the variables.                                   *)
LEMMA StutterIInv ==
  ASSUME IInv, UNCHANGED vars
  PROVE  IInv'
<1>1. /\ pdus' = pdus /\ written' = written /\ closed' = closed /\ wire' = wire /\ up' = up
      /\ p' = p /\ end' = end /\ data' = data /\ handled' = handled /\ atDsp' = atDsp
      /\ out' = out /\ part' = part /\ answers' = answers
  BY DEF vars, clientVars, inVars, outVars
<1>2. \A i : At(i)' = At(i)
  BY <1>1 DEF At, NextByte, AtBoundary
<1>3. WireInv'
  BY <1>1, <1>2 DEF IInv, WireInv, Chained, Pos, Current
<1>4. ReadInv'
  BY <1>1 DEF IInv, ReadInv, Current, AskedEnd
<1>5. HandledInv'
  BY <1>1 DEF IInv, HandledInv, Content, WholeCount, AtBoundary
<1>6. ClientInv' /\ ReplyInv' /\ PartInv'
  BY <1>1 DEF IInv, ClientInv, ReplyInv, PartInv
<1> QED BY <1>1, <1>3, <1>4, <1>5, <1>6 DEF IInv

(* Every step keeps the invariant.                                         *)
LEMMA NextIInv ==
  ASSUME IInv, [Next]_vars
  PROVE  IInv'
<1>1. CASE ClientWrite
  BY <1>1, ClientWriteIInv
<1>2. CASE ClientClose
  BY <1>2, ClientCloseIInv
<1>3. ASSUME NEW n \in 1..MaxMsgBytes, RecvPart(n) PROVE IInv'
  BY <1>3, RecvPartIInv
<1>4. ASSUME NEW n \in 1..MaxMsgBytes, RecvHeader(n) PROVE IInv'
  BY <1>4, RecvHeaderIInv
<1>5. ASSUME NEW n \in 1..MaxMsgBytes, RecvBadLength(n) PROVE IInv'
  BY <1>5, RecvBadLengthIInv
<1>6. ASSUME NEW n \in 1..MaxMsgBytes, RecvPdu(n) PROVE IInv'
  BY <1>6, RecvPduIInv
<1>7. ASSUME NEW n \in 1..MaxMsgBytes, RecvRefused(n) PROVE IInv'
  BY <1>7, RecvRefusedIInv
<1>8. CASE RecvNothing
  BY <1>8, RecvNothingIInv
<1>9. CASE QueueReply
  BY <1>9, QueueReplyIInv
<1>10. ASSUME NEW n \in 1..ReplyBytes, WriteReply(n) PROVE IInv'
  BY <1>10, WriteReplyIInv
<1>11. CASE WriteFails
  BY <1>11, WriteFailsIInv
<1>12. CASE UNCHANGED vars
  BY <1>12, StutterIInv
<1> QED
  BY <1>1, <1>2, <1>3, <1>4, <1>5, <1>6, <1>7, <1>8, <1>9, <1>10, <1>11, <1>12
  DEF Next, Server, Read, Write

(* The invariant, of every connection.                                     *)
LEMMA Inductive == Spec => []IInv
<1>1. Init => IInv
  BY InitIInv
<1>2. IInv /\ [Next]_vars => IInv'
  BY NextIInv
<1> QED BY <1>1, <1>2, PTL DEF Spec

(* The buffer is never overrun and every recv() is for something: what is  *)
(* asked for ends within in_s, behind in_s->p (dspmain_peer_check_fds),    *)
(* for any length a client puts in a header and however the bytes come.    *)
THEOREM ReadsInBuffer == Spec => []ReadsWithin
<1>1. ASSUME IInv PROVE ReadsWithin
  <2>1. TypeOK
    <3>1. \A i \in DOMAIN out : out[i].p \in 0..(ReplyBytes - 1)
      <4> DEFINE Replies == [seq : Bytes, p : 0..(ReplyBytes - 1)]
      <4>1. out \in Seq(Replies)
        BY <1>1 DEF IInv, ReplyInv
      <4> HIDE DEF Replies
      <4>2. \A i \in DOMAIN out : out[i] \in Replies
        BY <4>1, LenProperties, ElementOfSeq
      <4> QED BY <4>2 DEF Replies
    <3> QED BY <1>1, <3>1 DEF TypeOK, IInv, ClientInv, WireInv, ReadInv, ReplyInv
  <2>2. NoOverrun
    BY <1>1, AskedWithin DEF NoOverrun
  <2>3. AsksSomething
    BY <1>1 DEF AsksSomething, IInv, ReadInv
  <2> QED BY <2>1, <2>2, <2>3 DEF ReadsWithin
<1> QED BY <1>1, Inductive, PTL

(* What is in the buffer below in_s->p are the first bytes of the PDU that *)
(* comes after those handled, and no other's.                              *)
THEOREM InStep == Spec => []Framed
<1>1. ASSUME IInv PROVE Framed
  BY <1>1 DEF IInv, ReadInv, Framed, Current
<1> QED BY <1>1, Inductive, PTL

-----------------------------------------------------------------------------
(* The PDUs written whole, as a sequence.                                  *)
WholeIsSeq ==
    /\ WholeCount \in Nat
    /\ WholePdus = [k \in 1..WholeCount |-> Content(k)]
    /\ Len(WholePdus) = WholeCount /\ DOMAIN WholePdus = 1..WholeCount

LEMMA WholeSeq == IInv => WholeIsSeq
<1> SUFFICES ASSUME IInv PROVE WholeIsSeq
  OBVIOUS
<1>1. Len(pdus) \in Nat /\ (pdus # <<>> => 1 <= Len(pdus))
  BY LenProperties, EmptySeq DEF IInv, ClientInv
<1>2. WholeCount \in Nat
  <2>1. ~AtBoundary => pdus # <<>>
    BY DEF AtBoundary
  <2> QED BY <1>1, <2>1 DEF WholeCount
<1>3. WholePdus = [k \in 1..WholeCount |-> Content(k)]
  BY DEF WholePdus, WholeCount
<1>4. DOMAIN WholePdus = 1..WholeCount
  BY <1>3
<1>5. WholePdus \in Seq({Content(k) : k \in 1..WholeCount})
  BY <1>2, <1>3
<1>6. Len(WholePdus) = WholeCount
  <2>1. Len(WholePdus) \in Nat /\ DOMAIN WholePdus = 1..Len(WholePdus)
    BY <1>5, LenProperties
  <2> QED BY <1>2, <1>4, <2>1
<1> QED BY <1>2, <1>3, <1>4, <1>6 DEF WholeIsSeq

LEMMA WholeSeqNext == IInv' => WholeIsSeq'
BY WholeSeq, PTL

(* They depend on the client only.                                         *)
LEMMA WholeKept ==
  ASSUME pdus' = pdus, written' = written
  PROVE  WholePdus' = WholePdus
<1>1. AtBoundary' = AtBoundary /\ \A k : Content(k)' = Content(k)
  BY DEF AtBoundary, Content
<1> QED BY <1>1 DEF WholePdus

(* The last byte of a PDU sends it; any other is a stutter.                *)
LEMMA ClientWriteSends ==
  ASSUME IInv, IInv', ClientWrite
  PROVE  Abstract!Send \/ UNCHANGED Abstract!vars
<1>1. handled' = handled /\ answers' = answers /\ up' = up
  BY DEF ClientWrite, outVars
<1>2. /\ WholeCount' \in {WholeCount, WholeCount + 1}
      /\ WholeCount <= Len(pdus) /\ Len(pdus) \in Nat
      /\ \A k \in 1..Len(pdus) : pdus'[k] = pdus[k]
  BY Written
<1>3. /\ WholeCount \in Nat
      /\ WholePdus = [k \in 1..WholeCount |-> Content(k)]
      /\ Len(WholePdus) = WholeCount /\ DOMAIN WholePdus = 1..WholeCount
  BY WholeSeq DEF WholeIsSeq
<1>4. /\ WholePdus' = [k \in 1..WholeCount' |-> Content(k)']
      /\ Len(WholePdus') = WholeCount'
  BY WholeSeqNext DEF WholeIsSeq
<1>5. ASSUME NEW k \in 1..WholeCount PROVE Content(k)' = Content(k)
  <2>1. pdus'[k] = pdus[k]
    BY <1>2, <1>3
  <2> QED BY <2>1 DEF Content
<1>6. CASE WholeCount' = WholeCount
  <2>1. WholePdus' = WholePdus
    BY <1>3, <1>4, <1>5, <1>6
  <2> QED BY <1>1, <2>1 DEF Abstract!vars
<1>7. CASE WholeCount' = WholeCount + 1
  <2>1. ASSUME NEW i \in 1..WholeCount PROVE WholePdus'[i] = WholePdus[i]
    <3>1. i \in 1..WholeCount'
      BY <1>3, <1>7
    <3> QED BY <1>3, <1>4, <1>5, <3>1
  <2> QED BY <1>1, <1>3, <1>4, <1>7, <2>1 DEF Abstract!Send
<1> QED BY <1>2, <1>6, <1>7

(* The PDU handled is the next of those sent.                              *)
LEMMA RecvPduHandles ==
  ASSUME IInv, NEW n, RecvPdu(n)
  PROVE  Abstract!Handle
<1>1. /\ up /\ up' = up /\ answers' = answers /\ pdus' = pdus /\ written' = written
  BY DEF RecvPdu, Whole, Recv, clientVars, outVars
<1>2. /\ Current \in Nat /\ Current <= WholeCount /\ Current = Len(handled) + 1
      /\ handled' = Append(handled, Content(Current))
  BY PduRead DEF Current
<1>3. /\ WholeCount \in Nat
      /\ WholePdus = [k \in 1..WholeCount |-> Content(k)] /\ Len(WholePdus) = WholeCount
  BY WholeSeq DEF WholeIsSeq
<1>4. Len(handled) \in Nat
  BY LenProperties DEF IInv, HandledInv
<1>5. Current \in 1..WholeCount
  BY <1>2, <1>3, <1>4
<1>6. WholePdus[Len(handled) + 1] = Content(Current)
  BY <1>2, <1>3, <1>5
<1>7. Len(handled) < Len(WholePdus)
  BY <1>2, <1>3, <1>4
<1> QED BY <1>1, <1>2, <1>6, <1>7, WholeKept DEF Abstract!Handle

(* The last byte of a reply is an answer, later than those before it.      *)
LEMMA WriteReplyAnswers ==
  ASSUME IInv, NEW n \in 1..ReplyBytes, WriteReply(n)
  PROVE  Abstract!Answer \/ UNCHANGED Abstract!vars
<1>1. up /\ up' = up /\ handled' = handled /\ pdus' = pdus /\ written' = written
  BY DEF WriteReply, clientVars
<1>2. WholePdus' = WholePdus
  BY <1>1, WholeKept
<1>3. CASE answers' = answers
  BY <1>1, <1>2, <1>3 DEF Abstract!vars
<1>4. CASE answers' = Append(answers, out[1].seq[1])
  <2> DEFINE i == out[1].seq[1]
  <2>1. 1 \in 1..Len(out)
    BY Delivered
  <2>2. i \in 1..Len(handled) /\ \A j \in 1..Len(answers) : answers[j] < i
    BY <2>1 DEF IInv, ReplyInv
  <2>3. DOMAIN handled = 1..Len(handled) /\ DOMAIN answers = 1..Len(answers)
    BY LenProperties DEF IInv, HandledInv, ReplyInv
  <2> QED BY <1>1, <1>2, <1>4, <2>2, <2>3 DEF Abstract!Answer
<1> QED BY <1>3, <1>4, Delivered

(* The actions that remove the peer, and those PduStream does not see.     *)
LEMMA RemovalRemoves ==
  ASSUME up, up' = FALSE, UNCHANGED <<clientVars, handled, answers>>, IInv
  PROVE  Abstract!Remove
<1>1. WholePdus' = WholePdus
  BY WholeKept DEF clientVars
<1> QED BY <1>1 DEF Abstract!Remove

LEMMA OthersStutter ==
  ASSUME UNCHANGED <<pdus, written, handled, answers, up>>
  PROVE  UNCHANGED Abstract!vars
BY WholeKept DEF Abstract!vars

(* Every step is one of PduStream or a stutter.                            *)
LEMMA NextImplements ==
  ASSUME IInv, IInv', [Next]_vars
  PROVE  [Abstract!Next]_(Abstract!vars)
<1>1. CASE ClientWrite
  BY <1>1, ClientWriteSends DEF Abstract!Next
<1>2. CASE ClientClose
  BY <1>2, OthersStutter DEF ClientClose, outVars
<1>3. ASSUME NEW n \in 1..MaxMsgBytes, RecvPart(n) \/ RecvHeader(n)
      PROVE  UNCHANGED Abstract!vars
  BY <1>3, OthersStutter DEF RecvPart, RecvHeader, clientVars, outVars
<1>4. ASSUME NEW n \in 1..MaxMsgBytes, RecvBadLength(n) \/ RecvRefused(n)
      PROVE  Abstract!Remove
  BY <1>4, RemovalRemoves DEF RecvBadLength, RecvRefused, Whole, Recv
<1>5. ASSUME NEW n \in 1..MaxMsgBytes, RecvPdu(n) PROVE Abstract!Handle
  BY <1>5, RecvPduHandles
<1>6. CASE RecvNothing \/ WriteFails
  BY <1>6, RemovalRemoves DEF RecvNothing, WriteFails, Remove, Abstract!Next
<1>7. CASE QueueReply
  BY <1>7, OthersStutter DEF QueueReply, clientVars
<1>8. ASSUME NEW n \in 1..ReplyBytes, WriteReply(n)
      PROVE  Abstract!Answer \/ UNCHANGED Abstract!vars
  BY <1>8, WriteReplyAnswers
<1>9. CASE UNCHANGED vars
  BY <1>9, OthersStutter DEF vars, clientVars, outVars
<1> QED
  BY <1>1, <1>2, <1>3, <1>4, <1>5, <1>6, <1>7, <1>8, <1>9
  DEF Next, Server, Read, Write, Abstract!Next

(* And so is the beginning.                                                *)
LEMMA InitImplements == Init => Abstract!Init
<1> SUFFICES ASSUME Init PROVE Abstract!Init
  OBVIOUS
<1>1. IInv
  BY InitIInv
<1>2. WholeCount = 0
  BY EmptySeq DEF Init, WholeCount, AtBoundary
<1>3. Len(WholePdus) = 0 /\ WholePdus = [k \in 1..0 |-> Content(k)]
  BY <1>1, <1>2, WholeSeq DEF WholeIsSeq
<1>4. WholePdus = <<>>
  BY <1>3
<1> QED BY <1>4 DEF Init, Abstract!Init

(* However the bytes come in and leave, the connection does what PduStream *)
(* promises: every PDU handled is the next one the client wrote whole, as  *)
(* it wrote it, and every reply the client has whole answers a later one.  *)
THEOREM RefinesPduStream == Spec => Implements
<1>1. Init => Abstract!Init
  BY InitImplements
<1>2. IInv /\ IInv' /\ [Next]_vars => [Abstract!Next]_(Abstract!vars)
  BY NextImplements
<1> QED BY <1>1, <1>2, Inductive, PTL DEF Spec, Implements, Abstract!Spec

=============================================================================
