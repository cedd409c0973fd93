--------------------------- MODULE DspmainProofs ----------------------------
(***************************************************************************)
(* Proofs about the system of Dspmain, for every number of clients,        *)
(* descriptors, requests and buffers and for every combination of faults.  *)
(***************************************************************************)
EXTENDS Dspmain, SequenceTheorems, TLAPS, NaturalsInduction,
        WellFoundedInduction

(* What RemoveAt leaves of a sequence, and where.                          *)
LEMMA RemoveAtProperties ==
  ASSUME NEW S, NEW s \in Seq(S), NEW i \in 1..Len(s)
  PROVE  /\ RemoveAt(s, i) \in Seq(S)
         /\ Len(RemoveAt(s, i)) = Len(s) - 1
         /\ \A j \in 1..(Len(s) - 1) :
                RemoveAt(s, i)[j] = IF j < i THEN s[j] ELSE s[j + 1]
<1> DEFINE a == SubSeq(s, 1, i - 1)
           b == SubSeq(s, i + 1, Len(s))
<1>0. Len(s) \in Nat /\ i \in Int /\ i >= 1 /\ i <= Len(s)
  BY LenProperties
<1>1. /\ a \in Seq(S)
      /\ Len(a) = i - 1
      /\ \A j \in 1..(i - 1) : a[j] = s[j]
  <2>1. \A j \in 1..(i - 1) : s[j] \in S
    BY <1>0, ElementOfSeq
  <2>2. /\ a \in Seq(S)
        /\ Len(a) = IF 1 <= i - 1 THEN (i - 1) - 1 + 1 ELSE 0
        /\ \A j \in 1..((i - 1) - 1 + 1) : a[j] = s[1 + j - 1]
    BY <1>0, <2>1, SubSeqProperties
  <2> QED BY <1>0, <2>2
<1>2. /\ b \in Seq(S)
      /\ Len(b) = Len(s) - i
      /\ \A j \in 1..(Len(s) - i) : b[j] = s[i + j]
  <2>1. \A j \in (i + 1)..Len(s) : s[j] \in S
    BY <1>0, ElementOfSeq
  <2>2. /\ b \in Seq(S)
        /\ Len(b) = IF i + 1 <= Len(s) THEN Len(s) - (i + 1) + 1 ELSE 0
        /\ \A j \in 1..(Len(s) - (i + 1) + 1) : b[j] = s[(i + 1) + j - 1]
    BY <1>0, <2>1, SubSeqProperties
  <2> QED BY <1>0, <2>2
<1>3. /\ a \o b \in Seq(S)
      /\ Len(a \o b) = Len(s) - 1
      /\ \A j \in 1..(Len(s) - 1) :
            (a \o b)[j] = IF j <= i - 1 THEN a[j] ELSE b[j - (i - 1)]
  <2> HIDE DEF a, b
  <2>1. /\ a \o b \in Seq(S)
        /\ Len(a \o b) = Len(a) + Len(b)
        /\ \A j \in 1..(Len(a) + Len(b)) :
             (a \o b)[j] = IF j <= Len(a) THEN a[j] ELSE b[j - Len(a)]
    BY <1>1, <1>2, ConcatProperties
  <2> QED BY <1>0, <1>1, <1>2, <2>1
<1>4. RemoveAt(s, i) = a \o b
  BY DEF RemoveAt
<1> HIDE DEF a, b
<1>5. ASSUME NEW j \in 1..(Len(s) - 1)
      PROVE  (a \o b)[j] = IF j < i THEN s[j] ELSE s[j + 1]
  <2>1. CASE j < i
    BY <1>0, <1>1, <1>3, <2>1
  <2>2. CASE ~(j < i)
    <3>1. j - (i - 1) \in 1..(Len(s) - i)
      BY <1>0, <2>2
    <3>2. b[j - (i - 1)] = s[i + (j - (i - 1))]
      BY <1>2, <3>1
    <3>3. i + (j - (i - 1)) = j + 1
      BY <1>0
    <3>4. (a \o b)[j] = b[j - (i - 1)]
      BY <1>0, <1>3, <2>2
    <3> QED BY <2>2, <3>2, <3>3, <3>4
  <2> QED BY <2>1, <2>2
<1> QED BY <1>3, <1>4, <1>5

(* A function on 1..n is a sequence of length n.                           *)
LEMMA FunctionIsSeq ==
  ASSUME NEW S, NEW n \in Nat, NEW f \in [1..n -> S]
  PROVE  f \in Seq(S) /\ Len(f) = n /\ DOMAIN f = 1..n
<1>1. f \in Seq(S)
  BY SeqDef
<1>2. Len(f) \in Nat /\ DOMAIN f = 1..Len(f)
  BY <1>1, LenProperties
<1>3. DOMAIN f = 1..n
  OBVIOUS
<1> QED BY <1>1, <1>2, <1>3

(* The elements of a tail and of an appended sequence, index by index.     *)
LEMMA TailShape ==
  ASSUME NEW S, NEW s \in Seq(S), s # <<>>
  PROVE  /\ Tail(s) \in Seq(S) /\ Head(s) \in S
         /\ 1 \in DOMAIN s /\ Head(s) = s[1]
         /\ \A i \in DOMAIN Tail(s) :
                /\ i \in Nat \ {0} /\ i + 1 \in DOMAIN s
                /\ i + 1 \in Nat /\ i + 1 # 1
                /\ Tail(s)[i] = s[i + 1] /\ s[i + 1] \in S
<1>1. /\ Len(s) \in Nat \ {0} /\ DOMAIN s = 1..Len(s)
      /\ Tail(s) \in Seq(S) /\ Len(Tail(s)) = Len(s) - 1
      /\ Head(s) \in S /\ Head(s) = s[1]
  BY HeadTailProperties, LenProperties, EmptySeq
<1>2. DOMAIN Tail(s) = 1..(Len(s) - 1)
  BY <1>1, LenProperties
<1>3. ASSUME NEW i \in DOMAIN Tail(s)
      PROVE  /\ i \in Nat \ {0} /\ i + 1 \in DOMAIN s
             /\ i + 1 \in Nat /\ i + 1 # 1
             /\ Tail(s)[i] = s[i + 1] /\ s[i + 1] \in S
  <2>1. i \in 1..(Len(s) - 1) /\ Len(s) \in Nat
    BY <1>1, <1>2
  <2>2. i \in Nat \ {0} /\ i + 1 \in 1..Len(s) /\ i + 1 \in Nat /\ i + 1 # 1
    BY ONLY <2>1
  <2>3. Tail(s)[i] = s[i + 1]
    BY <2>1, HeadTailProperties
  <2> QED BY <1>1, <2>2, <2>3, ElementOfSeq
<1>4. 1 \in DOMAIN s
  BY <1>1
<1> QED BY <1>1, <1>3, <1>4

LEMMA AppendShape ==
  ASSUME NEW S, NEW s \in Seq(S), NEW e \in S
  PROVE  /\ Append(s, e) \in Seq(S) /\ Append(s, e) # <<>>
         /\ Len(s) \in Nat /\ Len(s) + 1 \in DOMAIN Append(s, e)
         /\ Len(Append(s, e)) = Len(s) + 1
         /\ Append(s, e)[Len(s) + 1] = e
         /\ \A i \in DOMAIN s :
                /\ i \in Nat \ {0} /\ i < Len(s) + 1 /\ i \in DOMAIN Append(s, e)
                /\ Append(s, e)[i] = s[i] /\ s[i] \in S
         /\ \A i \in DOMAIN Append(s, e) : i \in DOMAIN s \/ i = Len(s) + 1
<1>1. /\ Append(s, e) \in Seq(S) /\ Len(Append(s, e)) = Len(s) + 1
      /\ \A i \in 1..Len(s) : Append(s, e)[i] = s[i]
      /\ Append(s, e)[Len(s) + 1] = e
      /\ Append(s, e) # <<>>
  BY AppendProperties
<1>2. Len(s) \in Nat /\ DOMAIN s = 1..Len(s)
  BY LenProperties
<1>3. DOMAIN Append(s, e) = 1..(Len(s) + 1)
  BY <1>1, LenProperties
<1>4. ASSUME NEW i \in DOMAIN s
      PROVE  /\ i \in Nat \ {0} /\ i < Len(s) + 1 /\ i \in DOMAIN Append(s, e)
             /\ Append(s, e)[i] = s[i] /\ s[i] \in S
  <2>1. i \in 1..Len(s)
    BY <1>2
  <2>2. i \in Nat \ {0} /\ i < Len(s) + 1 /\ i \in 1..(Len(s) + 1)
    BY ONLY <1>2, <2>1
  <2> QED BY <1>1, <1>3, <2>1, <2>2, ElementOfSeq
<1>5. \A i \in 1..(Len(s) + 1) : i \in 1..Len(s) \/ i = Len(s) + 1
  BY ONLY <1>2
<1>6. Len(s) + 1 \in DOMAIN Append(s, e)
  BY <1>2, <1>3
<1> QED BY <1>1, <1>2, <1>3, <1>4, <1>5, <1>6

(* Induction, by the least number that would break it.                     *)
LEMMA NatInduct ==
  ASSUME NEW S \in SUBSET Nat, 0 \in S, \A n \in S : n + 1 \in S
  PROVE  Nat \subseteq S
<1> DEFINE T == Nat \ S
<1> SUFFICES ASSUME T # {} PROVE FALSE
  OBVIOUS
<1>1. PICK m \in T : \A n \in T : ~(<<n, m>> \in OpToRel(<, Nat))
  BY NatLessThanWellFounded, WFMin
<1>2. m \in Nat /\ m - 1 \in Nat /\ m - 1 < m /\ (m - 1) + 1 = m
  <2>1. m \in Nat /\ m # 0
    BY ONLY 0 \in S, m \in T
  <2> QED BY ONLY <2>1
<1>3. m - 1 \notin T
  BY <1>1, <1>2 DEF OpToRel
<1>4. (m - 1) + 1 \in S
  BY <1>2, <1>3
<1> QED BY <1>1, <1>2, <1>4

-----------------------------------------------------------------------------
(* Types and peers. A step that reads a PDU or writes a reply is well      *)
(* typed only because the descriptor of the peer it is at belongs to a     *)
(* client, and stays so only because no two peers share a descriptor: the  *)
(* two are one induction.                                                  *)

PeersInv ==
    /\ \A i \in DOMAIN peers : peers[i].id <= unique_id
    /\ \A i, j \in DOMAIN peers : i # j =>
            peers[i].id # peers[j].id /\ peers[i].sck # peers[j].sck
    /\ pc # "stopped" =>
        /\ \A i \in DOMAIN peers : owner[peers[i].sck] # None
        /\ \A fd \in Fds : owner[fd] # None =>
                \E i \in DOMAIN peers : peers[i].sck = fd
    /\ pc = "write" => AtPeer

(* The start. One message makes the round that tells the server its queue: *)
(* it is asked, parked with a lookup, handed back when the lookup is       *)
(* answered, told. Until then nothing else is in flight; from then on only *)
(* requests are, and at the end the shutdown message.                      *)

Ending == {"closing", "cleanup", "stopped"}

Only(q, S) == \A i \in DOMAIN q : q[i].subid \in S

DspHasJust(subid) ==
    /\ dspq # <<>> <=> hold = <<>>
    /\ Len(dspq) <= 1 /\ Len(hold) <= 1
    /\ Only(dspq, {subid}) /\ Only(hold, {subid})

Starting == reply_msgq = NoQueue /\ pc \in {"starting"} \union Ending

Fresh ==
    /\ pc = "located" /\ reply_msgq = NoQueue
    /\ dspq = <<>> /\ hold = <<>> /\ gppq = <<>> /\ parked = <<>>
    /\ locate = "idle"
AskedReply ==
    /\ Starting
    /\ DspHasJust("getreply")
    /\ gppq = <<>> /\ parked = <<>> /\ locate = "idle"
LookingUp ==
    /\ Starting
    /\ dspq = <<>> /\ hold = <<>> /\ gppq = <<>>
    /\ Len(parked) = 1 /\ parked[1].subid = "getreply"
    /\ locate \in {"pending", "failed"}
LookedUp ==
    /\ Starting
    /\ DspHasJust("async")
    /\ gppq = <<>>
    /\ Len(parked) = 1 /\ parked[1].subid = "getreply"
    /\ locate = "answered"
Told ==
    /\ Starting
    /\ dspq = <<>> /\ hold = <<>> /\ parked = <<>>
    /\ Len(gppq) = 1 /\ Only(gppq, {"getreply"})
    /\ locate = "idle"
MayBeSent == Requests \union (IF pc \in Ending THEN {"shutdown"} ELSE {})
Running ==
    /\ pc # "located"
    /\ parked = <<>> /\ locate = "idle" /\ Len(hold) <= 1
    /\ Only(gppq, Requests)
    /\ Only(dspq, MayBeSent) /\ Only(hold, MayBeSent)

StageInv == Fresh \/ AskedReply \/ LookingUp \/ LookedUp \/ Told \/ Running

TInv == TypeOK /\ PeersInv /\ StageInv

USE DEF TInv, TypeOK, MsgqTypeOK, DspTypeOK, SocketsTypeOK, PeerTypeOK, ServerTypeOK

LEMMA InitTInv == Init => TInv
<1> SUFFICES ASSUME Init PROVE TInv
  OBVIOUS
<1> USE DEF Init, MsgqInit, DspInit, SocketsInit, PeerInit, ServerInit
<1>1. MsgqTypeOK
  BY NumBufsAssumption, EmptySeq
<1>2. DspTypeOK
  BY EmptySeq
<1>3. SocketsTypeOK
  BY EmptySeq
<1>4. PeerTypeOK
  <2>1. peers \in Seq(Peers)
    BY EmptySeq
  <2>2. reply_msgq \in Handles
    BY DEF Handles
  <2>3. /\ cursor \in Nat \ {0} /\ cnt \in Nat /\ unique_id \in Nat
        /\ rfds \subseteq Fds /\ wfds \subseteq Fds
    OBVIOUS
  <2> QED BY <2>1, <2>2, <2>3
<1>5. ServerTypeOK
  OBVIOUS
<1>6. PeersInv
  <2>1. DOMAIN peers = {}
    BY EmptySeq, LenProperties
  <2> QED BY <2>1 DEF PeersInv
<1>7. StageInv
  BY DEF StageInv, Fresh
<1> QED BY <1>1, <1>2, <1>3, <1>4, <1>5, <1>6, <1>7

(* Queues all of one kind.                                                 *)

LEMMA OnlyEmpty == \A K : Only(<<>>, K)
  BY EmptySeq, LenProperties DEF Only

LEMMA OnlyAppend ==
  ASSUME NEW K, NEW q \in Seq(Messages), NEW m \in Messages,
         Only(q, K), m.subid \in K
  PROVE  Only(Append(q, m), K)
  BY AppendProperties, LenProperties DEF Only

LEMMA OnlyTail ==
  ASSUME NEW K, NEW q \in Seq(Messages), q # <<>>, Only(q, K)
  PROVE  Only(Tail(q), K) /\ Head(q).subid \in K
  BY HeadTailProperties, LenProperties DEF Only

LEMMA OnlyOne ==
  ASSUME NEW K, NEW m \in Messages, m.subid \in K
  PROVE  Only(<<m>>, K) /\ Len(<<m>>) = 1 /\ <<m>> # <<>>
  BY DEF Only

(* Messages.                                                               *)

LEMMA ControlTyped ==
  ASSUME NEW subid \in Subids, NEW handle \in Handles
  PROVE  Control(subid, handle) \in Messages
  BY DEF Control, Msg, Messages, Arguments, Results, Handles, NoQueue, GppQueue

LEMMA AllocAndPutTyped ==
  ASSUME MsgqTypeOK, NEW m \in Messages, AllocAndPut(m)
  PROVE  MsgqTypeOK'
  BY AppendProperties DEF AllocAndPut

LEMMA ClientKeepsTypes ==
  ASSUME TInv, NEW c \in Clients, ClientActs(c)
  PROVE  TypeOK' /\ PeersInv'
<1> USE DEF ClientActs, sockVars, msgqVars, dspVars, peerVars, serverVars, passVars
<1>1. CASE ClientConnect(c)
  BY <1>1, AppendProperties DEF ClientConnect, PeersInv, AtPeer
<1>2. ASSUME NEW kind \in Kinds, ClientSend(c, kind)
      PROVE  TypeOK' /\ PeersInv'
  <2>1. Pdu(c, kind) \in Pdus
    BY LenProperties DEF Pdu, Pdus
  <2>2. /\ Append(sent[c], Pdu(c, kind)) \in Seq(Pdus)
        /\ Append(toServer[c], Pdu(c, kind)) \in Seq(Pdus)
    BY <2>1, AppendProperties
  <2> QED BY <1>2, <2>2 DEF ClientSend, PeersInv, AtPeer
<1>3. CASE ClientRead(c)
  BY <1>3 DEF ClientRead, PeersInv, AtPeer
<1>4. CASE ClientClose(c)
  BY <1>4 DEF ClientClose, PeersInv, AtPeer
<1> QED BY <1>1, <1>2, <1>3, <1>4 DEF ClientStep

LEMMA SignalKeepsTypes ==
  ASSUME TInv, SignalActs
  PROVE  TypeOK' /\ PeersInv'
  BY DEF SignalActs, SigInt, sockVars, msgqVars, dspVars, peerVars, PeersInv, AtPeer

LEMMA LocateKeepsTypes ==
  ASSUME TInv, LocateActs
  PROVE  TypeOK' /\ PeersInv'
<1> USE DEF LocateActs, LocateAnswers, sockVars, peerVars, serverVars, passVars
<1>1. MsgqTypeOK'
  <2>1. Control("async", GppQueue) \in Messages /\ Control("async", NoQueue) \in Messages
    BY ControlTyped DEF Subids, Handles
  <2> QED BY <2>1, AllocAndPutTyped
<1>2. DspTypeOK' /\ SocketsTypeOK' /\ PeerTypeOK' /\ ServerTypeOK'
  OBVIOUS
<1>3. PeersInv'
  BY DEF PeersInv, AtPeer
<1> QED BY <1>1, <1>2, <1>3

(* The DSP.                                                                *)

LEMMA HoldTyped ==
  ASSUME TInv, NEW K, Holding(K)
  PROVE  hold[1] \in Messages /\ hold[1].subid \in K /\ <<>> \in Seq(Messages)
  BY LenProperties, EmptySeq, ElementOfSeq DEF Holding

(* What the DSP holds tells the stage.                                     *)
LEMMA HoldStage ==
  ASSUME TInv, NEW K, Holding(K)
  PROVE  /\ K = {"getreply"} => AskedReply
         /\ K = {"async"} => LookedUp
         /\ K = Requests => Running
         /\ K = {"shutdown"} => Running /\ pc \in Ending
<1>1. 1 \in DOMAIN hold /\ hold # <<>> /\ hold[1].subid \in K
  BY HoldTyped, LenProperties, EmptySeq DEF Holding
<1>2. \A A : Only(hold, A) => hold[1].subid \in A
  BY <1>1 DEF Only
<1>3. \/ AskedReply /\ hold[1].subid \in {"getreply"}
      \/ LookedUp /\ hold[1].subid \in {"async"}
      \/ Running /\ hold[1].subid \in MayBeSent
  BY <1>1, <1>2, Zenon
  DEF StageInv, Fresh, AskedReply, LookingUp, LookedUp, Told, Running, DspHasJust
<1>4. /\ K = {"getreply"} => AskedReply
      /\ K = {"async"} => LookedUp
      /\ K = Requests => Running
      /\ K = {"shutdown"} => Running
  BY <1>1, <1>3 DEF Requests, MayBeSent
<1>5. K = {"shutdown"} => pc \in Ending
  BY <1>1, <1>3 DEF Requests, MayBeSent
<1> QED BY <1>4, <1>5

LEMMA PutBackTyped ==
  ASSUME TypeOK, NEW m \in Messages, NEW freed \in Nat,
         PutBackOrFree(m, freed)
  PROVE  free' \in Nat /\ gppq' \in Seq(Messages) /\ lost' \in Nat
<1>1. Append(gppq, m) \in Seq(Messages)
  BY AppendProperties
<1>2. \/ gppq' = Append(gppq, m) /\ free' = free + freed /\ lost' = lost
      \/ gppq' = gppq /\ free' = free + freed + 1 /\ lost' = lost + 1
  BY Zenon DEF PutBackOrFree
<1>3. free \in Nat /\ gppq \in Seq(Messages) /\ lost \in Nat
  OBVIOUS
<1>4. free + freed \in Nat /\ free + freed + 1 \in Nat /\ lost + 1 \in Nat
  BY <1>3
<1> QED BY <1>1, <1>2, <1>3, <1>4, Zenon

(* The steps that touch no message of the two programs: the transport's    *)
(* error messages come and are freed, or MSGQ_get fails.                   *)
Aside ==
    \/ DspActs /\ (DspGetFails \/ DspFreesOther)
    \/ ErrorActs

LEMMA AsideMoves ==
  ASSUME TypeOK, Aside
  PROVE  /\ UNCHANGED <<dspq, gppq, hold, parked, locate, lost>>
         /\ UNCHANGED <<sockVars, peerVars, serverVars>>
         /\ dspPc' = dspPc \/ dspPc' = "failed"
         /\ free' \in Nat /\ errs' \in Nat /\ free' + errs' = free + errs
<1>1. free \in Nat /\ errs \in Nat
  OBVIOUS
<1>2. CASE DspActs /\ DspGetFails
  BY <1>1, <1>2 DEF DspActs, DspGetFails, msgqVars
<1>3. CASE DspActs /\ DspFreesOther
  BY <1>1, <1>3 DEF DspActs, DspFreesOther
<1>4. CASE ErrorActs
  BY <1>1, <1>4 DEF ErrorActs, ErrorArrives
<1> QED BY <1>2, <1>3, <1>4 DEF Aside

LEMMA AsideKeepsTypes ==
  ASSUME TypeOK, PeersInv, Aside
  PROVE  TypeOK' /\ PeersInv'
<1> USE DEF sockVars, peerVars, serverVars, passVars
<1>1. UNCHANGED <<sockVars, peerVars, serverVars>>
  BY AsideMoves, Zenon
<1>2. SocketsTypeOK' /\ PeerTypeOK' /\ ServerTypeOK'
  BY <1>1
<1>3. PeersInv'
  BY <1>1 DEF PeersInv, AtPeer
<1>4. MsgqTypeOK' /\ DspTypeOK'
  BY AsideMoves
<1> QED BY <1>2, <1>3, <1>4

LEMMA AsideKeepsStage ==
  ASSUME TypeOK, StageInv, Aside
  PROVE  StageInv'
<1>1. UNCHANGED <<dspq, gppq, hold, parked, locate, reply_msgq, pc>>
  BY AsideMoves DEF peerVars, serverVars
<1> QED BY <1>1 DEF StageInv, Fresh, AskedReply, LookingUp, LookedUp, Told, Running,
                    DspHasJust, Starting, MayBeSent, Only

LEMMA DspKeepsTypes ==
  ASSUME TInv, DspActs
  PROVE  TypeOK' /\ PeersInv'
<1> USE DEF DspActs, sockVars, peerVars, serverVars, passVars
<1>1. SocketsTypeOK' /\ PeerTypeOK' /\ ServerTypeOK' /\ PeersInv'
  BY DEF PeersInv, AtPeer
<1>2. MsgqTypeOK' /\ DspTypeOK'
  <2>1. CASE DspGet
    <3>1. Head(dspq) \in Messages /\ Tail(dspq) \in Seq(Messages)
      BY <2>1, HeadTailProperties DEF DspGet
    <3>2. <<Head(dspq)>> \in Seq(Messages)
      BY <3>1
    <3> QED BY <2>1, <3>1, <3>2 DEF DspGet
  <2>2. CASE DspStartLocate
    BY <2>2, HoldTyped DEF DspStartLocate
  <2>3. CASE DspAsyncLocate
    <3>1. hold[1] \in Messages /\ hold[1].subid = "async" /\ Len(hold) # 0
      BY <2>3, HoldTyped, EmptySeq DEF DspAsyncLocate, Holding
    <3>2. LookedUp
      BY <2>3, HoldStage DEF DspAsyncLocate
    <3>3. parked[1] \in Messages
      <4>1. 1 \in 1..Len(parked)
        BY <3>2 DEF LookedUp
      <4> QED BY <4>1, ElementOfSeq
    <3>4. [parked[1] EXCEPT !.reply_msgq = hold[1].reply_msgq] \in Messages
      BY <3>1, <3>3 DEF Messages
    <3> QED BY <2>3, <3>4, PutBackTyped, EmptySeq DEF DspAsyncLocate
  <2>4. CASE DspCompute
    <3>1. hold[1] \in Messages /\ hold[1].subid \in Requests
      BY <2>4, HoldTyped DEF DspCompute
    <3>2. Computed(hold[1]) \in Messages
      BY <3>1 DEF Computed, Messages, Results, Subids, Answer
    <3> QED BY <2>4, <3>2, PutBackTyped, EmptySeq DEF DspCompute
  <2>5. CASE DspShutdown
    BY <2>5, EmptySeq DEF DspShutdown
  <2>6. CASE DspGetFails \/ DspFreesOther
    BY <2>6, AsideKeepsTypes DEF Aside
  <2> QED BY <2>1, <2>2, <2>3, <2>4, <2>5, <2>6 DEF DspStep
<1> QED BY <1>1, <1>2

LEMMA DspGetKeepsStage ==
  ASSUME TInv, DspActs, DspGet
  PROVE  StageInv'
<1> USE DEF DspActs, DspGet, sockVars, peerVars, serverVars, passVars, Starting
<1>1. /\ Head(dspq) \in Messages /\ dspq # <<>> /\ hold = <<>>
      /\ Len(Tail(dspq)) = Len(dspq) - 1 /\ Len(dspq) \in Nat
      /\ Tail(dspq) \in Seq(Messages)
  BY HeadTailProperties, LenProperties
<1>2. /\ hold' = <<Head(dspq)>> /\ Len(hold') = 1 /\ hold' # <<>>
      /\ \A K : Only(dspq, K) => Only(dspq', K) /\ Only(hold', K)
  BY <1>1, OnlyTail, OnlyOne
<1>3. Len(dspq) <= 1 => dspq' = <<>>
  BY <1>1, EmptySeq
<1>4. ASSUME NEW x, DspHasJust(x)
      PROVE  /\ dspq' # <<>> <=> hold' = <<>>
             /\ Len(dspq') <= 1 /\ Len(hold') <= 1
             /\ Only(dspq', {x}) /\ Only(hold', {x})
  <2>1. Len(dspq) = 1 /\ Only(dspq, {x}) /\ dspq' = <<>>
    <3>1. dspq # <<>> /\ Len(dspq) <= 1 /\ Only(dspq, {x})
      BY <1>1, <1>4, Zenon DEF DspHasJust
    <3>2. Len(dspq) = 1
      BY <1>1, <3>1, EmptySeq
    <3> QED BY <1>3, <3>1, <3>2
  <2>2. Len(dspq') = 0 /\ Only(dspq', {x})
    BY <2>1, EmptySeq, OnlyEmpty
  <2>3. Only(hold', {x}) /\ hold' # <<>>
    BY <1>2, <2>1, Zenon
  <2>4. Len(dspq') <= 1 /\ Len(hold') <= 1
    <3>1. Len(hold') = 1 /\ Len(dspq') = 0
      BY <1>2, <2>2, Zenon
    <3> QED BY ONLY <3>1
  <2> QED BY <2>1, <2>2, <2>3, <2>4, Zenon
<1>5. CASE AskedReply
  BY <1>4, <1>5 DEF AskedReply, StageInv, DspHasJust
<1>6. CASE LookedUp
  BY <1>4, <1>6 DEF LookedUp, StageInv, DspHasJust
<1>7. CASE Running
  <2>1. pc' = pc /\ MayBeSent' = MayBeSent
    BY DEF MayBeSent
  <2>2. Only(dspq', MayBeSent') /\ Only(hold', MayBeSent')
    BY <1>2, <1>7, <2>1 DEF Running
  <2> QED BY <1>2, <1>7, <2>1, <2>2 DEF Running, StageInv
<1> QED BY <1>1, <1>5, <1>6, <1>7 DEF StageInv, Fresh, LookingUp, Told

LEMMA DspKeepsStage ==
  ASSUME TInv, DspActs
  PROVE  StageInv'
<1> USE DEF DspActs, sockVars, peerVars, serverVars, passVars, Starting
<1>0. /\ reply_msgq' = reply_msgq /\ pc' = pc
      /\ Starting' = Starting /\ MayBeSent' = MayBeSent
  BY DEF MayBeSent
<1>1. CASE DspGet
  BY <1>1, DspGetKeepsStage
<1>2. CASE DspStartLocate
  <2>1. AskedReply /\ hold[1].subid = "getreply" /\ hold # <<>>
    BY <1>2, HoldStage, HoldTyped DEF DspStartLocate, Holding
  <2>2. dspq = <<>> /\ Len(hold) = 1
    <3>1. dspq = <<>> /\ Len(hold) <= 1
      BY <2>1, Zenon DEF AskedReply, DspHasJust
    <3>2. Len(hold) \in Nat \ {0}
      BY <2>1, EmptySeq
    <3>3. Len(hold) = 1
      BY ONLY <3>1, <3>2
    <3> QED BY <3>1, <3>3, Zenon
  <2>3. LookingUp'
    BY <1>0, <1>2, <2>1, <2>2 DEF DspStartLocate, LookingUp, AskedReply
  <2> QED BY <2>3 DEF StageInv
<1>3. CASE DspAsyncLocate
  <2>1. LookedUp /\ hold # <<>>
    BY <1>3, HoldStage DEF DspAsyncLocate, Holding
  <2>2. dspq = <<>> /\ gppq = <<>>
    BY <2>1, LenProperties, EmptySeq DEF LookedUp, DspHasJust
  <2>3. PICK m : /\ m = [parked[1] EXCEPT !.reply_msgq = hold[1].reply_msgq]
                 /\ PutBackOrFree(m, 1)
    BY <1>3 DEF DspAsyncLocate
  <2>4. m \in Messages /\ m.subid = "getreply"
    <3>0. 1 \in 1..Len(parked) /\ parked[1].subid = "getreply"
      BY <2>1 DEF LookedUp
    <3>1. parked[1] \in Messages /\ parked[1].subid = "getreply"
      BY <3>0, ElementOfSeq
    <3>2. hold[1] \in Messages
      BY <1>3, HoldTyped DEF DspAsyncLocate
    <3> QED BY <2>3, <3>1, <3>2 DEF Messages
  <2>5. dspq' = <<>> /\ hold' = <<>> /\ parked' = <<>> /\ locate' = "idle"
    BY <1>3, <2>2 DEF DspAsyncLocate
  <2>6. gppq' = Append(gppq, m) \/ gppq' = gppq
    BY <2>3, Zenon DEF PutBackOrFree
  <2>7. CASE gppq' = Append(gppq, m)
    <3>1. gppq' = <<m>>
      BY <2>2, <2>7
    <3>2. Only(gppq', {"getreply"}) /\ Len(gppq') = 1
      BY <2>4, <3>1, OnlyOne
    <3>3. Told'
      BY <1>0, <2>1, <2>5, <3>2 DEF Told, LookedUp
    <3> QED BY <3>3 DEF StageInv
  <2>8. CASE gppq' = gppq
    <3>1. Running'
      BY <1>0, <2>1, <2>2, <2>5, <2>8, OnlyEmpty, EmptySeq DEF Running, LookedUp, Ending
    <3> QED BY <3>1 DEF StageInv
  <2> QED BY <2>6, <2>7, <2>8
<1>4. CASE DspCompute
  <2>1. Running /\ hold[1] \in Messages /\ hold[1].subid \in Requests
    BY <1>4, HoldStage, HoldTyped DEF DspCompute
  <2>2. Computed(hold[1]) \in Messages /\ Computed(hold[1]).subid \in Requests
    BY <2>1 DEF Computed, Messages, Results, Subids, Answer
  <2>3. gppq' = Append(gppq, Computed(hold[1])) \/ gppq' = gppq
    BY <1>4, Zenon DEF DspCompute, PutBackOrFree
  <2>4. Only(gppq', Requests)
    <3>1. Only(gppq, Requests)
      BY <2>1 DEF Running
    <3>2. Only(Append(gppq, Computed(hold[1])), Requests)
      BY <2>2, <3>1, OnlyAppend
    <3> QED BY <2>3, <3>1, <3>2, Zenon
  <2>5. Only(hold', MayBeSent) /\ Len(hold') <= 1
    BY <1>4, OnlyEmpty, EmptySeq DEF DspCompute
  <2>6. Running'
    BY <1>0, <1>4, <2>1, <2>4, <2>5 DEF DspCompute, Running
  <2> QED BY <2>6 DEF StageInv
<1>5. CASE DspShutdown
  <2>1. Running
    BY <1>5, HoldStage DEF DspShutdown
  <2>2. Only(hold', MayBeSent) /\ Len(hold') <= 1
    BY <1>5, OnlyEmpty, EmptySeq DEF DspShutdown
  <2>3. Running'
    BY <1>0, <1>5, <2>1, <2>2 DEF DspShutdown, Running
  <2> QED BY <2>3 DEF StageInv
<1>6. CASE DspGetFails \/ DspFreesOther
  BY <1>6, AsideKeepsStage DEF Aside
<1> QED BY <1>1, <1>2, <1>3, <1>4, <1>5, <1>6 DEF DspStep

LEMMA LocateKeepsStage ==
  ASSUME TInv, LocateActs
  PROVE  StageInv'
<1> USE DEF LocateActs, LocateAnswers, sockVars, peerVars, serverVars, passVars
<1>1. LookingUp
  BY DEF StageInv, Fresh, AskedReply, LookingUp, LookedUp, Told, Running
<1>2. PICK handle \in Handles : AllocAndPut(Control("async", handle))
  BY DEF Handles
<1>3. Control("async", handle) \in Messages /\ Control("async", handle).subid = "async"
  BY <1>2, ControlTyped DEF Subids, Control, Msg
<1>4. dspq' = <<Control("async", handle)>> /\ gppq' = gppq
  BY <1>1, <1>2 DEF LookingUp, AllocAndPut
<1>5. Only(dspq', {"async"}) /\ Len(dspq') = 1 /\ dspq' # <<>>
  BY <1>3, <1>4, OnlyOne
<1>6. hold' = <<>> /\ Len(hold') <= 1 /\ Only(hold', {"async"})
  BY <1>1, EmptySeq, OnlyEmpty DEF LookingUp
<1>7. DspHasJust("async")'
  <2>1. Len(dspq') <= 1
    BY <1>5
  <2> QED BY <1>5, <1>6, <2>1, Zenon DEF DspHasJust
<1>8. LookedUp'
  BY <1>1, <1>4, <1>7 DEF LookingUp, LookedUp, Starting
<1> QED BY <1>8 DEF StageInv

LEMMA ElsewhereKeepsStage ==
  ASSUME TInv, UNCHANGED <<msgqVars, dspVars, reply_msgq, pc>>
  PROVE  StageInv'
  BY DEF StageInv, Fresh, AskedReply, LookingUp, LookedUp, Told, Running,
         DspHasJust, Starting, MayBeSent, Only, msgqVars, dspVars

(* The pass over the peers.                                                *)

LEMMA ThisPeer ==
  ASSUME TInv, pc # "stopped", AtPeer
  PROVE  /\ cursor \in 1..Len(peers) /\ DOMAIN peers = 1..Len(peers)
         /\ Len(peers) \in Nat
         /\ This \in Peers /\ This.sck \in Fds
         /\ Conn \in Clients
<1>1. cursor \in 1..Len(peers) /\ DOMAIN peers = 1..Len(peers) /\ Len(peers) \in Nat
  BY LenProperties DEF AtPeer
<1>2. This \in Peers
  BY <1>1, ElementOfSeq DEF This
<1>3. This.sck \in Fds
  BY <1>2 DEF Peers
<1>4. owner[This.sck] # None
  BY <1>1 DEF PeersInv, This
<1> QED BY <1>1, <1>2, <1>3, <1>4 DEF Conn

LEMMA RemoveKeepsPeers ==
  ASSUME TInv, pc # "stopped", AtPeer, RemoveThis
  PROVE  /\ peers' \in Seq(Peers)
         /\ owner' \in [Fds -> Clients \union {None}]
         /\ PeersInv'
<1> DEFINE old(j) == IF j < cursor THEN j ELSE j + 1
<1>1. /\ cursor \in 1..Len(peers) /\ DOMAIN peers = 1..Len(peers)
      /\ Len(peers) \in Nat /\ This.sck \in Fds
  BY ThisPeer
<1>2. /\ peers' \in Seq(Peers)
      /\ DOMAIN peers' = 1..(Len(peers) - 1)
      /\ \A j \in DOMAIN peers' : peers'[j] = peers[old(j)]
  <2>1. /\ peers' \in Seq(Peers) /\ Len(peers') = Len(peers) - 1
        /\ \A j \in 1..(Len(peers) - 1) :
                peers'[j] = IF j < cursor THEN peers[j] ELSE peers[j + 1]
    <3>1. peers' = RemoveAt(peers, cursor)
      BY DEF RemoveThis
    <3>2. peers \in Seq(Peers)
      OBVIOUS
    <3> QED BY ONLY <1>1, <3>1, <3>2, RemoveAtProperties
  <2>2. DOMAIN peers' = 1..(Len(peers) - 1)
    BY ONLY <2>1, LenProperties
  <2>3. \A j \in 1..(Len(peers) - 1) : peers'[j] = peers[old(j)]
    BY ONLY <2>1
  <2> QED BY ONLY <2>1, <2>2, <2>3
<1>3. \A j \in DOMAIN peers' : old(j) \in DOMAIN peers /\ old(j) # cursor
  BY <1>1, <1>2
<1>4. \A i, j \in DOMAIN peers' : i # j => old(i) # old(j)
  <2>1. \A n, c \in Int : \A i, j \in 1..n : i # j =>
            (IF i < c THEN i ELSE i + 1) # (IF j < c THEN j ELSE j + 1)
    OBVIOUS
  <2>2. DOMAIN peers' = 1..(Len(peers) - 1) /\ Len(peers) - 1 \in Int /\ cursor \in Int
    BY <1>1, <1>2
  <2> QED BY ONLY <2>1, <2>2
<1>5. \A i \in DOMAIN peers : i # cursor => \E j \in DOMAIN peers' : old(j) = i
  <2> SUFFICES ASSUME NEW i \in DOMAIN peers, i # cursor
               PROVE  \E j \in DOMAIN peers' : old(j) = i
    OBVIOUS
  <2>1. CASE i < cursor
    <3>1. i \in DOMAIN peers' /\ old(i) = i
      BY ONLY <1>1, <1>2, <2>1
    <3> QED BY <3>1
  <2>2. CASE i > cursor
    <3>1. i - 1 \in DOMAIN peers' /\ old(i - 1) = i
      <4>1. i \in 1..Len(peers) /\ cursor \in 1..Len(peers) /\ Len(peers) \in Nat
        BY ONLY <1>1, i \in DOMAIN peers
      <4>2. i - 1 \in 1..(Len(peers) - 1) /\ ~(i - 1 < cursor) /\ (i - 1) + 1 = i
        BY ONLY <2>2, <4>1
      <4> QED BY ONLY <1>2, <4>2
    <3> QED BY <3>1
  <2> QED BY <1>1, <2>1, <2>2
<1> HIDE DEF old
<1>6. owner' = [owner EXCEPT ![This.sck] = None] /\ unique_id' = unique_id /\ pc' = "read"
  BY DEF RemoveThis
<1>7. \A i \in DOMAIN peers' : peers'[i].id <= unique_id'
  BY <1>2, <1>3, <1>6 DEF PeersInv
<1>8. \A i, j \in DOMAIN peers' : i # j =>
        peers'[i].id # peers'[j].id /\ peers'[i].sck # peers'[j].sck
  BY <1>2, <1>3, <1>4 DEF PeersInv
<1>9. \A i \in DOMAIN peers' : owner'[peers'[i].sck] # None
  <2> SUFFICES ASSUME NEW i \in DOMAIN peers'
               PROVE  owner'[peers'[i].sck] # None
    OBVIOUS
  <2>1. old(i) \in DOMAIN peers /\ old(i) # cursor /\ peers'[i] = peers[old(i)]
    BY <1>2, <1>3
  <2>2. peers[old(i)].sck # This.sck /\ owner[peers[old(i)].sck] # None
    BY <1>1, <2>1 DEF PeersInv, This
  <2>3. peers[old(i)].sck \in Fds
    <3>1. peers[old(i)] \in Peers
      BY <1>1, <2>1, ElementOfSeq
    <3> QED BY <3>1 DEF Peers
  <2> QED BY <1>6, <2>1, <2>2, <2>3
<1>10. \A fd \in Fds : owner'[fd] # None => \E i \in DOMAIN peers' : peers'[i].sck = fd
  <2> SUFFICES ASSUME NEW fd \in Fds, owner'[fd] # None
               PROVE  \E i \in DOMAIN peers' : peers'[i].sck = fd
    OBVIOUS
  <2>1. fd # This.sck /\ owner[fd] # None
    BY <1>1, <1>6
  <2>2. PICK i \in DOMAIN peers : peers[i].sck = fd
    BY <2>1 DEF PeersInv
  <2>3. i # cursor
    BY <2>1, <2>2 DEF This
  <2>4. PICK j \in DOMAIN peers' : old(j) = i
    BY <1>5, <2>3
  <2> QED BY <1>2, <2>2, <2>4
<1>11. owner' \in [Fds -> Clients \union {None}]
  BY <1>6
<1>12. PeersInv'
  BY <1>6, <1>7, <1>8, <1>9, <1>10 DEF PeersInv
<1> QED BY <1>2, <1>11, <1>12

(* A step that changes a peer keeps its id and its descriptor.             *)
SameSlots ==
    /\ peers' \in Seq(Peers) /\ DOMAIN peers' = DOMAIN peers
    /\ \A i \in DOMAIN peers :
            peers'[i].id = peers[i].id /\ peers'[i].sck = peers[i].sck

LEMMA SameSlotsKeepPeers ==
  ASSUME TInv, SameSlots, UNCHANGED <<owner, unique_id>>, pc # "stopped",
         pc' = "write" => cursor' <= Len(peers')
  PROVE  PeersInv'
<1> USE DEF SameSlots, PeersInv
<1>1. \A i \in DOMAIN peers' : peers'[i].id <= unique_id'
  OBVIOUS
<1>2. \A i, j \in DOMAIN peers' : i # j =>
        peers'[i].id # peers'[j].id /\ peers'[i].sck # peers'[j].sck
  OBVIOUS
<1>3. \A i \in DOMAIN peers' : owner'[peers'[i].sck] # None
  OBVIOUS
<1>4. \A fd \in Fds : owner'[fd] # None => \E i \in DOMAIN peers' : peers'[i].sck = fd
  OBVIOUS
<1> QED BY <1>1, <1>2, <1>3, <1>4 DEF AtPeer

LEMMA ChangeThis ==
  ASSUME TInv, pc # "stopped", AtPeer, NEW p \in Peers,
         p.id = This.id, p.sck = This.sck,
         peers' = [peers EXCEPT ![cursor] = p]
  PROVE  SameSlots /\ Len(peers') = Len(peers)
<1>1. cursor \in 1..Len(peers) /\ DOMAIN peers = 1..Len(peers)
  BY ThisPeer
<1>2. peers' \in Seq(Peers) /\ Len(peers') = Len(peers) /\ DOMAIN peers' = DOMAIN peers
  BY <1>1, ExceptSeq, LenProperties
<1> QED BY <1>1, <1>2 DEF SameSlots, This

LEMMA InLoopRunning ==
  ASSUME TInv, pc \notin {"located", "starting"} \union Ending
  PROVE  Running
  BY DEF StageInv, Fresh, AskedReply, LookingUp, LookedUp, Told, Starting

(* A step of the server that leaves the messages alone.                    *)
LEMMA PcMovesKeepStage ==
  ASSUME TInv, UNCHANGED <<dspq, gppq, hold, parked, locate, reply_msgq>>,
         pc # "located", pc' # "located",
         pc \in {"starting"} \union Ending => pc' \in Ending
  PROVE  StageInv'
<1>1. CASE pc \in {"starting"} \union Ending
  <2> USE DEF Starting, DspHasJust, Only
  <2>1. MayBeSent' = Requests \union {"shutdown"} /\ MayBeSent \subseteq MayBeSent'
    BY <1>1 DEF MayBeSent
  <2> QED BY <1>1, <2>1
      DEF StageInv, Fresh, AskedReply, LookingUp, LookedUp, Told, Running
<1>2. CASE pc \notin {"starting"} \union Ending
  <2>1. Running
    BY <1>2, InLoopRunning
  <2>2. MayBeSent \subseteq MayBeSent'
    BY <1>2 DEF MayBeSent
  <2>3. Running'
    BY <2>1, <2>2 DEF Running, Only
  <2> QED BY <2>3 DEF StageInv
<1> QED BY <1>1, <1>2

LEMMA TakeTyped ==
  ASSUME TInv, Reading, toServer[Conn] # <<>>
  PROVE  /\ Head(toServer[Conn]) \in Pdus
         /\ TakePdu => toServer' \in [Clients -> Seq(Pdus)]
<1>1. Conn \in Clients
  BY ThisPeer DEF Reading
<1>2. toServer[Conn] \in Seq(Pdus)
  BY <1>1
<1>3. Head(toServer[Conn]) \in Pdus /\ Tail(toServer[Conn]) \in Seq(Pdus)
  BY <1>2, HeadTailProperties
<1> QED BY <1>1, <1>3 DEF TakePdu

LEMMA AfterReadKeeps ==
  ASSUME TInv, Reading, NEW in \in {"none", "header", "payload"}, AfterRead(in)
  PROVE  peers' \in Seq(Peers) /\ PeersInv'
<1>1. This \in Peers /\ Len(peers) \in Nat
  BY ThisPeer DEF Reading
<1> DEFINE p == [This EXCEPT !.in = in]
<1>2. p \in Peers /\ p.id = This.id /\ p.sck = This.sck
  BY <1>1 DEF Peers
<1>3. peers' = [peers EXCEPT ![cursor] = p]
  BY DEF AfterRead, This
<1> HIDE DEF p
<1>4. SameSlots /\ Len(peers') = Len(peers)
  BY <1>2, <1>3, ChangeThis DEF Reading
<1>5. cursor' = cursor /\ cursor <= Len(peers) /\ UNCHANGED <<owner, unique_id>>
  BY DEF AfterRead, Reading, AtPeer
<1> QED BY <1>4, <1>5, SameSlotsKeepPeers DEF Reading, SameSlots

(* Removing a peer, with or without taking a PDU.                          *)
LEMMA RemovalKeepsTInv ==
  ASSUME TInv, pc \in {"read", "write"}, AtPeer, RemoveThis,
         toServer' \in [Clients -> Seq(Pdus)],
         UNCHANGED <<rfds, wfds, reply_msgq, cnt, msgqVars, ready, term, termPipe, dspVars>>
  PROVE  TInv'
<1> USE DEF msgqVars, dspVars
<1>1. /\ peers' \in Seq(Peers) /\ owner' \in [Fds -> Clients \union {None}]
      /\ PeersInv'
  BY RemoveKeepsPeers
<1>2. pc' = "read" /\ UNCHANGED <<cursor, unique_id, conn, backlog, sent, replies, unread>>
  BY DEF RemoveThis
<1>3. StageInv'
  BY <1>2, PcMovesKeepStage DEF Ending
<1>4. TypeOK'
  BY <1>1, <1>2
<1> QED BY <1>1, <1>3, <1>4

(* A read after which the peer stays.                                      *)
LEMMA ReadKeepsTInv ==
  ASSUME TInv, Reading, NEW in \in {"none", "header", "payload"}, AfterRead(in),
         toServer' \in [Clients -> Seq(Pdus)],
         UNCHANGED <<rfds, wfds, reply_msgq, cnt, msgqVars, ready, term, termPipe, dspVars>>
  PROVE  TInv'
<1> USE DEF msgqVars, dspVars
<1>1. peers' \in Seq(Peers) /\ PeersInv'
  BY AfterReadKeeps
<1>2. pc' = "write" /\ UNCHANGED <<cursor, unique_id, conn, backlog, owner, sent, replies, unread>>
  BY DEF AfterRead
<1>3. StageInv'
  BY <1>2, PcMovesKeepStage DEF Ending, Reading
<1>4. TypeOK'
  BY <1>1, <1>2
<1> QED BY <1>1, <1>3, <1>4

LEMMA ForwardTyped ==
  ASSUME TInv, Reading, NEW pdu \in Pdus, pdu.kind \in Requests
  PROVE  Forward(pdu) \in Messages /\ Forward(pdu).subid \in Requests
<1>1. This.id \in Nat
  BY ThisPeer DEF Reading, Peers
<1> QED BY <1>1 DEF Forward, Msg, Messages, Pdus, Subids, Arguments, Results

LEMMA ReadRequestKeepsTInv ==
  ASSUME TInv, ReadRequest, UNCHANGED <<ready, term, termPipe, dspVars>>
  PROVE  TInv'
<1> USE DEF dspVars
<1>1. /\ Reading /\ toServer[Conn] # <<>>
      /\ Head(toServer[Conn]) \in Pdus /\ Head(toServer[Conn]).kind \in Requests
      /\ toServer' \in [Clients -> Seq(Pdus)]
  BY TakeTyped DEF ReadRequest, ReadingPdu
<1> DEFINE m == Forward(Head(toServer[Conn]))
<1>2. m \in Messages /\ m.subid \in Requests
  BY <1>1, ForwardTyped
<1> HIDE DEF m
<1>3. CASE SendCounted(m) /\ AfterRead("header")
  <2>1. AllocAndPut(m) /\ cnt' \in Nat
    BY <1>3 DEF SendCounted
  <2>2. MsgqTypeOK'
    BY <1>2, <2>1, AllocAndPutTyped
  <2>3. peers' \in Seq(Peers) /\ PeersInv'
    BY <1>1, <1>3, AfterReadKeeps
  <2>4. pc' = "write" /\ UNCHANGED <<cursor, unique_id, conn, backlog, owner, sent, replies, unread>>
    BY <1>3 DEF AfterRead
  <2>5. rfds' = rfds /\ wfds' = wfds /\ reply_msgq' = reply_msgq
    BY DEF ReadRequest
  <2>6. TypeOK'
    BY <1>1, <2>1, <2>2, <2>3, <2>4, <2>5
  <2>7. Running /\ pc = "read"
    BY <1>1, InLoopRunning DEF Reading, Ending
  <2>8. MayBeSent' = MayBeSent /\ m.subid \in MayBeSent
    BY <1>2, <2>4, <2>7 DEF MayBeSent, Ending
  <2>9. Only(dspq', MayBeSent)
    BY <1>2, <2>1, <2>7, <2>8, OnlyAppend DEF AllocAndPut, Running
  <2>10. Running'
    BY <2>1, <2>4, <2>7, <2>8, <2>9 DEF Running, AllocAndPut
  <2> QED BY <2>3, <2>6, <2>10 DEF StageInv
<1>4. CASE SendFails /\ RemoveThis
  <2>1. UNCHANGED <<rfds, wfds, reply_msgq, cnt, msgqVars>>
    BY <1>4 DEF ReadRequest, SendFails, AllocOrPutFails
  <2> QED BY <1>1, <1>4, <2>1, RemovalKeepsTInv DEF Reading
<1> QED BY <1>3, <1>4 DEF ReadRequest, m

LEMMA WriteReplyKeepsTInv ==
  ASSUME TInv, WriteReply, UNCHANGED <<ready, term, termPipe, dspVars>>
  PROVE  TInv'
<1> USE DEF dspVars, msgqVars
<1>1. pc = "write" /\ AtPeer /\ This.out # <<>>
  BY DEF WriteReply, Writing, PeersInv
<1>2. /\ This \in Peers /\ Conn \in Clients
      /\ Len(peers) \in Nat
  BY <1>1, ThisPeer
<1>3. This.out \in Seq(Replies)
  BY <1>2 DEF Peers
<1>4. Head(This.out) \in Replies /\ Tail(This.out) \in Seq(Replies)
  BY <1>1, <1>3, HeadTailProperties
<1> DEFINE p == [This EXCEPT !.out = Tail(@)]
<1>5. p \in Peers /\ p.id = This.id /\ p.sck = This.sck
  BY <1>2, <1>4 DEF Peers
<1>6. peers' = [peers EXCEPT ![cursor] = p]
  BY DEF WriteReply, This
<1> HIDE DEF p
<1>7. SameSlots /\ Len(peers') = Len(peers)
  BY <1>1, <1>5, <1>6, ChangeThis
<1>8. /\ pc' = "read" /\ cursor' = cursor + 1
      /\ UNCHANGED <<unique_id, rfds, wfds, reply_msgq, cnt, msgqVars,
                     conn, backlog, owner, sent, toServer>>
  BY DEF WriteReply, Advance
<1>9. PeersInv'
  BY <1>1, <1>7, <1>8, SameSlotsKeepPeers
<1>10. /\ replies' = [replies EXCEPT ![Conn] = Append(@, Head(This.out))]
       /\ unread' = [unread EXCEPT ![Conn] = @ + 1]
  BY DEF WriteReply
<1>11. replies' \in [Clients -> Seq(Replies)] /\ unread' \in [Clients -> Nat]
  <2>1. replies[Conn] \in Seq(Replies) /\ unread[Conn] \in Nat
    BY <1>2
  <2>2. Append(replies[Conn], Head(This.out)) \in Seq(Replies)
    BY <1>4, <2>1, AppendProperties
  <2>3. replies' = [replies EXCEPT ![Conn] = Append(replies[Conn], Head(This.out))]
    BY <1>10
  <2>4. replies' \in [Clients -> Seq(Replies)]
    BY <1>2, <2>2, <2>3
  <2>5. unread' \in [Clients -> Nat]
    BY <1>2, <1>10, <2>1
  <2> QED BY <2>4, <2>5
<1>12. TypeOK'
  BY <1>7, <1>8, <1>11 DEF SameSlots
<1>13. StageInv'
  BY <1>1, <1>8, PcMovesKeepStage DEF Ending
<1> QED BY <1>9, <1>12, <1>13

LEMMA PeerStepKeepsTInv ==
  ASSUME TInv, PeerStep, UNCHANGED <<ready, term, termPipe, dspVars>>
  PROVE  TInv'
<1> USE DEF dspVars, msgqVars, peerVars, sockVars
<1>1. CASE SkipRead
  <2>1. StageInv'
    BY <1>1, PcMovesKeepStage DEF SkipRead, Ending
  <2>2. PeersInv'
    BY <1>1 DEF SkipRead, PeersInv, AtPeer
  <2> QED BY <1>1, <2>1, <2>2 DEF SkipRead
<1>2. CASE ReadNoMemory \/ PassEnds
  <2>0. PassOver /\ pc = "read"
    BY <1>2 DEF ReadNoMemory, PassEnds, Reading
  <2>1. StageInv'
    BY <2>0, PcMovesKeepStage DEF PassOver, Ending
  <2>2. PeersInv'
    BY <2>0 DEF PassOver, PeersInv, AtPeer
  <2> QED BY <2>0, <2>1, <2>2 DEF PassOver
<1>3. CASE ReadEof
  BY <1>3, RemovalKeepsTInv DEF ReadEof, Reading, LeavePdu
<1>4. CASE ReadBadLength \/ ReadShort
  <2>1. /\ Reading /\ RemoveThis
        /\ toServer[Conn] # <<>> /\ TakePdu
        /\ UNCHANGED <<rfds, wfds, reply_msgq, cnt, msgqVars>>
    BY <1>4 DEF ReadBadLength, ReadShort, ReadingPdu
  <2>2. toServer' \in [Clients -> Seq(Pdus)]
    BY <2>1, TakeTyped
  <2> QED BY <2>1, <2>2, RemovalKeepsTInv DEF Reading
<1>5. CASE ReadHeader
  BY <1>5, ReadKeepsTInv DEF ReadHeader, ReadingPdu, LeavePdu
<1>6. CASE ReadUnknown
  <2>1. /\ Reading /\ AfterRead("header")
        /\ toServer[Conn] # <<>> /\ TakePdu
        /\ UNCHANGED <<rfds, wfds, reply_msgq, cnt, msgqVars>>
    BY <1>6 DEF ReadUnknown, ReadingPdu
  <2>2. toServer' \in [Clients -> Seq(Pdus)]
    BY <2>1, TakeTyped
  <2> QED BY <2>1, <2>2, ReadKeepsTInv
<1>7. CASE ReadRequest
  BY <1>7, ReadRequestKeepsTInv
<1>8. CASE SkipWrite
  <2>1. pc = "write" /\ pc' = "read" /\ cursor' = cursor + 1
    BY <1>8 DEF SkipWrite, Advance
  <2>2. StageInv'
    BY <1>8, <2>1, PcMovesKeepStage DEF SkipWrite, Advance, Ending
  <2>3. PeersInv'
    BY <1>8, <2>1 DEF SkipWrite, Advance, PeersInv
  <2> QED BY <1>8, <2>1, <2>2, <2>3 DEF SkipWrite, Advance
<1>9. CASE WriteReply
  BY <1>9, WriteReplyKeepsTInv
<1>10. CASE WriteError
  BY <1>10, RemovalKeepsTInv DEF WriteError, Writing, LeavePdu, PeersInv
<1> QED BY <1>1, <1>2, <1>3, <1>4, <1>5, <1>6, <1>7, <1>8, <1>9, <1>10 DEF PeerStep

(* Messages that come back.                                                *)

LEMMA QueuedKeepsSlots ==
  ASSUME TInv, NEW m \in Messages, QueueReply(m)
  PROVE  SameSlots /\ Len(peers') = Len(peers)
<1>1. Len(peers) \in Nat /\ DOMAIN peers = 1..Len(peers)
  BY LenProperties
<1>2. Reply(m) \in Replies
  BY DEF Reply, Replies, Messages
<1>3. CASE peers' = Queued(m)
  <2>1. ASSUME NEW i \in 1..Len(peers)
        PROVE  /\ peers'[i] \in Peers
               /\ peers'[i].id = peers[i].id /\ peers'[i].sck = peers[i].sck
    <3>1. peers[i] \in Peers
      BY ElementOfSeq
    <3>2. Append(peers[i].out, Reply(m)) \in Seq(Replies)
      BY <1>2, <3>1, AppendProperties DEF Peers
    <3>3. peers'[i] = peers[i] \/ peers'[i] = [peers[i] EXCEPT !.out = Append(peers[i].out, Reply(m))]
      BY <1>1, <1>3 DEF Queued
    <3> QED BY <3>1, <3>2, <3>3 DEF Peers
  <2>2. DOMAIN peers' = 1..Len(peers) /\ peers' = [i \in DOMAIN peers' |-> peers'[i]]
    BY <1>1, <1>3 DEF Queued
  <2>3. peers' \in [1..Len(peers) -> Peers]
    BY <2>1, <2>2
  <2>4. peers' \in Seq(Peers) /\ Len(peers') = Len(peers)
    BY <1>1, <2>3, FunctionIsSeq
  <2> QED BY <1>1, <2>1, <2>2, <2>4 DEF SameSlots
<1>4. CASE UNCHANGED peers
  BY <1>4 DEF SameSlots
<1> QED BY <1>3, <1>4 DEF QueueReply

LEMMA ProcessOneKeeps ==
  ASSUME TInv, ProcessOneMsgq, cnt \in Nat \ {0}, pc \notin {"write", "stopped"}
  PROVE  /\ MsgqTypeOK' /\ PeerTypeOK' /\ SocketsTypeOK'
         /\ SameSlots /\ Len(peers') = Len(peers)
         /\ gppq # <<>> /\ gppq' = Tail(gppq) /\ dspq' = dspq
         /\ Head(gppq) \in Messages
         /\ Head(gppq).subid \in Requests => reply_msgq' = reply_msgq
<1>1. /\ gppq # <<>> /\ gppq' = Tail(gppq) /\ dspq' = dspq
      /\ free' = free + 1 /\ cnt' = cnt - 1
      /\ UNCHANGED <<unique_id, passVars, sockVars>>
      /\ ProcessMymsg(Head(gppq))
  BY DEF ProcessOneMsgq
<1>2. Head(gppq) \in Messages /\ Tail(gppq) \in Seq(Messages)
  BY <1>1, HeadTailProperties
<1>3. /\ SameSlots /\ Len(peers') = Len(peers)
      /\ reply_msgq' \in Handles
      /\ Head(gppq).subid \in Requests => reply_msgq' = reply_msgq
  <2>1. CASE Head(gppq).subid = "getreply" /\ reply_msgq' = Head(gppq).reply_msgq /\ UNCHANGED peers
    BY <1>2, <2>1 DEF SameSlots, Messages, Requests
  <2>2. CASE QueueReply(Head(gppq)) /\ UNCHANGED reply_msgq
    BY <1>2, <2>2, QueuedKeepsSlots
  <2> QED BY <1>1, <2>1, <2>2 DEF ProcessMymsg
<1>4. peers' \in Seq(Peers)
  BY <1>3 DEF SameSlots
<1> QED BY <1>1, <1>2, <1>3, <1>4 DEF passVars, sockVars

(* accept() is called when select() has reported a connection, and nothing *)
(* takes connections off the backlog in between.                           *)
ListenInv == pc = "check" /\ "listen" \in ready => backlog # <<>>

(* A message is processed in one of three places, and in each of them      *)
(* processing_count is positive when there is one.                         *)
LEMMA CountPositive ==
  ASSUME TInv, CountMatches, gppq # <<>>, pc \notin Ending
  PROVE  cnt \in Nat \ {0}
<1>1. Len(gppq) \in Nat \ {0} /\ Len(dspq) \in Nat /\ Len(hold) \in Nat /\ Len(parked) \in Nat
  BY EmptySeq, LenProperties
<1>2. locate # "answered"
  BY DEF StageInv, Fresh, AskedReply, LookingUp, LookedUp, Told, Running
<1>3. cnt = Len(dspq) + Len(gppq) + Len(hold) + Len(parked) + lost
  BY <1>2 DEF CountMatches, InUse, Lookups, Ending
<1> QED BY <1>1, <1>3

LEMMA ProcessInLoopKeepsTInv ==
  ASSUME TInv, CountMatches, ProcessOneMsgq,
         pc \in {"drain", "get"}, pc' \in {"drain", "loop"},
         UNCHANGED <<ready, term, termPipe, dspVars>>
  PROVE  TInv'
<1> USE DEF dspVars
<1>1. Running
  BY InLoopRunning DEF Ending
<1>2. cnt \in Nat \ {0}
  BY CountPositive DEF ProcessOneMsgq, Ending
<1>3. /\ MsgqTypeOK' /\ PeerTypeOK' /\ SocketsTypeOK'
      /\ SameSlots /\ Len(peers') = Len(peers)
      /\ gppq # <<>> /\ gppq' = Tail(gppq) /\ dspq' = dspq
  BY <1>2, ProcessOneKeeps
<1>4. Only(gppq', Requests)
  BY <1>1, <1>3, OnlyTail DEF Running
<1>5. MayBeSent' = MayBeSent
  BY DEF MayBeSent, Ending
<1>6. Running'
  BY <1>1, <1>3, <1>4, <1>5 DEF Running
<1>7. PeersInv'
  BY <1>3, SameSlotsKeepPeers DEF ProcessOneMsgq, sockVars
<1> QED BY <1>3, <1>6, <1>7 DEF StageInv

LEMMA AwaitReplyKeepsTInv ==
  ASSUME TInv, CountMatches, AwaitReplyMsgq, UNCHANGED dspVars
  PROVE  TInv'
<1> USE DEF dspVars, msgqVars, sockVars, peerVars
<1>0. pc = "starting" /\ UNCHANGED <<ready, term, termPipe>>
  BY DEF AwaitReplyMsgq
<1>1. CASE ProcessOneMsgq /\ pc' = IF reply_msgq' = NoQueue THEN "starting" ELSE "loop"
  <2>1. cnt \in Nat \ {0} /\ gppq # <<>>
    BY <1>0, <1>1, CountPositive DEF ProcessOneMsgq, Ending
  <2>2. /\ MsgqTypeOK' /\ PeerTypeOK' /\ SocketsTypeOK'
        /\ SameSlots /\ Len(peers') = Len(peers)
        /\ gppq # <<>> /\ gppq' = Tail(gppq) /\ dspq' = dspq
    BY <1>0, <1>1, <2>1, ProcessOneKeeps
  <2>3. PeersInv'
    BY <1>0, <1>1, <2>2, SameSlotsKeepPeers DEF ProcessOneMsgq
  <2>4. pc' \in {"starting", "loop"} /\ TypeOK'
    BY <1>0, <1>1, <2>2
  <2>5. Told \/ Running
    BY <2>1 DEF StageInv, Fresh, AskedReply, LookingUp, LookedUp
  <2>6. Only(gppq', Requests)
    <3>1. CASE Told
      <4>1. Len(gppq') = 0 /\ gppq' \in Seq(Messages)
        BY <2>2, <3>1, HeadTailProperties DEF Told
      <4>2. gppq' = <<>>
        BY <4>1, EmptySeq
      <4> QED BY <4>2, OnlyEmpty
    <3>2. CASE Running
      BY <2>2, <3>2, OnlyTail DEF Running
    <3> QED BY <2>5, <3>1, <3>2
  <2>7. MayBeSent' = MayBeSent
    BY <1>0, <2>4 DEF MayBeSent, Ending
  <2>8. CASE Told
    <3>1. Running'
      BY <1>0, <2>2, <2>4, <2>6, <2>8, EmptySeq, OnlyEmpty DEF Running, Told
    <3> QED BY <2>3, <2>4, <3>1 DEF StageInv
  <2>9. CASE Running
    <3>1. Running'
      BY <1>0, <2>2, <2>4, <2>6, <2>7, <2>9 DEF Running
    <3> QED BY <2>3, <2>4, <3>1 DEF StageInv
  <2> QED BY <2>5, <2>8, <2>9
<1>2. CASE GetFails /\ pc' = "closing"
  <2>1. UNCHANGED <<peerVars, sockVars, msgqVars>>
    BY <1>2 DEF GetFails
  <2>2. StageInv'
    BY <1>0, <1>2, <2>1, PcMovesKeepStage DEF Ending
  <2>3. PeersInv'
    BY <1>0, <1>2, <2>1 DEF PeersInv, AtPeer
  <2> QED BY <1>0, <1>2, <2>1, <2>2, <2>3
<1> QED BY <1>1, <1>2 DEF AwaitReplyMsgq

LEMMA SendGetReplyKeepsTInv ==
  ASSUME TInv, SendGetReply, UNCHANGED dspVars
  PROVE  TInv'
<1> USE DEF dspVars, msgqVars, sockVars, passVars
<1>1. /\ Fresh
      /\ UNCHANGED <<peers, passVars, reply_msgq, unique_id, sockVars, ready, term, termPipe>>
  BY DEF SendGetReply, StageInv, AskedReply, LookingUp, LookedUp, Told, Running, Starting, Ending
<1>2. PeersInv' /\ pc' \in {"starting", "closing"}
  BY <1>1 DEF SendGetReply, PeersInv, Fresh
<1> DEFINE m == Control("getreply", NoQueue)
<1>3. m \in Messages /\ m.subid = "getreply"
  BY ControlTyped DEF Subids, Handles, Control, Msg
<1> HIDE DEF m
<1>4. CASE SendCounted(m) /\ pc' = "starting"
  <2>1. AllocAndPut(m) /\ cnt' = cnt + 1
    BY <1>4 DEF SendCounted
  <2>2. MsgqTypeOK'
    BY <1>3, <2>1, AllocAndPutTyped
  <2>3. TypeOK'
    BY <1>1, <1>4, <2>1, <2>2
  <2>4. dspq' = <<m>> /\ gppq' = gppq
    BY <1>1, <2>1 DEF AllocAndPut, Fresh
  <2>5. Only(dspq', {"getreply"}) /\ Len(dspq') = 1 /\ dspq' # <<>>
    BY <1>3, <2>4, OnlyOne
  <2>6. hold' = <<>> /\ Len(hold') = 0 /\ Only(hold', {"getreply"})
    BY <1>1, EmptySeq, OnlyEmpty DEF Fresh
  <2>7. Len(dspq') <= 1 /\ Len(hold') <= 1
    BY ONLY <2>5, <2>6
  <2>8. DspHasJust("getreply")'
    BY <2>5, <2>6, <2>7, Zenon DEF DspHasJust
  <2>9. AskedReply'
    BY <1>1, <1>4, <2>4, <2>8 DEF AskedReply, Fresh, Starting
  <2> QED BY <1>2, <2>3, <2>9 DEF StageInv
<1>5. CASE SendFails /\ pc' = "closing"
  <2>1. UNCHANGED <<msgqVars, cnt>>
    BY <1>5 DEF SendFails, AllocOrPutFails
  <2>2. Running'
    BY <1>1, <1>5, <2>1, EmptySeq, OnlyEmpty DEF Running, Fresh
  <2> QED BY <1>1, <1>2, <1>5, <2>1, <2>2 DEF StageInv
<1> QED BY <1>4, <1>5 DEF SendGetReply, m

LEMMA AddPeerKeepsPeers ==
  ASSUME TInv, pc = "check", NEW fd \in FreeFds, AddPeer(fd),
         NEW c \in Clients, owner' = [owner EXCEPT ![fd] = c], pc' = "read"
  PROVE  /\ peers' \in Seq(Peers) /\ unique_id' \in Nat
         /\ owner' \in [Fds -> Clients \union {None}]
         /\ PeersInv'
<1>1. fd \in Fds /\ owner[fd] = None /\ c # None
  BY SocketsAssumption DEF FreeFds
<1>2. NewPeer(fd) \in Peers /\ NewPeer(fd).id = unique_id + 1 /\ NewPeer(fd).sck = fd
  BY <1>1, EmptySeq DEF NewPeer, Peers
<1>3. unique_id' = unique_id + 1 /\ peers' = Append(peers, NewPeer(fd))
  BY DEF AddPeer
<1>4. /\ peers' \in Seq(Peers) /\ Len(peers) \in Nat
      /\ DOMAIN peers = 1..Len(peers) /\ DOMAIN peers' = 1..(Len(peers) + 1)
      /\ \A i \in DOMAIN peers : peers'[i] = peers[i]
      /\ peers'[Len(peers) + 1] = NewPeer(fd)
  BY <1>2, <1>3, AppendProperties, LenProperties
<1>5. \A i \in DOMAIN peers :
        peers[i].id \in Nat /\ peers[i].sck \in Fds /\ peers[i].sck # fd
  <2> SUFFICES ASSUME NEW i \in DOMAIN peers
               PROVE  peers[i].id \in Nat /\ peers[i].sck \in Fds /\ peers[i].sck # fd
    OBVIOUS
  <2>1. peers[i] \in Peers
    BY <1>4, ElementOfSeq
  <2>2. owner[peers[i].sck] # None
    BY DEF PeersInv
  <2> QED BY <1>1, <2>1, <2>2 DEF Peers
<1>6. \A i \in DOMAIN peers' : i \in DOMAIN peers \/ i = Len(peers) + 1
  BY <1>4
<1>7. \A i \in DOMAIN peers' : peers'[i].id <= unique_id'
  BY <1>2, <1>3, <1>4, <1>5, <1>6 DEF PeersInv
<1>8. \A i, j \in DOMAIN peers' : i # j =>
        peers'[i].id # peers'[j].id /\ peers'[i].sck # peers'[j].sck
  <2>1. \A i \in DOMAIN peers : peers[i].id # unique_id + 1
    BY <1>5 DEF PeersInv
  <2>2. \A i, j \in DOMAIN peers : i # j =>
            peers[i].id # peers[j].id /\ peers[i].sck # peers[j].sck
    BY DEF PeersInv
  <2>3. peers'[Len(peers) + 1].id = unique_id + 1 /\ peers'[Len(peers) + 1].sck = fd
    BY <1>2, <1>4
  <2> HIDE DEF TInv
  <2>4. ASSUME NEW i \in DOMAIN peers', NEW j \in DOMAIN peers', i # j
        PROVE  peers'[i].id # peers'[j].id /\ peers'[i].sck # peers'[j].sck
    <3>1. CASE i \in DOMAIN peers /\ j \in DOMAIN peers
      BY <1>4, <2>2, <2>4, <3>1
    <3>2. CASE i = Len(peers) + 1 /\ j \in DOMAIN peers
      BY <1>4, <1>5, <2>1, <2>3, <3>2
    <3>3. CASE i \in DOMAIN peers /\ j = Len(peers) + 1
      BY <1>4, <1>5, <2>1, <2>3, <3>3
    <3> QED BY <1>6, <2>4, <3>1, <3>2, <3>3
  <2> QED BY <2>4
<1>9. \A i \in DOMAIN peers' : owner'[peers'[i].sck] # None
  <2> SUFFICES ASSUME NEW i \in DOMAIN peers'
               PROVE  owner'[peers'[i].sck] # None
    OBVIOUS
  <2>1. CASE i \in DOMAIN peers
    <3>1. owner[peers[i].sck] # None
      BY <2>1 DEF PeersInv
    <3> QED BY <1>1, <1>4, <1>5, <2>1, <3>1
  <2>2. CASE i = Len(peers) + 1
    BY <1>1, <1>2, <1>4, <2>2
  <2> QED BY <1>6, <2>1, <2>2
<1>10. \A g \in Fds : owner'[g] # None => \E i \in DOMAIN peers' : peers'[i].sck = g
  <2> SUFFICES ASSUME NEW g \in Fds, owner'[g] # None
               PROVE  \E i \in DOMAIN peers' : peers'[i].sck = g
    OBVIOUS
  <2>1. CASE g = fd
    <3>1. Len(peers) + 1 \in DOMAIN peers' /\ peers'[Len(peers) + 1].sck = g
      BY <1>2, <1>4, <2>1
    <3> QED BY <3>1
  <2>2. CASE g # fd
    <3>1. PICK i \in DOMAIN peers : peers[i].sck = g
      BY <1>1, <2>2 DEF PeersInv
    <3>2. i \in DOMAIN peers' /\ peers'[i].sck = g
      BY <1>4, <3>1
    <3> QED BY <3>2
  <2> QED BY <2>1, <2>2
<1>11. owner' \in [Fds -> Clients \union {None}]
  BY <1>1
<1>12. unique_id' \in Nat
  BY <1>3
<1>13. pc' # "stopped" /\ pc' # "write"
  OBVIOUS
<1>14. PeersInv'
  BY <1>7, <1>8, <1>9, <1>10, <1>13, Zenon DEF PeersInv
<1> QED BY <1>4, <1>11, <1>12, <1>14

LEMMA CheckListenKeepsTInv ==
  ASSUME TInv, ListenInv, CheckListen, UNCHANGED dspVars
  PROVE  TInv'
<1> USE DEF dspVars, msgqVars
<1>1. /\ pc = "check" /\ pc' = "read" /\ cursor' = 1
      /\ UNCHANGED <<rfds, wfds, reply_msgq, cnt, conn, sent, toServer,
                     replies, unread, msgqVars, ready, term, termPipe>>
  BY DEF CheckListen
<1>2. StageInv'
  BY <1>1, PcMovesKeepStage DEF Ending
<1>3. CASE /\ "listen" \in ready
           /\ backlog' = Tail(backlog)
           /\ \E fd \in FreeFds :
                /\ owner' = [owner EXCEPT ![fd] = Head(backlog)]
                /\ AddPeer(fd)
  <2>1. Head(backlog) \in Clients /\ backlog' \in Seq(Clients)
    <3>1. backlog # <<>> /\ backlog \in Seq(Clients)
      BY <1>1, <1>3 DEF ListenInv
    <3> QED BY <1>3, <3>1, HeadTailProperties
  <2>2. PICK fd \in FreeFds :
            owner' = [owner EXCEPT ![fd] = Head(backlog)] /\ AddPeer(fd)
    BY <1>3
  <2>3. /\ peers' \in Seq(Peers) /\ unique_id' \in Nat
        /\ owner' \in [Fds -> Clients \union {None}]
        /\ PeersInv'
    BY <1>1, <2>1, <2>2, AddPeerKeepsPeers
  <2>4. SocketsTypeOK'
    BY <1>1, <2>1, <2>3
  <2>5. MsgqTypeOK' /\ DspTypeOK' /\ PeerTypeOK' /\ ServerTypeOK'
    BY <1>1, <2>3
  <2> QED BY <1>2, <2>3, <2>4, <2>5, Zenon
<1>4. CASE /\ backlog' = Tail(backlog) \/ UNCHANGED backlog
           /\ "listen" \in ready \/ UNCHANGED backlog
           /\ UNCHANGED <<owner, peers, unique_id>>
  <2>1. backlog' \in Seq(Clients)
    <3>1. CASE UNCHANGED backlog
      BY <3>1
    <3>2. CASE "listen" \in ready /\ backlog' = Tail(backlog)
      <4>1. backlog # <<>> /\ backlog \in Seq(Clients)
        BY <1>1, <3>2 DEF ListenInv
      <4> QED BY <3>2, <4>1, HeadTailProperties
    <3> QED BY <1>4, <3>1, <3>2
  <2>2. PeersInv'
    BY <1>1, <1>4 DEF PeersInv
  <2>3. MsgqTypeOK' /\ DspTypeOK'
    BY <1>1, <1>4
  <2>4. SocketsTypeOK' /\ PeerTypeOK' /\ ServerTypeOK'
    BY <1>1, <1>4, <2>1, SMTT(60)
  <2> QED BY <1>2, <2>2, <2>3, <2>4, Zenon
<1> QED BY <1>3, <1>4 DEF CheckListen, Accept

LEMMA SendShutdownKeepsTInv ==
  ASSUME TInv, SendShutdown, UNCHANGED dspVars
  PROVE  TInv'
<1> USE DEF dspVars, sockVars, peerVars
<1>1. /\ pc = "shutdown" /\ pc' = "closing"
      /\ UNCHANGED <<peerVars, sockVars, ready, term, termPipe>>
  BY DEF SendShutdown
<1>2. PeersInv'
  BY <1>1 DEF PeersInv, AtPeer
<1>3. Running
  BY <1>1, InLoopRunning DEF Ending
<1> DEFINE m == Control("shutdown", reply_msgq)
<1>4. m \in Messages /\ m.subid = "shutdown"
  BY ControlTyped DEF Subids, Control, Msg
<1> HIDE DEF m
<1>5. /\ MayBeSent' = Requests \union {"shutdown"} /\ MayBeSent = Requests
      /\ MayBeSent \subseteq MayBeSent' /\ m.subid \in MayBeSent'
  BY <1>1, <1>4 DEF MayBeSent, Ending
<1>6. \A q : Only(q, MayBeSent) => Only(q, MayBeSent')
  BY <1>5 DEF Only
<1>7. CASE AllocAndPut(m)
  <2>1. MsgqTypeOK'
    BY <1>4, <1>7, AllocAndPutTyped
  <2>2. dspq' = Append(dspq, m) /\ gppq' = gppq
    BY <1>7 DEF AllocAndPut
  <2>3. Only(dspq', MayBeSent') /\ Only(hold, MayBeSent')
    BY <1>3, <1>4, <1>5, <1>6, <2>2, OnlyAppend DEF Running
  <2>4. Running'
    BY <1>1, <1>3, <2>2, <2>3 DEF Running
  <2> QED BY <1>1, <1>2, <2>1, <2>4 DEF StageInv
<1>8. CASE AllocOrPutFails(GppFaults)
  <2>1. UNCHANGED msgqVars
    BY <1>8 DEF AllocOrPutFails
  <2>2. StageInv'
    BY <1>1, <2>1, PcMovesKeepStage DEF msgqVars, Ending
  <2> QED BY <1>1, <1>2, <2>1, <2>2 DEF msgqVars
<1> QED BY <1>7, <1>8 DEF SendShutdown, m

(* The steps that only move on.                                            *)
LEMMA MovesOnKeepsTInv ==
  ASSUME TInv, UNCHANGED <<peers, cursor, reply_msgq, cnt, unique_id, sockVars, msgqVars>>,
         UNCHANGED <<hold, parked, locate, errs, lost>>,
         dspPc' \in {"run", "off", "failed", "halted"},
         rfds' \subseteq Fds, wfds' \subseteq Fds, ServerTypeOK',
         pc \notin {"located", "stopped"}, pc' \notin {"located", "write"},
         pc \in {"starting"} \union Ending => pc' \in Ending
  PROVE  TInv'
<1> USE DEF msgqVars, sockVars
<1>1. StageInv'
  BY PcMovesKeepStage
<1>2. PeersInv'
  BY DEF PeersInv
<1>3. MsgqTypeOK' /\ DspTypeOK' /\ SocketsTypeOK' /\ PeerTypeOK'
  OBVIOUS
<1> QED BY <1>1, <1>2, <1>3, Zenon

LEMMA ReadyTyped ==
  ASSUME TInv
  PROVE  ReadyRead \subseteq Fds /\ ReadyWrite \subseteq Fds
<1>1. ASSUME NEW i \in DOMAIN peers
      PROVE  peers[i].sck \in Fds
  <2>1. peers[i] \in Peers
    BY LenProperties, ElementOfSeq
  <2> QED BY <2>1 DEF Peers
<1>2. WantRead \subseteq Fds /\ WantWrite \subseteq Fds
  BY <1>1 DEF WantRead, WantWrite
<1> QED BY <1>2 DEF ReadyRead, ReadyWrite

LEMMA PollKeepsTInv ==
  ASSUME TInv, Poll, UNCHANGED dspVars
  PROVE  TInv'
<1>1. rfds' \subseteq Fds /\ wfds' \subseteq Fds
  BY ReadyTyped DEF Poll
<1>2. ready' \subseteq {"term", "listen"}
  BY DEF Poll, ReadyOther
<1>3. pc = "loop" /\ pc' \in {"check", "get", "block"}
  BY Zenon DEF Poll
<1>4. ServerTypeOK'
  BY <1>2, <1>3 DEF Poll
<1> QED BY <1>1, <1>3, <1>4, MovesOnKeepsTInv DEF Poll, dspVars, Ending

LEMMA CleanupKeepsTInv ==
  ASSUME TInv, Cleanup, UNCHANGED dspVars
  PROVE  TInv'
<1> USE DEF dspVars, msgqVars, peerVars
<1>1. pc = "cleanup" /\ pc' = "stopped" /\ UNCHANGED <<peerVars, msgqVars, ready, term, termPipe>>
  BY DEF Cleanup
<1>2. StageInv'
  BY <1>1, PcMovesKeepStage DEF Ending
<1>3. PeersInv'
  BY <1>1 DEF PeersInv
<1>4. SocketsTypeOK'
  <2>1. owner' \in [Fds -> Clients \union {None}]
    BY DEF Cleanup
  <2> QED BY <2>1, EmptySeq DEF Cleanup
<1>5. MsgqTypeOK' /\ DspTypeOK' /\ PeerTypeOK' /\ ServerTypeOK'
  BY <1>1
<1> QED BY <1>2, <1>3, <1>4, <1>5, Zenon

LEMMA ServerKeepsTInv ==
  ASSUME TInv, ListenInv, CountMatches, ServerActs
  PROVE  TInv'
<1>0. UNCHANGED <<hold, parked, locate, errs, lost>> /\ dspPc' \in {"run", "off", "failed", "halted"}
      /\ (pc # "closing" => UNCHANGED dspVars)
  BY DEF ServerActs, dspVars
<1>1. CASE SendGetReply
  BY <1>0, <1>1, SendGetReplyKeepsTInv DEF SendGetReply
<1>2. CASE AwaitReplyMsgq
  BY <1>0, <1>2, AwaitReplyKeepsTInv DEF AwaitReplyMsgq
<1>3. CASE Poll
  BY <1>0, <1>3, PollKeepsTInv DEF Poll
<1>4. CASE LoopEnds
  BY <1>0, <1>4, MovesOnKeepsTInv DEF LoopEnds, peerVars, Ending
<1>5. CASE CheckTerm
  BY <1>0, <1>5, MovesOnKeepsTInv DEF CheckTerm, peerVars, Ending
<1>6. CASE CheckListen
  BY <1>0, <1>6, CheckListenKeepsTInv DEF CheckListen
<1>7. CASE PeerStep /\ UNCHANGED <<ready, term, termPipe>>
  <2>1. pc # "closing"
    BY <1>7 DEF PeerStep, SkipRead, ReadNoMemory, ReadEof, ReadHeader, ReadBadLength,
                ReadUnknown, ReadShort, ReadRequest, SkipWrite, WriteReply, WriteError,
                PassEnds, ReadingPdu, Reading, Writing
  <2> QED BY <1>0, <1>7, <2>1, PeerStepKeepsTInv
<1>8. CASE Drain
  <2>1. CASE ProcessOneMsgq /\ UNCHANGED pc
    BY <1>0, <1>8, <2>1, ProcessInLoopKeepsTInv DEF Drain
  <2>2. CASE pc' = "loop" /\ UNCHANGED <<peerVars, sockVars, msgqVars>>
    BY <1>0, <1>8, <2>2, MovesOnKeepsTInv DEF Drain, peerVars, Ending
  <2> QED BY <1>8, <2>1, <2>2 DEF Drain
<1>9. CASE GetForever
  <2>1. CASE ProcessOneMsgq
    BY <1>0, <1>9, <2>1, ProcessInLoopKeepsTInv DEF GetForever
  <2>2. CASE GetFails
    BY <1>0, <1>9, <2>2, MovesOnKeepsTInv DEF GetForever, GetFails, peerVars, Ending
  <2> QED BY <1>9, <2>1, <2>2 DEF GetForever
<1>10. CASE SelectForever
  BY <1>0, <1>10, MovesOnKeepsTInv DEF SelectForever, peerVars, Ending
<1>11. CASE SendShutdown
  BY <1>0, <1>11, SendShutdownKeepsTInv DEF SendShutdown
<1>12. CASE CloseTransport
  BY <1>0, <1>12, MovesOnKeepsTInv DEF CloseTransport, peerVars, Ending
<1>13. CASE Cleanup
  BY <1>0, <1>13, CleanupKeepsTInv DEF Cleanup
<1> QED BY <1>1, <1>2, <1>3, <1>4, <1>5, <1>6, <1>7, <1>8, <1>9, <1>10, <1>11, <1>12, <1>13
        DEF ServerActs, ServerStep

-----------------------------------------------------------------------------
(* Counting. Every step takes as many messages from one place as it puts   *)
(* in another, and processing_count follows the DSP's debt.                *)

Counts == BuffersConserved /\ CountMatches

LEMMA Lengths ==
  ASSUME TInv
  PROVE  /\ Len(dspq) \in Nat /\ Len(gppq) \in Nat /\ Len(hold) \in Nat /\ Len(parked) \in Nat
         /\ Len(<<>>) = 0
         /\ \A q \in Seq(Messages) : q # <<>> => Len(Tail(q)) = Len(q) - 1
         /\ \A q \in Seq(Messages), m \in Messages : Len(Append(q, m)) = Len(q) + 1
         /\ \A m : Len(<<m>>) = 1
<1>1. /\ Len(dspq) \in Nat /\ Len(gppq) \in Nat /\ Len(hold) \in Nat /\ Len(parked) \in Nat
  BY LenProperties
<1>2. Len(<<>>) = 0
  BY EmptySeq
<1>3. \A q \in Seq(Messages) : q # <<>> => Len(Tail(q)) = Len(q) - 1
  BY HeadTailProperties
<1>4. \A q \in Seq(Messages), m \in Messages : Len(Append(q, m)) = Len(q) + 1
  BY AppendProperties
<1>5. \A m : Len(<<m>>) = 1
  OBVIOUS
<1> QED BY <1>1, <1>2, <1>3, <1>4, <1>5

LEMMA UntouchedKeepsCounts ==
  ASSUME Counts, UNCHANGED <<msgqVars, hold, parked, locate, errs, lost, cnt>>,
         pc \in Ending => pc' \in Ending
  PROVE  Counts'
  BY DEF Counts, BuffersConserved, CountMatches, InUse, Lookups, Ending, msgqVars

LEMMA SendKeepsCounts ==
  ASSUME TInv, Counts, NEW m \in Messages, AllocAndPut(m),
         UNCHANGED <<hold, parked, locate, errs, lost>>,
         pc \in Ending => pc' \in Ending, cnt' = cnt + 1 \/ pc' \in Ending
  PROVE  Counts'
<1>1. Len(dspq') = Len(dspq) + 1 /\ free' = free - 1 /\ gppq' = gppq
  BY Lengths DEF AllocAndPut
<1>2. InUse' = InUse + 1 /\ Lookups' = Lookups /\ InUse \in Nat /\ Lookups \in Nat
  BY <1>1, Lengths DEF InUse, Lookups
<1>3. BuffersConserved'
  BY <1>1, <1>2 DEF Counts, BuffersConserved
<1>4. CountMatches'
  <2> SUFFICES ASSUME pc' \notin Ending
               PROVE  cnt' + Lookups' = InUse' + lost'
    BY DEF CountMatches, Ending
  <2>1. cnt + Lookups = InUse + lost /\ cnt' = cnt + 1
    BY DEF Counts, CountMatches, Ending
  <2>2. cnt \in Nat /\ lost \in Nat /\ lost' = lost
    OBVIOUS
  <2> QED BY ONLY <1>2, <2>1, <2>2
<1> QED BY <1>3, <1>4 DEF Counts

LEMMA ProcessKeepsCounts ==
  ASSUME TInv, Counts, ProcessOneMsgq, UNCHANGED <<hold, parked, locate, errs, lost>>,
         pc \in Ending => pc' \in Ending
  PROVE  Counts'
<1>1. Len(gppq') = Len(gppq) - 1 /\ free' = free + 1 /\ dspq' = dspq /\ cnt' = cnt - 1
  BY Lengths DEF ProcessOneMsgq
<1>2. InUse' = InUse - 1 /\ Lookups' = Lookups /\ InUse \in Nat /\ Lookups \in Nat
  BY <1>1, Lengths DEF InUse, Lookups
<1>3. BuffersConserved'
  BY <1>1, <1>2 DEF Counts, BuffersConserved
<1>4. CountMatches'
  <2> SUFFICES ASSUME pc' \notin Ending
               PROVE  cnt' + Lookups' = InUse' + lost'
    BY DEF CountMatches, Ending
  <2>1. cnt + Lookups = InUse + lost
    BY DEF Counts, CountMatches, Ending
  <2>2. cnt \in Nat /\ lost \in Nat /\ lost' = lost
    OBVIOUS
  <2> QED BY ONLY <1>1, <1>2, <2>1, <2>2
<1> QED BY <1>3, <1>4 DEF Counts

LEMMA OneLeft == \A n \in Nat : n <= 1 /\ n # 0 => n = 1
  OBVIOUS

LEMMA OneMessage ==
  ASSUME NEW q \in Seq(Messages), q # <<>>, Len(q) <= 1
  PROVE  Len(q) = 1
<1>1. Len(q) \in Nat /\ Len(q) # 0
  BY EmptySeq, LenProperties
<1>2. Len(q) <= 1
  OBVIOUS
<1> QED BY <1>1, <1>2, OneLeft

LEMMA PutBackCounts ==
  ASSUME TInv, NEW m \in Messages, NEW freed \in Nat, PutBackOrFree(m, freed)
  PROVE  \/ Len(gppq') = Len(gppq) + 1 /\ free' = free + freed /\ lost' = lost
         \/ Len(gppq') = Len(gppq) /\ free' = free + freed + 1 /\ lost' = lost + 1
<1>1. \/ gppq' = Append(gppq, m) /\ free' = free + freed /\ lost' = lost
      \/ gppq' = gppq /\ free' = free + freed + 1 /\ lost' = lost + 1
  BY Zenon DEF PutBackOrFree
<1> QED BY <1>1, Lengths

LEMMA SameSum ==
  ASSUME NEW a \in Nat, NEW b \in Nat, NEW e \in Nat,
         NEW a2 \in Nat, NEW b2 \in Nat, NEW e2 \in Nat,
         \/ b2 + a2 = b + a /\ e2 = e
         \/ a2 + e2 = a + e /\ b2 = b
  PROVE  a2 + b2 + e2 = a + b + e
OBVIOUS

LEMMA MovedKeepsBuffers ==
  ASSUME BuffersConserved, errs \in Nat, errs' = errs, free \in Nat, free' \in Nat,
         InUse \in Nat, InUse' \in Nat, InUse' + free' = InUse + free
  PROVE  BuffersConserved'
<1>1. free + InUse + errs = NumBufs
  BY DEF BuffersConserved
<1>2. free' + InUse' + errs = free + InUse + errs
  <2>1. PICK a, a2, b, b2, e : /\ a = free /\ a2 = free' /\ b = InUse /\ b2 = InUse'
                               /\ e = errs
    OBVIOUS
  <2>2. /\ a \in Nat /\ a2 \in Nat /\ b \in Nat /\ b2 \in Nat /\ e \in Nat
        /\ b2 + a2 = b + a
    BY <2>1, Zenon
  <2>3. a2 + b2 + e = a + b + e
    BY ONLY <2>2, SameSum
  <2> QED BY <2>1, <2>3, Zenon
<1> QED BY <1>1, <1>2, Zenon DEF BuffersConserved

LEMMA AsideKeepsCounts ==
  ASSUME TInv, Counts, Aside
  PROVE  Counts'
<1>1. /\ InUse' = InUse /\ Lookups' = Lookups
      /\ UNCHANGED <<lost, cnt, pc>>
  BY AsideMoves DEF InUse, Lookups, serverVars, peerVars
<1>2. InUse \in Nat
  BY Lengths DEF InUse
<1>3. BuffersConserved'
  <2>1. /\ free' \in Nat /\ errs' \in Nat /\ free' + errs' = free + errs
        /\ free \in Nat /\ errs \in Nat /\ free + InUse + errs = NumBufs
    BY AsideMoves DEF Counts, BuffersConserved
  <2>2. free' + InUse + errs' = free + InUse + errs
    <3>1. PICK a, a2, b, e, e2 : /\ a = free /\ a2 = free' /\ b = InUse
                                 /\ e = errs /\ e2 = errs'
      OBVIOUS
    <3>2. /\ a \in Nat /\ a2 \in Nat /\ b \in Nat /\ e \in Nat /\ e2 \in Nat
          /\ a2 + e2 = a + e
      BY <1>2, <2>1, <3>1, Zenon
    <3>3. a2 + b + e2 = a + b + e
      BY ONLY <3>2, SameSum
    <3> QED BY <3>1, <3>3, Zenon
  <2> QED BY <1>1, <2>1, <2>2, Zenon DEF BuffersConserved
<1>4. CountMatches'
  BY <1>1 DEF Counts, CountMatches
<1> QED BY <1>3, <1>4 DEF Counts

LEMMA DspKeepsCounts ==
  ASSUME TInv, Counts, DspActs
  PROVE  Counts'
<1> USE DEF DspActs, sockVars, peerVars, serverVars, passVars
<1>0. /\ cnt' = cnt /\ pc' = pc
      /\ free \in Nat /\ cnt \in Nat /\ lost \in Nat
  OBVIOUS
<1>a. errs \in Nat
  OBVIOUS
<1>6. Len(dspq) \in Nat /\ Len(gppq) \in Nat /\ Len(hold) \in Nat /\ Len(parked) \in Nat
  BY Lengths
<1>1. CASE DspGet
  <2>1. /\ Len(dspq') = Len(dspq) - 1 /\ Len(hold') = 1 /\ Len(hold) = 0
        /\ UNCHANGED <<free, gppq, parked, locate, errs, lost>>
    BY <1>1, Lengths DEF DspGet
  <2>2. InUse' = InUse /\ Lookups' = Lookups
    BY <2>1, Lengths DEF InUse, Lookups
  <2> QED BY <1>0, <2>1, <2>2 DEF Counts, BuffersConserved, CountMatches
<1>2. CASE DspStartLocate
  <2>1. AskedReply
    BY <1>2, HoldStage DEF DspStartLocate
  <2>2. /\ Len(parked') = Len(hold) /\ Len(hold') = 0 /\ Len(parked) = 0
        /\ locate # "answered" /\ locate' # "answered"
        /\ UNCHANGED <<free, gppq, dspq, errs, lost>>
    BY <1>2, <2>1, Lengths DEF DspStartLocate, AskedReply
  <2>3. InUse' = InUse /\ Lookups' = Lookups
    BY <2>2, Lengths DEF InUse, Lookups
  <2> QED BY <1>0, <2>2, <2>3 DEF Counts, BuffersConserved, CountMatches
<1>3. CASE DspAsyncLocate
  <2>1. LookedUp /\ hold # <<>> /\ hold[1] \in Messages
    BY <1>3, HoldStage, HoldTyped DEF DspAsyncLocate, Holding
  <2>2. Len(hold) = 1 /\ Len(parked) = 1 /\ locate = "answered"
    <3>1. Len(hold) <= 1 /\ Len(parked) = 1 /\ locate = "answered"
      BY <2>1, Zenon DEF LookedUp, DspHasJust
    <3>3. Len(hold) = 1
      BY <2>1, <3>1, OneMessage
    <3> QED BY <3>1, <3>3, Zenon
  <2>3. parked[1] \in Messages
    <3>1. 1 \in 1..Len(parked)
      BY <2>2
    <3> QED BY <3>1, ElementOfSeq
  <2> DEFINE m == [parked[1] EXCEPT !.reply_msgq = hold[1].reply_msgq]
  <2>4. m \in Messages
    BY <2>1, <2>3 DEF Messages
  <2>5. PutBackOrFree(m, 1)
    BY <1>3 DEF DspAsyncLocate
  <2> HIDE DEF m
  <2>6. /\ Len(hold') = 0 /\ Len(parked') = 0 /\ locate' = "idle" /\ dspq' = dspq
    BY <1>3, Lengths DEF DspAsyncLocate
  <2>7. \/ Len(gppq') = Len(gppq) + 1 /\ free' = free + 1 /\ lost' = lost
        \/ Len(gppq') = Len(gppq) /\ free' = free + 1 + 1 /\ lost' = lost + 1
    BY <2>4, <2>5, PutBackCounts
  <2>8. Lookups = 1 /\ Lookups' = 0
    BY <2>2, <2>6 DEF Lookups
  <2>9. InUse' + free' = InUse + free
    BY ONLY <1>0, <1>6, <2>2, <2>6, <2>7 DEF InUse
  <2>10. InUse \in Nat /\ InUse' \in Nat /\ free' \in Nat /\ lost' \in Nat
    BY ONLY <1>0, <1>6, <2>6, <2>7 DEF InUse
  <2>11. BuffersConserved'
    <3>1. errs' = errs
      BY <1>3 DEF DspAsyncLocate
    <3> QED BY <1>0, <1>a, <2>9, <2>10, <3>1, MovedKeepsBuffers DEF Counts
  <2>12. ASSUME pc \notin {"closing", "cleanup", "stopped"}
         PROVE  cnt' + Lookups' = InUse' + lost'
    <3>1. cnt + Lookups = InUse + lost
      BY <2>12 DEF Counts, CountMatches
    <3>2. cnt + 1 = InUse + lost
      BY <2>8, <3>1
    <3>3. \/ InUse' = InUse - 1 /\ lost' = lost
          \/ InUse' = InUse - 2 /\ lost' = lost + 1
      BY ONLY <1>0, <1>6, <2>2, <2>6, <2>7 DEF InUse
    <3>4. CASE InUse' = InUse - 1 /\ lost' = lost
      BY ONLY <1>0, <2>8, <2>10, <3>2, <3>4
    <3>5. CASE InUse' = InUse - 2 /\ lost' = lost + 1
      BY ONLY <1>0, <2>8, <2>10, <3>2, <3>5
    <3> QED BY <3>3, <3>4, <3>5
  <2> QED BY <1>0, <2>11, <2>12, Zenon DEF Counts, CountMatches
<1>4. CASE DspCompute
  <2>1. hold # <<>> /\ hold[1] \in Messages /\ hold[1].subid \in Requests /\ Running
    BY <1>4, HoldStage, HoldTyped DEF DspCompute, Holding
  <2>2. Len(hold) = 1
    BY <2>1, OneMessage DEF Running
  <2>3. Computed(hold[1]) \in Messages /\ PutBackOrFree(Computed(hold[1]), 0)
    BY <1>4, <2>1 DEF DspCompute, Computed, Messages, Results, Subids, Answer
  <2>4. /\ Len(hold') = 0 /\ UNCHANGED <<dspq, parked, locate>>
    BY <1>4, Lengths DEF DspCompute
  <2>5. \/ Len(gppq') = Len(gppq) + 1 /\ free' = free + 0 /\ lost' = lost
        \/ Len(gppq') = Len(gppq) /\ free' = free + 0 + 1 /\ lost' = lost + 1
    BY <2>3, PutBackCounts
  <2>6. Lookups' = Lookups /\ Lookups \in Nat
    BY <2>4 DEF Lookups
  <2>7. InUse' + free' = InUse + free /\ InUse' + lost' = InUse + lost
    BY ONLY <1>0, <1>6, <2>2, <2>4, <2>5 DEF InUse
  <2>8. InUse \in Nat /\ InUse' \in Nat /\ free' \in Nat /\ lost' \in Nat
    BY ONLY <1>0, <1>6, <2>4, <2>5 DEF InUse
  <2>9. BuffersConserved'
    <3>1. errs' = errs
      BY <1>4 DEF DspCompute
    <3> QED BY <1>0, <1>a, <2>7, <2>8, <3>1, MovedKeepsBuffers DEF Counts
  <2>10. ASSUME pc \notin {"closing", "cleanup", "stopped"}
         PROVE  cnt' + Lookups' = InUse' + lost'
    <3>1. cnt + Lookups = InUse + lost
      BY <2>10 DEF Counts, CountMatches
    <3> QED BY <1>0, <2>6, <2>7, <3>1, Zenon
  <2> QED BY <1>0, <2>9, <2>10, Zenon DEF Counts, CountMatches
<1>5. CASE DspShutdown
  <2>1. Running /\ pc \in Ending /\ hold # <<>>
    BY <1>5, HoldStage DEF DspShutdown, Holding
  <2>2. Len(hold) = 1
    BY <2>1, OneMessage DEF Running
  <2>3. Len(hold') = 0 /\ free' = free + 1 /\ UNCHANGED <<dspq, gppq, parked>>
    BY <1>5, Lengths DEF DspShutdown
  <2>4. InUse' + free' = InUse + free
    BY ONLY <1>0, <1>6, <2>2, <2>3 DEF InUse
  <2>5. InUse \in Nat /\ InUse' \in Nat /\ free' \in Nat
    BY ONLY <1>0, <1>6, <2>3 DEF InUse
  <2>6. BuffersConserved'
    <3>1. errs' = errs
      BY <1>5 DEF DspShutdown
    <3> QED BY <1>0, <1>a, <2>4, <2>5, <3>1, MovedKeepsBuffers DEF Counts
  <2>7. CountMatches'
    BY <1>0, <2>1 DEF CountMatches, Ending
  <2> QED BY <2>6, <2>7 DEF Counts
<1>b. CASE DspGetFails \/ DspFreesOther
  BY <1>b, AsideKeepsCounts DEF Aside
<1> QED BY <1>1, <1>2, <1>3, <1>4, <1>5, <1>b DEF DspStep

LEMMA LocateKeepsCounts ==
  ASSUME TInv, Counts, LocateActs
  PROVE  Counts'
<1> USE DEF LocateActs, LocateAnswers, sockVars, peerVars, serverVars, passVars
<1>1. PICK handle \in Handles : AllocAndPut(Control("async", handle))
  BY DEF Handles
<1>2. Control("async", handle) \in Messages
  BY <1>1, ControlTyped DEF Subids
<1>3. /\ Len(dspq') = Len(dspq) + 1 /\ free' = free - 1 /\ gppq' = gppq
      /\ UNCHANGED <<hold, parked, errs, lost, cnt, pc>>
  BY <1>1, <1>2, Lengths DEF AllocAndPut
<1>4. Lookups = 0 /\ Lookups' = 1
  BY DEF Lookups
<1>5. InUse' = InUse + 1 /\ InUse \in Nat
  BY <1>3, Lengths DEF InUse
<1> QED BY <1>3, <1>4, <1>5 DEF Counts, BuffersConserved, CountMatches

LEMMA PeerStepPc ==
  ASSUME PeerStep
  PROVE  pc \in {"read", "write"} /\ pc' \in {"read", "write", "drain"}
BY DEF PeerStep, SkipRead, ReadNoMemory, ReadEof, ReadHeader, ReadBadLength,
       ReadUnknown, ReadShort, ReadRequest, SkipWrite, WriteReply, WriteError,
       PassEnds, ReadingPdu, Reading, Writing, PassOver, RemoveThis, AfterRead, Advance

LEMMA PeerStepKeepsCounts ==
  ASSUME TInv, Counts, PeerStep, UNCHANGED <<hold, parked, locate, errs, lost>>
  PROVE  Counts'
<1>1. pc \in {"read", "write"} /\ pc \notin Ending
  BY PeerStepPc DEF Ending
<1>2. CASE ReadRequest
  <2>1. /\ Reading /\ toServer[Conn] # <<>>
        /\ Head(toServer[Conn]) \in Pdus /\ Head(toServer[Conn]).kind \in Requests
    BY <1>2, TakeTyped DEF ReadRequest, ReadingPdu
  <2> DEFINE m == Forward(Head(toServer[Conn]))
  <2>2. m \in Messages
    BY <2>1, ForwardTyped
  <2> HIDE DEF m
  <2>3. CASE SendCounted(m)
    <3>1. AllocAndPut(m) /\ cnt' = cnt + 1
      BY <2>3 DEF SendCounted
    <3> QED BY <1>1, <2>2, <3>1, SendKeepsCounts
  <2>4. CASE SendFails
    <3>1. UNCHANGED <<msgqVars, cnt>>
      BY <2>4 DEF SendFails, AllocOrPutFails
    <3> QED BY <1>1, <3>1, UntouchedKeepsCounts
  <2> QED BY <1>2, <2>3, <2>4 DEF ReadRequest, m
<1>3. CASE ~ReadRequest
  <2>1. UNCHANGED <<msgqVars, cnt>>
    BY <1>3 DEF PeerStep, SkipRead, ReadNoMemory, ReadEof, ReadHeader, ReadBadLength,
                ReadUnknown, ReadShort, SkipWrite, WriteReply, WriteError,
                PassEnds, PassOver, Advance, peerVars
  <2> QED BY <1>1, <2>1, UntouchedKeepsCounts
<1> QED BY <1>2, <1>3

LEMMA ServerKeepsCounts ==
  ASSUME TInv, Counts, ServerActs
  PROVE  Counts'
<1>0. UNCHANGED <<hold, parked, locate, errs, lost>>
  BY DEF ServerActs
<1>1. CASE SendGetReply
  <2> DEFINE m == Control("getreply", NoQueue)
  <2>1. m \in Messages
    BY ControlTyped DEF Subids, Handles
  <2> HIDE DEF m
  <2>2. pc \notin Ending
    BY <1>1 DEF SendGetReply, Ending
  <2>3. CASE SendCounted(m)
    <3>1. AllocAndPut(m) /\ cnt' = cnt + 1
      BY <2>3 DEF SendCounted
    <3> QED BY <1>0, <2>1, <2>2, <3>1, SendKeepsCounts
  <2>4. CASE SendFails
    <3>1. UNCHANGED <<msgqVars, cnt>>
      BY <2>4 DEF SendFails, AllocOrPutFails
    <3> QED BY <1>0, <2>2, <3>1, UntouchedKeepsCounts
  <2> QED BY <1>1, <2>3, <2>4 DEF SendGetReply, m
<1>2. CASE AwaitReplyMsgq \/ Drain \/ GetForever
  <2>1. pc \notin Ending
    BY <1>2 DEF AwaitReplyMsgq, Drain, GetForever, Ending
  <2>2. CASE ProcessOneMsgq
    BY <1>0, <2>1, <2>2, ProcessKeepsCounts
  <2>3. CASE UNCHANGED <<msgqVars, cnt>>
    BY <1>0, <2>1, <2>3, UntouchedKeepsCounts
  <2> QED BY <1>2, <2>2, <2>3 DEF AwaitReplyMsgq, Drain, GetForever, GetFails, peerVars
<1>3. CASE SendShutdown
  <2> DEFINE m == Control("shutdown", reply_msgq)
  <2>1. m \in Messages
    BY ControlTyped DEF Subids
  <2> HIDE DEF m
  <2>2. pc' \in Ending /\ cnt' = cnt
    BY <1>3 DEF SendShutdown, Ending, peerVars
  <2>3. CASE AllocAndPut(m)
    BY <1>0, <2>1, <2>2, <2>3, SendKeepsCounts
  <2>4. CASE AllocOrPutFails(GppFaults)
    <3>1. UNCHANGED <<msgqVars, cnt>>
      BY <2>2, <2>4 DEF AllocOrPutFails
    <3> QED BY <1>0, <2>2, <3>1, UntouchedKeepsCounts
  <2> QED BY <1>3, <2>3, <2>4 DEF SendShutdown, m
<1>4. CASE PeerStep
  BY <1>0, <1>4, PeerStepKeepsCounts
<1>5. CASE \/ Poll \/ LoopEnds \/ CheckTerm \/ CheckListen \/ SelectForever
           \/ CloseTransport \/ Cleanup
  <2>1. UNCHANGED <<msgqVars, cnt>> /\ (pc \in Ending => pc' \in Ending)
    BY <1>5 DEF Poll, LoopEnds, CheckTerm, CheckListen, SelectForever,
                CloseTransport, Cleanup, peerVars, Ending
  <2> QED BY <1>0, <2>1, UntouchedKeepsCounts
<1> QED BY <1>1, <1>2, <1>3, <1>4, <1>5 DEF ServerActs, ServerStep

(* The server takes the two decisions that rest on what it has just seen   *)
(* only after a poll.                                                      *)
LEMMA OnlyPollDecides ==
  ASSUME ServerActs, pc' \in {"check", "get"}
  PROVE  Poll
<1>1. ~PeerStep
  BY PeerStepPc
<1> QED BY <1>1 DEF ServerActs, ServerStep, SendGetReply, AwaitReplyMsgq, Poll, LoopEnds,
        CheckTerm, CheckListen, Drain, GetForever, SelectForever, SendShutdown,
        CloseTransport, Cleanup

-----------------------------------------------------------------------------
(* The inductive invariant.                                                *)

(* The server sleeps in MSGQ_get only while processing_count is positive.  *)
WaitInv == pc = "get" => cnt > 0

IInv ==
    /\ TInv
    /\ Counts
    /\ ListenInv
    /\ WaitInv

LEMMA InitIInv == Init => IInv
<1> SUFFICES ASSUME Init PROVE IInv
  OBVIOUS
<1> USE DEF Init, MsgqInit, DspInit, SocketsInit, PeerInit, ServerInit
<1>1. TInv
  BY InitTInv
<1>2. Counts
  <2>1. InUse = 0 /\ Lookups = 0
    BY EmptySeq DEF InUse, Lookups
  <2>2. free + InUse + errs = NumBufs
    BY <2>1, NumBufsAssumption
  <2>3. cnt + Lookups = InUse + lost
    BY <2>1
  <2> QED BY <2>2, <2>3 DEF Counts, BuffersConserved, CountMatches
<1>3. ListenInv /\ WaitInv
  BY DEF ListenInv, WaitInv
<1> QED BY <1>1, <1>2, <1>3 DEF IInv

LEMMA ElsewhereKeepsWaits ==
  ASSUME ListenInv, WaitInv, UNCHANGED <<pc, cnt, ready, backlog>>
  PROVE  ListenInv' /\ WaitInv'
  BY DEF ListenInv, WaitInv

LEMMA NextIInv == IInv /\ [Next]_vars => IInv'
<1> SUFFICES ASSUME IInv, [Next]_vars PROVE IInv'
  OBVIOUS
<1> USE DEF IInv
<1>1. CASE ServerActs
  <2>1. TInv' /\ Counts'
    BY <1>1, ServerKeepsTInv, ServerKeepsCounts DEF Counts
  <2>2. CASE Poll
    <3>1. pc' = "check" /\ "listen" \in ready' => backlog' # <<>>
      BY <2>2 DEF Poll, ReadyOther, sockVars
    <3>2. pc' = "get" => cnt' > 0
      BY <2>2 DEF Poll
    <3> QED BY <2>1, <3>1, <3>2 DEF ListenInv, WaitInv
  <2>3. CASE ~Poll
    BY <1>1, <2>1, <2>3, OnlyPollDecides DEF ListenInv, WaitInv
  <2> QED BY <2>2, <2>3
<1>2. CASE DspActs
  <2>1. TInv' /\ Counts'
    BY <1>2, DspKeepsTypes, DspKeepsStage, DspKeepsCounts
  <2>2. UNCHANGED <<pc, cnt, ready, backlog>>
    BY <1>2 DEF DspActs, sockVars, peerVars, serverVars
  <2> QED BY <2>1, <2>2, ElsewhereKeepsWaits
<1>3. CASE LocateActs
  <2>1. TInv' /\ Counts'
    BY <1>3, LocateKeepsTypes, LocateKeepsStage, LocateKeepsCounts
  <2>2. UNCHANGED <<pc, cnt, ready, backlog>>
    BY <1>3 DEF LocateActs, sockVars, peerVars, serverVars
  <2> QED BY <2>1, <2>2, ElsewhereKeepsWaits
<1>4. ASSUME NEW c \in Clients, ClientActs(c)
      PROVE  IInv'
  <2>1. UNCHANGED <<msgqVars, dspVars, peerVars, serverVars>>
    BY <1>4 DEF ClientActs
  <2>2. TInv'
    BY <1>4, <2>1, ClientKeepsTypes, ElsewhereKeepsStage DEF peerVars, serverVars
  <2>3. Counts'
    BY <2>1, UntouchedKeepsCounts DEF dspVars, peerVars, serverVars
  <2>4. backlog # <<>> => backlog' # <<>>
    <3>1. backlog \in Seq(Clients)
      OBVIOUS
    <3>2. backlog' = Append(backlog, c) \/ backlog' = backlog
      BY <1>4 DEF ClientActs, ClientStep, ClientConnect, ClientSend, ClientRead, ClientClose
    <3> QED BY <3>1, <3>2, AppendProperties
  <2>5. ListenInv' /\ WaitInv'
    BY <2>1, <2>4 DEF ListenInv, WaitInv, peerVars, serverVars
  <2> QED BY <2>2, <2>3, <2>5
<1>5. CASE SignalActs
  <2>1. UNCHANGED <<msgqVars, dspVars, sockVars, peerVars, pc, ready>>
    BY <1>5 DEF SignalActs, SigInt
  <2>2. TInv'
    BY <1>5, <2>1, SignalKeepsTypes, ElsewhereKeepsStage DEF peerVars
  <2>3. Counts'
    BY <2>1, UntouchedKeepsCounts DEF dspVars, peerVars
  <2> QED BY <2>1, <2>2, <2>3, ElsewhereKeepsWaits DEF sockVars, peerVars
<1>6. CASE Done \/ UNCHANGED vars
  <2>1. UNCHANGED <<msgqVars, dspVars, sockVars, peerVars, serverVars>>
    BY <1>6 DEF Done, vars
  <2>2. TypeOK' /\ PeersInv'
    BY <2>1 DEF msgqVars, dspVars, sockVars, peerVars, serverVars, PeersInv, AtPeer
  <2>3. StageInv'
    BY <2>1, ElsewhereKeepsStage DEF peerVars, serverVars
  <2>4. Counts'
    BY <2>1, UntouchedKeepsCounts DEF dspVars, peerVars, serverVars
  <2> QED BY <2>1, <2>2, <2>3, <2>4, ElsewhereKeepsWaits DEF sockVars, peerVars, serverVars
<1>7. CASE ErrorActs
  <2>1. TInv' /\ Counts'
    BY <1>7, AsideKeepsTypes, AsideKeepsStage, AsideKeepsCounts DEF Aside
  <2>2. UNCHANGED <<pc, cnt, ready, backlog>>
    BY <1>7 DEF ErrorActs, sockVars, peerVars, serverVars
  <2> QED BY <2>1, <2>2, ElsewhereKeepsWaits
<1> QED BY <1>1, <1>2, <1>3, <1>4, <1>5, <1>6, <1>7 DEF Next

LEMMA SpecIInv == Spec => []IInv
  BY InitIInv, NextIInv, PTL DEF Spec

-----------------------------------------------------------------------------
(* The theorems.                                                           *)

(* Every variable keeps to its type: no index is out of the list's bounds, *)
(* processing_count never goes below zero, accept() is never called on an  *)
(* empty backlog, no descriptor without a connection is read or written.   *)
THEOREM TypeCorrect == Spec => []TypeOK
<1>1. IInv => TypeOK
  BY DEF IInv
<1> QED BY <1>1, SpecIInv, PTL

(* No message buffer is leaked or freed twice, on any path of the server   *)
(* or of the DSP task, whatever calls fail.                                *)
THEOREM NoBufferLost == Spec => []BuffersConserved
<1>1. IInv => BuffersConserved
  BY DEF IInv, Counts
<1> QED BY <1>1, SpecIInv, PTL

(* processing_count is what the DSP owes plus what it will never pay.      *)
THEOREM CountIsDebt == Spec => []CountMatches
<1>1. IInv => CountMatches
  BY DEF IInv, Counts
<1> QED BY <1>1, SpecIInv, PTL

(* No two peers share an id or a descriptor, and the server's descriptors  *)
(* are those of its peers: a reply has one addressee, and no socket is     *)
(* forgotten open or used after it was closed.                             *)
THEOREM PeersAreDistinct == Spec => []PeersDistinct
<1>1. IInv => PeersDistinct
  <2> SUFFICES ASSUME IInv, pc # "stopped"
               PROVE  /\ \A i, j \in DOMAIN peers : i # j =>
                            peers[i].id # peers[j].id /\ peers[i].sck # peers[j].sck
                      /\ \A fd \in Fds : owner[fd] # None <=> fd \in WantRead
    BY DEF PeersDistinct
  <2>1. PeersInv
    BY DEF IInv
  <2>2. ASSUME NEW fd \in Fds
        PROVE  owner[fd] # None <=> fd \in WantRead
    <3>1. owner[fd] # None => fd \in WantRead
      BY <2>1 DEF PeersInv, WantRead
    <3>2. fd \in WantRead => owner[fd] # None
      BY <2>1 DEF PeersInv, WantRead
    <3> QED BY <3>1, <3>2, Zenon
  <2> QED BY <2>1, <2>2, Zenon DEF PeersInv
<1> QED BY <1>1, SpecIInv, PTL

-----------------------------------------------------------------------------
(* The end of the DSP's task. The shutdown message is the last the DSP is  *)
(* sent: it is the last in the queue, and once it is in the task's hands   *)
(* the queue stays empty.                                                  *)

OffInv ==
    /\ \A i \in DOMAIN dspq : dspq[i].subid = "shutdown" => i = Len(dspq)
    /\ \A i \in DOMAIN hold : hold[i].subid = "shutdown" => dspq = <<>>
    /\ dspPc = "off" =>
        /\ dspq = <<>> /\ hold = <<>> /\ parked = <<>>
        /\ pc \in Ending /\ locate # "pending"
    /\ dspPc = "halted" => pc \in Ending

LEMMA InitOffInv == Init => OffInv
  BY EmptySeq, LenProperties DEF Init, MsgqInit, DspInit, ServerInit, OffInv

(* Before the end there is no shutdown message.                            *)
LEMMA NoShutdownYet ==
  ASSUME TInv, pc \notin Ending
  PROVE  /\ \A i \in DOMAIN dspq : dspq[i].subid # "shutdown"
         /\ \A i \in DOMAIN hold : hold[i].subid # "shutdown"
<1>1. \A q, K : Only(q, K) /\ "shutdown" \notin K => \A i \in DOMAIN q : q[i].subid # "shutdown"
  BY DEF Only
<1>2. \A q : q = <<>> => \A i \in DOMAIN q : q[i].subid # "shutdown"
  BY EmptySeq, LenProperties
<1>3. "shutdown" \notin {"getreply"} /\ "shutdown" \notin {"async"} /\ "shutdown" \notin MayBeSent
  BY DEF MayBeSent, Requests
<1> HIDE DEF TypeOK
<1> QED
  BY <1>1, <1>2, <1>3, Zenon
  DEF StageInv, Fresh, AskedReply, LookingUp, LookedUp, Told, Running, DspHasJust

LEMMA SendKeepsOff ==
  ASSUME TInv, OffInv, NEW m \in Messages, AllocAndPut(m), UNCHANGED <<dspPc, hold, parked>>,
         \A i \in DOMAIN dspq : dspq[i].subid # "shutdown",
         \A i \in DOMAIN hold : hold[i].subid # "shutdown",
         dspPc # "off", dspPc = "halted" => pc' \in Ending
  PROVE  OffInv'
<1>1. /\ dspq' = Append(dspq, m) /\ Len(dspq) \in Nat
      /\ DOMAIN dspq = 1..Len(dspq) /\ DOMAIN dspq' = 1..(Len(dspq) + 1)
      /\ Len(dspq') = Len(dspq) + 1
      /\ \A i \in DOMAIN dspq : dspq'[i] = dspq[i]
  BY AppendProperties, LenProperties DEF AllocAndPut
<1>2. \A i \in DOMAIN dspq' : i \in DOMAIN dspq \/ i = Len(dspq')
  BY ONLY <1>1
<1> QED BY <1>1, <1>2 DEF OffInv

LEMMA QueuesKeepOff ==
  ASSUME OffInv, UNCHANGED <<dspq, hold, parked>>,
         dspPc' = "off" => dspPc = "off" /\ UNCHANGED locate,
         dspPc' = "halted" => dspPc = "halted" \/ pc' \in Ending,
         pc \in Ending => pc' \in Ending
  PROVE  OffInv'
  BY DEF OffInv

LEMMA DspKeepsOff ==
  ASSUME TInv, OffInv, DspActs
  PROVE  OffInv'
<1> USE DEF DspActs, sockVars, peerVars, serverVars, passVars
<1>0. pc' = pc
  OBVIOUS
<1>1. CASE DspGet
  <2>1. /\ dspq # <<>> /\ dspq \in Seq(Messages) /\ hold' = <<Head(dspq)>> /\ dspq' = Tail(dspq)
        /\ dspPc' = "run"
    BY <1>1 DEF DspGet
  <2>2. /\ Len(dspq) \in Nat \ {0} /\ Len(dspq') = Len(dspq) - 1
        /\ DOMAIN dspq = 1..Len(dspq) /\ DOMAIN dspq' = 1..(Len(dspq) - 1)
        /\ \A i \in 1..(Len(dspq) - 1) : dspq'[i] = dspq[i + 1]
        /\ Head(dspq) = dspq[1] /\ dspq' \in Seq(Messages)
    BY <2>1, HeadTailProperties, LenProperties, EmptySeq
  <2>3. ASSUME NEW i \in DOMAIN dspq', dspq'[i].subid = "shutdown"
        PROVE  i = Len(dspq')
    <3>0. i \in 1..(Len(dspq) - 1) /\ Len(dspq) \in Nat
      BY <2>2
    <3>a. i + 1 \in 1..Len(dspq) /\ i \in Nat
      BY ONLY <3>0
    <3>1. i + 1 \in DOMAIN dspq /\ dspq[i + 1].subid = "shutdown"
      BY <2>2, <2>3, <3>0, <3>a, Zenon
    <3>2. i + 1 = Len(dspq)
      BY <3>1 DEF OffInv
    <3> QED BY <2>2, <3>0, <3>a, <3>2
  <2>4. ASSUME NEW i \in DOMAIN hold', hold'[i].subid = "shutdown"
        PROVE  dspq' = <<>>
    <3>1. i = 1 /\ hold'[1] = dspq[1]
      BY <2>1, <2>2
    <3>2. 1 \in DOMAIN dspq
      BY <2>2
    <3>3. Len(dspq) = 1
      BY <2>4, <3>1, <3>2 DEF OffInv
    <3> QED BY <2>2, <3>3, EmptySeq
  <2> QED BY <2>1, <2>3, <2>4 DEF OffInv
<1>2. CASE DspStartLocate \/ DspAsyncLocate \/ DspCompute
  <2>1. hold' = <<>> /\ dspq' = dspq /\ dspPc' = "run"
    BY <1>2 DEF DspStartLocate, DspAsyncLocate, DspCompute, Holding
  <2>2. DOMAIN hold' = {}
    BY <2>1, EmptySeq, LenProperties
  <2> QED BY <2>1, <2>2 DEF OffInv
<1>3. CASE DspShutdown
  <2>1. Running /\ pc \in Ending
    BY <1>3, HoldStage DEF DspShutdown
  <2>2. parked = <<>> /\ locate = "idle"
    BY <2>1 DEF Running
  <2>3. 1 \in DOMAIN hold /\ hold[1].subid = "shutdown"
    <3>1. hold # <<>> /\ hold[1].subid \in {"shutdown"}
      BY <1>3 DEF DspShutdown, Holding
    <3> QED BY <3>1, EmptySeq, LenProperties
  <2>4. dspq = <<>>
    BY <2>3 DEF OffInv
  <2>5. hold' = <<>> /\ UNCHANGED <<dspq, parked, locate>>
    BY <1>3 DEF DspShutdown
  <2>6. DOMAIN <<>> = {}
    BY EmptySeq, LenProperties
  <2> QED BY <1>0, <2>1, <2>2, <2>4, <2>5, <2>6 DEF OffInv
<1>4. CASE DspGetFails \/ DspFreesOther
  BY <1>0, <1>4, QueuesKeepOff DEF DspGetFails, DspFreesOther, msgqVars
<1> QED BY <1>1, <1>2, <1>3, <1>4 DEF DspStep

LEMMA LocateKeepsOff ==
  ASSUME TInv, OffInv, LocateActs
  PROVE  OffInv'
<1> USE DEF LocateActs, LocateAnswers, sockVars, peerVars, serverVars, passVars
<1>1. LookingUp
  BY DEF StageInv, Fresh, AskedReply, LookingUp, LookedUp, Told, Running
<1>2. PICK handle \in Handles : AllocAndPut(Control("async", handle))
  BY DEF Handles
<1>3. Control("async", handle) \in Messages
  BY <1>2, ControlTyped DEF Subids
<1>4. DOMAIN dspq = {} /\ DOMAIN hold = {}
  BY <1>1, EmptySeq, LenProperties DEF LookingUp
<1>5. /\ dspPc # "off" /\ UNCHANGED <<dspPc, hold, parked, pc>>
      /\ dspPc # "halted"
  BY DEF OffInv
<1> QED BY <1>2, <1>3, <1>4, <1>5, SendKeepsOff

LEMMA ServerKeepsOff ==
  ASSUME TInv, OffInv, ServerActs
  PROVE  OffInv'
<1>0. UNCHANGED <<hold, parked, locate>> /\ (pc # "closing" => dspPc' = dspPc)
  BY DEF ServerActs
<1>1. ASSUME NEW m \in Messages, AllocAndPut(m), pc \notin Ending
      PROVE  OffInv'
  <2>1. dspPc # "off" /\ dspPc' = dspPc /\ dspPc # "halted"
    BY <1>0, <1>1 DEF OffInv, Ending
  <2> QED BY <1>0, <1>1, <2>1, NoShutdownYet, SendKeepsOff
<1>2. ASSUME dspq' = dspq, pc \in Ending => pc' \in Ending
      PROVE  OffInv'
  <2>1. dspPc' = "off" => dspPc = "off" /\ UNCHANGED locate
    BY <1>0 DEF ServerActs
  <2>2. dspPc' = "halted" => dspPc = "halted" \/ pc' \in Ending
    BY <1>0, <1>2 DEF Ending
  <2> QED BY <1>0, <1>2, <2>1, <2>2, QueuesKeepOff
<1>3. CASE SendGetReply
  <2>1. CASE AllocAndPut(Control("getreply", NoQueue))
    <3>1. Control("getreply", NoQueue) \in Messages
      BY ControlTyped DEF Subids, Handles
    <3>2. pc \notin Ending
      BY <1>3 DEF SendGetReply, Ending
    <3> QED BY <1>1, <2>1, <3>1, <3>2
  <2>2. CASE dspq' = dspq
    BY <1>2, <1>3, <2>2 DEF SendGetReply, Ending
  <2> QED BY <1>3, <2>1, <2>2 DEF SendGetReply, SendCounted, SendFails, AllocOrPutFails, msgqVars
<1>4. CASE SendShutdown
  <2>1. CASE AllocAndPut(Control("shutdown", reply_msgq))
    <3>1. Control("shutdown", reply_msgq) \in Messages
      BY ControlTyped DEF Subids
    <3>2. pc \notin Ending
      BY <1>4 DEF SendShutdown, Ending
    <3> QED BY <1>1, <2>1, <3>1, <3>2
  <2>2. CASE dspq' = dspq
    BY <1>2, <1>4, <2>2 DEF SendShutdown, Ending
  <2> QED BY <1>4, <2>1, <2>2 DEF SendShutdown, AllocOrPutFails, msgqVars
<1>5. CASE PeerStep
  <2>1. pc \notin Ending
    BY <1>5, PeerStepPc DEF Ending
  <2>2. CASE ReadRequest
    <3>1. /\ Reading /\ toServer[Conn] # <<>>
          /\ Head(toServer[Conn]) \in Pdus /\ Head(toServer[Conn]).kind \in Requests
      BY <2>2, TakeTyped DEF ReadRequest, ReadingPdu
    <3> DEFINE m == Forward(Head(toServer[Conn]))
    <3>2. m \in Messages
      BY <3>1, ForwardTyped
    <3>3. AllocAndPut(m) \/ dspq' = dspq
      BY <2>2 DEF ReadRequest, SendCounted, SendFails, AllocOrPutFails, msgqVars
    <3> HIDE DEF m
    <3> QED BY <1>1, <1>2, <2>1, <3>2, <3>3
  <2>3. CASE ~ReadRequest
    <3>1. dspq' = dspq
      BY <1>5, <2>3 DEF PeerStep, SkipRead, ReadNoMemory, ReadEof, ReadHeader, ReadBadLength,
                ReadUnknown, ReadShort, SkipWrite, WriteReply, WriteError,
                PassEnds, PassOver, Advance, msgqVars
    <3> QED BY <1>2, <2>1, <3>1
  <2> QED BY <2>2, <2>3
<1>6. CASE \/ AwaitReplyMsgq \/ Poll \/ LoopEnds \/ CheckTerm \/ CheckListen \/ Drain
           \/ GetForever \/ SelectForever \/ CloseTransport \/ Cleanup
  <2>1. dspq' = dspq /\ (pc \in Ending => pc' \in Ending)
    BY <1>6 DEF AwaitReplyMsgq, Poll, LoopEnds, CheckTerm, CheckListen, Drain, GetForever,
                SelectForever, CloseTransport, Cleanup, ProcessOneMsgq, GetFails, msgqVars, Ending
  <2> QED BY <1>2, <2>1
<1> QED BY <1>3, <1>4, <1>5, <1>6 DEF ServerActs, ServerStep

LEMMA NextOffInv == IInv /\ OffInv /\ [Next]_vars => OffInv'
<1> SUFFICES ASSUME IInv, OffInv, [Next]_vars PROVE OffInv'
  OBVIOUS
<1>0. TInv
  BY DEF IInv
<1>1. CASE ServerActs
  BY <1>0, <1>1, ServerKeepsOff
<1>2. CASE DspActs
  BY <1>0, <1>2, DspKeepsOff
<1>3. CASE LocateActs
  BY <1>0, <1>3, LocateKeepsOff
<1>4. CASE UNCHANGED <<msgqVars, dspVars, pc>>
  BY <1>4, QueuesKeepOff DEF msgqVars, dspVars
<1>5. CASE ErrorActs
  BY <1>5, QueuesKeepOff DEF ErrorActs, ErrorArrives, serverVars
<1> QED BY <1>1, <1>2, <1>3, <1>4, <1>5
        DEF Next, ClientActs, SignalActs, SigInt, Done, vars, serverVars

LEMMA SpecOffInv == Spec => []OffInv
<1> HIDE DEF TInv, TypeOK
<1> QED BY InitOffInv, NextOffInv, SpecIInv, PTL DEF Spec

(* When the server goes to sleep in MSGQ_get a message is on its way, on   *)
(* its queue, on the DSP's or in the DSP's hands, if none was lost, and    *)
(* the DSP's task has neither been told to end nor been stopped.           *)
THEOREM SleepEnds == Spec => []NeverWaitsForNothing
<1>1. IInv /\ OffInv => NeverWaitsForNothing
  <2> SUFFICES ASSUME IInv, OffInv, pc = "get", lost = 0
               PROVE  /\ \E q \in {gppq, dspq, hold} : q # <<>>
                      /\ dspPc \in {"run", "failed"}
    BY DEF NeverWaitsForNothing
  <2> USE DEF IInv
  <2>1. Running
    BY InLoopRunning DEF Ending
  <2>2. cnt + Lookups = InUse + lost /\ cnt > 0
    BY DEF Counts, CountMatches, WaitInv
  <2>3. Lookups = 0 /\ Len(parked) = 0
    BY <2>1, EmptySeq DEF Running, Lookups
  <2>4. InUse # 0
    BY <2>2, <2>3
  <2>5. Len(gppq) # 0 \/ Len(dspq) # 0 \/ Len(hold) # 0
    BY <2>3, <2>4, Lengths DEF InUse
  <2>6. dspPc # "off" /\ dspPc # "halted"
    BY DEF OffInv, Ending
  <2>7. dspPc \in {"run", "failed"}
    BY <2>6
  <2> QED BY <2>5, <2>7, EmptySeq
<1> QED BY <1>1, SpecIInv, SpecOffInv, PTL

-----------------------------------------------------------------------------
(* The descriptors. A connection waits in the backlog or has one           *)
(* descriptor, never both nor twice.                                       *)

OwnersInv ==
    /\ \A fd, other \in Fds :
            owner[fd] # None /\ owner[fd] = owner[other] => fd = other
    /\ \A i, j \in DOMAIN backlog : i # j => backlog[i] # backlog[j]
    /\ \A i \in DOMAIN backlog, fd \in Fds : backlog[i] # owner[fd]
    /\ \A i \in DOMAIN backlog : conn[backlog[i]] # "new"
    /\ \A fd \in Fds : owner[fd] # None => conn[owner[fd]] # "new"

(* What select() reported holds until the pass begins: nothing but the     *)
(* server takes PDUs off a stream, and a closed client stays closed.       *)
ReadyInv ==
    pc = "check" => \A fd \in rfds : fd \in WantRead /\ Readable(owner[fd])

LEMMA InitOwners == Init => OwnersInv /\ ReadyInv /\ NeverBlocksInRecv
  BY EmptySeq, LenProperties
  DEF Init, SocketsInit, ServerInit, OwnersInv, ReadyInv, NeverBlocksInRecv

(* Connections that are let go of, from the head of the backlog or from    *)
(* their descriptors, leave the others as they were.                       *)
LEMMA FewerOwners ==
  ASSUME TInv, OwnersInv, UNCHANGED conn,
         \A fd \in Fds : owner'[fd] = owner[fd] \/ owner'[fd] = None,
         \/ backlog' = backlog
         \/ backlog # <<>> /\ backlog' = Tail(backlog)
         \/ backlog' = <<>>
  PROVE  OwnersInv'
<1>1. /\ \A i \in DOMAIN backlog : backlog[i] # None /\ backlog[i] \in Clients
      /\ DOMAIN <<>> = {}
  BY SocketsAssumption, ElementOfSeq, EmptySeq, LenProperties
<1>2. /\ \A fd, other \in Fds :
              owner'[fd] # None /\ owner'[fd] = owner'[other] => fd = other
      /\ \A fd \in Fds : owner'[fd] # None => conn'[owner'[fd]] # "new"
  BY DEF OwnersInv
<1>3. CASE backlog' = backlog \/ backlog' = <<>>
  BY <1>1, <1>2, <1>3 DEF OwnersInv
<1>4. CASE backlog # <<>> /\ backlog' = Tail(backlog)
  <2>1. \A i \in DOMAIN backlog' :
            i \in Nat /\ i + 1 \in DOMAIN backlog /\ backlog'[i] = backlog[i + 1]
    BY <1>4, TailShape
  <2>3. ASSUME NEW i \in DOMAIN backlog', NEW j \in DOMAIN backlog', i # j
        PROVE  backlog'[i] # backlog'[j]
    <3>1. i + 1 \in DOMAIN backlog /\ j + 1 \in DOMAIN backlog
      BY <2>1
    <3>2. i + 1 # j + 1
      BY <2>1, <2>3
    <3>3. backlog[i + 1] # backlog[j + 1]
      BY <3>1, <3>2 DEF OwnersInv
    <3> QED BY <2>1, <3>3
  <2>4. ASSUME NEW i \in DOMAIN backlog'
        PROVE  /\ \A fd \in Fds : backlog'[i] # owner'[fd]
               /\ conn'[backlog'[i]] # "new"
    <3>1. i + 1 \in DOMAIN backlog /\ backlog'[i] = backlog[i + 1]
      BY <2>1
    <3> QED BY <1>1, <3>1 DEF OwnersInv
  <2> QED BY <1>2, <2>3, <2>4 DEF OwnersInv
<1> QED BY <1>3, <1>4

LEMMA ConnectKeepsOwners ==
  ASSUME TInv, OwnersInv, NEW c \in Clients, ClientConnect(c)
  PROVE  OwnersInv'
<1>1. /\ conn[c] = "new" /\ conn' = [conn EXCEPT ![c] = "open"]
      /\ backlog' = Append(backlog, c) /\ owner' = owner
  BY DEF ClientConnect
<1> DEFINE n == Len(backlog) + 1
<1>2. /\ \A i \in DOMAIN backlog : backlog'[i] = backlog[i] /\ backlog[i] \in Clients
      /\ backlog'[n] = c
      /\ \A i \in DOMAIN backlog' : i \in DOMAIN backlog \/ i = n
  BY <1>1, AppendShape
<1> HIDE DEF n
<1>4. /\ \A i \in DOMAIN backlog : backlog[i] # c
      /\ \A fd \in Fds : owner[fd] # c
  BY <1>1, SocketsAssumption DEF OwnersInv
<1>5. \A i, j \in DOMAIN backlog' : i # j => backlog'[i] # backlog'[j]
  <2> SUFFICES ASSUME NEW i \in DOMAIN backlog', NEW j \in DOMAIN backlog', i # j
               PROVE  backlog'[i] # backlog'[j]
    OBVIOUS
  <2>1. CASE i \in DOMAIN backlog /\ j \in DOMAIN backlog
    BY <1>2, <2>1 DEF OwnersInv
  <2> QED BY <1>2, <1>4, <2>1
<1>6. \A i \in DOMAIN backlog', fd \in Fds : backlog'[i] # owner'[fd]
  <2> SUFFICES ASSUME NEW i \in DOMAIN backlog', NEW fd \in Fds
               PROVE  backlog'[i] # owner'[fd]
    OBVIOUS
  <2>1. CASE i \in DOMAIN backlog
    BY <1>1, <1>2, <2>1 DEF OwnersInv
  <2> QED BY <1>1, <1>2, <1>4, <2>1
<1>7. \A d \in Clients : conn[d] # "new" => conn'[d] # "new"
  BY <1>1
<1>8. conn'[c] # "new"
  BY <1>1
<1>9. \A i \in DOMAIN backlog' : conn'[backlog'[i]] # "new"
  BY <1>2, <1>7, <1>8, Zenon DEF OwnersInv
<1>10. \A fd \in Fds : owner[fd] # None => owner[fd] \in Clients
  OBVIOUS
<1>11. \A fd \in Fds : owner'[fd] # None => conn'[owner'[fd]] # "new"
  BY <1>1, <1>7, <1>10 DEF OwnersInv
<1> QED BY <1>1, <1>5, <1>6, <1>9, <1>11 DEF OwnersInv

LEMMA ClientKeepsOwners ==
  ASSUME TInv, OwnersInv, NEW c \in Clients, ClientActs(c)
  PROVE  OwnersInv'
<1>1. CASE ClientConnect(c)
  BY <1>1, ConnectKeepsOwners
<1>2. CASE ClientClose(c)
  <2>1. conn' = [conn EXCEPT ![c] = "closed"] /\ UNCHANGED <<owner, backlog>>
    BY <1>2 DEF ClientClose
  <2>2. \A d \in Clients : conn[d] # "new" => conn'[d] # "new"
    BY <2>1
  <2>3. /\ \A i \in DOMAIN backlog : backlog[i] \in Clients
        /\ \A fd \in Fds : owner[fd] # None => owner[fd] \in Clients
    BY LenProperties, ElementOfSeq
  <2> QED BY <2>1, <2>2, <2>3 DEF OwnersInv
<1>3. CASE UNCHANGED <<conn, owner, backlog>>
  BY <1>3, FewerOwners
<1> QED BY <1>1, <1>2, <1>3 DEF ClientActs, ClientStep, ClientSend, ClientRead

(* A client never makes its connection less readable.                      *)
LEMMA ClientKeepsReadable ==
  ASSUME TInv, NEW c \in Clients, ClientActs(c), NEW d \in Clients, Readable(d)
  PROVE  Readable(d)'
<1>1. ASSUME NEW kind \in Kinds, ClientSend(c, kind)
      PROVE  Readable(d)'
  <2>1. toServer' = [toServer EXCEPT ![c] = Append(@, Pdu(c, kind))] /\ conn' = conn
    BY <1>1 DEF ClientSend
  <2> DEFINE pdu == Pdu(c, kind)
             s == toServer[c]
  <2>2. pdu \in Pdus /\ s \in Seq(Pdus)
    BY LenProperties DEF Pdu, Pdus
  <2> HIDE DEF pdu, s
  <2>3. Append(s, pdu) # <<>>
    BY <2>2, AppendShape
  <2> USE DEF pdu, s
  <2> QED BY <2>1, <2>3 DEF Readable
<1>2. CASE ClientConnect(c)
  BY <1>2 DEF ClientConnect, Readable
<1>3. CASE ClientRead(c)
  BY <1>3 DEF ClientRead, Readable
<1>4. CASE ClientClose(c)
  BY <1>4 DEF ClientClose, Readable
<1> QED BY <1>1, <1>2, <1>3, <1>4 DEF ClientActs, ClientStep

LEMMA AcceptKeepsOwners ==
  ASSUME TInv, ListenInv, OwnersInv, CheckListen
  PROVE  /\ OwnersInv'
         /\ \A fd \in WantRead : owner'[fd] = owner[fd]
<1>1. pc = "check" /\ conn' = conn
  BY DEF CheckListen
<1>2. CASE /\ backlog' = Tail(backlog) /\ "listen" \in ready
           /\ \E fd \in FreeFds : owner' = [owner EXCEPT ![fd] = Head(backlog)]
  <2>1. PICK fd \in FreeFds : owner' = [owner EXCEPT ![fd] = Head(backlog)]
    BY <1>2
  <2>2. fd \in Fds /\ owner[fd] = None
    BY DEF FreeFds
  <2>3. backlog # <<>> /\ backlog' = Tail(backlog) /\ backlog \in Seq(Clients)
    BY <1>1, <1>2 DEF ListenInv
  <2> DEFINE c == backlog[1]
  <2>4. 1 \in DOMAIN backlog /\ c \in Clients /\ owner' = [owner EXCEPT ![fd] = c]
    BY <2>1, <2>3, TailShape
  <2>5. \A i \in DOMAIN backlog' :
            /\ i \in Nat /\ i + 1 \in DOMAIN backlog /\ i + 1 # 1
            /\ backlog'[i] = backlog[i + 1]
    BY <2>3, TailShape
  <2>6. \A i \in DOMAIN backlog' : backlog'[i] # c
    BY <2>4, <2>5 DEF OwnersInv
  <2>7. \A g \in Fds : owner[g] # c
    BY <2>4 DEF OwnersInv
  <2>a. conn[c] # "new"
    BY <2>4 DEF OwnersInv
  <2> HIDE DEF c
  <2>8. \A g \in Fds : owner'[g] = IF g = fd THEN c ELSE owner[g]
    BY <2>2, <2>4
  <2>9. \A g, other \in Fds : owner'[g] # None /\ owner'[g] = owner'[other] => g = other
    BY <2>7, <2>8 DEF OwnersInv
  <2>10. ASSUME NEW i \in DOMAIN backlog', NEW j \in DOMAIN backlog', i # j
         PROVE  backlog'[i] # backlog'[j]
    <3>1. i + 1 \in DOMAIN backlog /\ j + 1 \in DOMAIN backlog
      BY <2>5
    <3>2. i + 1 # j + 1
      BY <2>5, <2>10
    <3>3. backlog[i + 1] # backlog[j + 1]
      BY <3>1, <3>2 DEF OwnersInv
    <3> QED BY <2>5, <3>3
  <2>11. ASSUME NEW i \in DOMAIN backlog'
         PROVE  /\ \A g \in Fds : backlog'[i] # owner'[g]
                /\ conn'[backlog'[i]] # "new"
    <3>1. i + 1 \in DOMAIN backlog /\ backlog'[i] = backlog[i + 1]
      BY <2>5
    <3>2. backlog'[i] # c
      BY ONLY <2>6, i \in DOMAIN backlog'
    <3>3. \A g \in Fds : backlog[i + 1] # owner[g]
      BY <3>1 DEF OwnersInv
    <3>4. conn[backlog[i + 1]] # "new"
      BY <3>1 DEF OwnersInv
    <3> QED BY ONLY <1>1, <2>8, <3>1, <3>2, <3>3, <3>4
  <2>13. \A g \in Fds : owner'[g] # None => conn'[owner'[g]] # "new"
    BY <1>1, <2>8, <2>a DEF OwnersInv
  <2>14. OwnersInv'
    BY <2>9, <2>10, <2>11, <2>13, Zenon DEF OwnersInv
  <2>15. \A g \in WantRead : owner'[g] = owner[g]
    <3>1. \A i \in DOMAIN peers : peers[i].sck \in Fds /\ owner[peers[i].sck] # None
      <4>1. \A i \in DOMAIN peers : peers[i] \in Peers
        BY LenProperties, ElementOfSeq
      <4> QED BY <1>1, <4>1 DEF Peers, PeersInv
    <3> QED BY <2>2, <2>8, <3>1 DEF WantRead
  <2> QED BY <2>14, <2>15
<1>3. CASE /\ (backlog' = Tail(backlog) /\ "listen" \in ready) \/ UNCHANGED backlog
           /\ UNCHANGED owner
  <2>1. "listen" \in ready => backlog # <<>>
    BY <1>1 DEF ListenInv
  <2> QED BY <1>1, <1>3, <2>1, FewerOwners
<1> QED BY <1>2, <1>3 DEF CheckListen, Accept

LEMMA ServerKeepsOwners ==
  ASSUME TInv, ListenInv, OwnersInv, ServerActs
  PROVE  OwnersInv'
<1>1. CASE CheckListen
  BY <1>1, AcceptKeepsOwners
<1>2. CASE Cleanup
  <2>1. /\ \A fd \in Fds : owner'[fd] = owner[fd] \/ owner'[fd] = None
        /\ backlog' = <<>> /\ conn' = conn
    BY <1>2 DEF Cleanup
  <2> QED BY <2>1, FewerOwners
<1>3. CASE PeerStep
  <2>1. conn' = conn /\ backlog' = backlog
    BY <1>3 DEF PeerStep, SkipRead, ReadNoMemory, ReadEof, ReadHeader, ReadBadLength,
                ReadUnknown, ReadShort, ReadRequest, SkipWrite, WriteReply, WriteError,
                PassEnds, PassOver, Advance, AfterRead, RemoveThis, sockVars
  <2>2. owner' = owner \/ owner' = [owner EXCEPT ![This.sck] = None]
    BY <1>3 DEF PeerStep, SkipRead, ReadNoMemory, ReadEof, ReadHeader, ReadBadLength,
                ReadUnknown, ReadShort, ReadRequest, SkipWrite, WriteReply, WriteError,
                PassEnds, PassOver, Advance, AfterRead, RemoveThis, sockVars
  <2>3. \A fd \in Fds : owner'[fd] = owner[fd] \/ owner'[fd] = None
    BY <2>2
  <2> QED BY <2>1, <2>3, FewerOwners
<1>4. CASE UNCHANGED <<conn, owner, backlog>>
  BY <1>4, FewerOwners
<1> QED BY <1>1, <1>2, <1>3, <1>4
        DEF ServerActs, ServerStep, SendGetReply, AwaitReplyMsgq, Poll, LoopEnds,
            CheckTerm, Drain, GetForever, SelectForever, SendShutdown, CloseTransport,
            ProcessOneMsgq, GetFails, sockVars

(* The pass: a peer that is read or removed takes nothing from the ones    *)
(* the pass has yet to come to.                                            *)
LEMMA PassKeepsReadable ==
  ASSUME TInv, OwnersInv, NeverBlocksInRecv, PeerStep
  PROVE  NeverBlocksInRecv'
<1>0. pc \in {"read", "write"}
  BY PeerStepPc
<1>1. \A i \in DOMAIN peers :
        /\ peers[i] \in Peers /\ peers[i].sck \in Fds
        /\ owner[peers[i].sck] # None /\ owner[peers[i].sck] \in Clients
  <2>1. \A i \in DOMAIN peers : peers[i] \in Peers
    BY LenProperties, ElementOfSeq
  <2>2. \A i \in DOMAIN peers : peers[i].sck \in Fds
    BY <2>1 DEF Peers
  <2>3. \A i \in DOMAIN peers : owner[peers[i].sck] # None
    BY <1>0 DEF PeersInv
  <2> QED BY <2>1, <2>2, <2>3
<1>2. Len(peers) \in Nat /\ DOMAIN peers = 1..Len(peers)
  BY LenProperties
<1>3. CASE SkipRead \/ SkipWrite
  <2>1. /\ UNCHANGED <<peers, owner, rfds, conn, toServer>>
        /\ \/ pc = "read" /\ pc' = "write" /\ cursor' = cursor /\ This.sck \notin rfds
           \/ pc = "write" /\ pc' = "read" /\ cursor' = cursor + 1
    BY <1>3 DEF SkipRead, SkipWrite, Advance, sockVars, peerVars
  <2>2. \A i \in DOMAIN peers : i > cursor' \/ (i = cursor' /\ pc' = "read")
            => i > cursor \/ (i = cursor /\ pc = "read")
    BY <1>2, <2>1
  <2> QED BY <1>0, <2>1, <2>2 DEF NeverBlocksInRecv, Readable
<1>4. CASE ReadNoMemory \/ PassEnds
  BY <1>4 DEF ReadNoMemory, PassEnds, PassOver, NeverBlocksInRecv
<1>5. ASSUME AtPeer, UNCHANGED <<rfds, conn>>,
             toServer' = toServer \/ toServer' = [toServer EXCEPT ![Conn] = Tail(@)]
      PROVE  \A i \in DOMAIN peers : i # cursor /\ Readable(owner[peers[i].sck])
                => (toServer'[owner[peers[i].sck]] # <<>> \/ conn'[owner[peers[i].sck]] = "closed")
  <2> SUFFICES ASSUME NEW i \in DOMAIN peers, i # cursor, Readable(owner[peers[i].sck])
               PROVE  toServer'[owner[peers[i].sck]] = toServer[owner[peers[i].sck]]
    BY <1>5 DEF Readable
  <2>1. cursor \in DOMAIN peers
    BY <1>2, <1>5, ThisPeer, <1>0
  <2>2. peers[i].sck # This.sck
    BY <2>1 DEF PeersInv, This
  <2>3. owner[peers[i].sck] # Conn
    BY <1>1, <2>1, <2>2 DEF OwnersInv, Conn, This
  <2> QED BY <1>1, <1>5, <2>1, <2>3
<1>6. CASE \/ ReadHeader \/ ReadUnknown \/ WriteReply
           \/ ReadRequest /\ AfterRead("header")
  <2>1. /\ AtPeer /\ UNCHANGED <<rfds, conn, owner>>
        /\ toServer' = toServer \/ toServer' = [toServer EXCEPT ![Conn] = Tail(@)]
        /\ \/ pc' = "write" /\ cursor' = cursor
           \/ pc' = "read" /\ cursor' = cursor + 1
    BY <1>6 DEF ReadHeader, ReadUnknown, ReadRequest, ReadingPdu, Reading, WriteReply, Writing,
                AfterRead, Advance, TakePdu, LeavePdu, PeersInv
  <2>2. SameSlots
    <3>1. CASE Reading /\ (\E in \in {"none", "header", "payload"} : AfterRead(in))
      <4>1. PICK in \in {"none", "header", "payload"} : AfterRead(in)
        BY <3>1
      <4> DEFINE p == [This EXCEPT !.in = in]
      <4>2. p \in Peers /\ p.id = This.id /\ p.sck = This.sck
        <5>1. This \in Peers
          BY <1>0, <2>1, ThisPeer
        <5> QED BY <5>1 DEF Peers
      <4>3. peers' = [peers EXCEPT ![cursor] = p]
        BY <4>1 DEF AfterRead, This
      <4> HIDE DEF p
      <4> QED BY <1>0, <2>1, <4>2, <4>3, ChangeThis
    <3>2. CASE WriteReply
      <4> DEFINE p == [This EXCEPT !.out = Tail(@)]
      <4>1. p \in Peers /\ p.id = This.id /\ p.sck = This.sck
        <5>1. This \in Peers /\ This.out \in Seq(Replies) /\ This.out # <<>>
          BY <1>0, <2>1, <3>2, ThisPeer DEF WriteReply, Writing, Peers
        <5>2. Tail(This.out) \in Seq(Replies)
          BY <5>1, HeadTailProperties
        <5> QED BY <5>1, <5>2 DEF Peers
      <4>2. peers' = [peers EXCEPT ![cursor] = p]
        BY <3>2 DEF WriteReply, This
      <4> HIDE DEF p
      <4> QED BY <1>0, <2>1, <4>1, <4>2, ChangeThis
    <3> QED BY <1>6, <3>1, <3>2
            DEF ReadHeader, ReadUnknown, ReadRequest, ReadingPdu
  <2>3. ASSUME NEW i \in DOMAIN peers', i > cursor' \/ (i = cursor' /\ pc' = "read"),
               peers'[i].sck \in rfds'
        PROVE  toServer'[owner'[peers'[i].sck]] # <<>> \/ conn'[owner'[peers'[i].sck]] = "closed"
    <3>1. i \in DOMAIN peers /\ peers'[i].sck = peers[i].sck
      BY <2>2 DEF SameSlots
    <3>2. i > cursor /\ i # cursor
      BY <1>2, <2>1, <2>3, <3>1
    <3>3. Readable(owner[peers[i].sck])
      BY <1>0, <2>1, <2>3, <3>1, <3>2 DEF NeverBlocksInRecv
    <3> QED BY <1>5, <2>1, <3>1, <3>2, <3>3
  <2> QED BY <2>3 DEF NeverBlocksInRecv, Readable
<1>7. CASE \/ ReadEof \/ ReadBadLength \/ ReadShort \/ WriteError
           \/ ReadRequest /\ RemoveThis
  <2>1. /\ AtPeer /\ RemoveThis /\ UNCHANGED <<rfds, conn>>
        /\ toServer' = toServer \/ toServer' = [toServer EXCEPT ![Conn] = Tail(@)]
    BY <1>7 DEF ReadEof, ReadBadLength, ReadShort, ReadRequest, ReadingPdu, Reading, WriteError,
                Writing, RemoveThis, TakePdu, LeavePdu, PeersInv
  <2>2. pc' = "read" /\ cursor' = cursor /\ owner' = [owner EXCEPT ![This.sck] = None]
    BY <2>1 DEF RemoveThis
  <2>3. /\ cursor \in 1..Len(peers) /\ DOMAIN peers' = 1..(Len(peers) - 1)
        /\ \A j \in 1..(Len(peers) - 1) :
              peers'[j] = IF j < cursor THEN peers[j] ELSE peers[j + 1]
    <3>1. peers' = RemoveAt(peers, cursor) /\ peers \in Seq(Peers) /\ cursor \in 1..Len(peers)
      BY <1>0, <2>1, ThisPeer DEF RemoveThis
    <3>2. /\ peers' \in Seq(Peers) /\ Len(peers') = Len(peers) - 1
          /\ \A j \in 1..(Len(peers) - 1) :
                peers'[j] = IF j < cursor THEN peers[j] ELSE peers[j + 1]
      BY ONLY <3>1, RemoveAtProperties
    <3> QED BY <3>1, <3>2, LenProperties
  <2>4. ASSUME NEW i \in DOMAIN peers', i > cursor' \/ (i = cursor' /\ pc' = "read"),
               peers'[i].sck \in rfds'
        PROVE  toServer'[owner'[peers'[i].sck]] # <<>> \/ conn'[owner'[peers'[i].sck]] = "closed"
    <3>1. i \in Nat /\ i >= cursor /\ i \in 1..(Len(peers) - 1)
      BY <2>2, <2>3, <2>4
    <3>2. i + 1 \in DOMAIN peers /\ i + 1 > cursor /\ i + 1 # cursor
      BY <1>2, <3>1
    <3>3. peers'[i] = peers[i + 1]
      BY <2>3, <3>1
    <3>4. Readable(owner[peers[i + 1].sck])
      BY <1>0, <2>1, <2>4, <3>2, <3>3 DEF NeverBlocksInRecv
    <3>5. peers[i + 1].sck # This.sck
      BY <1>2, <2>3, <3>2 DEF PeersInv, This
    <3>6. owner'[peers'[i].sck] = owner[peers[i + 1].sck]
      BY <1>1, <2>2, <3>2, <3>3, <3>5
    <3> QED BY <1>5, <2>1, <3>2, <3>4, <3>6
  <2> QED BY <2>4 DEF NeverBlocksInRecv, Readable
<1> QED BY <1>3, <1>4, <1>6, <1>7 DEF PeerStep, ReadRequest

LEMMA NextOwners == IInv /\ OwnersInv /\ [Next]_vars => OwnersInv'
<1> SUFFICES ASSUME IInv, OwnersInv, [Next]_vars PROVE OwnersInv'
  OBVIOUS
<1>0. TInv /\ ListenInv
  BY DEF IInv
<1>1. CASE ServerActs
  BY <1>0, <1>1, ServerKeepsOwners
<1>2. ASSUME NEW c \in Clients, ClientActs(c)
      PROVE  OwnersInv'
  BY <1>0, <1>2, ClientKeepsOwners
<1>3. CASE UNCHANGED <<conn, owner, backlog>>
  BY <1>0, <1>3, FewerOwners
<1> QED BY <1>1, <1>2, <1>3
        DEF Next, DspActs, LocateActs, ErrorActs, SignalActs, Done, vars, sockVars

LEMMA NextReady ==
  IInv /\ OwnersInv /\ ReadyInv /\ NeverBlocksInRecv /\ [Next]_vars
    => ReadyInv' /\ NeverBlocksInRecv'
<1> SUFFICES ASSUME IInv, OwnersInv, ReadyInv, NeverBlocksInRecv, [Next]_vars
             PROVE  ReadyInv' /\ NeverBlocksInRecv'
  OBVIOUS
<1>0. TInv /\ ListenInv
  BY DEF IInv
<1>1. CASE ServerActs /\ Poll
  BY <1>1 DEF Poll, ReadyInv, NeverBlocksInRecv, ReadyRead, WantRead, Readable, sockVars
<1>2. CASE CheckListen
  <2>1. /\ pc = "check" /\ pc' = "read" /\ cursor' = 1
        /\ UNCHANGED <<rfds, conn, toServer>>
    BY <1>2 DEF CheckListen
  <2>2. \A fd \in WantRead : owner'[fd] = owner[fd]
    BY <1>0, <1>2, AcceptKeepsOwners
  <2>3. \A fd \in rfds' : Readable(owner[fd])'
    BY <2>1, <2>2 DEF ReadyInv, Readable
  <2> QED BY <2>1, <2>3 DEF ReadyInv, NeverBlocksInRecv
<1>3. CASE ServerActs /\ PeerStep
  BY <1>0, <1>3, PassKeepsReadable, PeerStepPc DEF ReadyInv
<1>4. CASE ServerActs /\ ~Poll /\ ~CheckListen /\ ~PeerStep
  <2>1. pc' \notin {"check", "read", "write"}
    BY <1>4 DEF ServerActs, ServerStep, SendGetReply, AwaitReplyMsgq, LoopEnds,
        CheckTerm, Drain, GetForever, SelectForever, SendShutdown, CloseTransport, Cleanup
  <2> QED BY <2>1 DEF ReadyInv, NeverBlocksInRecv
<1>5. ASSUME NEW c \in Clients, ClientActs(c)
      PROVE  ReadyInv' /\ NeverBlocksInRecv'
  <2>1. UNCHANGED <<peers, cursor, rfds, pc, owner>>
    BY <1>5 DEF ClientActs, peerVars, serverVars, ClientStep, ClientConnect, ClientSend,
                ClientRead, ClientClose
  <2>2. \A d \in Clients : Readable(d) => Readable(d)'
    BY <1>0, <1>5, ClientKeepsReadable
  <2>3. \A i \in DOMAIN peers : peers[i].sck \in Fds
    <3>1. \A i \in DOMAIN peers : peers[i] \in Peers
      BY <1>0, LenProperties, ElementOfSeq
    <3> QED BY <3>1 DEF Peers
  <2>4. pc # "stopped" => \A fd \in WantRead : owner[fd] \in Clients
    BY <1>0, <2>3 DEF PeersInv, WantRead
  <2>5. ReadyInv'
    BY <2>1, <2>2, <2>4 DEF ReadyInv, WantRead
  <2>6. NeverBlocksInRecv'
    <3>1. \A i \in DOMAIN peers : peers[i].sck \in WantRead
      BY DEF WantRead
    <3> QED BY <2>1, <2>2, <2>4, <3>1 DEF NeverBlocksInRecv
  <2> QED BY <2>5, <2>6
<1>6. CASE UNCHANGED <<peers, cursor, rfds, pc, sockVars>>
  BY <1>6 DEF ReadyInv, NeverBlocksInRecv, WantRead, Readable, sockVars
<1> QED BY <1>1, <1>2, <1>3, <1>4, <1>5, <1>6
        DEF Next, DspActs, LocateActs, ErrorActs, SignalActs, SigInt, Done, vars, peerVars, serverVars

-----------------------------------------------------------------------------
(* Sequence numbers. A client's replies, the ones queued for it, the       *)
(* messages that carry its requests and the PDUs still on its stream form  *)
(* one line, in the order of their sequence numbers.                       *)

Rising(s) == \A i, j \in DOMAIN s : i < j => s[i].seq < s[j].seq
Below(s, t) == \A i \in DOMAIN s, j \in DOMAIN t : s[i].seq < t[j].seq

SentInv ==
    \A c \in Clients : \A k \in DOMAIN sent[c] : sent[c][k].seq = k - 1
StreamInv ==
    \A c \in Clients :
        /\ \A j \in DOMAIN toServer[c] :
                \E k \in DOMAIN sent[c] : toServer[c][j] = sent[c][k]
        /\ Rising(toServer[c])
        /\ Below(replies[c], toServer[c])

(* A peer's replies answer its client, between those its client has and    *)
(* what it still has to read.                                              *)
QueuedFor(i) ==
    LET c == owner[peers[i].sck]
    IN  /\ Rising(peers[i].out)
        /\ Below(replies[c], peers[i].out)
        /\ Below(peers[i].out, toServer[c])
        /\ \A k \in DOMAIN peers[i].out : peers[i].out[k] \in AnswersIn(c)
QueueInv == pc # "stopped" => \A i \in DOMAIN peers : QueuedFor(i)

(* A message with a peer's id carries a request of the peer's client that  *)
(* comes after all it was answered and before all it still has to read.    *)
Tracked(m, i) ==
    LET c == owner[peers[i].sck]
    IN  /\ \E k \in DOMAIN sent[c] :
                m.subid = sent[c][k].kind /\ m.seq = sent[c][k].seq /\ m.arg = sent[c][k].arg
        /\ \A k \in DOMAIN replies[c] : replies[c][k].seq < m.seq
        /\ \A k \in DOMAIN peers[i].out : peers[i].out[k].seq < m.seq
        /\ \A k \in DOMAIN toServer[c] : m.seq < toServer[c][k].seq
Fits(m) ==
    m.subid \in Requests =>
        /\ m.id <= unique_id
        /\ pc # "stopped" => \A i \in DOMAIN peers : peers[i].id = m.id => Tracked(m, i)
AllFit(q) == \A k \in DOMAIN q : Fits(q[k])

SamePeer(m, n) == m.subid \in Requests /\ n.subid \in Requests /\ m.id = n.id
InTurn(m, n) == SamePeer(m, n) => m.seq < n.seq
Ordered(q) == \A i, j \in DOMAIN q : i < j => InTurn(q[i], q[j])
Precedes(q, r) == \A i \in DOMAIN q, j \in DOMAIN r : InTurn(q[i], r[j])
OrderInv ==
    /\ Ordered(gppq) /\ Ordered(dspq)
    /\ Precedes(gppq, hold) /\ Precedes(gppq, dspq) /\ Precedes(hold, dspq)

Solved(m) == m.subid \in Requests => m.z = Answer(m.subid, m.arg)

FlightInv ==
    /\ AllFit(gppq) /\ AllFit(hold) /\ AllFit(dspq)
    /\ OrderInv
    /\ \A k \in DOMAIN gppq : Solved(gppq[k])

LineInv == SentInv /\ StreamInv /\ RepliesAreAnswers /\ QueueInv /\ FlightInv
(* What tails and appended elements do to the order.                       *)

LEMMA RisingTail ==
  ASSUME NEW S, NEW s \in Seq(S), s # <<>>, Rising(s)
  PROVE  /\ Rising(Tail(s))
         /\ \A j \in DOMAIN Tail(s) : Head(s).seq < Tail(s)[j].seq
<1> DEFINE t == Tail(s)
<1>1. /\ 1 \in DOMAIN s /\ Head(s) = s[1]
      /\ \A i \in DOMAIN t :
            i \in Nat \ {0} /\ i + 1 \in DOMAIN s /\ t[i] = s[i + 1]
  BY TailShape
<1> HIDE DEF t
<1>2. ASSUME NEW i \in DOMAIN t, NEW j \in DOMAIN t, i < j
      PROVE  t[i].seq < t[j].seq
  <2>1. i + 1 \in DOMAIN s /\ j + 1 \in DOMAIN s /\ i + 1 < j + 1
    BY <1>1, <1>2
  <2> QED BY <1>1, <2>1 DEF Rising
<1>3. ASSUME NEW j \in DOMAIN t
      PROVE  Head(s).seq < t[j].seq
  <2>1. j + 1 \in DOMAIN s /\ 1 < j + 1
    BY <1>1
  <2> QED BY <1>1, <2>1 DEF Rising
<1>4. Rising(t)
  BY <1>2 DEF Rising
<1> QED BY <1>3, <1>4 DEF t

LEMMA RisingAppend ==
  ASSUME NEW S, NEW s \in Seq(S), NEW e \in S, Rising(s),
         \A i \in DOMAIN s : s[i].seq < e.seq
  PROVE  Rising(Append(s, e))
<1> DEFINE t == Append(s, e)
           n == Len(s) + 1
<1>1. /\ n \in Nat /\ t[n] = e
      /\ \A i \in DOMAIN s : i \in Nat /\ i < n /\ t[i] = s[i]
      /\ \A i \in DOMAIN t : i \in DOMAIN s \/ i = n
  BY AppendShape
<1> HIDE DEF t, n
<1>2. ASSUME NEW i \in DOMAIN t, NEW j \in DOMAIN t, i < j
      PROVE  t[i].seq < t[j].seq
  <2>1. CASE i \in DOMAIN s /\ j \in DOMAIN s
    BY <1>1, <1>2, <2>1 DEF Rising
  <2>2. CASE i = n
    <3>1. j \in Nat /\ (j < n \/ j = n)
      BY <1>1
    <3> QED BY <1>1, <1>2, <2>2, <3>1
  <2>3. CASE i \in DOMAIN s /\ j = n
    BY <1>1, <2>3
  <2> QED BY <1>1, <2>1, <2>2, <2>3
<1>3. Rising(t)
  BY <1>2 DEF Rising
<1> QED BY <1>3 DEF t

LEMMA OrderedTail ==
  ASSUME NEW q \in Seq(Messages), q # <<>>, Ordered(q)
  PROVE  /\ Ordered(Tail(q))
         /\ \A j \in DOMAIN Tail(q) : InTurn(Head(q), Tail(q)[j])
<1> DEFINE t == Tail(q)
<1>1. /\ 1 \in DOMAIN q /\ Head(q) = q[1]
      /\ \A i \in DOMAIN t :
            i \in Nat \ {0} /\ i + 1 \in DOMAIN q /\ t[i] = q[i + 1]
  BY TailShape
<1> HIDE DEF t
<1>2. ASSUME NEW i \in DOMAIN t, NEW j \in DOMAIN t, i < j
      PROVE  InTurn(t[i], t[j])
  <2>1. i + 1 \in DOMAIN q /\ j + 1 \in DOMAIN q /\ i + 1 < j + 1
    BY <1>1, <1>2
  <2>2. InTurn(q[i + 1], q[j + 1])
    BY <2>1 DEF Ordered
  <2> QED BY <1>1, <2>2
<1>3. ASSUME NEW j \in DOMAIN t
      PROVE  InTurn(Head(q), t[j])
  <2>1. j + 1 \in DOMAIN q /\ 1 < j + 1
    BY <1>1
  <2>2. InTurn(q[1], q[j + 1])
    BY <1>1, <2>1 DEF Ordered
  <2> QED BY <1>1, <2>2
<1>4. Ordered(t)
  BY <1>2 DEF Ordered
<1> QED BY <1>3, <1>4 DEF t

LEMMA OrderedAppend ==
  ASSUME NEW q \in Seq(Messages), NEW m \in Messages, Ordered(q),
         \A i \in DOMAIN q : InTurn(q[i], m)
  PROVE  Ordered(Append(q, m))
<1> DEFINE t == Append(q, m)
           n == Len(q) + 1
<1>1. /\ n \in Nat /\ t[n] = m
      /\ \A i \in DOMAIN q : i \in Nat /\ i < n /\ t[i] = q[i]
      /\ \A i \in DOMAIN t : i \in DOMAIN q \/ i = n
  BY AppendShape
<1> HIDE DEF t, n
<1>2. ASSUME NEW i \in DOMAIN t, NEW j \in DOMAIN t, i < j
      PROVE  InTurn(t[i], t[j])
  <2>1. CASE i \in DOMAIN q /\ j \in DOMAIN q
    <3>1. InTurn(q[i], q[j])
      BY <1>2, <2>1 DEF Ordered
    <3> QED BY <1>1, <2>1, <3>1
  <2>2. CASE i = n
    <3>1. j \in Nat /\ (j < n \/ j = n)
      BY <1>1
    <3> QED BY <1>1, <1>2, <2>2, <3>1
  <2>3. CASE i \in DOMAIN q /\ j = n
    BY <1>1, <2>3
  <2> QED BY <1>1, <2>1, <2>2, <2>3
<1>3. Ordered(t)
  BY <1>2 DEF Ordered
<1> QED BY <1>3 DEF t

(* The elements of a queue that has lost its first or gained a last.       *)

LEMMA TailElements ==
  ASSUME NEW q \in Seq(Messages), q # <<>>
  PROVE  /\ \E k \in DOMAIN q : Head(q) = q[k]
         /\ \A i \in DOMAIN Tail(q) : \E k \in DOMAIN q : Tail(q)[i] = q[k]
<1> DEFINE t == Tail(q)
<1>1. /\ 1 \in DOMAIN q /\ Head(q) = q[1]
      /\ \A i \in DOMAIN t : i + 1 \in DOMAIN q /\ t[i] = q[i + 1]
  BY TailShape
<1> HIDE DEF t
<1>2. \A i \in DOMAIN t : \E k \in DOMAIN q : t[i] = q[k]
  BY <1>1
<1> QED BY <1>1, <1>2 DEF t

LEMMA AppendElements ==
  ASSUME NEW q \in Seq(Messages), NEW m \in Messages
  PROVE  \A i \in DOMAIN Append(q, m) :
            Append(q, m)[i] = m \/ \E k \in DOMAIN q : Append(q, m)[i] = q[k]
<1> DEFINE t == Append(q, m)
           n == Len(q) + 1
<1>1. /\ t[n] = m
      /\ \A i \in DOMAIN q : t[i] = q[i]
      /\ \A i \in DOMAIN t : i \in DOMAIN q \/ i = n
  BY AppendShape
<1> HIDE DEF t, n
<1>2. \A i \in DOMAIN t : t[i] = m \/ \E k \in DOMAIN q : t[i] = q[k]
  BY <1>1
<1> QED BY <1>2 DEF t

LEMMA OneElement ==
  ASSUME NEW m
  PROVE  DOMAIN <<m>> = {1} /\ <<m>>[1] = m
  OBVIOUS

LEMMA NoElement == DOMAIN <<>> = {}
  BY EmptySeq, LenProperties

(* Messages in flight.                                                     *)

LEMMA MessagesTyped ==
  ASSUME TInv
  PROVE  /\ \A k \in DOMAIN gppq : gppq[k] \in Messages
         /\ \A k \in DOMAIN hold : hold[k] \in Messages
         /\ \A k \in DOMAIN dspq : dspq[k] \in Messages
  BY LenProperties, ElementOfSeq

LEMMA StillFlying ==
  ASSUME TInv, FlightInv, UNCHANGED <<gppq, hold, dspq>>,
         \A m \in Messages : Fits(m) => Fits(m)'
  PROVE  FlightInv'
<1>0. /\ \A k \in DOMAIN gppq : gppq[k] \in Messages
      /\ \A k \in DOMAIN hold : hold[k] \in Messages
      /\ \A k \in DOMAIN dspq : dspq[k] \in Messages
  BY MessagesTyped
<1>1. AllFit(gppq)' /\ AllFit(hold)' /\ AllFit(dspq)'
  BY <1>0 DEF FlightInv, AllFit
<1>2. OrderInv'
  BY DEF FlightInv, OrderInv, Ordered, Precedes
<1>3. \A k \in DOMAIN gppq' : Solved(gppq'[k])
  BY DEF FlightInv
<1> QED BY <1>1, <1>2, <1>3 DEF FlightInv

(* A message is sent to the DSP that comes after those with its peer's id. *)
LEMMA SendKeepsFlight ==
  ASSUME TInv, FlightInv, NEW m \in Messages,
         dspq' = Append(dspq, m), UNCHANGED <<gppq, hold>>,
         \A n \in Messages : Fits(n) => Fits(n)', Fits(m)',
         \A k \in DOMAIN gppq : InTurn(gppq[k], m),
         \A k \in DOMAIN hold : InTurn(hold[k], m),
         \A k \in DOMAIN dspq : InTurn(dspq[k], m)
  PROVE  FlightInv'
<1>1. \A i \in DOMAIN dspq' : dspq'[i] = m \/ \E k \in DOMAIN dspq : dspq'[i] = dspq[k]
  <2>1. dspq \in Seq(Messages) /\ dspq' = Append(dspq, m)
    OBVIOUS
  <2> QED BY ONLY <2>1, AppendElements, Zenon
<1>2. AllFit(gppq)' /\ AllFit(hold)'
  BY MessagesTyped DEF FlightInv, AllFit
<1>3. AllFit(dspq)'
  <2> SUFFICES ASSUME NEW i \in DOMAIN dspq'
               PROVE  Fits(dspq[i])'
    BY DEF AllFit
  <2>1. CASE dspq'[i] = m
    BY <2>1
  <2>2. ASSUME NEW k \in DOMAIN dspq, dspq'[i] = dspq[k]
        PROVE  Fits(dspq[i])'
    <3>1. Fits(dspq[k]) /\ dspq[k] \in Messages
      BY <2>2, MessagesTyped DEF FlightInv, AllFit
    <3> QED BY <2>2, <3>1
  <2> QED BY <1>1, <2>1, <2>2
<1>4. Ordered(dspq')
  BY OrderedAppend DEF FlightInv, OrderInv
<1>5. Precedes(gppq', dspq') /\ Precedes(hold', dspq')
  <2>1. Precedes(gppq, dspq) /\ Precedes(hold, dspq)
    BY DEF FlightInv, OrderInv
  <2> QED BY <1>1, <2>1 DEF Precedes
<1>6. Ordered(gppq') /\ Precedes(gppq', hold')
  BY DEF FlightInv, OrderInv
<1>7. OrderInv'
  BY <1>4, <1>5, <1>6 DEF OrderInv
<1>8. \A k \in DOMAIN gppq' : Solved(gppq'[k])
  BY DEF FlightInv
<1> QED BY <1>2, <1>3, <1>7, <1>8 DEF FlightInv

LEMMA ControlInTurn ==
  ASSUME NEW subid \in Subids \ Requests, NEW handle, NEW n
  PROVE  /\ InTurn(n, Control(subid, handle))
         /\ Control(subid, handle).subid \notin Requests
  BY DEF InTurn, SamePeer, Control, Msg

(* The DSP takes, solves and puts back messages in the order they came.    *)
LEMMA DspKeepsFlight ==
  ASSUME TInv, FlightInv, DspActs
  PROVE  FlightInv'
<1> USE DEF DspActs, sockVars, peerVars, serverVars, passVars
<1>0. \A m : Fits(m) => Fits(m)'
  BY DEF Fits, Tracked
<1>1. CASE DspGet
  <2>1. /\ dspq # <<>> /\ dspq \in Seq(Messages)
        /\ hold' = <<Head(dspq)>> /\ dspq' = Tail(dspq) /\ gppq' = gppq
    BY <1>1 DEF DspGet
  <2> DEFINE m == Head(dspq)
  <2>2. /\ \E k \in DOMAIN dspq : m = dspq[k]
        /\ \A i \in DOMAIN dspq' : \E k \in DOMAIN dspq : dspq'[i] = dspq[k]
        /\ Ordered(dspq') /\ \A j \in DOMAIN dspq' : InTurn(m, dspq'[j])
    BY <2>1, TailElements, OrderedTail DEF FlightInv, OrderInv
  <2>3. DOMAIN hold' = {1} /\ hold'[1] = m
    BY <2>1, OneElement
  <2> HIDE DEF m
  <2>4. Fits(m)
    BY <2>2 DEF FlightInv, AllFit
  <2>5. \A i \in DOMAIN dspq' : Fits(dspq'[i])
    BY <2>2 DEF FlightInv, AllFit
  <2>6. AllFit(gppq)' /\ AllFit(hold)' /\ AllFit(dspq)'
    BY <1>0, <2>1, <2>3, <2>4, <2>5 DEF FlightInv, AllFit
  <2>7. Precedes(gppq', hold') /\ Precedes(gppq', dspq')
    BY <2>1, <2>2, <2>3 DEF FlightInv, OrderInv, Precedes
  <2>8. Precedes(hold', dspq')
    BY <2>2, <2>3 DEF Precedes
  <2>9. OrderInv'
    BY <2>1, <2>2, <2>7, <2>8 DEF FlightInv, OrderInv
  <2> QED BY <2>1, <2>6, <2>9 DEF FlightInv
<1>2. CASE hold' = <<>> /\ UNCHANGED <<gppq, dspq>>
  <2>1. DOMAIN hold' = {}
    BY <1>2, NoElement
  <2>2. AllFit(gppq)' /\ AllFit(hold)' /\ AllFit(dspq)'
    BY <1>0, <1>2, <2>1 DEF FlightInv, AllFit
  <2>3. OrderInv'
    BY <1>2, <2>1 DEF FlightInv, OrderInv, Precedes
  <2> QED BY <1>2, <2>2, <2>3 DEF FlightInv
<1>3. ASSUME NEW m \in Messages, hold' = <<>>, dspq' = dspq, gppq' = Append(gppq, m),
             Fits(m), Solved(m),
             \A k \in DOMAIN gppq : InTurn(gppq[k], m),
             \A k \in DOMAIN dspq : InTurn(m, dspq[k])
      PROVE  FlightInv'
  <2>1. DOMAIN hold' = {}
    BY <1>3, NoElement
  <2>2. \A i \in DOMAIN gppq' : gppq'[i] = m \/ \E k \in DOMAIN gppq : gppq'[i] = gppq[k]
    <3>1. gppq \in Seq(Messages) /\ gppq' = Append(gppq, m)
      BY <1>3
    <3> QED BY ONLY <3>1, AppendElements, Zenon
  <2>3. Ordered(gppq')
    BY <1>3, OrderedAppend DEF FlightInv, OrderInv
  <2>4. Precedes(gppq', dspq')
    BY <1>3, <2>2 DEF FlightInv, OrderInv, Precedes
  <2>5. OrderInv'
    BY <1>3, <2>1, <2>3, <2>4 DEF FlightInv, OrderInv, Precedes
  <2>6. \A i \in DOMAIN gppq' : Fits(gppq'[i]) /\ Solved(gppq'[i])
    BY <1>3, <2>2 DEF FlightInv, AllFit
  <2>7. AllFit(gppq)' /\ AllFit(hold)' /\ AllFit(dspq)'
    BY <1>0, <1>3, <2>1, <2>6 DEF FlightInv, AllFit
  <2> QED BY <2>5, <2>6, <2>7 DEF FlightInv
<1>4. CASE DspAsyncLocate
  <2>1. LookedUp
    BY <1>4, HoldStage DEF DspAsyncLocate
  <2> DEFINE m == [parked[1] EXCEPT !.reply_msgq = hold[1].reply_msgq]
  <2>2. m \in Messages /\ m.subid \notin Requests
    <3>1. 1 \in 1..Len(parked) /\ parked[1].subid = "getreply"
      BY <2>1 DEF LookedUp
    <3>2. parked[1] \in Messages /\ hold[1] \in Messages
      BY <1>4, <3>1, HoldTyped, ElementOfSeq DEF DspAsyncLocate
    <3> QED BY <3>1, <3>2 DEF Messages, Requests
  <2>3. hold' = <<>> /\ dspq' = dspq /\ (gppq' = Append(gppq, m) \/ gppq' = gppq)
    BY <1>4, Zenon DEF DspAsyncLocate, PutBackOrFree
  <2> HIDE DEF m
  <2>4. Fits(m) /\ Solved(m) /\ \A n : InTurn(n, m) /\ InTurn(m, n)
    BY <2>2 DEF Fits, Solved, InTurn, SamePeer
  <2> QED BY <1>2, <1>3, <2>2, <2>3, <2>4
<1>5. CASE DspCompute
  <2> DEFINE n == hold[1]
             m == Computed(n)
  <2>1. n \in Messages /\ n.subid \in Requests /\ hold # <<>>
    BY <1>5, HoldTyped DEF DspCompute, Holding
  <2>2. 1 \in DOMAIN hold
    BY <2>1, LenProperties, EmptySeq
  <2>3. /\ m \in Messages /\ m.subid = n.subid /\ m.seq = n.seq /\ m.id = n.id /\ m.arg = n.arg
        /\ m.z = Answer(m.subid, m.arg)
    BY <2>1 DEF Computed, Messages, Results, Subids, Answer
  <2>4. hold' = <<>> /\ dspq' = dspq /\ (gppq' = Append(gppq, m) \/ gppq' = gppq)
    BY <1>5, Zenon DEF DspCompute, PutBackOrFree
  <2>5. /\ Fits(n)
        /\ \A k \in DOMAIN gppq : InTurn(gppq[k], n)
        /\ \A k \in DOMAIN dspq : InTurn(n, dspq[k])
    BY <2>2 DEF FlightInv, AllFit, OrderInv, Precedes
  <2> HIDE DEF m, n
  <2>6. Fits(m)
    BY <2>3, <2>5 DEF Fits, Tracked
  <2>7. Solved(m)
    BY <2>3 DEF Solved
  <2>8. /\ \A k \in DOMAIN gppq : InTurn(gppq[k], m)
        /\ \A k \in DOMAIN dspq : InTurn(m, dspq[k])
    BY <2>3, <2>5 DEF InTurn, SamePeer
  <2> QED BY <1>2, <1>3, <2>3, <2>4, <2>6, <2>7, <2>8
<1>6. CASE DspStartLocate \/ DspShutdown
  BY <1>2, <1>6 DEF DspStartLocate, DspShutdown
<1>7. CASE DspGetFails \/ DspFreesOther
  <2>1. UNCHANGED <<dspq, gppq, hold>>
    BY <1>7 DEF DspGetFails, DspFreesOther, msgqVars
  <2> QED BY <1>0, <2>1 DEF FlightInv, AllFit, OrderInv, Ordered, Precedes, Solved
<1> QED BY <1>1, <1>4, <1>5, <1>6, <1>7 DEF DspStep

(* The server reads, passes over or removes: each peer that is left is one *)
(* that was there, with the replies it had, and streams only get shorter.  *)
Shrinks ==
    /\ UNCHANGED <<sent, replies, unique_id>>
    /\ \A i \in DOMAIN peers' : \E j \in DOMAIN peers :
            /\ peers'[i].id = peers[j].id
            /\ peers'[i].out = peers[j].out
            /\ owner'[peers'[i].sck] = owner[peers[j].sck]
    /\ \A c \in Clients :
            \/ toServer'[c] = toServer[c]
            \/ toServer[c] # <<>> /\ toServer'[c] = Tail(toServer[c])

LEMMA StreamsShrink ==
  ASSUME TInv, Shrinks, NEW c \in Clients
  PROVE  /\ \A j \in DOMAIN toServer'[c] : \E k \in DOMAIN toServer[c] :
                toServer'[c][j] = toServer[c][k]
         /\ Rising(toServer[c]) => Rising(toServer'[c])
<1> DEFINE s == toServer[c]
           t == toServer'[c]
<1>1. s \in Seq(Pdus) /\ (t = s \/ (s # <<>> /\ t = Tail(s)))
  <2>1. toServer[c] \in Seq(Pdus)
    OBVIOUS
  <2>2. t = s \/ (s # <<>> /\ t = Tail(s))
    BY Zenon DEF Shrinks
  <2> QED BY <2>1, <2>2
<1> HIDE DEF s, t
<1>2. CASE t = s
  BY <1>2 DEF s, t
<1>3. CASE s # <<>> /\ t = Tail(s)
  <2>1. \A j \in DOMAIN t : \E k \in DOMAIN s : t[j] = s[k]
    BY <1>1, <1>3, TailShape
  <2>2. Rising(s) => Rising(t)
    BY <1>1, <1>3, RisingTail
  <2> QED BY <2>1, <2>2 DEF s, t
<1> QED BY <1>1, <1>2, <1>3

LEMMA PeersClient ==
  ASSUME TInv, pc # "stopped", NEW i \in DOMAIN peers
  PROVE  /\ peers[i] \in Peers /\ peers[i].sck \in Fds
         /\ peers[i].out \in Seq(Replies) /\ peers[i].id \in Nat
         /\ owner[peers[i].sck] \in Clients /\ owner[peers[i].sck] # None
<1>1. peers[i] \in Peers
  BY LenProperties, ElementOfSeq
<1>2. peers[i].sck \in Fds /\ peers[i].out \in Seq(Replies) /\ peers[i].id \in Nat
  BY <1>1 DEF Peers
<1>3. owner[peers[i].sck] # None
  BY DEF PeersInv
<1> QED BY <1>1, <1>2, <1>3

LEMMA ShrinkKeepsLine ==
  ASSUME TInv, Shrinks, SentInv, StreamInv, RepliesAreAnswers, QueueInv, pc # "stopped"
  PROVE  /\ SentInv' /\ StreamInv' /\ RepliesAreAnswers' /\ QueueInv'
         /\ \A m : Fits(m) => Fits(m)'
<1>0. UNCHANGED <<sent, replies, unique_id>>
  BY DEF Shrinks
<1>1. SentInv' /\ RepliesAreAnswers'
  BY <1>0 DEF SentInv, RepliesAreAnswers, AnswersIn
<1>2. StreamInv'
  <2> SUFFICES ASSUME NEW c \in Clients
               PROVE  /\ \A j \in DOMAIN toServer'[c] :
                            \E k \in DOMAIN sent[c] : toServer'[c][j] = sent[c][k]
                      /\ Rising(toServer'[c])
                      /\ Below(replies[c], toServer'[c])
    BY <1>0 DEF StreamInv
  <2>1. /\ \A j \in DOMAIN toServer'[c] : \E k \in DOMAIN toServer[c] :
                toServer'[c][j] = toServer[c][k]
        /\ Rising(toServer[c]) => Rising(toServer'[c])
    BY StreamsShrink
  <2>2. /\ \A j \in DOMAIN toServer[c] :
                \E k \in DOMAIN sent[c] : toServer[c][j] = sent[c][k]
        /\ Rising(toServer[c])
        /\ Below(replies[c], toServer[c])
    BY DEF StreamInv
  <2>3. \A j \in DOMAIN toServer'[c] :
            \E k \in DOMAIN sent[c] : toServer'[c][j] = sent[c][k]
    <3> SUFFICES ASSUME NEW j \in DOMAIN toServer'[c]
                 PROVE  \E k \in DOMAIN sent[c] : toServer'[c][j] = sent[c][k]
      OBVIOUS
    <3>1. PICK k \in DOMAIN toServer[c] : toServer'[c][j] = toServer[c][k]
      BY <2>1
    <3> QED BY <2>2, <3>1
  <2>4. Below(replies[c], toServer'[c])
    BY <2>1, <2>2 DEF Below
  <2> QED BY <2>1, <2>2, <2>3, <2>4
<1>3. ASSUME NEW i \in DOMAIN peers'
      PROVE  \E j \in DOMAIN peers :
                /\ peers'[i].id = peers[j].id
                /\ peers'[i].out = peers[j].out
                /\ owner'[peers'[i].sck] = owner[peers[j].sck]
                /\ owner[peers[j].sck] \in Clients
  BY PeersClient DEF Shrinks
<1>4. QueueInv'
  <2> SUFFICES ASSUME NEW i \in DOMAIN peers'
               PROVE  QueuedFor(i)'
    BY DEF QueueInv
  <2>1. PICK j \in DOMAIN peers :
                /\ peers'[i].out = peers[j].out
                /\ owner'[peers'[i].sck] = owner[peers[j].sck]
                /\ owner[peers[j].sck] \in Clients
    BY <1>3
  <2> DEFINE c == owner[peers[j].sck]
             out == peers[j].out
  <2>2. /\ Rising(out) /\ Below(replies[c], out) /\ Below(out, toServer[c])
        /\ \A k \in DOMAIN out : out[k] \in AnswersIn(c)
    BY DEF QueueInv, QueuedFor
  <2>3. \A k \in DOMAIN toServer'[c] : \E l \in DOMAIN toServer[c] :
                toServer'[c][k] = toServer[c][l]
    BY <2>1, StreamsShrink
  <2> HIDE DEF c, out
  <2>4. Below(out, toServer'[c])
    BY <2>2, <2>3 DEF Below
  <2>5. \A k \in DOMAIN out : out[k] \in AnswersTo(sent'[c])
    BY <1>0, <2>2 DEF AnswersIn
  <2>6. c = owner'[peers'[i].sck] /\ out = peers'[i].out /\ replies' = replies
    BY <1>0, <2>1 DEF c, out
  <2> QED BY <2>2, <2>4, <2>5, <2>6, <1>0 DEF QueuedFor, AnswersIn
<1>5. ASSUME NEW m, Fits(m)
      PROVE  Fits(m)'
  <2> SUFFICES ASSUME m.subid \in Requests
               PROVE  /\ m.id <= unique_id'
                      /\ \A i \in DOMAIN peers' : peers'[i].id = m.id => Tracked(m, i)'
    BY DEF Fits
  <2>1. m.id <= unique_id'
    BY <1>0, <1>5 DEF Fits
  <2>2. ASSUME NEW i \in DOMAIN peers', peers'[i].id = m.id
        PROVE  Tracked(m, i)'
    <3>1. PICK j \in DOMAIN peers :
                /\ peers'[i].id = peers[j].id
                /\ peers'[i].out = peers[j].out
                /\ owner'[peers'[i].sck] = owner[peers[j].sck]
                /\ owner[peers[j].sck] \in Clients
      BY <1>3
    <3> DEFINE c == owner[peers[j].sck]
    <3>2. Tracked(m, j)
      BY <1>5, <2>2, <3>1 DEF Fits
    <3>3. /\ \E k \in DOMAIN sent[c] :
                m.subid = sent[c][k].kind /\ m.seq = sent[c][k].seq /\ m.arg = sent[c][k].arg
          /\ \A k \in DOMAIN replies[c] : replies[c][k].seq < m.seq
          /\ \A k \in DOMAIN peers[j].out : peers[j].out[k].seq < m.seq
          /\ \A k \in DOMAIN toServer[c] : m.seq < toServer[c][k].seq
      BY <3>2 DEF Tracked
    <3>4. \A k \in DOMAIN toServer'[c] : \E l \in DOMAIN toServer[c] :
                toServer'[c][k] = toServer[c][l]
      BY <3>1, StreamsShrink
    <3>5. \A k \in DOMAIN toServer'[c] : m.seq < toServer'[c][k].seq
      BY <3>3, <3>4
    <3>6. c = owner'[peers'[i].sck]
      BY <3>1
    <3> HIDE DEF c
    <3> QED BY <1>0, <3>1, <3>3, <3>5, <3>6 DEF Tracked
  <2> QED BY <2>1, <2>2
<1> QED BY <1>1, <1>2, <1>4, <1>5

(* A client sends: its PDU comes after everything of its that is under way. *)
LEMMA SendExtends ==
  ASSUME TInv, NEW c \in Clients, NEW kind \in Kinds, ClientSend(c, kind)
  PROVE  LET n == Len(sent[c]) + 1
             pdu == Pdu(c, kind)
         IN  /\ pdu \in Pdus /\ n \in Nat /\ pdu.seq = n - 1
             /\ sent'[c][n] = pdu /\ n \in DOMAIN sent'[c]
             /\ \A k \in DOMAIN sent'[c] : k \in DOMAIN sent[c] \/ k = n
             /\ \A d \in Clients : \A k \in DOMAIN sent[d] :
                    k \in DOMAIN sent'[d] /\ sent'[d][k] = sent[d][k]
             /\ toServer'[c] = Append(toServer[c], pdu)
             /\ \A d \in Clients : d # c => sent'[d] = sent[d] /\ toServer'[d] = toServer[d]
             /\ \A k \in DOMAIN sent[c] : k \in Nat /\ k < n
<1> DEFINE n == Len(sent[c]) + 1
           pdu == Pdu(c, kind)
           s == sent[c]
           t == toServer[c]
<1>1. /\ sent' = [sent EXCEPT ![c] = Append(@, pdu)]
      /\ toServer' = [toServer EXCEPT ![c] = Append(@, pdu)]
  BY DEF ClientSend
<1>2. s \in Seq(Pdus) /\ t \in Seq(Pdus) /\ Len(s) \in Nat /\ pdu.seq = Len(s)
  BY LenProperties DEF Pdu
<1>3. pdu \in Pdus
  BY <1>2 DEF Pdu, Pdus
<1>4. sent'[c] = Append(s, pdu) /\ toServer'[c] = Append(t, pdu)
  BY <1>1
<1>5. \A d \in Clients : d # c => sent'[d] = sent[d] /\ toServer'[d] = toServer[d]
  BY <1>1
<1>6. n = Len(s) + 1 /\ pdu.seq = n - 1 /\ n \in Nat
  BY <1>2
<1> HIDE DEF pdu, n, t
<1>7. /\ sent'[c][n] = pdu /\ n \in DOMAIN sent'[c]
      /\ \A k \in DOMAIN s : k \in Nat /\ k < n /\ k \in DOMAIN sent'[c] /\ sent'[c][k] = s[k]
      /\ \A k \in DOMAIN sent'[c] : k \in DOMAIN s \/ k = n
  <2> HIDE DEF s
  <2>1. /\ Append(s, pdu)[Len(s) + 1] = pdu /\ Len(s) + 1 \in DOMAIN Append(s, pdu)
        /\ \A k \in DOMAIN s : /\ k \in Nat /\ k < Len(s) + 1
                              /\ k \in DOMAIN Append(s, pdu) /\ Append(s, pdu)[k] = s[k]
        /\ \A k \in DOMAIN Append(s, pdu) : k \in DOMAIN s \/ k = Len(s) + 1
    BY ONLY <1>2, <1>3, AppendShape
  <2> QED BY ONLY <1>4, <1>6, <2>1
<1>8. \A d \in Clients : \A k \in DOMAIN sent[d] :
            k \in DOMAIN sent'[d] /\ sent'[d][k] = sent[d][k]
  BY <1>5, <1>7
<1> QED BY <1>3, <1>4, <1>5, <1>6, <1>7, <1>8 DEF n, pdu, t

LEMMA SendKeepsLine ==
  ASSUME TInv, LineInv, NEW c \in Clients, NEW kind \in Kinds, ClientSend(c, kind),
         UNCHANGED <<msgqVars, dspVars, peerVars, serverVars>>
  PROVE  LineInv'
<1> USE DEF LineInv
<1> DEFINE n == Len(sent[c]) + 1
           pdu == Pdu(c, kind)
<1>1. /\ pdu \in Pdus /\ n \in Nat /\ pdu.seq = n - 1
      /\ sent'[c][n] = pdu /\ n \in DOMAIN sent'[c]
      /\ \A k \in DOMAIN sent'[c] : k \in DOMAIN sent[c] \/ k = n
      /\ \A d \in Clients : \A k \in DOMAIN sent[d] :
                    k \in DOMAIN sent'[d] /\ sent'[d][k] = sent[d][k]
      /\ toServer'[c] = Append(toServer[c], pdu)
      /\ \A d \in Clients : d # c => sent'[d] = sent[d] /\ toServer'[d] = toServer[d]
      /\ \A k \in DOMAIN sent[c] : k \in Nat /\ k < n
  BY SendExtends
<1> HIDE DEF n, pdu
<1>2. UNCHANGED <<owner, replies, peers, unique_id, pc, gppq, hold, dspq>>
  BY DEF ClientSend, msgqVars, dspVars, peerVars, serverVars
<1>3. SentInv'
  <2> SUFFICES ASSUME NEW d \in Clients, NEW k \in DOMAIN sent'[d]
               PROVE  sent'[d][k].seq = k - 1
    BY DEF SentInv
  <2>1. CASE d = c /\ k = n
    BY <1>1, <2>1
  <2>2. CASE k \in DOMAIN sent[d]
    <3>1. sent'[d][k] = sent[d][k]
      BY ONLY <1>1, <2>2, d \in Clients
    <3>2. sent[d][k].seq = k - 1
      BY <2>2 DEF SentInv
    <3> QED BY ONLY <3>1, <3>2
  <2> QED BY <1>1, <2>1, <2>2
<1>4. \A d \in Clients : AnswersTo(sent[d]) \subseteq AnswersTo(sent'[d])
  <2> SUFFICES ASSUME NEW d \in Clients, NEW a \in AnswersTo(sent[d])
               PROVE  a \in AnswersTo(sent'[d])
    OBVIOUS
  <2>1. PICK k \in DOMAIN sent[d] :
            a = [kind |-> sent[d][k].kind, seq |-> sent[d][k].seq,
                 z |-> Answer(sent[d][k].kind, sent[d][k].arg)]
    BY DEF AnswersTo, Range
  <2>2. k \in DOMAIN sent'[d] /\ sent'[d][k] = sent[d][k]
    BY <1>1
  <2> QED BY <2>1, <2>2 DEF AnswersTo, Range
<1>5. ASSUME NEW k \in DOMAIN sent[c]
      PROVE  sent[c][k].seq < pdu.seq
  <2>1. sent[c][k].seq = k - 1 /\ k \in Nat /\ k < n
    BY <1>1, <1>5 DEF SentInv
  <2> QED BY <1>1, <2>1
<1>6. ASSUME NEW a \in AnswersIn(c)
      PROVE  a.seq < pdu.seq
  <2>1. PICK k \in DOMAIN sent[c] : a.seq = sent[c][k].seq
    BY DEF AnswersIn, AnswersTo, Range
  <2> QED BY <1>5, <2>1
<1>7. RepliesAreAnswers'
  BY <1>2, <1>4 DEF RepliesAreAnswers, AnswersIn
<1>8. /\ toServer[c] \in Seq(Pdus)
      /\ \A j \in DOMAIN toServer'[c] : toServer'[c][j] = pdu
            \/ \E k \in DOMAIN toServer[c] : toServer'[c][j] = toServer[c][k]
  <2> DEFINE t == toServer[c]
  <2>1. t \in Seq(Pdus)
    OBVIOUS
  <2> HIDE DEF t
  <2>2. \A j \in DOMAIN Append(t, pdu) : Append(t, pdu)[j] = pdu
            \/ \E k \in DOMAIN t : Append(t, pdu)[j] = t[k]
    <3>1. pdu \in Pdus
      BY ONLY <1>1
    <3> QED BY ONLY <2>1, <3>1, AppendShape
  <2> QED BY <1>1, <2>1, <2>2 DEF t
<1>9. StreamInv'
  <2> SUFFICES ASSUME NEW d \in Clients
               PROVE  /\ \A j \in DOMAIN toServer'[d] :
                            \E k \in DOMAIN sent'[d] : toServer'[d][j] = sent'[d][k]
                      /\ Rising(toServer'[d])
                      /\ Below(replies'[d], toServer'[d])
    BY DEF StreamInv
  <2>0. /\ \A j \in DOMAIN toServer[d] :
                \E k \in DOMAIN sent[d] : toServer[d][j] = sent[d][k]
        /\ Rising(toServer[d])
        /\ Below(replies[d], toServer[d])
    BY DEF StreamInv
  <2>1. CASE d # c
    <3>1. sent'[d] = sent[d] /\ toServer'[d] = toServer[d] /\ replies' = replies
      BY <1>1, <1>2, <2>1
    <3> QED BY <2>0, <3>1
  <2>2. CASE d = c
    <3>1. \A j \in DOMAIN toServer[c] : toServer[c][j].seq < pdu.seq
      BY <1>5, <2>0, <2>2
    <3>2. Rising(toServer'[c])
      <4> DEFINE t == toServer[c]
      <4>1. t \in Seq(Pdus) /\ Rising(t) /\ \A j \in DOMAIN t : t[j].seq < pdu.seq
        BY <1>8, <2>0, <2>2, <3>1
      <4> HIDE DEF t
      <4>2. Rising(Append(t, pdu))
        BY <1>1, <4>1, RisingAppend
      <4> QED BY <1>1, <4>2 DEF t
    <3>3. \A k \in DOMAIN replies[c] : replies[c][k].seq < pdu.seq
      BY <1>6 DEF RepliesAreAnswers
    <3>4. Below(replies[c], toServer'[c])
      BY <1>8, <2>0, <2>2, <3>3 DEF Below
    <3>5. \A j \in DOMAIN toServer'[c] :
                \E k \in DOMAIN sent'[c] : toServer'[c][j] = sent'[c][k]
      <4> SUFFICES ASSUME NEW j \in DOMAIN toServer'[c]
                   PROVE  \E k \in DOMAIN sent'[c] : toServer'[c][j] = sent'[c][k]
        OBVIOUS
      <4>1. CASE toServer'[c][j] = pdu
        BY <1>1, <4>1
      <4>2. ASSUME NEW l \in DOMAIN toServer[c], toServer'[c][j] = toServer[c][l]
            PROVE  \E k \in DOMAIN sent'[c] : toServer'[c][j] = sent'[c][k]
        <5>1. PICK k \in DOMAIN sent[c] : toServer[c][l] = sent[c][k]
          BY <2>0, <2>2, <4>2
        <5> QED BY <1>1, <4>2, <5>1
      <4> QED BY <1>8, <4>1, <4>2
    <3> QED BY <1>2, <2>2, <3>2, <3>4, <3>5
  <2> QED BY <2>1, <2>2
<1>10. QueueInv'
  <2> SUFFICES ASSUME pc # "stopped", NEW i \in DOMAIN peers
               PROVE  QueuedFor(i)'
    BY <1>2 DEF QueueInv
  <2> DEFINE d == owner[peers[i].sck]
             out == peers[i].out
  <2>1. /\ Rising(out) /\ Below(replies[d], out) /\ Below(out, toServer[d])
        /\ \A k \in DOMAIN out : out[k] \in AnswersIn(d)
    BY DEF QueueInv, QueuedFor
  <2>2. d \in Clients
    BY PeersClient
  <2> HIDE DEF d, out
  <2>3. Below(out, toServer'[d])
    <3>1. CASE d # c
      BY <1>1, <2>1, <2>2, <3>1
    <3>2. CASE d = c
      <4>1. \A k \in DOMAIN out : out[k].seq < pdu.seq
        BY <1>6, <2>1, <3>2
      <4> QED BY <1>8, <2>1, <3>2, <4>1 DEF Below
    <3> QED BY <3>1, <3>2
  <2>4. \A k \in DOMAIN out : out[k] \in AnswersTo(sent'[d])
    BY <1>4, <2>1, <2>2 DEF AnswersIn
  <2> QED BY <1>2, <2>1, <2>3, <2>4 DEF QueuedFor, AnswersIn, d, out
<1>11. ASSUME NEW m, Fits(m)
       PROVE  Fits(m)'
  <2> SUFFICES ASSUME m.subid \in Requests, pc # "stopped",
                      NEW i \in DOMAIN peers, peers[i].id = m.id
               PROVE  Tracked(m, i)'
    BY <1>2, <1>11 DEF Fits
  <2> DEFINE d == owner[peers[i].sck]
             out == peers[i].out
  <2>1. Tracked(m, i)
    BY <1>11 DEF Fits
  <2>2. /\ \E k \in DOMAIN sent[d] :
              m.subid = sent[d][k].kind /\ m.seq = sent[d][k].seq /\ m.arg = sent[d][k].arg
        /\ \A k \in DOMAIN replies[d] : replies[d][k].seq < m.seq
        /\ \A k \in DOMAIN out : out[k].seq < m.seq
        /\ \A k \in DOMAIN toServer[d] : m.seq < toServer[d][k].seq
    BY <2>1 DEF Tracked
  <2>3. d \in Clients
    BY PeersClient
  <2> HIDE DEF d, out
  <2>4. PICK k \in DOMAIN sent[d] :
            m.subid = sent[d][k].kind /\ m.seq = sent[d][k].seq /\ m.arg = sent[d][k].arg
    BY <2>2
  <2>5. k \in DOMAIN sent'[d] /\ sent'[d][k] = sent[d][k]
    BY <1>1, <2>3
  <2>6. \A l \in DOMAIN toServer'[d] : m.seq < toServer'[d][l].seq
    <3>1. CASE d # c
      BY <1>1, <2>2, <2>3, <3>1
    <3>2. CASE d = c
      <4>1. m.seq < pdu.seq
        BY <1>5, <2>4, <3>2
      <4> QED BY <1>8, <2>2, <3>2, <4>1
    <3> QED BY <3>1, <3>2
  <2> QED BY <1>2, <2>2, <2>4, <2>5, <2>6 DEF Tracked, d, out
<1>12. FlightInv'
  BY <1>2, <1>11, StillFlying
<1> QED BY <1>3, <1>7, <1>9, <1>10, <1>12

(* A connection is accepted: nothing under way has the new peer's id.      *)
LEMMA AcceptKeepsLine ==
  ASSUME TInv, LineInv, CheckListen, UNCHANGED hold,
         NEW fd \in FreeFds, NEW c, owner' = [owner EXCEPT ![fd] = c], AddPeer(fd)
  PROVE  LineInv'
<1> USE DEF LineInv
<1> DEFINE n == Len(peers) + 1
           p == NewPeer(fd)
<1>1. /\ pc = "check" /\ pc' = "read"
      /\ UNCHANGED <<sent, replies, toServer, gppq, dspq>>
  BY DEF CheckListen, msgqVars
<1>2. /\ fd \in Fds /\ owner[fd] = None
      /\ unique_id' = unique_id + 1 /\ peers' = Append(peers, p)
  BY DEF FreeFds, AddPeer
<1>3. p \in Peers /\ p.id = unique_id + 1 /\ p.sck = fd /\ p.out = <<>>
  BY <1>2, EmptySeq DEF NewPeer, Peers
<1> HIDE DEF p, n
<1>4. /\ peers'[n] = p
      /\ \A i \in DOMAIN peers : peers'[i] = peers[i]
      /\ \A i \in DOMAIN peers' : i \in DOMAIN peers \/ i = n
  BY <1>2, <1>3, AppendShape DEF n
<1>5. \A i \in DOMAIN peers : owner'[peers[i].sck] = owner[peers[i].sck]
  BY <1>1, <1>2, PeersClient
<1>6. SentInv' /\ StreamInv' /\ RepliesAreAnswers'
  BY <1>1 DEF SentInv, StreamInv, RepliesAreAnswers, AnswersIn
<1>7. QueueInv'
  <2> SUFFICES ASSUME NEW i \in DOMAIN peers'
               PROVE  QueuedFor(i)'
    BY DEF QueueInv
  <2>1. CASE i \in DOMAIN peers
    <3>1. QueuedFor(i)
      BY <1>1, <2>1 DEF QueueInv
    <3>2. owner'[peers'[i].sck] = owner[peers[i].sck] /\ peers'[i] = peers[i]
      BY <1>4, <1>5, <2>1
    <3> QED BY <1>1, <3>1, <3>2 DEF QueuedFor, AnswersIn
  <2>2. CASE i = n
    <3>1. peers'[i].out = <<>>
      BY <1>3, <1>4, <2>2
    <3> QED BY <3>1, NoElement DEF QueuedFor, Rising, Below
  <2> QED BY <1>4, <2>1, <2>2
<1>8. ASSUME NEW m \in Messages, Fits(m)
      PROVE  Fits(m)'
  <2> SUFFICES ASSUME m.subid \in Requests
               PROVE  /\ m.id <= unique_id'
                      /\ \A i \in DOMAIN peers' : peers'[i].id = m.id => Tracked(m, i)'
    BY DEF Fits
  <2>1. m.id \in Nat /\ m.id <= unique_id
    BY <1>8 DEF Fits, Messages
  <2>2. m.id <= unique_id' /\ m.id # unique_id + 1
    BY <1>2, <2>1
  <2>3. ASSUME NEW i \in DOMAIN peers', peers'[i].id = m.id
        PROVE  Tracked(m, i)'
    <3>1. i \in DOMAIN peers
      BY <1>3, <1>4, <2>2, <2>3
    <3>2. peers'[i] = peers[i] /\ owner'[peers'[i].sck] = owner[peers[i].sck]
      BY <1>4, <1>5, <3>1
    <3>3. Tracked(m, i)
      BY <1>1, <1>8, <2>3, <3>1, <3>2 DEF Fits
    <3> QED BY <1>1, <3>2, <3>3 DEF Tracked
  <2> QED BY <2>2, <2>3
<1>9. FlightInv'
  BY <1>1, <1>8, StillFlying
<1> QED BY <1>6, <1>7, <1>9

(* A reply is written: it becomes the last its client was sent.            *)
LEMMA WriteKeepsLine ==
  ASSUME TInv, OwnersInv, LineInv, WriteReply, UNCHANGED hold
  PROVE  LineInv'
<1> USE DEF LineInv
<1>1. /\ pc = "write" /\ AtPeer /\ This.out # <<>> /\ pc' = "read"
      /\ UNCHANGED <<sent, toServer, owner, unique_id, gppq, dspq>>
  BY DEF WriteReply, Writing, Advance, PeersInv, msgqVars
<1> DEFINE c == Conn
           out == This.out
           r == Head(out)
<1>2. /\ cursor \in DOMAIN peers /\ This \in Peers /\ c \in Clients /\ DOMAIN peers = 1..Len(peers)
      /\ This = peers[cursor] /\ c = owner[peers[cursor].sck]
  BY <1>1, ThisPeer DEF This, Conn
<1>3. out \in Seq(Replies) /\ out # <<>> /\ replies[c] \in Seq(Replies)
  BY <1>1, <1>2 DEF Peers
<1>4. /\ replies' = [replies EXCEPT ![c] = Append(replies[c], r)]
      /\ peers' = [peers EXCEPT ![cursor] = [This EXCEPT !.out = Tail(out)]]
  BY DEF WriteReply, This
<1>5. /\ replies'[c] = Append(replies[c], r)
      /\ \A d \in Clients : d # c => replies'[d] = replies[d]
      /\ DOMAIN peers' = DOMAIN peers
      /\ \A i \in DOMAIN peers : peers'[i].id = peers[i].id /\ peers'[i].sck = peers[i].sck
      /\ \A i \in DOMAIN peers : i # cursor => peers'[i].out = peers[i].out
      /\ peers'[cursor].out = Tail(out)
  BY <1>2, <1>4 DEF Peers
<1>6. \A i \in DOMAIN peers : i # cursor => owner[peers[i].sck] # c
  <2> SUFFICES ASSUME NEW i \in DOMAIN peers, i # cursor
               PROVE  owner[peers[i].sck] # c
    OBVIOUS
  <2>1. peers[i].sck # peers[cursor].sck
    BY <1>2 DEF PeersInv
  <2>2. peers[i].sck \in Fds /\ peers[cursor].sck \in Fds /\ owner[peers[i].sck] # None
    BY <1>1, <1>2, PeersClient
  <2> QED BY <1>2, <2>1, <2>2 DEF OwnersInv
<1>7. /\ Rising(out) /\ Below(replies[c], out) /\ Below(out, toServer[c])
      /\ \A k \in DOMAIN out : out[k] \in AnswersIn(c)
  BY <1>1, <1>2 DEF QueueInv, QueuedFor
<1>8. /\ 1 \in DOMAIN out /\ r = out[1] /\ r \in Replies
      /\ Rising(Tail(out))
      /\ \A k \in DOMAIN Tail(out) : r.seq < Tail(out)[k].seq
      /\ \A k \in DOMAIN Tail(out) : k + 1 \in DOMAIN out /\ Tail(out)[k] = out[k + 1]
  <2> HIDE DEF out
  <2> QED BY <1>3, <1>7, TailShape, RisingTail
<1>9. /\ Rising(replies[c]) /\ Below(replies[c], toServer[c])
      /\ \A i \in DOMAIN replies[c] : replies[c][i] \in AnswersIn(c)
  BY <1>2 DEF RepliesAreAnswers, StreamInv, Rising
<1> DEFINE old == replies[c]
           new == replies'[c]
           rest == Tail(out)
<1> HIDE DEF c, r
<1>10. /\ Rising(new)
       /\ \A k \in DOMAIN new : new[k] = r \/ \E l \in DOMAIN old : new[k] = old[l]
  <2>1. \A k \in DOMAIN old : old[k].seq < r.seq
    BY <1>7, <1>8 DEF Below
  <2>2. old \in Seq(Replies) /\ new = Append(old, r) /\ Rising(old) /\ r \in Replies
    BY <1>3, <1>5, <1>8, <1>9
  <2> HIDE DEF old, new
  <2> QED BY <2>1, <2>2, RisingAppend, AppendShape
<1> HIDE DEF out, rest
<1>11. RepliesAreAnswers'
  <2> SUFFICES ASSUME NEW d \in Clients
               PROVE  /\ \A i \in DOMAIN replies'[d] : replies'[d][i] \in AnswersTo(sent'[d])
                      /\ Rising(replies'[d])
    BY DEF RepliesAreAnswers, AnswersIn, Rising
  <2>1. CASE d = c
    <3>1. r \in AnswersIn(c)
      BY <1>7, <1>8
    <3>2. \A i \in DOMAIN new : new[i] \in AnswersIn(c)
      BY <1>9, <1>10, <3>1
    <3> QED BY <1>1, <1>10, <2>1, <3>2 DEF AnswersIn
  <2>2. CASE d # c
    BY <1>1, <1>5, <2>2 DEF RepliesAreAnswers, AnswersIn, Rising
  <2> QED BY <2>1, <2>2
<1>12. StreamInv'
  <2> SUFFICES ASSUME NEW d \in Clients
               PROVE  Below(replies'[d], toServer[d])
    BY <1>1 DEF StreamInv
  <2>1. CASE d = c
    <3>1. \A k \in DOMAIN toServer[c] : r.seq < toServer[c][k].seq
      BY <1>7, <1>8 DEF Below
    <3> QED BY <1>9, <1>10, <2>1, <3>1 DEF Below
  <2>2. CASE d # c
    BY <1>5, <2>2 DEF StreamInv
  <2> QED BY <2>1, <2>2
<1>13. QueueInv'
  <2> SUFFICES ASSUME NEW i \in DOMAIN peers
               PROVE  QueuedFor(i)'
    BY <1>5 DEF QueueInv
  <2>1. CASE i = cursor
    <3>1. owner'[peers'[i].sck] = c /\ peers'[i].out = rest
      BY <1>1, <1>2, <1>5, <2>1 DEF rest
    <3>2. Rising(rest) /\ \A k \in DOMAIN rest : r.seq < rest[k].seq
      BY <1>8 DEF rest
    <3>3. \A k \in DOMAIN rest : \E l \in DOMAIN out : rest[k] = out[l]
      BY <1>8 DEF rest
    <3>a. \A l \in DOMAIN old, k \in DOMAIN rest : old[l].seq < rest[k].seq
      BY <1>7, <3>3 DEF Below
    <3>4. Below(new, rest)
      <4> HIDE DEF old, new
      <4> QED BY <1>10, <3>2, <3>a DEF Below
    <3>5. Below(rest, toServer[c])
      BY <1>7, <3>3 DEF Below
    <3>6. \A k \in DOMAIN rest : rest[k] \in AnswersTo(sent'[c])
      BY <1>1, <1>7, <3>3 DEF AnswersIn
    <3> QED BY <1>1, <3>1, <3>2, <3>4, <3>5, <3>6 DEF QueuedFor, AnswersIn
  <2>2. CASE i # cursor
    <3>1. QueuedFor(i)
      BY <1>1 DEF QueueInv
    <3>2. owner'[peers'[i].sck] = owner[peers[i].sck] /\ peers'[i].out = peers[i].out
      BY <1>1, <1>5, <2>2
    <3>3. replies'[owner[peers[i].sck]] = replies[owner[peers[i].sck]]
      BY <1>1, <1>5, <1>6, <2>2, PeersClient
    <3> QED BY <1>1, <3>1, <3>2, <3>3 DEF QueuedFor, AnswersIn
  <2> QED BY <2>1, <2>2
<1>14. ASSUME NEW m \in Messages, Fits(m)
       PROVE  Fits(m)'
  <2> SUFFICES ASSUME m.subid \in Requests, NEW i \in DOMAIN peers, peers[i].id = m.id
               PROVE  Tracked(m, i)'
    BY <1>1, <1>5, <1>14 DEF Fits
  <2>0. Tracked(m, i)
    BY <1>1, <1>14 DEF Fits
  <2>1. CASE i = cursor
    <3>1. owner'[peers'[i].sck] = c /\ peers'[i].out = rest /\ owner[peers[i].sck] = c
          /\ peers[i].out = out
      BY <1>1, <1>2, <1>5, <2>1 DEF rest, out
    <3>2. /\ \E k \in DOMAIN sent[c] :
                m.subid = sent[c][k].kind /\ m.seq = sent[c][k].seq /\ m.arg = sent[c][k].arg
          /\ \A k \in DOMAIN replies[c] : replies[c][k].seq < m.seq
          /\ \A k \in DOMAIN out : out[k].seq < m.seq
          /\ \A k \in DOMAIN toServer[c] : m.seq < toServer[c][k].seq
      BY <2>0, <3>1 DEF Tracked
    <3>3. \A k \in DOMAIN rest : \E l \in DOMAIN out : rest[k] = out[l]
      BY <1>8 DEF rest
    <3>4. \A k \in DOMAIN rest : rest[k].seq < m.seq
      BY <3>2, <3>3
    <3>5. \A k \in DOMAIN new : new[k].seq < m.seq
      BY <1>8, <1>10, <3>2
    <3> QED BY <1>1, <3>1, <3>2, <3>4, <3>5 DEF Tracked
  <2>2. CASE i # cursor
    <3>1. owner'[peers'[i].sck] = owner[peers[i].sck] /\ peers'[i].out = peers[i].out
      BY <1>1, <1>5, <2>2
    <3>2. replies'[owner[peers[i].sck]] = replies[owner[peers[i].sck]]
      BY <1>1, <1>5, <1>6, <2>2, PeersClient
    <3> QED BY <1>1, <2>0, <3>1, <3>2 DEF Tracked
  <2> QED BY <2>1, <2>2
<1>15. FlightInv'
  BY <1>1, <1>14, StillFlying
<1>16. SentInv'
  BY <1>1 DEF SentInv
<1> QED BY <1>11, <1>12, <1>13, <1>15, <1>16

(* The server forwards a request: nothing of its peer's that is under way  *)
(* comes after it.                                                         *)
LEMMA ForwardFits ==
  ASSUME TInv, LineInv, Reading, toServer[Conn] # <<>>,
         NEW pdu \in Pdus, pdu = Head(toServer[Conn]),
         NEW m \in Messages, m = Forward(pdu),
         AfterRead("header"), TakePdu
  PROVE  /\ Fits(m)'
         /\ \A n \in Messages : Fits(n) => InTurn(n, m)
<1> USE DEF LineInv
<1> DEFINE c == Conn
           s == toServer[c]
<1>1. /\ pc = "read" /\ pc' = "write" /\ AtPeer
      /\ UNCHANGED <<sent, replies, owner, unique_id>>
      /\ peers' = [peers EXCEPT ![cursor].in = "header"]
      /\ toServer' = [toServer EXCEPT ![c] = Tail(@)]
  BY DEF Reading, AfterRead, TakePdu
<1>2. /\ cursor \in DOMAIN peers /\ This \in Peers /\ c \in Clients
      /\ This = peers[cursor] /\ c = owner[peers[cursor].sck]
  BY <1>1, ThisPeer DEF This, Conn
<1>3. /\ DOMAIN peers' = DOMAIN peers
      /\ \A i \in DOMAIN peers : /\ peers'[i].id = peers[i].id /\ peers'[i].sck = peers[i].sck
                                 /\ peers'[i].out = peers[i].out
  <2>1. \A i \in DOMAIN peers : peers[i] \in Peers
    BY <1>1, PeersClient
  <2> QED BY <1>1, <1>2, <2>1 DEF Peers
<1>4. /\ m.id = peers[cursor].id /\ m.seq = pdu.seq /\ m.arg = pdu.arg /\ m.subid = pdu.kind
  BY <1>2 DEF Forward, Msg
<1>5. s \in Seq(Pdus) /\ s # <<>> /\ toServer'[c] = Tail(s) /\ pdu = Head(s)
  BY <1>1, <1>2
<1>6. /\ \A j \in DOMAIN s : \E k \in DOMAIN sent[c] : s[j] = sent[c][k]
      /\ Rising(s) /\ Below(replies[c], s)
  BY <1>2 DEF StreamInv
<1>7. Below(peers[cursor].out, s)
  BY <1>1, <1>2 DEF QueueInv, QueuedFor
<1> HIDE DEF c, s
<1>8. /\ 1 \in DOMAIN s /\ pdu = s[1]
      /\ \A j \in DOMAIN Tail(s) : pdu.seq < Tail(s)[j].seq
  BY <1>5, <1>6, TailShape, RisingTail
<1>9. Fits(m)'
  <2>1. m.id <= unique_id'
    BY <1>1, <1>2, <1>4 DEF PeersInv
  <2>2. ASSUME NEW i \in DOMAIN peers, peers[i].id = m.id
        PROVE  Tracked(m, i)'
    <3>1. i = cursor
      BY <1>2, <1>4, <2>2 DEF PeersInv
    <3>2. owner'[peers'[i].sck] = c /\ peers'[i].out = peers[cursor].out
      BY <1>1, <1>2, <1>3, <3>1
    <3>3. PICK l \in DOMAIN sent[c] : pdu = sent[c][l]
      BY <1>6, <1>8
    <3>4. \A k \in DOMAIN replies[c] : replies[c][k].seq < m.seq
      BY <1>4, <1>6, <1>8 DEF Below
    <3>5. \A k \in DOMAIN peers[cursor].out : peers[cursor].out[k].seq < m.seq
      BY <1>4, <1>7, <1>8 DEF Below
    <3>6. \A k \in DOMAIN toServer'[c] : m.seq < toServer'[c][k].seq
      BY <1>4, <1>5, <1>8
    <3>7. \E k \in DOMAIN sent'[c] :
              m.subid = sent'[c][k].kind /\ m.seq = sent'[c][k].seq /\ m.arg = sent'[c][k].arg
      BY ONLY <1>1, <1>4, <3>3
    <3>8. /\ \A k \in DOMAIN replies'[c] : replies'[c][k].seq < m.seq
          /\ \A k \in DOMAIN peers'[i].out : peers'[i].out[k].seq < m.seq
      BY ONLY <1>1, <3>2, <3>4, <3>5
    <3> QED BY ONLY <3>2, <3>6, <3>7, <3>8 DEF Tracked
  <2> QED BY <1>1, <1>3, <2>1, <2>2 DEF Fits
<1>10. ASSUME NEW n \in Messages, Fits(n)
       PROVE  InTurn(n, m)
  <2> SUFFICES ASSUME n.subid \in Requests, n.id = m.id
               PROVE  n.seq < m.seq
    BY DEF InTurn, SamePeer
  <2>1. Tracked(n, cursor)
    BY <1>1, <1>2, <1>4, <1>10 DEF Fits
  <2>2. \A k \in DOMAIN s : n.seq < s[k].seq
    BY <1>2, <2>1 DEF Tracked, s
  <2> QED BY <1>4, <1>8, <2>2
<1> QED BY <1>9, <1>10

(* Removing a peer leaves the others, with their clients.                  *)
LEMMA OthersStay ==
  ASSUME TInv, pc # "stopped", AtPeer, RemoveThis
  PROVE  \A i \in DOMAIN peers' : \E j \in DOMAIN peers :
            /\ j # cursor /\ peers'[i] = peers[j]
            /\ owner'[peers[j].sck] = owner[peers[j].sck]
<1>1. /\ cursor \in 1..Len(peers) /\ Len(peers) \in Nat /\ DOMAIN peers = 1..Len(peers)
      /\ This = peers[cursor] /\ This.sck \in Fds
  BY ThisPeer DEF This
<1>2. peers' = RemoveAt(peers, cursor) /\ owner' = [owner EXCEPT ![This.sck] = None]
  BY DEF RemoveThis
<1>3. /\ DOMAIN peers' = 1..(Len(peers) - 1)
      /\ \A j \in 1..(Len(peers) - 1) :
            peers'[j] = IF j < cursor THEN peers[j] ELSE peers[j + 1]
  <2>1. /\ peers' \in Seq(Peers) /\ Len(peers') = Len(peers) - 1
        /\ \A j \in 1..(Len(peers) - 1) :
              peers'[j] = IF j < cursor THEN peers[j] ELSE peers[j + 1]
    <3>1. peers \in Seq(Peers)
      OBVIOUS
    <3> QED BY ONLY <1>1, <1>2, <3>1, RemoveAtProperties
  <2> QED BY <2>1, LenProperties
<1>4. ASSUME NEW i \in DOMAIN peers'
      PROVE  \E j \in DOMAIN peers : j # cursor /\ peers'[i] = peers[j]
  <2>1. CASE i < cursor
    <3>0. i \in 1..(Len(peers) - 1) /\ i \in 1..Len(peers) /\ cursor \in Nat
      BY ONLY <1>1, <1>3, <1>4
    <3>1. i \in DOMAIN peers /\ i # cursor /\ peers'[i] = peers[i]
      BY ONLY <1>1, <1>3, <2>1, <3>0
    <3> QED BY <3>1
  <2>2. CASE ~(i < cursor)
    <3>0. i \in 1..(Len(peers) - 1) /\ i + 1 \in 1..Len(peers) /\ cursor \in Nat
      BY ONLY <1>1, <1>3, <1>4
    <3>1. i + 1 \in DOMAIN peers /\ i + 1 # cursor /\ peers'[i] = peers[i + 1]
      BY ONLY <1>1, <1>3, <2>2, <3>0
    <3> QED BY <3>1
  <2> QED BY <2>1, <2>2
<1>5. \A j \in DOMAIN peers : j # cursor => owner'[peers[j].sck] = owner[peers[j].sck]
  <2>1. \A j \in DOMAIN peers : peers[j].sck \in Fds
    BY PeersClient
  <2>2. \A j \in DOMAIN peers : j # cursor => peers[j].sck # This.sck
    BY <1>1 DEF PeersInv
  <2> QED BY <1>1, <1>2, <2>1, <2>2
<1>6. ASSUME NEW i \in DOMAIN peers'
      PROVE  \E j \in DOMAIN peers :
                /\ j # cursor /\ peers'[i] = peers[j]
                /\ owner'[peers[j].sck] = owner[peers[j].sck]
  <2>1. PICK j \in DOMAIN peers : j # cursor /\ peers'[i] = peers[j]
    BY <1>4
  <2>2. owner'[peers[j].sck] = owner[peers[j].sck]
    BY <1>5, <2>1
  <2> QED BY <2>1, <2>2
<1> QED BY <1>6

LEMMA ReadsShrink ==
  ASSUME TInv, pc \in {"read", "write"}, AtPeer,
         UNCHANGED <<sent, replies, unique_id>>,
         \/ \E in \in {"none", "header", "payload"} : AfterRead(in)
         \/ RemoveThis,
         \/ LeavePdu
         \/ toServer[Conn] # <<>> /\ TakePdu
  PROVE  Shrinks
<1>1. pc # "stopped" /\ AtPeer
  OBVIOUS
<1>2. /\ cursor \in DOMAIN peers /\ This \in Peers /\ This = peers[cursor] /\ Conn \in Clients
      /\ cursor \in 1..Len(peers) /\ Len(peers) \in Nat /\ DOMAIN peers = 1..Len(peers)
  BY <1>1, ThisPeer DEF This
<1>3. \A c \in Clients :
        \/ toServer'[c] = toServer[c]
        \/ toServer[c] # <<>> /\ toServer'[c] = Tail(toServer[c])
  BY <1>2 DEF LeavePdu, TakePdu
<1>4. \A i \in DOMAIN peers : peers[i] \in Peers
  BY <1>1, PeersClient
<1>5. ASSUME NEW in, AfterRead(in)
      PROVE  \A i \in DOMAIN peers' : \E j \in DOMAIN peers :
                /\ peers'[i].id = peers[j].id
                /\ peers'[i].out = peers[j].out
                /\ owner'[peers'[i].sck] = owner[peers[j].sck]
  <2>1. owner' = owner /\ peers' = [peers EXCEPT ![cursor].in = in]
    BY <1>5 DEF AfterRead
  <2>2. /\ DOMAIN peers' = DOMAIN peers
        /\ \A i \in DOMAIN peers : /\ peers'[i].id = peers[i].id /\ peers'[i].sck = peers[i].sck
                                   /\ peers'[i].out = peers[i].out
    BY <1>2, <1>4, <2>1 DEF Peers
  <2> QED BY <2>1, <2>2
<1>6. CASE RemoveThis
  <2>1. \A i \in DOMAIN peers' : \E j \in DOMAIN peers :
                /\ peers'[i].id = peers[j].id
                /\ peers'[i].out = peers[j].out
                /\ owner'[peers'[i].sck] = owner[peers[j].sck]
    <3> SUFFICES ASSUME NEW i \in DOMAIN peers'
                 PROVE  \E j \in DOMAIN peers :
                            /\ peers'[i].id = peers[j].id
                            /\ peers'[i].out = peers[j].out
                            /\ owner'[peers'[i].sck] = owner[peers[j].sck]
      OBVIOUS
    <3>1. PICK j \in DOMAIN peers :
            /\ j # cursor /\ peers'[i] = peers[j]
            /\ owner'[peers[j].sck] = owner[peers[j].sck]
      BY <1>1, <1>6, OthersStay
    <3> QED BY ONLY <3>1, Zenon
  <2> QED BY <1>3, <2>1 DEF Shrinks
<1> QED BY <1>3, <1>5, <1>6 DEF Shrinks

LEMMA ShrinkingKeepsLine ==
  ASSUME TInv, LineInv, pc # "stopped", Shrinks, UNCHANGED <<gppq, hold, dspq>>
  PROVE  LineInv'
BY ShrinkKeepsLine, StillFlying DEF LineInv

LEMMA RequestKeepsLine ==
  ASSUME TInv, LineInv, ReadRequest, UNCHANGED hold
  PROVE  LineInv'
<1> USE DEF LineInv
<1>1. /\ Reading /\ toServer[Conn] # <<>> /\ TakePdu /\ pc # "stopped"
      /\ Head(toServer[Conn]) \in Pdus /\ Head(toServer[Conn]).kind \in Requests
  BY TakeTyped DEF ReadRequest, ReadingPdu, Reading
<1>a. PICK pdu \in Pdus : pdu = Head(toServer[Conn])
  BY <1>1
<1>2. PICK m \in Messages : m = Forward(pdu)
  BY <1>1, <1>a, ForwardTyped
<1>3. CASE SendCounted(m) /\ AfterRead("header")
  <2>1. Fits(m)' /\ \A n \in Messages : Fits(n) => InTurn(n, m)
    BY <1>1, <1>a, <1>2, <1>3, ForwardFits
  <2>2. Shrinks
    BY <1>1, <1>3, ReadsShrink DEF AfterRead, Reading
  <2>3. /\ SentInv' /\ StreamInv' /\ RepliesAreAnswers' /\ QueueInv'
        /\ \A n : Fits(n) => Fits(n)'
    BY <1>1, <2>2, ShrinkKeepsLine
  <2>4. dspq' = Append(dspq, m) /\ gppq' = gppq
    BY <1>3 DEF SendCounted, AllocAndPut
  <2>5. /\ \A k \in DOMAIN gppq : InTurn(gppq[k], m)
        /\ \A k \in DOMAIN hold : InTurn(hold[k], m)
        /\ \A k \in DOMAIN dspq : InTurn(dspq[k], m)
    BY <2>1, MessagesTyped DEF FlightInv, AllFit
  <2>6. FlightInv'
    BY <1>2, <2>1, <2>3, <2>4, <2>5, SendKeepsFlight
  <2> QED BY <2>3, <2>6
<1>4. CASE SendFails /\ RemoveThis
  <2>1. UNCHANGED <<gppq, dspq>>
    BY <1>4 DEF SendFails, AllocOrPutFails, msgqVars
  <2>2. Shrinks
    BY <1>1, <1>4, ReadsShrink DEF RemoveThis, Reading
  <2> QED BY <1>1, <2>1, <2>2, ShrinkingKeepsLine
<1> QED BY <1>a, <1>2, <1>3, <1>4 DEF ReadRequest


(* The server takes a message off its queue. Of what is still under way    *)
(* only what comes after it fits, if the message becomes a queued reply.   *)
LEMMA TakeKeepsFlight ==
  ASSUME TInv, FlightInv, gppq # <<>>, NEW m \in Messages, m = Head(gppq),
         gppq' = Tail(gppq), UNCHANGED <<hold, dspq>>,
         \A n \in Messages : InTurn(m, n) /\ Fits(n) => Fits(n)'
  PROVE  FlightInv'
<1>1. /\ \E k \in DOMAIN gppq : m = gppq[k]
      /\ \A i \in DOMAIN gppq' : \E k \in DOMAIN gppq : gppq'[i] = gppq[k]
  <2>1. gppq \in Seq(Messages) /\ gppq # <<>> /\ gppq' = Tail(gppq) /\ m = Head(gppq)
    OBVIOUS
  <2> QED BY ONLY <2>1, TailElements
<1>2. Ordered(gppq') /\ \A j \in DOMAIN gppq' : InTurn(m, gppq'[j])
  <2>1. gppq \in Seq(Messages) /\ gppq # <<>> /\ gppq' = Tail(gppq) /\ m = Head(gppq)
        /\ Ordered(gppq)
    BY DEF FlightInv, OrderInv
  <2> QED BY ONLY <2>1, OrderedTail
<1>3. /\ \A j \in DOMAIN hold : InTurn(m, hold[j])
      /\ \A j \in DOMAIN dspq : InTurn(m, dspq[j])
  BY <1>1 DEF FlightInv, OrderInv, Precedes
<1>4. AllFit(hold)' /\ AllFit(dspq)'
  BY <1>3, MessagesTyped DEF FlightInv, AllFit
<1>5. AllFit(gppq)'
  <2> SUFFICES ASSUME NEW i \in DOMAIN gppq'
               PROVE  Fits(gppq[i])'
    BY DEF AllFit
  <2>1. PICK k \in DOMAIN gppq : gppq'[i] = gppq[k]
    BY <1>1
  <2>2. PICK n \in Messages : n = gppq[k]
    BY MessagesTyped
  <2>3. Fits(n)
    BY <2>2 DEF FlightInv, AllFit
  <2>4. InTurn(m, n)
    BY <1>2, <2>1, <2>2
  <2>5. Fits(n)'
    BY <2>3, <2>4
  <2> QED BY <2>1, <2>2, <2>5
<1>6. \A i \in DOMAIN gppq' : Solved(gppq'[i])
  BY <1>1 DEF FlightInv
<1>7. Precedes(gppq', hold') /\ Precedes(gppq', dspq')
  BY <1>1 DEF FlightInv, OrderInv, Precedes
<1>8. OrderInv'
  BY <1>2, <1>7 DEF FlightInv, OrderInv
<1> QED BY <1>4, <1>5, <1>6, <1>8 DEF FlightInv

LEMMA QueuedShape ==
  ASSUME TInv, pc # "stopped", NEW m \in Messages, peers' = Queued(m)
  PROVE  /\ DOMAIN peers' = DOMAIN peers
         /\ \A i \in DOMAIN peers :
                /\ peers'[i].id = peers[i].id /\ peers'[i].sck = peers[i].sck
                /\ \/ peers'[i].out = peers[i].out
                   \/ /\ peers[i].id = m.id
                      /\ peers'[i].out = Append(peers[i].out, Reply(m))
<1>1. \A i \in DOMAIN peers : peers[i] \in Peers
  BY PeersClient
<1>2. ASSUME NEW i \in DOMAIN peers
      PROVE  \/ peers'[i] = peers[i]
             \/ /\ peers[i].id = m.id
                /\ peers'[i] = [peers[i] EXCEPT !.out = Append(peers[i].out, Reply(m))]
  BY <1>2 DEF Queued
<1>3. DOMAIN peers' = DOMAIN peers
  BY DEF Queued
<1>4. ASSUME NEW i \in DOMAIN peers
      PROVE  /\ peers'[i].id = peers[i].id /\ peers'[i].sck = peers[i].sck
             /\ \/ peers'[i].out = peers[i].out
                \/ /\ peers[i].id = m.id
                   /\ peers'[i].out = Append(peers[i].out, Reply(m))
  <2>1. CASE peers'[i] = peers[i]
    BY <2>1
  <2> DEFINE out == Append(peers[i].out, Reply(m))
  <2>2. CASE peers[i].id = m.id /\ peers'[i] = [peers[i] EXCEPT !.out = out]
    <3> HIDE DEF out
    <3>1. peers[i] \in Peers
      BY <1>1
    <3>2. /\ peers'[i].id = peers[i].id /\ peers'[i].sck = peers[i].sck
          /\ peers'[i].out = out
      BY <2>2, <3>1 DEF Peers
    <3> QED BY <2>2, <3>2 DEF out
  <2> QED BY <1>2, <2>1, <2>2
<1> QED BY <1>3, <1>4

LEMMA QueuedKeepsQueues ==
  ASSUME TInv, QueueInv, pc # "stopped",
         NEW m \in Messages, m.subid \in Requests, Fits(m), Solved(m), peers' = Queued(m),
         UNCHANGED <<sent, replies, toServer, owner, unique_id>>
  PROVE  /\ QueueInv'
         /\ \A n \in Messages : InTurn(m, n) /\ Fits(n) => Fits(n)'
<1> DEFINE r == Reply(m)
<1>1. /\ DOMAIN peers' = DOMAIN peers
      /\ \A i \in DOMAIN peers :
            /\ peers'[i].id = peers[i].id /\ peers'[i].sck = peers[i].sck
            /\ \/ peers'[i].out = peers[i].out
               \/ peers[i].id = m.id /\ peers'[i].out = Append(peers[i].out, r)
  BY QueuedShape
<1>2. r \in Replies /\ r.seq = m.seq /\ r = [kind |-> m.subid, seq |-> m.seq, z |-> Answer(m.subid, m.arg)]
  BY DEF Reply, Replies, Messages, Solved
<1> HIDE DEF r
<1>3. ASSUME NEW i \in DOMAIN peers, peers[i].id = m.id,
             peers'[i].out = Append(peers[i].out, r)
      PROVE  /\ \A k \in DOMAIN peers'[i].out : peers'[i].out[k] = r
                    \/ \E l \in DOMAIN peers[i].out : peers'[i].out[k] = peers[i].out[l]
             /\ Rising(peers[i].out) => Rising(peers'[i].out)
  <2> DEFINE out == peers[i].out
  <2>1. out \in Seq(Replies)
    BY PeersClient
  <2>2. \A k \in DOMAIN out : out[k].seq < r.seq
    BY <1>2, <1>3 DEF Fits, Tracked
  <2> HIDE DEF out
  <2>3. /\ \A k \in DOMAIN Append(out, r) : Append(out, r)[k] = r
                \/ \E l \in DOMAIN out : Append(out, r)[k] = out[l]
        /\ Rising(out) => Rising(Append(out, r))
    BY <1>2, <2>1, <2>2, AppendShape, RisingAppend
  <2> QED BY <1>3, <2>3 DEF out
<1>4. QueueInv'
  <2> SUFFICES ASSUME NEW i \in DOMAIN peers
               PROVE  QueuedFor(i)'
    BY <1>1 DEF QueueInv
  <2>1. QueuedFor(i)
    BY DEF QueueInv
  <2> DEFINE c == owner[peers[i].sck]
             out == peers[i].out
             new == peers'[i].out
  <2>2. /\ Rising(out) /\ Below(replies[c], out) /\ Below(out, toServer[c])
        /\ \A k \in DOMAIN out : out[k] \in AnswersTo(sent[c])
    BY <2>1 DEF QueuedFor, AnswersIn
  <2>3. c = owner'[peers'[i].sck]
    BY <1>1
  <2>4. CASE new = out
    BY <2>2, <2>3, <2>4 DEF QueuedFor, AnswersIn
  <2>5. CASE peers[i].id = m.id /\ new = Append(out, r)
    <3>1. Tracked(m, i)
      BY <2>5 DEF Fits
    <3>2. /\ \E k \in DOMAIN sent[c] :
                m.subid = sent[c][k].kind /\ m.seq = sent[c][k].seq /\ m.arg = sent[c][k].arg
          /\ \A k \in DOMAIN replies[c] : replies[c][k].seq < m.seq
          /\ \A k \in DOMAIN toServer[c] : m.seq < toServer[c][k].seq
      BY <3>1 DEF Tracked
    <3>3. /\ \A k \in DOMAIN new : new[k] = r \/ \E l \in DOMAIN out : new[k] = out[l]
          /\ Rising(new)
      BY <1>3, <2>2, <2>5
    <3> HIDE DEF c, out, new
    <3>4. r \in AnswersTo(sent[c])
      BY <1>2, <3>2 DEF AnswersTo, Range
    <3>5. \A k \in DOMAIN new : new[k] \in AnswersTo(sent[c])
      BY <2>2, <3>3, <3>4
    <3>6. Below(replies[c], new) /\ Below(new, toServer[c])
      BY <1>2, <2>2, <3>2, <3>3 DEF Below
    <3>7. /\ owner'[peers'[i].sck] = c /\ peers'[i].out = new
          /\ sent'[c] = sent[c] /\ replies'[c] = replies[c] /\ toServer'[c] = toServer[c]
      BY <2>3 DEF new
    <3> QED BY <3>3, <3>5, <3>6, <3>7 DEF QueuedFor, AnswersIn
  <2> QED BY <1>1, <2>4, <2>5
<1>5. ASSUME NEW n \in Messages, InTurn(m, n), Fits(n)
      PROVE  Fits(n)'
  <2> SUFFICES ASSUME n.subid \in Requests
               PROVE  /\ n.id <= unique_id
                      /\ \A i \in DOMAIN peers : peers[i].id = n.id => Tracked(n, i)'
    BY <1>1 DEF Fits
  <2>1. n.id <= unique_id
    BY <1>5 DEF Fits
  <2>2. ASSUME NEW i \in DOMAIN peers, peers[i].id = n.id
        PROVE  Tracked(n, i)'
    <3>1. Tracked(n, i) /\ owner'[peers'[i].sck] = owner[peers[i].sck]
      BY <1>1, <1>5, <2>2 DEF Fits
    <3>2. CASE peers'[i].out = peers[i].out
      BY <3>1, <3>2 DEF Tracked
    <3>3. CASE peers[i].id = m.id /\ peers'[i].out = Append(peers[i].out, r)
      <4>1. r.seq < n.seq
        BY <1>2, <1>5, <2>2, <3>3 DEF InTurn, SamePeer
      <4>2. \A k \in DOMAIN peers[i].out : peers[i].out[k].seq < n.seq
        BY <3>1 DEF Tracked
      <4>3. \A k \in DOMAIN peers'[i].out : peers'[i].out[k].seq < n.seq
        BY <1>3, <3>3, <4>1, <4>2
      <4> QED BY <3>1, <4>3 DEF Tracked
    <3> QED BY <1>1, <3>2, <3>3
  <2> QED BY <2>1, <2>2
<1> QED BY <1>4, <1>5

LEMMA ProcessKeepsLine ==
  ASSUME TInv, LineInv, ProcessOneMsgq, pc # "stopped", pc' # "stopped", UNCHANGED hold
  PROVE  LineInv'
<1> USE DEF LineInv
<1>1. /\ gppq # <<>> /\ gppq' = Tail(gppq) /\ ProcessMymsg(Head(gppq))
      /\ UNCHANGED <<sent, replies, toServer, owner, unique_id, dspq>>
  BY DEF ProcessOneMsgq, sockVars
<1>2. PICK m \in Messages : m = Head(gppq)
  BY <1>1, TailShape
<1>3. SentInv' /\ StreamInv' /\ RepliesAreAnswers'
  BY <1>1 DEF SentInv, StreamInv, RepliesAreAnswers, AnswersIn
<1>4. PICK k \in DOMAIN gppq : m = gppq[k]
  BY <1>1, <1>2, TailElements
<1>5. Fits(m) /\ Solved(m)
  BY <1>4 DEF FlightInv, AllFit
<1>6. QueueInv' /\ \A n \in Messages : InTurn(m, n) /\ Fits(n) => Fits(n)'
  <2>1. CASE UNCHANGED peers
    <3>1. QueueInv'
      BY <1>1, <2>1 DEF QueueInv, QueuedFor, AnswersIn
    <3>2. \A n \in Messages : Fits(n) => Fits(n)'
      BY <1>1, <2>1 DEF Fits, Tracked
    <3> QED BY <3>1, <3>2
  <2>2. CASE m.subid \in Requests /\ peers' = Queued(m)
    BY <1>1, <1>5, <2>2, QueuedKeepsQueues
  <2> QED BY <1>1, <1>2, <2>1, <2>2 DEF ProcessMymsg, QueueReply
<1>7. FlightInv'
  BY <1>1, <1>2, <1>6, TakeKeepsFlight
<1> QED BY <1>3, <1>6, <1>7

(* Steps that leave the line alone, and the end, after which no peer is    *)
(* served.                                                                 *)
LEMMA UntouchedKeepsFits ==
  ASSUME UNCHANGED <<sent, replies, toServer, unique_id>>,
         \/ pc' = "stopped"
         \/ pc # "stopped" /\ UNCHANGED <<peers, owner>>
  PROVE  /\ SentInv /\ StreamInv /\ RepliesAreAnswers /\ QueueInv =>
                SentInv' /\ StreamInv' /\ RepliesAreAnswers' /\ QueueInv'
         /\ \A n \in Messages : Fits(n) => Fits(n)'
<1>1. SentInv /\ StreamInv /\ RepliesAreAnswers => SentInv' /\ StreamInv' /\ RepliesAreAnswers'
  BY DEF SentInv, StreamInv, RepliesAreAnswers, AnswersIn
<1>2. QueueInv => QueueInv'
  BY DEF QueueInv, QueuedFor, AnswersIn
<1>3. \A n \in Messages : Fits(n) => Fits(n)'
  BY DEF Fits, Tracked
<1> QED BY <1>1, <1>2, <1>3

LEMMA UntouchedKeepsLine ==
  ASSUME TInv, LineInv, UNCHANGED <<sent, replies, toServer, unique_id, gppq, hold, dspq>>,
         \/ pc' = "stopped"
         \/ pc # "stopped" /\ UNCHANGED <<peers, owner>>
  PROVE  LineInv'
BY UntouchedKeepsFits, StillFlying DEF LineInv

LEMMA ControlKeepsLine ==
  ASSUME TInv, LineInv, UNCHANGED <<sent, replies, toServer, unique_id, gppq, hold>>,
         \/ pc' = "stopped"
         \/ pc # "stopped" /\ UNCHANGED <<peers, owner>>,
         NEW m \in Messages, m.subid \notin Requests, dspq' = Append(dspq, m)
  PROVE  LineInv'
<1>1. \A n : InTurn(n, m)
  BY DEF InTurn, SamePeer
<1>2. Fits(m)'
  BY DEF Fits
<1>3. /\ SentInv' /\ StreamInv' /\ RepliesAreAnswers' /\ QueueInv'
      /\ \A n \in Messages : Fits(n) => Fits(n)'
  BY UntouchedKeepsFits DEF LineInv
<1>4. FlightInv'
  BY <1>1, <1>2, <1>3, SendKeepsFlight DEF LineInv
<1> QED BY <1>3, <1>4 DEF LineInv

LEMMA ReadsKeepLine ==
  ASSUME TInv, LineInv, UNCHANGED hold,
         \/ ReadEof \/ ReadHeader \/ ReadBadLength \/ ReadUnknown \/ ReadShort \/ WriteError
  PROVE  LineInv'
<1>1. /\ pc \in {"read", "write"} /\ UNCHANGED <<gppq, dspq>>
      /\ AtPeer
      /\ RemoveThis \/ (\E in \in {"none", "header", "payload"} : AfterRead(in))
      /\ LeavePdu \/ (toServer[Conn] # <<>> /\ TakePdu)
  BY DEF ReadEof, ReadHeader, ReadBadLength, ReadUnknown, ReadShort, WriteError,
         ReadingPdu, Reading, Writing, PeersInv, msgqVars
<1>2. UNCHANGED <<sent, replies, unique_id>>
  BY <1>1 DEF RemoveThis, AfterRead
<1>3. Shrinks
  BY <1>1, <1>2, ReadsShrink
<1> QED BY <1>1, <1>3, ShrinkingKeepsLine

LEMMA ServerKeepsLine ==
  ASSUME TInv, OwnersInv, LineInv, ServerActs
  PROVE  LineInv'
<1> USE DEF msgqVars, sockVars, peerVars
<1>0. UNCHANGED hold
  BY DEF ServerActs
<1>1. CASE SendGetReply
  <2>1. UNCHANGED <<sent, replies, toServer, unique_id, gppq, peers, owner>> /\ pc # "stopped"
    BY <1>1 DEF SendGetReply, SendCounted, SendFails, AllocAndPut, AllocOrPutFails
  <2>2. CASE dspq' = dspq
    BY <1>0, <2>1, <2>2, UntouchedKeepsLine
  <2>3. CASE SendCounted(Control("getreply", NoQueue))
    <3>1. PICK m \in Messages : m = Control("getreply", NoQueue)
      BY ControlTyped DEF Subids, Handles
    <3>2. m.subid \notin Requests
      BY <3>1 DEF Control, Msg, Requests
    <3>3. dspq' = Append(dspq, m)
      BY <2>3, <3>1 DEF SendCounted, AllocAndPut
    <3> QED BY <1>0, <2>1, <3>2, <3>3, ControlKeepsLine
  <2> QED BY <1>1, <2>2, <2>3 DEF SendGetReply, SendFails, AllocOrPutFails
<1>2. CASE SendShutdown
  <2>1. UNCHANGED <<sent, replies, toServer, unique_id, gppq, peers, owner>> /\ pc # "stopped"
    BY <1>2 DEF SendShutdown, AllocAndPut, AllocOrPutFails
  <2>2. CASE dspq' = dspq
    BY <1>0, <2>1, <2>2, UntouchedKeepsLine
  <2>3. CASE AllocAndPut(Control("shutdown", reply_msgq))
    <3>1. PICK m \in Messages : m = Control("shutdown", reply_msgq)
      BY ControlTyped DEF Subids
    <3>2. m.subid \notin Requests
      BY <3>1 DEF Control, Msg, Requests
    <3>3. dspq' = Append(dspq, m)
      BY <2>3, <3>1 DEF AllocAndPut
    <3> QED BY <1>0, <2>1, <3>2, <3>3, ControlKeepsLine
  <2> QED BY <1>2, <2>2, <2>3 DEF SendShutdown, AllocOrPutFails
<1>3. CASE ProcessOneMsgq /\ (AwaitReplyMsgq \/ Drain \/ GetForever)
  <2>1. pc # "stopped" /\ pc' # "stopped"
    BY <1>3 DEF AwaitReplyMsgq, Drain, GetForever
  <2> QED BY <1>0, <1>3, <2>1, ProcessKeepsLine
<1>4. CASE /\ UNCHANGED <<sent, replies, toServer, unique_id, gppq, dspq>>
           /\ \/ pc' = "stopped"
              \/ pc # "stopped" /\ UNCHANGED <<peers, owner>>
  BY <1>0, <1>4, UntouchedKeepsLine
<1>5. CASE GetFails /\ (AwaitReplyMsgq \/ GetForever)
  BY <1>4, <1>5 DEF GetFails, AwaitReplyMsgq, GetForever
<1>6. CASE Drain /\ UNCHANGED <<peerVars, sockVars, msgqVars>>
  BY <1>4, <1>6 DEF Drain
<1>7. CASE Poll \/ LoopEnds \/ CheckTerm \/ SelectForever \/ CloseTransport
  BY <1>4, <1>7 DEF Poll, LoopEnds, CheckTerm, SelectForever, CloseTransport
<1>8. CASE Cleanup
  BY <1>4, <1>8 DEF Cleanup
<1>9. CASE CheckListen
  <2>1. CASE UNCHANGED <<owner, peers, unique_id>>
    BY <1>4, <1>9, <2>1 DEF CheckListen
  <2>2. ASSUME NEW fd \in FreeFds, owner' = [owner EXCEPT ![fd] = Head(backlog)], AddPeer(fd)
        PROVE  LineInv'
    BY <1>0, <1>9, <2>2, AcceptKeepsLine
  <2> QED BY <1>9, <2>1, <2>2 DEF CheckListen, Accept
<1>10. CASE SkipRead \/ SkipWrite \/ ReadNoMemory \/ PassEnds
  BY <1>4, <1>10
  DEF SkipRead, SkipWrite, Advance, ReadNoMemory, Reading, PassEnds, PassOver
<1>11. CASE ReadEof \/ ReadHeader \/ ReadBadLength \/ ReadUnknown \/ ReadShort \/ WriteError
  BY <1>0, <1>11, ReadsKeepLine
<1>12. CASE ReadRequest
  BY <1>0, <1>12, RequestKeepsLine
<1>13. CASE WriteReply
  BY <1>0, <1>13, WriteKeepsLine
<1>14. CASE PeerStep
  BY <1>10, <1>11, <1>12, <1>13, <1>14 DEF PeerStep
<1>15. CASE AwaitReplyMsgq \/ Drain \/ GetForever
  BY <1>3, <1>5, <1>6, <1>15 DEF AwaitReplyMsgq, Drain, GetForever
<1> QED BY <1>1, <1>2, <1>7, <1>8, <1>9, <1>14, <1>15 DEF ServerActs, ServerStep

LEMMA LocateKeepsLine ==
  ASSUME TInv, LineInv, LocateActs
  PROVE  LineInv'
<1>1. /\ UNCHANGED <<sent, replies, toServer, unique_id, gppq, hold, peers, owner, pc>>
      /\ \E handle \in Handles : AllocAndPut(Control("async", handle))
  BY DEF LocateActs, LocateAnswers, AllocAndPut, sockVars, peerVars, serverVars, Handles
<1>2. PICK handle \in Handles : AllocAndPut(Control("async", handle))
  BY <1>1
<1>3. PICK m \in Messages : m = Control("async", handle)
  BY ControlTyped DEF Subids
<1>4. m.subid \notin Requests
  BY <1>3 DEF Control, Msg, Requests
<1>5. dspq' = Append(dspq, m)
  BY <1>2, <1>3 DEF AllocAndPut
<1>6. CASE pc # "stopped"
  BY <1>1, <1>4, <1>5, <1>6, ControlKeepsLine
<1>7. CASE pc = "stopped"
  BY <1>1, <1>4, <1>5, <1>7, ControlKeepsLine
<1> QED BY <1>6, <1>7

LEMMA DspKeepsLine ==
  ASSUME TInv, LineInv, DspActs
  PROVE  LineInv'
<1>1. FlightInv'
  BY DspKeepsFlight DEF LineInv
<1>2. UNCHANGED <<sockVars, peerVars, serverVars>>
  BY DEF DspActs
<1>3. SentInv' /\ StreamInv' /\ RepliesAreAnswers' /\ QueueInv'
  BY <1>2 DEF LineInv, SentInv, StreamInv, RepliesAreAnswers, AnswersIn, QueueInv, QueuedFor,
              sockVars, peerVars, serverVars
<1> QED BY <1>1, <1>3 DEF LineInv

LEMMA InitLineInv == Init => LineInv
<1> SUFFICES ASSUME Init PROVE LineInv
  OBVIOUS
<1> USE DEF Init, MsgqInit, DspInit, SocketsInit, PeerInit, ServerInit
<1>1. SentInv /\ StreamInv /\ RepliesAreAnswers
  BY NoElement DEF SentInv, StreamInv, RepliesAreAnswers, Rising, Below
<1>2. QueueInv
  BY NoElement DEF QueueInv
<1>3. FlightInv
  BY NoElement DEF FlightInv, AllFit, OrderInv, Ordered, Precedes
<1> QED BY <1>1, <1>2, <1>3 DEF LineInv

LEMMA NextLineInv == IInv /\ OwnersInv /\ LineInv /\ [Next]_vars => LineInv'
<1> SUFFICES ASSUME IInv, OwnersInv, LineInv, [Next]_vars PROVE LineInv'
  OBVIOUS
<1>0. TInv
  BY DEF IInv
<1>1. CASE ServerActs
  BY <1>0, <1>1, ServerKeepsLine
<1>2. CASE DspActs
  BY <1>0, <1>2, DspKeepsLine
<1>3. CASE LocateActs
  BY <1>0, <1>3, LocateKeepsLine
<1>4. ASSUME NEW c \in Clients, NEW kind \in Kinds, ClientSend(c, kind), ClientActs(c)
      PROVE  LineInv'
  <2>1. UNCHANGED <<msgqVars, dspVars, peerVars, serverVars>>
    BY <1>4 DEF ClientActs
  <2> QED BY <1>0, <1>4, <2>1, SendKeepsLine
<1>5. CASE UNCHANGED <<sent, replies, toServer, unique_id, gppq, hold, dspq, peers, owner, pc>>
  <2>1. CASE pc = "stopped"
    BY <1>0, <1>5, <2>1, UntouchedKeepsLine
  <2>2. CASE pc # "stopped"
    BY <1>0, <1>5, <2>2, UntouchedKeepsLine
  <2> QED BY <2>1, <2>2
<1>6. ASSUME NEW c \in Clients, ClientActs(c)
      PROVE  LineInv'
  BY <1>4, <1>5, <1>6
  DEF ClientActs, ClientStep, ClientConnect, ClientRead, ClientClose,
      msgqVars, dspVars, peerVars, serverVars
<1>7. CASE SignalActs \/ ErrorActs \/ Done \/ UNCHANGED vars
  BY <1>5, <1>7 DEF SignalActs, SigInt, ErrorActs, ErrorArrives, Done, vars, msgqVars, dspVars, sockVars, peerVars, serverVars
<1> QED BY <1>1, <1>2, <1>3, <1>6, <1>7 DEF Next

-----------------------------------------------------------------------------
(* The theorems about what clients are sent, and the end.                  *)

(* When the shutdown message takes the task out of its loop it leaves no   *)
(* message of the server's behind: sent once and last, it overtakes no     *)
(* request, and no lookup the task would have to hear of is still to be    *)
(* answered. Nothing is said of a task that ends because MSGQ_get failed.  *)
THEOREM LastOut == Spec => []DspLeavesNothing
<1>1. Init => OffInv
  BY InitOffInv
<1>2. IInv /\ OffInv /\ [Next]_vars => OffInv'
  BY NextOffInv
<1>3. OffInv => DspLeavesNothing
  BY DEF OffInv, DspLeavesNothing
<1> QED BY <1>1, <1>2, <1>3, SpecIInv, PTL DEF Spec

LEMMA SpecOwners == Spec => []OwnersInv
<1>1. Init => OwnersInv
  BY InitOwners
<1>2. IInv /\ OwnersInv /\ [Next]_vars => OwnersInv'
  BY NextOwners
<1> QED BY <1>1, <1>2, SpecIInv, PTL DEF Spec

LEMMA SpecLine == Spec => []LineInv
<1>1. Init => LineInv
  BY InitLineInv
<1>2. IInv /\ OwnersInv /\ LineInv /\ [Next]_vars => LineInv'
  BY NextLineInv
<1> QED BY <1>1, <1>2, SpecIInv, SpecOwners, PTL DEF Spec

(* The pass over the peers never sleeps in recv(): what the last select()  *)
(* reported still holds for every peer the pass has yet to read, although  *)
(* it accepts one connection, removes peers and closes descriptors.        *)
THEOREM RecvReturns == Spec => []NeverBlocksInRecv
<1>1. Init => ReadyInv /\ NeverBlocksInRecv
  BY InitOwners
<1>2. IInv /\ OwnersInv /\ ReadyInv /\ NeverBlocksInRecv /\ [Next]_vars
        => ReadyInv' /\ NeverBlocksInRecv'
  BY NextReady
<1> QED BY <1>1, <1>2, SpecIInv, SpecOwners, PTL DEF Spec

(* Every reply a client was sent answers a request of its own with the     *)
(* function and the operands asked for, and they come in the order of the  *)
(* requests, each at most once, for any number of clients, of descriptors  *)
(* used again and of replies dropped, and whatever calls fail.             *)
THEOREM OwnAnswers == Spec => []RepliesAreAnswers
<1>1. LineInv => RepliesAreAnswers
  BY DEF LineInv
<1> QED BY <1>1, SpecLine, PTL

(* Clients that keep to the protocol.                                      *)

LEMMA StillServed ==
  ASSUME TInv, OwnersInv, CheckListen, ListenInv, ~GppFaults, NEW c \in Clients, Served(c)
  PROVE  Served(c)'
<1>1. CASE UNCHANGED <<backlog, owner>>
  BY <1>1 DEF Served
<1>2. ASSUME "listen" \in ready, backlog' = Tail(backlog),
             NEW fd \in FreeFds, owner' = [owner EXCEPT ![fd] = Head(backlog)]
      PROVE  Served(c)'
  <2>1. backlog # <<>> /\ backlog \in Seq(Clients)
    BY <1>2 DEF CheckListen, ListenInv
  <2>2. 1 \in DOMAIN backlog /\ Head(backlog) = backlog[1]
    BY <2>1, TailShape
  <2>3. fd \in Fds /\ owner[fd] = None /\ c # None
    BY SocketsAssumption DEF FreeFds
  <2>4. ASSUME NEW g \in Fds, owner[g] = c
        PROVE  g \in DOMAIN owner' /\ owner'[g] = c
    BY <1>2, <2>3, <2>4
  <2>5. ASSUME NEW i \in DOMAIN backlog, backlog[i] = c
        PROVE  Served(c)'
    <3>1. CASE i = 1
      <4>1. fd \in DOMAIN owner' /\ owner'[fd] = c
        BY <1>2, <2>2, <2>3, <2>5, <3>1
      <4> QED BY <4>1 DEF Served, Range
    <3>2. CASE i # 1
      <4>1. i - 1 \in DOMAIN Tail(backlog) /\ Tail(backlog)[i - 1] = backlog[i]
        <5>1. /\ Len(backlog) \in Nat \ {0} /\ DOMAIN backlog = 1..Len(backlog)
              /\ Len(Tail(backlog)) = Len(backlog) - 1 /\ Tail(backlog) \in Seq(Clients)
              /\ \A k \in 1..(Len(backlog) - 1) : Tail(backlog)[k] = backlog[k + 1]
          BY <2>1, HeadTailProperties, LenProperties, EmptySeq
        <5>2. DOMAIN Tail(backlog) = 1..(Len(backlog) - 1)
          BY <5>1, LenProperties
        <5>3. i \in Nat /\ i - 1 \in 1..(Len(backlog) - 1) /\ (i - 1) + 1 = i
          BY ONLY <5>1, <3>2, <2>5
        <5> QED BY <5>1, <5>2, <5>3
      <4> QED BY <1>2, <2>5, <4>1 DEF Served, Range
    <3> QED BY <3>1, <3>2
  <2> QED BY <2>4, <2>5 DEF Served, Range
<1> QED BY <1>1, <1>2 DEF CheckListen, Accept

LEMMA GoodClientKept ==
  ASSUME IInv, OwnersInv, StreamInv, [Next]_vars, NEW c \in Clients,
         Served(c), ~Served(c)', conn[c] = "open", WellFormed(c), pc # "cleanup",
         ~GppFaults
  PROVE  free = 0
<1>0. TInv /\ ListenInv
  BY DEF IInv
<1>1. ~CheckListen
  BY <1>0, StillServed
<1>2. ~UNCHANGED <<backlog, owner>>
  BY DEF Served
<1>3. \A d \in Clients : ~ClientActs(d)
  <2> SUFFICES ASSUME NEW d \in Clients, ClientConnect(d)
               PROVE  FALSE
    BY <1>2 DEF ClientActs, ClientStep, ClientSend, ClientRead, ClientClose
  <2>1. backlog' = Append(backlog, d) /\ owner' = owner /\ backlog \in Seq(Clients)
    BY <1>0 DEF ClientConnect
  <2>2. \A i \in DOMAIN backlog : i \in DOMAIN backlog' /\ backlog'[i] = backlog[i]
    BY <2>1, AppendShape
  <2> QED BY <2>1, <2>2 DEF Served, Range
<1>4. PeerStep /\ RemoveThis
  <2>1. CASE ServerActs
    BY <1>1, <1>2, <2>1
    DEF ServerActs, ServerStep, SendGetReply, AwaitReplyMsgq, Poll, LoopEnds,
        CheckTerm, Drain, GetForever, SelectForever, SendShutdown, CloseTransport, Cleanup,
        ProcessOneMsgq, GetFails, sockVars, PeerStep, SkipRead, ReadNoMemory, ReadEof,
        ReadHeader, ReadBadLength, ReadUnknown, ReadShort, ReadRequest, SkipWrite,
        WriteReply, WriteError, PassEnds, PassOver, AfterRead
  <2> QED BY <1>2, <1>3, <2>1
          DEF Next, DspActs, LocateActs, ErrorActs, SignalActs, Done, vars, sockVars
<1>5. AtPeer /\ pc # "stopped"
  BY <1>0, <1>4 DEF PeerStep, SkipRead, ReadNoMemory, ReadEof, ReadHeader, ReadBadLength,
        ReadUnknown, ReadShort, ReadRequest, ReadingPdu, Reading, SkipWrite, WriteReply,
        WriteError, Writing, PassEnds, PassOver, Advance, RemoveThis, PeersInv
<1>6. c = Conn
  <2>1. backlog' = backlog /\ owner' = [owner EXCEPT ![This.sck] = None]
    BY <1>4 DEF RemoveThis
  <2>2. PICK fd \in Fds : owner[fd] = c
    BY <1>0, <2>1 DEF Served, Range
  <2>3. owner'[fd] # c
    BY <1>0, <2>1 DEF Served, Range
  <2> QED BY <1>0, <1>5, <2>1, <2>2, <2>3, ThisPeer DEF Conn
<1>7. ASSUME NEW states, NEW kind \in {"badlen", "short"}, ReadingPdu(states, {kind})
      PROVE  FALSE
  <2> DEFINE s == toServer[c]
  <2>1. s \in Seq(Pdus) /\ s # <<>> /\ Head(s).kind = kind
    BY <1>0, <1>6, <1>7 DEF ReadingPdu
  <2>2. 1 \in DOMAIN s /\ Head(s) = s[1]
    BY <2>1, TailShape
  <2>3. \E k \in DOMAIN sent[c] : s[1] = sent[c][k]
    BY <2>2 DEF StreamInv
  <2> QED BY <2>1, <2>2, <2>3 DEF WellFormed
<1>8. ReadRequest /\ SendFails
  <2>1. ~ReadEof /\ ~WriteError
    BY <1>6 DEF ReadEof, WriteError
  <2>2. ~ReadBadLength /\ ~ReadShort
    BY <1>7 DEF ReadBadLength, ReadShort
  <2>3. pc' = "read" /\ owner' # owner
    BY <1>2, <1>4 DEF RemoveThis
  <2> QED BY <1>4, <2>1, <2>2, <2>3
          DEF PeerStep, SkipRead, ReadNoMemory, ReadHeader, ReadUnknown, ReadRequest,
              SkipWrite, WriteReply, PassEnds, PassOver, AfterRead, sockVars
<1> QED BY <1>8 DEF SendFails, AllocOrPutFails

(* A client that has sent nothing the server must refuse is cut off only   *)
(* when a call failed or the pool was empty, in any state and whatever the *)
(* other clients do: neither the pass over the list, nor the reuse of      *)
(* descriptors, nor their bad PDUs take its connection.                    *)
THEOREM GoodClientsKept == Spec => KeepsGoodClients
<1>1. IInv /\ OwnersInv /\ LineInv /\ [Next]_vars =>
        [\A c \in Clients :
            (/\ Served(c) /\ ~Served(c)'
             /\ conn[c] = "open" /\ WellFormed(c) /\ pc # "cleanup")
                => GppFaults \/ free = 0]_vars
  BY GoodClientKept DEF LineInv
<1> QED BY <1>1, SpecIInv, SpecOwners, SpecLine, PTL DEF Spec, KeepsGoodClients

-----------------------------------------------------------------------------
(* The requests among the PDUs a client has sent.                          *)

Taken(f, s, n) ==
    IF n = 0 THEN <<>>
    ELSE IF IsRequest(s[n]) THEN Append(f[n - 1], s[n])
    ELSE f[n - 1]
Collects(f, s) == f = [n \in 0..Len(s) |-> Taken(f, s, n)]

LEMMA CollectsExists ==
  ASSUME NEW S, NEW s \in Seq(S)
  PROVE  \E f : Collects(f, s)
<1> DEFINE Upto(f, n) == f = [k \in 0..n |-> Taken(f, s, k)]
           G == {n \in Nat : \E f : Upto(f, n)}
<1>1. 0 \in G
  <2> DEFINE f == [k \in 0..0 |-> <<>>]
  <2>1. f = [k \in 0..0 |-> Taken(f, s, k)]
    BY DEF Taken
  <2> QED BY <2>1
<1>2. ASSUME NEW n \in G
      PROVE  n + 1 \in G
  <2>1. n \in Nat
    OBVIOUS
  <2>2. PICK f : Upto(f, n)
    OBVIOUS
  <2> DEFINE g == [k \in 0..(n + 1) |-> IF k = n + 1 THEN Taken(f, s, k) ELSE f[k]]
  <2>3. ASSUME NEW k \in 0..(n + 1)
        PROVE  g[k] = Taken(g, s, k)
    <3>1. CASE k = 0
      BY <2>1, <2>2, <3>1 DEF Taken
    <3>2. CASE k # 0
      <4>1. k - 1 \in 0..n /\ k - 1 \in 0..(n + 1) /\ k - 1 # n + 1
        BY <2>1, <3>2
      <4>2. g[k - 1] = f[k - 1]
        BY <4>1
      <4>3. Taken(g, s, k) = Taken(f, s, k)
        BY <4>2 DEF Taken
      <4>4. k # n + 1 => k \in 0..n /\ f[k] = Taken(f, s, k)
        <5>1. ASSUME k # n + 1 PROVE k \in 0..n
          BY <2>1, <5>1
        <5> QED BY ONLY <2>2, <5>1
      <4> QED BY <4>3, <4>4
    <3> QED BY <3>1, <3>2
  <2>4. g = [k \in 0..(n + 1) |-> g[k]]
    OBVIOUS
  <2> HIDE DEF g
  <2>5. Upto(g, n + 1)
    BY <2>3, <2>4
  <2> QED BY <2>1, <2>5
<1>3. Nat \subseteq G
  <2> HIDE DEF G
  <2> QED BY <1>1, <1>2, NatInduct DEF G
<1>4. Len(s) \in G
  BY <1>3, LenProperties
<1> QED BY <1>4 DEF Collects

LEMMA RequestsCollected ==
  ASSUME NEW S, NEW s \in Seq(S)
  PROVE  \E f : /\ Collects(f, s) /\ RequestsIn(s) = f[Len(s)]
                /\ \A n \in 0..Len(s) : f[n] \in Seq(S)
<1>1. \E f : Collects(f, s)
  BY CollectsExists
<1> DEFINE f == CHOOSE g : Collects(g, s)
<1>2. Collects(f, s)
  BY <1>1, Zenon
<1>3. RequestsIn(s) = f[Len(s)]
  BY Zenon DEF RequestsIn, Collects, Taken
<1> HIDE DEF f
<1>4. \A n \in 0..Len(s) : f[n] \in Seq(S)
  <2> DEFINE G == {n \in Nat : n <= Len(s) => f[n] \in Seq(S)}
  <2>0. Len(s) \in Nat
    BY LenProperties
  <2>1. 0 \in G
    <3>1. f[0] = <<>>
      BY <1>2, <2>0 DEF Collects, Taken
    <3> QED BY <3>1, EmptySeq
  <2>2. ASSUME NEW n \in G
        PROVE  n + 1 \in G
    <3> SUFFICES ASSUME n \in Nat, n + 1 <= Len(s)
                 PROVE  f[n + 1] \in Seq(S)
      OBVIOUS
    <3>1. /\ n + 1 \in 0..Len(s) /\ n + 1 # 0 /\ (n + 1) - 1 = n
          /\ n + 1 \in 1..Len(s) /\ n <= Len(s)
      BY <2>0
    <3>2. f[n + 1] = IF IsRequest(s[n + 1]) THEN Append(f[n], s[n + 1]) ELSE f[n]
      BY <1>2, <3>1 DEF Collects, Taken
    <3>3. f[n] \in Seq(S) /\ s[n + 1] \in S
      BY <3>1, ElementOfSeq
    <3> QED BY <3>2, <3>3, AppendProperties
  <2>3. Nat \subseteq G
    <3> HIDE DEF G
    <3> QED BY <2>1, <2>2, NatInduct DEF G
  <2> QED BY <2>0, <2>3
<1> QED BY <1>2, <1>3, <1>4

(* One PDU more adds itself if it is a request.                            *)
LEMMA RequestsOf ==
  ASSUME NEW S, NEW s \in Seq(S), NEW e \in S
  PROVE  /\ RequestsIn(s) \in Seq(S)
         /\ RequestsIn(Append(s, e)) =
                IF IsRequest(e) THEN Append(RequestsIn(s), e) ELSE RequestsIn(s)
<1> DEFINE t == Append(s, e)
<1>1. /\ t \in Seq(S) /\ Len(t) = Len(s) + 1 /\ Len(s) \in Nat
      /\ \A n \in 1..Len(s) : t[n] = s[n]
      /\ t[Len(s) + 1] = e
  BY AppendProperties, LenProperties
<1> HIDE DEF t
<1>2. PICK f : /\ Collects(f, s) /\ RequestsIn(s) = f[Len(s)]
               /\ \A n \in 0..Len(s) : f[n] \in Seq(S)
  BY RequestsCollected
<1>3. PICK g : Collects(g, t) /\ RequestsIn(t) = g[Len(t)]
  BY <1>1, RequestsCollected
<1>4. g[Len(s)] = f[Len(s)]
  <2> DEFINE G == {n \in Nat : n <= Len(s) => g[n] = f[n]}
  <2>1. 0 \in G
    BY <1>1, <1>2, <1>3 DEF Collects, Taken
  <2>2. ASSUME NEW n \in G
        PROVE  n + 1 \in G
    <3> SUFFICES ASSUME n \in Nat, n + 1 <= Len(s)
                 PROVE  g[n + 1] = f[n + 1]
      OBVIOUS
    <3>1. /\ n + 1 \in 0..Len(s) /\ n + 1 \in 0..Len(t) /\ n + 1 # 0 /\ (n + 1) - 1 = n
          /\ n + 1 \in 1..Len(s) /\ n <= Len(s)
      BY <1>1
    <3>2. f[n + 1] = IF IsRequest(s[n + 1]) THEN Append(f[n], s[n + 1]) ELSE f[n]
      BY <1>2, <3>1 DEF Collects, Taken
    <3>3. g[n + 1] = IF IsRequest(t[n + 1]) THEN Append(g[n], t[n + 1]) ELSE g[n]
      BY <1>3, <3>1 DEF Collects, Taken
    <3>4. t[n + 1] = s[n + 1] /\ g[n] = f[n]
      BY <1>1, <3>1
    <3> QED BY <3>2, <3>3, <3>4
  <2>3. Nat \subseteq G
    <3> HIDE DEF G
    <3> QED BY <2>1, <2>2, NatInduct DEF G
  <2> QED BY <1>1, <2>3
<1>5. g[Len(t)] = IF IsRequest(e) THEN Append(g[Len(s)], e) ELSE g[Len(s)]
  <2>1. Len(t) \in 0..Len(t) /\ Len(t) # 0 /\ Len(t) - 1 = Len(s)
    BY <1>1
  <2> QED BY <1>1, <1>3, <2>1 DEF Collects, Taken
<1>6. Len(s) \in 0..Len(s)
  BY <1>1
<1> QED BY <1>2, <1>3, <1>4, <1>5, <1>6 DEF t

LEMMA NoRequests == RequestsIn(<<>>) = <<>>
<1>1. <<>> \in Seq({}) /\ Len(<<>>) = 0
  BY EmptySeq
<1>2. PICK f : Collects(f, <<>>) /\ RequestsIn(<<>>) = f[0]
  BY <1>1, RequestsCollected
<1>3. 0 \in 0..Len(<<>>)
  BY <1>1
<1> QED BY <1>2, <1>3 DEF Collects, Taken

-----------------------------------------------------------------------------
(* Requests. With no call failing none is lost while its client is served: *)
(* it is on the stream, with the DSP or between, queued as a reply, or     *)
(* answered.                                                               *)

Among(q, seq) == \E k \in DOMAIN q : q[k].seq = seq
Carried(q, id, seq) ==
    \E k \in DOMAIN q : q[k].subid \in Requests /\ q[k].id = id /\ q[k].seq = seq
InFlight(id, seq) == Carried(gppq, id, seq) \/ Carried(hold, id, seq) \/ Carried(dspq, id, seq)
Placed(i, seq) ==
    LET c == owner[peers[i].sck]
    IN  \/ Among(replies[c], seq)
        \/ Among(peers[i].out, seq)
        \/ InFlight(peers[i].id, seq)
        \/ Among(toServer[c], seq)
NoneMissing(i) ==
    LET c == owner[peers[i].sck]
    IN  \A k \in DOMAIN sent[c] : IsRequest(sent[c][k]) => Placed(i, sent[c][k].seq)
PlacesInv == pc # "stopped" => \A i \in DOMAIN peers : NoneMissing(i)

(* Nothing is read from a client before it is accepted.                    *)
UnreadInv ==
    /\ \A c \in Clients : conn[c] = "new" => toServer[c] = sent[c]
    /\ \A i \in DOMAIN backlog : toServer[backlog[i]] = sent[backlog[i]]

(* The server knows its own queue when it forwards requests.               *)
Addressed(m) == m.subid \in Requests => m.reply_msgq # NoQueue
AddressInv ==
    /\ reply_msgq # NoQueue \/ pc \in {"located", "starting"} \union Ending
    /\ \A k \in DOMAIN hold : Addressed(hold[k])
    /\ \A k \in DOMAIN dspq : Addressed(dspq[k])

(* The requests a client has sent, by number, and the answers to the first *)
(* of them.                                                                *)
AskedInv ==
    \A c \in Clients : LET asked == RequestsIn(sent[c]) IN
        /\ \A n \in DOMAIN asked : IsRequest(asked[n])
                /\ \E k \in DOMAIN sent[c] : asked[n] = sent[c][k]
        /\ \A k \in DOMAIN sent[c] : IsRequest(sent[c][k]) =>
                \E n \in DOMAIN asked : asked[n] = sent[c][k]
        /\ Rising(asked)
MatchInv ==
    \A c \in Clients : \A n \in DOMAIN replies[c] :
        /\ n \in DOMAIN RequestsIn(sent[c])
        /\ replies[c][n].seq = RequestsIn(sent[c])[n].seq
OutInv == \A i \in DOMAIN peers : \A k \in DOMAIN peers[i].out : peers[i].out[k].kind \in Requests

RpcInv == PlacesInv /\ UnreadInv /\ AddressInv /\ AskedInv /\ MatchInv /\ OutInv

(* What is sent to the client as request and answer.                       *)

LEMMA AskedTyped ==
  ASSUME TInv, NEW c \in Clients
  PROVE  /\ sent[c] \in Seq(Pdus) /\ RequestsIn(sent[c]) \in Seq(Pdus)
         /\ \A n \in DOMAIN RequestsIn(sent[c]) : RequestsIn(sent[c])[n] \in Pdus
         /\ DOMAIN RequestsIn(sent[c]) = 1..Len(RequestsIn(sent[c]))
         /\ Len(RequestsIn(sent[c])) \in Nat
<1>1. sent[c] \in Seq(Pdus)
  OBVIOUS
<1> DEFINE s == sent[c]
<1> HIDE DEF s
<1>2. s \in Seq(Pdus) /\ s = sent[c]
  BY <1>1 DEF s
<1>3. RequestsIn(s) \in Seq(Pdus)
  <2>1. PICK f : /\ RequestsIn(s) = f[Len(s)]
                 /\ \A n \in 0..Len(s) : f[n] \in Seq(Pdus)
    BY <1>2, RequestsCollected
  <2>2. Len(s) \in 0..Len(s)
    BY <1>2, LenProperties
  <2> QED BY <2>1, <2>2
<1>4. \A n \in DOMAIN RequestsIn(s) : RequestsIn(s)[n] \in Pdus
  BY <1>3, LenProperties, ElementOfSeq
<1> QED BY <1>2, <1>3, <1>4, LenProperties

(* The reply written is the answer to the first request not answered: of a *)
(* later one's reply the earlier would be missing.                         *)
LEMMA WritesNext ==
  ASSUME TInv, LineInv, RpcInv, WriteReply,
         NEW c \in Clients, c = Conn, NEW asked, asked = RequestsIn(sent[c])
  PROVE  LET n == Len(replies[c]) + 1 IN
         /\ n \in DOMAIN asked
         /\ Head(This.out) = [kind |-> asked[n].kind, seq |-> asked[n].seq,
                              z |-> Answer(asked[n].kind, asked[n].arg)]
<1> DEFINE n == Len(replies[c]) + 1
           out == This.out
           r == Head(out)
           i == cursor
<1>1. pc = "write" /\ AtPeer /\ This.out # <<>>
  BY DEF WriteReply, Writing, PeersInv
<1>2. /\ i \in DOMAIN peers /\ This \in Peers /\ This = peers[i]
      /\ c = owner[peers[i].sck] /\ out = peers[i].out
  BY <1>1, ThisPeer DEF This, Conn
<1>3. out \in Seq(Replies) /\ out # <<>> /\ replies[c] \in Seq(Replies)
  BY <1>1, <1>2 DEF Peers
<1>4. /\ Rising(out) /\ Below(replies[c], out) /\ Below(out, toServer[c])
      /\ \A k \in DOMAIN out : out[k] \in AnswersIn(c)
      /\ \A k \in DOMAIN out : out[k].kind \in Requests
  BY <1>1, <1>2 DEF LineInv, QueueInv, QueuedFor, RpcInv, OutInv
<1>5. 1 \in DOMAIN out /\ r = out[1] /\ r.seq \in Nat
  <2> HIDE DEF out
  <2>1. 1 \in DOMAIN out /\ r = out[1] /\ r \in Replies
    BY <1>3, TailShape
  <2> QED BY <2>1 DEF Replies
<1>6. /\ DOMAIN replies[c] = 1..Len(replies[c]) /\ Len(replies[c]) \in Nat
      /\ \A k \in DOMAIN replies[c] : replies[c][k].seq \in Nat
  <2>1. \A k \in DOMAIN replies[c] : replies[c][k] \in Replies
    BY <1>3, LenProperties, ElementOfSeq
  <2> QED BY <1>3, <2>1, LenProperties DEF Replies
<1>7. /\ DOMAIN asked = 1..Len(asked) /\ Len(asked) \in Nat
      /\ \A k \in DOMAIN asked : asked[k].seq \in Nat
  BY AskedTyped DEF Pdus
<1>8. /\ \A k \in DOMAIN asked : IsRequest(asked[k])
                /\ \E l \in DOMAIN sent[c] : asked[k] = sent[c][l]
      /\ \A l \in DOMAIN sent[c] : IsRequest(sent[c][l]) =>
                \E k \in DOMAIN asked : asked[k] = sent[c][l]
      /\ Rising(asked)
  BY DEF RpcInv, AskedInv
<1>9. \A k \in DOMAIN replies[c] : k \in DOMAIN asked /\ replies[c][k].seq = asked[k].seq
  BY DEF RpcInv, MatchInv
<1>10. NoneMissing(i)
  BY <1>1, <1>2 DEF RpcInv, PlacesInv
<1> HIDE DEF n, out, r, i
<1>11. PICK l \in DOMAIN sent[c] :
            r = [kind |-> sent[c][l].kind, seq |-> sent[c][l].seq,
                 z |-> Answer(sent[c][l].kind, sent[c][l].arg)]
  <2>1. r \in AnswersTo(sent[c])
    BY <1>4, <1>5 DEF AnswersIn
  <2> QED BY <2>1 DEF AnswersTo, Range
<1>12. IsRequest(sent[c][l])
  <2>1. r.kind \in Requests
    BY <1>4, <1>5
  <2> QED BY <1>11, <2>1 DEF IsRequest
<1>13. PICK m \in DOMAIN asked : asked[m] = sent[c][l]
  BY <1>8, <1>12
<1>14. asked[m].seq = r.seq
  BY <1>11, <1>13
<1>15. m \notin DOMAIN replies[c]
  <2> SUFFICES ASSUME m \in DOMAIN replies[c] PROVE FALSE
    OBVIOUS
  <2>1. replies[c][m].seq = r.seq
    BY <1>9, <1>14
  <2>2. replies[c][m].seq < r.seq
    BY <1>4, <1>5 DEF Below
  <2> QED BY <1>5, <2>1, <2>2
<1>16. ~(n < m)
  <2> SUFFICES ASSUME n < m PROVE FALSE
    OBVIOUS
  <2>1. n \in DOMAIN asked /\ n \notin DOMAIN replies[c]
    BY <1>6, <1>7, <1>13 DEF n
  <2>2. asked[n].seq < r.seq
    BY <1>8, <1>14, <2>1 DEF Rising
  <2> DEFINE seq == asked[n].seq
  <2>3. seq \in Nat /\ seq < r.seq
    BY <1>7, <2>1, <2>2
  <2>4. Placed(i, seq)
    <3>1. PICK k \in DOMAIN sent[c] : asked[n] = sent[c][k]
      BY <1>8, <2>1
    <3>2. IsRequest(sent[c][k])
      BY <1>8, <2>1, <3>1
    <3> QED BY <1>2, <1>10, <3>1, <3>2 DEF NoneMissing
  <2>5. ~Among(replies[c], seq)
    <3> SUFFICES ASSUME NEW k \in DOMAIN replies[c], replies[c][k].seq = seq PROVE FALSE
      BY DEF Among
    <3>1. k \in DOMAIN asked /\ asked[k].seq = seq
      BY <1>9
    <3>2. k < n
      BY <1>6 DEF n
    <3>3. asked[k].seq < asked[n].seq
      BY <1>8, <2>1, <3>1, <3>2 DEF Rising
    <3> QED BY <2>3, <3>1, <3>3
  <2>6. ~Among(out, seq)
    <3> SUFFICES ASSUME NEW k \in DOMAIN out, out[k].seq = seq PROVE FALSE
      BY DEF Among
    <3>1. k = 1 \/ 1 < k
      BY <1>3, LenProperties
    <3>2. r.seq <= out[k].seq
      BY <1>4, <1>5, <2>3, <3>1 DEF Rising
    <3> QED BY <1>5, <2>3, <3>2
  <2>7. ~Among(toServer[c], seq)
    <3> SUFFICES ASSUME NEW k \in DOMAIN toServer[c], toServer[c][k].seq = seq PROVE FALSE
      BY DEF Among
    <3>1. r.seq < seq
      BY <1>4, <1>5 DEF Below
    <3> QED BY <1>5, <2>3, <3>1
  <2>8. ~InFlight(peers[i].id, seq)
    <3>1. ASSUME NEW q, AllFit(q), NEW k \in DOMAIN q, q[k].subid \in Requests,
                 q[k].id = peers[i].id, q[k].seq = seq
          PROVE  FALSE
      <4>1. Tracked(q[k], i)
        BY <1>1, <1>2, <3>1 DEF AllFit, Fits
      <4>2. out[1].seq < seq
        BY <1>2, <1>5, <3>1, <4>1 DEF Tracked
      <4> QED BY <1>5, <2>3, <4>2
    <3>2. AllFit(gppq) /\ AllFit(hold) /\ AllFit(dspq)
      BY DEF LineInv, FlightInv
    <3> HIDE DEF seq
    <3> QED BY <3>1, <3>2 DEF InFlight, Carried
  <2> HIDE DEF seq
  <2> QED BY <1>2, <2>4, <2>5, <2>6, <2>7, <2>8 DEF Placed
<1>17. m = n
  BY <1>6, <1>7, <1>13, <1>15, <1>16 DEF n
<1> QED BY <1>11, <1>13, <1>17 DEF n, r, out

(* A client sends: its requests are as they were, or one more.             *)
LEMMA SendAsked ==
  ASSUME TInv, LineInv, RpcInv, NEW c \in Clients, NEW kind \in Kinds, ClientSend(c, kind),
         UNCHANGED <<replies>>
  PROVE  /\ AskedInv' /\ MatchInv'
         /\ \A d \in Clients : d # c => sent'[d] = sent[d]
         /\ RequestsIn(sent'[c]) =
                IF kind \in Requests THEN Append(RequestsIn(sent[c]), Pdu(c, kind))
                ELSE RequestsIn(sent[c])
<1> DEFINE l == Len(sent[c]) + 1
           pdu == Pdu(c, kind)
           s == sent[c]
           t == sent'[c]
           asked == RequestsIn(s)
           new == RequestsIn(t)
<1>1. /\ pdu \in Pdus /\ l \in Nat /\ pdu.seq = l - 1
      /\ sent'[c][l] = pdu /\ l \in DOMAIN sent'[c]
      /\ \A k \in DOMAIN sent'[c] : k \in DOMAIN sent[c] \/ k = l
      /\ \A k \in DOMAIN sent[c] : k \in DOMAIN sent'[c] /\ sent'[c][k] = sent[c][k]
      /\ \A d \in Clients : d # c => sent'[d] = sent[d]
      /\ \A k \in DOMAIN sent[c] : k \in Nat /\ k < l
  BY SendExtends
<1>2. t = Append(s, pdu) /\ s \in Seq(Pdus)
  BY DEF ClientSend
<1>3. pdu.kind = kind
  BY DEF Pdu
<1>4. /\ \A n \in DOMAIN asked : IsRequest(asked[n])
                /\ \E k \in DOMAIN s : asked[n] = s[k]
      /\ \A k \in DOMAIN s : IsRequest(s[k]) => \E n \in DOMAIN asked : asked[n] = s[k]
      /\ Rising(asked)
  BY DEF RpcInv, AskedInv
<1>5. \A k \in DOMAIN s : s[k].seq = k - 1
  BY DEF LineInv, SentInv
<1>6. /\ \A k \in DOMAIN replies[c] : k \in DOMAIN asked /\ replies[c][k].seq = asked[k].seq
  BY DEF RpcInv, MatchInv
<1> HIDE DEF pdu, l, s, t
<1>7. /\ asked \in Seq(Pdus)
      /\ new = IF IsRequest(pdu) THEN Append(asked, pdu) ELSE asked
  BY <1>1, <1>2, RequestsOf
<1> HIDE DEF asked, new
<1>8. /\ \A n \in DOMAIN new : IsRequest(new[n]) /\ \E k \in DOMAIN t : new[n] = t[k]
      /\ \A k \in DOMAIN t : IsRequest(t[k]) => \E n \in DOMAIN new : new[n] = t[k]
      /\ Rising(new)
      /\ \A n \in DOMAIN asked : n \in DOMAIN new /\ new[n] = asked[n]
  <2>0. /\ t[l] = pdu /\ l \in DOMAIN t
        /\ \A k \in DOMAIN t : k \in DOMAIN s \/ k = l
        /\ \A k \in DOMAIN s : k \in DOMAIN t /\ t[k] = s[k]
    BY <1>1 DEF s, t
  <2>1. CASE ~IsRequest(pdu)
    <3>1. new = asked
      BY <1>7, <2>1
    <3>2. \A n \in DOMAIN new : \E k \in DOMAIN t : new[n] = t[k]
      BY <1>4, <2>0, <3>1
    <3>3. ASSUME NEW k \in DOMAIN t, IsRequest(t[k])
          PROVE  k \in DOMAIN s /\ t[k] = s[k]
      BY <2>0, <2>1, <3>3
    <3>4. \A k \in DOMAIN t : IsRequest(t[k]) => \E n \in DOMAIN new : new[n] = t[k]
      BY <1>4, <3>1, <3>3
    <3> QED BY <1>4, <3>1, <3>2, <3>4
  <2>2. CASE IsRequest(pdu)
    <3> DEFINE m == Len(asked) + 1
    <3>1. /\ m \in DOMAIN new /\ new[m] = pdu
          /\ \A n \in DOMAIN asked : n \in DOMAIN new /\ new[n] = asked[n]
          /\ \A n \in DOMAIN new : n \in DOMAIN asked \/ n = m
      BY <1>1, <1>7, <2>2, AppendShape
    <3> HIDE DEF m
    <3>2. \A n \in DOMAIN asked : asked[n].seq < pdu.seq
      <4> SUFFICES ASSUME NEW n \in DOMAIN asked PROVE asked[n].seq < pdu.seq
        OBVIOUS
      <4>1. PICK k \in DOMAIN s : asked[n] = s[k]
        BY <1>4
      <4>2. s[k].seq = k - 1 /\ k \in Nat /\ k < l
        BY <1>1, <1>5 DEF s
      <4> QED BY <1>1, <4>1, <4>2
    <3>3. Rising(new)
      BY <1>1, <1>4, <1>7, <2>2, <3>2, RisingAppend
    <3>4. ASSUME NEW n \in DOMAIN new
          PROVE  IsRequest(new[n]) /\ \E k \in DOMAIN t : new[n] = t[k]
      <4>1. CASE n = m
        BY <2>0, <2>2, <3>1, <4>1
      <4>2. CASE n \in DOMAIN asked
        <5>1. new[n] = asked[n] /\ IsRequest(asked[n])
          BY <1>4, <3>1, <4>2
        <5>2. PICK k \in DOMAIN s : asked[n] = s[k]
          BY <1>4, <4>2
        <5>3. k \in DOMAIN t /\ new[n] = t[k]
          BY <2>0, <5>1, <5>2
        <5> QED BY <5>1, <5>3
      <4> QED BY <3>1, <3>4, <4>1, <4>2
    <3>5. ASSUME NEW k \in DOMAIN t, IsRequest(t[k])
          PROVE  \E n \in DOMAIN new : new[n] = t[k]
      <4>1. CASE k = l
        BY <2>0, <3>1, <4>1
      <4>2. CASE k \in DOMAIN s
        <5>1. PICK n \in DOMAIN asked : asked[n] = s[k]
          BY <1>4, <2>0, <3>5, <4>2
        <5> QED BY <2>0, <3>1, <4>2, <5>1
      <4> QED BY <2>0, <4>1, <4>2
    <3> QED BY <3>1, <3>3, <3>4, <3>5
  <2> QED BY <2>1, <2>2
<1>9. AskedInv'
  <2> SUFFICES ASSUME NEW d \in Clients
               PROVE  LET asked_1 == RequestsIn(sent'[d]) IN
                      /\ \A n \in DOMAIN asked_1 : IsRequest(asked_1[n])
                              /\ \E k \in DOMAIN sent'[d] : asked_1[n] = sent'[d][k]
                      /\ \A k \in DOMAIN sent'[d] : IsRequest(sent'[d][k]) =>
                              \E n \in DOMAIN asked_1 : asked_1[n] = sent'[d][k]
                      /\ Rising(asked_1)
    BY DEF AskedInv
  <2>1. CASE d = c
    BY <1>8, <2>1 DEF new, t
  <2>2. CASE d # c
    BY <1>1, <2>2 DEF RpcInv, AskedInv
  <2> QED BY <2>1, <2>2
<1>10. MatchInv'
  <2> SUFFICES ASSUME NEW d \in Clients, NEW n \in DOMAIN replies[d]
               PROVE  /\ n \in DOMAIN RequestsIn(sent'[d])
                      /\ replies[d][n].seq = RequestsIn(sent'[d])[n].seq
    BY DEF MatchInv
  <2>1. CASE d = c
    BY <1>6, <1>8, <2>1 DEF new, t
  <2>2. CASE d # c
    BY <1>1, <2>2 DEF RpcInv, MatchInv
  <2> QED BY <2>1, <2>2
<1>11. IsRequest(pdu) <=> kind \in Requests
  BY <1>3 DEF IsRequest
<1> QED BY <1>1, <1>7, <1>9, <1>10, <1>11 DEF s, t, asked, new, pdu

LEMMA SendRefines ==
  ASSUME TInv, LineInv, RpcInv, NEW c \in Clients, NEW kind \in Kinds, ClientSend(c, kind)
  PROVE  [Rpc!Next]_(Rpc!vars)
<1>1. replies' = replies
  BY DEF ClientSend
<1>2. /\ \A d \in Clients : d # c => sent'[d] = sent[d]
      /\ RequestsIn(sent'[c]) =
                IF kind \in Requests THEN Append(RequestsIn(sent[c]), Pdu(c, kind))
                ELSE RequestsIn(sent[c])
  BY <1>1, SendAsked
<1> DEFINE asked == [d \in Clients |-> RequestsIn(sent[d])]
           new == [d \in Clients |-> RequestsIn(sent'[d])]
<1>3. CASE kind \notin Requests
  <2>1. \A d \in Clients : RequestsIn(sent'[d]) = RequestsIn(sent[d])
    BY <1>2, <1>3
  <2>2. new = asked
    BY <2>1
  <2> QED BY <1>1, <2>2 DEF Rpc!vars
<1>4. CASE kind \in Requests
  <2> DEFINE seq == Len(sent[c])
  <2>1. seq \in 0..MaxReqs
    BY LenProperties, SocketsAssumption DEF ClientSend
  <2>2. Pdu(c, kind) = [kind |-> kind, seq |-> seq, arg |-> <<c, seq>>]
    BY DEF Pdu
  <2> HIDE DEF seq
  <2>3. new = [asked EXCEPT ![c] = Append(asked[c], [kind |-> kind, seq |-> seq, arg |-> <<c, seq>>])]
    BY <1>2, <1>4, <2>2
  <2>4. new # asked
    <3> DEFINE old == RequestsIn(sent[c])
    <3>1. old \in Seq(Pdus) /\ new[c] = Append(old, Pdu(c, kind))
      BY <1>2, <1>4, AskedTyped
    <3> HIDE DEF old, new
    <3>2. Len(new[c]) = Len(old) + 1 /\ Len(old) \in Nat
      BY <3>1, AppendProperties, LenProperties
    <3> QED BY <3>2 DEF old
  <2>5. Rpc!Ask(c)
    BY <1>1, <1>4, <2>1, <2>3, <2>4 DEF Rpc!Ask
  <2> QED BY <2>5 DEF Rpc!Next
<1> QED BY <1>3, <1>4

LEMMA WriteRefines ==
  ASSUME TInv, LineInv, RpcInv, WriteReply
  PROVE  MatchInv' /\ [Rpc!Next]_(Rpc!vars)
<1>1. pc = "write" /\ AtPeer /\ UNCHANGED sent
  BY DEF WriteReply, Writing, PeersInv
<1>2. PICK c \in Clients : c = Conn
  BY <1>1, ThisPeer
<1>3. replies[c] \in Seq(Replies) /\ Len(replies[c]) \in Nat
  BY LenProperties
<1> DEFINE asked == [d \in Clients |-> RequestsIn(sent[d])]
           n == Len(replies[c]) + 1
           r == [kind |-> asked[c][n].kind, seq |-> asked[c][n].seq,
                 z |-> Answer(asked[c][n].kind, asked[c][n].arg)]
<1>4. n \in DOMAIN asked[c] /\ Head(This.out) = r
  BY <1>2, WritesNext
<1>5. replies' = [replies EXCEPT ![c] = Append(@, r)]
  BY <1>2, <1>4 DEF WriteReply
<1>6. r \in Replies
  <2>1. This.out \in Seq(Replies) /\ This.out # <<>>
    BY <1>1, ThisPeer DEF Peers, WriteReply, Writing
  <2> DEFINE out == This.out
  <2> HIDE DEF out
  <2>2. out \in Seq(Replies) /\ out # <<>> => Head(out) \in Replies
    BY TailShape
  <2> QED BY <1>4, <2>1, <2>2 DEF out
<1>7. DOMAIN asked[c] = 1..Len(asked[c]) /\ Len(asked[c]) \in Nat
  BY AskedTyped
<1>8. Rpc!AnswerNext(c)
  <2>1. n <= Len(asked[c])
    BY <1>4, <1>7
  <2> QED BY <1>1, <1>5, <2>1 DEF Rpc!AnswerNext
<1>9. MatchInv'
  <2> SUFFICES ASSUME NEW d \in Clients, NEW k \in DOMAIN replies'[d]
               PROVE  /\ k \in DOMAIN asked[d]
                      /\ replies'[d][k].seq = asked[d][k].seq
    BY <1>1 DEF MatchInv
  <2>1. \A j \in DOMAIN replies[d] : j \in DOMAIN asked[d] /\ replies[d][j].seq = asked[d][j].seq
    BY DEF RpcInv, MatchInv
  <2>2. CASE d # c
    BY <1>5, <2>1, <2>2
  <2>3. CASE d = c
    <3> DEFINE old == replies[c]
    <3>1. old \in Seq(Replies) /\ replies'[c] = Append(old, r) /\ r.seq = asked[c][n].seq
      BY <1>3, <1>5
    <3> HIDE DEF old, r
    <3>2. /\ \A j \in DOMAIN Append(old, r) : j \in DOMAIN old \/ j = Len(old) + 1
          /\ Append(old, r)[Len(old) + 1] = r
          /\ \A j \in DOMAIN old : Append(old, r)[j] = old[j]
      BY ONLY <1>6, <3>1, AppendShape
    <3> QED BY <1>4, <2>1, <2>3, <3>1, <3>2 DEF old
  <2> QED BY <2>2, <2>3
<1> QED BY <1>8, <1>9 DEF Rpc!Next

(* Where a request is, when queues move.                                   *)

LEMMA BehindHead ==
  ASSUME NEW S, NEW s \in Seq(S), s # <<>>, NEW k \in DOMAIN s, s[k] # Head(s)
  PROVE  k - 1 \in DOMAIN Tail(s) /\ Tail(s)[k - 1] = s[k]
<1>1. /\ Len(s) \in Nat \ {0} /\ DOMAIN s = 1..Len(s)
      /\ Tail(s) \in Seq(S) /\ Len(Tail(s)) = Len(s) - 1
      /\ Head(s) = s[1]
      /\ \A i \in 1..(Len(s) - 1) : Tail(s)[i] = s[i + 1]
  BY HeadTailProperties, LenProperties, EmptySeq
<1>2. DOMAIN Tail(s) = 1..(Len(s) - 1)
  BY <1>1, LenProperties
<1>3. k # 1
  BY <1>1
<1>4. k - 1 \in 1..(Len(s) - 1) /\ (k - 1) + 1 = k
  BY ONLY <1>1, <1>3, k \in DOMAIN s
<1> QED BY <1>1, <1>2, <1>4

LEMMA AmongTail ==
  ASSUME NEW S, NEW s \in Seq(S), s # <<>>, NEW seq, Among(s, seq)
  PROVE  Among(Tail(s), seq) \/ Head(s).seq = seq
<1>1. PICK k \in DOMAIN s : s[k].seq = seq
  BY DEF Among
<1>2. CASE s[k] = Head(s)
  BY <1>1, <1>2
<1>3. CASE s[k] # Head(s)
  <2>1. k - 1 \in DOMAIN Tail(s) /\ Tail(s)[k - 1] = s[k]
    BY <1>3, BehindHead
  <2> QED BY <1>1, <2>1 DEF Among
<1> QED BY <1>2, <1>3

LEMMA AmongAppend ==
  ASSUME NEW S, NEW s \in Seq(S), NEW e \in S
  PROVE  /\ \A seq : Among(s, seq) => Among(Append(s, e), seq)
         /\ Among(Append(s, e), e.seq)
<1> DEFINE t == Append(s, e)
<1>1. /\ Len(s) + 1 \in DOMAIN t /\ t[Len(s) + 1] = e
      /\ \A i \in DOMAIN s : i \in DOMAIN t /\ t[i] = s[i]
  BY AppendShape
<1> HIDE DEF t
<1>2. (\A seq : Among(s, seq) => Among(t, seq)) /\ Among(t, e.seq)
  BY <1>1 DEF Among
<1> QED BY <1>2 DEF t

LEMMA CarriedTail ==
  ASSUME NEW q \in Seq(Messages), q # <<>>, NEW id, NEW seq, Carried(q, id, seq)
  PROVE  \/ Carried(Tail(q), id, seq)
         \/ Head(q).subid \in Requests /\ Head(q).id = id /\ Head(q).seq = seq
<1>1. PICK k \in DOMAIN q : q[k].subid \in Requests /\ q[k].id = id /\ q[k].seq = seq
  BY DEF Carried
<1>2. CASE q[k] = Head(q)
  BY <1>1, <1>2
<1>3. CASE q[k] # Head(q)
  <2>1. k - 1 \in DOMAIN Tail(q) /\ Tail(q)[k - 1] = q[k]
    BY <1>3, BehindHead
  <2> QED BY <1>1, <2>1 DEF Carried
<1> QED BY <1>2, <1>3

LEMMA CarriedAppend ==
  ASSUME NEW q \in Seq(Messages), NEW m \in Messages
  PROVE  /\ \A id, seq : Carried(q, id, seq) => Carried(Append(q, m), id, seq)
         /\ m.subid \in Requests => Carried(Append(q, m), m.id, m.seq)
<1> DEFINE t == Append(q, m)
<1>1. /\ Len(q) + 1 \in DOMAIN t /\ t[Len(q) + 1] = m
      /\ \A i \in DOMAIN q : i \in DOMAIN t /\ t[i] = q[i]
  BY AppendShape
<1> HIDE DEF t
<1>2. /\ \A id, seq : Carried(q, id, seq) => Carried(t, id, seq)
      /\ m.subid \in Requests => Carried(t, m.id, m.seq)
  BY <1>1 DEF Carried
<1> QED BY <1>2 DEF t

LEMMA CarriedOne ==
  ASSUME NEW m, NEW id, NEW seq
  PROVE  Carried(<<m>>, id, seq) <=> m.subid \in Requests /\ m.id = id /\ m.seq = seq
BY OneElement DEF Carried

LEMMA CarriesNone == \A id, seq : ~Carried(<<>>, id, seq)
BY NoElement DEF Carried

(* The DSP takes a request from its queue and puts it back: it stays in    *)
(* flight, for it knows the server's queue and its calls do not fail.      *)
LEMMA DspCarriesOn ==
  ASSUME TInv, AddressInv, ~DspFaults, DspActs, NEW id, NEW seq, InFlight(id, seq)
  PROVE  InFlight(id, seq)'
<1>1. Len(hold) \in Nat /\ DOMAIN hold = 1..Len(hold) /\ (hold # <<>> => Len(hold) # 0)
  BY LenProperties, EmptySeq
<1>2. ASSUME NEW K, Holding(K)
      PROVE  /\ hold = <<hold[1]>> /\ hold[1] \in Messages /\ hold[1].subid \in K
             /\ 1 \in DOMAIN hold
  <2>1. hold[1] \in Messages /\ hold[1].subid \in K /\ hold # <<>>
    BY <1>2, HoldTyped DEF Holding
  <2>2. Len(hold) <= 1
    <3>1. hold # <<>> /\ (hold = <<>> => Len(hold) = 0)
      BY <2>1, EmptySeq
    <3> QED BY <3>1, EmptySeq DEF StageInv, Fresh, AskedReply, LookingUp, LookedUp, Told, Running, DspHasJust
  <2>3. Len(hold) = 1
    BY <1>1, <2>1, <2>2
  <2>4. <<hold[1]>> \in Seq(Messages) /\ Len(<<hold[1]>>) = 1 /\ <<hold[1]>>[1] = hold[1]
    BY <2>1
  <2>5. hold = <<hold[1]>>
    BY <2>3, <2>4, SeqEqual
  <2> QED BY <1>1, <2>1, <2>3, <2>5
<1>3. CASE DspGet
  <2>1. /\ hold = <<>> /\ dspq # <<>> /\ gppq' = gppq
        /\ hold' = <<Head(dspq)>> /\ dspq' = Tail(dspq)
    BY <1>3 DEF DspGet
  <2>2. ~Carried(hold, id, seq)
    BY <2>1, CarriesNone
  <2>3. Carried(dspq, id, seq) => Carried(Tail(dspq), id, seq) \/ Carried(<<Head(dspq)>>, id, seq)
    <3>1. PICK q, m : q = dspq /\ m = Head(dspq)
      OBVIOUS
    <3>2. q \in Seq(Messages) /\ q # <<>>
      BY <2>1, <3>1
    <3>3. Carried(q, id, seq) =>
              \/ Carried(Tail(q), id, seq)
              \/ Head(q).subid \in Requests /\ Head(q).id = id /\ Head(q).seq = seq
      BY ONLY <3>2, CarriedTail
    <3>4. m.subid \in Requests /\ m.id = id /\ m.seq = seq => Carried(<<m>>, id, seq)
      BY ONLY CarriedOne
    <3> QED BY ONLY <3>1, <3>3, <3>4
  <2> QED BY <2>1, <2>2, <2>3 DEF InFlight
<1>4. CASE DspStartLocate \/ DspAsyncLocate \/ DspShutdown
  <2>1. PICK K \in {{"getreply"}, {"async"}, {"shutdown"}} : Holding(K)
    BY <1>4 DEF DspStartLocate, DspAsyncLocate, DspShutdown
  <2>2. hold[1].subid \notin Requests
    BY <1>2, <2>1 DEF Requests
  <2>3. ~Carried(hold, id, seq)
    <3>1. hold = <<hold[1]>>
      BY <1>2, <2>1
    <3> QED BY <2>2, <3>1, CarriedOne
  <2>4. dspq' = dspq
    BY <1>4 DEF DspStartLocate, DspAsyncLocate, DspShutdown
  <2>5. Carried(gppq, id, seq) => Carried(gppq', id, seq)
    <3>1. CASE gppq' = gppq
      BY <3>1
    <3>2. CASE DspAsyncLocate /\ gppq' # gppq
      <4> DEFINE m == [parked[1] EXCEPT !.reply_msgq = hold[1].reply_msgq]
      <4>1. gppq' = Append(gppq, m)
        BY <3>2 DEF DspAsyncLocate, PutBackOrFree
      <4>2. m \in Messages
        <5>1. LookedUp
          BY <3>2, HoldStage DEF DspAsyncLocate
        <5>2. 1 \in 1..Len(parked)
          BY <5>1 DEF LookedUp
        <5>3. parked[1] \in Messages /\ hold[1] \in Messages
          BY <1>2, <2>1, <5>2, ElementOfSeq
        <5> QED BY <5>3 DEF Messages
      <4> HIDE DEF m
      <4> QED BY <4>1, <4>2, CarriedAppend
    <3> QED BY <1>4, <3>1, <3>2 DEF DspStartLocate, DspShutdown
  <2> QED BY <2>3, <2>4, <2>5 DEF InFlight
<1>5. CASE DspCompute
  <2>1. /\ hold = <<hold[1]>> /\ hold[1] \in Messages /\ hold[1].subid \in Requests
        /\ 1 \in DOMAIN hold
    BY <1>2, <1>5 DEF DspCompute
  <2> DEFINE n == hold[1]
             m == Computed(n)
  <2>2. /\ m \in Messages /\ m.id = n.id /\ m.seq = n.seq /\ m.subid = n.subid
        /\ m.reply_msgq = n.reply_msgq
    BY <2>1 DEF Computed, Messages, Results, Subids, Answer
  <2>3. n.reply_msgq # NoQueue
    BY <2>1 DEF AddressInv, Addressed
  <2>4. gppq' = Append(gppq, m) /\ dspq' = dspq
    BY <1>5, <2>2, <2>3 DEF DspCompute, PutBackOrFree
  <2> HIDE DEF m
  <2>5. /\ Carried(gppq, id, seq) => Carried(gppq', id, seq)
        /\ Carried(gppq', m.id, m.seq)
    BY <2>1, <2>2, <2>4, CarriedAppend
  <2>6. Carried(hold, id, seq) => id = m.id /\ seq = m.seq
    BY <2>1, <2>2, CarriedOne
  <2> QED BY <2>4, <2>5, <2>6 DEF InFlight
<1>6. CASE DspGetFails \/ DspFreesOther
  BY <1>6 DEF DspGetFails, DspFreesOther, msgqVars, InFlight
<1> QED BY <1>3, <1>4, <1>5, <1>6 DEF DspActs, DspStep

(* A message sent to the DSP takes nothing out of flight.                  *)
LEMMA SentCarries ==
  ASSUME TInv, NEW m \in Messages, dspq' = Append(dspq, m), UNCHANGED <<gppq, hold>>,
         NEW id, NEW seq
  PROVE  /\ InFlight(id, seq) => InFlight(id, seq)'
         /\ m.subid \in Requests /\ m.id = id /\ m.seq = seq => InFlight(id, seq)'
<1>1. dspq \in Seq(Messages)
  OBVIOUS
<1> QED BY <1>1, CarriedAppend DEF InFlight

(* No request is lost. Each peer is one that was there, with the same      *)
(* client, and what is looked for is still in one of its places.           *)

Wanted(c, seq) == \E k \in DOMAIN sent[c] : IsRequest(sent[c][k]) /\ sent[c][k].seq = seq

LEMMA PlacesKept ==
  ASSUME PlacesInv, pc # "stopped", UNCHANGED sent,
         \A i \in DOMAIN peers' : \E j \in DOMAIN peers :
            /\ owner'[peers'[i].sck] = owner[peers[j].sck]
            /\ \A seq : Wanted(owner[peers[j].sck], seq) /\ Placed(j, seq) => Placed(i, seq)'
  PROVE  PlacesInv'
<1> SUFFICES ASSUME NEW i \in DOMAIN peers'
             PROVE  NoneMissing(i)'
  BY DEF PlacesInv
<1>1. PICK j \in DOMAIN peers :
            /\ owner'[peers'[i].sck] = owner[peers[j].sck]
            /\ \A seq : Wanted(owner[peers[j].sck], seq) /\ Placed(j, seq) => Placed(i, seq)'
  OBVIOUS
<1>2. PICK c : c = owner[peers[j].sck]
  OBVIOUS
<1>3. ASSUME NEW k \in DOMAIN sent[c], IsRequest(sent[c][k])
      PROVE  \E seq : seq = sent[c][k].seq /\ Placed(i, seq)'
  <2>1. PICK seq : seq = sent[c][k].seq
    OBVIOUS
  <2>2. Placed(j, seq)
    BY <1>2, <1>3, <2>1 DEF PlacesInv, NoneMissing
  <2>3. Wanted(c, seq)
    BY <1>3, <2>1 DEF Wanted
  <2>4. Placed(i, seq)'
    BY <1>1, <1>2, <2>2, <2>3
  <2> QED BY <2>1, <2>4
<1> QED BY <1>1, <1>2, <1>3 DEF NoneMissing, Placed

LEMMA UnmovedKeepsPlaces ==
  ASSUME PlacesInv, UNCHANGED <<sent, replies, toServer>>,
         \/ pc' = "stopped"
         \/ pc # "stopped" /\ UNCHANGED <<peers, owner>>,
         \A id, seq : InFlight(id, seq) => InFlight(id, seq)'
  PROVE  PlacesInv'
<1>1. CASE pc' = "stopped"
  BY <1>1 DEF PlacesInv
<1>2. CASE pc # "stopped" /\ UNCHANGED <<peers, owner>>
  <2>1. ASSUME NEW i \in DOMAIN peers, NEW seq, Placed(i, seq)
        PROVE  Placed(i, seq)'
    <3>1. PICK id : id = peers[i].id
      OBVIOUS
    <3>2. InFlight(id, seq) => InFlight(id, seq)'
      OBVIOUS
    <3>3. InFlight(peers[i].id, seq) <=> InFlight(id, seq)
      BY <3>1
    <3>4. InFlight(peers[i].id, seq)' <=> InFlight(id, seq)'
      BY <1>2, <3>1 DEF InFlight
    <3> QED BY <1>2, <2>1, <3>2, <3>3, <3>4 DEF Placed, Among
  <2> QED BY <1>2, <2>1, PlacesKept
<1> QED BY <1>1, <1>2

LEMMA PlacedNow ==
  ASSUME NEW i, NEW seq, NEW c, c = owner[peers[i].sck], NEW id, id = peers[i].id, Placed(i, seq)
  PROVE  Among(replies[c], seq) \/ Among(peers[i].out, seq) \/ InFlight(id, seq)
            \/ Among(toServer[c], seq)
BY DEF Placed

LEMMA PlacedThen ==
  ASSUME NEW i, NEW seq, NEW c, c = owner'[peers'[i].sck], NEW id, id = peers'[i].id,
         Among(replies'[c], seq) \/ Among(peers'[i].out, seq) \/ InFlight(id, seq)'
            \/ Among(toServer'[c], seq)
  PROVE  Placed(i, seq)'
<1>1. InFlight(peers[i].id, seq)' <=> InFlight(id, seq)'
  BY DEF InFlight
<1> QED BY <1>1 DEF Placed, Among

(* A message is processed: what it carried is queued for its peer.         *)
LEMMA ProcessKeepsPlaces ==
  ASSUME TInv, PlacesInv, ProcessOneMsgq, ~GppFaults, pc # "stopped", UNCHANGED hold
  PROVE  PlacesInv'
<1>1. /\ gppq # <<>> /\ gppq' = Tail(gppq) /\ ProcessMymsg(Head(gppq))
      /\ UNCHANGED <<sent, replies, toServer, owner, dspq>>
  BY DEF ProcessOneMsgq, sockVars
<1>2. PICK m \in Messages : m = Head(gppq)
  BY <1>1, TailShape
<1>3. ASSUME NEW id, NEW seq, InFlight(id, seq)
      PROVE  InFlight(id, seq)' \/ (m.subid \in Requests /\ m.id = id /\ m.seq = seq)
  BY <1>1, <1>2, <1>3, CarriedTail DEF InFlight
<1>4. CASE m.subid = "getreply" /\ UNCHANGED peers
  <2>1. m.subid \notin Requests
    BY <1>4 DEF Requests
  <2> QED BY <1>1, <1>3, <1>4, <2>1, UnmovedKeepsPlaces
<1>5. CASE m.subid \in Requests /\ peers' = Queued(m)
  <2> DEFINE r == Reply(m)
  <2>1. r \in Replies /\ r.seq = m.seq
    BY DEF Reply, Replies, Messages
  <2> HIDE DEF r
  <2>2. /\ DOMAIN peers' = DOMAIN peers
        /\ \A i \in DOMAIN peers :
              /\ peers'[i].id = peers[i].id /\ peers'[i].sck = peers[i].sck
              /\ \/ peers'[i].out = peers[i].out
                 \/ peers'[i].out = Append(peers[i].out, r)
    BY <1>5, QueuedShape DEF r
  <2>3. ASSUME NEW i \in DOMAIN peers, peers[i].id = m.id
        PROVE  peers'[i].out = Append(peers[i].out, r)
    <3>1. DOMAIN peers = 1..Len(peers) /\ Len(peers) \in Nat
      BY LenProperties
    <3>2. \A j \in 1..(i - 1) : j \in DOMAIN peers /\ j # i
      BY <3>1
    <3>3. \A j \in 1..(i - 1) : peers[j].id # m.id
      BY <2>3, <3>2 DEF PeersInv
    <3>4. peers'[i] = [peers[i] EXCEPT !.out = Append(@, r)]
      BY <1>5, <2>3, <3>3 DEF Queued, r
    <3>5. peers[i] \in Peers
      BY PeersClient
    <3> QED BY <3>4, <3>5 DEF Peers
  <2>4. ASSUME NEW i \in DOMAIN peers, NEW seq, Placed(i, seq)
        PROVE  Placed(i, seq)'
    <3>1. PICK c, id : c = owner[peers[i].sck] /\ id = peers[i].id
      OBVIOUS
    <3>2. c = owner'[peers'[i].sck] /\ id = peers'[i].id
      BY <1>1, <2>2, <3>1
    <3> DEFINE out == peers[i].out
    <3>3. out \in Seq(Replies)
      BY PeersClient
    <3> HIDE DEF out
    <3>4. /\ Among(out, seq) => Among(Append(out, r), seq)
          /\ Among(Append(out, r), r.seq)
      BY <2>1, <3>3, AmongAppend
    <3>5. Among(out, seq) => Among(peers'[i].out, seq)
      BY <2>2, <3>4 DEF out
    <3>6. InFlight(id, seq) => InFlight(id, seq)' \/ Among(peers'[i].out, seq)
      <4> SUFFICES ASSUME m.id = id, m.seq = seq
                   PROVE  Among(peers'[i].out, seq)
        BY <1>3
      <4> QED BY <2>1, <2>3, <3>1, <3>4 DEF out
    <3>7. Among(replies[c], seq) \/ Among(out, seq) \/ InFlight(id, seq) \/ Among(toServer[c], seq)
      BY <2>4, <3>1, PlacedNow DEF out
    <3> QED BY <1>1, <3>2, <3>5, <3>6, <3>7, PlacedThen
  <2> QED BY <1>1, <2>2, <2>4, PlacesKept
<1> QED BY <1>1, <1>2, <1>4, <1>5 DEF ProcessMymsg, QueueReply

LEMMA OthersConn ==
  ASSUME TInv, OwnersInv, pc # "stopped", AtPeer, NEW j \in DOMAIN peers, j # cursor
  PROVE  owner[peers[j].sck] # Conn
<1>1. /\ cursor \in DOMAIN peers /\ This = peers[cursor] /\ Conn = owner[peers[cursor].sck]
  BY ThisPeer DEF This, Conn
<1>2. peers[j].sck # peers[cursor].sck
  BY <1>1 DEF PeersInv
<1>3. /\ peers[j].sck \in Fds /\ peers[cursor].sck \in Fds
      /\ owner[peers[j].sck] # None /\ owner[peers[cursor].sck] # None
  BY <1>1, PeersClient
<1> QED BY <1>1, <1>2, <1>3 DEF OwnersInv

(* A PDU taken from a stream is the wanted request, or it is none.         *)
LEMMA TakesWanted ==
  ASSUME TInv, LineInv, NEW c \in Clients, toServer[c] # <<>>, toServer'[c] = Tail(toServer[c]),
         NEW seq, Wanted(c, seq), Among(toServer[c], seq)
  PROVE  \/ Among(toServer'[c], seq)
         \/ Head(toServer[c]).seq = seq /\ Head(toServer[c]).kind \in Requests
<1> DEFINE s == toServer[c]
<1>1. s \in Seq(Pdus) /\ s # <<>> /\ Among(s, seq)
  OBVIOUS
<1>2. \A k \in DOMAIN s : \E l \in DOMAIN sent[c] : s[k] = sent[c][l]
  BY DEF LineInv, StreamInv
<1>3. toServer'[c] = Tail(s)
  OBVIOUS
<1> HIDE DEF s
<1>4. Among(Tail(s), seq) \/ Head(s).seq = seq
  BY <1>1, AmongTail
<1>5. ASSUME Head(s).seq = seq
      PROVE  Head(s).kind \in Requests
  <2>1. 1 \in DOMAIN s /\ Head(s) = s[1]
    BY <1>1, TailShape
  <2>2. PICK l \in DOMAIN sent[c] : Head(s) = sent[c][l]
    BY <1>2, <2>1
  <2>3. PICK k \in DOMAIN sent[c] : IsRequest(sent[c][k]) /\ sent[c][k].seq = seq
    BY DEF Wanted
  <2>4. sent[c][l].seq = l - 1 /\ sent[c][k].seq = k - 1
    BY DEF LineInv, SentInv
  <2>5. l \in Nat /\ k \in Nat
    <3>1. DOMAIN sent[c] = 1..Len(sent[c]) /\ Len(sent[c]) \in Nat
      BY LenProperties
    <3> QED BY <3>1
  <2>6. l = k
    BY <1>5, <2>2, <2>3, <2>4, <2>5
  <2> QED BY <2>2, <2>3, <2>6 DEF IsRequest
<1> QED BY <1>3, <1>4, <1>5 DEF s

(* The server reads, and removes a peer or takes nothing of its client's   *)
(* that is wanted.                                                         *)
LEMMA ReadKeepsPlaces ==
  ASSUME TInv, OwnersInv, LineInv, PlacesInv, pc # "stopped", AtPeer,
         UNCHANGED <<sent, replies, gppq, hold, dspq>>,
         \/ \E in \in {"none", "header", "payload"} : AfterRead(in)
         \/ RemoveThis,
         \/ LeavePdu
         \/ /\ toServer[Conn] # <<>> /\ TakePdu
            /\ RemoveThis \/ Head(toServer[Conn]).kind \notin Requests
  PROVE  PlacesInv'
<1>0. /\ cursor \in DOMAIN peers /\ Conn = owner[peers[cursor].sck] /\ Conn \in Clients
      /\ \A i \in DOMAIN peers : peers[i] \in Peers /\ owner[peers[i].sck] \in Clients
  BY ThisPeer, PeersClient DEF This, Conn
<1>1. ASSUME NEW i \in DOMAIN peers', NEW j \in DOMAIN peers,
             peers'[i].id = peers[j].id, peers'[i].out = peers[j].out,
             owner'[peers'[i].sck] = owner[peers[j].sck],
             RemoveThis => j # cursor,
             NEW seq, Wanted(owner[peers[j].sck], seq), Placed(j, seq)
      PROVE  Placed(i, seq)'
  <2>a. PICK c \in Clients : c = owner[peers[j].sck]
    BY <1>0
  <2>1. PICK id : c = owner[peers[j].sck] /\ id = peers[j].id
    BY <2>a
  <2>2. Among(toServer[c], seq) => Among(toServer'[c], seq)
    <3>1. CASE toServer'[c] = toServer[c]
      BY <3>1
    <3>2. CASE toServer'[c] # toServer[c]
      <4>1. c = Conn /\ TakePdu /\ toServer[c] # <<>>
        BY <1>0, <3>2 DEF LeavePdu, TakePdu
      <4>2. j = cursor
        BY <2>1, <4>1, OthersConn
      <4>3. Head(toServer[c]).kind \notin Requests
        BY <1>1, <3>2, <4>1, <4>2 DEF LeavePdu
      <4>4. toServer'[c] = Tail(toServer[c])
        BY <4>1 DEF TakePdu
      <4>5. Wanted(c, seq)
        BY <1>1, <2>1
      <4> QED BY <4>1, <4>3, <4>4, <4>5, TakesWanted
    <3> QED BY <3>1, <3>2
  <2>3. InFlight(id, seq) => InFlight(id, seq)'
    BY DEF InFlight
  <2>4. Among(replies[c], seq) \/ Among(peers[j].out, seq) \/ InFlight(id, seq)
            \/ Among(toServer[c], seq)
    BY <1>1, <2>1, PlacedNow
  <2>5. c = owner'[peers'[i].sck] /\ id = peers'[i].id
    BY <1>1, <2>1
  <2> QED BY <1>1, <2>2, <2>3, <2>4, <2>5, PlacedThen
<1>2. CASE RemoveThis
  <2>1. ASSUME NEW i \in DOMAIN peers'
        PROVE  \E j \in DOMAIN peers :
            /\ owner'[peers'[i].sck] = owner[peers[j].sck]
            /\ \A seq : Wanted(owner[peers[j].sck], seq) /\ Placed(j, seq) => Placed(i, seq)'
    <3>1. PICK j \in DOMAIN peers :
            /\ j # cursor /\ peers'[i] = peers[j]
            /\ owner'[peers[j].sck] = owner[peers[j].sck]
      BY <1>2, OthersStay
    <3> QED BY <1>1, <3>1
  <2> QED BY <2>1, PlacesKept
<1>3. ASSUME NEW in, AfterRead(in), ~RemoveThis
      PROVE  PlacesInv'
  <2>1. owner' = owner /\ peers' = [peers EXCEPT ![cursor].in = in]
    BY <1>3 DEF AfterRead
  <2>2. /\ DOMAIN peers' = DOMAIN peers
        /\ \A i \in DOMAIN peers : /\ peers'[i].id = peers[i].id /\ peers'[i].sck = peers[i].sck
                                   /\ peers'[i].out = peers[i].out
    BY <1>0, <2>1 DEF Peers
  <2>3. \A i \in DOMAIN peers : \A seq :
            Wanted(owner[peers[i].sck], seq) /\ Placed(i, seq) => Placed(i, seq)'
    BY <1>1, <1>3, <2>1, <2>2
  <2> QED BY <2>1, <2>2, <2>3, PlacesKept
<1> QED BY <1>2, <1>3

(* A request is forwarded: it leaves the stream and is in flight.          *)
LEMMA RequestKeepsPlaces ==
  ASSUME TInv, OwnersInv, LineInv, PlacesInv, ReadRequest, UNCHANGED hold
  PROVE  PlacesInv'
<1>1. /\ Reading /\ toServer[Conn] # <<>> /\ TakePdu /\ pc # "stopped" /\ AtPeer
      /\ Head(toServer[Conn]) \in Pdus /\ Head(toServer[Conn]).kind \in Requests
  BY TakeTyped DEF ReadRequest, ReadingPdu, Reading
<1>2. PICK pdu \in Pdus : pdu = Head(toServer[Conn])
  BY <1>1
<1>3. PICK m \in Messages : m = Forward(pdu)
  BY <1>1, <1>2, ForwardTyped
<1>4. CASE SendFails /\ RemoveThis
  <2>1. UNCHANGED <<sent, replies, gppq, dspq>>
    BY <1>4 DEF SendFails, AllocOrPutFails, msgqVars, RemoveThis
  <2> QED BY <1>1, <1>4, <2>1, ReadKeepsPlaces
<1>5. CASE SendCounted(m) /\ AfterRead("header")
  <2>0. /\ cursor \in DOMAIN peers /\ This = peers[cursor]
        /\ Conn = owner[peers[cursor].sck] /\ Conn \in Clients
        /\ \A i \in DOMAIN peers : peers[i] \in Peers /\ owner[peers[i].sck] \in Clients
    BY <1>1, ThisPeer, PeersClient DEF This, Conn
  <2>1. /\ UNCHANGED <<sent, replies, owner, gppq, hold>> /\ dspq' = Append(dspq, m)
        /\ peers' = [peers EXCEPT ![cursor].in = "header"]
    BY <1>5 DEF AfterRead, SendCounted, AllocAndPut
  <2>2. /\ DOMAIN peers' = DOMAIN peers
        /\ \A i \in DOMAIN peers : /\ peers'[i].id = peers[i].id /\ peers'[i].sck = peers[i].sck
                                   /\ peers'[i].out = peers[i].out
    BY <2>0, <2>1 DEF Peers
  <2>3. m.subid \in Requests /\ m.id = peers[cursor].id /\ m.seq = pdu.seq
    BY <1>1, <1>2, <1>3, <2>0 DEF Forward, Msg
  <2>4. ASSUME NEW i \in DOMAIN peers, NEW seq, Wanted(owner[peers[i].sck], seq), Placed(i, seq)
        PROVE  Placed(i, seq)'
    <3>a. PICK c \in Clients : c = owner[peers[i].sck]
      BY <2>0
    <3>1. PICK id : c = owner[peers[i].sck] /\ id = peers[i].id
      BY <3>a
    <3>2. Among(toServer[c], seq) => Among(toServer'[c], seq) \/ InFlight(id, seq)'
      <4>1. CASE c # Conn
        BY <1>1, <2>0, <4>1 DEF TakePdu
      <4>2. CASE c = Conn
        <5>1. i = cursor
          BY <1>1, <3>1, <4>2, OthersConn
        <5>2. toServer[c] # <<>> /\ toServer'[c] = Tail(toServer[c]) /\ Wanted(c, seq)
          BY <1>1, <2>4, <3>1, <4>2 DEF TakePdu
        <5>3. Among(toServer[c], seq) => Among(toServer'[c], seq) \/ pdu.seq = seq
          BY <1>2, <4>2, <5>2, TakesWanted
        <5>4. m.seq = seq /\ m.id = id => InFlight(id, seq)'
          BY <2>1, <2>3, SentCarries
        <5> QED BY <2>3, <3>1, <5>1, <5>3, <5>4
      <4> QED BY <4>1, <4>2
    <3>3. InFlight(id, seq) => InFlight(id, seq)'
      BY <2>1, SentCarries
    <3>4. Among(replies[c], seq) \/ Among(peers[i].out, seq) \/ InFlight(id, seq)
            \/ Among(toServer[c], seq)
      BY <2>4, <3>1, PlacedNow
    <3>5. c = owner'[peers'[i].sck] /\ id = peers'[i].id
      BY <2>1, <2>2, <3>1
    <3> QED BY <2>1, <2>2, <3>2, <3>3, <3>4, <3>5, PlacedThen
  <2> QED BY <1>1, <2>1, <2>2, <2>4, PlacesKept
<1> QED BY <1>2, <1>3, <1>4, <1>5 DEF ReadRequest

(* A reply is written: it leaves the queue and is among the replies.       *)
LEMMA WriteKeepsPlaces ==
  ASSUME TInv, OwnersInv, PlacesInv, WriteReply, UNCHANGED hold
  PROVE  PlacesInv'
<1>1. /\ pc = "write" /\ pc # "stopped" /\ AtPeer /\ This.out # <<>>
      /\ UNCHANGED <<sent, toServer, owner, gppq, dspq>>
  BY DEF WriteReply, Writing, Advance, PeersInv, msgqVars
<1>2. /\ cursor \in DOMAIN peers /\ This \in Peers /\ This = peers[cursor]
      /\ Conn = owner[peers[cursor].sck] /\ Conn \in Clients
      /\ \A i \in DOMAIN peers : peers[i] \in Peers /\ owner[peers[i].sck] \in Clients
  BY <1>1, ThisPeer, PeersClient DEF This, Conn
<1> DEFINE out == peers[cursor].out
           r == Head(out)
<1>3. /\ replies' = [replies EXCEPT ![Conn] = Append(@, r)]
      /\ peers' = [peers EXCEPT ![cursor].out = Tail(@)]
      /\ out \in Seq(Replies) /\ out # <<>>
  BY <1>1, <1>2 DEF WriteReply, Peers
<1>4. /\ DOMAIN peers' = DOMAIN peers
      /\ \A i \in DOMAIN peers : /\ peers'[i].id = peers[i].id /\ peers'[i].sck = peers[i].sck
                                 /\ i # cursor => peers'[i].out = peers[i].out
      /\ peers'[cursor].out = Tail(out)
  BY <1>2, <1>3 DEF Peers
<1> DEFINE old == replies[Conn]
<1>5. replies'[Conn] = Append(old, r) /\ old \in Seq(Replies)
      /\ \A c \in Clients : c # Conn => replies'[c] = replies[c]
  BY <1>2, <1>3
<1> HIDE DEF out, old, r
<1>6. r \in Replies
  BY <1>3, TailShape DEF r
<1>7. /\ \A seq : Among(old, seq) => Among(Append(old, r), seq)
      /\ Among(Append(old, r), r.seq)
      /\ \A seq : Among(out, seq) => Among(Tail(out), seq) \/ r.seq = seq
  BY <1>3, <1>5, <1>6, AmongAppend, AmongTail DEF r
<1>8. ASSUME NEW i \in DOMAIN peers, NEW seq, Placed(i, seq)
      PROVE  Placed(i, seq)'
  <2>a. PICK c \in Clients : c = owner[peers[i].sck]
    BY <1>2
  <2>1. PICK id : c = owner[peers[i].sck] /\ id = peers[i].id
    BY <2>a
  <2>2. Among(replies[c], seq) => Among(replies'[c], seq)
    BY <1>5, <1>7 DEF old
  <2>3. Among(peers[i].out, seq) => Among(peers'[i].out, seq) \/ Among(replies'[c], seq)
    <3>1. CASE i = cursor
      <4>1. c = Conn
        BY <1>2, <2>1, <3>1
      <4>2. replies'[c] = Append(old, r) /\ peers'[i].out = Tail(out)
        BY <1>4, <1>5, <3>1, <4>1
      <4>3. Among(peers[i].out, seq) => Among(out, seq)
        BY <3>1 DEF out
      <4> QED BY <1>7, <4>2, <4>3
    <3>2. CASE i # cursor
      BY <1>4, <3>2
    <3> QED BY <3>1, <3>2
  <2>4. InFlight(id, seq) => InFlight(id, seq)'
    BY <1>1 DEF InFlight
  <2>5. Among(replies[c], seq) \/ Among(peers[i].out, seq) \/ InFlight(id, seq)
            \/ Among(toServer[c], seq)
    BY <1>8, <2>1, PlacedNow
  <2>6. c = owner'[peers'[i].sck] /\ id = peers'[i].id
    BY <1>1, <1>4, <2>1
  <2> QED BY <1>1, <2>2, <2>3, <2>4, <2>5, <2>6, PlacedThen
<1> QED BY <1>1, <1>4, <1>8, PlacesKept

(* A connection is accepted: all it was sent is on its stream.             *)
LEMMA AcceptKeepsPlaces ==
  ASSUME TInv, ListenInv, RpcInv, CheckListen, "listen" \in ready, UNCHANGED hold,
         NEW fd \in FreeFds, owner' = [owner EXCEPT ![fd] = Head(backlog)], AddPeer(fd)
  PROVE  PlacesInv'
<1> DEFINE p == NewPeer(fd)
<1>1. /\ pc = "check" /\ pc # "stopped"
      /\ UNCHANGED <<sent, replies, toServer, gppq, dspq>>
  BY DEF CheckListen, msgqVars
<1>2. /\ fd \in Fds /\ owner[fd] = None /\ peers' = Append(peers, p)
  BY DEF FreeFds, AddPeer
<1>3. p \in Peers /\ p.sck = fd
  BY <1>2, EmptySeq DEF NewPeer, Peers
<1> HIDE DEF p
<1>4. PICK n \in Nat :
            /\ peers'[n] = p
            /\ \A i \in DOMAIN peers : peers'[i] = peers[i]
            /\ \A i \in DOMAIN peers' : i \in DOMAIN peers \/ i = n
  <2> DEFINE l == Len(peers) + 1
  <2>1. /\ peers'[l] = p
        /\ \A i \in DOMAIN peers : peers'[i] = peers[i]
        /\ \A i \in DOMAIN peers' : i \in DOMAIN peers \/ i = l
    <3>1. peers \in Seq(Peers)
      OBVIOUS
    <3> QED BY ONLY <1>2, <1>3, <3>1, AppendShape
  <2>2. l \in Nat
    OBVIOUS
  <2> QED BY <2>1, <2>2
<1>5. \A i \in DOMAIN peers : owner'[peers[i].sck] = owner[peers[i].sck]
  BY <1>1, <1>2, PeersClient
<1>6. backlog # <<>> /\ backlog \in Seq(Clients)
  BY <1>1 DEF ListenInv
<1>7. PICK c \in Clients : c = Head(backlog)
  BY <1>6, TailShape
<1>8. toServer[c] = sent[c]
  <2>1. 1 \in DOMAIN backlog /\ c = backlog[1]
    BY <1>6, <1>7, TailShape
  <2> QED BY <2>1 DEF RpcInv, UnreadInv
<1>9. NoneMissing(n)'
  <2>1. c = owner'[peers'[n].sck]
    BY <1>2, <1>3, <1>4, <1>7
  <2>2. \A k \in DOMAIN sent'[c] : Among(toServer'[c], sent'[c][k].seq)
    BY <1>1, <1>8 DEF Among
  <2>3. PICK id : id = peers'[n].id
    OBVIOUS
  <2>4. ASSUME NEW k \in DOMAIN sent'[c]
        PROVE  \E seq : seq = sent'[c][k].seq /\ Placed(n, seq)'
    <3>1. PICK seq : seq = sent'[c][k].seq
      OBVIOUS
    <3>2. Among(toServer'[c], seq)
      BY <2>2, <3>1
    <3>3. Placed(n, seq)'
      BY <2>1, <2>3, <3>2, PlacedThen
    <3> QED BY <3>1, <3>3
  <2> QED BY ONLY <2>1, <2>4 DEF NoneMissing, Placed
<1>10. ASSUME NEW i \in DOMAIN peers
       PROVE  NoneMissing(i)'
  <2>1. PICK c_1, id : c_1 = owner[peers[i].sck] /\ id = peers[i].id
    OBVIOUS
  <2>2. c_1 = owner'[peers'[i].sck] /\ id = peers'[i].id /\ peers'[i].out = peers[i].out
    BY <1>4, <1>5, <2>1
  <2>3. ASSUME NEW k \in DOMAIN sent[c_1], IsRequest(sent[c_1][k])
        PROVE  \E seq : seq = sent[c_1][k].seq /\ Placed(i, seq)'
    <3>1. PICK seq : seq = sent[c_1][k].seq
      OBVIOUS
    <3>2. Placed(i, seq)
      BY <1>1, <2>1, <2>3, <3>1 DEF RpcInv, PlacesInv, NoneMissing
    <3>3. Among(replies[c_1], seq) \/ Among(peers[i].out, seq) \/ InFlight(id, seq)
            \/ Among(toServer[c_1], seq)
      BY <2>1, <3>2, PlacedNow
    <3>4. InFlight(id, seq) => InFlight(id, seq)'
      BY <1>1 DEF InFlight
    <3>5. Placed(i, seq)'
      BY <1>1, <2>2, <3>3, <3>4, PlacedThen
    <3> QED BY <3>1, <3>5
  <2> QED BY ONLY <1>1, <2>2, <2>3 DEF NoneMissing, Placed
<1> QED BY <1>4, <1>9, <1>10 DEF PlacesInv

(* A client sends: the PDU is on its stream.                               *)
LEMMA SendKeepsPlaces ==
  ASSUME TInv, PlacesInv, NEW c \in Clients, NEW kind \in Kinds, ClientSend(c, kind),
         UNCHANGED <<msgqVars, dspVars, peerVars, serverVars>>
  PROVE  PlacesInv'
<1> DEFINE l == Len(sent[c]) + 1
           pdu == Pdu(c, kind)
<1>1. /\ pdu \in Pdus
      /\ sent'[c][l] = pdu
      /\ \A k \in DOMAIN sent'[c] : k \in DOMAIN sent[c] \/ k = l
      /\ \A k \in DOMAIN sent[c] : sent'[c][k] = sent[c][k]
      /\ toServer'[c] = Append(toServer[c], pdu)
      /\ \A d \in Clients : d # c => sent'[d] = sent[d] /\ toServer'[d] = toServer[d]
  BY SendExtends
<1> HIDE DEF l, pdu
<1>2. UNCHANGED <<owner, replies, peers, pc, gppq, hold, dspq>>
  BY DEF ClientSend, msgqVars, dspVars, peerVars, serverVars
<1>3. /\ \A seq : Among(toServer[c], seq) => Among(toServer'[c], seq)
      /\ Among(toServer'[c], pdu.seq)
  <2> DEFINE s == toServer[c]
  <2>1. s \in Seq(Pdus)
    OBVIOUS
  <2> HIDE DEF s
  <2>2. (\A seq : Among(s, seq) => Among(Append(s, pdu), seq)) /\ Among(Append(s, pdu), pdu.seq)
    BY <1>1, <2>1, AmongAppend
  <2> QED BY <1>1, <2>2 DEF s
<1>4. ASSUME pc # "stopped", NEW i \in DOMAIN peers
      PROVE  NoneMissing(i)'
  <2>a. PICK d \in Clients : d = owner[peers[i].sck]
    BY <1>4, PeersClient
  <2>1. PICK id : d = owner[peers[i].sck] /\ id = peers[i].id
    BY <2>a
  <2>2. d = owner'[peers'[i].sck] /\ id = peers'[i].id /\ peers'[i].out = peers[i].out
    BY <1>2, <2>1
  <2>3. ASSUME NEW k \in DOMAIN sent'[d], IsRequest(sent'[d][k])
        PROVE  \E seq : seq = sent'[d][k].seq /\ Placed(i, seq)'
    <3>1. PICK seq : seq = sent'[d][k].seq
      OBVIOUS
    <3>2. CASE d = c /\ k = l
      <4>1. Among(toServer'[d], seq)
        BY <1>1, <1>3, <3>1, <3>2
      <4> QED BY <2>2, <3>1, <4>1, PlacedThen
    <3>3. CASE k \in DOMAIN sent[d] /\ sent'[d][k] = sent[d][k]
      <4>1. Placed(i, seq)
        BY <1>4, <2>1, <2>3, <3>1, <3>3 DEF PlacesInv, NoneMissing
      <4>2. Among(replies[d], seq) \/ Among(peers[i].out, seq) \/ InFlight(id, seq)
            \/ Among(toServer[d], seq)
        BY <2>1, <4>1, PlacedNow
      <4>3. InFlight(id, seq) => InFlight(id, seq)'
        BY <1>2 DEF InFlight
      <4>4. Among(toServer[d], seq) => Among(toServer'[d], seq)
        BY <1>1, <1>3, <2>1
      <4>5. Placed(i, seq)'
        BY <1>2, <2>2, <4>2, <4>3, <4>4, PlacedThen
      <4> QED BY <3>1, <4>5
    <3> QED BY <1>1, <2>1, <3>2, <3>3
  <2> QED BY <2>2, <2>3 DEF NoneMissing, Placed
<1> QED BY <1>2, <1>4 DEF PlacesInv

(* Nothing is taken off the stream of a client that is not accepted.       *)
LEMMA StreamsKeepUnread ==
  ASSUME TInv, UnreadInv, UNCHANGED <<sent, toServer>>,
         \/ backlog' = backlog
         \/ backlog # <<>> /\ backlog' = Tail(backlog)
         \/ backlog' = <<>>,
         \A c \in Clients : conn'[c] = "new" => conn[c] = "new"
  PROVE  UnreadInv'
<1>1. \A i \in DOMAIN backlog' : \E k \in DOMAIN backlog : backlog'[i] = backlog[k]
  <2>1. CASE backlog # <<>> /\ backlog' = Tail(backlog)
    <3>1. backlog \in Seq(Clients)
      OBVIOUS
    <3> QED BY <2>1, <3>1, TailShape
  <2> QED BY <2>1, NoElement
<1>2. /\ UnreadInv /\ UNCHANGED <<sent, toServer>>
      /\ \A c \in Clients : conn'[c] = "new" => conn[c] = "new"
  OBVIOUS
<1> QED BY ONLY <1>1, <1>2 DEF UnreadInv

LEMMA TakeKeepsUnread ==
  ASSUME TInv, OwnersInv, UnreadInv, pc # "stopped", AtPeer,
         UNCHANGED <<sent, conn, backlog>>, TakePdu
  PROVE  UnreadInv'
<1>1. PICK fd \in Fds : fd = This.sck /\ Conn = owner[fd] /\ owner[fd] # None /\ Conn \in Clients
  BY ThisPeer, SocketsAssumption DEF Conn
<1>2. conn[Conn] # "new" /\ \A i \in DOMAIN backlog : backlog[i] # Conn
  BY <1>1 DEF OwnersInv
<1>3. \A c \in Clients : c # Conn => toServer'[c] = toServer[c]
  BY DEF TakePdu
<1>4. \A i \in DOMAIN backlog : backlog[i] \in Clients
  BY LenProperties, ElementOfSeq
<1> QED BY <1>2, <1>3, <1>4 DEF UnreadInv

LEMMA ClientKeepsUnread ==
  ASSUME TInv, OwnersInv, UnreadInv, NEW c \in Clients, ClientActs(c)
  PROVE  UnreadInv'
<1>1. CASE ClientConnect(c)
  <2>1. /\ conn[c] = "new" /\ conn' = [conn EXCEPT ![c] = "open"]
        /\ backlog' = Append(backlog, c) /\ UNCHANGED <<sent, toServer>>
    BY <1>1 DEF ClientConnect
  <2>2. \A i \in DOMAIN backlog' : backlog'[i] = c \/ \E k \in DOMAIN backlog : backlog'[i] = backlog[k]
    <3>1. backlog \in Seq(Clients)
      OBVIOUS
    <3> QED BY <2>1, <3>1, AppendShape
  <2>3. \A d \in Clients : conn'[d] = "new" => conn[d] = "new"
    BY <2>1
  <2>4. ASSUME NEW d \in Clients, conn'[d] = "new" PROVE toServer'[d] = sent'[d]
    BY <2>1, <2>3, <2>4 DEF UnreadInv
  <2>5. /\ toServer[c] = sent[c]
        /\ \A k \in DOMAIN backlog : toServer[backlog[k]] = sent[backlog[k]]
    BY <2>1 DEF UnreadInv
  <2>6. \A i \in DOMAIN backlog' : toServer'[backlog'[i]] = sent'[backlog'[i]]
    BY ONLY <2>1, <2>2, <2>5
  <2> QED BY ONLY <2>4, <2>6 DEF UnreadInv
<1>2. ASSUME NEW kind \in Kinds, ClientSend(c, kind)
      PROVE  UnreadInv'
  <2>1. /\ sent' = [sent EXCEPT ![c] = Append(@, Pdu(c, kind))]
        /\ toServer' = [toServer EXCEPT ![c] = Append(@, Pdu(c, kind))]
        /\ UNCHANGED <<conn, backlog>>
    BY <1>2 DEF ClientSend
  <2> DEFINE pdu == Pdu(c, kind)
  <2> HIDE DEF pdu
  <2>2. \A d \in Clients : toServer[d] = sent[d] => toServer'[d] = sent'[d]
    BY <2>1
  <2>3. \A i \in DOMAIN backlog : backlog[i] \in Clients
    BY LenProperties, ElementOfSeq
  <2> QED BY <2>1, <2>2, <2>3 DEF UnreadInv
<1>3. CASE ClientRead(c)
  BY <1>3, StreamsKeepUnread DEF ClientRead
<1>4. CASE ClientClose(c)
  <2>1. \A d \in Clients : conn'[d] = "new" => conn[d] = "new"
    BY <1>4 DEF ClientClose
  <2> QED BY <1>4, <2>1, StreamsKeepUnread DEF ClientClose
<1> QED BY <1>1, <1>2, <1>3, <1>4 DEF ClientActs, ClientStep

LEMMA NextUnread == IInv /\ OwnersInv /\ UnreadInv /\ [Next]_vars => UnreadInv'
<1> SUFFICES ASSUME IInv, OwnersInv, UnreadInv, [Next]_vars PROVE UnreadInv'
  OBVIOUS
<1>0. TInv /\ ListenInv
  BY DEF IInv
<1>1. CASE UNCHANGED <<sent, toServer, conn, backlog>>
  BY <1>0, <1>1, StreamsKeepUnread
<1>2. CASE PeerStep
  <2>1. UNCHANGED <<sent, conn, backlog>>
    BY <1>2 DEF PeerStep, SkipRead, ReadNoMemory, ReadEof, ReadHeader, ReadBadLength,
            ReadUnknown, ReadShort, ReadRequest, SkipWrite, WriteReply, WriteError,
            PassEnds, PassOver, AfterRead, RemoveThis, sockVars
  <2>2. pc # "stopped" /\ (toServer' = toServer \/ (AtPeer /\ TakePdu))
    BY <1>2 DEF PeerStep, SkipRead, ReadNoMemory, ReadEof, ReadHeader, ReadBadLength,
            ReadUnknown, ReadShort, ReadRequest, SkipWrite, WriteReply, WriteError,
            PassEnds, PassOver, LeavePdu, sockVars, ReadingPdu, Reading, Writing
  <2> QED BY <1>0, <1>1, <2>1, <2>2, TakeKeepsUnread
<1>3. CASE CheckListen
  <2>1. UNCHANGED <<sent, toServer, conn>> /\ pc = "check"
    BY <1>3 DEF CheckListen
  <2>2. backlog' = backlog \/ (backlog # <<>> /\ backlog' = Tail(backlog))
    BY <1>0, <1>3 DEF CheckListen, Accept, ListenInv
  <2> QED BY <1>0, <2>1, <2>2, StreamsKeepUnread
<1>4. CASE Cleanup
  BY <1>0, <1>4, StreamsKeepUnread DEF Cleanup
<1>5. CASE ServerActs
  BY <1>1, <1>2, <1>3, <1>4, <1>5
  DEF ServerActs, ServerStep, SendGetReply, AwaitReplyMsgq, Poll, LoopEnds, CheckTerm,
      Drain, GetForever, SelectForever, SendShutdown, CloseTransport, ProcessOneMsgq,
      GetFails, sockVars
<1>6. ASSUME NEW c \in Clients, ClientActs(c)
      PROVE  UnreadInv'
  BY <1>0, <1>6, ClientKeepsUnread
<1> QED BY <1>1, <1>5, <1>6
        DEF Next, DspActs, LocateActs, ErrorActs, SignalActs, Done, vars, sockVars

(* The server addresses its requests, once it knows how.                   *)
LEMMA QueuesKeepAddress ==
  ASSUME TInv, AddressInv, UNCHANGED <<hold, reply_msgq>>,
         \/ dspq' = dspq
         \/ \E m \in Messages : dspq' = Append(dspq, m) /\ Addressed(m),
         pc \in {"located", "starting"} \union Ending =>
            pc' \in {"located", "starting"} \union Ending
  PROVE  AddressInv'
<1>1. \A k \in DOMAIN dspq' : Addressed(dspq'[k])
  <2>1. ASSUME NEW m \in Messages, dspq' = Append(dspq, m), Addressed(m)
        PROVE  \A k \in DOMAIN dspq' : Addressed(dspq'[k])
    <3>1. \A i \in DOMAIN dspq' : dspq'[i] = m \/ \E k \in DOMAIN dspq : dspq'[i] = dspq[k]
      <4>1. dspq \in Seq(Messages)
        OBVIOUS
      <4> QED BY <2>1, <4>1, AppendElements
    <3> QED BY <2>1, <3>1 DEF AddressInv
  <2> QED BY <2>1 DEF AddressInv
<1> QED BY <1>1 DEF AddressInv

LEMMA DspKeepsAddress ==
  ASSUME TInv, AddressInv, DspActs
  PROVE  AddressInv'
<1>1. UNCHANGED <<pc, reply_msgq>>
  BY DEF DspActs, peerVars, serverVars
<1>2. CASE hold' = <<>> /\ dspq' = dspq
  BY <1>1, <1>2, NoElement DEF AddressInv
<1>3. CASE DspGet
  <2>1. dspq # <<>> /\ dspq \in Seq(Messages) /\ hold' = <<Head(dspq)>> /\ dspq' = Tail(dspq)
    BY <1>3 DEF DspGet
  <2> DEFINE m == Head(dspq)
  <2>2. /\ \E k \in DOMAIN dspq : m = dspq[k]
        /\ \A i \in DOMAIN dspq' : \E k \in DOMAIN dspq : dspq'[i] = dspq[k]
    BY <2>1, TailElements
  <2>3. DOMAIN hold' = {1} /\ hold'[1] = m
    BY <2>1, OneElement
  <2> HIDE DEF m
  <2> QED BY <1>1, <2>2, <2>3 DEF AddressInv
<1>4. CASE DspGetFails \/ DspFreesOther
  <2>1. UNCHANGED <<dspq, hold>>
    BY <1>4 DEF DspGetFails, DspFreesOther, msgqVars
  <2> QED BY <1>1, <2>1 DEF AddressInv
<1> QED BY <1>2, <1>3, <1>4
        DEF DspActs, DspStep, DspStartLocate, DspAsyncLocate, DspCompute, DspShutdown

LEMMA ControlAddressed ==
  ASSUME NEW subid \in Subids \ Requests, NEW handle \in Handles
  PROVE  Control(subid, handle) \in Messages /\ Addressed(Control(subid, handle))
BY ControlTyped, ControlInTurn DEF Addressed

LEMMA ServerKeepsAddress ==
  ASSUME TInv, AddressInv, ServerActs
  PROVE  AddressInv'
<1>0. UNCHANGED hold
  BY DEF ServerActs
<1>1. CASE SendGetReply
  <2>1. UNCHANGED reply_msgq /\ pc' \in {"located", "starting"} \union Ending
    BY <1>1 DEF SendGetReply, Ending
  <2>2. dspq' = dspq \/ dspq' = Append(dspq, Control("getreply", NoQueue))
    BY <1>1 DEF SendGetReply, SendCounted, SendFails, AllocAndPut, AllocOrPutFails, msgqVars
  <2>3. Control("getreply", NoQueue) \in Messages /\ Addressed(Control("getreply", NoQueue))
    BY ControlAddressed DEF Subids, Requests, Handles
  <2> QED BY <1>0, <2>1, <2>2, <2>3, QueuesKeepAddress
<1>2. CASE SendShutdown
  <2>1. UNCHANGED reply_msgq /\ pc' \in Ending
    BY <1>2 DEF SendShutdown, peerVars, Ending
  <2>2. dspq' = dspq \/ dspq' = Append(dspq, Control("shutdown", reply_msgq))
    BY <1>2 DEF SendShutdown, AllocAndPut, AllocOrPutFails, msgqVars
  <2>3. Control("shutdown", reply_msgq) \in Messages /\ Addressed(Control("shutdown", reply_msgq))
    BY ControlAddressed DEF Subids, Requests
  <2> QED BY <1>0, <2>1, <2>2, <2>3, QueuesKeepAddress
<1>3. CASE ReadRequest
  <2>1. /\ Reading /\ toServer[Conn] # <<>> /\ pc = "read" /\ UNCHANGED reply_msgq
        /\ Head(toServer[Conn]) \in Pdus /\ Head(toServer[Conn]).kind \in Requests
    BY <1>3, TakeTyped DEF ReadRequest, ReadingPdu, Reading
  <2>2. PICK pdu \in Pdus : pdu = Head(toServer[Conn])
    BY <2>1
  <2>3. PICK m \in Messages : m = Forward(pdu)
    BY <2>1, <2>2, ForwardTyped
  <2>4. reply_msgq # NoQueue /\ pc \notin {"located", "starting"} \union Ending
    BY <2>1 DEF AddressInv, Ending
  <2>5. Addressed(m)
    BY <2>3, <2>4 DEF Addressed, Forward, Msg
  <2>6. dspq' = dspq \/ dspq' = Append(dspq, m)
    BY <1>3, <2>2, <2>3 DEF ReadRequest, SendCounted, SendFails, AllocAndPut, AllocOrPutFails, msgqVars
  <2> QED BY <1>0, <2>1, <2>4, <2>5, <2>6, QueuesKeepAddress
<1>4. CASE ProcessOneMsgq /\ (Drain \/ GetForever)
  <2>1. pc \in {"drain", "get"} /\ dspq' = dspq /\ gppq # <<>>
    BY <1>4 DEF Drain, GetForever, ProcessOneMsgq
  <2>2. Only(gppq, Requests)
    BY <2>1, InLoopRunning DEF Running, Ending
  <2>3. Head(gppq).subid \in Requests
    <3>1. gppq \in Seq(Messages)
      OBVIOUS
    <3> QED BY <2>1, <2>2, <3>1, OnlyTail
  <2>4. reply_msgq' = reply_msgq
    BY <1>4, <2>3 DEF ProcessOneMsgq, ProcessMymsg, Requests
  <2> QED BY <1>0, <2>1, <2>4, QueuesKeepAddress DEF Ending
<1>5. CASE ProcessOneMsgq /\ AwaitReplyMsgq
  <2>1. /\ pc = "starting" /\ dspq' = dspq
        /\ pc' = (IF reply_msgq' = NoQueue THEN "starting" ELSE "loop")
           \/ pc' = "closing"
    BY <1>5 DEF AwaitReplyMsgq, ProcessOneMsgq
  <2> QED BY <1>0, <2>1 DEF AddressInv, Ending
<1>6. CASE UNCHANGED <<reply_msgq, dspq>>
           /\ (pc \in {"located", "starting"} \union Ending =>
                    pc' \in {"located", "starting"} \union Ending)
  BY <1>0, <1>6, QueuesKeepAddress
<1>7. CASE PeerStep
  <2>1. pc \in {"read", "write"}
    BY <1>7, PeerStepPc
  <2>2. ReadRequest \/ UNCHANGED <<reply_msgq, dspq>>
    BY <1>7 DEF PeerStep, SkipRead, ReadNoMemory, ReadEof, ReadHeader, ReadBadLength,
            ReadUnknown, ReadShort, SkipWrite, WriteReply, WriteError, Advance,
            PassEnds, PassOver, msgqVars, peerVars
  <2> QED BY <1>3, <1>6, <2>1, <2>2 DEF Ending
<1>8. CASE AwaitReplyMsgq \/ Drain \/ GetForever
  <2>1. ProcessOneMsgq \/ UNCHANGED <<reply_msgq, dspq>>
    BY <1>8 DEF AwaitReplyMsgq, Drain, GetForever, GetFails, peerVars, msgqVars
  <2>2. CASE ~ProcessOneMsgq
    <3>1. pc \in {"located", "starting"} \union Ending =>
                    pc' \in {"located", "starting"} \union Ending
      BY <1>8, <2>2 DEF AwaitReplyMsgq, Drain, GetForever, Ending
    <3> QED BY <1>6, <2>1, <2>2, <3>1
  <2> QED BY <1>4, <1>5, <1>8, <2>2
<1>9. CASE Poll \/ LoopEnds \/ CheckTerm \/ CheckListen \/ SelectForever \/ CloseTransport \/ Cleanup
  BY <1>6, <1>9 DEF Poll, LoopEnds, CheckTerm, CheckListen, SelectForever, CloseTransport,
       Cleanup, peerVars, msgqVars, Ending
<1> QED BY <1>1, <1>2, <1>7, <1>8, <1>9 DEF ServerActs, ServerStep

LEMMA NextAddress == IInv /\ AddressInv /\ [Next]_vars => AddressInv'
<1> SUFFICES ASSUME IInv, AddressInv, [Next]_vars PROVE AddressInv'
  OBVIOUS
<1>0. TInv
  BY DEF IInv
<1>1. CASE UNCHANGED <<dspq, hold, reply_msgq, pc>>
  BY <1>0, <1>1, QueuesKeepAddress
<1>2. CASE LocateActs
  <2>1. UNCHANGED <<hold, reply_msgq, pc>>
    BY <1>2 DEF LocateActs, LocateAnswers, peerVars, serverVars
  <2>2. PICK handle \in Handles : dspq' = Append(dspq, Control("async", handle))
    BY <1>2 DEF LocateActs, LocateAnswers, AllocAndPut, Handles
  <2>3. Control("async", handle) \in Messages /\ Addressed(Control("async", handle))
    BY ControlAddressed DEF Subids, Requests
  <2> QED BY <1>0, <2>1, <2>2, <2>3, QueuesKeepAddress
<1>3. ASSUME NEW c \in Clients, ClientActs(c)
      PROVE  AddressInv'
  BY <1>1, <1>3 DEF ClientActs, msgqVars, dspVars, peerVars, serverVars
<1>4. CASE SignalActs \/ ErrorActs \/ Done \/ UNCHANGED vars
  BY <1>1, <1>4 DEF SignalActs, ErrorActs, ErrorArrives, SigInt, Done, vars, msgqVars, dspVars, peerVars, serverVars
<1> QED BY <1>0, <1>2, <1>3, <1>4, ServerKeepsAddress, DspKeepsAddress DEF Next

(* Only answers to requests are queued as replies.                         *)
LEMMA RepliesStayRequested ==
  ASSUME OutInv,
         \A i \in DOMAIN peers' : \E j \in DOMAIN peers : peers'[i].out = peers[j].out
  PROVE  OutInv'
BY DEF OutInv

LEMMA ThisKeepsOut ==
  ASSUME TInv, OutInv, pc # "stopped", AtPeer,
         RemoveThis \/ \E in \in {"none", "header", "payload"} : AfterRead(in)
  PROVE  OutInv'
<1>1. \A i \in DOMAIN peers : peers[i] \in Peers
  BY PeersClient
<1>2. CASE RemoveThis
  BY <1>2, OthersStay, RepliesStayRequested
<1>3. ASSUME NEW in, AfterRead(in)
      PROVE  OutInv'
  <2>1. peers' = [peers EXCEPT ![cursor].in = in]
    BY <1>3 DEF AfterRead
  <2>2. DOMAIN peers' = DOMAIN peers /\ \A i \in DOMAIN peers : peers'[i].out = peers[i].out
    BY <1>1, <2>1 DEF Peers
  <2> QED BY <2>2, RepliesStayRequested
<1> QED BY <1>2, <1>3

LEMMA ProcessKeepsOut ==
  ASSUME TInv, OutInv, ProcessOneMsgq, pc # "stopped"
  PROVE  OutInv'
<1>1. PICK m \in Messages : ProcessMymsg(m)
  BY TailShape DEF ProcessOneMsgq
<1>2. CASE UNCHANGED peers
  BY <1>2, RepliesStayRequested
<1>3. CASE m.subid \in Requests /\ peers' = Queued(m)
  <2> DEFINE r == Reply(m)
  <2>1. r \in Replies /\ r.kind \in Requests
    BY <1>3 DEF Reply, Replies, Messages
  <2> HIDE DEF r
  <2>2. /\ DOMAIN peers' = DOMAIN peers
        /\ \A i \in DOMAIN peers : peers'[i].out = peers[i].out
                                   \/ peers'[i].out = Append(peers[i].out, r)
    BY <1>3, QueuedShape DEF r
  <2>3. ASSUME NEW i \in DOMAIN peers', NEW k \in DOMAIN peers'[i].out
        PROVE  peers'[i].out[k].kind \in Requests
    <3> DEFINE out == peers[i].out
    <3>1. out \in Seq(Replies) /\ \A j \in DOMAIN out : out[j].kind \in Requests
      BY <2>2, PeersClient DEF OutInv
    <3>2. peers'[i].out = out \/ peers'[i].out = Append(out, r)
      BY <2>2
    <3> HIDE DEF out
    <3>3. CASE peers'[i].out = Append(out, r)
      <4> DEFINE n == Len(out) + 1
      <4>1. /\ Append(out, r)[n] = r
            /\ \A j \in DOMAIN out : Append(out, r)[j] = out[j]
            /\ \A j \in DOMAIN Append(out, r) : j \in DOMAIN out \/ j = n
        BY <2>1, <3>1, AppendShape
      <4> HIDE DEF n
      <4> QED BY <2>1, <3>1, <3>3, <4>1
    <3> QED BY <3>1, <3>2, <3>3
  <2> QED BY <2>3 DEF OutInv
<1> QED BY <1>1, <1>2, <1>3 DEF ProcessMymsg, QueueReply

LEMMA WriteKeepsOut ==
  ASSUME TInv, OutInv, WriteReply
  PROVE  OutInv'
<1>1. pc = "write" /\ pc # "stopped" /\ AtPeer /\ This.out # <<>>
  BY DEF WriteReply, Writing, PeersInv
<1>2. /\ cursor \in DOMAIN peers /\ This = peers[cursor]
      /\ \A i \in DOMAIN peers : peers[i] \in Peers
  BY <1>1, ThisPeer, PeersClient DEF This
<1> DEFINE out == peers[cursor].out
<1>3. /\ out \in Seq(Replies) /\ out # <<>>
      /\ \A k \in DOMAIN out : out[k].kind \in Requests
  BY <1>1, <1>2 DEF Peers, OutInv
<1>4. /\ DOMAIN peers' = DOMAIN peers
      /\ \A i \in DOMAIN peers : i # cursor => peers'[i].out = peers[i].out
      /\ peers'[cursor].out = Tail(out)
  BY <1>2 DEF WriteReply, Peers
<1> HIDE DEF out
<1>5. \A k \in DOMAIN Tail(out) : Tail(out)[k].kind \in Requests
  BY <1>3, TailShape
<1> QED BY <1>4, <1>5 DEF OutInv

LEMMA AcceptKeepsOut ==
  ASSUME TInv, OutInv, NEW fd \in FreeFds, AddPeer(fd)
  PROVE  OutInv'
<1> DEFINE p == NewPeer(fd)
           n == Len(peers) + 1
<1>1. p \in Peers /\ p.out = <<>> /\ peers' = Append(peers, p)
  BY EmptySeq DEF NewPeer, Peers, FreeFds, AddPeer
<1> HIDE DEF p
<1>2. /\ Append(peers, p)[n] = p
      /\ \A j \in DOMAIN peers : Append(peers, p)[j] = peers[j]
      /\ \A j \in DOMAIN Append(peers, p) : j \in DOMAIN peers \/ j = n
  BY <1>1, AppendShape
<1> HIDE DEF n
<1> QED BY <1>1, <1>2, NoElement DEF OutInv

LEMMA NextOut == IInv /\ OutInv /\ [Next]_vars => OutInv'
<1> SUFFICES ASSUME IInv, OutInv, [Next]_vars PROVE OutInv'
  OBVIOUS
<1>0. TInv
  BY DEF IInv
<1>1. CASE UNCHANGED peers
  BY <1>1, RepliesStayRequested
<1>2. CASE CheckListen
  BY <1>0, <1>1, <1>2, AcceptKeepsOut DEF CheckListen, Accept
<1>3. CASE PeerStep
  <2>1. pc # "stopped"
    BY <1>3, PeerStepPc
  <2>2. WriteReply \/ UNCHANGED peers
            \/ (AtPeer /\ (RemoveThis \/ \E in \in {"none", "header", "payload"} : AfterRead(in)))
    BY <1>0, <1>3 DEF PeerStep, SkipRead, ReadNoMemory, ReadEof, ReadHeader, ReadBadLength,
            ReadUnknown, ReadShort, ReadRequest, ReadingPdu, Reading, SkipWrite, WriteError,
            Writing, PassEnds, PassOver, PeersInv, peerVars
  <2> QED BY <1>0, <1>1, <2>1, <2>2, WriteKeepsOut, ThisKeepsOut
<1>4. CASE AwaitReplyMsgq \/ Drain \/ GetForever
  <2>1. pc # "stopped" /\ (ProcessOneMsgq \/ UNCHANGED peers)
    BY <1>4 DEF AwaitReplyMsgq, Drain, GetForever, GetFails, peerVars
  <2> QED BY <1>0, <1>1, <2>1, ProcessKeepsOut
<1>5. CASE ServerActs
  BY <1>1, <1>2, <1>3, <1>4, <1>5
  DEF ServerActs, ServerStep, SendGetReply, Poll, LoopEnds, CheckTerm, SelectForever,
      SendShutdown, CloseTransport, Cleanup, peerVars
<1> QED BY <1>1, <1>5
        DEF Next, DspActs, LocateActs, ErrorActs, ClientActs, SignalActs, Done, vars, peerVars

(* The server keeps every request in its place.                            *)
LEMMA ControlKeepsPlaces ==
  ASSUME TInv, PlacesInv, pc # "stopped" \/ pc' = "stopped",
         UNCHANGED <<sent, replies, toServer, peers, owner, gppq, hold>>,
         dspq' = dspq \/ \E m \in Messages : dspq' = Append(dspq, m)
  PROVE  PlacesInv'
<1>1. ASSUME NEW id, NEW seq, InFlight(id, seq)
      PROVE  InFlight(id, seq)'
  <2>1. CASE dspq' = dspq
    BY <1>1, <2>1 DEF InFlight
  <2>2. ASSUME NEW m \in Messages, dspq' = Append(dspq, m)
        PROVE  InFlight(id, seq)'
    BY <1>1, <2>2, SentCarries
  <2> QED BY <2>1, <2>2
<1> QED BY <1>1, UnmovedKeepsPlaces

LEMMA ServerKeepsPlaces ==
  ASSUME TInv, ListenInv, OwnersInv, LineInv, RpcInv, ~GppFaults, ServerActs
  PROVE  PlacesInv'
<1> USE DEF msgqVars, sockVars, peerVars
<1>0. UNCHANGED hold /\ PlacesInv
  BY DEF ServerActs, RpcInv
<1>1. CASE SendGetReply \/ SendShutdown
  <2>1. UNCHANGED <<sent, replies, toServer, gppq, peers, owner>> /\ pc # "stopped"
    BY <1>1 DEF SendGetReply, SendShutdown, SendCounted, SendFails, AllocAndPut, AllocOrPutFails
  <2>2. dspq' = dspq \/ dspq' = Append(dspq, Control("getreply", NoQueue))
                     \/ dspq' = Append(dspq, Control("shutdown", reply_msgq))
    BY <1>1 DEF SendGetReply, SendShutdown, SendCounted, SendFails, AllocAndPut, AllocOrPutFails
  <2>3. /\ Control("getreply", NoQueue) \in Messages
        /\ Control("shutdown", reply_msgq) \in Messages
    BY ControlTyped DEF Subids, Handles
  <2> QED BY <1>0, <2>1, <2>2, <2>3, ControlKeepsPlaces
<1>2. CASE /\ UNCHANGED <<sent, replies, toServer, gppq, dspq>>
           /\ \/ pc' = "stopped"
              \/ pc # "stopped" /\ UNCHANGED <<peers, owner>>
  BY <1>0, <1>2, UnmovedKeepsPlaces DEF InFlight
<1>3. CASE AwaitReplyMsgq \/ Drain \/ GetForever
  <2>1. pc # "stopped" /\ (ProcessOneMsgq \/ UNCHANGED <<peerVars, sockVars, msgqVars>>)
    BY <1>3 DEF AwaitReplyMsgq, Drain, GetForever, GetFails
  <2> QED BY <1>0, <1>2, <2>1, ProcessKeepsPlaces
<1>4. CASE Poll \/ LoopEnds \/ CheckTerm \/ SelectForever \/ CloseTransport
  BY <1>2, <1>4 DEF Poll, LoopEnds, CheckTerm, SelectForever, CloseTransport
<1>5. CASE Cleanup
  BY <1>2, <1>5 DEF Cleanup
<1>6. CASE CheckListen
  <2>1. CASE UNCHANGED <<owner, peers>>
    BY <1>2, <1>6, <2>1 DEF CheckListen
  <2>2. ASSUME "listen" \in ready,
               NEW fd \in FreeFds, owner' = [owner EXCEPT ![fd] = Head(backlog)], AddPeer(fd)
        PROVE  PlacesInv'
    BY <1>0, <1>6, <2>2, AcceptKeepsPlaces
  <2> QED BY <1>6, <2>1, <2>2 DEF CheckListen, Accept
<1>7. CASE SkipRead \/ SkipWrite \/ ReadNoMemory \/ PassEnds
  BY <1>2, <1>7
  DEF SkipRead, SkipWrite, Advance, ReadNoMemory, Reading, PassEnds, PassOver
<1>8. CASE ReadEof \/ ReadHeader \/ ReadBadLength \/ ReadUnknown \/ ReadShort \/ WriteError
  <2>1. /\ pc # "stopped" /\ AtPeer /\ UNCHANGED <<gppq, dspq>>
        /\ RemoveThis \/ (\E in \in {"none", "header", "payload"} : AfterRead(in))
    BY <1>8 DEF ReadEof, ReadHeader, ReadBadLength, ReadUnknown, ReadShort, WriteError,
            ReadingPdu, Reading, Writing, PeersInv
  <2>2. \/ LeavePdu
        \/ /\ toServer[Conn] # <<>> /\ TakePdu
           /\ RemoveThis \/ Head(toServer[Conn]).kind \notin Requests
    BY <1>8 DEF ReadEof, ReadHeader, ReadBadLength, ReadUnknown, ReadShort, WriteError,
            ReadingPdu, Requests
  <2>3. UNCHANGED <<sent, replies>>
    BY <2>1 DEF RemoveThis, AfterRead
  <2> QED BY <1>0, <2>1, <2>2, <2>3, ReadKeepsPlaces
<1>9. CASE PeerStep
  BY <1>0, <1>7, <1>8, <1>9, RequestKeepsPlaces, WriteKeepsPlaces DEF PeerStep
<1> QED BY <1>1, <1>3, <1>4, <1>5, <1>6, <1>9 DEF ServerActs, ServerStep

LEMMA NextPlaces ==
  ~GppFaults /\ ~DspFaults /\ IInv /\ OwnersInv /\ LineInv /\ RpcInv /\ [Next]_vars
    => PlacesInv'
<1> SUFFICES ASSUME ~GppFaults, ~DspFaults, IInv, OwnersInv, LineInv, RpcInv, [Next]_vars
             PROVE  PlacesInv'
  OBVIOUS
<1>0. TInv /\ ListenInv /\ PlacesInv /\ AddressInv
  BY DEF IInv, RpcInv
<1>1. CASE ServerActs
  BY <1>0, <1>1, ServerKeepsPlaces
<1>2. CASE /\ UNCHANGED <<sent, replies, toServer, peers, owner, pc>>
           /\ \A id, seq : InFlight(id, seq) => InFlight(id, seq)'
  <2>1. CASE pc = "stopped"
    BY <1>0, <1>2, <2>1, UnmovedKeepsPlaces
  <2>2. CASE pc # "stopped"
    BY <1>0, <1>2, <2>2, UnmovedKeepsPlaces
  <2> QED BY <2>1, <2>2
<1>3. CASE DspActs
  <2>1. \A id, seq : InFlight(id, seq) => InFlight(id, seq)'
    BY <1>0, <1>3, DspCarriesOn
  <2> QED BY <1>2, <1>3, <2>1 DEF DspActs, sockVars, peerVars, serverVars
<1>4. CASE LocateActs
  <2>1. UNCHANGED <<sent, replies, toServer, peers, owner, pc, gppq, hold>>
    BY <1>4 DEF LocateActs, LocateAnswers, AllocAndPut, sockVars, peerVars, serverVars
  <2>2. PICK handle \in Handles : dspq' = Append(dspq, Control("async", handle))
    BY <1>4 DEF LocateActs, LocateAnswers, AllocAndPut, Handles
  <2>3. Control("async", handle) \in Messages
    BY ControlTyped DEF Subids
  <2>4. CASE pc = "stopped"
    BY <1>0, <2>1, <2>2, <2>3, <2>4, ControlKeepsPlaces
  <2>5. CASE pc # "stopped"
    BY <1>0, <2>1, <2>2, <2>3, <2>5, ControlKeepsPlaces
  <2> QED BY <2>4, <2>5
<1>5. CASE UNCHANGED <<sent, replies, toServer, peers, owner, pc, gppq, hold, dspq>>
  BY <1>2, <1>5 DEF InFlight
<1>6. ASSUME NEW c \in Clients, ClientActs(c)
      PROVE  PlacesInv'
  <2>0. UNCHANGED <<msgqVars, dspVars, peerVars, serverVars>>
    BY <1>6 DEF ClientActs
  <2>1. ASSUME NEW kind \in Kinds, ClientSend(c, kind)
        PROVE  PlacesInv'
    BY <1>0, <2>0, <2>1, SendKeepsPlaces
  <2>2. CASE ClientConnect(c) \/ ClientRead(c) \/ ClientClose(c)
    BY <1>5, <2>0, <2>2 DEF ClientConnect, ClientRead, ClientClose,
                            msgqVars, dspVars, peerVars, serverVars
  <2> QED BY <1>6, <2>1, <2>2 DEF ClientActs, ClientStep
<1>7. CASE SignalActs \/ ErrorActs \/ Done \/ UNCHANGED vars
  BY <1>5, <1>7 DEF SignalActs, SigInt, ErrorActs, ErrorArrives, Done, vars,
                    msgqVars, dspVars, sockVars, peerVars, serverVars
<1> QED BY <1>1, <1>3, <1>4, <1>6, <1>7 DEF Next

(* Every step answers a client's next request, asks one, or is none of     *)
(* the clients' business.                                                  *)

LEMMA InitRpcInv == Init => RpcInv /\ Rpc!Init
<1> SUFFICES ASSUME Init PROVE RpcInv /\ Rpc!Init
  OBVIOUS
<1> USE DEF Init, MsgqInit, DspInit, SocketsInit, PeerInit, ServerInit
<1>1. \A c \in Clients : sent[c] = <<>> /\ toServer[c] = <<>> /\ replies[c] = <<>>
  OBVIOUS
<1>2. \A c \in Clients : RequestsIn(sent[c]) = <<>>
  BY <1>1, NoRequests
<1>3. PlacesInv /\ UnreadInv /\ AddressInv /\ OutInv
  BY <1>1, NoElement DEF PlacesInv, UnreadInv, AddressInv, OutInv
<1>4. AskedInv /\ MatchInv
  BY <1>1, <1>2, NoElement DEF AskedInv, MatchInv, Rising
<1>5. Rpc!Init
  BY <1>2 DEF Rpc!Init
<1> QED BY <1>3, <1>4, <1>5 DEF RpcInv

(* Only a client's sending and a reply written to it are seen by it.       *)
LEMMA OthersUnseen ==
  ASSUME [Next]_vars, ~WriteReply,
         \A c \in Clients : \A kind \in Kinds : ~(ClientSend(c, kind) /\ ClientActs(c))
  PROVE  UNCHANGED <<sent, replies>>
<1>1. CASE ServerActs
  BY <1>1 DEF ServerActs, ServerStep, SendGetReply, AwaitReplyMsgq, Poll, LoopEnds, CheckTerm,
        CheckListen, Drain, GetForever, SelectForever, SendShutdown, CloseTransport, Cleanup,
        ProcessOneMsgq, GetFails, sockVars, PeerStep, SkipRead, ReadNoMemory, ReadEof,
        ReadHeader, ReadBadLength, ReadUnknown, ReadShort, ReadRequest, SkipWrite,
        WriteError, PassEnds, PassOver, AfterRead, RemoveThis
<1>2. ASSUME NEW c \in Clients, ClientActs(c)
      PROVE  UNCHANGED <<sent, replies>>
  BY <1>2 DEF ClientActs, ClientStep, ClientConnect, ClientRead, ClientClose
<1> QED BY <1>1, <1>2 DEF Next, DspActs, LocateActs, ErrorActs, SignalActs, Done, vars, sockVars

LEMMA NextRpcInv ==
  ~GppFaults /\ ~DspFaults /\ IInv /\ OwnersInv /\ LineInv /\ RpcInv /\ [Next]_vars
    => RpcInv' /\ [Rpc!Next]_(Rpc!vars)
<1> SUFFICES ASSUME ~GppFaults, ~DspFaults, IInv, OwnersInv, LineInv, RpcInv, [Next]_vars
             PROVE  RpcInv' /\ [Rpc!Next]_(Rpc!vars)
  OBVIOUS
<1>0. TInv
  BY DEF IInv
<1>1. PlacesInv'
  BY NextPlaces
<1>2. UnreadInv' /\ AddressInv' /\ OutInv'
  BY NextUnread, NextAddress, NextOut DEF RpcInv
<1>3. AskedInv' /\ MatchInv' /\ [Rpc!Next]_(Rpc!vars)
  <2>1. CASE WriteReply
    <3>1. MatchInv' /\ [Rpc!Next]_(Rpc!vars)
      BY <1>0, <2>1, WriteRefines
    <3>2. UNCHANGED sent
      BY <2>1 DEF WriteReply
    <3>3. AskedInv'
      BY <3>2 DEF RpcInv, AskedInv
    <3> QED BY <3>1, <3>3
  <2>2. ASSUME NEW c \in Clients, NEW kind \in Kinds, ClientSend(c, kind), ClientActs(c)
        PROVE  AskedInv' /\ MatchInv' /\ [Rpc!Next]_(Rpc!vars)
    <3>1. UNCHANGED replies
      BY <2>2 DEF ClientSend
    <3> QED BY <1>0, <2>2, <3>1, SendAsked, SendRefines
  <2>3. CASE UNCHANGED <<sent, replies>>
    <3>1. AskedInv' /\ MatchInv'
      BY <2>3 DEF RpcInv, AskedInv, MatchInv
    <3>2. UNCHANGED Rpc!vars
      BY <2>3 DEF Rpc!vars
    <3> QED BY <3>1, <3>2
  <2> QED BY <2>1, <2>2, <2>3, OthersUnseen
<1> QED BY <1>1, <1>2, <1>3 DEF RpcInv

(* The server, its queue, the DSP task and all the connections implement,  *)
(* for the clients, a service that answers each one's requests in the      *)
(* order they were sent, leaving none out, with the value of the function  *)
(* named at the operands given: for any number of clients, buffers and     *)
(* descriptors, whichever of them are used up or used again, as long as no *)
(* call on a queue and no allocation fails but for want of a buffer. Such  *)
(* a failure drops a reply and the client's next one would then come out   *)
(* of turn.                                                                *)
THEOREM RefinesRpc == ~GppFaults /\ ~DspFaults /\ Spec => ImplementsRpc
<1> SUFFICES ASSUME ~GppFaults, ~DspFaults
             PROVE  Spec => ImplementsRpc
  OBVIOUS
<1>1. Init => RpcInv /\ Rpc!Init
  BY InitRpcInv
<1>2. IInv /\ OwnersInv /\ LineInv /\ RpcInv /\ [Next]_vars
        => RpcInv' /\ [Rpc!Next]_(Rpc!vars)
  BY NextRpcInv
<1> QED BY <1>1, <1>2, SpecIInv, SpecOwners, SpecLine, PTL DEF Spec, ImplementsRpc, Rpc!Spec

=============================================================================
