-------------------------- MODULE LibDspmainProofs --------------------------
(***************************************************************************)
(* Proofs about LibDspmain, for buffers of every size and any number of    *)
(* requests: no request is lost or reordered on its way, a call fails only *)
(* when the connection was closed or a recv() or send() failed or came     *)
(* short, and no call returns the result of another request, even when     *)
(* units are read out of step after a failure.                             *)
(* Then about dsptestsck, which uses it: it always has the right cookie.   *)
(***************************************************************************)
EXTENDS DspTestSck, SequencesExt, SequenceTheorems, TLAPS

Requests == [kind : Kinds, seq : Int, arg : Nat]
Values == {Answer(kind, n) : kind \in Kinds, n \in Nat}
Replies == [kind : Kinds, seq : Int, z : Values]

TypeInv ==
    /\ issued \in Seq(Requests) /\ out \in Seq(Requests)
    /\ asked \in [{App} -> Seq(Requests)] /\ answered \in [{App} -> Seq(Replies)]
    /\ sequence \in Int /\ used \in 0..OutSize /\ taken \in Nat /\ cut \in BOOLEAN
    /\ pc \in {"idle", "header", "payload", "closed"}
    /\ call \in [fn : {MULT, CRC32}, want : {MULT, CRC32}, request : Nat]
    /\ result.error \in {0, 1} /\ result.request \in 0..Len(issued)
    /\ InCall => call.request \in (result.request + 1)..Len(issued)

(* What was sent are the first requests made, in order; what was answered  *)
(* are the first of those.                                                 *)
AskInv ==
    /\ Len(asked[App]) <= Len(issued)
    /\ \A i \in 1..Len(asked[App]) : asked[App][i] = issued[i]
    /\ \A i \in 1..Len(issued) : issued[i].arg = i
    /\ ~cut /\ "send" \notin faults => asked[App] \o out = issued
AnswerInv ==
    /\ Len(answered[App]) <= Len(asked[App])
    /\ \A i \in 1..Len(answered[App]) :
        /\ answered[App][i].kind = issued[i].kind
        /\ answered[App][i].seq = issued[i].seq
        /\ answered[App][i].z = Answer(issued[i].kind, i)

BaseInv == TypeInv /\ AskInv /\ AnswerInv

(* While the connection is there and nothing has failed on it, the stream  *)
(* is read reply by reply, from the first not yet passed over to the one   *)
(* looked for, and every reply on the way is of the kind looked for.       *)
NextReply == taken \div 2 + 1
OnTheWay ==
    /\ result.request < NextReply /\ NextReply <= call.request
    /\ \A m \in NextReply..call.request : issued[m].kind = call.want
    /\ NextReply < call.request => call.want = MULT /\ MULT \in Skips
InStep ==
    ~cut /\ faults = {} =>
        /\ result.error = 0
        /\ pc = "idle" => taken = 2 * result.request
        /\ pc = "header" => taken % 2 = 0 /\ OnTheWay
        /\ pc = "payload" => taken % 2 = 1 /\ OnTheWay

(* What the application has to keep to: the library numbers requests with  *)
(* an int, which wraps after MaxSeq, and only dspmain_mult_result can pass *)
(* over replies, those to mult.                                            *)
NoWrap == MaxRequests <= MaxSeq + 1
PassesOverMult == CRC32 \notin Skips /\ (Skips = {} \/ NoWrap)

(* The numbers of requests before the int wraps.                           *)
Numbered ==
    /\ Len(issued) <= MaxRequests
    /\ Len(issued) <= MaxSeq => sequence = Len(issued)
    /\ \A i \in 1..Len(issued) : issued[i].seq = i - 1

(* After a failure the stream may be read half a reply out of step: then a *)
(* payload is taken for a header when its number is the kind looked for,   *)
(* which only the second and third can be, and the header after it for an  *)
(* older payload; the payload after that is refused.                       *)
OutOfStep ==
  ~Torn =>
    /\ result.error = 0 /\ result.request # 0 =>
        result.z = Answer(issued[result.request].kind, result.request)
    /\ pc = "idle" => taken <= 2 * result.request
    /\ pc = "header" =>
        /\ taken % 2 = 0 => NextReply <= call.request
        /\ taken % 2 = 1 =>
            \/ call.want = issued[call.request].kind /\ NextReply < call.request
            \/ call.want = MULT /\ 3 <= NextReply /\ NextReply <= call.request
    /\ pc = "payload" =>
        /\ taken % 2 = 1 => NextReply <= call.request
        /\ taken % 2 = 0 =>
            /\ NextReply \in {3, 4} /\ NextReply <= call.request
            /\ issued[call.request].kind = NextReply - 2

-----------------------------------------------------------------------------
LEMMA Constants ==
  /\ MULT = 1 /\ CRC32 = 2 /\ Kinds \subseteq {1, 2}
  /\ OutSize \in Nat /\ 8 <= OutSize /\ MaxSeq \in Nat /\ MaxRequests \in Nat
  /\ \A kind \in Kinds : Words(kind) \in 5..8
BY LibAssumption DEF LibConstants, MULT, CRC32, Words

(* Where a unit of the stream is.                                          *)
LEMMA Halves ==
  ASSUME NEW t \in Nat
  PROVE  /\ t \div 2 \in Nat /\ t % 2 \in {0, 1}
         /\ t = 2 * (t \div 2) + (t % 2)
         /\ t % 2 = 0 => (t + 1) % 2 = 1 /\ (t + 1) \div 2 = t \div 2
         /\ t % 2 = 1 => (t + 1) % 2 = 0 /\ (t + 1) \div 2 = t \div 2 + 1
OBVIOUS

LEMMA Doubles ==
  ASSUME NEW h \in Nat
  PROVE  (2 * h) \div 2 = h /\ (2 * h) % 2 = 0
OBVIOUS

(* What the types say of the sequences.                                    *)
LEMMA Lengths ==
  ASSUME TypeInv
  PROVE  /\ Len(issued) \in Nat /\ Len(out) \in Nat
         /\ asked[App] \in Seq(Requests) /\ Len(asked[App]) \in Nat
         /\ answered[App] \in Seq(Replies) /\ Len(answered[App]) \in Nat
         /\ \A i \in 1..Len(issued) : issued[i] \in Requests /\ issued[i].kind \in {1, 2}
<1>1. /\ issued \in Seq(Requests) /\ out \in Seq(Requests)
      /\ asked[App] \in Seq(Requests) /\ answered[App] \in Seq(Replies)
  BY DEF TypeInv
<1>2. \A i \in 1..Len(issued) : issued[i] \in Requests
  BY <1>1, ElementOfSeq
<1>3. \A r \in Requests : r.kind \in {1, 2}
  BY Constants DEF Requests
<1> QED BY <1>1, <1>2, <1>3, LenProperties

(* What flush sends: everything that was asked, and nothing twice.         *)
LEMMA FlushedBase ==
  ASSUME BaseInv, Flushed
  PROVE  /\ asked' \in [{App} -> Seq(Requests)]
         /\ Len(asked[App]) <= Len(asked'[App]) /\ Len(asked'[App]) <= Len(issued)
         /\ \A i \in 1..Len(asked'[App]) : asked'[App][i] = issued[i]
         /\ ~cut /\ "send" \notin faults' => asked'[App] = issued
         /\ faults' = faults
<1>0. CASE "send" \in faults
  <2>1. asked' = asked /\ faults' = faults
    BY <1>0 DEF Flushed
  <2>2. Len(asked[App]) \in Nat /\ Len(asked[App]) <= Len(asked[App])
    BY Lengths DEF BaseInv
  <2> QED BY <1>0, <2>1, <2>2 DEF BaseInv, TypeInv, AskInv
<1> SUFFICES ASSUME "send" \notin faults
             PROVE  /\ asked' \in [{App} -> Seq(Requests)]
                    /\ Len(asked[App]) <= Len(asked'[App]) /\ Len(asked'[App]) <= Len(issued)
                    /\ \A i \in 1..Len(asked'[App]) : asked'[App][i] = issued[i]
                    /\ ~cut => asked'[App] = issued
  BY <1>0 DEF Flushed
<1>1. /\ asked' = [asked EXCEPT ![App] = @ \o out]
      /\ asked \in [{App} -> Seq(Requests)] /\ out \in Seq(Requests)
      /\ asked[App] \in Seq(Requests)
      /\ Len(asked[App]) \in Nat /\ Len(issued) \in Nat
      /\ Len(asked[App]) <= Len(issued)
      /\ \A i \in 1..Len(asked[App]) : asked[App][i] = issued[i]
      /\ ~cut => asked[App] \o out = issued
  BY Lengths DEF BaseInv, TypeInv, AskInv, Flushed
<1>2. asked'[App] = asked[App] \o out
  BY <1>1
<1>3. asked[App] \o out \in Seq(Requests) /\ Len(asked[App] \o out) = Len(asked[App]) + Len(out)
      /\ Len(out) \in Nat
  BY <1>1, ConcatProperties, LenProperties
<1>4. asked' \in [{App} -> Seq(Requests)]
  BY <1>1, <1>3
<1>5. CASE out = <<>>
  <2>1. asked'[App] = asked[App]
    BY <1>1, <1>2, <1>5, ConcatEmptySeq
  <2> QED BY <1>1, <1>2, <1>4, <2>1
<1>6. CASE out # <<>>
  <2>1. ~cut
    BY <1>6 DEF Flushed
  <2> QED BY <1>1, <1>2, <1>3, <1>4, <2>1
<1> QED BY <1>5, <1>6

(* The answers stay the answers to the first requests.                     *)
LEMMA AnswersKept ==
  ASSUME BaseInv, answered' = answered,
         Len(asked[App]) <= Len(asked'[App]),
         Len(asked'[App]) \in Nat,
         \A i \in 1..Len(issued) : issued'[i] = issued[i]
  PROVE  AnswerInv'
<1>1. /\ Len(answered[App]) \in Nat /\ Len(asked[App]) \in Nat /\ Len(issued) \in Nat
      /\ Len(answered[App]) <= Len(asked[App]) /\ Len(asked[App]) <= Len(issued)
  BY Lengths DEF BaseInv, AskInv, AnswerInv
<1>2. Len(answered'[App]) <= Len(asked'[App])
  BY <1>1
<1>3. \A i \in 1..Len(answered[App]) : i \in 1..Len(issued)
  BY <1>1
<1> QED BY <1>1, <1>2, <1>3 DEF BaseInv, AnswerInv

LEMMA InitBase == Init => BaseInv
<1> SUFFICES ASSUME Init PROVE BaseInv
  OBVIOUS
<1>1. /\ sequence = 0 /\ out = <<>> /\ used = 0
      /\ asked = [c \in {App} |-> <<>>] /\ answered = [c \in {App} |-> <<>>]
      /\ taken = 0 /\ cut = FALSE
      /\ pc = "idle" /\ call = NoCall /\ result = NoResult /\ issued = <<>>
  BY DEF Init, Service!Init
<1>2. \A S : <<>> \in Seq(S) /\ Len(<<>>) = 0
  BY EmptySeq
<1>3. TypeInv
  <2>1. issued \in Seq(Requests) /\ out \in Seq(Requests) /\ Len(issued) = 0
    BY <1>1, <1>2
  <2>2. asked \in [{App} -> Seq(Requests)] /\ answered \in [{App} -> Seq(Replies)]
    <3> HIDE DEF Requests
    <3> QED BY <1>1, <1>2
  <2>3. call \in [fn : {MULT, CRC32}, want : {MULT, CRC32}, request : Nat]
    BY <1>1 DEF NoCall
  <2>4. result.error = 0 /\ result.request = 0
    BY <1>1 DEF NoResult
  <2>5. /\ sequence \in Int /\ used \in 0..OutSize /\ taken \in Nat /\ cut \in BOOLEAN
        /\ pc \in {"idle", "header", "payload", "closed"} /\ ~InCall
        /\ result.error \in {0, 1} /\ result.request \in 0..Len(issued)
    <3>1. cut \in BOOLEAN
      BY <1>1
    <3>2. sequence \in Int /\ used \in 0..OutSize /\ taken \in Nat
      BY <1>1, Constants
    <3>3. pc \in {"idle", "header", "payload", "closed"} /\ ~InCall
      BY <1>1 DEF InCall
    <3>4. result.error \in {0, 1} /\ result.request \in 0..Len(issued)
      BY <2>1, <2>4
    <3> QED BY <3>1, <3>2, <3>3, <3>4
  <2> QED BY <2>1, <2>2, <2>3, <2>5 DEF TypeInv
<1>4. <<>> \o <<>> = <<>>
  BY EmptySeq, ConcatEmptySeq
<1>5. AskInv
  BY <1>1, <1>2, <1>4 DEF AskInv
<1>6. AnswerInv
  BY <1>1, <1>2 DEF AnswerInv
<1> QED BY <1>3, <1>5, <1>6 DEF BaseInv

LEMMA RequestBase ==
  ASSUME BaseInv, NEW kind \in Kinds, Request(kind)
  PROVE  BaseInv'
<1> DEFINE new == New(kind)
           L == Len(issued)
<1>1. /\ pc = "idle"
      /\ issued' = Append(issued, new) /\ sequence' = Bump(sequence)
      /\ answered' = answered /\ taken' = taken /\ cut' = cut /\ pc' = pc
      /\ call' = call /\ result' = result
  BY DEF Request
<1>2. L \in Nat /\ sequence \in Int /\ used \in 0..OutSize /\ issued \in Seq(Requests)
      /\ out \in Seq(Requests) /\ asked[App] \in Seq(Requests)
  BY Lengths DEF BaseInv, TypeInv
<1>3. new \in Requests /\ new.arg = L + 1
  BY <1>2 DEF New, Requests
<1>4. sequence' \in Int
  BY <1>1, <1>2, Constants DEF Bump
<1> HIDE DEF new
<1>5. /\ issued' \in Seq(Requests) /\ Len(issued') = L + 1
      /\ \A i \in 1..L : issued'[i] = issued[i]
      /\ issued'[L + 1] = new
  BY <1>1, <1>2, <1>3, AppendProperties
<1>6. /\ asked' \in [{App} -> Seq(Requests)]
      /\ out' \in Seq(Requests) /\ used' \in 0..OutSize
      /\ Len(asked[App]) <= Len(asked'[App]) /\ Len(asked'[App]) <= L
      /\ Len(asked'[App]) \in Nat
      /\ \A i \in 1..Len(asked'[App]) : asked'[App][i] = issued[i]
      /\ ~cut /\ "send" \notin faults' => asked'[App] \o out' = issued'
  <2>1. CASE Room(kind) /\ out' = Append(out, new) /\ used' = used + Words(kind)
             /\ asked' = asked /\ faults' = faults
    <3>1. out' \in Seq(Requests)
      BY <1>2, <1>3, <2>1, AppendProperties
    <3>2. used' \in 0..OutSize
      <4>1. Words(kind) \in Nat /\ OutSize \in Nat
        BY Constants DEF Words
      <4> QED BY ONLY <1>2, <2>1, <4>1 DEF Room
    <3>3. asked[App] \o out' = Append(asked[App] \o out, new)
      <4> DEFINE sent == asked[App]
      <4>1. sent \in Seq(Requests) /\ out \in Seq(Requests) /\ new \in Requests
        BY <1>2, <1>3
      <4> HIDE DEF sent
      <4>2. sent \o Append(out, new) = Append(sent \o out, new)
        <5>1. sent \o out \in Seq(Requests) /\ <<new>> \in Seq(Requests)
          BY <4>1, ConcatProperties, EmptySeq, AppendProperties
        <5> QED BY <4>1, <5>1, AppendIsConcat, ConcatAssociative
      <4> QED BY <2>1, <4>2 DEF sent
    <3>4. /\ asked \in [{App} -> Seq(Requests)]
          /\ Len(asked[App]) \in Nat /\ Len(asked[App]) <= L
          /\ \A i \in 1..Len(asked[App]) : asked[App][i] = issued[i]
      BY Lengths DEF BaseInv, TypeInv, AskInv
    <3>5. ~cut /\ "send" \notin faults => asked[App] \o out = issued
      BY DEF BaseInv, AskInv
    <3>6. asked' = asked /\ asked'[App] = asked[App]
      BY <2>1
    <3>7. ~cut /\ "send" \notin faults' => asked'[App] \o out' = issued'
      BY <1>1, <2>1, <3>3, <3>5, <3>6
    <3>8. Len(asked[App]) <= Len(asked[App])
      BY <3>4
    <3> HIDE DEF L
    <3> QED BY <3>1, <3>2, <3>4, <3>6, <3>7, <3>8
  <2>2. CASE Flushed /\ out' = <<new>> /\ used' = Words(kind)
    <3>1. out' \in Seq(Requests) /\ out' = Append(<<>>, new)
      BY <1>3, <2>2, EmptySeq, AppendProperties
    <3>2. used' \in 0..OutSize
      BY <2>2, Constants
    <3>3. /\ asked' \in [{App} -> Seq(Requests)]
          /\ Len(asked[App]) <= Len(asked'[App]) /\ Len(asked'[App]) <= L
          /\ \A i \in 1..Len(asked'[App]) : asked'[App][i] = issued[i]
          /\ ~cut /\ "send" \notin faults' => asked'[App] = issued
      BY <2>2, FlushedBase
    <3>4. Len(asked'[App]) \in Nat
      BY <3>3, LenProperties
    <3>5. issued \o <<new>> = Append(issued, new)
      BY <1>2, <1>3, AppendIsConcat
    <3> QED BY <1>1, <2>2, <3>1, <3>2, <3>3, <3>4, <3>5
  <2> QED BY <2>1, <2>2 DEF Request, new
<1>7. TypeInv'
  <2>1. result'.request \in 0..Len(issued')
    BY <1>1, <1>2, <1>5 DEF BaseInv, TypeInv
  <2> QED BY <1>1, <1>4, <1>5, <1>6, <2>1 DEF BaseInv, TypeInv, InCall
<1>8. AskInv'
  <2>1. \A i \in 1..Len(asked'[App]) : i \in 1..L
    BY <1>2, <1>6
  <2>2. \A i \in 1..(L + 1) : issued'[i].arg = i
    BY <1>2, <1>3, <1>5 DEF BaseInv, AskInv
  <2>3. \A i \in 1..Len(asked'[App]) : asked'[App][i] = issued'[i]
    BY <1>5, <1>6, <2>1
  <2>4. Len(asked'[App]) <= Len(issued')
    BY <1>2, <1>5, <1>6
  <2> QED BY <1>1, <1>5, <1>6, <2>2, <2>3, <2>4 DEF AskInv
<1>9. AnswerInv'
  BY <1>1, <1>5, <1>6, AnswersKept
<1> QED BY <1>7, <1>8, <1>9 DEF BaseInv

(* Steps of the application that make no request and receive nothing.      *)
LEMMA FlushBase ==
  ASSUME BaseInv, Flushed \/ FlushFails, out' = <<>>, used' = 0,
         UNCHANGED <<sequence, answered, taken, cut, issued>>,
         pc' \in {"idle", "header"},
         call' \in [fn : {MULT, CRC32}, want : {MULT, CRC32}, request : Nat],
         result'.error \in {0, 1}, result'.request \in 0..Len(issued),
         pc' = "header" => call'.request \in (result'.request + 1)..Len(issued)
  PROVE  BaseInv'
<1>1. /\ sequence' = sequence /\ answered' = answered /\ taken' = taken /\ cut' = cut
      /\ issued' = issued
  OBVIOUS
<1>2. /\ asked' \in [{App} -> Seq(Requests)]
      /\ Len(asked[App]) <= Len(asked'[App]) /\ Len(asked'[App]) <= Len(issued)
      /\ \A i \in 1..Len(asked'[App]) : asked'[App][i] = issued[i]
      /\ ~cut /\ "send" \notin faults' => asked'[App] = issued
  <2>1. CASE Flushed
    BY <2>1, FlushedBase
  <2>2. CASE FlushFails
    BY <2>2, Lengths DEF FlushFails, BaseInv, TypeInv, AskInv
  <2> QED BY <2>1, <2>2
<1>3. Len(asked'[App]) \in Nat /\ asked'[App] \in Seq(Requests)
  BY <1>2, LenProperties
<1>4. <<>> \in Seq(Requests) /\ asked'[App] \o <<>> = asked'[App]
  BY <1>3, EmptySeq, ConcatEmptySeq
<1>5. used' \in 0..OutSize
  BY Constants
<1>6. TypeInv'
  BY <1>1, <1>2, <1>4, <1>5 DEF BaseInv, TypeInv, InCall
<1>7. AskInv'
  BY <1>1, <1>2, <1>4 DEF BaseInv, AskInv
<1>8. AnswerInv'
  BY <1>1, <1>2, <1>3, AnswersKept
<1> QED BY <1>6, <1>7, <1>8 DEF BaseInv

(* Steps that make, send and answer nothing.                               *)
LEMMA RestBase ==
  ASSUME BaseInv, UNCHANGED <<sequence, out, used, asked, answered, issued>>,
         taken' \in Nat, cut' \in BOOLEAN, cut => cut', faults \subseteq faults',
         pc' \in {"idle", "header", "payload", "closed"},
         call' \in [fn : {MULT, CRC32}, want : {MULT, CRC32}, request : Nat],
         result'.error \in {0, 1}, result'.request \in 0..Len(issued),
         pc' \in {"header", "payload"} => call'.request \in (result'.request + 1)..Len(issued)
  PROVE  BaseInv'
<1>1. /\ sequence' = sequence /\ answered' = answered /\ asked' = asked
      /\ issued' = issued /\ out' = out /\ used' = used
  OBVIOUS
<1>2. TypeInv'
  BY <1>1 DEF BaseInv, TypeInv, InCall
<1>3. AskInv' /\ AnswerInv'
  BY <1>1 DEF BaseInv, AskInv, AnswerInv
<1> QED BY <1>2, <1>3 DEF BaseInv

LEMMA ReturnBase ==
  ASSUME BaseInv, InCall, NEW error \in {0, 1}, NEW z, Return(error, z)
  PROVE  /\ pc' = "idle" /\ result'.error = error /\ result'.z = z
         /\ result'.request = call.request /\ result'.request \in 1..Len(issued)
         /\ call' \in [fn : {MULT, CRC32}, want : {MULT, CRC32}, request : Nat]
<1>1. /\ call.request \in (result.request + 1)..Len(issued)
      /\ result.request \in 0..Len(issued) /\ Len(issued) \in Nat
  BY Lengths DEF BaseInv, TypeInv
<1>2. call' \in [fn : {MULT, CRC32}, want : {MULT, CRC32}, request : Nat]
  BY DEF Return, NoCall
<1> QED BY <1>1, <1>2 DEF Return

LEMMA FlushFaults ==
  ASSUME Flushed \/ FlushFails
  PROVE  faults \subseteq faults'
BY DEF Flushed, FlushFails

LEMMA CollectBase ==
  ASSUME BaseInv, NEW i \in DOMAIN issued, Collect(i)
  PROVE  /\ BaseInv'
         /\ i \in (result.request + 1)..Len(issued)
         /\ issued' = issued /\ taken' = taken /\ cut' = cut /\ pc = "idle"
         /\ \/ /\ Flushed /\ pc' = "header" /\ result' = result
               /\ call'.request = i /\ call'.want = issued[i].kind
            \/ /\ FlushFails /\ pc' = "idle"
               /\ result'.request = i /\ result'.error = 1
<1>1. /\ out' = <<>> /\ used' = 0 /\ pc = "idle"
      /\ sequence' = sequence /\ answered' = answered /\ taken' = taken /\ cut' = cut
      /\ issued' = issued
      /\ i > result.request
      /\ \/ /\ Flushed /\ pc' = "header" /\ result' = result
            /\ call' = [fn |-> issued[i].kind, want |-> issued[i].kind, request |-> i]
         \/ /\ FlushFails /\ pc' = pc /\ call' = call
            /\ result' = [fn |-> issued[i].kind, request |-> i, error |-> 1, z |-> 0]
  BY DEF Collect, Enter, Collectable
<1>2. /\ i \in 1..Len(issued) /\ Len(issued) \in Nat /\ issued[i].kind \in {1, 2}
      /\ result.request \in 0..Len(issued)
  BY Lengths, LenProperties DEF BaseInv, TypeInv
<1>3. i \in (result.request + 1)..Len(issued) /\ i \in Nat /\ i \in 0..Len(issued)
  BY <1>1, <1>2
<1>4. call' \in [fn : {MULT, CRC32}, want : {MULT, CRC32}, request : Nat]
  BY <1>1, <1>2, <1>3, Constants DEF BaseInv, TypeInv
<1>5. CASE Flushed /\ pc' = "header" /\ result' = result
           /\ call' = [fn |-> issued[i].kind, want |-> issued[i].kind, request |-> i]
  <2>1. /\ result'.error \in {0, 1} /\ result'.request \in 0..Len(issued)
        /\ call'.request \in (result'.request + 1)..Len(issued)
        /\ call'.request = i /\ call'.want = issued[i].kind
    BY <1>3, <1>5 DEF BaseInv, TypeInv
  <2>2. BaseInv'
    BY <1>1, <1>4, <1>5, <2>1, FlushBase
  <2> QED BY <1>1, <1>3, <1>5, <2>1, <2>2
<1>6. CASE /\ FlushFails /\ pc' = pc /\ call' = call
           /\ result' = [fn |-> issued[i].kind, request |-> i, error |-> 1, z |-> 0]
  <2>1. /\ result'.error = 1 /\ result'.request = i /\ pc' = "idle"
        /\ result'.request \in 0..Len(issued)
    BY <1>1, <1>3, <1>6
  <2>2. BaseInv'
    BY <1>1, <1>4, <1>6, <2>1, FlushBase
  <2> QED BY <1>1, <1>3, <1>6, <2>1, <2>2
<1> QED BY <1>1, <1>5, <1>6

(* A unit received is of a reply that was given.                           *)
LEMMA ReceivedUnit ==
  ASSUME BaseInv, Received
  PROVE  /\ NextReply \in 1..Len(answered[App]) /\ NextReply \in 1..Len(issued)
         /\ NextReply \in Nat /\ taken \in Nat
         /\ taken % 2 = 0 => NextUnit = <<issued[NextReply].kind, 16>>
         /\ taken % 2 = 1 =>
              NextUnit = <<issued[NextReply].seq, Answer(issued[NextReply].kind, NextReply)>>
<1>1. /\ taken \in Nat /\ Len(answered[App]) \in Nat /\ Len(issued) \in Nat
      /\ Len(asked[App]) \in Nat
      /\ Len(answered[App]) <= Len(asked[App]) /\ Len(asked[App]) <= Len(issued)
      /\ 2 * Len(answered[App]) > taken
  BY Lengths DEF BaseInv, TypeInv, AskInv, AnswerInv, Received
<1>2. /\ taken \div 2 \in Nat /\ taken % 2 \in {0, 1}
      /\ taken = 2 * (taken \div 2) + (taken % 2)
  BY <1>1, Halves
<1>3. NextReply \in 1..Len(answered[App]) /\ NextReply \in Nat
  BY <1>1, <1>2 DEF NextReply
<1>4. NextReply \in 1..Len(issued)
  BY <1>1, <1>3
<1>5. /\ answered[App][NextReply].kind = issued[NextReply].kind
      /\ answered[App][NextReply].seq = issued[NextReply].seq
      /\ answered[App][NextReply].z = Answer(issued[NextReply].kind, NextReply)
  BY <1>3 DEF BaseInv, AnswerInv
<1> QED BY <1>1, <1>3, <1>4, <1>5 DEF NextUnit, NextReply

(* What a call does with the header and with the payload it receives.      *)
LEMMA HeaderStep ==
  ASSUME BaseInv, RecvHeader
  PROVE  /\ BaseInv'
         /\ pc = "header" /\ Received /\ taken' = taken + 1 /\ cut' = cut /\ issued' = issued
         /\ faults' = faults
         /\ call.request \in (result.request + 1)..Len(issued)
         /\ \/ /\ NextUnit = <<call.want, 16>>
               /\ pc' = "payload" /\ call' = call /\ result' = result
            \/ /\ NextUnit # <<call.want, 16>>
               /\ pc' = "idle" /\ result'.error = 1 /\ result'.request = call.request
<1>1. /\ pc = "header" /\ Received /\ taken' = taken + 1 /\ InCall
      /\ UNCHANGED <<sequence, out, used, asked, answered, cut, issued, faults>>
  BY DEF RecvHeader, InCall
<1>2. /\ taken' \in Nat /\ cut' \in BOOLEAN /\ (cut => cut')
      /\ call.request \in (result.request + 1)..Len(issued)
  <2>1. taken' \in Nat
    BY <1>1 DEF BaseInv, TypeInv
  <2>2. cut' \in BOOLEAN /\ (cut => cut')
    BY <1>1 DEF BaseInv, TypeInv
  <2> QED BY <1>1, <2>1, <2>2 DEF BaseInv, TypeInv
<1>3. CASE NextUnit = <<call.want, 16>>
  <2>1. pc' = "payload" /\ call' = call /\ result' = result
    BY <1>3 DEF RecvHeader
  <2>2. BaseInv'
    BY <1>1, <1>2, <2>1, RestBase DEF BaseInv, TypeInv
  <2> QED BY <1>1, <1>2, <1>3, <2>1, <2>2
<1>4. CASE NextUnit # <<call.want, 16>>
  <2>1. Return(1, 0)
    BY <1>4 DEF RecvHeader
  <2>2. /\ pc' = "idle" /\ result'.error = 1 /\ result'.request = call.request
        /\ result'.request \in 1..Len(issued)
        /\ call' \in [fn : {MULT, CRC32}, want : {MULT, CRC32}, request : Nat]
    BY <1>1, <2>1, ReturnBase
  <2>3. BaseInv'
    BY <1>1, <1>2, <2>2, RestBase
  <2> QED BY <1>1, <1>2, <1>4, <2>2, <2>3
<1> QED BY <1>3, <1>4

LEMMA PayloadStep ==
  ASSUME BaseInv, RecvPayload
  PROVE  /\ BaseInv'
         /\ pc = "payload" /\ Received /\ taken' = taken + 1 /\ cut' = cut /\ issued' = issued
         /\ faults' = faults
         /\ call.request \in (result.request + 1)..Len(issued)
         /\ \/ /\ NextUnit[1] > Cookie
               /\ pc' = "idle" /\ result'.error = 1 /\ result'.request = call.request
            \/ /\ NextUnit[1] < Cookie
               /\ pc' = "header" /\ result' = result
               /\ call'.want = MULT /\ call'.request = call.request
            \/ /\ NextUnit[1] = Cookie
               /\ pc' = "idle" /\ result'.error = 0 /\ result'.request = call.request
               /\ result'.z = NextUnit[2]
<1>1. /\ pc = "payload" /\ Received /\ taken' = taken + 1 /\ InCall
      /\ UNCHANGED <<sequence, out, used, asked, answered, cut, issued, faults>>
  BY DEF RecvPayload, InCall
<1>2. /\ taken' \in Nat /\ cut' \in BOOLEAN /\ (cut => cut')
      /\ call.request \in (result.request + 1)..Len(issued)
      /\ call \in [fn : {MULT, CRC32}, want : {MULT, CRC32}, request : Nat]
  <2>1. taken' \in Nat
    BY <1>1 DEF BaseInv, TypeInv
  <2>2. cut' \in BOOLEAN /\ (cut => cut')
    BY <1>1 DEF BaseInv, TypeInv
  <2> QED BY <1>1, <2>1, <2>2 DEF BaseInv, TypeInv
<1>3. ASSUME NEW error \in {0, 1}, NEW z, Return(error, z)
      PROVE  /\ BaseInv' /\ pc' = "idle" /\ result'.error = error /\ result'.z = z
             /\ result'.request = call.request
  <2>1. /\ pc' = "idle" /\ result'.error = error /\ result'.z = z
        /\ result'.request = call.request
        /\ result'.request \in 1..Len(issued)
        /\ call' \in [fn : {MULT, CRC32}, want : {MULT, CRC32}, request : Nat]
    BY <1>1, <1>3, ReturnBase
  <2>2. BaseInv'
    BY <1>1, <1>2, <2>1, RestBase
  <2> QED BY <2>1, <2>2
<1>4. CASE NextUnit[1] > Cookie /\ Return(1, 0)
  BY <1>1, <1>2, <1>3, <1>4
<1>5. CASE /\ NextUnit[1] < Cookie /\ pc' = "header"
           /\ call' = [call EXCEPT !.want = MULT] /\ result' = result
  <2>1. /\ call' \in [fn : {MULT, CRC32}, want : {MULT, CRC32}, request : Nat]
        /\ call'.want = MULT /\ call'.request = call.request
    BY <1>2, <1>5
  <2>2. BaseInv'
    BY <1>1, <1>2, <1>5, <2>1, RestBase DEF BaseInv, TypeInv
  <2> QED BY <1>1, <1>2, <1>5, <2>1, <2>2
<1>6. CASE NextUnit[1] = Cookie /\ Return(0, NextUnit[2])
  BY <1>1, <1>2, <1>3, <1>6
<1> QED BY <1>4, <1>5, <1>6 DEF RecvPayload

(* A call that gives up without having received a unit.                    *)
LEMMA EofStep ==
  ASSUME BaseInv, RecvEof \/ RecvFails
  PROVE  /\ BaseInv'
         /\ InCall /\ taken' = taken /\ cut' = cut /\ issued' = issued
         /\ RecvEof => cut /\ faults' = faults
         /\ RecvFails => faults' # {}
         /\ ~Torn
         /\ pc' = "idle" /\ result'.error = 1 /\ result'.request = call.request
<1>1. /\ InCall /\ taken' = taken /\ Return(1, 0)
      /\ UNCHANGED <<sequence, out, used, asked, answered, cut, issued>>
      /\ faults \subseteq faults' /\ ~Torn
      /\ RecvEof => cut /\ faults' = faults
      /\ RecvFails => faults' # {}
  BY DEF RecvEof, RecvFails
<1>2. /\ pc' = "idle" /\ result'.error = 1 /\ result'.request = call.request
      /\ result'.request \in 1..Len(issued)
      /\ call' \in [fn : {MULT, CRC32}, want : {MULT, CRC32}, request : Nat]
  BY <1>1, ReturnBase
<1>3. taken' \in Nat
  BY <1>1 DEF BaseInv, TypeInv
<1>4. cut' \in BOOLEAN /\ (cut => cut')
  BY <1>1 DEF BaseInv, TypeInv
<1>5. BaseInv'
  BY <1>1, <1>2, <1>3, <1>4, RestBase
<1> QED BY <1>1, <1>2, <1>5

(* What a call does with what it reads across units.                       *)
LEMMA TornStep ==
  ASSUME BaseInv, RecvTorn
  PROVE  /\ BaseInv' /\ InCall /\ issued' = issued /\ Torn /\ faults' = faults
         /\ \/ pc' = "idle" /\ result'.request = call.request
            \/ pc' \in {"header", "payload"} /\ call'.request = call.request /\ result' = result
<1>1. /\ InCall /\ Torn
      /\ UNCHANGED <<sequence, out, used, asked, answered, taken, cut, issued, faults>>
  BY DEF RecvTorn
<1>2. /\ taken' \in Nat /\ cut' \in BOOLEAN /\ (cut => cut') /\ faults \subseteq faults'
      /\ call.request \in (result.request + 1)..Len(issued)
      /\ call \in [fn : {MULT, CRC32}, want : {MULT, CRC32}, request : Nat]
  <2>1. cut' \in BOOLEAN /\ (cut => cut')
    BY <1>1 DEF BaseInv, TypeInv
  <2> QED BY <1>1, <2>1 DEF BaseInv, TypeInv
<1>3. ASSUME NEW error \in {0, 1}, NEW z, Return(error, z)
      PROVE  BaseInv' /\ pc' = "idle" /\ result'.request = call.request
  <2>1. /\ pc' = "idle" /\ result'.error = error
        /\ result'.request = call.request
        /\ result'.request \in 1..Len(issued)
        /\ call' \in [fn : {MULT, CRC32}, want : {MULT, CRC32}, request : Nat]
    BY <1>1, <1>3, ReturnBase
  <2>2. BaseInv'
    BY <1>1, <1>2, <2>1, RestBase
  <2> QED BY <2>1, <2>2
<1>4. ASSUME pc' \in {"header", "payload"}, result' = result,
             call' = call \/ call' = [call EXCEPT !.want = MULT]
      PROVE  BaseInv' /\ call'.request = call.request
  <2>1. /\ call' \in [fn : {MULT, CRC32}, want : {MULT, CRC32}, request : Nat]
        /\ call'.request = call.request
    BY <1>2, <1>4
  <2>2. BaseInv'
    BY <1>1, <1>2, <1>4, <2>1, RestBase DEF BaseInv, TypeInv
  <2> QED BY <2>1, <2>2
<1> QED BY <1>1, <1>3, <1>4 DEF RecvTorn

LEMMA ServeBase ==
  ASSUME BaseInv, Serve
  PROVE  BaseInv'
<1> DEFINE n == Len(answered[App]) + 1
           request == asked[App][n]
           reply == [kind |-> request.kind, seq |-> request.seq,
                     z |-> Answer(request.kind, request.arg)]
<1>1. /\ sequence' = sequence /\ out' = out /\ used' = used /\ taken' = taken /\ cut' = cut
      /\ pc' = pc /\ call' = call /\ result' = result /\ issued' = issued /\ asked' = asked
      /\ faults' = faults
      /\ n <= Len(asked[App])
      /\ answered' = [answered EXCEPT ![App] = Append(@, reply)]
  BY DEF Serve, Service!AnswerNext
<1>2. /\ Len(answered[App]) \in Nat /\ Len(asked[App]) \in Nat /\ Len(issued) \in Nat
      /\ answered \in [{App} -> Seq(Replies)] /\ answered[App] \in Seq(Replies)
      /\ Len(asked[App]) <= Len(issued)
      /\ \A i \in 1..Len(asked[App]) : asked[App][i] = issued[i]
      /\ \A i \in 1..Len(issued) : issued[i] \in Requests /\ issued[i].arg = i
  BY Lengths DEF BaseInv, TypeInv, AskInv
<1>3. n \in 1..Len(asked[App]) /\ n \in 1..Len(issued)
  BY <1>1, <1>2
<1>4. request = issued[n] /\ request \in Requests /\ request.arg = n
  BY <1>2, <1>3
<1>5. reply \in Replies
  BY <1>4 DEF Requests, Replies, Values
<1>6. reply.kind = issued[n].kind /\ reply.seq = issued[n].seq
      /\ reply.z = Answer(issued[n].kind, n)
  BY <1>4
<1> HIDE DEF reply
<1> DEFINE before == answered[App]
<1>7. before \in Seq(Replies)
  BY <1>2
<1>8. answered'[App] = Append(before, reply)
  BY <1>1, <1>2
<1> HIDE DEF before
<1>9. /\ answered'[App] \in Seq(Replies) /\ Len(answered'[App]) = Len(before) + 1
      /\ \A i \in 1..Len(before) : answered'[App][i] = before[i]
      /\ answered'[App][Len(before) + 1] = reply
  BY <1>5, <1>7, <1>8, AppendProperties
<1>10. answered' \in [{App} -> Seq(Replies)]
  BY <1>1, <1>2, <1>8, <1>9
<1>11. TypeInv'
  BY <1>1, <1>10 DEF BaseInv, TypeInv, InCall
<1>12. AskInv'
  BY <1>1 DEF BaseInv, AskInv
<1>13. AnswerInv'
  <2>1. ASSUME NEW i \in 1..n
        PROVE  /\ answered'[App][i].kind = issued[i].kind
               /\ answered'[App][i].seq = issued[i].seq
               /\ answered'[App][i].z = Answer(issued[i].kind, i)
    <3>1. CASE i = n
      BY <1>6, <1>9, <3>1 DEF before
    <3>2. CASE i # n
      <4>1. i \in 1..Len(before)
        BY <1>2, <3>2 DEF before
      <4> QED BY <1>9, <4>1 DEF before, BaseInv, AnswerInv
    <3> QED BY <3>1, <3>2
  <2> QED BY <1>1, <1>9, <2>1 DEF AnswerInv, before
<1> QED BY <1>11, <1>12, <1>13 DEF BaseInv

LEMMA StutterBase ==
  ASSUME BaseInv, UNCHANGED vars
  PROVE  BaseInv'
BY DEF vars, BaseInv, TypeInv, AskInv, AnswerInv, InCall

LEMMA NextBase ==
  ASSUME BaseInv, [Next]_vars
  PROVE  BaseInv'
<1>1. ASSUME NEW kind \in Kinds, Request(kind) PROVE BaseInv'
  BY <1>1, RequestBase
<1>2. ASSUME NEW kind \in Kinds, RequestFails(kind) PROVE BaseInv'
  <2>1. FlushFails /\ out' = <<>> /\ used' = 0 /\ pc' = "idle" /\ call' = call
        /\ result' = result /\ UNCHANGED <<sequence, answered, taken, cut, issued>>
    BY <1>2 DEF RequestFails
  <2> QED BY <2>1, FlushBase DEF BaseInv, TypeInv
<1>3. CASE Flush
  <2>1. (Flushed \/ FlushFails) /\ out' = <<>> /\ used' = 0 /\ pc' = "idle" /\ call' = call
        /\ result' = result /\ UNCHANGED <<sequence, answered, taken, cut, issued>>
    BY <1>3 DEF Flush
  <2> QED BY <2>1, FlushBase DEF BaseInv, TypeInv
<1>4. ASSUME NEW i \in DOMAIN issued, Collect(i) PROVE BaseInv'
  BY <1>4, CollectBase
<1>5. CASE Recv
  BY <1>5, HeaderStep, PayloadStep, EofStep, TornStep DEF Recv
<1>6. CASE Deinit
  <2>1. pc' = "closed" /\ call' = call /\ result' = result /\ taken' = taken /\ cut' = cut
        /\ UNCHANGED <<sequence, out, used, asked, answered, issued, faults>>
    BY <1>6 DEF Deinit, streamVars
  <2>2. cut' \in BOOLEAN /\ (cut => cut')
    BY <2>1 DEF BaseInv, TypeInv
  <2> QED BY <2>1, <2>2, RestBase DEF BaseInv, TypeInv
<1>7. CASE Serve
  BY <1>7, ServeBase
<1>8. CASE Cut
  <2>1. cut' = TRUE /\ pc' = pc /\ call' = call /\ result' = result /\ taken' = taken
        /\ UNCHANGED <<sequence, out, used, asked, answered, issued, faults>>
    BY <1>8 DEF Cut
  <2> QED BY <2>1, RestBase DEF BaseInv, TypeInv, InCall
<1>9. CASE UNCHANGED vars
  BY <1>9, StutterBase
<1> QED BY <1>1, <1>2, <1>3, <1>4, <1>5, <1>6, <1>7, <1>8, <1>9 DEF Next

(* Requests, answers and their order, of every connection.                 *)
LEMMA Base == Spec => []BaseInv
<1>1. BaseInv /\ [Next]_vars => BaseInv'
  BY NextBase
<1> QED BY <1>1, InitBase, PTL DEF Spec

(* Every request the application made is sent once, in the order made, by  *)
(* whichever call flushes (s_check_rem_out, dspmain_flush, the results),   *)
(* while the connection is there and send() takes what it is given, and    *)
(* none is written past the end of the buffer.                             *)
THEOREM RequestsGoOut == Spec => []NothingLost
<1>1. BaseInv => NothingLost
  <2>1. BaseInv => used <= OutSize
    BY Constants DEF BaseInv, TypeInv
  <2> QED BY <2>1 DEF BaseInv, AskInv, NothingLost
<1> QED BY <1>1, Base, PTL

-----------------------------------------------------------------------------
(* Steps that do not touch the stream or the call: only a request changes  *)
(* what was issued, and only while no call is in progress.                 *)
Beside ==
    /\ taken' = taken /\ call' = call /\ result' = result
    /\ pc' = pc \/ pc' = "closed"
    /\ cut => cut'
    /\ faults \subseteq faults'
    /\ issued' = issued \/ (pc = "idle" /\ pc' = "idle")
    /\ \A i \in 1..Len(issued) : issued'[i] = issued[i]

LEMMA Steps ==
  ASSUME BaseInv, [Next]_vars
  PROVE  \/ Beside \/ (\E i \in DOMAIN issued : Collect(i))
         \/ RecvHeader \/ RecvPayload \/ RecvEof \/ RecvFails \/ RecvTorn
<1>1. ASSUME NEW kind \in Kinds, Request(kind) PROVE Beside
  <2> DEFINE new == New(kind)
  <2>1. issued \in Seq(Requests) /\ new \in Requests
    BY DEF BaseInv, TypeInv, New, Requests
  <2>2. issued' = Append(issued, new)
    BY <1>1 DEF Request
  <2> HIDE DEF new
  <2>3. \A i \in 1..Len(issued) : issued'[i] = issued[i]
    BY <2>1, <2>2, AppendProperties
  <2> QED BY <1>1, <2>3 DEF Request, Flushed, Beside
<1>2. ASSUME NEW kind \in Kinds, RequestFails(kind) PROVE Beside
  BY <1>2 DEF RequestFails, FlushFails, Beside
<1>3. Flush => Beside
  BY DEF Flush, Flushed, FlushFails, Beside
<1>4. Deinit => Beside
  BY DEF Deinit, streamVars, Beside
<1>5. Serve => Beside
  BY DEF Serve, Beside
<1>6. Cut => Beside
  BY DEF Cut, Beside
<1>7. UNCHANGED vars => Beside
  BY DEF vars, Beside
<1> QED BY <1>1, <1>2, <1>3, <1>4, <1>5, <1>6, <1>7 DEF Next, Recv

LEMMA InitNumbered == Init => Numbered
BY EmptySeq, Constants DEF Init, Numbered

LEMMA NextNumbered ==
  ASSUME BaseInv, NoWrap, Numbered, [Next]_vars
  PROVE  Numbered'
<1>1. ASSUME NEW kind \in Kinds, Request(kind) PROVE Numbered'
  <2> DEFINE new == New(kind)
             L == Len(issued)
  <2>1. /\ issued' = Append(issued, new) /\ sequence' = Bump(sequence) /\ L < MaxRequests
        /\ new.seq = sequence
    BY <1>1 DEF Request, New
  <2>2. /\ L \in Nat /\ issued \in Seq(Requests) /\ new \in Requests /\ MaxSeq \in Nat
        /\ MaxRequests \in Nat
    BY Lengths, Constants DEF BaseInv, TypeInv, New, Requests
  <2>3. sequence = L
    BY <2>1, <2>2 DEF NoWrap, Numbered
  <2> HIDE DEF new
  <2>4. /\ Len(issued') = L + 1
        /\ \A i \in 1..L : issued'[i] = issued[i]
        /\ issued'[L + 1] = new
    BY <2>1, <2>2, AppendProperties
  <2>5. \A i \in 1..(L + 1) : issued'[i].seq = i - 1
    BY <2>1, <2>2, <2>3, <2>4 DEF Numbered
  <2>6. L + 1 <= MaxSeq => sequence' = L + 1
    BY <2>1, <2>2, <2>3 DEF Bump
  <2>7. L + 1 <= MaxRequests
    BY <2>1, <2>2
  <2> HIDE DEF L
  <2> QED BY <2>4, <2>5, <2>6, <2>7 DEF Numbered
<1>2. ASSUME NEW kind \in Kinds, RequestFails(kind) PROVE UNCHANGED <<sequence, issued>>
  BY <1>2 DEF RequestFails
<1>3. Flush => UNCHANGED <<sequence, issued>>
  BY DEF Flush
<1>4. ASSUME NEW i \in DOMAIN issued, Collect(i) PROVE UNCHANGED <<sequence, issued>>
  BY <1>4 DEF Collect
<1>5. Recv => UNCHANGED <<sequence, issued>>
  BY DEF Recv, RecvHeader, RecvPayload, RecvEof, RecvFails, RecvTorn
<1>6. Deinit \/ Serve \/ Cut \/ UNCHANGED vars => UNCHANGED <<sequence, issued>>
  BY DEF Deinit, Serve, Cut, vars
<1>7. UNCHANGED <<sequence, issued>> => Numbered'
  BY DEF Numbered
<1> QED BY <1>1, <1>2, <1>3, <1>4, <1>5, <1>6, <1>7 DEF Next

(* Until the int wraps, requests are numbered in the order they were made. *)
LEMMA NumberedAlways == NoWrap /\ Spec => []Numbered
<1>1. Numbered /\ BaseInv /\ NoWrap /\ [Next]_vars => Numbered'
  BY NextNumbered
<1> SUFFICES ASSUME NoWrap PROVE Spec => []Numbered
  OBVIOUS
<1>2. Numbered /\ BaseInv /\ [Next]_vars => Numbered'
  BY <1>1
<1> QED BY <1>2, InitNumbered, Base, PTL DEF Spec

-----------------------------------------------------------------------------
LEMMA InitInStep == Init => InStep
BY DEF Init, NoResult, InStep

LEMMA BesideInStep ==
  ASSUME BaseInv, InStep, Beside
  PROVE  InStep'
<1> SUFFICES ASSUME ~cut', faults' = {} PROVE InStep'
  BY DEF InStep
<1>1. /\ ~cut /\ faults = {} /\ taken' = taken /\ call' = call /\ result' = result
      /\ (pc' = pc /\ (issued' = issued \/ pc' = "idle")) \/ pc' \in {"closed", "idle"}
  BY DEF Beside
<1>2. NextReply' = NextReply
  BY <1>1 DEF NextReply
<1>3. issued' = issued /\ OnTheWay => OnTheWay'
  BY <1>1, <1>2 DEF OnTheWay
<1> QED BY <1>1, <1>3 DEF InStep, Beside

LEMMA CollectInStep ==
  ASSUME BaseInv, InStep, CRC32 \notin Skips, NEW i \in DOMAIN issued, Collect(i)
  PROVE  InStep'
<1>1. /\ i \in (result.request + 1)..Len(issued) /\ Len(issued) \in Nat
      /\ result.request \in 0..Len(issued)
      /\ issued' = issued /\ taken' = taken /\ cut' = cut /\ pc = "idle"
      /\ \/ /\ Flushed /\ pc' = "header" /\ result' = result
            /\ call'.request = i /\ call'.want = issued[i].kind
         \/ /\ FlushFails /\ pc' = "idle"
            /\ result'.request = i /\ result'.error = 1
  BY CollectBase, Lengths DEF BaseInv, TypeInv
<1>2. CASE FlushFails
  BY <1>1, <1>2 DEF FlushFails, InStep
<1>5. faults' # {} => InStep'
  BY DEF InStep
<1>3. CASE /\ ~cut /\ faults = {} /\ faults' = {} /\ pc' = "header" /\ result' = result
           /\ call'.request = i /\ call'.want = issued[i].kind
  <2> DEFINE r == result.request
  <2>1. taken = 2 * r /\ result.error = 0 /\ r \in Nat
    BY <1>1, <1>3 DEF InStep
  <2>2. taken \div 2 = r /\ taken % 2 = 0
    BY <2>1, Doubles
  <2>3. NextReply' = r + 1 /\ taken' % 2 = 0
    BY <1>1, <2>2 DEF NextReply
  <2>4. i = r + 1 \/ \A j \in (r + 1)..i : issued[j].kind \in Skips
    BY DEF Collect, Collectable
  <2>5. \A kind \in Skips : kind = MULT
    BY LibAssumption DEF LibConstants
  <2>6. CASE i = r + 1
    <3>1. \A m \in (r + 1)..i : m = i
      BY <2>1, <2>6
    <3>2. OnTheWay'
      BY <1>1, <1>3, <2>1, <2>3, <2>6, <3>1 DEF OnTheWay
    <3> QED BY <1>1, <1>3, <2>1, <2>3, <3>2 DEF InStep
  <2>7. CASE \A j \in (r + 1)..i : issued[j].kind \in Skips
    <3>1. i \in (r + 1)..i
      BY <1>1, <2>1
    <3>2. MULT \in Skips /\ call'.want = MULT
      BY <1>3, <2>5, <2>7, <3>1
    <3>3. \A j \in (r + 1)..i : issued[j].kind = MULT
      BY <2>5, <2>7
    <3>4. OnTheWay'
      BY <1>1, <1>3, <2>1, <2>3, <3>2, <3>3 DEF OnTheWay
    <3> QED BY <1>1, <1>3, <2>1, <2>3, <3>4 DEF InStep
  <2> QED BY <2>4, <2>6, <2>7
<1>4. CASE cut
  BY <1>1, <1>4 DEF InStep
<1> QED BY <1>1, <1>2, <1>3, <1>4, <1>5, FlushedBase

LEMMA HeaderInStep ==
  ASSUME BaseInv, InStep, RecvHeader
  PROVE  InStep'
<1> SUFFICES ASSUME ~cut', faults' = {} PROVE InStep'
  BY DEF InStep
<1>1. /\ pc = "header" /\ Received /\ taken' = taken + 1 /\ ~cut /\ issued' = issued
      /\ faults = {}
      /\ \/ /\ NextUnit = <<call.want, 16>>
            /\ pc' = "payload" /\ call' = call /\ result' = result
         \/ NextUnit # <<call.want, 16>>
  BY HeaderStep
<1>2. taken % 2 = 0 /\ OnTheWay /\ result.error = 0
  BY <1>1 DEF InStep
<1>3. NextReply \in Nat /\ taken \in Nat /\ NextUnit = <<issued[NextReply].kind, 16>>
      /\ call.request \in Nat
  BY <1>1, <1>2, ReceivedUnit DEF BaseInv, TypeInv
<1>4. NextReply \in NextReply..call.request
  BY <1>2, <1>3 DEF OnTheWay
<1>5. NextUnit = <<call.want, 16>>
  BY <1>2, <1>3, <1>4 DEF OnTheWay
<1>6. taken' % 2 = 1 /\ NextReply' = NextReply
  BY <1>1, <1>2, <1>3, Halves DEF NextReply
<1>7. OnTheWay'
  BY <1>1, <1>2, <1>5, <1>6 DEF OnTheWay
<1> QED BY <1>1, <1>2, <1>5, <1>6, <1>7 DEF InStep

LEMMA PayloadInStep ==
  ASSUME BaseInv, InStep, NoWrap => Numbered, PassesOverMult, RecvPayload
  PROVE  InStep'
<1> SUFFICES ASSUME ~cut', faults' = {} PROVE InStep'
  BY DEF InStep
<1> DEFINE n == NextReply
           k == call.request
<1>1. /\ pc = "payload" /\ Received /\ taken' = taken + 1 /\ ~cut /\ issued' = issued
      /\ faults = {}
      /\ k \in (result.request + 1)..Len(issued) /\ result.request \in Nat
      /\ Len(issued) \in Nat
      /\ \/ NextUnit[1] > Cookie
         \/ /\ NextUnit[1] < Cookie
            /\ pc' = "header" /\ result' = result
            /\ call'.want = MULT /\ call'.request = k
         \/ /\ NextUnit[1] = Cookie
            /\ pc' = "idle" /\ result'.error = 0 /\ result'.request = k
  BY PayloadStep, Lengths DEF BaseInv, TypeInv
<1>2. taken % 2 = 1 /\ OnTheWay /\ result.error = 0
  BY <1>1 DEF InStep
<1>3. /\ n \in 1..Len(issued) /\ taken \in Nat
      /\ NextUnit = <<issued[n].seq, Answer(issued[n].kind, n)>>
  BY <1>1, <1>2, ReceivedUnit
<1>4. NextUnit[1] = issued[n].seq /\ issued[n].seq \in Int /\ Cookie = issued[k].seq
  BY <1>3, Lengths DEF BaseInv, Cookie, Requests
<1>5. /\ taken' % 2 = 0 /\ NextReply' = n + 1 /\ taken' = 2 * n
  <2>1. /\ taken = 2 * (taken \div 2) + (taken % 2) /\ taken \div 2 \in Nat
        /\ (taken + 1) % 2 = 0 /\ (taken + 1) \div 2 = taken \div 2 + 1
    BY <1>2, <1>3, Halves
  <2> QED BY <1>1, <1>2, <2>1 DEF NextReply
<1>6. result.request < n /\ n <= k
      /\ (\A m \in n..k : issued[m].kind = call.want)
      /\ (n < k => call.want = MULT /\ MULT \in Skips)
  BY <1>2 DEF OnTheWay
<1> HIDE DEF n
<1>7. CASE n = k
  <2>1. NextUnit[1] = Cookie
    BY <1>4, <1>7
  <2>2. pc' = "idle" /\ result'.error = 0 /\ result'.request = k
    BY <1>1, <1>4, <2>1
  <2> QED BY <1>5, <1>7, <2>2 DEF InStep
<1>8. CASE n < k
  <2>1. MULT \in Skips /\ call.want = MULT /\ Numbered
    BY <1>6, <1>8 DEF PassesOverMult
  <2>2. issued[n].seq = n - 1 /\ issued[k].seq = k - 1 /\ k \in Nat
    BY <1>1, <1>3, <2>1 DEF Numbered
  <2>3. NextUnit[1] < Cookie /\ ~(NextUnit[1] > Cookie) /\ NextUnit[1] # Cookie
    BY <1>3, <1>4, <1>8, <2>2
  <2>4. /\ pc' = "header" /\ result' = result
        /\ call'.want = MULT /\ call'.request = k
    BY <1>1, <2>3
  <2>5. /\ result.request < n + 1 /\ n + 1 <= k
        /\ \A m \in (n + 1)..k : m \in n..k
    BY <1>1, <1>3, <1>6, <1>8, <2>2
  <2>6. OnTheWay'
    BY <1>1, <1>5, <1>6, <2>1, <2>4, <2>5 DEF OnTheWay
  <2> QED BY <1>2, <1>5, <2>4, <2>6 DEF InStep
<1>9. n \in Nat /\ k \in Nat
  BY <1>1, <1>3
<1> QED BY <1>6, <1>7, <1>8, <1>9

LEMMA NextInStep ==
  ASSUME BaseInv, InStep, NoWrap => Numbered, PassesOverMult, [Next]_vars
  PROVE  InStep'
<1>1. CRC32 \notin Skips
  BY DEF PassesOverMult
<1>2. RecvEof \/ RecvFails => InStep'
  BY EofStep DEF InStep
<1>3. RecvTorn => InStep'
  BY TornStep DEF InStep, Torn
<1> QED BY <1>3, <1>1, <1>2, Steps, BesideInStep, CollectInStep, HeaderInStep, PayloadInStep

(* A call of dspmain_mult_result or dspmain_crc32_result fails only on a   *)
(* connection that was closed, or when a recv() or send() has failed or    *)
(* come short, for any size of the buffer and any number of requests: when *)
(* every result is collected (Skips = {}) even after the int of the        *)
(* numbers wrapped, and when results of mult are passed over as well only  *)
(* before it wraps. (Those of crc32 cannot be: see CrcTakesCrcReplies.)    *)
THEOREM FailsWhenCut == PassesOverMult /\ Spec => []FailsOnlyWhenCut
<1> SUFFICES ASSUME PassesOverMult PROVE Spec => []FailsOnlyWhenCut
  OBVIOUS
<1>1. CASE NoWrap
  <2>1. InStep /\ Numbered /\ BaseInv /\ [Next]_vars => InStep'
    BY NextInStep
  <2>2. Spec => []Numbered
    BY <1>1, NumberedAlways
  <2>3. InStep => FailsOnlyWhenCut
    BY DEF InStep, FailsOnlyWhenCut
  <2> QED BY <2>1, <2>2, <2>3, InitInStep, Base, PTL DEF Spec
<1>2. CASE ~NoWrap
  <2>1. InStep /\ BaseInv /\ [Next]_vars => InStep'
    BY <1>2, NextInStep
  <2>2. InStep => FailsOnlyWhenCut
    BY DEF InStep, FailsOnlyWhenCut
  <2> QED BY <2>1, <2>2, InitInStep, Base, PTL DEF Spec
<1> QED BY <1>1, <1>2

-----------------------------------------------------------------------------
LEMMA InitOutOfStep == Init => OutOfStep
BY DEF Init, NoResult, OutOfStep

LEMMA BesideOutOfStep ==
  ASSUME BaseInv, OutOfStep, Beside
  PROVE  OutOfStep'
<1> SUFFICES ASSUME ~Torn' PROVE OutOfStep'
  BY DEF OutOfStep
<1>0. ~Torn
  BY DEF Beside, Torn
<1>1. /\ taken' = taken /\ call' = call /\ result' = result
      /\ NextReply' = NextReply
      /\ result.request # 0 => issued'[result.request] = issued[result.request]
  BY Lengths DEF Beside, NextReply, BaseInv, TypeInv
<1>2. \/ pc' \in {"closed", "idle"} /\ (pc' = "idle" => pc = "idle")
      \/ pc' = pc /\ issued' = issued
  BY DEF Beside
<1> QED BY <1>0, <1>1, <1>2 DEF OutOfStep

(* Where the stream is, before a unit and after it.                        *)
LEMMA Position ==
  ASSUME BaseInv
  PROVE  /\ taken \in Nat /\ NextReply \in Nat \ {0} /\ taken % 2 \in {0, 1}
         /\ taken = 2 * NextReply - 2 + (taken % 2)
         /\ taken' = taken + 1 =>
              /\ taken % 2 = 0 => taken' % 2 = 1 /\ NextReply' = NextReply
              /\ taken % 2 = 1 => taken' % 2 = 0 /\ NextReply' = NextReply + 1
<1>1. taken \in Nat
  BY DEF BaseInv, TypeInv
<1> QED BY <1>1, Halves DEF NextReply

LEMMA CollectOutOfStep ==
  ASSUME BaseInv, OutOfStep, NEW i \in DOMAIN issued, Collect(i)
  PROVE  OutOfStep'
<1> SUFFICES ASSUME ~Torn' PROVE OutOfStep'
  BY DEF OutOfStep
<1>0. ~Torn
  BY CollectBase, FlushFaults DEF Torn
<1> DEFINE r == result.request
<1>1. /\ i \in (r + 1)..Len(issued) /\ Len(issued) \in Nat /\ r \in 0..Len(issued)
      /\ issued' = issued /\ taken' = taken /\ pc = "idle"
      /\ \/ /\ pc' = "header" /\ result' = result
            /\ call'.request = i /\ call'.want = issued[i].kind
         \/ /\ pc' = "idle"
            /\ result'.request = i /\ result'.error = 1
  BY CollectBase, Lengths DEF BaseInv, TypeInv
<1>2. taken <= 2 * r
  BY <1>0, <1>1 DEF OutOfStep
<1>3. NextReply' = NextReply
  BY <1>1 DEF NextReply
<1>4. CASE /\ pc' = "header" /\ result' = result
           /\ call'.request = i /\ call'.want = issued[i].kind
  <2>1. taken % 2 = 0 => NextReply <= i
    BY <1>1, <1>2, Position
  <2>2. taken % 2 = 1 => NextReply < i
    BY <1>1, <1>2, Position
  <2> QED BY <1>0, <1>1, <1>3, <1>4, <2>1, <2>2 DEF OutOfStep
<1>5. CASE pc' = "idle" /\ result'.request = i /\ result'.error = 1
  <2>1. taken \in Nat /\ r \in Nat /\ i \in Nat /\ r < i
    <3>1. taken \in Nat
      BY Position
    <3>2. r \in Nat /\ i \in Nat /\ r < i
      BY ONLY <1>1
    <3> QED BY ONLY <3>1, <3>2
  <2> HIDE DEF r
  <2>2. taken <= 2 * i
    BY <1>2, <2>1
  <2> QED BY <1>1, <1>5, <2>2 DEF OutOfStep
<1> QED BY <1>1, <1>4, <1>5

LEMMA HeaderOutOfStep ==
  ASSUME BaseInv, OutOfStep, Numbered, RecvHeader
  PROVE  OutOfStep'
<1> SUFFICES ASSUME ~Torn' PROVE OutOfStep'
  BY DEF OutOfStep
<1>0. ~Torn
  BY HeaderStep DEF Torn
<1> DEFINE n == NextReply
           k == call.request
<1>1. /\ pc = "header" /\ Received /\ taken' = taken + 1 /\ issued' = issued
      /\ k \in 1..Len(issued) /\ Len(issued) \in Nat
      /\ \/ /\ NextUnit = <<call.want, 16>>
            /\ pc' = "payload" /\ call' = call /\ result' = result
         \/ pc' = "idle" /\ result'.error = 1 /\ result'.request = k
  <2>1. Len(issued) \in Nat /\ result.request \in Nat
    BY Lengths DEF BaseInv, TypeInv
  <2>2. /\ pc = "header" /\ Received /\ taken' = taken + 1 /\ issued' = issued
        /\ k \in (result.request + 1)..Len(issued)
        /\ \/ /\ NextUnit = <<call.want, 16>>
              /\ pc' = "payload" /\ call' = call /\ result' = result
           \/ pc' = "idle" /\ result'.error = 1 /\ result'.request = k
    BY HeaderStep
  <2>3. k \in 1..Len(issued)
    <3> HIDE DEF k
    <3> QED BY <2>1, <2>2
  <2> QED BY <2>1, <2>2, <2>3
<1>2. /\ n \in 1..Len(issued)
      /\ taken % 2 = 1 => NextUnit[1] = n - 1
  BY <1>1, ReceivedUnit DEF Numbered
<1>3. issued[k].kind \in {1, 2} /\ MULT = 1
  BY <1>1, Lengths, Constants DEF BaseInv
<1>4. CASE taken % 2 = 0
  <2>1. n <= k /\ taken' % 2 = 1 /\ NextReply' = n
    BY <1>0, <1>1, <1>4, Position DEF OutOfStep
  <2>2. taken' <= 2 * k
    <3>1. taken = 2 * n - 2 + (taken % 2)
      BY Position
    <3>2. n \in Nat /\ k \in Nat
      BY <1>1, <1>2
    <3>3. n <= k /\ taken' = taken + 1
      BY <1>1, <2>1
    <3> HIDE DEF n, k
    <3> QED BY <1>4, <3>1, <3>2, <3>3
  <2> QED BY <1>0, <1>1, <2>1, <2>2 DEF OutOfStep
<1>5. CASE taken % 2 = 1
  <2>1. /\ taken' % 2 = 0 /\ NextReply' = n + 1
        /\ \/ call.want = issued[k].kind /\ n < k
           \/ call.want = 1 /\ 3 <= n /\ n <= k
    BY <1>0, <1>1, <1>3, <1>5, Position DEF OutOfStep
  <2>2. taken' <= 2 * k
    BY <1>1, <1>2, <1>5, <2>1, Position
  <2>3. CASE /\ NextUnit = <<call.want, 16>>
             /\ pc' = "payload" /\ call' = call /\ result' = result
    <3>1. call.want = n - 1
      BY <1>2, <1>5, <2>3
    <3>2. call.want = issued[k].kind /\ n < k
      BY <1>2, <2>1, <3>1
    <3>3. n \in {2, 3} /\ n < k /\ k \in Nat /\ issued[k].kind = n - 1
      BY <1>1, <1>2, <1>3, <3>1, <3>2
    <3>4. NextReply' \in {3, 4} /\ NextReply' <= k /\ issued[k].kind = NextReply' - 2
      <4> DEFINE after == NextReply'
                 kind == issued[k].kind
      <4>1. after = n + 1 /\ kind = n - 1
        BY <2>1, <3>3
      <4> HIDE DEF after, kind, n, k
      <4>2. after \in {3, 4} /\ after <= k /\ kind = after - 2
        BY <3>3, <4>1
      <4> QED BY <4>2 DEF after, kind
    <3>5. call'.request = k
      BY <2>3
    <3>6. pc' = "payload" /\ result' = result /\ issued' = issued
      BY <1>1, <2>3
    <3>7. taken' % 2 # 1
      BY <2>1
    <3> QED BY <1>0, <3>4, <3>5, <3>6, <3>7 DEF OutOfStep
  <2>4. CASE pc' = "idle" /\ result'.error = 1 /\ result'.request = k
    BY <2>2, <2>4 DEF OutOfStep
  <2> QED BY <1>1, <2>3, <2>4
<1> QED BY <1>4, <1>5, Position

LEMMA PayloadOutOfStep ==
  ASSUME BaseInv, OutOfStep, Numbered, RecvPayload
  PROVE  OutOfStep'
<1> SUFFICES ASSUME ~Torn' PROVE OutOfStep'
  BY DEF OutOfStep
<1>0. ~Torn
  BY PayloadStep DEF Torn
<1> DEFINE n == NextReply
           k == call.request
           number == NextUnit[1]
<1>1. /\ pc = "payload" /\ Received /\ taken' = taken + 1 /\ issued' = issued
      /\ k \in 1..Len(issued) /\ Len(issued) \in Nat
      /\ \/ /\ number > Cookie
            /\ pc' = "idle" /\ result'.error = 1 /\ result'.request = k
         \/ /\ number < Cookie /\ pc' = "header" /\ result' = result
            /\ call'.want = MULT /\ call'.request = k
         \/ /\ number = Cookie /\ pc' = "idle" /\ result'.error = 0
            /\ result'.request = k /\ result'.z = NextUnit[2]
  BY PayloadStep, Lengths DEF BaseInv, TypeInv
<1>2. /\ n \in 1..Len(issued)
      /\ taken % 2 = 0 => NextUnit = <<issued[n].kind, 16>>
      /\ taken % 2 = 1 =>
            NextUnit = <<issued[n].seq, Answer(issued[n].kind, n)>>
  BY <1>1, ReceivedUnit
<1>3. Cookie = k - 1 /\ issued[n].seq = n - 1
  BY <1>1, <1>2 DEF Numbered, Cookie
<1>4. /\ issued[n].kind \in {1, 2} /\ issued[k].kind \in {1, 2}
  BY <1>1, <1>2, Lengths DEF BaseInv
<1>5. CASE taken % 2 = 1
  <2>1. n <= k /\ taken' % 2 = 0 /\ NextReply' = n + 1 /\ taken' = 2 * n
    <3>1. n <= k
      BY <1>0, <1>1, <1>5 DEF OutOfStep
    <3> QED BY <1>1, <1>2, <1>5, <3>1, Position
  <2>2. number = n - 1 /\ NextUnit[2] = Answer(issued[n].kind, n)
    BY <1>2, <1>3, <1>5
  <2> HIDE DEF n, number
  <2>3. CASE n = k
    <3>1. number = Cookie
      BY <1>3, <2>2, <2>3
    <3>2. pc' = "idle" /\ result'.request = k /\ result'.z = NextUnit[2]
      BY <1>1, <1>2, <1>3, <2>2, <3>1
    <3> QED BY <1>1, <2>1, <2>2, <2>3, <3>2 DEF OutOfStep
  <2>4. CASE n < k
    <3>1. number < Cookie /\ ~(number > Cookie) /\ number # Cookie
      BY <1>1, <1>2, <1>3, <2>2, <2>4
    <3>2. pc' = "header" /\ result' = result /\ call'.request = k
      BY <1>1, <3>1
    <3>3. n + 1 <= k
      BY <1>1, <1>2, <2>4
    <3> QED BY <1>0, <1>1, <2>1, <3>2, <3>3 DEF OutOfStep
  <2> QED BY <1>1, <1>2, <2>1, <2>3, <2>4
<1>6. CASE taken % 2 = 0
  <2>1. /\ n \in {3, 4} /\ n <= k /\ issued[k].kind = n - 2
        /\ taken' % 2 = 1 /\ NextReply' = n
    BY <1>0, <1>1, <1>6, Position DEF OutOfStep
  <2>2. number = issued[n].kind
    BY <1>2, <1>6
  <2>3. number # Cookie
    <3>1. CASE n = k
      BY <1>1, <1>2, <1>3, <1>4, <2>1, <2>2, <3>1
    <3>2. CASE n # k
      BY <1>1, <1>2, <1>3, <1>4, <2>1, <2>2, <3>2
    <3> QED BY <3>1, <3>2
  <2>4. ~(number > Cookie)
    BY <1>1, <1>2, <1>3, <1>4, <2>1, <2>2
  <2>5. pc' = "header" /\ result' = result /\ call'.request = k /\ call'.want = MULT
    BY <1>1, <2>3, <2>4
  <2>6. 3 <= n
    BY <2>1
  <2> QED BY <1>0, <1>1, <2>1, <2>5, <2>6 DEF OutOfStep
<1> QED BY <1>5, <1>6, Position

LEMMA EofOutOfStep ==
  ASSUME BaseInv, OutOfStep, RecvEof \/ RecvFails
  PROVE  OutOfStep'
<1>1. /\ InCall /\ taken' = taken
      /\ pc' = "idle" /\ result'.error = 1 /\ result'.request = call.request /\ ~Torn
  BY EofStep
<1>2. call.request \in Nat
  BY DEF BaseInv, TypeInv
<1>3. NextReply <= call.request
  BY <1>1, <1>2, Position DEF InCall, OutOfStep
<1>4. taken <= 2 * call.request
  BY <1>2, <1>3, Position
<1> QED BY <1>1, <1>4 DEF OutOfStep

LEMMA NextOutOfStep ==
  ASSUME BaseInv, OutOfStep, Numbered, [Next]_vars
  PROVE  OutOfStep'
<1>1. RecvTorn => OutOfStep'
  BY TornStep DEF OutOfStep, Torn
<1> QED BY <1>1, Steps, BesideOutOfStep, CollectOutOfStep, HeaderOutOfStep,
        PayloadOutOfStep, EofOutOfStep

(* A result returned without an error is that of the request whose cookie  *)
(* was given, whatever results the application passed over, whatever calls *)
(* failed before and wherever between two units they left off, as long as  *)
(* no recv() took a part of a unit, no send() failed and the int of the    *)
(* numbers has not wrapped.                                                *)
THEOREM RightResults == NoWrap /\ Spec => []ResultsRight
<1> SUFFICES ASSUME NoWrap PROVE Spec => []ResultsRight
  OBVIOUS
<1>1. OutOfStep /\ Numbered /\ BaseInv /\ [Next]_vars => OutOfStep'
  BY NextOutOfStep
<1>2. Spec => []Numbered
  BY NumberedAlways
<1>3. OutOfStep => ResultsRight
  BY DEF OutOfStep, ResultsRight
<1> QED BY <1>1, <1>2, <1>3, InitOutOfStep, Base, PTL DEF Spec

-----------------------------------------------------------------------------
(***************************************************************************)
(* dsptestsck. Where its loop is tells what it has made of this round's    *)
(* requests, which cookies it holds and how many results it has.           *)
(***************************************************************************)
Results == MultResults \cup {9}
Made == IF step <= 3 THEN step - 1 ELSE IF step <= 8 THEN 3 ELSE 4
Due == IF step <= 5 THEN 0 ELSE IF step <= 8 THEN step - 5 ELSE 3

CookieInv ==
    /\ \A k \in Mults : step \in (k + 1)..8 => cookie[k] = 4 * rounds + k
    /\ step = 9 => cookie[1] = 4 * rounds + 4
IssuedInv ==
    /\ Len(issued) = 4 * rounds + Made
    /\ \A k \in 1..4 : k <= Made =>
            issued[4 * rounds + k].kind = IF k = 4 THEN CRC32 ELSE MULT
ResultInv ==
    /\ pc \in {"idle", "header", "payload"}
    /\ \/ result.request = 4 * rounds + Due
       \/ pc = "idle" /\ step \in Results /\ result.request = 4 * rounds + Due + 1
    /\ pc # "idle" =>
        /\ step \in Results /\ call.request = result.request + 1
        /\ faults = {} => call.want = issued[call.request].kind
OutInv ==
    /\ step \in MultResults => out = <<>>
    /\ Len(asked[App]) + Len(out) <= Len(issued)

(* The stream is read up to the results there are; when the connection was *)
(* closed, it may have ended before that. All that as long as nothing has  *)
(* failed or come short.                                                   *)
TakenInv ==
  faults = {} =>
    /\ taken <= 2 * Len(answered[App])
    /\ pc \in {"idle", "header"} =>
        \/ taken = 2 * result.request
        \/ cut /\ taken = 2 * Len(answered[App]) /\ Len(answered[App]) <= result.request
    /\ pc = "payload" => taken = 2 * result.request + 1

TestInv ==
    /\ BaseInv
    /\ step \in 1..9 /\ rounds \in Nat /\ cookie \in [Mults -> Nat]
    /\ CookieInv /\ IssuedInv /\ ResultInv /\ OutInv /\ TakenInv

LEMMA TestBegins == TestInit => TestInv
<1> SUFFICES ASSUME TestInit PROVE TestInv
  OBVIOUS
<1>1. /\ step = 1 /\ cookie = <<0, 0, 0>> /\ rounds = 0
      /\ out = <<>> /\ asked[App] = <<>> /\ answered[App] = <<>> /\ issued = <<>>
      /\ taken = 0 /\ pc = "idle" /\ result.request = 0
  BY DEF TestInit, Init, Service!Init, NoResult
<1>2. Len(<<>>) = 0
  BY EmptySeq
<1>3. BaseInv
  BY InitBase DEF TestInit
<1>4. Made = 0 /\ Due = 0 /\ step \notin Results
  BY <1>1 DEF Made, Due, Results, MultResults
<1>5. cookie \in [Mults -> Nat]
  BY <1>1 DEF Mults
<1>6. CookieInv
  BY <1>1 DEF CookieInv, Mults
<1>7. IssuedInv
  BY <1>1, <1>2, <1>4 DEF IssuedInv
<1>8. ResultInv
  BY <1>1, <1>4 DEF ResultInv
<1>9. OutInv
  BY <1>1, <1>2 DEF OutInv
<1>10. TakenInv
  BY <1>1, <1>2 DEF TakenInv
<1> QED BY <1>1, <1>3, <1>5, <1>6, <1>7, <1>8, <1>9, <1>10 DEF TestInv

(* What the steps of the test are to the library.                          *)
LEMMA TestStepIs ==
  ASSUME TestConstants, TestInv, [TestNext]_allVars
  PROVE  BaseInv'
<1>1. KindAt \in Kinds
  BY DEF TestConstants, KindAt
<1>2. TestCollect => cookie[CookieAt] \in DOMAIN issued
  <2> SUFFICES ASSUME TestCollect PROVE cookie[CookieAt] \in DOMAIN issued
    OBVIOUS
  <2>1. step \in Results
    BY DEF TestCollect, Results
  <2>2. issued \in Seq(Requests) /\ Len(issued) = 4 * rounds + Made /\ rounds \in Nat
    BY DEF TestInv, BaseInv, TypeInv, IssuedInv
  <2>3. DOMAIN issued = 1..Len(issued)
    BY <2>2, LenProperties
  <2>4. CASE step = 9
    <3>1. CookieAt = 1 /\ Made = 4 /\ cookie[1] = 4 * rounds + 4
      BY <2>4 DEF CookieAt, Made, Mults, MultResults, TestInv, CookieInv
    <3> QED BY <2>2, <2>3, <3>1
  <2>5. CASE step \in MultResults
    <3>1. CookieAt = step - 4 /\ Made = 3 /\ step \in {5, 6, 7}
      BY <2>5 DEF CookieAt, Made, Mults, MultResults
    <3>2. cookie[step - 4] = 4 * rounds + (step - 4)
      <4>1. step - 4 \in Mults /\ step \in ((step - 4) + 1)..8
        BY <3>1 DEF Mults
      <4> QED BY <4>1 DEF TestInv, CookieInv
    <3> QED BY <2>2, <2>3, <3>1, <3>2
  <2> QED BY <2>1, <2>4, <2>5 DEF Results
<1>3. [Next]_vars
  <2>1. CASE TestRequest
    BY <1>1, <2>1 DEF TestRequest, Next
  <2>2. CASE TestFlush
    BY <2>2 DEF TestFlush, Next
  <2>3. CASE TestCollect
    BY <1>2, <2>3 DEF TestCollect, Next
  <2>4. CASE TestReturns
    BY <2>4 DEF TestReturns
  <2>5. CASE Around
    BY <2>5 DEF Around, Next
  <2>6. CASE UNCHANGED allVars
    BY <2>6 DEF allVars
  <2> QED BY <2>1, <2>2, <2>3, <2>4, <2>5, <2>6 DEF TestNext, TestStep
<1> QED BY <1>3, NextBase DEF TestInv

LEMMA TestTypes ==
  ASSUME TestInv
  PROVE  /\ step \in 1..9 /\ rounds \in Nat /\ Made \in 0..4 /\ Due \in 0..3
         /\ Len(issued) \in Nat /\ Len(out) \in Nat /\ Len(asked[App]) \in Nat
         /\ Len(answered[App]) \in Nat /\ Len(answered[App]) <= Len(asked[App])
         /\ Len(asked[App]) <= Len(issued)
         /\ issued \in Seq(Requests) /\ out \in Seq(Requests)
         /\ asked \in [{App} -> Seq(Requests)] /\ asked[App] \in Seq(Requests)
         /\ result.request \in Nat /\ taken \in Nat
<1>1. BaseInv /\ step \in 1..9 /\ rounds \in Nat
  BY DEF TestInv
<1>2. Made \in 0..4 /\ Due \in 0..3
  BY <1>1 DEF Made, Due
<1>3. /\ issued \in Seq(Requests) /\ out \in Seq(Requests) /\ taken \in Nat
      /\ result.request \in 0..Len(issued) /\ asked \in [{App} -> Seq(Requests)]
  BY <1>1 DEF BaseInv, TypeInv
<1>4. /\ Len(issued) \in Nat /\ Len(out) \in Nat /\ Len(asked[App]) \in Nat
      /\ Len(answered[App]) \in Nat /\ Len(asked[App]) <= Len(issued)
      /\ Len(answered[App]) <= Len(asked[App])
      /\ asked[App] \in Seq(Requests)
  BY <1>1, Lengths DEF BaseInv, AskInv, AnswerInv
<1> QED BY <1>1, <1>2, <1>3, <1>4

(* What the buffer holds and what was sent are never more than was asked   *)
(* for.                                                                    *)
LEMMA FlushSends ==
  ASSUME TestInv, Flushed \/ FlushFails
  PROVE  /\ Len(asked'[App]) \in Nat /\ Len(asked'[App]) <= Len(issued)
<1>1. CASE Flushed
  BY <1>1, FlushedBase, LenProperties, TestTypes DEF TestInv
<1>2. CASE FlushFails
  <2>1. asked' = asked
    BY <1>2 DEF FlushFails
  <2> QED BY <2>1, TestTypes
<1> QED BY <1>1, <1>2

LEMMA RequestKept ==
  ASSUME TestInv, TestRequest, BaseInv'
  PROVE  TestInv'
<1> DEFINE new == New(KindAt)
           n == Len(issued)
<1>1. /\ step \in {1, 2, 3, 8} /\ step' = step + 1 /\ rounds' = rounds
      /\ cookie' = [cookie EXCEPT ![CookieAt] = Len(issued')]
      /\ pc = "idle" /\ pc' = pc /\ issued' = Append(issued, new)
      /\ answered' = answered /\ taken' = taken /\ cut' = cut
      /\ call' = call /\ result' = result
  BY DEF TestRequest, Request, Mults
<1>2. \/ out' = Append(out, new) /\ asked' = asked
      \/ Flushed /\ out' = <<new>>
  BY DEF TestRequest, Request
<1>3. /\ Made' = Made + 1 /\ Due' = Due /\ step \notin Results /\ step' \in 1..9
      /\ step' \notin MultResults
  BY <1>1 DEF Made, Due, Results, MultResults
<1>4. new.kind = KindAt /\ new \in Requests
  <2>1. issued' \in Seq(Requests) /\ issued \in Seq(Requests)
    BY TestTypes DEF BaseInv, TypeInv
  <2>2. new.kind = KindAt
    BY DEF New
  <2> HIDE DEF new
  <2>3. issued' = Append(issued, new)
    BY <1>1
  <2>4. new \in Requests
    BY <2>1, <2>3, AppendProperties
  <2> QED BY <2>2, <2>4
<1> HIDE DEF new
<1>5. /\ n \in Nat /\ Len(issued') = n + 1 /\ issued'[n + 1] = new
      /\ \A k \in 1..n : issued'[k] = issued[k]
  BY <1>1, <1>4, TestTypes, AppendProperties
<1>6. n = 4 * rounds + Made /\ rounds \in Nat /\ Made \in 0..4
  BY TestTypes DEF TestInv, IssuedInv
<1>7. /\ step \in Mults => CookieAt = step /\ Made = step - 1 /\ KindAt = MULT
      /\ step = 8 => CookieAt = 1 /\ Made = 3 /\ KindAt = CRC32
  BY <1>1 DEF CookieAt, Made, KindAt, Mults, MultResults
<1>8. cookie' \in [Mults -> Nat]
  <2>1. CookieAt \in Mults /\ cookie \in [Mults -> Nat] /\ n + 1 \in Nat
    BY <1>1, <1>5, <1>7 DEF Mults, TestInv
  <2> QED BY <1>1, <1>5, <2>1
<1>9. CookieInv'
  <2>1. CASE step \in Mults
    <3>1. cookie'[step] = 4 * rounds + step
      BY <1>1, <1>5, <1>6, <1>7, <2>1 DEF TestInv
    <3>2. ASSUME NEW k \in Mults, step' \in (k + 1)..8
          PROVE  cookie'[k] = 4 * rounds' + k
      <4>1. CASE k = step
        BY <1>1, <3>1, <4>1
      <4>2. CASE k # step
        <5>1. step \in (k + 1)..8
          BY <1>1, <2>1, <3>2, <4>2 DEF Mults
        <5>2. cookie[k] = 4 * rounds + k
          BY <5>1 DEF TestInv, CookieInv
        <5> QED BY <1>1, <1>7, <2>1, <4>2, <5>2 DEF TestInv
      <4> QED BY <4>1, <4>2
    <3>3. step' # 9
      BY <1>1, <2>1 DEF Mults
    <3> QED BY <3>2, <3>3 DEF CookieInv
  <2>2. CASE step = 8
    <3>1. step' = 9 /\ \A k \in Mults : step' \notin (k + 1)..8
      BY <1>1, <2>2 DEF Mults
    <3>2. cookie'[1] = 4 * rounds' + 4
      BY <1>1, <1>5, <1>6, <1>7, <2>2 DEF Mults, TestInv
    <3> QED BY <3>1, <3>2 DEF CookieInv
  <2> QED BY <1>1, <2>1, <2>2 DEF Mults
<1>10. IssuedInv'
  <2>1. Len(issued') = 4 * rounds' + Made'
    BY <1>1, <1>3, <1>5, <1>6
  <2>2. ASSUME NEW k \in 1..4, k <= Made'
        PROVE  issued'[4 * rounds' + k].kind = IF k = 4 THEN CRC32 ELSE MULT
    <3>1. CASE k <= Made
      <4>1. 4 * rounds + k \in 1..n
        BY <1>6, <2>2, <3>1
      <4>2. issued[4 * rounds + k].kind = IF k = 4 THEN CRC32 ELSE MULT
        BY <3>1 DEF TestInv, IssuedInv
      <4> QED BY <1>1, <1>5, <4>1, <4>2
    <3>2. CASE k = Made + 1
      <4>1. issued'[4 * rounds' + k] = new
        <5>1. 4 * rounds + k = n + 1
          BY <1>6, <3>2
        <5> QED BY <1>1, <1>5, <5>1
      <4>2. KindAt = IF k = 4 THEN CRC32 ELSE MULT
        BY <1>1, <1>7, <3>2 DEF Mults
      <4> QED BY <1>4, <4>1, <4>2
    <3> QED BY <1>3, <1>6, <2>2, <3>1, <3>2
  <2> QED BY <2>1, <2>2 DEF IssuedInv
<1>11. ResultInv'
  <2>1. result.request = 4 * rounds + Due
    BY <1>3 DEF TestInv, ResultInv
  <2> QED BY <1>1, <1>3, <2>1 DEF ResultInv
<1>12. OutInv'
  <2>1. CASE out' = Append(out, new) /\ asked' = asked
    <3>1. Len(out') = Len(out) + 1
      BY <1>4, <2>1, TestTypes, AppendProperties
    <3>2. Len(asked[App]) + Len(out) <= n
      BY DEF TestInv, OutInv
    <3>3. Len(asked'[App]) + Len(out') <= Len(issued')
      BY <1>5, <2>1, <3>1, <3>2, TestTypes
    <3> QED BY <1>3, <3>3 DEF OutInv
  <2>2. CASE Flushed /\ out' = <<new>>
    <3>1. Len(out') = 1
      BY <2>2
    <3>2. Len(asked'[App]) \in Nat /\ Len(asked'[App]) <= n
      BY <2>2, FlushSends
    <3>3. Len(asked'[App]) + Len(out') <= Len(issued')
      BY <1>5, <3>1, <3>2
    <3> QED BY <1>3, <3>3 DEF OutInv
  <2> QED BY <1>2, <2>1, <2>2
<1>13. TakenInv'
  <2>1. faults \subseteq faults'
    BY FlushFaults DEF TestRequest, Request
  <2> QED BY <1>1, <2>1 DEF TestInv, TakenInv
<1> QED BY <1>1, <1>3, <1>6, <1>8, <1>9, <1>10, <1>11, <1>12, <1>13 DEF TestInv

LEMMA FlushKept ==
  ASSUME TestInv, TestFlush, BaseInv'
  PROVE  TestInv'
<1>1. /\ step = 4 /\ step' = 5 /\ cookie' = cookie /\ rounds' = rounds
      /\ Flushed \/ FlushFails
      /\ out' = <<>> /\ answered' = answered /\ taken' = taken /\ cut' = cut
      /\ pc = "idle" /\ pc' = pc /\ call' = call /\ result' = result /\ issued' = issued
  BY DEF TestFlush, Flush
<1>2. /\ Made = 3 /\ Made' = 3 /\ Due = 0 /\ Due' = 0 /\ step \notin Results
  BY <1>1 DEF Made, Due, Results, MultResults
<1>3. CookieInv'
  <2>1. \A k \in Mults : step \in (k + 1)..8
    BY <1>1 DEF Mults
  <2>2. \A k \in Mults : cookie[k] = 4 * rounds + k
    BY <2>1 DEF TestInv, CookieInv
  <2> QED BY <1>1, <2>2 DEF CookieInv
<1>4. IssuedInv'
  BY <1>1, <1>2 DEF TestInv, IssuedInv
<1>5. ResultInv'
  BY <1>1, <1>2 DEF TestInv, ResultInv
<1>6. OutInv'
  <2>1. Len(asked'[App]) \in Nat /\ Len(asked'[App]) <= Len(issued)
    BY <1>1, FlushSends
  <2>2. Len(out') = 0
    BY <1>1
  <2>3. Len(asked'[App]) + Len(out') <= Len(issued')
    BY <1>1, <2>1, <2>2
  <2> QED BY <1>1, <2>3 DEF OutInv
<1>7. TakenInv'
  <2>1. faults \subseteq faults'
    BY <1>1, FlushFaults
  <2> QED BY <1>1, <2>1 DEF TestInv, TakenInv
<1> QED BY <1>1, <1>3, <1>4, <1>5, <1>6, <1>7 DEF TestInv

(* The cookie of the result that is next, of an unreturned one.            *)
LEMMA NextCookie ==
  ASSUME TestInv, step \in Results
  PROVE  /\ cookie[CookieAt] = 4 * rounds + Due + 1
         /\ Made = IF step = 9 THEN 4 ELSE 3
         /\ issued[cookie[CookieAt]].kind = IF step = 9 THEN CRC32 ELSE MULT
         /\ Due = IF step = 9 THEN 3 ELSE step - 5
<1>1. rounds \in Nat
  BY DEF TestInv
<1>2. CASE step = 9
  <2>1. CookieAt = 1 /\ Made = 4 /\ Due = 3 /\ cookie[1] = 4 * rounds + 4
    BY <1>2 DEF CookieAt, Made, Due, Mults, MultResults, TestInv, CookieInv
  <2>2. issued[4 * rounds + 4].kind = CRC32
    BY <2>1 DEF TestInv, IssuedInv
  <2>3. 4 * rounds + 4 = 4 * rounds + 3 + 1
    BY <1>1
  <2> QED BY <1>2, <2>1, <2>2, <2>3
<1>3. CASE step \in {5, 6, 7}
  <2>1. CookieAt = step - 4 /\ Made = 3 /\ Due = step - 5 /\ step \in MultResults
    BY <1>3 DEF CookieAt, Made, Due, Mults, MultResults
  <2>2. step - 4 \in Mults /\ step \in ((step - 4) + 1)..8 /\ step - 4 \in 1..4
        /\ step - 4 <= 3 /\ step - 4 # 4
    BY <1>3 DEF Mults
  <2>3. cookie[step - 4] = 4 * rounds + (step - 4)
    BY <2>2 DEF TestInv, CookieInv
  <2>4. issued[4 * rounds + (step - 4)].kind = MULT
    BY <2>1, <2>2 DEF TestInv, IssuedInv
  <2>5. 4 * rounds + (step - 4) = 4 * rounds + (step - 5) + 1 /\ step # 9
    BY <1>1, <1>3
  <2> QED BY <2>1, <2>3, <2>4, <2>5
<1> QED BY <1>2, <1>3 DEF Results, MultResults

LEMMA CollectKept ==
  ASSUME TestInv, TestCollect, BaseInv'
  PROVE  TestInv'
<1> DEFINE m == cookie[CookieAt]
           n == Len(issued)
           a == Len(answered[App])
<1>1. /\ step \in Results /\ step' = step /\ cookie' = cookie /\ rounds' = rounds
      /\ pc = "idle" /\ result.request # m
      /\ out' = <<>> /\ answered' = answered /\ taken' = taken /\ cut' = cut
      /\ issued' = issued
      /\ \/ /\ Flushed /\ pc' = "header" /\ result' = result
            /\ call'.request = m /\ call'.want = issued[m].kind
         \/ /\ FlushFails /\ result'.request = m /\ pc' = pc
  BY DEF TestCollect, testVars, Results, Collect, Enter
<1>2. /\ m = 4 * rounds + Due + 1 /\ n = 4 * rounds + Made
      /\ step \in MultResults => out = <<>>
      /\ step = 9 => Made = 4 /\ Due = 3
  BY <1>1, NextCookie DEF TestInv, IssuedInv, OutInv
<1>3. Made' = Made /\ Due' = Due
  BY <1>1 DEF Made, Due
<1>4. result.request = 4 * rounds + Due
  BY <1>1, <1>2 DEF TestInv, ResultInv
<1>5. CookieInv'
  BY <1>1 DEF TestInv, CookieInv
<1>6. IssuedInv'
  BY <1>1, <1>3 DEF TestInv, IssuedInv
<1>7. ResultInv'
  <2>1. CASE /\ pc' = "header" /\ result' = result
             /\ call'.request = m /\ call'.want = issued[m].kind
    <3>1. call'.request = result'.request + 1
      BY <1>2, <1>4, <2>1
    <3> QED BY <1>1, <1>3, <1>4, <2>1, <3>1 DEF ResultInv
  <2>2. CASE result'.request = m /\ pc' = pc
    BY <1>1, <1>2, <1>3, <2>2 DEF ResultInv
  <2> QED BY <1>1, <2>1, <2>2
<1>8. OutInv'
  <2>1. Len(asked'[App]) \in Nat /\ Len(asked'[App]) <= n
    BY <1>1, FlushSends
  <2>2. Len(out') = 0
    BY <1>1
  <2>3. Len(asked'[App]) + Len(out') <= Len(issued')
    BY <1>1, <2>1, <2>2
  <2> QED BY <1>1, <2>3 DEF OutInv
<1>9. TakenInv'
  <2> SUFFICES ASSUME faults' = {} PROVE TakenInv'
    BY DEF TakenInv
  <2>0. faults = {}
    BY <1>1, FlushFaults
  <2>1. /\ taken <= 2 * a
        /\ \/ taken = 2 * result.request
           \/ cut /\ taken = 2 * a /\ a <= result.request
    BY <1>1, <2>0 DEF TestInv, TakenInv
  <2>2. CASE pc' = "header" /\ result' = result
    BY <1>1, <2>1, <2>2 DEF TakenInv
  <2>3. CASE FlushFails /\ result'.request = m /\ pc' = pc
    <3>1. cut /\ out # <<>>
      BY <2>0, <2>3 DEF FlushFails
    <3>2. step = 9
      BY <1>1, <1>2, <3>1 DEF Results
    <3>3. Len(out) >= 1
      BY <3>1, TestTypes, EmptySeq
    <3>4. Len(asked[App]) + Len(out) <= n
      BY DEF TestInv, OutInv
    <3>5. a <= result.request
      <4>1. /\ rounds \in Nat /\ a \in Nat /\ Len(asked[App]) \in Nat /\ Len(out) \in Nat
            /\ a <= Len(asked[App])
        BY TestTypes
      <4>2. n = 4 * rounds + 4 /\ result.request = 4 * rounds + 3
        BY <1>2, <1>4, <3>2
      <4> HIDE DEF a, n
      <4> QED BY <3>3, <3>4, <4>1, <4>2
    <3>6. taken = 2 * a /\ a <= m
      <4>1. a \in Nat /\ taken \in Nat /\ result.request \in Nat /\ m = result.request + 1
        BY <1>2, <1>4, TestTypes
      <4> HIDE DEF a, m
      <4> QED BY <2>1, <3>5, <4>1
    <3> QED BY <1>1, <2>3, <3>1, <3>6 DEF TakenInv
  <2> QED BY <1>1, <2>2, <2>3
<1> QED BY <1>1, <1>5, <1>6, <1>7, <1>8, <1>9 DEF TestInv

LEMMA ReturnsKept ==
  ASSUME TestInv, TestReturns, BaseInv'
  PROVE  TestInv'
<1>1. /\ step \in Results /\ pc = "idle" /\ result.request = cookie[CookieAt]
      /\ step' = (IF step = 9 THEN 1 ELSE step + 1)
      /\ rounds' = (IF step = 9 THEN rounds + 1 ELSE rounds)
      /\ cookie' = cookie /\ out' = out /\ asked' = asked /\ answered' = answered
      /\ taken' = taken /\ cut' = cut /\ pc' = pc /\ call' = call /\ result' = result
      /\ issued' = issued /\ faults' = faults
  BY DEF TestReturns, Results, vars
<1>2. /\ result.request = 4 * rounds + Due + 1 /\ rounds \in Nat
      /\ Made = IF step = 9 THEN 4 ELSE 3
      /\ Due = IF step = 9 THEN 3 ELSE step - 5
  BY <1>1, NextCookie, TestTypes
<1>3. OutInv'
  <2>1. step' \in MultResults => step \in MultResults
    BY <1>1 DEF MultResults, Results
  <2> QED BY <1>1, <2>1 DEF TestInv, OutInv
<1>4. TakenInv'
  BY <1>1 DEF TestInv, TakenInv
<1>5. CASE step = 9
  <2>1. step' = 1 /\ rounds' = rounds + 1 /\ Made' = 0 /\ Due' = 0 /\ Made = 4 /\ Due = 3
    BY <1>1, <1>2, <1>5 DEF Made, Due
  <2>2. CookieInv'
    BY <2>1 DEF CookieInv, Mults
  <2>3. IssuedInv'
    <3>1. Len(issued') = 4 * rounds' + Made'
      BY <1>1, <1>2, <2>1 DEF TestInv, IssuedInv
    <3> QED BY <2>1, <3>1 DEF IssuedInv
  <2>4. ResultInv'
    <3>1. result'.request = 4 * rounds' + Due'
      BY <1>1, <1>2, <2>1
    <3> QED BY <1>1, <3>1 DEF ResultInv
  <2> QED BY <1>1, <1>2, <1>3, <1>4, <2>1, <2>2, <2>3, <2>4 DEF TestInv
<1>6. CASE step \in {5, 6, 7}
  <2>1. /\ step' = step + 1 /\ rounds' = rounds /\ Made' = 3 /\ Due' = step - 4
        /\ Made = 3 /\ Due = step - 5
    BY <1>1, <1>2, <1>6 DEF Made, Due
  <2>2. CookieInv'
    <3>1. \A k \in Mults : cookie[k] = 4 * rounds + k
      <4>1. \A k \in Mults : step \in (k + 1)..8
        BY <1>6 DEF Mults
      <4> QED BY <4>1 DEF TestInv, CookieInv
    <3>2. step' # 9
      BY <1>6, <2>1
    <3> QED BY <1>1, <2>1, <3>1, <3>2 DEF CookieInv
  <2>3. IssuedInv'
    BY <1>1, <2>1 DEF TestInv, IssuedInv
  <2>4. ResultInv'
    <3>1. result'.request = 4 * rounds' + Due'
      BY <1>1, <1>2, <1>6, <2>1
    <3> QED BY <1>1, <3>1 DEF ResultInv
  <2>5. step' \in 1..9
    BY <1>6, <2>1
  <2> QED BY <1>1, <1>2, <1>3, <1>4, <2>1, <2>2, <2>3, <2>4, <2>5 DEF TestInv
<1> QED BY <1>1, <1>5, <1>6 DEF Results, MultResults

(* A step that leaves the test where it is, and what it made.              *)
LEMMA RestKept ==
  ASSUME TestInv, BaseInv', UNCHANGED testVars, UNCHANGED <<out, asked, issued>>,
         ResultInv', TakenInv'
  PROVE  TestInv'
<1>1. /\ step' = step /\ cookie' = cookie /\ rounds' = rounds
      /\ out' = out /\ asked' = asked /\ issued' = issued
  BY DEF testVars
<1>2. Made' = Made
  BY <1>1 DEF Made
<1>3. CookieInv'
  BY <1>1 DEF TestInv, CookieInv
<1>4. IssuedInv'
  BY <1>1, <1>2 DEF TestInv, IssuedInv
<1>5. OutInv'
  BY <1>1 DEF TestInv, OutInv
<1> QED BY <1>1, <1>3, <1>4, <1>5 DEF TestInv

(* Where a call is in the stream: at the next reply, which is its own.     *)
LEMMA AtOwnReply ==
  ASSUME TestInv, Received, pc \in {"header", "payload"}, faults = {}
  PROVE  /\ NextReply = call.request /\ call.request = result.request + 1
         /\ call.want = issued[call.request].kind /\ step \in Results
         /\ result.request = 4 * rounds + Due
         /\ pc = "header" => taken % 2 = 0 /\ taken = 2 * result.request
         /\ pc = "payload" => taken % 2 = 1 /\ taken = 2 * result.request + 1
<1> DEFINE r == result.request
           a == Len(answered[App])
<1>1. r \in Nat /\ a \in Nat /\ taken \in Nat /\ 2 * a > taken
  BY TestTypes DEF Received
<1>2. /\ step \in Results /\ call.request = r + 1
      /\ call.want = issued[call.request].kind /\ r = 4 * rounds + Due
  BY DEF TestInv, ResultInv
<1>3. pc = "header" => taken = 2 * r
  BY <1>1 DEF TestInv, TakenInv
<1>4. pc = "payload" => taken = 2 * r + 1
  BY DEF TestInv, TakenInv
<1> HIDE DEF r, a
<1>5. /\ (2 * r) \div 2 = r /\ (2 * r) % 2 = 0
      /\ (2 * r + 1) \div 2 = r /\ (2 * r + 1) % 2 = 1
  BY <1>1
<1>6. NextReply = r + 1
  BY <1>3, <1>4, <1>5 DEF NextReply
<1> QED BY <1>2, <1>3, <1>4, <1>5, <1>6 DEF r

(* After something has failed there is no telling where the stream is, but *)
(* a call still returns as the call it is.                                 *)
LEMMA FaultyKept ==
  ASSUME TestInv, BaseInv', UNCHANGED testVars, UNCHANGED <<out, asked, issued>>,
         pc \in {"header", "payload"}, faults' # {},
         \/ pc' = "idle" /\ result'.request = call.request
         \/ pc' \in {"header", "payload"} /\ call'.request = call.request /\ result' = result
  PROVE  TestInv'
<1>1. /\ call.request = result.request + 1 /\ step \in Results
      /\ result.request = 4 * rounds + Due
  BY DEF TestInv, ResultInv
<1>2. Due' = Due /\ step' = step /\ rounds' = rounds
  BY DEF Due, testVars
<1>3. ResultInv'
  BY <1>1, <1>2 DEF ResultInv
<1>4. TakenInv'
  BY DEF TakenInv
<1> QED BY <1>3, <1>4, RestKept

LEMMA HeaderKept ==
  ASSUME TestInv, RecvHeader, UNCHANGED testVars
  PROVE  TestInv'
<1>0. CASE faults # {}
  BY <1>0, FaultyKept, HeaderStep DEF TestInv, InCall, RecvHeader
<1> SUFFICES ASSUME faults = {} PROVE TestInv'
  BY <1>0
<1>1. /\ pc = "header" /\ Received /\ taken' = taken + 1 /\ cut' = cut
      /\ out' = out /\ asked' = asked /\ answered' = answered /\ issued' = issued
  BY DEF RecvHeader
<1>2. /\ NextReply = call.request /\ call.request = result.request + 1
      /\ call.want = issued[call.request].kind /\ step \in Results
      /\ result.request = 4 * rounds + Due
      /\ taken % 2 = 0 /\ taken = 2 * result.request
  BY <1>1, AtOwnReply
<1>3. NextUnit = <<call.want, 16>>
  BY <1>1, <1>2, ReceivedUnit DEF TestInv
<1>4. BaseInv' /\ pc' = "payload" /\ call' = call /\ result' = result
  BY <1>3, HeaderStep DEF TestInv
<1>5. Due' = Due /\ step' = step /\ rounds' = rounds
  BY DEF Due, testVars
<1>6. ResultInv'
  BY <1>1, <1>2, <1>4, <1>5 DEF ResultInv
<1>7. TakenInv'
  <2>1. taken' <= 2 * Len(answered'[App])
    BY <1>1, TestTypes DEF Received
  <2>2. taken' = 2 * result'.request + 1
    BY <1>1, <1>2, <1>4
  <2> QED BY <1>4, <2>1, <2>2 DEF TakenInv
<1> QED BY <1>1, <1>4, <1>6, <1>7, RestKept

(* The payload is the call's own.                                          *)
LEMMA OwnPayload ==
  ASSUME TestInv, pc = "payload", Received, faults = {}
  PROVE  NextUnit[1] = Cookie
<1>1. NextReply = call.request /\ taken % 2 = 1
  BY AtOwnReply
<1> QED BY <1>1, ReceivedUnit DEF TestInv, Cookie

LEMMA PayloadKept ==
  ASSUME TestInv, RecvPayload, UNCHANGED testVars
  PROVE  TestInv'
<1>0. CASE faults # {}
  BY <1>0, FaultyKept, PayloadStep DEF TestInv, InCall, RecvPayload
<1> SUFFICES ASSUME faults = {} PROVE TestInv'
  BY <1>0
<1>1. /\ pc = "payload" /\ Received /\ taken' = taken + 1 /\ cut' = cut
      /\ out' = out /\ asked' = asked /\ answered' = answered /\ issued' = issued
  BY DEF RecvPayload
<1>2. /\ NextReply = call.request /\ call.request = result.request + 1
      /\ step \in Results /\ result.request = 4 * rounds + Due
      /\ taken = 2 * result.request + 1
  BY <1>1, AtOwnReply
<1>3. Cookie \in Int /\ NextUnit[1] = Cookie
  <2>1. Cookie = issued[NextReply].seq /\ NextReply \in 1..Len(issued)
    BY <1>1, <1>2, ReceivedUnit DEF Cookie, TestInv
  <2>2. issued[NextReply] \in Requests
    BY <2>1, Lengths DEF TestInv, BaseInv
  <2> QED BY <1>1, <2>1, <2>2, OwnPayload DEF Requests
<1>4. BaseInv' /\ pc' = "idle" /\ result'.request = call.request
  <2>1. ~(NextUnit[1] > Cookie) /\ ~(NextUnit[1] < Cookie)
    BY <1>3
  <2> QED BY <2>1, PayloadStep DEF TestInv
<1>5. Due' = Due /\ step' = step /\ rounds' = rounds
  BY DEF Due, testVars
<1>6. ResultInv'
  BY <1>2, <1>4, <1>5 DEF ResultInv
<1>7. TakenInv'
  <2>1. taken' <= 2 * Len(answered'[App])
    BY <1>1, TestTypes DEF Received
  <2>2. taken' = 2 * result'.request
    <3>1. result.request \in Nat
      BY TestTypes
    <3> QED BY ONLY <1>1, <1>2, <1>4, <3>1
  <2> QED BY <1>4, <2>1, <2>2 DEF TakenInv
<1> QED BY <1>1, <1>4, <1>6, <1>7, RestKept

LEMMA EofKept ==
  ASSUME TestInv, RecvEof \/ RecvFails, UNCHANGED testVars
  PROVE  TestInv'
<1>0. CASE faults' # {}
  <2>1. UNCHANGED <<out, asked, issued>>
    BY DEF RecvEof, RecvFails
  <2> QED BY <1>0, <2>1, FaultyKept, EofStep DEF TestInv, InCall
<1> SUFFICES ASSUME RecvEof, faults' = {} PROVE TestInv'
  BY <1>0, EofStep DEF TestInv
<1> DEFINE r == result.request
           a == Len(answered[App])
<1>1. /\ pc \in {"header", "payload"} /\ ~Received /\ cut /\ cut' = cut
      /\ out' = out /\ asked' = asked /\ answered' = answered /\ issued' = issued
      /\ taken' = taken /\ faults' = faults /\ faults = {}
  BY DEF RecvEof, InCall
<1>2. /\ call.request = r + 1 /\ step \in Results /\ r = 4 * rounds + Due
  BY <1>1 DEF TestInv, ResultInv
<1>3. BaseInv' /\ pc' = "idle" /\ result'.request = r + 1
  BY <1>2, EofStep DEF TestInv
<1>4. Due' = Due /\ step' = step /\ rounds' = rounds
  BY DEF Due, testVars
<1>5. ResultInv'
  BY <1>2, <1>3, <1>4 DEF ResultInv
<1>6. taken = 2 * a /\ a <= r + 1
  <2>1. a \in Nat /\ r \in Nat /\ taken \in Nat /\ ~(2 * a > taken)
    BY <1>1, TestTypes DEF Received
  <2>2. /\ taken <= 2 * a
        /\ taken = 2 * r \/ (taken = 2 * a /\ a <= r) \/ taken = 2 * r + 1
    BY <1>1 DEF TestInv, TakenInv
  <2> HIDE DEF a, r
  <2> QED BY <2>1, <2>2
<1>7. TakenInv'
  <2>1. taken <= 2 * a
    BY <1>1 DEF TestInv, TakenInv
  <2> QED BY <1>1, <1>3, <1>6, <2>1 DEF TakenInv
<1> QED BY <1>1, <1>3, <1>5, <1>7, RestKept

LEMMA TornKept ==
  ASSUME TestInv, RecvTorn, UNCHANGED testVars
  PROVE  TestInv'
<1>1. UNCHANGED <<out, asked, issued>>
  BY DEF RecvTorn
<1> QED BY <1>1, FaultyKept, TornStep DEF TestInv, InCall, Torn

LEMMA ServeKept ==
  ASSUME TestInv, Serve, UNCHANGED testVars
  PROVE  TestInv'
<1>1. /\ ~cut /\ cut' = cut /\ out' = out /\ asked' = asked /\ issued' = issued
      /\ taken' = taken /\ pc' = pc /\ call' = call /\ result' = result /\ faults' = faults
  BY DEF Serve, Service!AnswerNext
<1>2. BaseInv'
  BY ServeBase DEF TestInv
<1>3. Due' = Due /\ step' = step /\ rounds' = rounds
  BY DEF Due, testVars
<1>4. ResultInv'
  BY <1>1, <1>3 DEF TestInv, ResultInv
<1>5. Len(answered'[App]) \in Nat /\ Len(answered'[App]) >= Len(answered[App])
  <2> DEFINE n == Len(answered[App]) + 1
             request == asked[App][n]
             reply == [kind |-> request.kind, seq |-> request.seq,
                       z |-> Answer(request.kind, request.arg)]
             before == answered[App]
  <2>1. answered' = [answered EXCEPT ![App] = Append(@, reply)]
    BY DEF Serve, Service!AnswerNext
  <2>2. answered \in [{App} -> Seq(Replies)] /\ answered' \in [{App} -> Seq(Replies)]
    BY <1>2 DEF TestInv, BaseInv, TypeInv
  <2> HIDE DEF reply
  <2>3. answered'[App] = Append(before, reply)
    BY <2>1, <2>2
  <2>4. before \in Seq(Replies) /\ answered'[App] \in Seq(Replies)
    BY <2>2
  <2> HIDE DEF before
  <2>5. before \in Seq(Replies \cup {reply}) /\ reply \in Replies \cup {reply}
    BY <2>4, SeqMonotonic
  <2>6. PICK R : R = Replies \cup {reply}
    OBVIOUS
  <2>7. Len(answered'[App]) = Len(before) + 1 /\ Len(before) \in Nat
    BY ONLY <2>3, <2>5, <2>6, AppendProperties, LenProperties
  <2> QED BY <2>7 DEF before
<1>6. TakenInv'
  <2>1. faults = {} => taken <= 2 * Len(answered'[App])
    BY <1>5, TestTypes DEF TestInv, TakenInv
  <2> QED BY <1>1, <2>1 DEF TestInv, TakenInv
<1> QED BY <1>1, <1>2, <1>4, <1>6, RestKept

LEMMA CutKept ==
  ASSUME TestInv, Cut, UNCHANGED testVars, BaseInv'
  PROVE  TestInv'
<1>1. /\ cut' /\ out' = out /\ asked' = asked /\ issued' = issued /\ answered' = answered
      /\ taken' = taken /\ pc' = pc /\ call' = call /\ result' = result /\ faults' = faults
  BY DEF Cut
<1>2. Due' = Due /\ step' = step /\ rounds' = rounds
  BY DEF Due, testVars
<1>3. ResultInv'
  BY <1>1, <1>2 DEF TestInv, ResultInv
<1>4. TakenInv'
  BY <1>1 DEF TestInv, TakenInv
<1> QED BY <1>1, <1>3, <1>4, RestKept

LEMMA TestKept ==
  ASSUME TestConstants, TestInv, [TestNext]_allVars
  PROVE  TestInv'
<1>1. BaseInv'
  BY TestStepIs
<1>2. CASE UNCHANGED allVars
  <2>1. UNCHANGED <<vars, testVars>>
    BY <1>2 DEF allVars
  <2>2. Due' = Due
    BY <2>1 DEF Due, testVars
  <2>3. ResultInv'
    BY <2>1, <2>2 DEF TestInv, ResultInv, vars, testVars
  <2>4. TakenInv'
    BY <2>1 DEF TestInv, TakenInv, vars
  <2> QED BY <1>1, <2>1, <2>3, <2>4, RestKept DEF vars
<1>3. CASE Around
  BY <1>1, <1>3, HeaderKept, PayloadKept, EofKept, TornKept, ServeKept, CutKept DEF Around, Recv
<1> QED BY <1>1, <1>2, <1>3, RequestKept, FlushKept, CollectKept, ReturnsKept
        DEF TestNext, TestStep

LEMMA TestHolds ==
  ASSUME TestInv
  PROVE  ResultsMatch
<1>1. EachHasItsCookie
  <2> SUFFICES ASSUME step \in Results
               PROVE  /\ cookie[CookieAt] = 4 * rounds + (IF step = 9 THEN 4 ELSE step - 4)
                      /\ issued[cookie[CookieAt]].kind = (IF step = 9 THEN CRC32 ELSE MULT)
    BY DEF EachHasItsCookie, Results
  <2>1. /\ cookie[CookieAt] = 4 * rounds + Due + 1 /\ rounds \in Nat /\ step \in 1..9
        /\ issued[cookie[CookieAt]].kind = (IF step = 9 THEN CRC32 ELSE MULT)
        /\ Due = IF step = 9 THEN 3 ELSE step - 5
    BY NextCookie, TestTypes
  <2>2. 4 * rounds + Due + 1 = 4 * rounds + (IF step = 9 THEN 4 ELSE step - 4)
    BY <2>1
  <2> QED BY <2>1, <2>2
<1>2. NeverSkips
  BY OwnPayload DEF NeverSkips
<1> QED BY <1>1, <1>2 DEF ResultsMatch

(* dsptestsck, when the library makes both kinds of requests: every result *)
(* is asked for with the cookie its request was given, also by the cookie  *)
(* that serves two of them, and, unless a recv() or send() has failed or   *)
(* come short, is the next in the stream, so none is ever passed over, in  *)
(* any number of rounds, also when the numbers wrap and when the           *)
(* connection is closed at any place.                                      *)
THEOREM TestMatches ==
  ASSUME TestConstants
  PROVE  TestSpec => []ResultsMatch
<1>1. TestInv /\ [TestNext]_allVars => TestInv'
  BY TestKept
<1>2. TestInv => ResultsMatch
  BY TestHolds
<1> QED BY <1>1, <1>2, TestBegins, PTL DEF TestSpec

=============================================================================
