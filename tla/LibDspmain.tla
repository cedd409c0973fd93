----------------------------- MODULE LibDspmain -----------------------------
(***************************************************************************)
(* gpp/libdspmain.c: one connection of an application that uses the        *)
(* library, over the service that DspmainRpc specifies. Requests collect   *)
(* in a buffer, are flushed together, and their results are read from the  *)
(* stream in the order they were asked for. The library trusts that order: *)
(* the stream is read in units of eight bytes, a header and a payload, and *)
(* nothing but their position tells which is which.                        *)
(***************************************************************************)
EXTENDS Integers, Sequences

CONSTANTS
    App,            \* the application, a client of the service
    Kinds,          \* the requests it makes, of MULT and CRC32
    Answer(_, _),   \* what the service answers
    OutSize,        \* the size of the output buffer in words
    MaxSeq,         \* INT_MAX
    MaxRequests,    \* how many requests the application makes
    Skips,          \* the requests whose results it may never collect
    Cuts,           \* the server may close the connection
    Garbled,        \* the numbers that bytes of two units may make
    Faults          \* what else may go wrong on the socket: see faults

MULT == 1
CRC32 == 2

LibConstants ==
    /\ Kinds \subseteq {MULT, CRC32}
    /\ OutSize \in Nat /\ OutSize >= 8
    /\ MaxSeq \in Nat /\ MaxRequests \in Nat
    /\ Skips \subseteq {MULT, CRC32} /\ Cuts \in BOOLEAN
    /\ Faults \subseteq {"recv", "short", "send"}

ASSUME LibAssumption == LibConstants

VARIABLES
    sequence,   \* ldsp->sequence
    out,        \* the requests in out_s
    used,       \* out_s->p - out_s->data, in words
    asked,      \* the requests sent, per client of the service
    answered,   \* the answers the service gave
    taken,      \* units of eight bytes received
    cut,        \* the server has closed
    pc,         \* where in the library the application is
    call,       \* the result it is in: function, subid looked for, request
    result,     \* what the last call of dspmain_*_result returned
    issued,     \* the requests made (history), with their cookies
    faults      \* what has gone wrong: "recv", a recv() failed and took
                \* nothing; "short", one took a part of a unit; "send", a
                \* send() failed or took a part of what was to go out

vars == <<sequence, out, used, asked, answered, taken, cut, pc, call, result, issued,
          faults>>
streamVars == <<asked, answered, taken, cut>>

Service == INSTANCE DspmainRpc WITH Clients <- {App}, Seqnos <- Int

(* One side has lost its place in the stream: nothing says so, and nothing *)
(* in the library finds it again.                                          *)
Torn == faults \cap {"short", "send"} # {}

(* 20 bytes for mult, 32 for crc32.                                        *)
Words(kind) == IF kind = MULT THEN 5 ELSE 8

(* An int that is incremented.                                             *)
Bump(n) == IF n = MaxSeq THEN -(MaxSeq + 1) ELSE n + 1

NoCall == [fn |-> MULT, want |-> MULT, request |-> 0]
NoResult == [fn |-> MULT, request |-> 0, error |-> 0, z |-> 0]

(* dspmain_init, when it succeeds.                                         *)
Init ==
    /\ sequence = 0 /\ out = <<>> /\ used = 0
    /\ Service!Init
    /\ taken = 0 /\ cut = FALSE
    /\ pc = "idle" /\ call = NoCall /\ result = NoResult
    /\ issued = <<>> /\ faults = {}

-----------------------------------------------------------------------------
(* dspmain_flush empties the buffer before it knows that send() succeeds. *)
(* What is sent after a part of a request is no request to the service.    *)
Flushed ==
    /\ out = <<>> \/ ~cut
    /\ asked' = IF "send" \in faults THEN asked ELSE [asked EXCEPT ![App] = @ \o out]
    /\ UNCHANGED faults
FlushFails ==
    /\ out # <<>>
    /\ \/ cut /\ UNCHANGED faults
       \/ ~cut /\ "send" \in Faults /\ faults' = faults \cup {"send"}
    /\ UNCHANGED asked

(* Mutant of Flush: the buffer keeps what was sent.                        *)
FlushKeeping ==
    /\ pc = "idle"
    /\ Flushed \/ FlushFails
    /\ UNCHANGED <<sequence, out, used, answered, taken, cut, pc, call, result, issued>>

Flush ==
    /\ pc = "idle"
    /\ Flushed \/ FlushFails
    /\ out' = <<>> /\ used' = 0
    /\ UNCHANGED <<sequence, answered, taken, cut, pc, call, result, issued>>

(* The operands of a request are its own: they are its number.             *)
New(kind) == [kind |-> kind, seq |-> sequence, arg |-> Len(issued) + 1]

(* Mutant of Room: not all of the request is counted.                      *)
RoomForHeader(kind) == used + 2 <= OutSize

(* s_check_rem_out.                                                        *)
Room(kind) == used + Words(kind) <= OutSize

(* dspmain_mult and dspmain_crc32. When the buffer is full it is flushed;  *)
(* if that fails there is no request.                                      *)
Request(kind) ==
    /\ pc = "idle"
    /\ Len(issued) < MaxRequests
    /\ \/ /\ Room(kind)
          /\ out' = Append(out, New(kind)) /\ used' = used + Words(kind)
          /\ UNCHANGED <<asked, faults>>
       \/ /\ ~Room(kind) /\ Flushed
          /\ out' = <<New(kind)>> /\ used' = Words(kind)
    /\ issued' = Append(issued, New(kind))
    /\ sequence' = Bump(sequence)
    /\ UNCHANGED <<answered, taken, cut, pc, call, result>>

RequestFails(kind) ==
    /\ pc = "idle"
    /\ Len(issued) < MaxRequests
    /\ ~Room(kind) /\ FlushFails
    /\ out' = <<>> /\ used' = 0
    /\ UNCHANGED <<sequence, answered, taken, cut, pc, call, result, issued>>

-----------------------------------------------------------------------------
(* dspmain_mult_result and dspmain_crc32_result.                           *)

(* Which results the application asks for: each at most once, in order, of *)
(* the function that made the request. Those it passes over, and the one   *)
(* it then asks for, are of the kinds in Skips.                            *)
Collectable(i) ==
    /\ i > result.request
    /\ \/ i = result.request + 1
       \/ \A j \in (result.request + 1)..i : issued[j].kind \in Skips

Return(error, z) ==
    /\ pc' = "idle"
    /\ call' = NoCall
    /\ result' = [fn |-> call.fn, request |-> call.request, error |-> error, z |-> z]

(* Mutant of Enter: the requests are not flushed first.                    *)
EnterUnflushed(i) ==
    /\ pc' = "header"
    /\ call' = [fn |-> issued[i].kind, want |-> issued[i].kind, request |-> i]
    /\ UNCHANGED <<asked, result, faults>>

Enter(i) ==
    /\ Flushed
    /\ pc' = "header"
    /\ call' = [fn |-> issued[i].kind, want |-> issued[i].kind, request |-> i]
    /\ UNCHANGED result

Collect(i) ==
    /\ pc = "idle"
    /\ Collectable(i)
    /\ \/ Enter(i)
       \/ /\ FlushFails
          /\ result' = [fn |-> issued[i].kind, request |-> i, error |-> 1, z |-> 0]
          /\ UNCHANGED <<pc, call>>
    /\ out' = <<>> /\ used' = 0
    /\ UNCHANGED <<sequence, answered, taken, cut, issued>>

(* The stream in units of eight bytes: [subid, size], [sequence, value].   *)
InCall == pc \in {"header", "payload"}
Received == 2 * Len(answered[App]) > taken
NextUnit ==
    LET reply == answered[App][taken \div 2 + 1]
    IN  IF taken % 2 = 0 THEN <<reply.kind, 16>> ELSE <<reply.seq, reply.z>>

RecvHeader ==
    /\ pc = "header" /\ Received /\ ~Torn
    /\ taken' = taken + 1
    /\ IF NextUnit = <<call.want, 16>>
        THEN pc' = "payload" /\ UNCHANGED <<call, result>>
        ELSE Return(1, 0)
    /\ UNCHANGED <<sequence, out, used, asked, answered, cut, issued, faults>>

Cookie == issued[call.request].seq

(* Mutants of RecvPayload: sequence >= cookie is refused; older replies    *)
(* are taken; older replies are refused.                                   *)
RecvPayloadStrict ==
    /\ pc = "payload" /\ Received /\ ~Torn
    /\ taken' = taken + 1
    /\ \/ NextUnit[1] >= Cookie /\ Return(1, 0)
       \/ /\ NextUnit[1] < Cookie
          /\ pc' = "header"
          /\ call' = [call EXCEPT !.want = MULT]
          /\ UNCHANGED result
    /\ UNCHANGED <<sequence, out, used, asked, answered, cut, issued, faults>>

RecvPayloadAny ==
    /\ pc = "payload" /\ Received /\ ~Torn
    /\ taken' = taken + 1
    /\ IF NextUnit[1] > Cookie THEN Return(1, 0) ELSE Return(0, NextUnit[2])
    /\ UNCHANGED <<sequence, out, used, asked, answered, cut, issued, faults>>

RecvPayloadNoSkip ==
    /\ pc = "payload" /\ Received /\ ~Torn
    /\ taken' = taken + 1
    /\ IF NextUnit[1] # Cookie THEN Return(1, 0) ELSE Return(0, NextUnit[2])
    /\ UNCHANGED <<sequence, out, used, asked, answered, cut, issued, faults>>

(* An older reply is skipped, by both functions, with dspmain_mult_result. *)
RecvPayload ==
    /\ pc = "payload" /\ Received /\ ~Torn
    /\ taken' = taken + 1
    /\ \/ NextUnit[1] > Cookie /\ Return(1, 0)
       \/ /\ NextUnit[1] < Cookie
          /\ pc' = "header"
          /\ call' = [call EXCEPT !.want = MULT]
          /\ UNCHANGED result
       \/ NextUnit[1] = Cookie /\ Return(0, NextUnit[2])
    /\ UNCHANGED <<sequence, out, used, asked, answered, cut, issued, faults>>

(* recv() returns nothing.                                                 *)
RecvEof ==
    /\ InCall /\ ~Torn /\ ~Received /\ cut
    /\ Return(1, 0)
    /\ UNCHANGED <<sequence, out, used, asked, answered, taken, cut, issued, faults>>

(* recv() fails, or returns less than the eight bytes: the call fails, and *)
(* the next one starts to read where this one left off.                    *)
RecvFails ==
    /\ InCall /\ ~Torn
    /\ \/ "recv" \in Faults /\ faults' = faults \cup {"recv"}
       \/ "short" \in Faults /\ Received /\ faults' = faults \cup {"short"}
    /\ Return(1, 0)
    /\ UNCHANGED <<sequence, out, used, asked, answered, taken, cut, issued>>

(* What is read across units may pass for anything.                        *)
RecvTorn ==
    /\ InCall /\ Torn
    /\ \/ Return(1, 0)
       \/ pc = "header" /\ pc' = "payload" /\ UNCHANGED <<call, result>>
       \/ /\ pc = "payload"
          /\ pc' = "header"
          /\ call' = [call EXCEPT !.want = MULT]
          /\ UNCHANGED result
       \/ pc = "payload" /\ \E z \in Garbled : Return(0, z)
    /\ UNCHANGED <<sequence, out, used, asked, answered, taken, cut, issued, faults>>

(* dspmain_deinit.                                                         *)
Deinit ==
    /\ pc = "idle"
    /\ pc' = "closed"
    /\ UNCHANGED <<sequence, out, used, streamVars, call, result, issued, faults>>

-----------------------------------------------------------------------------
(* The service, and the server's closing the connection.                   *)
Serve ==
    /\ ~cut
    /\ Service!AnswerNext(App)
    /\ UNCHANGED <<sequence, out, used, taken, cut, pc, call, result, issued, faults>>

Cut ==
    /\ Cuts /\ ~cut
    /\ cut' = TRUE
    /\ UNCHANGED <<sequence, out, used, asked, answered, taken, pc, call, result, issued,
                   faults>>

Recv == RecvHeader \/ RecvPayload \/ RecvEof \/ RecvFails \/ RecvTorn

Next ==
    \/ \E kind \in Kinds : Request(kind) \/ RequestFails(kind)
    \/ Flush
    \/ \E i \in DOMAIN issued : Collect(i)
    \/ Recv \/ Deinit \/ Serve \/ Cut
    \/ pc = "closed" /\ UNCHANGED vars

Spec == Init /\ [][Next]_vars

(* The library runs when recv() returns with what there is, and nothing    *)
(* makes recv() fail; the service answers (it is checked of the server in  *)
(* Dspmain, as RequestsAnswered).                                          *)
Receive == RecvHeader \/ RecvPayload \/ RecvEof
FairSpec == Spec /\ WF_vars(Receive) /\ WF_vars(Serve)

-----------------------------------------------------------------------------
(* A result that is returned without an error is that of the request the   *)
(* cookie was given for, whatever else was asked for and not collected and *)
(* wherever an earlier call gave up, unless one side lost its place in the *)
(* stream: a part of a unit was received, or not all of a request sent.    *)
ResultsRight ==
    (result.error = 0 /\ result.request # 0 /\ ~Torn) =>
        result.z = Answer(issued[result.request].kind, result.request)

(* A call of dspmain_*_result fails only on a connection that was closed,  *)
(* or when a recv() or send(), its own or of an earlier call, has failed   *)
(* or come short. No order of requests and results makes one fail.         *)
FailsOnlyWhenCut == result.error = 1 => cut \/ faults # {}

(* Every request goes out once, in the order made, across all the places   *)
(* that flush, as long as the connection is there and send() has taken all *)
(* that it was given, and none is written past the end of the buffer.      *)
NothingLost ==
    /\ used <= OutSize
    /\ ~cut /\ "send" \notin faults => asked[App] \o out = issued

(* A call that waits for a result gets it, or the end of the connection,   *)
(* as long as no recv() or send() has failed or come short: after that it  *)
(* may wait for bytes an earlier call has read already.                    *)
CallsReturn == InCall ~> (pc = "idle" \/ faults # {})

(* dspmain_crc32_result takes the replies whose subid is CRC32MSGSUBID and *)
(* no others: "subid != 2) /* CRC32MSGSUBID */".                           *)
CrcTakesCrcReplies ==
    [][(pc = "header" /\ call.fn = CRC32 /\ taken' = taken + 1)
            => (pc' = "payload" <=> NextUnit = <<CRC32, 16>>)]_vars

=============================================================================
