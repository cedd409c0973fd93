------------------------------ MODULE MCBytes -------------------------------
(***************************************************************************)
(* The two parts of the program that are about bytes: the stream of a      *)
(* connection, and the CRC of an image. They meet in no step, so that a    *)
(* behaviour is one of them, chosen at first, and the other stays as it    *)
(* is.                                                                     *)
(***************************************************************************)
EXTENDS PeerStream, CrcReplies, FiniteSets

(* PDUs: lengths on each side of every limit the code compares with.       *)
MCLengths == {3, 4, 5, 6, 8, 9, 10}
MCPdus ==
    {pdu \in [code : Codes, len : MCLengths] :
        pdu.code # "unknown" => pdu.len \in {3, 5, 6, 8, 9}}

(* Small images of all formats.                                            *)
MCPixels == {{}, Bits, {0, 9, 18, 27}, {7, 8, 16, 31}}
MCImages == UNION {[1..n -> MCPixels] : n \in 1..3}
MCStale == [b \in Octets |-> {3}]

(* The definition of the CRC is the usual one: the check value of the      *)
(* digits 1 to 9.                                                          *)
Digit(d) == {i \in 0..7 : ((48 + d) \div 2^i) % 2 = 1}
ASSUME CheckValue ==
    CrcOf(72, {i \in 0..71 : (i % 8) \in Digit(i \div 8 + 1)})
        = {1, 2, 5, 8, 11, 12, 13, 18, 20, 21, 22, 23, 24, 25, 27, 30, 31}

VARIABLE which

StreamRuns == which = "stream" /\ Next /\ UNCHANGED crcVars
CrcRuns == which = "crc" /\ CrcNext /\ UNCHANGED vars

MCInit ==
    /\ Init /\ CrcInit
    /\ \/ which = "stream" /\ format = 1
       \/ which = "crc"
MCNext == UNCHANGED which /\ (StreamRuns \/ CrcRuns)

(* The fairness of PeerStream, where it is that which runs.                *)
StreamDoes(A) == which = "stream" /\ A /\ UNCHANGED <<which, crcVars>>
MCSpec ==
    /\ MCInit /\ [][MCNext]_<<which, vars, crcVars>>
    /\ WF_vars(StreamDoes(Read))
    /\ WF_vars(StreamDoes(QueueReply))
    /\ WF_vars(StreamDoes(Write))

=============================================================================
