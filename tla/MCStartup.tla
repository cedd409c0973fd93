----------------------------- MODULE MCStartup ------------------------------
(* Two servers: the first meets every failure, the second those of the     *)
(* things they share.                                                      *)
EXTENDS Startup

CONSTANTS s1, s2

MCFaults ==
    ({s1} \X (DOMAIN Obtains \cup
        {"chmod", "open", "fork", "bind", "MSGQ_locate", "send", "MSGQ_get", "fds",
         "crash"}))
    \cup {<<None, "dsp">>, <<None, "lose">>}
    \cup ({s2} \X {"open", "bind", "PROC_attach"})
=============================================================================
