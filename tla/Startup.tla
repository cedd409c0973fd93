------------------------------ MODULE Startup ------------------------------
(***************************************************************************)
(* The life of a server process (gpp/dspmain.c, main and the functions it  *)
(* nests: dspmain_listening, _attached, _loaded, _started, _located): each *)
(* call obtains something, and whichever fails, what was obtained is let   *)
(* go on the way out. Several servers share the names /tmp/dspmain.sck and *)
(* /tmp/dspmain.log and the one processor 0, whose one task has the one    *)
(* queue DSPMSGQ0; signals and kill -9 come at any time. The boot and the  *)
(* end of that task (dsp/dspmain.c, main and dspmain_tsk) are here too;    *)
(* what it does with messages is in DspTask, and the server's loop, one    *)
(* step here, is in DspmainServer.                                         *)
(***************************************************************************)
EXTENDS Naturals, Sequences, SequencesExt

CONSTANTS
    Servers,    \* the server processes, each started once
    Modes,      \* the ways they are started
    Faults,     \* the calls that may fail, and for whom: None is the DSP
    None        \* no process

ASSUME StartupAssumption ==
    /\ Modes \subseteq {"daemon", "forground", "help"}
    /\ None \notin Servers

VARIABLES
    pc,         \* the call each server is at
    mode,       \* what its arguments ask for: settings
    held,       \* what it has obtained and not let go, in order
    handled,    \* SIGINT and SIGTERM have their handler
    signalled,  \* the term pipe has something in it
    dsp,        \* the task of processor 0
    robbed,     \* history: the servers whose DSP another one ended
    path,       \* who bound UDS_SCK_FILE, if there is such a file
    log,        \* who truncated LOG_FILENAME, if there is such a file
    lastLog,    \* whose log is at LAST_LOG_FILENAME, if there is one
    alone       \* history: no other server ran while this one did

task == <<dsp, robbed>>
files == <<path, log, lastLog>>
vars == <<pc, mode, held, handled, signalled, task, files, alone>>

(* The calls that obtain something: what they obtain, where the code goes  *)
(* next and where it goes when they fail. "signal" is the three signal()   *)
(* calls, that obtain nothing to be let go.                                *)
Call(obtains, next, failed) == [gets |-> obtains, then |-> next, else |-> failed]
(* main's calls, and those of the functions it nests.                      *)
MainObtains ==
    [ settings           |-> Call(<<"settings">>,  "args",               "ended"),
      dspmain            |-> Call(<<"dspmain">>,   "pipe",               "log_deinit"),
      pipe               |-> Call(<<"pipe">>,      "socket",             "free_dspmain"),
      socket             |-> Call(<<"socket">>,    "unlink",             "close_pipe"),
      listen             |-> Call(<<>>,            "PROC_setup",         "close_socket") ]
DspObtains ==
    [ PROC_setup         |-> Call(<<"setup">>,     "PROC_attach",        "cleanup"),
      PROC_attach        |-> Call(<<"attach">>,    "signal",             "PROC_destroy"),
      MSGQ_open          |-> Call(<<"msgq">>,      "PROC_load",          "PROC_detach"),
      PROC_load          |-> Call(<<>>,            "POOL_open",          "MSGQ_close"),
      POOL_open          |-> Call(<<"pool">>,      "PROC_start",         "MSGQ_close"),
      PROC_start         |-> Call(<<"dsp">>,       "MSGQ_transportOpen", "POOL_close"),
      MSGQ_transportOpen |-> Call(<<"transport">>, "MSGQ_locate",        "PROC_stop") ]

Obtains ==
    [c \in DOMAIN MainObtains \cup DOMAIN DspObtains |->
        IF c \in DOMAIN MainObtains THEN MainObtains[c] ELSE DspObtains[c]]

(* The calls that let something go, and what follows them.                 *)
Frees(what, next) == [frees |-> what, then |-> next]

(* Mutants of LetsGo: PROC_stop left out; PROC_stop after POOL_close.      *)
LetsGoNoStop ==
    [ MSGQ_transportClose |-> Frees("transport", "POOL_close"),
      PROC_stop           |-> Frees("dsp",       "POOL_close"),
      POOL_close          |-> Frees("pool",      "MSGQ_close"),
      MSGQ_close          |-> Frees("msgq",      "PROC_detach"),
      PROC_detach         |-> Frees("attach",    "PROC_destroy"),
      PROC_destroy        |-> Frees("setup",     "cleanup"),
      cleanup             |-> Frees("peers",     "close_socket"),
      close_socket        |-> Frees("socket",    "close_pipe"),
      close_pipe          |-> Frees("pipe",      "free_dspmain"),
      free_dspmain        |-> Frees("dspmain",   "log_deinit"),
      free_settings       |-> Frees("settings",  "ended") ]
LetsGoStopLast ==
    [LetsGoNoStop EXCEPT !.POOL_close.then = "PROC_stop",
                         !.PROC_stop.then = "MSGQ_close"]

LetsGo ==
    [ MSGQ_transportClose |-> Frees("transport", "PROC_stop"),
      PROC_stop           |-> Frees("dsp",       "POOL_close"),
      POOL_close          |-> Frees("pool",      "MSGQ_close"),
      MSGQ_close          |-> Frees("msgq",      "PROC_detach"),
      PROC_detach         |-> Frees("attach",    "PROC_destroy"),
      PROC_destroy        |-> Frees("setup",     "cleanup"),
      cleanup             |-> Frees("peers",     "close_socket"),
      close_socket        |-> Frees("socket",    "close_pipe"),
      close_pipe          |-> Frees("pipe",      "free_dspmain"),
      free_dspmain        |-> Frees("dspmain",   "log_deinit"),
      free_settings       |-> Frees("settings",  "ended") ]


Running(s) == pc[s] \notin {"idle", "ended", "killed", "crashed"}
Dead(s) == pc[s] \in {"ended", "killed", "crashed"}
Holds(s, r) == r \in Range(held[s])
Goto(s, c) == pc' = [pc EXCEPT ![s] = c]
Obtain(s, what) == held' = [held EXCEPT ![s] = @ \o what]
LetGo(s, r) ==
    \/ ~Holds(s, r) /\ UNCHANGED held
    \/ \E i \in DOMAIN held[s] :
        held[s][i] = r /\ held' = [held EXCEPT ![s] = RemoveAt(@, i)]

Init ==
    /\ pc = [s \in Servers |-> "idle"]
    /\ mode \in [Servers -> Modes]
    /\ held = [s \in Servers |-> <<>>]
    /\ handled = [s \in Servers |-> FALSE]
    /\ signalled = [s \in Servers |-> FALSE]
    /\ dsp = "off" /\ robbed = {}
    /\ path = None /\ log = None /\ lastLog = None
    /\ alone = [s \in Servers |-> FALSE]

(* Someone runs the program.                                               *)
Start(s) ==
    /\ pc[s] = "idle"
    /\ Goto(s, "settings")
    /\ alone' = [t \in Servers |-> IF t = s THEN \A u \in Servers : ~Running(u)
                                   ELSE alone[t] /\ ~Running(t)]
    /\ UNCHANGED <<mode, held, handled, signalled, task, files>>

(* Processor 0 has no owner: these are the others that use it as well.     *)
Users(s) == {t \in Servers \ {s} : Running(t) /\ Holds(t, "dsp")}

(* The driver boots it, or, where it runs already, may leave it as it is:  *)
(* then a task on its way out is no use to the server that starts it.      *)
ProcStart(s) ==
    \/ dsp' = "boot" /\ robbed' = robbed \cup Users(s)
    \/ /\ dsp # "off" /\ UNCHANGED dsp
       /\ robbed' = IF dsp \in {"told", "done"} THEN robbed \cup {s} ELSE robbed

(* The driver stops it, or may wait for the last that started it.          *)
ProcStop(s) ==
    \/ dsp' = "off" /\ robbed' = robbed \cup Users(s)
    \/ (\E t \in Servers \ {s} : Holds(t, "dsp")) /\ UNCHANGED task

(* The SHUTDOWN message, where there is a task to get it.                  *)
Shutdown(s) ==
    \/ /\ dsp \in {"serving", "mute"}
       /\ dsp' = "told" /\ robbed' = robbed \cup Users(s)
    \/ dsp \notin {"serving", "mute"} /\ UNCHANGED task

(* A call that obtains something, or fails.                                *)
CallReturns(s) ==
    /\ pc[s] \in DOMAIN Obtains
    /\ \/ /\ Obtain(s, Obtains[pc[s]].gets)
          /\ Goto(s, Obtains[pc[s]].then)
          /\ IF pc[s] = "PROC_start" THEN ProcStart(s) ELSE UNCHANGED task
       \/ /\ <<s, pc[s]>> \in Faults
          /\ Goto(s, Obtains[pc[s]].else)
          /\ UNCHANGED <<held, task>>
    /\ UNCHANGED <<mode, handled, signalled, files, alone>>

(* A call that lets something go: its status is not looked at.             *)
Release(s) ==
    /\ pc[s] \in DOMAIN LetsGo
    /\ LetGo(s, LetsGo[pc[s]].frees)
    /\ Goto(s, LetsGo[pc[s]].then)
    /\ IF pc[s] = "PROC_stop" THEN ProcStop(s) ELSE UNCHANGED task
    /\ UNCHANGED <<mode, handled, signalled, files, alone>>

(* process_args and what main does with the settings.                      *)
Args(s) ==
    /\ pc[s] = "args"
    /\ Goto(s, CASE mode[s] = "daemon" -> "fork"
                 [] mode[s] = "forground" -> "dspmain"
                 [] mode[s] = "help" -> "free_settings")
    /\ UNCHANGED <<mode, held, handled, signalled, task, files, alone>>

(* fork, whose parent ends: the server is the child, that opens its log.   *)
Fork(s) ==
    /\ pc[s] = "fork"
    /\ \/ /\ Goto(s, "dspmain")
          /\ \/ log' = s /\ Obtain(s, <<"log">>)
             \/ <<s, "chmod">> \in Faults /\ log' = s /\ UNCHANGED held
             \/ <<s, "open">> \in Faults /\ UNCHANGED <<log, held>>
       \/ <<s, "fork">> \in Faults /\ Goto(s, "free_settings") /\ UNCHANGED <<log, held>>
    /\ UNCHANGED <<mode, handled, signalled, task, path, lastLog, alone>>

(* Mutant of Unlink: the file of an earlier server stays.                  *)
UnlinkForgotten(s) ==
    /\ pc[s] = "unlink"
    /\ Goto(s, "bind")
    /\ UNCHANGED <<mode, held, handled, signalled, task, files, alone>>

Unlink(s) ==
    /\ pc[s] = "unlink"
    /\ path' = None
    /\ Goto(s, "bind")
    /\ UNCHANGED <<mode, held, handled, signalled, task, log, lastLog, alone>>

(* Mutant of Bind: the file is unlinked once bound.                         *)
BindUnlinks(s) ==
    /\ pc[s] = "bind"
    /\ \/ path = None /\ Goto(s, "listen")
       \/ (path # None \/ <<s, "bind">> \in Faults) /\ Goto(s, "close_socket")
    /\ UNCHANGED <<mode, held, handled, signalled, task, files, alone>>

(* bind makes the file, and fails where there is one.                      *)
Bind(s) ==
    /\ pc[s] = "bind"
    /\ \/ path = None /\ path' = s /\ Goto(s, "listen")
       \/ (path # None \/ <<s, "bind">> \in Faults) /\ Goto(s, "close_socket") /\ UNCHANGED path
    /\ UNCHANGED <<mode, held, handled, signalled, task, log, lastLog, alone>>

(* Mutant of SignalCalls: the handlers are installed when in service.      *)
SignalCallsLate(s) ==
    /\ \/ pc[s] = "signal" /\ Goto(s, "MSGQ_open") /\ UNCHANGED handled
       \/ /\ pc[s] = "loop" /\ ~handled[s]
          /\ handled' = [handled EXCEPT ![s] = TRUE]
          /\ UNCHANGED pc
    /\ UNCHANGED <<mode, held, signalled, task, files, alone>>

SignalCalls(s) ==
    /\ pc[s] = "signal"
    /\ handled' = [handled EXCEPT ![s] = TRUE]
    /\ Goto(s, "MSGQ_open")
    /\ UNCHANGED <<mode, held, signalled, task, files, alone>>

(* MSGQ_locate with WAIT_FOREVER: it returns when the DSP has a queue.     *)
Locate(s) ==
    /\ pc[s] = "MSGQ_locate"
    /\ \/ dsp \in {"serving", "mute"} /\ Goto(s, "located")
       \/ <<s, "MSGQ_locate">> \in Faults /\ Goto(s, "MSGQ_transportClose")
    /\ UNCHANGED <<mode, held, handled, signalled, task, files, alone>>

(* Mutant of Serve: the loop does not look at the term pipe.               *)
ServeDeaf(s) ==
    /\ \/ pc[s] = "located" /\ Goto(s, "reply")
       \/ pc[s] = "reply" /\ dsp = "serving" /\ Goto(s, "loop")
       \/ pc[s] = "shutdown" /\ Goto(s, "MSGQ_transportClose")
    /\ UNCHANGED <<mode, held, handled, signalled, task, files, alone>>

(* dspmain_located: the GETREPLY message sent, or not; its reply awaited;  *)
(* the loop, that ends when the term pipe has something in it (or at once, *)
(* with no memory for its fd_sets); SHUTDOWN sent, or not.                 *)
Serve(s) ==
    /\ \/ /\ pc[s] = "located"
          /\ \/ Goto(s, "reply")
             \/ <<s, "send">> \in Faults /\ Goto(s, "MSGQ_transportClose")
          /\ UNCHANGED <<task, held>>
       \/ /\ pc[s] = "reply"
          /\ \/ dsp = "serving" /\ Goto(s, "loop")
             \/ <<s, "MSGQ_get">> \in Faults /\ Goto(s, "MSGQ_transportClose")
          /\ UNCHANGED <<task, held>>
       \/ /\ pc[s] = "loop"
          /\ signalled[s] \/ <<s, "fds">> \in Faults
          /\ Goto(s, "shutdown")
          /\ \E peers \in {<<>>, <<"peers">>} : Obtain(s, peers)
          /\ UNCHANGED task
       \/ /\ pc[s] = "shutdown"
          /\ Shutdown(s) \/ (<<s, "send">> \in Faults /\ UNCHANGED task)
          /\ Goto(s, "MSGQ_transportClose")
          /\ UNCHANGED held
    /\ UNCHANGED <<mode, handled, signalled, files, alone>>

(* Mutant of LogDeinit: renamed, then unlinked.                            *)
LogDeinitLoses(s) ==
    /\ pc[s] = "log_deinit"
    /\ IF Holds(s, "log") THEN log' = None /\ lastLog' = None
       ELSE UNCHANGED <<log, lastLog>>
    /\ LetGo(s, "log")
    /\ Goto(s, "free_settings")
    /\ UNCHANGED <<mode, handled, signalled, task, path, alone>>

(* log_deinit: close, unlink the last log, rename this one to it: whoever's *)
(* log it is by now, and if there is one.                                  *)
LogDeinit(s) ==
    /\ pc[s] = "log_deinit"
    /\ IF Holds(s, "log") THEN log' = None /\ lastLog' = log
       ELSE UNCHANGED <<log, lastLog>>
    /\ LetGo(s, "log")
    /\ Goto(s, "free_settings")
    /\ UNCHANGED <<mode, handled, signalled, task, path, alone>>

(* SIGINT or SIGTERM: sig_int writes to the term pipe, or, before the      *)
(* handlers are installed, the process is gone.                            *)
Signal(s) ==
    /\ Running(s)
    /\ IF handled[s]
       THEN /\ signalled' = [signalled EXCEPT ![s] = @ \/ Holds(s, "pipe")]
            /\ UNCHANGED pc
       ELSE Goto(s, "killed") /\ UNCHANGED signalled
    /\ UNCHANGED <<mode, held, handled, task, files, alone>>

(* kill -9, or the like.                                                   *)
Crash(s) ==
    /\ Running(s) /\ <<s, "crash">> \in Faults
    /\ Goto(s, "crashed")
    /\ UNCHANGED <<mode, held, handled, signalled, task, files, alone>>

(* The DSP's task: MSGQ_open, which may fail and end it; it leaves its     *)
(* loop on SHUTDOWN, whoever sent it; it may lose a message a server waits *)
(* for.                                                                    *)
DspStep ==
    /\ \/ dsp = "boot" /\ dsp' = "serving"
       \/ dsp = "boot" /\ <<None, "dsp">> \in Faults /\ dsp' = "failed"
       \/ dsp = "told" /\ dsp' = "done"
    /\ UNCHANGED <<pc, mode, held, handled, signalled, robbed, files, alone>>

DspLoses ==
    /\ dsp = "serving" /\ <<None, "lose">> \in Faults
    /\ dsp' = "mute"
    /\ UNCHANGED <<pc, mode, held, handled, signalled, robbed, files, alone>>

Step(s) ==
    \/ CallReturns(s) \/ Release(s) \/ Args(s) \/ Fork(s) \/ Unlink(s) \/ Bind(s)
    \/ SignalCalls(s) \/ Locate(s) \/ Serve(s) \/ LogDeinit(s)
Environment(s) == Start(s) \/ Signal(s) \/ Crash(s)
Next == (\E s \in Servers : Step(s) \/ Environment(s)) \/ DspStep \/ DspLoses
Spec == Init /\ [][Next]_vars

(* Library calls return, the loop looks at the term pipe and the DSP runs, *)
(* but nobody need signal a server; a mute DSP, and one that another       *)
(* server ended, may hold the loop up.                                     *)
FairSpec ==
    /\ Spec
    /\ \A s \in Servers : WF_vars(dsp # "mute" /\ s \notin robbed /\ Step(s))
    /\ WF_vars(DspStep)

-----------------------------------------------------------------------------

(* Whatever failed, a server that ends by itself (help, a failed call or   *)
(* the end of service) has let everything go, and no DSP runs but one that *)
(* a server has started and not stopped.                                   *)
NothingHeldAtEnd ==
    /\ \A s \in Servers : pc[s] = "ended" => held[s] = <<>>
    /\ dsp # "off" => \E s \in Servers : Holds(s, "dsp")

(* A SIGTERM or SIGINT that kills (before main installs its handlers) never *)
(* leaves a queue, a pool or a DSP that runs: at most the driver attached. *)
KilledEarly ==
    \A s \in Servers : pc[s] = "killed" =>
        \A r \in {"msgq", "pool", "dsp", "transport"} : ~Holds(s, r)

(* A server that ran alone and listens is the one clients reach at         *)
(* UDS_SCK_FILE, whatever an earlier one that crashed left there.          *)
Reachable ==
    \A s \in Servers : Running(s) /\ alone[s] /\ Holds(s, "setup") => path = s

(* A server's DSP is ended by another one only if both ran at once, or it  *)
(* found the DSP of one that crashed.                                      *)
KeepsItsDsp ==
    \A s \in robbed : ~alone[s] \/ \E t \in Servers : t # s /\ pc[t] = "crashed"

(* What is let go is what was obtained last, so nothing is closed under    *)
(* what still uses it. The peers, accepted in between, go with main.       *)
LetsLastGo ==
    [][\A s \in Servers : Len(held'[s]) < Len(held[s]) =>
        \E i \in DOMAIN held[s] :
            /\ held'[s] = RemoveAt(held[s], i)
            /\ \A j \in (i + 1)..Len(held[s]) : held[s][j] = "peers"]_vars

(* main gives up at bind only for bind's own failures: a file an earlier   *)
(* server left is no obstacle, only one a server started meanwhile made.   *)
StartsAgain ==
    [][\A s \in Servers :
        /\ pc[s] = "bind" /\ pc'[s] = "close_socket"
        /\ alone[s]
        => path = None]_vars

(* The log of a daemon that ran alone is the last log when it has ended.   *)
KeepsLastLog ==
    [][\A s \in Servers :
        pc[s] = "log_deinit" /\ pc'[s] # "log_deinit" /\ Running(s)'
        /\ Holds(s, "log") /\ alone[s]
        => lastLog' = s]_vars

(* What a server leaves behind, and what it does while it runs.            *)
LeavesNothing == NothingHeldAtEnd /\ KilledEarly /\ Reachable /\ KeepsItsDsp
StepsInTurn == LetsLastGo /\ StartsAgain /\ KeepsLastLog

(* A server with a signal in its term pipe ends, at whatever call it was,  *)
(* unless the DSP's task gave up or lost the message the server waits for, *)
(* or another server ended that task: its SHUTDOWN and its PROC_stop are   *)
(* for the one processor that both use.                                    *)
Exits ==
    \A s \in Servers :
        signalled[s] ~> (Dead(s) \/ dsp \in {"failed", "mute"} \/ s \in robbed)
=============================================================================
