---------------------------- MODULE StartupProofs ----------------------------
(***************************************************************************)
(* Proofs about Startup, for any number of servers started in any order,   *)
(* whatever calls fail, signals come and processes crash: what a server    *)
(* leaves behind, the order in which it lets things go, and the files it   *)
(* shares with the others.                                                 *)
(***************************************************************************)
EXTENDS Startup, Integers, SequenceTheorems, TLAPS

(* What RemoveAt leaves of a sequence, and where.                          *)
LEMMA RemoveAtProperties ==
  ASSUME NEW S, NEW s \in Seq(S), NEW i \in 1..Len(s)
  PROVE  /\ RemoveAt(s, i) \in Seq(S)
         /\ Len(RemoveAt(s, i)) = Len(s) - 1
         /\ \A j \in 1..(Len(s) - 1) :
                RemoveAt(s, i)[j] = IF j < i THEN s[j] ELSE s[j + 1]
<1> DEFINE a == SubSeq(s, 1, i - 1)
           b == SubSeq(s, i + 1, Len(s))
<1>0. Len(s) \in Nat /\ i \in Int /\ i >= 1 /\ i <= Len(s)
  BY LenProperties
<1>1. /\ a \in Seq(S)
      /\ Len(a) = i - 1
      /\ \A j \in 1..(i - 1) : a[j] = s[j]
  <2>1. \A j \in 1..(i - 1) : s[j] \in S
    BY <1>0, ElementOfSeq
  <2>2. /\ a \in Seq(S)
        /\ Len(a) = IF 1 <= i - 1 THEN (i - 1) - 1 + 1 ELSE 0
        /\ \A j \in 1..((i - 1) - 1 + 1) : a[j] = s[1 + j - 1]
    BY <1>0, <2>1, SubSeqProperties
  <2> QED BY <1>0, <2>2
<1>2. /\ b \in Seq(S)
      /\ Len(b) = Len(s) - i
      /\ \A j \in 1..(Len(s) - i) : b[j] = s[i + j]
  <2>1. \A j \in (i + 1)..Len(s) : s[j] \in S
    BY <1>0, ElementOfSeq
  <2>2. /\ b \in Seq(S)
        /\ Len(b) = IF i + 1 <= Len(s) THEN Len(s) - (i + 1) + 1 ELSE 0
        /\ \A j \in 1..(Len(s) - (i + 1) + 1) : b[j] = s[(i + 1) + j - 1]
    BY <1>0, <2>1, SubSeqProperties
  <2> QED BY <1>0, <2>2
<1>3. /\ a \o b \in Seq(S)
      /\ Len(a \o b) = Len(s) - 1
      /\ \A j \in 1..(Len(s) - 1) :
            (a \o b)[j] = IF j <= i - 1 THEN a[j] ELSE b[j - (i - 1)]
  <2> HIDE DEF a, b
  <2>1. /\ a \o b \in Seq(S)
        /\ Len(a \o b) = Len(a) + Len(b)
        /\ \A j \in 1..(Len(a) + Len(b)) :
             (a \o b)[j] = IF j <= Len(a) THEN a[j] ELSE b[j - Len(a)]
    BY <1>1, <1>2, ConcatProperties
  <2> QED BY <1>0, <1>1, <1>2, <2>1
<1>4. RemoveAt(s, i) = a \o b
  BY DEF RemoveAt
<1> HIDE DEF a, b
<1>5. ASSUME NEW j \in 1..(Len(s) - 1)
      PROVE  (a \o b)[j] = IF j < i THEN s[j] ELSE s[j + 1]
  <2>1. CASE j < i
    BY <1>0, <1>1, <1>3, <2>1
  <2>2. CASE ~(j < i)
    <3>1. j - (i - 1) \in 1..(Len(s) - i)
      BY <1>0, <2>2
    <3>2. b[j - (i - 1)] = s[i + (j - (i - 1))]
      BY <1>2, <3>1
    <3>3. i + (j - (i - 1)) = j + 1
      BY <1>0
    <3>4. (a \o b)[j] = b[j - (i - 1)]
      BY <1>0, <1>3, <2>2
    <3> QED BY <2>2, <3>2, <3>3, <3>4
  <2> QED BY <2>1, <2>2
<1> QED BY <1>3, <1>4, <1>5

(* What a server can hold, each inside those of a lower rank.              *)
Resources == {"settings", "log", "dspmain", "pipe", "socket", "setup", "attach",
              "msgq", "pool", "dsp", "transport", "peers"}
Rank(r) ==
    CASE r = "settings" -> 1  [] r = "log" -> 2    [] r = "dspmain" -> 3
      [] r = "pipe" -> 4      [] r = "socket" -> 5 [] r = "setup" -> 6
      [] r = "attach" -> 7    [] r = "msgq" -> 8   [] r = "pool" -> 9
      [] r = "dsp" -> 10      [] r = "transport" -> 11
      [] r = "peers" -> 12

(* How deep in the nest of functions each call is: a server at a call of   *)
(* level n holds what has rank n or less.                                  *)
Level(c) ==
    CASE c \in {"idle", "settings", "ended"} -> 0
      [] c \in {"args", "fork", "free_settings"} -> 1
      [] c \in {"dspmain", "log_deinit"} -> 2
      [] c \in {"pipe", "free_dspmain"} -> 3
      [] c \in {"socket", "close_pipe"} -> 4
      [] c \in {"unlink", "bind", "listen", "PROC_setup", "cleanup", "close_socket"} -> 5
      [] c \in {"PROC_attach", "PROC_destroy"} -> 6
      [] c \in {"signal", "MSGQ_open", "PROC_detach"} -> 7
      [] c \in {"PROC_load", "POOL_open", "MSGQ_close"} -> 8
      [] c \in {"PROC_start", "POOL_close"} -> 9
      [] c \in {"MSGQ_transportOpen", "PROC_stop"} -> 10
      [] c \in {"MSGQ_locate", "located", "reply", "loop", "shutdown",
                "MSGQ_transportClose"} -> 11

(* The calls after main installed its handlers, until PROC_detach returns, *)
(* and those after the loop, until the peers are freed.                    *)
Late == {"MSGQ_open", "PROC_load", "POOL_open", "PROC_start", "MSGQ_transportOpen",
         "MSGQ_locate", "located", "reply", "loop", "shutdown", "MSGQ_transportClose",
         "PROC_stop", "POOL_close", "MSGQ_close", "PROC_detach"}
Served == {"shutdown", "MSGQ_transportClose", "PROC_stop", "POOL_close", "MSGQ_close",
           "PROC_detach", "PROC_destroy", "cleanup"}
Early == {"settings", "args", "fork", "free_settings", "dspmain", "log_deinit", "pipe",
          "free_dspmain", "socket", "close_pipe", "unlink", "bind", "listen",
          "PROC_setup", "cleanup", "close_socket", "PROC_attach", "PROC_destroy",
          "signal"}
Places == {"idle", "ended"} \cup Early \cup Late

Ordered(h) == \A i, j \in DOMAIN h : i < j => Rank(h[i]) < Rank(h[j])

TypeInv ==
    /\ pc \in [Servers -> Places \cup {"killed", "crashed"}]
    /\ mode \in [Servers -> Modes]
    /\ held \in [Servers -> Seq(Resources)]
    /\ handled \in [Servers -> BOOLEAN]
    /\ alone \in [Servers -> BOOLEAN]

(* What a server holds, from where it is: of what may be there or not, the *)
(* log of a daemon and the peers the loop left.                            *)
Has(h, r) == r \in Range(h)
Holding(h, c) ==
    /\ Ordered(h)
    /\ \A r \in Resources \ {"log", "peers"} : Has(h, r) <=> Rank(r) <= Level(c)
    /\ Has(h, "log") => 2 <= Level(c)
    /\ Has(h, "peers") => c \in Served
OwnInv(s) ==
    /\ pc[s] \in Places => Holding(held[s], pc[s])
    /\ pc[s] \in Late => handled[s]
    /\ pc[s] = "killed" =>
        \A r \in {"msgq", "pool", "dsp", "transport"} : ~Has(held[s], r)
HeldInv == \A s \in Servers : OwnInv(s)

(* What a server that runs alone finds: nobody else runs, the file is      *)
(* first gone and then its own, and so is its log.                         *)
PastBind(c) == c \in {"listen", "PROC_setup"} \/ 6 <= Level(c)
PathOwn(s) ==
    /\ pc[s] = "bind" => path = None
    /\ PastBind(pc[s]) => path = s
AloneInv ==
    \A s \in Servers : alone[s] /\ Running(s) =>
        /\ \A t \in Servers : Running(t) => t = s
        /\ PathOwn(s)
        /\ Has(held[s], "log") => log = s

-----------------------------------------------------------------------------

(* What every call that obtains something does to the depth, when it       *)
(* succeeds and when it fails.                                             *)
Always == Resources \ {"log", "peers"}
Deeper(c, call) ==
    /\ c \in Places \ {"idle", "ended"} /\ c \notin Served
    /\ call.then \in Places \ {"idle", "ended"} /\ call.then \notin Served
    /\ call.else \in Places \ {"idle"} /\ Level(call.else) = Level(c)
    /\ call.then \in Late => c \in Late
    /\ call.else \in Late => c \in Late
    /\ c = "PROC_start" => Level(call.then) = 10
    /\ Level(c) <= Level(call.then)
    /\ call.then # "bind" /\ (PastBind(call.then) => PastBind(c))
    /\ call.else # "bind" /\ (PastBind(call.else) => PastBind(c))
    /\ \/ call.gets = <<>> /\ Level(call.then) = Level(c)
       \/ \E r \in Always :
            /\ call.gets = <<r>> /\ Level(c) < Rank(r)
            /\ \A q \in Always : Rank(q) <= Level(call.then) <=> Rank(q) <= Level(c) \/ q = r

LEMMA CallTable ==
  ASSUME NEW c \in DOMAIN Obtains
  PROVE  Deeper(c, Obtains[c])
<1>1. DOMAIN Obtains = DOMAIN MainObtains \cup DOMAIN DspObtains
  BY DEF Obtains
<1>2. DOMAIN MainObtains = {"settings", "dspmain", "pipe", "socket", "listen"}
  BY DEF MainObtains
<1>3. DOMAIN DspObtains = {"PROC_setup", "PROC_attach", "MSGQ_open", "PROC_load",
                           "POOL_open", "PROC_start", "MSGQ_transportOpen"}
  BY DEF DspObtains
<1> USE DEF Call, Deeper, PastBind, Places, Early, Late, Served, Level, Rank, Resources,
           Always
<1>4. CASE c = "settings"
  <2>1. Obtains[c] = Call(<<"settings">>, "args", "ended")
    BY <1>1, <1>2, <1>3, <1>4 DEF Obtains, MainObtains
  <2> QED BY <1>4, <2>1
<1>5. CASE c = "dspmain"
  <2>1. Obtains[c] = Call(<<"dspmain">>, "pipe", "log_deinit")
    BY <1>1, <1>2, <1>3, <1>5 DEF Obtains, MainObtains
  <2> QED BY <1>5, <2>1
<1>6. CASE c = "pipe"
  <2>1. Obtains[c] = Call(<<"pipe">>, "socket", "free_dspmain")
    BY <1>1, <1>2, <1>3, <1>6 DEF Obtains, MainObtains
  <2> QED BY <1>6, <2>1
<1>7. CASE c = "socket"
  <2>1. Obtains[c] = Call(<<"socket">>, "unlink", "close_pipe")
    BY <1>1, <1>2, <1>3, <1>7 DEF Obtains, MainObtains
  <2> QED BY <1>7, <2>1
<1>8. CASE c = "listen"
  <2>1. Obtains[c] = Call(<<>>, "PROC_setup", "close_socket")
    BY <1>1, <1>2, <1>3, <1>8 DEF Obtains, MainObtains
  <2> QED BY <1>8, <2>1
<1>9. CASE c = "PROC_setup"
  <2>1. Obtains[c] = Call(<<"setup">>, "PROC_attach", "cleanup")
    BY <1>1, <1>2, <1>3, <1>9 DEF Obtains, DspObtains
  <2> QED BY <1>9, <2>1
<1>10. CASE c = "PROC_attach"
  <2>1. Obtains[c] = Call(<<"attach">>, "signal", "PROC_destroy")
    BY <1>1, <1>2, <1>3, <1>10 DEF Obtains, DspObtains
  <2> QED BY <1>10, <2>1
<1>11. CASE c = "MSGQ_open"
  <2>1. Obtains[c] = Call(<<"msgq">>, "PROC_load", "PROC_detach")
    BY <1>1, <1>2, <1>3, <1>11 DEF Obtains, DspObtains
  <2> QED BY <1>11, <2>1
<1>12. CASE c = "PROC_load"
  <2>1. Obtains[c] = Call(<<>>, "POOL_open", "MSGQ_close")
    BY <1>1, <1>2, <1>3, <1>12 DEF Obtains, DspObtains
  <2> QED BY <1>12, <2>1
<1>13. CASE c = "POOL_open"
  <2>1. Obtains[c] = Call(<<"pool">>, "PROC_start", "MSGQ_close")
    BY <1>1, <1>2, <1>3, <1>13 DEF Obtains, DspObtains
  <2> QED BY <1>13, <2>1
<1>14. CASE c = "PROC_start"
  <2>1. Obtains[c] = Call(<<"dsp">>, "MSGQ_transportOpen", "POOL_close")
    BY <1>1, <1>2, <1>3, <1>14 DEF Obtains, DspObtains
  <2> QED BY <1>14, <2>1
<1>15. CASE c = "MSGQ_transportOpen"
  <2>1. Obtains[c] = Call(<<"transport">>, "MSGQ_locate", "PROC_stop")
    BY <1>1, <1>2, <1>3, <1>15 DEF Obtains, DspObtains
  <2> QED BY <1>15, <2>1
<1> QED BY <1>1, <1>2, <1>3, <1>4, <1>5, <1>6, <1>7, <1>8, <1>9, <1>10, <1>11, <1>12, <1>13, <1>14, <1>15

(* And what every call that lets something go does.                        *)
Shallower(c, call) ==
    /\ c \in Places \ {"idle", "ended"} /\ call.then \in Places \ {"idle"}
    /\ call.then \in Late => c \in Late
    /\ call.then # "bind" /\ (PastBind(call.then) => PastBind(c))
    /\ 2 <= Level(c) => 2 <= Level(call.then)
    /\ 10 <= Level(call.then) => 10 <= Level(c) /\ c # "PROC_stop"
    /\ Level(c) = 10 => c = "PROC_stop"
    /\ 11 <= Level(c) => 10 <= Level(call.then)
    /\ call.frees \in Resources \ {"log"}
    /\ call.frees = "peers" => c \notin {"log_deinit"} /\ Level(call.then) = Level(c)
    /\ call.frees # "peers" =>
        /\ Rank(call.frees) = Level(c)
        /\ c \in Served => call.then \in Served
    /\ \A q \in Always :
        Rank(q) <= Level(call.then) <=> Rank(q) <= Level(c) /\ q # call.frees

LEMMA FreeTable ==
  ASSUME NEW c \in DOMAIN LetsGo
  PROVE  Shallower(c, LetsGo[c])
<1>1. DOMAIN LetsGo = {"MSGQ_transportClose", "PROC_stop", "POOL_close", "MSGQ_close",
                      "PROC_detach", "PROC_destroy", "cleanup", "close_socket",
                      "close_pipe", "free_dspmain", "free_settings"}
  BY DEF LetsGo
<1> USE DEF Frees, Shallower, PastBind, Places, Early, Late, Served, Level, Rank,
           Resources, Always
<1>2. CASE c = "MSGQ_transportClose"
  <2>1. LetsGo[c] = Frees("transport", "PROC_stop")
    BY <1>2 DEF LetsGo
  <2> QED BY <1>2, <2>1
<1>3. CASE c = "PROC_stop"
  <2>1. LetsGo[c] = Frees("dsp", "POOL_close")
    BY <1>3 DEF LetsGo
  <2> QED BY <1>3, <2>1
<1>4. CASE c = "POOL_close"
  <2>1. LetsGo[c] = Frees("pool", "MSGQ_close")
    BY <1>4 DEF LetsGo
  <2> QED BY <1>4, <2>1
<1>5. CASE c = "MSGQ_close"
  <2>1. LetsGo[c] = Frees("msgq", "PROC_detach")
    BY <1>5 DEF LetsGo
  <2> QED BY <1>5, <2>1
<1>6. CASE c = "PROC_detach"
  <2>1. LetsGo[c] = Frees("attach", "PROC_destroy")
    BY <1>6 DEF LetsGo
  <2> QED BY <1>6, <2>1
<1>7. CASE c = "PROC_destroy"
  <2>1. LetsGo[c] = Frees("setup", "cleanup")
    BY <1>7 DEF LetsGo
  <2> QED BY <1>7, <2>1
<1>8. CASE c = "cleanup"
  <2>1. LetsGo[c] = Frees("peers", "close_socket")
    BY <1>8 DEF LetsGo
  <2> QED BY <1>8, <2>1
<1>9. CASE c = "close_socket"
  <2>1. LetsGo[c] = Frees("socket", "close_pipe")
    BY <1>9 DEF LetsGo
  <2> QED BY <1>9, <2>1
<1>10. CASE c = "close_pipe"
  <2>1. LetsGo[c] = Frees("pipe", "free_dspmain")
    BY <1>10 DEF LetsGo
  <2> QED BY <1>10, <2>1
<1>11. CASE c = "free_dspmain"
  <2>1. LetsGo[c] = Frees("dspmain", "log_deinit")
    BY <1>11 DEF LetsGo
  <2> QED BY <1>11, <2>1
<1>12. CASE c = "free_settings"
  <2>1. LetsGo[c] = Frees("settings", "ended")
    BY <1>12 DEF LetsGo
  <2> QED BY <1>12, <2>1
<1> QED BY <1>1, <1>2, <1>3, <1>4, <1>5, <1>6, <1>7, <1>8, <1>9, <1>10, <1>11, <1>12

-----------------------------------------------------------------------------
LEMMA Ranks ==
  /\ \A r \in Resources : Rank(r) \in 1..12
  /\ \A c \in Places : Level(c) \in 0..11
  /\ Rank("log") = 2 /\ Rank("peers") = 12
  /\ Always \subseteq Resources /\ {"log", "peers"} \subseteq Resources
  /\ \A r \in Resources : r \in Always \/ r \in {"log", "peers"}
BY DEF Resources, Rank, Places, Early, Late, Level, Always

LEMMA HasIndex ==
  ASSUME NEW S, NEW h \in Seq(S), NEW r
  PROVE  /\ Has(h, r) <=> \E i \in 1..Len(h) : h[i] = r
         /\ Has(h, r) => r \in S
         /\ DOMAIN h = 1..Len(h) /\ Len(h) \in Nat
         /\ \A i \in 1..Len(h) : h[i] \in S
BY LenProperties, ElementOfSeq DEF Has, Range

(* What is obtained goes inside what was.                                  *)
LEMMA Obtained ==
  ASSUME NEW h \in Seq(Resources), Ordered(h), NEW r \in Resources,
         \A q \in Resources : Has(h, q) => Rank(q) < Rank(r)
  PROVE  /\ h \o <<r>> \in Seq(Resources) /\ Ordered(h \o <<r>>)
         /\ \A q : Has(h \o <<r>>, q) <=> Has(h, q) \/ q = r
         /\ Len(h \o <<r>>) = Len(h) + 1
<1> DEFINE g == Append(h, r)
<1>1. h \o <<r>> = g
  BY AppendIsConcat
<1>2. /\ g \in Seq(Resources) /\ Len(g) = Len(h) + 1
      /\ \A i \in 1..Len(h) : g[i] = h[i]
      /\ g[Len(h) + 1] = r
  BY AppendProperties
<1>3. DOMAIN h = 1..Len(h) /\ Len(h) \in Nat
  BY HasIndex
<1> HIDE DEF g
<1>4. DOMAIN g = 1..Len(g)
  BY <1>2, HasIndex
<1>5. \A q : Has(g, q) <=> Has(h, q) \/ q = r
  <2>1. \A q : Has(g, q) <=> \E i \in 1..Len(g) : g[i] = q
    BY <1>2, HasIndex
  <2>2. \A q : Has(h, q) <=> \E i \in 1..Len(h) : h[i] = q
    BY HasIndex
  <2> QED BY <1>2, <1>3, <2>1, <2>2
<1>6. ASSUME NEW i \in DOMAIN g, NEW j \in DOMAIN g, i < j
      PROVE  Rank(g[i]) < Rank(g[j])
  <2>1. i \in 1..Len(h) /\ g[i] = h[i] /\ h[i] \in Resources /\ Has(h, h[i])
    BY <1>2, <1>3, <1>4, <1>6, HasIndex
  <2>2. CASE j \in 1..Len(h)
    BY <1>2, <1>3, <1>6, <2>1, <2>2 DEF Ordered
  <2>3. CASE j = Len(h) + 1
    BY <1>2, <2>1, <2>3
  <2> QED BY <1>2, <1>3, <1>4, <2>2, <2>3
<1>7. Ordered(g)
  BY <1>6 DEF Ordered
<1> QED BY <1>1, <1>2, <1>5, <1>7

(* What is let go leaves the rest as it was.                               *)
LEMMA Removed ==
  ASSUME NEW h \in Seq(Resources), Ordered(h), NEW i \in DOMAIN h
  PROVE  /\ RemoveAt(h, i) \in Seq(Resources) /\ Ordered(RemoveAt(h, i))
         /\ \A q : Has(RemoveAt(h, i), q) <=> Has(h, q) /\ q # h[i]
<1> DEFINE g == RemoveAt(h, i)
           n == Len(h)
<1>1. DOMAIN h = 1..n /\ n \in Nat /\ \A j \in 1..n : h[j] \in Resources
  BY HasIndex
<1>2. /\ g \in Seq(Resources) /\ Len(g) = n - 1
      /\ \A j \in 1..(n - 1) : g[j] = IF j < i THEN h[j] ELSE h[j + 1]
  BY <1>1, RemoveAtProperties
<1> HIDE DEF g
<1>3. DOMAIN g = 1..(n - 1)
  BY <1>2, HasIndex
<1>4. \A j, k \in 1..n : j < k => Rank(h[j]) < Rank(h[k])
  BY <1>1 DEF Ordered
<1>5. ASSUME NEW j \in DOMAIN g, NEW k \in DOMAIN g, j < k
      PROVE  Rank(g[j]) < Rank(g[k])
  BY <1>1, <1>2, <1>3, <1>4, <1>5
<1>6. Ordered(g)
  BY <1>5 DEF Ordered
<1>7. \A j \in 1..n : j # i => h[j] # h[i]
  <2>1. \A j \in 1..n : Rank(h[j]) \in Int
    BY <1>1, Ranks
  <2> QED BY <1>1, <1>4, <2>1
<1>8. ASSUME NEW q PROVE Has(g, q) <=> Has(h, q) /\ q # h[i]
  <2>1. Has(g, q) <=> \E j \in 1..(n - 1) : g[j] = q
    BY <1>2, HasIndex
  <2>2. Has(h, q) <=> \E j \in 1..n : h[j] = q
    BY HasIndex
  <2>3. ASSUME NEW j \in 1..(n - 1), g[j] = q
        PROVE  \E k \in 1..n : k # i /\ h[k] = q
    <3>1. CASE j < i
      BY <1>1, <1>2, <2>3, <3>1
    <3>2. CASE ~(j < i)
      <4>1. j + 1 \in 1..n /\ j + 1 # i /\ h[j + 1] = q
        BY <1>1, <1>2, <2>3, <3>2
      <4> QED BY <4>1
    <3> QED BY <3>1, <3>2
  <2>4. ASSUME NEW k \in 1..n, k # i, h[k] = q
        PROVE  \E j \in 1..(n - 1) : g[j] = q
    <3>1. CASE k < i
      <4>1. k \in 1..(n - 1) /\ g[k] = h[k]
        BY <1>1, <1>2, <3>1
      <4> QED BY <2>4, <4>1
    <3>2. CASE ~(k < i)
      <4>1. k - 1 \in 1..(n - 1) /\ ~(k - 1 < i) /\ (k - 1) + 1 = k
        BY <1>1, <2>4, <3>2
      <4>2. g[k - 1] = h[k]
        BY <1>2, <4>1
      <4> QED BY <2>4, <4>1, <4>2
    <3> QED BY <3>1, <3>2
  <2> QED BY <1>1, <1>7, <2>1, <2>2, <2>3, <2>4
<1> QED BY <1>2, <1>6, <1>8 DEF g

(* What a server lets go is what it obtained last, but for the peers.      *)
LEMMA LastButPeers ==
  ASSUME NEW h \in Seq(Resources), NEW c \in Places, Holding(h, c),
         NEW i \in DOMAIN h, Level(c) <= Rank(h[i])
  PROVE  \A j \in (i + 1)..Len(h) : h[j] = "peers"
<1>1. DOMAIN h = 1..Len(h) /\ Len(h) \in Nat /\ h[i] \in Resources
  BY HasIndex
<1> TAKE j \in (i + 1)..Len(h)
<1>2. j \in 1..Len(h) /\ i < j
  BY <1>1
<1>3. h[j] \in Resources /\ Has(h, h[j]) /\ Rank(h[i]) < Rank(h[j])
  BY <1>1, <1>2, HasIndex DEF Holding, Ordered
<1>4. /\ Level(c) \in Nat /\ Rank(h[i]) \in Nat /\ Rank(h[j]) \in Nat
      /\ h[j] \in Always \/ h[j] \in {"log", "peers"}
  BY <1>1, <1>3, Ranks
<1>5. h[j] \notin Always
  BY <1>3, <1>4 DEF Holding, Always
<1>6. h[j] # "log"
  <2> SUFFICES ASSUME h[j] = "log" PROVE FALSE
    OBVIOUS
  <2>1. 2 <= Level(c) /\ Rank(h[j]) = 2
    BY <1>3, Ranks DEF Holding
  <2> QED BY <1>3, <1>4, <2>1
<1> QED BY <1>4, <1>5, <1>6

-----------------------------------------------------------------------------
(* What a step of one server does: it keeps its own invariant, lets go     *)
(* what it obtained last, and leaves what is the others' alone.            *)
OthersKept(s) ==
    \A t \in Servers \ {s} :
        pc'[t] = pc[t] /\ held'[t] = held[t] /\ handled'[t] = handled[t]
LastGoes(s) ==
    Len(held'[s]) < Len(held[s]) =>
        \E i \in DOMAIN held[s] :
            /\ held'[s] = RemoveAt(held[s], i)
            /\ \A j \in (i + 1)..Len(held[s]) : held[s][j] = "peers"
LogFrom(s) == Has(held'[s], "log") => Has(held[s], "log") \/ pc[s] = "fork"
Kept(s) == TypeInv' /\ OthersKept(s) /\ OwnInv(s)' /\ LastGoes(s) /\ LogFrom(s)

LEMMA Types ==
  ASSUME TypeInv, NEW s \in Servers
  PROVE  /\ pc[s] \in Places \cup {"killed", "crashed"} /\ mode[s] \in Modes
         /\ held[s] \in Seq(Resources) /\ handled[s] \in BOOLEAN /\ alone[s] \in BOOLEAN
         /\ Len(held[s]) \in Nat /\ DOMAIN held[s] = 1..Len(held[s])
<1>1. held[s] \in Seq(Resources)
  BY DEF TypeInv
<1> QED BY <1>1, HasIndex DEF TypeInv

(* A step that goes to another call, and obtains and lets go nothing.      *)
SameDepth(a, c) ==
    /\ \A q \in Always : Rank(q) <= Level(c) <=> Rank(q) <= Level(a)
    /\ 2 <= Level(a) => 2 <= Level(c)
    /\ a \in Served => c \in Served
    /\ c \in Late => a \in Late

LEMMA Moves ==
  ASSUME TypeInv, NEW s \in Servers, OwnInv(s), NEW c \in Places, pc[s] \in Places,
         Goto(s, c), UNCHANGED <<mode, held, handled>>, alone' \in [Servers -> BOOLEAN],
         SameDepth(pc[s], c)
  PROVE  Kept(s)
<1>1. /\ pc' = [pc EXCEPT ![s] = c] /\ mode' = mode /\ held' = held /\ handled' = handled
  BY DEF Goto
<1>2. TypeInv'
  BY <1>1 DEF TypeInv
<1>3. pc'[s] = c
  BY <1>1 DEF TypeInv
<1>4. OthersKept(s)
  BY <1>1 DEF TypeInv, OthersKept
<1>5. Holding(held[s], c)
  BY DEF OwnInv, Holding, SameDepth, Always
<1>6. OwnInv(s)'
  <2>1. c # "killed"
    BY DEF Places, Early, Late
  <2> QED BY <1>1, <1>3, <1>5, <2>1 DEF OwnInv, SameDepth
<1>7. LastGoes(s)
  BY <1>1, Types DEF LastGoes
<1> QED BY <1>1, <1>2, <1>4, <1>6, <1>7 DEF Kept, LogFrom

(* What a server has once it obtained something.                           *)
LEMMA ObtainEffect ==
  ASSUME TypeInv, NEW s \in Servers, Ordered(held[s]), NEW r \in Resources, Obtain(s, <<r>>),
         \A q \in Resources : Has(held[s], q) => Rank(q) < Rank(r)
  PROVE  /\ held' \in [Servers -> Seq(Resources)] /\ Ordered(held'[s])
         /\ \A q : Has(held'[s], q) <=> Has(held[s], q) \/ q = r
         /\ \A t \in Servers \ {s} : held'[t] = held[t]
         /\ LastGoes(s)
<1> DEFINE h == held[s]
           g == h \o <<r>>
<1>1. h \in Seq(Resources) /\ Len(h) \in Nat
  BY Types
<1>2. held' = [held EXCEPT ![s] = g]
  BY DEF Obtain
<1>3. /\ g \in Seq(Resources) /\ Ordered(g)
      /\ \A q : Has(g, q) <=> Has(h, q) \/ q = r
      /\ Len(g) = Len(h) + 1
  <2> HIDE DEF h
  <2>1. Ordered(h) /\ \A q \in Resources : Has(h, q) => Rank(q) < Rank(r)
    BY DEF h
  <2> QED BY <1>1, <2>1, Obtained
<1> HIDE DEF g
<1>4. held'[s] = g /\ held \in [Servers -> Seq(Resources)]
  BY <1>2 DEF TypeInv
<1>5. LastGoes(s)
  BY <1>1, <1>3, <1>4 DEF LastGoes
<1> QED BY <1>2, <1>3, <1>4, <1>5

LEMMA LetGoEffect ==
  ASSUME TypeInv, NEW s \in Servers, pc[s] \in Places, Holding(held[s], pc[s]),
         NEW r \in Resources, Level(pc[s]) <= Rank(r), LetGo(s, r)
  PROVE  /\ held' \in [Servers -> Seq(Resources)] /\ Ordered(held'[s])
         /\ \A q : Has(held'[s], q) <=> Has(held[s], q) /\ q # r
         /\ \A t \in Servers \ {s} : held'[t] = held[t]
         /\ LastGoes(s)
<1> DEFINE h == held[s]
<1>1. h \in Seq(Resources) /\ Len(h) \in Nat /\ held \in [Servers -> Seq(Resources)]
      /\ Ordered(h)
  BY Types DEF TypeInv, Holding
<1>2. CASE ~Holds(s, r) /\ UNCHANGED held
  <2>1. ~Has(h, r) /\ held' = held
    BY <1>2 DEF Holds, Has
  <2> QED BY <1>1, <2>1 DEF LastGoes
<1>3. ASSUME NEW i \in DOMAIN held[s], held[s][i] = r,
             held' = [held EXCEPT ![s] = RemoveAt(@, i)]
      PROVE  /\ held' \in [Servers -> Seq(Resources)] /\ Ordered(held'[s])
             /\ \A q : Has(held'[s], q) <=> Has(held[s], q) /\ q # r
             /\ \A t \in Servers \ {s} : held'[t] = held[t]
             /\ LastGoes(s)
  <2> DEFINE g == RemoveAt(h, i)
  <2>1. /\ g \in Seq(Resources) /\ Ordered(g)
        /\ \A q : Has(g, q) <=> Has(h, q) /\ q # h[i]
    BY <1>1, Removed
  <2>2. held' = [held EXCEPT ![s] = g]
    BY <1>3
  <2>3. held'[s] = g
    BY <1>1, <2>2
  <2>4. \A j \in (i + 1)..Len(h) : h[j] = "peers"
    BY <1>1, <1>3, LastButPeers
  <2>5. LastGoes(s)
    BY <2>3, <2>4 DEF LastGoes
  <2> QED BY <1>1, <1>3, <2>1, <2>2, <2>3, <2>5
<1> QED BY <1>2, <1>3 DEF LetGo

LEMMA CallReturnsKeeps ==
  ASSUME TypeInv, NEW s \in Servers, OwnInv(s), CallReturns(s)
  PROVE  Kept(s)
<1> DEFINE c == pc[s]
           call == Obtains[c]
<1>1. c \in DOMAIN Obtains /\ UNCHANGED <<mode, handled, alone>>
  BY DEF CallReturns
<1>2. Deeper(c, call)
  BY <1>1, CallTable
<1>3. c \in Places /\ Holding(held[s], c)
  BY <1>2 DEF Deeper, OwnInv
<1>4. ~Has(held[s], "peers")
  BY <1>2, <1>3 DEF Deeper, Holding
<1> HIDE DEF call
<1>5. CASE Goto(s, call.else) /\ UNCHANGED held
  <2>1. /\ call.else \in Places /\ Level(call.else) = Level(c) /\ c \notin Served
        /\ call.else \in Late => c \in Late
    BY <1>2 DEF Deeper
  <2>2. SameDepth(c, call.else)
    BY <2>1 DEF SameDepth
  <2> QED BY <1>1, <1>3, <1>5, <2>1, <2>2, Moves DEF TypeInv
<1>6. CASE Obtain(s, call.gets) /\ Goto(s, call.then)
  <2> DEFINE d == call.then
  <2>1. /\ d \in Places /\ (d \in Late => c \in Late) /\ d \notin Served
        /\ Level(c) <= Level(d) /\ (c = "PROC_start" => Level(d) = 10)
        /\ Level(c) \in Nat /\ Level(d) \in Nat
    BY <1>2, <1>3, Ranks DEF Deeper
  <2> HIDE DEF d
  <2>2. /\ pc' = [pc EXCEPT ![s] = d] /\ pc'[s] = d /\ mode' = mode /\ handled' = handled
        /\ alone' = alone
    BY <1>1, <1>6 DEF Goto, TypeInv, d
  <2>5. /\ held' \in [Servers -> Seq(Resources)]
        /\ \A t \in Servers \ {s} : held'[t] = held[t]
        /\ LastGoes(s) /\ Holding(held'[s], d) /\ LogFrom(s)
    <3>1. CASE call.gets = <<>> /\ Level(d) = Level(c)
      <4> DEFINE h == held[s]
      <4>1. h \in Seq(Resources) /\ held \in [Servers -> Seq(Resources)] /\ Len(h) \in Nat
        BY Types DEF TypeInv
      <4>2. h \o <<>> = h
        BY <4>1, ConcatEmptySeq
      <4>3. held' = [held EXCEPT ![s] = h \o <<>>]
        BY <1>6, <3>1 DEF Obtain
      <4>4. held' = held
        BY <4>1, <4>2, <4>3
      <4>5. Holding(held[s], d)
        BY <1>3, <1>4, <2>1, <3>1 DEF Holding
      <4> QED BY <4>1, <4>4, <4>5 DEF LastGoes, LogFrom
    <3>2. ASSUME NEW r \in Always, call.gets = <<r>>, Level(c) < Rank(r),
                 \A q \in Always : Rank(q) <= Level(d) <=> Rank(q) <= Level(c) \/ q = r
          PROVE  /\ held' \in [Servers -> Seq(Resources)]
                 /\ \A t \in Servers \ {s} : held'[t] = held[t]
                 /\ LastGoes(s) /\ Holding(held'[s], d) /\ LogFrom(s)
      <4>1. r \in Resources /\ Rank(r) \in Nat
        BY Ranks
      <4>2. ASSUME NEW q \in Resources, Has(held[s], q) PROVE Rank(q) < Rank(r)
        <5>1. Rank(q) \in Nat /\ (q \in Always \/ q \in {"log", "peers"}) /\ Rank("log") = 2
          BY Ranks
        <5>2. CASE q \in Always
          <6>1. Rank(q) <= Level(c)
            BY <1>3, <4>2, <5>2 DEF Holding, Always
          <6> QED BY <2>1, <3>2, <4>1, <5>1, <6>1
        <5>3. CASE q = "log"
          <6>1. 2 <= Level(c)
            BY <1>3, <4>2, <5>3 DEF Holding
          <6> QED BY <2>1, <3>2, <4>1, <5>1, <5>3, <6>1
        <5> QED BY <1>4, <4>2, <5>1, <5>2, <5>3
      <4>3. Obtain(s, <<r>>) /\ Ordered(held[s])
        BY <1>3, <1>6, <3>2 DEF Holding
      <4>4. /\ held' \in [Servers -> Seq(Resources)] /\ Ordered(held'[s])
            /\ \A q : Has(held'[s], q) <=> Has(held[s], q) \/ q = r
            /\ \A t \in Servers \ {s} : held'[t] = held[t]
            /\ LastGoes(s)
        BY <4>1, <4>2, <4>3, ObtainEffect
      <4>5. \A q \in Always : Has(held'[s], q) <=> Rank(q) <= Level(d)
        BY <1>3, <3>2, <4>4 DEF Holding, Always
      <4>6. r \notin {"log", "peers"}
        BY DEF Always
      <4>7. Has(held'[s], "log") => 2 <= Level(d)
        BY <1>3, <2>1, <4>4, <4>6 DEF Holding
      <4>8. ~Has(held'[s], "peers")
        BY <1>4, <4>4, <4>6
      <4> QED BY <4>4, <4>5, <4>6, <4>7, <4>8 DEF Holding, Always, LogFrom
    <3> QED BY <1>2, <3>1, <3>2 DEF Deeper, d
  <2>6. TypeInv'
    BY <2>1, <2>2, <2>5 DEF TypeInv
  <2>7. OthersKept(s)
    BY <2>2, <2>5 DEF OthersKept, TypeInv
  <2>8. OwnInv(s)'
    <3>1. d # "killed"
      BY <2>1 DEF Places, Early, Late
    <3> QED BY <2>1, <2>2, <2>5, <3>1 DEF OwnInv
  <2> QED BY <2>5, <2>6, <2>7, <2>8 DEF Kept
<1> QED BY <1>5, <1>6 DEF CallReturns, call

LEMMA ReleaseKeeps ==
  ASSUME TypeInv, NEW s \in Servers, OwnInv(s), Release(s)
  PROVE  Kept(s)
<1> DEFINE c == pc[s]
           call == LetsGo[c]
           d == call.then
           r == call.frees
<1>1. /\ c \in DOMAIN LetsGo /\ LetGo(s, r) /\ Goto(s, d)
      /\ UNCHANGED <<mode, handled, alone>>
  BY DEF Release
<1>2. Shallower(c, call)
  BY <1>1, FreeTable
<1> HIDE DEF call
<1>3. /\ c \in Places /\ Holding(held[s], c)
      /\ d \in Places /\ r \in Resources \ {"log"} /\ (d \in Late => c \in Late)
      /\ Level(c) \in 0..11 /\ Level(d) \in Nat
  BY <1>2, Ranks DEF Shallower, OwnInv
<1>4. Level(c) <= Rank(r)
  BY <1>2, <1>3, Ranks DEF Shallower
<1> HIDE DEF d, r
<1>5. /\ held' \in [Servers -> Seq(Resources)] /\ Ordered(held'[s])
      /\ \A q : Has(held'[s], q) <=> Has(held[s], q) /\ q # r
      /\ \A t \in Servers \ {s} : held'[t] = held[t]
      /\ LastGoes(s)
  BY <1>1, <1>3, <1>4, LetGoEffect
<1>6. /\ pc' = [pc EXCEPT ![s] = d] /\ pc'[s] = d /\ mode' = mode /\ handled' = handled
      /\ alone' = alone
  BY <1>1 DEF Goto, TypeInv
<1>9. Holding(held'[s], d)
  <2>1. \A q \in Always : Has(held'[s], q) <=> Rank(q) <= Level(d)
    BY <1>2, <1>3, <1>5 DEF Holding, Always, Shallower, d, r
  <2>2. Has(held'[s], "log") => 2 <= Level(d)
    BY <1>2, <1>3, <1>5 DEF Holding, Shallower, d
  <2>3. Has(held'[s], "peers") => d \in Served
    BY <1>2, <1>3, <1>5 DEF Holding, Shallower, d, r
  <2> QED BY <1>5, <2>1, <2>2, <2>3 DEF Holding, Always
<1>10. TypeInv'
  BY <1>3, <1>5, <1>6 DEF TypeInv
<1>11. OthersKept(s)
  BY <1>5, <1>6 DEF OthersKept, TypeInv
<1>12. OwnInv(s)'
  <2>1. d # "killed"
    BY <1>3 DEF Places, Early, Late
  <2> QED BY <1>3, <1>6, <1>9, <2>1 DEF OwnInv
<1> QED BY <1>5, <1>10, <1>11, <1>12 DEF Kept, LogFrom

(* The moves of the other steps.                                           *)
LEMMA MoveTable ==
  /\ SameDepth("idle", "settings")
  /\ SameDepth("args", "fork") /\ SameDepth("args", "dspmain") /\ SameDepth("args", "free_settings")
  /\ SameDepth("fork", "dspmain") /\ SameDepth("fork", "free_settings")
  /\ SameDepth("unlink", "bind") /\ SameDepth("bind", "listen")
  /\ SameDepth("bind", "close_socket")
  /\ \A c \in {"located", "reply", "loop", "shutdown", "MSGQ_transportClose"} :
        /\ SameDepth("MSGQ_locate", c) /\ SameDepth("located", c) /\ SameDepth("reply", c)
        /\ c \in {"shutdown", "MSGQ_transportClose"} =>
            SameDepth("loop", c) /\ SameDepth("shutdown", c)
  /\ {"settings", "fork", "dspmain", "free_settings", "bind", "listen", "close_socket",
      "located", "reply", "loop", "shutdown", "MSGQ_transportClose", "idle", "args",
      "unlink", "signal", "MSGQ_open", "MSGQ_locate", "log_deinit"} \subseteq Places
BY DEF SameDepth, Always, Resources, Rank, Level, Served, Late, Early, Places

LEMMA ArgsKeeps ==
  ASSUME TypeInv, NEW s \in Servers, OwnInv(s), Args(s)
  PROVE  Kept(s)
<1>1. pc[s] = "args" /\ UNCHANGED <<mode, held, handled, alone>>
  BY DEF Args
<1>2. mode[s] \in {"daemon", "forground", "help"}
  BY Types, StartupAssumption
<1>3. \E c \in {"fork", "dspmain", "free_settings"} : Goto(s, c)
  BY <1>2 DEF Args
<1>4. ASSUME NEW c \in {"fork", "dspmain", "free_settings"}, Goto(s, c) PROVE Kept(s)
  BY <1>1, <1>4, MoveTable, Moves DEF TypeInv
<1> QED BY <1>3, <1>4

LEMMA UnlinkKeeps ==
  ASSUME TypeInv, NEW s \in Servers, OwnInv(s), Unlink(s)
  PROVE  Kept(s)
<1>1. pc[s] = "unlink" /\ Goto(s, "bind") /\ UNCHANGED <<mode, held, handled, alone>>
  BY DEF Unlink
<1> QED BY <1>1, MoveTable, Moves DEF TypeInv

LEMMA BindKeeps ==
  ASSUME TypeInv, NEW s \in Servers, OwnInv(s), Bind(s)
  PROVE  Kept(s)
<1>1. pc[s] = "bind" /\ UNCHANGED <<mode, held, handled, alone>>
  BY DEF Bind
<1>2. CASE Goto(s, "listen")
  BY <1>1, <1>2, MoveTable, Moves DEF TypeInv
<1>3. CASE Goto(s, "close_socket")
  BY <1>1, <1>3, MoveTable, Moves DEF TypeInv
<1> QED BY <1>2, <1>3 DEF Bind

LEMMA LocateKeeps ==
  ASSUME TypeInv, NEW s \in Servers, OwnInv(s), Locate(s)
  PROVE  Kept(s)
<1>1. pc[s] = "MSGQ_locate" /\ UNCHANGED <<mode, held, handled, alone>>
  BY DEF Locate
<1>2. CASE Goto(s, "located")
  BY <1>1, <1>2, MoveTable, Moves DEF TypeInv
<1>3. CASE Goto(s, "MSGQ_transportClose")
  BY <1>1, <1>3, MoveTable, Moves DEF TypeInv
<1> QED BY <1>2, <1>3 DEF Locate

LEMMA StartKeeps ==
  ASSUME TypeInv, NEW s \in Servers, OwnInv(s), Start(s)
  PROVE  Kept(s)
<1>1. pc[s] = "idle" /\ Goto(s, "settings") /\ UNCHANGED <<mode, held, handled>>
  BY DEF Start
<1>2. alone' \in [Servers -> BOOLEAN]
  BY DEF Start, TypeInv
<1> QED BY <1>1, <1>2, MoveTable, Moves DEF TypeInv

LEMMA SignalCallsKeeps ==
  ASSUME TypeInv, NEW s \in Servers, OwnInv(s), SignalCalls(s)
  PROVE  Kept(s)
<1>1. /\ pc[s] = "signal" /\ pc' = [pc EXCEPT ![s] = "MSGQ_open"]
      /\ handled' = [handled EXCEPT ![s] = TRUE]
      /\ mode' = mode /\ held' = held /\ alone' = alone
  BY DEF SignalCalls, Goto
<1>2. pc'[s] = "MSGQ_open" /\ handled'[s] = TRUE
  BY <1>1 DEF TypeInv
<1>3. TypeInv'
  BY <1>1, MoveTable DEF TypeInv
<1>4. OthersKept(s)
  BY <1>1 DEF TypeInv, OthersKept
<1>5. Level("signal") = 7 /\ Level("MSGQ_open") = 7 /\ "signal" \notin Served
  BY DEF Level, Served
<1>6. OwnInv(s)'
  BY <1>1, <1>2, <1>5, MoveTable DEF OwnInv, Holding
<1>7. LastGoes(s)
  BY <1>1, Types DEF LastGoes
<1> QED BY <1>1, <1>3, <1>4, <1>6, <1>7 DEF Kept, LogFrom

(* Obtaining what may be there or not: the log, and the peers.             *)
LEMMA ObtainsMaybe ==
  ASSUME TypeInv, NEW s \in Servers, OwnInv(s), NEW c \in Places, pc[s] \in Places,
         NEW r \in {"log", "peers"}, Obtain(s, <<r>>), Goto(s, c),
         UNCHANGED <<mode, handled, alone>>, SameDepth(pc[s], c),
         \A q \in Resources : Has(held[s], q) => Rank(q) < Rank(r),
         r = "log" => 2 <= Level(c) /\ pc[s] = "fork", r = "peers" => c \in Served
  PROVE  Kept(s)
<1>1. /\ pc' = [pc EXCEPT ![s] = c] /\ pc'[s] = c /\ mode' = mode /\ handled' = handled
      /\ alone' = alone
  BY DEF Goto, TypeInv
<1>2. Holding(held[s], pc[s]) /\ r \in Resources
  BY Ranks DEF OwnInv
<1>3. /\ held' \in [Servers -> Seq(Resources)] /\ Ordered(held'[s])
      /\ \A q : Has(held'[s], q) <=> Has(held[s], q) \/ q = r
      /\ \A t \in Servers \ {s} : held'[t] = held[t]
      /\ LastGoes(s)
  BY <1>2, ObtainEffect DEF Holding
<1>4. Holding(held'[s], c)
  BY <1>2, <1>3 DEF Holding, SameDepth, Always
<1>5. TypeInv'
  BY <1>1, <1>3 DEF TypeInv
<1>6. OthersKept(s)
  BY <1>1, <1>3 DEF OthersKept, TypeInv
<1>7. OwnInv(s)'
  <2>1. c # "killed"
    BY DEF Places, Early, Late
  <2> QED BY <1>1, <1>4, <2>1 DEF OwnInv, SameDepth
<1> QED BY <1>3, <1>5, <1>6, <1>7 DEF Kept, LogFrom

LEMMA ForkKeeps ==
  ASSUME TypeInv, NEW s \in Servers, OwnInv(s), Fork(s)
  PROVE  Kept(s)
<1>1. pc[s] = "fork" /\ UNCHANGED <<mode, handled, alone>>
  BY DEF Fork
<1>2. CASE Goto(s, "dspmain") /\ Obtain(s, <<"log">>)
  <2>1. Level("fork") = 1 /\ Level("dspmain") = 2 /\ "fork" \notin Served
    BY DEF Level, Served
  <2>2. Holding(held[s], "fork")
    BY <1>1, MoveTable DEF OwnInv
  <2>3. ASSUME NEW q \in Resources, Has(held[s], q) PROVE Rank(q) < Rank("log")
    <3>1. q \in Always
      BY <2>1, <2>2, <2>3, Ranks DEF Holding
    <3>2. Rank(q) <= 1
      BY <2>1, <2>2, <2>3, <3>1 DEF Holding, Always
    <3> QED BY <3>2, Ranks
  <2> QED BY <1>1, <1>2, <2>1, <2>3, MoveTable, ObtainsMaybe
<1>3. CASE Goto(s, "dspmain") /\ UNCHANGED held
  BY <1>1, <1>3, MoveTable, Moves DEF TypeInv
<1>4. CASE Goto(s, "free_settings") /\ UNCHANGED held
  BY <1>1, <1>4, MoveTable, Moves DEF TypeInv
<1> QED BY <1>2, <1>3, <1>4 DEF Fork

LEMMA ServeKeeps ==
  ASSUME TypeInv, NEW s \in Servers, OwnInv(s), Serve(s)
  PROVE  Kept(s)
<1>1. UNCHANGED <<mode, handled, alone>>
  BY DEF Serve
<1>2. CASE pc[s] = "located" /\ UNCHANGED held
            /\ (Goto(s, "reply") \/ Goto(s, "MSGQ_transportClose"))
  BY <1>1, <1>2, MoveTable, Moves DEF TypeInv
<1>3. CASE pc[s] = "reply" /\ UNCHANGED held
            /\ (Goto(s, "loop") \/ Goto(s, "MSGQ_transportClose"))
  BY <1>1, <1>3, MoveTable, Moves DEF TypeInv
<1>4. ASSUME pc[s] = "loop", Goto(s, "shutdown"),
             NEW peers \in {<<>>, <<"peers">>}, Obtain(s, peers)
      PROVE  Kept(s)
  <2>1. CASE peers = <<"peers">>
    <3>1. Level("loop") = 11 /\ "loop" \notin Served /\ "shutdown" \in Served
      BY DEF Level, Served
    <3>2. Holding(held[s], "loop")
      BY <1>4, MoveTable DEF OwnInv
    <3>3. ASSUME NEW q \in Resources, Has(held[s], q) PROVE Rank(q) < Rank("peers")
      <4>1. q \in Always \/ q = "log"
        BY <3>1, <3>2, <3>3, Ranks DEF Holding
      <4>2. q \in Always => Rank(q) <= 11
        BY <3>1, <3>2, <3>3 DEF Holding, Always
      <4> QED BY <4>1, <4>2, Ranks
    <3> QED BY <1>1, <1>4, <2>1, <3>1, <3>3, MoveTable, ObtainsMaybe
  <2>2. CASE peers = <<>>
    <3> DEFINE h == held[s]
    <3>1. h \in Seq(Resources) /\ held \in [Servers -> Seq(Resources)]
      BY Types DEF TypeInv
    <3>2. h \o <<>> = h
      BY <3>1, ConcatEmptySeq
    <3>3. held' = [held EXCEPT ![s] = h \o <<>>]
      BY <1>4, <2>2 DEF Obtain
    <3>4. held' = held
      BY <3>1, <3>2, <3>3
    <3> QED BY <1>1, <1>4, <3>4, MoveTable, Moves DEF TypeInv
  <2> QED BY <2>1, <2>2
<1>5. CASE pc[s] = "shutdown" /\ Goto(s, "MSGQ_transportClose") /\ UNCHANGED held
  BY <1>1, <1>5, MoveTable, Moves DEF TypeInv
<1> QED BY <1>2, <1>3, <1>4, <1>5 DEF Serve

LEMMA LogDeinitKeeps ==
  ASSUME TypeInv, NEW s \in Servers, OwnInv(s), LogDeinit(s)
  PROVE  Kept(s)
<1>1. /\ pc[s] = "log_deinit" /\ pc' = [pc EXCEPT ![s] = "free_settings"]
      /\ pc'[s] = "free_settings"
      /\ mode' = mode /\ handled' = handled /\ alone' = alone
      /\ LetGo(s, "log")
  BY DEF LogDeinit, Goto, TypeInv
<1>2. /\ Level("log_deinit") = 2 /\ Level("free_settings") = 1
      /\ "log_deinit" \notin Served /\ "free_settings" \notin Late
      /\ \A q \in Always : Rank(q) <= 2 <=> Rank(q) <= 1
  BY DEF Level, Served, Late, Always, Resources, Rank
<1>3. Holding(held[s], "log_deinit")
  BY <1>1, <1>2, MoveTable DEF OwnInv
<1>4. /\ held' \in [Servers -> Seq(Resources)] /\ Ordered(held'[s])
      /\ \A q : Has(held'[s], q) <=> Has(held[s], q) /\ q # "log"
      /\ \A t \in Servers \ {s} : held'[t] = held[t]
      /\ LastGoes(s)
  <2>1. /\ pc[s] \in Places /\ Holding(held[s], pc[s]) /\ "log" \in Resources
        /\ Level(pc[s]) <= Rank("log")
    BY <1>1, <1>2, <1>3, MoveTable, Ranks
  <2> QED BY <1>1, <2>1, LetGoEffect
<1>5. Holding(held'[s], "free_settings")
  BY <1>2, <1>3, <1>4 DEF Holding, Always
<1>6. TypeInv'
  BY <1>1, <1>4, MoveTable DEF TypeInv
<1>7. OthersKept(s)
  BY <1>1, <1>4 DEF OthersKept, TypeInv
<1>8. OwnInv(s)'
  BY <1>1, <1>2, <1>3, <1>5 DEF OwnInv
<1> QED BY <1>4, <1>6, <1>7, <1>8 DEF Kept, LogFrom

LEMMA SignalKeeps ==
  ASSUME TypeInv, NEW s \in Servers, OwnInv(s), Signal(s)
  PROVE  Kept(s)
<1>1. Running(s) /\ mode' = mode /\ held' = held /\ handled' = handled
      /\ alone' = alone
  BY DEF Signal
<1>2. LastGoes(s)
  BY <1>1, Types DEF LastGoes
<1>3. CASE UNCHANGED pc
  BY <1>1, <1>2, <1>3 DEF Kept, LogFrom, OthersKept, OwnInv, TypeInv
<1>4. CASE ~handled[s] /\ Goto(s, "killed")
  <2>1. pc' = [pc EXCEPT ![s] = "killed"] /\ pc'[s] = "killed"
    BY <1>4 DEF Goto, TypeInv
  <2>2. "killed" \notin Places /\ pc[s] \in Places \ Late
    BY <1>1, <1>4, Types DEF Running, OwnInv, Places, Early, Late
  <2>3. \A c \in Places \ Late : Level(c) \in 0..7
    BY DEF Places, Late, Early, Level
  <2>4. Rank("msgq") = 8 /\ Rank("pool") = 9 /\ Rank("dsp") = 10 /\ Rank("transport") = 11
        /\ {"msgq", "pool", "dsp", "transport"} \subseteq Always
    BY DEF Rank, Always, Resources
  <2>5. Holding(held[s], pc[s])
    BY <2>2 DEF OwnInv
  <2>6. \A r \in {"msgq", "pool", "dsp", "transport"} : ~Has(held[s], r)
    BY <2>2, <2>3, <2>4, <2>5 DEF Holding, Always
  <2>7. OwnInv(s)'
    BY <1>1, <2>1, <2>2, <2>5, <2>6 DEF OwnInv, Late, Places
  <2> QED BY <1>1, <1>2, <2>1, <2>7 DEF Kept, LogFrom, OthersKept, TypeInv
<1> QED BY <1>3, <1>4 DEF Signal

LEMMA CrashKeeps ==
  ASSUME TypeInv, NEW s \in Servers, OwnInv(s), Crash(s)
  PROVE  Kept(s)
<1>1. /\ pc' = [pc EXCEPT ![s] = "crashed"] /\ pc'[s] = "crashed"
      /\ mode' = mode /\ held' = held /\ handled' = handled /\ alone' = alone
  BY DEF Crash, Goto, TypeInv
<1>2. LastGoes(s)
  BY <1>1, Types DEF LastGoes
<1>3. "crashed" \notin Places /\ "crashed" \notin Late
  BY DEF Places, Early, Late
<1> QED BY <1>1, <1>2, <1>3 DEF Kept, LogFrom, OthersKept, OwnInv, TypeInv

LEMMA StepKeeps ==
  ASSUME TypeInv, NEW s \in Servers, OwnInv(s), Step(s) \/ Environment(s)
  PROVE  Kept(s)
BY CallReturnsKeeps, ReleaseKeeps, ArgsKeeps, ForkKeeps, UnlinkKeeps, BindKeeps,
   SignalCallsKeeps, LocateKeeps, ServeKeeps, LogDeinitKeeps, StartKeeps, SignalKeeps,
   CrashKeeps DEF Step, Environment

-----------------------------------------------------------------------------
LEMMA InitHeld == Init => TypeInv /\ HeldInv
<1> SUFFICES ASSUME Init PROVE TypeInv /\ HeldInv
  OBVIOUS
<1>1. /\ pc = [s \in Servers |-> "idle"] /\ mode \in [Servers -> Modes]
      /\ held = [s \in Servers |-> <<>>] /\ handled = [s \in Servers |-> FALSE]
      /\ alone = [s \in Servers |-> FALSE]
  BY DEF Init
<1>2. /\ \A r : ~Has(<<>>, r)
      /\ <<>> \in Seq(Resources) /\ Ordered(<<>>)
  <2>1. <<>> \in Seq(Resources) /\ Len(<<>>) = 0
    BY EmptySeq
  <2>2. DOMAIN <<>> = 1..Len(<<>>) /\ \A r : Has(<<>>, r) <=> \E i \in 1..Len(<<>>) : <<>>[i] = r
    BY <2>1, HasIndex
  <2> QED BY <2>1, <2>2 DEF Ordered
<1>3. TypeInv
  BY <1>1, <1>2, MoveTable DEF TypeInv
<1>4. Level("idle") = 0 /\ "idle" \notin Late
  BY DEF Level, Late
<1>5. \A r \in Resources : ~(Rank(r) <= 0)
  BY Ranks
<1>6. Holding(<<>>, "idle")
  BY <1>2, <1>4, <1>5 DEF Holding
<1> QED BY <1>1, <1>3, <1>4, <1>6 DEF HeldInv, OwnInv

(* The DSP's own steps leave the servers as they are.                      *)
DspAlone == DspStep \/ DspLoses
LEMMA DspKeeps ==
  ASSUME DspAlone
  PROVE  UNCHANGED <<pc, mode, held, handled, signalled, robbed, files, alone>> /\ dsp # "off"
BY DEF DspAlone, DspStep, DspLoses

LEMMA NextHeld ==
  ASSUME TypeInv, HeldInv, [Next]_vars
  PROVE  TypeInv' /\ HeldInv'
<1>1. CASE UNCHANGED vars
  BY <1>1 DEF vars, TypeInv, HeldInv, OwnInv
<1>2. ASSUME NEW s \in Servers, Step(s) \/ Environment(s)
      PROVE  TypeInv' /\ HeldInv'
  <2>1. Kept(s)
    BY <1>2, StepKeeps DEF HeldInv
  <2>2. ASSUME NEW t \in Servers \ {s} PROVE OwnInv(t)'
    BY <2>1 DEF HeldInv, OwnInv, Kept, OthersKept
  <2> QED BY <2>1, <2>2 DEF Kept, HeldInv
<1>3. CASE DspAlone
  BY <1>3, DspKeeps DEF TypeInv, HeldInv, OwnInv
<1> QED BY <1>1, <1>2, <1>3 DEF Next, DspAlone

(* Where each server is tells what it holds.                               *)
LEMMA Held == Spec => [](TypeInv /\ HeldInv)
<1>1. TypeInv /\ HeldInv /\ [Next]_vars => TypeInv' /\ HeldInv'
  BY NextHeld
<1> QED BY <1>1, InitHeld, PTL DEF Spec

(* Every step lets go of one thing at most, the last one obtained but for  *)
(* the peers, so that nothing is closed under what still uses it.          *)
LEMMA NextLastGoes ==
  ASSUME TypeInv, HeldInv, [Next]_vars, NEW t \in Servers
  PROVE  LastGoes(t)
<1>1. Len(held[t]) \in Nat
  BY Types
<1>2. CASE UNCHANGED vars
  BY <1>1, <1>2 DEF vars, LastGoes
<1>3. ASSUME NEW s \in Servers, Step(s) \/ Environment(s) PROVE LastGoes(t)
  <2>1. Kept(s)
    BY <1>3, StepKeeps DEF HeldInv
  <2> QED BY <1>1, <2>1 DEF Kept, OthersKept, LastGoes
<1>4. CASE DspAlone
  BY <1>1, <1>4, DspKeeps DEF LastGoes
<1> QED BY <1>2, <1>3, <1>4 DEF Next, DspAlone

-----------------------------------------------------------------------------
(* The files the servers share: only a server that runs touches them.      *)
LEMMA OnlyRunning ==
  ASSUME TypeInv, NEW s \in Servers, Step(s) \/ Environment(s), ~Running(s)
  PROVE  Start(s) \/ (UNCHANGED <<pc, held, files, alone>>)
<1> DEFINE Idle == {"idle", "ended", "killed", "crashed"}
<1>1. pc[s] \in Idle
  BY DEF Running
<1>2. Idle \cap Places = {"idle", "ended"}
  BY DEF Places, Early, Late
<1>3. pc[s] \notin DOMAIN Obtains
  <2>1. \A c \in DOMAIN Obtains : c \in Places \ {"idle", "ended"}
    BY CallTable DEF Deeper
  <2> QED BY <1>1, <1>2, <2>1
<1>4. pc[s] \notin DOMAIN LetsGo
  <2>1. \A c \in DOMAIN LetsGo : c \in Places \ {"idle", "ended"}
    BY FreeTable DEF Shallower
  <2> QED BY <1>1, <1>2, <2>1
<1>5. ~Step(s)
  BY <1>1, <1>3, <1>4 DEF Step, CallReturns, Release, Args, Fork, Unlink, Bind, SignalCalls,
     Locate, Serve, LogDeinit
<1> QED BY <1>5 DEF Environment, Signal, Crash

(* What a step of a server that runs alone leaves it.                      *)
LEMMA OwnFiles ==
  ASSUME TypeInv, NEW s \in Servers, OwnInv(s), PathOwn(s), Has(held[s], "log") => log = s,
         Step(s) \/ Environment(s), ~Start(s), Running(s)'
  PROVE  PathOwn(s)' /\ (Has(held'[s], "log") => log' = s)
<1>1. ASSUME NEW c, Goto(s, c) PROVE pc'[s] = c
  BY <1>1 DEF Goto, TypeInv
<1>2. LogFrom(s)
  BY StepKeeps DEF Kept
<1> DEFINE Shallow == {"fork", "dspmain", "free_settings", "close_socket"}
<1>3. /\ \A c \in Shallow : c # "bind" /\ ~PastBind(c)
      /\ \A c \in {"MSGQ_locate", "located", "reply", "loop", "shutdown", "MSGQ_transportClose",
                   "signal", "MSGQ_open"} : c # "bind" /\ PastBind(c)
  BY DEF PastBind, Level
<1>4. ASSUME UNCHANGED files, pc[s] # "fork",
             PastBind(pc'[s]) => PastBind(pc[s]), pc'[s] = "bind" => pc[s] = "bind"
      PROVE  PathOwn(s)' /\ (Has(held'[s], "log") => log' = s)
  BY <1>2, <1>4 DEF PathOwn, files, LogFrom
<1>5. CASE CallReturns(s)
  <2>1. pc[s] \in DOMAIN Obtains /\ UNCHANGED files
    BY <1>5 DEF CallReturns
  <2>2. Deeper(pc[s], Obtains[pc[s]])
    BY <2>1, CallTable
  <2>3. pc'[s] = Obtains[pc[s]].then \/ pc'[s] = Obtains[pc[s]].else
    BY <1>1, <1>5 DEF CallReturns
  <2>4. pc[s] # "fork"
    BY <2>1 DEF Obtains, MainObtains, DspObtains
  <2> QED BY <1>4, <2>1, <2>2, <2>3, <2>4 DEF Deeper
<1>6. CASE Release(s)
  <2>1. pc[s] \in DOMAIN LetsGo /\ UNCHANGED files
    BY <1>6 DEF Release
  <2>2. Shallower(pc[s], LetsGo[pc[s]])
    BY <2>1, FreeTable
  <2>3. pc'[s] = LetsGo[pc[s]].then
    BY <1>1, <1>6 DEF Release
  <2>4. pc[s] # "fork"
    BY <2>1 DEF LetsGo
  <2> QED BY <1>4, <2>1, <2>2, <2>3, <2>4 DEF Shallower
<1>7. CASE Args(s)
  <2>1. mode[s] \in {"daemon", "forground", "help"}
    BY Types, StartupAssumption
  <2>2. pc'[s] \in Shallow /\ pc[s] = "args" /\ UNCHANGED files
    BY <1>1, <1>7, <2>1 DEF Args
  <2> QED BY <1>3, <1>4, <2>2
<1>8. CASE Fork(s)
  <2>1. /\ pc[s] = "fork" /\ pc'[s] \in Shallow /\ path' = path
        /\ held' = held \/ log' = s
    BY <1>1, <1>8 DEF Fork
  <2>2. ~Has(held[s], "log")
    <3>1. "fork" \in Places /\ Level("fork") = 1
      BY DEF Places, Early, Level
    <3> QED BY <2>1, <3>1 DEF OwnInv, Holding
  <2> QED BY <1>3, <2>1, <2>2 DEF PathOwn
<1>9. CASE Unlink(s)
  <2>1. /\ pc[s] = "unlink" /\ pc'[s] = "bind" /\ path' = None /\ log' = log
    BY <1>1, <1>9 DEF Unlink
  <2>2. ~PastBind("bind")
    BY DEF PastBind, Level
  <2> QED BY <1>2, <2>1, <2>2 DEF PathOwn, LogFrom
<1>10. CASE Bind(s)
  <2>1. /\ pc[s] = "bind" /\ log' = log
        /\ (pc'[s] = "listen" /\ path' = s) \/ pc'[s] = "close_socket"
    BY <1>1, <1>10 DEF Bind
  <2> QED BY <1>2, <1>3, <2>1 DEF PathOwn, LogFrom
<1>11. CASE SignalCalls(s)
  <2>1. pc[s] = "signal" /\ pc'[s] = "MSGQ_open" /\ UNCHANGED files
    BY <1>1, <1>11 DEF SignalCalls
  <2> QED BY <1>3, <1>4, <2>1
<1>12. CASE Locate(s)
  <2>1. pc[s] = "MSGQ_locate" /\ pc'[s] \in {"located", "MSGQ_transportClose"} /\ UNCHANGED files
    BY <1>1, <1>12 DEF Locate
  <2> QED BY <1>3, <1>4, <2>1
<1>13. CASE Serve(s)
  <2>1. /\ pc[s] \in {"located", "reply", "loop", "shutdown"} /\ UNCHANGED files
        /\ pc'[s] \in {"reply", "loop", "shutdown", "MSGQ_transportClose"}
    BY <1>1, <1>13 DEF Serve
  <2> QED BY <1>3, <1>4, <2>1
<1>14. CASE LogDeinit(s)
  <2>1. /\ pc[s] = "log_deinit" /\ pc'[s] \in Shallow /\ path' = path /\ LetGo(s, "log")
    BY <1>1, <1>14 DEF LogDeinit
  <2>2. "log_deinit" \in Places /\ Level("log_deinit") = 2 /\ "log" \in Resources
        /\ Rank("log") = 2
    BY Ranks DEF Places, Early, Level
  <2>3. ~Has(held'[s], "log")
    <3>1. pc[s] \in Places /\ Holding(held[s], pc[s]) /\ Level(pc[s]) <= Rank("log")
      BY <2>1, <2>2 DEF OwnInv
    <3> QED BY <2>1, <2>2, <3>1, LetGoEffect
  <2> QED BY <1>3, <2>1, <2>3 DEF PathOwn
<1>15. CASE Signal(s) \/ Crash(s)
  <2>1. UNCHANGED <<held, files>> /\ (pc' = pc \/ pc'[s] \in {"killed", "crashed"})
    BY <1>1, <1>15 DEF Signal, Crash
  <2>2. pc' = pc
    BY <2>1 DEF Running
  <2> QED BY <2>1, <2>2 DEF PathOwn, files
<1> QED BY <1>5, <1>6, <1>7, <1>8, <1>9, <1>10, <1>11, <1>12, <1>13, <1>14, <1>15
        DEF Step, Environment

LEMMA InitAlone == Init => AloneInv
BY DEF Init, AloneInv

LEMMA NextAlone ==
  ASSUME TypeInv, HeldInv, AloneInv, [Next]_vars
  PROVE  AloneInv'
<1>1. CASE UNCHANGED vars
  BY <1>1 DEF vars, files, AloneInv, Running, PathOwn
<1>2. ASSUME NEW t \in Servers, Step(t) \/ Environment(t),
             NEW s \in Servers, alone'[s], Running(s)'
      PROVE  /\ \A u \in Servers : Running(u)' => u = s
             /\ PathOwn(s)'
             /\ Has(held'[s], "log") => log' = s
  <2>1. \A u \in Servers \ {t} : pc'[u] = pc[u] /\ held'[u] = held[u]
    BY <1>2, StepKeeps DEF HeldInv, Kept, OthersKept
  <2>2. \A u \in Servers \ {t} : Running(u)' <=> Running(u)
    BY <2>1 DEF Running
  <2>3. CASE Start(t)
    <3>1. pc[t] = "idle" /\ pc'[t] = "settings" /\ UNCHANGED <<held, files>>
      BY <2>3 DEF Start, Goto, TypeInv
    <3>2. s = t /\ \A u \in Servers : ~Running(u)
      BY <1>2, <2>2, <2>3 DEF Start
    <3>3. ~PastBind("settings") /\ Level("idle") = 0 /\ "idle" \in Places
      BY DEF PastBind, Level, Places
    <3>4. ~Has(held[s], "log")
      BY <3>1, <3>2, <3>3 DEF HeldInv, OwnInv, Holding
    <3> QED BY <2>2, <3>1, <3>2, <3>3, <3>4 DEF PathOwn
  <2>4. CASE ~Start(t)
    <3>1. alone' = alone
      BY <1>2, <2>4 DEF Step, Environment, CallReturns, Release, Args, Fork, Unlink, Bind,
         SignalCalls, Locate, Serve, LogDeinit, Signal, Crash
    <3>2. Running(s)
      <4>1. CASE ~Running(t)
        BY <1>2, <2>4, <4>1, OnlyRunning DEF Running
      <4>2. CASE Running(t)
        BY <1>2, <2>2, <4>2
      <4> QED BY <4>1, <4>2
    <3>3. /\ \A u \in Servers : Running(u) => u = s
          /\ PathOwn(s) /\ (Has(held[s], "log") => log = s)
      BY <1>2, <3>1, <3>2 DEF AloneInv
    <3>4. CASE s = t
      BY <1>2, <2>2, <2>4, <3>3, <3>4, OwnFiles DEF HeldInv
    <3>5. CASE s # t
      <4>1. UNCHANGED <<pc, held, files, alone>>
        BY <1>2, <2>4, <3>3, <3>5, OnlyRunning
      <4> QED BY <3>3, <4>1 DEF files, Running, PathOwn
    <3> QED BY <3>4, <3>5
  <2> QED BY <2>3, <2>4
<1>3. CASE DspAlone
  BY <1>3, DspKeeps DEF files, AloneInv, Running, PathOwn
<1> QED BY <1>1, <1>2, <1>3 DEF Next, AloneInv, DspAlone

(* A server that runs alone finds the files as it left them.               *)
LEMMA Alone == Spec => [](TypeInv /\ HeldInv /\ AloneInv)
<1>1. AloneInv /\ TypeInv /\ HeldInv /\ [Next]_vars => AloneInv'
  BY NextAlone
<1> QED BY <1>1, InitAlone, Held, PTL DEF Spec

-----------------------------------------------------------------------------
(* The DSP: it runs only while a server that started it has not stopped    *)
(* it, and another one ends a server's task only if both run, or one       *)
(* crashed.                                                                *)
TaskInv ==
    /\ dsp # "off" => \E s \in Servers : Has(held[s], "dsp")
    /\ \A s \in robbed :
        /\ s \in Servers /\ pc[s] # "idle"
        /\ ~alone[s] \/ \E t \in Servers : t # s /\ pc[t] = "crashed"

LEMMA DspRank == "dsp" \in Always /\ "dsp" \in Resources /\ Rank("dsp") = 10
BY DEF Always, Resources, Rank

(* Nobody is started twice, and nobody but PROC_stop lets the DSP go.      *)
LEMMA OfOneStep ==
  ASSUME TypeInv, NEW s \in Servers, OwnInv(s), Step(s) \/ Environment(s)
  PROVE  /\ pc'[s] # "idle"
         /\ Has(held[s], "dsp") /\ pc[s] # "PROC_stop" => Has(held'[s], "dsp")
<1>1. ASSUME NEW c, Goto(s, c) PROVE pc'[s] = c
  BY <1>1 DEF Goto, TypeInv
<1>2. OwnInv(s)'
  BY StepKeeps DEF Kept
<1>3. ASSUME pc[s] \in Places, Has(held[s], "dsp") PROVE 10 <= Level(pc[s])
  BY <1>3, DspRank DEF OwnInv, Holding
<1>4. ASSUME pc'[s] \in Places, 10 <= Level(pc'[s]) PROVE Has(held'[s], "dsp")
  BY <1>2, <1>4, DspRank DEF OwnInv, Holding
<1>5. CASE CallReturns(s)
  <2>1. pc[s] \in DOMAIN Obtains
    BY <1>5 DEF CallReturns
  <2>2. Deeper(pc[s], Obtains[pc[s]])
    BY <2>1, CallTable
  <2>3. pc'[s] = Obtains[pc[s]].then \/ pc'[s] = Obtains[pc[s]].else
    BY <1>1, <1>5 DEF CallReturns
  <2>4. pc[s] \in Places /\ pc'[s] \in Places \ {"idle"}
    BY <2>2, <2>3 DEF Deeper
  <2>5. Level(pc[s]) <= Level(pc'[s]) /\ Level(pc[s]) \in Nat /\ Level(pc'[s]) \in Nat
    BY <2>2, <2>3, <2>4, Ranks DEF Deeper
  <2> QED BY <1>3, <1>4, <2>4, <2>5
<1>6. CASE Release(s)
  <2>1. pc[s] \in DOMAIN LetsGo
    BY <1>6 DEF Release
  <2>2. Shallower(pc[s], LetsGo[pc[s]])
    BY <2>1, FreeTable
  <2>3. pc'[s] = LetsGo[pc[s]].then
    BY <1>1, <1>6 DEF Release
  <2>4. pc[s] \in Places /\ pc'[s] \in Places \ {"idle"}
    BY <2>2, <2>3 DEF Shallower
  <2>5. Level(pc[s]) \in Nat
    BY <2>4, Ranks
  <2>6. ASSUME pc[s] # "PROC_stop", 10 <= Level(pc[s]) PROVE 10 <= Level(pc'[s])
    BY <2>2, <2>3, <2>5, <2>6 DEF Shallower
  <2> QED BY <1>3, <1>4, <2>4, <2>6
<1> DEFINE Shallow == {"args", "fork", "unlink", "bind", "signal", "log_deinit", "idle"}
<1>7. ASSUME pc[s] \in Shallow PROVE ~Has(held[s], "dsp")
  <2>1. pc[s] \in Places /\ ~(10 <= Level(pc[s]))
    BY <1>7 DEF Places, Early, Level
  <2> QED BY <1>3, <2>1
<1>8. CASE Args(s)
  <2>1. mode[s] \in {"daemon", "forground", "help"}
    BY Types, StartupAssumption
  <2> QED BY <1>1, <1>7, <1>8, <2>1 DEF Args
<1>9. CASE Fork(s) \/ Unlink(s) \/ Bind(s) \/ SignalCalls(s) \/ LogDeinit(s) \/ Start(s)
  BY <1>1, <1>7, <1>9 DEF Fork, Unlink, Bind, SignalCalls, LogDeinit, Start
<1>10. CASE Locate(s) \/ Serve(s)
  <2>1. pc'[s] \in {"located", "reply", "loop", "shutdown", "MSGQ_transportClose"}
    BY <1>1, <1>10 DEF Locate, Serve
  <2>2. pc'[s] \in Places /\ pc'[s] # "idle" /\ 10 <= Level(pc'[s])
    BY <2>1, MoveTable DEF Level
  <2> QED BY <1>4, <2>2
<1>11. CASE Signal(s) \/ Crash(s)
  <2>1. held' = held /\ (pc' = pc \/ pc'[s] \in {"killed", "crashed"}) /\ Running(s)
    BY <1>1, <1>11 DEF Signal, Crash
  <2> QED BY <2>1 DEF Running
<1> QED BY <1>5, <1>6, <1>8, <1>9, <1>10, <1>11 DEF Step, Environment

(* What a step does to the task.                                           *)
LEMMA TaskSteps ==
  ASSUME NEW s \in Servers, Step(s) \/ Environment(s)
  PROVE  \/ UNCHANGED task /\ pc[s] # "PROC_stop"
         \/ pc[s] = "PROC_start" /\ ProcStart(s) /\ Goto(s, "MSGQ_transportOpen")
            /\ alone' = alone
         \/ pc[s] = "PROC_stop" /\ (ProcStop(s) \/ UNCHANGED <<task, held>>) /\ alone' = alone
         \/ pc[s] = "shutdown" /\ Shutdown(s) /\ alone' = alone
<1>1. CASE CallReturns(s)
  <2>1. pc[s] # "PROC_stop" /\ alone' = alone
    BY <1>1 DEF CallReturns, Obtains, MainObtains, DspObtains
  <2>2. pc[s] = "PROC_start" => Obtains[pc[s]].then = "MSGQ_transportOpen"
    BY DEF Obtains, MainObtains, DspObtains, Call
  <2> QED BY <1>1, <2>1, <2>2 DEF CallReturns, task
<1>2. CASE Release(s)
  BY <1>2 DEF Release
<1>3. CASE Serve(s)
  BY <1>3 DEF Serve
<1>4. CASE Args(s) \/ Fork(s) \/ Unlink(s) \/ Bind(s) \/ SignalCalls(s) \/ Locate(s)
           \/ LogDeinit(s) \/ Start(s)
  BY <1>4 DEF Args, Fork, Unlink, Bind, SignalCalls, Locate, LogDeinit, Start
<1>5. CASE Signal(s) \/ Crash(s)
  BY <1>5 DEF Signal, Crash
<1> QED BY <1>1, <1>2, <1>3, <1>4, <1>5 DEF Step, Environment

LEMMA NextTask ==
  ASSUME TypeInv, HeldInv, AloneInv, TaskInv, [Next]_vars
  PROVE  TaskInv'
<1>1. CASE UNCHANGED vars
  BY <1>1 DEF vars, task, TaskInv
<1>2. CASE DspAlone
  BY <1>2, DspKeeps DEF TaskInv
<1>3. ASSUME NEW s \in Servers, Step(s) \/ Environment(s)
      PROVE  TaskInv'
  <2>1. /\ \A t \in Servers \ {s} : pc'[t] = pc[t] /\ held'[t] = held[t]
        /\ OwnInv(s)'
    BY <1>3, StepKeeps DEF HeldInv, Kept, OthersKept
  <2>2. /\ pc'[s] # "idle"
        /\ Has(held[s], "dsp") /\ pc[s] # "PROC_stop" => Has(held'[s], "dsp")
    BY <1>3, OfOneStep DEF HeldInv
  <2>3. pc[s] = "crashed" => pc'[s] = "crashed"
    BY <1>3, OnlyRunning DEF Running, Start
  <2>4. ASSUME NEW u \in robbed
        PROVE  /\ u \in Servers /\ pc'[u] # "idle"
               /\ ~alone'[u] \/ \E t \in Servers : t # u /\ pc'[t] = "crashed"
    <3>1. /\ u \in Servers /\ pc[u] # "idle"
          /\ ~alone[u] \/ \E t \in Servers : t # u /\ pc[t] = "crashed"
      BY DEF TaskInv
    <3>2. alone[u] = FALSE => alone'[u] = FALSE
      <4>1. CASE Start(s)
        BY <3>1, <4>1 DEF Start
      <4>2. CASE ~Start(s)
        BY <1>3, <4>2 DEF Step, Environment, CallReturns, Release, Args, Fork, Unlink, Bind,
           SignalCalls, Locate, Serve, LogDeinit, Signal, Crash
      <4> QED BY <4>1, <4>2
    <3>3. alone[u] \in BOOLEAN
      BY <3>1, Types
    <3> QED BY <2>1, <2>2, <2>3, <3>1, <3>2, <3>3
  <2>5. ASSUME Running(s), NEW u \in Users(s), alone' = alone
        PROVE  u \in Servers /\ pc'[u] # "idle" /\ ~alone'[u]
    <3>1. u \in Servers \ {s} /\ Running(u)
      BY DEF Users
    <3> QED BY <2>1, <2>5, <3>1 DEF AloneInv, Running
  <2>6. CASE UNCHANGED task /\ pc[s] # "PROC_stop"
    BY <2>1, <2>2, <2>4, <2>6 DEF task, TaskInv
  <2>7. CASE pc[s] = "PROC_start" /\ ProcStart(s) /\ Goto(s, "MSGQ_transportOpen")
             /\ alone' = alone
    <3>1. pc'[s] = "MSGQ_transportOpen" /\ Running(s)
      BY <2>7 DEF Goto, TypeInv, Running
    <3>2. /\ "MSGQ_transportOpen" \in Places /\ Level("MSGQ_transportOpen") = 10
          /\ "PROC_start" \in Places /\ Level("PROC_start") = 9
      BY DEF Places, Late, Level
    <3>3. Has(held'[s], "dsp") /\ ~Has(held[s], "dsp")
      BY <2>1, <2>7, <3>1, <3>2, DspRank DEF HeldInv, OwnInv, Holding
    <3>4. CASE robbed' = robbed \cup Users(s) \/ robbed' = robbed
      BY <2>4, <2>5, <2>7, <3>1, <3>3, <3>4 DEF TaskInv
    <3>5. CASE dsp # "off" /\ robbed' = robbed \cup {s}
      <4>1. PICK t \in Servers : Has(held[t], "dsp")
        BY <3>5 DEF TaskInv
      <4>2. t # s /\ pc'[t] = pc[t]
        BY <2>1, <3>3, <4>1
      <4>3. CASE pc[t] \in Places
        <5>1. 10 <= Level(pc[t])
          BY <4>1, <4>3, DspRank DEF HeldInv, OwnInv, Holding
        <5>2. Running(t)
          BY <4>3, <5>1 DEF Running, Level, Places, Early, Late
        <5>3. ~alone[s]
          BY <3>1, <4>2, <5>2 DEF AloneInv
        <5> QED BY <2>2, <2>4, <2>7, <3>3, <3>5, <5>3 DEF TaskInv
      <4>4. CASE pc[t] = "killed"
        BY <4>1, <4>4 DEF HeldInv, OwnInv
      <4>5. CASE pc[t] = "crashed"
        BY <2>2, <2>4, <3>3, <3>5, <4>2, <4>5 DEF TaskInv
      <4> QED BY <4>3, <4>4, <4>5, Types
    <3> QED BY <2>7, <3>4, <3>5 DEF ProcStart
  <2>8. CASE pc[s] = "PROC_stop" /\ (ProcStop(s) \/ UNCHANGED <<task, held>>)
             /\ alone' = alone
    <3>1. Running(s)
      BY <2>8 DEF Running
    <3>2. CASE dsp' = "off" /\ robbed' = robbed \cup Users(s)
      BY <2>4, <2>5, <2>8, <3>1, <3>2 DEF TaskInv
    <3>3. CASE (\E t \in Servers \ {s} : Holds(t, "dsp")) /\ UNCHANGED task
      BY <2>1, <2>4, <3>3 DEF TaskInv, task, Holds, Has
    <3>4. CASE UNCHANGED <<task, held>>
      BY <2>4, <3>4 DEF TaskInv, task
    <3> QED BY <2>8, <3>2, <3>3, <3>4 DEF ProcStop
  <2>9. CASE pc[s] = "shutdown" /\ Shutdown(s) /\ alone' = alone
    <3>1. Running(s)
      BY <2>9 DEF Running
    <3>2. CASE dsp # "off" /\ robbed' = robbed \cup Users(s)
      BY <2>1, <2>2, <2>4, <2>5, <2>9, <3>1, <3>2 DEF TaskInv
    <3>3. CASE UNCHANGED task
      BY <2>1, <2>2, <2>4, <2>9, <3>3 DEF TaskInv, task
    <3> QED BY <2>9, <3>2, <3>3 DEF Shutdown
  <2> QED BY <1>3, <2>6, <2>7, <2>8, <2>9, TaskSteps
<1> QED BY <1>1, <1>2, <1>3 DEF Next, DspAlone

LEMMA TaskKept == Spec => [](TypeInv /\ HeldInv /\ AloneInv /\ TaskInv)
<1>1. Init => TaskInv
  BY DEF Init, TaskInv
<1>2. TaskInv /\ TypeInv /\ HeldInv /\ AloneInv /\ [Next]_vars => TaskInv'
  BY NextTask
<1> QED BY <1>1, <1>2, Alone, PTL DEF Spec

-----------------------------------------------------------------------------
(* Whatever failed, a server that ends by itself has let everything go, and *)
(* no DSP runs but one that a server started and has not stopped; one that *)
(* a signal kills before its handlers are there leaves no queue, no pool   *)
(* and no DSP; a server that ran alone and listens is the one its clients  *)
(* reach; and none that ran alone, with nobody crashed, is robbed.         *)
THEOREM LeftClean == Spec => []LeavesNothing
<1>1. ASSUME TypeInv, HeldInv, AloneInv, TaskInv PROVE LeavesNothing
  <2>1. NothingHeldAtEnd
    <3> SUFFICES ASSUME NEW s \in Servers, pc[s] = "ended"
                 PROVE  held[s] = <<>>
      BY <1>1 DEF NothingHeldAtEnd, TaskInv, Holds, Has
    <3>1. "ended" \in Places /\ Level("ended") = 0 /\ "ended" \notin Served
      BY DEF Places, Level, Served
    <3>2. Holding(held[s], "ended")
      BY <1>1, <3>1 DEF HeldInv, OwnInv
    <3>3. \A r \in Resources : ~Has(held[s], r)
      BY <3>1, <3>2, Ranks DEF Holding, Always
    <3>4. held[s] \in Seq(Resources)
      BY <1>1, Types
    <3>5. Len(held[s]) = 0
      BY <3>3, <3>4, HasIndex
    <3> QED BY <3>4, <3>5, EmptySeq
  <2>2. KilledEarly
    BY <1>1 DEF KilledEarly, HeldInv, OwnInv, Holds, Has
  <2>3. Reachable
    <3> SUFFICES ASSUME NEW s \in Servers, Running(s), alone[s], Holds(s, "setup")
                 PROVE  path = s
      BY DEF Reachable
    <3>1. pc[s] \in Places
      BY <1>1, Types DEF Running
    <3>2. "setup" \in Resources \ {"log", "peers"} /\ Rank("setup") = 6
      BY DEF Resources, Rank
    <3>3. 6 <= Level(pc[s])
      BY <1>1, <3>1, <3>2 DEF HeldInv, OwnInv, Holding, Holds, Has
    <3> QED BY <1>1, <3>3 DEF AloneInv, PathOwn, PastBind
  <2>4. KeepsItsDsp
    BY <1>1 DEF TaskInv, KeepsItsDsp
  <2> QED BY <2>1, <2>2, <2>3, <2>4 DEF LeavesNothing
<1>2. TypeInv /\ HeldInv /\ AloneInv /\ TaskInv => LeavesNothing
  BY <1>1
<1> QED BY <1>2, TaskKept, PTL

(* Whatever fails, things are let go in the reverse of the order in which  *)
(* they were obtained; main gives up at bind only for bind's own failure   *)
(* or a server started meanwhile; and the log of a daemon that ran alone   *)
(* is the last log when it has ended.                                      *)
THEOREM InTurn == Spec => StepsInTurn
<1> DEFINE Order ==
        \A s \in Servers : Len(held'[s]) < Len(held[s]) =>
            \E i \in DOMAIN held[s] :
                /\ held'[s] = RemoveAt(held[s], i)
                /\ \A j \in (i + 1)..Len(held[s]) : held[s][j] = "peers"
           Again ==
        \A s \in Servers :
            /\ pc[s] = "bind" /\ pc'[s] = "close_socket"
            /\ alone[s]
            => path = None
           LastLog ==
        \A s \in Servers :
            pc[s] = "log_deinit" /\ pc'[s] # "log_deinit" /\ Running(s)'
            /\ Holds(s, "log") /\ alone[s]
            => lastLog' = s
<1>1. ASSUME TypeInv, HeldInv, AloneInv, [Next]_vars PROVE Order
  BY <1>1, NextLastGoes DEF LastGoes
<1>2. ASSUME TypeInv, HeldInv, AloneInv, [Next]_vars PROVE Again
  BY <1>2 DEF AloneInv, PathOwn, Running
<1>3. ASSUME TypeInv, HeldInv, AloneInv, [Next]_vars PROVE LastLog
  <2> SUFFICES ASSUME NEW s \in Servers, pc[s] = "log_deinit", pc'[s] # "log_deinit",
                      Running(s)', Holds(s, "log"), alone[s]
               PROVE  lastLog' = s
    OBVIOUS
  <2>1. log = s
    BY <1>3 DEF AloneInv, Running, Holds, Has
  <2>2. PICK t \in Servers : Step(t) \/ Environment(t)
    BY <1>3, DspKeeps DEF Next, vars, DspAlone
  <2>3. t = s
    BY <1>3, <2>2, StepKeeps DEF HeldInv, Kept, OthersKept
  <2>4. ~CallReturns(s) /\ ~Release(s)
    BY DEF CallReturns, Release, Obtains, MainObtains, DspObtains, LetsGo
  <2>5. ~Signal(s) /\ ~Crash(s)
    BY <1>3 DEF Signal, Crash, Goto, Running, TypeInv
  <2>6. LogDeinit(s)
    BY <2>2, <2>3, <2>4, <2>5 DEF Step, Environment, Args, Fork, Unlink, Bind, SignalCalls,
       Locate, Serve, Start
  <2> QED BY <2>1, <2>6 DEF LogDeinit
<1> HIDE DEF Order, Again, LastLog
<1>4. Spec => [][Order]_vars
  BY <1>1, Alone, PTL DEF Spec
<1>5. Spec => [][Again]_vars
  BY <1>2, Alone, PTL DEF Spec
<1>6. Spec => [][LastLog]_vars
  BY <1>3, Alone, PTL DEF Spec
<1> QED BY <1>4, <1>5, <1>6 DEF StepsInTurn, LetsLastGo, StartsAgain, KeepsLastLog, Order,
           Again, LastLog

=============================================================================
