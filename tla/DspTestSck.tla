---------------------------- MODULE DspTestSck -----------------------------
(***************************************************************************)
(* main of gpp/dsptestsck.c: the test program of the library, over the     *)
(* library's own model. Its loop makes three MULT requests, flushes them,  *)
(* collects the three results, and does one CRC32 in the same way.         *)
(***************************************************************************)
EXTENDS LibDspmain

VARIABLES
    step,       \* where in the loop it is, 1 to 9
    cookie,     \* its array: which request each of its cookies was given for
    rounds      \* history: how often it has been through

testVars == <<step, cookie, rounds>>
allVars == <<vars, testVars>>

(* It makes both kinds of requests.                                        *)
TestConstants == {MULT, CRC32} \subseteq Kinds

TestInit ==
    /\ Init
    /\ step = 1 /\ cookie = <<0, 0, 0>> /\ rounds = 0

Mults == {1, 2, 3}
MultResults == {5, 6, 7}
KindAt == IF step \in Mults THEN MULT ELSE CRC32
(* cookie[0] serves the CRC32 too.                                         *)
CookieAt == IF step \in Mults THEN step ELSE IF step \in MultResults THEN step - 4 ELSE 1

(* Mutant of TestRequest: one cookie for all.                              *)
TestRequestOneCookie ==
    /\ step \in Mults \cup {8}
    /\ Request(KindAt)
    /\ cookie' = [cookie EXCEPT ![1] = Len(issued')]
    /\ step' = step + 1
    /\ UNCHANGED rounds

(* dspmain_mult and dspmain_crc32. They could only fail to flush a full    *)
(* buffer, but it holds a round's requests: this step is always there.     *)
TestRequest ==
    /\ step \in Mults \cup {8}
    /\ Request(KindAt)
    /\ cookie' = [cookie EXCEPT ![CookieAt] = Len(issued')]
    /\ step' = step + 1
    /\ UNCHANGED rounds

TestFlush ==
    /\ step = 4
    /\ Flush
    /\ step' = 5
    /\ UNCHANGED <<cookie, rounds>>

(* dspmain_mult_result and dspmain_crc32_result are entered, and return.   *)
TestCollect ==
    /\ step \in MultResults \cup {9}
    /\ pc = "idle" /\ result.request # cookie[CookieAt]
    /\ Collect(cookie[CookieAt])
    /\ UNCHANGED testVars

(* Mutant of TestReturns: the second result is never collected.            *)
TestReturnsSkipping ==
    /\ step \in MultResults \cup {9}
    /\ pc = "idle" /\ result.request = cookie[CookieAt]
    /\ step' = CASE step = 5 -> 7 [] step = 7 -> 8 [] step = 9 -> 1
    /\ rounds' = IF step = 9 THEN rounds + 1 ELSE rounds
    /\ UNCHANGED <<vars, cookie>>

TestReturns ==
    /\ step \in MultResults \cup {9}
    /\ pc = "idle" /\ result.request = cookie[CookieAt]
    /\ step' = IF step = 9 THEN 1 ELSE step + 1
    /\ rounds' = IF step = 9 THEN rounds + 1 ELSE rounds
    /\ UNCHANGED <<vars, cookie>>

TestStep == TestRequest \/ TestFlush \/ TestCollect \/ TestReturns
Around == (Recv \/ Serve \/ Cut) /\ UNCHANGED testVars

TestNext == TestStep \/ Around
TestSpec == TestInit /\ [][TestNext]_allVars

-----------------------------------------------------------------------------
(* No result is asked for with the cookie of another request, though one   *)
(* of the three serves two requests of a round.                            *)
EachHasItsCookie ==
    step \in MultResults \cup {9} =>
        /\ cookie[CookieAt] = 4 * rounds + (IF step = 9 THEN 4 ELSE step - 4)
        /\ issued[cookie[CookieAt]].kind = (IF step = 9 THEN CRC32 ELSE MULT)

(* The test never has the library skip an older reply: it collects every   *)
(* result in order, so it does not reach the line where dspmain_crc32_     *)
(* result goes on as dspmain_mult_result, unless a recv() or send() has    *)
(* failed or come short: the test goes on after a call that failed.        *)
NeverSkips == pc = "payload" /\ Received /\ faults = {} => NextUnit[1] = Cookie

ResultsMatch == EachHasItsCookie /\ NeverSkips
=============================================================================
