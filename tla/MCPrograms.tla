----------------------------- MODULE MCPrograms -----------------------------
(***************************************************************************)
(* What the repository has beside the service: the two test programs and   *)
(* the three parts of gles2gears. A behaviour is one of them, chosen at    *)
(* first; the variables of the others stay as they are, and a variable of  *)
(* two modules serves both.                                                *)
(***************************************************************************)
EXTENDS Integers, Sequences

CONSTANTS
    Testers, PoolSize, MaxSent, NoQueue, Stops, Fails,
    App, Kinds, OutSize, MaxSeq, MaxRequests, Skips, Cuts, Garbled, Faults,
    Teeth, Half, Starts, FrameTimes, MaxUptime,
    FullTurn, Sin, Cos, Turns

VARIABLES
    which,
    pc, sequence, step, angle, printed,
    reply_msgq, gppq, free, dspq, hold, parked, dspRuns, silent, refused,
    out, used, asked, answered, taken, cut, call, result, issued, faults,
    cookie, rounds,
    teeth, i, vertices, strips,
    uptime, start, tRot0, tRate0, frames, first, drawn,
    next, view_rot, transform, uniforms

shared == <<pc, sequence, step, angle, printed>>
dspTestOnly == <<reply_msgq, gppq, free, dspq, hold, parked, dspRuns, silent, refused>>
testSckOnly ==
    <<out, used, asked, answered, taken, cut, call, result, issued, faults, cookie, rounds>>
meshOnly == <<teeth, i, vertices, strips>>
clockOnly == <<uptime, start, tRot0, tRate0, frames, first, drawn>>
drawOnly == <<next, view_rot, transform, uniforms>>
vars == <<which, shared, dspTestOnly, testSckOnly, meshOnly, clockOnly, drawOnly>>

-----------------------------------------------------------------------------
(* The answer to the first request is 16, which is also the size that a    *)
(* header of a reply has.                                                  *)
Answer(kind, n) == IF kind = 1 THEN 15 + n ELSE 30 + n

(* Angles in steps of 15 degrees or 7.5, lengths in thousandths.           *)
Quadrant == <<0, 131, 259, 383, 500, 609, 707, 793, 866, 924, 966, 991, 1000>>
Sine(k) ==
    LET n == k % 48
    IN IF n <= 12 THEN Quadrant[n + 1]
       ELSE IF n <= 24 THEN Quadrant[25 - n]
       ELSE IF n <= 36 THEN -Quadrant[n - 23]
       ELSE -Quadrant[49 - n]

Radius == [r0 |-> 2, r1 |-> 7, r2 |-> 9]
PointAt(r, a, n) ==
    LET k == a * (12 \div n) IN <<Radius[r] * Sine(k + 12), Radius[r] * Sine(k)>>

(* Quarter turns: the sine of none, one, two and three.                    *)
QuarterSin == [q \in 0..3 |-> CASE q = 1 -> 1 [] q = 3 -> -1 [] OTHER -> 0]
QuarterCos == [q \in 0..3 |-> QuarterSin[(q + 1) % 4]]

(* perspective: its five numbers, each another.                            *)
Projection ==
    [k \in 0..15 |-> CASE k = 0 -> 2 [] k = 5 -> 3 [] k = 10 -> -5 [] k = 11 -> -1
                       [] k = 14 -> -7 [] OTHER -> 0]

DspTest == INSTANCE DspTest
TestSck == INSTANCE DspTestSck
Mesh == INSTANCE GearMesh
Clock == INSTANCE GearsClock
Draw == INSTANCE GearsDraw

ASSUME ProgramsAssumption ==
    /\ DspTest!DspTestConstants
    /\ TestSck!LibConstants /\ TestSck!TestConstants
    /\ Mesh!GearMeshConstants /\ Clock!GearsClockConstants /\ Draw!GearsDrawConstants

-----------------------------------------------------------------------------
(* The variables of a program that is not run.                             *)
NoDspTest ==
    /\ reply_msgq = 0 /\ gppq = 0 /\ free = 0 /\ dspq = 0 /\ hold = 0 /\ parked = 0
    /\ dspRuns = 0 /\ silent = 0 /\ refused = 0
NoTestSck ==
    /\ out = 0 /\ used = 0 /\ asked = 0 /\ answered = 0 /\ taken = 0 /\ cut = 0
    /\ call = 0 /\ result = 0 /\ issued = 0 /\ faults = 0 /\ cookie = 0 /\ rounds = 0
NoMesh == teeth = 0 /\ i = 0 /\ vertices = 0 /\ strips = 0
NoClock ==
    /\ uptime = 0 /\ start = 0 /\ tRot0 = 0 /\ tRate0 = 0 /\ frames = 0
    /\ first = 0 /\ drawn = 0
NoDraw == next = 0 /\ view_rot = 0 /\ transform = 0 /\ uniforms = 0

Init ==
    \/ /\ which = "dsptest" /\ DspTest!Init
       /\ step = 0 /\ angle = 0
       /\ NoTestSck /\ NoMesh /\ NoClock /\ NoDraw
    \/ /\ which = "dsptestsck" /\ TestSck!TestInit
       /\ angle = 0 /\ printed = 0
       /\ NoDspTest /\ NoMesh /\ NoClock /\ NoDraw
    \/ /\ which = "mesh" /\ Mesh!Init
       /\ pc = 0 /\ sequence = 0 /\ angle = 0 /\ printed = 0
       /\ NoDspTest /\ NoTestSck /\ NoClock /\ NoDraw
    \/ /\ which = "clock" /\ Clock!Init
       /\ pc = 0 /\ sequence = 0 /\ step = 0
       /\ NoDspTest /\ NoTestSck /\ NoMesh /\ NoDraw
    \/ /\ which = "draw" /\ Draw!Init
       /\ pc = 0 /\ sequence = 0 /\ step = 0 /\ printed = 0
       /\ NoDspTest /\ NoTestSck /\ NoMesh /\ NoClock

Next ==
    /\ UNCHANGED which
    /\ \/ /\ which = "dsptest" /\ DspTest!Next
          /\ UNCHANGED <<step, angle, testSckOnly, meshOnly, clockOnly, drawOnly>>
       \/ /\ which = "dsptestsck" /\ TestSck!TestNext
          /\ UNCHANGED <<angle, printed, dspTestOnly, meshOnly, clockOnly, drawOnly>>
       \/ /\ which = "mesh" /\ Mesh!Next
          /\ UNCHANGED <<pc, sequence, angle, printed>>
          /\ UNCHANGED <<dspTestOnly, testSckOnly, clockOnly, drawOnly>>
       \/ /\ which = "clock" /\ Clock!Idle
          /\ UNCHANGED <<pc, sequence, step>>
          /\ UNCHANGED <<dspTestOnly, testSckOnly, meshOnly, drawOnly>>
       \/ /\ which = "draw" /\ Draw!Next
          /\ UNCHANGED <<pc, sequence, step, printed>>
          /\ UNCHANGED <<dspTestOnly, testSckOnly, meshOnly, clockOnly>>

Spec == Init /\ [][Next]_vars

-----------------------------------------------------------------------------
(* gpp/dsptest.c: every buffer is in one place and every process gets its  *)
(* own messages, in order, all but the products it asked for too early.    *)
TestersServed == which = "dsptest" => DspTest!TestersServed

(* gpp/dsptestsck.c: every result is asked for with its own cookie, also   *)
(* the one cookie that serves twice, and none is passed over.              *)
ResultsMatch == which = "dsptestsck" => TestSck!ResultsMatch

(* create_gear: a closed surface in the vertices and strips allocated.     *)
MeshSound == which = "mesh" => Mesh!MeshSound

(* gears_idle: the gears turn and the rates add up by a clock that wraps.  *)
TimeKept == which = "clock" => Clock!TimeKept

(* gears_draw and draw_gear: points and normals come where they belong.    *)
GearsInPlace == which = "draw" => Draw!GearsInPlace

=============================================================================
