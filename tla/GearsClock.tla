----------------------------- MODULE GearsClock -----------------------------
(***************************************************************************)
(* gears_idle and now of gles2gears.c: the time a frame took turns the     *)
(* gears and, every five seconds, gives the rate. now() is an int that     *)
(* counts milliseconds since 1970 and long since does not fit: it is the   *)
(* count modulo 2 * Half, as a signed number. One unit stands for a second. *)
(***************************************************************************)
EXTENDS Integers

CONSTANTS
    Half,       \* half of the values of an int: 2^31
    Starts,     \* what the clock may show when the program starts
    FrameTimes, \* how long frames take
    MaxUptime   \* bound: how long the program runs

GearsClockConstants ==
    /\ Half \in Nat \ {0}
    /\ Starts \subseteq Int
    /\ FrameTimes \subseteq Nat \ {0}
    /\ MaxUptime \in Nat

VARIABLES
    uptime,     \* the time since the start
    start,      \* the clock then; g_start_time is what fits of it
    tRot0,      \* g_tRot0
    tRate0,     \* g_tRate0
    angle,      \* g_angle
    frames,     \* g_frames
    first,      \* history: uptime when the first frame had been drawn
    drawn,      \* history: all the frames
    printed     \* history: the frames and the seconds of all lines printed

timers == <<tRot0, tRate0, angle, frames>>
vars == <<uptime, start, timers, first, drawn, printed>>

AsInt(n) == ((n + Half) % (2 * Half)) - Half

(* Mutant of Elapsed: the clock is taken as an int, its difference is not. *)
ElapsedUnreduced(up) == AsInt(start + up) - AsInt(start)

(* t: now() - g_start_time                                                 *)
Elapsed(up) == AsInt(AsInt(start + up) - AsInt(start))

Init ==
    /\ uptime = 0
    /\ start \in Starts
    /\ tRot0 = -1 /\ tRate0 = -1
    /\ angle = 0 /\ frames = 0
    /\ first = 0 /\ drawn = 0
    /\ printed = [frames |-> 0, seconds |-> 0]

(* The last time kept, or this one if there is none yet.                   *)
Since(t0, t) == IF t0 < 0 THEN t ELSE t0

(* Mutant of Rotate: the angle only grows.                                 *)
RotateUnreduced(t) ==
    /\ tRot0' = t
    /\ angle' = angle + 70 * (t - Since(tRot0, t))

(* 70 degrees for every second since the last frame.                       *)
Rotate(t) ==
    LET turned == angle + 70 * (t - Since(tRot0, t))
    IN /\ tRot0' = t
       /\ angle' = IF turned > 3600 THEN turned - 3600 ELSE turned

Line(n, seconds) ==
    printed' = [frames |-> printed.frames + n, seconds |-> printed.seconds + seconds]

(* Mutant of Rate: the frame just drawn is not counted when a line comes.  *)
RateLosing(t) ==
    IF t - Since(tRate0, t) >= 5
    THEN Line(frames, t - Since(tRate0, t)) /\ tRate0' = t /\ frames' = 0
    ELSE tRate0' = Since(tRate0, t) /\ frames' = frames + 1 /\ UNCHANGED printed

(* The rate of the frames of the last five seconds or more, printed.       *)
Rate(t) ==
    IF t - Since(tRate0, t) >= 5
    THEN Line(frames + 1, t - Since(tRate0, t)) /\ tRate0' = t /\ frames' = 0
    ELSE tRate0' = Since(tRate0, t) /\ frames' = frames + 1 /\ UNCHANGED printed

(* A frame has been drawn and shown; gears_idle.                           *)
Idle ==
    /\ \E d \in FrameTimes : uptime' = uptime + d
    /\ uptime' <= MaxUptime
    /\ Rotate(Elapsed(uptime')) /\ Rate(Elapsed(uptime'))
    /\ first' = IF drawn = 0 THEN uptime' ELSE first
    /\ drawn' = drawn + 1
    /\ UNCHANGED start

Spec == Init /\ [][Idle]_vars

-----------------------------------------------------------------------------
(* The gears turn 70 degrees per second from the first frame on, whatever  *)
(* frames take and whatever the clock showed when the program started,     *)
(* though the count of milliseconds has wrapped many times by then.        *)
TurnsAtRate == angle % 3600 = (70 * (uptime - first)) % 3600

(* One subtraction keeps the angle small, where a float is exact enough,   *)
(* as long as no frame takes ten turns, 51 seconds.                        *)
AngleBounded == angle \in 0..3600

(* The lines add up: every frame drawn is in one of them or still to be   *)
(* told, and the seconds are those since the first frame.                  *)
LinesAddUp ==
    /\ printed.frames + frames = drawn
    /\ drawn > 0 => printed.seconds = tRate0 - Elapsed(first)

TimeKept == TurnsAtRate /\ AngleBounded /\ LinesAddUp
=============================================================================
