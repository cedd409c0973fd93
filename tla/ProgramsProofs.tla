--------------------------- MODULE ProgramsProofs ---------------------------
(***************************************************************************)
(* Proofs about the programs beside the service: what MCPrograms checks of *)
(* them, of the meshes a part, for every number of testers, buffers,       *)
(* requests and teeth, for every length of the run and its frames.         *)
(***************************************************************************)
EXTENDS MCPrograms, SequenceTheorems, FiniteSetTheorems, TLAPS
-----------------------------------------------------------------------------
(***************************************************************************)
(* gears_idle. As long as the program runs no longer than an int can tell, *)
(* the difference of two clocks that have wrapped is the time between.     *)
(***************************************************************************)
LEMMA Divides ==
  ASSUME NEW a \in Int, NEW w \in Nat \ {0}
  PROVE  \E q \in Int : a = w * q + (a % w) /\ a % w \in 0..(w - 1)
<1>1. a \div w \in Int /\ a = w * (a \div w) + (a % w) /\ a % w \in 0..(w - 1)
  OBVIOUS
<1> QED BY <1>1

LEMMA NoMultiple ==
  ASSUME NEW w \in Nat \ {0}, NEW q \in Int, -w < w * q, w * q < w
  PROVE  q = 0
<1>1. CASE q >= 1
  <2>1. w * q >= w
    BY <1>1
  <2> QED BY <2>1
<1>2. CASE q <= -1
  <2>1. w * q <= -w
    BY <1>2
  <2> QED BY <2>1
<1> QED BY <1>1, <1>2

LEMMA AsIntIs ==
  ASSUME NEW n \in Int
  PROVE  \E q \in Int : Clock!AsInt(n) = n - (2 * Half) * q /\ Clock!AsInt(n) \in Int
                        /\ -Half <= Clock!AsInt(n) /\ Clock!AsInt(n) < Half
<1>1. Half \in Nat \ {0}
  BY ProgramsAssumption DEF Clock!GearsClockConstants
<1>2. PICK w, h, a : w = 2 * Half /\ h = Half /\ a = n + Half
  OBVIOUS
<1>3. w \in Nat \ {0} /\ h \in Nat \ {0} /\ w = 2 * h /\ a \in Int /\ a = n + h
  BY <1>1, <1>2
<1>4. PICK q \in Int : a = w * q + (a % w) /\ a % w \in 0..(w - 1)
  BY <1>3, Divides
<1>5. Clock!AsInt(n) = (a % w) - h
  BY <1>2 DEF Clock!AsInt
<1>6. PICK x, y : x = a % w /\ y = w * q
  OBVIOUS
<1>7. x \in 0..(w - 1) /\ y \in Int /\ a = y + x
  BY <1>3, <1>4, <1>6
<1>8. x - h = n - y /\ x - h \in Int /\ -h <= x - h /\ x - h < h
  BY ONLY <1>3, <1>7
<1> QED BY <1>2, <1>5, <1>6, <1>8

LEMMA ElapsedIs ==
  ASSUME start \in Int, NEW up \in Nat, up < Half
  PROVE  Clock!Elapsed(up) = up
<1>1. Half \in Nat \ {0}
  BY ProgramsAssumption DEF Clock!GearsClockConstants
<1>2. PICK w, h, a, b, c : /\ w = 2 * Half /\ h = Half /\ a = Clock!AsInt(start + up)
                           /\ b = Clock!AsInt(start) /\ c = Clock!AsInt(a - b)
  OBVIOUS
<1>3. w \in Nat \ {0} /\ h \in Nat \ {0} /\ w = 2 * h
  BY <1>1, <1>2
<1>4. PICK q1 \in Int : a = (start + up) - w * q1 /\ a \in Int
  <2>1. start + up \in Int
    OBVIOUS
  <2> QED BY <1>2, <2>1, AsIntIs
<1>5. PICK q2 \in Int : b = start - w * q2 /\ b \in Int
  BY <1>2, AsIntIs
<1>6. PICK q3 \in Int : c = (a - b) - w * q3 /\ c \in Int /\ -h <= c /\ c < h
  <2>1. a - b \in Int
    BY <1>4, <1>5
  <2> QED BY <1>2, <2>1, AsIntIs
<1>7. PICK q, x1, x2, x3 : /\ q = q1 - q2 + q3
                           /\ x1 = w * q1 /\ x2 = w * q2 /\ x3 = w * q3
  OBVIOUS
<1>8. q \in Int /\ w * q = x1 - x2 + x3 /\ x1 \in Int /\ x2 \in Int /\ x3 \in Int
  BY <1>3, <1>7
<1>9. c = up - (x1 - x2 + x3)
  BY <1>4, <1>5, <1>6, <1>7, <1>8
<1>10. PICK y, u : y = w * q /\ u = up
  OBVIOUS
<1>11. y \in Int /\ u \in Nat /\ u < h /\ c = u - y /\ c \in Int /\ -h <= c /\ c < h
  BY <1>2, <1>6, <1>8, <1>9, <1>10
<1>12. -w < y /\ y < w
  BY ONLY <1>3, <1>11
<1>13. q = 0
  BY <1>3, <1>8, <1>10, <1>12, NoMultiple
<1>14. y = 0
  BY <1>3, <1>10, <1>13
<1>15. c = u
  BY ONLY <1>11, <1>14
<1> QED BY <1>2, <1>10, <1>15 DEF Clock!Elapsed

(* "seconds" at 70 degrees each are "degrees", but for whole turns of ten. *)
Turned(seconds, degrees) == \E q \in Int : 70 * seconds = degrees + 3600 * q

LEMMA TurnedOn ==
  ASSUME NEW x \in Int, NEW y \in Int, NEW u \in Int, NEW v \in Int, Turned(x, y),
         v = y + 70 * (u - x) \/ v = y + 70 * (u - x) - 3600
  PROVE  Turned(u, v)
<1>1. PICK q \in Int : 70 * x = y + 3600 * q
  BY DEF Turned
<1>2. 70 * u = v + 3600 * q \/ 70 * u = v + 3600 * (q + 1)
  BY <1>1
<1>3. PICK r : r = q + 1
  OBVIOUS
<1>4. q \in Int /\ r \in Int /\ (70 * u = v + 3600 * q \/ 70 * u = v + 3600 * r)
  BY <1>2, <1>3
<1> QED BY ONLY <1>4 DEF Turned

LEMMA TurnedBy ==
  ASSUME NEW x \in Int, NEW y \in Int, Turned(x, y)
  PROVE  y % 3600 = (70 * x) % 3600
<1>1. PICK q \in Int : 70 * x = y + 3600 * q
  BY DEF Turned
<1> QED BY <1>1

(* What the timers hold after "drawn" frames.                              *)
ClockInv ==
    /\ uptime \in Nat /\ uptime <= MaxUptime /\ start \in Int
    /\ frames \in Nat /\ drawn \in Nat /\ first \in Nat /\ first <= uptime
    /\ printed \in [frames : Nat, seconds : Int] /\ printed.frames + frames = drawn
    /\ angle \in 0..3600
    /\ Turned(uptime - first, angle)
    /\ drawn = 0 =>
        tRot0 = -1 /\ tRate0 = -1 /\ uptime = 0 /\ first = 0 /\ printed.seconds = 0
    /\ drawn > 0 =>
        tRot0 = uptime /\ tRate0 \in first..uptime /\ printed.seconds = tRate0 - first

ClockKept == which = "clock" => ClockInv

LEMMA ClockBegins ==
  ASSUME Clock!Init
  PROVE  ClockInv
<1>1. /\ uptime = 0 /\ start \in Int /\ tRot0 = -1 /\ tRate0 = -1 /\ angle = 0 /\ frames = 0
      /\ first = 0 /\ drawn = 0 /\ printed = [frames |-> 0, seconds |-> 0]
      /\ MaxUptime \in Nat
  BY ProgramsAssumption DEF Clock!Init, Clock!GearsClockConstants
<1>2. Turned(uptime - first, angle)
  <2>1. 70 * (uptime - first) = angle + 3600 * 0
    BY <1>1
  <2> QED BY <2>1 DEF Turned
<1> QED BY <1>1, <1>2 DEF ClockInv

LEMMA ClockSteps ==
  ASSUME ClockInv, Clock!Idle, MaxUptime < Half, FrameTimes \subseteq 1..51
  PROVE  ClockInv'
<1>1. MaxUptime \in Nat /\ Half \in Nat
  BY ProgramsAssumption DEF Clock!GearsClockConstants
<1>2. PICK d \in 1..51 : uptime' = uptime + d
  BY DEF Clock!Idle
<1>3. /\ uptime' <= MaxUptime /\ drawn' = drawn + 1 /\ start' = start
      /\ first' = IF drawn = 0 THEN uptime' ELSE first
      /\ Clock!Rotate(Clock!Elapsed(uptime')) /\ Clock!Rate(Clock!Elapsed(uptime'))
  BY DEF Clock!Idle
<1>4. PICK u, t, a, f, g, s : /\ u = uptime /\ t = uptime' /\ a = angle /\ f = first
                              /\ g = frames /\ s = tRate0
  OBVIOUS
<1>5. /\ u \in Nat /\ d \in 1..51 /\ t = u + d /\ t \in Nat /\ a \in 0..3600 /\ f \in Nat
      /\ f <= u /\ g \in Nat
  BY <1>2, <1>4 DEF ClockInv
<1>6. Clock!Elapsed(t) = t
  <2>1. t < Half
    BY <1>1, <1>3, <1>4, <1>5
  <2> QED BY <1>5, <2>1, ElapsedIs DEF ClockInv
<1>7. Clock!Rotate(t) /\ Clock!Rate(t)
  BY <1>3, <1>4, <1>6
<1>8. tRot0' = t
  BY <1>7 DEF Clock!Rotate
<1>12. PICK turned : turned = a + 70 * (t - Clock!Since(tRot0, t))
  OBVIOUS
<1>13. angle' = IF turned > 3600 THEN turned - 3600 ELSE turned
  BY <1>4, <1>7, <1>12 DEF Clock!Rotate
<1>9. CASE drawn = 0
  <2>1. tRot0 = -1 /\ tRate0 = -1 /\ u = 0 /\ f = 0
    BY <1>4, <1>9 DEF ClockInv
  <2>2. Clock!Since(tRot0, t) = t /\ Clock!Since(tRate0, t) = t
    BY <2>1 DEF Clock!Since
  <2>3. a + 70 * (t - t) = a /\ ~(a > 3600) /\ ~(t - t >= 5)
    BY ONLY <1>5
  <2>4. angle' = a
    BY <1>12, <1>13, <2>2, <2>3
  <2>5. tRate0' = t /\ frames' = g + 1 /\ printed' = printed
    BY <1>4, <1>7, <2>2, <2>3 DEF Clock!Rate
  <2>6. Turned(u - f, a)
    BY <1>4 DEF ClockInv
  <2>7. u - f = t - t
    BY ONLY <1>5, <2>1
  <2>8. first' = t
    BY <1>3, <1>4, <1>9
  <2>9. Turned(uptime' - first', angle')
    BY <1>4, <2>4, <2>6, <2>7, <2>8
  <2>10. drawn = 0 /\ printed.frames + g = 0 /\ printed.frames \in Nat /\ printed.seconds \in Int
    BY <1>4, <1>9 DEF ClockInv
  <2>11. /\ frames' \in Nat /\ drawn' = 1 /\ printed'.frames + frames' = drawn'
         /\ tRate0' \in first'..uptime' /\ printed'.seconds = tRate0' - first'
    <3>1. PICK pf : pf = printed.frames
      OBVIOUS
    <3>2. pf \in Nat /\ pf + g = 0 /\ printed.seconds = 0
      BY <1>4, <1>9, <2>10, <3>1 DEF ClockInv
    <3>3. g + 1 \in Nat /\ pf + (g + 1) = 1 /\ t - t = 0 /\ t \in t..t
      BY ONLY <1>5, <3>2
    <3>4. drawn' = 1
      BY <1>3, <1>9
    <3> QED BY <1>4, <2>5, <2>8, <3>1, <3>2, <3>3, <3>4
  <2>12. printed' \in [frames : Nat, seconds : Int]
    BY <2>5 DEF ClockInv
  <2>13. uptime' \in Nat /\ start' \in Int /\ first' \in Nat /\ first' <= uptime'
         /\ angle' \in 0..3600 /\ tRot0' = uptime'
    BY <1>3, <1>4, <1>5, <1>8, <2>4, <2>8 DEF ClockInv
  <2>14. drawn' \in Nat /\ drawn' # 0
    BY <2>11
  <2>15. (uptime \in Nat /\ uptime <= MaxUptime /\ start \in Int)'
    BY <1>3, <2>13
  <2>16. (frames \in Nat /\ drawn \in Nat /\ first \in Nat /\ first <= uptime)'
    BY <2>11, <2>13, <2>14
  <2>17. (printed \in [frames : Nat, seconds : Int] /\ printed.frames + frames = drawn)'
    BY <2>11, <2>12
  <2>18. (angle \in 0..3600 /\ Turned(uptime - first, angle))'
    BY <2>9, <2>13
  <2>19. (drawn = 0 =>
      tRot0 = -1 /\ tRate0 = -1 /\ uptime = 0 /\ first = 0 /\ printed.seconds = 0)'
    BY <2>14
  <2>20. (drawn > 0 =>
      tRot0 = uptime /\ tRate0 \in first..uptime /\ printed.seconds = tRate0 - first)'
    BY <2>11, <2>13
  <2> QED BY <2>15, <2>16, <2>17, <2>18, <2>19, <2>20 DEF ClockInv
<1>10. CASE drawn > 0
  <2>1. /\ tRot0 = u /\ s \in f..u /\ printed.seconds = s - f
        /\ printed.frames + g = drawn /\ printed \in [frames : Nat, seconds : Int]
    BY <1>4, <1>10 DEF ClockInv
  <2>2. Clock!Since(tRot0, t) = u /\ Clock!Since(tRate0, t) = s
    BY <1>4, <1>5, <2>1 DEF Clock!Since
  <2>3. PICK b : b = angle'
    OBVIOUS
  <2>4. b = IF a + 70 * (t - u) > 3600 THEN a + 70 * (t - u) - 3600 ELSE a + 70 * (t - u)
    BY ONLY <1>5, <1>12, <1>13, <2>2, <2>3
  <2>5. b \in 0..3600 /\ (b = a + 70 * d \/ b = a + 70 * d - 3600)
    BY ONLY <1>5, <2>4
  <2>6. Turned(u - f, a)
    BY <1>4 DEF ClockInv
  <2>7. Turned(t - f, b)
    <3>1. PICK x, z : x = u - f /\ z = t - f
      OBVIOUS
    <3>2. /\ x \in Int /\ z \in Int /\ a \in Int /\ b \in Int
          /\ b = a + 70 * (z - x) \/ b = a + 70 * (z - x) - 3600
      BY ONLY <1>5, <2>5, <3>1
    <3>3. Turned(x, a)
      BY <2>6, <3>1
    <3>4. Turned(z, b)
      BY ONLY <3>2, <3>3, TurnedOn
    <3> QED BY <3>1, <3>4
  <2>8. first' = f
    BY <1>3, <1>4, <1>10
  <2>11. /\ uptime' \in Nat /\ uptime' <= MaxUptime /\ start' \in Int /\ first' \in Nat
         /\ first' <= uptime' /\ angle' \in 0..3600 /\ tRot0' = uptime'
         /\ drawn' \in Nat /\ drawn' # 0 /\ Turned(uptime' - first', angle')
    <3>1. f <= t
      BY ONLY <1>5
    <3>2. drawn' \in Nat /\ drawn' # 0
      BY <1>3, <1>10 DEF ClockInv
    <3>3. start' \in Int
      BY <1>3 DEF ClockInv
    <3> QED BY <1>3, <1>4, <1>5, <1>8, <2>3, <2>5, <2>7, <2>8, <3>1, <3>2, <3>3
  <2>9. CASE t - s >= 5
    <3>1. /\ printed' = [frames |-> printed.frames + (g + 1),
                         seconds |-> printed.seconds + (t - s)]
          /\ tRate0' = t /\ frames' = 0
      BY <1>4, <1>7, <2>2, <2>9 DEF Clock!Rate, Clock!Line
    <3>2. PICK pf, ps, dr : pf = printed.frames /\ ps = printed.seconds /\ dr = drawn
      OBVIOUS
    <3>3. pf \in Nat /\ ps \in Int /\ ps = s - f /\ pf + g = dr /\ s \in f..u
      BY <2>1, <3>2
    <3>4. pf + (g + 1) \in Nat /\ pf + (g + 1) + 0 = dr + 1 /\ ps + (t - s) = t - f
          /\ ps + (t - s) \in Int /\ t \in f..t /\ dr + 1 \in Nat /\ f <= t
      BY ONLY <1>5, <3>3
    <3>5. /\ printed' \in [frames : Nat, seconds : Int] /\ printed'.frames + frames' = drawn'
          /\ printed'.seconds = tRate0' - first'
      BY <1>3, <2>8, <3>1, <3>2, <3>4
    <3>6. tRate0' \in first'..uptime' /\ frames' \in Nat
      BY <1>4, <2>8, <3>1, <3>4
    <3>7. (uptime \in Nat /\ uptime <= MaxUptime /\ start \in Int)'
      BY <2>11
    <3>8. (frames \in Nat /\ drawn \in Nat /\ first \in Nat /\ first <= uptime)'
      BY <2>11, <3>6
    <3>9. (printed \in [frames : Nat, seconds : Int] /\ printed.frames + frames = drawn)'
      BY <3>5
    <3>10. (angle \in 0..3600 /\ Turned(uptime - first, angle))'
      BY <2>11
    <3>11. (drawn = 0 =>
        tRot0 = -1 /\ tRate0 = -1 /\ uptime = 0 /\ first = 0 /\ printed.seconds = 0)'
      BY <2>11
    <3>12. (drawn > 0 =>
        tRot0 = uptime /\ tRate0 \in first..uptime /\ printed.seconds = tRate0 - first)'
      BY <2>11, <3>5, <3>6
    <3> QED BY <3>7, <3>8, <3>9, <3>10, <3>11, <3>12 DEF ClockInv
  <2>10. CASE ~(t - s >= 5)
    <3>1. printed' = printed /\ tRate0' = s /\ frames' = g + 1
      BY <1>4, <1>7, <2>2, <2>10 DEF Clock!Rate
    <3>2. PICK pf, dr : pf = printed.frames /\ dr = drawn
      OBVIOUS
    <3>3. pf \in Nat /\ pf + g = dr /\ s \in f..u
      BY <2>1, <3>2
    <3>4. pf + (g + 1) = dr + 1 /\ s \in f..t /\ dr + 1 \in Nat /\ f <= t
      BY ONLY <1>5, <3>3
    <3>5. tRate0' \in first'..uptime' /\ frames' \in Nat /\ printed'.frames + frames' = drawn'
      BY <1>3, <1>4, <1>5, <2>8, <3>1, <3>2, <3>4
    <3>6. printed'.seconds = tRate0' - first' /\ printed' \in [frames : Nat, seconds : Int]
      BY <2>1, <2>8, <3>1
    <3>7. (uptime \in Nat /\ uptime <= MaxUptime /\ start \in Int)'
      BY <2>11
    <3>8. (frames \in Nat /\ drawn \in Nat /\ first \in Nat /\ first <= uptime)'
      BY <2>11, <3>5
    <3>9. (printed \in [frames : Nat, seconds : Int] /\ printed.frames + frames = drawn)'
      BY <3>5, <3>6
    <3>10. (angle \in 0..3600 /\ Turned(uptime - first, angle))'
      BY <2>11
    <3>11. (drawn = 0 =>
        tRot0 = -1 /\ tRate0 = -1 /\ uptime = 0 /\ first = 0 /\ printed.seconds = 0)'
      BY <2>11
    <3>12. (drawn > 0 =>
        tRot0 = uptime /\ tRate0 \in first..uptime /\ printed.seconds = tRate0 - first)'
      BY <2>11, <3>5, <3>6
    <3> QED BY <3>7, <3>8, <3>9, <3>10, <3>11, <3>12 DEF ClockInv
  <2> QED BY <2>9, <2>10
<1>11. drawn = 0 \/ drawn > 0
  BY DEF ClockInv
<1> QED BY <1>9, <1>10, <1>11

LEMMA ClockHolds ==
  ASSUME ClockInv, MaxUptime < Half
  PROVE  Clock!TimeKept
<1>1. MaxUptime \in Nat /\ Half \in Nat
  BY ProgramsAssumption DEF Clock!GearsClockConstants
<1>2. PICK u, a, f : u = uptime /\ a = angle /\ f = first
  OBVIOUS
<1>3. u \in Nat /\ a \in 0..3600 /\ f \in Nat /\ f <= u /\ u <= MaxUptime
  BY <1>2 DEF ClockInv
<1>4. Turned(u - f, a)
  BY <1>2 DEF ClockInv
<1>5. a % 3600 = (70 * (u - f)) % 3600
  <2>1. PICK x \in Int, y \in Int : x = u - f /\ y = a
    <3>1. u - f \in Int /\ a \in Int
      BY ONLY <1>3
    <3> QED BY <3>1
  <2>2. Turned(x, y)
    BY <1>4, <2>1
  <2>3. y % 3600 = (70 * x) % 3600
    BY ONLY <2>2, TurnedBy
  <2> QED BY <2>1, <2>3
<1>6. f < Half
  BY <1>1, <1>3
<1>7. Clock!Elapsed(first) = first
  BY <1>2, <1>3, <1>6, ElapsedIs DEF ClockInv
<1>8. Clock!TurnsAtRate
  BY <1>2, <1>5 DEF Clock!TurnsAtRate
<1>9. Clock!AngleBounded
  BY DEF ClockInv, Clock!AngleBounded
<1>10. Clock!LinesAddUp
  BY <1>7 DEF ClockInv, Clock!LinesAddUp
<1> QED BY <1>8, <1>9, <1>10 DEF Clock!TimeKept

(* The clock of gles2gears, for every count it starts from, as long as the *)
(* program runs for less time than an int holds and no frame takes more    *)
(* than the 51 seconds in which the gears turn by 3570 degrees: the gears  *)
(* turn at their rate, the angle stays small and the lines printed add up, *)
(* wherever in the run the count of milliseconds wraps.                    *)
THEOREM TimeIsKept ==
  ASSUME MaxUptime < Half, FrameTimes \subseteq 1..51
  PROVE  Spec => []TimeKept
<1>1. Init => ClockKept
  BY ClockBegins DEF Init, ClockKept
<1>2. ClockKept /\ [Next]_vars => ClockKept'
  <2> SUFFICES ASSUME ClockKept, [Next]_vars, which' = "clock" PROVE ClockInv'
    BY DEF ClockKept
  <2>1. CASE UNCHANGED vars
    <3>1. /\ which' = which /\ uptime' = uptime /\ start' = start /\ tRot0' = tRot0
          /\ tRate0' = tRate0 /\ angle' = angle /\ frames' = frames /\ first' = first
          /\ drawn' = drawn /\ printed' = printed
      BY <2>1 DEF vars, shared, clockOnly
    <3> QED BY <3>1 DEF ClockKept, ClockInv
  <2>2. CASE Next
    <3>1. which = "clock" /\ Clock!Idle
      BY <2>2 DEF Next
    <3> QED BY <3>1, ClockSteps DEF ClockKept
  <2> QED BY <2>1, <2>2
<1>3. ClockKept => TimeKept
  BY ClockHolds DEF ClockKept, TimeKept
<1> QED BY <1>1, <1>2, <1>3, PTL DEF Spec

-----------------------------------------------------------------------------
(***************************************************************************)
(* The matrices of gles2gears: points with whole coordinates.              *)
(***************************************************************************)
Matrix == [0..15 -> Int]
Point == Int \X Int \X Int

(* A point and its fourth coordinate.                                      *)
Hom(p, w) == <<p[1], p[2], p[3], w>>

(* A point by its coordinates.                                             *)
LEMMA PointIs ==
  ASSUME NEW p \in Point
  PROVE  \E a \in Int, b \in Int, c \in Int : p = <<a, b, c>> /\ \A w : Hom(p, w) = <<a, b, c, w>>
<1>1. PICK a, b, c : a = p[1] /\ b = p[2] /\ c = p[3]
  OBVIOUS
<1>2. a \in Int /\ b \in Int /\ c \in Int /\ p = <<a, b, c>>
  BY <1>1 DEF Point
<1>3. \A w : Hom(p, w) = <<a, b, c, w>>
  BY <1>1 DEF Hom
<1> QED BY <1>2, <1>3

(* A matrix on a point, written out.                                       *)
LEMMA ApplyIs ==
  ASSUME NEW m \in Matrix, NEW a \in Int, NEW b \in Int, NEW c \in Int, NEW w \in Int
  PROVE  /\ Draw!Apply(m, <<a, b, c, w>>) =
              << m[0] * a + m[4] * b + m[8] * c + m[12] * w,
                 m[1] * a + m[5] * b + m[9] * c + m[13] * w,
                 m[2] * a + m[6] * b + m[10] * c + m[14] * w,
                 m[3] * a + m[7] * b + m[11] * c + m[15] * w >>
BY DEF Draw!Apply, Matrix

(* A product of matrices, entry by entry.                                  *)
LEMMA MultiplyIs ==
  ASSUME NEW m \in Matrix, NEW n \in Matrix
  PROVE  /\ Draw!Multiply(m, n) \in Matrix
         /\ \A j \in 0..3, k \in 0..3 :
              Draw!Multiply(m, n)[4 * j + k] =
                n[4 * j] * m[k] + n[4 * j + 1] * m[k + 4] + n[4 * j + 2] * m[k + 8]
                  + n[4 * j + 3] * m[k + 12]
<1> DEFINE e(q, k) == n[4 * q] * m[k] + n[4 * q + 1] * m[k + 4] + n[4 * q + 2] * m[k + 8]
                        + n[4 * q + 3] * m[k + 12]
<1>1. Draw!Multiply(m, n) = [d \in 0..15 |-> e(d \div 4, d % 4)]
  BY DEF Draw!Multiply
<1>2. \A q \in 0..3, k \in 0..3 : e(q, k) \in Int
  <2> SUFFICES ASSUME NEW q \in 0..3, NEW k \in 0..3 PROVE e(q, k) \in Int
    OBVIOUS
  <2>1. /\ 4 * q \in 0..15 /\ 4 * q + 1 \in 0..15 /\ 4 * q + 2 \in 0..15 /\ 4 * q + 3 \in 0..15
        /\ k \in 0..15 /\ k + 4 \in 0..15 /\ k + 8 \in 0..15 /\ k + 12 \in 0..15
    OBVIOUS
  <2>2. /\ n[4 * q] \in Int /\ n[4 * q + 1] \in Int /\ n[4 * q + 2] \in Int
        /\ n[4 * q + 3] \in Int
        /\ m[k] \in Int /\ m[k + 4] \in Int /\ m[k + 8] \in Int /\ m[k + 12] \in Int
    BY <2>1 DEF Matrix
  <2> QED BY <2>2
<1>3. \A d \in 0..15 : d \div 4 \in 0..3 /\ d % 4 \in 0..3
  OBVIOUS
<1>4. \A j \in 0..3, k \in 0..3 :
         4 * j + k \in 0..15 /\ (4 * j + k) \div 4 = j /\ (4 * j + k) % 4 = k
  OBVIOUS
<1> HIDE DEF e
<1>5. Draw!Multiply(m, n) \in Matrix
  BY <1>1, <1>2, <1>3 DEF Matrix
<1>6. \A j \in 0..3, k \in 0..3 : Draw!Multiply(m, n)[4 * j + k] = e(j, k)
  BY <1>1, <1>4
<1> QED BY <1>5, <1>6 DEF e

(* A product moves a point as its second matrix and then as its first.     *)
LEMMA MultiplyMoves ==
  ASSUME NEW m \in Matrix, NEW n \in Matrix, NEW p \in Point, NEW w \in Int,
         NEW s \in Point, Draw!Apply(n, Hom(p, w)) = Hom(s, w)
  PROVE  Draw!Apply(Draw!Multiply(m, n), Hom(p, w)) = Draw!Apply(m, Hom(s, w))
<1>a. PICK a \in Int, b \in Int, c \in Int : p = <<a, b, c>> /\ Hom(p, w) = <<a, b, c, w>>
  BY PointIs
<1>b. PICK x \in Int, y \in Int, z \in Int : s = <<x, y, z>> /\ Hom(s, w) = <<x, y, z, w>>
  BY PointIs
<1>c. PICK v \in Int : v = w
  OBVIOUS
<1>d. Draw!Apply(n, <<a, b, c, w>>) = <<x, y, z, v>>
  BY <1>a, <1>b, <1>c
<1> DEFINE t == Draw!Multiply(m, n)
<1>1. t \in Matrix /\ \A j \in 0..3, k \in 0..3 : t[4 * j + k] =
                n[4 * j] * m[k] + n[4 * j + 1] * m[k + 4] + n[4 * j + 2] * m[k + 8]
                  + n[4 * j + 3] * m[k + 12]
  BY MultiplyIs
<1> HIDE DEF t
<1>2. /\ x = n[0] * a + n[4] * b + n[8] * c + n[12] * w
      /\ y = n[1] * a + n[5] * b + n[9] * c + n[13] * w
      /\ z = n[2] * a + n[6] * b + n[10] * c + n[14] * w
      /\ v = n[3] * a + n[7] * b + n[11] * c + n[15] * w
  <2>1. Draw!Apply(n, <<a, b, c, w>>) =
              << n[0] * a + n[4] * b + n[8] * c + n[12] * w,
                 n[1] * a + n[5] * b + n[9] * c + n[13] * w,
                 n[2] * a + n[6] * b + n[10] * c + n[14] * w,
                 n[3] * a + n[7] * b + n[11] * c + n[15] * w >>
    BY ONLY ApplyIs, n \in Matrix, a \in Int, b \in Int, c \in Int, w \in Int
  <2> QED BY <1>d, <2>1
<1>3. \A k \in 0..15 : n[k] \in Int /\ m[k] \in Int
  BY DEF Matrix
<1>9. PICK n0, n1, n2, n3, n4, n5, n6, n7, n8, n9, n10, n11, n12, n13, n14, n15 :
        /\ n0 = n[0] /\ n1 = n[1] /\ n2 = n[2] /\ n3 = n[3]
        /\ n4 = n[4] /\ n5 = n[5] /\ n6 = n[6] /\ n7 = n[7]
        /\ n8 = n[8] /\ n9 = n[9] /\ n10 = n[10] /\ n11 = n[11]
        /\ n12 = n[12] /\ n13 = n[13] /\ n14 = n[14] /\ n15 = n[15]
  OBVIOUS
<1>10. /\ n0 \in Int /\ n1 \in Int /\ n2 \in Int /\ n3 \in Int
       /\ n4 \in Int /\ n5 \in Int /\ n6 \in Int /\ n7 \in Int
       /\ n8 \in Int /\ n9 \in Int /\ n10 \in Int /\ n11 \in Int
       /\ n12 \in Int /\ n13 \in Int /\ n14 \in Int /\ n15 \in Int
  BY <1>9 DEF Matrix
<1>4. ASSUME NEW k \in 0..3
      PROVE  t[k] * a + t[4 + k] * b + t[8 + k] * c + t[12 + k] * w
             = m[k] * x + m[k + 4] * y + m[k + 8] * z + m[k + 12] * v
  <2>1. /\ t[k] = n[0] * m[k] + n[1] * m[k + 4] + n[2] * m[k + 8] + n[3] * m[k + 12]
        /\ t[4 + k] = n[4] * m[k] + n[5] * m[k + 4] + n[6] * m[k + 8] + n[7] * m[k + 12]
        /\ t[8 + k] = n[8] * m[k] + n[9] * m[k + 4] + n[10] * m[k + 8] + n[11] * m[k + 12]
        /\ t[12 + k] = n[12] * m[k] + n[13] * m[k + 4] + n[14] * m[k + 8] + n[15] * m[k + 12]
    <3>1. \A j \in 0..3 : t[4 * j + k] =
                n[4 * j] * m[k] + n[4 * j + 1] * m[k + 4] + n[4 * j + 2] * m[k + 8]
                  + n[4 * j + 3] * m[k + 12]
      BY <1>1
    <3>2. 4 * 0 + k = k /\ 4 * 1 + k = 4 + k /\ 4 * 2 + k = 8 + k /\ 4 * 3 + k = 12 + k
      OBVIOUS
    <3>3. 0 \in 0..3 /\ 1 \in 0..3 /\ 2 \in 0..3 /\ 3 \in 0..3
      OBVIOUS
    <3> QED BY <3>1, <3>2, <3>3
  <2>2. m[k] \in Int /\ m[k + 4] \in Int /\ m[k + 8] \in Int /\ m[k + 12] \in Int
    BY <1>3
  <2>3. PICK m0 \in Int, m1 \in Int, m2 \in Int, m3 \in Int :
            m0 = m[k] /\ m1 = m[k + 4] /\ m2 = m[k + 8] /\ m3 = m[k + 12]
    BY <2>2
  <2>4. (n0 * m0 + n1 * m1 + n2 * m2 + n3 * m3) * a
           + (n4 * m0 + n5 * m1 + n6 * m2 + n7 * m3) * b
           + (n8 * m0 + n9 * m1 + n10 * m2 + n11 * m3) * c
           + (n12 * m0 + n13 * m1 + n14 * m2 + n15 * m3) * w
         = m0 * (n0 * a + n4 * b + n8 * c + n12 * w)
           + m1 * (n1 * a + n5 * b + n9 * c + n13 * w)
           + m2 * (n2 * a + n6 * b + n10 * c + n14 * w)
           + m3 * (n3 * a + n7 * b + n11 * c + n15 * w)
    BY ONLY <1>10, a \in Int, b \in Int, c \in Int, w \in Int,
            m0 \in Int, m1 \in Int, m2 \in Int, m3 \in Int
  <2> QED BY <1>2, <1>9, <2>1, <2>3, <2>4
<1>8. t \in Matrix
  BY <1>1
<1>5. Draw!Apply(t, <<a, b, c, w>>) =
              << t[0] * a + t[4] * b + t[8] * c + t[12] * w,
                 t[1] * a + t[5] * b + t[9] * c + t[13] * w,
                 t[2] * a + t[6] * b + t[10] * c + t[14] * w,
                 t[3] * a + t[7] * b + t[11] * c + t[15] * w >>
  BY ONLY <1>8, ApplyIs, a \in Int, b \in Int, c \in Int, w \in Int
<1>6. Draw!Apply(m, <<x, y, z, v>>) =
              << m[0] * x + m[4] * y + m[8] * z + m[12] * v,
                 m[1] * x + m[5] * y + m[9] * z + m[13] * v,
                 m[2] * x + m[6] * y + m[10] * z + m[14] * v,
                 m[3] * x + m[7] * y + m[11] * z + m[15] * v >>
  BY ONLY ApplyIs, m \in Matrix, x \in Int, y \in Int, z \in Int, v \in Int
<1>7. /\ t[0] * a + t[4] * b + t[8] * c + t[12] * w = m[0] * x + m[4] * y + m[8] * z + m[12] * v
      /\ t[1] * a + t[5] * b + t[9] * c + t[13] * w = m[1] * x + m[5] * y + m[9] * z + m[13] * v
      /\ t[2] * a + t[6] * b + t[10] * c + t[14] * w
         = m[2] * x + m[6] * y + m[10] * z + m[14] * v
      /\ t[3] * a + t[7] * b + t[11] * c + t[15] * w
         = m[3] * x + m[7] * y + m[11] * z + m[15] * v
  <2>1. 0 \in 0..3 /\ 1 \in 0..3 /\ 2 \in 0..3 /\ 3 \in 0..3
    OBVIOUS
  <2> QED BY <1>4, <2>1
<1> QED BY <1>a, <1>b, <1>c, <1>5, <1>6, <1>7 DEF t


(* The matrix rotate multiplies by.                                        *)
About(q, x, y, z) ==
    LET s == Sin[q]
        c == Cos[q]
        r == << x * x * (1 - c) + c,     y * x * (1 - c) + z * s, x * z * (1 - c) - y * s, 0,
                x * y * (1 - c) - z * s, y * y * (1 - c) + c,     y * z * (1 - c) + x * s, 0,
                x * z * (1 - c) + y * s, y * z * (1 - c) - x * s, z * z * (1 - c) + c,     0,
                0, 0, 0, 1 >>
    IN [d \in 0..15 |-> r[d + 1]]

LEMMA RotateIs ==
  ASSUME NEW m, NEW q, NEW x, NEW y, NEW z
  PROVE  Draw!Rotate(m, q, x, y, z) = Draw!Multiply(m, About(q, x, y, z))
BY DEF Draw!Rotate, About

(* The angles, and what sincos gives for them.                             *)
LEMMA SinesAre ==
  /\ FullTurn \in Nat \ {0} /\ Draw!Angles = 0..(FullTurn - 1)
  /\ Turns \subseteq Draw!Angles
  /\ \A q \in Draw!Angles : Sin[q] \in Int /\ Cos[q] \in Int
BY ProgramsAssumption DEF Draw!GearsDrawConstants, Draw!Angles

(* Its entries: on the diagonal, and above and below it.                   *)
Diag(x, c) == x * x * (1 - c) + c
Up(x, y, z, s, c) == x * y * (1 - c) + z * s
Down(x, y, z, s, c) == x * y * (1 - c) - z * s

LEMMA AboutIs ==
  ASSUME NEW q \in Draw!Angles, NEW x \in 0..1, NEW y \in 0..1, NEW z \in 0..1
  PROVE  /\ About(q, x, y, z) \in Matrix
         /\ About(q, x, y, z)[0] = Diag(x, Cos[q])
         /\ About(q, x, y, z)[1] = Up(y, x, z, Sin[q], Cos[q])
         /\ About(q, x, y, z)[2] = Down(x, z, y, Sin[q], Cos[q])
         /\ About(q, x, y, z)[3] = 0
         /\ About(q, x, y, z)[4] = Down(x, y, z, Sin[q], Cos[q])
         /\ About(q, x, y, z)[5] = Diag(y, Cos[q])
         /\ About(q, x, y, z)[6] = Up(y, z, x, Sin[q], Cos[q])
         /\ About(q, x, y, z)[7] = 0
         /\ About(q, x, y, z)[8] = Up(x, z, y, Sin[q], Cos[q])
         /\ About(q, x, y, z)[9] = Down(y, z, x, Sin[q], Cos[q])
         /\ About(q, x, y, z)[10] = Diag(z, Cos[q])
         /\ About(q, x, y, z)[11] = 0 /\ About(q, x, y, z)[12] = 0
         /\ About(q, x, y, z)[13] = 0 /\ About(q, x, y, z)[14] = 0
         /\ About(q, x, y, z)[15] = 1
<1>s. PICK s, c : s = Sin[q] /\ c = Cos[q]
  OBVIOUS
<1>i. s \in Int /\ c \in Int
  BY <1>s, SinesAre
<1> DEFINE r == << Diag(x, c),          Up(y, x, z, s, c),   Down(x, z, y, s, c), 0,
                Down(x, y, z, s, c), Diag(y, c),          Up(y, z, x, s, c),   0,
                Up(x, z, y, s, c),   Down(y, z, x, s, c), Diag(z, c),          0,
                0, 0, 0, 1 >>
<1>1. About(q, x, y, z) = [d \in 0..15 |-> r[d + 1]]
  BY <1>s DEF About, Diag, Up, Down
<1>2. \A d \in 1..16 : r[d] \in Int
  <2>1. \A u \in 0..1 : Diag(u, c) \in Int
    BY <1>i DEF Diag
  <2>2. \A u, v, w \in 0..1 : Up(u, v, w, s, c) \in Int /\ Down(u, v, w, s, c) \in Int
    BY <1>i DEF Up, Down
  <2> QED BY <2>1, <2>2
<1>3. /\ r[1] = Diag(x, c) /\ r[2] = Up(y, x, z, s, c)
      /\ r[3] = Down(x, z, y, s, c) /\ r[4] = 0
      /\ r[5] = Down(x, y, z, s, c) /\ r[6] = Diag(y, c)
      /\ r[7] = Up(y, z, x, s, c) /\ r[8] = 0
      /\ r[9] = Up(x, z, y, s, c) /\ r[10] = Down(y, z, x, s, c)
      /\ r[11] = Diag(z, c) /\ r[12] = 0
      /\ r[13] = 0 /\ r[14] = 0 /\ r[15] = 0 /\ r[16] = 1
  OBVIOUS
<1> HIDE DEF r
<1>4. \A d \in 0..15 : r[d + 1] \in Int
  <2>1. \A d \in 0..15 : d + 1 \in 1..16
    OBVIOUS
  <2> QED BY <1>2, <2>1
<1>5. About(q, x, y, z) \in Matrix
  BY <1>1, <1>4 DEF Matrix
<1>6. \A d \in 0..15 : About(q, x, y, z)[d] = r[d + 1]
  BY <1>1
<1>7. /\ About(q, x, y, z)[0] = r[1] /\ About(q, x, y, z)[1] = r[2]
      /\ About(q, x, y, z)[2] = r[3] /\ About(q, x, y, z)[3] = r[4]
      /\ About(q, x, y, z)[4] = r[5] /\ About(q, x, y, z)[5] = r[6]
      /\ About(q, x, y, z)[6] = r[7] /\ About(q, x, y, z)[7] = r[8]
      /\ About(q, x, y, z)[8] = r[9] /\ About(q, x, y, z)[9] = r[10]
      /\ About(q, x, y, z)[10] = r[11] /\ About(q, x, y, z)[11] = r[12]
      /\ About(q, x, y, z)[12] = r[13] /\ About(q, x, y, z)[13] = r[14]
      /\ About(q, x, y, z)[14] = r[15] /\ About(q, x, y, z)[15] = r[16]
  BY <1>6
<1> QED BY <1>s, <1>3, <1>5, <1>7

(* A turn about each axis, by coordinates.                                 *)
LEMMA TurnedIs ==
  ASSUME NEW q, NEW s, NEW k, s = Sin[q], k = Cos[q], NEW a, NEW b, NEW c
  PROVE  /\ Draw!Turned("x", q, <<a, b, c>>) = <<a, k * b - s * c, s * b + k * c>>
         /\ Draw!Turned("y", q, <<a, b, c>>) = <<k * a + s * c, b, k * c - s * a>>
         /\ Draw!Turned("z", q, <<a, b, c>>) = <<k * a - s * b, s * a + k * b, c>>
<1>1. Draw!Turned("x", q, <<a, b, c>>) = <<a, k * b - s * c, s * b + k * c>>
  BY DEF Draw!Turned
<1>2. Draw!Turned("y", q, <<a, b, c>>) = <<k * a + s * c, b, k * c - s * a>>
  BY DEF Draw!Turned
<1>3. Draw!Turned("z", q, <<a, b, c>>) = <<k * a - s * b, s * a + k * b, c>>
  BY DEF Draw!Turned
<1> QED BY <1>1, <1>2, <1>3

(* A rotation about an axis takes every point where geometry does and      *)
(* leaves the fourth coordinate.                                           *)
LEMMA AboutX ==
  ASSUME NEW q \in Draw!Angles, NEW p \in Point
  PROVE  /\ About(q, 1, 0, 0) \in Matrix
         /\ Draw!Turned("x", q, p) \in Point
         /\ \A w \in Int : Draw!Apply(About(q, 1, 0, 0), Hom(p, w)) = Hom(Draw!Turned("x", q, p), w)
<1>a. PICK a \in Int, b \in Int, c \in Int : p = <<a, b, c>> /\ \A w : Hom(p, w) = <<a, b, c, w>>
  BY PointIs
<1> DEFINE m == About(q, 1, 0, 0)
<1>1. PICK s, k : s = Sin[q] /\ k = Cos[q]
  OBVIOUS
<1>3. s \in Int /\ k \in Int
  BY <1>1, SinesAre
<1>4. m \in Matrix
  BY AboutIs
<1>5. /\ m[0] = 1 /\ m[1] = 0 /\ m[2] = 0 /\ m[3] = 0
      /\ m[4] = 0 /\ m[5] = k /\ m[6] = s /\ m[7] = 0
      /\ m[8] = 0 /\ m[9] = -s /\ m[10] = k /\ m[11] = 0
      /\ m[12] = 0 /\ m[13] = 0 /\ m[14] = 0 /\ m[15] = 1
  <2>1. /\ m[0] = Diag(1, k) /\ m[1] = Up(0, 1, 0, s, k)
        /\ m[2] = Down(1, 0, 0, s, k) /\ m[4] = Down(1, 0, 0, s, k)
        /\ m[5] = Diag(0, k) /\ m[6] = Up(0, 0, 1, s, k)
        /\ m[8] = Up(1, 0, 0, s, k) /\ m[9] = Down(0, 0, 1, s, k)
        /\ m[10] = Diag(0, k) /\ m[3] = 0
        /\ m[7] = 0 /\ m[11] = 0
        /\ m[12] = 0 /\ m[13] = 0
        /\ m[14] = 0 /\ m[15] = 1
    BY ONLY q \in Draw!Angles, 0 \in 0..1, 1 \in 0..1, <1>1, AboutIs
  <2> HIDE DEF m
  <2>2. /\ Diag(1, k) = 1 /\ Up(0, 1, 0, s, k) = 0
        /\ Down(1, 0, 0, s, k) = 0 /\ Diag(0, k) = k
        /\ Up(0, 0, 1, s, k) = s /\ Up(1, 0, 0, s, k) = 0
        /\ Down(0, 0, 1, s, k) = -s
    BY ONLY <1>3 DEF Diag, Up, Down
  <2> QED BY ONLY <2>1, <2>2
<1> HIDE DEF m
<1>6. ASSUME NEW w \in Int
      PROVE  Draw!Apply(m, <<a, b, c, w>>) = <<a, k * b - s * c, s * b + k * c, w>>
  <2>1. Draw!Apply(m, <<a, b, c, w>>) =
              << m[0] * a + m[4] * b + m[8] * c + m[12] * w,
                 m[1] * a + m[5] * b + m[9] * c + m[13] * w,
                 m[2] * a + m[6] * b + m[10] * c + m[14] * w,
                 m[3] * a + m[7] * b + m[11] * c + m[15] * w >>
    BY ONLY <1>4, ApplyIs, a \in Int, b \in Int, c \in Int, w \in Int
  <2>2. /\ 1 * a + 0 * b + 0 * c + 0 * w = a
        /\ 0 * a + k * b + (-s) * c + 0 * w = k * b - s * c
        /\ 0 * a + s * b + k * c + 0 * w = s * b + k * c
        /\ 0 * a + 0 * b + 0 * c + 1 * w = w
    BY ONLY <1>3, a \in Int, b \in Int, c \in Int, w \in Int
  <2> QED BY ONLY <1>5, <2>1, <2>2
<1>7. Draw!Turned("x", q, <<a, b, c>>) = <<a, k * b - s * c, s * b + k * c>>
  BY ONLY <1>1, TurnedIs
<1>8. k * b - s * c \in Int /\ s * b + k * c \in Int
  BY <1>3
<1>9. Draw!Turned("x", q, p) = <<a, k * b - s * c, s * b + k * c>>
  BY <1>a, <1>7
<1>10. Draw!Turned("x", q, p) \in Point
  BY <1>8, <1>9 DEF Point
<1>11. \A w \in Int : Hom(Draw!Turned("x", q, p), w) = <<a, k * b - s * c, s * b + k * c, w>>
  BY <1>8, <1>9 DEF Hom
<1>12. \A w \in Int : Draw!Apply(m, Hom(p, w)) = Hom(Draw!Turned("x", q, p), w)
  BY <1>a, <1>6, <1>11
<1> QED BY <1>4, <1>10, <1>12 DEF m

LEMMA AboutY ==
  ASSUME NEW q \in Draw!Angles, NEW p \in Point
  PROVE  /\ About(q, 0, 1, 0) \in Matrix
         /\ Draw!Turned("y", q, p) \in Point
         /\ \A w \in Int : Draw!Apply(About(q, 0, 1, 0), Hom(p, w)) = Hom(Draw!Turned("y", q, p), w)
<1>a. PICK a \in Int, b \in Int, c \in Int : p = <<a, b, c>> /\ \A w : Hom(p, w) = <<a, b, c, w>>
  BY PointIs
<1> DEFINE m == About(q, 0, 1, 0)
<1>1. PICK s, k : s = Sin[q] /\ k = Cos[q]
  OBVIOUS
<1>3. s \in Int /\ k \in Int
  BY <1>1, SinesAre
<1>4. m \in Matrix
  BY AboutIs
<1>5. /\ m[0] = k /\ m[1] = 0 /\ m[2] = -s /\ m[3] = 0
      /\ m[4] = 0 /\ m[5] = 1 /\ m[6] = 0 /\ m[7] = 0
      /\ m[8] = s /\ m[9] = 0 /\ m[10] = k /\ m[11] = 0
      /\ m[12] = 0 /\ m[13] = 0 /\ m[14] = 0 /\ m[15] = 1
  <2>1. /\ m[0] = Diag(0, k) /\ m[1] = Up(1, 0, 0, s, k)
        /\ m[2] = Down(0, 0, 1, s, k) /\ m[4] = Down(0, 1, 0, s, k)
        /\ m[5] = Diag(1, k) /\ m[6] = Up(1, 0, 0, s, k)
        /\ m[8] = Up(0, 0, 1, s, k) /\ m[9] = Down(1, 0, 0, s, k)
        /\ m[10] = Diag(0, k) /\ m[3] = 0
        /\ m[7] = 0 /\ m[11] = 0
        /\ m[12] = 0 /\ m[13] = 0
        /\ m[14] = 0 /\ m[15] = 1
    BY ONLY q \in Draw!Angles, 0 \in 0..1, 1 \in 0..1, <1>1, AboutIs
  <2> HIDE DEF m
  <2>2. /\ Diag(0, k) = k /\ Up(1, 0, 0, s, k) = 0
        /\ Down(0, 0, 1, s, k) = -s /\ Down(0, 1, 0, s, k) = 0
        /\ Diag(1, k) = 1 /\ Up(0, 0, 1, s, k) = s
        /\ Down(1, 0, 0, s, k) = 0
    BY ONLY <1>3 DEF Diag, Up, Down
  <2> QED BY ONLY <2>1, <2>2
<1> HIDE DEF m
<1>6. ASSUME NEW w \in Int
      PROVE  Draw!Apply(m, <<a, b, c, w>>) = <<k * a + s * c, b, k * c - s * a, w>>
  <2>1. Draw!Apply(m, <<a, b, c, w>>) =
              << m[0] * a + m[4] * b + m[8] * c + m[12] * w,
                 m[1] * a + m[5] * b + m[9] * c + m[13] * w,
                 m[2] * a + m[6] * b + m[10] * c + m[14] * w,
                 m[3] * a + m[7] * b + m[11] * c + m[15] * w >>
    BY ONLY <1>4, ApplyIs, a \in Int, b \in Int, c \in Int, w \in Int
  <2>2. /\ k * a + 0 * b + s * c + 0 * w = k * a + s * c
        /\ 0 * a + 1 * b + 0 * c + 0 * w = b
        /\ (-s) * a + 0 * b + k * c + 0 * w = k * c - s * a
        /\ 0 * a + 0 * b + 0 * c + 1 * w = w
    BY ONLY <1>3, a \in Int, b \in Int, c \in Int, w \in Int
  <2> QED BY ONLY <1>5, <2>1, <2>2
<1>7. Draw!Turned("y", q, <<a, b, c>>) = <<k * a + s * c, b, k * c - s * a>>
  BY ONLY <1>1, TurnedIs
<1>8. k * a + s * c \in Int /\ k * c - s * a \in Int
  BY <1>3
<1>9. Draw!Turned("y", q, p) = <<k * a + s * c, b, k * c - s * a>>
  BY <1>a, <1>7
<1>10. Draw!Turned("y", q, p) \in Point
  BY <1>8, <1>9 DEF Point
<1>11. \A w \in Int : Hom(Draw!Turned("y", q, p), w) = <<k * a + s * c, b, k * c - s * a, w>>
  BY <1>8, <1>9 DEF Hom
<1>12. \A w \in Int : Draw!Apply(m, Hom(p, w)) = Hom(Draw!Turned("y", q, p), w)
  BY <1>a, <1>6, <1>11
<1> QED BY <1>4, <1>10, <1>12 DEF m

LEMMA AboutZ ==
  ASSUME NEW q \in Draw!Angles, NEW p \in Point
  PROVE  /\ About(q, 0, 0, 1) \in Matrix
         /\ Draw!Turned("z", q, p) \in Point
         /\ \A w \in Int : Draw!Apply(About(q, 0, 0, 1), Hom(p, w)) = Hom(Draw!Turned("z", q, p), w)
<1>a. PICK a \in Int, b \in Int, c \in Int : p = <<a, b, c>> /\ \A w : Hom(p, w) = <<a, b, c, w>>
  BY PointIs
<1> DEFINE m == About(q, 0, 0, 1)
<1>1. PICK s, k : s = Sin[q] /\ k = Cos[q]
  OBVIOUS
<1>3. s \in Int /\ k \in Int
  BY <1>1, SinesAre
<1>4. m \in Matrix
  BY AboutIs
<1>5. /\ m[0] = k /\ m[1] = s /\ m[2] = 0 /\ m[3] = 0
      /\ m[4] = -s /\ m[5] = k /\ m[6] = 0 /\ m[7] = 0
      /\ m[8] = 0 /\ m[9] = 0 /\ m[10] = 1 /\ m[11] = 0
      /\ m[12] = 0 /\ m[13] = 0 /\ m[14] = 0 /\ m[15] = 1
  <2>1. /\ m[0] = Diag(0, k) /\ m[1] = Up(0, 0, 1, s, k)
        /\ m[2] = Down(0, 1, 0, s, k) /\ m[4] = Down(0, 0, 1, s, k)
        /\ m[5] = Diag(0, k) /\ m[6] = Up(0, 1, 0, s, k)
        /\ m[8] = Up(0, 1, 0, s, k) /\ m[9] = Down(0, 1, 0, s, k)
        /\ m[10] = Diag(1, k) /\ m[3] = 0
        /\ m[7] = 0 /\ m[11] = 0
        /\ m[12] = 0 /\ m[13] = 0
        /\ m[14] = 0 /\ m[15] = 1
    BY ONLY q \in Draw!Angles, 0 \in 0..1, 1 \in 0..1, <1>1, AboutIs
  <2> HIDE DEF m
  <2>2. /\ Diag(0, k) = k /\ Up(0, 0, 1, s, k) = s
        /\ Down(0, 1, 0, s, k) = 0 /\ Down(0, 0, 1, s, k) = -s
        /\ Up(0, 1, 0, s, k) = 0 /\ Diag(1, k) = 1
    BY ONLY <1>3 DEF Diag, Up, Down
  <2> QED BY ONLY <2>1, <2>2
<1> HIDE DEF m
<1>6. ASSUME NEW w \in Int
      PROVE  Draw!Apply(m, <<a, b, c, w>>) = <<k * a - s * b, s * a + k * b, c, w>>
  <2>1. Draw!Apply(m, <<a, b, c, w>>) =
              << m[0] * a + m[4] * b + m[8] * c + m[12] * w,
                 m[1] * a + m[5] * b + m[9] * c + m[13] * w,
                 m[2] * a + m[6] * b + m[10] * c + m[14] * w,
                 m[3] * a + m[7] * b + m[11] * c + m[15] * w >>
    BY ONLY <1>4, ApplyIs, a \in Int, b \in Int, c \in Int, w \in Int
  <2>2. /\ k * a + (-s) * b + 0 * c + 0 * w = k * a - s * b
        /\ s * a + k * b + 0 * c + 0 * w = s * a + k * b
        /\ 0 * a + 0 * b + 1 * c + 0 * w = c
        /\ 0 * a + 0 * b + 0 * c + 1 * w = w
    BY ONLY <1>3, a \in Int, b \in Int, c \in Int, w \in Int
  <2> QED BY ONLY <1>5, <2>1, <2>2
<1>7. Draw!Turned("z", q, <<a, b, c>>) = <<k * a - s * b, s * a + k * b, c>>
  BY ONLY <1>1, TurnedIs
<1>8. k * a - s * b \in Int /\ s * a + k * b \in Int
  BY <1>3
<1>9. Draw!Turned("z", q, p) = <<k * a - s * b, s * a + k * b, c>>
  BY <1>a, <1>7
<1>10. Draw!Turned("z", q, p) \in Point
  BY <1>8, <1>9 DEF Point
<1>11. \A w \in Int : Hom(Draw!Turned("z", q, p), w) = <<k * a - s * b, s * a + k * b, c, w>>
  BY <1>8, <1>9 DEF Hom
<1>12. \A w \in Int : Draw!Apply(m, Hom(p, w)) = Hom(Draw!Turned("z", q, p), w)
  BY <1>a, <1>6, <1>11
<1> QED BY <1>4, <1>10, <1>12 DEF m


(* The identity takes a point to itself.                                   *)
LEMMA IdentityMoves ==
  ASSUME NEW p \in Point, NEW w \in Int
  PROVE  /\ Draw!Identity \in Matrix
         /\ Draw!Apply(Draw!Identity, Hom(p, w)) = Hom(p, w)
<1>a. PICK a \in Int, b \in Int, c \in Int : p = <<a, b, c>> /\ Hom(p, w) = <<a, b, c, w>>
  BY PointIs
<1> DEFINE m == Draw!Identity
<1>1. m \in Matrix
  BY DEF Draw!Identity, Matrix
<1>2. \A d \in 0..15 : m[d] = IF d % 5 = 0 THEN 1 ELSE 0
  BY DEF Draw!Identity
<1>3. /\ m[0] = 1 /\ m[1] = 0 /\ m[2] = 0 /\ m[3] = 0
      /\ m[4] = 0 /\ m[5] = 1 /\ m[6] = 0 /\ m[7] = 0
      /\ m[8] = 0 /\ m[9] = 0 /\ m[10] = 1 /\ m[11] = 0
      /\ m[12] = 0 /\ m[13] = 0 /\ m[14] = 0 /\ m[15] = 1
  BY <1>2
<1> HIDE DEF m
<1>4. Draw!Apply(m, <<a, b, c, w>>) =
              << m[0] * a + m[4] * b + m[8] * c + m[12] * w,
                 m[1] * a + m[5] * b + m[9] * c + m[13] * w,
                 m[2] * a + m[6] * b + m[10] * c + m[14] * w,
                 m[3] * a + m[7] * b + m[11] * c + m[15] * w >>
  BY ONLY <1>1, ApplyIs, a \in Int, b \in Int, c \in Int, w \in Int
<1>5. /\ 1 * a + 0 * b + 0 * c + 0 * w = a /\ 0 * a + 1 * b + 0 * c + 0 * w = b
      /\ 0 * a + 0 * b + 1 * c + 0 * w = c /\ 0 * a + 0 * b + 0 * c + 1 * w = w
  OBVIOUS
<1> QED BY <1>a, <1>1, <1>3, <1>4, <1>5 DEF m

(* The matrix translate multiplies by.                                     *)
Shift(d) == [Draw!Identity EXCEPT ![12] = d[1], ![13] = d[2], ![14] = d[3]]

LEMMA ShiftMoves ==
  ASSUME NEW d \in Point, NEW p \in Point
  PROVE  /\ Shift(d) \in Matrix
         /\ Draw!Moved(d, p) \in Point
         /\ Draw!Apply(Shift(d), Hom(p, 1)) = Hom(Draw!Moved(d, p), 1)
         /\ Draw!Apply(Shift(d), Hom(p, 0)) = Hom(p, 0)
<1>a. PICK a \in Int, b \in Int, c \in Int : p = <<a, b, c>> /\ \A w : Hom(p, w) = <<a, b, c, w>>
  BY PointIs
<1>b. PICK x \in Int, y \in Int, z \in Int : d = <<x, y, z>>
  BY PointIs
<1> DEFINE j == Draw!Identity
           m == Shift(d)
<1>1. j \in Matrix
  BY DEF Draw!Identity, Matrix
<1>2. \A k \in 0..15 : j[k] = IF k % 5 = 0 THEN 1 ELSE 0
  BY DEF Draw!Identity
<1>c. d[1] = x /\ d[2] = y /\ d[3] = z
  BY <1>b
<1>3. m = [j EXCEPT ![12] = x, ![13] = y, ![14] = z]
  BY <1>c DEF Shift
<1> HIDE DEF m, j
<1>4. m \in Matrix
  BY <1>1, <1>3 DEF Matrix
<1>5. m[12] = x /\ m[13] = y /\ m[14] = z
  BY <1>1, <1>3 DEF Matrix
<1>6. \A k \in 0..15 : k \notin 12..14 => m[k] = j[k]
  BY <1>1, <1>3 DEF Matrix
<1>7. /\ m[0] = 1 /\ m[1] = 0 /\ m[2] = 0 /\ m[3] = 0
      /\ m[4] = 0 /\ m[5] = 1 /\ m[6] = 0 /\ m[7] = 0
      /\ m[8] = 0 /\ m[9] = 0 /\ m[10] = 1 /\ m[11] = 0 /\ m[15] = 1
  BY <1>2, <1>6
<1>8. ASSUME NEW w \in Int
      PROVE  Draw!Apply(m, <<a, b, c, w>>) = <<a + x * w, b + y * w, c + z * w, w>>
  <2>1. Draw!Apply(m, <<a, b, c, w>>) =
              << m[0] * a + m[4] * b + m[8] * c + m[12] * w,
                 m[1] * a + m[5] * b + m[9] * c + m[13] * w,
                 m[2] * a + m[6] * b + m[10] * c + m[14] * w,
                 m[3] * a + m[7] * b + m[11] * c + m[15] * w >>
    BY ONLY <1>4, ApplyIs, a \in Int, b \in Int, c \in Int, w \in Int
  <2>2. /\ 1 * a + 0 * b + 0 * c + x * w = a + x * w
        /\ 0 * a + 1 * b + 0 * c + y * w = b + y * w
        /\ 0 * a + 0 * b + 1 * c + z * w = c + z * w
        /\ 0 * a + 0 * b + 0 * c + 1 * w = w
    BY ONLY x \in Int, y \in Int, z \in Int, a \in Int, b \in Int, c \in Int, w \in Int
  <2> QED BY ONLY <1>5, <1>7, <2>1, <2>2
<1>9. /\ a + x * 1 = a + x /\ b + y * 1 = b + y /\ c + z * 1 = c + z
      /\ a + x * 0 = a /\ b + y * 0 = b /\ c + z * 0 = c
  OBVIOUS
<1>10. Draw!Apply(m, <<a, b, c, 1>>) = <<a + x * 1, b + y * 1, c + z * 1, 1>>
  BY <1>8
<1>11. Draw!Apply(m, <<a, b, c, 0>>) = <<a + x * 0, b + y * 0, c + z * 0, 0>>
  BY <1>8
<1>12. Draw!Moved(d, p) = <<a + x, b + y, c + z>>
  BY <1>a, <1>b DEF Draw!Moved
<1>13. Draw!Moved(d, p) \in Point
  BY <1>12 DEF Point
<1>14. Hom(Draw!Moved(d, p), 1) = <<a + x, b + y, c + z, 1>>
  BY <1>12 DEF Hom
<1>15. Draw!Apply(m, Hom(p, 1)) = Hom(Draw!Moved(d, p), 1)
  BY <1>a, <1>9, <1>10, <1>14
<1>16. Draw!Apply(m, Hom(p, 0)) = Hom(p, 0)
  BY <1>a, <1>9, <1>11
<1> QED BY <1>4, <1>13, <1>15, <1>16 DEF m

(* The steps the matrices are made of.                                     *)
LEMMA TranslateMoves ==
  ASSUME NEW m \in Matrix, NEW x \in Int, NEW y \in Int, NEW z \in Int, NEW p \in Point
  PROVE  /\ Draw!Translate(m, x, y, z) \in Matrix
         /\ Draw!Moved(<<x, y, z>>, p) \in Point
         /\ Draw!Apply(Draw!Translate(m, x, y, z), Hom(p, 1)) =
              Draw!Apply(m, Hom(Draw!Moved(<<x, y, z>>, p), 1))
         /\ Draw!Apply(Draw!Translate(m, x, y, z), Hom(p, 0)) = Draw!Apply(m, Hom(p, 0))
<1>1. PICK d : d = <<x, y, z>>
  OBVIOUS
<1>2. d \in Point /\ d[1] = x /\ d[2] = y /\ d[3] = z
  BY <1>1 DEF Point
<1>3. Draw!Translate(m, x, y, z) = Draw!Multiply(m, Shift(d))
  BY <1>2 DEF Draw!Translate, Shift
<1>4. /\ Shift(d) \in Matrix /\ Draw!Moved(d, p) \in Point
      /\ Draw!Apply(Shift(d), Hom(p, 1)) = Hom(Draw!Moved(d, p), 1)
      /\ Draw!Apply(Shift(d), Hom(p, 0)) = Hom(p, 0)
  BY <1>2, ShiftMoves
<1>5. Draw!Multiply(m, Shift(d)) \in Matrix
  BY <1>4, MultiplyIs
<1>6. Draw!Apply(Draw!Multiply(m, Shift(d)), Hom(p, 1)) = Draw!Apply(m, Hom(Draw!Moved(d, p), 1))
  BY <1>4, 1 \in Int, MultiplyMoves
<1>7. Draw!Apply(Draw!Multiply(m, Shift(d)), Hom(p, 0)) = Draw!Apply(m, Hom(p, 0))
  BY <1>4, 0 \in Int, MultiplyMoves
<1> QED BY <1>1, <1>3, <1>4, <1>5, <1>6, <1>7

LEMMA RotateMoves ==
  ASSUME NEW m \in Matrix, NEW q \in Draw!Angles, NEW p \in Point, NEW w \in Int
  PROVE  /\ Draw!Rotate(m, q, 1, 0, 0) \in Matrix
         /\ Draw!Rotate(m, q, 0, 1, 0) \in Matrix
         /\ Draw!Rotate(m, q, 0, 0, 1) \in Matrix
         /\ \A axis \in {"x", "y", "z"} : Draw!Turned(axis, q, p) \in Point
         /\ Draw!Apply(Draw!Rotate(m, q, 1, 0, 0), Hom(p, w)) =
              Draw!Apply(m, Hom(Draw!Turned("x", q, p), w))
         /\ Draw!Apply(Draw!Rotate(m, q, 0, 1, 0), Hom(p, w)) =
              Draw!Apply(m, Hom(Draw!Turned("y", q, p), w))
         /\ Draw!Apply(Draw!Rotate(m, q, 0, 0, 1), Hom(p, w)) =
              Draw!Apply(m, Hom(Draw!Turned("z", q, p), w))
<1>1. PICK x, y, z : x = About(q, 1, 0, 0) /\ y = About(q, 0, 1, 0) /\ z = About(q, 0, 0, 1)
  OBVIOUS
<1>2. PICK e, f, g : /\ e = Draw!Turned("x", q, p) /\ f = Draw!Turned("y", q, p)
                     /\ g = Draw!Turned("z", q, p)
  OBVIOUS
<1>3. x \in Matrix /\ e \in Point /\ Draw!Apply(x, Hom(p, w)) = Hom(e, w)
  BY <1>1, <1>2, AboutX
<1>4. y \in Matrix /\ f \in Point /\ Draw!Apply(y, Hom(p, w)) = Hom(f, w)
  BY <1>1, <1>2, AboutY
<1>5. z \in Matrix /\ g \in Point /\ Draw!Apply(z, Hom(p, w)) = Hom(g, w)
  BY <1>1, <1>2, AboutZ
<1>6. /\ Draw!Rotate(m, q, 1, 0, 0) = Draw!Multiply(m, x)
      /\ Draw!Rotate(m, q, 0, 1, 0) = Draw!Multiply(m, y)
      /\ Draw!Rotate(m, q, 0, 0, 1) = Draw!Multiply(m, z)
  BY <1>1, RotateIs
<1>7. /\ Draw!Multiply(m, x) \in Matrix /\ Draw!Multiply(m, y) \in Matrix
      /\ Draw!Multiply(m, z) \in Matrix
  BY <1>3, <1>4, <1>5, MultiplyIs
<1>8. /\ Draw!Apply(Draw!Multiply(m, x), Hom(p, w)) = Draw!Apply(m, Hom(e, w))
      /\ Draw!Apply(Draw!Multiply(m, y), Hom(p, w)) = Draw!Apply(m, Hom(f, w))
      /\ Draw!Apply(Draw!Multiply(m, z), Hom(p, w)) = Draw!Apply(m, Hom(g, w))
  BY <1>3, <1>4, <1>5, MultiplyMoves
<1> QED BY <1>2, <1>3, <1>4, <1>5, <1>6, <1>7, <1>8


(* The matrix of the view, turned by the three angles of "turns".          *)
View(turns) ==
    Draw!Rotate(Draw!Rotate(Draw!Rotate(Draw!Translate(Draw!Identity, 0, 0, -200),
        turns["x"], 1, 0, 0), turns["y"], 0, 1, 0), turns["z"], 0, 0, 1)
Seen(turns, p) ==
    Draw!Turned("x", turns["x"], Draw!Turned("y", turns["y"], Draw!Turned("z", turns["z"], p)))

LEMMA ViewMoves ==
  ASSUME NEW turns \in [{"x", "y", "z"} -> Draw!Angles], NEW p \in Point
  PROVE  /\ View(turns) \in Matrix
         /\ Seen(turns, p) \in Point
         /\ Draw!Moved(<<0, 0, -200>>, Seen(turns, p)) \in Point
         /\ Draw!Apply(View(turns), Hom(p, 1)) =
              Hom(Draw!Moved(<<0, 0, -200>>, Seen(turns, p)), 1)
         /\ Draw!Apply(View(turns), Hom(p, 0)) = Hom(Seen(turns, p), 0)
<1> DEFINE m0 == Draw!Translate(Draw!Identity, 0, 0, -200)
           m1 == Draw!Rotate(m0, turns["x"], 1, 0, 0)
           m2 == Draw!Rotate(m1, turns["y"], 0, 1, 0)
           m3 == Draw!Rotate(m2, turns["z"], 0, 0, 1)
           p1 == Draw!Turned("z", turns["z"], p)
           p2 == Draw!Turned("y", turns["y"], p1)
           p3 == Draw!Turned("x", turns["x"], p2)
           p4 == Draw!Moved(<<0, 0, -200>>, p3)
<1>1. turns["x"] \in Draw!Angles /\ turns["y"] \in Draw!Angles /\ turns["z"] \in Draw!Angles
  OBVIOUS
<1>2. View(turns) = m3 /\ Seen(turns, p) = p3
  BY DEF View, Seen
<1>3. Draw!Identity \in Matrix /\ \A s \in Point, w \in Int :
          Draw!Apply(Draw!Identity, Hom(s, w)) = Hom(s, w)
  BY IdentityMoves
<1>4. 0 \in Int /\ 1 \in Int /\ -200 \in Int
  OBVIOUS
<1>5. /\ m0 \in Matrix
      /\ \A s \in Point :
           /\ Draw!Moved(<<0, 0, -200>>, s) \in Point
           /\ Draw!Apply(m0, Hom(s, 1)) =
                Draw!Apply(Draw!Identity, Hom(Draw!Moved(<<0, 0, -200>>, s), 1))
           /\ Draw!Apply(m0, Hom(s, 0)) = Draw!Apply(Draw!Identity, Hom(s, 0))
  BY <1>3, <1>4, TranslateMoves
<1>6. /\ \A s \in Point : Draw!Moved(<<0, 0, -200>>, s) \in Point
      /\ \A s \in Point : Draw!Apply(m0, Hom(s, 1)) = Hom(Draw!Moved(<<0, 0, -200>>, s), 1)
      /\ \A s \in Point : Draw!Apply(m0, Hom(s, 0)) = Hom(s, 0)
  BY <1>3, <1>4, <1>5
<1> HIDE DEF m0
<1>7. m1 \in Matrix
  BY <1>1, <1>4, <1>5, RotateMoves
<1>8. \A s \in Point, w \in Int : Draw!Turned("x", turns["x"], s) \in Point
        /\ Draw!Apply(m1, Hom(s, w)) = Draw!Apply(m0, Hom(Draw!Turned("x", turns["x"], s), w))
  BY <1>1, <1>5, RotateMoves
<1> HIDE DEF m1
<1>9. m2 \in Matrix
  BY <1>1, <1>4, <1>7, RotateMoves
<1>10. \A s \in Point, w \in Int : Draw!Turned("y", turns["y"], s) \in Point
        /\ Draw!Apply(m2, Hom(s, w)) = Draw!Apply(m1, Hom(Draw!Turned("y", turns["y"], s), w))
  BY <1>1, <1>7, RotateMoves
<1> HIDE DEF m2
<1>11. m3 \in Matrix
  BY <1>1, <1>4, <1>9, RotateMoves
<1>12. \A s \in Point, w \in Int : Draw!Turned("z", turns["z"], s) \in Point
        /\ Draw!Apply(m3, Hom(s, w)) = Draw!Apply(m2, Hom(Draw!Turned("z", turns["z"], s), w))
  BY <1>1, <1>9, RotateMoves
<1> HIDE DEF m3
<1>13. p1 \in Point
  BY <1>4, <1>12
<1> HIDE DEF p1
<1>14. p2 \in Point
  BY <1>4, <1>10, <1>13
<1> HIDE DEF p2
<1>15. p3 \in Point
  BY <1>4, <1>8, <1>14
<1> HIDE DEF p3
<1>16. p4 \in Point
  BY <1>6, <1>15
<1>17. \A w \in Int : Draw!Apply(m3, Hom(p, w)) = Draw!Apply(m0, Hom(p3, w))
  <2> SUFFICES ASSUME NEW w \in Int PROVE Draw!Apply(m3, Hom(p, w)) = Draw!Apply(m0, Hom(p3, w))
    OBVIOUS
  <2>1. Draw!Apply(m3, Hom(p, w)) = Draw!Apply(m2, Hom(p1, w))
    BY <1>12 DEF p1
  <2>2. Draw!Apply(m2, Hom(p1, w)) = Draw!Apply(m1, Hom(p2, w))
    BY <1>10, <1>13 DEF p2
  <2>3. Draw!Apply(m1, Hom(p2, w)) = Draw!Apply(m0, Hom(p3, w))
    BY <1>8, <1>14 DEF p3
  <2> QED BY <2>1, <2>2, <2>3
<1>18. /\ Draw!Apply(m3, Hom(p, 1)) = Draw!Apply(m0, Hom(p3, 1))
       /\ Draw!Apply(m3, Hom(p, 0)) = Draw!Apply(m0, Hom(p3, 0))
  BY <1>4, <1>17
<1> QED BY <1>2, <1>6, <1>11, <1>15, <1>16, <1>18

(* The matrix of a gear at (x, y), turned by q.                            *)
LEMMA GearMoves ==
  ASSUME NEW m \in Matrix, NEW x \in Int, NEW y \in Int, NEW q \in Draw!Angles, NEW p \in Point
  PROVE  LET mv == Draw!Rotate(Draw!Translate(m, x, y, 0), q, 0, 0, 1)
             s == Draw!Turned("z", q, p)
         IN /\ mv \in Matrix /\ s \in Point
            /\ Draw!Moved(<<x, y, 0>>, s) \in Point
            /\ Draw!Apply(mv, Hom(p, 1)) = Draw!Apply(m, Hom(Draw!Moved(<<x, y, 0>>, s), 1))
            /\ Draw!Apply(mv, Hom(p, 0)) = Draw!Apply(m, Hom(s, 0))
<1> DEFINE m0 == Draw!Translate(m, x, y, 0)
           mv == Draw!Rotate(m0, q, 0, 0, 1)
           s == Draw!Turned("z", q, p)
<1>1. 0 \in Int /\ 1 \in Int
  OBVIOUS
<1>2. m0 \in Matrix
  BY <1>1, TranslateMoves
<1> HIDE DEF m0
<1>3. /\ mv \in Matrix /\ s \in Point
      /\ Draw!Apply(mv, Hom(p, 1)) = Draw!Apply(m0, Hom(s, 1))
      /\ Draw!Apply(mv, Hom(p, 0)) = Draw!Apply(m0, Hom(s, 0))
  BY <1>1, <1>2, RotateMoves
<1> HIDE DEF s
<1>4. /\ Draw!Moved(<<x, y, 0>>, s) \in Point
      /\ Draw!Apply(m0, Hom(s, 1)) = Draw!Apply(m, Hom(Draw!Moved(<<x, y, 0>>, s), 1))
      /\ Draw!Apply(m0, Hom(s, 0)) = Draw!Apply(m, Hom(s, 0))
  BY <1>1, <1>3, TranslateMoves DEF m0
<1> QED BY <1>3, <1>4 DEF m0, s


(* The coordinates of a point.                                             *)
LEMMA SpaceIs ==
  ASSUME NEW a, NEW b, NEW c, NEW w
  PROVE  Draw!Space(<<a, b, c, w>>) = <<a, b, c>>
<1> DEFINE s == <<a, b, c, w>>
           t == SubSeq(s, 1, 3)
<1>1. s \in Seq({a, b, c, w}) /\ Len(s) = 4
  OBVIOUS
<1>2. s[1] = a /\ s[2] = b /\ s[3] = c
  OBVIOUS
<1>7. Draw!Space(s) = t
  BY DEF Draw!Space
<1> HIDE DEF s, t
<1>3. /\ t \in Seq({a, b, c, w}) /\ Len(t) = 3
      /\ t[1] = s[1] /\ t[2] = s[2] /\ t[3] = s[3]
  BY <1>1, SubSeqProperties DEF t
<1>4. t \in [1..3 -> {a, b, c, w}]
  BY <1>3
<1>5. t = <<t[1], t[2], t[3]>>
  BY <1>4
<1> QED BY <1>2, <1>3, <1>5, <1>7 DEF s

(* A matrix transposed, entry by entry.                                    *)
LEMMA TransposeIs ==
  ASSUME NEW m \in Matrix
  PROVE  /\ Draw!Transpose(m) \in Matrix
         /\ \A j \in 0..3, k \in 0..3 : Draw!Transpose(m)[4 * j + k] = m[4 * k + j]
<1>1. Draw!Transpose(m) = [d \in 0..15 |-> m[4 * (d % 4) + d \div 4]]
  BY DEF Draw!Transpose
<1>2. \A d \in 0..15 : 4 * (d % 4) + d \div 4 \in 0..15
  OBVIOUS
<1>3. \A j \in 0..3, k \in 0..3 :
         4 * j + k \in 0..15 /\ (4 * j + k) \div 4 = j /\ (4 * j + k) % 4 = k
  OBVIOUS
<1>4. Draw!Transpose(m) \in Matrix
  BY <1>1, <1>2 DEF Matrix
<1>5. \A j \in 0..3, k \in 0..3 : Draw!Transpose(m)[4 * j + k] = m[4 * k + j]
  BY <1>1, <1>3
<1> QED BY <1>4, <1>5

(* The inverse of a matrix that rotates and then moves, transposed: where  *)
(* it takes a normal, the move does not count.                             *)
LEMMA NormalMatrix ==
  ASSUME NEW m \in Matrix, NEW p \in Point
  PROVE  Draw!Space(Draw!Apply(Draw!Transpose(Draw!Invert(m)), Hom(p, 1))) =
           Draw!Space(Draw!Apply(m, Hom(p, 0)))
<1>a. PICK a \in Int, b \in Int, c \in Int : p = <<a, b, c>> /\ \A w : Hom(p, w) = <<a, b, c, w>>
  BY PointIs
<1> DEFINE r == [m EXCEPT ![12] = 0, ![13] = 0, ![14] = 0]
           s == Shift(<<-m[12], -m[13], -m[14]>>)
           t == Draw!Transpose(r)
           u == Draw!Multiply(t, s)
           n == Draw!Transpose(u)
<1>1. Draw!Transpose(Draw!Invert(m)) = n
  BY DEF Draw!Invert, Shift
<1>2. r \in Matrix /\ r[12] = 0 /\ r[13] = 0 /\ r[14] = 0
      /\ \A k \in 0..11 : r[k] = m[k]
  BY DEF Matrix
<1> HIDE DEF r
<1>3. s \in Matrix /\ \A k \in 0..11 : s[k] = IF k % 5 = 0 THEN 1 ELSE 0
  <2>1. PICK d : d = <<-m[12], -m[13], -m[14]>>
    OBVIOUS
  <2>2. d \in Point
    BY <2>1 DEF Point, Matrix
  <2>3. s \in Matrix
    BY <2>1, <2>2, ShiftMoves
  <2>4. s = [Draw!Identity EXCEPT ![12] = d[1], ![13] = d[2], ![14] = d[3]]
    BY <2>1 DEF Shift
  <2>5. \A k \in 0..11 : s[k] = Draw!Identity[k]
    BY <2>4 DEF Draw!Identity
  <2>6. \A k \in 0..11 : Draw!Identity[k] = IF k % 5 = 0 THEN 1 ELSE 0
    BY DEF Draw!Identity
  <2> QED BY <2>3, <2>5, <2>6
<1> HIDE DEF s
<1>4. t \in Matrix /\ \A j \in 0..3, k \in 0..3 : t[4 * j + k] = r[4 * k + j]
  BY <1>2, TransposeIs
<1> HIDE DEF t
<1>5. u \in Matrix /\ \A j \in 0..3, k \in 0..3 : u[4 * j + k] =
          s[4 * j] * t[k] + s[4 * j + 1] * t[k + 4] + s[4 * j + 2] * t[k + 8]
            + s[4 * j + 3] * t[k + 12]
  BY <1>3, <1>4, MultiplyIs
<1> HIDE DEF u
<1>6. n \in Matrix /\ \A j \in 0..3, k \in 0..3 : n[4 * j + k] = u[4 * k + j]
  BY <1>5, TransposeIs
<1> HIDE DEF n
<1>7. \A k \in 0..3 : t[k] \in Int /\ t[k + 4] \in Int /\ t[k + 8] \in Int /\ t[k + 12] \in Int
  BY <1>4 DEF Matrix
<1>8. \A k \in 0..3 : /\ u[k] = t[k] /\ u[4 + k] = t[k + 4] /\ u[8 + k] = t[k + 8]
  <2> SUFFICES ASSUME NEW k \in 0..3
               PROVE  u[k] = t[k] /\ u[4 + k] = t[k + 4] /\ u[8 + k] = t[k + 8]
    OBVIOUS
  <2>1. /\ s[0] = 1 /\ s[1] = 0 /\ s[2] = 0 /\ s[3] = 0
        /\ s[4] = 0 /\ s[5] = 1 /\ s[6] = 0 /\ s[7] = 0
        /\ s[8] = 0 /\ s[9] = 0 /\ s[10] = 1 /\ s[11] = 0
    BY <1>3
  <2>2. \A j \in 0..3 : u[4 * j + k] =
          s[4 * j] * t[k] + s[4 * j + 1] * t[k + 4] + s[4 * j + 2] * t[k + 8]
            + s[4 * j + 3] * t[k + 12]
    BY <1>5
  <2>3. /\ u[4 * 0 + k] = s[0] * t[k] + s[1] * t[k + 4] + s[2] * t[k + 8] + s[3] * t[k + 12]
        /\ u[4 * 1 + k] = s[4] * t[k] + s[5] * t[k + 4] + s[6] * t[k + 8] + s[7] * t[k + 12]
        /\ u[4 * 2 + k] = s[8] * t[k] + s[9] * t[k + 4] + s[10] * t[k + 8] + s[11] * t[k + 12]
    BY <2>2
  <2>4. 4 * 0 + k = k /\ 4 * 1 + k = 4 + k /\ 4 * 2 + k = 8 + k
    OBVIOUS
  <2>5. PICK t0, t1, t2, t3 : t0 = t[k] /\ t1 = t[k + 4] /\ t2 = t[k + 8] /\ t3 = t[k + 12]
    OBVIOUS
  <2>6. t0 \in Int /\ t1 \in Int /\ t2 \in Int /\ t3 \in Int
    BY <1>7, <2>5
  <2>7. /\ 1 * t0 + 0 * t1 + 0 * t2 + 0 * t3 = t0 /\ 0 * t0 + 1 * t1 + 0 * t2 + 0 * t3 = t1
        /\ 0 * t0 + 0 * t1 + 1 * t2 + 0 * t3 = t2
    BY ONLY <2>6
  <2> QED BY <2>1, <2>3, <2>4, <2>5, <2>7
<1>9. /\ n[0] = m[0] /\ n[1] = m[1] /\ n[2] = m[2]
      /\ n[4] = m[4] /\ n[5] = m[5] /\ n[6] = m[6]
      /\ n[8] = m[8] /\ n[9] = m[9] /\ n[10] = m[10]
      /\ n[12] = 0 /\ n[13] = 0 /\ n[14] = 0
  <2>1. ASSUME NEW j \in 0..3, NEW k \in 0..2
        PROVE  n[4 * j + k] = r[4 * j + k]
    <3>1. n[4 * j + k] = u[4 * k + j] /\ t[4 * k + j] = r[4 * j + k]
      BY <1>4, <1>6
    <3>2. u[4 * k + j] = t[4 * k + j]
      <4>1. CASE k = 0
        BY <1>8, <4>1
      <4>2. CASE k = 1
        <5>1. u[4 + j] = t[j + 4] /\ 4 * 1 + j = 4 + j /\ j + 4 = 4 + j
          BY <1>8
        <5> QED BY <4>2, <5>1
      <4>3. CASE k = 2
        <5>1. u[8 + j] = t[j + 8] /\ 4 * 2 + j = 8 + j /\ j + 8 = 8 + j
          BY <1>8
        <5> QED BY <4>3, <5>1
      <4> QED BY <4>1, <4>2, <4>3
    <3> QED BY <3>1, <3>2
  <2>2. /\ n[4 * 0 + 0] = r[4 * 0 + 0] /\ n[4 * 0 + 1] = r[4 * 0 + 1]
        /\ n[4 * 0 + 2] = r[4 * 0 + 2]
        /\ n[4 * 1 + 0] = r[4 * 1 + 0] /\ n[4 * 1 + 1] = r[4 * 1 + 1]
        /\ n[4 * 1 + 2] = r[4 * 1 + 2]
        /\ n[4 * 2 + 0] = r[4 * 2 + 0] /\ n[4 * 2 + 1] = r[4 * 2 + 1]
        /\ n[4 * 2 + 2] = r[4 * 2 + 2]
        /\ n[4 * 3 + 0] = r[4 * 3 + 0] /\ n[4 * 3 + 1] = r[4 * 3 + 1]
        /\ n[4 * 3 + 2] = r[4 * 3 + 2]
    BY <2>1
  <2> QED BY <1>2, <2>2
<1>10. Draw!Apply(n, <<a, b, c, 1>>) =
              << n[0] * a + n[4] * b + n[8] * c + n[12] * 1,
                 n[1] * a + n[5] * b + n[9] * c + n[13] * 1,
                 n[2] * a + n[6] * b + n[10] * c + n[14] * 1,
                 n[3] * a + n[7] * b + n[11] * c + n[15] * 1 >>
  <2>1. n \in Matrix
    BY <1>6
  <2> QED BY ONLY <2>1, ApplyIs, a \in Int, b \in Int, c \in Int, 1 \in Int
<1>11. Draw!Apply(m, <<a, b, c, 0>>) =
              << m[0] * a + m[4] * b + m[8] * c + m[12] * 0,
                 m[1] * a + m[5] * b + m[9] * c + m[13] * 0,
                 m[2] * a + m[6] * b + m[10] * c + m[14] * 0,
                 m[3] * a + m[7] * b + m[11] * c + m[15] * 0 >>
  BY ONLY m \in Matrix, ApplyIs, a \in Int, b \in Int, c \in Int, 0 \in Int
<1>12. m[12] * 0 = 0 * 1 /\ m[13] * 0 = 0 * 1 /\ m[14] * 0 = 0 * 1
  <2>1. m[12] \in Int /\ m[13] \in Int /\ m[14] \in Int
    BY DEF Matrix
  <2> QED BY <2>1
<1>13. Draw!Space(Draw!Apply(n, <<a, b, c, 1>>)) =
              << m[0] * a + m[4] * b + m[8] * c + 0 * 1,
                 m[1] * a + m[5] * b + m[9] * c + 0 * 1,
                 m[2] * a + m[6] * b + m[10] * c + 0 * 1 >>
  BY <1>9, <1>10, SpaceIs
<1>14. Draw!Space(Draw!Apply(m, <<a, b, c, 0>>)) =
              << m[0] * a + m[4] * b + m[8] * c + 0 * 1,
                 m[1] * a + m[5] * b + m[9] * c + 0 * 1,
                 m[2] * a + m[6] * b + m[10] * c + 0 * 1 >>
  BY <1>11, <1>12, SpaceIs
<1> QED BY <1>a, <1>1, <1>13, <1>14


(* A coordinate appended.                                                   *)
LEMMA AppendedIs ==
  ASSUME NEW a, NEW b, NEW w
  PROVE  Append(<<a, b>>, w) = <<a, b, w>>
<1> DEFINE s == <<a, b>>
           t == Append(s, w)
<1>1. s \in Seq({a, b, w}) /\ Len(s) = 2 /\ s[1] = a /\ s[2] = b
  OBVIOUS
<1> HIDE DEF s
<1>2. t \in Seq({a, b, w}) /\ Len(t) = 3 /\ t[1] = s[1] /\ t[2] = s[2] /\ t[3] = w
  <2>1. PICK V : V = {a, b, w}
    OBVIOUS
  <2>2. w \in V /\ s \in Seq(V)
    BY <1>1, <2>1
  <2>3. t \in Seq(V) /\ Len(t) = Len(s) + 1 /\ (\A k \in 1..Len(s) : t[k] = s[k])
        /\ t[Len(s) + 1] = w
    BY <2>2, AppendProperties
  <2> QED BY <1>1, <2>1, <2>3
<1> HIDE DEF t
<1>3. t \in [1..3 -> {a, b, w}] /\ t[1] = a /\ t[2] = b /\ t[3] = w
  BY <1>1, <1>2
<1>4. t = <<t[1], t[2], t[3]>>
  BY <1>3
<1> QED BY <1>3, <1>4 DEF s, t

LEMMA AppendIs ==
  ASSUME NEW p \in Point, NEW w
  PROVE  Append(p, w) = Hom(p, w)
<1>1. PICK a \in Int, b \in Int, c \in Int : p = <<a, b, c>> /\ \A v : Hom(p, v) = <<a, b, c, v>>
  BY PointIs
<1>2. Append(<<a, b, c>>, w) = <<a, b, c, w>>
  <2> DEFINE s == <<a, b, c>>
             t == Append(s, w)
  <2>1. s \in Seq({a, b, c, w}) /\ Len(s) = 3 /\ s[1] = a /\ s[2] = b /\ s[3] = c
    OBVIOUS
  <2> HIDE DEF s
  <2>2. /\ t \in Seq({a, b, c, w}) /\ Len(t) = 4
        /\ t[1] = s[1] /\ t[2] = s[2] /\ t[3] = s[3] /\ t[4] = w
    <3>1. PICK V : V = {a, b, c, w}
      OBVIOUS
    <3>2. w \in V /\ s \in Seq(V)
      BY <2>1, <3>1
    <3>3. t \in Seq(V) /\ Len(t) = Len(s) + 1 /\ (\A k \in 1..Len(s) : t[k] = s[k])
          /\ t[Len(s) + 1] = w
      BY <3>2, AppendProperties
    <3> QED BY <2>1, <3>1, <3>3
  <2> HIDE DEF t
  <2>3. t \in [1..4 -> {a, b, c, w}] /\ t[1] = a /\ t[2] = b /\ t[3] = c /\ t[4] = w
    BY <2>1, <2>2
  <2>4. t = <<t[1], t[2], t[3], t[4]>>
    BY <2>3
  <2> QED BY <2>3, <2>4 DEF s, t
<1> QED BY <1>1, <1>2

Axes == {"x", "y", "z"}

(* The matrices of the gear drawn last are those of the view as it is.     *)
DrawInv ==
    /\ next \in 0..3 /\ view_rot \in [Axes -> Draw!Angles] /\ angle \in Draw!Angles
    /\ (next # 0 \/ uniforms # Draw!NoUniforms) => transform = View(view_rot)
    /\ Draw!Drawn =>
        uniforms = Draw!Matrices(Draw!Places[Draw!LastGear][1], Draw!Places[Draw!LastGear][2],
                                 angle)

DrawKept == which = "draw" => DrawInv

LEMMA DrawBegins ==
  ASSUME Draw!Init
  PROVE  DrawInv
<1>1. /\ next = 0 /\ view_rot \in [Axes -> Draw!Angles] /\ angle = 0 /\ uniforms = Draw!NoUniforms
  BY DEF Draw!Init, Axes
<1>2. 0 \in Draw!Angles
  BY SinesAre
<1> QED BY <1>1, <1>2 DEF DrawInv, Draw!Drawn

LEMMA ViewDrawn ==
  ASSUME DrawInv, Draw!DrawView
  PROVE  DrawInv'
<1>1. /\ next' = 1 /\ angle' = angle /\ angle \in Draw!Angles /\ view_rot \in [Axes -> Draw!Angles]
      /\ transform' = View(view_rot')
  BY DEF Draw!DrawView, DrawInv, View
<1>2. view_rot' \in [Axes -> Draw!Angles]
  <2>1. PICK t \in [Axes -> Turns] : view_rot' = [d \in Axes |-> (view_rot[d] + t[d]) % FullTurn]
    BY DEF Draw!DrawView, Axes
  <2>2. ASSUME NEW d \in Axes PROVE (view_rot[d] + t[d]) % FullTurn \in Draw!Angles
    <3>1. view_rot[d] \in 0..(FullTurn - 1) /\ t[d] \in 0..(FullTurn - 1)
      BY <1>1, <2>1, SinesAre
    <3>2. PICK w, n : w = FullTurn /\ n = view_rot[d] + t[d]
      OBVIOUS
    <3>3. w \in Nat \ {0} /\ n \in Int
      BY <3>1, <3>2, SinesAre
    <3>4. n % w \in 0..(w - 1)
      BY ONLY <3>3
    <3> QED BY <3>2, <3>4, SinesAre
  <2> QED BY <2>1, <2>2
<1>3. (next # 0 \/ uniforms # Draw!NoUniforms)' => (transform = View(view_rot))'
  BY <1>1
<1>4. ~Draw!Drawn'
  BY <1>1 DEF Draw!Drawn
<1> QED BY <1>1, <1>2, <1>3, <1>4 DEF DrawInv

LEMMA GearDrawn ==
  ASSUME DrawInv, Draw!DrawGear
  PROVE  DrawInv'
<1>1. /\ next # 0 /\ next' = (next + 1) % 4 /\ view_rot' = view_rot /\ transform' = transform
      /\ next \in 0..3 /\ view_rot \in [Axes -> Draw!Angles] /\ transform = View(view_rot)
  BY DEF Draw!DrawGear, DrawInv
<1>2. PICK q \in Draw!Angles : /\ angle' = q
                        /\ uniforms' = Draw!Matrices(Draw!Places[next][1], Draw!Places[next][2], q)
  BY DEF Draw!DrawGear
<1>3. Draw!LastGear' = next
  BY <1>1 DEF Draw!LastGear
<1>4. (uniforms = Draw!Matrices(Draw!Places[Draw!LastGear][1], Draw!Places[Draw!LastGear][2],
                                angle))'
  <2>1. Draw!Places[Draw!LastGear]' = Draw!Places[next]
    BY <1>3 DEF Draw!Places
  <2> QED BY <1>1, <1>2, <2>1 DEF Draw!Matrices
<1>5. (transform = View(view_rot))'
  BY <1>1
<1>6. next' \in 0..3
  BY <1>1
<1> QED BY <1>1, <1>2, <1>4, <1>5, <1>6 DEF DrawInv

LEMMA DrawHolds ==
  ASSUME DrawInv
  PROVE  Draw!GearsInPlace
<1> SUFFICES ASSUME Draw!Drawn PROVE Draw!GearsInPlace
  BY DEF Draw!GearsInPlace, Draw!PointsMove, Draw!NormalsTurn
<1>1. PICK g : g = Draw!LastGear
  OBVIOUS
<1>2. g \in 1..3
  BY <1>1 DEF Draw!LastGear, DrawInv, Draw!Drawn
<1>3. PICK x \in Int, y \in Int : Draw!Places[g] = <<x, y>>
  <2>1. Draw!Places[1] = <<-30, -20>> /\ Draw!Places[2] = <<31, -20>>
        /\ Draw!Places[3] = <<-31, 42>>
    BY DEF Draw!Places
  <2>2. g = 1 \/ g = 2 \/ g = 3
    BY <1>2
  <2>3. -30 \in Int /\ -20 \in Int /\ 31 \in Int /\ -31 \in Int /\ 42 \in Int
    OBVIOUS
  <2> QED BY <2>1, <2>2, <2>3
<1>4. Draw!Places[g][1] = x /\ Draw!Places[g][2] = y
  BY <1>3
<1>5. /\ view_rot \in [Axes -> Draw!Angles] /\ angle \in Draw!Angles
      /\ transform = View(view_rot) /\ uniforms = Draw!Matrices(x, y, angle)
  BY <1>1, <1>4 DEF DrawInv, Draw!Drawn
<1> DEFINE mv == Draw!Rotate(Draw!Translate(transform, x, y, 0), angle, 0, 0, 1)
<1>6. /\ uniforms.modelView = mv /\ uniforms.clip = Draw!Multiply(Projection, mv)
      /\ uniforms.normal = Draw!Transpose(Draw!Invert(mv))
  BY <1>5 DEF Draw!Matrices
<1>7. Append(Draw!Places[g], 0) = <<x, y, 0>>
  BY <1>3, AppendedIs
<1>8. Projection \in Matrix
  BY ProgramsAssumption DEF Draw!GearsDrawConstants, Matrix
<1>9. \A p : Draw!Viewed(p) = Seen(view_rot, p)
  BY DEF Draw!Viewed, Seen
<1>10. ASSUME NEW p \in Point
       PROVE  LET s == Draw!Moved(<<0, 0, -200>>, Seen(view_rot,
                         Draw!Moved(<<x, y, 0>>, Draw!Turned("z", angle, p))))
              IN /\ mv \in Matrix /\ s \in Point
                 /\ Draw!Apply(mv, Hom(p, 1)) = Hom(s, 1)
                 /\ Draw!Apply(mv, Hom(p, 0)) =
                      Hom(Seen(view_rot, Draw!Turned("z", angle, p)), 0)
                 /\ Seen(view_rot, Draw!Turned("z", angle, p)) \in Point
  <2> DEFINE t == Draw!Turned("z", angle, p)
             d == Draw!Moved(<<x, y, 0>>, t)
  <2>1. transform \in Matrix
    BY <1>5, ViewMoves DEF Axes
  <2>2. /\ mv \in Matrix /\ t \in Point /\ d \in Point
        /\ Draw!Apply(mv, Hom(p, 1)) = Draw!Apply(transform, Hom(d, 1))
        /\ Draw!Apply(mv, Hom(p, 0)) = Draw!Apply(transform, Hom(t, 0))
    BY <1>5, <2>1, GearMoves
  <2> HIDE DEF mv, t, d
  <2>3. /\ Draw!Moved(<<0, 0, -200>>, Seen(view_rot, d)) \in Point
        /\ Draw!Apply(View(view_rot), Hom(d, 1)) =
             Hom(Draw!Moved(<<0, 0, -200>>, Seen(view_rot, d)), 1)
    BY <1>5, <2>2, ViewMoves DEF Axes
  <2>4. /\ Seen(view_rot, t) \in Point
        /\ Draw!Apply(View(view_rot), Hom(t, 0)) = Hom(Seen(view_rot, t), 0)
    BY <1>5, <2>2, ViewMoves DEF Axes
  <2> QED BY <1>5, <2>2, <2>3, <2>4 DEF t, d
<1> HIDE DEF mv
<1>11. \A p \in Draw!Samples : p \in Point
  BY DEF Draw!Samples, Point
<1>12. Draw!PointsMove
  <2> SUFFICES ASSUME NEW p \in Draw!Samples
               PROVE  LET place == Append(Draw!Places[Draw!LastGear], 0)
                          seen == Draw!Moved(<<0, 0, -200>>, Draw!Viewed(
                                    Draw!Moved(place, Draw!Turned("z", angle, p))))
                      IN /\ Draw!Apply(uniforms.modelView, Append(p, 1)) = Append(seen, 1)
                         /\ Draw!Apply(uniforms.clip, Append(p, 1)) =
                              Draw!Apply(Projection, Append(seen, 1))
    BY DEF Draw!PointsMove
  <2> DEFINE s == Draw!Moved(<<0, 0, -200>>, Seen(view_rot,
                    Draw!Moved(<<x, y, 0>>, Draw!Turned("z", angle, p))))
  <2>1. p \in Point
    BY <1>11
  <2>2. mv \in Matrix /\ s \in Point /\ Draw!Apply(mv, Hom(p, 1)) = Hom(s, 1)
    BY <1>10, <2>1
  <2> HIDE DEF s
  <2>3. Append(p, 1) = Hom(p, 1) /\ Append(s, 1) = Hom(s, 1)
    BY <2>1, <2>2, AppendIs
  <2>4. Draw!Apply(Draw!Multiply(Projection, mv), Hom(p, 1)) = Draw!Apply(Projection, Hom(s, 1))
    BY <1>8, <2>1, <2>2, 1 \in Int, MultiplyMoves
  <2> QED BY <1>1, <1>6, <1>7, <1>9, <2>2, <2>3, <2>4 DEF s
<1>13. Draw!NormalsTurn
  <2> SUFFICES ASSUME NEW p \in Draw!Samples
               PROVE  Draw!Space(Draw!Apply(uniforms.normal, Append(p, 1))) =
                        Draw!Viewed(Draw!Turned("z", angle, p))
    BY DEF Draw!NormalsTurn
  <2> DEFINE s == Seen(view_rot, Draw!Turned("z", angle, p))
  <2>1. p \in Point
    BY <1>11
  <2>2. mv \in Matrix /\ s \in Point /\ Draw!Apply(mv, Hom(p, 0)) = Hom(s, 0)
    BY <1>10, <2>1
  <2> HIDE DEF s
  <2>3. Append(p, 1) = Hom(p, 1)
    BY <2>1, AppendIs
  <2>4. Draw!Space(Draw!Apply(Draw!Transpose(Draw!Invert(mv)), Hom(p, 1))) = Draw!Space(Hom(s, 0))
    BY <2>1, <2>2, NormalMatrix
  <2>5. Draw!Space(Hom(s, 0)) = s
    BY <2>2, PointIs, SpaceIs
  <2> QED BY <1>6, <1>9, <2>3, <2>4, <2>5 DEF s
<1> QED BY <1>12, <1>13 DEF Draw!GearsInPlace

(* gears_draw and draw_gear, for every way the view is turned and every    *)
(* angle of a gear: the matrices take the points of the gear drawn last,   *)
(* and its normals, where geometry does, whatever was drawn before it.     *)
(* Sin and Cos are any whole numbers for each angle, so the equations hold *)
(* of the two as unknowns: rounding aside, whatever sincos returns.        *)
THEOREM GearsAreInPlace == Spec => []GearsInPlace
<1>1. Init => DrawKept
  BY DrawBegins DEF Init, DrawKept
<1>2. DrawKept /\ [Next]_vars => DrawKept'
  <2> SUFFICES ASSUME DrawKept, [Next]_vars, which' = "draw" PROVE DrawInv'
    BY DEF DrawKept
  <2>1. CASE UNCHANGED vars
    <3>1. /\ which' = which /\ next' = next /\ view_rot' = view_rot /\ angle' = angle
          /\ transform' = transform /\ uniforms' = uniforms
      BY <2>1 DEF vars, shared, drawOnly
    <3> QED BY <3>1 DEF DrawKept, DrawInv, Draw!Drawn, Draw!LastGear, Draw!Matrices
  <2>2. CASE Next
    <3>1. which = "draw" /\ Draw!Next
      BY <2>2 DEF Next
    <3> QED BY <3>1, ViewDrawn, GearDrawn DEF DrawKept, Draw!Next
  <2> QED BY <2>1, <2>2
<1>3. DrawKept => GearsInPlace
  BY DrawHolds DEF DrawKept, GearsInPlace
<1> QED BY <1>1, <1>2, <1>3, PTL DEF Spec

-----------------------------------------------------------------------------
(***************************************************************************)
(* dsptestsck: what LibDspmainProofs proves of it holds of the behaviours  *)
(* of the programs that are its.                                           *)
(***************************************************************************)
Sck == INSTANCE LibDspmainProofs
IsSck == which = "dsptestsck"

LEMMA SckConstants == Sck!LibConstants /\ Sck!TestConstants
BY ProgramsAssumption DEF TestSck!LibConstants, Sck!LibConstants, TestSck!TestConstants,
    Sck!TestConstants, TestSck!MULT, TestSck!CRC32, Sck!MULT, Sck!CRC32

(* The two instances define the same steps.                                *)
LEMMA SckInit ==
  ASSUME TestSck!TestInit
  PROVE  Sck!TestInit
BY DEF TestSck!TestInit, TestSck!Init, TestSck!Service!Init, TestSck!NoCall, TestSck!NoResult,
       Sck!TestInit, Sck!Init, Sck!Service!Init, Sck!NoCall, Sck!NoResult,
       TestSck!MULT, Sck!MULT

LEMMA SckRequest ==
  ASSUME TestSck!TestRequest
  PROVE  Sck!TestRequest
BY DEF TestSck!TestRequest, Sck!TestRequest, TestSck!Mults, Sck!Mults, TestSck!Request,
   Sck!Request, TestSck!KindAt, Sck!KindAt, TestSck!CookieAt, Sck!CookieAt,
   TestSck!MultResults, Sck!MultResults, TestSck!Room, Sck!Room, TestSck!Words, Sck!Words,
   TestSck!Flushed, Sck!Flushed, TestSck!New, Sck!New, TestSck!Bump, Sck!Bump,
   TestSck!MULT, Sck!MULT, TestSck!CRC32, Sck!CRC32

LEMMA SckFlush ==
  ASSUME TestSck!TestFlush
  PROVE  Sck!TestFlush
BY DEF TestSck!TestFlush, Sck!TestFlush, TestSck!Flush, Sck!Flush, TestSck!Flushed,
   Sck!Flushed, TestSck!FlushFails, Sck!FlushFails

LEMMA SckCollect ==
  ASSUME TestSck!TestCollect
  PROVE  Sck!TestCollect
BY DEF TestSck!TestCollect, Sck!TestCollect, TestSck!Collect, Sck!Collect,
   TestSck!Collectable, Sck!Collectable, TestSck!Enter, Sck!Enter, TestSck!Flushed,
   Sck!Flushed, TestSck!FlushFails, Sck!FlushFails, TestSck!Mults, Sck!Mults,
   TestSck!CookieAt, Sck!CookieAt, TestSck!MultResults, Sck!MultResults, TestSck!testVars,
   Sck!testVars

LEMMA SckReturns ==
  ASSUME TestSck!TestReturns
  PROVE  Sck!TestReturns
BY DEF TestSck!TestReturns, Sck!TestReturns, TestSck!Mults, Sck!Mults, TestSck!CookieAt,
   Sck!CookieAt, TestSck!MultResults, Sck!MultResults, TestSck!vars, Sck!vars

LEMMA SckHeader ==
  ASSUME TestSck!RecvHeader
  PROVE  Sck!RecvHeader
BY DEF TestSck!RecvHeader, Sck!RecvHeader, TestSck!Received, Sck!Received,
   TestSck!NextUnit, Sck!NextUnit, TestSck!Return, Sck!Return, TestSck!NoCall, Sck!NoCall,
   TestSck!Torn, Sck!Torn, TestSck!MULT, Sck!MULT, TestSck!CRC32, Sck!CRC32

LEMMA SckPayload ==
  ASSUME TestSck!RecvPayload
  PROVE  Sck!RecvPayload
BY DEF TestSck!RecvPayload, Sck!RecvPayload, TestSck!Received, Sck!Received,
   TestSck!NextUnit, Sck!NextUnit, TestSck!Return, Sck!Return, TestSck!NoCall, Sck!NoCall,
   TestSck!Cookie, Sck!Cookie, TestSck!Torn, Sck!Torn, TestSck!MULT, Sck!MULT,
   TestSck!CRC32, Sck!CRC32

LEMMA SckEof ==
  ASSUME TestSck!RecvEof
  PROVE  Sck!RecvEof
BY DEF TestSck!RecvEof, Sck!RecvEof, TestSck!Received, Sck!Received, TestSck!Return,
   Sck!Return, TestSck!NoCall, Sck!NoCall, TestSck!InCall, Sck!InCall, TestSck!Torn,
   Sck!Torn, TestSck!MULT, Sck!MULT, TestSck!CRC32, Sck!CRC32

LEMMA SckFails ==
  ASSUME TestSck!RecvFails
  PROVE  Sck!RecvFails
BY DEF TestSck!RecvFails, Sck!RecvFails, TestSck!Received, Sck!Received, TestSck!Return,
   Sck!Return, TestSck!NoCall, Sck!NoCall, TestSck!InCall, Sck!InCall, TestSck!Torn,
   Sck!Torn, TestSck!MULT, Sck!MULT, TestSck!CRC32, Sck!CRC32

LEMMA SckTorn ==
  ASSUME TestSck!RecvTorn
  PROVE  Sck!RecvTorn
BY DEF TestSck!RecvTorn, Sck!RecvTorn, TestSck!Return, Sck!Return, TestSck!NoCall,
   Sck!NoCall, TestSck!InCall, Sck!InCall, TestSck!Torn, Sck!Torn, TestSck!MULT,
   Sck!MULT, TestSck!CRC32, Sck!CRC32

LEMMA SckServe ==
  ASSUME TestSck!Serve
  PROVE  Sck!Serve
BY DEF TestSck!Serve, Sck!Serve, TestSck!Service!AnswerNext, Sck!Service!AnswerNext

LEMMA SckCut ==
  ASSUME TestSck!Cut
  PROVE  Sck!Cut
BY DEF TestSck!Cut, Sck!Cut

LEMMA SckNext ==
  ASSUME TestSck!TestNext
  PROVE  Sck!TestNext
BY SckRequest, SckFlush, SckCollect, SckReturns, SckHeader, SckPayload, SckEof, SckFails,
   SckTorn, SckServe, SckCut DEF TestSck!TestNext, Sck!TestNext, TestSck!TestStep, Sck!TestStep,
   TestSck!Around, Sck!Around, TestSck!Recv, Sck!Recv, TestSck!testVars, Sck!testVars

LEMMA SckMatches ==
  ASSUME Sck!ResultsMatch
  PROVE  TestSck!ResultsMatch
BY DEF TestSck!ResultsMatch, Sck!ResultsMatch, TestSck!EachHasItsCookie,
   Sck!EachHasItsCookie, TestSck!NeverSkips, Sck!NeverSkips, TestSck!Received,
   Sck!Received, TestSck!NextUnit, Sck!NextUnit, TestSck!Cookie, Sck!Cookie, TestSck!Mults,
   Sck!Mults, TestSck!MultResults, Sck!MultResults, TestSck!CookieAt, Sck!CookieAt,
   TestSck!MULT, Sck!MULT, TestSck!CRC32, Sck!CRC32

(* dsptestsck, as one of the programs, for any buffer, any number of       *)
(* requests and a connection closed anywhere: every result is asked for    *)
(* with its own cookie, and no reply is passed over unless a recv() or a   *)
(* send() has failed or come short.                                        *)
THEOREM ResultsAreMatched == Spec => []ResultsMatch
<1>1. Spec /\ IsSck => Sck!TestSpec
  <2>1. Init /\ IsSck => Sck!TestInit
    BY SckInit DEF Init, IsSck
  <2>2. [Next]_vars => UNCHANGED which
    BY DEF Next, vars
  <2>3. [Next]_vars /\ IsSck => IsSck'
    BY <2>2 DEF IsSck
  <2>4. [Next]_vars /\ IsSck => [Sck!TestNext]_(Sck!allVars)
    <3>1. UNCHANGED vars => UNCHANGED Sck!allVars
      BY DEF vars, shared, testSckOnly, Sck!allVars, Sck!vars, Sck!testVars
    <3> QED BY <3>1, SckNext DEF Next, IsSck
  <2> QED BY <2>1, <2>3, <2>4, PTL DEF Spec, Sck!TestSpec
<1>2. Sck!TestSpec => []Sck!ResultsMatch
  BY SckConstants, Sck!TestMatches
<1>3. Spec /\ ~IsSck => []~IsSck
  <2>1. ~IsSck /\ [Next]_vars => ~IsSck'
    BY DEF IsSck, Next, vars
  <2> QED BY <2>1, PTL DEF Spec
<1>4. Sck!ResultsMatch => ResultsMatch
  BY SckMatches DEF ResultsMatch
<1>5. ~IsSck => ResultsMatch
  BY DEF IsSck, ResultsMatch
<1> QED BY <1>1, <1>2, <1>3, <1>4, <1>5, PTL

-----------------------------------------------------------------------------
(***************************************************************************)
(* dsptest. The messages at the DSP form one line, the one it works on     *)
(* first. Those of a process stand in it in the order of their numbers,    *)
(* and behind those in its queue and those it has printed.                 *)
(***************************************************************************)
Subids == {"mult", "getreply", "async"}
Messages ==
    [subid : Subids, from : Testers, reply : Testers \cup {NoQueue}, seq : Nat]
Line == hold \o dspq

Asked(t) == [subid |-> "getreply", from |-> t, reply |-> NoQueue, seq |-> 0]
Unknown(t) == gppq[t] = <<>> /\ printed[t] = <<>> /\ reply_msgq[t] = NoQueue

(* A message in the line: the handle is still unknown while it is asked    *)
(* for, and known for good to the messages that carry it.                  *)
Placed(m) ==
    /\ pc[m.from] # "start"
    /\ m.subid = "mult" =>
        /\ m.seq < sequence[m.from]
        /\ m.reply = NoQueue \/ (m.reply = m.from /\ reply_msgq[m.from] = m.from)
    /\ m.subid = "getreply" =>
        /\ m = Asked(m.from) /\ 0 < sequence[m.from]
        /\ Unknown(m.from) /\ m \notin parked
    /\ m.subid = "async" => \E p \in parked : m = DspTest!Async(p)
Apart(m, n) ==
    /\ m.subid = "async" => m # n
    /\ m.subid # "async" /\ n.subid # "async" /\ m.from = n.from => m.seq < n.seq

TesterTypes ==
    /\ pc \in [Testers -> {"start", "loop", "closed"}]
    /\ reply_msgq \in [Testers -> Testers \cup {NoQueue}]
    /\ sequence \in [Testers -> Nat]
    /\ gppq \in [Testers -> Seq(Messages)] /\ printed \in [Testers -> Seq(Nat)]
    /\ free \in Nat /\ dspq \in Seq(Messages) /\ silent \subseteq Messages
    /\ hold = <<>> \/ \E m \in Messages : hold = <<m>>

LineInv ==
    /\ \A k \in DOMAIN Line : Placed(Line[k])
    /\ \A j, k \in DOMAIN Line : j < k => Apart(Line[j], Line[k])

ParkedInv ==
    \A p \in parked :
        p.from \in Testers /\ p = Asked(p.from) /\ Unknown(p.from)
            /\ pc[p.from] # "start" /\ 0 < sequence[p.from]

QueueInv(t) ==
    /\ \A k \in DOMAIN gppq[t] :
        LET m == gppq[t][k]
        IN  /\ m.from = t /\ m.reply = t /\ m.seq < sequence[t]
            /\ \/ m.subid = "mult" /\ reply_msgq[t] = t
               \/ /\ m.subid = "getreply" /\ m.seq = 0
                  /\ k = 1 /\ printed[t] = <<>> /\ reply_msgq[t] = NoQueue
    /\ \A j, k \in DOMAIN gppq[t] : j < k => gppq[t][j].seq < gppq[t][k].seq
    /\ \A j \in DOMAIN printed[t], k \in DOMAIN gppq[t] : printed[t][j] < gppq[t][k].seq
PrintedInv(t) ==
    /\ \A k \in DOMAIN printed[t] : printed[t][k] < sequence[t]
    /\ \A j, k \in DOMAIN printed[t] : j < k => printed[t][j] < printed[t][k]
    /\ printed[t] # <<>> => printed[t][1] = 0
    /\ reply_msgq[t] = NoQueue \/ (reply_msgq[t] = t /\ printed[t] # <<>>)
    /\ pc[t] = "start" => Unknown(t) /\ sequence[t] = 0

(* A product still to be put into the queue of t comes after what is there.*)
BehindInv(t) ==
    \A k \in DOMAIN Line : Line[k].subid = "mult" /\ Line[k].reply = t =>
        /\ \A j \in DOMAIN gppq[t] : gppq[t][j].seq < Line[k].seq
        /\ \A j \in DOMAIN printed[t] : printed[t][j] < Line[k].seq

BuffersInv ==
    /\ IsFiniteSet(parked) /\ IsFiniteSet(DspTest!InQueues)
    /\ free + Len(dspq) + Len(hold) + Cardinality(parked) + Cardinality(DspTest!InQueues)
            = PoolSize

OrderInv == \A t \in Testers : QueueInv(t) /\ PrintedInv(t) /\ BehindInv(t)

DspTestInv ==
    /\ TesterTypes /\ LineInv /\ ParkedInv /\ OrderInv /\ BuffersInv
    /\ DspTest!OnlyEarlyOnesSilent

LEMMA TesterConstants ==
  /\ NoQueue \notin Testers /\ PoolSize \in Nat
BY ProgramsAssumption DEF DspTest!DspTestConstants

LEMMA NoneLeft == Len(<<>>) = 0 /\ DOMAIN <<>> = {} /\ \A V : <<>> \in Seq(V)
BY EmptySeq

LEMMA DspTestBegins ==
  ASSUME DspTest!Init
  PROVE  DspTestInv
<1>1. /\ pc = [t \in Testers |-> "start"] /\ reply_msgq = [t \in Testers |-> NoQueue]
      /\ sequence = [t \in Testers |-> 0]
      /\ gppq = [t \in Testers |-> <<>>] /\ printed = [t \in Testers |-> <<>>]
      /\ free = PoolSize /\ dspq = <<>> /\ hold = <<>> /\ parked = {} /\ silent = {}
  BY DEF DspTest!Init
<1>2. TesterTypes
  <2>1. \A V : [t \in Testers |-> <<>>] \in [Testers -> Seq(V)]
    BY NoneLeft
  <2> HIDE DEF Messages
  <2>2. gppq \in [Testers -> Seq(Messages)] /\ printed \in [Testers -> Seq(Nat)]
    BY <1>1, <2>1
  <2>3. dspq \in Seq(Messages)
    BY <1>1, NoneLeft
  <2> QED BY <1>1, <2>2, <2>3, TesterConstants DEF TesterTypes
<1>3. DOMAIN Line = {}
  BY <1>1, NoneLeft, ConcatEmptySeq DEF Line
<1>4. LineInv
  BY <1>3 DEF LineInv
<1>5. ParkedInv
  BY <1>1 DEF ParkedInv
<1>6. OrderInv
  <2> SUFFICES ASSUME NEW t \in Testers PROVE QueueInv(t) /\ PrintedInv(t) /\ BehindInv(t)
    BY DEF OrderInv
  <2>1. /\ pc[t] = "start" /\ reply_msgq[t] = NoQueue /\ sequence[t] = 0
        /\ gppq[t] = <<>> /\ printed[t] = <<>>
    BY <1>1
  <2>2. QueueInv(t)
    BY <2>1, NoneLeft DEF QueueInv
  <2>3. PrintedInv(t)
    BY <2>1, NoneLeft DEF PrintedInv, Unknown
  <2>4. BehindInv(t)
    BY <1>3 DEF BehindInv
  <2> QED BY <2>2, <2>3, <2>4
<1>7. BuffersInv
  <2>1. DspTest!InQueues = {}
    <3>1. \A t \in Testers : {t} \X DOMAIN gppq[t] = {}
      BY <1>1, NoneLeft
    <3> QED BY <3>1 DEF DspTest!InQueues
  <2> QED BY <1>1, <2>1, FS_EmptySet, NoneLeft, TesterConstants DEF BuffersInv
<1>8. DspTest!OnlyEarlyOnesSilent
  BY <1>1 DEF DspTest!OnlyEarlyOnesSilent
<1> QED BY <1>2, <1>4, <1>5, <1>6, <1>7, <1>8 DEF DspTestInv

LEMMA DspTestHolds ==
  ASSUME DspTestInv
  PROVE  DspTest!TestersServed
<1>1. DspTest!BuffersConserved
  <2>1. DspTest!Cardinality(parked) = Cardinality(parked)
    BY DEF DspTest!Cardinality, Cardinality
  <2>2. DspTest!Cardinality(DspTest!InQueues) = Cardinality(DspTest!InQueues)
    BY DEF DspTest!Cardinality, Cardinality
  <2> QED BY <2>1, <2>2 DEF DspTestInv, BuffersInv, DspTest!BuffersConserved
<1>2. DspTest!OwnMessages
  BY DEF DspTestInv, OrderInv, QueueInv, PrintedInv, DspTest!OwnMessages
<1>3. DspTest!PrintedInOrder
  BY DEF DspTestInv, OrderInv, PrintedInv, DspTest!PrintedInOrder
<1> QED BY <1>1, <1>2, <1>3 DEF DspTestInv, DspTest!TestersServed

(* What the types say of one process.                                      *)
LEMMA TesterIs ==
  ASSUME TesterTypes, NEW t \in Testers
  PROVE  /\ pc[t] \in {"start", "loop", "closed"} /\ reply_msgq[t] \in Testers \cup {NoQueue}
         /\ sequence[t] \in Nat /\ gppq[t] \in Seq(Messages) /\ printed[t] \in Seq(Nat)
         /\ DOMAIN gppq[t] = 1..Len(gppq[t]) /\ Len(gppq[t]) \in Nat
         /\ DOMAIN printed[t] = 1..Len(printed[t]) /\ Len(printed[t]) \in Nat
         /\ \A k \in DOMAIN gppq[t] : gppq[t][k] \in Messages
         /\ \A k \in DOMAIN printed[t] : printed[t][k] \in Nat
<1>1. gppq[t] \in Seq(Messages) /\ printed[t] \in Seq(Nat)
  BY DEF TesterTypes
<1>2. /\ DOMAIN gppq[t] = 1..Len(gppq[t]) /\ Len(gppq[t]) \in Nat
      /\ DOMAIN printed[t] = 1..Len(printed[t]) /\ Len(printed[t]) \in Nat
  BY <1>1, LenProperties
<1>3. \A k \in DOMAIN gppq[t] : gppq[t][k] \in Messages
  BY <1>1, <1>2, ElementOfSeq
<1>4. \A k \in DOMAIN printed[t] : printed[t][k] \in Nat
  BY <1>1, <1>2, ElementOfSeq
<1> QED BY <1>1, <1>2, <1>3, <1>4 DEF TesterTypes

(* The line, by its two parts.                                             *)
LEMMA LineIs ==
  ASSUME TesterTypes
  PROVE  /\ Line \in Seq(Messages) /\ DOMAIN Line = 1..Len(Line) /\ Len(Line) \in Nat
         /\ \A k \in DOMAIN Line : Line[k] \in Messages
         /\ dspq \in Seq(Messages) /\ Len(dspq) \in Nat /\ DOMAIN dspq = 1..Len(dspq)
         /\ hold \in Seq(Messages) /\ Len(hold) \in Nat
<1>1. dspq \in Seq(Messages) /\ hold \in Seq(Messages)
  <2>1. \A m \in Messages : <<m>> \in Seq(Messages)
    BY NoneLeft, AppendProperties
  <2> QED BY <2>1, NoneLeft DEF TesterTypes
<1>2. Line \in Seq(Messages)
  BY <1>1, ConcatProperties DEF Line
<1> QED BY <1>1, <1>2, LenProperties, ElementOfSeq

(* The DSP is done with the first message of the line.                     *)
LEMMA LineMoves ==
  ASSUME TesterTypes, hold # <<>>, hold' = <<>>, dspq' = dspq
  PROVE  /\ hold[1] \in Messages /\ Len(hold) = 1 /\ Len(hold') = 0
         /\ 1 \in DOMAIN Line /\ Line[1] = hold[1]
         /\ \A k \in DOMAIN Line' :
              /\ k \in Nat /\ 1 < k + 1 /\ k + 1 \in DOMAIN Line /\ Line'[k] = Line[k + 1]
              /\ Line[k + 1] \in Messages
<1>1. PICK m \in Messages : hold = <<m>>
  BY DEF TesterTypes
<1>2. dspq \in Seq(Messages) /\ hold \in Seq(Messages) /\ Len(hold) = 1 /\ hold[1] = m
  BY <1>1, LineIs
<1>3. Len(dspq) \in Nat /\ DOMAIN dspq = 1..Len(dspq) /\ DOMAIN Line = 1..Len(Line)
      /\ \A k \in DOMAIN Line : Line[k] \in Messages
  BY LineIs
<1>4. /\ Len(Line) = 1 + Len(dspq)
      /\ \A k \in 1..(1 + Len(dspq)) : Line[k] = IF k <= 1 THEN hold[k] ELSE dspq[k - 1]
  <2>1. /\ Len(hold \o dspq) = Len(hold) + Len(dspq)
        /\ \A k \in 1..(Len(hold) + Len(dspq)) :
              (hold \o dspq)[k] = IF k <= Len(hold) THEN hold[k] ELSE dspq[k - Len(hold)]
    BY ONLY <1>2, ConcatProperties
  <2> QED BY <1>2, <2>1 DEF Line
<1>5. Line' = dspq
  BY <1>2, ConcatEmptySeq DEF Line
<1>6. ASSUME NEW k \in DOMAIN Line'
      PROVE  /\ k \in Nat /\ 1 < k + 1 /\ k + 1 \in DOMAIN Line /\ Line'[k] = Line[k + 1]
  <2>1. k \in 1..Len(dspq)
    BY <1>3, <1>5
  <2>2. k \in Nat /\ 1 < k + 1 /\ k + 1 \in 1..(1 + Len(dspq)) /\ ~(k + 1 <= 1) /\ (k + 1) - 1 = k
    BY <1>3, <2>1
  <2> QED BY <1>3, <1>4, <1>5, <2>2
<1>7. 1 \in DOMAIN Line /\ Line[1] = hold[1]
  BY <1>3, <1>4
<1> QED BY <1>1, <1>2, <1>3, <1>6, <1>7, NoneLeft

(* A message joins the line.                                               *)
LEMMA LineJoined ==
  ASSUME TesterTypes, NEW m \in Messages, dspq' = Append(dspq, m), hold' = hold
  PROVE  /\ dspq' \in Seq(Messages) /\ Len(dspq') = Len(dspq) + 1
         /\ Len(Line) \in Nat
         /\ \A k \in DOMAIN Line :
              k \in 1..Len(Line) /\ k \in DOMAIN Line' /\ Line'[k] = Line[k] /\ Line[k] \in Messages
         /\ \A k \in DOMAIN Line' :
              k \in DOMAIN Line \/ (k = Len(Line) + 1 /\ Line'[k] = m)
<1>1. dspq \in Seq(Messages) /\ hold \in Seq(Messages) /\ Line \in Seq(Messages)
      /\ DOMAIN Line = 1..Len(Line) /\ Len(Line) \in Nat
      /\ \A k \in DOMAIN Line : Line[k] \in Messages
  BY LineIs
<1>2. Line' = Append(Line, m)
  <2>1. <<m>> \in Seq(Messages)
    BY NoneLeft, AppendProperties
  <2>2. hold \o Append(dspq, m) = Append(hold \o dspq, m)
    BY <1>1, <2>1, AppendIsConcat, ConcatAssociative, ConcatProperties
  <2> QED BY <2>2 DEF Line
<1>3. /\ Append(Line, m) \in Seq(Messages) /\ Len(Append(Line, m)) = Len(Line) + 1
      /\ \A k \in 1..Len(Line) : Append(Line, m)[k] = Line[k]
      /\ Append(Line, m)[Len(Line) + 1] = m
  BY <1>1, AppendProperties
<1>4. DOMAIN Append(Line, m) = 1..(Len(Line) + 1)
  BY <1>3, LenProperties
<1>5. dspq' \in Seq(Messages) /\ Len(dspq') = Len(dspq) + 1
  BY <1>1, AppendProperties
<1>6. \A k \in 1..Len(Line) : k \in 1..(Len(Line) + 1)
  BY <1>1
<1>7. \A k \in 1..(Len(Line) + 1) : k \in 1..Len(Line) \/ k = Len(Line) + 1
  BY <1>1
<1> QED BY <1>1, <1>2, <1>3, <1>4, <1>5, <1>6, <1>7

(* What happens to the line.                                               *)
LEMMA PlacedThen ==
  ASSUME NEW n, NEW k, Line'[k] = n, Placed(n)'
  PROVE  Placed(Line[k])'
BY DEF Placed

LEMMA ApartThen ==
  ASSUME NEW j, NEW k, Apart(Line'[j], Line'[k])
  PROVE  Apart(Line[j], Line[k])'
BY DEF Apart

LEMMA LineStays ==
  ASSUME TesterTypes, LineInv, Line' = Line,
         \A n \in Messages : Placed(n) => Placed(n)'
  PROVE  LineInv'
<1>1. \A k \in DOMAIN Line : Line[k] \in Messages
  BY LineIs
<1>2. ASSUME NEW k \in DOMAIN Line' PROVE Placed(Line[k])'
  <2>1. PICK n \in Messages : n = Line'[k]
    BY <1>1
  <2>2. Placed(n)
    <3>1. Placed(Line[k])
      BY DEF LineInv
    <3> QED BY <2>1, <3>1
  <2> QED BY <2>1, <2>2, PlacedThen
<1>3. \A j, k \in DOMAIN Line' : j < k => Apart(Line'[j], Line'[k])
  BY DEF LineInv
<1>4. \A j, k \in DOMAIN Line' : j < k => Apart(Line[j], Line[k])'
  BY <1>3, ApartThen
<1> QED BY <1>2, <1>4 DEF LineInv

LEMMA LineGrows ==
  ASSUME TesterTypes, LineInv, NEW m \in Messages,
         dspq' = Append(dspq, m), hold' = hold,
         \A n \in Messages : Placed(n) => Placed(n)',
         Placed(m)', \A k \in DOMAIN Line : Apart(Line[k], m)
  PROVE  LineInv'
<1> DEFINE n == Len(Line)
<1>1. /\ n \in Nat
      /\ \A k \in DOMAIN Line :
           k \in 1..n /\ k \in DOMAIN Line' /\ Line'[k] = Line[k] /\ Line[k] \in Messages
      /\ \A k \in DOMAIN Line' : k \in DOMAIN Line \/ (k = n + 1 /\ Line'[k] = m)
  BY LineJoined
<1> HIDE DEF n
<1>2. ASSUME NEW k \in DOMAIN Line' PROVE Placed(Line[k])'
  <2>1. CASE k \in DOMAIN Line
    <3>1. PICK p \in Messages : p = Line'[k]
      BY <1>1, <2>1
    <3>2. p = Line[k] /\ Placed(Line[k])
      BY <1>1, <2>1, <3>1 DEF LineInv
    <3>3. Placed(p)'
      BY <3>2
    <3> QED BY <3>1, <3>3, PlacedThen
  <2>2. CASE Line'[k] = m
    BY <2>2, PlacedThen
  <2> QED BY <1>1, <2>1, <2>2
<1>3. ASSUME NEW j \in DOMAIN Line', NEW k \in DOMAIN Line', j < k
      PROVE  Apart(Line'[j], Line'[k])
  <2>1. CASE k \in DOMAIN Line /\ j \in DOMAIN Line
    BY <1>1, <1>3, <2>1 DEF LineInv
  <2>2. CASE k = n + 1 /\ Line'[k] = m /\ j \in DOMAIN Line
    BY <1>1, <2>2
  <2>3. j \in DOMAIN Line
    <3>1. j \in DOMAIN Line => j \in 1..n
      BY <1>1
    <3>2. k \in DOMAIN Line => k \in 1..n
      BY <1>1
    <3>3. j = n + 1 => ~(k \in 1..n) /\ k # n + 1
      BY <1>1, <1>3
    <3> QED BY <1>1, <3>1, <3>2, <3>3
  <2> QED BY <1>1, <2>1, <2>2, <2>3
<1>4. \A j, k \in DOMAIN Line' : j < k => Apart(Line[j], Line[k])'
  BY <1>3, ApartThen
<1> QED BY <1>2, <1>4 DEF LineInv

LEMMA LineShrinks ==
  ASSUME TesterTypes, LineInv, hold # <<>>, hold' = <<>>, dspq' = dspq,
         \A m \in Messages : Placed(m) /\ Apart(hold[1], m) => Placed(m)'
  PROVE  LineInv'
<1>1. /\ 1 \in DOMAIN Line /\ Line[1] = hold[1]
      /\ \A k \in DOMAIN Line' :
           /\ k \in Nat /\ 1 < k + 1 /\ k + 1 \in DOMAIN Line /\ Line'[k] = Line[k + 1]
           /\ Line[k + 1] \in Messages
  BY LineMoves
<1>2. ASSUME NEW k \in DOMAIN Line' PROVE Placed(Line[k])'
  <2>1. Placed(Line[k + 1]) /\ Apart(hold[1], Line[k + 1])
    BY <1>1 DEF LineInv
  <2>2. PICK p \in Messages : p = Line'[k]
    BY <1>1
  <2>3. p = Line[k + 1]
    BY <1>1, <2>2
  <2>4. Placed(p)'
    BY <2>1, <2>3
  <2> QED BY <2>2, <2>4, PlacedThen
<1>3. ASSUME NEW j \in DOMAIN Line', NEW k \in DOMAIN Line', j < k
      PROVE  Apart(Line'[j], Line'[k])
  <2>1. j \in Nat /\ k \in Nat
    BY <1>1
  <2>2. j + 1 < k + 1
    BY <1>3, <2>1
  <2> QED BY <1>1, <2>2 DEF LineInv
<1>4. \A j, k \in DOMAIN Line' : j < k => Apart(Line[j], Line[k])'
  BY <1>3, ApartThen
<1> QED BY <1>2, <1>4 DEF LineInv

(* Steps of a process, or of none, that leave the queues as they are.      *)
Beside ==
    /\ pc' \in [Testers -> {"start", "loop", "closed"}] /\ sequence' \in [Testers -> Nat]
    /\ \A u \in Testers :
        /\ pc'[u] = "start" => pc[u] = "start" /\ sequence'[u] = sequence[u]
        /\ pc[u] = "closed" => pc'[u] = "closed"
        /\ sequence[u] <= sequence'[u]
    /\ reply_msgq' = reply_msgq /\ printed' = printed /\ gppq' = gppq /\ hold' = hold
    /\ parked' = parked /\ silent' = silent /\ refused' = refused

LEMMA BesideKept ==
  ASSUME DspTestInv, Beside
  PROVE  /\ ParkedInv' /\ (\A t \in Testers : QueueInv(t)' /\ PrintedInv(t)')
         /\ DspTest!OnlyEarlyOnesSilent'
         /\ \A n \in Messages : Placed(n) => Placed(n)'
         /\ DspTest!InQueues' = DspTest!InQueues
<1>1. TesterTypes
  BY DEF DspTestInv
<1>2. /\ reply_msgq' = reply_msgq /\ printed' = printed /\ gppq' = gppq /\ hold' = hold
      /\ parked' = parked /\ silent' = silent /\ refused' = refused
      /\ \A u : Unknown(u)' <=> Unknown(u)
  BY DEF Beside, Unknown
<1>3. \A u \in Testers :
        /\ pc'[u] = "start" => pc[u] = "start" /\ sequence'[u] = sequence[u]
        /\ pc[u] = "closed" => pc'[u] = "closed"
        /\ sequence[u] \in Nat /\ sequence'[u] \in Nat /\ sequence[u] <= sequence'[u]
  BY <1>1, TesterIs DEF Beside
<1>4. ASSUME NEW p \in parked'
      PROVE  /\ p.from \in Testers /\ p = Asked(p.from) /\ Unknown(p.from)'
             /\ pc'[p.from] # "start" /\ 0 < sequence'[p.from]
  <2>1. /\ p.from \in Testers /\ p = Asked(p.from) /\ Unknown(p.from)
        /\ pc[p.from] # "start" /\ 0 < sequence[p.from]
    BY <1>2 DEF DspTestInv, ParkedInv
  <2>2. 0 < sequence'[p.from]
    BY <1>3, <2>1
  <2> QED BY <1>2, <1>3, <2>1, <2>2
<1>5. ParkedInv'
  BY <1>4 DEF ParkedInv, Asked
<1>6. ASSUME NEW t \in Testers PROVE QueueInv(t)'
  <2>1. QueueInv(t) /\ \A k \in DOMAIN gppq[t] : gppq[t][k] \in Messages
    BY <1>1, TesterIs DEF DspTestInv, OrderInv
  <2>2. \A k \in DOMAIN gppq[t] : gppq[t][k].seq < sequence'[t]
    <3> SUFFICES ASSUME NEW k \in DOMAIN gppq[t] PROVE gppq[t][k].seq < sequence'[t]
      OBVIOUS
    <3>1. gppq[t][k].seq < sequence[t] /\ gppq[t][k].seq \in Nat
      BY <2>1 DEF QueueInv, Messages
    <3> QED BY <1>3, <3>1
  <2> QED BY <1>2, <2>1, <2>2 DEF QueueInv
<1>7. ASSUME NEW t \in Testers PROVE PrintedInv(t)'
  <2>1. PrintedInv(t) /\ \A k \in DOMAIN printed[t] : printed[t][k] \in Nat
    BY <1>1, TesterIs DEF DspTestInv, OrderInv
  <2>2. \A k \in DOMAIN printed[t] : printed[t][k] < sequence'[t]
    <3> SUFFICES ASSUME NEW k \in DOMAIN printed[t] PROVE printed[t][k] < sequence'[t]
      OBVIOUS
    <3>1. printed[t][k] < sequence[t] /\ printed[t][k] \in Nat
      BY <2>1 DEF PrintedInv
    <3> QED BY <1>3, <3>1
  <2>3. pc'[t] = "start" => Unknown(t)' /\ sequence'[t] = 0
    BY <1>2, <1>3, <2>1 DEF PrintedInv
  <2> QED BY <1>2, <2>1, <2>2, <2>3 DEF PrintedInv
<1>8. DspTest!OnlyEarlyOnesSilent'
  <2>1. \A m \in silent :
          m.from \in Testers /\ (m.reply = NoQueue \/ pc[m.from] = "closed" \/ m \in refused)
    BY <1>1 DEF DspTestInv, TesterTypes, Messages, DspTest!OnlyEarlyOnesSilent
  <2> QED BY <1>2, <1>3, <2>1 DEF DspTest!OnlyEarlyOnesSilent
<1>9. ASSUME NEW n \in Messages, Placed(n) PROVE Placed(n)'
  <2>1. n.from \in Testers /\ n.seq \in Nat
    BY DEF Messages
  <2>2. pc'[n.from] # "start"
    BY <1>3, <1>9, <2>1 DEF Placed
  <2>3. n.seq < sequence[n.from] => n.seq < sequence'[n.from]
    BY <1>3, <2>1
  <2>4. 0 < sequence[n.from] => 0 < sequence'[n.from]
    BY <1>3, <2>1
  <2> QED BY <1>2, <1>9, <2>2, <2>3, <2>4 DEF Placed, Asked, DspTest!Async
<1>10. DspTest!InQueues' = DspTest!InQueues
  BY <1>2 DEF DspTest!InQueues
<1> QED BY <1>5, <1>6, <1>7, <1>8, <1>9, <1>10

LEMMA BesideLine ==
  ASSUME DspTestInv, Beside, dspq' = dspq, free' = free
  PROVE  DspTestInv'
<1>1. Line' = Line /\ hold' = hold
  BY DEF Line, Beside
<1>2. LineInv'
  BY <1>1, BesideKept, LineStays DEF DspTestInv
<1>3. TesterTypes'
  <2>1. /\ reply_msgq' = reply_msgq /\ printed' = printed /\ gppq' = gppq /\ hold' = hold
        /\ silent' = silent /\ refused' = refused
        /\ pc' \in [Testers -> {"start", "loop", "closed"}]
        /\ sequence' \in [Testers -> Nat]
    BY DEF Beside
  <2> HIDE DEF Messages
  <2> QED BY <2>1 DEF DspTestInv, TesterTypes
<1>4. \A t \in Testers : BehindInv(t)'
  BY <1>1 DEF DspTestInv, OrderInv, BehindInv, Beside
<1>5. OrderInv'
  BY <1>4, BesideKept DEF OrderInv
<1>6. BuffersInv'
  BY BesideKept DEF DspTestInv, BuffersInv, Beside
<1> QED BY <1>2, <1>3, <1>5, <1>6, BesideKept DEF DspTestInv

(* A process sends: as its first message it asks for the handle, then a    *)
(* MULT with the handle it has.                                            *)
LEMMA SendKept ==
  ASSUME DspTestInv, Beside, NEW t \in Testers, NEW m \in Messages,
         dspq' = Append(dspq, m), free > 0, free' = free - 1, sequence'[t] = sequence[t] + 1,
         pc'[t] # "start", m.from = t, m.seq = sequence[t],
         \/ m = Asked(t) /\ pc[t] = "start"
         \/ m.subid = "mult" /\ m.reply = reply_msgq[t]
  PROVE  DspTestInv'
<1>1. TesterTypes /\ LineInv /\ QueueInv(t) /\ PrintedInv(t) /\ sequence[t] \in Nat
  BY TesterIs DEF DspTestInv, OrderInv
<1>2. /\ reply_msgq' = reply_msgq /\ printed' = printed /\ gppq' = gppq /\ hold' = hold
      /\ parked' = parked /\ silent' = silent /\ refused' = refused
      /\ \A u : Unknown(u)' <=> Unknown(u)
  BY DEF Beside, Unknown
<1>3. /\ dspq' \in Seq(Messages) /\ Len(dspq') = Len(dspq) + 1
      /\ \A k \in DOMAIN Line : Line[k] \in Messages
      /\ \A k \in DOMAIN Line' :
           (k \in DOMAIN Line /\ Line'[k] = Line[k]) \/ Line'[k] = m
  BY <1>1, <1>2, LineJoined
<1>4. m.subid \in {"mult", "getreply"}
  BY DEF Asked
<1>5. Placed(m)'
  <2>1. 0 < sequence'[t] /\ m.seq < sequence'[t]
    BY <1>1
  <2>2. CASE m = Asked(t) /\ pc[t] = "start"
    <3>1. Unknown(t)
      BY <1>1, <2>2 DEF PrintedInv
    <3>2. m \notin parked
      BY <2>2 DEF DspTestInv, ParkedInv
    <3>3. m.subid = "getreply"
      BY <2>2 DEF Asked
    <3> QED BY <1>2, <2>1, <2>2, <3>1, <3>2, <3>3 DEF Placed, Asked
  <2>3. CASE m.subid = "mult" /\ m.reply = reply_msgq[t]
    <3>1. m.reply = NoQueue \/ (m.reply = t /\ reply_msgq[t] = t)
      BY <1>1, <2>3 DEF PrintedInv
    <3> QED BY <1>2, <2>1, <2>3, <3>1 DEF Placed
  <2> QED BY <2>2, <2>3
<1>6. ASSUME NEW k \in DOMAIN Line PROVE Apart(Line[k], m)
  <2> DEFINE n == Line[k]
  <2>1. n \in Messages /\ Placed(n)
    BY <1>1, <1>3 DEF LineInv
  <2>2. n.subid = "async" => n # m
    BY <1>4
  <2>3. ASSUME n.subid # "async", n.from = t PROVE n.seq < m.seq
    <3>1. n.subid \in {"mult", "getreply"} /\ pc[t] # "start"
      BY <2>1, <2>3 DEF Messages, Subids, Placed
    <3>2. n.subid = "getreply" => n.seq = 0
      BY <2>1 DEF Placed, Asked
    <3> QED BY <2>1, <2>3, <3>1, <3>2 DEF Placed
  <2> QED BY <2>2, <2>3 DEF Apart
<1>7. LineInv'
  BY <1>1, <1>2, <1>5, <1>6, BesideKept, LineGrows
<1>8. TesterTypes'
  <2>1. pc' \in [Testers -> {"start", "loop", "closed"}] /\ sequence' \in [Testers -> Nat]
    BY DEF Beside
  <2>2. free' \in Nat
    BY <1>1 DEF TesterTypes
  <2> HIDE DEF Messages
  <2> QED BY <1>1, <1>2, <1>3, <2>1, <2>2 DEF TesterTypes
<1>9. ASSUME NEW u \in Testers PROVE BehindInv(u)'
  <2>1. BehindInv(u) /\ NoQueue \notin Testers /\ PrintedInv(u) /\ QueueInv(u)
    BY TesterConstants DEF DspTestInv, OrderInv
  <2>2. ASSUME NEW k \in DOMAIN Line', Line'[k].subid = "mult", Line'[k].reply = u
        PROVE  /\ \A j \in DOMAIN gppq[u] : gppq[u][j].seq < Line'[k].seq
               /\ \A j \in DOMAIN printed[u] : printed[u][j] < Line'[k].seq
    <3>1. CASE k \in DOMAIN Line /\ Line'[k] = Line[k]
      BY <2>1, <2>2, <3>1 DEF BehindInv
    <3>2. CASE Line'[k] = m
      <4>1. m.subid = "mult" /\ m.reply = u
        BY <2>2, <3>2
      <4>2. m.reply = reply_msgq[t]
        BY <4>1 DEF Asked
      <4>3. u = t
        BY <1>1, <2>1, <4>1, <4>2 DEF PrintedInv
      <4> QED BY <2>1, <3>2, <4>3 DEF PrintedInv, QueueInv
    <3> QED BY <1>3, <3>1, <3>2
  <2> QED BY <1>2, <2>2 DEF BehindInv
<1>10. OrderInv'
  BY <1>9, BesideKept DEF OrderInv
<1>11. BuffersInv'
  <2>1. /\ IsFiniteSet(parked) /\ IsFiniteSet(DspTest!InQueues)
        /\ free + Len(dspq) + Len(hold) + Cardinality(parked)
              + Cardinality(DspTest!InQueues) = PoolSize
        /\ free \in Nat /\ Len(dspq) \in Nat /\ Len(hold) \in Nat
        /\ Cardinality(parked) \in Nat /\ Cardinality(DspTest!InQueues) \in Nat
    BY <1>1, LineIs, FS_CardinalityType DEF DspTestInv, BuffersInv, TesterTypes
  <2>2. DspTest!InQueues' = DspTest!InQueues
    BY BesideKept
  <2>3. Len(hold') = Len(hold) /\ Cardinality(parked') = Cardinality(parked)
    BY <1>2
  <2> DEFINE a == Len(hold)
             b == Cardinality(parked)
             c == Cardinality(DspTest!InQueues)
             d == Len(dspq)
  <2>4. free + d + a + b + c = PoolSize /\ a \in Nat /\ b \in Nat /\ c \in Nat /\ d \in Nat
        /\ free \in Nat
    BY <2>1
  <2> HIDE DEF a, b, c, d
  <2>5. (free - 1) + (d + 1) + a + b + c = PoolSize
    BY ONLY <2>4
  <2>6. free' + Len(dspq') + Len(hold') + Cardinality(parked')
              + Cardinality(DspTest!InQueues)' = PoolSize
    BY <1>3, <2>2, <2>3, <2>5 DEF a, b, c, d
  <2> QED BY <1>2, <2>1, <2>2, <2>6 DEF BuffersInv
<1> QED BY <1>7, <1>8, <1>10, <1>11, BesideKept DEF DspTestInv

LEMMA TailIs ==
  ASSUME NEW V, NEW s \in Seq(V), s # <<>>
  PROVE  /\ Tail(s) \in Seq(V) /\ Head(s) = s[1] /\ 1 \in DOMAIN s /\ s[1] \in V
         /\ Len(s) \in Nat \ {0} /\ DOMAIN Tail(s) = 1..(Len(s) - 1) /\ DOMAIN s = 1..Len(s)
         /\ Len(Tail(s)) = Len(s) - 1
         /\ \A k \in DOMAIN Tail(s) :
              k \in Nat \ {0} /\ k + 1 \in DOMAIN s /\ Tail(s)[k] = s[k + 1]
<1>1. /\ Len(s) \in Nat \ {0} /\ DOMAIN s = 1..Len(s)
      /\ Tail(s) \in Seq(V) /\ Len(Tail(s)) = Len(s) - 1 /\ Head(s) = s[1]
      /\ \A k \in 1..(Len(s) - 1) : Tail(s)[k] = s[k + 1]
  BY HeadTailProperties, LenProperties, EmptySeq
<1>2. DOMAIN Tail(s) = 1..(Len(s) - 1)
  BY <1>1, LenProperties
<1>3. \A k \in 1..(Len(s) - 1) : k \in Nat \ {0} /\ k + 1 \in 1..Len(s)
  BY <1>1
<1>4. 1 \in DOMAIN s /\ s[1] \in V
  BY <1>1, ElementOfSeq
<1> QED BY <1>1, <1>2, <1>3, <1>4

LEMMA GetKept ==
  ASSUME DspTestInv, NEW t \in Testers, DspTest!Get(t)
  PROVE  DspTestInv'
<1> DEFINE q == gppq[t]
           h == q[1]
<1>1. /\ pc[t] = "loop" /\ gppq[t] # <<>>
      /\ reply_msgq' = [reply_msgq EXCEPT ![t] =
            IF Head(gppq[t]).subid = "getreply" THEN Head(gppq[t]).reply ELSE @]
      /\ printed' = [printed EXCEPT ![t] = Append(@, Head(gppq[t]).seq)]
      /\ gppq' = [gppq EXCEPT ![t] = Tail(@)]
      /\ free' = free + 1
      /\ pc' = pc /\ sequence' = sequence /\ dspq' = dspq /\ hold' = hold
      /\ parked' = parked /\ silent' = silent /\ refused' = refused
  BY DEF DspTest!Get, DspTest!dspVars
<1>2. TesterTypes /\ LineInv /\ QueueInv(t) /\ PrintedInv(t) /\ BehindInv(t)
      /\ NoQueue \notin Testers
  BY TesterConstants DEF DspTestInv, OrderInv
<1>3. /\ gppq[t] \in Seq(Messages) /\ printed[t] \in Seq(Nat) /\ sequence[t] \in Nat
      /\ DOMAIN printed[t] = 1..Len(printed[t]) /\ Len(printed[t]) \in Nat
      /\ \A k \in DOMAIN printed[t] : printed[t][k] \in Nat
      /\ \A k \in DOMAIN gppq[t] : gppq[t][k] \in Messages
  BY <1>2, TesterIs
<1>4. /\ Tail(q) \in Seq(Messages) /\ Head(q) = h /\ 1 \in DOMAIN q /\ h \in Messages
      /\ Len(q) \in Nat \ {0} /\ DOMAIN Tail(q) = 1..(Len(q) - 1) /\ DOMAIN q = 1..Len(q)
      /\ \A k \in DOMAIN Tail(q) :
           k \in Nat \ {0} /\ k + 1 \in DOMAIN q /\ Tail(q)[k] = q[k + 1]
  BY <1>1, <1>3, TailIs
<1>5. h.seq \in Nat /\ h.seq < sequence[t] /\ h.from = t /\ h.reply = t
      /\ \/ h.subid = "mult" /\ reply_msgq[t] = t
         \/ h.subid = "getreply" /\ h.seq = 0 /\ printed[t] = <<>> /\ reply_msgq[t] = NoQueue
  BY <1>2, <1>4 DEF QueueInv, Messages
<1>6. /\ gppq'[t] = Tail(q) /\ printed'[t] = Append(printed[t], h.seq) /\ reply_msgq'[t] = t
      /\ \A u \in Testers : u # t =>
            gppq'[u] = gppq[u] /\ printed'[u] = printed[u] /\ reply_msgq'[u] = reply_msgq[u]
  <2>1. h.subid # "getreply" => reply_msgq[t] = t
    BY <1>5
  <2>2. reply_msgq'[t] = IF h.subid = "getreply" THEN h.reply ELSE reply_msgq[t]
    <3> HIDE DEF h
    <3> QED BY <1>1, <1>2, <1>4 DEF TesterTypes
  <2>3. reply_msgq'[t] = t
    BY <1>5, <2>1, <2>2
  <2>4. gppq'[t] = Tail(q) /\ printed'[t] = Append(printed[t], h.seq)
    BY <1>1, <1>2, <1>4 DEF TesterTypes
  <2>5. \A u \in Testers : u # t =>
            gppq'[u] = gppq[u] /\ printed'[u] = printed[u] /\ reply_msgq'[u] = reply_msgq[u]
    BY <1>1, <1>2 DEF TesterTypes
  <2> QED BY <2>3, <2>4, <2>5
<1>7. /\ printed'[t] \in Seq(Nat) /\ printed'[t] # <<>>
      /\ DOMAIN printed'[t] = 1..(Len(printed[t]) + 1)
      /\ \A k \in DOMAIN printed[t] : printed'[t][k] = printed[t][k]
      /\ printed'[t][Len(printed[t]) + 1] = h.seq
  <2> DEFINE before == printed[t]
             n == h.seq
  <2>1. before \in Seq(Nat) /\ n \in Nat
    BY <1>3, <1>5
  <2> HIDE DEF before, n
  <2>2. /\ Append(before, n) \in Seq(Nat) /\ Append(before, n) # <<>>
        /\ Len(Append(before, n)) = Len(before) + 1
        /\ \A k \in 1..Len(before) : Append(before, n)[k] = before[k]
        /\ Append(before, n)[Len(before) + 1] = n
    BY <2>1, AppendProperties
  <2>3. DOMAIN Append(before, n) = 1..(Len(before) + 1)
    BY <2>2, LenProperties
  <2> QED BY <1>3, <1>6, <2>2, <2>3 DEF before, n
<1> HIDE DEF q, h
<1>8. gppq[t] = q /\ q # <<>> /\ ~Unknown(t)
  BY <1>1 DEF q, Unknown
<1>9. ASSUME NEW u \in Testers, Unknown(u) PROVE u # t /\ Unknown(u)'
  <2>1. u # t
    BY <1>8, <1>9
  <2> QED BY <1>6, <1>9, <2>1 DEF Unknown
<1>10. ASSUME NEW n \in Messages, Placed(n) PROVE Placed(n)'
  <2>1. n.from \in Testers
    BY DEF Messages
  <2>2. reply_msgq[n.from] = n.from => reply_msgq'[n.from] = n.from
    BY <1>6, <2>1
  <2>3. n.subid = "getreply" => Unknown(n.from)'
    BY <1>9, <1>10, <2>1 DEF Placed
  <2> QED BY <1>1, <1>10, <2>2, <2>3 DEF Placed, Asked, DspTest!Async
<1>11. LineInv'
  <2>1. Line' = Line
    BY <1>1 DEF Line
  <2> QED BY <1>2, <1>10, <2>1, LineStays
<1>12. ParkedInv'
  <2>1. ASSUME NEW p \in parked'
        PROVE  /\ p.from \in Testers /\ p = Asked(p.from) /\ Unknown(p.from)'
               /\ pc'[p.from] # "start" /\ 0 < sequence'[p.from]
    <3>1. /\ p.from \in Testers /\ p = Asked(p.from) /\ Unknown(p.from)
          /\ pc[p.from] # "start" /\ 0 < sequence[p.from]
      BY <1>1 DEF DspTestInv, ParkedInv
    <3> QED BY <1>1, <1>9, <3>1
  <2> QED BY <2>1 DEF ParkedInv, Asked
<1>13. TesterTypes'
  <2>1. reply_msgq' \in [Testers -> Testers \cup {NoQueue}]
    BY <1>1, <1>2, <1>6 DEF TesterTypes
  <2>2. printed' \in [Testers -> Seq(Nat)]
    BY <1>1, <1>2, <1>6, <1>7 DEF TesterTypes
  <2>3. gppq' \in [Testers -> Seq(Messages)]
    <3> HIDE DEF Messages
    <3> QED BY <1>1, <1>2, <1>4, <1>6 DEF TesterTypes
  <2>4. free' \in Nat
    BY <1>1, <1>2 DEF TesterTypes
  <2> HIDE DEF Messages
  <2> QED BY <1>1, <1>2, <2>1, <2>2, <2>3, <2>4 DEF TesterTypes
<1>14. QueueInv(t)'
  <2>1. ASSUME NEW k \in DOMAIN gppq'[t]
        PROVE  /\ k \in Nat \ {0} /\ k + 1 \in DOMAIN q /\ gppq'[t][k] = q[k + 1]
               /\ q[k + 1].from = t /\ q[k + 1].reply = t /\ q[k + 1].seq < sequence[t]
               /\ q[k + 1].subid = "mult" /\ h.seq < q[k + 1].seq
    <3>1. k \in Nat \ {0} /\ k + 1 \in DOMAIN q /\ gppq'[t][k] = q[k + 1]
      BY <1>4, <1>6
    <3>2. 1 < k + 1 /\ k + 1 # 1
      BY <3>1
    <3>3. q[1].seq < q[k + 1].seq
      BY <1>2, <1>4, <1>8, <3>1, <3>2 DEF QueueInv
    <3>4. /\ q[k + 1].from = t /\ q[k + 1].reply = t /\ q[k + 1].seq < sequence[t]
          /\ q[k + 1].subid = "mult"
      BY <1>2, <1>8, <3>1, <3>2 DEF QueueInv
    <3> QED BY <3>1, <3>3, <3>4 DEF h
  <2>2. ASSUME NEW j \in DOMAIN gppq'[t], NEW k \in DOMAIN gppq'[t], j < k
        PROVE  gppq'[t][j].seq < gppq'[t][k].seq
    <3>1. j + 1 < k + 1
      BY <2>1, <2>2
    <3> QED BY <1>2, <1>8, <2>1, <3>1 DEF QueueInv
  <2>3. ASSUME NEW j \in DOMAIN printed'[t], NEW k \in DOMAIN gppq'[t]
        PROVE  printed'[t][j] < gppq'[t][k].seq
    <3>1. CASE j \in DOMAIN printed[t]
      BY <1>2, <1>7, <1>8, <2>1, <3>1 DEF QueueInv
    <3>2. CASE j = Len(printed[t]) + 1
      BY <1>7, <2>1, <3>2
    <3>3. j \in DOMAIN printed[t] \/ j = Len(printed[t]) + 1
      BY <1>3, <1>7
    <3> QED BY <3>1, <3>2, <3>3
  <2>4. \A k \in DOMAIN gppq'[t] :
          /\ gppq'[t][k].from = t /\ gppq'[t][k].reply = t /\ gppq'[t][k].seq < sequence'[t]
          /\ gppq'[t][k].subid = "mult" /\ reply_msgq'[t] = t
    BY <1>1, <1>6, <2>1
  <2> QED BY <2>2, <2>3, <2>4 DEF QueueInv
<1>15. PrintedInv(t)'
  <2>1. \A k \in DOMAIN printed'[t] : k \in DOMAIN printed[t] \/ k = Len(printed[t]) + 1
    BY <1>3, <1>7
  <2>2. \A k \in DOMAIN printed'[t] : printed'[t][k] < sequence'[t]
    BY <1>1, <1>2, <1>5, <1>7, <2>1 DEF PrintedInv
  <2>3. ASSUME NEW j \in DOMAIN printed'[t], NEW k \in DOMAIN printed'[t], j < k
        PROVE  printed'[t][j] < printed'[t][k]
    <3>1. j \in DOMAIN printed[t]
      BY <1>3, <1>7, <2>3
    <3>2. CASE k \in DOMAIN printed[t]
      BY <1>2, <1>7, <2>3, <3>1, <3>2 DEF PrintedInv
    <3>3. CASE k = Len(printed[t]) + 1
      <4>1. printed[t][j] < h.seq
        BY <1>2, <1>4, <1>8, <3>1 DEF QueueInv, h
      <4> QED BY <1>7, <3>1, <3>3, <4>1
    <3> QED BY <2>1, <3>2, <3>3
  <2>4. printed'[t][1] = 0
    <3>1. CASE printed[t] = <<>>
      <4>1. h.seq = 0
        BY <1>2, <1>5, <3>1, TesterConstants DEF PrintedInv
      <4>2. Len(printed[t]) + 1 = 1
        BY <3>1
      <4> QED BY <1>7, <4>1, <4>2
    <3>2. CASE printed[t] # <<>>
      <4>1. 1 \in DOMAIN printed[t]
        BY <1>3, <3>2, EmptySeq
      <4> QED BY <1>2, <1>7, <3>2, <4>1 DEF PrintedInv
    <3> QED BY <3>1, <3>2
  <2> QED BY <1>1, <1>6, <1>7, <2>2, <2>3, <2>4 DEF PrintedInv
<1>16. BehindInv(t)'
  <2>1. ASSUME NEW k \in DOMAIN Line, Line[k].subid = "mult", Line[k].reply = t
        PROVE  /\ \A j \in DOMAIN gppq'[t] : gppq'[t][j].seq < Line[k].seq
               /\ \A j \in DOMAIN printed'[t] : printed'[t][j] < Line[k].seq
    <3>1. /\ \A j \in DOMAIN q : q[j].seq < Line[k].seq
          /\ \A j \in DOMAIN printed[t] : printed[t][j] < Line[k].seq
      BY <1>2, <1>8, <2>1 DEF BehindInv
    <3>2. h.seq < Line[k].seq
      BY <1>4, <3>1 DEF h
    <3>3. ASSUME NEW j \in DOMAIN printed'[t] PROVE printed'[t][j] < Line[k].seq
      <4>1. j \in DOMAIN printed[t] \/ j = Len(printed[t]) + 1
        BY <1>3, <1>7
      <4> QED BY <1>7, <3>1, <3>2, <4>1
    <3> QED BY <1>4, <1>6, <3>1, <3>3
  <2>2. Line' = Line
    BY <1>1 DEF Line
  <2> QED BY <2>1, <2>2 DEF BehindInv
<1>17. ASSUME NEW u \in Testers, u # t PROVE QueueInv(u)' /\ PrintedInv(u)' /\ BehindInv(u)'
  <2>1. QueueInv(u) /\ PrintedInv(u) /\ BehindInv(u)
    BY DEF DspTestInv, OrderInv
  <2>2. /\ gppq'[u] = gppq[u] /\ printed'[u] = printed[u] /\ reply_msgq'[u] = reply_msgq[u]
        /\ sequence'[u] = sequence[u] /\ pc'[u] = pc[u] /\ Line' = Line
    BY <1>1, <1>6, <1>17 DEF Line
  <2>3. QueueInv(u)'
    BY <2>1, <2>2 DEF QueueInv
  <2>4. PrintedInv(u)'
    BY <2>1, <2>2 DEF PrintedInv, Unknown
  <2>5. BehindInv(u)'
    BY <2>1, <2>2 DEF BehindInv
  <2> QED BY <2>3, <2>4, <2>5
<1>18. OrderInv'
  BY <1>14, <1>15, <1>16, <1>17 DEF OrderInv
<1>19. BuffersInv'
  <2>1. /\ IsFiniteSet(parked) /\ IsFiniteSet(DspTest!InQueues)
        /\ free + Len(dspq) + Len(hold) + Cardinality(parked)
              + Cardinality(DspTest!InQueues) = PoolSize
        /\ free \in Nat /\ Len(dspq) \in Nat /\ Len(hold) \in Nat
        /\ Cardinality(parked) \in Nat /\ Cardinality(DspTest!InQueues) \in Nat
    BY <1>2, LineIs, FS_CardinalityType DEF DspTestInv, BuffersInv, TesterTypes
  <2> DEFINE last == <<t, Len(q)>>
             rest == DspTest!InQueues \ {last}
  <2>2. last \in DspTest!InQueues
    <3>1. Len(q) \in DOMAIN gppq[t]
      BY <1>4, <1>8
    <3> QED BY <3>1 DEF DspTest!InQueues
  <2>3. DspTest!InQueues' = rest
    <3>1. DOMAIN gppq'[t] = DOMAIN gppq[t] \ {Len(q)}
      <4>1. 1..(Len(q) - 1) = (1..Len(q)) \ {Len(q)}
        BY <1>4
      <4> QED BY <1>4, <1>6, <1>8, <4>1
    <3>2. \A u \in Testers : u # t => DOMAIN gppq'[u] = DOMAIN gppq[u]
      BY <1>6
    <3> QED BY <3>1, <3>2 DEF DspTest!InQueues
  <2>4. IsFiniteSet(rest) /\ Cardinality(rest) = Cardinality(DspTest!InQueues) - 1
    BY <2>1, <2>2, FS_RemoveElement
  <2> DEFINE a == Len(hold)
             b == Cardinality(parked)
             c == Cardinality(DspTest!InQueues)
             d == Len(dspq)
  <2>5. free + d + a + b + c = PoolSize /\ a \in Nat /\ b \in Nat /\ c \in Nat /\ d \in Nat
        /\ free \in Nat
    BY <2>1
  <2> HIDE DEF a, b, c, d, rest
  <2>6. (free + 1) + d + a + b + (c - 1) = PoolSize
    BY ONLY <2>5
  <2>7. free' + Len(dspq') + Len(hold') + Cardinality(parked')
              + Cardinality(DspTest!InQueues') = PoolSize
    BY <1>1, <2>3, <2>4, <2>6 DEF a, b, c, d
  <2> QED BY <1>1, <2>1, <2>3, <2>4, <2>7 DEF BuffersInv
<1>20. DspTest!OnlyEarlyOnesSilent'
  BY <1>1 DEF DspTestInv, DspTest!OnlyEarlyOnesSilent
<1> QED BY <1>11, <1>12, <1>13, <1>18, <1>19, <1>20 DEF DspTestInv

LEMMA BeginKept ==
  ASSUME DspTestInv, NEW t \in Testers, DspTest!Begin(t)
  PROVE  DspTestInv'
<1>1. /\ pc[t] = "start" /\ TesterTypes /\ PrintedInv(t) /\ sequence[t] \in Nat
      /\ reply_msgq' = reply_msgq /\ printed' = printed /\ gppq' = gppq /\ hold' = hold
      /\ parked' = parked /\ silent' = silent /\ refused' = refused
  BY TesterIs DEF DspTest!Begin, DspTest!dspVars, DspTestInv, OrderInv
<1>2. sequence[t] = 0
  BY <1>1 DEF PrintedInv
<1>3. CASE DspTest!Send(t, DspTest!GetReply(t)) /\ pc' = [pc EXCEPT ![t] = "loop"]
  <2>1. DspTest!GetReply(t) = Asked(t)
    BY <1>2 DEF DspTest!GetReply, Asked
  <2>2. /\ free > 0 /\ free' = free - 1 /\ dspq' = Append(dspq, Asked(t))
        /\ sequence' = [sequence EXCEPT ![t] = @ + 1] /\ pc' = [pc EXCEPT ![t] = "loop"]
    BY <1>3, <2>1 DEF DspTest!Send
  <2>3. Beside
    BY <1>1, <2>2 DEF Beside, TesterTypes
  <2>4. Asked(t) \in Messages /\ Asked(t).from = t /\ Asked(t).seq = sequence[t]
    BY <1>2 DEF Asked, Messages, Subids
  <2>5. sequence'[t] = sequence[t] + 1 /\ pc'[t] # "start"
    BY <1>1, <2>2 DEF TesterTypes
  <2> QED BY <1>1, <2>2, <2>3, <2>4, <2>5, SendKept
<1>4. CASE DspTest!SendFails(t) /\ pc' = [pc EXCEPT ![t] = "closed"]
  <2>1. /\ free' = free /\ dspq' = dspq
        /\ sequence' = [sequence EXCEPT ![t] = @ + 1] /\ pc' = [pc EXCEPT ![t] = "closed"]
    BY <1>4 DEF DspTest!SendFails
  <2>2. Beside
    BY <1>1, <2>1 DEF Beside, TesterTypes
  <2> QED BY <2>1, <2>2, BesideLine
<1>5. CASE /\ free = 0 /\ pc' = [pc EXCEPT ![t] = "closed"]
           /\ UNCHANGED <<free, dspq, sequence>>
  <2>1. Beside
    BY <1>1, <1>5 DEF Beside, TesterTypes
  <2> QED BY <1>5, <2>1, BesideLine
<1> QED BY <1>3, <1>4, <1>5 DEF DspTest!Begin

LEMMA TimeoutKept ==
  ASSUME DspTestInv, NEW t \in Testers, DspTest!Timeout(t)
  PROVE  DspTestInv'
<1>1. /\ pc[t] = "loop" /\ TesterTypes /\ sequence[t] \in Nat
      /\ reply_msgq[t] \in Testers \cup {NoQueue} /\ pc' = pc
      /\ reply_msgq' = reply_msgq /\ printed' = printed /\ gppq' = gppq /\ hold' = hold
      /\ parked' = parked /\ silent' = silent /\ refused' = refused
  BY TesterIs DEF DspTest!Timeout, DspTest!dspVars, DspTestInv
<1>2. CASE DspTest!Send(t, DspTest!Mult(t))
  <2> DEFINE m == DspTest!Mult(t)
  <2>1. /\ free > 0 /\ free' = free - 1 /\ dspq' = Append(dspq, m)
        /\ sequence' = [sequence EXCEPT ![t] = @ + 1]
    BY <1>2 DEF DspTest!Send
  <2>2. Beside
    BY <1>1, <2>1 DEF Beside, TesterTypes
  <2>3. /\ m \in Messages /\ m.from = t /\ m.seq = sequence[t] /\ m.subid = "mult"
        /\ m.reply = reply_msgq[t]
    BY <1>1 DEF DspTest!Mult, Messages, Subids
  <2>4. sequence'[t] = sequence[t] + 1 /\ pc'[t] # "start"
    BY <1>1, <2>1 DEF TesterTypes
  <2> HIDE DEF m
  <2> QED BY <2>1, <2>2, <2>3, <2>4, SendKept
<1>3. CASE DspTest!SendFails(t)
  <2>1. free' = free /\ dspq' = dspq /\ sequence' = [sequence EXCEPT ![t] = @ + 1]
    BY <1>3 DEF DspTest!SendFails
  <2>2. Beside
    BY <1>1, <2>1 DEF Beside, TesterTypes
  <2> QED BY <2>1, <2>2, BesideLine
<1> QED BY <1>2, <1>3 DEF DspTest!Timeout

LEMMA GetFailedKept ==
  ASSUME DspTestInv, NEW t \in Testers, DspTest!GetFailed(t)
  PROVE  DspTestInv'
<1>1. /\ TesterTypes /\ pc[t] = "loop" /\ pc' = [pc EXCEPT ![t] = "closed"]
      /\ sequence' = sequence /\ free' = free /\ dspq' = dspq
      /\ reply_msgq' = reply_msgq /\ printed' = printed /\ gppq' = gppq /\ hold' = hold
      /\ parked' = parked /\ silent' = silent /\ refused' = refused
  BY DEF DspTest!GetFailed, DspTest!dspVars, DspTestInv
<1>2. Beside
  BY <1>1 DEF Beside, TesterTypes
<1> QED BY <1>1, <1>2, BesideLine

LEMMA DspStopsKept ==
  ASSUME DspTestInv, DspTest!DspStops
  PROVE  DspTestInv'
<1>1. /\ TesterTypes /\ pc' = pc /\ sequence' = sequence /\ free' = free /\ dspq' = dspq
      /\ reply_msgq' = reply_msgq /\ printed' = printed /\ gppq' = gppq /\ hold' = hold
      /\ parked' = parked /\ silent' = silent /\ refused' = refused
  BY DEF DspTest!DspStops, DspTest!testVars, DspTestInv
<1>2. Beside
  BY <1>1 DEF Beside, TesterTypes
<1> QED BY <1>1, <1>2, BesideLine

(* The message the task takes in hand stays the first of the line.         *)
LEMMA DspGetKept ==
  ASSUME DspTestInv, DspTest!DspGet
  PROVE  DspTestInv'
<1>1. /\ hold = <<>> /\ dspq # <<>> /\ hold' = <<Head(dspq)>> /\ dspq' = Tail(dspq)
      /\ pc' = pc /\ sequence' = sequence /\ free' = free
      /\ reply_msgq' = reply_msgq /\ printed' = printed /\ gppq' = gppq
      /\ parked' = parked /\ silent' = silent /\ refused' = refused
  BY DEF DspTest!DspGet, DspTest!testVars
<1>2. TesterTypes /\ LineInv /\ dspq \in Seq(Messages)
  BY DEF DspTestInv, TesterTypes
<1>3. /\ Tail(dspq) \in Seq(Messages) /\ Head(dspq) = dspq[1] /\ dspq[1] \in Messages
      /\ Len(dspq) \in Nat \ {0} /\ Len(Tail(dspq)) = Len(dspq) - 1
  <2> HIDE DEF Messages
  <2> QED BY <1>1, <1>2, TailIs
<1>4. Line' = Line
  <2>1. Line = dspq
    BY <1>1, <1>2, ConcatEmptySeq DEF Line
  <2>2. dspq = <<Head(dspq)>> \o Tail(dspq)
    BY <1>1, <1>2, HeadTailProperties
  <2> QED BY <1>1, <2>1, <2>2 DEF Line
<1>5. \A u : Unknown(u)' <=> Unknown(u)
  BY <1>1 DEF Unknown
<1>6. LineInv'
  <2>1. \A n \in Messages : Placed(n) => Placed(n)'
    BY <1>1, <1>5 DEF Placed, Asked, DspTest!Async
  <2> QED BY <1>2, <1>4, <2>1, LineStays
<1>7. TesterTypes'
  <2> HIDE DEF Messages
  <2> QED BY <1>1, <1>2, <1>3 DEF TesterTypes
<1>8. ParkedInv'
  BY <1>1, <1>5 DEF DspTestInv, ParkedInv, Asked
<1>9. OrderInv'
  <2> SUFFICES ASSUME NEW t \in Testers PROVE (QueueInv(t) /\ PrintedInv(t) /\ BehindInv(t))'
    BY DEF OrderInv
  <2>1. QueueInv(t) /\ PrintedInv(t) /\ BehindInv(t)
    BY DEF DspTestInv, OrderInv
  <2>2. QueueInv(t)'
    BY <1>1, <2>1 DEF QueueInv
  <2>3. PrintedInv(t)'
    BY <1>1, <1>5, <2>1 DEF PrintedInv
  <2>4. BehindInv(t)'
    BY <1>1, <1>4, <2>1 DEF BehindInv
  <2> QED BY <2>2, <2>3, <2>4
<1>10. BuffersInv'
  <2>1. DspTest!InQueues' = DspTest!InQueues
    BY <1>1 DEF DspTest!InQueues
  <2>2. Len(hold) = 0 /\ Len(hold') = 1
    BY <1>1
  <2>3. /\ IsFiniteSet(parked) /\ IsFiniteSet(DspTest!InQueues)
        /\ free + Len(dspq) + 0 + Cardinality(parked)
              + Cardinality(DspTest!InQueues) = PoolSize
    BY <2>2 DEF DspTestInv, BuffersInv
  <2>4. /\ free \in Nat /\ Cardinality(parked) \in Nat
        /\ Cardinality(DspTest!InQueues) \in Nat
    BY <1>2, <2>3, FS_CardinalityType DEF TesterTypes
  <2> DEFINE b == Cardinality(parked)
             c == Cardinality(DspTest!InQueues)
             d == Len(dspq)
  <2>5. free + d + 0 + b + c = PoolSize /\ b \in Nat /\ c \in Nat /\ d \in Nat
        /\ free \in Nat
    BY <1>3, <2>3, <2>4
  <2> HIDE DEF b, c, d
  <2>6. free + (d - 1) + 1 + b + c = PoolSize
    BY ONLY <2>5
  <2>7. free' + Len(dspq') + Len(hold') + Cardinality(parked')
              + Cardinality(DspTest!InQueues') = PoolSize
    BY <1>1, <1>3, <2>1, <2>2, <2>6 DEF b, c, d
  <2> QED BY <1>1, <2>1, <2>3, <2>7 DEF BuffersInv
<1>11. DspTest!OnlyEarlyOnesSilent'
  BY <1>1 DEF DspTestInv, DspTest!OnlyEarlyOnesSilent
<1> QED BY <1>6, <1>7, <1>8, <1>9, <1>10, <1>11 DEF DspTestInv

(* A buffer moves from one place to another.                               *)
LEMMA BuffersMove ==
  ASSUME DspTestInv, NEW f \in Int, NEW x \in Int, NEW h \in Int, NEW p \in Int, NEW q \in Int,
         f + x + h + p + q = 0, free' = free + f, Len(dspq') = Len(dspq) + x,
         Len(hold') = Len(hold) + h,
         IsFiniteSet(parked'), Cardinality(parked') = Cardinality(parked) + p,
         IsFiniteSet(DspTest!InQueues'),
         Cardinality(DspTest!InQueues') = Cardinality(DspTest!InQueues) + q
  PROVE  BuffersInv'
<1>1. /\ free + Len(dspq) + Len(hold) + Cardinality(parked)
              + Cardinality(DspTest!InQueues) = PoolSize
      /\ free \in Nat /\ Len(dspq) \in Nat /\ Len(hold) \in Nat
      /\ Cardinality(parked) \in Nat /\ Cardinality(DspTest!InQueues) \in Nat
  BY LineIs, FS_CardinalityType DEF DspTestInv, BuffersInv, TesterTypes
<1> DEFINE a == Len(hold)
           b == Cardinality(parked)
           c == Cardinality(DspTest!InQueues)
           d == Len(dspq)
<1>2. free + d + a + b + c = PoolSize /\ a \in Nat /\ b \in Nat /\ c \in Nat /\ d \in Nat
      /\ free \in Nat
  BY <1>1
<1>3. /\ Len(dspq') = d + x /\ Len(hold') = a + h
      /\ Cardinality(parked') = b + p /\ Cardinality(DspTest!InQueues') = c + q
  OBVIOUS
<1> HIDE DEF a, b, c, d
<1>4. (free + f) + (d + x) + (a + h) + (b + p) + (c + q) = PoolSize
  BY ONLY <1>2, f \in Int, x \in Int, h \in Int, p \in Int, q \in Int, f + x + h + p + q = 0
<1>5. free' + Len(dspq') + Len(hold') + Cardinality(parked')
              + Cardinality(DspTest!InQueues') = PoolSize
  BY <1>3, <1>4
<1> QED BY <1>5 DEF BuffersInv

(* The task has the handle looked up for the message in hand.              *)
LEMMA DspGetReplyKept ==
  ASSUME DspTestInv, DspTest!DspGetReply
  PROVE  DspTestInv'
<1> DEFINE m == hold[1]
<1>1. /\ hold # <<>> /\ m.subid = "getreply" /\ parked' = parked \cup {m} /\ hold' = <<>>
      /\ pc' = pc /\ sequence' = sequence /\ free' = free /\ dspq' = dspq
      /\ reply_msgq' = reply_msgq /\ printed' = printed /\ gppq' = gppq
      /\ silent' = silent /\ refused' = refused
  BY DEF DspTest!DspGetReply, DspTest!Holds, DspTest!testVars
<1>2. TesterTypes /\ LineInv /\ ParkedInv
  BY DEF DspTestInv
<1>3. /\ m \in Messages /\ Len(hold) = 1 /\ Len(hold') = 0
      /\ 1 \in DOMAIN Line /\ Line[1] = m
      /\ \A k \in DOMAIN Line' :
           /\ k + 1 \in DOMAIN Line /\ Line'[k] = Line[k + 1]
           /\ Line[k + 1] \in Messages
  BY <1>1, <1>2, LineMoves
<1>4. Placed(m)
  BY <1>2, <1>3 DEF LineInv
<1> HIDE DEF m
<1>5. /\ m.from \in Testers /\ m = Asked(m.from) /\ 0 < sequence[m.from] /\ Unknown(m.from)
      /\ m \notin parked /\ pc[m.from] # "start"
  BY <1>1, <1>3, <1>4 DEF Placed, Messages
<1>6. \A u : Unknown(u)' <=> Unknown(u)
  BY <1>1 DEF Unknown
<1>7. LineInv'
  <2> SUFFICES ASSUME NEW n \in Messages, Placed(n), Apart(m, n) PROVE Placed(n)'
    BY <1>1, <1>2, LineShrinks DEF m
  <2>1. ASSUME n.subid = "getreply" PROVE n # m
    <3>1. n = Asked(n.from) /\ n.seq = 0 /\ m.seq = 0
      BY <1>5, <2>1 DEF Placed, Asked
    <3> QED BY <1>1, <2>1, <3>1 DEF Apart
  <2> QED BY <1>1, <1>6, <2>1 DEF Placed, Asked, DspTest!Async
<1>8. ParkedInv'
  <2>1. ASSUME NEW p \in parked'
        PROVE  /\ p.from \in Testers /\ p = Asked(p.from) /\ Unknown(p.from)
               /\ pc[p.from] # "start" /\ 0 < sequence[p.from]
    BY <1>1, <1>2, <1>5 DEF ParkedInv
  <2> QED BY <1>1, <1>6, <2>1 DEF ParkedInv, Asked
<1>9. TesterTypes'
  <2> HIDE DEF Messages
  <2> QED BY <1>1, <1>2 DEF TesterTypes
<1>10. OrderInv'
  <2> SUFFICES ASSUME NEW t \in Testers PROVE (QueueInv(t) /\ PrintedInv(t) /\ BehindInv(t))'
    BY DEF OrderInv
  <2>1. QueueInv(t) /\ PrintedInv(t) /\ BehindInv(t)
    BY DEF DspTestInv, OrderInv
  <2>2. QueueInv(t)'
    BY <1>1, <2>1 DEF QueueInv
  <2>3. PrintedInv(t)'
    BY <1>1, <1>6, <2>1 DEF PrintedInv
  <2>4. BehindInv(t)'
    BY <1>1, <1>3, <2>1 DEF BehindInv
  <2> QED BY <2>2, <2>3, <2>4
<1>11. BuffersInv'
  <2>1. DspTest!InQueues' = DspTest!InQueues
    BY <1>1 DEF DspTest!InQueues
  <2>2. /\ IsFiniteSet(parked) /\ IsFiniteSet(DspTest!InQueues)
        /\ Cardinality(DspTest!InQueues) \in Nat
    BY FS_CardinalityType DEF DspTestInv, BuffersInv
  <2>3. IsFiniteSet(parked') /\ Cardinality(parked') = Cardinality(parked) + 1
    BY <1>1, <1>5, <2>2, FS_AddElement
  <2>4. free \in Nat /\ Len(dspq) \in Nat
    BY <1>2, LineIs DEF TesterTypes
  <2> DEFINE b == Cardinality(parked')
             c == Cardinality(DspTest!InQueues)
             d == Len(dspq)
  <2>5. free + 0 = free /\ d + 0 = d /\ 1 + (-1) = 0 /\ c + 0 = c /\ 0 + 0 + (-1) + 1 + 0 = 0
    BY <2>2, <2>4
  <2>6. \E f, x, h, p, q \in Int :
          /\ f + x + h + p + q = 0 /\ free' = free + f /\ Len(dspq') = Len(dspq) + x
          /\ Len(hold') = Len(hold) + h
          /\ Cardinality(parked') = Cardinality(parked) + p
          /\ Cardinality(DspTest!InQueues') = Cardinality(DspTest!InQueues) + q
    <3> WITNESS 0 \in Int, 0 \in Int, -1 \in Int, 1 \in Int, 0 \in Int
    <3> QED BY <1>1, <1>3, <2>1, <2>3, <2>5
  <2> QED BY <2>1, <2>2, <2>3, <2>6, BuffersMove
<1>12. DspTest!OnlyEarlyOnesSilent'
  BY <1>1 DEF DspTestInv, DspTest!OnlyEarlyOnesSilent
<1> QED BY <1>7, <1>8, <1>9, <1>10, <1>11, <1>12 DEF DspTestInv

(* What stands in the line is in hand or waits.                            *)
LEMMA LineParts ==
  ASSUME TesterTypes, NEW k \in DOMAIN Line
  PROVE  (hold = <<Line[k]>>) \/ \E j \in DOMAIN dspq : Line[k] = dspq[j]
<1>1. /\ dspq \in Seq(Messages) /\ hold \in Seq(Messages)
      /\ DOMAIN dspq = 1..Len(dspq) /\ Len(dspq) \in Nat /\ DOMAIN Line = 1..Len(Line)
      /\ Len(hold) \in Nat
  BY LineIs
<1>2. /\ Len(hold \o dspq) = Len(hold) + Len(dspq)
      /\ \A j \in 1..(Len(hold) + Len(dspq)) :
            (hold \o dspq)[j] = IF j <= Len(hold) THEN hold[j] ELSE dspq[j - Len(hold)]
  BY ONLY <1>1, ConcatProperties
<1>3. k \in 1..(Len(hold) + Len(dspq))
      /\ Line[k] = IF k <= Len(hold) THEN hold[k] ELSE dspq[k - Len(hold)]
  BY <1>1, <1>2 DEF Line
<1>4. CASE hold = <<>>
  <2>1. Len(hold) = 0
    BY <1>4
  <2>2. k \in 1..Len(dspq) /\ k - 0 = k /\ ~(k <= 0)
    BY <1>1, <1>3, <2>1
  <2> QED BY <1>1, <1>3, <2>1, <2>2
<1>5. ASSUME NEW m \in Messages, hold = <<m>>
      PROVE  (hold = <<Line[k]>>) \/ \E j \in DOMAIN dspq : Line[k] = dspq[j]
  <2>1. Len(hold) = 1 /\ hold[1] = m
    BY <1>5
  <2>2. CASE k <= 1
    <3>1. k = 1
      BY <1>1, <1>3, <2>1, <2>2
    <3> QED BY <1>3, <1>5, <2>1, <3>1
  <2>3. CASE ~(k <= 1)
    <3>1. k - 1 \in 1..Len(dspq)
      BY <1>1, <1>3, <2>1, <2>3
    <3> QED BY <1>1, <1>3, <2>1, <2>3, <3>1
  <2> QED BY <2>2, <2>3
<1> QED BY <1>4, <1>5 DEF TesterTypes

(* The transport answers.                                                  *)
LEMMA AnswersKept ==
  ASSUME DspTestInv, NEW p \in parked, DspTest!LookupAnswered(p)
  PROVE  DspTestInv'
<1> DEFINE m == DspTest!Async(p)
<1>1. /\ free > 0 /\ free' = free - 1 /\ dspq' = Append(dspq, m)
      /\ hold # <<m>> /\ \A k \in DOMAIN dspq : dspq[k] # m
      /\ pc' = pc /\ sequence' = sequence /\ hold' = hold /\ parked' = parked
      /\ reply_msgq' = reply_msgq /\ printed' = printed /\ gppq' = gppq
      /\ silent' = silent /\ refused' = refused
  BY DEF DspTest!LookupAnswered, DspTest!testVars, DspTest!dspVars
<1>2. TesterTypes /\ LineInv /\ ParkedInv
  BY DEF DspTestInv
<1>3. p.from \in Testers /\ p = Asked(p.from) /\ pc[p.from] # "start"
  BY <1>2 DEF ParkedInv
<1>4. m \in Messages /\ m.subid = "async" /\ m.from = p.from
  BY <1>3 DEF DspTest!Async, Asked, Messages, Subids
<1>5. Beside
  <2>1. \A u \in Testers : sequence[u] <= sequence[u]
    <3>1. \A u \in Testers : sequence[u] \in Nat
      BY <1>2, TesterIs
    <3>2. \A n \in Nat : n <= n
      OBVIOUS
    <3> QED BY <3>1, <3>2
  <2> QED BY <1>1, <1>2, <2>1 DEF Beside, TesterTypes
<1>6. Placed(m)'
  <2>1. \E r \in parked' : m = DspTest!Async(r)
    BY <1>1
  <2> HIDE DEF m
  <2> QED BY <1>1, <1>3, <1>4, <2>1 DEF Placed, DspTest!Async
<1> HIDE DEF m
<1>7. \A k \in DOMAIN Line : Apart(Line[k], m)
  BY <1>1, <1>2, <1>4, LineParts DEF Apart
<1>8. LineInv'
  BY <1>1, <1>2, <1>4, <1>5, <1>6, <1>7, BesideKept, LineGrows
<1>9. /\ dspq' \in Seq(Messages) /\ Len(dspq') = Len(dspq) + 1
      /\ \A k \in DOMAIN Line' : (k \in DOMAIN Line /\ Line'[k] = Line[k]) \/ Line'[k] = m
  BY <1>1, <1>2, <1>4, LineJoined
<1>10. TesterTypes'
  <2>1. free' \in Nat
    BY <1>1, <1>2 DEF TesterTypes
  <2> HIDE DEF Messages
  <2> QED BY <1>1, <1>2, <1>9, <2>1 DEF TesterTypes
<1>11. OrderInv'
  <2>1. ASSUME NEW t \in Testers PROVE BehindInv(t)'
    <3>1. BehindInv(t)
      BY DEF DspTestInv, OrderInv
    <3> QED BY <1>1, <1>4, <1>9, <3>1 DEF BehindInv
  <2> QED BY <1>5, <2>1, BesideKept DEF OrderInv
<1>12. BuffersInv'
  <2>1. DspTest!InQueues' = DspTest!InQueues
    BY <1>1 DEF DspTest!InQueues
  <2>2. /\ IsFiniteSet(parked) /\ IsFiniteSet(DspTest!InQueues)
        /\ Cardinality(DspTest!InQueues) \in Nat /\ Cardinality(parked) \in Nat
        /\ free \in Nat /\ Len(hold) \in Nat
    BY <1>2, LineIs, FS_CardinalityType DEF DspTestInv, BuffersInv, TesterTypes
  <2> DEFINE b == Cardinality(parked)
             c == Cardinality(DspTest!InQueues)
             d == Len(hold)
  <2>3. /\ free - 1 = free + (-1) /\ d + 0 = d /\ b + 0 = b /\ c + 0 = c
        /\ (-1) + 1 + 0 + 0 + 0 = 0 /\ -1 \in Int
    BY <2>2
  <2>4. \E f, x, h, r, q \in Int :
          /\ f + x + h + r + q = 0 /\ free' = free + f /\ Len(dspq') = Len(dspq) + x
          /\ Len(hold') = Len(hold) + h
          /\ Cardinality(parked') = Cardinality(parked) + r
          /\ Cardinality(DspTest!InQueues') = Cardinality(DspTest!InQueues) + q
    <3> WITNESS -1 \in Int, 1 \in Int, 0 \in Int, 0 \in Int, 0 \in Int
    <3> QED BY <1>1, <1>9, <2>1, <2>3
  <2>5. IsFiniteSet(parked') /\ IsFiniteSet(DspTest!InQueues')
    BY <1>1, <2>1, <2>2
  <2> QED BY <2>4, <2>5, BuffersMove
<1> QED BY <1>5, <1>8, <1>10, <1>11, <1>12, BesideKept DEF DspTestInv

(* The task is done with the message in hand and sends home a message of t *)
(* by its handle, or frees it.                                             *)
LEMMA PutKept ==
  ASSUME DspTestInv, hold # <<>>, hold' = <<>>, dspq' = dspq,
         pc' = pc, sequence' = sequence, reply_msgq' = reply_msgq, printed' = printed,
         NEW t \in Testers, NEW m \in Messages, NEW freed \in Nat,
         DspTest!PutOrFree(m, freed),
         m.from = t, m.reply \in {t, NoQueue}, m.seq < sequence[t],
         m.reply = t =>
            /\ \/ m.subid = "mult" /\ reply_msgq[t] = t
               \/ /\ m.subid = "getreply" /\ m.seq = 0
                  /\ gppq[t] = <<>> /\ printed[t] = <<>> /\ reply_msgq[t] = NoQueue
            /\ \A k \in DOMAIN gppq[t] : gppq[t][k].seq < m.seq
            /\ \A k \in DOMAIN printed[t] : printed[t][k] < m.seq,
         \A n \in Messages : Placed(n) /\ Apart(hold[1], n) =>
            /\ n.subid = "getreply" => n.from # t
            /\ n.subid = "async" => \E p \in parked' : n = DspTest!Async(p)
            /\ n.subid = "mult" /\ n.reply = t /\ m.reply = t => m.seq < n.seq,
         parked' \subseteq parked, \A p \in parked' : m.reply = t => p.from # t,
         IsFiniteSet(parked'), Cardinality(parked') = Cardinality(parked) - freed
  PROVE  DspTestInv'
<1> DEFINE h == hold[1]
           put == DspTest!Put(m, freed)
<1>1. TesterTypes /\ LineInv /\ ParkedInv /\ NoQueue \notin Testers
      /\ QueueInv(t) /\ PrintedInv(t) /\ BehindInv(t)
  BY TesterConstants DEF DspTestInv, OrderInv
<1>2. /\ h \in Messages /\ Len(hold) = 1 /\ Len(hold') = 0
      /\ \A k \in DOMAIN Line' :
           /\ k \in Nat /\ 1 < k + 1 /\ k + 1 \in DOMAIN Line /\ Line'[k] = Line[k + 1]
           /\ Line[k + 1] \in Messages
      /\ 1 \in DOMAIN Line /\ Line[1] = h
  BY <1>1, LineMoves
<1>3. /\ gppq[t] \in Seq(Messages) /\ DOMAIN gppq[t] = 1..Len(gppq[t])
      /\ Len(gppq[t]) \in Nat
  BY <1>1, TesterIs
<1>4. /\ put => /\ m.reply = t /\ pc[t] # "closed"
                /\ gppq' = [gppq EXCEPT ![t] = Append(@, m)] /\ free' = free + freed
                /\ silent' = silent /\ refused' = refused
      /\ ~put => /\ gppq' = gppq /\ free' = free + freed + 1
                 /\ silent' = IF m.subid = "mult" THEN silent \cup {m} ELSE silent
                 /\ m.reply = NoQueue \/ pc[t] = "closed" \/ m \in refused'
                 /\ refused \subseteq refused'
  <2> HIDE DEF Messages
  <2>1. put => /\ m.reply = t /\ pc[t] # "closed"
               /\ gppq' = [gppq EXCEPT ![t] = Append(@, m)] /\ free' = free + freed
               /\ silent' = silent /\ refused' = refused
    BY <1>1 DEF DspTest!Put, DspTest!Open
  <2>2. ASSUME DspTest!Freed(m, freed)
        PROVE  /\ gppq' = gppq /\ free' = free + freed + 1
               /\ silent' = IF m.subid = "mult" THEN silent \cup {m} ELSE silent
               /\ m.reply = NoQueue \/ pc[t] = "closed" \/ m \in refused'
               /\ refused \subseteq refused'
    BY <1>1, <2>2 DEF DspTest!Freed, DspTest!Open
  <2> QED BY <2>1, <2>2 DEF DspTest!PutOrFree
<1>5. /\ put => /\ gppq'[t] = Append(gppq[t], m)
                /\ gppq'[t] \in Seq(Messages) /\ Len(gppq'[t]) = Len(gppq[t]) + 1
                /\ DOMAIN gppq'[t] = 1..(Len(gppq[t]) + 1)
                /\ \A k \in DOMAIN gppq[t] : gppq'[t][k] = gppq[t][k]
                /\ gppq'[t][Len(gppq[t]) + 1] = m
      /\ ~put => gppq'[t] = gppq[t]
      /\ \A u \in Testers : u # t => gppq'[u] = gppq[u]
  <2> HIDE DEF Messages, put
  <2>1. gppq \in [Testers -> Seq(Messages)]
    BY <1>1 DEF TesterTypes
  <2>2. put => gppq'[t] = Append(gppq[t], m)
    BY <1>4, <2>1
  <2>3. /\ Append(gppq[t], m) \in Seq(Messages) /\ Len(Append(gppq[t], m)) = Len(gppq[t]) + 1
        /\ \A k \in 1..Len(gppq[t]) : Append(gppq[t], m)[k] = gppq[t][k]
        /\ Append(gppq[t], m)[Len(gppq[t]) + 1] = m
    BY <1>3, AppendProperties
  <2>4. DOMAIN Append(gppq[t], m) = 1..(Len(gppq[t]) + 1)
    BY <2>3, LenProperties
  <2> QED BY <1>3, <1>4, <2>1, <2>2, <2>3, <2>4
<1> HIDE DEF h
<1>6. \A u \in Testers : (u = t => ~put) => (Unknown(u)' <=> Unknown(u))
  BY <1>5 DEF Unknown
<1>7. LineInv'
  <2> SUFFICES ASSUME NEW n \in Messages, Placed(n), Apart(h, n) PROVE Placed(n)'
    BY <1>1, LineShrinks DEF h
  <2>1. n.from \in Testers
    BY DEF Messages
  <2>2. /\ n.subid = "getreply" => n.from # t
        /\ n.subid = "async" => \E p \in parked' : n = DspTest!Async(p)
    BY DEF h
  <2>3. n.subid = "getreply" => n \notin parked' /\ Unknown(n.from)'
    BY <1>6, <2>1, <2>2 DEF Placed
  <2> QED BY <2>2, <2>3 DEF Placed, Asked, DspTest!Async
<1>8. ParkedInv'
  <2>1. ASSUME NEW p \in parked'
        PROVE  /\ p.from \in Testers /\ p = Asked(p.from) /\ Unknown(p.from)'
               /\ pc'[p.from] # "start" /\ 0 < sequence'[p.from]
    <3>1. /\ p.from \in Testers /\ p = Asked(p.from) /\ Unknown(p.from)
          /\ pc[p.from] # "start" /\ 0 < sequence[p.from]
      BY <1>1 DEF ParkedInv
    <3>2. p.from = t => ~put
      BY <1>4
    <3> QED BY <1>6, <3>1, <3>2
  <2> QED BY <2>1 DEF ParkedInv, Asked
<1>9. TesterTypes'
  <2>1. silent' \subseteq Messages /\ free' \in Nat
    BY <1>1, <1>4 DEF TesterTypes
  <2> HIDE DEF Messages, put
  <2>2. gppq' \in [Testers -> Seq(Messages)]
    BY <1>1, <1>4, <1>5 DEF TesterTypes
  <2> QED BY <1>1, <2>1, <2>2 DEF TesterTypes
<1>10. QueueInv(t)'
  <2>1. CASE ~put
    BY <1>1, <1>5, <2>1 DEF QueueInv
  <2>2. CASE put
    <3>1. ASSUME NEW k \in DOMAIN gppq'[t]
          PROVE  (k \in DOMAIN gppq[t] /\ gppq'[t][k] = gppq[t][k])
                    \/ (k = Len(gppq[t]) + 1 /\ gppq'[t][k] = m)
      BY <1>3, <1>5, <2>2
    <3>2. ASSUME NEW k \in DOMAIN gppq'[t]
          PROVE  LET n == gppq'[t][k]
                 IN  /\ n.from = t /\ n.reply = t /\ n.seq < sequence'[t]
                     /\ \/ n.subid = "mult" /\ reply_msgq'[t] = t
                        \/ /\ n.subid = "getreply" /\ n.seq = 0
                           /\ k = 1 /\ printed'[t] = <<>> /\ reply_msgq'[t] = NoQueue
      <4>1. CASE k \in DOMAIN gppq[t] /\ gppq'[t][k] = gppq[t][k]
        BY <1>1, <4>1 DEF QueueInv
      <4>2. CASE k = Len(gppq[t]) + 1 /\ gppq'[t][k] = m
        <5>1. gppq[t] = <<>> => k = 1
          BY <4>2
        <5> QED BY <1>4, <2>2, <4>2, <5>1
      <4> QED BY <3>1, <4>1, <4>2
    <3>3. ASSUME NEW j \in DOMAIN gppq'[t], NEW k \in DOMAIN gppq'[t], j < k
          PROVE  gppq'[t][j].seq < gppq'[t][k].seq
      <4>1. j \in DOMAIN gppq[t]
        BY <1>3, <1>5, <2>2, <3>3
      <4>2. gppq'[t][j] = gppq[t][j]
        BY <1>5, <2>2, <4>1
      <4>3. CASE k \in DOMAIN gppq[t] /\ gppq'[t][k] = gppq[t][k]
        BY <1>1, <3>3, <4>1, <4>2, <4>3 DEF QueueInv
      <4>4. CASE gppq'[t][k] = m
        BY <1>4, <2>2, <4>1, <4>2, <4>4
      <4> QED BY <3>1, <4>3, <4>4
    <3>4. ASSUME NEW j \in DOMAIN printed'[t], NEW k \in DOMAIN gppq'[t]
          PROVE  printed'[t][j] < gppq'[t][k].seq
      <4>1. CASE k \in DOMAIN gppq[t] /\ gppq'[t][k] = gppq[t][k]
        BY <1>1, <4>1 DEF QueueInv
      <4>2. CASE gppq'[t][k] = m
        BY <1>4, <2>2, <4>2
      <4> QED BY <3>1, <4>1, <4>2
    <3> QED BY <3>2, <3>3, <3>4 DEF QueueInv
  <2> QED BY <2>1, <2>2
<1>11. PrintedInv(t)'
  <2>1. pc[t] = "start" => Unknown(t)'
    <3>1. pc[t] = "start" => sequence[t] = 0
      BY <1>1 DEF PrintedInv
    <3>2. m.seq \in Nat
      BY DEF Messages
    <3>3. pc[t] # "start"
      BY <3>1, <3>2
    <3> QED BY <3>3
  <2> QED BY <1>1, <2>1 DEF PrintedInv
<1>12. BehindInv(t)'
  <2>1. ASSUME NEW k \in DOMAIN Line', Line'[k].subid = "mult", Line'[k].reply = t
        PROVE  /\ \A j \in DOMAIN gppq'[t] : gppq'[t][j].seq < Line'[k].seq
               /\ \A j \in DOMAIN printed'[t] : printed'[t][j] < Line'[k].seq
    <3> DEFINE n == Line[k + 1]
    <3>1. /\ k + 1 \in DOMAIN Line /\ n \in Messages /\ Line'[k] = n /\ 1 < k + 1
          /\ n.subid = "mult" /\ n.reply = t
      BY <1>2, <2>1
    <3>2. Placed(n) /\ Apart(h, n)
      BY <1>1, <1>2, <3>1 DEF LineInv
    <3>3. /\ \A j \in DOMAIN gppq[t] : gppq[t][j].seq < n.seq
          /\ \A j \in DOMAIN printed[t] : printed[t][j] < n.seq
      BY <1>1, <3>1 DEF BehindInv
    <3> HIDE DEF n
    <3>4. m.reply = t => m.seq < n.seq
      BY <3>1, <3>2 DEF h
    <3>5. CASE ~put
      BY <1>5, <3>1, <3>3, <3>5
    <3>6. CASE put
      <4>1. ASSUME NEW j \in DOMAIN gppq'[t] PROVE gppq'[t][j].seq < n.seq
        <5>1. j \in DOMAIN gppq[t] \/ j = Len(gppq[t]) + 1
          BY <1>3, <1>5, <3>6
        <5> QED BY <1>4, <1>5, <3>3, <3>4, <3>6, <5>1
      <4> QED BY <3>1, <3>3, <4>1
    <3> QED BY <3>5, <3>6
  <2> QED BY <2>1 DEF BehindInv
<1>13. ASSUME NEW u \in Testers, u # t PROVE QueueInv(u)' /\ PrintedInv(u)' /\ BehindInv(u)'
  <2>1. QueueInv(u) /\ PrintedInv(u) /\ BehindInv(u)
    BY DEF DspTestInv, OrderInv
  <2>2. gppq'[u] = gppq[u]
    BY <1>5, <1>13
  <2>3. QueueInv(u)'
    BY <2>1, <2>2 DEF QueueInv
  <2>4. PrintedInv(u)'
    BY <2>1, <2>2 DEF PrintedInv, Unknown
  <2>5. BehindInv(u)'
    BY <1>2, <2>1, <2>2 DEF BehindInv
  <2> QED BY <2>3, <2>4, <2>5
<1>14. OrderInv'
  BY <1>10, <1>11, <1>12, <1>13 DEF OrderInv
<1>15. BuffersInv'
  <2>1. /\ IsFiniteSet(DspTest!InQueues)
        /\ Cardinality(DspTest!InQueues) \in Nat /\ Cardinality(parked) \in Nat
        /\ free \in Nat /\ Len(dspq) \in Nat
    BY <1>1, LineIs, FS_CardinalityType DEF DspTestInv, BuffersInv, TesterTypes
  <2> DEFINE more == <<t, Len(gppq[t]) + 1>>
  <2>2. CASE ~put
    <3>1. DspTest!InQueues' = DspTest!InQueues
      BY <1>4, <2>2 DEF DspTest!InQueues
    <3>2. \E f, x, g, p, q \in Int :
          /\ f + x + g + p + q = 0 /\ free' = free + f /\ Len(dspq') = Len(dspq) + x
          /\ Len(hold') = Len(hold) + g
          /\ Cardinality(parked') = Cardinality(parked) + p
          /\ Cardinality(DspTest!InQueues') = Cardinality(DspTest!InQueues) + q
      <4> WITNESS freed + 1 \in Int, 0 \in Int, -1 \in Int, -freed \in Int, 0 \in Int
      <4> HIDE DEF put
      <4> QED BY <1>2, <1>4, <2>1, <2>2, <3>1
    <3>3. IsFiniteSet(DspTest!InQueues')
      BY <2>1, <3>1
    <3>4. IsFiniteSet(parked')
      OBVIOUS
    <3> HIDE DEF put, more
    <3>5. PICK f, x, g, p, q \in Int :
          /\ f + x + g + p + q = 0 /\ free' = free + f /\ Len(dspq') = Len(dspq) + x
          /\ Len(hold') = Len(hold) + g
          /\ Cardinality(parked') = Cardinality(parked) + p
          /\ Cardinality(DspTest!InQueues') = Cardinality(DspTest!InQueues) + q
      BY <3>2
    <3>6. DspTestInv
      OBVIOUS
    <3> QED BY ONLY <3>3, <3>4, <3>5, <3>6, BuffersMove
  <2>3. CASE put
    <3>1. more \notin DspTest!InQueues
      <4>1. Len(gppq[t]) + 1 \notin DOMAIN gppq[t]
        BY <1>3
      <4> QED BY <4>1 DEF DspTest!InQueues
    <3>2. DspTest!InQueues' = DspTest!InQueues \cup {more}
      <4>1. DOMAIN gppq'[t] = DOMAIN gppq[t] \cup {Len(gppq[t]) + 1}
        <5>1. 1..(Len(gppq[t]) + 1) = (1..Len(gppq[t])) \cup {Len(gppq[t]) + 1}
          BY <1>3
        <5> QED BY <1>3, <1>5, <2>3, <5>1
      <4>2. \A u \in Testers : u # t => DOMAIN gppq'[u] = DOMAIN gppq[u]
        BY <1>5
      <4> QED BY <4>1, <4>2 DEF DspTest!InQueues
    <3>3. /\ IsFiniteSet(DspTest!InQueues')
          /\ Cardinality(DspTest!InQueues') = Cardinality(DspTest!InQueues) + 1
      <4> HIDE DEF more
      <4> QED BY <2>1, <3>1, <3>2, FS_AddElement
    <3>4. \E f, x, g, p, q \in Int :
          /\ f + x + g + p + q = 0 /\ free' = free + f /\ Len(dspq') = Len(dspq) + x
          /\ Len(hold') = Len(hold) + g
          /\ Cardinality(parked') = Cardinality(parked) + p
          /\ Cardinality(DspTest!InQueues') = Cardinality(DspTest!InQueues) + q
      <4> WITNESS freed \in Int, 0 \in Int, -1 \in Int, -freed \in Int, 1 \in Int
      <4> HIDE DEF put
      <4> QED BY <1>2, <1>4, <2>1, <2>3, <3>3
    <3>5. IsFiniteSet(parked') /\ IsFiniteSet(DspTest!InQueues')
      BY <3>3
    <3>6. DspTestInv
      OBVIOUS
    <3> HIDE DEF put, more
    <3>7. PICK f, x, g, p, q \in Int :
          /\ f + x + g + p + q = 0 /\ free' = free + f /\ Len(dspq') = Len(dspq) + x
          /\ Len(hold') = Len(hold) + g
          /\ Cardinality(parked') = Cardinality(parked) + p
          /\ Cardinality(DspTest!InQueues') = Cardinality(DspTest!InQueues) + q
      BY <3>4
    <3> QED BY ONLY <3>5, <3>6, <3>7, BuffersMove
  <2> QED BY <2>2, <2>3
<1>16. DspTest!OnlyEarlyOnesSilent'
  <2> HIDE DEF put
  <2>1. \A n \in silent : n.reply = NoQueue \/ pc[n.from] = "closed" \/ n \in refused
    BY DEF DspTestInv, DspTest!OnlyEarlyOnesSilent
  <2>2. refused \subseteq refused'
    BY <1>4
  <2>3. \A n \in silent' : n \in silent \/ (n = m /\ ~put)
    BY <1>4
  <2> QED BY <1>4, <2>1, <2>2, <2>3 DEF DspTest!OnlyEarlyOnesSilent
<1> QED BY <1>7, <1>8, <1>9, <1>14, <1>15, <1>16 DEF DspTestInv

LEMMA DspAsyncKept ==
  ASSUME DspTestInv, DspTest!DspAsync
  PROVE  DspTestInv'
<1> DEFINE h == hold[1]
           p == CHOOSE r \in parked : DspTest!Async(r) = h
           m == [p EXCEPT !.reply = h.reply]
<1>1. /\ hold # <<>> /\ h.subid = "async" /\ hold' = <<>> /\ dspq' = dspq
      /\ DspTest!PutOrFree(m, 1) /\ parked' = parked \ {p}
      /\ pc' = pc /\ sequence' = sequence /\ reply_msgq' = reply_msgq /\ printed' = printed
  BY DEF DspTest!DspAsync, DspTest!Holds, DspTest!testVars
<1>2. TesterTypes /\ LineInv /\ ParkedInv
  BY DEF DspTestInv
<1>3. h \in Messages /\ 1 \in DOMAIN Line /\ Line[1] = h
  BY <1>1, <1>2, LineMoves
<1>4. p \in parked /\ h = DspTest!Async(p)
  <2>1. Placed(h)
    BY <1>2, <1>3 DEF LineInv
  <2> HIDE DEF h
  <2>2. \E r \in parked : DspTest!Async(r) = h
    BY <1>1, <2>1 DEF Placed
  <2> QED BY <2>2
<1> HIDE DEF p
<1> DEFINE t == p.from
<1>5. t \in Testers /\ p = Asked(t) /\ Unknown(t) /\ pc[t] # "start" /\ 0 < sequence[t]
  BY <1>2, <1>4 DEF ParkedInv
<1>6. m = [subid |-> "getreply", from |-> t, reply |-> t, seq |-> 0]
  <2>1. h.reply = t
    BY <1>4 DEF DspTest!Async
  <2>2. p = [subid |-> "getreply", from |-> t, reply |-> NoQueue, seq |-> 0]
    BY <1>5 DEF Asked
  <2> HIDE DEF t, h
  <2> QED BY <2>1, <2>2
<1> HIDE DEF t, h
<1>7. /\ m \in Messages /\ m.from = t /\ m.reply = t /\ m.subid = "getreply" /\ m.seq = 0
  BY <1>5, <1>6 DEF Messages, Subids
<1> HIDE DEF m
<1>8. gppq[t] = <<>> /\ printed[t] = <<>> /\ reply_msgq[t] = NoQueue
  BY <1>5 DEF Unknown
<1>9. DOMAIN gppq[t] = {} /\ DOMAIN printed[t] = {}
  BY <1>8, NoneLeft
<1>10. ASSUME NEW n \in Messages, Placed(n), Apart(h, n)
       PROVE  /\ n.subid = "getreply" => n.from # t
              /\ n.subid = "async" => \E r \in parked' : n = DspTest!Async(r)
              /\ ~(n.subid = "mult" /\ n.reply = t)
  <2>1. n.subid = "getreply" => n.from # t
    BY <1>4, <1>5, <1>10 DEF Placed
  <2>2. ASSUME n.subid = "async" PROVE \E r \in parked' : n = DspTest!Async(r)
    <3>1. PICK r \in parked : n = DspTest!Async(r)
      BY <1>10, <2>2 DEF Placed
    <3>2. n # h
      BY <1>1, <1>10 DEF Apart
    <3> QED BY <1>1, <1>4, <3>1, <3>2
  <2>3. ~(n.subid = "mult" /\ n.reply = t)
    BY <1>5, <1>8, <1>10, TesterConstants DEF Placed
  <2> QED BY <2>1, <2>2, <2>3
<1>11. \A r \in parked' : r.from # t
  BY <1>1, <1>2, <1>5 DEF ParkedInv
<1>12. IsFiniteSet(parked') /\ Cardinality(parked') = Cardinality(parked) - 1
  BY <1>1, <1>4, FS_RemoveElement DEF DspTestInv, BuffersInv
<1>13. parked' \subseteq parked /\ m.seq < sequence[t] /\ m.reply \in {t, NoQueue} /\ 1 \in Nat
  BY <1>1, <1>5, <1>7
<1>14. \A n \in Messages : Placed(n) /\ Apart(h, n) =>
            /\ n.subid = "getreply" => n.from # t
            /\ n.subid = "async" => \E r \in parked' : n = DspTest!Async(r)
            /\ n.subid = "mult" /\ n.reply = t /\ m.reply = t => m.seq < n.seq
  BY <1>10
<1>15. /\ \A k \in DOMAIN gppq[t] : gppq[t][k].seq < m.seq
       /\ \A k \in DOMAIN printed[t] : printed[t][k] < m.seq
  BY <1>9
<1>16. DspTestInv
  OBVIOUS
<1>17. PICK freed \in Nat : freed = 1
  BY ONLY TRUE
<1>18. /\ DspTest!PutOrFree(m, freed) /\ Cardinality(parked') = Cardinality(parked) - freed
       /\ IsFiniteSet(parked') /\ parked' \subseteq parked
  BY ONLY <1>1, <1>12, <1>13, <1>17
<1>19. \A n \in Messages : Placed(n) /\ Apart(hold[1], n) =>
            /\ n.subid = "getreply" => n.from # t
            /\ n.subid = "async" => \E r \in parked' : n = DspTest!Async(r)
            /\ n.subid = "mult" /\ n.reply = t /\ m.reply = t => m.seq < n.seq
  BY ONLY <1>14 DEF h
<1>20. m.reply = t =>
          /\ \/ m.subid = "mult" /\ reply_msgq[t] = t
             \/ /\ m.subid = "getreply" /\ m.seq = 0
                /\ gppq[t] = <<>> /\ printed[t] = <<>> /\ reply_msgq[t] = NoQueue
          /\ \A k \in DOMAIN gppq[t] : gppq[t][k].seq < m.seq
          /\ \A k \in DOMAIN printed[t] : printed[t][k] < m.seq
  BY ONLY <1>7, <1>8, <1>15
<1>21. /\ DspTestInv /\ hold # <<>> /\ hold' = <<>> /\ dspq' = dspq
       /\ pc' = pc /\ sequence' = sequence /\ reply_msgq' = reply_msgq /\ printed' = printed
       /\ t \in Testers /\ m \in Messages /\ freed \in Nat
       /\ m.from = t /\ m.reply \in {t, NoQueue} /\ m.seq < sequence[t]
       /\ \A r \in parked' : m.reply = t => r.from # t
  BY ONLY <1>1, <1>5, <1>7, <1>11, <1>13, <1>16, <1>17
<1> QED BY ONLY <1>18, <1>19, <1>20, <1>21, PutKept

LEMMA DspMultKept ==
  ASSUME DspTestInv, DspTest!DspMult
  PROVE  DspTestInv'
<1> DEFINE m == hold[1]
           t == m.from
<1>1. /\ hold # <<>> /\ m.subid = "mult" /\ hold' = <<>> /\ dspq' = dspq
      /\ DspTest!PutOrFree(m, 0) /\ parked' = parked
      /\ pc' = pc /\ sequence' = sequence /\ reply_msgq' = reply_msgq /\ printed' = printed
  BY DEF DspTest!DspMult, DspTest!Holds, DspTest!testVars
<1>2. TesterTypes /\ LineInv /\ ParkedInv /\ NoQueue \notin Testers
  BY TesterConstants DEF DspTestInv
<1>3. m \in Messages /\ 1 \in DOMAIN Line /\ Line[1] = m
  BY <1>1, <1>2, LineMoves
<1>4. Placed(m)
  BY <1>2, <1>3 DEF LineInv
<1>5. t \in Testers /\ m.seq \in Nat
  BY <1>3 DEF Messages
<1>6. BehindInv(t)
  BY <1>5 DEF DspTestInv, OrderInv
<1> HIDE DEF m
<1>7. /\ m.seq < sequence[t]
      /\ m.reply = NoQueue \/ (m.reply = t /\ reply_msgq[t] = t)
  BY <1>1, <1>4 DEF Placed
<1>8. m.reply = t =>
         /\ reply_msgq[t] = t
         /\ \A k \in DOMAIN gppq[t] : gppq[t][k].seq < m.seq
         /\ \A k \in DOMAIN printed[t] : printed[t][k] < m.seq
  BY <1>1, <1>2, <1>3, <1>5, <1>6, <1>7 DEF BehindInv
<1>9. ASSUME NEW n \in Messages, Placed(n), Apart(m, n)
      PROVE  /\ n.subid = "getreply" => n.from # t
             /\ n.subid = "async" => \E r \in parked' : n = DspTest!Async(r)
             /\ n.subid = "mult" /\ n.reply = t => m.seq < n.seq
  <2>1. n.subid = "getreply" => n.from # t
    <3>1. n.subid = "getreply" => n.seq = 0
      BY <1>9 DEF Placed, Asked
    <3>2. ~(m.seq < 0)
      BY <1>5
    <3> QED BY <1>1, <1>9, <3>1, <3>2 DEF Apart
  <2>2. n.subid = "async" => \E r \in parked' : n = DspTest!Async(r)
    BY <1>1, <1>9 DEF Placed
  <2>3. n.subid = "mult" /\ n.reply = t => m.seq < n.seq
    <3>1. n.subid = "mult" /\ n.reply = t => n.from = t
      BY <1>2, <1>5, <1>9 DEF Placed
    <3> QED BY <1>1, <1>9, <3>1 DEF Apart
  <2> QED BY <2>1, <2>2, <2>3
<1>10. \A r \in parked' : m.reply = t => r.from # t
  BY <1>1, <1>2, <1>5, <1>7 DEF ParkedInv, Unknown
<1>11. IsFiniteSet(parked') /\ Cardinality(parked') = Cardinality(parked) - 0
  BY <1>1, FS_CardinalityType DEF DspTestInv, BuffersInv
<1>12. parked' \subseteq parked /\ m.reply \in {t, NoQueue} /\ 0 \in Nat /\ m.from = t
  BY <1>1, <1>7
<1> HIDE DEF t
<1> QED BY <1>1, <1>3, <1>5, <1>7, <1>8, <1>9, <1>10, <1>11, <1>12, PutKept DEF m

LEMMA DspTestStep ==
  ASSUME DspTestInv, DspTest!Next
  PROVE  DspTestInv'
<1>1. CASE \E t \in Testers : \/ DspTest!Begin(t) \/ DspTest!Timeout(t)
                              \/ DspTest!Get(t) \/ DspTest!GetFailed(t)
  BY <1>1, BeginKept, TimeoutKept, GetKept, GetFailedKept
<1>2. CASE DspTest!DspStep
  BY <1>2, DspGetKept, DspGetReplyKept, DspAsyncKept, DspMultKept DEF DspTest!DspStep
<1>3. CASE DspTest!Answers
  BY <1>3, AnswersKept DEF DspTest!Answers
<1>4. CASE DspTest!DspStops
  BY <1>4, DspStopsKept
<1> QED BY <1>1, <1>2, <1>3, <1>4 DEF DspTest!Next

TestersKept == which = "dsptest" => DspTestInv

LEMMA DspTestStays ==
  ASSUME DspTestInv, UNCHANGED vars
  PROVE  DspTestInv'
<1>1. /\ TesterTypes /\ pc' = pc /\ sequence' = sequence /\ free' = free /\ dspq' = dspq
      /\ reply_msgq' = reply_msgq /\ printed' = printed /\ gppq' = gppq /\ hold' = hold
      /\ parked' = parked /\ silent' = silent /\ refused' = refused
  BY DEF vars, shared, dspTestOnly, DspTestInv
<1>2. \A u \in Testers : sequence[u] <= sequence[u]
  <2>1. \A u \in Testers : sequence[u] \in Nat
    BY <1>1, TesterIs
  <2>2. \A n \in Nat : n <= n
    OBVIOUS
  <2> QED BY <2>1, <2>2
<1>3. Beside
  BY <1>1, <1>2 DEF Beside, TesterTypes
<1> QED BY <1>1, <1>3, BesideLine

(* dsptest.c with the DSP's task, for every number of processes, buffers   *)
(* and messages, and with every call that may fail: no buffer is lost or   *)
(* freed twice, a process reads its own messages only, its handle first    *)
(* and the products in the order it asked for them, and what the DSP's     *)
(* task computes comes, unless it was asked for before the handle was      *)
(* known, the process has closed its queue or MSGQ_put failed for it.      *)
THEOREM TestersAreServed == Spec => []TestersServed
<1>1. Init => TestersKept
  BY DspTestBegins DEF Init, TestersKept
<1>2. TestersKept /\ [Next]_vars => TestersKept'
  <2> SUFFICES ASSUME TestersKept, [Next]_vars, which' = "dsptest" PROVE DspTestInv'
    BY DEF TestersKept
  <2>1. CASE UNCHANGED vars
    <3>1. which = "dsptest"
      BY <2>1 DEF vars
    <3> QED BY <2>1, <3>1, DspTestStays DEF TestersKept
  <2>2. CASE Next
    <3>1. which = "dsptest" /\ DspTest!Next
      BY <2>2 DEF Next
    <3> QED BY <3>1, DspTestStep DEF TestersKept
  <2> QED BY <2>1, <2>2
<1>3. TestersKept => TestersServed
  BY DspTestHolds DEF TestersKept, TestersServed
<1> QED BY <1>1, <1>2, <1>3, PTL DEF Spec

-----------------------------------------------------------------------------
(***************************************************************************)
(* create_gear. The vertices before each strip of a tooth.                 *)
(***************************************************************************)
Before == <<0, 7, 11, 18, 22, 26, 30>>
Vertices == [r : {"r0", "r1", "r2"}, a : Nat, side : {1, -1}]

MeshInv ==
    /\ teeth \in Nat \ {0} /\ i \in 0..teeth /\ step \in 1..7 /\ (i = teeth => step = 1)
    /\ vertices \in Seq(Vertices) /\ strips \in Seq([first : Nat, count : Nat])
    /\ Len(strips) = 7 * i + step - 1
    /\ Len(vertices) = 34 * i + Before[step]
    /\ Mesh!StripsTile

LEMMA ToothAngle ==
  ASSUME NEW n \in Nat \ {0}, NEW j \in Nat, NEW q \in 0..4
  PROVE  (4 * j + q) % (4 * n) \in Nat
OBVIOUS

LEMMA SevenLong ==
  ASSUME NEW V, NEW f \in [1..7 -> V]
  PROVE  f \in Seq(V) /\ Len(f) = 7
<1>1. f \in Seq(V)
  <2>1. 7 \in Nat
    OBVIOUS
  <2> QED BY <2>1, SeqDef
<1>2. DOMAIN f = 1..7 /\ DOMAIN f = 1..Len(f) /\ Len(f) \in Nat
  BY <1>1, LenProperties
<1>3. \A n \in Nat : 1..n = 1..7 => n = 7
  <2> SUFFICES ASSUME NEW n \in Nat, 1..n = 1..7 PROVE n = 7
    OBVIOUS
  <2>1. 7 \in 1..n
    OBVIOUS
  <2>2. n + 1 \notin 1..7
    OBVIOUS
  <2>3. n >= 7
    BY <2>1
  <2> QED BY <2>2, <2>3
<1> QED BY <1>1, <1>2, <1>3

LEMMA BeforeIs ==
  /\ Before[1] = 0 /\ Before[2] = 7 /\ Before[3] = 11 /\ Before[4] = 18 /\ Before[5] = 22
  /\ Before[6] = 26 /\ Before[7] = 30
  /\ \A k \in 1..7 : Before[k] \in 0..30
<1>1. /\ Before[1] = 0 /\ Before[2] = 7 /\ Before[3] = 11 /\ Before[4] = 18 /\ Before[5] = 22
      /\ Before[6] = 26 /\ Before[7] = 30
  BY DEF Before
<1>2. \A k \in 1..7 : k = 1 \/ k = 2 \/ k = 3 \/ k = 4 \/ k = 5 \/ k = 6 \/ k = 7
  OBVIOUS
<1> HIDE DEF Before
<1> QED BY <1>1, <1>2

LEMMA StripIs ==
  ASSUME teeth \in Nat \ {0}, i \in Nat, step \in 1..7
  PROVE  /\ Mesh!Strip(step) \in Seq(Vertices)
         /\ Len(Mesh!Strip(step)) = IF step \in {1, 3} THEN 7 ELSE 4
<1>1. \A p \in 0..6, side \in {1, -1} : Mesh!Point(p, side) \in Vertices
  <2> SUFFICES ASSUME NEW p \in 0..6, NEW side \in {1, -1} PROVE Mesh!Point(p, side) \in Vertices
    OBVIOUS
  <2>1. Mesh!Points[p + 1][1] \in {"r0", "r1", "r2"} /\ Mesh!Points[p + 1][2] \in 0..4
    BY DEF Mesh!Points
  <2>2. (4 * i + Mesh!Points[p + 1][2]) % (4 * teeth) \in Nat
    BY <2>1, ToothAngle
  <2> QED BY <2>1, <2>2 DEF Mesh!Point, Vertices
<1> HIDE DEF Vertices
<1>2. \A p, q \in 0..6 : Mesh!Quad(p, q) \in Seq(Vertices) /\ Len(Mesh!Quad(p, q)) = 4
  BY <1>1 DEF Mesh!Quad
<1>3. Mesh!FrontFace \in Seq(Vertices) /\ Len(Mesh!FrontFace) = 7
  <2>1. Mesh!FrontFace \in [1..7 -> Vertices]
    BY <1>1 DEF Mesh!FrontFace
  <2> QED BY <2>1, SevenLong
<1>4. Mesh!BackFace \in Seq(Vertices) /\ Len(Mesh!BackFace) = 7
  <2>1. Mesh!BackFace \in [1..7 -> Vertices]
    BY <1>1 DEF Mesh!BackFace
  <2> QED BY <2>1, SevenLong
<1>5. /\ Mesh!Strip(1) = Mesh!FrontFace /\ Mesh!Strip(2) = Mesh!Quad(4, 6)
      /\ Mesh!Strip(3) = Mesh!BackFace /\ Mesh!Strip(4) = Mesh!Quad(0, 2)
      /\ Mesh!Strip(5) = Mesh!Quad(1, 0) /\ Mesh!Strip(6) = Mesh!Quad(3, 1)
      /\ Mesh!Strip(7) = Mesh!Quad(5, 3)
  BY DEF Mesh!Strip
<1>6. step = 1 \/ step = 2 \/ step = 3 \/ step = 4 \/ step = 5 \/ step = 6 \/ step = 7
  OBVIOUS
<1>7. {4, 6, 0, 2, 1, 3, 5} \subseteq 0..6
  OBVIOUS
<1> QED BY <1>2, <1>3, <1>4, <1>5, <1>6, <1>7

LEMMA MeshGrows ==
  ASSUME MeshInv, Mesh!Next
  PROVE  MeshInv'
<1> DEFINE more == Mesh!Strip(step)
           s == [first |-> Len(vertices), count |-> Len(more)]
           n == Len(strips)
<1>1. /\ i < teeth /\ teeth' = teeth
      /\ vertices' = vertices \o more /\ strips' = Append(strips, s)
      /\ step' = IF step = 7 THEN 1 ELSE step + 1
      /\ i' = IF step = 7 THEN i + 1 ELSE i
  BY DEF Mesh!Next, Mesh!AddStrip
<1>2. /\ teeth \in Nat \ {0} /\ i \in 0..teeth /\ step \in 1..7
      /\ vertices \in Seq(Vertices) /\ strips \in Seq([first : Nat, count : Nat])
      /\ n = 7 * i + step - 1 /\ Len(vertices) = 34 * i + Before[step]
      /\ Mesh!StripsTile
  BY DEF MeshInv
<1>3. more \in Seq(Vertices) /\ Len(more) = IF step \in {1, 3} THEN 7 ELSE 4
  BY <1>2, StripIs
<1> HIDE DEF more
<1>4. /\ vertices' \in Seq(Vertices) /\ Len(vertices') = Len(vertices) + Len(more)
      /\ Len(vertices) \in Nat /\ n \in Nat
  <2>1. more \in Seq(Vertices) /\ vertices \in Seq(Vertices) /\ vertices' = vertices \o more
    BY ONLY <1>1, <1>2, <1>3
  <2>2. vertices' \in Seq(Vertices) /\ Len(vertices') = Len(vertices) + Len(more)
    BY ONLY <2>1, ConcatProperties
  <2>3. Len(vertices) \in Nat
    BY ONLY <2>1, LenProperties
  <2>4. n \in Nat
    BY ONLY <1>2, LenProperties
  <2> QED BY ONLY <2>2, <2>3, <2>4
<1>5. s \in [first : Nat, count : Nat] /\ s.first = Len(vertices) /\ s.count = Len(more)
  BY <1>3, <1>4
<1> HIDE DEF s
<1>6. /\ strips' \in Seq([first : Nat, count : Nat]) /\ Len(strips') = n + 1
      /\ \A k \in 1..n : strips'[k] = strips[k]
      /\ strips'[n + 1] = s
      /\ DOMAIN strips = 1..n /\ DOMAIN strips' = 1..(n + 1)
  BY <1>1, <1>2, <1>5, AppendProperties, LenProperties
<1> HIDE DEF n
<1>7. Len(vertices') = 34 * i' + Before[step']
  <2>1. Len(vertices') = 34 * i + Before[step] + (IF step \in {1, 3} THEN 7 ELSE 4)
    BY <1>2, <1>3, <1>4
  <2>2. step = 1 \/ step = 2 \/ step = 3 \/ step = 4 \/ step = 5 \/ step = 6 \/ step = 7
    BY <1>2
  <2>3. step # 7 => Before[step'] = Before[step] + (IF step \in {1, 3} THEN 7 ELSE 4) /\ i' = i
    BY <1>1, <2>2, BeforeIs
  <2>4. step = 7 => Before[step] = 30 /\ Before[step'] = 0 /\ i' = i + 1
    BY <1>1, BeforeIs
  <2>5. Before[step] \in 0..30 /\ Before[step] \in Nat /\ i \in Nat
    <3>1. \A k \in 1..7 : Before[k] \in 0..30
      BY BeforeIs
    <3>2. Before[step] \in 0..30
      BY <1>2, <3>1
    <3>3. \A k \in 0..30 : k \in Nat
      OBVIOUS
    <3>4. i \in Nat
      <4>1. teeth \in Nat /\ i \in 0..teeth
        BY <1>2
      <4> QED BY ONLY <4>1
    <3> QED BY <3>2, <3>3, <3>4
  <2>6. CASE step = 7
    <3>1. Len(vertices') = 34 * i + 30 + 4
      BY <2>1, <2>4, <2>6
    <3> QED BY <2>4, <2>5, <2>6, <3>1
  <2>7. CASE step # 7
    <3> DEFINE m == IF step \in {1, 3} THEN 7 ELSE 4
    <3>1. PICK b \in Nat, d \in Nat : b = Before[step] /\ d = m
      BY <2>5
    <3>2. Len(vertices') = 34 * i + b + d /\ Before[step'] = b + d /\ i' = i
      BY <2>1, <2>3, <2>7, <3>1
    <3>3. 34 * i + b + d = 34 * i + (b + d)
      BY <2>5
    <3> QED BY <3>2, <3>3
  <2> QED BY <2>6, <2>7
<1>8. n + 1 = 7 * i' + step' - 1 /\ i' \in 0..teeth /\ step' \in 1..7
      /\ (i' = teeth => step' = 1)
  BY <1>1, <1>2
<1>9. Mesh!StripsTile'
  <2>1. n + 1 \in Nat /\ n + 1 # 0 /\ strips' # <<>> /\ Mesh!Last(strips') = s
    BY <1>4, <1>6, EmptySeq DEF Mesh!Last
  <2>2. n # 0 => strips # <<>> /\ Mesh!Last(strips) = strips[n]
    BY <1>2, <1>6, EmptySeq DEF Mesh!Last, n
  <2>3. ASSUME NEW k \in DOMAIN strips'
        PROVE  strips'[k].first = IF k = 1 THEN 0 ELSE strips'[k - 1].first + strips'[k - 1].count
    <3>1. CASE k \in 1..n
      <4>1. k # 1 => k - 1 \in 1..n
        BY <1>4, <3>1
      <4> QED BY <1>2, <1>6, <3>1, <4>1 DEF Mesh!StripsTile
    <3>2. CASE k = n + 1
      <4>1. CASE n = 0
        <5>1. 34 * i + Before[step] = 0
          BY <1>2, <4>1 DEF Before
        <5> QED BY <1>2, <1>5, <1>6, <3>2, <4>1, <5>1
      <4>2. CASE n # 0
        <5>1. k - 1 = n /\ k # 1 /\ n \in 1..n
          BY <1>4, <3>2, <4>2
        <5>2. strips[n].first + strips[n].count = Len(vertices)
          BY <1>2, <2>2, <4>2 DEF Mesh!StripsTile, Mesh!Last
        <5> QED BY <1>5, <1>6, <3>2, <5>1, <5>2
      <4> QED BY <4>1, <4>2
    <3> QED BY <1>4, <1>6, <3>1, <3>2
  <2>4. Mesh!Last(strips').first + Mesh!Last(strips').count = Len(vertices')
    BY <1>4, <1>5, <2>1
  <2> QED BY <2>3, <2>4 DEF Mesh!StripsTile, Mesh!Last
<1> QED BY <1>1, <1>2, <1>4, <1>6, <1>7, <1>8, <1>9 DEF MeshInv

LEMMA MeshBegins ==
  ASSUME Mesh!Init
  PROVE  MeshInv
<1>1. /\ teeth \in Nat \ {0} /\ i = 0 /\ step = 1 /\ vertices = <<>> /\ strips = <<>>
  BY ProgramsAssumption DEF Mesh!Init, Mesh!GearMeshConstants
<1>2. Len(<<>>) = 0 /\ DOMAIN <<>> = {} /\ \A V : <<>> \in Seq(V)
  BY EmptySeq
<1>3. Mesh!StripsTile
  BY <1>1, <1>2 DEF Mesh!StripsTile
<1> HIDE DEF Vertices
<1> QED BY <1>1, <1>2, <1>3 DEF MeshInv, Before

LEMMA MeshFitsNow ==
  ASSUME MeshInv
  PROVE  Mesh!FitsAllocation
<1>1. /\ teeth \in Nat \ {0} /\ i \in 0..teeth /\ step \in 1..7 /\ (i = teeth => step = 1)
      /\ Len(strips) = 7 * i + step - 1 /\ Len(vertices) = 34 * i + Before[step]
  BY DEF MeshInv
<1>2. Before[step] \in 0..30 /\ (step = 1 => Before[step] = 0)
  BY <1>1, BeforeIs
<1> DEFINE b == Before[step]
           l == Len(strips)
           v == Len(vertices)
<1>3. /\ b \in 0..30 /\ (step = 1 => b = 0) /\ l = 7 * i + step - 1 /\ v = 34 * i + b
      /\ teeth \in Nat \ {0} /\ i \in 0..teeth /\ step \in 1..7 /\ (i = teeth => step = 1)
  BY <1>1, <1>2
<1> HIDE DEF b, l, v
<1>4. l <= 7 * teeth /\ v <= 34 * teeth /\ (i = teeth => l = 7 * teeth /\ v = 34 * teeth)
  <2>1. CASE i = teeth
    BY <1>3, <2>1
  <2>2. CASE i + 1 <= teeth
    <3>1. 7 * (i + 1) <= 7 * teeth /\ 34 * (i + 1) <= 34 * teeth
      BY <1>3, <2>2
    <3> QED BY <1>3, <2>2, <3>1
  <2> QED BY <1>3, <2>1, <2>2
<1> QED BY <1>4
        DEF l, v, Mesh!FitsAllocation, Mesh!STRIPS_PER_TOOTH, Mesh!VERTICES_PER_TOOTH

MeshKept == which = "mesh" => MeshInv
MeshFits == which = "mesh" => Mesh!FitsAllocation /\ Mesh!StripsTile

(* create_gear, for every number of teeth: neither of its two arrays is    *)
(* overrun, a finished gear fills both, and each vertex belongs to one     *)
(* strip.                                                                  *)
THEOREM GearsFit == Spec => []MeshFits
<1>1. Init => MeshKept
  BY MeshBegins DEF Init, MeshKept
<1>2. MeshKept /\ [Next]_vars => MeshKept'
  <2> SUFFICES ASSUME MeshKept, [Next]_vars, which' = "mesh" PROVE MeshInv'
    BY DEF MeshKept
  <2>1. CASE UNCHANGED vars
    <3>1. /\ which' = which /\ teeth' = teeth /\ i' = i /\ step' = step
          /\ vertices' = vertices /\ strips' = strips
      BY <2>1 DEF vars, shared, meshOnly
    <3> QED BY <3>1 DEF MeshKept, MeshInv, Mesh!StripsTile
  <2>2. CASE Next
    <3>1. which = "mesh" /\ Mesh!Next
      BY <2>2 DEF Next
    <3> QED BY <3>1, MeshGrows DEF MeshKept
  <2> QED BY <2>1, <2>2
<1>3. MeshKept => MeshFits
  BY MeshFitsNow DEF MeshKept, MeshFits, MeshInv
<1> QED BY <1>1, <1>2, <1>3, PTL DEF Spec
=============================================================================
