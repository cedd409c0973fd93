----------------------------- MODULE GearsDraw ------------------------------
(***************************************************************************)
(* The matrices of gles2gears.c: gears_draw and draw_gear with the helpers *)
(* multiply, rotate, identity, translate, transpose and invert, over whole *)
(* numbers: lengths are tenths, angles steps of a turn, and what sincos    *)
(* gives for them is a parameter, any table of whole numbers. What the     *)
(* matrices come to is said of points: where the vertex shader puts a      *)
(* point of a gear, and where it takes a normal to point. Rounding is not  *)
(* modelled.                                                               *)
(***************************************************************************)
EXTENDS Integers, Sequences

CONSTANTS
    FullTurn,   \* the steps of angle in a turn
    Sin, Cos,   \* what sincos gives for each
    Turns,      \* the steps g_view_rot is moved by
    Projection  \* g_ProjectionMatrix: what gears_reshape has left in it

Angles == 0..(FullTurn - 1)

GearsDrawConstants ==
    /\ FullTurn \in Nat \ {0}
    /\ Sin \in [Angles -> Int] /\ Cos \in [Angles -> Int]
    /\ Turns \subseteq Angles
    /\ Projection \in [0..15 -> Int]

VARIABLES
    next,       \* what is drawn next: a gear, 1 to 3, or 0, the view
    view_rot,   \* g_view_rot
    angle,      \* the angle of the gear drawn last
    transform,  \* the local of gears_draw
    uniforms    \* what draw_gear has given the shader

vars == <<next, view_rot, angle, transform, uniforms>>

(***************************************************************************)
(* Matrices, a column after the other.                                     *)
(***************************************************************************)

(* Mutant of Multiply: its arguments exchanged.                            *)
MultiplySwapped(m, n) ==
    [i \in 0..15 |-> LET row == 4 * (i \div 4)
                         column == i % 4
                     IN m[row] * n[column] + m[row + 1] * n[column + 4]
                        + m[row + 2] * n[column + 8] + m[row + 3] * n[column + 12]]

Multiply(m, n) ==
    [i \in 0..15 |-> LET row == 4 * (i \div 4)
                         column == i % 4
                     IN n[row] * m[column] + n[row + 1] * m[column + 4]
                        + n[row + 2] * m[column + 8] + n[row + 3] * m[column + 12]]

Identity == [i \in 0..15 |-> IF i % 5 = 0 THEN 1 ELSE 0]

(* rotate, by the angle q about the direction (x, y, z).                   *)
Rotate(m, q, x, y, z) ==
    LET s == Sin[q]
        c == Cos[q]
        r == << x * x * (1 - c) + c,     y * x * (1 - c) + z * s, x * z * (1 - c) - y * s, 0,
                x * y * (1 - c) - z * s, y * y * (1 - c) + c,     y * z * (1 - c) + x * s, 0,
                x * z * (1 - c) + y * s, y * z * (1 - c) - x * s, z * z * (1 - c) + c,     0,
                0, 0, 0, 1 >>
    IN Multiply(m, [i \in 0..15 |-> r[i + 1]])

Translate(m, x, y, z) == Multiply(m, [Identity EXCEPT ![12] = x, ![13] = y, ![14] = z])

Transpose(m) == [i \in 0..15 |-> m[4 * (i % 4) + i \div 4]]

(* Mutant of Invert: the translation stays in the part that is transposed. *)
InvertInPlace(m) ==
    Multiply(Transpose(m), [Identity EXCEPT ![12] = -m[12], ![13] = -m[13], ![14] = -m[14]])

(* invert: "only pure translation-rotation matrices".                      *)
Invert(m) ==
    Multiply(Transpose([m EXCEPT ![12] = 0, ![13] = 0, ![14] = 0]),
             [Identity EXCEPT ![12] = -m[12], ![13] = -m[13], ![14] = -m[14]])

(***************************************************************************)
(* The frames.                                                             *)
(***************************************************************************)

(* The positions of the gears.                                             *)
Places == <<<<-30, -20>>, <<31, -20>>, <<-31, 42>>>>

NoUniforms == [modelView |-> Identity, clip |-> Identity, normal |-> Identity]

Init ==
    /\ next = 0
    /\ view_rot \in [{"x", "y", "z"} -> Angles]
    /\ angle = 0
    /\ transform = Identity
    /\ uniforms = NoUniforms

(* main's loop moves the view, and gears_draw takes it for all the gears.  *)
DrawView ==
    /\ next = 0
    /\ \E t \in [{"x", "y", "z"} -> Turns] :
        view_rot' = [d \in {"x", "y", "z"} |-> (view_rot[d] + t[d]) % FullTurn]
    /\ transform' =
        Rotate(Rotate(Rotate(Translate(Identity, 0, 0, -200),
            view_rot'["x"], 1, 0, 0), view_rot'["y"], 0, 1, 0), view_rot'["z"], 0, 0, 1)
    /\ next' = 1
    /\ UNCHANGED <<angle, uniforms>>

(* The matrices of a gear, from the view and its place and angle.          *)
Matrices(x, y, q) ==
    LET mv == Rotate(Translate(transform, x, y, 0), q, 0, 0, 1)
    IN [ modelView |-> mv,
         clip |-> Multiply(Projection, mv),
         normal |-> Transpose(Invert(mv)) ]

(* Mutant of DrawGear: transform is passed on, moved by each gear.         *)
DrawGearMoving ==
    /\ next # 0
    /\ \E q \in Angles :
        /\ angle' = q
        /\ uniforms' = Matrices(Places[next][1], Places[next][2], q)
    /\ transform' = uniforms'.modelView
    /\ next' = (next + 1) % 4
    /\ UNCHANGED view_rot

(* draw_gear.                                                              *)
DrawGear ==
    /\ next # 0
    /\ \E q \in Angles :
        /\ angle' = q
        /\ uniforms' = Matrices(Places[next][1], Places[next][2], q)
    /\ next' = (next + 1) % 4
    /\ UNCHANGED <<view_rot, transform>>

Next == DrawView \/ DrawGear
Spec == Init /\ [][Next]_vars

(***************************************************************************)
(* Properties.                                                             *)
(***************************************************************************)

(* The shader's product of a matrix and a point or normal.                 *)
Apply(m, p) == [r \in 1..4 |-> m[r - 1] * p[1] + m[r + 3] * p[2] + m[r + 7] * p[3]
                                + m[r + 11] * p[4]]
Space(p) == SubSeq(p, 1, 3)

(* Geometry, without matrices: a turn by the angle q about an axis.        *)
Turned(axis, q, p) ==
    CASE axis = "x" -> <<p[1], Cos[q] * p[2] - Sin[q] * p[3], Sin[q] * p[2] + Cos[q] * p[3]>>
      [] axis = "y" -> <<Cos[q] * p[1] + Sin[q] * p[3], p[2], Cos[q] * p[3] - Sin[q] * p[1]>>
      [] axis = "z" -> <<Cos[q] * p[1] - Sin[q] * p[2], Sin[q] * p[1] + Cos[q] * p[2], p[3]>>
Moved(d, p) == <<p[1] + d[1], p[2] + d[2], p[3] + d[3]>>

(* As it is seen: turned about z, then y, then x.                          *)
Viewed(p) ==
    Turned("x", view_rot["x"], Turned("y", view_rot["y"], Turned("z", view_rot["z"], p)))

LastGear == IF next = 0 THEN 3 ELSE next - 1
Drawn == uniforms # NoUniforms /\ next # 1

Samples == {<<1, 0, 0>>, <<0, 1, 0>>, <<0, 0, 1>>, <<3, -5, 7>>}

(* A gear turns about its own axis at its place and is then seen as the    *)
(* view is turned, from 20 away, whatever was drawn before it; what goes   *)
(* to the screen is the projection of that.                                *)
PointsMove ==
    Drawn => \A p \in Samples :
        LET place == Append(Places[LastGear], 0)
            seen == Moved(<<0, 0, -200>>, Viewed(Moved(place, Turned("z", angle, p))))
        IN /\ Apply(uniforms.modelView, Append(p, 1)) = Append(seen, 1)
           /\ Apply(uniforms.clip, Append(p, 1)) = Apply(Projection, Append(seen, 1))

(* A normal turns with its gear and the view and is not moved, although    *)
(* the shader takes it for a point, with a fourth coordinate of 1: in the  *)
(* inverse transpose the translation is where it does not count.           *)
NormalsTurn ==
    Drawn => \A n \in Samples :
        Space(Apply(uniforms.normal, Append(n, 1))) = Viewed(Turned("z", angle, n))

GearsInPlace == PointsMove /\ NormalsTurn
=============================================================================
