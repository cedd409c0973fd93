------------------------------ MODULE GearMesh ------------------------------
(***************************************************************************)
(* create_gear of gles2gears.c: the vertices of a gear and the triangle    *)
(* strips over them, a strip a step. A point is its radius and its angle,  *)
(* the angle in quarters of a tooth, and the side of the gear it is on: no *)
(* coordinates are needed to tell points, edges and triangles apart.       *)
(* PointAt gives coordinates, to tell which way a triangle faces.          *)
(***************************************************************************)
EXTENDS Integers, Sequences, SequencesExt, FiniteSets, FiniteSetsExt

CONSTANTS
    Teeth,              \* the numbers of teeth of gears
    PointAt(_, _, _)    \* x and y of a radius at an angle, of gears of so many teeth

GearMeshConstants == Teeth \subseteq Nat \ {0}

STRIPS_PER_TOOTH == 7
VERTICES_PER_TOOTH == 34

VARIABLES
    teeth,      \* the argument
    i,          \* the tooth
    step,       \* the strip of the tooth, 1 to 7
    vertices,   \* gear->vertices, up to v
    strips      \* gear->strips, up to cur_strip: [first, count]

vars == <<teeth, i, step, vertices, strips>>

(* GEAR_POINT: the seven points of a tooth, from r0 (the hole), r1 and r2  *)
(* (below and at the top of the teeth) and the quarter of the tooth.       *)
Points == <<<<"r2", 1>>, <<"r2", 2>>, <<"r1", 0>>, <<"r1", 3>>, <<"r0", 0>>, <<"r1", 4>>,
            <<"r0", 4>>>>

(* Point p of tooth i. The last angle of a tooth is the first of the next. *)
Point(p, side) ==
    [r |-> Points[p + 1][1], a |-> (4 * i + Points[p + 1][2]) % (4 * teeth), side |-> side]

(* Mutant of Quad: the sides the other way round.                          *)
QuadInsideOut(p1, p2) == <<Point(p1, 1), Point(p1, -1), Point(p2, 1), Point(p2, -1)>>

(* QUAD_WITH_NORMAL, whose normal is p1 - p2 turned a quarter to the right.*)
Quad(p1, p2) == <<Point(p1, -1), Point(p1, 1), Point(p2, -1), Point(p2, 1)>>

(* Front and back face.                                                    *)
FrontFace == [p \in 1..7 |-> Point(p - 1, 1)]
BackFace == [p \in 1..7 |-> Point(7 - p, -1)]

(* Mutants of Strip: the corners of an outer face exchanged; the back face *)
(* in the place of the inner one.                                          *)
StripExchanged(k) ==
    <<FrontFace, Quad(4, 6), BackFace, Quad(0, 2), Quad(1, 0), Quad(3, 1), Quad(3, 5)>>[k]
StripBackAgain(k) ==
    <<FrontFace, BackFace, BackFace, Quad(0, 2), Quad(1, 0), Quad(3, 1), Quad(5, 3)>>[k]

(* Front, inner and back face, and the four outer ones.                    *)
Strip(k) ==
    <<FrontFace, Quad(4, 6), BackFace, Quad(0, 2), Quad(1, 0), Quad(3, 1), Quad(5, 3)>>[k]

Init ==
    /\ teeth \in Teeth
    /\ i = 0 /\ step = 1
    /\ vertices = <<>> /\ strips = <<>>

(* Mutant of AddStrip: START_STRIP left out.                               *)
AddStripUnstarted ==
    /\ i < teeth
    /\ vertices' = vertices \o Strip(step)
    /\ strips' = Append(strips, [first |-> 0, count |-> Len(vertices')])
    /\ step' = IF step = 7 THEN 1 ELSE step + 1
    /\ i' = IF step = 7 THEN i + 1 ELSE i
    /\ UNCHANGED teeth

(* START_STRIP, the vertices and END_STRIP.                                *)
AddStrip ==
    /\ i < teeth
    /\ vertices' = vertices \o Strip(step)
    /\ strips' = Append(strips, [first |-> Len(vertices), count |-> Len(Strip(step))])
    /\ step' = IF step = 7 THEN 1 ELSE step + 1
    /\ i' = IF step = 7 THEN i + 1 ELSE i
    /\ UNCHANGED teeth

Next == AddStrip
Spec == Init /\ [][Next]_vars

-----------------------------------------------------------------------------
(* The k-th triangle of a strip, as OpenGL draws it: every other one with  *)
(* its first two corners exchanged.                                        *)
Triangle(s, k) ==
    LET at(n) == vertices[strips[s].first + n]
    IN IF k % 2 = 1 THEN <<at(k), at(k + 1), at(k + 2)>> ELSE <<at(k + 1), at(k), at(k + 2)>>
TrianglesOf(s) == {Triangle(s, k) : k \in 1..(strips[s].count - 2)}
Edges(t) == {<<t[1], t[2]>>, <<t[2], t[3]>>, <<t[3], t[1]>>}

(* Neither calloc is overrun, and a finished gear fills both: the counts   *)
(* per tooth in the #defines are those of the strips.                      *)
FitsAllocation ==
    /\ Len(strips) <= STRIPS_PER_TOOTH * teeth
    /\ Len(vertices) <= VERTICES_PER_TOOTH * teeth
    /\ i = teeth =>
        /\ Len(strips) = STRIPS_PER_TOOTH * teeth
        /\ Len(vertices) = VERTICES_PER_TOOTH * teeth

(* Each vertex is drawn by one strip: the next begins where one ends.      *)
StripsTile ==
    /\ \A s \in DOMAIN strips :
        strips[s].first = IF s = 1 THEN 0 ELSE strips[s - 1].first + strips[s - 1].count
    /\ strips # <<>> => Last(strips).first + Last(strips).count = Len(vertices)

(* A finished gear is one closed surface and its triangles agree which     *)
(* side is out: whichever way an edge runs round one triangle it runs the  *)
(* other way round exactly one other. GL_CULL_FACE would make a hole of    *)
(* every one that does not agree.                                          *)
Watertight ==
    i = teeth =>
        LET all == UNION {TrianglesOf(s) : s \in DOMAIN strips}
            edges == UNION {Edges(t) : t \in all}
        IN /\ Cardinality(edges) = 3 * MapThenSumSet(LAMBDA s : strips[s].count - 2,
                                                     DOMAIN strips)
           /\ \A e \in edges : <<e[2], e[1]>> \in edges

(* The normal given to the vertices of a strip, and that of a triangle by  *)
(* the way round its corners go.                                           *)
XYZ(p) == Append(PointAt(p.r, p.a, teeth), p.side)
Minus(u, w) == [n \in 1..3 |-> u[n] - w[n]]
Cross(u, w) == <<u[2] * w[3] - u[3] * w[2], u[3] * w[1] - u[1] * w[3],
                 u[1] * w[2] - u[2] * w[1]>>
Dot(u, w) == u[1] * w[1] + u[2] * w[2] + u[3] * w[3]

(* SET_NORMAL: straight ahead, straight back, or of the quad.              *)
NormalOf(s) ==
    LET k == ((s - 1) % STRIPS_PER_TOOTH) + 1
        d == Minus(XYZ(vertices[strips[s].first + 1]), XYZ(vertices[strips[s].first + 3]))
    IN CASE k = 1 -> <<0, 0, 1>>
         [] k = 3 -> <<0, 0, -1>>
         [] OTHER -> <<d[2], -d[1], 0>>

(* The side on which a triangle is seen is the one its normal points to:   *)
(* what is lit is what is drawn.                                           *)
NormalsFaceOut ==
    strips # <<>> =>
        \A t \in TrianglesOf(Len(strips)) :
            Dot(Cross(Minus(XYZ(t[2]), XYZ(t[1])), Minus(XYZ(t[3]), XYZ(t[1]))),
                NormalOf(Len(strips))) > 0

MeshSound == FitsAllocation /\ StripsTile /\ Watertight /\ NormalsFaceOut
=============================================================================
