------------------------------ MODULE Geometry ------------------------------
(* The drawing lists of Renderer/renderer.h: what each drawing operation of    *)
(* `geometry` reserves and which vertices its indices name, and the commands   *)
(* and textures they are recorded under.  Coordinates and colours are left     *)
(* out; a vertex is known by the shape it belongs to and its place in it.      *)
EXTENDS Naturals, Sequences, SequencesExt

CONSTANT IndexLimit     \* the number of values of `index`: 65536 for uint16_t

ASSUME IndexLimitAssumption == IndexLimit \in Nat \ {0}

NoTexture == "NULL"

-----------------------------------------------------------------------------
(* Shapes: the vertices and indices an operation reserves, and the indices it  *)
(* writes, counted from the first of its vertices.                             *)

Shape(v, i, written) == [vertices |-> v, reserved |-> i, written |-> written]

Shapes == [vertices : Nat, reserved : Nat, written : Seq(Nat)]

(* Two triangles. *)
FilledRect == Shape(4, 6, <<0, 1, 2, 3, 2, 1>>)
Gradient   == FilledRect
Texture    == FilledRect

SpecialRect == Shape(5, 12, <<0, 1, 2, 0, 1, 3, 0, 2, 4, 0, 3, 4>>)

(* draw_text: one quick_texture for a letter that can be seen, five with its   *)
(* outline.  (Blanks only move the position.)  DEL is left out: draw_text      *)
(* reserves nothing for it but would draw it, and no caller's text has one.    *)
Quads(n) == FlattenSeq([q \in 1..n |->
                [k \in 1..6 |-> 4 * (q - 1) + FilledRect.written[k]]])
Text(letters, outlined) ==
    LET quads == IF outlined THEN 5 * letters ELSE letters
    IN  Shape(4 * quads, 6 * quads, Quads(quads))

ThinSegment(a, b) == <<b, a, a + 2, a + 2, b + 2, b,
                       b + 1, a + 1, a, a, b, b + 1>>
ThickSegment(a, b) == <<b + 1, a + 1, a + 2, a + 2, b + 2, b + 1,
                        b + 1, a + 1, a, a, b, b + 1,
                        b + 2, a + 2, a + 3, a + 3, b + 3, b + 2>>

(* Segment i of a polyline through n points joins point i to the next one,     *)
(* the last of a closed one to the first.  Fewer than two points draw nothing. *)
Polyline(n, closed, thick) ==
    LET count  == IF closed THEN n ELSE n - 1
        stride == IF thick THEN 4 ELSE 3
        Segment(a, b) == IF thick THEN ThickSegment(a, b) ELSE ThinSegment(a, b)
    IN  IF n < 2 THEN Shape(0, 0, <<>>)
        ELSE Shape(stride * n, (IF thick THEN 18 ELSE 12) * count,
                   FlattenSeq([i \in 1..count |->
                       Segment(stride * (i - 1), stride * (i % n))]))

(* The inside of a convex path as a fan, and its edges. *)
Convex(n) ==
    LET Fan  == [i \in 1..(n - 2) |-> <<0, 2 * i, 2 * i + 2>>]
        Edge == [i \in 1..n |->
                    LET i1 == 2 * (i - 1)
                        i0 == 2 * ((i + n - 2) % n)
                    IN  <<i1, i0, i0 + 1, i0 + 1, i1 + 1, i1>>]
    IN  Shape(2 * n, (n - 2) * 3 + n * 6, FlattenSeq(Fan) \o FlattenSeq(Edge))

Line(thick)            == Polyline(2, FALSE, thick)
RectPath(thick)        == Polyline(4, TRUE, thick)
Circle(segments)       == Polyline(segments + 1, TRUE, FALSE)
FilledCircle(segments) == Convex(segments + 1)

-----------------------------------------------------------------------------
(* `geometry` itself.                                                          *)

DrawCmd(t) == [texture |-> t, indices |-> 0]

NewGeometry == [vertices |-> <<>>, indices |-> <<>>,
                cmds |-> <<DrawCmd(NoTexture)>>, textures |-> <<NoTexture>>]

PushDrawCmd(g) == [g EXCEPT !.cmds = Append(@, DrawCmd(Last(g.textures)))]
PushTexture(g, t) == [g EXCEPT !.textures = Append(@, t)]
PopTexture(g) == [g EXCEPT !.textures = Front(@)]

(* reserve, and what the operation then writes: `id` names its vertices.  An   *)
(* index cell that is not written is no index; one written beyond the          *)
(* reservation is not part of the vector.                                      *)
Unwritten == IndexLimit

Reserve(g, i) == [g EXCEPT !.cmds[Len(g.cmds)].indices = @ + i]

Put(g, s, id) ==
    LET base == Len(g.vertices)
        Cell(j) == IF j <= Len(s.written)
                   THEN (base + s.written[j]) % IndexLimit ELSE Unwritten
    IN  [Reserve(g, s.reserved) EXCEPT
            !.vertices = @ \o [j \in 1..s.vertices |-> <<id, j - 1>>],
            !.indices  = @ \o [j \in 1..s.reserved |-> Cell(j)]]

(* draw_text into a geometry, and texture::draw: under the texture t, and back *)
(* to the one before.  (The first forgets to go back.)                         *)
PutUnderStays(g, t, s, id) ==
    PopTexture(Put(PushDrawCmd(PushTexture(g, t)), s, id))
PutUnder(g, t, s, id) ==
    PushDrawCmd(PopTexture(Put(PushDrawCmd(PushTexture(g, t)), s, id)))
=============================================================================
