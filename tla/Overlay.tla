------------------------------ MODULE Overlay -------------------------------
(* The overlay that the Present callback (core.h) draws over each frame of the *)
(* game: it records the names of units in a geometry, render()s that into      *)
(* g_geometry, and renderer_draw uploads and draws everything in g_geometry.   *)
(* Before its first frame it creates the Direct3D objects and the fonts.       *)
(* Direct3D calls may fail; renderer_draw then returns, and what is recorded   *)
(* stays in g_geometry for the next frame.  (The state of the game's pipeline, *)
(* which renderer_draw backs up and sets again, is left out.)                  *)
EXTENDS FiniteSets, Geometry, Font

CONSTANTS Faces,        \* what GDI may measure for a font
          Title,        \* the text every frame has
          Texts, Paths, \* what it may have besides: names of units, paths
          MaxShapes,    \* bound: shapes in a frame
          VertexSlack, IndexSlack,  \* what buffers are made larger: 5000, 10000
          MaxFailures,  \* bound: calls of renderer_draw that fail
          MaxLost       \* bound: those and creations that fail

ASSUME OverlayAssumption ==
    /\ {MaxShapes, VertexSlack, IndexSlack, MaxFailures, MaxLost} \subseteq Nat
    /\ {Title} \union Texts \union Paths \subseteq Shapes
    /\ Title.vertices > 0
    /\ Faces \subseteq Measured

(* What renderer_recreate makes, in order (all states of the pipeline in one); *)
(* where it returns at once if that fails; and what is not kept afterwards.    *)
Steps    == <<"compile_vs", "vshader", "inputlayout", "vcbuff", "compile_ps", "pshader",
              "states", "default_texture", "fontsampler">>
Returns  == {"compile_vs", "vshader", "inputlayout", "compile_ps", "pshader"}
Compiled == {"compile_vs", "compile_ps"}
Made     == {Steps[i] : i \in DOMAIN Steps}

Fonts == {"text", "world_text"}

VARIABLES
    pc,             \* where the Present callback is; "idle": between two frames
    held,           \* the Direct3D objects that are not NULL
    tex_,           \* per font, its texture
    frame,          \* its local geometry, ...
    shapes,         \* ... and the shapes it may still get
    g_geometry,     \* the geometries to draw
    g_vb, g_ib,     \* the vertex and the index buffer
    g_vb_size, g_ib_size,
    failures, lost, \* calls that have failed in renderer_draw, and in all
    asked           \* every corner recorded since the last frame drawn in full,
                    \* triangle by triangle, with the texture it was meant for

deviceVars == <<held, tex_>>
bufferVars == <<g_vb, g_ib, g_vb_size, g_ib_size>>
failVars   == <<failures, lost>>
vars == <<pc, deviceVars, frame, shapes, g_geometry, bufferVars, failVars, asked>>

NoBuffer == [size |-> 0, mapped |-> FALSE, data |-> <<>>]
Buffer(n) == [size |-> n, mapped |-> FALSE, data |-> <<>>]
Mapped(b) == [b EXCEPT !.mapped = TRUE, !.data = <<>>]      \* WRITE_DISCARD
Unmapped(b, d) == [b EXCEPT !.mapped = FALSE, !.data = d]

Init == /\ pc = "setup" /\ held = {} /\ tex_ = [f \in Fonts |-> NoTexture]
        /\ frame = NewGeometry /\ shapes = 0
        /\ g_geometry = <<>> /\ g_vb = NoBuffer /\ g_ib = NoBuffer
        /\ g_vb_size = VertexSlack /\ g_ib_size = IndexSlack
        /\ failures = 0 /\ lost = 0 /\ asked = <<>>

Lose(n) == lost + n <= MaxLost /\ lost' = lost + n

Fail == /\ failures < MaxFailures
        /\ failures' = failures + 1 /\ Lose(1) /\ pc' = "idle"

-----------------------------------------------------------------------------
(* Setting up, in the callback's call_once.                                    *)

(* The steps that renderer_recreate gets to if those in F fail. *)
Attempted(F) == {Steps[i] : i \in {k \in DOMAIN Steps :
                                      \A j \in 1..(k - 1) : Steps[j] \notin F \cap Returns}}

(* make_d3d11_texture reads through a texture that it did not get (a view that *)
(* it did not get it returns).                                                 *)
TextureMissing(failed) == failed /\ pc' = "crashed"

(* renderer_recreate: what fails becomes NULL. *)
Recreate(next) ==
    \E F \in SUBSET Made :
        /\ F \subseteq Attempted(F) /\ Lose(Cardinality(F))
        /\ held' = (held \ Attempted(F)) \union (Attempted(F) \ (F \union Compiled))
        /\ pc' = next \/ TextureMissing("default_texture" \in F)

(* renderer_setup: without the factory it calls AddRef of a null g_device. *)
Setup == /\ pc = "setup"
         /\ \/ Recreate("fonts")
            \/ Lose(1) /\ pc' = "crashed" /\ UNCHANGED held
         /\ UNCHANGED <<tex_, frame, shapes, g_geometry, bufferVars,
                        failures, asked>>

(* font::create, twice; nobody looks at its result. *)
CreateFonts ==
    /\ pc = "fonts"
    /\ \E F \in SUBSET Fonts :
          /\ Lose(Cardinality(F))
          /\ tex_' = [f \in Fonts |-> IF f \in F THEN NoTexture ELSE f]
          /\ pc' = "idle" \/ TextureMissing(F # {})
    /\ UNCHANGED <<held, frame, shapes, g_geometry, bufferVars,
                   failures, asked>>

-----------------------------------------------------------------------------
(* The Present callback.                                                       *)

Asked(t, s) == asked \o [j \in 1..Len(s.written) |->
                            [texture |-> t, vertex |-> <<Len(asked), s.written[j]>>]]

(* The local geometry and its title. *)
BeginFrame == /\ pc = "idle"
              /\ frame' = PutUnder(PushDrawCmd(NewGeometry), tex_["text"], Title,
                                   Len(asked))
              /\ asked' = Asked(tex_["text"], Title)
              /\ pc' = "record" /\ shapes' = MaxShapes
              /\ UNCHANGED <<deviceVars, g_geometry, bufferVars, failVars>>

DrawText(s) == /\ frame' = PutUnder(frame, tex_["world_text"], s, Len(asked))
               /\ asked' = Asked(tex_["world_text"], s)

DrawPath(s) == /\ frame' = Put(frame, s, Len(asked))
               /\ asked' = Asked(Last(frame.textures), s)

DrawShape == /\ pc = "record" /\ shapes > 0
             /\ (\E s \in Texts : DrawText(s)) \/ (\E s \in Paths : DrawPath(s))
             /\ shapes' = shapes - 1
             /\ UNCHANGED <<pc, deviceVars, g_geometry, bufferVars, failVars>>

Render == /\ pc = "record"
          /\ g_geometry' = Append(g_geometry, frame)
          /\ frame' = NewGeometry /\ shapes' = 0
          /\ pc' = "recreate"
          /\ UNCHANGED <<deviceVars, bufferVars, failVars, asked>>

-----------------------------------------------------------------------------
(* renderer_draw.                                                              *)

(* The sampler is made last: without it all is made again. *)
RecreateMissing ==
    /\ pc = "recreate"
    /\ IF "fontsampler" \in held THEN pc' = "vertex buffer" /\ UNCHANGED <<held, lost>>
       ELSE Recreate("vertex buffer")
    /\ UNCHANGED <<tex_, frame, shapes, g_geometry, bufferVars,
                   failures, asked>>

(* The loop over g_geometry that adds up sizes. *)
Total(ns) ==
    LET total[k \in 0..Len(ns)] == IF k = 0 THEN 0 ELSE total[k - 1] + ns[k]
    IN  total[Len(ns)]

TotalVertices == Total([k \in DOMAIN g_geometry |-> Len(g_geometry[k].vertices)])
TotalIndices  == Total([k \in DOMAIN g_geometry |-> Len(g_geometry[k].indices)])

(* A buffer that is missing or too small is made anew.  (The first two are the *)
(* test with one of its halves.)                                               *)
TooSmallMissing(b, size, total) == b = NoBuffer
TooSmall(b, size, total) == b = NoBuffer \/ size < total

GrowVertexBuffer ==
    /\ pc = "vertex buffer"
    /\ IF TooSmall(g_vb, g_vb_size, TotalVertices)
       THEN /\ g_vb_size' = TotalVertices + VertexSlack
            /\ \/ g_vb' = Buffer(g_vb_size') /\ pc' = "index buffer" /\ UNCHANGED failVars
               \/ g_vb' = NoBuffer /\ Fail
       ELSE pc' = "index buffer" /\ UNCHANGED <<g_vb, g_vb_size, failVars>>
    /\ UNCHANGED <<deviceVars, frame, shapes, g_geometry, g_ib, g_ib_size, asked>>

GrowIndexBuffer ==
    /\ pc = "index buffer"
    /\ IF TooSmall(g_ib, g_ib_size, TotalIndices)
       THEN /\ g_ib_size' = TotalIndices + IndexSlack
            /\ \/ g_ib' = Buffer(g_ib_size') /\ pc' = "map vertices" /\ UNCHANGED failVars
               \/ g_ib' = NoBuffer /\ Fail
       ELSE pc' = "map vertices" /\ UNCHANGED <<g_ib, g_ib_size, failVars>>
    /\ UNCHANGED <<deviceVars, frame, shapes, g_geometry, g_vb, g_vb_size, asked>>

(* Direct3D need not map what is mapped already, as the vertex buffer is after *)
(* a Map of the index buffer that failed.                                      *)
MapVertices ==
    /\ pc = "map vertices"
    /\ \/ g_vb' = Mapped(g_vb) /\ pc' = "map indices" /\ UNCHANGED failVars
       \/ g_vb.mapped /\ pc' = "idle" /\ UNCHANGED <<g_vb, failVars>>
       \/ Fail /\ UNCHANGED g_vb
    /\ UNCHANGED <<deviceVars, frame, shapes, g_geometry, g_ib, g_vb_size, g_ib_size, asked>>

MapIndices ==
    /\ pc = "map indices"
    /\ \/ g_ib' = Mapped(g_ib) /\ pc' = "upload" /\ UNCHANGED failVars
       \/ Fail /\ UNCHANGED g_ib
    /\ UNCHANGED <<deviceVars, frame, shapes, g_geometry, g_vb, g_vb_size, g_ib_size, asked>>

(* All vertices in one buffer, all indices in the other. *)
AllVertices == FlattenSeq([k \in DOMAIN g_geometry |-> g_geometry[k].vertices])
AllIndices  == FlattenSeq([k \in DOMAIN g_geometry |-> g_geometry[k].indices])

Upload == /\ pc = "upload"
          /\ g_vb' = Unmapped(g_vb, AllVertices)
          /\ g_ib' = Unmapped(g_ib, AllIndices)
          /\ pc' = "constants"
          /\ UNCHANGED <<deviceVars, frame, shapes, g_geometry, g_vb_size, g_ib_size,
                         failVars, asked>>

(* (Map reads through the buffer it is given.) *)
MapConstants == /\ pc = "constants"
                /\ IF "vcbuff" \in held
                   THEN (pc' = "draw" /\ UNCHANGED failVars) \/ Fail
                   ELSE pc' = "crashed" /\ UNCHANGED failVars
                /\ UNCHANGED <<deviceVars, frame, shapes, g_geometry, bufferVars, asked>>

(* The DrawIndexed calls.  idx_pos goes on with each command, vtx_pos with     *)
(* each geometry.  (The first forgets vtx_pos.)                                *)
Call(t, n, first, base) == [texture |-> t, count |-> n, first |-> first, base |-> base]

CallsOf(g, pos) ==
    FoldLeft(LAMBDA p, cmd :
                [calls |-> Append(p.calls,
                                  Call(cmd.texture, cmd.indices, p.idx_pos, pos.vtx_pos)),
                 idx_pos |-> p.idx_pos + cmd.indices, vtx_pos |-> pos.vtx_pos],
             pos, SelectSeq(g.cmds, LAMBDA cmd : cmd.indices # 0))

NextVerticesSame(g, pos) == pos
NextVertices(g, pos) == [pos EXCEPT !.vtx_pos = @ + Len(g.vertices)]

DrawCalls ==
    FoldLeft(LAMBDA pos, g : NextVertices(g, CallsOf(g, pos)),
             [calls |-> <<>>, idx_pos |-> 0, vtx_pos |-> 0], g_geometry).calls

(* (What the buffers hold is not used again before the next Map discards it.)  *)
Draw == /\ pc = "draw"
        /\ g_geometry' = <<>>
        /\ g_vb' = Unmapped(g_vb, <<>>) /\ g_ib' = Unmapped(g_ib, <<>>)
        /\ pc' = "idle" /\ asked' = <<>>
        /\ UNCHANGED <<held, tex_, frame, shapes, g_vb_size, g_ib_size, failVars>>

-----------------------------------------------------------------------------
Crashed == pc = "crashed" /\ UNCHANGED vars

Next == \/ Setup \/ CreateFonts \/ BeginFrame \/ DrawShape \/ Render \/ RecreateMissing
        \/ GrowVertexBuffer \/ GrowIndexBuffer \/ MapVertices \/ MapIndices
        \/ Upload \/ MapConstants \/ Draw \/ Crashed

Spec == Init /\ [][Next]_vars

-----------------------------------------------------------------------------
(* Properties.                                                                 *)

Nothing == [texture |-> "none", vertex |-> <<>>]

(* The corner that a call makes Direct3D fetch. *)
Fetched(call, j) ==
    LET at == call.first + j
        v  == IF at \in DOMAIN g_ib.data THEN call.base + g_ib.data[at] + 1 ELSE 0
    IN  IF v \in DOMAIN g_vb.data
        THEN [texture |-> call.texture, vertex |-> g_vb.data[v]] ELSE Nothing

(* Without one of these no call draws anything. *)
Shaders == {"vshader", "inputlayout", "pshader"}

Screen == IF Shaders \subseteq held
          THEN FlattenSeq([k \in DOMAIN DrawCalls |->
                            [j \in 1..DrawCalls[k].count |-> Fetched(DrawCalls[k], j)]])
          ELSE <<>>

(* Whatever failed in earlier frames or at the start, a frame that is drawn    *)
(* shows exactly what was recorded since the last one: each triangle once, in  *)
(* order, with its own vertices and the texture in force when it was recorded. *)
(* An `index` must be wide enough for each geometry; and renderer_draw takes   *)
(* the sampler for the sign that all of renderer_recreate was done.            *)
DrawnAsAsked ==
    [][(/\ g_geometry # <<>> /\ g_geometry' = <<>> /\ "fontsampler" \in held
        /\ \A k \in DOMAIN g_geometry : Len(g_geometry[k].vertices) <= IndexLimit)
       => Screen = asked]_vars

(* The copies into the mapped buffers stay inside what was created, although   *)
(* the sizes are noted before a creation that may fail.                        *)
BuffersLargeEnough ==
    pc = "upload" => TotalVertices <= g_vb.size /\ TotalIndices <= g_ib.size

(* The characters of a font do not touch in its texture, and none reaches over *)
(* its edge: of a face whose characters are at most 1.4 times as wide as high. *)
CellsApart ==
    pc = "fonts" => \A face \in Faces :
        LET atlas == Atlas(face)
        IN  /\ \A c \in DOMAIN atlas.cells :
                  atlas.cells[c].right <= atlas.size /\ atlas.cells[c].bottom <= atlas.size
            /\ \A c \in DOMAIN atlas.cells : \A d \in 1..(c - 1) :
                  \/ atlas.cells[d].right <= atlas.cells[c].left
                  \/ atlas.cells[d].bottom <= atlas.cells[c].top
=============================================================================
