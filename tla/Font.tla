-------------------------------- MODULE Font --------------------------------
(* The atlas of a font (Renderer/renderer.h): font::create looks for a square  *)
(* texture that holds the 95 printable characters, and paint_alphabet places   *)
(* them in rows.  A face gives the sizes that GDI measures: a height for all   *)
(* characters and a width for each.  (Above the largest texture Direct3D has,  *)
(* 16384 pixels, the face would be scaled down; no face of MaxHeight needs it, *)
(* and the fonts made are of 8 and 14 points.)                                 *)
EXTENDS Naturals, Sequences

Chars == 32..126

(* In pixels, four times and more what 14 points are on an ordinary screen. *)
MaxHeight == 85

(* Faces whose characters are at most 1.4 times as wide as high. *)
Measured == {face \in [height : 1..MaxHeight, width : [Chars -> Nat]] :
                \A c \in Chars : 5 * face.width[c] <= 7 * face.height}

(* spacing_: 0.3 of the height, rounded up. *)
Spacing(face) == (3 * face.height + 9) \div 10

(* A cell is what tex_coords_ has of a character, in pixels. *)
Cells == [left : Nat, top : Nat, right : Nat, bottom : Nat]
Cell(x, y, w, h) == [left |-> x, top |-> y, right |-> x + w, bottom |-> y + h]

(* How far paint_alphabet is: where the next character goes, if it fits.       *)
Positions == [x : Nat, y : Nat, fits : BOOLEAN, cells : Seq(Cells)]

(* A character begins a new row if it and its spacing do not fit in this one.  *)
(* (The first forgets the spacing.)                                            *)
NewRow(pos, face) == [pos EXCEPT !.x = Spacing(face), !.y = @ + face.height + 1]

WrappedTight(pos, face, c, size) ==
    IF pos.x + face.width[c] > size THEN NewRow(pos, face) ELSE pos
Wrapped(pos, face, c, size) ==
    IF pos.x + face.width[c] + Spacing(face) > size THEN NewRow(pos, face) ELSE pos

Place(pos, face, c, size) ==
    LET at == Wrapped(pos, face, c, size)
        s  == Spacing(face)
        w  == face.width[c] + 2 * s
    IN  IF ~pos.fits THEN pos
        ELSE IF at.y + face.height > size THEN [at EXCEPT !.fits = FALSE]
        ELSE [at EXCEPT !.x = @ + w,
                        !.cells = Append(@, Cell(at.x - s, at.y, w, face.height))]

(* paint_alphabet: one character after the other.  (`place' is a function,  *)
(* so that TLC has each position in full before it goes on from it.)           *)
Start(face) == [x |-> Spacing(face), y |-> 0, fits |-> TRUE, cells |-> <<>>]

PaintAlphabet(face, size) ==
    LET place(n) == [pos \in Positions |-> Place(pos, face, 31 + n, size)]
        paint[n \in 0..95] == IF n = 0 THEN Start(face) ELSE place(n)[paint[n - 1]]
    IN  paint[95]

(* create: the size is doubled, from 64 on, while not all characters fit. *)
Doublings == 8

Size[n \in 0..Doublings] == IF n = 0 THEN 64 ELSE 2 * Size[n - 1]

Fits(face, n) == PaintAlphabet(face, Size[n]).fits

Atlas(face) ==
    LET n == CHOOSE n \in 0..Doublings : /\ Fits(face, n)
                                         /\ \A m \in 0..(n - 1) : ~Fits(face, m)
    IN  [size |-> Size[n], cells |-> PaintAlphabet(face, Size[n]).cells]
=============================================================================
