------------------------------ MODULE OverlayMC -----------------------------
EXTENDS Overlay
OneLetter == Text(1, FALSE)
Names     == {OneLetter}
EachPath  == {Polyline(1, FALSE, FALSE), Polyline(3, FALSE, TRUE), Line(FALSE), RectPath(TRUE),
              Circle(2), FilledCircle(3), FilledRect, Gradient, Texture, SpecialRect,
              Text(1, TRUE)}
EachFace  == {[height |-> h, width |-> [c \in Chars |-> 1 + ((c * k) % ((7 * h) \div 5 - 1))]] :
                h \in {5, 13, 23, 40}, k \in {1, 7, 10}}
=============================================================================
