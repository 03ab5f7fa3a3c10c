---------------------------- MODULE OverlayProofs ----------------------------
(* Proofs about the overlay, for any faces, texts and shapes and any number of *)
(* failures: its buffers hold what is copied into them, and the characters of  *)
(* a font lie apart in its texture.                                            *)
EXTENDS Overlay, FiniteSetTheorems, WellFoundedInduction, TLAPS

-----------------------------------------------------------------------------
(* Recursive functions on an initial segment of the naturals.                  *)

LEMMA SetInduction ==
    ASSUME NEW T, 0 \in T, \A n \in Nat : n \in T => n + 1 \in T
    PROVE  \A n \in Nat : n \in T
<1>. DEFINE B == Nat \ T
<1>1. SUFFICES ASSUME B # {} PROVE FALSE
  OBVIOUS
<1>2. PICK m \in B : \A k \in B : <<k, m>> \notin OpToRel(<, Nat)
  <2>. B \subseteq Nat
    OBVIOUS
  <2>. HIDE DEF B
  <2>. QED  BY <1>1, WFMin, NatLessThanWellFounded, Zenon
<1>3. \A k \in B : ~(k < m)
  BY <1>2, Zenon DEF OpToRel
<1>. QED  BY <1>3

(* f is what n steps of F make of b, one after the other. *)
Iterates(S, F, b, n, f) ==
    f \in [0..n -> S] /\ f[0] = b /\ \A k \in 1..n : f[k] = F[k][f[k - 1]]

LEMMA Iteration ==
    ASSUME NEW S, NEW b \in S, NEW F \in [Nat -> [S -> S]]
    PROVE  \A n \in Nat : \E f : Iterates(S, F, b, n, f)
<1>. DEFINE Good(n) == \E f \in [0..n -> S] :
                          f[0] = b /\ \A k \in 1..n : f[k] = F[k][f[k - 1]]
            T == {n \in Nat : Good(n)}
<1>1. 0 \in T
  <2>. DEFINE g == [k \in 0..0 |-> b]
  <2>1. g \in [0..0 -> S] /\ g[0] = b /\ \A k \in 1..0 : g[k] = F[k][g[k - 1]]
    OBVIOUS
  <2>2. Good(0)
    <3>. HIDE DEF g
    <3>. QED  BY <2>1
  <2>. QED  BY <2>2
<1>2. ASSUME NEW n \in Nat, Good(n)  PROVE Good(n + 1)
  <2>1. PICK f \in [0..n -> S] : f[0] = b /\ \A k \in 1..n : f[k] = F[k][f[k - 1]]
    BY <1>2
  <2>. DEFINE g == [k \in 0..(n + 1) |-> IF k = n + 1 THEN F[n + 1][f[n]] ELSE f[k]]
  <2>2. F[n + 1] \in [S -> S] /\ f[n] \in S
    OBVIOUS
  <2>3. g \in [0..(n + 1) -> S]
    BY <2>2
  <2>4. g[0] = b
    BY <2>1
  <2>5. ASSUME NEW k \in 1..(n + 1)  PROVE g[k] = F[k][g[k - 1]]
    <3>1. CASE k = n + 1
      BY <3>1
    <3>2. CASE k # n + 1
      BY <2>1, <3>2
    <3>. QED  BY <3>1, <3>2
  <2>. HIDE DEF g
  <2>. QED  BY <2>3, <2>4, <2>5
<1>3. \A n \in Nat : n \in T
  <2>1. \A n \in Nat : n \in T => n + 1 \in T
    <3>. HIDE DEF Good
    <3>. QED  BY <1>2
  <2>. HIDE DEF T
  <2>. QED  BY <1>1, <2>1, SetInduction, Zenon
<1>. HIDE DEF Good
<1>4. \A n \in Nat : Good(n)
  BY <1>3
<1>. USE DEF Good
<1>. QED  BY <1>4, Zenon DEF Iterates

(* What a function of 0..n keeps from each number to the next it keeps to n. *)
LEMMA StepByStep ==
    ASSUME NEW S, NEW n \in Nat, NEW f, f[0] \in S,
           \A k \in 1..n : f[k - 1] \in S => f[k] \in S
    PROVE  \A k \in 0..n : f[k] \in S
<1>. DEFINE T == {k \in Nat : k <= n => f[k] \in S}
<1>1. 0 \in T
  OBVIOUS
<1>2. ASSUME NEW k \in Nat, k \in T  PROVE k + 1 \in T
  BY <1>2
<1>3. \A k \in Nat : k \in T
  <2>. HIDE DEF T
  <2>. QED  BY <1>1, <1>2, SetInduction, Zenon
<1>. QED  BY <1>3

(* A sum of natural numbers is one. *)
LEMMA TotalType ==
    ASSUME NEW ns \in Seq(Nat)
    PROVE  Total(ns) \in Nat
<1>. DEFINE total[k \in 0..Len(ns)] == IF k = 0 THEN 0 ELSE total[k - 1] + ns[k]
            F == [k \in Nat |-> [x \in Nat |-> IF k \in 1..Len(ns) THEN x + ns[k] ELSE 0]]
<1>1. Total(ns) = total[Len(ns)]
  BY DEF Total
<1>2. F \in [Nat -> [Nat -> Nat]]
  OBVIOUS
<1>3. PICK f : Iterates(Nat, F, 0, Len(ns), f)
  <2>1. 0 \in Nat /\ Len(ns) \in Nat
    OBVIOUS
  <2>. HIDE DEF F
  <2>. QED  BY Iteration, <1>2, <2>1, Zenon
<1>4. f = [k \in 0..Len(ns) |-> IF k = 0 THEN 0 ELSE f[k - 1] + ns[k]]
  <2>1. ASSUME NEW k \in 1..Len(ns)  PROVE f[k] = f[k - 1] + ns[k]
    <3>1. k \in Nat /\ f[k - 1] \in Nat
      BY <1>3 DEF Iterates
    <3>2. F[k] = [x \in Nat |-> x + ns[k]]
      BY <3>1
    <3>. HIDE DEF F
    <3>. QED  BY <1>3, <3>1, <3>2 DEF Iterates
  <2>. HIDE DEF F
  <2>. QED  BY <1>3, <2>1 DEF Iterates
<1>5. total = [k \in 0..Len(ns) |-> IF k = 0 THEN 0 ELSE total[k - 1] + ns[k]]
  <2>. DEFINE P(g) == g = [k \in 0..Len(ns) |-> IF k = 0 THEN 0 ELSE g[k - 1] + ns[k]]
  <2>1. \E g : P(g)
    BY <1>4
  <2>2. P(CHOOSE g : P(g))
    BY <2>1, Zenon
  <2>. QED  BY <2>2, Zenon
<1>. HIDE DEF total
<1>6. total[0] = 0 /\ \A k \in 1..Len(ns) : total[k] = total[k - 1] + ns[k]
  BY <1>5
<1>7. \A k \in 0..Len(ns) : total[k] \in Nat
  <2>1. Len(ns) \in Nat /\ total[0] \in Nat
    BY <1>6
  <2>2. \A k \in 1..Len(ns) : total[k - 1] \in Nat => total[k] \in Nat
    BY <1>6
  <2>. QED  BY <2>1, <2>2, StepByStep, Zenon
<1>. QED  BY <1>1, <1>7

-----------------------------------------------------------------------------
(* The characters of a font.                                                   *)

LEMMA SizeType ==
    /\ Size[0] = 64 /\ \A n \in 1..Doublings : Size[n] = 2 * Size[n - 1]
    /\ \A n \in 0..Doublings : Size[n] \in Nat
<1>. DEFINE F == [k \in Nat |-> [x \in Nat |-> 2 * x]]
<1>1. F \in [Nat -> [Nat -> Nat]]
  OBVIOUS
<1>2. PICK f : Iterates(Nat, F, 64, Doublings, f)
  <2>1. 64 \in Nat /\ Doublings \in Nat
    BY DEF Doublings
  <2>. HIDE DEF F
  <2>. QED  BY Iteration, <1>1, <2>1, Zenon
<1>3. f = [n \in 0..Doublings |-> IF n = 0 THEN 64 ELSE 2 * f[n - 1]]
  <2>1. ASSUME NEW k \in 1..Doublings  PROVE f[k] = 2 * f[k - 1]
    BY <1>2 DEF Iterates, Doublings
  <2>. HIDE DEF F
  <2>. QED  BY <1>2, <2>1 DEF Iterates, Doublings
<1>4. Size = [n \in 0..Doublings |-> IF n = 0 THEN 64 ELSE 2 * Size[n - 1]]
  <2>. DEFINE P(g) == g = [n \in 0..Doublings |-> IF n = 0 THEN 64 ELSE 2 * g[n - 1]]
  <2>1. \E g : P(g)
    BY <1>3
  <2>2. P(CHOOSE g : P(g))
    BY <2>1, Zenon
  <2>. QED  BY <2>2, Zenon DEF Size
<1>5. Size[0] = 64 /\ \A n \in 1..Doublings : Size[n] = 2 * Size[n - 1]
  BY <1>4 DEF Doublings
<1>6. \A n \in 0..Doublings : Size[n] \in Nat
  <2>1. Doublings \in Nat /\ Size[0] \in Nat
    BY <1>5 DEF Doublings
  <2>2. \A k \in 1..Doublings : Size[k - 1] \in Nat => Size[k] \in Nat
    BY <1>5
  <2>. QED  BY <2>1, <2>2, StepByStep, Zenon
<1>. QED  BY <1>5, <1>6

(* Where two cells do not touch, and where a cell is in the texture. *)
Apart(c, d)    == d.right <= c.left \/ d.bottom <= c.top
Within(c, size) == c.right <= size /\ c.bottom <= size

(* How far paint_alphabet may be: the cells placed lie apart and within the    *)
(* texture, in rows above the present one or before the position in it.        *)
Layout(face, size) ==
    {p \in Positions :
        /\ p.x >= Spacing(face)
        /\ \A c \in 1..Len(p.cells) :
              /\ Within(p.cells[c], size)
              /\ \/ p.cells[c].bottom <= p.y
                 \/ p.cells[c].top = p.y /\ p.cells[c].right <= p.x - Spacing(face)
              /\ p.cells[c].bottom <= p.y + face.height
              /\ \A d \in 1..(c - 1) : Apart(p.cells[c], p.cells[d])}

LEMMA SpacingType ==
    ASSUME NEW face \in Measured
    PROVE  /\ Spacing(face) \in 1..26
           /\ face.height \in 1..85 /\ face.width \in [Chars -> Nat]
           /\ \A c \in Chars : /\ face.width[c] + 2 * Spacing(face) <= 2 * face.height + 1
                               /\ face.width[c] <= 119
BY DEF Measured, Spacing, MaxHeight

LEMMA StartLaid ==
    ASSUME NEW face \in Measured, NEW size \in Nat
    PROVE  Start(face) \in Layout(face, size)
BY SpacingType DEF Start, Layout, Positions

(* Beginning a row, if a character needs one, keeps the layout; where its      *)
(* height fits, the texture has room for its width.                            *)
LEMMA WrappedLaid ==
    ASSUME NEW face \in Measured, NEW size \in Nat, NEW p \in Layout(face, size),
           NEW c \in Chars, NEW at, at = Wrapped(p, face, c, size)
    PROVE  /\ at \in Layout(face, size) /\ at.cells = p.cells /\ at.fits = p.fits
           /\ at.y + face.height <= size
                => at.x + face.width[c] + Spacing(face) <= size
<1>. DEFINE s == Spacing(face)
            w == face.width[c]
            h == face.height
<1>1. /\ s \in Nat /\ w \in Nat /\ h \in Nat
      /\ w + 2 * s <= 2 * h + 1
  BY SpacingType
<1>2. p \in Positions /\ p.x >= s
  BY DEF Layout, Positions
<1>3. \A d \in 1..Len(p.cells) :
         /\ p.cells[d] \in Cells
         /\ Within(p.cells[d], size)
         /\ \/ p.cells[d].bottom <= p.y
            \/ p.cells[d].top = p.y /\ p.cells[d].right <= p.x - s
         /\ p.cells[d].bottom <= p.y + h
         /\ \A e \in 1..(d - 1) : Apart(p.cells[d], p.cells[e])
  BY DEF Layout, Positions
<1>. HIDE DEF s, w, h
<1>4. CASE p.x + w + s > size
  <2>1. at = [p EXCEPT !.x = s, !.y = @ + h + 1]
    BY <1>4 DEF Wrapped, NewRow, s, w, h
  <2>2. /\ at \in Positions
        /\ at.x = s /\ at.y = p.y + h + 1 /\ at.cells = p.cells /\ at.fits = p.fits
    <3>1. p.x \in Nat /\ p.y \in Nat /\ p.cells \in Seq(Cells) /\ p.fits \in BOOLEAN
          /\ p = [x |-> p.x, y |-> p.y, fits |-> p.fits, cells |-> p.cells]
      BY <1>2 DEF Positions
    <3>2. at = [x |-> s, y |-> p.y + h + 1, fits |-> p.fits, cells |-> p.cells]
      BY <2>1, <3>1
    <3>. QED  BY <3>1, <3>2, <1>1 DEF Positions
  <2>3. ASSUME NEW d \in 1..Len(p.cells)  PROVE p.cells[d].bottom <= at.y
    <3>1. p.y \in Nat /\ p.cells[d].bottom \in Nat /\ p.cells[d].bottom <= p.y + h
      BY <1>2, <1>3, <1>1 DEF Positions, Cells
    <3>2. h \in Nat /\ at.y = p.y + h + 1
      BY <2>2, <1>1
    <3>. QED  BY <3>1, <3>2
  <2>4. at \in Layout(face, size)
    <3>1. ASSUME NEW d \in 1..Len(at.cells)
          PROVE  /\ Within(at.cells[d], size)
                 /\ at.cells[d].bottom <= at.y /\ at.cells[d].bottom <= at.y + h
                 /\ \A e \in 1..(d - 1) : Apart(at.cells[d], at.cells[e])
      <4>1. at.cells[d] \in Cells /\ at.cells[d].bottom <= at.y /\ at.y \in Nat
        BY <2>2, <2>3, <1>3 DEF Positions
      <4>2. at.cells[d].bottom <= at.y + h
        BY <4>1, <1>1 DEF Cells
      <4>. QED  BY <4>1, <4>2, <2>2, <1>3
    <3>2. at.x >= s
      BY <2>2, <1>1
    <3>. QED  BY <2>2, <3>1, <3>2 DEF Layout, Positions, s, h
  <2>5. at.y + h <= size => at.x + w + s <= size
    BY <2>2, <1>1, <1>2 DEF Positions
  <2>. QED  BY <2>2, <2>4, <2>5 DEF s, w, h
<1>5. CASE ~(p.x + w + s > size)
  <2>1. at = p
    BY <1>5 DEF Wrapped, s, w
  <2>2. at.x + w + s <= size
    BY <2>1, <1>1, <1>2, <1>5 DEF Positions
  <2>. QED  BY <2>1, <2>2 DEF s, w
<1>. QED  BY <1>4, <1>5

(* Placing a character, or failing to, keeps the layout. *)
LEMMA PlaceLaid ==
    ASSUME NEW face \in Measured, NEW size \in Nat, NEW p \in Layout(face, size),
           NEW c \in Chars
    PROVE  Place(p, face, c, size) \in Layout(face, size)
<1>. DEFINE at == Wrapped(p, face, c, size)
            s  == Spacing(face)
            w  == face.width[c]
            h  == face.height
            new == Cell(at.x - s, at.y, w + 2 * s, h)
            q  == Place(p, face, c, size)
<1>1. CASE ~p.fits
  BY <1>1 DEF Place
<1>2. CASE p.fits /\ at.y + h > size
  <2>1. q = [at EXCEPT !.fits = FALSE]
    BY <1>2 DEF Place
  <2>2. at \in Layout(face, size)
    BY WrappedLaid
  <2>. HIDE DEF at
  <2>. QED  BY <2>1, <2>2 DEF Layout, Positions
<1>3. CASE p.fits /\ ~(at.y + h > size)
  <2>1. at \in Layout(face, size)
    BY WrappedLaid
  <2>2. s \in Nat /\ w \in Nat /\ h \in Nat /\ h > 0
    BY SpacingType
  <2>3. at \in Positions /\ at.x >= s
    BY <2>1 DEF Layout, Positions
  <2>4. \A d \in 1..Len(at.cells) :
           /\ at.cells[d] \in Cells
           /\ Within(at.cells[d], size)
           /\ \/ at.cells[d].bottom <= at.y
              \/ at.cells[d].top = at.y /\ at.cells[d].right <= at.x - s
           /\ at.cells[d].bottom <= at.y + h
           /\ \A e \in 1..(d - 1) : Apart(at.cells[d], at.cells[e])
    BY <2>1 DEF Layout, Positions
  <2>5. at.y + h <= size /\ at.x + w + s <= size
    <3>1. at.y + h <= size => at.x + w + s <= size
      BY WrappedLaid
    <3>2. at.y \in Nat
      BY <2>3 DEF Positions
    <3>. QED  BY <1>3, <2>2, <3>1, <3>2
  <2>6. q = [at EXCEPT !.x = @ + (w + 2 * s), !.cells = Append(@, new)]
    BY <1>3 DEF Place
  <2>. HIDE DEF at, s, w, h, q
  <2>7. /\ at.x \in Nat /\ at.y \in Nat /\ at.cells \in Seq(Cells) /\ at.fits \in BOOLEAN
        /\ at = [x |-> at.x, y |-> at.y, fits |-> at.fits, cells |-> at.cells]
    BY <2>3 DEF Positions
  <2>8. /\ new \in Cells /\ new.left = at.x - s /\ new.top = at.y
        /\ new.right = at.x + w + s /\ new.bottom = at.y + h
    BY <2>2, <2>3, <2>7 DEF Cell, Cells
  <2>. HIDE DEF new
  <2>9. q = [x |-> at.x + w + 2 * s, y |-> at.y, fits |-> at.fits,
             cells |-> Append(at.cells, new)]
    <3>1. q = [[at EXCEPT !.x = @ + (w + 2 * s)] EXCEPT !.cells = Append(at.cells, new)]
      BY <2>6, <2>7
    <3>2. [at EXCEPT !.x = @ + (w + 2 * s)]
             = [x |-> at.x + (w + 2 * s), y |-> at.y, fits |-> at.fits, cells |-> at.cells]
      BY <2>7
    <3>3. at.x + (w + 2 * s) = at.x + w + 2 * s
      BY <2>2, <2>7
    <3>. QED  BY <3>1, <3>2, <3>3
  <2>10. q \in Positions /\ q.x >= s
    BY <2>2, <2>3, <2>7, <2>8, <2>9 DEF Positions
  <2>11. ASSUME NEW d \in 1..Len(q.cells)
         PROVE  /\ Within(q.cells[d], size)
                /\ \/ q.cells[d].bottom <= q.y
                   \/ q.cells[d].top = q.y /\ q.cells[d].right <= q.x - s
                /\ q.cells[d].bottom <= q.y + h
                /\ \A e \in 1..(d - 1) : Apart(q.cells[d], q.cells[e])
    <3>1. CASE d \in 1..Len(at.cells)
      <4>1. q.cells[d] = at.cells[d] /\ \A e \in 1..(d - 1) : q.cells[e] = at.cells[e]
        BY <3>1, <2>7, <2>9
      <4>2. q.x \in Nat /\ at.x - s <= q.x - s /\ q.y = at.y /\ at.cells[d].right \in Nat
        <5>1. at.cells[d].right \in Nat
          BY <3>1, <2>4 DEF Cells
        <5>. QED  BY <5>1, <2>2, <2>7, <2>9
      <4>3. \/ at.cells[d].bottom <= q.y
            \/ at.cells[d].top = q.y /\ at.cells[d].right <= q.x - s
        BY <3>1, <4>2, <2>2, <2>4, <2>7
      <4>. QED  BY <3>1, <4>1, <4>2, <4>3, <2>4
    <3>2. CASE d = Len(at.cells) + 1
      <4>1. q.cells[d] = new /\ \A e \in 1..(d - 1) : q.cells[e] = at.cells[e]
        BY <3>2, <2>7, <2>9
      <4>2. ASSUME NEW e \in 1..(d - 1)  PROVE Apart(new, at.cells[e])
        <5>1. \/ at.cells[e].bottom <= at.y
              \/ at.cells[e].right <= at.x - s
          BY <3>2, <2>4, <2>7
        <5>. QED  BY <5>1, <2>8 DEF Apart
      <4>3. Within(new, size)
        BY <2>2, <2>5, <2>7, <2>8 DEF Within
      <4>4. new.top = q.y /\ new.right <= q.x - s /\ new.bottom <= q.y + h
        BY <2>2, <2>7, <2>8, <2>9
      <4>. QED  BY <4>1, <4>2, <4>3, <4>4
    <3>. QED  BY <3>1, <3>2, <2>7, <2>9
  <2>. QED  BY <2>10, <2>11 DEF Layout, Positions, s, h, q
<1>. QED  BY <1>1, <1>2, <1>3

(* paint_alphabet goes through one layout after the other. *)
PaintSteps(f, face, size) ==
    /\ PaintAlphabet(face, size) = f[95]
    /\ f[0] = Start(face)
    /\ \A k \in 1..95 : f[k] = Place(f[k - 1], face, 31 + k, size)
    /\ \A k \in 0..95 : f[k] \in Layout(face, size)

LEMMA Painted ==
    ASSUME NEW face \in Measured, NEW size \in Nat
    PROVE  \E f : PaintSteps(f, face, size)
<1>. DEFINE L == Layout(face, size)
            place(n) == [pos \in Positions |-> Place(pos, face, 31 + n, size)]
            paint[n \in 0..95] == IF n = 0 THEN Start(face) ELSE place(n)[paint[n - 1]]
            F == [k \in Nat |-> [p \in L |->
                     IF k \in 1..95 THEN Place(p, face, 31 + k, size) ELSE p]]
<1>1. PaintAlphabet(face, size) = paint[95]
  BY DEF PaintAlphabet
<1>2. ASSUME NEW k \in 1..95, NEW p \in L  PROVE Place(p, face, 31 + k, size) \in L
  <2>1. 31 + k \in Chars
    BY DEF Chars
  <2>. QED  BY <2>1, PlaceLaid, Zenon
<1>3. Start(face) \in L
  BY StartLaid
<1>0. L \subseteq Positions
  BY DEF Layout
<1>11. ASSUME NEW k \in 1..95, NEW p \in L  PROVE place(k)[p] = Place(p, face, 31 + k, size)
  <2>1. p \in Positions
    BY <1>0
  <2>. QED  BY <2>1
<1>. HIDE DEF L, place
<1>4. F \in [Nat -> [L -> L]]
  BY <1>2
<1>5. PICK f : Iterates(L, F, Start(face), 95, f)
  <2>1. 95 \in Nat
    OBVIOUS
  <2>. HIDE DEF F
  <2>. QED  BY Iteration, <1>3, <1>4, <2>1, Zenon
<1>6. f = [n \in 0..95 |-> IF n = 0 THEN Start(face) ELSE place(n)[f[n - 1]]]
  <2>1. ASSUME NEW k \in 1..95  PROVE f[k] = place(k)[f[k - 1]]
    <3>1. f[k - 1] \in L /\ f[k] = F[k][f[k - 1]]
      BY <1>5 DEF Iterates
    <3>2. F[k] = [p \in L |-> Place(p, face, 31 + k, size)]
      OBVIOUS
    <3>. HIDE DEF F
    <3>. QED  BY <3>1, <3>2, <1>11
  <2>. HIDE DEF F
  <2>. QED  BY <1>5, <2>1 DEF Iterates
<1>7. paint = [n \in 0..95 |-> IF n = 0 THEN Start(face) ELSE place(n)[paint[n - 1]]]
  <2>. DEFINE P(g) == g = [n \in 0..95 |-> IF n = 0 THEN Start(face) ELSE place(n)[g[n - 1]]]
  <2>1. \E g : P(g)
    BY <1>6
  <2>2. P(CHOOSE g : P(g))
    BY <2>1, Zenon
  <2>. QED  BY <2>2, Zenon
<1>. HIDE DEF paint, F
<1>8. paint[0] = Start(face)
  BY <1>7
<1>9. ASSUME NEW k \in 1..95  PROVE paint[k] = place(k)[paint[k - 1]]
  <2>1. k \in 0..95 /\ k # 0
    OBVIOUS
  <2>. QED  BY <1>7, <2>1
<1>10. \A k \in 0..95 : paint[k] \in L
  <2>1. ASSUME NEW k \in 1..95, paint[k - 1] \in L  PROVE paint[k] \in L
    <3>1. paint[k] = Place(paint[k - 1], face, 31 + k, size)
      BY <1>9, <1>11, <2>1
    <3>. QED  BY <1>2, <2>1, <3>1
  <2>2. 95 \in Nat /\ paint[0] \in L
    BY <1>3, <1>8
  <2>. QED  BY <2>1, <2>2, StepByStep, Zenon
<1>12. ASSUME NEW k \in 1..95  PROVE paint[k] = Place(paint[k - 1], face, 31 + k, size)
  <2>1. paint[k - 1] \in L
    BY <1>10
  <2>. QED  BY <1>9, <1>11, <2>1
<1>. QED  BY <1>1, <1>8, <1>10, <1>12 DEF PaintSteps, L

(* All characters of any such face fit in the largest texture, in one row. *)
LEMMA FitsInLargest ==
    ASSUME NEW face \in Measured
    PROVE  Fits(face, Doublings)
<1>1. Size[Doublings] = 16384
  <2>1. /\ Size[1] = 128 /\ Size[2] = 256 /\ Size[3] = 512 /\ Size[4] = 1024
    BY SizeType DEF Doublings
  <2>. QED  BY <2>1, SizeType DEF Doublings
<1>2. PICK f : PaintSteps(f, face, 16384)
  BY Painted
<1>. DEFINE s == Spacing(face)
            Row(k) == f[k].fits /\ f[k].y = 0 /\ f[k].x <= 26 + 171 * k
            T == {k \in Nat : k <= 95 => Row(k)}
<1>. HIDE DEF s
<1>3. s \in 1..26 /\ face.height \in 1..85 /\ \A c \in Chars : face.width[c] \in 0..119
  BY SpacingType DEF s
<1>4. 0 \in T
  <2>1. f[0] = [x |-> s, y |-> 0, fits |-> TRUE, cells |-> <<>>]
    BY <1>2 DEF PaintSteps, Start, s
  <2>. QED  BY <2>1, <1>3
<1>5. ASSUME NEW k \in Nat, k + 1 <= 95, Row(k)  PROVE Row(k + 1)
  <2>. DEFINE p == f[k]
              w == face.width[31 + (k + 1)]
  <2>1. p \in Layout(face, 16384) /\ f[k + 1] = Place(p, face, 31 + (k + 1), 16384)
    BY <1>2, <1>5 DEF PaintSteps
  <2>2. p \in Positions /\ p.x \in Nat /\ p.cells \in Seq(Cells)
    BY <2>1 DEF Layout, Positions
  <2>3. w \in 0..119
    BY <1>3, <1>5 DEF Chars
  <2>4. k \in 0..94 /\ p.y = 0 /\ p.x <= 26 + 171 * k
    BY <1>5
  <2>12. p.fits
    BY <1>5
  <2>. HIDE DEF p, w
  <2>5. ~(p.x + w + s > 16384) /\ ~(p.y + face.height > 16384)
    <3>1. s \in 1..26 /\ face.height \in 1..85
      BY <1>3
    <3>2. p.x <= 16100
      BY <2>2, <2>4
    <3>3. ~(p.x + w + s > 16384)
      BY <3>1, <3>2, <2>2, <2>3
    <3>4. ~(p.y + face.height > 16384)
      BY <3>1, <2>4
    <3>. QED  BY <3>3, <3>4
  <2>6. Wrapped(p, face, 31 + (k + 1), 16384) = p
    BY <2>5 DEF Wrapped, w, s
  <2>7. f[k + 1] = [p EXCEPT !.x = @ + (w + 2 * s),
                             !.cells = Append(@, Cell(p.x - s, p.y, w + 2 * s, face.height))]
    <3>. DEFINE at == Wrapped(p, face, 31 + (k + 1), 16384)
    <3>1. at.fits /\ ~(at.y + face.height > 16384)
           => Place(p, face, 31 + (k + 1), 16384)
                = [at EXCEPT !.x = @ + (w + 2 * s),
                             !.cells = Append(@, Cell(at.x - s, at.y, w + 2 * s, face.height))]
      BY <2>6, <2>12 DEF Place, w, s
    <3>2. at = p
      BY <2>6
    <3>. HIDE DEF at
    <3>. QED  BY <2>1, <2>5, <2>12, <3>1, <3>2
  <2>8. /\ f[k + 1].fits = p.fits /\ f[k + 1].y = p.y
        /\ f[k + 1].x = p.x + (w + 2 * s)
    BY <2>2, <2>7 DEF Positions
  <2>11. f[k + 1].fits
    BY <2>8, <2>12
  <2>9. s \in 1..26
    BY <1>3
  <2>10. f[k + 1].x <= 26 + 171 * (k + 1) /\ f[k + 1].y = 0
    BY <2>2, <2>3, <2>4, <2>8, <2>9
  <2>. QED  BY <2>10, <2>11
<1>6. 95 \in T
  <2>1. \A k \in Nat : k \in T => k + 1 \in T
    <3>. HIDE DEF Row
    <3>. QED  BY <1>5
  <2>2. 95 \in Nat
    OBVIOUS
  <2>. HIDE DEF T
  <2>. QED  BY <1>4, <2>1, <2>2, SetInduction, Zenon
<1>. QED  BY <1>1, <1>2, <1>6 DEF Fits, PaintSteps

(* So font::create finds a size, and the characters lie apart at any. *)
LEMMA AtlasLaid ==
    ASSUME NEW face \in Measured
    PROVE  \E f : PaintSteps(f, face, Atlas(face).size) /\ Atlas(face).cells = f[95].cells
<1>. DEFINE Least(n) == Fits(face, n) /\ \A m \in 0..(n - 1) : ~Fits(face, m)
            N == {n \in 0..Doublings : Fits(face, n)}
            n == CHOOSE k \in 0..Doublings : Least(k)
<1>1. \E k \in 0..Doublings : Least(k)
  <2>1. N # {} /\ N \subseteq Nat
    BY FitsInLargest DEF Doublings
  <2>2. PICK k \in N : \A m \in N : <<m, k>> \notin OpToRel(<, Nat)
    <3>. HIDE DEF N
    <3>. QED  BY <2>1, WFMin, NatLessThanWellFounded, Zenon
  <2>3. \A m \in N : ~(m < k)
    <3>. HIDE DEF N
    <3>. QED  BY <2>1, <2>2 DEF OpToRel
  <2>4. \A m \in 0..(k - 1) : ~Fits(face, m)
    BY <2>3 DEF Doublings
  <2>. QED  BY <2>4
<1>2. n \in 0..Doublings
  <2>. HIDE DEF Least
  <2>. QED  BY <1>1
<1>3. Atlas(face) = [size |-> Size[n], cells |-> PaintAlphabet(face, Size[n]).cells]
  BY DEF Atlas
<1>. HIDE DEF n
<1>4. Size[n] \in Nat
  BY <1>2, SizeType
<1>5. PICK f : PaintSteps(f, face, Size[n])
  BY <1>4, Painted
<1>. QED  BY <1>3, <1>5 DEF PaintSteps

-----------------------------------------------------------------------------
(* Types.                                                                      *)

Textures   == Fonts \union {NoTexture}
Commands   == [texture : Textures, indices : Nat]
Geometries == {g \in [vertices : Seq(Nat \X Nat), indices : Seq(0..IndexLimit),
                      cmds : Seq(Commands), textures : Seq(Textures)] :
                  g.cmds # <<>> /\ g.textures # <<>>}
Corners    == [texture : Textures, vertex : Nat \X Nat]

Buffers(Data) == [size : Nat, mapped : BOOLEAN, data : Seq(Data)]

Places == {"setup", "fonts", "crashed", "idle", "record", "recreate", "vertex buffer",
           "index buffer", "map vertices", "map indices", "upload", "constants", "draw"}

LEMMA NewGeometryType == NewGeometry \in Geometries
BY IndexLimitAssumption DEF NewGeometry, DrawCmd, Geometries, Commands, Textures

LEMMA GeometryFields ==
    ASSUME NEW g \in Geometries
    PROVE  /\ g.vertices \in Seq(Nat \X Nat) /\ g.indices \in Seq(0..IndexLimit)
           /\ g.cmds \in Seq(Commands) /\ g.cmds # <<>>
           /\ g.textures \in Seq(Textures) /\ g.textures # <<>>
           /\ g = [vertices |-> g.vertices, indices |-> g.indices, cmds |-> g.cmds,
                   textures |-> g.textures]
BY DEF Geometries

LEMMA SequenceOf ==
    ASSUME NEW S, NEW n \in Nat, NEW f \in [1..n -> S]
    PROVE  f \in Seq(S) /\ Len(f) = n
OBVIOUS

LEMMA PushDrawCmdType ==
    ASSUME NEW g \in Geometries
    PROVE  PushDrawCmd(g) \in Geometries /\ PushDrawCmd(g).textures = g.textures
<1>. DEFINE c  == DrawCmd(Last(g.textures))
            cs == Append(g.cmds, c)
<1>1. c \in Commands
  BY GeometryFields DEF Last, DrawCmd, Commands
<1>2. PushDrawCmd(g) = [g EXCEPT !.cmds = cs]
  BY DEF PushDrawCmd
<1>. HIDE DEF c
<1>3. cs \in Seq(Commands) /\ cs # <<>>
  BY <1>1, GeometryFields
<1>. HIDE DEF cs
<1>. QED  BY <1>2, <1>3, GeometryFields DEF Geometries

LEMMA PushTextureType ==
    ASSUME NEW g \in Geometries, NEW t \in Textures
    PROVE  /\ PushTexture(g, t) \in Geometries
           /\ PushTexture(g, t).textures = Append(g.textures, t)
<1>. DEFINE ts == Append(g.textures, t)
<1>1. PushTexture(g, t) = [g EXCEPT !.textures = ts]
  BY DEF PushTexture
<1>2. ts \in Seq(Textures) /\ ts # <<>>
  <2>1. g.textures \in Seq(Textures)
    BY GeometryFields
  <2>. QED  BY <2>1
<1>. HIDE DEF ts
<1>3. PushTexture(g, t) \in Geometries /\ PushTexture(g, t).textures = ts
  BY <1>1, <1>2, GeometryFields DEF Geometries
<1>. QED  BY <1>3 DEF ts

LEMMA PopTextureType ==
    ASSUME NEW g \in Geometries, Len(g.textures) > 1
    PROVE  PopTexture(g) \in Geometries
<1>1. g.textures \in Seq(Textures)
  BY DEF Geometries
<1>2. Front(g.textures) \in Seq(Textures) /\ Len(Front(g.textures)) = Len(g.textures) - 1
  BY <1>1 DEF Front
<1>3. Front(g.textures) # <<>>
  BY <1>1, <1>2
<1>. QED  BY <1>2, <1>3 DEF PopTexture, Geometries

LEMMA PutType ==
    ASSUME NEW g \in Geometries, NEW s \in Shapes, NEW id \in Nat
    PROVE  Put(g, s, id) \in Geometries /\ Put(g, s, id).textures = g.textures
<1>. DEFINE base == Len(g.vertices)
            Index(j) == IF j <= Len(s.written)
                        THEN (base + s.written[j]) % IndexLimit ELSE Unwritten
            vs == [j \in 1..s.vertices |-> <<id, j - 1>>]
            is == [j \in 1..s.reserved |-> Index(j)]
            r  == Reserve(g, s.reserved)
<1>1. /\ g.vertices \in Seq(Nat \X Nat) /\ g.indices \in Seq(0..IndexLimit)
      /\ g.cmds \in Seq(Commands) /\ g.cmds # <<>>
      /\ g = [vertices |-> g.vertices, indices |-> g.indices, cmds |-> g.cmds,
              textures |-> g.textures]
  BY GeometryFields
<1>2. s.vertices \in Nat /\ s.reserved \in Nat /\ s.written \in Seq(Nat)
  BY DEF Shapes
<1>3. vs \in Seq(Nat \X Nat)
  <2>1. vs \in [1..s.vertices -> Nat \X Nat]
    BY <1>2
  <2>. HIDE DEF vs
  <2>. QED  BY <1>2, <2>1, SequenceOf
<1>4. is \in Seq(0..IndexLimit)
  <2>1. ASSUME NEW j \in 1..s.reserved  PROVE Index(j) \in 0..IndexLimit
    <3>1. CASE j <= Len(s.written)
      <4>1. base + s.written[j] \in Nat
        BY <1>1, <1>2, <3>1
      <4>. HIDE DEF base
      <4>. QED  BY <3>1, <4>1, IndexLimitAssumption
    <3>2. CASE ~(j <= Len(s.written))
      BY <3>2, IndexLimitAssumption DEF Unwritten
    <3>. QED  BY <3>1, <3>2
  <2>. HIDE DEF Index
  <2>2. is \in [1..s.reserved -> 0..IndexLimit]
    BY <2>1
  <2>. HIDE DEF is
  <2>. QED  BY <1>2, <2>2, SequenceOf
<1>. DEFINE n   == Len(g.cmds)
            old == g.cmds[n]
            new == [texture |-> old.texture, indices |-> old.indices + s.reserved]
            cs  == [g.cmds EXCEPT ![n] = new]
<1>5. old \in Commands /\ n \in DOMAIN g.cmds
  BY <1>1
<1>6. new \in Commands /\ new = [old EXCEPT !.indices = @ + s.reserved]
  <2>. HIDE DEF old
  <2>. QED  BY <1>2, <1>5 DEF Commands
<1>7. r = [g EXCEPT !.cmds = cs]
  BY <1>1, <1>5, <1>6 DEF Reserve
<1>. HIDE DEF new
<1>8. cs \in Seq(Commands) /\ cs # <<>>
  BY <1>1, <1>5, <1>6
<1>. HIDE DEF cs, vs, is, r
<1>11. r = [vertices |-> g.vertices, indices |-> g.indices, cmds |-> cs, textures |-> g.textures]
  BY <1>1, <1>7
<1>9. Put(g, s, id) = [r EXCEPT !.vertices = @ \o vs, !.indices = @ \o is]
  BY DEF Put, vs, is, r
<1>10. Put(g, s, id) = [vertices |-> g.vertices \o vs, indices |-> g.indices \o is,
                        cmds |-> cs, textures |-> g.textures]
  BY <1>9, <1>11
<1>. QED  BY <1>3, <1>4, <1>8, <1>10, GeometryFields DEF Geometries

LEMMA PutUnderType ==
    ASSUME NEW g \in Geometries, NEW t \in Textures, NEW s \in Shapes, NEW id \in Nat
    PROVE  PutUnder(g, t, s, id) \in Geometries
<1>. DEFINE g1 == PushTexture(g, t)
            g2 == PushDrawCmd(g1)
            g3 == Put(g2, s, id)
            g4 == PopTexture(g3)
<1>1. g1 \in Geometries /\ g1.textures = Append(g.textures, t)
  BY PushTextureType
<1>. HIDE DEF g1
<1>2. g2 \in Geometries /\ g2.textures = g1.textures
  BY <1>1, PushDrawCmdType
<1>. HIDE DEF g2
<1>3. g3 \in Geometries /\ g3.textures = g2.textures
  BY <1>2, PutType
<1>. HIDE DEF g3
<1>4. Len(g3.textures) > 1
  <2>1. g.textures \in Seq(Textures) /\ Len(g.textures) > 0
    BY DEF Geometries
  <2>. QED  BY <1>1, <1>2, <1>3, <2>1
<1>5. g4 \in Geometries
  BY <1>3, <1>4, PopTextureType
<1>. HIDE DEF g4
<1>. QED  BY <1>5, PushDrawCmdType DEF PutUnder, g1, g2, g3, g4

(* Sequences of sequences of S, flattened, are sequences of S. *)
LEMMA FlattenType ==
    ASSUME NEW S, NEW ss \in Seq(Seq(S))
    PROVE  FlattenSeq(ss) \in Seq(S)
<1>1. CASE Len(ss) = 0
  BY <1>1 DEF FlattenSeq
<1>2. CASE Len(ss) # 0
  <2>. DEFINE n == Len(ss)
              flatten[i \in 1..Len(ss)] == IF i = 1 THEN ss[i] ELSE flatten[i - 1] \o ss[i]
              F == [k \in Nat |-> [x \in Seq(S) |-> IF k \in 1..(n - 1) THEN x \o ss[k + 1]
                                                    ELSE x]]
  <2>0. n \in Nat /\ n > 0 /\ \A i \in 1..n : ss[i] \in Seq(S)
    BY <1>2
  <2>1. FlattenSeq(ss) = flatten[n]
    BY <1>2 DEF FlattenSeq
  <2>. HIDE DEF n
  <2>2. F \in [Nat -> [Seq(S) -> Seq(S)]]
    <3>1. ASSUME NEW k \in 1..(n - 1), NEW x \in Seq(S)  PROVE x \o ss[k + 1] \in Seq(S)
      BY <2>0
    <3>. QED  BY <3>1
  <2>3. PICK f : Iterates(Seq(S), F, ss[1], n - 1, f)
    <3>1. ss[1] \in Seq(S) /\ n - 1 \in Nat
      BY <2>0
    <3>. HIDE DEF F
    <3>. QED  BY Iteration, <2>2, <3>1, Zenon
  <2>. DEFINE h == [i \in 1..n |-> f[i - 1]]
  <2>4. h = [i \in 1..n |-> IF i = 1 THEN ss[i] ELSE h[i - 1] \o ss[i]]
    <3>1. ASSUME NEW i \in 1..n, i # 1  PROVE f[i - 1] = f[i - 2] \o ss[i]
      <4>1. i - 1 \in 1..(n - 1) /\ i - 1 \in Nat
        BY <2>0, <3>1
      <4>2. f[i - 1] = F[i - 1][f[(i - 1) - 1]] /\ f[(i - 1) - 1] \in Seq(S)
        <5>. HIDE DEF F
        <5>. QED  BY <2>0, <2>3, <4>1 DEF Iterates
      <4>3. F[i - 1] = [x \in Seq(S) |-> x \o ss[(i - 1) + 1]]
        BY <4>1
      <4>4. (i - 1) + 1 = i /\ (i - 1) - 1 = i - 2
        OBVIOUS
      <4>. HIDE DEF F
      <4>. QED  BY <4>2, <4>3, <4>4
    <3>2. f[0] = ss[1]
      BY <2>3 DEF Iterates
    <3>3. ASSUME NEW i \in 1..n
          PROVE  h[i] = IF i = 1 THEN ss[i] ELSE h[i - 1] \o ss[i]
      <4>1. CASE i = 1
        BY <3>2, <4>1, <2>0
      <4>2. CASE i # 1
        <5>1. i - 1 \in 1..n /\ (i - 1) - 1 = i - 2
          BY <4>2, <2>0
        <5>. QED  BY <3>1, <4>2, <5>1
      <4>. QED  BY <4>1, <4>2
    <3>. QED  BY <3>3, Zenon
  <2>5. flatten = [i \in 1..n |-> IF i = 1 THEN ss[i] ELSE flatten[i - 1] \o ss[i]]
    <3>. DEFINE P(g) == g = [i \in 1..Len(ss) |-> IF i = 1 THEN ss[i] ELSE g[i - 1] \o ss[i]]
    <3>1. \E g : P(g)
      BY <2>4 DEF n
    <3>2. P(CHOOSE g : P(g))
      BY <3>1, Zenon
    <3>. QED  BY <3>2, Zenon DEF n
  <2>. HIDE DEF flatten, F, h
  <2>6. flatten[1] = ss[1] /\ \A i \in 2..n : flatten[i] = flatten[i - 1] \o ss[i]
    <3>1. ASSUME NEW i \in 1..n
          PROVE  flatten[i] = IF i = 1 THEN ss[i] ELSE flatten[i - 1] \o ss[i]
      BY <2>5, Zenon
    <3>2. 1 \in 1..n /\ \A i \in 2..n : i \in 1..n /\ i # 1
      BY <2>0
    <3>. QED  BY <3>1, <3>2, Zenon
  <2>7. ASSUME NEW k \in Nat, k + 1 <= n => flatten[k + 1] \in Seq(S)
        PROVE  (k + 1) + 1 <= n => flatten[(k + 1) + 1] \in Seq(S)
    <3>1. SUFFICES ASSUME k + 2 <= n  PROVE flatten[k + 2] \in Seq(S)
      BY <2>0
    <3>2. k + 2 \in 2..n /\ (k + 2) - 1 = k + 1 /\ k + 1 <= n
      BY <2>0, <3>1
    <3>3. flatten[k + 2] = flatten[k + 1] \o ss[k + 2]
      BY <2>6, <3>2
    <3>4. ss[k + 2] \in Seq(S) /\ flatten[k + 1] \in Seq(S)
      BY <2>0, <2>7, <3>2
    <3>. QED  BY <3>3, <3>4
  <2>. DEFINE T == {k \in Nat : k + 1 <= n => flatten[k + 1] \in Seq(S)}
  <2>8. \A k \in Nat : k \in T
    <3>1. 0 \in T
      BY <2>0, <2>6
    <3>2. \A k \in Nat : k \in T => k + 1 \in T
      BY <2>7
    <3>. HIDE DEF T
    <3>. QED  BY <3>1, <3>2, SetInduction, Zenon
  <2>9. n - 1 \in T /\ (n - 1) + 1 = n
    <3>. HIDE DEF T
    <3>. QED  BY <2>0, <2>8
  <2>. QED  BY <2>1, <2>9, <2>0
<1>. QED  BY <1>1, <1>2

-----------------------------------------------------------------------------
(* The state.                                                                  *)

TypeOK ==
    /\ pc \in Places
    /\ held \subseteq Made
    /\ tex_ \in [Fonts -> Textures]
    /\ frame \in Geometries /\ shapes \in 0..MaxShapes
    /\ g_geometry \in Seq(Geometries)
    /\ g_vb \in Buffers(Nat \X Nat) /\ g_ib \in Buffers(0..IndexLimit)
    /\ g_vb_size \in Nat /\ g_ib_size \in Nat
    /\ failures \in 0..MaxFailures /\ lost \in 0..MaxLost
    /\ asked \in Seq(Corners)

(* From the test of a buffer's size on, the buffer has the size noted for it   *)
(* and holds what is recorded.  (Before, a buffer may be missing and its noted *)
(* size be one that was never made.)                                           *)
AfterVertexBuffer == {"index buffer", "map vertices", "map indices", "upload", "constants", "draw"}
AfterIndexBuffer  == AfterVertexBuffer \ {"index buffer"}

Sized ==
    /\ (g_vb # NoBuffer \/ pc \in AfterVertexBuffer) => g_vb.size = g_vb_size
    /\ (g_ib # NoBuffer \/ pc \in AfterIndexBuffer)  => g_ib.size = g_ib_size

Room ==
    /\ pc \in AfterVertexBuffer => TotalVertices <= g_vb.size
    /\ pc \in AfterIndexBuffer  => TotalIndices <= g_ib.size

IInv == TypeOK /\ Sized /\ Room

LEMMA ConstantTypes ==
    /\ MaxShapes \in Nat /\ VertexSlack \in Nat /\ IndexSlack \in Nat
    /\ MaxFailures \in Nat /\ MaxLost \in Nat
    /\ Title \in Shapes /\ Texts \subseteq Shapes /\ Paths \subseteq Shapes
    /\ Faces \subseteq Measured
BY OverlayAssumption

LEMMA TotalsType ==
    ASSUME g_geometry \in Seq(Geometries)
    PROVE  TotalVertices \in Nat /\ TotalIndices \in Nat
<1>. DEFINE V(k) == Len(g_geometry[k].vertices)
            I(k) == Len(g_geometry[k].indices)
            vs == [k \in DOMAIN g_geometry |-> V(k)]
            is == [k \in DOMAIN g_geometry |-> I(k)]
<1>1. ASSUME NEW k \in DOMAIN g_geometry  PROVE V(k) \in Nat /\ I(k) \in Nat
  <2>1. g_geometry[k] \in Geometries
    OBVIOUS
  <2>. QED  BY <2>1, GeometryFields
<1>2. DOMAIN g_geometry = 1..Len(g_geometry) /\ Len(g_geometry) \in Nat
  OBVIOUS
<1>. HIDE DEF V, I
<1>3. vs \in [1..Len(g_geometry) -> Nat] /\ is \in [1..Len(g_geometry) -> Nat]
  BY <1>1, <1>2
<1>. HIDE DEF vs, is
<1>4. vs \in Seq(Nat) /\ is \in Seq(Nat)
  BY <1>2, <1>3, SequenceOf
<1>. QED  BY <1>4, TotalType DEF TotalVertices, TotalIndices, vs, is, V, I

LEMMA TotalsSame ==
    ASSUME UNCHANGED g_geometry
    PROVE  TotalVertices' = TotalVertices /\ TotalIndices' = TotalIndices
BY DEF TotalVertices, TotalIndices

LEMMA MadeFinite ==
    ASSUME NEW F \in SUBSET Made
    PROVE  Cardinality(F) \in Nat
<1>1. Len(Steps) \in Nat /\ DOMAIN Steps = 1..Len(Steps)
  BY DEF Steps
<1>2. Steps \in Surjection(1..Len(Steps), Made)
  <2>1. \A i \in 1..Len(Steps) : Steps[i] \in Made
    BY <1>1 DEF Made
  <2>2. Steps = [i \in 1..Len(Steps) |-> Steps[i]]
    BY DEF Steps
  <2>3. Steps \in [1..Len(Steps) -> Made]
    BY <2>1, <2>2
  <2>4. \A t \in Made : \E i \in 1..Len(Steps) : Steps[i] = t
    BY <1>1 DEF Made
  <2>. QED  BY <2>3, <2>4 DEF Surjection
<1>3. IsFiniteSet(1..Len(Steps))
  BY <1>1, FS_Interval
<1>4. IsFiniteSet(Made)
  BY <1>2, <1>3, FS_Surjection, Zenon
<1>5. IsFiniteSet(F)
  BY <1>4, FS_Subset, Zenon
<1>. QED  BY <1>5, FS_CardinalityType, Zenon

LEMMA AttemptedMade == \A F : Attempted(F) \subseteq Made
BY DEF Attempted, Made

(* What is recorded of a shape is a sequence of corners. *)
LEMMA AskedType ==
    ASSUME asked \in Seq(Corners), NEW t \in Textures, NEW s \in Shapes
    PROVE  Len(asked) \in Nat /\ Asked(t, s) \in Seq(Corners)
<1>. DEFINE C(j) == [texture |-> t, vertex |-> <<Len(asked), s.written[j]>>]
            cs == [j \in 1..Len(s.written) |-> C(j)]
<1>1. Len(asked) \in Nat /\ s.written \in Seq(Nat)
  BY DEF Shapes
<1>2. ASSUME NEW j \in 1..Len(s.written)  PROVE C(j) \in Corners
  <2>1. s.written[j] \in Nat
    BY <1>1
  <2>. QED  BY <1>1, <2>1 DEF Corners
<1>. HIDE DEF C
<1>3. cs \in [1..Len(s.written) -> Corners] /\ Len(s.written) \in Nat
  BY <1>1, <1>2
<1>. HIDE DEF cs
<1>4. cs \in Seq(Corners)
  BY <1>3, SequenceOf
<1>5. Asked(t, s) = asked \o cs
  BY DEF Asked, cs, C
<1>. QED  BY <1>1, <1>4, <1>5

LEMMA UploadType ==
    ASSUME g_geometry \in Seq(Geometries)
    PROVE  AllVertices \in Seq(Nat \X Nat) /\ AllIndices \in Seq(0..IndexLimit)
<1>. DEFINE V(k) == g_geometry[k].vertices
            I(k) == g_geometry[k].indices
            vs == [k \in DOMAIN g_geometry |-> V(k)]
            is == [k \in DOMAIN g_geometry |-> I(k)]
            SV == Seq(Nat \X Nat)
            SI == Seq(0..IndexLimit)
<1>1. ASSUME NEW k \in DOMAIN g_geometry  PROVE V(k) \in SV /\ I(k) \in SI
  <2>1. g_geometry[k] \in Geometries
    OBVIOUS
  <2>. QED  BY <2>1, GeometryFields
<1>2. DOMAIN g_geometry = 1..Len(g_geometry) /\ Len(g_geometry) \in Nat
  OBVIOUS
<1>. HIDE DEF V, I, SV, SI
<1>3. vs \in [1..Len(g_geometry) -> SV] /\ is \in [1..Len(g_geometry) -> SI]
  BY <1>1, <1>2
<1>. HIDE DEF vs, is
<1>4. vs \in Seq(SV) /\ is \in Seq(SI)
  BY <1>2, <1>3, SequenceOf
<1>5. FlattenSeq(vs) \in SV /\ FlattenSeq(is) \in SI
  BY <1>4, FlattenType DEF SV, SI
<1>. QED  BY <1>5 DEF AllVertices, AllIndices, vs, is, V, I, SV, SI

LEMMA BufferType ==
    ASSUME NEW Data
    PROVE  /\ NoBuffer \in Buffers(Data)
           /\ \A n \in Nat : Buffer(n) \in Buffers(Data) /\ Buffer(n).size = n
           /\ \A b \in Buffers(Data) :
                 /\ b.size \in Nat
                 /\ Mapped(b) \in Buffers(Data) /\ Mapped(b).size = b.size
                 /\ \A d \in Seq(Data) : /\ Unmapped(b, d) \in Buffers(Data)
                                         /\ Unmapped(b, d).size = b.size
<1>. DEFINE SD == Seq(Data)
<1>1. <<>> \in SD
  OBVIOUS
<1>. HIDE DEF SD
<1>2. Buffers(Data) = [size : Nat, mapped : BOOLEAN, data : SD]
  BY DEF Buffers, SD
<1>. DEFINE With(b, m, d) == [b EXCEPT !.mapped = m, !.data = d]
<1>3. ASSUME NEW b \in [size : Nat, mapped : BOOLEAN, data : SD],
             NEW m \in BOOLEAN, NEW d \in SD
      PROVE  /\ b.size \in Nat
             /\ With(b, m, d) \in [size : Nat, mapped : BOOLEAN, data : SD]
             /\ With(b, m, d).size = b.size
  OBVIOUS
<1>4. ASSUME NEW b \in Buffers(Data), NEW d \in SD
      PROVE  /\ b.size \in Nat
             /\ Unmapped(b, d) \in Buffers(Data) /\ Unmapped(b, d).size = b.size
             /\ Mapped(b) \in Buffers(Data) /\ Mapped(b).size = b.size
  <2>1. Unmapped(b, d) = With(b, FALSE, d) /\ Mapped(b) = With(b, TRUE, <<>>)
    BY DEF Unmapped, Mapped
  <2>2. b \in [size : Nat, mapped : BOOLEAN, data : SD]
    BY <1>2
  <2>3. TRUE \in BOOLEAN /\ FALSE \in BOOLEAN
    OBVIOUS
  <2>. HIDE DEF With
  <2>4. b.size \in Nat /\ With(b, FALSE, d) \in Buffers(Data) /\ With(b, FALSE, d).size = b.size
    BY <1>2, <1>3, <2>2, <2>3
  <2>5. With(b, TRUE, <<>>) \in Buffers(Data) /\ With(b, TRUE, <<>>).size = b.size
    BY <1>1, <1>2, <1>3, <2>2, <2>3
  <2>. QED  BY <2>1, <2>4, <2>5
<1>5. NoBuffer \in Buffers(Data)
  BY <1>1, <1>2 DEF NoBuffer
<1>6. \A n \in Nat : Buffer(n) \in Buffers(Data) /\ Buffer(n).size = n
  BY <1>1, <1>2 DEF Buffer
<1>. QED  BY <1>1, <1>4, <1>5, <1>6 DEF SD

(* What the two buffers' growing comes to. *)
LEMMA GrowVertexCases ==
    ASSUME GrowVertexBuffer
    PROVE  \/ /\ TooSmall(g_vb, g_vb_size, TotalVertices)
              /\ g_vb_size' = TotalVertices + VertexSlack
              /\ \/ g_vb' = Buffer(g_vb_size') /\ pc' = "index buffer" /\ UNCHANGED failVars
                 \/ g_vb' = NoBuffer /\ Fail
           \/ /\ ~TooSmall(g_vb, g_vb_size, TotalVertices)
              /\ pc' = "index buffer" /\ UNCHANGED <<g_vb, g_vb_size, failVars>>
BY Zenon DEF GrowVertexBuffer

LEMMA GrowIndexCases ==
    ASSUME GrowIndexBuffer
    PROVE  \/ /\ TooSmall(g_ib, g_ib_size, TotalIndices)
              /\ g_ib_size' = TotalIndices + IndexSlack
              /\ \/ g_ib' = Buffer(g_ib_size') /\ pc' = "map vertices" /\ UNCHANGED failVars
                 \/ g_ib' = NoBuffer /\ Fail
           \/ /\ ~TooSmall(g_ib, g_ib_size, TotalIndices)
              /\ pc' = "map vertices" /\ UNCHANGED <<g_ib, g_ib_size, failVars>>
BY Zenon DEF GrowIndexBuffer

(* The overlay begins with values of the right types. *)
LEMMA TypeInit == Init => TypeOK
<1>. SUFFICES ASSUME Init  PROVE TypeOK
  OBVIOUS
<1>1. /\ g_vb \in Buffers(Nat \X Nat) /\ g_ib \in Buffers(0..IndexLimit)
      /\ g_vb_size \in Nat /\ g_ib_size \in Nat
  BY ConstantTypes DEF Init, NoBuffer, Buffers
<1>. QED  BY <1>1, ConstantTypes, NewGeometryType
          DEF Init, TypeOK, Places, Textures

LEMMA RecreateType ==
    ASSUME TypeOK, NEW next \in Places, Recreate(next)
    PROVE  held' \subseteq Made /\ pc' \in Places /\ lost' \in 0..MaxLost
<1>1. PICK F \in SUBSET Made :
        /\ Lose(Cardinality(F))
        /\ held' = (held \ Attempted(F)) \union (Attempted(F) \ (F \union Compiled))
        /\ pc' = next \/ TextureMissing("default_texture" \in F)
  BY DEF Recreate
<1>2. held' \subseteq Made
  BY <1>1, AttemptedMade DEF TypeOK
<1>3. pc' \in Places
  BY <1>1 DEF TextureMissing, Places
<1>4. lost' \in 0..MaxLost
  <2>1. Cardinality(F) \in Nat
    BY MadeFinite
  <2>. QED  BY <1>1, <2>1, ConstantTypes DEF Lose, TypeOK
<1>. QED  BY <1>2, <1>3, <1>4

LEMMA FailType ==
    ASSUME TypeOK, Fail
    PROVE  pc' = "idle" /\ failures' \in 0..MaxFailures /\ lost' \in 0..MaxLost
BY ConstantTypes DEF Fail, Lose, TypeOK

(* Each step of the callback and of renderer_draw keeps the types. *)
LEMMA TypeNext == TypeOK /\ [Next]_vars => TypeOK'
<1>. SUFFICES ASSUME TypeOK, [Next]_vars  PROVE TypeOK'
  OBVIOUS
<1>1. CASE Setup
  <2>1. held' \subseteq Made /\ pc' \in Places /\ lost' \in 0..MaxLost
    <3>1. CASE Recreate("fonts")
      BY <3>1, RecreateType DEF Places
    <3>2. CASE Lose(1) /\ pc' = "crashed" /\ UNCHANGED held
      <4>1. lost' \in 0..MaxLost
        BY <3>2, ConstantTypes DEF Lose, TypeOK
      <4>. QED  BY <3>2, <4>1 DEF TypeOK, Places
    <3>. QED  BY <1>1, <3>1, <3>2 DEF Setup
  <2>. QED  BY <1>1, <2>1 DEF Setup, TypeOK, bufferVars
<1>2. CASE CreateFonts
  <2>1. PICK F \in SUBSET Fonts :
          /\ Lose(Cardinality(F))
          /\ tex_' = [f \in Fonts |-> IF f \in F THEN NoTexture ELSE f]
          /\ pc' = "idle" \/ TextureMissing(F # {})
    BY <1>2 DEF CreateFonts
  <2>2. tex_' \in [Fonts -> Textures]
    BY <2>1 DEF Textures
  <2>3. Cardinality(F) \in Nat
    <3>1. IsFiniteSet(Fonts)
      <4>1. IsFiniteSet({"text"})
        BY FS_Singleton
      <4>2. IsFiniteSet({"text"} \union {"world_text"})
        BY <4>1, FS_AddElement, Zenon
      <4>3. Fonts = {"text"} \union {"world_text"}
        BY DEF Fonts
      <4>. QED  BY <4>2, <4>3
    <3>2. IsFiniteSet(F)
      BY <3>1, FS_Subset, Zenon
    <3>. QED  BY <3>2, FS_CardinalityType, Zenon
  <2>4. lost' \in 0..MaxLost
    BY <2>1, <2>3, ConstantTypes DEF Lose, TypeOK
  <2>5. pc' \in Places
    BY <2>1 DEF TextureMissing, Places
  <2>. QED  BY <1>2, <2>2, <2>4, <2>5 DEF CreateFonts, TypeOK, bufferVars
<1>3. CASE BeginFrame
  <2>1. tex_["text"] \in Textures /\ Title \in Shapes /\ PushDrawCmd(NewGeometry) \in Geometries
    BY ConstantTypes, NewGeometryType, PushDrawCmdType DEF TypeOK, Fonts
  <2>2. Len(asked) \in Nat /\ asked' \in Seq(Corners)
    BY <1>3, <2>1, AskedType DEF BeginFrame, TypeOK
  <2>3. frame' \in Geometries
    BY <1>3, <2>1, <2>2, PutUnderType DEF BeginFrame
  <2>. QED  BY <1>3, <2>2, <2>3, ConstantTypes
            DEF BeginFrame, TypeOK, Places, deviceVars, bufferVars, failVars
<1>4. CASE DrawShape
  <2>1. frame' \in Geometries /\ asked' \in Seq(Corners)
    <3>1. ASSUME NEW s \in Texts, DrawText(s)  PROVE frame' \in Geometries /\ asked' \in Seq(Corners)
      <4>1. tex_["world_text"] \in Textures /\ s \in Shapes /\ frame \in Geometries
        BY ConstantTypes DEF TypeOK, Fonts
      <4>2. Len(asked) \in Nat /\ asked' \in Seq(Corners)
        BY <3>1, <4>1, AskedType DEF DrawText, TypeOK
      <4>. QED  BY <3>1, <4>1, <4>2, PutUnderType DEF DrawText
    <3>2. ASSUME NEW s \in Paths, DrawPath(s)  PROVE frame' \in Geometries /\ asked' \in Seq(Corners)
      <4>1. s \in Shapes /\ frame \in Geometries
        BY ConstantTypes DEF TypeOK
      <4>2. Last(frame.textures) \in Textures
        BY <4>1, GeometryFields DEF Last
      <4>3. Len(asked) \in Nat /\ asked' \in Seq(Corners)
        BY <3>2, <4>1, <4>2, AskedType DEF DrawPath, TypeOK
      <4>. QED  BY <3>2, <4>1, <4>3, PutType DEF DrawPath
    <3>. QED  BY <1>4, <3>1, <3>2 DEF DrawShape
  <2>2. shapes' \in 0..MaxShapes
    BY <1>4, ConstantTypes DEF DrawShape, TypeOK
  <2>. QED  BY <1>4, <2>1, <2>2 DEF DrawShape, TypeOK, deviceVars, bufferVars, failVars
<1>5. CASE Render
  <2>1. g_geometry' \in Seq(Geometries)
    BY <1>5 DEF Render, TypeOK
  <2>. QED  BY <1>5, <2>1, NewGeometryType, ConstantTypes
            DEF Render, TypeOK, Places, deviceVars, bufferVars, failVars
<1>6. CASE RecreateMissing
  <2>1. held' \subseteq Made /\ pc' \in Places /\ lost' \in 0..MaxLost
    <3>1. CASE Recreate("vertex buffer")
      BY <3>1, RecreateType DEF Places
    <3>2. CASE pc' = "vertex buffer" /\ UNCHANGED <<held, lost>>
      BY <3>2 DEF TypeOK, Places
    <3>. QED  BY <1>6, <3>1, <3>2 DEF RecreateMissing
  <2>. QED  BY <1>6, <2>1 DEF RecreateMissing, TypeOK, bufferVars
<1>7. CASE GrowVertexBuffer
  <2>1. /\ pc' \in Places /\ g_vb_size' \in Nat /\ g_vb' \in Buffers(Nat \X Nat)
        /\ failures' \in 0..MaxFailures /\ lost' \in 0..MaxLost
    <3>1. CASE /\ g_vb_size' = TotalVertices + VertexSlack
               /\ \/ g_vb' = Buffer(g_vb_size') /\ pc' = "index buffer" /\ UNCHANGED failVars
                  \/ g_vb' = NoBuffer /\ Fail
      <4>1. g_vb_size' \in Nat
        <5>1. TotalVertices \in Nat
          BY TotalsType DEF TypeOK
        <5>2. g_vb_size' = TotalVertices + VertexSlack
          BY <3>1, Zenon
        <5>. QED  BY <5>1, <5>2, ConstantTypes
      <4>2. CASE g_vb' = Buffer(g_vb_size') /\ pc' = "index buffer" /\ UNCHANGED failVars
        BY <4>1, <4>2, BufferType DEF TypeOK, Places, failVars
      <4>3. CASE g_vb' = NoBuffer /\ Fail
        BY <4>1, <4>3, FailType, BufferType DEF Places
      <4>. QED  BY <3>1, <4>2, <4>3
    <3>2. CASE pc' = "index buffer" /\ UNCHANGED <<g_vb, g_vb_size, failVars>>
      BY <3>2 DEF TypeOK, Places, failVars
    <3>. QED  BY <1>7, <3>1, <3>2, GrowVertexCases, Zenon
  <2>. QED  BY <1>7, <2>1 DEF GrowVertexBuffer, TypeOK, deviceVars
<1>8. CASE GrowIndexBuffer
  <2>1. /\ pc' \in Places /\ g_ib_size' \in Nat /\ g_ib' \in Buffers(0..IndexLimit)
        /\ failures' \in 0..MaxFailures /\ lost' \in 0..MaxLost
    <3>1. CASE /\ g_ib_size' = TotalIndices + IndexSlack
               /\ \/ g_ib' = Buffer(g_ib_size') /\ pc' = "map vertices" /\ UNCHANGED failVars
                  \/ g_ib' = NoBuffer /\ Fail
      <4>1. g_ib_size' \in Nat
        <5>1. TotalIndices \in Nat
          BY TotalsType DEF TypeOK
        <5>2. g_ib_size' = TotalIndices + IndexSlack
          BY <3>1, Zenon
        <5>. QED  BY <5>1, <5>2, ConstantTypes
      <4>2. CASE g_ib' = Buffer(g_ib_size') /\ pc' = "map vertices" /\ UNCHANGED failVars
        BY <4>1, <4>2, BufferType DEF TypeOK, Places, failVars
      <4>3. CASE g_ib' = NoBuffer /\ Fail
        BY <4>1, <4>3, FailType, BufferType DEF Places
      <4>. QED  BY <3>1, <4>2, <4>3
    <3>2. CASE pc' = "map vertices" /\ UNCHANGED <<g_ib, g_ib_size, failVars>>
      BY <3>2 DEF TypeOK, Places, failVars
    <3>. QED  BY <1>8, <3>1, <3>2, GrowIndexCases, Zenon
  <2>. QED  BY <1>8, <2>1 DEF GrowIndexBuffer, TypeOK, deviceVars
<1>9. CASE MapVertices
  <2>1. /\ pc' \in Places /\ g_vb' \in Buffers(Nat \X Nat)
        /\ failures' \in 0..MaxFailures /\ lost' \in 0..MaxLost
    <3>1. CASE g_vb' = Mapped(g_vb) /\ pc' = "map indices" /\ UNCHANGED failVars
      BY <3>1, BufferType DEF TypeOK, Places, failVars
    <3>2. CASE g_vb.mapped /\ pc' = "idle" /\ UNCHANGED <<g_vb, failVars>>
      BY <3>2 DEF TypeOK, Places, failVars
    <3>3. CASE Fail /\ UNCHANGED g_vb
      BY <3>3, FailType DEF TypeOK, Places
    <3>. QED  BY <1>9, <3>1, <3>2, <3>3 DEF MapVertices
  <2>. QED  BY <1>9, <2>1 DEF MapVertices, TypeOK, deviceVars
<1>10. CASE MapIndices
  <2>1. /\ pc' \in Places /\ g_ib' \in Buffers(0..IndexLimit)
        /\ failures' \in 0..MaxFailures /\ lost' \in 0..MaxLost
    <3>1. CASE g_ib' = Mapped(g_ib) /\ pc' = "upload" /\ UNCHANGED failVars
      BY <3>1, BufferType DEF TypeOK, Places, failVars
    <3>2. CASE Fail /\ UNCHANGED g_ib
      BY <3>2, FailType DEF TypeOK, Places
    <3>. QED  BY <1>10, <3>1, <3>2 DEF MapIndices
  <2>. QED  BY <1>10, <2>1 DEF MapIndices, TypeOK, deviceVars
<1>11. CASE Upload
  <2>1. AllVertices \in Seq(Nat \X Nat) /\ AllIndices \in Seq(0..IndexLimit)
    BY UploadType DEF TypeOK
  <2>2. g_vb' \in Buffers(Nat \X Nat) /\ g_ib' \in Buffers(0..IndexLimit)
    BY <1>11, <2>1, BufferType DEF Upload, TypeOK
  <2>. QED  BY <1>11, <2>2 DEF Upload, TypeOK, Places, deviceVars, failVars
<1>12. CASE MapConstants
  <2>1. pc' \in Places /\ failures' \in 0..MaxFailures /\ lost' \in 0..MaxLost
    <3>1. CASE Fail
      BY <3>1, FailType DEF Places
    <3>2. CASE pc' \in {"draw", "crashed"} /\ UNCHANGED failVars
      BY <3>2 DEF TypeOK, Places, failVars
    <3>. QED  BY <1>12, <3>1, <3>2 DEF MapConstants
  <2>. QED  BY <1>12, <2>1 DEF MapConstants, TypeOK, deviceVars, bufferVars
<1>13. CASE Draw
  <2>1. g_vb' \in Buffers(Nat \X Nat) /\ g_ib' \in Buffers(0..IndexLimit)
    <3>1. <<>> \in Seq(Nat \X Nat) /\ <<>> \in Seq(0..IndexLimit)
      OBVIOUS
    <3>. QED  BY <1>13, <3>1, BufferType DEF Draw, TypeOK
  <2>2. g_geometry' \in Seq(Geometries) /\ asked' \in Seq(Corners) /\ pc' \in Places
    BY <1>13 DEF Draw, Places
  <2>. QED  BY <1>13, <2>1, <2>2 DEF Draw, TypeOK, failVars
<1>14. CASE Crashed \/ UNCHANGED vars
  BY <1>14 DEF Crashed, TypeOK, vars, deviceVars, bufferVars, failVars
<1>. QED  BY <1>1, <1>2, <1>3, <1>4, <1>5, <1>6, <1>7, <1>8, <1>9, <1>10, <1>11, <1>12,
             <1>13, <1>14 DEF Next

(* At the start there is neither a buffer nor anything to be copied. *)
LEMMA RoomInit == Init => Sized /\ Room
BY DEF Init, Sized, Room, AfterVertexBuffer, AfterIndexBuffer, NoBuffer

(* A step that leaves the buffers and the geometries alone keeps their sizes,  *)
(* if it goes no further in renderer_draw.                                     *)
LEMMA SizesKept ==
    ASSUME Sized, Room, UNCHANGED <<g_geometry, bufferVars>>,
           pc' \in AfterVertexBuffer => pc \in AfterVertexBuffer,
           pc' \in AfterIndexBuffer => pc \in AfterIndexBuffer
    PROVE  Sized' /\ Room'
BY TotalsSame DEF Sized, Room, bufferVars

(* A copy comes after the tests of the buffers, and nothing is recorded between. *)
LEMMA RoomNext == IInv /\ [Next]_vars => Sized' /\ Room'
<1>. SUFFICES ASSUME IInv, [Next]_vars  PROVE Sized' /\ Room'
  OBVIOUS
<1>. USE DEF AfterVertexBuffer, AfterIndexBuffer
<1>1. CASE \/ Setup \/ CreateFonts \/ BeginFrame \/ DrawShape
           \/ RecreateMissing \/ MapConstants \/ Crashed \/ UNCHANGED vars
  <2>1. UNCHANGED <<g_geometry, bufferVars>>
    BY <1>1 DEF Setup, CreateFonts, BeginFrame, DrawShape, RecreateMissing, MapConstants,
                Crashed, vars
  <2>2. /\ pc' \in AfterVertexBuffer => pc \in AfterVertexBuffer
        /\ pc' \in AfterIndexBuffer => pc \in AfterIndexBuffer
    BY <1>1 DEF Setup, CreateFonts, BeginFrame, DrawShape, RecreateMissing, MapConstants,
                Crashed, vars, Recreate, TextureMissing, Fail
  <2>. QED  BY <2>1, <2>2, SizesKept DEF IInv
<1>2. CASE Render
  BY <1>2 DEF Render, IInv, Sized, Room, bufferVars
<1>3. CASE GrowVertexBuffer
  <2>1. TotalVertices' = TotalVertices /\ TotalIndices' = TotalIndices /\ g_ib' = g_ib
        /\ g_ib_size' = g_ib_size /\ pc = "vertex buffer"
    BY <1>3, TotalsSame DEF GrowVertexBuffer
  <2>2. TotalVertices \in Nat /\ g_vb_size \in Nat
    BY TotalsType DEF IInv, TypeOK
  <2>3. CASE /\ g_vb_size' = TotalVertices + VertexSlack
             /\ g_vb' = Buffer(g_vb_size') /\ pc' = "index buffer"
    <3>1. g_vb'.size = g_vb_size' /\ TotalVertices <= g_vb'.size
      <4>1. g_vb_size' \in Nat /\ TotalVertices <= g_vb_size'
        <5>1. g_vb_size' = TotalVertices + VertexSlack
          BY <2>3, Zenon
        <5>. QED  BY <2>2, <5>1, ConstantTypes
      <4>. QED  BY <2>3, <4>1, BufferType
    <3>. QED  BY <2>1, <2>3, <3>1 DEF IInv, Sized, Room
  <2>4. CASE g_vb' = NoBuffer /\ Fail
    BY <2>1, <2>4 DEF IInv, Sized, Room, Fail
  <2>5. CASE /\ ~TooSmall(g_vb, g_vb_size, TotalVertices)
             /\ pc' = "index buffer" /\ UNCHANGED <<g_vb, g_vb_size, failVars>>
    <3>1. g_vb.size = g_vb_size /\ TotalVertices <= g_vb.size
      <4>1. g_vb # NoBuffer /\ ~(g_vb_size < TotalVertices)
        BY <2>5, Zenon DEF TooSmall
      <4>2. g_vb.size = g_vb_size
        BY <4>1 DEF IInv, Sized
      <4>. QED  BY <2>2, <4>1, <4>2
    <3>. QED  BY <2>1, <2>5, <3>1 DEF IInv, Sized, Room
  <2>. QED  BY <1>3, <2>3, <2>4, <2>5, GrowVertexCases
<1>4. CASE GrowIndexBuffer
  <2>1. TotalVertices' = TotalVertices /\ TotalIndices' = TotalIndices /\ g_vb' = g_vb
        /\ g_vb_size' = g_vb_size /\ pc = "index buffer"
    BY <1>4, TotalsSame DEF GrowIndexBuffer
  <2>2. TotalIndices \in Nat /\ g_ib_size \in Nat
    BY TotalsType DEF IInv, TypeOK
  <2>3. CASE /\ g_ib_size' = TotalIndices + IndexSlack
             /\ g_ib' = Buffer(g_ib_size') /\ pc' = "map vertices"
    <3>1. g_ib'.size = g_ib_size' /\ TotalIndices <= g_ib'.size
      <4>1. g_ib_size' \in Nat /\ TotalIndices <= g_ib_size'
        <5>1. g_ib_size' = TotalIndices + IndexSlack
          BY <2>3, Zenon
        <5>. QED  BY <2>2, <5>1, ConstantTypes
      <4>. QED  BY <2>3, <4>1, BufferType
    <3>. QED  BY <2>1, <2>3, <3>1 DEF IInv, Sized, Room
  <2>4. CASE g_ib' = NoBuffer /\ Fail
    BY <2>1, <2>4 DEF IInv, Sized, Room, Fail
  <2>5. CASE /\ ~TooSmall(g_ib, g_ib_size, TotalIndices)
             /\ pc' = "map vertices" /\ UNCHANGED <<g_ib, g_ib_size, failVars>>
    <3>1. g_ib.size = g_ib_size /\ TotalIndices <= g_ib.size
      <4>1. g_ib # NoBuffer /\ ~(g_ib_size < TotalIndices)
        BY <2>5, Zenon DEF TooSmall
      <4>2. g_ib.size = g_ib_size
        BY <4>1 DEF IInv, Sized
      <4>. QED  BY <2>2, <4>1, <4>2
    <3>. QED  BY <2>1, <2>5, <3>1 DEF IInv, Sized, Room
  <2>. QED  BY <1>4, <2>3, <2>4, <2>5, GrowIndexCases
<1>5. CASE MapVertices
  <2>1. g_vb'.size = g_vb.size /\ pc' \in {"map indices", "idle"}
        /\ (pc' = "idle" => g_vb' = g_vb)
    BY <1>5, BufferType DEF MapVertices, Fail, IInv, TypeOK
  <2>2. TotalVertices' = TotalVertices /\ TotalIndices' = TotalIndices
    BY <1>5, TotalsSame DEF MapVertices
  <2>. QED  BY <1>5, <2>1, <2>2 DEF MapVertices, IInv, Sized, Room
<1>6. CASE MapIndices
  <2>1. g_ib'.size = g_ib.size /\ pc' \in {"upload", "idle"}
        /\ (pc' = "idle" => g_ib' = g_ib)
    BY <1>6, BufferType DEF MapIndices, Fail, IInv, TypeOK
  <2>2. TotalVertices' = TotalVertices /\ TotalIndices' = TotalIndices
    BY <1>6, TotalsSame DEF MapIndices
  <2>. QED  BY <1>6, <2>1, <2>2 DEF MapIndices, IInv, Sized, Room
<1>7. CASE Upload
  <2>1. g_vb'.size = g_vb.size /\ g_ib'.size = g_ib.size
    BY <1>7, BufferType, UploadType DEF Upload, IInv, TypeOK
  <2>2. TotalVertices' = TotalVertices /\ TotalIndices' = TotalIndices
    BY <1>7, TotalsSame DEF Upload
  <2>. QED  BY <1>7, <2>1, <2>2 DEF Upload, IInv, Sized, Room
<1>8. CASE Draw
  <2>1. g_vb'.size = g_vb.size /\ g_ib'.size = g_ib.size
    <3>1. <<>> \in Seq(Nat \X Nat) /\ <<>> \in Seq(0..IndexLimit)
      OBVIOUS
    <3>2. /\ g_vb' = Unmapped(g_vb, <<>>) /\ g_ib' = Unmapped(g_ib, <<>>)
          /\ g_vb \in Buffers(Nat \X Nat) /\ g_ib \in Buffers(0..IndexLimit)
      BY <1>8 DEF Draw, IInv, TypeOK
    <3>. QED  BY <3>1, <3>2, BufferType
  <2>. QED  BY <1>8, <2>1 DEF Draw, IInv, Sized, Room
<1>. QED  BY <1>1, <1>2, <1>3, <1>4, <1>5, <1>6, <1>7, <1>8 DEF Next

(* Every variable has its type, and what the buffers are said to hold they do. *)
THEOREM Invariant == Spec => []IInv
<1>1. Init => IInv
  BY TypeInit, RoomInit DEF IInv
<1>2. IInv /\ [Next]_vars => IInv'
  BY TypeNext, RoomNext DEF IInv
<1>. QED  BY <1>1, <1>2, PTL DEF Spec

(* The variables of the overlay keep their types. *)
THEOREM TypeCorrect == Spec => []TypeOK
<1>1. IInv => TypeOK
  BY DEF IInv
<1>. QED  BY <1>1, Invariant, PTL

(* renderer_draw copies into no buffer more than it holds, however many frames *)
(* have piled up and whichever creation failed before.                         *)
THEOREM CopiesStayInside == Spec => []BuffersLargeEnough
<1>1. IInv => BuffersLargeEnough
  BY DEF IInv, Room, BuffersLargeEnough, AfterVertexBuffer, AfterIndexBuffer
<1>. QED  BY <1>1, Invariant, PTL

(* Of any face of the fonts' sizes no two characters touch in the texture that *)
(* font::create settles on, and none reaches over its edge.                    *)
THEOREM CharactersLieApart == Spec => []CellsApart
<1>1. CellsApart
  <2>. SUFFICES ASSUME NEW face \in Faces
                PROVE  LET atlas == Atlas(face)
                       IN  /\ \A c \in DOMAIN atlas.cells :
                                 /\ atlas.cells[c].right <= atlas.size
                                 /\ atlas.cells[c].bottom <= atlas.size
                           /\ \A c \in DOMAIN atlas.cells : \A d \in 1..(c - 1) :
                                 \/ atlas.cells[d].right <= atlas.cells[c].left
                                 \/ atlas.cells[d].bottom <= atlas.cells[c].top
    BY DEF CellsApart
  <2>. DEFINE atlas == Atlas(face)
  <2>1. face \in Measured
    BY ConstantTypes
  <2>2. PICK f : PaintSteps(f, face, atlas.size) /\ atlas.cells = f[95].cells
    BY <2>1, AtlasLaid
  <2>. HIDE DEF atlas
  <2>3. f[95] \in Layout(face, atlas.size)
    BY <2>2 DEF PaintSteps
  <2>4. atlas.cells \in Seq(Cells)
        /\ \A c \in 1..Len(atlas.cells) :
              /\ Within(atlas.cells[c], atlas.size)
              /\ \A d \in 1..(c - 1) : Apart(atlas.cells[c], atlas.cells[d])
    BY <2>2, <2>3 DEF Layout, Positions
  <2>5. DOMAIN atlas.cells = 1..Len(atlas.cells)
    BY <2>4
  <2>. QED  BY <2>4, <2>5 DEF Within, Apart, atlas
<1>. QED  BY <1>1, PTL
=============================================================================
