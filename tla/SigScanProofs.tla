--------------------------- MODULE SigScanProofs ----------------------------
(* What is proved of SigScan, for images and patterns of every length.         *)
EXTENDS SigScan, TLAPS

(* A pattern SigScan can handle: it begins with a byte, and none of its bytes  *)
(* is 00 or 3F.                                                                *)
Plain(pt) == pt[1] # Wild /\ \A n \in 1..Len(pt) : pt[n] \notin {NUL, Question}

-----------------------------------------------------------------------------
(* The inductive invariant.                                                    *)

Positions == pc = "compare" => base < End

(* The first k - 1 bytes of the signature agree with the image at base.        *)
Agreed == pc \in {"compare", "found", "resolved"} =>
              \A n \in 1..(k - 1) : pattern[n] = Wild \/ image[base + n] = pattern[n]

Ended == /\ pc \in {"found", "resolved"} => k = Len(pattern) + 1
         /\ pc \in {"missing", "box", "crashed"} => base >= End

Searched == Plain(pattern) /\ Agreed /\ Ended /\ NothingBefore

-----------------------------------------------------------------------------
LEMMA InitTypeOK == Init => TypeOK /\ Positions
  BY ImagesAssumption, PatternsAssumption DEF Init, TypeOK, Positions

LEMMA LenTypes ==
  ASSUME TypeOK
  PROVE  /\ Len(image) \in Nat /\ Len(pattern) \in Nat /\ End \in Int
         /\ \A n \in 1..Len(pattern) : pattern[n] \in Byte \union {Wild}
         /\ \A n \in 1..Len(image) : image[n] \in Byte
  BY DEF TypeOK, End

LEMMA NextTypeOK ==
  ASSUME TypeOK, Positions, [Next]_vars
  PROVE  TypeOK' /\ Positions'
  <1> USE LenTypes DEF TypeOK, Positions
  <1>1. image' = image /\ pattern' = pattern /\ caller' = caller /\ End' = End
    BY DEF Next, Scan, Skip, Begin, Exhausted, Match, Mismatch, Found, Resolve, Retry,
           MessageBoxA, ReadNull, Done, vars, input, End
  <1>2. ASSUME Match PROVE k' \in 1..(Len(pattern) + 1)
    BY <1>2 DEF Match, HexToBytes
  <1>3. ASSUME Scan PROVE TypeOK' /\ Positions'
    BY <1>1, <1>2, <1>3 DEF Scan, Skip, Begin, Exhausted, Match, Mismatch, Found, input
  <1>4. ASSUME ~Scan PROVE TypeOK' /\ Positions'
    BY <1>1, <1>4 DEF Next, Resolve, Retry, MessageBoxA, ReadNull, Done, vars, input
  <1> QED  BY <1>3, <1>4

(* The state is of its type. *)
THEOREM TypeCorrect == Spec => []TypeOK
  BY InitTypeOK, NextTypeOK, PTL DEF Spec

(* SigScan never reads beyond the image, whatever the pattern. *)
THEOREM ReadsInsideImage == Spec => []InsideImage
  <1>1. TypeOK /\ Positions => InsideImage
    BY LenTypes DEF TypeOK, Positions, InsideImage, End
  <1> QED  BY <1>1, InitTypeOK, NextTypeOK, PTL DEF Spec

-----------------------------------------------------------------------------
(* Plain patterns.                                                             *)

LEMMA HexToBytesPlain ==
  ASSUME TypeOK, Plain(pattern)
  PROVE  /\ \A n \in 1..Len(pattern) : HexToBytes(n) # NUL
         /\ HexToBytes(Len(pattern) + 1) = NUL
         /\ HexToBytes(1) = pattern[1] /\ pattern[1] # Wild
         /\ \A n \in 1..Len(pattern) :
               Agree(n) <=> (pattern[n] = Wild \/ image[base + n] = pattern[n])
  BY LenTypes DEF TypeOK, Plain, HexToBytes, Agree, NUL, Question, Wild, Byte

LEMMA NextSearched ==
  ASSUME TypeOK, Positions, Searched, [Next]_vars
  PROVE  Searched'
  <1> USE LenTypes, HexToBytesPlain DEF TypeOK, Searched
  <1>1. image' = image /\ pattern' = pattern /\ Plain(pattern)'
    BY DEF Next, Scan, Skip, Begin, Exhausted, Match, Mismatch, Found, Resolve, Retry,
           MessageBoxA, ReadNull, Done, vars, input, Plain
  <1> DEFINE Missed(b) == ~MatchesAt(b)
  <1>0. ASSUME ~MatchesAt(base), base' = base + 1 PROVE NothingBefore'
    <2>1. \A b \in 0..base : Missed(b)
      <3> HIDE DEF Searched
      <3>1. \A b \in 0..(base - 1) : Missed(b)
        BY DEF NothingBefore, Searched
      <3>2. Missed(base) /\ base \in Nat
        BY <1>0
      <3> HIDE DEF Missed
      <3> QED  BY <3>1, <3>2
    <2>2. \A b : MatchesAt(b)' <=> MatchesAt(b)
      BY <1>1 DEF MatchesAt
    <2>3. 0..(base' - 1) = 0..base
      BY <1>0
    <2> QED  BY <2>1, <2>2, <2>3 DEF NothingBefore
  <1>2. CASE Skip
    <2>1. ~MatchesAt(base)
      BY <1>2 DEF Skip, MatchesAt
    <2>2. NothingBefore'
      BY <1>0, <1>2, <2>1 DEF Skip
    <2> QED  BY <1>1, <1>2, <2>2 DEF Skip, Agreed, Ended
  <1>3. CASE Begin
    <2>1. Agreed'
      BY <1>3 DEF Begin, Agreed
    <2>2. NothingBefore'
      BY <1>1, <1>3 DEF Begin, NothingBefore, MatchesAt
    <2> QED  BY <1>1, <1>3, <2>1, <2>2 DEF Begin, Ended
  <1>4. CASE Exhausted
    BY <1>1, <1>4 DEF Exhausted, Agreed, Ended, NothingBefore, MatchesAt, End
  <1>5. CASE Match
    <2>1. k \in 1..Len(pattern)
      BY <1>5 DEF Match
    <2> QED  BY <1>1, <1>5, <2>1 DEF Match, Agreed, Ended, NothingBefore, MatchesAt
  <1>6. CASE Mismatch
    <2>1. k \in 1..Len(pattern)
      BY <1>6 DEF Mismatch
    <2>2. ~MatchesAt(base)
      BY <1>6, <2>1 DEF Mismatch, MatchesAt
    <2>3. NothingBefore'
      BY <1>0, <1>6, <2>2 DEF Mismatch
    <2> QED  BY <1>1, <1>6, <2>3 DEF Mismatch, Agreed, Ended
  <1>7. CASE Found
    <2>1. k = Len(pattern) + 1
      BY <1>7 DEF Found
    <2> QED  BY <1>1, <1>7, <2>1 DEF Found, Agreed, Ended, NothingBefore, MatchesAt
  <1>8. CASE Resolve \/ Retry \/ MessageBoxA \/ ReadNull \/ Done \/ UNCHANGED vars
    BY <1>1, <1>8 DEF Resolve, Retry, MessageBoxA, ReadNull, Done, vars, input,
                      Agreed, Ended, NothingBefore, MatchesAt, End
  <1> QED  BY <1>2, <1>3, <1>4, <1>5, <1>6, <1>7, <1>8 DEF Next, Scan

LEMMA InitSearched ==
  ASSUME \A pt \in Patterns : Plain(pt), Init
  PROVE  Searched
  BY DEF Init, Searched, Agreed, Ended, NothingBefore

LEMMA SearchedAlways ==
  ASSUME \A pt \in Patterns : Plain(pt)
  PROVE  Spec => [](TypeOK /\ Searched)
  <1>1. Init => Searched
    BY InitSearched
  <1>2. TypeOK /\ Positions /\ Searched /\ [Next]_vars => Searched'
    BY NextSearched
  <1> QED  BY <1>1, <1>2, InitTypeOK, NextTypeOK, PTL DEF Spec

(* What SigScan finds for a plain pattern is the first match of all of it ... *)
THEOREM FindsFirstMatch ==
  (\A pt \in Patterns : Plain(pt)) => (Spec => [](FoundMatches /\ NothingBefore))
  <1> SUFFICES ASSUME \A pt \in Patterns : Plain(pt)
               PROVE  Spec => [](FoundMatches /\ NothingBefore)
    OBVIOUS
  <1>1. TypeOK /\ Searched => FoundMatches /\ NothingBefore
    BY LenTypes DEF TypeOK, Searched, Agreed, Ended, FoundMatches, MatchesAt
  <1> QED  BY <1>1, SearchedAlways, PTL

(* ... and what it reports missing is nowhere but, at most, at the last place. *)
THEOREM MissesNoMatch ==
  (\A pt \in Patterns : Plain(pt)) => (Spec => []MissingIsMissing)
  <1> SUFFICES ASSUME \A pt \in Patterns : Plain(pt)
               PROVE  Spec => []MissingIsMissing
    OBVIOUS
  <1>1. TypeOK /\ Searched => MissingIsMissing
    BY LenTypes DEF TypeOK, Searched, Ended, NothingBefore, MissingIsMissing
  <1> QED  BY <1>1, SearchedAlways, PTL
=============================================================================
