------------------------------ MODULE SigScan -------------------------------
(* Finding the game's functions (Utilities/memory.h): HexToBytes, SigScan,     *)
(* GetCallAddress and GetInstanceAddress, which give every address the hooks   *)
(* are put on.  A pattern is a list of bytes and wildcards, as in              *)
(* "E8 ? ? ? ? 80 7B 52"; SigScan searches the game's image for it.            *)
(*                                                                             *)
(* HexToBytes turns a wildcard into the character '?', that is 3F, and the     *)
(* comparison runs over c_str() up to a NUL: the bytes 3F and 00 of a pattern  *)
(* are not what they were.                                                     *)
EXTENDS Integers, Sequences

CONSTANTS Images,       \* the images that are searched
          Patterns      \* the patterns searched for

Byte     == 0..255
Wild     == -1          \* a `?' of a pattern
NUL      == 0
Question == 63          \* the character '?'

ASSUME ImagesAssumption   == \A im \in Images : im \in Seq(Byte)
ASSUME PatternsAssumption ==
    \A pt \in Patterns : pt \in Seq(Byte \union {Wild}) /\ Len(pt) > 0

VARIABLES
    image, pattern,
    caller,     \* "call": GetCallAddress, "instance": GetInstanceAddress
    pc,         \* "scan": SigScan's outer loop, "compare": its inner loop;
                \* "found", "missing": its result; "retry", "box": the caller's
                \* second search and message box; "resolved", "crashed"
    base,       \* how many bytes of the image base has passed
    k           \* how many bytes of the signature sig has passed, plus 1

input == <<image, pattern, caller>>
vars  == <<input, pc, base, k>>

Init == /\ image \in Images /\ pattern \in Patterns
        /\ caller \in {"call", "instance"}
        /\ pc = "scan" /\ base = 0 /\ k = 1

(* HexToBytes(pattern).c_str() *)
HexToBytes(n) == IF n > Len(pattern) THEN NUL
                 ELSE IF pattern[n] = Wild THEN Question ELSE pattern[n]

-----------------------------------------------------------------------------
(* SigScan.                                                                    *)

EndPast == Len(image) - Len(pattern) + 2        \* a mistake
End     == Len(image) - Len(pattern)

SkipFurther == /\ pc = "scan" /\ base < End     \* a mistake
               /\ image[base + 1] # HexToBytes(1)
               /\ base' = base + 2
               /\ UNCHANGED <<input, pc, k>>

(* *base != first: on to the next byte. *)
Skip == /\ pc = "scan" /\ base < End
        /\ image[base + 1] # HexToBytes(1)
        /\ base' = base + 1
        /\ UNCHANGED <<input, pc, k>>

Begin == /\ pc = "scan" /\ base < End
         /\ image[base + 1] = HexToBytes(1)
         /\ pc' = "compare" /\ k' = 1
         /\ UNCHANGED <<input, base>>

Exhausted == /\ pc = "scan" /\ base >= End
             /\ pc' = "missing"
             /\ UNCHANGED <<input, base, k>>

AgreeAtOnce(n) == HexToBytes(n) # NUL                   \* a mistake
Agree(n) == HexToBytes(n) = Question \/ image[base + n] = HexToBytes(n)

Match == /\ pc = "compare" /\ HexToBytes(k) # NUL
         /\ Agree(k)
         /\ k' = k + 1
         /\ UNCHANGED <<input, pc, base>>

Mismatch == /\ pc = "compare" /\ HexToBytes(k) # NUL
            /\ ~Agree(k)
            /\ pc' = "scan" /\ base' = base + 1
            /\ UNCHANGED <<input, k>>

Found == /\ pc = "compare" /\ HexToBytes(k) = NUL
         /\ pc' = "found"
         /\ UNCHANGED <<input, base, k>>

-----------------------------------------------------------------------------
(* The callers.                                                                *)

(* The operand of the instruction found gives the address. *)
Resolve == /\ pc = "found"
           /\ pc' = "resolved"
           /\ UNCHANGED <<input, base, k>>

(* GetCallAddress searches for its second pattern, by default a null pointer,  *)
(* which HexToBytes cannot make a string of.                                   *)
Retry == /\ pc = "missing" /\ caller = "call"
         /\ pc' = "crashed"
         /\ UNCHANGED <<input, base, k>>

(* GetInstanceAddress shows the pattern, then reads the operand at address 3.  *)
MessageBoxA == /\ pc = "missing" /\ caller = "instance"
               /\ pc' = "box"
               /\ UNCHANGED <<input, base, k>>

ReadNull == /\ pc = "box"
            /\ pc' = "crashed"
            /\ UNCHANGED <<input, base, k>>

Done == pc \in {"resolved", "crashed"} /\ UNCHANGED vars

-----------------------------------------------------------------------------
Scan == Skip \/ Begin \/ Exhausted \/ Match \/ Mismatch \/ Found

Next == Scan \/ Resolve \/ Retry \/ MessageBoxA \/ ReadNull \/ Done

Spec == Init /\ [][Next]_vars

-----------------------------------------------------------------------------
(* Properties.                                                                 *)

TypeOK == /\ image \in Seq(Byte)
          /\ pattern \in Seq(Byte \union {Wild}) /\ Len(pattern) > 0
          /\ caller \in {"call", "instance"}
          /\ pc \in {"scan", "compare", "found", "missing", "box",
                     "resolved", "crashed"}
          /\ base \in Nat
          /\ k \in 1..(Len(pattern) + 1)

(* What a pattern means: its bytes are there, after the first b of the image.  *)
MatchesAt(b) == \A n \in 1..Len(pattern) : \/ pattern[n] = Wild
                                           \/ image[b + n] = pattern[n]

(* Neither the first-byte test nor the comparison reads beyond the image. *)
InsideImage == /\ pc = "scan" /\ base < End => base + 1 <= Len(image)
               /\ pc = "compare" /\ k <= Len(pattern) => base + k <= Len(image)

(* What is found matches the whole pattern ... *)
FoundMatches == pc \in {"found", "resolved"} => MatchesAt(base)

(* ... and is the first match.                                                 *)
NothingBefore == \A b \in 0..(base - 1) : ~MatchesAt(b)

(* A pattern reported missing is nowhere in the image, except possibly at its  *)
(* very end: base < end leaves out the last place where it fits.               *)
MissingIsMissing ==
    pc \in {"missing", "box", "crashed"} => \A b \in 0..(End - 1) : ~MatchesAt(b)
=============================================================================
