----------------------------- MODULE SigScanMC ------------------------------
EXTENDS SigScan

(* All images up to five bytes, and all patterns up to three, over few bytes.  *)
SmallImages   == UNION {[1..n -> {1, 63, 200}] : n \in 0..5}
Over(S)       == UNION {[1..n -> S] : n \in 1..3}
PlainPatterns == {pt \in Over({1, 200, Wild}) : pt[1] # Wild}
NulPatterns   == {pt \in Over({0, 200, Wild}) : pt[1] # Wild}
=============================================================================
