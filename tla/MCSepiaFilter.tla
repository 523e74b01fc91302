---------------------------- MODULE MCSepiaFilter ----------------------------
(* sepia-filter on every file of a small size, whole or cut anywhere.      *)
EXTENDS SepiaFilterInvariant, TLC

CONSTANTS MaxWidth, MaxHeight

Whole(w, h) == h * Stride(w)

MCFiles ==
  UNION {[width : {w}, height : {h}, bytes : {n \in 0..Whole(w, h) : n % 4 = 0}] :
           w \in 0..MaxWidth, h \in 0..MaxHeight}

MCModes == {"r", "c", "a", "unknown", Absent, Tester}

Symmetry == Permutations(Blocks)
=============================================================================
