-------------------------- MODULE MCImageTransform --------------------------
(* image-transform on every file of a small size, whole or cut anywhere.   *)
EXTENDS ImageTransform, TLC

CONSTANTS MaxWidth, MaxHeight

Whole(w, h) == h * Stride(w)

MCFiles ==
  UNION {[width : {w}, height : {h}, bytes : 0..Whole(w, h)] :
           w \in 0..MaxWidth, h \in 0..MaxHeight}

MCWholeFiles ==
  UNION {[width : {w}, height : {h}, bytes : {Whole(w, h)}] :
           w \in 0..MaxWidth, h \in 0..MaxHeight}

MCParams == {"none", "fliph", "flipv", "ccw90", "cw90", "unknown", Absent}

Symmetry == Permutations(Blocks)
=============================================================================
