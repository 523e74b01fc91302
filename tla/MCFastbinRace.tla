---------------------------- MODULE MCFastbinRace ----------------------------
(* Two threads, three chunks and a thread cache of one chunk.  The         *)
(* invariant of the proofs is there to be checked beside the properties.   *)
EXTENDS FastbinInvariant
=============================================================================
