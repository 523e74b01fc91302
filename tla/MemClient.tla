------------------------------ MODULE MemClient ------------------------------
(***************************************************************************)
(* The allocator of Mem under a client whose requests are not so large     *)
(* that size_t arithmetic on them wraps.  The code does not check this;    *)
(* what the allocator promises, it promises to such a client.              *)
(***************************************************************************)
EXTENDS Mem

(* A request, the headers and the rounding to pages it is given, together. *)
ASSUME ClientAssumption ==
  \A q \in QUERIES :
    q + 2 * (HEADER_SIZE + BLOCK_MIN_CAPACITY) + PAGE_SIZE < WORD
=============================================================================
