------------------------------- MODULE MCMem --------------------------------
(***************************************************************************)
(* Small address spaces for Mem: pages of 64 bytes, regions of at least    *)
(* two pages as in mem_internals.h, headers and least capacity as in the   *)
(* code.  A region of two pages has capacity 111, which 111 takes whole;   *)
(* 70 is the largest request it can be split for, leaving just             *)
(* BLOCK_MIN_CAPACITY, and 150 needs a third page, or two regions merged.  *)
(***************************************************************************)
EXTENDS MemInvariant

(* Ten pages with HEAP_START in the third: a region can extend the first,  *)
(* or else come to lie before it or behind the foreign page.  The list is  *)
(* then not in the order of the addresses.                                 *)
MCScatteredPages   == 1 .. 10
MCScatteredForeign == {7}
MCScatteredQueries == {70, 111, 150}

(* Four pages, for what goes wrong in few steps.                           *)
MCPages   == 1 .. 4
MCQueries == {0, 70, 150}

(* Other code has mapped the page of HEAP_START.                           *)
MCTakenStart == {1}
=============================================================================
