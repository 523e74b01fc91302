------------------------------ MODULE MCMemWrap -----------------------------
(***************************************************************************)
(* The address space of MCMem, and a request so close to SIZE_MAX that     *)
(* round_pages wraps to zero.                                              *)
(***************************************************************************)
EXTENDS Mem

MCPages   == 1 .. 4
MCQueries == {70, 974}
=============================================================================
