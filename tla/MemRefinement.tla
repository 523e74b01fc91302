---------------------------- MODULE MemRefinement ---------------------------
(***************************************************************************)
(* The allocator of mem.c implements the Allocator: the pointers the       *)
(* client holds are the allocations, the call in progress is the request,  *)
(* and the mapped pages that are not foreign are owned.                    *)
(***************************************************************************)
EXTENDS MemClient

request == IF pc = "idle" THEN -1 ELSE query

A == INSTANCE Allocator
       WITH held <- live, want <- request, owned <- pages \ FOREIGN

(* Every behaviour of mem.c is one the caller was promised: _malloc's      *)
(* steps are silent until the one that returns grants or refuses.          *)
ImplementsAllocator == A!Spec
=============================================================================
