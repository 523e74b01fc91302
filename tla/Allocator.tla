----------------------------- MODULE Allocator ------------------------------
(***************************************************************************)
(* What mem.h promises a caller of _malloc and _free, without blocks,      *)
(* headers or lists: pointers to memory of the process that nobody else    *)
(* holds, for as long as the caller keeps them.                            *)
(***************************************************************************)
EXTENDS Integers

CONSTANTS
  PAGE_SIZE,  \* bytes of a page
  PAGES,      \* pages the kernel can give to the process
  FOREIGN,    \* pages of PAGES that belong to other code of the process
  QUERIES     \* sizes the caller may ask for

VARIABLES
  held,   \* sizes of the allocations the caller holds, by pointer
  want,   \* the request being served, or NoRequest
  owned   \* pages that belong to the allocator

vars == <<held, want, owned>>

NoRequest == -1

(* The bytes of an allocation; one of size 0 still has its own address.    *)
Bytes(p, size) == p .. p + (IF size = 0 THEN 0 ELSE size - 1)

(* The addresses the kernel has to give.                                   *)
Addresses == UNION {n * PAGE_SIZE .. (n + 1) * PAGE_SIZE - 1 : n \in PAGES}

Init ==
  /\ held  = [p \in {} |-> 0]
  /\ want  = NoRequest
  /\ owned = {}

Acquire(more) == more \subseteq PAGES \ FOREIGN /\ owned' = owned \cup more

(* The allocator sets up its heap.                                         *)
Prepare ==
  /\ want = NoRequest
  /\ \E more \in SUBSET PAGES : Acquire(more)
  /\ UNCHANGED <<held, want>>

Request(size) ==
  /\ want = NoRequest
  /\ want' = size
  /\ UNCHANGED <<held, owned>>

(* The bytes at p are the allocator's, and no allocation has any of them.  *)
Grant(p) ==
  /\ want # NoRequest
  /\ held' = [q \in DOMAIN held \cup {p} |-> IF q = p THEN want ELSE held[q]]
  /\ \A q \in DOMAIN held : Bytes(p, want) \cap Bytes(q, held[q]) = {}
  /\ \E more \in SUBSET PAGES : Acquire(more)
  /\ \A x \in Bytes(p, want) : x \div PAGE_SIZE \in owned'
  /\ want' = NoRequest

Refuse ==
  /\ want # NoRequest
  /\ want' = NoRequest
  /\ UNCHANGED <<held, owned>>

Release(p) ==
  /\ want = NoRequest
  /\ p \in DOMAIN held
  /\ held' = [q \in DOMAIN held \ {p} |-> held[q]]
  /\ UNCHANGED <<want, owned>>

Next ==
  \/ Prepare
  \/ \E size \in QUERIES : Request(size)
  \/ Refuse
  \/ \E p \in Addresses : Grant(p)
  \/ \E p \in DOMAIN held : Release(p)

Spec == Init /\ [][Next]_vars

-----------------------------------------------------------------------------
(* Every variable holds what a caller of _malloc may see there.            *)
TypeOK ==
  /\ DOMAIN held \subseteq Addresses /\ held \in [DOMAIN held -> QUERIES]
  /\ want \in QUERIES \cup {NoRequest}
  /\ owned \subseteq PAGES \ FOREIGN

(* No byte is in two allocations at once, whatever was asked for, returned *)
(* and asked for again: what one caller of _malloc writes, no other reads. *)
HeldDisjoint ==
  \A p, q \in DOMAIN held :
    p # q => Bytes(p, held[p]) \cap Bytes(q, held[q]) = {}

(* Every byte of an allocation is in a page of the allocator.              *)
HeldOwned ==
  \A p \in DOMAIN held : \A x \in Bytes(p, held[p]) : x \div PAGE_SIZE \in owned
=============================================================================
