---------------------------- MODULE MemInvariant ----------------------------
(***************************************************************************)
(* An inductive invariant of Mem.  The first six parts are about a heap h *)
(* whose blocks have ranks bn and lie in pages pg, so that they can be     *)
(* carried through the intermediate heaps of a step (grown and linked, not *)
(* yet merged; merged, not yet split; split, not yet taken).               *)
(***************************************************************************)
EXTENDS MemRefinement

EndIn(h, b) == b + HEADER_SIZE + h[b].capacity

(* Headers have their types, a `next` is NULL or a block, and every        *)
(* capacity is at least the least one.                                     *)
HeadersOK(h) ==
  /\ h = [b \in DOMAIN h |-> h[b]]
  /\ \A b \in DOMAIN h :
       /\ b \in Nat \ {0}
       /\ h[b] \in [next : DOMAIN h \cup {NULL}, capacity : Nat,
                    is_free : BOOLEAN]
       /\ h[b].capacity >= BLOCK_MIN_CAPACITY

(* Every byte of every block is in a page of the allocator.                *)
PlacedOK(h, pg) ==
  \A b \in DOMAIN h : \A x \in b .. EndIn(h, b) - 1 : PageOf(x) \in pg \ FOREIGN

(* No two blocks share a byte.                                             *)
ApartOK(h) == \A a, b \in DOMAIN h : a < b => EndIn(h, a) <= b

(* The list starts at HEAP_START, no two blocks have the same `next`, and  *)
(* it goes up: to a later region, or to the block right behind in the same *)
(* one.  So it has no cycle, and a merge cannot swallow a block of the     *)
(* list before the one that it is for.                                     *)
ListOK(h, bn) ==
  /\ bn \in [DOMAIN h -> Nat]
  /\ \A b \in DOMAIN h :
       LET n == h[b].next
       IN  n # NULL => /\ n # HEAP_START
                       /\ \/ bn[b] < bn[n]
                          \/ bn[b] = bn[n] /\ n = EndIn(h, b)
  /\ \A a, b \in DOMAIN h : h[a].next = h[b].next /\ h[a].next # NULL => a = b
  /\ DOMAIN h # {} => HEAP_START \in DOMAIN h

Aligned(x) == x % PAGE_SIZE = 0

(* Where a block ends, another starts of its region, or of one it has been *)
(* joined with, or its region ends; and where one starts, another ends or  *)
(* its region starts.                                                      *)
TiledOK(h, bn) ==
  \A b \in DOMAIN h :
    /\ \/ EndIn(h, b) \in DOMAIN h /\ bn[b] <= bn[EndIn(h, b)]
       \/ Aligned(EndIn(h, b))
    /\ Aligned(b) \/ \E a \in DOMAIN h : EndIn(h, a) = b

(* Every block but the first is somebody's `next`, and one has none.       *)
LinkedOK(h) ==
  /\ IsFiniteSet(DOMAIN h)
  /\ \A b \in DOMAIN h \ {HEAP_START} : \E a \in DOMAIN h : h[a].next = b
  /\ DOMAIN h # {} => \E b \in DOMAIN h : h[b].next = NULL

HeapOK(h, bn, pg) ==
  /\ HeadersOK(h) /\ PlacedOK(h, pg) /\ ApartOK(h) /\ ListOK(h, bn)
  /\ TiledOK(h, bn) /\ LinkedOK(h)

(* Block a is b, or before it in the list: as it goes up, the ranks and    *)
(* the addresses tell.                                                     *)
UpTo(bn, a, b) == bn[a] < bn[b] \/ (bn[a] = bn[b] /\ a <= b)

(* The taken blocks of h are the ones the client holds, as it asked.       *)
HeldOK(h, lv) ==
  /\ DOMAIN lv = {b + HEADER_SIZE : b \in {c \in DOMAIN h : ~h[c].is_free}}
  /\ lv \in [DOMAIN lv -> QUERIES]
  /\ \A b \in DOMAIN h : ~h[b].is_free => lv[b + HEADER_SIZE] <= h[b].capacity

(* Where the search is: at the block after prev, or at the first one.      *)
CursorOK ==
  /\ pc = "idle" => query = 0 /\ block = NULL /\ prev = NULL
  /\ pc = "search" =>
       /\ query \in QUERIES
       /\ HEAP_START \in DOMAIN heap
       /\ IF prev = NULL THEN block = HEAP_START
          ELSE prev \in DOMAIN heap /\ block = heap[prev].next
  /\ pc = "grow" =>
       /\ query \in QUERIES
       /\ prev \in DOMAIN heap /\ heap[prev].next = NULL
       /\ block = NULL
  /\ pc = "fault" =>
       query \in QUERIES /\ block = HEAP_START /\ prev = NULL

(* What the search has passed is of no use to it.                          *)
PassedOK ==
  pc \in {"search", "grow"} =>
    \A b \in DOMAIN heap :
      block = NULL \/ ~UpTo(born, block, b) => ~good(b) /\ ~can_merge(heap, b)

PagesOK == FOREIGN \subseteq pages /\ pages \subseteq PAGES

IInv ==
  /\ pc \in {"idle", "search", "grow", "fault"}
  /\ PagesOK
  /\ HeapOK(heap, born, pages)
  /\ HeldOK(heap, live)
  /\ CursorOK /\ PassedOK
=============================================================================
