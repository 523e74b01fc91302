--------------------------------- MODULE Mem ---------------------------------
(***************************************************************************)
(* The allocator of memory-allocator/src/mem.c: heap_init, _malloc, _free. *)
(*                                                                         *)
(* The heap is what the code keeps in memory: a header at the address of   *)
(* every block of the list that starts at HEAP_START, each with the        *)
(* address of the next one.  A header that a merge swallows becomes bytes  *)
(* of the block that swallowed it, so it leaves the domain of heap.        *)
(* One call of _malloc is a run of steps, one per turn of the loop of      *)
(* find_good_or_last, so that the state the loop relies on is visible;     *)
(* heap_init and _free are one step each.  The program is sequential: no   *)
(* other call starts before the current one has returned.                  *)
(*                                                                         *)
(* A definition whose name starts with wrong_ is the next one with a       *)
(* plausible mistake in it; nothing uses it.  Put in place of the right    *)
(* one, it must break the property PROJECT.json pairs it with.             *)
(***************************************************************************)
EXTENDS MemLayout, FiniteSets

CONSTANTS
  HEAP_START,         \* address the code assumes its first region is at
  PAGES,              \* page numbers the kernel can give to the process
  FOREIGN,            \* pages of PAGES other code of the process has mapped
  QUERIES,            \* sizes the client passes to heap_init and _malloc
  HONOURS_NOREPLACE,  \* the kernel knows MAP_FIXED_NOREPLACE (Linux 4.17)
  CLIENT_CHECKS_ADDRESS
                      \* the client calls _malloc once heap_init has returned
                      \* HEAP_START; FALSE: once it has not returned NULL

ASSUME MemAssumption ==
  /\ PAGES \subseteq Nat
  /\ FOREIGN \subseteq PAGES
  /\ QUERIES \subseteq Word
  /\ HEAP_START \in Word \ {0}
  /\ HONOURS_NOREPLACE \in BOOLEAN
  /\ CLIENT_CHECKS_ADDRESS \in BOOLEAN
  /\ \A p \in PAGES : p # 0 /\ (p + 1) * PAGE_SIZE < WORD

VARIABLES
  heap,   \* the headers of the block list, by their address
  born,   \* history: which region, counted along the list, a block is from
  pages,  \* pages of the process that are mapped
  live,   \* what the client holds: the size it asked for, by pointer
  pc,     \* where the allocator is: not called, in the loop of
          \* find_good_or_last, about to call grow_heap, or dead
  query,  \* argument of the current _malloc
  block,  \* `block` of find_good_or_last
  prev    \* `prev` of find_good_or_last

locals == <<pc, query, block, prev>>
vars   == <<heap, born, pages, live, pc, query, block, prev>>

NULL       == 0
MAP_FAILED == -1

Header == [next : Word, capacity : Word, is_free : BOOLEAN]

-----------------------------------------------------------------------------
(* The kernel, as mem.c uses it.                                           *)

PageOf(addr)       == addr \div PAGE_SIZE
PagesOf(addr, len) == PageOf(addr) .. PageOf(addr + len - 1)

Mappable(addr, len) ==
  /\ addr % PAGE_SIZE = 0
  /\ PagesOf(addr, len) \subseteq PAGES \ pages

Places(len) ==
  {addr \in {p * PAGE_SIZE : p \in PAGES} : Mappable(addr, len)}

(* MAP_FIXED_NOREPLACE never replaces a mapping.  A kernel that does not   *)
(* know the flag takes addr for a hint and maps elsewhere.                 *)
mmap_fixed(addr, len) ==
  {MAP_FAILED} \cup
    (IF Mappable(addr, len) THEN {addr}
     ELSE IF HONOURS_NOREPLACE THEN {} ELSE Places(len))

mmap_anywhere(len) == {MAP_FAILED} \cup Places(len)

-----------------------------------------------------------------------------
(* Regions.                                                                *)

REGION_INVALID == [addr |-> NULL, size |-> 0, extends |-> FALSE]

region_is_invalid(r) == r.addr = NULL

(* The regions alloc_region may return: at addr, else anywhere, else none. *)
alloc_region(addr, request) ==
  LET region_size == region_actual_size(size_from_capacity(request))
      At(places, extends) ==
        {[addr |-> a, size |-> region_size, extends |-> extends] :
           a \in places \ {MAP_FAILED}}
  IN  At(mmap_fixed(addr, region_size), TRUE)
        \cup At(mmap_anywhere(region_size), FALSE)
        \cup {REGION_INVALID}

-----------------------------------------------------------------------------
(* Blocks.  A function that changes headers takes the heap and returns it. *)

wrong_block_init(size, next) ==  \* the size for the capacity
  [next |-> next, capacity |-> size, is_free |-> TRUE]

block_init(size, next) ==
  [next |-> next, capacity |-> capacity_from_size(size), is_free |-> TRUE]

contents(b) == Plus(b, HEADER_SIZE)

block_get_header(mem) == Minus(mem, HEADER_SIZE)

wrong_block_after(h, b) == Plus(b, h[b].capacity)  \* forgets the header

block_after(h, b) == Plus(contents(b), h[b].capacity)

wrong_block_is_big_enough(size, header) ==  \* counts the header as room
  size_from_capacity(header.capacity) >= size

block_is_big_enough(size, header) == header.capacity >= size

wrong_block_splittable(h, b, size) ==  \* forgets the header of what is left
  /\ h[b].is_free
  /\ Plus(min_capacity_or(size), BLOCK_MIN_CAPACITY) <= h[b].capacity

block_splittable(h, b, size) ==
  /\ h[b].is_free
  /\ Plus(min_capacity_or(size), size_from_capacity(BLOCK_MIN_CAPACITY))
       <= h[b].capacity

wrong_split_order(h, b, size) ==  \* block->next set before it is copied
  IF block_splittable(h, b, size)
  THEN LET kept      == min_capacity_or(size)
           new_block == Plus(contents(b), kept)
       IN  [x \in DOMAIN h \cup {new_block} |->
              IF x = b
              THEN [next |-> new_block, capacity |-> kept, is_free |-> TRUE]
              ELSE IF x = new_block
              THEN block_init(Minus(h[b].capacity, kept), new_block)
              ELSE h[x]]
  ELSE h

split_if_too_big(h, b, size) ==
  IF block_splittable(h, b, size)
  THEN LET kept      == min_capacity_or(size)
           new_block == Plus(contents(b), kept)
       IN  [x \in DOMAIN h \cup {new_block} |->
              IF x = b
              THEN [next |-> new_block, capacity |-> kept, is_free |-> TRUE]
              ELSE IF x = new_block
              THEN block_init(Minus(h[b].capacity, kept), h[b].next)
              ELSE h[x]]
  ELSE h

wrong_blocks_continuous(h, first, second) == TRUE  \* trusts the list

blocks_continuous(h, first, second) == second = block_after(h, first)

wrong_mergeable(h, first, second) ==  \* joins a free block to a taken one
  /\ h[second].is_free
  /\ blocks_continuous(h, first, second)

mergeable(h, first, second) ==
  /\ h[first].is_free
  /\ h[second].is_free
  /\ blocks_continuous(h, first, second)

can_merge(h, b) == h[b].next # NULL /\ mergeable(h, b, h[b].next)

wrong_merge_next(h, b) ==  \* keeps the pointer to the swallowed header
  IF can_merge(h, b)
  THEN [x \in DOMAIN h \ {h[b].next} |->
          IF x = b
          THEN [h[b] EXCEPT !.capacity =
                  Plus(@, size_from_capacity(h[h[b].next].capacity))]
          ELSE h[x]]
  ELSE h

wrong_merge_size(h, b) ==  \* adds the capacity, loses the header
  IF can_merge(h, b)
  THEN LET n == h[b].next
       IN  [x \in DOMAIN h \ {n} |->
              IF x = b
              THEN [h[b] EXCEPT !.next = h[n].next,
                                !.capacity = Plus(@, h[n].capacity)]
              ELSE h[x]]
  ELSE h

try_merge_with_next(h, b) ==
  IF can_merge(h, b)
  THEN LET n == h[b].next
       IN  [x \in DOMAIN h \ {n} |->
              IF x = b
              THEN [next     |-> h[n].next,
                    capacity |-> Plus(h[b].capacity,
                                      size_from_capacity(h[n].capacity)),
                    is_free  |-> h[b].is_free]
              ELSE h[x]]
  ELSE h

(* The region r as one free block of the heap.                             *)
put_region(h, r) ==
  [x \in DOMAIN h \cup {r.addr} |->
     IF x = r.addr THEN block_init(r.size, NULL) ELSE h[x]]

(* And linked behind the block last.                                       *)
link_region(h, last, r) == [put_region(h, r) EXCEPT ![last].next = r.addr]

wrong_grow_link(h, last, r) ==  \* forgets last->next
  [heap |-> put_region(h, r), block |-> r.addr]

(* grow_heap once alloc_region has returned the valid region r: the heap   *)
(* with r linked behind last, and the block that the request is cut from.  *)
grow_heap(h, last, r) ==
  LET linked == link_region(h, last, r)
      merged == r.extends /\ can_merge(linked, last)
  IN  [heap  |-> IF merged THEN try_merge_with_next(linked, last) ELSE linked,
       block |-> IF merged THEN last ELSE r.addr]

-----------------------------------------------------------------------------
(* The calls.                                                              *)

(* No block yet; the caller has not called anything.                       *)
Init ==
  /\ heap  = [x \in {} |-> NULL]
  /\ born  = [x \in {} |-> 0]
  /\ pages = FOREIGN
  /\ live  = [x \in {} |-> 0]
  /\ pc    = "idle"
  /\ query = 0
  /\ block = NULL
  /\ prev  = NULL

(* Blocks that appear in the heap h are of region k.                       *)
Born(h, k) == [x \in DOMAIN h |-> IF x \in DOMAIN born THEN born[x] ELSE k]

Return == pc' = "idle" /\ query' = 0 /\ block' = NULL /\ prev' = NULL

(* A region away from HEAP_START is mapped and initialised like any other, *)
(* and no list ever reaches it: heap_init keeps no record of its address.  *)
heap_init(initial) ==
  /\ pc = "idle"
  /\ \E region \in alloc_region(HEAP_START, initial) :
       /\ ~region_is_invalid(region)
       /\ pages' = pages \cup PagesOf(region.addr, region.size)
       /\ heap'  = IF region.addr = HEAP_START
                   THEN put_region(heap, region) ELSE heap
  /\ born' = Born(heap', 0)
  /\ UNCHANGED <<live, locals>>

(* heap_init returns NULL when both attempts to map fail.                  *)
heap_init_fails(initial) ==
  /\ pc = "idle"
  /\ REGION_INVALID \in alloc_region(HEAP_START, initial)
  /\ UNCHANGED vars

(* _malloc starts from HEAP_START whatever heap_init returned.  Where it   *)
(* put no header, what is read is undefined, and the model goes no further.*)
(* Some heap_init has succeeded when there are pages the client lacked.    *)
malloc(size) ==
  /\ pc = "idle"
  /\ pages # FOREIGN
  /\ CLIENT_CHECKS_ADDRESS => HEAP_START \in DOMAIN heap
  /\ pc'    = IF HEAP_START \in DOMAIN heap THEN "search" ELSE "fault"
  /\ query' = size
  /\ block' = HEAP_START
  /\ prev'  = NULL
  /\ UNCHANGED <<heap, born, pages, live>>

(* while (try_merge_with_next(block)) {}                                   *)
find_merge ==
  /\ pc = "search"
  /\ block # NULL
  /\ can_merge(heap, block)
  /\ heap' = try_merge_with_next(heap, block)
  /\ born' = Born(heap', 0)
  /\ UNCHANGED <<pages, live, locals>>

(* Cut size bytes from block b and mark it taken.                          *)
cut(h, b, size) == [split_if_too_big(h, b, size) EXCEPT ![b].is_free = FALSE]

(* What the client holds once it got the contents of block b for size.     *)
Given(lv, b, size) ==
  [p \in DOMAIN lv \cup {contents(b)} |->
     IF p = contents(b) THEN size ELSE lv[p]]

(* The tail of memalloc and of try_memalloc_existing.                      *)
take(h, b) ==
  /\ heap' = cut(h, b, query)
  /\ live' = Given(live, b, query)
  /\ Return

wrong_good(b) == block_is_big_enough(query, heap[b])  \* free or not

good(b) == heap[b].is_free /\ block_is_big_enough(query, heap[b])

(* BSR_FOUND_GOOD_BLOCK.                                                   *)
find_good ==
  /\ pc = "search"
  /\ block # NULL
  /\ ~can_merge(heap, block)
  /\ good(block)
  /\ take(heap, block)
  /\ born' = Born(heap', born[block])
  /\ UNCHANGED pages

wrong_find_next_merge ==  \* `if` for `while` around the merge
  /\ pc = "search"
  /\ block # NULL
  /\ ~good(block)
  /\ prev'  = block
  /\ block' = heap[block].next
  /\ UNCHANGED <<heap, born, pages, live, pc, query>>

wrong_find_next_step ==  \* forgets block = block->next
  /\ pc = "search"
  /\ block # NULL
  /\ ~can_merge(heap, block)
  /\ ~good(block)
  /\ prev' = block
  /\ UNCHANGED <<heap, born, pages, live, pc, query, block>>

find_next ==
  /\ pc = "search"
  /\ block # NULL
  /\ ~can_merge(heap, block)
  /\ ~good(block)
  /\ prev'  = block
  /\ block' = heap[block].next
  /\ UNCHANGED <<heap, born, pages, live, pc, query>>

(* BSR_REACHED_END_NOT_FOUND; without a single block, BSR_CORRUPTED.       *)
find_end ==
  /\ pc = "search"
  /\ block = NULL
  /\ pc' = IF prev # NULL THEN "grow" ELSE "idle"
  /\ UNCHANGED <<heap, born, pages, live, query, block, prev>>

grow ==
  /\ pc = "grow"
  /\ \E region \in alloc_region(block_after(heap, prev), query) :
       /\ ~region_is_invalid(region)
       /\ LET g == grow_heap(heap, prev, region)
          IN  /\ take(g.heap, g.block)
              /\ born' = Born(heap', IF g.block = prev THEN born[prev]
                                                       ELSE born[prev] + 1)
       /\ pages' = pages \cup PagesOf(region.addr, region.size)

(* No memory: _malloc returns NULL.                                        *)
grow_fails ==
  /\ pc = "grow"
  /\ REGION_INVALID \in alloc_region(block_after(heap, prev), query)
  /\ Return
  /\ UNCHANGED <<heap, born, pages, live>>

(* _free of a pointer the client holds; _free(NULL) does nothing.          *)
free(mem) ==
  /\ pc = "idle"
  /\ mem \in DOMAIN live
  /\ LET b == block_get_header(mem)
     IN  heap' = try_merge_with_next([heap EXCEPT ![b].is_free = TRUE], b)
  /\ born' = Born(heap', 0)
  /\ live' = [p \in DOMAIN live \ {mem} |-> live[p]]
  /\ UNCHANGED <<pages, locals>>

(* The steps of a call in progress.                                        *)
Step == find_merge \/ find_good \/ find_next \/ find_end \/ grow \/ grow_fails

Next ==
  \/ \E size \in QUERIES : heap_init(size) \/ heap_init_fails(size)
                             \/ malloc(size)
  \/ Step
  \/ \E mem \in DOMAIN live : free(mem)

Spec == Init /\ [][Next]_vars

(* Nothing blocks inside a call and mmap returns, so a call in progress    *)
(* keeps running; the client owes nothing.                                 *)
FairSpec == Spec /\ WF_vars(Step)

-----------------------------------------------------------------------------
(* What the calls rely on and promise.  Addresses are summed without       *)
(* wrapping here: a block that wraps is not where its header says it is.   *)

End(b)    == b + HEADER_SIZE + heap[b].capacity
Extent(b) == PagesOf(b, HEADER_SIZE + heap[b].capacity)

(* The block header of what the client holds.                              *)
HeldHeaders == {block_get_header(p) : p \in DOMAIN live}

(* The blocks a walk along `next` from b meets; walk[n] is the n-th.       *)
From(b) ==
  LET walk[n \in 0 .. Cardinality(DOMAIN heap)] ==
        IF n = 0 THEN b
        ELSE IF walk[n - 1] = NULL THEN NULL ELSE heap[walk[n - 1]].next
  IN  {walk[n] : n \in DOMAIN walk} \ {NULL}

(* Every variable holds what the code may keep there; no `next`, nor a     *)
(* pointer of the search, dangles to a header that a merge has swallowed.  *)
TypeOK ==
  /\ DOMAIN heap \subseteq Word /\ heap \in [DOMAIN heap -> Header]
  /\ \A b \in DOMAIN heap : heap[b].next \in DOMAIN heap \cup {NULL}
  /\ DOMAIN born = DOMAIN heap  /\ born \in [DOMAIN heap -> Nat]
  /\ FOREIGN \subseteq pages    /\ pages \subseteq PAGES
  /\ DOMAIN live \subseteq Word /\ live \in [DOMAIN live -> QUERIES]
  /\ pc \in {"idle", "search", "grow", "fault"}
  /\ query \in QUERIES \cup {0}
  /\ block \in DOMAIN heap \cup {NULL, HEAP_START}
  /\ prev \in DOMAIN heap \cup {NULL}

(* No two blocks, header and contents, share a byte, however split_if_too_ *)
(* big, try_merge_with_next and grow_heap have cut and joined them.        *)
BlocksDisjoint ==
  \A a, b \in DOMAIN heap : a < b => End(a) <= b

(* Every block lies in memory the allocator mapped, never in pages other   *)
(* code of the process owns: no address computation runs off a region.     *)
BlocksMapped ==
  \A b \in DOMAIN heap : Extent(b) \subseteq pages \ FOREIGN

(* No capacity falls below what split_if_too_big promises to leave.        *)
MinCapacity ==
  \A b \in DOMAIN heap : heap[b].capacity >= BLOCK_MIN_CAPACITY

(* No byte of a region is lost: where a block ends, another starts or the  *)
(* region does, where a block starts, another ends or a page starts, and   *)
(* no cut leaves a piece smaller than the least block.                     *)
NothingLost ==
  /\ \A b \in DOMAIN heap :
       /\ End(b) \in DOMAIN heap \/ End(b) % PAGE_SIZE = 0
       /\ b % PAGE_SIZE = 0 \/ \E a \in DOMAIN heap : End(a) = b
  /\ MinCapacity

(* The list from HEAP_START, the only way the code finds a block, meets    *)
(* every block, and ends.                                                  *)
ListComplete ==
  DOMAIN heap # {} =>
    /\ From(HEAP_START) = DOMAIN heap
    /\ \E b \in DOMAIN heap : heap[b].next = NULL

(* The blocks of one region are listed by address without a gap, and the   *)
(* regions one after another: free neighbours of a region can be merged.   *)
ListFollowsRegions ==
  \A b \in DOMAIN heap :
    LET n == heap[b].next
    IN  n # NULL => \/ born[n] = born[b] /\ n = block_after(heap, b)
                    \/ born[n] > born[b]

(* What the client holds is a taken block with room for what it asked, and *)
(* a block nobody holds is free: none leaks, none is held twice.           *)
HeldIntact ==
  /\ \A p \in DOMAIN live :
       LET b == block_get_header(p)
       IN  b \in DOMAIN heap /\ heap[b].capacity >= live[p]
  /\ \A b \in DOMAIN heap : heap[b].is_free <=> b \notin HeldHeaders

(* While the search runs and when it gives up, no block it has passed is   *)
(* free and big enough, or can still be merged with the one after it: the  *)
(* heap grows only when, merged as far as the list allows, it is too small,*)
(* and then at the end of its last region, an address that                 *)
(* MAP_FIXED_NOREPLACE accepts.                                            *)
NothingPassedOver ==
  /\ pc \in {"search", "grow"} =>
       \A b \in DOMAIN heap \ From(block) : ~good(b) /\ ~can_merge(heap, b)
  /\ pc = "grow" => /\ prev \in DOMAIN heap
                    /\ heap[prev].next = NULL
                    /\ block_after(heap, prev) % PAGE_SIZE = 0

(* When the client has given everything back, in whatever order, a search  *)
(* that reaches the end has joined every region into one block.            *)
FreedHeapCoalesces ==
  pc = "grow" /\ DOMAIN live = {} =>
    \A a, b \in DOMAIN heap : born[a] = born[b] => a = b

(* The allocator reads no header but its own.                              *)
NoFault == pc # "fault"

BlocksStay ==
  \A p \in DOMAIN live \cap DOMAIN live' :
    LET b == block_get_header(p)
    IN  /\ b \in DOMAIN heap'
        /\ heap'[b].capacity = heap[b].capacity
        /\ live'[p] = live[p]

(* No step moves or resizes a block the client holds before and after it:  *)
(* merges, splits, growth and a second heap_init leave it alone.           *)
HeldBlocksStay == [][BlocksStay]_vars

(* Every call of _malloc returns: the loop of find_good_or_last ends.      *)
MallocReturns == pc \in {"search", "grow"} ~> pc = "idle"
=============================================================================
