------------------------------ MODULE MemProofs -----------------------------
(***************************************************************************)
(* Proofs about the allocator: IInv is an invariant for every page size,   *)
(* address space, foreign mapping and set of requests that do not wrap;    *)
(* the properties of Mem that follow from it; and the refinement.  First   *)
(* come lemmas about the functions of mem.c: what they return, and that a  *)
(* heap as HeapOK describes it stays one.                                  *)
(***************************************************************************)
EXTENDS MemInvariant, CommonLemmas

-----------------------------------------------------------------------------
(* Words, pages and regions.                                               *)

(* A sum that stays below WORD does not wrap.                              *)
LEMMA PlusSmall ==
  ASSUME NEW x \in Nat, NEW y \in Nat, x + y < WORD
  PROVE  Plus(x, y) = x + y
BY LayoutAssumption DEF Plus

(* A difference that is not negative does not wrap.                        *)
LEMMA MinusSmall ==
  ASSUME NEW x \in Nat, NEW y \in Nat, y <= x, x < WORD
  PROVE  Minus(x, y) = x - y
BY LayoutAssumption DEF Minus

(* Rounding a request up to pages loses none of it.                        *)
LEMMA RoundPages ==
  ASSUME NEW m \in Nat, m + PAGE_SIZE < WORD
  PROVE  /\ round_pages(m) \in Nat /\ round_pages(m) >= m /\ round_pages(m) < WORD
         /\ Aligned(round_pages(m))
<1> DEFINE c == (m + PAGE_SIZE - 1) \div PAGE_SIZE
<1>1. pages_count(m) = c
  <2>1. Plus(m, PAGE_SIZE) = m + PAGE_SIZE
    BY PlusSmall, LayoutAssumption
  <2>2. Minus(m + PAGE_SIZE, 1) = m + PAGE_SIZE - 1
    BY MinusSmall, LayoutAssumption
  <2> QED
    BY <2>1, <2>2 DEF pages_count
<1>2. c \in Nat /\ PAGE_SIZE * c >= m /\ PAGE_SIZE * c <= m + PAGE_SIZE - 1
  BY LayoutAssumption
<1>3. (PAGE_SIZE * c) % WORD = PAGE_SIZE * c
  <2> HIDE DEF c
  <2>1. \A n \in Nat : n < WORD => n % WORD = n
    BY LayoutAssumption
  <2>2. PAGE_SIZE * c \in Nat /\ PAGE_SIZE * c < WORD
    BY <1>2, LayoutAssumption
  <2> QED
    BY <2>1, <2>2
<1>4. Aligned(PAGE_SIZE * c)
  <2> HIDE DEF c
  <2> QED
    BY <1>2, LayoutAssumption DEF Aligned
<1>5. round_pages(m) = PAGE_SIZE * c
  BY <1>1, <1>3 DEF round_pages
<1> QED
  BY <1>2, <1>3, <1>4, <1>5, LayoutAssumption

(* A request is small enough for the sums the code makes of it.            *)
LEMMA QuerySmall ==
  ASSUME NEW q \in QUERIES
  PROVE  /\ q \in Nat
         /\ q + 2 * (HEADER_SIZE + BLOCK_MIN_CAPACITY) + PAGE_SIZE < WORD
BY MemAssumption, ClientAssumption, LayoutAssumption DEF Word

(* The region mapped for a request holds its header and the request.       *)
LEMMA RegionSize ==
  ASSUME NEW q \in QUERIES
  PROVE  LET s == region_actual_size(size_from_capacity(q))
         IN  /\ s \in Nat
             /\ s >= q + HEADER_SIZE
             /\ s >= HEADER_SIZE + BLOCK_MIN_CAPACITY
             /\ s < WORD
<1>1. q \in Nat /\ q + HEADER_SIZE + PAGE_SIZE < WORD
  BY QuerySmall, LayoutAssumption
<1>2. size_from_capacity(q) = q + HEADER_SIZE
  BY <1>1, PlusSmall, LayoutAssumption DEF size_from_capacity
<1>3. /\ round_pages(q + HEADER_SIZE) \in Nat
      /\ round_pages(q + HEADER_SIZE) >= q + HEADER_SIZE
      /\ round_pages(q + HEADER_SIZE) < WORD
  BY <1>1, RoundPages, LayoutAssumption
<1> QED
  BY <1>1, <1>2, <1>3, LayoutAssumption DEF region_actual_size, size_max

(* And is whole pages: REGION_MIN_SIZE is, or is no more than one page.    *)
LEMMA RegionAligned ==
  ASSUME NEW q \in QUERIES
  PROVE  Aligned(region_actual_size(size_from_capacity(q)))
<1>1. q \in Nat /\ q + HEADER_SIZE + PAGE_SIZE < WORD
  BY QuerySmall, LayoutAssumption
<1>2. size_from_capacity(q) = q + HEADER_SIZE
  BY <1>1, PlusSmall, LayoutAssumption DEF size_from_capacity
<1> DEFINE s == round_pages(q + HEADER_SIZE)
<1>3. s \in Nat /\ s >= 1 /\ Aligned(s)
  BY <1>1, RoundPages, LayoutAssumption
<1> HIDE DEF s
<1>4. s >= PAGE_SIZE
  <2>1. \A x \in Nat : x < PAGE_SIZE => x % PAGE_SIZE = x
    BY LayoutAssumption
  <2> QED
    BY <1>3, <2>1, LayoutAssumption DEF Aligned
<1>5. Aligned(size_max(s, REGION_MIN_SIZE))
  BY <1>3, <1>4, LayoutAssumption DEF Aligned, size_max
<1> QED
  BY <1>2, <1>5 DEF region_actual_size, s

(* Whole pages from the start of a page end where a page does.             *)
LEMMA SumAligned ==
  ASSUME NEW x \in Nat, NEW y \in Nat, Aligned(x), Aligned(y)
  PROVE  Aligned(x + y)
<1> DEFINE m == x \div PAGE_SIZE
           n == y \div PAGE_SIZE
<1>1. m \in Nat /\ n \in Nat /\ x = PAGE_SIZE * m /\ y = PAGE_SIZE * n
  BY LayoutAssumption DEF Aligned
<1> HIDE DEF m, n
<1>2. x + y = PAGE_SIZE * (m + n) /\ m + n \in Nat
  BY <1>1, LayoutAssumption
<1>3. \A k \in Nat : (PAGE_SIZE * k) % PAGE_SIZE = 0
  BY LayoutAssumption
<1> QED
  BY <1>2, <1>3 DEF Aligned

(* A byte of a page the kernel can give, and the byte after it, are words. *)
LEMMA PageBelowWord ==
  ASSUME NEW x \in Nat, PageOf(x) \in PAGES
  PROVE  x + 1 < WORD /\ x # 0
<1>1. PageOf(x) \in Nat /\ PageOf(x) # 0 /\ (PageOf(x) + 1) * PAGE_SIZE < WORD
  BY MemAssumption
<1>2. x < (PageOf(x) + 1) * PAGE_SIZE
  BY LayoutAssumption DEF PageOf
<1>3. x # 0
  BY <1>1, LayoutAssumption DEF PageOf
<1>4. (PageOf(x) + 1) * PAGE_SIZE \in Nat
  BY <1>1, LayoutAssumption
<1> QED
  BY <1>1, <1>2, <1>3, <1>4, LayoutAssumption

(* The bytes of a range of memory are in its pages.                        *)
LEMMA PagesOfBytes ==
  ASSUME NEW addr \in Nat, NEW len \in Nat, NEW x \in addr .. addr + len - 1
  PROVE  PageOf(x) \in PagesOf(addr, len)
<1>1. \A y, z \in Nat : y <= z => y \div PAGE_SIZE <= z \div PAGE_SIZE
  BY LayoutAssumption
<1>2. \A y \in Nat : y \div PAGE_SIZE \in Nat
  BY LayoutAssumption
<1> QED
  BY <1>1, <1>2 DEF PageOf, PagesOf

(* And a page of the range has one of its bytes.                           *)
LEMMA BytesOfPages ==
  ASSUME NEW addr \in Nat, NEW len \in Nat \ {0}, NEW p \in PagesOf(addr, len)
  PROVE  \E x \in addr .. addr + len - 1 : PageOf(x) = p
<1>1. CASE p = PageOf(addr)
  BY <1>1
<1>2. CASE p # PageOf(addr)
  <2>1. /\ p \in Nat
        /\ addr \div PAGE_SIZE < p
        /\ p <= (addr + len - 1) \div PAGE_SIZE
    BY <1>2, LayoutAssumption DEF PagesOf, PageOf
  <2>2. p * PAGE_SIZE \in Nat /\ (p * PAGE_SIZE) \div PAGE_SIZE = p
    BY <2>1, LayoutAssumption
  <2>3. addr < p * PAGE_SIZE
    BY <2>1, LayoutAssumption
  <2>4. p * PAGE_SIZE <= addr + len - 1
    BY <2>1, LayoutAssumption
  <2> QED
    BY <2>2, <2>3, <2>4 DEF PageOf
<1> QED
  BY <1>1, <1>2

(* A region is whole unmapped pages, has the size computed for the request *)
(* and is not at NULL.                                                     *)
LEMMA AllocRegion ==
  ASSUME NEW addr \in Nat, NEW q \in QUERIES, NEW r \in alloc_region(addr, q),
         ~region_is_invalid(r)
  PROVE  /\ r.addr \in Nat \ {0}
         /\ r.size = region_actual_size(size_from_capacity(q))
         /\ PagesOf(r.addr, r.size) \subseteq PAGES \ pages
         /\ Aligned(r.addr) /\ Aligned(r.addr + r.size)
<1> DEFINE s == region_actual_size(size_from_capacity(q))
<1>1. /\ r.addr \in mmap_fixed(addr, s) \cup mmap_anywhere(s)
      /\ r.addr # MAP_FAILED
      /\ r.addr # NULL
      /\ r.size = s
  BY DEF alloc_region, REGION_INVALID, region_is_invalid
<1>2. r.addr = addr \/ r.addr \in Places(s)
  BY <1>1 DEF mmap_fixed, mmap_anywhere
<1>3. Mappable(r.addr, s)
  BY <1>1, <1>2 DEF mmap_fixed, mmap_anywhere, Places
<1>4. \A p \in PAGES : p * PAGE_SIZE \in Nat
  BY MemAssumption, LayoutAssumption
<1>5. r.addr \in Nat
  BY <1>2, <1>4 DEF Places
<1>6. Aligned(r.addr) /\ Aligned(r.addr + s)
  <2>1. Aligned(r.addr)
    BY <1>3 DEF Mappable, Aligned
  <2>2. s \in Nat /\ Aligned(s)
    BY RegionSize, RegionAligned
  <2> QED
    BY <1>5, <2>1, <2>2, SumAligned
<1> QED
  BY <1>1, <1>3, <1>5, <1>6 DEF Mappable, NULL

-----------------------------------------------------------------------------
(* Blocks.                                                                 *)

(* What a step of mem.c leaves alone, and which blocks it makes free.      *)
Agree(h, g, S)  == \A x \in S : g[x] = h[x]
AllFree(h, S)   == \A x \in S : h[x].is_free = TRUE

(* The ranks bg of the blocks S: those bn gives, and k for new blocks.     *)
Ranks(bn, bg, S, k) ==
  bg \in [S -> Nat] /\ \A x \in S : bg[x] = IF x \in DOMAIN bn THEN bn[x] ELSE k

(* The addresses computed from a block of a sound heap do not wrap.        *)
LEMMA BlockBounds ==
  ASSUME NEW h, NEW bn, NEW pg, pg \subseteq PAGES, HeapOK(h, bn, pg),
         NEW b \in DOMAIN h
  PROVE  /\ b \in Nat \ {0}
         /\ h[b].capacity \in Nat
         /\ EndIn(h, b) \in Nat
         /\ EndIn(h, b) < WORD
         /\ b < EndIn(h, b)
         /\ contents(b) = b + HEADER_SIZE
         /\ block_get_header(b + HEADER_SIZE) = b
         /\ block_after(h, b) = EndIn(h, b)
         /\ size_from_capacity(h[b].capacity) = h[b].capacity + HEADER_SIZE
<1> USE LayoutAssumption
<1>1. b \in Nat \ {0} /\ h[b].capacity \in Nat
  BY DEF HeapOK, HeadersOK
<1>2. EndIn(h, b) \in Nat /\ b < EndIn(h, b)
  BY <1>1 DEF EndIn
<1>3. EndIn(h, b) < WORD
  <2> DEFINE x == EndIn(h, b) - 1
  <2>1. x \in Nat /\ x \in b .. EndIn(h, b) - 1
    BY <1>1, <1>2
  <2>2. PageOf(x) \in PAGES
    BY <2>1 DEF HeapOK, PlacedOK
  <2> HIDE DEF x
  <2>3. x + 1 < WORD
    BY <2>1, <2>2, PageBelowWord
  <2> QED
    BY <1>2, <2>3 DEF x
<1>4. contents(b) = b + HEADER_SIZE
  BY <1>1, <1>2, <1>3, PlusSmall DEF contents, EndIn
<1>5. block_get_header(b + HEADER_SIZE) = b
  BY <1>1, <1>2, <1>3, MinusSmall DEF block_get_header, EndIn
<1>6. block_after(h, b) = EndIn(h, b)
  BY <1>1, <1>2, <1>3, <1>4, PlusSmall DEF block_after, EndIn
<1>7. size_from_capacity(h[b].capacity) = h[b].capacity + HEADER_SIZE
  BY <1>1, <1>2, <1>3, PlusSmall DEF size_from_capacity, EndIn
<1> QED
  BY <1>1, <1>2, <1>3, <1>4, <1>5, <1>6, <1>7

(* The list goes up.                                                       *)
LEMMA ListUp ==
  ASSUME NEW h, NEW bn, NEW pg, HeapOK(h, bn, pg),
         NEW b \in DOMAIN h, NEW n, n = h[b].next, n # NULL
  PROVE  /\ n \in DOMAIN h /\ n # HEAP_START
         /\ bn[b] \in Nat /\ bn[n] \in Nat
         /\ bn[b] < bn[n] \/ (bn[b] = bn[n] /\ n = EndIn(h, b))
<1>1. n \in DOMAIN h
  BY DEF HeapOK, HeadersOK
<1>2. bn[b] \in Nat /\ bn[n] \in Nat
  BY <1>1 DEF HeapOK, ListOK
<1>3. n # HEAP_START /\ (bn[b] < bn[n] \/ (bn[b] = bn[n] /\ n = EndIn(h, b)))
  BY DEF HeapOK, ListOK
<1> QED
  BY <1>1, <1>2, <1>3

(* Taking or freeing a block changes nothing but its mark.                 *)
LEMMA MarkBlock ==
  ASSUME NEW h, NEW bn, NEW pg, HeapOK(h, bn, pg),
         NEW b \in DOMAIN h, NEW mark \in BOOLEAN,
         NEW g, g = [h EXCEPT ![b].is_free = mark]
  PROVE  /\ HeapOK(g, bn, pg)
         /\ DOMAIN g = DOMAIN h
         /\ g[b] = [h[b] EXCEPT !.is_free = mark]
         /\ Agree(h, g, DOMAIN h \ {b})
<1>1. /\ DOMAIN g = DOMAIN h
      /\ g[b] = [h[b] EXCEPT !.is_free = mark]
      /\ \A x \in DOMAIN h \ {b} : g[x] = h[x]
      /\ g = [x \in DOMAIN g |-> g[x]]
  OBVIOUS
<1>2. \A x \in DOMAIN h : /\ g[x].next = h[x].next
                          /\ g[x].capacity = h[x].capacity
                          /\ g[x].is_free \in BOOLEAN
                          /\ g[x] \in [next : DOMAIN h \cup {NULL},
                                       capacity : Nat, is_free : BOOLEAN]
  BY <1>1 DEF HeapOK, HeadersOK
<1>3. \A x \in DOMAIN h : EndIn(g, x) = EndIn(h, x)
  BY <1>2 DEF EndIn
<1>4. HeadersOK(g)
  BY <1>1, <1>2 DEF HeapOK, HeadersOK
<1>5. PlacedOK(g, pg) /\ ApartOK(g)
  BY <1>1, <1>3 DEF HeapOK, PlacedOK, ApartOK
<1>6. ListOK(g, bn)
  <2>1. ASSUME NEW x \in DOMAIN h, h[x].next # NULL
        PROVE  /\ h[x].next # HEAP_START
               /\ \/ bn[x] < bn[h[x].next]
                  \/ bn[x] = bn[h[x].next] /\ h[x].next = EndIn(h, x)
    BY <2>1 DEF HeapOK, ListOK
  <2>2. bn \in [DOMAIN g -> Nat] /\ (DOMAIN g # {} => HEAP_START \in DOMAIN g)
    BY <1>1 DEF HeapOK, ListOK
  <2>3. ASSUME NEW x \in DOMAIN g, NEW y \in DOMAIN g,
               g[x].next = g[y].next, g[x].next # NULL
        PROVE  x = y
    BY <2>3, <1>1, <1>2 DEF HeapOK, ListOK
  <2>4. ASSUME NEW x \in DOMAIN g, g[x].next # NULL
        PROVE  /\ g[x].next # HEAP_START
               /\ \/ bn[x] < bn[g[x].next]
                  \/ bn[x] = bn[g[x].next] /\ g[x].next = EndIn(g, x)
    <3>1. x \in DOMAIN h /\ g[x].next = h[x].next /\ EndIn(g, x) = EndIn(h, x)
      BY <1>1, <1>2, <1>3
    <3> QED
      BY <2>1, <2>4, <3>1
  <2> QED
    BY <2>2, <2>3, <2>4 DEF ListOK
<1>7. TiledOK(g, bn)
  BY <1>1, <1>3 DEF HeapOK, TiledOK
<1>8. LinkedOK(g)
  BY <1>1, <1>2 DEF HeapOK, LinkedOK
<1>9. HeapOK(g, bn, pg)
  BY <1>4, <1>5, <1>6, <1>7, <1>8 DEF HeapOK
<1> QED
  BY <1>1, <1>9 DEF Agree

(* In g, the block b has taken in the one that was behind it in h, n.      *)
Joined(h, g, b, n) ==
  /\ n \in DOMAIN h /\ n # b /\ n # HEAP_START
  /\ h[b].is_free = TRUE /\ h[n].is_free = TRUE
  /\ DOMAIN g = DOMAIN h \ {n}
  /\ g[b].next = h[n].next
  /\ g[b].capacity = h[b].capacity + HEADER_SIZE + h[n].capacity
  /\ g[b].is_free = TRUE
  /\ Agree(h, g, DOMAIN g \ {b})

(* try_merge_with_next: b takes in the free block right behind it, which   *)
(* is the next of the list, and nothing else changes.                      *)
LEMMA MergeBlocks ==
  ASSUME NEW h, NEW bn, NEW pg, pg \subseteq PAGES, HeapOK(h, bn, pg),
         NEW b \in DOMAIN h, can_merge(h, b),
         NEW n, n = h[b].next,
         NEW g, g = try_merge_with_next(h, b),
         NEW bg, Ranks(bn, bg, DOMAIN g, 0)
  PROVE  Joined(h, g, b, n) /\ HeapOK(g, bg, pg)
<1> USE LayoutAssumption
<1>1. n \in DOMAIN h /\ n # NULL /\ h[b].is_free = TRUE /\ h[n].is_free = TRUE
  BY DEF can_merge, mergeable, HeapOK, HeadersOK
<1>2. n = EndIn(h, b) /\ b < n /\ n # b /\ n # HEAP_START
  BY <1>1, BlockBounds DEF can_merge, mergeable, blocks_continuous, HeapOK, ListOK
<1>3. /\ b \in Nat /\ n \in Nat
      /\ h[b].capacity \in Nat /\ h[n].capacity \in Nat
      /\ EndIn(h, n) = n + HEADER_SIZE + h[n].capacity
      /\ EndIn(h, n) \in Nat /\ EndIn(h, n) < WORD
      /\ size_from_capacity(h[n].capacity) = h[n].capacity + HEADER_SIZE
  BY <1>1, BlockBounds DEF EndIn
<1>4. Plus(h[b].capacity, size_from_capacity(h[n].capacity))
        = h[b].capacity + HEADER_SIZE + h[n].capacity
  BY <1>2, <1>3, PlusSmall DEF EndIn
<1>5. /\ DOMAIN g = DOMAIN h \ {n}
      /\ g = [x \in DOMAIN g |-> g[x]]
      /\ g[b] = [next     |-> h[n].next,
                 capacity |-> h[b].capacity + HEADER_SIZE + h[n].capacity,
                 is_free  |-> TRUE]
      /\ \A x \in DOMAIN h \ {n, b} : g[x] = h[x]
  BY <1>1, <1>2, <1>4 DEF try_merge_with_next
<1>6. EndIn(g, b) = EndIn(h, n) /\ \A x \in DOMAIN g \ {b} : EndIn(g, x) = EndIn(h, x)
  BY <1>2, <1>3, <1>5 DEF EndIn
<1>7. \A x \in DOMAIN h : x \in Nat /\ EndIn(h, x) \in Nat /\ x < EndIn(h, x)
  BY BlockBounds
(* Only b has n for its next, and n is not its own.                        *)
<1>8. /\ \A x \in DOMAIN h : h[x].next = n => x = b
      /\ h[n].next # n
  BY <1>1, <1>2 DEF HeapOK, ListOK
<1>9. HeadersOK(g)
  <2>1. h[n].next \in (DOMAIN g) \cup {NULL}
    BY <1>1, <1>5, <1>8 DEF HeapOK, HeadersOK
  <2>2. \A x \in DOMAIN g \ {b} : h[x].next \in (DOMAIN g) \cup {NULL}
    BY <1>1, <1>5, <1>8 DEF HeapOK, HeadersOK
  <2>3. ASSUME NEW x \in DOMAIN g
        PROVE  /\ x \in Nat \ {0}
               /\ g[x] \in [next : (DOMAIN g) \cup {NULL}, capacity : Nat,
                            is_free : BOOLEAN]
               /\ g[x].capacity >= BLOCK_MIN_CAPACITY
    <3>1. CASE x = b
      BY <3>1, <2>1, <1>3, <1>5 DEF HeapOK, HeadersOK
    <3>2. CASE x # b
      BY <3>2, <2>2, <1>5 DEF HeapOK, HeadersOK
    <3> QED
      BY <3>1, <3>2
  <2> QED
    BY <1>5, <2>3 DEF HeadersOK
<1>10. PlacedOK(g, pg)
  <2>1. ASSUME NEW x \in b .. EndIn(h, n) - 1 PROVE PageOf(x) \in pg \ FOREIGN
    <3>1. x \in b .. EndIn(h, b) - 1 \/ x \in n .. EndIn(h, n) - 1
      BY <1>2, <1>3
    <3> QED
      BY <3>1, <1>1 DEF HeapOK, PlacedOK
  <2> QED
    BY <2>1, <1>5, <1>6 DEF HeapOK, PlacedOK
<1>11. ApartOK(g)
  <2> SUFFICES ASSUME NEW x \in DOMAIN g, NEW y \in DOMAIN g, x < y
               PROVE  EndIn(g, x) <= y
    BY DEF ApartOK
  <2>1. x \in DOMAIN h /\ y \in DOMAIN h /\ x # n /\ y # n
    BY <1>5
  <2>2. CASE x = b
    <3>1. n < y
      BY <2>1, <2>2, <1>2, <1>7 DEF HeapOK, ApartOK
    <3> QED
      BY <2>1, <2>2, <3>1, <1>1, <1>6 DEF HeapOK, ApartOK
  <2>3. CASE x # b
    BY <2>1, <2>3, <1>6 DEF HeapOK, ApartOK
  <2> QED
    BY <2>2, <2>3
<1>12. ListOK(g, bg)
  <2>1. bg \in [DOMAIN g -> Nat] /\ \A x \in DOMAIN g : bg[x] = bn[x]
    BY <1>5 DEF HeapOK, ListOK, Ranks
  <2>2. bn[b] \in Nat /\ bn[n] \in Nat /\ bn[b] <= bn[n]
    <3>1. bn[b] \in Nat /\ bn[n] \in Nat
      BY <1>1 DEF HeapOK, ListOK
    <3>2. bn[b] < bn[n] \/ bn[b] = bn[n]
      BY <1>1 DEF HeapOK, ListOK
    <3> QED
      BY <3>1, <3>2
  <2>3. ASSUME NEW x \in DOMAIN g, g[x].next # NULL
        PROVE  /\ g[x].next # HEAP_START
               /\ \/ bg[x] < bg[g[x].next]
                  \/ bg[x] = bg[g[x].next] /\ g[x].next = EndIn(g, x)
    <3>1. g[x].next \in DOMAIN g
      BY <1>9, <2>3 DEF HeadersOK
    <3>2. CASE x = b
      <4>1. g[x].next = h[n].next /\ h[n].next # NULL /\ h[n].next \in DOMAIN h
        BY <3>1, <3>2, <2>3, <1>5
      <4>2. /\ h[n].next # HEAP_START
            /\ \/ bn[n] < bn[h[n].next]
               \/ bn[n] = bn[h[n].next] /\ h[n].next = EndIn(h, n)
        BY <4>1, <1>1 DEF HeapOK, ListOK
      <4>3. bn[h[n].next] \in Nat
        BY <4>1 DEF HeapOK, ListOK
      <4> QED
        BY <4>1, <4>2, <4>3, <3>1, <3>2, <2>1, <2>2, <1>6
    <3>3. CASE x # b
      BY <3>1, <3>3, <2>1, <2>3, <1>5, <1>6 DEF HeapOK, ListOK
    <3> QED
      BY <3>2, <3>3
  <2>4. ASSUME NEW x \in DOMAIN g, NEW y \in DOMAIN g,
               g[x].next = g[y].next, g[x].next # NULL
        PROVE  x = y
    <3> DEFINE o(z) == IF z = b THEN n ELSE z
    <3>1. o(x) \in DOMAIN h /\ o(y) \in DOMAIN h
      BY <1>1, <1>5
    <3>2. g[x].next = h[o(x)].next /\ g[y].next = h[o(y)].next
      BY <1>5
    <3>3. o(x) = o(y)
      BY <2>4, <3>1, <3>2 DEF HeapOK, ListOK
    <3> QED
      BY <3>3, <1>5
  <2>5. HEAP_START \in DOMAIN g
    BY <1>1, <1>2, <1>5 DEF HeapOK, ListOK
  <2> QED
    BY <2>1, <2>3, <2>4, <2>5 DEF ListOK
(* b ends where n did, and nothing else ended where n started.             *)
<1>13. TiledOK(g, bg)
  <2>0. /\ \A x \in DOMAIN h : bn[x] \in Nat
        /\ \A x \in DOMAIN g : bg[x] = bn[x]
        /\ bn[b] <= bn[n]
    <3>1. \A x \in DOMAIN h : bn[x] \in Nat
      BY DEF HeapOK, ListOK
    <3>2. \A x \in DOMAIN g : bg[x] = bn[x]
      BY <1>5 DEF HeapOK, ListOK, Ranks
    <3>3. bn[b] < bn[n] \/ bn[b] = bn[n]
      BY <1>1 DEF HeapOK, ListOK
    <3> QED
      BY <3>1, <3>2, <3>3, <1>1
  <2>1. \A x \in DOMAIN g \ {b} : EndIn(h, x) # n
    <3> SUFFICES ASSUME NEW x \in DOMAIN g \ {b}, EndIn(h, x) = n PROVE FALSE
      OBVIOUS
    <3>1. x \in DOMAIN h /\ (x < b \/ b < x)
      BY <1>5, <1>7
    <3> QED
      BY <3>1, <1>2, <1>7 DEF HeapOK, ApartOK
  <2>2. ASSUME NEW x \in DOMAIN g
        PROVE  \/ EndIn(g, x) \in DOMAIN g /\ bg[x] <= bg[EndIn(g, x)]
               \/ Aligned(EndIn(g, x))
    <3> DEFINE o == IF x = b THEN n ELSE x
    <3>1. /\ o \in DOMAIN h /\ EndIn(g, x) = EndIn(h, o) /\ EndIn(h, o) # n
          /\ bg[x] \in Nat /\ bg[x] <= bn[o]
      BY <1>1, <1>5, <1>6, <1>7, <2>0, <2>1
    <3> HIDE DEF o
    <3>2. \/ EndIn(h, o) \in DOMAIN h /\ bn[o] <= bn[EndIn(h, o)]
          \/ Aligned(EndIn(h, o))
      BY <3>1 DEF HeapOK, TiledOK
    <3>3. CASE EndIn(h, o) \in DOMAIN h /\ bn[o] <= bn[EndIn(h, o)]
      <4>1. EndIn(g, x) \in DOMAIN g /\ bg[EndIn(g, x)] = bn[EndIn(h, o)]
        BY <3>1, <3>3, <1>5, <2>0
      <4> QED
        BY <4>1, <3>1, <3>3, <2>0
    <3> QED
      BY <3>1, <3>2, <3>3
  <2>3. ASSUME NEW x \in DOMAIN g
        PROVE  Aligned(x) \/ \E a \in DOMAIN g : EndIn(g, a) = x
    <3>1. x \in DOMAIN h /\ x # n
      BY <1>5
    <3>2. CASE Aligned(x)
      BY <3>2
    <3>3. CASE ~Aligned(x)
      <4>1. PICK a \in DOMAIN h : EndIn(h, a) = x
        BY <3>1, <3>3 DEF HeapOK, TiledOK
      <4>2. a # b
        BY <4>1, <3>1, <1>2
      <4>3. CASE a = n
        BY <4>1, <4>3, <1>1, <1>2, <1>5, <1>6
      <4>4. CASE a # n
        BY <4>1, <4>2, <4>4, <1>5, <1>6
      <4> QED
        BY <4>3, <4>4
    <3> QED
      BY <3>2, <3>3
  <2> QED
    BY <2>2, <2>3 DEF TiledOK
(* What had n for its next is b, and what n had, b has.                    *)
<1>14. LinkedOK(g)
  <2>1. IsFiniteSet(DOMAIN g)
    BY <1>5, FS_RemoveElement DEF HeapOK, LinkedOK
  <2>2. ASSUME NEW x \in DOMAIN g \ {HEAP_START}
        PROVE  \E a \in DOMAIN g : g[a].next = x
    <3>1. PICK a \in DOMAIN h : h[a].next = x
      BY <1>5 DEF HeapOK, LinkedOK
    <3>2. CASE a = n
      BY <3>1, <3>2, <1>2, <1>5
    <3>3. CASE a # n
      BY <3>1, <3>3, <1>5
    <3> QED
      BY <3>2, <3>3
  <2>3. \E x \in DOMAIN g : g[x].next = NULL
    <3>1. PICK a \in DOMAIN h : h[a].next = NULL
      BY DEF HeapOK, LinkedOK
    <3>2. CASE a = n
      BY <3>1, <3>2, <1>2, <1>5
    <3>3. CASE a # n
      BY <3>1, <3>3, <1>1, <1>5
    <3> QED
      BY <3>2, <3>3
  <2> QED
    BY <2>1, <2>2, <2>3 DEF LinkedOK
<1>15. HeapOK(g, bg, pg)
  BY <1>9, <1>10, <1>11, <1>12, <1>13, <1>14 DEF HeapOK
<1> QED
  BY <1>1, <1>2, <1>5, <1>15 DEF Agree, Joined

(* split_if_too_big: what is left of b holds the request, the rest becomes *)
(* a free block right behind it, and the two cover what b covered.         *)
LEMMA SplitBlock ==
  ASSUME NEW h, NEW bn, NEW pg, pg \subseteq PAGES, HeapOK(h, bn, pg),
         NEW b \in DOMAIN h, NEW q \in QUERIES, q <= h[b].capacity,
         NEW g, g = split_if_too_big(h, b, q),
         NEW bg, Ranks(bn, bg, DOMAIN g, bn[b])
  PROVE  /\ DOMAIN h \subseteq DOMAIN g
         /\ g[b].is_free = h[b].is_free /\ q <= g[b].capacity
         /\ Agree(h, g, DOMAIN h \ {b})
         /\ AllFree(g, DOMAIN g \ DOMAIN h)
         /\ HeapOK(g, bg, pg)
<1> USE LayoutAssumption
<1>1. CASE ~block_splittable(h, b, q)
  <2>1. g = h
    BY <1>1 DEF split_if_too_big
  <2>2. bg = bn
    BY <2>1 DEF HeapOK, ListOK, Ranks
  <2> QED
    BY <2>1, <2>2 DEF Agree, AllFree
<1>2. CASE block_splittable(h, b, q)
  <2> DEFINE kept == min_capacity_or(q)
             n    == b + HEADER_SIZE + kept
             rest == h[b].capacity - kept - HEADER_SIZE
  <2>1. /\ b \in Nat \ {0} /\ h[b].capacity \in Nat /\ h[b].is_free = TRUE
        /\ EndIn(h, b) = b + HEADER_SIZE + h[b].capacity
        /\ EndIn(h, b) \in Nat /\ EndIn(h, b) < WORD
        /\ contents(b) = b + HEADER_SIZE
    BY <1>2, BlockBounds DEF EndIn, block_splittable, HeapOK, HeadersOK
  <2>2. /\ kept \in Nat /\ kept >= q /\ kept >= BLOCK_MIN_CAPACITY
        /\ kept + BLOCK_MIN_CAPACITY + HEADER_SIZE < WORD
        /\ kept = min_capacity_or(q)
    BY QuerySmall DEF min_capacity_or, size_max
  <2>3. kept + BLOCK_MIN_CAPACITY + HEADER_SIZE <= h[b].capacity
    <3>1. size_from_capacity(BLOCK_MIN_CAPACITY) = BLOCK_MIN_CAPACITY + HEADER_SIZE
      BY <2>2, PlusSmall DEF size_from_capacity
    <3>2. Plus(kept, BLOCK_MIN_CAPACITY + HEADER_SIZE)
            = kept + BLOCK_MIN_CAPACITY + HEADER_SIZE
      BY <2>2, PlusSmall
    <3> QED
      BY <1>2, <3>1, <3>2 DEF block_splittable
  <2> HIDE DEF kept
  <2>4. Plus(contents(b), kept) = n
    BY <2>1, <2>2, <2>3, PlusSmall
  <2>5. capacity_from_size(Minus(h[b].capacity, kept)) = rest
    <3>1. Minus(h[b].capacity, kept) = h[b].capacity - kept
      BY <2>1, <2>2, <2>3, MinusSmall
    <3>2. Minus(h[b].capacity - kept, HEADER_SIZE) = rest
      BY <2>1, <2>2, <2>3, MinusSmall
    <3> QED
      BY <3>1, <3>2 DEF capacity_from_size
  <2>6. /\ n \in Nat \ {0} /\ b < n /\ n < EndIn(h, b)
        /\ rest \in Nat /\ rest >= BLOCK_MIN_CAPACITY
        /\ n + HEADER_SIZE + rest = EndIn(h, b)
    BY <2>1, <2>2, <2>3
  <2>7. n \notin DOMAIN h
    <3> SUFFICES ASSUME n \in DOMAIN h PROVE FALSE
      OBVIOUS
    <3> QED
      BY <2>6 DEF HeapOK, ApartOK
  <2>8. /\ DOMAIN g = DOMAIN h \cup {n}
        /\ g = [x \in DOMAIN g |-> g[x]]
        /\ g[b] = [next |-> n, capacity |-> kept, is_free |-> TRUE]
        /\ g[n] = [next |-> h[b].next, capacity |-> rest, is_free |-> TRUE]
        /\ \A x \in DOMAIN h \ {b} : g[x] = h[x]
    <3>1. g = [x \in DOMAIN h \cup {n} |->
                 IF x = b
                 THEN [next |-> n, capacity |-> kept, is_free |-> TRUE]
                 ELSE IF x = n
                 THEN [next |-> h[b].next, capacity |-> rest, is_free |-> TRUE]
                 ELSE h[x]]
      BY <1>2, <2>2, <2>4, <2>5 DEF split_if_too_big, block_init
    <3>2. n # b /\ n \notin DOMAIN h
      BY <2>6, <2>7
    <3> QED
      BY <3>1, <3>2
  <2>9. /\ EndIn(g, b) = n /\ EndIn(g, n) = EndIn(h, b)
        /\ \A x \in DOMAIN h \ {b} : EndIn(g, x) = EndIn(h, x)
    BY <2>6, <2>8 DEF EndIn
  <2> HIDE DEF n, rest
  <2>10. \A x \in DOMAIN h : x \in Nat /\ EndIn(h, x) \in Nat /\ x < EndIn(h, x)
    BY BlockBounds
  <2>11. HeadersOK(g)
    <3>1. ASSUME NEW x \in DOMAIN g
          PROVE  /\ x \in Nat \ {0}
                 /\ g[x] \in [next : DOMAIN g \cup {NULL}, capacity : Nat,
                              is_free : BOOLEAN]
                 /\ g[x].capacity >= BLOCK_MIN_CAPACITY
      <4>1. CASE x = b
        BY <4>1, <2>1, <2>2, <2>8
      <4>2. CASE x = n
        BY <4>2, <2>6, <2>8 DEF HeapOK, HeadersOK
      <4>3. CASE x # b /\ x # n
        BY <4>3, <2>8 DEF HeapOK, HeadersOK
      <4> QED
        BY <4>1, <4>2, <4>3
    <3> QED
      BY <2>8, <3>1 DEF HeadersOK
  <2>12. PlacedOK(g, pg)
    <3>1. \A x \in b .. EndIn(h, b) - 1 : PageOf(x) \in pg \ FOREIGN
      BY DEF HeapOK, PlacedOK
    <3>2. \A x \in b .. n - 1 : PageOf(x) \in pg \ FOREIGN
      BY <3>1, <2>1, <2>6
    <3>3. \A x \in n .. EndIn(h, b) - 1 : PageOf(x) \in pg \ FOREIGN
      BY <3>1, <2>1, <2>6
    <3> QED
      BY <3>2, <3>3, <2>8, <2>9 DEF HeapOK, PlacedOK
  <2>13. ApartOK(g)
    <3> SUFFICES ASSUME NEW x \in DOMAIN g, NEW y \in DOMAIN g, x < y
                 PROVE  EndIn(g, x) <= y
      BY DEF ApartOK
    <3>1. \A z \in DOMAIN h : z < b => EndIn(h, z) <= b
      BY DEF HeapOK, ApartOK
    <3>2. \A z \in DOMAIN h : b < z => EndIn(h, b) <= z
      BY DEF HeapOK, ApartOK
    <3>3. CASE x \in {b, n} /\ y \in {b, n}
      BY <3>3, <2>1, <2>6, <2>9
    <3>4. CASE x \in {b, n} /\ y \notin {b, n}
      <4>1. y \in DOMAIN h /\ b < y
        BY <3>4, <2>1, <2>6, <2>8, <2>10
      <4> QED
        BY <4>1, <3>2, <3>4, <2>6, <2>9, <2>10, <2>1
    <3>5. CASE x \notin {b, n} /\ y \in {b, n}
      <4>1. x \in DOMAIN h /\ EndIn(g, x) = EndIn(h, x)
        BY <3>5, <2>8, <2>9
      <4>2. x < b
        BY <4>1, <3>2, <3>5, <2>6, <2>10, <2>1
      <4> QED
        BY <4>1, <4>2, <3>1, <3>5, <2>6, <2>10, <2>1
    <3>6. CASE x \notin {b, n} /\ y \notin {b, n}
      BY <3>6, <2>8, <2>9 DEF HeapOK, ApartOK
    <3> QED
      BY <3>3, <3>4, <3>5, <3>6
  <2>14. ListOK(g, bg)
    <3>1. /\ bg \in [DOMAIN g -> Nat] /\ bg[n] = bn[b]
          /\ \A x \in DOMAIN h : bg[x] = bn[x]
      BY <2>7, <2>8 DEF HeapOK, ListOK, Ranks
    <3>2. HEAP_START \in DOMAIN h
      BY DEF HeapOK, ListOK
    <3>3. \A x \in DOMAIN h : h[x].next # n
      BY <2>6, <2>7 DEF HeapOK, HeadersOK, NULL
    <3>4. ASSUME NEW x \in DOMAIN g, g[x].next # NULL
          PROVE  /\ g[x].next # HEAP_START
                 /\ \/ bg[x] < bg[g[x].next]
                    \/ bg[x] = bg[g[x].next] /\ g[x].next = EndIn(g, x)
      <4>1. CASE x = b
        BY <4>1, <3>1, <3>2, <2>7, <2>8, <2>9
      <4>2. CASE x = n
        <5>1. h[b].next # NULL /\ h[b].next \in DOMAIN h /\ g[x].next = h[b].next
          BY <4>2, <3>4, <2>8 DEF HeapOK, HeadersOK
        <5> QED
          BY <5>1, <4>2, <3>1, <2>9 DEF HeapOK, ListOK
      <4>3. CASE x # b /\ x # n
        <5>1. x \in DOMAIN h /\ g[x] = h[x] /\ h[x].next \in DOMAIN h
          BY <4>3, <3>4, <2>8 DEF HeapOK, HeadersOK
        <5> QED
          BY <5>1, <4>3, <3>4, <3>1, <2>9 DEF HeapOK, ListOK
      <4> QED
        BY <4>1, <4>2, <4>3
    <3>5. ASSUME NEW x \in DOMAIN g, NEW y \in DOMAIN g,
                 g[x].next = g[y].next, g[x].next # NULL
          PROVE  x = y
      <4> DEFINE o(z) == IF z = n THEN b ELSE z
      <4>1. CASE x = b \/ y = b
        BY <4>1, <3>3, <3>5, <2>8
      <4>2. CASE x # b /\ y # b
        <5>1. o(x) \in DOMAIN h /\ o(y) \in DOMAIN h
          BY <2>8
        <5>2. g[x].next = h[o(x)].next /\ g[y].next = h[o(y)].next
          BY <4>2, <2>8
        <5>3. o(x) = o(y)
          BY <3>5, <5>1, <5>2 DEF HeapOK, ListOK
        <5> QED
          BY <5>3, <4>2
      <4> QED
        BY <4>1, <4>2
    <3> QED
      BY <3>1, <3>2, <3>4, <3>5, <2>8 DEF ListOK
  <2>15. TiledOK(g, bg)
    <3>0. /\ bg[n] = bn[b] /\ bg[b] = bn[b] /\ bn[b] \in Nat
          /\ \A x \in DOMAIN h : bg[x] = bn[x] /\ bn[x] \in Nat
      BY <2>7, <2>8 DEF HeapOK, ListOK, Ranks
    <3>1. ASSUME NEW x \in DOMAIN g
          PROVE  \/ EndIn(g, x) \in DOMAIN g /\ bg[x] <= bg[EndIn(g, x)]
                 \/ Aligned(EndIn(g, x))
      <4> DEFINE o == IF x = n THEN b ELSE x
      <4>1. CASE x = b
        BY <4>1, <3>0, <2>8, <2>9
      <4>2. CASE x # b
        <5>1. o \in DOMAIN h /\ EndIn(g, x) = EndIn(h, o) /\ bg[x] = bn[o]
          BY <4>2, <3>0, <2>8, <2>9
        <5>2. \/ EndIn(h, o) \in DOMAIN h /\ bn[o] <= bn[EndIn(h, o)]
              \/ Aligned(EndIn(h, o))
          BY <5>1 DEF HeapOK, TiledOK
        <5> QED
          BY <5>1, <5>2, <3>0, <2>8
      <4> QED
        BY <4>1, <4>2
    <3>2. ASSUME NEW x \in DOMAIN g
          PROVE  Aligned(x) \/ \E a \in DOMAIN g : EndIn(g, a) = x
      <4>1. CASE x = n
        BY <4>1, <2>8, <2>9
      <4>2. CASE x # n /\ ~Aligned(x)
        <5>1. PICK a \in DOMAIN h : EndIn(h, a) = x
          BY <4>2, <2>8 DEF HeapOK, TiledOK
        <5> QED
          BY <5>1, <2>8, <2>9
      <4> QED
        BY <4>1, <4>2
    <3> QED
      BY <3>1, <3>2 DEF TiledOK
  <2>20. LinkedOK(g)
    <3>1. IsFiniteSet(DOMAIN g)
      BY <2>8, FS_AddElement DEF HeapOK, LinkedOK
    <3>2. ASSUME NEW x \in DOMAIN g \ {HEAP_START}
          PROVE  \E a \in DOMAIN g : g[a].next = x
      <4>1. CASE x = n
        BY <4>1, <2>8
      <4>2. CASE x # n
        <5>1. PICK a \in DOMAIN h : h[a].next = x
          BY <4>2, <2>8 DEF HeapOK, LinkedOK
        <5>2. CASE a = b
          BY <5>1, <5>2, <2>8
        <5>3. CASE a # b
          BY <5>1, <5>3, <2>8
        <5> QED
          BY <5>2, <5>3
      <4> QED
        BY <4>1, <4>2
    <3>3. \E x \in DOMAIN g : g[x].next = NULL
      <4>1. PICK a \in DOMAIN h : h[a].next = NULL
        BY DEF HeapOK, LinkedOK
      <4>2. CASE a = b
        BY <4>1, <4>2, <2>8
      <4>3. CASE a # b
        BY <4>1, <4>3, <2>8
      <4> QED
        BY <4>2, <4>3
    <3> QED
      BY <3>1, <3>2, <3>3 DEF LinkedOK
  <2>16. HeapOK(g, bg, pg)
    BY <2>11, <2>12, <2>13, <2>14, <2>15, <2>20 DEF HeapOK
  <2>17. DOMAIN h \subseteq DOMAIN g /\ g[b].is_free = h[b].is_free
    <3>1. g[b].is_free = TRUE
      BY <2>8
    <3> QED
      BY <2>1, <2>8, <3>1
  <2>18. q <= g[b].capacity
    BY <2>2, <2>8
  <2>19. \A x \in DOMAIN g \ DOMAIN h : g[x].is_free = TRUE
    BY <2>8
  <2> QED
    BY <2>8, <2>16, <2>17, <2>18, <2>19 DEF Agree, AllFree
<1> QED
  BY <1>1, <1>2

(* alloc_region: a region in unmapped pages overlaps no block.             *)
LEMMA NewRegion ==
  ASSUME NEW h, NEW bn, NEW pg, pg \subseteq PAGES, FOREIGN \subseteq pg,
         HeapOK(h, bn, pg),
         NEW a \in Nat \ {0}, NEW s \in Nat, s >= HEADER_SIZE + BLOCK_MIN_CAPACITY,
         PagesOf(a, s) \subseteq PAGES \ pg
  PROVE  /\ a \notin DOMAIN h
         /\ \A x \in DOMAIN h : /\ x < a => EndIn(h, x) <= a
                                /\ a < x => a + s <= x
         /\ \A x \in a .. a + s - 1 : PageOf(x) \in PagesOf(a, s) \ FOREIGN
<1> USE LayoutAssumption
<1>1. \A x \in a .. a + s - 1 : PageOf(x) \in PagesOf(a, s) /\ PageOf(x) \notin pg
  BY PagesOfBytes
<1>2. \A x \in DOMAIN h : /\ x \in Nat /\ EndIn(h, x) \in Nat /\ x < EndIn(h, x)
                          /\ \A y \in x .. EndIn(h, x) - 1 : PageOf(y) \in pg
  BY BlockBounds DEF HeapOK, PlacedOK
<1>3. a \in a .. a + s - 1
  OBVIOUS
<1>4. ASSUME NEW x \in DOMAIN h, x < a PROVE EndIn(h, x) <= a
  <2>1. CASE a < EndIn(h, x)
    <3>1. a \in x .. EndIn(h, x) - 1
      BY <1>2, <1>4, <2>1
    <3> QED
      BY <1>1, <1>2, <1>3, <3>1
  <2> QED
    BY <1>2, <2>1
<1>5. ASSUME NEW x \in DOMAIN h, a < x PROVE a + s <= x
  <2>1. CASE x < a + s
    <3>1. x \in a .. a + s - 1 /\ x \in x .. EndIn(h, x) - 1
      BY <1>2, <1>5, <2>1
    <3> QED
      BY <1>1, <1>2, <3>1
  <2> QED
    BY <1>2, <2>1
<1>6. a \notin DOMAIN h
  <2> SUFFICES ASSUME a \in DOMAIN h PROVE FALSE
    OBVIOUS
  <2>1. a \in a .. EndIn(h, a) - 1
    BY <1>2
  <2> QED
    BY <1>1, <1>2, <1>3, <2>1
<1> QED
  BY <1>1, <1>4, <1>5, <1>6

(* heap_init: the first region is one free block, the first of the list.   *)
LEMMA FirstRegion ==
  ASSUME NEW pg, pg \subseteq PAGES, FOREIGN \subseteq pg,
         NEW s \in Nat, s >= HEADER_SIZE + BLOCK_MIN_CAPACITY, s < WORD,
         PagesOf(HEAP_START, s) \subseteq PAGES \ pg,
         Aligned(HEAP_START), Aligned(HEAP_START + s),
         NEW r, r.addr = HEAP_START, r.size = s,
         NEW h, DOMAIN h = {}, NEW g, g = put_region(h, r),
         NEW bg \in [DOMAIN g -> Nat]
  PROVE  /\ HeapOK(g, bg, pg \cup PagesOf(HEAP_START, s))
         /\ g[HEAP_START].is_free = TRUE
<1> USE LayoutAssumption
<1>1. HEAP_START \in Nat \ {0}
  BY MemAssumption DEF Word
<1>2. capacity_from_size(s) = s - HEADER_SIZE
  BY MinusSmall DEF capacity_from_size
<1>3. /\ DOMAIN g = {HEAP_START}
      /\ g = [x \in DOMAIN g |-> g[x]]
      /\ g[HEAP_START] = [next |-> NULL, capacity |-> s - HEADER_SIZE,
                          is_free |-> TRUE]
  BY <1>2 DEF block_init, put_region
<1>4. EndIn(g, HEAP_START) = HEAP_START + s
  BY <1>1, <1>3 DEF EndIn
<1>5. HeadersOK(g)
  <2>1. s - HEADER_SIZE \in Nat /\ s - HEADER_SIZE >= BLOCK_MIN_CAPACITY
    OBVIOUS
  <2>2. g[HEAP_START].capacity = s - HEADER_SIZE
    BY <1>3
  <2>3. g[HEAP_START] \in [next : DOMAIN g \cup {NULL}, capacity : Nat,
                           is_free : BOOLEAN]
    <3>1. \A c \in Nat : [next |-> NULL, capacity |-> c, is_free |-> TRUE] \in
            [next : DOMAIN g \cup {NULL}, capacity : Nat, is_free : BOOLEAN]
      OBVIOUS
    <3> QED
      BY <1>3, <2>1, <3>1
  <2> QED
    BY <1>1, <1>3, <2>1, <2>2, <2>3 DEF HeadersOK
<1>6. ApartOK(g)
  BY <1>1, <1>3 DEF ApartOK
<1>7. PlacedOK(g, pg \cup PagesOf(HEAP_START, s))
  <2>1. ASSUME NEW x \in HEAP_START .. HEAP_START + s - 1
        PROVE  PageOf(x) \in PagesOf(HEAP_START, s) \ FOREIGN
    BY <1>1, PagesOfBytes
  <2> SUFFICES ASSUME NEW b \in DOMAIN g, NEW x \in b .. EndIn(g, b) - 1
               PROVE  PageOf(x) \in (pg \cup PagesOf(HEAP_START, s)) \ FOREIGN
    BY DEF PlacedOK
  <2>2. b = HEAP_START
    BY <1>3
  <2>3. PageOf(x) \in PagesOf(HEAP_START, s) \ FOREIGN
    <3>1. x \in HEAP_START .. EndIn(g, HEAP_START) - 1
      BY <2>2
    <3>2. x \in HEAP_START .. HEAP_START + s - 1
      BY <3>1, <1>1, <1>4
    <3> QED
      BY <2>1, <3>2
  <2> QED
    BY <2>3
<1>8. ListOK(g, bg)
  BY <1>3 DEF ListOK
<1>9. TiledOK(g, bg)
  BY <1>3, <1>4 DEF TiledOK
<1>10. LinkedOK(g)
  <2>1. IsFiniteSet({HEAP_START})
    BY FS_Singleton, Zenon
  <2> QED
    BY <2>1, <1>3 DEF LinkedOK
<1> QED
  BY <1>3, <1>5, <1>6, <1>7, <1>8, <1>9, <1>10 DEF HeapOK

(* In g, the heap h has one more free block a, of size s, behind last.     *)
Linked(h, g, last, a, s) ==
  /\ a \notin DOMAIN h
  /\ DOMAIN g = DOMAIN h \cup {a}
  /\ g[a].capacity = s - HEADER_SIZE /\ g[a].is_free = TRUE
  /\ g[last].next = a
  /\ g[last].capacity = h[last].capacity
  /\ g[last].is_free = h[last].is_free
  /\ Agree(h, g, DOMAIN h \ {last})

(* grow_heap before it merges: the region becomes a free block, linked     *)
(* behind the last one of the list.                                        *)
LEMMA LinkRegion ==
  ASSUME NEW h, NEW bn, NEW pg, pg \subseteq PAGES, FOREIGN \subseteq pg,
         HeapOK(h, bn, pg),
         NEW last \in DOMAIN h, h[last].next = NULL,
         NEW a \in Nat \ {0}, NEW s \in Nat, s >= HEADER_SIZE + BLOCK_MIN_CAPACITY,
         s < WORD, PagesOf(a, s) \subseteq PAGES \ pg,
         Aligned(a), Aligned(a + s),
         NEW r, r.addr = a, r.size = s, NEW g, g = link_region(h, last, r),
         NEW bg, Ranks(bn, bg, DOMAIN g, bn[last] + 1)
  PROVE  Linked(h, g, last, a, s) /\ HeapOK(g, bg, pg \cup PagesOf(a, s))
<1> USE LayoutAssumption
<1>1. /\ a \notin DOMAIN h
      /\ \A x \in DOMAIN h : (x < a => EndIn(h, x) <= a) /\ (a < x => a + s <= x)
      /\ \A x \in a .. a + s - 1 : PageOf(x) \in PagesOf(a, s) \ FOREIGN
  BY NewRegion
<1>2. capacity_from_size(s) = s - HEADER_SIZE
  BY MinusSmall DEF capacity_from_size
<1>3. /\ DOMAIN g = DOMAIN h \cup {a}
      /\ g = [x \in DOMAIN g |-> g[x]]
      /\ g[a] = [next |-> NULL, capacity |-> s - HEADER_SIZE, is_free |-> TRUE]
      /\ g[last] = [h[last] EXCEPT !.next = a]
      /\ \A x \in DOMAIN h \ {last} : g[x] = h[x]
  BY <1>1, <1>2 DEF block_init, put_region, link_region
<1>4. /\ g[last].next = a
      /\ \A x \in DOMAIN h : /\ x \in Nat \ {0}
                             /\ h[x] \in [next : DOMAIN h \cup {NULL},
                                          capacity : Nat, is_free : BOOLEAN]
                             /\ h[x].capacity >= BLOCK_MIN_CAPACITY
  BY <1>3 DEF HeapOK, HeadersOK
<1>5. \A x \in DOMAIN h : g[x].capacity = h[x].capacity /\ EndIn(g, x) = EndIn(h, x)
  <2>1. g[last].capacity = h[last].capacity
    BY <1>3, <1>4
  <2> QED
    BY <1>3, <2>1 DEF EndIn
<1>6. EndIn(g, a) = a + s
  BY <1>3 DEF EndIn
<1>7. HeadersOK(g)
  <2>1. ASSUME NEW x \in DOMAIN g
        PROVE  /\ x \in Nat \ {0}
               /\ g[x] \in [next : DOMAIN g \cup {NULL}, capacity : Nat,
                            is_free : BOOLEAN]
               /\ g[x].capacity >= BLOCK_MIN_CAPACITY
    <3>1. CASE x = a
      <4>1. s - HEADER_SIZE \in Nat /\ s - HEADER_SIZE >= BLOCK_MIN_CAPACITY
        OBVIOUS
      <4>2. g[a].capacity = s - HEADER_SIZE
        BY <1>3
      <4>3. g[a] \in [next : DOMAIN g \cup {NULL}, capacity : Nat,
                      is_free : BOOLEAN]
        <5>1. \A c \in Nat : [next |-> NULL, capacity |-> c, is_free |-> TRUE] \in
                [next : DOMAIN g \cup {NULL}, capacity : Nat, is_free : BOOLEAN]
          OBVIOUS
        <5> QED
          BY <1>3, <4>1, <5>1
      <4> QED
        BY <3>1, <4>1, <4>2, <4>3
    <3>2. CASE x = last
      BY <3>2, <1>3, <1>4
    <3>3. CASE x # a /\ x # last
      BY <3>3, <1>3, <1>4
    <3> QED
      BY <3>1, <3>2, <3>3
  <2> QED
    BY <1>3, <2>1 DEF HeadersOK
<1>8. PlacedOK(g, pg \cup PagesOf(a, s))
  <2> SUFFICES ASSUME NEW x \in DOMAIN g, NEW y \in x .. EndIn(g, x) - 1
               PROVE  PageOf(y) \in (pg \cup PagesOf(a, s)) \ FOREIGN
    BY DEF PlacedOK
  <2>1. CASE x = a
    BY <2>1, <1>1, <1>6
  <2>2. CASE x # a
    BY <2>2, <1>3, <1>5 DEF HeapOK, PlacedOK
  <2> QED
    BY <2>1, <2>2
<1>9. ApartOK(g)
  <2> SUFFICES ASSUME NEW x \in DOMAIN g, NEW y \in DOMAIN g, x < y
               PROVE  EndIn(g, x) <= y
    BY DEF ApartOK
  <2>1. CASE x = a
    BY <2>1, <1>1, <1>3, <1>6
  <2>2. CASE x # a /\ y = a
    BY <2>2, <1>1, <1>3, <1>5
  <2>3. CASE x # a /\ y # a
    BY <2>3, <1>3, <1>5 DEF HeapOK, ApartOK
  <2> QED
    BY <2>1, <2>2, <2>3
<1>10. ListOK(g, bg)
  <2>1. /\ bg \in [DOMAIN g -> Nat] /\ bg[a] = bn[last] + 1 /\ bn[last] \in Nat
        /\ \A x \in DOMAIN h : bg[x] = bn[x]
    BY <1>1, <1>3 DEF HeapOK, ListOK, Ranks
  <2>2. HEAP_START \in DOMAIN h
    BY DEF HeapOK, ListOK
  <2>3. \A x \in DOMAIN h : h[x].next # a
    BY <1>1, <1>4 DEF NULL
  <2>4. ASSUME NEW x \in DOMAIN g, g[x].next # NULL
        PROVE  /\ g[x].next # HEAP_START
               /\ \/ bg[x] < bg[g[x].next]
                  \/ bg[x] = bg[g[x].next] /\ g[x].next = EndIn(g, x)
    <3>1. x # a
      BY <2>4, <1>3
    <3>2. CASE x = last
      BY <3>2, <2>1, <2>2, <1>1, <1>4
    <3>3. CASE x # last
      <4>1. x \in DOMAIN h /\ g[x] = h[x] /\ h[x].next \in DOMAIN h
        BY <3>1, <3>3, <2>4, <1>3, <1>4
      <4>2. /\ h[x].next # HEAP_START
            /\ \/ bn[x] < bn[h[x].next]
               \/ bn[x] = bn[h[x].next] /\ h[x].next = EndIn(h, x)
        BY <4>1, <2>4 DEF HeapOK, ListOK
      <4> QED
        BY <4>1, <4>2, <2>1, <1>5
    <3> QED
      BY <3>2, <3>3
  <2>5. ASSUME NEW x \in DOMAIN g, NEW y \in DOMAIN g,
               g[x].next = g[y].next, g[x].next # NULL
        PROVE  x = y
    <3>1. x # a /\ y # a
      BY <2>5, <1>3
    <3>2. CASE x = last \/ y = last
      BY <3>1, <3>2, <2>3, <2>5, <1>3, <1>4
    <3>3. CASE x # last /\ y # last
      BY <3>1, <3>3, <2>5, <1>3 DEF HeapOK, ListOK
    <3> QED
      BY <3>2, <3>3
  <2> QED
    BY <2>1, <2>2, <2>4, <2>5, <1>3 DEF ListOK
<1>11. TiledOK(g, bg)
  <2>1. \A x \in DOMAIN h : bg[x] = bn[x]
    BY <1>1, <1>3 DEF HeapOK, ListOK, Ranks
  <2> QED
    BY <2>1, <1>3, <1>5, <1>6 DEF HeapOK, TiledOK
<1>14. LinkedOK(g)
  <2>1. IsFiniteSet(DOMAIN g)
    BY <1>3, FS_AddElement DEF HeapOK, LinkedOK
  <2>2. ASSUME NEW x \in DOMAIN g \ {HEAP_START}
        PROVE  \E y \in DOMAIN g : g[y].next = x
    <3>1. CASE x = a
      BY <3>1, <1>3, <1>4
    <3>2. CASE x # a
      <4>1. PICK y \in DOMAIN h : h[y].next = x
        BY <3>2, <1>3 DEF HeapOK, LinkedOK
      <4>2. y # last
        BY <4>1, <2>2, <1>3, <1>4 DEF NULL
      <4> QED
        BY <4>1, <4>2, <1>3
    <3> QED
      BY <3>1, <3>2
  <2>3. \E x \in DOMAIN g : g[x].next = NULL
    BY <1>3
  <2> QED
    BY <2>1, <2>2, <2>3 DEF LinkedOK
<1>12. HeapOK(g, bg, pg \cup PagesOf(a, s))
  BY <1>7, <1>8, <1>9, <1>10, <1>11, <1>14 DEF HeapOK
<1>13. g[last].capacity = h[last].capacity /\ g[last].is_free = h[last].is_free
  BY <1>3, <1>4
<1> QED
  BY <1>1, <1>3, <1>4, <1>12, <1>13 DEF Agree, Linked

-----------------------------------------------------------------------------
(* The list as a whole.                                                    *)

(* UpTo is a total order of the blocks.                                    *)
LEMMA UpToOrder ==
  ASSUME NEW h, NEW bn, NEW pg, HeapOK(h, bn, pg),
         NEW a \in DOMAIN h, NEW b \in DOMAIN h
  PROVE  /\ UpTo(bn, a, a)
         /\ UpTo(bn, a, b) \/ UpTo(bn, b, a)
         /\ UpTo(bn, a, b) /\ UpTo(bn, b, a) => a = b
         /\ \A c \in DOMAIN h : UpTo(bn, a, b) /\ UpTo(bn, b, c) => UpTo(bn, a, c)
<1>1. \A x \in DOMAIN h : x \in Nat /\ bn[x] \in Nat
  BY DEF HeapOK, HeadersOK, ListOK
<1> QED
  BY <1>1 DEF UpTo

(* A `next` is a block further up.                                         *)
LEMMA NextUp ==
  ASSUME NEW h, NEW bn, NEW pg, pg \subseteq PAGES, HeapOK(h, bn, pg),
         NEW a \in DOMAIN h, NEW n, n = h[a].next, n # NULL
  PROVE  n \in DOMAIN h /\ UpTo(bn, a, n) /\ ~UpTo(bn, n, a)
<1>1. /\ n \in DOMAIN h /\ bn[a] \in Nat /\ bn[n] \in Nat
      /\ bn[a] < bn[n] \/ (bn[a] = bn[n] /\ n = EndIn(h, a))
  BY ListUp
<1>2. a \in Nat /\ n \in Nat /\ EndIn(h, a) \in Nat /\ a < EndIn(h, a)
  BY <1>1, BlockBounds
<1> QED
  BY <1>1, <1>2 DEF UpTo

(* Among any blocks there is a first one.                                  *)
LEMMA FirstBlock ==
  ASSUME NEW h, NEW bn, NEW pg, HeapOK(h, bn, pg),
         NEW S, S \subseteq DOMAIN h, S # {}
  PROVE  \E c \in S : \A x \in S : UpTo(bn, c, x)
<1>1. \A x \in DOMAIN h : x \in Nat /\ bn[x] \in Nat
  BY DEF HeapOK, HeadersOK, ListOK
<1> DEFINE R == {bn[x] : x \in S}
<1>2. PICK r \in R : \A m \in R : r <= m
  <2>1. R \in SUBSET Nat /\ R # {}
    BY <1>1
  <2> HIDE DEF R
  <2> QED
    BY <2>1, LeastElement
<1> DEFINE T == {x \in S : bn[x] = r}
<1>3. PICK c \in T : \A m \in T : c <= m
  <2>1. T \in SUBSET Nat /\ T # {}
    BY <1>1
  <2> HIDE DEF T
  <2> QED
    BY <2>1, LeastElement
<1>4. ASSUME NEW x \in S PROVE UpTo(bn, c, x)
  <2>1. r <= bn[x] /\ r \in Nat /\ bn[x] \in Nat /\ bn[c] = r
    BY <1>1, <1>2, <1>3
  <2>2. CASE bn[x] = r
    BY <1>3, <2>1, <2>2 DEF UpTo
  <2> QED
    BY <2>1, <2>2 DEF UpTo
<1> QED
  BY <1>3, <1>4

(* Every other block is behind HEAP_START, from which the search starts.   *)
LEMMA StartFirst ==
  ASSUME NEW h, NEW bn, NEW pg, pg \subseteq PAGES, HeapOK(h, bn, pg),
         NEW b \in DOMAIN h
  PROVE  HEAP_START \in DOMAIN h /\ UpTo(bn, HEAP_START, b)
<1>1. PICK c \in DOMAIN h : \A x \in DOMAIN h : UpTo(bn, c, x)
  BY FirstBlock
<1>2. c = HEAP_START
  <2> SUFFICES ASSUME c # HEAP_START PROVE FALSE
    OBVIOUS
  <2>1. PICK a \in DOMAIN h : h[a].next = c
    BY DEF HeapOK, LinkedOK
  <2>2. c # NULL
    BY BlockBounds DEF NULL
  <2>3. ~UpTo(bn, c, a)
    BY <2>1, <2>2, NextUp
  <2> QED
    BY <1>1, <2>3
<1> QED
  BY <1>1, <1>2

(* Between a block and its next there is none.  Otherwise, take the first  *)
(* c that is a next with blocks in between, and of these the first, b: the *)
(* block before b in the list is not in between, so b is such a next too.  *)
LEMMA NoneBetween ==
  ASSUME NEW h, NEW bn, NEW pg, pg \subseteq PAGES, HeapOK(h, bn, pg),
         NEW a \in DOMAIN h, NEW n, n = h[a].next, n # NULL, NEW x \in DOMAIN h
  PROVE  UpTo(bn, x, a) \/ UpTo(bn, n, x)
<1> DEFINE In(y, z) == {b \in DOMAIN h : ~UpTo(bn, b, y) /\ ~UpTo(bn, z, b)}
           T == {c \in DOMAIN h : \E y \in DOMAIN h : h[y].next = c /\ In(y, c) # {}}
<1>1. T = {}
  <2> SUFFICES ASSUME T # {} PROVE FALSE
    OBVIOUS
  <2>1. PICK c \in T : \A z \in T : UpTo(bn, c, z)
    <3>1. T \subseteq DOMAIN h
      OBVIOUS
    <3> HIDE DEF T
    <3> QED
      BY <3>1, FirstBlock
  <2>2. PICK y \in DOMAIN h : h[y].next = c /\ In(y, c) # {}
    OBVIOUS
  <2>3. PICK b \in In(y, c) : \A z \in In(y, c) : UpTo(bn, b, z)
    <3> DEFINE I == In(y, c)
    <3>1. I \subseteq DOMAIN h /\ I # {}
      BY <2>2
    <3> HIDE DEF I
    <3>2. \E b \in I : \A z \in I : UpTo(bn, b, z)
      BY <3>1, FirstBlock
    <3> QED
      BY <3>2 DEF I
  <2>4. b \in DOMAIN h /\ ~UpTo(bn, b, y) /\ ~UpTo(bn, c, b) /\ c \in DOMAIN h
    OBVIOUS
  <2> HIDE DEF T
  <2>5. b # HEAP_START
    BY <2>4, StartFirst
  <2>6. PICK p \in DOMAIN h : h[p].next = b
    BY <2>4, <2>5 DEF HeapOK, LinkedOK
  <2>7. UpTo(bn, p, b) /\ ~UpTo(bn, b, p)
    <3>1. b # NULL
      BY <2>4, BlockBounds DEF NULL
    <3> QED
      BY <2>6, <3>1, NextUp
  <2>8. ~UpTo(bn, c, p)
    BY <2>4, <2>7, UpToOrder
  <2>9. UpTo(bn, p, y)
    BY <2>3, <2>7, <2>8
  <2>10. p # y
    BY <2>2, <2>4, <2>6, UpToOrder
  <2>11. ~UpTo(bn, y, p)
    BY <2>9, <2>10, UpToOrder
  <2>12. UpTo(bn, y, b) /\ UpTo(bn, b, c)
    BY <2>4, UpToOrder
  <2>13. ~UpTo(bn, b, y)
    BY <2>4
  <2>14. b \in T
    BY <2>4, <2>6, <2>11, <2>13 DEF T
  <2> QED
    BY <2>1, <2>4, <2>14
<1>2. n \in DOMAIN h
  BY NextUp
<1>3. x \notin In(a, n)
  BY <1>1, <1>2
<1> QED
  BY <1>3

(* Behind the block without a next there is none.                          *)
LEMMA LastBlock ==
  ASSUME NEW h, NEW bn, NEW pg, pg \subseteq PAGES, HeapOK(h, bn, pg),
         NEW a \in DOMAIN h, h[a].next = NULL, NEW x \in DOMAIN h
  PROVE  UpTo(bn, x, a)
<1> DEFINE T == {c \in DOMAIN h : ~UpTo(bn, c, a)}
<1> SUFFICES ASSUME T # {} PROVE FALSE
  OBVIOUS
<1>1. PICK c \in T : \A z \in T : UpTo(bn, c, z)
  <2>1. T \subseteq DOMAIN h
    OBVIOUS
  <2> HIDE DEF T
  <2> QED
    BY <2>1, FirstBlock
<1>2. c \in DOMAIN h /\ ~UpTo(bn, c, a) /\ c # HEAP_START
  BY StartFirst
<1>3. PICK p \in DOMAIN h : h[p].next = c
  BY <1>2 DEF HeapOK, LinkedOK
<1>4. c # NULL
  BY <1>2, BlockBounds DEF NULL
<1>5. UpTo(bn, p, c) /\ ~UpTo(bn, c, p)
  BY <1>2, <1>3, <1>4, NextUp
<1>6. UpTo(bn, p, a)
  BY <1>1, <1>5
<1>7. p # a
  BY <1>3, <1>4
<1>8. UpTo(bn, a, p) \/ UpTo(bn, c, a)
  BY <1>3, <1>4, NoneBetween
<1> QED
  BY <1>2, <1>6, <1>7, <1>8, UpToOrder

-----------------------------------------------------------------------------
(* What the actions do to a heap and to what the client holds.             *)

(* A sound heap stays sound when more pages are mapped.                    *)
LEMMA MorePages ==
  ASSUME NEW h, NEW bn, NEW pg, NEW more, pg \subseteq more, HeapOK(h, bn, pg)
  PROVE  HeapOK(h, bn, more)
BY DEF HeapOK, PlacedOK

(* Where the same blocks are taken, with the same capacities, the client   *)
(* holds the same.                                                         *)
LEMMA SameHeld ==
  ASSUME NEW h, NEW g, NEW lv, HeldOK(h, lv),
         \A x \in DOMAIN h : ~h[x].is_free =>
           x \in DOMAIN g /\ ~g[x].is_free /\ g[x].capacity = h[x].capacity,
         \A x \in DOMAIN g : ~g[x].is_free => x \in DOMAIN h /\ ~h[x].is_free
  PROVE  HeldOK(g, lv)
<1>1. {c \in DOMAIN h : ~h[c].is_free} = {c \in DOMAIN g : ~g[c].is_free}
  OBVIOUS
<1>2. \A b \in DOMAIN g : ~g[b].is_free => lv[b + HEADER_SIZE] <= g[b].capacity
  BY DEF HeldOK
<1> QED
  BY <1>1, <1>2 DEF HeldOK

(* The taken blocks among S are in g as they are in h.                     *)
Kept(h, g, S) ==
  \A x \in S : ~h[x].is_free => /\ x \in DOMAIN g /\ ~g[x].is_free
                                /\ g[x].capacity = h[x].capacity

(* Block b is new to the client, who gets its contents for what it asked.  *)
Handed(b) ==
  /\ contents(b) = b + HEADER_SIZE /\ b + HEADER_SIZE \notin DOMAIN live
  /\ live' = Given(live, b, query)

(* Block b of g is new to a client who holds lv; whatever was taken in h   *)
(* still is.                                                               *)
Taken(h, g, lv, b) ==
  /\ b \in DOMAIN g /\ Kept(h, g, DOMAIN h)
  /\ contents(b) = b + HEADER_SIZE /\ b + HEADER_SIZE \notin DOMAIN lv

(* Cutting a request from a free block that is big enough and taking it.   *)
LEMMA TakeBlock ==
  ASSUME NEW h, NEW bn, NEW pg, pg \subseteq PAGES, HeapOK(h, bn, pg),
         NEW lv, HeldOK(h, lv),
         NEW b \in DOMAIN h, h[b].is_free = TRUE,
         NEW q \in QUERIES, q <= h[b].capacity,
         NEW g, g = cut(h, b, q), NEW lg, lg = Given(lv, b, q),
         NEW bg, Ranks(bn, bg, DOMAIN g, bn[b])
  PROVE  HeapOK(g, bg, pg) /\ HeldOK(g, lg) /\ Taken(h, g, lv, b)
<1> DEFINE s == split_if_too_big(h, b, q)
<1>0. Ranks(bn, bg, DOMAIN s, bn[b])
  <2>1. DOMAIN g = DOMAIN s
    BY DEF cut
  <2> QED
    BY <2>1
<1>1. /\ DOMAIN h \subseteq DOMAIN s
      /\ q <= s[b].capacity
      /\ \A x \in DOMAIN h \ {b} : s[x] = h[x]
      /\ \A x \in DOMAIN s \ DOMAIN h : s[x].is_free = TRUE
      /\ HeapOK(s, bg, pg)
  <2>1. s = split_if_too_big(h, b, q)
    OBVIOUS
  <2> HIDE DEF s
  <2>2. /\ DOMAIN h \subseteq DOMAIN s
        /\ q <= s[b].capacity
        /\ Agree(h, s, DOMAIN h \ {b})
        /\ AllFree(s, DOMAIN s \ DOMAIN h)
        /\ HeapOK(s, bg, pg)
    BY <1>0, <2>1, SplitBlock
  <2> QED
    BY <2>2 DEF Agree, AllFree
<1> HIDE DEF s
<1>2. /\ HeapOK(g, bg, pg)
      /\ DOMAIN g = DOMAIN s
      /\ g[b] = [s[b] EXCEPT !.is_free = FALSE]
      /\ \A x \in DOMAIN s \ {b} : g[x] = s[x]
  <2>1. g = [s EXCEPT ![b].is_free = FALSE]
    BY DEF s, cut
  <2>2. b \in DOMAIN s
    BY <1>1
  <2>3. HeapOK(s, bg, pg)
    BY <1>1
  <2>4. /\ HeapOK(g, bg, pg)
        /\ DOMAIN g = DOMAIN s
        /\ g[b] = [s[b] EXCEPT !.is_free = FALSE]
        /\ Agree(s, g, DOMAIN s \ {b})
    BY <2>1, <2>2, <2>3, MarkBlock
  <2> QED
    BY <2>4 DEF Agree
<1>3. /\ s[b] \in [next : DOMAIN s \cup {NULL}, capacity : Nat, is_free : BOOLEAN]
      /\ contents(b) = b + HEADER_SIZE
      /\ \A x \in DOMAIN g : x \in Nat
  BY <1>1, <1>2, BlockBounds DEF HeapOK, HeadersOK
<1>4. g[b].is_free = FALSE /\ g[b].capacity = s[b].capacity
  BY <1>2, <1>3
<1>5. {c \in DOMAIN g : ~g[c].is_free} = {c \in DOMAIN h : ~h[c].is_free} \cup {b}
  <2>1. b \in DOMAIN g
    BY <1>1, <1>2
  <2>2. \A c \in DOMAIN g : c # b => (~g[c].is_free <=> c \in DOMAIN h /\ ~h[c].is_free)
    BY <1>1, <1>2
  <2> QED
    BY <2>1, <2>2, <1>1, <1>2, <1>4
<1>6. DOMAIN lg = {c + HEADER_SIZE : c \in {d \in DOMAIN g : ~g[d].is_free}}
  BY <1>3, <1>5 DEF HeldOK, Given
<1>7. lg \in [DOMAIN lg -> QUERIES]
  BY DEF HeldOK, Given
<1>8. ASSUME NEW c \in DOMAIN g, ~g[c].is_free
      PROVE  lg[c + HEADER_SIZE] <= g[c].capacity
  <2>1. CASE c = b
    BY <2>1, <1>1, <1>3, <1>4 DEF Given
  <2>2. CASE c # b
    <3>1. c \in DOMAIN h /\ ~h[c].is_free /\ g[c] = h[c]
      BY <2>2, <1>1, <1>2, <1>8
    <3>2. c + HEADER_SIZE # contents(b)
      BY <2>2, <1>1, <1>2, <1>3, LayoutAssumption
    <3>3. lg[c + HEADER_SIZE] = lv[c + HEADER_SIZE]
      BY <3>1, <3>2 DEF HeldOK, Given
    <3> QED
      BY <3>1, <3>3 DEF HeldOK
  <2> QED
    BY <2>1, <2>2
<1>9. HeldOK(g, lg)
  BY <1>6, <1>7, <1>8 DEF HeldOK
<1>10. b \in DOMAIN g /\ Kept(h, g, DOMAIN h)
  BY <1>1, <1>2 DEF Kept
<1>11. b + HEADER_SIZE \notin DOMAIN lv
  <2>1. \A c \in DOMAIN h : c + HEADER_SIZE = b + HEADER_SIZE => c = b
    BY <1>1, <1>2, <1>3, LayoutAssumption
  <2> QED
    BY <2>1 DEF HeldOK
<1> QED
  BY <1>2, <1>3, <1>9, <1>10, <1>11 DEF Taken

-----------------------------------------------------------------------------
(* The actions.                                                            *)

(* Between calls no search has passed anything.                            *)
LEMMA NoneSearching ==
  ASSUME pc' = "idle"
  PROVE  PassedOK'
BY DEF PassedOK

(* heap_init: the first region at HEAP_START starts the list; any other    *)
(* adds pages and changes no block.                                        *)
LEMMA HeapInitStep ==
  ASSUME IInv, NEW q \in QUERIES, heap_init(q)
  PROVE  IInv' /\ Kept(heap, heap', DOMAIN heap)
<1>1. PICK r \in alloc_region(HEAP_START, q) :
        /\ ~region_is_invalid(r)
        /\ pages' = pages \cup PagesOf(r.addr, r.size)
        /\ heap' = IF r.addr = HEAP_START THEN put_region(heap, r) ELSE heap
  BY DEF heap_init
<1>2. /\ r.addr \in Nat \ {0}
      /\ r.size \in Nat /\ r.size < WORD
      /\ r.size >= HEADER_SIZE + BLOCK_MIN_CAPACITY
      /\ PagesOf(r.addr, r.size) \subseteq PAGES \ pages
      /\ Aligned(r.addr) /\ Aligned(r.addr + r.size)
  BY <1>1, AllocRegion, RegionSize, MemAssumption DEF Word
<1>3. pages \subseteq PAGES /\ FOREIGN \subseteq pages /\ PagesOK'
  BY <1>1, <1>2 DEF IInv, PagesOK
<1>4. pc = "idle" /\ UNCHANGED <<live, locals>> /\ born' = Born(heap', 0)
  BY DEF heap_init
<1>5. CASE r.addr = HEAP_START
  <2>1. HEAP_START \notin DOMAIN heap
    BY <1>2, <1>3, <1>5, NewRegion DEF IInv
  <2>2. DOMAIN heap = {}
    BY <2>1 DEF IInv, HeapOK, ListOK
  <2>3. heap' = put_region(heap, r) /\ DOMAIN heap' = {HEAP_START}
    BY <1>1, <1>5, <2>2 DEF put_region
  <2>4. born' \in [DOMAIN heap' -> Nat]
    BY <1>4, <2>2 DEF Born, IInv, HeapOK, ListOK
  <2>5. /\ HeapOK(heap', born', pages')
        /\ heap'[HEAP_START].is_free = TRUE
    <3> DEFINE z == r.size
    <3>1. /\ z \in Nat /\ z < WORD /\ z >= HEADER_SIZE + BLOCK_MIN_CAPACITY
          /\ PagesOf(HEAP_START, z) \subseteq PAGES \ pages
          /\ pages' = pages \cup PagesOf(HEAP_START, z)
          /\ r.addr = HEAP_START /\ r.size = z
          /\ Aligned(HEAP_START) /\ Aligned(HEAP_START + z)
      BY <1>1, <1>2, <1>5
    <3> HIDE DEF z
    <3> QED
      BY <1>3, <2>2, <2>3, <2>4, <3>1, FirstRegion
  <2>6. HeldOK(heap', live')
    <3>1. DOMAIN live = {} /\ live \in [DOMAIN live -> QUERIES]
      BY <2>2 DEF IInv, HeldOK
    <3>2. \A x \in DOMAIN heap' : heap'[x].is_free
      BY <2>3, <2>5
    <3> QED
      BY <1>4, <3>1, <3>2 DEF HeldOK
  <2>7. CursorOK' /\ pc' = "idle"
    BY <1>4 DEF IInv, CursorOK, locals
  <2> QED
    BY <1>3, <2>2, <2>4, <2>5, <2>6, <2>7, NoneSearching DEF IInv, Kept
<1>6. CASE r.addr # HEAP_START
  <2>1. heap' = heap
    BY <1>1, <1>6
  <2>2. born' = born
    BY <1>4, <2>1 DEF Born, IInv, HeapOK, ListOK
  <2>3. HeapOK(heap', born', pages')
    BY <1>1, <2>1, <2>2, MorePages DEF IInv
  <2>4. CursorOK' /\ pc' = "idle"
    BY <1>4 DEF IInv, CursorOK, locals
  <2> QED
    BY <1>3, <1>4, <2>1, <2>3, <2>4, NoneSearching DEF IInv, Kept
<1> QED
  BY <1>5, <1>6

(* malloc puts the cursor on the first block.                              *)
LEMMA MallocStep ==
  ASSUME IInv, NEW q \in QUERIES, malloc(q)
  PROVE  IInv'
<1>1. /\ PagesOK' /\ HeapOK(heap, born, pages)' /\ HeldOK(heap, live)'
      /\ pc' \in {"idle", "search", "grow", "fault"}
  BY DEF IInv, malloc, PagesOK
<1>2. CursorOK'
  BY DEF malloc, CursorOK
<1>3. PassedOK'
  <2> SUFFICES ASSUME pc' = "search", NEW b \in DOMAIN heap
               PROVE  UpTo(born, HEAP_START, b) /\ HEAP_START # NULL
    BY DEF malloc, PassedOK
  <2>1. HeapOK(heap, born, pages) /\ pages \subseteq PAGES
    BY DEF IInv, PagesOK
  <2> QED
    BY <2>1, StartFirst, MemAssumption DEF NULL
<1> QED
  BY <1>1, <1>2, <1>3 DEF IInv

(* In the loop, the cursor is on a block or past the last one.             *)
LEMMA CursorOnBlock ==
  ASSUME IInv, pc = "search", block # NULL
  PROVE  block \in DOMAIN heap
BY DEF IInv, CursorOK, HeapOK, HeadersOK

(* find_merge: the block that is swallowed is not the one behind the       *)
(* cursor, because the list goes up.                                       *)
LEMMA FindMergeStep ==
  ASSUME IInv, find_merge
  PROVE  IInv' /\ Kept(heap, heap', DOMAIN heap)
<1> DEFINE n == heap[block].next
<1>1. /\ pc = "search" /\ block \in DOMAIN heap /\ can_merge(heap, block)
      /\ heap' = try_merge_with_next(heap, block)
      /\ born' = Born(heap', 0)
      /\ UNCHANGED <<pages, live, pc, query, block, prev>>
  BY CursorOnBlock DEF find_merge, locals
<1>2. HeapOK(heap, born, pages) /\ pages \subseteq PAGES
  BY DEF IInv, PagesOK
<1>3. /\ n \in DOMAIN heap /\ n # block /\ n # HEAP_START
      /\ heap[block].is_free /\ heap[n].is_free
      /\ DOMAIN heap' = DOMAIN heap \ {n}
      /\ heap'[block].is_free = TRUE
      /\ \A x \in DOMAIN heap \ {n, block} : heap'[x] = heap[x]
      /\ HeapOK(heap', born', pages)
  <2>1. Ranks(born, born', DOMAIN heap', 0)
    BY <1>1, <1>2 DEF Born, try_merge_with_next, HeapOK, ListOK, Ranks
  <2> HIDE DEF n
  <2>2. n = heap[block].next
    BY DEF n
  <2>3. Joined(heap, heap', block, n) /\ HeapOK(heap', born', pages)
    <3>1. /\ block \in DOMAIN heap /\ can_merge(heap, block)
          /\ heap' = try_merge_with_next(heap, block)
      BY <1>1
    <3>2. /\ HeapOK(heap, born, pages) /\ pages \subseteq PAGES
      BY <1>2
    <3> QED
      BY <2>1, <2>2, <3>1, <3>2, MergeBlocks
  <2> QED
    BY <2>3 DEF Agree, Joined
<1>5. HeldOK(heap', live)
  BY <1>3, SameHeld DEF IInv
<1>6. prev # n
  <2> SUFFICES ASSUME prev = n PROVE FALSE
    OBVIOUS
  <2>1. n # NULL
    BY <1>1 DEF can_merge
  <2>2. prev \in DOMAIN heap /\ block = heap[prev].next
    BY <1>1, <2>1 DEF IInv, CursorOK
  <2>3. /\ born[block] \in Nat /\ born[n] \in Nat
        /\ block \in Nat /\ n \in Nat /\ block # NULL
        /\ block < EndIn(heap, block) /\ n < EndIn(heap, n)
    <3>1. born[block] \in Nat /\ born[n] \in Nat
      BY <1>1, <1>2, <1>3 DEF HeapOK, ListOK
    <3>2. /\ block \in Nat \ {0} /\ block < EndIn(heap, block)
          /\ n \in Nat /\ n < EndIn(heap, n)
      BY <1>1, <1>2, <1>3, BlockBounds
    <3> QED
      BY <3>1, <3>2 DEF NULL
  <2>4. born[n] < born[block] \/ (born[n] = born[block] /\ block = EndIn(heap, n))
    <3>1. block = heap[n].next /\ block # NULL
      BY <2>2, <2>3
    <3> HIDE DEF n
    <3> QED
      BY <1>2, <1>3, <3>1, ListUp
  <2>5. born[block] < born[n] \/ (born[block] = born[n] /\ n = EndIn(heap, block))
    <3>1. n = heap[block].next
      OBVIOUS
    <3> HIDE DEF n
    <3> QED
      BY <1>1, <1>2, <2>1, <3>1, ListUp
  <2> QED
    BY <2>3, <2>4, <2>5
<1>7. CursorOK'
  <2>1. CASE prev = NULL
    BY <2>1, <1>1, <1>3 DEF IInv, CursorOK
  <2>2. CASE prev # NULL
    <3>1. prev \in DOMAIN heap /\ block = heap[prev].next
      BY <2>2, <1>1 DEF IInv, CursorOK
    <3>2. prev # block
      BY <3>1, <1>1, <1>2, BlockBounds DEF HeapOK, ListOK, NULL
    <3> QED
      BY <2>2, <3>1, <3>2, <1>1, <1>3, <1>6 DEF IInv, CursorOK
  <2> QED
    BY <2>1, <2>2
<1>8. Kept(heap, heap', DOMAIN heap)
  BY <1>3 DEF Kept
(* What has been passed keeps its header, and so does its next, or that is *)
(* the block itself, free before and after.                                *)
<1>9. PassedOK'
  <2>1. /\ UpTo(born, block, block) /\ UpTo(born, block, n)
        /\ n # NULL /\ block # NULL
    <3>1. n # NULL
      BY <1>1 DEF can_merge
    <3>2. n = heap[block].next
      OBVIOUS
    <3> HIDE DEF n
    <3>3. UpTo(born, block, n)
      BY <1>1, <1>2, <3>1, <3>2, NextUp
    <3>4. UpTo(born, block, block)
      BY <1>1, <1>2, UpToOrder
    <3> QED
      BY <1>1, <3>1, <3>3, <3>4 DEF find_merge
  <2>2. \A b \in DOMAIN heap' : born'[b] = born[b]
    BY <1>1, <1>2, <1>3 DEF Born, HeapOK, ListOK
  <2> SUFFICES ASSUME NEW b \in DOMAIN heap', ~UpTo(born, block, b)
               PROVE  ~(good(b))' /\ ~can_merge(heap', b)
    BY <1>1, <1>3, <2>1, <2>2 DEF PassedOK, UpTo
  <2>3. b \in DOMAIN heap /\ b # block /\ heap'[b] = heap[b]
    BY <1>3, <2>1
  <2>4. ~good(b) /\ ~can_merge(heap, b)
    BY <1>1, <2>3 DEF IInv, PassedOK
  <2>5. ~(good(b))'
    BY <1>1, <2>3, <2>4 DEF good
  <2>6. ~can_merge(heap', b)
    <3> DEFINE m == heap[b].next
    <3> SUFFICES ASSUME m # NULL PROVE ~mergeable(heap', b, m)
      BY <2>3 DEF can_merge
    <3>1. m \in DOMAIN heap /\ m # n
      BY <1>1, <1>2, <2>3 DEF HeapOK, HeadersOK, ListOK
    <3>2. heap'[m].is_free = heap[m].is_free
      <4>1. heap[block].is_free = TRUE
        BY <1>1, <1>2, <1>3 DEF HeapOK, HeadersOK
      <4> QED
        BY <1>3, <3>1, <4>1
    <3> QED
      BY <2>3, <2>4, <3>2 DEF can_merge, mergeable, blocks_continuous, block_after
  <2> QED
    BY <2>5, <2>6
<1> QED
  BY <1>1, <1>3, <1>5, <1>7, <1>8, <1>9 DEF IInv, PagesOK

(* find_good: the block is cut and handed out.                             *)
LEMMA FindGoodStep ==
  ASSUME IInv, find_good
  PROVE  /\ IInv' /\ Kept(heap, heap', DOMAIN heap)
         /\ \E b \in DOMAIN heap' : Handed(b)
<1>1. /\ pc = "search" /\ block \in DOMAIN heap /\ good(block)
      /\ take(heap, block)
      /\ born' = Born(heap', born[block])
      /\ pages' = pages
  BY CursorOnBlock DEF find_good
<1>2. HeapOK(heap, born, pages) /\ pages \subseteq PAGES /\ HeldOK(heap, live)
  BY DEF IInv, PagesOK
<1>3. /\ query \in QUERIES /\ query \in Nat
      /\ heap[block].capacity \in Nat /\ heap[block].is_free = TRUE
      /\ query <= heap[block].capacity
  BY <1>1, <1>2, QuerySmall DEF IInv, CursorOK, good, block_is_big_enough,
     HeapOK, HeadersOK
<1>4. Ranks(born, born', DOMAIN heap', born[block])
  BY <1>1, <1>2 DEF Born, HeapOK, ListOK, Ranks
<1>5. /\ HeapOK(heap', born', pages') /\ HeldOK(heap', live')
      /\ Kept(heap, heap', DOMAIN heap)
      /\ block \in DOMAIN heap' /\ Handed(block)
  <2>1. heap' = cut(heap, block, query) /\ live' = Given(live, block, query)
    BY <1>1 DEF take
  <2>2. heap[block].is_free = TRUE
    BY <1>3
  <2>3. /\ HeapOK(heap', born', pages) /\ HeldOK(heap', live')
        /\ Taken(heap, heap', live, block)
    BY <1>1, <1>2, <1>3, <1>4, <2>1, TakeBlock
  <2> QED
    BY <1>1, <2>1, <2>3 DEF Handed, Taken
<1>6. CursorOK' /\ pc' = "idle" /\ PagesOK'
  BY <1>1 DEF take, Return, CursorOK, IInv, PagesOK
<1> QED
  BY <1>5, <1>6, NoneSearching DEF IInv

(* find_next moves the cursor along the list.                              *)
LEMMA FindNextStep ==
  ASSUME IInv, find_next
  PROVE  IInv'
<1>1. block \in DOMAIN heap
  BY CursorOnBlock DEF find_next
<1>2. block # NULL
  BY DEF find_next
<1>3. CursorOK'
  BY <1>1, <1>2 DEF find_next, IInv, CursorOK
<1>4. PassedOK'
  <2> DEFINE n == heap[block].next
  <2>1. /\ HeapOK(heap, born, pages) /\ pages \subseteq PAGES /\ n = heap[block].next
        /\ heap' = heap /\ born' = born /\ query' = query /\ block' = n
        /\ ~good(block) /\ ~can_merge(heap, block)
    BY DEF IInv, PagesOK, find_next
  <2> HIDE DEF n
  <2> SUFFICES ASSUME NEW b \in DOMAIN heap, n = NULL \/ ~UpTo(born, n, b)
               PROVE  ~good(b) /\ ~can_merge(heap, b)
    BY <2>1 DEF PassedOK, good
  <2>2. UpTo(born, b, block)
    BY <1>1, <2>1, NoneBetween, LastBlock
  <2>3. b = block \/ ~UpTo(born, block, b)
    BY <1>1, <2>1, <2>2, UpToOrder
  <2> QED
    BY <1>2, <2>1, <2>3 DEF IInv, PassedOK, find_next
<1> QED
  BY <1>3, <1>4 DEF find_next, IInv, PagesOK

(* find_end leaves the search with prev on the last block: HEAP_START is   *)
(* not NULL, so the loop ran at least once.                                *)
LEMMA FindEndStep ==
  ASSUME IInv, find_end
  PROVE  IInv'
<1>1. HEAP_START # NULL
  BY MemAssumption DEF NULL
<1>2. CursorOK' /\ pc' = "grow"
  BY <1>1 DEF find_end, IInv, CursorOK
<1>3. PassedOK'
  BY DEF find_end, IInv, PassedOK, good
<1> QED
  BY <1>2, <1>3 DEF find_end, IInv, PagesOK

(* grow: the region is linked, perhaps merged into the last block, and the *)
(* request is cut from it: it was made large enough.                       *)
LEMMA GrowStep ==
  ASSUME IInv, grow
  PROVE  /\ IInv' /\ Kept(heap, heap', DOMAIN heap)
         /\ \E b \in DOMAIN heap' : Handed(b)
<1>1. PICK r \in alloc_region(block_after(heap, prev), query) :
        /\ ~region_is_invalid(r)
        /\ take(grow_heap(heap, prev, r).heap, grow_heap(heap, prev, r).block)
        /\ born' = Born(heap', IF grow_heap(heap, prev, r).block = prev
                                THEN born[prev] ELSE born[prev] + 1)
        /\ pages' = pages \cup PagesOf(r.addr, r.size)
  BY DEF grow
<1> DEFINE a == r.addr
           z == r.size
           linked == link_region(heap, prev, r)
           ranks == [x \in DOMAIN linked |->
                       IF x \in DOMAIN born THEN born[x] ELSE born[prev] + 1]
<1>2. /\ query \in QUERIES /\ query \in Nat
      /\ prev \in DOMAIN heap /\ heap[prev].next = NULL
      /\ pages \subseteq PAGES /\ FOREIGN \subseteq pages
      /\ HeapOK(heap, born, pages) /\ HeldOK(heap, live)
  BY QuerySmall DEF grow, IInv, CursorOK, PagesOK
<1>3. /\ heap[prev].capacity \in Nat /\ born[prev] \in Nat
      /\ block_after(heap, prev) \in Nat
      /\ born \in [DOMAIN heap -> Nat]
  BY <1>2, BlockBounds DEF HeapOK, ListOK
<1>4. /\ a \in Nat \ {0} /\ z \in Nat /\ z < WORD
      /\ z >= HEADER_SIZE + BLOCK_MIN_CAPACITY /\ z >= query + HEADER_SIZE
      /\ PagesOf(a, z) \subseteq PAGES \ pages
      /\ Aligned(a) /\ Aligned(a + z)
  BY <1>1, <1>2, <1>3, AllocRegion, RegionSize
<1>5. pages' \subseteq PAGES /\ PagesOK' /\ pages' = pages \cup PagesOf(a, z)
  BY <1>1, <1>2, <1>4 DEF PagesOK
<1>6. Linked(heap, linked, prev, a, z) /\ HeapOK(linked, ranks, pages')
  <2>1. Ranks(born, ranks, DOMAIN linked, born[prev] + 1)
    BY <1>3 DEF Ranks
  <2>2. r.addr = a /\ r.size = z /\ linked = link_region(heap, prev, r)
    OBVIOUS
  <2> HIDE DEF a, z, linked, ranks
  <2> QED
    BY <1>2, <1>4, <1>5, <2>1, <2>2, LinkRegion
<1>7. HeldOK(linked, live) /\ Kept(heap, linked, DOMAIN heap)
  <2> HIDE DEF a, z, linked
  <2>1. \A x \in DOMAIN heap : /\ x \in DOMAIN linked
                               /\ linked[x].capacity = heap[x].capacity
                               /\ linked[x].is_free = heap[x].is_free
    BY <1>6 DEF Linked, Agree
  <2>2. \A x \in DOMAIN linked : ~linked[x].is_free =>
          x \in DOMAIN heap /\ ~heap[x].is_free
    BY <1>6, <2>1 DEF Linked
  <2> QED
    BY <1>2, <2>1, <2>2, SameHeld DEF Kept
<1>8. /\ HeapOK(heap', born', pages') /\ HeldOK(heap', live')
      /\ Kept(heap, heap', DOMAIN heap)
      /\ \E b \in DOMAIN heap' : Handed(b)
  <2>1. CASE r.extends /\ can_merge(linked, prev)
    <3> DEFINE merged == try_merge_with_next(linked, prev)
    <3>1. /\ heap' = cut(merged, prev, query)
          /\ live' = Given(live, prev, query)
          /\ born' = Born(heap', born[prev])
      BY <1>1, <2>1 DEF grow_heap, take
    <3>2. /\ a = linked[prev].next /\ prev \in DOMAIN linked
          /\ DOMAIN linked = DOMAIN heap \cup {a} /\ a \notin DOMAIN heap
      BY <1>2, <1>6 DEF Linked
    <3>3. DOMAIN merged = DOMAIN heap
      BY <2>1, <3>2 DEF try_merge_with_next
    <3>4. Ranks(ranks, born, DOMAIN merged, 0)
      BY <1>3, <3>2, <3>3 DEF Ranks
    <3>5. merged = try_merge_with_next(linked, prev) /\ can_merge(linked, prev)
      BY <2>1
    <3> HIDE DEF a, z, linked, ranks, merged
    <3>6. Joined(linked, merged, prev, a) /\ HeapOK(merged, born, pages')
      BY <1>5, <1>6, <3>2, <3>4, <3>5, MergeBlocks
    <3>7. HeldOK(merged, live) /\ Kept(linked, merged, DOMAIN linked)
      <4>1. \A x \in DOMAIN merged \ {prev} :
              x \in DOMAIN linked /\ merged[x] = linked[x]
        BY <3>6 DEF Joined, Agree
      <4>2. /\ DOMAIN linked = (DOMAIN merged) \cup {a}
            /\ linked[a].is_free /\ linked[prev].is_free /\ merged[prev].is_free
        BY <3>6 DEF Joined
      <4>3. \A x \in DOMAIN linked : ~linked[x].is_free =>
              /\ x \in DOMAIN merged /\ ~merged[x].is_free
              /\ merged[x].capacity = linked[x].capacity
        BY <4>1, <4>2
      <4>4. \A x \in DOMAIN merged : ~merged[x].is_free =>
              x \in DOMAIN linked /\ ~linked[x].is_free
        BY <4>1, <4>2
      <4> QED
        BY <1>7, <4>3, <4>4, SameHeld DEF Kept
    <3>8. query <= merged[prev].capacity
      <4>1. /\ merged[prev].capacity
                 = linked[prev].capacity + HEADER_SIZE + linked[a].capacity
            /\ linked[prev].capacity = heap[prev].capacity
            /\ linked[a].capacity = z - HEADER_SIZE
        BY <1>6, <3>6 DEF Joined, Linked
      <4> QED
        BY <4>1, <1>2, <1>3, <1>4, LayoutAssumption
    <3>9. Ranks(born, born', DOMAIN heap', born[prev])
      BY <1>3, <3>1 DEF Born, Ranks
    <3>10. merged[prev].is_free = TRUE /\ prev \in DOMAIN merged
      BY <1>2, <3>3, <3>6 DEF Joined
    <3> QED
      <4>1. pages' \subseteq PAGES /\ query \in QUERIES
        BY <1>2, <1>5
      <4>2. HeapOK(merged, born, pages')
        BY <3>6
      <4>3. /\ HeapOK(heap', born', pages') /\ HeldOK(heap', live')
            /\ Taken(merged, heap', live, prev)
        BY <4>1, <4>2, <3>1, <3>7, <3>8, <3>9, <3>10, TakeBlock
      <4>4. Kept(heap, heap', DOMAIN heap)
        BY <1>7, <3>7, <4>3 DEF Kept, Taken
      <4> QED
        BY <3>1, <4>3, <4>4 DEF Handed, Taken
  <2>2. CASE ~(r.extends /\ can_merge(linked, prev))
    <3>1. a # prev /\ a \in DOMAIN linked /\ linked[a].is_free = TRUE
      BY <1>2, <1>6 DEF Linked
    <3>2. /\ heap' = cut(linked, a, query)
          /\ live' = Given(live, a, query)
          /\ born' = Born(heap', born[prev] + 1)
      BY <1>1, <2>2, <3>1 DEF grow_heap, take
    <3>3. query <= linked[a].capacity
      BY <1>2, <1>4, <1>6, LayoutAssumption DEF Linked
    <3>4. Ranks(ranks, born', DOMAIN heap', ranks[a])
      <4>1. ranks[a] = born[prev] + 1
        BY <1>3, <1>6, <3>1 DEF Linked
      <4>2. DOMAIN born = DOMAIN heap /\ DOMAIN heap \subseteq DOMAIN linked
        BY <1>3, <1>6 DEF Linked
      <4> QED
        BY <1>3, <3>2, <4>1, <4>2 DEF Born, Ranks
    <3> HIDE DEF a, z, linked, ranks
    <3> QED
      <4>1. pages' \subseteq PAGES /\ query \in QUERIES
        BY <1>2, <1>5
      <4>2. HeapOK(linked, ranks, pages')
        BY <1>6
      <4>3. a \in DOMAIN linked /\ linked[a].is_free = TRUE
        BY <3>1
      <4>4. heap' = cut(linked, a, query) /\ live' = Given(live, a, query)
        BY <3>2
      <4>5. /\ HeapOK(heap', born', pages') /\ HeldOK(heap', live')
            /\ Taken(linked, heap', live, a)
        BY <4>1, <4>2, <4>3, <4>4, <1>7, <3>3, <3>4, TakeBlock
      <4>6. Kept(heap, heap', DOMAIN heap)
        BY <1>7, <4>5 DEF Kept, Taken
      <4> QED
        BY <4>4, <4>5, <4>6 DEF Handed, Taken
  <2> QED
    BY <2>1, <2>2
<1>9. CursorOK' /\ pc' = "idle"
  BY <1>1 DEF take, Return, CursorOK
<1> QED
  BY <1>5, <1>8, <1>9, NoneSearching DEF IInv

(* free: the block becomes free, and takes in the next one if it can.      *)
LEMMA FreeStep ==
  ASSUME IInv, NEW mem \in DOMAIN live, free(mem)
  PROVE  /\ IInv'
         /\ \E b \in DOMAIN heap : /\ mem = b + HEADER_SIZE
                                  /\ Kept(heap, heap', DOMAIN heap \ {b})
<1>1. /\ HeapOK(heap, born, pages) /\ HeldOK(heap, live)
      /\ pages \subseteq PAGES /\ PagesOK'
      /\ pages' = pages /\ pc = "idle" /\ UNCHANGED locals
  BY DEF IInv, PagesOK, free
<1>2. PICK b \in DOMAIN heap : ~heap[b].is_free /\ mem = b + HEADER_SIZE
  BY <1>1 DEF HeldOK
<1> DEFINE marked == [heap EXCEPT ![b].is_free = TRUE]
<1>3. /\ heap' = try_merge_with_next(marked, b)
      /\ born' = Born(heap', 0)
      /\ live' = [p \in DOMAIN live \ {mem} |-> live[p]]
  <2>1. block_get_header(mem) = b
    BY <1>1, <1>2, BlockBounds
  <2> QED
    BY <2>1 DEF free
<1>4. /\ HeapOK(marked, born, pages)
      /\ DOMAIN marked = DOMAIN heap
      /\ marked[b] = [heap[b] EXCEPT !.is_free = TRUE]
      /\ Agree(heap, marked, DOMAIN heap \ {b})
  <2>1. marked = [heap EXCEPT ![b].is_free = TRUE]
    OBVIOUS
  <2> HIDE DEF marked
  <2> QED
    BY <1>1, <1>2, <2>1, MarkBlock
<1>5. HeldOK(marked, live')
  <2> HIDE DEF marked
  <2>1. \A x \in DOMAIN heap : x \in Nat /\ x + HEADER_SIZE \in Nat
    BY <1>1, LayoutAssumption DEF HeapOK, HeadersOK
  <2>2. marked[b].is_free = TRUE
    BY <1>1, <1>2, <1>4 DEF HeapOK, HeadersOK
  <2>3. {c \in DOMAIN marked : ~marked[c].is_free}
          = {c \in DOMAIN heap : ~heap[c].is_free} \ {b}
    BY <1>4, <2>2 DEF Agree
  <2>4. \A x \in DOMAIN heap : x # b => x + HEADER_SIZE # mem
    BY <1>2, <2>1, LayoutAssumption
  <2>5. DOMAIN live' = {c + HEADER_SIZE :
                          c \in {d \in DOMAIN marked : ~marked[d].is_free}}
    BY <1>1, <1>2, <1>3, <2>3, <2>4 DEF HeldOK
  <2>6. live' \in [DOMAIN live' -> QUERIES]
    BY <1>1, <1>3 DEF HeldOK
  <2>7. ASSUME NEW c \in DOMAIN marked, ~marked[c].is_free
        PROVE  live'[c + HEADER_SIZE] <= marked[c].capacity
    <3>1. /\ c \in DOMAIN heap /\ c # b /\ marked[c] = heap[c]
          /\ ~heap[c].is_free
      BY <1>4, <2>2, <2>7 DEF Agree
    <3>2. live'[c + HEADER_SIZE] = live[c + HEADER_SIZE]
      BY <1>1, <1>3, <2>4, <3>1 DEF HeldOK
    <3> QED
      BY <1>1, <3>1, <3>2 DEF HeldOK
  <2> QED
    BY <2>5, <2>6, <2>7 DEF HeldOK
<1>6. /\ HeapOK(heap', born', pages) /\ HeldOK(heap', live')
      /\ Kept(heap, heap', DOMAIN heap \ {b})
  <2>1. CASE can_merge(marked, b)
    <3> DEFINE n == marked[b].next
    <3>1. Ranks(born, born', DOMAIN heap', 0)
      <4>1. DOMAIN heap' \subseteq DOMAIN marked
        BY <1>3 DEF try_merge_with_next
      <4> QED
        BY <1>1, <1>3, <1>4, <4>1 DEF Born, Ranks, HeapOK, ListOK
    <3>2. n = marked[b].next /\ b \in DOMAIN marked
      BY <1>4
    <3> HIDE DEF n, marked
    <3>3. Joined(marked, heap', b, n) /\ HeapOK(heap', born', pages)
      BY <1>1, <1>3, <1>4, <2>1, <3>1, <3>2, MergeBlocks
    <3>4. HeldOK(heap', live') /\ Kept(heap, heap', DOMAIN heap \ {b})
      <4>1. \A x \in DOMAIN heap' \ {b} :
              x \in DOMAIN marked /\ heap'[x] = marked[x]
        BY <3>3 DEF Joined, Agree
      <4>2. /\ DOMAIN marked = (DOMAIN heap') \cup {n}
            /\ marked[n].is_free /\ marked[b].is_free /\ heap'[b].is_free
        BY <3>3 DEF Joined
      <4>3. \A x \in DOMAIN marked : ~marked[x].is_free =>
              /\ x \in DOMAIN heap' /\ ~heap'[x].is_free
              /\ heap'[x].capacity = marked[x].capacity
        BY <4>1, <4>2
      <4>4. \A x \in DOMAIN heap' : ~heap'[x].is_free =>
              x \in DOMAIN marked /\ ~marked[x].is_free
        BY <4>1, <4>2
      <4> QED
        BY <1>4, <1>5, <4>3, <4>4, SameHeld DEF Kept, Agree
    <3> QED
      BY <3>3, <3>4
  <2>2. CASE ~can_merge(marked, b)
    <3>1. heap' = marked
      BY <1>3, <2>2 DEF try_merge_with_next
    <3>2. born' = born
      BY <1>1, <1>3, <1>4, <3>1 DEF Born, HeapOK, ListOK
    <3>3. Kept(heap, heap', DOMAIN heap \ {b})
      BY <1>4, <3>1 DEF Kept, Agree
    <3> QED
      BY <1>4, <1>5, <3>1, <3>2, <3>3
  <2> QED
    BY <2>1, <2>2
<1>7. CursorOK' /\ pc' = "idle"
  BY <1>1 DEF IInv, CursorOK, locals
<1> QED
  BY <1>1, <1>2, <1>6, <1>7, NoneSearching DEF IInv

-----------------------------------------------------------------------------
(* The invariant, and what follows from it.                                *)

(* Every step keeps the invariant.                                         *)
LEMMA EveryStep ==
  ASSUME IInv, [Next]_vars
  PROVE  IInv'
<1>1. ASSUME NEW q \in QUERIES, heap_init(q) PROVE IInv'
  BY <1>1, HeapInitStep
<1>2. ASSUME NEW q \in QUERIES, malloc(q) PROVE IInv'
  BY <1>2, MallocStep
<1>3. CASE find_merge
  BY <1>3, FindMergeStep
<1>4. CASE find_good
  BY <1>4, FindGoodStep
<1>5. CASE find_next
  BY <1>5, FindNextStep
<1>6. CASE find_end
  BY <1>6, FindEndStep
<1>7. CASE grow
  BY <1>7, GrowStep
<1>8. CASE grow_fails
  BY <1>8, NoneSearching DEF grow_fails, Return, IInv, PagesOK, CursorOK
<1>9. ASSUME NEW mem \in DOMAIN live, free(mem) PROVE IInv'
  BY <1>9, FreeStep
<1>10. CASE UNCHANGED vars
  BY <1>10 DEF vars, IInv, PagesOK, CursorOK, PassedOK, good
<1>11. ASSUME NEW q \in QUERIES, heap_init_fails(q) PROVE IInv'
  BY <1>10, <1>11 DEF heap_init_fails
<1> QED
  BY <1>1, <1>2, <1>3, <1>4, <1>5, <1>6, <1>7, <1>8, <1>9, <1>10, <1>11
     DEF Next, Step

(* The allocator's bookkeeping is sound before the first call and after    *)
(* every step of every call of heap_init, _malloc and _free.               *)
THEOREM Invariance == Spec => []IInv
<1>1. Init => IInv
  <2> SUFFICES ASSUME Init PROVE IInv
    OBVIOUS
  <2>1. DOMAIN heap = {} /\ DOMAIN born = {} /\ DOMAIN live = {}
    BY DEF Init
  <2>2. heap = [b \in DOMAIN heap |-> heap[b]] /\ born \in [DOMAIN heap -> Nat]
        /\ live \in [DOMAIN live -> QUERIES]
    BY DEF Init
  <2>3. HeapOK(heap, born, pages)
    BY <2>1, <2>2, FS_EmptySet DEF HeapOK, HeadersOK, PlacedOK, ApartOK, ListOK, TiledOK,
       LinkedOK
  <2>4. HeldOK(heap, live)
    BY <2>1, <2>2 DEF HeldOK
  <2>5. /\ CursorOK /\ PassedOK /\ PagesOK
        /\ pc \in {"idle", "search", "grow", "fault"}
    BY MemAssumption DEF Init, CursorOK, PassedOK, PagesOK
  <2> QED
    BY <2>3, <2>4, <2>5 DEF IInv
<1>2. IInv /\ [Next]_vars => IInv'
  BY EveryStep
<1> QED
  BY <1>1, <1>2, PTL DEF Spec
(* Every variable keeps its type, and no pointer of the list or the search *)
(* dangles to a header that a merge has swallowed.                         *)
THEOREM TypeCorrect == Spec => []TypeOK
<1>1. IInv => TypeOK
  <2> SUFFICES ASSUME IInv PROVE TypeOK
    OBVIOUS
  <2>1. /\ HeapOK(heap, born, pages) /\ HeldOK(heap, live)
        /\ pages \subseteq PAGES /\ FOREIGN \subseteq pages
        /\ pc \in {"idle", "search", "grow", "fault"}
    BY DEF IInv, PagesOK
  <2>2. \A b \in DOMAIN heap : /\ b \in Word /\ heap[b].capacity \in Word
                               /\ b + HEADER_SIZE \in Word
    <3> TAKE b \in DOMAIN heap
    <3>1. /\ b \in Nat /\ heap[b].capacity \in Nat
          /\ EndIn(heap, b) \in Nat /\ EndIn(heap, b) < WORD
      BY <2>1, BlockBounds
    <3> QED
      BY <3>1, LayoutAssumption DEF EndIn, Word
  <2>3. /\ heap = [b \in DOMAIN heap |-> heap[b]]
        /\ \A b \in DOMAIN heap :
             heap[b] \in [next : DOMAIN heap \cup {NULL}, capacity : Nat,
                         is_free : BOOLEAN]
    BY <2>1 DEF HeapOK, HeadersOK
  <2>4. \A b \in DOMAIN heap : /\ heap[b].next \in (DOMAIN heap) \cup {NULL}
                               /\ heap[b] \in Header
    <3> TAKE b \in DOMAIN heap
    <3>1. heap[b].next \in (DOMAIN heap) \cup {NULL}
      BY <2>3
    <3>2. NULL \in Word
      BY LayoutAssumption, MemAssumption DEF NULL, Word
    <3>3. heap[b].next \in Word
      BY <2>2, <3>1, <3>2
    <3> QED
      BY <2>2, <2>3, <3>1, <3>3 DEF Header
  <2>5. DOMAIN heap \subseteq Word /\ heap \in [DOMAIN heap -> Header]
    BY <2>2, <2>3, <2>4
  <2>6. DOMAIN born = DOMAIN heap /\ born \in [DOMAIN heap -> Nat]
    BY <2>1 DEF HeapOK, ListOK
  <2>7. DOMAIN live \subseteq Word /\ live \in [DOMAIN live -> QUERIES]
    BY <2>1, <2>2 DEF HeldOK
  <2>8. /\ query \in QUERIES \cup {0}
        /\ block \in DOMAIN heap \cup {NULL, HEAP_START}
        /\ prev \in DOMAIN heap \cup {NULL}
    BY <2>1, <2>4 DEF IInv, CursorOK
  <2> QED
    BY <2>1, <2>4, <2>5, <2>6, <2>7, <2>8 DEF TypeOK
<1> QED
  BY <1>1, Invariance, PTL

(* However blocks are cut, joined and grown, no two share a byte.          *)
THEOREM Disjoint == Spec => []BlocksDisjoint
<1>1. IInv => BlocksDisjoint
  BY DEF IInv, HeapOK, ApartOK, BlocksDisjoint, EndIn, End
<1> QED
  BY <1>1, Invariance, PTL

(* Every block lies in pages the allocator mapped, whatever pages other    *)
(* code had and wherever the kernel put the regions.                       *)
THEOREM Mapped == Spec => []BlocksMapped
<1>1. IInv => BlocksMapped
  <2> SUFFICES ASSUME IInv, NEW b \in DOMAIN heap, NEW p \in Extent(b)
               PROVE  p \in pages \ FOREIGN
    BY DEF BlocksMapped
  <2> DEFINE len == HEADER_SIZE + heap[b].capacity
  <2>1. HeapOK(heap, born, pages)
    BY DEF IInv
  <2>2. b \in Nat /\ heap[b].capacity \in Nat
    BY <2>1 DEF HeapOK, HeadersOK
  <2>3. len \in Nat \ {0} /\ b + len - 1 = EndIn(heap, b) - 1
    BY <2>2, LayoutAssumption DEF EndIn
  <2>4. p \in PagesOf(b, len)
    BY DEF Extent
  <2> HIDE DEF len
  <2>5. PICK x \in b .. b + len - 1 : PageOf(x) = p
    BY <2>2, <2>3, <2>4, BytesOfPages
  <2>6. x \in b .. EndIn(heap, b) - 1
    BY <2>3
  <2> QED
    BY <2>1, <2>5, <2>6 DEF HeapOK, PlacedOK
<1> QED
  BY <1>1, Invariance, PTL

(* The list never skips a part of a region, whatever the order of frees.   *)
THEOREM Ordered == Spec => []ListFollowsRegions
<1>1. IInv => ListFollowsRegions
  <2> SUFFICES ASSUME IInv, NEW b \in DOMAIN heap, heap[b].next # NULL
               PROVE  \/ /\ born[heap[b].next] = born[b]
                         /\ heap[b].next = block_after(heap, b)
                      \/ born[heap[b].next] > born[b]
    BY DEF ListFollowsRegions
  <2> DEFINE n == heap[b].next
  <2>1. HeapOK(heap, born, pages) /\ pages \subseteq PAGES /\ n = heap[b].next
    BY DEF IInv, PagesOK
  <2>2. n # NULL
    OBVIOUS
  <2> HIDE DEF n
  <2>3. /\ born[b] \in Nat /\ born[n] \in Nat
        /\ born[b] < born[n] \/ (born[b] = born[n] /\ n = EndIn(heap, b))
    BY <2>1, <2>2, ListUp
  <2>4. block_after(heap, b) = EndIn(heap, b)
    BY <2>1, BlockBounds
  <2> QED
    BY <2>1, <2>3, <2>4
<1> QED
  BY <1>1, Invariance, PTL

(* What the client holds is a taken block with room for what it asked for, *)
(* and every other block is free.                                          *)
THEOREM Intact == Spec => []HeldIntact
<1>1. IInv => HeldIntact
  <2> SUFFICES ASSUME IInv PROVE HeldIntact
    OBVIOUS
  <2>1. /\ HeapOK(heap, born, pages) /\ HeldOK(heap, live)
        /\ pages \subseteq PAGES
    BY DEF IInv, PagesOK
  <2>2. \A b \in DOMAIN heap : /\ block_get_header(b + HEADER_SIZE) = b
                               /\ heap[b].capacity \in Nat
                               /\ heap[b].is_free \in BOOLEAN
    <3>1. \A b \in DOMAIN heap : heap[b].is_free \in BOOLEAN
      BY <2>1 DEF HeapOK, HeadersOK
    <3> QED
      BY <2>1, <3>1, BlockBounds
  <2>3. ASSUME NEW p \in DOMAIN live
        PROVE  \E b \in DOMAIN heap : /\ block_get_header(p) = b
                                     /\ ~heap[b].is_free
                                     /\ live[p] <= heap[b].capacity
    <3>1. PICK b \in DOMAIN heap : ~heap[b].is_free /\ p = b + HEADER_SIZE
      BY <2>1 DEF HeldOK
    <3>2. live[b + HEADER_SIZE] <= heap[b].capacity
      BY <2>1, <3>1 DEF HeldOK
    <3>3. block_get_header(b + HEADER_SIZE) = b
      BY <2>2
    <3> QED
      BY <3>1, <3>2, <3>3
  <2>4. \A b \in DOMAIN heap : ~heap[b].is_free => b \in HeldHeaders
    <3> SUFFICES ASSUME NEW b \in DOMAIN heap, ~heap[b].is_free
                 PROVE  b \in HeldHeaders
      OBVIOUS
    <3>1. b + HEADER_SIZE \in DOMAIN live
      BY <2>1 DEF HeldOK
    <3> QED
      BY <2>2, <3>1 DEF HeldHeaders
  <2>5. \A b \in DOMAIN heap : b \in HeldHeaders => ~heap[b].is_free
    BY <2>3 DEF HeldHeaders
  <2>6. \A p \in DOMAIN live : live[p] \in Nat
    BY <2>1, QuerySmall DEF HeldOK
  <2>7. \A p \in DOMAIN live : /\ block_get_header(p) \in DOMAIN heap
                               /\ heap[block_get_header(p)].capacity >= live[p]
    BY <2>2, <2>3, <2>6
  <2> QED
    BY <2>2, <2>4, <2>5, <2>7 DEF HeldIntact
<1> QED
  BY <1>1, Invariance, PTL

(* No cut leaves a block smaller than the least capacity.                  *)
THEOREM LeastCapacity == Spec => []MinCapacity
<1>1. IInv => MinCapacity
  BY DEF IInv, HeapOK, HeadersOK, MinCapacity
<1> QED
  BY <1>1, Invariance, PTL

(* A step that keeps the taken blocks of what stays held.                  *)
LEMMA HeldKept ==
  ASSUME IInv, NEW S, Kept(heap, heap', S),
         \A p \in DOMAIN live \cap DOMAIN live' :
           live'[p] = live[p] /\ \A b \in DOMAIN heap : p = b + HEADER_SIZE => b \in S
  PROVE  BlocksStay
<1> SUFFICES ASSUME NEW p \in DOMAIN live \cap DOMAIN live'
             PROVE  LET b == block_get_header(p)
                    IN  /\ b \in DOMAIN heap'
                        /\ heap'[b].capacity = heap[b].capacity
                        /\ live'[p] = live[p]
  BY DEF BlocksStay
<1>1. HeapOK(heap, born, pages) /\ HeldOK(heap, live) /\ pages \subseteq PAGES
  BY DEF IInv, PagesOK
<1>2. PICK b \in DOMAIN heap : ~heap[b].is_free /\ p = b + HEADER_SIZE
  BY <1>1 DEF HeldOK
<1>3. block_get_header(p) = b
  BY <1>1, <1>2, BlockBounds
<1>4. b \in DOMAIN heap' /\ heap'[b].capacity = heap[b].capacity
  BY <1>2 DEF Kept
<1> QED
  BY <1>3, <1>4

(* Between the blocks of a region there is no gap, and each is at least as *)
(* large as the least block, so that whatever the client gives back can be *)
(* joined to what is around it.                                            *)
THEOREM Tiling == Spec => []NothingLost
<1>1. IInv => NothingLost
  BY DEF IInv, HeapOK, HeadersOK, TiledOK, NothingLost, MinCapacity, Aligned, EndIn, End
<1> QED
  BY <1>1, Invariance, PTL

(* Whatever is merged, cut, grown or freed, a block the client holds stays *)
(* where it is, with the capacity it has.                                  *)
THEOREM HeldStay == Spec => HeldBlocksStay
<1>1. ASSUME IInv, [Next]_vars PROVE [BlocksStay]_vars
  <2>1. ASSUME live' = live, Kept(heap, heap', DOMAIN heap) PROVE BlocksStay
    BY <1>1, <2>1, HeldKept
  <2>2. ASSUME heap' = heap, live' = live PROVE BlocksStay
    BY <2>1, <2>2 DEF Kept
  <2>3. ASSUME NEW b, Handed(b), Kept(heap, heap', DOMAIN heap) PROVE BlocksStay
    <3>1. \A p \in DOMAIN live : live'[p] = live[p]
      BY <2>3 DEF Handed, Given
    <3> QED
      BY <1>1, <2>3, <3>1, HeldKept
  <2>4. ASSUME NEW q \in QUERIES, heap_init(q) PROVE BlocksStay
    BY <1>1, <2>1, <2>4, HeapInitStep DEF heap_init
  <2>5. ASSUME NEW q \in QUERIES, malloc(q) \/ heap_init_fails(q) PROVE BlocksStay
    BY <2>2, <2>5 DEF malloc, heap_init_fails, vars
  <2>6. CASE find_merge
    BY <1>1, <2>1, <2>6, FindMergeStep DEF find_merge
  <2>7. CASE find_good
    BY <1>1, <2>3, <2>7, FindGoodStep
  <2>8. CASE find_next \/ find_end \/ grow_fails
    BY <2>2, <2>8 DEF find_next, find_end, grow_fails
  <2>9. CASE grow
    BY <1>1, <2>3, <2>9, GrowStep
  <2>10. ASSUME NEW mem \in DOMAIN live, free(mem) PROVE BlocksStay
    <3>1. PICK b \in DOMAIN heap : /\ mem = b + HEADER_SIZE
                                   /\ Kept(heap, heap', DOMAIN heap \ {b})
      BY <1>1, <2>10, FreeStep
    <3>2. live' = [p \in DOMAIN live \ {mem} |-> live[p]]
      BY <2>10 DEF free
    <3>3. \A p \in DOMAIN live \cap DOMAIN live' :
            live'[p] = live[p] /\ \A c \in DOMAIN heap : p = c + HEADER_SIZE => c # b
      BY <3>1, <3>2
    <3> QED
      BY <1>1, <3>1, <3>3, HeldKept
  <2>11. CASE UNCHANGED vars
    BY <2>11
  <2> QED
    BY <1>1, <2>4, <2>5, <2>6, <2>7, <2>8, <2>9, <2>10, <2>11 DEF Next, Step
<1>2. IInv /\ [Next]_vars => [BlocksStay]_vars
  BY <1>1
<1> QED
  BY <1>2, Invariance, PTL DEF Spec, HeldBlocksStay

-----------------------------------------------------------------------------
(* What a walk along the list meets.                                       *)

(* The walk of From(b), n steps of it.                                     *)
Walk(w, b, n) ==
  w = [i \in 0 .. n |-> IF i = 0 THEN b
                        ELSE IF w[i - 1] = NULL THEN NULL ELSE heap[w[i - 1]].next]

(* There is one: each step is defined by the one before.                   *)
LEMMA WalkExists ==
  ASSUME NEW b, NEW N \in Nat
  PROVE  \E w : Walk(w, b, N)
<1> DEFINE S == {n \in Nat : \E w : Walk(w, b, n)}
<1>1. 0 \in S
  <2> DEFINE w == [i \in 0 .. 0 |-> b]
  <2>1. Walk(w, b, 0)
    BY DEF Walk
  <2> QED
    BY <2>1
<1>2. ASSUME NEW n \in Nat, n \in S PROVE n + 1 \in S
  <2>1. PICK w : Walk(w, b, n)
    BY <1>2
  <2> DEFINE v == [i \in 0 .. n + 1 |->
                     IF i = 0 THEN b
                     ELSE IF w[i - 1] = NULL THEN NULL ELSE heap[w[i - 1]].next]
  <2>2. \A i \in 0 .. n : v[i] = w[i]
    BY <2>1 DEF Walk
  <2>3. \A i \in 0 .. n + 1 : i # 0 => i - 1 \in 0 .. n
    OBVIOUS
  <2>4. Walk(v, b, n + 1)
    BY <2>2, <2>3 DEF Walk
  <2> HIDE DEF v
  <2>5. \E u : Walk(u, b, n + 1)
    BY <2>4
  <2> QED
    BY <2>5
<1>3. N \in S
  <2> HIDE DEF S
  <2> QED
    BY <1>1, <1>2, EveryNatural
<1> QED
  BY <1>3

(* From(b) is what such a walk meets.                                      *)
LEMMA FromWalk ==
  ASSUME NEW b, IsFiniteSet(DOMAIN heap)
  PROVE  \E w : /\ Walk(w, b, Cardinality(DOMAIN heap))
                /\ From(b) = {w[n] : n \in 0 .. Cardinality(DOMAIN heap)} \ {NULL}
<1> DEFINE N == Cardinality(DOMAIN heap)
           f == CHOOSE w : Walk(w, b, N)
<1>1. N \in Nat
  BY FS_CardinalityType
<1> HIDE DEF N
<1>2. \E w : Walk(w, b, N)
  BY <1>1, WalkExists
<1>3. Walk(f, b, N)
  BY <1>2
<1>4. From(b) = {f[n] : n \in DOMAIN f} \ {NULL}
  BY DEF From, Walk, N
<1>5. DOMAIN f = 0 .. N
  BY <1>3 DEF Walk
<1> QED
  BY <1>3, <1>4, <1>5 DEF N

(* It goes up, without repeating a block, until it is past the last one.   *)
LEMMA WalkUp ==
  ASSUME IInv, NEW b \in DOMAIN heap, NEW N \in Nat, NEW w, Walk(w, b, N),
         NEW n \in 0 .. N, w[n] # NULL
  PROVE  /\ w[n] \in DOMAIN heap /\ UpTo(born, b, w[n])
         /\ \A i \in 0 .. n - 1 : w[i] \in DOMAIN heap /\ w[i] # w[n]
<1> DEFINE Up(k) == /\ w[k] \in DOMAIN heap
                    /\ \A i \in 0 .. k - 1 : /\ w[i] \in DOMAIN heap
                                             /\ UpTo(born, w[i], w[k])
                                             /\ ~UpTo(born, w[k], w[i])
           S == {k \in Nat : k <= N /\ w[k] # NULL => Up(k)}
<1>1. HeapOK(heap, born, pages) /\ pages \subseteq PAGES
  BY DEF IInv, PagesOK
<1>2. 0 \in S
  BY DEF Walk
<1>3. ASSUME NEW k \in Nat, k \in S PROVE k + 1 \in S
  <2> SUFFICES ASSUME k + 1 <= N, w[k + 1] # NULL PROVE Up(k + 1)
    OBVIOUS
  <2>1. k + 1 \in 0 .. N /\ k + 1 # 0 /\ (k + 1) - 1 = k
    OBVIOUS
  <2>2. w[k + 1] = IF w[k] = NULL THEN NULL ELSE heap[w[k]].next
    BY <2>1 DEF Walk
  <2>3. w[k] # NULL /\ w[k + 1] = heap[w[k]].next
    BY <2>2
  <2>4. Up(k)
    BY <1>3, <2>3
  <2>5. /\ w[k + 1] \in DOMAIN heap
        /\ UpTo(born, w[k], w[k + 1]) /\ ~UpTo(born, w[k + 1], w[k])
    BY <1>1, <2>3, <2>4, NextUp
  <2>6. ASSUME NEW i \in 0 .. k
        PROVE  /\ w[i] \in DOMAIN heap /\ UpTo(born, w[i], w[k + 1])
               /\ ~UpTo(born, w[k + 1], w[i])
    <3>1. CASE i = k
      BY <2>4, <2>5, <3>1
    <3>2. CASE i # k
      <4>1. w[i] \in DOMAIN heap /\ UpTo(born, w[i], w[k]) /\ w[k] \in DOMAIN heap
        BY <2>4, <3>2
      <4> QED
        BY <1>1, <2>5, <4>1, UpToOrder
    <3> QED
      BY <3>1, <3>2
  <2> QED
    BY <2>5, <2>6
<1>4. n \in S
  <2> HIDE DEF S
  <2> QED
    BY <1>2, <1>3, EveryNatural
<1>5. Up(n)
  BY <1>4
<1>6. w[0] = b
  BY DEF Walk
<1>7. UpTo(born, b, w[n])
  <2>1. CASE n = 0
    BY <1>1, <1>6, <2>1, UpToOrder
  <2>2. CASE n # 0
    BY <1>5, <1>6, <2>2
  <2> QED
    BY <2>1, <2>2
<1>8. \A i \in 0 .. n - 1 : w[i] # w[n]
  BY <1>1, <1>5, UpToOrder
<1> QED
  BY <1>5, <1>7, <1>8

(* So From(b) is b and what is behind it: all of it, because the walk has  *)
(* as many steps as there are blocks.                                      *)
LEMMA FromIs ==
  ASSUME IInv, NEW b \in DOMAIN heap
  PROVE  From(b) = {c \in DOMAIN heap : UpTo(born, b, c)}
<1> DEFINE N == Cardinality(DOMAIN heap)
<1>1. HeapOK(heap, born, pages) /\ pages \subseteq PAGES /\ IsFiniteSet(DOMAIN heap)
  BY DEF IInv, PagesOK, HeapOK, LinkedOK
<1>2. N \in Nat
  BY <1>1, FS_CardinalityType
<1>3. PICK w : Walk(w, b, N) /\ From(b) = {w[n] : n \in 0 .. N} \ {NULL}
  BY <1>1, FromWalk
<1>4. From(b) \subseteq {c \in DOMAIN heap : UpTo(born, b, c)}
  BY <1>2, <1>3, WalkUp
<1> DEFINE Missed == {c \in DOMAIN heap : UpTo(born, b, c)} \ From(b)
<1>5. Missed = {}
  <2> SUFFICES ASSUME Missed # {} PROVE FALSE
    OBVIOUS
  <2>1. PICK c \in Missed : \A x \in Missed : UpTo(born, c, x)
    <3>1. Missed \subseteq DOMAIN heap
      OBVIOUS
    <3> HIDE DEF Missed
    <3> QED
      BY <1>1, <3>1, FirstBlock
  <2>2. /\ c \in DOMAIN heap /\ UpTo(born, b, c) /\ c \notin From(b) /\ c # NULL
    BY <1>1, <2>1, BlockBounds DEF NULL
  <2>3. c # b
    <3>1. w[0] = b /\ 0 \in 0 .. N
      BY <1>2, <1>3 DEF Walk
    <3> QED
      BY <1>3, <2>2, <3>1
  <2>4. ~UpTo(born, c, b)
    BY <1>1, <2>2, <2>3, UpToOrder
  <2>5. c # HEAP_START
    BY <1>1, <2>4, StartFirst
  <2>6. PICK p \in DOMAIN heap : heap[p].next = c
    BY <1>1, <2>2, <2>5 DEF HeapOK, LinkedOK
  <2>7. ~UpTo(born, c, p) /\ UpTo(born, b, p)
    <3>1. ~UpTo(born, c, p)
      BY <1>1, <2>2, <2>6, NextUp
    <3>2. UpTo(born, b, p) \/ UpTo(born, c, b)
      BY <1>1, <2>2, <2>6, NoneBetween
    <3> QED
      BY <2>4, <3>1, <3>2
  <2>8. p \in From(b)
    BY <2>1, <2>7
  <2>9. PICK n \in 0 .. N : w[n] = p /\ p # NULL
    BY <1>3, <2>8
  <2>10. n < N
    <3> DEFINE f == [i \in 0 .. n |-> w[i]]
    <3>1. \A i \in 0 .. n : w[i] \in DOMAIN heap
      BY <1>2, <1>3, <2>9, WalkUp
    <3>2. f \in [0 .. n -> DOMAIN heap]
      BY <3>1
    <3>3. ASSUME NEW i \in 0 .. n, NEW j \in 0 .. n, i < j PROVE w[i] # w[j]
      <4>1. j \in 0 .. N /\ w[j] # NULL /\ i \in 0 .. j - 1
        <5>1. w[j] # NULL
          BY <1>1, <3>1, BlockBounds DEF NULL
        <5> QED
          BY <1>2, <3>3, <5>1
      <4> QED
        BY <1>2, <1>3, <4>1, WalkUp
    <3>4. \A i, j \in 0 .. n : f[i] = f[j] => i = j
      <4> SUFFICES ASSUME NEW i \in 0 .. n, NEW j \in 0 .. n, w[i] = w[j], i # j
                   PROVE  FALSE
        OBVIOUS
      <4>1. i < j \/ j < i
        OBVIOUS
      <4> QED
        BY <3>3, <4>1
    <3>5. n \in Nat
      OBVIOUS
    <3> HIDE DEF f
    <3> QED
      BY <1>1, <3>2, <3>4, <3>5, ManyValues
  <2>11. n + 1 \in 0 .. N /\ w[n + 1] = c
    <3>1. n + 1 \in 0 .. N /\ n + 1 # 0 /\ (n + 1) - 1 = n
      BY <1>2, <2>10
    <3>2. w[n + 1] = IF w[n] = NULL THEN NULL ELSE heap[w[n]].next
      BY <1>3, <3>1 DEF Walk
    <3> QED
      BY <2>6, <2>9, <3>1, <3>2
  <2> QED
    BY <1>3, <2>2, <2>11
<1> QED
  BY <1>4, <1>5

(* However the heap has been cut, joined and grown, the list from          *)
(* HEAP_START meets every block.                                           *)
THEOREM Complete == Spec => []ListComplete
<1>1. IInv => ListComplete
  <2> SUFFICES ASSUME IInv, DOMAIN heap # {}
               PROVE  /\ From(HEAP_START) = DOMAIN heap
                      /\ \E b \in DOMAIN heap : heap[b].next = NULL
    BY DEF ListComplete
  <2>1. HeapOK(heap, born, pages) /\ pages \subseteq PAGES
    BY DEF IInv, PagesOK
  <2>2. HEAP_START \in DOMAIN heap /\ \A b \in DOMAIN heap : UpTo(born, HEAP_START, b)
    BY <2>1, StartFirst
  <2>3. From(HEAP_START) = DOMAIN heap
    BY <2>2, FromIs
  <2> QED
    BY <2>1, <2>3 DEF HeapOK, LinkedOK
<1> QED
  BY <1>1, Invariance, PTL

(* A search passes over no block it could use, and when it gives up it     *)
(* asks for a region where the last one ends, at a page boundary.          *)
THEOREM Thorough == Spec => []NothingPassedOver
<1>1. IInv => NothingPassedOver
  <2> SUFFICES ASSUME IInv PROVE NothingPassedOver
    OBVIOUS
  <2>1. HeapOK(heap, born, pages) /\ pages \subseteq PAGES
    BY DEF IInv, PagesOK
  <2>2. ASSUME pc \in {"search", "grow"}, NEW b \in DOMAIN heap \ From(block)
        PROVE  ~good(b) /\ ~can_merge(heap, b)
    <3>1. block = NULL \/ block \in DOMAIN heap
      BY <2>1, <2>2 DEF IInv, CursorOK, HeapOK, HeadersOK
    <3>2. block = NULL \/ ~UpTo(born, block, b)
      BY <2>2, <3>1, FromIs
    <3> QED
      BY <2>2, <3>2 DEF IInv, PassedOK
  <2>3. ASSUME pc = "grow"
        PROVE  /\ prev \in DOMAIN heap /\ heap[prev].next = NULL
               /\ block_after(heap, prev) % PAGE_SIZE = 0
    <3>1. prev \in DOMAIN heap /\ heap[prev].next = NULL
      BY <2>3 DEF IInv, CursorOK
    <3> DEFINE e == EndIn(heap, prev)
    <3>2. /\ block_after(heap, prev) = e /\ prev < e /\ prev \in Nat /\ e \in Nat
      BY <2>1, <3>1, BlockBounds
    <3>3. (e \in DOMAIN heap /\ born[prev] <= born[e]) \/ Aligned(e)
      BY <2>1, <3>1 DEF HeapOK, TiledOK
    <3> HIDE DEF e
    <3>4. ASSUME e \in DOMAIN heap, born[prev] <= born[e] PROVE FALSE
      <4>1. UpTo(born, e, prev)
        BY <2>1, <3>1, <3>4, LastBlock
      <4>2. born[e] \in Nat /\ born[prev] \in Nat
        BY <2>1, <3>1, <3>4 DEF HeapOK, ListOK
      <4> QED
        BY <3>2, <3>4, <4>1, <4>2 DEF UpTo
    <3> QED
      BY <3>1, <3>2, <3>3, <3>4 DEF Aligned
  <2> QED
    BY <2>2, <2>3 DEF NothingPassedOver
<1> QED
  BY <1>1, Invariance, PTL

(* When everything has been given back, a search that reaches the end of   *)
(* the list has joined every region into one block.                        *)
THEOREM Coalescing == Spec => []FreedHeapCoalesces
<1>1. IInv => FreedHeapCoalesces
  <2> SUFFICES ASSUME IInv, pc = "grow", DOMAIN live = {},
                      NEW a \in DOMAIN heap, NEW b \in DOMAIN heap,
                      born[a] = born[b], a < b
               PROVE  FALSE
    <3>1. \A x \in DOMAIN heap : x \in Nat
      BY DEF IInv, HeapOK, HeadersOK
    <3> QED
      BY <3>1 DEF FreedHeapCoalesces
  <2>1. HeapOK(heap, born, pages) /\ pages \subseteq PAGES /\ HeldOK(heap, live)
    BY DEF IInv, PagesOK
  <2>2. \A x \in DOMAIN heap : heap[x].is_free = TRUE
    BY <2>1 DEF HeldOK, HeapOK, HeadersOK
  <2>3. ~can_merge(heap, a)
    BY DEF IInv, PassedOK, CursorOK
  <2> DEFINE n == heap[a].next
  <2>4. /\ a \in Nat /\ b \in Nat /\ born[a] \in Nat /\ n = heap[a].next
        /\ block_after(heap, a) = EndIn(heap, a)
    BY <2>1, BlockBounds DEF HeapOK, ListOK
  <2> HIDE DEF n
  <2>5. ~UpTo(born, b, a)
    BY <2>4 DEF UpTo
  <2>6. n # NULL
    BY <2>1, <2>4, <2>5, LastBlock
  <2>7. UpTo(born, n, b)
    BY <2>1, <2>4, <2>5, <2>6, NoneBetween
  <2>8. /\ n \in DOMAIN heap /\ born[n] \in Nat
        /\ born[a] < born[n] \/ (born[a] = born[n] /\ n = EndIn(heap, a))
    BY <2>1, <2>4, <2>6, ListUp
  <2>9. n = EndIn(heap, a)
    BY <2>4, <2>7, <2>8 DEF UpTo
  <2> QED
    BY <2>2, <2>3, <2>4, <2>6, <2>8, <2>9
       DEF can_merge, mergeable, blocks_continuous
<1> QED
  BY <1>1, Invariance, PTL

-----------------------------------------------------------------------------
(* The allocator of mem.c implements the Allocator: every step of a call   *)
(* is a step of the Allocator or none.                                     *)

(* What the client holds is the start of a taken block, as large as its    *)
(* contents at most.                                                       *)
LEMMA HeldBytes ==
  ASSUME NEW h, NEW bn, NEW pg, pg \subseteq PAGES, HeapOK(h, bn, pg),
         NEW lv, HeldOK(h, lv), NEW p \in DOMAIN lv
  PROVE  \E b \in DOMAIN h :
           /\ ~h[b].is_free /\ p = b + HEADER_SIZE
           /\ A!Bytes(p, lv[p]) \subseteq b + HEADER_SIZE .. EndIn(h, b) - 1
<1>1. PICK b \in DOMAIN h : ~h[b].is_free /\ p = b + HEADER_SIZE
  BY DEF HeldOK
<1>2. /\ lv[p] \in Nat /\ lv[p] <= h[b].capacity
  BY <1>1, QuerySmall DEF HeldOK
<1>3. /\ b \in Nat /\ h[b].capacity \in Nat /\ h[b].capacity >= 1
  <2>1. h[b].capacity >= BLOCK_MIN_CAPACITY
    BY DEF HeapOK, HeadersOK
  <2> QED
    BY <2>1, BlockBounds, LayoutAssumption
<1>4. p \in Nat /\ EndIn(h, b) = p + h[b].capacity
  BY <1>1, <1>3, LayoutAssumption DEF EndIn
<1>5. A!Bytes(p, lv[p]) \subseteq p .. EndIn(h, b) - 1
  BY <1>2, <1>3, <1>4 DEF A!Bytes
<1> QED
  BY <1>1, <1>5

(* A byte of a page of the process has an address the kernel can give.     *)
LEMMA ByteAddress ==
  ASSUME NEW x \in Nat, PageOf(x) \in PAGES
  PROVE  x \in A!Addresses
<1>1. /\ PageOf(x) \in Nat
      /\ x \in PageOf(x) * PAGE_SIZE .. (PageOf(x) + 1) * PAGE_SIZE - 1
  BY MemAssumption, LayoutAssumption DEF PageOf
<1> QED
  BY <1>1 DEF A!Addresses

(* Mapping pages of the process that were not mapped acquires them.        *)
LEMMA MapsAcquire ==
  ASSUME PagesOK, PagesOK', pages \subseteq pages'
  PROVE  \E more \in SUBSET PAGES : A!Acquire(more)
<1>1. /\ pages' \ pages \in SUBSET PAGES
      /\ pages' \ pages \subseteq PAGES \ FOREIGN
      /\ pages' \ FOREIGN = (pages \ FOREIGN) \cup (pages' \ pages)
  BY DEF PagesOK
<1> QED
  BY <1>1 DEF A!Acquire

(* A step that hands out a block grants its contents: no block that was    *)
(* taken has moved, and none of them shares a byte with the new one.       *)
LEMMA HandedGrants ==
  ASSUME IInv, IInv', pages \subseteq pages', pc \in {"search", "grow"},
         pc' = "idle",
         NEW b \in DOMAIN heap', Handed(b), Kept(heap, heap', DOMAIN heap)
  PROVE  \E p \in A!Addresses : A!Grant(p)
<1> DEFINE p == b + HEADER_SIZE
<1>1. /\ HeapOK(heap, born, pages) /\ HeldOK(heap, live)
      /\ HeapOK(heap', born', pages') /\ HeldOK(heap', live')
      /\ pages \subseteq PAGES /\ pages' \subseteq PAGES
  BY DEF IInv, PagesOK
<1>2. request \in QUERIES /\ request = query /\ request # A!NoRequest
      /\ request' = A!NoRequest
  <2>1. query \in QUERIES
    BY DEF IInv, CursorOK
  <2> QED
    BY <2>1, QuerySmall DEF request, A!NoRequest
<1>3. /\ contents(b) = p /\ p \notin DOMAIN live
      /\ live' = [q \in DOMAIN live \cup {p} |-> IF q = p THEN query ELSE live[q]]
  BY DEF Handed, Given
<1>4. p \in DOMAIN live' /\ live'[p] = query
  BY <1>3
<1>5. \A c \in DOMAIN heap' : c \in Nat /\ EndIn(heap', c) \in Nat
                              /\ c < EndIn(heap', c)
  BY <1>1, BlockBounds
<1>6. A!Bytes(p, query) \subseteq p .. EndIn(heap', b) - 1
  <2>1. PICK c \in DOMAIN heap' :
          /\ p = c + HEADER_SIZE
          /\ A!Bytes(p, query) \subseteq c + HEADER_SIZE .. EndIn(heap', c) - 1
    BY <1>1, <1>4, HeldBytes
  <2>2. c = b
    BY <1>5, <2>1, LayoutAssumption
  <2> QED
    BY <2>1, <2>2
<1>7. \A x \in A!Bytes(p, query) : x \in Nat /\ PageOf(x) \in pages' \ FOREIGN
  <2>1. \A x \in b .. EndIn(heap', b) - 1 : PageOf(x) \in pages' \ FOREIGN
    BY <1>1 DEF HeapOK, PlacedOK
  <2> QED
    BY <1>5, <1>6, <2>1, LayoutAssumption
<1>8. p \in A!Addresses
  <2>1. p \in A!Bytes(p, query)
    BY <1>2, <1>5, QuerySmall, LayoutAssumption DEF A!Bytes
  <2> QED
    BY <1>1, <1>7, <2>1, ByteAddress
<1>9. ASSUME NEW q \in DOMAIN live
      PROVE  A!Bytes(p, query) \cap A!Bytes(q, live[q]) = {}
  <2>1. PICK c \in DOMAIN heap :
          /\ ~heap[c].is_free /\ q = c + HEADER_SIZE
          /\ A!Bytes(q, live[q]) \subseteq c + HEADER_SIZE .. EndIn(heap, c) - 1
    BY <1>1, HeldBytes
  <2>2. c \in DOMAIN heap' /\ EndIn(heap', c) = EndIn(heap, c)
    BY <2>1 DEF Kept, EndIn
  <2>3. c # b
    BY <1>3, <2>1
  <2>4. EndIn(heap', b) <= c \/ EndIn(heap', c) <= b
    <3>1. b < c \/ c < b
      BY <1>5, <2>2, <2>3
    <3> QED
      BY <1>1, <2>2, <3>1 DEF HeapOK, ApartOK
  <2>5. ASSUME NEW x \in A!Bytes(p, query), x \in A!Bytes(q, live[q])
        PROVE  FALSE
    <3>1. x \in b + HEADER_SIZE .. EndIn(heap', b) - 1
      BY <1>6
    <3>2. x \in c + HEADER_SIZE .. EndIn(heap', c) - 1
      BY <2>1, <2>2, <2>5
    <3>3. b \in Nat /\ c \in Nat /\ EndIn(heap', b) \in Nat /\ EndIn(heap', c) \in Nat
      BY <1>5, <2>2
    <3> QED
      BY <2>4, <3>1, <3>2, <3>3, LayoutAssumption
  <2> QED
    BY <2>5
<1>10. \E more \in SUBSET PAGES : A!Acquire(more)
  BY MapsAcquire DEF IInv
<1>11. \A x \in A!Bytes(p, query) : x \div PAGE_SIZE \in pages' \ FOREIGN
  BY <1>7 DEF PageOf
<1> HIDE DEF p
<1>12. A!Grant(p)
  BY <1>2, <1>3, <1>9, <1>10, <1>11 DEF A!Grant
<1> QED
  BY <1>8, <1>12

(* A step that moves only the search along is none of the Allocator's.     *)
LEMMA SearchStutters ==
  ASSUME IInv, pc \in {"search", "grow"}, pc' \in {"search", "grow"},
         query' = query, live' = live, pages' = pages
  PROVE  UNCHANGED A!vars
BY DEF A!vars, request

(* The allocator is one the caller was promised, for every page size,      *)
(* address space, foreign mapping and set of requests that do not wrap:    *)
(* each call that returns memory returns bytes of its own pages that no    *)
(* other allocation has, and everything else is silent.                    *)
THEOREM Refinement == Spec => ImplementsAllocator
<1>1. Init => A!Init
  BY DEF Init, A!Init, request, A!NoRequest
<1>2. ASSUME IInv, IInv', [Next]_vars PROVE [A!Next]_(A!vars)
  <2>1. ASSUME NEW q \in QUERIES, heap_init(q) PROVE A!Next
    <3>1. pages \subseteq pages' /\ pc = "idle" /\ UNCHANGED <<live, pc, query>>
      BY <2>1 DEF heap_init, locals
    <3>2. \E more \in SUBSET PAGES : A!Acquire(more)
      BY <1>2, <3>1, MapsAcquire DEF IInv
    <3> QED
      BY <3>1, <3>2 DEF A!Next, A!Prepare, request, A!NoRequest
  <2>2. ASSUME NEW q \in QUERIES, malloc(q) PROVE A!Next
    <3>1. A!Request(q)
      BY <2>2 DEF malloc, A!Request, request, A!NoRequest
    <3> QED
      BY <3>1 DEF A!Next
  <2>3. CASE find_merge \/ find_next
    BY <1>2, <2>3, SearchStutters DEF find_merge, find_next, locals
  <2>4. CASE find_end
    <3>1. prev # NULL
      BY <1>2, <2>4, MemAssumption DEF find_end, IInv, CursorOK, NULL
    <3> QED
      BY <1>2, <2>4, <3>1, SearchStutters DEF find_end
  <2>5. CASE find_good
    <3>1. /\ pages \subseteq pages' /\ pc \in {"search", "grow"} /\ pc' = "idle"
      BY <2>5 DEF find_good, take, Return
    <3> QED
      BY <1>2, <2>5, <3>1, FindGoodStep, HandedGrants DEF A!Next
  <2>6. CASE grow
    <3>1. /\ pages \subseteq pages' /\ pc \in {"search", "grow"} /\ pc' = "idle"
      BY <2>6 DEF grow, take, Return
    <3> QED
      BY <1>2, <2>6, <3>1, GrowStep, HandedGrants DEF A!Next
  <2>7. CASE grow_fails
    <3>1. query \in Nat
      BY <1>2, <2>7, QuerySmall DEF grow_fails, IInv, CursorOK
    <3>2. A!Refuse
      BY <2>7, <3>1 DEF grow_fails, Return, A!Refuse, request, A!NoRequest
    <3> QED
      BY <3>2 DEF A!Next
  <2>8. ASSUME NEW mem \in DOMAIN live, free(mem) PROVE A!Next
    <3>1. A!Release(mem)
      BY <2>8 DEF free, locals, A!Release, request, A!NoRequest
    <3> QED
      BY <3>1 DEF A!Next
  <2>9. CASE UNCHANGED vars
    BY <2>9 DEF vars, A!vars, request
  <2>10. ASSUME NEW q \in QUERIES, heap_init_fails(q) PROVE UNCHANGED A!vars
    BY <2>9, <2>10 DEF heap_init_fails, vars, A!vars, request
  <2> QED
    BY <1>2, <2>1, <2>2, <2>3, <2>4, <2>5, <2>6, <2>7, <2>8, <2>9, <2>10
       DEF Next, Step
<1>3. IInv /\ IInv' /\ [Next]_vars => [A!Next]_(A!vars)
  BY <1>2
<1> QED
  BY <1>1, <1>3, Invariance, PTL DEF Spec, ImplementsAllocator, A!Spec

-----------------------------------------------------------------------------
(* What the contract says, for mem.c's pointers, calls and pages           *)

(* Whatever keeps the contract keeps its types: in particular it never     *)
(* owns a page that other code has mapped.                                 *)
THEOREM ContractTypes == A!Spec => []A!TypeOK
<1>1. A!Init => A!TypeOK
  BY DEF A!Init, A!TypeOK
<1>2. A!TypeOK /\ [A!Next]_(A!vars) => A!TypeOK'
  <2> SUFFICES ASSUME A!TypeOK, [A!Next]_(A!vars) PROVE A!TypeOK'
    OBVIOUS
  <2> USE DEF A!TypeOK
  <2>1. CASE A!Prepare
    BY <2>1 DEF A!Prepare, A!Acquire
  <2>2. CASE \E size \in QUERIES : A!Request(size)
    BY <2>2 DEF A!Request
  <2>3. CASE A!Refuse
    BY <2>3 DEF A!Refuse
  <2>4. ASSUME NEW p \in A!Addresses, A!Grant(p) PROVE A!TypeOK'
    <3>1. request \in QUERIES
      BY <2>4 DEF A!Grant
    <3>2. (pages \ FOREIGN)' \subseteq PAGES \ FOREIGN
      BY <2>4 DEF A!Grant, A!Acquire
    <3>3. DOMAIN live' = DOMAIN live \cup {p} /\ live' \in [DOMAIN live' -> QUERIES]
      BY <2>4, <3>1 DEF A!Grant
    <3> QED
      BY <2>4, <3>2, <3>3 DEF A!Grant
  <2>5. ASSUME NEW p \in DOMAIN live, A!Release(p) PROVE A!TypeOK'
    BY <2>5 DEF A!Release
  <2>6. CASE UNCHANGED A!vars
    BY <2>6 DEF A!vars
  <2> QED
    BY <2>1, <2>2, <2>3, <2>4, <2>5, <2>6 DEF A!Next
<1> QED
  BY <1>1, <1>2, PTL DEF A!Spec

(* No byte is ever in two allocations, whatever the order of the requests  *)
(* and releases: the guard of Grant is preserved by all that follows it.   *)
THEOREM ContractDisjoint == A!Spec => []A!HeldDisjoint
<1>1. A!Init => A!HeldDisjoint
  BY DEF A!Init, A!HeldDisjoint
<1>2. A!HeldDisjoint /\ [A!Next]_(A!vars) => A!HeldDisjoint'
  <2> SUFFICES ASSUME A!HeldDisjoint, [A!Next]_(A!vars) PROVE A!HeldDisjoint'
    OBVIOUS
  <2> USE DEF A!HeldDisjoint
  <2>1. CASE UNCHANGED live
    BY <2>1
  <2>2. ASSUME NEW p \in A!Addresses, A!Grant(p) PROVE A!HeldDisjoint'
    <3>1. DOMAIN live' = DOMAIN live \cup {p}
      BY <2>2 DEF A!Grant
    <3>2. live'[p] = request /\ \A q \in DOMAIN live \ {p} : live'[q] = live[q]
      BY <2>2 DEF A!Grant
    <3>3. \A q \in DOMAIN live : A!Bytes(p, request) \cap A!Bytes(q, live[q]) = {}
      BY <2>2 DEF A!Grant
    <3> QED
      BY <3>1, <3>2, <3>3
  <2>3. ASSUME NEW p \in DOMAIN live, A!Release(p) PROVE A!HeldDisjoint'
    BY <2>3 DEF A!Release
  <2> QED
    BY <2>1, <2>2, <2>3 DEF A!Next, A!Prepare, A!Request, A!Refuse, A!vars
<1> QED
  BY <1>1, <1>2, PTL DEF A!Spec

(* Every byte of every allocation stays in pages that the allocator owns.  *)
THEOREM ContractOwned == A!Spec => []A!HeldOwned
<1>1. A!Init => A!HeldOwned
  BY DEF A!Init, A!HeldOwned
<1>2. A!HeldOwned /\ [A!Next]_(A!vars) => A!HeldOwned'
  <2> SUFFICES ASSUME A!HeldOwned, [A!Next]_(A!vars) PROVE A!HeldOwned'
    OBVIOUS
  <2> USE DEF A!HeldOwned
  <2>1. CASE UNCHANGED live /\ (pages \ FOREIGN) \subseteq (pages \ FOREIGN)'
    BY <2>1
  <2>2. ASSUME NEW p \in A!Addresses, A!Grant(p) PROVE A!HeldOwned'
    <3>1. DOMAIN live' = DOMAIN live \cup {p} /\ (pages \ FOREIGN) \subseteq (pages \ FOREIGN)'
      BY <2>2 DEF A!Grant, A!Acquire
    <3>2. live'[p] = request /\ \A q \in DOMAIN live \ {p} : live'[q] = live[q]
      BY <2>2 DEF A!Grant
    <3>3. \A x \in A!Bytes(p, request) : x \div PAGE_SIZE \in (pages \ FOREIGN)'
      BY <2>2 DEF A!Grant
    <3> QED
      BY <3>1, <3>2, <3>3
  <2>3. ASSUME NEW p \in DOMAIN live, A!Release(p) PROVE A!HeldOwned'
    BY <2>3 DEF A!Release
  <2> QED
    BY <2>1, <2>2, <2>3 DEF A!Next, A!Prepare, A!Request, A!Refuse, A!Acquire, A!vars
<1> QED
  BY <1>1, <1>2, PTL DEF A!Spec

(* So mem.c, which keeps the contract: what it has returned and not got    *)
(* back is apart, and in pages of its own.                                 *)
THEOREM KeepsContract == Spec => [](A!TypeOK /\ A!HeldDisjoint /\ A!HeldOwned)
BY Refinement, ContractTypes, ContractDisjoint, ContractOwned, PTL DEF ImplementsAllocator
=============================================================================
