----------------------------- MODULE MallocSizes -----------------------------
(***************************************************************************)
(* The sizes of the allocator in docs/malloc-impl.c: what a request is     *)
(* padded to, and which bin, fastbin or thread cache list a chunk of a     *)
(* size belongs to.  A size counts the unit that SIZE_SZ is given in:      *)
(* bytes for the C library's own constants, words for small instances.     *)
(***************************************************************************)
EXTENDS Integers, Sequences

CONSTANTS
  SIZE_SZ, MALLOC_ALIGNMENT,
  NSMALLBINS,
  LARGEBINS,  \* rows [width, upto, base]: sz \div width <= upto goes to bin
              \* base + sz \div width, the first such row counts
  LASTBIN     \* the bin of everything larger

ASSUME SizesAssumption ==
  /\ SIZE_SZ \in Nat \ {0}
  /\ \E k \in {2, 4} : MALLOC_ALIGNMENT = k * SIZE_SZ
  /\ NSMALLBINS \in Nat
  /\ LARGEBINS \in Seq([width : Nat \ {0}, upto : Nat, base : Nat])
  /\ LASTBIN \in Nat

ALIGN_UP(x, a)   == ((x + a - 1) \div a) * a
ALIGN_DOWN(x, a) == (x \div a) * a

CHUNK_HDR_SZ      == 2 * SIZE_SZ
MIN_CHUNK_SIZE    == 4 * SIZE_SZ
MALLOC_ALIGN_MASK == MALLOC_ALIGNMENT - 1
MINSIZE           == ALIGN_UP(MIN_CHUNK_SIZE, MALLOC_ALIGNMENT)

request2size(req) ==
  IF req + SIZE_SZ + MALLOC_ALIGN_MASK < MINSIZE THEN MINSIZE
  ELSE ALIGN_DOWN(req + SIZE_SZ + MALLOC_ALIGN_MASK, MALLOC_ALIGNMENT)

(* Sizes that a request can be padded to.                                  *)
Aligned(sz) == sz \in Nat /\ sz % MALLOC_ALIGNMENT = 0 /\ sz >= MINSIZE

(* A chunk's memory reaches into the next header, unless it is mmapped.    *)
usable(size) == size - SIZE_SZ

-----------------------------------------------------------------------------
(* Bins                                                                    *)

SMALLBIN_WIDTH      == MALLOC_ALIGNMENT
SMALLBIN_CORRECTION == IF MALLOC_ALIGNMENT > CHUNK_HDR_SZ THEN 1 ELSE 0
MIN_LARGE_SIZE      == (NSMALLBINS - SMALLBIN_CORRECTION) * SMALLBIN_WIDTH

in_smallbin_range(sz) == sz < MIN_LARGE_SIZE

smallbin_index(sz) == sz \div SMALLBIN_WIDTH + SMALLBIN_CORRECTION

Rows(sz) == {i \in DOMAIN LARGEBINS : sz \div LARGEBINS[i].width <= LARGEBINS[i].upto}

largebin_index(sz) ==
  IF Rows(sz) = {} THEN LASTBIN
  ELSE LET row == LARGEBINS[CHOOSE i \in Rows(sz) : \A j \in Rows(sz) : i <= j]
       IN  row.base + sz \div row.width

bin_index(sz) ==
  IF in_smallbin_range(sz) THEN smallbin_index(sz) ELSE largebin_index(sz)

(* The least index that row j gives: its sizes begin where those of the    *)
(* row before it, or the small ones, end.                                  *)
least_index(j) ==
  LET row == LARGEBINS[j]
      sz == IF j = 1 THEN MIN_LARGE_SIZE
            ELSE (LARGEBINS[j - 1].upto + 1) * LARGEBINS[j - 1].width
  IN  row.base + sz \div row.width

(* The numbers in largebin_index_32, _32_big and _64 fit together: what a  *)
(* row gives comes after the small bins and what the rows before it give.  *)
RangesJoin ==
  /\ NSMALLBINS \in 2..LASTBIN
  /\ \A j \in DOMAIN LARGEBINS :
       /\ NSMALLBINS <= least_index(j)
       /\ LARGEBINS[j].base + LARGEBINS[j].upto <= LASTBIN
       /\ \A i \in 1..j - 1 : LARGEBINS[i].base + LARGEBINS[i].upto <= least_index(j)

ASSUME RangesAssumption == RangesJoin

-----------------------------------------------------------------------------
(* Fastbins and the thread cache                                           *)

fastbin_index(sz) == sz \div CHUNK_HDR_SZ - 2

MAX_FAST_SIZE == 20 * SIZE_SZ
NFASTBINS     == fastbin_index(request2size(MAX_FAST_SIZE)) + 1

(* global_max_fast after set_max_fast(s).                                  *)
max_fast(s) ==
  IF s <= MALLOC_ALIGN_MASK - SIZE_SZ THEN MIN_CHUNK_SIZE \div 2
  ELSE ALIGN_DOWN(s + SIZE_SZ, MALLOC_ALIGNMENT)

csize2tidx(x) == (x - MINSIZE + MALLOC_ALIGNMENT - 1) \div MALLOC_ALIGNMENT

tidx2usize(idx) == idx * MALLOC_ALIGNMENT + MINSIZE - SIZE_SZ

usize2tidx(x) == csize2tidx(request2size(x))

(* do_set_tcache_max: mp_.tcache_bins for a largest request of value.      *)
tcache_bins_for(value) == csize2tidx(request2size(value)) + 1

-----------------------------------------------------------------------------
(* Properties of a request of n bytes and of chunk sizes                   *)

(* The chunk for a request has room for it, is aligned, is at least        *)
(* MINSIZE, and is the smallest such: do_check_remalloced_chunk asserts    *)
(* less than MINSIZE more than the request needs.                          *)
RequestFits(n) ==
  LET nb == request2size(n)
  IN  /\ usable(nb) >= n
      /\ nb % MALLOC_ALIGNMENT = 0
      /\ nb >= MINSIZE
      /\ nb > MINSIZE => usable(nb - MALLOC_ALIGNMENT) < n

(* A realloc that must move asks for nb - MALLOC_ALIGN_MASK bytes, and     *)
(* that is padded to nb again.                                             *)
PaddedOnce(n) == request2size(request2size(n) - MALLOC_ALIGN_MASK) = request2size(n)

(* Bins are ordered like sizes, so that each chunk of a bin further on is  *)
(* large enough: _int_malloc takes the first one it meets.  A small bin    *)
(* holds one size only, and a large chunk never goes to a small bin.       *)
BinsOrdered(sz) ==
  LET next == sz + MALLOC_ALIGNMENT
  IN  /\ bin_index(sz) \in 2..LASTBIN
      /\ bin_index(sz) <= bin_index(next)
      /\ in_smallbin_range(sz) => bin_index(sz) < bin_index(next)

(* Every size of a fastbin has a list, and the sizes of two lists of the   *)
(* thread cache, or of two fastbins, differ.                               *)
FastIndexes(sz) ==
  sz <= request2size(MAX_FAST_SIZE) =>
    /\ fastbin_index(sz) \in 0..NFASTBINS - 1
    /\ fastbin_index(sz) < fastbin_index(sz + MALLOC_ALIGNMENT)

(* The list of the thread cache a request looks at holds chunks with room  *)
(* for it, and is the one free puts such a chunk on.                       *)
TcacheIndexes(n) ==
  /\ n <= tidx2usize(usize2tidx(n))
  /\ request2size(tidx2usize(usize2tidx(n))) = request2size(n)
  /\ usize2tidx(n) < tcache_bins_for(n)
=============================================================================
