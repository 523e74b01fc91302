------------------------------ MODULE MemLayout ------------------------------
(***************************************************************************)
(* Sizes of the allocator of memory-allocator/src: the block header, the   *)
(* block and region sizes, and the size_t arithmetic that relates them.    *)
(* Every size and every address is a word; arithmetic wraps modulo WORD,   *)
(* which stands for 2^64.  The page size is a parameter because the code   *)
(* asks getpagesize() for it while REGION_MIN_SIZE is fixed at compile     *)
(* time.                                                                   *)
(***************************************************************************)
EXTENDS Integers

CONSTANTS
  WORD,               \* number of values of size_t and of a pointer
  PAGE_SIZE,          \* what getpagesize() returns
  HEADER_SIZE,        \* offsetof(struct block_header, contents)
  BLOCK_MIN_CAPACITY, \* smallest capacity split_if_too_big leaves behind
  REGION_MIN_SIZE     \* smallest region alloc_region maps

(* The code's own values (17, 24, 2 * 4096 and a page of 4096 bytes times  *)
(* a power of two) satisfy these; nothing else is assumed of them.         *)
ASSUME LayoutAssumption ==
  /\ WORD \in Nat
  /\ PAGE_SIZE \in Nat \ {0}
  /\ HEADER_SIZE \in Nat \ {0}
  /\ BLOCK_MIN_CAPACITY \in Nat \ {0}
  /\ REGION_MIN_SIZE \in Nat
  /\ HEADER_SIZE + BLOCK_MIN_CAPACITY <= REGION_MIN_SIZE
  /\ REGION_MIN_SIZE < WORD
  /\ REGION_MIN_SIZE % PAGE_SIZE = 0 \/ REGION_MIN_SIZE <= PAGE_SIZE

Word == 0 .. WORD - 1

Plus(x, y)  == (x + y) % WORD
Minus(x, y) == (x - y) % WORD

size_max(x, y) == IF x > y THEN x ELSE y

size_from_capacity(capacity) == Plus(capacity, HEADER_SIZE)
capacity_from_size(size)     == Minus(size, HEADER_SIZE)

(* The number of pages that hold mem bytes, rounding up.                   *)
pages_count(mem) == Minus(Plus(mem, PAGE_SIZE), 1) \div PAGE_SIZE

round_pages(mem) == (PAGE_SIZE * pages_count(mem)) % WORD

region_actual_size(query) == size_max(round_pages(query), REGION_MIN_SIZE)

min_capacity_or(query) == size_max(BLOCK_MIN_CAPACITY, query)
=============================================================================
