----------------------------- MODULE MCPtmalloc -----------------------------
(* Instances of the allocator for TLC, in words: pages of sixteen, small   *)
(* bins below twelve, two ranges of large bins.  Each setup is a program   *)
(* that stresses one part of it.                                           *)
EXTENDS PtmallocCheck, MCMallocSizes

Rows2 == <<Row(8, 2, 5), Row(16, 2, 7)>>

(* No thread cache, two pages to sbrk and none to mmap.                    *)
Plain == [tcache_count |-> 0, mmap_threshold |-> 40, n_mmaps_max |-> 1,
          brk_start |-> 16, brk_limit |-> 48, mmap_pages |-> {},
          requests |-> {}, callocs |-> {}, reallocs |-> {}, alignments |-> {},
          pads |-> {}, options |-> {}, foreign |-> {}, max_held |-> 2]

(* Chunks of a fastbin, a small and a large bin: three of two sizes, two   *)
(* of three sizes.                                                         *)
BinsSetups ==
  {[Plain EXCEPT !.requests = r, !.max_held = 3] : r \in {{1, 7}, {1, 20}}}
    \cup {[Plain EXCEPT !.requests = {1, 7, 20}]}

(* Chunks that grow and shrink in place, and move.                         *)
ReallocSetup == [Plain EXCEPT !.requests = {1, 9}, !.reallocs = {9, 20}]

(* Chunks cut out of larger ones.                                          *)
AlignSetups ==
  {[Plain EXCEPT !.requests = r, !.alignments = {4, 8}] : r \in {{1}, {7}}}

(* A thread cache with room for two chunks of a size.                      *)
CacheSetup == [Plain EXCEPT !.tcache_count = 2, !.requests = {3, 7}, !.callocs = {1}]

MCLists == BinsSetups \cup AlignSetups \cup {ReallocSetup, CacheSetup}

(* Chunks above the threshold of mmap, which moves.                        *)
LargeSetup == [Plain EXCEPT !.mmap_pages = 3..7, !.requests = {45}, !.reallocs = {1, 60},
                            !.alignments = {16},
                            !.options = {<<M_MMAP_MAX, 2>>}]

(* sbrk gives one page; mmap has places that are not behind each other.    *)
BackupSetup == [Plain EXCEPT !.mmap_threshold = 80, !.brk_start = 48, !.brk_limit = 64,
                             !.mmap_pages = {2, 4, 5}, !.requests = {1, 20}, !.max_held = 3]

(* The program calls sbrk itself, trims and sets options.                  *)
SbrkSetup == [Plain EXCEPT !.brk_start = 19, !.brk_limit = 80, !.requests = {1},
                           !.callocs = {30}, !.pads = {0},
                           !.options = {<<M_MXFAST, 0>>}, !.foreign = {16}]

MCSystem == {LargeSetup, BackupSetup, SbrkSetup}

(* A request of 11 leaves a top of the least size in the first page, and   *)
(* calloc of 27 asks for two more.                                         *)
TrimSetup == [Plain EXCEPT !.brk_limit = 64, !.requests = {11}, !.callocs = {27},
                           !.pads = {0}]

MCTrim == {TrimSetup}
=============================================================================
