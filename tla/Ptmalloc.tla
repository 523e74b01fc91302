------------------------------ MODULE Ptmalloc ------------------------------
(***************************************************************************)
(* The allocator of docs/malloc-impl.c, the library malloc that the C      *)
(* programs of this repository call and the memory allocator's assignment  *)
(* gives to read: its main arena, called by one thread at a time.          *)
(*                                                                         *)
(* The heap is a map from the addresses of chunk headers to what the       *)
(* headers say.  The links of a list are abstracted to a sequence; the     *)
(* skip list of a large bin is the first chunk of each size in it.  A call *)
(* is a stack of frames, the function that runs first.                     *)
(***************************************************************************)
EXTENDS MallocSizes, SequencesExt

CONSTANTS
  PAGE,                   \* pagesize
  TCACHE_BINS,            \* mp_.tcache_bins
  TCACHE_SIZE,            \* sizeof (tcache_perthread_struct)
  MXFAST,                 \* DEFAULT_MXFAST
  TOP_PAD, TRIM_THRESHOLD, MMAP_THRESHOLD_MAX,
  MMAP_AS_MORECORE_SIZE, FASTBIN_CONSOLIDATION_THRESHOLD,
  SETUPS                  \* what the process may start with, see setup

(* Other alignments take the branches for front_misalign, which are left   *)
(* out; a page holds a few chunks.                                         *)
ASSUME PageAssumption ==
  /\ MALLOC_ALIGNMENT = CHUNK_HDR_SZ
  /\ PAGE \in Nat /\ PAGE >= MINSIZE + MALLOC_ALIGNMENT
  /\ TCACHE_BINS \in Nat /\ TCACHE_SIZE \in Nat
  /\ MXFAST \in 0..MAX_FAST_SIZE /\ TOP_PAD \in Nat /\ TRIM_THRESHOLD \in Int
  /\ MMAP_AS_MORECORE_SIZE \in Nat \ {0} /\ MMAP_AS_MORECORE_SIZE % PAGE = 0

(* What sbrk gives and what mmap gives are apart, as the kernel keeps them,*)
(* and no page is at NULL; what the program asks for are sizes.            *)
ASSUME SetupsAssumption ==
  \A s \in SETUPS :
    /\ s.tcache_count \in Nat /\ s.mmap_threshold \in Int /\ s.n_mmaps_max \in Int
    /\ s.brk_start \in Nat \ {0} /\ s.brk_limit \in Nat /\ s.brk_start <= s.brk_limit
    /\ s.mmap_pages \subseteq Nat \ {0}
    /\ \A i \in s.mmap_pages : (i + 1) * PAGE <= s.brk_start \/ s.brk_limit <= i * PAGE
    /\ s.requests \subseteq Nat /\ s.callocs \subseteq Nat /\ s.reallocs \subseteq Nat
    /\ s.alignments \subseteq 0..MALLOC_ALIGNMENT * 4096 /\ s.pads \subseteq Nat /\ s.foreign \subseteq Nat
    /\ s.options \subseteq Int \X Nat

Doublings == {2, 4, 8, 16, 32, 64, 128, 256, 512, 1024, 2048, 4096}

MAX_ALIGNMENT == MALLOC_ALIGNMENT * 4096

NULL == 0

VARIABLES
  setup,   \* the tunables, the system and the program: a member of SETUPS
  chunk,   \* address of a header -> [size, prev_inuse, prev_size]
  mapped,  \* address of an mmapped chunk -> [size, prev_size]
  av,      \* main_arena, and the history dirty: the end of the memory that
           \* chunks or a header of top have ever taken from top
  mp,      \* mp_ and global_max_fast
  tcache,  \* [block, entries]: the thread cache, block = NULL before it exists
  brk,     \* the process break
  pages,   \* pages that mmap has given out
  call,    \* the stack of frames [at, nb, p, x]
  ret,     \* what _int_malloc has just returned: [p, nb, fresh]
  held     \* chunk whose memory the program holds -> size it asked for

system == <<brk, pages, setup>>
vars   == <<chunk, mapped, av, mp, tcache, system, call, ret, held>>

(* The tunables.  TCACHE_COUNT is 0 for a C library without thread caches. *)
TCACHE_COUNT   == setup.tcache_count
MMAP_THRESHOLD == setup.mmap_threshold
N_MMAPS_MAX    == setup.n_mmaps_max

(* The system: where sbrk starts and what it allows; pages for mmap.       *)
BRK_START  == setup.brk_start
BRK_LIMIT  == setup.brk_limit
MMAP_PAGES == setup.mmap_pages

Bins     == 1..LASTBIN
Unsorted == 1

NoReturn == [p |-> NULL, nb |-> 0, fresh |-> FALSE]

(* malloc_init_state and the initial values of main_arena and mp_.         *)
Init ==
  /\ setup \in SETUPS
  /\ chunk = [a \in {} |-> 0] /\ mapped = [a \in {} |-> 0]
  /\ av = [top |-> NULL, last_remainder |-> NULL,
           bins |-> [i \in Bins |-> << >>], binmap |-> {},
           fastbins |-> [i \in 0..NFASTBINS - 1 |-> << >>],
           have_fastchunks |-> FALSE, contiguous |-> TRUE,
           system_mem |-> 0, max_system_mem |-> 0, dirty |-> 0]
  /\ mp = [max_fast |-> max_fast(MXFAST), mmap_threshold |-> MMAP_THRESHOLD,
           trim_threshold |-> TRIM_THRESHOLD, no_dyn_threshold |-> FALSE,
           top_pad |-> TOP_PAD, n_mmaps_max |-> N_MMAPS_MAX,
           n_mmaps |-> 0, mmapped_mem |-> 0, sbrk_base |-> NULL]
  /\ tcache = [block |-> NULL, shutting_down |-> TCACHE_COUNT = 0,
               entries |-> [i \in 0..TCACHE_BINS - 1 |-> << >>]]
  /\ brk = BRK_START /\ pages = {}
  /\ call = << >> /\ ret = NoReturn
  /\ held = [a \in {} |-> 0]

-----------------------------------------------------------------------------
(* Frames                                                                  *)

Frame(at, nb, p, x) == [at |-> at, nb |-> nb, p |-> p, x |-> x]

At(label) == call # << >> /\ Head(call).at = label

op == Head(call)

(* The running function goes on with these frames, or returns.             *)
Continue(frames) == call' = frames \o Tail(call)
Goto(label)      == Continue(<<[op EXCEPT !.at = label]>>)

Return == call' = Tail(call) /\ ret' = NoReturn

Returns(p, fresh) ==
  call' = Tail(call) /\ ret' = [p |-> p, nb |-> op.nb, fresh |-> fresh]

(* What realloc and memalign return may be larger than asked for.          *)
Gives(p) == call' = Tail(call) /\ ret' = [p |-> p, nb |-> 0, fresh |-> FALSE]

(* malloc_printerr, or an assertion that fails.                            *)
Abort == call' = <<Frame("abort", 0, NULL, 0)>>

-----------------------------------------------------------------------------
(* Chunks                                                                  *)

Head2(size) == [size |-> size, prev_inuse |-> TRUE, prev_size |-> 0]

next_chunk(p) == p + chunk[p].size

inuse(p) == chunk[next_chunk(p)].prev_inuse

top_size == IF av.top = NULL THEN 0 ELSE chunk[av.top].size

(* chunksize_nomask (p) <= CHUNK_HDR_SZ: PREV_INUSE counts.                *)
no_chunk(p) ==
  \/ chunk[p].size < CHUNK_HDR_SZ
  \/ chunk[p].size = CHUNK_HDR_SZ /\ ~chunk[p].prev_inuse

With(c, p, head) == [a \in DOMAIN c \cup {p} |-> IF a = p THEN head ELSE c[a]]

Without(c, addresses) == [a \in DOMAIN c \ addresses |-> c[a]]

set_inuse_bit_at(c, a) == [c EXCEPT ![a].prev_inuse = TRUE, ![a].prev_size = 0]

(* A free chunk at p: its head, and its size as the foot.                  *)
set_free(c, p, size) ==
  [With(c, p, Head2(size)) EXCEPT ![p + size].prev_inuse = FALSE,
                                  ![p + size].prev_size = size]

(* The first nb of a free chunk; the rest stays free.                      *)
wrong_split(c, p, nb) ==  \* the foot of the remainder is not set
  LET rest == c[p].size - nb
  IN  With(With(c, p + nb, Head2(rest)), p, Head2(nb))

split(c, p, nb) ==
  set_free(With(c, p, Head2(nb)), p + nb, c[p].size - nb)

InSome(bins, p) == \E i \in Bins : p \in ToSet(bins[i])

(* The checks of unlink_chunk, and what it does.                           *)
unlink_ok(p) ==
  /\ chunk[p].size = chunk[next_chunk(p)].prev_size
  /\ InSome(av.bins, p)

unlinked(bins, p) ==
  [i \in Bins |-> IF p \in ToSet(bins[i])
                 THEN RemoveAt(bins[i], CHOOSE k \in DOMAIN bins[i] : bins[i][k] = p)
                 ELSE bins[i]]

on_unsorted(bins, p) == [bins EXCEPT ![Unsorted] = <<p>> \o @]

-----------------------------------------------------------------------------
(* The thread cache                                                        *)

tcache_fits(nb) == tcache.block # NULL /\ csize2tidx(nb) < TCACHE_BINS

wrong_tcache_room(nb) ==  \* one chunk too many
  IF tcache_fits(nb) THEN TCACHE_COUNT + 1 - Len(tcache.entries[csize2tidx(nb)]) ELSE 0

tcache_room(nb) ==
  IF tcache_fits(nb) THEN TCACHE_COUNT - Len(tcache.entries[csize2tidx(nb)]) ELSE 0

(* The chunks ps, the last one first, on the list of size nb.              *)
tcache_puts(nb, ps) == [tcache EXCEPT !.entries[csize2tidx(nb)] = ps \o @]

tcache_cached(nb) ==
  IF tcache_fits(nb) THEN tcache.entries[csize2tidx(nb)] ELSE << >>

tcache_get(nb) == [tcache EXCEPT !.entries[csize2tidx(nb)] = Tail(@)]

(* How many chunks a malloc that finds n more of its size stashes.         *)
stash(nb, n) == LET room == tcache_room(nb) IN IF n < room THEN n ELSE room

-----------------------------------------------------------------------------
(* _int_malloc                                                             *)

heap == <<chunk, av>>
rest == <<mapped, mp, system, held>>

(* A fastbin: the first chunk, and more of them for the cache.             *)
IntMallocFast ==
  /\ At("int_malloc")
  /\ op.nb <= mp.max_fast
  /\ LET i == fastbin_index(op.nb)
         fb == av.fastbins[i]
         n == stash(op.nb, Len(fb) - 1)
     IN  /\ fb # << >>
         /\ IF fastbin_index(chunk[fb[1]].size) # i
            THEN Abort /\ UNCHANGED <<av, tcache, ret>>
            ELSE /\ av' = [av EXCEPT !.fastbins[i] = SubSeq(fb, n + 2, Len(fb))]
                 /\ tcache' = IF n = 0 THEN tcache
                              ELSE tcache_puts(op.nb, Reverse(SubSeq(fb, 2, n + 1)))
                 /\ Returns(fb[1], FALSE)
  /\ UNCHANGED <<chunk, rest>>

no_fast == IF op.nb > mp.max_fast THEN TRUE ELSE av.fastbins[fastbin_index(op.nb)] = << >>

wrong_set_inuse_bits(c, nexts) == set_inuse_bit_at(c, CHOOSE a \in nexts : TRUE)

set_inuse_bits(c, nexts) ==
  [a \in DOMAIN c |->
     IF a \in nexts THEN [c[a] EXCEPT !.prev_inuse = TRUE, !.prev_size = 0] ELSE c[a]]

(* A small bin: the last chunk, and more of them for the cache.            *)
IntMallocSmall ==
  /\ At("int_malloc") /\ no_fast
  /\ in_smallbin_range(op.nb)
  /\ LET i == smallbin_index(op.nb)
         bin == av.bins[i]
         n == stash(op.nb, Len(bin) - 1)
         taken == SubSeq(bin, Len(bin) - n, Len(bin))
         nexts == {a + op.nb : a \in ToSet(taken)}
     IN  /\ bin # << >>
         /\ chunk' = set_inuse_bits(chunk, nexts)
         /\ av' = [av EXCEPT !.bins[i] = SubSeq(bin, 1, Len(bin) - n - 1)]
         /\ tcache' = IF n = 0 THEN tcache ELSE tcache_puts(op.nb, Front(taken))
         /\ Returns(Last(bin), TRUE)
  /\ UNCHANGED rest

(* malloc_consolidate begins by clearing the flag.                         *)
wrong_consolidating(arena) == arena  \* the flag stays
consolidating(arena) == [arena EXCEPT !.have_fastchunks = FALSE]

consolidate == Frame("consolidate", 0, NULL, 0)

(* Nothing of the size at hand: large requests consolidate first.          *)
IntMallocOther ==
  /\ At("int_malloc") /\ no_fast
  /\ in_smallbin_range(op.nb) => av.bins[smallbin_index(op.nb)] = << >>
  /\ LET on == [op EXCEPT !.at = "unsorted"]
     IN  IF ~in_smallbin_range(op.nb) /\ av.have_fastchunks
         THEN Continue(<<consolidate, on>>) /\ av' = consolidating(av)
         ELSE Continue(<<on>>) /\ UNCHANGED av
  /\ UNCHANGED <<chunk, tcache, ret, rest>>

(* The checks on a chunk that leaves the unsorted list.                    *)
unsorted_ok(v) ==
  LET size == chunk[v].size  next == next_chunk(v)
  IN  /\ size > CHUNK_HDR_SZ /\ size <= av.system_mem
      /\ chunk[next].size >= CHUNK_HDR_SZ /\ chunk[next].size <= av.system_mem
      /\ chunk[next].prev_size = size
      /\ ~chunk[next].prev_inuse

(* Insertion in a large bin, largest first and second among its like.      *)
inserted(bin, v) ==
  LET after == {i \in DOMAIN bin : chunk[bin[i]].size <= chunk[v].size}
      i == CHOOSE j \in after : \A k \in after : j <= k
  IN  IF in_smallbin_range(chunk[v].size) THEN <<v>> \o bin
      ELSE IF after = {} THEN Append(bin, v)
      ELSE IF chunk[bin[i]].size = chunk[v].size THEN InsertAt(bin, i + 1, v)
      ELSE InsertAt(bin, i, v)

(* The oldest unsorted chunk: the last remainder is split for a small      *)
(* request, an exact fit is taken (or cached, op.x says that one was), any *)
(* other chunk goes to its bin.                                            *)
oldest == Last(av.bins[Unsorted])

sorted == [av.bins EXCEPT ![Unsorted] = Front(@)]

splits_last_remainder ==
  /\ in_smallbin_range(op.nb) /\ Len(av.bins[Unsorted]) = 1
  /\ oldest = av.last_remainder /\ chunk[oldest].size > op.nb + MINSIZE

AtUnsorted == At("unsorted") /\ av.bins[Unsorted] # << >>

SplitLastRemainder ==
  /\ AtUnsorted /\ unsorted_ok(oldest) /\ splits_last_remainder
  /\ chunk' = split(chunk, oldest, op.nb)
  /\ av' = [av EXCEPT !.bins[Unsorted] = <<oldest + op.nb>>, !.last_remainder = oldest + op.nb]
  /\ Returns(oldest, TRUE)
  /\ UNCHANGED <<tcache, rest>>

TakeExact ==
  /\ AtUnsorted /\ unsorted_ok(oldest)
  /\ chunk[oldest].size = op.nb
  /\ chunk' = set_inuse_bit_at(chunk, next_chunk(oldest))
  /\ av' = [av EXCEPT !.bins = sorted]
  /\ IF tcache_room(op.nb) > 0
     THEN /\ tcache' = tcache_puts(op.nb, <<oldest>>)
          /\ Continue(<<[op EXCEPT !.x = 1]>>)
          /\ UNCHANGED ret
     ELSE Returns(oldest, TRUE) /\ UNCHANGED tcache
  /\ UNCHANGED rest

SortIntoBin ==
  /\ AtUnsorted
  /\ unsorted_ok(oldest) => ~splits_last_remainder /\ chunk[oldest].size # op.nb
  /\ IF ~unsorted_ok(oldest) THEN Abort /\ UNCHANGED av
     ELSE LET i == bin_index(chunk[oldest].size)
          IN  /\ av' = [av EXCEPT !.bins = [sorted EXCEPT ![i] = inserted(@, oldest)],
                                  !.binmap = @ \cup {i}]
              /\ UNCHANGED call
  /\ UNCHANGED <<chunk, tcache, ret, rest>>

(* All is sorted: a cached fit is returned, or the search begins.          *)
UnsortedDone ==
  /\ At("unsorted")
  /\ av.bins[Unsorted] = << >>
  /\ IF op.x = 1
     THEN Returns(tcache_cached(op.nb)[1], FALSE) /\ tcache' = tcache_get(op.nb)
     ELSE Goto("search") /\ UNCHANGED <<tcache, ret>>
  /\ UNCHANGED <<heap, rest>>

(* A chunk v of a bin serves a request of nb: whole, or split with the     *)
(* remainder unsorted.                                                     *)
exhausts(v, nb) == chunk[v].size - nb < MINSIZE

Takes(v, nb, binmap, remember) ==
  IF ~unlink_ok(v) \/ chunk[v].size < nb
  THEN Abort /\ UNCHANGED <<heap, ret>>
  ELSE LET left == unlinked(av.bins, v)
       IN  /\ IF exhausts(v, nb)
              THEN /\ chunk' = set_inuse_bit_at(chunk, next_chunk(v))
                   /\ av' = [av EXCEPT !.bins = left, !.binmap = binmap]
              ELSE /\ chunk' = split(chunk, v, nb)
                   /\ av' = [av EXCEPT !.bins = on_unsorted(left, v + nb), !.binmap = binmap,
                               !.last_remainder = IF remember THEN v + nb ELSE @]
           /\ Returns(v, TRUE)

(* The smallest chunk that fits in the bin of a large request; of several  *)
(* of its size the second, which no skip list names.                       *)
Fits(bin, nb) == {i \in DOMAIN bin : chunk[bin[i]].size >= nb}

best_fit(bin, nb) ==
  LET least == {i \in Fits(bin, nb) : \A j \in Fits(bin, nb) : chunk[bin[i]].size <= chunk[bin[j]].size}
      i == CHOOSE j \in least : \A k \in least : j <= k
  IN  IF i + 1 \in least THEN bin[i + 1] ELSE bin[i]

own_bin == IF in_smallbin_range(op.nb) THEN << >> ELSE av.bins[largebin_index(op.nb)]

SearchOwn ==
  /\ At("search")
  /\ Fits(own_bin, op.nb) # {}
  /\ Takes(best_fit(own_bin, op.nb), op.nb, av.binmap, FALSE)
  /\ UNCHANGED <<tcache, rest>>

(* The next larger bin that is not empty, by the bits of binmap; bits of   *)
(* empty bins on the way are cleared.                                      *)
marked(nb) == {i \in av.binmap : i > bin_index(nb)}

nonempty(nb) == {i \in marked(nb) : av.bins[i] # << >>}

seen_empty(nb) ==
  {i \in marked(nb) : av.bins[i] = << >> /\ \A j \in nonempty(nb) : i < j}

SearchBins ==
  /\ At("search")
  /\ Fits(own_bin, op.nb) = {}
  /\ nonempty(op.nb) # {}
  /\ LET i == CHOOSE j \in nonempty(op.nb) : \A k \in nonempty(op.nb) : j <= k
     IN  Takes(Last(av.bins[i]), op.nb, av.binmap \ seen_empty(op.nb),
               in_smallbin_range(op.nb))
  /\ UNCHANGED <<tcache, rest>>

(* av->top serves a request of nb.                                         *)
top_moves(arena, top) ==
  [arena EXCEPT !.top = top,
                !.dirty = IF top + CHUNK_HDR_SZ > @ THEN top + CHUNK_HDR_SZ ELSE @]

FromTop(nb, arena) ==
  /\ chunk' = With(With(chunk, av.top + nb, Head2(top_size - nb)), av.top, Head2(nb))
  /\ av' = top_moves(arena, av.top + nb)
  /\ Returns(av.top, TRUE)

top_serves(nb) == top_size >= nb + MINSIZE

UseTop ==
  /\ At("search")
  /\ Fits(own_bin, op.nb) = {} /\ nonempty(op.nb) = {}
  /\ LET cleared == [av EXCEPT !.binmap = @ \ seen_empty(op.nb)]
     IN  IF top_size > av.system_mem THEN Abort /\ UNCHANGED <<heap, ret>>
         ELSE IF top_serves(op.nb) THEN FromTop(op.nb, cleared)
         ELSE /\ IF av.have_fastchunks
                 THEN Continue(<<consolidate, [op EXCEPT !.at = "unsorted"]>>)
                        /\ av' = consolidating(cleared)
                 ELSE Goto("sysmalloc") /\ av' = cleared
              /\ UNCHANGED <<chunk, ret>>
  /\ UNCHANGED <<tcache, rest>>

-----------------------------------------------------------------------------
(* malloc_consolidate and _int_free                                        *)

(* The free chunk that p and its free neighbours make, and the checks on   *)
(* the way.                                                                *)
merges_back(p)  == ~chunk[p].prev_inuse
merges_fore(p)  == next_chunk(p) # av.top /\ ~inuse(next_chunk(p))
prev_chunk(p)   == p - chunk[p].prev_size

neighbours(p) ==
  (IF merges_back(p) THEN {prev_chunk(p)} ELSE {})
    \cup (IF merges_fore(p) THEN {next_chunk(p)} ELSE {})

merge_ok(p) ==
  /\ merges_back(p) => /\ prev_chunk(p) \in DOMAIN chunk
                       /\ chunk[prev_chunk(p)].size = chunk[p].prev_size
  /\ \A q \in neighbours(p) : unlink_ok(q)

merged_at(p) == IF merges_back(p) THEN prev_chunk(p) ELSE p

merged_size(p) ==
  chunk[p].size
    + (IF merges_back(p) THEN chunk[p].prev_size ELSE 0)
    + (IF merges_fore(p) \/ next_chunk(p) = av.top THEN chunk[next_chunk(p)].size ELSE 0)

(* It becomes top, or the newest unsorted chunk.                           *)
merged_arena(p, arena) ==
  LET back == IF merges_back(p) THEN unlinked(arena.bins, prev_chunk(p)) ELSE arena.bins
      left == IF merges_fore(p) THEN unlinked(back, next_chunk(p)) ELSE back
  IN  IF next_chunk(p) = av.top THEN [arena EXCEPT !.bins = left, !.top = merged_at(p)]
      ELSE [arena EXCEPT !.bins = on_unsorted(left, merged_at(p))]

merged_chunks(p) ==
  LET apart == Without(chunk, {p, next_chunk(p)} \cap ({p} \cup neighbours(p) \cup {av.top}))
  IN  IF next_chunk(p) = av.top
      THEN With(apart, merged_at(p), Head2(merged_size(p)))
      ELSE set_free(apart, merged_at(p), merged_size(p))

(* malloc_consolidate, one chunk at a time.                                *)
Consolidate ==
  /\ At("consolidate")
  /\ LET full == {i \in DOMAIN av.fastbins : av.fastbins[i] # << >>}
         i == CHOOSE j \in full : \A k \in full : j <= k
         p == Head(av.fastbins[i])
     IN  IF full = {} THEN Return /\ UNCHANGED heap
         ELSE IF fastbin_index(chunk[p].size) # i \/ ~merge_ok(p)
         THEN Abort /\ UNCHANGED <<heap, ret>>
         ELSE /\ av' = merged_arena(p, [av EXCEPT !.fastbins[i] = Tail(@)])
              /\ chunk' = merged_chunks(p)
              /\ UNCHANGED <<call, ret>>
  /\ UNCHANGED <<tcache, rest>>

frees_to_cache(p) == tcache_room(chunk[p].size) > 0

frees_fast(p) == ~frees_to_cache(p) /\ chunk[p].size <= mp.max_fast

next_size_ok(p) == ~no_chunk(next_chunk(p)) /\ chunk[next_chunk(p)].size < av.system_mem

free_ok(p) ==
  LET size == chunk[p].size
  IN  /\ size >= MINSIZE /\ size % MALLOC_ALIGNMENT = 0
      /\ tcache_fits(size) => p \notin ToSet(tcache.entries[csize2tidx(size)])

FreeToCache ==
  /\ At("int_free") /\ frees_to_cache(op.p)
  /\ IF ~free_ok(op.p) THEN Abort /\ UNCHANGED <<tcache, ret>>
     ELSE Return /\ tcache' = tcache_puts(chunk[op.p].size, <<op.p>>)
  /\ UNCHANGED <<heap, rest>>

fast_free(p, i) ==
  [av EXCEPT !.fastbins[i] = <<p>> \o @, !.have_fastchunks = TRUE]

fast_free_ok(p, i) ==
  /\ free_ok(p) /\ next_size_ok(p)
  /\ av.fastbins[i] # << >> =>
       av.fastbins[i][1] # p /\ fastbin_index(chunk[av.fastbins[i][1]].size) = i

FreeFast ==
  /\ At("int_free") /\ frees_fast(op.p)
  /\ LET i == fastbin_index(chunk[op.p].size)
     IN  IF fast_free_ok(op.p, i) THEN Return /\ av' = fast_free(op.p, i)
                                  ELSE Abort /\ UNCHANGED <<av, ret>>
  /\ UNCHANGED <<chunk, tcache, rest>>

normal_free_ok(p) ==
  /\ free_ok(p)
  /\ p # av.top
  /\ av.contiguous => next_chunk(p) < av.top + top_size
  /\ chunk[next_chunk(p)].prev_inuse
  /\ next_size_ok(p)
  /\ merge_ok(p)

FreeMerge ==
  /\ At("int_free") /\ ~frees_to_cache(op.p) /\ ~frees_fast(op.p)
  /\ IF ~normal_free_ok(op.p) THEN Abort /\ UNCHANGED <<heap, ret>>
     ELSE LET large == merged_size(op.p) >= FASTBIN_CONSOLIDATION_THRESHOLD
              first == IF large /\ av.have_fastchunks
                       THEN <<consolidate>> ELSE << >>
          IN  /\ chunk' = merged_chunks(op.p)
              /\ av' = merged_arena(op.p, IF first = << >> THEN av ELSE consolidating(av))
              /\ IF large THEN Continue(first \o <<Frame("free_trim", mp.top_pad, NULL, 0)>>)
                          ELSE Continue(<< >>)
              /\ ret' = NoReturn
  /\ UNCHANGED <<tcache, rest>>

FreeTrim ==
  /\ At("free_trim")
  /\ IF top_size >= mp.trim_threshold THEN Goto("systrim") /\ UNCHANGED ret ELSE Return
  /\ UNCHANGED <<heap, tcache, rest>>

-----------------------------------------------------------------------------
(* sysmalloc and systrim                                                   *)

(* The pages of an mmap of n pages at page i, and where one fits.          *)
run(i, n) == i..i + n - 1

Places(n, free) == {i \in MMAP_PAGES : run(i, n) \subseteq MMAP_PAGES \cap free}

mmap_size(nb) == ALIGN_UP(nb + SIZE_SZ, PAGE)

tries_mmap(nb) == nb >= mp.mmap_threshold /\ mp.n_mmaps < mp.n_mmaps_max

(* A large request gets pages of its own, if the system has them.          *)
SysmallocMmap ==
  /\ At("sysmalloc") /\ tries_mmap(op.nb)
  /\ LET size == mmap_size(op.nb)
         n == size \div PAGE
     IN  \E i \in Places(n, MMAP_PAGES \ pages) :
           /\ mapped' = With(mapped, i * PAGE, [size |-> size, prev_size |-> 0])
           /\ mp' = [mp EXCEPT !.n_mmaps = @ + 1, !.mmapped_mem = @ + size]
           /\ pages' = pages \cup run(i, n)
           /\ Returns(i * PAGE, FALSE)
  /\ UNCHANGED <<heap, tcache, brk, setup, held>>

old_end == av.top + top_size

(* The assertions on the incoming top.                                     *)
old_top_ok(nb) ==
  /\ av.top # NULL => /\ top_size >= MINSIZE /\ chunk[av.top].prev_inuse
                      /\ old_end % PAGE = 0
  /\ top_size < nb + MINSIZE

SysmallocHeap ==
  /\ At("sysmalloc")
  /\ ~tries_mmap(op.nb) \/ Places(mmap_size(op.nb) \div PAGE, MMAP_PAGES \ pages) = {}
  /\ IF old_top_ok(op.nb) THEN Goto("morecore") ELSE Abort
  /\ UNCHANGED <<heap, tcache, ret, rest>>

more(nb) ==
  ALIGN_UP(nb + mp.top_pad + MINSIZE - (IF av.contiguous THEN top_size ELSE 0), PAGE)

sbrk_gives(n) == brk + n \in BRK_START..BRK_LIMIT

based(start) == [mp EXCEPT !.sbrk_base = IF @ = NULL THEN start ELSE @]

(* sbrk continues top.                                                     *)
ExtendTop ==
  /\ At("morecore")
  /\ sbrk_gives(more(op.nb)) /\ brk = old_end
  /\ brk' = brk + more(op.nb)
  /\ chunk' = [chunk EXCEPT ![av.top].size = @ + more(op.nb), ![av.top].prev_inuse = TRUE]
  /\ av' = [av EXCEPT !.system_mem = @ + more(op.nb)]
  /\ Goto("carve")
  /\ UNCHANGED <<mapped, mp, tcache, pages, setup, ret, held>>

(* A new top; two fenceposts at the end of the old one, whose rest is      *)
(* freed.                                                                  *)
fenced(c) ==
  LET left == ALIGN_DOWN(top_size - 2 * CHUNK_HDR_SZ, MALLOC_ALIGNMENT)
      post == av.top + left
      cut  == With(With(c, av.top, Head2(left)), post, Head2(CHUNK_HDR_SZ))
  IN  With(cut, post + CHUNK_HDR_SZ, Head2(CHUNK_HDR_SZ))

releases_old_top == top_size >= MINSIZE + 2 * CHUNK_HDR_SZ

NewTop(top, size) ==
  LET c == IF av.top = NULL THEN chunk ELSE fenced(chunk)
      carve == [op EXCEPT !.at = "carve"]
  IN  /\ chunk' = With(c, top, Head2(size))
      /\ IF releases_old_top
         THEN Continue(<<Frame("int_free", 0, av.top, 0), carve>>)
         ELSE Continue(<<carve>>)

(* The memory that aligns what sbrk gave at start and makes up for the old *)
(* top is asked for in a second call, which may fail.                      *)
misalign(start) == ALIGN_UP(start, MALLOC_ALIGNMENT) - start

correction(start, size) ==
  LET c == misalign(start) + top_size
      end == start + size + c
  IN  c + ALIGN_UP(end, PAGE) - end

foreign_gap == IF av.top = NULL THEN 0 ELSE brk - old_end

NewRegion ==
  /\ At("morecore") /\ av.contiguous
  /\ sbrk_gives(more(op.nb)) /\ brk # old_end
  /\ LET size == more(op.nb)
         second == correction(brk, size)
         got == IF sbrk_gives(size + second) THEN second ELSE 0
     IN  /\ brk' = brk + size + got
         /\ IF brk < old_end THEN Abort /\ UNCHANGED heap  \* somebody else killed our space
            ELSE /\ NewTop(brk + misalign(brk), size - misalign(brk) + got)
                 /\ av' = [av EXCEPT !.top = brk + misalign(brk),
                                     !.system_mem = @ + size + foreign_gap + got]
  /\ mp' = based(brk)
  /\ UNCHANGED <<mapped, tcache, pages, setup, ret, held>>

(* Not contiguous: what sbrk gives must be aligned.                        *)
NewRegionApart ==
  /\ At("morecore") /\ ~av.contiguous
  /\ sbrk_gives(more(op.nb)) /\ brk # old_end
  /\ brk' = brk + more(op.nb)
  /\ IF misalign(brk) > 0 THEN Abort /\ UNCHANGED heap
     ELSE /\ NewTop(brk, more(op.nb))
          /\ av' = [av EXCEPT !.top = brk, !.system_mem = @ + more(op.nb)]
  /\ mp' = based(brk)
  /\ UNCHANGED <<mapped, tcache, pages, setup, ret, held>>

(* sbrk fails: mmap as a backup, in larger units.                          *)
backup_size(nb) ==
  LET size == IF av.contiguous THEN ALIGN_UP(more(nb) + top_size, PAGE) ELSE more(nb)
  IN  IF size < MMAP_AS_MORECORE_SIZE THEN MMAP_AS_MORECORE_SIZE ELSE size

set_noncontiguous(arena) == [arena EXCEPT !.contiguous = FALSE]

backup_places(nb) == Places(backup_size(nb) \div PAGE, MMAP_PAGES \ pages)

MmapBackup ==
  /\ At("morecore") /\ ~sbrk_gives(more(op.nb))
  /\ LET size == backup_size(op.nb)
     IN  \E i \in backup_places(op.nb) :
           /\ pages' = pages \cup run(i, size \div PAGE)
           /\ NewTop(i * PAGE, size)
           /\ av' = [set_noncontiguous(av) EXCEPT !.top = i * PAGE, !.system_mem = @ + size]
           /\ mp' = based(i * PAGE)
  /\ UNCHANGED <<mapped, tcache, brk, setup, ret, held>>

NoMore ==
  /\ At("morecore") /\ ~sbrk_gives(more(op.nb)) /\ backup_places(op.nb) = {}
  /\ Goto("carve")
  /\ UNCHANGED <<heap, tcache, ret, rest>>

Carve ==
  /\ At("carve")
  /\ LET grown == [av EXCEPT !.max_system_mem = IF av.system_mem > @ THEN av.system_mem ELSE @]
     IN  IF top_serves(op.nb) THEN FromTop(op.nb, grown)
         ELSE Return /\ av' = grown /\ UNCHANGED chunk
  /\ UNCHANGED <<tcache, rest>>

(* systrim.  top_area <= pad compares unsigned numbers: a top of MINSIZE   *)
(* has an area of -1, which is larger than any pad.                        *)
trim_extra(pad) ==
  LET area == top_size - MINSIZE - 1
  IN  IF area >= 0 /\ area <= pad THEN 0 ELSE ALIGN_DOWN(area - pad, PAGE)

Systrim ==
  /\ At("systrim")
  /\ LET extra == trim_extra(op.nb)
     IN  IF brk = old_end /\ extra # 0 /\ sbrk_gives(-extra)
         THEN /\ brk' = brk - extra
              /\ chunk' = [chunk EXCEPT ![av.top].size = @ - extra, ![av.top].prev_inuse = TRUE]
              /\ av' = [av EXCEPT !.system_mem = @ - extra]
         ELSE UNCHANGED <<brk, heap>>
  /\ Return
  /\ UNCHANGED <<mapped, mp, tcache, pages, setup, held>>

-----------------------------------------------------------------------------
(* Chunks of their own mapping                                             *)

block(p)      == p - mapped[p].prev_size
total_size(p) == mapped[p].prev_size + mapped[p].size

own_pages(p) == run(block(p) \div PAGE, total_size(p) \div PAGE)

mapping_ok(p) ==
  /\ block(p) % PAGE = 0 /\ total_size(p) % PAGE = 0
  /\ (p + CHUNK_HDR_SZ) % PAGE \in {0} \cup {2^k : k \in 0..30}

(* __libc_free of such a chunk may raise the thresholds; munmap_chunk.     *)
adjusts(size) ==
  ~mp.no_dyn_threshold /\ size >= mp.mmap_threshold /\ size < MMAP_THRESHOLD_MAX

unmapped(p, par) == [par EXCEPT !.n_mmaps = @ - 1, !.mmapped_mem = @ - total_size(p)]

LibcFreeMapped ==
  /\ At("libc_free") /\ op.p \in DOMAIN mapped
  /\ LET size == mapped[op.p].size
         par == IF ~adjusts(size) THEN mp
                ELSE [mp EXCEPT !.mmap_threshold = size, !.trim_threshold = 2 * size]
     IN  IF mapping_ok(op.p)
         THEN /\ mp' = unmapped(op.p, par)
              /\ mapped' = Without(mapped, {op.p})
              /\ pages' = pages \ own_pages(op.p)
              /\ Return
         ELSE Abort /\ UNCHANGED <<mp, mapped, pages, ret>>
  /\ UNCHANGED <<heap, tcache, brk, setup, held>>

(* mremap_chunk: the pages may move, p stays as far into them as before.   *)
wrong_remapped_size(p, nb) == ALIGN_UP(nb + SIZE_SZ, PAGE)  \* the offset forgotten

remapped_size(p, nb) == ALIGN_UP(nb + mapped[p].prev_size + SIZE_SZ, PAGE)

remap_places(p, nb) ==
  Places(remapped_size(p, nb) \div PAGE, (MMAP_PAGES \ pages) \cup own_pages(p))

AtMremap == At("libc_realloc") /\ op.p \in DOMAIN mapped

MremapSame ==
  /\ AtMremap /\ mapping_ok(op.p) /\ remapped_size(op.p, op.nb) = total_size(op.p)
  /\ Gives(op.p)
  /\ UNCHANGED <<heap, tcache, rest>>

MremapMoves ==
  /\ AtMremap /\ mapping_ok(op.p) /\ remapped_size(op.p, op.nb) # total_size(op.p)
  /\ LET size == remapped_size(op.p, op.nb)
         offset == mapped[op.p].prev_size
     IN  \E i \in remap_places(op.p, op.nb) :
           LET p == i * PAGE + offset
           IN  /\ mapped' = With(Without(mapped, {op.p}), p,
                                [size |-> size - offset, prev_size |-> offset])
               /\ pages' = (pages \ own_pages(op.p)) \cup run(i, size \div PAGE)
               /\ mp' = [mp EXCEPT !.mmapped_mem = @ + size - total_size(op.p)]
               /\ Gives(p)
  /\ UNCHANGED <<heap, tcache, brk, setup, held>>

(* mremap fails: the chunk is large enough, or is copied to a new one.     *)
MremapFails ==
  /\ AtMremap
  /\ mapping_ok(op.p) => remapped_size(op.p, op.nb) # total_size(op.p)
  /\ IF ~mapping_ok(op.p) THEN Abort /\ UNCHANGED ret
     ELSE IF mapped[op.p].size - SIZE_SZ >= op.nb
     THEN Gives(op.p)
     ELSE Continue(<<Frame("libc_malloc", op.nb, NULL, 0), [op EXCEPT !.at = "mapped_copied"]>>)
            /\ UNCHANGED ret
  /\ UNCHANGED <<heap, tcache, rest>>

MappedCopied ==
  /\ At("mapped_copied")
  /\ IF ret.p = NULL THEN Return /\ UNCHANGED <<mp, mapped, pages>>
     ELSE /\ mp' = unmapped(op.p, mp)
          /\ mapped' = Without(mapped, {op.p})
          /\ pages' = pages \ own_pages(op.p)
          /\ Gives(ret.p)
  /\ UNCHANGED <<heap, tcache, brk, setup, held>>

-----------------------------------------------------------------------------
(* __libc_malloc, __libc_free and the thread cache's life                  *)

(* MAYBE_INIT_TCACHE: the cache lives in a chunk of the heap.              *)
init_tcache ==
  IF tcache.block = NULL /\ ~tcache.shutting_down
  THEN <<Frame("int_malloc", request2size(TCACHE_SIZE), NULL, 0),
         Frame("tcache_init", 0, NULL, 0)>>
  ELSE << >>

TcacheInit ==
  /\ At("tcache_init")
  /\ tcache' = [tcache EXCEPT !.block = ret.p]
  /\ Return
  /\ UNCHANGED <<heap, rest>>

LibcMalloc ==
  /\ At("libc_malloc")
  /\ Continue(init_tcache \o <<[op EXCEPT !.at = "malloc_cached"]>>)
  /\ UNCHANGED <<heap, tcache, ret, rest>>

MallocCached ==
  /\ At("malloc_cached")
  /\ IF tcache_cached(op.nb) # << >>
     THEN Returns(tcache_cached(op.nb)[1], FALSE) /\ tcache' = tcache_get(op.nb)
     ELSE Goto("int_malloc") /\ UNCHANGED <<tcache, ret>>
  /\ UNCHANGED <<heap, rest>>

(* __libc_calloc does not look at the thread cache.  Of a chunk that was   *)
(* top it clears only old_top_size, what top or earlier heaps may have     *)
(* held: the rest is fresh from sbrk.                                      *)
LibcCalloc ==
  /\ At("libc_calloc")
  /\ Continue(init_tcache \o <<[op EXCEPT !.at = "calloc"]>>)
  /\ UNCHANGED <<heap, tcache, ret, rest>>

wrong_old_top_size == top_size

old_top_size ==
  LET most == mp.sbrk_base + av.max_system_mem - av.top
  IN  IF top_size < most \/ most < 0 THEN most ELSE top_size

CallocMalloc ==
  /\ At("calloc")
  /\ Continue(<<[op EXCEPT !.at = "int_malloc"],
                Frame("calloc_clear", av.dirty, av.top, old_top_size)>>)
  /\ UNCHANGED <<heap, tcache, ret, rest>>

clears(p) ==
  IF p = op.p /\ chunk[p].size > op.x /\ op.x >= 0 THEN op.x ELSE chunk[p].size

CallocClear ==
  /\ At("calloc_clear")
  /\ Gives(ret.p)
  /\ UNCHANGED <<heap, tcache, rest>>

LibcFree ==
  /\ At("libc_free") /\ op.p \notin DOMAIN mapped
  /\ Continue(init_tcache \o <<[op EXCEPT !.at = "int_free"]>>)
  /\ UNCHANGED <<heap, tcache, ret, rest>>

(* tcache_thread_shutdown frees what is cached, one by one, then the cache *)
(* itself, which no other function sees any more.                          *)
ThreadShutdown ==
  /\ call = << >> /\ tcache.block # NULL
  /\ call' = <<Frame("tcache_thread_shutdown", 0, tcache.block, 0)>>
  /\ tcache' = [tcache EXCEPT !.block = NULL, !.shutting_down = TRUE]
  /\ UNCHANGED <<heap, ret, rest>>

wrong_cached_lists == {}  \* the entries forgotten

cached_lists == {i \in DOMAIN tcache.entries : tcache.entries[i] # << >>}

FreeCached ==
  /\ At("tcache_thread_shutdown")
  /\ IF cached_lists = {} THEN Goto("libc_free") /\ UNCHANGED tcache
     ELSE LET i == CHOOSE j \in cached_lists : \A k \in cached_lists : j <= k
          IN  /\ Continue(<<Frame("libc_free", 0, Head(tcache.entries[i]), 0), op>>)
              /\ tcache' = [tcache EXCEPT !.entries[i] = Tail(@)]
  /\ UNCHANGED <<heap, ret, rest>>

-----------------------------------------------------------------------------
(* realloc                                                                 *)

done(p) == Frame("done", 0, p, 0)

Done == At("done") /\ Gives(op.p) /\ UNCHANGED <<heap, tcache, rest>>

LibcRealloc ==
  /\ At("libc_realloc") /\ op.p \notin DOMAIN mapped
  /\ Continue(init_tcache \o <<[op EXCEPT !.at = "int_realloc"]>>)
  /\ UNCHANGED <<heap, tcache, ret, rest>>

(* p has newsize; what op.nb leaves of it is freed.                        *)
Resized(c, p, newsize) ==
  LET known == set_inuse_bit_at(c, p + newsize)
  IN  IF newsize - op.nb < MINSIZE
      THEN chunk' = [known EXCEPT ![p].size = newsize] /\ Gives(p)
      ELSE /\ chunk' = With([known EXCEPT ![p].size = op.nb], p + op.nb, Head2(newsize - op.nb))
           /\ Continue(<<Frame("int_free", 0, p + op.nb, 0), done(p)>>)
           /\ ret' = NoReturn

realloc_ok(p) ==
  ~no_chunk(p) /\ chunk[p].size < av.system_mem /\ next_size_ok(p)

size_with_next(p) == chunk[p].size + chunk[next_chunk(p)].size

grows_into_top(p, nb) == next_chunk(p) = av.top /\ size_with_next(p) >= nb + MINSIZE

grows_into_next(p, nb) ==
  next_chunk(p) # av.top /\ ~inuse(next_chunk(p)) /\ size_with_next(p) >= nb

AtRealloc == At("int_realloc") /\ realloc_ok(op.p)

ReallocShrinks ==
  /\ AtRealloc /\ chunk[op.p].size >= op.nb
  /\ Resized(chunk, op.p, chunk[op.p].size)
  /\ UNCHANGED <<av, tcache, rest>>

ReallocIntoTop ==
  /\ AtRealloc /\ chunk[op.p].size < op.nb
  /\ grows_into_top(op.p, op.nb)
  /\ chunk' = With([Without(chunk, {av.top}) EXCEPT ![op.p].size = op.nb],
                   op.p + op.nb, Head2(size_with_next(op.p) - op.nb))
  /\ av' = top_moves(av, op.p + op.nb)
  /\ Gives(op.p)
  /\ UNCHANGED <<tcache, rest>>

ReallocIntoNext ==
  /\ AtRealloc /\ chunk[op.p].size < op.nb
  /\ grows_into_next(op.p, op.nb)
  /\ IF ~unlink_ok(next_chunk(op.p)) THEN Abort /\ UNCHANGED <<heap, ret>>
     ELSE /\ Resized(Without(chunk, {next_chunk(op.p)}), op.p, size_with_next(op.p))
          /\ av' = [av EXCEPT !.bins = unlinked(@, next_chunk(op.p))]
  /\ UNCHANGED <<tcache, rest>>

(* It asks for nb - MALLOC_ALIGN_MASK bytes.                               *)
wrong_moved_size(nb) == request2size(nb - chunk[op.p].size)  \* what is missing
moved_size(nb) == request2size(nb - MALLOC_ALIGN_MASK)

ReallocElsewhere ==
  /\ At("int_realloc")
  /\ IF ~realloc_ok(op.p) THEN Abort
     ELSE /\ chunk[op.p].size < op.nb
          /\ ~grows_into_top(op.p, op.nb) /\ ~grows_into_next(op.p, op.nb)
          /\ Continue(<<Frame("int_malloc", moved_size(op.nb), NULL, 0),
                        [op EXCEPT !.at = "realloc_copied"]>>)
  /\ UNCHANGED <<heap, tcache, ret, rest>>

(* The new chunk may be the one right behind, then p keeps both.           *)
ReallocCopied ==
  /\ At("realloc_copied")
  /\ IF ret.p = NULL THEN Return /\ UNCHANGED chunk
     ELSE IF ret.p = next_chunk(op.p)
     THEN Resized(Without(chunk, {ret.p}), op.p, size_with_next(op.p))
     ELSE /\ Continue(<<Frame("int_free", 0, op.p, 0), done(ret.p)>>)
          /\ ret' = NoReturn
          /\ UNCHANGED chunk
  /\ UNCHANGED <<av, tcache, rest>>

-----------------------------------------------------------------------------
(* memalign                                                                *)

(* The power of two that an alignment is raised to; none is larger than    *)
(* MAX_ALIGNMENT.                                                          *)
alignment_for(a) ==
  LET powers == {MALLOC_ALIGNMENT * d : d \in Doublings}
      least == IF a < MINSIZE THEN MINSIZE ELSE a
  IN  CHOOSE b \in powers : b >= least /\ \A c \in powers : c >= least => b <= c

LibcMemalign ==  \* op.x is the alignment
  /\ At("libc_memalign")
  /\ IF op.x <= MALLOC_ALIGNMENT
     THEN Continue(<<[op EXCEPT !.at = "libc_malloc", !.x = 0]>>)
     ELSE LET a == alignment_for(op.x)
          IN  Continue(<<Frame("int_malloc", request2size(op.nb + a + MINSIZE), NULL, 0),
                         [op EXCEPT !.at = "memalign_lead", !.x = a]>>)
  /\ UNCHANGED <<heap, tcache, ret, rest>>

(* The first aligned place that leaves a chunk in front.                   *)
aligned_at(p, a) ==
  LET at == ALIGN_UP(p + CHUNK_HDR_SZ, a) - CHUNK_HDR_SZ
  IN  IF at = p \/ at - p >= MINSIZE THEN at ELSE at + a

MemalignLead ==
  /\ At("memalign_lead")
  /\ IF ret.p = NULL THEN Return /\ UNCHANGED <<chunk, mapped>>
     ELSE LET p == ret.p
              newp == aligned_at(p, op.x)
              lead == newp - p
              tail == [op EXCEPT !.at = "memalign_tail", !.p = newp]
          IN  IF p \in DOMAIN mapped
              THEN /\ mapped' = With(Without(mapped, {p}), newp,
                                    [size |-> mapped[p].size - lead,
                                     prev_size |-> mapped[p].prev_size + lead])
                   /\ Gives(newp)
                   /\ UNCHANGED chunk
              ELSE IF lead > 0 /\ chunk[p].size - lead < op.nb
              THEN Abort /\ UNCHANGED <<chunk, mapped, ret>>
              ELSE /\ IF lead = 0 THEN Continue(<<tail>>) /\ UNCHANGED chunk
                      ELSE /\ Continue(<<Frame("int_free", 0, p, 0), tail>>)
                           /\ chunk' = With([chunk EXCEPT ![p].size = lead],
                                           newp, Head2(chunk[p].size - lead))
                   /\ ret' = NoReturn
                   /\ UNCHANGED mapped
  /\ UNCHANGED <<av, mp, tcache, system, held>>

MemalignTail ==
  /\ At("memalign_tail")
  /\ LET size == chunk[op.p].size
     IN  IF size > op.nb + MINSIZE
         THEN /\ chunk' = With([chunk EXCEPT ![op.p].size = op.nb],
                              op.p + op.nb, Head2(size - op.nb))
              /\ Continue(<<Frame("int_free", 0, op.p + op.nb, 0), done(op.p)>>)
              /\ ret' = NoReturn
         ELSE Gives(op.p) /\ UNCHANGED chunk
  /\ UNCHANGED <<av, tcache, rest>>

-----------------------------------------------------------------------------
(* malloc_trim and mallopt                                                 *)

MALLOC_CHUNK == 6 * SIZE_SZ  \* sizeof (struct malloc_chunk)

wrong_advised_from(p) == ALIGN_DOWN(p + MALLOC_CHUNK, PAGE)
advised_from(p) == ALIGN_UP(p + MALLOC_CHUNK, PAGE)

(* The whole pages of a free chunk that mtrim gives back: from and size.   *)
advised(p) ==
  LET size == chunk[p].size - (advised_from(p) - p)
  IN  IF chunk[p].size > PAGE - 1 + MALLOC_CHUNK /\ size > PAGE - 1
      THEN [from |-> advised_from(p), size |-> ALIGN_DOWN(size, PAGE)]
      ELSE [from |-> advised_from(p), size |-> 0]

trimmed_bins == {i \in Bins : i = 1 \/ i >= bin_index(PAGE)}

Advised == {advised(p) : p \in UNION {ToSet(av.bins[i]) : i \in trimmed_bins}}

Mtrim ==  \* madvise changes no header
  /\ At("mtrim")
  /\ Goto("systrim")
  /\ UNCHANGED <<heap, tcache, ret, rest>>

M_MXFAST         == 1
M_TRIM_THRESHOLD == -1
M_TOP_PAD        == -2
M_MMAP_THRESHOLD == -3
M_MMAP_MAX       == -4

set_option(param, value) ==
  LET fixed == [mp EXCEPT !.no_dyn_threshold = TRUE]
  IN  CASE param = M_MXFAST ->
             IF value <= MAX_FAST_SIZE THEN [mp EXCEPT !.max_fast = max_fast(value)] ELSE mp
        [] param = M_TRIM_THRESHOLD -> [fixed EXCEPT !.trim_threshold = value]
        [] param = M_TOP_PAD        -> [fixed EXCEPT !.top_pad = value]
        [] param = M_MMAP_THRESHOLD ->  \* at most HEAP_MAX_SIZE / 2
             IF value <= MMAP_THRESHOLD_MAX THEN [fixed EXCEPT !.mmap_threshold = value] ELSE mp
        [] param = M_MMAP_MAX       -> [fixed EXCEPT !.n_mmaps_max = value]
        [] OTHER                    -> mp

Mallopt ==  \* op.p is the parameter, op.x the value
  /\ At("mallopt")
  /\ mp' = set_option(op.p, op.x)
  /\ Return
  /\ UNCHANGED <<heap, mapped, tcache, system, held>>

-----------------------------------------------------------------------------
(* The program: one call at a time                                         *)

Calls(frames) == call = << >> /\ call' = frames

(* What a call returns is the program's; of a realloc that fails, the old  *)
(* chunk stays.                                                            *)
Deliver ==
  /\ At("deliver")
  /\ held' = IF ret.p = NULL THEN held ELSE With(Without(held, {op.p}), ret.p, op.x)
  /\ Return
  /\ UNCHANGED <<heap, mapped, mp, tcache, system>>

Ask(function, bytes, p, alignment) ==
  /\ p = NULL => Cardinality(DOMAIN held) < setup.max_held
  /\ Calls(<<Frame(function, request2size(bytes), p, alignment),
             Frame("deliver", alignment, p, bytes)>>)
  /\ UNCHANGED <<heap, tcache, ret, rest>>

Free(p) ==
  /\ Calls(<<Frame("libc_free", 0, p, 0)>>)
  /\ held' = Without(held, {p})
  /\ UNCHANGED <<heap, mapped, mp, tcache, system, ret>>

TrimTo(pad) ==
  /\ Calls(<<consolidate, Frame("mtrim", pad, NULL, 0)>>)
  /\ av' = consolidating(av)
  /\ UNCHANGED <<chunk, tcache, ret, rest>>

SetOption(param, value) ==
  /\ Calls(<<consolidate, Frame("mallopt", 0, param, value)>>)
  /\ av' = consolidating(av)
  /\ UNCHANGED <<chunk, tcache, ret, rest>>

ForeignSbrk(n) ==
  /\ call = << >> /\ sbrk_gives(n)
  /\ brk' = brk + n
  /\ UNCHANGED <<heap, mapped, mp, tcache, pages, setup, call, ret, held>>

Step ==
  \/ IntMallocFast \/ IntMallocSmall \/ IntMallocOther
  \/ SplitLastRemainder \/ TakeExact \/ SortIntoBin \/ UnsortedDone
  \/ SearchOwn \/ SearchBins \/ UseTop
  \/ Consolidate \/ FreeToCache \/ FreeFast \/ FreeMerge \/ FreeTrim
  \/ SysmallocMmap \/ SysmallocHeap \/ ExtendTop \/ NewRegion
  \/ NewRegionApart \/ MmapBackup \/ NoMore \/ Carve \/ Systrim
  \/ LibcFreeMapped \/ MremapSame \/ MremapMoves \/ MremapFails \/ MappedCopied
  \/ TcacheInit \/ LibcMalloc \/ MallocCached \/ LibcCalloc \/ CallocMalloc \/ CallocClear
  \/ LibcFree \/ FreeCached
  \/ LibcRealloc \/ ReallocShrinks \/ ReallocIntoTop \/ ReallocIntoNext
  \/ ReallocElsewhere \/ ReallocCopied \/ Done
  \/ LibcMemalign \/ MemalignLead \/ MemalignTail \/ Mtrim \/ Mallopt \/ Deliver

(* The program of the setup.                                               *)
Program ==
  \/ \E b \in setup.requests : Ask("libc_malloc", b, NULL, 0)
  \/ \E b \in setup.callocs : Ask("libc_calloc", b, NULL, 0)
  \/ \E a \in setup.alignments : \E b \in setup.requests : Ask("libc_memalign", b, NULL, a)
  \/ \E p \in DOMAIN held : \E b \in setup.reallocs : Ask("libc_realloc", b, p, 0)
  \/ \E p \in DOMAIN held : Free(p)
  \/ \E pad \in setup.pads : TrimTo(pad)
  \/ \E o \in setup.options : SetOption(o[1], o[2])
  \/ \E n \in setup.foreign : ForeignSbrk(n)
  \/ ThreadShutdown

Next == Step \/ Program

Spec == Init /\ [][Next]_vars /\ WF_vars(Step)
=============================================================================
