---------------------------- MODULE PtmallocCheck ----------------------------
(***************************************************************************)
(* What the allocator of docs/malloc-impl.c promises: the checks that      *)
(* MALLOC_DEBUG compiles in, and what a program relies on.                 *)
(***************************************************************************)
EXTENDS Ptmalloc

(* What the program and the lists of the allocator have.                   *)
Cached   == IF tcache.block = NULL THEN {}
            ELSE UNION {ToSet(tcache.entries[i]) : i \in DOMAIN tcache.entries}
Fast     == UNION {ToSet(av.fastbins[i]) : i \in DOMAIN av.fastbins}
Binned   == UNION {ToSet(av.bins[i]) : i \in Bins}
Posts    == {a \in DOMAIN chunk : chunk[a].size < MINSIZE}
Quiet    == call = << >>

-----------------------------------------------------------------------------
(* The debugging checks                                                    *)

max_address == old_end
min_address == max_address - av.system_mem

check_chunk(p) ==
  IF p \in DOMAIN mapped
  THEN /\ av.contiguous /\ av.top # NULL => p < min_address \/ p >= max_address
       /\ total_size(p) % PAGE = 0
       /\ (p + CHUNK_HDR_SZ) % MALLOC_ALIGNMENT = 0
  ELSE IF p = av.top
  THEN chunk[p].size >= MINSIZE /\ chunk[p].prev_inuse
  ELSE av.contiguous => p >= min_address /\ next_chunk(p) <= av.top

check_free_chunk(p) ==
  LET sz == chunk[p].size
  IN  /\ check_chunk(p)
      /\ ~inuse(p)
      /\ sz >= MINSIZE /\ sz % MALLOC_ALIGNMENT = 0
      /\ (p + CHUNK_HDR_SZ) % MALLOC_ALIGNMENT = 0
      /\ chunk[next_chunk(p)].prev_size = sz
      /\ chunk[p].prev_inuse
      /\ next_chunk(p) = av.top \/ inuse(next_chunk(p))
      /\ p \in Binned

check_inuse_chunk(p) ==
  /\ check_chunk(p)
  /\ p \notin DOMAIN mapped =>
       /\ inuse(p)
       /\ ~chunk[p].prev_inuse => /\ prev_chunk(p) \in DOMAIN chunk
                                  /\ next_chunk(prev_chunk(p)) = p
                                  /\ check_free_chunk(prev_chunk(p))
       /\ IF next_chunk(p) = av.top THEN chunk[av.top].prev_inuse /\ top_size >= MINSIZE
          ELSE next_chunk(p) \in Posts \/ inuse(next_chunk(p)) \/ check_free_chunk(next_chunk(p))

check_remalloced_chunk(p, s) ==
  LET sz == chunk[p].size
  IN  /\ check_inuse_chunk(p)
      /\ sz % MALLOC_ALIGNMENT = 0 /\ sz >= MINSIZE
      /\ (p + CHUNK_HDR_SZ) % MALLOC_ALIGNMENT = 0
      /\ sz >= s /\ sz < s + MINSIZE

check_malloced_chunk(p, s) == check_remalloced_chunk(p, s) /\ chunk[p].prev_inuse

check_fastbin(i) ==
  \A p \in ToSet(av.fastbins[i]) :
    /\ i <= fastbin_index(mp.max_fast)
    /\ check_inuse_chunk(p)
    /\ fastbin_index(chunk[p].size) = i

check_bin(i) ==
  LET bin == av.bins[i]
  IN  /\ i >= 2 /\ i \notin av.binmap => bin = << >>
      /\ \A j \in DOMAIN bin :
           /\ check_free_chunk(bin[j])
           /\ i >= 2 => /\ bin_index(chunk[bin[j]].size) = i
                        /\ j > 1 => chunk[bin[j - 1]].size >= chunk[bin[j]].size

check_malloc_state ==
  av.top # NULL =>
    /\ av.contiguous => mp.sbrk_base + av.system_mem = old_end
    /\ mp.max_fast <= request2size(MAX_FAST_SIZE)
    /\ \A i \in DOMAIN av.fastbins : check_fastbin(i)
    /\ \A i \in Bins : check_bin(i)
    /\ check_chunk(av.top)

-----------------------------------------------------------------------------
(* int_mallinfo and musable                                                *)

sum(sizes(_), s) == MapThenSumSet(sizes, s)

chunk_size(a) == chunk[a].size

fordblks == (IF av.top = NULL THEN 0 ELSE top_size)
              + sum(chunk_size, Fast) + sum(chunk_size, Binned)
uordblks == av.system_mem - fordblks

musable(p) ==
  IF p \in DOMAIN mapped THEN mapped[p].size - CHUNK_HDR_SZ ELSE chunk[p].size - SIZE_SZ

-----------------------------------------------------------------------------
(* Properties                                                              *)

(* The types of the state; only chunks the program can reach are held.     *)
TypeOK ==
  /\ DOMAIN chunk \subseteq Nat \ {NULL}
  /\ \A a \in DOMAIN chunk : chunk[a] \in [size : Nat, prev_inuse : BOOLEAN, prev_size : Nat]
  /\ \A a \in DOMAIN mapped : mapped[a] \in [size : Nat, prev_size : Nat]
  /\ av.top \in DOMAIN chunk \cup {NULL} /\ av.system_mem \in Nat
  /\ av.binmap \subseteq Bins
  /\ brk \in Nat /\ pages \subseteq MMAP_PAGES
  /\ Quiet => DOMAIN held \subseteq (DOMAIN chunk \cup DOMAIN mapped)

(* No check of the code fails and no assertion of it: malloc_printerr is   *)
(* never reached by a program that frees what it holds once.               *)
NoAbort == ~At("abort")

(* The types of the state, and what MALLOC_DEBUG asserts: the state of the *)
(* arena between two calls and where sysmalloc checks it, each chunk where *)
(* it is returned (fresh, from a fast list, or from realloc and memalign,  *)
(* whose alignment holds too), and each chunk that is held or cached.      *)
returned_ok ==
  IF ret.nb = 0 THEN check_inuse_chunk(ret.p)
  ELSE IF ret.fresh THEN check_malloced_chunk(ret.p, ret.nb)
  ELSE check_remalloced_chunk(ret.p, ret.nb)

memaligned == op.nb > 0 /\ ret.p # NULL => (ret.p + CHUNK_HDR_SZ) % op.nb = 0

DebugChecks ==
  /\ TypeOK
  /\ Quiet \/ At("carve") => check_malloc_state
  /\ ret.p \in DOMAIN chunk => returned_ok
  /\ At("deliver") => memaligned
  /\ Quiet => \A p \in DOMAIN held \cup Cached : check_inuse_chunk(p)

(* Every chunk ends where the next one begins and has exactly one owner:   *)
(* the program, the thread cache (or it is its block), a fastbin, a bin,   *)
(* top, or it is a fencepost; no list has a chunk twice; and what mallinfo *)
(* reports covers what is in use and what is mmapped.                      *)
tiled ==
  \A a \in DOMAIN chunk :
    /\ \A b \in DOMAIN chunk : b <= a \/ b >= next_chunk(a)
    /\ a # av.top /\ a \notin Posts => next_chunk(a) \in DOMAIN chunk

reported ==
  /\ uordblks >= sum(chunk_size, (DOMAIN held \cup Cached \cup {tcache.block}) \cap DOMAIN chunk)
  /\ mp.n_mmaps = Cardinality(DOMAIN mapped)
  /\ mp.mmapped_mem = sum(total_size, DOMAIN mapped)

owners(a) ==
  {s \in 1..7 : a \in <<DOMAIN held, Cached, Fast, Binned, Posts, {av.top}, {tcache.block}>>[s]}

EveryChunkAccounted ==
  Quiet =>
    /\ tiled /\ reported
    /\ \A a \in DOMAIN chunk \cup DOMAIN mapped : Cardinality(owners(a)) = 1
    /\ Cached \cup Fast \cup Binned \subseteq DOMAIN chunk
    /\ \A i \in Bins : IsInjective(av.bins[i])
    /\ \A i \in DOMAIN av.fastbins : IsInjective(av.fastbins[i])
    /\ \A i \in DOMAIN tcache.entries : IsInjective(tcache.entries[i])

(* The memory of what the program holds, up to the end of what             *)
(* malloc_usable_size says, has room for what it asked for, is memory the  *)
(* system has given, and is shared with no other chunk's header or memory. *)
memory(p) == p + CHUNK_HDR_SZ .. p + CHUNK_HDR_SZ + musable(p) - 1

backed(w) == w \in BRK_START..brk - 1 \/ w \div PAGE \in pages

HeldIsOwned ==
  Quiet =>
    /\ \A p \in DOMAIN held :
         /\ musable(p) >= held[p]
         /\ \A w \in memory(p) : backed(w)
         /\ \A q \in DOMAIN held \ {p} : memory(p) \cap memory(q) = {}
         /\ \A q \in Cached : memory(p) \cap (q + SIZE_SZ..next_chunk(q) - 1) = {}
    /\ \A q \in {av.top} \ {NULL} : \A w \in q..old_end - 1 : backed(w)

(* The memory that realloc copies to has room for all of the old chunk.    *)
CopyFits ==
  /\ At("realloc_copied") /\ ret.p # NULL /\ ret.p # next_chunk(op.p) =>
       musable(ret.p) >= musable(op.p)
  /\ At("mapped_copied") /\ ret.p # NULL => musable(ret.p) >= musable(op.p)

(* calloc leaves no word uncleared that a chunk has ever had, while the    *)
(* arena is contiguous ("Only newly allocated memory is guaranteed to be   *)
(* cleared").                                                              *)
CallocClears ==
  At("calloc_clear") /\ av.contiguous /\ ret.p \in DOMAIN chunk =>
    clears(ret.p) = chunk[ret.p].size \/ ret.p + clears(ret.p) >= op.nb

(* A list of the thread cache has chunks of its size, tcache_count at most.*)
CacheIsBounded ==
  \A i \in DOMAIN tcache.entries :
    /\ Len(tcache.entries[i]) <= TCACHE_COUNT
    /\ Quiet => \A p \in ToSet(tcache.entries[i]) : csize2tidx(chunk[p].size) = i

(* What mtrim gives back are whole pages, with no header, link or memory   *)
(* of anyone in them.                                                      *)
TrimSparesData ==
  At("mtrim") =>
    \A r \in Advised : r.size > 0 =>
      LET words == r.from..r.from + r.size - 1
      IN  /\ r.from % PAGE = 0 /\ r.size % PAGE = 0
          /\ \A a \in DOMAIN chunk :
               words \cap (a..a + (IF a \in Binned THEN MALLOC_CHUNK ELSE chunk[a].size) - 1) = {}

(* systrim gives memory back, it does not ask for more ("systrim is an     *)
(* inverse of sorts to sysmalloc", line 2898).                             *)
TrimGivesBack == [][At("systrim") => brk' <= brk]_vars

(* Every call returns: no path of consolidation and search goes round.     *)
EveryCallReturns == (call # << >>) ~> (call = << >>)
=============================================================================
