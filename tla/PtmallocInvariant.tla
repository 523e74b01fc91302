-------------------------- MODULE PtmallocInvariant --------------------------
(***************************************************************************)
(* The inductive invariant behind the properties of PtmallocCheck that do  *)
(* not need malloc-impl.c's checks to succeed: whatever chunk a call works *)
(* on, no two chunks overlap and none has two owners, or the program has   *)
(* been aborted.  The parts are operators of chunks, mappings and stacks,  *)
(* since a step is a change of one of them.  CInv is what calloc relies on *)
(* besides.                                                                *)
(***************************************************************************)
EXTENDS PtmallocCheck

-----------------------------------------------------------------------------
(* Chunks                                                                  *)

Headers == [size : Nat, prev_inuse : BOOLEAN, prev_size : Int]

(* Chunks have headers of their own and do not overlap.                    *)
Laid(c) ==
  /\ DOMAIN c \subseteq Nat \ {0} /\ c \in [DOMAIN c -> Headers]
  /\ \A a \in DOMAIN c : c[a].size >= CHUNK_HDR_SZ
  /\ \A a, b \in DOMAIN c : a < b => a + c[a].size <= b

words(c, a) == a..a + c[a].size - 1

(* The pages of a mapping of its own, and the words left to the arena: r   *)
(* is what sbrk has given, g the pages that mmap has.                      *)
own(m, p) == run((p - m[p].prev_size) \div PAGE, (m[p].prev_size + m[p].size) \div PAGE)

Arena(w, m, r, g) ==
  \/ w \in r
  \/ w \div PAGE \in g /\ \A p \in DOMAIN m : w \div PAGE \notin own(m, p)

Given(c, m, r, g) == \A a \in DOMAIN c : \A w \in words(c, a) : Arena(w, m, r, g)

(* Mappings are whole pages that the system has given, each to one.        *)
Mapped(m, g) ==
  /\ DOMAIN m \subseteq Nat \ {0} /\ m \in [DOMAIN m -> [size : Nat, prev_size : Nat]]
  /\ \A p \in DOMAIN m :
       /\ m[p].size > 0 /\ p - m[p].prev_size \in Nat
       /\ (p - m[p].prev_size) % PAGE = 0 /\ (m[p].prev_size + m[p].size) % PAGE = 0
       /\ own(m, p) \subseteq g
  /\ \A p, q \in DOMAIN m : p # q => own(m, p) \cap own(m, q) = {}

(* What a chunk has for the program, as malloc_usable_size says.           *)
room(p, c, m) == IF p \in DOMAIN m THEN m[p].size - CHUNK_HDR_SZ ELSE c[p].size - SIZE_SZ

-----------------------------------------------------------------------------
(* Lists                                                                   *)

Elements(lists) == UNION {ToSet(lists[i]) : i \in DOMAIN lists}

Once(lists) ==
  \A i, j \in DOMAIN lists : \A k \in DOMAIN lists[i], l \in DOMAIN lists[j] :
    lists[i][k] = lists[j][l] => i = j /\ k = l

(* A chunk is on one list of a family at most, and of a size for it.       *)
Fit(lists, c) ==
  \A i \in DOMAIN lists : \A k \in DOMAIN lists[i] :
    lists[i][k] \in DOMAIN c /\ Aligned(c[lists[i][k]].size)

CacheOK(entries, c) ==
  /\ Once(entries) /\ Fit(entries, c)
  /\ \A i \in DOMAIN entries : \A k \in DOMAIN entries[i] :
       csize2tidx(c[entries[i][k]].size) = i

FastOK(fastbins, c) ==
  /\ Once(fastbins) /\ Fit(fastbins, c)
  /\ \A i \in DOMAIN fastbins : \A k \in DOMAIN fastbins[i] :
       fastbin_index(c[fastbins[i][k]].size) = i

BinsOK(bins, c) ==
  /\ Once(bins) /\ Fit(bins, c)
  /\ \A i \in DOMAIN bins \ {Unsorted} : \A k \in DOMAIN bins[i] :
       bin_index(c[bins[i][k]].size) = i

-----------------------------------------------------------------------------
(* The stack of calls                                                      *)

Mallocs   == {"int_malloc", "unsorted", "search", "sysmalloc", "morecore", "carve"}
Askers    == {"libc_malloc", "malloc_cached", "libc_calloc", "calloc"}
Reallocs  == {"libc_realloc", "int_realloc", "realloc_copied", "mapped_copied"}
Memaligns == {"libc_memalign", "memalign_lead", "memalign_tail"}
Frees     == {"libc_free", "int_free", "tcache_thread_shutdown"}
Others    == {"consolidate", "free_trim", "systrim", "mtrim", "mallopt", "tcache_init",
              "calloc_clear", "done", "deliver", "nothing"}

Labels == Mallocs \cup Askers \cup Reallocs \cup Memaligns \cup Frees \cup Others

Frames == [at : Labels, nb : Nat, p : Int, x : Int]

Nothing == Frame("nothing", 0, NULL, 0)

(* Frames that have a chunk of their own, and frames that return one.      *)
Holders == Reallocs \cup Frees \cup {"done", "memalign_tail"}
Givers  == Mallocs \cup Askers \cup Reallocs \cup Memaligns \cup {"calloc_clear", "done"}

Holds(f) == IF f.at \in Holders THEN {f.p} ELSE {}

OnStack(s) == UNION {Holds(s[i]) : i \in DOMAIN s}

(* The program's call at the bottom, and what it has asked about.          *)
Base(s) == IF s # << >> /\ s[Len(s)].at = "deliver" THEN s[Len(s)] ELSE Nothing

Topmost(s) == IF s = << >> THEN Nothing ELSE s[1]

Under(s, i) == IF i < Len(s) THEN s[i + 1] ELSE Nothing

(* The least size of the chunk that is returned to a frame.                *)
Needy == {"deliver", "calloc_clear", "realloc_copied", "mapped_copied", "memalign_lead"}

Need(f, base) ==
  IF f.at \in {"deliver", "calloc_clear"} THEN base.x + SIZE_SZ
  ELSE IF f.at \in {"realloc_copied", "mapped_copied"} THEN f.nb
  ELSE IF f.at = "memalign_lead" THEN f.nb + f.x + MINSIZE + SIZE_SZ
  ELSE 0

(* A frame f above b.                                                      *)
FrameOK(f, b, base, c, m, h) ==
  /\ f \in Frames /\ f.at # "nothing"
  /\ b.at = "deliver" =>
       /\ b = base /\ f.at \in Givers
       /\ f.at \notin Reallocs \cup {"done"} => base.p = NULL
  /\ f.at \in {"libc_calloc", "calloc", "calloc_clear", "done"} \cup Reallocs \cup Memaligns =>
       b.at = "deliver"
  /\ f.at \in Mallocs \cup Askers \cup Reallocs \cup Memaligns =>
       Aligned(f.nb) /\ f.nb >= Need(b, base)
  /\ f.at \in Mallocs \cup Askers => f.x \in {0, 1} /\ (f.at # "unsorted" => f.x = 0)
  /\ f.at \in Reallocs =>
       /\ f.p = base.p
       /\ f.p \in DOMAIN h => room(f.p, c, m) >= h[f.p]
  /\ f.at \in Holders => f.p \in DOMAIN c \cup DOMAIN m
  /\ f.at \in {"int_realloc", "realloc_copied", "memalign_tail", "int_free"} => f.p \in DOMAIN c
  /\ f.at = "realloc_copied" => c[f.p].size < f.nb
  /\ f.at = "mapped_copied" => f.p \in DOMAIN m /\ m[f.p].size - SIZE_SZ < f.nb
  /\ f.at = "libc_memalign" => f.x \in 0..MAX_ALIGNMENT
  /\ f.at = "memalign_lead" => f.x \in Nat /\ f.x >= MINSIZE
  /\ f.at = "memalign_tail" => c[f.p].size >= f.nb
  /\ f.at = "done" => room(f.p, c, m) + SIZE_SZ >= Need(b, base)
  /\ f.at \in {"free_trim", "systrim", "mtrim"} => f.nb \in Nat
  /\ f.at = "mallopt" => f.x \in Nat
  /\ f.at = "deliver" => f = base /\ b = Nothing /\ f.x \in Nat

(* A frame that waits for those above it.                                  *)
Waits(f) == f.at # "morecore" /\ (f.at = "unsorted" => f.x = 0)

StackOK(s, base, c, m, h) ==
  /\ s \in Seq(Frames)
  /\ \A i \in DOMAIN s : FrameOK(s[i], Under(s, i), base, c, m, h)
  /\ \A i \in DOMAIN s : i > 1 => Waits(s[i])
  /\ \A i, j \in DOMAIN s : i # j => Holds(s[i]) \cap Holds(s[j]) = {}

Legal(s, c, m, h) == StackOK(s, Base(s), c, m, h)

-----------------------------------------------------------------------------
(* The invariant                                                           *)

(* What is returned, or what a failing realloc leaves to the program.      *)
Handed(s, r) ==
  IF r # NULL THEN {r}
  ELSE IF Topmost(s).at = "deliver" THEN {Topmost(s).p} \ {NULL} ELSE {}

(* The owners of chunks: the thread cache, the fastbins, the bins, the     *)
(* calls, the one that is returned to, the program (but for what realloc   *)
(* may have moved), and the block of the thread cache.                     *)
InCache  == Elements(tcache.entries)
InFast   == Elements(av.fastbins)
InBins   == Elements(av.bins)
OnCall   == OnStack(call)
Returned == Handed(call, ret.p)
Still    == DOMAIN held \ {Base(call).p}
Block    == {tcache.block} \ {NULL}

Parted(top, C, F, B, S, R, H, K) ==
  /\ top \notin C \cup F \cup B \cup S \cup R \cup H \cup K
  /\ C \cap (F \cup B \cup S \cup R \cup H \cup K) = {}
  /\ F \cap (B \cup S \cup R \cup H \cup K) = {}
  /\ B \cap (S \cup R \cup H \cup K) = {}
  /\ S \cap (R \cup H \cup K) = {}
  /\ R \cap (H \cup K) = {}
  /\ H \cap K = {}

(* What is owned is there, and a chunk ends where another begins.          *)
Linked(owned, c, m) ==
  \A p \in owned : p \in DOMAIN m \/ (p \in DOMAIN c /\ p + c[p].size \in DOMAIN c)

Owned == InCache \cup InFast \cup InBins \cup OnCall \cup Returned \cup Still \cup Block

Arenas ==
  [top : Nat, last_remainder : Nat, bins : [Bins -> Seq(Nat)], binmap : SUBSET Bins,
   fastbins : [0..NFASTBINS - 1 -> Seq(Nat)], have_fastchunks : BOOLEAN,
   contiguous : BOOLEAN, system_mem : Int, max_system_mem : Int, dirty : Nat]

Params ==
  [max_fast : Int, mmap_threshold : Int, trim_threshold : Int, no_dyn_threshold : BOOLEAN,
   top_pad : Nat, n_mmaps_max : Int, n_mmaps : Int, mmapped_mem : Int, sbrk_base : Nat]

Caches ==
  [block : Nat, shutting_down : BOOLEAN, entries : [0..TCACHE_BINS - 1 -> Seq(Nat)]]

Answers == [p : Nat, nb : Int, fresh : BOOLEAN]

Types ==
  /\ setup \in SETUPS /\ av \in Arenas /\ mp \in Params /\ tcache \in Caches
  /\ mp.max_fast <= request2size(MAX_FAST_SIZE)
  /\ brk \in BRK_START..BRK_LIMIT /\ pages \subseteq MMAP_PAGES
  /\ ret \in Answers
  /\ DOMAIN held \subseteq Nat \ {NULL} /\ held \in [DOMAIN held -> Nat]

Sbrk == BRK_START..brk - 1

HeapOK ==
  /\ Laid(chunk) /\ Mapped(mapped, pages)
  /\ av.top \in DOMAIN chunk \cup {NULL}
  /\ Given(chunk, mapped, Sbrk, pages)

ListsOK == CacheOK(tcache.entries, chunk) /\ FastOK(av.fastbins, chunk) /\ BinsOK(av.bins, chunk)

OwnersOK ==
  /\ Parted(av.top, InCache, InFast, InBins, OnCall, Returned, Still, Block)
  /\ Linked(Owned, chunk, mapped)

(* There is room for what the program asked for.                           *)
Roomy(h, owned, c, m) == \A p \in DOMAIN h \cap owned : room(p, c, m) >= h[p]

Failed == IF ret.p = NULL THEN Returned ELSE {}

HeldOK == Roomy(held, Still \cup Failed, chunk, mapped)

RetOK ==
  ret.p # NULL /\ Topmost(call).at \in Needy =>
    room(ret.p, chunk, mapped) + SIZE_SZ >= Need(Topmost(call), Base(call))

HeadOK ==
  /\ At("unsorted") /\ op.x = 1 => tcache_cached(op.nb) # << >>
  /\ At("morecore") => /\ top_size < op.nb + MINSIZE
                       /\ av.top # NULL => top_size >= MINSIZE

Good ==
  /\ Types /\ HeapOK /\ ListsOK
  /\ Legal(call, chunk, mapped, held)
  /\ OwnersOK /\ HeldOK /\ RetOK /\ HeadOK

(* No list of the thread cache is ever longer than it may be.              *)
CountsOK ==
  /\ setup \in SETUPS
  /\ \A i \in DOMAIN tcache.entries : Len(tcache.entries[i]) <= TCACHE_COUNT

IInv == CountsOK /\ (At("abort") \/ Good)

-----------------------------------------------------------------------------
(* What calloc need not clear                                              *)

(* What malloc_consolidate and int_free do between a growth of the memory  *)
(* and the carving of the chunk it was for.                                *)
FreeSteps == {"int_free", "free_trim", "systrim", "consolidate"}

Growing(s) ==
  \E i \in DOMAIN s : s[i].at = "carve" /\ \A j \in 1..i - 1 : s[j].at \in FreeSteps

(* calloc clears up to where the memory has been used, or more.            *)
Covers(f) == f.at = "calloc_clear" /\ f.x >= 0 => f.p + f.x >= f.nb

(* While the arena is contiguous, top ends where the memory of the arena   *)
(* does, and no chunk has ever been above the highest such end.            *)
Reached ==
  /\ av.top = NULL => mp.sbrk_base = NULL /\ av.system_mem = 0 /\ av.dirty = 0
  /\ av.top # NULL => old_end <= mp.sbrk_base + av.system_mem
  /\ av.max_system_mem >= 0
  /\ av.dirty <= mp.sbrk_base + av.max_system_mem
  /\ av.system_mem <= av.max_system_mem \/ Growing(call)
  /\ \A i \in DOMAIN call : Covers(call[i])

Known == av.contiguous => Reached

(* Inductive with IInv, where systrim does not ask for memory.             *)
CInv == At("abort") \/ Known
=============================================================================
