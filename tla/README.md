# A specification of programming_languages

The repository holds five small programs in C and x86-64 assembly, and
`malloc-impl.c`, the allocator of the C library, which the assignment of the
memory allocator gives to read. This directory models them in TLA+, checks the
models with TLC on small instances, and proves what matters most with TLAPS for
every value of the constants.

## The system

Only `malloc-impl.c` runs in several threads: a chunk is freed to a fastbin
without a lock. What makes the rest hard is long sequences of calls, arithmetic on
addresses and sizes, failure half way through, and who owns which memory.

| program | state | operations | interacts with |
|---|---|---|---|
| memory-allocator | the mapped regions and, inside them, a list of block headers that starts at the fixed address `HEAP_START` | `heap_init`, `_malloc`, `_free` | the kernel's `mmap`, its client |
| malloc-impl.c | the chunks of the main arena; fastbins, bins, `top`; the thread cache; mmapped chunks; the tunables | `malloc`, `free`, `calloc`, `realloc`, `memalign`, `mallopt`, `malloc_trim`, a thread's end | `sbrk`, `mmap`, `mremap`, other callers of `sbrk`, threads |
| image-transform | one `struct image` (width, height, pixels), two files | `from_bmp`, `to_bmp`, `rotate_flip`, `rotate_image`, `main` | stdio, libc `malloc` |
| sepia-filter | an input and an output image, both owned by pointer, two files | `from_bmp`, `to_bmp`, `rotate`, `sepia_c`, `sepia_asm`, `main`, `run_tester` | stdio, libc `malloc`, the assembly helper |
| io-library | the caller's buffer, stdin and stdout | `read_word`, `parse_uint`, `parse_int`, `string_copy`, `string_equals`, `print_*` | `read` and `write` |
| dictionary | a static list of words, a buffer of 256 bytes | `read_word`, `find_word`, `main` | its own variant of io-library |

What makes each correct, and where it is hard:

* **memory-allocator.** Blocks never overlap, never leave the pages the
  allocator mapped, cover their regions completely, and are all on the list;
  a block the client holds is never moved, resized or handed out again; `_malloc`
  returns, and grows the heap only when nothing that could be merged would do.
  Hard: splits and merges at arbitrary offsets, a merge that swallows a header
  another pointer names, growth into a region that may or may not be adjacent
  and may lie below the others, `mmap` failing, and `size_t` wrapping.
* **malloc-impl.c.** Every chunk has one owner at any time; what a program holds is
  memory of its own, as large as it asked for and aligned as it asked; the arena is
  what `MALLOC_DEBUG` asserts; `calloc` clears; trimming gives back nothing that is used;
  every call returns. Hard: chunks that are split and merged under eight kinds of
  lists, sizes rounded in both directions, an `sbrk` that fails or that others call, and
  frees that race with consolidation.
* **image-transform, sepia-filter.** What is written is the right picture, whole or
  cut short by a failure; every allocation is released once. Hard: row padding,
  products of dimensions, the vector code's groups of four pixels, and the early
  returns, where one function frees what its caller frees too.
* **io-library, dictionary.** Nothing is written outside the buffer, the reported
  length is the length, and a word is found if and only if it is in the list.
  Hard: the terminator at exactly the size of the buffer, the order in which
  white space and capacity are looked at, and a failing `read`.

`PROJECT.json` lists every part and every hazard with its line.

## The modules

| module | what it is |
|---|---|
| `MemLayout` | sizes and `size_t` arithmetic of `mem.c`, `mem_internals.h`, `util.h` |
| `Mem` | the allocator: state, actions, properties |
| `MemClient` | `Mem`, assuming that requests are not near `SIZE_MAX` |
| `Allocator` | the contract of `mem.h`: pointers and bytes, no blocks |
| `MemRefinement` | the mapping under which `MemClient` implements `Allocator` |
| `MemInvariant` | `IInv`, the inductive invariant of `Mem` |
| `MemProofs` | lemmas about the functions of `mem.c`; the theorems, the refinement and the contract's among them |
| `MallocSizes` | how `malloc-impl.c` pads a request and numbers fastbins, bins and cache lists |
| `Ptmalloc` | its main arena: state, one action per stretch of code between two decisions |
| `PtmallocCheck` | what `MALLOC_DEBUG` asserts, `mallinfo`, and the properties |
| `PtmallocInvariant` | `IInv`, the inductive invariant of `Ptmalloc` |
| `PtmallocLemmas` | theorems about requests and sizes; lemmas about chunks, mappings, lists and stacks of calls, and the actions that cut or merge chunks or map memory |
| `PtmallocProofs` | the other actions of `Ptmalloc`; the theorems |
| `FastbinRace` | one fastbin between threads |
| `FastbinInvariant`, `FastbinProofs` | its inductive invariant; the theorems |
| `Image` | pictures on a C heap: `image.c`, the padding of `bmp_format.c`, `malloc` and `free` |
| `ImageTransform` | the program image-transform: state, actions, properties |
| `ImageTransformInvariant`, `ImageTransformProofs` | its inductive invariants; the lemmas and theorems |
| `SepiaFilter` | `main.c` and `sepia_tester.c` of sepia-filter with all they call |
| `SepiaFilterInvariant`, `SepiaFilterProofs` | its inductive invariants; the lemmas and theorems |
| `AsmStrings` | the string and number functions of both assembler libraries |
| `Words` | the words of a text: what both `read_word`s are meant to read |
| `IoLibrary`, `Dictionary` | io-library's `read_word` called again and again; the program of dictionary |
| `Assembler` | both, one after the other, and the properties of the functions they share |
| `AssemblerInvariant`, `AssemblerProofs` | their inductive invariants; the lemmas and theorems |
| `CommonLemmas` | induction over the naturals, and rows and columns of a picture, for the proofs |
| `MCMem`, `MCMemWrap`, `MCPtmalloc`, `MCMallocSizes`, `MCFastbinRace`, `MCImageTransform`, `MCSepiaFilter`, `MCAssembler` | small instances for TLC |

### How Mem corresponds to mem.c

`heap` maps the address of each block header to the header. The code's list lives in
memory; a header that a merge swallows becomes contents, so its address leaves
the domain, and a pointer to it would be an error (`TypeOK` says there is none).
`pages` is the set of mapped pages. `block` and `prev` are the
locals of `find_good_or_last`, `query` the argument of the `_malloc` in progress and
`pc` where it is. `live` (what the client holds) and `born` (which region, counted along the
list, a block comes from) are history variables that no guard of the allocator
reads; `live` only says which pointers a client may free.

| action | code |
|---|---|
| `heap_init`, `heap_init_fails` | `heap_init`, with `alloc_region` and `block_init` |
| `malloc` | entry of `_malloc`: the search starts at `HEAP_START` |
| `find_merge` | one turn of `while (try_merge_with_next(block)) {}` |
| `find_good` | `BSR_FOUND_GOOD_BLOCK`: split, mark taken, return |
| `find_next`, `find_end` | the rest of the loop, and leaving it |
| `grow`, `grow_fails` | `grow_heap`, then split, mark taken, return; or NULL |
| `free` | `_free` with its one merge |

`_malloc` is one action per turn of the loop, because what the loop relies on
between turns (the cursor is on the list, `prev` is the last block at the end)
is what has to hold; nothing else can run in between, so `heap_init` and `_free`
are single actions. The kernel is external: `mmap_fixed` and `mmap_anywhere`
give every address the manual allows, or fail, whatever is mapped.
`HONOURS_NOREPLACE = FALSE` is a kernel older than the flag, which takes the
address for a hint; the code then sees `extends` true for a region somewhere
else. Pages in `FOREIGN` belong to other code of the process. The block bytes
the client writes are left out, and a client that writes past its block or frees
what it does not hold is out of the model, as it is out of the code's contract.

A definition whose name starts with `wrong_` is a plausible mistake in the
definition it precedes. Nothing uses it: each exists so that a property can
be seen to fail when it takes the place of the right one (`PROJECT.json`,
"mutants").

### How Ptmalloc corresponds to malloc-impl.c

Addresses and sizes count words. `chunk` maps the address of each chunk header to what
the header says: `size`, `PREV_INUSE` and `prev_size`; a header that a merge swallows
leaves the domain. `mapped` has the headers of mmapped chunks. `av` is
`main_arena`, `mp` is `mp_` with `global_max_fast`, `tcache` the cache of the thread. A list is a sequence of
chunk addresses, first to last; the `fd_nextsize` ring of a large bin is, in it, the first chunk of
each size, and is searched and inserted into the way the code does. The system is `brk` and
`pages`; `held` is what the program has been given.

A call is a stack of frames, the function that runs first: `__libc_realloc` may call
`_int_realloc`, which calls `_int_malloc`, which consolidates. Each function is one action or several,
cut where the code comes back to the same place (the loop over the unsorted bin, the retry
after `malloc_consolidate`, the loop over the fast chunks) or asks the system. What
the code checks with `malloc_printerr` is a condition of the action whose failure
leads to `abort`.

| actions | code |
|---|---|
| `LibcMalloc`, `MallocCached`, `LibcFree`, `LibcFreeMapped`, `LibcCalloc`, `CallocMalloc`, `CallocClear`, `LibcRealloc`, `LibcMemalign`, `TcacheInit`, `ThreadShutdown`, `FreeCached` | the functions `__libc_*`, `tcache_init`, `tcache_thread_shutdown` |
| `IntMallocFast`, `IntMallocSmall`, `IntMallocOther`, `SplitLastRemainder`, `TakeExact`, `SortIntoBin`, `UnsortedDone`, `SearchOwn`, `SearchBins`, `FromTop`, `UseTop` | `_int_malloc`, in the order of the source |
| `FreeToCache`, `FreeFast`, `FreeMerge`, `FreeTrim` | `_int_free` |
| `Consolidate` | one chunk of `malloc_consolidate`, or its end |
| `SysmallocMmap`, `SysmallocHeap`, `ExtendTop`, `NewRegion`, `NewRegionApart`, `MmapBackup`, `NewTop`, `Carve`, `NoMore` | `sysmalloc` |
| `Systrim`, `Mtrim` | `systrim`, `mtrim` |
| `MremapSame`, `MremapMoves`, `MremapFails`, `MappedCopied` | `mremap_chunk` and the rest of `__libc_realloc` for mmapped chunks |
| `AtRealloc`, `ReallocShrinks`, `ReallocIntoTop`, `ReallocIntoNext`, `ReallocElsewhere`, `ReallocCopied` | `_int_realloc` |
| `MemalignLead`, `MemalignTail` | `_int_memalign` |
| `Mallopt`, `SetOption`, `TrimTo` | `__libc_mallopt`, `__malloc_trim` |

`Ask`, `Free` and `Deliver` are the program, which frees what it holds once and
asks for nothing else while a call runs; `ForeignSbrk` is other code of the process that
calls `sbrk`. `setup` picks, once, the tunables, the room the system has, and the
requests of the program: a setup is a program that stresses one part.

`av.dirty` is a history variable: the end of the memory that has been used
since it came from the system, needed to say what `calloc` must clear.

Left out: other arenas and `arena.c`, hooks, memory tagging, dumped heaps, `M_PERTURB`, what
`malloc_info` and `malloc_stats` print, `pvalloc`, and `realloc (p, 0)`, which is `free`.

### How FastbinRace corresponds to malloc-impl.c

`fb` is the head of the fastbin, `fd` the link word of each chunk, `mutex` the lock of the
arena. An action is one access to shared memory: reading the head (`ReadFb`, `FreeReads`),
reading a link (`ReadFd`), writing one (`FreeLinks`), a compare-and-exchange that succeeds or not
(`RemoveFb`, `RemoveAgain`, `FreePushes`, `FreeAgain`), the exchange of
`malloc_consolidate`, and one chunk it takes off what it got (`Tear`). `Writes` is a program that
writes to memory it holds, which is what makes a stale link dangerous. A thread's program may free any
chunk it holds, wherever it came from. `rank` and `detached` are history
variables that no guard reads. Accesses are atomic and in order, as the acquire and release
forms of the macros make them on the head.

### How ImageTransform corresponds to image-transform

`pc` is the place in the program; each action is the code from one call of the C
library to the next, or one turn of a loop, and each such call has an alternative
in which it fails.

| action | code |
|---|---|
| `CheckArguments`, `OpenInput` | `main`, up to the call of `from_bmp` |
| `ReadHeader`, `CreateImage`, `ReadRow`, `SkipPadding` | `from_bmp`: the header's `fread`, `create_image`, a row's `fread`, its `fseek`; a failure includes `main`'s `fclose` and `return 12` |
| `ReadDone` | `READ_OK`, `fclose`, and `main`'s `switch`; an unknown parameter returns 1 |
| `StartFlip`, `Flip`, `FlipDone` | `rotate_flip`, one exchange a step |
| `StartRotate`, `Rotate`, `RotateCrash`, `RotateDone` | `rotate_image`, one pixel a step; its unchecked `malloc` |
| `OpenOutput` | `main`'s second `fopen` |
| `WriteHeader`, `WriteRow`, `WritePadding` | `to_bmp`; a failure includes `main`'s `fclose` and `return 1` |
| `WriteDone` | `WRITE_OK`, `fclose`, `destroy_image`, `return 0` |

`todo` holds the calls a parameter stands for, `flipv` being three. A pixel is
the byte offset it was read at, so that a property can say which pixel of the
input must be where. `pos` counts bytes, because a file may end inside a pixel
and `fseek` goes past the end; `out` counts a pixel as one cell and a byte of padding
as one. A block of the heap is a function from cell numbers to pixels, `Undefined`
until written. `failed` is a history variable: some call of the C library has
failed. `Expected` says without loops what the output must be. Left out: header fields that
`from_bmp` does not look at, and when stdio passes on what it has buffered. `ProductsAssumption`: the
header's `3 * width * height` does not wrap in a `size_t`. Where it does, the product is small, `malloc` succeeds, and the rows
overrun the block; what the heap is then, nothing in C says. sepia-filter has the same product and the same assumption.

### How SepiaFilter corresponds to sepia-filter

As in `ImageTransform`, an action is the code from one call of the C library to the
next, each with its failures. `live` maps a live block of the C heap to what it holds, a `struct image`
or pixels; `free` of a block that is not live sets `twice`, and the program is then aborted or
goes on. `MODES` chooses `main` with a mode or `sepia_tester`.

| action | code |
|---|---|
| `CheckArguments`, `OpenInput`, `AllocImage` | `main` and `run_tester` up to `from_bmp` |
| `ReadHeader`, `SeekBits`, `ReadRow`, `ReadDone` | `from_bmp`; a failure includes what it frees and what the caller frees |
| `Transform`, `TransformFails` | the call of `rotate`, `sepia_c` or `sepia_asm` |
| `OpenOutput`, `WriteHeader`, `WriteRow`, `WriteDone` | the rest of `main`, and `to_bmp` |
| `RoundC`, `RoundAsm`, `FreeRound`, `TesterDone` | `run_tester` |

A byte of a pixel is the place in the file it was read at, or the sepia of one; `helper_byte` says, for each
byte the vector code stores, which pixel it was computed from, following the offsets of its
loads and the shuffles between them. Whether the sum is rounded (vector code) or cut (C) is left out.

### How AsmStrings, IoLibrary, Dictionary and Assembler correspond to the code

A byte is a number, a register holds `W` bits. `AsmStrings` has the functions without
state as functions of the bytes at `rdi`: what they return in `rax` and `rdx`, and what they write. `IoLibrary` and `Dictionary` take
one byte from stdin a step; a `read` that fails leaves in `al` the low byte of `-errno` in io-library
and 0 in dictionary, where `read_char` reads into a zeroed stack slot. `find_word` looks at
one entry a step. Every error and success leads to `exit` with whatever `rdi` then is. `Assembler` runs one
or the other; at the start the text of stdin is also the argument of the string functions.

## The runs

| run | question | result |
|---|---|---|
| `mem` | every order of calls, with regions that extend each other, lie on both sides of `HEAP_START` and of a foreign page, and a kernel that ignores `MAP_FIXED_NOREPLACE`: blocks tile their regions, are on the list, stay while they are held and are never too small; every step one of `Allocator`; `MallocReturns` | holds |
| `malloc_lists` | the lists of `malloc-impl.c`: its own checks, one owner for each chunk, copies that fit, a bounded cache | holds |
| `malloc_system` | the allocator against the system: what is held is the program's own, `calloc` clears, trimming spares data, every call returns | holds |
| `fastbin` | two threads and a fastbin without a lock: nothing given out twice or lost, no false alarm, the lock released | holds |
| `itr` | image-transform on every picture, cut, parameter and failure: the right output and nothing else, streams and blocks accounted for, and it ends | holds |
| `sepia` | sepia-filter and its tester likewise: `rotate` and the C filter write the right picture, and in every mode blocks and streams are accounted for | holds |
| `asm` | both assembler libraries and the dictionary on every short text and every failure of `read` | holds |
| `mem_elsewhere` | `NoFault` when a client goes on after a `heap_init` that did not get `HEAP_START` | violated |
| `itr_padding` | `PaddingErrorMeansFailure` | violated |
| `sepia_twice` | `NothingFreedTwice` | violated |
| `sepia_vector` | `VectorIsSepia` | violated |
| `malloc_trim` | `TrimGivesBack` | violated |

The instances of `Mem` keep the code's header (17 bytes), least capacity (24) and
two-page least region, with pages of 64 bytes, so that a region of two pages has
capacity 111 instead of 8175. What the code compares are sums of these sizes, and
the requests are chosen at the edges: 70 is the largest request a fresh block is
still split for (exactly 24 is left), 111 takes a whole region, and 150 needs a region of three
pages or two that are merged. Ten pages, `HEAP_START` in the third and a foreign page in the seventh, hold
four regions: two that extend each other, with one before and one behind the foreign page, or fewer of
three pages, got in any order. That a request of 0 bytes gets the least
capacity is proved (`LeastCapacity`). The state
graphs are finite without any further bound, because an address space
that is full refuses to grow. Symmetry is not used: addresses are numbers.

`mem_elsewhere`: `heap_init` succeeds wherever the kernel puts the region, and
tests of the repository say so, but `_malloc` always starts at `HEAP_START`. In the
other runs `CLIENT_CHECKS_ADDRESS` makes the client compare the result with
`HEAP_START` first. `ClientAssumption` bounds the requests; `MCMemWrap` below is without it.

The instances of `Ptmalloc` count words: a chunk is a multiple of two words and at least
four, a page has sixteen, sizes below twelve have a small bin each and larger ones share two ranges of
large bins, so that each kind of list is met on two pages. The sizes and
bins of the real constants (32 bits, 32 bits aligned to 16, 64 bits) are compared with what is
promised of them by the assumptions of `MCMallocSizes`, up to beyond the last range of bins; `Ranges`
there and `RangesAssumption` check that the rows of each table of large bins join.
The setups of `malloc_lists`: fast, small and large chunks in every
order, three held at once (`BinsSetups`); `realloc` that shrinks, grows into top, grows into the next chunk, and moves
(`ReallocSetup`); `memalign` (`AlignSetups`); a cache of two chunks a
size, with a thread that ends (`CacheSetup`). Those of `malloc_system`: mmapped chunks, `mremap` that fails or moves, and the
threshold that adapts (`LargeSetup`); `sbrk` that gives one page, and `mmap` as
a backup in places before and behind it (`BackupSetup`); a foreign `sbrk` between the calls, an unaligned initial
break, `malloc_trim` and `mallopt` (`SbrkSetup`). `max_held` bounds what a program
holds, two or three blocks; the heap is bounded by `BRK_LIMIT` and `MMAP_PAGES`. `TypeOK` is part of
`DebugChecks`.

`malloc_trim`: `systrim` compares `top_area <= pad` (2920) as unsigned numbers. With `top` of exactly
`MINSIZE`, `top_area` is -1, the largest number, and `extra` becomes minus one page: the heap grows by
a page instead of shrinking, and `malloc_trim` says that it has released memory. `HeldAreOwned` holds all the same, but
`max_system_mem` is not raised, which `__libc_calloc` takes (3612-3616) for the end of the memory that was ever used.
In the instance `MCPtmallocTrimCalloc` TLC finds what comes of it: once the page is
used, given back and asked for again, `calloc` relies on `sbrk` having cleared it, which by lines 529-536 it need not have
done. The setups of `malloc_system` do not reach a trim with such a top, and there `CallocClears` holds. Where
`TrimGivesBack` holds, `CallocClears` does (`ClearsEnough`).

`fastbin` has two threads, three chunks and a cache of one: one thread can take the first chunk of two, give it back
with another link and free a third while the other is between reading the link and its
compare-and-exchange, which is the case the lock has to exclude.

`itr` has pictures up to 5 by 3 with every number of bytes from none to whole. Widths 0
to 5 give every padding, as the width that is read and, after a quarter turn,
as the one that is written; odd and even widths, one-pixel, empty and
non-square pictures are among them. `OutputIsPrefix` holds of outputs that were
given up as well, which matters for widths divisible by 4: there `SuccessIsComplete`
says nothing, since `WritePadding` always fails (`itr_padding`). Three blocks are one more than are ever
live. Deadlock is not checked: the program ends, and `Terminates` says that it always does.

`sepia` has the same pictures, cut at each multiple of four bytes; 15 pixels
make three groups of four and three left over. Four blocks are two pictures of two. `ExitFreesAll` and the
others hold of the runs that free nothing twice and of those the library lets
go on. `sepia_twice`: after a failed `fseek` or row, `from_bmp` frees the struct that
its caller allocated and will free.

`sepia_vector`: each group of the vector code loads two pixels further on and stores four bytes further on, so the second
group loads p3 and p4 where its comment says p2 and p3, and the third p5 and p6, behind the four pixels of the group. The last
three pixels of every four are wrong, and for the last four of a picture the third group reads what is behind it. `OutputIsRight` is
therefore about modes `r` and `c`; what is right of mode `a` is proved (`VectorPartRight`).

`asm` has all texts of up to four bytes over two letters, a space and NUL, of up to six over a letter and a space, and of up to three with
newlines, digits, signs and the bytes next to the digits; a buffer of three bytes in io-library and, NUL included, of four in
dictionary, so that words are shorter, as long as and longer; registers of eight bits, all
numbers of which are printed and read back. `WordsInOrder` and `FindsDefinition` leave open what the code does with a word that is exactly
as long as the size it is given, where comments, tests and code disagree; no word is lost or cut either way.
Deadlock is not checked: both end.

### Instances beside the runs

In four more instances TLC finds a property violated:

| instance | property | what happens |
|---|---|---|
| `MCMemWrap.cfg` of `MCMemWrap` | `HeldIntact` | for a request within a page of `SIZE_MAX`, `pages_count` (`mem.c:24`) wraps to 0, `REGION_MIN_SIZE` bytes are mapped, and nothing compares the block with the request |
| `MCImageTransformLeaks.cfg` of `MCImageTransform` | `EveryReturnFrees` | the returns at `main.c:26,63,70,77` of image-transform leave the pixels allocated, although `common-mistakes.md:69` asks for the contrary |
| `MCPtmallocTrimCalloc.cfg` of `MCPtmalloc` | `CallocClears` | after a trim that has made the heap larger, `calloc` leaves used memory as it was |
| `MCAssemblerTests.cfg` of `MCAssembler` | `LongWordsFail`, `LongestWordTaken`, `NoNumberNoLength` (each is found with `-continue`) | io-library accepts a word as long as the buffer, which `test.py:378-379` forbids; dictionary refuses the longest word that fits at the end of the text, of which `lib.asm:146` says nothing; and a lone sign has length 1, where `lib.asm:219` says 0 |

### Fairness

`Mem` and `ImageTransform`: `WF_vars(Step)` and `WF_vars(Next)`. A call in progress takes its next step: nothing
blocks within it and the program is sequential, so the processor does
that. The client owes nothing: it may stop calling at any time, which is why
`MallocReturns` speaks of calls in progress only. `Ptmalloc`: `WF_vars(Step)` likewise; `EveryCallReturns` would fail of a
consolidation that leaves `have_fastchunks` set. `Assembler`: `WF` of the whole step, each system call
returning. `FastbinRace`: each thread in the middle of a call goes on. A push can be
overtaken for ever by others, so only the release of the lock is claimed: who holds it
can fail only as often as there are chunks to push. `SepiaFilter` states none: its loops
are those of image-transform.

## The proofs

`Allocator`: its three promises are inductive as they stand (`ContractTypes`, `ContractDisjoint` and
`ContractOwned`, in `MemProofs`); with the refinement below they hold of `mem.c` under the mapping (`KeepsContract`).

`Mem`: none of the properties is. That two blocks do not overlap after
`try_merge_with_next` depends on the next block of the list being the one right
behind; that no pointer dangles after it depends on the swallowed block being
nobody else's `next` and not the search's `prev`; and that a new region does
not overlap anything depends on every byte of every block being in a
mapped page. `IInv` (module `MemInvariant`) therefore says of the heap:

* `HeadersOK`: headers have their types, `next` is NULL or a block, no capacity
  is below the least;
* `PlacedOK`: every byte of a block is in a page of the allocator, none foreign;
* `ApartOK`: blocks do not overlap;
* `ListOK`: `next` goes to a later region or to the adjacent block of the same one,
  never to `HEAP_START`, and to each block at most once: no cycles;
* `TiledOK`: where a block ends another starts or a page does, and where one starts another
  ends or a page starts; with the least capacity of `HeadersOK` it gives `NothingLost`. It needs `RegionAligned`: a region is whole pages, since
  `REGION_MIN_SIZE` is a multiple of the page or at most one page;
* `LinkedOK`: every block but the first is `next` of one;

and with it `HeldOK` (the client holds exactly the taken blocks, each big
enough), `CursorOK` (where the search is), `PassedOK` (what the search has passed was of no use
to it, and nothing it could merge) and `PagesOK`.

Each heap part is an operator of a heap, a ranking and a set of pages, not of the
variables, because a step of `_malloc` goes through heaps no state shows: the region linked
but not merged, merged but not cut, cut but not taken. `MemProofs` has one lemma
for each function of `mem.c` that changes a heap (`MergeBlocks`, `SplitBlock`,
`MarkBlock`, `FirstRegion`, `LinkRegion`), saying that the heap stays sound and what
else is true of the result, on top of lemmas that the sums do not wrap
(`BlockBounds`, `RegionSize`, `RoundPages`). It composes them, one lemma per
action, into `Invariance == Spec => []IInv`, and derives `TypeCorrect`, `Disjoint`,
`Mapped`, `Ordered`, `Intact`, `Tiling` and `LeastCapacity` from it. `HeldStay` is an action
property: the lemmas also say what a step does to the blocks that were taken before it
(`Kept`), which is nothing, unless it is the `free` of one of them. `Thorough` and `Coalescing` come from
`PassedOK`: at the end of the search `block` is NULL, so that every block has been passed.

`Complete` is about a walk along `next`. The walk is a function on the naturals that `Mem` defines by
recursion, so the proof first shows that there is such a function, one value after the other; then, since the
order in the list (`UpTo`) goes up with each `next`, that the walk meets no block twice (`WalkUp`). By `LinkedOK`
a block other than the first is `next` of an earlier one, which the walk meets, and it has a step left to go on from
there, since it has met no more blocks than there are (`ManyValues`). The induction theorems of the library take
an operator as a parameter, which no prover here can instantiate; `CommonLemmas` states induction
for sets instead (`EveryNatural`, `LeastElement`), from the theorem that `<` is well-founded.

`MemProofs` also proves `Refinement == Spec => ImplementsAllocator`. Under the mapping, `malloc` is
the contract's `Request`, a step that returns memory its `Grant`, `grow_fails` its `Refuse`, `free` its `Release` and `heap_init` its
`Prepare`; the steps of the search are stutters. The case that matters is
`HandedGrants`: the bytes handed out lie in the new block, which overlaps none of the
blocks in `heap'`; those the client had before are among them, unmoved, by `Kept`. This needs `IInv`
after the step as well as before it.

`ImageTransform`: that a return frees what is live is not inductive, because
the end of the program sees only `img`. `IInv` (module `ImageTransformInvariant`)
says for each place which stream is open (`Streams`), that the second
picture exists during `rotate_image` only and has the sizes turned round
(`Pictures`), that the live blocks are those of the two pictures with room for every
pixel (`HeapOwned`), and how the row counter, the position in the file and the
file's length are related (`Progress`). The last needs that a row takes
`3 * width + get_padding(width)` bytes, the multiple of 4 (`StrideIs`). One lemma for each action gives
`Invariance`, and from it `TypeCorrect`, `Owned`, `Closed`, `Freed` and `ShortFile`.

What the picture shows is a second invariant, `PInv`, proved beside `IInv`. It says for each place in each loop
which cells are done and where their pixel came from: the rows that are read (`ReadSoFar`), the pairs that
`rotate_flip` has exchanged (`FlippedSoFar`), the cells that `rotate_image` has filled (`RotatedSoFar`), and, in
between, that the picture is the source turned by the part of the parameter that has been applied (`Shown`,
where `Came` follows a place back through `todo`). The index formulas of the two loops are injective on
rows and columns (`CellOnce`), so a step changes the cell it means and no other. `Written` says that the
output is `Beginning(n)` of the right one, with `n` counted from the row and the padding. `PrefixOfRight` and `Complete`
follow, for pictures of any size and any number of bytes in the file. All of it assumes only that NULL is
no block and that files have natural sizes.

`SepiaFilter`: who owns which block depends on the place in the program. `IInv` (module `SepiaFilterInvariant`)
says which blocks are live at each place (`Memory`: none before `malloc`, the struct alone until `from_bmp` has
pixels for it, then one picture or two that share nothing), which stream is open (`Streams`), that the mode
has been understood (`Chosen`), and that a round of `sepia_tester` in progress is one of those asked for. One lemma
for each group of actions gives `Invariance`, and from it `Owned` and `ExitClean`. The failed row is the delicate case: `from_bmp` frees
the struct, and the second free finds nothing live, so what is live afterwards is the same
whether the program is aborted or goes on; that it is freed twice is `sepia_twice`. These
proofs assume only `FilesAssumption`, `BlocksAssumption` and `BoundsAssumption`.

`OutputRight` and `VectorPartRight` are proved from a second invariant, `PInv`: the rows read so far are those of the file, the result has the right
sizes and shows the right pixels, and what is written agrees with `Expected` up to the row. Each transformation is
one step, which goes over all pixels, so the work is in its arithmetic: that `rotate`'s places are each
written once, and that of the bytes the vector code stores the first four of each twelve are those of the right pixels
whatever the size. `PInv` leaves out the others (`Smeared`); in modes `r` and `c` there are none. Both theorems have the hypothesis `SizesFit`, that the bytes of a
picture are fewer than 2^32: `to_bmp` computes them in a `uint32_t` for `biSizeImage`, which would otherwise wrap and
not be the size that `Expected` puts in the header. The other theorems do without it.

`FastbinRace`: that nothing is owned twice is not inductive, because it depends on the
victim of `REMOVE_FB` being still first on the bin, with the link that was read, when the
compare-and-exchange succeeds. `IInv` (module `FastbinInvariant`) says that a linked chunk belongs to nobody
(`LinkedApart`), that the chunks of a list have different ranks and each link leads to the next lower one (`LinkedOnce`,
`LinksRight`), that `fb` and the cursor of `malloc_consolidate` are first (`HeadRight`, `CursorRight`), that only the
holder of the lock takes chunks off (`LockRight`), and `VictimRight`: while its thread has the lock the
victim stays on the bin, and so its link, which only an owner writes, stays what was read. A head that is
taken off and put back (the ABA problem) needs a second remover, whom the lock excludes. From `Invariance`
follow `ChunksOwnedOnce` and `NoAlarm`, for any number of threads and chunks and any size of cache.
`NoneLost` needs `Accounted` besides, that each chunk is linked, in the cache, or with a thread. That a linked
chunk is reached from the head is shown by the ranks: each link of a list goes down by one, so every rank below that of the
first is taken (`EveryPlace`), the first's is at most the number of chunks (`FirstRank`), and the walk of that many
links, which is all that `Listed` takes, meets the whole list.

The assembler: `IoInv` and `DictInv` (module `AssemblerInvariant`) say where each `read_word` is in the first word of
the text it was called with: while it skips white space, the first word of what is left is that of
the text; later, the bytes counted in `rbx` (`r14`) are in the buffer and what is left follows them. For
`find_word` the entries passed have other keys. That two strings with a NUL behind them, compared byte by byte, are equal only
as strings needs keys without NUL, which `colon` gives them. From `Invariance` follow
`InOrder`, `Kept` and `Answered`. The invariants say more than these: `WordsRead`, `OneByteTooFar` and `Replies` also
describe what the code does with a word of exactly the buffer's size, down to the terminator that io-library puts one byte behind
the buffer. `Copies` and `Read` are about functions: the lemmas `CopyFits`, for a buffer of any
size, and `RunParsed` and `Back`, for strings of any length and numbers up to any width `W` of a register. What folds and
recursive functions compute (the list that `colon` builds, `parse_uint`'s loop, the digits of `print_uint`) is shown in
two steps: such a function exists (`FoldExists`, `ClimbExists`, `PrintsExists`), so that `CHOOSE` has one
to choose, and any such function has the values claimed, by induction. `register` is a recursive function
and not `2^W`, because the provers know nothing of `^`.

Of the constants these assume `WidthAssumption`, `SizeAssumption`, `BufferAssumption`,
`InputsAssumption` (texts are sequences of bytes) and `DefinedAssumption` (keys are strings without NUL, and
`words.inc` has at least one line: with none `find_word` would start at an address that is no entry).

The assumptions of `Mem` are `LayoutAssumption` (the sizes are positive and a region
holds a header and a least block), `MemAssumption` (the pages the kernel gives lie
below the top of the address space and page 0 is not given) and
`ClientAssumption` (a request with its headers and rounding does not wrap). The
code establishes the first, the kernel the second; the third is the client's
duty, and the instance `MCMemWrap` shows that it is needed. No theorem assumes
`HONOURS_NOREPLACE` or anything about `FOREIGN`.

`MallocSizes`: what TLC evaluates for three builds up to a bound is proved for every request and size. `RequestsFit`,
`Repadded`, `TcacheUses` and `FastbinUses` are about rounding by an alignment; they assume
`SizesAssumption`, a word of any size and an alignment of two words or four, the cases that
`SMALLBIN_CORRECTION` and `largebin_index` (lines 1558, 1595) tell apart. `BinsAscend` is
about the table of large bins: the first row whose range a size is within decides, and rows have different widths, so
what must be shown is that the index does not drop where one row takes over from another. It needs
`RangesAssumption`: the least index a row gives is not below the largest of any row before it, nor of the small bins,
which TLC evaluates for the constants of the code and for the instances. The proof places each
size at or above the point where its row begins (`FromLeast`).

`Ptmalloc`: a chunk is taken off a list by one function, split by a second, put into a cache by a third and returned
through a fourth, and that what the program gets is its own depends on all of them. `IInv` (module
`PtmallocInvariant`) says that either the program has been aborted or `Good` holds:

* `HeapOK`: chunks do not overlap (`Laid`), mappings are whole pages of their own (`Mapped`), and every word of a
  chunk is below the break or in a page of `mmap`'s that no mapping has (`Given`);
* `ListsOK`: no chunk is twice on a list or on two of the cache, the fastbins or the bins, and each is on the one its size belongs to;
* `Legal`: for each frame of the stack, which frames may be below it, what it holds, how large the chunk must be that is
  returned to it, and that the request it passes on has room for what it was asked;
* `OwnersOK`: a chunk is in the cache, in a fastbin, in a bin, held by a frame, being returned, the program's, the block of the
  cache, or top, and only one of these (`Parted`); where an owned chunk ends another begins, so that a
  merge or a write to the next header meets a chunk (`Linked`);
* `HeldOK`, `RetOK`: what is held or returned has room for what was asked; `HeadOK`: what a frame has seen of the cache
  and of top is still so;

and, in every state, `CountsOK`: no list of the cache is longer than `tcache_count`. `NULL`, and therefore an
abort, is left open by `Good` only where the code tests for it. The parts are operators of chunks, mappings, lists and stacks, since a step goes
through heaps no state shows: taken off a bin and not yet split, merged with the chunk before and not yet with top. `PtmallocLemmas`
says what cutting, merging, moving top, mapping and unmapping do to a heap, what taking off and putting on do to a
list, and what pushing, popping and replacing a frame do to a stack; each action has a lemma that composes these, and
`PtmallocProofs` puts them together: `Invariance == Spec => []IInv`. From it follow:

* `HeldAreOwned`, that what the program holds is as large as asked and overlaps nothing that is held or cached;
* `CopiesFit`, that whatever `realloc` copies has room;
* `CacheBounded`, which `CountsOK` and `CacheOK` make up;
* `TrimSparing`, that the pages `mtrim` gives back have nothing of any chunk but the inside of a free one;
* `ClearsEnough == Spec /\ TrimGivesBack => []CallocClears`, that `calloc` clears all memory that was used before the call, in every
  behaviour where `systrim` gives memory back and asks for none, as its comment says (2897-2899). The setup of
  `malloc_trim` shows that the hypothesis is needed; `systrim` breaks it only when it runs with a top no larger than `MINSIZE`.

`ClearsEnough` needs a second invariant, `CInv`. While the arena is contiguous, top ends at `sbrk_base + system_mem` at most,
what was ever used ends at `sbrk_base + max_system_mem` at most, and `system_mem` exceeds `max_system_mem` only while
`sysmalloc` is between the growth and the carving (`Growing`: above its frame are only those that free the old top), where
no `calloc` reads either. So the bound a `calloc` reads reaches what was used by then, and its frame keeps
both (`Covers`). Each action has a lemma that it keeps `CInv`.

The theorems hold for every table of bins, size of page, cache and system, with `sbrk` and `mmap` failing at any
time. They assume `SizesAssumption`, `RangesAssumption`, `PageAssumption` (the alignment is that of a chunk
header, two words, since the code for others is not modelled; a page is larger than the least chunk; the size `mmap` backs up
`sbrk` with is whole pages) and `SetupsAssumption` (what the program asks for are sizes, `sbrk` and `mmap` give
different memory, and no page is at NULL). None says anything about the limit of `sbrk` or about what foreign code adds to the break.

`FastbinRace` assumes that NULL is neither a chunk nor a thread, that the cache has a natural size and that chunks are
finitely many, as any memory's are.

Model-checked only:

* liveness (`MallocReturns`, `EveryCallReturns`, `LockIsReleased`, `Terminates`, `ReadersReturn`), which with ENABLED is
  beyond the prover;
* `NoAbort`, which is not true of every system: with a limit of the break that is no multiple of the page the second `sbrk` of a
  region fails and an assertion ends the program (see below, `malloc-impl.c:2777`);
* `DebugChecks`, which says of every header that its `PREV_INUSE` and `prev_size` agree with the
  chunk before, and of the marks of the bins that they agree with the bins; `IInv` needs neither, because a wrong bit leads
  to an `abort` or to a merge with a chunk that is checked to be free;
* `EveryChunkAccounted`, sums over all chunks, which need that no chunk is without an owner.

## Where code and words part, and no run shows it

* `malloc-impl.c:2777`: when the second `sbrk`, which would bring the end of a new region to a page
  boundary, fails, "it might be enough to proceed without failing"; the call succeeds, and the
  assertion on the old top (2539-2542) stops the program at the next `sysmalloc`. The initial breaks and limits of the
  setups leave it out: the limit is a multiple of the page.
* `malloc-impl.c:3559`: `pvalloc` masks with `-(pagesize - 1)`, which keeps the lowest bit.
* `dictionary/lib.asm:232,240`: `parse_int` of a lone sign returns length 1; the comment at line 219 says 0 (`NoNumberNoLength`).
* `dictionary/lib.asm:253`: `string_copy` returns the length with the terminator; the comment at line 245 says the length.
* `io-library/lib.asm:141`: a word as long as the buffer is accepted and its terminator written behind the
  buffer; `test.py:378-379` expects the contrary (`LongWordsFail`).
* `dictionary/lib.asm:159-166`: white space is looked at before the size, so a word exactly as long as the size is
  accepted in front of a space (its terminator goes one byte further) and refused at the end of the text; the
  comment at line 146 speaks of words that are too long only (`LongestWordTaken`).
* `dictionary/test.py:33-43` expects `max input size exceeded error`, `empty input error` and `invalid characters error`. The program
  has two messages, `line reading error` and `no entry found error` (`main.asm:14-17`), and the list is shifted against the inputs: the
  first stands beside the empty one, the second beside `@#$%^&*()!`, the third beside ten thousand letters. `DictionaryAnswers`
  says when there must be an error and when an answer, not how an error is worded.
* `dictionary/main.asm:50`: after success the exit status is 1, what `print_string` leaves in `rdi`.
* `image-transform/solution/src/main.c:26,63,70,77`: returns with an error code free nothing, although
  `common-mistakes.md:69` asks for it (`EveryReturnFrees`). `HeapOwned` accounts for these blocks.
* `image-transform/solution/src/main.c:44` reports a turn by 180 degrees; `rotation.c:53` mirrors vertically.
  `Expected` describes it by what it does.

## Not modelled, and what is left

Left out for good: of `malloc-impl.c` what is named above; the debug printers; the test programs
(clients of what is modelled); `header.c` of sepia-filter, which nothing calls; the
floating-point sums of the sepia filter; `exit`, `string_length`, `print_string`, `print_char` and `print_newline`,
one system call or one loop each; headers whose `width * height * 3` wraps in a `size_t` (`ProductsAssumption`), with which the rows overrun a block that is too small; what `fclose` reports; and the build files. A
`write` is assumed to take all it is given.

Within reach: `DebugChecks`, from an invariant that adds the bits of the headers to `IInv`; several fastbins and arenas.
