--------------------------- MODULE PtmallocProofs ---------------------------
(***************************************************************************)
(* Proofs about the allocator of malloc-impl.c: every step keeps the       *)
(* inductive invariant IInv, whatever the calls, the answers of the system *)
(* and the sbrks of other code, and what follows from it for the program;  *)
(* and CInv besides, which is about calloc.                                *)
(***************************************************************************)
EXTENDS PtmallocLemmas

-----------------------------------------------------------------------------
(* Memory that is given and taken at top                                   *)

(* The system gives or takes memory at top; S of the old top is freed.     *)
TopChanged(S) ==
  /\ UNCHANGED <<mapped, tcache, setup, held>>
  /\ mp' \in Params /\ mp'.max_fast <= request2size(MAX_FAST_SIZE)
  /\ brk' \in BRK_START..BRK_LIMIT /\ pages' \subseteq MMAP_PAGES /\ Mapped(mapped, pages')
  /\ Laid(chunk') /\ Given(chunk', mapped, BRK_START..brk' - 1, pages')
  /\ Keeps(chunk, mapped, chunk', mapped, {av.top})
  /\ av' \in Arenas /\ av'.bins = av.bins /\ av'.fastbins = av.fastbins
  /\ av'.top \in DOMAIN chunk' \cup {NULL} /\ av'.top \notin Owned \cup S
  /\ S \subseteq {av.top} /\ Linked(S, chunk', mapped)

LEMMA TopChanges ==
  ASSUME Good, NEW S, TopChanged(S), Legal(call', chunk', mapped, held), Base(call').p = Base(call).p,
         OnCall' \subseteq OnCall \cup S, Returned' \subseteq Returned,
         ret' \in Answers, Failed' = {}, RetOK', HeadOK'
  PROVE  Good'
<1>1. Parted(av.top, InCache, InFast, InBins, OnCall, Returned, Still, Block)
  BY PartsOf
<1>2. /\ mapped' = mapped /\ setup' = setup /\ held' = held /\ tcache' = tcache
      /\ av'.bins = av.bins /\ av'.fastbins = av.fastbins
  BY DEF TopChanged
<1>3. Keeps(chunk, mapped, chunk', mapped', {av.top})
  BY <1>2 DEF TopChanged
<1>4. ListsOK' /\ InCache' = InCache /\ InFast' = InFast /\ InBins' = InBins
  <2>1. {av.top} \cap (InCache \cup InFast \cup InBins) = {}
    BY <1>1 DEF Parted
  <2>2. Listless
    BY <1>2 DEF Listless
  <2> QED
    BY <1>3, <2>1, <2>2, ListsKept
<1>5. Block' = Block /\ Still' = Still
  BY <1>2 DEF Block, Still
<1>6. Types'
  BY <1>2 DEF Good, Types, BRK_START, BRK_LIMIT, MMAP_PAGES, TopChanged
<1>7. HeapOK'
  <2>1. Sbrk' = BRK_START..brk' - 1
    BY <1>2 DEF Sbrk, BRK_START
  <2> QED
    BY <1>2, <2>1 DEF HeapOK, TopChanged
<1>8. PICK T, Q, t : T = OnCall' /\ Q = Returned' /\ t = av'.top
  OBVIOUS
<1>9. T \subseteq OnCall \cup S /\ Q \subseteq Returned /\ t \notin Owned \cup S /\ S \subseteq {av.top}
  BY <1>8 DEF TopChanged
<1>10. Owned' \subseteq (Owned \ {av.top}) \cup S
  <2>1. av.top \notin Owned
    BY <1>1 DEF Parted, Owned
  <2> QED
    BY <1>4, <1>5, <1>8, <1>9, <2>1 DEF Owned
<1>11. Parted(av.top, InCache, InFast, InBins, OnCall, Returned, Still, Block)'
  <2>1. T \cap (InCache \cup InFast \cup InBins \cup Q \cup Still \cup Block) = {}
    BY <1>1, <1>9 DEF Parted
  <2>2. t \notin InCache \cup InFast \cup InBins \cup T \cup Q \cup Still \cup Block
    BY <1>9 DEF Owned
  <2>3. Parted(t, InCache, InFast, InBins, T, Q, Still, Block)
    BY <1>1, <1>9, <2>1, <2>2 DEF Parted
  <2> QED
    BY <1>4, <1>5, <1>8, <2>3
<1>12. Roomy(held, Failed', chunk', mapped') /\ Still \cap {av.top} = {}
  BY <1>1 DEF Roomy, Parted
<1>13. Linked(S, chunk', mapped') /\ Legal(call, chunk, mapped, held)'
  BY <1>2 DEF TopChanged
<1> QED
  BY <1>2, <1>3, <1>4, <1>6, <1>7, <1>10, <1>11, <1>12, <1>13, Assemble, Zenon

(* The break moves to or from the end of top.                              *)
Moves(n, z) ==
  /\ n \in Int /\ brk = old_end /\ brk + n \in BRK_START..BRK_LIMIT
  /\ z = top_size + n /\ z >= 2 * SIZE_SZ

(* Memory at the end of a chunk comes or goes.                             *)
CanResize(c, p, n, m, r, g, q, f) ==
  /\ p \in DOMAIN c /\ n \in Nat /\ n >= 2 * SIZE_SZ
  /\ \A w \in p + c[p].size..p + n - 1 : ~Arena(w, m, r, g)
  /\ \A w : Arena(w, m, r, g) /\ ~(p <= w /\ w < p + c[p].size) => Arena(w, m, q, f)
  /\ \A w \in p..p + n - 1 : Arena(w, m, q, f)

WasResized(c, d, p, n, m, q, f) ==
  /\ Laid(d) /\ Given(d, m, q, f) /\ Keeps(c, m, d, m, {p})
  /\ DOMAIN d = DOMAIN c /\ d[p].size = n

LEMMA Resizes ==
  ASSUME NEW c, Laid(c), NEW m, NEW r, NEW g, Given(c, m, r, g), NEW d, NEW p, NEW n, NEW q, NEW f,
         CanResize(c, p, n, m, r, g, q, f), IsResize(c, d, p, n)
  PROVE  WasResized(c, d, p, n, m, q, f)
<1>1. /\ p \in DOMAIN c /\ n \in Nat /\ n >= 2 * SIZE_SZ
      /\ \A w \in p + c[p].size..p + n - 1 : ~Arena(w, m, r, g)
      /\ \A w : Arena(w, m, r, g) /\ ~(p <= w /\ w < p + c[p].size) => Arena(w, m, q, f)
      /\ \A w \in p..p + n - 1 : Arena(w, m, q, f)
  BY DEF CanResize
<1>2. /\ Laid(d) /\ Given(d, m, q, f) /\ Keeps(c, m, d, m, {p})
      /\ DOMAIN d = DOMAIN c /\ d[p].size = n
  BY <1>1, ResizeLaid
<1> QED
  BY <1>2 DEF WasResized

LEMMA BreakMoves ==
  ASSUME Good, NEW n, NEW z, Moves(n, z), NEW d, IsResize(chunk, d, av.top, z)
  PROVE  /\ Laid(d) /\ Given(d, mapped, BRK_START..brk + n - 1, pages)
         /\ Keeps(chunk, mapped, d, mapped, {av.top}) /\ DOMAIN d = DOMAIN chunk
         /\ av.top \in DOMAIN chunk
<1>1. PICK p, s, k, e : p = av.top /\ s = top_size /\ k = brk /\ e = brk + n
  OBVIOUS
<1>2. /\ setup \in SETUPS /\ k \in BRK_START..BRK_LIMIT /\ pages \subseteq MMAP_PAGES
      /\ BRK_START \in Nat /\ BRK_LIMIT \in Nat /\ BRK_START > 0
  BY <1>1, SetupsAssumption DEF Good, Types, BRK_START, BRK_LIMIT
<1>3. s \in Nat /\ p \in Nat /\ (p # NULL => p \in DOMAIN chunk /\ chunk[p].size = s)
  BY <1>1, TopSize
<1>4. k = p + s /\ e = k + n /\ n \in Int /\ z = s + n /\ z >= 2 * SIZE_SZ /\ e \in BRK_START..BRK_LIMIT
  BY <1>1 DEF Moves, old_end
<1>5. p # NULL
  <2> SUFFICES ASSUME p = NULL PROVE FALSE
    OBVIOUS
  <2>1. s = 0
    BY <1>1 DEF top_size
  <2> QED
    BY <1>2, <1>4, <2>1 DEF NULL
<1>6. z \in Nat /\ p + z = e /\ e \in Nat /\ k \in Nat
  BY <1>2, <1>3, <1>4, Units
<1>7. PICK r, f : r = BRK_START..k - 1 /\ f = BRK_START..e - 1
  OBVIOUS
<1>8. Laid(chunk) /\ Given(chunk, mapped, r, pages)
  BY <1>1, <1>7, PartsOf DEF Sbrk
<1>9. \A w \in p + s..p + z - 1 : ~Arena(w, mapped, r, pages)
  <2> SUFFICES ASSUME NEW w \in p + s..p + z - 1 PROVE ~Arena(w, mapped, r, pages)
    OBVIOUS
  <2>1. w \in Nat /\ k <= w /\ w < e
    BY <1>3, <1>4, <1>6
  <2>2. w \notin r
    BY <1>2, <1>6, <1>7, <2>1
  <2>3. w \div PAGE \notin pages
    BY <1>2, <1>4, <2>1, SystemApart
  <2> QED
    BY <2>2, <2>3 DEF Arena
<1>10. ASSUME NEW w, Arena(w, mapped, r, pages), ~(p <= w /\ w < p + s) PROVE Arena(w, mapped, f, pages)
  <2>1. CASE w \in r
    <3>1. w \in Int /\ BRK_START <= w /\ w < k
      BY <1>2, <1>6, <1>7, <2>1
    <3>2. w < p
      BY <1>3, <1>4, <1>10, <3>1
    <3>3. p < e
      BY <1>3, <1>4, <1>6, Units
    <3>4. w \in f
      BY <1>2, <1>3, <1>6, <1>7, <3>1, <3>2, <3>3
    <3> QED
      BY <3>4 DEF Arena
  <2>2. CASE w \notin r
    BY <1>10, <2>2 DEF Arena
  <2> QED
    BY <2>1, <2>2
<1>11. \A w \in p..p + z - 1 : Arena(w, mapped, f, pages)
  <2> SUFFICES ASSUME NEW w \in p..p + z - 1 PROVE Arena(w, mapped, f, pages)
    OBVIOUS
  <2>1. w \in Nat /\ p <= w /\ w < e
    BY <1>3, <1>6
  <2>2. CASE w < p + s
    <3>1. w \in words(chunk, p)
      BY <1>3, <1>5, <2>1, <2>2 DEF words
    <3>2. Arena(w, mapped, r, pages)
      BY <1>3, <1>5, <1>8, <3>1 DEF Given
    <3>3. w \in r => w \in f
      BY <1>2, <1>6, <1>7, <2>1
    <3> QED
      BY <3>2, <3>3 DEF Arena
  <2>3. CASE ~(w < p + s)
    <3>1. w \in f
      BY <1>2, <1>3, <1>4, <1>7, <2>1, <2>3
    <3> QED
      BY <3>1 DEF Arena
  <2> QED
    BY <2>2, <2>3
<1>12. p \in DOMAIN chunk /\ chunk[p].size = s /\ z \in Nat /\ z >= 2 * SIZE_SZ
  BY <1>3, <1>4, <1>5, <1>6
<1>13. IsResize(chunk, d, p, z)
  BY <1>1
<1>14. Laid(d) /\ Given(d, mapped, f, pages) /\ Keeps(chunk, mapped, d, mapped, {p}) /\ DOMAIN d = DOMAIN chunk
  <2>1. CanResize(chunk, p, z, mapped, r, pages, f, pages)
    <3>1. PICK u : u = chunk[p].size
      OBVIOUS
    <3>2. u = s
      BY <1>12, <3>1
    <3>3. /\ \A w \in p + u..p + z - 1 : ~Arena(w, mapped, r, pages)
          /\ \A w : Arena(w, mapped, r, pages) /\ ~(p <= w /\ w < p + u) => Arena(w, mapped, f, pages)
      BY <1>9, <1>10, <3>2
    <3> QED
      BY <1>11, <1>12, <3>1, <3>3 DEF CanResize
  <2> QED
    BY <1>8, <1>13, <2>1, Resizes DEF WasResized
<1>15. f = BRK_START..brk + n - 1
  <2>1. e - 1 = brk + n - 1
    BY <1>1, <1>4, <1>6
  <2> QED
    BY <1>7, <2>1
<1> QED
  BY <1>1, <1>12, <1>14, <1>15, Zenon

(* sysmalloc goes on to take a chunk from top, once what was freed of the  *)
(* old top has gone.                                                       *)
Carves(S) ==
  \/ S = {} /\ call' = <<[op EXCEPT !.at = "carve"]>> \o Tail(call)
  \/ /\ S = {av.top} /\ av.top \in DOMAIN chunk'
     /\ call' = <<Frame("int_free", 0, av.top, 0), [op EXCEPT !.at = "carve"]>> \o Tail(call)

LEMMA CarvesNext ==
  ASSUME Good, At("morecore"), ret' = ret, NEW S, TopChanged(S), Carves(S)
  PROVE  Good'
<1>1. "morecore" \in Mallocs /\ "morecore" \in Sized /\ "carve" \in Sized
  BY DEF Mallocs, Sized
<1>2. /\ call # << >> /\ op.at = "morecore" /\ Above(op) /\ op.x = 0 /\ Bare(op)
      /\ FrameOK(op, Topmost(Tail(call)), Base(Tail(call)), chunk, mapped, held)
  BY <1>1, MallocOp
<1>3. PICK t, a, d : t = Tail(call) /\ a = av.top /\ d = chunk'
  OBVIOUS
<1>4. /\ Base(call) = Base(t) /\ OnCall = Holds(op) \cup OnStack(t) /\ Waiting(t)
      /\ Legal(t, chunk, mapped, held) /\ t \in Seq(Frames)
  BY <1>2, <1>3, Popped
<1>5. Keeps(chunk, mapped, d, mapped, {a}) /\ Laid(d) /\ mapped' = mapped /\ held' = held
  BY <1>3 DEF TopChanged
<1>6. OnStack(t) \cap {a} = {} /\ OnStack(t) = OnCall
  BY <1>2, <1>3, <1>4, PartsOf DEF Parted, Bare
<1>7. Legal(t, d, mapped, held)
  BY <1>4, <1>5, <1>6, KeptStack
<1>8. PICK g : g = [op EXCEPT !.at = "carve"]
  OBVIOUS
<1>9. /\ FrameOK(g, Topmost(t), Base(t), chunk, mapped, held) /\ g.at = "carve" /\ Above(g)
      /\ g.at \notin Needy /\ Bare(g) /\ Waits(g)
  BY <1>1, <1>2, <1>3, <1>8, Relabel
<1>10. FrameOK(g, Topmost(t), Base(t), d, mapped, held)
  <2>1. \A p \in Holds(g) : Steady(p, chunk, mapped, d, mapped)
    BY <1>9 DEF Bare
  <2>2. \A p \in DOMAIN held : p = Base(t).p => p \in DOMAIN held /\ held[p] = held[p]
    OBVIOUS
  <2> QED
    BY <1>9, <2>1, <2>2, FrameSteady
<1>11. PICK s : s = call'
  OBVIOUS
<1>12. \E f : /\ Grown(s, t, f, S \cup OnStack(t), d, mapped, held)
              /\ Above(f) /\ f.at \notin Needy /\ Waits(f)
  <2>1. CASE S = {} /\ s = <<g>> \o t
    <3>1. Apart1(g, t)
      BY <1>9 DEF Apart1, Bare
    <3>2. Grown(s, t, g, Holds(g) \cup OnStack(t), d, mapped, held)
      BY <1>4, <1>7, <1>9, <1>10, <2>1, <3>1, Push1
    <3>3. Holds(g) \cup OnStack(t) = S \cup OnStack(t)
      BY <1>9, <2>1 DEF Bare
    <3> QED
      BY <1>9, <3>2, <3>3
  <2>2. CASE S = {a} /\ a \in DOMAIN d /\ s = <<Frame("int_free", 0, a, 0), g>> \o t
    <3>1. PICK f : f = Frame("int_free", 0, a, 0)
      OBVIOUS
    <3>2. FrameOK(f, g, Base(t), d, mapped, held) /\ Above(f) /\ Holds(f) = {a} /\ f.at \notin Needy
      BY <1>5, <1>9, <2>2, <3>1, FreeFrame DEF Above
    <3>3. Waits(f)
      BY <3>1 DEF Waits, Frame
    <3>4. Apart2(f, g, t)
      BY <1>6, <1>9, <3>2 DEF Apart2, Apart1, Bare
    <3>5. s = <<f, g>> \o t
      BY <2>2, <3>1
    <3>6. Grown(s, t, f, Holds(f) \cup Holds(g) \cup OnStack(t), d, mapped, held)
      BY <1>4, <1>7, <1>9, <1>10, <3>2, <3>4, <3>5, Push2
    <3>7. Holds(f) \cup Holds(g) \cup OnStack(t) = S \cup OnStack(t)
      BY <1>9, <2>2, <3>2 DEF Bare
    <3> QED
      BY <3>2, <3>3, <3>6, <3>7
  <2> QED
    BY <1>3, <1>8, <1>11, <2>1, <2>2 DEF Carves
<1>13. PICK f : /\ Grown(s, t, f, S \cup OnStack(t), d, mapped, held)
                /\ Above(f) /\ f.at \notin Needy /\ Waits(f)
  BY <1>12
<1>14. /\ Legal(call', chunk', mapped, held) /\ Base(call').p = Base(call).p
       /\ Topmost(call') = f /\ call' # << >> /\ OnCall' \subseteq OnCall \cup S
  BY <1>3, <1>4, <1>6, <1>11, <1>13 DEF Grown, OnCall
<1>15. Returned' \subseteq Returned /\ Failed' = {}
  BY <1>13, <1>14, StillReturned
<1>16. RetOK'
  BY <1>13, <1>14 DEF RetOK
<1>17. HeadOK'
  <2>1. Waiting(call)'
    BY <1>13, <1>14 DEF Waiting
  <2> QED
    BY <2>1, HeadFree
<1>18. ret' \in Answers
  BY RetIs
<1> QED
  BY <1>14, <1>15, <1>16, <1>17, <1>18, TopChanges

(* The header of top, and what the arena knows of it, after the break has  *)
(* moved.                                                                  *)
Stretched(c, p, n) == [c EXCEPT ![p].size = @ + n, ![p].prev_inuse = TRUE]

SizedAs(c, p, z, b) == [c EXCEPT ![p].size = z, ![p].prev_inuse = b]

LEMMA SizedAsIs ==
  ASSUME NEW c, Heads(c), NEW p \in DOMAIN c, NEW b \in BOOLEAN, NEW z \in Nat
  PROVE  IsResize(c, SizedAs(c, p, z, b), p, z)
BY DEF IsResize, Headers, Heads, SizedAs

LEMMA StretchedIs ==
  ASSUME NEW c, Heads(c), NEW p \in DOMAIN c, NEW n \in Int, NEW z \in Nat, z = c[p].size + n
  PROVE  IsResize(c, Stretched(c, p, n), p, z)
<1>1. Stretched(c, p, n) = SizedAs(c, p, z, TRUE)
  BY DEF Stretched, SizedAs
<1>2. TRUE \in BOOLEAN
  OBVIOUS
<1>3. IsResize(c, SizedAs(c, p, z, TRUE), p, z)
  BY <1>2, SizedAsIs, Zenon
<1> QED
  BY <1>1, <1>3, Zenon

BreakTo(n) ==
  /\ brk' = brk + n /\ chunk' = Stretched(chunk, av.top, n)
  /\ av' = [av EXCEPT !.system_mem = @ + n]
  /\ UNCHANGED <<mapped, mp, tcache, pages, setup, held>>

LEMMA BreakChanges ==
  ASSUME Good, NEW n, NEW z, Moves(n, z), BreakTo(n)
  PROVE  TopChanged({})
<1>1. PICK p, s, e : p = av.top /\ s = top_size /\ e = brk + n
  OBVIOUS
<1>2. /\ s \in Nat /\ p \in Nat /\ (p # NULL => p \in DOMAIN chunk /\ chunk[p].size = s)
  BY <1>1, TopSize
<1>3. n \in Int /\ z = s + n /\ z >= 2 * SIZE_SZ /\ e \in BRK_START..BRK_LIMIT /\ brk = p + s
  BY <1>1 DEF Moves, old_end
<1>4. brk > 0 /\ brk \in Nat /\ setup \in SETUPS
  BY SetupsAssumption DEF Good, Types, BRK_START, BRK_LIMIT
<1>5. p # NULL
  <2> SUFFICES ASSUME p = NULL PROVE FALSE
    OBVIOUS
  <2>1. s = 0
    BY <1>1 DEF top_size
  <2> QED
    BY <1>3, <1>4, <2>1 DEF NULL
<1>6. Heads(chunk) /\ z \in Nat
  BY <1>2, <1>3, PartsOf, Units
<1>7. PICK d : d = chunk'
  OBVIOUS
<1>8. IsResize(chunk, d, av.top, z)
  <2>1. d = Stretched(chunk, p, n)
    BY <1>1, <1>7 DEF BreakTo
  <2> QED
    BY <1>1, <1>2, <1>3, <1>5, <1>6, <2>1, StretchedIs
<1>9. /\ Laid(d) /\ Given(d, mapped, BRK_START..brk + n - 1, pages)
      /\ Keeps(chunk, mapped, d, mapped, {av.top}) /\ DOMAIN d = DOMAIN chunk
  BY <1>8, BreakMoves
<1>10. Given(d, mapped, BRK_START..e - 1, pages)
  <2>1. BRK_START..brk + n - 1 = BRK_START..e - 1
    BY <1>1, <1>3, <1>4
  <2> QED
    BY <1>9, <2>1
<1>11. av' \in Arenas /\ av'.top = av.top /\ av'.bins = av.bins /\ av'.fastbins = av.fastbins
  <2>1. PICK x : x = av.system_mem + n
    OBVIOUS
  <2>2. av \in Arenas /\ av.system_mem \in Int
    BY DEF Good, Types, Arenas
  <2>3. av' = [av EXCEPT !.system_mem = x] /\ x \in Int
    BY <1>3, <2>1, <2>2 DEF BreakTo
  <2> QED
    BY <2>2, <2>3 DEF Arenas
<1>12. av.top \notin Owned /\ Mapped(mapped, pages)
  BY PartsOf DEF Parted, Owned
<1>13. /\ UNCHANGED <<mapped, tcache, setup, held>> /\ brk' = e /\ pages' = pages /\ mp' = mp
  BY <1>1 DEF BreakTo
<1>14. mp \in Params /\ mp.max_fast <= request2size(MAX_FAST_SIZE) /\ pages \subseteq MMAP_PAGES
  BY DEF Good, Types
<1>15. Linked({}, chunk', mapped)
  BY DEF Linked
<1> QED
  BY <1>1, <1>2, <1>3, <1>5, <1>7, <1>9, <1>10, <1>11, <1>12, <1>13, <1>14, <1>15 DEF TopChanged

-----------------------------------------------------------------------------
(* systrim                                                                 *)

(* What systrim gives back leaves more than MINSIZE of top.                *)
LEMMA TrimLeaves ==
  ASSUME Good, NEW pad \in Nat, NEW x, x = trim_extra(pad)
  PROVE  x \in Int /\ top_size - x \in Int /\ (top_size - x >= 2 * SIZE_SZ \/ x = 0)
<1>1. PICK s, area : s = top_size /\ area = s - MINSIZE - 1
  OBVIOUS
<1>2. s \in Nat /\ area \in Int /\ MINSIZE \in Nat /\ MINSIZE = 4 * SIZE_SZ /\ SIZE_SZ \in Nat
  BY <1>1, TopSize, Units
<1>3. x = IF area >= 0 /\ area <= pad THEN 0 ELSE ALIGN_DOWN(area - pad, PAGE)
  BY <1>1 DEF trim_extra
<1>4. CASE area >= 0 /\ area <= pad
  BY <1>1, <1>2, <1>3, <1>4
<1>5. CASE ~(area >= 0 /\ area <= pad)
  <2>1. PICK y : y = area - pad
    OBVIOUS
  <2>2. y \in Int /\ y <= area
    BY <1>2, <2>1
  <2>3. ALIGN_DOWN(y, PAGE) \in Int /\ ALIGN_DOWN(y, PAGE) <= y
    BY <2>2, PageSize, RoundDown
  <2>4. x \in Int /\ x <= area
    BY <1>2, <1>3, <1>5, <2>1, <2>2, <2>3
  <2>5. s - x \in Int /\ s - x >= 2 * SIZE_SZ
    BY <1>1, <1>2, <2>4
  <2> QED
    BY <1>1, <2>4, <2>5
<1> QED
  BY <1>4, <1>5

LEMMA SystrimFine ==
  ASSUME Good, Systrim
  PROVE  Fine'
<1>1. At("systrim") /\ Return /\ UNCHANGED <<mapped, mp, tcache, pages, setup, held>>
  BY DEF Systrim
<1>2. /\ call # << >> /\ op.at = "systrim" /\ Above(op) /\ op \in Frames
      /\ FrameOK(op, Topmost(Tail(call)), Base(Tail(call)), chunk, mapped, held)
  BY <1>1, Running
<1>3. op.nb \in Nat /\ op.at \notin Reallocs \cup {"done"}
  BY <1>2 DEF Frames, Reallocs
<1>4. PICK extra : extra = trim_extra(op.nb)
  OBVIOUS
<1>5. extra \in Int /\ top_size - extra \in Int /\ (top_size - extra >= 2 * SIZE_SZ \/ extra = 0)
  BY <1>3, <1>4, TrimLeaves
<1>6. CASE ~(brk = old_end /\ extra # 0 /\ sbrk_gives(-extra))
  <2>1. UNCHANGED <<heap, tcache, rest>>
    BY <1>1, <1>4, <1>6 DEF Systrim, rest, system
  <2>2. HeapKept
    BY <2>1, Untouched
  <2> QED
    BY <1>1, <1>2, <1>3, <2>2, Stops DEF Fine, Return
<1>7. CASE brk = old_end /\ extra # 0 /\ sbrk_gives(-extra)
  <2>1. PICK n, z : n = -extra /\ z = top_size + n
    OBVIOUS
  <2>2. brk \in Int /\ top_size \in Int
    BY TopSize DEF Good, Types, BRK_START, BRK_LIMIT
  <2>3. n \in Int /\ z >= 2 * SIZE_SZ /\ brk + n \in BRK_START..BRK_LIMIT
    <3>1. PICK s : s = top_size
      OBVIOUS
    <3>2. brk + n \in BRK_START..BRK_LIMIT
      BY <1>7, <2>1 DEF sbrk_gives
    <3>3. z = s - extra
      BY <1>5, <1>7, <2>1, <2>2, <3>1
    <3> QED
      BY <1>5, <1>7, <2>1, <3>1, <3>2, <3>3
  <2>4. Moves(n, z)
    BY <1>7, <2>1, <2>3 DEF Moves
  <2>5. /\ brk' = brk - extra /\ av' = [av EXCEPT !.system_mem = @ - extra]
        /\ chunk' = [chunk EXCEPT ![av.top].size = @ - extra, ![av.top].prev_inuse = TRUE]
    BY <1>4, <1>7 DEF Systrim
  <2>6. av.top \in DOMAIN chunk /\ chunk[av.top].size \in Int
    <3>1. PICK d : d = [chunk EXCEPT ![av.top].size = z]
      OBVIOUS
    <3>2. Heads(chunk)
      BY PartsOf
    <3>3. av.top # NULL
      <4>1. brk > 0
        BY SetupsAssumption DEF Good, Types, BRK_START, BRK_LIMIT
      <4> QED
        BY <1>7, <4>1 DEF old_end, top_size, NULL
    <3> QED
      BY <2>2, <3>3, TopSize
  <2>7. BreakTo(n)
    <3>1. brk' = brk + n
      BY <1>5, <1>7, <2>1, <2>2, <2>5
    <3>2. PICK u, v : u = chunk[av.top].size /\ v = av.system_mem
      OBVIOUS
    <3>3. u \in Int /\ v \in Int
      BY <2>6, <3>2 DEF Good, Types, Arenas
    <3>4. u - extra = u + n /\ v - extra = v + n
      BY <1>5, <1>7, <2>1, <3>3
    <3>5. av' = [av EXCEPT !.system_mem = @ + n]
      BY <2>5, <3>2, <3>4
    <3>6. chunk' = Stretched(chunk, av.top, n)
      BY <2>5, <3>2, <3>4 DEF Stretched
    <3> QED
      BY <1>1, <3>1, <3>5, <3>6 DEF BreakTo
  <2>8. TopChanged({})
    BY <2>4, <2>7, BreakChanges
  <2>9. /\ Legal(call', chunk, mapped, held) /\ Base(call').p = Base(call).p /\ HeadOK'
        /\ OnCall' = OnStack(Tail(call)) /\ OnStack(Tail(call)) \subseteq OnCall
    BY <1>1, <1>2, Resumes, Popped DEF Return
  <2>10. Returned' = {} /\ Failed' = {} /\ RetOK' /\ ret' \in Answers
    BY <1>1, <1>2, <1>3, GivesUp, NoReturnIs DEF Return
  <2>11. PICK s, d, t : s = call' /\ d = chunk' /\ t = av.top
    OBVIOUS
  <2>12. Legal(s, d, mapped, held)
    <3>1. OnStack(s) \cap {t} = {}
      BY <2>9, <2>11, PartsOf DEF Parted, OnCall
    <3>2. Keeps(chunk, mapped, d, mapped, {t})
      BY <2>8, <2>11 DEF TopChanged
    <3>3. Legal(s, chunk, mapped, held)
      BY <2>9, <2>11
    <3> QED
      BY <3>1, <3>2, <3>3, KeptStack
  <2>13. Legal(call', chunk', mapped, held)
    BY <2>11, <2>12
  <2>14. OnCall' \subseteq OnCall \cup {} /\ Returned' \subseteq Returned
    BY <2>9, <2>10
  <2> QED
    BY <2>8, <2>9, <2>10, <2>13, <2>14, TopChanges DEF Fine
<1> QED
  BY <1>6, <1>7

(* What sysmalloc asks of the system.                                      *)
LEMMA MoreIs ==
  ASSUME Good, At("morecore"), NEW n, n = more(op.nb)
  PROVE  /\ n \in Nat /\ n > 0 /\ n >= PAGE /\ op.nb \in Nat /\ top_size < op.nb + MINSIZE
         /\ (av.top # NULL => top_size >= MINSIZE)
         /\ \E q \in Int : n = q * PAGE
<1>1. "morecore" \in Mallocs
  BY DEF Mallocs
<1>2. PICK b, s, a, m : b = op.nb /\ s = top_size /\ m = mp.top_pad /\ a = IF av.contiguous THEN s ELSE 0
  OBVIOUS
<1>3. b \in Nat /\ s \in Nat /\ m \in Nat /\ a \in Nat /\ a <= s /\ MINSIZE \in Nat
  <2>1. b \in Nat /\ s \in Nat
    BY <1>1, <1>2, MallocOp, TopSize
  <2>2. m \in Nat
    BY <1>2 DEF Good, Types, Params
  <2> QED
    BY <1>2, <2>1, <2>2, Units
<1>4. s < b + MINSIZE /\ (av.top # NULL => s >= MINSIZE)
  BY <1>2 DEF Good, HeadOK
<1>5. PICK x : x = b + m + MINSIZE - a
  OBVIOUS
<1>6. x \in Int /\ x > 0
  BY <1>3, <1>4, <1>5
<1>7. n = ALIGN_UP(x, PAGE)
  BY <1>2, <1>5 DEF more
<1>8. /\ ALIGN_UP(x, PAGE) \in Int /\ x <= ALIGN_UP(x, PAGE)
      /\ \E q \in Int : ALIGN_UP(x, PAGE) = q * PAGE
  BY <1>6, PageSize, RoundUp
<1>9. PICK q \in Int : n = q * PAGE
  BY <1>7, <1>8
<1>10. n \in Int /\ n > 0
  BY <1>6, <1>7, <1>8
<1>11. q >= 1
  BY <1>9, <1>10, PageSize
<1>12. n >= PAGE
  BY <1>9, <1>11, PageSize
<1> QED
  BY <1>2, <1>3, <1>4, <1>9, <1>10, <1>12

LEMMA ExtendTopFine ==
  ASSUME Good, ExtendTop
  PROVE  Fine'
<1>1. PICK n, z : n = more(op.nb) /\ z = top_size + n
  OBVIOUS
<1>2. /\ At("morecore") /\ brk + n \in BRK_START..BRK_LIMIT /\ brk = old_end /\ brk' = brk + n
      /\ chunk' = Stretched(chunk, av.top, n) /\ av' = [av EXCEPT !.system_mem = @ + n]
      /\ Goto("carve") /\ UNCHANGED <<mapped, mp, tcache, pages, setup, ret, held>>
  BY <1>1 DEF ExtendTop, sbrk_gives, Stretched
<1>3. n \in Nat /\ n >= PAGE
  BY <1>1, <1>2, MoreIs
<1>4. z >= 2 * SIZE_SZ
  BY <1>1, <1>3, TopSize, Units
<1>5. TopChanged({})
  <2>1. Moves(n, z)
    BY <1>1, <1>2, <1>3, <1>4 DEF Moves
  <2>2. BreakTo(n)
    BY <1>2 DEF BreakTo
  <2> QED
    BY <2>1, <2>2, BreakChanges
<1>6. Carves({})
  BY <1>2 DEF Carves, Goto, Continue
<1>7. ret' = ret
  BY <1>2
<1> QED
  BY <1>2, <1>5, <1>6, <1>7, CarvesNext DEF Fine

-----------------------------------------------------------------------------
(* sysmalloc when the memory is not next to top                            *)

(* Two fenceposts of a words each, after the first l of a chunk.           *)
Fenceposts(c, p, l, a) ==
  With(With(With(c, p, Head2(l)), p + l, Head2(a)), p + l + a, Head2(a))

LEMMA SizedIs ==
  ASSUME NEW c, Heads(c), NEW p \in DOMAIN c, NEW n \in Nat
  PROVE  IsResize(c, With(c, p, Head2(n)), p, n)
<1>1. IsNew(c, With(c, p, Head2(n)), p, n)
  BY HeadersNew
<1> QED
  BY <1>1 DEF IsNew, IsResize

LEMMA PostsNone ==
  ASSUME NEW c, Heads(c), NEW p \in DOMAIN c, p \in Nat, NEW l, l = 0, NEW a \in Nat, a > 0,
         NEW e, IsResize(c, e, p, l + a + a), NEW d, d = Fenceposts(c, p, l, a),
         p + l + a \notin DOMAIN c
  PROVE  IsCut(e, d, p, l + a)
<1>1. PICK x, y, q : x = With(c, p, Head2(l)) /\ y = With(x, p, Head2(a)) /\ q = p + a
  OBVIOUS
<1>2. d = With(y, q, Head2(a)) /\ q \notin DOMAIN c /\ q \in Nat /\ q # p /\ l + a = a /\ l + a + a = a + a
  <2>1. p + l = p /\ p + l + a = q /\ q \in Nat /\ q # p /\ l + a = a /\ l + a + a = a + a
    BY <1>1
  <2> QED
    BY <1>1, <2>1 DEF Fenceposts
<1>3. IsNew(c, x, p, l) /\ Heads(x)
  <2>1. IsNew(c, x, p, l)
    BY <1>1, HeadersNew
  <2> QED
    BY <2>1 DEF IsNew, Heads
<1>4. IsNew(x, y, p, a) /\ Heads(y)
  <2>1. IsNew(x, y, p, a)
    BY <1>1, <1>3, HeadersNew
  <2> QED
    BY <2>1 DEF IsNew, Heads
<1>5. IsNew(y, d, q, a)
  BY <1>2, <1>4, HeadersNew
<1>6. DOMAIN y = DOMAIN c /\ y[p].size = a /\ \A b \in DOMAIN c \ {p} : y[b].size = c[b].size
  BY <1>3, <1>4 DEF IsNew
<1>7. PICK s : s = e[p].size
  OBVIOUS
<1>8. s = a + a /\ s - a = a
  BY <1>2, <1>7 DEF IsResize
<1>9. DOMAIN e = DOMAIN c /\ \A b \in DOMAIN e \ {p} : e[b].size = c[b].size
  BY DEF IsResize
<1>10. IsCut(e, d, p, a)
  <2>1. DOMAIN d = DOMAIN e \cup {q} /\ d \in [DOMAIN d -> Headers] /\ d[p].size = a /\ d[q].size = s - a
    BY <1>2, <1>5, <1>6, <1>8, <1>9 DEF IsNew
  <2>2. ASSUME NEW b \in DOMAIN e \ {p} PROVE d[b].size = e[b].size
    <3>1. CASE b = q
      <4>1. b \in DOMAIN c
        BY <1>9
      <4> QED
        BY <1>2, <3>1, <4>1
    <3>2. CASE b # q
      BY <1>5, <1>6, <1>9, <3>2 DEF IsNew
    <3> QED
      BY <3>1, <3>2
  <2> QED
    BY <1>1, <1>7, <2>1, <2>2 DEF IsCut
<1> QED
  BY <1>2, <1>10

LEMMA PostsSome ==
  ASSUME NEW c, Heads(c), NEW p \in DOMAIN c, p \in Nat, NEW l \in Nat, l > 0, NEW a \in Nat, a > 0,
         NEW e, IsResize(c, e, p, l + a + a), NEW f, IsCut(e, f, p, l + a),
         NEW d, d = Fenceposts(c, p, l, a), p + l \notin DOMAIN c, p + l + a \notin DOMAIN c
  PROVE  IsCut(f, d, p, l)
<1>1. PICK x, y, q, r : x = With(c, p, Head2(l)) /\ q = p + l /\ r = p + l + a /\ y = With(x, q, Head2(a))
  OBVIOUS
<1>2. d = With(y, r, Head2(a)) /\ q # p /\ r # p /\ r # q /\ r = p + (l + a) /\ q \in Nat /\ r \in Nat
  <2>1. q # p /\ r # p /\ r # q /\ r = p + (l + a) /\ q \in Nat /\ r \in Nat
    BY <1>1
  <2> QED
    BY <1>1, <2>1 DEF Fenceposts
<1>3. IsNew(c, x, p, l) /\ Heads(x)
  <2>1. IsNew(c, x, p, l)
    BY <1>1, HeadersNew
  <2> QED
    BY <2>1 DEF IsNew, Heads
<1>4. IsNew(x, y, q, a) /\ Heads(y)
  <2>1. IsNew(x, y, q, a)
    BY <1>1, <1>3, HeadersNew
  <2> QED
    BY <2>1 DEF IsNew, Heads
<1>5. IsNew(y, d, r, a)
  BY <1>2, <1>4, HeadersNew
<1>6. /\ DOMAIN x = DOMAIN c /\ DOMAIN y = DOMAIN c \cup {q} /\ DOMAIN d = DOMAIN c \cup {q, r}
      /\ d \in [DOMAIN d -> Headers] /\ d[r].size = a
  BY <1>3, <1>4, <1>5 DEF IsNew
<1>7. d[p].size = l /\ d[q].size = a
  BY <1>2, <1>3, <1>4, <1>5, <1>6 DEF IsNew
<1>8. \A b \in DOMAIN c \ {p} : d[b].size = c[b].size
  <2> SUFFICES ASSUME NEW b \in DOMAIN c \ {p} PROVE d[b].size = c[b].size
    OBVIOUS
  <2>1. b # q /\ b # r
    BY <1>1
  <2> QED
    BY <1>3, <1>4, <1>5, <1>6, <2>1 DEF IsNew
<1>9. PICK s, n, z : s = e[p].size /\ n = l + a /\ z = f[p].size
  OBVIOUS
<1>10. s = l + a + a /\ s - n = a /\ z = n /\ z - l = a
  <2>1. s = l + a + a /\ z = n
    BY <1>9 DEF IsResize, IsCut
  <2> QED
    BY <1>9, <2>1
<1>11. DOMAIN f = DOMAIN c \cup {r} /\ f[r].size = a /\ \A b \in DOMAIN c \ {p} : f[b].size = c[b].size
  BY <1>2, <1>9, <1>10 DEF IsResize, IsCut
<1>12. ASSUME NEW b \in DOMAIN f \ {p} PROVE d[b].size = f[b].size
  <2>1. CASE b = r
    BY <1>6, <1>11, <2>1
  <2>2. CASE b # r
    BY <1>8, <1>11, <1>12, <2>2
  <2> QED
    BY <2>1, <2>2
<1> QED
  BY <1>1, <1>6, <1>7, <1>9, <1>10, <1>11, <1>12 DEF IsCut

(* The old top between the fenceposts.                                     *)
Fenced(d) ==
  /\ Laid(d) /\ Given(d, mapped, Sbrk, pages) /\ Keeps(chunk, mapped, d, mapped, {av.top})
  /\ releases_old_top => av.top \in DOMAIN d /\ Linked({av.top}, d, mapped)

LEMMA LeftIs ==
  ASSUME NEW s \in Nat, s >= MINSIZE, NEW l, l = ALIGN_DOWN(s - 2 * CHUNK_HDR_SZ, MALLOC_ALIGNMENT)
  PROVE  /\ l \in Nat /\ (l > 0 => l >= 2 * SIZE_SZ) /\ l + 4 * SIZE_SZ <= s
         /\ (s >= MINSIZE + 2 * CHUNK_HDR_SZ => l > 0)
<1>1. PICK u, a, x : u = SIZE_SZ /\ a = MALLOC_ALIGNMENT /\ x = s - 2 * CHUNK_HDR_SZ
  OBVIOUS
<1>2. u \in Nat /\ u > 0 /\ a = 2 * u /\ x = s - 4 * u /\ s >= 4 * u /\ x \in Nat /\ a \in Nat \ {0}
  BY <1>1, Units
<1>3. l = ALIGN_DOWN(x, a)
  BY <1>1
<1>4. /\ ALIGN_DOWN(x, a) \in Int /\ ALIGN_DOWN(x, a) <= x /\ x < ALIGN_DOWN(x, a) + a
      /\ \E q \in Int : ALIGN_DOWN(x, a) = q * a
  <2>1. x \in Int /\ a \in Nat \ {0}
    BY <1>2
  <2> QED
    BY <2>1, RoundDown
<1>5. PICK q \in Int : l = q * a
  BY <1>3, <1>4
<1>6. l \in Int /\ l <= x /\ x < l + a
  BY <1>3, <1>4
<1>7. q >= 0
  <2> SUFFICES ASSUME q < 0 PROVE FALSE
    OBVIOUS
  <2>1. q <= -1
    OBVIOUS
  <2>2. q * a <= -a
    BY <1>2, <2>1
  <2> QED
    BY <1>2, <1>5, <1>6, <2>2
<1>8. l >= 0
  BY <1>2, <1>5, <1>7
<1>9. l > 0 => l >= a
  <2> SUFFICES ASSUME l > 0 PROVE l >= a
    OBVIOUS
  <2>1. q # 0
    BY <1>2, <1>5
  <2>2. q >= 1
    BY <1>7, <2>1
  <2> QED
    BY <1>2, <1>5, <2>2
<1>10. s >= MINSIZE + 2 * CHUNK_HDR_SZ => l > 0
  <2>1. s >= 8 * u => l > 0
    BY <1>2, <1>6
  <2> QED
    BY <1>1, <2>1, Units
<1> QED
  BY <1>1, <1>2, <1>6, <1>8, <1>9, <1>10

LEMMA FencedIs ==
  ASSUME Good, av.top # NULL, top_size >= MINSIZE, NEW d, d = fenced(chunk)
  PROVE  Fenced(d)
<1>1. PICK p, s, l, a, n : /\ p = av.top /\ s = top_size /\ a = CHUNK_HDR_SZ
                           /\ l = ALIGN_DOWN(s - 2 * CHUNK_HDR_SZ, MALLOC_ALIGNMENT)
                           /\ n = l + a + a
  OBVIOUS
<1>2. s \in Nat /\ p \in Nat /\ p \in DOMAIN chunk /\ chunk[p].size = s
  BY <1>1, TopSize
<1>3. /\ l \in Nat /\ (l > 0 => l >= 2 * SIZE_SZ) /\ l + 4 * SIZE_SZ <= s
      /\ (s >= MINSIZE + 2 * CHUNK_HDR_SZ => l > 0)
  BY <1>1, <1>2, LeftIs
<1>4. a = 2 * SIZE_SZ /\ a \in Nat /\ a > 0 /\ n \in Nat /\ n >= 2 * SIZE_SZ /\ n <= s /\ n = l + a + a
  BY <1>1, <1>2, <1>3, Units
<1>5. d = Fenceposts(chunk, p, l, a)
  BY <1>1 DEF fenced, Fenceposts
<1>6. Laid(chunk) /\ Heads(chunk) /\ Given(chunk, mapped, Sbrk, pages)
  BY PartsOf
<1>7. PICK e : e = With(chunk, p, Head2(n))
  OBVIOUS
<1>8. IsResize(chunk, e, p, n)
  BY <1>2, <1>4, <1>6, <1>7, SizedIs
<1>9. WasResized(chunk, e, p, n, mapped, Sbrk, pages)
  <2>1. \A w \in p + s..p + n - 1 : ~Arena(w, mapped, Sbrk, pages)
    BY <1>2, <1>4
  <2>2. \A w \in p..p + n - 1 : Arena(w, mapped, Sbrk, pages)
    <3> SUFFICES ASSUME NEW w \in p..p + n - 1 PROVE Arena(w, mapped, Sbrk, pages)
      OBVIOUS
    <3>1. w \in words(chunk, p)
      BY <1>2, <1>4 DEF words
    <3> QED
      BY <1>2, <1>6, <3>1 DEF Given
  <2>3. CanResize(chunk, p, n, mapped, Sbrk, pages, Sbrk, pages)
    <3>1. \A w : Arena(w, mapped, Sbrk, pages) => Arena(w, mapped, Sbrk, pages)
      OBVIOUS
    <3>2. PICK u : u = chunk[p].size
      OBVIOUS
    <3>3. \A w \in p + u..p + n - 1 : ~Arena(w, mapped, Sbrk, pages)
      BY <1>2, <2>1, <3>2
    <3> QED
      BY <1>2, <1>4, <2>2, <3>1, <3>2, <3>3 DEF CanResize
  <2> QED
    BY <1>6, <1>8, <2>3, Resizes
<1>10. /\ Laid(e) /\ Given(e, mapped, Sbrk, pages) /\ Keeps(chunk, mapped, e, mapped, {p})
       /\ DOMAIN e = DOMAIN chunk /\ e[p].size = n
  BY <1>9 DEF WasResized
<1>11. p + l + a \notin DOMAIN chunk /\ p + l + a = p + (l + a)
  <2>1. PICK k : k = l + a
    OBVIOUS
  <2>2. k \in Nat /\ 0 < k /\ k < s /\ p + l + a = p + k
    BY <1>2, <1>3, <1>4, <2>1, Units
  <2>3. p + k \notin DOMAIN chunk
    BY <1>2, <1>6, <2>2, Inside
  <2> QED
    BY <2>1, <2>2, <2>3
<1>12. CASE l = 0
  <2>1. IsCut(e, d, p, l + a)
    BY <1>2, <1>4, <1>5, <1>6, <1>8, <1>11, <1>12, PostsNone
  <2>2. PICK k : k = l + a
    OBVIOUS
  <2>3. CanCut(e, p, k)
    <3>1. k \in Nat /\ 2 * SIZE_SZ <= k /\ k <= n - 2 * SIZE_SZ
      BY <1>3, <1>4, <2>2, Units
    <3> QED
      BY <1>2, <1>10, <3>1 DEF CanCut
  <2>4. WasCut(e, d, p, k, mapped, Sbrk, pages)
    BY <1>10, <2>1, <2>2, <2>3, CutLaid
  <2>5. Keeps(chunk, mapped, d, mapped, {p} \cup {p})
    BY <1>10, <2>4, KeepsTwice DEF WasCut
  <2>6. {p} \cup {p} = {p} /\ ~releases_old_top
    BY <1>1, <1>3, <1>12 DEF releases_old_top
  <2> QED
    BY <1>1, <2>4, <2>5, <2>6 DEF Fenced, WasCut
<1>13. CASE l # 0
  <2>1. PICK k, f : k = l + a /\ f = Shortened(e, p, k, a)
    OBVIOUS
  <2>2. k \in Nat /\ k > 0 /\ k < n /\ a = n - k /\ 2 * SIZE_SZ <= k /\ k <= n - 2 * SIZE_SZ /\ l > 0
    BY <1>3, <1>4, <1>13, <2>1, Units
  <2>3. IsCut(e, f, p, k)
    BY <1>2, <1>10, <2>1, <2>2, ShortenedSame
  <2>4. CanCut(e, p, k)
    BY <1>2, <1>10, <2>2 DEF CanCut
  <2>5. WasCut(e, f, p, k, mapped, Sbrk, pages)
    BY <1>10, <2>3, <2>4, CutLaid
  <2>6. p + l \notin DOMAIN chunk
    <3>1. 0 < l /\ l < s
      BY <1>2, <1>3, <1>4, <2>2, Units
    <3> QED
      BY <1>2, <1>3, <1>6, <3>1, Inside
  <2>7. IsCut(f, d, p, l)
    <3>1. IsCut(e, f, p, l + a)
      BY <2>1, <2>3
    <3> QED
      BY <1>2, <1>3, <1>4, <1>5, <1>6, <1>8, <1>11, <2>2, <2>6, <3>1, PostsSome
  <2>8. Laid(f) /\ Given(f, mapped, Sbrk, pages) /\ Keeps(e, mapped, f, mapped, {p}) /\ f[p].size = k
        /\ p \in DOMAIN f
    BY <2>5 DEF WasCut
  <2>9. CanCut(f, p, l)
    <3>1. 2 * SIZE_SZ <= l /\ l <= k - 2 * SIZE_SZ
      BY <1>3, <1>4, <2>1, <2>2, Units
    <3> QED
      BY <1>3, <2>8, <3>1 DEF CanCut
  <2>10. WasCut(f, d, p, l, mapped, Sbrk, pages)
    BY <2>7, <2>8, <2>9, CutLaid
  <2>11. Keeps(chunk, mapped, d, mapped, {p})
    <3>1. Keeps(f, mapped, d, mapped, {p})
      BY <2>10 DEF WasCut
    <3>2. Keeps(chunk, mapped, f, mapped, {p} \cup {p})
      BY <1>10, <2>8, KeepsTwice
    <3>3. Keeps(chunk, mapped, d, mapped, ({p} \cup {p}) \cup {p})
      BY <3>1, <3>2, KeepsTwice
    <3>4. ({p} \cup {p}) \cup {p} = {p}
      OBVIOUS
    <3> QED
      BY <3>3, <3>4
  <2>12. p \in DOMAIN d /\ Linked({p}, d, mapped)
    BY <2>10 DEF WasCut, Linked
  <2> QED
    BY <1>1, <2>10, <2>11, <2>12 DEF Fenced, WasCut
<1> QED
  BY <1>12, <1>13

(* A new top on memory that has just been given.                           *)
NewMemory(top, size, e, g) ==
  /\ top \in Nat /\ top > 0 /\ size \in Nat /\ size >= 2 * SIZE_SZ
  /\ e \in BRK_START..BRK_LIMIT /\ g \subseteq MMAP_PAGES /\ Mapped(mapped, g)
  /\ \A w \in top..top + size - 1 : ~Arena(w, mapped, Sbrk, pages)
  /\ \A w \in top..top + size - 1 : Arena(w, mapped, BRK_START..e - 1, g)
  /\ \A w : Arena(w, mapped, Sbrk, pages) => Arena(w, mapped, BRK_START..e - 1, g)

TopComes(top, size, e, g) ==
  /\ NewTop(top, size) /\ brk' = e /\ pages' = g
  /\ av' \in Arenas /\ av'.top = top /\ av'.bins = av.bins /\ av'.fastbins = av.fastbins
  /\ mp' \in Params /\ mp'.max_fast <= request2size(MAX_FAST_SIZE)
  /\ UNCHANGED <<mapped, tcache, setup, ret, held>>

Old(c) == c = IF av.top = NULL THEN chunk ELSE fenced(chunk)

LEMMA OldIs ==
  ASSUME Good, At("morecore"), NEW c, Old(c)
  PROVE  Fenced(c)
<1>1. CASE av.top = NULL
  <2>1. c = chunk
    BY <1>1 DEF Old
  <2>2. Keeps(chunk, mapped, chunk, mapped, {})
    BY NoOverlap
  <2>3. Keeps(chunk, mapped, chunk, mapped, {av.top})
    BY <2>2, KeepsMore
  <2>4. ~releases_old_top
    <3>1. top_size = 0
      BY <1>1 DEF top_size
    <3> QED
      BY <3>1, Units DEF releases_old_top
  <2> QED
    BY <2>1, <2>3, <2>4, PartsOf DEF Fenced
<1>2. CASE av.top # NULL
  <2>1. top_size >= MINSIZE
    BY <1>2 DEF Good, HeadOK
  <2> QED
    BY <1>2, <2>1, FencedIs DEF Old
<1> QED
  BY <1>1, <1>2

LEMMA NewTopFine ==
  ASSUME Good, At("morecore"), NEW top, NEW size, NEW e, NEW g,
         NewMemory(top, size, e, g), TopComes(top, size, e, g)
  PROVE  Good'
<1>1. PICK c, d : Old(c) /\ d = chunk'
  BY DEF Old
<1>2. d = With(c, top, Head2(size))
  BY <1>1 DEF TopComes, NewTop, Old
<1>3. PICK r, q : r = Sbrk /\ q = BRK_START..e - 1
  OBVIOUS
<1>4. /\ Laid(c) /\ Given(c, mapped, r, pages) /\ Keeps(chunk, mapped, c, mapped, {av.top})
      /\ (releases_old_top => av.top \in DOMAIN c /\ Linked({av.top}, c, mapped))
  BY <1>1, <1>3, OldIs DEF Fenced
<1>5. /\ top \in Nat /\ top > 0 /\ size \in Nat /\ size >= 2 * SIZE_SZ
      /\ e \in BRK_START..BRK_LIMIT /\ g \subseteq MMAP_PAGES /\ Mapped(mapped, g)
      /\ \A w \in top..top + size - 1 : ~Arena(w, mapped, r, pages)
      /\ \A w \in top..top + size - 1 : Arena(w, mapped, q, g)
      /\ \A w : Arena(w, mapped, r, pages) => Arena(w, mapped, q, g)
  BY <1>3 DEF NewMemory
<1>6. IsNew(c, d, top, size)
  <2>1. Heads(c)
    BY <1>4 DEF Laid, Heads
  <2> QED
    BY <1>2, <1>5, <2>1, HeadersNew
<1>7. /\ Laid(d) /\ Given(d, mapped, q, g) /\ Keeps(c, mapped, d, mapped, {})
      /\ top \in DOMAIN d
  <2>1. CanPlace(mapped, top, size, r, pages, q, g)
    BY <1>5 DEF CanPlace
  <2> QED
    BY <1>4, <1>6, <2>1, NewLaid DEF WasPlaced
<1>8. Keeps(chunk, mapped, d, mapped, {av.top})
  <2>1. Keeps(chunk, mapped, d, mapped, {av.top} \cup {})
    BY <1>4, <1>7, KeepsTwice
  <2>2. {av.top} \cup {} = {av.top}
    OBVIOUS
  <2> QED
    BY <2>1, <2>2
<1>9. top \notin Owned /\ top # av.top
  <2>1. top \notin DOMAIN chunk
    <3> SUFFICES ASSUME top \in DOMAIN chunk PROVE FALSE
      OBVIOUS
    <3>1. Laid(chunk) /\ Given(chunk, mapped, r, pages)
      BY <1>3, PartsOf
    <3>2. top \in words(chunk, top)
      BY <1>5, <3>1, LaidTypes, Units DEF words
    <3>3. Arena(top, mapped, r, pages)
      BY <3>1, <3>2 DEF Given
    <3>4. top \in top..top + size - 1
      BY <1>5, Units
    <3> QED
      BY <1>5, <3>3, <3>4
  <2>2. top \notin DOMAIN mapped
    <3> SUFFICES ASSUME top \in DOMAIN mapped PROVE FALSE
      OBVIOUS
    <3>1. setup \in SETUPS /\ Given(d, mapped, BRK_START..e - 1, g)
      BY <1>3, <1>7 DEF Good, Types
    <3>2. top \notin DOMAIN d
      BY <1>5, <1>7, <3>1, ChunkOrMapped
    <3> QED
      BY <1>7, <3>2
  <2> QED
    BY <1>5, <2>1, <2>2, Fresh DEF NULL
<1>10. PICK S : S = IF releases_old_top THEN {av.top} ELSE {}
  OBVIOUS
<1>11. Linked(S, d, mapped) /\ (releases_old_top => av.top \in DOMAIN d)
  <2>1. CASE releases_old_top
    <3>1. Linked({av.top}, c, mapped) /\ av.top \in DOMAIN c
      BY <1>4, <2>1
    <3>2. {av.top} \subseteq {av.top} \ {}
      OBVIOUS
    <3>3. Linked({av.top}, d, mapped)
      BY <1>7, <3>1, <3>2, KeptLinked
    <3>4. av.top \in DOMAIN d
      BY <1>7, <3>1 DEF Keeps
    <3> QED
      BY <1>10, <2>1, <3>3, <3>4
  <2>2. CASE ~releases_old_top
    BY <1>10, <2>2 DEF Linked
  <2> QED
    BY <2>1, <2>2
<1>12. TopChanged(S)
  <2>1. /\ UNCHANGED <<mapped, tcache, setup, held>> /\ brk' = e /\ pages' = g
        /\ mp' \in Params /\ mp'.max_fast <= request2size(MAX_FAST_SIZE)
        /\ av' \in Arenas /\ av'.top = top /\ av'.bins = av.bins /\ av'.fastbins = av.fastbins
    BY DEF TopComes
  <2>2. Given(chunk', mapped, BRK_START..brk' - 1, pages')
    BY <1>1, <1>3, <1>7, <2>1
  <2>3. S \subseteq {av.top} /\ top \notin Owned \cup S
    BY <1>9, <1>10
  <2> QED
    BY <1>1, <1>5, <1>7, <1>8, <1>11, <2>1, <2>2, <2>3 DEF TopChanged
<1>13. Carves(S)
  <2>1. CASE releases_old_top
    BY <1>1, <1>10, <1>11, <2>1 DEF TopComes, NewTop, Continue, Carves
  <2>2. CASE ~releases_old_top
    BY <1>10, <2>2 DEF TopComes, NewTop, Continue, Carves
  <2> QED
    BY <2>1, <2>2
<1>14. ret' = ret
  BY DEF TopComes
<1> QED
  BY <1>12, <1>13, <1>14, CarvesNext

LEMMA BasedIs ==
  ASSUME Good, NEW start \in Nat, NEW par, par = based(start)
  PROVE  par \in Params /\ par.max_fast <= request2size(MAX_FAST_SIZE)
<1>1. PICK x : x = IF mp.sbrk_base = NULL THEN start ELSE mp.sbrk_base
  OBVIOUS
<1>2. mp \in Params /\ mp.max_fast <= request2size(MAX_FAST_SIZE)
  BY DEF Good, Types
<1>3. par = [mp EXCEPT !.sbrk_base = x]
  BY <1>1 DEF based
<1>4. x \in Nat
  BY <1>1, <1>2 DEF Params
<1> QED
  BY <1>2, <1>3, <1>4 DEF Params

(* The arena has another top and more memory.                              *)
Topped(top, n) == [av EXCEPT !.top = top, !.system_mem = @ + n]

SameLists(a, top) ==
  a \in Arenas /\ a.top = top /\ a.bins = av.bins /\ a.fastbins = av.fastbins

LEMMA ArenaTop ==
  ASSUME Good, NEW top \in Nat, NEW n \in Int
  PROVE  SameLists(Topped(top, n), top)
<1>1. PICK x, b, a : x = av.system_mem + n /\ b = [av EXCEPT !.top = top] /\ a = Topped(top, n)
  OBVIOUS
<1>2. av \in Arenas
  BY DEF Good, Types
<1>3. x \in Int
  BY <1>1, <1>2 DEF Arenas
<1>4. b \in Arenas /\ b.top = top /\ b.bins = av.bins /\ b.fastbins = av.fastbins
  BY <1>1, <1>2 DEF Arenas
<1>5. a = [b EXCEPT !.system_mem = x]
  BY <1>1, <1>2 DEF Arenas, Topped
<1>6. a \in Arenas /\ a.top = top /\ a.bins = av.bins /\ a.fastbins = av.fastbins
  BY <1>3, <1>4, <1>5 DEF Arenas
<1> QED
  BY <1>1, <1>6 DEF SameLists

(* Memory that sbrk gives behind the break.                                *)
LEMMA BehindBreak ==
  ASSUME Good, NEW top \in Nat, NEW size \in Nat, size >= 2 * SIZE_SZ, brk <= top,
         NEW e, e = top + size, e \in BRK_START..BRK_LIMIT
  PROVE  NewMemory(top, size, e, pages)
<1>1. /\ BRK_START \in Nat /\ BRK_LIMIT \in Nat /\ BRK_START > 0 /\ brk \in Nat /\ brk >= BRK_START
      /\ setup \in SETUPS /\ pages \subseteq MMAP_PAGES /\ e \in Nat /\ e <= BRK_LIMIT
  BY SetupsAssumption DEF Good, Types, BRK_START, BRK_LIMIT
<1>2. Mapped(mapped, pages)
  BY PartsOf
<1>3. top > 0
  BY <1>1
<1>4. PICK r, q : r = Sbrk /\ q = BRK_START..e - 1
  OBVIOUS
<1>5. ASSUME NEW w \in top..top + size - 1
      PROVE  ~Arena(w, mapped, r, pages) /\ Arena(w, mapped, q, pages)
  <2>1. w \in Nat /\ brk <= w /\ w < e
    BY <1>1
  <2>2. w \notin r /\ w \in q
    BY <1>1, <1>4, <2>1 DEF Sbrk
  <2>3. w \div PAGE \notin pages
    BY <1>1, <2>1, SystemApart
  <2> QED
    BY <2>2, <2>3 DEF Arena
<1>6. ASSUME NEW w, Arena(w, mapped, r, pages) PROVE Arena(w, mapped, q, pages)
  <2>1. w \in r => w \in q
    BY <1>1, <1>4 DEF Sbrk
  <2> QED
    BY <1>6, <2>1 DEF Arena
<1> QED
  BY <1>1, <1>2, <1>3, <1>4, <1>5, <1>6 DEF NewMemory

LEMMA BreakIs ==
  ASSUME Good
  PROVE  brk \in Nat /\ brk > 0
BY SetupsAssumption DEF Good, Types, BRK_START, BRK_LIMIT

LEMMA NewRegionApartFine ==
  ASSUME Good, NewRegionApart
  PROVE  Fine'
<1>1. PICK n, e : n = more(op.nb) /\ e = brk + n
  OBVIOUS
<1>2. /\ At("morecore") /\ e \in BRK_START..BRK_LIMIT /\ brk' = e /\ mp' = based(brk)
      /\ UNCHANGED <<mapped, tcache, pages, setup, ret, held>>
  BY <1>1 DEF NewRegionApart, sbrk_gives
<1>3. n \in Nat /\ n >= 2 * SIZE_SZ /\ brk \in Nat /\ brk <= brk
  <2>1. n \in Nat /\ n >= PAGE
    BY <1>1, <1>2, MoreIs
  <2> QED
    BY <2>1, Units, BreakIs
<1>4. CASE misalign(brk) > 0
  <2>1. Abort
    BY <1>4 DEF NewRegionApart
  <2> QED
    BY <2>1, Aborts
<1>5. CASE ~(misalign(brk) > 0)
  <2>1. NewTop(brk, n) /\ av' = [av EXCEPT !.top = brk, !.system_mem = @ + n]
    BY <1>1, <1>5 DEF NewRegionApart
  <2>2. NewMemory(brk, n, e, pages)
    BY <1>1, <1>2, <1>3, BehindBreak
  <2>3. /\ av' \in Arenas /\ av'.top = brk /\ av'.bins = av.bins /\ av'.fastbins = av.fastbins
    <3>1. av' = Topped(brk, n) /\ n \in Int
      BY <1>3, <2>1 DEF Topped
    <3>2. SameLists(Topped(brk, n), brk)
      BY <1>3, <3>1, ArenaTop
    <3> QED
      BY <3>1, <3>2 DEF SameLists
  <2>4. mp' \in Params /\ mp'.max_fast <= request2size(MAX_FAST_SIZE)
    BY <1>2, <1>3, BasedIs
  <2>5. TopComes(brk, n, e, pages)
    BY <1>2, <2>1, <2>3, <2>4 DEF TopComes
  <2> QED
    BY <1>2, <2>2, <2>5, NewTopFine DEF Fine
<1> QED
  BY <1>4, <1>5

LEMMA NewRegionFine ==
  ASSUME Good, NewRegion
  PROVE  Fine'
<1>1. PICK n, mis, second : n = more(op.nb) /\ mis = misalign(brk) /\ second = correction(brk, n)
  OBVIOUS
<1>2. PICK got, top, size, e : /\ got = IF sbrk_gives(n + second) THEN second ELSE 0
                               /\ top = brk + mis /\ size = n - mis + got /\ e = brk + n + got
  OBVIOUS
<1>3. /\ At("morecore") /\ sbrk_gives(n) /\ brk' = e /\ mp' = based(brk)
      /\ IF brk < old_end THEN Abort
         ELSE /\ NewTop(top, size)
              /\ av' = [av EXCEPT !.top = top, !.system_mem = @ + n + foreign_gap + got]
      /\ UNCHANGED <<mapped, tcache, pages, setup, ret, held>>
  BY <1>1, <1>2 DEF NewRegion
<1>4. n \in Nat /\ n >= PAGE /\ brk \in Nat /\ top_size \in Nat
  BY <1>1, <1>3, MoreIs, BreakIs, TopSize
<1>5. mis \in Nat /\ mis < 2 * SIZE_SZ
  <2>1. PICK a, x : a = MALLOC_ALIGNMENT /\ x = ALIGN_UP(brk, a)
    OBVIOUS
  <2>2. a \in Nat \ {0} /\ a = 2 * SIZE_SZ /\ brk \in Int
    BY <1>4, <2>1, Units
  <2>3. x \in Int /\ brk <= x /\ x < brk + a
    BY <2>1, <2>2, RoundUp
  <2>4. mis = x - brk
    BY <1>1, <2>1 DEF misalign
  <2> QED
    BY <1>4, <2>2, <2>3, <2>4
<1>6. second \in Nat
  <2>1. PICK c, z : c = mis + top_size /\ z = brk + n + c
    OBVIOUS
  <2>2. c \in Nat /\ z \in Nat /\ z \in Int
    BY <1>4, <1>5, <2>1
  <2>3. PICK x : x = ALIGN_UP(z, PAGE)
    OBVIOUS
  <2>4. x \in Int /\ z <= x
    BY <2>2, <2>3, PageSize, RoundUp
  <2>5. second = c + x - z
    BY <1>1, <2>1, <2>3 DEF correction
  <2> QED
    BY <2>2, <2>4, <2>5
<1>7. got \in Nat /\ e \in BRK_START..BRK_LIMIT
  <2>1. CASE sbrk_gives(n + second)
    <3>1. got = second /\ brk + (n + second) = e
      BY <1>2, <1>4, <1>6, <2>1
    <3> QED
      BY <1>6, <2>1, <3>1 DEF sbrk_gives
  <2>2. CASE ~sbrk_gives(n + second)
    <3>1. got = 0 /\ e = brk + n
      BY <1>2, <1>4, <2>2
    <3> QED
      BY <1>3, <3>1 DEF sbrk_gives
  <2> QED
    BY <2>1, <2>2
<1>8. top \in Nat /\ size \in Nat /\ size >= 2 * SIZE_SZ /\ brk <= top /\ e = top + size
  BY <1>2, <1>4, <1>5, <1>7, Units
<1>9. CASE brk < old_end
  <2>1. Abort
    BY <1>3, <1>9
  <2> QED
    BY <2>1, Aborts
<1>10. CASE ~(brk < old_end)
  <2>1. NewTop(top, size) /\ av' = [av EXCEPT !.top = top, !.system_mem = @ + n + foreign_gap + got]
    BY <1>3, <1>10
  <2>2. NewMemory(top, size, e, pages)
    BY <1>7, <1>8, BehindBreak
  <2>3. /\ av' \in Arenas /\ av'.top = top /\ av'.bins = av.bins /\ av'.fastbins = av.fastbins
    <3>1. PICK f, v, k : f = foreign_gap /\ v = av.system_mem /\ k = n + f + got
      OBVIOUS
    <3>2. f \in Int /\ v \in Int
      <4>1. old_end \in Int
        BY <1>4, TopSize DEF old_end
      <4>2. f \in Int
        BY <1>4, <3>1, <4>1 DEF foreign_gap
      <4> QED
        BY <3>1, <4>2 DEF Good, Types, Arenas
    <3>3. v + n + f + got = v + k /\ k \in Int
      BY <1>4, <1>7, <3>1, <3>2
    <3>4. av' = [av EXCEPT !.top = top, !.system_mem = @ + k]
      BY <2>1, <3>1, <3>3
    <3>5. av' = Topped(top, k)
      BY <3>4 DEF Topped
    <3>6. SameLists(Topped(top, k), top)
      BY <1>8, <3>3, ArenaTop
    <3> QED
      BY <3>5, <3>6 DEF SameLists
  <2>4. mp' \in Params /\ mp'.max_fast <= request2size(MAX_FAST_SIZE)
    BY <1>3, <1>4, BasedIs
  <2>5. TopComes(top, size, e, pages)
    BY <1>3, <2>1, <2>3, <2>4 DEF TopComes
  <2> QED
    BY <1>3, <2>2, <2>5, NewTopFine DEF Fine
<1> QED
  BY <1>9, <1>10

LEMMA Whole ==
  ASSUME NEW w \in Nat \ {0}, NEW x \in Nat, x % w = 0, NEW n, n = x \div w
  PROVE  n \in Nat /\ x = n * w
OBVIOUS

(* What is asked of mmap instead.                                          *)
LEMMA BackupIs ==
  ASSUME Good, At("morecore"), NEW z, z = backup_size(op.nb), NEW l, l = z \div PAGE
  PROVE  z \in Nat /\ z > 0 /\ z >= 2 * SIZE_SZ /\ l \in Nat /\ z = l * PAGE
<1>1. PICK n, s, x : n = more(op.nb) /\ s = top_size /\ x = IF av.contiguous THEN ALIGN_UP(n + s, PAGE) ELSE n
  OBVIOUS
<1>2. /\ n \in Nat /\ n > 0 /\ s \in Nat /\ \E q \in Int : n = q * PAGE
  BY <1>1, MoreIs, TopSize
<1>3. x \in Nat /\ x > 0 /\ x \div PAGE \in Nat /\ x = (x \div PAGE) * PAGE
  <2>1. CASE av.contiguous
    <3>1. n + s \in Nat /\ n + s > 0
      BY <1>2
    <3>2. PICK y, m : y = n + s /\ m = x \div PAGE
      OBVIOUS
    <3>3. x = ALIGN_UP(y, PAGE)
      BY <1>1, <2>1, <3>2
    <3>4. x \in Nat /\ x >= y /\ m \in Nat /\ x = m * PAGE
      BY <3>1, <3>2, <3>3, WholePages
    <3> QED
      BY <3>1, <3>2, <3>4
  <2>2. CASE ~av.contiguous
    <3>1. PICK q \in Int : n = q * PAGE
      BY <1>2
    <3>2. q >= 0
      <4> SUFFICES ASSUME q < 0 PROVE FALSE
        BY <3>1
      <4>1. q * PAGE < 0
        BY PageSize
      <4> QED
        BY <1>2, <3>1, <4>1
    <3>3. q \in Nat
      BY <3>2
    <3>4. (q * PAGE) \div PAGE = q
      BY <3>3, PageSize, Multiple
    <3> QED
      BY <1>1, <1>2, <2>2, <3>1, <3>3, <3>4
  <2> QED
    BY <2>1, <2>2
<1>4. PICK b : b = MMAP_AS_MORECORE_SIZE
  OBVIOUS
<1>5. b \in Nat /\ b > 0 /\ b \div PAGE \in Nat /\ b = (b \div PAGE) * PAGE
  <2>1. b \in Nat \ {0} /\ b % PAGE = 0
    BY <1>4, PageAssumption
  <2>2. PICK m : m = b \div PAGE
    OBVIOUS
  <2>3. m \in Nat /\ b = m * PAGE
    <3>1. b \in Nat /\ b % PAGE = 0 /\ PAGE \in Nat \ {0}
      BY <2>1, PageSize
    <3> QED
      BY <2>2, <3>1, Whole
  <2> QED
    BY <2>1, <2>2, <2>3
<1>6. z = IF x < b THEN b ELSE x
  BY <1>1, <1>4 DEF backup_size
<1>7. z \in Nat /\ z > 0 /\ l \in Nat /\ z = l * PAGE
  BY <1>3, <1>5, <1>6
<1>8. l >= 1
  BY <1>7, PageSize
<1>9. z >= PAGE
  BY <1>7, <1>8, PageSize
<1> QED
  BY <1>7, <1>9, Units

(* Memory that mmap gives.                                                 *)
LEMMA FreshPages ==
  ASSUME Good, NEW i \in Nat, i > 0, NEW l \in Nat, run(i, l) \subseteq MMAP_PAGES \ pages,
         NEW size, size = l * PAGE, size \in Nat, size >= 2 * SIZE_SZ,
         NEW top, top = i * PAGE, NEW g, g = pages \cup run(i, l)
  PROVE  NewMemory(top, size, brk, g)
<1>1. /\ BRK_START \in Nat /\ BRK_LIMIT \in Nat /\ brk \in BRK_START..BRK_LIMIT
      /\ setup \in SETUPS /\ pages \subseteq MMAP_PAGES
  BY SetupsAssumption DEF Good, Types, BRK_START, BRK_LIMIT
<1>2. top \in Nat /\ top > 0
  BY PageSize
<1>3. Mapped(mapped, pages)
  BY PartsOf
<1>4. \A p \in DOMAIN mapped : own(mapped, p) \subseteq pages
  BY <1>3 DEF Mapped
<1>5. Mapped(mapped, g)
  <2>1. \A p \in DOMAIN mapped : own(mapped, p) \subseteq g
    BY <1>4
  <2> QED
    BY <1>3, <2>1 DEF Mapped
<1>6. g \subseteq MMAP_PAGES
  BY <1>1
<1>7. PICK r : r = Sbrk
  OBVIOUS
<1>8. ASSUME NEW w \in top..top + size - 1
      PROVE  ~Arena(w, mapped, r, pages) /\ Arena(w, mapped, r, g)
  <2>1. w \in Nat /\ i * PAGE <= w /\ w < (i + l) * PAGE
    <3>1. w \in Nat /\ top <= w /\ w < top + size
      BY <1>2
    <3>2. (i + l) * PAGE = i * PAGE + l * PAGE
      BY PageSize
    <3> QED
      BY <3>1, <3>2
  <2>2. w \div PAGE \in i..(i + l) - 1
    BY <2>1, PageSize, DivWithin
  <2>3. w \div PAGE \in run(i, l)
    BY <2>2 DEF run
  <2>4. w \div PAGE \in MMAP_PAGES /\ w \div PAGE \notin pages /\ w \div PAGE \in g
    BY <2>3
  <2>5. ~(BRK_START <= w /\ w < BRK_LIMIT)
    BY <1>1, <2>1, <2>4, SystemApart
  <2>6. w \notin r
    BY <1>1, <1>7, <2>1, <2>5 DEF Sbrk
  <2> QED
    BY <1>4, <2>4, <2>6 DEF Arena
<1>9. ASSUME NEW w, Arena(w, mapped, r, pages) PROVE Arena(w, mapped, r, g)
  BY <1>9 DEF Arena
<1>10. r = BRK_START..brk - 1
  BY <1>7 DEF Sbrk
<1> QED
  BY <1>1, <1>2, <1>5, <1>6, <1>7, <1>8, <1>9, <1>10 DEF NewMemory

LEMMA MmapBackupFine ==
  ASSUME Good, MmapBackup
  PROVE  Fine'
<1>1. At("morecore")
  BY DEF MmapBackup
<1>2. PICK size, l : size = backup_size(op.nb) /\ l = size \div PAGE
  OBVIOUS
<1>3. PICK i \in backup_places(op.nb) :
        /\ pages' = pages \cup run(i, l)
        /\ NewTop(i * PAGE, size)
        /\ av' = [set_noncontiguous(av) EXCEPT !.top = i * PAGE, !.system_mem = @ + size]
        /\ mp' = based(i * PAGE)
        /\ UNCHANGED <<mapped, tcache, brk, setup, ret, held>>
  BY <1>2 DEF MmapBackup
<1>4. size \in Nat /\ size > 0 /\ size >= 2 * SIZE_SZ /\ l \in Nat /\ size = l * PAGE
  BY <1>1, <1>2, BackupIs
<1>5. i \in Nat /\ i > 0 /\ run(i, l) \subseteq MMAP_PAGES /\ run(i, l) \subseteq MMAP_PAGES \ pages
  <2>1. i \in Places(l, MMAP_PAGES \ pages)
    BY <1>2 DEF backup_places
  <2> QED
    BY <2>1, PlacesAre
<1>6. PICK top, g : top = i * PAGE /\ g = pages \cup run(i, l)
  OBVIOUS
<1>7. NewMemory(top, size, brk, g)
  BY <1>4, <1>5, <1>6, FreshPages
<1>8. top \in Nat
  BY <1>5, <1>6, PageSize
<1>9. av' \in Arenas /\ av'.top = top /\ av'.bins = av.bins /\ av'.fastbins = av.fastbins
  <2>1. PICK a, x : a = Topped(top, size) /\ x = FALSE
    OBVIOUS
  <2>2. size \in Int
    BY <1>4
  <2>3. a \in Arenas /\ a.top = top /\ a.bins = av.bins /\ a.fastbins = av.fastbins
    <3>1. SameLists(Topped(top, size), top)
      BY <1>8, <2>2, ArenaTop
    <3> QED
      BY <2>1, <3>1 DEF SameLists
  <2>4. x \in BOOLEAN
    BY <2>1
  <2>5. av \in Arenas
    BY DEF Good, Types
  <2>6. av' = [a EXCEPT !.contiguous = x]
    BY <1>3, <1>6, <2>1, <2>5 DEF set_noncontiguous, Topped, Arenas
  <2> QED
    BY <2>3, <2>4, <2>6 DEF Arenas
<1>10. mp' \in Params /\ mp'.max_fast <= request2size(MAX_FAST_SIZE)
  BY <1>3, <1>6, <1>8, BasedIs
<1>11. TopComes(top, size, brk, g)
  BY <1>3, <1>6, <1>9, <1>10 DEF TopComes
<1> QED
  BY <1>1, <1>7, <1>11, NewTopFine DEF Fine

-----------------------------------------------------------------------------
(* The program's steps                                                     *)

LEMMA NothingIs ==
  /\ Topmost(<< >>) = Nothing /\ Base(<< >>) = Nothing /\ Nothing.at = "nothing" /\ Nothing.p = NULL
  /\ Waiting(<< >>)
<1>1. Topmost(<< >>) = Nothing /\ Base(<< >>) = Nothing /\ Nothing.at = "nothing" /\ Nothing.p = NULL
  BY DEF Topmost, Base, Nothing, Frame
<1> QED
  BY <1>1 DEF Waiting, Waits

LEMMA Idle ==
  ASSUME Good, call = << >>
  PROVE  /\ Legal(<< >>, chunk, mapped, held) /\ OnStack(<< >>) = {} /\ OnCall = {}
         /\ Still = DOMAIN held /\ Base(call) = Nothing /\ NULL \notin DOMAIN held
<1>1. Legal(<< >>, chunk, mapped, held) /\ OnStack(<< >>) = {}
  BY StackEmpty DEF Good
<1>2. DOMAIN held \subseteq Nat \ {NULL}
  BY DEF Good, Types
<1> QED
  BY <1>1, <1>2, NothingIs DEF OnCall, Still

(* What the program and its calls have changes hands.                      *)
LEMMA HandsOver ==
  ASSUME Good, UNCHANGED <<chunk, mapped, tcache, brk, pages, setup>>, Listless, av'.top = av.top,
         av' \in Arenas, mp' \in Params, mp'.max_fast <= request2size(MAX_FAST_SIZE),
         DOMAIN held' \subseteq Nat \ {NULL}, held' \in [DOMAIN held' -> Nat], ret' \in Answers,
         Legal(call', chunk, mapped, held'),
         OnCall' \cup Returned' \cup Still' \subseteq OnCall \cup Returned \cup Still,
         OnCall' \cap Returned' = {}, OnCall' \cap Still' = {}, Returned' \cap Still' = {},
         Roomy(held', Still' \cup Failed', chunk, mapped), RetOK', HeadOK'
  PROVE  Good'
<1>1. Types'
  BY DEF Good, Types, BRK_START, BRK_LIMIT, MMAP_PAGES
<1>2. HeapOK'
  BY DEF Good, HeapOK, Sbrk, BRK_START
<1>3. ListsOK'
  BY DEF Good, ListsOK, Listless
<1>4. InCache' = InCache /\ InFast' = InFast /\ InBins' = InBins /\ Block' = Block
  BY DEF InCache, InFast, InBins, Block, Listless
<1>5. PICK S, R, H : S = OnCall' /\ R = Returned' /\ H = Still'
  OBVIOUS
<1>6. Parted(av.top, InCache, InFast, InBins, OnCall, Returned, Still, Block)
  BY PartsOf
<1>7. S \cup R \cup H \subseteq OnCall \cup Returned \cup Still /\ S \cap R = {} /\ S \cap H = {} /\ R \cap H = {}
  BY <1>5
<1>8. Parted(av.top, InCache, InFast, InBins, S, R, H, Block)
  BY <1>6, <1>7 DEF Parted
<1>9. Parted(av.top, InCache, InFast, InBins, OnCall, Returned, Still, Block)'
  BY <1>4, <1>5, <1>8
<1>10. Linked(Owned, chunk, mapped)'
  <2>1. Owned' \subseteq Owned
    BY <1>4, <1>5, <1>7 DEF Owned
  <2>2. Linked(Owned, chunk, mapped)
    BY PartsOf
  <2>3. PICK O : O = Owned'
    OBVIOUS
  <2>4. Linked(O, chunk, mapped)
    BY <2>1, <2>2, <2>3, LinkedLess
  <2> QED
    BY <2>3, <2>4
<1>11. HeldOK'
  BY DEF HeldOK
<1>12. Legal(call, chunk, mapped, held)'
  OBVIOUS
<1> QED
  BY <1>1, <1>2, <1>3, <1>9, <1>10, <1>11, <1>12 DEF Good, OwnersOK

(* A call of the program that takes the sizes it asks for.                 *)
Asks == {"libc_malloc", "libc_calloc", "libc_memalign", "libc_realloc"}

DeliverFrame(a, p, b) == Frame("deliver", a, p, b)

DeliverOK(d, a, p, b, c, m, h) ==
  /\ d \in Frames /\ d.at = "deliver" /\ d.p = p /\ d.x = b /\ d.nb = a
  /\ FrameOK(d, Nothing, d, c, m, h) /\ Holds(d) = {} /\ Waits(d)

LEMMA DeliverIs ==
  ASSUME NEW a \in Nat, NEW p \in Int, NEW b \in Nat, NEW c, NEW m, NEW h
  PROVE  DeliverOK(DeliverFrame(a, p, b), a, p, b, c, m, h)
<1>1. PICK d : d = DeliverFrame(a, p, b)
  OBVIOUS
<1>2. d.at = "deliver" /\ d.p = p /\ d.x = b /\ d.nb = a
  BY <1>1 DEF DeliverFrame, Frame
<1>3. d \in Frames
  <2>1. "deliver" \in Labels
    BY DEF Labels, Others
  <2> QED
    BY <1>1, <2>1 DEF DeliverFrame, Frame, Frames
<1>4. FrameOK(d, Nothing, d, c, m, h)
  BY <1>2, <1>3, NothingIs DEF FrameOK, Mallocs, Askers, Reallocs, Memaligns, Holders, Frees
<1>5. Holds(d) = {} /\ Waits(d)
  BY <1>2 DEF Holds, Holders, Reallocs, Frees, Waits
<1>6. DeliverOK(d, a, p, b, c, m, h)
  BY <1>2, <1>3, <1>4, <1>5 DEF DeliverOK
<1> QED
  BY <1>1, <1>6

(* The frame of the function that the program calls.                       *)
AskFrame(f, d, p, c, m, h) ==
  /\ FrameOK(f, d, d, c, m, h) /\ f.at \in Asks /\ f.p = p
  /\ Holds(f) = {p} \ {NULL}

LEMMA AskStack ==
  ASSUME NEW c, NEW m, NEW h, NEW d, d \in Frames, d.at = "deliver", FrameOK(d, Nothing, d, c, m, h),
         Holds(d) = {}, Waits(d), NEW f, NEW p, AskFrame(f, d, p, c, m, h), NEW s, s = <<f, d>>
  PROVE  /\ Legal(s, c, m, h) /\ OnStack(s) = {p} \ {NULL} /\ Base(s) = d /\ Topmost(s) = f
<1>1. StackOK(<< >>, d, c, m, h) /\ OnStack(<< >>) = {}
  BY StackEmpty
<1>2. PICK t : t = <<d>> \o << >>
  OBVIOUS
<1>3. StackOK(t, d, c, m, h) /\ OnStack(t) = {}
  <2>1. Topmost(<< >>) = Nothing /\ Holds(d) \cap OnStack(<< >>) = {}
    BY NothingIs
  <2>2. StackOK(<<d>> \o << >>, d, c, m, h) /\ OnStack(<<d>> \o << >>) = Holds(d) \cup OnStack(<< >>)
    BY <1>1, <2>1, StackPush
  <2> QED
    BY <1>1, <1>2, <2>2
<1>4. t = <<d>> /\ t # << >> /\ t[1] = d /\ Topmost(t) = d /\ t \in Seq(Frames)
  BY <1>2 DEF Topmost
<1>5. StackOK(<<f>> \o t, d, c, m, h) /\ OnStack(<<f>> \o t) = Holds(f) \cup OnStack(t)
  BY <1>3, <1>4, StackPush DEF AskFrame
<1>6. s = <<f>> \o t
  BY <1>4
<1>7. f \in Frames
  BY DEF AskFrame, FrameOK
<1>8. Base(s) = d
  <2>1. Base(s) = Base(t)
    BY <1>4, <1>6, <1>7, BasePush
  <2>2. Base(t) = d
    BY <1>4 DEF Base
  <2> QED
    BY <2>1, <2>2
<1>9. Topmost(s) = f
  BY DEF Topmost
<1> QED
  BY <1>3, <1>5, <1>6, <1>8, <1>9 DEF Legal, AskFrame

Asked(function, p, a) ==
  \/ function \in {"libc_malloc", "libc_calloc"} /\ p = NULL /\ a = 0
  \/ function = "libc_memalign" /\ p = NULL /\ a \in 0..MAX_ALIGNMENT
  \/ function = "libc_realloc" /\ p \in DOMAIN held /\ a = 0

LEMMA AskFrameIs ==
  ASSUME Good, call = << >>, NEW function, NEW b \in Nat, NEW p, NEW a, Asked(function, p, a),
         NEW f, f = Frame(function, request2size(b), p, a), NEW d, d = DeliverFrame(a, p, b)
  PROVE  AskFrame(f, d, p, chunk, mapped, held) /\ a \in Nat /\ p \in Nat
<1>1. f.at = function /\ f.nb = request2size(b) /\ f.p = p /\ f.x = a
  BY DEF Frame
<1>2. d.at = "deliver" /\ d.p = p /\ d.x = b
  BY DEF DeliverFrame, Frame
<1>3. p \in Nat /\ a \in Nat /\ (function # "libc_realloc" => p = NULL)
  <2>1. DOMAIN held \subseteq Nat \ {NULL}
    BY DEF Good, Types
  <2>2. MAX_ALIGNMENT \in Nat
    BY Units DEF MAX_ALIGNMENT
  <2> QED
    BY <2>1, <2>2 DEF Asked, NULL
<1>4. Aligned(f.nb) /\ f.nb >= b + SIZE_SZ
  BY <1>1, Request
<1>5. f \in Frames /\ f.at # "nothing" /\ f.at \in Asks /\ f.at \in Givers
  <2>1. function \in Asks
    BY DEF Asked, Asks
  <2>2. function \in Labels /\ function \in Givers /\ function # "nothing"
    BY <2>1 DEF Asks, Labels, Givers, Askers, Reallocs, Memaligns
  <2>3. request2size(b) \in Nat
    BY <1>1, <1>4 DEF Aligned
  <2> QED
    BY <1>1, <1>3, <2>1, <2>2, <2>3 DEF Frame, Frames
<1>6. Need(d, d) = b + SIZE_SZ
  BY <1>2 DEF Need
<1>7. p \in DOMAIN held => p \in DOMAIN chunk \cup DOMAIN mapped /\ room(p, chunk, mapped) >= held[p]
  <2> SUFFICES ASSUME p \in DOMAIN held
               PROVE  p \in DOMAIN chunk \cup DOMAIN mapped /\ room(p, chunk, mapped) >= held[p]
    OBVIOUS
  <2>1. p \in Still /\ p \in Owned
    BY Idle DEF Owned
  <2>2. Linked(Owned, chunk, mapped) /\ Roomy(held, Still \cup Failed, chunk, mapped)
    BY PartsOf DEF Good, HeldOK
  <2> QED
    BY <2>1, <2>2 DEF Linked, Roomy
<1>8. FrameOK(f, d, d, chunk, mapped, held) /\ Holds(f) = {p} \ {NULL}
  <2>1. CASE function \in {"libc_malloc", "libc_calloc"} /\ p = NULL /\ a = 0
    <3>1. FrameOK(f, d, d, chunk, mapped, held)
      BY <1>1, <1>2, <1>4, <1>5, <1>6, <2>1 DEF FrameOK, Mallocs, Askers, Reallocs, Memaligns, Holders, Frees
    <3>2. Holds(f) = {}
      BY <1>1, <2>1 DEF Holds, Holders, Reallocs, Frees
    <3> QED
      BY <2>1, <3>1, <3>2
  <2>2. CASE function = "libc_memalign" /\ p = NULL /\ a \in 0..MAX_ALIGNMENT
    <3>1. FrameOK(f, d, d, chunk, mapped, held)
      BY <1>1, <1>2, <1>4, <1>5, <1>6, <2>2 DEF FrameOK, Mallocs, Askers, Reallocs, Memaligns, Holders, Frees
    <3>2. Holds(f) = {}
      BY <1>1, <2>2 DEF Holds, Holders, Reallocs, Frees
    <3> QED
      BY <2>2, <3>1, <3>2
  <2>3. CASE function = "libc_realloc" /\ p \in DOMAIN held /\ a = 0
    <3>1. FrameOK(f, d, d, chunk, mapped, held)
      BY <1>1, <1>2, <1>4, <1>5, <1>6, <1>7, <2>3 DEF FrameOK, Mallocs, Askers, Reallocs, Memaligns, Holders, Frees
    <3>2. Holds(f) = {p}
      BY <1>1, <2>3 DEF Holds, Holders, Reallocs, Frees
    <3>3. p # NULL
      BY <2>3, Idle
    <3> QED
      BY <3>1, <3>2, <3>3
  <2> QED
    BY <2>1, <2>2, <2>3 DEF Asked
<1> QED
  BY <1>1, <1>3, <1>5, <1>8 DEF AskFrame

LEMMA AskFine ==
  ASSUME Good, NEW function, NEW b \in Nat, NEW p, NEW a, Ask(function, b, p, a), Asked(function, p, a)
  PROVE  Good'
<1>1. PICK f, d : f = Frame(function, request2size(b), p, a) /\ d = DeliverFrame(a, p, b)
  OBVIOUS
<1>2. /\ call = << >> /\ call' = <<f, d>> /\ UNCHANGED <<heap, tcache, ret, rest>>
  BY <1>1 DEF Ask, Calls, DeliverFrame
<1>3. AskFrame(f, d, p, chunk, mapped, held) /\ a \in Nat /\ p \in Nat
  BY <1>1, <1>2, AskFrameIs
<1>4. /\ d \in Frames /\ d.at = "deliver" /\ d.p = p
      /\ FrameOK(d, Nothing, d, chunk, mapped, held) /\ Holds(d) = {} /\ Waits(d)
  <2>1. p \in Int /\ a \in Nat /\ b \in Nat
    BY <1>3
  <2>2. DeliverOK(DeliverFrame(a, p, b), a, p, b, chunk, mapped, held)
    BY <2>1, DeliverIs
  <2> QED
    BY <1>1, <2>2 DEF DeliverOK
<1>5. PICK s : s = call'
  OBVIOUS
<1>6. Legal(s, chunk, mapped, held) /\ OnStack(s) = {p} \ {NULL} /\ Base(s) = d /\ Topmost(s) = f
  BY <1>2, <1>3, <1>4, <1>5, AskStack
<1>7. /\ chunk' = chunk /\ mapped' = mapped /\ tcache' = tcache /\ brk' = brk /\ pages' = pages
      /\ setup' = setup /\ held' = held /\ mp' = mp /\ av' = av /\ ret' = ret
  BY <1>2 DEF heap, rest, system
<1>8. f.at \in Asks /\ Above(f) /\ f.at \notin Needy /\ Waits(f)
  BY <1>3 DEF AskFrame, Asks, Above, Needy, Waits
<1>9. OnCall' = {p} \ {NULL} /\ Still' = DOMAIN held \ {p} /\ Topmost(call') = f /\ call' # << >>
  BY <1>2, <1>4, <1>5, <1>6, <1>7 DEF OnCall, Still
<1>10. Returned' \subseteq Returned /\ Failed' = {}
  BY <1>7, <1>8, <1>9, StillReturned
<1>11. RetOK' /\ HeadOK'
  <2>1. Waiting(call)'
    BY <1>8, <1>9 DEF Waiting
  <2>2. RetOK'
    BY <1>8, <1>9 DEF RetOK
  <2> QED
    BY <2>1, <2>2, HeadFree
<1>12. Still = DOMAIN held /\ OnCall = {} /\ NULL \notin DOMAIN held
  BY <1>2, Idle
<1>13. {p} \ {NULL} \subseteq DOMAIN held
  BY DEF Asked
<1>14. PICK R : R = Returned'
  OBVIOUS
<1>15. R \subseteq Returned /\ Returned \cap Still = {}
  BY <1>10, <1>14, PartsOf DEF Parted
<1>16. /\ ({p} \ {NULL}) \cup R \cup (DOMAIN held \ {p}) \subseteq OnCall \cup Returned \cup Still
       /\ ({p} \ {NULL}) \cap R = {} /\ R \cap (DOMAIN held \ {p}) = {}
       /\ ({p} \ {NULL}) \cap (DOMAIN held \ {p}) = {}
  BY <1>12, <1>13, <1>15
<1>17. /\ OnCall' \cup Returned' \cup Still' \subseteq OnCall \cup Returned \cup Still
       /\ OnCall' \cap Returned' = {} /\ Returned' \cap Still' = {} /\ OnCall' \cap Still' = {}
  BY <1>9, <1>14, <1>16
<1>18. Roomy(held', Still' \cup Failed', chunk, mapped)
  <2>1. Roomy(held, Still \cup Failed, chunk, mapped)
    BY DEF Good, HeldOK
  <2>2. PICK O : O = Still' \cup Failed'
    OBVIOUS
  <2>3. O \subseteq Still
    BY <1>9, <1>10, <1>12, <2>2
  <2>4. Roomy(held, O, chunk, mapped)
    BY <2>1, <2>3 DEF Roomy
  <2> QED
    BY <1>7, <2>2, <2>4
<1>19. /\ av' \in Arenas /\ mp' \in Params /\ mp'.max_fast <= request2size(MAX_FAST_SIZE)
       /\ DOMAIN held' \subseteq Nat \ {NULL} /\ held' \in [DOMAIN held' -> Nat] /\ ret' \in Answers
  BY <1>7 DEF Good, Types
<1>20. Listless /\ av'.top = av.top
  BY <1>7 DEF Listless
<1>21. Legal(call', chunk, mapped, held')
  BY <1>5, <1>6, <1>7
<1>22. UNCHANGED <<chunk, mapped, tcache, brk, pages, setup>>
  BY <1>7
<1> QED
  BY <1>11, <1>17, <1>18, <1>19, <1>20, <1>21, <1>22, HandsOver

LEMMA FreeFine ==
  ASSUME Good, NEW p \in DOMAIN held, Free(p)
  PROVE  Good'
<1>1. PICK f : f = Frame("libc_free", 0, p, 0)
  OBVIOUS
<1>2. /\ call = << >> /\ call' = <<f>> /\ held' = Without(held, {p})
      /\ UNCHANGED <<heap, mapped, mp, tcache, system, ret>>
  BY <1>1 DEF Free, Calls
<1>3. Still = DOMAIN held /\ OnCall = {} /\ NULL \notin DOMAIN held
  BY <1>2, Idle
<1>4. /\ p \in Nat /\ p # NULL /\ p \in DOMAIN chunk \cup DOMAIN mapped
  <2>1. DOMAIN held \subseteq Nat \ {NULL}
    BY DEF Good, Types
  <2>2. p \in Owned /\ Linked(Owned, chunk, mapped)
    BY <1>3, PartsOf DEF Owned
  <2> QED
    BY <2>1, <2>2 DEF Linked
<1>5. /\ "libc_free" \in Frees /\ "libc_free" \in Holders /\ "libc_free" \notin Givers \cup Needy
      /\ "libc_free" \in Labels
  BY DEF Frees, Holders, Givers, Mallocs, Askers, Reallocs, Memaligns, Needy, Labels
<1>6. f \in Frames /\ f.at = "libc_free" /\ f.p = p /\ f.nb = 0 /\ f.x = 0
  BY <1>1, <1>4, <1>5 DEF Frames, Frame
<1>7. PICK h : h = held'
  OBVIOUS
<1>8. FrameOK(f, Topmost(<< >>), Base(<< >>), chunk, mapped, h)
  BY <1>4, <1>5, <1>6, NothingIs DEF FrameOK, Mallocs, Askers, Reallocs, Memaligns, Holders, Frees
<1>9. Legal(<< >>, chunk, mapped, h) /\ OnStack(<< >>) = {}
  BY StackEmpty DEF Legal
<1>10. Apart1(f, << >>) /\ Above(f) /\ Holds(f) = {p} /\ Waits(f)
  BY <1>5, <1>6, <1>9 DEF Apart1, Above, Holds, Waits
<1>11. call' = <<f>> \o << >> /\ Waiting(<< >>)
  BY <1>2, NothingIs
<1>12. Grown(call', << >>, f, Holds(f) \cup OnStack(<< >>), chunk, mapped, h)
  BY <1>8, <1>9, <1>10, <1>11, Push1
<1>13. /\ Legal(call', chunk, mapped, held') /\ Base(call').p = NULL
       /\ OnCall' = {p} /\ call' # << >> /\ Topmost(call') = f
  BY <1>7, <1>9, <1>10, <1>12, NothingIs DEF Grown, OnCall
<1>14. Returned' \subseteq Returned /\ Failed' = {}
  BY <1>2, <1>10, <1>13, StillReturned
<1>15. RetOK' /\ HeadOK'
  BY <1>5, <1>6, <1>10, <1>13, HeadFree DEF RetOK, Waiting
<1>16. /\ chunk' = chunk /\ mapped' = mapped /\ tcache' = tcache /\ brk' = brk /\ pages' = pages
       /\ setup' = setup /\ mp' = mp /\ av' = av /\ ret' = ret
  BY <1>2 DEF heap, system
<1>17. DOMAIN h = DOMAIN held \ {p} /\ \A q \in DOMAIN h : h[q] = held[q]
  BY <1>2, <1>7 DEF Without
<1>18. h \in [DOMAIN h -> Nat] /\ DOMAIN h \subseteq Nat \ {NULL}
  <2>1. DOMAIN held \subseteq Nat \ {NULL} /\ held \in [DOMAIN held -> Nat]
    BY DEF Good, Types
  <2>2. h = [q \in DOMAIN h |-> h[q]]
    BY <1>2, <1>7 DEF Without
  <2> QED
    BY <1>17, <2>1, <2>2
<1>19. Still' = DOMAIN held \ {p}
  BY <1>3, <1>7, <1>13, <1>17 DEF Still
<1>20. PICK R : R = Returned'
  OBVIOUS
<1>21. R \subseteq Returned /\ Returned \cap Still = {}
  BY <1>14, <1>20, PartsOf DEF Parted
<1>22. /\ {p} \cup R \cup (DOMAIN held \ {p}) \subseteq OnCall \cup Returned \cup Still
       /\ {p} \cap R = {} /\ R \cap (DOMAIN held \ {p}) = {} /\ {p} \cap (DOMAIN held \ {p}) = {}
  BY <1>3, <1>21
<1>23. /\ OnCall' \cup Returned' \cup Still' \subseteq OnCall \cup Returned \cup Still
       /\ OnCall' \cap Returned' = {} /\ Returned' \cap Still' = {} /\ OnCall' \cap Still' = {}
  BY <1>13, <1>19, <1>20, <1>22
<1>24. Roomy(held', Still' \cup Failed', chunk, mapped)
  <2>1. Roomy(held, Still \cup Failed, chunk, mapped)
    BY DEF Good, HeldOK
  <2>2. Roomy(h, DOMAIN held \ {p}, chunk, mapped)
    BY <1>3, <1>17, <2>1 DEF Roomy
  <2> QED
    BY <1>7, <1>14, <1>19, <2>2
<1>25. /\ av' \in Arenas /\ mp' \in Params /\ mp'.max_fast <= request2size(MAX_FAST_SIZE)
       /\ DOMAIN held' \subseteq Nat \ {NULL} /\ held' \in [DOMAIN held' -> Nat] /\ ret' \in Answers
  BY <1>7, <1>16, <1>18 DEF Good, Types
<1>26. Listless /\ av'.top = av.top /\ UNCHANGED <<chunk, mapped, tcache, brk, pages, setup>>
  BY <1>16 DEF Listless
<1> QED
  BY <1>13, <1>15, <1>23, <1>24, <1>25, <1>26, HandsOver

(* A call that first consolidates the fastbins.                            *)
LEMMA FirstConsolidates ==
  ASSUME Good, NEW g \in Frames, g.at \in {"mtrim", "mallopt"}, g.nb \in Nat, g.x \in Nat,
         Calls(<<consolidate, g>>), av' = consolidating(av),
         UNCHANGED <<chunk, tcache, ret, rest>>
  PROVE  Good'
<1>1. PICK f : f = consolidate
  OBVIOUS
<1>2. call = << >> /\ call' = <<f, g>> \o << >>
  BY <1>1 DEF Calls
<1>3. /\ "consolidate" \in Labels /\ "consolidate" \notin Givers \cup Holders \cup Needy
      /\ f.at = "consolidate" /\ f.p = NULL /\ f.nb = 0 /\ f.x = 0
  BY <1>1 DEF Labels, Others, Givers, Holders, Mallocs, Askers, Reallocs, Memaligns, Frees, Needy,
              consolidate, Frame
<1>4. f \in Frames
  <2>1. 0 \in Int /\ 0 \in Nat
    OBVIOUS
  <2> QED
    BY <1>1, <1>3, <2>1 DEF Frames, Frame, consolidate, NULL
<1>5. /\ FrameOK(f, g, Base(<< >>), chunk, mapped, held)
      /\ FrameOK(g, Topmost(<< >>), Base(<< >>), chunk, mapped, held)
  <2>1. FrameOK(f, g, Base(<< >>), chunk, mapped, held)
    BY <1>3, <1>4, NothingIs DEF FrameOK, Mallocs, Askers, Reallocs, Memaligns, Holders, Frees
  <2>2. FrameOK(g, Topmost(<< >>), Base(<< >>), chunk, mapped, held)
    BY NothingIs DEF FrameOK, Mallocs, Askers, Reallocs, Memaligns, Holders, Frees
  <2> QED
    BY <2>1, <2>2
<1>6. Waits(g) /\ Above(f) /\ Above(g) /\ Waits(f) /\ Holds(f) = {} /\ Holds(g) = {}
  BY <1>3 DEF Waits, Above, Holds, Holders, Reallocs, Frees
<1>7. Legal(<< >>, chunk, mapped, held) /\ OnStack(<< >>) = {} /\ OnCall = {}
  BY <1>2, Idle
<1>8. Waiting(<< >>) /\ Apart2(f, g, << >>)
  BY <1>6, <1>7, NothingIs DEF Apart2, Apart1
<1>9. Grown(call', << >>, f, Holds(f) \cup Holds(g) \cup OnStack(<< >>), chunk, mapped, held)
  BY <1>2, <1>5, <1>6, <1>7, <1>8, Push2
<1>10. /\ Legal(call', chunk, mapped, held) /\ Base(call').p = Base(call).p
       /\ OnCall' = {} /\ call' # << >> /\ Topmost(call') = f
  BY <1>2, <1>6, <1>7, <1>9 DEF Grown, OnCall
<1>11. Returned' \subseteq Returned /\ Failed' = {}
  <2>1. ret' = ret
    OBVIOUS
  <2> QED
    BY <1>6, <1>10, <2>1, StillReturned
<1>12. RetOK' /\ HeadOK'
  BY <1>3, <1>6, <1>10, HeadFree DEF RetOK, Waiting
<1>13. /\ chunk' = chunk /\ mapped' = mapped /\ brk' = brk /\ pages' = pages /\ setup' = setup
       /\ held' = held /\ mp' = mp /\ tcache' = tcache /\ ret' = ret
  BY DEF rest, system
<1>14. Listless /\ av'.top = av.top /\ av' \in Arenas
  <2>1. FALSE \in BOOLEAN /\ av \in Arenas
    BY DEF Good, Types
  <2> QED
    BY <1>13, <2>1 DEF Listless, consolidating, Arenas
<1>15. Roomy(held, Failed', chunk, mapped)
  BY <1>11 DEF Roomy
<1>16. OnCall' \cup Returned' \subseteq OnCall \cup Returned /\ OnCall' \cap Returned' = {}
  BY <1>10, <1>11
<1>17. mp' \in Params /\ mp'.max_fast <= request2size(MAX_FAST_SIZE) /\ tcache' \in Caches /\ ret' \in Answers
  BY <1>13 DEF Good, Types
<1> QED
  BY <1>10, <1>12, <1>13, <1>14, <1>15, <1>16, <1>17, Control

-----------------------------------------------------------------------------
(* The trim of the top, the options and the foreign sbrk                   *)

LEMMA TrimToFine ==
  ASSUME Good, NEW pad \in Nat, TrimTo(pad)
  PROVE  Good'
<1>1. PICK g : g = Frame("mtrim", pad, NULL, 0)
  OBVIOUS
<1>2. "mtrim" \in Labels
  BY DEF Labels, Others
<1>3. g \in Frames /\ g.at = "mtrim" /\ g.nb = pad /\ g.x = 0
  <2>1. 0 \in Int
    OBVIOUS
  <2> QED
    BY <1>1, <1>2, <2>1 DEF Frames, Frame, NULL
<1>4. Calls(<<consolidate, g>>) /\ av' = consolidating(av) /\ UNCHANGED <<chunk, tcache, ret, rest>>
  BY <1>1 DEF TrimTo
<1>5. g.at \in {"mtrim", "mallopt"} /\ g.nb \in Nat /\ g.x \in Nat
  BY <1>3
<1> QED
  BY <1>3, <1>4, <1>5, FirstConsolidates

LEMMA SetOptionFine ==
  ASSUME Good, NEW param \in Int, NEW value \in Nat, SetOption(param, value)
  PROVE  Good'
<1>1. PICK g : g = Frame("mallopt", 0, param, value)
  OBVIOUS
<1>2. "mallopt" \in Labels
  BY DEF Labels, Others
<1>3. g \in Frames /\ g.at = "mallopt" /\ g.nb = 0 /\ g.x = value
  <2>1. 0 \in Nat /\ value \in Int
    OBVIOUS
  <2> QED
    BY <1>1, <1>2, <2>1 DEF Frames, Frame
<1>4. Calls(<<consolidate, g>>) /\ av' = consolidating(av) /\ UNCHANGED <<chunk, tcache, ret, rest>>
  BY <1>1 DEF SetOption
<1>5. g.at \in {"mtrim", "mallopt"} /\ g.nb \in Nat /\ g.x \in Nat
  BY <1>3
<1> QED
  BY <1>3, <1>4, <1>5, FirstConsolidates

LEMMA ForeignSbrkFine ==
  ASSUME Good, NEW n \in Nat, ForeignSbrk(n)
  PROVE  Good'
<1>1. brk' = brk + n /\ sbrk_gives(n)
      /\ UNCHANGED <<heap, mapped, mp, tcache, pages, setup, call, ret, held>>
  BY DEF ForeignSbrk
<1>2. brk \in Int /\ brk' >= brk /\ brk' \in BRK_START..BRK_LIMIT
  BY <1>1, BreakIs DEF sbrk_gives
<1>3. Types'
  BY <1>1, <1>2 DEF Good, Types, BRK_START, BRK_LIMIT, MMAP_PAGES, heap
<1>4. Sbrk \subseteq Sbrk'
  <2>1. setup.brk_start \in Nat
    BY SetupsAssumption DEF Good, Types
  <2> QED
    BY <1>1, <1>2, <2>1 DEF Sbrk, BRK_START
<1>5. PICK r : r = Sbrk'
  OBVIOUS
<1>6. Given(chunk, mapped, r, pages)
  BY <1>4, <1>5 DEF Good, HeapOK, Given, Arena
<1>7. HeapOK'
  BY <1>1, <1>5, <1>6 DEF Good, HeapOK, heap
<1>8. ListsOK'
  BY <1>1 DEF Good, ListsOK, heap
<1>9. Legal(call, chunk, mapped, held)'
  BY <1>1 DEF Good, heap
<1>10. OwnersOK'
  BY <1>1 DEF Good, OwnersOK, Owned, InCache, InFast, InBins, OnCall, Returned, Still, Block, heap
<1>11. HeldOK'
  BY <1>1 DEF Good, HeldOK, Still, Failed, Returned, heap
<1>12. RetOK'
  BY <1>1 DEF Good, RetOK, heap
<1>13. HeadOK'
  <2>1. HeadOK /\ call' = call /\ tcache' = tcache /\ chunk' = chunk /\ av' = av /\ op' = op
    BY <1>1 DEF Good, op, heap
  <2>2. top_size' = top_size /\ tcache_cached(op.nb)' = tcache_cached(op.nb)
    BY <2>1 DEF top_size, tcache_cached, tcache_fits
  <2> QED
    BY <2>1, <2>2 DEF HeadOK, At
<1> QED
  BY <1>3, <1>7, <1>8, <1>9, <1>10, <1>11, <1>12, <1>13 DEF Good

LEMMA DeliverFine ==
  ASSUME Good, Deliver
  PROVE  Good'
<1>1. /\ call # << >> /\ op.at = "deliver" /\ UNCHANGED <<heap, mapped, mp, tcache, system>>
      /\ call' = Tail(call) /\ ret' = NoReturn
      /\ held' = IF ret.p = NULL THEN held ELSE With(Without(held, {op.p}), ret.p, op.x)
  BY DEF Deliver, At, op, Return
<1>2. PICK f, t : f = Head(call) /\ t = Tail(call)
  OBVIOUS
<1>3. f.at = "deliver" /\ f = op /\ ~Above(f)
  BY <1>1, <1>2 DEF op, Above
<1>4. Legal(call, chunk, mapped, held)
  BY DEF Good
<1>5. /\ f \in Frames /\ Topmost(call) = f /\ OnStack(call) = Holds(f) \cup OnStack(t)
      /\ t = << >> /\ Base(call) = f /\ FrameOK(f, Topmost(t), Base(call), chunk, mapped, held)
  BY <1>1, <1>2, <1>3, <1>4, Pops
<1>6. call' = << >> /\ OnCall' = {} /\ Topmost(call') = Nothing /\ Base(call') = Nothing
  BY <1>1, <1>2, <1>5, StackEmpty, NothingIs DEF OnCall
<1>7. Legal(call', chunk, mapped, held')
  BY <1>6, StackEmpty DEF Legal
<1>8. Returned' = {} /\ ret' \in Answers /\ ret'.p = NULL
  BY <1>1, <1>6, NothingIs, NoReturnIs DEF Returned, Handed
<1>9. RetOK' /\ HeadOK'
  <2>1. Waiting(call)'
    BY <1>6, NothingIs
  <2> QED
    BY <1>8, <2>1, HeadFree DEF RetOK
<1>10. f.x \in Nat /\ Holds(f) = {} /\ OnCall = {} /\ f.at \in Needy
  <2>1. f.x \in Nat /\ Holds(f) = {} /\ f.at \in Needy
    BY <1>3, <1>5 DEF FrameOK, Holds, Holders, Reallocs, Frees, Needy
  <2> QED
    BY <1>5, <2>1, StackEmpty DEF OnCall
<1>11. Still = DOMAIN held \ {f.p}
  BY <1>5 DEF Still
<1>12. Returned = IF ret.p # NULL THEN {ret.p} ELSE {f.p} \ {NULL}
  BY <1>3, <1>5 DEF Returned, Handed
<1>13. /\ chunk' = chunk /\ mapped' = mapped /\ tcache' = tcache /\ brk' = brk /\ pages' = pages
       /\ setup' = setup /\ mp' = mp /\ av' = av
  BY <1>1 DEF heap, system
<1>14. DOMAIN held \subseteq Nat \ {NULL} /\ held \in [DOMAIN held -> Nat]
  BY DEF Good, Types
<1>15. Still' = DOMAIN held'
  <2>1. Base(call').p = NULL
    BY <1>6, NothingIs
  <2>2. NULL \notin DOMAIN held'
    BY <1>1, <1>14 DEF With, Without
  <2> QED
    BY <2>1, <2>2 DEF Still
<1>16. Failed' = {}
  BY <1>8 DEF Failed
<1>17. Listless /\ av'.top = av.top /\ UNCHANGED <<chunk, mapped, tcache, brk, pages, setup>>
  BY <1>13 DEF Listless
<1>18. av' \in Arenas /\ mp' \in Params /\ mp'.max_fast <= request2size(MAX_FAST_SIZE)
  BY <1>13 DEF Good, Types
<1>19. Roomy(held, Still \cup Failed, chunk, mapped)
  BY DEF Good, HeldOK
<1>20. PICK h : h = held'
  OBVIOUS
<1>21. CASE ret.p = NULL
  <2>1. h = held
    BY <1>1, <1>20, <1>21
  <2>2. DOMAIN held \subseteq Still \cup Failed /\ Failed = Returned
    BY <1>11, <1>12, <1>14, <1>21 DEF Failed
  <2>3. Roomy(held, DOMAIN held, chunk, mapped)
    BY <1>19, <2>2 DEF Roomy
  <2>4. Roomy(held', Still' \cup Failed', chunk, mapped)
    BY <1>15, <1>16, <1>20, <2>1, <2>3
  <2>5. /\ OnCall' \cup Returned' \cup Still' \subseteq OnCall \cup Returned \cup Still
        /\ OnCall' \cap Returned' = {} /\ OnCall' \cap Still' = {} /\ Returned' \cap Still' = {}
    <3>1. Still' \subseteq Returned \cup Still
      BY <1>15, <1>20, <2>1, <2>2
    <3> QED
      BY <1>6, <1>8, <3>1
  <2>6. DOMAIN held' \subseteq Nat \ {NULL} /\ held' \in [DOMAIN held' -> Nat]
    BY <1>14, <1>20, <2>1
  <2> QED
    BY <1>7, <1>8, <1>9, <1>17, <1>18, <2>4, <2>5, <2>6, HandsOver
<1>22. CASE ret.p # NULL
  <2>1. ret.p \in Nat
    BY RetIs DEF Answers
  <2>2. PICK q : q = ret.p
    OBVIOUS
  <2>3. h = With(Without(held, {f.p}), q, f.x)
    BY <1>1, <1>3, <1>20, <1>22, <2>2
  <2>4. /\ DOMAIN h = (DOMAIN held \ {f.p}) \cup {q} /\ h[q] = f.x
        /\ \A r \in DOMAIN h : r # q => r \in DOMAIN held \ {f.p} /\ h[r] = held[r]
    BY <2>3 DEF With, Without
  <2>5. h \in [DOMAIN h -> Nat] /\ DOMAIN h \subseteq Nat \ {NULL}
    <3>1. h = [r \in DOMAIN h |-> h[r]]
      BY <2>3 DEF With, Without
    <3>2. \A r \in DOMAIN h : h[r] \in Nat
      BY <1>10, <1>14, <2>4
    <3>3. DOMAIN h \subseteq Nat \ {NULL}
      BY <1>14, <1>22, <2>1, <2>2, <2>4
    <3> QED
      BY <3>1, <3>2, <3>3
  <2>6. room(q, chunk, mapped) >= f.x
    <3>1. room(q, chunk, mapped) + SIZE_SZ >= Need(f, f)
      BY <1>5, <1>10, <1>22, <2>2 DEF Good, RetOK
    <3>2. Need(f, f) = f.x + SIZE_SZ
      BY <1>3 DEF Need
    <3>3. room(q, chunk, mapped) \in Int
      <4>1. q \in Owned
        BY <1>12, <1>22, <2>2 DEF Owned
      <4>2. Linked(Owned, chunk, mapped) /\ Laid(chunk) /\ Mapped(mapped, pages)
        BY PartsOf DEF Good, HeapOK
      <4>3. q \in DOMAIN mapped \/ q \in DOMAIN chunk
        BY <4>1, <4>2 DEF Linked
      <4>4. q \in DOMAIN mapped => mapped[q].size \in Nat
        BY <4>2 DEF Mapped
      <4>5. q \in DOMAIN chunk => chunk[q].size \in Nat
        BY <4>2 DEF Laid, Headers
      <4> QED
        BY <4>3, <4>4, <4>5, Units DEF room
    <3>4. PICK a, b : a = room(q, chunk, mapped) /\ b = f.x
      OBVIOUS
    <3>5. a \in Int /\ b \in Nat /\ a + SIZE_SZ >= b + SIZE_SZ /\ SIZE_SZ \in Nat
      BY <1>10, <3>1, <3>2, <3>3, <3>4, Units
    <3> QED
      BY <3>4, <3>5
  <2>7. Roomy(held', Still' \cup Failed', chunk, mapped)
    <3>1. \A r \in DOMAIN h : r # q => room(r, chunk, mapped) >= h[r]
      BY <1>11, <1>19, <2>4 DEF Roomy
    <3>2. Roomy(h, DOMAIN h, chunk, mapped)
      BY <2>4, <2>6, <3>1 DEF Roomy
    <3> QED
      BY <1>15, <1>16, <1>20, <3>2
  <2>8. /\ OnCall' \cup Returned' \cup Still' \subseteq OnCall \cup Returned \cup Still
        /\ OnCall' \cap Returned' = {} /\ OnCall' \cap Still' = {} /\ Returned' \cap Still' = {}
    <3>1. Still' \subseteq Returned \cup Still
      BY <1>11, <1>12, <1>15, <1>20, <1>22, <2>2, <2>4
    <3> QED
      BY <1>6, <1>8, <3>1
  <2>9. DOMAIN held' \subseteq Nat \ {NULL} /\ held' \in [DOMAIN held' -> Nat]
    BY <1>20, <2>5
  <2> QED
    BY <1>7, <1>8, <1>9, <1>17, <1>18, <2>7, <2>8, <2>9, HandsOver
<1> QED
  BY <1>21, <1>22

-----------------------------------------------------------------------------
(* The lists of the thread cache keep their bound                          *)

LEMMA SameCounts ==
  ASSUME CountsOK, setup' = setup, tcache'.entries = tcache.entries
  PROVE  CountsOK'
BY DEF CountsOK, TCACHE_COUNT

LEMMA CountsEntries ==
  ASSUME tcache \in Caches
  PROVE  /\ DOMAIN tcache.entries = 0..TCACHE_BINS - 1
         /\ \A i \in DOMAIN tcache.entries : tcache.entries[i] \in Seq(Nat)
BY DEF Caches

(* The bound, for lists that a setup s begins with.                        *)
Bounded(e, s) == \A i \in DOMAIN e : Len(e[i]) <= s.tcache_count

LEMMA CountsBounded ==
  ASSUME setup' = setup
  PROVE  /\ CountsOK => setup \in SETUPS /\ Bounded(tcache.entries, setup)
         /\ setup \in SETUPS /\ Bounded(tcache'.entries, setup) => CountsOK'
BY DEF CountsOK, Bounded, TCACHE_COUNT

LEMMA PutsCounts ==
  ASSUME CountsOK, tcache \in Caches, setup' = setup, NEW nb, NEW ps \in Seq(Nat),
         Len(ps) <= tcache_room(nb), tcache' = tcache_puts(nb, ps)
  PROVE  CountsOK'
<1>1. PICK i, e, k : i = csize2tidx(nb) /\ e = tcache.entries /\ k = tcache'.entries
  OBVIOUS
<1>2. \A j \in DOMAIN e : e[j] \in Seq(Nat)
  BY <1>1, CountsEntries
<1>3. DOMAIN k = DOMAIN e /\ \A j \in DOMAIN e : k[j] = IF j = i THEN ps \o e[j] ELSE e[j]
  BY <1>1 DEF tcache_puts, Caches
<1>4. setup \in SETUPS /\ Bounded(e, setup) /\ setup.tcache_count \in Nat
  BY <1>1, CountsBounded, SetupsAssumption
<1>5. ASSUME i \in DOMAIN e PROVE Len(ps \o e[i]) <= setup.tcache_count
  <2>1. e[i] \in Seq(Nat) /\ Len(e[i]) <= setup.tcache_count
    BY <1>2, <1>4, <1>5 DEF Bounded
  <2>2. PICK a, b, c : a = Len(ps) /\ b = Len(e[i]) /\ c = setup.tcache_count
    OBVIOUS
  <2>3. Len(ps \o e[i]) = a + b /\ a \in Nat /\ b \in Nat /\ c \in Nat /\ b <= c
    BY <1>4, <2>1, <2>2
  <2>4. CASE tcache_fits(nb)
    <3>1. tcache_room(nb) = c - b
      BY <1>1, <2>2, <2>4 DEF tcache_room, TCACHE_COUNT
    <3> QED
      BY <2>2, <2>3, <3>1
  <2>5. CASE ~tcache_fits(nb)
    <3>1. tcache_room(nb) = 0
      BY <2>5 DEF tcache_room
    <3> QED
      BY <2>2, <2>3, <3>1
  <2> QED
    BY <2>4, <2>5
<1>6. Bounded(k, setup)
  BY <1>3, <1>4, <1>5 DEF Bounded
<1> QED
  BY <1>1, <1>4, <1>6, CountsBounded

LEMMA TakesCounts ==
  ASSUME CountsOK, tcache \in Caches, setup' = setup, NEW i, tcache.entries[i] # << >>,
         tcache' = [tcache EXCEPT !.entries[i] = Tail(@)]
  PROVE  CountsOK'
<1>1. PICK e, k : e = tcache.entries /\ k = tcache'.entries
  OBVIOUS
<1>2. \A j \in DOMAIN e : e[j] \in Seq(Nat)
  BY <1>1, CountsEntries
<1>3. DOMAIN k = DOMAIN e /\ \A j \in DOMAIN e : k[j] = IF j = i THEN Tail(e[j]) ELSE e[j]
  BY <1>1 DEF Caches
<1>4. setup \in SETUPS /\ Bounded(e, setup) /\ setup.tcache_count \in Nat
  BY <1>1, CountsBounded, SetupsAssumption
<1>5. ASSUME i \in DOMAIN e PROVE Len(Tail(e[i])) <= setup.tcache_count
  <2>1. e[i] \in Seq(Nat) /\ Len(e[i]) <= setup.tcache_count /\ e[i] # << >>
    BY <1>1, <1>2, <1>4, <1>5 DEF Bounded
  <2>2. Len(Tail(e[i])) = Len(e[i]) - 1 /\ Len(e[i]) \in Nat
    BY <2>1
  <2> QED
    BY <1>4, <2>1, <2>2
<1>6. Bounded(k, setup)
  BY <1>3, <1>4, <1>5 DEF Bounded
<1> QED
  BY <1>1, <1>4, <1>6, CountsBounded

LEMMA StashRoom ==
  ASSUME Good, CountsOK, NEW nb, Aligned(nb), NEW k \in Nat
  PROVE  stash(nb, k) <= tcache_room(nb)
<1>1. tcache_room(nb) \in Int
  <2>1. CASE tcache_fits(nb)
    <3>1. PICK i, e : i = csize2tidx(nb) /\ e = tcache.entries[i]
      OBVIOUS
    <3>2. e \in Seq(Nat)
      BY <2>1, <3>1, CacheList DEF List
    <3>3. TCACHE_COUNT \in Nat
      BY SetupsAssumption DEF CountsOK, TCACHE_COUNT
    <3>4. tcache_room(nb) = TCACHE_COUNT - Len(e)
      BY <2>1, <3>1 DEF tcache_room
    <3> QED
      BY <3>2, <3>3, <3>4
  <2>2. CASE ~tcache_fits(nb)
    BY <2>2 DEF tcache_room
  <2> QED
    BY <2>1, <2>2
<1> QED
  BY <1>1 DEF stash

LEMMA SetupKept ==
  ASSUME UNCHANGED rest
  PROVE  setup' = setup
BY DEF rest, system

LEMMA IntMallocFastCounts ==
  ASSUME Good, CountsOK, IntMallocFast
  PROVE  CountsOK'
<1>1. At("int_malloc") /\ op.nb <= mp.max_fast /\ setup' = setup /\ "int_malloc" \in Mallocs
  BY SetupKept DEF IntMallocFast, Mallocs
<1>2. op.nb \in Nat /\ Aligned(op.nb)
  BY <1>1, MallocOp
<1>3. PICK s, n : s = av.fastbins[fastbin_index(op.nb)] /\ n = stash(op.nb, Len(s) - 1)
  OBVIOUS
<1>4. PICK ps : ps = Reverse(SubSeq(s, 2, n + 1))
  OBVIOUS
<1>5. CASE tcache' = tcache
  BY <1>1, <1>5, SameCounts
<1>6. CASE s # << >> /\ n # 0 /\ tcache' = tcache_puts(op.nb, ps)
  <2>1. List(s)
    BY <1>1, <1>2, <1>3, FastList
  <2>2. s \in Seq(Nat) /\ Inj(s) /\ Len(s) - 1 \in Nat
    BY <1>6, <2>1 DEF List
  <2>3. n \in Nat /\ n <= Len(s) - 1 /\ n <= tcache_room(op.nb)
    BY <1>2, <1>3, <2>2, StashIs, StashRoom
  <2>4. 2 \in 1..Len(s) + 1 /\ n + 1 \in 0..Len(s) /\ 2 <= (n + 1) + 1
    BY <1>6, <2>2, <2>3
  <2>5. PICK r : r = SubSeq(s, 2, n + 1)
    OBVIOUS
  <2>6. r \in Seq(Nat) /\ Inj(r) /\ Len(r) = (n + 1) + 1 - 2
    BY <2>2, <2>4, <2>5, Stretch
  <2>7. ps \in Seq(Nat) /\ Len(ps) = Len(r)
    BY <1>4, <2>5, <2>6, Reversed
  <2>8. Len(ps) <= tcache_room(op.nb)
    BY <2>3, <2>6, <2>7
  <2>9. tcache \in Caches
    BY DEF Good, Types
  <2> QED
    BY <1>1, <1>6, <2>7, <2>8, <2>9, PutsCounts
<1> QED
  BY <1>3, <1>4, <1>5, <1>6 DEF IntMallocFast

LEMMA IntMallocSmallCounts ==
  ASSUME Good, CountsOK, IntMallocSmall
  PROVE  CountsOK'
<1>1. At("int_malloc") /\ in_smallbin_range(op.nb) /\ setup' = setup /\ "int_malloc" \in Mallocs
  BY SetupKept DEF IntMallocSmall, Mallocs
<1>2. op.nb \in Nat /\ Aligned(op.nb)
  BY <1>1, MallocOp
<1>3. PICK s, n : s = av.bins[smallbin_index(op.nb)] /\ n = stash(op.nb, Len(s) - 1)
  OBVIOUS
<1>4. PICK t, ps : t = SubSeq(s, Len(s) - n, Len(s)) /\ ps = Front(t)
  OBVIOUS
<1>5. s # << >> /\ tcache' = (IF n = 0 THEN tcache ELSE tcache_puts(op.nb, ps))
  BY <1>3, <1>4 DEF IntMallocSmall
<1>6. CASE n = 0
  BY <1>1, <1>5, <1>6, SameCounts
<1>7. CASE n # 0
  <2>1. List(s)
    BY <1>1, <1>2, <1>3, SmallBin
  <2>2. s \in Seq(Nat) /\ Inj(s) /\ Len(s) - 1 \in Nat
    BY <1>5, <2>1 DEF List
  <2>3. n \in Nat /\ n <= Len(s) - 1 /\ n <= tcache_room(op.nb)
    BY <1>2, <1>3, <2>2, StashIs, StashRoom
  <2>4. PICK a, l : a = Len(s) - n /\ l = Len(s)
    OBVIOUS
  <2>5. a \in 1..Len(s) + 1 /\ l \in 0..Len(s) /\ a <= l + 1 /\ l + 1 - a = n + 1
    BY <2>2, <2>3, <2>4
  <2>6. t \in Seq(Nat) /\ Inj(t) /\ Len(t) = l + 1 - a
    <3>1. t = SubSeq(s, a, l)
      BY <1>4, <2>4
    <3> QED
      BY <2>2, <2>5, <3>1, Stretch
  <2>7. ps \in Seq(Nat) /\ Len(ps) = n
    <3>1. 1 \in 1..Len(t) + 1 /\ n \in 0..Len(t) /\ 1 <= n + 1 /\ Len(t) - 1 = n
      BY <2>3, <2>5, <2>6
    <3>2. ps = SubSeq(t, 1, n)
      BY <1>4, <3>1 DEF Front
    <3>3. ps \in Seq(Nat) /\ Len(ps) = n + 1 - 1
      BY <2>6, <3>1, <3>2, Stretch
    <3> QED
      BY <2>3, <3>3
  <2>8. Len(ps) <= tcache_room(op.nb) /\ tcache \in Caches
    BY <2>3, <2>7 DEF Good, Types
  <2> QED
    BY <1>1, <1>5, <1>7, <2>7, <2>8, PutsCounts
<1> QED
  BY <1>6, <1>7

LEMMA TakesCached ==
  ASSUME Good, CountsOK, setup' = setup, NEW nb, tcache_cached(nb) # << >>, tcache' = tcache_get(nb)
  PROVE  CountsOK'
<1>1. PICK i : i = csize2tidx(nb)
  OBVIOUS
<1>2. tcache.entries[i] # << >> /\ tcache' = [tcache EXCEPT !.entries[i] = Tail(@)]
  BY <1>1 DEF tcache_cached, tcache_get
<1>3. tcache \in Caches
  BY DEF Good, Types
<1> QED
  BY <1>2, <1>3, TakesCounts

LEMMA UnsortedDoneCounts ==
  ASSUME Good, CountsOK, UnsortedDone
  PROVE  CountsOK'
<1>1. setup' = setup
  BY SetupKept DEF UnsortedDone
<1>2. CASE op.x = 1
  <2>1. tcache_cached(op.nb) # << >> /\ tcache' = tcache_get(op.nb)
    BY <1>2 DEF UnsortedDone, Good, HeadOK
  <2> QED
    BY <1>1, <2>1, TakesCached
<1>3. CASE op.x # 1
  BY <1>1, <1>3, SameCounts DEF UnsortedDone
<1> QED
  BY <1>2, <1>3

LEMMA MallocCachedCounts ==
  ASSUME Good, CountsOK, MallocCached
  PROVE  CountsOK'
<1>1. setup' = setup
  BY SetupKept DEF MallocCached
<1>2. CASE tcache_cached(op.nb) # << >>
  <2>1. tcache' = tcache_get(op.nb)
    BY <1>2 DEF MallocCached
  <2> QED
    BY <1>1, <1>2, <2>1, TakesCached
<1>3. CASE tcache_cached(op.nb) = << >>
  BY <1>1, <1>3, SameCounts DEF MallocCached
<1> QED
  BY <1>2, <1>3

LEMMA FreeCachedCounts ==
  ASSUME Good, CountsOK, FreeCached
  PROVE  CountsOK'
<1>1. setup' = setup
  BY SetupKept DEF FreeCached
<1>2. CASE cached_lists = {}
  BY <1>1, <1>2, SameCounts DEF FreeCached
<1>3. CASE cached_lists # {}
  <2>1. PICK i : i = CHOOSE j \in cached_lists : \A k \in cached_lists : j <= k
    OBVIOUS
  <2>2. tcache.entries[i] # << >>
    <3>1. DOMAIN tcache.entries = 0..TCACHE_BINS - 1
      BY DEF Good, Types, Caches
    <3>2. cached_lists \in SUBSET Nat
      BY <3>1, PageAssumption DEF cached_lists
    <3>3. PICK S : S = cached_lists
      OBVIOUS
    <3>4. S \in SUBSET Nat /\ S # {}
      BY <1>3, <3>2, <3>3
    <3>5. \E j \in S : \A k \in S : j <= k
      BY <3>4, LeastElement
    <3>6. i \in cached_lists
      BY <2>1, <3>3, <3>5
    <3> QED
      BY <3>6 DEF cached_lists
  <2>3. tcache' = [tcache EXCEPT !.entries[i] = Tail(@)]
    BY <1>3, <2>1 DEF FreeCached
  <2>4. tcache \in Caches
    BY DEF Good, Types
  <2> QED
    BY <1>1, <2>2, <2>3, <2>4, TakesCounts
<1> QED
  BY <1>2, <1>3

LEMMA PutsOne ==
  ASSUME Good, CountsOK, setup' = setup, NEW nb, tcache_room(nb) > 0, tcache_room(nb) \in Int, NEW p \in Nat,
         tcache' = tcache_puts(nb, <<p>>)
  PROVE  CountsOK'
<1>1. <<p>> \in Seq(Nat) /\ Len(<<p>>) = 1 /\ Len(<<p>>) <= tcache_room(nb)
  OBVIOUS
<1>2. tcache \in Caches
  BY DEF Good, Types
<1> QED
  BY <1>1, <1>2, PutsCounts

LEMMA RoomIs ==
  ASSUME Good, CountsOK, NEW nb, Aligned(nb)
  PROVE  tcache_room(nb) \in Int
<1>1. CASE tcache_fits(nb)
  <2>1. PICK i, e : i = csize2tidx(nb) /\ e = tcache.entries[i]
    OBVIOUS
  <2>2. e \in Seq(Nat)
    BY <1>1, <2>1, CacheList DEF List
  <2>3. TCACHE_COUNT \in Nat
    BY SetupsAssumption DEF CountsOK, TCACHE_COUNT
  <2>4. tcache_room(nb) = TCACHE_COUNT - Len(e)
    BY <1>1, <2>1 DEF tcache_room
  <2> QED
    BY <2>2, <2>3, <2>4
<1>2. CASE ~tcache_fits(nb)
  BY <1>2 DEF tcache_room
<1> QED
  BY <1>1, <1>2

LEMMA TakeExactCounts ==
  ASSUME Good, CountsOK, TakeExact
  PROVE  CountsOK'
<1>1. At("unsorted") /\ setup' = setup /\ av.bins[Unsorted] # << >> /\ "unsorted" \in Mallocs
  BY SetupKept DEF TakeExact, AtUnsorted, Mallocs
<1>2. CASE tcache_room(op.nb) > 0
  <2>1. tcache' = tcache_puts(op.nb, <<oldest>>)
    BY <1>2 DEF TakeExact
  <2>2. Aligned(op.nb)
    BY <1>1, MallocOp
  <2>3. oldest \in InBins
    BY <1>1, OldestLeaves
  <2>4. oldest \in Nat
    BY <2>3, Listed
  <2> QED
    BY <1>1, <1>2, <2>1, <2>2, <2>4, RoomIs, PutsOne
<1>3. CASE ~(tcache_room(op.nb) > 0)
  BY <1>1, <1>3, SameCounts DEF TakeExact
<1> QED
  BY <1>2, <1>3

LEMMA FreeToCacheCounts ==
  ASSUME Good, CountsOK, FreeToCache
  PROVE  CountsOK'
<1>1. At("int_free") /\ setup' = setup /\ frees_to_cache(op.p)
  BY SetupKept DEF FreeToCache
<1>2. CASE free_ok(op.p)
  <2>1. PICK nb : nb = chunk[op.p].size
    OBVIOUS
  <2>2. tcache' = tcache_puts(nb, <<op.p>>) /\ tcache_room(nb) > 0
    BY <1>1, <1>2, <2>1 DEF FreeToCache, frees_to_cache
  <2>3. op.p \in DOMAIN chunk /\ op.p \in Nat /\ nb \in Nat
    <3>1. FrameOK(op, Topmost(Tail(call)), Base(Tail(call)), chunk, mapped, held) /\ op.at = "int_free"
      BY <1>1, Running
    <3>2. op.p \in DOMAIN chunk
      BY <3>1 DEF FrameOK
    <3> QED
      BY <2>1, <3>2 DEF Good, HeapOK, Laid, Headers
  <2>4. Aligned(nb)
    BY <1>2, <2>1, <2>3 DEF free_ok, Aligned
  <2> QED
    BY <1>1, <2>2, <2>3, <2>4, RoomIs, PutsOne
<1>3. CASE ~free_ok(op.p)
  BY <1>1, <1>3, SameCounts DEF FreeToCache
<1> QED
  BY <1>2, <1>3

LEMMA TcacheInitCounts ==
  ASSUME Good, CountsOK, TcacheInit
  PROVE  CountsOK'
<1>1. setup' = setup
  BY SetupKept DEF TcacheInit
<1>2. tcache'.entries = tcache.entries
  BY DEF TcacheInit, Good, Types, Caches
<1> QED
  BY <1>1, <1>2, SameCounts

(* The other steps leave the thread cache alone.                           *)
OtherStep ==
  \/ IntMallocOther \/ SplitLastRemainder \/ SortIntoBin \/ SearchOwn \/ SearchBins
  \/ UseTop \/ Consolidate \/ FreeFast \/ FreeMerge \/ FreeTrim
  \/ SysmallocMmap \/ SysmallocHeap \/ ExtendTop \/ NewRegion \/ NewRegionApart
  \/ MmapBackup \/ NoMore \/ Carve \/ Systrim \/ LibcFreeMapped
  \/ MremapSame \/ MremapMoves \/ MremapFails \/ MappedCopied \/ LibcMalloc
  \/ LibcCalloc \/ CallocMalloc \/ CallocClear \/ LibcFree \/ LibcRealloc
  \/ ReallocShrinks \/ ReallocIntoTop \/ ReallocIntoNext \/ ReallocElsewhere \/ ReallocCopied
  \/ Done \/ LibcMemalign \/ MemalignLead \/ MemalignTail \/ Mtrim
  \/ Mallopt \/ Deliver

LEMMA OthersCounts ==
  ASSUME CountsOK, OtherStep
  PROVE  CountsOK'
<1>1. tcache' = tcache /\ setup' = setup
  <2>1. ASSUME IntMallocOther \/ SplitLastRemainder \/ SortIntoBin
        PROVE  tcache' = tcache /\ setup' = setup
    BY <2>1, SetupKept DEF IntMallocOther, SplitLastRemainder, SortIntoBin, system
  <2>2. ASSUME SearchOwn \/ SearchBins \/ UseTop
        PROVE  tcache' = tcache /\ setup' = setup
    BY <2>2, SetupKept DEF SearchOwn, SearchBins, UseTop, system
  <2>3. ASSUME Consolidate \/ FreeFast \/ FreeMerge
        PROVE  tcache' = tcache /\ setup' = setup
    BY <2>3, SetupKept DEF Consolidate, FreeFast, FreeMerge, system
  <2>4. ASSUME FreeTrim \/ SysmallocMmap \/ SysmallocHeap
        PROVE  tcache' = tcache /\ setup' = setup
    BY <2>4, SetupKept DEF FreeTrim, SysmallocMmap, SysmallocHeap, system
  <2>5. ASSUME ExtendTop \/ NewRegion \/ NewRegionApart
        PROVE  tcache' = tcache /\ setup' = setup
    BY <2>5, SetupKept DEF ExtendTop, NewRegion, NewRegionApart, system
  <2>6. ASSUME MmapBackup \/ NoMore \/ Carve
        PROVE  tcache' = tcache /\ setup' = setup
    BY <2>6, SetupKept DEF MmapBackup, NoMore, Carve, system
  <2>7. ASSUME Systrim \/ LibcFreeMapped \/ MremapSame
        PROVE  tcache' = tcache /\ setup' = setup
    BY <2>7, SetupKept DEF Systrim, LibcFreeMapped, MremapSame, system
  <2>8. ASSUME MremapMoves \/ MremapFails \/ MappedCopied
        PROVE  tcache' = tcache /\ setup' = setup
    BY <2>8, SetupKept DEF MremapMoves, MremapFails, MappedCopied, system
  <2>9. ASSUME LibcMalloc \/ LibcCalloc \/ CallocMalloc
        PROVE  tcache' = tcache /\ setup' = setup
    BY <2>9, SetupKept DEF LibcMalloc, LibcCalloc, CallocMalloc, system
  <2>10. ASSUME CallocClear \/ LibcFree \/ LibcRealloc
        PROVE  tcache' = tcache /\ setup' = setup
    BY <2>10, SetupKept DEF CallocClear, LibcFree, LibcRealloc, system
  <2>11. ASSUME ReallocShrinks \/ ReallocIntoTop \/ ReallocIntoNext
        PROVE  tcache' = tcache /\ setup' = setup
    BY <2>11, SetupKept DEF ReallocShrinks, ReallocIntoTop, ReallocIntoNext, system
  <2>12. ASSUME ReallocElsewhere \/ ReallocCopied \/ Done
        PROVE  tcache' = tcache /\ setup' = setup
    BY <2>12, SetupKept DEF ReallocElsewhere, ReallocCopied, Done, system
  <2>13. ASSUME LibcMemalign \/ MemalignLead \/ MemalignTail
        PROVE  tcache' = tcache /\ setup' = setup
    BY <2>13, SetupKept DEF LibcMemalign, MemalignLead, MemalignTail, system
  <2>14. ASSUME Mtrim \/ Mallopt \/ Deliver
        PROVE  tcache' = tcache /\ setup' = setup
    BY <2>14, SetupKept DEF Mtrim, Mallopt, Deliver, system
  <2> QED
    BY <2>1, <2>2, <2>3, <2>4, <2>5, <2>6, <2>7, <2>8, <2>9, <2>10, <2>11, <2>12, <2>13, <2>14 DEF OtherStep
<1>2. tcache'.entries = tcache.entries
  BY <1>1
<1> QED
  BY <1>1, <1>2, SameCounts

LEMMA StepCounts ==
  ASSUME Good, CountsOK, Step
  PROVE  CountsOK'
<1>1. CASE OtherStep
  BY <1>1, OthersCounts
<1>2. CASE IntMallocFast
  BY <1>2, IntMallocFastCounts
<1>3. CASE IntMallocSmall
  BY <1>3, IntMallocSmallCounts
<1>4. CASE TakeExact
  BY <1>4, TakeExactCounts
<1>5. CASE UnsortedDone
  BY <1>5, UnsortedDoneCounts
<1>6. CASE FreeToCache
  BY <1>6, FreeToCacheCounts
<1>7. CASE TcacheInit
  BY <1>7, TcacheInitCounts
<1>8. CASE MallocCached
  BY <1>8, MallocCachedCounts
<1>9. CASE FreeCached
  BY <1>9, FreeCachedCounts
<1> QED
  BY <1>1, <1>2, <1>3, <1>4, <1>5, <1>6, <1>7, <1>8, <1>9 DEF Step, OtherStep

(* Nothing runs once the program has been aborted.                         *)
LEMMA Runs ==
  ASSUME Step
  PROVE  call # << >> /\ ~At("abort")
<1>1. ASSUME IntMallocFast \/ IntMallocSmall \/ IntMallocOther \/ SplitLastRemainder \/ TakeExact
      PROVE  call # << >> /\ ~At("abort")
  BY <1>1 DEF IntMallocFast, IntMallocSmall, IntMallocOther, SplitLastRemainder, TakeExact, AtUnsorted, At
<1>2. ASSUME SortIntoBin \/ UnsortedDone \/ SearchOwn \/ SearchBins \/ UseTop
      PROVE  call # << >> /\ ~At("abort")
  BY <1>2 DEF SortIntoBin, UnsortedDone, SearchOwn, SearchBins, UseTop, AtUnsorted, At
<1>3. ASSUME Consolidate \/ FreeToCache \/ FreeFast \/ FreeMerge \/ FreeTrim
      PROVE  call # << >> /\ ~At("abort")
  BY <1>3 DEF Consolidate, FreeToCache, FreeFast, FreeMerge, FreeTrim, At
<1>4. ASSUME SysmallocMmap \/ SysmallocHeap \/ ExtendTop \/ NewRegion \/ NewRegionApart
      PROVE  call # << >> /\ ~At("abort")
  BY <1>4 DEF SysmallocMmap, SysmallocHeap, ExtendTop, NewRegion, NewRegionApart, At
<1>5. ASSUME MmapBackup \/ NoMore \/ Carve \/ Systrim \/ LibcFreeMapped
      PROVE  call # << >> /\ ~At("abort")
  BY <1>5 DEF MmapBackup, NoMore, Carve, Systrim, LibcFreeMapped, At
<1>6. ASSUME MremapSame \/ MremapMoves \/ MremapFails \/ MappedCopied \/ TcacheInit
      PROVE  call # << >> /\ ~At("abort")
  BY <1>6 DEF MremapSame, MremapMoves, MremapFails, MappedCopied, TcacheInit, AtMremap, At
<1>7. ASSUME LibcMalloc \/ MallocCached \/ LibcCalloc \/ CallocMalloc \/ CallocClear
      PROVE  call # << >> /\ ~At("abort")
  BY <1>7 DEF LibcMalloc, MallocCached, LibcCalloc, CallocMalloc, CallocClear, At
<1>8. ASSUME LibcFree \/ FreeCached \/ LibcRealloc \/ ReallocShrinks \/ ReallocIntoTop
      PROVE  call # << >> /\ ~At("abort")
  BY <1>8 DEF LibcFree, FreeCached, LibcRealloc, ReallocShrinks, ReallocIntoTop, AtRealloc, At
<1>9. ASSUME ReallocIntoNext \/ ReallocElsewhere \/ ReallocCopied \/ Done \/ LibcMemalign
      PROVE  call # << >> /\ ~At("abort")
  BY <1>9 DEF ReallocIntoNext, ReallocElsewhere, ReallocCopied, Done, LibcMemalign, AtRealloc, At
<1>10. ASSUME MemalignLead \/ MemalignTail \/ Mtrim \/ Mallopt \/ Deliver
      PROVE  call # << >> /\ ~At("abort")
  BY <1>10 DEF MemalignLead, MemalignTail, Mtrim, Mallopt, Deliver, At
<1> QED
  BY <1>1, <1>2, <1>3, <1>4, <1>5, <1>6, <1>7, <1>8, <1>9, <1>10 DEF Step

-----------------------------------------------------------------------------
(* Every step                                                              *)

LEMMA StepFine ==
  ASSUME Good, CountsOK, Step
  PROVE  Fine'
<1>1. CASE IntMallocFast
  BY <1>1, IntMallocFastFine
<1>2. CASE IntMallocSmall
  BY <1>2, IntMallocSmallFine
<1>3. CASE IntMallocOther
  BY <1>3, IntMallocOtherFine
<1>4. CASE SplitLastRemainder
  BY <1>4, SplitLastRemainderFine
<1>5. CASE TakeExact
  BY <1>5, TakeExactFine
<1>6. CASE SortIntoBin
  BY <1>6, SortIntoBinFine
<1>7. CASE UnsortedDone
  BY <1>7, UnsortedDoneFine
<1>8. CASE SearchOwn
  BY <1>8, SearchOwnFine
<1>9. CASE SearchBins
  BY <1>9, SearchBinsFine
<1>10. CASE UseTop
  BY <1>10, UseTopFine
<1>11. CASE Consolidate
  BY <1>11, ConsolidateFine
<1>12. CASE FreeToCache
  BY <1>12, FreeToCacheFine
<1>13. CASE FreeFast
  BY <1>13, FreeFastFine
<1>14. CASE FreeMerge
  BY <1>14, FreeMergeFine
<1>15. CASE FreeTrim
  BY <1>15, FreeTrimFine
<1>16. CASE SysmallocMmap
  BY <1>16, SysmallocMmapFine
<1>17. CASE SysmallocHeap
  BY <1>17, SysmallocHeapFine
<1>18. CASE ExtendTop
  BY <1>18, ExtendTopFine
<1>19. CASE NewRegion
  BY <1>19, NewRegionFine
<1>20. CASE NewRegionApart
  BY <1>20, NewRegionApartFine
<1>21. CASE MmapBackup
  BY <1>21, MmapBackupFine
<1>22. CASE NoMore
  BY <1>22, NoMoreFine
<1>23. CASE Carve
  BY <1>23, CarveFine
<1>24. CASE Systrim
  BY <1>24, SystrimFine
<1>25. CASE LibcFreeMapped
  BY <1>25, LibcFreeMappedFine
<1>26. CASE MremapSame
  BY <1>26, MremapSameFine
<1>27. CASE MremapMoves
  BY <1>27, MremapMovesFine
<1>28. CASE MremapFails
  BY <1>28, MremapFailsFine
<1>29. CASE MappedCopied
  BY <1>29, MappedCopiedFine
<1>30. CASE TcacheInit
  BY <1>30, TcacheInitFine
<1>31. CASE LibcMalloc
  BY <1>31, LibcMallocFine
<1>32. CASE MallocCached
  BY <1>32, MallocCachedFine
<1>33. CASE LibcCalloc
  BY <1>33, LibcCallocFine
<1>34. CASE CallocMalloc
  BY <1>34, CallocMallocFine
<1>35. CASE CallocClear
  BY <1>35, CallocClearFine
<1>36. CASE LibcFree
  BY <1>36, LibcFreeFine
<1>37. CASE FreeCached
  BY <1>37, FreeCachedFine
<1>38. CASE LibcRealloc
  BY <1>38, LibcReallocFine
<1>39. CASE ReallocShrinks
  BY <1>39, ReallocShrinksFine
<1>40. CASE ReallocIntoTop
  BY <1>40, ReallocIntoTopFine
<1>41. CASE ReallocIntoNext
  BY <1>41, ReallocIntoNextFine
<1>42. CASE ReallocElsewhere
  BY <1>42, ReallocElsewhereFine
<1>43. CASE ReallocCopied
  BY <1>43, ReallocCopiedFine
<1>44. CASE Done
  BY <1>44, DoneFine
<1>45. CASE LibcMemalign
  BY <1>45, LibcMemalignFine
<1>46. CASE MemalignLead
  BY <1>46, MemalignLeadFine
<1>47. CASE MemalignTail
  BY <1>47, MemalignTailFine
<1>48. CASE Mtrim
  BY <1>48, MtrimFine
<1>49. CASE Mallopt
  BY <1>49, MalloptFine
<1>50. CASE Deliver
  BY <1>50, DeliverFine DEF Fine
<1> QED
  BY <1>1, <1>2, <1>3, <1>4, <1>5, <1>6, <1>7, <1>8, <1>9, <1>10, <1>11, <1>12, <1>13, <1>14, <1>15, <1>16, <1>17, <1>18, <1>19, <1>20, <1>21, <1>22, <1>23, <1>24, <1>25, <1>26, <1>27, <1>28, <1>29, <1>30, <1>31, <1>32, <1>33, <1>34, <1>35, <1>36, <1>37, <1>38, <1>39, <1>40, <1>41, <1>42, <1>43, <1>44, <1>45, <1>46, <1>47, <1>48, <1>49, <1>50 DEF Step

LEMMA ProgramFine ==
  ASSUME Good, CountsOK, Program
  PROVE  Fine' /\ CountsOK'
<1>1. setup \in SETUPS /\ MALLOC_ALIGNMENT * 4096 = MAX_ALIGNMENT
  BY DEF Good, Types, MAX_ALIGNMENT
<1>2. ASSUME NEW function, NEW b \in Nat, NEW p, NEW a, Ask(function, b, p, a), Asked(function, p, a)
      PROVE  Fine' /\ CountsOK'
  <2>1. Good'
    BY <1>2, AskFine
  <2>2. CountsOK'
    BY <1>2, SetupKept, SameCounts DEF Ask
  <2> QED
    BY <2>1, <2>2 DEF Fine
<1>3. ASSUME NEW b \in setup.requests, Ask("libc_malloc", b, NULL, 0)
      PROVE  Fine' /\ CountsOK'
  <2>1. b \in Nat /\ Asked("libc_malloc", NULL, 0)
    BY <1>1, SetupsAssumption DEF Asked
  <2> QED
    BY <1>2, <1>3, <2>1
<1>4. ASSUME NEW b \in setup.callocs, Ask("libc_calloc", b, NULL, 0)
      PROVE  Fine' /\ CountsOK'
  <2>1. b \in Nat /\ Asked("libc_calloc", NULL, 0)
    BY <1>1, SetupsAssumption DEF Asked
  <2> QED
    BY <1>2, <1>4, <2>1
<1>5. ASSUME NEW a \in setup.alignments, NEW b \in setup.requests, Ask("libc_memalign", b, NULL, a)
      PROVE  Fine' /\ CountsOK'
  <2>1. b \in Nat /\ a \in 0..MAX_ALIGNMENT
    BY <1>1, SetupsAssumption
  <2>2. Asked("libc_memalign", NULL, a)
    BY <2>1 DEF Asked
  <2> QED
    BY <1>2, <1>5, <2>1, <2>2
<1>6. ASSUME NEW p \in DOMAIN held, NEW b \in setup.reallocs, Ask("libc_realloc", b, p, 0)
      PROVE  Fine' /\ CountsOK'
  <2>1. b \in Nat /\ Asked("libc_realloc", p, 0)
    BY <1>1, SetupsAssumption DEF Asked
  <2> QED
    BY <1>2, <1>6, <2>1
<1>7. ASSUME NEW p \in DOMAIN held, Free(p)
      PROVE  Fine' /\ CountsOK'
  <2>1. Good'
    BY <1>7, FreeFine
  <2>2. setup' = setup /\ tcache' = tcache
    BY <1>7 DEF Free, system
  <2> QED
    BY <2>1, <2>2, SameCounts DEF Fine
<1>8. ASSUME NEW pad \in setup.pads, TrimTo(pad)
      PROVE  Fine' /\ CountsOK'
  <2>1. pad \in Nat
    BY <1>1, SetupsAssumption
  <2>2. Good'
    BY <1>8, <2>1, TrimToFine
  <2>3. setup' = setup /\ tcache' = tcache
    BY <1>8, SetupKept DEF TrimTo
  <2> QED
    BY <2>2, <2>3, SameCounts DEF Fine
<1>9. ASSUME NEW o \in setup.options, SetOption(o[1], o[2])
      PROVE  Fine' /\ CountsOK'
  <2>1. o[1] \in Int /\ o[2] \in Nat
    <3>1. o \in Int \X Nat
      BY <1>1, SetupsAssumption
    <3> QED
      BY <3>1
  <2>2. Good'
    BY <1>9, <2>1, SetOptionFine
  <2>3. setup' = setup /\ tcache' = tcache
    BY <1>9, SetupKept DEF SetOption
  <2> QED
    BY <2>2, <2>3, SameCounts DEF Fine
<1>10. ASSUME NEW n \in setup.foreign, ForeignSbrk(n)
       PROVE  Fine' /\ CountsOK'
  <2>1. n \in Nat
    BY <1>1, SetupsAssumption
  <2>2. Good'
    BY <1>10, <2>1, ForeignSbrkFine
  <2>3. setup' = setup /\ tcache' = tcache
    BY <1>10 DEF ForeignSbrk
  <2> QED
    BY <2>2, <2>3, SameCounts DEF Fine
<1>11. ASSUME ThreadShutdown
       PROVE  Fine' /\ CountsOK'
  <2>1. setup' = setup /\ tcache'.entries = tcache.entries
    BY <1>11, SetupKept DEF ThreadShutdown, Good, Types, Caches
  <2> QED
    BY <1>11, <2>1, ThreadShutdownFine, SameCounts
<1> QED
  BY <1>3, <1>4, <1>5, <1>6, <1>7, <1>8, <1>9, <1>10, <1>11 DEF Program

-----------------------------------------------------------------------------
(* The theorems                                                            *)

LEMMA EmptyLists ==
  ASSUME NEW l, NEW I, l = [i \in I |-> << >>]
  PROVE  Elements(l) = {} /\ Once(l) /\ l \in [I -> Seq(Nat)] /\ \A i \in DOMAIN l : l[i] = << >>
<1>1. \A i \in DOMAIN l : l[i] = << >>
  OBVIOUS
<1>2. Elements(l) = {}
  BY <1>1 DEF Elements, ToSet
<1>3. Once(l)
  BY <1>1 DEF Once
<1>4. << >> \in Seq(Nat)
  OBVIOUS
<1> QED
  BY <1>1, <1>2, <1>3, <1>4

LEMMA InitTypes ==
  ASSUME Init
  PROVE  Types
<1>1. setup \in SETUPS /\ setup.brk_start \in Nat /\ setup.brk_limit \in Nat /\ setup.brk_start <= setup.brk_limit
      /\ setup.mmap_threshold \in Int /\ setup.n_mmaps_max \in Int
  BY SetupsAssumption DEF Init
<1>2. brk \in BRK_START..BRK_LIMIT
  BY <1>1 DEF Init, BRK_START, BRK_LIMIT
<1>3. 0 \in Nat /\ 0 \in Int /\ FALSE \in BOOLEAN /\ TRUE \in BOOLEAN
  OBVIOUS
<1>4. av \in Arenas
  <2>1. PICK b, f : b = [i \in Bins |-> << >>] /\ f = [i \in 0..NFASTBINS - 1 |-> << >>]
    OBVIOUS
  <2>2. b \in [Bins -> Seq(Nat)] /\ f \in [0..NFASTBINS - 1 -> Seq(Nat)]
    BY <2>1, EmptyLists
  <2>3. av = [top |-> NULL, last_remainder |-> NULL, bins |-> b, binmap |-> {}, fastbins |-> f,
              have_fastchunks |-> FALSE, contiguous |-> TRUE,
              system_mem |-> 0, max_system_mem |-> 0, dirty |-> 0]
    BY <2>1 DEF Init
  <2> QED
    BY <1>3, <2>2, <2>3 DEF Arenas, NULL
<1>5. MXFAST \in Nat /\ MXFAST <= MAX_FAST_SIZE
  <2>1. MAX_FAST_SIZE \in Nat
    BY Units DEF MAX_FAST_SIZE
  <2> QED
    BY <2>1, PageAssumption
<1>6. mp \in Params /\ mp.max_fast <= request2size(MAX_FAST_SIZE)
  <2>1. max_fast(MXFAST) \in Int /\ max_fast(MXFAST) <= request2size(MAX_FAST_SIZE)
    BY <1>5, MaxFast
  <2>2. MMAP_THRESHOLD \in Int /\ N_MMAPS_MAX \in Int /\ TRIM_THRESHOLD \in Int /\ TOP_PAD \in Nat
    BY <1>1, PageAssumption DEF MMAP_THRESHOLD, N_MMAPS_MAX
  <2>3. PICK f : f = max_fast(MXFAST)
    OBVIOUS
  <2>4. mp = [max_fast |-> f, mmap_threshold |-> MMAP_THRESHOLD,
              trim_threshold |-> TRIM_THRESHOLD, no_dyn_threshold |-> FALSE,
              top_pad |-> TOP_PAD, n_mmaps_max |-> N_MMAPS_MAX,
              n_mmaps |-> 0, mmapped_mem |-> 0, sbrk_base |-> NULL]
    BY <2>3 DEF Init
  <2>5. mp \in Params
    BY <1>3, <2>1, <2>2, <2>3, <2>4 DEF Params, NULL
  <2>6. mp.max_fast = f
    BY <2>4
  <2> QED
    BY <2>1, <2>3, <2>5, <2>6
<1>7. tcache \in Caches
  <2>1. PICK e, b : e = [i \in 0..TCACHE_BINS - 1 |-> << >>] /\ b = (TCACHE_COUNT = 0)
    OBVIOUS
  <2>2. e \in [0..TCACHE_BINS - 1 -> Seq(Nat)] /\ b \in BOOLEAN
    BY <2>1, EmptyLists
  <2>3. tcache = [block |-> NULL, shutting_down |-> b, entries |-> e]
    BY <2>1 DEF Init
  <2> QED
    BY <1>3, <2>2, <2>3 DEF Caches, NULL
<1>8. pages \subseteq MMAP_PAGES /\ DOMAIN held = {} /\ held \in [DOMAIN held -> Nat] /\ ret \in Answers
  BY NoReturnIs DEF Init
<1> QED
  BY <1>1, <1>2, <1>4, <1>6, <1>7, <1>8 DEF Types

LEMMA InitGood ==
  ASSUME Init
  PROVE  CountsOK /\ Good
<1>1. Types /\ setup \in SETUPS
  BY InitTypes DEF Types
<1>2. DOMAIN chunk = {} /\ DOMAIN mapped = {} /\ av.top = NULL /\ call = << >> /\ ret = NoReturn
      /\ DOMAIN held = {} /\ tcache.block = NULL
  BY DEF Init
<1>3. HeapOK
  <2>1. chunk \in [DOMAIN chunk -> Headers] /\ mapped \in [DOMAIN mapped -> [size : Nat, prev_size : Nat]]
    BY <1>2 DEF Init
  <2>2. Laid(chunk)
    BY <1>2, <2>1 DEF Laid
  <2>3. Mapped(mapped, pages)
    BY <1>2, <2>1 DEF Mapped
  <2>4. Given(chunk, mapped, Sbrk, pages)
    BY <1>2 DEF Given
  <2> QED
    BY <1>2, <2>2, <2>3, <2>4 DEF HeapOK
<1>4. PICK e, f, b : e = tcache.entries /\ f = av.fastbins /\ b = av.bins
  OBVIOUS
<1>5. e = [i \in 0..TCACHE_BINS - 1 |-> << >>] /\ f = [i \in 0..NFASTBINS - 1 |-> << >>] /\ b = [i \in Bins |-> << >>]
  BY <1>4 DEF Init
<1>6. /\ Elements(e) = {} /\ Once(e) /\ Elements(f) = {} /\ Once(f) /\ Elements(b) = {} /\ Once(b)
      /\ \A i \in DOMAIN e : e[i] = << >>
      /\ \A i \in DOMAIN f : f[i] = << >>
      /\ \A i \in DOMAIN b : b[i] = << >>
  BY <1>5, EmptyLists
<1>7. CacheOK(e, chunk) /\ FastOK(f, chunk) /\ BinsOK(b, chunk)
  BY <1>6 DEF CacheOK, FastOK, BinsOK, Fit
<1>8. ListsOK
  BY <1>4, <1>7 DEF ListsOK
<1>9. Legal(call, chunk, mapped, held) /\ OnCall = {}
  BY <1>2, StackEmpty DEF Legal, OnCall
<1>10. Returned = {} /\ Still = {} /\ Block = {} /\ InCache = {} /\ InFast = {} /\ InBins = {}
  <2>1. Topmost(call).at = "nothing"
    BY <1>2, NothingIs
  <2>2. ret.p = NULL
    BY <1>2, NoReturnIs
  <2>3. Returned = {}
    BY <2>1, <2>2 DEF Returned, Handed
  <2> QED
    BY <1>2, <1>4, <1>6, <2>3 DEF Still, Block, InCache, InFast, InBins
<1>11. OwnersOK
  BY <1>9, <1>10 DEF OwnersOK, Parted, Owned, Linked
<1>12. HeldOK /\ RetOK /\ HeadOK
  BY <1>2, NoReturnIs DEF HeldOK, Roomy, RetOK, HeadOK, At
<1>13. CountsOK
  <2>1. Bounded(e, setup)
    BY <1>1, <1>6, SetupsAssumption DEF Bounded
  <2> QED
    BY <1>1, <1>4, <2>1 DEF CountsOK, Bounded, TCACHE_COUNT
<1> QED
  BY <1>1, <1>3, <1>8, <1>9, <1>11, <1>12, <1>13 DEF Good

LEMMA SameFine ==
  ASSUME IInv, UNCHANGED vars
  PROVE  IInv'
<1>1. /\ chunk' = chunk /\ mapped' = mapped /\ av' = av /\ mp' = mp /\ tcache' = tcache /\ brk' = brk
      /\ pages' = pages /\ setup' = setup /\ call' = call /\ ret' = ret /\ held' = held
  BY DEF vars, system
<1>2. CountsOK'
  BY <1>1, SameCounts DEF IInv
<1>3. CASE At("abort")
  BY <1>1, <1>2, <1>3 DEF IInv, At
<1>4. CASE Good
  <2>1. Base(call').p = Base(call).p /\ Legal(call', chunk, mapped, held) /\ OnCall' = OnCall
        /\ Returned' = Returned /\ Failed' = Failed /\ Still' = Still
    BY <1>1, <1>4 DEF Good, OnCall, Returned, Failed, Still
  <2>2. RetOK'
    BY <1>1, <1>4 DEF Good, RetOK
  <2>3. HeadOK'
    <3>1. top_size' = top_size /\ tcache_cached(op.nb)' = tcache_cached(op.nb) /\ op' = op
      BY <1>1 DEF top_size, tcache_cached, tcache_fits, op
    <3> QED
      BY <1>1, <1>4, <3>1 DEF Good, HeadOK, At
  <2>4. /\ Listless /\ av' \in Arenas /\ mp' \in Params /\ mp'.max_fast <= request2size(MAX_FAST_SIZE)
        /\ tcache' \in Caches /\ ret' \in Answers
    BY <1>1, <1>4 DEF Good, Types, Listless
  <2>5. Roomy(held, Failed', chunk, mapped)
    BY <1>4, <2>1 DEF Good, HeldOK, Roomy
  <2>6. OnCall' \cup Returned' \subseteq OnCall \cup Returned /\ OnCall' \cap Returned' = {}
    <3>1. OnCall \cap Returned = {}
      BY <1>4, PartsOf DEF Parted
    <3> QED
      BY <2>1, <3>1
  <2>7. Good'
    BY <1>1, <1>4, <2>1, <2>2, <2>3, <2>4, <2>5, <2>6, Control
  <2> QED
    BY <1>2, <2>7 DEF IInv
<1> QED
  BY <1>3, <1>4 DEF IInv

(* The invariant is inductive: whatever a function of malloc-impl.c does,  *)
(* chunks do not overlap and have one owner, or the program is aborted.    *)
THEOREM Invariance == Spec => []IInv
<1>1. Init => IInv
  BY InitGood DEF IInv
<1>2. IInv /\ [Next]_vars => IInv'
  <2> SUFFICES ASSUME IInv, [Next]_vars PROVE IInv'
    OBVIOUS
  <2>1. CASE UNCHANGED vars
    BY <2>1, SameFine
  <2>2. CASE Step
    <3>1. Good /\ CountsOK
      BY <2>2, Runs DEF IInv
    <3> QED
      BY <2>2, <3>1, StepFine, StepCounts DEF IInv, Fine
  <2>3. CASE Program
    <3>1. call = << >>
      BY <2>3 DEF Program, Ask, Free, TrimTo, SetOption, ForeignSbrk, ThreadShutdown, Calls
    <3>2. Good /\ CountsOK
      BY <3>1 DEF IInv, At
    <3> QED
      BY <2>3, <3>2, ProgramFine DEF IInv, Fine
  <2> QED
    BY <2>1, <2>2, <2>3 DEF Next
<1> QED
  BY <1>1, <1>2, PTL DEF Spec

(* What the program relies on                                              *)

LEMMA Musable ==
  \A p : musable(p) = room(p, chunk, mapped)
BY DEF musable, room

LEMMA ArenaBacked ==
  ASSUME NEW w, Arena(w, mapped, Sbrk, pages)
  PROVE  backed(w)
BY DEF Arena, Sbrk, backed

(* The memory of a chunk, with the word of the next header that it may use.*)
LEMMA MemoryIs ==
  ASSUME Good, NEW p \in DOMAIN chunk, p + chunk[p].size \in DOMAIN chunk,
         NEW w \in memory(p)
  PROVE  /\ w \in Nat /\ w >= p + CHUNK_HDR_SZ /\ w < p + chunk[p].size + SIZE_SZ
         /\ Arena(w, mapped, Sbrk, pages)
<1>1. PICK S, n, e : S = SIZE_SZ /\ n = chunk[p].size /\ e = p + n
  OBVIOUS
<1>2. PICK z : z = chunk[e].size
  OBVIOUS
<1>3. /\ S \in Nat \ {0} /\ CHUNK_HDR_SZ = 2 * S /\ p \in Nat /\ n \in Nat /\ e \in Nat /\ z \in Nat
      /\ n >= 2 * S /\ z >= 2 * S /\ e \in DOMAIN chunk
  BY <1>1, <1>2, Units DEF Good, HeapOK, Laid, Headers
<1>4. p \notin DOMAIN mapped
  <2>1. setup \in SETUPS /\ brk \in BRK_START..BRK_LIMIT /\ pages \subseteq MMAP_PAGES
    BY DEF Good, Types
  <2>2. Mapped(mapped, pages) /\ Laid(chunk) /\ Given(chunk, mapped, BRK_START..brk - 1, pages)
    BY DEF Good, HeapOK, Sbrk
  <2> QED
    BY <2>1, <2>2, ChunkOrMapped
<1>5. musable(p) = n - S
  BY <1>1, <1>4 DEF musable
<1>6. w \in p + 2 * S..p + 2 * S + (n - S) - 1
  BY <1>1, <1>3, <1>5 DEF memory
<1>7. w \in Nat /\ w >= p + 2 * S /\ w < e + S
  BY <1>1, <1>3, <1>6
<1>8. w \in words(chunk, p) \/ w \in words(chunk, e)
  <2>1. words(chunk, p) = p..p + n - 1 /\ words(chunk, e) = e..e + z - 1
    BY <1>1, <1>2 DEF words
  <2>2. w \in Nat /\ p \in Nat /\ n \in Nat /\ e \in Nat /\ z \in Nat /\ S \in Nat /\ e = p + n
    BY <1>1, <1>3, <1>7
  <2>3. p <= w /\ w < e + z
    BY <1>3, <1>7, <2>2
  <2>4. w \in p..p + n - 1 \/ w \in e..e + z - 1
    BY <2>2, <2>3
  <2> QED
    BY <2>1, <2>4
<1>9. Given(chunk, mapped, Sbrk, pages)
  BY DEF Good, HeapOK
<1>10. Arena(w, mapped, Sbrk, pages)
  BY <1>3, <1>8, <1>9 DEF Given
<1> QED
  BY <1>1, <1>3, <1>7, <1>10

(* The memory of a mapping is on its own pages.                            *)
LEMMA MappingIs ==
  ASSUME Good, NEW p \in DOMAIN mapped, NEW w \in memory(p)
  PROVE  w \in Nat /\ w \div PAGE \in own(mapped, p) /\ w \div PAGE \in pages
<1>1. PICK S, n, v : S = SIZE_SZ /\ n = mapped[p].size /\ v = mapped[p].prev_size
  OBVIOUS
<1>2. Mapped(mapped, pages)
  BY DEF Good, HeapOK
<1>3. /\ S \in Nat \ {0} /\ CHUNK_HDR_SZ = 2 * S /\ p \in Nat /\ n \in Nat /\ v \in Nat
      /\ own(mapped, p) \subseteq pages
      /\ \A x \in Nat : p - v <= x /\ x < p + n <=> x \div PAGE \in own(mapped, p)
  BY <1>1, <1>2, Units, OwnPages
<1>4. musable(p) = n - 2 * S
  BY <1>1, <1>3 DEF musable
<1>5. w \in p + 2 * S..p + 2 * S + (n - 2 * S) - 1
  BY <1>3, <1>4 DEF memory
<1>6. w \in Nat /\ p - v <= w /\ w < p + n
  BY <1>3, <1>5
<1> QED
  BY <1>3, <1>6

LEMMA HeldLinked ==
  ASSUME Good, Quiet, NEW p \in DOMAIN held
  PROVE  p \in DOMAIN mapped \/ (p \in DOMAIN chunk /\ p + chunk[p].size \in DOMAIN chunk)
<1>1. p \in Owned
  BY Idle DEF Quiet, Owned
<1> QED
  BY <1>1, PartsOf DEF Linked

LEMMA CachedIs ==
  ASSUME Good, NEW q \in Cached
  PROVE  q \in InCache /\ q \in DOMAIN chunk
<1>1. q \in InCache
  BY DEF Cached, InCache, Elements
<1> QED
  BY <1>1, Listed

(* Where the chunks are that do not begin at the same address.             *)
LEMMA LaidApart ==
  ASSUME Good, NEW p \in DOMAIN chunk, NEW q \in DOMAIN chunk, p # q, p + chunk[p].size \in DOMAIN chunk
  PROVE  \/ p + chunk[p].size = q
         \/ p + chunk[p].size + CHUNK_HDR_SZ <= q
         \/ q + chunk[q].size <= p
<1>1. PICK m, n, e, z : m = chunk[p].size /\ n = chunk[q].size /\ e = p + m /\ z = chunk[e].size
  OBVIOUS
<1>2. /\ p \in Nat /\ q \in Nat /\ e \in Nat /\ m \in Nat /\ n \in Nat /\ z \in Nat /\ e \in DOMAIN chunk
      /\ CHUNK_HDR_SZ \in Nat /\ z >= CHUNK_HDR_SZ
      /\ p < q => e <= q
      /\ q < p => q + n <= p
      /\ e < q => e + z <= q
  BY <1>1, Units DEF Good, HeapOK, Laid, Headers
<1> QED
  BY <1>1, <1>2

LEMMA HeldApart ==
  ASSUME Good, Quiet, NEW p \in DOMAIN held, NEW q \in DOMAIN held, p # q, NEW w \in memory(p), w \in memory(q)
  PROVE  FALSE
<1>1. Mapped(mapped, pages) /\ setup \in SETUPS /\ brk \in BRK_START..BRK_LIMIT /\ pages \subseteq MMAP_PAGES
  BY DEF Good, HeapOK, Types
<1>2. CASE p \in DOMAIN mapped /\ q \in DOMAIN mapped
  <2>1. w \div PAGE \in own(mapped, p) /\ w \div PAGE \in own(mapped, q)
    BY <1>2, MappingIs
  <2> QED
    BY <1>1, <1>2, <2>1 DEF Mapped
<1>3. ASSUME NEW a \in {p, q}, NEW b \in {p, q}, a \in DOMAIN mapped, b \notin DOMAIN mapped
      PROVE  FALSE
  <2>1. w \in Nat /\ w \div PAGE \in own(mapped, a)
    BY <1>3, MappingIs
  <2>2. b \in DOMAIN chunk /\ b + chunk[b].size \in DOMAIN chunk
    BY <1>3, HeldLinked
  <2>3. Arena(w, mapped, BRK_START..brk - 1, pages)
    BY <1>3, <2>2, MemoryIs DEF Sbrk
  <2> QED
    BY <1>1, <1>3, <2>1, <2>3, ArenaApart
<1>4. CASE p \notin DOMAIN mapped /\ q \notin DOMAIN mapped
  <2>1. /\ p \in DOMAIN chunk /\ p + chunk[p].size \in DOMAIN chunk
        /\ q \in DOMAIN chunk /\ q + chunk[q].size \in DOMAIN chunk
    BY <1>4, HeldLinked
  <2>2. PICK m, n : m = chunk[p].size /\ n = chunk[q].size
    OBVIOUS
  <2>3. /\ p \in Nat /\ q \in Nat /\ m \in Nat /\ n \in Nat
        /\ SIZE_SZ \in Nat \ {0} /\ CHUNK_HDR_SZ = 2 * SIZE_SZ
    BY <2>1, <2>2, Units DEF Good, HeapOK, Laid, Headers
  <2>4. w \in Nat /\ w >= p + CHUNK_HDR_SZ /\ w < p + m + SIZE_SZ
    BY <2>1, <2>2, MemoryIs
  <2>5. w >= q + CHUNK_HDR_SZ /\ w < q + n + SIZE_SZ
    BY <2>1, <2>2, MemoryIs
  <2>6. p + m = q \/ p + m + CHUNK_HDR_SZ <= q \/ q + n <= p
    BY <2>1, <2>2, LaidApart
  <2>7. q + n = p \/ q + n + CHUNK_HDR_SZ <= p \/ p + m <= q
    BY <2>1, <2>2, LaidApart
  <2> QED
    BY <2>3, <2>4, <2>5, <2>6, <2>7
<1> QED
  BY <1>2, <1>3, <1>4

LEMMA CachedApart ==
  ASSUME Good, Quiet, NEW p \in DOMAIN held, NEW q \in Cached, NEW w \in memory(p),
         w \in q + SIZE_SZ..next_chunk(q) - 1
  PROVE  FALSE
<1>1. q \in InCache /\ q \in DOMAIN chunk
  BY CachedIs
<1>2. p # q
  <2>1. p \in Still
    BY Idle DEF Quiet
  <2> QED
    BY <1>1, <2>1, PartsOf DEF Parted
<1>3. PICK n : n = chunk[q].size
  OBVIOUS
<1>4. q \in Nat /\ n \in Nat /\ SIZE_SZ \in Nat \ {0} /\ CHUNK_HDR_SZ = 2 * SIZE_SZ
  BY <1>1, <1>3, Units DEF Good, HeapOK, Laid, Headers
<1>5. w \in q + SIZE_SZ..q + n - 1
  <2>1. next_chunk(q) = q + n
    BY <1>3 DEF next_chunk
  <2>2. next_chunk(q) - 1 = q + n - 1
    BY <1>4, <2>1
  <2> QED
    BY <2>2
<1>6. CASE p \in DOMAIN mapped
  <2>1. w \in Nat /\ w \div PAGE \in own(mapped, p)
    BY <1>6, MappingIs
  <2>2. w \in words(chunk, q)
    BY <1>3, <1>4, <1>5 DEF words
  <2>3. Arena(w, mapped, BRK_START..brk - 1, pages)
    BY <1>1, <2>2 DEF Good, HeapOK, Given, Sbrk
  <2>4. Mapped(mapped, pages) /\ setup \in SETUPS /\ brk \in BRK_START..BRK_LIMIT /\ pages \subseteq MMAP_PAGES
    BY DEF Good, HeapOK, Types
  <2> QED
    BY <1>6, <2>1, <2>3, <2>4, ArenaApart
<1>7. CASE p \notin DOMAIN mapped
  <2>1. p \in DOMAIN chunk /\ p + chunk[p].size \in DOMAIN chunk
    BY <1>7, HeldLinked
  <2>2. PICK m : m = chunk[p].size
    OBVIOUS
  <2>3. p \in Nat /\ m \in Nat
    BY <2>1, <2>2 DEF Good, HeapOK, Laid, Headers
  <2>4. w \in Nat /\ w >= p + CHUNK_HDR_SZ /\ w < p + m + SIZE_SZ
    BY <2>1, <2>2, MemoryIs
  <2>5. p + m = q \/ p + m + CHUNK_HDR_SZ <= q \/ q + n <= p
    BY <1>1, <1>2, <1>3, <2>1, <2>2, LaidApart
  <2> QED
    BY <1>4, <1>5, <2>3, <2>4, <2>5
<1> QED
  BY <1>6, <1>7

LEMMA HeldSafe ==
  ASSUME Good, Quiet
  PROVE  HeldIsOwned
<1>1. ASSUME NEW p \in DOMAIN held PROVE musable(p) >= held[p]
  <2>1. Roomy(held, Still \cup Failed, chunk, mapped)
    BY DEF Good, HeldOK
  <2>2. p \in Still
    BY Idle DEF Quiet
  <2> QED
    BY <2>1, <2>2, Musable DEF Roomy
<1>2. ASSUME NEW p \in DOMAIN held, NEW w \in memory(p) PROVE backed(w)
  <2>1. CASE p \in DOMAIN mapped
    BY <2>1, MappingIs DEF backed
  <2>2. CASE p \notin DOMAIN mapped
    BY <2>2, HeldLinked, MemoryIs, ArenaBacked
  <2> QED
    BY <2>1, <2>2
<1>3. ASSUME NEW p \in DOMAIN held, NEW q \in DOMAIN held \ {p} PROVE memory(p) \cap memory(q) = {}
  BY HeldApart
<1>4. ASSUME NEW p \in DOMAIN held, NEW q \in Cached
      PROVE  memory(p) \cap (q + SIZE_SZ..next_chunk(q) - 1) = {}
  BY CachedApart
<1>5. ASSUME NEW q \in {av.top} \ {NULL}, NEW w \in q..old_end - 1 PROVE backed(w)
  <2>1. q = av.top /\ q \in DOMAIN chunk
    BY DEF Good, HeapOK
  <2>2. old_end = q + chunk[q].size
    BY <1>5, <2>1 DEF old_end, top_size
  <2>3. w \in words(chunk, q)
    <3>1. PICK n : n = chunk[q].size
      OBVIOUS
    <3>2. q \in Nat /\ n \in Nat
      BY <2>1, <3>1 DEF Good, HeapOK, Laid, Headers
    <3>3. old_end - 1 = q + n - 1
      BY <2>2, <3>1, <3>2
    <3> QED
      BY <1>5, <3>1, <3>3 DEF words
  <2> QED
    BY <2>1, <2>3, ArenaBacked DEF Good, HeapOK, Given
<1> QED
  BY <1>1, <1>2, <1>3, <1>4, <1>5 DEF HeldIsOwned

(* What the program holds is memory that the system has given, of the size *)
(* it asked for at least, and shared with no other chunk, for every number *)
(* of calls of malloc-impl.c with any sizes.                               *)
THEOREM HeldAreOwned == Spec => []HeldIsOwned
<1>1. IInv => HeldIsOwned
  <2> SUFFICES ASSUME IInv PROVE HeldIsOwned
    OBVIOUS
  <2>1. CASE Quiet
    <3>1. Good
      BY <2>1 DEF IInv, Quiet, At
    <3> QED
      BY <2>1, <3>1, HeldSafe
  <2>2. CASE ~Quiet
    BY <2>2 DEF HeldIsOwned
  <2> QED
    BY <2>1, <2>2
<1> QED
  BY <1>1, Invariance, PTL

LEMMA NoPrograms ==
  ASSUME IInv, NEW l, At(l), l # "abort"
  PROVE  Good /\ CountsOK
BY DEF IInv, At

(* What realloc is given to copy to.                                       *)
LEMMA ReturnedRoom ==
  ASSUME Good, ret.p # NULL, NEW l \in {"realloc_copied", "mapped_copied"}, At(l)
  PROVE  /\ room(ret.p, chunk, mapped) + SIZE_SZ >= op.nb
         /\ room(ret.p, chunk, mapped) \in Int /\ op.nb \in Nat
         /\ FrameOK(op, Topmost(Tail(call)), Base(Tail(call)), chunk, mapped, held) /\ op.at = l
<1>1. /\ call # << >> /\ op.at = l /\ Above(op) /\ op \in Frames /\ op.nb \in Nat
      /\ FrameOK(op, Topmost(Tail(call)), Base(Tail(call)), chunk, mapped, held)
  BY Running
<1>2. Topmost(call) = op
  BY <1>1 DEF Topmost, op
<1>3. l \in Needy
  BY DEF Needy
<1>4. room(ret.p, chunk, mapped) + SIZE_SZ >= Need(op, Base(call))
  BY <1>1, <1>2, <1>3 DEF Good, RetOK
<1>5. Need(op, Base(call)) = op.nb
  BY <1>1 DEF Need
<1>6. room(ret.p, chunk, mapped) \in Int
  <2>1. PICK q : q = ret.p
    OBVIOUS
  <2>2. q \in Returned
    BY <2>1 DEF Returned, Handed
  <2>3. q \in DOMAIN mapped \/ q \in DOMAIN chunk
    BY <2>2, PartsOf DEF Linked, Owned
  <2>4. Laid(chunk) /\ Mapped(mapped, pages)
    BY DEF Good, HeapOK
  <2>5. q \in DOMAIN mapped => mapped[q].size \in Nat
    BY <2>4 DEF Mapped
  <2>6. q \in DOMAIN chunk => chunk[q].size \in Nat
    BY <2>4 DEF Laid, Headers
  <2> QED
    BY <2>1, <2>3, <2>5, <2>6, Units DEF room
<1> QED
  BY <1>1, <1>4, <1>5, <1>6

LEMMA ChunkUnmapped ==
  ASSUME Good, NEW p \in DOMAIN chunk
  PROVE  p \notin DOMAIN mapped
<1>1. setup \in SETUPS /\ brk \in BRK_START..BRK_LIMIT /\ pages \subseteq MMAP_PAGES
  BY DEF Good, Types
<1>2. Mapped(mapped, pages) /\ Laid(chunk) /\ Given(chunk, mapped, BRK_START..brk - 1, pages)
  BY DEF Good, HeapOK, Sbrk
<1> QED
  BY <1>1, <1>2, ChunkOrMapped

(* realloc never copies more words than the new chunk has room for: what   *)
(* it asks _int_malloc for is more than the old chunk has.                 *)
THEOREM CopiesFit == Spec => []CopyFits
<1>1. IInv => CopyFits
  <2> SUFFICES ASSUME IInv PROVE CopyFits
    OBVIOUS
  <2>1. ASSUME At("realloc_copied"), ret.p # NULL
        PROVE  musable(ret.p) >= musable(op.p)
    <3>1. Good
      BY <2>1, NoPrograms
    <3>2. /\ room(ret.p, chunk, mapped) + SIZE_SZ >= op.nb
          /\ room(ret.p, chunk, mapped) \in Int /\ op.nb \in Nat
          /\ FrameOK(op, Topmost(Tail(call)), Base(Tail(call)), chunk, mapped, held)
          /\ op.at = "realloc_copied"
      BY <2>1, <3>1, ReturnedRoom
    <3>3. op.p \in DOMAIN chunk /\ chunk[op.p].size < op.nb
      BY <3>2 DEF FrameOK
    <3>4. op.p \notin DOMAIN mapped /\ chunk[op.p].size \in Nat
      BY <3>1, <3>3, ChunkUnmapped DEF Good, HeapOK, Laid, Headers
    <3>5. PICK r, n, s : r = room(ret.p, chunk, mapped) /\ n = op.nb /\ s = chunk[op.p].size
      OBVIOUS
    <3>6. r \in Int /\ n \in Nat /\ s \in Nat /\ s < n /\ r + SIZE_SZ >= n /\ SIZE_SZ \in Nat
      BY <3>2, <3>3, <3>4, <3>5, Units
    <3>7. musable(op.p) = s - SIZE_SZ /\ musable(ret.p) = r
      BY <3>4, <3>5, Musable DEF musable
    <3> QED
      BY <3>6, <3>7
  <2>2. ASSUME At("mapped_copied"), ret.p # NULL
        PROVE  musable(ret.p) >= musable(op.p)
    <3>1. Good
      BY <2>2, NoPrograms
    <3>2. /\ room(ret.p, chunk, mapped) + SIZE_SZ >= op.nb
          /\ room(ret.p, chunk, mapped) \in Int /\ op.nb \in Nat
          /\ FrameOK(op, Topmost(Tail(call)), Base(Tail(call)), chunk, mapped, held)
          /\ op.at = "mapped_copied"
      BY <2>2, <3>1, ReturnedRoom
    <3>3. op.p \in DOMAIN mapped /\ mapped[op.p].size - SIZE_SZ < op.nb
      BY <3>2 DEF FrameOK
    <3>4. mapped[op.p].size \in Nat
      BY <3>1, <3>3 DEF Good, HeapOK, Mapped
    <3>5. PICK r, n, s : r = room(ret.p, chunk, mapped) /\ n = op.nb /\ s = mapped[op.p].size
      OBVIOUS
    <3>6. /\ r \in Int /\ n \in Nat /\ s \in Nat /\ s - SIZE_SZ < n /\ r + SIZE_SZ >= n
          /\ SIZE_SZ \in Nat /\ CHUNK_HDR_SZ = 2 * SIZE_SZ
      BY <3>2, <3>3, <3>4, <3>5, Units
    <3>7. musable(op.p) = s - CHUNK_HDR_SZ /\ musable(ret.p) = r
      BY <3>3, <3>5, Musable DEF musable
    <3> QED
      BY <3>6, <3>7
  <2> QED
    BY <2>1, <2>2 DEF CopyFits
<1> QED
  BY <1>1, Invariance, PTL

(* No list of the thread cache is longer than tcache_count allows, and     *)
(* between two calls each has only chunks of the size it is for.           *)
THEOREM CacheBounded == Spec => []CacheIsBounded
<1>1. IInv => CacheIsBounded
  <2> SUFFICES ASSUME IInv, NEW i \in DOMAIN tcache.entries
               PROVE  /\ Len(tcache.entries[i]) <= TCACHE_COUNT
                      /\ Quiet => \A p \in ToSet(tcache.entries[i]) : csize2tidx(chunk[p].size) = i
    BY DEF CacheIsBounded
  <2>1. Len(tcache.entries[i]) <= TCACHE_COUNT
    BY DEF IInv, CountsOK
  <2>2. ASSUME Quiet, NEW p \in ToSet(tcache.entries[i])
        PROVE  csize2tidx(chunk[p].size) = i
    <3>1. Good
      BY <2>2 DEF IInv, Quiet, At
    <3>2. PICK k \in DOMAIN tcache.entries[i] : tcache.entries[i][k] = p
      BY <2>2 DEF ToSet
    <3> QED
      BY <3>1, <3>2 DEF Good, ListsOK, CacheOK
  <2> QED
    BY <2>1, <2>2
<1> QED
  BY <1>1, Invariance, PTL

(* A part of a chunk that mtrim gives back.                                *)
LEMMA AdvisedIs ==
  ASSUME Good, NEW p \in InBins, NEW r, r = advised(p), r.size > 0
  PROVE  /\ r.from \in Nat /\ r.size \in Nat /\ r.from % PAGE = 0 /\ r.size % PAGE = 0
         /\ r.from >= p + MALLOC_CHUNK /\ r.from + r.size <= p + chunk[p].size
<1>1. PICK n, f, s, x : /\ n = chunk[p].size /\ f = advised_from(p) /\ s = n - (f - p)
                        /\ x = ALIGN_DOWN(s, PAGE)
  OBVIOUS
<1>2. p \in DOMAIN chunk /\ p \in Nat /\ Aligned(n)
  BY <1>1, Listed
<1>3. n \in Nat /\ PAGE \in Nat \ {0} /\ MALLOC_CHUNK \in Nat
  BY <1>2, PageSize, Units DEF Aligned, MALLOC_CHUNK
<1>4. f \in Int /\ f % PAGE = 0 /\ p + MALLOC_CHUNK <= f
  <2>1. p + MALLOC_CHUNK \in Int
    BY <1>2, <1>3
  <2> QED
    BY <1>1, <1>3, <2>1, RoundUp DEF advised_from
<1>5. s \in Int /\ s = n - (f - p)
  BY <1>1, <1>2, <1>3, <1>4
<1>6. x \in Int /\ x % PAGE = 0 /\ x <= s
  BY <1>1, <1>3, <1>5, RoundDown
<1>7. r.from = f /\ (r.size = x \/ r.size = 0)
  BY <1>1 DEF advised
<1>8. r.size = x /\ x > 0
  BY <1>7
<1> QED
  BY <1>1, <1>2, <1>3, <1>4, <1>5, <1>6, <1>7, <1>8

LEMMA TrimSpares ==
  ASSUME Good, NEW p \in InBins, NEW r, r = advised(p), r.size > 0, NEW a \in DOMAIN chunk,
         NEW w \in r.from..r.from + r.size - 1,
         w \in a..a + (IF a \in Binned THEN MALLOC_CHUNK ELSE chunk[a].size) - 1
  PROVE  FALSE
<1>1. PICK f, s, n, m, K : f = r.from /\ s = r.size /\ n = chunk[p].size /\ m = chunk[a].size /\ K = MALLOC_CHUNK
  OBVIOUS
<1>2. f \in Nat /\ s \in Nat /\ f >= p + K /\ f + s <= p + n
  BY <1>1, AdvisedIs
<1>3. p \in DOMAIN chunk /\ Aligned(n) /\ Binned = InBins
  <2>1. Binned = InBins
    BY DEF Binned, InBins, Elements, Good, Types, Arenas
  <2> QED
    BY <1>1, <2>1, Listed
<1>4. /\ p \in Nat /\ a \in Nat /\ n \in Nat /\ m \in Nat
      /\ p < a => p + n <= a
      /\ a < p => a + m <= p
  BY <1>1, <1>3 DEF Good, HeapOK, Laid, Headers
<1>5. K \in Nat
  BY <1>1, Units DEF MALLOC_CHUNK
<1>6. PICK l : l = IF a \in Binned THEN K ELSE m
  OBVIOUS
<1>7. l \in Nat /\ w \in a..a + l - 1 /\ w \in f..f + s - 1
  BY <1>1, <1>4, <1>5, <1>6
<1>8. w \in Int /\ a <= w /\ w < a + l /\ f <= w /\ w < f + s
  BY <1>2, <1>4, <1>7
<1>9. CASE a = p
  <2>1. l = K
    BY <1>3, <1>6, <1>9
  <2> QED
    BY <1>2, <1>4, <1>5, <1>8, <1>9, <2>1
<1>10. CASE p < a
  BY <1>2, <1>4, <1>8, <1>10
<1>11. CASE a < p
  <2>1. CASE a \in Binned
    BY <1>1, <1>2, <1>3, <1>4, <1>5, <1>6, <1>8, <1>11, <2>1
  <2>2. CASE a \notin Binned
    BY <1>2, <1>4, <1>5, <1>6, <1>8, <1>11, <2>2
  <2> QED
    BY <2>1, <2>2
<1> QED
  BY <1>4, <1>9, <1>10, <1>11

(* What malloc_trim gives back is free memory of the arena, whole pages,   *)
(* with no header or link of a list in it.                                 *)
THEOREM TrimSparing == Spec => []TrimSparesData
<1>1. IInv => TrimSparesData
  <2> SUFFICES ASSUME IInv, At("mtrim"), NEW r \in Advised, r.size > 0
               PROVE  /\ r.from % PAGE = 0 /\ r.size % PAGE = 0
                      /\ \A a \in DOMAIN chunk :
                           (r.from..r.from + r.size - 1)
                             \cap (a..a + (IF a \in Binned THEN MALLOC_CHUNK ELSE chunk[a].size) - 1) = {}
    BY DEF TrimSparesData
  <2>1. Good
    BY NoPrograms
  <2>2. PICK p \in InBins : r = advised(p)
    <3>1. DOMAIN av.bins = Bins
      BY <2>1 DEF Good, Types, Arenas
    <3> QED
      BY <3>1 DEF Advised, trimmed_bins, InBins, Elements
  <2>3. r.from % PAGE = 0 /\ r.size % PAGE = 0
    BY <2>1, <2>2, AdvisedIs
  <2> QED
    BY <2>1, <2>2, <2>3, TrimSpares
<1> QED
  BY <1>1, Invariance, PTL

-----------------------------------------------------------------------------
(* What calloc need not clear: the calls                                   *)

Covering(s) == \A i \in DOMAIN s : Covers(s[i])

CallsKeep(s, t) == (Growing(s) => Growing(t)) /\ (Covering(s) => Covering(t))

(* A frame that a function g may go on with.                               *)
Calm(f, g) ==
  (f.at # "calloc_clear" \/ Covers(f)) /\ (g.at \in FreeSteps => f.at \in FreeSteps)

LEMMA Replaced ==
  ASSUME NEW F, NEW s \in Seq(F), s # << >>, NEW fs \in Seq(F), NEW t, t = fs \o Tail(s),
         s[1].at # "carve", \A k \in DOMAIN fs : Calm(fs[k], s[1])
  PROVE  CallsKeep(s, t)
<1>1. PICK n, m : n = Len(fs) /\ m = Len(s)
  OBVIOUS
<1>2. n \in Nat /\ m \in Nat /\ m > 0 /\ DOMAIN s = 1..m /\ DOMAIN fs = 1..n
  BY <1>1
<1>3. DOMAIN t = 1..n + (m - 1)
  BY <1>1
<1>4. \A i \in 1..n : t[i] = fs[i]
  BY <1>1
<1>5. \A i \in 2..m : n + (i - 1) \in DOMAIN t /\ t[n + (i - 1)] = s[i]
  <2>1. TAKE i \in 2..m
  <2>2. Tail(s) \in Seq(F) /\ Len(Tail(s)) = m - 1 /\ Tail(s)[i - 1] = s[i]
    BY <1>1, <2>1
  <2> QED
    BY SMTT(20), <1>1, <1>2, <1>3, <2>1, <2>2
<1>6. \A j \in DOMAIN t : j \in 1..n \/ (j - n + 1 \in 2..m /\ t[j] = s[j - n + 1])
  <2>1. TAKE j \in DOMAIN t
  <2>2. SUFFICES ASSUME j \notin 1..n PROVE j - n + 1 \in 2..m /\ t[j] = s[j - n + 1]
    OBVIOUS
  <2>3. j - n + 1 \in 2..m /\ n + ((j - n + 1) - 1) = j
    BY <1>2, <1>3, <2>1, <2>2
  <2> QED
    BY <1>5, <2>3
<1>7. ASSUME Growing(s)
      PROVE  Growing(t)
  <2>1. PICK i \in DOMAIN s : s[i].at = "carve" /\ \A j \in 1..i - 1 : s[j].at \in FreeSteps
    BY <1>7 DEF Growing
  <2>2. i \in 2..m /\ s[1].at \in FreeSteps
    BY <1>2, <2>1
  <2>3. PICK k : k = n + (i - 1)
    OBVIOUS
  <2>4. k \in DOMAIN t /\ t[k].at = "carve" /\ k \in Nat
    <3>1. n + (i - 1) \in DOMAIN t /\ t[n + (i - 1)] = s[i]
      BY <1>5, <2>2
    <3>2. k \in DOMAIN t /\ t[k] = s[i]
      BY <2>3, <3>1
    <3> QED
      BY <1>3, <2>1, <3>2
  <2>5. ASSUME NEW j \in 1..k - 1
        PROVE  t[j].at \in FreeSteps
    <3>1. j \in DOMAIN t
      BY <1>3, <2>4, <2>5
    <3>2. CASE j \in 1..n
      BY <1>2, <1>4, <2>2, <3>2 DEF Calm
    <3>3. CASE j - n + 1 \in 2..m /\ t[j] = s[j - n + 1]
      <4>1. j - n + 1 \in 1..i - 1
        BY <1>2, <2>2, <2>3, <2>5, <3>3
      <4> QED
        BY <2>1, <3>3, <4>1
    <3> QED
      BY <1>6, <3>1, <3>2, <3>3
  <2> QED
    BY <2>4, <2>5 DEF Growing
<1>8. ASSUME Covering(s)
      PROVE  Covering(t)
  <2>1. ASSUME NEW j \in DOMAIN t
        PROVE  Covers(t[j])
    <3>1. CASE j \in 1..n
      BY <1>2, <1>4, <3>1 DEF Calm, Covers
    <3>2. CASE j - n + 1 \in 2..m /\ t[j] = s[j - n + 1]
      BY <1>2, <1>8, <3>2 DEF Covering
    <3> QED
      BY <1>6, <2>1, <3>1, <3>2
  <2> QED
    BY <2>1 DEF Covering
<1> QED
  BY <1>7, <1>8 DEF CallsKeep

LEMMA CallIs ==
  ASSUME Good, call # << >>
  PROVE  call \in Seq(Frames) /\ op = call[1] /\ Tail(call) \in Seq(Frames)
<1>1. call \in Seq(Frames)
  BY DEF Good, Legal, StackOK
<1> QED
  BY <1>1 DEF op

LEMMA CallsSame ==
  CallsKeep(call, call)
BY DEF CallsKeep

LEMMA Calls0Keep ==
  ASSUME Good, call # << >>, op.at # "carve", call' = Tail(call)
  PROVE  CallsKeep(call, call')
<1>1. call \in Seq(Frames) /\ op = call[1] /\ Tail(call) \in Seq(Frames)
  BY CallIs
<1>2. PICK fs : fs = << >>
  OBVIOUS
<1>3. fs \in Seq(Frames) /\ call' = fs \o Tail(call) /\ DOMAIN fs = {}
  BY <1>1, <1>2
<1> QED
  BY <1>1, <1>3, Replaced

LEMMA Calls1Keep ==
  ASSUME Good, call # << >>, op.at # "carve", NEW g, Calm(g, op), call' = <<g>> \o Tail(call)
  PROVE  CallsKeep(call, call')
<1>1. call \in Seq(Frames) /\ op = call[1] /\ Tail(call) \in Seq(Frames)
  BY CallIs
<1>2. PICK F, fs : F = Frames \cup {g} /\ fs = <<g>>
  OBVIOUS
<1>3. fs \in Seq(F) /\ call \in Seq(F)
  BY <1>1, <1>2
<1>4. \A k \in DOMAIN fs : Calm(fs[k], call[1])
  BY <1>1, <1>2
<1> QED
  BY <1>1, <1>2, <1>3, <1>4, Replaced

LEMMA Calls2Keep ==
  ASSUME Good, call # << >>, op.at # "carve", NEW f, NEW g, Calm(f, op), Calm(g, op),
         call' = <<f, g>> \o Tail(call)
  PROVE  CallsKeep(call, call')
<1>1. call \in Seq(Frames) /\ op = call[1] /\ Tail(call) \in Seq(Frames)
  BY CallIs
<1>2. PICK F, fs : F = Frames \cup {f, g} /\ fs = <<f, g>>
  OBVIOUS
<1>3. fs \in Seq(F) /\ call \in Seq(F)
  BY <1>1, <1>2
<1>4. \A k \in DOMAIN fs : Calm(fs[k], call[1])
  BY <1>1, <1>2
<1> QED
  BY <1>1, <1>2, <1>3, <1>4, Replaced

LEMMA Calls3Keep ==
  ASSUME Good, call # << >>, op.at # "carve", NEW e, NEW f, NEW g, Calm(e, op), Calm(f, op), Calm(g, op),
         call' = <<e, f, g>> \o Tail(call)
  PROVE  CallsKeep(call, call')
<1>1. call \in Seq(Frames) /\ op = call[1] /\ Tail(call) \in Seq(Frames)
  BY CallIs
<1>2. PICK F, fs : F = Frames \cup {e, f, g} /\ fs = <<e, f, g>>
  OBVIOUS
<1>3. fs \in Seq(F) /\ call \in Seq(F)
  BY <1>1, <1>2
<1>4. \A k \in DOMAIN fs : Calm(fs[k], call[1])
  BY <1>1, <1>2
<1> QED
  BY <1>1, <1>2, <1>3, <1>4, Replaced

(* MAYBE_INIT_TCACHE comes first.                                          *)
LEMMA CacheCallsKeep ==
  ASSUME Good, call # << >>, op.at # "carve", op.at \notin FreeSteps, NEW g, g.at # "calloc_clear",
         call' = (init_tcache \o <<g>>) \o Tail(call)
  PROVE  CallsKeep(call, call')
<1>1. call \in Seq(Frames) /\ op = call[1] /\ Tail(call) \in Seq(Frames)
  BY CallIs
<1>2. PICK e, f : /\ e = Frame("int_malloc", request2size(TCACHE_SIZE), NULL, 0)
                  /\ f = Frame("tcache_init", 0, NULL, 0)
  OBVIOUS
<1>3. PICK F, s : F = Frames \cup {e, f, g} /\ s = init_tcache
  OBVIOUS
<1>4. s = << >> \/ s = <<e, f>>
  BY <1>2, <1>3 DEF init_tcache
<1>5. e \in F /\ f \in F /\ g \in F /\ call \in Seq(F)
  BY <1>1, <1>3
<1>6. s \in Seq(F) /\ \A k \in 1..Len(s) : s[k] \in {e, f}
  <2>1. CASE s = << >>
    BY <2>1
  <2>2. CASE s = <<e, f>>
    BY <1>5, <2>2
  <2> QED
    BY <1>4, <2>1, <2>2
<1>7. s \o <<g>> = Append(s, g)
  BY <1>5, <1>6, AppendIsConcat
<1>8. PICK t : t = Append(s, g)
  OBVIOUS
<1>9. t \in Seq(F) /\ \A k \in DOMAIN t : t[k] \in {e, f, g}
  BY <1>5, <1>6, <1>8
<1>10. Calm(e, op) /\ Calm(f, op) /\ Calm(g, op)
  BY <1>2 DEF Calm, Frame
<1>11. \A k \in DOMAIN t : Calm(t[k], call[1])
  BY <1>1, <1>9, <1>10
<1>12. call' = t \o Tail(call) /\ call[1].at # "carve"
  BY <1>1, <1>3, <1>7, <1>8
<1> QED
  BY <1>5, <1>9, <1>11, <1>12, Replaced

-----------------------------------------------------------------------------
(* What calloc need not clear: the arena                                   *)

(* What the arena knows of its memory.                                     *)
SameMemory ==
  /\ av'.contiguous = av.contiguous /\ av'.system_mem = av.system_mem
  /\ av'.max_system_mem = av.max_system_mem /\ mp'.sbrk_base = mp.sbrk_base

(* Top ends where it did.                                                  *)
SameEnd == (av'.top = NULL <=> av.top = NULL) /\ old_end' = old_end

LEMMA AbortKnown ==
  ASSUME Abort
  PROVE  CInv'
<1>1. call' = <<Frame("abort", 0, NULL, 0)>>
  BY DEF Abort
<1>2. At("abort")'
  BY <1>1 DEF At, Frame
<1> QED
  BY <1>2 DEF CInv

(* The numbers that are compared.                                          *)
LEMMA ReachTypes ==
  ASSUME Good
  PROVE  /\ av.system_mem \in Int /\ av.max_system_mem \in Int /\ av.dirty \in Nat /\ mp.sbrk_base \in Nat
         /\ av.contiguous \in BOOLEAN /\ top_size \in Nat /\ av.top \in Nat
         /\ old_end = av.top + top_size /\ (av.top = NULL => top_size = 0)
<1>1. top_size \in Nat /\ av.top \in Nat
  BY TopSize
<1>2. av \in Arenas /\ mp \in Params
  BY DEF Good, Types
<1> QED
  BY <1>1, <1>2 DEF Arenas, Params, old_end, top_size

LEMMA Undisturbed ==
  ASSUME Good, Known, SameMemory, av'.dirty = av.dirty, SameEnd, CallsKeep(call, call')
  PROVE  CInv'
<1> SUFFICES ASSUME av'.contiguous PROVE Reached'
  BY DEF CInv, Known
<1>1. Reached
  BY DEF Known, SameMemory
<1>2. Covering(call) /\ (Growing(call) => Growing(call'))
  BY <1>1 DEF Reached, Covering, CallsKeep
<1>3. \A i \in DOMAIN call' : Covers(call'[i])
  BY <1>2 DEF Covering, CallsKeep
<1>4. /\ av'.top = NULL => mp'.sbrk_base = NULL /\ av'.system_mem = 0 /\ av'.dirty = 0
      /\ av'.top # NULL => old_end' <= mp'.sbrk_base + av'.system_mem
      /\ av'.max_system_mem >= 0
      /\ av'.dirty <= mp'.sbrk_base + av'.max_system_mem
  BY <1>1 DEF Reached, SameMemory, SameEnd
<1>5. av'.system_mem <= av'.max_system_mem \/ Growing(call')
  BY <1>1, <1>2 DEF Reached, SameMemory
<1> QED
  BY <1>3, <1>4, <1>5 DEF Reached

(* The size of top does not change.                                        *)
LEMMA EndSame ==
  ASSUME Good, av'.top = av.top, av.top # NULL => chunk'[av.top].size = chunk[av.top].size
  PROVE  SameEnd
BY DEF SameEnd, old_end, top_size

LEMMA EndSizes ==
  ASSUME Good, av'.top = av.top, SameSizes(chunk, chunk')
  PROVE  SameEnd
<1>1. av.top # NULL => av.top \in DOMAIN chunk
  BY TopSize
<1>2. av.top # NULL => chunk'[av.top].size = chunk[av.top].size
  BY <1>1 DEF SameSizes
<1> QED
  BY <1>2, EndSame

LEMMA EndCut ==
  ASSUME Good, av'.top = av.top, NEW p, p # av.top, NEW n, IsCut(chunk, chunk', p, n)
  PROVE  SameEnd
<1>1. av.top # NULL => av.top \in DOMAIN chunk
  BY TopSize
<1>2. av.top # NULL => chunk'[av.top].size = chunk[av.top].size
  BY <1>1 DEF IsCut
<1> QED
  BY <1>2, EndSame

LEMMA EndKept ==
  ASSUME Good, av'.top = av.top, NEW m, NEW n, NEW X, Keeps(chunk, m, chunk', n, X), av.top \notin X
  PROVE  SameEnd
<1>1. av.top # NULL => av.top \in DOMAIN chunk
  BY TopSize
<1>2. av.top # NULL => chunk'[av.top].size = chunk[av.top].size
  BY <1>1 DEF Keeps
<1> QED
  BY <1>2, EndSame

(* Steps that leave the heap alone.                                        *)
LEMMA HeapUndisturbed ==
  ASSUME Good, Known, UNCHANGED heap, mp'.sbrk_base = mp.sbrk_base, CallsKeep(call, call')
  PROVE  CInv'
<1>1. chunk' = chunk /\ av' = av
  BY DEF heap
<1>2. SameMemory /\ av'.dirty = av.dirty
  BY <1>1 DEF SameMemory
<1>3. SameEnd
  BY <1>1, EndSame
<1> QED
  BY <1>2, <1>3, Undisturbed

(* A free chunk is not top.                                                *)
LEMMA BinnedNotTop ==
  ASSUME Good, NEW p \in InBins \cup InFast \cup OnCall \cup Returned
  PROVE  p # av.top
BY DEF Good, OwnersOK, Parted

-----------------------------------------------------------------------------
(* What calloc need not clear: the steps that leave the heap               *)

HeapStep ==
  \/ UnsortedDone \/ FreeToCache \/ FreeTrim \/ SysmallocMmap \/ SysmallocHeap
  \/ LibcFreeMapped \/ MremapSame \/ MremapMoves \/ MremapFails \/ MappedCopied
  \/ TcacheInit \/ LibcMalloc \/ MallocCached \/ LibcCalloc \/ CallocClear \/ LibcFree \/ FreeCached
  \/ LibcRealloc \/ ReallocElsewhere \/ Done \/ LibcMemalign \/ Mtrim \/ Mallopt \/ Deliver

LEMMA SetOptionBase ==
  ASSUME Good, NEW param, NEW value
  PROVE  set_option(param, value).sbrk_base = mp.sbrk_base
<1>1. mp \in Params
  BY DEF Good, Types
<1> QED
  BY <1>1 DEF set_option, Params

LEMMA HeapStepArena ==
  ASSUME Good, HeapStep
  PROVE  UNCHANGED heap /\ mp'.sbrk_base = mp.sbrk_base
<1>1. mp \in Params
  BY DEF Good, Types
<1>2. CASE SysmallocMmap
  BY <1>1, <1>2 DEF SysmallocMmap, Params, heap
<1>3. CASE LibcFreeMapped
  BY <1>1, <1>3 DEF LibcFreeMapped, unmapped, Params, heap
<1>4. CASE MremapMoves
  BY <1>1, <1>4 DEF MremapMoves, Params, heap
<1>5. CASE MappedCopied
  BY <1>1, <1>5 DEF MappedCopied, unmapped, Params, heap
<1>6. CASE Mallopt
  BY <1>6, SetOptionBase DEF Mallopt, heap
<1>7. CASE UnsortedDone \/ FreeToCache \/ FreeTrim \/ SysmallocHeap
  BY <1>7 DEF UnsortedDone, FreeToCache, FreeTrim, SysmallocHeap, rest, heap
<1>8. CASE MremapSame \/ MremapFails \/ TcacheInit \/ LibcMalloc \/ MallocCached \/ LibcCalloc
  BY <1>8 DEF MremapSame, MremapFails, TcacheInit, LibcMalloc, MallocCached, LibcCalloc, rest, heap
<1>9. CASE CallocClear \/ LibcFree \/ FreeCached \/ LibcRealloc \/ ReallocElsewhere \/ Done
  BY <1>9 DEF CallocClear, LibcFree, FreeCached, LibcRealloc, ReallocElsewhere, Done, rest, heap
<1>10. CASE LibcMemalign \/ Mtrim \/ Deliver
  BY <1>10 DEF LibcMemalign, Mtrim, Deliver, rest, heap
<1> QED
  BY <1>2, <1>3, <1>4, <1>5, <1>6, <1>7, <1>8, <1>9, <1>10 DEF HeapStep

(* The running function is not the one that takes memory from top.         *)
LEMMA NotCarving ==
  ASSUME NEW l, At(l), l # "carve"
  PROVE  call # << >> /\ op.at = l /\ op.at # "carve"
BY DEF At, op

(* It goes on at another label, or returns.                                *)
LEMMA CalmLabel ==
  ASSUME Good, NEW l, At(l), l # "deliver", NEW k, k # "calloc_clear", l \in FreeSteps => k \in FreeSteps,
         NEW g, g = [op EXCEPT !.at = k]
  PROVE  Calm(g, op)
<1>1. op \in Frames /\ op.at = l
  BY Running
<1>2. g.at = k
  BY <1>1 DEF Frames
<1> QED
  BY <1>1, <1>2 DEF Calm

LEMMA GotoKeeps ==
  ASSUME Good, NEW l, At(l), l \notin {"carve", "deliver"}, NEW k, k # "calloc_clear",
         l \in FreeSteps => k \in FreeSteps, Goto(k)
  PROVE  CallsKeep(call, call')
<1>1. PICK g : g = [op EXCEPT !.at = k]
  OBVIOUS
<1>2. Calm(g, op)
  BY <1>1, CalmLabel
<1>3. call' = <<g>> \o Tail(call)
  BY <1>1 DEF Goto, Continue
<1> QED
  BY <1>2, <1>3, NotCarving, Calls1Keep

LEMMA PopKeeps ==
  ASSUME Good, NEW l, At(l), l # "carve", call' = Tail(call)
  PROVE  CallsKeep(call, call')
BY NotCarving, Calls0Keep

(* It calls a function that is none of those that free, and goes on.       *)
LEMMA AsksKeeps ==
  ASSUME Good, NEW l, At(l), l \notin FreeSteps \cup {"carve", "deliver"}, NEW f, f.at # "calloc_clear",
         NEW g, g.at # "calloc_clear", call' = <<f, g>> \o Tail(call)
  PROVE  CallsKeep(call, call')
<1>1. call # << >> /\ op.at = l
  BY NotCarving
<1>2. Calm(f, op) /\ Calm(g, op)
  BY <1>1 DEF Calm
<1> QED
  BY <1>1, <1>2, Calls2Keep

LEMMA CachedKeeps ==
  ASSUME Good, NEW l, At(l), l \notin FreeSteps \cup {"carve", "deliver"}, NEW k, k # "calloc_clear",
         Continue(init_tcache \o <<[op EXCEPT !.at = k]>>)
  PROVE  CallsKeep(call, call')
<1>1. call # << >> /\ op.at = l /\ op \in Frames
  BY Running
<1>2. PICK g : g = [op EXCEPT !.at = k]
  OBVIOUS
<1>3. g.at # "calloc_clear"
  BY <1>1, <1>2 DEF Frames
<1>4. call' = (init_tcache \o <<g>>) \o Tail(call)
  BY <1>2 DEF Continue
<1> QED
  BY <1>1, <1>3, <1>4, CacheCallsKeep

LEMMA HeapStepCalls ==
  ASSUME Good, HeapStep, ~Abort
  PROVE  CallsKeep(call, call')
<1>1. CASE UnsortedDone
  BY <1>1, GotoKeeps, PopKeeps DEF UnsortedDone, Returns, FreeSteps
<1>2. CASE FreeToCache
  BY <1>2, PopKeeps DEF FreeToCache, Return
<1>3. CASE FreeTrim
  BY <1>3, GotoKeeps, PopKeeps DEF FreeTrim, Return, FreeSteps
<1>4. CASE SysmallocMmap
  BY <1>4, PopKeeps DEF SysmallocMmap, Returns
<1>5. CASE SysmallocHeap
  BY <1>5, GotoKeeps DEF SysmallocHeap, FreeSteps
<1>6. CASE LibcFreeMapped
  BY <1>6, PopKeeps DEF LibcFreeMapped, Return
<1>7. CASE MremapSame \/ MremapMoves
  BY <1>7, PopKeeps DEF MremapSame, MremapMoves, AtMremap, Gives
<1>8. CASE MremapFails
  <2>1. At("libc_realloc")
    BY <1>8 DEF MremapFails, AtMremap
  <2>2. CASE Gives(op.p)
    BY <2>1, <2>2, PopKeeps DEF Gives
  <2>3. CASE ~Gives(op.p)
    <3>1. PICK f, g : f = Frame("libc_malloc", op.nb, NULL, 0) /\ g = [op EXCEPT !.at = "mapped_copied"]
      OBVIOUS
    <3>2. call' = <<f, g>> \o Tail(call)
      BY <1>8, <2>3, <3>1 DEF MremapFails, Continue
    <3>3. op \in Frames
      BY <2>1, Running
    <3>4. f.at # "calloc_clear" /\ g.at # "calloc_clear"
      BY <3>1, <3>3 DEF Frame, Frames
    <3> QED
      BY <2>1, <3>2, <3>4, AsksKeeps DEF FreeSteps
  <2> QED
    BY <2>2, <2>3
<1>9. CASE MappedCopied
  BY <1>9, PopKeeps DEF MappedCopied, Return, Gives
<1>10. CASE TcacheInit \/ CallocClear \/ Done \/ Mallopt \/ Deliver
  BY <1>10, PopKeeps DEF TcacheInit, CallocClear, Done, Mallopt, Deliver, Return, Gives
<1>11. CASE LibcMalloc \/ LibcCalloc \/ LibcFree \/ LibcRealloc
  BY <1>11, CachedKeeps DEF LibcMalloc, LibcCalloc, LibcFree, LibcRealloc, FreeSteps
<1>12. CASE MallocCached
  BY <1>12, GotoKeeps, PopKeeps DEF MallocCached, Returns, FreeSteps
<1>13. CASE FreeCached
  <2>1. At("tcache_thread_shutdown")
    BY <1>13 DEF FreeCached
  <2>2. CASE cached_lists = {}
    BY <1>13, <2>1, <2>2, GotoKeeps DEF FreeCached, FreeSteps
  <2>3. CASE cached_lists # {}
    <3>1. PICK f, g : /\ f.at = "libc_free" /\ g = op
                      /\ call' = <<f, g>> \o Tail(call)
      BY <1>13, <2>3 DEF FreeCached, Continue, Frame
    <3>2. f.at # "calloc_clear" /\ g.at # "calloc_clear"
      BY <2>1, <3>1 DEF At, op
    <3> QED
      BY <2>1, <3>1, <3>2, AsksKeeps DEF FreeSteps
  <2> QED
    BY <2>2, <2>3
<1>14. CASE ReallocElsewhere
  <2>1. At("int_realloc")
    BY <1>14 DEF ReallocElsewhere
  <2>2. PICK f, g : /\ f = Frame("int_malloc", moved_size(op.nb), NULL, 0)
                    /\ g = [op EXCEPT !.at = "realloc_copied"]
    OBVIOUS
  <2>3. call' = <<f, g>> \o Tail(call)
    BY <1>14, <2>2 DEF ReallocElsewhere, Continue
  <2>4. op \in Frames
    BY <2>1, Running
  <2>5. f.at # "calloc_clear" /\ g.at # "calloc_clear"
    BY <2>2, <2>4 DEF Frame, Frames
  <2> QED
    BY <2>1, <2>3, <2>5, AsksKeeps DEF FreeSteps
<1>15. CASE LibcMemalign
  <2>1. At("libc_memalign")
    BY <1>15 DEF LibcMemalign
  <2>2. op \in Frames /\ call # << >> /\ op.at = "libc_memalign"
    BY <2>1, Running
  <2>3. CASE op.x <= MALLOC_ALIGNMENT
    <3>1. PICK g : g = [op EXCEPT !.at = "libc_malloc", !.x = 0]
      OBVIOUS
    <3>2. call' = <<g>> \o Tail(call)
      BY <1>15, <2>3, <3>1 DEF LibcMemalign, Continue
    <3>3. Calm(g, op)
      BY <2>2, <3>1 DEF Frames, Calm, FreeSteps
    <3> QED
      BY <2>2, <3>2, <3>3, Calls1Keep
  <2>4. CASE ~(op.x <= MALLOC_ALIGNMENT)
    <3>1. PICK a : a = alignment_for(op.x)
      OBVIOUS
    <3>2. PICK f, g : /\ f = Frame("int_malloc", request2size(op.nb + a + MINSIZE), NULL, 0)
                      /\ g = [op EXCEPT !.at = "memalign_lead", !.x = a]
      OBVIOUS
    <3>3. call' = <<f, g>> \o Tail(call)
      BY <1>15, <2>4, <3>1, <3>2 DEF LibcMemalign, Continue
    <3>4. f.at # "calloc_clear" /\ g.at # "calloc_clear"
      BY <2>2, <3>2 DEF Frame, Frames
    <3> QED
      BY <2>1, <3>3, <3>4, AsksKeeps DEF FreeSteps
  <2> QED
    BY <2>3, <2>4
<1>16. CASE Mtrim
  BY <1>16, GotoKeeps DEF Mtrim, FreeSteps
<1> QED
  BY <1>1, <1>2, <1>3, <1>4, <1>5, <1>6, <1>7, <1>8, <1>9, <1>10, <1>11, <1>12, <1>13, <1>14,
     <1>15, <1>16 DEF HeapStep

LEMMA HeapStepKnown ==
  ASSUME Good, Known, HeapStep
  PROVE  CInv'
BY HeapStepArena, HeapStepCalls, HeapUndisturbed, AbortKnown

-----------------------------------------------------------------------------
(* What calloc need not clear: the steps that leave top                    *)

TopStays == SameMemory /\ av'.dirty = av.dirty /\ av'.top = av.top

LEMMA SizesUndisturbed ==
  ASSUME Good, Known, SameSizes(chunk, chunk'), TopStays, CallsKeep(call, call')
  PROVE  CInv'
BY EndSizes, Undisturbed DEF TopStays

LEMMA CutUndisturbed ==
  ASSUME Good, Known, NEW p, p # av.top, NEW n, IsCut(chunk, chunk', p, n), TopStays,
         CallsKeep(call, call')
  PROVE  CInv'
BY EndCut, Undisturbed DEF TopStays

LEMMA KeptUndisturbed ==
  ASSUME Good, Known, NEW m, NEW n, NEW X, Keeps(chunk, m, chunk', n, X), av.top \notin X, TopStays,
         CallsKeep(call, call')
  PROVE  CInv'
BY EndKept, Undisturbed DEF TopStays

LEMMA ChunksUndisturbed ==
  ASSUME Good, Known, chunk' = chunk, TopStays, CallsKeep(call, call')
  PROVE  CInv'
BY EndSame, Undisturbed DEF TopStays

LEMMA IntMallocFastKnown ==
  ASSUME Good, Known, IntMallocFast
  PROVE  CInv'
<1>1. av \in Arenas /\ At("int_malloc") /\ chunk' = chunk /\ mp' = mp
  BY DEF Good, Types, IntMallocFast, rest
<1>2. Abort \/ (TopStays /\ call' = Tail(call))
  BY <1>1 DEF IntMallocFast, Returns, TopStays, SameMemory, Arenas
<1> QED
  BY <1>1, <1>2, AbortKnown, PopKeeps, ChunksUndisturbed

LEMMA IntMallocSmallKnown ==
  ASSUME Good, Known, IntMallocSmall
  PROVE  CInv'
<1>1. av \in Arenas /\ At("int_malloc") /\ mp' = mp /\ Heads(chunk)
  BY PartsOf DEF Good, Types, IntMallocSmall, rest
<1>2. TopStays /\ call' = Tail(call)
  BY <1>1 DEF IntMallocSmall, Returns, TopStays, SameMemory, Arenas
<1>3. SameSizes(chunk, chunk')
  BY <1>1, InuseBits DEF IntMallocSmall
<1> QED
  BY <1>1, <1>2, <1>3, PopKeeps, SizesUndisturbed

LEMMA IntMallocOtherKnown ==
  ASSUME Good, Known, IntMallocOther
  PROVE  CInv'
<1>1. av \in Arenas /\ At("int_malloc") /\ mp' = mp /\ chunk' = chunk /\ op \in Frames
  BY Running DEF Good, Types, IntMallocOther, rest
<1>2. TopStays
  BY <1>1 DEF IntMallocOther, consolidating, TopStays, SameMemory, Arenas
<1>3. PICK g : g = [op EXCEPT !.at = "unsorted"]
  OBVIOUS
<1>4. g.at # "calloc_clear" /\ consolidate.at # "calloc_clear"
  BY <1>1, <1>3 DEF Frames, consolidate, Frame
<1>5. call' = <<consolidate, g>> \o Tail(call) \/ call' = <<g>> \o Tail(call)
  BY <1>3 DEF IntMallocOther, Continue
<1>6. CallsKeep(call, call')
  <2>1. call # << >> /\ op.at = "int_malloc"
    BY <1>1, NotCarving
  <2>2. Calm(g, op)
    BY <1>4, <2>1 DEF Calm, FreeSteps
  <2> QED
    BY <1>1, <1>4, <1>5, <2>1, <2>2, AsksKeeps, Calls1Keep DEF FreeSteps
<1> QED
  BY <1>1, <1>2, <1>6, ChunksUndisturbed

LEMMA SplitLastRemainderKnown ==
  ASSUME Good, Known, SplitLastRemainder
  PROVE  CInv'
<1>1. /\ av \in Arenas /\ At("unsorted") /\ mp' = mp /\ chunk' = split(chunk, oldest, op.nb)
      /\ splits_last_remainder /\ av.bins[Unsorted] # << >>
  BY DEF Good, Types, SplitLastRemainder, AtUnsorted, rest
<1>2. TopStays /\ call' = Tail(call)
  BY <1>1 DEF SplitLastRemainder, Returns, TopStays, SameMemory, Arenas
<1>3. oldest \in InBins
  BY <1>1, OldestLeaves
<1>4. oldest \in DOMAIN chunk /\ oldest # av.top /\ Aligned(chunk[oldest].size)
  BY <1>3, Listed, BinnedNotTop
<1>5. op.nb \in Nat /\ Aligned(op.nb)
  BY <1>1, MallocOp DEF Mallocs
<1>6. op.nb > 0 /\ op.nb < chunk[oldest].size
  BY <1>1, <1>4, <1>5, Units DEF Aligned, splits_last_remainder
<1>7. IsCut(chunk, chunk', oldest, op.nb)
  BY <1>1, <1>4, <1>5, <1>6, PartsOf, SplitCuts
<1> QED
  BY <1>1, <1>2, <1>4, <1>7, PopKeeps, CutUndisturbed

LEMMA TakeExactKnown ==
  ASSUME Good, Known, TakeExact
  PROVE  CInv'
<1>1. /\ av \in Arenas /\ At("unsorted") /\ mp' = mp /\ Heads(chunk)
      /\ chunk' = set_inuse_bit_at(chunk, next_chunk(oldest))
  BY PartsOf DEF Good, Types, TakeExact, AtUnsorted, rest
<1>2. TopStays
  BY <1>1 DEF TakeExact, TopStays, SameMemory, Arenas
<1>3. SameSizes(chunk, chunk')
  BY <1>1, InuseBit
<1>4. CallsKeep(call, call')
  <2>1. op \in Frames /\ call # << >> /\ op.at = "unsorted"
    BY <1>1, Running
  <2>2. PICK g : g = [op EXCEPT !.x = 1]
    OBVIOUS
  <2>3. Calm(g, op)
    BY <2>1, <2>2 DEF Frames, Calm
  <2>4. call' = <<g>> \o Tail(call) \/ call' = Tail(call)
    BY <2>2 DEF TakeExact, Continue, Returns
  <2> QED
    BY <1>1, <2>1, <2>3, <2>4, PopKeeps, Calls1Keep
<1> QED
  BY <1>2, <1>3, <1>4, SizesUndisturbed

LEMMA SortIntoBinKnown ==
  ASSUME Good, Known, SortIntoBin
  PROVE  CInv'
<1>1. av \in Arenas /\ mp' = mp /\ chunk' = chunk
  BY DEF Good, Types, SortIntoBin, rest
<1>2. Abort \/ (TopStays /\ call' = call)
  BY <1>1 DEF SortIntoBin, TopStays, SameMemory, Arenas
<1> QED
  BY <1>1, <1>2, AbortKnown, CallsSame, ChunksUndisturbed

LEMMA TakesKnown ==
  ASSUME Good, Known, At("search"), NEW v, NEW b, NEW remember, Takes(v, op.nb, b, remember),
         mp' = mp
  PROVE  CInv'
<1>1. av \in Arenas
  BY DEF Good, Types
<1>2. SUFFICES ASSUME unlink_ok(v), ~(chunk[v].size < op.nb) PROVE CInv'
  BY AbortKnown DEF Takes
<1>3. v \in InBins
  BY <1>2, UnlinkedLeaves DEF unlink_ok, LeavesBins
<1>4. v \in DOMAIN chunk /\ v # av.top /\ Aligned(chunk[v].size)
  BY <1>3, Listed, BinnedNotTop
<1>5. op.nb \in Nat /\ Aligned(op.nb)
  BY MallocOp DEF Mallocs
<1>6. TopStays /\ call' = Tail(call)
  BY <1>1, <1>2 DEF Takes, Returns, TopStays, SameMemory, Arenas
<1>7. CallsKeep(call, call')
  BY <1>6, PopKeeps
<1>8. CASE exhausts(v, op.nb)
  <2>1. chunk' = set_inuse_bit_at(chunk, next_chunk(v))
    BY <1>2, <1>8 DEF Takes
  <2>2. SameSizes(chunk, chunk')
    BY <2>1, PartsOf, InuseBit
  <2> QED
    BY <1>6, <1>7, <2>2, SizesUndisturbed
<1>9. CASE ~exhausts(v, op.nb)
  <2>1. chunk' = split(chunk, v, op.nb)
    BY <1>2, <1>9 DEF Takes
  <2>2. op.nb > 0 /\ op.nb < chunk[v].size
    BY <1>4, <1>5, <1>9, Units DEF Aligned, exhausts
  <2>3. IsCut(chunk, chunk', v, op.nb)
    BY <1>4, <1>5, <2>1, <2>2, PartsOf, SplitCuts
  <2> QED
    BY <1>4, <1>6, <1>7, <2>3, CutUndisturbed
<1> QED
  BY <1>8, <1>9

LEMMA SearchOwnKnown ==
  ASSUME Good, Known, SearchOwn
  PROVE  CInv'
BY TakesKnown DEF SearchOwn, rest

LEMMA SearchBinsKnown ==
  ASSUME Good, Known, SearchBins
  PROVE  CInv'
BY TakesKnown DEF SearchBins, rest

LEMMA FreeFastKnown ==
  ASSUME Good, Known, FreeFast
  PROVE  CInv'
<1>1. av \in Arenas /\ At("int_free") /\ mp' = mp /\ chunk' = chunk
  BY DEF Good, Types, FreeFast, rest
<1>2. Abort \/ (TopStays /\ call' = Tail(call))
  BY <1>1 DEF FreeFast, fast_free, Return, TopStays, SameMemory, Arenas
<1> QED
  BY <1>1, <1>2, AbortKnown, PopKeeps, ChunksUndisturbed

LEMMA NoMoreKnown ==
  ASSUME Good, Known, NoMore
  PROVE  CInv'
<1>1. At("morecore") /\ UNCHANGED heap /\ mp' = mp /\ Goto("carve")
  BY DEF NoMore, rest
<1> QED
  BY <1>1, GotoKeeps, HeapUndisturbed DEF FreeSteps

-----------------------------------------------------------------------------
(* What calloc need not clear: the steps that use top                      *)

(* calloc is told to clear up to where the memory has been used.           *)
LEMMA CallocMallocKnown ==
  ASSUME Good, Known, CallocMalloc
  PROVE  CInv'
<1>1. /\ At("calloc") /\ UNCHANGED heap /\ mp' = mp /\ call # << >> /\ op.at = "calloc"
      /\ op \in Frames
  BY Running DEF CallocMalloc, rest
<1>2. SUFFICES ASSUME Reached PROVE CInv'
  BY <1>1 DEF Known, CInv, heap
<1>3. PICK f, g : /\ f = [op EXCEPT !.at = "int_malloc"]
                  /\ g = Frame("calloc_clear", av.dirty, av.top, old_top_size)
  OBVIOUS
<1>4. call' = <<f, g>> \o Tail(call)
  BY <1>3 DEF CallocMalloc, Continue
<1>5. Calm(f, op)
  BY <1>1, <1>3 DEF Frames, Calm, FreeSteps
<1>6. Covers(g)
  <2>1. PICK most : most = mp.sbrk_base + av.max_system_mem - av.top
    OBVIOUS
  <2>2. old_top_size = IF top_size < most \/ most < 0 THEN most ELSE top_size
    BY <2>1 DEF old_top_size
  <2>3. av.dirty <= mp.sbrk_base + av.max_system_mem
    BY <1>2 DEF Reached
  <2>4. old_top_size >= 0 => av.top + old_top_size >= av.dirty
    BY <2>1, <2>2, <2>3, ReachTypes
  <2> QED
    BY <1>3, <2>4 DEF Covers, Frame
<1>7. Calm(g, op)
  BY <1>1, <1>6 DEF Calm, FreeSteps
<1>8. CallsKeep(call, call')
  BY <1>1, <1>4, <1>5, <1>7, Calls2Keep
<1> QED
  BY <1>1, <1>8, HeapUndisturbed

LEMMA NotGrowing ==
  ASSUME Good, call # << >>, op.at \notin FreeSteps \cup {"carve"}
  PROVE  ~Growing(call)
<1>1. call \in Seq(Frames) /\ op = call[1]
  BY CallIs
<1> QED
  BY <1>1 DEF Growing

LEMMA TailCovers ==
  ASSUME Good, call # << >>, Covering(call)
  PROVE  Covering(Tail(call))
<1>1. call \in Seq(Frames) /\ Tail(call) \in Seq(Frames)
  BY CallIs
<1>2. \A i \in DOMAIN Tail(call) : i + 1 \in DOMAIN call /\ Tail(call)[i] = call[i + 1]
  BY <1>1
<1> QED
  BY <1>2 DEF Covering

(* Top is used up to where it ends at most.                                *)
LEMMA TopUsed ==
  ASSUME Good, Known, SameEnd, av'.contiguous = av.contiguous, av'.system_mem = av.system_mem,
         mp'.sbrk_base = mp.sbrk_base, av'.dirty \in Nat,
         av'.dirty = av.dirty \/ (av.top # NULL /\ av'.dirty <= old_end),
         av'.max_system_mem \in Int, av'.max_system_mem >= av.max_system_mem,
         av'.max_system_mem >= av.system_mem \/ ~Growing(call),
         Covering(call) => Covering(call')
  PROVE  CInv'
<1> SUFFICES ASSUME av'.contiguous PROVE Reached'
  BY DEF CInv, Known
<1>1. Reached
  BY DEF Known
<1>2. \A i \in DOMAIN call' : Covers(call'[i])
  BY <1>1 DEF Reached, Covering
<1>3. av.system_mem <= av'.max_system_mem /\ av.max_system_mem >= 0
  BY <1>1, ReachTypes DEF Reached
<1>4. av'.top = NULL => mp'.sbrk_base = NULL /\ av'.system_mem = 0 /\ av'.dirty = 0
  BY <1>1 DEF Reached, SameEnd
<1>5. av'.top # NULL => old_end' <= mp'.sbrk_base + av'.system_mem
  BY <1>1 DEF Reached, SameEnd
<1>6. av'.dirty <= mp'.sbrk_base + av'.max_system_mem
  <2>1. old_end \in Int
    BY ReachTypes
  <2>2. av.dirty <= mp.sbrk_base + av.max_system_mem
    BY <1>1 DEF Reached
  <2>3. av.top # NULL => old_end <= mp.sbrk_base + av.system_mem
    BY <1>1 DEF Reached
  <2> QED
    BY <1>3, <2>1, <2>2, <2>3, ReachTypes
<1>7. av'.max_system_mem >= 0 /\ av'.system_mem <= av'.max_system_mem
  BY <1>3, ReachTypes
<1> QED
  BY <1>2, <1>4, <1>5, <1>6, <1>7 DEF Reached

(* Where top ends, after n words of it have been taken.                    *)
LEMMA FromTopEnds ==
  ASSUME Good, NEW n \in Nat, n > 0, top_size >= n + MINSIZE, IsCut(chunk, chunk', av.top, n),
         NEW a \in Arenas, av' = top_moves(a, av.top + n)
  PROVE  /\ SameEnd /\ av'.contiguous = a.contiguous /\ av'.system_mem = a.system_mem
         /\ av'.max_system_mem = a.max_system_mem /\ av'.dirty \in Nat
         /\ av'.dirty = a.dirty \/ (av.top # NULL /\ av'.dirty <= old_end)
<1>1. /\ top_size \in Nat /\ av.top \in Nat /\ old_end = av.top + top_size
      /\ (av.top = NULL => top_size = 0)
  BY ReachTypes
<1>2. av.top # NULL /\ av.top > 0 /\ n + CHUNK_HDR_SZ <= top_size /\ CHUNK_HDR_SZ \in Nat
  BY <1>1, Units DEF NULL
<1>3. PICK q : q = av.top + n
  OBVIOUS
<1>4. q \in Nat /\ q # NULL
  BY <1>1, <1>2, <1>3 DEF NULL
<1>5. av'.top = q /\ chunk'[q].size = top_size - n
  BY <1>2, <1>3, TopSize DEF IsCut, top_moves, Arenas
<1>6. top_size' = top_size - n
  BY <1>4, <1>5 DEF top_size
<1>7. old_end' = q + (top_size - n)
  BY <1>5, <1>6 DEF old_end
<1>8. SameEnd
  BY <1>1, <1>2, <1>3, <1>4, <1>5, <1>7 DEF SameEnd
<1>9. /\ av'.contiguous = a.contiguous /\ av'.system_mem = a.system_mem
      /\ av'.max_system_mem = a.max_system_mem
  BY DEF top_moves, Arenas
<1>10. av'.dirty \in {a.dirty, q + CHUNK_HDR_SZ} /\ a.dirty \in Nat
  BY <1>3 DEF top_moves, Arenas
<1> QED
  BY <1>1, <1>2, <1>3, <1>4, <1>8, <1>9, <1>10

LEMMA FromTopCuts ==
  ASSUME Good, NEW n \in Nat, n > 0, top_size >= n + MINSIZE, NEW a, FromTop(n, a)
  PROVE  IsCut(chunk, chunk', av.top, n)
<1>1. av.top # NULL
  BY ReachTypes, Units
<1>2. av.top \in DOMAIN chunk /\ chunk[av.top].size = top_size /\ top_size \in Nat
  BY <1>1, TopSize
<1>3. PICK z : z = top_size - n
  OBVIOUS
<1>4. z \in Nat /\ z > 0
  BY <1>2, <1>3, Units
<1>5. chunk' = With(With(chunk, av.top + n, Head2(z)), av.top, Head2(n))
  BY <1>3 DEF FromTop
<1> QED
  BY <1>2, <1>3, <1>4, <1>5, PartsOf, TwoHeads

LEMMA UseTopKnown ==
  ASSUME Good, Known, UseTop
  PROVE  CInv'
<1>1. /\ av \in Arenas /\ At("search") /\ mp' = mp /\ call # << >> /\ op.at = "search"
      /\ op \in Frames
  BY Running DEF Good, Types, UseTop, rest
<1>2. op.nb \in Nat /\ Aligned(op.nb) /\ op.nb > 0
  BY <1>1, MallocOp, Units DEF Mallocs, Aligned
<1>3. PICK a : a = [av EXCEPT !.binmap = @ \ seen_empty(op.nb)]
  OBVIOUS
<1>4. /\ a \in Arenas /\ a.top = av.top /\ a.contiguous = av.contiguous /\ a.system_mem = av.system_mem
      /\ a.max_system_mem = av.max_system_mem /\ a.dirty = av.dirty
  BY <1>1, <1>3 DEF Arenas
<1>5. CASE top_size > av.system_mem
  BY <1>5, AbortKnown DEF UseTop
<1>6. CASE ~(top_size > av.system_mem) /\ top_serves(op.nb)
  <2>1. FromTop(op.nb, a)
    BY <1>3, <1>6 DEF UseTop
  <2>2. top_size >= op.nb + MINSIZE
    BY <1>6 DEF top_serves
  <2>3. IsCut(chunk, chunk', av.top, op.nb)
    BY <1>2, <2>1, <2>2, FromTopCuts
  <2>4. av' = top_moves(a, av.top + op.nb) /\ call' = Tail(call)
    BY <2>1 DEF FromTop, Returns
  <2>5. /\ SameEnd /\ av'.contiguous = a.contiguous /\ av'.system_mem = a.system_mem
        /\ av'.max_system_mem = a.max_system_mem /\ av'.dirty \in Nat
        /\ av'.dirty = a.dirty \/ (av.top # NULL /\ av'.dirty <= old_end)
    BY <1>2, <1>4, <2>2, <2>3, <2>4, FromTopEnds
  <2>6. ~Growing(call)
    BY <1>1, NotGrowing DEF FreeSteps
  <2>7. Covering(call) => Covering(call')
    BY <1>1, <2>4, TailCovers
  <2> QED
    BY <1>1, <1>4, <2>5, <2>6, <2>7, ReachTypes, TopUsed
<1>7. CASE ~(top_size > av.system_mem) /\ ~top_serves(op.nb)
  <2>1. chunk' = chunk /\ (av' = a \/ av' = consolidating(a))
    BY <1>3, <1>7 DEF UseTop
  <2>2. TopStays
    BY <1>1, <1>4, <2>1 DEF consolidating, TopStays, SameMemory, Arenas
  <2>3. PICK g : g = [op EXCEPT !.at = "unsorted"]
    OBVIOUS
  <2>4. call' = <<consolidate, g>> \o Tail(call) \/ Goto("sysmalloc")
    BY <1>3, <1>7, <2>3 DEF UseTop, Continue
  <2>5. g.at # "calloc_clear" /\ consolidate.at # "calloc_clear"
    BY <1>1, <2>3 DEF Frames, consolidate, Frame
  <2>6. CallsKeep(call, call')
    BY <1>1, <2>4, <2>5, AsksKeeps, GotoKeeps DEF FreeSteps
  <2> QED
    BY <2>1, <2>2, <2>6, ChunksUndisturbed
<1> QED
  BY <1>5, <1>6, <1>7

LEMMA CarveKnown ==
  ASSUME Good, Known, Carve
  PROVE  CInv'
<1>1. /\ av \in Arenas /\ At("carve") /\ mp' = mp /\ call # << >> /\ op.at = "carve"
  BY Running DEF Good, Types, Carve, rest
<1>2. op.nb \in Nat /\ Aligned(op.nb) /\ op.nb > 0
  BY <1>1, MallocOp, Units DEF Mallocs, Aligned
<1>3. PICK a : a = [av EXCEPT !.max_system_mem = IF av.system_mem > @ THEN av.system_mem ELSE @]
  OBVIOUS
<1>4. /\ a \in Arenas /\ a.top = av.top /\ a.contiguous = av.contiguous /\ a.system_mem = av.system_mem
      /\ a.dirty = av.dirty /\ a.max_system_mem \in Int
      /\ a.max_system_mem >= av.max_system_mem /\ a.max_system_mem >= av.system_mem
  <2>1. PICK m : m = IF av.system_mem > av.max_system_mem THEN av.system_mem ELSE av.max_system_mem
    OBVIOUS
  <2>2. m \in Int /\ m >= av.max_system_mem /\ m >= av.system_mem
    BY <2>1, ReachTypes
  <2>3. a = [av EXCEPT !.max_system_mem = m]
    BY <1>3, <2>1
  <2> QED
    BY <1>1, <2>2, <2>3 DEF Arenas
<1>5. CASE top_serves(op.nb)
  <2>1. FromTop(op.nb, a)
    BY <1>3, <1>5 DEF Carve
  <2>2. top_size >= op.nb + MINSIZE
    BY <1>5 DEF top_serves
  <2>3. IsCut(chunk, chunk', av.top, op.nb)
    BY <1>2, <2>1, <2>2, FromTopCuts
  <2>4. av' = top_moves(a, av.top + op.nb) /\ call' = Tail(call)
    BY <2>1 DEF FromTop, Returns
  <2>5. /\ SameEnd /\ av'.contiguous = a.contiguous /\ av'.system_mem = a.system_mem
        /\ av'.max_system_mem = a.max_system_mem /\ av'.dirty \in Nat
        /\ av'.dirty = a.dirty \/ (av.top # NULL /\ av'.dirty <= old_end)
    BY <1>2, <1>4, <2>2, <2>3, <2>4, FromTopEnds
  <2>6. Covering(call) => Covering(call')
    BY <1>1, <2>4, TailCovers
  <2> QED
    BY <1>1, <1>4, <2>5, <2>6, TopUsed
<1>6. CASE ~top_serves(op.nb)
  <2>1. chunk' = chunk /\ av' = a /\ call' = Tail(call)
    BY <1>3, <1>6 DEF Carve, Return
  <2>2. SameEnd
    BY <1>4, <2>1, EndSame
  <2>3. Covering(call) => Covering(call')
    BY <1>1, <2>1, TailCovers
  <2> QED
    BY <1>1, <1>4, <2>1, <2>2, <2>3, ReachTypes, TopUsed
<1> QED
  BY <1>5, <1>6

-----------------------------------------------------------------------------
(* What calloc need not clear: realloc and memalign                        *)

(* Top has moved to q, and still ends where it did.                        *)
LEMMA TopMovesEnds ==
  ASSUME Good, av.top # NULL, NEW q \in Nat, q # NULL, NEW a \in Arenas, av' = top_moves(a, q),
         chunk'[q].size \in Nat, chunk'[q].size >= CHUNK_HDR_SZ, q + chunk'[q].size = old_end
  PROVE  /\ SameEnd /\ av'.contiguous = a.contiguous /\ av'.system_mem = a.system_mem
         /\ av'.max_system_mem = a.max_system_mem /\ av'.dirty \in Nat
         /\ av'.dirty = a.dirty \/ (av.top # NULL /\ av'.dirty <= old_end)
<1>1. CHUNK_HDR_SZ \in Nat
  BY Units
<1>2. av'.top = q
  BY DEF top_moves, Arenas
<1>3. old_end' = q + chunk'[q].size
  BY <1>2 DEF old_end, top_size
<1>4. SameEnd
  BY <1>2, <1>3 DEF SameEnd
<1>5. /\ av'.contiguous = a.contiguous /\ av'.system_mem = a.system_mem
      /\ av'.max_system_mem = a.max_system_mem
  BY DEF top_moves, Arenas
<1>6. av'.dirty \in {a.dirty, q + CHUNK_HDR_SZ} /\ a.dirty \in Nat
  BY DEF top_moves, Arenas
<1> QED
  BY <1>1, <1>4, <1>5, <1>6

LEMMA ReallocIntoTopKnown ==
  ASSUME Good, Known, ReallocIntoTop
  PROVE  CInv'
<1>1. At("int_realloc") /\ call # << >> /\ op.at = "int_realloc" /\ mp' = mp /\ av \in Arenas
  BY NotCarving DEF ReallocIntoTop, AtRealloc, rest, Good, Types
<1>2. PICK p, size, nb, t : p = op.p /\ size = size_with_next(p) /\ nb = op.nb /\ t = p + nb
  OBVIOUS
<1>3. /\ p \in DOMAIN chunk /\ p \in Nat /\ next_chunk(p) \in DOMAIN chunk
      /\ chunk[p].size \in Nat /\ nb \in Nat
  BY <1>1, <1>2, OpChunk
<1>4. /\ av.top = next_chunk(p) /\ av.top = p + chunk[p].size /\ size = chunk[p].size + chunk[av.top].size
      /\ size >= nb + MINSIZE /\ chunk[p].size < nb
  BY <1>2 DEF ReallocIntoTop, grows_into_top, size_with_next, next_chunk
<1>5. av.top # NULL /\ chunk[av.top].size = top_size /\ top_size \in Nat
  BY <1>3, <1>4, PartsOf, LaidTypes, TopSize DEF NULL
<1>6. /\ chunk' = With([Without(chunk, {av.top}) EXCEPT ![p].size = nb], t, Head2(size - nb))
      /\ av' = top_moves(av, t) /\ call' = Tail(call)
  BY <1>2 DEF ReallocIntoTop, Gives
<1>7. chunk'[t].size = size - nb
  BY <1>6 DEF With, Head2
<1>8. t \in Nat /\ t # NULL /\ size - nb \in Nat /\ size - nb >= CHUNK_HDR_SZ /\ t + (size - nb) = old_end
  <2>1. PICK k, m, s : k = chunk[p].size /\ m = top_size /\ s = SIZE_SZ
    OBVIOUS
  <2>2. /\ s \in Nat \ {0} /\ k \in Nat /\ m \in Nat /\ size = k + m /\ av.top = p + k /\ k < nb
        /\ size >= nb + 4 * s /\ CHUNK_HDR_SZ = 2 * s
    BY <1>3, <1>4, <1>5, <2>1, Units
  <2>3. old_end = av.top + m
    BY <2>1 DEF old_end
  <2> QED
    BY <1>2, <1>3, <2>2, <2>3 DEF NULL
<1>9. /\ SameEnd /\ av'.contiguous = av.contiguous /\ av'.system_mem = av.system_mem
      /\ av'.max_system_mem = av.max_system_mem /\ av'.dirty \in Nat
      /\ av'.dirty = av.dirty \/ (av.top # NULL /\ av'.dirty <= old_end)
  BY <1>1, <1>5, <1>6, <1>7, <1>8, TopMovesEnds
<1>10. ~Growing(call)
  BY <1>1, NotGrowing DEF FreeSteps
<1>11. Covering(call) => Covering(call')
  BY <1>1, <1>6, TailCovers
<1> QED
  BY <1>1, <1>9, <1>10, <1>11, ReachTypes, TopUsed

(* A chunk is given a size, and what is left of it is freed.               *)
LEMMA ResizedElse ==
  ASSUME NEW c, Heads(c), NEW p \in DOMAIN c, NEW size, Resized(c, p, size),
         NEW t \in DOMAIN c, t # p, size - op.nb >= MINSIZE => t # p + op.nb,
         op.nb \in Nat, size \in Nat, MINSIZE \in Nat
  PROVE  chunk'[t].size = c[t].size
<1>1. PICK d : d = set_inuse_bit_at(c, p + size)
  OBVIOUS
<1>2. SameSizes(c, d)
  BY <1>1, InuseBit
<1>3. d[t].size = c[t].size /\ DOMAIN d = DOMAIN c
  BY <1>2 DEF SameSizes
<1>4. CASE size - op.nb < MINSIZE
  <2>1. chunk' = [d EXCEPT ![p].size = size]
    BY <1>1, <1>4 DEF Resized
  <2> QED
    BY <1>3, <2>1
<1>5. CASE ~(size - op.nb < MINSIZE)
  <2>1. chunk' = With([d EXCEPT ![p].size = op.nb], p + op.nb, Head2(size - op.nb))
    BY <1>1, <1>5 DEF Resized
  <2>2. t # p + op.nb
    BY <1>5
  <2> QED
    BY <1>3, <2>1, <2>2 DEF With
<1> QED
  BY <1>4, <1>5

LEMMA ResizedCalls ==
  ASSUME Good, NEW l, At(l), l \in Reallocs, NEW c, NEW p, NEW size, Resized(c, p, size)
  PROVE  CallsKeep(call, call')
<1>1. PICK f, g : f = Frame("int_free", 0, p + op.nb, 0) /\ g = done(p)
  OBVIOUS
<1>2. call' = Tail(call) \/ call' = <<f, g>> \o Tail(call)
  BY <1>1 DEF Resized, Gives, Continue
<1>3. f.at # "calloc_clear" /\ g.at # "calloc_clear"
  BY <1>1 DEF Frame, done
<1> QED
  BY <1>2, <1>3, PopKeeps, AsksKeeps DEF Reallocs, FreeSteps

LEMMA NoBoundary ==
  ASSUME Good, NEW p \in DOMAIN chunk, NEW n \in Nat, n > 0, n < chunk[p].size
  PROVE  p + n # av.top /\ p + n # NULL
<1>1. p + n \notin DOMAIN chunk /\ p + n > 0
  BY PartsOf, Inside
<1> QED
  BY <1>1, TopSize DEF NULL

LEMMA ReallocShrinksKnown ==
  ASSUME Good, Known, ReallocShrinks
  PROVE  CInv'
<1>1. At("int_realloc") /\ call # << >> /\ op.at = "int_realloc" /\ mp' = mp /\ av' = av
  BY NotCarving DEF ReallocShrinks, AtRealloc, rest
<1>2. PICK p, size : p = op.p /\ size = chunk[p].size
  OBVIOUS
<1>3. p \in DOMAIN chunk /\ p # av.top /\ size \in Nat /\ op.nb \in Nat /\ op.at \in Reallocs \cup Memaligns
  BY <1>1, <1>2, OpChunk
<1>4. Resized(chunk, p, size) /\ Heads(chunk)
  BY <1>2, PartsOf DEF ReallocShrinks
<1>5. op.nb > 0 /\ MINSIZE \in Nat /\ MINSIZE > 0
  BY <1>1, <1>3, CallOp, Units DEF Aligned
<1>6. size - op.nb >= MINSIZE => p + op.nb # av.top
  BY <1>2, <1>3, <1>5, NoBoundary
<1>7. av.top # NULL => chunk'[av.top].size = chunk[av.top].size
  BY <1>3, <1>4, <1>5, <1>6, TopSize, ResizedElse
<1>8. SameEnd /\ SameMemory
  BY <1>1, <1>7, EndSame DEF SameMemory
<1>9. CallsKeep(call, call')
  BY <1>1, <1>4, ResizedCalls DEF Reallocs
<1> QED
  BY <1>1, <1>8, <1>9, Undisturbed

LEMMA GrowsKnown ==
  ASSUME Good, Known, NEW l \in {"int_realloc", "realloc_copied"}, At(l), NEW p, p = op.p,
         NEW q, q = next_chunk(p), q # av.top, chunk[p].size < op.nb,
         NEW size, size = chunk[p].size + chunk[q].size, Resized(Without(chunk, {q}), p, size), TopStays
  PROVE  CInv'
<1>1. call # << >> /\ op.at = l /\ op.at \in {"int_realloc", "realloc_copied", "memalign_tail"}
  BY NotCarving
<1>2. /\ p \in DOMAIN chunk /\ p \in Nat /\ q \in DOMAIN chunk /\ p # av.top
      /\ chunk[p].size \in Nat /\ op.nb \in Nat
  BY <1>1, OpChunk
<1>3. Laid(chunk) /\ Heads(chunk) /\ q \in Nat /\ chunk[q].size \in Nat /\ chunk[p].size > 0
  <2>1. Laid(chunk) /\ Heads(chunk)
    BY PartsOf
  <2> QED
    BY <1>2, <2>1, LaidTypes, Units
<1>4. CanJoin(chunk, p, q) /\ p # q
  BY <1>2, <1>3 DEF CanJoin, next_chunk
<1>5. PICK c : c = Without(chunk, {q})
  OBVIOUS
<1>6. Heads(c) /\ DOMAIN c = DOMAIN chunk \ {q} /\ \A a \in DOMAIN c : c[a] = chunk[a]
  BY <1>3, <1>5, HeadsWithout DEF Without
<1>7. MINSIZE \in Nat /\ MINSIZE > 0 /\ size \in Nat
  BY <1>2, <1>3, Units
<1>8. size - op.nb >= MINSIZE => p + op.nb \notin DOMAIN chunk
  BY <1>2, <1>4, <1>7, InNext
<1>9. av.top # NULL => chunk'[av.top].size = chunk[av.top].size
  <2>1. SUFFICES ASSUME av.top # NULL PROVE chunk'[av.top].size = chunk[av.top].size
    OBVIOUS
  <2>2. av.top \in DOMAIN c /\ av.top \in DOMAIN chunk
    BY <1>6, <2>1, TopSize
  <2>3. size - op.nb >= MINSIZE => av.top # p + op.nb
    BY <1>8, <2>2
  <2>4. Resized(c, p, size) /\ p \in DOMAIN c
    BY <1>2, <1>4, <1>5, <1>6
  <2>5. chunk'[av.top].size = c[av.top].size
    BY <1>2, <1>6, <1>7, <2>2, <2>3, <2>4, ResizedElse
  <2> QED
    BY <1>6, <2>2, <2>5
<1>10. SameEnd
  BY <1>9, EndSame DEF TopStays
<1>11. CallsKeep(call, call')
  BY <1>5, ResizedCalls DEF Reallocs
<1> QED
  BY <1>10, <1>11, Undisturbed DEF TopStays

LEMMA ReallocIntoNextKnown ==
  ASSUME Good, Known, ReallocIntoNext
  PROVE  CInv'
<1>1. At("int_realloc") /\ mp' = mp /\ av \in Arenas
  BY DEF ReallocIntoNext, AtRealloc, rest, Good, Types
<1>2. SUFFICES ASSUME unlink_ok(next_chunk(op.p)) PROVE CInv'
  BY AbortKnown DEF ReallocIntoNext
<1>3. PICK p, q, size : p = op.p /\ q = next_chunk(p) /\ size = size_with_next(p)
  OBVIOUS
<1>4. /\ chunk[p].size < op.nb /\ Resized(Without(chunk, {q}), p, size) /\ q # av.top
      /\ av' = [av EXCEPT !.bins = unlinked(@, q)]
  BY <1>2, <1>3 DEF ReallocIntoNext, grows_into_next
<1>5. TopStays
  BY <1>1, <1>4 DEF TopStays, SameMemory, Arenas
<1>6. size = chunk[p].size + chunk[q].size
  BY <1>3 DEF size_with_next
<1> QED
  BY <1>1, <1>3, <1>4, <1>5, <1>6, GrowsKnown

LEMMA ReallocCopiedKnown ==
  ASSUME Good, Known, ReallocCopied
  PROVE  CInv'
<1>1. At("realloc_copied") /\ call # << >> /\ op.at = "realloc_copied" /\ mp' = mp /\ av' = av
  BY NotCarving DEF ReallocCopied, rest
<1>2. TopStays
  BY <1>1 DEF TopStays, SameMemory
<1>3. CASE ret.p = NULL
  BY <1>1, <1>2, <1>3, PopKeeps, ChunksUndisturbed DEF ReallocCopied, Return
<1>4. CASE ret.p # NULL /\ ret.p # next_chunk(op.p)
  <2>1. PICK f, g : f = Frame("int_free", 0, op.p, 0) /\ g = done(ret.p)
    OBVIOUS
  <2>2. chunk' = chunk /\ call' = <<f, g>> \o Tail(call)
    BY <1>4, <2>1 DEF ReallocCopied, Continue
  <2>3. f.at # "calloc_clear" /\ g.at # "calloc_clear"
    BY <2>1 DEF Frame, done
  <2>4. CallsKeep(call, call')
    BY <1>1, <2>2, <2>3, AsksKeeps DEF FreeSteps
  <2> QED
    BY <1>2, <2>2, <2>4, ChunksUndisturbed
<1>5. CASE ret.p # NULL /\ ret.p = next_chunk(op.p)
  <2>1. PICK p, q, size : p = op.p /\ q = next_chunk(p) /\ size = size_with_next(p)
    OBVIOUS
  <2>2. Resized(Without(chunk, {q}), p, size) /\ size = chunk[p].size + chunk[q].size
    BY <1>5, <2>1 DEF ReallocCopied, size_with_next
  <2>3. q \in Returned
    BY <1>5, <2>1 DEF Returned, Handed
  <2>4. q # av.top
    BY <2>3, BinnedNotTop
  <2>5. chunk[p].size < op.nb
    BY <1>1, <2>1, Running DEF FrameOK
  <2> QED
    BY <1>1, <1>2, <2>1, <2>2, <2>4, <2>5, GrowsKnown
<1> QED
  BY <1>3, <1>4, <1>5

LEMMA MemalignTailKnown ==
  ASSUME Good, Known, MemalignTail
  PROVE  CInv'
<1>1. At("memalign_tail") /\ call # << >> /\ op.at = "memalign_tail" /\ mp' = mp /\ av' = av
  BY NotCarving DEF MemalignTail, rest
<1>2. TopStays
  BY <1>1 DEF TopStays, SameMemory
<1>3. PICK p, size, n : p = op.p /\ size = chunk[p].size /\ n = op.nb
  OBVIOUS
<1>4. p \in DOMAIN chunk /\ p # av.top /\ size \in Nat /\ n \in Nat /\ op.at \in Reallocs \cup Memaligns
  BY <1>1, <1>3, OpChunk
<1>5. n > 0 /\ MINSIZE \in Nat
  BY <1>1, <1>3, <1>4, CallOp, Units DEF Aligned
<1>6. CASE size > n + MINSIZE
  <2>1. PICK f, g : f = Frame("int_free", 0, p + n, 0) /\ g = done(p)
    OBVIOUS
  <2>2. chunk' = Shortened(chunk, p, n, size - n) /\ call' = <<f, g>> \o Tail(call)
    BY <1>3, <1>6, <2>1 DEF MemalignTail, Continue, Shortened
  <2>3. f.at # "calloc_clear" /\ g.at # "calloc_clear"
    BY <2>1 DEF Frame, done
  <2>4. CallsKeep(call, call')
    BY <1>1, <2>2, <2>3, AsksKeeps DEF FreeSteps
  <2>5. IsCut(chunk, chunk', p, n)
    <3>1. n < size /\ Laid(chunk)
      BY <1>4, <1>5, <1>6, PartsOf
    <3> QED
      BY <1>3, <1>4, <1>5, <2>2, <3>1, ShortenedSame
  <2> QED
    BY <1>2, <1>4, <2>4, <2>5, CutUndisturbed
<1>7. CASE ~(size > n + MINSIZE)
  <2>1. chunk' = chunk /\ call' = Tail(call)
    BY <1>3, <1>7 DEF MemalignTail, Gives
  <2> QED
    BY <1>1, <1>2, <2>1, PopKeeps, ChunksUndisturbed
<1> QED
  BY <1>6, <1>7

LEMMA MemalignLeadKnown ==
  ASSUME Good, Known, MemalignLead
  PROVE  CInv'
<1>1. At("memalign_lead") /\ call # << >> /\ op.at = "memalign_lead" /\ mp' = mp /\ av' = av
  BY NotCarving DEF MemalignLead
<1>2. TopStays
  BY <1>1 DEF TopStays, SameMemory
<1>3. CASE ret.p = NULL
  BY <1>1, <1>2, <1>3, PopKeeps, ChunksUndisturbed DEF MemalignLead, Return
<1>4. CASE ret.p # NULL /\ ret.p \in DOMAIN mapped
  BY <1>1, <1>2, <1>4, PopKeeps, ChunksUndisturbed DEF MemalignLead, Gives
<1>5. CASE ret.p # NULL /\ ret.p \notin DOMAIN mapped
  <2>1. PICK p, q, k, size : /\ p = ret.p /\ q = aligned_at(p, op.x) /\ k = q - p
                             /\ size = chunk[p].size
    OBVIOUS
  <2>2. /\ op.nb \in Nat /\ op.nb > 0 /\ op \in Frames /\ op.x \in Nat /\ op.x >= MINSIZE
    <3>1. op.at \in Reallocs \cup Memaligns
      BY <1>1 DEF Memaligns
    <3>2. Aligned(op.nb) /\ FrameOK(op, Topmost(Tail(call)), Base(Tail(call)), chunk, mapped, held)
      BY <1>1, <3>1, CallOp
    <3> QED
      BY <1>1, <3>2, Units DEF FrameOK, Aligned
  <2>3. p \in Returned
    BY <1>5, <2>1 DEF Returned, Handed
  <2>4. p # av.top /\ p \in DOMAIN chunk /\ p \in Nat /\ size \in Nat
    <3>1. p # av.top
      BY <2>3, BinnedNotTop
    <3>2. p \in DOMAIN chunk
      BY <1>5, <2>1, <2>3, PartsOf DEF Linked, Owned
    <3> QED
      BY <2>1, <3>1, <3>2, PartsOf, LaidTypes
  <2>5. k \in Nat /\ q \in Nat /\ q = p + k
    BY <2>1, <2>2, <2>4, AlignedAt
  <2>6. PICK g : g = TailFrame(q)
    OBVIOUS
  <2>7. Calm(g, op) /\ g.at # "calloc_clear"
    BY <1>1, <2>2, <2>6 DEF TailFrame, Calm, Frames, FreeSteps
  <2>8. CASE k > 0 /\ size - k < op.nb
    BY <1>5, <2>1, <2>8, AbortKnown DEF MemalignLead
  <2>9. CASE k = 0
    <3>1. call' = <<g>> \o Tail(call) /\ chunk' = chunk
      BY <1>5, <2>1, <2>2, <2>6, <2>9 DEF MemalignLead, Continue, TailFrame
    <3>2. CallsKeep(call, call')
      BY <1>1, <2>7, <3>1, Calls1Keep
    <3> QED
      BY <1>2, <3>1, <3>2, ChunksUndisturbed
  <2>10. CASE k > 0 /\ ~(size - k < op.nb)
    <3>1. PICK f : f = Frame("int_free", 0, p, 0)
      OBVIOUS
    <3>2. call' = <<f, g>> \o Tail(call) /\ chunk' = Shortened(chunk, p, k, size - k)
      BY <1>5, <2>1, <2>5, <2>6, <2>10, <3>1 DEF MemalignLead, Continue, TailFrame, Shortened
    <3>3. f.at # "calloc_clear"
      BY <3>1 DEF Frame
    <3>4. CallsKeep(call, call')
      BY <1>1, <2>7, <3>2, <3>3, AsksKeeps DEF FreeSteps
    <3>5. IsCut(chunk, chunk', p, k)
      <4>1. k < size
        BY <2>2, <2>4, <2>5, <2>10
      <4> QED
        BY <2>1, <2>4, <2>5, <2>10, <3>2, <4>1, PartsOf, ShortenedSame
    <3> QED
      BY <1>2, <2>4, <3>4, <3>5, CutUndisturbed
  <2> QED
    BY <2>5, <2>8, <2>9, <2>10
<1> QED
  BY <1>3, <1>4, <1>5

-----------------------------------------------------------------------------
(* What calloc need not clear: free                                        *)

LEMMA MergedEnds ==
  ASSUME Good, NEW p, Mergeable(p), chunk' = merged_chunks(p), NEW a, ArenaWithout(a, p),
         av' = merged_arena(p, a)
  PROVE  /\ SameEnd /\ av'.contiguous = a.contiguous /\ av'.system_mem = a.system_mem
         /\ av'.max_system_mem = a.max_system_mem /\ av'.dirty = a.dirty
<1>1. PICK q, nx, Y : q = merged_at(p) /\ nx = next_chunk(p) /\ Y = Took(p)
  OBVIOUS
<1>2. MergesWith(p, q, nx, Y)
  BY <1>1, Merging
<1>3. MergedInto(p, q, nx, Y)
  BY <1>1, MergedHeap
<1>4. q + merged_size(p) = MergeEnd(chunk, p, Y) /\ merged_size(p) \in Nat /\ q \in Nat
  BY <1>1, MergedSize
<1>5. a \in Arenas /\ a.top = av.top
  BY DEF ArenaWithout
<1>6. /\ av'.contiguous = a.contiguous /\ av'.system_mem = a.system_mem
      /\ av'.max_system_mem = a.max_system_mem /\ av'.dirty = a.dirty
  BY <1>5 DEF merged_arena, Arenas
<1>7. av'.top = IF nx = av.top THEN q ELSE av.top
  BY <1>1, <1>5 DEF merged_arena, Arenas
<1>8. CASE nx = av.top
  <2>1. nx \in DOMAIN chunk /\ nx = p + chunk[p].size /\ Y = {nx}
    BY <1>2, <1>8 DEF MergesWith
  <2>2. nx # NULL
    BY <2>1, PartsOf, LaidTypes DEF NULL
  <2>3. chunk[nx].size = top_size
    BY <1>8, <2>2, TopSize
  <2>4. MergeEnd(chunk, p, Y) = nx + chunk[nx].size
    BY <2>1 DEF MergeEnd
  <2>5. old_end = q + merged_size(p)
    BY <1>4, <1>8, <2>3, <2>4 DEF old_end
  <2>6. q # NULL /\ chunk'[q].size = merged_size(p)
    <3>1. Laid(chunk') /\ q \in DOMAIN chunk' /\ chunk'[q].size = merged_size(p)
      BY <1>3 DEF MergedInto, WasMerged
    <3>2. PICK d : d = chunk'
      OBVIOUS
    <3>3. Laid(d) /\ q \in DOMAIN d
      BY <3>1, <3>2
    <3>4. q > 0
      BY <3>3, LaidTypes
    <3> QED
      BY <3>1, <3>4 DEF NULL
  <2>7. old_end' = q + merged_size(p)
    BY <1>7, <1>8, <2>6 DEF old_end, top_size
  <2>8. SameEnd
    BY <1>7, <1>8, <2>2, <2>5, <2>6, <2>7 DEF SameEnd
  <2> QED
    BY <1>6, <2>8
<1>9. CASE nx # av.top
  <2>1. Keeps(chunk, mapped, chunk', mapped, {q, p} \cup Y)
    BY <1>3 DEF MergedInto, WasMerged
  <2>2. p # av.top /\ Y \subseteq {nx}
    BY <1>2 DEF MergesWith
  <2>3. q # av.top
    BY <1>2, <2>2, BinnedNotTop DEF MergesWith
  <2>4. av.top \notin {q, p} \cup Y
    BY <1>9, <2>2, <2>3
  <2>5. SameEnd
    BY <1>7, <1>9, <2>1, <2>4, EndKept
  <2> QED
    BY <1>6, <2>5
<1> QED
  BY <1>8, <1>9

LEMMA ConsolidateKnown ==
  ASSUME Good, Known, Consolidate
  PROVE  CInv'
<1>1. At("consolidate") /\ mp' = mp /\ av \in Arenas
  BY DEF Consolidate, rest, Good, Types
<1>2. PICK full : full = {i \in DOMAIN av.fastbins : av.fastbins[i] # << >>}
  OBVIOUS
<1>3. CASE full = {}
  <2>1. call' = Tail(call) /\ UNCHANGED heap
    BY <1>2, <1>3 DEF Consolidate, Return
  <2> QED
    BY <1>1, <2>1, PopKeeps, HeapUndisturbed
<1>4. CASE full # {}
  <2>1. PICK i : i = CHOOSE j \in full : \A k \in full : j <= k
    OBVIOUS
  <2>2. i \in full
    <3>1. DOMAIN av.fastbins = 0..NFASTBINS - 1
      BY <1>1 DEF Arenas
    <3>2. full \in SUBSET Nat
      BY <1>2, <3>1
    <3>3. \E j \in full : \A k \in full : j <= k
      BY <1>4, <3>2, LeastElement
    <3> QED
      BY <2>1, <3>3
  <2>3. PICK p, a : p = Head(av.fastbins[i]) /\ a = [av EXCEPT !.fastbins[i] = Tail(@)]
    OBVIOUS
  <2>4. ArenaWithout(a, p) /\ p \in InFast
    BY <1>2, <2>2, <2>3, FastTakes
  <2>5. CASE fastbin_index(chunk[p].size) # i \/ ~merge_ok(p)
    <3>1. Abort
      BY <1>2, <1>4, <2>1, <2>3, <2>5 DEF Consolidate
    <3> QED
      BY <3>1, AbortKnown
  <2>6. CASE ~(fastbin_index(chunk[p].size) # i \/ ~merge_ok(p))
    <3>1. av' = merged_arena(p, a) /\ chunk' = merged_chunks(p) /\ call' = call
      BY <1>2, <1>4, <2>1, <2>3, <2>6 DEF Consolidate
    <3>2. Mergeable(p)
      BY <2>4, <2>6, Listed DEF Mergeable
    <3>3. /\ SameEnd /\ av'.contiguous = a.contiguous /\ av'.system_mem = a.system_mem
          /\ av'.max_system_mem = a.max_system_mem /\ av'.dirty = a.dirty
      BY <2>4, <3>1, <3>2, MergedEnds
    <3>4. SameMemory /\ av'.dirty = av.dirty
      BY <1>1, <2>3, <3>3 DEF SameMemory, Arenas
    <3>5. CallsKeep(call, call')
      BY <3>1, CallsSame
    <3> QED
      BY <3>3, <3>4, <3>5, Undisturbed
  <2> QED
    BY <2>5, <2>6
<1> QED
  BY <1>3, <1>4

LEMMA FreeMergeKnown ==
  ASSUME Good, Known, FreeMerge
  PROVE  CInv'
<1>1. At("int_free") /\ call # << >> /\ op.at = "int_free" /\ mp' = mp /\ av \in Arenas
  BY NotCarving DEF FreeMerge, rest, Good, Types
<1>2. PICK p : p = op.p
  OBVIOUS
<1>3. p \in DOMAIN chunk /\ p \in OnCall /\ chunk[p].size \in Nat
  BY <1>1, <1>2, FreeOp
<1>4. CASE ~normal_free_ok(op.p)
  BY <1>4, AbortKnown DEF FreeMerge
<1>5. CASE normal_free_ok(op.p)
  <2>1. PICK large : large = (merged_size(op.p) >= FASTBIN_CONSOLIDATION_THRESHOLD)
    OBVIOUS
  <2>2. PICK first : first = IF large /\ av.have_fastchunks THEN <<consolidate>> ELSE << >>
    OBVIOUS
  <2>3. PICK a : a = IF first = << >> THEN av ELSE consolidating(av)
    OBVIOUS
  <2>4. PICK g : g = Frame("free_trim", mp.top_pad, NULL, 0)
    OBVIOUS
  <2>5. /\ chunk' = merged_chunks(p) /\ av' = merged_arena(p, a)
        /\ IF large THEN Continue(first \o <<g>>) ELSE Continue(<< >>)
    BY <1>2, <1>5, <2>1, <2>2, <2>3, <2>4 DEF FreeMerge
  <2>6. Mergeable(p)
    BY <1>2, <1>3, <1>5 DEF Mergeable, normal_free_ok, free_ok, Aligned
  <2>7. ArenaWithout(a, p)
    <3>1. FastOK(av.fastbins, chunk)
      BY PartsOf
    <3>2. a \in Arenas /\ a.bins = av.bins /\ a.top = av.top /\ a.fastbins = av.fastbins
      BY <1>1, <2>3, Consolidating
    <3>3. p \notin InFast
      BY <1>3, PartsOf DEF Parted
    <3> QED
      BY <3>1, <3>2, <3>3 DEF ArenaWithout, InFast
  <2>8. /\ SameEnd /\ av'.contiguous = a.contiguous /\ av'.system_mem = a.system_mem
        /\ av'.max_system_mem = a.max_system_mem /\ av'.dirty = a.dirty
    BY <2>5, <2>6, <2>7, MergedEnds
  <2>9. SameMemory /\ av'.dirty = av.dirty
    BY <1>1, <2>3, <2>8 DEF SameMemory, consolidating, Arenas
  <2>10. Calm(g, op) /\ Calm(consolidate, op)
    BY <1>1, <2>4 DEF Calm, Frame, consolidate, FreeSteps
  <2>11. CallsKeep(call, call')
    <3>1. PICK t : t = Tail(call)
      OBVIOUS
    <3>2. t \in Seq(Frames)
      BY <1>1, <3>1, CallIs
    <3>3. CASE ~large
      <4>1. call' = Tail(call)
        BY <2>5, <3>1, <3>2, <3>3 DEF Continue
      <4> QED
        BY <1>1, <4>1, Calls0Keep
    <3>4. CASE large /\ first = << >>
      <4>1. call' = <<g>> \o t
        BY <2>5, <3>1, <3>4 DEF Continue
      <4> QED
        BY <1>1, <2>10, <3>1, <4>1, Calls1Keep
    <3>5. CASE large /\ first # << >>
      <4>1. first = <<consolidate>>
        BY <2>2, <3>5
      <4>2. PICK e : e = consolidate
        OBVIOUS
      <4>3. call' = <<e, g>> \o t
        BY <2>5, <3>1, <3>5, <4>1, <4>2 DEF Continue
      <4> QED
        BY <1>1, <2>10, <3>1, <4>2, <4>3, Calls2Keep
    <3> QED
      BY <3>3, <3>4, <3>5
  <2> QED
    BY <2>8, <2>9, <2>11, Undisturbed
<1> QED
  BY <1>4, <1>5

-----------------------------------------------------------------------------
(* What calloc need not clear: the system                                  *)

(* The calls of a growth: what is below is kept.                           *)
LEMMA GrowingCalls ==
  ASSUME Good, NEW l, At(l), l \notin FreeSteps \cup {"carve", "deliver"}, NEW g, g.at = "carve",
         NEW f, f.at \in FreeSteps, call' = <<g>> \o Tail(call) \/ call' = <<f, g>> \o Tail(call)
  PROVE  Growing(call') /\ (Covering(call) => Covering(call'))
<1>1. call # << >> /\ op.at = l /\ Tail(call) \in Seq(Frames)
  <2>1. call # << >> /\ op.at = l
    BY NotCarving
  <2> QED
    BY <2>1, CallIs
<1>2. PICK t : t = Tail(call)
  OBVIOUS
<1>3. CASE call' = <<g>> \o Tail(call)
  <2>1. Calm(g, op)
    BY <1>1 DEF Calm, FreeSteps
  <2>2. CallsKeep(call, call')
    BY <1>1, <1>3, <2>1, Calls1Keep
  <2>3. 1 \in DOMAIN call' /\ call'[1] = g
    <3>1. PICK F, s : F = Frames \cup {g} /\ s = call'
      OBVIOUS
    <3>2. <<g>> \in Seq(F) /\ t \in Seq(F) /\ s = <<g>> \o t
      BY <1>1, <1>2, <1>3, <3>1
    <3>3. 1 \in DOMAIN s /\ s[1] = g
      BY <3>2
    <3> QED
      BY <3>1, <3>3
  <2>4. Growing(call')
    BY <2>3 DEF Growing
  <2> QED
    BY <2>2, <2>4 DEF CallsKeep
<1>4. CASE call' = <<f, g>> \o Tail(call)
  <2>1. f.at # "calloc_clear" /\ g.at # "calloc_clear"
    BY DEF FreeSteps
  <2>2. CallsKeep(call, call')
    BY <1>4, <2>1, AsksKeeps
  <2>3. 2 \in DOMAIN call' /\ call'[2] = g /\ call'[1] = f
    <3>1. PICK F, s : F = Frames \cup {f, g} /\ s = call'
      OBVIOUS
    <3>2. <<f, g>> \in Seq(F) /\ t \in Seq(F) /\ s = <<f, g>> \o t
      BY <1>1, <1>2, <1>4, <3>1
    <3>3. 2 \in DOMAIN s /\ s[2] = g /\ s[1] = f
      BY <3>2
    <3> QED
      BY <3>1, <3>3
  <2>4. \A j \in 1..2 - 1 : call'[j].at \in FreeSteps
    BY <2>3
  <2>5. Growing(call')
    BY <2>3, <2>4 DEF Growing
  <2> QED
    BY <2>2, <2>5 DEF CallsKeep
<1> QED
  BY <1>3, <1>4

(* The memory of the arena has grown, with top at its end.                 *)
LEMMA Grows ==
  ASSUME Good, Known, NEW n \in Int, av'.contiguous = av.contiguous, av'.dirty = av.dirty,
         av'.max_system_mem = av.max_system_mem, av'.system_mem = av.system_mem + n,
         mp'.sbrk_base \in Nat, mp'.sbrk_base >= mp.sbrk_base, av'.top # NULL,
         old_end' \in Int,
         av.top # NULL => old_end' <= old_end + n,
         av.top = NULL => old_end' <= mp'.sbrk_base + n,
         Growing(call'), Covering(call) => Covering(call')
  PROVE  CInv'
<1> SUFFICES ASSUME av'.contiguous PROVE Reached'
  BY DEF CInv, Known
<1>1. Reached
  BY DEF Known
<1>2. Covering(call')
  BY <1>1 DEF Reached, Covering
<1>3. PICK b, c, m, x, d, e, r : /\ b = mp.sbrk_base /\ c = mp'.sbrk_base /\ m = av.system_mem
                                 /\ x = av.max_system_mem /\ d = av.dirty /\ e = old_end /\ r = old_end'
  OBVIOUS
<1>4. b \in Nat /\ c \in Nat /\ c >= b /\ m \in Int /\ x \in Int /\ d \in Nat /\ e \in Int /\ r \in Int
  <2>1. e \in Int
    BY <1>3, ReachTypes
  <2> QED
    BY <1>3, <2>1, ReachTypes
<1>5. x >= 0 /\ d <= b + x /\ (av.top # NULL => e <= b + m) /\ (av.top = NULL => m = 0)
  BY <1>1, <1>3 DEF Reached
<1>6. d <= c + x
  BY <1>4, <1>5
<1>7. r <= c + (m + n)
  <2>1. CASE av.top = NULL
    <3>1. r <= c + n /\ m = 0
      BY <1>3, <1>5, <2>1
    <3> QED
      BY <1>4, <3>1
  <2>2. CASE av.top # NULL
    <3>1. r <= e + n /\ e <= b + m
      BY <1>3, <1>5, <2>2
    <3> QED
      BY <1>4, <3>1
  <2> QED
    BY <2>1, <2>2
<1>8. /\ old_end' <= mp'.sbrk_base + av'.system_mem /\ av'.max_system_mem >= 0
      /\ av'.dirty <= mp'.sbrk_base + av'.max_system_mem
  BY <1>3, <1>5, <1>6, <1>7
<1>9. \A i \in DOMAIN call' : Covers(call'[i])
  BY <1>2 DEF Covering
<1> QED
  BY <1>8, <1>9 DEF Reached

LEMMA ExtendTopKnown ==
  ASSUME Good, Known, ExtendTop
  PROVE  CInv'
<1>1. PICK n, g : n = more(op.nb) /\ g = [op EXCEPT !.at = "carve"]
  OBVIOUS
<1>2. /\ At("morecore") /\ brk = old_end /\ mp' = mp
      /\ chunk' = [chunk EXCEPT ![av.top].size = @ + n, ![av.top].prev_inuse = TRUE]
      /\ av' = [av EXCEPT !.system_mem = @ + n] /\ call' = <<g>> \o Tail(call)
  BY <1>1 DEF ExtendTop, Goto, Continue
<1>3. n \in Nat
  BY <1>1, <1>2, MoreIs
<1>4. av.top # NULL
  <2>1. old_end > 0
    BY <1>2, BreakIs
  <2> QED
    BY <2>1 DEF old_end, top_size, NULL
<1>5. /\ av.top \in DOMAIN chunk /\ chunk[av.top].size = top_size /\ top_size \in Nat /\ av.top \in Nat
      /\ Heads(chunk) /\ av \in Arenas
  BY <1>4, TopSize, PartsOf DEF Good, Types
<1>6. chunk'[av.top].size = top_size + n
  <2>1. chunk[av.top] \in Headers
    BY <1>5 DEF Heads
  <2>2. chunk'[av.top].size = chunk[av.top].size + n
    BY <1>2, <1>5, <2>1 DEF Headers
  <2> QED
    BY <1>5, <2>2
<1>7. /\ av'.contiguous = av.contiguous /\ av'.dirty = av.dirty /\ av'.max_system_mem = av.max_system_mem
      /\ av'.system_mem = av.system_mem + n /\ av'.top = av.top
  BY <1>2, <1>5 DEF Arenas
<1>8. old_end' = av.top + (top_size + n)
  BY <1>4, <1>6, <1>7 DEF old_end, top_size
<1>9. PICK s : s = top_size
  OBVIOUS
<1>10. old_end' \in Int /\ old_end' <= old_end + n
  <2>1. old_end = av.top + s /\ old_end' = av.top + (s + n) /\ s \in Nat
    BY <1>5, <1>8, <1>9 DEF old_end
  <2> QED
    BY <1>3, <1>5, <2>1
<1>11. op \in Frames /\ g.at = "carve"
  BY <1>1, <1>2, Running DEF Frames
<1>12. Growing(call') /\ (Covering(call) => Covering(call'))
  <2>1. PICK f : f = consolidate
    OBVIOUS
  <2>2. f.at \in FreeSteps
    BY <2>1 DEF consolidate, Frame, FreeSteps
  <2>3. "morecore" \notin FreeSteps \cup {"carve", "deliver"}
    BY DEF FreeSteps
  <2>4. At("morecore") /\ g.at = "carve"
    BY <1>2, <1>11
  <2>5. call' = <<g>> \o Tail(call) \/ call' = <<f, g>> \o Tail(call)
    BY <1>2
  <2> QED
    BY <2>2, <2>3, <2>4, <2>5, GrowingCalls
<1>13. mp'.sbrk_base \in Nat /\ mp'.sbrk_base >= mp.sbrk_base
  BY <1>2, ReachTypes
<1> QED
  BY <1>3, <1>4, <1>7, <1>10, <1>12, <1>13, Grows

LEMMA NewRegionKnown ==
  ASSUME Good, Known, NewRegion
  PROVE  CInv'
<1>1. PICK n, mis, second : n = more(op.nb) /\ mis = misalign(brk) /\ second = correction(brk, n)
  OBVIOUS
<1>2. PICK got, top, size : /\ got = IF sbrk_gives(n + second) THEN second ELSE 0
                            /\ top = brk + mis /\ size = n - mis + got
  OBVIOUS
<1>3. /\ At("morecore") /\ mp' = based(brk)
      /\ IF brk < old_end THEN Abort
         ELSE /\ NewTop(top, size)
              /\ av' = [av EXCEPT !.top = top, !.system_mem = @ + n + foreign_gap + got]
  BY <1>1, <1>2 DEF NewRegion
<1>4. n \in Nat /\ brk \in Nat /\ brk > 0 /\ top_size \in Nat /\ av \in Arenas /\ mp \in Params
  BY <1>1, <1>3, MoreIs, BreakIs, TopSize DEF Good, Types
<1>5. mis \in Nat
  <2>1. PICK a, x : a = MALLOC_ALIGNMENT /\ x = ALIGN_UP(brk, a)
    OBVIOUS
  <2>2. a \in Nat \ {0} /\ brk \in Int
    BY <1>4, <2>1, Units
  <2>3. x \in Int /\ brk <= x
    BY <2>1, <2>2, RoundUp
  <2>4. mis = x - brk
    BY <1>1, <2>1 DEF misalign
  <2> QED
    BY <1>4, <2>3, <2>4
<1>6. got \in Int
  <2>1. PICK c, z : c = mis + top_size /\ z = brk + n + c
    OBVIOUS
  <2>2. c \in Nat /\ z \in Int
    BY <1>4, <1>5, <2>1
  <2>3. PICK x : x = ALIGN_UP(z, PAGE)
    OBVIOUS
  <2>4. x \in Int
    BY <2>2, <2>3, PageSize, RoundUp
  <2>5. second = c + x - z
    BY <1>1, <2>1, <2>3 DEF correction
  <2>6. second \in Int
    BY <2>2, <2>4, <2>5
  <2>7. got = second \/ got = 0
    BY <1>2
  <2> QED
    BY <2>6, <2>7
<1>7. CASE brk < old_end
  BY <1>3, <1>7, AbortKnown
<1>8. CASE ~(brk < old_end)
  <2>1. NewTop(top, size) /\ av' = [av EXCEPT !.top = top, !.system_mem = @ + n + foreign_gap + got]
    BY <1>3, <1>8
  <2>2. PICK gap, k, e : gap = foreign_gap /\ k = n + gap + got /\ e = old_end
    OBVIOUS
  <2>3. e \in Int /\ gap \in Int /\ av.system_mem \in Int
    <3>1. e \in Int /\ av.system_mem \in Int
      BY <2>2, ReachTypes
    <3> QED
      BY <1>4, <2>2, <3>1 DEF foreign_gap
  <2>4. /\ av'.contiguous = av.contiguous /\ av'.dirty = av.dirty /\ av'.max_system_mem = av.max_system_mem
        /\ av'.system_mem = av.system_mem + n + gap + got /\ av'.top = top
    BY <1>4, <2>1, <2>2 DEF Arenas
  <2>5. av'.system_mem = av.system_mem + k /\ k \in Int
    BY <1>4, <1>6, <2>2, <2>3, <2>4
  <2>6. chunk'[top].size = size
    BY <2>1 DEF NewTop, With, Head2
  <2>7. top # NULL
    BY <1>2, <1>4, <1>5 DEF NULL
  <2>8. old_end' = top + size
    BY <2>4, <2>6, <2>7 DEF old_end, top_size
  <2>9. old_end' = brk + (n + got)
    BY <1>2, <1>4, <1>5, <1>6, <2>8
  <2>10. mp'.sbrk_base = IF mp.sbrk_base = NULL THEN brk ELSE mp.sbrk_base
    BY <1>3, <1>4 DEF based, Params
  <2>11. mp'.sbrk_base \in Nat /\ mp'.sbrk_base >= mp.sbrk_base
    <3>1. mp.sbrk_base \in Nat
      BY ReachTypes
    <3> QED
      BY <1>4, <2>10, <3>1 DEF NULL
  <2>12. av.top # NULL => old_end' <= old_end + k
    <3>1. SUFFICES ASSUME av.top # NULL PROVE old_end' <= old_end + k
      OBVIOUS
    <3>2. gap = brk - e
      BY <2>2, <3>1 DEF foreign_gap
    <3>3. brk + (n + got) = e + k
      BY <1>4, <1>6, <2>2, <2>3, <3>2
    <3> QED
      BY <1>4, <1>6, <2>2, <2>3, <2>5, <2>9, <3>3
  <2>13. av.contiguous => (av.top = NULL => old_end' <= mp'.sbrk_base + k)
    <3>1. SUFFICES ASSUME av.contiguous, av.top = NULL PROVE old_end' <= mp'.sbrk_base + k
      OBVIOUS
    <3>2. mp.sbrk_base = NULL
      BY <3>1 DEF Known, Reached
    <3>3. gap = 0 /\ mp'.sbrk_base = brk
      BY <2>2, <2>10, <3>1, <3>2 DEF foreign_gap
    <3>4. k = n + got
      BY <1>4, <1>6, <2>2, <3>3
    <3> QED
      BY <1>4, <1>6, <2>9, <3>3, <3>4
  <2>14. PICK f, g : f = Frame("int_free", 0, av.top, 0) /\ g = [op EXCEPT !.at = "carve"]
    OBVIOUS
  <2>15. call' = <<g>> \o Tail(call) \/ call' = <<f, g>> \o Tail(call)
    BY <2>1, <2>14 DEF NewTop, Continue
  <2>16. op \in Frames /\ g.at = "carve" /\ f.at \in FreeSteps
    BY <1>3, <2>14, Running DEF Frames, Frame, FreeSteps
  <2>17. Growing(call') /\ (Covering(call) => Covering(call'))
    BY <1>3, <2>15, <2>16, GrowingCalls DEF FreeSteps
  <2>18. CASE av.contiguous
    <3>1. old_end' \in Int
      BY <1>4, <1>6, <2>9
    <3> QED
      BY <2>4, <2>5, <2>7, <2>11, <2>12, <2>13, <2>17, <2>18, <3>1, Grows
  <2>19. CASE ~av.contiguous
    BY <2>4, <2>19 DEF CInv, Known
  <2> QED
    BY <2>18, <2>19
<1> QED
  BY <1>7, <1>8

LEMMA NewRegionApartKnown ==
  ASSUME Good, Known, NewRegionApart
  PROVE  CInv'
<1>1. av \in Arenas /\ ~av.contiguous
  BY DEF Good, Types, NewRegionApart
<1>2. CASE misalign(brk) > 0
  BY <1>2, AbortKnown DEF NewRegionApart
<1>3. CASE ~(misalign(brk) > 0)
  <2>1. av' = [av EXCEPT !.top = brk, !.system_mem = @ + more(op.nb)]
    BY <1>3 DEF NewRegionApart
  <2>2. ~av'.contiguous
    BY <1>1, <2>1 DEF Arenas
  <2> QED
    BY <2>2 DEF CInv, Known
<1> QED
  BY <1>2, <1>3

LEMMA MmapBackupKnown ==
  ASSUME Good, Known, MmapBackup
  PROVE  CInv'
<1>1. av \in Arenas
  BY DEF Good, Types
<1>2. PICK size, i : av' = [set_noncontiguous(av) EXCEPT !.top = i * PAGE, !.system_mem = @ + size]
  BY DEF MmapBackup
<1>3. ~av'.contiguous
  BY <1>1, <1>2 DEF set_noncontiguous, Arenas
<1> QED
  BY <1>3 DEF CInv, Known

(* systrim, where it gives memory back.                                    *)
LEMMA SystrimKnown ==
  ASSUME Good, Known, Systrim, brk' <= brk
  PROVE  CInv'
<1>1. At("systrim") /\ call' = Tail(call) /\ mp' = mp /\ av \in Arenas
  BY DEF Systrim, Return, Good, Types
<1>2. PICK extra : extra = trim_extra(op.nb)
  OBVIOUS
<1>3. op.nb \in Nat
  BY <1>1, Running
<1>4. extra \in Int
  BY <1>2, <1>3, TrimLeaves
<1>5. CallsKeep(call, call')
  BY <1>1, PopKeeps
<1>6. CASE ~(brk = old_end /\ extra # 0 /\ sbrk_gives(-extra))
  <2>1. UNCHANGED heap
    BY <1>2, <1>6 DEF Systrim
  <2> QED
    BY <1>1, <1>5, <2>1, HeapUndisturbed
<1>7. CASE brk = old_end /\ extra # 0 /\ sbrk_gives(-extra)
  <2>1. /\ brk' = brk - extra /\ av' = [av EXCEPT !.system_mem = @ - extra]
        /\ chunk' = [chunk EXCEPT ![av.top].size = @ - extra, ![av.top].prev_inuse = TRUE]
    BY <1>2, <1>7 DEF Systrim
  <2>2. brk \in Nat /\ brk > 0
    BY BreakIs
  <2>3. extra >= 0
    BY <1>4, <2>1, <2>2
  <2>4. av.top # NULL
    BY <1>7, <2>2 DEF old_end, top_size, NULL
  <2>5. /\ av.top \in DOMAIN chunk /\ chunk[av.top].size = top_size /\ top_size \in Nat /\ av.top \in Nat
        /\ Heads(chunk)
    BY <2>4, TopSize, PartsOf
  <2>6. chunk'[av.top].size = top_size - extra
    <3>1. chunk[av.top] \in Headers
      BY <2>5 DEF Heads
    <3>2. chunk'[av.top].size = chunk[av.top].size - extra
      BY <2>1, <2>5, <3>1 DEF Headers
    <3> QED
      BY <2>5, <3>2
  <2>7. /\ av'.contiguous = av.contiguous /\ av'.dirty = av.dirty /\ av'.max_system_mem = av.max_system_mem
        /\ av'.system_mem = av.system_mem - extra /\ av'.top = av.top
    BY <1>1, <2>1 DEF Arenas
  <2>8. old_end' = av.top + (top_size - extra)
    BY <2>4, <2>6, <2>7 DEF old_end, top_size
  <2> SUFFICES ASSUME av'.contiguous PROVE Reached'
    BY DEF CInv, Known
  <2>9. Reached
    BY <2>7 DEF Known
  <2>10. Covering(call') /\ (Growing(call) => Growing(call'))
    BY <1>5, <2>9 DEF Reached, Covering, CallsKeep
  <2>11. PICK s, m, x : s = top_size /\ m = av.system_mem /\ x = av.max_system_mem
    OBVIOUS
  <2>12. s \in Nat /\ m \in Int /\ x \in Int /\ mp.sbrk_base \in Nat /\ old_end = av.top + s
    BY <2>11, ReachTypes
  <2>13. old_end' <= mp'.sbrk_base + av'.system_mem
    <3>1. av.top + s <= mp.sbrk_base + m
      BY <2>4, <2>9, <2>11, <2>12 DEF Reached
    <3>2. av.top + (s - extra) <= mp.sbrk_base + (m - extra)
      BY <1>4, <2>5, <2>12, <3>1
    <3> QED
      BY <1>1, <2>7, <2>8, <2>11, <3>2
  <2>14. av'.system_mem <= av'.max_system_mem \/ Growing(call')
    <3>1. m <= x \/ Growing(call)
      BY <2>9, <2>11 DEF Reached
    <3>2. m <= x => m - extra <= x
      BY <1>4, <2>3, <2>12
    <3> QED
      BY <2>7, <2>10, <2>11, <3>1, <3>2
  <2>15. av'.max_system_mem >= 0 /\ av'.dirty <= mp'.sbrk_base + av'.max_system_mem
    BY <1>1, <2>7, <2>9 DEF Reached
  <2>16. \A i \in DOMAIN call' : Covers(call'[i])
    BY <2>10 DEF Covering
  <2> QED
    BY <2>4, <2>7, <2>13, <2>14, <2>15, <2>16 DEF Reached
<1> QED
  BY <1>6, <1>7

-----------------------------------------------------------------------------
(* What calloc need not clear: the program's calls                         *)

(* The first call, or none.                                                *)
LEMMA FirstCalls ==
  ASSUME call = << >>
  PROVE  ~Growing(call)
BY DEF Growing

LEMMA Called ==
  ASSUME Good, Known, call = << >>, TopStays, chunk' = chunk, Covering(call')
  PROVE  CInv'
<1>1. CallsKeep(call, call')
  BY FirstCalls DEF CallsKeep
<1> QED
  BY <1>1, ChunksUndisturbed

LEMMA Called1 ==
  ASSUME NEW f, f.at # "calloc_clear", call' = <<f>>
  PROVE  Covering(call')
BY DEF Covering, Covers

LEMMA Called2 ==
  ASSUME NEW f, NEW g, f.at # "calloc_clear", g.at # "calloc_clear", call' = <<f, g>>
  PROVE  Covering(call')
BY DEF Covering, Covers

LEMMA AskKnown ==
  ASSUME Good, Known, NEW function, function # "calloc_clear", NEW b, NEW p, NEW a, Ask(function, b, p, a)
  PROVE  CInv'
<1>1. PICK f, g : f = Frame(function, request2size(b), p, a) /\ g = Frame("deliver", a, p, b)
  OBVIOUS
<1>2. f.at # "calloc_clear" /\ g.at # "calloc_clear"
  BY <1>1 DEF Frame
<1>3. call = << >> /\ call' = <<f, g>> /\ chunk' = chunk /\ av' = av /\ mp' = mp
  BY <1>1 DEF Ask, Calls, heap, rest
<1>4. TopStays
  BY <1>3 DEF TopStays, SameMemory
<1> QED
  BY <1>2, <1>3, <1>4, Called2, Called

LEMMA ProgramKnown ==
  ASSUME Good, Known, Program
  PROVE  CInv'
<1>1. av \in Arenas
  BY DEF Good, Types
<1>2. ASSUME NEW function, function # "calloc_clear", NEW b, NEW p, NEW a, Ask(function, b, p, a)
      PROVE  CInv'
  BY <1>2, AskKnown
<1>3. ASSUME NEW p, Free(p)
      PROVE  CInv'
  <2>1. PICK f : f = Frame("libc_free", 0, p, 0)
    OBVIOUS
  <2>2. f.at # "calloc_clear" /\ call = << >> /\ call' = <<f>> /\ chunk' = chunk /\ av' = av /\ mp' = mp
    BY <1>3, <2>1 DEF Free, Calls, heap, Frame
  <2> QED
    BY <2>2, Called1, Called DEF TopStays, SameMemory
<1>4. ASSUME NEW f, f.at # "calloc_clear", Calls(<<consolidate, f>>), av' = consolidating(av),
             UNCHANGED <<chunk, tcache, ret, rest>>
      PROVE  CInv'
  <2>1. PICK e : e = consolidate
    OBVIOUS
  <2>2. e.at # "calloc_clear" /\ call = << >> /\ call' = <<e, f>> /\ chunk' = chunk /\ mp' = mp
    BY <1>4, <2>1 DEF Calls, consolidate, Frame, rest
  <2>3. TopStays
    BY <1>1, <1>4, <2>2 DEF TopStays, SameMemory, consolidating, Arenas
  <2> QED
    BY <1>4, <2>2, <2>3, Called2, Called
<1>5. ASSUME NEW pad, TrimTo(pad)
      PROVE  CInv'
  <2>1. PICK f : f = Frame("mtrim", pad, NULL, 0)
    OBVIOUS
  <2> QED
    BY <1>4, <1>5, <2>1 DEF TrimTo, Frame
<1>6. ASSUME NEW param, NEW value, SetOption(param, value)
      PROVE  CInv'
  <2>1. PICK f : f = Frame("mallopt", 0, param, value)
    OBVIOUS
  <2> QED
    BY <1>4, <1>6, <2>1 DEF SetOption, Frame
<1>7. ASSUME NEW n, ForeignSbrk(n)
      PROVE  CInv'
  <2>1. call' = call /\ chunk' = chunk /\ av' = av /\ mp' = mp
    BY <1>7 DEF ForeignSbrk, heap
  <2> QED
    BY <2>1, CallsSame, ChunksUndisturbed DEF TopStays, SameMemory
<1>8. ASSUME ThreadShutdown
      PROVE  CInv'
  <2>1. PICK f : f = Frame("tcache_thread_shutdown", 0, tcache.block, 0)
    OBVIOUS
  <2>2. f.at # "calloc_clear" /\ call = << >> /\ call' = <<f>> /\ chunk' = chunk /\ av' = av /\ mp' = mp
    BY <1>8, <2>1 DEF ThreadShutdown, heap, rest, Frame
  <2> QED
    BY <2>2, Called1, Called DEF TopStays, SameMemory
<1>9. /\ "libc_malloc" # "calloc_clear" /\ "libc_calloc" # "calloc_clear"
      /\ "libc_memalign" # "calloc_clear" /\ "libc_realloc" # "calloc_clear"
  OBVIOUS
<1> QED
  BY <1>2, <1>3, <1>5, <1>6, <1>7, <1>8, <1>9 DEF Program

LEMMA StepKnown ==
  ASSUME Good, Known, Step, At("systrim") => brk' <= brk
  PROVE  CInv'
<1>1. CASE HeapStep
  BY <1>1, HeapStepKnown
<1>2. CASE IntMallocFast \/ IntMallocSmall \/ IntMallocOther
  BY <1>2, IntMallocFastKnown, IntMallocSmallKnown, IntMallocOtherKnown
<1>3. CASE SplitLastRemainder \/ TakeExact \/ SortIntoBin
  BY <1>3, SplitLastRemainderKnown, TakeExactKnown, SortIntoBinKnown
<1>4. CASE SearchOwn \/ SearchBins \/ UseTop
  BY <1>4, SearchOwnKnown, SearchBinsKnown, UseTopKnown
<1>5. CASE Consolidate \/ FreeFast \/ FreeMerge
  BY <1>5, ConsolidateKnown, FreeFastKnown, FreeMergeKnown
<1>6. CASE ExtendTop \/ NewRegion \/ NewRegionApart \/ MmapBackup \/ NoMore \/ Carve
  BY <1>6, ExtendTopKnown, NewRegionKnown, NewRegionApartKnown, MmapBackupKnown, NoMoreKnown, CarveKnown
<1>7. CASE Systrim
  <2>1. At("systrim")
    BY <1>7 DEF Systrim
  <2> QED
    BY <1>7, <2>1, SystrimKnown
<1>8. CASE CallocMalloc
  BY <1>8, CallocMallocKnown
<1>9. CASE ReallocShrinks \/ ReallocIntoTop \/ ReallocIntoNext \/ ReallocCopied
  BY <1>9, ReallocShrinksKnown, ReallocIntoTopKnown, ReallocIntoNextKnown, ReallocCopiedKnown
<1>10. CASE MemalignLead \/ MemalignTail
  BY <1>10, MemalignLeadKnown, MemalignTailKnown
<1> QED
  BY <1>1, <1>2, <1>3, <1>4, <1>5, <1>6, <1>7, <1>8, <1>9, <1>10 DEF Step, HeapStep

(* calloc leaves uncleared only memory that no chunk had been in before    *)
(* the call, as long as systrim gives memory back and never asks for more, *)
(* which is what the comment at malloc-impl.c:2898 says of it: then the    *)
(* arena's max_system_mem reaches above every end that top has had.        *)
THEOREM ClearsEnough == Spec /\ TrimGivesBack => []CallocClears
<1>1. Init => CInv
  <2> SUFFICES ASSUME Init PROVE CInv
    OBVIOUS
  <2>1. /\ av.top = NULL /\ av.system_mem = 0 /\ av.max_system_mem = 0 /\ av.dirty = 0
        /\ mp.sbrk_base = NULL /\ call = << >>
    BY DEF Init
  <2>2. Reached
    BY <2>1 DEF Reached, NULL
  <2> QED
    BY <2>2 DEF CInv, Known
<1>2. IInv /\ CInv /\ [Next]_vars /\ [At("systrim") => brk' <= brk]_vars => CInv'
  <2> SUFFICES ASSUME IInv, CInv, [Next]_vars, [At("systrim") => brk' <= brk]_vars PROVE CInv'
    OBVIOUS
  <2>1. CASE UNCHANGED vars
    <3>1. UNCHANGED <<chunk, av, mp, call>>
      BY <2>1 DEF vars, heap, rest, system
    <3>2. At("abort")' <=> At("abort")
      BY <3>1 DEF At
    <3>3. Known' <=> Known
      BY <3>1 DEF Known, Reached, Growing, Covers, old_end, top_size
    <3> QED
      BY <3>2, <3>3 DEF CInv
  <2>2. CASE Step /\ ~UNCHANGED vars
    <3>1. Good /\ Known
      BY <2>2, Runs DEF IInv, CInv
    <3> QED
      BY <2>2, <3>1, StepKnown
  <2>3. CASE Program
    <3>1. call = << >>
      BY <2>3 DEF Program, Ask, Free, TrimTo, SetOption, ForeignSbrk, ThreadShutdown, Calls
    <3>2. Good /\ Known
      BY <3>1 DEF IInv, CInv, At
    <3> QED
      BY <2>3, <3>2, ProgramKnown
  <2> QED
    BY <2>1, <2>2, <2>3 DEF Next
<1>3. IInv /\ CInv => CallocClears
  <2> SUFFICES ASSUME IInv, CInv, At("calloc_clear"), av.contiguous, ret.p \in DOMAIN chunk
               PROVE  clears(ret.p) = chunk[ret.p].size \/ ret.p + clears(ret.p) >= op.nb
    BY DEF CallocClears
  <2>1. Good /\ ~At("abort")
    BY NoPrograms DEF At
  <2>2. Reached
    BY <2>1 DEF CInv, Known
  <2>3. call # << >> /\ op.at = "calloc_clear" /\ op = call[1] /\ call \in Seq(Frames)
    BY <2>1, NotCarving, CallIs
  <2>4. Covers(op)
    BY <2>2, <2>3 DEF Reached
  <2>5. CASE ret.p = op.p /\ chunk[ret.p].size > op.x /\ op.x >= 0
    BY <2>3, <2>4, <2>5 DEF clears, Covers
  <2>6. CASE ~(ret.p = op.p /\ chunk[ret.p].size > op.x /\ op.x >= 0)
    BY <2>6 DEF clears
  <2> QED
    BY <2>5, <2>6
<1> QED
  BY <1>1, <1>2, <1>3, Invariance, PTL DEF Spec, TrimGivesBack
=============================================================================
