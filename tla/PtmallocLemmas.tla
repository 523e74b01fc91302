--------------------------- MODULE PtmallocLemmas ---------------------------
(***************************************************************************)
(* Lemmas about the allocator of malloc-impl.c: its sizes, its lists, its  *)
(* stack of calls and its heap, and the steps that change only some of     *)
(* them, that cut or merge chunks, or that map memory.  The first part is  *)
(* about the sizes alone, for every request, every size of a word with the *)
(* alignments the code knows, and every table of large bins whose ranges   *)
(* join: what TLC evaluates for the constants of three builds, up to a     *)
(* bound.                                                                  *)
(***************************************************************************)
EXTENDS PtmallocInvariant, CommonLemmas, SequenceTheorems

-----------------------------------------------------------------------------
(* Division                                                                *)

LEMMA DivRises ==
  ASSUME NEW w \in Nat \ {0}, NEW a \in Nat, NEW b \in Nat, a <= b
  PROVE  a \div w <= b \div w /\ a \div w \in Nat
<1>1. PICK p, q, m, n : p = a \div w /\ q = b \div w /\ m = a % w /\ n = b % w
  OBVIOUS
<1>2. /\ p \in Nat /\ q \in Nat /\ m \in 0..w - 1 /\ n \in 0..w - 1
      /\ a = p * w + m /\ b = q * w + n
  BY <1>1
<1>3. ~(q + 1 <= p)
  <2> SUFFICES ASSUME q + 1 <= p PROVE FALSE
    OBVIOUS
  <2>1. (q + 1) * w <= p * w
    BY <1>2
  <2>2. (q + 1) * w = q * w + w /\ q * w \in Nat /\ p * w \in Nat
    BY <1>2
  <2> QED
    BY <1>2, <2>1, <2>2
<1> QED
  BY <1>1, <1>2, <1>3

(* Numbers between two multiples.                                          *)
LEMMA DivIs ==
  ASSUME NEW w \in Nat \ {0}, NEW q \in Nat, NEW m \in 0..w - 1, NEW a, a = q * w + m
  PROVE  a \div w = q /\ a % w = m
<1>1. w \in Nat
  OBVIOUS
<1> QED
  BY <1>1, RowAndColumn

LEMMA Multiple ==
  ASSUME NEW w \in Nat \ {0}, NEW q \in Nat
  PROVE  q * w \in Nat /\ (q * w) % w = 0 /\ (q * w) \div w = q
<1>1. PICK a : a = q * w
  OBVIOUS
<1>2. a \in Nat /\ a = q * w + 0 /\ 0 \in 0..w - 1
  BY <1>1
<1>3. a \div w = q /\ a % w = 0
  BY <1>2, DivIs
<1> QED
  BY <1>1, <1>2, <1>3

-----------------------------------------------------------------------------
(* Constants                                                               *)

(* MINSIZE is two alignments or one, and at least four words.              *)
LEMMA Constants ==
  /\ SIZE_SZ \in Nat \ {0} /\ MALLOC_ALIGNMENT \in Nat \ {0}
  /\ MALLOC_ALIGNMENT >= 2 * SIZE_SZ
  /\ \E q \in {1, 2} : /\ MINSIZE = q * MALLOC_ALIGNMENT
                       /\ SMALLBIN_CORRECTION = 2 - q
  /\ MINSIZE = 4 * SIZE_SZ /\ MINSIZE % MALLOC_ALIGNMENT = 0
<1>1. PICK k \in {2, 4} : MALLOC_ALIGNMENT = k * SIZE_SZ
  BY SizesAssumption
<1>2. PICK S, A : S = SIZE_SZ /\ A = MALLOC_ALIGNMENT
  OBVIOUS
<1>3. S \in Nat \ {0}
  BY <1>2, SizesAssumption
<1>4. CASE k = 2
  <2>1. A = 2 * S /\ A \in Nat \ {0} /\ 4 * S + A - 1 = 2 * A + (A - 1)
    BY <1>1, <1>2, <1>3, <1>4
  <2>2. 2 \in Nat /\ A - 1 \in 0..A - 1
    BY <2>1
  <2>3. (4 * S + A - 1) \div A = 2
    <3>1. PICK m, a : m = A - 1 /\ a = 4 * S + A - 1
      OBVIOUS
    <3>2. m \in 0..A - 1 /\ a = 2 * A + m
      BY <2>1, <2>2, <3>1
    <3>3. a \div A = 2
      <4>1. A \in Nat /\ m \in 0..A - 1
        BY <2>1, <3>2
      <4>2. (2 * A + m) \div A = 2
        BY <2>2, <4>1, RowAndColumn
      <4> QED
        BY <3>2, <4>2
    <3> QED
      BY <3>1, <3>3
  <2>4. MINSIZE = 2 * A
    BY <1>2, <2>3 DEF MINSIZE, ALIGN_UP, MIN_CHUNK_SIZE
  <2>5. (2 * A) % A = 0
    BY <2>1, <2>2, Multiple
  <2>6. SMALLBIN_CORRECTION = 0
    BY <1>2, <1>3, <2>1 DEF SMALLBIN_CORRECTION, CHUNK_HDR_SZ
  <2> QED
    BY <1>2, <1>3, <2>1, <2>4, <2>5, <2>6
<1>5. CASE k = 4
  <2>1. A = 4 * S /\ A \in Nat \ {0} /\ 4 * S + A - 1 = 1 * A + (A - 1)
    BY <1>1, <1>2, <1>3, <1>5
  <2>2. 1 \in Nat /\ A - 1 \in 0..A - 1
    BY <2>1
  <2>3. (4 * S + A - 1) \div A = 1
    <3>1. PICK m, a : m = A - 1 /\ a = 4 * S + A - 1
      OBVIOUS
    <3>2. m \in 0..A - 1 /\ a = 1 * A + m
      BY <2>1, <2>2, <3>1
    <3>3. a \div A = 1
      BY <2>1, <2>2, <3>2, DivIs
    <3> QED
      BY <3>1, <3>3
  <2>4. MINSIZE = 1 * A
    BY <1>2, <2>3 DEF MINSIZE, ALIGN_UP, MIN_CHUNK_SIZE
  <2>5. (1 * A) % A = 0
    BY <2>1, <2>2, Multiple
  <2>6. SMALLBIN_CORRECTION = 1
    BY <1>2, <1>3, <2>1 DEF SMALLBIN_CORRECTION, CHUNK_HDR_SZ
  <2> QED
    BY <1>2, <1>3, <2>1, <2>4, <2>5, <2>6
<1> QED
  BY <1>4, <1>5

-----------------------------------------------------------------------------
(* Requests                                                                *)

(* What a request is padded to, in alignments.                             *)
LEMMA Padded ==
  ASSUME NEW n \in Int, n + SIZE_SZ + MALLOC_ALIGN_MASK >= 0
  PROVE  \E j \in Nat :
           /\ request2size(n) = j * MALLOC_ALIGNMENT /\ Aligned(request2size(n))
           /\ n + SIZE_SZ <= request2size(n)
           /\ request2size(n) = MINSIZE \/ request2size(n) < n + SIZE_SZ + MALLOC_ALIGNMENT
<1>1. PICK S, A, M, m : /\ S = SIZE_SZ /\ A = MALLOC_ALIGNMENT /\ M = MINSIZE
                        /\ m = n + SIZE_SZ + MALLOC_ALIGN_MASK
  OBVIOUS
<1>2. /\ S \in Nat \ {0} /\ A \in Nat \ {0} /\ M \in Nat /\ M = 4 * S
      /\ m = n + S + (A - 1) /\ m \in Nat /\ M % A = 0
  BY <1>1, Constants DEF MALLOC_ALIGN_MASK
<1>3. PICK q \in {1, 2} : M = q * A
  BY <1>1, Constants
<1>4. CASE m < M
  <2>1. request2size(n) = M
    BY <1>1, <1>4 DEF request2size
  <2>2. n + S <= M
    BY <1>2, <1>4
  <2> QED
    BY <1>1, <1>2, <1>3, <2>1, <2>2 DEF Aligned
<1>5. CASE ~(m < M)
  <2>1. PICK j, r : j = m \div A /\ r = m % A
    OBVIOUS
  <2>2. j \in Nat /\ r \in 0..A - 1 /\ m = j * A + r
    BY <1>2, <2>1
  <2>3. request2size(n) = j * A
    BY <1>1, <1>5, <2>1 DEF request2size, ALIGN_DOWN
  <2>4. j * A >= M
    <3>1. M \div A <= j
      BY <1>2, <1>5, <2>1, DivRises
    <3>2. q \in Nat
      OBVIOUS
    <3>3. M \div A = q
      BY <1>2, <1>3, <3>2, Multiple
    <3>4. q * A <= j * A
      BY <1>2, <2>2, <3>1, <3>2, <3>3
    <3> QED
      BY <1>3, <3>4
  <2>5. (j * A) % A = 0 /\ j * A \in Nat
    BY <1>2, <2>2, Multiple
  <2>6. n + S <= j * A /\ j * A < n + S + A
    <3>1. PICK x : x = j * A
      OBVIOUS
    <3>2. x \in Nat /\ m = x + r
      BY <2>2, <2>5, <3>1
    <3>3. n + S <= x /\ x < n + S + A
      BY <1>2, <2>2, <3>2
    <3> QED
      BY <3>1, <3>3
  <2> QED
    BY <1>1, <1>2, <2>2, <2>3, <2>4, <2>5, <2>6 DEF Aligned
<1> QED
  BY <1>2, <1>4, <1>5

(* A chunk has room for what was asked, is aligned, is no smaller than     *)
(* MINSIZE, and no smaller chunk would do, however large the request.      *)
THEOREM RequestsFit == \A n \in Nat : RequestFits(n)
<1> SUFFICES ASSUME NEW n \in Nat PROVE RequestFits(n)
  OBVIOUS
<1>1. PICK S, A, M, nb : /\ S = SIZE_SZ /\ A = MALLOC_ALIGNMENT /\ M = MINSIZE
                         /\ nb = request2size(n)
  OBVIOUS
<1>2. S \in Nat \ {0} /\ A \in Nat \ {0} /\ M \in Nat /\ n + S + (A - 1) >= 0
  BY <1>1, Constants
<1>3. /\ nb \in Nat /\ nb >= M /\ nb % A = 0 /\ n + S <= nb
      /\ nb = M \/ nb < n + S + A
  BY <1>1, <1>2, Padded DEF Aligned, MALLOC_ALIGN_MASK
<1>4. nb - S >= n /\ (nb > M => nb - A - S < n)
  BY <1>2, <1>3
<1> QED
  BY <1>1, <1>3, <1>4 DEF RequestFits, usable

(* Chunk sizes are sizes that some request is padded to: that of what they *)
(* have room for, and of up to an alignment less.                          *)
LEMMA PaddedTo ==
  ASSUME NEW sz, Aligned(sz), NEW n \in Int, n <= sz - SIZE_SZ,
         n + SIZE_SZ + MALLOC_ALIGN_MASK >= sz
  PROVE  request2size(n) = sz
<1>1. PICK S, A, M, m : /\ S = SIZE_SZ /\ A = MALLOC_ALIGNMENT /\ M = MINSIZE
                        /\ m = n + SIZE_SZ + MALLOC_ALIGN_MASK
  OBVIOUS
<1>2. /\ S \in Nat \ {0} /\ A \in Nat \ {0} /\ M \in Nat /\ sz \in Nat /\ sz >= M
      /\ sz % A = 0 /\ m = n + S + (A - 1) /\ m >= sz /\ n <= sz - S
  BY <1>1, Constants DEF MALLOC_ALIGN_MASK, Aligned
<1>3. m - sz \in 0..A - 1 /\ ~(m < M)
  BY <1>2
<1>4. PICK j : j = sz \div A
  OBVIOUS
<1>5. j \in Nat /\ sz = j * A
  BY <1>2, <1>4
<1>6. PICK r : r = m - sz
  OBVIOUS
<1>7. m \div A = j
  <2>1. r \in 0..A - 1 /\ m = j * A + r
    BY <1>2, <1>3, <1>5, <1>6
  <2> QED
    <3>1. A \in Nat /\ r \in 0..A - 1 /\ j \in Nat
      BY <1>2, <1>5, <2>1
    <3>2. (j * A + r) \div A = j
      BY <3>1, RowAndColumn
    <3> QED
      BY <2>1, <3>2
<1> QED
  BY <1>1, <1>3, <1>5, <1>7 DEF request2size, ALIGN_DOWN

(* What realloc asks _int_malloc for is padded to the size it wants.       *)
THEOREM Repadded == \A n \in Nat : PaddedOnce(n)
<1> SUFFICES ASSUME NEW n \in Nat PROVE PaddedOnce(n)
  OBVIOUS
<1>1. PICK S, A, nb : S = SIZE_SZ /\ A = MALLOC_ALIGNMENT /\ nb = request2size(n)
  OBVIOUS
<1>2. S \in Nat \ {0} /\ A \in Nat \ {0} /\ A >= 2 * S /\ n + S + (A - 1) >= 0
  BY <1>1, Constants
<1>3. Aligned(nb) /\ nb \in Nat
  BY <1>1, <1>2, Padded DEF Aligned, MALLOC_ALIGN_MASK
<1>4. /\ nb - (A - 1) \in Int /\ nb - (A - 1) <= nb - S
      /\ nb - (A - 1) + S + (A - 1) >= nb
  BY <1>2, <1>3
<1>5. request2size(nb - (A - 1)) = nb
  BY <1>1, <1>3, <1>4, PaddedTo DEF MALLOC_ALIGN_MASK
<1> QED
  BY <1>1, <1>5 DEF PaddedOnce, MALLOC_ALIGN_MASK

-----------------------------------------------------------------------------
(* The thread cache and the fastbins                                       *)

(* The thread cache keeps what a request looks for where free puts it: one *)
(* list for each size, and the largest request has one.                    *)
THEOREM TcacheUses == \A n \in Nat : TcacheIndexes(n)
<1> SUFFICES ASSUME NEW n \in Nat PROVE TcacheIndexes(n)
  OBVIOUS
<1>1. PICK S, A, M, nb : /\ S = SIZE_SZ /\ A = MALLOC_ALIGNMENT /\ M = MINSIZE
                         /\ nb = request2size(n)
  OBVIOUS
<1>2. S \in Nat \ {0} /\ A \in Nat \ {0} /\ M \in Nat /\ n + S + (A - 1) >= 0
  BY <1>1, Constants
<1>3. PICK q \in {1, 2} : M = q * A
  BY <1>1, Constants
<1>4. PICK j \in Nat : nb = j * A /\ Aligned(nb) /\ n + S <= nb
  <2>1. n \in Int /\ n + SIZE_SZ + MALLOC_ALIGN_MASK >= 0
    BY <1>1, <1>2 DEF MALLOC_ALIGN_MASK
  <2>2. /\ Aligned(request2size(n)) /\ n + SIZE_SZ <= request2size(n)
        /\ \E j \in Nat : request2size(n) = j * MALLOC_ALIGNMENT
    BY <2>1, Padded
  <2> QED
    BY <1>1, <2>2
<1>5. nb \in Nat /\ nb >= M
  BY <1>1, <1>4 DEF Aligned
<1>6. q <= j
  <2> SUFFICES ASSUME j + 1 <= q PROVE FALSE
    BY <1>4
  <2>1. (j + 1) * A <= q * A
    BY <1>2, <1>4
  <2>2. (j + 1) * A = j * A + A /\ j * A \in Nat
    BY <1>2, <1>4
  <2> QED
    BY <1>2, <1>3, <1>4, <1>5, <2>1, <2>2
<1>7. PICK t : t = j - q
  OBVIOUS
<1>8. t \in Nat /\ nb = t * A + M
  <2>1. t \in Nat /\ j = t + q
    BY <1>4, <1>6, <1>7
  <2>2. (t + q) * A = t * A + q * A
    BY <1>2, <2>1
  <2> QED
    BY <1>3, <1>4, <2>1, <2>2
<1>9. csize2tidx(nb) = t
  <2>1. PICK a, m : a = t * A /\ m = A - 1
    OBVIOUS
  <2>2. a \in Nat /\ m \in 0..A - 1 /\ nb = a + M
    BY <1>2, <1>8, <2>1
  <2>3. nb - M + A - 1 = a + m
    BY <1>2, <2>1, <2>2
  <2>4. (t * A + m) \div A = t
    BY <1>2, <1>8, <2>2, RowAndColumn
  <2> QED
    BY <1>1, <2>1, <2>3, <2>4 DEF csize2tidx
<1>10. tidx2usize(csize2tidx(nb)) = nb - S
  <2>1. PICK a : a = t * A
    OBVIOUS
  <2>2. a \in Nat /\ nb = a + M
    BY <1>2, <1>8, <2>1
  <2>3. tidx2usize(t) = a + M - S
    BY <1>1, <2>1 DEF tidx2usize
  <2> QED
    BY <1>2, <1>9, <2>2, <2>3
<1>11. request2size(nb - S) = nb
  <2>1. nb - S \in Int /\ nb - S <= nb - S /\ nb - S + S + (A - 1) >= nb
    BY <1>2, <1>5
  <2> QED
    BY <1>1, <1>4, <2>1, PaddedTo DEF MALLOC_ALIGN_MASK
<1>12. n <= nb - S /\ t < t + 1
  BY <1>2, <1>4, <1>5, <1>8
<1> QED
  BY <1>1, <1>9, <1>10, <1>11, <1>12 DEF TcacheIndexes, usize2tidx, tcache_bins_for

(* Chunks of different sizes are on different fastbins, and each fastbin   *)
(* that free indexes is one of the array.                                  *)
THEOREM FastbinUses == \A sz : Aligned(sz) => FastIndexes(sz)
<1> SUFFICES ASSUME NEW sz, Aligned(sz), sz <= request2size(MAX_FAST_SIZE)
             PROVE  /\ fastbin_index(sz) \in 0..NFASTBINS - 1
                    /\ fastbin_index(sz) < fastbin_index(sz + MALLOC_ALIGNMENT)
  BY DEF FastIndexes
<1>1. PICK S, A, h, x : /\ S = SIZE_SZ /\ A = MALLOC_ALIGNMENT /\ h = CHUNK_HDR_SZ
                        /\ x = request2size(MAX_FAST_SIZE)
  OBVIOUS
<1>2. S \in Nat \ {0} /\ A \in Nat \ {0} /\ h \in Nat \ {0} /\ h = 2 * S /\ A >= h
  BY <1>1, Constants DEF CHUNK_HDR_SZ
<1>3. sz \in Nat /\ sz >= 4 * S
  BY <1>1, Constants DEF Aligned
<1>4. x \in Nat /\ sz <= x
  <2>1. MAX_FAST_SIZE \in Int /\ MAX_FAST_SIZE + SIZE_SZ + MALLOC_ALIGN_MASK >= 0
    BY <1>1, <1>2 DEF MAX_FAST_SIZE, MALLOC_ALIGN_MASK
  <2> QED
    BY <1>1, <2>1, Padded DEF Aligned
<1>5. PICK a, b, c : a = sz \div h /\ b = x \div h /\ c = (sz + A) \div h
  OBVIOUS
<1>6. a <= b /\ a \in Nat /\ b \in Nat
  BY <1>2, <1>3, <1>4, <1>5, DivRises
<1>7. 2 <= a
  <2>1. 2 * h \in Nat /\ (2 * h) \div h = 2 /\ 2 * h <= sz
    BY <1>2, <1>3, Multiple
  <2> QED
    BY <1>2, <1>3, <1>5, <2>1, DivRises
<1>8. a + 1 <= c /\ c \in Nat
  <2>1. PICK r : r = sz % h
    OBVIOUS
  <2>2. r \in 0..h - 1 /\ sz = a * h + r /\ h \in Nat /\ a + 1 \in Nat
    BY <1>2, <1>3, <1>5, <1>6, <2>1
  <2>3. ((a + 1) * h + r) \div h = a + 1
    BY <2>2, RowAndColumn
  <2>4. (a + 1) * h + r = sz + h
    BY <1>2, <1>6, <2>2
  <2>5. (sz + h) \div h <= (sz + A) \div h
    <3>1. sz + h \in Nat /\ sz + A \in Nat /\ sz + h <= sz + A
      BY <1>2, <1>3
    <3> QED
      BY <1>2, <3>1, DivRises
  <2>6. c \in Nat
    <3>1. sz + A \in Nat
      BY <1>2, <1>3
    <3> QED
      BY <1>2, <1>5, <3>1, DivRises
  <2> QED
    BY <1>5, <2>3, <2>4, <2>5, <2>6
<1>9. fastbin_index(sz) = a - 2 /\ fastbin_index(sz + A) = c - 2 /\ NFASTBINS = b - 2 + 1
  BY <1>1, <1>5 DEF fastbin_index, NFASTBINS
<1> QED
  BY <1>1, <1>6, <1>7, <1>8, <1>9

-----------------------------------------------------------------------------
(* The bins                                                                *)

LEMMA RowTypes ==
  /\ DOMAIN LARGEBINS = 1..Len(LARGEBINS) /\ Len(LARGEBINS) \in Nat
  /\ \A j \in DOMAIN LARGEBINS :
       /\ LARGEBINS[j].width \in Nat \ {0} /\ LARGEBINS[j].upto \in Nat
       /\ LARGEBINS[j].base \in Nat
  /\ NSMALLBINS \in 2..LASTBIN /\ LASTBIN \in Nat /\ NSMALLBINS \in Nat
  /\ MIN_LARGE_SIZE \in Nat
<1> DEFINE T == [width : Nat \ {0}, upto : Nat, base : Nat]
<1>1. LARGEBINS \in Seq(T) /\ NSMALLBINS \in 2..LASTBIN /\ LASTBIN \in Nat /\ NSMALLBINS \in Nat
  BY SizesAssumption, RangesAssumption DEF RangesJoin
<1>2. \A j \in DOMAIN LARGEBINS : LARGEBINS[j] \in T
  <2> HIDE DEF T
  <2> QED
    BY <1>1
<1>3. MIN_LARGE_SIZE \in Nat
  <2>1. PICK q \in {1, 2} : SMALLBIN_CORRECTION = 2 - q
    BY Constants
  <2>2. PICK a, c : a = MALLOC_ALIGNMENT /\ c = NSMALLBINS - SMALLBIN_CORRECTION
    OBVIOUS
  <2>3. a \in Nat /\ c \in Nat
    BY <1>1, <2>1, <2>2, Constants
  <2>4. c * a \in Nat
    BY <2>3
  <2> QED
    BY <2>2, <2>4 DEF MIN_LARGE_SIZE, SMALLBIN_WIDTH
<1>4. DOMAIN LARGEBINS = 1..Len(LARGEBINS) /\ Len(LARGEBINS) \in Nat
  <2> HIDE DEF T
  <2> QED
    BY <1>1
<1> QED
  BY <1>1, <1>2, <1>3, <1>4

(* The first row that a size belongs to.                                   *)
First(sz, i) == i \in Rows(sz) /\ \A j \in Rows(sz) : i <= j

LEMMA FirstRow ==
  ASSUME NEW sz \in Nat, Rows(sz) # {}
  PROVE  \E i \in DOMAIN LARGEBINS :
           /\ First(sz, i)
           /\ largebin_index(sz) = LARGEBINS[i].base + sz \div LARGEBINS[i].width
<1>1. Rows(sz) \in SUBSET Nat /\ Rows(sz) \subseteq DOMAIN LARGEBINS
  BY RowTypes DEF Rows
<1>2. \E i \in Rows(sz) : \A j \in Rows(sz) : i <= j
  BY <1>1, LeastElement
<1>3. PICK i : i = CHOOSE k \in Rows(sz) : \A j \in Rows(sz) : k <= j
  OBVIOUS
<1>4. i \in Rows(sz) /\ \A j \in Rows(sz) : i <= j
  BY <1>2, <1>3
<1>5. largebin_index(sz) = LARGEBINS[i].base + sz \div LARGEBINS[i].width
  BY <1>3 DEF largebin_index
<1> QED
  BY <1>1, <1>4, <1>5 DEF First

(* It gives no less than its least index.                                  *)
LEMMA FromLeast ==
  ASSUME NEW sz \in Nat, sz >= MIN_LARGE_SIZE, NEW i \in DOMAIN LARGEBINS, First(sz, i)
  PROVE  /\ least_index(i) <= LARGEBINS[i].base + sz \div LARGEBINS[i].width
         /\ sz \div LARGEBINS[i].width <= LARGEBINS[i].upto
         /\ sz \div LARGEBINS[i].width \in Nat /\ least_index(i) \in Nat
<1>1. PICK w, base : w = LARGEBINS[i].width /\ base = LARGEBINS[i].base
  OBVIOUS
<1>2. w \in Nat \ {0} /\ base \in Nat
  BY <1>1, RowTypes
<1>3. sz \div w <= LARGEBINS[i].upto
  BY <1>1 DEF First, Rows
<1>4. ASSUME NEW b \in Nat, b <= sz, least_index(i) = base + b \div w
      PROVE  least_index(i) <= base + sz \div w /\ sz \div w \in Nat /\ least_index(i) \in Nat
  <2>1. PICK x, y : x = b \div w /\ y = sz \div w
    OBVIOUS
  <2>2. x <= y /\ x \in Nat /\ y \in Nat
    <3>1. b \div w <= sz \div w /\ b \div w \in Nat
      BY <1>2, <1>4, DivRises
    <3>2. sz <= sz
      OBVIOUS
    <3>3. sz \div w \in Nat
      BY <1>2, <3>2, DivRises
    <3> QED
      BY <2>1, <3>1, <3>3
  <2> QED
    BY <1>2, <1>4, <2>1, <2>2
<1>5. CASE i = 1
  <2>1. least_index(i) = base + MIN_LARGE_SIZE \div w
    BY <1>1, <1>5 DEF least_index
  <2>2. MIN_LARGE_SIZE \in Nat
    BY RowTypes
  <2> QED
    BY <1>1, <1>3, <1>4, <2>1, <2>2
<1>6. CASE i # 1
  <2>1. PICK u, v : u = LARGEBINS[i - 1].upto /\ v = LARGEBINS[i - 1].width
    OBVIOUS
  <2>2. i - 1 \in DOMAIN LARGEBINS /\ ~(i <= i - 1)
    BY <1>6, RowTypes
  <2>3. u \in Nat /\ v \in Nat \ {0}
    BY <2>1, <2>2, RowTypes
  <2>4. ~(sz \div v <= u)
    BY <2>1, <2>2 DEF First, Rows
  <2>5. (u + 1) * v <= sz /\ (u + 1) * v \in Nat
    <3>1. PICK x, r : x = sz \div v /\ r = sz % v
      OBVIOUS
    <3>2. x \in Nat /\ r \in Nat /\ sz = x * v + r /\ u + 1 <= x
      BY <2>3, <2>4, <3>1
    <3>3. (u + 1) * v <= x * v /\ x * v \in Nat /\ (u + 1) * v \in Nat
      BY <2>3, <3>2
    <3> QED
      BY <3>2, <3>3
  <2>6. least_index(i) = base + ((u + 1) * v) \div w
    BY <1>1, <1>6, <2>1 DEF least_index
  <2> QED
    BY <1>1, <1>3, <1>4, <2>5, <2>6
<1> QED
  BY <1>5, <1>6

LEMMA LargeBounds ==
  ASSUME NEW sz \in Nat, sz >= MIN_LARGE_SIZE
  PROVE  largebin_index(sz) \in NSMALLBINS..LASTBIN
<1>1. CASE Rows(sz) = {}
  BY <1>1, RowTypes DEF largebin_index
<1>2. CASE Rows(sz) # {}
  <2>1. PICK i \in DOMAIN LARGEBINS :
          /\ First(sz, i)
          /\ largebin_index(sz) = LARGEBINS[i].base + sz \div LARGEBINS[i].width
    BY <1>2, FirstRow
  <2>2. PICK b, u, x, l : /\ b = LARGEBINS[i].base /\ u = LARGEBINS[i].upto
                          /\ x = sz \div LARGEBINS[i].width /\ l = least_index(i)
    OBVIOUS
  <2>3. b \in Nat /\ u \in Nat /\ x \in Nat /\ l \in Nat /\ l <= b + x /\ x <= u
    BY <2>1, <2>2, RowTypes, FromLeast
  <2>4. NSMALLBINS <= l /\ b + u <= LASTBIN /\ NSMALLBINS \in Nat /\ LASTBIN \in Nat
    BY <2>1, <2>2, RangesAssumption, RowTypes DEF RangesJoin
  <2> QED
    BY <2>1, <2>2, <2>3, <2>4
<1> QED
  BY <1>1, <1>2

LEMMA LargeRises ==
  ASSUME NEW sz \in Nat, NEW next \in Nat, sz >= MIN_LARGE_SIZE, sz <= next
  PROVE  largebin_index(sz) <= largebin_index(next)
<1>0. MIN_LARGE_SIZE \in Nat /\ LASTBIN \in Nat /\ NSMALLBINS \in Nat /\ next >= MIN_LARGE_SIZE
  BY RowTypes
<1>1. CASE Rows(next) = {}
  <2>1. largebin_index(next) = LASTBIN
    BY <1>1 DEF largebin_index
  <2> QED
    BY <1>0, <2>1, LargeBounds
<1>2. CASE Rows(next) # {}
  <2>1. Rows(next) \subseteq Rows(sz)
    <3> SUFFICES ASSUME NEW j \in DOMAIN LARGEBINS,
                        next \div LARGEBINS[j].width <= LARGEBINS[j].upto
                 PROVE  sz \div LARGEBINS[j].width <= LARGEBINS[j].upto
      BY DEF Rows
    <3>1. PICK w, u : w = LARGEBINS[j].width /\ u = LARGEBINS[j].upto
      OBVIOUS
    <3>2. w \in Nat \ {0} /\ u \in Nat
      BY <3>1, RowTypes
    <3>3. sz \div w <= next \div w /\ sz \div w \in Nat
      BY <3>2, DivRises
    <3>4. next <= next
      OBVIOUS
    <3>5. next \div w \in Nat
      BY <3>2, <3>4, DivRises
    <3> QED
      BY <3>1, <3>2, <3>3, <3>5
  <2>2. Rows(sz) # {}
    BY <1>2, <2>1
  <2>3. PICK i \in DOMAIN LARGEBINS :
          /\ First(sz, i)
          /\ largebin_index(sz) = LARGEBINS[i].base + sz \div LARGEBINS[i].width
    BY <2>2, FirstRow
  <2>4. PICK j \in DOMAIN LARGEBINS :
          /\ First(next, j)
          /\ largebin_index(next) = LARGEBINS[j].base + next \div LARGEBINS[j].width
    BY <1>2, FirstRow
  <2>5. PICK b, u, x : /\ b = LARGEBINS[i].base /\ u = LARGEBINS[i].upto
                       /\ x = sz \div LARGEBINS[i].width
    OBVIOUS
  <2>6. PICK c, y, l : /\ c = LARGEBINS[j].base /\ l = least_index(j)
                       /\ y = next \div LARGEBINS[j].width
    OBVIOUS
  <2>7. b \in Nat /\ u \in Nat /\ x \in Nat /\ x <= u
    BY <2>3, <2>5, RowTypes, FromLeast
  <2>8. c \in Nat /\ y \in Nat /\ l \in Nat /\ l <= c + y
    BY <1>0, <2>4, <2>6, RowTypes, FromLeast
  <2>9. i <= j
    BY <2>1, <2>3, <2>4 DEF First
  <2>10. CASE i = j
    <3>1. LARGEBINS[i].width \in Nat \ {0}
      BY RowTypes
    <3>2. x <= y
      BY <2>5, <2>6, <2>10, <3>1, DivRises
    <3>3. b = c
      BY <2>5, <2>6, <2>10
    <3> QED
      BY <2>3, <2>4, <2>5, <2>6, <2>7, <2>8, <3>2, <3>3
  <2>11. CASE i # j
    <3>1. i \in 1..j - 1
      BY <2>9, <2>11, RowTypes
    <3>2. b + u <= l
      BY <2>5, <2>6, <3>1, RangesAssumption DEF RangesJoin
    <3>3. b + x <= c + y
      BY <2>7, <2>8, <3>2
    <3> QED
      BY <2>3, <2>4, <2>5, <2>6, <3>3
  <2> QED
    BY <2>10, <2>11
<1> QED
  BY <1>1, <1>2

LEMMA SmallBounds ==
  ASSUME NEW sz, Aligned(sz), in_smallbin_range(sz)
  PROVE  /\ smallbin_index(sz) \in 2..NSMALLBINS - 1
         /\ smallbin_index(sz + MALLOC_ALIGNMENT) = smallbin_index(sz) + 1
<1>1. PICK A, M, c, t : /\ A = MALLOC_ALIGNMENT /\ M = MINSIZE /\ c = SMALLBIN_CORRECTION
                        /\ t = sz \div A
  OBVIOUS
<1>2. A \in Nat \ {0} /\ A \in Nat
  BY <1>1, Constants
<1>3. PICK q \in {1, 2} : M = q * A /\ c = 2 - q
  BY <1>1, Constants
<1>4. sz \in Nat /\ sz % A = 0 /\ sz >= M /\ sz < (NSMALLBINS - c) * A
  BY <1>1 DEF Aligned, in_smallbin_range, MIN_LARGE_SIZE, SMALLBIN_WIDTH
<1>5. t \in Nat /\ sz = t * A
  BY <1>1, <1>2, <1>4
<1>6. q <= t
  <2>1. q \in Nat /\ q * A \in Nat /\ (q * A) \div A = q
    BY <1>2, Multiple
  <2>2. q * A <= sz
    BY <1>3, <1>4
  <2> QED
    BY <1>1, <1>2, <1>4, <2>1, <2>2, DivRises
<1>7. t < NSMALLBINS - c
  <2>1. PICK n : n = NSMALLBINS - c
    OBVIOUS
  <2>2. n \in Nat /\ t * A < n * A
    BY <1>3, <1>4, <1>5, <2>1, RowTypes
  <2> SUFFICES ASSUME n <= t PROVE FALSE
    BY <1>5, <2>1, <2>2
  <2>3. n * A <= t * A /\ n * A \in Nat /\ t * A \in Nat
    BY <1>2, <1>5, <2>2
  <2> QED
    BY <2>2, <2>3
<1>8. (sz + A) \div A = t + 1
  <2>1. t + 1 \in Nat /\ (t + 1) * A = sz + A
    BY <1>2, <1>5
  <2>2. ((t + 1) * A) \div A = t + 1
    BY <1>2, <2>1, Multiple
  <2> QED
    BY <2>1, <2>2
<1>9. smallbin_index(sz) = t + c /\ smallbin_index(sz + A) = t + 1 + c
  BY <1>1, <1>8 DEF smallbin_index, SMALLBIN_WIDTH
<1>10. t + c \in 2..NSMALLBINS - 1 /\ t + 1 + c = t + c + 1
  BY <1>3, <1>5, <1>6, <1>7, RowTypes
<1> QED
  BY <1>1, <1>9, <1>10

(* A bin further on holds larger chunks, so that the first bin that is not *)
(* empty does, for chunks of every size.                                   *)
THEOREM BinsAscend == \A sz : Aligned(sz) => BinsOrdered(sz)
<1> SUFFICES ASSUME NEW sz, Aligned(sz) PROVE BinsOrdered(sz)
  OBVIOUS
<1>1. PICK next : next = sz + MALLOC_ALIGNMENT
  OBVIOUS
<1>2. /\ sz \in Nat /\ next \in Nat /\ sz <= next
      /\ MIN_LARGE_SIZE \in Nat /\ NSMALLBINS \in 2..LASTBIN /\ LASTBIN \in Nat
  BY <1>1, Constants, RowTypes DEF Aligned
<1>3. CASE in_smallbin_range(sz)
  <2>1. bin_index(sz) = smallbin_index(sz) /\ smallbin_index(sz) \in 2..NSMALLBINS - 1
        /\ smallbin_index(next) = smallbin_index(sz) + 1
    BY <1>1, <1>3, SmallBounds DEF bin_index
  <2>2. CASE in_smallbin_range(next)
    <3>1. bin_index(next) = smallbin_index(sz) + 1
      BY <2>1, <2>2 DEF bin_index
    <3> QED
      BY <1>1, <1>2, <2>1, <3>1 DEF BinsOrdered
  <2>3. CASE ~in_smallbin_range(next)
    <3>1. bin_index(next) \in NSMALLBINS..LASTBIN
      BY <1>2, <2>3, LargeBounds DEF bin_index, in_smallbin_range
    <3> QED
      BY <1>1, <1>2, <2>1, <3>1 DEF BinsOrdered
  <2> QED
    BY <2>2, <2>3
<1>4. CASE ~in_smallbin_range(sz)
  <2>1. sz >= MIN_LARGE_SIZE /\ ~in_smallbin_range(next)
    BY <1>2, <1>4 DEF in_smallbin_range
  <2>2. bin_index(sz) = largebin_index(sz) /\ bin_index(next) = largebin_index(next)
    BY <1>4, <2>1 DEF bin_index
  <2>3. /\ largebin_index(sz) \in NSMALLBINS..LASTBIN
        /\ largebin_index(sz) <= largebin_index(next)
    BY <1>2, <2>1, LargeBounds, LargeRises
  <2> QED
    BY <1>1, <1>2, <1>4, <2>2, <2>3 DEF BinsOrdered
<1> QED
  BY <1>3, <1>4

-----------------------------------------------------------------------------
(* Sequences without repetition, and families of them                      *)

Inj(s) == \A k, l \in DOMAIN s : s[k] = s[l] => k = l

(* A stretch of a sequence.                                                *)
LEMMA Stretch ==
  ASSUME NEW s \in Seq(Nat), Inj(s), NEW a \in 1..Len(s) + 1, NEW b \in 0..Len(s), a <= b + 1
  PROVE  /\ SubSeq(s, a, b) \in Seq(Nat) /\ Inj(SubSeq(s, a, b))
         /\ Len(SubSeq(s, a, b)) = b + 1 - a
         /\ \A k \in 1..b + 1 - a : SubSeq(s, a, b)[k] = s[a + k - 1]
         /\ ToSet(SubSeq(s, a, b)) = {s[k] : k \in a..b}
<1>1. PICK t, n : t = SubSeq(s, a, b) /\ n = Len(s)
  OBVIOUS
<1>2. /\ t \in Seq(Nat) /\ Len(t) = b + 1 - a /\ DOMAIN t = 1..b + 1 - a
      /\ n \in Nat /\ DOMAIN s = 1..n /\ a \in 1..n + 1 /\ b \in 0..n
      /\ \A k \in 1..b + 1 - a : t[k] = s[a + k - 1]
  BY <1>1
<1>3. Inj(t)
  <2> SUFFICES ASSUME NEW k \in 1..b + 1 - a, NEW l \in 1..b + 1 - a, t[k] = t[l] PROVE k = l
    BY <1>2 DEF Inj
  <2>1. a + k - 1 \in 1..n /\ a + l - 1 \in 1..n
    BY <1>2
  <2>2. s[a + k - 1] = s[a + l - 1]
    BY <1>2
  <2>3. a + k - 1 = a + l - 1
    BY <1>2, <2>1, <2>2 DEF Inj
  <2> QED
    BY <1>2, <2>3
<1>4. ToSet(t) = {s[k] : k \in a..b}
  <2>1. ASSUME NEW k \in a..b PROVE s[k] \in ToSet(t)
    <3>1. k - a + 1 \in 1..b + 1 - a /\ a + (k - a + 1) - 1 = k
      OBVIOUS
    <3>2. t[k - a + 1] = s[k]
      BY <1>2, <3>1
    <3> QED
      BY <1>2, <3>1, <3>2 DEF ToSet
  <2>2. ASSUME NEW x \in ToSet(t) PROVE x \in {s[k] : k \in a..b}
    <3>1. PICK j \in 1..b + 1 - a : x = t[j]
      BY <1>2 DEF ToSet
    <3>2. a + j - 1 \in a..b /\ x = s[a + j - 1]
      BY <1>2, <3>1
    <3> QED
      BY <3>2
  <2> QED
    BY <2>1, <2>2
<1> QED
  BY <1>1, <1>2, <1>3, <1>4

(* Two sequences that share nothing.                                       *)
LEMMA Joined ==
  ASSUME NEW r \in Seq(Nat), NEW s \in Seq(Nat), Inj(r), Inj(s), ToSet(r) \cap ToSet(s) = {}
  PROVE  /\ r \o s \in Seq(Nat) /\ Inj(r \o s)
         /\ ToSet(r \o s) = ToSet(r) \cup ToSet(s) /\ Len(r \o s) = Len(r) + Len(s)
<1>1. PICK t, m, n : t = r \o s /\ m = Len(r) /\ n = Len(s)
  OBVIOUS
<1>2. /\ t \in Seq(Nat) /\ Len(t) = m + n /\ m \in Nat /\ n \in Nat
      /\ DOMAIN t = 1..m + n /\ DOMAIN s = 1..n /\ DOMAIN r = 1..m
  BY <1>1
<1>3. /\ \A k \in 1..m : t[k] = r[k]
      /\ \A k \in m + 1..m + n : t[k] = s[k - m]
  BY <1>1
<1>4. \A k \in 1..m, l \in 1..n : r[k] # s[l]
  BY <1>2 DEF ToSet
<1>5. \A k \in 1..m + n : k \in 1..m \/ (k \in m + 1..m + n /\ k - m \in 1..n)
  BY <1>2
<1>6. Inj(t)
  <2> SUFFICES ASSUME NEW k \in 1..m + n, NEW l \in 1..m + n, t[k] = t[l] PROVE k = l
    BY <1>2 DEF Inj
  <2>1. CASE k \in 1..m /\ l \in 1..m
    BY <1>2, <1>3, <2>1 DEF Inj
  <2>2. CASE k \in m + 1..m + n /\ l \in m + 1..m + n
    <3>1. k - m \in 1..n /\ l - m \in 1..n /\ s[k - m] = s[l - m]
      BY <1>2, <1>3, <2>2
    <3>2. k - m = l - m
      BY <1>2, <3>1 DEF Inj
    <3> QED
      BY <1>2, <3>2
  <2>3. CASE k \in 1..m /\ l \in m + 1..m + n
    <3>1. l - m \in 1..n /\ t[l] = s[l - m] /\ t[k] = r[k]
      BY <1>2, <1>3, <2>3
    <3> QED
      BY <1>4, <2>3, <3>1
  <2>4. CASE k \in m + 1..m + n /\ l \in 1..m
    <3>1. k - m \in 1..n /\ t[k] = s[k - m] /\ t[l] = r[l]
      BY <1>2, <1>3, <2>4
    <3> QED
      BY <1>4, <2>4, <3>1
  <2> QED
    BY <1>5, <2>1, <2>2, <2>3, <2>4
<1>7. ToSet(t) = ToSet(r) \cup ToSet(s)
  <2>1. ASSUME NEW j \in 1..n PROVE s[j] \in ToSet(t)
    <3>1. m + j \in 1..m + n /\ m + j \in m + 1..m + n /\ (m + j) - m = j
      BY <1>2
    <3>2. t[m + j] = s[j]
      BY <1>3, <3>1
    <3> QED
      BY <1>2, <3>1, <3>2 DEF ToSet
  <2>2. ASSUME NEW j \in 1..m PROVE r[j] \in ToSet(t)
    <3>1. j \in 1..m + n /\ t[j] = r[j]
      BY <1>2, <1>3
    <3> QED
      BY <1>2, <3>1 DEF ToSet
  <2>3. ASSUME NEW k \in 1..m + n PROVE t[k] \in ToSet(r) \cup ToSet(s)
    <3>1. CASE k \in 1..m
      BY <1>2, <1>3, <3>1 DEF ToSet
    <3>2. CASE k \in m + 1..m + n /\ k - m \in 1..n
      BY <1>2, <1>3, <3>2 DEF ToSet
    <3> QED
      BY <1>5, <3>1, <3>2
  <2> QED
    BY <1>2, <2>1, <2>2, <2>3 DEF ToSet
<1> QED
  BY <1>1, <1>2, <1>6, <1>7

(* One more in front, or behind.                                           *)
LEMMA One ==
  ASSUME NEW p \in Nat
  PROVE  <<p>> \in Seq(Nat) /\ Inj(<<p>>) /\ ToSet(<<p>>) = {p} /\ Len(<<p>>) = 1
BY DEF Inj, ToSet

LEMMA Pushed ==
  ASSUME NEW s \in Seq(Nat), Inj(s), NEW p \in Nat, p \notin ToSet(s)
  PROVE  /\ <<p>> \o s \in Seq(Nat) /\ Inj(<<p>> \o s)
         /\ ToSet(<<p>> \o s) = {p} \cup ToSet(s) /\ Len(<<p>> \o s) = Len(s) + 1
<1>1. PICK r : r = <<p>>
  OBVIOUS
<1>2. r \in Seq(Nat) /\ Inj(r) /\ ToSet(r) = {p} /\ Len(r) = 1 /\ Len(s) \in Nat
  BY <1>1, One
<1>3. ToSet(r) \cap ToSet(s) = {}
  BY <1>2
<1>4. r \o s \in Seq(Nat) /\ Inj(r \o s) /\ ToSet(r \o s) = ToSet(r) \cup ToSet(s) /\ Len(r \o s) = Len(r) + Len(s)
  BY <1>2, <1>3, Joined
<1> QED
  BY <1>1, <1>2, <1>4

LEMMA Appended ==
  ASSUME NEW s \in Seq(Nat), Inj(s), NEW p \in Nat, p \notin ToSet(s)
  PROVE  /\ Append(s, p) \in Seq(Nat) /\ Inj(Append(s, p))
         /\ ToSet(Append(s, p)) = ToSet(s) \cup {p}
<1>1. ToSet(s) \cap ToSet(<<p>>) = {}
  BY One
<1>2. Append(s, p) = s \o <<p>>
  OBVIOUS
<1> QED
  BY <1>1, <1>2, One, Joined

LEMMA Reversed ==
  ASSUME NEW s \in Seq(Nat), Inj(s)
  PROVE  /\ Reverse(s) \in Seq(Nat) /\ Inj(Reverse(s)) /\ ToSet(Reverse(s)) = ToSet(s)
         /\ Len(Reverse(s)) = Len(s)
<1>1. PICK t, n : t = Reverse(s) /\ n = Len(s)
  OBVIOUS
<1>2. /\ n \in Nat /\ DOMAIN s = 1..n /\ t = [i \in 1..n |-> s[(n - i) + 1]]
      /\ \A i \in 1..n : (n - i) + 1 \in 1..n
  BY <1>1 DEF Reverse
<1>3. t \in Seq(Nat) /\ Len(t) = n /\ DOMAIN t = 1..n
  <2>1. t \in [1..n -> Nat]
    BY <1>2
  <2> QED
    BY <1>2, <2>1
<1>4. Inj(t)
  <2> SUFFICES ASSUME NEW k \in 1..n, NEW l \in 1..n, t[k] = t[l] PROVE k = l
    BY <1>3 DEF Inj
  <2>1. (n - k) + 1 = (n - l) + 1
    BY <1>2 DEF Inj
  <2> QED
    BY <1>2, <2>1
<1>5. ToSet(t) = ToSet(s)
  <2>1. ASSUME NEW j \in 1..n PROVE s[j] \in ToSet(t)
    <3>1. (n - j) + 1 \in 1..n /\ (n - ((n - j) + 1)) + 1 = j
      BY <1>2
    <3>2. t[(n - j) + 1] = s[j]
      BY <1>2, <3>1
    <3> QED
      BY <1>3, <3>1, <3>2 DEF ToSet
  <2>2. ASSUME NEW j \in 1..n PROVE t[j] \in ToSet(s)
    BY <1>2 DEF ToSet
  <2> QED
    BY <1>2, <1>3, <2>1, <2>2 DEF ToSet
<1> QED
  BY <1>1, <1>3, <1>4, <1>5

LEMMA Removed ==
  ASSUME NEW s \in Seq(Nat), Inj(s), NEW k \in DOMAIN s
  PROVE  /\ RemoveAt(s, k) \in Seq(Nat) /\ Inj(RemoveAt(s, k))
         /\ ToSet(RemoveAt(s, k)) = ToSet(s) \ {s[k]}
<1>1. PICK a, b, n : a = SubSeq(s, 1, k - 1) /\ b = SubSeq(s, k + 1, Len(s)) /\ n = Len(s)
  OBVIOUS
<1>2. n \in Nat /\ DOMAIN s = 1..n /\ k \in 1..n /\ RemoveAt(s, k) = a \o b
  BY <1>1 DEF RemoveAt
<1>3. a \in Seq(Nat) /\ Inj(a) /\ ToSet(a) = {s[j] : j \in 1..k - 1}
  <2>1. 1 \in 1..n + 1 /\ k - 1 \in 0..n /\ 1 <= (k - 1) + 1
    BY <1>2
  <2> QED
    BY <1>1, <2>1, Stretch
<1>4. b \in Seq(Nat) /\ Inj(b) /\ ToSet(b) = {s[j] : j \in k + 1..n}
  <2>1. k + 1 \in 1..n + 1 /\ n \in 0..n /\ k + 1 <= n + 1
    BY <1>2
  <2> QED
    BY <1>1, <2>1, Stretch
<1>5. ToSet(a) \cap ToSet(b) = {}
  <2> SUFFICES ASSUME NEW x, x \in ToSet(a), x \in ToSet(b) PROVE FALSE
    OBVIOUS
  <2>1. PICK i \in 1..k - 1 : x = s[i]
    BY <1>3
  <2>2. PICK j \in k + 1..n : x = s[j]
    BY <1>4
  <2>3. i \in DOMAIN s /\ j \in DOMAIN s /\ i # j
    BY <1>2
  <2> QED
    BY <2>1, <2>2, <2>3 DEF Inj
<1>6. a \o b \in Seq(Nat) /\ Inj(a \o b) /\ ToSet(a \o b) = ToSet(a) \cup ToSet(b)
  BY <1>3, <1>4, <1>5, Joined
<1>7. ToSet(a) \cup ToSet(b) = ToSet(s) \ {s[k]}
  <2>1. ASSUME NEW j \in 1..k - 1 PROVE s[j] \in ToSet(s) \ {s[k]}
    <3>1. j \in DOMAIN s /\ j # k
      BY <1>2
    <3> QED
      BY <3>1 DEF Inj, ToSet
  <2>2. ASSUME NEW j \in k + 1..n PROVE s[j] \in ToSet(s) \ {s[k]}
    <3>1. j \in DOMAIN s /\ j # k
      BY <1>2
    <3> QED
      BY <3>1 DEF Inj, ToSet
  <2>3. ASSUME NEW x \in ToSet(s) \ {s[k]} PROVE x \in ToSet(a) \cup ToSet(b)
    <3>1. PICK j \in 1..n : x = s[j]
      BY <1>2 DEF ToSet
    <3>2. j \in 1..k - 1 \/ j \in k + 1..n
      BY <1>2, <3>1
    <3> QED
      BY <1>3, <1>4, <3>1, <3>2
  <2> QED
    BY <1>3, <1>4, <2>1, <2>2, <2>3
<1> QED
  BY <1>2, <1>6, <1>7

LEMMA Inserted ==
  ASSUME NEW s \in Seq(Nat), Inj(s), NEW k \in 1..Len(s) + 1, NEW p \in Nat, p \notin ToSet(s)
  PROVE  /\ InsertAt(s, k, p) \in Seq(Nat) /\ Inj(InsertAt(s, k, p))
         /\ ToSet(InsertAt(s, k, p)) = ToSet(s) \cup {p}
<1>1. PICK a, b, n : a = SubSeq(s, 1, k - 1) /\ b = SubSeq(s, k, Len(s)) /\ n = Len(s)
  OBVIOUS
<1>2. n \in Nat /\ DOMAIN s = 1..n /\ k \in 1..n + 1
  BY <1>1
<1>3. a \in Seq(Nat) /\ Inj(a) /\ ToSet(a) = {s[j] : j \in 1..k - 1}
  <2>1. 1 \in 1..n + 1 /\ k - 1 \in 0..n /\ 1 <= (k - 1) + 1
    BY <1>2
  <2> QED
    BY <1>1, <2>1, Stretch
<1>4. b \in Seq(Nat) /\ Inj(b) /\ ToSet(b) = {s[j] : j \in k..n}
  <2>1. k \in 1..n + 1 /\ n \in 0..n /\ k <= n + 1
    BY <1>2
  <2> QED
    BY <1>1, <2>1, Stretch
<1>5. ToSet(a) \cap ToSet(b) = {}
  <2> SUFFICES ASSUME NEW x, x \in ToSet(a), x \in ToSet(b) PROVE FALSE
    OBVIOUS
  <2>1. PICK i \in 1..k - 1 : x = s[i]
    BY <1>3
  <2>2. PICK j \in k..n : x = s[j]
    BY <1>4
  <2>3. i \in DOMAIN s /\ j \in DOMAIN s /\ i # j
    BY <1>2
  <2> QED
    BY <2>1, <2>2, <2>3 DEF Inj
<1>10. ToSet(a) \cup ToSet(b) = ToSet(s)
  <2>1. ASSUME NEW j \in 1..n PROVE s[j] \in ToSet(a) \cup ToSet(b)
    <3>1. j \in 1..k - 1 \/ j \in k..n
      BY <1>2
    <3> QED
      BY <1>3, <1>4, <3>1
  <2>2. \A j \in 1..k - 1 : j \in 1..n
    BY <1>2
  <2>3. \A j \in k..n : j \in 1..n
    BY <1>2
  <2>4. ToSet(s) = {s[j] : j \in 1..n}
    BY <1>2 DEF ToSet
  <2> QED
    BY <1>3, <1>4, <2>1, <2>2, <2>3, <2>4
<1>6. <<p>> \o b \in Seq(Nat) /\ Inj(<<p>> \o b) /\ ToSet(<<p>> \o b) = {p} \cup ToSet(b)
  BY <1>4, <1>10, Pushed
<1>7. ToSet(a) \cap ToSet(<<p>> \o b) = {}
  BY <1>5, <1>6, <1>10
<1>8. /\ a \o (<<p>> \o b) \in Seq(Nat) /\ Inj(a \o (<<p>> \o b))
      /\ ToSet(a \o (<<p>> \o b)) = ToSet(a) \cup ToSet(<<p>> \o b)
  BY <1>3, <1>6, <1>7, Joined
<1>9. InsertAt(s, k, p) = a \o (<<p>> \o b)
  <2>1. InsertAt(s, k, p) = (a \o <<p>>) \o b
    BY <1>1 DEF InsertAt
  <2>2. <<p>> \in Seq(Nat)
    OBVIOUS
  <2> QED
    BY <1>3, <1>4, <2>1, <2>2, ConcatAssociative
<1> QED
  BY <1>6, <1>8, <1>9, <1>10

(* One list of a family changes.                                           *)
Family(l, I) == l \in [I -> Seq(Nat)] /\ Once(l)
List(s)      == s \in Seq(Nat) /\ Inj(s)

(* s has what was on the list i, and what was on none.                     *)
Changes(l, i, s) == \A x \in ToSet(s) : x \in ToSet(l[i]) \/ x \notin Elements(l)

Becomes(l, i, s, k) == k = [l EXCEPT ![i] = s]

Swaps(l, i, s, k) == Elements(k) = (Elements(l) \ ToSet(l[i])) \cup ToSet(s)

LEMMA ListChanges ==
  ASSUME NEW I, NEW F, Family(F, I), NEW i \in I, NEW s, List(s), Changes(F, i, s),
         NEW G, Becomes(F, i, s, G)
  PROVE  /\ Family(G, I) /\ G[i] = s
         /\ \A j \in I \ {i} : G[j] = F[j]
         /\ Elements(G) = (Elements(F) \ ToSet(F[i])) \cup ToSet(s)
<1>1. G \in [I -> Seq(Nat)] /\ G[i] = s /\ \A j \in I \ {i} : G[j] = F[j]
  BY DEF Family, List, Becomes
<1>2. \A j \in I \ {i} : ToSet(F[j]) \cap ToSet(F[i]) = {}
  BY DEF Family, Once, ToSet
<1>3. \A j \in I \ {i} : ToSet(F[j]) \cap ToSet(s) = {}
  BY <1>2 DEF Elements, Changes, Family
<1>4. Once(G)
  <2> SUFFICES ASSUME NEW j \in I, NEW l \in I, NEW a \in DOMAIN G[j], NEW b \in DOMAIN G[l],
                      G[j][a] = G[l][b]
               PROVE  j = l /\ a = b
    BY <1>1 DEF Once
  <2>1. CASE j = i /\ l = i
    BY <1>1, <2>1 DEF Inj, List
  <2>2. CASE j = i /\ l # i
    <3>1. G[j][a] \in ToSet(s) /\ G[l][b] \in ToSet(F[l])
      BY <1>1, <2>2 DEF ToSet
    <3> QED
      BY <1>3, <2>2, <3>1
  <2>3. CASE j # i /\ l = i
    <3>1. G[j][a] \in ToSet(F[j]) /\ G[l][b] \in ToSet(s)
      BY <1>1, <2>3 DEF ToSet
    <3> QED
      BY <1>3, <2>3, <3>1
  <2>4. CASE j # i /\ l # i
    BY <1>1, <2>4 DEF Once, Family
  <2> QED
    BY <2>1, <2>2, <2>3, <2>4
<1>5. Elements(G) = (Elements(F) \ ToSet(F[i])) \cup ToSet(s)
  <2>1. DOMAIN F = I /\ DOMAIN G = I
    BY <1>1 DEF Family
  <2> QED
    <3>1. ToSet(G[i]) = ToSet(s) /\ \A j \in I \ {i} : ToSet(G[j]) = ToSet(F[j])
      BY <1>1
    <3>2. Elements(G) = UNION {ToSet(G[j]) : j \in I} /\ Elements(F) = UNION {ToSet(F[j]) : j \in I}
      BY <2>1 DEF Elements
    <3> QED
      BY <1>2, <3>1, <3>2
<1>6. Family(G, I)
  BY <1>1, <1>4, Zenon DEF Family
<1> QED
  BY <1>1, <1>5, <1>6, Zenon

LEMMA ListInj ==
  ASSUME NEW I, NEW F, Family(F, I), NEW i \in I
  PROVE  List(F[i]) /\ ToSet(F[i]) \subseteq Elements(F)
<1>1. F[i] \in Seq(Nat) /\ DOMAIN F = I
  BY DEF Family
<1>2. Inj(F[i])
  BY <1>1 DEF Once, Inj, Family
<1>3. ToSet(F[i]) \subseteq Elements(F)
  BY <1>1 DEF Elements
<1> QED
  BY <1>1, <1>2, <1>3 DEF List

-----------------------------------------------------------------------------
(* Stacks of calls                                                         *)

LEMMA StackTail ==
  ASSUME NEW s, NEW base, NEW c, NEW m, NEW h, StackOK(s, base, c, m, h), s # << >>
  PROVE  /\ s \in Seq(Frames) /\ s[1] \in Frames /\ Tail(s) \in Seq(Frames)
         /\ StackOK(Tail(s), base, c, m, h)
         /\ FrameOK(s[1], Topmost(Tail(s)), base, c, m, h)
         /\ OnStack(s) = Holds(s[1]) \cup OnStack(Tail(s))
         /\ Holds(s[1]) \cap OnStack(Tail(s)) = {}
         /\ Tail(s) # << >> => Waits(Tail(s)[1])
<1>1. PICK t, n : t = Tail(s) /\ n = Len(t)
  OBVIOUS
<1>2. s \in Seq(Frames)
  BY DEF StackOK
<1>3. /\ t \in Seq(Frames) /\ n \in Nat /\ Len(s) = n + 1 /\ DOMAIN t = 1..n /\ DOMAIN s = 1..n + 1
      /\ \A i \in 1..n : t[i] = s[i + 1]
      /\ s[1] \in Frames
  BY <1>1, <1>2
<1>4. \A i \in 1..n : i + 1 \in 1..n + 1 /\ i + 1 > 1 /\ i + 1 # 1
  BY <1>3
<1>5. \A i \in 1..n : Under(t, i) = Under(s, i + 1)
  BY <1>1, <1>3 DEF Under
<1>6. \A i \in 1..n : FrameOK(t[i], Under(t, i), base, c, m, h) /\ Waits(t[i])
  BY <1>3, <1>4, <1>5 DEF StackOK
<1>7. ASSUME NEW i \in 1..n, NEW j \in 1..n, i # j PROVE Holds(t[i]) \cap Holds(t[j]) = {}
  <2>1. i + 1 \in DOMAIN s /\ j + 1 \in DOMAIN s /\ i + 1 # j + 1
    BY <1>3, <1>7
  <2> QED
    BY <1>3, <2>1 DEF StackOK
<1>8. StackOK(t, base, c, m, h)
  BY <1>3, <1>6, <1>7 DEF StackOK
<1>9. FrameOK(s[1], Topmost(t), base, c, m, h)
  <2>1. Under(s, 1) = Topmost(t)
    <3>1. n = 0 <=> t = << >>
      BY <1>3
    <3> QED
      BY <1>3, <1>4, <3>1 DEF Under, Topmost
  <2>2. 1 \in DOMAIN s
    BY <1>3
  <2> QED
    BY <2>1, <2>2 DEF StackOK
<1>10. OnStack(s) = Holds(s[1]) \cup OnStack(t)
  <2>1. ASSUME NEW i \in 1..n + 1 PROVE Holds(s[i]) \subseteq Holds(s[1]) \cup OnStack(t)
    <3>1. CASE i = 1
      BY <3>1
    <3>2. CASE i # 1
      <4>1. i - 1 \in 1..n /\ s[i] = t[i - 1]
        BY <1>3, <3>2
      <4> QED
        BY <1>3, <4>1 DEF OnStack
    <3> QED
      BY <3>1, <3>2
  <2>2. ASSUME NEW i \in 1..n PROVE Holds(t[i]) \subseteq OnStack(s)
    BY <1>3, <1>4 DEF OnStack
  <2>3. Holds(s[1]) \subseteq OnStack(s)
    <3>1. 1 \in DOMAIN s
      BY <1>3
    <3> QED
      BY <3>1 DEF OnStack
  <2> QED
    BY <1>3, <2>1, <2>2, <2>3 DEF OnStack
<1>11. Holds(s[1]) \cap OnStack(t) = {}
  <2>1. ASSUME NEW i \in 1..n PROVE Holds(s[1]) \cap Holds(t[i]) = {}
    <3>1. 1 \in DOMAIN s /\ i + 1 \in DOMAIN s /\ 1 # i + 1 /\ t[i] = s[i + 1]
      BY <1>3
    <3> QED
      BY <3>1 DEF StackOK
  <2> QED
    BY <1>3, <2>1 DEF OnStack
<1>12. t # << >> => Waits(t[1])
  <2> SUFFICES ASSUME t # << >> PROVE 1 \in 1..n
    BY <1>6
  <2> QED
    BY <1>1, <1>3
<1> QED
  BY <1>1, <1>2, <1>3, <1>8, <1>9, <1>10, <1>11, <1>12

LEMMA StackPush ==
  ASSUME NEW t, NEW f, NEW base, NEW c, NEW m, NEW h, StackOK(t, base, c, m, h),
         FrameOK(f, Topmost(t), base, c, m, h), t # << >> => Waits(t[1]),
         Holds(f) \cap OnStack(t) = {}
  PROVE  /\ StackOK(<<f>> \o t, base, c, m, h)
         /\ OnStack(<<f>> \o t) = Holds(f) \cup OnStack(t)
<1>1. PICK s, n : s = <<f>> \o t /\ n = Len(t)
  OBVIOUS
<1>2. t \in Seq(Frames) /\ f \in Frames
  BY DEF StackOK, FrameOK
<1>3. /\ s \in Seq(Frames) /\ n \in Nat /\ Len(s) = n + 1 /\ DOMAIN t = 1..n /\ DOMAIN s = 1..n + 1
      /\ \A i \in 1..n : t[i] = s[i + 1]
      /\ s[1] = f
  BY <1>1, <1>2
<1>4. \A i \in 1..n + 1 : i = 1 \/ (i > 1 /\ i - 1 \in 1..n /\ s[i] = t[i - 1])
  BY <1>3
<1>5. Under(s, 1) = Topmost(t)
  BY <1>1, <1>2, <1>3 DEF Under, Topmost
<1>6. \A i \in 1..n + 1 : i > 1 => Under(s, i) = Under(t, i - 1)
  BY <1>1, <1>3 DEF Under
<1>7. ASSUME NEW i \in 1..n + 1 PROVE FrameOK(s[i], Under(s, i), base, c, m, h)
  <2>1. CASE i = 1
    BY <1>3, <1>5, <2>1
  <2>2. CASE i > 1
    <3>1. i - 1 \in DOMAIN t /\ s[i] = t[i - 1] /\ Under(s, i) = Under(t, i - 1)
      BY <1>3, <1>4, <1>6, <2>2
    <3> QED
      BY <3>1 DEF StackOK
  <2> QED
    BY <1>3, <2>1, <2>2
<1>8. ASSUME NEW i \in 1..n + 1, i > 1 PROVE Waits(s[i])
  <2>1. i - 1 \in 1..n /\ s[i] = t[i - 1]
    BY <1>3, <1>8
  <2>2. CASE i - 1 = 1
    <3>1. t # << >>
      BY <1>1, <1>3, <2>1
    <3> QED
      BY <2>1, <2>2, <3>1
  <2>3. CASE i - 1 > 1
    BY <1>3, <2>1, <2>3 DEF StackOK
  <2> QED
    BY <1>3, <2>1, <2>2, <2>3
<1>9. ASSUME NEW i \in 1..n PROVE Holds(f) \cap Holds(t[i]) = {}
  BY <1>3 DEF OnStack
<1>10. ASSUME NEW i \in 1..n + 1, NEW j \in 1..n + 1, i # j PROVE Holds(s[i]) \cap Holds(s[j]) = {}
  <2>1. CASE i = 1 \/ j = 1
    BY <1>3, <1>4, <1>9, <1>10, <2>1
  <2>2. CASE i # 1 /\ j # 1
    <3>1. i - 1 \in DOMAIN t /\ j - 1 \in DOMAIN t /\ i - 1 # j - 1
      BY <1>3, <1>10, <2>2
    <3>2. s[i] = t[i - 1] /\ s[j] = t[j - 1]
      BY <1>4, <2>2
    <3> QED
      BY <3>1, <3>2 DEF StackOK
  <2> QED
    BY <2>1, <2>2
<1>11. StackOK(s, base, c, m, h)
  BY <1>3, <1>7, <1>8, <1>10 DEF StackOK
<1>12. OnStack(s) = Holds(f) \cup OnStack(t)
  <2>1. ASSUME NEW i \in 1..n + 1 PROVE Holds(s[i]) \subseteq Holds(f) \cup OnStack(t)
    BY <1>3, <1>4 DEF OnStack
  <2>2. ASSUME NEW i \in 1..n PROVE Holds(t[i]) \subseteq OnStack(s)
    <3>1. i + 1 \in DOMAIN s
      BY <1>3
    <3> QED
      BY <1>3, <3>1 DEF OnStack
  <2>3. Holds(f) \subseteq OnStack(s)
    <3>1. 1 \in DOMAIN s
      BY <1>3
    <3> QED
      BY <1>3, <3>1 DEF OnStack
  <2> QED
    BY <1>3, <2>1, <2>2, <2>3 DEF OnStack
<1> QED
  BY <1>1, <1>11, <1>12

LEMMA StackEmpty ==
  ASSUME NEW base, NEW c, NEW m, NEW h
  PROVE  StackOK(<< >>, base, c, m, h) /\ OnStack(<< >>) = {}
BY DEF StackOK, OnStack

LEMMA BasePush ==
  ASSUME NEW t \in Seq(Frames), NEW f \in Frames
  PROVE  Base(<<f>> \o t) = IF t # << >> THEN Base(t)
                            ELSE IF f.at = "deliver" THEN f ELSE Nothing
<1>1. PICK s, n : s = <<f>> \o t /\ n = Len(t)
  OBVIOUS
<1>2. /\ s # << >> /\ n \in Nat /\ Len(s) = n + 1 /\ \A i \in 1..n : t[i] = s[i + 1]
      /\ s[1] = f /\ (n = 0 <=> t = << >>)
  BY <1>1
<1>3. CASE t = << >>
  BY <1>1, <1>2, <1>3 DEF Base
<1>4. CASE t # << >>
  <2>1. n \in 1..n /\ s[n + 1] = t[n]
    BY <1>2, <1>4
  <2> QED
    BY <1>1, <1>2, <1>4, <2>1 DEF Base
<1> QED
  BY <1>3, <1>4

LEMMA Parts ==
  ASSUME NEW s \in Seq(Frames), s # << >>
  PROVE  s = <<s[1]>> \o Tail(s) /\ Head(s) = s[1]
OBVIOUS

(* What a frame knows of a chunk or mapping stays true while neither       *)
(* changes its size.                                                       *)
Steady(p, c, m, c2, m2) ==
  /\ p \in DOMAIN c => p \in DOMAIN c2 /\ c2[p].size = c[p].size
  /\ p \in DOMAIN m <=> p \in DOMAIN m2
  /\ p \in DOMAIN m => m2[p] = m[p]

LEMMA FrameSteady ==
  ASSUME NEW f, NEW b, NEW base, NEW c, NEW m, NEW h, NEW c2, NEW m2, NEW h2,
         FrameOK(f, b, base, c, m, h),
         \A p \in Holds(f) : Steady(p, c, m, c2, m2),
         \A p \in DOMAIN h2 : p = base.p => p \in DOMAIN h /\ h2[p] = h[p]
  PROVE  FrameOK(f, b, base, c2, m2, h2)
<1>1. f.at \in Holders => Steady(f.p, c, m, c2, m2)
  BY DEF Holds
<1>2. f.at \in Holders => room(f.p, c2, m2) = room(f.p, c, m)
  BY <1>1 DEF Steady, room, FrameOK
<1> QED
  BY <1>1, <1>2 DEF Steady, FrameOK, Holders, Reallocs, Frees

LEMMA StackSteady ==
  ASSUME NEW s, NEW base, NEW c, NEW m, NEW h, NEW c2, NEW m2, NEW h2,
         StackOK(s, base, c, m, h),
         \A p \in OnStack(s) : Steady(p, c, m, c2, m2),
         \A p \in DOMAIN h2 : p = base.p => p \in DOMAIN h /\ h2[p] = h[p]
  PROVE  StackOK(s, base, c2, m2, h2)
<1>1. ASSUME NEW i \in DOMAIN s PROVE FrameOK(s[i], Under(s, i), base, c2, m2, h2)
  <2>1. FrameOK(s[i], Under(s, i), base, c, m, h)
    BY DEF StackOK
  <2>2. \A p \in Holds(s[i]) : Steady(p, c, m, c2, m2)
    BY DEF OnStack
  <2> QED
    BY <2>1, <2>2, FrameSteady
<1> QED
  BY <1>1 DEF StackOK

(* Frames above the bottom, and those that wait below one of them.         *)
Above(f)   == f.at # "deliver"
Waiting(t) == Waits(Topmost(t))

(* A stack is a frame on top of a stack.                                   *)
LEMMA Pops ==
  ASSUME NEW s, NEW c, NEW m, NEW h, Legal(s, c, m, h), s # << >>,
         NEW f, f = Head(s), NEW t, t = Tail(s)
  PROVE  /\ s \in Seq(Frames) /\ t \in Seq(Frames) /\ f \in Frames /\ Head(s) = f /\ Topmost(s) = f
         /\ OnStack(s) = Holds(f) \cup OnStack(t) /\ Holds(f) \cap OnStack(t) = {}
         /\ Waiting(t)
         /\ FrameOK(f, Topmost(t), Base(s), c, m, h)
         /\ Above(f) => Base(t) = Base(s) /\ Legal(t, c, m, h)
         /\ ~Above(f) => t = << >> /\ Base(s) = f
<1>1. PICK b : b = Base(s)
  OBVIOUS
<1>2. /\ s \in Seq(Frames) /\ f \in Frames /\ t \in Seq(Frames) /\ StackOK(t, b, c, m, h)
      /\ FrameOK(f, Topmost(t), b, c, m, h)
      /\ OnStack(s) = Holds(f) \cup OnStack(t) /\ Holds(f) \cap OnStack(t) = {}
      /\ t # << >> => Waits(t[1])
  BY <1>1, StackTail DEF Legal
<1>3. s = <<f>> \o t /\ Head(s) = f
  BY <1>2, Parts
<1>4. b = IF t # << >> THEN Base(t) ELSE IF f.at = "deliver" THEN f ELSE Nothing
  BY <1>1, <1>2, <1>3, BasePush
<1>5. CASE f.at # "deliver"
  <2>1. b = Base(t)
    BY <1>4, <1>5 DEF Base
  <2> QED
    BY <1>1, <1>2, <1>3, <1>5, <2>1 DEF Legal, Above, Waiting, Waits, Topmost, Nothing, Frame
<1>6. CASE f.at = "deliver"
  <2>1. t = << >>
    <3> SUFFICES ASSUME t # << >> PROVE FALSE
      OBVIOUS
    <3>1. FrameOK(t[1], Topmost(Tail(t)), b, c, m, h)
      BY <1>2, StackTail
    <3> QED
      BY <1>2, <1>6, <3>1 DEF FrameOK, Topmost, Nothing, Frame
  <2> QED
    BY <1>1, <1>2, <1>3, <1>4, <1>6, <2>1 DEF Above, Waiting, Waits, Topmost, Nothing, Frame
<1> QED
  BY <1>2, <1>5, <1>6 DEF Above, Waiting, Waits, Topmost, Nothing, Frame

(* What new frames hold is held by no other.                               *)
Apart1(f, t)    == Holds(f) \cap OnStack(t) = {}
Apart2(f, g, t) == Apart1(g, t) /\ Holds(f) \cap (Holds(g) \cup OnStack(t)) = {}
Bare(f)         == Holds(f) = {}

(* s is t with f and perhaps others on top; the calls then have X.         *)
Grown(s, t, f, X, c, m, h) ==
  /\ Legal(s, c, m, h) /\ Base(s) = Base(t)
  /\ s # << >> /\ Head(s) = f /\ Topmost(s) = f
  /\ OnStack(s) = X

LEMMA Push1 ==
  ASSUME NEW t, NEW f, NEW c, NEW m, NEW h, Legal(t, c, m, h),
         FrameOK(f, Topmost(t), Base(t), c, m, h), Waiting(t),
         Apart1(f, t), Above(f),
         NEW s, s = <<f>> \o t
  PROVE  Grown(s, t, f, Holds(f) \cup OnStack(t), c, m, h)
<1>1. t \in Seq(Frames) /\ f \in Frames
  BY DEF Legal, StackOK, FrameOK
<1>2. s # << >> /\ Head(s) = f /\ Topmost(s) = f
  BY <1>1 DEF Topmost
<1>3. Base(s) = Base(t)
  BY <1>1, BasePush DEF Base, Above
<1>4. StackOK(s, Base(t), c, m, h) /\ OnStack(s) = Holds(f) \cup OnStack(t)
  BY StackPush DEF Legal, Waiting, Topmost, Apart1
<1> QED
  BY <1>2, <1>3, <1>4 DEF Legal, Topmost, Grown

LEMMA Push2 ==
  ASSUME NEW t, NEW f, NEW g, NEW c, NEW m, NEW h, Legal(t, c, m, h),
         FrameOK(f, g, Base(t), c, m, h), FrameOK(g, Topmost(t), Base(t), c, m, h),
         Waiting(t), Waits(g), Apart2(f, g, t), Above(f), Above(g),
         NEW s, s = <<f, g>> \o t
  PROVE  Grown(s, t, f, Holds(f) \cup Holds(g) \cup OnStack(t), c, m, h)
<1>1. PICK r : r = <<g>> \o t
  OBVIOUS
<1>2. Apart1(g, t)
  BY DEF Apart2
<1>3. Grown(r, t, g, Holds(g) \cup OnStack(t), c, m, h)
  BY <1>1, <1>2, Push1, Zenon
<1>4. s = <<f>> \o r
  <2>1. t \in Seq(Frames) /\ f \in Frames /\ g \in Frames
    BY DEF Legal, StackOK, FrameOK
  <2>2. <<f>> \in Seq(Frames) /\ <<g>> \in Seq(Frames)
    BY <2>1
  <2>3. <<f, g>> = <<f>> \o <<g>>
    <3>1. <<f>> \o <<g>> = Append(<<f>>, g)
      BY <2>2
    <3>2. <<f, g>> = Append(<<f>>, g)
      OBVIOUS
    <3> QED
      BY <3>1, <3>2
  <2> QED
    BY <1>1, <2>1, <2>2, <2>3, ConcatAssociative
<1>5. FrameOK(f, Topmost(r), Base(r), c, m, h) /\ Waiting(r) /\ Legal(r, c, m, h)
  BY <1>3 DEF Waiting, Grown
<1>6. Apart1(f, r)
  BY <1>3 DEF Apart1, Apart2, Grown
<1>7. Grown(s, r, f, Holds(f) \cup OnStack(r), c, m, h)
  BY <1>4, <1>5, <1>6, Push1, Zenon
<1> QED
  BY <1>3, <1>7 DEF Grown

LEMMA Push3 ==
  ASSUME NEW t, NEW e, NEW f, NEW g, NEW c, NEW m, NEW h, Legal(t, c, m, h),
         FrameOK(e, f, Base(t), c, m, h), FrameOK(f, g, Base(t), c, m, h),
         FrameOK(g, Topmost(t), Base(t), c, m, h),
         Waiting(t), Waits(f), Waits(g), Bare(e), Bare(f), Apart1(g, t),
         Above(e), Above(f), Above(g),
         NEW s, s = <<e, f, g>> \o t
  PROVE  Grown(s, t, e, Holds(g) \cup OnStack(t), c, m, h)
<1>1. PICK r, q : r = <<g>> \o t /\ q = <<f>> \o r
  OBVIOUS
<1>2. Grown(r, t, g, Holds(g) \cup OnStack(t), c, m, h)
  BY <1>1, Push1, Zenon
<1>3. FrameOK(f, Topmost(r), Base(r), c, m, h) /\ Waiting(r) /\ Legal(r, c, m, h) /\ Apart1(f, r)
  BY <1>2 DEF Waiting, Grown, Apart1, Bare
<1>4. Grown(q, r, f, Holds(f) \cup OnStack(r), c, m, h)
  BY <1>1, <1>3, Push1, Zenon
<1>5. FrameOK(e, Topmost(q), Base(q), c, m, h) /\ Waiting(q) /\ Legal(q, c, m, h) /\ Apart1(e, q)
  BY <1>2, <1>4 DEF Waiting, Grown, Apart1, Bare
<1>6. s = <<e>> \o q
  <2>1. t \in Seq(Frames) /\ e \in Frames /\ f \in Frames /\ g \in Frames
    BY DEF Legal, StackOK, FrameOK
  <2>2. <<e>> \in Seq(Frames) /\ <<f>> \in Seq(Frames) /\ <<g>> \in Seq(Frames)
    BY <2>1
  <2>3. <<e, f>> = <<e>> \o <<f>>
    <3>1. <<e>> \o <<f>> = Append(<<e>>, f)
      BY <2>2
    <3>2. <<e, f>> = Append(<<e>>, f)
      OBVIOUS
    <3> QED
      BY <3>1, <3>2
  <2>4. <<e, f>> \in Seq(Frames)
    BY <2>1
  <2>5. <<e, f, g>> = <<e, f>> \o <<g>>
    BY <2>1
  <2>6. r \in Seq(Frames) /\ s = <<e, f>> \o r
    BY <1>1, <2>1, <2>2, <2>4, <2>5, ConcatAssociative
  <2> QED
    BY <1>1, <2>1, <2>2, <2>3, <2>6, ConcatAssociative
<1>7. Grown(s, q, e, Holds(e) \cup OnStack(q), c, m, h)
  BY <1>5, <1>6, Push1, Zenon
<1> QED
  BY <1>2, <1>4, <1>7 DEF Grown, Bare

LEMMA Steadies ==
  ASSUME NEW s, NEW c, NEW m, NEW h, NEW c2, NEW m2, NEW h2, Legal(s, c, m, h),
         \A p \in OnStack(s) : Steady(p, c, m, c2, m2),
         \A p \in DOMAIN h2 : p = Base(s).p => p \in DOMAIN h /\ h2[p] = h[p]
  PROVE  Legal(s, c2, m2, h2)
BY StackSteady DEF Legal

-----------------------------------------------------------------------------
(* Sizes of chunks                                                         *)

(* The unit is SIZE_SZ; a header and an alignment are two of them.         *)
LEMMA Units ==
  /\ SIZE_SZ \in Nat \ {0} /\ CHUNK_HDR_SZ = 2 * SIZE_SZ /\ MALLOC_ALIGNMENT = 2 * SIZE_SZ
  /\ MINSIZE = 4 * SIZE_SZ /\ MALLOC_ALIGN_MASK = 2 * SIZE_SZ - 1
  /\ PAGE \in Nat /\ PAGE >= 6 * SIZE_SZ
BY Constants, PageAssumption DEF CHUNK_HDR_SZ, MALLOC_ALIGN_MASK

(* Aligned sizes are multiples of the alignment, two of them at least.     *)
LEMMA AlignedIs ==
  ASSUME NEW a, Aligned(a)
  PROVE  \E j \in Nat : j >= 2 /\ a = j * MALLOC_ALIGNMENT /\ a \div MALLOC_ALIGNMENT = j
<1>1. PICK A, S : A = MALLOC_ALIGNMENT /\ S = SIZE_SZ
  OBVIOUS
<1>2. S \in Nat \ {0} /\ A = 2 * S /\ A \in Nat \ {0} /\ a \in Nat /\ a % A = 0 /\ a >= 4 * S
  BY <1>1, Units DEF Aligned
<1>3. PICK j : j = a \div A
  OBVIOUS
<1>4. j \in Nat /\ a = j * A + 0 /\ j * A \in Nat
  BY <1>2, <1>3
<1>5. j >= 2
  <2> SUFFICES ASSUME j < 2 PROVE FALSE
    BY <1>4
  <2>1. j = 0 \/ j = 1
    BY <1>4
  <2>2. CASE j = 0
    BY <1>2, <1>4, <2>2
  <2>3. CASE j = 1
    <3>1. a = A
      BY <1>2, <1>4, <2>3
    <3> QED
      BY <1>2, <3>1
  <2> QED
    BY <2>1, <2>2, <2>3
<1> QED
  BY <1>1, <1>3, <1>4, <1>5

LEMMA MultipleAligned ==
  ASSUME NEW j \in Nat, j >= 2
  PROVE  Aligned(j * MALLOC_ALIGNMENT)
<1>1. PICK A, S, a : A = MALLOC_ALIGNMENT /\ S = SIZE_SZ /\ a = j * A
  OBVIOUS
<1>2. S \in Nat \ {0} /\ A = 2 * S /\ A \in Nat \ {0}
  BY <1>1, Units
<1>3. a \in Nat /\ a % A = 0
  BY <1>1, <1>2, Multiple
<1>4. a >= 4 * S
  <2>1. 2 * A <= j * A
    BY <1>2
  <2> QED
    BY <1>1, <1>2, <2>1
<1> QED
  BY <1>1, <1>3, <1>4, Units DEF Aligned

LEMMA AlignedSum ==
  ASSUME NEW a, Aligned(a), NEW b, Aligned(b)
  PROVE  Aligned(a + b)
<1>1. PICK A : A = MALLOC_ALIGNMENT
  OBVIOUS
<1>2. A \in Nat
  BY <1>1, Units
<1>3. PICK j \in Nat : j >= 2 /\ a = j * A
  BY <1>1, AlignedIs
<1>4. PICK k \in Nat : k >= 2 /\ b = k * A
  BY <1>1, AlignedIs
<1>5. a + b = (j + k) * A /\ j + k \in Nat /\ j + k >= 2
  BY <1>2, <1>3, <1>4
<1> QED
  BY <1>1, <1>5, MultipleAligned

LEMMA AlignedRest ==
  ASSUME NEW a, Aligned(a), NEW b, Aligned(b), a - b >= MINSIZE
  PROVE  Aligned(a - b)
<1>1. PICK A, S : A = MALLOC_ALIGNMENT /\ S = SIZE_SZ
  OBVIOUS
<1>2. S \in Nat \ {0} /\ A = 2 * S /\ MINSIZE = 4 * S
  BY <1>1, Units
<1>3. PICK j \in Nat : j >= 2 /\ a = j * A
  BY <1>1, AlignedIs
<1>4. PICK k \in Nat : k >= 2 /\ b = k * A
  BY <1>1, AlignedIs
<1>5. a - b = (j - k) * A /\ j - k \in Int
  BY <1>2, <1>3, <1>4
<1>6. j - k >= 2
  <2> SUFFICES ASSUME j - k <= 1 PROVE FALSE
    BY <1>5
  <2>1. (j - k) * A <= 1 * A
    BY <1>2, <1>5
  <2> QED
    BY <1>2, <1>5, <2>1
<1> QED
  BY <1>1, <1>5, <1>6, MultipleAligned

(* A list of the thread cache, a fastbin and a small bin are for one size. *)
LEMMA TcacheIndex ==
  ASSUME NEW a, Aligned(a)
  PROVE  csize2tidx(a) \in Nat /\ a = (csize2tidx(a) + 2) * MALLOC_ALIGNMENT
<1>1. PICK A, S : A = MALLOC_ALIGNMENT /\ S = SIZE_SZ
  OBVIOUS
<1>2. S \in Nat \ {0} /\ A = 2 * S /\ MINSIZE = 4 * S /\ A \in Nat \ {0}
  BY <1>1, Units
<1>3. PICK j \in Nat : j >= 2 /\ a = j * A
  BY <1>1, AlignedIs
<1>4. PICK i : i = j - 2
  OBVIOUS
<1>5. i \in Nat /\ a - 4 * S + A - 1 = i * A + (A - 1) /\ A - 1 \in 0..A - 1
  BY <1>2, <1>3, <1>4
<1>6. (a - 4 * S + A - 1) \div A = i
  BY <1>2, <1>5, DivIs
<1> QED
  BY <1>1, <1>2, <1>3, <1>4, <1>5, <1>6 DEF csize2tidx

LEMMA FastbinIndex ==
  ASSUME NEW a, Aligned(a)
  PROVE  fastbin_index(a) \in Nat /\ a = (fastbin_index(a) + 2) * MALLOC_ALIGNMENT
<1>1. PICK A : A = MALLOC_ALIGNMENT
  OBVIOUS
<1>2. PICK j \in Nat : j >= 2 /\ a = j * A /\ a \div A = j
  BY <1>1, AlignedIs
<1>3. fastbin_index(a) = j - 2
  BY <1>1, <1>2, PageAssumption DEF fastbin_index
<1>4. j - 2 \in Nat /\ (j - 2) + 2 = j
  BY <1>2
<1> QED
  BY <1>1, <1>2, <1>3, <1>4

LEMMA OneSize ==
  ASSUME NEW a, Aligned(a), NEW b, Aligned(b),
         \/ csize2tidx(a) = csize2tidx(b)
         \/ fastbin_index(a) = fastbin_index(b)
  PROVE  a = b
BY TcacheIndex, FastbinIndex

(* Sizes up to DEFAULT_MXFAST's limit have a fastbin, and all have a bin.  *)
LEMMA HasFastbin ==
  ASSUME NEW a, Aligned(a), a <= request2size(MAX_FAST_SIZE)
  PROVE  fastbin_index(a) \in 0..NFASTBINS - 1
BY FastbinUses DEF FastIndexes

LEMMA HasBin ==
  ASSUME NEW a, Aligned(a)
  PROVE  bin_index(a) \in Bins /\ bin_index(a) > 1
<1>1. bin_index(a) \in 2..LASTBIN /\ LASTBIN \in Nat
  BY BinsAscend, RowTypes DEF BinsOrdered
<1> QED
  BY <1>1 DEF Bins

LEMMA SmallBinSize ==
  ASSUME NEW a, Aligned(a), NEW b, Aligned(b), in_smallbin_range(b),
         bin_index(a) = smallbin_index(b)
  PROVE  a = b
<1>1. smallbin_index(b) \in 2..NSMALLBINS - 1 /\ NSMALLBINS \in Nat /\ LASTBIN \in Nat
  BY SmallBounds, RowTypes
<1>2. a \in Nat /\ MIN_LARGE_SIZE \in Nat /\ b \in Nat
  BY RowTypes DEF Aligned
<1>3. in_smallbin_range(a)
  <2> SUFFICES ASSUME a >= MIN_LARGE_SIZE PROVE FALSE
    BY <1>2 DEF in_smallbin_range
  <2>1. largebin_index(a) \in NSMALLBINS..LASTBIN
    BY <1>2, LargeBounds
  <2>2. bin_index(a) = largebin_index(a)
    BY <1>2 DEF bin_index, in_smallbin_range
  <2> QED
    BY <1>1, <2>1, <2>2
<1>4. a \div MALLOC_ALIGNMENT = b \div MALLOC_ALIGNMENT
  <2>1. smallbin_index(a) = smallbin_index(b)
    BY <1>3 DEF bin_index
  <2>2. PICK i, j, k : i = a \div MALLOC_ALIGNMENT /\ j = b \div MALLOC_ALIGNMENT /\ k = SMALLBIN_CORRECTION
    OBVIOUS
  <2>3. i \in Nat /\ j \in Nat /\ k \in {0, 1} /\ i + k = j + k
    BY <2>1, <2>2, AlignedIs DEF smallbin_index, SMALLBIN_WIDTH, SMALLBIN_CORRECTION
  <2>4. i = j
    BY <2>3
  <2> QED
    BY <2>2, <2>4
<1> QED
  BY <1>4, AlignedIs

-----------------------------------------------------------------------------
(* What a size is rounded to                                               *)

LEMMA IntMultiple ==
  ASSUME NEW q \in Int, NEW a \in Nat \ {0}
  PROVE  q * a \in Int /\ (q * a) % a = 0
<1>1. PICK k, s, y : y = q * a /\ k = y \div a /\ s = y % a
  OBVIOUS
<1>2. y \in Int /\ k \in Int /\ s \in 0..a - 1 /\ y = k * a + s
  BY <1>1
<1>3. q * a = k * a + s /\ q * a \in Int /\ k * a \in Int
  BY <1>1, <1>2
<1>4. ~(k + 1 <= q)
  <2> SUFFICES ASSUME k + 1 <= q PROVE FALSE
    OBVIOUS
  <2>1. (k + 1) * a <= q * a /\ (k + 1) * a = k * a + a
    BY <1>2
  <2> QED
    BY <1>2, <1>3, <2>1
<1>5. ~(q + 1 <= k)
  <2> SUFFICES ASSUME q + 1 <= k PROVE FALSE
    OBVIOUS
  <2>1. (q + 1) * a <= k * a /\ (q + 1) * a = q * a + a
    BY <1>2
  <2> QED
    BY <1>2, <1>3, <2>1
<1>6. q = k
  BY <1>2, <1>4, <1>5
<1> QED
  BY <1>1, <1>2, <1>3, <1>6

LEMMA RoundUp ==
  ASSUME NEW x \in Int, NEW a \in Nat \ {0}
  PROVE  /\ ALIGN_UP(x, a) \in Int /\ ALIGN_UP(x, a) % a = 0
         /\ x <= ALIGN_UP(x, a) /\ ALIGN_UP(x, a) < x + a
         /\ \E q \in Int : ALIGN_UP(x, a) = q * a
<1>1. PICK m, q, r, y : m = x + a - 1 /\ q = m \div a /\ r = m % a /\ y = q * a
  OBVIOUS
<1>2. m \in Int /\ q \in Int /\ r \in 0..a - 1 /\ m = y + r /\ y \in Int /\ m = x + a - 1
  BY <1>1
<1>3. y % a = 0
  BY <1>1, <1>2, IntMultiple
<1>4. x <= y /\ y < x + a
  BY <1>2
<1> QED
  BY <1>1, <1>2, <1>3, <1>4 DEF ALIGN_UP

LEMMA RoundDown ==
  ASSUME NEW x \in Int, NEW a \in Nat \ {0}
  PROVE  /\ ALIGN_DOWN(x, a) \in Int /\ ALIGN_DOWN(x, a) % a = 0
         /\ ALIGN_DOWN(x, a) <= x /\ x < ALIGN_DOWN(x, a) + a
         /\ \E q \in Int : ALIGN_DOWN(x, a) = q * a
<1>1. PICK q, r, y : q = x \div a /\ r = x % a /\ y = q * a
  OBVIOUS
<1>2. q \in Int /\ r \in 0..a - 1 /\ x = y + r /\ y \in Int
  BY <1>1
<1>3. y % a = 0
  BY <1>1, <1>2, IntMultiple
<1>4. ALIGN_DOWN(x, a) = y /\ y <= x /\ x < y + a
  BY <1>1, <1>2 DEF ALIGN_DOWN
<1> QED
  BY <1>1, <1>2, <1>3, <1>4

LEMMA Request ==
  ASSUME NEW n \in Nat
  PROVE  Aligned(request2size(n)) /\ request2size(n) >= n + SIZE_SZ
<1>1. PICK S, nb : S = SIZE_SZ /\ nb = request2size(n)
  OBVIOUS
<1>2. S \in Nat \ {0} /\ MALLOC_ALIGN_MASK = 2 * S - 1
  BY <1>1, Units
<1>3. n + S + MALLOC_ALIGN_MASK >= 0
  BY <1>2
<1>4. Aligned(nb) /\ n + S <= nb /\ nb \in Nat
  BY <1>1, <1>3, Padded DEF Aligned
<1> QED
  BY <1>1, <1>2, <1>4

LEMMA RequestAgain ==
  ASSUME NEW nb, Aligned(nb)
  PROVE  request2size(nb - MALLOC_ALIGN_MASK) = nb
<1>1. PICK S, n : S = SIZE_SZ /\ n = nb - MALLOC_ALIGN_MASK
  OBVIOUS
<1>2. S \in Nat \ {0} /\ MALLOC_ALIGN_MASK = 2 * S - 1 /\ nb \in Nat
  BY <1>1, Units DEF Aligned
<1>3. n \in Int /\ n <= nb - S /\ n + S + MALLOC_ALIGN_MASK >= nb
  BY <1>1, <1>2
<1> QED
  BY <1>1, <1>3, PaddedTo

-----------------------------------------------------------------------------
(* Changes to the chunks of the heap                                       *)

(* Only flags and feet change.                                             *)
SameSizes(c, d) ==
  /\ DOMAIN d = DOMAIN c /\ d \in [DOMAIN d -> Headers]
  /\ \A a \in DOMAIN c : d[a].size = c[a].size

(* The chunk at p is cut after n words.                                    *)
IsCut(c, d, p, n) ==
  /\ DOMAIN d = DOMAIN c \cup {p + n} /\ d \in [DOMAIN d -> Headers]
  /\ d[p].size = n /\ d[p + n].size = c[p].size - n
  /\ \A a \in DOMAIN c \ {p} : d[a].size = c[a].size

(* The chunk at p takes in the next one.                                   *)
IsJoin(c, d, p) ==
  /\ DOMAIN d = DOMAIN c \ {p + c[p].size} /\ d \in [DOMAIN d -> Headers]
  /\ d[p].size = c[p].size + c[p + c[p].size].size
  /\ \A a \in DOMAIN d \ {p} : d[a].size = c[a].size

(* What is not in X is as it was: chunks of c and mappings of m.           *)
Keeps(c, m, d, n, X) ==
  /\ \A a \in DOMAIN c \ X :
       /\ a \in DOMAIN d /\ d[a].size = c[a].size
       /\ a + c[a].size \in DOMAIN c => a + c[a].size \in DOMAIN d
  /\ \A a : a \notin X => (a \in DOMAIN m <=> a \in DOMAIN n) /\ (a \in DOMAIN m => n[a] = m[a])

LEMMA LaidTypes ==
  ASSUME NEW c, Laid(c), NEW a \in DOMAIN c
  PROVE  a \in Nat /\ a > 0 /\ c[a].size \in Nat /\ c[a].size >= 2 * SIZE_SZ /\ c[a] \in Headers
BY Units DEF Laid, Headers

LEMMA SameLaid ==
  ASSUME NEW c, Laid(c), NEW d, SameSizes(c, d), NEW m, NEW r, NEW g, Given(c, m, r, g)
  PROVE  Laid(d) /\ Given(d, m, r, g) /\ Keeps(c, m, d, m, {})
<1>1. Laid(d)
  BY DEF Laid, SameSizes
<1>2. Given(d, m, r, g)
  BY DEF SameSizes, Given, words
<1>3. Keeps(c, m, d, m, {})
  BY DEF SameSizes, Keeps
<1> QED
  BY <1>1, <1>2, <1>3

(* A place inside a chunk is no other's, and no mapping's.                 *)
LEMMA Inside ==
  ASSUME NEW c, Laid(c), NEW p \in DOMAIN c, NEW n \in Nat, 0 < n, n < c[p].size
  PROVE  p + n \notin DOMAIN c /\ p + n \in Nat /\ p + n > 0
<1>1. p \in Nat /\ c[p].size \in Nat /\ p > 0
  BY LaidTypes, Units
<1>2. ASSUME p + n \in DOMAIN c PROVE FALSE
  <2>1. p < p + n
    BY <1>1
  <2>2. p + c[p].size <= p + n
    BY <1>2, <2>1 DEF Laid
  <2> QED
    BY <1>1, <2>2
<1> QED
  BY <1>1, <1>2

CanCut(c, p, n) ==
  p \in DOMAIN c /\ n \in Nat /\ 2 * SIZE_SZ <= n /\ n <= c[p].size - 2 * SIZE_SZ

WasCut(c, d, p, n, m, r, g) ==
  /\ Laid(d) /\ Given(d, m, r, g) /\ Keeps(c, m, d, m, {p})
  /\ p + n \in Nat /\ p + n > 0 /\ p + n \notin DOMAIN c
  /\ p \in DOMAIN d /\ p + n \in DOMAIN d
  /\ d[p].size = n /\ d[p + n].size = c[p].size - n

LEMMA CutLaid ==
  ASSUME NEW c, Laid(c), NEW d, NEW p, NEW n, CanCut(c, p, n), IsCut(c, d, p, n),
         NEW m, NEW r, NEW g, Given(c, m, r, g)
  PROVE  WasCut(c, d, p, n, m, r, g)
<1> SUFFICES ASSUME p \in DOMAIN c, n \in Nat, 2 * SIZE_SZ <= n, n <= c[p].size - 2 * SIZE_SZ
             PROVE  /\ Laid(d) /\ Given(d, m, r, g) /\ Keeps(c, m, d, m, {p})
                    /\ p + n \in Nat /\ p + n > 0 /\ p + n \notin DOMAIN c
                    /\ p \in DOMAIN d /\ p + n \in DOMAIN d
                    /\ d[p].size = n /\ d[p + n].size = c[p].size - n
  BY DEF CanCut, WasCut
<1>1. PICK q, s : q = p + n /\ s = c[p].size
  OBVIOUS
<1>2. /\ p \in Nat /\ s \in Nat /\ p > 0 /\ 2 * SIZE_SZ \in Nat /\ 2 * SIZE_SZ > 0
      /\ q \in Nat /\ n < s /\ q = p + n /\ 2 * SIZE_SZ <= n /\ 2 * SIZE_SZ <= s - n
  BY <1>1, LaidTypes, Units
<1>3. q \notin DOMAIN c /\ q > 0
  BY <1>1, <1>2, Inside
<1>4. /\ DOMAIN d = DOMAIN c \cup {q} /\ d \in [DOMAIN d -> Headers]
      /\ d[p].size = n /\ d[q].size = s - n
      /\ \A a \in DOMAIN c \ {p} : d[a].size = c[a].size
  BY <1>1 DEF IsCut
<1>5. /\ \A a \in DOMAIN c : a \in Nat /\ a > 0 /\ c[a].size \in Nat /\ 2 * SIZE_SZ <= c[a].size
      /\ \A x, y \in DOMAIN c : x < y => x + c[x].size <= y
  BY LaidTypes DEF Laid
<1>6. Laid(d)
  <2>1. DOMAIN d \subseteq Nat \ {0}
    BY <1>2, <1>4, <1>5
  <2>2. \A a \in DOMAIN d : d[a].size >= 2 * SIZE_SZ
    BY <1>2, <1>3, <1>4, <1>5
  <2>3. ASSUME NEW x \in DOMAIN d, NEW y \in DOMAIN d, x < y PROVE x + d[x].size <= y
    <3>1. CASE x = p /\ y = q
      BY <1>2, <1>4, <3>1
    <3>2. CASE x = p /\ y # q
      <4>1. y \in DOMAIN c /\ p + s <= y /\ y \in Nat
        BY <1>1, <1>4, <1>5, <2>3, <3>2
      <4> QED
        BY <1>2, <1>4, <3>2, <4>1
    <3>3. CASE x = q
      <4>1. y \in DOMAIN c /\ y \in Nat /\ q < y
        BY <1>2, <1>4, <1>5, <2>3, <3>3
      <4>2. p < y
        BY <1>2, <4>1
      <4>3. p + s <= y
        BY <1>1, <1>5, <4>1, <4>2
      <4> QED
        BY <1>2, <1>4, <3>3, <4>1, <4>3
    <3>4. CASE x # p /\ x # q /\ y = q
      <4>1. x \in DOMAIN c /\ x \in Nat /\ x < q /\ d[x].size = c[x].size /\ c[x].size \in Nat
        BY <1>4, <1>5, <2>3, <3>4
      <4>2. x < p
        <5>1. ASSUME p < x PROVE FALSE
          <6>1. p + s <= x
            BY <1>1, <1>5, <4>1, <5>1
          <6> QED
            BY <1>2, <4>1, <6>1
        <5> QED
          BY <1>2, <3>4, <4>1, <5>1
      <4>3. x + c[x].size <= p
        BY <1>5, <4>1, <4>2
      <4> QED
        BY <1>2, <3>4, <4>1, <4>3
    <3>5. CASE x # p /\ x # q /\ y # q
      BY <1>4, <1>5, <2>3, <3>5
    <3> QED
      BY <3>1, <3>2, <3>3, <3>4, <3>5
  <2> QED
    BY <1>4, <2>1, <2>2, <2>3, Units DEF Laid
<1>7. Given(d, m, r, g)
  <2> SUFFICES ASSUME NEW x \in DOMAIN d, NEW w \in words(d, x) PROVE Arena(w, m, r, g)
    BY DEF Given
  <2>1. CASE x = p
    <3>1. w \in words(c, p)
      BY <1>1, <1>2, <1>4, <2>1 DEF words
    <3> QED
      BY <3>1 DEF Given
  <2>2. CASE x = q
    <3>1. w \in words(c, p)
      BY <1>1, <1>2, <1>4, <2>2 DEF words
    <3> QED
      BY <3>1 DEF Given
  <2>3. CASE x # p /\ x # q
    BY <1>4, <2>3 DEF Given, words
  <2> QED
    BY <2>1, <2>2, <2>3
<1>8. Keeps(c, m, d, m, {p})
  BY <1>4 DEF Keeps
<1> QED
  BY <1>1, <1>2, <1>3, <1>4, <1>6, <1>7, <1>8

CanJoin(c, p, q) == p \in DOMAIN c /\ q = p + c[p].size /\ q \in DOMAIN c

WasJoined(c, d, p, q, m, r, g) ==
  /\ Laid(d) /\ Given(d, m, r, g) /\ Keeps(c, m, d, m, {p, q})
  /\ p \in DOMAIN d /\ d[p].size = c[p].size + c[q].size
  /\ p # q /\ DOMAIN d = DOMAIN c \ {q}

LEMMA JoinLaid ==
  ASSUME NEW c, Laid(c), NEW d, NEW p, NEW q, CanJoin(c, p, q), IsJoin(c, d, p),
         NEW m, NEW r, NEW g, Given(c, m, r, g)
  PROVE  WasJoined(c, d, p, q, m, r, g)
<1> SUFFICES ASSUME p \in DOMAIN c, q = p + c[p].size, q \in DOMAIN c
             PROVE  /\ Laid(d) /\ Given(d, m, r, g) /\ Keeps(c, m, d, m, {p, q})
                    /\ p \in DOMAIN d /\ d[p].size = c[p].size + c[q].size
                    /\ p # q /\ DOMAIN d = DOMAIN c \ {q}
  BY DEF CanJoin, WasJoined
<1>1. PICK s, t : s = c[p].size /\ t = c[q].size
  OBVIOUS
<1>2. /\ p \in Nat /\ s \in Nat /\ t \in Nat /\ p > 0 /\ q = p + s /\ q \in Nat /\ s > 0 /\ t > 0
      /\ p # q /\ 2 * SIZE_SZ \in Nat /\ 2 * SIZE_SZ <= s
  BY <1>1, LaidTypes, Units
<1>3. /\ DOMAIN d = DOMAIN c \ {q} /\ d \in [DOMAIN d -> Headers]
      /\ p \in DOMAIN d /\ d[p].size = s + t
      /\ \A a \in DOMAIN d \ {p} : d[a].size = c[a].size
  BY <1>1, <1>2 DEF IsJoin
<1>4. /\ \A a \in DOMAIN c : a \in Nat /\ a > 0 /\ c[a].size \in Nat /\ 2 * SIZE_SZ <= c[a].size
      /\ \A x, y \in DOMAIN c : x < y => x + c[x].size <= y
  BY LaidTypes DEF Laid
<1>5. Laid(d)
  <2>1. DOMAIN d \subseteq Nat \ {0}
    BY <1>3, <1>4
  <2>2. \A a \in DOMAIN d : d[a].size >= 2 * SIZE_SZ
    BY <1>2, <1>3, <1>4
  <2>3. ASSUME NEW x \in DOMAIN d, NEW y \in DOMAIN d, x < y PROVE x + d[x].size <= y
    <3>1. CASE x = p
      <4>1. y \in DOMAIN c /\ y # q /\ y \in Nat /\ p + s <= y
        BY <1>1, <1>3, <1>4, <2>3, <3>1
      <4>2. q < y
        BY <1>2, <4>1
      <4>3. q + t <= y
        BY <1>1, <1>4, <4>1, <4>2
      <4> QED
        BY <1>2, <1>3, <3>1, <4>1, <4>3
    <3>2. CASE x # p
      BY <1>3, <1>4, <2>3, <3>2
    <3> QED
      BY <3>1, <3>2
  <2> QED
    BY <1>3, <2>1, <2>2, <2>3, Units DEF Laid
<1>6. Given(d, m, r, g)
  <2> SUFFICES ASSUME NEW x \in DOMAIN d, NEW w \in words(d, x) PROVE Arena(w, m, r, g)
    BY DEF Given
  <2>1. CASE x = p
    <3>1. w \in words(c, p) \/ w \in words(c, q)
      BY <1>1, <1>2, <1>3, <2>1 DEF words
    <3> QED
      BY <3>1 DEF Given
  <2>2. CASE x # p
    BY <1>3, <2>2 DEF Given, words
  <2> QED
    BY <2>1, <2>2
<1>7. Keeps(c, m, d, m, {p, q})
  <2> SUFFICES ASSUME NEW a \in DOMAIN c \ {p, q}, a + c[a].size = q PROVE FALSE
    BY <1>3 DEF Keeps
  <2>1. a \in Nat /\ c[a].size \in Nat /\ 0 < c[a].size
    BY LaidTypes, Units
  <2>2. CASE a < p
    <3>1. a + c[a].size <= p
      BY <1>4, <2>2
    <3> QED
      BY <1>2, <2>1, <3>1
  <2>3. CASE p < a
    <3>1. p + s <= a
      BY <1>1, <1>4, <2>3
    <3> QED
      BY <1>2, <2>1, <3>1
  <2> QED
    BY <1>2, <2>1, <2>2, <2>3
<1> QED
  BY <1>1, <1>2, <1>3, <1>5, <1>6, <1>7

-----------------------------------------------------------------------------
(* What a change keeps                                                     *)

LEMMA KeepsTwice ==
  ASSUME NEW c, NEW m, NEW d, NEW n, NEW X, Keeps(c, m, d, n, X),
         NEW e, NEW o, NEW Y, Keeps(d, n, e, o, Y)
  PROVE  Keeps(c, m, e, o, X \cup Y)
<1>1. ASSUME NEW a \in DOMAIN c \ (X \cup Y)
      PROVE  /\ a \in DOMAIN e /\ e[a].size = c[a].size
             /\ a + c[a].size \in DOMAIN c => a + c[a].size \in DOMAIN e
  <2>1. /\ a \in DOMAIN d /\ d[a].size = c[a].size
        /\ a + c[a].size \in DOMAIN c => a + c[a].size \in DOMAIN d
    BY DEF Keeps
  <2>2. /\ a \in DOMAIN e /\ e[a].size = d[a].size
        /\ a + d[a].size \in DOMAIN d => a + d[a].size \in DOMAIN e
    BY <2>1 DEF Keeps
  <2> QED
    BY <2>1, <2>2
<1>2. ASSUME NEW a, a \notin X \cup Y
      PROVE  (a \in DOMAIN m <=> a \in DOMAIN o) /\ (a \in DOMAIN m => o[a] = m[a])
  BY <1>2 DEF Keeps
<1> QED
  BY <1>1, <1>2 DEF Keeps

LEMMA KeepsMore ==
  ASSUME NEW c, NEW m, NEW d, NEW n, NEW X, Keeps(c, m, d, n, X), NEW Y, X \subseteq Y
  PROVE  Keeps(c, m, d, n, Y)
BY DEF Keeps

LEMMA KeepsSizes ==
  ASSUME NEW c, NEW m, NEW d, NEW n, NEW X, Keeps(c, m, d, n, X), NEW a \in DOMAIN c \ X
  PROVE  a \in DOMAIN d /\ d[a].size = c[a].size
BY DEF Keeps

LEMMA KeptCache ==
  ASSUME NEW l, NEW c, CacheOK(l, c), NEW m, NEW d, NEW n, NEW X, Keeps(c, m, d, n, X),
         Elements(l) \cap X = {}
  PROVE  CacheOK(l, d)
<1>1. ASSUME NEW i \in DOMAIN l, NEW k \in DOMAIN l[i]
      PROVE  l[i][k] \in DOMAIN c \ X
  BY DEF CacheOK, Fit, Elements, ToSet
<1>2. ASSUME NEW i \in DOMAIN l, NEW k \in DOMAIN l[i]
      PROVE  l[i][k] \in DOMAIN d /\ d[l[i][k]].size = c[l[i][k]].size
  BY <1>1, KeepsSizes
<1> QED
  BY <1>2 DEF CacheOK, Fit

LEMMA KeptFast ==
  ASSUME NEW l, NEW c, FastOK(l, c), NEW m, NEW d, NEW n, NEW X, Keeps(c, m, d, n, X),
         Elements(l) \cap X = {}
  PROVE  FastOK(l, d)
<1>1. ASSUME NEW i \in DOMAIN l, NEW k \in DOMAIN l[i]
      PROVE  l[i][k] \in DOMAIN c \ X
  BY DEF FastOK, Fit, Elements, ToSet
<1>2. ASSUME NEW i \in DOMAIN l, NEW k \in DOMAIN l[i]
      PROVE  l[i][k] \in DOMAIN d /\ d[l[i][k]].size = c[l[i][k]].size
  BY <1>1, KeepsSizes
<1> QED
  BY <1>2 DEF FastOK, Fit

LEMMA KeptBins ==
  ASSUME NEW l, NEW c, BinsOK(l, c), NEW m, NEW d, NEW n, NEW X, Keeps(c, m, d, n, X),
         Elements(l) \cap X = {}
  PROVE  BinsOK(l, d)
<1>1. ASSUME NEW i \in DOMAIN l, NEW k \in DOMAIN l[i]
      PROVE  l[i][k] \in DOMAIN c \ X
  BY DEF BinsOK, Fit, Elements, ToSet
<1>2. ASSUME NEW i \in DOMAIN l, NEW k \in DOMAIN l[i]
      PROVE  l[i][k] \in DOMAIN d /\ d[l[i][k]].size = c[l[i][k]].size
  BY <1>1, KeepsSizes
<1> QED
  BY <1>2 DEF BinsOK, Fit

LEMMA KeptLinked ==
  ASSUME NEW O, NEW c, NEW m, Linked(O, c, m), NEW d, NEW n, NEW X, Keeps(c, m, d, n, X),
         NEW P, P \subseteq O \ X
  PROVE  Linked(P, d, n)
<1> SUFFICES ASSUME NEW p \in P, p \notin DOMAIN n
             PROVE  p \in DOMAIN d /\ p + d[p].size \in DOMAIN d
  BY DEF Linked
<1>1. p \notin DOMAIN m
  BY DEF Keeps
<1>2. p \in DOMAIN c \ X /\ p + c[p].size \in DOMAIN c
  BY <1>1 DEF Linked
<1> QED
  BY <1>2 DEF Keeps

LEMMA KeptStack ==
  ASSUME NEW s, NEW c, NEW m, NEW h, Legal(s, c, m, h), NEW d, NEW n, NEW X,
         Keeps(c, m, d, n, X), OnStack(s) \cap X = {}
  PROVE  Legal(s, d, n, h)
<1>1. ASSUME NEW p \in OnStack(s) PROVE Steady(p, c, m, d, n)
  BY DEF Keeps, Steady
<1>2. \A p \in DOMAIN h : p = Base(s).p => p \in DOMAIN h /\ h[p] = h[p]
  OBVIOUS
<1> QED
  BY <1>1, <1>2, Steadies

LEMMA KeptRoom ==
  ASSUME NEW p, NEW c, NEW m, p \in DOMAIN m \/ p \in DOMAIN c, NEW d, NEW n, NEW X,
         Keeps(c, m, d, n, X), p \notin X
  PROVE  room(p, d, n) = room(p, c, m)
BY DEF room, Keeps

LEMMA KeptRoomy ==
  ASSUME NEW h, NEW O, NEW c, NEW m, Roomy(h, O, c, m), Linked(O, c, m), NEW d, NEW n, NEW X,
         Keeps(c, m, d, n, X), NEW P, P \subseteq O \ X
  PROVE  Roomy(h, P, d, n)
<1>1. ASSUME NEW p \in DOMAIN h \cap P PROVE room(p, d, n) = room(p, c, m) /\ p \in O
  <2>1. p \in O /\ p \notin X /\ (p \in DOMAIN m \/ p \in DOMAIN c)
    BY DEF Linked
  <2> QED
    BY <2>1, KeptRoom
<1> QED
  BY <1>1 DEF Roomy

-----------------------------------------------------------------------------
(* Pages, and the two kinds of memory that the system gives                *)

LEMMA DivWithin ==
  ASSUME NEW w \in Nat \ {0}, NEW x \in Nat, NEW k \in Nat, NEW l \in Nat
  PROVE  k * w <= x /\ x < l * w <=> x \div w \in k..l - 1
<1>1. PICK q, s : q = x \div w /\ s = x % w
  OBVIOUS
<1>2. q \in Nat /\ s \in 0..w - 1 /\ x = q * w + s
  BY <1>1
<1>3. PICK a, b, e : a = k * w /\ b = l * w /\ e = q * w
  OBVIOUS
<1>4. a \in Nat /\ b \in Nat /\ e \in Nat /\ x = e + s
  BY <1>2, <1>3
<1>5. k <= q => a <= e
  BY <1>2, <1>3
<1>6. q + 1 <= k => e + w <= a
  <2> SUFFICES ASSUME q + 1 <= k PROVE e + w <= a
    OBVIOUS
  <2>1. (q + 1) * w <= k * w /\ (q + 1) * w = q * w + w
    BY <1>2
  <2> QED
    BY <1>3, <2>1
<1>7. l <= q => b <= e
  BY <1>2, <1>3
<1>8. q + 1 <= l => e + w <= b
  <2> SUFFICES ASSUME q + 1 <= l PROVE e + w <= b
    OBVIOUS
  <2>1. (q + 1) * w <= l * w /\ (q + 1) * w = q * w + w
    BY <1>2
  <2> QED
    BY <1>3, <2>1
<1> QED
  BY <1>1, <1>2, <1>3, <1>4, <1>5, <1>6, <1>7, <1>8

LEMMA PageSize ==
  PAGE \in Nat \ {0} /\ PAGE \in Nat
BY Units

(* No page that mmap gives has a word that sbrk gives.                     *)
LEMMA SystemApart ==
  ASSUME setup \in SETUPS, NEW w \in Nat, w \div PAGE \in MMAP_PAGES
  PROVE  ~(BRK_START <= w /\ w < BRK_LIMIT)
<1>1. PICK i, a : i = w \div PAGE /\ a = i * PAGE
  OBVIOUS
<1>2. /\ i \in Nat /\ BRK_START \in Nat /\ BRK_LIMIT \in Nat
      /\ (i + 1) * PAGE <= BRK_START \/ BRK_LIMIT <= a
  BY <1>1, SetupsAssumption DEF MMAP_PAGES, BRK_START, BRK_LIMIT
<1>3. i \in i..(i + 1) - 1 /\ i + 1 \in Nat
  BY <1>2
<1>4. a <= w /\ w < (i + 1) * PAGE
  BY <1>1, <1>2, <1>3, PageSize, DivWithin
<1>5. (i + 1) * PAGE \in Nat /\ a \in Nat
  BY <1>1, <1>2, PageSize
<1> QED
  BY <1>2, <1>4, <1>5

(* A chunk of its own mapping is on pages of its own.                      *)
LEMMA OwnPages ==
  ASSUME NEW m, NEW g, Mapped(m, g), NEW p \in DOMAIN m
  PROVE  /\ p \in Nat /\ p > 0 /\ m[p].size \in Nat /\ m[p].prev_size \in Nat /\ m[p].size > 0
         /\ own(m, p) \subseteq g
         /\ \A x \in Nat : p - m[p].prev_size <= x /\ x < p + m[p].size <=> x \div PAGE \in own(m, p)
<1>1. PICK s, v, b : s = m[p].size /\ v = m[p].prev_size /\ b = p - v
  OBVIOUS
<1>2. /\ p \in Nat /\ p > 0 /\ s \in Nat /\ v \in Nat /\ s > 0 /\ b \in Nat
      /\ b % PAGE = 0 /\ (v + s) % PAGE = 0 /\ own(m, p) \subseteq g
      /\ own(m, p) = run(b \div PAGE, (v + s) \div PAGE) /\ p = b + v
  BY <1>1 DEF Mapped, own
<1>3. PICK k, l : k = b \div PAGE /\ l = (v + s) \div PAGE
  OBVIOUS
<1>4. k \in Nat /\ l \in Nat /\ b = k * PAGE /\ v + s = l * PAGE
  BY <1>2, <1>3, PageSize
<1>5. (k + l) * PAGE = p + s
  <2>1. (k + l) * PAGE = k * PAGE + l * PAGE
    BY <1>4, PageSize
  <2> QED
    BY <1>2, <1>4, <2>1
<1>6. ASSUME NEW x \in Nat PROVE b <= x /\ x < p + s <=> x \div PAGE \in own(m, p)
  <2>1. k * PAGE <= x /\ x < (k + l) * PAGE <=> x \div PAGE \in k..(k + l) - 1
    BY <1>4, PageSize, DivWithin
  <2>2. own(m, p) = k..(k + l) - 1
    BY <1>2, <1>3, <1>4 DEF run
  <2> QED
    BY <1>4, <1>5, <2>1, <2>2
<1> QED
  BY <1>1, <1>2, <1>6

(* No word of the arena is such a chunk's.                                 *)
LEMMA ArenaApart ==
  ASSUME setup \in SETUPS, NEW b, b \in BRK_START..BRK_LIMIT, NEW g, g \subseteq MMAP_PAGES,
         NEW m, Mapped(m, g), NEW p \in DOMAIN m
  PROVE  \A w \in Nat : w \div PAGE \in own(m, p) => ~Arena(w, m, BRK_START..b - 1, g)
<1> SUFFICES ASSUME NEW w \in Nat, w \div PAGE \in own(m, p), w \in BRK_START..b - 1 PROVE FALSE
  BY DEF Arena
<1>1. w \div PAGE \in MMAP_PAGES
  BY OwnPages
<1>2. BRK_START \in Nat /\ BRK_LIMIT \in Nat
  BY SetupsAssumption DEF BRK_START, BRK_LIMIT
<1>3. ~(BRK_START <= w /\ w < BRK_LIMIT)
  BY <1>1, SystemApart
<1> QED
  BY <1>2, <1>3

LEMMA ChunkOrMapped ==
  ASSUME setup \in SETUPS, NEW b, b \in BRK_START..BRK_LIMIT, NEW g, g \subseteq MMAP_PAGES,
         NEW m, Mapped(m, g), NEW c, Laid(c), Given(c, m, BRK_START..b - 1, g),
         NEW p \in DOMAIN m
  PROVE  p \notin DOMAIN c /\ \A a \in DOMAIN c : p \notin words(c, a)
<1>1. p \in Nat /\ p \div PAGE \in own(m, p)
  <2>1. /\ p \in Nat /\ m[p].size \in Nat /\ m[p].prev_size \in Nat /\ m[p].size > 0
        /\ \A x \in Nat : p - m[p].prev_size <= x /\ x < p + m[p].size <=> x \div PAGE \in own(m, p)
    BY OwnPages
  <2>2. p - m[p].prev_size <= p /\ p < p + m[p].size
    BY <2>1
  <2> QED
    BY <2>1, <2>2
<1>2. ~Arena(p, m, BRK_START..b - 1, g)
  BY <1>1, ArenaApart
<1>3. \A a \in DOMAIN c : p \notin words(c, a)
  BY <1>2 DEF Given
<1>4. p \in DOMAIN c => p \in words(c, p)
  <2> SUFFICES ASSUME p \in DOMAIN c PROVE p \in words(c, p)
    OBVIOUS
  <2>1. p \in Nat /\ c[p].size \in Nat /\ c[p].size >= 2 * SIZE_SZ
    BY LaidTypes
  <2> QED
    BY <2>1, Units DEF words
<1> QED
  BY <1>3, <1>4

-----------------------------------------------------------------------------
(* Memory that comes and goes                                              *)

(* A new chunk where none was.                                             *)
IsNew(c, d, p, n) ==
  /\ DOMAIN d = DOMAIN c \cup {p} /\ d \in [DOMAIN d -> Headers]
  /\ d[p].size = n /\ \A a \in DOMAIN c \ {p} : d[a].size = c[a].size

(* The chunk at p ends elsewhere.                                          *)
IsResize(c, d, p, n) ==
  /\ DOMAIN d = DOMAIN c /\ d \in [DOMAIN d -> Headers]
  /\ d[p].size = n /\ \A a \in DOMAIN c \ {p} : d[a].size = c[a].size

(* Memory for a new chunk.                                                 *)
CanPlace(m, p, n, r, g, q, f) ==
  /\ p \in Nat /\ p > 0 /\ n \in Nat /\ n >= 2 * SIZE_SZ
  /\ \A w \in p..p + n - 1 : ~Arena(w, m, r, g)
  /\ \A w : Arena(w, m, r, g) => Arena(w, m, q, f)
  /\ \A w \in p..p + n - 1 : Arena(w, m, q, f)

WasPlaced(c, d, m, p, n, q, f) ==
  /\ Laid(d) /\ Given(d, m, q, f) /\ Keeps(c, m, d, m, {})
  /\ p \notin DOMAIN c /\ p \in DOMAIN d /\ d[p].size = n

LEMMA NewLaid ==
  ASSUME NEW c, Laid(c), NEW m, NEW r, NEW g, Given(c, m, r, g), NEW d, NEW p, NEW n, NEW q, NEW f,
         CanPlace(m, p, n, r, g, q, f), IsNew(c, d, p, n)
  PROVE  WasPlaced(c, d, m, p, n, q, f)
<1> SUFFICES ASSUME p \in Nat, p > 0, n \in Nat, n >= 2 * SIZE_SZ,
                    \A w \in p..p + n - 1 : ~Arena(w, m, r, g),
                    \A w : Arena(w, m, r, g) => Arena(w, m, q, f),
                    \A w \in p..p + n - 1 : Arena(w, m, q, f)
             PROVE  /\ Laid(d) /\ Given(d, m, q, f) /\ Keeps(c, m, d, m, {})
                    /\ p \notin DOMAIN c /\ p \in DOMAIN d /\ d[p].size = n
  BY DEF CanPlace, WasPlaced
<1>1. /\ \A a \in DOMAIN c : a \in Nat /\ a > 0 /\ c[a].size \in Nat /\ 2 * SIZE_SZ <= c[a].size
      /\ \A x, y \in DOMAIN c : x < y => x + c[x].size <= y
  BY LaidTypes DEF Laid
<1>2. 2 * SIZE_SZ \in Nat /\ 2 * SIZE_SZ > 0
  BY Units
<1>3. ASSUME NEW a \in DOMAIN c PROVE a + c[a].size <= p \/ p + n <= a
  <2> SUFFICES ASSUME p < a + c[a].size, a < p + n PROVE FALSE
    BY <1>1
  <2>0. a \in Nat /\ c[a].size \in Nat /\ n > 0 /\ c[a].size > 0
    BY <1>1, <1>2
  <2>1. CASE a < p
    <3>1. p \in words(c, a) /\ p \in p..p + n - 1
      BY <2>0, <2>1 DEF words
    <3> QED
      BY <3>1 DEF Given
  <2>2. CASE p <= a
    <3>1. a \in words(c, a) /\ a \in p..p + n - 1
      BY <2>0, <2>2 DEF words
    <3> QED
      BY <3>1 DEF Given
  <2> QED
    BY <2>0, <2>1, <2>2
<1>4. p \notin DOMAIN c
  <2> SUFFICES ASSUME p \in DOMAIN c PROVE FALSE
    OBVIOUS
  <2>1. p + c[p].size <= p \/ p + n <= p
    BY <1>3
  <2> QED
    BY <1>1, <1>2, <2>1
<1>5. /\ DOMAIN d = DOMAIN c \cup {p} /\ d \in [DOMAIN d -> Headers]
      /\ d[p].size = n /\ \A a \in DOMAIN c : d[a].size = c[a].size
  BY <1>4 DEF IsNew
<1>6. Laid(d)
  <2>1. DOMAIN d \subseteq Nat \ {0} /\ \A a \in DOMAIN d : d[a].size >= CHUNK_HDR_SZ
    BY <1>1, <1>5, Units
  <2>2. ASSUME NEW x \in DOMAIN d, NEW y \in DOMAIN d, x < y PROVE x + d[x].size <= y
    <3>1. CASE x = p
      <4>1. y \in DOMAIN c /\ (y + c[y].size <= p \/ p + n <= y)
        BY <1>3, <1>5, <2>2, <3>1
      <4>2. y \in Nat /\ c[y].size \in Nat
        BY <1>1, <4>1
      <4> QED
        BY <1>5, <2>2, <3>1, <4>1, <4>2
    <3>2. CASE x # p /\ y = p
      <4>1. x \in DOMAIN c /\ (x + c[x].size <= p \/ p + n <= x) /\ d[x].size = c[x].size
        BY <1>3, <1>5, <2>2, <3>2
      <4>2. x \in Nat /\ c[x].size \in Nat
        BY <1>1, <4>1
      <4> QED
        BY <1>5, <2>2, <3>2, <4>1, <4>2
    <3>3. CASE x # p /\ y # p
      BY <1>1, <1>5, <2>2, <3>3
    <3> QED
      BY <3>1, <3>2, <3>3
  <2> QED
    BY <1>5, <2>1, <2>2 DEF Laid
<1>7. Given(d, m, q, f)
  <2> SUFFICES ASSUME NEW x \in DOMAIN d, NEW w \in words(d, x) PROVE Arena(w, m, q, f)
    BY DEF Given
  <2>1. CASE x = p
    BY <1>5, <2>1 DEF words
  <2>2. CASE x # p
    BY <1>5, <2>2 DEF Given, words
  <2> QED
    BY <2>1, <2>2
<1> QED
  BY <1>4, <1>5, <1>6, <1>7 DEF Keeps

LEMMA ResizeLaid ==
  ASSUME NEW c, Laid(c), NEW m, NEW r, NEW g, Given(c, m, r, g),
         NEW d, NEW p \in DOMAIN c, NEW n \in Nat, n >= 2 * SIZE_SZ, IsResize(c, d, p, n),
         \A w \in p + c[p].size..p + n - 1 : ~Arena(w, m, r, g),
         NEW q, NEW f,
         \A w : Arena(w, m, r, g) /\ ~(p <= w /\ w < p + c[p].size) => Arena(w, m, q, f),
         \A w \in p..p + n - 1 : Arena(w, m, q, f)
  PROVE  /\ Laid(d) /\ Given(d, m, q, f) /\ Keeps(c, m, d, m, {p})
         /\ DOMAIN d = DOMAIN c /\ d[p].size = n
<1>1. /\ \A a \in DOMAIN c : a \in Nat /\ a > 0 /\ c[a].size \in Nat /\ 2 * SIZE_SZ <= c[a].size
      /\ \A x, y \in DOMAIN c : x < y => x + c[x].size <= y
  BY LaidTypes DEF Laid
<1>2. 2 * SIZE_SZ \in Nat /\ 2 * SIZE_SZ > 0
  BY Units
<1>3. ASSUME NEW a \in DOMAIN c, p < a PROVE p + n <= a
  <2> SUFFICES ASSUME a < p + n PROVE FALSE
    BY <1>1
  <2>1. p + c[p].size <= a
    BY <1>1, <1>3
  <2>2. a \in words(c, a) /\ a \in p + c[p].size..p + n - 1
    BY <1>1, <1>2, <2>1 DEF words
  <2> QED
    BY <2>2 DEF Given
<1>5. /\ DOMAIN d = DOMAIN c /\ d \in [DOMAIN d -> Headers]
      /\ d[p].size = n /\ \A a \in DOMAIN c \ {p} : d[a].size = c[a].size
  BY DEF IsResize
<1>6. Laid(d)
  <2>1. DOMAIN d \subseteq Nat \ {0} /\ \A a \in DOMAIN d : d[a].size >= CHUNK_HDR_SZ
    BY <1>1, <1>5, Units
  <2>2. ASSUME NEW x \in DOMAIN d, NEW y \in DOMAIN d, x < y PROVE x + d[x].size <= y
    <3>1. CASE x = p
      BY <1>3, <1>5, <2>2, <3>1
    <3>2. CASE x # p
      BY <1>1, <1>5, <2>2, <3>2
    <3> QED
      BY <3>1, <3>2
  <2> QED
    BY <1>5, <2>1, <2>2 DEF Laid
<1>7. Given(d, m, q, f)
  <2> SUFFICES ASSUME NEW x \in DOMAIN d, NEW w \in words(d, x) PROVE Arena(w, m, q, f)
    BY DEF Given
  <2>1. CASE x = p
    BY <1>5, <2>1 DEF words
  <2>2. CASE x # p
    <3>1. w \in words(c, x) /\ x \in Nat /\ c[x].size \in Nat
      BY <1>1, <1>5, <2>2 DEF words
    <3>2. Arena(w, m, r, g)
      BY <1>5, <3>1 DEF Given
    <3>3. x + c[x].size <= p \/ p + c[p].size <= x
      BY <1>1, <1>5, <2>2
    <3>4. ~(p <= w /\ w < p + c[p].size)
      BY <1>1, <3>1, <3>3 DEF words
    <3> QED
      BY <3>2, <3>4
  <2> QED
    BY <2>1, <2>2
<1> QED
  BY <1>5, <1>6, <1>7 DEF Keeps

(* A mapping goes, with its pages.                                         *)
LEMMA MapGone ==
  ASSUME NEW m, NEW g, Mapped(m, g), NEW p \in DOMAIN m, NEW n, n = Without(m, {p}),
         NEW f, f = g \ own(m, p)
  PROVE  /\ Mapped(n, f) /\ DOMAIN n = DOMAIN m \ {p} /\ \A q \in DOMAIN n : n[q] = m[q]
         /\ \A c, r : Given(c, m, r, g) => Given(c, n, r, f)
         /\ \A c : Keeps(c, m, c, n, {p})
<1>1. DOMAIN n = DOMAIN m \ {p} /\ \A q \in DOMAIN n : n[q] = m[q]
  BY DEF Without
<1>2. n \in [DOMAIN n -> [size : Nat, prev_size : Nat]]
  BY <1>1 DEF Without, Mapped
<1>3. \A q \in DOMAIN n : own(n, q) = own(m, q)
  BY <1>1 DEF own
<1>4. Mapped(n, f)
  BY <1>1, <1>2, <1>3 DEF Mapped
<1>5. ASSUME NEW w, NEW r, Arena(w, m, r, g) PROVE Arena(w, n, r, f)
  BY <1>1, <1>3, <1>5 DEF Arena
<1>6. \A c, r : Given(c, m, r, g) => Given(c, n, r, f)
  BY <1>5 DEF Given
<1>7. \A c : Keeps(c, m, c, n, {p})
  BY <1>1 DEF Keeps
<1> QED
  BY <1>1, <1>4, <1>6, <1>7

(* A mapping of l pages from page i on; s words of it from p on, after the *)
(* first v, are the chunk.                                                 *)
NewAs(m, n, g, f, p, s, v) ==
  /\ Mapped(n, f) /\ DOMAIN n = DOMAIN m \cup {p} /\ p \notin DOMAIN m /\ p \in Nat /\ p > 0
  /\ n[p].size = s /\ n[p].prev_size = v /\ \A q \in DOMAIN m : n[q] = m[q]
  /\ \A c, r : Given(c, m, r, g) => Given(c, n, r, f)
  /\ \A c : Keeps(c, m, c, n, {p})

Pages(i, l, g) == i \in Nat /\ i > 0 /\ l \in Nat /\ run(i, l) \cap g = {}

Placed(i, l, p, s, v) ==
  v \in Nat /\ s \in Nat /\ s > 0 /\ p = i * PAGE + v /\ v + s = l * PAGE

LEMMA MapNew ==
  ASSUME NEW m, NEW g, Mapped(m, g), NEW i, NEW l, Pages(i, l, g),
         NEW p, NEW s, NEW v, Placed(i, l, p, s, v),
         NEW n, n = With(m, p, [size |-> s, prev_size |-> v]), NEW f, f = g \cup run(i, l)
  PROVE  NewAs(m, n, g, f, p, s, v)
<1> SUFFICES ASSUME i \in Nat, i > 0, l \in Nat, run(i, l) \cap g = {},
                    v \in Nat, s \in Nat, s > 0, p = i * PAGE + v, v + s = l * PAGE
             PROVE  NewAs(m, n, g, f, p, s, v)
  BY DEF Pages, Placed
<1>0. p > 0
  <2>1. PICK b : b = i * PAGE
    OBVIOUS
  <2>2. b \in Nat /\ b > 0
    BY <2>1, PageSize
  <2> QED
    BY <2>1, <2>2
<1>1. PICK b : b = i * PAGE
  OBVIOUS
<1>2. b \in Nat /\ p \in Nat /\ p = b + v /\ b % PAGE = 0 /\ b \div PAGE = i
  BY <1>0, <1>1, PageSize, Multiple
<1>3. (v + s) % PAGE = 0 /\ (v + s) \div PAGE = l
  BY PageSize, Multiple
<1>4. p \div PAGE \in run(i, l)
  <2>1. p < (i + l) * PAGE
    <3>1. (i + l) * PAGE = i * PAGE + l * PAGE
      BY PageSize
    <3>2. PICK e : e = l * PAGE
      OBVIOUS
    <3>3. PICK t : t = (i + l) * PAGE
      OBVIOUS
    <3>4. t = b + e /\ v + s = e
      BY <1>1, <3>1, <3>2, <3>3
    <3>5. p < t
      BY <1>2, <3>4
    <3> QED
      BY <3>3, <3>5
  <2>2. i * PAGE <= p /\ i + l \in Nat
    <3>1. b <= p
      BY <1>2
    <3> QED
      BY <1>1, <3>1
  <2>3. p \div PAGE \in i..(i + l) - 1
    BY <1>2, <2>1, <2>2, PageSize, DivWithin
  <2> QED
    BY <2>3 DEF run
<1>5. p \notin DOMAIN m
  <2> SUFFICES ASSUME p \in DOMAIN m PROVE FALSE
    OBVIOUS
  <2>1. /\ m[p].size \in Nat /\ m[p].prev_size \in Nat /\ m[p].size > 0 /\ own(m, p) \subseteq g
        /\ \A x \in Nat : p - m[p].prev_size <= x /\ x < p + m[p].size <=> x \div PAGE \in own(m, p)
    BY OwnPages
  <2>2. p \div PAGE \in own(m, p)
    BY <1>2, <2>1
  <2> QED
    BY <1>4, <2>1, <2>2
<1>6. /\ DOMAIN n = DOMAIN m \cup {p} /\ n[p] = [size |-> s, prev_size |-> v]
      /\ \A q \in DOMAIN m : n[q] = m[q]
  BY <1>5 DEF With
<1>7. own(n, p) = run(i, l) /\ \A q \in DOMAIN m : own(n, q) = own(m, q)
  BY <1>2, <1>3, <1>6 DEF own
<1>8. n \in [DOMAIN n -> [size : Nat, prev_size : Nat]]
  <2>1. n = [q \in DOMAIN n |-> n[q]]
    BY DEF With
  <2>2. \A q \in DOMAIN n : n[q] \in [size : Nat, prev_size : Nat]
    BY <1>6 DEF Mapped
  <2> QED
    BY <2>1, <2>2
<1>9. Mapped(n, f)
  <2>1. DOMAIN n \subseteq Nat \ {0}
    BY <1>0, <1>2, <1>6 DEF Mapped
  <2>2. ASSUME NEW q \in DOMAIN n
        PROVE  /\ n[q].size > 0 /\ q - n[q].prev_size \in Nat
               /\ (q - n[q].prev_size) % PAGE = 0 /\ (n[q].prev_size + n[q].size) % PAGE = 0
               /\ own(n, q) \subseteq f
    <3>1. CASE q = p
      <4>1. n[q].size = s /\ n[q].prev_size = v /\ p - v = b
        BY <1>2, <1>6, <3>1
      <4> QED
        BY <1>2, <1>3, <1>7, <3>1, <4>1
    <3>2. CASE q # p
      BY <1>6, <1>7, <3>2 DEF Mapped
    <3> QED
      BY <3>1, <3>2
  <2>3. ASSUME NEW x \in DOMAIN n, NEW y \in DOMAIN n, x # y PROVE own(n, x) \cap own(n, y) = {}
    <3>1. \A q \in DOMAIN m : own(m, q) \cap run(i, l) = {}
      BY DEF Mapped
    <3> QED
      BY <1>6, <1>7, <2>3, <3>1 DEF Mapped
  <2> QED
    BY <1>8, <2>1, <2>2, <2>3 DEF Mapped
<1>10. ASSUME NEW w, NEW r, Arena(w, m, r, g) PROVE Arena(w, n, r, f)
  BY <1>6, <1>7, <1>10 DEF Arena
<1>11. \A c, r : Given(c, m, r, g) => Given(c, n, r, f)
  BY <1>10 DEF Given
<1>12. \A c : Keeps(c, m, c, n, {p})
  BY <1>6 DEF Keeps
<1>13. p \in Nat
  BY <1>2
<1>14. n[p].size = s /\ n[p].prev_size = v
  BY <1>6
<1> QED
  BY <1>0, <1>5, <1>6, <1>9, <1>11, <1>12, <1>13, <1>14 DEF NewAs

-----------------------------------------------------------------------------
(* Lists of chunks                                                         *)

(* The list i of a family becomes s: of chunks that it had, or that were    *)
(* on no list and are of its size.                                         *)
CacheFit(s, l, i, c) ==
  \A x \in ToSet(s) :
    x \in ToSet(l[i]) \/ (x \notin Elements(l) /\ x \in DOMAIN c /\ Aligned(c[x].size) /\ csize2tidx(c[x].size) = i)

LEMMA CacheChange ==
  ASSUME NEW I, NEW l, Family(l, I), NEW c, CacheOK(l, c), NEW i \in I,
         NEW s, List(s), CacheFit(s, l, i, c), NEW k, Becomes(l, i, s, k)
  PROVE  Family(k, I) /\ CacheOK(k, c) /\ Swaps(l, i, s, k)
<1>0. Changes(l, i, s)
  BY DEF Changes, CacheFit
<1>1. /\ Family(k, I) /\ k[i] = s /\ \A j \in I \ {i} : k[j] = l[j]
      /\ Elements(k) = (Elements(l) \ ToSet(l[i])) \cup ToSet(s)
  BY <1>0, ListChanges
<1>2. DOMAIN l = I /\ DOMAIN k = I /\ Once(k)
  BY <1>1 DEF Family
<1>3. \A j \in I : \A x \in ToSet(l[j]) : x \in DOMAIN c /\ Aligned(c[x].size) /\ csize2tidx(c[x].size) = j
  BY <1>2 DEF CacheOK, Fit, ToSet
<1>4. \A j \in I : \A x \in ToSet(k[j]) : x \in DOMAIN c /\ Aligned(c[x].size) /\ csize2tidx(c[x].size) = j
  BY <1>1, <1>3 DEF CacheFit
<1>5. \A j \in I : \A n \in DOMAIN k[j] : k[j][n] \in ToSet(k[j])
  BY DEF ToSet
<1> QED
  BY <1>1, <1>2, <1>4, <1>5 DEF CacheOK, Fit, Swaps

FastFit(s, l, i, c) ==
  \A x \in ToSet(s) :
    x \in ToSet(l[i]) \/ (x \notin Elements(l) /\ x \in DOMAIN c /\ Aligned(c[x].size) /\ fastbin_index(c[x].size) = i)

LEMMA FastChange ==
  ASSUME NEW I, NEW l, Family(l, I), NEW c, FastOK(l, c), NEW i \in I,
         NEW s, List(s), FastFit(s, l, i, c), NEW k, Becomes(l, i, s, k)
  PROVE  Family(k, I) /\ FastOK(k, c) /\ Swaps(l, i, s, k)
<1>0. Changes(l, i, s)
  BY DEF Changes, FastFit
<1>1. /\ Family(k, I) /\ k[i] = s /\ \A j \in I \ {i} : k[j] = l[j]
      /\ Elements(k) = (Elements(l) \ ToSet(l[i])) \cup ToSet(s)
  BY <1>0, ListChanges
<1>2. DOMAIN l = I /\ DOMAIN k = I /\ Once(k)
  BY <1>1 DEF Family
<1>3. \A j \in I : \A x \in ToSet(l[j]) : x \in DOMAIN c /\ Aligned(c[x].size) /\ fastbin_index(c[x].size) = j
  BY <1>2 DEF FastOK, Fit, ToSet
<1>4. \A j \in I : \A x \in ToSet(k[j]) : x \in DOMAIN c /\ Aligned(c[x].size) /\ fastbin_index(c[x].size) = j
  BY <1>1, <1>3 DEF FastFit
<1>5. \A j \in I : \A n \in DOMAIN k[j] : k[j][n] \in ToSet(k[j])
  BY DEF ToSet
<1> QED
  BY <1>1, <1>2, <1>4, <1>5 DEF FastOK, Fit, Swaps

BinFit(s, l, i, c) ==
  \A x \in ToSet(s) :
    x \in ToSet(l[i]) \/ (x \notin Elements(l) /\ x \in DOMAIN c /\ Aligned(c[x].size) /\ (i # Unsorted => bin_index(c[x].size) = i))

LEMMA BinsChange ==
  ASSUME NEW l, Family(l, Bins), NEW c, BinsOK(l, c), NEW i \in Bins,
         NEW s, List(s), BinFit(s, l, i, c), NEW k, Becomes(l, i, s, k)
  PROVE  Family(k, Bins) /\ BinsOK(k, c) /\ Swaps(l, i, s, k)
<1>0. Changes(l, i, s)
  BY DEF Changes, BinFit
<1>1. /\ Family(k, Bins) /\ k[i] = s /\ \A j \in Bins \ {i} : k[j] = l[j]
      /\ Elements(k) = (Elements(l) \ ToSet(l[i])) \cup ToSet(s)
  BY <1>0, ListChanges
<1>2. DOMAIN l = Bins /\ DOMAIN k = Bins /\ Once(k)
  BY <1>1 DEF Family
<1>3. \A j \in Bins : \A x \in ToSet(l[j]) : x \in DOMAIN c /\ Aligned(c[x].size) /\ (j # Unsorted => bin_index(c[x].size) = j)
  BY <1>2 DEF BinsOK, Fit, ToSet
<1>4. \A j \in Bins : \A x \in ToSet(k[j]) : x \in DOMAIN c /\ Aligned(c[x].size) /\ (j # Unsorted => bin_index(c[x].size) = j)
  BY <1>1, <1>3 DEF BinFit
<1>5. \A j \in Bins : \A n \in DOMAIN k[j] : k[j][n] \in ToSet(k[j])
  BY DEF ToSet
<1> QED
  BY <1>1, <1>2, <1>4, <1>5 DEF BinsOK, Fit, Swaps

LEMMA UnsortedBin == Unsorted \in Bins
<1>1. Aligned(MINSIZE)
  <2>1. 2 \in Nat /\ MINSIZE = 2 * MALLOC_ALIGNMENT
    BY Units
  <2> QED
    BY <2>1, MultipleAligned
<1>2. PICK i : i = bin_index(MINSIZE)
  OBVIOUS
<1>3. i \in Bins /\ i > 1
  BY <1>1, <1>2, HasBin
<1> QED
  BY <1>3, SizesAssumption DEF Bins, Unsorted

(* A chunk on one list is on no other.                                     *)
LEMMA OneList ==
  ASSUME NEW l, Once(l), NEW i \in DOMAIN l, NEW j \in DOMAIN l, i # j
  PROVE  ToSet(l[i]) \cap ToSet(l[j]) = {}
BY DEF Once, ToSet

LEMMA Unlinked ==
  ASSUME NEW l, Family(l, Bins), NEW c, BinsOK(l, c), NEW p, NEW k, k = unlinked(l, p)
  PROVE  Family(k, Bins) /\ BinsOK(k, c) /\ Elements(k) = Elements(l) \ {p}
<1>0. DOMAIN l = Bins /\ Once(l) /\ l \in [Bins -> Seq(Nat)]
  BY DEF Family
<1>1. CASE \A i \in Bins : p \notin ToSet(l[i])
  <2>1. k = l
    BY <1>0, <1>1 DEF unlinked
  <2>2. p \notin Elements(l)
    BY <1>0, <1>1 DEF Elements
  <2> QED
    BY <2>1, <2>2
<1>2. ASSUME NEW i \in Bins, p \in ToSet(l[i])
      PROVE  Family(k, Bins) /\ BinsOK(k, c) /\ Elements(k) = Elements(l) \ {p}
  <2>1. PICK s : s = RemoveAt(l[i], CHOOSE n \in DOMAIN l[i] : l[i][n] = p)
    OBVIOUS
  <2>2. List(l[i]) /\ ToSet(l[i]) \subseteq Elements(l)
    BY ListInj
  <2>3. \A j \in Bins \ {i} : ToSet(l[i]) \cap ToSet(l[j]) = {}
    BY <1>0, OneList
  <2>4. Becomes(l, i, s, k)
    <3>1. k \in [Bins -> {k[j] : j \in Bins}] /\ [l EXCEPT ![i] = s] \in [Bins -> {s} \cup {l[j] : j \in Bins}]
      BY <1>0 DEF unlinked
    <3>2. k[i] = s
      BY <1>2, <2>1 DEF unlinked
    <3>3. \A j \in Bins \ {i} : k[j] = l[j]
      BY <1>2, <2>3 DEF unlinked
    <3> QED
      BY <1>0, <3>1, <3>2, <3>3 DEF Becomes
  <2>5. List(s) /\ ToSet(s) = ToSet(l[i]) \ {p}
    <3>1. PICK n \in DOMAIN l[i] : n = CHOOSE o \in DOMAIN l[i] : l[i][o] = p
      BY <1>2 DEF ToSet
    <3>2. l[i][n] = p
      BY <1>2, <3>1 DEF ToSet
    <3> QED
      BY <2>1, <2>2, <3>1, <3>2, Removed DEF List
  <2>6. BinFit(s, l, i, c)
    BY <2>5 DEF BinFit
  <2>7. /\ Family(k, Bins) /\ BinsOK(k, c)
        /\ Elements(k) = (Elements(l) \ ToSet(l[i])) \cup ToSet(s)
    BY <2>4, <2>5, <2>6, BinsChange DEF Swaps
  <2>8. p \notin Elements(l) \ ToSet(l[i])
    BY <1>2
  <2> QED
    BY <1>2, <2>2, <2>5, <2>7, <2>8
<1> QED
  BY <1>1, <1>2

(* A chunk that is put in front of the unsorted list.                      *)
LEMMA OnUnsorted ==
  ASSUME NEW l, Family(l, Bins), NEW c, BinsOK(l, c), NEW p \in DOMAIN c, p \in Nat,
         p \notin Elements(l), Aligned(c[p].size), NEW k, k = on_unsorted(l, p)
  PROVE  Family(k, Bins) /\ BinsOK(k, c) /\ Elements(k) = Elements(l) \cup {p}
<1>1. Unsorted \in Bins
  BY UnsortedBin
<1>2. List(l[Unsorted]) /\ ToSet(l[Unsorted]) \subseteq Elements(l)
  BY <1>1, ListInj
<1>3. PICK s : s = <<p>> \o l[Unsorted]
  OBVIOUS
<1>4. List(s) /\ ToSet(s) = {p} \cup ToSet(l[Unsorted])
  BY <1>2, <1>3, Pushed DEF List
<1>5. Becomes(l, Unsorted, s, k)
  BY <1>1, <1>3 DEF on_unsorted, Becomes
<1>6. BinFit(s, l, Unsorted, c)
  BY <1>4 DEF BinFit
<1>7. /\ Family(k, Bins) /\ BinsOK(k, c)
      /\ Elements(k) = (Elements(l) \ ToSet(l[Unsorted])) \cup ToSet(s)
  BY <1>1, <1>4, <1>5, <1>6, BinsChange DEF Swaps
<1> QED
  BY <1>2, <1>4, <1>7

-----------------------------------------------------------------------------
(* Headers                                                                 *)

Heads(c) == c \in [DOMAIN c -> Headers]

LEMMA HeadersNew ==
  ASSUME NEW c, Heads(c), NEW p, NEW size \in Nat
  PROVE  IsNew(c, With(c, p, Head2(size)), p, size)
BY DEF With, Head2, Headers, Heads, IsNew

(* Only what a header says of the chunk before changes.                    *)
Footed(c, a, b, x) == [c EXCEPT ![a].prev_inuse = b, ![a].prev_size = x]

LEMMA Footing ==
  ASSUME NEW c, Heads(c), NEW a, NEW b \in BOOLEAN, NEW x \in Int
  PROVE  SameSizes(c, Footed(c, a, b, x))
BY DEF SameSizes, Headers, Heads, Footed

LEMMA InuseBit ==
  ASSUME NEW c, Heads(c), NEW a
  PROVE  SameSizes(c, set_inuse_bit_at(c, a))
<1>1. set_inuse_bit_at(c, a) = Footed(c, a, TRUE, 0)
  BY DEF set_inuse_bit_at, Footed
<1>2. TRUE \in BOOLEAN /\ 0 \in Int
  OBVIOUS
<1>3. SameSizes(c, Footed(c, a, TRUE, 0))
  BY <1>2, Footing, Zenon
<1> QED
  BY <1>1, <1>3, Zenon

LEMMA FootBits ==
  ASSUME NEW c, Heads(c), NEW p, NEW size \in Nat
  PROVE  IsNew(c, set_free(c, p, size), p, size)
<1>1. PICK d : d = With(c, p, Head2(size))
  OBVIOUS
<1>2. IsNew(c, d, p, size)
  BY <1>1, HeadersNew
<1>3. Heads(d) /\ set_free(c, p, size) = Footed(d, p + size, FALSE, size)
  BY <1>1, <1>2 DEF set_free, Footed, IsNew, Heads
<1>4. SameSizes(d, Footed(d, p + size, FALSE, size))
  <2>1. FALSE \in BOOLEAN /\ size \in Int /\ Heads(d)
    BY <1>3
  <2> QED
    BY <2>1, Footing, Zenon
<1> QED
  BY <1>2, <1>3, <1>4 DEF IsNew, SameSizes

LEMMA SplitCuts ==
  ASSUME NEW c, Laid(c), NEW p \in DOMAIN c, NEW nb \in Nat, nb > 0, nb < c[p].size
  PROVE  IsCut(c, split(c, p, nb), p, nb)
<1>1. Heads(c) /\ p \in Nat /\ c[p].size \in Nat
  BY LaidTypes DEF Laid, Heads
<1>2. p + nb \notin DOMAIN c
  BY Inside
<1>3. PICK e : e = With(c, p, Head2(nb))
  OBVIOUS
<1>4. IsNew(c, e, p, nb)
  BY <1>1, <1>3, HeadersNew
<1>5. PICK rem \in Nat : rem = c[p].size - nb
  BY <1>1
<1>6. PICK d : d = split(c, p, nb)
  OBVIOUS
<1>7. PICK q : q = p + nb
  OBVIOUS
<1>8. d = set_free(e, q, rem) /\ Heads(e)
  BY <1>3, <1>4, <1>5, <1>6, <1>7 DEF split, IsNew, Heads
<1>9. IsNew(e, d, q, rem)
  BY <1>8, FootBits
<1>10. p # q
  BY <1>1, <1>7
<1>11. IsCut(c, d, p, nb)
  BY <1>2, <1>4, <1>5, <1>7, <1>9, <1>10 DEF IsCut, IsNew
<1> QED
  BY <1>6, <1>11

-----------------------------------------------------------------------------
(* Steps that change the stack                                             *)

LEMMA Popped ==
  ASSUME Good, call # << >>, Above(op)
  PROVE  /\ op \in Frames /\ Tail(call) \in Seq(Frames) /\ call \in Seq(Frames)
         /\ Topmost(call) = op /\ Base(call) = Base(Tail(call))
         /\ OnCall = Holds(op) \cup OnStack(Tail(call))
         /\ Holds(op) \cap OnStack(Tail(call)) = {}
         /\ Waiting(Tail(call))
         /\ FrameOK(op, Topmost(Tail(call)), Base(Tail(call)), chunk, mapped, held)
         /\ Legal(Tail(call), chunk, mapped, held)
<1>1. Legal(call, chunk, mapped, held)
  BY DEF Good
<1>2. PICK f, t : f = Head(call) /\ t = Tail(call)
  OBVIOUS
<1>3. Above(f)
  BY <1>2 DEF op
<1>4. /\ call \in Seq(Frames) /\ t \in Seq(Frames) /\ f \in Frames /\ Topmost(call) = f
      /\ OnStack(call) = Holds(f) \cup OnStack(t) /\ Holds(f) \cap OnStack(t) = {}
      /\ Waiting(t) /\ FrameOK(f, Topmost(t), Base(call), chunk, mapped, held)
      /\ Base(t) = Base(call) /\ Legal(t, chunk, mapped, held)
  <2>1. call # << >>
    OBVIOUS
  <2>2. (Above(f) => Base(t) = Base(call) /\ Legal(t, chunk, mapped, held)) /\ Topmost(call) = f
    BY <1>1, <1>2, <2>1, Pops, Zenon
  <2>3. /\ call \in Seq(Frames) /\ t \in Seq(Frames) /\ f \in Frames
    BY <1>1, <1>2, <2>1, Pops, Zenon
  <2>4. OnStack(call) = Holds(f) \cup OnStack(t)
    BY <1>1, <1>2, <2>1, Pops, Zenon
  <2>6. Holds(f) \cap OnStack(t) = {}
    BY <1>1, <1>2, <2>1, Pops, Zenon
  <2>5. Waiting(t) /\ FrameOK(f, Topmost(t), Base(call), chunk, mapped, held)
    BY <1>1, <1>2, <2>1, Pops, Zenon
  <2> QED
    BY <1>3, <2>2, <2>3, <2>4, <2>5, <2>6
<1> QED
  BY <1>2, <1>4 DEF op, OnCall

LEMMA HeadFree ==
  ASSUME Waiting(call)'
  PROVE  HeadOK'
BY DEF Waiting, Waits, HeadOK, At, op, Topmost

LEMMA PartedCall ==
  ASSUME NEW top, NEW C, NEW F, NEW B, NEW S, NEW R, NEW H, NEW K, Parted(top, C, F, B, S, R, H, K),
         NEW T, NEW Q, T \cup Q \subseteq S \cup R, T \cap Q = {}
  PROVE  Parted(top, C, F, B, T, Q, H, K)
BY DEF Parted

LEMMA LinkedLess ==
  ASSUME NEW O, NEW c, NEW m, Linked(O, c, m), NEW P, P \subseteq O
  PROVE  Linked(P, c, m)
BY DEF Linked

LEMMA LinkedBoth ==
  ASSUME NEW O, NEW P, NEW c, NEW m, Linked(O, c, m), Linked(P, c, m)
  PROVE  Linked(O \cup P, c, m)
BY DEF Linked

LEMMA RoomyBoth ==
  ASSUME NEW h, NEW O, NEW P, NEW c, NEW m, Roomy(h, O, c, m), Roomy(h, P, c, m)
  PROVE  Roomy(h, O \cup P, c, m)
BY DEF Roomy

(* A step that touches the chunks X at most, and after which Y is linked.  *)
LEMMA Assemble ==
  ASSUME Good, NEW X, Keeps(chunk, mapped, chunk', mapped', X),
         Types', HeapOK', ListsOK', Legal(call, chunk, mapped, held)',
         NEW Y, Linked(Y, chunk', mapped'), Owned' \subseteq (Owned \ X) \cup Y,
         Parted(av.top, InCache, InFast, InBins, OnCall, Returned, Still, Block)',
         held' = held, Base(call').p = Base(call).p, Still \cap X = {},
         Roomy(held, Failed', chunk', mapped'), RetOK', HeadOK'
  PROVE  Good'
<1>1. OwnersOK'
  <2>1. Linked(Owned, chunk, mapped)
    BY DEF Good, OwnersOK
  <2>2. Linked(Owned \ X, chunk', mapped')
    BY <2>1, KeptLinked
  <2>3. Linked((Owned \ X) \cup Y, chunk', mapped')
    BY <2>2, LinkedBoth
  <2>4. Linked(Owned', chunk', mapped')
    BY <2>3, LinkedLess
  <2> QED
    BY <2>4 DEF OwnersOK
<1>2. HeldOK'
  <2>1. Still' = Still
    BY DEF Still
  <2>2. Roomy(held, Still \cup Failed, chunk, mapped) /\ Linked(Owned, chunk, mapped)
    BY DEF Good, OwnersOK, HeldOK
  <2>3. Roomy(held, Still, chunk, mapped) /\ Linked(Still, chunk, mapped)
    BY <2>2 DEF Roomy, Linked, Owned
  <2>4. Roomy(held, Still, chunk', mapped')
    BY <2>3, KeptRoomy
  <2> QED
    BY <2>1, <2>4, RoomyBoth DEF HeldOK
<1> QED
  BY <1>1, <1>2 DEF Good

(* The lists stay.                                                         *)
Listless == tcache'.entries = tcache.entries /\ av'.fastbins = av.fastbins /\ av'.bins = av.bins

LEMMA NoOverlap ==
  ASSUME NEW c, NEW m
  PROVE  Keeps(c, m, c, m, {})
BY DEF Keeps

(* A step that only moves chunks among the calls.                          *)
LEMMA Control ==
  ASSUME Good, chunk' = chunk, mapped' = mapped, brk' = brk, pages' = pages, setup' = setup,
         held' = held, Listless, av'.top = av.top, tcache'.block = tcache.block,
         av' \in Arenas, mp' \in Params, mp'.max_fast <= request2size(MAX_FAST_SIZE),
         tcache' \in Caches, ret' \in Answers,
         Legal(call', chunk, mapped, held), Base(call').p = Base(call).p,
         OnCall' \cup Returned' \subseteq OnCall \cup Returned, OnCall' \cap Returned' = {},
         Roomy(held, Failed', chunk, mapped), RetOK', HeadOK'
  PROVE  Good'
<1>1. Keeps(chunk, mapped, chunk', mapped', {})
  BY NoOverlap
<1>2. Types'
  BY DEF Good, Types, BRK_START, BRK_LIMIT, MMAP_PAGES
<1>3. HeapOK'
  BY DEF Good, HeapOK, Sbrk, BRK_START
<1>4. ListsOK'
  BY DEF Good, ListsOK, Listless
<1>5. /\ InCache' = InCache /\ InFast' = InFast /\ InBins' = InBins
      /\ Still' = Still /\ Block' = Block
  BY DEF InCache, InFast, InBins, Still, Block, Listless
<1>6. Owned' \subseteq (Owned \ {}) \cup {}
  BY <1>5 DEF Owned
<1>7. Linked({}, chunk', mapped')
  BY DEF Linked
<1>8. Parted(av.top, InCache, InFast, InBins, OnCall, Returned, Still, Block)
  BY DEF Good, OwnersOK
<1>9. Parted(av.top, InCache, InFast, InBins, OnCall, Returned, Still, Block)'
  <2>1. Parted(av.top, InCache, InFast, InBins, OnCall', Returned', Still, Block)
    BY <1>8, PartedCall
  <2> QED
    BY <1>5, <2>1
<1>10. Legal(call, chunk, mapped, held)'
  OBVIOUS
<1> QED
  BY <1>1, <1>2, <1>3, <1>4, <1>6, <1>7, <1>9, <1>10, Assemble

-----------------------------------------------------------------------------
(* Steps that leave the heap, its lists and what is held                   *)

(* A step that leaves the heap, the lists and what is held.                *)
HeapKept ==
  /\ chunk' = chunk /\ mapped' = mapped /\ brk' = brk /\ pages' = pages /\ setup' = setup
  /\ held' = held /\ Listless /\ av'.top = av.top /\ tcache'.block = tcache.block
  /\ av' \in Arenas /\ mp' \in Params /\ mp'.max_fast <= request2size(MAX_FAST_SIZE)
  /\ tcache' \in Caches

LEMMA Untouched ==
  ASSUME Good, UNCHANGED <<heap, tcache, rest>>
  PROVE  HeapKept
BY DEF Good, Types, HeapKept, Listless, heap, rest, system

LEMMA NoReturnIs ==
  NoReturn \in Answers /\ NoReturn.p = NULL
BY DEF NoReturn, Answers, NULL

LEMMA RetIs ==
  ASSUME Good
  PROVE  ret \in Answers
BY DEF Good, Types

(* Where nothing is returned, a frame other than deliver has nothing.      *)
LEMMA NothingGiven ==
  ASSUME NEW s, NEW r, r = NULL, Topmost(s).at # "deliver"
  PROVE  Handed(s, r) = {}
BY DEF Handed

(* The calls after a step that leaves the heap, X of them being new.       *)
LEMMA Goes ==
  ASSUME Good, call # << >>, Above(op), HeapKept,
         NEW f, NEW X, X \subseteq Holds(op),
         Grown(call', Tail(call), f, X \cup OnStack(Tail(call)), chunk, mapped, held),
         Above(f), f.at \notin Needy, ret' \in {ret, NoReturn}, HeadOK'
  PROVE  Good'
<1>1. /\ Base(call) = Base(Tail(call)) /\ OnCall = Holds(op) \cup OnStack(Tail(call))
      /\ Topmost(call) = op
  BY Popped
<1>3. Legal(call', chunk, mapped, held) /\ Base(call') = Base(Tail(call)) /\ Topmost(call') = f
  BY DEF Grown
<1>4. OnCall' = X \cup OnStack(Tail(call))
  BY DEF Grown, OnCall
<1>5. Returned' \subseteq Returned /\ Failed' = {} /\ ret' \in Answers
  BY <1>1, <1>3, NoReturnIs, RetIs DEF Returned, Handed, Failed, Above
<1>6. OnCall' \cup Returned' \subseteq OnCall \cup Returned /\ OnCall' \cap Returned' = {}
  <2>1. OnCall \cap Returned = {}
    BY DEF Good, OwnersOK, Parted
  <2> QED
    BY <1>1, <1>4, <1>5, <2>1
<1>7. RetOK'
  BY <1>3 DEF RetOK
<1>8. Roomy(held, Failed', chunk, mapped)
  BY <1>5 DEF Roomy
<1>9. Base(call').p = Base(call).p
  BY <1>1, <1>3
<1> QED
  BY <1>3, <1>5, <1>6, <1>7, <1>8, <1>9, Control DEF HeapKept

(* It goes on with one frame, or asks one or two functions first.          *)
LEMMA Calls1 ==
  ASSUME Good, call # << >>, Above(op), HeapKept,
         NEW g, call' = <<g>> \o Tail(call), Above(g), g.at \notin Needy,
         FrameOK(g, Topmost(Tail(call)), Base(Tail(call)), chunk, mapped, held),
         Holds(g) \subseteq Holds(op), ret' \in {ret, NoReturn}, HeadOK'
  PROVE  Good'
<1>1. /\ Waiting(Tail(call)) /\ Legal(Tail(call), chunk, mapped, held)
  BY Popped
<1>2. Apart1(g, Tail(call))
  BY Popped DEF Apart1
<1>3. Grown(call', Tail(call), g, Holds(g) \cup OnStack(Tail(call)), chunk, mapped, held)
  BY <1>1, <1>2, Push1, Zenon
<1> QED
  BY <1>3, Goes, Zenon

LEMMA Calls2 ==
  ASSUME Good, call # << >>, Above(op), HeapKept,
         NEW f, NEW g, call' = <<f, g>> \o Tail(call), Above(f), Above(g), f.at \notin Needy,
         FrameOK(f, g, Base(Tail(call)), chunk, mapped, held),
         FrameOK(g, Topmost(Tail(call)), Base(Tail(call)), chunk, mapped, held),
         Waits(f), Waits(g),
         Bare(f), Holds(g) \subseteq Holds(op), ret' \in {ret, NoReturn}
  PROVE  Good'
<1>1. /\ Waiting(Tail(call)) /\ Legal(Tail(call), chunk, mapped, held)
  BY Popped
<1>2. Apart2(f, g, Tail(call))
  BY Popped DEF Apart2, Apart1, Bare
<1>3. Grown(call', Tail(call), f, Holds(f) \cup Holds(g) \cup OnStack(Tail(call)), chunk, mapped, held)
  BY <1>1, <1>2, Push2, Zenon
<1>4. Grown(call', Tail(call), f, Holds(g) \cup OnStack(Tail(call)), chunk, mapped, held)
  BY <1>3 DEF Bare, Grown
<1>5. HeadOK'
  BY <1>3, HeadFree DEF Waiting, Grown
<1> QED
  BY <1>4, <1>5, Goes, Zenon

LEMMA Calls3 ==
  ASSUME Good, call # << >>, Above(op), HeapKept,
         NEW e, NEW f, NEW g, call' = <<e, f, g>> \o Tail(call), Above(e), Above(f), Above(g),
         e.at \notin Needy,
         FrameOK(e, f, Base(Tail(call)), chunk, mapped, held),
         FrameOK(f, g, Base(Tail(call)), chunk, mapped, held),
         FrameOK(g, Topmost(Tail(call)), Base(Tail(call)), chunk, mapped, held),
         Waits(e), Waits(f), Waits(g), Bare(e),
         Bare(f), Holds(g) \subseteq Holds(op), ret' \in {ret, NoReturn}
  PROVE  Good'
<1>1. /\ Waiting(Tail(call)) /\ Legal(Tail(call), chunk, mapped, held)
  BY Popped
<1>2. Apart1(g, Tail(call))
  BY Popped DEF Apart1
<1>3. Grown(call', Tail(call), e, Holds(g) \cup OnStack(Tail(call)), chunk, mapped, held)
  BY <1>1, <1>2, Push3, Zenon
<1>5. HeadOK'
  BY <1>3, HeadFree DEF Waiting, Grown
<1> QED
  BY <1>3, <1>5, Goes, Zenon

(* A call that returns.                                                    *)
LEMMA Resumes ==
  ASSUME Good, call # << >>, Above(op), call' = Tail(call)
  PROVE  /\ Legal(call', chunk, mapped, held) /\ Base(call').p = Base(call).p /\ HeadOK'
         /\ OnCall' = OnStack(Tail(call))
         /\ FrameOK(op, Topmost(call'), Base(call'), chunk, mapped, held)
<1>1. /\ Base(call) = Base(Tail(call)) /\ Waiting(Tail(call))
      /\ Legal(Tail(call), chunk, mapped, held)
      /\ FrameOK(op, Topmost(Tail(call)), Base(Tail(call)), chunk, mapped, held)
  BY Popped
<1>2. HeadOK'
  BY <1>1, HeadFree
<1> QED
  BY <1>1, <1>2 DEF OnCall

(* It returns nothing.                                                     *)
LEMMA GivesUp ==
  ASSUME Good, call # << >>, Above(op), call' = Tail(call), ret' = NoReturn,
         op.at \notin Reallocs \cup {"done"}
  PROVE  Returned' = {} /\ Failed' = {} /\ RetOK'
<1>1. FrameOK(op, Topmost(call'), Base(call'), chunk, mapped, held)
  BY Resumes
<1>2. Topmost(call').at = "deliver" => Topmost(call').p = NULL
  BY <1>1 DEF FrameOK
<1> QED
  BY <1>2, NoReturnIs DEF Returned, Handed, Failed, RetOK

LEMMA Stops ==
  ASSUME Good, call # << >>, Above(op), HeapKept, call' = Tail(call), ret' = NoReturn,
         op.at \notin Reallocs \cup {"done"}
  PROVE  Good'
<1>1. /\ Legal(call', chunk, mapped, held) /\ Base(call').p = Base(call).p /\ HeadOK'
      /\ OnCall' = OnStack(Tail(call))
  BY Resumes
<1>2. Returned' = {} /\ Failed' = {} /\ RetOK'
  BY GivesUp
<1>3. OnCall' \cup Returned' \subseteq OnCall \cup Returned /\ OnCall' \cap Returned' = {}
  BY <1>1, <1>2, Popped
<1>4. Roomy(held, Failed', chunk, mapped) /\ ret' \in Answers
  BY <1>2, NoReturnIs DEF Roomy
<1> QED
  BY <1>1, <1>2, <1>3, <1>4, Control DEF HeapKept

(* The sizes that are compared.                                            *)
LEMMA NeedInt ==
  ASSUME NEW f \in Frames, NEW b \in Frames
  PROVE  Need(f, b) \in Int
BY Units DEF Need, Frames

LEMMA RoomInt ==
  ASSUME NEW c, Laid(c), NEW m, NEW g, Mapped(m, g), NEW p \in DOMAIN c \cup DOMAIN m
  PROVE  room(p, c, m) \in Int
BY Units, LaidTypes, OwnPages DEF room

LEMMA StackTypes ==
  ASSUME NEW s, NEW c, NEW m, NEW h, Legal(s, c, m, h)
  PROVE  Topmost(s) \in Frames /\ Base(s) \in Frames
<1>1. s \in Seq(Frames)
  BY DEF Legal, StackOK
<1>2. Nothing \in Frames
  <2>1. "nothing" \in Labels
    BY DEF Labels, Others
  <2>2. NULL \in Int /\ 0 \in Nat /\ 0 \in Int
    BY DEF NULL
  <2> QED
    BY <2>1, <2>2 DEF Nothing, Frame, Frames
<1>3. s # << >> => Len(s) \in DOMAIN s /\ 1 \in DOMAIN s
  BY <1>1
<1> QED
  BY <1>1, <1>2, <1>3 DEF Topmost, Base

(* It returns a chunk that is large enough.                                *)
Enough(p, nb) == room(p, chunk', mapped') \in Int /\ room(p, chunk', mapped') + SIZE_SZ >= nb

LEMMA Answers1 ==
  ASSUME Good, call # << >>, Above(op), call' = Tail(call), ret'.p # NULL,
         op.at \in Mallocs \cup Askers \cup Reallocs \cup Memaligns, Enough(ret'.p, op.nb)
  PROVE  Returned' = {ret'.p} /\ Failed' = {} /\ RetOK'
<1>1. FrameOK(op, Topmost(call'), Base(call'), chunk, mapped, held) /\ Legal(call', chunk, mapped, held)
  BY Resumes
<1>2. Returned' = {ret'.p} /\ Failed' = {}
  BY DEF Returned, Handed, Failed
<1>3. PICK n : n = Need(Topmost(call'), Base(call'))
  OBVIOUS
<1>4. PICK r : r = room(ret'.p, chunk', mapped')
  OBVIOUS
<1>5. n \in Int /\ r \in Int /\ op.nb \in Nat /\ op.nb >= n /\ r + SIZE_SZ >= op.nb /\ SIZE_SZ \in Nat
  BY <1>1, <1>3, <1>4, NeedInt, StackTypes, Units DEF FrameOK, Enough, Frames
<1> QED
  BY <1>2, <1>3, <1>4, <1>5 DEF RetOK

-----------------------------------------------------------------------------
(* Steps that go on with other frames and leave the heap                   *)

LEMMA Running ==
  ASSUME Good, NEW l, At(l), l # "deliver"
  PROVE  /\ call # << >> /\ op.at = l /\ Above(op)
         /\ op \in Frames /\ op.nb \in Nat /\ op.p \in Int /\ op.x \in Int
         /\ FrameOK(op, Topmost(Tail(call)), Base(Tail(call)), chunk, mapped, held)
         /\ Waiting(Tail(call))
<1>1. call # << >> /\ op.at = l /\ Above(op)
  BY DEF At, op, Above
<1>2. op \in Frames /\ Waiting(Tail(call))
      /\ FrameOK(op, Topmost(Tail(call)), Base(Tail(call)), chunk, mapped, held)
  BY <1>1, Popped
<1> QED
  BY <1>1, <1>2 DEF Frames

LEMMA GoesTo ==
  ASSUME Good, call # << >>, Above(op), HeapKept,
         NEW g, call' = <<g>> \o Tail(call), Above(g), g.at \notin Needy, Waits(g),
         FrameOK(g, Topmost(Tail(call)), Base(Tail(call)), chunk, mapped, held),
         Holds(g) \subseteq Holds(op), ret' \in {ret, NoReturn}
  PROVE  Good'
<1>1. <<g>> \o Tail(call) # << >> /\ Topmost(<<g>> \o Tail(call)) = g
  BY Popped DEF Topmost, FrameOK
<1>2. Waiting(call')
  BY <1>1 DEF Waiting
<1>3. HeadOK'
  BY <1>2, HeadFree
<1> QED
  BY <1>3, Calls1, Zenon

Sized == Mallocs \cup {"libc_malloc", "malloc_cached"}

LEMMA Relabel ==
  ASSUME NEW f, NEW b, NEW base, NEW c, NEW m, NEW h, FrameOK(f, b, base, c, m, h),
         f.at \in Sized, f.x = 0, NEW l \in Sized,
         NEW g, g = [f EXCEPT !.at = l]
  PROVE  /\ FrameOK(g, b, base, c, m, h) /\ g.at = l /\ g.nb = f.nb /\ g.p = f.p /\ g.x = 0
         /\ Above(g) /\ g.at \notin Needy /\ Bare(g) /\ (l # "morecore" => Waits(g))
<1>1. f \in Frames
  BY DEF FrameOK
<1>2. l \in Labels
  BY DEF Labels, Sized, Askers
<1>3. g \in Frames /\ g.at = l /\ g.nb = f.nb /\ g.p = f.p /\ g.x = 0
  BY <1>1, <1>2 DEF Frames
<1>4. /\ Above(g) /\ g.at \notin Needy /\ Bare(g) /\ (l # "morecore" => Waits(g))
  BY <1>3 DEF Above, Needy, Bare, Holds, Holders, Reallocs, Frees, Waits, Sized, Mallocs
<1>5. FrameOK(g, b, base, c, m, h)
  BY <1>3 DEF FrameOK, Sized, Mallocs, Askers, Reallocs, Memaligns, Holders, Frees, Givers
<1> QED
  BY <1>3, <1>4, <1>5

LEMMA GoesOn ==
  ASSUME Good, NEW k, At(k), k \in Sized, op.x = 0, HeapKept, NEW l \in Sized, Goto(l),
         ret' = ret, l = "morecore" => HeadOK'
  PROVE  Good'
<1>1. k # "deliver"
  BY DEF Sized, Mallocs
<1>2. /\ call # << >> /\ op.at = k /\ Above(op)
      /\ FrameOK(op, Topmost(Tail(call)), Base(Tail(call)), chunk, mapped, held)
  BY <1>1, Running
<1>3. PICK g : g = [op EXCEPT !.at = l]
  OBVIOUS
<1>4. /\ FrameOK(g, Topmost(Tail(call)), Base(Tail(call)), chunk, mapped, held) /\ g.at = l
      /\ Above(g) /\ g.at \notin Needy /\ Bare(g) /\ (l # "morecore" => Waits(g))
  BY <1>2, <1>3, Relabel
<1>5. call' = <<g>> \o Tail(call)
  BY <1>3 DEF Goto, Continue
<1>6. HeadOK'
  <2>1. <<g>> \o Tail(call) # << >> /\ Topmost(<<g>> \o Tail(call)) = g
    BY <1>2, Popped DEF Topmost, FrameOK
  <2>2. l # "morecore" => Waiting(call')
    BY <1>4, <1>5, <2>1 DEF Waiting
  <2> QED
    BY <2>2, HeadFree
<1>7. Holds(g) \subseteq Holds(op) /\ ret' \in {ret, NoReturn}
  BY <1>4 DEF Bare
<1> QED
  BY <1>2, <1>4, <1>5, <1>6, <1>7, Calls1, Zenon

Fine == At("abort") \/ Good

LEMMA Aborts ==
  ASSUME Abort
  PROVE  Fine'
BY DEF Abort, Fine, At, Frame

(* A step that changes nothing but fields of av that no list is in.        *)
LEMMA ArenaOnly ==
  ASSUME Good, UNCHANGED <<chunk, mapped, tcache, mp, system, held>>, av' \in Arenas,
         av'.top = av.top, av'.fastbins = av.fastbins, av'.bins = av.bins
  PROVE  HeapKept
BY DEF Good, Types, HeapKept, Listless, system

LEMMA Consolidating ==
  ASSUME NEW a \in Arenas
  PROVE  LET b == consolidating(a)
         IN  b \in Arenas /\ b.top = a.top /\ b.fastbins = a.fastbins /\ b.bins = a.bins
BY DEF Arenas, consolidating

(* malloc_consolidate is called first.                                     *)
LEMMA ConsolidateFrame ==
  ASSUME NEW b, NEW base, NEW c, NEW m, NEW h, b.at # "deliver"
  PROVE  /\ FrameOK(consolidate, b, base, c, m, h) /\ Above(consolidate) /\ Bare(consolidate)
         /\ consolidate.at \notin Needy /\ Waits(consolidate)
<1>1. consolidate.at = "consolidate" /\ consolidate.p = 0 /\ consolidate.nb = 0 /\ consolidate.x = 0
  BY DEF consolidate, Frame, NULL
<1>2. consolidate \in Frames
  <2>1. "consolidate" \in Labels /\ 0 \in Nat /\ 0 \in Int
    BY DEF Labels, Others
  <2> QED
    BY <2>1 DEF consolidate, Frame, NULL, Frames
<1>3. FrameOK(consolidate, b, base, c, m, h)
  BY <1>1, <1>2 DEF FrameOK, Mallocs, Askers, Reallocs, Memaligns, Holders, Frees, Givers
<1> QED
  BY <1>1, <1>3 DEF Above, Bare, Holds, Holders, Reallocs, Frees, Needy, Waits

(* The search goes round again after malloc_consolidate.                   *)
LEMMA ConsolidatesFirst ==
  ASSUME Good, NEW k, At(k), k \in Sized, op.x = 0, HeapKept, ret' = ret,
         call' = <<consolidate, [op EXCEPT !.at = "unsorted"]>> \o Tail(call)
  PROVE  Good'
<1>1. k # "deliver" /\ "unsorted" \in Sized
  BY DEF Sized, Mallocs
<1>2. /\ call # << >> /\ op.at = k /\ Above(op)
      /\ FrameOK(op, Topmost(Tail(call)), Base(Tail(call)), chunk, mapped, held)
  BY <1>1, Running
<1>3. PICK g : g = [op EXCEPT !.at = "unsorted"]
  OBVIOUS
<1>4. /\ FrameOK(g, Topmost(Tail(call)), Base(Tail(call)), chunk, mapped, held) /\ g.at = "unsorted"
      /\ Above(g) /\ Bare(g) /\ Waits(g)
  BY <1>1, <1>2, <1>3, Relabel
<1>5. call' = <<consolidate, g>> \o Tail(call)
  BY <1>3
<1>6. /\ FrameOK(consolidate, g, Base(Tail(call)), chunk, mapped, held)
      /\ Above(consolidate) /\ Bare(consolidate)
      /\ consolidate.at \notin Needy /\ Waits(consolidate)
  BY <1>4, ConsolidateFrame
<1>7. Holds(g) \subseteq Holds(op) /\ ret' \in {ret, NoReturn}
  BY <1>4 DEF Bare
<1> QED
  BY <1>2, <1>4, <1>5, <1>6, <1>7, Calls2, Zenon

LEMMA IntMallocOtherFine ==
  ASSUME Good, IntMallocOther
  PROVE  Fine'
<1>1. At("int_malloc") /\ "int_malloc" \in Sized /\ "unsorted" \in Sized
  BY DEF IntMallocOther, Sized, Mallocs
<1>2. op.x = 0
  BY <1>1, Running DEF FrameOK, Mallocs
<1>3. HeapKept /\ ret' = ret
  <2>1. av \in Arenas
    BY DEF Good, Types
  <2>2. av' \in {av, consolidating(av)}
    BY DEF IntMallocOther
  <2>3. av' \in Arenas /\ av'.top = av.top /\ av'.fastbins = av.fastbins /\ av'.bins = av.bins
    BY <2>1, <2>2, Consolidating
  <2>4. UNCHANGED <<chunk, mapped, tcache, mp, system, held>> /\ ret' = ret
    BY DEF IntMallocOther, rest
  <2> QED
    BY <2>3, <2>4, ArenaOnly
<1>4. CASE call' = <<consolidate, [op EXCEPT !.at = "unsorted"]>> \o Tail(call)
  BY <1>1, <1>2, <1>3, <1>4, ConsolidatesFirst DEF Fine
<1>5. CASE Goto("unsorted")
  BY <1>1, <1>2, <1>3, <1>5, GoesOn DEF Fine
<1> QED
  BY <1>4, <1>5 DEF IntMallocOther, Goto, Continue

LEMMA FreeTrimFine ==
  ASSUME Good, FreeTrim
  PROVE  Fine'
<1>1. At("free_trim") /\ HeapKept
  BY Untouched DEF FreeTrim
<1>2. CASE Return
  <2>1. op.at \notin Reallocs \cup {"done"} /\ call # << >> /\ Above(op)
    BY <1>1, Running DEF Reallocs
  <2> QED
    BY <1>1, <1>2, <2>1, Stops DEF Fine, Return
<1>3. CASE Goto("systrim") /\ ret' = ret
  <2>1. PICK g : g = [op EXCEPT !.at = "systrim"]
    OBVIOUS
  <2>2. /\ call # << >> /\ op.at = "free_trim" /\ Above(op) /\ op \in Frames
        /\ FrameOK(op, Topmost(Tail(call)), Base(Tail(call)), chunk, mapped, held)
    BY <1>1, Running
  <2>3. "systrim" \in Labels
    BY DEF Labels, Others
  <2>4. g \in Frames /\ g.at = "systrim" /\ g.nb = op.nb
    BY <2>1, <2>2, <2>3 DEF Frames
  <2>5. Above(g) /\ g.at \notin Needy /\ Bare(g) /\ Waits(g)
    BY <2>4 DEF Above, Needy, Bare, Holds, Holders, Reallocs, Frees, Waits
  <2>6. FrameOK(g, Topmost(Tail(call)), Base(Tail(call)), chunk, mapped, held)
    BY <2>2, <2>4 DEF FrameOK, Mallocs, Askers, Reallocs, Memaligns, Holders, Frees, Givers
  <2>7. call' = <<g>> \o Tail(call) /\ Holds(g) \subseteq Holds(op) /\ ret' \in {ret, NoReturn}
    BY <1>3, <2>1, <2>5 DEF Goto, Continue, Bare
  <2>8. Good'
    BY <1>1, <2>2, <2>5, <2>6, <2>7, GoesTo, Zenon
  <2> QED
    BY <2>8 DEF Fine
<1> QED
  BY <1>2, <1>3 DEF FreeTrim

-----------------------------------------------------------------------------
(* Calls of _int_malloc, and what they return to                           *)

(* _int_malloc is called for a frame f that does not return what it gets.  *)
LEMMA MallocFrame ==
  ASSUME NEW nb, Aligned(nb), NEW b, NEW base, NEW c, NEW m, NEW h,
         b.at # "deliver", nb >= Need(b, base)
  PROVE  LET e == Frame("int_malloc", nb, NULL, 0)
         IN  FrameOK(e, b, base, c, m, h) /\ Above(e) /\ e.at \notin Needy /\ Waits(e) /\ Bare(e)
<1>1. PICK e : e = Frame("int_malloc", nb, NULL, 0)
  OBVIOUS
<1>2. e.at = "int_malloc" /\ e.nb = nb /\ e.p = 0 /\ e.x = 0
  BY <1>1 DEF Frame, NULL
<1>3. e \in Frames
  <2>1. "int_malloc" \in Labels /\ 0 \in Int /\ nb \in Nat
    BY DEF Labels, Mallocs, Aligned
  <2> QED
    BY <1>1, <2>1 DEF Frame, NULL, Frames
<1>4. Above(e) /\ e.at \notin Needy /\ Waits(e) /\ Bare(e)
  BY <1>2 DEF Above, Needy, Waits, Bare, Holds, Holders, Reallocs, Frees
<1>5. FrameOK(e, b, base, c, m, h)
  BY <1>2, <1>3 DEF FrameOK, Mallocs, Askers, Reallocs, Memaligns, Holders, Frees, Givers
<1> QED
  BY <1>1, <1>4, <1>5

(* MAYBE_INIT_TCACHE comes first.                                          *)
LEMMA CallsAfterCache ==
  ASSUME Good, call # << >>, Above(op), HeapKept,
         NEW g, call' = (init_tcache \o <<g>>) \o Tail(call), Above(g), g.at \notin Needy, Waits(g),
         FrameOK(g, Topmost(Tail(call)), Base(Tail(call)), chunk, mapped, held),
         Holds(g) \subseteq Holds(op), ret' \in {ret, NoReturn}
  PROVE  Good'
<1>1. CASE init_tcache = << >>
  <2>1. call' = <<g>> \o Tail(call)
    BY <1>1
  <2> QED
    BY <2>1, GoesTo, Zenon
<1>2. CASE init_tcache # << >>
  <2>1. PICK e, f : e = Frame("int_malloc", request2size(TCACHE_SIZE), NULL, 0)
                    /\ f = Frame("tcache_init", 0, NULL, 0)
    OBVIOUS
  <2>2. init_tcache = <<e, f>>
    BY <1>2, <2>1 DEF init_tcache
  <2>3. f.at = "tcache_init" /\ f.nb = 0 /\ f.p = 0 /\ f.x = 0
    BY <2>1 DEF Frame, NULL
  <2>4. f \in Frames
    <3>1. "tcache_init" \in Labels /\ 0 \in Int /\ 0 \in Nat
      BY DEF Labels, Others
    <3> QED
      BY <2>1, <3>1 DEF Frame, NULL, Frames
  <2>5. Above(f) /\ Waits(f) /\ Bare(f)
    BY <2>3 DEF Above, Waits, Bare, Holds, Holders, Reallocs, Frees
  <2>6. FrameOK(f, g, Base(Tail(call)), chunk, mapped, held)
    BY <2>3, <2>4 DEF Above, FrameOK, Mallocs, Askers, Reallocs, Memaligns, Holders, Frees, Givers
  <2>7. PICK nb : nb = request2size(TCACHE_SIZE)
    OBVIOUS
  <2>8. Aligned(nb)
    BY <2>7, Request, PageAssumption
  <2>9. nb >= Need(f, Base(Tail(call))) /\ f.at # "deliver"
    BY <2>3, <2>8 DEF Need, Aligned
  <2>10. FrameOK(e, f, Base(Tail(call)), chunk, mapped, held) /\ Above(e) /\ e.at \notin Needy /\ Waits(e) /\ Bare(e)
    BY <2>1, <2>7, <2>8, <2>9, MallocFrame
  <2>11. call' = <<e, f, g>> \o Tail(call)
    <3>1. e \in Frames /\ f \in Frames /\ g \in Frames
      BY <2>6, <2>10 DEF FrameOK
    <3> QED
      BY <2>2, <3>1
  <2> QED
    BY <2>5, <2>6, <2>10, <2>11, Calls3, Zenon
<1> QED
  BY <1>1, <1>2

LEMMA LibcMallocFine ==
  ASSUME Good, LibcMalloc
  PROVE  Fine'
<1>1. At("libc_malloc") /\ HeapKept /\ "libc_malloc" \in Sized /\ "malloc_cached" \in Sized
  BY Untouched DEF LibcMalloc, Sized
<1>2. PICK g : g = [op EXCEPT !.at = "malloc_cached"]
  OBVIOUS
<1>3. /\ call # << >> /\ op.at = "libc_malloc" /\ Above(op)
      /\ FrameOK(op, Topmost(Tail(call)), Base(Tail(call)), chunk, mapped, held)
  BY <1>1, Running
<1>4. op.x = 0
  BY <1>3 DEF FrameOK, Askers
<1>5. /\ FrameOK(g, Topmost(Tail(call)), Base(Tail(call)), chunk, mapped, held)
      /\ Above(g) /\ g.at \notin Needy /\ Bare(g) /\ Waits(g)
  BY <1>1, <1>2, <1>3, <1>4, Relabel
<1>6. call' = (init_tcache \o <<g>>) \o Tail(call) /\ Holds(g) \subseteq Holds(op) /\ ret' \in {ret, NoReturn}
  BY <1>2, <1>5 DEF LibcMalloc, Continue, Bare
<1>7. Good'
  BY <1>1, <1>3, <1>5, <1>6, CallsAfterCache, Zenon
<1> QED
  BY <1>7 DEF Fine

LEMMA LibcCallocFine ==
  ASSUME Good, LibcCalloc
  PROVE  Fine'
<1>1. At("libc_calloc") /\ HeapKept
  BY Untouched DEF LibcCalloc
<1>2. PICK g : g = [op EXCEPT !.at = "calloc"]
  OBVIOUS
<1>3. /\ call # << >> /\ op.at = "libc_calloc" /\ Above(op) /\ op \in Frames
      /\ FrameOK(op, Topmost(Tail(call)), Base(Tail(call)), chunk, mapped, held)
  BY <1>1, Running
<1>4. g \in Frames /\ g.at = "calloc" /\ g.nb = op.nb /\ g.x = op.x
  <2>1. "calloc" \in Labels
    BY DEF Labels, Askers
  <2> QED
    BY <1>2, <1>3, <2>1 DEF Frames
<1>5. Above(g) /\ g.at \notin Needy /\ Bare(g) /\ Waits(g)
  BY <1>4 DEF Above, Needy, Bare, Holds, Holders, Reallocs, Frees, Waits
<1>6. FrameOK(g, Topmost(Tail(call)), Base(Tail(call)), chunk, mapped, held)
  BY <1>3, <1>4 DEF FrameOK, Mallocs, Askers, Reallocs, Memaligns, Holders, Frees, Givers
<1>7. call' = (init_tcache \o <<g>>) \o Tail(call) /\ Holds(g) \subseteq Holds(op) /\ ret' \in {ret, NoReturn}
  BY <1>2, <1>5 DEF LibcCalloc, Continue, Bare
<1>8. Good'
  BY <1>1, <1>3, <1>5, <1>6, <1>7, CallsAfterCache, Zenon
<1> QED
  BY <1>8 DEF Fine

LEMMA LibcFreeFine ==
  ASSUME Good, LibcFree
  PROVE  Fine'
<1>1. At("libc_free") /\ HeapKept /\ op.p \notin DOMAIN mapped
  BY Untouched DEF LibcFree
<1>2. PICK g : g = [op EXCEPT !.at = "int_free"]
  OBVIOUS
<1>3. /\ call # << >> /\ op.at = "libc_free" /\ Above(op) /\ op \in Frames
      /\ FrameOK(op, Topmost(Tail(call)), Base(Tail(call)), chunk, mapped, held)
  BY <1>1, Running
<1>4. g \in Frames /\ g.at = "int_free" /\ g.p = op.p
  <2>1. "int_free" \in Labels
    BY DEF Labels, Frees
  <2> QED
    BY <1>2, <1>3, <2>1 DEF Frames
<1>5. Above(g) /\ g.at \notin Needy /\ Waits(g) /\ Holds(g) = Holds(op) /\ op.p \in DOMAIN chunk
  BY <1>1, <1>3, <1>4 DEF Above, Needy, Holds, Holders, Frees, Waits, FrameOK
<1>6. FrameOK(g, Topmost(Tail(call)), Base(Tail(call)), chunk, mapped, held)
  BY <1>3, <1>4, <1>5 DEF FrameOK, Mallocs, Askers, Reallocs, Memaligns, Holders, Frees, Givers
<1>7. call' = (init_tcache \o <<g>>) \o Tail(call) /\ Holds(g) \subseteq Holds(op) /\ ret' \in {ret, NoReturn}
  BY <1>2, <1>5 DEF LibcFree, Continue
<1>8. Good'
  BY <1>1, <1>3, <1>5, <1>6, <1>7, CallsAfterCache, Zenon
<1> QED
  BY <1>8 DEF Fine

LEMMA LibcReallocFine ==
  ASSUME Good, LibcRealloc
  PROVE  Fine'
<1>1. At("libc_realloc") /\ HeapKept /\ op.p \notin DOMAIN mapped
  BY Untouched DEF LibcRealloc
<1>2. PICK g : g = [op EXCEPT !.at = "int_realloc"]
  OBVIOUS
<1>3. /\ call # << >> /\ op.at = "libc_realloc" /\ Above(op) /\ op \in Frames
      /\ FrameOK(op, Topmost(Tail(call)), Base(Tail(call)), chunk, mapped, held)
  BY <1>1, Running
<1>4. g \in Frames /\ g.at = "int_realloc" /\ g.p = op.p /\ g.nb = op.nb
  <2>1. "int_realloc" \in Labels
    BY DEF Labels, Reallocs
  <2> QED
    BY <1>2, <1>3, <2>1 DEF Frames
<1>5. Above(g) /\ g.at \notin Needy /\ Waits(g) /\ Holds(g) = Holds(op) /\ op.p \in DOMAIN chunk
  BY <1>1, <1>3, <1>4 DEF Above, Needy, Holds, Holders, Reallocs, Waits, FrameOK
<1>6. FrameOK(g, Topmost(Tail(call)), Base(Tail(call)), chunk, mapped, held)
  BY <1>3, <1>4, <1>5 DEF FrameOK, Mallocs, Askers, Reallocs, Memaligns, Holders, Frees, Givers
<1>7. call' = (init_tcache \o <<g>>) \o Tail(call) /\ Holds(g) \subseteq Holds(op) /\ ret' \in {ret, NoReturn}
  BY <1>2, <1>5 DEF LibcRealloc, Continue
<1>8. Good'
  BY <1>1, <1>3, <1>5, <1>6, <1>7, CallsAfterCache, Zenon
<1> QED
  BY <1>8 DEF Fine

-----------------------------------------------------------------------------
(* Steps that return what a call holds                                     *)

(* What a call holds or was given is returned.                             *)
LEMMA HandsBack ==
  ASSUME Good, call # << >>, Above(op), HeapKept, call' = Tail(call),
         ret' \in Answers, ret'.p # NULL, ret'.p \in Holds(op) \cup Returned, RetOK'
  PROVE  Good'
<1>1. /\ Legal(call', chunk, mapped, held) /\ Base(call').p = Base(call).p /\ HeadOK'
      /\ OnCall' = OnStack(Tail(call))
  BY Resumes
<1>2. Returned' = {ret'.p} /\ Failed' = {}
  BY DEF Returned, Handed, Failed
<1>3. OnCall' \cup Returned' \subseteq OnCall \cup Returned /\ OnCall' \cap Returned' = {}
  <2>1. OnCall \cap Returned = {}
    BY DEF Good, OwnersOK, Parted
  <2>2. OnCall = Holds(op) \cup OnStack(Tail(call)) /\ Holds(op) \cap OnStack(Tail(call)) = {}
    BY Popped
  <2> QED
    BY <1>1, <1>2, <2>1, <2>2
<1>4. Roomy(held, Failed', chunk, mapped)
  BY <1>2 DEF Roomy
<1> QED
  BY <1>1, <1>3, <1>4, Control DEF HeapKept

(* What a frame holds has an address.                                      *)
LEMMA Addresses ==
  ASSUME Good, call # << >>, Above(op), op.at \in Holders
  PROVE  /\ op.p \in Nat /\ op.p # NULL /\ Holds(op) = {op.p} /\ op.p \in DOMAIN chunk \cup DOMAIN mapped
         /\ room(op.p, chunk, mapped) \in Int
<1>1. FrameOK(op, Topmost(Tail(call)), Base(Tail(call)), chunk, mapped, held)
  BY Popped
<1>2. op.p \in DOMAIN chunk \cup DOMAIN mapped
  BY <1>1 DEF FrameOK
<1>3. Laid(chunk) /\ Mapped(mapped, pages)
  BY DEF Good, HeapOK
<1>4. op.p \in Nat /\ op.p # NULL
  BY <1>2, <1>3, LaidTypes, OwnPages DEF NULL
<1> QED
  BY <1>2, <1>3, <1>4, RoomInt DEF Holds

LEMMA DoneFine ==
  ASSUME Good, Done
  PROVE  Fine'
<1>1. At("done") /\ HeapKept /\ chunk' = chunk /\ mapped' = mapped
  BY Untouched DEF Done, heap, rest
<1>2. /\ call # << >> /\ op.at = "done" /\ Above(op) /\ op.at \in Holders
      /\ FrameOK(op, Topmost(Tail(call)), Base(Tail(call)), chunk, mapped, held)
  BY <1>1, Running DEF Holders
<1>3. op.p \in Nat /\ op.p # NULL /\ Holds(op) = {op.p}
  BY <1>2, Addresses
<1>4. call' = Tail(call) /\ ret' \in Answers /\ ret'.p = op.p
  BY <1>3 DEF Done, Gives, Answers
<1>5. RetOK'
  BY <1>1, <1>2, <1>4 DEF RetOK, FrameOK
<1>6. Good'
  BY <1>1, <1>2, <1>3, <1>4, <1>5, HandsBack
<1> QED
  BY <1>6 DEF Fine

LEMMA CallocClearFine ==
  ASSUME Good, CallocClear
  PROVE  Fine'
<1>1. At("calloc_clear") /\ HeapKept /\ chunk' = chunk /\ mapped' = mapped
  BY Untouched DEF CallocClear, heap, rest
<1>2. /\ call # << >> /\ op.at = "calloc_clear" /\ Above(op)
      /\ FrameOK(op, Topmost(Tail(call)), Base(Tail(call)), chunk, mapped, held)
  BY <1>1, Running
<1>3. call' = Tail(call) /\ ret' = [p |-> ret.p, nb |-> 0, fresh |-> FALSE]
  BY DEF CallocClear, Gives
<1>4. CASE ret.p = NULL
  <2>1. ret' = NoReturn /\ op.at \notin Reallocs \cup {"done"}
    BY <1>2, <1>3, <1>4 DEF NoReturn, Reallocs
  <2> QED
    BY <1>1, <1>2, <1>3, <2>1, Stops DEF Fine
<1>5. CASE ret.p # NULL
  <2>1. ret' \in Answers /\ ret'.p = ret.p
    BY <1>3 DEF Answers, Good, Types
  <2>2. Returned = {ret.p}
    BY <1>5 DEF Returned, Handed
  <2>3. Topmost(call) = op /\ Base(Tail(call)) = Base(call)
    BY <1>2, Popped
  <2>4. room(ret.p, chunk, mapped) + SIZE_SZ >= Base(call).x + SIZE_SZ
    BY <1>2, <1>5, <2>3 DEF Good, RetOK, Needy, Need
  <2>5. Need(Topmost(Tail(call)), Base(Tail(call))) = Base(call).x + SIZE_SZ
    BY <1>2, <2>3 DEF Need, FrameOK
  <2>6. RetOK'
    BY <1>1, <1>3, <2>1, <2>3, <2>4, <2>5 DEF RetOK
  <2>7. Good'
    BY <1>1, <1>2, <1>3, <1>5, <2>1, <2>2, <2>6, HandsBack
  <2> QED
    BY <2>7 DEF Fine
<1> QED
  BY <1>4, <1>5

LEMMA MtrimFine ==
  ASSUME Good, Mtrim
  PROVE  Fine'
<1>1. At("mtrim") /\ HeapKept
  BY Untouched DEF Mtrim
<1>2. PICK g : g = [op EXCEPT !.at = "systrim"]
  OBVIOUS
<1>3. /\ call # << >> /\ op.at = "mtrim" /\ Above(op) /\ op \in Frames
      /\ FrameOK(op, Topmost(Tail(call)), Base(Tail(call)), chunk, mapped, held)
  BY <1>1, Running
<1>4. g \in Frames /\ g.at = "systrim" /\ g.nb = op.nb
  <2>1. "systrim" \in Labels
    BY DEF Labels, Others
  <2> QED
    BY <1>2, <1>3, <2>1 DEF Frames
<1>5. Above(g) /\ g.at \notin Needy /\ Bare(g) /\ Waits(g)
  BY <1>4 DEF Above, Needy, Bare, Holds, Holders, Reallocs, Frees, Waits
<1>6. FrameOK(g, Topmost(Tail(call)), Base(Tail(call)), chunk, mapped, held)
  BY <1>3, <1>4 DEF FrameOK, Mallocs, Askers, Reallocs, Memaligns, Holders, Frees, Givers
<1>7. call' = <<g>> \o Tail(call) /\ Holds(g) \subseteq Holds(op) /\ ret' \in {ret, NoReturn}
  BY <1>2, <1>5 DEF Mtrim, Goto, Continue, Bare
<1>8. Good'
  BY <1>1, <1>3, <1>5, <1>6, <1>7, GoesTo, Zenon
<1> QED
  BY <1>8 DEF Fine

LEMMA CallocMallocFine ==
  ASSUME Good, CallocMalloc
  PROVE  Fine'
<1>1. At("calloc") /\ HeapKept
  BY Untouched DEF CallocMalloc
<1>2. PICK e, f : e = [op EXCEPT !.at = "int_malloc"]
                  /\ f = Frame("calloc_clear", av.dirty, av.top, old_top_size)
  OBVIOUS
<1>3. /\ call # << >> /\ op.at = "calloc" /\ Above(op) /\ op \in Frames
      /\ FrameOK(op, Topmost(Tail(call)), Base(Tail(call)), chunk, mapped, held)
  BY <1>1, Running
<1>4. e \in Frames /\ e.at = "int_malloc" /\ e.nb = op.nb /\ e.x = op.x
  <2>1. "int_malloc" \in Labels
    BY DEF Labels, Mallocs
  <2> QED
    BY <1>2, <1>3, <2>1 DEF Frames
<1>5. Above(e) /\ e.at \notin Needy /\ Bare(e) /\ Waits(e)
  BY <1>4 DEF Above, Needy, Bare, Holds, Holders, Reallocs, Frees, Waits
<1>6. f \in Frames /\ f.at = "calloc_clear"
  <2>1. "calloc_clear" \in Labels
    BY DEF Labels, Others
  <2>2. av.dirty \in Nat /\ av.top \in Nat /\ av.max_system_mem \in Int /\ mp.sbrk_base \in Int
    BY DEF Good, Types, Arenas, Params
  <2>3. top_size \in Int
    <3>1. av.top # NULL => av.top \in DOMAIN chunk /\ chunk[av.top].size \in Int
      BY LaidTypes DEF Good, HeapOK
    <3> QED
      BY <3>1 DEF top_size
  <2>4. old_top_size \in Int
    BY <2>2, <2>3 DEF old_top_size
  <2> QED
    BY <1>2, <2>1, <2>2, <2>4 DEF Frame, Frames
<1>7. Above(f) /\ Bare(f) /\ Waits(f)
  BY <1>6 DEF Above, Bare, Holds, Holders, Reallocs, Frees, Waits
<1>8. FrameOK(f, Topmost(Tail(call)), Base(Tail(call)), chunk, mapped, held)
  BY <1>3, <1>6 DEF FrameOK, Mallocs, Askers, Reallocs, Memaligns, Holders, Frees, Givers
<1>9. FrameOK(e, f, Base(Tail(call)), chunk, mapped, held)
  <2>1. op.nb >= Need(f, Base(Tail(call))) /\ Aligned(op.nb) /\ op.x = 0
    BY <1>3, <1>6 DEF FrameOK, Need, Askers
  <2> QED
    BY <1>3, <1>4, <1>6, <2>1 DEF FrameOK, Mallocs, Askers, Reallocs, Memaligns, Holders, Frees, Givers
<1>10. call' = <<e, f>> \o Tail(call) /\ Holds(f) \subseteq Holds(op) /\ ret' \in {ret, NoReturn}
  BY <1>2, <1>7 DEF CallocMalloc, Continue, Bare
<1>11. Good'
  BY <1>1, <1>3, <1>5, <1>7, <1>8, <1>9, <1>10, Calls2, Zenon
<1> QED
  BY <1>11 DEF Fine

LEMMA AlignmentFor ==
  ASSUME NEW x \in 0..MAX_ALIGNMENT
  PROVE  alignment_for(x) \in Nat /\ alignment_for(x) >= MINSIZE
<1>1. PICK powers, least, P :
        /\ powers = {MALLOC_ALIGNMENT * d : d \in Doublings}
        /\ least = IF x < MINSIZE THEN MINSIZE ELSE x
        /\ P = {b \in powers : b >= least}
  OBVIOUS
<1>2. alignment_for(x) = CHOOSE b \in powers : b >= least /\ \A c \in powers : c >= least => b <= c
  BY <1>1 DEF alignment_for
<1>3. powers \subseteq Nat /\ MAX_ALIGNMENT \in powers /\ least \in Nat /\ least >= MINSIZE
      /\ least <= MAX_ALIGNMENT
  BY <1>1, Units DEF Doublings, MAX_ALIGNMENT
<1>4. \E b \in P : \A c \in P : b <= c
  BY <1>1, <1>3, LeastElement
<1>5. \E b \in powers : b >= least /\ \A c \in powers : c >= least => b <= c
  BY <1>1, <1>4
<1>6. alignment_for(x) \in powers /\ alignment_for(x) >= least
  BY <1>2, <1>5
<1>7. PICK a : a = alignment_for(x)
  OBVIOUS
<1>8. a \in Nat /\ a >= least /\ least \in Nat /\ least >= MINSIZE /\ MINSIZE \in Nat
  <2>1. MINSIZE \in Nat
    BY Units
  <2>2. a \in powers /\ a >= least
    BY <1>6, <1>7
  <2> QED
    BY <1>3, <2>1, <2>2
<1> QED
  BY <1>7, <1>8

LEMMA LibcMemalignFine ==
  ASSUME Good, LibcMemalign
  PROVE  Fine'
<1>1. At("libc_memalign") /\ HeapKept
  BY Untouched DEF LibcMemalign
<1>2. /\ call # << >> /\ op.at = "libc_memalign" /\ Above(op) /\ op \in Frames
      /\ FrameOK(op, Topmost(Tail(call)), Base(Tail(call)), chunk, mapped, held)
  BY <1>1, Running
<1>3. /\ op.nb \in Nat /\ op.x \in 0..MAX_ALIGNMENT /\ Aligned(op.nb)
  BY <1>2 DEF FrameOK, Memaligns, Frames
<1>4. CASE op.x <= MALLOC_ALIGNMENT
  <2>1. PICK g : g = [op EXCEPT !.at = "libc_malloc", !.x = 0]
    OBVIOUS
  <2>2. g \in Frames /\ g.at = "libc_malloc" /\ g.nb = op.nb /\ g.x = 0
    <3>1. "libc_malloc" \in Labels /\ 0 \in Int
      BY DEF Labels, Askers
    <3> QED
      BY <1>2, <2>1, <3>1 DEF Frames
  <2>3. Above(g) /\ g.at \notin Needy /\ Bare(g) /\ Waits(g)
    BY <2>2 DEF Above, Needy, Bare, Holds, Holders, Reallocs, Frees, Waits
  <2>4. FrameOK(g, Topmost(Tail(call)), Base(Tail(call)), chunk, mapped, held)
    BY <1>2, <2>2 DEF FrameOK, Mallocs, Askers, Reallocs, Memaligns, Holders, Frees, Givers
  <2>5. call' = <<g>> \o Tail(call) /\ Holds(g) \subseteq Holds(op) /\ ret' \in {ret, NoReturn}
    BY <1>4, <2>1, <2>3 DEF LibcMemalign, Continue, Bare
  <2>6. Good'
    BY <1>1, <1>2, <2>3, <2>4, <2>5, GoesTo, Zenon
  <2> QED
    BY <2>6 DEF Fine
<1>5. CASE ~(op.x <= MALLOC_ALIGNMENT)
  <2>1. PICK a, nb : a = alignment_for(op.x) /\ nb = request2size(op.nb + a + MINSIZE)
    OBVIOUS
  <2>2. PICK e, f : e = Frame("int_malloc", nb, NULL, 0) /\ f = [op EXCEPT !.at = "memalign_lead", !.x = a]
    OBVIOUS
  <2>3. a \in Nat /\ a >= MINSIZE
    BY <1>3, <2>1, AlignmentFor
  <2>4. op.nb + a + MINSIZE \in Nat /\ MINSIZE \in Nat
    BY <1>3, <2>3, Units
  <2>5. Aligned(nb) /\ nb >= op.nb + a + MINSIZE + SIZE_SZ
    BY <2>1, <2>4, Request
  <2>6. f \in Frames /\ f.at = "memalign_lead" /\ f.nb = op.nb /\ f.x = a
    <3>1. "memalign_lead" \in Labels
      BY DEF Labels, Memaligns
    <3>2. a \in Int
      BY <2>3
    <3> QED
      BY <1>2, <2>2, <3>1, <3>2 DEF Frames
  <2>7. Above(f) /\ Bare(f) /\ Waits(f)
    BY <2>6 DEF Above, Bare, Holds, Holders, Reallocs, Frees, Waits
  <2>8. FrameOK(f, Topmost(Tail(call)), Base(Tail(call)), chunk, mapped, held)
    BY <1>2, <2>3, <2>6 DEF FrameOK, Mallocs, Askers, Reallocs, Memaligns, Holders, Frees, Givers
  <2>9. nb >= Need(f, Base(Tail(call))) /\ f.at # "deliver"
    BY <2>5, <2>6 DEF Need
  <2>10. FrameOK(e, f, Base(Tail(call)), chunk, mapped, held) /\ Above(e) /\ e.at \notin Needy /\ Waits(e) /\ Bare(e)
    BY <2>2, <2>5, <2>9, MallocFrame
  <2>11. call' = <<e, f>> \o Tail(call) /\ Holds(f) \subseteq Holds(op) /\ ret' \in {ret, NoReturn}
    BY <1>5, <2>1, <2>2, <2>7 DEF LibcMemalign, Continue, Bare
  <2>12. Good'
    BY <1>1, <1>2, <2>7, <2>8, <2>10, <2>11, Calls2, Zenon
  <2> QED
    BY <2>12 DEF Fine
<1> QED
  BY <1>4, <1>5

LEMMA ReallocElsewhereFine ==
  ASSUME Good, ReallocElsewhere
  PROVE  Fine'
<1>1. At("int_realloc") /\ HeapKept
  BY Untouched DEF ReallocElsewhere
<1>2. /\ call # << >> /\ op.at = "int_realloc" /\ Above(op) /\ op \in Frames
      /\ FrameOK(op, Topmost(Tail(call)), Base(Tail(call)), chunk, mapped, held)
  BY <1>1, Running
<1>3. CASE Abort
  BY <1>3, Aborts
<1>4. CASE ~Abort
  <2>1. PICK nb, e, f : /\ nb = moved_size(op.nb) /\ e = Frame("int_malloc", nb, NULL, 0)
                        /\ f = [op EXCEPT !.at = "realloc_copied"]
    OBVIOUS
  <2>2. chunk[op.p].size < op.nb /\ call' = <<e, f>> \o Tail(call) /\ ret' \in {ret, NoReturn}
    BY <1>4, <2>1 DEF ReallocElsewhere, Continue
  <2>3. Aligned(op.nb)
    BY <1>2 DEF FrameOK, Reallocs
  <2>4. nb = op.nb
    BY <2>1, <2>3, RequestAgain DEF moved_size
  <2>5. f \in Frames /\ f.at = "realloc_copied" /\ f.nb = op.nb /\ f.p = op.p
    <3>1. "realloc_copied" \in Labels
      BY DEF Labels, Reallocs
    <3> QED
      BY <1>2, <2>1, <3>1 DEF Frames
  <2>6. Above(f) /\ Waits(f) /\ Holds(f) \subseteq Holds(op)
    BY <1>2, <2>5 DEF Above, Holds, Holders, Reallocs, Waits
  <2>7. FrameOK(f, Topmost(Tail(call)), Base(Tail(call)), chunk, mapped, held)
    BY <1>2, <2>2, <2>5 DEF FrameOK, Mallocs, Askers, Reallocs, Memaligns, Holders, Frees, Givers
  <2>8. nb >= Need(f, Base(Tail(call))) /\ f.at # "deliver"
    BY <1>2, <2>4, <2>5 DEF Need, Frames
  <2>9. FrameOK(e, f, Base(Tail(call)), chunk, mapped, held) /\ Above(e) /\ e.at \notin Needy /\ Waits(e) /\ Bare(e)
    BY <2>1, <2>3, <2>4, <2>8, MallocFrame
  <2>10. Good'
    BY <1>1, <1>2, <2>2, <2>6, <2>7, <2>9, Calls2, Zenon
  <2> QED
    BY <2>10 DEF Fine
<1> QED
  BY <1>3, <1>4

LEMMA MaxFast ==
  ASSUME NEW v \in Nat, v <= MAX_FAST_SIZE
  PROVE  max_fast(v) \in Int /\ max_fast(v) <= request2size(MAX_FAST_SIZE)
<1>1. PICK S, M, x : S = SIZE_SZ /\ M = MAX_FAST_SIZE /\ x = v + S
  OBVIOUS
<1>2. S \in Nat \ {0} /\ M = 20 * S /\ x \in Int /\ x = v + S /\ 2 * S \in Nat \ {0}
  BY <1>1, Units DEF MAX_FAST_SIZE
<1>3. PICK r, d : r = request2size(M) /\ d = ALIGN_DOWN(x, 2 * S)
  OBVIOUS
<1>4. r \in Nat /\ r >= M + S
  BY <1>1, <1>2, <1>3, Request DEF Aligned
<1>5. d \in Int /\ d <= x
  BY <1>2, <1>3, RoundDown
<1>6. max_fast(v) \in {2 * S, d}
  <2>1. MIN_CHUNK_SIZE \div 2 = 2 * S
    BY <1>1, <1>2 DEF MIN_CHUNK_SIZE
  <2> QED
    BY <1>1, <1>3, <2>1, Units DEF max_fast
<1> QED
  BY <1>1, <1>2, <1>3, <1>4, <1>5, <1>6

LEMMA MalloptFine ==
  ASSUME Good, Mallopt
  PROVE  Fine'
<1>1. At("mallopt") /\ mp' = set_option(op.p, op.x)
  BY DEF Mallopt
<1>2. /\ call # << >> /\ op.at = "mallopt" /\ Above(op) /\ op \in Frames
      /\ FrameOK(op, Topmost(Tail(call)), Base(Tail(call)), chunk, mapped, held)
  BY <1>1, Running
<1>3. op.x \in Nat /\ mp \in Params /\ mp.max_fast <= request2size(MAX_FAST_SIZE)
  BY <1>2 DEF FrameOK, Good, Types
<1>4. mp' \in Params /\ mp'.max_fast <= request2size(MAX_FAST_SIZE)
  <2>1. M_MXFAST \in Int /\ M_TRIM_THRESHOLD \in Int
    BY DEF M_MXFAST, M_TRIM_THRESHOLD
  <2>2. PICK fixed : fixed = [mp EXCEPT !.no_dyn_threshold = TRUE]
    OBVIOUS
  <2>3. fixed \in Params /\ fixed.max_fast = mp.max_fast
    BY <1>3, <2>2 DEF Params
  <2>4. mp' \in {mp} \cup {[fixed EXCEPT !.trim_threshold = op.x]} \cup {[fixed EXCEPT !.top_pad = op.x]}
                   \cup {[fixed EXCEPT !.mmap_threshold = op.x]} \cup {[fixed EXCEPT !.n_mmaps_max = op.x]}
        \/ (op.x <= MAX_FAST_SIZE /\ mp' = [mp EXCEPT !.max_fast = max_fast(op.x)])
    BY <1>1, <2>2 DEF set_option
  <2>5. CASE mp' = mp
    BY <1>3, <2>5
  <2>6. CASE mp' \in {[fixed EXCEPT !.trim_threshold = op.x]} \cup {[fixed EXCEPT !.top_pad = op.x]}
                   \cup {[fixed EXCEPT !.mmap_threshold = op.x]} \cup {[fixed EXCEPT !.n_mmaps_max = op.x]}
    BY <1>3, <2>3, <2>6 DEF Params
  <2>7. CASE op.x <= MAX_FAST_SIZE /\ mp' = [mp EXCEPT !.max_fast = max_fast(op.x)]
    <3>1. max_fast(op.x) \in Int /\ max_fast(op.x) <= request2size(MAX_FAST_SIZE)
      BY <1>3, <2>7, MaxFast
    <3> QED
      BY <1>3, <2>7, <3>1 DEF Params
  <2> QED
    BY <2>4, <2>5, <2>6, <2>7
<1>5. HeapKept
  BY <1>4 DEF Mallopt, Good, Types, HeapKept, Listless, heap, system
<1>6. op.at \notin Reallocs \cup {"done"} /\ call' = Tail(call) /\ ret' = NoReturn
  BY <1>2 DEF Reallocs, Mallopt, Return
<1> QED
  BY <1>2, <1>5, <1>6, Stops DEF Fine

-----------------------------------------------------------------------------
(* More steps that leave the heap                                          *)

LEMMA MallocOp ==
  ASSUME Good, NEW l, At(l), l \in Mallocs \cup Askers
  PROVE  /\ call # << >> /\ op.at = l /\ Above(op) /\ op \in Frames /\ op.nb \in Nat /\ Aligned(op.nb)
         /\ FrameOK(op, Topmost(Tail(call)), Base(Tail(call)), chunk, mapped, held)
         /\ op.x \in {0, 1} /\ (l # "unsorted" => op.x = 0)
         /\ Bare(op) /\ op.at \notin Reallocs \cup {"done"}
<1>1. l # "deliver"
  BY DEF Mallocs, Askers
<1>2. /\ call # << >> /\ op.at = l /\ Above(op) /\ op \in Frames /\ op.nb \in Nat
      /\ FrameOK(op, Topmost(Tail(call)), Base(Tail(call)), chunk, mapped, held)
  BY <1>1, Running
<1>3. Bare(op) /\ op.at \notin Reallocs \cup {"done"}
  BY <1>2 DEF Bare, Holds, Holders, Frees, Reallocs, Mallocs, Askers
<1> QED
  BY <1>2, <1>3 DEF FrameOK

LEMMA TopSize ==
  ASSUME Good
  PROVE  top_size \in Nat /\ av.top \in Nat /\ (av.top # NULL => av.top \in DOMAIN chunk /\ chunk[av.top].size = top_size)
<1>1. av.top \in Nat
  BY DEF Good, Types, Arenas
<1>2. av.top # NULL => av.top \in DOMAIN chunk /\ chunk[av.top].size \in Nat
  BY LaidTypes DEF Good, HeapOK
<1> QED
  BY <1>1, <1>2 DEF top_size

LEMMA SysmallocHeapFine ==
  ASSUME Good, SysmallocHeap
  PROVE  Fine'
<1>1. At("sysmalloc") /\ HeapKept /\ "sysmalloc" \in Sized /\ "morecore" \in Sized /\ "sysmalloc" \in Mallocs
  BY Untouched DEF SysmallocHeap, Sized, Mallocs
<1>2. op.x = 0 /\ call # << >> /\ op \in Frames /\ call \in Seq(Frames)
  BY <1>1, MallocOp, Popped
<1>3. CASE Abort
  BY <1>3, Aborts
<1>4. CASE old_top_ok(op.nb) /\ Goto("morecore")
  <2>1. ret' = ret /\ av' = av /\ chunk' = chunk
    BY DEF SysmallocHeap, heap
  <2>2. PICK g : g = [op EXCEPT !.at = "morecore"]
    OBVIOUS
  <2>3. g.nb = op.nb /\ g.at = "morecore" /\ g \in Frames
    <3>1. "morecore" \in Labels
      BY DEF Labels, Mallocs
    <3> QED
      BY <1>2, <2>2, <3>1 DEF Frames
  <2>4. call' = <<g>> \o Tail(call)
    BY <1>4, <2>2 DEF Goto, Continue
  <2>5. Head(call') = g
    BY <1>2, <2>3, <2>4
  <2>6. HeadOK'
    BY <1>4, <2>1, <2>3, <2>5 DEF HeadOK, At, op, old_top_ok, top_size
  <2>7. Good'
    BY <1>1, <1>2, <1>4, <2>1, <2>6, GoesOn
  <2> QED
    BY <2>7 DEF Fine
<1> QED
  BY <1>3, <1>4 DEF SysmallocHeap

LEMMA NoMoreFine ==
  ASSUME Good, NoMore
  PROVE  Fine'
<1>1. At("morecore") /\ HeapKept /\ "morecore" \in Sized /\ "carve" \in Sized /\ "morecore" \in Mallocs
  BY Untouched DEF NoMore, Sized, Mallocs
<1>2. op.x = 0
  BY <1>1, MallocOp
<1>3. ret' = ret /\ Goto("carve")
  BY DEF NoMore
<1>4. Good'
  BY <1>1, <1>2, <1>3, GoesOn
<1> QED
  BY <1>4 DEF Fine

(* realloc leaves a mapping where it is large enough.                      *)
LEMMA MappingServes ==
  ASSUME Good, At("libc_realloc"), HeapKept, op.p \in DOMAIN mapped, Gives(op.p),
         mapped[op.p].size - SIZE_SZ >= op.nb
  PROVE  Good'
<1>1. /\ call # << >> /\ op.at = "libc_realloc" /\ Above(op) /\ op \in Frames
      /\ chunk' = chunk /\ mapped' = mapped
  BY Running DEF HeapKept
<1>2. /\ op.nb \in Nat /\ op.at \in Holders /\ op.at \in Reallocs /\ mapped[op.p].size \in Nat
  BY <1>1, OwnPages DEF Frames, Reallocs, Holders, Good, HeapOK
<1>3. op.p \in Nat /\ op.p # NULL /\ Holds(op) = {op.p} /\ room(op.p, chunk, mapped) \in Int
  BY <1>1, <1>2, Addresses
<1>4. call' = Tail(call) /\ ret' \in Answers /\ ret'.p = op.p
  BY <1>3 DEF Gives, Answers
<1>5. room(op.p, chunk, mapped) + SIZE_SZ >= op.nb
  BY <1>2, Units DEF room
<1>6. Enough(ret'.p, op.nb)
  BY <1>1, <1>3, <1>4, <1>5 DEF Enough
<1>7. RetOK'
  BY <1>1, <1>2, <1>3, <1>4, <1>6, Answers1
<1> QED
  BY <1>1, <1>3, <1>4, <1>7, HandsBack

LEMMA MremapSameFine ==
  ASSUME Good, MremapSame
  PROVE  Fine'
<1>1. At("libc_realloc") /\ HeapKept /\ op.p \in DOMAIN mapped /\ Gives(op.p)
      /\ remapped_size(op.p, op.nb) = total_size(op.p)
  BY Untouched DEF MremapSame, AtMremap
<1>2. op \in Frames
  BY <1>1, Running
<1>3. PICK s, v, n, r : s = mapped[op.p].size /\ v = mapped[op.p].prev_size /\ n = op.nb
                        /\ r = ALIGN_UP(n + v + SIZE_SZ, PAGE)
  OBVIOUS
<1>4. s \in Nat /\ v \in Nat /\ n \in Nat /\ SIZE_SZ \in Nat
  BY <1>1, <1>2, <1>3, OwnPages, Units DEF Good, HeapOK, Frames
<1>5. r \in Int /\ r >= n + v + SIZE_SZ
  <2>1. PICK x : x = n + v + SIZE_SZ
    OBVIOUS
  <2>2. x \in Int
    BY <1>4, <2>1
  <2>3. ALIGN_UP(x, PAGE) \in Int /\ x <= ALIGN_UP(x, PAGE)
    BY <2>2, PageSize, RoundUp
  <2>4. r \in Int /\ r >= x
    BY <1>3, <2>1, <2>2, <2>3
  <2> QED
    BY <2>1, <2>4
<1>6. r = v + s
  BY <1>1, <1>3 DEF remapped_size, total_size
<1>7. s - SIZE_SZ >= n
  BY <1>4, <1>5, <1>6
<1>8. Good'
  BY <1>1, <1>3, <1>7, MappingServes
<1> QED
  BY <1>8 DEF Fine

LEMMA MremapFailsFine ==
  ASSUME Good, MremapFails
  PROVE  Fine'
<1>1. At("libc_realloc") /\ HeapKept /\ op.p \in DOMAIN mapped /\ chunk' = chunk /\ mapped' = mapped
  BY Untouched DEF MremapFails, AtMremap, heap, rest
<1>2. /\ call # << >> /\ op.at = "libc_realloc" /\ Above(op) /\ op \in Frames
      /\ FrameOK(op, Topmost(Tail(call)), Base(Tail(call)), chunk, mapped, held)
  BY <1>1, Running
<1>3. /\ Aligned(op.nb) /\ op.nb \in Nat /\ op.at \in Holders /\ op.at \in Reallocs
      /\ mapped[op.p].size \in Nat
  BY <1>1, <1>2, OwnPages DEF FrameOK, Reallocs, Aligned, Holders, Good, HeapOK
<1>4. CASE Abort
  BY <1>4, Aborts
<1>5. CASE mapped[op.p].size - SIZE_SZ >= op.nb /\ Gives(op.p)
  BY <1>1, <1>5, MappingServes DEF Fine
<1>6. CASE ~Abort /\ ~(mapped[op.p].size - SIZE_SZ >= op.nb)
  <2>1. PICK e, f : /\ e = Frame("libc_malloc", op.nb, NULL, 0)
                    /\ f = [op EXCEPT !.at = "mapped_copied"]
    OBVIOUS
  <2>2. mapped[op.p].size - SIZE_SZ < op.nb /\ call' = <<e, f>> \o Tail(call) /\ ret' \in {ret, NoReturn}
    <3>1. PICK k : k = mapped[op.p].size
      OBVIOUS
    <3>2. k \in Nat /\ SIZE_SZ \in Nat /\ op.nb \in Nat /\ ~(k - SIZE_SZ >= op.nb)
      BY <1>3, <1>6, <3>1, Units
    <3>3. k - SIZE_SZ < op.nb
      BY <3>2
    <3>4. call' = <<e, f>> \o Tail(call) /\ ret' \in {ret, NoReturn}
      BY <1>6, <2>1 DEF MremapFails, Continue
    <3> QED
      BY <3>1, <3>3, <3>4
  <2>3. e \in Frames /\ e.at = "libc_malloc" /\ e.nb = op.nb /\ e.x = 0
    <3>1. "libc_malloc" \in Labels /\ NULL \in Int /\ 0 \in Int
      BY DEF Labels, Askers, NULL
    <3> QED
      BY <1>3, <2>1, <3>1 DEF Frame, Frames
  <2>4. f \in Frames /\ f.at = "mapped_copied" /\ f.nb = op.nb /\ f.p = op.p
    <3>1. "mapped_copied" \in Labels
      BY DEF Labels, Reallocs
    <3> QED
      BY <1>2, <2>1, <3>1 DEF Frames
  <2>5. Above(f) /\ Waits(f) /\ Holds(f) \subseteq Holds(op)
    BY <1>2, <2>4 DEF Above, Holds, Holders, Reallocs, Waits
  <2>6. Above(e) /\ Waits(e) /\ Bare(e) /\ e.at \notin Needy
    BY <2>3 DEF Above, Bare, Holds, Holders, Reallocs, Frees, Waits, Needy
  <2>7. FrameOK(f, Topmost(Tail(call)), Base(Tail(call)), chunk, mapped, held)
    BY <1>1, <1>2, <2>2, <2>4 DEF FrameOK, Mallocs, Askers, Reallocs, Memaligns, Holders, Frees, Givers
  <2>8. op.nb >= Need(f, Base(Tail(call))) /\ f.at # "deliver"
    BY <1>3, <2>4 DEF Need
  <2>9. FrameOK(e, f, Base(Tail(call)), chunk, mapped, held)
    BY <1>3, <2>3, <2>8 DEF FrameOK, Mallocs, Askers, Reallocs, Memaligns, Holders, Frees, Givers
  <2>10. Good'
    BY <1>1, <1>2, <2>2, <2>5, <2>6, <2>7, <2>9, Calls2, Zenon
  <2> QED
    BY <2>10 DEF Fine
<1> QED
  BY <1>4, <1>5, <1>6 DEF MremapFails
LEMMA UseTopOther ==
  ASSUME Good, UseTop, ~Abort, ~top_serves(op.nb)
  PROVE  Good'
<1>1. At("search") /\ "search" \in Sized /\ "search" \in Mallocs /\ "sysmalloc" \in Sized
  BY DEF UseTop, Sized, Mallocs
<1>2. op.x = 0
  BY <1>1, MallocOp
<1>3. PICK cleared : cleared = [av EXCEPT !.binmap = @ \ seen_empty(op.nb)]
  OBVIOUS
<1>4. av \in Arenas
  BY DEF Good, Types
<1>5. cleared \in Arenas /\ cleared.top = av.top /\ cleared.fastbins = av.fastbins /\ cleared.bins = av.bins
  BY <1>3, <1>4 DEF Arenas
<1>6. /\ av' \in {cleared, consolidating(cleared)} /\ ret' = ret
      /\ UNCHANGED <<chunk, mapped, tcache, mp, system, held>>
      /\ Goto("sysmalloc") \/ call' = <<consolidate, [op EXCEPT !.at = "unsorted"]>> \o Tail(call)
  BY <1>3 DEF UseTop, rest, Continue
<1>7. av' \in Arenas /\ av'.top = av.top /\ av'.fastbins = av.fastbins /\ av'.bins = av.bins
  BY <1>5, <1>6, Consolidating
<1>8. HeapKept
  BY <1>6, <1>7, ArenaOnly
<1>9. CASE Goto("sysmalloc")
  BY <1>1, <1>2, <1>6, <1>8, <1>9, GoesOn
<1>10. CASE call' = <<consolidate, [op EXCEPT !.at = "unsorted"]>> \o Tail(call)
  BY <1>1, <1>2, <1>6, <1>8, <1>10, ConsolidatesFirst
<1> QED
  BY <1>6, <1>9, <1>10

LEMMA CarveGivesUp ==
  ASSUME Good, Carve, ~top_serves(op.nb)
  PROVE  Good'
<1>1. At("carve") /\ "carve" \in Mallocs
  BY DEF Carve, Mallocs
<1>2. call # << >> /\ Above(op) /\ op.at \notin Reallocs \cup {"done"}
  BY <1>1, MallocOp
<1>3. av \in Arenas
  BY DEF Good, Types
<1>4. /\ av' = [av EXCEPT !.max_system_mem = IF av.system_mem > @ THEN av.system_mem ELSE @]
      /\ UNCHANGED <<chunk, mapped, tcache, mp, system, held>> /\ Return
  BY DEF Carve, rest
<1>5. av' \in Arenas /\ av'.top = av.top /\ av'.fastbins = av.fastbins /\ av'.bins = av.bins
  BY <1>3, <1>4 DEF Arenas
<1>6. HeapKept
  BY <1>4, <1>5, ArenaOnly
<1> QED
  BY <1>2, <1>4, <1>6, Stops DEF Return

-----------------------------------------------------------------------------
(* Steps that move chunks from one owner to another                        *)

LEMMA Tailed ==
  ASSUME NEW s, List(s), s # << >>
  PROVE  /\ s[1] \in Nat /\ s[1] \in ToSet(s) /\ Head(s) = s[1]
         /\ List(Tail(s)) /\ ToSet(Tail(s)) = ToSet(s) \ {s[1]}
<1>1. PICK n, t : n = Len(s) /\ t = Tail(s)
  OBVIOUS
<1>2. /\ s \in Seq(Nat) /\ n \in Nat /\ n >= 1 /\ t \in Seq(Nat) /\ Len(t) = n - 1
      /\ DOMAIN s = 1..n /\ DOMAIN t = 1..n - 1 /\ \A k \in 1..n - 1 : t[k] = s[k + 1]
      /\ Head(s) = s[1] /\ s[1] \in Nat
  BY <1>1 DEF List
<1>3. Inj(s)
  BY DEF List
<1>4. 1 \in DOMAIN s /\ s[1] \in ToSet(s)
  BY SMTT(20), <1>2 DEF ToSet
<1>5. Inj(t)
  <2> SUFFICES ASSUME NEW k \in 1..n - 1, NEW l \in 1..n - 1, t[k] = t[l] PROVE k = l
    BY <1>2 DEF Inj
  <2>1. k + 1 \in DOMAIN s /\ l + 1 \in DOMAIN s /\ s[k + 1] = s[l + 1]
    BY <1>2
  <2>2. k + 1 = l + 1
    BY <1>3, <2>1 DEF Inj
  <2> QED
    BY <1>2, <2>2
<1>6. ASSUME NEW x \in ToSet(t) PROVE x \in ToSet(s) \ {s[1]}
  <2>1. PICK k \in 1..n - 1 : x = t[k]
    BY <1>2 DEF ToSet
  <2>2. k + 1 \in DOMAIN s /\ x = s[k + 1] /\ k + 1 # 1
    BY <1>2, <2>1
  <2> QED
    BY <1>3, <1>4, <2>2 DEF Inj, ToSet
<1>7. ASSUME NEW x \in ToSet(s) \ {s[1]} PROVE x \in ToSet(t)
  <2>1. PICK k \in 1..n : x = s[k]
    BY <1>2 DEF ToSet
  <2>2. k - 1 \in DOMAIN t /\ t[k - 1] = x
    BY <1>2, <1>7, <2>1
  <2> QED
    BY <2>2 DEF ToSet
<1> QED
  BY <1>1, <1>2, <1>4, <1>5, <1>6, <1>7 DEF List

(* The sizes stay, and so does whatever else does not own chunks.          *)
Still2 ==
  /\ SameSizes(chunk, chunk') /\ mapped' = mapped /\ brk' = brk /\ pages' = pages
  /\ setup' = setup /\ held' = held /\ av'.top = av.top
  /\ av' \in Arenas /\ mp' \in Params /\ mp'.max_fast <= request2size(MAX_FAST_SIZE)
  /\ tcache' \in Caches /\ ret' \in Answers

LEMMA Rearranged ==
  ASSUME Good, Still2,
         CacheOK(tcache'.entries, chunk), FastOK(av'.fastbins, chunk), BinsOK(av'.bins, chunk),
         Legal(call', chunk, mapped, held), Base(call').p = Base(call).p,
         Owned' \subseteq Owned,
         Parted(av.top, InCache, InFast, InBins, OnCall, Returned, Still, Block)',
         Failed' = {}, RetOK', HeadOK'
  PROVE  Good'
<1>1. Given(chunk, mapped, Sbrk, pages) /\ Laid(chunk) /\ Mapped(mapped, pages)
  BY DEF Good, HeapOK
<1>2. Laid(chunk') /\ Given(chunk', mapped, Sbrk, pages) /\ Keeps(chunk, mapped, chunk', mapped, {})
  BY <1>1, SameLaid DEF Still2
<1>3. Keeps(chunk, mapped, chunk', mapped', {})
  BY <1>2 DEF Still2
<1>4. HeapOK'
  BY <1>1, <1>2 DEF HeapOK, Still2, Sbrk, BRK_START, Good, SameSizes
<1>5. Types'
  BY DEF Good, Types, Still2, BRK_START, BRK_LIMIT, MMAP_PAGES
<1>6. ListsOK'
  <2>1. Elements(tcache'.entries) \cap {} = {} /\ Elements(av'.fastbins) \cap {} = {} /\ Elements(av'.bins) \cap {} = {}
    OBVIOUS
  <2>2. CacheOK(tcache'.entries, chunk')
    BY <1>3, <2>1, KeptCache
  <2>3. FastOK(av'.fastbins, chunk')
    BY <1>3, <2>1, KeptFast
  <2>4. BinsOK(av'.bins, chunk')
    BY <1>3, <2>1, KeptBins
  <2> QED
    BY <2>2, <2>3, <2>4 DEF ListsOK
<1>7. Legal(call', chunk', mapped', held')
  <2>1. OnStack(call') \cap {} = {}
    OBVIOUS
  <2>2. Legal(call', chunk', mapped', held)
    BY <1>3, <2>1, KeptStack
  <2> QED
    BY <2>2 DEF Still2
<1>8. Linked({}, chunk', mapped')
  BY DEF Linked
<1>9. Owned' \subseteq (Owned \ {}) \cup {} /\ Still \cap {} = {} /\ held' = held
  BY DEF Still2
<1>10. Roomy(held, Failed', chunk', mapped')
  BY DEF Roomy
<1>11. Legal(call, chunk, mapped, held)'
  BY <1>7
<1> QED
  BY <1>3, <1>4, <1>5, <1>6, <1>8, <1>9, <1>10, <1>11, Assemble, Zenon

LEMMA SameSize ==
  ASSUME Good
  PROVE  SameSizes(chunk, chunk)
BY DEF SameSizes, Good, HeapOK, Laid

(* The list of the thread cache for a size.                                *)
LEMMA CacheList ==
  ASSUME Good, NEW nb, Aligned(nb), tcache_fits(nb), NEW i, i = csize2tidx(nb)
  PROVE  /\ i \in 0..TCACHE_BINS - 1 /\ Family(tcache.entries, 0..TCACHE_BINS - 1)
         /\ List(tcache.entries[i]) /\ ToSet(tcache.entries[i]) \subseteq InCache
<1>1. i \in Nat
  BY TcacheIndex
<1>2. i < TCACHE_BINS /\ TCACHE_BINS \in Nat
  BY PageAssumption DEF tcache_fits
<1>3. i \in 0..TCACHE_BINS - 1
  BY <1>1, <1>2
<1>4. Family(tcache.entries, 0..TCACHE_BINS - 1)
  BY DEF Family, Good, Types, Caches, ListsOK, CacheOK
<1>5. List(tcache.entries[i]) /\ ToSet(tcache.entries[i]) \subseteq Elements(tcache.entries)
  BY <1>3, <1>4, ListInj
<1> QED
  BY <1>3, <1>4, <1>5 DEF InCache

-----------------------------------------------------------------------------
(* Owners of chunks                                                        *)

(* A chunk of a list of the arena is in the heap and not mapped.           *)
LEMMA Listed ==
  ASSUME Good, NEW p \in InCache \cup InFast \cup InBins
  PROVE  /\ p \in DOMAIN chunk /\ p \notin DOMAIN mapped /\ Aligned(chunk[p].size) /\ p \in Nat /\ p # NULL
         /\ room(p, chunk, mapped) = chunk[p].size - SIZE_SZ
<1>1. p \in DOMAIN chunk /\ Aligned(chunk[p].size)
  <2>1. CASE p \in InCache
    BY <2>1 DEF InCache, Elements, ToSet, Good, ListsOK, CacheOK, Fit
  <2>2. CASE p \in InFast
    BY <2>2 DEF InFast, Elements, ToSet, Good, ListsOK, FastOK, Fit
  <2>3. CASE p \in InBins
    BY <2>3 DEF InBins, Elements, ToSet, Good, ListsOK, BinsOK, Fit
  <2> QED
    BY <2>1, <2>2, <2>3
<1>2. p \notin DOMAIN mapped
  <2>1. setup \in SETUPS /\ brk \in BRK_START..BRK_LIMIT /\ pages \subseteq MMAP_PAGES
    BY DEF Good, Types
  <2>2. Mapped(mapped, pages) /\ Laid(chunk) /\ Given(chunk, mapped, BRK_START..brk - 1, pages)
    BY DEF Good, HeapOK, Sbrk
  <2>3. p \in DOMAIN mapped => p \notin DOMAIN chunk
    BY <2>1, <2>2, ChunkOrMapped
  <2> QED
    BY <1>1, <2>3
<1>3. p \in Nat /\ p # NULL
  BY <1>1, LaidTypes DEF Good, HeapOK, NULL
<1> QED
  BY <1>1, <1>2, <1>3 DEF room

LEMMA CacheGives ==
  ASSUME Good, NEW l, At(l), l \in {"malloc_cached", "unsorted"}, tcache_cached(op.nb) # << >>,
         Returns(tcache_cached(op.nb)[1], FALSE), tcache' = tcache_get(op.nb),
         UNCHANGED <<heap, rest>>
  PROVE  Good'
<1>1. /\ call # << >> /\ Above(op) /\ op.at \in Mallocs \cup Askers /\ op.nb \in Nat /\ Aligned(op.nb) /\ Bare(op)
      /\ op.at = l
  <2>1. l \in Mallocs \cup Askers
    BY DEF Mallocs, Askers
  <2> QED
    BY <2>1, MallocOp
<1>2. PICK i, s, p, k : /\ i = csize2tidx(op.nb) /\ s = tcache.entries[i] /\ p = s[1]
                        /\ k = [tcache.entries EXCEPT ![i] = Tail(s)]
  OBVIOUS
<1>3. tcache_fits(op.nb) /\ s # << >> /\ tcache_cached(op.nb) = s
  BY <1>2 DEF tcache_cached
<1>4. /\ i \in 0..TCACHE_BINS - 1 /\ Family(tcache.entries, 0..TCACHE_BINS - 1)
      /\ List(s) /\ ToSet(s) \subseteq InCache
  BY <1>1, <1>2, <1>3, CacheList
<1>5. p \in ToSet(s) /\ List(Tail(s)) /\ ToSet(Tail(s)) = ToSet(s) \ {p}
  BY <1>2, <1>3, <1>4, Tailed
<1>6. CacheFit(Tail(s), tcache.entries, i, chunk) /\ Becomes(tcache.entries, i, Tail(s), k)
  BY <1>2, <1>5 DEF CacheFit, Becomes
<1>7. CacheOK(tcache.entries, chunk) /\ FastOK(av.fastbins, chunk) /\ BinsOK(av.bins, chunk)
  BY DEF Good, ListsOK
<1>8. /\ Family(k, 0..TCACHE_BINS - 1) /\ CacheOK(k, chunk)
      /\ Elements(k) = (Elements(tcache.entries) \ ToSet(s)) \cup ToSet(Tail(s))
  <2>1. Family(k, 0..TCACHE_BINS - 1) /\ CacheOK(k, chunk)
    BY <1>4, <1>5, <1>6, <1>7, CacheChange, Zenon
  <2>2. Swaps(tcache.entries, i, Tail(s), k)
    BY <1>4, <1>5, <1>6, <1>7, CacheChange, Zenon
  <2> QED
    BY <1>2, <2>1, <2>2 DEF Swaps
<1>9. tcache \in Caches /\ tcache' = [tcache EXCEPT !.entries = k]
  BY <1>2 DEF Good, Types, tcache_get
<1>10. tcache' \in Caches /\ tcache'.entries = k /\ tcache'.block = tcache.block
  BY <1>8, <1>9 DEF Caches, Family
<1>11. InCache' = InCache \ {p} /\ p \in InCache
  BY <1>4, <1>5, <1>8, <1>10 DEF InCache
<1>12. InFast' = InFast /\ InBins' = InBins /\ Block' = Block /\ av' = av
  BY <1>10 DEF InFast, InBins, Block, heap
<1>13. /\ p \in Nat /\ p # NULL /\ p \in DOMAIN chunk /\ p \notin DOMAIN mapped /\ Aligned(chunk[p].size)
       /\ room(p, chunk, mapped) = chunk[p].size - SIZE_SZ
  BY <1>11, Listed
<1>14. chunk[p].size = op.nb
  <2>1. \E x \in DOMAIN s : s[x] = p
    BY <1>5 DEF ToSet
  <2>2. i \in DOMAIN tcache.entries
    BY <1>4 DEF Family
  <2>3. csize2tidx(chunk[p].size) = i
    BY <1>2, <1>7, <2>1, <2>2 DEF CacheOK
  <2> QED
    BY <1>1, <1>2, <1>13, <2>3, OneSize
<1>15. ret' = [p |-> p, nb |-> op.nb, fresh |-> FALSE] /\ call' = Tail(call)
  BY <1>2, <1>3 DEF Returns
<1>16. ret' \in Answers /\ ret'.p = p
  BY <1>1, <1>13, <1>15 DEF Answers
<1>17. /\ Legal(call', chunk, mapped, held) /\ Base(call').p = Base(call).p /\ HeadOK'
       /\ OnCall' = OnStack(Tail(call))
  BY <1>1, <1>15, Resumes
<1>18. Enough(p, op.nb)
  <2>1. chunk' = chunk /\ mapped' = mapped
    BY DEF heap, rest
  <2> QED
    BY <1>1, <1>13, <1>14, <2>1, Units DEF Enough
<1>19. Returned' = {p} /\ Failed' = {} /\ RetOK'
  BY <1>1, <1>13, <1>15, <1>16, <1>18, Answers1
<1>20. Still' = Still
  BY <1>17 DEF Still, rest
<1>21. OnCall' \subseteq OnCall
  BY <1>1, <1>17, Popped
<1>22. Owned' \subseteq Owned
  BY <1>11, <1>12, <1>19, <1>20, <1>21 DEF Owned
<1>23. Parted(av.top, InCache, InFast, InBins, OnCall, Returned, Still, Block)'
  <2>1. Parted(av.top, InCache, InFast, InBins, OnCall, Returned, Still, Block)
    BY DEF Good, OwnersOK
  <2>2. Parted(av.top, InCache \ {p}, InFast, InBins, OnCall', {p}, Still, Block)
    BY <1>11, <1>21, <2>1 DEF Parted
  <2> QED
    BY <1>11, <1>12, <1>19, <1>20, <2>2
<1>24. Still2
  <2>1. /\ chunk' = chunk /\ mapped' = mapped /\ brk' = brk /\ pages' = pages /\ setup' = setup
        /\ held' = held /\ mp' = mp
    BY DEF heap, rest, system
  <2>2. SameSizes(chunk, chunk')
    BY <2>1, SameSize
  <2> QED
    BY <1>10, <1>12, <1>16, <2>1, <2>2 DEF Still2, Good, Types
<1>25. CacheOK(tcache'.entries, chunk) /\ FastOK(av'.fastbins, chunk) /\ BinsOK(av'.bins, chunk)
  BY <1>7, <1>8, <1>10, <1>12
<1>26. Failed' = {} /\ RetOK'
  BY <1>19
<1> QED
  BY <1>17, <1>22, <1>23, <1>24, <1>25, <1>26, Rearranged, Zenon

LEMMA MallocCachedFine ==
  ASSUME Good, MallocCached
  PROVE  Fine'
<1>1. At("malloc_cached") /\ UNCHANGED <<heap, rest>> /\ "malloc_cached" \in Askers
      /\ "malloc_cached" \in Sized /\ "int_malloc" \in Sized
  BY DEF MallocCached, Askers, Sized, Mallocs
<1>2. CASE tcache_cached(op.nb) # << >>
  <2>1. Returns(tcache_cached(op.nb)[1], FALSE) /\ tcache' = tcache_get(op.nb)
    BY <1>2 DEF MallocCached
  <2>2. "malloc_cached" \in {"malloc_cached", "unsorted"}
    OBVIOUS
  <2>3. Good'
    BY <1>1, <1>2, <2>1, <2>2, CacheGives
  <2> QED
    BY <2>3 DEF Fine
<1>3. CASE ~(tcache_cached(op.nb) # << >>)
  <2>1. Goto("int_malloc") /\ tcache' = tcache /\ ret' = ret
    BY <1>3 DEF MallocCached
  <2>2. HeapKept
    BY <1>1, <2>1, Untouched
  <2>3. op.x = 0
    BY <1>1, MallocOp
  <2>4. Good'
    BY <1>1, <2>1, <2>2, <2>3, GoesOn
  <2> QED
    BY <2>4 DEF Fine
<1> QED
  BY <1>2, <1>3

LEMMA UnsortedDoneFine ==
  ASSUME Good, UnsortedDone
  PROVE  Fine'
<1>1. At("unsorted") /\ UNCHANGED <<heap, rest>> /\ "unsorted" \in Mallocs
      /\ "unsorted" \in Sized /\ "search" \in Sized
  BY DEF UnsortedDone, Sized, Mallocs
<1>2. CASE op.x = 1
  <2>1. Returns(tcache_cached(op.nb)[1], FALSE) /\ tcache' = tcache_get(op.nb)
    BY <1>2 DEF UnsortedDone
  <2>2. "unsorted" \in {"malloc_cached", "unsorted"}
    OBVIOUS
  <2>3. tcache_cached(op.nb) # << >>
    BY <1>1, <1>2 DEF Good, HeadOK
  <2>4. Good'
    BY <1>1, <2>1, <2>2, <2>3, CacheGives
  <2> QED
    BY <2>4 DEF Fine
<1>3. CASE op.x # 1
  <2>1. Goto("search") /\ tcache' = tcache /\ ret' = ret
    BY <1>3 DEF UnsortedDone
  <2>2. HeapKept
    BY <1>1, <2>1, Untouched
  <2>3. op.x = 0
    BY <1>1, <1>3, MallocOp
  <2>4. Good'
    BY <1>1, <2>1, <2>2, <2>3, GoesOn
  <2> QED
    BY <2>4 DEF Fine
<1> QED
  BY <1>2, <1>3

(* Chunks of a size that are put on the list of the thread cache for it.   *)
OfSize(P, nb) == \A x \in P : x \in DOMAIN chunk /\ chunk[x].size = nb /\ x \notin InCache

CachePut(k, P) ==
  /\ k \in Caches /\ k.block = tcache.block /\ CacheOK(k.entries, chunk)
  /\ Elements(k.entries) = InCache \cup P

LEMMA CachePuts ==
  ASSUME Good, NEW nb, Aligned(nb), tcache_fits(nb), NEW ps, List(ps), OfSize(ToSet(ps), nb)
  PROVE  CachePut(tcache_puts(nb, ps), ToSet(ps)) /\ tcache_puts(nb, ps).entries[csize2tidx(nb)] = ps \o tcache.entries[csize2tidx(nb)]
<1>1. PICK i, s, r, k : /\ i = csize2tidx(nb) /\ s = tcache.entries[i] /\ r = ps \o s
                        /\ k = [tcache.entries EXCEPT ![i] = r]
  OBVIOUS
<1>2. /\ i \in 0..TCACHE_BINS - 1 /\ Family(tcache.entries, 0..TCACHE_BINS - 1)
      /\ List(s) /\ ToSet(s) \subseteq InCache
  BY <1>1, CacheList
<1>3. ToSet(ps) \cap ToSet(s) = {}
  BY <1>2 DEF OfSize
<1>4. List(r) /\ ToSet(r) = ToSet(ps) \cup ToSet(s)
  BY <1>1, <1>2, <1>3, Joined DEF List
<1>5. CacheFit(r, tcache.entries, i, chunk) /\ Becomes(tcache.entries, i, r, k)
  BY <1>1, <1>4 DEF CacheFit, Becomes, OfSize, InCache
<1>6. CacheOK(tcache.entries, chunk)
  BY DEF Good, ListsOK
<1>7. Family(k, 0..TCACHE_BINS - 1) /\ CacheOK(k, chunk)
  BY <1>2, <1>4, <1>5, <1>6, CacheChange, Zenon
<1>8. Swaps(tcache.entries, i, r, k)
  BY <1>2, <1>4, <1>5, <1>6, CacheChange, Zenon
<1>9. tcache \in Caches /\ tcache_puts(nb, ps) = [tcache EXCEPT !.entries = k]
  BY <1>1 DEF Good, Types, tcache_puts
<1>10. /\ tcache_puts(nb, ps) \in Caches /\ tcache_puts(nb, ps).entries = k
       /\ tcache_puts(nb, ps).block = tcache.block
  BY <1>7, <1>9 DEF Caches, Family
<1>11. k[i] = r
  BY <1>1, <1>2 DEF Family
<1>12. Elements(k) = InCache \cup ToSet(ps)
  BY <1>1, <1>2, <1>4, <1>8 DEF Swaps, InCache
<1> QED
  BY <1>1, <1>7, <1>10, <1>11, <1>12 DEF CachePut

(* int_free's chunk.                                                       *)
LEMMA FreeOp ==
  ASSUME Good, At("int_free")
  PROVE  /\ call # << >> /\ op.at = "int_free" /\ Above(op) /\ op \in Frames
         /\ FrameOK(op, Topmost(Tail(call)), Base(Tail(call)), chunk, mapped, held)
         /\ op.p \in DOMAIN chunk /\ op.p \in Nat /\ op.p # NULL /\ Holds(op) = {op.p} /\ op.p \in OnCall
         /\ chunk[op.p].size \in Nat /\ op.at \notin Reallocs \cup {"done"}
<1>1. /\ call # << >> /\ op.at = "int_free" /\ Above(op) /\ op \in Frames
      /\ FrameOK(op, Topmost(Tail(call)), Base(Tail(call)), chunk, mapped, held)
  BY Running
<1>2. op.p \in DOMAIN chunk
  BY <1>1 DEF FrameOK
<1>3. op.p \in Nat /\ op.p # NULL /\ chunk[op.p].size \in Nat
  BY <1>2, LaidTypes DEF Good, HeapOK, NULL
<1>4. Holds(op) = {op.p} /\ op.at \notin Reallocs \cup {"done"}
  BY <1>1 DEF Holds, Holders, Frees, Reallocs
<1> QED
  BY <1>1, <1>2, <1>3, <1>4, Popped

(* What int_free frees goes to a list of the arena or of the cache.        *)
LEMMA FreesTo ==
  ASSUME Good, At("int_free"), Return, Still2,
         CacheOK(tcache'.entries, chunk), FastOK(av'.fastbins, chunk), BinsOK(av'.bins, chunk),
         InBins' = InBins, Block' = Block,
         \/ InCache' = InCache \cup {op.p} /\ InFast' = InFast
         \/ InCache' = InCache /\ InFast' = InFast \cup {op.p}
  PROVE  Good'
<1>1. /\ call # << >> /\ Above(op) /\ op.p \in OnCall /\ Holds(op) = {op.p}
      /\ op.at \notin Reallocs \cup {"done"}
  BY FreeOp
<1>2. call' = Tail(call) /\ ret' = NoReturn
  BY DEF Return
<1>3. /\ Legal(call', chunk, mapped, held) /\ Base(call').p = Base(call).p /\ HeadOK'
      /\ OnCall' = OnStack(Tail(call))
  BY <1>1, <1>2, Resumes
<1>4. Returned' = {} /\ Failed' = {} /\ RetOK'
  BY <1>1, <1>2, GivesUp
<1>5. OnCall = {op.p} \cup OnCall' /\ op.p \notin OnCall'
  BY <1>1, <1>3, Popped
<1>6. Still' = Still
  BY <1>3 DEF Still, Still2
<1>7. Owned' \subseteq Owned
  BY <1>1, <1>4, <1>5, <1>6 DEF Owned
<1>8. Parted(av.top, InCache, InFast, InBins, OnCall, Returned, Still, Block)'
  <2>1. Parted(av.top, InCache, InFast, InBins, OnCall, Returned, Still, Block)
    BY DEF Good, OwnersOK
  <2>2. Parted(av.top, InCache', InFast', InBins, OnCall', {}, Still, Block)
    <3>1. CASE InCache' = InCache \cup {op.p} /\ InFast' = InFast
      BY <1>5, <2>1, <3>1 DEF Parted
    <3>2. CASE InCache' = InCache /\ InFast' = InFast \cup {op.p}
      BY <1>5, <2>1, <3>2 DEF Parted
    <3> QED
      BY <3>1, <3>2
  <2> QED
    BY <1>4, <1>6, <2>2 DEF Still2
<1>9. Failed' = {} /\ RetOK'
  BY <1>4
<1> QED
  BY <1>3, <1>7, <1>8, <1>9, Rearranged, Zenon

LEMMA FreeToCacheFine ==
  ASSUME Good, FreeToCache
  PROVE  Fine'
<1>1. At("int_free") /\ UNCHANGED <<heap, rest>> /\ frees_to_cache(op.p)
  BY DEF FreeToCache
<1>2. CASE Abort
  BY <1>2, Aborts
<1>3. CASE free_ok(op.p) /\ Return /\ tcache' = tcache_puts(chunk[op.p].size, <<op.p>>)
  <2>1. PICK nb : nb = chunk[op.p].size
    OBVIOUS
  <2>2. op.p \in DOMAIN chunk /\ op.p \in Nat /\ op.p \in OnCall /\ nb \in Nat
    BY <1>1, <2>1, FreeOp
  <2>3. Aligned(nb) /\ tcache_fits(nb)
    BY <1>1, <1>3, <2>1, <2>2 DEF free_ok, Aligned, frees_to_cache, tcache_room
  <2>4. List(<<op.p>>) /\ ToSet(<<op.p>>) = {op.p}
    BY <2>2, One DEF List
  <2>5. OfSize(ToSet(<<op.p>>), nb)
    <3>1. op.p \notin InCache
      BY <2>2 DEF Good, OwnersOK, Parted
    <3> QED
      BY <2>1, <2>2, <2>4, <3>1 DEF OfSize
  <2>6. CachePut(tcache', ToSet(<<op.p>>))
    BY <1>3, <2>1, <2>3, <2>4, <2>5, CachePuts
  <2>7. /\ tcache' \in Caches /\ tcache'.block = tcache.block /\ CacheOK(tcache'.entries, chunk)
        /\ InCache' = InCache \cup {op.p} /\ av' = av
    BY <1>1, <2>4, <2>6 DEF CachePut, InCache, heap
  <2>8. InFast' = InFast /\ InBins' = InBins /\ Block' = Block
    BY <2>7 DEF InFast, InBins, Block
  <2>9. Still2
    <3>1. /\ chunk' = chunk /\ mapped' = mapped /\ brk' = brk /\ pages' = pages /\ setup' = setup
          /\ held' = held /\ mp' = mp
      BY <1>1 DEF heap, rest, system
    <3>2. SameSizes(chunk, chunk') /\ ret' \in Answers
      BY <1>3, <3>1, SameSize, NoReturnIs DEF Return
    <3> QED
      BY <2>7, <3>1, <3>2 DEF Still2, Good, Types
  <2>10. FastOK(av'.fastbins, chunk) /\ BinsOK(av'.bins, chunk)
    BY <2>7 DEF Good, ListsOK
  <2>11. Good'
    BY <1>1, <1>3, <2>7, <2>8, <2>9, <2>10, FreesTo
  <2> QED
    BY <2>11 DEF Fine
<1> QED
  BY <1>2, <1>3 DEF FreeToCache

-----------------------------------------------------------------------------
(* Chunks of the fastbins                                                  *)

(* The fastbin for a size.                                                 *)
LEMMA FastList ==
  ASSUME Good, NEW nb, Aligned(nb), nb <= mp.max_fast, NEW i, i = fastbin_index(nb)
  PROVE  /\ i \in 0..NFASTBINS - 1 /\ Family(av.fastbins, 0..NFASTBINS - 1)
         /\ List(av.fastbins[i]) /\ ToSet(av.fastbins[i]) \subseteq InFast
<1>1. PICK x, r : x = mp.max_fast /\ r = request2size(MAX_FAST_SIZE)
  OBVIOUS
<1>2. x \in Int /\ x <= r /\ nb \in Nat /\ nb <= x
  BY <1>1 DEF Good, Types, Params, Aligned
<1>3. r \in Nat
  <2>1. MAX_FAST_SIZE \in Nat
    BY Units DEF MAX_FAST_SIZE
  <2> QED
    BY <1>1, <2>1, Request DEF Aligned
<1>4. nb <= r
  BY <1>2, <1>3
<1>5. i \in 0..NFASTBINS - 1
  BY <1>1, <1>4, HasFastbin
<1>6. Family(av.fastbins, 0..NFASTBINS - 1)
  BY DEF Family, Good, Types, Arenas, ListsOK, FastOK
<1>7. List(av.fastbins[i]) /\ ToSet(av.fastbins[i]) \subseteq Elements(av.fastbins)
  BY <1>5, <1>6, ListInj
<1> QED
  BY <1>5, <1>6, <1>7 DEF InFast

LEMMA FreeFastFine ==
  ASSUME Good, FreeFast
  PROVE  Fine'
<1>1. At("int_free") /\ UNCHANGED <<chunk, tcache, rest>> /\ chunk[op.p].size <= mp.max_fast
  BY DEF FreeFast, frees_fast
<1>2. CASE Abort
  BY <1>2, Aborts
<1>3. PICK i, nb : i = fastbin_index(nb) /\ nb = chunk[op.p].size
  OBVIOUS
<1>4. CASE fast_free_ok(op.p, i) /\ Return /\ av' = fast_free(op.p, i)
  <2>1. PICK s, r, k : s = av.fastbins[i] /\ r = <<op.p>> \o s /\ k = [av.fastbins EXCEPT ![i] = r]
    OBVIOUS
  <2>2. op.p \in DOMAIN chunk /\ op.p \in Nat /\ op.p \in OnCall /\ nb \in Nat
    BY <1>1, <1>3, FreeOp
  <2>3. Aligned(nb)
    BY <1>3, <1>4, <2>2 DEF fast_free_ok, free_ok, Aligned
  <2>4. /\ i \in 0..NFASTBINS - 1 /\ Family(av.fastbins, 0..NFASTBINS - 1)
        /\ List(s) /\ ToSet(s) \subseteq InFast
    BY <1>1, <1>3, <2>1, <2>3, FastList
  <2>5. op.p \notin InFast
    BY <2>2 DEF Good, OwnersOK, Parted
  <2>6. List(r) /\ ToSet(r) = {op.p} \cup ToSet(s)
    BY <2>1, <2>2, <2>4, <2>5, Pushed DEF List
  <2>7. FastFit(r, av.fastbins, i, chunk) /\ Becomes(av.fastbins, i, r, k)
    BY <1>3, <2>1, <2>2, <2>3, <2>5, <2>6 DEF FastFit, Becomes, InFast
  <2>8. FastOK(av.fastbins, chunk)
    BY DEF Good, ListsOK
  <2>9. Family(k, 0..NFASTBINS - 1) /\ FastOK(k, chunk)
    BY <2>4, <2>6, <2>7, <2>8, FastChange, Zenon
  <2>10. Swaps(av.fastbins, i, r, k)
    BY <2>4, <2>6, <2>7, <2>8, FastChange, Zenon
  <2>11. av \in Arenas /\ av' = [av EXCEPT !.fastbins = k, !.have_fastchunks = TRUE]
    BY <1>4, <2>1 DEF Good, Types, fast_free
  <2>12. av' \in Arenas /\ av'.fastbins = k /\ av'.bins = av.bins /\ av'.top = av.top
    BY <2>9, <2>11 DEF Arenas, Family
  <2>13. InFast' = InFast \cup {op.p}
    BY <2>1, <2>4, <2>6, <2>10, <2>12 DEF InFast, Swaps
  <2>14. InCache' = InCache /\ InBins' = InBins /\ Block' = Block
    BY <1>1, <2>12 DEF InCache, InBins, Block
  <2>15. Still2
    <3>1. /\ chunk' = chunk /\ mapped' = mapped /\ brk' = brk /\ pages' = pages /\ setup' = setup
          /\ held' = held /\ mp' = mp /\ tcache' = tcache
      BY <1>1 DEF rest, system
    <3>2. SameSizes(chunk, chunk') /\ ret' \in Answers
      BY <1>4, <3>1, SameSize, NoReturnIs DEF Return
    <3> QED
      BY <2>12, <3>1, <3>2 DEF Still2, Good, Types
  <2>16. FastOK(av'.fastbins, chunk) /\ BinsOK(av'.bins, chunk) /\ CacheOK(tcache'.entries, chunk)
    BY <1>1, <2>9, <2>12 DEF Good, ListsOK
  <2>17. Good'
    BY <1>1, <1>4, <2>13, <2>14, <2>15, <2>16, FreesTo
  <2> QED
    BY <2>17 DEF Fine
<1> QED
  BY <1>2, <1>3, <1>4 DEF FreeFast

LEMMA TcacheInitFine ==
  ASSUME Good, TcacheInit
  PROVE  Fine'
<1>1. At("tcache_init") /\ UNCHANGED <<heap, rest>> /\ tcache' = [tcache EXCEPT !.block = ret.p] /\ Return
  BY DEF TcacheInit
<1>2. call # << >> /\ op.at = "tcache_init" /\ Above(op) /\ op.at \notin Reallocs \cup {"done"}
  BY <1>1, Running DEF Reallocs
<1>3. call' = Tail(call) /\ ret' = NoReturn
  BY <1>1 DEF Return
<1>4. /\ Legal(call', chunk, mapped, held) /\ Base(call').p = Base(call).p /\ HeadOK'
      /\ OnCall' = OnStack(Tail(call))
  BY <1>2, <1>3, Resumes
<1>5. Returned' = {} /\ Failed' = {} /\ RetOK'
  BY <1>2, <1>3, GivesUp
<1>6. tcache' \in Caches /\ tcache'.entries = tcache.entries /\ tcache'.block = ret.p
  BY <1>1 DEF Good, Types, Caches, Answers
<1>7. InCache' = InCache /\ InFast' = InFast /\ InBins' = InBins /\ Still' = Still
  BY <1>1, <1>4, <1>6 DEF InCache, InFast, InBins, Still, heap, rest
<1>8. Block' \subseteq Returned
  BY <1>6 DEF Block, Returned, Handed
<1>9. OnCall' \subseteq OnCall
  BY <1>2, <1>4, Popped
<1>10. Owned' \subseteq Owned
  BY <1>5, <1>7, <1>8, <1>9 DEF Owned
<1>11. Parted(av.top, InCache, InFast, InBins, OnCall, Returned, Still, Block)'
  <2>1. Parted(av.top, InCache, InFast, InBins, OnCall, Returned, Still, Block)
    BY DEF Good, OwnersOK
  <2>2. Parted(av.top, InCache, InFast, InBins, OnCall', {}, Still, Block')
    BY <1>8, <1>9, <2>1 DEF Parted
  <2> QED
    BY <1>1, <1>5, <1>7, <2>2 DEF heap
<1>12. Still2
  <2>1. /\ chunk' = chunk /\ mapped' = mapped /\ brk' = brk /\ pages' = pages /\ setup' = setup
        /\ held' = held /\ mp' = mp /\ av' = av
    BY <1>1 DEF rest, system, heap
  <2>2. SameSizes(chunk, chunk') /\ ret' \in Answers
    BY <1>3, <2>1, SameSize, NoReturnIs
  <2> QED
    BY <1>6, <2>1, <2>2 DEF Still2, Good, Types
<1>13. FastOK(av'.fastbins, chunk) /\ BinsOK(av'.bins, chunk) /\ CacheOK(tcache'.entries, chunk)
  BY <1>1, <1>6 DEF Good, ListsOK, heap
<1>14. Failed' = {} /\ RetOK'
  BY <1>5
<1>15. Good'
  BY <1>4, <1>10, <1>11, <1>12, <1>13, <1>14, Rearranged, Zenon
<1> QED
  BY <1>15 DEF Fine

-----------------------------------------------------------------------------
(* Chunks of the thread cache                                              *)

(* The first chunk of a list of the thread cache leaves it.                *)
CacheLost(k, p) ==
  /\ k \in Caches /\ k.block = tcache.block /\ CacheOK(k.entries, chunk)
  /\ p \in InCache /\ Elements(k.entries) = InCache \ {p}

LEMMA CacheTakes ==
  ASSUME Good, NEW i \in 0..TCACHE_BINS - 1, tcache.entries[i] # << >>
  PROVE  CacheLost([tcache EXCEPT !.entries[i] = Tail(@)], Head(tcache.entries[i]))
<1>1. PICK s, p, k : s = tcache.entries[i] /\ p = s[1] /\ k = [tcache.entries EXCEPT ![i] = Tail(s)]
  OBVIOUS
<1>2. CacheOK(tcache.entries, chunk) /\ Family(tcache.entries, 0..TCACHE_BINS - 1)
  BY DEF Good, ListsOK, Types, Caches, CacheOK, Family
<1>3. List(s) /\ ToSet(s) \subseteq InCache
  BY <1>1, <1>2, ListInj DEF InCache
<1>4. p \in ToSet(s) /\ List(Tail(s)) /\ ToSet(Tail(s)) = ToSet(s) \ {p} /\ Head(s) = p
  BY <1>1, <1>3, Tailed
<1>5. CacheFit(Tail(s), tcache.entries, i, chunk) /\ Becomes(tcache.entries, i, Tail(s), k)
  BY <1>1, <1>4 DEF CacheFit, Becomes
<1>6. Family(k, 0..TCACHE_BINS - 1) /\ CacheOK(k, chunk)
  BY <1>2, <1>4, <1>5, CacheChange, Zenon
<1>7. Swaps(tcache.entries, i, Tail(s), k)
  BY <1>2, <1>4, <1>5, CacheChange, Zenon
<1>8. tcache \in Caches /\ [tcache EXCEPT !.entries[i] = Tail(@)] = [tcache EXCEPT !.entries = k]
  BY <1>1 DEF Good, Types
<1>9. PICK t : t = [tcache EXCEPT !.entries = k]
  OBVIOUS
<1>10. t \in Caches /\ t.entries = k /\ t.block = tcache.block
  BY <1>6, <1>8, <1>9 DEF Caches, Family
<1>11. p \in InCache /\ Elements(k) = InCache \ {p}
  BY <1>1, <1>3, <1>4, <1>7 DEF Swaps, InCache
<1> QED
  BY <1>1, <1>4, <1>6, <1>8, <1>9, <1>10, <1>11 DEF CacheLost

(* What is returned, where a frame other than deliver is on top.           *)
LEMMA StillReturned ==
  ASSUME ret' = ret, call' # << >>, Above(Topmost(call'))
  PROVE  Returned' \subseteq Returned /\ Failed' = {}
BY DEF Returned, Failed, Handed, Above

LEMMA FreeCachedFine ==
  ASSUME Good, FreeCached
  PROVE  Fine'
<1>1. At("tcache_thread_shutdown") /\ UNCHANGED <<heap, ret, rest>>
  BY DEF FreeCached
<1>2. /\ call # << >> /\ op.at = "tcache_thread_shutdown" /\ Above(op) /\ op \in Frames
      /\ FrameOK(op, Topmost(Tail(call)), Base(Tail(call)), chunk, mapped, held)
      /\ Waiting(Tail(call)) /\ op.p \in Int /\ op.nb \in Nat /\ op.x \in Int
  BY <1>1, Running
<1>3. /\ "tcache_thread_shutdown" \in Frees /\ "tcache_thread_shutdown" \in Holders
      /\ "tcache_thread_shutdown" \notin Givers /\ "libc_free" \in Frees /\ "libc_free" \in Holders
      /\ "libc_free" \notin Givers \cup Needy /\ "libc_free" \in Labels
  BY DEF Frees, Holders, Givers, Mallocs, Askers, Reallocs, Memaligns, Needy, Labels
<1>4. /\ Topmost(Tail(call)).at # "deliver" /\ op.p \in DOMAIN chunk \cup DOMAIN mapped
      /\ Holds(op) = {op.p}
  BY <1>2, <1>3 DEF FrameOK, Holds
<1>5. CASE cached_lists = {}
  <2>1. Goto("libc_free") /\ tcache' = tcache
    BY <1>5 DEF FreeCached
  <2>2. PICK g : g = [op EXCEPT !.at = "libc_free"]
    OBVIOUS
  <2>3. /\ g.at = "libc_free" /\ g.p = op.p /\ g.nb = op.nb /\ g.x = op.x /\ g \in Frames
        /\ call' = <<g>> \o Tail(call)
    BY <1>2, <1>3, <2>1, <2>2 DEF Frames, Goto, Continue
  <2>4. FrameOK(g, Topmost(Tail(call)), Base(Tail(call)), chunk, mapped, held)
    BY <1>4, <2>3 DEF FrameOK, Mallocs, Askers, Reallocs, Memaligns, Holders, Frees, Givers
  <2>5. Above(g) /\ g.at \notin Needy /\ Waits(g) /\ Holds(g) \subseteq Holds(op)
    BY <1>3, <1>4, <2>3 DEF Above, Waits, Holds
  <2>6. HeapKept
    BY <1>1, <2>1, Untouched
  <2>7. Good'
    BY <1>1, <1>2, <2>3, <2>4, <2>5, <2>6, GoesTo
  <2> QED
    BY <2>7 DEF Fine
<1>6. CASE cached_lists # {}
  <2>1. PICK i : i = CHOOSE j \in cached_lists : \A k \in cached_lists : j <= k
    OBVIOUS
  <2>2. i \in 0..TCACHE_BINS - 1 /\ tcache.entries[i] # << >>
    <3>1. DOMAIN tcache.entries = 0..TCACHE_BINS - 1
      BY DEF Good, Types, Caches
    <3>2. TCACHE_BINS \in Nat
      BY PageAssumption
    <3>3. cached_lists \in SUBSET Nat
      BY <3>1, <3>2 DEF cached_lists
    <3>4. \E j \in cached_lists : \A k \in cached_lists : j <= k
      <4>1. PICK S : S = cached_lists
        OBVIOUS
      <4>2. S \in SUBSET Nat /\ S # {}
        BY <1>6, <3>3, <4>1
      <4>3. \E j \in S : \A k \in S : j <= k
        BY <4>2, LeastElement
      <4> QED
        BY <4>1, <4>3
    <3>5. i \in cached_lists
      BY <2>1, <3>4
    <3> QED
      BY <3>1, <3>5 DEF cached_lists
  <2>3. PICK p, f : p = Head(tcache.entries[i]) /\ f = Frame("libc_free", 0, p, 0)
    OBVIOUS
  <2>4. call' = <<f, op>> \o Tail(call) /\ tcache' = [tcache EXCEPT !.entries[i] = Tail(@)]
    BY <1>6, <2>1, <2>3 DEF FreeCached, Continue
  <2>5. CacheLost(tcache', p)
    BY <2>2, <2>3, <2>4, CacheTakes
  <2>6. p \in InCache /\ p \in DOMAIN chunk /\ p \in Nat
    BY <2>5, Listed DEF CacheLost
  <2>7. f \in Frames /\ f.at = "libc_free" /\ f.p = p /\ f.nb = 0 /\ f.x = 0
    BY <1>3, <2>3, <2>6 DEF Frames, Frame
  <2>8. FrameOK(f, op, Base(Tail(call)), chunk, mapped, held)
    BY <1>2, <1>3, <2>6, <2>7 DEF FrameOK, Mallocs, Askers, Reallocs, Memaligns, Holders, Frees, Givers
  <2>9. Holds(f) = {p} /\ Above(f) /\ Waits(op) /\ f.at \notin Needy /\ Waits(f)
    BY <1>2, <1>3, <2>7 DEF Holds, Above, Waits
  <2>10. /\ OnCall = Holds(op) \cup OnStack(Tail(call)) /\ Holds(op) \cap OnStack(Tail(call)) = {}
         /\ Legal(Tail(call), chunk, mapped, held) /\ Base(call) = Base(Tail(call))
    BY <1>2, Popped
  <2>11. Parted(av.top, InCache, InFast, InBins, OnCall, Returned, Still, Block)
    BY DEF Good, OwnersOK
  <2>12. Apart2(f, op, Tail(call))
    BY <2>6, <2>9, <2>10, <2>11 DEF Apart2, Apart1, Parted
  <2>13. Grown(call', Tail(call), f, Holds(f) \cup Holds(op) \cup OnStack(Tail(call)), chunk, mapped, held)
    BY <1>2, <2>4, <2>8, <2>9, <2>10, <2>12, Push2
  <2>14. /\ Legal(call', chunk, mapped, held) /\ Base(call').p = Base(call).p
         /\ OnCall' = {p} \cup OnCall /\ call' # << >> /\ Topmost(call') = f
    BY <2>9, <2>10, <2>13 DEF Grown, OnCall
  <2>15. Returned' \subseteq Returned /\ Failed' = {}
    BY <1>1, <2>9, <2>14, StillReturned
  <2>16. RetOK' /\ HeadOK'
    BY <2>9, <2>14, HeadFree DEF RetOK, Waiting
  <2>17. Still' = Still /\ InFast' = InFast /\ InBins' = InBins /\ InCache' = InCache \ {p} /\ Block' = Block
    BY <1>1, <2>5, <2>14 DEF Still, InFast, InBins, InCache, Block, CacheLost, heap, rest
  <2>18. Owned' \subseteq Owned
    BY <2>6, <2>14, <2>15, <2>17 DEF Owned
  <2>19. Parted(av.top, InCache, InFast, InBins, OnCall, Returned, Still, Block)'
    <3>1. Parted(av.top, InCache \ {p}, InFast, InBins, {p} \cup OnCall, Returned', Still, Block)
      BY <2>6, <2>11, <2>15 DEF Parted
    <3> QED
      BY <1>1, <2>14, <2>17, <3>1 DEF heap
  <2>20. Still2
    <3>1. /\ chunk' = chunk /\ mapped' = mapped /\ brk' = brk /\ pages' = pages /\ setup' = setup
          /\ held' = held /\ mp' = mp /\ av' = av /\ ret' = ret
      BY <1>1 DEF rest, system, heap
    <3>2. SameSizes(chunk, chunk')
      BY <3>1, SameSize
    <3> QED
      BY <2>5, <3>1, <3>2 DEF Still2, Good, Types, CacheLost
  <2>21. FastOK(av'.fastbins, chunk) /\ BinsOK(av'.bins, chunk) /\ CacheOK(tcache'.entries, chunk)
    BY <1>1, <2>5 DEF Good, ListsOK, heap, CacheLost
  <2>22. Good'
    BY <2>14, <2>15, <2>16, <2>18, <2>19, <2>20, <2>21, Rearranged, Zenon
  <2> QED
    BY <2>22 DEF Fine
<1> QED
  BY <1>5, <1>6

LEMMA ThreadShutdownFine ==
  ASSUME Good, ThreadShutdown
  PROVE  Fine'
<1>1. /\ call = << >> /\ tcache.block # NULL /\ UNCHANGED <<heap, ret, rest>>
      /\ call' = <<Frame("tcache_thread_shutdown", 0, tcache.block, 0)>>
      /\ tcache' = [tcache EXCEPT !.block = NULL, !.shutting_down = TRUE]
  BY DEF ThreadShutdown
<1>2. PICK f : f = Frame("tcache_thread_shutdown", 0, tcache.block, 0)
  OBVIOUS
<1>3. tcache.block \in Nat /\ tcache.block \in Block /\ tcache.block \in DOMAIN chunk \cup DOMAIN mapped
  <2>1. tcache.block \in Nat
    BY DEF Good, Types, Caches
  <2>2. tcache.block \in Block /\ Block \subseteq Owned
    BY <1>1 DEF Block, Owned
  <2>3. Linked(Owned, chunk, mapped)
    BY DEF Good, OwnersOK
  <2> QED
    BY <2>1, <2>2, <2>3 DEF Linked
<1>4. /\ "tcache_thread_shutdown" \in Frees /\ "tcache_thread_shutdown" \in Holders
      /\ "tcache_thread_shutdown" \notin Needy /\ "tcache_thread_shutdown" \in Labels
  BY DEF Frees, Holders, Needy, Labels
<1>5. f \in Frames /\ f.at = "tcache_thread_shutdown" /\ f.p = tcache.block /\ f.nb = 0 /\ f.x = 0
  BY <1>2, <1>3, <1>4 DEF Frames, Frame
<1>6. Topmost(<< >>) = Nothing /\ Base(<< >>) = Nothing /\ Nothing.at = "nothing" /\ Nothing.p = NULL
  BY DEF Topmost, Base, Nothing, Frame
<1>7. FrameOK(f, Topmost(<< >>), Base(<< >>), chunk, mapped, held)
  BY <1>3, <1>4, <1>5, <1>6 DEF FrameOK, Mallocs, Askers, Reallocs, Memaligns, Holders, Frees
<1>8. Legal(<< >>, chunk, mapped, held) /\ OnStack(<< >>) = {}
  BY <1>1, StackEmpty DEF Good
<1>9. Waiting(<< >>) /\ Apart1(f, << >>) /\ Above(f) /\ Holds(f) = Block /\ f.at \notin Needy /\ Waits(f)
  <2>1. Waiting(<< >>)
    BY <1>6 DEF Waiting, Waits
  <2>2. Apart1(f, << >>)
    BY <1>8 DEF Apart1
  <2>3. Holds(f) = Block
    BY <1>1, <1>4, <1>5 DEF Holds, Block
  <2>4. Above(f) /\ f.at \notin Needy /\ Waits(f)
    BY <1>4, <1>5 DEF Above, Waits
  <2> QED
    BY <2>1, <2>2, <2>3, <2>4
<1>10. call' = <<f>> \o << >>
  BY <1>1, <1>2
<1>11. Grown(call', << >>, f, Holds(f) \cup OnStack(<< >>), chunk, mapped, held)
  BY <1>7, <1>8, <1>9, <1>10, Push1
<1>12. /\ Legal(call', chunk, mapped, held) /\ Base(call').p = Base(call).p
       /\ OnCall' = Block /\ call' # << >> /\ Topmost(call') = f /\ OnCall = {}
  BY <1>1, <1>8, <1>9, <1>11 DEF Grown, OnCall
<1>13. Returned' \subseteq Returned /\ Failed' = {}
  BY <1>1, <1>9, <1>12, StillReturned
<1>14. RetOK' /\ HeadOK'
  BY <1>9, <1>12, HeadFree DEF RetOK, Waiting
<1>15. tcache' \in Caches /\ tcache'.entries = tcache.entries /\ tcache'.block = NULL
  <2>1. TRUE \in BOOLEAN /\ NULL \in Nat
    BY DEF NULL
  <2> QED
    BY <1>1, <2>1 DEF Good, Types, Caches
<1>16. Still' = Still /\ InFast' = InFast /\ InBins' = InBins /\ InCache' = InCache /\ Block' = {}
  BY <1>1, <1>12, <1>15 DEF Still, InFast, InBins, InCache, Block, heap, rest
<1>17. Owned' \subseteq Owned
  BY <1>12, <1>13, <1>16 DEF Owned
<1>18. Parted(av.top, InCache, InFast, InBins, OnCall, Returned, Still, Block)'
  <2>1. Parted(av.top, InCache, InFast, InBins, OnCall, Returned, Still, Block)
    BY DEF Good, OwnersOK
  <2>2. Parted(av.top, InCache, InFast, InBins, Block, Returned', Still, {})
    BY <1>13, <2>1 DEF Parted
  <2> QED
    BY <1>1, <1>12, <1>16, <2>2 DEF heap
<1>19. Still2
  <2>1. /\ chunk' = chunk /\ mapped' = mapped /\ brk' = brk /\ pages' = pages /\ setup' = setup
        /\ held' = held /\ mp' = mp /\ av' = av /\ ret' = ret
    BY <1>1 DEF rest, system, heap
  <2>2. SameSizes(chunk, chunk')
    BY <2>1, SameSize
  <2> QED
    BY <1>15, <2>1, <2>2 DEF Still2, Good, Types
<1>20. FastOK(av'.fastbins, chunk) /\ BinsOK(av'.bins, chunk) /\ CacheOK(tcache'.entries, chunk)
  BY <1>1, <1>15 DEF Good, ListsOK, heap
<1>21. Good'
  BY <1>12, <1>13, <1>14, <1>17, <1>18, <1>19, <1>20, Rearranged, Zenon
<1> QED
  BY <1>21 DEF Fine

(* Chunks of a list: one that is returned, some for the thread cache, and  *)
(* those that stay.                                                        *)
Divides(s, p, M, R) ==
  /\ p \in ToSet(s) /\ p \in Nat /\ M \subseteq ToSet(s) \ {p} /\ R \subseteq ToSet(s) \ {p}
  /\ M \cap R = {}

LEMMA Images ==
  ASSUME NEW s, List(s), NEW A \in SUBSET DOMAIN s, NEW B \in SUBSET DOMAIN s, NEW k \in DOMAIN s,
         A \cap B = {}, k \notin A \cup B,
         NEW p, p = s[k], NEW M, M = {s[x] : x \in A}, NEW R, R = {s[x] : x \in B}
  PROVE  Divides(s, p, M, R)
<1>1. s \in Seq(Nat) /\ Inj(s)
  BY DEF List
<1>2. p \in ToSet(s) /\ p \in Nat
  BY <1>1 DEF ToSet
<1>3. M \subseteq ToSet(s) /\ R \subseteq ToSet(s)
  BY DEF ToSet
<1>4. p \notin M
  <2> SUFFICES ASSUME NEW x \in A, s[x] = s[k] PROVE FALSE
    OBVIOUS
  <2> QED
    BY <1>1 DEF Inj
<1>5. p \notin R
  <2> SUFFICES ASSUME NEW x \in B, s[x] = s[k] PROVE FALSE
    OBVIOUS
  <2> QED
    BY <1>1 DEF Inj
<1>6. M \cap R = {}
  <2> SUFFICES ASSUME NEW x \in A, NEW y \in B, s[x] = s[y] PROVE FALSE
    OBVIOUS
  <2>1. x = y
    BY <1>1 DEF Inj
  <2> QED
    BY <2>1
<1> QED
  BY <1>2, <1>3, <1>4, <1>5, <1>6 DEF Divides

LEMMA TakenFirst ==
  ASSUME NEW s, List(s), NEW n \in Nat, n < Len(s)
  PROVE  /\ List(Reverse(SubSeq(s, 2, n + 1))) /\ List(SubSeq(s, n + 2, Len(s)))
         /\ Divides(s, s[1], ToSet(Reverse(SubSeq(s, 2, n + 1))), ToSet(SubSeq(s, n + 2, Len(s))))
<1>1. PICK l, a, r : l = Len(s) /\ a = SubSeq(s, 2, n + 1) /\ r = SubSeq(s, n + 2, l)
  OBVIOUS
<1>2. s \in Seq(Nat) /\ Inj(s) /\ l \in Nat /\ DOMAIN s = 1..l /\ n < l
  BY <1>1 DEF List
<1>3. List(a) /\ ToSet(a) = {s[k] : k \in 2..n + 1}
  <2>1. 2 \in 1..Len(s) + 1 /\ n + 1 \in 0..Len(s) /\ 2 <= (n + 1) + 1
    BY <1>1, <1>2
  <2> QED
    BY <1>1, <1>2, <2>1, Stretch DEF List
<1>4. List(r) /\ ToSet(r) = {s[k] : k \in n + 2..l}
  <2>1. n + 2 \in 1..Len(s) + 1 /\ l \in 0..Len(s) /\ n + 2 <= l + 1
    BY <1>1, <1>2
  <2> QED
    BY <1>1, <1>2, <2>1, Stretch DEF List
<1>5. List(Reverse(a)) /\ ToSet(Reverse(a)) = ToSet(a)
  BY <1>3, Reversed DEF List
<1>6. Divides(s, s[1], ToSet(a), ToSet(r))
  <2>1. 2..n + 1 \in SUBSET DOMAIN s /\ n + 2..l \in SUBSET DOMAIN s /\ 1 \in DOMAIN s
    BY <1>2
  <2>2. (2..n + 1) \cap (n + 2..l) = {} /\ 1 \notin (2..n + 1) \cup (n + 2..l)
    BY <1>2
  <2> QED
    BY <1>3, <1>4, <2>1, <2>2, Images
<1> QED
  BY <1>1, <1>4, <1>5, <1>6

LEMMA TakenLast ==
  ASSUME NEW s, List(s), NEW n \in Nat, n < Len(s), NEW t, t = SubSeq(s, Len(s) - n, Len(s))
  PROVE  /\ List(Front(t)) /\ List(SubSeq(s, 1, Len(s) - n - 1))
         /\ Divides(s, Last(s), ToSet(Front(t)), ToSet(SubSeq(s, 1, Len(s) - n - 1)))
<1>1. PICK l, f, r : l = Len(s) /\ f = Front(t) /\ r = SubSeq(s, 1, l - n - 1)
  OBVIOUS
<1>2. s \in Seq(Nat) /\ Inj(s) /\ l \in Nat /\ DOMAIN s = 1..l /\ n < l /\ l - n \in Nat /\ l - n - 1 \in Nat
  BY <1>1 DEF List
<1>3. List(t) /\ Len(t) = n + 1 /\ \A k \in 1..n + 1 : t[k] = s[l - n + k - 1]
  <2>1. PICK a : a = l - n
    OBVIOUS
  <2>2. a \in 1..Len(s) + 1 /\ l \in 0..Len(s) /\ a <= l + 1 /\ l + 1 - a = n + 1
    BY <1>1, <1>2, <2>1
  <2>3. t = SubSeq(s, a, l)
    BY <1>1, <2>1
  <2>4. /\ t \in Seq(Nat) /\ Inj(t) /\ Len(t) = l + 1 - a
        /\ \A k \in 1..l + 1 - a : t[k] = s[a + k - 1]
    <3>1. s \in Seq(Nat) /\ Inj(s)
      BY <1>2
    <3>2. a \in 1..Len(s) + 1 /\ l \in 0..Len(s) /\ a <= l + 1
      BY <2>2
    <3>3. /\ SubSeq(s, a, l) \in Seq(Nat) /\ Inj(SubSeq(s, a, l)) /\ Len(SubSeq(s, a, l)) = l + 1 - a
          /\ \A k \in 1..l + 1 - a : SubSeq(s, a, l)[k] = s[a + k - 1]
      BY <3>1, <3>2, Stretch
    <3> QED
      BY <2>3, <3>3
  <2> QED
    BY <2>1, <2>2, <2>4 DEF List
<1>4. List(r) /\ ToSet(r) = {s[k] : k \in 1..l - n - 1}
  <2>1. 1 \in 1..Len(s) + 1 /\ l - n - 1 \in 0..Len(s) /\ 1 <= (l - n - 1) + 1
    BY <1>1, <1>2
  <2> QED
    BY <1>1, <1>2, <2>1, Stretch DEF List
<1>5. List(f) /\ ToSet(f) = {t[k] : k \in 1..n}
  <2>1. 1 \in 1..Len(t) + 1 /\ n \in 0..Len(t) /\ 1 <= n + 1 /\ t \in Seq(Nat) /\ Inj(t)
    BY <1>3 DEF List
  <2>2. f = SubSeq(t, 1, n)
    BY <1>1, <1>3 DEF Front
  <2> QED
    BY <2>1, <2>2, Stretch DEF List
<1>6. ToSet(f) = {s[k] : k \in l - n..l - 1}
  <2>1. ASSUME NEW k \in 1..n PROVE t[k] \in {s[j] : j \in l - n..l - 1}
    <3>1. k \in 1..n + 1 /\ l - n + k - 1 \in l - n..l - 1
      BY <1>2
    <3> QED
      BY <1>3, <3>1
  <2>2. ASSUME NEW j \in l - n..l - 1 PROVE s[j] \in {t[k] : k \in 1..n}
    <3>1. j - (l - n) + 1 \in 1..n /\ j - (l - n) + 1 \in 1..n + 1 /\ l - n + (j - (l - n) + 1) - 1 = j
      BY <1>2
    <3>2. t[j - (l - n) + 1] = s[j]
      BY <1>3, <3>1
    <3> QED
      BY <3>1, <3>2
  <2> QED
    BY <1>5, <2>1, <2>2
<1>7. Divides(s, s[l], ToSet(f), ToSet(r))
  <2>1. l - n..l - 1 \in SUBSET DOMAIN s /\ 1..l - n - 1 \in SUBSET DOMAIN s /\ l \in DOMAIN s
    BY <1>2
  <2>2. (l - n..l - 1) \cap (1..l - n - 1) = {} /\ l \notin (l - n..l - 1) \cup (1..l - n - 1)
    BY <1>2
  <2> QED
    BY <1>4, <1>6, <2>1, <2>2, Images
<1> QED
  BY <1>1, <1>4, <1>5, <1>7 DEF Last

(* How many chunks are stashed.                                            *)
LEMMA StashIs ==
  ASSUME Good, CountsOK, NEW nb, Aligned(nb), NEW k \in Nat
  PROVE  /\ stash(nb, k) \in Nat /\ stash(nb, k) <= k
         /\ stash(nb, k) # 0 => tcache_fits(nb)
<1>1. CASE tcache_fits(nb)
  <2>1. PICK i, e : i = csize2tidx(nb) /\ e = tcache.entries[i]
    OBVIOUS
  <2>2. i \in 0..TCACHE_BINS - 1 /\ Family(tcache.entries, 0..TCACHE_BINS - 1) /\ e \in Seq(Nat)
    BY <1>1, <2>1, CacheList DEF List
  <2>3. Len(e) <= TCACHE_COUNT /\ TCACHE_COUNT \in Nat /\ Len(e) \in Nat
    <3>1. setup \in SETUPS /\ DOMAIN tcache.entries = 0..TCACHE_BINS - 1
      BY <2>2 DEF CountsOK, Family
    <3>2. Len(e) <= TCACHE_COUNT
      BY <2>1, <2>2, <3>1 DEF CountsOK
    <3>3. TCACHE_COUNT \in Nat
      BY <3>1, SetupsAssumption DEF TCACHE_COUNT
    <3> QED
      BY <2>2, <3>2, <3>3
  <2>4. tcache_room(nb) = TCACHE_COUNT - Len(e)
    BY <1>1, <2>1 DEF tcache_room
  <2> QED
    BY <1>1, <2>3, <2>4 DEF stash
<1>2. CASE ~tcache_fits(nb)
  BY <1>2 DEF stash, tcache_room
<1> QED
  BY <1>1, <1>2

(* malloc returns a chunk p of a list, and moves M to the thread cache.    *)
LEMMA Serves ==
  ASSUME Good, NEW l, At(l), l \in Mallocs, NEW p, NEW fresh \in BOOLEAN, Returns(p, fresh),
         p \in InFast \cup InBins, chunk[p].size >= op.nb, NEW M,
         SameSizes(chunk, chunk'), UNCHANGED rest,
         av' \in Arenas, av'.top = av.top, tcache' \in Caches, tcache'.block = tcache.block,
         CacheOK(tcache'.entries, chunk), FastOK(av'.fastbins, chunk), BinsOK(av'.bins, chunk),
         M \subseteq (InFast \cup InBins) \ {p}, InCache' \subseteq InCache \cup M,
         InFast' \subseteq InFast \ (M \cup {p}), InBins' \subseteq InBins \ (M \cup {p})
  PROVE  Good'
<1>1. /\ call # << >> /\ Above(op) /\ op.at \in Mallocs \cup Askers /\ op.nb \in Nat /\ op.at = l
  <2>1. l \in Mallocs \cup Askers
    OBVIOUS
  <2> QED
    BY <2>1, MallocOp
<1>2. /\ p \in Nat /\ p # NULL /\ p \in DOMAIN chunk /\ p \notin DOMAIN mapped
      /\ room(p, chunk, mapped) = chunk[p].size - SIZE_SZ /\ chunk[p].size \in Nat
  BY Listed DEF Aligned
<1>3. ret' = [p |-> p, nb |-> op.nb, fresh |-> fresh] /\ call' = Tail(call)
  BY DEF Returns
<1>4. ret' \in Answers /\ ret'.p = p
  BY <1>1, <1>2, <1>3 DEF Answers
<1>5. /\ Legal(call', chunk, mapped, held) /\ Base(call').p = Base(call).p /\ HeadOK'
      /\ OnCall' = OnStack(Tail(call))
  BY <1>1, <1>3, Resumes
<1>6. Enough(p, op.nb)
  <2>1. chunk'[p].size = chunk[p].size /\ mapped' = mapped
    BY <1>2 DEF SameSizes, rest
  <2>2. room(p, chunk', mapped') = chunk[p].size - SIZE_SZ
    BY <1>2, <2>1 DEF room
  <2> QED
    BY SMTT(20), <1>1, <1>2, <2>2, Units DEF Enough
<1>7. Returned' = {p} /\ Failed' = {} /\ RetOK'
  BY <1>1, <1>2, <1>3, <1>4, <1>6, Answers1
<1>8. Still' = Still /\ Block' = Block
  BY <1>5 DEF Still, rest, Block
<1>9. OnCall' \subseteq OnCall
  BY <1>1, <1>5, Popped
<1>10. Owned' \subseteq Owned
  BY <1>7, <1>8, <1>9 DEF Owned
<1>11. Parted(av.top, InCache, InFast, InBins, OnCall, Returned, Still, Block)'
  <2>1. Parted(av.top, InCache, InFast, InBins, OnCall, Returned, Still, Block)
    BY DEF Good, OwnersOK
  <2>2. Parted(av.top, InCache', InFast', InBins', OnCall', {p}, Still, Block)
    BY <1>9, <2>1 DEF Parted
  <2> QED
    BY <1>7, <1>8, <2>2
<1>12. Still2
  <2>1. /\ mapped' = mapped /\ brk' = brk /\ pages' = pages /\ setup' = setup
        /\ held' = held /\ mp' = mp
    BY DEF rest, system
  <2> QED
    BY <1>4, <2>1 DEF Still2, Good, Types
<1>13. Failed' = {} /\ RetOK'
  BY <1>7
<1> QED
  BY <1>5, <1>10, <1>11, <1>12, <1>13, Rearranged, Zenon

(* The cache with the chunks ps of a list, none at all if it has no room.  *)
LEMMA Stashes ==
  ASSUME Good, NEW nb, Aligned(nb), NEW ps, List(ps), NEW n,
         n # 0 => tcache_fits(nb), n # 0 => OfSize(ToSet(ps), nb),
         tcache' = IF n = 0 THEN tcache ELSE tcache_puts(nb, ps)
  PROVE  /\ tcache' \in Caches /\ tcache'.block = tcache.block /\ CacheOK(tcache'.entries, chunk)
         /\ InCache' \subseteq InCache \cup ToSet(ps)
<1>1. CASE n = 0
  BY <1>1 DEF Good, Types, ListsOK, InCache
<1>2. CASE n # 0
  <2>1. CachePut(tcache', ToSet(ps))
    BY <1>2, CachePuts
  <2> QED
    BY <2>1 DEF CachePut, InCache
<1> QED
  BY <1>1, <1>2

LEMMA IntMallocFastFine ==
  ASSUME Good, CountsOK, IntMallocFast
  PROVE  Fine'
<1>1. At("int_malloc") /\ op.nb <= mp.max_fast /\ UNCHANGED <<chunk, rest>> /\ "int_malloc" \in Mallocs
  BY DEF IntMallocFast, Mallocs
<1>2. op.nb \in Nat /\ Aligned(op.nb)
  BY <1>1, MallocOp
<1>3. CASE Abort
  BY <1>3, Aborts
<1>4. PICK i, s, n : /\ i = fastbin_index(op.nb) /\ s = av.fastbins[i] /\ n = stash(op.nb, Len(s) - 1)
  OBVIOUS
<1>5. PICK r, ps : r = SubSeq(s, n + 2, Len(s)) /\ ps = Reverse(SubSeq(s, 2, n + 1))
  OBVIOUS
<1>6. CASE /\ s # << >> /\ av' = [av EXCEPT !.fastbins[i] = r]
           /\ tcache' = (IF n = 0 THEN tcache ELSE tcache_puts(op.nb, ps))
           /\ Returns(s[1], FALSE)
  <2>1. /\ i \in 0..NFASTBINS - 1 /\ Family(av.fastbins, 0..NFASTBINS - 1)
        /\ List(s) /\ ToSet(s) \subseteq InFast
    BY <1>1, <1>2, <1>4, FastList
  <2>2. n \in Nat /\ n < Len(s) /\ (n # 0 => tcache_fits(op.nb))
    <3>1. s \in Seq(Nat) /\ Len(s) - 1 \in Nat
      BY <1>6, <2>1 DEF List
    <3>2. n \in Nat /\ n <= Len(s) - 1 /\ (n # 0 => tcache_fits(op.nb))
      BY <1>2, <1>4, <3>1, StashIs
    <3> QED
      BY <3>1, <3>2
  <2>3. List(ps) /\ List(r) /\ Divides(s, s[1], ToSet(ps), ToSet(r))
    BY <1>5, <2>1, <2>2, TakenFirst
  <2>4. PICK p : p = s[1]
    OBVIOUS
  <2>5. /\ p \in ToSet(s) /\ ToSet(ps) \subseteq ToSet(s) \ {p} /\ ToSet(r) \subseteq ToSet(s) \ {p}
        /\ ToSet(ps) \cap ToSet(r) = {}
    BY <2>3, <2>4 DEF Divides
  <2>6. \A x \in ToSet(s) : x \in DOMAIN chunk /\ chunk[x].size = op.nb /\ x \notin InCache
    <3> SUFFICES ASSUME NEW x \in ToSet(s) PROVE x \in DOMAIN chunk /\ chunk[x].size = op.nb /\ x \notin InCache
      OBVIOUS
    <3>1. x \in InFast /\ x \in DOMAIN chunk /\ Aligned(chunk[x].size)
      BY <2>1, Listed
    <3>2. PICK k \in DOMAIN s : s[k] = x
      BY DEF ToSet
    <3>3. i \in DOMAIN av.fastbins /\ FastOK(av.fastbins, chunk)
      BY <2>1 DEF Family, Good, ListsOK
    <3>4. fastbin_index(chunk[x].size) = i
      BY <1>4, <3>2, <3>3 DEF FastOK
    <3>5. chunk[x].size = op.nb
      BY <1>2, <1>4, <3>1, <3>4, OneSize
    <3>6. x \notin InCache
      BY <3>1 DEF Good, OwnersOK, Parted
    <3> QED
      BY <3>1, <3>5, <3>6
  <2>7. OfSize(ToSet(ps), op.nb)
    BY <2>5, <2>6 DEF OfSize
  <2>8. /\ tcache' \in Caches /\ tcache'.block = tcache.block /\ CacheOK(tcache'.entries, chunk)
        /\ InCache' \subseteq InCache \cup ToSet(ps)
    BY <1>2, <1>6, <2>2, <2>3, <2>7, Stashes
  <2>9. PICK k : k = [av.fastbins EXCEPT ![i] = r]
    OBVIOUS
  <2>10. FastFit(r, av.fastbins, i, chunk) /\ Becomes(av.fastbins, i, r, k) /\ FastOK(av.fastbins, chunk)
    BY <1>4, <2>5, <2>9 DEF FastFit, Becomes, Good, ListsOK
  <2>11. Family(k, 0..NFASTBINS - 1) /\ FastOK(k, chunk)
    BY <2>1, <2>3, <2>10, FastChange, Zenon
  <2>12. Swaps(av.fastbins, i, r, k)
    BY <2>1, <2>3, <2>10, FastChange, Zenon
  <2>13. av \in Arenas /\ av' = [av EXCEPT !.fastbins = k]
    BY <1>6, <2>9 DEF Good, Types
  <2>14. av' \in Arenas /\ av'.fastbins = k /\ av'.bins = av.bins /\ av'.top = av.top
    BY <2>11, <2>13 DEF Arenas, Family
  <2>15. InFast' \subseteq InFast \ (ToSet(ps) \cup {p}) /\ InBins' = InBins
    BY <1>4, <2>1, <2>5, <2>12, <2>14 DEF InFast, InBins, Swaps
  <2>16. InBins' \subseteq InBins \ (ToSet(ps) \cup {p})
    BY <2>1, <2>5, <2>15 DEF Good, OwnersOK, Parted
  <2>17. SameSizes(chunk, chunk') /\ UNCHANGED rest
    BY <1>1, SameSize
  <2>18. BinsOK(av'.bins, chunk) /\ FastOK(av'.fastbins, chunk)
    BY <2>11, <2>14 DEF Good, ListsOK
  <2>19. /\ p \in InFast \cup InBins /\ chunk[p].size >= op.nb /\ FALSE \in BOOLEAN
         /\ ToSet(ps) \subseteq (InFast \cup InBins) \ {p}
         /\ InFast' \subseteq InFast \ (ToSet(ps) \cup {p})
    BY <1>2, <2>1, <2>5, <2>6, <2>15
  <2>20. Returns(p, FALSE)
    BY <1>6, <2>4
  <2>21. Good'
    BY <1>1, <2>8, <2>14, <2>16, <2>17, <2>18, <2>19, <2>20, Serves
  <2> QED
    BY <2>21 DEF Fine
<1> QED
  BY <1>3, <1>4, <1>5, <1>6 DEF IntMallocFast

Rehead(h, b, x) == [h EXCEPT !.prev_inuse = b, !.prev_size = x]

LEMMA Reheaded ==
  ASSUME NEW h \in Headers, NEW b \in BOOLEAN, NEW x \in Int
  PROVE  Rehead(h, b, x) \in Headers /\ Rehead(h, b, x).size = h.size
BY DEF Headers, Rehead

LEMMA InuseBits ==
  ASSUME NEW c, Heads(c), NEW A
  PROVE  SameSizes(c, set_inuse_bits(c, A))
<1>1. PICK d : d = set_inuse_bits(c, A)
  OBVIOUS
<1>2. DOMAIN d = DOMAIN c /\ d \in [DOMAIN d -> {d[a] : a \in DOMAIN d}]
  BY <1>1 DEF set_inuse_bits
<1>3. ASSUME NEW a \in DOMAIN c PROVE d[a] \in Headers /\ d[a].size = c[a].size
  <2>1. PICK x : x = c[a] /\ x \in Headers
    BY DEF Heads
  <2>3. d[a] = IF a \in A THEN [x EXCEPT !.prev_inuse = TRUE, !.prev_size = 0] ELSE x
    BY <1>1, <2>1 DEF set_inuse_bits
  <2>4. TRUE \in BOOLEAN /\ 0 \in Int
    OBVIOUS
  <2>5. [x EXCEPT !.prev_inuse = TRUE, !.prev_size = 0] = Rehead(x, TRUE, 0)
    BY DEF Rehead
  <2>6. Rehead(x, TRUE, 0) \in Headers /\ Rehead(x, TRUE, 0).size = x.size
    BY <2>1, <2>4, Reheaded, Zenon
  <2> QED
    BY <2>1, <2>3, <2>5, <2>6
<1>4. d \in [DOMAIN d -> Headers]
  BY <1>2, <1>3
<1> QED
  BY <1>1, <1>2, <1>3, <1>4 DEF SameSizes

(* The small bin for a size.                                               *)
LEMMA SmallBin ==
  ASSUME Good, NEW nb, Aligned(nb), in_smallbin_range(nb), NEW i, i = smallbin_index(nb)
  PROVE  /\ i \in Bins \ {Unsorted} /\ Family(av.bins, Bins) /\ BinsOK(av.bins, chunk)
         /\ List(av.bins[i]) /\ ToSet(av.bins[i]) \subseteq InBins
         /\ \A x \in ToSet(av.bins[i]) : x \in DOMAIN chunk /\ chunk[x].size = nb
<1>1. i \in Bins \ {Unsorted}
  <2>1. bin_index(nb) = i
    BY DEF bin_index
  <2>2. bin_index(nb) \in Bins /\ bin_index(nb) > 1
    BY HasBin
  <2> QED
    BY <2>1, <2>2 DEF Unsorted, Bins
<1>2. Family(av.bins, Bins) /\ BinsOK(av.bins, chunk)
  BY DEF Family, Good, Types, Arenas, ListsOK, BinsOK
<1>3. List(av.bins[i]) /\ ToSet(av.bins[i]) \subseteq InBins
  BY <1>1, <1>2, ListInj DEF InBins
<1>4. ASSUME NEW x \in ToSet(av.bins[i]) PROVE x \in DOMAIN chunk /\ chunk[x].size = nb
  <2>1. x \in DOMAIN chunk /\ Aligned(chunk[x].size)
    BY <1>3, Listed
  <2>2. PICK k \in DOMAIN av.bins[i] : av.bins[i][k] = x
    BY DEF ToSet
  <2>3. i \in DOMAIN av.bins \ {Unsorted}
    BY <1>1, <1>2 DEF Family
  <2>4. bin_index(chunk[x].size) = i
    BY <1>2, <2>2, <2>3 DEF BinsOK
  <2>5. chunk[x].size = nb
    BY <2>1, <2>4, SmallBinSize
  <2> QED
    BY <2>1, <2>5
<1> QED
  BY <1>1, <1>2, <1>3, <1>4

LEMMA IntMallocSmallFine ==
  ASSUME Good, CountsOK, IntMallocSmall
  PROVE  Fine'
<1>1. At("int_malloc") /\ in_smallbin_range(op.nb) /\ UNCHANGED rest /\ "int_malloc" \in Mallocs
  BY DEF IntMallocSmall, Mallocs
<1>2. op.nb \in Nat /\ Aligned(op.nb)
  BY <1>1, MallocOp
<1>3. PICK i, s, n : /\ i = smallbin_index(op.nb) /\ s = av.bins[i] /\ n = stash(op.nb, Len(s) - 1)
  OBVIOUS
<1>4. PICK t, r, ps : /\ t = SubSeq(s, Len(s) - n, Len(s)) /\ r = SubSeq(s, 1, Len(s) - n - 1)
                      /\ ps = Front(t)
  OBVIOUS
<1>5. /\ s # << >> /\ av' = [av EXCEPT !.bins[i] = r]
      /\ tcache' = (IF n = 0 THEN tcache ELSE tcache_puts(op.nb, ps))
      /\ Returns(Last(s), TRUE) /\ \E A : chunk' = set_inuse_bits(chunk, A)
  BY <1>3, <1>4 DEF IntMallocSmall
<1>6. /\ i \in Bins \ {Unsorted} /\ Family(av.bins, Bins) /\ BinsOK(av.bins, chunk)
      /\ List(s) /\ ToSet(s) \subseteq InBins
      /\ \A x \in ToSet(s) : x \in DOMAIN chunk /\ chunk[x].size = op.nb
  BY <1>1, <1>2, <1>3, SmallBin
<1>7. n \in Nat /\ n < Len(s) /\ (n # 0 => tcache_fits(op.nb))
  <2>1. s \in Seq(Nat) /\ Len(s) - 1 \in Nat
    BY <1>5, <1>6 DEF List
  <2>2. n \in Nat /\ n <= Len(s) - 1 /\ (n # 0 => tcache_fits(op.nb))
    BY <1>2, <1>3, <2>1, StashIs
  <2> QED
    BY <2>1, <2>2
<1>8. PICK p : p = Last(s)
  OBVIOUS
<1>9. List(ps) /\ List(r) /\ Divides(s, p, ToSet(ps), ToSet(r))
  BY <1>4, <1>6, <1>7, <1>8, TakenLast
<1>10. /\ p \in ToSet(s) /\ ToSet(ps) \subseteq ToSet(s) \ {p} /\ ToSet(r) \subseteq ToSet(s) \ {p}
       /\ ToSet(ps) \cap ToSet(r) = {}
  BY <1>9 DEF Divides
<1>11. InBins \cap InCache = {} /\ InBins \cap InFast = {}
  BY DEF Good, OwnersOK, Parted
<1>12. OfSize(ToSet(ps), op.nb)
  BY <1>6, <1>10, <1>11 DEF OfSize
<1>13. /\ tcache' \in Caches /\ tcache'.block = tcache.block /\ CacheOK(tcache'.entries, chunk)
       /\ InCache' \subseteq InCache \cup ToSet(ps)
  BY <1>2, <1>5, <1>7, <1>9, <1>12, Stashes
<1>14. PICK k : k = [av.bins EXCEPT ![i] = r]
  OBVIOUS
<1>15. BinFit(r, av.bins, i, chunk) /\ Becomes(av.bins, i, r, k) /\ i \in Bins
  BY <1>3, <1>6, <1>10, <1>14 DEF BinFit, Becomes
<1>16. Family(k, Bins) /\ BinsOK(k, chunk)
  BY <1>6, <1>9, <1>15, BinsChange, Zenon
<1>17. Swaps(av.bins, i, r, k)
  BY <1>6, <1>9, <1>15, BinsChange, Zenon
<1>18. av \in Arenas /\ av' = [av EXCEPT !.bins = k]
  BY <1>5, <1>14 DEF Good, Types
<1>19. av' \in Arenas /\ av'.fastbins = av.fastbins /\ av'.bins = k /\ av'.top = av.top
  BY <1>16, <1>18 DEF Arenas, Family
<1>20. InBins' \subseteq InBins \ (ToSet(ps) \cup {p}) /\ InFast' = InFast
  BY <1>3, <1>6, <1>10, <1>17, <1>19 DEF InFast, InBins, Swaps
<1>21. InFast' \subseteq InFast \ (ToSet(ps) \cup {p})
  BY <1>6, <1>10, <1>11, <1>20
<1>22. SameSizes(chunk, chunk')
  <2>1. Heads(chunk)
    BY DEF Good, HeapOK, Laid, Heads
  <2> QED
    BY <1>5, <2>1, InuseBits
<1>23. BinsOK(av'.bins, chunk) /\ FastOK(av'.fastbins, chunk)
  BY <1>16, <1>19 DEF Good, ListsOK
<1>24. /\ p \in InFast \cup InBins /\ chunk[p].size >= op.nb /\ TRUE \in BOOLEAN
       /\ ToSet(ps) \subseteq (InFast \cup InBins) \ {p}
       /\ InBins' \subseteq InBins \ (ToSet(ps) \cup {p})
  BY <1>2, <1>6, <1>10, <1>20
<1>25. Returns(p, TRUE)
  BY <1>5, <1>8
<1>26. Good'
  BY <1>1, <1>13, <1>19, <1>21, <1>22, <1>23, <1>24, <1>25, Serves
<1> QED
  BY <1>26 DEF Fine

-----------------------------------------------------------------------------
(* Chunks of the bins                                                      *)

(* The oldest unsorted chunk leaves the list.                              *)
LEMMA OldestLeaves ==
  ASSUME Good, av.bins[Unsorted] # << >>
  PROVE  /\ Family(sorted, Bins) /\ BinsOK(sorted, chunk)
         /\ Elements(sorted) \subseteq InBins \ {oldest} /\ oldest \in InBins
         /\ sorted[Unsorted] = Front(av.bins[Unsorted])
<1>1. PICK s, p, r : s = av.bins[Unsorted] /\ p = oldest /\ r = Front(s)
  OBVIOUS
<1>2. Family(av.bins, Bins) /\ BinsOK(av.bins, chunk) /\ Unsorted \in Bins
  BY UnsortedBin DEF Family, Good, Types, Arenas, ListsOK, BinsOK
<1>3. List(s) /\ ToSet(s) \subseteq InBins
  BY <1>1, <1>2, ListInj DEF InBins
<1>4. List(r) /\ p \in ToSet(s) /\ ToSet(r) \subseteq ToSet(s) \ {p}
  <2>1. s \in Seq(Nat) /\ 0 < Len(s) /\ Len(s) - 0 - 1 = Len(s) - 1
    BY <1>1, <1>3 DEF List
  <2>2. PICK t : t = SubSeq(s, Len(s) - 0, Len(s))
    OBVIOUS
  <2>3. 0 \in Nat
    OBVIOUS
  <2>4. /\ List(SubSeq(s, 1, Len(s) - 0 - 1))
        /\ Divides(s, Last(s), ToSet(Front(t)), ToSet(SubSeq(s, 1, Len(s) - 0 - 1)))
    BY <1>3, <2>1, <2>2, <2>3, TakenLast
  <2>5. r = SubSeq(s, 1, Len(s) - 0 - 1) /\ p = Last(s)
    BY <1>1, <2>1 DEF Front, oldest
  <2> QED
    BY <2>4, <2>5 DEF Divides
<1>5. BinFit(r, av.bins, Unsorted, chunk) /\ Becomes(av.bins, Unsorted, r, sorted)
  BY <1>1, <1>4 DEF BinFit, Becomes, sorted
<1>6. Family(sorted, Bins) /\ BinsOK(sorted, chunk)
  BY <1>2, <1>4, <1>5, BinsChange, Zenon
<1>7. Swaps(av.bins, Unsorted, r, sorted)
  BY <1>2, <1>4, <1>5, BinsChange, Zenon
<1>8. Elements(sorted) \subseteq InBins \ {p} /\ p \in InBins
  BY <1>1, <1>3, <1>4, <1>7 DEF Swaps, InBins
<1>9. sorted[Unsorted] = r
  BY <1>1, <1>2 DEF sorted, Family
<1> QED
  BY <1>1, <1>6, <1>8, <1>9

LEMMA TakeExactFine ==
  ASSUME Good, TakeExact
  PROVE  Fine'
<1>1. /\ At("unsorted") /\ av.bins[Unsorted] # << >> /\ chunk[oldest].size = op.nb
      /\ chunk' = set_inuse_bit_at(chunk, next_chunk(oldest)) /\ av' = [av EXCEPT !.bins = sorted]
      /\ UNCHANGED rest /\ "unsorted" \in Mallocs
  BY DEF TakeExact, AtUnsorted, Mallocs
<1>2. /\ Family(sorted, Bins) /\ BinsOK(sorted, chunk)
      /\ Elements(sorted) \subseteq InBins \ {oldest} /\ oldest \in InBins
  BY <1>1, OldestLeaves
<1>3. PICK p : p = oldest
  OBVIOUS
<1>4. av' \in Arenas /\ av'.bins = sorted /\ av'.fastbins = av.fastbins /\ av'.top = av.top
  BY <1>1, <1>2 DEF Good, Types, Arenas, Family
<1>5. SameSizes(chunk, chunk')
  <2>1. Heads(chunk)
    BY DEF Good, HeapOK, Laid, Heads
  <2> QED
    BY <1>1, <2>1, InuseBit
<1>6. BinsOK(av'.bins, chunk) /\ FastOK(av'.fastbins, chunk)
  BY <1>2, <1>4 DEF Good, ListsOK
<1>7. InBins' \subseteq InBins \ {p} /\ InFast' = InFast /\ p \in InBins
  BY <1>2, <1>3, <1>4 DEF InBins, InFast
<1>8. p \notin InFast /\ p \notin InCache
  BY <1>7 DEF Good, OwnersOK, Parted
<1>9. p \in DOMAIN chunk /\ p \in Nat /\ chunk[p].size = op.nb
  BY <1>1, <1>3, <1>7, Listed
<1>10. CASE tcache_room(op.nb) > 0
  <2>1. /\ tcache' = tcache_puts(op.nb, <<p>>) /\ ret' = ret
        /\ call' = <<[op EXCEPT !.x = 1]>> \o Tail(call)
    BY <1>3, <1>10 DEF TakeExact, Continue
  <2>2. PICK g : g = [op EXCEPT !.x = 1]
    OBVIOUS
  <2>3. /\ call # << >> /\ op.at = "unsorted" /\ Above(op) /\ op \in Frames /\ op.nb \in Nat /\ Aligned(op.nb)
        /\ FrameOK(op, Topmost(Tail(call)), Base(Tail(call)), chunk, mapped, held) /\ Bare(op)
    <3>1. "unsorted" \in Mallocs \cup Askers
      BY <1>1
    <3> QED
      BY <1>1, <3>1, MallocOp
  <2>4. /\ OnCall = Holds(op) \cup OnStack(Tail(call))
        /\ Legal(Tail(call), chunk, mapped, held) /\ Base(call) = Base(Tail(call)) /\ Waiting(Tail(call))
    BY <2>3, Popped
  <2>5. g \in Frames /\ g.at = "unsorted" /\ g.x = 1 /\ g.nb = op.nb /\ g.p = op.p
    BY <2>2, <2>3 DEF Frames
  <2>6. /\ "unsorted" \notin Reallocs \cup Memaligns \cup Holders \cup Needy /\ "unsorted" \in Givers
    BY DEF Reallocs, Memaligns, Holders, Frees, Needy, Givers, Mallocs
  <2>7. FrameOK(g, Topmost(Tail(call)), Base(Tail(call)), chunk, mapped, held)
    BY <1>1, <2>3, <2>5, <2>6 DEF FrameOK
  <2>8. Bare(g) /\ Above(g) /\ g.at \notin Needy
    BY <2>5, <2>6 DEF Bare, Holds, Above
  <2>9. Apart1(g, Tail(call)) /\ call' = <<g>> \o Tail(call)
    BY <2>1, <2>2, <2>8 DEF Apart1, Bare
  <2>10. Grown(call', Tail(call), g, Holds(g) \cup OnStack(Tail(call)), chunk, mapped, held)
    BY <2>4, <2>7, <2>8, <2>9, Push1
  <2>11. /\ Legal(call', chunk, mapped, held) /\ Base(call').p = Base(call).p
         /\ OnCall' = OnCall /\ call' # << >> /\ Topmost(call') = g /\ op' = g
    BY <2>3, <2>4, <2>8, <2>10 DEF Grown, OnCall, Bare, op
  <2>12. Returned' \subseteq Returned /\ Failed' = {}
    BY <2>1, <2>8, <2>11, StillReturned
  <2>13. tcache_fits(op.nb)
    BY <1>10 DEF tcache_room
  <2>14. List(<<p>>) /\ ToSet(<<p>>) = {p}
    BY <1>9, One DEF List
  <2>15. OfSize(ToSet(<<p>>), op.nb)
    BY <1>8, <1>9, <2>14 DEF OfSize
  <2>16. /\ CachePut(tcache', ToSet(<<p>>))
         /\ tcache'.entries[csize2tidx(op.nb)] = <<p>> \o tcache.entries[csize2tidx(op.nb)]
    BY <2>1, <2>3, <2>13, <2>14, <2>15, CachePuts
  <2>17. /\ tcache' \in Caches /\ tcache'.block = tcache.block /\ CacheOK(tcache'.entries, chunk)
         /\ InCache' = InCache \cup {p}
    BY <2>14, <2>16 DEF CachePut, InCache
  <2>18. HeadOK'
    <3>1. tcache.entries[csize2tidx(op.nb)] \in Seq(Nat)
      BY <2>3, <2>13, CacheList DEF List
    <3>2. tcache'.entries[csize2tidx(op.nb)] # << >>
      <4>1. PICK e, f : e = tcache.entries[csize2tidx(op.nb)] /\ f = <<p>> \o e
        OBVIOUS
      <4>2. e \in Seq(Nat) /\ f \in Seq(Nat) /\ Len(f) = 1 + Len(e) /\ Len(e) \in Nat
        BY <1>9, <3>1, <4>1
      <4>3. f # << >>
        BY <4>2
      <4> QED
        BY <2>16, <4>1, <4>3
    <3>3. tcache_fits(op.nb)'
      BY <2>5, <2>11, <2>13, <2>17 DEF tcache_fits
    <3>4. op'.nb = op.nb /\ op'.at = "unsorted"
      BY <2>5, <2>11
    <3>5. tcache_cached(op.nb)' # << >>
      BY <3>2, <3>3, <3>4 DEF tcache_cached
    <3>6. ~At("morecore")'
      BY <3>4 DEF At, op
    <3> QED
      BY <3>5, <3>6 DEF HeadOK
  <2>19. RetOK'
    BY <2>8, <2>11 DEF RetOK
  <2>20. Still' = Still /\ Block' = Block
    BY <1>1, <2>11, <2>17 DEF Still, Block, rest
  <2>21. Owned' \subseteq Owned
    BY <1>7, <2>11, <2>12, <2>17, <2>20 DEF Owned
  <2>22. Parted(av.top, InCache, InFast, InBins, OnCall, Returned, Still, Block)'
    <3>1. Parted(av.top, InCache, InFast, InBins, OnCall, Returned, Still, Block)
      BY DEF Good, OwnersOK
    <3>2. Parted(av.top, InCache \cup {p}, InFast, InBins', OnCall, Returned', Still, Block)
      BY <1>7, <2>12, <3>1 DEF Parted
    <3> QED
      BY <1>4, <1>7, <2>11, <2>17, <2>20, <3>2
  <2>23. Still2
    <3>1. /\ mapped' = mapped /\ brk' = brk /\ pages' = pages /\ setup' = setup
          /\ held' = held /\ mp' = mp /\ ret' = ret
      BY <1>1, <2>1 DEF rest, system
    <3> QED
      BY <1>4, <1>5, <2>17, <3>1 DEF Still2, Good, Types
  <2>24. Good'
    BY <1>6, <2>11, <2>12, <2>17, <2>18, <2>19, <2>21, <2>22, <2>23, Rearranged, Zenon
  <2> QED
    BY <2>24 DEF Fine
<1>11. CASE ~(tcache_room(op.nb) > 0)
  <2>1. Returns(p, TRUE) /\ tcache' = tcache
    BY <1>3, <1>11 DEF TakeExact
  <2>2. /\ p \in InFast \cup InBins /\ chunk[p].size >= op.nb /\ TRUE \in BOOLEAN /\ {} \subseteq (InFast \cup InBins) \ {p}
        /\ InCache' \subseteq InCache \cup {} /\ InFast' \subseteq InFast \ ({} \cup {p})
        /\ InBins' \subseteq InBins \ ({} \cup {p})
    <3>1. "unsorted" \in Mallocs \cup Askers
      BY <1>1
    <3>2. op.nb \in Nat
      BY <1>1, <3>1, MallocOp
    <3> QED
      BY <1>7, <1>8, <1>9, <2>1, <3>2 DEF InCache
  <2>3. tcache' \in Caches /\ tcache'.block = tcache.block /\ CacheOK(tcache'.entries, chunk)
    BY <2>1 DEF Good, Types, ListsOK
  <2>4. Good'
    BY <1>1, <1>4, <1>5, <1>6, <1>9, <2>1, <2>2, <2>3, Serves
  <2> QED
    BY <2>4 DEF Fine
<1> QED
  BY <1>10, <1>11

(* A chunk is put where the sizes of a large bin want it.                  *)
LEMMA InsertedIs ==
  ASSUME NEW s, List(s), NEW v \in Nat, v \notin ToSet(s)
  PROVE  List(inserted(s, v)) /\ ToSet(inserted(s, v)) = ToSet(s) \cup {v}
<1> DEFINE after == {i \in DOMAIN s : chunk[s[i]].size <= chunk[v].size}
<1>1. PICK i : i = CHOOSE j \in after : \A k \in after : j <= k
  OBVIOUS
<1>2. PICK r : r = inserted(s, v)
  OBVIOUS
<1>3. r = (IF in_smallbin_range(chunk[v].size) THEN <<v>> \o s
           ELSE IF after = {} THEN Append(s, v)
           ELSE IF chunk[s[i]].size = chunk[v].size THEN InsertAt(s, i + 1, v)
           ELSE InsertAt(s, i, v))
  BY <1>1, <1>2 DEF inserted
<1>4. s \in Seq(Nat) /\ Inj(s) /\ DOMAIN s = 1..Len(s) /\ Len(s) \in Nat
  BY DEF List
<1>5. after # {} => i \in DOMAIN s
  <2> SUFFICES ASSUME after # {} PROVE i \in DOMAIN s
    OBVIOUS
  <2>1. after \in SUBSET Nat
    BY <1>4
  <2>2. PICK S : S = after
    OBVIOUS
  <2>3. \E j \in S : \A k \in S : j <= k
    BY <2>1, <2>2, LeastElement
  <2>4. i \in after
    BY <1>1, <2>2, <2>3
  <2> QED
    BY <2>4
<1> HIDE DEF after
<1>6. CASE r = <<v>> \o s
  BY <1>2, <1>4, <1>6, Pushed DEF List
<1>7. CASE r = Append(s, v)
  BY <1>2, <1>4, <1>7, Appended DEF List
<1>8. CASE \E k \in 1..Len(s) + 1 : r = InsertAt(s, k, v)
  BY <1>2, <1>4, <1>8, Inserted DEF List
<1>9. after # {} => i \in 1..Len(s) + 1 /\ i + 1 \in 1..Len(s) + 1
  BY <1>4, <1>5
<1> QED
  BY <1>3, <1>6, <1>7, <1>8, <1>9

LEMMA SortIntoBinFine ==
  ASSUME Good, SortIntoBin
  PROVE  Fine'
<1>1. At("unsorted") /\ av.bins[Unsorted] # << >> /\ UNCHANGED <<chunk, tcache, ret, rest>>
  BY DEF SortIntoBin, AtUnsorted
<1>2. CASE Abort
  BY <1>2, Aborts
<1>3. PICK i, p, k1, r, k : /\ i = bin_index(chunk[oldest].size) /\ p = oldest /\ k1 = sorted
                            /\ r = inserted(k1[i], p) /\ k = [k1 EXCEPT ![i] = r]
  OBVIOUS
<1>4. CASE av' = [av EXCEPT !.bins = k, !.binmap = @ \cup {i}] /\ call' = call
  <2>1. /\ Family(k1, Bins) /\ BinsOK(k1, chunk)
        /\ Elements(k1) \subseteq InBins \ {p} /\ p \in InBins
    BY <1>1, <1>3, OldestLeaves
  <2>2. p \in DOMAIN chunk /\ p \in Nat /\ Aligned(chunk[p].size)
    BY <2>1, Listed
  <2>3. i \in Bins
    BY <1>3, <2>2, HasBin
  <2>4. List(k1[i]) /\ ToSet(k1[i]) \subseteq Elements(k1)
    BY <2>1, <2>3, ListInj
  <2>5. List(r) /\ ToSet(r) = ToSet(k1[i]) \cup {p}
    <3>1. p \notin ToSet(k1[i])
      BY <2>1, <2>4
    <3> QED
      BY <1>3, <2>2, <2>4, <3>1, InsertedIs
  <2>6. BinFit(r, k1, i, chunk) /\ Becomes(k1, i, r, k)
    BY <1>3, <2>1, <2>2, <2>5 DEF BinFit, Becomes
  <2>7. Family(k, Bins) /\ BinsOK(k, chunk)
    BY <2>1, <2>3, <2>5, <2>6, BinsChange, Zenon
  <2>8. Swaps(k1, i, r, k)
    BY <2>1, <2>3, <2>5, <2>6, BinsChange, Zenon
  <2>9. Elements(k) \subseteq InBins
    BY <2>1, <2>4, <2>5, <2>8 DEF Swaps
  <2>10. av \in Arenas
    BY DEF Good, Types
  <2>11. av' \in Arenas /\ av'.fastbins = av.fastbins /\ av'.bins = k /\ av'.top = av.top
    BY <1>4, <2>3, <2>7, <2>10 DEF Arenas, Family
  <2>12. InBins' \subseteq InBins /\ InFast' = InFast /\ InCache' = InCache /\ Block' = Block
    BY <1>1, <2>9, <2>11 DEF InBins, InFast, InCache, Block
  <2>13. OnCall' = OnCall /\ Returned' = Returned /\ Still' = Still
    BY <1>1, <1>4 DEF OnCall, Returned, Still, rest
  <2>14. /\ call # << >> /\ op.at = "unsorted" /\ Above(op)
    BY <1>1, Running
  <2>15. Topmost(call') = op /\ Above(Topmost(call')) /\ call' # << >> /\ op.at \notin Needy
    <3>1. Topmost(call) = op
      BY <2>14, Popped
    <3> QED
      BY <1>4, <2>14, <3>1 DEF Needy
  <2>16. Failed' = {}
    BY <1>1, <2>15, StillReturned
  <2>17. RetOK' /\ HeadOK'
    <3>1. RetOK'
      BY <2>15 DEF RetOK
    <3>2. op' = op /\ tcache' = tcache
      BY <1>1, <1>4 DEF op
    <3>3. tcache_cached(op.nb)' = tcache_cached(op.nb)
      BY <3>2 DEF tcache_cached, tcache_fits
    <3>4. ~At("morecore")' /\ At("unsorted")' = At("unsorted")
      BY <1>4, <2>14, <3>2 DEF At, op
    <3>5. HeadOK
      BY DEF Good
    <3> QED
      BY <3>1, <3>2, <3>3, <3>4, <3>5 DEF HeadOK
  <2>18. Owned' \subseteq Owned
    BY <2>12, <2>13 DEF Owned
  <2>19. Parted(av.top, InCache, InFast, InBins, OnCall, Returned, Still, Block)'
    <3>1. Parted(av.top, InCache, InFast, InBins, OnCall, Returned, Still, Block)
      BY DEF Good, OwnersOK
    <3>2. Parted(av.top, InCache, InFast, InBins', OnCall, Returned, Still, Block)
      BY <2>12, <3>1 DEF Parted
    <3> QED
      BY <2>11, <2>12, <2>13, <3>2
  <2>20. Still2
    <3>1. /\ chunk' = chunk /\ mapped' = mapped /\ brk' = brk /\ pages' = pages /\ setup' = setup
          /\ held' = held /\ mp' = mp /\ ret' = ret /\ tcache' = tcache
      BY <1>1 DEF rest, system
    <3>2. SameSizes(chunk, chunk')
      BY <3>1, SameSize
    <3> QED
      BY <2>11, <3>1, <3>2 DEF Still2, Good, Types
  <2>21. CacheOK(tcache'.entries, chunk) /\ FastOK(av'.fastbins, chunk) /\ BinsOK(av'.bins, chunk)
    BY <1>1, <2>7, <2>11 DEF Good, ListsOK
  <2>22. Legal(call', chunk, mapped, held) /\ Base(call').p = Base(call).p
    BY <1>4 DEF Good
  <2>23. Good'
    BY <2>16, <2>17, <2>18, <2>19, <2>20, <2>21, <2>22, Rearranged, Zenon
  <2> QED
    BY <2>23 DEF Fine
<1> QED
  BY <1>2, <1>3, <1>4 DEF SortIntoBin

-----------------------------------------------------------------------------
(* Steps that change the heap                                              *)

(* An address where no chunk is and no mapping has no owner.               *)
LEMMA Fresh ==
  ASSUME Good, NEW q, q \notin DOMAIN chunk, q \notin DOMAIN mapped
  PROVE  q \notin Owned /\ (q # NULL => q # av.top)
<1>1. Linked(Owned, chunk, mapped) /\ av.top \in DOMAIN chunk \cup {NULL}
  BY DEF Good, OwnersOK, HeapOK
<1> QED
  BY <1>1 DEF Linked

(* No mapping begins at a chunk.                                           *)
LEMMA NoMapping ==
  ASSUME Good, NEW d, Laid(d), Given(d, mapped, Sbrk, pages), NEW q \in DOMAIN d
  PROVE  q \notin DOMAIN mapped
<1>1. /\ setup \in SETUPS /\ brk \in BRK_START..BRK_LIMIT /\ pages \subseteq MMAP_PAGES
      /\ Mapped(mapped, pages) /\ Sbrk = BRK_START..brk - 1
  BY DEF Good, Types, HeapOK, Sbrk
<1> QED
  BY <1>1, ChunkOrMapped

(* What the parts of an ownership are.                                     *)
LEMMA PartsOf ==
  ASSUME Good
  PROVE  /\ Parted(av.top, InCache, InFast, InBins, OnCall, Returned, Still, Block)
         /\ Linked(Owned, chunk, mapped)
         /\ Laid(chunk) /\ Heads(chunk) /\ Mapped(mapped, pages) /\ Given(chunk, mapped, Sbrk, pages)
         /\ av.top \in DOMAIN chunk \cup {NULL}
         /\ CacheOK(tcache.entries, chunk) /\ FastOK(av.fastbins, chunk) /\ BinsOK(av.bins, chunk)
         /\ Family(av.bins, Bins)
BY DEF Good, OwnersOK, HeapOK, ListsOK, Laid, Heads, Family, BinsOK, Types, Arenas

(* The arena with other bins.                                              *)
Rebinned(l, b, r) == [av EXCEPT !.bins = l, !.binmap = b, !.last_remainder = r]

LEMMA RebinnedIs ==
  ASSUME Good, NEW l, Family(l, Bins), NEW b \in SUBSET Bins, NEW r \in Nat
  PROVE  /\ Rebinned(l, b, r) \in Arenas /\ Rebinned(l, b, r).bins = l
         /\ Rebinned(l, b, r).fastbins = av.fastbins /\ Rebinned(l, b, r).top = av.top
BY DEF Rebinned, Good, Types, Arenas, Family

(* malloc returns the first part of a chunk p of a bin; the rest is put on *)
(* the unsorted list.                                                      *)
LeavesBins(k, p) ==
  Family(k, Bins) /\ BinsOK(k, chunk) /\ Elements(k) \subseteq InBins \ {p} /\ p \in InBins

CutsOff(p, nb) ==
  /\ \E l \in Mallocs : At(l)
  /\ nb = op.nb /\ chunk[p].size - nb >= MINSIZE
  /\ chunk' = split(chunk, p, nb) /\ Returns(p, TRUE) /\ UNCHANGED <<tcache, rest>>

RestTo(k, q) ==
  \E b \in SUBSET Bins, r \in Nat : av' = Rebinned(on_unsorted(k, q), b, r)

LEMMA ServesCut ==
  ASSUME Good, NEW p, NEW nb, CutsOff(p, nb), NEW k, LeavesBins(k, p), RestTo(k, p + nb)
  PROVE  Good'
<1> SUFFICES ASSUME NEW l \in Mallocs, At(l), p \in InBins, Returns(p, TRUE),
                    nb = op.nb, chunk[p].size - nb >= MINSIZE, chunk' = split(chunk, p, nb),
                    UNCHANGED <<tcache, rest>>, Family(k, Bins), BinsOK(k, chunk),
                    Elements(k) \subseteq InBins \ {p},
                    NEW b \in SUBSET Bins, NEW r \in Nat, av' = Rebinned(on_unsorted(k, p + nb), b, r)
             PROVE  Good'
  BY DEF CutsOff, LeavesBins, RestTo
<1>1. /\ call # << >> /\ Above(op) /\ op.at \in Mallocs \cup Askers /\ nb \in Nat /\ Aligned(nb) /\ op.at = l
  <2>1. l \in Mallocs \cup Askers
    OBVIOUS
  <2> QED
    BY <2>1, MallocOp
<1>2. /\ p \in Nat /\ p # NULL /\ p \in DOMAIN chunk /\ p \notin DOMAIN mapped /\ Aligned(chunk[p].size)
  BY Listed
<1>3. PICK q, size : q = p + nb /\ size = chunk[p].size
  OBVIOUS
<1>4. size \in Nat /\ nb < size /\ nb > 0 /\ 2 * SIZE_SZ <= nb /\ nb <= size - 2 * SIZE_SZ
      /\ size - nb >= MINSIZE /\ Aligned(size - nb)
  <2>1. size \in Nat /\ nb >= MINSIZE
    BY <1>1, <1>2, <1>3 DEF Aligned
  <2>2. size - nb >= MINSIZE
    BY <1>3
  <2>3. Aligned(size - nb)
    BY <1>1, <1>2, <1>3, <2>2, AlignedRest
  <2> QED
    BY <1>1, <2>1, <2>2, <2>3, Units
<1>5. /\ mapped' = mapped /\ brk' = brk /\ pages' = pages /\ setup' = setup /\ held' = held
      /\ mp' = mp /\ tcache' = tcache
  BY DEF rest, system
<1>6. /\ Parted(av.top, InCache, InFast, InBins, OnCall, Returned, Still, Block)
      /\ Linked(Owned, chunk, mapped)
      /\ Laid(chunk) /\ Mapped(mapped, pages) /\ Given(chunk, mapped, Sbrk, pages)
      /\ av.top \in DOMAIN chunk \cup {NULL}
      /\ CacheOK(tcache.entries, chunk) /\ FastOK(av.fastbins, chunk)
  BY PartsOf
<1>7. IsCut(chunk, chunk', p, nb)
  BY <1>1, <1>2, <1>3, <1>4, <1>6, SplitCuts
<1>8. /\ Laid(chunk') /\ Given(chunk', mapped, Sbrk, pages) /\ Keeps(chunk, mapped, chunk', mapped, {p})
      /\ q \in Nat /\ q > 0 /\ q \notin DOMAIN chunk /\ p \in DOMAIN chunk' /\ q \in DOMAIN chunk'
      /\ chunk'[p].size = nb /\ chunk'[q].size = size - nb
  <2>1. PICK d : d = chunk'
    OBVIOUS
  <2>2. CanCut(chunk, p, nb) /\ IsCut(chunk, d, p, nb)
    BY <1>1, <1>2, <1>3, <1>4, <1>7, <2>1 DEF CanCut
  <2>3. WasCut(chunk, d, p, nb, mapped, Sbrk, pages)
    BY <1>6, <2>2, CutLaid
  <2> QED
    BY <1>3, <2>1, <2>3 DEF WasCut
<1>9. q \notin DOMAIN mapped
  BY <1>8, NoMapping
<1>10. q \notin Owned /\ q # av.top
  BY <1>8, <1>9, Fresh DEF NULL
<1>11. /\ Family(on_unsorted(k, q), Bins) /\ BinsOK(on_unsorted(k, q), chunk')
       /\ Elements(on_unsorted(k, q)) = Elements(k) \cup {q}
  <2>1. BinsOK(k, chunk')
    <3>1. Elements(k) \cap {p} = {}
      OBVIOUS
    <3> QED
      BY <1>8, <3>1, KeptBins
  <2>2. q \notin Elements(k)
    BY <1>10 DEF Owned
  <2>3. Aligned(chunk'[q].size)
    BY <1>4, <1>8
  <2>4. PICK j : j = on_unsorted(k, q)
    OBVIOUS
  <2>5. Family(j, Bins) /\ BinsOK(j, chunk') /\ Elements(j) = Elements(k) \cup {q}
    BY <1>8, <2>1, <2>2, <2>3, <2>4, OnUnsorted
  <2> QED
    BY <2>4, <2>5
<1>12. /\ av' \in Arenas /\ av'.bins = on_unsorted(k, q) /\ av'.fastbins = av.fastbins /\ av'.top = av.top
  BY <1>3, <1>11, RebinnedIs
<1>13. InBins' = Elements(k) \cup {q} /\ InFast' = InFast /\ InCache' = InCache /\ Block' = Block
  BY <1>5, <1>11, <1>12 DEF InBins, InFast, InCache, Block
<1>14. ret' = [p |-> p, nb |-> nb, fresh |-> TRUE] /\ call' = Tail(call)
  BY DEF Returns
<1>15. ret' \in Answers /\ ret'.p = p
  <2>1. TRUE \in BOOLEAN /\ nb \in Int
    BY <1>1
  <2> QED
    BY <1>2, <1>14, <2>1 DEF Answers
<1>16. /\ Legal(call', chunk, mapped, held) /\ Base(call').p = Base(call).p /\ HeadOK'
       /\ OnCall' = OnStack(Tail(call))
  BY <1>1, <1>14, Resumes
<1>17. Enough(p, op.nb)
  <2>1. room(p, chunk', mapped') = nb - SIZE_SZ
    BY <1>2, <1>5, <1>8 DEF room
  <2> QED
    BY <1>1, <2>1, Units DEF Enough
<1>18. Returned' = {p} /\ Failed' = {} /\ RetOK'
  BY <1>1, <1>2, <1>14, <1>15, <1>17, Answers1
<1>19. Still' = Still /\ OnCall' \subseteq OnCall
  BY <1>1, <1>5, <1>16, Popped DEF Still
<1>20. Legal(call', chunk', mapped', held')
  <2>1. OnStack(call') \cap {p} = {}
    BY <1>6, <1>14, <1>16, <1>19 DEF Parted
  <2> QED
    BY <1>5, <1>8, <1>16, <2>1, KeptStack
<1>21. Types'
  BY <1>5, <1>12, <1>15 DEF Good, Types, BRK_START, BRK_LIMIT, MMAP_PAGES
<1>22. HeapOK'
  <2>1. av'.top \in DOMAIN chunk' \cup {NULL}
    BY <1>6, <1>7, <1>12 DEF IsCut
  <2>2. Sbrk' = Sbrk
    BY <1>5 DEF Sbrk, BRK_START
  <2> QED
    BY <1>5, <1>6, <1>8, <2>1, <2>2 DEF HeapOK
<1>23. ListsOK'
  <2>1. Elements(tcache.entries) \cap {p} = {} /\ Elements(av.fastbins) \cap {p} = {}
    BY <1>6 DEF Parted, InCache, InFast
  <2>2. CacheOK(tcache.entries, chunk') /\ FastOK(av.fastbins, chunk')
    BY <1>6, <1>8, <2>1, KeptCache, KeptFast
  <2> QED
    BY <1>5, <1>11, <1>12, <2>2 DEF ListsOK
<1>24. Linked({p, q}, chunk', mapped')
  <2>1. p + size \in DOMAIN chunk
    <3>1. p \in Owned
      BY DEF Owned
    <3> QED
      BY <1>2, <1>3, <1>6, <3>1 DEF Linked
  <2>2. p + size \in DOMAIN chunk'
    BY <1>7, <2>1 DEF IsCut
  <2>3. p + chunk'[p].size = q /\ q + chunk'[q].size = p + size
    BY <1>1, <1>2, <1>3, <1>4, <1>8
  <2> QED
    BY <1>8, <2>2, <2>3 DEF Linked
<1>25. Owned' \subseteq (Owned \ {p}) \cup {p, q}
  BY <1>13, <1>18, <1>19 DEF Owned
<1>26. Parted(av.top, InCache, InFast, InBins, OnCall, Returned, Still, Block)'
  <2>1. q \notin InCache \cup InFast \cup OnCall \cup Still \cup Block /\ q # p
    BY <1>2, <1>8, <1>10 DEF Owned
  <2>2. Parted(av.top, InCache, InFast, Elements(k) \cup {q}, OnCall', {p}, Still, Block)
    BY <1>6, <1>10, <1>19, <2>1 DEF Parted
  <2> QED
    BY <1>12, <1>13, <1>18, <1>19, <2>2
<1>27. Keeps(chunk, mapped, chunk', mapped', {p}) /\ Still \cap {p} = {}
  BY <1>5, <1>6, <1>8 DEF Parted
<1>28. Roomy(held, Failed', chunk', mapped') /\ RetOK' /\ HeadOK' /\ held' = held /\ Base(call').p = Base(call).p
  BY <1>5, <1>16, <1>18 DEF Roomy
<1>29. Legal(call, chunk, mapped, held)'
  BY <1>20
<1> QED
  BY <1>21, <1>22, <1>23, <1>24, <1>25, <1>26, <1>27, <1>28, <1>29, Assemble, Zenon

LEMMA SplitLastRemainderFine ==
  ASSUME Good, SplitLastRemainder
  PROVE  Fine'
<1>1. /\ At("unsorted") /\ av.bins[Unsorted] # << >> /\ "unsorted" \in Mallocs
      /\ Len(av.bins[Unsorted]) = 1 /\ chunk[oldest].size > op.nb + MINSIZE
      /\ chunk' = split(chunk, oldest, op.nb)
      /\ av' = [av EXCEPT !.bins[Unsorted] = <<oldest + op.nb>>, !.last_remainder = oldest + op.nb]
      /\ Returns(oldest, TRUE) /\ UNCHANGED <<tcache, rest>>
  BY DEF SplitLastRemainder, AtUnsorted, splits_last_remainder, Mallocs
<1>2. PICK p, nb, q, k : p = oldest /\ nb = op.nb /\ q = p + nb /\ k = sorted
  OBVIOUS
<1>3. /\ Family(k, Bins) /\ BinsOK(k, chunk)
      /\ Elements(k) \subseteq InBins \ {p} /\ p \in InBins /\ k[Unsorted] = Front(av.bins[Unsorted])
  BY <1>1, <1>2, OldestLeaves
<1>4. nb \in Nat
  <2>1. "unsorted" \in Mallocs \cup Askers
    BY <1>1
  <2> QED
    BY <1>1, <1>2, <2>1, MallocOp
<1>5. p \in Nat /\ chunk[p].size \in Nat /\ q \in Nat
  BY <1>2, <1>3, <1>4, Listed DEF Aligned
<1>6. k[Unsorted] = << >>
  <2>1. PICK s : s = av.bins[Unsorted]
    OBVIOUS
  <2>2. s \in Seq(Nat) /\ Len(s) = 1
    BY <1>1, <2>1, UnsortedBin, PartsOf DEF Family
  <2>3. Front(s) = SubSeq(s, 1, 0)
    BY <2>2 DEF Front
  <2> QED
    BY <1>3, <2>1, <2>2, <2>3
<1>7. on_unsorted(k, q) = [av.bins EXCEPT ![Unsorted] = <<q>>]
  <2>1. <<q>> \o << >> = <<q>>
    OBVIOUS
  <2>2. on_unsorted(k, q) = [k EXCEPT ![Unsorted] = <<q>>]
    BY <1>6, <2>1 DEF on_unsorted
  <2> QED
    BY <1>2, <2>2 DEF sorted
<1>8. av' = Rebinned(on_unsorted(k, q), av.binmap, q)
  <2>1. av \in Arenas
    BY DEF Good, Types
  <2> QED
    BY <1>1, <1>2, <1>7, <2>1 DEF Rebinned, Arenas
<1>9. av.binmap \in SUBSET Bins
  BY DEF Good, Types, Arenas
<1>10. chunk[p].size - nb >= MINSIZE
  BY <1>1, <1>2, <1>4, <1>5, Units
<1>11. CutsOff(p, nb)
  BY <1>1, <1>2, <1>10 DEF CutsOff
<1>12. LeavesBins(k, p)
  BY <1>3 DEF LeavesBins
<1>13. RestTo(k, p + nb)
  BY <1>2, <1>5, <1>8, <1>9 DEF RestTo
<1>14. Good'
  BY <1>11, <1>12, <1>13, ServesCut
<1> QED
  BY <1>14 DEF Fine

LEMMA UnlinkedLeaves ==
  ASSUME Good, NEW v, InSome(av.bins, v)
  PROVE  LeavesBins(unlinked(av.bins, v), v)
<1>1. Family(av.bins, Bins) /\ BinsOK(av.bins, chunk)
  BY PartsOf
<1>2. PICK k : k = unlinked(av.bins, v)
  OBVIOUS
<1>3. Family(k, Bins) /\ BinsOK(k, chunk) /\ Elements(k) = InBins \ {v}
  BY <1>1, <1>2, Unlinked DEF InBins
<1>4. v \in InBins
  <2>1. DOMAIN av.bins = Bins
    BY <1>1 DEF Family
  <2> QED
    BY <2>1 DEF InSome, InBins, Elements
<1> QED
  BY <1>2, <1>3, <1>4 DEF LeavesBins

(* A chunk of a bin serves a request.                                      *)
LEMMA TakesFine ==
  ASSUME Good, At("search"), NEW v, NEW b \in SUBSET Bins, NEW remember, Takes(v, op.nb, b, remember),
         UNCHANGED <<tcache, rest>>
  PROVE  Fine'
<1>1. "search" \in Mallocs
  BY DEF Mallocs
<1>2. op.nb \in Nat
  <2>1. "search" \in Mallocs \cup Askers
    BY <1>1
  <2> QED
    BY <2>1, MallocOp
<1>3. CASE Abort
  BY <1>3, Aborts
<1>4. PICK k : k = unlinked(av.bins, v)
  OBVIOUS
<1>5. ASSUME InSome(av.bins, v)
      PROVE  /\ LeavesBins(k, v) /\ Family(k, Bins) /\ BinsOK(k, chunk)
             /\ Elements(k) \subseteq InBins \ {v} /\ v \in InBins
             /\ v \in Nat /\ chunk[v].size \in Nat /\ v \in DOMAIN chunk
  <2>1. LeavesBins(k, v)
    BY <1>4, <1>5, UnlinkedLeaves
  <2>2. v \in InBins
    BY <2>1 DEF LeavesBins
  <2> QED
    BY <2>1, <2>2, Listed DEF LeavesBins, Aligned
<1>6. CASE /\ InSome(av.bins, v) /\ ~(chunk[v].size < op.nb)
           /\ chunk' = set_inuse_bit_at(chunk, next_chunk(v))
           /\ av' = [av EXCEPT !.bins = k, !.binmap = b] /\ Returns(v, TRUE)
  <2>1. /\ Family(k, Bins) /\ BinsOK(k, chunk)
        /\ Elements(k) \subseteq InBins \ {v} /\ v \in InBins /\ chunk[v].size \in Nat
    BY <1>5, <1>6
  <2>2. av' = Rebinned(k, b, av.last_remainder) /\ av.last_remainder \in Nat
    BY <1>6 DEF Rebinned, Good, Types, Arenas
  <2>3. av' \in Arenas /\ av'.bins = k /\ av'.fastbins = av.fastbins /\ av'.top = av.top
    BY <2>1, <2>2, RebinnedIs
  <2>4. SameSizes(chunk, chunk')
    BY <1>6, PartsOf, InuseBit
  <2>5. BinsOK(av'.bins, chunk) /\ FastOK(av'.fastbins, chunk) /\ CacheOK(tcache'.entries, chunk)
        /\ tcache' \in Caches /\ tcache'.block = tcache.block
    BY <2>1, <2>3 DEF Good, ListsOK, Types
  <2>6. v \notin InFast
    BY <2>1 DEF Good, OwnersOK, Parted
  <2>7. /\ v \in InFast \cup InBins /\ TRUE \in BOOLEAN /\ {} \subseteq (InFast \cup InBins) \ {v}
        /\ InCache' \subseteq InCache \cup {} /\ InFast' \subseteq InFast \ ({} \cup {v})
        /\ InBins' \subseteq InBins \ ({} \cup {v})
    BY <2>1, <2>3, <2>6 DEF InCache, InFast, InBins
  <2>8. chunk[v].size >= op.nb
    BY <1>2, <1>6, <2>1
  <2>9. Good'
    BY <1>1, <1>6, <2>3, <2>4, <2>5, <2>7, <2>8, Serves
  <2> QED
    BY <2>9 DEF Fine
<1>7. CASE /\ InSome(av.bins, v) /\ ~(chunk[v].size < op.nb) /\ ~exhausts(v, op.nb)
           /\ chunk' = split(chunk, v, op.nb)
           /\ av' = [av EXCEPT !.bins = on_unsorted(k, v + op.nb), !.binmap = b,
                               !.last_remainder = IF remember THEN v + op.nb ELSE @]
           /\ Returns(v, TRUE)
  <2>1. PICK nb, r : nb = op.nb /\ r = IF remember THEN v + op.nb ELSE av.last_remainder
    OBVIOUS
  <2>2. LeavesBins(k, v) /\ v \in Nat /\ chunk[v].size \in Nat
    BY <1>5, <1>7
  <2>3. r \in Nat
    BY <1>2, <2>1, <2>2 DEF Good, Types, Arenas
  <2>4. av' = Rebinned(on_unsorted(k, v + nb), b, r)
    BY <1>7, <2>1 DEF Rebinned
  <2>5. RestTo(k, v + nb)
    BY <2>3, <2>4 DEF RestTo
  <2>6. chunk[v].size - nb >= MINSIZE
    BY <1>2, <1>7, <2>1, <2>2, Units DEF exhausts
  <2>7. CutsOff(v, nb)
    BY <1>1, <1>7, <2>1, <2>6 DEF CutsOff
  <2>8. Good'
    BY <2>2, <2>5, <2>7, ServesCut
  <2> QED
    BY <2>8 DEF Fine
<1>8. unlink_ok(v) => InSome(av.bins, v)
  BY DEF unlink_ok
<1> QED
  BY <1>3, <1>4, <1>6, <1>7, <1>8 DEF Takes

LEMMA SearchOwnFine ==
  ASSUME Good, SearchOwn
  PROVE  Fine'
<1>1. PICK v : v = best_fit(own_bin, op.nb)
  OBVIOUS
<1>2. /\ At("search") /\ Takes(v, op.nb, av.binmap, FALSE) /\ UNCHANGED <<tcache, rest>>
  BY <1>1 DEF SearchOwn
<1>3. av.binmap \in SUBSET Bins
  BY DEF Good, Types, Arenas
<1> QED
  BY <1>2, <1>3, TakesFine

LEMMA SearchBinsFine ==
  ASSUME Good, SearchBins
  PROVE  Fine'
<1>1. PICK b, v, r :
        /\ b = av.binmap \ seen_empty(op.nb) /\ r = in_smallbin_range(op.nb)
        /\ v = Last(av.bins[CHOOSE j \in nonempty(op.nb) : \A k \in nonempty(op.nb) : j <= k])
  OBVIOUS
<1>2. /\ At("search") /\ Takes(v, op.nb, b, r) /\ UNCHANGED <<tcache, rest>>
  BY <1>1 DEF SearchBins
<1>3. b \in SUBSET Bins
  <2>1. av.binmap \in SUBSET Bins
    BY DEF Good, Types, Arenas
  <2> QED
    BY <1>1, <2>1
<1> QED
  BY <1>2, <1>3, TakesFine

(* The lists are not touched by a change to other chunks.                  *)
LEMMA ListsKept ==
  ASSUME Good, NEW X, Keeps(chunk, mapped, chunk', mapped', X), Listless,
         X \cap (InCache \cup InFast \cup InBins) = {}
  PROVE  ListsOK' /\ InCache' = InCache /\ InFast' = InFast /\ InBins' = InBins
<1>1. CacheOK(tcache.entries, chunk) /\ FastOK(av.fastbins, chunk) /\ BinsOK(av.bins, chunk)
  BY PartsOf
<1>2. /\ Elements(tcache.entries) \cap X = {} /\ Elements(av.fastbins) \cap X = {}
      /\ Elements(av.bins) \cap X = {}
  BY DEF InCache, InFast, InBins
<1>3. PICK d, n : d = chunk' /\ n = mapped'
  OBVIOUS
<1>4. Keeps(chunk, mapped, d, n, X)
  BY <1>3
<1>5. CacheOK(tcache.entries, d)
  BY <1>1, <1>2, <1>4, KeptCache
<1>6. FastOK(av.fastbins, d)
  BY <1>1, <1>2, <1>4, KeptFast
<1>7. BinsOK(av.bins, d)
  BY <1>1, <1>2, <1>4, KeptBins
<1> QED
  BY <1>3, <1>5, <1>6, <1>7 DEF Listless, ListsOK, InCache, InFast, InBins

(* The chunk at p is written over with two.                                *)
LEMMA TwoHeads ==
  ASSUME NEW c, Laid(c), NEW p \in DOMAIN c, NEW n \in Nat, n > 0, NEW z \in Nat, z = c[p].size - n, z > 0
  PROVE  IsCut(c, With(With(c, p + n, Head2(z)), p, Head2(n)), p, n)
<1>1. PICK q, d, e : q = p + n /\ d = With(c, q, Head2(z)) /\ e = With(d, p, Head2(n))
  OBVIOUS
<1>2. Heads(c)
  BY DEF Laid, Heads
<1>3. IsNew(c, d, q, z)
  BY <1>1, <1>2, HeadersNew
<1>4. Heads(d)
  BY <1>3 DEF IsNew, Heads
<1>5. IsNew(d, e, p, n)
  BY <1>1, <1>4, HeadersNew
<1>6. p \in Nat /\ q # p /\ q \notin DOMAIN c
  <2>1. c[p].size \in Nat /\ p \in Nat
    BY LaidTypes
  <2>2. n < c[p].size /\ 0 < n
    BY <2>1
  <2> QED
    BY <1>1, <2>1, <2>2, Inside
<1>7. IsCut(c, e, p, n)
  BY <1>1, <1>3, <1>5, <1>6 DEF IsNew, IsCut
<1> QED
  BY <1>1, <1>7

(* Memory from top.                                                        *)
OnlyElse(a) == a \in Arenas /\ a.bins = av.bins /\ a.fastbins = av.fastbins

LEMMA ServesTop ==
  ASSUME Good, NEW l \in Mallocs, At(l), NEW nb, nb = op.nb, top_serves(nb),
         NEW a, OnlyElse(a), FromTop(nb, a), UNCHANGED <<tcache, rest>>
  PROVE  Good'
<1>1. /\ call # << >> /\ Above(op) /\ op.at \in Mallocs \cup Askers /\ nb \in Nat /\ Aligned(nb)
  <2>1. l \in Mallocs \cup Askers
    OBVIOUS
  <2> QED
    BY <2>1, MallocOp
<1>2. PICK p, size, q : p = av.top /\ size = top_size /\ q = p + nb
  OBVIOUS
<1>3. /\ size \in Nat /\ nb < size /\ nb > 0 /\ 2 * SIZE_SZ <= nb /\ nb <= size - 2 * SIZE_SZ
      /\ p # NULL /\ p \in DOMAIN chunk /\ chunk[p].size = size /\ p \in Nat
  <2>1. size \in Nat /\ p \in Nat /\ (p # NULL => p \in DOMAIN chunk /\ chunk[p].size = size)
    BY <1>2, TopSize
  <2>2. nb >= MINSIZE
    BY <1>1 DEF Aligned
  <2>3. size >= nb + MINSIZE
    BY <1>2 DEF top_serves
  <2>4. size > 0
    BY <1>1, <2>1, <2>2, <2>3, Units
  <2>5. p # NULL
    BY <1>2, <2>4 DEF top_size
  <2> QED
    BY <1>1, <2>1, <2>2, <2>3, <2>5, Units
<1>4. /\ mapped' = mapped /\ brk' = brk /\ pages' = pages /\ setup' = setup /\ held' = held
      /\ mp' = mp /\ tcache' = tcache
  BY DEF rest, system
<1>5. /\ Parted(av.top, InCache, InFast, InBins, OnCall, Returned, Still, Block)
      /\ Linked(Owned, chunk, mapped)
      /\ Laid(chunk) /\ Mapped(mapped, pages) /\ Given(chunk, mapped, Sbrk, pages)
  BY PartsOf
<1>6. IsCut(chunk, chunk', p, nb)
  <2>1. PICK z : z = size - nb /\ z \in Nat /\ z > 0
    BY <1>1, <1>3
  <2>2. IsCut(chunk, With(With(chunk, p + nb, Head2(z)), p, Head2(nb)), p, nb)
    BY <1>1, <1>3, <1>5, <2>1, TwoHeads
  <2> QED
    BY <1>2, <2>1, <2>2 DEF FromTop
<1>7. WasCut(chunk, chunk', p, nb, mapped, Sbrk, pages)
  <2>1. CanCut(chunk, p, nb)
    BY <1>1, <1>3 DEF CanCut
  <2>2. PICK d : d = chunk'
    OBVIOUS
  <2>3. WasCut(chunk, d, p, nb, mapped, Sbrk, pages)
    BY <1>5, <1>6, <2>1, <2>2, CutLaid
  <2> QED
    BY <2>2, <2>3
<1>8. /\ Laid(chunk') /\ Given(chunk', mapped, Sbrk, pages) /\ Keeps(chunk, mapped, chunk', mapped, {p})
      /\ q \in Nat /\ q > 0 /\ q \notin DOMAIN chunk /\ p \in DOMAIN chunk' /\ q \in DOMAIN chunk'
      /\ chunk'[p].size = nb
  BY <1>2, <1>7 DEF WasCut
<1>9. q \notin DOMAIN mapped /\ p \notin DOMAIN mapped
  BY <1>8, NoMapping
<1>10. q \notin Owned /\ q # p
  BY <1>2, <1>8, <1>9, Fresh DEF NULL
<1>11. av' \in Arenas /\ av'.top = q /\ av'.bins = av.bins /\ av'.fastbins = av.fastbins
  <2>1. av' = top_moves(a, q) /\ a \in Arenas /\ q \in Nat
    BY <1>2, <1>8 DEF FromTop, OnlyElse
  <2>2. q + CHUNK_HDR_SZ \in Nat
    BY <2>1, Units
  <2> QED
    BY <2>1, <2>2 DEF OnlyElse, top_moves, Arenas
<1>12. Listless /\ Block' = Block
  BY <1>4, <1>11 DEF Listless, Block
<1>13. ret' = [p |-> p, nb |-> nb, fresh |-> TRUE] /\ call' = Tail(call)
  BY <1>2 DEF Returns, FromTop
<1>14. ret' \in Answers /\ ret'.p = p
  <2>1. TRUE \in BOOLEAN /\ nb \in Int
    BY <1>1
  <2> QED
    BY <1>3, <1>13, <2>1 DEF Answers
<1>15. /\ Legal(call', chunk, mapped, held) /\ Base(call').p = Base(call).p /\ HeadOK'
       /\ OnCall' = OnStack(Tail(call))
  BY <1>1, <1>13, Resumes
<1>16. Enough(p, op.nb)
  <2>1. room(p, chunk', mapped') = nb - SIZE_SZ
    BY <1>4, <1>8, <1>9 DEF room
  <2> QED
    BY <1>1, <2>1, Units DEF Enough
<1>17. Returned' = {p} /\ Failed' = {} /\ RetOK'
  BY <1>1, <1>3, <1>13, <1>14, <1>16, Answers1
<1>18. Still' = Still /\ OnCall' \subseteq OnCall
  BY <1>1, <1>4, <1>15, Popped DEF Still
<1>19. Keeps(chunk, mapped, chunk', mapped', {p})
  BY <1>4, <1>8
<1>20. {p} \cap (InCache \cup InFast \cup InBins \cup OnCall \cup Still) = {}
  BY <1>2, <1>5 DEF Parted
<1>21. ListsOK' /\ InCache' = InCache /\ InFast' = InFast /\ InBins' = InBins
  <2>1. {p} \cap (InCache \cup InFast \cup InBins) = {}
    BY <1>20
  <2> QED
    BY <1>12, <1>19, <2>1, ListsKept
<1>22. Legal(call, chunk, mapped, held)'
  <2>1. OnStack(call') \cap {p} = {}
    BY <1>13, <1>15, <1>18, <1>20
  <2> QED
    BY <1>4, <1>15, <1>19, <2>1, KeptStack
<1>23. Types'
  BY <1>4, <1>11, <1>14 DEF Good, Types, BRK_START, BRK_LIMIT, MMAP_PAGES
<1>24. HeapOK'
  <2>1. Sbrk' = Sbrk
    BY <1>4 DEF Sbrk, BRK_START
  <2> QED
    BY <1>4, <1>5, <1>8, <1>11, <2>1 DEF HeapOK
<1>25. Linked({p}, chunk', mapped')
  BY <1>2, <1>8 DEF Linked
<1>26. Owned' \subseteq (Owned \ {p}) \cup {p}
  BY <1>12, <1>17, <1>18, <1>21 DEF Owned
<1>27. Parted(av.top, InCache, InFast, InBins, OnCall, Returned, Still, Block)'
  <2>1. q \notin InCache \cup InFast \cup InBins \cup OnCall \cup Still \cup Block
    BY <1>10 DEF Owned
  <2>2. Parted(q, InCache, InFast, InBins, OnCall', {p}, Still, Block)
    BY <1>2, <1>5, <1>10, <1>18, <2>1 DEF Parted
  <2> QED
    BY <1>11, <1>12, <1>17, <1>18, <1>21, <2>2
<1>28. Roomy(held, Failed', chunk', mapped') /\ RetOK' /\ HeadOK' /\ held' = held /\ Base(call').p = Base(call).p
       /\ Still \cap {p} = {}
  BY <1>4, <1>15, <1>17, <1>20 DEF Roomy
<1> QED
  BY <1>19, <1>21, <1>22, <1>23, <1>24, <1>25, <1>26, <1>27, <1>28, Assemble, Zenon

LEMMA UseTopFine ==
  ASSUME Good, UseTop
  PROVE  Fine'
<1>1. CASE Abort
  BY <1>1, Aborts
<1>2. CASE ~Abort /\ ~top_serves(op.nb)
  BY <1>2, UseTopOther DEF Fine
<1>3. CASE ~Abort /\ top_serves(op.nb)
  <2>1. PICK a : a = [av EXCEPT !.binmap = @ \ seen_empty(op.nb)]
    OBVIOUS
  <2>2. At("search") /\ FromTop(op.nb, a) /\ UNCHANGED <<tcache, rest>> /\ "search" \in Mallocs
    BY <1>3, <2>1 DEF UseTop, Mallocs
  <2>3. OnlyElse(a)
    BY <2>1 DEF OnlyElse, Good, Types, Arenas
  <2>4. Good'
    BY <1>3, <2>2, <2>3, ServesTop
  <2> QED
    BY <2>4 DEF Fine
<1> QED
  BY <1>1, <1>2, <1>3

LEMMA CarveFine ==
  ASSUME Good, Carve
  PROVE  Fine'
<1>1. CASE ~top_serves(op.nb)
  BY <1>1, CarveGivesUp DEF Fine
<1>2. CASE top_serves(op.nb)
  <2>1. PICK a : a = [av EXCEPT !.max_system_mem = IF av.system_mem > @ THEN av.system_mem ELSE @]
    OBVIOUS
  <2>2. At("carve") /\ FromTop(op.nb, a) /\ UNCHANGED <<tcache, rest>> /\ "carve" \in Mallocs
    BY <1>2, <2>1 DEF Carve, Mallocs
  <2>3. OnlyElse(a)
    BY <2>1 DEF OnlyElse, Good, Types, Arenas
  <2>4. Good'
    BY <1>2, <2>2, <2>3, ServesTop
  <2> QED
    BY <2>4 DEF Fine
<1> QED
  BY <1>1, <1>2

-----------------------------------------------------------------------------
(* Chunks that are cut and joined                                          *)

(* The chunks X of a call, of the bins and of the top change their shape.  *)
Reshaped(X) ==
  /\ UNCHANGED <<tcache, rest>>
  /\ Keeps(chunk, mapped, chunk', mapped, X)
  /\ Laid(chunk') /\ Given(chunk', mapped, Sbrk, pages)
  /\ av' \in Arenas /\ av'.top \in DOMAIN chunk' \cup {NULL} /\ av'.fastbins = av.fastbins
  /\ Family(av'.bins, Bins) /\ BinsOK(av'.bins, chunk') /\ Elements(av'.bins) \subseteq InBins \ X
  /\ X \subseteq Holds(op) \cup Returned \cup InBins \cup {av.top}

(* S is what the calls have of it then, N what is new.                     *)
Shared(S, N, X) ==
  /\ S \subseteq X \cup N /\ N \cap Owned = {} /\ av.top \notin N /\ av'.top \notin S
  /\ av'.top = av.top \/ av'.top \in N
  /\ Linked(S, chunk', mapped)
  /\ OnCall' \subseteq S \cup OnStack(Tail(call)) /\ Returned' \subseteq S
  /\ OnCall' \cap Returned' = {}

LEMMA Reshapes ==
  ASSUME Good, call # << >>, Above(op), NEW X, Reshaped(X), NEW S, NEW N, Shared(S, N, X),
         Legal(call', chunk', mapped, held), Base(call').p = Base(call).p,
         ret' \in Answers, Failed' = {}, RetOK', HeadOK'
  PROVE  Good'
<1>1. /\ Parted(av.top, InCache, InFast, InBins, OnCall, Returned, Still, Block)
      /\ Linked(Owned, chunk, mapped) /\ Mapped(mapped, pages)
      /\ CacheOK(tcache.entries, chunk) /\ FastOK(av.fastbins, chunk)
  BY PartsOf
<1>2. /\ mapped' = mapped /\ brk' = brk /\ pages' = pages /\ setup' = setup /\ held' = held
      /\ mp' = mp /\ tcache' = tcache
  BY DEF rest, system, Reshaped
<1>3. OnCall = Holds(op) \cup OnStack(Tail(call)) /\ Holds(op) \cap OnStack(Tail(call)) = {}
  BY Popped
<1>4. InCache' = InCache /\ InFast' = InFast /\ Block' = Block /\ Still' = Still
  BY <1>2 DEF Reshaped, InCache, InFast, Block, Still
<1>5. PICK B : B = InBins' /\ B \subseteq InBins \ X
  BY DEF Reshaped, InBins
<1>6. X \cap (InCache \cup InFast \cup Still \cup Block) = {}
  BY <1>1, <1>3 DEF Reshaped, Parted
<1>7. X \cap OnStack(Tail(call)) = {}
  BY <1>1, <1>3 DEF Reshaped, Parted
<1>8. ListsOK'
  <2>1. PICK d, n : d = chunk' /\ n = mapped
    OBVIOUS
  <2>2. Keeps(chunk, mapped, d, n, X)
    BY <2>1 DEF Reshaped
  <2>3. Elements(tcache.entries) \cap X = {} /\ Elements(av.fastbins) \cap X = {}
    BY <1>6 DEF InCache, InFast
  <2>4. CacheOK(tcache.entries, d) /\ FastOK(av.fastbins, d)
    BY <1>1, <2>2, <2>3, KeptCache, KeptFast
  <2> QED
    BY <1>2, <2>1, <2>4 DEF ListsOK, Reshaped
<1>9. Types'
  BY <1>2 DEF Good, Types, BRK_START, BRK_LIMIT, MMAP_PAGES, Reshaped
<1>10. HeapOK'
  <2>1. Sbrk' = Sbrk
    BY <1>2 DEF Sbrk, BRK_START
  <2> QED
    BY <1>1, <1>2, <2>1 DEF HeapOK, Reshaped
<1>11. Owned' \subseteq (Owned \ X) \cup S
  <2>1. OnCall' \subseteq (OnCall \ X) \cup S /\ Returned' \subseteq S
    BY <1>3, <1>7 DEF Shared
  <2> QED
    BY <1>4, <1>5, <1>6, <2>1 DEF Owned
<1>12. Parted(av.top, InCache, InFast, InBins, OnCall, Returned, Still, Block)'
  <2>1. PICK T, Q, t : T = OnCall' /\ Q = Returned' /\ t = av'.top
    OBVIOUS
  <2>2. T \subseteq S \cup OnStack(Tail(call)) /\ Q \subseteq S /\ T \cap Q = {}
    BY <2>1 DEF Shared
  <2>3. S \cap (InCache \cup InFast \cup B \cup Still \cup Block) = {}
    BY <1>1, <1>5, <1>6 DEF Shared, Owned
  <2>4. t \notin S /\ (t = av.top \/ t \notin Owned)
    BY <2>1 DEF Shared
  <2>5. t \notin InCache \cup InFast \cup B \cup T \cup Q \cup Still \cup Block
    BY <1>1, <1>3, <1>5, <2>2, <2>4 DEF Parted, Owned
  <2>6. OnStack(Tail(call)) \cap (InCache \cup InFast \cup InBins \cup Still \cup Block) = {}
    BY <1>1, <1>3 DEF Parted
  <2>7. Parted(t, InCache, InFast, B, T, Q, Still, Block)
    BY <1>1, <1>5, <2>2, <2>3, <2>5, <2>6 DEF Parted
  <2> QED
    BY <1>4, <1>5, <2>1, <2>7
<1>13. Roomy(held, Failed', chunk', mapped') /\ held' = held /\ Still \cap X = {}
  BY <1>2, <1>6 DEF Roomy
<1>14. Keeps(chunk, mapped, chunk', mapped', X) /\ Linked(S, chunk', mapped') /\ Legal(call, chunk, mapped, held)'
  BY <1>2 DEF Reshaped, Shared
<1> QED
  BY <1>8, <1>9, <1>10, <1>11, <1>12, <1>13, <1>14, Assemble, Zenon

(* What happens to top while chunks are cut and joined.                    *)
TopMoves(N) ==
  /\ N \cap Owned = {} /\ av.top \notin N /\ (av'.top = av.top \/ av'.top \in N)

LEMMA CallOp ==
  ASSUME Good, call # << >>, op.at \in Reallocs \cup Memaligns
  PROVE  /\ Above(op) /\ Aligned(op.nb) /\ op.nb \in Nat /\ op \in Frames
         /\ FrameOK(op, Topmost(Tail(call)), Base(Tail(call)), chunk, mapped, held)
<1>1. Above(op)
  BY DEF Above, Reallocs, Memaligns
<1>2. FrameOK(op, Topmost(Tail(call)), Base(Tail(call)), chunk, mapped, held) /\ op \in Frames
  BY <1>1, Popped
<1> QED
  BY <1>1, <1>2 DEF FrameOK, Frames

(* It returns the chunk p.                                                 *)
LEMMA ReshapeGives ==
  ASSUME Good, call # << >>, op.at \in Reallocs \cup Memaligns, NEW X, Reshaped(X),
         NEW N, TopMoves(N), NEW p, p \in X, p \in DOMAIN chunk', av'.top # p,
         Linked({p}, chunk', mapped), Gives(p), chunk'[p].size >= op.nb
  PROVE  Good'
<1>1. /\ Above(op) /\ Aligned(op.nb) /\ op.nb \in Nat
      /\ FrameOK(op, Topmost(Tail(call)), Base(Tail(call)), chunk, mapped, held)
  BY CallOp
<1>2. call' = Tail(call) /\ ret' = [p |-> p, nb |-> 0, fresh |-> FALSE] /\ mapped' = mapped /\ held' = held
  BY DEF Gives, Reshaped, rest
<1>3. p \in Nat /\ p # NULL /\ chunk'[p].size \in Nat
  <2>1. PICK d : d = chunk'
    OBVIOUS
  <2>2. Laid(d) /\ p \in DOMAIN d
    BY <2>1 DEF Reshaped
  <2>3. p \in Nat /\ p > 0 /\ d[p].size \in Nat
    BY <2>2, LaidTypes
  <2> QED
    BY <2>1, <2>3 DEF NULL
<1>4. p \notin DOMAIN mapped
  <2>1. PICK d : d = chunk'
    OBVIOUS
  <2>2. Laid(d) /\ Given(d, mapped, Sbrk, pages) /\ p \in DOMAIN d
    BY <2>1 DEF Reshaped
  <2> QED
    BY <2>2, NoMapping
<1>5. ret' \in Answers /\ ret'.p = p /\ ret'.p # NULL
  <2>1. FALSE \in BOOLEAN /\ 0 \in Int
    OBVIOUS
  <2> QED
    BY <1>2, <1>3, <2>1 DEF Answers
<1>6. Enough(ret'.p, op.nb)
  <2>1. room(p, chunk', mapped') = chunk'[p].size - SIZE_SZ
    BY <1>2, <1>4 DEF room
  <2> QED
    BY <1>1, <1>3, <1>5, <2>1, Units DEF Enough
<1>7. Returned' = {p} /\ Failed' = {} /\ RetOK'
  <2>1. op.at \in Mallocs \cup Askers \cup Reallocs \cup Memaligns
    OBVIOUS
  <2> QED
    BY <1>1, <1>2, <1>5, <1>6, <2>1, Answers1
<1>8. /\ Legal(call', chunk, mapped, held) /\ Base(call').p = Base(call).p /\ HeadOK'
      /\ OnCall' = OnStack(Tail(call))
  BY <1>1, <1>2, Resumes
<1>9. X \cap OnStack(Tail(call)) = {}
  <2>1. OnCall = Holds(op) \cup OnStack(Tail(call)) /\ Holds(op) \cap OnStack(Tail(call)) = {}
    BY <1>1, Popped
  <2>2. Parted(av.top, InCache, InFast, InBins, OnCall, Returned, Still, Block)
    BY PartsOf
  <2> QED
    BY <2>1, <2>2 DEF Reshaped, Parted
<1>10. Legal(call', chunk', mapped, held)
  <2>1. OnStack(call') \cap X = {}
    BY <1>2, <1>9
  <2>2. Keeps(chunk, mapped, chunk', mapped, X)
    BY DEF Reshaped
  <2> QED
    BY <1>8, <2>1, <2>2, KeptStack
<1>11. Shared({p}, N, X)
  <2>1. OnCall' \cap {p} = {}
    BY <1>8, <1>9
  <2> QED
    BY <1>7, <1>8, <2>1 DEF Shared, TopMoves
<1> QED
  BY <1>1, <1>5, <1>7, <1>8, <1>10, <1>11, Reshapes

(* It frees the chunk a, and goes on with b.                               *)
LEMMA FreeFrame ==
  ASSUME NEW a, NEW c, a \in DOMAIN c, Laid(c), NEW b, b.at # "deliver", NEW base, NEW m, NEW h
  PROVE  LET f == Frame("int_free", 0, a, 0)
         IN  FrameOK(f, b, base, c, m, h) /\ Above(f) /\ Holds(f) = {a} /\ f.at \notin Needy
<1>1. PICK f : f = Frame("int_free", 0, a, 0)
  OBVIOUS
<1>2. f.at = "int_free" /\ f.nb = 0 /\ f.p = a /\ f.x = 0
  BY <1>1 DEF Frame
<1>3. f \in Frames
  <2>1. "int_free" \in Labels /\ 0 \in Int /\ 0 \in Nat /\ a \in Int
    BY LaidTypes DEF Labels, Frees
  <2> QED
    BY <1>1, <2>1 DEF Frame, Frames
<1>4. FrameOK(f, b, base, c, m, h)
  BY <1>2, <1>3 DEF FrameOK, Mallocs, Askers, Reallocs, Memaligns, Holders, Frees, Givers
<1>5. Above(f) /\ Holds(f) = {a} /\ f.at \notin Needy
  BY <1>2 DEF Above, Holds, Holders, Frees, Needy
<1> QED
  BY <1>1, <1>4, <1>5

Two(a, b, S) ==
  /\ a # b /\ {a, b} \subseteq S /\ a \in DOMAIN chunk'
  /\ av'.top \notin {a, b} /\ Linked({a, b}, chunk', mapped)

FreesFirst(a, b, g) ==
  /\ call' = <<Frame("int_free", 0, a, 0), g>> \o Tail(call) /\ ret' = NoReturn
  /\ FrameOK(g, Topmost(Tail(call)), Base(Tail(call)), chunk', mapped, held)
  /\ Above(g) /\ Waits(g) /\ Holds(g) = {b}

LEMMA ReshapeFrees ==
  ASSUME Good, call # << >>, op.at \in Reallocs \cup Memaligns, NEW X, Reshaped(X),
         NEW N, TopMoves(N), NEW a, NEW b, Two(a, b, X \cup N), NEW g, FreesFirst(a, b, g)
  PROVE  Good'
<1> SUFFICES ASSUME a # b, {a, b} \subseteq X \cup N,
                    a \in DOMAIN chunk', av'.top \notin {a, b}, Linked({a, b}, chunk', mapped),
                    call' = <<Frame("int_free", 0, a, 0), g>> \o Tail(call), ret' = NoReturn,
                    FrameOK(g, Topmost(Tail(call)), Base(Tail(call)), chunk', mapped, held),
                    Above(g), Waits(g), Holds(g) = {b}
             PROVE  Good'
  BY DEF Two, FreesFirst
<1>1. /\ Above(op) /\ Aligned(op.nb) /\ op.nb \in Nat
      /\ FrameOK(op, Topmost(Tail(call)), Base(Tail(call)), chunk, mapped, held)
  BY CallOp
<1>2. PICK f, t, d : f = Frame("int_free", 0, a, 0) /\ t = Tail(call) /\ d = chunk'
  OBVIOUS
<1>3. call' = <<f, g>> \o t
  BY <1>2
<1>4. FrameOK(f, g, Base(t), d, mapped, held) /\ Above(f) /\ Holds(f) = {a} /\ f.at \notin Needy
  <2>1. Laid(d) /\ a \in DOMAIN d /\ g.at # "deliver"
    BY <1>2 DEF Reshaped, Above
  <2> QED
    BY <1>2, <2>1, FreeFrame
<1>5. /\ OnCall = Holds(op) \cup OnStack(t) /\ Holds(op) \cap OnStack(t) = {} /\ Waiting(t)
      /\ Legal(t, chunk, mapped, held) /\ Base(call) = Base(t)
  BY <1>1, <1>2, Popped
<1>6. X \cap OnStack(t) = {}
  <2>1. Parted(av.top, InCache, InFast, InBins, OnCall, Returned, Still, Block)
    BY PartsOf
  <2> QED
    BY <1>5, <2>1 DEF Reshaped, Parted
<1>7. N \cap OnStack(t) = {}
  BY <1>5 DEF TopMoves, Owned
<1>8. Legal(t, d, mapped, held)
  <2>1. OnStack(t) \cap X = {}
    BY <1>6
  <2>2. Keeps(chunk, mapped, d, mapped, X)
    BY <1>2 DEF Reshaped
  <2> QED
    BY <1>5, <2>1, <2>2, KeptStack
<1>9. Grown(call', t, f, {a} \cup {b} \cup OnStack(t), d, mapped, held)
  <2>1. Apart2(f, g, t)
    BY <1>4, <1>6, <1>7 DEF Apart2, Apart1
  <2>2. FrameOK(g, Topmost(t), Base(t), d, mapped, held)
    BY <1>2
  <2>3. PICK s : s = call'
    OBVIOUS
  <2>4. Grown(s, t, f, Holds(f) \cup Holds(g) \cup OnStack(t), d, mapped, held)
    BY <1>3, <1>4, <1>5, <1>8, <2>1, <2>2, <2>3, Push2
  <2> QED
    BY <1>4, <2>3, <2>4
<1>10. /\ Legal(call', d, mapped, held) /\ Base(call') = Base(t) /\ call' # << >> /\ Topmost(call') = f
       /\ OnCall' = {a} \cup {b} \cup OnStack(t)
  BY <1>9 DEF Grown, OnCall
<1>11. Returned' = {} /\ Failed' = {} /\ RetOK' /\ ret' \in Answers
  BY <1>4, <1>10, NoReturnIs DEF Returned, Handed, Failed, RetOK, Above
<1>12. HeadOK'
  <2>1. f.at = "int_free"
    BY <1>2 DEF Frame
  <2>2. (Topmost(call)').at = "int_free"
    BY <1>10, <2>1
  <2>3. Waiting(call)'
    BY <2>2 DEF Waiting, Waits
  <2> QED
    BY <2>3, HeadFree
<1>13. Shared({a, b}, N, X)
  BY <1>2, <1>10, <1>11 DEF Shared, TopMoves
<1>14. Legal(call', chunk', mapped, held) /\ Base(call').p = Base(call).p
  BY <1>2, <1>5, <1>10
<1> QED
  BY <1>1, <1>11, <1>12, <1>13, <1>14, Reshapes

(* A chunk that realloc or memalign is done with.                          *)
DoneWith(b, c, m, h) ==
  /\ FrameOK(done(b), Topmost(Tail(call)), Base(Tail(call)), c, m, h)
  /\ Above(done(b)) /\ Waits(done(b)) /\ Holds(done(b)) = {b}

LEMMA DoneFrame ==
  ASSUME Good, call # << >>, op.at \in Reallocs \cup Memaligns, NEW c,
         NEW b, b \in Nat, b \in DOMAIN c \/ b \in DOMAIN mapped,
         room(b, c, mapped) \in Int, room(b, c, mapped) + SIZE_SZ >= op.nb
  PROVE  DoneWith(b, c, mapped, held)
<1>1. /\ Above(op) /\ Aligned(op.nb) /\ op.nb \in Nat
      /\ FrameOK(op, Topmost(Tail(call)), Base(Tail(call)), chunk, mapped, held)
  BY CallOp
<1>2. PICK f, u, base : f = done(b) /\ u = Topmost(Tail(call)) /\ base = Base(Tail(call))
  OBVIOUS
<1>3. f.at = "done" /\ f.nb = 0 /\ f.p = b /\ f.x = 0
  BY <1>2 DEF done, Frame
<1>4. f \in Frames
  <2>1. "done" \in Labels /\ 0 \in Int /\ 0 \in Nat /\ b \in Int
    BY DEF Labels, Others
  <2> QED
    BY <1>2, <2>1 DEF done, Frame, Frames
<1>5. u.at = "deliver" /\ op.nb >= Need(u, base) /\ u = base
  BY <1>1, <1>2 DEF FrameOK
<1>6. room(f.p, c, mapped) + SIZE_SZ >= Need(u, base)
  <2>1. Need(u, base) \in Int
    <3>1. Legal(Tail(call), chunk, mapped, held)
      BY <1>1, Popped
    <3>2. u \in Frames /\ base \in Frames
      BY <1>2, <3>1, StackTypes
    <3> QED
      BY <3>2, NeedInt
  <2>2. PICK r : r = room(b, c, mapped)
    OBVIOUS
  <2>3. r + SIZE_SZ >= Need(u, base)
    BY <1>1, <1>5, <2>1, <2>2, Units
  <2> QED
    BY <1>3, <2>2, <2>3
<1>7. FrameOK(f, u, base, c, mapped, held)
  BY <1>3, <1>4, <1>5, <1>6 DEF FrameOK, Mallocs, Askers, Reallocs, Memaligns, Holders, Frees, Givers
<1>8. Above(f) /\ Waits(f) /\ Holds(f) = {b}
  BY <1>3 DEF Above, Waits, Holds, Holders
<1> QED
  BY <1>2, <1>7, <1>8 DEF DoneWith

LEMMA DoneChunk ==
  ASSUME Good, call # << >>, op.at \in Reallocs \cup Memaligns, NEW c, Laid(c),
         Given(c, mapped, Sbrk, pages), NEW b \in DOMAIN c, c[b].size >= op.nb
  PROVE  DoneWith(b, c, mapped, held)
<1>1. b \in Nat /\ c[b].size \in Nat
  BY LaidTypes
<1>2. b \notin DOMAIN mapped
  BY NoMapping
<1>3. room(b, c, mapped) = c[b].size - SIZE_SZ
  BY <1>2 DEF room
<1>4. op.nb \in Nat
  BY CallOp
<1>5. room(b, c, mapped) \in Int /\ room(b, c, mapped) + SIZE_SZ >= op.nb
  BY <1>1, <1>3, <1>4, Units
<1> QED
  BY <1>1, <1>5, DoneFrame

-----------------------------------------------------------------------------
(* The steps that cut a chunk                                              *)

(* The first chunk of a cut is used, the rest is freed.                    *)
Resizing(c, p, size) == [set_inuse_bit_at(c, p + size) EXCEPT ![p].size = size]

LEMMA ResizingIs ==
  ASSUME NEW c, Heads(c), NEW p \in DOMAIN c, NEW size \in Nat
  PROVE  IsResize(c, Resizing(c, p, size), p, size)
<1>1. PICK k : k = set_inuse_bit_at(c, p + size)
  OBVIOUS
<1>2. SameSizes(c, k)
  BY <1>1, InuseBit
<1>3. PICK d : d = [k EXCEPT ![p].size = size]
  OBVIOUS
<1>4. IsResize(c, d, p, size)
  BY <1>2, <1>3 DEF SameSizes, IsResize, Headers
<1> QED
  BY <1>1, <1>3, <1>4 DEF Resizing

LEMMA ResizingCut ==
  ASSUME NEW c, Heads(c), NEW p \in DOMAIN c, p \in Nat, NEW size \in Nat, NEW n \in Nat, n > 0, n < size,
         p + n \notin DOMAIN c
  PROVE  IsCut(Resizing(c, p, size),
               With([set_inuse_bit_at(c, p + size) EXCEPT ![p].size = n], p + n, Head2(size - n)), p, n)
<1>1. PICK k : k = set_inuse_bit_at(c, p + size)
  OBVIOUS
<1>2. SameSizes(c, k)
  BY <1>1, InuseBit
<1>3. PICK d, e, z, f : /\ d = [k EXCEPT ![p].size = size] /\ e = [k EXCEPT ![p].size = n]
                        /\ z = size - n /\ f = With(e, p + n, Head2(z))
  OBVIOUS
<1>4. IsResize(c, d, p, size) /\ IsResize(c, e, p, n)
  BY <1>2, <1>3 DEF SameSizes, IsResize, Headers
<1>5. IsNew(e, f, p + n, z)
  <2>1. Heads(e) /\ z \in Nat
    BY <1>3, <1>4 DEF IsResize, Heads
  <2> QED
    BY <1>3, <2>1, HeadersNew
<1>6. p # p + n
  OBVIOUS
<1>7. IsCut(d, f, p, n)
  BY <1>3, <1>4, <1>5, <1>6 DEF IsResize, IsNew, IsCut
<1> QED
  BY <1>1, <1>3, <1>7 DEF Resizing

(* The chunk p has been made of X, and op.nb of it is used.                *)
Remade(d, p, size, X) ==
  /\ UNCHANGED <<tcache, rest>>
  /\ Laid(d) /\ Given(d, mapped, Sbrk, pages) /\ Keeps(chunk, mapped, d, mapped, X)
  /\ p \in X /\ p \in DOMAIN d /\ size = d[p].size /\ size >= op.nb /\ p + size \in DOMAIN d
  /\ X \subseteq Holds(op) \cup Returned \cup InBins
  /\ av' \in Arenas /\ av'.top = av.top /\ av'.top \in DOMAIN d \cup {NULL}
  /\ av'.fastbins = av.fastbins
  /\ Family(av'.bins, Bins) /\ BinsOK(av'.bins, d) /\ Elements(av'.bins) \subseteq InBins \ X

LEMMA TopApart ==
  ASSUME Good, NEW X, X \subseteq Holds(op) \cup Returned \cup InBins, call # << >>, Above(op)
  PROVE  av.top \notin X
<1>1. Holds(op) \subseteq OnCall
  BY Popped
<1>2. Parted(av.top, InCache, InFast, InBins, OnCall, Returned, Still, Block)
  BY PartsOf
<1> QED
  BY <1>1, <1>2 DEF Parted

LEMMA RemadeGives ==
  ASSUME Good, call # << >>, op.at \in Reallocs \cup Memaligns, NEW p, NEW size, NEW X,
         Remade(chunk', p, size, X), Gives(p)
  PROVE  Good'
<1>1. Above(op)
  BY CallOp
<1>2. av.top \notin X
  BY <1>1, TopApart DEF Remade
<1>3. Reshaped(X)
  BY DEF Remade, Reshaped
<1>4. TopMoves({})
  BY DEF Remade, TopMoves
<1>5. p \in X /\ p \in DOMAIN chunk' /\ av'.top # p /\ Linked({p}, chunk', mapped) /\ chunk'[p].size >= op.nb
  BY <1>2 DEF Remade, Linked
<1> QED
  BY <1>3, <1>4, <1>5, ReshapeGives

LEMMA RemadeFrees ==
  ASSUME Good, call # << >>, op.at \in Reallocs \cup Memaligns, NEW d, NEW p, NEW size, NEW X,
         Remade(d, p, size, X), size - op.nb >= MINSIZE, IsCut(d, chunk', p, op.nb),
         call' = <<Frame("int_free", 0, p + op.nb, 0), done(p)>> \o Tail(call), ret' = NoReturn
  PROVE  Good'
<1>1. Above(op) /\ Aligned(op.nb) /\ op.nb \in Nat
  BY CallOp
<1>2. av.top \notin X
  BY <1>1, TopApart DEF Remade
<1>3. PICK nb, q, e : nb = op.nb /\ q = p + op.nb /\ e = chunk'
  OBVIOUS
<1>4. p \in Nat /\ size \in Nat /\ nb \in Nat /\ nb >= MINSIZE
  <2>1. Laid(d) /\ p \in DOMAIN d /\ size = d[p].size
    BY DEF Remade
  <2>2. p \in Nat /\ size \in Nat
    BY <2>1, LaidTypes
  <2> QED
    BY <1>1, <1>3, <2>2 DEF Aligned
<1>5. WasCut(d, e, p, nb, mapped, Sbrk, pages)
  <2>1. size - nb >= MINSIZE
    BY <1>3
  <2>2. CanCut(d, p, nb)
    BY <1>4, <2>1, Units DEF CanCut, Remade
  <2>3. Laid(d) /\ Given(d, mapped, Sbrk, pages) /\ IsCut(d, e, p, nb)
    BY <1>3 DEF Remade
  <2> QED
    BY <2>2, <2>3, CutLaid
<1>6. /\ Laid(e) /\ Given(e, mapped, Sbrk, pages) /\ Keeps(d, mapped, e, mapped, {p})
      /\ q \in Nat /\ q > 0 /\ q \notin DOMAIN d /\ p \in DOMAIN e /\ q \in DOMAIN e
      /\ e[p].size = nb /\ e[q].size = size - nb
  BY <1>3, <1>5 DEF WasCut, Remade
<1>7. DOMAIN e = DOMAIN d \cup {q}
  BY <1>3 DEF IsCut
<1>8. Keeps(chunk, mapped, e, mapped, X)
  <2>1. Keeps(chunk, mapped, e, mapped, X \cup {p})
    BY <1>6, KeepsTwice DEF Remade
  <2>2. X \cup {p} = X
    BY DEF Remade
  <2> QED
    BY <2>1, <2>2
<1>9. BinsOK(av'.bins, e)
  <2>1. PICK l : l = av'.bins
    OBVIOUS
  <2>2. BinsOK(l, d) /\ Elements(l) \cap {p} = {}
    BY <2>1 DEF Remade
  <2>3. BinsOK(l, e)
    BY <1>6, <2>2, KeptBins
  <2> QED
    BY <2>1, <2>3
<1>10. Reshaped(X)
  BY <1>3, <1>6, <1>7, <1>8, <1>9 DEF Remade, Reshaped
<1>11. q \notin DOMAIN mapped
  BY <1>6, NoMapping
<1>12. q \notin X => q \notin DOMAIN chunk
  BY <1>6 DEF Remade, Keeps
<1>13. q \notin X => q \notin Owned /\ q # av.top
  BY <1>6, <1>11, <1>12, Fresh DEF NULL
<1>14. q # p
  BY <1>3, <1>4, Units
<1>15. TopMoves({q} \ X)
  BY <1>13 DEF TopMoves, Remade
<1>16. av'.top \notin {q, p}
  BY <1>2, <1>13 DEF Remade
<1>17. Linked({q, p}, chunk', mapped)
  <2>1. p + e[p].size = q /\ q + e[q].size = p + size
    BY <1>3, <1>4, <1>6
  <2>2. p + size \in DOMAIN e
    BY <1>7 DEF Remade
  <2> QED
    BY <1>3, <1>6, <2>1, <2>2 DEF Linked
<1>18. /\ FrameOK(done(p), Topmost(Tail(call)), Base(Tail(call)), e, mapped, held)
       /\ Above(done(p)) /\ Waits(done(p)) /\ Holds(done(p)) = {p}
  <2>1. e[p].size >= op.nb
    BY <1>3, <1>4, <1>6
  <2> QED
    BY <1>6, <2>1, DoneChunk DEF DoneWith
<1>19. Two(q, p, X \cup ({q} \ X))
  BY <1>3, <1>6, <1>14, <1>16, <1>17 DEF Remade, Two
<1>20. FreesFirst(q, p, done(p))
  BY <1>3, <1>18 DEF FreesFirst
<1> QED
  BY <1>10, <1>15, <1>19, <1>20, ReshapeFrees

LEMMA ResizedFine ==
  ASSUME Good, call # << >>, op.at \in Reallocs \cup Memaligns, NEW c, Heads(c), NEW p, NEW size, NEW X,
         p \in DOMAIN c, size - op.nb >= MINSIZE => p + op.nb \notin DOMAIN c,
         Remade(Resizing(c, p, size), p, size, X), Resized(c, p, size)
  PROVE  Good'
<1>1. PICK d : d = Resizing(c, p, size)
  OBVIOUS
<1>2. /\ Laid(d) /\ p \in DOMAIN d /\ size = d[p].size /\ op.nb \in Nat
      /\ Aligned(op.nb)
  BY <1>1, CallOp DEF Remade
<1>3. p \in Nat /\ size \in Nat
  BY <1>2, LaidTypes
<1>4. CASE size - op.nb < MINSIZE
  <2>1. Gives(p) /\ chunk' = d
    BY <1>1, <1>4 DEF Resized, Resizing
  <2> QED
    BY <1>1, <2>1, RemadeGives
<1>5. CASE ~(size - op.nb < MINSIZE)
  <2>1. PICK nb : nb = op.nb
    OBVIOUS
  <2>2. nb \in Nat /\ nb >= MINSIZE
    BY <1>2, <2>1 DEF Aligned
  <2>3. nb > 0 /\ nb < size /\ size - nb >= MINSIZE
    BY <1>3, <1>5, <2>1, <2>2, Units
  <2>4. /\ chunk' = With([set_inuse_bit_at(c, p + size) EXCEPT ![p].size = nb], p + nb, Head2(size - nb))
        /\ call' = <<Frame("int_free", 0, p + op.nb, 0), done(p)>> \o Tail(call) /\ ret' = NoReturn
    BY <1>5, <2>1 DEF Resized, Continue
  <2>5. IsCut(d, chunk', p, nb)
    BY <1>1, <1>3, <2>1, <2>2, <2>3, <2>4, ResizingCut
  <2> QED
    BY <1>1, <2>1, <2>3, <2>4, <2>5, RemadeFrees
<1> QED
  BY <1>4, <1>5

LEMMA ResizesJoin ==
  ASSUME NEW c, Laid(c), NEW p, NEW q, CanJoin(c, p, q), NEW size, size = c[p].size + c[q].size,
         NEW d, IsResize(Without(c, {q}), d, p, size)
  PROVE  IsJoin(c, d, p)
<1>1. p \in Nat /\ c[p].size \in Nat /\ c[p].size >= 2 * SIZE_SZ
  BY LaidTypes DEF CanJoin
<1>2. p # q
  BY <1>1, Units DEF CanJoin
<1>3. DOMAIN Without(c, {q}) = DOMAIN c \ {q} /\ \A a \in DOMAIN c \ {q} : Without(c, {q})[a] = c[a]
  BY DEF Without
<1> QED
  BY <1>2, <1>3 DEF CanJoin, IsResize, IsJoin

(* The chunk that realloc or memalign works on.                            *)
LEMMA OpChunk ==
  ASSUME Good, call # << >>, op.at \in {"int_realloc", "realloc_copied", "memalign_tail"}
  PROVE  /\ op.p \in DOMAIN chunk /\ op.p \notin DOMAIN mapped /\ Holds(op) = {op.p} /\ op.p \in Nat
         /\ next_chunk(op.p) \in DOMAIN chunk /\ op.p \notin InBins /\ op.p # av.top
         /\ chunk[op.p].size \in Nat /\ op.at \in Reallocs \cup Memaligns /\ op.nb \in Nat
         /\ op.p \notin Returned
<1>1. op.at \in Reallocs \cup Memaligns
  BY DEF Reallocs, Memaligns
<1>2. /\ Above(op) /\ op.nb \in Nat
      /\ FrameOK(op, Topmost(Tail(call)), Base(Tail(call)), chunk, mapped, held)
  BY <1>1, CallOp
<1>3. op.p \in DOMAIN chunk
  BY <1>2 DEF FrameOK
<1>4. Holds(op) = {op.p}
  BY DEF Holds, Holders, Reallocs
<1>5. op.p \in OnCall
  BY <1>2, <1>4, Popped
<1>6. /\ Parted(av.top, InCache, InFast, InBins, OnCall, Returned, Still, Block)
      /\ Linked(Owned, chunk, mapped) /\ Laid(chunk) /\ Given(chunk, mapped, Sbrk, pages)
  BY PartsOf
<1>7. op.p \notin DOMAIN mapped
  BY <1>3, <1>6, NoMapping
<1>8. next_chunk(op.p) \in DOMAIN chunk
  <2>1. op.p \in Owned
    BY <1>5 DEF Owned
  <2> QED
    BY <1>6, <1>7, <2>1 DEF Linked, next_chunk
<1>9. op.p \in Nat /\ chunk[op.p].size \in Nat
  BY <1>3, <1>6, LaidTypes
<1> QED
  BY <1>1, <1>2, <1>3, <1>4, <1>5, <1>6, <1>7, <1>8, <1>9 DEF Parted

LEMMA ReallocShrinksFine ==
  ASSUME Good, ReallocShrinks
  PROVE  Fine'
<1>1. call # << >> /\ op.at = "int_realloc"
  BY DEF ReallocShrinks, AtRealloc, At, op
<1>2. PICK p, size, d, nb : p = op.p /\ size = chunk[p].size /\ d = Resizing(chunk, p, size) /\ nb = op.nb
  OBVIOUS
<1>3. /\ p \in DOMAIN chunk /\ p \notin DOMAIN mapped /\ Holds(op) = {p} /\ p \in Nat
      /\ p + size \in DOMAIN chunk /\ p \notin InBins /\ p # av.top /\ size \in Nat /\ nb \in Nat
      /\ op.at \in Reallocs \cup Memaligns
  BY <1>1, <1>2, OpChunk DEF next_chunk
<1>4. /\ Laid(chunk) /\ Heads(chunk) /\ Given(chunk, mapped, Sbrk, pages)
      /\ Family(av.bins, Bins) /\ BinsOK(av.bins, chunk)
      /\ av.top \in DOMAIN chunk \cup {NULL}
  BY PartsOf
<1>5. SameSizes(chunk, d)
  <2>1. IsResize(chunk, d, p, size)
    BY <1>2, <1>3, <1>4, ResizingIs
  <2> QED
    BY <1>2, <1>3, <2>1 DEF IsResize, SameSizes
<1>6. Laid(d) /\ Given(d, mapped, Sbrk, pages) /\ Keeps(chunk, mapped, d, mapped, {})
  BY <1>4, <1>5, SameLaid
<1>7. Keeps(chunk, mapped, d, mapped, {p})
  BY <1>6, KeepsMore
<1>8. Elements(av.bins) \cap {p} = {} /\ Elements(av.bins) \subseteq InBins \ {p}
  BY <1>3 DEF InBins
<1>9. BinsOK(av.bins, d)
  BY <1>4, <1>7, <1>8, KeptBins
<1>10. UNCHANGED <<tcache, rest>> /\ av' = av /\ Resized(chunk, p, size) /\ size >= nb
  BY <1>2 DEF ReallocShrinks
<1>11. av \in Arenas
  BY DEF Good, Types
<1>12. Remade(d, p, size, {p})
  <2>1. d[p].size = size /\ DOMAIN d = DOMAIN chunk
    BY <1>2, <1>3, <1>5 DEF SameSizes
  <2> QED
    BY <1>2, <1>3, <1>4, <1>6, <1>7, <1>8, <1>9, <1>10, <1>11, <2>1 DEF Remade
<1>13. size - nb >= MINSIZE => p + nb \notin DOMAIN chunk
  <2>1. SUFFICES ASSUME size - nb >= MINSIZE PROVE p + nb \notin DOMAIN chunk
    OBVIOUS
  <2>2. nb < size
    BY <1>3, <2>1, Units
  <2>3. nb > 0
    <3>1. Aligned(nb)
      BY <1>1, <1>2, <1>3, CallOp
    <3> QED
      BY <1>3, <3>1, Units DEF Aligned
  <2> QED
    BY <1>2, <1>3, <1>4, <2>2, <2>3, Inside
<1>14. Remade(Resizing(chunk, p, size), p, size, {p})
  BY <1>2, <1>12
<1>15. Good'
  BY <1>1, <1>2, <1>3, <1>4, <1>10, <1>13, <1>14, ResizedFine
<1> QED
  BY <1>15 DEF Fine

-----------------------------------------------------------------------------
(* The steps of _int_realloc and of the mmapped chunks                     *)

(* The chunk p with the next one, q.                                       *)
JoinedAs(d, p, q, size) ==
  /\ Laid(d) /\ Given(d, mapped, Sbrk, pages) /\ Keeps(chunk, mapped, d, mapped, {p, q})
  /\ p \in DOMAIN d /\ d[p].size = size /\ p # q /\ DOMAIN d = DOMAIN chunk \ {q}
  /\ q + chunk[q].size = p + size /\ size \in Nat /\ chunk[q].size \in Nat

(* A place that the joining leaves free.                                   *)
LEMMA JoinsNext ==
  ASSUME Good, NEW p, NEW q, CanJoin(chunk, p, q), NEW size, size = chunk[p].size + chunk[q].size,
         NEW d, IsResize(Without(chunk, {q}), d, p, size)
  PROVE  JoinedAs(d, p, q, size)
<1>1. Laid(chunk) /\ Given(chunk, mapped, Sbrk, pages)
  BY PartsOf
<1>2. WasJoined(chunk, d, p, q, mapped, Sbrk, pages)
  <2>1. IsJoin(chunk, d, p)
    BY <1>1, ResizesJoin
  <2> QED
    BY <1>1, <2>1, JoinLaid
<1>3. p \in Nat /\ chunk[p].size \in Nat /\ chunk[q].size \in Nat /\ q = p + chunk[p].size
  BY <1>1, LaidTypes DEF CanJoin
<1>4. q + chunk[q].size = p + size /\ size \in Nat
  BY <1>3
<1> QED
  BY <1>2, <1>3, <1>4 DEF WasJoined, JoinedAs

LEMMA InNext ==
  ASSUME Good, NEW p, NEW q, CanJoin(chunk, p, q), NEW size, size = chunk[p].size + chunk[q].size,
         NEW n \in Nat, chunk[p].size < n, n < size
  PROVE  p + n \notin DOMAIN chunk /\ p + n \in Nat /\ p + n > 0
<1>1. Laid(chunk)
  BY PartsOf
<1>2. /\ p \in Nat /\ chunk[p].size \in Nat /\ chunk[q].size \in Nat /\ q = p + chunk[p].size
      /\ q \in DOMAIN chunk
  BY <1>1, LaidTypes DEF CanJoin
<1>3. PICK k : k = n - chunk[p].size
  OBVIOUS
<1>4. k \in Nat /\ 0 < k /\ k < chunk[q].size
  BY <1>2, <1>3
<1>5. q + k \notin DOMAIN chunk /\ q + k \in Nat /\ q + k > 0
  BY <1>1, <1>2, <1>4, Inside
<1>6. q + k = p + n
  BY <1>2, <1>3
<1> QED
  BY <1>5, <1>6

LEMMA HeadsWithout ==
  ASSUME NEW c, Heads(c), NEW X
  PROVE  Heads(Without(c, X)) /\ DOMAIN Without(c, X) = DOMAIN c \ X
BY DEF Heads, Without

(* The chunk p takes in the next one, q, and is cut where op.nb ends.      *)
LEMMA GrowsBy ==
  ASSUME Good, call # << >>, op.at \in {"int_realloc", "realloc_copied"},
         NEW p, p = op.p, NEW q, q = next_chunk(p), q \in InBins \cup Returned,
         NEW size, size = chunk[p].size + chunk[q].size, size >= op.nb, chunk[p].size < op.nb,
         Resized(Without(chunk, {q}), p, size), UNCHANGED <<tcache, rest>>,
         av' \in Arenas, av'.top = av.top, av'.fastbins = av.fastbins,
         Family(av'.bins, Bins), BinsOK(av'.bins, chunk), Elements(av'.bins) \subseteq InBins \ {q}
  PROVE  Good'
<1>1. /\ p \in DOMAIN chunk /\ p \notin DOMAIN mapped /\ Holds(op) = {p} /\ p \in Nat
      /\ q \in DOMAIN chunk /\ p \notin InBins /\ p # av.top /\ chunk[p].size \in Nat
      /\ op.at \in Reallocs \cup Memaligns /\ op.nb \in Nat
  BY OpChunk
<1>2. /\ Laid(chunk) /\ Heads(chunk) /\ Given(chunk, mapped, Sbrk, pages)
      /\ av.top \in DOMAIN chunk \cup {NULL} /\ Linked(Owned, chunk, mapped)
      /\ Parted(av.top, InCache, InFast, InBins, OnCall, Returned, Still, Block)
  BY PartsOf
<1>3. CanJoin(chunk, p, q)
  BY <1>1 DEF CanJoin, next_chunk
<1>4. PICK c, d : c = Without(chunk, {q}) /\ d = Resizing(c, p, size)
  OBVIOUS
<1>5. Heads(c) /\ DOMAIN c = DOMAIN chunk \ {q}
  BY <1>2, <1>4, HeadsWithout
<1>6. p # q /\ size \in Nat
  <2>1. chunk[q].size \in Nat /\ chunk[p].size \in Nat /\ chunk[p].size >= 2 * SIZE_SZ
    BY <1>1, <1>2, LaidTypes
  <2>2. PICK k, m, S : k = chunk[p].size /\ m = chunk[q].size /\ S = SIZE_SZ
    OBVIOUS
  <2>3. S \in Nat \ {0} /\ k \in Nat /\ k >= 2 * S /\ m \in Nat /\ p \in Nat
    BY <1>1, <2>1, <2>2, Units
  <2>4. q = p + k /\ size = k + m
    BY <2>2 DEF next_chunk
  <2>5. k > 0
    BY <2>3
  <2> QED
    BY <2>3, <2>4, <2>5
<1>7. JoinedAs(d, p, q, size)
  <2>1. IsResize(c, d, p, size)
    BY <1>1, <1>4, <1>5, <1>6, ResizingIs
  <2> QED
    BY <1>3, <1>4, <2>1, JoinsNext
<1>8. p + size \in DOMAIN d
  <2>1. q \in Owned /\ q \notin DOMAIN mapped
    BY <1>1, <1>2, NoMapping DEF Owned
  <2>2. q + chunk[q].size \in DOMAIN chunk
    BY <1>2, <2>1 DEF Linked
  <2>3. p + size # q
    BY <1>1, <1>2, <1>7, LaidTypes, Units DEF JoinedAs
  <2> QED
    BY <1>7, <2>2, <2>3 DEF JoinedAs
<1>9. av.top # q
  BY <1>2 DEF Parted
<1>10. Elements(av'.bins) \cap {p, q} = {} /\ Elements(av'.bins) \subseteq InBins \ {p, q}
  BY <1>1
<1>11. BinsOK(av'.bins, d)
  <2>1. PICK l : l = av'.bins
    OBVIOUS
  <2>2. BinsOK(l, chunk) /\ Elements(l) \cap {p, q} = {} /\ Keeps(chunk, mapped, d, mapped, {p, q})
    BY <1>7, <1>10, <2>1 DEF JoinedAs
  <2>3. BinsOK(l, d)
    BY <2>2, KeptBins
  <2> QED
    BY <2>1, <2>3
<1>12. Remade(d, p, size, {p, q})
  BY <1>1, <1>2, <1>7, <1>8, <1>9, <1>10, <1>11 DEF Remade, JoinedAs
<1>13. size - op.nb >= MINSIZE => p + op.nb \notin DOMAIN c
  <2>1. SUFFICES ASSUME size - op.nb >= MINSIZE PROVE p + op.nb \notin DOMAIN c
    OBVIOUS
  <2>2. PICK nb : nb = op.nb
    OBVIOUS
  <2>3. nb \in Nat /\ nb < size /\ chunk[p].size < nb
    BY <1>1, <1>6, <2>1, <2>2, Units
  <2>4. p + nb \notin DOMAIN chunk
    BY <1>3, <2>3, InNext
  <2> QED
    BY <1>5, <2>2, <2>4
<1>14. Resized(c, p, size) /\ Remade(Resizing(c, p, size), p, size, {p, q}) /\ p \in DOMAIN c
  BY <1>1, <1>4, <1>5, <1>6, <1>12
<1> QED
  BY <1>1, <1>5, <1>13, <1>14, ResizedFine

LEMMA ReallocIntoNextFine ==
  ASSUME Good, ReallocIntoNext
  PROVE  Fine'
<1>1. CASE ~unlink_ok(next_chunk(op.p))
  BY <1>1, Aborts DEF ReallocIntoNext
<1>2. CASE unlink_ok(next_chunk(op.p))
  <2>1. call # << >> /\ op.at = "int_realloc"
    BY DEF ReallocIntoNext, AtRealloc, At, op
  <2>2. PICK p, q, size : p = op.p /\ q = next_chunk(p) /\ size = size_with_next(p)
    OBVIOUS
  <2>3. size = chunk[p].size + chunk[q].size
    BY <2>2 DEF size_with_next
  <2>4. /\ chunk[p].size < op.nb /\ size >= op.nb /\ Resized(Without(chunk, {q}), p, size)
        /\ av' = [av EXCEPT !.bins = unlinked(@, q)] /\ UNCHANGED <<tcache, rest>>
    BY <1>2, <2>2 DEF ReallocIntoNext, grows_into_next
  <2>5. LeavesBins(unlinked(av.bins, q), q)
    BY <1>2, <2>2, UnlinkedLeaves DEF unlink_ok
  <2>6. av' \in Arenas /\ av'.top = av.top /\ av'.fastbins = av.fastbins /\ av'.bins = unlinked(av.bins, q)
    BY <2>4, <2>5 DEF LeavesBins, Family, Good, Types, Arenas
  <2>7. Good'
    <3>1. /\ Family(av'.bins, Bins) /\ BinsOK(av'.bins, chunk) /\ Elements(av'.bins) \subseteq InBins \ {q}
          /\ q \in InBins \cup Returned /\ op.at \in {"int_realloc", "realloc_copied"}
      BY <2>1, <2>5, <2>6 DEF LeavesBins
    <3> QED
      BY <2>1, <2>2, <2>3, <2>4, <2>6, <3>1, GrowsBy
  <2> QED
    BY <2>7 DEF Fine
<1> QED
  BY <1>1, <1>2

(* A realloc that fails leaves its chunk to the program.                   *)
LEMMA ReallocFails ==
  ASSUME Good, call # << >>, op.at \in Reallocs, HeapKept, Return
  PROVE  Good'
<1>1. /\ Above(op)
      /\ FrameOK(op, Topmost(Tail(call)), Base(Tail(call)), chunk, mapped, held)
  BY CallOp
<1>2. call' = Tail(call) /\ ret' = NoReturn
  BY DEF Return
<1>3. /\ Legal(call', chunk, mapped, held) /\ Base(call').p = Base(call).p /\ HeadOK'
      /\ OnCall' = OnStack(Tail(call))
  BY <1>1, <1>2, Resumes
<1>4. op.p # NULL /\ Holds(op) = {op.p} /\ op.p \in OnCall /\ op.p \notin OnStack(Tail(call))
  <2>1. op.p # NULL /\ Holds(op) = {op.p}
    BY <1>1, Addresses DEF Holders
  <2> QED
    BY <1>1, <2>1, Popped
<1>5. Topmost(call').at = "deliver" /\ Topmost(call').p = op.p
  BY <1>1, <1>2 DEF FrameOK
<1>6. ret'.p = NULL /\ ret' \in Answers
  BY <1>2, NoReturnIs
<1>7. Returned' = {op.p} /\ Failed' = {op.p} /\ RetOK'
  BY <1>4, <1>5, <1>6 DEF Returned, Handed, Failed, RetOK
<1>8. OnCall' \cup Returned' \subseteq OnCall \cup Returned /\ OnCall' \cap Returned' = {}
  BY <1>1, <1>3, <1>4, <1>7, Popped
<1>9. Roomy(held, Failed', chunk, mapped)
  BY <1>1, <1>7 DEF FrameOK, Roomy
<1> QED
  BY <1>3, <1>6, <1>7, <1>8, <1>9, Control DEF HeapKept

LEMMA ReallocCopiedElse ==
  ASSUME Good, At("realloc_copied"), ret.p # NULL, ret.p # next_chunk(op.p), ReallocCopied
  PROVE  Good'
<1>1. call # << >> /\ op.at = "realloc_copied"
  BY DEF At, op
<1>2. PICK a, b : a = op.p /\ b = ret.p
  OBVIOUS
<1>3. /\ a \in DOMAIN chunk /\ a \notin DOMAIN mapped /\ Holds(op) = {a} /\ a \in Nat
      /\ a \notin InBins /\ a # av.top /\ op.at \in Reallocs \cup Memaligns /\ op.nb \in Nat
      /\ a \notin Returned
  BY <1>1, <1>2, OpChunk
<1>4. Above(op)
  BY <1>1 DEF Above
<1>5. Returned = {b}
  BY <1>2 DEF Returned, Handed
<1>6. /\ Laid(chunk) /\ Heads(chunk) /\ Given(chunk, mapped, Sbrk, pages) /\ Mapped(mapped, pages)
      /\ av.top \in DOMAIN chunk \cup {NULL} /\ Linked(Owned, chunk, mapped)
      /\ Parted(av.top, InCache, InFast, InBins, OnCall, Returned, Still, Block)
      /\ Family(av.bins, Bins) /\ BinsOK(av.bins, chunk)
  BY PartsOf
<1>7. b \in DOMAIN chunk \cup DOMAIN mapped /\ b \notin InBins /\ b # av.top /\ b # a
  <2>1. b \in Owned
    BY <1>5 DEF Owned
  <2> QED
    BY <1>3, <1>5, <1>6, <2>1 DEF Linked, Parted
<1>8. /\ call' = <<Frame("int_free", 0, a, 0), done(b)>> \o Tail(call) /\ ret' = NoReturn
      /\ chunk' = chunk /\ av' = av /\ UNCHANGED <<tcache, rest>>
  BY <1>2 DEF ReallocCopied, Continue
<1>9. Reshaped({a, b})
  <2>1. Keeps(chunk, mapped, chunk, mapped, {a, b})
    BY NoOverlap, KeepsMore
  <2>2. av \in Arenas
    BY DEF Good, Types
  <2>3. Elements(av.bins) \subseteq InBins \ {a, b}
    BY <1>3, <1>7 DEF InBins
  <2> QED
    BY <1>3, <1>5, <1>6, <1>8, <2>1, <2>2, <2>3 DEF Reshaped
<1>10. TopMoves({})
  BY <1>8 DEF TopMoves
<1>11. Two(a, b, {a, b} \cup {})
  <2>1. {a, b} \subseteq Owned
    BY <1>1, <1>3, <1>4, <1>5, Popped DEF Owned
  <2>2. Linked({a, b}, chunk, mapped)
    BY <1>6, <2>1, LinkedLess
  <2> QED
    BY <1>3, <1>7, <1>8, <2>2 DEF Two
<1>12. DoneWith(b, chunk, mapped, held)
  <2>1. room(b, chunk, mapped) \in Int /\ b \in Nat
    BY <1>6, <1>7, RoomInt DEF Laid, Mapped
  <2>2. room(b, chunk, mapped) + SIZE_SZ >= op.nb
    <3>1. Topmost(call) = op
      BY <1>1, <1>4, Popped
    <3>2. room(b, chunk, mapped) + SIZE_SZ >= Need(op, Base(call))
      BY <1>1, <1>2, <3>1 DEF Good, RetOK, Needy
    <3> QED
      BY <1>1, <3>2 DEF Need
  <2> QED
    BY <1>1, <1>3, <1>7, <2>1, <2>2, DoneFrame
<1>13. FreesFirst(a, b, done(b))
  BY <1>8, <1>12 DEF FreesFirst, DoneWith
<1> QED
  BY <1>1, <1>3, <1>9, <1>10, <1>11, <1>13, ReshapeFrees

LEMMA ReallocCopiedFine ==
  ASSUME Good, ReallocCopied
  PROVE  Fine'
<1>1. At("realloc_copied") /\ call # << >> /\ op.at = "realloc_copied"
  BY DEF ReallocCopied, At, op
<1>2. CASE ret.p = NULL
  <2>1. Return /\ UNCHANGED <<heap, tcache, rest>>
    BY <1>2 DEF ReallocCopied, heap
  <2>2. HeapKept
    BY <2>1, Untouched
  <2> QED
    BY <1>1, <2>1, <2>2, ReallocFails DEF Reallocs, Fine
<1>3. CASE ret.p # NULL /\ ret.p # next_chunk(op.p)
  BY <1>1, <1>3, ReallocCopiedElse DEF Fine
<1>4. CASE ret.p # NULL /\ ret.p = next_chunk(op.p)
  <2>1. PICK p, q, size : p = op.p /\ q = next_chunk(p) /\ size = size_with_next(p)
    OBVIOUS
  <2>2. size = chunk[p].size + chunk[q].size
    BY <2>1 DEF size_with_next
  <2>3. Resized(Without(chunk, {q}), p, size) /\ UNCHANGED <<tcache, rest>> /\ av' = av
    BY <1>4, <2>1 DEF ReallocCopied
  <2>4. Returned = {q}
    BY <1>4, <2>1 DEF Returned, Handed
  <2>5. /\ p \in DOMAIN chunk /\ q \in DOMAIN chunk /\ chunk[p].size \in Nat
        /\ op.at \in Reallocs \cup Memaligns /\ op.nb \in Nat
    BY <1>1, <2>1, OpChunk
  <2>6. /\ Laid(chunk) /\ Given(chunk, mapped, Sbrk, pages)
        /\ Parted(av.top, InCache, InFast, InBins, OnCall, Returned, Still, Block)
        /\ Family(av.bins, Bins) /\ BinsOK(av.bins, chunk)
    BY PartsOf
  <2>7. chunk[p].size < op.nb
    <3>1. FrameOK(op, Topmost(Tail(call)), Base(Tail(call)), chunk, mapped, held)
      BY <1>1, <2>5, CallOp
    <3> QED
      BY <1>1, <2>1, <3>1 DEF FrameOK
  <2>8. chunk[q].size >= op.nb
    <3>1. Topmost(call) = op /\ q \notin DOMAIN mapped
      BY <1>1, <2>5, <2>6, Popped, NoMapping DEF Above
    <3>2. room(q, chunk, mapped) + SIZE_SZ >= Need(op, Base(call))
      BY <1>1, <1>4, <2>1, <3>1 DEF Good, RetOK, Needy
    <3>3. room(q, chunk, mapped) = chunk[q].size - SIZE_SZ
      BY <3>1 DEF room
    <3>4. chunk[q].size \in Nat
      BY <2>5, <2>6, LaidTypes
    <3> QED
      BY <1>1, <3>2, <3>3, <3>4, Units DEF Need
  <2>9. size >= op.nb
    <3>1. chunk[q].size \in Nat
      BY <2>5, <2>6, LaidTypes
    <3> QED
      BY <2>2, <2>5, <2>8, <3>1
  <2>10. /\ av' \in Arenas /\ Family(av'.bins, Bins) /\ BinsOK(av'.bins, chunk)
         /\ Elements(av'.bins) \subseteq InBins \ {q} /\ av'.top = av.top /\ av'.fastbins = av.fastbins
    BY <2>3, <2>4, <2>6 DEF Good, Types, Parted, InBins
  <2>11. q \in InBins \cup Returned /\ op.at \in {"int_realloc", "realloc_copied"}
    BY <1>1, <2>4
  <2>12. Good'
    BY <1>1, <2>1, <2>2, <2>3, <2>7, <2>9, <2>10, <2>11, GrowsBy
  <2> QED
    BY <2>12 DEF Fine
<1> QED
  BY <1>2, <1>3, <1>4

(* A chunk of size that ends early, and the header of the rest.            *)
Shortened(c, p, n, z) == With([c EXCEPT ![p].size = n], p + n, Head2(z))

LEMMA ShortenedIs ==
  ASSUME NEW c, Heads(c), NEW p \in DOMAIN c, p \in Nat, NEW n \in Nat, n > 0, p + n \notin DOMAIN c,
         NEW z \in Nat, NEW d, IsResize(c, d, p, n + z)
  PROVE  IsCut(d, Shortened(c, p, n, z), p, n)
<1>1. PICK e, f : e = [c EXCEPT ![p].size = n] /\ f = With(e, p + n, Head2(z))
  OBVIOUS
<1>2. IsResize(c, e, p, n)
  BY <1>1 DEF IsResize, Heads, Headers
<1>3. IsNew(e, f, p + n, z)
  <2>1. Heads(e)
    BY <1>2 DEF IsResize, Heads
  <2> QED
    BY <1>1, <2>1, HeadersNew
<1>4. IsCut(d, f, p, n)
  <2>1. n + z - n = z /\ p # p + n
    OBVIOUS
  <2> QED
    BY <1>2, <1>3, <2>1 DEF IsResize, IsNew, IsCut
<1> QED
  BY <1>1, <1>4 DEF Shortened

LEMMA ShortenedSame ==
  ASSUME NEW c, Laid(c), NEW p \in DOMAIN c, NEW n \in Nat, n > 0, n < c[p].size,
         NEW z, z = c[p].size - n
  PROVE  IsCut(c, Shortened(c, p, n, z), p, n)
<1>1. p \in Nat /\ c[p].size \in Nat /\ Heads(c)
  BY LaidTypes DEF Laid, Heads
<1>2. z \in Nat /\ n + z = c[p].size
  BY <1>1
<1>3. p + n \notin DOMAIN c
  BY Inside
<1>4. IsResize(c, c, p, n + z)
  BY <1>1, <1>2 DEF IsResize, Heads
<1> QED
  BY <1>1, <1>2, <1>3, <1>4, ShortenedIs

LEMMA MemalignTailFine ==
  ASSUME Good, MemalignTail
  PROVE  Fine'
<1>1. call # << >> /\ op.at = "memalign_tail"
  BY DEF MemalignTail, At, op
<1>2. PICK p, size, nb : p = op.p /\ size = chunk[p].size /\ nb = op.nb
  OBVIOUS
<1>3. /\ p \in DOMAIN chunk /\ p \notin DOMAIN mapped /\ Holds(op) = {p} /\ p \in Nat
      /\ p + size \in DOMAIN chunk /\ p \notin InBins /\ p # av.top /\ size \in Nat /\ nb \in Nat
      /\ op.at \in Reallocs \cup Memaligns
  BY <1>1, <1>2, OpChunk DEF next_chunk
<1>4. /\ Laid(chunk) /\ Heads(chunk) /\ Given(chunk, mapped, Sbrk, pages)
      /\ Family(av.bins, Bins) /\ BinsOK(av.bins, chunk)
      /\ av.top \in DOMAIN chunk \cup {NULL}
  BY PartsOf
<1>5. size >= nb
  <2>1. FrameOK(op, Topmost(Tail(call)), Base(Tail(call)), chunk, mapped, held)
    BY <1>1, <1>3, CallOp
  <2> QED
    BY <1>1, <1>2, <2>1 DEF FrameOK
<1>6. UNCHANGED <<tcache, rest>> /\ av' = av
  BY DEF MemalignTail
<1>7. Remade(chunk, p, size, {p})
  <2>1. Keeps(chunk, mapped, chunk, mapped, {p})
    BY NoOverlap, KeepsMore
  <2>2. Elements(av.bins) \subseteq InBins \ {p}
    BY <1>3 DEF InBins
  <2>3. av \in Arenas
    BY DEF Good, Types
  <2> QED
    BY <1>2, <1>3, <1>4, <1>5, <1>6, <2>1, <2>2, <2>3 DEF Remade
<1>8. CASE size > nb + MINSIZE
  <2>1. /\ chunk' = Shortened(chunk, p, nb, size - nb)
        /\ call' = <<Frame("int_free", 0, p + op.nb, 0), done(p)>> \o Tail(call) /\ ret' = NoReturn
    BY <1>2, <1>8 DEF MemalignTail, Shortened, Continue
  <2>2. size - nb >= MINSIZE /\ nb < size
    BY <1>3, <1>8, Units
  <2>3. nb > 0
    <3>1. Aligned(nb)
      BY <1>1, <1>2, <1>3, CallOp
    <3> QED
      BY <1>3, <3>1, Units DEF Aligned
  <2>4. IsCut(chunk, chunk', p, nb)
    BY <1>2, <1>3, <1>4, <2>1, <2>2, <2>3, ShortenedSame
  <2>5. Good'
    BY <1>1, <1>2, <1>3, <1>7, <2>1, <2>2, <2>4, RemadeFrees
  <2> QED
    BY <2>5 DEF Fine
<1>9. CASE ~(size > nb + MINSIZE)
  <2>1. Gives(p) /\ chunk' = chunk
    BY <1>2, <1>9 DEF MemalignTail
  <2>2. Remade(chunk', p, size, {p})
    BY <1>7, <2>1
  <2>3. Good'
    BY <1>1, <1>3, <2>1, <2>2, RemadeGives
  <2> QED
    BY <2>3 DEF Fine
<1> QED
  BY <1>8, <1>9

LEMMA ReallocIntoTopFine ==
  ASSUME Good, ReallocIntoTop
  PROVE  Fine'
<1>1. call # << >> /\ op.at = "int_realloc"
  BY DEF ReallocIntoTop, AtRealloc, At, op
<1>2. PICK p, q, size, nb, t :
        p = op.p /\ q = av.top /\ size = size_with_next(p) /\ nb = op.nb /\ t = p + nb
  OBVIOUS
<1>3. /\ p \in DOMAIN chunk /\ p \notin DOMAIN mapped /\ Holds(op) = {p} /\ p \in Nat
      /\ next_chunk(p) \in DOMAIN chunk /\ p \notin InBins /\ p # q /\ chunk[p].size \in Nat
      /\ op.at \in Reallocs \cup Memaligns /\ nb \in Nat
  BY <1>1, <1>2, OpChunk
<1>4. /\ Laid(chunk) /\ Heads(chunk) /\ Given(chunk, mapped, Sbrk, pages)
      /\ Family(av.bins, Bins) /\ BinsOK(av.bins, chunk)
      /\ Parted(av.top, InCache, InFast, InBins, OnCall, Returned, Still, Block)
  BY PartsOf
<1>5. q = next_chunk(p) /\ q = p + chunk[p].size /\ size = chunk[p].size + chunk[q].size
      /\ size >= nb + MINSIZE /\ chunk[p].size < nb
  BY <1>2 DEF ReallocIntoTop, grows_into_top, size_with_next, next_chunk
<1>6. CanJoin(chunk, p, q)
  BY <1>3, <1>5 DEF CanJoin
<1>7. chunk[q].size \in Nat /\ size \in Nat /\ nb > 0 /\ nb < size /\ nb >= 2 * SIZE_SZ /\ nb <= size - 2 * SIZE_SZ
  <2>1. chunk[q].size \in Nat
    BY <1>4, <1>6, LaidTypes DEF CanJoin
  <2>2. Aligned(nb)
    BY <1>1, <1>2, <1>3, CallOp
  <2>3. nb >= MINSIZE
    BY <2>2 DEF Aligned
  <2>4. PICK k, l : k = chunk[p].size /\ l = chunk[q].size
    OBVIOUS
  <2> QED
    BY <1>3, <1>5, <2>1, <2>3, <2>4, Units
<1>8. PICK c, d, z : c = Without(chunk, {q}) /\ d = [c EXCEPT ![p].size = size] /\ z = size - nb
  OBVIOUS
<1>9. Heads(c) /\ DOMAIN c = DOMAIN chunk \ {q} /\ p \in DOMAIN c
  BY <1>3, <1>4, <1>8, HeadsWithout
<1>10. IsResize(c, d, p, size)
  BY <1>7, <1>8, <1>9 DEF IsResize, Heads, Headers
<1>11. JoinedAs(d, p, q, size)
  BY <1>5, <1>6, <1>8, <1>10, JoinsNext
<1>12. t \notin DOMAIN chunk /\ t \in Nat /\ t > 0
  BY <1>2, <1>3, <1>5, <1>6, <1>7, InNext
<1>13. /\ chunk' = Shortened(c, p, nb, z) /\ av' = top_moves(av, t) /\ Gives(p)
       /\ UNCHANGED <<tcache, rest>>
  BY <1>2, <1>8 DEF ReallocIntoTop, Shortened
<1>14. PICK e : e = chunk'
  OBVIOUS
<1>15. IsCut(d, e, p, nb)
  <2>1. z \in Nat /\ nb + z = size
    BY <1>3, <1>7, <1>8
  <2>2. t \notin DOMAIN c
    BY <1>9, <1>12
  <2>3. IsResize(c, d, p, nb + z) /\ p + nb \notin DOMAIN c
    BY <1>2, <1>10, <2>1, <2>2
  <2> QED
    BY <1>3, <1>7, <1>9, <1>13, <1>14, <2>1, <2>3, ShortenedIs
<1>16. WasCut(d, e, p, nb, mapped, Sbrk, pages)
  <2>1. CanCut(d, p, nb)
    BY <1>3, <1>7, <1>11 DEF CanCut, JoinedAs
  <2> QED
    BY <1>11, <1>15, <2>1, CutLaid DEF JoinedAs
<1>17. /\ Laid(e) /\ Given(e, mapped, Sbrk, pages) /\ p \in DOMAIN e /\ t \in DOMAIN e
       /\ e[p].size = nb /\ Keeps(d, mapped, e, mapped, {p})
  BY <1>2, <1>16 DEF WasCut
<1>18. Keeps(chunk, mapped, e, mapped, {p, q})
  <2>1. Keeps(chunk, mapped, d, mapped, {p, q})
    BY <1>11 DEF JoinedAs
  <2>2. Keeps(chunk, mapped, e, mapped, {p, q} \cup {p})
    BY <1>17, <2>1, KeepsTwice
  <2>3. {p, q} \cup {p} = {p, q}
    OBVIOUS
  <2> QED
    BY <2>2, <2>3
<1>19. t \notin DOMAIN mapped
  BY <1>17, NoMapping
<1>20. t \notin Owned /\ t # q
  BY <1>2, <1>12, <1>19, Fresh DEF NULL
<1>21. q \notin InBins
  BY <1>2, <1>4 DEF Parted
<1>22. Elements(av.bins) \cap {p, q} = {} /\ Elements(av.bins) \subseteq InBins \ {p, q}
  BY <1>3, <1>21 DEF InBins
<1>23. BinsOK(av.bins, e)
  BY <1>4, <1>18, <1>22, KeptBins
<1>24. av' \in Arenas /\ av'.top = t /\ av'.bins = av.bins /\ av'.fastbins = av.fastbins
  <2>1. av \in Arenas
    BY DEF Good, Types
  <2>2. t + CHUNK_HDR_SZ \in Nat
    BY <1>12, Units
  <2> QED
    BY <1>12, <1>13, <2>1, <2>2 DEF top_moves, Arenas
<1>25. Reshaped({p, q})
  BY <1>2, <1>3, <1>4, <1>13, <1>14, <1>17, <1>18, <1>22, <1>23, <1>24 DEF Reshaped
<1>26. TopMoves({t})
  BY <1>2, <1>20, <1>24 DEF TopMoves
<1>27. Linked({p}, chunk', mapped) /\ p \in DOMAIN chunk' /\ chunk'[p].size >= op.nb
  BY <1>2, <1>3, <1>14, <1>17 DEF Linked
<1>28. av'.top # p
  BY <1>2, <1>3, <1>7, <1>24
<1>29. Good'
  BY <1>1, <1>3, <1>13, <1>25, <1>26, <1>27, <1>28, ReshapeGives
<1> QED
  BY <1>29 DEF Fine

-----------------------------------------------------------------------------
(* The steps of sysmalloc that map memory                                  *)

(* What a call has: no other owner knows of it.                            *)
Own == Holds(op) \cup Returned

(* The mappings X come, go or move, and S is returned.                     *)
Remapped(X) ==
  /\ UNCHANGED <<heap, tcache, brk, setup, held>>
  /\ mp' \in Params /\ mp'.max_fast <= request2size(MAX_FAST_SIZE)
  /\ Keeps(chunk, mapped, chunk, mapped', X)
  /\ Mapped(mapped', pages') /\ pages' \subseteq MMAP_PAGES /\ Given(chunk, mapped', Sbrk, pages')
  /\ X \cap (Owned \ Own) = {}

Left(S) ==
  /\ S \cap (Owned \ Own) = {} /\ Linked(S, chunk, mapped') /\ av.top \notin S
  /\ Returned' \subseteq S

LEMMA OwnApart ==
  ASSUME Good, call # << >>, Above(op)
  PROVE  /\ Own \cap (InCache \cup InFast \cup InBins \cup OnStack(Tail(call)) \cup Still \cup Block) = {}
         /\ InCache \cup InFast \cup InBins \cup OnStack(Tail(call)) \cup Still \cup Block \subseteq Owned
<1>1. OnCall = Holds(op) \cup OnStack(Tail(call)) /\ Holds(op) \cap OnStack(Tail(call)) = {}
  BY Popped
<1>2. Parted(av.top, InCache, InFast, InBins, OnCall, Returned, Still, Block)
  BY PartsOf
<1> QED
  BY <1>1, <1>2 DEF Own, Parted, Owned

LEMMA Remaps ==
  ASSUME Good, call # << >>, Above(op), NEW X, Remapped(X), NEW S, Left(S),
         call' = Tail(call), ret' \in Answers, Failed' = {}, RetOK'
  PROVE  Good'
<1>1. /\ Parted(av.top, InCache, InFast, InBins, OnCall, Returned, Still, Block)
      /\ Linked(Owned, chunk, mapped) /\ Laid(chunk) /\ av.top \in DOMAIN chunk \cup {NULL}
  BY PartsOf
<1>2. /\ chunk' = chunk /\ av' = av /\ brk' = brk /\ setup' = setup /\ held' = held /\ tcache' = tcache
  BY DEF heap, Remapped
<1>3. OnCall = Holds(op) \cup OnStack(Tail(call)) /\ Holds(op) \cap OnStack(Tail(call)) = {}
  BY Popped
<1>4. /\ Own \cap (InCache \cup InFast \cup InBins \cup OnStack(Tail(call)) \cup Still \cup Block) = {}
      /\ InCache \cup InFast \cup InBins \cup OnStack(Tail(call)) \cup Still \cup Block \subseteq Owned
  BY OwnApart
<1>5. X \cap (InCache \cup InFast \cup InBins \cup OnStack(Tail(call)) \cup Still \cup Block) = {}
  BY <1>4 DEF Remapped
<1>6. S \cap (InCache \cup InFast \cup InBins \cup OnStack(Tail(call)) \cup Still \cup Block) = {}
  BY <1>4 DEF Left
<1>7. Keeps(chunk, mapped, chunk', mapped', X)
  BY <1>2 DEF Remapped
<1>8. Listless /\ Block' = Block
  BY <1>2 DEF Listless, Block
<1>9. ListsOK' /\ InCache' = InCache /\ InFast' = InFast /\ InBins' = InBins
  <2>1. X \cap (InCache \cup InFast \cup InBins) = {}
    BY <1>5
  <2> QED
    BY <1>7, <1>8, <2>1, ListsKept
<1>10. /\ Legal(call', chunk, mapped, held) /\ Base(call').p = Base(call).p /\ HeadOK'
       /\ OnCall' = OnStack(Tail(call))
  BY Resumes
<1>11. Legal(call, chunk, mapped, held)'
  <2>1. OnStack(call') \cap X = {}
    BY <1>5
  <2>2. PICK m : m = mapped'
    OBVIOUS
  <2>3. Keeps(chunk, mapped, chunk, m, X)
    BY <2>2 DEF Remapped
  <2>4. Legal(call', chunk, m, held)
    BY <1>10, <2>1, <2>3, KeptStack
  <2> QED
    BY <1>2, <2>2, <2>4
<1>12. Still' = Still
  BY <1>2, <1>10 DEF Still
<1>13. Types'
  <2>1. pages' \subseteq MMAP_PAGES'
    BY <1>2 DEF Remapped, MMAP_PAGES
  <2> QED
    BY <1>2, <2>1 DEF Good, Types, BRK_START, BRK_LIMIT, Remapped
<1>14. HeapOK'
  <2>1. Sbrk' = Sbrk
    BY <1>2 DEF Sbrk, BRK_START
  <2> QED
    BY <1>1, <1>2, <2>1 DEF HeapOK, Remapped
<1>15. Owned' \subseteq (Owned \ X) \cup S
  BY <1>4, <1>5, <1>8, <1>9, <1>10, <1>12 DEF Owned, Left
<1>16. Parted(av.top, InCache, InFast, InBins, OnCall, Returned, Still, Block)'
  <2>1. PICK T, R : T = OnCall' /\ R = Returned'
    OBVIOUS
  <2>2. T = OnStack(Tail(call)) /\ R \subseteq S /\ T \subseteq OnCall
    BY <1>3, <1>10, <2>1 DEF Left
  <2>3. Parted(av.top, InCache, InFast, InBins, T, R, Still, Block)
    BY <1>1, <1>6, <2>2 DEF Parted, Left
  <2> QED
    BY <1>2, <1>8, <1>9, <1>12, <2>1, <2>3
<1>17. Linked(S, chunk', mapped') /\ Roomy(held, Failed', chunk', mapped') /\ held' = held /\ Still \cap X = {}
       /\ Base(call').p = Base(call).p /\ HeadOK'
  BY <1>2, <1>5, <1>10 DEF Left, Roomy
<1> QED
  BY <1>7, <1>9, <1>11, <1>13, <1>14, <1>15, <1>16, <1>17, Assemble, Zenon

(* The call returns a chunk p that is large enough.                        *)
LEMMA RemapAnswers ==
  ASSUME Good, call # << >>, Above(op), NEW X, Remapped(X), NEW p, p \notin Owned \ Own,
         p \in Nat, p # NULL, p # av.top, Linked({p}, chunk, mapped'),
         call' = Tail(call), ret' \in Answers, ret'.p = p,
         op.at \in Mallocs \cup Askers \cup Reallocs \cup Memaligns, Enough(p, op.nb)
  PROVE  Good'
<1>1. Returned' = {p} /\ Failed' = {} /\ RetOK'
  BY Answers1
<1>2. Left({p})
  BY <1>1 DEF Left
<1> QED
  BY <1>1, <1>2, Remaps

(* A chunk that begins further into its pages.                             *)
Shift(m, p, k) == With(Without(m, {p}), p + k, [size |-> m[p].size - k, prev_size |-> m[p].prev_size + k])

ShiftedAs(m, n, g, p, q) ==
  /\ Mapped(n, g) /\ DOMAIN n = (DOMAIN m \ {p}) \cup {q} /\ (q # p => q \notin DOMAIN m)
  /\ q \in Nat /\ q # NULL
  /\ \A c, r : Given(c, m, r, g) => Given(c, n, r, g)
  /\ \A c : Keeps(c, m, c, n, {p, q})

LEMMA Shifted ==
  ASSUME NEW m, NEW g, Mapped(m, g), NEW p \in DOMAIN m, NEW k \in Nat, k < m[p].size,
         NEW n, n = Shift(m, p, k), NEW q, q = p + k
  PROVE  ShiftedAs(m, n, g, p, q) /\ n[q].size = m[p].size - k
<1>1. /\ p \in Nat /\ p > 0 /\ m[p].size \in Nat /\ m[p].prev_size \in Nat /\ m[p].size > 0
      /\ own(m, p) \subseteq g
      /\ \A x \in Nat : p - m[p].prev_size <= x /\ x < p + m[p].size <=> x \div PAGE \in own(m, p)
  BY OwnPages
<1>2. PICK s, v : s = m[p].size - k /\ v = m[p].prev_size + k
  OBVIOUS
<1>3. s \in Nat /\ s > 0 /\ v \in Nat /\ q \in Nat /\ q > 0 /\ q - v = p - m[p].prev_size /\ v + s = m[p].prev_size + m[p].size
  BY <1>1, <1>2
<1>4. q \div PAGE \in own(m, p)
  <2>1. p - m[p].prev_size <= q /\ q < p + m[p].size
    BY <1>1
  <2> QED
    BY <1>1, <1>3, <2>1
<1>5. q # p => q \notin DOMAIN m
  <2>1. SUFFICES ASSUME q # p, q \in DOMAIN m PROVE FALSE
    OBVIOUS
  <2>2. /\ m[q].size \in Nat /\ m[q].prev_size \in Nat /\ m[q].size > 0
        /\ \A x \in Nat : q - m[q].prev_size <= x /\ x < q + m[q].size <=> x \div PAGE \in own(m, q)
    BY <2>1, OwnPages
  <2>3. q - m[q].prev_size <= q /\ q < q + m[q].size
    BY <1>3, <2>2
  <2>4. q \div PAGE \in own(m, q)
    BY <1>3, <2>2, <2>3
  <2> QED
    BY <1>4, <2>1, <2>4 DEF Mapped
<1>6. /\ DOMAIN n = (DOMAIN m \ {p}) \cup {q} /\ n[q] = [size |-> s, prev_size |-> v]
      /\ \A a \in DOMAIN m \ {p} : a # q => n[a] = m[a]
  BY <1>2 DEF Shift, With, Without
<1>7. \A a \in DOMAIN m \ {p} : a # q /\ a \in DOMAIN n /\ n[a] = m[a]
  BY <1>5, <1>6
<1>8. n[q].size = s /\ n[q].prev_size = v
  BY <1>6
<1>9. own(n, q) = own(m, p)
  BY <1>3, <1>8 DEF own
<1>10. \A a \in DOMAIN m \ {p} : own(n, a) = own(m, a)
  BY <1>7 DEF own
<1>11. Mapped(n, g)
  <2>1. DOMAIN n \subseteq Nat \ {0} /\ n \in [DOMAIN n -> [size : Nat, prev_size : Nat]]
    <3>1. \A a \in DOMAIN n : n[a] \in [size : Nat, prev_size : Nat]
      BY <1>3, <1>6, <1>7 DEF Mapped
    <3>2. n = [a \in DOMAIN n |-> n[a]]
      BY DEF Shift, With
    <3> QED
      BY <1>3, <1>6, <3>1, <3>2 DEF Mapped
  <2>2. /\ n[q].size > 0 /\ q - n[q].prev_size \in Nat
        /\ (q - n[q].prev_size) % PAGE = 0 /\ (n[q].prev_size + n[q].size) % PAGE = 0
        /\ own(n, q) \subseteq g
    <3>1. /\ p - m[p].prev_size \in Nat /\ (p - m[p].prev_size) % PAGE = 0
          /\ (m[p].prev_size + m[p].size) % PAGE = 0
      BY DEF Mapped
    <3> QED
      BY <1>1, <1>3, <1>8, <1>9, <3>1
  <2>3. \A a \in DOMAIN m \ {p} :
          /\ n[a].size > 0 /\ a - n[a].prev_size \in Nat
          /\ (a - n[a].prev_size) % PAGE = 0 /\ (n[a].prev_size + n[a].size) % PAGE = 0
          /\ own(n, a) \subseteq g
    BY <1>7, <1>10 DEF Mapped
  <2>4. \A a, b \in DOMAIN n : a # b => own(n, a) \cap own(n, b) = {}
    BY <1>6, <1>9, <1>10 DEF Mapped
  <2> QED
    BY <1>6, <2>1, <2>2, <2>3, <2>4 DEF Mapped
<1>12. \A c, r : Given(c, m, r, g) => Given(c, n, r, g)
  <2>1. ASSUME NEW w, NEW r, Arena(w, m, r, g) PROVE Arena(w, n, r, g)
    <3>1. CASE w \in r
      BY <3>1 DEF Arena
    <3>2. CASE w \div PAGE \in g /\ \A a \in DOMAIN m : w \div PAGE \notin own(m, a)
      <4>1. \A a \in DOMAIN n : w \div PAGE \notin own(n, a)
        BY <1>6, <1>9, <1>10, <3>2
      <4> QED
        BY <3>2, <4>1 DEF Arena
    <3> QED
      BY <2>1, <3>1, <3>2 DEF Arena
  <2> QED
    BY <2>1 DEF Given
<1>13. \A c : Keeps(c, m, c, n, {p, q})
  BY <1>6, <1>7 DEF Keeps
<1> QED
  BY <1>2, <1>3, <1>5, <1>6, <1>8, <1>11, <1>12, <1>13 DEF ShiftedAs, NULL

LEMMA NoChunk ==
  ASSUME Good, NEW n, NEW g, Mapped(n, g), g \subseteq MMAP_PAGES, Given(chunk, n, Sbrk, g), NEW q \in DOMAIN n
  PROVE  q \notin DOMAIN chunk
<1>1. setup \in SETUPS /\ brk \in BRK_START..BRK_LIMIT
  BY DEF Good, Types
<1>2. Laid(chunk) /\ Given(chunk, n, BRK_START..brk - 1, g)
  BY PartsOf DEF Sbrk
<1> QED
  BY <1>1, <1>2, ChunkOrMapped

LEMMA NoTop ==
  ASSUME Good, NEW q, q \notin DOMAIN chunk, q # NULL
  PROVE  q # av.top
BY PartsOf

(* memalign begins its chunk further into a mapping.                       *)
LEMMA AlignedAt ==
  ASSUME NEW p \in Nat, NEW a \in Nat, a >= MINSIZE
  PROVE  /\ aligned_at(p, a) - p \in Nat /\ aligned_at(p, a) \in Nat
         /\ aligned_at(p, a) - p = 0 \/ aligned_at(p, a) - p >= MINSIZE
         /\ aligned_at(p, a) - p < a + MINSIZE
<1>1. PICK b : b = p + CHUNK_HDR_SZ
  OBVIOUS
<1>2. b \in Int /\ a \in Nat \ {0}
  BY <1>1, Units
<1>3. PICK u : u = ALIGN_UP(b, a)
  OBVIOUS
<1>4. u \in Int /\ b <= u /\ u < b + a
  BY <1>2, <1>3, RoundUp
<1>5. PICK at : at = u - CHUNK_HDR_SZ
  OBVIOUS
<1>6. at \in Int /\ p <= at /\ at < p + a
  BY <1>1, <1>2, <1>4, <1>5, Units
<1>7. aligned_at(p, a) = IF at = p \/ at - p >= MINSIZE THEN at ELSE at + a
  BY <1>1, <1>3, <1>5 DEF aligned_at
<1> QED
  BY <1>6, <1>7, Units

LEMMA MemalignLeadMapped ==
  ASSUME Good, MemalignLead, ret.p # NULL, ret.p \in DOMAIN mapped
  PROVE  Good'
<1>1. call # << >> /\ op.at = "memalign_lead" /\ op.at \in Reallocs \cup Memaligns /\ op.at \in Memaligns
  BY DEF MemalignLead, At, op, Memaligns
<1>2. /\ Above(op) /\ Aligned(op.nb) /\ op.nb \in Nat /\ op \in Frames
      /\ FrameOK(op, Topmost(Tail(call)), Base(Tail(call)), chunk, mapped, held)
  BY <1>1, CallOp
<1>3. PICK p, q, k, x, nb, n : /\ p = ret.p /\ q = aligned_at(p, op.x) /\ k = q - p /\ x = op.x /\ nb = op.nb
                               /\ n = mapped'
  OBVIOUS
<1>4. /\ n = With(Without(mapped, {p}), q, [size |-> mapped[p].size - k, prev_size |-> mapped[p].prev_size + k])
      /\ Gives(q) /\ chunk' = chunk /\ UNCHANGED <<av, mp, tcache, system, held>>
  BY <1>3 DEF MemalignLead
<1>5. /\ Laid(chunk) /\ Mapped(mapped, pages) /\ Given(chunk, mapped, Sbrk, pages)
      /\ Linked(Owned, chunk, mapped)
  BY PartsOf
<1>6. x \in Nat /\ x >= MINSIZE
  BY <1>1, <1>2, <1>3 DEF FrameOK
<1>7. p \in Nat /\ mapped[p].size \in Nat
  BY <1>3, <1>5, OwnPages
<1>8. k \in Nat /\ q \in Nat /\ k < x + MINSIZE /\ q = p + k
  BY <1>3, <1>6, <1>7, AlignedAt
<1>9. mapped[p].size >= nb + x + 6 * SIZE_SZ
  <2>1. Topmost(call) = op
    BY <1>1, <1>2, Popped
  <2>2. room(p, chunk, mapped) + SIZE_SZ >= Need(op, Base(call))
    BY <1>1, <1>3, <2>1 DEF Good, RetOK, Needy
  <2>3. Need(op, Base(call)) = nb + x + MINSIZE + SIZE_SZ
    BY <1>1, <1>3 DEF Need
  <2>4. room(p, chunk, mapped) = mapped[p].size - CHUNK_HDR_SZ
    BY <1>3 DEF room
  <2> QED
    BY <1>2, <1>3, <1>6, <1>7, <2>2, <2>3, <2>4, Units
<1>10. k < mapped[p].size /\ mapped[p].size - k >= nb + 2 * SIZE_SZ
  BY <1>2, <1>3, <1>6, <1>7, <1>8, <1>9, Units
<1>11. ShiftedAs(mapped, n, pages, p, q) /\ n[q].size = mapped[p].size - k
  <2>1. n = Shift(mapped, p, k)
    BY <1>4, <1>8 DEF Shift
  <2> QED
    BY <1>3, <1>5, <1>8, <1>10, <2>1, Shifted
<1>12. Given(chunk, n, Sbrk, pages) /\ Mapped(n, pages) /\ Keeps(chunk, mapped, chunk, n, {p, q}) /\ q \in DOMAIN n
       /\ q \in Nat /\ q # NULL
  BY <1>5, <1>11 DEF ShiftedAs
<1>13. pages \subseteq MMAP_PAGES
  BY DEF Good, Types
<1>14. q \notin DOMAIN chunk /\ q # av.top
  BY <1>12, <1>13, NoChunk, NoTop
<1>15. p \in Own
  BY <1>3 DEF Own, Returned, Handed
<1>16. q # p => q \notin Owned
  <2>1. q # p => q \notin DOMAIN mapped
    BY <1>11 DEF ShiftedAs
  <2> QED
    BY <1>14, <2>1, Fresh
<1>17. Remapped({p, q})
  <2>1. UNCHANGED <<heap, tcache, brk, setup, held>> /\ mp' = mp /\ pages' = pages
    BY <1>4 DEF heap, system
  <2>2. mp \in Params /\ mp.max_fast <= request2size(MAX_FAST_SIZE)
    BY DEF Good, Types
  <2> QED
    BY <1>3, <1>12, <1>13, <1>15, <1>16, <2>1, <2>2 DEF Remapped
<1>18. /\ call' = Tail(call) /\ ret' = [p |-> q, nb |-> 0, fresh |-> FALSE]
  BY <1>4 DEF Gives
<1>19. ret' \in Answers /\ ret'.p = q
  <2>1. FALSE \in BOOLEAN /\ 0 \in Int
    OBVIOUS
  <2> QED
    BY <1>8, <1>18, <2>1 DEF Answers
<1>20. Enough(q, op.nb)
  <2>1. room(q, chunk', mapped') = n[q].size - CHUNK_HDR_SZ
    BY <1>3, <1>12 DEF room
  <2>2. PICK r : r = room(q, chunk', mapped')
    OBVIOUS
  <2>3. r = mapped[p].size - k - 2 * SIZE_SZ
    BY <1>11, <2>1, <2>2, Units
  <2>4. r \in Int /\ r + SIZE_SZ >= nb
    <3>1. PICK v : v = mapped[p].size
      OBVIOUS
    <3>2. v \in Nat /\ v - k >= nb + 2 * SIZE_SZ /\ k \in Nat /\ nb \in Nat /\ r = v - k - 2 * SIZE_SZ
      BY <1>2, <1>3, <1>7, <1>8, <1>10, <2>3, <3>1
    <3> QED
      BY <3>2, Units
  <2> QED
    BY <1>3, <2>2, <2>4 DEF Enough
<1>21. Linked({q}, chunk, mapped') /\ q \notin Owned \ Own
  BY <1>3, <1>12, <1>15, <1>16 DEF Linked
<1>22. op.at \in Mallocs \cup Askers \cup Reallocs \cup Memaligns
  BY <1>1
<1> QED
  BY <1>1, <1>2, <1>12, <1>14, <1>17, <1>18, <1>19, <1>20, <1>21, <1>22, RemapAnswers

(* A frame that goes on, with what was returned to the one before.         *)
TailFrame(q) == [op EXCEPT !.at = "memalign_tail", !.p = q]

LEMMA TailFrameIs ==
  ASSUME Good, call # << >>, op.at = "memalign_lead", NEW c, Laid(c), NEW q \in DOMAIN c, c[q].size >= op.nb
  PROVE  /\ FrameOK(TailFrame(q), Topmost(Tail(call)), Base(Tail(call)), c, mapped, held)
         /\ Above(TailFrame(q)) /\ Waits(TailFrame(q)) /\ Holds(TailFrame(q)) = {q}
         /\ TailFrame(q).at \notin Needy
<1>1. op.at \in Reallocs \cup Memaligns
  BY DEF Memaligns
<1>2. /\ Above(op) /\ Aligned(op.nb) /\ op.nb \in Nat /\ op \in Frames
      /\ FrameOK(op, Topmost(Tail(call)), Base(Tail(call)), chunk, mapped, held)
  BY <1>1, CallOp
<1>3. PICK f : f = TailFrame(q)
  OBVIOUS
<1>4. f.at = "memalign_tail" /\ f.nb = op.nb /\ f.p = q /\ f.x = op.x
  BY <1>2, <1>3 DEF TailFrame, Frames
<1>5. f \in Frames
  <2>1. "memalign_tail" \in Labels /\ q \in Int
    BY LaidTypes DEF Labels, Memaligns
  <2> QED
    BY <1>2, <1>3, <2>1 DEF TailFrame, Frames
<1>6. PICK u, base : u = Topmost(Tail(call)) /\ base = Base(Tail(call))
  OBVIOUS
<1>7. u.at = "deliver" /\ u = base /\ base.p = NULL /\ op.nb >= Need(u, base)
  <2>1. op.at \notin Reallocs \cup {"done"} /\ op.at \in Memaligns
    BY DEF Reallocs, Memaligns
  <2> QED
    BY <1>2, <1>6, <2>1 DEF FrameOK
<1>8. FrameOK(f, u, base, c, mapped, held)
  BY <1>2, <1>4, <1>5, <1>7 DEF FrameOK, Mallocs, Askers, Reallocs, Memaligns, Holders, Frees, Givers
<1>9. Above(f) /\ Waits(f) /\ Holds(f) = {q} /\ f.at \notin Needy
  BY <1>4 DEF Above, Waits, Holds, Holders, Needy
<1> QED
  BY <1>3, <1>6, <1>8, <1>9

LEMMA MemalignLeadChunk ==
  ASSUME Good, MemalignLead, ret.p # NULL, ret.p \notin DOMAIN mapped
  PROVE  Fine'
<1>1. call # << >> /\ op.at = "memalign_lead" /\ op.at \in Reallocs \cup Memaligns
  BY DEF MemalignLead, At, op, Memaligns
<1>2. /\ Above(op) /\ Aligned(op.nb) /\ op.nb \in Nat /\ op \in Frames
      /\ FrameOK(op, Topmost(Tail(call)), Base(Tail(call)), chunk, mapped, held)
  BY <1>1, CallOp
<1>3. PICK p, q, k, x, nb, size : /\ p = ret.p /\ q = aligned_at(p, op.x) /\ k = q - p /\ x = op.x
                                  /\ nb = op.nb /\ size = chunk[p].size
  OBVIOUS
<1>4. /\ Laid(chunk) /\ Heads(chunk) /\ Mapped(mapped, pages) /\ Given(chunk, mapped, Sbrk, pages)
      /\ Linked(Owned, chunk, mapped) /\ av.top \in DOMAIN chunk \cup {NULL}
      /\ Family(av.bins, Bins) /\ BinsOK(av.bins, chunk)
      /\ Parted(av.top, InCache, InFast, InBins, OnCall, Returned, Still, Block)
  BY PartsOf
<1>5. Returned = {p}
  BY <1>3 DEF Returned, Handed
<1>6. p \in Owned /\ p \notin InBins /\ p # av.top /\ p \notin DOMAIN mapped
  BY <1>3, <1>4, <1>5 DEF Owned, Parted
<1>7. p \in DOMAIN chunk /\ p + size \in DOMAIN chunk
  BY <1>3, <1>4, <1>6 DEF Linked
<1>8. p \in Nat /\ size \in Nat
  BY <1>3, <1>4, <1>7, LaidTypes
<1>9. x \in Nat /\ x >= MINSIZE
  BY <1>1, <1>2, <1>3 DEF FrameOK
<1>10. k \in Nat /\ q \in Nat /\ k < x + MINSIZE /\ q = p + k /\ (k = 0 \/ k >= MINSIZE)
  BY SMTT(20), <1>3, <1>8, <1>9, AlignedAt
<1>11. size >= nb
  <2>1. Topmost(call) = op
    BY <1>1, <1>2, Popped
  <2>2. room(p, chunk, mapped) + SIZE_SZ >= Need(op, Base(call))
    BY <1>1, <1>3, <2>1 DEF Good, RetOK, Needy
  <2>3. Need(op, Base(call)) = nb + x + MINSIZE + SIZE_SZ
    BY <1>1, <1>3 DEF Need
  <2>4. room(p, chunk, mapped) = size - SIZE_SZ
    BY <1>3, <1>6 DEF room
  <2> QED
    BY <1>2, <1>3, <1>8, <1>9, <2>2, <2>3, <2>4, Units
<1>12. /\ UNCHANGED <<tcache, rest>> /\ av' = av
  BY <1>3, <1>6 DEF MemalignLead, rest
<1>13. CASE k > 0 /\ size - k < nb
  BY <1>3, <1>6, <1>13, Aborts DEF MemalignLead
<1>14. CASE k = 0
  <2>1. /\ call' = <<TailFrame(q)>> \o Tail(call) /\ chunk' = chunk /\ ret' = NoReturn
    BY <1>2, <1>3, <1>6, <1>14 DEF MemalignLead, Continue, TailFrame
  <2>2. HeapKept
    <3>1. UNCHANGED <<heap, tcache, rest>>
      BY <1>12, <2>1 DEF heap
    <3> QED
      BY <3>1, Untouched
  <2>3. q = p
    BY <1>8, <1>10, <1>14
  <2>4. PICK f, t : f = TailFrame(q) /\ t = Tail(call)
    OBVIOUS
  <2>5. /\ FrameOK(f, Topmost(t), Base(t), chunk, mapped, held) /\ Above(f) /\ Waits(f)
        /\ Holds(f) = {p} /\ f.at \notin Needy
    BY <1>1, <1>3, <1>4, <1>7, <1>11, <2>3, <2>4, TailFrameIs
  <2>6. /\ OnCall = Holds(op) \cup OnStack(t) /\ Waiting(t) /\ Legal(t, chunk, mapped, held)
        /\ Base(call) = Base(t)
    BY <1>1, <1>2, <2>4, Popped
  <2>7. p \notin OnStack(t)
    BY <1>4, <1>5, <2>6 DEF Parted
  <2>8. Grown(call', t, f, {p} \cup OnStack(t), chunk, mapped, held)
    <3>1. PICK s : s = call'
      OBVIOUS
    <3>2. s = <<f>> \o t /\ Apart1(f, t)
      BY <2>1, <2>4, <2>5, <2>7, <3>1 DEF Apart1
    <3>3. Grown(s, t, f, Holds(f) \cup OnStack(t), chunk, mapped, held)
      BY <2>5, <2>6, <3>2, Push1
    <3> QED
      BY <2>5, <3>1, <3>3
  <2>9. /\ Legal(call', chunk, mapped, held) /\ Base(call') = Base(t) /\ call' # << >> /\ Topmost(call') = f
        /\ OnCall' = {p} \cup OnStack(t)
    BY <2>8 DEF Grown, OnCall
  <2>10. Returned' = {} /\ Failed' = {} /\ RetOK' /\ ret' \in Answers
    BY <2>1, <2>5, <2>9, NoReturnIs DEF Returned, Handed, Failed, RetOK, Above
  <2>11. HeadOK'
    <3>1. (Topmost(call)').at = "memalign_tail"
      BY <1>2, <2>4, <2>9 DEF TailFrame, Frames
    <3>2. Waiting(call)'
      BY <3>1 DEF Waiting, Waits
    <3> QED
      BY <3>2, HeadFree
  <2>12. OnCall' \cup Returned' \subseteq OnCall \cup Returned /\ OnCall' \cap Returned' = {}
    BY <1>5, <2>6, <2>9, <2>10
  <2>13. Roomy(held, Failed', chunk, mapped) /\ Base(call').p = Base(call).p
    BY <2>6, <2>9, <2>10 DEF Roomy
  <2>14. Good'
    BY <2>2, <2>9, <2>10, <2>11, <2>12, <2>13, Control DEF HeapKept
  <2> QED
    BY <2>14 DEF Fine
<1>15. CASE k > 0 /\ ~(size - k < nb)
  <2>1. k >= MINSIZE /\ k < size /\ k <= size - 2 * SIZE_SZ /\ size - k >= nb /\ k >= 2 * SIZE_SZ
    <3>1. nb >= MINSIZE
      BY <1>2, <1>3 DEF Aligned
    <3> QED
      BY <1>2, <1>3, <1>8, <1>10, <1>15, <3>1, Units
  <2>2. /\ call' = <<Frame("int_free", 0, p, 0), TailFrame(q)>> \o Tail(call)
        /\ chunk' = With([chunk EXCEPT ![p].size = k], q, Head2(size - k)) /\ ret' = NoReturn
    BY <1>2, <1>3, <1>6, <1>10, <1>15 DEF MemalignLead, Continue, TailFrame
  <2>3. PICK d : d = chunk'
    OBVIOUS
  <2>4. IsCut(chunk, d, p, k)
    <3>1. d = Shortened(chunk, p, k, size - k)
      BY <1>10, <2>2, <2>3 DEF Shortened
    <3> QED
      BY <1>3, <1>4, <1>7, <1>10, <1>15, <2>1, <3>1, ShortenedSame
  <2>5. WasCut(chunk, d, p, k, mapped, Sbrk, pages)
    <3>1. CanCut(chunk, p, k)
      BY <1>3, <1>7, <1>10, <2>1 DEF CanCut
    <3> QED
      BY <1>4, <2>4, <3>1, CutLaid
  <2>6. /\ Laid(d) /\ Given(d, mapped, Sbrk, pages) /\ Keeps(chunk, mapped, d, mapped, {p})
        /\ q > 0 /\ q \notin DOMAIN chunk /\ p \in DOMAIN d /\ q \in DOMAIN d
        /\ d[p].size = k /\ d[q].size = size - k
    BY <1>3, <1>10, <2>5 DEF WasCut
  <2>7. q \notin DOMAIN mapped
    BY <2>6, NoMapping
  <2>8. q \notin Owned /\ q # av.top /\ q # p
    BY <1>7, <1>10, <2>6, <2>7, Fresh DEF NULL
  <2>9. Elements(av.bins) \cap {p} = {} /\ Elements(av.bins) \subseteq InBins \ {p}
    BY <1>6 DEF InBins
  <2>10. BinsOK(av.bins, d)
    BY <1>4, <2>6, <2>9, KeptBins
  <2>11. DOMAIN d = DOMAIN chunk \cup {q}
    BY <1>10, <2>4 DEF IsCut
  <2>12. Reshaped({p})
    <3>1. av \in Arenas
      BY DEF Good, Types
    <3> QED
      BY <1>4, <1>5, <1>12, <2>3, <2>6, <2>9, <2>10, <2>11, <3>1 DEF Reshaped
  <2>13. TopMoves({q})
    BY <1>12, <2>8 DEF TopMoves
  <2>14. Two(p, q, {p} \cup {q})
    <3>1. p + d[p].size = q /\ q + d[q].size = p + size
      BY <1>8, <1>10, <2>6
    <3>2. Linked({p, q}, d, mapped)
      BY <1>7, <2>6, <2>11, <3>1 DEF Linked
    <3> QED
      BY <1>6, <1>12, <2>3, <2>6, <2>8, <3>2 DEF Two
  <2>15. FreesFirst(p, q, TailFrame(q))
    <3>1. d[q].size >= op.nb
      BY <1>3, <2>1, <2>6
    <3> QED
      BY <1>1, <2>2, <2>3, <2>6, <3>1, TailFrameIs DEF FreesFirst
  <2>16. Good'
    BY <1>1, <2>12, <2>13, <2>14, <2>15, ReshapeFrees
  <2> QED
    BY <2>16 DEF Fine
<1> QED
  BY <1>10, <1>13, <1>14, <1>15, <1>2, <1>3, <1>8

LEMMA MemalignLeadFine ==
  ASSUME Good, MemalignLead
  PROVE  Fine'
<1>1. CASE ret.p = NULL
  <2>1. call # << >> /\ op.at = "memalign_lead" /\ op.at \in Reallocs \cup Memaligns
    BY DEF MemalignLead, At, op, Memaligns
  <2>2. Return /\ UNCHANGED <<heap, tcache, rest>>
    BY <1>1 DEF MemalignLead, heap, rest
  <2>3. HeapKept /\ Above(op) /\ op.at \notin Reallocs \cup {"done"} /\ call' = Tail(call) /\ ret' = NoReturn
    BY <2>1, <2>2, Untouched DEF Above, Reallocs, Return
  <2> QED
    BY <2>1, <2>3, Stops DEF Fine
<1>2. CASE ret.p # NULL /\ ret.p \in DOMAIN mapped
  BY <1>2, MemalignLeadMapped DEF Fine
<1>3. CASE ret.p # NULL /\ ret.p \notin DOMAIN mapped
  BY <1>3, MemalignLeadChunk
<1> QED
  BY <1>1, <1>2, <1>3

GoneAs(m, n, g, f, p) ==
  /\ Mapped(n, f) /\ DOMAIN n = DOMAIN m \ {p} /\ \A q \in DOMAIN n : n[q] = m[q]
  /\ \A c, r : Given(c, m, r, g) => Given(c, n, r, f)
  /\ \A c : Keeps(c, m, c, n, {p})

LEMMA Gone ==
  ASSUME NEW m, NEW g, Mapped(m, g), NEW p \in DOMAIN m
  PROVE  GoneAs(m, Without(m, {p}), g, g \ own(m, p), p)
BY MapGone DEF GoneAs

LEMMA OwnIs ==
  ASSUME NEW p
  PROVE  own_pages(p) = own(mapped, p)
BY DEF own_pages, own, block, total_size

(* A chunk of its own mapping is given back.                               *)
LEMMA Unmaps ==
  ASSUME Good, call # << >>, Above(op), op.p \in DOMAIN mapped, Holds(op) = {op.p},
         mapped' = Without(mapped, {op.p}), pages' = pages \ own_pages(op.p),
         UNCHANGED <<heap, tcache, brk, setup, held>>,
         NEW par \in Params, par.max_fast <= request2size(MAX_FAST_SIZE), mp' = unmapped(op.p, par)
  PROVE  Remapped({op.p}) /\ mapped'= Without(mapped, {op.p})
<1>1. PICK p, n, f : p = op.p /\ n = mapped' /\ f = pages'
  OBVIOUS
<1>2. Mapped(mapped, pages) /\ Given(chunk, mapped, Sbrk, pages)
  BY PartsOf
<1>3. GoneAs(mapped, n, pages, f, p)
  BY <1>1, <1>2, Gone, OwnIs
<1>4. f \subseteq MMAP_PAGES
  BY <1>1 DEF Good, Types
<1>5. mp' \in Params /\ mp'.max_fast <= request2size(MAX_FAST_SIZE)
  <2>1. PICK k : k = total_size(p)
    OBVIOUS
  <2>2. k \in Int
    BY <1>1, <1>2, <2>1, OwnPages DEF total_size
  <2>3. PICK a : a = par.n_mmaps - 1
    OBVIOUS
  <2>4. PICK b : b = par.mmapped_mem - k
    OBVIOUS
  <2>5. a \in Int /\ b \in Int
    BY SMTT(20), <2>2, <2>3, <2>4 DEF Params
  <2>6. mp' = [[par EXCEPT !.n_mmaps = a] EXCEPT !.mmapped_mem = b]
    BY <1>1, <2>1, <2>3, <2>4 DEF unmapped, Params
  <2>7. PICK q : q = [par EXCEPT !.n_mmaps = a]
    OBVIOUS
  <2>8. q \in Params /\ q.max_fast = par.max_fast
    BY <2>5, <2>7 DEF Params
  <2>9. mp' \in Params /\ mp'.max_fast = q.max_fast
    BY <2>5, <2>6, <2>7, <2>8 DEF Params
  <2> QED
    BY <2>8, <2>9
<1> QED
  BY <1>1, <1>2, <1>3, <1>4, <1>5 DEF GoneAs, Remapped, Own

LEMMA LibcFreeMappedFine ==
  ASSUME Good, LibcFreeMapped
  PROVE  Fine'
<1>1. CASE ~mapping_ok(op.p)
  BY <1>1, Aborts DEF LibcFreeMapped
<1>2. CASE mapping_ok(op.p)
  <2>1. call # << >> /\ op.at = "libc_free" /\ op.p \in DOMAIN mapped
    BY DEF LibcFreeMapped, At, op
  <2>2. Above(op) /\ op.at \notin Reallocs \cup {"done"} /\ op.at \in Holders /\ Holds(op) = {op.p}
    BY <2>1 DEF Above, Reallocs, Holders, Frees, Holds
  <2>3. PICK par : /\ par = IF ~adjusts(mapped[op.p].size) THEN mp
                            ELSE [mp EXCEPT !.mmap_threshold = mapped[op.p].size,
                                            !.trim_threshold = 2 * mapped[op.p].size]
    OBVIOUS
  <2>4. /\ mp' = unmapped(op.p, par) /\ mapped' = Without(mapped, {op.p})
        /\ pages' = pages \ own_pages(op.p) /\ Return /\ UNCHANGED <<heap, tcache, brk, setup, held>>
    BY <1>2, <2>3 DEF LibcFreeMapped
  <2>5. par \in Params /\ par.max_fast <= request2size(MAX_FAST_SIZE)
    <3>1. mapped[op.p].size \in Nat
      BY <2>1, PartsOf, OwnPages
    <3>2. mp \in Params /\ mp.max_fast <= request2size(MAX_FAST_SIZE)
      BY DEF Good, Types
    <3>3. PICK s : s = mapped[op.p].size /\ s \in Int
      BY <3>1
    <3>4. CASE par = mp
      BY <3>2, <3>4
    <3>5. CASE par # mp
      <4>1. PICK q : q = [mp EXCEPT !.mmap_threshold = s]
        OBVIOUS
      <4>2. q \in Params /\ q.max_fast = mp.max_fast
        BY <3>2, <3>3, <4>1 DEF Params
      <4>3. PICK t : t = 2 * s
        OBVIOUS
      <4>4. t \in Int
        BY <3>3, <4>3
      <4>5. par = [q EXCEPT !.trim_threshold = t]
        BY <2>3, <3>3, <3>5, <4>1, <4>3
      <4>6. par \in Params /\ par.max_fast = q.max_fast
        BY <4>2, <4>4, <4>5 DEF Params
      <4> QED
        BY <3>2, <4>2, <4>6
    <3> QED
      BY <3>4, <3>5
  <2>6. Remapped({op.p})
    BY <2>1, <2>2, <2>4, <2>5, Unmaps
  <2>7. Returned' = {} /\ Failed' = {} /\ RetOK'
    BY <2>1, <2>2, <2>4, GivesUp DEF Return
  <2>8. Left({})
    BY <2>7 DEF Left, Linked
  <2>9. call' = Tail(call) /\ ret' \in Answers
    BY <2>4, NoReturnIs DEF Return
  <2>10. Good'
    BY <2>1, <2>2, <2>6, <2>7, <2>8, <2>9, Remaps
  <2> QED
    BY <2>10 DEF Fine
<1> QED
  BY <1>1, <1>2

LEMMA MappedCopiedFine ==
  ASSUME Good, MappedCopied
  PROVE  Fine'
<1>1. call # << >> /\ op.at = "mapped_copied" /\ op.at \in Reallocs
  BY DEF MappedCopied, At, op, Reallocs
<1>2. CASE ret.p = NULL
  <2>1. Return /\ UNCHANGED <<heap, tcache, rest>>
    BY <1>2 DEF MappedCopied, rest, system
  <2>2. HeapKept
    BY <2>1, Untouched
  <2> QED
    BY <1>1, <2>1, <2>2, ReallocFails DEF Fine
<1>3. CASE ret.p # NULL
  <2>1. /\ Above(op) /\ Aligned(op.nb) /\ op.nb \in Nat /\ op \in Frames
        /\ FrameOK(op, Topmost(Tail(call)), Base(Tail(call)), chunk, mapped, held)
    BY <1>1, CallOp
  <2>2. PICK o, p, n : o = op.p /\ p = ret.p /\ n = mapped'
    OBVIOUS
  <2>3. o \in DOMAIN mapped /\ Holds(op) = {o} /\ o \in OnCall
    <3>1. o \in DOMAIN mapped
      BY <1>1, <2>1, <2>2 DEF FrameOK
    <3>2. Holds(op) = {o}
      BY <1>1, <2>2 DEF Holds, Holders
    <3> QED
      BY <1>1, <2>1, <3>1, <3>2, Popped
  <2>4. Returned = {p}
    BY <1>3, <2>2 DEF Returned, Handed
  <2>5. /\ Parted(av.top, InCache, InFast, InBins, OnCall, Returned, Still, Block)
        /\ Linked(Owned, chunk, mapped) /\ Laid(chunk) /\ Mapped(mapped, pages)
    BY PartsOf
  <2>6. p \in Owned /\ p # o /\ p # av.top /\ (p \in DOMAIN mapped \/ p \in DOMAIN chunk)
    BY <2>3, <2>4, <2>5 DEF Parted, Owned, Linked
  <2>7. /\ mp' = unmapped(o, mp) /\ n = Without(mapped, {o}) /\ pages' = pages \ own_pages(o)
        /\ Gives(p) /\ UNCHANGED <<heap, tcache, brk, setup, held>>
    BY <1>3, <2>2 DEF MappedCopied
  <2>8. Remapped({o})
    <3>1. mp \in Params /\ mp.max_fast <= request2size(MAX_FAST_SIZE)
      BY DEF Good, Types
    <3> QED
      BY <1>1, <2>1, <2>2, <2>3, <2>7, <3>1, Unmaps
  <2>9. Keeps(chunk, mapped, chunk, n, {o})
    BY <2>2, <2>8 DEF Remapped
  <2>10. Linked({p}, chunk, n)
    <3>1. {p} \subseteq Owned \ {o}
      BY <2>6
    <3> QED
      BY <2>5, <2>9, <3>1, KeptLinked
  <2>11. call' = Tail(call) /\ ret' = [p |-> p, nb |-> 0, fresh |-> FALSE]
    BY <2>7 DEF Gives
  <2>12. p \in Nat /\ p # NULL
    BY <1>3, <2>2, <2>5, <2>6 DEF Laid, Mapped
  <2>13. ret' \in Answers /\ ret'.p = p
    <3>1. FALSE \in BOOLEAN /\ 0 \in Int
      OBVIOUS
    <3> QED
      BY <2>11, <2>12, <3>1 DEF Answers
  <2>14. Enough(p, op.nb)
    <3>1. chunk' = chunk
      BY <2>7 DEF heap
    <3>2. room(p, chunk, n) = room(p, chunk, mapped)
      <4>1. p \notin {o}
        BY <2>6
      <4> QED
        BY <2>6, <2>9, <4>1, KeptRoom
    <3>3. room(p, chunk, mapped) \in Int
      <4>1. p \in DOMAIN chunk \cup DOMAIN mapped
        BY <2>6
      <4> QED
        BY <2>5, <4>1, RoomInt
    <3>4. room(p, chunk, mapped) + SIZE_SZ >= op.nb
      <4>1. Topmost(call) = op
        BY <1>1, <2>1, Popped
      <4>2. room(p, chunk, mapped) + SIZE_SZ >= Need(op, Base(call))
        BY <1>1, <1>3, <2>2, <4>1 DEF Good, RetOK, Needy
      <4> QED
        BY <1>1, <4>2 DEF Need
    <3> QED
      BY <2>2, <3>1, <3>2, <3>3, <3>4 DEF Enough
  <2>15. p \notin Owned \ Own /\ Linked({p}, chunk, mapped')
    BY <2>2, <2>4, <2>10 DEF Own
  <2>16. op.at \in Mallocs \cup Askers \cup Reallocs \cup Memaligns
    BY <1>1
  <2>17. Good'
    BY <1>1, <2>1, <2>6, <2>8, <2>11, <2>12, <2>13, <2>14, <2>15, <2>16, RemapAnswers
  <2> QED
    BY <2>17 DEF Fine
<1> QED
  BY <1>2, <1>3

(* A new mapping, once the mappings of a call have gone, is returned.      *)
Freed(m, g, X) ==
  /\ X \subseteq Own /\ Keeps(chunk, mapped, chunk, m, X) /\ Mapped(m, g)
  /\ Given(chunk, m, Sbrk, g) /\ DOMAIN mapped \subseteq DOMAIN m \cup X /\ g \subseteq MMAP_PAGES

OneField(par) ==
  par \in Params /\ par.max_fast = mp.max_fast

MapsNew(m, g, i, l, p, s, v) ==
  /\ Pages(i, l, g) /\ run(i, l) \subseteq MMAP_PAGES /\ Placed(i, l, p, s, v)
  /\ mapped' = With(m, p, [size |-> s, prev_size |-> v]) /\ pages' = g \cup run(i, l)
  /\ s >= op.nb + SIZE_SZ
  /\ call' = Tail(call) /\ ret' \in Answers /\ ret'.p = p
  /\ OneField(mp') /\ UNCHANGED <<heap, tcache, brk, setup, held>>

LEMMA MapServes ==
  ASSUME Good, call # << >>, Above(op), op.nb \in Nat, op.at \in Mallocs \cup Askers \cup Reallocs \cup Memaligns,
         NEW m, NEW g, NEW X, Freed(m, g, X),
         NEW i, NEW l, NEW p, NEW s, NEW v, MapsNew(m, g, i, l, p, s, v)
  PROVE  Good'
<1>1. PICK n, f : n = mapped' /\ f = pages'
  OBVIOUS
<1>2. NewAs(m, n, g, f, p, s, v)
  BY <1>1, MapNew DEF Freed, MapsNew
<1>3. Mapped(n, f) /\ f \subseteq MMAP_PAGES /\ Given(chunk, n, Sbrk, f)
  BY <1>1, <1>2 DEF NewAs, Freed, MapsNew
<1>4. p \notin DOMAIN chunk /\ p \in Nat /\ p # NULL /\ p \in DOMAIN n
  <2>1. p \in DOMAIN n /\ p \in Nat /\ p # NULL
    BY <1>2 DEF NewAs, NULL
  <2> QED
    BY <1>3, <2>1, NoChunk
<1>5. p \notin Owned \ Own /\ p # av.top
  <2>1. CASE p \in X
    BY <1>4, <2>1, NoTop DEF Freed
  <2>2. CASE p \notin X
    <3>1. p \notin DOMAIN mapped
      BY <1>2, <2>2 DEF NewAs, Freed
    <3> QED
      BY <1>4, <3>1, Fresh
  <2> QED
    BY <2>1, <2>2
<1>6. Keeps(chunk, mapped, chunk, n, X \cup {p})
  BY <1>2, KeepsTwice DEF NewAs, Freed
<1>7. Remapped(X \cup {p})
  <2>1. (X \cup {p}) \cap (Owned \ Own) = {}
    BY <1>5 DEF Freed
  <2>2. mp' \in Params /\ mp'.max_fast <= request2size(MAX_FAST_SIZE)
    BY DEF MapsNew, OneField, Good, Types
  <2> QED
    BY <1>1, <1>3, <1>6, <2>1, <2>2 DEF Remapped, MapsNew
<1>8. Linked({p}, chunk, mapped')
  BY <1>1, <1>4 DEF Linked
<1>9. Enough(p, op.nb)
  <2>1. room(p, chunk', n) = s - CHUNK_HDR_SZ
    BY <1>2, <1>4 DEF NewAs, room
  <2>2. s \in Nat /\ s >= op.nb + SIZE_SZ
    BY DEF MapsNew, Placed
  <2>3. PICK r : r = room(p, chunk', n)
    OBVIOUS
  <2>4. r \in Int /\ r + SIZE_SZ >= op.nb
    <3>1. PICK k : k = op.nb
      OBVIOUS
    <3> QED
      BY <2>1, <2>2, <2>3, <3>1, Units
  <2> QED
    BY <1>1, <2>3, <2>4 DEF Enough
<1>10. call' = Tail(call) /\ ret' \in Answers /\ ret'.p = p
  BY DEF MapsNew
<1> QED
  BY <1>4, <1>5, <1>7, <1>8, <1>9, <1>10, RemapAnswers

LEMMA PlacesAre ==
  ASSUME Good, NEW n, NEW F, NEW i \in Places(n, F)
  PROVE  i \in Nat /\ i > 0 /\ run(i, n) \subseteq MMAP_PAGES /\ run(i, n) \subseteq F
<1>1. i \in MMAP_PAGES /\ run(i, n) \subseteq MMAP_PAGES \cap F
  BY DEF Places
<1>2. setup \in SETUPS
  BY DEF Good, Types
<1> QED
  BY <1>1, <1>2, SetupsAssumption DEF MMAP_PAGES

LEMMA WholePages ==
  ASSUME NEW x \in Nat, NEW z, z = ALIGN_UP(x, PAGE), NEW n, n = z \div PAGE
  PROVE  z \in Nat /\ z >= x /\ n \in Nat /\ z = n * PAGE
<1>1. z \in Int /\ x <= z /\ \E q \in Int : z = q * PAGE
  <2>1. x \in Int /\ PAGE \in Nat \ {0}
    BY PageSize
  <2> QED
    BY <2>1, RoundUp, Zenon
<1>2. PICK q \in Int : z = q * PAGE
  BY <1>1
<1>3. q >= 0
  <2> SUFFICES ASSUME q < 0 PROVE FALSE
    BY <1>2
  <2>1. q * PAGE < 0
    BY PageSize
  <2> QED
    BY <1>1, <1>2, <2>1
<1>4. z \in Nat /\ q \in Nat
  BY <1>1, <1>3
<1>5. (q * PAGE) \div PAGE = q
  BY <1>4, PageSize, Multiple
<1> QED
  BY <1>1, <1>2, <1>4, <1>5

LEMMA SysmallocMmapFine ==
  ASSUME Good, SysmallocMmap
  PROVE  Fine'
<1>1. At("sysmalloc") /\ "sysmalloc" \in Mallocs \cup Askers
  BY DEF SysmallocMmap, Mallocs
<1>2. call # << >> /\ op.at = "sysmalloc" /\ Above(op) /\ op.nb \in Nat /\ op \in Frames
  BY <1>1, MallocOp
<1>3. PICK size, n : size = mmap_size(op.nb) /\ n = size \div PAGE
  OBVIOUS
<1>4. PICK i \in Places(n, MMAP_PAGES \ pages) :
        /\ mapped' = With(mapped, i * PAGE, [size |-> size, prev_size |-> 0])
        /\ mp' = [mp EXCEPT !.n_mmaps = @ + 1, !.mmapped_mem = @ + size]
        /\ pages' = pages \cup run(i, n)
        /\ Returns(i * PAGE, FALSE)
  BY <1>3 DEF SysmallocMmap
<1>5. size \in Nat /\ size >= op.nb + SIZE_SZ /\ n \in Nat /\ size = n * PAGE
  <2>1. PICK x : x = op.nb + SIZE_SZ
    OBVIOUS
  <2>2. x \in Nat /\ size = ALIGN_UP(x, PAGE)
    BY <1>2, <1>3, <2>1, Units DEF mmap_size
  <2> QED
    BY <1>3, <2>1, <2>2, WholePages
<1>6. i \in Nat /\ i > 0 /\ run(i, n) \subseteq MMAP_PAGES /\ run(i, n) \subseteq MMAP_PAGES \ pages
  BY <1>4, PlacesAre
<1>7. PICK p : p = i * PAGE
  OBVIOUS
<1>8. p \in Nat
  BY <1>6, <1>7, PageSize
<1>9. Freed(mapped, pages, {})
  <2>1. pages \subseteq MMAP_PAGES
    BY DEF Good, Types
  <2> QED
    BY <2>1, PartsOf, NoOverlap DEF Freed
<1>10. size > 0
  <2>1. op.nb + SIZE_SZ > 0
    <3>1. PICK k : k = op.nb
      OBVIOUS
    <3> QED
      BY <1>2, <3>1, Units
  <2> QED
    BY <1>2, <1>5, <2>1, Units
<1>11. OneField(mp')
  <2>1. mp \in Params
    BY DEF Good, Types
  <2>2. PICK a : a = mp.n_mmaps + 1
    OBVIOUS
  <2>3. PICK b : b = mp.mmapped_mem + size
    OBVIOUS
  <2>4. a \in Int /\ b \in Int
    BY <1>5, <2>1, <2>2, <2>3 DEF Params
  <2>5. PICK q : q = [mp EXCEPT !.n_mmaps = a]
    OBVIOUS
  <2>6. q \in Params /\ q.max_fast = mp.max_fast
    BY <2>1, <2>4, <2>5 DEF Params
  <2>7. mp' = [q EXCEPT !.mmapped_mem = b]
    BY <1>4, <2>1, <2>2, <2>3, <2>5 DEF Params
  <2>8. mp' \in Params /\ mp'.max_fast = q.max_fast
    BY <2>4, <2>6, <2>7 DEF Params
  <2> QED
    BY <2>6, <2>8 DEF OneField
<1>12. MapsNew(mapped, pages, i, n, p, size, 0)
  <2>1. Pages(i, n, pages) /\ run(i, n) \subseteq MMAP_PAGES
    BY <1>5, <1>6 DEF Pages
  <2>2. Placed(i, n, p, size, 0)
    <3>1. p = i * PAGE + 0
      BY <1>7, <1>8
    <3> QED
      BY <1>5, <1>10, <3>1 DEF Placed
  <2>3. call' = Tail(call) /\ ret' \in Answers /\ ret'.p = p
    <3>1. call' = Tail(call) /\ ret' = [p |-> p, nb |-> op.nb, fresh |-> FALSE]
      BY <1>4, <1>7 DEF Returns
    <3>2. FALSE \in BOOLEAN /\ op.nb \in Int
      BY <1>2
    <3> QED
      BY <1>8, <3>1, <3>2 DEF Answers
  <2>4. UNCHANGED <<heap, tcache, brk, setup, held>>
    BY DEF SysmallocMmap
  <2> QED
    BY <1>4, <1>5, <1>7, <1>11, <2>1, <2>2, <2>3, <2>4 DEF MapsNew
<1>13. op.at \in Mallocs \cup Askers \cup Reallocs \cup Memaligns
  BY <1>1, <1>2
<1>14. Good'
  BY <1>2, <1>9, <1>12, <1>13, MapServes
<1> QED
  BY <1>14 DEF Fine

LEMMA MremapMovesFine ==
  ASSUME Good, MremapMoves
  PROVE  Fine'
<1>1. call # << >> /\ op.at = "libc_realloc" /\ op.at \in Reallocs /\ op.p \in DOMAIN mapped
  BY DEF MremapMoves, AtMremap, At, op, Reallocs
<1>2. Above(op) /\ op.nb \in Nat /\ op \in Frames /\ Holds(op) = {op.p}
  BY <1>1, CallOp DEF Holds, Holders
<1>3. PICK o, size, n, v : /\ o = op.p /\ size = remapped_size(op.p, op.nb) /\ n = size \div PAGE
                           /\ v = mapped[op.p].prev_size
  OBVIOUS
<1>4. PICK i \in remap_places(o, op.nb) :
        /\ mapped' = With(Without(mapped, {o}), i * PAGE + v, [size |-> size - v, prev_size |-> v])
        /\ pages' = (pages \ own_pages(o)) \cup run(i, n)
        /\ mp' = [mp EXCEPT !.mmapped_mem = @ + size - total_size(o)]
        /\ Gives(i * PAGE + v)
  BY <1>3 DEF MremapMoves
<1>5. v \in Nat /\ total_size(o) \in Int /\ Mapped(mapped, pages)
  BY <1>1, <1>3, PartsOf, OwnPages DEF total_size
<1>6. size \in Nat /\ size - v >= op.nb + SIZE_SZ /\ n \in Nat /\ size = n * PAGE
  <2>1. PICK x : x = op.nb + v + SIZE_SZ
    OBVIOUS
  <2>2. x \in Nat /\ size = ALIGN_UP(x, PAGE)
    BY <1>2, <1>3, <1>5, <2>1, Units DEF remapped_size
  <2>3. size \in Nat /\ size >= x /\ n \in Nat /\ size = n * PAGE
    BY <1>3, <2>2, WholePages
  <2>4. PICK k : k = op.nb
    OBVIOUS
  <2> QED
    BY <1>2, <1>5, <2>1, <2>3, <2>4, Units
<1>7. PICK g, m : g = pages \ own(mapped, o) /\ m = Without(mapped, {o})
  OBVIOUS
<1>8. i \in Nat /\ i > 0 /\ run(i, n) \subseteq MMAP_PAGES /\ run(i, n) \cap g = {}
  <2>1. i \in Places(n, (MMAP_PAGES \ pages) \cup own(mapped, o))
    BY <1>3, <1>4, OwnIs DEF remap_places
  <2>2. i \in Nat /\ i > 0 /\ run(i, n) \subseteq MMAP_PAGES /\ run(i, n) \subseteq (MMAP_PAGES \ pages) \cup own(mapped, o)
    BY <2>1, PlacesAre
  <2> QED
    BY <1>7, <2>2
<1>9. Freed(m, g, {o})
  <2>1. pages \subseteq MMAP_PAGES /\ Given(chunk, mapped, Sbrk, pages)
    BY PartsOf DEF Good, Types
  <2>2. GoneAs(mapped, m, pages, g, o)
    BY <1>1, <1>3, <1>5, <1>7, Gone
  <2>3. o \in Own
    BY <1>2, <1>3 DEF Own
  <2>4. g \subseteq MMAP_PAGES
    BY <1>7, <2>1
  <2> QED
    BY <2>1, <2>2, <2>3, <2>4 DEF Freed, GoneAs
<1>10. PICK p, s : p = i * PAGE + v /\ s = size - v
  OBVIOUS
<1>11. p \in Nat /\ s \in Nat /\ s > 0 /\ v + s = size /\ s >= op.nb + SIZE_SZ
  <2>1. PICK b : b = i * PAGE
    OBVIOUS
  <2>2. b \in Nat
    BY <1>8, <2>1, PageSize
  <2>3. PICK k : k = op.nb
    OBVIOUS
  <2> QED
    BY <1>2, <1>5, <1>6, <1>10, <2>1, <2>2, <2>3, Units
<1>12. OneField(mp')
  <2>1. mp \in Params
    BY DEF Good, Types
  <2>2. PICK t : t = total_size(o)
    OBVIOUS
  <2>3. PICK b : b = mp.mmapped_mem + size - t
    OBVIOUS
  <2>4. b \in Int
    BY <1>5, <1>6, <2>1, <2>2, <2>3 DEF Params
  <2>5. mp' = [mp EXCEPT !.mmapped_mem = b]
    BY <1>4, <2>2, <2>3
  <2> QED
    BY <2>1, <2>4, <2>5 DEF OneField, Params
<1>13. MapsNew(m, g, i, n, p, s, v)
  <2>1. Pages(i, n, g)
    BY <1>6, <1>8 DEF Pages
  <2>2. Placed(i, n, p, s, v)
    BY <1>5, <1>6, <1>10, <1>11 DEF Placed
  <2>3. call' = Tail(call) /\ ret' \in Answers /\ ret'.p = p
    <3>1. call' = Tail(call) /\ ret' = [p |-> p, nb |-> 0, fresh |-> FALSE]
      BY <1>4, <1>10 DEF Gives
    <3>2. FALSE \in BOOLEAN /\ 0 \in Int
      OBVIOUS
    <3> QED
      BY <1>11, <3>1, <3>2 DEF Answers
  <2>4. UNCHANGED <<heap, tcache, brk, setup, held>>
    BY DEF MremapMoves
  <2>5. mapped' = With(m, p, [size |-> s, prev_size |-> v]) /\ pages' = g \cup run(i, n)
    BY <1>4, <1>7, <1>10, OwnIs
  <2> QED
    BY <1>8, <1>11, <1>12, <2>1, <2>2, <2>3, <2>4, <2>5 DEF MapsNew
<1>14. Good'
  BY <1>1, <1>2, <1>9, <1>13, MapServes
<1> QED
  BY <1>14 DEF Fine

-----------------------------------------------------------------------------
(* Chunks that are merged: _int_free                                       *)

(* The chunk p is joined to the one before it, q, unless q is p, and to    *)
(* the next one where Y has that.                                          *)
CanMerge(c, q, p, Y) ==
  /\ p \in DOMAIN c
  /\ q = p \/ (q \in DOMAIN c /\ p = q + c[q].size)
  /\ Y = {} \/ (Y = {p + c[p].size} /\ p + c[p].size \in DOMAIN c)

MergeEnd(c, p, Y) ==
  LET nx == p + c[p].size
  IN  IF Y = {} THEN nx ELSE nx + c[nx].size

IsMerge(c, d, q, p, Y) ==
  /\ DOMAIN d = (DOMAIN c \ ({p} \cup Y)) \cup {q} /\ Heads(d)
  /\ d[q].size = MergeEnd(c, p, Y) - q
  /\ \A a \in DOMAIN d \ {q} : d[a].size = c[a].size

WasMerged(c, d, q, p, Y, m, r, g) ==
  /\ Laid(d) /\ Given(d, m, r, g) /\ Keeps(c, m, d, m, {q, p} \cup Y)
  /\ q \in DOMAIN d

MergeBack(c, q, p, b) ==
  /\ DOMAIN b = (DOMAIN c \ {p}) \cup {q} /\ q \in DOMAIN b
  /\ b[q].size = p + c[p].size - q /\ \A a \in DOMAIN b \ {q} : b[a].size = c[a].size

LEMMA MergesBack ==
  ASSUME NEW c, Laid(c), NEW q, NEW p, CanMerge(c, q, p, {}), NEW m, NEW r, NEW g, Given(c, m, r, g)
  PROVE  \E b : MergeBack(c, q, p, b) /\ WasMerged(c, b, q, p, {}, m, r, g)
<1>1. p \in DOMAIN c /\ p \in Nat /\ c[p].size \in Nat
  BY LaidTypes DEF CanMerge
<1>2. CASE q = p
  <2>1. MergeBack(c, q, p, c)
    <3>1. p + c[p].size - q = c[p].size
      BY <1>1, <1>2
    <3> QED
      BY <1>1, <1>2, <3>1 DEF MergeBack
  <2>2. WasMerged(c, c, q, p, {}, m, r, g)
    <3>1. Keeps(c, m, c, m, {q, p} \cup {})
      BY NoOverlap, KeepsMore
    <3> QED
      BY <1>1, <1>2, <3>1 DEF WasMerged
  <2> QED
    BY <2>1, <2>2
<1>3. CASE q # p
  <2>1. q \in DOMAIN c /\ p = q + c[q].size
    BY <1>3 DEF CanMerge
  <2>2. PICK s : s = c[q].size + c[p].size
    OBVIOUS
  <2>3. q \in Nat /\ c[q].size \in Nat /\ s \in Nat
    BY <1>1, <2>1, <2>2, LaidTypes
  <2>4. PICK e, b : e = Without(c, {p}) /\ b = With(e, q, Head2(s))
    OBVIOUS
  <2>5. Heads(e) /\ DOMAIN e = DOMAIN c \ {p}
    BY <2>4, HeadsWithout DEF Laid, Heads
  <2>6. IsNew(e, b, q, s)
    BY <2>3, <2>4, <2>5, HeadersNew
  <2>7. \A a \in DOMAIN e : e[a] = c[a]
    BY <2>4 DEF Without
  <2>8. DOMAIN b = (DOMAIN c \ {p}) \cup {q} /\ q \in DOMAIN b /\ b[q].size = s
        /\ \A a \in DOMAIN b \ {q} : b[a].size = c[a].size
    BY <2>5, <2>6, <2>7 DEF IsNew
  <2>9. MergeBack(c, q, p, b)
    <3>1. s = p + c[p].size - q
      BY <1>1, <2>1, <2>2, <2>3
    <3> QED
      BY <2>8, <3>1 DEF MergeBack
  <2>10. IsJoin(c, b, q)
    <3>1. DOMAIN b = DOMAIN c \ {p}
      BY <1>3, <2>1, <2>8
    <3>2. b \in [DOMAIN b -> Headers]
      BY <2>6 DEF IsNew
    <3>3. \A a \in DOMAIN b \ {q} : b[a].size = c[a].size
      BY <2>8
    <3> QED
      BY <2>1, <2>2, <2>8, <3>1, <3>2, <3>3 DEF IsJoin
  <2>11. CanJoin(c, q, p)
    BY <1>1, <2>1 DEF CanJoin
  <2>12. WasJoined(c, b, q, p, m, r, g)
    BY <2>10, <2>11, JoinLaid
  <2>13. WasMerged(c, b, q, p, {}, m, r, g)
    <3>1. {q, p} \cup {} = {q, p}
      OBVIOUS
    <3> QED
      BY <2>12, <3>1 DEF WasMerged, WasJoined
  <2> QED
    BY <2>9, <2>13
<1> QED
  BY <1>2, <1>3

LEMMA Merges ==
  ASSUME NEW c, Laid(c), NEW d, NEW q, NEW p, NEW Y, CanMerge(c, q, p, Y), IsMerge(c, d, q, p, Y),
         NEW m, NEW r, NEW g, Given(c, m, r, g)
  PROVE  WasMerged(c, d, q, p, Y, m, r, g)
<1>1. CanMerge(c, q, p, {})
  BY DEF CanMerge
<1>2. PICK b : MergeBack(c, q, p, b) /\ WasMerged(c, b, q, p, {}, m, r, g)
  BY <1>1, MergesBack
<1>3. Laid(b) /\ Given(b, m, r, g) /\ Keeps(c, m, b, m, {q, p}) /\ q \in DOMAIN b
  <2>1. {q, p} \cup {} = {q, p}
    OBVIOUS
  <2> QED
    BY <1>2, <2>1 DEF WasMerged
<1>4. p \in DOMAIN c /\ p \in Nat /\ c[p].size \in Nat /\ c[p].size > 0 /\ q \in Nat /\ q \in DOMAIN c
  <2>1. p \in DOMAIN c /\ q \in DOMAIN c
    BY DEF CanMerge
  <2>2. PICK s : s = c[p].size
    OBVIOUS
  <2>3. s \in Nat /\ s >= 2 * SIZE_SZ
    BY <2>1, <2>2, LaidTypes
  <2> QED
    BY <2>1, <2>2, <2>3, LaidTypes, Units
<1>5. PICK nx : nx = p + c[p].size
  OBVIOUS
<1>6. nx \in Nat /\ nx # p /\ nx # q
  <2>1. PICK s : s = c[p].size
    OBVIOUS
  <2>2. nx \in Nat /\ nx > p
    BY <1>4, <1>5, <2>1
  <2>3. q <= p
    <3>1. CASE q = p
      BY <1>4, <3>1
    <3>2. CASE q # p
      <4>1. PICK t : t = c[q].size
        OBVIOUS
      <4>2. t \in Nat /\ p = q + t
        BY <1>4, <3>2, <4>1, LaidTypes DEF CanMerge
      <4> QED
        BY <1>4, <4>2
    <3> QED
      BY <3>1, <3>2
  <2> QED
    BY <1>4, <2>2, <2>3
<1>7. b[q].size = nx - q /\ q + b[q].size = nx
  <2>1. b[q].size = nx - q
    BY <1>2, <1>4, <1>5 DEF MergeBack
  <2>2. PICK t : t = b[q].size
    OBVIOUS
  <2> QED
    BY <1>4, <1>6, <2>1, <2>2
<1>8. CASE Y = {}
  <2>1. SameSizes(b, d)
    <3>1. DOMAIN d = DOMAIN b
      BY <1>2, <1>8 DEF MergeBack, IsMerge
    <3>2. d[q].size = b[q].size
      BY <1>5, <1>7, <1>8 DEF IsMerge, MergeEnd
    <3>3. \A a \in DOMAIN b \ {q} : d[a].size = b[a].size
      BY <1>2, <3>1 DEF MergeBack, IsMerge
    <3> QED
      BY <3>1, <3>2, <3>3 DEF SameSizes, IsMerge, Heads
  <2>2. Laid(d) /\ Given(d, m, r, g) /\ Keeps(b, m, d, m, {})
    BY <1>3, <2>1, SameLaid
  <2>3. Keeps(c, m, d, m, {q, p} \cup Y)
    BY <1>3, <1>8, <2>2, KeepsTwice
  <2>4. q \in DOMAIN d
    BY <1>3, <2>1 DEF SameSizes
  <2> QED
    BY <2>2, <2>3, <2>4, Zenon DEF WasMerged
<1>9. CASE Y # {}
  <2>1. Y = {nx} /\ nx \in DOMAIN c
    BY <1>5, <1>9 DEF CanMerge
  <2>2. nx \in DOMAIN b /\ b[nx].size = c[nx].size /\ c[nx].size \in Nat
    BY <1>2, <1>6, <2>1, LaidTypes DEF MergeBack
  <2>3. CanJoin(b, q, nx)
    BY <1>3, <1>7, <2>2 DEF CanJoin
  <2>4. IsJoin(b, d, q)
    <3>1. DOMAIN d = DOMAIN b \ {nx}
      <4>1. DOMAIN d = (DOMAIN c \ ({p} \cup {nx})) \cup {q}
        BY <2>1 DEF IsMerge
      <4>2. DOMAIN b = (DOMAIN c \ {p}) \cup {q}
        BY <1>2 DEF MergeBack
      <4> QED
        BY <1>6, <4>1, <4>2
    <3>2. d[q].size = b[q].size + b[nx].size
      <4>1. PICK s : s = c[nx].size
        OBVIOUS
      <4>2. PICK e : e = MergeEnd(c, p, Y)
        OBVIOUS
      <4>3. e = nx + s
        BY <1>5, <1>9, <4>1, <4>2 DEF MergeEnd
      <4>4. d[q].size = e - q
        BY <4>2 DEF IsMerge
      <4>5. e - q = (nx - q) + s
        BY <1>4, <1>6, <2>2, <4>1, <4>3
      <4> QED
        BY <1>7, <2>2, <4>1, <4>4, <4>5
    <3>3. \A a \in DOMAIN d \ {q} : d[a].size = b[a].size
      BY <1>2, <3>1 DEF MergeBack, IsMerge
    <3> QED
      BY <1>7, <3>1, <3>2, <3>3 DEF IsJoin, IsMerge, Heads
  <2>5. WasJoined(b, d, q, nx, m, r, g)
    BY <1>3, <2>3, <2>4, JoinLaid
  <2>6. Keeps(c, m, d, m, {q, p} \cup Y)
    <3>1. Keeps(c, m, d, m, {q, p} \cup {q, nx})
      BY <1>3, <2>5, KeepsTwice DEF WasJoined
    <3>2. {q, p} \cup {q, nx} = {q, p} \cup Y
      BY <2>1
    <3> QED
      BY <3>1, <3>2
  <2>7. Laid(d) /\ Given(d, m, r, g) /\ q \in DOMAIN d
    BY <2>5, Zenon DEF WasJoined
  <2> QED
    BY <2>6, <2>7, Zenon DEF WasMerged
<1> QED
  BY <1>8, <1>9

(* A chunk that is merged with its free neighbours and top.                *)
Mergeable(p) ==
  p \in InFast \cup OnCall /\ p \in DOMAIN chunk /\ Aligned(chunk[p].size) /\ merge_ok(p)

Took(p) == IF merges_fore(p) \/ next_chunk(p) = av.top THEN {next_chunk(p)} ELSE {}

MergesWith(p, q, nx, Y) ==
  /\ CanMerge(chunk, q, p, Y) /\ nx \in DOMAIN chunk /\ nx # p /\ nx # q
  /\ q = IF merges_back(p) THEN prev_chunk(p) ELSE p
  /\ merges_back(p) => q \in InBins
  /\ Y = IF merges_fore(p) \/ nx = av.top THEN {nx} ELSE {}
  /\ merges_fore(p) => nx \in InBins /\ nx # av.top
  /\ p \notin InBins /\ p # av.top /\ nx = p + chunk[p].size

LEMMA Merging ==
  ASSUME Good, NEW p, Mergeable(p)
  PROVE  MergesWith(p, merged_at(p), next_chunk(p), Took(p))
<1>1. PICK q, nx, Y : q = merged_at(p) /\ nx = next_chunk(p) /\ Y = Took(p)
  OBVIOUS
<1>2. /\ Parted(av.top, InCache, InFast, InBins, OnCall, Returned, Still, Block)
      /\ Linked(Owned, chunk, mapped) /\ Laid(chunk) /\ Given(chunk, mapped, Sbrk, pages)
  BY PartsOf
<1>3. p \in DOMAIN chunk /\ p \notin DOMAIN mapped /\ p \in Nat /\ p \notin InBins /\ p # av.top
      /\ p \in Owned
  <2>1. p \in DOMAIN chunk /\ p \in InFast \cup OnCall
    BY DEF Mergeable
  <2>2. p \notin DOMAIN mapped
    BY <1>2, <2>1, NoMapping
  <2>3. p \notin InBins /\ p # av.top /\ p \in Owned
    BY <1>2, <2>1 DEF Parted, Owned
  <2> QED
    BY <1>2, <2>1, <2>2, <2>3, LaidTypes
<1>4. nx \in DOMAIN chunk /\ nx = p + chunk[p].size
  BY <1>1, <1>2, <1>3 DEF Linked, next_chunk
<1>5. chunk[p].size \in Nat /\ chunk[p].size > 0
  <2>1. PICK s : s = chunk[p].size
    OBVIOUS
  <2>2. s \in Nat /\ s >= 2 * SIZE_SZ
    BY <1>2, <1>3, <2>1, LaidTypes
  <2> QED
    BY <2>1, <2>2, Units
<1>6. q = IF merges_back(p) THEN prev_chunk(p) ELSE p
  BY <1>1 DEF merged_at
<1>7. Y = IF merges_fore(p) \/ nx = av.top THEN {nx} ELSE {}
  BY <1>1 DEF Took
<1>8. ASSUME NEW v \in neighbours(p) PROVE v \in InBins
  <2>1. InSome(av.bins, v)
    BY DEF Mergeable, merge_ok, unlink_ok
  <2> QED
    BY <2>1, UnlinkedLeaves DEF LeavesBins
<1>9. merges_fore(p) => nx \in InBins /\ nx # av.top
  BY <1>1, <1>8 DEF neighbours, merges_fore
<1>10. merges_back(p) => q \in InBins /\ q \in DOMAIN chunk /\ chunk[q].size = chunk[p].prev_size
  BY <1>6, <1>8 DEF neighbours, Mergeable, merge_ok
<1>11. merges_back(p) => p = q + chunk[q].size /\ q <= p
  <2> SUFFICES ASSUME merges_back(p) PROVE p = q + chunk[q].size /\ q <= p
    OBVIOUS
  <2>1. PICK s : s = chunk[q].size
    OBVIOUS
  <2>2. s \in Nat /\ q \in Nat
    BY <1>2, <1>10, <2>1, LaidTypes
  <2>3. q = p - s
    BY <1>6, <1>10, <2>1 DEF prev_chunk
  <2> QED
    BY <1>3, <2>1, <2>2, <2>3
<1>12. nx # p /\ nx # q
  <2>1. PICK s : s = chunk[p].size
    OBVIOUS
  <2>2. nx = p + s /\ s \in Nat /\ s > 0
    BY <1>4, <1>5, <2>1
  <2>3. q \in Nat /\ q <= p
    BY <1>2, <1>3, <1>6, <1>10, <1>11, LaidTypes
  <2> QED
    BY <1>3, <2>2, <2>3
<1>13. CanMerge(chunk, q, p, Y)
  <2>1. q = p \/ (q \in DOMAIN chunk /\ p = q + chunk[q].size)
    BY <1>6, <1>10, <1>11
  <2>2. Y = {} \/ (Y = {p + chunk[p].size} /\ p + chunk[p].size \in DOMAIN chunk)
    BY <1>4, <1>7
  <2> QED
    BY <1>3, <2>1, <2>2 DEF CanMerge
<1>14. merges_back(p) => q \in InBins
  BY <1>10
<1>15. MergesWith(p, q, nx, Y)
  BY <1>3, <1>4, <1>6, <1>7, <1>9, <1>12, <1>13, <1>14 DEF MergesWith
<1> QED
  BY <1>1, <1>15

(* What the chunk that is made is like.                                    *)
LEMMA MergedSize ==
  ASSUME Good, NEW p, Mergeable(p), NEW q, q = merged_at(p), NEW nx, nx = next_chunk(p),
         NEW Y, Y = Took(p)
  PROVE  /\ merged_size(p) = MergeEnd(chunk, p, Y) - q /\ merged_size(p) \in Nat
         /\ q + merged_size(p) = MergeEnd(chunk, p, Y) /\ q \in Nat
         /\ (nx # av.top => Aligned(merged_size(p)))
<1>1. MergesWith(p, q, nx, Y)
  BY Merging
<1>2. Laid(chunk)
  BY PartsOf
<1>3. p \in DOMAIN chunk /\ nx \in DOMAIN chunk /\ q \in DOMAIN chunk
  BY <1>1 DEF MergesWith, CanMerge
<1>4. PICK s, t, v : s = chunk[p].size /\ t = chunk[nx].size /\ v = chunk[q].size
  OBVIOUS
<1>5. p \in Nat /\ q \in Nat /\ nx \in Nat /\ s \in Nat /\ t \in Nat /\ v \in Nat
  BY <1>2, <1>3, <1>4, LaidTypes
<1>6. nx = p + s
  BY <1>1, <1>4 DEF MergesWith
<1>7. MergeEnd(chunk, p, Y) = IF Y = {} THEN nx ELSE nx + t
  BY <1>4, <1>6 DEF MergeEnd
<1>8. Y = {} <=> ~(merges_fore(p) \/ nx = av.top)
  BY <1>1 DEF MergesWith
<1>9. PICK f : f = IF merges_fore(p) \/ nx = av.top THEN t ELSE 0
  OBVIOUS
<1>10. f \in Nat /\ MergeEnd(chunk, p, Y) = p + s + f
  BY <1>5, <1>6, <1>7, <1>8, <1>9
<1>11. PICK b : b = IF merges_back(p) THEN chunk[p].prev_size ELSE 0
  OBVIOUS
<1>12. b = IF merges_back(p) THEN v ELSE 0
  BY <1>1, <1>4, <1>11 DEF MergesWith, Mergeable, merge_ok
<1>13. b \in Nat /\ p = q + b
  <2>1. CASE merges_back(p)
    <3>1. q # p => p = q + v
      BY <1>1, <1>4 DEF MergesWith, CanMerge
    <3>2. q # p
      BY <1>1, <2>1 DEF MergesWith
    <3> QED
      BY <1>5, <1>12, <2>1, <3>1, <3>2
  <2>2. CASE ~merges_back(p)
    BY <1>1, <1>5, <1>12, <2>2 DEF MergesWith
  <2> QED
    BY <2>1, <2>2
<1>14. PICK z : z = merged_size(p)
  OBVIOUS
<1>15. z = s + b + f
  BY <1>4, <1>9, <1>11, <1>14 DEF merged_size
<1>16. z \in Nat /\ q + z = p + s + f /\ z = (p + s + f) - q
  BY <1>5, <1>10, <1>13, <1>15
<1>17. nx # av.top => Aligned(z)
  <2> SUFFICES ASSUME nx # av.top PROVE Aligned(z)
    OBVIOUS
  <2>1. Aligned(s)
    BY <1>4 DEF Mergeable
  <2>2. PICK y : y = s + b
    OBVIOUS
  <2>3. Aligned(y)
    <3>1. CASE merges_back(p)
      <4>1. Aligned(v)
        BY <1>1, <1>4, <3>1, Listed DEF MergesWith
      <4> QED
        BY <1>12, <2>1, <2>2, <3>1, <4>1, AlignedSum
    <3>2. CASE ~merges_back(p)
      BY <1>5, <1>12, <2>1, <2>2, <3>2
    <3> QED
      BY <3>1, <3>2
  <2>4. z = y + f /\ y \in Nat
    BY <1>5, <1>13, <1>15, <2>2
  <2>5. CASE merges_fore(p)
    <3>1. Aligned(t)
      BY <1>1, <1>4, <2>5, Listed DEF MergesWith
    <3> QED
      BY <1>9, <2>3, <2>4, <2>5, <3>1, AlignedSum
  <2>6. CASE ~merges_fore(p)
    BY <1>9, <2>3, <2>4, <2>6
  <2> QED
    BY <2>5, <2>6
<1> QED
  BY <1>5, <1>10, <1>14, <1>16, <1>17

(* The bins without the neighbours that are merged.                        *)
LeftBins(p) ==
  LET back == IF merges_back(p) THEN unlinked(av.bins, prev_chunk(p)) ELSE av.bins
  IN  IF merges_fore(p) THEN unlinked(back, next_chunk(p)) ELSE back

LEMMA BinsLeft ==
  ASSUME Good, NEW p, NEW q, NEW nx, NEW Y, MergesWith(p, q, nx, Y), NEW k, k = LeftBins(p),
         nx = next_chunk(p)
  PROVE  /\ Family(k, Bins) /\ BinsOK(k, chunk) /\ Elements(k) \subseteq InBins
         /\ Elements(k) \cap ({q, p} \cup Y) = {}
<1>1. Family(av.bins, Bins) /\ BinsOK(av.bins, chunk) /\ Elements(av.bins) = InBins
  BY PartsOf DEF InBins
<1>2. av.top \notin InBins
  BY PartsOf DEF Parted
<1>3. PICK b : b = IF merges_back(p) THEN unlinked(av.bins, prev_chunk(p)) ELSE av.bins
  OBVIOUS
<1>4. Family(b, Bins) /\ BinsOK(b, chunk) /\ Elements(b) = IF merges_back(p) THEN InBins \ {prev_chunk(p)} ELSE InBins
  <2>1. CASE merges_back(p)
    BY <1>1, <1>3, <2>1, Unlinked
  <2>2. CASE ~merges_back(p)
    BY <1>1, <1>3, <2>2
  <2> QED
    BY <2>1, <2>2
<1>5. k = IF merges_fore(p) THEN unlinked(b, nx) ELSE b
  BY <1>3 DEF LeftBins
<1>6. Family(k, Bins) /\ BinsOK(k, chunk) /\ Elements(k) = IF merges_fore(p) THEN Elements(b) \ {nx} ELSE Elements(b)
  <2>1. CASE merges_fore(p)
    BY <1>4, <1>5, <2>1, Unlinked
  <2>2. CASE ~merges_fore(p)
    BY <1>4, <1>5, <2>2
  <2> QED
    BY <2>1, <2>2
<1>7. p \notin InBins /\ (merges_back(p) => q = prev_chunk(p)) /\ (~merges_back(p) => q = p)
      /\ (Y = {} \/ (Y = {nx} /\ (merges_fore(p) \/ nx = av.top)))
  BY DEF MergesWith
<1>8. Elements(k) \subseteq InBins
  BY <1>4, <1>6
<1>9. q \notin Elements(k) /\ p \notin Elements(k)
  BY <1>4, <1>6, <1>7
<1>10. Y \cap Elements(k) = {}
  BY <1>2, <1>4, <1>6, <1>7
<1> QED
  BY <1>6, <1>8, <1>9, <1>10

(* The headers after the merging.                                          *)
MergedInto(p, q, nx, Y) ==
  /\ WasMerged(chunk, chunk', q, p, Y, mapped, Sbrk, pages)
  /\ chunk'[q].size = merged_size(p)
  /\ nx # av.top => Linked({q}, chunk', mapped)

LEMMA MergedHeap ==
  ASSUME Good, NEW p, Mergeable(p), chunk' = merged_chunks(p)
  PROVE  MergedInto(p, merged_at(p), next_chunk(p), Took(p))
<1>1. PICK q, nx, Y : q = merged_at(p) /\ nx = next_chunk(p) /\ Y = Took(p)
  OBVIOUS
<1>2. MergesWith(p, q, nx, Y)
  BY <1>1, Merging
<1>3. PICK z : z = merged_size(p)
  OBVIOUS
<1>4. z = MergeEnd(chunk, p, Y) - q /\ z \in Nat /\ q + z = MergeEnd(chunk, p, Y)
  BY <1>1, <1>3, MergedSize
<1>5. Laid(chunk) /\ Heads(chunk) /\ Given(chunk, mapped, Sbrk, pages) /\ Linked(Owned, chunk, mapped)
  BY PartsOf
<1>6. PICK R : R = {p, nx} \cap ({p} \cup neighbours(p) \cup {av.top})
  OBVIOUS
<1>7. R = {p} \cup Y
  <2>1. nx \in neighbours(p) <=> merges_fore(p)
    <3>1. merges_back(p) => prev_chunk(p) # nx
      BY <1>2 DEF MergesWith
    <3> QED
      BY <1>1, <3>1 DEF neighbours
  <2>2. nx # p
    BY <1>2 DEF MergesWith
  <2>3. Y = IF merges_fore(p) \/ nx = av.top THEN {nx} ELSE {}
    BY <1>2 DEF MergesWith
  <2> QED
    BY <1>6, <2>1, <2>2, <2>3
<1>8. PICK e : e = Without(chunk, {p} \cup Y)
  OBVIOUS
<1>9. Heads(e) /\ DOMAIN e = DOMAIN chunk \ ({p} \cup Y)
  BY <1>5, <1>8, HeadsWithout
<1>10. PICK d : d = chunk'
  OBVIOUS
<1>11. d = IF nx = av.top THEN With(e, q, Head2(z)) ELSE set_free(e, q, z)
  BY <1>1, <1>3, <1>6, <1>7, <1>8, <1>10 DEF merged_chunks
<1>12. IsNew(e, d, q, z)
  <2>1. CASE nx = av.top
    BY <1>4, <1>9, <1>11, <2>1, HeadersNew
  <2>2. CASE nx # av.top
    BY <1>4, <1>9, <1>11, <2>2, FootBits
  <2> QED
    BY <2>1, <2>2
<1>13. \A a \in DOMAIN e : e[a].size = chunk[a].size
  BY <1>8 DEF Without
<1>14. IsMerge(chunk, d, q, p, Y)
  <2>1. DOMAIN d = (DOMAIN chunk \ ({p} \cup Y)) \cup {q}
    BY <1>9, <1>12 DEF IsNew
  <2>2. Heads(d) /\ d[q].size = z
    BY <1>12 DEF IsNew, Heads
  <2>3. \A a \in DOMAIN d \ {q} : d[a].size = chunk[a].size
    BY <1>12, <1>13 DEF IsNew
  <2> QED
    BY <1>4, <2>1, <2>2, <2>3 DEF IsMerge
<1>15. CanMerge(chunk, q, p, Y)
  BY <1>2 DEF MergesWith
<1>16. WasMerged(chunk, d, q, p, Y, mapped, Sbrk, pages)
  BY <1>5, <1>14, <1>15, Merges
<1>17. d[q].size = z /\ q \in DOMAIN d
  BY <1>12 DEF IsNew
<1>18. nx # av.top => Linked({q}, d, mapped)
  <2> SUFFICES ASSUME nx # av.top PROVE q + z \in DOMAIN d
    BY <1>17 DEF Linked
  <2>1. DOMAIN d = (DOMAIN chunk \ ({p} \cup Y)) \cup {q}
    BY <1>9, <1>12 DEF IsNew
  <2>2. nx \in DOMAIN chunk /\ nx # p /\ nx = p + chunk[p].size
    BY <1>2 DEF MergesWith
  <2>3. CASE Y = {}
    <3>1. q + z = nx
      BY <1>4, <2>2, <2>3 DEF MergeEnd
    <3> QED
      BY <2>1, <2>2, <2>3, <3>1
  <2>4. CASE Y # {}
    <3>1. Y = {nx} /\ nx \in InBins
      BY <1>2, <2>4 DEF MergesWith
    <3>2. PICK t, s : t = chunk[nx].size /\ s = chunk[p].size
      OBVIOUS
    <3>3. nx + t \in DOMAIN chunk
      BY <1>5, <3>1, <3>2, Listed DEF Linked, Owned
    <3>4. MergeEnd(chunk, p, Y) = nx + t
      BY <2>2, <2>4, <3>2 DEF MergeEnd
    <3>5. nx + t # p /\ nx + t # nx
      <4>1. p \in DOMAIN chunk
        BY <1>15 DEF CanMerge
      <4>2. t \in Nat /\ s \in Nat /\ p \in Nat /\ nx \in Nat /\ t >= 2 * SIZE_SZ /\ s >= 2 * SIZE_SZ
        BY <1>5, <2>2, <3>2, <4>1, LaidTypes
      <4> QED
        BY <2>2, <3>2, <4>2, Units
    <3> QED
      BY <1>4, <2>1, <3>1, <3>3, <3>4, <3>5
  <2> QED
    BY <2>3, <2>4
<1>19. MergedInto(p, q, nx, Y)
  BY <1>3, <1>10, <1>16, <1>17, <1>18 DEF MergedInto
<1> QED
  BY <1>1, <1>19

(* The arena before the merging: p has left the fastbins.                  *)
ArenaWithout(a, p) ==
  /\ a \in Arenas /\ a.bins = av.bins /\ a.top = av.top /\ FastOK(a.fastbins, chunk)
  /\ Elements(a.fastbins) \subseteq InFast \ {p}

(* The arena and the bins afterwards; E is the chunk that is put on the    *)
(* unsorted list, if any.                                                  *)
MergedArena(X, q, E) ==
  /\ av' \in Arenas /\ BinsOK(av'.bins, chunk')
  /\ Elements(av'.bins) \subseteq (InBins \ X) \cup E /\ Linked(E, chunk', mapped)
  /\ (E = {} /\ av'.top = q) \/ (E = {q} /\ av'.top = av.top /\ av.top \notin X)
  /\ av'.top \in DOMAIN chunk' \cup {NULL}

LEMMA ArenaMerges ==
  ASSUME Good, NEW p, Mergeable(p), chunk' = merged_chunks(p), NEW a, ArenaWithout(a, p),
         av' = merged_arena(p, a), mapped' = mapped,
         NEW X, X = {merged_at(p), p} \cup Took(p)
  PROVE  \E E : MergedArena(X, merged_at(p), E) /\ av'.fastbins = a.fastbins
<1>1. PICK q, nx, Y : q = merged_at(p) /\ nx = next_chunk(p) /\ Y = Took(p)
  OBVIOUS
<1>2. MergesWith(p, q, nx, Y) /\ MergedInto(p, q, nx, Y)
  BY <1>1, Merging, MergedHeap
<1>3. PICK k : k = LeftBins(p)
  OBVIOUS
<1>4. X = {q, p} \cup Y
  BY <1>1
<1>5. Family(k, Bins) /\ BinsOK(k, chunk) /\ Elements(k) \subseteq InBins /\ Elements(k) \cap X = {}
  BY <1>1, <1>2, <1>3, <1>4, BinsLeft
<1>6. PICK d : d = chunk'
  OBVIOUS
<1>7. Laid(d) /\ Keeps(chunk, mapped, d, mapped, X) /\ q \in DOMAIN d
  BY <1>2, <1>4, <1>6 DEF MergedInto, WasMerged
<1>8. BinsOK(k, d)
  BY <1>5, <1>7, KeptBins
<1>9. av' = IF nx = av.top THEN [a EXCEPT !.bins = k, !.top = q]
            ELSE [a EXCEPT !.bins = on_unsorted(k, q)]
  BY <1>1, <1>3 DEF merged_arena, ArenaWithout, LeftBins
<1>10. a \in Arenas /\ a.top = av.top /\ q \in Nat
  BY <1>7, LaidTypes DEF ArenaWithout
<1>11. CASE nx = av.top
  <2>1. av' = [[a EXCEPT !.bins = k] EXCEPT !.top = q]
    BY <1>9, <1>10, <1>11 DEF Arenas
  <2>2. PICK b : b = [a EXCEPT !.bins = k]
    OBVIOUS
  <2>3. b \in Arenas /\ b.bins = k /\ b.fastbins = a.fastbins
    BY <1>5, <1>10, <2>2 DEF Arenas, Family
  <2>4. av' \in Arenas /\ av'.bins = k /\ av'.fastbins = a.fastbins /\ av'.top = q
    BY <1>10, <2>1, <2>2, <2>3 DEF Arenas
  <2>5. Elements(av'.bins) \subseteq (InBins \ X) \cup {}
    BY <1>5, <2>4
  <2>6. Linked({}, chunk', mapped)
    BY DEF Linked
  <2>7. MergedArena(X, q, {})
    BY <1>6, <1>7, <1>8, <2>4, <2>5, <2>6 DEF MergedArena
  <2> QED
    BY <1>1, <2>4, <2>7
<1>12. CASE nx # av.top
  <2>1. PICK l : l = on_unsorted(k, q)
    OBVIOUS
  <2>2. Aligned(d[q].size)
    BY <1>1, <1>2, <1>6, <1>12, MergedSize DEF MergedInto
  <2>3. q \notin Elements(k)
    BY <1>4, <1>5
  <2>4. Family(l, Bins) /\ BinsOK(l, d) /\ Elements(l) = Elements(k) \cup {q}
    BY <1>5, <1>7, <1>8, <1>10, <2>1, <2>2, <2>3, OnUnsorted
  <2>5. av' = [a EXCEPT !.bins = l]
    BY <1>9, <1>12, <2>1
  <2>6. av' \in Arenas /\ av'.bins = l /\ av'.fastbins = a.fastbins /\ av'.top = av.top
    BY <1>10, <2>4, <2>5 DEF Arenas, Family
  <2>7. av.top \notin X
    <3>1. p # av.top /\ q # av.top
      <4>1. av.top \notin InBins
        BY PartsOf DEF Parted
      <4> QED
        BY <1>2, <4>1 DEF MergesWith
    <3>2. av.top \notin Y
      BY <1>2, <1>12 DEF MergesWith
    <3> QED
      BY <1>4, <3>1, <3>2
  <2>8. av'.top \in DOMAIN d \cup {NULL}
    BY <1>7, <2>6, <2>7, PartsOf DEF Keeps
  <2>9. Linked({q}, d, mapped)
    BY <1>2, <1>6, <1>12 DEF MergedInto
  <2>10. Elements(av'.bins) \subseteq (InBins \ X) \cup {q}
    BY <1>5, <2>4, <2>6
  <2>11. MergedArena(X, q, {q})
    BY <1>6, <2>4, <2>6, <2>7, <2>8, <2>9, <2>10 DEF MergedArena
  <2> QED
    BY <1>1, <2>6, <2>11
<1> QED
  BY <1>11, <1>12

(* The calls that do without p.                                            *)
CallsWithout(p) ==
  /\ Legal(call', chunk, mapped, held) /\ Base(call').p = Base(call).p
  /\ OnCall' \subseteq OnCall \ {p} /\ Returned' \subseteq Returned
  /\ ret' \in Answers /\ Failed' = {} /\ RetOK' /\ HeadOK'

LEMMA MergeFine ==
  ASSUME Good, NEW p, Mergeable(p), chunk' = merged_chunks(p), NEW a, ArenaWithout(a, p),
         av' = merged_arena(p, a), UNCHANGED <<tcache, rest>>, CallsWithout(p)
  PROVE  Good'
<1>1. /\ Parted(av.top, InCache, InFast, InBins, OnCall, Returned, Still, Block)
      /\ Linked(Owned, chunk, mapped) /\ Mapped(mapped, pages)
      /\ CacheOK(tcache.entries, chunk)
  BY PartsOf
<1>2. /\ mapped' = mapped /\ brk' = brk /\ pages' = pages /\ setup' = setup /\ held' = held
      /\ mp' = mp /\ tcache' = tcache
  BY DEF rest, system
<1>3. PICK q, nx, Y : q = merged_at(p) /\ nx = next_chunk(p) /\ Y = Took(p)
  OBVIOUS
<1>4. MergesWith(p, q, nx, Y) /\ MergedInto(p, q, nx, Y)
  BY <1>3, Merging, MergedHeap
<1>5. PICK X : X = {q, p} \cup Y
  OBVIOUS
<1>6. PICK E : MergedArena(X, q, E) /\ av'.fastbins = a.fastbins
  BY <1>2, <1>3, <1>5, ArenaMerges
<1>7. PICK d : d = chunk'
  OBVIOUS
<1>8. Laid(d) /\ Given(d, mapped, Sbrk, pages) /\ Keeps(chunk, mapped, d, mapped, X)
  BY <1>4, <1>5, <1>7 DEF MergedInto, WasMerged
<1>9. X \subseteq {p} \cup InBins \cup {av.top} /\ p \in InFast \cup OnCall /\ q \in X /\ q \in {p} \cup InBins
  <2>1. q \in {p} \cup InBins /\ Y \subseteq InBins \cup {av.top}
    BY <1>4 DEF MergesWith
  <2> QED
    BY <1>5, <2>1 DEF Mergeable
<1>10. PICK F, B : F = InFast' /\ B = InBins'
  OBVIOUS
<1>11. InCache' = InCache /\ Block' = Block /\ Still' = Still /\ F \subseteq InFast \ {p}
  <2>1. Base(call').p = Base(call).p
    BY DEF CallsWithout
  <2> QED
    BY <1>2, <1>6, <1>10, <2>1 DEF InCache, Block, Still, InFast, ArenaWithout
<1>12. B \subseteq (InBins \ X) \cup E /\ E \subseteq {q}
  BY <1>6, <1>10 DEF MergedArena, InBins
<1>13. X \cap (InCache \cup Still \cup Block \cup F) = {}
  BY <1>1, <1>9, <1>11 DEF Parted
<1>14. PICK T, Q, t : T = OnCall' /\ Q = Returned' /\ t = av'.top
  OBVIOUS
<1>15. T \subseteq OnCall \ {p} /\ Q \subseteq Returned /\ T \cap X = {} /\ Q \cap X = {}
  <2>1. T \subseteq OnCall \ {p} /\ Q \subseteq Returned
    BY <1>14 DEF CallsWithout
  <2> QED
    BY <1>1, <1>9, <2>1 DEF Parted
<1>16. ListsOK'
  <2>1. CacheOK(tcache.entries, d)
    <3>1. Elements(tcache.entries) \cap X = {}
      BY <1>13 DEF InCache
    <3> QED
      BY <1>1, <1>8, <3>1, KeptCache
  <2>2. FastOK(a.fastbins, d)
    <3>1. Elements(a.fastbins) \cap X = {}
      BY <1>6, <1>10, <1>13 DEF InFast
    <3> QED
      BY <1>8, <3>1, KeptFast DEF ArenaWithout
  <2> QED
    BY <1>2, <1>6, <1>7, <2>1, <2>2 DEF ListsOK, MergedArena
<1>17. Types'
  BY <1>2, <1>6 DEF Good, Types, BRK_START, BRK_LIMIT, MMAP_PAGES, MergedArena, CallsWithout
<1>18. HeapOK'
  <2>1. Sbrk' = Sbrk
    BY <1>2 DEF Sbrk, BRK_START
  <2> QED
    BY <1>1, <1>2, <1>6, <1>7, <1>8, <2>1 DEF HeapOK, MergedArena
<1>19. Legal(call', d, mapped, held)
  <2>1. Legal(call', chunk, mapped, held)
    BY DEF CallsWithout
  <2>2. OnStack(call') \cap X = {}
    BY <1>14, <1>15 DEF OnCall
  <2> QED
    BY <1>8, <2>1, <2>2, KeptStack
<1>20. Owned' \subseteq (Owned \ X) \cup E
  BY <1>10, <1>11, <1>12, <1>13, <1>14, <1>15 DEF Owned
<1>21. Parted(av.top, InCache, InFast, InBins, OnCall, Returned, Still, Block)'
  <2>1. (t = q /\ E = {}) \/ (t = av.top /\ t \notin X /\ E = {q})
    BY <1>6, <1>14 DEF MergedArena
  <2>2. q \in X /\ B \subseteq (InBins \ X) \cup {q}
    BY <1>9, <1>12
  <2>3. t \notin InCache \cup F \cup B \cup T \cup Q \cup Still \cup Block
    BY <1>1, <1>9, <1>11, <1>12, <1>13, <1>15, <2>1, <2>2 DEF Parted
  <2>4. B \cap (InCache \cup F \cup T \cup Q \cup Still \cup Block) = {}
    BY <1>1, <1>11, <1>13, <1>15, <2>2 DEF Parted
  <2>5. Parted(t, InCache, F, B, T, Q, Still, Block)
    BY <1>1, <1>11, <1>15, <2>3, <2>4 DEF Parted
  <2> QED
    BY <1>10, <1>11, <1>14, <2>5
<1>22. Roomy(held, Failed', chunk', mapped') /\ held' = held /\ Still \cap X = {}
  BY <1>2, <1>13 DEF Roomy, CallsWithout
<1>23. Keeps(chunk, mapped, chunk', mapped', X) /\ Linked(E, chunk', mapped') /\ Legal(call, chunk, mapped, held)'
  BY <1>2, <1>6, <1>7, <1>8, <1>19 DEF MergedArena
<1>24. Base(call').p = Base(call).p /\ RetOK' /\ HeadOK'
  BY DEF CallsWithout
<1> QED
  BY <1>16, <1>17, <1>18, <1>20, <1>21, <1>22, <1>23, <1>24, Assemble, Zenon

-----------------------------------------------------------------------------
(* Chunks that are merged: malloc_consolidate                              *)

(* The first chunk of a fastbin leaves it.                                 *)
LEMMA FastTakes ==
  ASSUME Good, NEW i \in DOMAIN av.fastbins, av.fastbins[i] # << >>,
         NEW p, p = Head(av.fastbins[i]), NEW a, a = [av EXCEPT !.fastbins[i] = Tail(@)]
  PROVE  ArenaWithout(a, p) /\ p \in InFast
<1>1. av \in Arenas /\ FastOK(av.fastbins, chunk)
  BY PartsOf DEF Good, Types
<1>2. DOMAIN av.fastbins = 0..NFASTBINS - 1
  BY <1>1 DEF Arenas
<1>3. PICK F, I : F = av.fastbins /\ I = 0..NFASTBINS - 1
  OBVIOUS
<1>4. i \in I /\ FastOK(F, chunk)
  BY <1>1, <1>2, <1>3
<1>5. Family(F, I)
  BY <1>1, <1>3 DEF Arenas, Family, FastOK
<1>6. List(F[i]) /\ ToSet(F[i]) \subseteq Elements(F)
  BY <1>4, <1>5, ListInj
<1>7. PICK s : s = F[i]
  OBVIOUS
<1>8. List(s) /\ s # << >>
  BY <1>3, <1>6, <1>7
<1>9. Head(s) = s[1] /\ s[1] \in ToSet(s) /\ List(Tail(s)) /\ ToSet(Tail(s)) = ToSet(s) \ {s[1]}
  BY <1>8, Tailed
<1>10. p = s[1]
  BY <1>3, <1>7, <1>9
<1>11. PICK t : t = Tail(s)
  OBVIOUS
<1>12. List(t) /\ ToSet(t) = ToSet(s) \ {p}
  BY <1>9, <1>10, <1>11
<1>13. FastFit(t, F, i, chunk)
  BY <1>7, <1>12 DEF FastFit
<1>14. PICK G : G = [F EXCEPT ![i] = t]
  OBVIOUS
<1>15. Becomes(F, i, t, G)
  BY <1>14 DEF Becomes
<1>16. Family(G, I) /\ FastOK(G, chunk) /\ Swaps(F, i, t, G)
  BY <1>4, <1>5, <1>12, <1>13, <1>15, FastChange
<1>17. Elements(G) = (Elements(F) \ ToSet(s)) \cup (ToSet(s) \ {p})
  BY <1>7, <1>12, <1>16 DEF Swaps
<1>18. a = [av EXCEPT !.fastbins = G]
  BY <1>3, <1>7, <1>11, <1>14
<1>19. a \in Arenas /\ a.bins = av.bins /\ a.top = av.top /\ a.fastbins = G
  BY <1>1, <1>3, <1>16, <1>18 DEF Arenas, Family
<1>20. Elements(G) \subseteq InFast \ {p} /\ p \in InFast
  BY <1>3, <1>6, <1>7, <1>9, <1>10, <1>17 DEF InFast
<1> QED
  BY <1>16, <1>19, <1>20 DEF ArenaWithout

LEMMA ConsolidateFine ==
  ASSUME Good, Consolidate
  PROVE  Fine'
<1>1. At("consolidate") /\ UNCHANGED <<tcache, rest>>
  BY DEF Consolidate
<1>2. /\ call # << >> /\ op.at = "consolidate" /\ Above(op) /\ op \in Frames
      /\ op.at \notin Reallocs \cup {"done"}
  BY <1>1, Running DEF Reallocs
<1>3. PICK full : full = {i \in DOMAIN av.fastbins : av.fastbins[i] # << >>}
  OBVIOUS
<1>4. CASE full = {}
  <2>1. Return /\ UNCHANGED <<heap, tcache, rest>>
    BY <1>1, <1>3, <1>4 DEF Consolidate
  <2> QED
    BY <1>2, <2>1, Untouched, Stops DEF Fine, Return
<1>5. CASE full # {}
  <2>1. PICK i : i = CHOOSE j \in full : \A k \in full : j <= k
    OBVIOUS
  <2>2. i \in full
    <3>1. DOMAIN av.fastbins = 0..NFASTBINS - 1
      BY DEF Good, Types, Arenas
    <3>2. full \in SUBSET Nat
      BY <1>3, <3>1
    <3>3. \E j \in full : \A k \in full : j <= k
      BY <1>5, <3>2, LeastElement
    <3> QED
      BY <2>1, <3>3
  <2>3. PICK p, a : p = Head(av.fastbins[i]) /\ a = [av EXCEPT !.fastbins[i] = Tail(@)]
    OBVIOUS
  <2>4. i \in DOMAIN av.fastbins /\ av.fastbins[i] # << >>
    BY <1>3, <2>2
  <2>5. ArenaWithout(a, p) /\ p \in InFast
    BY <2>3, <2>4, FastTakes
  <2>6. CASE fastbin_index(chunk[p].size) # i \/ ~merge_ok(p)
    <3>1. Abort
      BY <1>3, <1>5, <2>1, <2>3, <2>6 DEF Consolidate
    <3> QED
      BY <3>1, Aborts
  <2>7. CASE ~(fastbin_index(chunk[p].size) # i \/ ~merge_ok(p))
    <3>1. av' = merged_arena(p, a) /\ chunk' = merged_chunks(p) /\ call' = call /\ ret' = ret
      BY <1>3, <1>5, <2>1, <2>3, <2>7 DEF Consolidate
    <3>2. Mergeable(p)
      BY <2>5, <2>7, Listed DEF Mergeable
    <3>3. Topmost(call) = op /\ op.at \notin Needy /\ op.at # "deliver" /\ Waits(op)
      BY <1>2, Popped DEF Needy, Waits
    <3>4. Returned' = Returned /\ OnCall' = OnCall /\ p \notin OnCall
      <4>1. p \notin OnCall
        BY <2>5, PartsOf DEF Parted
      <4> QED
        BY <3>1, <4>1 DEF Returned, OnCall
    <3>5. Failed' = {} /\ RetOK'
      BY <3>1, <3>3 DEF Failed, Returned, Handed, RetOK
    <3>6. HeadOK'
      <4>1. Waiting(call)'
        BY <3>1, <3>3 DEF Waiting
      <4> QED
        BY <4>1, HeadFree
    <3>7. Legal(call', chunk, mapped, held) /\ ret' \in Answers
      BY <3>1, RetIs DEF Good
    <3>8. CallsWithout(p)
      BY <3>1, <3>4, <3>5, <3>6, <3>7 DEF CallsWithout
    <3>9. Good'
      BY <1>1, <2>5, <3>1, <3>2, <3>8, MergeFine
    <3> QED
      BY <3>9 DEF Fine
  <2> QED
    BY <2>6, <2>7
<1> QED
  BY <1>4, <1>5

(* The functions that free calls last.                                     *)
LEMMA TrimFrame ==
  ASSUME NEW n \in Nat, NEW b, b.at # "deliver", NEW base, NEW c, NEW m, NEW h
  PROVE  LET f == Frame("free_trim", n, NULL, 0)
         IN  FrameOK(f, b, base, c, m, h) /\ Above(f) /\ Bare(f) /\ f.at \notin Needy /\ Waits(f)
<1>1. PICK f : f = Frame("free_trim", n, NULL, 0)
  OBVIOUS
<1>2. f.at = "free_trim" /\ f.nb = n
  BY <1>1 DEF Frame
<1>3. f \in Frames
  <2>1. "free_trim" \in Labels /\ 0 \in Int
    BY DEF Labels, Others
  <2> QED
    BY <1>1, <2>1 DEF Frame, Frames, NULL
<1>4. FrameOK(f, b, base, c, m, h)
  BY <1>2, <1>3 DEF FrameOK, Mallocs, Askers, Reallocs, Memaligns, Holders, Frees, Givers
<1>5. Above(f) /\ Bare(f) /\ f.at \notin Needy /\ Waits(f)
  BY <1>2 DEF Above, Bare, Holds, Holders, Reallocs, Frees, Needy, Waits
<1> QED
  BY <1>1, <1>4, <1>5

(* The calls once int_free's chunk is gone.                                *)
LEMMA FreedCalls ==
  ASSUME Good, At("int_free"), ret' = NoReturn, NEW f,
         Grown(call', Tail(call), f, OnStack(Tail(call)), chunk, mapped, held),
         Above(f), f.at \notin Needy, Waits(f)
  PROVE  CallsWithout(op.p)
<1>1. /\ call # << >> /\ Above(op) /\ Holds(op) = {op.p} /\ op.p \in OnCall
  BY FreeOp
<1>2. /\ Base(call) = Base(Tail(call)) /\ OnCall = Holds(op) \cup OnStack(Tail(call))
      /\ Holds(op) \cap OnStack(Tail(call)) = {}
  BY <1>1, Popped
<1>3. Legal(call', chunk, mapped, held) /\ Base(call') = Base(Tail(call)) /\ Topmost(call') = f
  BY DEF Grown
<1>4. OnCall' \subseteq OnCall \ {op.p}
  BY <1>1, <1>2 DEF Grown, OnCall
<1>5. Returned' = {} /\ Failed' = {} /\ ret' \in Answers /\ RetOK'
  BY <1>3, NoReturnIs DEF Returned, Handed, Failed, Above, RetOK
<1>6. HeadOK'
  <2>1. Waiting(call)'
    BY <1>3 DEF Waiting
  <2> QED
    BY <2>1, HeadFree
<1> QED
  BY <1>2, <1>3, <1>4, <1>5, <1>6 DEF CallsWithout

LEMMA FreeMergeFine ==
  ASSUME Good, FreeMerge
  PROVE  Fine'
<1>1. At("int_free") /\ UNCHANGED <<tcache, rest>>
  BY DEF FreeMerge
<1>2. PICK p : p = op.p
  OBVIOUS
<1>3. /\ call # << >> /\ Above(op) /\ op \in Frames /\ op.at = "int_free"
      /\ FrameOK(op, Topmost(Tail(call)), Base(Tail(call)), chunk, mapped, held)
      /\ p \in DOMAIN chunk /\ p \in OnCall /\ chunk[p].size \in Nat /\ op.at \notin Reallocs \cup {"done"}
      /\ Holds(op) = {p}
  BY <1>1, <1>2, FreeOp
<1>4. CASE ~normal_free_ok(op.p)
  <2>1. Abort
    BY <1>4 DEF FreeMerge
  <2> QED
    BY <2>1, Aborts
<1>5. CASE normal_free_ok(op.p)
  <2>1. PICK large : large = (merged_size(op.p) >= FASTBIN_CONSOLIDATION_THRESHOLD)
    OBVIOUS
  <2>2. PICK first : first = IF large /\ av.have_fastchunks THEN <<consolidate>> ELSE << >>
    OBVIOUS
  <2>3. PICK a : a = IF first = << >> THEN av ELSE consolidating(av)
    OBVIOUS
  <2>4. /\ chunk' = merged_chunks(p) /\ av' = merged_arena(p, a) /\ ret' = NoReturn
        /\ IF large THEN Continue(first \o <<Frame("free_trim", mp.top_pad, NULL, 0)>>)
                    ELSE Continue(<< >>)
    BY <1>2, <1>5, <2>1, <2>2, <2>3 DEF FreeMerge
  <2>5. Mergeable(p)
    BY <1>2, <1>3, <1>5 DEF Mergeable, normal_free_ok, free_ok, Aligned
  <2>6. ArenaWithout(a, p)
    <3>1. av \in Arenas /\ FastOK(av.fastbins, chunk)
      BY PartsOf DEF Good, Types
    <3>2. a \in Arenas /\ a.bins = av.bins /\ a.top = av.top /\ a.fastbins = av.fastbins
      BY <2>3, <3>1, Consolidating
    <3>3. p \notin InFast
      BY <1>3, PartsOf DEF Parted
    <3> QED
      BY <3>1, <3>2, <3>3 DEF ArenaWithout, InFast
  <2>7. CallsWithout(p)
    <3>1. PICK t : t = Tail(call)
      OBVIOUS
    <3>2. /\ OnCall = Holds(op) \cup OnStack(t) /\ Waiting(t) /\ t \in Seq(Frames)
          /\ Holds(op) \cap OnStack(t) = {}
          /\ Legal(t, chunk, mapped, held) /\ Base(call) = Base(t)
      BY <1>3, <3>1, Popped
    <3>3. CASE ~large
      <4>1. call' = Tail(call)
        BY <2>4, <3>1, <3>2, <3>3 DEF Continue
      <4>2. /\ Legal(call', chunk, mapped, held) /\ Base(call').p = Base(call).p /\ HeadOK'
            /\ OnCall' = OnStack(Tail(call))
        BY <1>3, <4>1, Resumes
      <4>3. Returned' = {} /\ Failed' = {} /\ RetOK'
        BY <1>3, <2>4, <4>1, GivesUp
      <4>4. OnCall' \subseteq OnCall \ {p}
        BY <1>3, <3>1, <3>2, <4>2
      <4> QED
        BY <2>4, <4>2, <4>3, <4>4, NoReturnIs DEF CallsWithout
    <3>4. CASE large
      <4>1. PICK g : g = Frame("free_trim", mp.top_pad, NULL, 0)
        OBVIOUS
      <4>2. Topmost(t).at # "deliver"
        BY <1>3, <3>1 DEF FrameOK, Givers, Mallocs, Askers, Reallocs, Memaligns
      <4>3. mp.top_pad \in Nat
        BY DEF Good, Types, Params
      <4>4. /\ FrameOK(g, Topmost(t), Base(t), chunk, mapped, held) /\ Above(g) /\ Bare(g)
            /\ g.at \notin Needy /\ Waits(g)
        BY <4>1, <4>2, <4>3, TrimFrame
      <4>5. call' = (first \o <<g>>) \o t
        BY <2>4, <3>1, <3>4, <4>1 DEF Continue
      <4>6. CASE first = << >>
        <5>1. call' = <<g>> \o t
          BY <4>5, <4>6
        <5>2. Apart1(g, t)
          BY <4>4 DEF Apart1, Bare
        <5>3. PICK s : s = call'
          OBVIOUS
        <5>4. Grown(s, t, g, Holds(g) \cup OnStack(t), chunk, mapped, held)
          BY <3>2, <4>4, <5>1, <5>2, <5>3, Push1
        <5>5. Holds(g) \cup OnStack(t) = OnStack(t)
          BY <4>4 DEF Bare
        <5>6. Grown(call', Tail(call), g, OnStack(Tail(call)), chunk, mapped, held)
          BY <3>1, <5>3, <5>4, <5>5
        <5> QED
          BY <1>1, <1>2, <2>4, <4>4, <5>6, FreedCalls
      <4>7. CASE first # << >>
        <5>1. first = <<consolidate>>
          BY <2>2, <4>7
        <5>2. PICK e : e = consolidate
          OBVIOUS
        <5>3. call' = <<e, g>> \o t
          BY <4>5, <5>1, <5>2
        <5>4. /\ FrameOK(e, g, Base(t), chunk, mapped, held) /\ Above(e) /\ Bare(e)
              /\ e.at \notin Needy /\ Waits(e)
          BY <4>4, <5>2, ConsolidateFrame DEF Above
        <5>5. Apart2(e, g, t)
          BY <4>4, <5>4 DEF Apart2, Apart1, Bare
        <5>6. PICK s : s = call'
          OBVIOUS
        <5>7. Grown(s, t, e, Holds(e) \cup Holds(g) \cup OnStack(t), chunk, mapped, held)
          BY <3>2, <4>4, <5>3, <5>4, <5>5, <5>6, Push2
        <5>8. Holds(e) \cup Holds(g) \cup OnStack(t) = OnStack(t)
          BY <4>4, <5>4 DEF Bare
        <5>9. Grown(call', Tail(call), e, OnStack(Tail(call)), chunk, mapped, held)
          BY <3>1, <5>6, <5>7, <5>8
        <5> QED
          BY <1>1, <1>2, <2>4, <5>4, <5>9, FreedCalls
      <4> QED
        BY <4>6, <4>7
    <3> QED
      BY <3>3, <3>4
  <2>8. Good'
    BY <1>1, <2>4, <2>5, <2>6, <2>7, MergeFine
  <2> QED
    BY <2>8 DEF Fine
<1> QED
  BY <1>4, <1>5
=============================================================================
