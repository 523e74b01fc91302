------------------------ MODULE ImageTransformProofs ------------------------
(* Theorems about image-transform, for every set of input files,           *)
(* parameters and blocks: what is allocated and open (IInv), and what the  *)
(* pictures show and is written (PInv).                                    *)
EXTENDS ImageTransformInvariant, CommonLemmas, SequenceTheorems

-----------------------------------------------------------------------------
(* The functions of image.c and bmp_format.c                               *)

(* g is h with one more block, of n cells.                                 *)
Grown(g, h, b, n) ==
  /\ DOMAIN g = DOMAIN h \cup {b}
  /\ DOMAIN g[b] = 0..n - 1
  /\ \A x \in DOMAIN h : x # b => g[x] = h[x]

(* malloc adds one block and leaves the others alone.                      *)
LEMMA Malloc ==
  ASSUME NEW h, NEW b, NEW n
  PROVE  Grown(malloc(h, b, n), h, b, n)
  BY DEF malloc, Grown

(* g is h without one of its blocks.                                       *)
Shrunk(g, h, b) ==
  /\ DOMAIN g = DOMAIN h \ {b}
  /\ \A x \in DOMAIN g : g[x] = h[x]

(* free takes one block away and leaves the others alone.                  *)
LEMMA FreeOne ==
  ASSUME NEW h, NEW b
  PROVE  Shrunk(free(h, b), h, b)
  BY DEF free, Shrunk

(* Two heaps with the same blocks of the same sizes.                       *)
SameBlocks(g, h) ==
  /\ DOMAIN g = DOMAIN h
  /\ \A x \in DOMAIN h : DOMAIN g[x] = DOMAIN h[x]

(* set_pixel changes no block's size.                                      *)
LEMMA SetPixel ==
  ASSUME NEW h, NEW im, NEW i, NEW pixel
  PROVE  SameBlocks(set_pixel(h, im, i, pixel), h)
  BY DEF set_pixel, SameBlocks

(* Nor does an exchange of two pixels.                                     *)
LEMMA Swap ==
  ASSUME NEW left, NEW right
  PROVE  SameBlocks(swap(left, right), heap)
<1> DEFINE moved == set_pixel(heap, img, left, get_pixel(heap, img, right))
<1>1. SameBlocks(moved, heap)
  BY SetPixel
<1> HIDE DEF moved
<1>2. SameBlocks(set_pixel(moved, img, right, get_pixel(heap, img, left)), moved)
  BY SetPixel
<1> QED
  BY <1>1, <1>2 DEF SameBlocks, swap, moved

(* A row in the file is its pixels and the padding from_bmp skips.         *)
LEMMA StrideIs ==
  ASSUME NEW w \in Nat
  PROVE  Stride(w) = 3 * w + get_padding(w) /\ get_padding(w) \in 0..3
<1> DEFINE P(n) == n \in 3 * w .. 3 * w + 3 /\ n % 4 = 0
<1>1. get_padding(w) \in 0..3 /\ P(3 * w + get_padding(w))
  BY DEF get_padding
<1>2. \A n, m : P(n) /\ P(m) => n = m
  OBVIOUS
<1> QED
  BY <1>1, <1>2 DEF Stride

-----------------------------------------------------------------------------
(* The steps: each keeps IInv.                                             *)

(* main's test of argc.                                                    *)
LEMMA CheckArgumentsStep == IInv /\ CheckArguments => IInv'
<1> SUFFICES ASSUME IInv, CheckArguments PROVE IInv'
  OBVIOUS
<1> USE DEF IInv, CheckArguments, Go, Exit, input, memory, loops
<1>1. TypeOK'
  BY DEF TypeOK, Labels, Statuses
<1>2. HeapOwned'
  BY DEF HeapOwned, Finished, TypeOK
<1>3. Streams'
  BY DEF Streams, Reading, Writing
<1>4. Pictures'
  BY DEF Pictures, Before, Finished, NoImage
<1>5. Work'
  BY DEF Work
<1>6. Progress'
  BY DEF Progress, Held, Before, Reading, Streams, Writing, TypeOK
<1>7. SuccessFreesAll'
  BY DEF SuccessFreesAll, Succeeded
<1> QED
  BY <1>1, <1>2, <1>3, <1>4, <1>5, <1>6, <1>7

(* main's first fopen.                                                     *)
LEMMA OpenInputStep == IInv /\ OpenInput => IInv'
<1> SUFFICES ASSUME IInv, OpenInput PROVE IInv'
  OBVIOUS
<1> USE DEF IInv, OpenInput, Go, Exit, input, memory, loops
<1>1. TypeOK'
  BY DEF TypeOK, Labels, Statuses
<1>2. HeapOwned'
  BY DEF HeapOwned, Finished, TypeOK
<1>3. Streams'
  BY DEF Streams, Reading, Writing
<1>4. Pictures'
  BY DEF Pictures, Before, Finished, NoImage
<1>5. Work'
  BY DEF Work
<1>6. Progress'
  BY DEF Progress, Held, Before, Reading, Streams, Writing, TypeOK
<1>7. SuccessFreesAll'
  BY DEF SuccessFreesAll, Succeeded
<1> QED
  BY <1>1, <1>2, <1>3, <1>4, <1>5, <1>6, <1>7

(* from_bmp's fread of the header.                                         *)
LEMMA ReadHeaderStep == IInv /\ ReadHeader => IInv'
<1> SUFFICES ASSUME IInv, ReadHeader PROVE IInv'
  OBVIOUS
<1> USE DEF IInv, ReadHeader, Exit, Go, ReadFails, input, memory, loops
<1>1. TypeOK'
  BY DEF TypeOK, Labels, Statuses
<1>2. HeapOwned'
  BY DEF HeapOwned, Finished, TypeOK
<1>3. Streams'
  BY DEF Streams, Reading, Writing
<1>4. Pictures'
  BY DEF Pictures, Before, Finished, NoImage
<1>5. Work'
  BY DEF Work
<1>6. Progress'
  BY DEF Progress, Held, Before, Reading, Streams, Writing, TypeOK
<1>7. SuccessFreesAll'
  BY DEF SuccessFreesAll, Succeeded
<1> QED
  BY <1>1, <1>2, <1>3, <1>4, <1>5, <1>6, <1>7

(* create_image: its block is the only live one.                           *)
LEMMA CreateImageStep == IInv /\ CreateImage => IInv'
<1> SUFFICES ASSUME IInv, CreateImage PROVE IInv'
  OBVIOUS
<1> USE DEF IInv, CreateImage, Exit, Go, ReadFails, input
<1>1. TypeOK'
  <2>1. pc' \in Labels /\ code' \in {0, 1, 2, 12} /\ status' \in Statuses
    BY DEF TypeOK, Labels, Statuses
  <2>2. DOMAIN heap' \subseteq Blocks /\ img' \in Image /\ row' \in Nat
    <3>1. file.width \in Nat /\ file.height \in Nat
      BY FilesAssumption DEF TypeOK
    <3>2. ASSUME NEW b \in Free(heap),
                 heap' = malloc(heap, b, file.width * file.height)
          PROVE  DOMAIN heap' \subseteq Blocks
      <4>1. Grown(heap', heap, b, file.width * file.height)
        BY <3>2, Malloc
      <4> QED
        BY <4>1 DEF Grown, Free, TypeOK
    <3> QED
      BY <3>1, <3>2 DEF TypeOK, Image, Free
  <2> QED
    BY <2>1, <2>2 DEF TypeOK
<1>2. HeapOwned'
  <2>1. ASSUME NEW b \in Free(heap),
               heap' = malloc(heap, b, file.width * file.height),
               img' = [width |-> file.width, height |-> file.height, data |-> b]
        PROVE  HeapOwned'
    <3>1. Grown(heap', heap, b, file.width * file.height)
      BY <2>1, Malloc
    <3>2. DOMAIN heap = {} /\ rotated' = NoImage /\ b # NULL
      BY BlocksAssumption DEF Pictures, Before, Finished, Free
    <3>3. img'.data = b /\ img'.width = file.width /\ img'.height = file.height
      BY <2>1
    <3> QED
      BY <3>1, <3>2, <3>3 DEF HeapOwned, NoImage, Grown
  <2>2. CASE pc' = "exited"
    BY <2>2 DEF HeapOwned, Finished
  <2> QED
    BY <2>1, <2>2
<1>3. Streams'
  BY DEF Streams, Reading, Writing
<1>4. Pictures'
  BY DEF Pictures, Before, Finished, NoImage
<1>5. Work'
  BY DEF Work
<1>6. Progress'
  <2>1. file.width \in Nat /\ file.height \in Nat /\ Stride(file.width) \in Nat
    <3>1. file.width \in Nat /\ file.height \in Nat
      BY FilesAssumption DEF TypeOK
    <3> QED
      BY <3>1, StrideIs
  <2>2. row' = 0 => Held(row')
    BY DEF Held
  <2> QED
    BY <2>1, BlocksAssumption DEF Progress, Held, Before, Reading, Streams, Pictures, Free
<1>7. SuccessFreesAll'
  BY DEF SuccessFreesAll, Succeeded
<1> QED
  BY <1>1, <1>2, <1>3, <1>4, <1>5, <1>6, <1>7

(* A row's fread: a full count means that the bytes were there.            *)
LEMMA ReadRowStep == IInv /\ ReadRow => IInv'
<1> SUFFICES ASSUME IInv, ReadRow PROVE IInv'
  OBVIOUS
<1> USE DEF IInv, ReadRow, Exit, Go, ReadFails, loops
<1>1. TypeOK'
  <2>1. pc' \in Labels /\ code' \in {0, 1, 2, 12} /\ status' \in Statuses
    BY DEF TypeOK, Labels, Statuses
  <2>2. pos' \in Nat
    BY DEF TypeOK, Image, FreadCounts
  <2>3. DOMAIN heap' \subseteq Blocks
    BY DEF TypeOK
  <2> QED
    BY <2>1, <2>2, <2>3 DEF TypeOK
<1>2. HeapOwned'
  BY DEF HeapOwned, Finished, TypeOK
<1>3. Streams'
  BY DEF Streams, Reading, Writing
<1>4. Pictures'
  BY DEF Pictures, Before, Finished, NoImage
<1>5. Work'
  BY DEF Work
<1>6. Progress'
  <2> DEFINE S == Stride(file.width)
  <2>1. file.width \in Nat /\ file.height \in Nat /\ file.bytes \in Nat
    BY FilesAssumption DEF TypeOK
  <2>2. S = 3 * file.width + get_padding(file.width) /\ get_padding(file.width) \in 0..3
    BY <2>1, StrideIs
  <2>3. pos = row * S /\ img.width = file.width /\ row \in Nat /\ pos \in Nat
    BY DEF Progress, TypeOK
  <2>4. CASE pc' = "exited"
    BY <2>4 DEF Progress, Before, Reading, Streams
  <2>5. CASE pc' = "read_skip"
    <3>1. img.width \in FreadCounts /\ pos' = pos + 3 * img.width
      BY <2>5 DEF count_is_width
    <3>2. file.width > 0 => pos' <= file.bytes
      BY <2>1, <2>3, <3>1 DEF FreadCounts, Available
    <3>3. pos' = row * S + 3 * file.width
      BY <2>3, <3>1
    <3>4. Held(row + 1)
      BY <2>1, <2>3, <3>2, <3>3 DEF Held
    <3> QED
      BY <2>5, <3>3, <3>4 DEF Progress, Held, Before, Reading, Streams
  <2> QED
    BY <2>4, <2>5
<1>7. SuccessFreesAll'
  BY DEF SuccessFreesAll, Succeeded
<1> QED
  BY <1>1, <1>2, <1>3, <1>4, <1>5, <1>6, <1>7

(* A row's fseek: the position is at the next row.                         *)
LEMMA SkipPaddingStep == IInv /\ SkipPadding => IInv'
<1> SUFFICES ASSUME IInv, SkipPadding PROVE IInv'
  OBVIOUS
<1> USE DEF IInv, SkipPadding, Exit, Go, ReadFails, memory
<1>1. TypeOK'
  <2>1. pc' \in Labels /\ code' \in {0, 1, 2, 12} /\ status' \in Statuses
    BY DEF TypeOK, Labels, Statuses
  <2>2. pos' \in Nat /\ row' \in Nat
    <3>1. img.width \in Nat
      BY DEF TypeOK, Image
    <3>2. get_padding(img.width) \in 0..3
      BY <3>1, StrideIs
    <3> QED
      BY <3>2 DEF TypeOK
  <2> QED
    BY <2>1, <2>2 DEF TypeOK
<1>2. HeapOwned'
  BY DEF HeapOwned, Finished, TypeOK
<1>3. Streams'
  BY DEF Streams, Reading, Writing
<1>4. Pictures'
  BY DEF Pictures, Before, Finished, NoImage
<1>5. Work'
  BY DEF Work
<1>6. Progress'
  <2> DEFINE S == Stride(file.width)
  <2>1. file.width \in Nat /\ file.height \in Nat /\ file.bytes \in Nat
    BY FilesAssumption DEF TypeOK
  <2>2. S = 3 * file.width + get_padding(file.width) /\ get_padding(file.width) \in 0..3
    BY <2>1, StrideIs
  <2>3. CASE pc' = "exited"
    BY <2>3 DEF Progress, Before, Reading, Streams
  <2>4. CASE pc' = "read_row"
    <3>1. pos' = pos + get_padding(file.width) /\ row' = row + 1
      BY <2>4 DEF Progress
    <3>2. row \in Nat /\ pos = row * S + 3 * file.width
      BY DEF Progress, TypeOK
    <3>3. pos' = row' * S
      <4> DEFINE p == get_padding(file.width)
      <4> HIDE DEF p, S
      <4>1. S \in Nat /\ p \in Nat /\ S = 3 * file.width + p
        BY <2>1, <2>2 DEF p, S
      <4>2. pos' = pos + p /\ row' = row + 1 /\ pos = row * S + 3 * file.width
        BY <3>1, <3>2 DEF p, S
      <4>3. pos' = row * S + S
        BY <2>1, <3>2, <4>1, <4>2
      <4>4. (row + 1) * S = row * S + S
        BY <3>2, <4>1
      <4> QED
        BY <4>2, <4>3, <4>4
    <3>4. row' <= file.height /\ Held(row')
      BY <2>1, <3>1 DEF Progress, TypeOK
    <3> QED
      BY <2>4, <3>3, <3>4 DEF Progress, Held, Before, Reading, Streams
  <2> QED
    BY <2>3, <2>4
<1>7. SuccessFreesAll'
  BY DEF SuccessFreesAll, Succeeded
<1> QED
  BY <1>1, <1>2, <1>3, <1>4, <1>5, <1>6, <1>7

(* READ_OK and main's switch.                                              *)
LEMMA ReadDoneStep == IInv /\ ReadDone => IInv'
<1> SUFFICES ASSUME IInv, ReadDone PROVE IInv'
  OBVIOUS
<1> USE DEF IInv, ReadDone, Go, Exit, input, memory
<1>1. TypeOK'
  <2>1. pc' \in Labels /\ code' \in {0, 1, 2, 12} /\ status' \in Statuses
    BY DEF TypeOK, Labels, Statuses
  <2>2. todo' \in Seq({"flip", "ccw", "cw"})
    <3>1. CASE param \in DOMAIN Steps
      <4>1. \A p \in DOMAIN Steps : Steps[p] \in Seq({"flip", "ccw", "cw"})
        <5>1. << >> \in Seq({"flip", "ccw", "cw"}) /\ <<"flip">> \in Seq({"flip", "ccw", "cw"})
          OBVIOUS
        <5>2. <<"flip", "ccw", "ccw">> \in Seq({"flip", "ccw", "cw"})
          OBVIOUS
        <5>3. <<"ccw">> \in Seq({"flip", "ccw", "cw"}) /\ <<"cw">> \in Seq({"flip", "ccw", "cw"})
          OBVIOUS
        <5>4. DOMAIN Steps = {"none", "fliph", "flipv", "ccw90", "cw90"}
          BY DEF Steps
        <5>5. /\ Steps["none"] = << >>  /\ Steps["fliph"] = <<"flip">>
              /\ Steps["flipv"] = <<"flip", "ccw", "ccw">>
              /\ Steps["ccw90"] = <<"ccw">> /\ Steps["cw90"] = <<"cw">>
          BY DEF Steps
        <5> QED
          BY <5>1, <5>2, <5>3, <5>4, <5>5
      <4> QED
        BY <3>1, <4>1
    <3>2. CASE param \notin DOMAIN Steps
      BY <3>2 DEF TypeOK
    <3> QED
      BY <3>1, <3>2
  <2> QED
    BY <2>1, <2>2 DEF TypeOK
<1>2. HeapOwned'
  BY DEF HeapOwned, Finished, TypeOK
<1>3. Streams'
  BY DEF Streams, Reading, Writing
<1>4. Pictures'
  BY DEF Pictures, Before, Finished, NoImage
<1>5. Work'
  BY DEF Work
<1>6. Progress'
  BY DEF Progress, Held, Before, Reading, Streams, Writing, TypeOK
<1>7. SuccessFreesAll'
  BY DEF SuccessFreesAll, Succeeded
<1> QED
  BY <1>1, <1>2, <1>3, <1>4, <1>5, <1>6, <1>7

(* rotate_flip begins.                                                     *)
LEMMA StartFlipStep == IInv /\ StartFlip => IInv'
<1> SUFFICES ASSUME IInv, StartFlip PROVE IInv'
  OBVIOUS
<1> USE DEF IInv, StartFlip, Go, Begin, input, memory
<1>1. TypeOK'
  BY DEF TypeOK, Labels, Statuses
<1>2. HeapOwned'
  BY DEF HeapOwned, Finished, TypeOK
<1>3. Streams'
  BY DEF Streams, Reading, Writing
<1>4. Pictures'
  BY DEF Pictures, Before, Finished, NoImage
<1>5. Work'
  BY DEF Work
<1>6. Progress'
  BY DEF Progress, Held, Before, Reading, Streams, Writing, TypeOK
<1>7. SuccessFreesAll'
  BY DEF SuccessFreesAll, Succeeded
<1> QED
  BY <1>1, <1>2, <1>3, <1>4, <1>5, <1>6, <1>7

(* rotate_flip exchanges two pixels.                                       *)
LEMMA FlipStep == IInv /\ Flip => IInv'
<1> SUFFICES ASSUME IInv, Flip PROVE IInv'
  OBVIOUS
<1> USE DEF IInv, Flip, Advance, Over, control, input
<1>1. TypeOK'
  BY Swap DEF TypeOK, SameBlocks
<1>2. HeapOwned'
  <2>1. SameBlocks(heap', heap)
    BY Swap
  <2> QED
    BY <2>1 DEF HeapOwned, Finished, SameBlocks
<1>3. Streams'
  BY DEF Streams, Reading, Writing
<1>4. Pictures'
  BY DEF Pictures, Before, Finished, NoImage
<1>5. Work'
  BY DEF Work
<1>6. Progress'
  BY DEF Progress, Held, Before, Reading, Streams, Writing, TypeOK
<1>7. SuccessFreesAll'
  BY DEF SuccessFreesAll, Succeeded
<1> QED
  BY <1>1, <1>2, <1>3, <1>4, <1>5, <1>6, <1>7

(* rotate_flip is done.                                                    *)
LEMMA FlipDoneStep == IInv /\ FlipDone => IInv'
<1> SUFFICES ASSUME IInv, FlipDone PROVE IInv'
  OBVIOUS
<1> USE DEF IInv, FlipDone, Go, Over, input, memory
<1>1. TypeOK'
  <2>1. pc' \in Labels /\ code' \in {0, 1, 2, 12} /\ status' \in Statuses
    BY DEF TypeOK, Labels, Statuses
  <2>2. todo' \in Seq({"flip", "ccw", "cw"})
    BY DEF TypeOK, Work
  <2> QED
    BY <2>1, <2>2 DEF TypeOK
<1>2. HeapOwned'
  BY DEF HeapOwned, Finished, TypeOK
<1>3. Streams'
  BY DEF Streams, Reading, Writing
<1>4. Pictures'
  BY DEF Pictures, Before, Finished, NoImage
<1>5. Work'
  BY DEF Work
<1>6. Progress'
  BY DEF Progress, Held, Before, Reading, Streams, Writing, TypeOK
<1>7. SuccessFreesAll'
  BY DEF SuccessFreesAll, Succeeded
<1> QED
  BY <1>1, <1>2, <1>3, <1>4, <1>5, <1>6, <1>7

(* rotate_image calls malloc, which may fail.                              *)
LEMMA StartRotateStep == IInv /\ StartRotate => IInv'
<1> SUFFICES ASSUME IInv, StartRotate PROVE IInv'
  OBVIOUS
<1> USE DEF IInv, StartRotate, Go, Begin, input
<1>1. TypeOK'
  <2>1. pc' \in Labels /\ code' \in {0, 1, 2, 12} /\ status' \in Statuses
    BY DEF TypeOK, Labels, Statuses
  <2>2. DOMAIN heap' \subseteq Blocks
    <3>1. ASSUME NEW b \in Free(heap), heap' = malloc(heap, b, img.height * img.width)
          PROVE  DOMAIN heap' \subseteq Blocks
      <4>1. Grown(heap', heap, b, img.height * img.width)
        BY <3>1, Malloc
      <4> QED
        BY <4>1 DEF Grown, Free, TypeOK
    <3> QED
      BY <3>1 DEF TypeOK
  <2>3. rotated' \in Image
    BY DEF TypeOK, Image, Free
  <2> QED
    BY <2>1, <2>2, <2>3 DEF TypeOK
<1>2. HeapOwned'
  <2>1. rotated = NoImage
    BY DEF Pictures, Finished
  <2>2. DOMAIN heap = {img.data} \ {NULL}
    BY <2>1 DEF HeapOwned, Finished, NoImage
  <2>3. ASSUME NEW b \in Free(heap),
               heap' = malloc(heap, b, img.height * img.width),
               rotated' = [width |-> img.height, height |-> img.width, data |-> b]
        PROVE  HeapOwned'
    <3>1. Grown(heap', heap, b, img.height * img.width)
      BY <2>3, Malloc
    <3>2. b # NULL /\ b \notin DOMAIN heap
      BY BlocksAssumption DEF Free
    <3>3. /\ rotated'.data = b /\ rotated'.width = img.height
          /\ rotated'.height = img.width /\ img' = img
      BY <2>3
    <3>4. DOMAIN heap' = {img'.data, rotated'.data} \ {NULL}
      BY <2>2, <3>1, <3>2, <3>3 DEF Grown
    <3>5. img.data # NULL => DOMAIN heap'[img.data] = 0..img.width * img.height - 1
      BY <2>2, <3>1, <3>2 DEF Grown, HeapOwned, Finished
    <3>6. DOMAIN heap'[b] = 0..img.height * img.width - 1
      BY <3>1 DEF Grown
    <3> QED
      BY <2>2, <3>2, <3>3, <3>4, <3>5, <3>6 DEF HeapOwned, Finished
  <2>4. CASE heap' = heap /\ rotated' = [width |-> img.height, height |-> img.width, data |-> NULL]
    BY <2>1, <2>4 DEF HeapOwned, Finished, NoImage
  <2> QED
    BY <2>3, <2>4
<1>3. Streams'
  BY DEF Streams, Reading, Writing
<1>4. Pictures'
  BY DEF Pictures, Before, Finished, NoImage
<1>5. Work'
  BY DEF Work
<1>6. Progress'
  BY DEF Progress, Held, Before, Reading, Streams, Writing, TypeOK
<1>7. SuccessFreesAll'
  BY DEF SuccessFreesAll, Succeeded
<1> QED
  BY <1>1, <1>2, <1>3, <1>4, <1>5, <1>6, <1>7

(* rotate_image moves one pixel.                                           *)
LEMMA RotateStep == IInv /\ Rotate => IInv'
<1> SUFFICES ASSUME IInv, Rotate PROVE IInv'
  OBVIOUS
<1> USE DEF IInv, Rotate, Advance, Over, control, input
<1>1. TypeOK'
  BY SetPixel DEF TypeOK, SameBlocks
<1>2. HeapOwned'
  BY SetPixel DEF HeapOwned, Finished, TypeOK, SameBlocks
<1>3. Streams'
  BY DEF Streams, Reading, Writing
<1>4. Pictures'
  BY DEF Pictures, Before, Finished, NoImage
<1>5. Work'
  BY DEF Work
<1>6. Progress'
  BY DEF Progress, Held, Before, Reading, Streams, Writing, TypeOK
<1>7. SuccessFreesAll'
  BY DEF SuccessFreesAll, Succeeded
<1> QED
  BY <1>1, <1>2, <1>3, <1>4, <1>5, <1>6, <1>7

(* rotate_image stores through NULL.                                       *)
LEMMA RotateCrashStep == IInv /\ RotateCrash => IInv'
<1> SUFFICES ASSUME IInv, RotateCrash PROVE IInv'
  OBVIOUS
<1> USE DEF IInv, RotateCrash, Go, Over, input, memory, loops
<1>1. TypeOK'
  BY DEF TypeOK, Labels, Statuses
<1>2. HeapOwned'
  BY DEF HeapOwned, Finished, TypeOK
<1>3. Streams'
  BY DEF Streams, Reading, Writing
<1>4. Pictures'
  BY DEF Pictures, Before, Finished, NoImage
<1>5. Work'
  BY DEF Work
<1>6. Progress'
  BY DEF Progress, Held, Before, Reading, Streams, Writing, TypeOK
<1>7. SuccessFreesAll'
  BY DEF SuccessFreesAll, Succeeded
<1> QED
  BY <1>1, <1>2, <1>3, <1>4, <1>5, <1>6, <1>7

(* rotate_image frees the old pixels and hands over the new.               *)
LEMMA RotateDoneStep == IInv /\ RotateDone => IInv'
<1> SUFFICES ASSUME IInv, RotateDone PROVE IInv'
  OBVIOUS
<1> USE DEF IInv, RotateDone, Go, Over, input
<1>1. TypeOK'
  <2>1. pc' \in Labels /\ code' \in {0, 1, 2, 12} /\ status' \in Statuses
    BY DEF TypeOK, Labels, Statuses
  <2>2. DOMAIN heap' \subseteq Blocks
    <3>1. Shrunk(heap', heap, img.data)
      BY FreeOne
    <3> QED
      BY <3>1 DEF Shrunk, TypeOK
  <2>3. todo' \in Seq({"flip", "ccw", "cw"})
    BY DEF TypeOK, Work
  <2>4. rotated' \in Image
    BY DEF Image, NoImage
  <2> QED
    BY <2>1, <2>2, <2>3, <2>4 DEF TypeOK
<1>2. HeapOwned'
  <2>1. rotated.data = NULL => rotated.width * rotated.height = 0
    BY DEF Pictures, TypeOK, Image
  <2>2. DOMAIN heap = {img.data, rotated.data} \ {NULL}
    BY DEF HeapOwned, Finished
  <2>3. img.data # rotated.data \/ rotated.data = NULL
    BY DEF HeapOwned, Finished
  <2>4. Shrunk(heap', heap, img.data)
    BY FreeOne
  <2>5. DOMAIN heap' = {rotated.data} \ {NULL}
    BY <2>2, <2>3, <2>4 DEF Shrunk
  <2>6. rotated.data # NULL =>
          DOMAIN heap'[rotated.data] = 0..rotated.width * rotated.height - 1
    BY <2>4, <2>5 DEF Shrunk, HeapOwned, Finished
  <2> QED
    BY <2>1, <2>5, <2>6 DEF HeapOwned, NoImage
<1>3. Streams'
  BY DEF Streams, Reading, Writing
<1>4. Pictures'
  BY DEF Pictures, Before, Finished, NoImage
<1>5. Work'
  BY DEF Work
<1>6. Progress'
  BY DEF Progress, Held, Before, Reading, Streams, Writing, TypeOK
<1>7. SuccessFreesAll'
  BY DEF SuccessFreesAll, Succeeded
<1> QED
  BY <1>1, <1>2, <1>3, <1>4, <1>5, <1>6, <1>7

(* main's second fopen.                                                    *)
LEMMA OpenOutputStep == IInv /\ OpenOutput => IInv'
<1> SUFFICES ASSUME IInv, OpenOutput PROVE IInv'
  OBVIOUS
<1> USE DEF IInv, OpenOutput, Go, Exit, input, memory, loops
<1>1. TypeOK'
  BY DEF TypeOK, Labels, Statuses
<1>2. HeapOwned'
  BY DEF HeapOwned, Finished, TypeOK
<1>3. Streams'
  BY DEF Streams, Reading, Writing
<1>4. Pictures'
  BY DEF Pictures, Before, Finished, NoImage
<1>5. Work'
  BY DEF Work
<1>6. Progress'
  BY DEF Progress, Held, Before, Reading, Streams, Writing, TypeOK
<1>7. SuccessFreesAll'
  BY DEF SuccessFreesAll, Succeeded
<1> QED
  BY <1>1, <1>2, <1>3, <1>4, <1>5, <1>6, <1>7

(* to_bmp's fwrite of the header.                                          *)
LEMMA WriteHeaderStep == IInv /\ WriteHeader => IInv'
<1> SUFFICES ASSUME IInv, WriteHeader PROVE IInv'
  OBVIOUS
<1> USE DEF IInv, WriteHeader, Exit, Go, WriteFails, input, memory
<1>1. TypeOK'
  <2>1. pc' \in Labels /\ code' \in {0, 1, 2, 12} /\ status' \in Statuses
    BY DEF TypeOK, Labels, Statuses
  <2>2. row' \in Nat
    BY DEF TypeOK
  <2> QED
    BY <2>1, <2>2 DEF TypeOK
<1>2. HeapOwned'
  BY DEF HeapOwned, Finished, TypeOK
<1>3. Streams'
  BY DEF Streams, Reading, Writing
<1>4. Pictures'
  BY DEF Pictures, Before, Finished, NoImage
<1>5. Work'
  BY DEF Work
<1>6. Progress'
  BY DEF Progress, Held, Before, Reading, Streams, Writing, TypeOK
<1>7. SuccessFreesAll'
  BY DEF SuccessFreesAll, Succeeded
<1> QED
  BY <1>1, <1>2, <1>3, <1>4, <1>5, <1>6, <1>7

(* to_bmp's fwrite of a row.                                               *)
LEMMA WriteRowStep == IInv /\ WriteRow => IInv'
<1> SUFFICES ASSUME IInv, WriteRow PROVE IInv'
  OBVIOUS
<1> USE DEF IInv, WriteRow, Exit, Go, WriteFails, input, memory, loops
<1>1. TypeOK'
  BY DEF TypeOK, Labels, Statuses
<1>2. HeapOwned'
  BY DEF HeapOwned, Finished, TypeOK
<1>3. Streams'
  BY DEF Streams, Reading, Writing
<1>4. Pictures'
  BY DEF Pictures, Before, Finished, NoImage
<1>5. Work'
  BY DEF Work
<1>6. Progress'
  BY DEF Progress, Held, Before, Reading, Streams, Writing, TypeOK
<1>7. SuccessFreesAll'
  BY DEF SuccessFreesAll, Succeeded
<1> QED
  BY <1>1, <1>2, <1>3, <1>4, <1>5, <1>6, <1>7

(* to_bmp's fwrite of the padding.                                         *)
LEMMA WritePaddingStep == IInv /\ WritePadding => IInv'
<1> SUFFICES ASSUME IInv, WritePadding PROVE IInv'
  OBVIOUS
<1> USE DEF IInv, WritePadding, Exit, Go, WriteFails, input, memory
<1>1. TypeOK'
  <2>1. pc' \in Labels /\ code' \in {0, 1, 2, 12} /\ status' \in Statuses
    BY DEF TypeOK, Labels, Statuses
  <2>2. row' \in Nat
    BY DEF TypeOK
  <2> QED
    BY <2>1, <2>2 DEF TypeOK
<1>2. HeapOwned'
  BY DEF HeapOwned, Finished, TypeOK
<1>3. Streams'
  BY DEF Streams, Reading, Writing
<1>4. Pictures'
  BY DEF Pictures, Before, Finished, NoImage
<1>5. Work'
  BY DEF Work
<1>6. Progress'
  BY DEF Progress, Held, Before, Reading, Streams, Writing, TypeOK
<1>7. SuccessFreesAll'
  BY DEF SuccessFreesAll, Succeeded
<1> QED
  BY <1>1, <1>2, <1>3, <1>4, <1>5, <1>6, <1>7

(* WRITE_OK: main closes, frees and returns 0.                             *)
LEMMA WriteDoneStep == IInv /\ WriteDone => IInv'
<1> SUFFICES ASSUME IInv, WriteDone PROVE IInv'
  OBVIOUS
<1> USE DEF IInv, WriteDone, Exit, input, loops
<1>1. TypeOK'
  <2>1. pc' \in Labels /\ code' \in {0, 1, 2, 12} /\ status' \in Statuses
    BY DEF TypeOK, Labels, Statuses
  <2>2. DOMAIN heap' \subseteq Blocks
    <3>1. Shrunk(destroy_image, heap, img.data)
      BY FreeOne DEF destroy_image
    <3> QED
      BY <3>1 DEF Shrunk, TypeOK
  <2>3. img' \in Image
    <3>1. img \in Image
      BY DEF TypeOK
    <3>2. [img EXCEPT !.width = 0, !.height = 0] \in Image
      BY <3>1 DEF Image
    <3> QED
      BY <3>1, <3>2
  <2> QED
    BY <2>1, <2>2, <2>3 DEF TypeOK
<1>2. HeapOwned'
  BY DEF HeapOwned, Finished, TypeOK
<1>3. Streams'
  BY DEF Streams, Reading, Writing
<1>4. Pictures'
  BY DEF Pictures, Before, Finished, NoImage
<1>5. Work'
  BY DEF Work
<1>6. Progress'
  BY DEF Progress, Held, Before, Reading, Streams, Writing, TypeOK
<1>7. SuccessFreesAll'
  <2>1. DOMAIN heap = {img.data} \ {NULL}
    BY DEF HeapOwned, Pictures, Finished, NoImage
  <2>2. Shrunk(destroy_image, heap, img.data)
    BY FreeOne DEF destroy_image
  <2> QED
    BY <2>1, <2>2 DEF SuccessFreesAll, Shrunk
<1> QED
  BY <1>1, <1>2, <1>3, <1>4, <1>5, <1>6, <1>7

-----------------------------------------------------------------------------
(* The theorems that follow from IInv                                      *)

(* The program starts with nothing.                                        *)
LEMMA InitStep == Init => IInv
<1> SUFFICES ASSUME Init PROVE IInv
  OBVIOUS
<1> USE DEF Init
<1>1. TypeOK
  <2>1. NoImage \in Image
    BY DEF NoImage, Image
  <2>2. pc \in Labels /\ status \in Statuses
    BY DEF Labels, Statuses
  <2>3. DOMAIN heap = {}
    OBVIOUS
  <2>4. todo \in Seq({"flip", "ccw", "cw"})
    OBVIOUS
  <2>5. pos \in Nat /\ row \in Nat /\ col \in Nat /\ code = 0
    OBVIOUS
  <2> QED
    BY <2>1, <2>2, <2>3, <2>4, <2>5 DEF TypeOK
<1>2. HeapOwned /\ SuccessFreesAll
  BY DEF HeapOwned, NoImage, SuccessFreesAll, Succeeded
<1>3. Streams /\ Pictures /\ Work
  BY DEF Streams, Reading, Writing, Pictures, Before, NoImage, Work
<1>4. Progress
  BY DEF Progress, Before, Reading, Held
<1> QED
  BY <1>1, <1>2, <1>3, <1>4 DEF IInv

(* IInv holds at every place of the program, whichever calls of the C      *)
(* library fail.                                                           *)
THEOREM Invariance == Spec => []IInv
<1>1. ASSUME IInv, [Next]_vars PROVE IInv'
  <2>1. CASE Read
    BY <1>1, <2>1, CheckArgumentsStep, OpenInputStep, ReadHeaderStep,
       CreateImageStep, ReadRowStep, SkipPaddingStep, ReadDoneStep DEF Read
  <2>2. CASE Transform
    BY <1>1, <2>2, StartFlipStep, FlipStep, FlipDoneStep, StartRotateStep,
       RotateStep, RotateCrashStep, RotateDoneStep DEF Transform
  <2>3. CASE Write
    BY <1>1, <2>3, OpenOutputStep, WriteHeaderStep, WriteRowStep,
       WritePaddingStep, WriteDoneStep DEF Write
  <2>4. CASE UNCHANGED vars
    BY <1>1, <2>4 DEF vars, control, input, memory, loops, IInv, TypeOK,
       HeapOwned, Finished, Streams, Pictures, Work, Progress, Held,
       SuccessFreesAll, Succeeded
  <2> QED
    BY <1>1, <2>1, <2>2, <2>3, <2>4 DEF Next
<1> QED
  BY InitStep, <1>1, PTL DEF Spec

(* Every variable of image-transform keeps its type.                       *)
THEOREM TypeCorrect == Spec => []TypeOK
<1>1. IInv => TypeOK
  BY DEF IInv
<1> QED
  BY Invariance, <1>1, PTL

(* The live blocks are those of the two pictures, through every            *)
(* transformation and every failure on the way.                            *)
THEOREM Owned == Spec => []HeapOwned
<1>1. IInv => HeapOwned
  BY DEF IInv
<1> QED
  BY Invariance, <1>1, PTL

(* The two streams are never open together, and none is left open by a     *)
(* return of main.                                                         *)
THEOREM Closed == Spec => []StreamsClosed
<1>1. IInv => StreamsClosed
  BY DEF IInv, Streams, Reading, Writing, StreamsClosed
<1> QED
  BY Invariance, <1>1, PTL

(* A main that returns 0 has freed all pixels.                             *)
THEOREM Freed == Spec => []SuccessFreesAll
<1>1. IInv => SuccessFreesAll
  BY DEF IInv
<1> QED
  BY Invariance, <1>1, PTL

(* No file too short for its sizes ever leads to an output.                *)
THEOREM ShortFile == Spec => []ShortFileGivesNothing
<1>1. IInv => ShortFileGivesNothing
  BY DEF IInv, Progress, Held, ShortFileGivesNothing
<1> QED
  BY Invariance, <1>1, PTL

-----------------------------------------------------------------------------
(* What the right output is, part by part                                  *)

(* The ends of what main applies.                                          *)
LEMMA Plans ==
  /\ Steps["none"] = << >> /\ Steps["fliph"] = <<"flip">>
  /\ Steps["flipv"] = <<"flip", "ccw", "ccw">>
  /\ Steps["ccw90"] = <<"ccw">> /\ Steps["cw90"] = <<"cw">>
  /\ DOMAIN Steps = {"none", "fliph", "flipv", "ccw90", "cw90"}
  BY DEF Steps

LEMMA Tails ==
  /\ Head(<<"flip">>) = "flip" /\ Head(<<"ccw">>) = "ccw" /\ Head(<<"cw">>) = "cw"
  /\ Head(<<"ccw", "ccw">>) = "ccw" /\ Head(<<"flip", "ccw", "ccw">>) = "flip"
  /\ Tail(<<"flip">>) = << >> /\ Tail(<<"ccw">>) = << >> /\ Tail(<<"cw">>) = << >>
  /\ Tail(<<"ccw", "ccw">>) = <<"ccw">>
  /\ Tail(<<"flip", "ccw", "ccw">>) = <<"ccw", "ccw">>
  /\ <<"ccw">> # << >> /\ <<"ccw", "ccw">> # << >> /\ <<"cw">> # << >>
  /\ <<"flip">> # << >> /\ <<"flip", "ccw", "ccw">> # << >>
  /\ <<"ccw">> # <<"ccw", "ccw">> /\ <<"ccw">> # <<"cw">> /\ <<"ccw">> # <<"flip">>
  /\ <<"flip", "ccw", "ccw">> # <<"ccw", "ccw">>
  /\ <<"flip", "ccw", "ccw">> # <<"ccw">>
  OBVIOUS

(* The sizes of the right picture.                                         *)
LEMMA RightSizes ==
  ASSUME TypeOK
  PROVE  /\ file.width \in Nat /\ file.height \in Nat
         /\ Width \in Nat /\ Height \in Nat
         /\ RowLength = Width + get_padding(Width) /\ RowLength \in Nat
         /\ Stride(Width) = 3 * Width + get_padding(Width)
         /\ get_padding(Width) \in 0 .. 3
         /\ Total \in Nat /\ Total = 1 + Height * RowLength
<1>1. file.width \in Nat /\ file.height \in Nat
  BY FilesAssumption DEF TypeOK
<1>2. Width \in Nat /\ Height \in Nat
  BY <1>1 DEF Width, Height
<1>3. Stride(Width) = 3 * Width + get_padding(Width) /\ get_padding(Width) \in 0 .. 3
  BY <1>2, StrideIs
<1>4. RowLength = Width + get_padding(Width) /\ RowLength \in Nat
  BY <1>2, <1>3 DEF RowLength
<1>5. Height * RowLength \in Nat
  BY <1>2, <1>4
<1> QED
  BY <1>1, <1>2, <1>3, <1>4, <1>5 DEF Total

(* The header the right output has.                                        *)
RightHeader ==
  [width |-> Width, height |-> Height, biSizeImage |-> Height * Stride(Width)]

(* What Expected says, place by place.                                     *)
LEMMA RightIs ==
  ASSUME TypeOK
  PROVE  /\ Len(Right) = Total
         /\ Right = Beginning(Total)
         /\ Right[1] = RightHeader
         /\ \A r \in 0 .. Height - 1, c \in 0 .. RowLength - 1 :
              Right[2 + r * RowLength + c] =
                IF c < Width THEN Place(Source(r, c)) ELSE Pad
<1> DEFINE cell(i) == LET r == i \div RowLength  c == i % RowLength
                      IN  IF c < Width THEN Place(Source(r, c)) ELSE Pad
           n == Height * RowLength
           body == [i \in 1 .. n |-> cell(i - 1)]
           Parts == {RightHeader} \cup {cell(i) : i \in Nat}
<1>1. n \in Nat /\ Total = 1 + n /\ RowLength \in Nat /\ Height \in Nat
  BY RightSizes
<1>2. RowLength = Width + (Stride(Width) - 3 * Width)
  BY RightSizes
<1>3. Right = <<RightHeader>> \o body
  BY <1>2 DEF Right, Expected, RightHeader
<1> HIDE DEF cell, n
<1>4. body \in Seq(Parts) /\ Len(body) = n
  BY <1>1
<1>5. <<RightHeader>> \in Seq(Parts)
  OBVIOUS
<1>6. Len(Right) = Total
  BY <1>1, <1>3, <1>4, <1>5
<1>7. Right[1] = RightHeader
  BY <1>1, <1>3, <1>4, <1>5
<1>8. \A i \in 1 .. n : Right[1 + i] = cell(i - 1)
  BY <1>1, <1>3, <1>4, <1>5
<1>9. Right = Beginning(Total)
  <2>1. Right \in Seq(Parts)
    BY <1>3, <1>4, <1>5, ConcatProperties
  <2>2. Right = [i \in 1 .. Total |-> Right[i]]
    BY <1>6, <2>1, LenProperties
  <2> QED
    BY <2>2, Zenon DEF Beginning
<1>10. ASSUME NEW r \in 0 .. Height - 1, NEW c \in 0 .. RowLength - 1
       PROVE  Right[2 + r * RowLength + c] =
                IF c < Width THEN Place(Source(r, c)) ELSE Pad
  <2> DEFINE i == r * RowLength + c
  <2>1. i \in 0 .. n - 1
    BY <1>1, CellIndex DEF n
  <2>2. i \div RowLength = r /\ i % RowLength = c
    BY <1>1, RowAndColumn
  <2> HIDE DEF i
  <2>3. Right[1 + (i + 1)] = cell(i)
    BY <1>1, <1>8, <2>1
  <2>4. 1 + (i + 1) = 2 + r * RowLength + c
    BY <1>1, <2>1 DEF i
  <2> QED
    BY <2>2, <2>3, <2>4 DEF cell
<1> QED
  BY <1>6, <1>7, <1>9, <1>10

(* The beginnings of the right output are sequences, each a prefix of it.  *)
LEMMA Beginnings ==
  ASSUME TypeOK, NEW n \in 0 .. Total
  PROVE  IsPrefix(Beginning(n), Right) /\ Len(Beginning(n)) = n
<1> DEFINE Parts == {Right[i] : i \in 1 .. Total}
<1>1. Total \in Nat /\ n \in Nat
  BY RightSizes
<1>2. Right = [i \in 1 .. Total |-> Right[i]] /\ Len(Right) = Total
  BY RightIs DEF Beginning
<1>3. Right \in Seq(Parts)
  BY <1>1, <1>2
<1>4. Beginning(n) \in Seq(Parts) /\ Len(Beginning(n)) = n
  BY <1>1 DEF Beginning
<1>5. SubSeq(Beginning(n), 1, n) = SubSeq(Right, 1, n)
  BY <1>1, <1>2, <1>3, <1>4 DEF Beginning
<1>6. n <= Total
  BY <1>1
<1> HIDE DEF Parts
<1> QED
  BY <1>2, <1>4, <1>5, <1>6, Zenon DEF IsPrefix

(* Writing what comes next makes a longer beginning.                       *)
LEMMA Longer ==
  ASSUME TypeOK, NEW n \in Nat, NEW m \in Nat, n + m <= Total,
         NEW part, part = [i \in 1 .. m |-> part[i]],
         \A i \in 1 .. m : part[i] = Right[n + i]
  PROVE  Beginning(n) \o part = Beginning(n + m)
<1> DEFINE Parts == {Right[i] : i \in 1 .. Total}
<1>1. Total \in Nat
  BY RightSizes
<1>2. Beginning(n) \in Seq(Parts) /\ Len(Beginning(n)) = n
  BY <1>1 DEF Beginning
<1>3. part \in Seq(Parts) /\ Len(part) = m
  BY <1>1
<1>4. Beginning(n + m) \in Seq(Parts) /\ Len(Beginning(n + m)) = n + m
  BY <1>1 DEF Beginning
<1>5. \A i \in 1 .. n + m : (Beginning(n) \o part)[i] = Beginning(n + m)[i]
  BY <1>1, <1>2, <1>3 DEF Beginning
<1>6. Beginning(n) \o part \in Seq(Parts) /\ Len(Beginning(n) \o part) = n + m
  BY <1>2, <1>3
<1> HIDE DEF Parts
<1> QED
  BY <1>4, <1>5, <1>6, SeqEqual

(* Nothing is written yet: the shortest of them.                           *)
LEMMA NoneWritten == Beginning(0) = << >>
  BY DEF Beginning

-----------------------------------------------------------------------------
(* The cells of a block                                                    *)

(* Until the end, each place of main's picture has its cell.               *)
LEMMA OwnCell ==
  ASSUME IInv, ~Finished, NEW r \in Rows, NEW c \in Columns
  PROVE  /\ img.data # NULL /\ img.data \in DOMAIN heap
         /\ r * img.width + c \in DOMAIN heap[img.data]
         /\ is_valid_index(img, r * img.width + c)
<1>1. img.width \in Nat /\ img.height \in Nat
  BY DEF IInv, TypeOK, Image
<1>2. r * img.width + c \in 0 .. img.width * img.height - 1
  BY <1>1, CellIndex DEF Rows, Columns
<1>3. img.width * img.height \in Nat
  BY <1>1
<1>4. img.data # NULL
  BY <1>2, <1>3 DEF IInv, HeapOwned
<1>5. img.data \in DOMAIN heap /\ DOMAIN heap[img.data] = 0 .. img.width * img.height - 1
  BY <1>4 DEF IInv, HeapOwned
<1> QED
  BY <1>2, <1>3, <1>4, <1>5 DEF is_valid_index

(* A store through a valid index changes that cell.                        *)
LEMMA SetPixelIs ==
  ASSUME NEW h, NEW im, NEW i, NEW pixel, is_valid_index(im, i),
         im.data \in DOMAIN h, i \in DOMAIN h[im.data],
         NEW x \in DOMAIN h, NEW j \in DOMAIN h[x]
  PROVE  set_pixel(h, im, i, pixel)[x][j] =
           IF x = im.data /\ j = i THEN pixel ELSE h[x][j]
  BY DEF set_pixel

(* The exchange of the pixels of two places, and no other.                 *)
LEMMA SwapIs ==
  ASSUME NEW left, NEW right, left # right, img.data \in DOMAIN heap,
         left \in DOMAIN heap[img.data], right \in DOMAIN heap[img.data],
         is_valid_index(img, left), is_valid_index(img, right),
         NEW j \in DOMAIN heap[img.data]
  PROVE  swap(left, right)[img.data][j] =
           IF j = left THEN heap[img.data][right]
           ELSE IF j = right THEN heap[img.data][left]
           ELSE heap[img.data][j]
<1> DEFINE moved == set_pixel(heap, img, left, get_pixel(heap, img, right))
           temp  == get_pixel(heap, img, left)
<1>1. /\ get_pixel(heap, img, right) = heap[img.data][right]
      /\ temp = heap[img.data][left]
  BY DEF get_pixel
<1>2. SameBlocks(moved, heap)
  BY SetPixel
<1>3. moved[img.data][j] = IF j = left THEN heap[img.data][right] ELSE heap[img.data][j]
  BY <1>1, SetPixelIs
<1>4. swap(left, right) = set_pixel(moved, img, right, temp)
  BY DEF swap
<1> HIDE DEF moved, temp
<1>5. /\ img.data \in DOMAIN moved /\ right \in DOMAIN moved[img.data]
      /\ j \in DOMAIN moved[img.data]
  BY <1>2 DEF SameBlocks
<1>6. set_pixel(moved, img, right, temp)[img.data][j] =
        IF j = right THEN temp ELSE moved[img.data][j]
  BY <1>5, SetPixelIs
<1> QED
  BY <1>1, <1>3, <1>4, <1>6

-----------------------------------------------------------------------------
(* What the parameter and the file decide does not change.                 *)
LEMMA SameInput ==
  ASSUME UNCHANGED <<param, file>>
  PROVE  /\ \A r, c : Source(r, c)' = Source(r, c)
         /\ \A rc : Place(rc)' = Place(rc)
         /\ Width' = Width /\ Height' = Height
         /\ RowLength' = RowLength /\ Total' = Total
         /\ \A n : Beginning(n)' = Beginning(n)
<1>1. /\ \A r, c : Source(r, c)' = Source(r, c)
      /\ \A rc : Place(rc)' = Place(rc)
      /\ Width' = Width /\ Height' = Height
  BY DEF Source, Place, Width, Height, Turned
<1>2. RowLength' = RowLength /\ Total' = Total
  BY <1>1 DEF RowLength, Total
<1>3. Right' = Right
  BY DEF Right, Expected, Source, Place, Width, Height, Turned
<1>4. \A n : Beginning(n)' = Beginning(n)
  BY <1>3 DEF Beginning
<1> QED
  BY <1>1, <1>2, <1>4

(* Nor what the pictures show, while nothing more is applied.              *)
LEMMA SameStep ==
  ASSUME UNCHANGED <<param, file, todo>>
  PROVE  /\ \A r, c : Place(Came(r, c))' = Place(Came(r, c))
         /\ OnItsSide' = OnItsSide
  BY DEF Place, Came, Source, OnItsSide, Midway, Turned

(* Where there is no picture, all that counts is what is written.          *)
LEMMA Outside ==
  ASSUME UNCHANGED <<param, file>>,
         pc' \notin Chosen \cup {"read_row", "read_skip"},
         pc' = "exited" => \E n \in 0 .. Total : out' = Beginning(n),
         pc' # "exited" => out' = << >>,
         Succeeded' => out' = Beginning(Total)
  PROVE  PInv'
<1>1. Stage' /\ Sized' /\ ReadSoFar' /\ FlippedSoFar' /\ Shown' /\ RotatedSoFar'
  BY DEF Stage, Sized, ReadSoFar, FlippedSoFar, Shown, RotatedSoFar, Chosen, Writing
<1>2. Written'
  BY SameInput DEF Written, Chosen, Writing
<1> QED
  BY <1>1, <1>2 DEF PInv

(* Giving up before anything is written.                                   *)
LEMMA GivesUp ==
  ASSUME IInv, PInv, UNCHANGED <<param, file, out>>, out = << >>,
         pc' \notin Chosen \cup {"read_row", "read_skip"},
         pc' = "exited" => code' # 0
  PROVE  PInv'
<1>1. Total \in Nat
  BY RightSizes DEF IInv
<1>2. 0 \in 0 .. Total /\ out' = Beginning(0)
  BY <1>1, NoneWritten
<1> QED
  BY <1>2, Outside DEF Succeeded

-----------------------------------------------------------------------------
(* The steps again: each keeps PInv.  First from_bmp.                      *)

(* Before there is a picture.                                              *)
LEMMA BeforePixels ==
  IInv /\ PInv /\ (CheckArguments \/ OpenInput \/ ReadHeader) => PInv'
<1> SUFFICES ASSUME IInv, PInv, CheckArguments \/ OpenInput \/ ReadHeader
             PROVE  PInv'
  OBVIOUS
<1> USE DEF CheckArguments, OpenInput, ReadHeader, ReadFails, Go, Exit, input, loops
<1>1. UNCHANGED <<param, file, out>>
  OBVIOUS
<1>2. out = << >>
  BY DEF PInv, Written, Writing
<1>3. pc' \in {"open_in", "header", "create", "exited"} /\ (pc' = "exited" => code' # 0)
  OBVIOUS
<1>4. pc' \notin Chosen \cup {"read_row", "read_skip"}
  BY <1>3 DEF Chosen, Writing
<1> QED
  BY <1>1, <1>2, <1>3, <1>4, GivesUp

(* No row is read yet.                                                     *)
LEMMA CreateImagePixels == IInv /\ PInv /\ CreateImage => PInv'
<1> SUFFICES ASSUME IInv, PInv, CreateImage PROVE PInv'
  OBVIOUS
<1> USE DEF CreateImage, ReadFails, Go, Exit, input
<1>1. UNCHANGED <<param, file, out>> /\ out = << >>
  BY DEF PInv, Written, Writing
<1>2. CASE pc' = "exited"
  <2>1. pc' \notin Chosen \cup {"read_row", "read_skip"} /\ code' # 0
    BY <1>2 DEF Chosen, Writing
  <2> QED
    BY <1>1, <2>1, GivesUp
<1>3. CASE pc' = "read_row"
  <2>1. row' = 0
    BY <1>3
  <2>2. ReadSoFar'
    BY <1>3, <2>1 DEF ReadSoFar, Rows
  <2>3. Stage' /\ Sized' /\ FlippedSoFar' /\ Shown' /\ RotatedSoFar'
    BY <1>3 DEF Stage, Sized, FlippedSoFar, Shown, RotatedSoFar, Chosen, Writing
  <2>4. Written'
    BY <1>1, <1>3 DEF Written, Writing, Succeeded
  <2> QED
    BY <2>2, <2>3, <2>4 DEF PInv
<1> QED
  BY <1>2, <1>3

(* A row that is read whole has the pixels of its place in the file.       *)
LEMMA ReadRowPixels == IInv /\ PInv /\ ReadRow => PInv'
<1> SUFFICES ASSUME IInv, PInv, ReadRow PROVE PInv'
  OBVIOUS
<1> USE DEF ReadRow, ReadFails, Go, Exit, loops
<1>1. UNCHANGED <<param, file, out, img, row>> /\ out = << >> /\ pc = "read_row"
  BY DEF PInv, Written, Writing
<1>2. CASE pc' = "exited"
  <2>1. pc' \notin Chosen \cup {"read_row", "read_skip"} /\ code' # 0
    BY <1>2 DEF Chosen, Writing
  <2> QED
    BY <1>1, <2>1, GivesUp
<1>3. CASE pc' = "read_skip"
  <2>1. heap' = [heap EXCEPT ![img.data] =
            [i \in DOMAIN @ |-> IF i \in img.width * row .. img.width * row + img.width - 1
                                THEN pos + 3 * (i - img.width * row) ELSE @[i]]]
    BY <1>3 DEF count_is_width
  <2>2. /\ img.width \in Nat /\ row \in Nat /\ row < img.height /\ pos \in Nat
        /\ img.width = file.width /\ pos = row * Stride(file.width)
        /\ img.height \in Nat
    BY <1>1 DEF IInv, TypeOK, Image, Progress
  <2>3. ASSUME NEW r \in Rows, NEW c \in Columns, r <= row
        PROVE  heap'[img.data][r * img.width + c] = Place(<<r, c>>)
    <3> DEFINE i == r * img.width + c
    <3>1. /\ img.data \in DOMAIN heap /\ i \in DOMAIN heap[img.data]
      BY <1>1, OwnCell DEF Finished
    <3>2. heap'[img.data][i] =
            IF i \in img.width * row .. img.width * row + img.width - 1
            THEN pos + 3 * (i - img.width * row) ELSE heap[img.data][i]
      BY <2>1, <3>1
    <3>3. CASE r = row
      <4>1. i = img.width * row + c /\ c \in Nat /\ c <= img.width - 1
        BY <2>2, <3>3 DEF Columns
      <4>2. img.width * row \in Nat
        BY <2>2
      <4>3. i \in img.width * row .. img.width * row + img.width - 1 /\ i - img.width * row = c
        BY <2>2, <4>1, <4>2
      <4>4. heap'[img.data][i] = pos + 3 * c
        BY <3>2, <4>3
      <4> QED
        BY <2>2, <3>3, <4>4 DEF Place
    <3>4. CASE r # row
      <4>1. r < row /\ r \in Nat
        <5>1. r \in Nat
          BY <2>2 DEF Rows
        <5> HIDE DEF ReadRow
        <5> QED
          BY <2>2, <2>3, <3>4, <5>1
      <4>2. i \in 0 .. img.width * row - 1
        BY <2>2, <4>1, CellIndex DEF Columns
      <4>3. i \notin img.width * row .. img.width * row + img.width - 1
        <5>1. img.width * row \in Nat
          BY <2>2
        <5> QED
          BY <4>2, <5>1
      <4>4. heap[img.data][i] = Place(<<r, c>>)
        BY <1>1, <4>1 DEF PInv, ReadSoFar, Cell
      <4> QED
        BY <3>2, <4>3, <4>4
    <3> QED
      BY <3>3, <3>4
  <2>4. ReadSoFar'
    <3>1. \A rc : Place(rc)' = Place(rc)
      BY <1>1, SameInput
    <3>2. \A r \in Rows : r < row \/ r = row => r <= row
      BY <2>2 DEF Rows
    <3> QED
      BY <1>1, <1>3, <2>3, <3>1, <3>2 DEF ReadSoFar, Rows, Columns, Cell
  <2>5. Stage' /\ Sized' /\ FlippedSoFar' /\ Shown' /\ RotatedSoFar'
    BY <1>3 DEF Stage, Sized, FlippedSoFar, Shown, RotatedSoFar, Chosen, Writing
  <2>6. Written'
    BY <1>1, <1>3 DEF Written, Writing, Succeeded
  <2> QED
    BY <2>4, <2>5, <2>6 DEF PInv
<1> QED
  BY <1>2, <1>3

(* Then it counts as read.                                                 *)
LEMMA SkipPaddingPixels == IInv /\ PInv /\ SkipPadding => PInv'
<1> SUFFICES ASSUME IInv, PInv, SkipPadding PROVE PInv'
  OBVIOUS
<1> USE DEF SkipPadding, ReadFails, Go, Exit, memory
<1>1. UNCHANGED <<param, file, out, img, heap>> /\ out = << >> /\ pc = "read_skip"
  BY DEF PInv, Written, Writing
<1>2. CASE pc' = "exited"
  <2>1. pc' \notin Chosen \cup {"read_row", "read_skip"} /\ code' # 0
    BY <1>2 DEF Chosen, Writing
  <2> QED
    BY <1>1, <2>1, GivesUp
<1>3. CASE pc' = "read_row"
  <2>1. row' = row + 1 /\ row \in Nat /\ img.height \in Nat
    BY <1>3 DEF IInv, TypeOK, Image
  <2>2. \A r \in Rows : r < row + 1 => r < row \/ r = row
    BY <2>1 DEF Rows
  <2>3. ReadSoFar'
    <3>1. \A rc : Place(rc)' = Place(rc)
      BY <1>1, SameInput
    <3> QED
      BY <1>1, <1>3, <2>1, <2>2, <3>1 DEF PInv, ReadSoFar, Rows, Columns, Cell
  <2>4. Stage' /\ Sized' /\ FlippedSoFar' /\ Shown' /\ RotatedSoFar'
    BY <1>3 DEF Stage, Sized, FlippedSoFar, Shown, RotatedSoFar, Chosen, Writing
  <2>5. Written'
    BY <1>1, <1>3 DEF Written, Writing, Succeeded
  <2> QED
    BY <2>3, <2>4, <2>5 DEF PInv
<1> QED
  BY <1>2, <1>3

(* With all rows read, the picture is the file's.                          *)
LEMMA ReadDonePixels == IInv /\ PInv /\ ReadDone => PInv'
<1> SUFFICES ASSUME IInv, PInv, ReadDone PROVE PInv'
  OBVIOUS
<1> USE DEF ReadDone, Go, Exit, input, memory
<1>1. UNCHANGED <<param, file, out, img, heap>> /\ out = << >> /\ pc = "read_row"
  BY DEF PInv, Written, Writing
<1>2. CASE pc' = "exited"
  <2>1. pc' \notin Chosen \cup {"read_row", "read_skip"} /\ (pc' = "exited" => code' # 0)
    BY <1>2 DEF Chosen, Writing
  <2> QED
    BY <1>1, <2>1, GivesUp
<1>3. CASE pc' = "transform"
  <2>1. param \in DOMAIN Steps /\ todo' = Steps[param]
    BY <1>3
  <2>2. Stage'
    BY <1>1, <1>3, <2>1 DEF Stage, Writing
  <2>3. /\ \A r, c : Came(r, c)' = <<r, c>>
        /\ ~OnItsSide'
    BY <1>1, <2>1, Plans, Tails DEF Came, Source, OnItsSide, Midway, Turned
  <2>4. Sized'
    BY <1>1, <2>3 DEF IInv, Progress, Sized
  <2>5. Shown'
    <3>1. \A rc : Place(rc)' = Place(rc)
      BY <1>1, SameInput
    <3>2. \A r, c : Place(Came(r, c))' = Place(<<r, c>>)
      BY <1>1, <2>3 DEF Place
    <3>3. row = img.height /\ img.height \in Nat /\ \A r \in Rows : r < row
      BY DEF IInv, TypeOK, Image, Rows
    <3> QED
      BY <1>1, <3>2, <3>3 DEF PInv, ReadSoFar, Shown, Rows, Columns, Cell
  <2>6. ReadSoFar' /\ FlippedSoFar' /\ RotatedSoFar'
    BY <1>3 DEF ReadSoFar, FlippedSoFar, RotatedSoFar
  <2>7. Written'
    BY <1>1, <1>3 DEF Written, Writing, Succeeded
  <2> QED
    BY <2>2, <2>4, <2>5, <2>6, <2>7 DEF PInv
<1> QED
  BY <1>2, <1>3

-----------------------------------------------------------------------------
(* The transformations                                                     *)

(* The flip is always the first to be applied.                             *)
LEMMA FlipFirst ==
  ASSUME Stage, pc \in Chosen, todo # << >>, Head(todo) = "flip"
  PROVE  /\ \/ param = "fliph" /\ todo = <<"flip">>
            \/ param = "flipv" /\ todo = <<"flip", "ccw", "ccw">>
         /\ \A r, c : Came(r, c) = <<r, c>>
         /\ ~OnItsSide
<1>1. \/ param = "fliph" /\ todo = <<"flip">>
      \/ param = "flipv" /\ todo = <<"flip", "ccw", "ccw">>
  BY Plans, Tails DEF Stage
<1> QED
  BY <1>1, Tails DEF Came, OnItsSide, Midway, Turned

(* And what is left after it.                                              *)
LEMMA FlipThen ==
  ASSUME Stage, pc \in Chosen, todo # << >>, Head(todo) = "flip",
         UNCHANGED <<param, file>>, todo' = Tail(todo)
  PROVE  /\ todo' = << >> \/ (param = "flipv" /\ todo' = <<"ccw", "ccw">>)
         /\ \A r, c : Came(r, c)' = <<r, file.width - 1 - c>>
         /\ ~OnItsSide'
<1>1. \/ param = "fliph" /\ todo' = << >>
      \/ param = "flipv" /\ todo' = <<"ccw", "ccw">>
  BY FlipFirst, Tails
<1> QED
  BY <1>1, Tails DEF Came, Source, OnItsSide, Midway, Turned

(* A rotation, with what is left.                                          *)
LEMMA RotateFirst ==
  ASSUME Stage, pc \in Chosen, todo # << >>, Head(todo) \in {"ccw", "cw"}
  PROVE  \/ param = "flipv" /\ todo \in {<<"ccw", "ccw">>, <<"ccw">>}
         \/ param = "ccw90" /\ todo = <<"ccw">>
         \/ param = "cw90" /\ todo = <<"cw">>
  BY Plans, Tails DEF Stage

(* After it each place shows what the place did that its pixel is from.    *)
LEMMA RotateThen ==
  ASSUME IInv, Stage, Sized, pc \in Chosen, todo # << >>, Head(todo) \in {"ccw", "cw"},
         UNCHANGED <<param, file>>, todo' = Tail(todo)
  PROVE  /\ todo' = << >> \/ (param = "flipv" /\ todo' = <<"ccw">>)
         /\ (OnItsSide' <=> ~OnItsSide)
         /\ \A r, c \in Int :
              Came(r, c)' = IF Head(todo) = "ccw" THEN Came(img.height - 1 - c, r)
                                                  ELSE Came(c, img.width - 1 - r)
<1>1. file.width \in Nat /\ file.height \in Nat
  BY RightSizes DEF IInv
<1>2. CASE param = "flipv" /\ todo = <<"ccw", "ccw">>
  <2>1. todo' = <<"ccw">> /\ Midway' /\ ~OnItsSide /\ ~Midway /\ Head(todo) = "ccw"
    BY <1>2, Tails DEF Midway, OnItsSide, Turned
  <2>2. \A r, c : Came(r, c)' = <<file.height - 1 - c, file.width - 1 - r>>
    BY <2>1, Tails DEF Came
  <2>3. \A r, c : Came(r, c) = <<r, file.width - 1 - c>>
    BY <1>2, <2>1, Tails DEF Came
  <2> QED
    BY <1>2, <2>1, <2>2, <2>3 DEF Sized, OnItsSide
<1>3. CASE param = "flipv" /\ todo = <<"ccw">>
  <2>1. todo' = << >> /\ ~OnItsSide' /\ OnItsSide /\ Midway /\ ~Midway' /\ Head(todo) = "ccw"
    BY <1>3, Tails DEF Midway, OnItsSide, Turned
  <2>2. \A r, c : Came(r, c)' = <<file.height - 1 - r, c>>
    BY <1>3, <2>1, Tails DEF Came, Source
  <2>3. \A r, c : Came(r, c) = <<file.height - 1 - c, file.width - 1 - r>>
    BY <1>3, <2>1, Tails DEF Came
  <2>4. ASSUME NEW r \in Int, NEW c \in Int
        PROVE  Came(img.height - 1 - c, r) = <<file.height - 1 - r, c>>
    BY <1>1, <2>1, <2>3 DEF Sized
  <2>5. \A r, c \in Int : Came(r, c)' = Came(img.height - 1 - c, r)
    BY <2>2, <2>4
  <2>6. OnItsSide' <=> ~OnItsSide
    BY <2>1
  <2> QED
    BY <2>1, <2>5, <2>6
<1>4. CASE param = "ccw90" /\ todo = <<"ccw">>
  <2>1. todo' = << >> /\ OnItsSide' /\ ~OnItsSide /\ ~Midway /\ ~Midway' /\ Head(todo) = "ccw"
    BY <1>4, Tails DEF Midway, OnItsSide, Turned
  <2>2. \A r, c : Came(r, c)' = <<file.height - 1 - c, r>>
    BY <1>4, <2>1, Tails DEF Came, Source
  <2>3. \A r, c : Came(r, c) = <<r, c>>
    BY <1>4, <2>1, Tails DEF Came
  <2> QED
    BY <2>1, <2>2, <2>3 DEF Sized
<1>5. CASE param = "cw90" /\ todo = <<"cw">>
  <2>1. todo' = << >> /\ OnItsSide' /\ ~OnItsSide /\ ~Midway /\ ~Midway' /\ Head(todo) = "cw"
    BY <1>5, Tails DEF Midway, OnItsSide, Turned
  <2>2. \A r, c : Came(r, c)' = <<c, file.width - 1 - r>>
    BY <1>5, <2>1, Tails DEF Came, Source
  <2>3. \A r, c : Came(r, c) = <<r, c>>
    BY <1>5, <2>1, Tails DEF Came
  <2> QED
    BY <2>1, <2>2, <2>3 DEF Sized
<1> QED
  BY <1>2, <1>3, <1>4, <1>5, RotateFirst

(* A transformation begins.                                                *)
LEMMA StartFlipPixels == IInv /\ PInv /\ StartFlip => PInv'
<1> SUFFICES ASSUME IInv, PInv, StartFlip PROVE PInv'
  OBVIOUS
<1> USE DEF StartFlip, Go, Begin, input, memory
<1>1. UNCHANGED <<param, file, out, img, heap, todo>> /\ out = << >> /\ pc \in Chosen
  BY DEF PInv, Written, Writing, Chosen
<1>2. (\A r, c : Came(r, c) = <<r, c>>) /\ ~OnItsSide
  BY <1>1, FlipFirst DEF PInv
<1>3. Stage'
  BY <1>1 DEF PInv, Stage, Chosen, Writing
<1>4. Sized'
  BY <1>1, SameStep DEF PInv, Sized
<1>5. FlippedSoFar'
  <2>1. img.width \in Nat /\ img.height \in Nat /\ row' = 0 /\ col' = 0
    BY DEF IInv, TypeOK, Image
  <2>2. InLoop(img.width \div 2, img.height)'
    BY <1>1, <2>1 DEF InLoop
  <2>3. \A r \in Rows, c \in Columns : ~Flipped(r, c)'
    BY <1>1, <2>1 DEF Flipped, Rows, Columns
  <2>4. \A rc : Place(rc)' = Place(rc)
    BY <1>1, SameInput
  <2> QED
    BY <1>1, <1>2, <2>2, <2>3, <2>4 DEF PInv, FlippedSoFar, Shown, Chosen, Rows, Columns, Cell
<1>6. ReadSoFar' /\ Shown' /\ RotatedSoFar'
  BY DEF ReadSoFar, Shown, RotatedSoFar, Chosen
<1>7. Written'
  BY <1>1 DEF Written, Writing, Succeeded
<1> QED
  BY <1>3, <1>4, <1>5, <1>6, <1>7 DEF PInv

(* An exchange puts two pixels where they belong.                          *)
LEMMA FlipPixels == IInv /\ PInv /\ Flip => PInv'
<1> SUFFICES ASSUME IInv, PInv, Flip PROVE PInv'
  OBVIOUS
<1> DEFINE W == img.width
           half == W \div 2
           left == row * W + col
           right == row * W + (W - col - 1)
           From(r, c) == IF Flipped(r, c) THEN W - 1 - c ELSE c
<1>1. /\ UNCHANGED <<param, file, out, img, todo, pc, rotated>>
      /\ out = << >> /\ pc = "flip" /\ pc \in Chosen
  BY DEF Flip, PInv, Written, Writing, Chosen, control, input
<1>2. /\ W \in Nat /\ img.height \in Nat /\ row \in Nat /\ col \in Nat
      /\ half \in Nat /\ 2 * half <= W /\ W <= 2 * half + 1
  BY DEF IInv, TypeOK, Image
<1>3. row < img.height /\ half > 0 /\ col < half
  <2>1. row # img.height /\ half # 0
    BY DEF Flip, Over
  <2>2. row <= img.height /\ (row < img.height /\ half > 0 => col < half)
    BY <1>1 DEF PInv, FlippedSoFar, InLoop
  <2> HIDE DEF half
  <2> QED
    BY <1>2, <2>1, <2>2
<1>4. IF col + 1 < half THEN col' = col + 1 /\ row' = row
                        ELSE col' = 0 /\ row' = row + 1
  BY DEF Flip, Advance
<1>5. heap' = swap(left, right)
  BY DEF Flip
<1> HIDE DEF half
<1>6. row \in Rows /\ col \in Columns /\ W - col - 1 \in Columns
  BY <1>2, <1>3 DEF Rows, Columns
<1>7. /\ img.data \in DOMAIN heap
      /\ left \in DOMAIN heap[img.data] /\ right \in DOMAIN heap[img.data]
      /\ is_valid_index(img, left) /\ is_valid_index(img, right)
  BY <1>1, <1>6, OwnCell DEF Finished
<1>8. left # right
  <2>1. row * W \in Nat
    BY <1>2
  <2> QED
    BY <1>2, <1>3, <2>1
<1>9. \A r \in Rows, c \in Columns : Cell(img, r * W + c) = Place(<<r, From(r, c)>>)
  BY <1>1 DEF PInv, FlippedSoFar
<1>10. ASSUME NEW r \in Rows, NEW c \in Columns
       PROVE  From(r, c)' = IF r = row /\ (c = col \/ c = W - 1 - col)
                            THEN W - 1 - c ELSE From(r, c)
  <2>1. r \in Nat /\ c \in Nat /\ c < W
    BY <1>2 DEF Rows, Columns
  <2>2. Flipped(r, c)' <=> (r < row' \/ (r = row' /\ (c < col' \/ c > W - 1 - col')))
    BY <1>1 DEF Flipped
  <2>3. From(r, c)' = IF Flipped(r, c)' THEN W - 1 - c ELSE c
    BY <1>1
  <2>4. CASE col + 1 < half
    BY <1>2, <1>3, <1>4, <2>1, <2>2, <2>3, <2>4 DEF Flipped
  <2>5. CASE ~(col + 1 < half)
    BY <1>2, <1>3, <1>4, <2>1, <2>2, <2>3, <2>5 DEF Flipped
  <2> QED
    BY <2>4, <2>5
<1>11. ASSUME NEW r \in Rows, NEW c \in Columns
       PROVE  heap'[img.data][r * W + c] = Place(<<r, From(r, c)'>>)
  <2> DEFINE i == r * W + c
  <2>1. r \in Nat /\ c \in 0 .. W - 1 /\ W - col - 1 \in 0 .. W - 1 /\ col \in 0 .. W - 1
    BY <1>2, <1>6 DEF Rows, Columns
  <2>2. i \in DOMAIN heap[img.data]
    BY <1>1, OwnCell DEF Finished
  <2>3. heap'[img.data][i] = IF i = left THEN heap[img.data][right]
                             ELSE IF i = right THEN heap[img.data][left]
                             ELSE heap[img.data][i]
    BY <1>5, <1>7, <1>8, <2>2, SwapIs
  <2>4. ~Flipped(row, col) /\ ~Flipped(row, W - col - 1)
    BY <1>2, <1>3 DEF Flipped
  <2>5. /\ heap[img.data][left] = Place(<<row, col>>)
        /\ heap[img.data][right] = Place(<<row, W - col - 1>>)
    BY <1>6, <1>9, <2>4 DEF Cell
  <2>6. CASE r = row /\ c = col
    <3>1. From(r, c)' = W - col - 1
      BY <1>2, <1>10, <2>6
    <3> HIDE DEF From
    <3> QED
      BY <2>3, <2>5, <2>6, <3>1
  <2>7. CASE r = row /\ c = W - col - 1
    <3>1. From(r, c)' = col
      BY <1>2, <1>10, <2>7
    <3>2. i = right /\ i # left
      BY <1>8, <2>7
    <3> HIDE DEF From
    <3> QED
      BY <2>3, <2>5, <2>7, <3>1, <3>2
  <2>8. CASE ~(r = row /\ (c = col \/ c = W - col - 1))
    <3>1. i # left
      BY <1>2, <2>1, <2>8, CellOnce
    <3>2. i # right
      BY <1>2, <2>1, <2>8, CellOnce
    <3>3. From(r, c)' = From(r, c)
      BY <1>2, <1>10, <2>1, <2>8
    <3> HIDE DEF From
    <3> QED
      BY <1>9, <2>3, <3>1, <3>2, <3>3 DEF Cell
  <2> QED
    BY <2>6, <2>7, <2>8
<1>12. FlippedSoFar'
  <2>1. InLoop(half, img.height)'
    <3>1. half' = half
      BY <1>1 DEF half
    <3> QED
      BY <1>1, <1>2, <1>3, <1>4, <3>1 DEF InLoop
  <2>2. \A rc : Place(rc)' = Place(rc)
    BY <1>1, SameInput
  <2> QED
    BY <1>1, <1>11, <2>1, <2>2 DEF FlippedSoFar, Rows, Columns, Cell, half
<1>13. Stage'
  BY <1>1 DEF PInv, Stage
<1>14. Sized'
  BY <1>1, SameStep DEF PInv, Sized
<1>15. ReadSoFar' /\ Shown' /\ RotatedSoFar'
  BY <1>1 DEF ReadSoFar, Shown, RotatedSoFar
<1>16. Written'
  BY <1>1 DEF Written, Writing, Succeeded
<1> QED
  BY <1>12, <1>13, <1>14, <1>15, <1>16 DEF PInv

(* With every row flipped, the picture is the mirrored one.                *)
LEMMA FlipDonePixels == IInv /\ PInv /\ FlipDone => PInv'
<1> SUFFICES ASSUME IInv, PInv, FlipDone PROVE PInv'
  OBVIOUS
<1> USE DEF FlipDone, Go, input, memory
<1>1. /\ UNCHANGED <<param, file, out, img, heap>>
      /\ out = << >> /\ pc = "flip" /\ pc' = "transform" /\ pc \in Chosen
  BY DEF PInv, Written, Writing, Chosen
<1>2. Stage /\ todo # << >> /\ Head(todo) = "flip" /\ todo' = Tail(todo)
  BY <1>1 DEF PInv, Stage, IInv, Work
<1>3. /\ todo' = << >> \/ (param = "flipv" /\ todo' = <<"ccw", "ccw">>)
      /\ \A r, c : Came(r, c)' = <<r, file.width - 1 - c>>
      /\ ~OnItsSide' /\ ~OnItsSide
  BY <1>1, <1>2, FlipThen, FlipFirst
<1>4. Stage'
  <2>1. param \in DOMAIN Steps /\ UNCHANGED param
    BY <1>1, <1>2 DEF Stage
  <2> QED
    BY <1>1, <1>3, <2>1 DEF Stage, Writing
<1>5. img.width = file.width /\ Sized'
  BY <1>1, <1>3 DEF PInv, Sized
<1>6. Shown'
  <2>1. img.width \in Nat /\ img.height \in Nat /\ row \in Nat
    BY DEF IInv, TypeOK, Image
  <2>2. row = img.height \/ img.width <= 1
    BY <2>1 DEF Over
  <2>3. ASSUME NEW r \in Rows, NEW c \in Columns
        PROVE  (IF Flipped(r, c) THEN img.width - 1 - c ELSE c) = img.width - 1 - c
    BY <2>1, <2>2 DEF Flipped, Rows, Columns
  <2>4. \A r \in Rows, c \in Columns :
          Cell(img, r * img.width + c) = Place(<<r, img.width - 1 - c>>)
    BY <1>1, <2>3 DEF PInv, FlippedSoFar
  <2>5. \A r, c : Place(Came(r, c))' = Place(<<r, img.width - 1 - c>>)
    BY <1>1, <1>3, <1>5 DEF Place
  <2> QED
    BY <1>1, <2>4, <2>5 DEF Shown, Rows, Columns, Cell
<1>7. ReadSoFar' /\ FlippedSoFar' /\ RotatedSoFar'
  BY <1>1 DEF ReadSoFar, FlippedSoFar, RotatedSoFar
<1>8. Written'
  BY <1>1 DEF Written, Writing, Succeeded
<1> QED
  BY <1>4, <1>5, <1>6, <1>7, <1>8 DEF PInv

(* The new picture takes no cell from the old one.                         *)
LEMMA StartRotatePixels == IInv /\ PInv /\ StartRotate => PInv'
<1> SUFFICES ASSUME IInv, PInv, StartRotate PROVE PInv'
  OBVIOUS
<1> USE DEF StartRotate, Go, Begin, input
<1>1. /\ UNCHANGED <<param, file, out, img, todo>>
      /\ out = << >> /\ pc = "transform" /\ pc' = "rotate" /\ pc \in Chosen
  BY DEF PInv, Written, Writing, Chosen
<1>2. Stage'
  BY <1>1 DEF PInv, Stage, Chosen, Writing
<1>3. Sized'
  BY <1>1, SameStep DEF PInv, Sized, Chosen
<1>4. Shown'
  <2>1. ASSUME NEW r \in Rows, NEW c \in Columns
        PROVE  heap'[img.data][r * img.width + c] = heap[img.data][r * img.width + c]
    <3>1. img.data \in DOMAIN heap
      BY <1>1, OwnCell DEF Finished
    <3>2. ASSUME NEW b \in Free(heap), heap' = malloc(heap, b, img.height * img.width)
          PROVE  heap'[img.data] = heap[img.data]
      <4>1. Grown(heap', heap, b, img.height * img.width)
        BY <3>2, Malloc
      <4>2. b # img.data
        BY <3>1 DEF Free
      <4> QED
        BY <3>1, <4>1, <4>2 DEF Grown
    <3> QED
      BY <3>2
  <2>2. \A r, c : Place(Came(r, c))' = Place(Came(r, c))
    BY <1>1, SameStep
  <2> QED
    BY <1>1, <2>1, <2>2 DEF PInv, Shown, Rows, Columns, Cell
<1>5. RotatedSoFar'
  <2>1. img.width \in Nat /\ img.height \in Nat /\ row' = 0 /\ col' = 0
    BY DEF IInv, TypeOK, Image
  <2>2. InLoop(img.width, img.height)'
    BY <1>1, <2>1 DEF InLoop
  <2>3. \A r \in Rows, c \in Columns : ~Passed(r, c)'
    BY <2>1 DEF Passed, Rows, Columns
  <2> QED
    BY <1>1, <2>2, <2>3 DEF RotatedSoFar, Rows, Columns
<1>6. ReadSoFar' /\ FlippedSoFar'
  BY <1>1 DEF ReadSoFar, FlippedSoFar
<1>7. Written'
  BY <1>1 DEF Written, Writing, Succeeded
<1> QED
  BY <1>2, <1>3, <1>4, <1>5, <1>6, <1>7 DEF PInv

(* The places of a picture turned by rotate_image are its own, and no two  *)
(* pixels go to one.                                                       *)
LEMMA Targets ==
  ASSUME IInv, pc = "rotate", NEW r \in Rows, NEW c \in Columns
  PROVE  /\ Target(r, c) \in 0 .. rotated.width * rotated.height - 1
         /\ \A s \in Rows, d \in Columns :
              Target(r, c) = Target(s, d) => s = r /\ d = c
<1>1. /\ img.width \in Nat /\ img.height \in Nat
      /\ rotated.width = img.height /\ rotated.height = img.width
  BY DEF IInv, TypeOK, Image, Pictures
<1>2. \A s \in Rows : s \in Nat /\ img.height - 1 - s \in 0 .. img.height - 1 /\ s \in 0 .. img.height - 1
  BY <1>1 DEF Rows
<1>3. \A d \in Columns : d \in Nat /\ img.width - 1 - d \in 0 .. img.width - 1 /\ d \in 0 .. img.width - 1
  BY <1>1 DEF Columns
<1>4. CASE Head(todo) = "ccw"
  <2>1. \A s, d : Target(s, d) = d * img.height + (img.height - 1 - s)
    BY <1>4 DEF Target
  <2>2. Target(r, c) \in 0 .. rotated.width * rotated.height - 1
    BY <1>1, <1>2, <1>3, <2>1, CellIndex
  <2>3. ASSUME NEW s \in Rows, NEW d \in Columns, Target(r, c) = Target(s, d)
        PROVE  s = r /\ d = c
    <3>1. c * img.height + (img.height - 1 - r) = d * img.height + (img.height - 1 - s)
      BY <2>1, <2>3
    <3>2. /\ c \in Nat /\ d \in Nat
          /\ img.height - 1 - r \in 0 .. img.height - 1
          /\ img.height - 1 - s \in 0 .. img.height - 1
      BY <1>2, <1>3
    <3>3. d = c /\ img.height - 1 - s = img.height - 1 - r
      BY <1>1, <3>1, <3>2, CellOnce
    <3> QED
      BY <1>1, <1>2, <3>3
  <2> QED
    BY <2>2, <2>3
<1>5. CASE Head(todo) # "ccw"
  <2>1. \A s, d : Target(s, d) = (img.width - 1 - d) * img.height + s
    BY <1>5 DEF Target
  <2>2. Target(r, c) \in 0 .. rotated.width * rotated.height - 1
    BY <1>1, <1>2, <1>3, <2>1, CellIndex
  <2>3. ASSUME NEW s \in Rows, NEW d \in Columns, Target(r, c) = Target(s, d)
        PROVE  s = r /\ d = c
    <3>1. s = r /\ img.width - 1 - d = img.width - 1 - c
      BY <1>1, <1>2, <1>3, <2>1, <2>3, CellOnce
    <3> QED
      BY <1>1, <1>3, <3>1
  <2> QED
    BY <2>2, <2>3
<1> QED
  BY <1>4, <1>5

(* A pixel is copied to its place, over no other.                          *)
LEMMA RotatePixels == IInv /\ PInv /\ Rotate => PInv'
<1> SUFFICES ASSUME IInv, PInv, Rotate PROVE PInv'
  OBVIOUS
<1> DEFINE W == img.width
           H == img.height
           from == row * W + col
           to == new_index(direction)
<1>1. /\ UNCHANGED <<param, file, out, img, todo, pc, rotated>>
      /\ out = << >> /\ pc = "rotate" /\ pc \in Chosen
  BY DEF Rotate, PInv, Written, Writing, Chosen, control, input
<1>2. /\ W \in Nat /\ H \in Nat /\ row \in Nat /\ col \in Nat
      /\ rotated.width = H /\ rotated.height = W
  BY <1>1 DEF IInv, TypeOK, Image, Pictures
<1>3. row < H /\ W > 0 /\ col < W /\ rotated.data # NULL
  BY <1>1, <1>2 DEF Rotate, Over, PInv, RotatedSoFar, InLoop
<1>4. row \in Rows /\ col \in Columns
  BY <1>2, <1>3 DEF Rows, Columns
<1>5. IF col + 1 < W THEN col' = col + 1 /\ row' = row
                     ELSE col' = 0 /\ row' = row + 1
  BY DEF Rotate, Advance
<1>6. to = Target(row, col)
  BY <1>2 DEF new_index, direction, Target
<1>7. get_pixel(heap, img, from) = Place(Came(row, col))
  <2>1. get_pixel(heap, img, from) = Cell(img, from)
    BY <1>1, <1>4, OwnCell DEF get_pixel, Finished, Cell
  <2> QED
    BY <1>1, <1>4, <2>1 DEF PInv, Shown
<1>8. heap' = set_pixel(heap, rotated, to, Place(Came(row, col)))
  BY <1>7 DEF Rotate
<1>9. /\ rotated.data \in DOMAIN heap /\ rotated.data # img.data
      /\ DOMAIN heap[rotated.data] = 0 .. rotated.width * rotated.height - 1
  BY <1>1, <1>3 DEF IInv, HeapOwned, Finished
<1>10. to \in DOMAIN heap[rotated.data] /\ is_valid_index(rotated, to)
  <2>1. to \in 0 .. rotated.width * rotated.height - 1
    BY <1>1, <1>4, <1>6, Targets
  <2>2. rotated.width * rotated.height \in Nat
    BY <1>2
  <2> QED
    BY <1>9, <2>1, <2>2 DEF is_valid_index
<1> HIDE DEF from, to
<1>11. \A x \in DOMAIN heap : \A j \in DOMAIN heap[x] :
         heap'[x][j] = IF x = rotated.data /\ j = to THEN Place(Came(row, col))
                                                     ELSE heap[x][j]
  <2> TAKE x \in DOMAIN heap
  <2> TAKE j \in DOMAIN heap[x]
  <2>1. set_pixel(heap, rotated, to, Place(Came(row, col)))[x][j] =
          IF x = rotated.data /\ j = to THEN Place(Came(row, col)) ELSE heap[x][j]
    BY <1>9, <1>10 DEF set_pixel
  <2> QED
    BY <1>8, <2>1, Zenon
<1>12. \A r, c : Place(Came(r, c))' = Place(Came(r, c))
  BY <1>1, SameStep
<1>13. Shown'
  <2>1. ASSUME NEW r \in Rows, NEW c \in Columns
        PROVE  heap'[img.data][r * img.width + c] = heap[img.data][r * img.width + c]
    <3>1. img.data \in DOMAIN heap /\ r * img.width + c \in DOMAIN heap[img.data]
      BY <1>1, OwnCell DEF Finished
    <3> QED
      BY <1>9, <1>11, <3>1
  <2> QED
    BY <1>1, <1>12, <2>1 DEF PInv, Shown, Rows, Columns, Cell
<1>14. ASSUME NEW r \in Rows, NEW c \in Columns, Passed(r, c)'
       PROVE  heap'[rotated.data][Target(r, c)] = Place(Came(r, c))
  <2>1. Target(r, c) \in DOMAIN heap[rotated.data]
    BY <1>1, <1>9, Targets
  <2>2. heap'[rotated.data][Target(r, c)] =
          IF Target(r, c) = to THEN Place(Came(row, col))
                               ELSE heap[rotated.data][Target(r, c)]
    BY <1>9, <1>11, <2>1
  <2>3. Passed(r, c) \/ (r = row /\ c = col)
    BY <1>2, <1>3, <1>5, <1>14 DEF Passed, Rows, Columns
  <2>4. CASE r = row /\ c = col
    BY <1>6, <2>2, <2>4
  <2>5. CASE Passed(r, c) /\ ~(r = row /\ c = col)
    <3>1. Target(r, c) # to
      BY <1>1, <1>4, <1>6, <2>5, Targets
    <3>2. heap[rotated.data][Target(r, c)] = Place(Came(r, c))
      BY <1>1, <1>3, <2>5 DEF PInv, RotatedSoFar, Cell
    <3> QED
      BY <2>2, <3>1, <3>2
  <2> QED
    BY <2>3, <2>4, <2>5
<1>15. RotatedSoFar'
  <2>1. InLoop(W, H)'
    BY <1>1, <1>2, <1>3, <1>5 DEF InLoop
  <2>2. \A r, c : Target(r, c)' = Target(r, c)
    BY <1>1 DEF Target
  <2> QED
    BY <1>1, <1>12, <1>14, <2>1, <2>2 DEF RotatedSoFar, Rows, Columns, Cell
<1>16. Stage'
  BY <1>1 DEF PInv, Stage
<1>17. Sized'
  BY <1>1, SameStep DEF PInv, Sized
<1>18. ReadSoFar' /\ FlippedSoFar'
  BY <1>1 DEF ReadSoFar, FlippedSoFar
<1>19. Written'
  BY <1>1 DEF Written, Writing, Succeeded
<1> QED
  BY <1>13, <1>15, <1>16, <1>17, <1>18, <1>19 DEF PInv

(* Killed, the program has written nothing.                                *)
LEMMA RotateCrashPixels == IInv /\ PInv /\ RotateCrash => PInv'
<1> SUFFICES ASSUME IInv, PInv, RotateCrash PROVE PInv'
  OBVIOUS
<1>1. UNCHANGED <<param, file, out>> /\ out = << >> /\ pc' = "crashed"
  BY DEF RotateCrash, Go, input, PInv, Written, Writing
<1>2. pc' \notin Chosen \cup {"read_row", "read_skip"}
  BY <1>1 DEF Chosen, Writing
<1> QED
  BY <1>1, <1>2, GivesUp

(* With every pixel copied, the new picture is the old one turned.         *)
LEMMA RotateDonePixels == IInv /\ PInv /\ RotateDone => PInv'
<1> SUFFICES ASSUME IInv, PInv, RotateDone PROVE PInv'
  OBVIOUS
<1>1. /\ UNCHANGED <<param, file, out>> /\ img' = rotated /\ todo' = Tail(todo)
      /\ heap' = free(heap, img.data) /\ Over(img.width, img.height)
      /\ out = << >> /\ pc = "rotate" /\ pc' = "transform" /\ pc \in Chosen
  BY DEF RotateDone, Go, input, PInv, Written, Writing, Chosen
<1>2. Stage /\ Sized /\ todo # << >> /\ Head(todo) \in {"ccw", "cw"}
  BY <1>1 DEF PInv, Stage, IInv, Work
<1>3. /\ img.width \in Nat /\ img.height \in Nat /\ row \in Nat
      /\ rotated.width = img.height /\ rotated.height = img.width
      /\ rotated.data = NULL => row = 0
  BY <1>1 DEF IInv, TypeOK, Image, Pictures
<1>4. /\ todo' = << >> \/ (param = "flipv" /\ todo' = <<"ccw">>)
      /\ (OnItsSide' <=> ~OnItsSide)
      /\ \A r, c \in Int :
           Came(r, c)' = IF Head(todo) = "ccw" THEN Came(img.height - 1 - c, r)
                                               ELSE Came(c, img.width - 1 - r)
  BY <1>1, <1>2, RotateThen
<1>5. Stage'
  <2>1. param \in DOMAIN Steps /\ UNCHANGED param
    BY <1>1, <1>2 DEF Stage
  <2> QED
    BY <1>1, <1>4, <2>1 DEF Stage, Writing
<1>6. Sized'
  BY <1>1, <1>2, <1>3, <1>4 DEF Sized
<1>7. Shown'
  <2>1. ASSUME NEW r \in 0 .. img.width - 1, NEW c \in 0 .. img.height - 1
        PROVE  heap'[rotated.data][r * img.height + c] = Place(Came(r, c)')
    <3>1. \A s \in Rows, d \in Columns : Passed(s, d)
      BY <1>1, <1>3 DEF Over, Passed, Rows, Columns
    <3>2. rotated.data # NULL
      BY <1>1, <1>3 DEF Over
    <3>3. \A s \in Rows, d \in Columns :
            heap[rotated.data][Target(s, d)] = Place(Came(s, d))
      BY <1>1, <3>1, <3>2 DEF PInv, RotatedSoFar, Cell
    <3>4. heap'[rotated.data] = heap[rotated.data]
      <4>1. Shrunk(heap', heap, img.data)
        BY <1>1, FreeOne
      <4>2. rotated.data \in DOMAIN heap /\ rotated.data # img.data
        BY <1>1, <3>2 DEF IInv, HeapOwned, Finished
      <4> QED
        BY <4>1, <4>2 DEF Shrunk
    <3>5. CASE Head(todo) = "ccw"
      <4> DEFINE s == img.height - 1 - c
      <4>1. s \in Rows /\ r \in Columns
        BY <1>3 DEF Rows, Columns
      <4>2. Target(s, r) = r * img.height + c
        <5>1. img.height - 1 - s = c
          BY <1>3
        <5> QED
          BY <3>5, <5>1 DEF Target
      <4>3. Came(r, c)' = Came(s, r)
        BY <1>4, <3>5
      <4> HIDE DEF s
      <4> QED
        BY <3>3, <3>4, <4>1, <4>2, <4>3
    <3>6. CASE Head(todo) # "ccw"
      <4> DEFINE d == img.width - 1 - r
      <4>1. c \in Rows /\ d \in Columns
        BY <1>3 DEF Rows, Columns
      <4>2. Target(c, d) = r * img.height + c
        <5>1. img.width - 1 - d = r
          BY <1>3
        <5> QED
          BY <3>6, <5>1 DEF Target
      <4>3. Came(r, c)' = Came(c, d)
        BY <1>4, <3>6
      <4> HIDE DEF d
      <4> QED
        BY <3>3, <3>4, <4>1, <4>2, <4>3
    <3> QED
      BY <3>5, <3>6
  <2>2. \A rc : Place(rc)' = Place(rc)
    BY <1>1, SameInput
  <2>3. \A r, c : Place(Came(r, c))' = Place(Came(r, c)')
    BY <1>1 DEF Place
  <2> QED
    BY <1>1, <1>3, <2>1, <2>3 DEF Shown, Rows, Columns, Cell
<1>8. ReadSoFar' /\ FlippedSoFar' /\ RotatedSoFar'
  BY <1>1 DEF ReadSoFar, FlippedSoFar, RotatedSoFar
<1>9. Written'
  BY <1>1 DEF Written, Writing, Succeeded
<1> QED
  BY <1>5, <1>6, <1>7, <1>8, <1>9 DEF PInv

-----------------------------------------------------------------------------
(* to_bmp                                                                  *)

(* While it is written, the picture is the right one.                      *)
LEMMA WritingIs ==
  ASSUME IInv, PInv, pc \in Writing
  PROVE  /\ img.width = Width /\ img.height = Height
         /\ \A r \in Rows, c \in Columns :
              Cell(img, r * img.width + c) = Place(Source(r, c))
<1>1. todo = << >> /\ pc \in Chosen /\ pc # "flip"
  BY DEF PInv, Stage, Chosen, Writing
<1>2. OnItsSide <=> Turned
  BY <1>1, Tails DEF OnItsSide, Midway
<1>3. img.width = Width /\ img.height = Height
  BY <1>1, <1>2 DEF PInv, Sized, Width, Height
<1>4. \A r, c : Came(r, c) = Source(r, c)
  <2>1. ~Midway
    BY <1>1, Tails DEF Midway
  <2> QED
    BY <1>1, <2>1, Tails DEF Came
<1>5. \A r \in Rows, c \in Columns : Cell(img, r * img.width + c) = Place(Came(r, c))
  BY <1>1 DEF PInv, Shown
<1> QED
  BY <1>3, <1>4, <1>5

(* One step on in writing it.                                              *)
LEMMA WritingStep ==
  ASSUME IInv, PInv, pc \in Writing \cup {"transform"}, pc' \in Writing,
         todo = << >>, UNCHANGED <<param, file, todo, img, heap>>, Written'
  PROVE  PInv'
<1>1. pc \in Chosen /\ pc' \in Chosen /\ pc # "flip" /\ pc' \notin {"flip", "rotate"}
  BY DEF Chosen, Writing
<1>2. Stage'
  BY <1>1 DEF PInv, Stage
<1>3. Sized'
  BY <1>1, SameStep DEF PInv, Sized
<1>4. Shown'
  BY <1>1, SameStep DEF PInv, Shown, Rows, Columns, Cell
<1>5. ReadSoFar' /\ FlippedSoFar' /\ RotatedSoFar'
  BY DEF ReadSoFar, FlippedSoFar, RotatedSoFar, Writing
<1> QED
  BY <1>2, <1>3, <1>4, <1>5 DEF PInv

(* What is written is always a beginning of the right output.              *)
LEMMA WrittenIs ==
  ASSUME IInv, PInv
  PROVE  \E n \in 0 .. Total : out = Beginning(n)
<1>1. /\ Width \in Nat /\ Height \in Nat /\ RowLength \in Nat /\ Width <= RowLength
      /\ Total \in Nat /\ Total = 1 + Height * RowLength
  BY RightSizes DEF IInv
<1>2. row \in Nat
  BY DEF IInv, TypeOK
<1>3. CASE pc \notin {"write_row", "write_padding", "exited"}
  BY <1>1, <1>3, NoneWritten DEF PInv, Written, Writing
<1>4. CASE pc = "write_row"
  <2>1. row <= Height /\ out = Beginning(1 + row * RowLength)
    BY <1>4 DEF PInv, Written
  <2>2. row * RowLength <= Height * RowLength /\ row * RowLength \in Nat
    BY <1>1, <1>2, <2>1
  <2>3. 1 + row * RowLength \in 0 .. Total
    BY <1>1, <2>2
  <2> QED
    BY <2>1, <2>3
<1>5. CASE pc = "write_padding"
  <2>1. row + 1 <= Height /\ out = Beginning(1 + row * RowLength + Width)
    BY <1>1, <1>2, <1>5 DEF PInv, Written
  <2>2. (row + 1) * RowLength <= Height * RowLength
    BY <1>1, <1>2, <2>1
  <2>3. (row + 1) * RowLength = row * RowLength + RowLength /\ row * RowLength \in Nat
    BY <1>1, <1>2
  <2>4. 1 + row * RowLength + Width \in 0 .. Total
    BY <1>1, <2>2, <2>3
  <2> QED
    BY <2>1, <2>4
<1>6. CASE pc = "exited"
  BY <1>6 DEF PInv, Written
<1> QED
  BY <1>3, <1>4, <1>5, <1>6

(* Giving up on the way.                                                   *)
LEMMA WritingStops ==
  ASSUME IInv, PInv, pc \in Writing, UNCHANGED <<param, file, out>>,
         pc' = "exited", code' # 0
  PROVE  PInv'
<1>1. \E n \in 0 .. Total : out = Beginning(n)
  BY WrittenIs
<1>2. pc' \notin Chosen \cup {"read_row", "read_skip"}
  BY DEF Chosen, Writing
<1> QED
  BY <1>1, <1>2, Outside DEF Succeeded

(* The output file is opened, which empties it.                            *)
LEMMA OpenOutputPixels == IInv /\ PInv /\ OpenOutput => PInv'
<1> SUFFICES ASSUME IInv, PInv, OpenOutput PROVE PInv'
  OBVIOUS
<1> USE DEF OpenOutput, Go, Exit, input, memory, loops
<1>1. UNCHANGED <<param, file, todo, img, heap>> /\ out = << >> /\ pc = "transform" /\ todo = << >>
  BY DEF PInv, Written, Writing
<1>2. CASE pc' = "exited"
  <2>1. pc' \notin Chosen \cup {"read_row", "read_skip"} /\ code' # 0 /\ UNCHANGED out
    BY <1>2 DEF Chosen, Writing
  <2> QED
    BY <1>1, <2>1, GivesUp
<1>3. CASE pc' = "write_header"
  <2>1. Written'
    BY <1>3 DEF Written, Writing, Succeeded
  <2> QED
    BY <1>1, <1>3, <2>1, WritingStep DEF Writing
<1> QED
  BY <1>2, <1>3

(* The header has the picture's sizes.                                     *)
LEMMA WriteHeaderPixels == IInv /\ PInv /\ WriteHeader => PInv'
<1> SUFFICES ASSUME IInv, PInv, WriteHeader PROVE PInv'
  OBVIOUS
<1> USE DEF WriteHeader, WriteFails, Go, Exit, input, memory
<1>1. UNCHANGED <<param, file, todo, img, heap>> /\ pc \in Writing /\ todo = << >>
  BY DEF Writing, PInv, Stage
<1>2. CASE pc' = "exited"
  BY <1>1, <1>2, WritingStops
<1>3. CASE pc' = "write_row"
  <2>1. out' = <<header(img)>> /\ row' = 0
    BY <1>3
  <2>2. /\ Width \in Nat /\ Height \in Nat /\ RowLength \in Nat
        /\ Stride(Width) = 3 * Width + get_padding(Width)
        /\ get_padding(Width) \in Nat
    BY RightSizes DEF IInv
  <2>3. header(img) = RightHeader
    <3>1. img.width = Width /\ img.height = Height
      BY <1>1, WritingIs
    <3>2. img.width * 3 + get_padding(img.width) = Stride(Width)
      BY <2>2, <3>1
    <3> QED
      BY <3>1, <3>2 DEF header, RightHeader
  <2>4. Beginning(1 + 0 * RowLength) = <<RightHeader>>
    <3>1. Right[1] = RightHeader
      BY RightIs DEF IInv
    <3>2. 1 + 0 * RowLength = 1
      BY <2>2
    <3> QED
      BY <3>1, <3>2 DEF Beginning
  <2>5. Written'
    <3>1. RowLength' = RowLength /\ Height' = Height /\ \A n : Beginning(n)' = Beginning(n)
      BY <1>1, SameInput
    <3> QED
      BY <1>3, <2>1, <2>2, <2>3, <2>4, <3>1 DEF Written, Writing, Succeeded
  <2> QED
    BY <1>1, <1>3, <2>5, WritingStep DEF Writing
<1> QED
  BY <1>2, <1>3

(* A row of pixels is the next row of the right output.                    *)
LEMMA WriteRowPixels == IInv /\ PInv /\ WriteRow => PInv'
<1> SUFFICES ASSUME IInv, PInv, WriteRow PROVE PInv'
  OBVIOUS
<1> USE DEF WriteRow, WriteFails, Go, Exit, input, memory, loops
<1>1. /\ UNCHANGED <<param, file, todo, img, heap, row>>
      /\ pc = "write_row" /\ pc \in Writing /\ todo = << >>
  BY DEF Writing, PInv, Stage
<1>2. CASE pc' = "exited"
  BY <1>1, <1>2, WritingStops
<1>3. CASE pc' = "write_padding"
  <2> DEFINE n == 1 + row * RowLength
             part == Pixels(row)
  <2>1. out' = out \o part /\ row < img.height
    BY <1>3 DEF rows_left
  <2>2. /\ Width \in Nat /\ Height \in Nat /\ RowLength \in Nat /\ Width <= RowLength
        /\ Total \in Nat /\ Total = 1 + Height * RowLength /\ row \in Nat
    BY RightSizes DEF IInv, TypeOK
  <2>3. img.width = Width /\ img.height = Height
    BY <1>1, WritingIs
  <2>4. out = Beginning(n)
    BY <1>1 DEF PInv, Written
  <2>5. n \in Nat /\ n + Width <= Total
    <3>1. (row + 1) * RowLength <= Height * RowLength
      BY <2>1, <2>2, <2>3
    <3>2. (row + 1) * RowLength = row * RowLength + RowLength /\ row * RowLength \in Nat
      BY <2>2
    <3> QED
      BY <2>2, <3>1, <3>2
  <2>6. ASSUME NEW i \in 1 .. Width PROVE part[i] = Right[n + i]
    <3>1. part[i] = heap[img.data][row * img.width + i - 1]
      BY <2>3 DEF Pixels
    <3>2. row \in Rows /\ i - 1 \in Columns /\ row \in 0 .. Height - 1 /\ i - 1 \in 0 .. RowLength - 1
      BY <2>1, <2>2, <2>3 DEF Rows, Columns
    <3>3. row * img.width + i - 1 = row * img.width + (i - 1)
      BY <2>2, <2>3
    <3>4. part[i] = Place(Source(row, i - 1))
      BY <1>1, <3>1, <3>2, <3>3, WritingIs DEF Cell
    <3>5. Right[2 + row * RowLength + (i - 1)] = Place(Source(row, i - 1))
      BY <2>2, <3>2, RightIs DEF IInv
    <3>6. 2 + row * RowLength + (i - 1) = n + i
      <4>1. row * RowLength \in Nat
        BY <2>2
      <4> QED
        BY <4>1
    <3> QED
      BY <3>4, <3>5, <3>6
  <2>7. part = [i \in 1 .. Width |-> part[i]]
    BY <2>3 DEF Pixels
  <2> HIDE DEF n, part
  <2>8. out' = Beginning(n + Width)
    BY <2>1, <2>2, <2>4, <2>5, <2>6, <2>7, Longer DEF IInv
  <2>9. Written'
    <3>1. /\ RowLength' = RowLength /\ Height' = Height /\ Width' = Width
          /\ \A k : Beginning(k)' = Beginning(k)
      BY <1>1, SameInput
    <3> QED
      BY <1>1, <1>3, <2>1, <2>3, <2>8, <3>1 DEF Written, Writing, Succeeded, n
  <2> QED
    BY <1>1, <1>3, <2>9, WritingStep DEF Writing
<1> QED
  BY <1>2, <1>3

(* And so is its padding; without any, to_bmp gives up here.               *)
LEMMA WritePaddingPixels == IInv /\ PInv /\ WritePadding => PInv'
<1> SUFFICES ASSUME IInv, PInv, WritePadding PROVE PInv'
  OBVIOUS
<1> USE DEF WritePadding, WriteFails, Go, Exit, input, memory
<1>1. /\ UNCHANGED <<param, file, todo, img, heap>>
      /\ pc = "write_padding" /\ pc \in Writing /\ todo = << >>
  BY DEF Writing, PInv, Stage
<1>2. CASE pc' = "exited"
  BY <1>1, <1>2, WritingStops
<1>3. CASE pc' = "write_row"
  <2> DEFINE n == 1 + row * RowLength + Width
             m == get_padding(Width)
             part == [i \in 1 .. m |-> Pad]
  <2>1. img.width = Width /\ img.height = Height
    BY <1>1, WritingIs
  <2>2. out' = out \o part /\ row' = row + 1
    BY <1>3, <2>1
  <2>3. /\ Width \in Nat /\ Height \in Nat /\ RowLength \in Nat /\ RowLength = Width + m
        /\ Total \in Nat /\ Total = 1 + Height * RowLength /\ row \in Nat /\ m \in Nat
    BY RightSizes DEF IInv, TypeOK
  <2> HIDE DEF m
  <2>4. row < Height /\ out = Beginning(n)
    BY <1>1 DEF PInv, Written
  <2>5. row * RowLength \in Nat /\ (row + 1) * RowLength = row * RowLength + RowLength
    BY <2>3
  <2>6. n \in Nat /\ n + m = 1 + (row + 1) * RowLength
    BY <2>3, <2>5
  <2>7. n + m <= Total
    <3>1. (row + 1) * RowLength <= Height * RowLength
      BY <2>3, <2>4
    <3> QED
      BY <2>3, <2>5, <2>6, <3>1
  <2>8. ASSUME NEW i \in 1 .. m PROVE part[i] = Right[n + i]
    <3>1. row \in 0 .. Height - 1 /\ Width + i - 1 \in 0 .. RowLength - 1 /\ ~(Width + i - 1 < Width)
      BY <2>3, <2>4
    <3>2. Right[2 + row * RowLength + (Width + i - 1)] = Pad
      BY <3>1, RightIs DEF IInv
    <3>3. 2 + row * RowLength + (Width + i - 1) = n + i
      BY <2>3, <2>5
    <3> QED
      BY <3>2, <3>3
  <2>9. part = [i \in 1 .. m |-> part[i]]
    OBVIOUS
  <2> HIDE DEF n, part
  <2>10. out' = Beginning(n + m)
    BY <2>2, <2>3, <2>4, <2>6, <2>7, <2>8, <2>9, Longer DEF IInv
  <2>11. Written'
    <3>1. /\ RowLength' = RowLength /\ Height' = Height
          /\ \A k : Beginning(k)' = Beginning(k)
      BY <1>1, SameInput
    <3>2. row' <= Height
      BY <2>2, <2>3, <2>4
    <3> QED
      BY <1>3, <2>2, <2>6, <2>10, <3>1, <3>2 DEF Written, Writing, Succeeded
  <2> QED
    BY <1>1, <1>3, <2>11, WritingStep DEF Writing
<1> QED
  BY <1>2, <1>3

(* main returns 0 with every row written.                                  *)
LEMMA WriteDonePixels == IInv /\ PInv /\ WriteDone => PInv'
<1> SUFFICES ASSUME IInv, PInv, WriteDone PROVE PInv'
  OBVIOUS
<1>1. /\ UNCHANGED <<param, file, out>> /\ ~rows_left
      /\ pc = "write_row" /\ pc \in Writing /\ pc' = "exited"
  BY DEF WriteDone, Exit, input, loops, Writing
<1>2. /\ Height \in Nat /\ RowLength \in Nat /\ row \in Nat
      /\ Total \in Nat /\ Total = 1 + Height * RowLength
  BY RightSizes DEF IInv, TypeOK
<1>3. row = Height
  BY <1>1, <1>2, WritingIs DEF PInv, Written, rows_left
<1>4. out = Beginning(Total)
  BY <1>1, <1>2, <1>3 DEF PInv, Written
<1>5. Total \in 0 .. Total
  BY <1>2
<1>6. pc' \notin Chosen \cup {"read_row", "read_skip"}
  BY <1>1 DEF Chosen, Writing
<1> QED
  BY <1>1, <1>4, <1>5, <1>6, Outside

-----------------------------------------------------------------------------
(* The theorems that follow from PInv                                      *)

(* PInv holds at every turn of every loop, whichever calls of the C        *)
(* library fail.                                                           *)
THEOREM PixelInvariance == Spec => []PInv
<1>1. Init => PInv
  <2> SUFFICES ASSUME Init PROVE PInv
    OBVIOUS
  <2>1. pc = "start" /\ out = << >>
    BY DEF Init
  <2> QED
    BY <2>1 DEF PInv, Stage, Sized, ReadSoFar, FlippedSoFar, Shown, RotatedSoFar,
                Written, Chosen, Writing, Succeeded
<1>2. ASSUME IInv, PInv, [Next]_vars PROVE PInv'
  <2>1. CASE Read
    BY <1>2, <2>1, BeforePixels, CreateImagePixels, ReadRowPixels,
       SkipPaddingPixels, ReadDonePixels DEF Read
  <2>2. CASE Transform
    BY <1>2, <2>2, StartFlipPixels, FlipPixels, FlipDonePixels, StartRotatePixels,
       RotatePixels, RotateCrashPixels, RotateDonePixels DEF Transform
  <2>3. CASE Write
    BY <1>2, <2>3, OpenOutputPixels, WriteHeaderPixels, WriteRowPixels,
       WritePaddingPixels, WriteDonePixels DEF Write
  <2>4. CASE UNCHANGED vars
    <3>1. UNCHANGED <<param, file, todo, pc, code, img, rotated, heap, row, col, out>>
      BY <2>4 DEF vars, control, input, memory, loops
    <3>2. Stage' /\ Sized' /\ ReadSoFar'
      BY <1>2, <3>1, SameStep, SameInput
         DEF PInv, Stage, Sized, ReadSoFar, Rows, Columns, Cell
    <3>3. FlippedSoFar'
      BY <1>2, <3>1, SameInput
         DEF PInv, FlippedSoFar, Flipped, InLoop, Rows, Columns, Cell
    <3>4. Shown' /\ RotatedSoFar'
      BY <1>2, <3>1, SameStep
         DEF PInv, Shown, RotatedSoFar, Target, Passed, InLoop, Rows, Columns, Cell
    <3>5. Written'
      BY <1>2, <3>1, SameInput DEF PInv, Written, Succeeded
    <3> QED
      BY <3>2, <3>3, <3>4, <3>5 DEF PInv
  <2> QED
    BY <1>2, <2>1, <2>2, <2>3, <2>4 DEF Next
<1> QED
  BY <1>1, <1>2, Invariance, PTL DEF Spec

(* At any moment the output file holds the beginning of the right picture, *)
(* mirrored and turned as the parameter says, and never anything else.     *)
THEOREM PrefixOfRight == Spec => []OutputIsPrefix
<1>1. IInv /\ PInv => OutputIsPrefix
  <2> SUFFICES ASSUME IInv, PInv PROVE OutputIsPrefix
    OBVIOUS
  <2>1. \E n \in 0 .. Total : out = Beginning(n)
    BY WrittenIs
  <2> QED
    BY <2>1, Beginnings DEF IInv, OutputIsPrefix, Right
<1> QED
  BY <1>1, Invariance, PixelInvariance, PTL

(* When main returns 0 the output is whole, and nothing is left allocated. *)
THEOREM Complete == Spec => []SuccessIsComplete
<1>1. IInv /\ PInv => SuccessIsComplete
  <2> SUFFICES ASSUME IInv, PInv PROVE SuccessIsComplete
    OBVIOUS
  <2>1. Right = Beginning(Total)
    BY RightIs DEF IInv
  <2> QED
    BY <2>1 DEF IInv, PInv, Written, SuccessIsComplete, Right
<1> QED
  BY <1>1, Invariance, PixelInvariance, PTL
=============================================================================
